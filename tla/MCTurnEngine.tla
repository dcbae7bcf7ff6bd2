---------------------------- MODULE MCTurnEngine ----------------------------
(***************************************************************************)
(* A small instance of TurnEngine: a table of two, which skips the first   *)
(* draw step, and a table of three, with two abilities of one player, one  *)
(* of another that is placed last, and a spell.                            *)
(***************************************************************************)
EXTENDS TurnEngine, TLC

CONSTANTS p, q, r, t1, t2, t3, spell

Tables      == {<<p, q>>, <<q, r, p>>}
Controllers == (t1 :> p) @@ (t2 :> q) @@ (t3 :> q) @@ (spell :> q)
Buckets     == (t1 :> 1) @@ (t2 :> 1) @@ (t3 :> 2) @@ (spell :> 1)
OneCard     == [x \in Players |-> 1]
=============================================================================
