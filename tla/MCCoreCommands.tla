--------------------------- MODULE MCCoreCommands ---------------------------
(***************************************************************************)
(* A small instance of CoreCommands: a table of three with responses,      *)
(* manual entries, HOLDs and a player who leaves.                          *)
(***************************************************************************)
EXTENDS CoreCommands, TLC

CONSTANTS p, q, r, s1, s2, bear, wall

Three == <<p, q, r>>
Controllers == (s1 :> p) @@ (s2 :> q)
Buckets     == (s1 :> 1) @@ (s2 :> 1)
Owners      == (bear :> p) @@ (wall :> q)
OneCard     == [x \in Players |-> IF x = r THEN 0 ELSE 1]
OneInFront  == [x \in Players |-> IF x = p THEN 1 ELSE 0]
=============================================================================
