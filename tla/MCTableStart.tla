---------------------------- MODULE MCTableStart ----------------------------
(***************************************************************************)
(* A host, three guests who contend for one seat of a lobby for two, and a *)
(* table of four that just started.  Hands of three cards instead of seven *)
(* leave three mulligans (four at a table of four).                        *)
(***************************************************************************)
EXTENDS TableStart, TLC

CONSTANTS h, p, q, r, d1, d2

Alike == Permutations({p, q, r}) \union Permutations({d1, d2})
=============================================================================
