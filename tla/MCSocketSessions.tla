-------------------------- MODULE MCSocketSessions --------------------------
(***************************************************************************)
(* Small instances of SocketSessions: two players, three connections.      *)
(***************************************************************************)
EXTENDS SocketSessions, TLC

CONSTANTS a, b, table, s1, s2, s3, t1, t2

(* Connections are alike, and so are capabilities. *)
Alike == Permutations(Sockets) \union Permutations(Tokens)
=============================================================================
