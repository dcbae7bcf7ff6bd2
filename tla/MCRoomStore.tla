---------------------------- MODULE MCRoomStore ----------------------------
(***************************************************************************)
(* A small instance of RoomStore: a checkpoint at every second or third    *)
(* revision instead of every 64th, two named versions and one without a    *)
(* name.                                                                   *)
(***************************************************************************)
EXTENDS RoomStore, TLC

CONSTANTS a, b, c, v1, v2, play

Symmetry == Permutations(Players \ Absentees) \union Permutations(Versions)
=============================================================================
