-------------------------- MODULE MCOnlineProtocol --------------------------
(***************************************************************************)
(* Small instances of OnlineProtocol: four seats, of which two or three    *)
(* author commands, with identifiers that collide on purpose.              *)
(***************************************************************************)
EXTENDS OnlineProtocol, TLC

CONSTANTS a, b, c, d, table, c1, c2, play, pass

Draft(p, id, payload) ==
  [participantId |-> p, cap |-> p, commandId |-> id, actor |-> p,
   payload |-> payload, skew |-> 0]

(* One player plays and leaves, two others leave, so that the room may finish
   while commands are still queued.  A draft that is authored again on another
   base reuses its identifier for another request, and all choose the same. *)
RaceDrafts == {Draft(a, c1, play), Draft(a, c2, "concession"),
               Draft(b, c1, "concession"), Draft(c, c1, "concession")}
Leavers == Permutations({b, c})

(* One envelope for every check that refuses a command before the Core, and
   the turn progress a client may not send itself. *)
OddDrafts == {Draft(a, c1, play), Draft(a, c2, pass),
              Draft(b, c1, "concession"),
              [Draft(table, c1, play) EXCEPT !.actor = a],
              [Draft(b, c2, play) EXCEPT !.cap = a],
              [Draft(b, c1, play) EXCEPT !.actor = a],
              [Draft(b, c2, play) EXCEPT !.skew = 1]}
=============================================================================
