-------------------------- MODULE MCDeckSubmission --------------------------
(***************************************************************************)
(* A small instance of DeckSubmission: two seats, the second of which      *)
(* changes hands.                                                          *)
(***************************************************************************)
EXTENDS DeckSubmission

CONSTANTS h, p, q, h1, p1, p2, p3, q1, elves, goblins

Submit(who, id, content, form) ==
  [participant |-> who, id |-> id, content |-> content, form |-> form]

(* The first tenant submits twice, reuses an identifier for another deck and
   sends bodies that cannot be read. *)
TwoTenants == {Submit(h, h1, elves, "sound"),
               Submit(p, p1, elves, "sound"), Submit(p, p2, goblins, "sound"),
               Submit(p, p1, goblins, "sound"),
               Submit(p, p3, None, "garbled"), Submit(p, p3, None, "unreadable"),
               Submit(q, q1, elves, "sound")}
=============================================================================
