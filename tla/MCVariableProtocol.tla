------------------------- MODULE MCVariableProtocol -------------------------
(***************************************************************************)
(* A small instance of VariableProtocol, with three seats and identifiers  *)
(* that collide on purpose.                                                *)
(***************************************************************************)
EXTENDS VariableProtocol

CONSTANTS p, q, r, c1, c2

ThreeSeats == <<p, q, r>>

Draft(who, id, kind, target) ==
  [participantId |-> who, cap |-> who, commandId |-> id, kind |-> kind,
   actor |-> who, target |-> target, skew |-> 0,
   bound |-> kind \in BinderKinds \union DamageKinds \union {"undo"}]

(* One player plays and undoes while another holds, notes and concedes; when
   the third concedes too the game ends, and an undo reopens it. *)
UndoDrafts == {Draft(p, c1, "move", p), Draft(p, c2, "undo", p),
               Draft(p, c1, "undo", p), Draft(q, c1, "hold", q),
               Draft(q, c1, "note", q), Draft(q, c2, "concession", q),
               Draft(r, c2, "concession", r)}

(* The stack, the turn and combat: players leave while they are attacked, own
   the top of the stack, or are next in turn. *)
TableDrafts == {Draft(p, c1, "attack", q), Draft(p, c2, "lethal", q),
                Draft(p, c2, "advance", p), Draft(q, c1, "cast", q),
                Draft(q, c2, "resolve", q), Draft(r, c1, "undo", r)}

(* A message for every check before the Core, a search that another player
   completes, and combat damage that the wrong player may record. *)
OddDrafts == {[Draft(p, c2, "move", p) EXCEPT !.cap = q],
              [Draft(p, c2, "move", p) EXCEPT !.skew = 1],
              [Draft(r, c2, "advance", r) EXCEPT !.bound = FALSE],
              Draft(p, c1, "search-open", q),
              [Draft(q, c2, "search-complete", q) EXCEPT !.actor = p],
              [Draft(q, c2, "move", q) EXCEPT !.actor = p],
              Draft(p, c2, "damage", q), Draft(q, c1, "damage", q)}
AllDrafts == UndoDrafts \union TableDrafts \union OddDrafts
=============================================================================
