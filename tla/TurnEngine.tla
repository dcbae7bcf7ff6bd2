----------------------------- MODULE TurnEngine -----------------------------
(***************************************************************************)
(* The turn engine of the Core library: every operation of engine/core/turn *)
(* on a turn-priority bundle, called in any order that its own guards      *)
(* allow.  What the cards do is the environment: spells are cast, abilities *)
(* trigger, a resolution draws, marks damage or adds mana, and the caller  *)
(* reports whether state-based actions were applied.                       *)
(*                                                                         *)
(* Most operations check what they return; the ones that advance a step or *)
(* a turn do not.                                                          *)
(***************************************************************************)
EXTENDS CoreTurn

CONSTANTS
  TurnOrders,   \* the tables that may sit down
  Abilities,    \* the objects that are triggered abilities, not spells
  MaxTurns,     \* the last turn of a behaviour (a bound)
  MaxEvents     \* how often the environment acts (a bound)

ASSUME TurnEngineAssumption ==
  /\ \A t \in TurnOrders :
       /\ t \in Seq(Players) /\ Len(t) > 0
       /\ \A i, j \in DOMAIN t : t[i] = t[j] => i = j
       /\ \A o \in Objects : ControllerOf[o] \in Items(t)
  /\ Abilities \subseteq Objects
  /\ MaxTurns \in Nat /\ MaxEvents \in Nat

VARIABLES
  bundle,    \* the turn-priority bundle, with the marked damage of the runtime
  answered,  \* history: who has passed since anybody did anything else
  events     \* how often the environment has acted

vars == <<bundle, answered, events>>

Bundles == [order : TurnOrders, active : Players, turn : Nat \ {0},
            position : Positions, window : Windows, stack : Seq(Objects),
            pending : Seq(Objects), hand : [Players -> Nat],
            mana : SUBSET Players, damaged : BOOLEAN]

TypeOK ==
  /\ bundle \in Bundles
  /\ answered \subseteq Players
  /\ events \in 0 .. MaxEvents

Init ==
  /\ \E t \in TurnOrders :
       bundle = [order |-> t, active |-> t[1], turn |-> 1,
                 position |-> "untap", window |-> TurnAction(t[1]),
                 stack |-> <<>>, pending |-> <<>>, hand |-> MaximumHand,
                 mana |-> {}, damaged |-> FALSE]
  /\ answered = {}
  /\ events = 0

Becomes(b)   == bundle' = b /\ answered' = {} /\ UNCHANGED events
(* The environment acts once more. *)
Happens(b)   == /\ events < MaxEvents /\ events' = events + 1
                /\ bundle' = b /\ answered' = {}

-----------------------------------------------------------------------------
(* Priority and the stack *)

Pass(p) ==
  /\ MayPass(bundle, p)
  /\ bundle' = Passed(bundle)
  /\ answered' = answered \union {p}
  /\ UNCHANGED events

(* A spell is put on the stack by the player with priority, who then resumes
   the cycle. *)
Cast(p, o) ==
  /\ MayPass(bundle, p)
  /\ o \notin Items(bundle.stack)
  /\ ControllerOf[o] = p /\ bundle.hand[p] > 0
  /\ Happens(Resumed(Committed([bundle EXCEPT !.hand[p] = @ - 1], o), p))

Resolve ==
  /\ bundle.window.kind = "resolution-ready"
  /\ Becomes(Resolved(bundle))

(* The top of the stack resolves with an effect. *)
ResolveDrawing(p) ==
  /\ bundle.window.kind = "resolution-ready"
  /\ Happens(Resolved([bundle EXCEPT !.hand[p] = @ + 1]))
ResolveDamaging(p) ==
  /\ bundle.window.kind = "resolution-ready"
  /\ Happens(Resolved([bundle EXCEPT !.damaged = TRUE,
                                     !.mana = @ \union {p}]))

SbaIsStable ==
  /\ bundle.window.kind = "sba-check-required"
  /\ Becomes(SbaRecorded(bundle, FALSE))
SbaApplied ==
  /\ bundle.window.kind = "sba-check-required"
  /\ Happens(SbaRecorded(bundle, TRUE))

(* An ability triggers: the bundle is refused when the window does not allow a
   pending ability. *)
AppendTrigger(o) ==
  /\ o \notin Items(bundle.stack) \union Items(bundle.pending)
  /\ ValidBundle(Appended(bundle, o))
  /\ Happens(Appended(bundle, o))

Placements(os) == {s \in [DOMAIN os -> Items(os)] : Items(s) = Items(os)}
PlaceTriggers ==
  /\ bundle.window.kind = "trigger-order-required"
  /\ \E s \in Placements(bundle.pending) :
       ValidPlacement(bundle, s) /\ Becomes(Placed(bundle, s))

-----------------------------------------------------------------------------
(* Steps, cleanup and turns *)

Checkpoint == MayCheckpoint(bundle) /\ Becomes(Checkpointed(bundle))
AdvancePosition(to) ==
  /\ MayAdvance(bundle, to) /\ to # bundle.position
  /\ Becomes(Advanced(bundle, to))
(* First strike: a second combat damage step. *)
RepeatDamageStep ==
  /\ MayAdvance(bundle, bundle.position)
  /\ Happens(Advanced(bundle, bundle.position))
SkipFirstDraw == MaySkipDraw(bundle) /\ Becomes(DrawSkipped(bundle))

(* The caller discards a card while cleanup asks for it. *)
Discard ==
  /\ bundle.window.kind = "cleanup-discard-required"
  /\ bundle.hand[bundle.active] > MaximumHand[bundle.active]
  /\ Becomes([bundle EXCEPT !.hand[bundle.active] = @ - 1])
FinishDiscard == MayFinishDiscard(bundle) /\ Becomes(DiscardFinished(bundle))
(* Every mark of damage goes, with the mana. *)
ApplyStateActions ==
  /\ MayApplyStateActions(bundle)
  /\ Becomes(StateActionsApplied([bundle EXCEPT !.damaged = FALSE]))
RepeatCleanup == MayRepeatCleanup(bundle) /\ Becomes(CleanupRepeated(bundle))
StartTurn ==
  /\ bundle.turn < MaxTurns
  /\ MayStartTurn(bundle) /\ Becomes(TurnStarted(bundle))

Progress ==
  \/ \E p \in Players : Pass(p)
  \/ Resolve
  \/ SbaIsStable
  \/ PlaceTriggers
  \/ Checkpoint
  \/ \E to \in Positions : AdvancePosition(to)
  \/ SkipFirstDraw
  \/ Discard
  \/ FinishDiscard
  \/ ApplyStateActions
  \/ RepeatCleanup
  \/ StartTurn

Environment ==
  \/ \E p \in Players, o \in Objects \ Abilities : Cast(p, o)
  \/ \E p \in Players : ResolveDrawing(p)
  \/ \E p \in Players : ResolveDamaging(p)
  \/ SbaApplied
  \/ RepeatDamageStep
  \/ \E o \in Abilities : AppendTrigger(o)

Next == Progress \/ Environment
Spec == Init /\ [][Next]_vars

(* Whoever the window waits for answers it in the end. *)
FairSpec == Spec /\ WF_vars(Progress)

-----------------------------------------------------------------------------
(* Properties *)

(* The operations that do not check their result (the steps of turnAdvanceV1
   and cleanupV1) return a bundle that validateCoreTurnPriorityBundleV1 accepts
   all the same: after any sequence of calls the window fits the position, the
   passes are the interval before the holder, no boundary is reached with
   anything on the stack or waiting for it, and what resolves is the top. *)
BundleIsValid == TypeOK /\ ValidBundle(bundle)

(* Nothing resolves and no step, turn or cleanup goes on unless every player at
   the table passed in succession, with nothing done in between. *)
EveryoneAnswered ==
  bundle.window.kind \in {"resolution-ready", "position-advance-ready",
                          "cleanup-repeat-ready"}
    => answered = Seated(bundle)

(* A turn ends with no marked damage, no floating mana, and the active player's
   hand within its maximum, whatever triggered, resolved or was drawn during a
   cleanup that had to be repeated (cleanupV1). *)
TurnEndsClean ==
  bundle.window.kind = "turn-advance-ready" =>
    /\ ~bundle.damaged /\ bundle.mana = {}
    /\ bundle.hand[bundle.active] <= MaximumHand[bundle.active]

(* Of two abilities that go on the stack together, an ordinary one is below one
   of the second bucket, and in a bucket the one whose controller is earlier in
   turn order from the active player is below (triggerApnapV1). *)
Below(b, o1, o2) ==
  \/ BucketOf[o1] < BucketOf[o2]
  \/ /\ BucketOf[o1] = BucketOf[o2]
     /\ ApnapRank(b, ControllerOf[o1]) <= ApnapRank(b, ControllerOf[o2])
StacksInApnapOrder ==
  [][\A i, j \in DOMAIN bundle'.stack :
       (/\ i < j /\ {bundle'.stack[i], bundle'.stack[j]}
                      \subseteq Items(bundle.pending))
         => Below(bundle, bundle'.stack[i], bundle'.stack[j])]_vars

(* An ability that triggered is put on the stack, whatever window it triggered
   in. *)
EveryTriggerIsPlaced ==
  \A o \in Abilities :
    o \in Items(bundle.pending) ~> o \in Items(bundle.stack)

(* The engine never wedges: as long as those the windows wait for answer, every
   turn ends and the next begins. *)
EveryTurnEnds ==
  \A n \in 1 .. MaxTurns - 1 : bundle.turn = n ~> bundle.turn = n + 1
=============================================================================
