------------------------------ MODULE CoreTurn ------------------------------
(***************************************************************************)
(* The turn and priority structure of the Core, as operators on a bundle:  *)
(* what window the game waits in, who may answer it, and what each turn    *)
(* operation makes of it.  TurnEngine runs the operations of the library,  *)
(* CoreCommands the ones a client can reach through the server.            *)
(*                                                                         *)
(* A bundle is a record with at least these fields (a Core root has more,  *)
(* so every operation is an EXCEPT):                                       *)
(*   order     the seated players, in turn order                           *)
(*   active    whose turn it is                                            *)
(*   turn      the turn number                                             *)
(*   position  the step or phase                                           *)
(*   window    what the game waits for                                     *)
(*   stack     the objects on the stack, the top last                      *)
(*   pending   the triggered abilities waiting to be put on the stack      *)
(*   hand      how many cards each player holds                            *)
(*   mana      the players with mana in their pool                         *)
(* The order of windows and positions is what the operations decide; what  *)
(* a card does is left to the modules that use them.                       *)
(***************************************************************************)
EXTENDS Naturals, Sequences, FiniteSets

CONSTANTS
  Players,       \* every player who may be seated
  Objects,       \* spells and abilities
  ControllerOf,  \* who put an object on the stack, or controls the ability
  BucketOf,      \* 1 for an ordinary triggered ability, 2 for one that
                 \* triggers on another triggering
  MaximumHand    \* how many cards each player keeps in cleanup

ASSUME CoreTurnAssumption ==
  /\ ControllerOf \in [Objects -> Players]
  /\ BucketOf \in [Objects -> {1, 2}]
  /\ MaximumHand \in [Players -> Nat]

Positions == {"untap", "upkeep", "draw", "precombat-main",
              "beginning-of-combat", "declare-attackers", "declare-blockers",
              "combat-damage", "end-of-combat", "postcombat-main", "end",
              "cleanup"}
CombatPositions == {"beginning-of-combat", "declare-attackers",
                    "declare-blockers", "combat-damage", "end-of-combat"}
MainPositions   == {"precombat-main", "postcombat-main"}

Empty(s) == s = <<>>
Top(s)   == s[Len(s)]
Items(s) == {s[i] : i \in DOMAIN s}
Seated(b) == Items(b.order)

-----------------------------------------------------------------------------
(* The windows *)

TurnAction(p)       == [kind |-> "turn-based-action-required", player |-> p]
SbaCheck(p, grant)  == [kind |-> "sba-check-required", player |-> p,
                        grant |-> grant]
TriggerOrder(p, os) == [kind |-> "trigger-order-required", player |-> p,
                        pending |-> os]
Priority(s, h, ps)  == [kind |-> "priority", start |-> s, player |-> h,
                        passed |-> ps]
ResolutionReady(o)  == [kind |-> "resolution-ready", object |-> o]
Discarding(p)       == [kind |-> "cleanup-discard-required", player |-> p]
StateActions(p)     == [kind |-> "cleanup-state-actions-required",
                        player |-> p]
PositionReady       == [kind |-> "position-advance-ready"]
RepeatReady         == [kind |-> "cleanup-repeat-ready"]
TurnReady           == [kind |-> "turn-advance-ready"]

Windows ==
  [kind : {"turn-based-action-required", "cleanup-discard-required",
           "cleanup-state-actions-required"}, player : Players]
  \union [kind : {"trigger-order-required"}, player : Players,
          pending : Seq(Objects)]
  \union [kind : {"sba-check-required"}, player : Players, grant : BOOLEAN]
  \union [kind : {"priority"}, start : Players, player : Players,
          passed : Seq(Players)]
  \union [kind : {"resolution-ready"}, object : Objects]
  \union [kind : {"position-advance-ready", "cleanup-repeat-ready",
                  "turn-advance-ready"}]

CleanupKinds  == {"cleanup-discard-required", "cleanup-state-actions-required",
                  "cleanup-repeat-ready", "turn-advance-ready"}
BoundaryKinds == {"position-advance-ready", "cleanup-repeat-ready",
                  "turn-advance-ready"}
SettledKinds  == BoundaryKinds \union {"priority", "resolution-ready"}
PlayerKinds   == {"turn-based-action-required", "sba-check-required",
                  "trigger-order-required", "priority",
                  "cleanup-discard-required", "cleanup-state-actions-required"}

-----------------------------------------------------------------------------
(* Turn order *)

Seat(b, p) == CHOOSE i \in DOMAIN b.order : b.order[i] = p
(* The player k seats after p. *)
Ahead(b, p, k) == b.order[((Seat(b, p) + k - 1) % Len(b.order)) + 1]

(* The active player, then the others in turn order. *)
ApnapRank(b, p) ==
  (Seat(b, p) + Len(b.order) - Seat(b, b.active)) % Len(b.order)

-----------------------------------------------------------------------------
(* What a bundle has to be: validateCoreTurnPriorityBundleV1 *)

WindowFitsPosition(b) ==
  LET k == b.window.kind IN
  /\ b.position = "untap" => k = "turn-based-action-required"
  /\ k = "turn-based-action-required"
       => b.position \in {"untap", "draw", "precombat-main"}
  /\ k \in CleanupKinds => b.position = "cleanup"
  /\ k = "position-advance-ready" => b.position # "cleanup"

WindowPlayersAreSeated(b) ==
  /\ b.window.kind \in PlayerKinds => b.window.player \in Seated(b)
  /\ b.window.kind = "priority" => b.window.start \in Seated(b)
  /\ b.window.kind \in {"cleanup-discard-required",
                        "cleanup-state-actions-required"}
       => b.window.player = b.active

(* Those who passed are the players from the start of the cycle up to the one
   who holds priority. *)
PassesAreContiguous(b) ==
  b.window.kind = "priority" =>
    LET w == b.window IN
    /\ Len(w.passed) < Len(b.order)
    /\ \A i \in DOMAIN w.passed : w.passed[i] = Ahead(b, w.start, i - 1)
    /\ w.player = Ahead(b, w.start, Len(w.passed))

TriggersAreSettled(b) ==
  /\ b.window.kind \in SettledKinds => Empty(b.pending)
  /\ b.window.kind = "trigger-order-required" => b.window.pending = b.pending
StackIsSettled(b)     == b.window.kind \in BoundaryKinds => Empty(b.stack)
ResolvesTheTop(b) ==
  b.window.kind = "resolution-ready" =>
    ~Empty(b.stack) /\ Top(b.stack) = b.window.object
NoTriggerIsOnTheStack(b) == Items(b.pending) \cap Items(b.stack) = {}

ValidBundle(b) ==
  /\ WindowFitsPosition(b)
  /\ WindowPlayersAreSeated(b)
  /\ PassesAreContiguous(b)
  /\ TriggersAreSettled(b)
  /\ StackIsSettled(b)
  /\ ResolvesTheTop(b)
  /\ NoTriggerIsOnTheStack(b)

-----------------------------------------------------------------------------
(* Priority: priorityPassV1 and resolutionBoundaryV1 *)

AfterEveryonePassed_PositionInCleanup(b) ==
  IF ~Empty(b.stack) THEN ResolutionReady(Top(b.stack)) ELSE PositionReady
AfterEveryonePassed_NoRepeat(b) ==
  IF ~Empty(b.stack) THEN ResolutionReady(Top(b.stack))
  ELSE IF b.position = "cleanup" THEN TurnReady ELSE PositionReady
AfterEveryonePassed(b) ==
  IF ~Empty(b.stack) THEN ResolutionReady(Top(b.stack))
  ELSE IF b.position = "cleanup" THEN RepeatReady ELSE PositionReady

MayPass(b, p) == b.window.kind = "priority" /\ b.window.player = p
Passed(b) ==
  LET w      == b.window
      passed == Append(w.passed, w.player)
  IN  [b EXCEPT !.window =
         IF Len(passed) = Len(b.order) THEN AfterEveryonePassed(b)
         ELSE Priority(w.start, Ahead(b, w.player, 1), passed)]

Resumed_KeepsPasses(b, p) == b
Resumed(b, p) == [b EXCEPT !.window = SbaCheck(p, TRUE)]
Committed(b, o) == [b EXCEPT !.stack = Append(@, o)]
(* The items of s that are in S, in their order. *)
Only(s, S) ==
  LET only[i \in 0 .. Len(s)] ==
        IF i = 0 THEN <<>>
        ELSE IF s[i] \in S THEN Append(only[i - 1], s[i]) ELSE only[i - 1]
  IN  only[Len(s)]
Without(s, o) == Only(s, Items(s) \ {o})
(* The top has left the stack: the active player gets priority back once the
   state-based actions are stable. *)
Resolved(b) ==
  [b EXCEPT !.stack = SubSeq(@, 1, Len(@) - 1),
            !.window = SbaCheck(b.active, TRUE)]

(* recordCoreSbaCheckOutcomeV1 *)
SbaRecorded_TriggersLast(b, applied) ==
  LET w == b.window IN
  [b EXCEPT !.window =
     IF applied THEN SbaCheck(w.player, w.grant \/ b.position = "cleanup")
     ELSE IF w.grant THEN Priority(w.player, w.player, <<>>)
     ELSE IF ~Empty(b.pending) THEN TriggerOrder(w.player, b.pending)
     ELSE TurnReady]
SbaRecorded(b, applied) ==
  LET w == b.window IN
  [b EXCEPT !.window =
     IF applied THEN SbaCheck(w.player, w.grant \/ b.position = "cleanup")
     ELSE IF ~Empty(b.pending) THEN TriggerOrder(w.player, b.pending)
     ELSE IF w.grant THEN Priority(w.player, w.player, <<>>)
     ELSE TurnReady]

-----------------------------------------------------------------------------
(* Triggered abilities: triggerApnapV1 and triggerPlacementV1 *)

(* The pending abilities of one bucket and one controller, as a segment of the
   order they are placed in: bucket by bucket, and in each the active player
   first. *)
GroupKeys(b) == [bucket : {1, 2}, rank : 0 .. Len(b.order) - 1]
GroupOf(b, o) == [bucket |-> BucketOf[o],
                  rank |-> ApnapRank(b, ControllerOf[o])]
Precedes(k, l) == \/ k.bucket < l.bucket
                  \/ k.bucket = l.bucket /\ k.rank < l.rank
Group(b, k) == {o \in Items(b.pending) : GroupOf(b, o) = k}
Offset(b, k) ==
  Cardinality({o \in Items(b.pending) : Precedes(GroupOf(b, o), k)})

ValidPlacement_AnyOrder(b, placement) == Items(placement) = Items(b.pending)
ValidPlacement(b, placement) ==
  /\ Len(placement) = Len(b.pending)
  /\ \A k \in GroupKeys(b) :
       {placement[i] : i \in Offset(b, k) + 1 ..
                             Offset(b, k) + Cardinality(Group(b, k))}
         = Group(b, k)
Appended(b, o) == [b EXCEPT !.pending = Append(@, o)]
Placed(b, placement) ==
  [b EXCEPT !.stack = @ \o placement, !.pending = <<>>,
            !.window = SbaCheck(b.window.player, TRUE)]

-----------------------------------------------------------------------------
(* Steps and turns: turnAdvanceV1 and cleanupV1 *)

AllowedTransitions ==
  {<<"upkeep", "draw">>, <<"draw", "precombat-main">>,
   <<"precombat-main", "beginning-of-combat">>,
   <<"beginning-of-combat", "declare-attackers">>,
   <<"declare-attackers", "declare-blockers">>,
   <<"declare-attackers", "end-of-combat">>,
   <<"declare-blockers", "combat-damage">>,
   <<"declare-blockers", "end-of-combat">>,
   <<"combat-damage", "combat-damage">>, <<"combat-damage", "end-of-combat">>,
   <<"end-of-combat", "postcombat-main">>, <<"postcombat-main", "end">>,
   <<"end", "cleanup">>}

CleanupWindow(b) ==
  IF b.hand[b.active] > MaximumHand[b.active] THEN Discarding(b.active)
  ELSE StateActions(b.active)
WindowForPosition(b, to) ==
  IF to = "cleanup" THEN CleanupWindow(b)
  ELSE IF to \in {"draw", "precombat-main"} THEN TurnAction(b.active)
  ELSE SbaCheck(b.active, TRUE)

FirstUpkeepOfTwo(b) ==
  b.turn = 1 /\ b.position = "upkeep" /\ Len(b.order) = 2
AtBoundary(b) == Empty(b.stack) /\ Empty(b.pending)

MayAdvance(b, to) ==
  /\ b.window.kind = "position-advance-ready"
  /\ AtBoundary(b)
  /\ <<b.position, to>> \in AllowedTransitions
  /\ ~(FirstUpkeepOfTwo(b) /\ to = "draw")
Advanced(b, to) ==
  [b EXCEPT !.position = to, !.mana = {}, !.window = WindowForPosition(b, to)]

MaySkipDraw(b) ==
  b.window.kind = "position-advance-ready" /\ FirstUpkeepOfTwo(b)
    /\ AtBoundary(b)
(* The mana pools are left as they are. *)
DrawSkipped(b) ==
  [b EXCEPT !.position = "precombat-main",
            !.window = WindowForPosition(b, "precombat-main")]

MayCheckpoint(b) ==
  /\ b.window.kind = "turn-based-action-required"
  /\ b.window.player = b.active
  /\ Empty(b.stack)
Checkpointed(b) ==
  IF b.position = "untap"
  THEN [b EXCEPT !.position = "upkeep", !.mana = {},
                 !.window = SbaCheck(b.active, TRUE)]
  ELSE [b EXCEPT !.window = SbaCheck(b.active, TRUE)]

MayStartTurn(b) ==
  b.window.kind = "turn-advance-ready" /\ b.position = "cleanup"
    /\ AtBoundary(b)
TurnStarted(b) ==
  LET next == Ahead(b, b.active, 1) IN
  [b EXCEPT !.active = next, !.turn = @ + 1, !.position = "untap",
            !.mana = {}, !.window = TurnAction(next)]

MayFinishDiscard_BelowMaximum(b) ==
  /\ b.position = "cleanup" /\ b.window.kind = "cleanup-discard-required"
  /\ b.window.player = b.active /\ Empty(b.stack)
  /\ b.hand[b.active] < MaximumHand[b.active]
MayFinishDiscard(b) ==
  /\ b.position = "cleanup" /\ b.window.kind = "cleanup-discard-required"
  /\ b.window.player = b.active /\ Empty(b.stack)
  /\ b.hand[b.active] <= MaximumHand[b.active]
DiscardFinished(b) == [b EXCEPT !.window = StateActions(b.active)]

MayApplyStateActions(b) ==
  /\ b.position = "cleanup"
  /\ b.window.kind = "cleanup-state-actions-required"
  /\ b.window.player = b.active /\ Empty(b.stack)
StateActionsApplied(b) ==
  [b EXCEPT !.mana = {}, !.window = SbaCheck(b.active, FALSE)]

MayRepeatCleanup(b) ==
  b.position = "cleanup" /\ b.window.kind = "cleanup-repeat-ready"
    /\ Empty(b.stack)
CleanupRepeated(b) == [b EXCEPT !.window = CleanupWindow(b)]
=============================================================================
