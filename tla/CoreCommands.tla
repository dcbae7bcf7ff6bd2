---------------------------- MODULE CoreCommands ----------------------------
(***************************************************************************)
(* The Core root of an online game, as the commands move it that the       *)
(* server's binder accepts from a connected player: the turn, priority,    *)
(* the stack with its manual entries, the HOLDs, combat, the hands and the *)
(* libraries, and the players who leave.                                   *)
(*                                                                         *)
(* A command is refused when the binder or the handler refuses it, or when *)
(* the root it would produce is not valid; a refusal changes nothing, so   *)
(* an action is enabled exactly when the command is accepted.  Cards are   *)
(* counted; an object stands for the incarnation of a card that is on the  *)
(* stack, and is used again once it has left it.  Life totals, notes,      *)
(* grants and searches are not seen here: no command of this module asks   *)
(* for them.                                                               *)
(***************************************************************************)
EXTENDS CoreTurn

CONSTANTS
  TurnOrder,   \* the players, in the order of their seats
  Creatures,   \* permanents that attack and block
  Attackers,   \* those that attack (a bound)
  OwnerOf,     \* whose they are
  Library,     \* how many cards each library holds at first
  NoSource,    \* the source of a manual stack entry that has none
  Holders,     \* the players who set a HOLD (a bound)
  Movers,      \* the players who move cards by hand (a bound)
  MaxCards,    \* the largest hand or library (a bound)
  MaxEntries   \* the longest manual stack (a bound)

ASSUME CoreCommandsAssumption ==
  /\ TurnOrder \in Seq(Players) /\ Len(TurnOrder) > 1
  /\ \A i, j \in DOMAIN TurnOrder : TurnOrder[i] = TurnOrder[j] => i = j
  /\ Players = Items(TurnOrder)
  /\ Attackers \subseteq Creatures
  /\ OwnerOf \in [Creatures -> Players]
  /\ Library \in [Players -> Nat]
  /\ NoSource \notin Objects
  /\ Holders \subseteq Players /\ Movers \subseteq Players
  /\ MaxCards \in Nat /\ MaxEntries \in Nat

VARIABLES
  root,    \* the Core root
  heard    \* history: of each object on the stack, who passed since it came

rootVars == <<root, heard>>

Attacks == [attacker : Creatures, defender : Players]
Blocks  == [blocker : Creatures, attacker : Creatures, defender : Players]
Combats == [step : {"none", "declare-attackers", "declare-blockers"},
            defenders : SUBSET Players, attacks : SUBSET Attacks,
            blocks : SUBSET Blocks]
Entries == [source : Objects \union {NoSource}, author : Players]
Roots == [order : Seq(Players), active : Players, turn : Nat \ {0},
          position : Positions, window : Windows, stack : Seq(Objects),
          pending : {<<>>}, hand : [Players -> Nat],
          mana : SUBSET Players, library : [Players -> Nat],
          landed : SUBSET Players, entries : Seq(Entries),
          holds : SUBSET Players, combat : Combats]

RootTypeOK == root \in Roots /\ heard \in [Objects -> SUBSET Players]

NoCombat == [step |-> "none", defenders |-> {}, attacks |-> {},
             blocks |-> {}]
CommandInit ==
  /\ root = [order |-> TurnOrder, active |-> TurnOrder[1], turn |-> 1,
             position |-> "untap", window |-> TurnAction(TurnOrder[1]),
             stack |-> <<>>, pending |-> <<>>, hand |-> MaximumHand,
             mana |-> {}, library |-> Library, landed |-> {},
             entries |-> <<>>, holds |-> {}, combat |-> NoCombat]
  /\ heard = [o \in Objects |-> {}]

-----------------------------------------------------------------------------
(* Valid roots, stewards and HOLDs *)

(* validateTabletopManualState and validateModeNeutralCoreRootV1 *)
ValidRoot(r) ==
  /\ ValidBundle(r)
  /\ r.active \in Seated(r)
  /\ \A e \in Items(r.entries) : /\ e.author \in Seated(r)
                                 /\ e.source # NoSource
                                      => e.source \in Items(r.stack)
  /\ r.holds \subseteq Seated(r)
  /\ r.combat.defenders \subseteq Seated(r)
  /\ \A a \in r.combat.attacks : OwnerOf[a.attacker] \in Seated(r)
  /\ \A b \in r.combat.blocks : OwnerOf[b.blocker] \in Seated(r)

(* The next root is valid, and what has left the stack is forgotten. *)
RootBecomes(r) ==
  /\ ValidRoot(r) /\ root' = r
  /\ heard' = [o \in Objects |-> IF o \in Items(root.stack) \cap Items(r.stack)
                                 THEN heard[o] ELSE {}]
Playing(p) == p \in Seated(root) /\ Len(root.order) > 1
NoHold     == root.holds = {}

(* currentStackSteward *)
Steward(r) == IF Empty(r.stack) THEN r.active ELSE ControllerOf[Top(r.stack)]
HasPriority(p) == MayPass(root, p)
MainPhaseOf(p) ==
  root.active = p /\ root.position \in MainPositions /\ Empty(root.stack)

-----------------------------------------------------------------------------
(* Priority and the stack *)

SetHold(p) ==
  /\ Playing(p) /\ p \in Holders /\ p \notin root.holds
  /\ RootBecomes([root EXCEPT !.holds = @ \union {p}])

MayReleaseHold(p) == Playing(p) /\ p \in root.holds
HoldReleased(p)   == [root EXCEPT !.holds = @ \ {p}]
ReleaseHold(p)    == MayReleaseHold(p) /\ RootBecomes(HoldReleased(p))

MayPassPriority(p) == Playing(p) /\ NoHold /\ HasPriority(p)
PassPriority(p) ==
  /\ MayPassPriority(p)
  /\ ValidRoot(Passed(root)) /\ root' = Passed(root)
  /\ heard' = [o \in Objects |-> IF o \in Items(root.stack)
                                 THEN heard[o] \union {p} ELSE heard[o]]

CastSpell_KeepsCycle(p, o, fast) ==
  /\ Playing(p) /\ NoHold /\ HasPriority(p)
  /\ ControllerOf[o] = p /\ o \notin Items(root.stack) /\ root.hand[p] > 0
  /\ fast \/ MainPhaseOf(p)
  /\ RootBecomes([Committed(root, o) EXCEPT !.hand[p] = @ - 1])
(* The caster keeps priority and starts a new cycle: no check of state-based
   actions comes first. *)
CastSpell(p, o, fast) ==
  /\ Playing(p) /\ NoHold /\ HasPriority(p)
  /\ ControllerOf[o] = p /\ o \notin Items(root.stack) /\ root.hand[p] > 0
  /\ fast \/ MainPhaseOf(p)
  /\ RootBecomes([Committed(root, o) EXCEPT !.hand[p] = @ - 1,
                                        !.window = Priority(p, p, <<>>)])

MayRecordSba(p) ==
  /\ Playing(p) /\ NoHold
  /\ root.window.kind = "sba-check-required" /\ root.window.player = p
RecordSba(p, applied) ==
  MayRecordSba(p) /\ RootBecomes(SbaRecorded(root, applied))

(* The steward resolves the top.  An entry that still names it makes the next
   root invalid. *)
MayResolveTop(p) ==
  /\ Playing(p) /\ NoHold /\ Steward(root) = p
  /\ root.window.kind = "resolution-ready"
ResolveTop(p) == MayResolveTop(p) /\ RootBecomes(Resolved(root))

AddStackEntry(p, source) ==
  /\ Playing(p) /\ NoHold /\ Len(root.entries) < MaxEntries
  /\ IF source = NoSource THEN root.active = p /\ Empty(root.stack)
     ELSE source \in Items(root.stack) /\ ControllerOf[source] = p
  /\ RootBecomes([root EXCEPT !.entries =
                Append(@, [source |-> source, author |-> p])])

(* The last entry resolves, with the object it names. *)
MayResolveManual(p) ==
  /\ Playing(p) /\ NoHold
  /\ ~Empty(root.entries) /\ Top(root.entries).author = p
  /\ IF Top(root.entries).source = NoSource
     THEN root.active = p /\ Empty(root.stack)
     ELSE /\ root.window.kind = "resolution-ready"
          /\ root.window.object = Top(root.entries).source
          /\ Steward(root) = p
ManuallyResolved ==
  LET rest == [root EXCEPT !.entries = SubSeq(@, 1, Len(@) - 1)]
  IN  IF Top(root.entries).source = NoSource THEN rest ELSE Resolved(rest)
ResolveManual(p) == MayResolveManual(p) /\ RootBecomes(ManuallyResolved)

-----------------------------------------------------------------------------
(* Cards moved by hand: no window is asked for *)

PlayLand(p) ==
  /\ Playing(p) /\ NoHold /\ HasPriority(p) /\ MainPhaseOf(p)
  /\ p \notin root.landed /\ root.hand[p] > 0
  /\ RootBecomes([root EXCEPT !.hand[p] = @ - 1, !.landed = @ \union {p}])

Draw(p) ==
  /\ Playing(p) /\ p \in Movers
  /\ root.library[p] > 0 /\ root.hand[p] < MaxCards
  /\ RootBecomes([root EXCEPT !.library[p] = @ - 1, !.hand[p] = @ + 1])
PutBack(p) ==
  /\ Playing(p) /\ p \in Movers
  /\ root.hand[p] > 0 /\ root.library[p] < MaxCards
  /\ RootBecomes([root EXCEPT !.hand[p] = @ - 1, !.library[p] = @ + 1])
(* A spell leaves the stack for its owner's hand; the window stays. *)
TakeBack(p, o) ==
  /\ Playing(p) /\ p \in Movers
  /\ o \in Items(root.stack) /\ ControllerOf[o] = p
  /\ root.hand[p] < MaxCards
  /\ RootBecomes([root EXCEPT !.stack = Without(@, o), !.hand[p] = @ + 1])

-----------------------------------------------------------------------------
(* Combat *)

NewCombat(r, step) ==
  [step |-> step, defenders |-> Seated(r) \ {r.active}, attacks |-> {},
   blocks |-> {}]
(* applyTabletopCombatProgressV2 refuses a context that does not fit the step
   it enters. *)
CombatFits(r) ==
  LET step == root.combat.step IN
  /\ r.position = "beginning-of-combat" => step = "none"
  /\ r.position = "declare-attackers" => step # "declare-blockers"
  /\ r.position = "combat-damage" => step # "declare-attackers"
CombatAfter(r) ==
  IF r.position \notin CombatPositions THEN NoCombat
  ELSE IF r.position \in {"beginning-of-combat", "end-of-combat"}
         THEN root.combat
  ELSE IF r.position = "declare-attackers"
         THEN IF root.combat.step = "none"
              THEN NewCombat(r, "declare-attackers") ELSE root.combat
  ELSE IF root.combat.step = "none" THEN NewCombat(r, "declare-blockers")
  ELSE [root.combat EXCEPT !.step = "declare-blockers"]

(* Any player may move the combat on; it never moves back. *)
SetCombatStep(p) ==
  /\ Playing(p) /\ root.combat.step = "declare-attackers"
  /\ RootBecomes([root EXCEPT !.combat.step = "declare-blockers"])
DeclareAttack(p, a) ==
  /\ Playing(p) /\ root.combat.step = "declare-attackers"
  /\ p = root.active /\ a.defender \in root.combat.defenders
  /\ \A b \in root.combat.attacks : b.attacker # a.attacker
  /\ RootBecomes([root EXCEPT !.combat.attacks = @ \union {a}])
DeclareBlock(p, k) ==
  /\ Playing(p) /\ root.combat.step = "declare-blockers"
  /\ p = k.defender /\ k \notin root.combat.blocks
  /\ [attacker |-> k.attacker, defender |-> p] \in root.combat.attacks
  /\ \A b \in root.combat.blocks : b.blocker = k.blocker => b.defender = p
  /\ RootBecomes([root EXCEPT !.combat.blocks = @ \union {k}])

-----------------------------------------------------------------------------
(* The turn *)

NextPosition(position) ==
  CASE position = "upkeep"              -> "draw"
    [] position = "draw"                -> "precombat-main"
    [] position = "precombat-main"      -> "beginning-of-combat"
    [] position = "beginning-of-combat" -> "declare-attackers"
    [] position = "declare-attackers"   -> "declare-blockers"
    [] position = "declare-blockers"    -> "combat-damage"
    [] position = "combat-damage"       -> "end-of-combat"
    [] position = "end-of-combat"       -> "postcombat-main"
    [] position = "postcombat-main"     -> "end"
    [] position = "end"                 -> "cleanup"
    [] OTHER                            -> "untap"

(* The draw of the draw step is part of its checkpoint. *)
StepDrawn(r) ==
  IF r.position = "draw"
  THEN [r EXCEPT !.library[r.active] = @ - 1, !.hand[r.active] = @ + 1]
  ELSE r

(* What the binder makes of "advance" in each window, and what the turn
   operation it names returns: the turn of a window that is not ready for one
   is refused. *)
Progressed(r) ==
  CASE MayCheckpoint(r)     -> Checkpointed(StepDrawn(r))
    [] MaySkipDraw(r)       -> DrawSkipped(r)
    [] r.window.kind = "position-advance-ready" /\ ~MaySkipDraw(r)
                            -> Advanced(r, NextPosition(r.position))
    [] MayStartTurn(r)      -> [TurnStarted(r) EXCEPT !.landed = {}]
MayProgress_NoSkip(r) ==
  \/ MayCheckpoint(r) /\ (r.position = "draw" => r.library[r.active] > 0)
  \/ MayAdvance(r, NextPosition(r.position))
  \/ MayStartTurn(r)
MayProgress(r) ==
  \/ MayCheckpoint(r) /\ (r.position = "draw" => r.library[r.active] > 0)
  \/ MaySkipDraw(r)
  \/ MayAdvance(r, NextPosition(r.position))
  \/ MayStartTurn(r)
MayAdvanceTable(p) ==
  /\ Playing(p) /\ NoHold /\ Steward(root) = p /\ root.active = p
  /\ MayProgress(root) /\ CombatFits(Progressed(root))
TableAdvanced ==
  LET next == Progressed(root) IN [next EXCEPT !.combat = CombatAfter(next)]
Advance(p) == MayAdvanceTable(p) /\ RootBecomes(TableAdvanced)

-----------------------------------------------------------------------------
(* A player leaves: a concession, or manual combat damage that is lethal *)

Remaining_KeepsAttacks(c, p) ==
  [c EXCEPT !.defenders = @ \ {p},
            !.blocks = {b \in @ : b.defender # p /\ OwnerOf[b.blocker] # p}]
Remaining(c, p) ==
  LET attacks == {a \in c.attacks : a.defender # p /\ OwnerOf[a.attacker] # p}
  IN  [c EXCEPT !.defenders = @ \ {p}, !.attacks = attacks,
         !.blocks = {b \in @ : /\ b.defender # p /\ OwnerOf[b.blocker] # p
                               /\ [attacker |-> b.attacker,
                                   defender |-> b.defender] \in attacks}]
WindowAfterExit(w, p) ==
  IF w.kind = "priority" THEN [w EXCEPT !.passed = Without(@, p)] ELSE w
Left(r, p) ==
  LET stack == Only(r.stack, {o \in Objects : ControllerOf[o] # p}) IN
  [r EXCEPT !.order = Without(@, p), !.stack = stack,
            !.window = WindowAfterExit(@, p),
            !.hand[p] = 0, !.library[p] = 0, !.mana = @ \ {p},
            !.landed = @ \ {p}, !.holds = @ \ {p},
            !.entries = Only(@, [source : Items(stack) \union {NoSource},
                                 author : Players \ {p}]),
            !.combat = Remaining(@, p)]

(* Refused while it is the player's turn or the player has priority; and the
   next root is not valid while the cycle started with the player, or the
   player is to record the state-based actions, or owns what resolves. *)
ExitGame(p) ==
  /\ Playing(p) /\ root.active # p /\ ~HasPriority(p)
  /\ RootBecomes(Left(root, p))

-----------------------------------------------------------------------------
MovesOn(p) ==
  \/ ReleaseHold(p)
  \/ PassPriority(p)
  \/ \E applied \in BOOLEAN : RecordSba(p, applied)
  \/ ResolveTop(p)
  \/ ResolveManual(p)
  \/ Advance(p)

Interferes(p) ==
  \/ SetHold(p)
  \/ \E o \in Objects, fast \in BOOLEAN : CastSpell(p, o, fast)
  \/ \E source \in Objects \union {NoSource} : AddStackEntry(p, source)
  \/ PlayLand(p)
  \/ Draw(p)
  \/ PutBack(p)
  \/ \E o \in Objects : TakeBack(p, o)
  \/ SetCombatStep(p)
  \/ \E a \in Attacks : a.attacker \in Attackers /\ DeclareAttack(p, a)
  \/ \E k \in Blocks : DeclareBlock(p, k)
  \/ ExitGame(p)

CommandNext == \E p \in Players : MovesOn(p) \/ Interferes(p)
CommandSpec == CommandInit /\ [][CommandNext]_rootVars

-----------------------------------------------------------------------------
(* Properties *)

(* An object resolves only after every player at the table has passed since it
   was put on the stack: responses, spells taken back in the middle of a cycle,
   manual entries and players who leave never let an object resolve that
   somebody had no chance to answer. *)
EveryoneMayAnswer ==
  root.window.kind = "resolution-ready" =>
    Seated(root) \subseteq heard[root.window.object]

(* The states the commands cannot leave by going on: the cleanup step, whose
   operations no command calls; a draw step with an empty library; and an
   object that a manual entry names which is not the last entry, or not the
   only one for it. *)
InCleanup == root.position = "cleanup"
NothingToDraw ==
  /\ root.position = "draw"
  /\ root.window.kind = "turn-based-action-required"
  /\ root.library[root.active] = 0
Naming(o) == {i \in DOMAIN root.entries : root.entries[i].source = o}
Pinned ==
  /\ root.window.kind = "resolution-ready"
  /\ Naming(root.window.object) # {}
  /\ Naming(root.window.object) # {Len(root.entries)}

(* A command that moves the game on is accepted: its guard holds and the root it
   would produce is valid.  To find state-based actions once more is no way on. *)
MayMoveOn(p) ==
  \/ MayReleaseHold(p) /\ ValidRoot(HoldReleased(p))
  \/ MayPassPriority(p) /\ ValidRoot(Passed(root))
  \/ MayRecordSba(p) /\ ValidRoot(SbaRecorded(root, FALSE))
  \/ MayResolveTop(p) /\ ValidRoot(Resolved(root))
  \/ MayResolveManual(p) /\ ValidRoot(ManuallyResolved)
  \/ MayAdvanceTable(p) /\ ValidRoot(TableAdvanced)

(* Everywhere else somebody at the table can move the game on: the window, the
   steward, the HOLDs, the manual stack and the players who have left never
   contradict each other. *)
SomebodyMovesOn ==
  Len(root.order) > 1 =>
    \/ InCleanup \/ NothingToDraw \/ Pinned
    \/ \E p \in Players : MayMoveOn(p)

(* The root keeps its type, and the combat context is the one of the step the
   turn is in: none outside combat, no more attackers once blockers are declared,
   every surviving player but the active one defends, nobody attacks or blocks
   for a player who has left, and every block answers an attack that is still
   there. *)
CombatFollowsTheTurn ==
  LET c == root.combat IN
  /\ RootTypeOK
  /\ root.position \notin CombatPositions \ {"beginning-of-combat"}
       => c = NoCombat
  /\ root.position \in {"declare-blockers", "combat-damage"}
       => c.step = "declare-blockers"
  /\ c.step # "none" => c.defenders = Seated(root) \ {root.active}
  /\ \A a \in c.attacks :
       a.defender \in c.defenders /\ OwnerOf[a.attacker] \in Seated(root)
  /\ \A b \in c.blocks :
       /\ [attacker |-> b.attacker, defender |-> b.defender] \in c.attacks
       /\ OwnerOf[b.blocker] \in Seated(root)
=============================================================================
