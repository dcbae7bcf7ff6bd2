------------------------------- MODULE Pregame -------------------------------
(***************************************************************************)
(* The pregame of a variable room: commanders are revealed, hands dealt,   *)
(* mulligans declared and bottomed in waves, actions before the game       *)
(* recorded and everyone readied (online/pregame/operations.ts).  The row  *)
(* of the pregame is read back with an independent replay of its journal   *)
(* (online/pregame/validation.ts), which is modelled next to the handler.  *)
(*                                                                         *)
(* Players are numbered in the turn order of the random plan, the starting *)
(* player first.  Cards are abstracted to the size of each hand.  The      *)
(* capacity of the journal is left out.                                    *)
(***************************************************************************)
EXTENDS Integers, FiniteSets

CONSTANTS
  OpeningHand,  \* how many cards a hand is dealt: 7 in the code
  ManualLimit   \* how many actions a player may record: 16 in the code

ASSUME PregameAssumption == OpeningHand \in Nat \ {0} /\ ManualLimit \in Nat

Phases == {"commander-reveal", "mulligan-declaration", "mulligan-bottom",
           "pregame-actions", "ready", "complete"}
Decisions == {"pending", "mulligan", "keep"}
Nobody == 0
PlayerCounts == {2, 4}

VARIABLES
  playerCount,  \* configuration.playerCount
  table,        \* phase, currentPlayerId, mulliganRound, the player records
  core,         \* coreRoot: the sizes of the hands, the mulligans counted
  replayed,     \* what the validator derives from the journal: simPhase,
                \* simCurrent, simRound, simPlayers and the sizes of simCards
  readBack      \* TRUE: every command reads the stored row first (the Durable
                \*       Object); FALSE: the handler is given its own last
                \*       state, which it trusts

pregameVars == <<playerCount, table, core, replayed, readBack>>

Players == 1..playerCount
First(S) == IF S = {} THEN Nobody ELSE CHOOSE p \in S : \A q \in S : p <= q
MaxMulligans == IF playerCount = 2 THEN OpeningHand ELSE OpeningHand + 1
BottomCount(taken) ==
  IF playerCount = 2 \/ taken = 0 THEN taken ELSE taken - 1

Fresh == [commanderConfirmed |-> FALSE, mulliganDecision |-> "pending",
          mulligansTaken |-> 0, bottomCountRequired |-> 0, pendingBottom |-> 0,
          manualActionCount |-> 0, manualActionsComplete |-> FALSE,
          ready |-> FALSE]

(* The state createOnlinePregameLifecycleV1 starts n players with, and the one
   the validator's replay starts from. *)
Dealing(n) == [phase |-> "commander-reveal", current |-> 1, round |-> 0,
               player |-> [p \in 1..n |-> Fresh]]
Undealt(n) == [hand |-> [p \in 1..n |-> 0], mulligans |-> [p \in 1..n |-> 0]]

Replaying(t, root) ==
  [phase |-> t.phase, current |-> t.current, round |-> t.round,
   player |-> t.player, hand |-> root.hand]

PregameInit ==
  /\ table = Dealing(playerCount) /\ core = Undealt(playerCount)
  /\ replayed = Replaying(Dealing(playerCount), Undealt(playerCount))

TypeOfTable(t) ==
  /\ t.phase \in Phases
  /\ t.current \in Players \union {Nobody}
  /\ t.round \in 0..MaxMulligans
  /\ t.player \in [Players ->
       [commanderConfirmed : BOOLEAN, mulliganDecision : Decisions,
        mulligansTaken : 0..MaxMulligans, bottomCountRequired : 0..OpeningHand,
        pendingBottom : 0..OpeningHand, manualActionCount : 0..ManualLimit,
        manualActionsComplete : BOOLEAN, ready : BOOLEAN]]

Those(t, field, value) == {p \in Players : t.player[p][field] = value}
Waiting(t) ==
  {p \in Players : /\ t.player[p].bottomCountRequired > 0
                   /\ t.player[p].mulliganDecision = "mulligan"
                   /\ t.player[p].pendingBottom # t.player[p].bottomCountRequired}

With(t, p, r) == [t EXCEPT !.player[p] = r]
Declared(t, p, decision) ==
  With(t, p, [t.player[p] EXCEPT
    !.mulliganDecision = decision,
    !.mulligansTaken = @ + IF decision = "mulligan" THEN 1 ELSE 0])

-----------------------------------------------------------------------------
(* What the validator refuses to read (validateOnlinePregameStateV1) *)

PlayerIsReadable(r) ==
  /\ r.mulligansTaken <= MaxMulligans
  /\ r.bottomCountRequired \in {0, BottomCount(r.mulligansTaken)}
  /\ r.manualActionCount <= ManualLimit

ExpectedHand(r) ==
  CASE table.phase = "commander-reveal" -> 0
    [] table.phase = "mulligan-bottom" /\ r.mulliganDecision = "mulligan"
         -> OpeningHand
    [] OTHER -> OpeningHand - (IF r.pendingBottom = 0
                               THEN r.bottomCountRequired ELSE 0)

HandIsReadable(p) ==
  LET seat == table.player[p] IN
  /\ core.mulligans[p] = seat.mulligansTaken
  /\ core.hand[p] = ExpectedHand(seat)
  /\ seat.pendingBottom <= core.hand[p]
  /\ table.phase = "mulligan-bottom" => seat.pendingBottom <= seat.bottomCountRequired
  /\ table.phase # "mulligan-bottom" => seat.pendingBottom = 0

PhaseIsReadable ==
  /\ (table.phase \in {"ready", "complete"}) <=> (table.current = Nobody)
  /\ table.phase = "commander-reveal" => table.round = 0
  /\ table.phase # "commander-reveal" =>
       Those(table, "commanderConfirmed", TRUE) = Players
  /\ table.phase = "complete" => Those(table, "ready", TRUE) = Players

Readable ==
  /\ \A p \in Players : PlayerIsReadable(table.player[p]) /\ HandIsReadable(p)
  /\ PhaseIsReadable
  /\ replayed = Replaying(table, core)

-----------------------------------------------------------------------------
(* The replay of the journal (validateOnlinePregameStateV1), one entry at a
   time: an entry its rules refuse makes the row unreadable. *)

Refused == [phase |-> "refused"]
Admits(p, phase) ==
  /\ replayed.phase = phase
  /\ phase # "ready" => replayed.current = p

ReplayConfirm(p) ==
  IF ~Admits(p, "commander-reveal") \/ replayed.player[p].commanderConfirmed
  THEN Refused
  ELSE LET t    == [replayed EXCEPT !.player[p].commanderConfirmed = TRUE]
           left == Those(t, "commanderConfirmed", FALSE)
       IN IF left # {} THEN [t EXCEPT !.current = First(left)]
          ELSE [t EXCEPT !.phase = "mulligan-declaration", !.current = 1,
                         !.hand = [q \in Players |-> OpeningHand]]

ReplayWave(t) ==
  LET takers   == Those(t, "mulliganDecision", "mulligan")
      count(q) == BottomCount(t.player[q].mulligansTaken)
      wave == [t EXCEPT
        !.round = @ + 1,
        !.player = [q \in Players |->
           IF q \notin takers THEN t.player[q]
           ELSE [t.player[q] EXCEPT
                   !.bottomCountRequired = count(q), !.pendingBottom = 0,
                   !.mulliganDecision =
                     IF count(q) = 0 THEN "pending" ELSE t.player[q].mulliganDecision]],
        !.hand = [q \in Players |-> IF q \in takers THEN OpeningHand ELSE @[q]]]
  IN IF Waiting(wave) # {}
     THEN [wave EXCEPT !.phase = "mulligan-bottom", !.current = First(Waiting(wave))]
     ELSE [wave EXCEPT !.current = First(Those(wave, "mulliganDecision", "pending"))]

ReplayDeclaration(p, decision) ==
  IF \/ ~Admits(p, "mulligan-declaration")
     \/ replayed.player[p].mulliganDecision # "pending"
     \/ decision = "mulligan" /\ replayed.player[p].mulligansTaken >= MaxMulligans
  THEN Refused
  ELSE LET t    == Declared(replayed, p, decision)
           left == Those(t, "mulliganDecision", "pending")
       IN CASE left # {} -> [t EXCEPT !.current = First(left)]
            [] left = {} /\ Those(t, "mulliganDecision", "keep") = Players ->
                 [t EXCEPT !.phase = "pregame-actions", !.current = 1]
            [] OTHER -> ReplayWave(t)

ReplayBottom(p, count) ==
  IF ~Admits(p, "mulligan-bottom") \/ count = 0
     \/ replayed.player[p].bottomCountRequired # count
  THEN Refused
  ELSE LET t      == [replayed EXCEPT !.player[p].pendingBottom = count]
           active == Those(t, "mulliganDecision", "mulligan")
           done   == [t EXCEPT
             !.player = [q \in Players |->
                IF q \notin active THEN @[q]
                ELSE [@[q] EXCEPT
                        !.pendingBottom = 0,
                        !.mulliganDecision =
                          IF t.player[q].mulligansTaken >= MaxMulligans
                          THEN "keep" ELSE "pending"]],
             !.hand = [q \in Players |-> IF q \in active
                         THEN @[q] - t.player[q].pendingBottom ELSE @[q]]]
           left   == Those(done, "mulliganDecision", "pending")
       IN IF Waiting(t) # {} THEN [t EXCEPT !.current = First(Waiting(t))]
          ELSE [done EXCEPT !.phase = IF left = {} THEN "pregame-actions"
                                      ELSE "mulligan-declaration",
                            !.current = IF left = {} THEN 1 ELSE First(left)]

ReplayManualAction(p) ==
  IF \/ ~Admits(p, "pregame-actions") \/ replayed.player[p].manualActionsComplete
     \/ replayed.player[p].manualActionCount >= ManualLimit
  THEN Refused ELSE [replayed EXCEPT !.player[p].manualActionCount = @ + 1]

ReplayComplete(p) ==
  IF ~Admits(p, "pregame-actions") \/ replayed.player[p].manualActionsComplete
  THEN Refused
  ELSE LET t    == [replayed EXCEPT !.player[p].manualActionsComplete = TRUE]
           left == Those(t, "manualActionsComplete", FALSE)
       IN IF left = {} THEN [t EXCEPT !.phase = "ready", !.current = Nobody]
          ELSE [t EXCEPT !.current = First(left)]

ReplayReady(p, ready) ==
  IF ~Admits(p, "ready") \/ replayed.player[p].ready = ready THEN Refused
  ELSE LET t == [replayed EXCEPT !.player[p].ready = ready] IN
       IF Those(t, "ready", FALSE) # {} THEN t
       ELSE [t EXCEPT !.phase = "complete"]

-----------------------------------------------------------------------------
(* The operations of the Core (engine/core/pregame/operationsV1.ts) *)

DealOpeningHands == [core EXCEPT !.hand = [p \in Players |-> OpeningHand]]

(* A slip: counts the mulligans and leaves the hands. *)
WaveWithoutDeal(S) ==
  [core EXCEPT !.mulligans = [p \in Players |-> @[p] + IF p \in S THEN 1 ELSE 0]]
MulliganWave(S) ==
  [hand      |-> [p \in Players |-> IF p \in S THEN OpeningHand ELSE core.hand[p]],
   mulligans |-> [p \in Players |-> core.mulligans[p] + IF p \in S THEN 1 ELSE 0]]

BottomBatch(t) ==
  [core EXCEPT !.hand = [p \in Players |->
     IF t.player[p].mulliganDecision = "mulligan"
     THEN @[p] - t.player[p].pendingBottom ELSE @[p]]]

-----------------------------------------------------------------------------
(* The handler: every accepted command moves the table and the replay that
   will be made of it. *)

(* handleOnlinePregameCommandEnvelopeV1 up to applyCommand; the row is read
   back first where it is stored. *)
MayAct(p) ==
  /\ readBack => Readable
  /\ table.phase # "ready" => table.current = p

Then(t, phase, current) == [t EXCEPT !.phase = phase, !.current = current]

ConfirmCommanders(p) ==
  /\ MayAct(p)
  /\ table.phase = "commander-reveal" /\ ~table.player[p].commanderConfirmed
  /\ LET next    == With(table, p, [table.player[p] EXCEPT !.commanderConfirmed = TRUE])
         waiting == Those(next, "commanderConfirmed", FALSE)
     IN IF waiting # {}
        THEN table' = [next EXCEPT !.current = First(waiting)] /\ UNCHANGED core
        ELSE /\ core' = DealOpeningHands
             /\ table' = Then(next, "mulligan-declaration", 1)
  /\ replayed' = ReplayConfirm(p)

(* beginMulliganWave *)
MulliganWaveOf(t, S) ==
  LET dealt == [p \in Players |->
        LET count == BottomCount(t.player[p].mulligansTaken) IN
        IF p \notin S THEN t.player[p]
        ELSE [t.player[p] EXCEPT
                !.bottomCountRequired = count, !.pendingBottom = 0,
                !.mulliganDecision = IF count = 0 THEN "pending" ELSE "mulligan"]]
      next   == [t EXCEPT !.round = @ + 1, !.player = dealt]
      bottom == {p \in S : dealt[p].bottomCountRequired > 0}
  IN IF bottom # {} THEN Then(next, "mulligan-bottom", First(bottom))
     ELSE Then(next, "mulligan-declaration", First(S))

DeclareMulligan(p, decision) ==
  /\ MayAct(p)
  /\ table.phase = "mulligan-declaration"
  /\ table.player[p].mulliganDecision = "pending"
  /\ decision = "mulligan" => table.player[p].mulligansTaken < MaxMulligans
  /\ LET next        == Declared(table, p, decision)
         pending     == Those(next, "mulliganDecision", "pending")
         mulliganers == Those(next, "mulliganDecision", "mulligan")
     IN CASE pending # {} ->
               /\ table' = [next EXCEPT !.current = First(pending)]
               /\ UNCHANGED core
          [] pending = {} /\ mulliganers = {} ->
               table' = Then(next, "pregame-actions", 1) /\ UNCHANGED core
          [] OTHER -> /\ core' = MulliganWave(mulliganers)
                      /\ table' = MulliganWaveOf(next, mulliganers)
  /\ replayed' = ReplayDeclaration(p, decision)

(* A slip: who took the last mulligan is asked once more. *)
BottomsFinishedNeverKept(t) ==
  LET next == [t EXCEPT !.player = [p \in Players |->
        IF t.player[p].mulliganDecision # "mulligan" THEN t.player[p]
        ELSE [t.player[p] EXCEPT !.pendingBottom = 0,
                                 !.mulliganDecision = "pending"]]]
  IN Then(next, "mulligan-declaration",
          First(Those(next, "mulliganDecision", "pending")))
(* finishBottom: who has no mulligan left keeps the hand. *)
BottomsFinished(t) ==
  LET players == [p \in Players |->
        IF t.player[p].mulliganDecision # "mulligan" THEN t.player[p]
        ELSE [t.player[p] EXCEPT
                !.pendingBottom = 0,
                !.mulliganDecision =
                  IF t.player[p].mulligansTaken >= MaxMulligans
                  THEN "keep" ELSE "pending"]]
      next    == [t EXCEPT !.player = players]
      pending == Those(next, "mulliganDecision", "pending")
  IN IF pending = {} THEN Then(next, "pregame-actions", 1)
     ELSE Then(next, "mulligan-declaration", First(pending))

SubmitMulliganBottom(p) ==
  /\ MayAct(p)
  /\ table.phase = "mulligan-bottom" /\ table.player[p].bottomCountRequired > 0
  /\ table.player[p].bottomCountRequired <= core.hand[p]
  /\ LET next == With(table, p, [table.player[p] EXCEPT
                        !.pendingBottom = table.player[p].bottomCountRequired])
     IN IF Waiting(next) # {}
        THEN /\ table' = [next EXCEPT !.current = First(Waiting(next))]
             /\ UNCHANGED core
        ELSE core' = BottomBatch(next) /\ table' = BottomsFinished(next)
  /\ replayed' = ReplayBottom(p, table.player[p].bottomCountRequired)

RecordManualAction(p) ==
  /\ MayAct(p)
  /\ table.phase = "pregame-actions" /\ ~table.player[p].manualActionsComplete
  /\ table.player[p].manualActionCount < ManualLimit
  /\ table' = [table EXCEPT !.player[p].manualActionCount = @ + 1]
  /\ replayed' = ReplayManualAction(p)
  /\ UNCHANGED core

CompletePregameActions(p) ==
  /\ MayAct(p)
  /\ table.phase = "pregame-actions" /\ ~table.player[p].manualActionsComplete
  /\ LET next    == With(table, p, [table.player[p] EXCEPT !.manualActionsComplete = TRUE])
         waiting == Those(next, "manualActionsComplete", FALSE)
     IN table' = IF waiting = {} THEN Then(next, "ready", Nobody)
                 ELSE [next EXCEPT !.current = First(waiting)]
  /\ replayed' = ReplayComplete(p)
  /\ UNCHANGED core

SetReady(p, ready) ==
  /\ MayAct(p)
  /\ table.phase = "ready" /\ table.player[p].ready # ready
  /\ LET next == With(table, p, [table.player[p] EXCEPT !.ready = ready]) IN
     table' = IF Those(next, "ready", TRUE) = Players
              THEN Then(next, "complete", Nobody) ELSE next
  /\ replayed' = ReplayReady(p, ready)
  /\ UNCHANGED core
==============================================================================
