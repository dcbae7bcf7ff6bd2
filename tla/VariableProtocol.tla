-------------------------- MODULE VariableProtocol --------------------------
(***************************************************************************)
(* The command protocol of an active room of two or four seats (protocol   *)
(* version 2): the command handler, the shared undo, the manual combat     *)
(* damage, and the presence of the players, with clients whose messages    *)
(* are lost, repeated, delayed and reordered.                              *)
(*                                                                         *)
(* The Core root is abstracted to what the handlers and the undo tell      *)
(* apart: whose turn it is, who put what on the stack, the priority HOLDs, *)
(* who is attacked, which searches are open, who is still in the game, and *)
(* for everything else on the table the set of commands that led to it.    *)
(* What a command asks of cards and priority is not modelled: a root bars  *)
(* some kinds of command for reasons that are not seen here.               *)
(***************************************************************************)
EXTENDS Naturals, Sequences, FiniteSets

CONSTANTS
  TurnOrder,      \* the players, in the order of their seats
  CommandIds,     \* identifiers a client chooses for its commands
  Drafts,         \* the commands the clients may author, without their base
  Nobody,         \* the steward of a root with a HOLD
  NoCheckpoint,   \* the shared checkpoint when there is none
  Fickle,         \* the kinds of command a root may bar for unseen reasons
  Absentees,      \* the players whose sockets close (a bound)
  MaxRequests     \* how many different messages are ever sent (a bound)

Players == {TurnOrder[i] : i \in DOMAIN TurnOrder}

ExitCauses  == {"concession", "defeat"}
HoldKinds   == {"hold", "release"}
NoteKinds   == {"search-open", "search-complete", "note"}
DamageKinds == {"damage", "lethal"}
(* what the steward alone may do, and what only the server's binder may make
   of a client's intent *)
StewardKinds == {"resolve", "advance"}
BinderKinds == StewardKinds \union {"search-open"}
GameKinds   == {"move", "cast", "attack"} \union StewardKinds
Kinds == ExitCauses \union HoldKinds \union NoteKinds \union DamageKinds
         \union GameKinds \union {"undo"}

(* cap is the player whose capability goes with the message, actor the Core
   player it acts for, target who is attacked or damaged or makes the choice of
   a search, skew by how much the Core sequence number misses the one after the
   base revision, and bound whether the message comes from the server's
   binder. *)
DraftSet == [participantId : Players, cap : Players, commandId : CommandIds,
             kind : Kinds, actor : Players, target : Players,
             skew : {0, 1}, bound : BOOLEAN]

ASSUME VariableAssumption ==
  /\ TurnOrder \in Seq(Players)
  /\ \A i, j \in DOMAIN TurnOrder : TurnOrder[i] = TurnOrder[j] => i = j
  /\ \E p, q \in Players : p # q
  /\ Drafts \subseteq DraftSet
  /\ \A d \in Drafts : d.kind \in DamageKinds \union {"undo"} => d.bound
  /\ Fickle \subseteq Kinds \ {"undo"}
  /\ Absentees \subseteq Players
  /\ Nobody \notin Players

Requests == [draft : Drafts, baseRevision : Nat]
Outcomes == {"pending", "conceded", "defeated"}

VARIABLES
  presence,    \* room.participants[].presence
  outcome,     \* room.seats[].outcome
  lifecycle,   \* room.lifecycle, of which a protocol state knows two values
  core,        \* coreRoot
  checkpoint,  \* sharedCheckpoint: the root one undo may bring back
  receipts,    \* the accepted commands, in the order they were accepted
  requests,    \* every message ever sent: any may arrive again at any time
  acked,       \* history: the messages ever acknowledged
  denied       \* history: those ever refused for a reason that is not transient

roomVars    == <<presence, outcome, lifecycle>>
answerVars  == <<acked, denied>>
serverVars  == <<roomVars, core, checkpoint, receipts>>
vars == <<presence, outcome, lifecycle, core, checkpoint, receipts, requests,
          acked, denied>>

revision == core.acceptedCommandCount

(* What is on the stack, by the revision that put it there and its player. *)
StackObjects == [at : Nat, by : Players]

CoreRoots == [active : Players, stack : SUBSET StackObjects,
              holds : SUBSET Players,
              attacked : SUBSET Players,
              searches : SUBSET (Players \X Players),
              standing : [Players -> {"active"} \union ExitCauses],
              effects : SUBSET Nat, barred : SUBSET Fickle,
              acceptedCommandCount : Nat]

Checkpoints == [revision : Nat, coreRoot : CoreRoots,
                seatOutcomes : [Players -> Outcomes],
                stewardPlayerId : Players]
ASSUME CheckpointAssumption == NoCheckpoint \notin Checkpoints

Digest(m) == [baseRevision |-> m.baseRevision, kind |-> m.draft.kind,
              actor |-> m.draft.actor, target |-> m.draft.target,
              skew |-> m.draft.skew]
Receipt(m) == [participantId |-> m.draft.participantId,
               commandId |-> m.draft.commandId,
               requestDigest |-> Digest(m), acceptedRevision |-> revision + 1]
Receipts == [participantId : Players, commandId : CommandIds,
             requestDigest : [baseRevision : Nat, kind : Kinds,
                              actor : Players, target : Players,
                              skew : {0, 1}],
             acceptedRevision : Nat]

-----------------------------------------------------------------------------
(* Core *)

AtMostOne(S) == \A p, q \in S : p = q
Survivors(root) == {p \in Players : root.standing[p] = "active"}

(* The latest that was put on the stack. *)
Top(root) == CHOOSE o \in root.stack : \A other \in root.stack : other.at <= o.at

(* The player who put the top of the stack there, or whose turn it is. *)
StackSteward(root) == IF root.stack = {} THEN root.active ELSE Top(root).by

(* coreUndoAuthorizedPlayerV1 *)
Steward(root) == IF root.holds = {} THEN StackSteward(root) ELSE Nobody

Seat(p) == CHOOSE i \in DOMAIN TurnOrder : TurnOrder[i] = p
Ahead(p, k) == TurnOrder[((Seat(p) + k - 1) % Len(TurnOrder)) + 1]
NextPlayer(root) ==
  LET Surviving(k) == Ahead(root.active, k) \in Survivors(root)
  IN  Ahead(root.active,
            CHOOSE k \in 1 .. Len(TurnOrder) :
              Surviving(k) /\ \A j \in 1 .. (k - 1) : ~Surviving(j))

(* Who leaves the game with this command. *)
Leaving(d) == IF d.kind \in ExitCauses THEN {d.actor}
              ELSE IF d.kind = "lethal" THEN {d.target}
              ELSE {}
Cause(d) == IF d.kind = "concession" THEN "concession" ELSE "defeat"

(* A search is known by the player who searches and the one who chooses. *)
SearchOf(d) == IF d.kind = "search-open" THEN <<d.actor, d.target>>
               ELSE <<d.actor, d.participantId>>

(* A game command acts for its author, recorded damage for the defender. *)
CoreActor(d) == IF d.kind \in DamageKinds THEN d.target ELSE d.actor

(* What of the Core's conditions can be seen here. *)
CoreAdmits(root, d) ==
  /\ d.kind \notin root.barred
  /\ CoreActor(d) \in Survivors(root)
  /\ d.kind = "cast" => root.holds = {}
  /\ d.kind = "search-open" => d.target \in Survivors(root)
  /\ d.kind = "search-complete" => SearchOf(d) \in root.searches
  /\ d.kind = "attack" => /\ d.actor = root.active
                          /\ d.target \in Survivors(root) \ {root.active}
  /\ d.kind \in StewardKinds => Steward(root) = d.actor
  /\ d.kind = "resolve" => root.stack # {}
  /\ d.kind = "advance" => root.active = d.actor /\ root.stack = {}
  /\ root.active \notin Leaving(d)

PutOn(root, d) == [at |-> root.acceptedCommandCount + 1, by |-> d.actor]

(* A slip: what the leaving player put on the stack stays there. *)
StackKept(root, d) ==
  CASE d.kind = "cast"    -> root.stack \union {PutOn(root, d)}
    [] d.kind = "resolve" -> root.stack \ {Top(root)}
    [] OTHER              -> root.stack
StackAfter(root, d) ==
  CASE d.kind = "cast"    -> root.stack \union {PutOn(root, d)}
    [] d.kind = "resolve" -> root.stack \ {Top(root)}
    [] OTHER              -> {o \in root.stack : o.by \notin Leaving(d)}

HoldsAfter(root, d) ==
  CASE d.kind = "hold"    -> root.holds \union {d.actor}
    [] d.kind = "release" -> root.holds \ {d.actor}
    [] OTHER              -> root.holds \ Leaving(d)

AttackedAfter(root, d) ==
  CASE d.kind = "attack"  -> root.attacked \union {d.target}
    [] d.kind = "advance" -> {}
    [] OTHER              -> root.attacked \ Leaving(d)

(* A slip: a departure leaves the choices it owes. *)
SearchesKept(root, d) ==
  CASE d.kind = "search-open"     -> root.searches \union {SearchOf(d)}
    [] d.kind = "search-complete" -> root.searches \ {SearchOf(d)}
    [] OTHER                      -> root.searches
SearchesAfter(root, d) ==
  CASE d.kind = "search-open"     -> root.searches \union {SearchOf(d)}
    [] d.kind = "search-complete" -> root.searches \ {SearchOf(d)}
    [] OTHER -> {s \in root.searches : {s[1], s[2]} \cap Leaving(d) = {}}

(* applyCoreCommandV1, for a command that it accepts; the new root bars what
   it bars *)
CoreAfter(root, d, barred) ==
  [active   |-> IF d.kind = "advance" THEN NextPlayer(root) ELSE root.active,
   stack    |-> StackAfter(root, d),
   holds    |-> HoldsAfter(root, d),
   attacked |-> AttackedAfter(root, d),
   searches |-> SearchesAfter(root, d),
   standing |-> [p \in Players |-> IF p \in Leaving(d) THEN Cause(d)
                                   ELSE root.standing[p]],
   effects  |-> IF d.kind \in HoldKinds THEN root.effects
                ELSE root.effects \union {root.acceptedCommandCount + 1},
   barred   |-> barred,
   acceptedCommandCount |-> root.acceptedCommandCount + 1]

-----------------------------------------------------------------------------
(* Room and checkpoint *)

OutcomeFor(standing) ==
  IF standing = "active" THEN "pending"
  ELSE IF standing = "concession" THEN "conceded" ELSE "defeated"

OutcomesOf(root) == [p \in Players |-> OutcomeFor(root.standing[p])]
LifecycleOf(root) == IF AtMostOne(Survivors(root)) THEN "finished" ELSE "active"

(* Notes, searches, visibility and HOLDs are not shared mutations: they leave
   nothing that the next undo could take back. *)
SharedMutation(d) == d.kind \notin NoteKinds \union HoldKinds

(* A slip: the steward is looked up without regard to HOLDs. *)
CheckpointUnheld(d) ==
  [revision |-> revision, coreRoot |-> core, seatOutcomes |-> outcome,
   stewardPlayerId |-> StackSteward(core)]
CheckpointFor(d) ==
  LET steward == Steward(core)
  IN  [revision |-> revision, coreRoot |-> core, seatOutcomes |-> outcome,
       stewardPlayerId |-> IF steward = Nobody THEN CoreActor(d) ELSE steward]

-----------------------------------------------------------------------------
(* The relations a stored state is validated against before any handler looks
   at it (validateInternal), and those the store adds when it loads it. *)

OutcomesMatchCore == outcome = OutcomesOf(core)
LifecycleMatches == lifecycle = LifecycleOf(core)

ReceiptKeysUnique ==
  \A i, j \in DOMAIN receipts :
    /\ receipts[i].participantId = receipts[j].participantId
    /\ receipts[i].commandId = receipts[j].commandId
    => i = j

CheckpointMatches ==
  checkpoint # NoCheckpoint =>
    /\ checkpoint.revision < revision
    /\ checkpoint.coreRoot.acceptedCommandCount = checkpoint.revision
    /\ checkpoint.seatOutcomes = OutcomesOf(checkpoint.coreRoot)

(* The journal and the receipts have one entry for each revision. *)
ReceiptsReachRevision ==
  /\ Len(receipts) = revision
  /\ \A i \in DOMAIN receipts : receipts[i].acceptedRevision = i

ValidState ==
  /\ OutcomesMatchCore
  /\ ReceiptKeysUnique
  /\ CheckpointMatches
  /\ ReceiptsReachRevision

-----------------------------------------------------------------------------
Init ==
  /\ presence = [p \in Players |-> "connected"]
  /\ outcome = [p \in Players |-> "pending"]
  /\ lifecycle = "active"
  /\ \E barred \in SUBSET Fickle :
       core = [active |-> TurnOrder[1], stack |-> {}, holds |-> {},
               attacked |-> {}, searches |-> {},
               standing |-> [p \in Players |-> "active"], effects |-> {},
               barred |-> barred, acceptedCommandCount |-> 0]
  /\ checkpoint = NoCheckpoint
  /\ receipts = <<>>
  /\ requests = {}
  /\ acked = {}
  /\ denied = {}

-----------------------------------------------------------------------------
(* The handlers.  A message that fails its authentication, or whose author is
   not connected, is turned away and changes nothing. *)

Admitted(m) ==
  /\ m \in requests
  /\ ValidState
  /\ m.draft.cap = m.draft.participantId
  /\ presence[m.draft.participantId] = "connected"

(* A slip: the present revision is checked and no receipt is consulted. *)
StoredForgotten(m) == {}
Stored(m) ==
  {i \in DOMAIN receipts :
     /\ receipts[i].participantId = m.draft.participantId
     /\ receipts[i].commandId = m.draft.commandId}

(* A key that has a receipt is acknowledged again, whatever the room has
   become and whether or not what it did was undone since; the same key with
   another request is refused. *)
AnswerStored(m) ==
  /\ Admitted(m)
  /\ \E i \in Stored(m) :
       IF receipts[i].requestDigest = Digest(m)
       THEN acked' = acked \union {m} /\ UNCHANGED denied
       ELSE denied' = denied \union {m} /\ UNCHANGED acked
  /\ UNCHANGED <<serverVars, requests>>

SeatPending(m) == outcome[m.draft.participantId] = "pending"
Current(m) == m.baseRevision = revision

(* The selector of a search completes it for the player who searches. *)
ActsForSeat(d) == d.actor = d.participantId \/ d.kind = "search-complete"

CommandPlayable(m) ==
  /\ lifecycle = "active"
  /\ SeatPending(m)
  /\ ActsForSeat(m.draft)
  /\ m.draft.skew = 0
  /\ Current(m)
  /\ m.draft.kind \in BinderKinds => m.draft.bound
  /\ CoreAdmits(core, m.draft)

DamagePlayable(m) ==
  /\ lifecycle = "active"
  /\ SeatPending(m)
  /\ Current(m)
  /\ Steward(core) = m.draft.participantId
  /\ m.draft.target \in core.attacked
  /\ CoreAdmits(core, m.draft)

Playable(m) == IF m.draft.kind \in DamageKinds THEN DamagePlayable(m)
               ELSE CommandPlayable(m)

(* An undo is taken from a finished room too, when it restores a live one. *)
Undoable(m) ==
  /\ SeatPending(m)
  /\ Current(m)
  /\ checkpoint # NoCheckpoint
  /\ checkpoint.revision = revision - 1
  /\ checkpoint.stewardPlayerId = m.draft.participantId
  /\ Steward(core) = m.draft.participantId
  /\ lifecycle = "finished" => ~AtMostOne(Survivors(checkpoint.coreRoot))

Refuse(m) ==
  /\ Admitted(m)
  /\ Stored(m) = {}
  /\ ~(IF m.draft.kind = "undo" THEN Undoable(m) ELSE Playable(m))
  /\ denied' = denied \union {m}
  /\ UNCHANGED <<serverVars, requests, acked>>

Accept(m) ==
  /\ receipts' = Append(receipts, Receipt(m))
  /\ acked' = acked \union {m}
  /\ UNCHANGED <<presence, requests, denied>>

AcceptCommand(m) ==
  /\ m.draft.kind # "undo"
  /\ Admitted(m)
  /\ Stored(m) = {}
  /\ Playable(m)
  /\ \E barred \in SUBSET Fickle : core' = CoreAfter(core, m.draft, barred)
  /\ outcome' = OutcomesOf(core')
  /\ lifecycle' = LifecycleOf(core')
  /\ checkpoint' = IF SharedMutation(m.draft) THEN CheckpointFor(m.draft)
                   ELSE NoCheckpoint
  /\ Accept(m)

(* A slip: the seats keep the outcomes of the present root. *)
AcceptUndoKeepingSeats(m) ==
  /\ m.draft.kind = "undo"
  /\ Admitted(m)
  /\ Stored(m) = {}
  /\ Undoable(m)
  /\ core' = [checkpoint.coreRoot EXCEPT !.acceptedCommandCount = revision + 1]
  /\ lifecycle' = LifecycleOf(checkpoint.coreRoot)
  /\ checkpoint' = NoCheckpoint
  /\ Accept(m)
  /\ UNCHANGED outcome

(* A slip: only who is in the game is brought back. *)
AcceptUndoOfExits(m) ==
  /\ m.draft.kind = "undo"
  /\ Admitted(m)
  /\ Stored(m) = {}
  /\ Undoable(m)
  /\ core' = [core EXCEPT !.standing = checkpoint.coreRoot.standing,
                          !.acceptedCommandCount = revision + 1]
  /\ outcome' = checkpoint.seatOutcomes
  /\ lifecycle' = LifecycleOf(checkpoint.coreRoot)
  /\ checkpoint' = NoCheckpoint
  /\ Accept(m)

(* The restored root counts the undo as one more accepted command. *)
AcceptUndo(m) ==
  /\ m.draft.kind = "undo"
  /\ Admitted(m)
  /\ Stored(m) = {}
  /\ Undoable(m)
  /\ core' = [checkpoint.coreRoot EXCEPT !.acceptedCommandCount = revision + 1]
  /\ outcome' = checkpoint.seatOutcomes
  /\ lifecycle' = LifecycleOf(checkpoint.coreRoot)
  /\ checkpoint' = NoCheckpoint
  /\ Accept(m)

-----------------------------------------------------------------------------
(* Presence, and the clients *)

Rejoin(p) ==
  /\ presence[p] = "disconnected"
  /\ ValidState
  /\ outcome[p] = "pending"
  /\ presence' = [presence EXCEPT ![p] = "connected"]
  /\ UNCHANGED <<outcome, lifecycle, core, checkpoint, receipts, requests,
                 answerVars>>

Disconnect(p) ==
  /\ p \in Absentees
  /\ presence[p] = "connected"
  /\ ValidState
  /\ presence' = [presence EXCEPT ![p] = "disconnected"]
  /\ UNCHANGED <<outcome, lifecycle, core, checkpoint, receipts, requests,
                 answerVars>>

(* A client bases a message on any revision it has been shown. *)
Author(d, base) ==
  LET m == [draft |-> d, baseRevision |-> base]
  IN  /\ m \notin requests
      /\ Cardinality(requests) < MaxRequests
      /\ requests' = requests \union {m}
      /\ UNCHANGED <<serverVars, answerVars>>

Next ==
  \/ \E m \in requests :
       AnswerStored(m) \/ Refuse(m) \/ AcceptCommand(m) \/ AcceptUndo(m)
  \/ \E p \in Players : Rejoin(p) \/ Disconnect(p)
  \/ \E d \in Drafts, base \in 0 .. revision : Author(d, base)

Spec == Init /\ [][Next]_vars

-----------------------------------------------------------------------------
TypeOK ==
  /\ presence \in [Players -> {"connected", "disconnected"}]
  /\ outcome \in [Players -> Outcomes]
  /\ lifecycle \in {"active", "finished"}
  /\ core \in CoreRoots
  /\ checkpoint \in Checkpoints \union {NoCheckpoint}
  /\ receipts \in Seq(Receipts)
  /\ requests \in SUBSET Requests
  /\ acked \in SUBSET Requests
  /\ denied \in SUBSET Requests

-----------------------------------------------------------------------------
(* Properties *)

(* Every state a handler leaves behind has its type, is one the next handler
   and the store accept, and its lifecycle tells how many are left, also when an
   undo brings a finished room and the players who left it back. *)
StateStaysLoadable == TypeOK /\ ValidState /\ LifecycleMatches

(* What the table shows, and who has left it, is told by the accepted commands
   alone: those that were not undone by the very next one. *)
Undone(i) ==
  /\ i + 1 \in DOMAIN receipts
  /\ receipts[i + 1].requestDigest.kind = "undo"

ShownOf(i) == receipts[i].requestDigest.kind \notin HoldKinds \union {"undo"}

TableIsTheLog ==
  LET kept == {i \in DOMAIN receipts : ShownOf(i) /\ ~Undone(i)}
  IN  /\ core.effects = kept
      /\ Players \ Survivors(core) =
           UNION {Leaving(receipts[i].requestDigest) : i \in kept}

(* An undo never brings a HOLD back and never hands the table to anybody else:
   who undoes a command is the steward before and after. *)
UndoStep ==
  /\ Len(receipts') > Len(receipts)
  /\ receipts'[Len(receipts')].requestDigest.kind = "undo"

UndoKeepsTheSteward ==
  [][UndoStep => /\ Steward(core) = Steward(core')
                 /\ Steward(core) = receipts'[Len(receipts')].participantId]_vars

(* Somebody who is still in the game can always move the table on: neither the
   turn, the top of the stack, a HOLD, an attack nor a choice ever belongs to a
   player who has left, also when an undo brings an older table back. *)
SomebodyMovesOn ==
  /\ StackSteward(core) \in Survivors(core)
  /\ core.active \in Survivors(core)
  /\ core.holds \union core.attacked \subseteq Survivors(core)
  /\ core.searches \subseteq Survivors(core) \X Survivors(core)

(* The room keeps the promise of CommandLog, undo included: an undone command
   has been applied, once, and its repetition does not apply it again. *)
RequestOf(receipt) == [participantId |-> receipt.participantId,
                       commandId |-> receipt.commandId,
                       requestDigest |-> receipt.requestDigest]
RequestIn(m) == [participantId |-> m.draft.participantId,
                 commandId |-> m.draft.commandId,
                 requestDigest |-> Digest(m)]

Log == INSTANCE CommandLog WITH
  KeyOf <- LAMBDA q : <<q.participantId, q.commandId>>,
  authored <- {RequestIn(m) : m \in {r \in requests :
                                       r.draft.cap = r.draft.participantId}},
  log <- [i \in DOMAIN receipts |-> RequestOf(receipts[i])],
  acked <- {RequestIn(m) : m \in acked},
  denied <- {RequestIn(m) : m \in denied}

KeepsCommandLog == Log!LogInit /\ [][Log!LogNext]_(Log!logVars)
=============================================================================
