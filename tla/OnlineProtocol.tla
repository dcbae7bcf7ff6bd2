--------------------------- MODULE OnlineProtocol ---------------------------
(***************************************************************************)
(* The command protocol of an active four seat room (protocol version 1):  *)
(* handleOnlineCommandEnvelopeV1, the hello and snapshot handlers and the  *)
(* room operations they call, together with the client outboxes and a      *)
(* network that loses, repeats, delays and reorders messages.              *)
(*                                                                         *)
(* The Core engine is abstracted to what the protocol can tell apart: the  *)
(* standing of each player, the number of accepted commands, the set of    *)
(* game actions the present root admits, and the players who may not leave *)
(* at present.  The last two change arbitrarily with an accepted game      *)
(* action.                                                                 *)
(***************************************************************************)
EXTENDS Naturals, Sequences, FiniteSets

CONSTANTS
  Players,        \* the players, one for each seat
  First,          \* the player who has the first turn
  Holders,        \* the players who ever have the turn or priority (a bound)
  Observers,      \* table and spectator participants
  CommandIds,     \* identifiers a client chooses for its commands
  GameActions,    \* Core payloads that do not make a player leave
  StewardActions, \* those of them that need the trusted tabletop binder
  Drafts,         \* the commands the clients may author, without their base
  Absentees,      \* the participants whose sockets close (a bound)
  MaxRequests,    \* how many different envelopes are ever sent (a bound)
  MaxInFlight,    \* how many answers are under way to one client (a bound)
  StoresRejects   \* TRUE: the host keeps the state every handler returns
                  \*       (the headless host); FALSE: it commits a state
                  \*       only with a fresh acknowledgement (the Cloudflare
                  \*       Durable Object)

Participants == Players \union Observers
ExitCauses   == {"concession", "defeat"}
Payloads     == GameActions \union ExitCauses
Outcomes     == {"pending", "conceded", "defeated"}

(* A draft names who sends the command, whose capability goes with it, the
   Core player it acts for, and by how much the Core sequence number misses
   the one that follows the base revision. *)
DraftSet == [participantId : Participants, cap : Participants,
             commandId : CommandIds, actor : Players,
             payload : Payloads, skew : {0, 1}]

ASSUME ProtocolAssumption ==
  /\ \E p, q \in Players : p # q
  /\ First \in Holders /\ Holders \subseteq Players
  /\ Drafts \subseteq DraftSet
  /\ StewardActions \subseteq GameActions
  /\ GameActions \intersect ExitCauses = {}
  /\ Players \intersect Observers = {}
  /\ Absentees \subseteq Participants
  /\ StoresRejects \in BOOLEAN

Envelopes == [draft : Drafts, baseRevision : Nat]

RejectCodes == {"AUTHORIZATION_REJECTED", "PARTICIPANT_NOT_CONNECTED",
                "COMMAND_ID_REUSE_MISMATCH", "ROOM_NOT_ACTIVE",
                "ROLE_NOT_ALLOWED", "PLAYER_NOT_PENDING", "ACTOR_MISMATCH",
                "COMMAND_SEQUENCE_MISMATCH", "STALE_REVISION",
                "CORE_COMMAND_REJECTED"}

(* The two refusals that say nothing of the command itself: whose capability
   came with it, and whether its author was present. *)
TransientCodes == {"AUTHORIZATION_REJECTED", "PARTICIPANT_NOT_CONNECTED"}

VARIABLES
  presence,   \* room.participants[].presence
  outcome,    \* room.seats[].outcome
  lifecycle,  \* room.lifecycle, of which a protocol state knows two values
  core,       \* coreRoot: standing, admitted actions, the active player and
              \* the holder of priority, acceptedCommandCount
  receipts,   \* the command receipts, in the order they were stored
  outbox,     \* the envelopes each client has not seen answered
  requests,   \* every envelope ever sent: any may arrive again at any time
  responses,  \* the answers under way
  acked,      \* history: the envelopes ever acknowledged
  denied      \* history: those ever refused for a reason that is not transient

roomVars   == <<presence, outcome, lifecycle>>
clientVars == <<outbox, requests>>
vars == <<presence, outcome, lifecycle, core, receipts, outbox, requests,
        responses, acked, denied>>

revision == core.acceptedCommandCount

CoreRoots == [standing : [Players -> {"active"} \union ExitCauses],
              admits : SUBSET GameActions,
              moving : SUBSET Players,
              acceptedCommandCount : Nat]

(* requestDigest: everything in the envelope but the capability. *)
Digest(m) == [baseRevision |-> m.baseRevision, actor |-> m.draft.actor,
              payload |-> m.draft.payload, skew |-> m.draft.skew]
Digests == [baseRevision : Nat, actor : Players,
            payload : Payloads, skew : {0, 1}]

ReceiptOutcomes == [kind : {"accepted"}, baseRevision : Nat]
                   \union [kind : {"rejected"}, code : RejectCodes]
Receipts == [participantId : Participants, commandId : CommandIds,
             requestDigest : Digests, outcome : ReceiptOutcomes]

Response(m, answer) ==
  [to |-> m.draft.participantId, commandId |-> m.draft.commandId,
   baseRevision |-> m.baseRevision, answer |-> answer]
Responses == [to : Participants, commandId : CommandIds,
              baseRevision : Nat, answer : {"ack"} \union RejectCodes]

-----------------------------------------------------------------------------
(* Room and Core *)

OutcomeFor(standing) ==
  IF standing = "active" THEN "pending"
  ELSE IF standing = "concession" THEN "conceded" ELSE "defeated"

AtMostOne(S) == \A p, q \in S : p = q

(* A command makes the player who sends it leave, which neither the active
   player nor the holder of priority may do, or is a game action the present
   root admits; the protocol cannot see more of applyCoreCommandV1. *)
CoreAccepts(m) ==
  /\ core.standing[m.draft.actor] = "active"
  /\ IF m.draft.payload \in ExitCauses THEN m.draft.actor \notin core.moving
                                       ELSE m.draft.payload \in core.admits

(* A departure hands on neither the turn nor priority; a game action may give
   them to anybody who is left. *)
MovingAfter(m) ==
  LET Standing == {p \in Holders : core.standing[p] = "active"}
  IN  IF m.draft.payload \in ExitCauses THEN {core.moving}
      ELSE {{active, holder} : active, holder \in Standing}

(* A slip: the exit is acknowledged and not recorded. *)
StandingKept(m) == core.standing
StandingAfter(m) ==
  IF m.draft.payload \in ExitCauses
  THEN [core.standing EXCEPT ![m.draft.actor] = m.draft.payload]
  ELSE core.standing

(* A slip: the root from before the command is reconciled. *)
ReconcileRoomBefore(standing) ==
  /\ outcome' = [p \in Players |-> OutcomeFor(core.standing[p])]
  /\ UNCHANGED lifecycle
(* reconcileOnlineRoomCoreLifecycleV1 *)
ReconcileRoom(standing) ==
  /\ outcome' = [p \in Players |-> OutcomeFor(standing[p])]
  /\ lifecycle' = IF AtMostOne({p \in Players : standing[p] = "active"})
                  THEN "finished" ELSE "active"

-----------------------------------------------------------------------------
(* The relations every stored protocol state is validated against before a
   handler looks at it (validateRelations, and the room's own). *)

AcceptedAt(i) == receipts[i].outcome.kind = "accepted"

LifecycleMatches ==
  LET pending == {p \in Players : outcome[p] = "pending"}
  IN  (lifecycle = "finished") <=> AtMostOne(pending)

OutcomesMatchCore ==
  \A p \in Players : outcome[p] = OutcomeFor(core.standing[p])

ReceiptKeysUnique ==
  \A i, j \in DOMAIN receipts :
    /\ receipts[i].participantId = receipts[j].participantId
    /\ receipts[i].commandId = receipts[j].commandId
    => i = j

ReceiptsFromPlayers ==
  \A i \in DOMAIN receipts : receipts[i].participantId \in Players

(* Accepted receipts follow each other without a gap ... *)
AcceptedConsecutive ==
  \A i, j \in DOMAIN receipts :
    /\ i < j
    /\ AcceptedAt(i) /\ AcceptedAt(j)
    /\ \A k \in (i + 1) .. (j - 1) : ~AcceptedAt(k)
    => receipts[j].outcome.baseRevision = receipts[i].outcome.baseRevision + 1

(* ... and the last of them reaches the present revision. *)
LastAcceptedReachesRevision ==
  \A i \in DOMAIN receipts :
    /\ AcceptedAt(i)
    /\ \A k \in (i + 1) .. Len(receipts) : ~AcceptedAt(k)
    => receipts[i].outcome.baseRevision + 1 = revision

StoredRejectsKnown ==
  \A i \in DOMAIN receipts :
    ~AcceptedAt(i) =>
      receipts[i].outcome.code \in {"STALE_REVISION", "CORE_COMMAND_REJECTED"}

ValidState ==
  /\ LifecycleMatches
  /\ OutcomesMatchCore
  /\ ReceiptKeysUnique
  /\ ReceiptsFromPlayers
  /\ AcceptedConsecutive
  /\ LastAcceptedReachesRevision
  /\ StoredRejectsKnown

-----------------------------------------------------------------------------
Init ==
  /\ presence = [p \in Participants |-> "connected"]
  /\ outcome = [p \in Players |-> "pending"]
  /\ lifecycle = "active"
  /\ \E admitted \in SUBSET GameActions :
       core = [standing |-> [p \in Players |-> "active"],
               admits |-> admitted, moving |-> {First},
               acceptedCommandCount |-> 0]
  /\ receipts = <<>>
  /\ outbox = [p \in Participants |-> {}]
  /\ requests = {}
  /\ responses = {}
  /\ acked = {}
  /\ denied = {}

-----------------------------------------------------------------------------
(* The command handler, one action for each way it can end. *)

Arrives(m) ==
  /\ m \in requests
  /\ ValidState
  /\ Cardinality({r \in responses : r.to = m.draft.participantId}) < MaxInFlight

Authenticated(m) == m.draft.cap = m.draft.participantId
Connected(m) == presence[m.draft.participantId] = "connected"
Admitted(m) == Authenticated(m) /\ Connected(m)

(* A slip: the present revision is checked and no receipt is consulted. *)
StoredForgotten(m) == {}
Stored(m) ==
  {i \in DOMAIN receipts :
     /\ receipts[i].participantId = m.draft.participantId
     /\ receipts[i].commandId = m.draft.commandId}

SeatPending(m) ==
  /\ m.draft.participantId \in Players
  /\ outcome[m.draft.participantId] = "pending"

Playable(m) ==
  /\ lifecycle = "active"
  /\ SeatPending(m)
  /\ m.draft.actor = m.draft.participantId
  /\ m.draft.skew = 0

(* The first check of the handler that an unplayable command fails. *)
FirstFailure(m) ==
  IF lifecycle # "active" THEN "ROOM_NOT_ACTIVE"
  ELSE IF m.draft.participantId \notin Players THEN "ROLE_NOT_ALLOWED"
  ELSE IF ~SeatPending(m) THEN "PLAYER_NOT_PENDING"
  ELSE IF m.draft.actor # m.draft.participantId THEN "ACTOR_MISMATCH"
  ELSE "COMMAND_SEQUENCE_MISMATCH"

Refuse(m, code) ==
  /\ responses' = responses \union {Response(m, code)}
  /\ denied' = IF code \in TransientCodes THEN denied ELSE denied \union {m}
  /\ UNCHANGED acked

RefuseUnadmitted(m) ==
  /\ Arrives(m)
  /\ ~Admitted(m)
  /\ Refuse(m, IF Authenticated(m) THEN "PARTICIPANT_NOT_CONNECTED"
               ELSE "AUTHORIZATION_REJECTED")
  /\ UNCHANGED <<roomVars, core, receipts, clientVars>>

(* A slip: whatever has a receipt is acknowledged. *)
AnswerStoredAcked(m) ==
  /\ Arrives(m)
  /\ Admitted(m)
  /\ \E i \in Stored(m) : receipts[i].requestDigest = Digest(m)
  /\ responses' = responses \union {Response(m, "ack")}
  /\ acked' = acked \union {m}
  /\ UNCHANGED <<roomVars, core, receipts, clientVars, denied>>

(* A key that has a receipt is answered from it, whatever the room has
   become; the same key with another request is refused. *)
AnswerStored(m) ==
  /\ Arrives(m)
  /\ Admitted(m)
  /\ \E i \in Stored(m) :
       IF receipts[i].requestDigest # Digest(m)
       THEN Refuse(m, "COMMAND_ID_REUSE_MISMATCH")
       ELSE IF AcceptedAt(i)
       THEN /\ responses' = responses \union {Response(m, "ack")}
            /\ acked' = acked \union {m}
            /\ UNCHANGED denied
       ELSE Refuse(m, receipts[i].outcome.code)
  /\ UNCHANGED <<roomVars, core, receipts, clientVars>>

RefuseUnplayable(m) ==
  /\ Arrives(m)
  /\ Admitted(m)
  /\ Stored(m) = {}
  /\ ~Playable(m)
  /\ Refuse(m, FirstFailure(m))
  /\ UNCHANGED <<roomVars, core, receipts, clientVars>>

(* A plausible slip: any base the server has already passed. *)
NotAhead(m) == m.baseRevision <= revision
Current(m) == m.baseRevision = revision

Judged(m) == Arrives(m) /\ Admitted(m) /\ Stored(m) = {} /\ Playable(m)

Receipt(m, result) ==
  [participantId |-> m.draft.participantId, commandId |-> m.draft.commandId,
   requestDigest |-> Digest(m), outcome |-> result]

(* storedReject: the receipt is part of the state the handler returns, and
   stays only with a host that keeps that state. *)
StoreReject(m, code) ==
  /\ receipts' = IF StoresRejects
                 THEN Append(receipts, Receipt(m, [kind |-> "rejected",
                                                   code |-> code]))
                 ELSE receipts
  /\ Refuse(m, code)
  /\ UNCHANGED <<roomVars, core, clientVars>>

RejectStale(m) ==
  /\ Judged(m)
  /\ ~Current(m)
  /\ StoreReject(m, "STALE_REVISION")

(* The Durable Object turns such an envelope away before the handler. *)
RejectSteward(m) ==
  /\ StoresRejects
  /\ Judged(m)
  /\ Current(m)
  /\ m.draft.payload \in StewardActions
  /\ StoreReject(m, "AUTHORIZATION_REJECTED")

RejectByCore(m) ==
  /\ Judged(m)
  /\ Current(m)
  /\ m.draft.payload \notin StewardActions
  /\ ~CoreAccepts(m)
  /\ StoreReject(m, "CORE_COMMAND_REJECTED")

AcceptCommand(m) ==
  /\ Judged(m)
  /\ Current(m)
  /\ m.draft.payload \notin StewardActions
  /\ CoreAccepts(m)
  /\ \E admitted \in SUBSET GameActions, moving \in MovingAfter(m) :
       core' = [standing |-> StandingAfter(m), admits |-> admitted,
                moving |-> moving, acceptedCommandCount |-> revision + 1]
  /\ ReconcileRoom(StandingAfter(m))
  /\ receipts' = Append(receipts, Receipt(m, [kind |-> "accepted",
                                    baseRevision |-> m.baseRevision]))
  /\ responses' = responses \union {Response(m, "ack")}
  /\ acked' = acked \union {m}
  /\ UNCHANGED <<presence, denied, clientVars>>

HandleCommand(m) ==
  \/ RefuseUnadmitted(m)
  \/ AnswerStored(m)
  \/ RefuseUnplayable(m)
  \/ RejectStale(m)
  \/ RejectSteward(m)
  \/ RejectByCore(m)
  \/ AcceptCommand(m)

-----------------------------------------------------------------------------
(* Presence: hello and snapshot reconnect, a closed socket disconnects. *)

MayReconnect(p) == p \in Players => outcome[p] = "pending"

(* handleOnlineClientHelloV1 and handleOnlineSnapshotRequestV1 change the same
   state, through reconnectProtocolParticipant. *)
Reconnect(p) ==
  /\ ValidState
  /\ presence[p] = "disconnected"
  /\ MayReconnect(p)
  /\ presence' = [presence EXCEPT ![p] = "connected"]
  /\ UNCHANGED <<outcome, lifecycle, core, receipts, clientVars, responses,
                 acked, denied>>

Disconnect(p) ==
  /\ p \in Absentees
  /\ ValidState
  /\ presence[p] = "connected"
  /\ presence' = [presence EXCEPT ![p] = "disconnected"]
  /\ UNCHANGED <<outcome, lifecycle, core, receipts, clientVars, responses,
                 acked, denied>>

-----------------------------------------------------------------------------
(* The client outbox: a command is queued once for each identifier, replayed
   until an answer to it arrives, and settled by an acknowledgement and by a
   rejection alike.  The view a command is based on may be any revision its
   author has been shown. *)

Enqueue(d, base) ==
  LET p == d.participantId
      m == [draft |-> d, baseRevision |-> base]
  IN  /\ \A e \in outbox[p] : e.draft.commandId # d.commandId
      /\ Cardinality(requests \union {m}) <= MaxRequests
      /\ outbox' = [outbox EXCEPT ![p] = @ \union {m}]
      /\ requests' = requests \union {m}
      /\ UNCHANGED <<roomVars, core, receipts, responses, acked, denied>>

Settle(r) ==
  /\ r \in responses
  /\ responses' = responses \ {r}
  /\ outbox' = [outbox EXCEPT ![r.to] =
                  {e \in @ : ~(/\ e.draft.commandId = r.commandId
                               /\ e.baseRevision = r.baseRevision)}]
  /\ UNCHANGED <<roomVars, core, receipts, requests, acked, denied>>

(* The network loses an answer. *)
LoseResponse(r) ==
  /\ r \in responses
  /\ responses' = responses \ {r}
  /\ UNCHANGED <<roomVars, core, receipts, clientVars, acked, denied>>

-----------------------------------------------------------------------------
Next ==
  \/ \E m \in requests : HandleCommand(m)
  \/ \E p \in Participants : Reconnect(p) \/ Disconnect(p)
  \/ \E d \in Drafts, base \in 0 .. revision : Enqueue(d, base)
  \/ \E r \in responses : Settle(r) \/ LoseResponse(r)

Spec == Init /\ [][Next]_vars

-----------------------------------------------------------------------------
TypeOK ==
  /\ presence \in [Participants -> {"connected", "disconnected"}]
  /\ outcome \in [Players -> Outcomes]
  /\ lifecycle \in {"active", "finished"}
  /\ core \in CoreRoots
  /\ receipts \in Seq(Receipts)
  /\ outbox \in [Participants -> SUBSET Envelopes]
  /\ requests \in SUBSET Envelopes
  /\ responses \in SUBSET Responses
  /\ acked \in SUBSET Envelopes
  /\ denied \in SUBSET Envelopes

-----------------------------------------------------------------------------
(* Properties *)

(* Every state a handler leaves behind is well typed and passes the relations
   the next handler validates it against: no accepted history makes the room
   unreadable. *)
StateStaysValid == TypeOK /\ ValidState

(* Every accepted command was authored against exactly the commands accepted
   before it: the first against the genesis root, each next one against its
   predecessor, the last one reaching what the Core has counted.  Nothing was
   applied to a root its author had not based it on. *)
AppliedOnItsBase ==
  /\ \A i \in DOMAIN receipts :
       AcceptedAt(i) /\ (\A k \in 1 .. (i - 1) : ~AcceptedAt(k))
       => receipts[i].outcome.baseRevision = 0
  /\ (\A i \in DOMAIN receipts : ~AcceptedAt(i)) => revision = 0
  /\ AcceptedConsecutive
  /\ LastAcceptedReachesRevision

(* A player who conceded or was defeated sends nothing more that is applied:
   leaving is the last accepted command of that participant. *)
LeavingIsLast ==
  \A i, j \in DOMAIN receipts :
    /\ i < j
    /\ AcceptedAt(i) /\ AcceptedAt(j)
    /\ receipts[i].participantId = receipts[j].participantId
    => receipts[i].requestDigest.payload \notin ExitCauses

(* The room keeps the promise of CommandLog: the log is the accepted
   receipts, and no answer the server ever gave contradicts it. *)
RequestOf(receipt) == [participantId |-> receipt.participantId,
                       commandId |-> receipt.commandId,
                       requestDigest |-> receipt.requestDigest]
RequestIn(m) == [participantId |-> m.draft.participantId,
                 commandId |-> m.draft.commandId,
                 requestDigest |-> Digest(m)]

(* The accepted receipt of revision r, which was based on the one before it. *)
ReceiptOfRevision(r) ==
  CHOOSE i \in DOMAIN receipts :
    AcceptedAt(i) /\ receipts[i].outcome.baseRevision = r - 1
AcceptedLog == [r \in 1 .. revision |-> RequestOf(receipts[ReceiptOfRevision(r)])]

Log == INSTANCE CommandLog WITH
  KeyOf <- LAMBDA q : <<q.participantId, q.commandId>>,
  authored <- {RequestIn(m) : m \in {e \in requests : Authenticated(e)}},
  log <- AcceptedLog,
  acked <- {RequestIn(m) : m \in acked},
  denied <- {RequestIn(m) : m \in denied}

KeepsCommandLog == Log!LogInit /\ [][Log!LogNext]_(Log!logVars)
=============================================================================
