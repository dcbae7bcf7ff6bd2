----------------------- MODULE OnlineProtocol_proofs ------------------------
(***************************************************************************)
(* Theorems about OnlineProtocol for every number of seats, identifiers,   *)
(* drafts and revisions, and for both kinds of host.                       *)
(***************************************************************************)
EXTENDS OnlineProtocol, TLAPS

USE DEF Participants, ExitCauses, Payloads, Outcomes, RejectCodes

-----------------------------------------------------------------------------
(* What an envelope is made of. *)
LEMMA EnvelopeParts ==
  ASSUME NEW m \in Envelopes
  PROVE  /\ m.draft \in Drafts
         /\ m.baseRevision \in Nat
         /\ m.draft.participantId \in Participants
         /\ m.draft.commandId \in CommandIds
         /\ m.draft.actor \in Players
         /\ m.draft.payload \in Payloads
         /\ m.draft.skew \in {0, 1}
         /\ Digest(m) \in Digests
BY ProtocolAssumption DEF Envelopes, DraftSet, Digest, Digests

(* The receipt of an envelope is a receipt, whichever way it ends. *)
LEMMA ReceiptTyped ==
  ASSUME NEW m \in Envelopes, NEW result \in ReceiptOutcomes
  PROVE  Receipt(m, result) \in Receipts
BY EnvelopeParts DEF Receipt, Receipts

(* So is the answer to it a response. *)
LEMMA ResponseTyped ==
  ASSUME NEW m \in Envelopes, NEW answer \in {"ack"} \union RejectCodes
  PROVE  Response(m, answer) \in Responses
BY EnvelopeParts DEF Response, Responses

LEMMA FailureTyped ==
  ASSUME NEW m
  PROVE  FirstFailure(m) \in RejectCodes
BY DEF FirstFailure

(* Refusing an envelope keeps the answers and the history typed. *)
LEMMA RefuseTyped ==
  ASSUME TypeOK, NEW m \in Envelopes, NEW code \in RejectCodes, Refuse(m, code)
  PROVE  /\ responses' \in SUBSET Responses
         /\ acked' \in SUBSET Envelopes
         /\ denied' \in SUBSET Envelopes
BY ResponseTyped DEF TypeOK, Refuse

-----------------------------------------------------------------------------
LEMMA InitTyped == Init => TypeOK
BY ProtocolAssumption DEF Init, TypeOK, CoreRoots

LEMMA TypeStep == TypeOK /\ [Next]_vars => TypeOK'
<1> SUFFICES ASSUME TypeOK, [Next]_vars PROVE TypeOK'
  OBVIOUS
<1>1. ASSUME NEW m \in requests, HandleCommand(m) PROVE TypeOK'
  <2>0. m \in Envelopes
    BY DEF TypeOK
  <2>1. CASE RefuseUnadmitted(m)
    BY <2>0, <2>1, RefuseTyped
    DEF RefuseUnadmitted, TypeOK, roomVars, clientVars
  <2>2. CASE AnswerStored(m)
    <3> PICK i \in Stored(m) :
           IF receipts[i].requestDigest # Digest(m)
           THEN Refuse(m, "COMMAND_ID_REUSE_MISMATCH")
           ELSE IF AcceptedAt(i)
           THEN /\ responses' = responses \union {Response(m, "ack")}
                /\ acked' = acked \union {m}
                /\ UNCHANGED denied
           ELSE Refuse(m, receipts[i].outcome.code)
      BY <2>2 DEF AnswerStored
    <3>1. receipts[i] \in Receipts
      BY DEF TypeOK, Stored
    <3>2. ~AcceptedAt(i) => receipts[i].outcome.code \in RejectCodes
      BY <3>1 DEF AcceptedAt, Receipts, ReceiptOutcomes
    <3>3. Response(m, "ack") \in Responses
      BY <2>0, ResponseTyped
    <3>4. /\ responses' \in SUBSET Responses
          /\ acked' \in SUBSET Envelopes
          /\ denied' \in SUBSET Envelopes
      BY <2>0, <3>2, <3>3, RefuseTyped DEF TypeOK
    <3> QED
      BY <2>2, <3>4 DEF AnswerStored, TypeOK, roomVars, clientVars
  <2>3. CASE RefuseUnplayable(m)
    BY <2>0, <2>3, RefuseTyped, FailureTyped
    DEF RefuseUnplayable, TypeOK, roomVars, clientVars
  <2>4. ASSUME NEW code \in RejectCodes, StoreReject(m, code) PROVE TypeOK'
    <3>1. Receipt(m, [kind |-> "rejected", code |-> code]) \in Receipts
      BY <2>0, ReceiptTyped DEF ReceiptOutcomes
    <3>2. receipts' \in Seq(Receipts)
      BY <2>4, <3>1 DEF StoreReject, TypeOK
    <3> QED
      BY <2>0, <2>4, <3>2, RefuseTyped
      DEF StoreReject, TypeOK, roomVars, clientVars
  <2>5. CASE RejectStale(m) \/ RejectSteward(m) \/ RejectByCore(m)
    BY <2>4, <2>5 DEF RejectStale, RejectSteward, RejectByCore
  <2>6. CASE AcceptCommand(m)
    <3>1. StandingAfter(m) \in [Players -> {"active"} \union ExitCauses]
      BY <2>0, EnvelopeParts DEF StandingAfter, TypeOK, CoreRoots
    <3>2. core' \in CoreRoots
      <4>1. \A moving \in MovingAfter(m) : moving \in SUBSET Players
        BY ProtocolAssumption DEF MovingAfter, CoreRoots, TypeOK
      <4> QED
        BY <2>6, <3>1, <4>1 DEF AcceptCommand, CoreRoots, revision, TypeOK
    <3>3. outcome' \in [Players -> Outcomes] /\ lifecycle' \in {"active", "finished"}
      <4>1. \A p \in Players : OutcomeFor(StandingAfter(m)[p]) \in Outcomes
        BY <3>1 DEF OutcomeFor
      <4> QED
        BY <2>6, <4>1 DEF AcceptCommand, ReconcileRoom
    <3>4. receipts' \in Seq(Receipts)
      <4>1. Receipt(m, [kind |-> "accepted",
                        baseRevision |-> m.baseRevision]) \in Receipts
        BY <2>0, EnvelopeParts, ReceiptTyped DEF ReceiptOutcomes
      <4> QED
        BY <2>6, <4>1 DEF AcceptCommand, TypeOK
    <3>5. Response(m, "ack") \in Responses
      BY <2>0, ResponseTyped
    <3> QED
      BY <2>0, <2>6, <3>2, <3>3, <3>4, <3>5
      DEF AcceptCommand, TypeOK, clientVars
  <2> QED
    BY <1>1, <2>1, <2>2, <2>3, <2>5, <2>6 DEF HandleCommand
<1>2. ASSUME NEW p \in Participants, Reconnect(p) \/ Disconnect(p)
      PROVE  TypeOK'
  BY <1>2 DEF Reconnect, Disconnect, TypeOK, clientVars
<1>3. ASSUME NEW d \in Drafts, NEW base \in 0 .. revision, Enqueue(d, base)
      PROVE  TypeOK'
  <2>1. [draft |-> d, baseRevision |-> base] \in Envelopes
    BY DEF Envelopes, TypeOK, CoreRoots, revision
  <2>2. d.participantId \in Participants
    BY ProtocolAssumption DEF DraftSet
  <2> QED
    BY <1>3, <2>1, <2>2 DEF Enqueue, TypeOK, roomVars
<1>4. ASSUME NEW r \in responses, Settle(r) \/ LoseResponse(r)
      PROVE  TypeOK'
  BY <1>4 DEF Settle, LoseResponse, TypeOK, roomVars, clientVars, Responses
<1>5. CASE UNCHANGED vars
  BY <1>5 DEF vars, TypeOK
<1> QED
  BY <1>1, <1>2, <1>3, <1>4, <1>5 DEF Next

(* Every variable keeps its type. *)
THEOREM TypeCorrect == Spec => []TypeOK
BY InitTyped, TypeStep, PTL DEF Spec

-----------------------------------------------------------------------------
(* The inductive invariant: the room agrees with the Core, receipts have
   unique keys, accepted receipts form an unbroken history that reaches the
   present revision, and whoever left by an accepted command is not active. *)

LeaversLeft ==
  \A i \in DOMAIN receipts :
    /\ AcceptedAt(i)
    /\ receipts[i].requestDigest.payload \in ExitCauses
    => core.standing[receipts[i].participantId] # "active"

RejectsKnown == ~(StoresRejects /\ StewardActions # {}) => StoredRejectsKnown

Inv ==
  /\ TypeOK
  /\ LifecycleMatches
  /\ OutcomesMatchCore
  /\ ReceiptKeysUnique
  /\ ReceiptsFromPlayers
  /\ AppliedOnItsBase
  /\ LeaversLeft
  /\ LeavingIsLast
  /\ RejectsKnown

receiptVars == <<outcome, lifecycle, core, receipts>>

(* Only the handler's stored rejections and its acceptance touch what the
   invariant speaks of. *)
LEMMA QuietSteps ==
  ASSUME Inv, TypeOK', UNCHANGED receiptVars
  PROVE  Inv'
BY DEF Inv, receiptVars, LifecycleMatches, OutcomesMatchCore, ReceiptKeysUnique,
       ReceiptsFromPlayers, AppliedOnItsBase, AcceptedConsecutive,
       LastAcceptedReachesRevision, LeaversLeft, LeavingIsLast, RejectsKnown,
       StoredRejectsKnown, AcceptedAt, revision, AtMostOne

LEMMA InitInv == Init => Inv
<1> SUFFICES ASSUME Init PROVE Inv
  OBVIOUS
<1>1. TypeOK
  BY InitTyped
<1>2. LifecycleMatches
  BY ProtocolAssumption DEF Init, LifecycleMatches, AtMostOne
<1> QED
  BY <1>1, <1>2
  DEF Init, Inv, OutcomesMatchCore, OutcomeFor, ReceiptKeysUnique,
      ReceiptsFromPlayers, AppliedOnItsBase, AcceptedConsecutive,
      LastAcceptedReachesRevision, LeaversLeft, LeavingIsLast, RejectsKnown,
      StoredRejectsKnown, revision

(* What one more receipt does to the sequence. *)
LEMMA AppendReceipt ==
  ASSUME NEW receipt \in Receipts, receipts \in Seq(Receipts),
         receipts' = Append(receipts, receipt)
  PROVE  /\ Len(receipts) \in Nat
         /\ DOMAIN receipts = 1 .. Len(receipts)
         /\ Len(receipts') = Len(receipts) + 1
         /\ DOMAIN receipts' = 1 .. (Len(receipts) + 1)
         /\ receipts'[Len(receipts) + 1] = receipt
         /\ \A i \in 1 .. Len(receipts) : receipts'[i] = receipts[i]
OBVIOUS

(* A key without a receipt stays unique when it gets one, and only players
   get one. *)
LEMMA NewKey ==
  ASSUME Inv, NEW m \in Envelopes, NEW result \in ReceiptOutcomes,
         Stored(m) = {}, m.draft.participantId \in Players,
         receipts' = Append(receipts, Receipt(m, result))
  PROVE  ReceiptKeysUnique' /\ ReceiptsFromPlayers'
<1> DEFINE n == Len(receipts)
           new == Receipt(m, result)
<1>1. new \in Receipts
  BY ReceiptTyped
<1>2. /\ n \in Nat
      /\ DOMAIN receipts = 1 .. n
      /\ DOMAIN receipts' = 1 .. (n + 1)
      /\ receipts'[n + 1] = new
      /\ \A i \in 1 .. n : receipts'[i] = receipts[i]
  BY <1>1, AppendReceipt DEF Inv, TypeOK
<1>3. /\ new.participantId = m.draft.participantId
      /\ new.commandId = m.draft.commandId
  BY DEF Receipt
<1>4. \A i \in 1 .. n : ~(/\ receipts[i].participantId = new.participantId
                          /\ receipts[i].commandId = new.commandId)
  BY <1>2, <1>3 DEF Stored
<1>5. ReceiptsFromPlayers'
  <2> SUFFICES ASSUME NEW i \in 1 .. (n + 1)
               PROVE  receipts'[i].participantId \in Players
    BY <1>2 DEF ReceiptsFromPlayers
  <2>1. CASE i = n + 1
    BY <2>1, <1>2, <1>3
  <2>2. CASE i \in 1 .. n
    BY <2>2, <1>2 DEF Inv, ReceiptsFromPlayers
  <2> QED
    BY <2>1, <2>2, <1>2
<1>6. ReceiptKeysUnique'
  <2> SUFFICES ASSUME NEW i \in 1 .. (n + 1), NEW j \in 1 .. (n + 1),
                      receipts'[i].participantId = receipts'[j].participantId,
                      receipts'[i].commandId = receipts'[j].commandId
               PROVE  i = j
    BY <1>2 DEF ReceiptKeysUnique
  <2>1. CASE i \in 1 .. n /\ j \in 1 .. n
    BY <2>1, <1>2 DEF Inv, ReceiptKeysUnique
  <2>2. CASE i = n + 1 \/ j = n + 1
    BY <2>2, <1>2, <1>4
  <2> QED
    BY <2>1, <2>2, <1>2
<1> QED
  BY <1>5, <1>6

(* A stored rejection leaves the room, the Core and the accepted history as
   they are. *)
LEMMA RejectionInv ==
  ASSUME Inv, TypeOK', NEW m \in Envelopes, NEW code \in RejectCodes,
         Stored(m) = {}, Playable(m), StoreReject(m, code),
         code = "AUTHORIZATION_REJECTED" => StoresRejects /\ StewardActions # {},
         code \in {"AUTHORIZATION_REJECTED", "STALE_REVISION",
                   "CORE_COMMAND_REJECTED"}
  PROVE  Inv'
<1> DEFINE n == Len(receipts)
           result == [kind |-> "rejected", code |-> code]
           new == Receipt(m, result)
<1>1. CASE ~StoresRejects
  BY <1>1, QuietSteps DEF StoreReject, receiptVars, roomVars
<1>2. CASE StoresRejects
  <2>0. receipts' = Append(receipts, new) /\ UNCHANGED <<roomVars, core>>
    BY <1>2 DEF StoreReject
  <2>1. result \in ReceiptOutcomes
    BY DEF ReceiptOutcomes
  <2>2. ReceiptKeysUnique' /\ ReceiptsFromPlayers'
    BY <2>0, <2>1, NewKey DEF Playable, SeatPending
  <2>3. /\ n \in Nat
        /\ DOMAIN receipts = 1 .. n
        /\ Len(receipts') = n + 1
        /\ DOMAIN receipts' = 1 .. (n + 1)
        /\ receipts'[n + 1] = new
        /\ \A i \in 1 .. n : receipts'[i] = receipts[i]
    BY <2>0, <2>1, ReceiptTyped, AppendReceipt DEF Inv, TypeOK
  <2>4. new.outcome.kind = "rejected" /\ new.outcome.code = code
    BY DEF Receipt
  <2>5. /\ receipts'[n + 1].outcome.kind # "accepted"
        /\ \A i \in 1 .. n : AcceptedAt(i)' <=> AcceptedAt(i)
    BY <2>3, <2>4 DEF AcceptedAt
  <2>6. AcceptedConsecutive'
    BY SMTT(40), <2>3, <2>5 DEF Inv, AppliedOnItsBase, AcceptedConsecutive, AcceptedAt
  <2>7. LastAcceptedReachesRevision'
    <3> SUFFICES ASSUME NEW i \in 1 .. (n + 1), AcceptedAt(i)',
                        \A k \in (i + 1) .. (n + 1) : ~AcceptedAt(k)'
                 PROVE  receipts'[i].outcome.baseRevision + 1 = revision'
      BY <2>3 DEF LastAcceptedReachesRevision
    <3>1. i \in 1 .. n /\ AcceptedAt(i) /\ receipts'[i] = receipts[i]
      BY <2>3, <2>5 DEF AcceptedAt
    <3>2. \A k \in (i + 1) .. n : ~AcceptedAt(k)
      BY <3>1, <2>3, <2>5
    <3> QED
      BY <2>0, <2>3, <3>1, <3>2
      DEF Inv, AppliedOnItsBase, LastAcceptedReachesRevision, revision
  <2>8. AppliedOnItsBase'
    <3>1. ASSUME NEW i \in 1 .. (n + 1), AcceptedAt(i)',
                 \A k \in 1 .. (i - 1) : ~AcceptedAt(k)'
          PROVE  receipts'[i].outcome.baseRevision = 0
      <4>1. i \in 1 .. n /\ AcceptedAt(i) /\ receipts'[i] = receipts[i]
        BY <3>1, <2>3, <2>5 DEF AcceptedAt
      <4>2. \A k \in 1 .. (i - 1) : ~AcceptedAt(k)
        BY <3>1, <4>1, <2>3, <2>5
      <4> QED
        BY <4>1, <4>2, <2>3 DEF Inv, AppliedOnItsBase
    <3>2. ASSUME \A i \in 1 .. (n + 1) : ~AcceptedAt(i)'
          PROVE  revision' = 0
      <4>1. \A i \in 1 .. n : ~AcceptedAt(i)
        BY <3>2, <2>3, <2>5
      <4> QED
        BY <4>1, <2>0, <2>3 DEF Inv, AppliedOnItsBase, revision
    <3> QED
      BY <2>3, <2>6, <2>7, <3>1, <3>2 DEF AppliedOnItsBase
  <2>9. LeaversLeft' /\ LeavingIsLast'
    BY <2>0, <2>3, <2>5 DEF Inv, LeaversLeft, LeavingIsLast, AcceptedAt
  <2>10. RejectsKnown'
    BY <2>3, <2>4, <2>5 DEF Inv, RejectsKnown, StoredRejectsKnown
  <2>11. LifecycleMatches' /\ OutcomesMatchCore'
    BY <2>0 DEF Inv, LifecycleMatches, OutcomesMatchCore, roomVars
  <2> QED
    BY <2>2, <2>8, <2>9, <2>10, <2>11 DEF Inv
<1> QED
  BY <1>1, <1>2

(* An accepted command extends the accepted history by its own base, and a
   player who leaves by it was active until then. *)
LEMMA AcceptanceInv ==
  ASSUME Inv, TypeOK', NEW m \in Envelopes, AcceptCommand(m)
  PROVE  Inv'
<1> DEFINE n == Len(receipts)
           p == m.draft.participantId
           result == [kind |-> "accepted", baseRevision |-> m.baseRevision]
           new == Receipt(m, result)
<1>0. /\ receipts' = Append(receipts, new)
      /\ Stored(m) = {}
      /\ Playable(m)
      /\ m.baseRevision = revision
      /\ core'.standing = StandingAfter(m)
      /\ core'.acceptedCommandCount = revision + 1
      /\ core.standing[p] = "active"
      /\ p \in Players
      /\ p = m.draft.actor
  BY DEF AcceptCommand, Judged, Current, CoreAccepts, Playable, SeatPending
<1>1. result \in ReceiptOutcomes /\ m.draft.payload \in Payloads
  BY EnvelopeParts DEF ReceiptOutcomes
<1>2. ReceiptKeysUnique' /\ ReceiptsFromPlayers'
  BY <1>0, <1>1, NewKey
<1>3. /\ n \in Nat
      /\ DOMAIN receipts = 1 .. n
      /\ Len(receipts') = n + 1
      /\ DOMAIN receipts' = 1 .. (n + 1)
      /\ receipts'[n + 1] = new
      /\ \A i \in 1 .. n : receipts'[i] = receipts[i]
  BY <1>0, <1>1, ReceiptTyped, AppendReceipt DEF Inv, TypeOK
<1>4. /\ new.outcome.kind = "accepted"
      /\ new.outcome.baseRevision = revision
      /\ new.participantId = p
      /\ new.requestDigest.payload = m.draft.payload
  BY <1>0 DEF Receipt, Digest
<1>5. /\ receipts'[n + 1].outcome.kind = "accepted"
      /\ \A i \in 1 .. n : AcceptedAt(i)' <=> AcceptedAt(i)
  BY <1>3, <1>4 DEF AcceptedAt
<1>6. revision \in Nat /\ revision' = revision + 1
  BY <1>0 DEF revision, Inv, TypeOK, CoreRoots
<1>7. AcceptedConsecutive'
  <2> SUFFICES ASSUME NEW i \in 1 .. (n + 1), NEW j \in 1 .. (n + 1), i < j,
                      AcceptedAt(i)', AcceptedAt(j)',
                      \A k \in (i + 1) .. (j - 1) : ~AcceptedAt(k)'
               PROVE  receipts'[j].outcome.baseRevision
                      = receipts'[i].outcome.baseRevision + 1
    BY <1>3 DEF AcceptedConsecutive
  <2>1. i \in 1 .. n /\ AcceptedAt(i) /\ receipts'[i] = receipts[i]
    BY <1>3, <1>5
  <2>2. CASE j = n + 1
    <3>1. \A k \in (i + 1) .. n : ~AcceptedAt(k)
      BY <2>2, <1>3, <1>5
    <3>2. receipts[i].outcome.baseRevision + 1 = revision
      BY <2>1, <3>1, <1>3
      DEF Inv, AppliedOnItsBase, LastAcceptedReachesRevision
    <3> QED
      BY <2>1, <2>2, <3>2, <1>3, <1>4
  <2>3. CASE j \in 1 .. n
    <3>1. \A k \in (i + 1) .. (j - 1) : ~AcceptedAt(k)
      BY <2>3, <1>3, <1>5
    <3> QED
      BY <2>1, <2>3, <3>1, <1>3, <1>5
      DEF Inv, AppliedOnItsBase, AcceptedConsecutive
  <2> QED
    BY <2>2, <2>3, <1>3
<1>8. LastAcceptedReachesRevision'
  <2> SUFFICES ASSUME NEW i \in 1 .. (n + 1), AcceptedAt(i)',
                      \A k \in (i + 1) .. (n + 1) : ~AcceptedAt(k)'
               PROVE  receipts'[i].outcome.baseRevision + 1 = revision'
    BY <1>3 DEF LastAcceptedReachesRevision
  <2>1. i = n + 1
    BY <1>3, <1>5 DEF AcceptedAt
  <2> QED
    BY <2>1, <1>3, <1>4, <1>6
<1>9. AppliedOnItsBase'
  <2> SUFFICES ASSUME NEW i \in 1 .. (n + 1), AcceptedAt(i)',
                      \A k \in 1 .. (i - 1) : ~AcceptedAt(k)'
               PROVE  receipts'[i].outcome.baseRevision = 0
    <3>1. ~(\A i \in 1 .. (n + 1) : ~AcceptedAt(i)')
      BY <1>3, <1>5 DEF AcceptedAt
    <3> QED
      BY <3>1, <1>3, <1>7, <1>8 DEF AppliedOnItsBase
  <2>1. CASE i = n + 1
    <3>1. \A k \in 1 .. n : ~AcceptedAt(k)
      BY <2>1, <1>3, <1>5
    <3>2. revision = 0
      BY <3>1, <1>3 DEF Inv, AppliedOnItsBase
    <3> QED
      BY <2>1, <3>2, <1>3, <1>4
  <2>2. CASE i \in 1 .. n
    <3>1. AcceptedAt(i) /\ \A k \in 1 .. (i - 1) : ~AcceptedAt(k)
      BY <2>2, <1>3, <1>5
    <3> QED
      BY <2>2, <3>1, <1>3 DEF Inv, AppliedOnItsBase
  <2> QED
    BY <2>1, <2>2, <1>3
<1>10. \A q \in Players :
         StandingAfter(m)[q] = IF q = p /\ m.draft.payload \in ExitCauses
                               THEN m.draft.payload ELSE core.standing[q]
  BY <1>0 DEF StandingAfter, Inv, TypeOK, CoreRoots
<1>11. LeavingIsLast'
  <2> SUFFICES ASSUME NEW i \in 1 .. (n + 1), NEW j \in 1 .. (n + 1), i < j,
                      AcceptedAt(i)', AcceptedAt(j)',
                      receipts'[i].participantId = receipts'[j].participantId
               PROVE  receipts'[i].requestDigest.payload \notin ExitCauses
    BY <1>3 DEF LeavingIsLast
  <2>1. i \in 1 .. n /\ AcceptedAt(i) /\ receipts'[i] = receipts[i]
    BY <1>3, <1>5
  <2>2. CASE j = n + 1
    BY <2>1, <2>2, <1>0, <1>3, <1>4 DEF Inv, LeaversLeft
  <2>3. CASE j \in 1 .. n
    BY <2>1, <2>3, <1>3, <1>5 DEF Inv, LeavingIsLast
  <2> QED
    BY <2>2, <2>3, <1>3
<1>12. LeaversLeft'
  <2> SUFFICES ASSUME NEW i \in 1 .. (n + 1), AcceptedAt(i)',
                      receipts'[i].requestDigest.payload \in ExitCauses
               PROVE  core'.standing[receipts'[i].participantId] # "active"
    BY <1>3 DEF LeaversLeft
  <2>1. CASE i = n + 1
    BY <2>1, <1>0, <1>3, <1>4, <1>10
  <2>2. CASE i \in 1 .. n
    <3>1. receipts[i].participantId \in Players
      BY <2>2, <1>3 DEF Inv, ReceiptsFromPlayers
    <3>2. core.standing[receipts[i].participantId] # "active"
      BY <2>2, <1>3, <1>5 DEF Inv, LeaversLeft
    <3> QED
      BY <2>2, <3>1, <3>2, <1>0, <1>3, <1>10
  <2> QED
    BY <2>1, <2>2, <1>3
<1>13. RejectsKnown'
  BY <1>3, <1>5 DEF Inv, RejectsKnown, StoredRejectsKnown, AcceptedAt
<1>14. OutcomesMatchCore'
  BY <1>0 DEF AcceptCommand, ReconcileRoom, OutcomesMatchCore
<1>15. LifecycleMatches'
  <2>1. {q \in Players : outcome'[q] = "pending"}
        = {q \in Players : StandingAfter(m)[q] = "active"}
    BY DEF AcceptCommand, ReconcileRoom, OutcomeFor
  <2>2. lifecycle' = IF AtMostOne({q \in Players : StandingAfter(m)[q] = "active"})
                     THEN "finished" ELSE "active"
    BY DEF AcceptCommand, ReconcileRoom
  <2> QED
    BY <2>1, <2>2 DEF LifecycleMatches, AtMostOne
<1> QED
  BY <1>2, <1>9, <1>11, <1>12, <1>13, <1>14, <1>15 DEF Inv

LEMMA StepInv == Inv /\ [Next]_vars => Inv'
<1> SUFFICES ASSUME Inv, [Next]_vars PROVE Inv'
  OBVIOUS
<1>0. TypeOK'
  BY TypeStep DEF Inv
<1>1. ASSUME NEW m \in requests, HandleCommand(m) PROVE Inv'
  <2>0. m \in Envelopes
    BY DEF Inv, TypeOK
  <2>1. CASE RefuseUnadmitted(m) \/ AnswerStored(m) \/ RefuseUnplayable(m)
    BY <1>0, <2>1, QuietSteps
    DEF RefuseUnadmitted, AnswerStored, RefuseUnplayable, roomVars, receiptVars
  <2>2. CASE RejectStale(m)
    BY <1>0, <2>0, <2>2, RejectionInv DEF RejectStale, Judged
  <2>3. CASE RejectSteward(m)
    BY <1>0, <2>0, <2>3, RejectionInv DEF RejectSteward, Judged
  <2>4. CASE RejectByCore(m)
    BY <1>0, <2>0, <2>4, RejectionInv DEF RejectByCore, Judged
  <2>5. CASE AcceptCommand(m)
    BY <1>0, <2>0, <2>5, AcceptanceInv
  <2> QED
    BY <1>1, <2>1, <2>2, <2>3, <2>4, <2>5 DEF HandleCommand
<1>2. ASSUME NEW p \in Participants, Reconnect(p) \/ Disconnect(p) PROVE Inv'
  BY <1>0, <1>2, QuietSteps DEF Reconnect, Disconnect, receiptVars
<1>3. ASSUME NEW d \in Drafts, NEW base \in 0 .. revision, Enqueue(d, base)
      PROVE  Inv'
  BY <1>0, <1>3, QuietSteps DEF Enqueue, roomVars, receiptVars
<1>4. ASSUME NEW r \in responses, Settle(r) \/ LoseResponse(r) PROVE Inv'
  BY <1>0, <1>4, QuietSteps DEF Settle, LoseResponse, roomVars, receiptVars
<1>5. CASE UNCHANGED vars
  BY <1>0, <1>5, QuietSteps DEF vars, receiptVars
<1> QED
  BY <1>1, <1>2, <1>3, <1>4, <1>5 DEF Next

LEMMA Invariance == Spec => []Inv
BY InitInv, StepInv, PTL DEF Spec

-----------------------------------------------------------------------------
(* No command is ever applied to a root that its author had not based it on,
   for either kind of host. *)
THEOREM BasesAreExact == Spec => []AppliedOnItsBase
<1>1. Inv => AppliedOnItsBase
  BY DEF Inv
<1> QED
  BY <1>1, Invariance, PTL

(* Leaving is the last command of a participant that is applied. *)
THEOREM LeavingEndsIt == Spec => []LeavingIsLast
<1>1. Inv => LeavingIsLast
  BY DEF Inv
<1> QED
  BY <1>1, Invariance, PTL

(* A host that keeps no rejections, and any host that never sees a command
   that needs the trusted binder, always leaves a state that the next handler
   accepts. *)
THEOREM StateStaysReadable ==
  ASSUME ~(StoresRejects /\ StewardActions # {})
  PROVE  Spec => []StateStaysValid
<1>1. Inv => StateStaysValid
  BY DEF Inv, StateStaysValid, ValidState, AppliedOnItsBase, RejectsKnown
<1> QED
  BY <1>1, Invariance, PTL

-----------------------------------------------------------------------------
(* The room as a command log *)

(* Every revision has one accepted receipt, with its base; as a relation of a
   sequence of receipts and a revision, and so the log that is read from them. *)
AcceptedIn(rs, i, b) ==
  rs[i].outcome.kind = "accepted" /\ rs[i].outcome.baseRevision = b
OnceIn(rs, n) ==
  /\ \A i \in DOMAIN rs : rs[i].outcome.kind = "accepted" =>
                            rs[i].outcome.baseRevision \in 0 .. (n - 1)
  /\ \A b \in 0 .. (n - 1) : \E i \in DOMAIN rs : AcceptedIn(rs, i, b)
  /\ \A i, j \in DOMAIN rs : \A b \in 0 .. (n - 1) :
       AcceptedIn(rs, i, b) /\ AcceptedIn(rs, j, b) => i = j
IndexIn(rs, r) == CHOOSE i \in DOMAIN rs : AcceptedIn(rs, i, r - 1)
LogIn(rs, n) == [r \in 1 .. n |-> RequestOf(rs[IndexIn(rs, r)])]
EachRevisionOnce == OnceIn(receipts, revision)

LEMMA IndexIsTheOne ==
  ASSUME NEW rs, NEW n \in Nat, OnceIn(rs, n), NEW r \in 1 .. n,
         NEW i \in DOMAIN rs, AcceptedIn(rs, i, r - 1)
  PROVE  IndexIn(rs, r) = i
<1>1. r - 1 \in 0 .. (n - 1)
  OBVIOUS
<1>2. IndexIn(rs, r) \in DOMAIN rs /\ AcceptedIn(rs, IndexIn(rs, r), r - 1)
  BY DEF IndexIn
<1> QED
  BY <1>1, <1>2 DEF OnceIn

LEMMA IndexIsThere ==
  ASSUME NEW rs, NEW n \in Nat, OnceIn(rs, n), NEW r \in 1 .. n
  PROVE  IndexIn(rs, r) \in DOMAIN rs /\ AcceptedIn(rs, IndexIn(rs, r), r - 1)
<1>1. r - 1 \in 0 .. (n - 1)
  OBVIOUS
<1>2. \E i \in DOMAIN rs : AcceptedIn(rs, i, r - 1)
  BY <1>1 DEF OnceIn
<1> QED
  BY <1>2 DEF IndexIn

LEMMA Appending ==
  ASSUME NEW rs \in Seq(Receipts), NEW e \in Receipts
  PROVE  /\ Len(rs) \in Nat /\ DOMAIN rs = 1 .. Len(rs)
         /\ DOMAIN Append(rs, e) = 1 .. (Len(rs) + 1)
         /\ Append(rs, e)[Len(rs) + 1] = e
         /\ \A i \in 1 .. Len(rs) : Append(rs, e)[i] = rs[i]
OBVIOUS

(* The revisions that were reached keep their receipts and their entries. *)
LEMMA OldEntries ==
  ASSUME NEW rs \in Seq(Receipts), NEW e \in Receipts, NEW n \in Nat, OnceIn(rs, n),
         NEW m \in {n, n + 1}, OnceIn(Append(rs, e), m), NEW r \in 1 .. n
  PROVE  Append(rs, e)[IndexIn(Append(rs, e), r)] = rs[IndexIn(rs, r)]
<1> DEFINE i == IndexIn(rs, r)
           ns == Append(rs, e)
<1>1. i \in DOMAIN rs /\ AcceptedIn(rs, i, r - 1)
  BY IndexIsThere
<1>2. i \in DOMAIN ns /\ ns[i] = rs[i]
  BY <1>1, Appending
<1>3. AcceptedIn(ns, i, r - 1)
  BY <1>1, <1>2 DEF AcceptedIn
<1>4. m \in Nat /\ r \in 1 .. m
  OBVIOUS
<1> HIDE DEF i, ns
<1>5. IndexIn(ns, r) = i
  BY <1>2, <1>3, <1>4, IndexIsTheOne DEF ns
<1> QED
  BY <1>2, <1>5 DEF i, ns

LEMMA SeqIsFunction ==
  ASSUME NEW S, NEW s \in Seq(S)
  PROVE  s \in [1 .. Len(s) -> S]
OBVIOUS

LEMMA RejectionAppended ==
  ASSUME NEW rs \in Seq(Receipts), NEW e \in Receipts, NEW n \in Nat, OnceIn(rs, n),
         e.outcome.kind # "accepted"
  PROVE  OnceIn(Append(rs, e), n) /\ LogIn(Append(rs, e), n) = LogIn(rs, n)
<1> DEFINE ns == Append(rs, e)
<1>1. /\ DOMAIN ns = DOMAIN rs \union {Len(rs) + 1}
      /\ ns[Len(rs) + 1] = e /\ \A i \in DOMAIN rs : ns[i] = rs[i]
  BY Appending
<1> HIDE DEF ns
<1>2. OnceIn(ns, n)
  <2>1. \A i \in DOMAIN rs : \A b : AcceptedIn(ns, i, b) <=> AcceptedIn(rs, i, b)
    BY <1>1 DEF AcceptedIn
  <2>2. \A b : ~AcceptedIn(ns, Len(rs) + 1, b)
    BY <1>1 DEF AcceptedIn
  <2>3. \A i \in DOMAIN ns : ns[i].outcome.kind = "accepted" =>
                               ns[i].outcome.baseRevision \in 0 .. (n - 1)
    BY <1>1 DEF OnceIn
  <2>4. \A b \in 0 .. (n - 1) : \E i \in DOMAIN ns : AcceptedIn(ns, i, b)
    BY <1>1, <2>1 DEF OnceIn
  <2>5. \A i, j \in DOMAIN ns : \A b \in 0 .. (n - 1) :
          AcceptedIn(ns, i, b) /\ AcceptedIn(ns, j, b) => i = j
    BY <1>1, <2>1, <2>2 DEF OnceIn
  <2> QED
    BY <2>3, <2>4, <2>5 DEF OnceIn
<1>3. \A r \in 1 .. n : ns[IndexIn(ns, r)] = rs[IndexIn(rs, r)]
  BY <1>2, OldEntries DEF ns
<1> QED
  BY <1>2, <1>3 DEF LogIn, ns

LEMMA AcceptanceAppended ==
  ASSUME NEW rs \in Seq(Receipts), NEW e \in Receipts, NEW n \in Nat, OnceIn(rs, n),
         AcceptedIn(<<e>>, 1, n)
  PROVE  /\ OnceIn(Append(rs, e), n + 1)
         /\ LogIn(Append(rs, e), n + 1) = Append(LogIn(rs, n), RequestOf(e))
<1> DEFINE ns == Append(rs, e)
           last == Len(rs) + 1
<1>0. e.outcome.kind = "accepted" /\ e.outcome.baseRevision = n
  BY DEF AcceptedIn
<1>1. /\ DOMAIN ns = DOMAIN rs \union {last} /\ last \notin DOMAIN rs
      /\ ns[last] = e /\ \A i \in DOMAIN rs : ns[i] = rs[i]
  BY Appending
<1> HIDE DEF ns, last
<1>2. \A b \in 0 .. n : b \in 0 .. (n - 1) \/ b = n
  OBVIOUS
<1>3. \A i \in DOMAIN rs : \A b : AcceptedIn(ns, i, b) <=> AcceptedIn(rs, i, b)
  BY <1>1 DEF AcceptedIn
<1>4. \A b : AcceptedIn(ns, last, b) <=> b = n
  BY <1>0, <1>1 DEF AcceptedIn
<1>5. \A i \in DOMAIN rs : ~AcceptedIn(rs, i, n)
  BY DEF OnceIn, AcceptedIn
<1>6. OnceIn(ns, n + 1)
  <2>0. (n + 1) - 1 = n
    OBVIOUS
  <2>1. \A i \in DOMAIN ns : ns[i].outcome.kind = "accepted" =>
                               ns[i].outcome.baseRevision \in 0 .. n
    BY <1>0, <1>1 DEF OnceIn
  <2>2. \A b \in 0 .. n : \E i \in DOMAIN ns : AcceptedIn(ns, i, b)
    BY <1>1, <1>2, <1>3, <1>4 DEF OnceIn
  <2>3. \A i, j \in DOMAIN ns : \A b \in 0 .. n :
          AcceptedIn(ns, i, b) /\ AcceptedIn(ns, j, b) => i = j
    BY <1>1, <1>2, <1>3, <1>4, <1>5 DEF OnceIn
  <2> QED
    BY <2>0, <2>1, <2>2, <2>3 DEF OnceIn
<1>7. \A r \in 1 .. n : ns[IndexIn(ns, r)] = rs[IndexIn(rs, r)]
  BY <1>6, OldEntries DEF ns
<1>8. ns[IndexIn(ns, n + 1)] = e
  <2>1. AcceptedIn(ns, last, (n + 1) - 1) /\ last \in DOMAIN ns
    BY <1>1, <1>4
  <2>2. IndexIn(ns, n + 1) = last
    BY <1>6, <2>1, IndexIsTheOne
  <2> QED
    BY <1>1, <2>2
<1>9. LogIn(ns, n + 1) = Append(LogIn(rs, n), RequestOf(e))
  <2> DEFINE L == LogIn(rs, n)
             S == {RequestOf(rs[IndexIn(rs, r)]) : r \in 1 .. n} \union {RequestOf(e)}
             f(r) == RequestOf(ns[IndexIn(ns, r)])
  <2>1. L \in [1 .. n -> S]
    BY DEF LogIn
  <2>2. /\ \A r \in 1 .. n : L[r] = f(r)
        /\ f(n + 1) = RequestOf(e) /\ RequestOf(e) \in S
    BY <1>7, <1>8 DEF LogIn
  <2>3. LogIn(ns, n + 1) = [r \in 1 .. (n + 1) |-> f(r)]
    BY DEF LogIn
  <2> HIDE DEF L, S, f
  <2>4. L \in Seq(S) /\ Len(L) = n
    BY <2>1
  <2>5. /\ Append(L, RequestOf(e)) \in [1 .. (n + 1) -> S]
        /\ Append(L, RequestOf(e))[n + 1] = RequestOf(e)
        /\ \A r \in 1 .. n : Append(L, RequestOf(e))[r] = L[r]
    <3> DEFINE x == RequestOf(e)
    <3>1. x \in S
      BY <2>2
    <3> HIDE DEF x
    <3>2. /\ Append(L, x) \in Seq(S) /\ Len(Append(L, x)) = n + 1
          /\ Append(L, x)[n + 1] = x
          /\ \A r \in 1 .. n : Append(L, x)[r] = L[r]
      BY <2>4, <3>1
    <3>3. Append(L, x) \in [1 .. (n + 1) -> S]
      <4> DEFINE t == Append(L, x)
      <4>1. t \in Seq(S) /\ Len(t) = n + 1
        BY <3>2
      <4> HIDE DEF t
      <4>2. t \in [1 .. Len(t) -> S]
        BY <4>1, SeqIsFunction
      <4>3. t \in [1 .. (n + 1) -> S]
        BY <4>1, <4>2
      <4> QED
        BY <4>3 DEF t
    <3> QED
      BY <3>2, <3>3 DEF x
  <2>6. \A r \in 1 .. (n + 1) : Append(L, RequestOf(e))[r] = f(r)
    BY <2>2, <2>5
  <2>7. Append(L, RequestOf(e)) = [r \in 1 .. (n + 1) |-> f(r)]
    BY <2>5, <2>6
  <2> QED
    BY <2>3, <2>7 DEF L
<1> QED
  BY <1>6, <1>9 DEF ns

(* What the handler still asks of a request that is current and has no receipt. *)
Acceptable(m) ==
  /\ Playable(m)
  /\ m.draft.payload \notin StewardActions
  /\ CoreAccepts(m)

(* What was applied was acknowledged at once.  What was refused is refused for a
   reason that nothing undoes: only an accepted command changes whether it can be
   played, and then its base is old. *)
LogInv ==
  /\ EachRevisionOnce
  /\ \A m \in requests : m.baseRevision <= revision
  /\ \A i \in DOMAIN receipts :
       AcceptedAt(i) => \E m \in acked : RequestIn(m) = RequestOf(receipts[i])
  /\ \A m \in denied :
       /\ m \in requests /\ Authenticated(m)
       /\ m.baseRevision < revision \/ Stored(m) # {} \/ ~Acceptable(m)

LEMMA LogInvInit == Init => LogInv
BY DEF Init, LogInv, EachRevisionOnce, OnceIn, revision

(* The digest, the key and the right capability make up the whole request. *)
LEMMA SameRequest ==
  ASSUME NEW m \in Envelopes, NEW k \in Envelopes, RequestIn(m) = RequestIn(k),
         Authenticated(m), Authenticated(k)
  PROVE  m = k
<1>1. /\ m.draft.participantId = k.draft.participantId
      /\ m.draft.commandId = k.draft.commandId /\ Digest(m) = Digest(k)
  BY DEF RequestIn
<1>2. /\ m.baseRevision = k.baseRevision /\ m.draft.actor = k.draft.actor
      /\ m.draft.payload = k.draft.payload /\ m.draft.skew = k.draft.skew
  BY <1>1 DEF Digest
<1>3. m.draft.cap = k.draft.cap
  BY <1>1 DEF Authenticated
<1>4. m.draft \in DraftSet /\ k.draft \in DraftSet
  BY EnvelopeParts, ProtocolAssumption
<1>5. m.draft = k.draft
  BY <1>1, <1>2, <1>3, <1>4 DEF DraftSet
<1> QED
  BY <1>2, <1>5 DEF Envelopes

(* Where the room and the Core stay, what can be played stays. *)
LEMMA SamePlay ==
  ASSUME UNCHANGED <<outcome, lifecycle, core>>
  PROVE  revision' = revision /\ \A m : Acceptable(m)' <=> Acceptable(m)
<1>1. \A m : SeatPending(m)' <=> SeatPending(m)
  BY DEF SeatPending
<1>2. \A m : Playable(m)' <=> Playable(m)
  BY <1>1 DEF Playable
<1>3. \A m : CoreAccepts(m)' <=> CoreAccepts(m)
  BY DEF CoreAccepts
<1> QED
  BY <1>2, <1>3 DEF Acceptable, revision

(* The log of the refinement is the one that is read from the receipts. *)
LEMMA LogAsRead == /\ AcceptedLog = LogIn(receipts, revision)
                   /\ AcceptedLog' = LogIn(receipts', revision')
BY DEF AcceptedLog, ReceiptOfRevision, LogIn, IndexIn, AcceptedIn, AcceptedAt

(* A step that stores no receipt and refuses at most what is refused for good. *)
LEMMA QuietLog ==
  ASSUME LogInv, UNCHANGED receiptVars, requests \subseteq requests',
         acked \subseteq acked',
         \A m \in requests' \ requests : m.baseRevision <= revision,
         \A m \in denied' \ denied :
           /\ m \in requests /\ Authenticated(m)
           /\ m.baseRevision < revision \/ Stored(m) # {} \/ ~Acceptable(m)
  PROVE  LogInv'
<1>1. revision' = revision /\ \A m : Acceptable(m)' <=> Acceptable(m)
  BY SamePlay DEF receiptVars
<1>2. /\ receipts' = receipts /\ \A m : Stored(m)' = Stored(m)
      /\ \A i : AcceptedAt(i)' <=> AcceptedAt(i)
      /\ \A m : Authenticated(m)' <=> Authenticated(m)
  BY DEF receiptVars, Stored, AcceptedAt, Authenticated
<1>3. EachRevisionOnce'
  BY <1>1, <1>2 DEF LogInv, EachRevisionOnce
<1>4. \A m \in requests' : m.baseRevision <= revision
  BY DEF LogInv
<1>5. \A i \in DOMAIN receipts :
        AcceptedAt(i) => \E m \in acked' : RequestIn(m) = RequestOf(receipts[i])
  BY DEF LogInv
<1>6. \A m \in denied' :
        /\ m \in requests /\ Authenticated(m)
        /\ m.baseRevision < revision \/ Stored(m) # {} \/ ~Acceptable(m)
  BY DEF LogInv
<1> QED
  BY <1>1, <1>2, <1>3, <1>4, <1>5, <1>6 DEF LogInv

(* A refusal of the handler, with a receipt of its own or without. *)
LEMMA RejectionLog ==
  ASSUME Inv, LogInv, NEW m \in requests, NEW code \in RejectCodes,
         StoreReject(m, code), Admitted(m),
         code \notin TransientCodes => m.baseRevision < revision \/ ~Acceptable(m)
  PROVE  LogInv' /\ AcceptedLog' = AcceptedLog
<1> DEFINE e == Receipt(m, [kind |-> "rejected", code |-> code])
<1>1. /\ UNCHANGED <<presence, outcome, lifecycle, core, requests, outbox, acked>>
      /\ denied' = IF code \in TransientCodes THEN denied ELSE denied \union {m}
  BY DEF StoreReject, Refuse, roomVars, clientVars
<1>2. \A k \in denied' \ denied :
        /\ k \in requests /\ Authenticated(k)
        /\ k.baseRevision < revision \/ Stored(k) # {} \/ ~Acceptable(k)
  BY <1>1 DEF Admitted
<1>3. CASE ~StoresRejects
  <2>1. receipts' = receipts
    BY <1>3 DEF StoreReject
  <2>2. LogInv'
    BY <1>1, <1>2, <2>1, QuietLog DEF receiptVars
  <2> QED
    BY <1>1, <2>1, <2>2 DEF AcceptedLog, ReceiptOfRevision, AcceptedAt, revision
<1>4. CASE StoresRejects
  <2>1. receipts' = Append(receipts, e)
    BY <1>4 DEF StoreReject
  <2>2. receipts \in Seq(Receipts) /\ revision \in Nat /\ m \in Envelopes
    BY DEF Inv, TypeOK, CoreRoots, revision
  <2>3. e \in Receipts
    BY <2>2, ReceiptTyped DEF ReceiptOutcomes
  <2>4. e.outcome.kind # "accepted"
    BY DEF Receipt
  <2>5. /\ DOMAIN receipts' = DOMAIN receipts \union {Len(receipts) + 1}
        /\ receipts'[Len(receipts) + 1] = e
        /\ \A i \in DOMAIN receipts : receipts'[i] = receipts[i]
    BY <2>1, <2>2, <2>3, Appending
  <2>6. revision' = revision /\ \A k : Acceptable(k)' <=> Acceptable(k)
    BY <1>1, SamePlay
  <2>7. OnceIn(receipts', revision) /\ LogIn(receipts', revision) = LogIn(receipts, revision)
    BY <2>1, <2>2, <2>3, <2>4, RejectionAppended DEF LogInv, EachRevisionOnce
  <2> HIDE DEF e
  <2>8. \A k : Stored(k) # {} => Stored(k)' # {}
    BY <2>5 DEF Stored
  <2>9. \A i \in DOMAIN receipts' :
          AcceptedAt(i)' => \E k \in acked' : RequestIn(k) = RequestOf(receipts'[i])
    BY <1>1, <2>4, <2>5 DEF LogInv, AcceptedAt
  <2>10. \A k \in denied' :
           /\ k \in requests' /\ Authenticated(k)
           /\ k.baseRevision < revision' \/ Stored(k)' # {} \/ ~Acceptable(k)'
    BY <1>1, <1>2, <2>6, <2>8 DEF LogInv
  <2>11. EachRevisionOnce'
    BY <2>6, <2>7 DEF EachRevisionOnce
  <2>12. \A k \in requests' : k.baseRevision <= revision'
    BY <1>1, <2>6 DEF LogInv
  <2>13. LogInv'
    BY <2>9, <2>10, <2>11, <2>12 DEF LogInv, Authenticated
  <2> QED
    BY <2>6, <2>7, <2>13, LogAsRead
<1> QED
  BY <1>3, <1>4

(* An acceptance: every base that was sent is now past. *)
LEMMA AcceptanceLog ==
  ASSUME Inv, LogInv, NEW m \in requests, AcceptCommand(m)
  PROVE  LogInv' /\ AcceptedLog' = Append(AcceptedLog, RequestIn(m))
<1> DEFINE e == Receipt(m, [kind |-> "accepted", baseRevision |-> m.baseRevision])
<1>1. /\ receipts' = Append(receipts, e) /\ acked' = acked \union {m}
      /\ requests' = requests /\ denied' = denied
      /\ m.baseRevision = revision /\ revision' = revision + 1
  BY DEF AcceptCommand, Judged, Current, clientVars, revision
<1>2. receipts \in Seq(Receipts) /\ revision \in Nat /\ requests \subseteq Envelopes
  BY DEF Inv, TypeOK, CoreRoots, revision
<1>3. e \in Receipts
  BY <1>2, EnvelopeParts, ReceiptTyped DEF ReceiptOutcomes
<1>4. AcceptedIn(<<e>>, 1, revision) /\ RequestOf(e) = RequestIn(m)
  BY <1>1 DEF AcceptedIn, Receipt, RequestOf, RequestIn
<1>5. /\ OnceIn(receipts', revision')
      /\ LogIn(receipts', revision') = Append(LogIn(receipts, revision), RequestIn(m))
  BY <1>1, <1>2, <1>3, <1>4, AcceptanceAppended DEF LogInv, EachRevisionOnce
<1>6. /\ DOMAIN receipts' = DOMAIN receipts \union {Len(receipts) + 1}
      /\ receipts'[Len(receipts) + 1] = e
      /\ \A i \in DOMAIN receipts : receipts'[i] = receipts[i]
  BY <1>1, <1>2, <1>3, Appending
<1> HIDE DEF e
<1>7. \A i \in DOMAIN receipts' :
        AcceptedAt(i)' => \E k \in acked' : RequestIn(k) = RequestOf(receipts'[i])
  BY <1>1, <1>4, <1>6 DEF LogInv, AcceptedAt
<1>8. \A k \in requests' : k.baseRevision < revision' /\ k.baseRevision <= revision'
  <2>1. \A k \in requests : k.baseRevision \in Nat /\ k.baseRevision <= revision
    BY <1>2, EnvelopeParts DEF LogInv
  <2> QED
    BY <1>1, <1>2, <2>1
<1>9. \A k \in denied' : k \in requests' /\ Authenticated(k)
  BY <1>1 DEF LogInv
<1>10. EachRevisionOnce'
  BY <1>5 DEF EachRevisionOnce
<1>11. LogInv'
  BY <1>7, <1>8, <1>9, <1>10 DEF LogInv, Authenticated
<1> QED
  BY <1>5, <1>11, LogAsRead

LEMMA StepLog == Inv /\ LogInv /\ [Next]_vars => LogInv'
<1> SUFFICES ASSUME Inv, LogInv, [Next]_vars PROVE LogInv'
  OBVIOUS
<1>1. ASSUME NEW m \in requests, HandleCommand(m) PROVE LogInv'
  <2>0. m.baseRevision \in Nat /\ m.baseRevision <= revision /\ revision \in Nat
    BY EnvelopeParts DEF Inv, TypeOK, CoreRoots, revision, LogInv
  <2>1. CASE RefuseUnadmitted(m) \/ AnswerStored(m) \/ RefuseUnplayable(m)
    <3>1. UNCHANGED receiptVars /\ requests' = requests /\ acked \subseteq acked'
      BY <2>1 DEF RefuseUnadmitted, AnswerStored, RefuseUnplayable, Refuse, roomVars,
         clientVars, receiptVars
    <3>2. \A k \in denied' \ denied : k = m /\ Admitted(m)
      BY <2>1 DEF RefuseUnadmitted, AnswerStored, RefuseUnplayable, Refuse, TransientCodes
    <3>3. denied' # denied => Stored(m) # {} \/ ~Acceptable(m)
      BY <2>1 DEF RefuseUnadmitted, AnswerStored, RefuseUnplayable, Refuse, Acceptable, TransientCodes
    <3> QED
      BY <3>1, <3>2, <3>3, QuietLog DEF Admitted
  <2>2. CASE RejectStale(m)
    BY <2>0, <2>2, RejectionLog DEF RejectStale, Judged, Current
  <2>3. CASE RejectSteward(m)
    BY <2>3, RejectionLog DEF RejectSteward, Judged, TransientCodes
  <2>4. CASE RejectByCore(m)
    BY <2>4, RejectionLog DEF RejectByCore, Judged, Acceptable
  <2>5. CASE AcceptCommand(m)
    BY <2>5, AcceptanceLog
  <2> QED
    BY <1>1, <2>1, <2>2, <2>3, <2>4, <2>5 DEF HandleCommand
<1>2. ASSUME NEW p \in Participants, Reconnect(p) \/ Disconnect(p) PROVE LogInv'
  BY <1>2, QuietLog DEF Reconnect, Disconnect, receiptVars, clientVars
<1>3. ASSUME NEW d \in Drafts, NEW base \in 0 .. revision, Enqueue(d, base)
      PROVE  LogInv'
  <2>1. \A k \in requests' \ requests : k.baseRevision <= revision
    BY <1>3 DEF Enqueue, Inv, TypeOK, CoreRoots, revision
  <2> QED
    BY <1>3, <2>1, QuietLog DEF Enqueue, roomVars, receiptVars
<1>4. ASSUME NEW r \in responses, Settle(r) \/ LoseResponse(r) PROVE LogInv'
  BY <1>4, QuietLog DEF Settle, LoseResponse, roomVars, receiptVars, clientVars
<1>5. CASE UNCHANGED vars
  BY <1>5, QuietLog DEF vars, receiptVars
<1> QED
  BY <1>1, <1>2, <1>3, <1>4, <1>5 DEF Next

Authored == {RequestIn(k) : k \in {e \in requests : Authenticated(e)}}

(* An answer that was given before, or a refusal of what was not applied. *)
LEMMA AnswersMap ==
  ASSUME Inv, LogInv, NEW m \in requests, Admitted(m), AcceptedLog' = AcceptedLog,
         requests' = requests,
         \/ denied' = denied /\ acked' = acked
         \/ /\ denied' = denied \union {m} /\ acked' = acked
            /\ \A i \in DOMAIN receipts :
                 AcceptedAt(i) => RequestOf(receipts[i]) # RequestIn(m)
         \/ /\ acked' = acked \union {m} /\ denied' = denied
            /\ \E i \in DOMAIN receipts :
                 AcceptedAt(i) /\ RequestOf(receipts[i]) = RequestIn(m)
  PROVE  Log!LogNext \/ UNCHANGED Log!logVars
<1> DEFINE q == RequestIn(m)
<1>0. /\ q \in Authored /\ UNCHANGED Authored
      /\ revision \in Nat
  BY DEF Authored, Admitted, Authenticated, Inv, TypeOK, CoreRoots, revision
<1>1. CASE denied' = denied /\ acked' = acked
  BY <1>0, <1>1 DEF Log!logVars, Authored
<1>2. CASE /\ denied' = denied \union {m} /\ acked' = acked
           /\ \A i \in DOMAIN receipts : AcceptedAt(i) => RequestOf(receipts[i]) # q
  <2>1. {RequestIn(k) : k \in denied'} = {RequestIn(k) : k \in denied} \union {q}
    BY <1>2
  <2>2. \A r \in DOMAIN AcceptedLog : AcceptedLog[r] # q
    <3> SUFFICES ASSUME NEW r \in 1 .. revision
                 PROVE  RequestOf(receipts[IndexIn(receipts, r)]) # q
      BY LogAsRead DEF LogIn
    <3>1. /\ IndexIn(receipts, r) \in DOMAIN receipts
          /\ AcceptedAt(IndexIn(receipts, r))
      BY <1>0, IndexIsThere DEF LogInv, EachRevisionOnce, AcceptedIn, AcceptedAt
    <3> QED
      BY <1>2, <3>1
  <2> HIDE DEF q
  <2>3. q \notin Log!Applied
    BY <2>2 DEF Log!Applied
  <2>4. Log!Deny(q)
    BY <1>0, <1>2, <2>1, <2>3 DEF Log!Deny, Authored
  <2> QED
    BY <1>0, <2>4 DEF Log!LogNext, Authored
<1>3. CASE /\ acked' = acked \union {m} /\ denied' = denied
           /\ \E i \in DOMAIN receipts : AcceptedAt(i) /\ RequestOf(receipts[i]) = q
  <2>1. \E k \in acked : RequestIn(k) = q
    BY <1>3 DEF LogInv
  <2>2. {RequestIn(k) : k \in acked'} = {RequestIn(k) : k \in acked}
    BY <1>3, <2>1
  <2> QED
    BY <1>0, <1>3, <2>2 DEF Log!logVars, Authored
<1> QED
  BY <1>1, <1>2, <1>3

LEMMA AcceptanceMaps ==
  ASSUME Inv, LogInv, NEW m \in requests, AcceptCommand(m)
  PROVE  Log!LogNext
<1> DEFINE q == RequestIn(m)
<1>1. /\ Authenticated(m) /\ Stored(m) = {} /\ Acceptable(m)
      /\ m.baseRevision = revision /\ acked' = acked \union {m}
      /\ requests' = requests /\ denied' = denied
  BY DEF AcceptCommand, Judged, Admitted, Acceptable, Current, clientVars
<1>2. /\ receipts \in Seq(Receipts) /\ revision \in Nat /\ requests \subseteq Envelopes
      /\ AcceptedLog' = Append(AcceptedLog, q)
  BY AcceptanceLog DEF Inv, TypeOK, CoreRoots, revision
<1>3. q \in Authored /\ UNCHANGED Authored
  BY <1>1 DEF Authored, Authenticated
<1>4. q \notin {RequestIn(k) : k \in denied}
  <2> SUFFICES ASSUME NEW k \in denied, RequestIn(k) = q PROVE FALSE
    OBVIOUS
  <2>1. /\ k \in requests /\ Authenticated(k)
        /\ k.baseRevision < revision \/ Stored(k) # {} \/ ~Acceptable(k)
    BY DEF LogInv
  <2>2. k = m
    BY <1>1, <1>2, <2>1, SameRequest
  <2> QED
    BY <1>1, <1>2, <2>1, <2>2
<1>5. \A r \in DOMAIN AcceptedLog :
        <<AcceptedLog[r].participantId, AcceptedLog[r].commandId>>
          # <<q.participantId, q.commandId>>
  <2> SUFFICES ASSUME NEW r \in 1 .. revision
               PROVE  LET a == RequestOf(receipts[IndexIn(receipts, r)])
                      IN  <<a.participantId, a.commandId>>
                            # <<q.participantId, q.commandId>>
    BY LogAsRead DEF LogIn
  <2>1. IndexIn(receipts, r) \in DOMAIN receipts
    BY <1>2, IndexIsThere DEF LogInv, EachRevisionOnce
  <2> QED
    BY <1>1, <2>1 DEF Stored, RequestOf, RequestIn
<1>6. {RequestIn(k) : k \in acked'} = {RequestIn(k) : k \in acked} \union {q}
  BY <1>1
<1>7. {RequestIn(k) : k \in denied'} = {RequestIn(k) : k \in denied}
  BY <1>1
<1> HIDE DEF q
<1>8. \A a \in Log!Applied :
        <<a.participantId, a.commandId>> # <<q.participantId, q.commandId>>
  BY <1>5 DEF Log!Applied
<1>9. Log!Commit(q)
  BY <1>2, <1>3, <1>4, <1>6, <1>7, <1>8 DEF Log!Commit, Authored
<1> QED
  BY <1>3, <1>9 DEF Log!LogNext, Authored

(* Whatever is lost, repeated, reordered or refused, and for both kinds of host: a
   request is applied once at most, was applied when it is acknowledged, and is
   never applied when it was refused for good. *)
THEOREM ImplementsCommandLog == Spec => KeepsCommandLog
<1>1. Init => Log!LogInit
  <2> SUFFICES ASSUME Init PROVE Log!LogInit
    OBVIOUS
  <2>1. revision = 0
    BY DEF Init, revision
  <2>2. AcceptedLog = <<>>
    BY <2>1 DEF AcceptedLog
  <2> QED
    BY <2>2 DEF Init, Log!LogInit
<1>2. Inv /\ LogInv /\ [Next]_vars => [Log!LogNext]_(Log!logVars)
  <2> SUFFICES ASSUME Inv, LogInv, [Next]_vars
               PROVE  Log!LogNext \/ UNCHANGED Log!logVars
    OBVIOUS
  <2>1. UNCHANGED <<core, receipts>> => AcceptedLog' = AcceptedLog
    BY DEF AcceptedLog, ReceiptOfRevision, AcceptedAt, revision
  <2>2. ASSUME NEW m \in requests, HandleCommand(m)
        PROVE  Log!LogNext \/ UNCHANGED Log!logVars
    <3>1. CASE RefuseUnadmitted(m)
      <4>1. UNCHANGED <<core, receipts, requests, acked, denied>>
        BY <3>1 DEF RefuseUnadmitted, Refuse, clientVars, TransientCodes
      <4> QED
        BY <2>1, <4>1 DEF Log!logVars, Authenticated
    <3>2. CASE AnswerStored(m)
      <4>1. PICK i \in Stored(m) :
              IF receipts[i].requestDigest # Digest(m)
              THEN Refuse(m, "COMMAND_ID_REUSE_MISMATCH")
              ELSE IF AcceptedAt(i)
              THEN /\ responses' = responses \union {Response(m, "ack")}
                   /\ acked' = acked \union {m}
                   /\ UNCHANGED denied
              ELSE Refuse(m, receipts[i].outcome.code)
        BY <3>2 DEF AnswerStored
      <4>2. /\ i \in DOMAIN receipts
            /\ receipts[i].participantId = m.draft.participantId
            /\ receipts[i].commandId = m.draft.commandId
        BY DEF Stored
      <4>3. Admitted(m) /\ UNCHANGED <<core, receipts, requests>>
        BY <3>2 DEF AnswerStored, clientVars
      <4>4. CASE receipts[i].requestDigest = Digest(m) /\ AcceptedAt(i)
        <5>1. RequestOf(receipts[i]) = RequestIn(m)
          BY <4>2, <4>4 DEF RequestOf, RequestIn
        <5>2. acked' = acked \union {m} /\ denied' = denied
          BY <4>1, <4>4
        <5> QED
          BY <2>1, <4>2, <4>3, <4>4, <5>1, <5>2, AnswersMap
      <4>5. CASE receipts[i].requestDigest # Digest(m) \/ ~AcceptedAt(i)
        <5>1. acked' = acked /\ denied' \in {denied, denied \union {m}}
          BY <4>1, <4>5 DEF Refuse
        <5>2. ASSUME NEW j \in DOMAIN receipts, AcceptedAt(j),
                     RequestOf(receipts[j]) = RequestIn(m)
              PROVE  FALSE
          <6>1. /\ receipts[j].participantId = m.draft.participantId
                /\ receipts[j].commandId = m.draft.commandId
                /\ receipts[j].requestDigest = Digest(m)
            BY <5>2 DEF RequestOf, RequestIn
          <6>2. j = i
            BY <4>2, <6>1 DEF Inv, ReceiptKeysUnique
          <6> QED
            BY <4>5, <5>2, <6>1, <6>2
        <5> QED
          BY <2>1, <4>3, <5>1, <5>2, AnswersMap
      <4> QED
        BY <4>4, <4>5
    <3>3. ASSUME NEW code \in RejectCodes, StoreReject(m, code) \/ Refuse(m, code),
                 Admitted(m), Stored(m) = {}, UNCHANGED requests,
                 AcceptedLog' = AcceptedLog
          PROVE  Log!LogNext \/ UNCHANGED Log!logVars
      <4>1. acked' = acked /\ denied' \in {denied, denied \union {m}}
        BY <3>3 DEF StoreReject, Refuse
      <4>2. \A i \in DOMAIN receipts : RequestOf(receipts[i]) # RequestIn(m)
        BY <3>3 DEF Stored, RequestOf, RequestIn
      <4> QED
        BY <3>3, <4>1, <4>2, AnswersMap
    <3>4. CASE RefuseUnplayable(m)
      <4>1. UNCHANGED <<core, receipts, requests>>
        BY <3>4 DEF RefuseUnplayable, clientVars
      <4> QED
        BY <2>1, <3>3, <3>4, <4>1, FailureTyped DEF RefuseUnplayable
    <3>5. ASSUME NEW code \in RejectCodes, Judged(m), StoreReject(m, code),
                 code \notin TransientCodes => m.baseRevision < revision \/ ~Acceptable(m)
          PROVE  Log!LogNext \/ UNCHANGED Log!logVars
      <4>1. requests' = requests /\ AcceptedLog' = AcceptedLog
        BY <3>5, RejectionLog DEF StoreReject, clientVars, Judged
      <4> QED
        BY <3>3, <3>5, <4>1 DEF Judged
    <3>6. CASE RejectStale(m)
      <4>1. m.baseRevision < revision
        BY <3>6, EnvelopeParts
        DEF RejectStale, Current, LogInv, Inv, TypeOK, CoreRoots, revision
      <4> QED
        BY <3>5, <3>6, <4>1 DEF RejectStale
    <3>7. CASE RejectSteward(m)
      BY <3>5, <3>7 DEF RejectSteward, TransientCodes
    <3>8. CASE RejectByCore(m)
      BY <3>5, <3>8 DEF RejectByCore, Acceptable
    <3>9. CASE AcceptCommand(m)
      BY <3>9, AcceptanceMaps
    <3> QED
      BY <2>2, <3>1, <3>2, <3>4, <3>6, <3>7, <3>8, <3>9 DEF HandleCommand
  <2>3. ASSUME NEW d \in Drafts, NEW base \in 0 .. revision, Enqueue(d, base)
        PROVE  Log!LogNext
    <3>1. /\ UNCHANGED <<core, receipts, acked, denied>> /\ requests \subseteq requests'
      BY <2>3 DEF Enqueue
    <3>2. Log!Author
      BY <2>1, <3>1 DEF Log!Author, Authenticated
    <3> QED
      BY <3>2 DEF Log!LogNext
  <2>4. CASE \/ \E p \in Participants : Reconnect(p) \/ Disconnect(p)
             \/ \E r \in responses : Settle(r) \/ LoseResponse(r)
             \/ UNCHANGED vars
    <3>1. UNCHANGED <<core, receipts, requests, acked, denied>>
      BY <2>4 DEF Reconnect, Disconnect, Settle, LoseResponse, clientVars, vars
    <3> QED
      BY <2>1, <3>1 DEF Log!logVars, Authenticated
  <2> QED
    BY <2>2, <2>3, <2>4 DEF Next
<1> QED
  BY <1>1, <1>2, InitInv, LogInvInit, StepInv, StepLog, PTL DEF Spec, KeepsCommandLog
=============================================================================
