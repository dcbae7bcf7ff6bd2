----------------------- MODULE BrowserClient_proofs -----------------------
(***************************************************************************)
(* For every number of commands, delays and mishaps, every wait of the     *)
(* browser client has a deadline, and over a connection that lives what it *)
(* waits for is under way; it gives a room up for one of two reasons only, *)
(* since no frame of a connection is ever taken for one of another or of   *)
(* an older one; and what it tells the player of a command is what became  *)
(* of it.                                                                  *)
(***************************************************************************)
EXTENDS BrowserClient, SequenceTheorems, TLAPS

LEMMA SeqMono ==
  ASSUME NEW S, NEW T, S \subseteq T, NEW s \in Seq(S)
  PROVE  s \in Seq(T)
OBVIOUS

LEMMA SeqTail ==
  ASSUME NEW S, NEW s \in Seq(S), s # <<>>
  PROVE  Head(s) \in S /\ Tail(s) \in Seq(S)
OBVIOUS

LEMMA SeqConcat ==
  ASSUME NEW S, NEW s \in Seq(S), NEW t \in Seq(S)
  PROVE  s \o t \in Seq(S)
OBVIOUS

LEMMA SeqAppend ==
  ASSUME NEW S, NEW s \in Seq(S), NEW x \in S
  PROVE  Append(s, x) \in Seq(S) /\ <<x>> \in Seq(S)
OBVIOUS

LEMMA SeqPrefix ==
  ASSUME NEW S, NEW s \in Seq(S), NEW n \in 0 .. Len(s)
  PROVE  SubSeq(s, 1, n) \in Seq(S)
OBVIOUS

LEMMA SeqWithout ==
  ASSUME NEW S, NEW s \in Seq(S), NEW i \in DOMAIN s, NEW t,
         t = SubSeq(s, 1, i - 1) \o SubSeq(s, i + 1, Len(s))
  PROVE  /\ t \in Seq(S) /\ Len(t) = Len(s) - 1
         /\ \A k \in DOMAIN t : t[k] = s[IF k < i THEN k ELSE k + 1]
<1> DEFINE a == SubSeq(s, 1, i - 1)
           b == SubSeq(s, i + 1, Len(s))
<1>1. i \in 1 .. Len(s) /\ Len(s) \in Nat
  OBVIOUS
<1>2. /\ a \in Seq(S) /\ Len(a) = i - 1
      /\ \A k \in 1 .. i - 1 : a[k] = s[k]
  BY <1>1, SubSeqProperties
<1>3. /\ b \in Seq(S) /\ Len(b) = Len(s) - i
      /\ \A k \in 1 .. Len(s) - i : b[k] = s[k + i]
  BY SMTT(40), <1>1, SubSeqProperties
<1> HIDE DEF a, b
<1>4. /\ a \o b \in Seq(S) /\ Len(a \o b) = Len(s) - 1
      /\ \A k \in 1 .. Len(s) - 1 :
           (a \o b)[k] = IF k <= i - 1 THEN a[k] ELSE b[k - (i - 1)]
  <2>1. /\ a \o b \in Seq(S)
        /\ Len(a \o b) = Len(a) + Len(b)
        /\ \A k \in 1 .. Len(a) + Len(b) :
             (a \o b)[k] = IF k <= Len(a) THEN a[k] ELSE b[k - Len(a)]
    BY <1>2, <1>3, ConcatProperties
  <2>2. Len(a) + Len(b) = Len(s) - 1
    BY <1>1, <1>2, <1>3
  <2> QED
    BY <2>1, <2>2, <1>2
<1>5. DOMAIN (a \o b) = 1 .. Len(s) - 1
  BY <1>4
<1>6. ASSUME NEW k \in 1 .. Len(s) - 1
      PROVE  (a \o b)[k] = s[IF k < i THEN k ELSE k + 1]
  <2>1. CASE k < i
    BY <1>1, <1>2, <1>4, <2>1
  <2>2. CASE ~(k < i)
    <3>1. k - (i - 1) \in 1 .. Len(s) - i
      BY <1>1, <2>2
    <3>2. b[k - (i - 1)] = s[(k - (i - 1)) + i]
      BY <1>3, <3>1
    <3> QED
      BY SMTT(40), <1>1, <1>4, <2>2, <3>2
  <2> QED
    BY <2>1, <2>2
<1>7. t = a \o b
  BY DEF a, b
<1> QED
  BY <1>4, <1>5, <1>6, <1>7

-----------------------------------------------------------------------------
(* The types, by the provers that handle them. *)
Numbers ==
  /\ phase \in Phases
  /\ epoch \in Nat /\ mishaps \in 0 .. MaxMishaps
  /\ known \in Nat
  /\ shown \in Nat \union {-1} /\ greetedAt \in Nat \union {-1}
  /\ requestedAt \in Nat \union {-1}
  /\ attempt \in 0 .. Delays /\ timeouts \in 0 .. Delays
  /\ revision \in Nat

Flags ==
  linked \in BOOLEAN /\ requested \in BOOLEAN /\ present \in BOOLEAN

Codes ==
  /\ issue \in {"none", "INVALID_FRAME", "RECONNECT_EXHAUSTED",
               "CONTROLLER_LEASE_REQUIRED"}
  /\ armed \subseteq Commands \union {"handshake", "projection", "recovery"}

Outbox ==
  /\ pending \in Seq(Entries) /\ Len(pending) <= MaxOutbox
  /\ settled \in [Commands -> {"no", "accepted", "rejected"}]

Links ==
  /\ up \in [Epochs -> Seq(Requests)] /\ down \in Seq(Frames)
  /\ cut \subseteq Epochs

Object ==
  /\ session \in [Epochs -> {"none", "open", "authenticated", "closed"}]
  /\ receipts \in [Commands -> 0 .. revision]
  /\ holder \in Epochs \union {0}

LEMMA Types ==
  TypeOK <=> Numbers /\ Flags /\ Codes /\ Outbox /\ Links /\ Object
BY DEF TypeOK, Numbers, Flags, Codes, Outbox, Links, Object

-----------------------------------------------------------------------------
(* Where the client is in its protocol, and what that says of its socket. *)
Linked == Handshaking \union {"resyncing", "open"}

Control ==
  /\ linked <=> phase \in Linked
  /\ linked => (requested <=> phase = "resyncing")
  /\ \A i, j \in DOMAIN pending : pending[i].id = pending[j].id => i = j

(* Every connection, the one that is due too, was paid for by a mishap. *)
Budget ==
  epoch + (IF phase = "recovering" THEN 1 ELSE 0)
        + (IF linked /\ epoch \in cut THEN 1 ELSE 0) <= mishaps

Begun == (linked => epoch >= 1) /\ (\A e \in cut : e <= epoch)

(* A connection that is not used yet carries nothing, nor does one on which
   the client has said nothing. *)
Silent ==
  /\ \A e \in Epochs : e > epoch => up[e] = <<>> /\ session[e] = "none"
  /\ phase \in {"connecting", "awaiting-ready"} =>
       up[epoch] = <<>> /\ session[epoch] \in {"none", "open"}

(* What the client knows is never ahead of the object, and no frame that it
   waits for is behind what it knows. *)
Known ==
  /\ known <= revision /\ shown <= known /\ greetedAt <= revision

Expected(f) ==
  /\ f.kind \in {"ready", "hello", "notice", "snapshot"} =>
       f.revision <= revision
  /\ f.kind = "answer" => f.current <= revision
  /\ phase \in {"connecting", "awaiting-ready"} =>
       f.kind = "ready" /\ known <= f.revision
  /\ phase = "authenticating" /\ f.kind = "hello" =>
       known <= f.revision /\ greetedAt <= f.revision
  /\ f.kind = "snapshot" => greetedAt <= f.revision

Fresh == down \in Seq({f \in Frames : Expected(f)})

Reasons ==
  phase = "failed" =>
    \/ issue = "RECONNECT_EXHAUSTED" /\ Delays \in {attempt, timeouts}
    \/ issue = "CONTROLLER_LEASE_REQUIRED"

Inv ==
  /\ Numbers /\ Flags /\ Codes /\ Outbox /\ Links /\ Object
  /\ Control /\ Budget /\ Begun /\ Silent /\ Known /\ Fresh
  /\ Reasons /\ EveryWaitHasADeadline

LEMMA InitInv == Init => Inv
<1> SUFFICES ASSUME Init PROVE Inv
  OBVIOUS
<1> USE ClientAssumption DEF Init
<1>1. TypeOK
  <2>1. /\ phase \in Phases /\ epoch \in Nat /\ mishaps \in 0 .. MaxMishaps
        /\ known \in Nat
    BY DEF Phases
  <2>7. linked \in BOOLEAN /\ requested \in BOOLEAN /\ present \in BOOLEAN
    OBVIOUS
  <2>5. {shown, greetedAt, requestedAt} \subseteq Nat \union {-1}
    OBVIOUS
  <2>6. /\ attempt \in 0 .. Delays /\ timeouts \in 0 .. Delays
        /\ armed \subseteq Commands \union {"handshake", "projection", "recovery"}
    OBVIOUS
  <2>2. /\ pending \in Seq(Entries) /\ Len(pending) <= MaxOutbox
        /\ down \in Seq(Frames) /\ cut \subseteq Epochs
        /\ settled \in [Commands -> {"no", "accepted", "rejected"}]
        /\ issue \in {"none", "INVALID_FRAME", "RECONNECT_EXHAUSTED",
                     "CONTROLLER_LEASE_REQUIRED"}
    OBVIOUS
  <2>3. up \in [Epochs -> Seq(Requests)]
    OBVIOUS
  <2>4. /\ session \in [Epochs -> {"none", "open", "authenticated", "closed"}]
        /\ revision \in Nat /\ receipts \in [Commands -> 0 .. revision]
        /\ holder \in Epochs \union {0}
    OBVIOUS
  <2> QED
    BY <2>1, <2>2, <2>3, <2>4, <2>5, <2>6, <2>7 DEF TypeOK
<1>2. Control
  BY DEF Control, Linked, Handshaking
<1>3. Budget /\ Begun /\ Silent /\ Known /\ Reasons
  BY DEF Budget, Begun, Silent, Known, Reasons, Epochs
<1>4. Fresh
  BY DEF Fresh
<1>5. EveryWaitHasADeadline
  BY DEF EveryWaitHasADeadline, Handshaking
<1> QED
  BY <1>1, <1>2, <1>3, <1>4, <1>5, Types DEF Inv

-----------------------------------------------------------------------------
(* What is sent keeps its type and touches one connection only. *)
LEMMA SentTyped ==
  ASSUME Links, NEW frames \in Seq(Requests)
  PROVE  /\ Sent(frames) \in [Epochs -> Seq(Requests)]
         /\ \A e \in Epochs : e # epoch => Sent(frames)[e] = up[e]
BY SeqConcat DEF Sent, Links

LEMMA ReplayTyped ==
  ASSUME Outbox
  PROVE  Replayed \in Seq(Requests)
<1>1. pending \in Seq(Entries)
  BY DEF Outbox
<1>2. \A i \in 1 .. Len(pending) : Command(pending[i]) \in Requests
  BY <1>1 DEF Command, Requests
<1>3. DOMAIN pending = 1 .. Len(pending) /\ Len(pending) \in Nat
  BY <1>1
<1> QED
  BY <1>2, <1>3 DEF Replayed

(* Frames stay expected while the client does not move and the object does. *)
LEMMA StaysExpected ==
  ASSUME Numbers, revision' \in Nat, revision <= revision', Fresh,
         phase' = phase, known' = known, greetedAt' = greetedAt
  PROVE  down \in Seq({f \in Frames : Expected(f)'})
<1>1. ASSUME NEW f \in Frames, Expected(f) PROVE Expected(f)'
  BY <1>1 DEF Expected, Numbers, Frames
<1>2. {f \in Frames : Expected(f)} \subseteq {f \in Frames : Expected(f)'}
  BY <1>1
<1> QED
  BY <1>2, SeqMono DEF Fresh

-----------------------------------------------------------------------------
(* The client opens a socket. *)
LEMMA OpenStep ==
  ASSUME Inv, Connect \/ RecoveryFires
  PROVE  Inv'
<1>1. /\ OpenSocket
      /\ UNCHANGED <<known, shown, requestedAt, timeouts, outbox, up, cut, object>>
      /\ ~linked
      /\ attempt' \in {0, attempt} /\ issue' \in {"none", issue}
      /\ epoch + 1 <= mishaps' /\ mishaps' \in 0 .. MaxMishaps
  <2>1. CASE Connect
    BY <2>1, ClientAssumption
    DEF Connect, Mishap, OpenSocket, Inv, Numbers, Control, Linked, Handshaking,
        Budget, Begun
  <2>2. CASE RecoveryFires
    BY <2>2
    DEF RecoveryFires, OpenSocket, Inv, Numbers, Control, Linked, Handshaking,
        Budget, Begun
  <2> QED
    BY <2>1, <2>2
<1> USE <1>1, ClientAssumption DEF Inv, OpenSocket, outbox, object
<1>2. Numbers'
  BY DEF Numbers, Phases
<1>3. Flags' /\ Codes' /\ Outbox'
  BY DEF Flags, Codes, Outbox
<1>4. Links' /\ Object'
  BY DEF Links, Object
<1>5. Control'
  BY DEF Control, Linked, Handshaking
<1>6. Budget' /\ Begun'
  BY DEF Budget, Begun, Numbers, Links, Epochs
<1>7. Silent'
  BY DEF Silent, Numbers, Links, Epochs
<1>8. Known'
  BY DEF Known, Numbers
<1>9. Fresh'
  BY DEF Fresh
<1>10. Reasons' /\ EveryWaitHasADeadline'
  BY DEF Reasons, EveryWaitHasADeadline, Handshaking
<1> QED
  BY <1>2, <1>3, <1>4, <1>5, <1>6, <1>7, <1>8, <1>9, <1>10

(* The client leaves its socket, to recover or for good. *)
Leaves ==
  /\ phase' \in {"recovering", "failed", "closed"}
  /\ linked' = FALSE /\ down' = <<>>
  /\ attempt' \in 0 .. Delays /\ timeouts' \in 0 .. Delays
  /\ mishaps' \in 0 .. MaxMishaps
  /\ UNCHANGED <<epoch, views, outbox, up, cut, object>>
  /\ phase' = "recovering" => epoch + 1 <= mishaps' /\ armed' = {"recovery"}
  /\ phase' # "recovering" => epoch <= mishaps' /\ armed' = {}
  /\ issue' \in {issue, "none", "RECONNECT_EXHAUSTED", "CONTROLLER_LEASE_REQUIRED"}
  /\ Reasons'

LEMMA LeavesStep ==
  ASSUME Inv, Leaves
  PROVE  Inv'
<1> USE ClientAssumption DEF Inv, Leaves, views, outbox, object
<1>2. Numbers'
  BY DEF Numbers, Phases
<1>3. Flags' /\ Codes' /\ Outbox'
  BY DEF Flags, Codes, Outbox
<1>4. Links' /\ Object'
  BY DEF Links, Object
<1>5. Control'
  BY DEF Control, Linked, Handshaking
<1>6. Budget' /\ Begun'
  BY DEF Budget, Begun, Numbers
<1>7. Silent'
  BY DEF Silent
<1>8. Known'
  BY DEF Known
<1>9. Fresh'
  BY DEF Fresh
<1>10. EveryWaitHasADeadline'
  BY DEF EveryWaitHasADeadline, Handshaking
<1> QED
  BY <1>2, <1>3, <1>4, <1>5, <1>6, <1>7, <1>8, <1>9, <1>10

LEMMA RecoveryLeaves ==
  ASSUME Inv, NEW missed \in 0 .. Delays, BeginRecovery(missed),
         linked, mishaps' \in 0 .. MaxMishaps, mishaps <= mishaps',
         epoch \in cut \/ mishaps' = mishaps + 1,
         UNCHANGED <<epoch, views, outbox, up, cut, object>>
  PROVE  Leaves
<1> USE ClientAssumption DEF Inv, BeginRecovery, MayRetry
<1>1. epoch + 1 <= mishaps'
  BY DEF Budget, Numbers
<1>2. CASE attempt < Delays
  BY <1>1, <1>2 DEF Leaves, Reasons, Numbers
<1>3. CASE ~(attempt < Delays)
  BY <1>1, <1>3 DEF Leaves, Reasons, Numbers, FailTerminal
<1> QED
  BY <1>2, <1>3

LEMMA LeaveStep ==
  ASSUME Inv,
         \/ Disconnect \/ HearsOfTheEnd \/ HandshakeExpires \/ ProjectionExpires
         \/ (\E c \in Commands : CommandExpires(c))
         \/ ReceiveError
  PROVE  Inv'
<1> USE ClientAssumption DEF Inv
<1>1. CASE Disconnect
  <2>1. epoch <= mishaps
    BY DEF Budget, Numbers
  <2>2. Leaves
    BY <1>1, <2>1 DEF Disconnect, Leaves, Reasons, Numbers
  <2> QED
    BY <2>2, LeavesStep
<1>2. CASE HearsOfTheEnd
  BY <1>2, RecoveryLeaves, LeavesStep DEF HearsOfTheEnd, Numbers
<1>3. CASE HandshakeExpires \/ ProjectionExpires
  BY <1>3, RecoveryLeaves, LeavesStep
  DEF HandshakeExpires, ProjectionExpires, Late, Mishap, Numbers
<1>4. ASSUME NEW c \in Commands, CommandExpires(c) PROVE Inv'
  <2>1. /\ mishaps' \in 0 .. MaxMishaps /\ mishaps <= mishaps' /\ linked
        /\ epoch \in cut \/ mishaps' = mishaps + 1
        /\ UNCHANGED <<epoch, views, outbox, up, cut, object>>
    BY <1>4 DEF CommandExpires, Late, Mishap, Numbers
  <2>2. CASE timeouts < Delays
    <3>1. timeouts + 1 \in 0 .. Delays /\ BeginRecovery(timeouts + 1)
      BY <1>4, <2>2 DEF CommandExpires, Numbers
    <3> QED
      BY <2>1, <3>1, RecoveryLeaves, LeavesStep
  <2>3. CASE ~(timeouts < Delays)
    <3>1. pending # <<>>
      BY <1>4 DEF CommandExpires, Ids
    <3>2. timeouts = Delays
      BY <2>3 DEF Numbers
    <3>3. epoch <= mishaps'
      BY <2>1 DEF Budget, Numbers
    <3>4. FailTerminal("RECONNECT_EXHAUSTED", timeouts)
      BY <1>4, <2>3 DEF CommandExpires
    <3>5. Leaves
      BY <2>1, <3>1, <3>2, <3>3, <3>4 DEF FailTerminal, Leaves, Reasons, Numbers
    <3> QED
      BY <3>5, LeavesStep
  <2> QED
    BY <2>2, <2>3
<1>5. CASE ReceiveError
  <2>1. Head(down).code = "CONTROLLER_LEASE_REQUIRED"
    BY <1>5 DEF ReceiveError, Arrives, Links, Frames
  <2>2. epoch <= mishaps
    BY DEF Budget, Numbers
  <2>3. Leaves
    <3>1. FailTerminal("CONTROLLER_LEASE_REQUIRED", timeouts)
      BY <1>5, <2>1 DEF ReceiveError
    <3> QED
      BY <1>5, <2>2, <3>1
      DEF ReceiveError, FailTerminal, Leaves, Reasons, Numbers
  <2> QED
    BY <2>3, LeavesStep
<1> QED
  BY <1>1, <1>2, <1>3, <1>4, <1>5

-----------------------------------------------------------------------------
(* The socket opens, or dies. *)
LEMMA OnOpenStep ==
  ASSUME Inv, OnOpen
  PROVE  Inv'
<1> USE DEF Inv, OnOpen, timers, views, outbox, links, object
<1>1. Numbers' /\ Flags' /\ Codes' /\ Outbox' /\ Object'
  BY DEF Numbers, Phases, Flags, Codes, Outbox, Object
<1>2. Links' /\ Known'
  BY DEF Links, Known
<1>3. Control'
  BY DEF Control, Linked, Handshaking
<1>4. Budget' /\ Begun'
  BY DEF Budget, Begun
<1>5. Silent'
  BY DEF Silent
<1>6. Fresh'
  <2>1. \A f : Expected(f) => Expected(f)'
    BY DEF Expected
  <2>2. {f \in Frames : Expected(f)} \subseteq {f \in Frames : Expected(f)'}
    BY <2>1
  <2> QED
    BY <2>2, SeqMono DEF Fresh
<1>7. Reasons' /\ EveryWaitHasADeadline'
  BY DEF Reasons, EveryWaitHasADeadline, Handshaking
<1> QED
  BY <1>1, <1>2, <1>3, <1>4, <1>5, <1>6, <1>7

LEMMA CutStep ==
  ASSUME Inv, Cut
  PROVE  Inv'
<1> USE DEF Inv, Cut, Mishap, timers, views, outbox, object
<1>1. Numbers'
  BY ClientAssumption DEF Numbers
<1>8. Flags'
  BY DEF Flags
<1>9. Codes'
  BY DEF Codes
<1>10. Outbox'
  BY DEF Outbox
<1>11. Object'
  BY DEF Object
<1>2. epoch \in Epochs
  BY ClientAssumption DEF Budget, Begun, Numbers, Epochs
<1>3. Links'
  BY <1>2, SeqPrefix DEF Links
<1>4. Control' /\ Known' /\ Reasons' /\ EveryWaitHasADeadline'
  BY DEF Control, Known, Reasons, EveryWaitHasADeadline, Ids
<1>5. Budget' /\ Begun'
  BY DEF Budget, Begun, Numbers, Control, Linked, Handshaking
<1>6. Silent'
  <2>1. \A n \in 0 .. Len(up[epoch]) : up[epoch] = <<>> => SubSeq(up[epoch], 1, n) = <<>>
    BY <1>2 DEF Links
  <2> QED
    BY <1>2, <2>1 DEF Silent, Links, Numbers, Epochs
<1>7. Fresh'
  BY DEF Fresh
<1> QED
  BY <1>1, <1>3, <1>4, <1>5, <1>6, <1>7, <1>8, <1>9, <1>10, <1>11

(* The player submits a command. *)
LEMMA SubmitStep ==
  ASSUME Inv, NEW c \in Commands, Submit(c)
  PROVE  Inv'
<1> DEFINE entry == [id |-> c, base |-> shown]
<1> USE ClientAssumption DEF Inv
<1>1. /\ shown >= 0 /\ c \notin Ids /\ Len(pending) < MaxOutbox
      /\ pending' = Append(pending, entry)
      /\ IF phase = "open"
         THEN up' = Sent(<<Command(entry)>>) /\ armed' = armed \union {c}
         ELSE UNCHANGED <<up, armed>>
      /\ UNCHANGED <<phase, epoch, linked, attempt, timeouts, views, settled,
                     issue, down, cut, mishaps, object>>
  BY DEF Submit
<1>2. entry \in Entries
  BY <1>1 DEF Entries, Numbers
<1>3. <<Command(entry)>> \in Seq(Requests)
  BY <1>2 DEF Command, Requests
<1> HIDE DEF entry
<1> USE DEF views, object
<1>4. Numbers' /\ Flags' /\ Object' /\ Known' /\ Reasons' /\ Budget' /\ Begun'
  BY <1>1 DEF Numbers, Flags, Object, Known, Reasons, Budget, Begun
<1>5. Codes'
  BY <1>1 DEF Codes
<1>6. /\ pending' \in Seq(Entries) /\ Len(pending') = Len(pending) + 1
      /\ pending'[Len(pending) + 1] = entry
      /\ \A i \in 1 .. Len(pending) : pending'[i] = pending[i]
      /\ DOMAIN pending' = 1 .. Len(pending) + 1
      /\ DOMAIN pending = 1 .. Len(pending) /\ Len(pending) \in Nat
  BY <1>1, <1>2 DEF Outbox
<1>7. Outbox'
  BY <1>1, <1>6 DEF Outbox
<1>8. /\ up' \in [Epochs -> Seq(Requests)]
      /\ phase # "open" => up' = up
      /\ \A e \in Epochs : e # epoch => up'[e] = up[e]
  BY <1>1, <1>3, SentTyped DEF Links
<1>13. Links'
  BY <1>1, <1>8 DEF Links
<1>14. Silent'
  <2>1. session' = session /\ phase' = phase /\ epoch' = epoch
    BY <1>1
  <2>2. ASSUME NEW e \in Epochs, e > epoch
        PROVE  up'[e] = <<>> /\ session'[e] = "none"
    <3>1. e # epoch
      BY <2>2 DEF Numbers, Epochs
    <3> QED
      BY <1>8, <2>1, <2>2, <3>1 DEF Silent
  <2>3. phase \in {"connecting", "awaiting-ready"} => up' = up
    BY <1>8
  <2> QED
    BY <2>1, <2>2, <2>3 DEF Silent
<1>9. Ids' = Ids \union {c}
  BY <1>6 DEF Ids, entry
<1>10. Control'
  <2>1. \A i, j \in DOMAIN pending' : pending'[i].id = pending'[j].id => i = j
    <3>1. entry.id = c
      BY DEF entry
    <3>2. \A i \in 1 .. Len(pending) : pending[i].id # c
      BY <1>1, <1>6 DEF Ids
    <3> QED
      BY <1>6, <3>1, <3>2 DEF Control
  <2> QED
    BY <1>1, <2>1 DEF Control
<1>11. Fresh'
  <2>1. \A f : Expected(f)' <=> Expected(f)
    BY <1>1 DEF Expected
  <2> QED
    BY <1>1, <2>1 DEF Fresh
<1>12. EveryWaitHasADeadline'
  BY <1>1, <1>9 DEF EveryWaitHasADeadline
<1> QED
  BY <1>4, <1>5, <1>7, <1>10, <1>11, <1>12, <1>13, <1>14

-----------------------------------------------------------------------------
(* The object: what it sends is expected, if the client has asked for
   anything. *)
Current(f) ==
  /\ f.kind \in {"ready", "hello", "notice", "snapshot"} => f.revision = revision
  /\ f.kind = "answer" => f.current = revision

LEMMA CurrentIsExpected ==
  ASSUME Inv, UNCHANGED browser, revision' \in Nat, revision <= revision',
         NEW f \in Frames, Current(f)',
         \/ phase \notin {"connecting", "awaiting-ready"}
         \/ phase = "connecting" /\ f.kind = "ready"
  PROVE  Expected(f)'
<1>1. /\ known' = known /\ greetedAt' = greetedAt /\ phase' = phase
  BY DEF browser, views
<1>2. known <= revision' /\ greetedAt <= revision'
  BY DEF Inv, Known, Numbers
<1> QED
  BY <1>1, <1>2 DEF Current, Expected

LEMMA FramesExpected ==
  ASSUME Inv, UNCHANGED browser, revision' \in Nat, revision <= revision',
         NEW frames \in Seq({f \in Frames : Current(f)'}),
         \/ phase \notin {"connecting", "awaiting-ready"}
         \/ phase = "connecting" /\ \A i \in DOMAIN frames : frames[i].kind = "ready"
         \/ frames = <<>>
  PROVE  frames \in Seq({f \in Frames : Expected(f)'})
<1>1. CASE frames = <<>>
  BY <1>1
<1>2. CASE frames # <<>>
  <2>1. ASSUME NEW i \in 1 .. Len(frames)
        PROVE  frames[i] \in {f \in Frames : Expected(f)'}
    <3>1. frames[i] \in Frames /\ Current(frames[i])'
      BY <2>1
    <3>2. \/ phase \notin {"connecting", "awaiting-ready"}
          \/ phase = "connecting" /\ frames[i].kind = "ready"
      BY <1>2, <2>1
    <3> QED
      BY <3>1, <3>2, CurrentIsExpected
  <2> QED
    BY <2>1
<1> QED
  BY <1>1, <1>2

(* What is sent over one connection and then announced on the present one
   reaches the client after it said something, or not at all. *)
LEMMA SentIsFresh ==
  ASSUME Inv, UNCHANGED browser, revision' \in Nat, revision <= revision',
         NEW e, e = epoch => phase \notin {"connecting", "awaiting-ready"},
         NEW frames \in Seq({f \in Frames : Current(f)'}),
         NEW more \in {<<>>, Announced(revision')},
         down' = SentTo(e, frames) \o more
  PROVE  Fresh'
<1> DEFINE S == {f \in Frames : Expected(f)'}
<1>1. down \in Seq(S)
  BY StaysExpected DEF Inv, browser, views
<1>2. SentTo(e, frames) \in Seq(S)
  <2>1. CASE Live(e)
    <3>1. frames \in Seq(S)
      BY <2>1, FramesExpected DEF Live
    <3> QED
      BY <1>1, <2>1, <3>1, SeqConcat DEF SentTo
  <2>2. CASE ~Live(e)
    BY <1>1, <2>2 DEF SentTo
  <2> QED
    BY <2>1, <2>2
<1>3. more \in Seq(S)
  <2>1. CASE more = <<>>
    BY <2>1
  <2>2. CASE more # <<>>
    <3>1. PICK o \in Epochs : Live(o) /\ Authenticated(o)
      BY <2>2 DEF Announced
    <3>2. more = <<Notice(revision')>>
      BY <2>2 DEF Announced
    <3>3. phase \notin {"connecting", "awaiting-ready"}
      BY <3>1 DEF Inv, Silent, Live, Authenticated
    <3>4. Notice(revision') \in {f \in Frames : Current(f)'}
      BY DEF Notice, Frames, Current
    <3>5. more \in Seq({f \in Frames : Current(f)'})
      BY <3>2, <3>4
    <3> QED
      BY <3>3, <3>5, FramesExpected
  <2> QED
    BY <2>1, <2>2
<1> QED
  BY <1>2, <1>3, SeqConcat DEF Fresh

(* A step of the object that leaves the client alone. *)
LEMMA ObjectStep ==
  ASSUME Inv, UNCHANGED browser, mishaps <= mishaps', Numbers', Flags', Object',
         up' \in [Epochs -> Seq(Requests)], Silent', revision <= revision', Fresh'
  PROVE  Inv'
<1> USE DEF Inv, browser, timers, views, outbox
<1>1. Codes'
  BY DEF Codes
<1>2. Outbox'
  BY DEF Outbox
<1>3. Links'
  <2>1. down' \in Seq(Frames)
    <3>1. {f \in Frames : Expected(f)'} \subseteq Frames
      OBVIOUS
    <3> QED
      BY <3>1, SeqMono DEF Fresh
  <2> QED
    BY <2>1 DEF Links
<1>4. Control' /\ Budget' /\ Begun'
  BY DEF Control, Budget, Begun, Numbers
<1>5. Known'
  BY DEF Known, Numbers
<1>6. Reasons' /\ EveryWaitHasADeadline'
  BY DEF Reasons, EveryWaitHasADeadline, Ids
<1> QED
  BY <1>1, <1>2, <1>3, <1>4, <1>5, <1>6

(* What a request takes off its connection. *)
LEMMA TakenStep ==
  ASSUME Inv, NEW e \in Epochs, NEW kind, Takes(e, kind)
  PROVE  /\ up' \in [Epochs -> Seq(Requests)]
         /\ \A o \in Epochs : up[o] = <<>> => up'[o] = <<>>
         /\ e <= epoch /\ Head(up[e]) \in Requests
         /\ Head(up[e]).kind = kind
         /\ e = epoch => phase \notin {"connecting", "awaiting-ready"}
<1>1. up[e] \in Seq(Requests) /\ up[e] # <<>> /\ up' = [up EXCEPT ![e] = Tail(@)]
  BY DEF Inv, Links, Takes
<1>2. Head(up[e]) \in Requests /\ Tail(up[e]) \in Seq(Requests)
  BY <1>1, SeqTail
<1>3. e <= epoch /\ (e = epoch => phase \notin {"connecting", "awaiting-ready"})
  BY <1>1 DEF Inv, Silent, Numbers, Epochs
<1>4. up' \in [Epochs -> Seq(Requests)]
  BY <1>1, <1>2 DEF Inv, Links
<1> QED
  BY <1>1, <1>2, <1>3, <1>4 DEF Inv, Links, Takes

LEMMA StaysSilent ==
  ASSUME Inv, NEW e \in Epochs, NEW s, UNCHANGED browser,
         \A o \in Epochs : up[o] = <<>> => up'[o] = <<>>,
         session' = [session EXCEPT ![e] = s],
         e <= epoch,
         \/ s \in {"none", "open"}
         \/ e # epoch
         \/ phase \notin {"connecting", "awaiting-ready"}
  PROVE  Silent'
<1>1. epoch' = epoch /\ phase' = phase
  BY DEF browser
<1>2. session \in [Epochs -> {"none", "open", "authenticated", "closed"}]
  BY DEF Inv, Object
<1>3. ASSUME NEW o \in Epochs, o > epoch PROVE up'[o] = <<>> /\ session'[o] = "none"
  <2>1. o # e
    BY <1>3 DEF Inv, Numbers, Epochs
  <2> QED
    BY <1>2, <1>3, <2>1 DEF Inv, Silent
<1>4. ASSUME phase \in {"connecting", "awaiting-ready"}
      PROVE  up'[epoch] = <<>> /\ session'[epoch] \in {"none", "open"}
  <2>1. epoch \in Epochs
    BY <1>4, ClientAssumption
    DEF Inv, Control, Linked, Handshaking, Begun, Budget, Numbers, Epochs
  <2> QED
    BY <1>2, <1>4, <2>1 DEF Inv, Silent
<1> QED
  BY <1>1, <1>3, <1>4 DEF Silent

LEMMA AcceptUpgradeStep ==
  ASSUME Inv, AcceptUpgrade
  PROVE  Inv'
<1>1. /\ UNCHANGED browser /\ UNCHANGED <<mishaps, up, revision, receipts, holder, present>>
      /\ phase = "connecting" /\ linked /\ epoch \in Nat
      /\ session' = [session EXCEPT ![epoch] = "open"]
      /\ down' = Append(down, [kind |-> "ready", revision |-> revision])
  BY DEF AcceptUpgrade, client, Live, Inv, Numbers
<1>2. epoch \in Epochs
  BY <1>1, ClientAssumption DEF Inv, Begun, Budget, Numbers, Epochs
<1>3. Numbers'
  BY <1>1, ClientAssumption DEF Inv, Numbers, browser, timers, views
<1>4. Flags'
  BY <1>1 DEF Inv, Flags, browser, timers, views
<1>5. Object'
  BY <1>1 DEF Inv, Object
<1>6. Silent'
  <2>1. \A o \in Epochs : up[o] = <<>> => up'[o] = <<>>
    BY <1>1
  <2>2. epoch <= epoch
    BY <1>1
  <2> QED
    BY <1>1, <1>2, <2>1, <2>2, StaysSilent
<1>7. Fresh'
  <2> DEFINE f == [kind |-> "ready", revision |-> revision]
             S == {g \in Frames : Expected(g)'}
  <2>1. revision \in Nat /\ revision' = revision
    BY <1>1 DEF Inv, Numbers
  <2>2. f \in {g \in Frames : Current(g)'}
    BY <2>1 DEF Frames, Current
  <2> DEFINE fs == <<f>>
  <2>3. fs \in Seq({g \in Frames : Current(g)'})
    BY <2>2
  <2>4. \A i \in DOMAIN fs : fs[i].kind = "ready"
    OBVIOUS
  <2>5. fs \in Seq({g \in Frames : Expected(g)'})
    <3> HIDE DEF fs
    <3>1. revision' \in Nat /\ revision <= revision'
      BY <2>1
    <3> QED
      BY <1>1, <3>1, <2>3, <2>4, FramesExpected
  <2>6. down \in Seq(S)
    BY <1>1, <2>1, StaysExpected DEF Inv, browser, views
  <2>7. down' \in Seq(S)
    <3>1. f \in S
      BY <2>5
    <3> HIDE DEF f
    <3>2. down' = Append(down, f)
      BY <1>1 DEF f
    <3> QED
      BY <2>6, <3>1, <3>2, SeqAppend
  <2> QED
    BY <2>7 DEF Fresh
<1>8. /\ up' \in [Epochs -> Seq(Requests)] /\ revision <= revision'
      /\ mishaps <= mishaps'
  BY <1>1 DEF Inv, Links, Numbers
<1> QED
  BY <1>1, <1>3, <1>4, <1>5, <1>6, <1>7, <1>8, ObjectStep

(* A request is served. *)
LEMMA ServeStep ==
  ASSUME Inv, NEW e \in Epochs, NEW kind, Takes(e, kind),
         NEW s \in {"none", "open", "authenticated", "closed"},
         session' = [session EXCEPT ![e] = s], revision' \in Nat, revision <= revision',
         present' \in BOOLEAN, receipts' \in [Commands -> 0 .. revision'],
         holder' \in Epochs \union {0},
         NEW frames \in Seq({f \in Frames : Current(f)'}),
         NEW more \in {<<>>, Announced(revision')},
         down' = SentTo(e, frames) \o more
  PROVE  Inv'
<1>1. UNCHANGED browser /\ mishaps' = mishaps
  BY DEF Takes, client
<1>2. /\ up' \in [Epochs -> Seq(Requests)]
      /\ \A o \in Epochs : up[o] = <<>> => up'[o] = <<>>
      /\ e <= epoch
      /\ e = epoch => phase \notin {"connecting", "awaiting-ready"}
  BY TakenStep
<1>3. Numbers'
  BY <1>1, ClientAssumption DEF Inv, Numbers, browser, timers, views
<1>4. Flags'
  BY <1>1 DEF Inv, Flags, browser, timers, views
<1>5. Object'
  BY DEF Inv, Object
<1>6. Silent'
  BY <1>1, <1>2, StaysSilent
<1>7. Fresh'
  BY <1>1, <1>2, SentIsFresh
<1>8. mishaps <= mishaps'
  BY <1>1 DEF Inv, Numbers
<1> QED
  BY <1>1, <1>2, <1>3, <1>4, <1>5, <1>6, <1>7, <1>8, ObjectStep

(* ... and answered at the revision it found. *)
LEMMA PlainStep ==
  ASSUME Inv, NEW e \in Epochs, NEW kind, Takes(e, kind),
         session' = session \/ session' = [session EXCEPT ![e] = "authenticated"],
         UNCHANGED <<revision, receipts>>, present' \in BOOLEAN,
         holder' \in Epochs \union {0},
         NEW frames \in Seq({f \in Frames : Current(f)'}),
         down' = SentTo(e, frames)
  PROVE  Inv'
<1>1. PICK s \in {"none", "open", "authenticated", "closed"} :
        session' = [session EXCEPT ![e] = s]
  BY DEF Inv, Object
<1>2. /\ revision' \in Nat /\ revision <= revision'
      /\ receipts' \in [Commands -> 0 .. revision']
  BY DEF Inv, Numbers, Object
<1>3. down' = SentTo(e, frames) \o <<>>
  <2>1. down \in Seq(Frames) /\ frames \in Seq(Frames)
    BY DEF Inv, Links
  <2>2. SentTo(e, frames) \in Seq(Frames)
    BY <2>1, SeqConcat DEF SentTo
  <2> QED
    BY <2>2
<1> QED
  BY <1>1, <1>2, <1>3, ServeStep

LEMMA ServedStep ==
  ASSUME Inv, NEW e \in Epochs, Serve(e)
  PROVE  Inv'
<1>0. /\ revision \in Nat /\ present \in BOOLEAN
      /\ receipts \in [Commands -> 0 .. revision] /\ holder \in Epochs \union {0}
      /\ session \in [Epochs -> {"none", "open", "authenticated", "closed"}]
  BY DEF Inv, Numbers, Flags, Object
<1>1. CASE ServeHello(e)
  <2> DEFINE frames == <<[kind |-> "hello", revision |-> revision]>>
  <2>1. /\ Takes(e, "hello") /\ UNCHANGED <<revision, receipts, holder, present>>
        /\ session' = [session EXCEPT ![e] = "authenticated"]
        /\ down' = SentTo(e, frames)
    BY <1>1 DEF ServeHello
  <2>2. frames \in Seq({f \in Frames : Current(f)'})
    BY <1>0, <2>1 DEF Frames, Current
  <2> HIDE DEF frames
  <2> QED
    BY <1>0, <2>1, <2>2, PlainStep
<1>2. CASE ServeProjection(e)
  <2> DEFINE notice == IF present THEN <<>> ELSE <<Notice(revision)>>
             snapshot == <<[kind |-> "snapshot", revision |-> revision]>>
             C == {f \in Frames : Current(f)'}
  <2>1. /\ Takes(e, "project") /\ UNCHANGED <<session, revision, receipts, holder>>
        /\ present' = TRUE
        /\ down' = SentTo(e, notice \o snapshot)
    BY <1>2 DEF ServeProjection
  <2>2. notice \in Seq(C)
    <3>1. Notice(revision) \in C
      BY <1>0, <2>1 DEF Frames, Current, Notice
    <3> HIDE DEF C
    <3>2. CASE present
      BY <3>2
    <3>3. CASE ~present
      BY <3>1, <3>3
    <3> QED
      BY <3>2, <3>3
  <2>3. snapshot \in Seq(C)
    BY <1>0, <2>1 DEF Frames, Current
  <2>4. notice \o snapshot \in Seq(C)
    <3> HIDE DEF notice, snapshot, C
    <3> QED
      BY <2>2, <2>3, SeqConcat
  <2> HIDE DEF notice, snapshot
  <2> QED
    BY <1>0, <2>1, <2>4, PlainStep
<1>3. CASE RefuseControl(e)
  <2> DEFINE frames == <<[kind |-> "error", code |-> "CONTROLLER_LEASE_REQUIRED"]>>
  <2>1. /\ Takes(e, "command") /\ UNCHANGED <<session, revision, receipts, holder, present>>
        /\ down' = SentTo(e, frames)
    BY <1>3 DEF RefuseControl, object
  <2>2. frames \in Seq({f \in Frames : Current(f)'})
    BY DEF Frames, Current
  <2> HIDE DEF frames
  <2> QED
    BY <1>0, <2>1, <2>2, PlainStep
<1>4. CASE AnswerCommand(e) \/ AcceptCommand(e)
  <2> DEFINE entry == Head(up[e]).entry
             C == {f \in Frames : Current(f)'}
  <2>1. Takes(e, "command") /\ holder' = e /\ UNCHANGED <<session, present>>
    BY <1>4 DEF AnswerCommand, AcceptCommand
  <2>2. entry \in Entries
    BY <2>1, TakenStep DEF Requests
  <2>3. ASSUME NEW outcome \in {"accepted", "rejected"}, NEW resync \in BOOLEAN,
               revision' \in Nat
        PROVE  Answer(entry, outcome, revision', resync) \in Seq(C)
    <3> HIDE DEF entry
    <3>1. [kind |-> "answer", entry |-> entry, outcome |-> outcome,
           current |-> revision', resync |-> resync] \in C
      BY <2>2, <2>3 DEF Frames, Current
    <3> QED
      BY <3>1 DEF Answer
  <2>4. CASE AnswerCommand(e)
    <3> DEFINE outcome == IF present /\ receipts[entry.id] # 0
                          THEN "accepted" ELSE "rejected"
               resync == present /\ ~(receipts[entry.id] # 0)
                           /\ entry.base # revision
               frames == Answer(entry, outcome, revision, resync)
    <3>1. UNCHANGED <<revision, receipts>> /\ down' = SentTo(e, frames)
      BY <2>4 DEF AnswerCommand
    <3>2. frames \in Seq(C)
      <4>1. outcome \in {"accepted", "rejected"}
        OBVIOUS
      <4>2. resync \in BOOLEAN
        OBVIOUS
      <4> HIDE DEF outcome, resync, entry, C
      <4> QED
        BY <1>0, <2>3, <3>1, <4>1, <4>2
    <3> HIDE DEF frames
    <3> QED
      BY <1>0, <2>1, <3>1, <3>2, PlainStep
  <2>5. CASE AcceptCommand(e)
    <3> DEFINE frames == Answer(entry, "accepted", revision', FALSE)
    <3>1. /\ revision' = revision + 1
          /\ receipts' = [receipts EXCEPT ![entry.id] = revision + 1]
          /\ down' = SentTo(e, frames) \o Announced(revision')
      BY <2>5 DEF AcceptCommand
    <3>2. receipts' \in [Commands -> 0 .. revision']
      <4>1. receipts \in [Commands -> 0 .. revision + 1]
        BY <1>0
      <4>2. revision + 1 \in 0 .. revision + 1
        BY <1>0
      <4> HIDE DEF entry
      <4> QED
        BY <3>1, <4>1, <4>2
    <3>4. revision' \in Nat /\ revision <= revision'
      BY <1>0, <3>1
    <3>3. frames \in Seq(C)
      <4>1. FALSE \in BOOLEAN /\ "accepted" \in {"accepted", "rejected"}
        OBVIOUS
      <4> HIDE DEF entry, C
      <4> QED
        BY <2>3, <3>4, <4>1
    <3> HIDE DEF frames, entry
    <3> QED
      BY <1>0, <2>1, <3>1, <3>2, <3>3, <3>4, ServeStep
  <2> QED
    BY <1>4, <2>4, <2>5
<1> QED
  BY <1>1, <1>2, <1>3, <1>4 DEF Serve

LEMMA OthersStep ==
  ASSUME Inv, OthersCommand
  PROVE  Inv'
<1>1. /\ UNCHANGED browser /\ UNCHANGED <<up, session, receipts, holder, present>>
      /\ mishaps < MaxMishaps /\ mishaps' = mishaps + 1
      /\ revision' = revision + 1
      /\ down' = down \o Announced(revision')
  BY DEF OthersCommand, Mishap
<1>2. revision' \in Nat /\ revision <= revision' /\ mishaps <= mishaps'
  BY <1>1 DEF Inv, Numbers
<1>3. Numbers'
  BY <1>1, ClientAssumption DEF Inv, Numbers, browser, timers, views
<1>4. Flags'
  BY <1>1 DEF Inv, Flags, browser, timers, views
<1>5. Object'
  BY <1>1 DEF Inv, Object, Numbers
<1>6. Silent'
  BY <1>1 DEF Inv, Silent, browser
<1>7. Fresh'
  <2>1. <<>> \in Seq({f \in Frames : Current(f)'})
    OBVIOUS
  <2>2. SentTo(0, <<>>) = down
    BY DEF SentTo, Inv, Links
  <2>3. 0 = epoch => phase \notin {"connecting", "awaiting-ready"}
    BY DEF Inv, Control, Linked, Handshaking, Begun
  <2>4. Announced(revision') \in {<<>>, Announced(revision')}
    OBVIOUS
  <2> QED
    BY <1>1, <1>2, <2>1, <2>2, <2>3, <2>4, SentIsFresh
<1>8. up' \in [Epochs -> Seq(Requests)]
  BY <1>1 DEF Inv, Links
<1> QED
  BY <1>1, <1>2, <1>3, <1>4, <1>5, <1>6, <1>7, <1>8, ObjectStep

LEMMA ClosingStep ==
  ASSUME Inv, LeaseExpires \/ \E e \in Epochs : NoticeClose(e)
  PROVE  Inv'
<1>1. /\ UNCHANGED browser /\ UNCHANGED <<mishaps, up, down, revision, receipts>>
      /\ holder' \in {0, holder}
      /\ present' \in BOOLEAN
      /\ \/ session' = session
         \/ \E e \in Epochs : /\ session[e] = "authenticated"
                             /\ session' = [session EXCEPT ![e] = "closed"]
  <2>1. CASE LeaseExpires
    BY <2>1 DEF LeaseExpires, client, Inv, Flags
  <2>2. ASSUME NEW e \in Epochs, NoticeClose(e) PROVE <1>1
    <3>1. present' \in BOOLEAN
      BY <2>2 DEF NoticeClose
    <3> QED
      BY <2>2, <3>1 DEF NoticeClose, client, Authenticated
  <2> QED
    BY <2>1, <2>2
<1>2. /\ revision' \in Nat /\ revision <= revision' /\ mishaps <= mishaps'
      /\ up' \in [Epochs -> Seq(Requests)]
  BY <1>1 DEF Inv, Numbers, Links
<1>3. Numbers'
  BY <1>1, ClientAssumption DEF Inv, Numbers, browser, timers, views
<1>4. Flags'
  BY <1>1 DEF Inv, Flags, browser, timers, views
<1>5. Object'
  BY <1>1 DEF Inv, Object
<1>6. Silent'
  <2>1. CASE session' = session
    BY <1>1, <2>1 DEF Inv, Silent, browser
  <2>2. ASSUME NEW e \in Epochs, session[e] = "authenticated",
               session' = [session EXCEPT ![e] = "closed"]
        PROVE  Silent'
    <3>1. \A o \in Epochs : o # e => session'[o] = session[o]
      BY <2>2 DEF Inv, Object
    <3>2. ~(e > epoch) /\ (e = epoch => phase \notin {"connecting", "awaiting-ready"})
      BY <2>2 DEF Inv, Silent
    <3>3. e <= epoch
      BY <3>2 DEF Inv, Numbers, Epochs
    <3>4. \A o \in Epochs : up[o] = <<>> => up'[o] = <<>>
      BY <1>1
    <3> QED
      BY <1>1, <2>2, <3>2, <3>3, <3>4, StaysSilent
  <2> QED
    BY <1>1, <2>1, <2>2
<1>7. Fresh'
  <2>1. down \in Seq({f \in Frames : Expected(f)'})
    BY <1>1, <1>2, StaysExpected DEF Inv, browser, views
  <2> QED
    BY <1>1, <2>1 DEF Fresh
<1> QED
  BY <1>1, <1>2, <1>3, <1>4, <1>5, <1>6, <1>7, ObjectStep

-----------------------------------------------------------------------------
(* A frame arrives. *)
LEMMA Arrived ==
  ASSUME Inv, NEW kind, Arrives(kind)
  PROVE  /\ linked /\ phase \in Linked /\ phase # "connecting"
         /\ Head(down) \in Frames /\ Expected(Head(down))
         /\ Head(down).kind = kind
         /\ Tail(down) \in Seq({f \in Frames : Expected(f)})
<1>1. linked /\ down # <<>> /\ Head(down).kind = kind /\ phase # "connecting"
  BY DEF Arrives
<1>2. down \in Seq({f \in Frames : Expected(f)})
  BY DEF Inv, Fresh
<1>3. /\ Head(down) \in {f \in Frames : Expected(f)}
      /\ Tail(down) \in Seq({f \in Frames : Expected(f)})
  BY <1>1, <1>2, SeqTail
<1> QED
  BY <1>1, <1>3 DEF Inv, Control

(* Frames stay expected when the client moves on in its protocol. *)
LEMMA StaysExpectedByClient ==
  ASSUME revision' = revision,
         NEW s \in Seq({f \in Frames : Expected(f)}),
         \/ phase = "awaiting-ready" /\ phase' = "authenticating"
         \/ /\ greetedAt' = greetedAt
            /\ \/ phase' \in {"resyncing", "open"}
               \/ phase' = phase /\ known' = known
  PROVE  s \in Seq({f \in Frames : Expected(f)'})
<1>1. ASSUME NEW f \in Frames, Expected(f) PROVE Expected(f)'
  BY <1>1 DEF Expected
<1>2. {f \in Frames : Expected(f)} \subseteq {f \in Frames : Expected(f)'}
  BY <1>1
<1> QED
  BY <1>2, SeqMono

(* The client takes a frame and goes on. *)
LEMMA TakesIt ==
  ASSUME Inv, NEW kind, Arrives(kind), Consumed,
         UNCHANGED <<epoch, linked, issue, cut, mishaps, object>>,
         phase' \in {"authenticating", "resyncing", "open"} \/ phase' = phase,
         known' \in Nat, shown' \in Nat \union {-1},
         greetedAt' \in Nat \union {-1}, requestedAt' \in Nat \union {-1},
         attempt' \in 0 .. Delays, timeouts' \in 0 .. Delays,
         requested' \in BOOLEAN, requested' <=> phase' = "resyncing",
         shown' <= known', known' <= revision, greetedAt' <= revision,
         armed' \subseteq Commands \union {"handshake", "projection", "recovery"},
         Outbox',
         \A i, j \in DOMAIN pending' : pending'[i].id = pending'[j].id => i = j,
         up' \in [Epochs -> Seq(Requests)],
         \A e \in Epochs : e # epoch => up'[e] = up[e],
         phase' \in {"connecting", "awaiting-ready"} => up' = up,
         \/ phase = "awaiting-ready" /\ phase' = "authenticating"
         \/ /\ greetedAt' = greetedAt
            /\ \/ phase' \in {"resyncing", "open"}
               \/ phase' = phase /\ known' = known,
         EveryWaitHasADeadline'
  PROVE  Inv'
<1>1. /\ linked /\ phase \in Linked
      /\ Tail(down) \in Seq({f \in Frames : Expected(f)})
  BY Arrived
<1>2. phase' \in Linked
  BY <1>1 DEF Linked, Handshaking
<1>3. Numbers'
  <2>1. phase' \in Phases
    BY <1>2 DEF Linked, Handshaking, Phases
  <2>2. epoch' \in Nat /\ mishaps' \in 0 .. MaxMishaps /\ revision' \in Nat
    BY DEF Inv, Numbers, object
  <2> QED
    BY <2>1, <2>2 DEF Numbers
<1>4. Flags'
  BY DEF Inv, Flags, object
<1>5. Codes'
  BY DEF Inv, Codes
<1>6. down' \in Seq({f \in Frames : Expected(f)'})
  BY <1>1, StaysExpectedByClient DEF Consumed, object
<1>7. Links'
  <2>1. {f \in Frames : Expected(f)'} \subseteq Frames
    OBVIOUS
  <2>2. down' \in Seq(Frames)
    BY <1>6, <2>1, SeqMono
  <2>3. cut' \subseteq Epochs
    BY DEF Inv, Links
  <2> QED
    BY <2>2, <2>3 DEF Links
<1>8. Object'
  BY DEF Inv, Object, object
<1>9. Control'
  BY <1>1, <1>2 DEF Control
<1>10. Budget' /\ Begun'
  BY <1>1, <1>2 DEF Inv, Budget, Begun, Linked, Handshaking
<1>11. Silent'
  <2>1. epoch' = epoch /\ session' = session
    BY DEF object
  <2>2. ASSUME NEW e \in Epochs, e > epoch PROVE up'[e] = <<>> /\ session[e] = "none"
    <3>1. e # epoch
      BY <2>2 DEF Inv, Numbers, Epochs
    <3> QED
      BY <2>2, <3>1 DEF Inv, Silent
  <2>3. phase' \in {"connecting", "awaiting-ready"} => phase' = phase /\ up' = up
    OBVIOUS
  <2> QED
    BY <2>1, <2>2, <2>3 DEF Inv, Silent
<1>12. Known'
  BY DEF Known, object
<1>13. Reasons'
  BY <1>2 DEF Reasons, Linked, Handshaking
<1> QED
  BY <1>3, <1>4, <1>5, <1>6, <1>7, <1>8, <1>9, <1>10, <1>11, <1>12, <1>13
  DEF Inv, Fresh

LEMMA DroppedStep ==
  ASSUME Inv, NEW kind, Arrives(kind), Dropped,
         UNCHANGED <<epoch, cut, mishaps, object>>
  PROVE  Inv'
<1> USE DEF Dropped, timers, views, outbox
<1>1. linked /\ phase \in Linked /\ phase # "connecting"
  BY Arrived
<1>2. /\ known' \in Nat /\ shown' \in Nat \union {-1}
      /\ greetedAt' \in Nat \union {-1} /\ requestedAt' \in Nat \union {-1}
      /\ attempt' \in 0 .. Delays /\ timeouts' \in 0 .. Delays
  BY DEF Inv, Numbers
<1>3. requested' \in BOOLEAN
  BY DEF Inv, Flags
<1>4. requested' <=> phase' = "resyncing"
  BY <1>1 DEF Inv, Control
<1>5. shown' <= known' /\ known' <= revision /\ greetedAt' <= revision
  BY DEF Inv, Known
<1>6. armed' \subseteq Commands \union {"handshake", "projection", "recovery"}
  BY DEF Inv, Codes
<1>7. Outbox'
  BY DEF Inv, Outbox
<1>8. \A i, j \in DOMAIN pending' : pending'[i].id = pending'[j].id => i = j
  BY DEF Inv, Control
<1>9. up' \in [Epochs -> Seq(Requests)] /\ up' = up
  BY DEF Inv, Links
<1>10. EveryWaitHasADeadline'
  BY DEF Inv, EveryWaitHasADeadline, Ids
<1>11. Consumed /\ phase' = phase /\ linked' = linked /\ issue' = issue
       /\ greetedAt' = greetedAt /\ known' = known
  OBVIOUS
<1> HIDE DEF Dropped, timers, views, outbox
<1> QED
  BY <1>2, <1>3, <1>4, <1>5, <1>6, <1>7, <1>8, <1>9, <1>10, <1>11, TakesIt

(* What a client that goes on asks for. *)
LEMMA Requesting ==
  ASSUME Inv, linked, NEW r, NEW deadlines, RequestProjection(r, deadlines)
  PROVE  /\ phase' = "resyncing" /\ requested' = TRUE
         /\ requestedAt' \in {requestedAt, r}
         /\ armed' \in {deadlines, deadlines \union {"projection"}}
         /\ requested \/ "projection" \in armed'
         /\ requested => armed' = deadlines
         /\ up' \in [Epochs -> Seq(Requests)]
         /\ \A e \in Epochs : e # epoch => up'[e] = up[e]
<1>1. CASE requested
  <2>1. requested = TRUE
    BY <1>1 DEF Inv, Flags
  <2> QED
    BY <1>1, <2>1 DEF RequestProjection, Inv, Control, Links
<1>2. CASE ~requested
  <2>1. <<[kind |-> "project"]>> \in Seq(Requests)
    BY DEF Requests
  <2>2. /\ up' = Sent(<<[kind |-> "project"]>>)
        /\ phase' = "resyncing" /\ requested' = TRUE /\ requestedAt' = r
        /\ armed' = deadlines \union {"projection"}
    BY <1>2 DEF RequestProjection
  <2> QED
    BY <1>2, <2>1, <2>2, SentTyped DEF Inv
<1> QED
  BY <1>1, <1>2

(* ... and hears of a revision on the way. *)
LEMMA AsksAgain ==
  ASSUME Inv, NEW kind, Arrives(kind), Consumed,
         phase \in {"authenticating", "resyncing", "open"},
         UNCHANGED <<epoch, linked, issue, cut, mishaps, object>>,
         UNCHANGED <<attempt, shown, greetedAt>>, timeouts' \in 0 .. Delays,
         NEW r \in Nat, r <= revision, known' = Larger(known, r),
         NEW deadlines, RequestProjection(known', deadlines),
         deadlines \subseteq armed,
         phase = "resyncing" => "projection" \in deadlines,
         Outbox',
         \A i, j \in DOMAIN pending' : pending'[i].id = pending'[j].id => i = j
  PROVE  Inv'
<1>1. linked
  BY Arrived
<1>2. known \in Nat /\ known <= revision /\ shown <= known /\ revision \in Nat
      /\ shown \in Nat \union {-1}
  BY DEF Inv, Numbers, Known
<1>3. known' \in Nat /\ known <= known' /\ known' <= revision
  BY <1>2 DEF Larger
<1>4. shown' <= known'
  BY <1>2, <1>3
<1>5. /\ phase' = "resyncing" /\ requested' = TRUE
      /\ requestedAt' \in {requestedAt, known'}
      /\ armed' \in {deadlines, deadlines \union {"projection"}}
      /\ requested \/ "projection" \in armed'
      /\ requested => armed' = deadlines
      /\ up' \in [Epochs -> Seq(Requests)]
      /\ \A e \in Epochs : e # epoch => up'[e] = up[e]
  BY <1>1, Requesting
<1>6. requested <=> phase = "resyncing"
  BY <1>1 DEF Inv, Control
<1>7. "projection" \in armed'
  BY <1>5, <1>6
<1>8. armed' \subseteq Commands \union {"handshake", "projection", "recovery"}
  BY <1>5 DEF Inv, Codes
<1>9. EveryWaitHasADeadline'
  BY <1>1, <1>5, <1>7 DEF EveryWaitHasADeadline, Handshaking
<1>10. /\ greetedAt' \in Nat \union {-1} /\ requestedAt' \in Nat \union {-1}
       /\ attempt' \in 0 .. Delays /\ shown' \in Nat \union {-1}
       /\ greetedAt' <= revision
  BY <1>3, <1>5 DEF Inv, Numbers, Known
<1> QED
  BY <1>3, <1>4, <1>5, <1>8, <1>9, <1>10, TakesIt

LEMMA SameOutbox ==
  ASSUME Inv, UNCHANGED outbox
  PROVE  /\ Outbox'
         /\ \A i, j \in DOMAIN pending' : pending'[i].id = pending'[j].id => i = j
BY DEF Inv, Outbox, Control, outbox

LEMMA ReadyStep ==
  ASSUME Inv, ReceiveReady
  PROVE  Inv'
<1> DEFINE r == Head(down).revision
<1>1. Arrives("ready") /\ UNCHANGED <<epoch, cut, mishaps, object>>
  BY DEF ReceiveReady
<1>2. /\ linked /\ Head(down) \in Frames /\ Expected(Head(down))
      /\ Head(down).kind = "ready"
  BY <1>1, Arrived
<1>3. r \in Nat /\ r <= revision
  BY <1>2 DEF Frames, Expected
<1>4. CASE phase # "awaiting-ready"
  <2>1. Dropped
    BY <1>4 DEF ReceiveReady
  <2> QED
    BY <1>1, <2>1, DroppedStep
<1>5. CASE phase = "awaiting-ready"
  <2>1. known <= r
    BY <1>2, <1>5 DEF Expected
  <2>2. ~(r < Larger(known, shown))
    BY <1>3, <2>1 DEF Larger, Inv, Known, Numbers
  <2>3. /\ phase' = "authenticating" /\ greetedAt' = r
        /\ up' = Sent(<<[kind |-> "hello"]>>)
        /\ Consumed
        /\ UNCHANGED <<linked, timers, known, shown, requested,
                       requestedAt, outbox, issue>>
    BY <1>5, <2>2 DEF ReceiveReady
  <2>4. /\ up' \in [Epochs -> Seq(Requests)]
        /\ \A e \in Epochs : e # epoch => up'[e] = up[e]
    <3>1. <<[kind |-> "hello"]>> \in Seq(Requests)
      BY DEF Requests
    <3> QED
      BY <2>3, <3>1, SentTyped DEF Inv
  <2>5. /\ known' \in Nat /\ shown' \in Nat \union {-1}
        /\ greetedAt' \in Nat \union {-1} /\ requestedAt' \in Nat \union {-1}
        /\ attempt' \in 0 .. Delays /\ timeouts' \in 0 .. Delays
        /\ shown' <= known' /\ known' <= revision /\ greetedAt' <= revision
    BY <1>3, <2>3 DEF Inv, Numbers, Known, timers
  <2>6. requested' \in BOOLEAN /\ (requested' <=> phase' = "resyncing")
    <3>1. requested' = requested /\ requested \in BOOLEAN
      BY <2>3 DEF Inv, Flags
    <3>2. ~requested
      BY <1>2, <1>5 DEF Inv, Control
    <3> QED
      BY <2>3, <3>1, <3>2
  <2>7. /\ armed' \subseteq Commands \union {"handshake", "projection", "recovery"}
        /\ EveryWaitHasADeadline'
    BY <1>2, <1>5, <2>3 DEF Inv, Codes, EveryWaitHasADeadline, Handshaking, timers
  <2>8. /\ Outbox'
        /\ \A i, j \in DOMAIN pending' : pending'[i].id = pending'[j].id => i = j
    BY <2>3, SameOutbox
  <2>9. ~(phase' \in {"connecting", "awaiting-ready"})
    BY <2>3
  <2> QED
    BY <1>1, <1>5, <2>3, <2>4, <2>5, <2>6, <2>7, <2>8, <2>9, TakesIt
<1> QED
  BY <1>4, <1>5

LEMMA HelloStep ==
  ASSUME Inv, ReceiveHello
  PROVE  Inv'
<1> DEFINE r == Head(down).revision
<1>1. Arrives("hello") /\ UNCHANGED <<epoch, cut, mishaps, object>>
  BY DEF ReceiveHello
<1>2. /\ linked /\ Head(down) \in Frames /\ Expected(Head(down))
      /\ Head(down).kind = "hello"
  BY <1>1, Arrived
<1>3. r \in Nat /\ r <= revision
  BY <1>2 DEF Frames, Expected
<1>4. CASE phase # "authenticating"
  <2>1. Dropped
    BY <1>4 DEF ReceiveHello
  <2> QED
    BY <1>1, <2>1, DroppedStep
<1>5. CASE phase = "authenticating"
  <2>1. known <= r /\ greetedAt <= r
    BY <1>2, <1>5 DEF Expected
  <2>2. ~(r < greetedAt \/ r < Larger(known, shown))
    BY <1>3, <2>1 DEF Larger, Inv, Known, Numbers
  <2>3. /\ known' = Larger(known, r)
        /\ RequestProjection(known', armed \ {"handshake"})
        /\ Consumed
        /\ UNCHANGED <<linked, attempt, timeouts, shown, greetedAt, outbox, issue>>
    BY <1>5, <2>2 DEF ReceiveHello
  <2>4. /\ Outbox'
        /\ \A i, j \in DOMAIN pending' : pending'[i].id = pending'[j].id => i = j
    BY <2>3, SameOutbox
  <2>5. timeouts' \in 0 .. Delays
    BY <2>3 DEF Inv, Numbers
  <2>6. armed \ {"handshake"} \subseteq armed
    OBVIOUS
  <2> HIDE DEF r
  <2> QED
    BY <1>1, <1>3, <1>5, <2>3, <2>4, <2>5, <2>6, AsksAgain
<1> QED
  BY <1>4, <1>5

LEMMA NoticeStep ==
  ASSUME Inv, ReceiveNotice
  PROVE  Inv'
<1> DEFINE r == Head(down).revision
<1>1. Arrives("notice") /\ UNCHANGED <<epoch, cut, mishaps, object>>
  BY DEF ReceiveNotice
<1>2. /\ linked /\ Head(down) \in Frames /\ Expected(Head(down))
      /\ Head(down).kind = "notice"
  BY <1>1, Arrived
<1>3. r \in Nat /\ r <= revision
  BY <1>2 DEF Frames, Expected
<1>4. CASE phase \notin {"open", "resyncing"} \/ r < shown
  <2>1. Dropped
    BY <1>4 DEF ReceiveNotice
  <2> QED
    BY <1>1, <2>1, DroppedStep
<1>5. CASE phase \in {"open", "resyncing"} /\ ~(r < shown)
  <2>3. /\ known' = Larger(known, r)
        /\ RequestProjection(known', armed)
        /\ Consumed
        /\ UNCHANGED <<linked, attempt, timeouts, shown, greetedAt, outbox, issue>>
    BY <1>5 DEF ReceiveNotice
  <2>4. /\ Outbox'
        /\ \A i, j \in DOMAIN pending' : pending'[i].id = pending'[j].id => i = j
    BY <2>3, SameOutbox
  <2>5. timeouts' \in 0 .. Delays
    BY <2>3 DEF Inv, Numbers
  <2>6. armed \subseteq armed /\ (phase = "resyncing" => "projection" \in armed)
    BY DEF Inv, EveryWaitHasADeadline
  <2> HIDE DEF r
  <2> QED
    BY <1>1, <1>3, <1>5, <2>3, <2>4, <2>5, <2>6, AsksAgain
<1> QED
  BY <1>4, <1>5

LEMMA SnapshotStep ==
  ASSUME Inv, ReceiveSnapshot
  PROVE  Inv'
<1> DEFINE r == Head(down).revision
<1>1. Arrives("snapshot") /\ UNCHANGED <<epoch, cut, mishaps, object>>
  BY DEF ReceiveSnapshot
<1>2. /\ linked /\ Head(down) \in Frames /\ Expected(Head(down))
      /\ Head(down).kind = "snapshot"
  BY <1>1, Arrived
<1>3. r \in Nat /\ r <= revision /\ greetedAt <= r
  BY <1>2 DEF Frames, Expected
<1>4. CASE phase # "resyncing" \/ (greetedAt <= r /\ r < known
                                  /\ ~(requested /\ requestedAt < known))
  <2>1. Dropped
    BY <1>4 DEF ReceiveSnapshot
  <2> QED
    BY <1>1, <2>1, DroppedStep
<1>5. CASE ~(phase # "resyncing" \/ (greetedAt <= r /\ r < known
                                    /\ ~(requested /\ requestedAt < known)))
  <2>1. phase = "resyncing" /\ ~(r < greetedAt)
    BY <1>3, <1>5 DEF Inv, Numbers
  <2>2. /\ known \in Nat /\ revision \in Nat /\ known <= revision /\ shown <= known
        /\ greetedAt <= revision /\ greetedAt \in Nat \union {-1}
        /\ shown \in Nat \union {-1} /\ requestedAt \in Nat \union {-1}
        /\ attempt \in 0 .. Delays /\ timeouts \in 0 .. Delays /\ Delays \in Nat
    BY ClientAssumption DEF Inv, Numbers, Known
  <2>3. CASE r < known
    <3>1. /\ requestedAt' = known
          /\ up' = Sent(<<[kind |-> "project"]>>)
          /\ armed' = armed \union {"projection"}
          /\ Consumed
          /\ UNCHANGED <<phase, linked, attempt, timeouts, known, shown,
                         greetedAt, requested, outbox, issue>>
      BY <1>5, <2>1, <2>3 DEF ReceiveSnapshot
    <3>2. /\ up' \in [Epochs -> Seq(Requests)]
          /\ \A e \in Epochs : e # epoch => up'[e] = up[e]
      <4>1. <<[kind |-> "project"]>> \in Seq(Requests)
        BY DEF Requests
      <4> QED
        BY <3>1, <4>1, SentTyped DEF Inv
    <3>3. /\ known' \in Nat /\ shown' \in Nat \union {-1}
          /\ greetedAt' \in Nat \union {-1} /\ requestedAt' \in Nat \union {-1}
          /\ attempt' \in 0 .. Delays /\ timeouts' \in 0 .. Delays
          /\ shown' <= known' /\ known' <= revision /\ greetedAt' <= revision
      BY <2>2, <3>1
    <3>4. requested' \in BOOLEAN /\ (requested' <=> phase' = "resyncing")
      <4>1. requested \in BOOLEAN /\ (requested <=> phase = "resyncing")
        BY <1>2 DEF Inv, Flags, Control
      <4> QED
        BY <3>1, <4>1
    <3>5. /\ armed' \subseteq Commands \union {"handshake", "projection", "recovery"}
          /\ EveryWaitHasADeadline'
      BY <2>1, <3>1 DEF Inv, Codes, EveryWaitHasADeadline, Handshaking
    <3>6. /\ Outbox'
          /\ \A i, j \in DOMAIN pending' : pending'[i].id = pending'[j].id => i = j
      BY <3>1, SameOutbox
    <3>7. phase' = "resyncing" /\ greetedAt' = greetedAt
      BY <2>1, <3>1
    <3> QED
      BY <1>1, <3>1, <3>2, <3>3, <3>4, <3>5, <3>6, <3>7, TakesIt
  <2>4. CASE ~(r < known)
    <3>1. /\ known' = r /\ shown' = r
          /\ requested' = FALSE /\ requestedAt' = -1
          /\ attempt' = 0 /\ phase' = "open"
          /\ up' = Sent(Replayed)
          /\ armed' = (armed \ {"projection"}) \union Ids
          /\ Consumed
          /\ UNCHANGED <<linked, timeouts, greetedAt, outbox, issue>>
      BY <1>5, <2>1, <2>4 DEF ReceiveSnapshot
    <3>2. /\ up' \in [Epochs -> Seq(Requests)]
          /\ \A e \in Epochs : e # epoch => up'[e] = up[e]
      BY <3>1, ReplayTyped, SentTyped DEF Inv
    <3>3. /\ known' \in Nat /\ shown' \in Nat \union {-1}
          /\ greetedAt' \in Nat \union {-1} /\ requestedAt' \in Nat \union {-1}
          /\ attempt' \in 0 .. Delays /\ timeouts' \in 0 .. Delays
          /\ shown' <= known' /\ known' <= revision /\ greetedAt' <= revision
      BY <1>3, <2>2, <3>1
    <3>4. requested' \in BOOLEAN /\ (requested' <=> phase' = "resyncing")
      BY <3>1
    <3>5. Ids \subseteq Commands /\ Ids' = Ids
      <4>1. \A i \in DOMAIN pending : pending[i].id \in Commands
        <5>1. pending \in Seq(Entries)
          BY DEF Inv, Outbox
        <5>2. \A i \in DOMAIN pending : pending[i] \in Entries
          BY <5>1
        <5> QED
          BY <5>2 DEF Entries
      <4>2. pending' = pending
        BY <3>1 DEF outbox
      <4> QED
        BY <4>1, <4>2 DEF Ids
    <3>6. armed' \subseteq Commands \union {"handshake", "projection", "recovery"}
      BY <3>1, <3>5 DEF Inv, Codes
    <3>7. EveryWaitHasADeadline'
      BY <1>2, <3>1, <3>5 DEF EveryWaitHasADeadline, Handshaking
    <3>8. /\ Outbox'
          /\ \A i, j \in DOMAIN pending' : pending'[i].id = pending'[j].id => i = j
      BY <3>1, SameOutbox
    <3> QED
      BY <1>1, <3>1, <3>2, <3>3, <3>4, <3>6, <3>7, <3>8, TakesIt
  <2> QED
    BY <2>3, <2>4
<1> QED
  BY <1>4, <1>5

(* A command is settled, and the others keep their places and deadlines. *)
LEMMA SettledOutbox ==
  ASSUME Inv, NEW entry, NEW outcome \in {"accepted", "rejected"},
         NEW i \in DOMAIN pending, pending[i] = entry, pending' = Without(i),
         settled' = [settled EXCEPT ![entry.id] = outcome]
  PROVE  /\ Outbox'
         /\ \A j, k \in DOMAIN pending' : pending'[j].id = pending'[k].id => j = k
         /\ Ids' \subseteq Ids \ {entry.id}
<1>1. pending \in Seq(Entries) /\ Len(pending) <= MaxOutbox /\ MaxOutbox \in Nat
  BY ClientAssumption DEF Inv, Outbox
<1>2. /\ pending' \in Seq(Entries) /\ Len(pending') = Len(pending) - 1
      /\ \A k \in DOMAIN pending' : pending'[k] = pending[IF k < i THEN k ELSE k + 1]
  BY ZenonT(60), <1>1, SeqWithout DEF Without
<1>3. settled' \in [Commands -> {"no", "accepted", "rejected"}]
  BY DEF Inv, Outbox
<1>4. Outbox'
  <2>1. Len(pending) \in Nat
    BY <1>1
  <2> QED
    BY <1>1, <1>2, <1>3, <2>1 DEF Outbox
<1>5. /\ DOMAIN pending' = 1 .. Len(pending) - 1 /\ DOMAIN pending = 1 .. Len(pending)
      /\ Len(pending) \in Nat /\ i \in 1 .. Len(pending)
  BY <1>1, <1>2
<1>6. \A j, k \in DOMAIN pending : pending[j].id = pending[k].id => j = k
  BY DEF Inv, Control
<1>7. ASSUME NEW k \in DOMAIN pending'
      PROVE  /\ (IF k < i THEN k ELSE k + 1) \in DOMAIN pending
             /\ (IF k < i THEN k ELSE k + 1) # i
  BY <1>5
<1>8. ASSUME NEW j \in DOMAIN pending', NEW k \in DOMAIN pending',
             pending'[j].id = pending'[k].id
      PROVE  j = k
  <2>1. (IF j < i THEN j ELSE j + 1) = (IF k < i THEN k ELSE k + 1)
    BY <1>2, <1>6, <1>7, <1>8
  <2> QED
    BY <1>5, <2>1
<1>9. ASSUME NEW k \in DOMAIN pending'
      PROVE  pending'[k].id \in Ids \ {entry.id}
  BY <1>2, <1>6, <1>7 DEF Ids
<1> QED
  BY <1>4, <1>8, <1>9 DEF Ids

LEMMA AnswerStep ==
  ASSUME Inv, ReceiveAnswer
  PROVE  Inv'
<1> DEFINE a == Head(down)
<1>1. Arrives("answer") /\ UNCHANGED <<epoch, cut, mishaps, object>>
  BY DEF ReceiveAnswer
<1>2. linked /\ a \in Frames /\ Expected(a) /\ a.kind = "answer"
  BY <1>1, Arrived
<1>3. /\ a.entry \in Entries /\ a.outcome \in {"accepted", "rejected"}
      /\ a.current \in Nat /\ a.current <= revision
  BY <1>2 DEF Frames, Expected
<1>4. CASE Dropped
  BY <1>1, <1>4, DroppedStep
<1>5. ASSUME phase \in {"open", "resyncing"}, Settles(a), Consumed PROVE Inv'
  <2> HIDE DEF a
  <2>1. PICK i \in DOMAIN pending :
          /\ pending[i] = a.entry /\ pending' = Without(i)
          /\ settled' = [settled EXCEPT ![a.entry.id] = a.outcome]
          /\ known' = Larger(known, a.current)
          /\ timeouts' = IF pending' = <<>> THEN 0 ELSE timeouts
          /\ \/ RequestProjection(known', armed \ {a.entry.id})
             \/ /\ armed' = armed \ {a.entry.id}
                /\ UNCHANGED <<phase, requested, requestedAt, up>>
          /\ UNCHANGED <<linked, shown, greetedAt, attempt, issue>>
    BY <1>5 DEF Settles
  <2>2. /\ Outbox'
        /\ \A j, k \in DOMAIN pending' : pending'[j].id = pending'[k].id => j = k
        /\ Ids' \subseteq Ids \ {a.entry.id}
    <3>1. /\ pending[i] = a.entry /\ pending' = Without(i)
          /\ settled' = [settled EXCEPT ![a.entry.id] = a.outcome]
      BY <2>1
    <3> QED
      BY <1>3, <3>1, SettledOutbox
  <2>3. timeouts' \in 0 .. Delays
    BY <2>1, ClientAssumption DEF Inv, Numbers
  <2>4. a.entry.id \in Commands /\ armed \ {a.entry.id} \subseteq armed
    BY <1>3 DEF Entries
  <2>5. phase = "resyncing" => "projection" \in armed \ {a.entry.id}
    BY <2>4, ClientAssumption DEF Inv, EveryWaitHasADeadline
  <2>6. CASE RequestProjection(known', armed \ {a.entry.id})
    BY <1>1, <1>3, <1>5, <2>1, <2>2, <2>3, <2>4, <2>5, <2>6, AsksAgain
  <2>7. CASE armed' = armed \ {a.entry.id} /\ UNCHANGED <<phase, requested, requestedAt, up>>
    <3>1. /\ known \in Nat /\ known <= revision /\ shown <= known /\ revision \in Nat
          /\ shown \in Nat \union {-1} /\ greetedAt <= revision
          /\ greetedAt \in Nat \union {-1} /\ requestedAt \in Nat \union {-1}
          /\ attempt \in 0 .. Delays
      BY DEF Inv, Numbers, Known
    <3>2. /\ known' \in Nat /\ shown' \in Nat \union {-1}
          /\ greetedAt' \in Nat \union {-1} /\ requestedAt' \in Nat \union {-1}
          /\ attempt' \in 0 .. Delays
          /\ shown' <= known' /\ known' <= revision /\ greetedAt' <= revision
      BY <1>3, <2>1, <2>7, <3>1 DEF Larger
    <3>3. requested' \in BOOLEAN /\ (requested' <=> phase' = "resyncing")
      <4>1. requested \in BOOLEAN /\ (requested <=> phase = "resyncing")
        BY <1>2 DEF Inv, Flags, Control
      <4> QED
        BY <2>7, <4>1
    <3>4. armed' \subseteq Commands \union {"handshake", "projection", "recovery"}
      BY <2>7 DEF Inv, Codes
    <3>5. EveryWaitHasADeadline'
      <4>1. phase' = phase /\ linked' = linked /\ requested' = requested
        BY <2>1, <2>7
      <4>2. phase = "open" => Ids' \subseteq armed'
        BY <2>2, <2>7 DEF Inv, EveryWaitHasADeadline
      <4>3. phase = "resyncing" => "projection" \in armed'
        BY <2>5, <2>7
      <4> QED
        BY <1>2, <1>5, <3>3, <4>1, <4>2, <4>3 DEF EveryWaitHasADeadline, Handshaking
    <3>6. /\ up' \in [Epochs -> Seq(Requests)] /\ up' = up
          /\ phase' \in {"resyncing", "open"} /\ greetedAt' = greetedAt
      BY <1>5, <2>1, <2>7 DEF Inv, Links
    <3> QED
      BY <1>1, <1>5, <2>1, <2>2, <2>3, <2>7, <3>2, <3>3, <3>4, <3>5, <3>6, TakesIt
  <2> QED
    BY <2>1, <2>6, <2>7
<1> QED
  BY <1>4, <1>5 DEF ReceiveAnswer

-----------------------------------------------------------------------------
LEMMA NextInv ==
  ASSUME Inv, [Next]_vars
  PROVE  Inv'
<1>1. CASE Next
  <2>1. CASE Connect \/ RecoveryFires
    BY <2>1, OpenStep
  <2>2. CASE Disconnect \/ HearsOfTheEnd \/ Deadline
    BY <2>2, LeaveStep DEF Deadline
  <2>3. CASE OnOpen \/ Cut \/ \E c \in Commands : Submit(c)
    BY <2>3, OnOpenStep, CutStep, SubmitStep
  <2>4. CASE Receive
    BY <2>4, ReadyStep, HelloStep, NoticeStep, SnapshotStep, AnswerStep, LeaveStep
    DEF Receive
  <2>5. CASE AcceptUpgrade \/ OthersCommand \/ LeaseExpires
    BY <2>5, AcceptUpgradeStep, OthersStep, ClosingStep
  <2>6. ASSUME NEW e \in Epochs, Serve(e) \/ NoticeClose(e) PROVE Inv'
    BY <2>6, ServedStep, ClosingStep
  <2> QED
    BY <1>1, <2>1, <2>2, <2>3, <2>4, <2>5, <2>6 DEF Next
<1>2. CASE UNCHANGED vars
  BY <1>2
  DEF vars, timers, views, outbox, links, object, Inv, Numbers, Flags, Codes,
      Outbox, Links, Object, Control, Budget, Begun, Silent, Known, Fresh,
      Expected, Reasons, EveryWaitHasADeadline, Ids
<1> QED
  BY <1>1, <1>2

LEMMA Always == Spec => []Inv
BY InitInv, NextInv, PTL DEF Spec

-----------------------------------------------------------------------------
(* On every connection the hello comes before the projection request and that
   before the commands, so that a command is taken only of a participant who
   is present. *)
AfterHello(s, i, greeted) == greeted \/ \E j \in 1 .. i - 1 : s[j].kind = "hello"
AfterProject(s, i, back) == back \/ \E j \in 1 .. i - 1 : s[j].kind = "project"

InOrder(s, greeted, back) ==
  \A i \in 1 .. Len(s) :
    /\ s[i].kind = "project" => AfterHello(s, i, greeted)
    /\ s[i].kind = "command" => AfterProject(s, i, back)

Back(e) == Authenticated(e) /\ present
Ordered == \A e \in Epochs : InOrder(up[e], Authenticated(e), Back(e))

(* What the client has said on its present connection. *)
Greeted == AfterHello(up[epoch], Len(up[epoch]) + 1, Authenticated(epoch))
Asking  == AfterProject(up[epoch], Len(up[epoch]) + 1, Back(epoch))
Spoken ==
  Live(epoch) =>
    /\ phase \in {"authenticating", "resyncing", "open"} => Greeted
    /\ phase \in {"resyncing", "open"} => Asking

LEMMA OrderPrefix ==
  ASSUME NEW s \in Seq(Requests), NEW a, NEW b, InOrder(s, a, b), NEW n \in 0 .. Len(s)
  PROVE  InOrder(SubSeq(s, 1, n), a, b)
<1>1. /\ Len(SubSeq(s, 1, n)) = n
      /\ \A i \in 1 .. n : SubSeq(s, 1, n)[i] = s[i]
  OBVIOUS
<1>2. n \in Nat /\ n <= Len(s) /\ Len(s) \in Nat
  OBVIOUS
<1> DEFINE t == SubSeq(s, 1, n)
<1> HIDE DEF t
<1>3. Len(t) = n /\ \A i \in 1 .. n : t[i] = s[i]
  BY <1>1 DEF t
<1>4. ASSUME NEW i \in 1 .. n
      PROVE  /\ t[i].kind = "project" => AfterHello(t, i, a)
             /\ t[i].kind = "command" => AfterProject(t, i, b)
  BY <1>2, <1>3 DEF InOrder, AfterHello, AfterProject
<1> QED
  BY <1>3, <1>4 DEF InOrder, t

LEMMA OrderWeaker ==
  ASSUME NEW s, NEW a, NEW b, InOrder(s, a, b), NEW c, NEW d, a => c, b => d
  PROVE  InOrder(s, c, d)
BY DEF InOrder, AfterHello, AfterProject

LEMMA OrderTail ==
  ASSUME NEW s \in Seq(Requests), s # <<>>, NEW a, NEW b, NEW c, NEW d,
         a => c, b => d,
         Head(s).kind = "hello" => c, Head(s).kind = "project" => d
  PROVE  /\ InOrder(s, a, b) => InOrder(Tail(s), c, d)
         /\ AfterHello(s, Len(s) + 1, a) => AfterHello(Tail(s), Len(Tail(s)) + 1, c)
         /\ AfterProject(s, Len(s) + 1, b) => AfterProject(Tail(s), Len(Tail(s)) + 1, d)
<1> DEFINE t == Tail(s)
<1>1. /\ Len(s) \in Nat /\ Len(s) >= 1 /\ Len(t) = Len(s) - 1
      /\ \A i \in 1 .. Len(s) - 1 : t[i] = s[i + 1]
      /\ Head(s) = s[1]
  OBVIOUS
<1> HIDE DEF t
<1>2. ASSUME NEW i \in 1 .. Len(s), AfterHello(s, i + 1, a)
      PROVE  AfterHello(t, i, c)
  <2>1. CASE a
    BY <2>1 DEF AfterHello
  <2>2. ASSUME NEW j \in 1 .. i, s[j].kind = "hello" PROVE AfterHello(t, i, c)
    <3>1. CASE j = 1
      BY <1>1, <2>2, <3>1 DEF AfterHello
    <3>2. CASE j # 1
      <4>1. j - 1 \in 1 .. i - 1 /\ j - 1 \in 1 .. Len(s) - 1
        BY <1>1, <3>2
      <4>2. t[j - 1] = s[j]
        BY <1>1, <4>1
      <4> QED
        BY <2>2, <4>1, <4>2 DEF AfterHello
    <3> QED
      BY <3>1, <3>2
  <2>3. (i + 1) - 1 = i
    BY <1>1
  <2> QED
    BY <1>2, <2>1, <2>2, <2>3 DEF AfterHello
<1>3. ASSUME NEW i \in 1 .. Len(s), AfterProject(s, i + 1, b)
      PROVE  AfterProject(t, i, d)
  <2>1. CASE b
    BY <2>1 DEF AfterProject
  <2>2. ASSUME NEW j \in 1 .. i, s[j].kind = "project" PROVE AfterProject(t, i, d)
    <3>1. CASE j = 1
      BY <1>1, <2>2, <3>1 DEF AfterProject
    <3>2. CASE j # 1
      <4>1. j - 1 \in 1 .. i - 1 /\ j - 1 \in 1 .. Len(s) - 1
        BY <1>1, <3>2
      <4>2. t[j - 1] = s[j]
        BY <1>1, <4>1
      <4> QED
        BY <2>2, <4>1, <4>2 DEF AfterProject
    <3> QED
      BY <3>1, <3>2
  <2>3. (i + 1) - 1 = i
    BY <1>1
  <2> QED
    BY <1>3, <2>1, <2>2, <2>3 DEF AfterProject
<1>4. ASSUME InOrder(s, a, b) PROVE InOrder(t, c, d)
  <2>1. ASSUME NEW i \in 1 .. Len(t)
        PROVE  /\ t[i].kind = "project" => AfterHello(t, i, c)
               /\ t[i].kind = "command" => AfterProject(t, i, d)
    <3>1. i \in 1 .. Len(s) /\ i + 1 \in 1 .. Len(s) /\ t[i] = s[i + 1]
      BY <1>1
    <3> QED
      BY <1>2, <1>3, <1>4, <3>1 DEF InOrder
  <2> QED
    BY <2>1 DEF InOrder
<1>5. Len(t) + 1 = Len(s) /\ Len(s) \in 1 .. Len(s)
  BY <1>1
<1> QED
  BY <1>2, <1>3, <1>4, <1>5 DEF t

LEMMA OrderMore ==
  ASSUME NEW s \in Seq(Requests), NEW t \in Seq(Requests), NEW a, NEW b,
         InOrder(s, a, b),
         \A i \in 1 .. Len(t) :
           /\ t[i].kind = "project" => AfterHello(s, Len(s) + 1, a)
           /\ t[i].kind = "command" => AfterProject(s, Len(s) + 1, b)
  PROVE  InOrder(s \o t, a, b)
<1> DEFINE u == s \o t
<1>1. /\ Len(s) \in Nat /\ Len(t) \in Nat /\ Len(u) = Len(s) + Len(t)
      /\ \A i \in 1 .. Len(s) : u[i] = s[i]
      /\ \A i \in 1 .. Len(t) : u[Len(s) + i] = t[i]
  BY ConcatProperties
<1> HIDE DEF u
<1>2. ASSUME NEW i \in 1 .. Len(s)
      PROVE  /\ u[i].kind = "project" => AfterHello(u, i, a)
             /\ u[i].kind = "command" => AfterProject(u, i, b)
  <2>1. u[i] = s[i] /\ \A j \in 1 .. i - 1 : u[j] = s[j]
    BY <1>1
  <2> QED
    BY <2>1 DEF InOrder, AfterHello, AfterProject
<1>3. ASSUME NEW i \in 1 .. Len(t)
      PROVE  /\ u[Len(s) + i].kind = "project" => AfterHello(u, Len(s) + i, a)
             /\ u[Len(s) + i].kind = "command" => AfterProject(u, Len(s) + i, b)
  <2>1. /\ u[Len(s) + i] = t[i]
        /\ \A j \in 1 .. (Len(s) + 1) - 1 :
             j \in 1 .. (Len(s) + i) - 1 /\ u[j] = s[j]
    BY <1>1
  <2> QED
    BY <2>1 DEF AfterHello, AfterProject
<1>4. ASSUME NEW i \in 1 .. Len(u), ~(i \in 1 .. Len(s))
      PROVE  \E k \in 1 .. Len(t) : i = Len(s) + k
  <2>1. i - Len(s) \in 1 .. Len(t) /\ i = Len(s) + (i - Len(s))
    BY <1>1, <1>4
  <2> QED
    BY <2>1
<1> QED
  BY <1>2, <1>3, <1>4 DEF InOrder, u

LEMMA SaidMore ==
  ASSUME NEW s \in Seq(Requests), NEW t \in Seq(Requests), NEW a
  PROVE  /\ AfterHello(s, Len(s) + 1, a) => AfterHello(s \o t, Len(s \o t) + 1, a)
         /\ AfterProject(s, Len(s) + 1, a) => AfterProject(s \o t, Len(s \o t) + 1, a)
         /\ (\E i \in 1 .. Len(t) : t[i].kind = "hello")
              => AfterHello(s \o t, Len(s \o t) + 1, a)
         /\ (\E i \in 1 .. Len(t) : t[i].kind = "project")
              => AfterProject(s \o t, Len(s \o t) + 1, a)
<1> DEFINE u == s \o t
<1>1. /\ Len(s) \in Nat /\ Len(t) \in Nat /\ Len(u) = Len(s) + Len(t)
      /\ \A i \in 1 .. Len(s) : u[i] = s[i]
      /\ \A i \in 1 .. Len(t) : u[Len(s) + i] = t[i]
  BY ConcatProperties
<1> HIDE DEF u
<1>2. /\ \A j \in 1 .. (Len(s) + 1) - 1 :
           j \in 1 .. (Len(u) + 1) - 1 /\ u[j] = s[j]
      /\ \A i \in 1 .. Len(t) :
           Len(s) + i \in 1 .. (Len(u) + 1) - 1 /\ u[Len(s) + i] = t[i]
  BY <1>1
<1>3. /\ AfterHello(s, Len(s) + 1, a) => AfterHello(u, Len(u) + 1, a)
      /\ AfterProject(s, Len(s) + 1, a) => AfterProject(u, Len(u) + 1, a)
  BY <1>2 DEF AfterHello, AfterProject
<1>4. ASSUME NEW i \in 1 .. Len(t)
      PROVE  /\ t[i].kind = "hello" => AfterHello(u, Len(u) + 1, a)
             /\ t[i].kind = "project" => AfterProject(u, Len(u) + 1, a)
  BY <1>2 DEF AfterHello, AfterProject
<1> QED
  BY <1>3, <1>4 DEF u

Spoke == Ordered /\ Spoken

LEMMA InitSpoke == Init => Spoke
BY ClientAssumption
DEF Init, Spoke, Ordered, Spoken, InOrder, Live, Epochs

(* What was said stays said while the connections and the object rest. *)
LEMMA QuietSpoke ==
  ASSUME Inv, Spoke, UNCHANGED <<up, session>>, present = present',
         \/ phase' \notin {"authenticating", "resyncing", "open"}
         \/ UNCHANGED <<phase, epoch, linked, cut>>
  PROVE  Spoke'
<1>1. Ordered'
  BY DEF Spoke, Ordered, InOrder, Authenticated, Back
<1>2. Spoken'
  <2>1. CASE phase' \notin {"authenticating", "resyncing", "open"}
    BY <2>1 DEF Spoken
  <2>2. CASE UNCHANGED <<phase, epoch, linked, cut>>
    <3>1. (Greeted <=> Greeted') /\ (Asking <=> Asking') /\ (Live(epoch)' <=> Live(epoch))
      BY <2>2
      DEF Greeted, Asking, AfterHello, AfterProject, Authenticated, Back, Live
    <3> QED
      BY <3>1 DEF Spoke, Spoken
  <2> QED
    BY <2>1, <2>2
<1> QED
  BY <1>1, <1>2 DEF Spoke

(* The client says more on its present connection. *)
LEMMA SaysSpoke ==
  ASSUME Inv, Spoke, linked, NEW frames \in Seq(Requests), up' = Sent(frames),
         UNCHANGED <<epoch, linked, cut, session, present>>,
         \A i \in 1 .. Len(frames) :
           /\ frames[i].kind = "project" => Greeted \/ epoch \in cut
           /\ frames[i].kind = "command" => Asking \/ epoch \in cut,
         phase' \in {"authenticating", "resyncing", "open"} =>
           Greeted \/ epoch \in cut \/ \E i \in 1 .. Len(frames) : frames[i].kind = "hello",
         phase' \in {"resyncing", "open"} =>
           Asking \/ epoch \in cut \/ \E i \in 1 .. Len(frames) : frames[i].kind = "project"
  PROVE  Spoke'
<1>1. epoch \in Epochs /\ up \in [Epochs -> Seq(Requests)]
  BY ClientAssumption DEF Inv, Links, Begun, Budget, Numbers, Epochs
<1>2. \A e \in Epochs : (Authenticated(e)' <=> Authenticated(e)) /\ (Back(e)' <=> Back(e))
  BY DEF Authenticated, Back
<1>3. CASE epoch \in cut
  <2>1. up' = up
    BY <1>3 DEF Sent
  <2>2. Ordered'
    BY <1>2, <2>1, OrderWeaker DEF Spoke, Ordered
  <2> QED
    BY <1>3, <2>2 DEF Spoke, Spoken, Live
<1>4. CASE epoch \notin cut
  <2> DEFINE s == up[epoch]
             a == Authenticated(epoch)
             b == Back(epoch)
  <2>1. up' = [up EXCEPT ![epoch] = s \o frames] /\ s \in Seq(Requests)
    BY <1>1, <1>4 DEF Sent
  <2>2. up'[epoch] = s \o frames /\ \A e \in Epochs : e # epoch => up'[e] = up[e]
    BY <1>1, <2>1
  <2>3. InOrder(s, a, b)
    BY <1>1 DEF Spoke, Ordered
  <2>4. /\ Greeted <=> AfterHello(s, Len(s) + 1, a)
        /\ Asking <=> AfterProject(s, Len(s) + 1, b)
    BY DEF Greeted, Asking
  <2>5. /\ Greeted' <=> AfterHello(s \o frames, Len(s \o frames) + 1, Authenticated(epoch)')
        /\ Asking' <=> AfterProject(s \o frames, Len(s \o frames) + 1, Back(epoch)')
    BY <2>2 DEF Greeted, Asking, Authenticated, Back
  <2> HIDE DEF s, a, b
  <2>6. InOrder(s \o frames, a, b)
    BY <1>4, <2>1, <2>3, <2>4, OrderMore
  <2>7. Ordered'
    <3>1. ASSUME NEW e \in Epochs
          PROVE  InOrder(up'[e], Authenticated(e)', Back(e)')
      <4>1. CASE e = epoch
        <5>1. InOrder(up'[e], a, b)
          BY <2>2, <2>6, <4>1
        <5>2. (a => Authenticated(e)') /\ (b => Back(e)')
          BY <1>2, <4>1 DEF a, b
        <5> QED
          BY <5>1, <5>2, OrderWeaker
      <4>2. CASE e # epoch
        BY <1>2, <2>2, <4>2, OrderWeaker DEF Spoke, Ordered
      <4> QED
        BY <4>1, <4>2
    <3> QED
      BY <3>1 DEF Ordered
  <2>8. /\ Greeted \/ (\E i \in 1 .. Len(frames) : frames[i].kind = "hello") => Greeted'
        /\ Asking \/ (\E i \in 1 .. Len(frames) : frames[i].kind = "project") => Asking'
    <3>1. (Authenticated(epoch)' <=> a) /\ (Back(epoch)' <=> b)
      BY <1>1, <1>2 DEF a, b
    <3>2. /\ Greeted \/ (\E i \in 1 .. Len(frames) : frames[i].kind = "hello")
               => AfterHello(s \o frames, Len(s \o frames) + 1, a)
          /\ Asking \/ (\E i \in 1 .. Len(frames) : frames[i].kind = "project")
               => AfterProject(s \o frames, Len(s \o frames) + 1, b)
      BY <2>1, <2>4, SaidMore
    <3> QED
      BY <2>5, <3>1, <3>2 DEF AfterHello, AfterProject
  <2>9. Spoken'
    BY <1>4, <2>8 DEF Spoken
  <2> QED
    BY <2>7, <2>9 DEF Spoke
<1> QED
  BY <1>3, <1>4

(* The object takes the first frame of a connection. *)
LEMMA TakenSpoke ==
  ASSUME Inv, Spoke, NEW e \in Epochs, up[e] # <<>>, up' = [up EXCEPT ![e] = Tail(@)],
         UNCHANGED <<phase, epoch, linked, cut>>,
         \A o \in Epochs : Authenticated(o) => Authenticated(o)',
         present => present',
         Head(up[e]).kind = "hello" => Authenticated(e)',
         Head(up[e]).kind = "project" => Back(e)'
  PROVE  Spoke'
<1>1. up \in [Epochs -> Seq(Requests)]
  BY DEF Inv, Links
<1>2. \A o \in Epochs : Back(o) => Back(o)'
  BY DEF Back
<1>3. up'[e] = Tail(up[e]) /\ \A o \in Epochs : o # e => up'[o] = up[o]
  BY <1>1
<1> DEFINE s == up[e]
           a == Authenticated(e)
           b == Back(e)
           c == Authenticated(e)'
           d == Back(e)'
<1>4. /\ s \in Seq(Requests) /\ s # <<>> /\ InOrder(s, a, b)
      /\ (a => c) /\ (b => d)
      /\ Head(s).kind = "hello" => c
      /\ Head(s).kind = "project" => d
      /\ up'[e] = Tail(s)
  BY <1>1, <1>2, <1>3 DEF Spoke, Ordered
<1>5. /\ InOrder(Tail(s), c, d)
      /\ AfterHello(s, Len(s) + 1, a) => AfterHello(Tail(s), Len(Tail(s)) + 1, c)
      /\ AfterProject(s, Len(s) + 1, b) => AfterProject(Tail(s), Len(Tail(s)) + 1, d)
  <2> HIDE DEF s, a, b, c, d
  <2> QED
    BY <1>4, OrderTail
<1>6. Ordered'
  <2>1. ASSUME NEW o \in Epochs
        PROVE  InOrder(up'[o], Authenticated(o)', Back(o)')
    <3>1. CASE o = e
      BY <1>4, <1>5, <3>1
    <3>2. CASE o # e
      BY <1>2, <1>3, <3>2, OrderWeaker DEF Spoke, Ordered
    <3> QED
      BY <3>1, <3>2
  <2> QED
    BY <2>1 DEF Ordered
<1>7. Spoken'
  <2>1. ASSUME Live(epoch) PROVE epoch \in Epochs
    BY <2>1, ClientAssumption DEF Live, Inv, Begun, Budget, Numbers, Epochs
  <2>2. ASSUME Live(epoch) PROVE (Greeted => Greeted') /\ (Asking => Asking')
    <3>1. CASE epoch = e
      BY <1>5, <3>1, <1>4 DEF Greeted, Asking
    <3>2. CASE epoch # e
      <4>1. up'[epoch] = up[epoch]
        BY <1>3, <2>1, <2>2, <3>2
      <4> QED
        BY <1>2, <2>1, <2>2, <4>1 DEF Greeted, Asking, AfterHello, AfterProject
    <3> QED
      BY <3>1, <3>2
  <2> QED
    BY <2>2 DEF Spoke, Spoken, Live
<1> QED
  BY <1>6, <1>7 DEF Spoke

-----------------------------------------------------------------------------
LEMMA ConnectionSpoke ==
  ASSUME Inv, Spoke,
         \/ Connect \/ Disconnect \/ RecoveryFires \/ HearsOfTheEnd \/ OnOpen
         \/ Deadline \/ ReceiveError
  PROVE  Spoke'
<1>1. /\ UNCHANGED <<up, session>> /\ present' = present
      /\ phase' \in {"connecting", "recovering", "failed", "closed", "awaiting-ready"}
  BY DEF Connect, Disconnect, RecoveryFires, HearsOfTheEnd, OnOpen, Deadline,
         HandshakeExpires, ProjectionExpires, CommandExpires, ReceiveError,
         OpenSocket, BeginRecovery, FailTerminal, object, links
<1> QED
  BY <1>1, QuietSpoke

LEMMA CutSpoke ==
  ASSUME Inv, Spoke, Cut
  PROVE  Spoke'
<1>1. epoch \in Epochs /\ up \in [Epochs -> Seq(Requests)]
  BY ClientAssumption DEF Cut, Inv, Links, Begun, Budget, Numbers, Epochs
<1>2. /\ UNCHANGED <<epoch, linked, session, present>> /\ cut' = cut \union {epoch}
  BY DEF Cut, object
<1>3. PICK n \in 0 .. Len(up[epoch]) : up' = [up EXCEPT ![epoch] = SubSeq(@, 1, n)]
  BY DEF Cut
<1>4. up'[epoch] = SubSeq(up[epoch], 1, n) /\ \A e \in Epochs : e # epoch => up'[e] = up[e]
  BY <1>1, <1>3
<1>5. ASSUME NEW e \in Epochs
      PROVE  InOrder(up'[e], Authenticated(e)', Back(e)')
  <2> DEFINE a == Authenticated(e)
             b == Back(e)
  <2>1. (a => Authenticated(e)') /\ (b => Back(e)')
    BY <1>2 DEF Authenticated, Back
  <2>2. up[e] \in Seq(Requests) /\ InOrder(up[e], a, b)
    BY <1>1 DEF Spoke, Ordered
  <2> HIDE DEF a, b
  <2>3. InOrder(up'[e], a, b)
    BY <1>4, <2>2, OrderPrefix
  <2> QED
    BY <2>1, <2>3, OrderWeaker
<1>6. Spoken'
  BY <1>2 DEF Spoken, Live
<1> QED
  BY <1>5, <1>6 DEF Spoke, Ordered

LEMMA SubmitSpoke ==
  ASSUME Inv, Spoke, NEW c \in Commands, Submit(c)
  PROVE  Spoke'
<1> DEFINE entry == [id |-> c, base |-> shown]
           frames == <<Command(entry)>>
<1>1. /\ UNCHANGED <<phase, epoch, linked, cut, session, present>> /\ shown >= 0
      /\ IF phase = "open" THEN up' = Sent(frames) ELSE up' = up
  BY DEF Submit, object
<1>2. CASE phase = "open"
  <2>1. frames \in Seq(Requests)
    <3>1. entry \in Entries
      BY <1>1 DEF Entries, Inv, Numbers
    <3> QED
      BY <3>1 DEF Command, Requests
  <2>2. Len(frames) = 1 /\ frames[1].kind = "command"
    BY DEF Command
  <2>3. linked
    BY <1>2 DEF Inv, EveryWaitHasADeadline
  <2>4. (Greeted /\ Asking) \/ epoch \in cut
    BY <1>2, <2>3 DEF Spoke, Spoken, Live
  <2>5. up' = Sent(frames)
    BY <1>1, <1>2
  <2>6. \A i \in 1 .. Len(frames) : frames[i].kind = "command"
    BY <2>2
  <2> HIDE DEF frames
  <2> QED
    BY <1>1, <2>1, <2>3, <2>4, <2>5, <2>6, SaysSpoke
<1>3. CASE phase # "open"
  BY <1>1, <1>3, QuietSpoke
<1> QED
  BY <1>2, <1>3

(* The client asks for a projection, if it has not. *)
LEMMA AsksSpoke ==
  ASSUME Inv, Spoke, linked, phase \in {"authenticating", "resyncing", "open"},
         NEW r, NEW deadlines, RequestProjection(r, deadlines),
         UNCHANGED <<epoch, linked, cut, session, present>>
  PROVE  Spoke'
<1>1. CASE requested
  <2>1. up' = up /\ phase' = phase
    BY <1>1 DEF RequestProjection
  <2> QED
    BY <2>1, QuietSpoke
<1>2. CASE ~requested
  <2> DEFINE frames == <<[kind |-> "project"]>>
  <2>1. frames \in Seq(Requests) /\ Len(frames) = 1 /\ frames[1].kind = "project"
    BY DEF Requests
  <2>2. up' = Sent(frames)
    BY <1>2 DEF RequestProjection
  <2>3. Greeted \/ epoch \in cut
    BY DEF Spoke, Spoken, Live
  <2>4. /\ \A i \in 1 .. Len(frames) : frames[i].kind = "project"
        /\ \E i \in 1 .. Len(frames) : frames[i].kind = "project"
    BY <2>1
  <2> HIDE DEF frames
  <2> QED
    BY <2>1, <2>2, <2>3, <2>4, SaysSpoke
<1> QED
  BY <1>1, <1>2

LEMMA DroppedSpoke ==
  ASSUME Inv, Spoke, Dropped, UNCHANGED <<epoch, cut, mishaps, object>>
  PROVE  Spoke'
BY QuietSpoke DEF Dropped, object

LEMMA ReceiveSpoke ==
  ASSUME Inv, Spoke, Receive
  PROVE  Spoke'
<1>1. CASE ReceiveReady
  <2>1. linked /\ UNCHANGED <<epoch, cut, mishaps, object>>
    BY <1>1 DEF ReceiveReady, Arrives
  <2>2. CASE Dropped
    BY <2>1, <2>2, DroppedSpoke
  <2>3. CASE phase' = "failed" /\ up' = up
    BY <2>1, <2>3, QuietSpoke DEF object
  <2>4. CASE /\ phase' = "authenticating" /\ linked' = linked
             /\ up' = Sent(<<[kind |-> "hello"]>>)
    <3> DEFINE frames == <<[kind |-> "hello"]>>
    <3>1. frames \in Seq(Requests) /\ Len(frames) = 1 /\ frames[1].kind = "hello"
      BY DEF Requests
    <3>2. /\ \A i \in 1 .. Len(frames) : frames[i].kind = "hello"
          /\ \E i \in 1 .. Len(frames) : frames[i].kind = "hello"
      BY <3>1
    <3>3. up' = Sent(frames)
      BY <2>4
    <3> HIDE DEF frames
    <3> QED
      BY <2>1, <2>4, <3>1, <3>2, <3>3, SaysSpoke DEF object
  <2> QED
    BY <1>1, <2>2, <2>3, <2>4 DEF ReceiveReady, FailTerminal
<1>2. CASE ReceiveHello
  <2>1. linked /\ UNCHANGED <<epoch, cut, mishaps, object>>
    BY <1>2 DEF ReceiveHello, Arrives
  <2>2. CASE Dropped
    BY <2>1, <2>2, DroppedSpoke
  <2>3. CASE phase' = "failed" /\ up' = up
    BY <2>1, <2>3, QuietSpoke DEF object
  <2>4. CASE /\ phase = "authenticating" /\ linked' = linked
             /\ RequestProjection(known', armed \ {"handshake"})
    BY <2>1, <2>4, AsksSpoke DEF object
  <2> QED
    BY <1>2, <2>2, <2>3, <2>4 DEF ReceiveHello, FailTerminal
<1>3. CASE ReceiveNotice
  <2>1. linked /\ UNCHANGED <<epoch, cut, mishaps, object>>
    BY <1>3 DEF ReceiveNotice, Arrives
  <2>2. CASE Dropped
    BY <2>1, <2>2, DroppedSpoke
  <2>4. CASE /\ phase \in {"open", "resyncing"} /\ linked' = linked
             /\ RequestProjection(known', armed)
    BY <2>1, <2>4, AsksSpoke DEF object
  <2> QED
    BY <1>3, <2>2, <2>4 DEF ReceiveNotice
<1>4. CASE ReceiveSnapshot
  <2>1. linked /\ UNCHANGED <<epoch, cut, mishaps, object>>
    BY <1>4 DEF ReceiveSnapshot, Arrives
  <2>2. CASE Dropped
    BY <2>1, <2>2, DroppedSpoke
  <2>3. CASE phase' = "failed" /\ up' = up
    BY <2>1, <2>3, QuietSpoke DEF object
  <2>4. CASE /\ phase = "resyncing" /\ phase' = phase /\ linked' = linked
             /\ up' = Sent(<<[kind |-> "project"]>>)
    <3> DEFINE frames == <<[kind |-> "project"]>>
    <3>1. frames \in Seq(Requests) /\ Len(frames) = 1 /\ frames[1].kind = "project"
      BY DEF Requests
    <3>2. \A i \in 1 .. Len(frames) : frames[i].kind = "project"
      BY <3>1
    <3>3. up' = Sent(frames) /\ ((Greeted /\ Asking) \/ epoch \in cut)
      BY <2>1, <2>4 DEF Spoke, Spoken, Live
    <3> HIDE DEF frames
    <3> QED
      BY <2>1, <2>4, <3>1, <3>2, <3>3, SaysSpoke DEF object
  <2>5. CASE /\ phase = "resyncing" /\ phase' = "open" /\ linked' = linked
             /\ up' = Sent(Replayed)
    <3>1. Replayed \in Seq(Requests)
      BY ReplayTyped DEF Inv
    <3>2. \A i \in 1 .. Len(Replayed) : Replayed[i].kind = "command"
      BY DEF Replayed, Command, Inv, Outbox
    <3>3. (Greeted /\ Asking) \/ epoch \in cut
      BY <2>1, <2>5 DEF Spoke, Spoken, Live
    <3> QED
      BY <2>1, <2>5, <3>1, <3>2, <3>3, SaysSpoke DEF object
  <2> QED
    BY <1>4, <2>2, <2>3, <2>4, <2>5 DEF ReceiveSnapshot, FailTerminal
<1>5. CASE ReceiveAnswer
  <2>1. linked /\ UNCHANGED <<epoch, cut, mishaps, object>>
    BY <1>5 DEF ReceiveAnswer, Arrives
  <2>2. CASE Dropped
    BY <2>1, <2>2, DroppedSpoke
  <2>3. CASE phase \in {"open", "resyncing"} /\ Settles(Head(down))
    <3>1. linked' = linked
      BY <2>3 DEF Settles
    <3>2. \/ RequestProjection(known', armed \ {Head(down).entry.id})
          \/ UNCHANGED <<phase, up>>
      BY <2>3 DEF Settles
    <3>3. CASE RequestProjection(known', armed \ {Head(down).entry.id})
      BY <2>1, <2>3, <3>1, <3>3, AsksSpoke DEF object
    <3>4. CASE UNCHANGED <<phase, up>>
      BY <2>1, <3>1, <3>4, QuietSpoke DEF object
    <3> QED
      BY <3>2, <3>3, <3>4
  <2> QED
    BY <1>5, <2>2, <2>3 DEF ReceiveAnswer
<1>6. CASE ReceiveError
  BY <1>6, ConnectionSpoke
<1> QED
  BY <1>1, <1>2, <1>3, <1>4, <1>5, <1>6 DEF Receive

LEMMA ServeSpoke ==
  ASSUME Inv, Spoke, NEW e \in Epochs, Serve(e)
  PROVE  Spoke'
<1>0. session \in [Epochs -> {"none", "open", "authenticated", "closed"}]
  BY DEF Inv, Object
<1>1. ASSUME NEW kind, Takes(e, kind)
      PROVE  /\ up[e] # <<>> /\ up' = [up EXCEPT ![e] = Tail(@)]
             /\ UNCHANGED <<phase, epoch, linked, cut>>
             /\ Head(up[e]).kind = kind
  BY <1>1 DEF Takes, client, browser
<1>2. CASE ServeHello(e)
  <2>1. Takes(e, "hello") /\ present' = present
    BY <1>2 DEF ServeHello
  <2>2. Authenticated(e)' /\ \A o \in Epochs : Authenticated(o) => Authenticated(o)'
    BY <1>0, <1>2 DEF ServeHello, Authenticated
  <2> QED
    BY <1>1, <2>1, <2>2, TakenSpoke
<1>3. CASE ServeProjection(e)
  <2>1. Takes(e, "project") /\ present' = TRUE /\ session' = session
    BY <1>3 DEF ServeProjection
  <2>2. \A o \in Epochs : Authenticated(o) => Authenticated(o)'
    BY <2>1 DEF Authenticated
  <2>3. Authenticated(e)
    <3>1. /\ InOrder(up[e], Authenticated(e), Back(e)) /\ up[e] \in Seq(Requests)
          /\ up[e] # <<>> /\ Head(up[e]).kind = "project"
      BY <1>1, <2>1 DEF Spoke, Ordered, Inv, Links
    <3>2. 1 \in 1 .. Len(up[e]) /\ up[e][1].kind = "project" /\ 1 .. 1 - 1 = {}
      BY <3>1
    <3> QED
      BY <3>1, <3>2 DEF InOrder, AfterHello
  <2>4. Back(e)' /\ (present => present')
    BY <2>1, <2>2, <2>3 DEF Back
  <2> QED
    BY <1>1, <2>1, <2>2, <2>4, TakenSpoke
<1>4. CASE RefuseControl(e) \/ AnswerCommand(e) \/ AcceptCommand(e)
  <2>1. Takes(e, "command") /\ present' = present /\ session' = session
    BY <1>4 DEF RefuseControl, AnswerCommand, AcceptCommand, object
  <2>2. \A o \in Epochs : Authenticated(o) => Authenticated(o)'
    BY <2>1 DEF Authenticated
  <2> QED
    BY <1>1, <2>1, <2>2, TakenSpoke
<1> QED
  BY <1>2, <1>3, <1>4 DEF Serve

LEMMA CloseSpoke ==
  ASSUME Inv, Spoke, NEW e \in Epochs, NoticeClose(e)
  PROVE  Spoke'
<1>1. /\ Authenticated(e) /\ ~Live(e) /\ up[e] = <<>>
      /\ session' = [session EXCEPT ![e] = "closed"]
      /\ present' = (present /\ Elsewhere(e))
      /\ UNCHANGED <<phase, epoch, linked, cut, up>>
  BY DEF NoticeClose, client, browser
<1>2. ASSUME NEW o \in Epochs, o # e
      PROVE  /\ Authenticated(o) => Authenticated(o)'
             /\ Back(o) => Back(o)'
  <2>1. session'[o] = session[o]
    BY <1>1, <1>2 DEF Inv, Object
  <2>2. Authenticated(o) => Elsewhere(e)
    BY <1>2 DEF Elsewhere
  <2> QED
    BY <1>1, <2>1, <2>2 DEF Authenticated, Back
<1>3. ASSUME NEW o \in Epochs
      PROVE  InOrder(up'[o], Authenticated(o)', Back(o)')
  <2>1. CASE o = e
    BY <1>1, <2>1 DEF InOrder
  <2>2. CASE o # e
    BY <1>1, <1>2, <2>2, OrderWeaker DEF Spoke, Ordered
  <2> QED
    BY <2>1, <2>2
<1>4. ASSUME Live(epoch) PROVE epoch \in Epochs /\ epoch # e
  BY <1>1, <1>4, ClientAssumption DEF Live, Inv, Begun, Budget, Numbers, Epochs
<1>5. ASSUME Live(epoch)
      PROVE  (Greeted => Greeted') /\ (Asking => Asking')
  <2>1. (Authenticated(epoch) => Authenticated(epoch)') /\ (Back(epoch) => Back(epoch)')
    <3>1. PICK o \in Epochs : o = epoch /\ o # e /\ o = epoch'
      BY <1>1, <1>4, <1>5
    <3> QED
      BY <1>2, <3>1 DEF Authenticated, Back
  <2> QED
    BY <1>1, <2>1 DEF Greeted, Asking, AfterHello, AfterProject
<1>6. Spoken'
  BY <1>1, <1>5 DEF Spoke, Spoken, Live
<1> QED
  BY <1>3, <1>6 DEF Spoke, Ordered

LEMMA ObjectSpoke ==
  ASSUME Inv, Spoke, AcceptUpgrade \/ OthersCommand \/ LeaseExpires
  PROVE  Spoke'
<1>1. CASE OthersCommand \/ LeaseExpires
  BY <1>1, QuietSpoke DEF OthersCommand, LeaseExpires, client, browser
<1>2. CASE AcceptUpgrade
  <2>1. /\ phase' = "connecting" /\ session[epoch] = "none"
        /\ session' = [session EXCEPT ![epoch] = "open"]
        /\ UNCHANGED <<up, present>>
    BY <1>2 DEF AcceptUpgrade, client, browser
  <2>2. \A e \in Epochs : Authenticated(e)' <=> Authenticated(e)
    BY <2>1 DEF Authenticated, Inv, Object
  <2>3. \A e \in Epochs : Back(e)' <=> Back(e)
    BY <2>1, <2>2 DEF Back
  <2>4. Ordered'
    BY <2>1, <2>2, <2>3, OrderWeaker DEF Spoke, Ordered
  <2> QED
    BY <2>1, <2>4 DEF Spoke, Spoken
<1> QED
  BY <1>1, <1>2

LEMMA NextSpoke ==
  ASSUME Inv, Spoke, [Next]_vars
  PROVE  Spoke'
<1>1. CASE Connect \/ Disconnect \/ RecoveryFires \/ HearsOfTheEnd \/ OnOpen \/ Deadline
  BY <1>1, ConnectionSpoke
<1>2. CASE Receive \/ Cut \/ \E c \in Commands : Submit(c)
  BY <1>2, ReceiveSpoke, CutSpoke, SubmitSpoke
<1>3. CASE AcceptUpgrade \/ OthersCommand \/ LeaseExpires
  BY <1>3, ObjectSpoke
<1>4. CASE \E e \in Epochs : Serve(e) \/ NoticeClose(e)
  BY <1>4, ServeSpoke, CloseSpoke
<1>5. CASE UNCHANGED vars
  BY <1>5, QuietSpoke DEF vars, links, object
<1> QED
  BY <1>1, <1>2, <1>3, <1>4, <1>5 DEF Next

-----------------------------------------------------------------------------
(* What became of a command.  Each is in the outbox once until it is settled,
   and its frames, over whatever connections, are copies of that entry. *)
Waiting(entry) == \E i \in DOMAIN pending : pending[i] = entry
Dead(entry) == entry.id \in Unplayable \/ entry.base < revision

Decent(entry) ==
  /\ entry.base <= revision
  /\ Waiting(entry) \/ settled[entry.id] # "no"
  /\ settled[entry.id] = "rejected" => Dead(entry)
Sound(r) == r.kind = "command" => Decent(r.entry)

Told(entry, outcome) ==
  /\ Waiting(entry) \/ settled[entry.id] # "no"
  /\ outcome = "accepted" => receipts[entry.id] # 0
  /\ outcome = "rejected" => receipts[entry.id] = 0 /\ Dead(entry)
Truthful(f) == f.kind = "answer" => Told(f.entry, f.outcome)

Unsettled ==
  \A i \in DOMAIN pending :
    settled[pending[i].id] = "no" /\ pending[i].base <= revision
Copies  == up \in [Epochs -> Seq({r \in Requests : Sound(r)})]
Answers == down \in Seq({f \in Frames : Truthful(f)})

Settling == Unsettled /\ Copies /\ Answers /\ SettledAsDecided

LEMMA InitSettling == Init => Settling
<1> SUFFICES ASSUME Init PROVE Settling
  OBVIOUS
<1>1. Unsettled /\ Answers /\ SettledAsDecided
  BY DEF Init, Unsettled, Answers, SettledAsDecided
<1>2. Copies
  BY DEF Init, Copies
<1> QED
  BY <1>1, <1>2 DEF Settling

LEMMA PendingEntries ==
  ASSUME Inv, NEW i \in DOMAIN pending
  PROVE  pending[i] \in Entries /\ pending[i].id \in Commands /\ pending[i].base \in Nat
<1>1. pending[i] \in Entries
  BY DEF Inv, Outbox
<1> QED
  BY <1>1 DEF Entries

(* What is sound stays so while the outbox and the receipts rest. *)
LEMMA SettlingRests ==
  ASSUME Inv, Settling, UNCHANGED outbox, receipts' = receipts,
         revision' \in Nat, revision <= revision',
         up' \in [Epochs -> Seq({r \in Requests : Sound(r)})],
         down' \in Seq({f \in Frames : Truthful(f)})
  PROVE  Settling'
<1>1. revision \in Nat /\ pending' = pending /\ settled' = settled
  BY DEF Inv, Numbers, outbox
<1>2. ASSUME NEW entry \in Entries
      PROVE  /\ Waiting(entry)' <=> Waiting(entry)
             /\ Dead(entry) => Dead(entry)'
             /\ Decent(entry) => Decent(entry)'
             /\ \A outcome : Told(entry, outcome) => Told(entry, outcome)'
  <2>1. entry.base \in Nat
    BY DEF Entries
  <2>2. Waiting(entry)' <=> Waiting(entry)
    BY <1>1 DEF Waiting
  <2>3. Dead(entry) => Dead(entry)'
    BY <1>1, <2>1 DEF Dead
  <2> QED
    BY <1>1, <2>1, <2>2, <2>3 DEF Decent, Told
<1>3. {r \in Requests : Sound(r)} \subseteq {r \in Requests : Sound(r)'}
  BY <1>2 DEF Sound, Requests
<1>4. {f \in Frames : Truthful(f)} \subseteq {f \in Frames : Truthful(f)'}
  BY <1>2 DEF Truthful, Frames
<1>5. Copies'
  <2>1. \A e \in Epochs : up'[e] \in Seq({r \in Requests : Sound(r)'})
    BY <1>3, SeqMono
  <2> QED
    BY <2>1 DEF Copies
<1>6. Answers'
  BY <1>4, SeqMono DEF Answers
<1>7. Unsettled'
  BY <1>1, PendingEntries DEF Settling, Unsettled
<1>8. SettledAsDecided'
  BY <1>1 DEF Settling, SettledAsDecided
<1> QED
  BY <1>5, <1>6, <1>7, <1>8 DEF Settling

LEMMA SentSound ==
  ASSUME NEW S, up \in [Epochs -> Seq(S)], NEW frames \in Seq(S)
  PROVE  Sent(frames) \in [Epochs -> Seq(S)]
BY SeqConcat DEF Sent

LEMMA PlainSound ==
  /\ <<[kind |-> "hello"]>> \in Seq({r \in Requests : Sound(r)})
  /\ <<[kind |-> "project"]>> \in Seq({r \in Requests : Sound(r)})
<1>1. [kind |-> "hello"] \in Requests /\ [kind |-> "project"] \in Requests
  BY DEF Requests
<1>2. Sound([kind |-> "hello"]) /\ Sound([kind |-> "project"])
  BY DEF Sound
<1> QED
  BY <1>1, <1>2

LEMMA ReplaySound ==
  ASSUME Inv, Settling
  PROVE  Replayed \in Seq({r \in Requests : Sound(r)})
<1>1. pending \in Seq(Entries)
  BY DEF Inv, Outbox
<1>2. ASSUME NEW i \in 1 .. Len(pending)
      PROVE  Command(pending[i]) \in {r \in Requests : Sound(r)}
  <2>1. pending[i] \in Entries
    BY <1>1
  <2>2. settled[pending[i].id] = "no" /\ pending[i].base <= revision /\ Waiting(pending[i])
    BY <1>1 DEF Settling, Unsettled, Waiting
  <2>3. Decent(pending[i])
    BY <2>2 DEF Decent
  <2> QED
    BY <2>1, <2>3 DEF Command, Requests, Sound
<1>3. DOMAIN pending = 1 .. Len(pending) /\ Len(pending) \in Nat
  BY <1>1
<1> QED
  BY <1>2, <1>3 DEF Replayed

LEMMA ConnectionSettling ==
  ASSUME Inv, Settling,
         \/ Connect \/ Disconnect \/ RecoveryFires \/ HearsOfTheEnd \/ OnOpen
         \/ Deadline \/ ReceiveError \/ Cut
  PROVE  Settling'
<1>1. UNCHANGED outbox /\ UNCHANGED <<receipts, revision>> /\ down' \in {down, <<>>}
  BY DEF Connect, Disconnect, RecoveryFires, HearsOfTheEnd, OnOpen, Deadline,
         HandshakeExpires, ProjectionExpires, CommandExpires, ReceiveError,
         OpenSocket, BeginRecovery, FailTerminal, object, links, Cut
<1>2. down' \in Seq({f \in Frames : Truthful(f)})
  <2> DEFINE T == {f \in Frames : Truthful(f)}
  <2>1. down \in Seq(T)
    BY DEF Settling, Answers
  <2> HIDE DEF T
  <2>2. <<>> \in Seq(T)
    OBVIOUS
  <2> QED
    BY <1>1, <2>1, <2>2 DEF T
<1>3. up' \in [Epochs -> Seq({r \in Requests : Sound(r)})]
  <2> DEFINE S == {r \in Requests : Sound(r)}
  <2>1. up \in [Epochs -> Seq(S)]
    BY DEF Settling, Copies
  <2> HIDE DEF S
  <2>2. CASE Cut
    <3>1. epoch \in Epochs
      BY <2>2, ClientAssumption DEF Cut, Inv, Begun, Budget, Numbers, Epochs
    <3>2. PICK n \in 0 .. Len(up[epoch]) : up' = [up EXCEPT ![epoch] = SubSeq(@, 1, n)]
      BY <2>2 DEF Cut
    <3>3. SubSeq(up[epoch], 1, n) \in Seq(S)
      BY <2>1, <3>1, SeqPrefix
    <3> QED
      BY <2>1, <3>2, <3>3 DEF S
  <2>3. CASE ~Cut
    <3>1. up' = up
      BY <2>3
      DEF Connect, Disconnect, RecoveryFires, HearsOfTheEnd, OnOpen, Deadline,
          HandshakeExpires, ProjectionExpires, CommandExpires, ReceiveError, links
    <3> QED
      BY <2>1, <3>1 DEF S
  <2> QED
    BY <2>2, <2>3
<1>4. revision' \in Nat /\ revision <= revision'
  BY <1>1 DEF Inv, Numbers
<1> QED
  BY <1>1, <1>2, <1>3, <1>4, SettlingRests

LEMMA SubmitSettling ==
  ASSUME Inv, Settling, NEW c \in Commands, Submit(c)
  PROVE  Settling'
<1> DEFINE entry == [id |-> c, base |-> shown]
<1>1. /\ shown >= 0 /\ c \notin Ids /\ settled[c] = "no"
      /\ pending' = Append(pending, entry)
      /\ UNCHANGED <<settled, down, revision, receipts>>
      /\ up' \in {up, Sent(<<Command(entry)>>)}
  BY DEF Submit, object
<1>2. entry \in Entries /\ entry.id = c /\ entry.base \in Nat /\ entry.base <= revision
  BY <1>1 DEF Entries, Inv, Numbers, Known
<1> HIDE DEF entry
<1>3. /\ pending \in Seq(Entries) /\ revision \in Nat
      /\ DOMAIN pending = 1 .. Len(pending) /\ Len(pending) \in Nat
      /\ DOMAIN pending' = 1 .. Len(pending) + 1
      /\ pending'[Len(pending) + 1] = entry
      /\ \A i \in DOMAIN pending : pending'[i] = pending[i]
  BY <1>1, <1>2 DEF Inv, Outbox, Numbers
<1>4. ASSUME NEW e \in Entries
      PROVE  /\ Waiting(e) \/ e = entry => Waiting(e)'
             /\ Dead(e)' <=> Dead(e)
             /\ Decent(e) \/ e = entry => Decent(e)'
             /\ \A outcome : Told(e, outcome) => Told(e, outcome)'
  <2>1. Waiting(e) \/ e = entry => Waiting(e)'
    BY <1>3 DEF Waiting
  <2>2. Dead(e)' <=> Dead(e)
    BY <1>1 DEF Dead
  <2> QED
    BY <1>1, <1>2, <2>1, <2>2 DEF Decent, Told
<1> DEFINE S == {r \in Requests : Sound(r)'}
<1>5. up \in [Epochs -> Seq(S)]
  <2>1. {r \in Requests : Sound(r)} \subseteq S
    BY <1>4 DEF Sound, Requests
  <2>2. \A e \in Epochs : up[e] \in Seq(S)
    <3> HIDE DEF S
    <3> QED
      BY <2>1, SeqMono DEF Settling, Copies
  <2> QED
    BY <2>2 DEF Settling, Copies
<1>6. <<Command(entry)>> \in Seq(S)
  <2>1. Command(entry) \in Requests
    BY <1>2 DEF Command, Requests
  <2>2. Command(entry).kind = "command" /\ Command(entry).entry = entry
    BY DEF Command
  <2>3. Command(entry) \in S
    <3>1. ASSUME NEW r \in Requests, r = Command(entry) PROVE Sound(r)'
      BY <1>2, <1>4, <2>2, <3>1 DEF Sound
    <3> QED
      BY <2>1, <3>1
  <2> HIDE DEF S
  <2> QED
    BY <2>3, SeqAppend
<1>7. Copies'
  <2> HIDE DEF S
  <2>1. Sent(<<Command(entry)>>) \in [Epochs -> Seq(S)]
    BY <1>5, <1>6, SentSound
  <2> QED
    BY <1>1, <1>5, <2>1 DEF Copies, S
<1>8. Answers'
  <2>1. {f \in Frames : Truthful(f)} \subseteq {f \in Frames : Truthful(f)'}
    BY <1>4 DEF Truthful, Frames
  <2> QED
    BY <1>1, <2>1, SeqMono DEF Settling, Answers
<1>9. Unsettled'
  BY <1>1, <1>2, <1>3 DEF Settling, Unsettled
<1>10. SettledAsDecided'
  BY <1>1 DEF Settling, SettledAsDecided
<1> QED
  BY <1>7, <1>8, <1>9, <1>10 DEF Settling

LEMMA AskedSound ==
  ASSUME Inv, Settling, NEW r, NEW deadlines, RequestProjection(r, deadlines)
  PROVE  up' \in [Epochs -> Seq({q \in Requests : Sound(q)})]
<1> DEFINE S == {q \in Requests : Sound(q)}
<1>1. up \in [Epochs -> Seq(S)] /\ <<[kind |-> "project"]>> \in Seq(S)
  BY PlainSound DEF Settling, Copies
<1>2. up' \in {up, Sent(<<[kind |-> "project"]>>)}
  BY DEF RequestProjection
<1> HIDE DEF S
<1>3. Sent(<<[kind |-> "project"]>>) \in [Epochs -> Seq(S)]
  BY <1>1, SentSound
<1> QED
  BY <1>1, <1>2, <1>3 DEF S

(* A command that is settled leaves the outbox; what is said of the others
   does not change. *)
LEMMA SettlesSettling ==
  ASSUME Inv, Settling, Arrives("answer"), Settles(Head(down)), Consumed,
         UNCHANGED object
  PROVE  Settling'
<1> DEFINE T == {f \in Frames : Truthful(f)}
<1>1. Head(down) \in T /\ Tail(down) \in Seq(T)
  <2>1. down \in Seq(T) /\ down # <<>>
    BY DEF Settling, Answers, Arrives
  <2> HIDE DEF T
  <2> QED
    BY <2>1, SeqTail
<1>2. PICK a \in Frames : a = Head(down) /\ Truthful(a) /\ a.kind = "answer"
  BY <1>1 DEF Arrives
<1>3. PICK entry \in Entries, outcome \in {"accepted", "rejected"} :
        a.entry = entry /\ a.outcome = outcome /\ Told(entry, outcome)
  BY <1>2 DEF Frames, Truthful
<1>4. PICK i \in DOMAIN pending :
        /\ pending[i] = entry /\ pending' = Without(i)
        /\ settled' = [settled EXCEPT ![entry.id] = outcome]
        /\ \/ RequestProjection(known', armed \ {entry.id})
           \/ up' = up
  BY <1>2, <1>3 DEF Settles
<1>5. /\ pending \in Seq(Entries) /\ entry.id \in Commands
      /\ settled \in [Commands -> {"no", "accepted", "rejected"}]
      /\ UNCHANGED <<revision, receipts>>
  BY <1>3 DEF Inv, Outbox, Entries, object
<1>6. settled[entry.id] = "no"
  BY <1>4 DEF Settling, Unsettled
<1>7. \A j \in DOMAIN pending : pending[j].id = entry.id => pending[j] = entry
  BY <1>4 DEF Inv, Control
<1>8. /\ Len(pending') = Len(pending) - 1 /\ pending' \in Seq(Entries)
      /\ \A k \in DOMAIN pending' : pending'[k] = pending[IF k < i THEN k ELSE k + 1]
  <2>1. pending' = SubSeq(pending, 1, i - 1) \o SubSeq(pending, i + 1, Len(pending))
    BY <1>4 DEF Without
  <2>2. pending \in Seq(Entries)
    BY <1>5
  <2> QED
    BY ZenonT(60), <2>1, <2>2, SeqWithout
<1>9. /\ DOMAIN pending = 1 .. Len(pending) /\ Len(pending) \in Nat
      /\ DOMAIN pending' = 1 .. Len(pending) - 1 /\ i \in 1 .. Len(pending)
  BY <1>5, <1>8
<1>10. ASSUME NEW e \in Entries, Waiting(e), e # entry PROVE Waiting(e)'
  <2>1. PICK j \in DOMAIN pending : pending[j] = e
    BY <1>10 DEF Waiting
  <2>2. j # i
    BY <1>4, <1>10, <2>1
  <2>3. CASE j < i
    <3>1. j \in DOMAIN pending' /\ pending'[j] = pending[j]
      BY <1>8, <1>9, <2>1, <2>3
    <3> QED
      BY <2>1, <3>1 DEF Waiting
  <2>4. CASE j > i
    <3>1. j - 1 \in DOMAIN pending' /\ ~(j - 1 < i) /\ (j - 1) + 1 = j
      BY <1>9, <2>1, <2>4
    <3>2. pending'[j - 1] = pending[j]
      BY <1>8, <3>1
    <3> QED
      BY <2>1, <3>1, <3>2 DEF Waiting
  <2> QED
    BY <1>9, <2>1, <2>2, <2>3, <2>4
<1>11. ASSUME NEW e \in Entries
       PROVE  /\ Waiting(e) \/ settled[e.id] # "no" =>
                   Waiting(e)' \/ settled'[e.id] # "no"
              /\ Dead(e)' <=> Dead(e)
  <2>1. e.id \in Commands
    BY DEF Entries
  <2>2. CASE e.id = entry.id
    BY <1>4, <1>5, <2>2 DEF Dead
  <2>3. CASE e.id # entry.id
    BY <1>4, <1>5, <1>10, <2>1, <2>3 DEF Dead
  <2> QED
    BY <2>2, <2>3
<1>12. ASSUME NEW e \in Entries, Decent(e) PROVE Decent(e)'
  <2>1. e.id \in Commands
    BY DEF Entries
  <2>2. settled'[e.id] = "rejected" => Dead(e)
    <3>1. CASE e.id # entry.id
      BY <1>4, <1>5, <1>12, <2>1, <3>1 DEF Decent
    <3>2. CASE e.id = entry.id
      <4>1. Waiting(e)
        BY <1>6, <1>12, <3>2 DEF Decent
      <4>2. e = entry
        BY <1>7, <3>2, <4>1 DEF Waiting
      <4>3. settled'[e.id] = outcome
        BY <1>4, <1>5, <3>2
      <4> QED
        BY <1>3, <4>2, <4>3 DEF Told
    <3> QED
      BY <3>1, <3>2
  <2> QED
    BY <1>5, <1>11, <1>12, <2>2 DEF Decent
<1>13. ASSUME NEW e \in Entries, NEW o, Told(e, o) PROVE Told(e, o)'
  BY <1>5, <1>11, <1>13 DEF Told
<1>14. Copies'
  <2>1. {r \in Requests : Sound(r)} \subseteq {r \in Requests : Sound(r)'}
    BY <1>12 DEF Sound, Requests
  <2>2. up' \in [Epochs -> Seq({r \in Requests : Sound(r)})]
    BY <1>4, AskedSound DEF Settling, Copies
  <2>3. \A e \in Epochs : up'[e] \in Seq({r \in Requests : Sound(r)'})
    BY <2>1, <2>2, SeqMono
  <2> QED
    BY <2>2, <2>3 DEF Copies
<1>15. Answers'
  <2>1. T \subseteq {f \in Frames : Truthful(f)'}
    BY <1>13 DEF Truthful, Frames
  <2> HIDE DEF T
  <2> QED
    BY <1>1, <2>1, SeqMono DEF Answers, Consumed
<1>16. Unsettled'
  <2>1. ASSUME NEW k \in DOMAIN pending'
        PROVE  settled'[pending'[k].id] = "no" /\ pending'[k].base <= revision
    <3>1. PICK j \in DOMAIN pending : j # i /\ pending'[k] = pending[j]
      BY <1>8, <1>9
    <3>2. pending[j].id # entry.id
      BY <1>4, <3>1 DEF Inv, Control
    <3>3. settled[pending[j].id] = "no" /\ pending[j].base <= revision
      BY DEF Settling, Unsettled
    <3>4. pending[j].id \in Commands
      BY PendingEntries
    <3> QED
      BY <1>4, <1>5, <3>1, <3>2, <3>3, <3>4
  <2> QED
    BY <1>5, <2>1 DEF Unsettled
<1>17. SettledAsDecided'
  <2>1. ASSUME NEW c \in Commands
        PROVE  /\ settled'[c] = "accepted" => receipts[c] # 0
               /\ settled'[c] = "rejected" => receipts[c] = 0
    <3>1. CASE c = entry.id
      BY <1>3, <1>4, <1>5, <3>1 DEF Told
    <3>2. CASE c # entry.id
      BY <1>4, <1>5, <3>2 DEF Settling, SettledAsDecided
    <3> QED
      BY <3>1, <3>2
  <2> QED
    BY <1>5, <2>1 DEF SettledAsDecided
<1> QED
  BY <1>14, <1>15, <1>16, <1>17 DEF Settling

LEMMA ReceiveSettling ==
  ASSUME Inv, Settling, Receive
  PROVE  Settling'
<1> DEFINE S == {r \in Requests : Sound(r)}
           T == {f \in Frames : Truthful(f)}
<1>1. CASE ReceiveError
  BY <1>1, ConnectionSettling
<1>2. CASE ReceiveAnswer /\ ~Dropped
  BY <1>2, SettlesSettling DEF ReceiveAnswer
<1>3. CASE ~ReceiveError /\ ~(ReceiveAnswer /\ ~Dropped)
  <2>1. UNCHANGED object
    BY <1>3 DEF Receive, ReceiveReady, ReceiveHello, ReceiveNotice,
                ReceiveSnapshot, ReceiveAnswer
  <2>2. UNCHANGED outbox
    BY <1>3 DEF Receive, ReceiveReady, ReceiveHello, ReceiveNotice,
                ReceiveSnapshot, ReceiveAnswer, Dropped
  <2>3. down # <<>> /\ down' \in {Tail(down), <<>>}
    BY <1>3 DEF Receive, ReceiveReady, ReceiveHello, ReceiveNotice, Arrives,
                ReceiveSnapshot, ReceiveAnswer, Dropped, Consumed, FailTerminal
  <2>4. down' \in Seq(T)
    <3>1. down \in Seq(T)
      BY DEF Settling, Answers
    <3> HIDE DEF T
    <3>2. Tail(down) \in Seq(T) /\ <<>> \in Seq(T)
      BY <2>3, <3>1, SeqTail
    <3> QED
      BY <2>3, <3>2
  <2>5. \/ up' = up
        \/ up' = Sent(<<[kind |-> "hello"]>>)
        \/ up' = Sent(<<[kind |-> "project"]>>)
        \/ up' = Sent(Replayed)
    <3>1. CASE ReceiveHello \/ ReceiveNotice
      BY <3>1 DEF ReceiveHello, ReceiveNotice, Dropped, FailTerminal, RequestProjection
    <3>2. CASE ReceiveReady \/ ReceiveSnapshot \/ Dropped
      BY <3>2 DEF ReceiveReady, ReceiveSnapshot, Dropped, FailTerminal
    <3> QED
      BY <1>3, <3>1, <3>2 DEF Receive
  <2>6. up' \in [Epochs -> Seq(S)]
    <3>1. /\ up \in [Epochs -> Seq(S)]
          /\ <<[kind |-> "hello"]>> \in Seq(S)
          /\ <<[kind |-> "project"]>> \in Seq(S)
          /\ Replayed \in Seq(S)
      BY PlainSound, ReplaySound DEF Settling, Copies
    <3> HIDE DEF S
    <3> QED
      BY <2>5, <3>1, SentSound
  <2>7. /\ receipts' = receipts /\ revision' \in Nat /\ revision <= revision'
    BY <2>1 DEF object, Inv, Numbers
  <2> QED
    BY <2>2, <2>4, <2>6, <2>7, SettlingRests
<1> QED
  BY <1>1, <1>2, <1>3

-----------------------------------------------------------------------------
(* What the object takes off a connection is sound. *)
LEMMA TakenSound ==
  ASSUME Inv, Settling, NEW e \in Epochs, NEW kind, Takes(e, kind)
  PROVE  /\ up' \in [Epochs -> Seq({r \in Requests : Sound(r)})]
         /\ kind = "command" => \E entry \in Entries :
              Head(up[e]).entry = entry /\ Decent(entry)
<1> DEFINE S == {r \in Requests : Sound(r)}
<1>1. /\ up \in [Epochs -> Seq(S)] /\ up[e] # <<>> /\ Head(up[e]).kind = kind
      /\ up' = [up EXCEPT ![e] = Tail(@)]
  BY DEF Settling, Copies, Takes
<1>2. Head(up[e]) \in S /\ Tail(up[e]) \in Seq(S)
  <2> HIDE DEF S
  <2> QED
    BY <1>1, SeqTail
<1>3. up' \in [Epochs -> Seq(S)]
  <2> HIDE DEF S
  <2> QED
    BY <1>1, <1>2
<1>4. ASSUME kind = "command"
      PROVE  \E entry \in Entries : Head(up[e]).entry = entry /\ Decent(entry)
  <2>1. PICK r \in Requests : r = Head(up[e]) /\ Sound(r)
    BY <1>2
  <2>2. r.entry \in Entries /\ Decent(r.entry)
    BY <1>1, <1>4, <2>1 DEF Requests, Sound
  <2> QED
    BY <2>1, <2>2
<1> QED
  BY <1>3, <1>4

(* Frames that answer no command are truthful. *)
LEMMA SaysTruly ==
  ASSUME Inv, NEW S, down \in Seq(S), NEW e, NEW frames \in Seq(S),
         NEW more \in Seq(S)
  PROVE  /\ SentTo(e, frames) \in Seq(S)
         /\ SentTo(e, frames) \o more \in Seq(S)
         /\ down \o more \in Seq(S)
<1>1. SentTo(e, frames) \in Seq(S)
  BY SeqConcat DEF SentTo
<1> QED
  BY <1>1, SeqConcat

LEMMA OtherFrames ==
  ASSUME Inv, NEW r \in Nat
  PROVE  /\ Announced(r) \in Seq({f \in Frames : f.kind # "answer"})
         /\ <<Notice(r)>> \in Seq({f \in Frames : f.kind # "answer"})
         /\ <<[kind |-> "ready", revision |-> r]>> \in Seq({f \in Frames : f.kind # "answer"})
         /\ <<[kind |-> "hello", revision |-> r]>> \in Seq({f \in Frames : f.kind # "answer"})
         /\ <<[kind |-> "snapshot", revision |-> r]>> \in Seq({f \in Frames : f.kind # "answer"})
         /\ <<[kind |-> "error", code |-> "CONTROLLER_LEASE_REQUIRED"]>>
              \in Seq({f \in Frames : f.kind # "answer"})
<1> DEFINE S == {f \in Frames : f.kind # "answer"}
<1>1. Notice(r) \in S
  BY DEF Notice, Frames
<1>2. [kind |-> "ready", revision |-> r] \in S
  BY DEF Frames
<1>3. [kind |-> "hello", revision |-> r] \in S
  BY DEF Frames
<1>4. [kind |-> "snapshot", revision |-> r] \in S
  BY DEF Frames
<1>5. [kind |-> "error", code |-> "CONTROLLER_LEASE_REQUIRED"] \in S
  BY DEF Frames
<1> HIDE DEF S
<1>6. Announced(r) \in Seq(S)
  <2>1. <<Notice(r)>> \in Seq(S)
    BY <1>1
  <2>2. Announced(r) = <<>> \/ Announced(r) = <<Notice(r)>>
    BY DEF Announced
  <2>3. <<>> \in Seq(S)
    OBVIOUS
  <2> QED
    BY <2>1, <2>2, <2>3
<1> QED
  BY <1>1, <1>2, <1>3, <1>4, <1>5, <1>6 DEF S

LEMMA OthersAreTrue ==
  ASSUME NEW s \in Seq({f \in Frames : f.kind # "answer"})
  PROVE  /\ s \in Seq({f \in Frames : Truthful(f)})
         /\ s \in Seq({f \in Frames : Truthful(f)'})
<1>1. /\ {f \in Frames : f.kind # "answer"} \subseteq {f \in Frames : Truthful(f)}
      /\ {f \in Frames : f.kind # "answer"} \subseteq {f \in Frames : Truthful(f)'}
  BY DEF Truthful
<1> QED
  BY <1>1, SeqMono

(* The object serves or announces without deciding on a command. *)
LEMMA PlainSettling ==
  ASSUME Inv, Settling, UNCHANGED outbox, receipts' = receipts,
         revision' \in Nat, revision <= revision',
         up' \in [Epochs -> Seq({r \in Requests : Sound(r)})],
         NEW e, NEW frames \in Seq({f \in Frames : Truthful(f)}),
         \/ down' = SentTo(e, frames)
         \/ down' = down \o frames
         \/ down' = down
  PROVE  Settling'
<1> DEFINE T == {f \in Frames : Truthful(f)}
<1>1. down \in Seq(T) /\ frames \in Seq(T)
  BY DEF Settling, Answers
<1>2. down' \in Seq(T)
  <2> HIDE DEF T
  <2>1. SentTo(e, frames) \in Seq(T) /\ down \o frames \in Seq(T)
    BY <1>1, SeqConcat DEF SentTo
  <2> QED
    BY <1>1, <2>1
<1> QED
  BY <1>2, SettlingRests

LEMMA ObjectSettling ==
  ASSUME Inv, Settling,
         \/ AcceptUpgrade \/ OthersCommand \/ LeaseExpires
         \/ \E e \in Epochs : NoticeClose(e)
  PROVE  Settling'
<1>1. /\ UNCHANGED outbox /\ UNCHANGED <<up, receipts>>
      /\ revision' \in {revision, revision + 1}
      /\ \/ down' = down
         \/ down' = down \o <<[kind |-> "ready", revision |-> revision]>>
         \/ down' = down \o Announced(revision')
  <2>1. CASE AcceptUpgrade
    <3>1. down' = Append(down, [kind |-> "ready", revision |-> revision])
      BY <2>1 DEF AcceptUpgrade
    <3>2. down' = down \o <<[kind |-> "ready", revision |-> revision]>>
      BY <3>1 DEF Inv, Links
    <3> QED
      BY <2>1, <3>2 DEF AcceptUpgrade, client, browser
  <2>2. CASE OthersCommand
    BY <2>2 DEF OthersCommand, browser
  <2>3. CASE LeaseExpires
    BY <2>3 DEF LeaseExpires, client, browser
  <2>4. CASE \E e \in Epochs : NoticeClose(e)
    BY <2>4 DEF NoticeClose, client, browser
  <2> QED
    BY <2>1, <2>2, <2>3, <2>4
<1>2. /\ revision \in Nat /\ revision' \in Nat /\ revision <= revision'
      /\ up' \in [Epochs -> Seq({r \in Requests : Sound(r)})]
  BY <1>1 DEF Settling, Copies, Inv, Numbers
<1>3. PICK frames \in Seq({f \in Frames : f.kind # "answer"}) :
        down' = down \o frames \/ down' = down
  <2>1. <<[kind |-> "ready", revision |-> revision]>> \in Seq({f \in Frames : f.kind # "answer"})
    BY <1>2, OtherFrames
  <2>2. Announced(revision') \in Seq({f \in Frames : f.kind # "answer"})
    BY <1>2, OtherFrames
  <2> QED
    BY <1>1, <2>1, <2>2
<1>4. frames \in Seq({f \in Frames : Truthful(f)})
  BY OthersAreTrue
<1> QED
  BY <1>1, <1>2, <1>3, <1>4, PlainSettling

LEMMA AnswerSettling ==
  ASSUME Inv, Spoke, Settling, NEW e \in Epochs, AnswerCommand(e)
  PROVE  Settling'
<1>1. Takes(e, "command") /\ UNCHANGED <<revision, receipts, present>>
  BY DEF AnswerCommand
<1>2. PICK entry \in Entries : Head(up[e]).entry = entry /\ Decent(entry)
  BY <1>1, TakenSound
<1>3. present
  <2>1. /\ InOrder(up[e], Authenticated(e), Back(e)) /\ up[e] \in Seq(Requests)
        /\ up[e] # <<>> /\ Head(up[e]).kind = "command"
    BY <1>1 DEF Spoke, Ordered, Inv, Links, Takes
  <2>2. 1 \in 1 .. Len(up[e]) /\ up[e][1].kind = "command" /\ 1 .. 1 - 1 = {}
    BY <2>1
  <2> QED
    BY <2>1, <2>2 DEF InOrder, AfterProject, Back
<1>4. /\ entry.base \in Nat /\ revision \in Nat /\ entry.id \in Commands
  BY DEF Entries, Inv, Numbers
<1> DEFINE outcome == IF receipts[entry.id] # 0 THEN "accepted" ELSE "rejected"
           stale == receipts[entry.id] = 0 /\ entry.base # revision
<1>5. ~Accepts(entry) /\ down' = SentTo(e, Answer(entry, outcome, revision, stale))
  <2>1. LET stored == receipts[entry.id] # 0
            st == present /\ ~stored /\ entry.base # revision
        IN  /\ ~Accepts(entry)
            /\ down' = SentTo(e, Answer(entry,
                         IF present /\ stored THEN "accepted" ELSE "rejected",
                         revision, st))
    BY <1>2 DEF AnswerCommand
  <2>2. /\ (IF present /\ receipts[entry.id] # 0 THEN "accepted" ELSE "rejected") = outcome
        /\ (present /\ ~(receipts[entry.id] # 0) /\ entry.base # revision) = stale
    BY <1>3
  <2> QED
    BY <2>1, <2>2
<1>6. Told(entry, outcome)
  <2>1. outcome = "rejected" => Dead(entry)
    BY <1>2, <1>3, <1>4, <1>5 DEF Accepts, Dead, Decent
  <2> QED
    BY <1>2, <2>1 DEF Told, Decent
<1>7. Answer(entry, outcome, revision, stale) \in Seq({f \in Frames : Truthful(f)})
  <2>1. outcome \in {"accepted", "rejected"}
    OBVIOUS
  <2>2. stale \in BOOLEAN
    OBVIOUS
  <2> HIDE DEF outcome, stale
  <2> DEFINE a == [kind |-> "answer", entry |-> entry, outcome |-> outcome,
                   current |-> revision, resync |-> stale]
  <2>3. a \in Frames
    BY <1>4, <2>1, <2>2 DEF Frames
  <2>4. Truthful(a)
    BY <1>6 DEF Truthful
  <2>5. a \in {f \in Frames : Truthful(f)}
    BY <2>3, <2>4
  <2> HIDE DEF a
  <2>6. <<a>> \in Seq({f \in Frames : Truthful(f)})
    BY <2>5
  <2> QED
    BY <2>6 DEF Answer, a
<1>8. /\ UNCHANGED outbox /\ receipts' = receipts /\ revision' \in Nat
      /\ revision <= revision'
      /\ up' \in [Epochs -> Seq({r \in Requests : Sound(r)})]
  <2>1. UNCHANGED outbox
    BY <1>1 DEF Takes, client, browser
  <2>2. up' \in [Epochs -> Seq({r \in Requests : Sound(r)})]
    BY <1>1, TakenSound
  <2>3. receipts' = receipts /\ revision' \in Nat /\ revision <= revision'
    BY <1>1, <1>4
  <2> QED
    BY <2>1, <2>2, <2>3
<1> HIDE DEF outcome, stale
<1> QED
  BY <1>5, <1>7, <1>8, PlainSettling

(* A command that is accepted was not settled, nor was its refusal sent: what
   is refused is behind the revision for good. *)
LEMMA AcceptSettling ==
  ASSUME Inv, Settling, NEW e \in Epochs, AcceptCommand(e)
  PROVE  Settling'
<1> DEFINE S == {r \in Requests : Sound(r)'}
           T == {f \in Frames : Truthful(f)'}
<1>1. Takes(e, "command") /\ revision' = revision + 1
  BY DEF AcceptCommand
<1>2. PICK entry \in Entries : Head(up[e]).entry = entry /\ Decent(entry)
  BY <1>1, TakenSound
<1>3. /\ Accepts(entry)
      /\ receipts' = [receipts EXCEPT ![entry.id] = revision + 1]
      /\ down' = SentTo(e, Answer(entry, "accepted", revision', FALSE))
                   \o Announced(revision')
      /\ pending' = pending /\ settled' = settled
  BY <1>1, <1>2 DEF AcceptCommand, Takes, client, browser, outbox
<1>4. /\ entry.base = revision /\ entry.id \notin Unplayable /\ receipts[entry.id] = 0
      /\ entry.id \in Commands /\ revision \in Nat
      /\ receipts \in [Commands -> 0 .. revision]
      /\ settled \in [Commands -> {"no", "accepted", "rejected"}]
  BY <1>3 DEF Accepts, Entries, Inv, Numbers, Object, Outbox
<1>5. ~Dead(entry)
  BY <1>4 DEF Dead
<1>6. settled[entry.id] = "no" /\ Waiting(entry)
  <2>1. settled[entry.id] # "rejected"
    BY <1>2, <1>5 DEF Decent
  <2>2. settled[entry.id] # "accepted"
    BY <1>4 DEF Settling, SettledAsDecided
  <2>3. settled[entry.id] = "no"
    BY <1>4, <2>1, <2>2
  <2> QED
    BY <1>2, <2>3 DEF Decent
<1>7. ASSUME NEW x \in Entries
      PROVE  /\ Waiting(x)' <=> Waiting(x)
             /\ Dead(x) => Dead(x)'
             /\ Decent(x) => Decent(x)'
  <2>1. x.base \in Nat
    BY DEF Entries
  <2>2. Waiting(x)' <=> Waiting(x)
    BY <1>3 DEF Waiting
  <2>3. Dead(x) => Dead(x)'
    BY <1>1, <1>4, <2>1 DEF Dead
  <2> QED
    BY <1>1, <1>3, <1>4, <2>1, <2>2, <2>3 DEF Decent
<1>8. ASSUME NEW x \in Entries, NEW o, Told(x, o)
      PROVE  Told(x, o)'
  <2>1. x.id \in Commands
    BY DEF Entries
  <2>2. Waiting(x)' \/ settled'[x.id] # "no"
    BY <1>3, <1>7, <1>8 DEF Told
  <2>3. CASE x.id # entry.id
    <3>1. receipts'[x.id] = receipts[x.id]
      BY <1>3, <1>4, <2>1, <2>3
    <3> QED
      BY <1>7, <1>8, <2>2, <3>1 DEF Told
  <2>4. CASE x.id = entry.id
    <3>1. Waiting(x)
      BY <1>6, <1>8, <2>4 DEF Told
    <3>2. x = entry
      BY <1>6, <2>4, <3>1 DEF Waiting, Inv, Control
    <3>3. o # "rejected"
      BY <1>5, <1>8, <3>2 DEF Told
    <3>4. receipts'[x.id] # 0
      BY <1>3, <1>4, <2>4
    <3> QED
      BY <2>2, <3>3, <3>4 DEF Told
  <2> QED
    BY <2>3, <2>4
<1>9. Copies'
  <2>1. {r \in Requests : Sound(r)} \subseteq S
    BY <1>7 DEF Sound, Requests
  <2>2. up' \in [Epochs -> Seq({r \in Requests : Sound(r)})]
    BY <1>1, TakenSound
  <2> HIDE DEF S
  <2>3. \A d \in Epochs : up'[d] \in Seq(S)
    BY <2>1, <2>2, SeqMono
  <2> QED
    BY <2>2, <2>3 DEF Copies, S
<1>10. Answers'
  <2>1. {f \in Frames : Truthful(f)} \subseteq T
    BY <1>8 DEF Truthful, Frames
  <2>2. down \in Seq(T)
    BY <2>1, SeqMono DEF Settling, Answers
  <2>3. Announced(revision') \in Seq(T)
    <3>1. revision' \in Nat
      BY <1>1, <1>4
    <3>2. Announced(revision') \in Seq({f \in Frames : f.kind # "answer"})
      BY <3>1, OtherFrames
    <3> QED
      BY <3>2, OthersAreTrue
  <2>4. Answer(entry, "accepted", revision', FALSE) \in Seq(T)
    <3> DEFINE a == [kind |-> "answer", entry |-> entry, outcome |-> "accepted",
                     current |-> revision', resync |-> FALSE]
    <3>1. a \in Frames
      BY <1>1, <1>4 DEF Frames
    <3>2. Told(entry, "accepted")'
      BY <1>3, <1>4, <1>6, <1>7 DEF Told
    <3>3. ASSUME NEW f \in Frames, f = a PROVE Truthful(f)'
      BY <3>2, <3>3 DEF Truthful
    <3>4. a \in T
      BY <3>1, <3>3
    <3> HIDE DEF a, T
    <3>5. <<a>> \in Seq(T)
      BY <3>4
    <3> QED
      BY <3>5 DEF Answer, a
  <2> HIDE DEF T
  <2>5. down' \in Seq(T)
    BY <1>3, <2>2, <2>3, <2>4, SaysTruly
  <2> QED
    BY <2>5 DEF Answers, T
<1>11. Unsettled'
  BY <1>1, <1>3, <1>4, PendingEntries DEF Settling, Unsettled
<1>12. SettledAsDecided'
  <2>1. ASSUME NEW c \in Commands
        PROVE  /\ settled[c] = "accepted" => receipts'[c] # 0
               /\ settled[c] = "rejected" => receipts'[c] = 0
    BY <1>3, <1>4, <1>6 DEF Settling, SettledAsDecided
  <2> QED
    BY <1>3, <2>1 DEF SettledAsDecided
<1> QED
  BY <1>9, <1>10, <1>11, <1>12 DEF Settling

LEMMA ServeSettling ==
  ASSUME Inv, Spoke, Settling, NEW e \in Epochs, Serve(e)
  PROVE  Settling'
<1>0. revision \in Nat
  BY DEF Inv, Numbers
<1>1. CASE AnswerCommand(e) \/ AcceptCommand(e)
  BY <1>1, AnswerSettling, AcceptSettling
<1>2. CASE ServeHello(e) \/ ServeProjection(e) \/ RefuseControl(e)
  <2> DEFINE P == {f \in Frames : f.kind # "answer"}
  <2>1. /\ UNCHANGED outbox /\ UNCHANGED <<receipts, revision>>
        /\ \E kind : Takes(e, kind)
    BY <1>2 DEF ServeHello, ServeProjection, RefuseControl, object, Takes, client, browser
  <2>2. PICK frames \in Seq(P) : down' = SentTo(e, frames)
    <3>1. CASE ServeHello(e)
      BY <1>0, <3>1, OtherFrames DEF ServeHello
    <3>2. CASE ServeProjection(e)
      <4> DEFINE n == IF present THEN <<>> ELSE <<Notice(revision)>>
                 s == <<[kind |-> "snapshot", revision |-> revision]>>
      <4>1. <<Notice(revision)>> \in Seq(P) /\ s \in Seq(P)
        BY <1>0, OtherFrames
      <4>2. n \in Seq(P)
        <5> HIDE DEF P
        <5>1. CASE present
          BY <5>1
        <5>2. CASE ~present
          BY <4>1, <5>2
        <5> QED
          BY <5>1, <5>2
      <4>3. down' = SentTo(e, n \o s)
        BY <3>2 DEF ServeProjection
      <4>4. n \o s \in Seq(P)
        <5> HIDE DEF n, s, P
        <5> QED
          BY <4>1, <4>2, SeqConcat
      <4> HIDE DEF n, s, P
      <4> QED
        BY <4>3, <4>4
    <3>3. CASE RefuseControl(e)
      BY <1>0, <3>3, OtherFrames DEF RefuseControl
    <3> QED
      BY <1>2, <3>1, <3>2, <3>3
  <2>3. frames \in Seq({f \in Frames : Truthful(f)})
    BY OthersAreTrue
  <2>4. /\ up' \in [Epochs -> Seq({r \in Requests : Sound(r)})]
        /\ revision' \in Nat /\ revision <= revision'
    BY <1>0, <2>1, TakenSound
  <2> HIDE DEF P
  <2> QED
    BY <2>1, <2>2, <2>3, <2>4, PlainSettling
<1> QED
  BY <1>1, <1>2 DEF Serve

LEMMA NextSettling ==
  ASSUME Inv, Spoke, Settling, [Next]_vars
  PROVE  Settling'
<1>1. CASE \/ Connect \/ Disconnect \/ RecoveryFires \/ HearsOfTheEnd \/ OnOpen
           \/ Deadline \/ Cut
  BY <1>1, ConnectionSettling
<1>2. CASE Receive \/ \E c \in Commands : Submit(c)
  BY <1>2, ReceiveSettling, SubmitSettling
<1>3. CASE AcceptUpgrade \/ OthersCommand \/ LeaseExpires
  BY <1>3, ObjectSettling
<1>4. CASE \E e \in Epochs : Serve(e) \/ NoticeClose(e)
  BY <1>4, ServeSettling, ObjectSettling
<1>5. CASE UNCHANGED vars
  <2>1. /\ UNCHANGED outbox /\ UNCHANGED <<receipts, revision, up, down>>
    BY <1>5 DEF vars, links, object
  <2>2. /\ revision' \in Nat /\ revision <= revision'
        /\ up' \in [Epochs -> Seq({r \in Requests : Sound(r)})]
        /\ down' \in Seq({f \in Frames : Truthful(f)})
    BY <2>1 DEF Inv, Numbers, Settling, Copies, Answers
  <2> QED
    BY <2>1, <2>2, SettlingRests
<1> QED
  BY <1>1, <1>2, <1>3, <1>4, <1>5 DEF Next

LEMMA AlwaysSettling == Spec => [](Inv /\ Spoke /\ Settling)
BY InitInv, InitSpoke, InitSettling, NextInv, NextSpoke, NextSettling, PTL DEF Spec

-----------------------------------------------------------------------------
(* Over a connection that lives, what the client waits for is under way.  The
   order of the frames does not matter for that: a notice that is taken before
   the projection it overtakes leaves the client knowing of its revision. *)
Elems(s) == {s[i] : i \in DOMAIN s}
InFlight == Elems(down)
Said == Elems(up[epoch])

Latest == Notice(revision) \in InFlight
Answered(entry) == \E f \in InFlight : f.kind = "answer" /\ f.entry = entry

Reachable ==
  \/ phase = "connecting" /\ session[epoch] = "none"
  \/ /\ phase \in {"connecting", "awaiting-ready"} /\ session[epoch] = "open"
     /\ \E f \in InFlight : f.kind = "ready"
Awaited ==
  \/ /\ phase = "authenticating"
     /\ (\E q \in Said : q.kind = "hello") \/ (\E f \in InFlight : f.kind = "hello")
  \/ /\ phase = "resyncing"
     /\ \/ \E q \in Said : q.kind = "project"
        \/ \E f \in InFlight : f.kind = "snapshot" /\ requestedAt <= f.revision
UpToDate ==
  /\ phase = "open"
  /\ \A i \in DOMAIN pending : Command(pending[i]) \in Said \/ Answered(pending[i])
  /\ shown < revision => Latest
Refused == \E f \in InFlight : f.kind = "error"

Promised ==
  /\ phase = "open" => Authenticated(epoch)
  /\ \A f \in InFlight : f.kind = "snapshot" =>
       /\ Authenticated(epoch) /\ phase \in {"resyncing", "open"}
       /\ f.revision < revision => Latest \/ known = revision
  /\ phase = "authenticating" => \A q \in Said : q.kind = "hello"
  /\ Reachable \/ Awaited \/ UpToDate \/ Refused

Served == requestedAt <= known /\ (Live(epoch) => Promised)

LEMMA ElemsTail ==
  ASSUME NEW S, NEW s \in Seq(S), s # <<>>
  PROVE  Elems(s) = {Head(s)} \union Elems(Tail(s))
<1> DEFINE t == Tail(s)
<1>1. /\ Len(s) \in Nat /\ Len(s) >= 1 /\ DOMAIN s = 1 .. Len(s)
      /\ DOMAIN t = 1 .. Len(s) - 1
      /\ \A i \in 1 .. Len(s) - 1 : t[i] = s[i + 1]
      /\ Head(s) = s[1]
  OBVIOUS
<1> HIDE DEF t
<1>2. ASSUME NEW i \in DOMAIN s PROVE s[i] \in {Head(s)} \union Elems(t)
  <2>1. CASE i = 1
    BY <1>1, <2>1
  <2>2. CASE i # 1
    <3>1. i - 1 \in DOMAIN t /\ t[i - 1] = s[i]
      BY <1>1, <2>2
    <3> QED
      BY <3>1 DEF Elems
  <2> QED
    BY <2>1, <2>2
<1>3. ASSUME NEW i \in DOMAIN t PROVE t[i] \in Elems(s)
  <2>1. i + 1 \in DOMAIN s /\ t[i] = s[i + 1]
    BY <1>1
  <2> QED
    BY <2>1 DEF Elems
<1>4. Head(s) \in Elems(s)
  <2>1. 1 \in DOMAIN s
    BY <1>1
  <2> QED
    BY <1>1, <2>1 DEF Elems
<1> QED
  BY <1>2, <1>3, <1>4 DEF Elems, t

LEMMA ElemsConcat ==
  ASSUME NEW S, NEW s \in Seq(S), NEW t \in Seq(S)
  PROVE  Elems(s \o t) = Elems(s) \union Elems(t)
<1> DEFINE u == s \o t
<1>1. /\ Len(s) \in Nat /\ Len(t) \in Nat
      /\ DOMAIN s = 1 .. Len(s) /\ DOMAIN t = 1 .. Len(t)
      /\ DOMAIN u = 1 .. Len(s) + Len(t)
      /\ \A i \in 1 .. Len(s) : u[i] = s[i]
      /\ \A i \in 1 .. Len(t) : u[Len(s) + i] = t[i]
  BY ConcatProperties
<1> HIDE DEF u
<1>2. ASSUME NEW i \in DOMAIN u PROVE u[i] \in Elems(s) \union Elems(t)
  <2>1. CASE i <= Len(s)
    <3>1. i \in DOMAIN s /\ u[i] = s[i]
      BY <1>1, <2>1
    <3> QED
      BY <3>1 DEF Elems
  <2>2. CASE ~(i <= Len(s))
    <3>1. i - Len(s) \in DOMAIN t /\ Len(s) + (i - Len(s)) = i
      BY <1>1, <2>2
    <3>2. u[i] = t[i - Len(s)]
      BY <1>1, <3>1
    <3> QED
      BY <3>1, <3>2 DEF Elems
  <2> QED
    BY <2>1, <2>2
<1>3. ASSUME NEW i \in DOMAIN s PROVE s[i] \in Elems(u)
  <2>1. i \in DOMAIN u /\ u[i] = s[i]
    BY <1>1
  <2> QED
    BY <2>1 DEF Elems
<1>4. ASSUME NEW i \in DOMAIN t PROVE t[i] \in Elems(u)
  <2>1. Len(s) + i \in DOMAIN u /\ u[Len(s) + i] = t[i]
    BY <1>1
  <2> QED
    BY <2>1 DEF Elems
<1>5. Elems(u) \subseteq Elems(s) \union Elems(t)
  BY <1>2 DEF Elems
<1>6. Elems(s) \subseteq Elems(u) /\ Elems(t) \subseteq Elems(u)
  BY <1>3, <1>4 DEF Elems
<1> QED
  BY <1>5, <1>6 DEF u

LEMMA ElemsOne ==
  ASSUME NEW x
  PROVE  Elems(<<x>>) = {x} /\ Elems(<<>>) = {}
<1>1. DOMAIN <<x>> = {1} /\ <<x>>[1] = x
  OBVIOUS
<1>2. DOMAIN <<>> = {}
  OBVIOUS
<1> QED
  BY <1>1, <1>2 DEF Elems

LEMMA ElemsTyped ==
  ASSUME NEW S, NEW s \in Seq(S)
  PROVE  Elems(s) \subseteq S
BY DEF Elems

LEMMA InitServed == Init => Served
BY DEF Init, Served, Live

LEMMA EpochIsOne ==
  ASSUME Inv, linked
  PROVE  /\ epoch \in Epochs /\ up[epoch] \in Seq(Requests)
         /\ Said \subseteq Requests /\ InFlight \subseteq Frames
<1>1. epoch \in Epochs /\ up[epoch] \in Seq(Requests) /\ down \in Seq(Frames)
  BY ClientAssumption DEF Inv, Links, Begun, Budget, Numbers, Epochs
<1> QED
  BY <1>1, ElemsTyped DEF Said, InFlight

-----------------------------------------------------------------------------
(* The connection is left, or dies. *)
LEMMA LeavesServed ==
  ASSUME Inv, Served, UNCHANGED <<known, requestedAt>>, ~Live(epoch)'
  PROVE  Served'
BY DEF Served, Live

LEMMA LeaveServed ==
  ASSUME Inv, Served,
         \/ Disconnect \/ HearsOfTheEnd \/ Deadline \/ ReceiveError \/ Cut
  PROVE  Served'
<1>1. UNCHANGED <<known, requestedAt>> /\ ~Live(epoch)'
  BY DEF Disconnect, HearsOfTheEnd, Deadline, HandshakeExpires, ProjectionExpires,
         CommandExpires, ReceiveError, BeginRecovery, FailTerminal, Cut, views, Live
<1> QED
  BY <1>1, LeavesServed DEF Live

LEMMA OpenServed ==
  ASSUME Inv, Served, Connect \/ RecoveryFires
  PROVE  Served'
<1>1. /\ epoch' = epoch + 1 /\ phase' = "connecting" /\ down' = <<>>
      /\ UNCHANGED <<known, requestedAt, session>>
      /\ epoch + 1 <= MaxMishaps
  <2>1. CASE Connect
    BY <2>1, ClientAssumption
    DEF Connect, Mishap, OpenSocket, Inv, Numbers, Control, Linked, Handshaking,
        Budget, Begun, object
  <2>2. CASE RecoveryFires
    BY <2>2, ClientAssumption
    DEF RecoveryFires, OpenSocket, Inv, Numbers, Control, Linked, Handshaking,
        Budget, Begun, object
  <2> QED
    BY <2>1, <2>2
<1>2. epoch + 1 \in Epochs /\ epoch + 1 > epoch
  BY <1>1, ClientAssumption DEF Inv, Numbers, Epochs
<1>3. session[epoch + 1] = "none"
  BY <1>2 DEF Inv, Silent
<1>4. session'[epoch'] = "none"
  BY <1>1, <1>3
<1>5. InFlight' = {}
  <2>1. Elems(<<>>) = {}
    BY ElemsOne
  <2>2. Elems(down') = {}
    BY <1>1, <2>1
  <2> QED
    BY <2>2 DEF InFlight
<1>6. Promised'
  BY <1>1, <1>4, <1>5 DEF Promised, Reachable
<1> QED
  BY <1>1, <1>6 DEF Served

LEMMA OnOpenServed ==
  ASSUME Inv, Served, OnOpen
  PROVE  Served'
<1>1. /\ phase = "connecting" /\ phase' = "awaiting-ready" /\ session[epoch] = "open"
      /\ UNCHANGED <<epoch, linked, views, links, object>>
  BY DEF OnOpen
<1>2. /\ InFlight' = InFlight /\ session' = session /\ epoch' = epoch
      /\ Live(epoch)' <=> Live(epoch)
      /\ UNCHANGED <<known, requestedAt>>
  BY <1>1 DEF InFlight, Elems, links, object, Live, views
<1>3. ASSUME Promised PROVE Promised'
  BY <1>1, <1>2, <1>3 DEF Promised, Reachable, Awaited, UpToDate, Refused
<1> QED
  BY <1>2, <1>3 DEF Served

(* What the client says more is said, unless its connection is dead. *)
LEMMA SaysMore ==
  ASSUME Inv, Live(epoch), NEW frames \in Seq(Requests), up' = Sent(frames),
         epoch' = epoch
  PROVE  Said' = Said \union Elems(frames)
<1>1. /\ epoch \in Epochs /\ up[epoch] \in Seq(Requests)
      /\ up \in [Epochs -> Seq(Requests)] /\ epoch \notin cut
  BY EpochIsOne DEF Live, Inv, Links
<1>2. up'[epoch'] = up[epoch] \o frames
  BY <1>1 DEF Sent
<1>3. Elems(up[epoch] \o frames) = Elems(up[epoch]) \union Elems(frames)
  BY <1>1, ElemsConcat
<1> QED
  BY <1>2, <1>3 DEF Said

LEMMA SubmitServed ==
  ASSUME Inv, Served, NEW c \in Commands, Submit(c)
  PROVE  Served'
<1> DEFINE entry == [id |-> c, base |-> shown]
           frames == <<Command(entry)>>
<1>1. /\ UNCHANGED <<phase, epoch, linked, cut, session, down, revision>>
      /\ UNCHANGED <<known, shown, requestedAt>> /\ shown >= 0
      /\ pending' = Append(pending, entry)
      /\ IF phase = "open" THEN up' = Sent(frames) ELSE up' = up
  BY DEF Submit, views, object
<1>2. entry \in Entries /\ Command(entry) \in Requests
  <2>1. entry \in Entries
    BY <1>1 DEF Entries, Inv, Numbers
  <2> QED
    BY <2>1 DEF Command, Requests
<1>3. frames \in Seq(Requests) /\ Elems(frames) = {Command(entry)}
  BY <1>2, ElemsOne
<1>4. \A i \in DOMAIN pending' :
        pending'[i] = entry \/ (i \in DOMAIN pending /\ pending'[i] = pending[i])
  <2> HIDE DEF entry
  <2>1. /\ pending \in Seq(Entries) /\ DOMAIN pending = 1 .. Len(pending)
        /\ Len(pending) \in Nat /\ pending' = Append(pending, entry)
    BY <1>1 DEF Inv, Outbox
  <2>2. /\ DOMAIN pending' = 1 .. Len(pending) + 1
        /\ pending'[Len(pending) + 1] = entry
        /\ \A i \in 1 .. Len(pending) : pending'[i] = pending[i]
    BY <1>2, <2>1
  <2>3. ASSUME NEW i \in DOMAIN pending'
        PROVE  pending'[i] = entry \/ (i \in DOMAIN pending /\ pending'[i] = pending[i])
    <3>1. CASE i = Len(pending) + 1
      BY <2>2, <3>1
    <3>2. CASE i # Len(pending) + 1
      <4>1. i \in 1 .. Len(pending)
        BY <2>1, <2>2, <3>2
      <4>2. i \in DOMAIN pending
        BY <2>1, <4>1
      <4> QED
        BY <2>2, <4>1, <4>2
    <3> QED
      BY <3>1, <3>2
  <2> QED
    BY <2>3
<1> HIDE DEF entry, frames
<1>5. InFlight' = InFlight /\ (Live(epoch)' <=> Live(epoch))
  BY <1>1 DEF InFlight, Elems, Live
<1>6. ASSUME Live(epoch), Promised PROVE Promised'
  <2>1. CASE phase = "open"
    <3>1. Said' = Said \union {Command(entry)}
      BY <1>1, <1>3, <1>6, <2>1, SaysMore
    <3>2. UpToDate => UpToDate'
      BY <1>1, <1>4, <1>5, <2>1, <3>1 DEF UpToDate, Latest, Answered
    <3>3. UpToDate \/ Refused
      BY <1>6, <2>1 DEF Promised, Reachable, Awaited
    <3>4. Refused => Refused'
      BY <1>5 DEF Refused
    <3> QED
      BY <1>1, <1>5, <1>6, <2>1, <3>2, <3>3, <3>4 DEF Promised, Authenticated, Latest
  <2>2. CASE phase # "open"
    <3>1. Said' = Said
      BY <1>1, <2>2 DEF Said, Elems
    <3> QED
      BY <1>1, <1>5, <1>6, <2>2, <3>1
      DEF Promised, Reachable, Awaited, UpToDate, Refused, Authenticated, Latest
  <2> QED
    BY <2>1, <2>2
<1> QED
  BY <1>1, <1>5, <1>6 DEF Served

-----------------------------------------------------------------------------
(* The object moves.  What it takes it answers, and a revision it reaches is
   announced. *)
LEMMA ObjectServes ==
  ASSUME Inv, Served, UNCHANGED browser, revision' \in {revision, revision + 1},
         Live(epoch) =>
           /\ InFlight \subseteq InFlight' /\ Said' \subseteq Said
           /\ Authenticated(epoch) => session'[epoch] = "authenticated"
           /\ phase \in {"connecting", "awaiting-ready"} =>
                session'[epoch] = session[epoch]
           /\ revision' # revision /\ Authenticated(epoch) =>
                Notice(revision') \in InFlight'
           /\ \A q \in Said :
                \/ q \in Said'
                \/ q.kind = "hello" /\ \E f \in InFlight' : f.kind = "hello"
                \/ /\ q.kind = "project"
                   /\ \E f \in InFlight' : f.kind = "snapshot" /\ requestedAt <= f.revision
                \/ /\ q.kind = "command"
                   /\ \E f \in InFlight' : f.kind = "answer" /\ f.entry = q.entry
                \/ \E f \in InFlight' : f.kind = "error"
           /\ \A f \in InFlight' :
                \/ f \in InFlight
                \/ f.kind = "snapshot" =>
                     /\ session'[epoch] = "authenticated"
                     /\ phase \in {"resyncing", "open"}
                     /\ f.revision = revision'
  PROVE  Served'
<1>1. /\ UNCHANGED <<phase, epoch, linked, cut, known, shown, requestedAt, pending>>
      /\ Live(epoch)' <=> Live(epoch)
      /\ revision \in Nat /\ shown <= known /\ known <= revision
  BY DEF browser, views, outbox, Live, Inv, Numbers, Known
<1>2. ASSUME Live(epoch), Promised PROVE Promised'
  <2>1. /\ InFlight \subseteq InFlight' /\ Said' \subseteq Said
        /\ Authenticated(epoch) => Authenticated(epoch)'
        /\ Authenticated(epoch) /\ Latest => Latest'
        /\ revision' # revision /\ Authenticated(epoch) => Latest'
    BY <1>1, <1>2 DEF Authenticated, Latest
  <2>2. phase = "open" => Authenticated(epoch)'
    BY <1>2, <2>1 DEF Promised
  <2>3. ASSUME NEW f \in InFlight', f.kind = "snapshot"
        PROVE  /\ Authenticated(epoch)' /\ phase \in {"resyncing", "open"}
               /\ f.revision < revision' => Latest' \/ known = revision'
    <3>1. CASE f \in InFlight
      <4>1. /\ Authenticated(epoch) /\ phase \in {"resyncing", "open"}
            /\ f.revision < revision => Latest \/ known = revision
        BY <1>2, <2>3, <3>1 DEF Promised
      <4>2. CASE revision' = revision
        BY <2>1, <4>1, <4>2
      <4>3. CASE revision' # revision
        BY <2>1, <4>1, <4>3
      <4> QED
        BY <4>2, <4>3
    <3>2. CASE f \notin InFlight
      <4>1. /\ session'[epoch] = "authenticated" /\ phase \in {"resyncing", "open"}
            /\ f.revision = revision'
        BY <1>2, <2>3, <3>2
      <4> QED
        BY <1>1, <4>1 DEF Authenticated
    <3> QED
      BY <3>1, <3>2
  <2>4. Reachable => Reachable'
    BY <1>1, <1>2, <2>1 DEF Reachable
  <2>5. Awaited => Awaited' \/ Refused'
    <3>1. CASE phase = "authenticating" /\ Awaited
      <4>1. \A q \in Said : q.kind = "hello"
        BY <1>2, <3>1 DEF Promised
      <4>2. CASE \E f \in InFlight : f.kind = "hello"
        BY <1>1, <2>1, <3>1, <4>2 DEF Awaited
      <4>3. ASSUME NEW q \in Said, q.kind = "hello" PROVE Awaited' \/ Refused'
        BY <1>1, <1>2, <3>1, <4>3 DEF Awaited, Refused
      <4> QED
        BY <3>1, <4>2, <4>3 DEF Awaited
    <3>2. CASE phase = "resyncing" /\ Awaited
      <4>2. CASE \E f \in InFlight : f.kind = "snapshot" /\ requestedAt <= f.revision
        BY <1>1, <2>1, <3>2, <4>2 DEF Awaited
      <4>3. ASSUME NEW q \in Said, q.kind = "project" PROVE Awaited' \/ Refused'
        BY <1>1, <1>2, <3>2, <4>3 DEF Awaited, Refused
      <4> QED
        BY <3>2, <4>2, <4>3 DEF Awaited
    <3> QED
      BY <3>1, <3>2 DEF Awaited
  <2>6. UpToDate => UpToDate' \/ Refused'
    <3> SUFFICES ASSUME UpToDate PROVE UpToDate' \/ Refused'
      OBVIOUS
    <3>1. phase = "open" /\ Authenticated(epoch)
      BY <1>2 DEF UpToDate, Promised
    <3>2. shown < revision' => Latest'
      <4>1. CASE revision' = revision
        BY <2>1, <3>1, <4>1 DEF UpToDate
      <4>2. CASE revision' # revision
        BY <2>1, <3>1, <4>2
      <4> QED
        BY <4>1, <4>2
    <3>3. ASSUME NEW i \in DOMAIN pending, ~Refused'
          PROVE  Command(pending[i]) \in Said' \/ Answered(pending[i])'
      <4>1. CASE Command(pending[i]) \in Said
        <5> DEFINE q == Command(pending[i])
        <5>1. q.kind = "command" /\ q.entry = pending[i]
          BY DEF Command
        <5>2. q \in Said
          BY <4>1
        <5> HIDE DEF q
        <5>3. \/ q \in Said'
              \/ \E f \in InFlight' : f.kind = "answer" /\ f.entry = q.entry
          BY <1>2, <3>3, <5>1, <5>2 DEF Refused
        <5> QED
          BY <1>1, <5>1, <5>3 DEF q, Answered
      <4>2. CASE Answered(pending[i])
        BY <1>1, <2>1, <4>2 DEF Answered
      <4> QED
        BY <4>1, <4>2 DEF UpToDate
    <3> QED
      BY <1>1, <3>1, <3>2, <3>3 DEF UpToDate
  <2>7. Refused => Refused'
    BY <2>1 DEF Refused
  <2>8. phase = "authenticating" => \A q \in Said' : q.kind = "hello"
    BY <1>2, <2>1 DEF Promised
  <2> QED
    BY <1>1, <1>2, <2>2, <2>3, <2>4, <2>5, <2>6, <2>7, <2>8 DEF Promised
<1> QED
  BY <1>1, <1>2 DEF Served

LEMMA QuietObjectServed ==
  ASSUME Inv, Served, AcceptUpgrade \/ LeaseExpires \/ \E e \in Epochs : NoticeClose(e)
  PROVE  Served'
<1>1. CASE AcceptUpgrade
  <2> DEFINE ready == [kind |-> "ready", revision |-> revision]
  <2>1. /\ UNCHANGED browser /\ UNCHANGED <<up, revision>>
        /\ phase = "connecting" /\ Live(epoch)
        /\ session' = [session EXCEPT ![epoch] = "open"]
        /\ down' = Append(down, ready)
    BY <1>1 DEF AcceptUpgrade, client
  <2>2. /\ UNCHANGED <<phase, epoch, linked, cut, known, requestedAt>>
        /\ Live(epoch)' <=> Live(epoch)
    BY <2>1 DEF browser, views, Live
  <2>3. session'[epoch] = "open"
    BY <2>1, EpochIsOne DEF Live, Inv, Object
  <2>4. InFlight' = InFlight \union {ready}
    <3>1. ready \in Frames /\ down \in Seq(Frames)
      BY DEF Frames, Inv, Numbers, Links
    <3> HIDE DEF ready
    <3>2. down' = down \o <<ready>> /\ <<ready>> \in Seq(Frames)
      BY <2>1, <3>1
    <3>3. Elems(down \o <<ready>>) = Elems(down) \union Elems(<<ready>>)
      BY ZenonT(60), <3>1, <3>2, ElemsConcat
    <3>4. Elems(<<ready>>) = {ready}
      BY ElemsOne
    <3> QED
      BY <3>2, <3>3, <3>4 DEF InFlight
  <2>5. Reachable'
    <3>1. ready \in InFlight' /\ ready.kind = "ready"
      BY <2>4
    <3> QED
      BY <2>1, <2>2, <2>3, <3>1 DEF Reachable
  <2>6. Promised => Promised'
    <3>1. ready.kind # "snapshot"
      OBVIOUS
    <3> HIDE DEF ready
    <3> QED
      BY <2>1, <2>2, <2>4, <2>5, <3>1 DEF Promised
  <2> QED
    BY <2>1, <2>2, <2>6 DEF Served
<1>2. CASE LeaseExpires \/ \E e \in Epochs : NoticeClose(e)
  <2>1. UNCHANGED browser /\ UNCHANGED <<up, down, revision>>
    BY <1>2 DEF LeaseExpires, NoticeClose, client
  <2>2. InFlight' = InFlight /\ Said' = Said
    BY <2>1 DEF InFlight, Said, Elems, browser
  <2>3. Live(epoch) => session'[epoch] = session[epoch]
    <3>1. CASE LeaseExpires
      BY <3>1 DEF LeaseExpires
    <3>2. ASSUME NEW e \in Epochs, NoticeClose(e), Live(epoch)
          PROVE  session'[epoch] = session[epoch]
      <4>1. e # epoch /\ session' = [session EXCEPT ![e] = "closed"]
        BY <3>2 DEF NoticeClose
      <4> QED
        BY <3>2, <4>1, EpochIsOne DEF Live, Inv, Object
    <3> QED
      BY <1>2, <3>1, <3>2
  <2> QED
    BY <2>1, <2>2, <2>3, ObjectServes DEF Authenticated
<1> QED
  BY <1>1, <1>2

(* Who is announced to. *)
LEMMA AnnouncedTo ==
  ASSUME Inv, Live(epoch), NEW r \in Nat
  PROVE  /\ Elems(Announced(r)) \subseteq {Notice(r)}
         /\ Authenticated(epoch) => Notice(r) \in Elems(Announced(r))
         /\ Announced(r) \in Seq(Frames)
<1>1. epoch \in Epochs
  BY EpochIsOne DEF Live
<1>2. Elems(<<Notice(r)>>) = {Notice(r)} /\ Elems(<<>>) = {}
  BY ElemsOne
<1>3. Announced(r) = <<>> \/ Announced(r) = <<Notice(r)>>
  BY DEF Announced
<1>4. Authenticated(epoch) => Announced(r) = <<Notice(r)>>
  BY <1>1 DEF Announced
<1>5. <<Notice(r)>> \in Seq(Frames)
  <2>1. Notice(r) \in Frames
    BY DEF Notice, Frames
  <2> QED
    BY <2>1
<1>6. Announced(r) \in Seq(Frames)
  <2>1. <<>> \in Seq(Frames)
    OBVIOUS
  <2> QED
    BY <1>3, <1>5, <2>1
<1> QED
  BY <1>2, <1>3, <1>4, <1>6

LEMMA OthersServed ==
  ASSUME Inv, Served, OthersCommand
  PROVE  Served'
<1>1. /\ UNCHANGED browser /\ UNCHANGED <<up, session>> /\ revision' = revision + 1
      /\ down' = down \o Announced(revision')
  BY DEF OthersCommand
<1>2. revision' \in Nat /\ Said' = Said
  BY <1>1 DEF Inv, Numbers, Said, Elems, browser
<1>3. ASSUME Live(epoch)
      PROVE  /\ InFlight \subseteq InFlight'
             /\ InFlight' \subseteq InFlight \union {Notice(revision')}
             /\ Authenticated(epoch) => Notice(revision') \in InFlight'
  <2>1. InFlight' = InFlight \union Elems(Announced(revision'))
    <3>1. down \in Seq(Frames) /\ Announced(revision') \in Seq(Frames)
      BY <1>2, <1>3, AnnouncedTo DEF Inv, Links
    <3>2. Elems(down \o Announced(revision')) = Elems(down) \union Elems(Announced(revision'))
      BY <3>1, ElemsConcat
    <3> QED
      BY <1>1, <3>2 DEF InFlight
  <2> QED
    BY <1>2, <1>3, <2>1, AnnouncedTo
<1>4. Notice(revision').kind # "snapshot"
  BY DEF Notice
<1>5. ASSUME Live(epoch)
      PROVE  /\ InFlight \subseteq InFlight' /\ Said' \subseteq Said
             /\ Authenticated(epoch) => session'[epoch] = "authenticated"
             /\ session'[epoch] = session[epoch]
             /\ Authenticated(epoch) => Notice(revision') \in InFlight'
             /\ \A q \in Said : q \in Said'
             /\ \A f \in InFlight' : f \in InFlight \/ f.kind # "snapshot"
  BY <1>1, <1>2, <1>3, <1>4, <1>5 DEF Authenticated
<1> QED
  BY <1>1, <1>5, ObjectServes

(* The object takes a frame of the present connection, or of one that was
   left. *)
LEMMA TakenSaid ==
  ASSUME Inv, Live(epoch), NEW e \in Epochs, NEW kind, Takes(e, kind)
  PROVE  /\ Said' \subseteq Said
         /\ e # epoch => Said' = Said
         /\ e = epoch => /\ Said = {Head(up[e])} \union Said'
                         /\ Head(up[e]).kind = kind /\ Head(up[e]) \in Said
                         /\ phase \notin {"connecting", "awaiting-ready"}
         /\ phase \in Linked
<1>1. /\ epoch \in Epochs /\ up \in [Epochs -> Seq(Requests)] /\ epoch' = epoch
      /\ up' = [up EXCEPT ![e] = Tail(@)] /\ up[e] # <<>> /\ Head(up[e]).kind = kind
  BY EpochIsOne DEF Live, Inv, Links, Takes, client, browser
<1>2. e # epoch => Said' = Said
  BY <1>1 DEF Said
<1>3. e = epoch => Said = {Head(up[e])} \union Said'
  <2> SUFFICES ASSUME e = epoch PROVE Said = {Head(up[e])} \union Said'
    OBVIOUS
  <2>1. Elems(up[e]) = {Head(up[e])} \union Elems(Tail(up[e]))
    BY <1>1, ElemsTail
  <2>2. up'[epoch'] = Tail(up[e])
    BY <1>1
  <2> QED
    BY <2>1, <2>2 DEF Said
<1>4. e = epoch => phase \notin {"connecting", "awaiting-ready"}
  BY TakenStep
<1>5. phase \in Linked
  BY DEF Live, Inv, Control
<1> QED
  BY <1>1, <1>2, <1>3, <1>4, <1>5

(* What is sent over the present connection comes under way. *)
LEMMA SentFlies ==
  ASSUME Inv, NEW e, NEW frames \in Seq(Frames), NEW more \in Seq(Frames),
         down' = SentTo(e, frames) \o more
  PROVE  /\ Live(e) => InFlight' = InFlight \union Elems(frames) \union Elems(more)
         /\ ~Live(e) => InFlight' = InFlight \union Elems(more)
<1>1. down \in Seq(Frames)
  BY DEF Inv, Links
<1>2. CASE Live(e)
  <2>1. down' = (down \o frames) \o more
    BY <1>2 DEF SentTo
  <2>2. down \o frames \in Seq(Frames)
    BY <1>1, SeqConcat
  <2>3. Elems(down \o frames) = Elems(down) \union Elems(frames)
    BY <1>1, ElemsConcat
  <2>4. Elems((down \o frames) \o more) = Elems(down \o frames) \union Elems(more)
    BY ZenonT(60), <2>2, ElemsConcat
  <2> QED
    BY <1>2, <2>1, <2>3, <2>4 DEF InFlight
<1>3. CASE ~Live(e)
  <2>1. down' = down \o more
    BY <1>3 DEF SentTo
  <2>2. Elems(down \o more) = Elems(down) \union Elems(more)
    BY <1>1, ElemsConcat
  <2> QED
    BY <1>3, <2>1, <2>2 DEF InFlight
<1> QED
  BY <1>2, <1>3

LEMMA SentFliesAlone ==
  ASSUME Inv, NEW e, NEW frames \in Seq(Frames), down' = SentTo(e, frames)
  PROVE  /\ Live(e) => InFlight' = InFlight \union Elems(frames)
         /\ ~Live(e) => InFlight' = InFlight
<1>1. down \in Seq(Frames)
  BY DEF Inv, Links
<1>2. CASE Live(e)
  <2>1. down' = down \o frames
    BY <1>2 DEF SentTo
  <2>2. Elems(down \o frames) = Elems(down) \union Elems(frames)
    BY <1>1, ElemsConcat
  <2> QED
    BY <1>2, <2>1, <2>2 DEF InFlight
<1>3. CASE ~Live(e)
  BY <1>3 DEF SentTo, InFlight
<1> QED
  BY <1>2, <1>3

(* A request that is answered at the revision it found. *)
LEMMA ReplyServed ==
  ASSUME Inv, Served, NEW e \in Epochs, NEW kind, Takes(e, kind), revision' = revision,
         session' = session \/ session' = [session EXCEPT ![e] = "authenticated"],
         NEW frames \in Seq(Frames), down' = SentTo(e, frames),
         Live(e) =>
           /\ \/ kind = "hello" /\ \E f \in Elems(frames) : f.kind = "hello"
              \/ /\ kind = "project"
                 /\ \E f \in Elems(frames) : f.kind = "snapshot" /\ requestedAt <= f.revision
              \/ /\ kind = "command"
                 /\ \E f \in Elems(frames) : f.kind = "answer" /\ f.entry = Head(up[e]).entry
              \/ \E f \in Elems(frames) : f.kind = "error"
           /\ \A f \in Elems(frames) : f.kind = "snapshot" =>
                /\ Authenticated(e) /\ phase \in {"resyncing", "open"}
                /\ f.revision = revision
  PROVE  Served'
<1>1. UNCHANGED browser
  BY DEF Takes, client
<1>2. ASSUME Live(epoch)
      PROVE  /\ InFlight \subseteq InFlight' /\ Said' \subseteq Said
             /\ Authenticated(epoch) => session'[epoch] = "authenticated"
             /\ phase \in {"connecting", "awaiting-ready"} =>
                  session'[epoch] = session[epoch]
             /\ \A q \in Said :
                  \/ q \in Said'
                  \/ q.kind = "hello" /\ \E f \in InFlight' : f.kind = "hello"
                  \/ /\ q.kind = "project"
                     /\ \E f \in InFlight' : f.kind = "snapshot" /\ requestedAt <= f.revision
                  \/ /\ q.kind = "command"
                     /\ \E f \in InFlight' : f.kind = "answer" /\ f.entry = q.entry
                  \/ \E f \in InFlight' : f.kind = "error"
             /\ \A f \in InFlight' :
                  \/ f \in InFlight
                  \/ f.kind = "snapshot" =>
                       /\ session'[epoch] = "authenticated"
                       /\ phase \in {"resyncing", "open"}
                       /\ f.revision = revision'
  <2>1. /\ Said' \subseteq Said
        /\ e # epoch => Said' = Said
        /\ e = epoch => /\ Said = {Head(up[e])} \union Said'
                        /\ Head(up[e]).kind = kind
                        /\ phase \notin {"connecting", "awaiting-ready"}
    BY <1>2, TakenSaid
  <2>2. /\ Live(e) => InFlight' = InFlight \union Elems(frames)
        /\ ~Live(e) => InFlight' = InFlight
    BY SentFliesAlone
  <2>3. /\ session \in [Epochs -> {"none", "open", "authenticated", "closed"}]
        /\ epoch \in Epochs
    BY <1>2, EpochIsOne DEF Live, Inv, Object
  <2>4. /\ Authenticated(epoch) => session'[epoch] = "authenticated"
        /\ e # epoch => session'[epoch] = session[epoch]
    BY <2>3 DEF Authenticated
  <2>5. CASE e = epoch
    <3>1. Live(e) /\ InFlight' = InFlight \union Elems(frames)
      BY <1>2, <2>2, <2>5
    <3>2. ASSUME NEW q \in Said, q \notin Said'
          PROVE  q = Head(up[e]) /\ q.kind = kind
      BY <2>1, <2>5, <3>2
    <3> QED
      BY <2>1, <2>4, <2>5, <3>1, <3>2 DEF Authenticated
  <2>6. CASE e # epoch
    <3>1. ~Live(e) /\ InFlight' = InFlight /\ Said' = Said
      BY <2>1, <2>2, <2>6 DEF Live
    <3> QED
      BY <2>4, <2>6, <3>1
  <2> QED
    BY <2>5, <2>6
<1> QED
  BY <1>1, <1>2, ObjectServes

LEMMA ServeServed ==
  ASSUME Inv, Spoke, Served, NEW e \in Epochs, Serve(e)
  PROVE  Served'
<1>0. /\ revision \in Nat /\ known <= revision /\ requestedAt <= known
      /\ known \in Nat /\ requestedAt \in Nat \union {-1}
  BY DEF Inv, Numbers, Known, Served
<1>1. CASE ServeHello(e)
  <2> DEFINE f == [kind |-> "hello", revision |-> revision]
  <2>1. /\ Takes(e, "hello") /\ revision' = revision
        /\ session' = [session EXCEPT ![e] = "authenticated"]
        /\ down' = SentTo(e, <<f>>)
    BY <1>1 DEF ServeHello
  <2>2. f \in Frames /\ f.kind = "hello"
    BY <1>0 DEF Frames
  <2> HIDE DEF f
  <2>3. <<f>> \in Seq(Frames) /\ Elems(<<f>>) = {f}
    BY <2>2, ElemsOne
  <2> QED
    BY <2>1, <2>2, <2>3, ReplyServed
<1>2. CASE ServeProjection(e)
  <2> DEFINE n == IF present THEN <<>> ELSE <<Notice(revision)>>
             f == [kind |-> "snapshot", revision |-> revision]
  <2>1. /\ Takes(e, "project") /\ revision' = revision /\ session' = session
        /\ down' = SentTo(e, n \o <<f>>)
    BY <1>2 DEF ServeProjection
  <2>2. f \in Frames /\ f.kind = "snapshot" /\ f.revision = revision
    BY <1>0 DEF Frames
  <2>3. n \in Seq(Frames) /\ Elems(n) \subseteq {Notice(revision)}
    <3>1. Notice(revision) \in Frames
      BY <1>0 DEF Notice, Frames
    <3>2. <<Notice(revision)>> \in Seq(Frames) /\ <<>> \in Seq(Frames)
      BY <3>1
    <3>3. Elems(<<Notice(revision)>>) = {Notice(revision)} /\ Elems(<<>>) = {}
      BY ElemsOne
    <3>4. CASE present
      BY <3>2, <3>3, <3>4
    <3>5. CASE ~present
      BY <3>2, <3>3, <3>5
    <3> QED
      BY <3>4, <3>5
  <2> HIDE DEF f, n
  <2>4. <<f>> \in Seq(Frames) /\ Elems(<<f>>) = {f}
    BY <2>2, ElemsOne
  <2>5. n \o <<f>> \in Seq(Frames) /\ Elems(n \o <<f>>) = Elems(n) \union {f}
    <3>1. n \in Seq(Frames) /\ <<f>> \in Seq(Frames) /\ Elems(<<f>>) = {f}
      BY <2>3, <2>4
    <3>2. n \o <<f>> \in Seq(Frames)
      BY <3>1, SeqConcat
    <3>3. Elems(n \o <<f>>) = Elems(n) \union Elems(<<f>>)
      BY ZenonT(60), <3>1, ElemsConcat
    <3> QED
      BY <3>1, <3>2, <3>3
  <2>6. Authenticated(e)
    <3>1. /\ InOrder(up[e], Authenticated(e), Back(e)) /\ up[e] \in Seq(Requests)
          /\ up[e] # <<>> /\ Head(up[e]).kind = "project"
      BY <2>1 DEF Spoke, Ordered, Inv, Links, Takes
    <3>2. 1 \in 1 .. Len(up[e]) /\ up[e][1].kind = "project" /\ 1 .. 1 - 1 = {}
      BY <3>1
    <3> QED
      BY <3>1, <3>2 DEF InOrder, AfterHello
  <2>7. ASSUME Live(e) PROVE phase \in {"resyncing", "open"}
    <3>1. e = epoch /\ Live(epoch)
      BY <2>7 DEF Live
    <3>2. /\ Head(up[e]) \in Said /\ Head(up[e]).kind = "project"
          /\ phase \notin {"connecting", "awaiting-ready"} /\ phase \in Linked
      BY <2>1, <3>1, TakenSaid
    <3>3. phase # "authenticating"
      BY <3>1, <3>2 DEF Served, Promised
    <3> QED
      BY <3>2, <3>3 DEF Linked, Handshaking
  <2>8. Notice(revision).kind # "snapshot"
    BY DEF Notice
  <2>9. requestedAt <= f.revision
    BY <1>0, <2>2
  <2>10. /\ f \in Elems(n \o <<f>>)
         /\ \A g \in Elems(n \o <<f>>) : g.kind = "snapshot" => g = f
    BY <2>3, <2>5, <2>8
  <2> QED
    BY <2>1, <2>2, <2>5, <2>6, <2>7, <2>9, <2>10, ReplyServed
<1>3. CASE RefuseControl(e)
  <2> DEFINE f == [kind |-> "error", code |-> "CONTROLLER_LEASE_REQUIRED"]
  <2>1. /\ Takes(e, "command") /\ revision' = revision /\ session' = session
        /\ down' = SentTo(e, <<f>>)
    BY <1>3 DEF RefuseControl, object
  <2>2. f \in Frames /\ f.kind = "error"
    BY DEF Frames
  <2> HIDE DEF f
  <2>3. <<f>> \in Seq(Frames) /\ Elems(<<f>>) = {f}
    BY <2>2, ElemsOne
  <2> QED
    BY <2>1, <2>2, <2>3, ReplyServed
<1>4. CASE AnswerCommand(e) \/ AcceptCommand(e)
  <2>1. Takes(e, "command") /\ session' = session
    BY <1>4 DEF AnswerCommand, AcceptCommand
  <2>2. PICK entry \in Entries : Head(up[e]).entry = entry
    <3>1. Head(up[e]) \in Requests /\ Head(up[e]).kind = "command"
      BY <2>1, TakenStep
    <3> QED
      BY <3>1 DEF Requests
  <2>3. CASE AnswerCommand(e)
    <3> DEFINE outcome == IF present /\ receipts[entry.id] # 0
                          THEN "accepted" ELSE "rejected"
               resync == present /\ ~(receipts[entry.id] # 0)
                           /\ entry.base # revision
               f == [kind |-> "answer", entry |-> entry, outcome |-> outcome,
                     current |-> revision, resync |-> resync]
    <3>1. revision' = revision /\ down' = SentTo(e, <<f>>)
      BY <2>2, <2>3 DEF AnswerCommand, Answer
    <3>2. f \in Frames /\ f.kind = "answer" /\ f.entry = entry
      <4>1. outcome \in {"accepted", "rejected"}
        OBVIOUS
      <4>2. resync \in BOOLEAN
        OBVIOUS
      <4> HIDE DEF outcome, resync
      <4> QED
        BY <1>0, <4>1, <4>2 DEF Frames
    <3> HIDE DEF f
    <3>3. <<f>> \in Seq(Frames) /\ Elems(<<f>>) = {f}
      BY <3>2, ElemsOne
    <3>4. f.kind # "snapshot" /\ f.entry = Head(up[e]).entry
      BY <2>2, <3>2
    <3> QED
      BY <2>1, <3>1, <3>2, <3>3, <3>4, ReplyServed
  <2>4. CASE AcceptCommand(e)
    <3> DEFINE f == [kind |-> "answer", entry |-> entry, outcome |-> "accepted",
                     current |-> revision', resync |-> FALSE]
    <3>1. /\ revision' = revision + 1 /\ revision' \in Nat
          /\ down' = SentTo(e, <<f>>) \o Announced(revision')
      <4>1. revision' = revision + 1
        BY <2>4 DEF AcceptCommand
      <4>2. down' = SentTo(e, <<f>>) \o Announced(revision')
        BY <2>2, <2>4 DEF AcceptCommand, Answer
      <4> QED
        BY <1>0, <4>1, <4>2
    <3>2. /\ f \in Frames /\ f.kind = "answer" /\ f.entry = Head(up[e]).entry
      BY <2>2, <3>1 DEF Frames
    <3> HIDE DEF f
    <3>3. <<f>> \in Seq(Frames) /\ Elems(<<f>>) = {f}
      BY <3>2, ElemsOne
    <3>4. UNCHANGED browser
      BY <2>1 DEF Takes, client
    <3>5. ASSUME Live(epoch)
          PROVE  /\ InFlight \subseteq InFlight' /\ Said' \subseteq Said
                 /\ Authenticated(epoch) => session'[epoch] = "authenticated"
                 /\ session'[epoch] = session[epoch]
                 /\ Authenticated(epoch) => Notice(revision') \in InFlight'
                 /\ \A q \in Said :
                      \/ q \in Said'
                      \/ /\ q.kind = "command"
                         /\ \E g \in InFlight' : g.kind = "answer" /\ g.entry = q.entry
                 /\ \A g \in InFlight' : g \in InFlight \/ g.kind # "snapshot"
      <4>1. /\ Elems(Announced(revision')) \subseteq {Notice(revision')}
            /\ Authenticated(epoch) => Notice(revision') \in Elems(Announced(revision'))
            /\ Announced(revision') \in Seq(Frames)
        BY <3>1, <3>5, AnnouncedTo
      <4>2. /\ Live(e) => InFlight' = InFlight \union {f} \union Elems(Announced(revision'))
            /\ ~Live(e) => InFlight' = InFlight \union Elems(Announced(revision'))
        BY <3>1, <3>3, <4>1, SentFlies
      <4>3. /\ Said' \subseteq Said
            /\ e # epoch => Said' = Said
            /\ e = epoch => Said = {Head(up[e])} \union Said'
            /\ Head(up[e]).kind = "command"
        BY <2>1, <3>5, TakenSaid DEF Takes
      <4>4. Notice(revision').kind # "snapshot" /\ f.kind # "snapshot"
        BY <3>2 DEF Notice
      <4>5. e = epoch => Live(e)
        BY <3>5
      <4>6. /\ InFlight \subseteq InFlight'
            /\ Authenticated(epoch) => Notice(revision') \in InFlight'
            /\ \A g \in InFlight' : g \in InFlight \/ g.kind # "snapshot"
            /\ e = epoch => f \in InFlight'
        BY <4>1, <4>2, <4>4, <4>5
      <4>7. ASSUME NEW q \in Said, q \notin Said'
            PROVE  q.kind = "command" /\ \E g \in InFlight' : g.kind = "answer" /\ g.entry = q.entry
        BY <3>2, <4>3, <4>6, <4>7
      <4> QED
        BY <2>1, <4>3, <4>6, <4>7 DEF Authenticated
    <3> QED
      BY <3>1, <3>4, <3>5, ObjectServes
  <2> QED
    BY <1>4, <2>3, <2>4
<1> QED
  BY <1>1, <1>2, <1>3, <1>4 DEF Serve

-----------------------------------------------------------------------------
(* A frame arrives: it is no longer under way. *)
LEMMA Landed ==
  ASSUME Inv, NEW kind, Arrives(kind), Consumed
  PROVE  /\ InFlight = {Head(down)} \union InFlight'
         /\ Head(down) \in Frames /\ Head(down).kind = kind
         /\ Notice(revision).kind = "notice"
<1>1. down \in Seq(Frames) /\ down # <<>>
  BY DEF Inv, Links, Arrives
<1>2. Elems(down) = {Head(down)} \union Elems(Tail(down))
  BY <1>1, ElemsTail
<1>3. Head(down) \in Frames /\ Head(down).kind = kind
  BY Arrived
<1>4. Notice(revision).kind = "notice"
  BY DEF Notice
<1> QED
  BY <1>2, <1>3, <1>4 DEF InFlight, Consumed

(* A frame that is dropped is not what the client waits for. *)
LEMMA DroppedServed ==
  ASSUME Inv, Served, NEW kind, Arrives(kind), Dropped,
         UNCHANGED <<epoch, cut, mishaps, object>>,
         kind # "error",
         kind = "ready" => phase # "awaiting-ready",
         kind = "hello" => phase # "authenticating",
         kind = "notice" =>
           phase \notin {"open", "resyncing"} \/ Head(down).revision < shown,
         kind = "snapshot" =>
           phase # "resyncing" \/ ~(requestedAt <= Head(down).revision),
         kind = "answer" =>
           phase # "open" \/ \A i \in DOMAIN pending : pending[i] # Head(down).entry
  PROVE  Served'
<1>1. /\ UNCHANGED <<phase, epoch, linked, cut, session, revision, pending, up>>
      /\ UNCHANGED <<known, shown, requestedAt>> /\ Consumed
  BY DEF Dropped, views, outbox, object
<1>2. /\ InFlight = {Head(down)} \union InFlight' /\ Head(down).kind = kind
      /\ Notice(revision).kind = "notice" /\ phase # "connecting"
  BY <1>1, Landed DEF Arrives
<1>3. Said' = Said /\ (Live(epoch)' <=> Live(epoch))
  BY <1>1 DEF Said, Elems, Live
<1>4. ASSUME Latest, phase \in {"open", "resyncing"} PROVE Latest'
  <2>1. Notice(revision) # Head(down)
    <3> SUFFICES ASSUME Notice(revision) = Head(down) PROVE FALSE
      OBVIOUS
    <3>1. kind = "notice"
      BY <1>2
    <3>2. Head(down).revision = revision
      BY DEF Notice
    <3>3. shown <= revision
      BY DEF Inv, Numbers, Known
    <3> QED
      BY <1>4, <3>1, <3>2, <3>3 DEF Inv, Numbers
  <2> QED
    BY <1>1, <1>2, <1>4, <2>1 DEF Latest
<1>5. ASSUME Promised PROVE Promised'
  <2>1. Reachable => Reachable'
    BY <1>1, <1>2 DEF Reachable
  <2>2. Awaited => Awaited'
    BY <1>1, <1>2, <1>3 DEF Awaited
  <2>3. UpToDate => UpToDate'
    BY <1>1, <1>2, <1>3, <1>4 DEF UpToDate, Answered
  <2>4. Refused => Refused'
    BY <1>2 DEF Refused
  <2>5. ASSUME NEW f \in InFlight', f.kind = "snapshot"
        PROVE  /\ Authenticated(epoch)' /\ phase' \in {"resyncing", "open"}
               /\ f.revision < revision' => Latest' \/ known' = revision'
    BY <1>1, <1>2, <1>4, <1>5, <2>5 DEF Promised, Authenticated
  <2> QED
    BY <1>1, <1>3, <1>5, <2>1, <2>2, <2>3, <2>4, <2>5 DEF Promised, Authenticated
<1> QED
  BY <1>1, <1>3, <1>5 DEF Served

(* The client asks for a projection, if it has not. *)
LEMMA AsksServed ==
  ASSUME Inv, Served, NEW kind, Arrives(kind), Consumed,
         phase \in {"authenticating", "resyncing", "open"},
         UNCHANGED <<epoch, linked, cut, mishaps, object>>,
         known' \in Nat, known <= known', known' <= revision,
         NEW deadlines, RequestProjection(known', deadlines),
         kind \notin {"snapshot", "error"},
         Head(down) = Notice(revision) => known' = revision
  PROVE  Served'
<1>1. /\ UNCHANGED <<epoch, linked, cut, session, revision>>
      /\ Live(epoch)' <=> Live(epoch)
      /\ known \in Nat /\ requestedAt \in Nat \union {-1} /\ revision \in Nat
  BY DEF object, Live, Inv, Numbers
<1>2. InFlight = {Head(down)} \union InFlight' /\ Head(down).kind = kind
  BY Landed
<1>3. linked /\ (requested <=> phase = "resyncing")
  BY DEF Arrives, Inv, Control
<1>4. /\ phase' = "resyncing" /\ requestedAt' \in {requestedAt, known'}
      /\ requested => UNCHANGED <<phase, requestedAt, up>>
      /\ ~requested => up' = Sent(<<[kind |-> "project"]>>)
  BY <1>3 DEF RequestProjection
<1>5. requestedAt' <= known'
  BY <1>1, <1>4 DEF Served
<1>6. ASSUME Live(epoch), Promised PROVE Promised'
  <2>1. ASSUME NEW f \in InFlight', f.kind = "snapshot"
        PROVE  /\ Authenticated(epoch)'
               /\ f.revision < revision' => Latest' \/ known' = revision'
    <3>1. /\ Authenticated(epoch)
          /\ f.revision < revision => Latest \/ known = revision
      BY <1>2, <1>6, <2>1 DEF Promised
    <3>2. Latest => Latest' \/ known' = revision'
      BY <1>1, <1>2 DEF Latest
    <3>3. known = revision => known' = revision'
      BY <1>1
    <3> QED
      BY <1>1, <3>1, <3>2, <3>3 DEF Authenticated
  <2>2. Awaited' \/ Refused'
    <3>1. CASE requested
      <4>1. Said' = Said /\ phase = "resyncing"
        BY <1>1, <1>3, <1>4, <3>1 DEF Said, Elems
      <4>2. Awaited \/ Refused
        BY <1>6, <4>1 DEF Promised, Reachable, UpToDate
      <4>3. Awaited => Awaited'
        BY <1>2, <1>4, <3>1, <4>1 DEF Awaited
      <4>4. Refused => Refused'
        BY <1>2 DEF Refused
      <4> QED
        BY <4>2, <4>3, <4>4
    <3>2. CASE ~requested
      <4> DEFINE q == [kind |-> "project"]
      <4>1. q \in Requests /\ q.kind = "project" /\ up' = Sent(<<q>>)
        BY <1>4, <3>2 DEF Requests
      <4> HIDE DEF q
      <4>2. <<q>> \in Seq(Requests) /\ Elems(<<q>>) = {q}
        BY <4>1, ElemsOne
      <4>3. Said' = Said \union {q}
        BY <1>1, <1>6, <4>1, <4>2, SaysMore
      <4> QED
        BY <1>4, <4>1, <4>3 DEF Awaited
    <3> QED
      BY <3>1, <3>2
  <2> QED
    BY <1>4, <2>1, <2>2 DEF Promised
<1> QED
  BY <1>1, <1>5, <1>6 DEF Served

LEMMA ReadyServed ==
  ASSUME Inv, Served, ReceiveReady
  PROVE  Served'
<1>1. Arrives("ready") /\ UNCHANGED <<epoch, cut, mishaps, object>>
  BY DEF ReceiveReady
<1>2. CASE phase # "awaiting-ready"
  <2>1. Dropped
    BY <1>2 DEF ReceiveReady
  <2> QED
    BY <1>1, <1>2, <2>1, DroppedServed
<1>3. CASE phase = "awaiting-ready" /\ linked' # linked
  <2>1. phase' = "failed" /\ linked' = FALSE /\ UNCHANGED views
    BY <1>3 DEF ReceiveReady, FailTerminal, Dropped
  <2> QED
    BY <2>1, LeavesServed DEF views, Live
<1>4. CASE phase = "awaiting-ready" /\ linked' = linked
  <2> DEFINE q == [kind |-> "hello"]
  <2>1. /\ phase' = "authenticating" /\ up' = Sent(<<q>>) /\ Consumed
        /\ UNCHANGED <<known, requestedAt>>
    BY <1>1, <1>4 DEF ReceiveReady, FailTerminal, Arrives
  <2>2. q \in Requests /\ q.kind = "hello"
    BY DEF Requests
  <2> HIDE DEF q
  <2>3. <<q>> \in Seq(Requests) /\ Elems(<<q>>) = {q}
    BY <2>2, ElemsOne
  <2>4. InFlight = {Head(down)} \union InFlight'
    BY <1>1, <2>1, Landed
  <2>5. Live(epoch)' <=> Live(epoch)
    BY <1>1, <1>4 DEF Live
  <2>6. ASSUME Live(epoch), Promised PROVE Promised'
    <3>1. Said' = {q}
      <4>1. up[epoch] = <<>>
        BY <1>4 DEF Inv, Silent
      <4>2. Elems(up[epoch]) = {}
        BY <4>1, ElemsOne
      <4>3. Said' = Said \union {q}
        BY <1>1, <2>1, <2>3, <2>6, SaysMore
      <4> QED
        BY <4>2, <4>3 DEF Said
    <3>2. \A f \in InFlight' : f.kind # "snapshot"
      BY <1>4, <2>4, <2>6 DEF Promised
    <3> QED
      BY <2>1, <2>2, <3>1, <3>2 DEF Promised, Awaited
  <2> QED
    BY <2>1, <2>5, <2>6 DEF Served
<1> QED
  BY <1>2, <1>3, <1>4

LEMMA HelloServed ==
  ASSUME Inv, Served, ReceiveHello
  PROVE  Served'
<1>1. Arrives("hello") /\ UNCHANGED <<epoch, cut, mishaps, object>>
  BY DEF ReceiveHello
<1>2. CASE phase # "authenticating"
  <2>1. Dropped
    BY <1>2 DEF ReceiveHello
  <2> QED
    BY <1>1, <1>2, <2>1, DroppedServed
<1>3. CASE phase = "authenticating" /\ linked' # linked
  <2>1. phase' = "failed" /\ linked' = FALSE /\ UNCHANGED views
    BY <1>3 DEF ReceiveHello, FailTerminal, Dropped
  <2> QED
    BY <2>1, LeavesServed DEF views, Live
<1>4. CASE phase = "authenticating" /\ linked' = linked
  <2>1. /\ known' = Larger(known, Head(down).revision) /\ Consumed
        /\ RequestProjection(known', armed \ {"handshake"})
    BY <1>1, <1>4 DEF ReceiveHello, FailTerminal, Arrives
  <2>2. /\ Head(down).revision \in Nat /\ Head(down).revision <= revision
        /\ Head(down).kind = "hello"
    <3>1. Head(down) \in Frames /\ Expected(Head(down)) /\ Head(down).kind = "hello"
      BY <1>1, Arrived
    <3> QED
      BY <3>1 DEF Frames, Expected
  <2>3. known' \in Nat /\ known <= known' /\ known' <= revision
    BY <2>1, <2>2 DEF Larger, Inv, Numbers, Known
  <2>4. Head(down) # Notice(revision)
    BY <2>2 DEF Notice
  <2> QED
    BY <1>1, <1>4, <2>1, <2>3, <2>4, AsksServed
<1> QED
  BY <1>2, <1>3, <1>4

LEMMA NoticeServed ==
  ASSUME Inv, Served, ReceiveNotice
  PROVE  Served'
<1>1. Arrives("notice") /\ UNCHANGED <<epoch, cut, mishaps, object>>
  BY DEF ReceiveNotice
<1>2. CASE phase \notin {"open", "resyncing"} \/ Head(down).revision < shown
  <2>1. Dropped
    BY <1>2 DEF ReceiveNotice
  <2> QED
    BY <1>1, <1>2, <2>1, DroppedServed
<1>3. CASE ~(phase \notin {"open", "resyncing"} \/ Head(down).revision < shown)
  <2>1. /\ known' = Larger(known, Head(down).revision) /\ Consumed
        /\ RequestProjection(known', armed) /\ linked' = linked
    BY <1>3 DEF ReceiveNotice
  <2>2. Head(down).revision \in Nat /\ Head(down).revision <= revision
    <3>1. Head(down) \in Frames /\ Expected(Head(down)) /\ Head(down).kind = "notice"
      BY <1>1, Arrived
    <3> QED
      BY <3>1 DEF Frames, Expected
  <2>3. known' \in Nat /\ known <= known' /\ known' <= revision
    BY <2>1, <2>2 DEF Larger, Inv, Numbers, Known
  <2>4. ASSUME Head(down) = Notice(revision) PROVE known' = revision
    <3>1. Head(down).revision = revision
      BY <2>4 DEF Notice
    <3> QED
      BY <2>1, <3>1 DEF Larger, Inv, Numbers, Known
  <2> QED
    BY <1>1, <1>3, <2>1, <2>3, <2>4, AsksServed
<1> QED
  BY <1>2, <1>3

LEMMA SnapshotServed ==
  ASSUME Inv, Served, ReceiveSnapshot
  PROVE  Served'
<1> DEFINE h == Head(down)
<1>1. Arrives("snapshot") /\ UNCHANGED <<epoch, cut, mishaps, object>>
  BY DEF ReceiveSnapshot
<1>2. linked /\ h \in Frames /\ Expected(h) /\ h.kind = "snapshot"
  BY <1>1, Arrived
<1>3. /\ h.revision \in Nat /\ h.revision <= revision /\ greetedAt <= h.revision
      /\ greetedAt \in Nat \union {-1} /\ requestedAt \in Nat \union {-1}
      /\ known \in Nat /\ revision \in Nat /\ known <= revision
  BY <1>2 DEF Frames, Expected, Inv, Numbers, Known
<1>4. CASE phase # "resyncing" \/ (greetedAt <= h.revision /\ h.revision < known
                                  /\ ~(requested /\ requestedAt < known))
  <2>1. Dropped
    BY <1>4 DEF ReceiveSnapshot
  <2>2. phase = "resyncing" => requested
    BY <1>2 DEF Inv, Control
  <2>3. phase # "resyncing" \/ ~(requestedAt <= h.revision)
    BY <1>3, <1>4, <2>2
  <2> QED
    BY <1>1, <2>1, <2>3, DroppedServed
<1>5. CASE ~(phase # "resyncing" \/ (greetedAt <= h.revision /\ h.revision < known
                                    /\ ~(requested /\ requestedAt < known)))
  <2>1. phase = "resyncing" /\ ~(h.revision < greetedAt)
    BY <1>3, <1>5
  <2>2. UNCHANGED <<epoch, session, revision>>
    BY <1>1 DEF object
  <2>3. CASE h.revision < known
    <3> DEFINE q == [kind |-> "project"]
    <3>1. /\ requestedAt' = known /\ up' = Sent(<<q>>) /\ Consumed
          /\ UNCHANGED <<phase, linked, known>>
      BY <1>5, <2>1, <2>3 DEF ReceiveSnapshot
    <3>2. q \in Requests /\ q.kind = "project"
      BY DEF Requests
    <3> HIDE DEF q
    <3>3. <<q>> \in Seq(Requests) /\ Elems(<<q>>) = {q}
      BY <3>2, ElemsOne
    <3>4. /\ InFlight = {h} \union InFlight' /\ Notice(revision).kind = "notice"
          /\ Live(epoch)' <=> Live(epoch)
      BY <1>1, <3>1, Landed DEF Live
    <3>5. ASSUME Live(epoch), Promised PROVE Promised'
      <4>1. Said' = Said \union {q}
        BY <2>2, <3>1, <3>3, <3>5, SaysMore
      <4>2. Latest => Latest'
        BY <1>2, <2>2, <3>4 DEF Latest
      <4>3. ASSUME NEW f \in InFlight', f.kind = "snapshot"
            PROVE  /\ Authenticated(epoch)'
                   /\ f.revision < revision' => Latest' \/ known' = revision'
        BY <2>2, <3>1, <3>4, <3>5, <4>2, <4>3 DEF Promised, Authenticated
      <4>4. Awaited'
        BY <2>1, <3>1, <3>2, <4>1 DEF Awaited
      <4> QED
        BY <2>1, <3>1, <4>3, <4>4 DEF Promised
    <3>6. requestedAt' <= known'
      BY <1>3, <3>1
    <3> QED
      BY <2>2, <3>4, <3>5, <3>6 DEF Served
  <2>4. CASE ~(h.revision < known)
    <3>1. /\ known' = h.revision /\ shown' = h.revision
          /\ requestedAt' = -1 /\ phase' = "open" /\ up' = Sent(Replayed) /\ Consumed
          /\ UNCHANGED <<linked, pending>>
      BY <1>5, <2>1, <2>4 DEF ReceiveSnapshot, outbox
    <3>2. Replayed \in Seq(Requests)
      BY ReplayTyped DEF Inv
    <3>3. /\ InFlight = {h} \union InFlight' /\ Notice(revision).kind = "notice"
          /\ Live(epoch)' <=> Live(epoch)
      BY <1>1, <3>1, Landed DEF Live
    <3>4. ASSUME Live(epoch), Promised PROVE Promised'
      <4>1. Said' = Said \union Elems(Replayed)
        BY <2>2, <3>1, <3>2, <3>4, SaysMore
      <4>2. Latest => Latest'
        BY <1>2, <2>2, <3>3 DEF Latest
      <4>3. known = revision => known' = revision'
        BY <1>3, <2>2, <2>4, <3>1
      <4>4. ASSUME NEW f \in InFlight, f.kind = "snapshot"
            PROVE  /\ Authenticated(epoch)'
                   /\ f.revision < revision' => Latest' \/ known' = revision'
        BY <2>2, <3>4, <4>2, <4>3, <4>4 DEF Promised, Authenticated
      <4>5. h \in InFlight
        BY <3>3
      <4>6. shown' < revision' => Latest'
        BY <1>2, <1>3, <2>2, <3>1, <4>4, <4>5
      <4>7. ASSUME NEW i \in DOMAIN pending PROVE Command(pending[i]) \in Said'
        <5>1. i \in DOMAIN Replayed /\ Replayed[i] = Command(pending[i])
          BY DEF Replayed
        <5> QED
          BY <4>1, <5>1 DEF Elems
      <4>8. UpToDate'
        BY <3>1, <4>6, <4>7 DEF UpToDate
      <4>9. Authenticated(epoch)'
        BY <1>2, <4>4, <4>5
      <4> QED
        BY <3>1, <3>3, <4>4, <4>8, <4>9 DEF Promised
    <3>5. requestedAt' <= known'
      BY <1>3, <3>1
    <3> QED
      BY <2>2, <3>3, <3>4, <3>5 DEF Served
  <2> QED
    BY <2>3, <2>4
<1> QED
  BY <1>4, <1>5

(* The answer to one command leaves those to the others under way. *)
LEMMA SettledServed ==
  ASSUME Inv, Served, Arrives("answer"), Consumed, phase \in {"open", "resyncing"},
         UNCHANGED <<epoch, linked, cut, mishaps, object>>,
         UNCHANGED <<phase, requestedAt, shown, up>>,
         NEW i \in DOMAIN pending, pending[i] = Head(down).entry, pending' = Without(i),
         known' \in Nat, known <= known', known' <= revision
  PROVE  Served'
<1>1. /\ epoch' = epoch /\ session' = session /\ revision' = revision
      /\ phase' = phase /\ requestedAt' = requestedAt /\ shown' = shown
      /\ (Live(epoch)' <=> Live(epoch)) /\ Said' = Said
      /\ known \in Nat /\ requestedAt \in Nat \union {-1} /\ revision \in Nat
  BY DEF object, Live, Said, Elems, Inv, Numbers
<1>2. /\ InFlight = {Head(down)} \union InFlight' /\ Head(down).kind = "answer"
      /\ Notice(revision).kind = "notice"
  BY Landed
<1>3. requestedAt' <= known'
  BY <1>1 DEF Served
<1>4. Latest => Latest'
  BY <1>1, <1>2 DEF Latest
<1>5. ASSUME NEW k \in DOMAIN pending'
      PROVE  \E j \in DOMAIN pending : pending'[k] = pending[j] /\ pending[j] # pending[i]
  <2> DEFINE j == IF k < i THEN k ELSE k + 1
  <2>1. pending \in Seq(Entries)
    BY DEF Inv, Outbox
  <2>2. /\ pending' \in Seq(Entries) /\ Len(pending') = Len(pending) - 1
        /\ pending'[k] = pending[j]
    BY ZenonT(60), <1>5, <2>1, SeqWithout DEF Without
  <2>3. j \in DOMAIN pending /\ j # i
    BY <1>5, <2>1, <2>2
  <2>4. pending[j] # pending[i]
    BY <2>3 DEF Inv, Control
  <2> QED
    BY <2>2, <2>3, <2>4
<1>6. ASSUME Promised PROVE Promised'
  <2>1. Awaited => Awaited'
    BY <1>1, <1>2 DEF Awaited
  <2>2. UpToDate => UpToDate'
    <3>1. ASSUME UpToDate, NEW k \in DOMAIN pending'
          PROVE  Command(pending'[k]) \in Said' \/ Answered(pending[k])'
      <4>1. PICK j \in DOMAIN pending : pending'[k] = pending[j] /\ pending[j] # pending[i]
        BY <1>5, <3>1
      <4>2. Command(pending[j]) \in Said \/ Answered(pending[j])
        BY <3>1 DEF UpToDate
      <4>3. Answered(pending[j]) => Answered(pending[k])'
        BY <1>2, <4>1 DEF Answered
      <4> QED
        BY <1>1, <4>1, <4>2, <4>3
    <3>2. ASSUME UpToDate PROVE phase' = "open" /\ (shown' < revision' => Latest')
      BY <1>1, <1>4, <3>2 DEF UpToDate
    <3> QED
      BY <3>1, <3>2 DEF UpToDate, Command
  <2>3. Refused => Refused'
    BY <1>2 DEF Refused
  <2>4. Awaited \/ UpToDate \/ Refused
    BY <1>6 DEF Promised, Reachable
  <2>5. ASSUME NEW f \in InFlight', f.kind = "snapshot"
        PROVE  /\ Authenticated(epoch)'
               /\ f.revision < revision' => Latest' \/ known' = revision'
    BY <1>1, <1>2, <1>4, <1>6, <2>5 DEF Promised, Authenticated
  <2> QED
    BY <1>1, <1>6, <2>1, <2>2, <2>3, <2>4, <2>5 DEF Promised, Authenticated
<1> QED
  BY <1>1, <1>3, <1>6 DEF Served

LEMMA AnswerServed ==
  ASSUME Inv, Served, ReceiveAnswer
  PROVE  Served'
<1> DEFINE a == Head(down)
<1>1. Arrives("answer") /\ UNCHANGED <<epoch, cut, mishaps, object>>
  BY DEF ReceiveAnswer
<1>2. a \in Frames /\ Expected(a) /\ a.kind = "answer"
  BY <1>1, Arrived
<1>3. a.current \in Nat /\ a.current <= revision /\ a # Notice(revision)
  BY <1>2 DEF Frames, Expected, Notice
<1>4. CASE \/ phase \notin {"open", "resyncing"}
           \/ \A i \in DOMAIN pending : pending[i] # a.entry
  <2>1. Dropped
    BY <1>4 DEF ReceiveAnswer
  <2> QED
    BY <1>1, <1>4, <2>1, DroppedServed
<1>5. CASE ~(\/ phase \notin {"open", "resyncing"}
             \/ \A i \in DOMAIN pending : pending[i] # a.entry)
  <2>1. Settles(a) /\ Consumed
    BY <1>5 DEF ReceiveAnswer
  <2>2. PICK i \in DOMAIN pending :
          /\ pending[i] = a.entry /\ pending' = Without(i)
          /\ known' = Larger(known, a.current)
          /\ \/ RequestProjection(known', armed \ {a.entry.id})
             \/ UNCHANGED <<phase, requestedAt, up>>
          /\ UNCHANGED <<linked, shown>>
    BY <2>1 DEF Settles
  <2>3. known' \in Nat /\ known <= known' /\ known' <= revision
    BY <1>3, <2>2 DEF Larger, Inv, Numbers, Known
  <2>4. CASE RequestProjection(known', armed \ {a.entry.id})
    BY <1>1, <1>3, <1>5, <2>1, <2>2, <2>3, <2>4, AsksServed
  <2>5. CASE UNCHANGED <<phase, requestedAt, up>>
    BY <1>1, <1>5, <2>1, <2>2, <2>3, <2>5, SettledServed
  <2> QED
    BY <2>2, <2>4, <2>5
<1> QED
  BY <1>4, <1>5

LEMMA NextServed ==
  ASSUME Inv, Spoke, Served, [Next]_vars
  PROVE  Served'
<1>1. CASE Disconnect \/ HearsOfTheEnd \/ Deadline \/ ReceiveError \/ Cut
  BY <1>1, LeaveServed
<1>2. CASE Connect \/ RecoveryFires \/ OnOpen
  BY <1>2, OpenServed, OnOpenServed
<1>3. CASE \E c \in Commands : Submit(c)
  BY <1>3, SubmitServed
<1>4. CASE ReceiveReady \/ ReceiveHello \/ ReceiveNotice \/ ReceiveSnapshot \/ ReceiveAnswer
  BY <1>4, ReadyServed, HelloServed, NoticeServed, SnapshotServed, AnswerServed
<1>5. CASE AcceptUpgrade \/ LeaseExpires \/ \E e \in Epochs : NoticeClose(e)
  BY <1>5, QuietObjectServed
<1>6. CASE OthersCommand
  BY <1>6, OthersServed
<1>7. CASE \E e \in Epochs : Serve(e)
  BY <1>7, ServeServed
<1>8. CASE UNCHANGED vars
  <2>1. /\ UNCHANGED <<phase, epoch, linked, cut, session, revision, pending, up, down>>
        /\ UNCHANGED <<known, shown, requestedAt>>
    BY <1>8 DEF vars, views, outbox, links, object
  <2>2. Said' = Said /\ InFlight' = InFlight /\ (Live(epoch)' <=> Live(epoch))
    BY <2>1 DEF Said, InFlight, Elems, Live
  <2>3. Promised => Promised'
    BY <2>1, <2>2 DEF Promised, Reachable, Awaited, UpToDate, Refused, Answered,
                      Latest, Authenticated
  <2> QED
    BY <2>1, <2>2, <2>3 DEF Served
<1> QED
  BY <1>1, <1>2, <1>3, <1>4, <1>5, <1>6, <1>7, <1>8 DEF Next, Receive

LEMMA AlwaysServed == Spec => [](Inv /\ Spoke /\ Served)
BY InitInv, InitSpoke, InitServed, NextInv, NextSpoke, NextServed, PTL DEF Spec

-----------------------------------------------------------------------------
(* The properties *)

(* Whatever the client waits for, a deadline will end the wait
   (scheduleHandshakeDeadline, scheduleProjectionResponseDeadline,
   scheduleCommandResponseDeadline, scheduleRecovery). *)
THEOREM WaitsEnd == Spec => []EveryWaitHasADeadline
<1>1. Inv => EveryWaitHasADeadline
  BY DEF Inv
<1> QED
  BY <1>1, Always, PTL

(* ... and over a connection that lives the answer is on its way, or a refusal
   is, and a view that is behind will be told so: no request, command or
   revision is forgotten by an object that answers and a client that drops what
   it does not expect (requestProjection, replayPending, broadcastRevision,
   handleInbound). *)
THEOREM NobodyWaits == Spec => []NobodyWaitsInVain
<1>1. ASSUME Inv, Spoke, Served PROVE NobodyWaitsInVain
  <2>1. EveryWaitHasADeadline
    BY <1>1 DEF Inv
  <2>2. ASSUME linked, epoch \notin cut PROVE AnswersAreComing
    <3>1. Promised
      BY <1>1, <2>2 DEF Served, Live
    <3>2. /\ \A kind : (\E f \in InFlight : f.kind = kind) => OnItsWay(kind)
          /\ \A kind : (\E q \in Said : q.kind = kind) => Asked(kind)
      BY DEF InFlight, Said, Elems, OnItsWay, Asked
    <3>3. CASE Reachable
      BY <3>2, <3>3 DEF Reachable, AnswersAreComing
    <3>4. CASE Awaited
      BY <3>2, <3>4 DEF Awaited, AnswersAreComing
    <3>5. CASE UpToDate
      <4>1. \A i \in DOMAIN pending : Underway(pending[i])
        BY <3>5 DEF UpToDate, Answered, Underway, InFlight, Said, Elems
      <4>2. Latest => OnItsWay("notice")
        <5>1. Notice(revision).kind = "notice"
          BY DEF Notice
        <5> QED
          BY <3>2, <5>1 DEF Latest
      <4> QED
        BY <3>5, <4>1, <4>2 DEF UpToDate, AnswersAreComing
    <3>6. CASE Refused
      BY <3>2, <3>6 DEF Refused, AnswersAreComing
    <3> QED
      BY <3>1, <3>3, <3>4, <3>5, <3>6 DEF Promised
  <2> QED
    BY <2>1, <2>2 DEF NobodyWaitsInVain
<1> QED
  BY <1>1, AlwaysServed, PTL

(* The client fails for good after too many recoveries in a row or because a
   connection of its own kept the lease; never because a frame was behind the
   one before it (failTerminalConnection). *)
THEOREM FailsForAReason == Spec => []GivesUpForAReason
<1>1. Inv => GivesUpForAReason
  BY Types DEF Inv, Reasons, GivesUpForAReason
<1> QED
  BY <1>1, Always, PTL

(* What the player is told of a command is what became of it, however often it
   was sent and over however many connections (replayPending, handleInbound,
   handleVariableCommand): a command that is shown as rejected was bound to a
   revision that is past, so that no copy of it can still be accepted. *)
THEOREM TheOutcomeIsTold == Spec => []SettledAsDecided
<1>1. Inv /\ Spoke /\ Settling => SettledAsDecided
  BY DEF Settling
<1> QED
  BY <1>1, AlwaysSettling, PTL
=============================================================================
