--------------------------- MODULE BrowserClient ---------------------------
(***************************************************************************)
(* The WebSocket client of a player's browser, over the connections to the *)
(* Durable Object of an active room: the handshake, the outbox of commands *)
(* and its replay, projections and revision notices, the deadlines, and    *)
(* recovery from connections that end.                                     *)
(*                                                                         *)
(* A connection is known by its epoch.  What the client sends on one       *)
(* arrives in order, also after the client has turned to another; what     *)
(* arrives from one it has left is ignored (current), so only the frames   *)
(* on their way to it over the present connection are kept.  A connection  *)
(* may die without either side being told.  The object is what the sockets *)
(* of one participant see of it: a revision that other players advance as  *)
(* well, a receipt of each command, the controller lease and presence.     *)
(***************************************************************************)
EXTENDS Integers, Sequences, FiniteSets

CONSTANTS
  Commands,      \* the commands the player submits, each with its identifier
  Unplayable,    \* those that the Core refuses
  Delays,        \* ONLINE_BROWSER_RECONNECT_DELAYS_MS_V1.length
  MaxOutbox,     \* ONLINE_BROWSER_MAX_OUTBOX_ENTRIES_V1
  MaxMishaps     \* how often the user connects, a connection dies, a deadline
                 \* is missed by one that lives, or another player's command
                 \* is accepted (a bound)

ASSUME ClientAssumption ==
  /\ Commands \cap {"handshake", "projection", "recovery"} = {}
  /\ Unplayable \subseteq Commands
  /\ Delays \in Nat /\ MaxOutbox \in Nat
  /\ MaxMishaps \in Nat

(* Every connection is due to one mishap. *)
Epochs == 1 .. MaxMishaps

(* The client *)
VARIABLES
  phase,        \* OnlineBrowserPhaseV1
  epoch,        \* connectionEpoch
  linked,       \* currentSocket is not null; it is the one of this epoch
  known,        \* knownRevision
  shown,        \* lastProjectedRevision, the revision of the projection
  greetedAt,    \* currentReadyRevision, -1 for null
  requested,    \* projectionRequestSent
  requestedAt,  \* requestedProjectionRevision
  attempt,      \* recoveryAttempt
  timeouts,     \* commandTimeoutRecoveryAttempt
  armed,        \* the deadlines that are scheduled: handshake, projection,
                \* recovery, and those of commands
  pending,      \* the outbox
  settled,      \* how each command was settled
  issue         \* issueCode of a terminal failure

(* The connections *)
VARIABLES
  up,           \* the frames on their way to the object
  down,         \* the frames on their way to the client
  cut,          \* the connections that died
  mishaps       \* how many there were

(* The object *)
VARIABLES
  session,      \* the attachment of each connection
  revision,
  receipts,     \* the revision at which a command was accepted, 0 if it is not
  holder,       \* the connection that has the controller lease, 0 for none
  present       \* whether the participant is connected

timers == <<armed, attempt, timeouts>>
views == <<known, shown, greetedAt, requested, requestedAt>>
outbox == <<pending, settled>>
links == <<up, down, cut>>
object == <<session, revision, receipts, holder, present>>
vars == <<phase, epoch, linked, timers, views, outbox, issue, links, mishaps,
          object>>

Entries == [id : Commands, base : Nat]
Ids == {pending[i].id : i \in DOMAIN pending}

(* What the client sends, and what it is sent *)
Requests ==
  [kind : {"hello", "project"}] \union [kind : {"command"}, entry : Entries]
Frames ==
  [kind : {"ready", "hello", "notice", "snapshot"}, revision : Nat]
  \union [kind : {"answer"}, entry : Entries,
          outcome : {"accepted", "rejected"}, current : Nat, resync : BOOLEAN]
  \union [kind : {"error"}, code : {"CONTROLLER_LEASE_REQUIRED"}]

Phases == {"idle", "connecting", "awaiting-ready", "authenticating",
           "resyncing", "open", "recovering", "failed", "closed"}
Handshaking == {"connecting", "awaiting-ready", "authenticating"}

Init ==
  /\ phase = "idle" /\ epoch = 0 /\ linked = FALSE
  /\ known = 0 /\ shown = -1 /\ greetedAt = -1
  /\ requested = FALSE /\ requestedAt = -1
  /\ attempt = 0 /\ timeouts = 0 /\ armed = {}
  /\ pending = <<>> /\ settled = [c \in Commands |-> "no"] /\ issue = "none"
  /\ up = [e \in Epochs |-> <<>>] /\ down = <<>> /\ cut = {} /\ mishaps = 0
  /\ session = [e \in Epochs |-> "none"]
  /\ revision = 0 /\ receipts = [c \in Commands |-> 0]
  /\ holder = 0 /\ present \in BOOLEAN

-----------------------------------------------------------------------------
(* Connections *)

Live(e) == linked /\ e = epoch /\ e \notin cut

Mishap == mishaps < MaxMishaps /\ mishaps' = mishaps + 1

(* What the client sends over a connection that died is lost. *)
Sent(frames) ==
  IF epoch \in cut THEN up ELSE [up EXCEPT ![epoch] = @ \o frames]

Command(entry) == [kind |-> "command", entry |-> entry]
Replayed_First == [i \in DOMAIN pending \cap {1} |-> Command(pending[i])]
Replayed == [i \in DOMAIN pending |-> Command(pending[i])]

(* The connection dies, with what was on its way to the client and, from some
   point on, to the object; nobody is told. *)
Cut ==
  /\ linked /\ epoch \notin cut
  /\ Mishap
  /\ cut' = cut \union {epoch}
  /\ \E n \in 0 .. Len(up[epoch]) :
       up' = [up EXCEPT ![epoch] = SubSeq(@, 1, n)]
  /\ down' = <<>>
  /\ UNCHANGED <<phase, epoch, linked, timers, views, outbox, issue, object>>

-----------------------------------------------------------------------------
(* The client: connecting and recovering *)

OpenSocket_StillAsking ==
  /\ epoch' = epoch + 1
  /\ phase' = "connecting"
  /\ linked' = TRUE
  /\ greetedAt' = -1
  /\ armed' = {"handshake"}
  /\ down' = <<>>
  /\ UNCHANGED requested
OpenSocket ==
  /\ epoch' = epoch + 1
  /\ phase' = "connecting"
  /\ linked' = TRUE
  /\ requested' = FALSE
  /\ greetedAt' = -1
  /\ armed' = {"handshake"}
  /\ down' = <<>>

(* failTerminalConnection: the outbox is kept. *)
FailTerminal(code, missed) ==
  /\ phase' = "failed"
  /\ issue' = code
  /\ linked' = FALSE
  /\ armed' = {}
  /\ down' = <<>>
  /\ timeouts' = IF pending = <<>> THEN 0 ELSE missed
  /\ UNCHANGED attempt

MayRetry_OneShort == attempt + 1 < Delays
MayRetry == attempt < Delays

(* beginRecovery and scheduleRecovery *)
BeginRecovery(missed) ==
  IF MayRetry
  THEN /\ phase' = "recovering"
       /\ attempt' = attempt + 1
       /\ timeouts' = missed
       /\ linked' = FALSE
       /\ armed' = {"recovery"}
       /\ down' = <<>>
       /\ UNCHANGED issue
  ELSE FailTerminal("RECONNECT_EXHAUSTED", missed)

Connect ==
  /\ phase \in {"idle", "recovering", "failed", "closed"}
  /\ Mishap
  /\ OpenSocket
  /\ attempt' = 0
  /\ issue' = "none"
  /\ UNCHANGED <<known, shown, requestedAt, timeouts, outbox, up, cut,
                 object>>

Disconnect ==
  /\ phase # "closed"
  /\ phase' = "closed"
  /\ linked' = FALSE
  /\ armed' = {}
  /\ down' = <<>>
  /\ issue' = "none"
  /\ UNCHANGED <<epoch, attempt, timeouts, views, outbox, up, cut,
                 mishaps, object>>

RecoveryFires ==
  /\ phase = "recovering" /\ "recovery" \in armed
  /\ OpenSocket
  /\ UNCHANGED <<known, shown, requestedAt, attempt, timeouts, outbox, issue,
                 up, cut, mishaps, object>>

(* onclose or onerror, of a connection that died *)
HearsOfTheEnd ==
  /\ linked /\ epoch \in cut
  /\ BeginRecovery(timeouts)
  /\ UNCHANGED <<epoch, views, outbox, up, cut, mishaps, object>>

(* A deadline passes because the connection is dead, or, as a mishap, because
   it is slow. *)
Late == IF epoch \in cut THEN UNCHANGED mishaps ELSE Mishap

HandshakeExpires ==
  /\ "handshake" \in armed /\ linked /\ phase \in Handshaking
  /\ Late
  /\ BeginRecovery(timeouts)
  /\ UNCHANGED <<epoch, views, outbox, up, cut, object>>

ProjectionExpires ==
  /\ "projection" \in armed /\ linked /\ requested /\ phase = "resyncing"
  /\ Late
  /\ BeginRecovery(timeouts)
  /\ UNCHANGED <<epoch, views, outbox, up, cut, object>>

(* Recoveries that follow an unanswered command are counted apart, since a
   projection resets the count of the others. *)
CommandExpires(c) ==
  /\ c \in armed /\ linked /\ c \in Ids
  /\ Late
  /\ IF timeouts < Delays THEN BeginRecovery(timeouts + 1)
     ELSE FailTerminal("RECONNECT_EXHAUSTED", timeouts)
  /\ UNCHANGED <<epoch, views, outbox, up, cut, object>>

OnOpen ==
  /\ phase = "connecting" /\ linked
  /\ session[epoch] = "open"
  /\ phase' = "awaiting-ready"
  /\ UNCHANGED <<epoch, linked, timers, views, outbox, issue, links, mishaps,
                 object>>

-----------------------------------------------------------------------------
(* The client: commands.  An intent is bound to the revision that is shown. *)

Submit(c) ==
  LET entry == [id |-> c, base |-> shown]
  IN  /\ shown >= 0
      /\ c \notin Ids /\ settled[c] = "no"
      /\ Len(pending) < MaxOutbox
      /\ pending' = Append(pending, entry)
      /\ IF phase = "open"
         THEN up' = Sent(<<Command(entry)>>) /\ armed' = armed \union {c}
         ELSE UNCHANGED <<up, armed>>
      /\ UNCHANGED <<phase, epoch, linked, attempt, timeouts, views, settled,
                     issue, down, cut, mishaps, object>>

-----------------------------------------------------------------------------
(* The client: handleInbound.  Each takes the first frame on its way, once the
   socket is open. *)

Larger(i, j) == IF i > j THEN i ELSE j

(* handleProjectionRequest, when the client knows of the revision r and the
   given deadlines are armed *)
RequestProjection(r, deadlines) ==
  IF requested
  THEN /\ armed' = deadlines
       /\ UNCHANGED <<phase, requested, requestedAt, up>>
  ELSE /\ phase' = "resyncing"
       /\ requested' = TRUE
       /\ requestedAt' = r
       /\ up' = Sent(<<[kind |-> "project"]>>)
       /\ armed' = deadlines \union {"projection"}

Arrives(kind) ==
  /\ linked /\ down # <<>>
  /\ Head(down).kind = kind
  /\ phase # "connecting"

Consumed == down' = Tail(down)

(* A frame that means nothing now is dropped. *)
Dropped ==
  /\ Consumed
  /\ UNCHANGED <<phase, linked, timers, views, outbox, issue, up>>

ReceiveReady ==
  /\ Arrives("ready")
  /\ LET r == Head(down).revision
     IN  IF phase # "awaiting-ready" THEN Dropped
         ELSE IF r < Larger(known, shown)
         THEN /\ FailTerminal("INVALID_FRAME", timeouts)
              /\ UNCHANGED <<views, outbox, up>>
         ELSE /\ phase' = "authenticating"
              /\ greetedAt' = r
              /\ up' = Sent(<<[kind |-> "hello"]>>)
              /\ Consumed
              /\ UNCHANGED <<linked, timers, known, shown, requested,
                             requestedAt, outbox, issue>>
  /\ UNCHANGED <<epoch, cut, mishaps, object>>

ReceiveHello ==
  /\ Arrives("hello")
  /\ LET r == Head(down).revision
     IN  IF phase # "authenticating" THEN Dropped
         ELSE IF r < greetedAt \/ r < Larger(known, shown)
         THEN /\ FailTerminal("INVALID_FRAME", timeouts)
              /\ UNCHANGED <<views, outbox, up>>
         ELSE /\ known' = Larger(known, r)
              /\ RequestProjection(known', armed \ {"handshake"})
              /\ Consumed
              /\ UNCHANGED <<linked, attempt, timeouts, shown, greetedAt,
                             outbox, issue>>
  /\ UNCHANGED <<epoch, cut, mishaps, object>>

ReceiveNotice ==
  /\ Arrives("notice")
  /\ LET r == Head(down).revision
     IN  IF phase \notin {"open", "resyncing"} \/ r < shown THEN Dropped
         ELSE /\ known' = Larger(known, r)
              /\ RequestProjection(known', armed)
              /\ Consumed
              /\ UNCHANGED <<linked, attempt, timeouts, shown, greetedAt,
                             outbox, issue>>
  /\ UNCHANGED <<epoch, cut, mishaps, object>>

(* A projection from before the handshake is none of this connection; one from
   before what the client knows of is asked for again if the request was made
   before that too; else it is shown, and every command of the outbox is sent
   again. *)
ReceiveSnapshot ==
  /\ Arrives("snapshot")
  /\ LET r == Head(down).revision
     IN  IF phase # "resyncing" \/ (greetedAt <= r /\ r < known
                                   /\ ~(requested /\ requestedAt < known))
         THEN Dropped
         ELSE IF r < greetedAt
         THEN /\ FailTerminal("INVALID_FRAME", timeouts)
              /\ UNCHANGED <<views, outbox, up>>
         ELSE IF r < known
         THEN /\ requestedAt' = known
              /\ up' = Sent(<<[kind |-> "project"]>>)
              /\ armed' = armed \union {"projection"}
              /\ Consumed
              /\ UNCHANGED <<phase, linked, attempt, timeouts, known, shown,
                             greetedAt, requested, outbox, issue>>
         ELSE /\ known' = r /\ shown' = r
              /\ requested' = FALSE /\ requestedAt' = -1
              /\ attempt' = 0
              /\ phase' = "open"
              /\ up' = Sent(Replayed)
              /\ armed' = (armed \ {"projection"}) \union Ids
              /\ Consumed
              /\ UNCHANGED <<linked, timeouts, greetedAt, outbox, issue>>
  /\ UNCHANGED <<epoch, cut, mishaps, object>>

Without(i) == SubSeq(pending, 1, i - 1) \o SubSeq(pending, i + 1, Len(pending))

(* An acknowledgement or a rejection settles the command it answers. *)
Settles(a) ==
  \E i \in DOMAIN pending :
    /\ pending[i] = a.entry
    /\ pending' = Without(i)
    /\ settled' = [settled EXCEPT ![a.entry.id] = a.outcome]
    /\ known' = Larger(known, a.current)
    /\ timeouts' = IF pending' = <<>> THEN 0 ELSE timeouts
    /\ IF \/ a.outcome = "accepted" /\ a.current > shown
          \/ a.outcome = "rejected" /\ a.resync
       THEN RequestProjection(known', armed \ {a.entry.id})
       ELSE /\ armed' = armed \ {a.entry.id}
            /\ UNCHANGED <<phase, requested, requestedAt, up>>
    /\ UNCHANGED <<linked, shown, greetedAt, attempt, issue>>

ReceiveAnswer ==
  /\ Arrives("answer")
  /\ IF \/ phase \notin {"open", "resyncing"}
        \/ \A i \in DOMAIN pending : pending[i] # Head(down).entry
     THEN Dropped
     ELSE Settles(Head(down)) /\ Consumed
  /\ UNCHANGED <<epoch, cut, mishaps, object>>

ReceiveError ==
  /\ Arrives("error")
  /\ FailTerminal(Head(down).code, timeouts)
  /\ UNCHANGED <<epoch, views, outbox, up, cut, mishaps, object>>

Receive ==
  \/ ReceiveReady \/ ReceiveHello \/ ReceiveNotice
  \/ ReceiveSnapshot \/ ReceiveAnswer \/ ReceiveError

-----------------------------------------------------------------------------
(* The object *)

browser == <<phase, epoch, linked, timers, views, outbox, issue, cut>>
client == <<browser, mishaps>>

(* What it sends to a connection the client has left goes nowhere. *)
SentTo(e, frames) == IF Live(e) THEN down \o frames ELSE down

Authenticated(e) == session[e] = "authenticated"
Notice(r) == [kind |-> "notice", revision |-> r]

(* broadcastRevision reaches the client by its present connection *)
Announced(r) ==
  IF \E e \in Epochs : Live(e) /\ Authenticated(e) THEN <<Notice(r)>> ELSE <<>>

AcceptUpgrade ==
  /\ phase = "connecting" /\ Live(epoch) /\ session[epoch] = "none"
  /\ session' = [session EXCEPT ![epoch] = "open"]
  /\ down' = Append(down, [kind |-> "ready", revision |-> revision])
  /\ UNCHANGED <<client, up, revision, receipts, holder, present>>

Takes(e, kind) ==
  /\ session[e] \in {"open", "authenticated"}
  /\ up[e] # <<>>
  /\ Head(up[e]).kind = kind
  /\ up' = [up EXCEPT ![e] = Tail(@)]
  /\ UNCHANGED client

(* handleVariableHello *)
ServeHello(e) ==
  /\ Takes(e, "hello")
  /\ session' = [session EXCEPT ![e] = "authenticated"]
  /\ down' = SentTo(e, <<[kind |-> "hello", revision |-> revision]>>)
  /\ UNCHANGED <<revision, receipts, holder, present>>

(* handleVariableProjection: whoever was absent is back, which is announced
   before the projection is sent *)
ServeProjection(e) ==
  /\ Takes(e, "project")
  /\ present' = TRUE
  /\ down' = SentTo(e, (IF present THEN <<>> ELSE <<Notice(revision)>>)
                       \o <<[kind |-> "snapshot", revision |-> revision]>>)
  /\ UNCHANGED <<session, revision, receipts, holder>>

Answer(entry, outcome, current, resync) ==
  <<[kind |-> "answer", entry |-> entry, outcome |-> outcome,
     current |-> current, resync |-> resync]>>

HasLease(e) == holder \in {0, e}

Accepts(entry) ==
  /\ present /\ receipts[entry.id] = 0
  /\ entry.base = revision /\ entry.id \notin Unplayable

(* handleVariableCommand: another connection has the lease *)
RefuseControl(e) ==
  /\ Takes(e, "command")
  /\ ~HasLease(e)
  /\ down' = SentTo(e, <<[kind |-> "error",
                          code |-> "CONTROLLER_LEASE_REQUIRED"]>>)
  /\ UNCHANGED object

(* ... it is refused, or answered from its receipt *)
AnswerCommand(e) ==
  /\ Takes(e, "command")
  /\ HasLease(e)
  /\ holder' = e
  /\ LET entry == Head(up[e]).entry
         stored == receipts[entry.id] # 0
         stale == present /\ ~stored /\ entry.base # revision
     IN  /\ ~Accepts(entry)
         /\ down' = SentTo(e, Answer(entry,
                      IF present /\ stored THEN "accepted" ELSE "rejected",
                      revision, stale))
  /\ UNCHANGED <<session, revision, receipts, present>>

(* ... or it is accepted, acknowledged and announced *)
AcceptCommand(e) ==
  /\ Takes(e, "command")
  /\ HasLease(e)
  /\ holder' = e
  /\ LET entry == Head(up[e]).entry
     IN  /\ Accepts(entry)
         /\ revision' = revision + 1
         /\ receipts' = [receipts EXCEPT ![entry.id] = revision + 1]
         /\ down' = SentTo(e, Answer(entry, "accepted", revision', FALSE))
                    \o Announced(revision')
  /\ UNCHANGED <<session, present>>

(* A command of another player *)
OthersCommand ==
  /\ Mishap
  /\ revision' = revision + 1
  /\ down' = down \o Announced(revision')
  /\ UNCHANGED <<browser, up, session, receipts, holder, present>>

LeaseExpires ==
  /\ holder # 0
  /\ holder' = 0
  /\ UNCHANGED <<client, up, down, session, revision, receipts, present>>

Elsewhere_Unchecked(e) == FALSE
Elsewhere(e) == \E o \in Epochs \ {e} : Authenticated(o)

(* webSocketClose of a connection that had authenticated, once the frames
   before it were taken: its lease is dropped, and the participant is absent
   if no other of its connections has authenticated *)
NoticeClose(e) ==
  /\ Authenticated(e)
  /\ ~Live(e) /\ up[e] = <<>>
  /\ session' = [session EXCEPT ![e] = "closed"]
  /\ holder' = IF holder = e THEN 0 ELSE holder
  /\ present' = (present /\ Elsewhere(e))
  /\ UNCHANGED <<client, up, down, revision, receipts>>

-----------------------------------------------------------------------------
Deadline ==
  HandshakeExpires \/ ProjectionExpires \/ \E c \in Commands : CommandExpires(c)

Serve(e) ==
  \/ ServeHello(e) \/ ServeProjection(e)
  \/ RefuseControl(e) \/ AnswerCommand(e) \/ AcceptCommand(e)

Next ==
  \/ Connect \/ Disconnect \/ RecoveryFires \/ HearsOfTheEnd \/ OnOpen
  \/ Deadline
  \/ \E c \in Commands : Submit(c)
  \/ Receive
  \/ Cut
  \/ AcceptUpgrade \/ OthersCommand \/ LeaseExpires
  \/ \E e \in Epochs : Serve(e) \/ NoticeClose(e)

Spec == Init /\ [][Next]_vars

(* A live connection delivers and the object answers; timers fire.  The
   deadlines need to pass on a dead connection only, and nothing is assumed of
   when either side hears of its end, nor of the user. *)
Progress ==
  \/ RecoveryFires \/ OnOpen \/ Receive \/ AcceptUpgrade
  \/ epoch \in cut /\ Deadline
  \/ \E e \in Epochs : Serve(e)

FairSpec == Spec /\ WF_vars(Progress)

-----------------------------------------------------------------------------
(* Properties *)

TypeOK ==
  /\ phase \in Phases
  /\ epoch \in Nat /\ mishaps \in 0 .. MaxMishaps
  /\ linked \in BOOLEAN /\ requested \in BOOLEAN /\ present \in BOOLEAN
  /\ known \in Nat
  /\ {shown, greetedAt, requestedAt} \subseteq Nat \union {-1}
  /\ attempt \in 0 .. Delays /\ timeouts \in 0 .. Delays
  /\ armed \subseteq Commands \union {"handshake", "projection", "recovery"}
  /\ pending \in Seq(Entries) /\ Len(pending) <= MaxOutbox
  /\ issue \in {"none", "INVALID_FRAME", "RECONNECT_EXHAUSTED",
               "CONTROLLER_LEASE_REQUIRED"}
  /\ up \in [Epochs -> Seq(Requests)] /\ down \in Seq(Frames)
  /\ cut \subseteq Epochs
  /\ settled \in [Commands -> {"no", "accepted", "rejected"}]
  /\ session \in [Epochs -> {"none", "open", "authenticated", "closed"}]
  /\ revision \in Nat
  /\ receipts \in [Commands -> 0 .. revision]
  /\ holder \in Epochs \union {0}

(* What the player is told of a command is what became of it: one that is
   shown as accepted was applied, one shown as rejected never is, although it
   may have been sent over several connections and its frames may still be
   under way. *)
SettledAsDecided ==
  \A c \in Commands :
    /\ settled[c] = "accepted" => receipts[c] # 0
    /\ settled[c] = "rejected" => receipts[c] = 0

(* Whoever waits has a deadline that will end the wait; over a connection that
   lives what it waits for is also on its way, or a refusal is, and a view
   that is behind will be told so. *)
OnItsWay(kind) == \E i \in DOMAIN down : down[i].kind = kind
Asked(kind) == \E i \in DOMAIN up[epoch] : up[epoch][i].kind = kind

EveryWaitHasADeadline ==
  /\ phase \in Handshaking => linked /\ "handshake" \in armed
  /\ phase = "resyncing" => linked /\ requested /\ "projection" \in armed
  /\ phase = "open" => linked /\ Ids \subseteq armed
  /\ phase = "recovering" => "recovery" \in armed

Underway(entry) ==
  \/ \E i \in DOMAIN up[epoch] : up[epoch][i] = Command(entry)
  \/ \E i \in DOMAIN down : down[i].kind = "answer" /\ down[i].entry = entry

AnswersAreComing ==
  \/ phase = "connecting" /\ session[epoch] \in {"none", "open"}
  \/ phase = "awaiting-ready" /\ OnItsWay("ready")
  \/ phase = "authenticating" /\ (Asked("hello") \/ OnItsWay("hello"))
  \/ phase = "resyncing" /\ (Asked("project") \/ OnItsWay("snapshot"))
  \/ /\ phase = "open"
     /\ \A i \in DOMAIN pending : Underway(pending[i])
     /\ shown < revision => OnItsWay("notice")
  \/ OnItsWay("error")

NobodyWaitsInVain ==
  /\ EveryWaitHasADeadline
  /\ linked /\ epoch \notin cut => AnswersAreComing

(* The client gives up a room that answers it for two reasons only: too many
   recoveries in a row, or the controller lease is still with a connection of
   its own that it has left.  It never takes the room's answers for those of
   another or of an older one. *)
GivesUpForAReason ==
  /\ TypeOK
  /\ phase = "failed" =>
       \/ issue = "RECONNECT_EXHAUSTED" /\ Delays \in {attempt, timeouts}
       \/ issue = "CONTROLLER_LEASE_REQUIRED"

(* In the end the client has given up, was closed, or every command it was
   given is settled and it shows the newest revision, unless its connection
   died while it waited for nothing. *)
AtRest ==
  \/ phase \in {"idle", "failed", "closed"}
  \/ phase = "open" /\ pending = <<>> /\ (epoch \in cut \/ shown = revision)
ComesToRest == <>[]AtRest
=============================================================================
