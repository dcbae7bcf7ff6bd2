----------------------------- MODULE RoomStore -----------------------------
(***************************************************************************)
(* The rows a Durable Object keeps of a room of protocol version 1, and    *)
(* how it finds its way back after an eviction: the room row, the journal  *)
(* of the accepted commands, the checkpoint a replay starts from, and the  *)
(* marker by which a version of the program trusts the rows unread.        *)
(*                                                                         *)
(* Every handler is synchronous between loading the room and storing what  *)
(* became of it, so that requests do not interleave; but each of its       *)
(* transactions is durable alone, and an eviction may fall between two of  *)
(* them.  The table is abstracted to the commands that led to it.          *)
(***************************************************************************)
EXTENDS Naturals, Sequences, FiniteSets

CONSTANTS
  Players,       \* the participants that play
  Plays,         \* the commands that leave their author in the game
  Concession,    \* the command that does not
  Interval,      \* 64: a checkpoint is due at each multiple of it
  Versions,      \* the version identifiers a deployment may have
  NoVersion,     \* a deployment without a version identifier
  Down,          \* no instance of the Durable Object is running
  NoRow,         \* an empty table
  Absentees,     \* the players whose sockets close (a bound)
  MaxLegacy,     \* a bound on the revision of a room from before checkpoints
  MaxRevision    \* a bound on the accepted commands

Deployments == Versions \union {NoVersion}
Kinds == Plays \union {Concession}
Commands == [author : Players, kind : Kinds]
States == [core : Seq(Commands), connected : SUBSET Players]
Checkpoints == [revision : Nat, state : States]
Markers == [version : Versions, revision : Nat, checkpointRevision : Nat,
            journalCount : Nat, digest : States]

ASSUME StoreAssumption ==
  /\ Cardinality(Players) >= 2
  /\ Interval \in Nat \ {0}
  /\ MaxLegacy \in Nat
  /\ MaxRevision \in Nat
  /\ Absentees \subseteq Players
  /\ Concession \notin Plays
  /\ NoVersion \notin Versions
  /\ Down \notin Versions \union {NoVersion}
  /\ NoRow \notin States \union Checkpoints \union Markers

VARIABLES
  room,          \* online_room_state: the state of the room
  journal,       \* online_accepted_command, by accepted revision
  checkpoint,    \* online_recovery_checkpoint: revision and state
  marker,        \* online_recovery_verification
  version,       \* the version of the instance that runs, or Down
  request,       \* what the handler that runs has loaded and means to store
  acked          \* history: the revisions whose acknowledgement was sent

rows == <<room, journal, checkpoint, marker>>
vars == <<room, journal, checkpoint, marker, version, request, acked>>

NoRequest == [kind |-> "none"]
Revision(state) == Len(state.core)

(***************************************************************************)
(* The command handler, as far as the replay depends on it.                *)
(***************************************************************************)
Pending(core) ==
  {p \in Players : \A i \in DOMAIN core :
                     core[i].author = p => core[i].kind # Concession}
IsActive(core) == Cardinality(Pending(core)) >= 2
Handles(core, connected, command) ==
  /\ command.author \in connected
  /\ IsActive(core)
  /\ command.author \in Pending(core)

(***************************************************************************)
(* The recovery.                                                           *)
(***************************************************************************)
RowsAgree == journal = room.core

Suffix == checkpoint.revision + 1 .. Len(journal)

(* A slip: only who was present when the checkpoint was written. *)
PresentAsStored(i) == checkpoint.state.connected
(* Who counts as present when entry i is replayed: who was present when the
   checkpoint was written, and the author of every entry replayed so far. *)
PresentAtReplay(i) ==
  checkpoint.state.connected \union
    {journal[k].author : k \in {j \in Suffix : j <= i}}

Rebuilt ==
  checkpoint.state.core \o SubSeq(journal, checkpoint.revision + 1, Len(journal))

ValidCheckpoint(state) ==
  /\ checkpoint # NoRow
  /\ checkpoint.revision <= Revision(state)
  /\ Revision(state) - checkpoint.revision <= Interval - 1
  /\ checkpoint.revision = Revision(checkpoint.state)
  /\ \A i \in Suffix :
       Handles(SubSeq(Rebuilt, 1, i - 1), PresentAtReplay(i), journal[i])
  /\ Rebuilt = state.core

(* The marker is a copy of what it vouches for; the digest of the checkpoint is
   the checkpoint itself. *)
Marker(v, state, cp, entries) ==
  [version |-> v, revision |-> Revision(state), checkpointRevision |-> cp.revision,
   journalCount |-> Len(entries), digest |-> cp.state]

Hit(v, state) ==
  /\ v # NoVersion
  /\ checkpoint # NoRow
  /\ marker # NoRow
  /\ checkpoint.revision <= Revision(state)
  /\ marker.version = v
  /\ marker.revision = Revision(state)
  /\ marker.checkpointRevision = checkpoint.revision
  /\ marker.journalCount = Revision(state)
  /\ marker.digest = checkpoint.state
  /\ Revision(state) - checkpoint.revision <= Interval - 1
  /\ Revision(checkpoint.state) = checkpoint.revision

CanLoad(v) == RowsAgree /\ (Hit(v, room) \/ ValidCheckpoint(room))

(* A slip: a version writes its marker once. *)
VerifiedOnce(v, state, cp, entries) ==
  IF v = NoVersion \/ (marker # NoRow /\ marker.version = v)
    THEN marker
    ELSE Marker(v, state, cp, entries)
(* What a verification leaves in the marker's table. *)
Verified(v, state, cp, entries) ==
  IF v = NoVersion THEN marker ELSE Marker(v, state, cp, entries)

(***************************************************************************)
(* Operations.                                                             *)
(***************************************************************************)
(* A slip: the checkpoint stays one command behind its revision. *)
AdvancedToTheBase(state) ==
  IF Revision(state) % Interval = 0
    THEN [revision |-> Revision(state), state |-> request.state]
    ELSE checkpoint
(* Every Interval commands the checkpoint moves up to the state just reached. *)
AdvancedCheckpoint(state) ==
  IF Revision(state) % Interval = 0
    THEN [revision |-> Revision(state), state |-> state]
    ELSE checkpoint

(* A room starts with everybody present, its checkpoint and its marker. *)
InitializeRoom ==
  /\ version # Down
  /\ request = NoRequest
  /\ room = NoRow
  /\ room' = [core |-> <<>>, connected |-> Players]
  /\ journal' = <<>>
  /\ checkpoint' = [revision |-> 0, state |-> room']
  /\ marker' = Verified(version, room', checkpoint', journal')
  /\ UNCHANGED <<version, request, acked>>

(* The schema migration every new instance begins with.  A row of the time
   before checkpoints gets one at the revision it has reached. *)
Restart(v) ==
  /\ version = Down
  /\ version' = v
  /\ IF room = NoRow
       THEN UNCHANGED <<checkpoint, marker>>
       ELSE /\ RowsAgree
            /\ checkpoint' = IF checkpoint = NoRow
                               THEN [revision |-> Revision(room), state |-> room]
                               ELSE checkpoint
            /\ IF Hit(v, room)
                 THEN UNCHANGED marker
                 ELSE /\ checkpoint = NoRow \/ ValidCheckpoint(room)
                      /\ marker' = Verified(v, room, checkpoint', journal)
  /\ UNCHANGED <<room, journal, request, acked>>

(* The platform may stop the object between any two of its transactions. *)
Evict ==
  /\ version # Down
  /\ version' = Down
  /\ request' = NoRequest
  /\ UNCHANGED <<rows, acked>>

(* A handler loads the room, and the loading is a transaction of its own when
   it has to write the marker. *)
Load(what) ==
  /\ version # Down
  /\ request = NoRequest
  /\ room # NoRow
  /\ CanLoad(version)
  /\ marker' = IF Hit(version, room) THEN marker
               ELSE Verified(version, room, checkpoint, journal)
  /\ request' = what
  /\ UNCHANGED <<room, journal, checkpoint, version, acked>>

LoadForCommand(command) ==
  /\ room # NoRow
  /\ Load([kind |-> "command", state |-> room, command |-> command])

LoadForPresence(p) ==
  /\ room # NoRow
  /\ Load([kind |-> "presence", state |-> room, participant |-> p])

CommitAccepted ==
  /\ request.kind = "command"
  /\ Handles(request.state.core, request.state.connected, request.command)
  /\ Revision(request.state) < MaxRevision
  /\ Revision(room) = Revision(request.state)
  /\ room' = [request.state EXCEPT !.core = Append(@, request.command)]
  /\ journal' = Append(journal, request.command)
  /\ checkpoint # NoRow
  /\ checkpoint' = AdvancedCheckpoint(room')
  /\ marker' = Verified(version, room', checkpoint', journal')
  /\ request' = [kind |-> "answer", revision |-> Revision(room')]
  /\ UNCHANGED <<version, acked>>

(* A refused command changes nothing that is stored. *)
Refuse ==
  /\ request.kind = "command"
  /\ ~ Handles(request.state.core, request.state.connected, request.command)
  /\ request' = NoRequest
  /\ UNCHANGED <<rows, version, acked>>

Answer ==
  /\ request.kind = "answer"
  /\ acked' = acked \union {request.revision}
  /\ request' = NoRequest
  /\ UNCHANGED <<rows, version>>

(* A socket closes, or a pending player says hello again. *)
PersistSameRevision ==
  /\ request.kind = "presence"
  /\ room = request.state
  /\ \/ /\ request.participant \in room.connected
        /\ room' = [room EXCEPT !.connected = @ \ {request.participant}]
     \/ /\ request.participant \in Pending(room.core) \ room.connected
        /\ room' = [room EXCEPT !.connected = @ \union {request.participant}]
  /\ request' = NoRequest
  /\ UNCHANGED <<journal, checkpoint, marker, version, acked>>

(* A player who left the game may not come back. *)
StayAway ==
  /\ request.kind = "presence"
  /\ request.participant \notin request.state.connected \union Pending(request.state.core)
  /\ request' = NoRequest
  /\ UNCHANGED <<rows, version, acked>>

Next ==
  \/ InitializeRoom
  \/ \E v \in Deployments : Restart(v)
  \/ Evict
  \/ \E c \in Commands : LoadForCommand(c)
  \/ \E p \in Absentees : LoadForPresence(p)
  \/ CommitAccepted \/ Refuse \/ Answer
  \/ PersistSameRevision \/ StayAway

(* Nothing is stored, or a room from before there were checkpoints. *)
Plausible(core) ==
  \A i \in DOMAIN core : Handles(SubSeq(core, 1, i - 1), Players, core[i])

LegacyStates ==
  {s \in [core : UNION {[1 .. n -> Commands] : n \in 0 .. MaxLegacy},
          connected : {Players \ P : P \in SUBSET Absentees}] : Plausible(s.core)}

Init ==
  /\ \/ room = NoRow /\ journal = <<>>
     \/ room \in LegacyStates /\ journal = room.core
  /\ checkpoint = NoRow
  /\ marker = NoRow
  /\ version = Down
  /\ request = NoRequest
  /\ acked = {}

Spec == Init /\ [][Next]_vars

(***************************************************************************)
(* Properties.                                                             *)
(***************************************************************************)
(* Type invariant: each table is empty or holds its one row, and the handler
   has loaded a room or nothing. *)
TypeOK ==
  /\ room \in States \union {NoRow}
  /\ journal \in Seq(Commands)
  /\ checkpoint \in Checkpoints \union {NoRow}
  /\ marker \in Markers \union {NoRow}
  /\ version \in Deployments \union {Down}
  /\ \/ request = NoRequest
     \/ request \in [kind : {"command"}, state : States, command : Commands]
     \/ request \in [kind : {"presence"}, state : States, participant : Players]
     \/ request \in [kind : {"answer"}, revision : Nat]
  /\ acked \subseteq Nat

(* Wherever the platform stops the object, and whatever version it runs next,
   the rows are found in order: the room row, the journal and the checkpoint
   agree, at most Interval - 1 commands have to be replayed, and the handler
   accepts every one of them again.  persistence.ts:521-566 throws otherwise,
   in the constructor of the object, and the room is lost. *)
EveryVersionLoads ==
  room # NoRow /\ checkpoint # NoRow => \A v \in Deployments : CanLoad(v)

(* The rows have their types, and a running instance that knows its version
   finds the marker up to date: it never replays what it has verified or
   written itself (persistence.ts:568-655). *)
OwnRowsAreTrusted ==
  /\ TypeOK
  /\ version \in Versions /\ room # NoRow => Hit(version, room)

(* What a version without markers would rebuild. *)
Recovered ==
  IF room = NoRow THEN <<>> ELSE IF checkpoint = NoRow THEN room.core ELSE Rebuilt

Durable == INSTANCE DurableLog WITH
  Entries <- Commands,
  log <- Recovered

(* What a recovery rebuilds from checkpoint and journal is a log of commands
   that only grows, one accepted command at a time, and that holds every
   command a client was told is accepted, across evictions and versions. *)
KeepsDurableLog == Durable!DurableInit /\ [][Durable!DurableNext]_(Durable!durableVars)
=============================================================================
