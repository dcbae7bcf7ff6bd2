--------------------------- MODULE SocketSessions ---------------------------
(***************************************************************************)
(* Who may act in a started room, and who is present in it: the capability *)
(* grants, rotations and controller leases of the Cloudflare security      *)
(* repository, the hibernating sockets of the Durable Object with their    *)
(* attachments, and the presence that hello, projection requests and       *)
(* closed sockets leave in the room.                                       *)
(*                                                                         *)
(* Every handler of the object runs to its end before the next one starts, *)
(* so each action is one handler.  Time moves between handlers.  The rate  *)
(* windows and the audit rows are abstracted: a refusal they cause, as any *)
(* other refusal that is audited, only advances the clock the repository   *)
(* has observed.                                                           *)
(***************************************************************************)
EXTENDS Naturals, FiniteSets

CONSTANTS
  Players,             \* the players of the room
  Observers,           \* table and spectator participants
  Sockets,             \* connection identifiers, each allocated once
  Tokens,              \* the capabilities clients choose when they rotate
  HttpPlayers,         \* the players who also send commands by HTTP
  CapabilityLifetime,
  LeaseLifetime,
  MaxRetired,          \* retired capabilities a grant remembers
  ProtocolVersion,     \* 1 or 2
  MaxClock,            \* the last instant (a bound)
  MaxGeneration,       \* how often a capability is rotated (a bound)
  MaxRevision          \* how many commands are accepted (a bound)

Participants == Players \union Observers

NoLease == [generation |-> 0, holder |-> "nobody", expiresAt |-> 0]
Http == "http"

ASSUME SessionsAssumption ==
  /\ \E p, q \in Players : p # q
  /\ Players \intersect Observers = {}
  /\ Tokens \intersect Participants = {}
  /\ Http \notin Sockets
  /\ NoLease.holder \notin Sockets \union Players \union Observers
  /\ HttpPlayers \subseteq Players
  /\ CapabilityLifetime \in Nat \ {0}
  /\ LeaseLifetime \in Nat \ {0}
  /\ MaxRetired \in Nat
  /\ ProtocolVersion \in {1, 2}

VARIABLES
  clock,      \* the runtime clock
  observed,   \* online_security_state.last_observed_at
  grants,     \* the capability of each participant
  leases,     \* the controller lease of each player
  sockets,    \* the attachment of each connection
  presence,   \* room.participants[].presence
  pending,    \* the players whose seat outcome is pending
  revision,   \* the revision of the room
  told,       \* the revision each connection was last sent
  greeted,    \* history: participants that ever authenticated a socket
  commits     \* history: the last command of each player that was committed

vars == <<clock, observed, grants, leases, sockets, presence, pending,
          revision, told, greeted, commits>>

(* The capability a participant starts with is the configured one of its
   seat; a participant stands for it here. *)
Configured(p) == p

Unattached == [status |-> "unused", participant |-> "nobody",
               generation |-> 0, expiresAt |-> 0, joined |-> FALSE]
NoCommit == [holder |-> "nobody", generation |-> 0, at |-> 0]

Holders == {Http} \union Sockets

Init ==
  /\ clock = 0
  /\ observed = 0
  /\ grants = [p \in Participants |->
                 [token |-> Configured(p), generation |-> 0, issuedAt |-> 0,
                  expiresAt |-> CapabilityLifetime, retired |-> {}]]
  /\ leases = [p \in Players |-> NoLease]
  /\ sockets = [c \in Sockets |-> Unattached]
  /\ presence = [p \in Participants |-> "connected"]
  /\ pending = Players
  /\ revision = 0
  /\ told = [c \in Sockets |-> 0]
  /\ greeted = {}
  /\ commits = [p \in Players |-> NoCommit]

-----------------------------------------------------------------------------
(* The relations assertSnapshotRelations demands of the stored rows before
   anything is authorized. *)

RetiredTokens(p, at) ==
  {r.token : r \in {s \in grants[p].retired : s.expiresAt > at}}

GrantCanonical(p) ==
  LET g == grants[p]
  IN  /\ g.issuedAt <= observed
      /\ (g.generation = 0) <=> (g.token = Configured(p))
      /\ g.generation <= 1 => g.retired = {}
      /\ g.generation > 1 =>
           \E r \in g.retired : r.generation = g.generation - 1
      /\ \A r \in g.retired :
           /\ r.generation \in 1 .. (g.generation - 1)
           /\ r.expiresAt > g.issuedAt
           /\ r.expiresAt > observed => r.token # g.token
           /\ \A s \in g.retired : s.generation = r.generation => s = r

TokensDistinct ==
  \A p, q \in Participants :
    p # q => /\ grants[p].token # grants[q].token
             /\ grants[p].token \notin RetiredTokens(q, observed)
             /\ RetiredTokens(p, observed) \intersect RetiredTokens(q, observed)
                = {}

LeasesCurrent ==
  \A p \in Players :
    leases[p] # NoLease => leases[p].generation = grants[p].generation

SecurityRelations ==
  /\ observed <= clock
  /\ \A p \in Participants : GrantCanonical(p)
  /\ TokensDistinct
  /\ LeasesCurrent

-----------------------------------------------------------------------------
(* Authorization *)

Unexpired(p) == clock < grants[p].expiresAt

(* authorizeSocket, for a frame that carries the present token of p. *)
Authorizes(c, p) ==
  /\ Unexpired(p)
  /\ sockets[c].participant # "nobody" =>
       sockets[c].generation = grants[p].generation

Open(c) == sockets[c].status = "open"
Authenticated(c) == Open(c) /\ sockets[c].participant # "nobody"

(* A frame of an authenticated socket that passes authorizeSocket. *)
Admits(c) ==
  /\ Authenticated(c)
  /\ SecurityRelations
  /\ Authorizes(c, sockets[c].participant)

-----------------------------------------------------------------------------
(* Controller leases *)

Held(p) == leases[p] # NoLease /\ clock < leases[p].expiresAt

SameHolder(p, generation, holder) ==
  /\ leases[p].generation = generation
  /\ leases[p].holder = holder

IsSocketHandoff(p, generation, holder) ==
  /\ leases[p].generation = generation
  /\ leases[p].holder = Http
  /\ holder \in Sockets

MayControl(p, generation, holder) ==
  \/ ~Held(p)
  \/ SameHolder(p, generation, holder)
  \/ IsSocketHandoff(p, generation, holder)

TakeLease(p, generation, holder) ==
  leases' = [leases EXCEPT ![p] =
               [generation |-> generation, holder |-> holder,
                expiresAt |-> clock + LeaseLifetime]]

-----------------------------------------------------------------------------
(* Notices *)

(* A slip: only sockets that may still act are told. *)
BroadcastToCurrent(next) ==
  told' = [c \in Sockets |->
             IF /\ Authenticated(c)
                /\ sockets[c].generation
                   = grants[sockets[c].participant].generation
             THEN next ELSE told[c]]
(* broadcastRevision *)
Broadcast(next) ==
  told' = [c \in Sockets |-> IF Authenticated(c) THEN next ELSE told[c]]

-----------------------------------------------------------------------------
(* Time, and the refusals that leave nothing but an audit row. *)

Tick ==
  /\ clock < MaxClock
  /\ clock' = clock + 1
  /\ UNCHANGED <<observed, grants, leases, sockets, presence, pending,
                 revision, told, greeted, commits>>

AuditRefusal ==
  /\ SecurityRelations
  /\ observed' = clock
  /\ UNCHANGED <<clock, grants, leases, sockets, presence, pending, revision,
                 told, greeted, commits>>

-----------------------------------------------------------------------------
(* Rotation *)

(* A slip: only the present tokens are looked at. *)
UnusedAmongCurrent(next) == \A q \in Participants : next # grants[q].token
Unused(next) ==
  \A q \in Participants : /\ next # grants[q].token
                          /\ next \notin RetiredTokens(q, clock)

DropLease(p) == leases' = [leases EXCEPT ![p] = NoLease]

(* The first capability, the configured one, is not remembered. *)
Remembered(p) ==
  LET g == grants[p]
      kept == {r \in g.retired : r.expiresAt > clock}
  IN  IF g.generation = 0 THEN kept
      ELSE kept \union {[token |-> g.token, generation |-> g.generation,
                         expiresAt |-> g.expiresAt]}

Rotate(p, next) ==
  /\ SecurityRelations
  /\ Unexpired(p)
  /\ Unused(next)
  /\ Cardinality(Remembered(p)) <= MaxRetired
  /\ grants[p].generation < MaxGeneration
  /\ grants' = [grants EXCEPT ![p] =
                  [token |-> next, generation |-> grants[p].generation + 1,
                   issuedAt |-> clock,
                   expiresAt |-> clock + CapabilityLifetime,
                   retired |-> Remembered(p)]]
  /\ IF p \in Players THEN DropLease(p) ELSE UNCHANGED leases
  /\ observed' = clock
  /\ UNCHANGED <<clock, sockets, presence, pending, revision, told, greeted,
                 commits>>

-----------------------------------------------------------------------------
(* Sockets *)

OpenSocket(c) ==
  /\ sockets[c].status = "unused"
  /\ SecurityRelations
  /\ sockets' = [sockets EXCEPT ![c].status = "open"]
  /\ observed' = clock
  /\ UNCHANGED <<clock, grants, leases, presence, pending, revision, told,
                 greeted, commits>>

(* Version 2 keeps no presence for observers. *)
HasPresence(p) == ProtocolVersion = 1 \/ p \in Players

MayReconnect(p) ==
  presence[p] = "disconnected" => (p \in Players => p \in pending)

Attach(c, p, joins) ==
  sockets' = [sockets EXCEPT ![c] =
                [status |-> "open", participant |-> p,
                 generation |-> grants[p].generation,
                 expiresAt |-> grants[p].expiresAt,
                 joined |-> joins \/ sockets[c].joined]]

(* handleHello brings a participant back; handleVariableHello only
   authenticates the socket. *)
Hello(c, p) ==
  /\ Open(c)
  /\ sockets[c].participant \in {"nobody", p}
  /\ SecurityRelations
  /\ Authorizes(c, p)
  /\ IF ProtocolVersion = 1
     THEN /\ MayReconnect(p)
          /\ presence' = [presence EXCEPT ![p] = "connected"]
          /\ Attach(c, p, TRUE)
     ELSE /\ Attach(c, p, FALSE)
          /\ UNCHANGED presence
  /\ told' = [told EXCEPT ![c] = revision]
  /\ greeted' = greeted \union {p}
  /\ UNCHANGED <<clock, observed, grants, leases, pending, revision, commits>>

(* handleProjection and handleVariableProjection: the answer carries the
   revision, and version 2 announces who came back. *)
Project(c) ==
  LET p == sockets[c].participant
  IN  /\ Admits(c)
      /\ MayReconnect(p)
      /\ presence' = [presence EXCEPT ![p] = "connected"]
      /\ sockets' = [sockets EXCEPT ![c].joined = TRUE]
      /\ IF ProtocolVersion = 2 /\ presence[p] = "disconnected"
         THEN Broadcast(revision)
         ELSE told' = [told EXCEPT ![c] = revision]
      /\ UNCHANGED <<clock, observed, grants, leases, pending, revision,
                     greeted, commits>>

(* A slip: the closing socket is found among the others. *)
OthersWithSelf(c) ==
  {o \in Sockets :
     /\ Authenticated(o)
     /\ sockets[o].participant = sockets[c].participant
     /\ sockets[o].generation = grants[sockets[c].participant].generation
     /\ clock < sockets[o].expiresAt}
(* A slip: nobody looks for other sockets. *)
OthersIgnored(c) == {}
(* The other sockets of the same participant that can still act. *)
Others(c) ==
  {o \in Sockets \ {c} :
     /\ Authenticated(o)
     /\ sockets[o].participant = sockets[c].participant
     /\ sockets[o].generation = grants[sockets[c].participant].generation
     /\ clock < sockets[o].expiresAt}

(* A slip: closing any socket of the player frees the seat. *)
ReleaseAnyHolder(c) ==
  LET p == sockets[c].participant
  IN  IF p \in Players /\ leases[p] # NoLease
      THEN DropLease(p) /\ observed' = clock
      ELSE UNCHANGED <<leases, observed>>
Release(c) ==
  LET p == sockets[c].participant
  IN  IF /\ p \in Players
         /\ leases[p] # NoLease
         /\ SameHolder(p, sockets[c].generation, c)
      THEN DropLease(p) /\ observed' = clock
      ELSE UNCHANGED <<leases, observed>>

(* The last socket of a participant is gone; version 2 announces it. *)
Leave(p) ==
  /\ presence' = [presence EXCEPT ![p] = "disconnected"]
  /\ IF ProtocolVersion = 2 THEN Broadcast(revision) ELSE UNCHANGED told

(* webSocketClose.  A socket that never authenticated leaves nothing. *)
Close(c) ==
  LET p == sockets[c].participant
  IN  /\ Open(c)
      /\ SecurityRelations
      /\ sockets' = [sockets EXCEPT ![c].status = "closed"]
      /\ IF Authenticated(c)
         THEN /\ Release(c)
              /\ IF Others(c) = {} /\ HasPresence(p) THEN Leave(p)
                 ELSE UNCHANGED <<presence, told>>
         ELSE UNCHANGED <<leases, observed, presence, told>>
      /\ UNCHANGED <<clock, grants, pending, revision, greeted, commits>>

-----------------------------------------------------------------------------
(* Commands *)

RoomActive == \E p, q \in pending : p # q

(* A player may act by a socket it authenticated, or by HTTP. *)
MayCommand(p, holder) ==
  IF holder = Http
  THEN p \in HttpPlayers /\ SecurityRelations /\ Unexpired(p)
  ELSE Admits(holder) /\ sockets[holder].participant = p

(* The lease is another's: CONTROLLER_LEASE_REQUIRED, or 409. *)
RefuseControl(p, holder) ==
  /\ MayCommand(p, holder)
  /\ ~MayControl(p, grants[p].generation, holder)
  /\ observed' = clock
  /\ UNCHANGED <<clock, grants, leases, sockets, presence, pending, revision,
                 told, greeted, commits>>

Controls(p, holder) ==
  /\ MayCommand(p, holder)
  /\ MayControl(p, grants[p].generation, holder)
  /\ TakeLease(p, grants[p].generation, holder)
  /\ observed' = clock

(* The protocol refuses the command; the lease stays renewed. *)
RejectCommand(p, holder) ==
  /\ Controls(p, holder)
  /\ UNCHANGED <<clock, grants, sockets, presence, pending, revision, told,
                 greeted, commits>>

(* commitAccepted.  A version 1 command that came by HTTP is not announced. *)
CommitCommand(p, holder, leaves) ==
  /\ Controls(p, holder)
  /\ RoomActive
  /\ p \in pending
  /\ presence[p] = "connected"
  /\ revision < MaxRevision
  /\ revision' = revision + 1
  /\ pending' = IF leaves THEN pending \ {p} ELSE pending
  /\ IF holder = Http /\ ProtocolVersion = 1
     THEN UNCHANGED told
     ELSE Broadcast(revision + 1)
  /\ commits' = [commits EXCEPT ![p] =
                   [holder |-> holder, generation |-> grants[p].generation,
                    at |-> clock]]
  /\ UNCHANGED <<clock, grants, sockets, presence, greeted>>

-----------------------------------------------------------------------------
Next ==
  \/ Tick
  \/ AuditRefusal
  \/ \E p \in Participants, next \in Tokens : Rotate(p, next)
  \/ \E c \in Sockets : OpenSocket(c) \/ Project(c) \/ Close(c)
  \/ \E c \in Sockets, p \in Participants : Hello(c, p)
  \/ \E p \in Players, holder \in Holders :
       \/ RefuseControl(p, holder)
       \/ RejectCommand(p, holder)
       \/ \E leaves \in BOOLEAN : CommitCommand(p, holder, leaves)

Spec == Init /\ [][Next]_vars

-----------------------------------------------------------------------------
Grants ==
  [token : Tokens \union Participants, generation : Nat, issuedAt : Nat,
   expiresAt : Nat,
   retired : SUBSET [token : Tokens \union Participants, generation : Nat,
                     expiresAt : Nat]]

TypeOK ==
  /\ clock \in Nat
  /\ observed \in Nat
  /\ grants \in [Participants -> Grants]
  /\ leases \in [Players -> [generation : Nat, expiresAt : Nat,
                             holder : Holders \union {"nobody"}]]
  /\ sockets \in [Sockets ->
                    [status : {"unused", "open", "closed"},
                     participant : Participants \union {"nobody"},
                     generation : Nat, expiresAt : Nat, joined : BOOLEAN]]
  /\ presence \in [Participants -> {"connected", "disconnected"}]
  /\ pending \in SUBSET Players
  /\ revision \in Nat
  /\ told \in [Sockets -> Nat]
  /\ greeted \in SUBSET Participants
  /\ commits \in [Players -> [holder : Holders \union {"nobody"},
                              generation : Nat, at : Nat]]

-----------------------------------------------------------------------------
(* Properties *)

(* Whatever is rotated, leased and closed in whatever order, the stored rows
   keep their types and the relations that every later request checks before it is served:
   no legal history locks the room. *)
SecurityReadable == TypeOK /\ SecurityRelations

(* A socket that may act belongs to a participant who is present, so that
   nobody's commands are refused because another of their sockets closed. *)
AttachedIsPresent ==
  \A c \in Sockets :
    /\ Authenticated(c) /\ sockets[c].joined
    /\ Unexpired(sockets[c].participant)
    /\ sockets[c].generation = grants[sockets[c].participant].generation
    => presence[sockets[c].participant] = "connected"

(* A participant whose sockets are all gone is absent, in whatever order they
   closed and whichever generation each of them had. *)
GoneIsAbsent ==
  \A p \in greeted :
    /\ HasPresence(p)
    /\ \A c \in Sockets : ~(Authenticated(c) /\ sockets[c].participant = p)
    => presence[p] = "disconnected"

(* While one device of a player controls the seat, no other device has a
   command committed: control passes when the lease has run out since the last
   command, when the device closed, when the capability was rotated, and from
   HTTP to a socket. *)
OneController ==
  [][\A p \in Players :
       LET last == commits[p]
       IN  commits'[p] # last =>
             \/ last = NoCommit
             \/ commits'[p].holder = last.holder
             \/ clock >= last.at + LeaseLifetime
             \/ grants[p].generation # last.generation
             \/ last.holder = Http
             \/ ~Open(last.holder)]_vars

(* Every authenticated socket has been told the present revision. *)
EveryoneTold ==
  \A c \in Sockets : Authenticated(c) => told[c] = revision
=============================================================================
