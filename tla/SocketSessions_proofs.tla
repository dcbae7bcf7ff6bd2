------------------------ MODULE SocketSessions_proofs -----------------------
(***************************************************************************)
(* Theorems about SocketSessions for every number of participants,         *)
(* connections and capabilities, every lifetime and both versions.         *)
(***************************************************************************)
EXTENDS SocketSessions, TLAPS

USE DEF Participants, Configured

(* What a grant and a lease hold. *)
LEMMA GrantParts ==
  ASSUME TypeOK, NEW p \in Participants
  PROVE  /\ grants[p].token \in Tokens \union Participants
         /\ grants[p].generation \in Nat
         /\ grants[p].issuedAt \in Nat
         /\ grants[p].expiresAt \in Nat
         /\ \A r \in grants[p].retired :
              /\ r.token \in Tokens \union Participants
              /\ r.generation \in Nat
              /\ r.expiresAt \in Nat
BY DEF TypeOK, Grants

LEMMA InitTyped == Init => TypeOK
BY SessionsAssumption
DEF Init, TypeOK, Grants, NoLease, Unattached, NoCommit, Holders, Http

LEMMA BroadcastTyped ==
  ASSUME TypeOK, NEW next \in Nat, Broadcast(next)
  PROVE  told' \in [Sockets -> Nat]
BY DEF Broadcast, TypeOK

LEMMA DropTyped ==
  ASSUME TypeOK, NEW p \in Players, DropLease(p)
  PROVE  leases' \in [Players -> [generation : Nat, expiresAt : Nat,
                                  holder : Holders \union {"nobody"}]]
BY DEF DropLease, TypeOK, NoLease

LEMMA ControlsTyped ==
  ASSUME TypeOK, NEW p \in Players, NEW holder \in Holders, Controls(p, holder)
  PROVE  /\ leases' \in [Players -> [generation : Nat, expiresAt : Nat,
                                     holder : Holders \union {"nobody"}]]
         /\ observed' \in Nat
BY GrantParts, SessionsAssumption DEF Controls, TakeLease, TypeOK

LEMMA AttachTyped ==
  ASSUME TypeOK, NEW c \in Sockets, NEW p \in Participants,
         NEW joins \in BOOLEAN, Attach(c, p, joins)
  PROVE  sockets' \in [Sockets ->
                    [status : {"unused", "open", "closed"},
                     participant : Participants \union {"nobody"},
                     generation : Nat, expiresAt : Nat, joined : BOOLEAN]]
BY GrantParts DEF Attach, TypeOK

Attachments == [status : {"unused", "open", "closed"},
                participant : Participants \union {"nobody"},
                generation : Nat, expiresAt : Nat, joined : BOOLEAN]

(* One field of an attachment changes. *)
LEMMA MarkTyped ==
  ASSUME TypeOK, NEW c \in Sockets,
         NEW status \in {"unused", "open", "closed"}
  PROVE  /\ [sockets EXCEPT ![c].status = status] \in [Sockets -> Attachments]
         /\ [sockets EXCEPT ![c].joined = TRUE] \in [Sockets -> Attachments]
<1>1. sockets \in [Sockets -> Attachments]
  BY DEF TypeOK, Attachments
<1>2. /\ [sockets[c] EXCEPT !.status = status] \in Attachments
      /\ [sockets[c] EXCEPT !.joined = TRUE] \in Attachments
  BY <1>1 DEF Attachments
<1>3. /\ [sockets EXCEPT ![c] = [sockets[c] EXCEPT !.status = status]]
           \in [Sockets -> Attachments]
      /\ [sockets EXCEPT ![c] = [sockets[c] EXCEPT !.joined = TRUE]]
           \in [Sockets -> Attachments]
  BY <1>1, <1>2
<1> QED
  BY <1>3

LEMMA TypeStep == TypeOK /\ [Next]_vars => TypeOK'
<1> SUFFICES ASSUME TypeOK, [Next]_vars PROVE TypeOK'
  OBVIOUS
<1>1. CASE Tick \/ AuditRefusal \/ UNCHANGED vars
  BY <1>1 DEF Tick, AuditRefusal, vars, TypeOK
<1>2. ASSUME NEW p \in Participants, NEW next \in Tokens, Rotate(p, next)
      PROVE  TypeOK'
  <2>1. Remembered(p) \in SUBSET [token : Tokens \union Participants,
                                  generation : Nat, expiresAt : Nat]
    BY GrantParts DEF Remembered, TypeOK, Grants
  <2>2. grants' \in [Participants -> Grants]
    BY <1>2, <2>1, GrantParts, SessionsAssumption DEF Rotate, TypeOK, Grants
  <2> QED
    BY <1>2, <2>2, DropTyped DEF Rotate, TypeOK
<1>3. ASSUME NEW c \in Sockets, OpenSocket(c) PROVE TypeOK'
  <2>1. sockets' \in [Sockets -> Attachments]
    BY <1>3, MarkTyped DEF OpenSocket
  <2> QED
    BY <1>3, <2>1 DEF OpenSocket, TypeOK, Attachments
<1>4. ASSUME NEW c \in Sockets, Project(c) PROVE TypeOK'
  <2>1. sockets[c].participant \in Participants
    BY <1>4 DEF Project, Admits, Authenticated, TypeOK
  <2>2. sockets' \in [Sockets -> Attachments]
    BY <1>4, MarkTyped DEF Project
  <2>3. told' \in [Sockets -> Nat]
    BY <1>4, BroadcastTyped DEF Project, TypeOK
  <2> QED
    BY <1>4, <2>1, <2>2, <2>3 DEF Project, TypeOK, Attachments
<1>5. ASSUME NEW c \in Sockets, Close(c) PROVE TypeOK'
  <2> DEFINE p == sockets[c].participant
  <2>0. sockets' \in [Sockets -> Attachments]
    BY <1>5, MarkTyped DEF Close
  <2>1. CASE Authenticated(c)
    <3>1. /\ leases' \in [Players -> [generation : Nat, expiresAt : Nat,
                                  holder : Holders \union {"nobody"}]]
          /\ observed' \in Nat
      BY <1>5, <2>1, DropTyped DEF Close, Release, TypeOK
    <3>2. /\ presence' \in [Participants -> {"connected", "disconnected"}]
          /\ told' \in [Sockets -> Nat]
      BY <1>5, <2>1, BroadcastTyped DEF Close, Leave, TypeOK
    <3> QED
      BY <1>5, <2>0, <3>1, <3>2 DEF Close, TypeOK, Attachments
  <2>2. CASE ~Authenticated(c)
    BY <1>5, <2>0, <2>2 DEF Close, TypeOK, Attachments
  <2> QED
    BY <2>1, <2>2
<1>6. ASSUME NEW c \in Sockets, NEW p \in Participants, Hello(c, p)
      PROVE  TypeOK'
  BY <1>6, AttachTyped DEF Hello, TypeOK
<1>7. ASSUME NEW p \in Players, NEW holder \in Holders,
             RefuseControl(p, holder) \/ RejectCommand(p, holder)
      PROVE  TypeOK'
  BY <1>7, ControlsTyped DEF RefuseControl, RejectCommand, TypeOK
<1>8. ASSUME NEW p \in Players, NEW holder \in Holders, NEW leaves \in BOOLEAN,
             CommitCommand(p, holder, leaves)
      PROVE  TypeOK'
  <2>1. told' \in [Sockets -> Nat]
    BY <1>8, BroadcastTyped DEF CommitCommand, TypeOK
  <2>2. commits' \in [Players -> [holder : Holders \union {"nobody"},
                                  generation : Nat, at : Nat]]
    BY <1>8, GrantParts DEF CommitCommand, TypeOK
  <2> QED
    BY <1>8, <2>1, <2>2, ControlsTyped DEF CommitCommand, TypeOK
<1> QED
  BY <1>1, <1>2, <1>3, <1>4, <1>5, <1>6, <1>7, <1>8 DEF Next

(* Grants, leases, attachments and histories keep their types. *)
THEOREM SessionTypes == Spec => []TypeOK
BY InitTyped, TypeStep, PTL DEF Spec

-----------------------------------------------------------------------------
LEMMA InitReadable == Init => SecurityRelations
<1> SUFFICES ASSUME Init PROVE SecurityRelations
  OBVIOUS
<1>1. \A p \in Participants :
        /\ grants[p].token = p /\ grants[p].generation = 0
        /\ grants[p].issuedAt = 0 /\ grants[p].retired = {}
  BY DEF Init
<1>2. \A p \in Participants : GrantCanonical(p)
  BY <1>1 DEF Init, GrantCanonical
<1>3. TokensDistinct
  BY <1>1 DEF TokensDistinct, RetiredTokens
<1>4. LeasesCurrent
  BY DEF Init, LeasesCurrent
<1> QED
  BY <1>2, <1>3, <1>4 DEF Init, SecurityRelations

(* Time that is observed only lets retired capabilities be forgotten. *)
LEMMA ObservedLater ==
  ASSUME TypeOK, SecurityRelations,
         grants' = grants, observed' \in Nat, observed <= observed'
  PROVE  (\A p \in Participants : GrantCanonical(p)') /\ TokensDistinct'
<1>1. \A p \in Participants :
        RetiredTokens(p, observed') \subseteq RetiredTokens(p, observed)
  BY GrantParts DEF RetiredTokens, TypeOK
<1>2. TokensDistinct'
  BY <1>1 DEF SecurityRelations, TokensDistinct, RetiredTokens
<1>3. ASSUME NEW p \in Participants PROVE GrantCanonical(p)'
  BY GrantParts DEF SecurityRelations, GrantCanonical, TypeOK
<1> QED
  BY <1>2, <1>3

LEMMA RotateReadable ==
  ASSUME TypeOK, SecurityRelations,
         NEW p \in Participants, NEW next \in Tokens, Rotate(p, next)
  PROVE  SecurityRelations'
<1> DEFINE old == grants[p]
           new == [token |-> next, generation |-> grants[p].generation + 1,
                   issuedAt |-> clock,
                   expiresAt |-> clock + CapabilityLifetime,
                   retired |-> Remembered(p)]
<1>1. /\ grants'[p] = new
      /\ \A q \in Participants \ {p} : grants'[q] = grants[q]
      /\ observed' = clock /\ clock' = clock
      /\ observed <= clock /\ clock \in Nat /\ observed \in Nat
      /\ clock < old.expiresAt
  BY DEF Rotate, TypeOK, SecurityRelations, Unexpired
<1>2. \A r \in Remembered(p) :
        /\ r.expiresAt > clock
        /\ \/ r \in old.retired
           \/ /\ old.generation # 0
              /\ r = [token |-> old.token, generation |-> old.generation,
                      expiresAt |-> old.expiresAt]
  BY <1>1 DEF Remembered
<1>3. /\ old.generation = 0 => Remembered(p) = {}
      /\ old.generation # 0 =>
           [token |-> old.token, generation |-> old.generation,
            expiresAt |-> old.expiresAt] \in Remembered(p)
  BY GrantParts DEF Remembered, SecurityRelations, GrantCanonical
<1>4. \A q \in Participants :
        next # grants[q].token /\ next \notin RetiredTokens(q, clock)
  BY DEF Rotate, Unused
<1>5. GrantCanonical(p)'
  <2>1. next # p /\ next \notin Participants
    BY SessionsAssumption
  <2>2. ASSUME NEW r \in Remembered(p)
        PROVE  /\ r.generation \in 1 .. old.generation
               /\ r.expiresAt > clock
               /\ r.token # next
               /\ \A s \in Remembered(p) : s.generation = r.generation => s = r
    <3>1. \A s \in old.retired :
            /\ s.generation \in 1 .. (old.generation - 1)
            /\ \A t \in old.retired : t.generation = s.generation => t = s
      BY DEF SecurityRelations, GrantCanonical
    <3>2. r.token # next
      BY <1>2, <1>4 DEF RetiredTokens
    <3> QED
      BY <1>2, <3>1, <3>2, GrantParts
  <2>3. old.generation \in Nat
    BY GrantParts
  <2>4. new.generation > 1 =>
          \E r \in new.retired : r.generation = new.generation - 1
    BY <1>3, <2>3
  <2> QED
    BY <1>1, <1>3, <2>1, <2>2, <2>3, <2>4 DEF GrantCanonical
<1>6. ASSUME NEW q \in Participants, q # p PROVE GrantCanonical(q)'
  BY <1>1, <1>6, GrantParts DEF SecurityRelations, GrantCanonical
<1>7. TokensDistinct'
  <2>1. \A q \in Participants \ {p} :
          RetiredTokens(q, observed)' \subseteq RetiredTokens(q, observed)
    BY <1>1, GrantParts DEF RetiredTokens
  <2>2. \A t \in RetiredTokens(p, observed)' :
          t \in RetiredTokens(p, observed) \/ t = old.token
    BY <1>1, <1>2, GrantParts DEF RetiredTokens
  <2>3. \A q \in Participants \ {p} : next \notin RetiredTokens(q, observed)'
    BY <1>1, <1>4 DEF RetiredTokens
  <2>4. ASSUME NEW q \in Participants, q # p
        PROVE  /\ grants'[q].token # next
               /\ grants'[q].token \notin RetiredTokens(p, observed)'
               /\ RetiredTokens(p, observed)' \intersect
                    RetiredTokens(q, observed)' = {}
    BY <1>1, <1>4, <2>1, <2>2, <2>4 DEF SecurityRelations, TokensDistinct
  <2>5. ASSUME NEW q \in Participants, NEW s \in Participants,
               q # p, s # p, q # s
        PROVE  /\ grants'[q].token # grants'[s].token
               /\ grants'[q].token \notin RetiredTokens(s, observed)'
               /\ RetiredTokens(q, observed)' \intersect
                    RetiredTokens(s, observed)' = {}
    BY <1>1, <2>1, <2>5 DEF SecurityRelations, TokensDistinct
  <2> QED
    BY <1>1, <2>3, <2>4, <2>5 DEF TokensDistinct
<1>8. LeasesCurrent'
  BY <1>1 DEF Rotate, DropLease, SecurityRelations, LeasesCurrent, TypeOK
<1> QED
  BY <1>1, <1>5, <1>6, <1>7, <1>8 DEF SecurityRelations

LEMMA ReadableStep ==
  ASSUME TypeOK, SecurityRelations, [Next]_vars
  PROVE  SecurityRelations'
<1>0. clock \in Nat /\ observed \in Nat /\ observed <= clock
  BY DEF TypeOK, SecurityRelations
<1>1. CASE UNCHANGED <<grants, leases, observed>> /\ clock' \in {clock, clock + 1}
  <2>1. (\A p \in Participants : GrantCanonical(p)') /\ TokensDistinct'
    BY <1>0, <1>1, ObservedLater
  <2>2. LeasesCurrent'
    BY <1>1 DEF SecurityRelations, LeasesCurrent
  <2>3. observed' <= clock'
    BY <1>0, <1>1
  <2> QED
    BY <2>1, <2>2, <2>3 DEF SecurityRelations
<1>2. CASE /\ UNCHANGED <<clock, grants>> /\ observed' \in {observed, clock}
           /\ LeasesCurrent'
  BY <1>0, <1>2, ObservedLater DEF SecurityRelations
<1>3. ASSUME NEW p \in Players, NEW holder \in Holders, Controls(p, holder),
             grants' = grants
      PROVE  LeasesCurrent'
  BY <1>3 DEF Controls, TakeLease, SecurityRelations, LeasesCurrent, TypeOK
<1>4. CASE Tick \/ UNCHANGED vars
  BY <1>1, <1>4 DEF Tick, vars
<1>5. CASE AuditRefusal
  BY <1>2, <1>5 DEF AuditRefusal, SecurityRelations, LeasesCurrent
<1>6. ASSUME NEW c \in Sockets, OpenSocket(c) PROVE SecurityRelations'
  BY <1>2, <1>6 DEF OpenSocket, SecurityRelations, LeasesCurrent
<1>7. ASSUME NEW c \in Sockets, Project(c) PROVE SecurityRelations'
  BY <1>1, <1>7 DEF Project
<1>8. ASSUME NEW c \in Sockets, NEW p \in Participants, Hello(c, p)
      PROVE  SecurityRelations'
  BY <1>1, <1>8 DEF Hello
<1>9. ASSUME NEW c \in Sockets, Close(c) PROVE SecurityRelations'
  <2>1. UNCHANGED <<clock, grants>> /\ observed' \in {observed, clock}
    BY <1>9 DEF Close, Release
  <2>2. LeasesCurrent'
    BY <1>9, <2>1
    DEF Close, Release, DropLease, SecurityRelations, LeasesCurrent, TypeOK
  <2> QED
    BY <1>2, <2>1, <2>2
<1>10. ASSUME NEW p \in Players, NEW holder \in Holders,
              RefuseControl(p, holder)
       PROVE  SecurityRelations'
  BY <1>2, <1>10 DEF RefuseControl, SecurityRelations, LeasesCurrent
<1>11. ASSUME NEW p \in Players, NEW holder \in Holders,
              RejectCommand(p, holder)
       PROVE  SecurityRelations'
  BY <1>2, <1>3, <1>11 DEF RejectCommand, Controls
<1>12. ASSUME NEW p \in Players, NEW holder \in Holders, NEW leaves \in BOOLEAN,
              CommitCommand(p, holder, leaves)
       PROVE  SecurityRelations'
  BY <1>2, <1>3, <1>12 DEF CommitCommand, Controls
<1> QED
  BY <1>4, <1>5, <1>6, <1>7, <1>8, <1>9, <1>10, <1>11, <1>12, RotateReadable
  DEF Next

(* No order of rotations, expiries, leases and closed sockets leaves rows that
   assertSnapshotRelations refuses. *)
THEOREM SecurityStaysReadable == Spec => []SecurityReadable
BY InitTyped, InitReadable, TypeStep, ReadableStep, PTL
DEF Spec, SecurityReadable

-----------------------------------------------------------------------------
(* What attachments have to do with grants. *)
Fresh ==
  \A c \in Sockets :
    /\ sockets[c].status = "unused" => sockets[c].participant = "nobody"
    /\ sockets[c].participant = "nobody" => ~sockets[c].joined

(* An attachment is never ahead of the grant, and one of the same generation
   ends with it. *)
Attached ==
  \A c \in Sockets :
    sockets[c].participant # "nobody" =>
      LET g == grants[sockets[c].participant]
      IN  /\ sockets[c].generation <= g.generation
          /\ sockets[c].generation = g.generation
             => sockets[c].expiresAt = g.expiresAt

SocketInv == TypeOK /\ Fresh /\ Attached

(* Every step changes the sockets in one of these ways. *)
LEMMA SocketSteps ==
  ASSUME [Next]_vars
  PROVE  \/ \E p \in Participants, next \in Tokens : Rotate(p, next)
         \/ \E c \in Sockets : OpenSocket(c) \/ Project(c) \/ Close(c)
         \/ \E c \in Sockets, p \in Participants : Hello(c, p)
         \/ UNCHANGED <<grants, sockets, presence, greeted>>
BY DEF Next, vars, Tick, AuditRefusal, RefuseControl, RejectCommand,
       CommitCommand

(* What the three small steps make of an attachment. *)
LEMMA Marked ==
  ASSUME TypeOK, NEW c \in Sockets, OpenSocket(c) \/ Project(c) \/ Close(c)
  PROVE  /\ grants' = grants
         /\ \A o \in Sockets \ {c} : sockets'[o] = sockets[o]
         /\ sockets'[c].participant = sockets[c].participant
         /\ sockets'[c].generation = sockets[c].generation
         /\ sockets'[c].expiresAt = sockets[c].expiresAt
         /\ OpenSocket(c) => /\ sockets[c].status = "unused"
                             /\ sockets'[c].status = "open"
                             /\ sockets'[c].joined = sockets[c].joined
                             /\ UNCHANGED <<presence, greeted>>
         /\ Project(c) => /\ sockets'[c].status = sockets[c].status
                          /\ sockets'[c].joined
         /\ Close(c) => /\ sockets'[c].status = "closed"
                        /\ sockets'[c].joined = sockets[c].joined
<1>1. CASE OpenSocket(c)
  BY <1>1 DEF OpenSocket, Project, Admits, Authenticated, Close, Open, TypeOK
<1>2. CASE Project(c)
  <2>1. /\ sockets' = [sockets EXCEPT ![c].joined = TRUE]
        /\ grants' = grants
        /\ sockets[c].status = "open"
    BY <1>2 DEF Project, Admits, Authenticated, Open
  <2>2. /\ \A o \in Sockets \ {c} : sockets'[o] = sockets[o]
        /\ sockets'[c].participant = sockets[c].participant
        /\ sockets'[c].generation = sockets[c].generation
        /\ sockets'[c].expiresAt = sockets[c].expiresAt
        /\ sockets'[c].status = "open"
        /\ sockets'[c].joined = TRUE
    BY <2>1 DEF TypeOK
  <2>3. ~OpenSocket(c)
    BY <2>1 DEF OpenSocket
  <2>4. ~Close(c)
    <3> SUFFICES ASSUME Close(c) PROVE FALSE
      OBVIOUS
    <3>1. sockets' = [sockets EXCEPT ![c].status = "closed"]
      BY DEF Close
    <3>2. sockets'[c].status = "closed"
      BY <3>1 DEF TypeOK
    <3> QED
      BY <2>2, <3>2
  <2> QED
    BY <2>1, <2>2, <2>3, <2>4
<1>3. CASE Close(c)
  BY <1>3 DEF OpenSocket, Project, Close, Open, TypeOK
<1> QED
  BY <1>1, <1>2, <1>3

LEMMA Greets ==
  ASSUME TypeOK, NEW c \in Sockets, NEW p \in Participants, Hello(c, p)
  PROVE  /\ UNCHANGED <<clock, grants>>
         /\ \A o \in Sockets \ {c} : sockets'[o] = sockets[o]
         /\ sockets'[c].status = "open"
         /\ sockets'[c].participant = p
         /\ sockets'[c].generation = grants[p].generation
         /\ sockets'[c].expiresAt = grants[p].expiresAt
         /\ sockets'[c].joined => ProtocolVersion = 1 \/ sockets[c].joined
         /\ presence' = IF ProtocolVersion = 1
                        THEN [presence EXCEPT ![p] = "connected"] ELSE presence
         /\ greeted' = greeted \union {p}
         /\ sockets[c].status = "open"
         /\ sockets[c].participant \in {"nobody", p}
         /\ sockets[c].participant # "nobody" =>
              sockets[c].generation = grants[p].generation
         /\ Unexpired(p)
<1>1. CASE ProtocolVersion = 1
  BY <1>1 DEF Hello, Attach, Authorizes, Open, TypeOK
<1>2. CASE ProtocolVersion # 1
  BY <1>2 DEF Hello, Attach, Authorizes, Open, TypeOK
<1> QED
  BY <1>1, <1>2

LEMMA Somebody == \A p \in Participants : p # "nobody"
BY SessionsAssumption DEF NoLease

LEMMA SocketStep ==
  ASSUME SocketInv, [Next]_vars
  PROVE  Fresh' /\ Attached'
<1> USE DEF SocketInv
<1>1. ASSUME NEW p \in Participants, NEW next \in Tokens, Rotate(p, next)
      PROVE  Fresh' /\ Attached'
  <2>1. /\ sockets' = sockets
        /\ grants'[p].generation = grants[p].generation + 1
        /\ \A q \in Participants \ {p} : grants'[q] = grants[q]
    BY <1>1 DEF Rotate, TypeOK
  <2>2. \A c \in Sockets : /\ sockets[c].generation \in Nat
                           /\ sockets[c].participant # "nobody" =>
                                sockets[c].participant \in Participants
    BY DEF TypeOK
  <2>3. ASSUME NEW c \in Sockets, sockets[c].participant = p
        PROVE  sockets[c].generation < grants'[p].generation
    BY <2>1, <2>2, <2>3, GrantParts, Somebody DEF Attached
  <2>4. Attached'
    BY <2>1, <2>2, <2>3, GrantParts DEF Attached
  <2> QED
    BY <2>1, <2>4 DEF Fresh
<1>2. ASSUME NEW c \in Sockets, OpenSocket(c) \/ Project(c) \/ Close(c)
      PROVE  Fresh' /\ Attached'
  <2>1. Project(c) => sockets[c].participant # "nobody"
    BY DEF Project, Admits, Authenticated
  <2> QED
    BY <1>2, <2>1, Marked DEF Fresh, Attached
<1>3. ASSUME NEW c \in Sockets, NEW p \in Participants, Hello(c, p)
      PROVE  Fresh' /\ Attached'
  BY <1>3, Greets, GrantParts, Somebody DEF Fresh, Attached
<1>4. CASE UNCHANGED <<grants, sockets>>
  BY <1>4 DEF Fresh, Attached
<1> QED
  BY <1>1, <1>2, <1>3, <1>4, SocketSteps

-----------------------------------------------------------------------------
(* Presence *)

(* Who is marked absent by a closing socket has no other that may act. *)
LEMMA PresentStep ==
  ASSUME SocketInv, AttachedIsPresent, [Next]_vars
  PROVE  AttachedIsPresent'
<1> USE DEF SocketInv
<1>0. \A c \in Sockets : sockets[c].participant # "nobody" =>
                           sockets[c].participant \in Participants
  BY DEF TypeOK
<1>1. ASSUME NEW p \in Participants, NEW next \in Tokens, Rotate(p, next)
      PROVE  AttachedIsPresent'
  <2>1. /\ UNCHANGED <<sockets, presence, clock>>
        /\ grants'[p].generation = grants[p].generation + 1
        /\ \A q \in Participants \ {p} : grants'[q] = grants[q]
    BY <1>1 DEF Rotate, TypeOK
  <2>2. \A c \in Sockets : sockets[c].participant = p =>
                             sockets[c].generation # grants'[p].generation
    BY <2>1, GrantParts, Somebody DEF Attached, TypeOK
  <2> QED
    BY <1>0, <2>1, <2>2 DEF AttachedIsPresent, Authenticated, Open, Unexpired
<1>2. ASSUME NEW c \in Sockets, OpenSocket(c) PROVE AttachedIsPresent'
  BY <1>2, Marked
  DEF OpenSocket, AttachedIsPresent, Authenticated, Open, Unexpired, Fresh
<1>3. ASSUME NEW c \in Sockets, Project(c) PROVE AttachedIsPresent'
  <2>1. /\ presence' = [presence EXCEPT ![sockets[c].participant] = "connected"]
        /\ sockets[c].participant \in Participants
        /\ UNCHANGED <<clock, grants>>
    BY <1>0, <1>3 DEF Project, Admits, Authenticated
  <2> QED
    BY <1>0, <1>3, <2>1, Marked
    DEF AttachedIsPresent, Authenticated, Open, Unexpired, TypeOK
<1>4. ASSUME NEW c \in Sockets, Close(c) PROVE AttachedIsPresent'
  <2> DEFINE p == sockets[c].participant
  <2>1. CASE ~Authenticated(c) \/ Others(c) # {} \/ ~HasPresence(p)
    <3>1. UNCHANGED <<clock, presence>>
      BY <1>4, <2>1 DEF Close
    <3> QED
      BY <1>4, <3>1, Marked
      DEF AttachedIsPresent, Authenticated, Open, Unexpired
  <2>2. CASE Authenticated(c) /\ Others(c) = {} /\ HasPresence(p)
    <3>1. /\ presence' = [presence EXCEPT ![p] = "disconnected"]
          /\ clock' = clock
      BY <1>4, <2>2 DEF Close, Leave
    <3>2. ASSUME NEW o \in Sockets \ {c}, Authenticated(o), Unexpired(p),
                 sockets[o].participant = p
          PROVE  sockets[o].generation # grants[p].generation
      BY <2>2, <3>2 DEF Others, Unexpired, Attached, Authenticated
    <3> QED
      BY <1>0, <1>4, <3>1, <3>2, Marked
      DEF AttachedIsPresent, Authenticated, Open, Unexpired, TypeOK
  <2> QED
    BY <2>1, <2>2
<1>5. ASSUME NEW c \in Sockets, NEW p \in Participants, Hello(c, p)
      PROVE  AttachedIsPresent'
  <2>1. sockets[c].joined => /\ sockets[c].participant = p
                             /\ presence[p] = "connected"
    BY <1>5, Greets, Somebody DEF Fresh, AttachedIsPresent, Authenticated, Open
  <2> QED
    BY SMTT(40), <1>0, <1>5, <2>1, Greets
    DEF AttachedIsPresent, Authenticated, Open, Unexpired, TypeOK
<1>6. CASE UNCHANGED <<grants, sockets, presence>> /\ clock' \in {clock, clock + 1}
  BY <1>0, <1>6, GrantParts
  DEF AttachedIsPresent, Authenticated, Open, Unexpired, TypeOK
<1>7. CASE Tick \/ AuditRefusal \/ UNCHANGED vars
  BY <1>6, <1>7 DEF Tick, AuditRefusal, vars
<1>8. ASSUME NEW p \in Players, NEW holder \in Holders,
             \/ RefuseControl(p, holder) \/ RejectCommand(p, holder)
             \/ \E leaves \in BOOLEAN : CommitCommand(p, holder, leaves)
      PROVE  AttachedIsPresent'
  BY <1>6, <1>8 DEF RefuseControl, RejectCommand, CommitCommand
<1> QED
  BY <1>1, <1>2, <1>3, <1>4, <1>5, <1>7, <1>8 DEF Next

LEMMA AbsentStep ==
  ASSUME SocketInv, GoneIsAbsent, [Next]_vars
  PROVE  GoneIsAbsent'
<1> USE DEF SocketInv
<1>1. ASSUME NEW p \in Participants, NEW next \in Tokens, Rotate(p, next)
      PROVE  GoneIsAbsent'
  BY <1>1 DEF Rotate, GoneIsAbsent, Authenticated, Open
<1>2. ASSUME NEW c \in Sockets, OpenSocket(c) PROVE GoneIsAbsent'
  BY <1>2, Marked DEF GoneIsAbsent, Authenticated, Open
<1>3. ASSUME NEW c \in Sockets, Project(c) PROVE GoneIsAbsent'
  <2>1. /\ presence' = [presence EXCEPT ![sockets[c].participant] = "connected"]
        /\ greeted' = greeted /\ Authenticated(c)
    BY <1>3 DEF Project, Admits
  <2> QED
    BY <1>3, <2>1, Marked DEF GoneIsAbsent, Authenticated, Open, TypeOK
<1>4. ASSUME NEW c \in Sockets, Close(c) PROVE GoneIsAbsent'
  <2> DEFINE p == sockets[c].participant
  <2>1. greeted' = greeted /\ Open(c)
    BY <1>4 DEF Close
  <2>2. CASE Authenticated(c) /\ Others(c) = {} /\ HasPresence(p)
    <3>1. presence' = [presence EXCEPT ![p] = "disconnected"]
      BY <1>4, <2>2 DEF Close, Leave
    <3> QED
      BY <1>4, <2>1, <3>1, Marked DEF GoneIsAbsent, Authenticated, Open, TypeOK
  <2>3. CASE Authenticated(c) /\ (Others(c) # {} \/ ~HasPresence(p))
    <3>1. presence' = presence
      BY <1>4, <2>3 DEF Close
    <3>2. HasPresence(p) =>
            \E o \in Sockets \ {c} : /\ Authenticated(o)
                                     /\ sockets[o].participant = p
      BY <2>3 DEF Others
    <3> QED
      BY <1>4, <2>1, <3>1, <3>2, Marked DEF GoneIsAbsent, Authenticated, Open
  <2>4. CASE ~Authenticated(c)
    <3>1. presence' = presence
      BY <1>4, <2>4 DEF Close
    <3> QED
      BY <1>4, <2>1, <2>4, <3>1, Marked DEF GoneIsAbsent, Authenticated, Open
  <2> QED
    BY <2>2, <2>3, <2>4
<1>5. ASSUME NEW c \in Sockets, NEW p \in Participants, Hello(c, p)
      PROVE  GoneIsAbsent'
  <2>1. Authenticated(c)' /\ sockets'[c].participant = p
    BY <1>5, Greets, Somebody DEF Authenticated, Open
  <2>2. /\ greeted' = greeted \union {p}
        /\ \A q \in Participants \ {p} : presence'[q] = presence[q]
    BY <1>5, Greets DEF TypeOK
  <2>3. \A o \in Sockets : sockets[o].participant \notin {"nobody", p}
                          => o # c /\ sockets'[o] = sockets[o]
    BY <1>5, Greets
  <2> SUFFICES ASSUME NEW q \in Participants, q # p, q \in greeted, HasPresence(q),
                      \A o \in Sockets : ~(/\ Authenticated(o)'
                                           /\ sockets'[o].participant = q)
               PROVE  presence'[q] = "disconnected"
    BY <2>1, <2>2 DEF GoneIsAbsent, HasPresence, TypeOK
  <2>4. \A o \in Sockets : ~(Authenticated(o) /\ sockets[o].participant = q)
    BY <2>3, Somebody DEF Authenticated, Open
  <2> QED
    BY <2>2, <2>4 DEF GoneIsAbsent, HasPresence
<1>6. CASE UNCHANGED <<grants, sockets, presence, greeted>>
  BY <1>6 DEF GoneIsAbsent, Authenticated, Open
<1> QED
  BY <1>1, <1>2, <1>3, <1>4, <1>5, <1>6, SocketSteps

LEMMA InitSockets == Init => SocketInv /\ AttachedIsPresent /\ GoneIsAbsent
<1> SUFFICES ASSUME Init PROVE SocketInv /\ AttachedIsPresent /\ GoneIsAbsent
  OBVIOUS
<1>1. \A c \in Sockets : sockets[c] = Unattached
  BY DEF Init
<1> QED
  BY <1>1, InitTyped
  DEF Init, SocketInv, Fresh, Attached, AttachedIsPresent, GoneIsAbsent,
      Unattached, Authenticated, Open

(* A socket that may act belongs to a participant who is present. *)
THEOREM PresentWhileAttached == Spec => []AttachedIsPresent
<1>1. SocketInv /\ AttachedIsPresent /\ [Next]_vars
      => (SocketInv /\ AttachedIsPresent)'
  BY TypeStep, SocketStep, PresentStep DEF SocketInv
<1> QED
  BY <1>1, InitSockets, PTL DEF Spec

(* A participant whose sockets are all gone is absent. *)
THEOREM AbsentWhenGone == Spec => []GoneIsAbsent
<1>1. SocketInv /\ GoneIsAbsent /\ [Next]_vars => (SocketInv /\ GoneIsAbsent)'
  BY TypeStep, SocketStep, AbsentStep DEF SocketInv
<1> QED
  BY <1>1, InitSockets, PTL DEF Spec

-----------------------------------------------------------------------------
(* Notices *)

(* Every step that moves the revision tells everybody. *)
LEMMA ToldStep ==
  ASSUME ProtocolVersion = 2 \/ HttpPlayers = {},
         SocketInv, EveryoneTold, [Next]_vars
  PROVE  EveryoneTold'
<1> USE DEF SocketInv
<1>1. ASSUME NEW c \in Sockets, OpenSocket(c) \/ Close(c) PROVE EveryoneTold'
  <2>1. \A o \in Sockets : Authenticated(o)' => Authenticated(o)
    BY <1>1, Marked DEF OpenSocket, Authenticated, Open, Fresh
  <2>2. revision' = revision /\ (told' = told \/ Broadcast(revision))
    BY <1>1 DEF OpenSocket, Close, Leave
  <2> QED
    BY <2>1, <2>2 DEF EveryoneTold, Broadcast, TypeOK
<1>2. ASSUME NEW c \in Sockets, Project(c) PROVE EveryoneTold'
  <2>1. \A o \in Sockets : Authenticated(o)' => Authenticated(o)
    BY <1>2, Marked DEF Authenticated, Open
  <2>2. /\ revision' = revision
        /\ Broadcast(revision) \/ told' = [told EXCEPT ![c] = revision]
    BY <1>2 DEF Project
  <2> QED
    BY <2>1, <2>2 DEF EveryoneTold, Broadcast, TypeOK
<1>3. ASSUME NEW c \in Sockets, NEW p \in Participants, Hello(c, p)
      PROVE  EveryoneTold'
  <2>1. \A o \in Sockets \ {c} : Authenticated(o)' => Authenticated(o)
    BY <1>3, Greets DEF Authenticated, Open
  <2>2. revision' = revision /\ told' = [told EXCEPT ![c] = revision]
    BY <1>3 DEF Hello
  <2> QED
    BY <2>1, <2>2 DEF EveryoneTold, TypeOK
<1>4. ASSUME NEW p \in Players, NEW holder \in Holders, NEW leaves \in BOOLEAN,
             CommitCommand(p, holder, leaves)
      PROVE  EveryoneTold'
  <2>1. ~(holder = Http /\ ProtocolVersion = 1)
    BY <1>4 DEF CommitCommand, Controls, MayCommand
  <2>2. sockets' = sockets /\ revision' = revision + 1 /\ Broadcast(revision + 1)
    BY <1>4, <2>1 DEF CommitCommand
  <2> QED
    BY <2>2 DEF EveryoneTold, Broadcast, Authenticated, Open
<1>5. CASE UNCHANGED <<sockets, told, revision>>
  BY <1>5 DEF EveryoneTold, Authenticated, Open
<1> QED
  BY <1>1, <1>2, <1>3, <1>4, <1>5
  DEF Next, Tick, AuditRefusal, Rotate, RefuseControl, RejectCommand, vars

(* Every authenticated socket was told the present revision (broadcastRevision,
   handleHello, handleVariableHello), unless a version 1 command may come by
   HTTP, which is announced to nobody. *)
THEOREM ToldOfEachRevision ==
  ASSUME ProtocolVersion = 2 \/ HttpPlayers = {}
  PROVE  Spec => []EveryoneTold
<1>1. Init => EveryoneTold
  BY DEF Init, EveryoneTold
<1>2. SocketInv /\ EveryoneTold /\ [Next]_vars => (SocketInv /\ EveryoneTold)'
  BY TypeStep, SocketStep, ToldStep DEF SocketInv
<1> QED
  BY <1>1, <1>2, InitSockets, PTL DEF Spec

-----------------------------------------------------------------------------
(* Control *)

(* The lease of the last command is still its holder's, or the time for it is
   over. *)
Released(p) ==
  LET last == commits[p]
  IN  \/ clock >= last.at + LeaseLifetime
      \/ grants[p].generation # last.generation
      \/ last.holder = Http
      \/ last.holder \in Sockets /\ ~Open(last.holder)
InControl(p) ==
  /\ leases[p] # NoLease
  /\ leases[p].holder = commits[p].holder
  /\ leases[p].expiresAt >= commits[p].at + LeaseLifetime
Controlled(p) ==
  commits[p] # NoCommit =>
    /\ commits[p].holder \in Holders
    /\ commits[p].at <= clock /\ commits[p].generation <= grants[p].generation
    /\ commits[p].holder \in Sockets => sockets[commits[p].holder].status # "unused"
    /\ Released(p) \/ InControl(p)
LeasesRemember == \A p \in Players : Controlled(p)

LEMMA Parts ==
  ASSUME TypeOK, NEW p \in Players
  PROVE  /\ clock \in Nat /\ LeaseLifetime \in Nat /\ LeaseLifetime > 0
         /\ grants[p].generation \in Nat
         /\ commits[p].generation \in Nat /\ commits[p].at \in Nat
         /\ leases[p].generation \in Nat /\ leases[p].expiresAt \in Nat
BY GrantParts, SessionsAssumption DEF TypeOK

(* A device that takes control had it, or it was free. *)
LEMMA TakesOver ==
  ASSUME TypeOK, NEW p \in Players, NEW holder \in Holders, Controlled(p),
         MayControl(p, grants[p].generation, holder), commits[p] # NoCommit
  PROVE  Released(p) \/ holder = commits[p].holder
BY Parts
DEF MayControl, Held, SameHolder, IsSocketHandoff, Controlled, InControl, Released

LEMMA ControlTaken ==
  ASSUME TypeOK, LeasesRemember, NEW p \in Players, NEW holder \in Holders,
         Controls(p, holder), UNCHANGED <<clock, grants, sockets>>,
         \/ commits' = commits
         \/ commits' = [commits EXCEPT ![p] =
              [holder |-> holder, generation |-> grants[p].generation, at |-> clock]]
  PROVE  LeasesRemember'
<1>1. /\ leases' = [leases EXCEPT ![p] =
           [generation |-> grants[p].generation, holder |-> holder,
            expiresAt |-> clock + LeaseLifetime]]
      /\ MayControl(p, grants[p].generation, holder)
  BY DEF Controls, TakeLease
<1>2. ASSUME NEW q \in Players, q # p PROVE Controlled(q)'
  <2>1. leases'[q] = leases[q] /\ commits'[q] = commits[q]
    BY <1>1, <1>2 DEF TypeOK
  <2> QED
    BY <2>1 DEF LeasesRemember, Controlled, Released, InControl, Open
<1>3. Controlled(p)'
  <2>1. /\ leases'[p].holder = holder
        /\ leases'[p].expiresAt = clock + LeaseLifetime
        /\ leases'[p] # NoLease
    <3>1. leases'[p] = [generation |-> grants[p].generation, holder |-> holder,
                        expiresAt |-> clock + LeaseLifetime]
      BY <1>1 DEF TypeOK
    <3>2. clock + LeaseLifetime # 0
      BY Parts
    <3> QED
      BY <3>1, <3>2 DEF NoLease
  <2>2. CASE commits'[p] = commits[p] /\ commits[p] # NoCommit
    <3>1. Controlled(p) /\ (Released(p) \/ holder = commits[p].holder)
      BY <1>1, <2>2, TakesOver DEF LeasesRemember
    <3>2. CASE Released(p)
      BY <2>2, <3>1, <3>2 DEF Controlled, Released, Open
    <3>3. CASE holder = commits[p].holder
      <4>1. clock + LeaseLifetime >= commits[p].at + LeaseLifetime
        BY <2>2, <3>1, Parts DEF Controlled
      <4>2. InControl(p)'
        BY <2>1, <2>2, <3>3, <4>1 DEF InControl
      <4> QED
        BY <2>2, <3>1, <4>2 DEF Controlled
    <3> QED
      BY <3>1, <3>2, <3>3
  <2>3. CASE commits'[p] = NoCommit
    BY <2>3 DEF Controlled
  <2>4. CASE commits'[p] = [holder |-> holder, generation |-> grants[p].generation,
                            at |-> clock]
    <3>1. holder \in Sockets => sockets[holder].status # "unused"
      BY SessionsAssumption DEF Controls, MayCommand, Admits, Authenticated, Open
    <3>2. InControl(p)'
      BY <2>1, <2>4, Parts DEF InControl
    <3> QED
      BY <2>4, <3>1, <3>2, Parts DEF Controlled
  <2> QED
    BY <2>2, <2>3, <2>4 DEF TypeOK
<1> QED
  BY <1>2, <1>3 DEF LeasesRemember

LEMMA ControlStep ==
  ASSUME SocketInv, LeasesRemember, [Next]_vars
  PROVE  LeasesRemember'
<1> USE DEF SocketInv
<1>1. CASE Tick
  <2>1. clock' = clock + 1 /\ UNCHANGED <<grants, leases, sockets, commits>>
    BY <1>1 DEF Tick
  <2>2. ASSUME NEW p \in Players PROVE Controlled(p)'
    BY <2>1, Parts DEF LeasesRemember, Controlled, Released, InControl, Open
  <2> QED
    BY <2>2 DEF LeasesRemember
<1>2. CASE UNCHANGED <<clock, grants, leases, sockets, commits>>
  BY <1>2 DEF LeasesRemember, Controlled, Released, InControl, Open
<1>3. ASSUME NEW p \in Participants, NEW next \in Tokens, Rotate(p, next)
      PROVE  LeasesRemember'
  <2>1. /\ UNCHANGED <<clock, sockets, commits>>
        /\ grants'[p].generation = grants[p].generation + 1
        /\ \A q \in Participants \ {p} : grants'[q] = grants[q]
        /\ \A q \in Players \ {p} : leases'[q] = leases[q]
    BY <1>3 DEF Rotate, DropLease, TypeOK
  <2>2. ASSUME NEW q \in Players, q # p PROVE Controlled(q)'
    BY <2>1, <2>2 DEF LeasesRemember, Controlled, Released, InControl, Open
  <2>3. ASSUME p \in Players PROVE Controlled(p)'
    BY <2>1, <2>3, Parts DEF LeasesRemember, Controlled, Released
  <2> QED
    BY <2>2, <2>3 DEF LeasesRemember
<1>4. ASSUME NEW c \in Sockets, OpenSocket(c) \/ Project(c) PROVE LeasesRemember'
  <2>1. UNCHANGED <<clock, grants, leases, commits>>
    BY <1>4 DEF OpenSocket, Project
  <2>2. \A o \in Sockets : sockets[o].status # "unused" =>
                             sockets'[o].status = sockets[o].status
    BY <1>4, Marked DEF OpenSocket, Project, Admits, Authenticated, Open
  <2>3. ASSUME NEW p \in Players PROVE Controlled(p)'
    BY <2>1, <2>2 DEF LeasesRemember, Controlled, Released, InControl, Open
  <2> QED
    BY <2>3 DEF LeasesRemember
<1>5. ASSUME NEW c \in Sockets, NEW p \in Participants, Hello(c, p)
      PROVE  LeasesRemember'
  <2>1. UNCHANGED <<clock, grants, leases, commits>>
    BY <1>5 DEF Hello
  <2>2. \A o \in Sockets : sockets'[o].status = sockets[o].status
    BY <1>5, Greets
  <2>3. ASSUME NEW q \in Players PROVE Controlled(q)'
    BY <2>1, <2>2 DEF LeasesRemember, Controlled, Released, InControl, Open
  <2> QED
    BY <2>3 DEF LeasesRemember
<1>6. ASSUME NEW c \in Sockets, Close(c) PROVE LeasesRemember'
  <2>1. /\ UNCHANGED <<clock, grants, commits>>
        /\ sockets'[c].status = "closed"
        /\ \A o \in Sockets \ {c} : sockets'[o] = sockets[o]
    BY <1>6 DEF Close, TypeOK
  <2>2. ASSUME NEW p \in Players
        PROVE  leases'[p] = leases[p] \/ leases[p].holder = c
    BY <1>6 DEF Close, Release, DropLease, SameHolder, TypeOK
  <2>3. ASSUME NEW p \in Players PROVE Controlled(p)'
    <3>1. CASE commits[p].holder = c
      BY <2>1, <3>1 DEF LeasesRemember, Controlled, Released, Open
    <3>2. CASE commits[p].holder # c
      BY <2>1, <2>2, <3>2 DEF LeasesRemember, Controlled, Released, InControl, Open
    <3> QED
      BY <3>1, <3>2
  <2> QED
    BY <2>3 DEF LeasesRemember
<1>7. ASSUME NEW p \in Players, NEW holder \in Holders, RejectCommand(p, holder)
      PROVE  LeasesRemember'
  BY <1>7, ControlTaken DEF RejectCommand
<1>8. ASSUME NEW p \in Players, NEW holder \in Holders, NEW leaves \in BOOLEAN,
             CommitCommand(p, holder, leaves)
      PROVE  LeasesRemember'
  BY <1>8, ControlTaken DEF CommitCommand
<1> QED
  BY <1>1, <1>2, <1>3, <1>4, <1>5, <1>6, <1>7, <1>8
  DEF Next, AuditRefusal, RefuseControl, vars

(* One device of a player controls the seat at a time (acquireControllerLease,
   closeSocketIfActive, rotateCapability). *)
THEOREM OneDeviceControls == Spec => OneController
<1>1. Init => LeasesRemember
  BY DEF Init, LeasesRemember, Controlled
<1>2. SocketInv /\ LeasesRemember /\ [Next]_vars => (SocketInv /\ LeasesRemember)'
  BY TypeStep, SocketStep, ControlStep DEF SocketInv
<1>3. ASSUME SocketInv, LeasesRemember, Next, NEW p \in Players,
             commits'[p] # commits[p]
      PROVE  LET last == commits[p]
             IN  \/ last = NoCommit
                 \/ commits'[p].holder = last.holder
                 \/ clock >= last.at + LeaseLifetime
                 \/ grants[p].generation # last.generation
                 \/ last.holder = Http
                 \/ ~Open(last.holder)
  <2>1. PICK holder \in Holders :
          /\ MayControl(p, grants[p].generation, holder)
          /\ commits'[p].holder = holder
    <3>1. ASSUME NEW q \in Players, NEW holder \in Holders, NEW leaves \in BOOLEAN,
                 CommitCommand(q, holder, leaves)
          PROVE  /\ q = p /\ MayControl(p, grants[p].generation, holder)
                 /\ commits'[p].holder = holder
      BY <1>3, <3>1 DEF CommitCommand, Controls, SocketInv, TypeOK
    <3>2. CASE commits' = commits
      BY <1>3, <3>2
    <3> QED
      BY <1>3, <3>1, <3>2
      DEF Next, Tick, AuditRefusal, Rotate, OpenSocket, Project, Close, Hello,
          RefuseControl, RejectCommand
  <2> QED
    BY <1>3, <2>1, TakesOver DEF LeasesRemember, SocketInv, Released
<1>4. SocketInv /\ LeasesRemember /\ [Next]_vars
      => [\A p \in Players :
            LET last == commits[p]
            IN  commits'[p] # last =>
                  \/ last = NoCommit
                  \/ commits'[p].holder = last.holder
                  \/ clock >= last.at + LeaseLifetime
                  \/ grants[p].generation # last.generation
                  \/ last.holder = Http
                  \/ ~Open(last.holder)]_vars
  BY <1>3
<1> QED
  BY <1>1, <1>2, <1>4, InitSockets, PTL DEF Spec, OneController
=============================================================================
