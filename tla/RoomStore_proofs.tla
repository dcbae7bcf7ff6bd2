--------------------------- MODULE RoomStore_proofs ---------------------------
(***************************************************************************)
(* Whatever the interval of the checkpoints, the number of players, of     *)
(* versions and of evictions, the rows of a room are found in order.       *)
(***************************************************************************)
EXTENDS RoomStore, SequenceTheorems, TLAPS

USE StoreAssumption

-----------------------------------------------------------------------------
(* Sequences *)

LEMMA Glued ==
  ASSUME NEW S, NEW s \in Seq(S), NEW n \in 0..Len(s)
  PROVE  SubSeq(s, 1, n) \o SubSeq(s, n + 1, Len(s)) = s
<1>1. /\ 1 \in 1..Len(s) + 1 /\ n \in 1 - 1 .. Len(s) /\ Len(s) \in n..Len(s)
  OBVIOUS
<1>2. SubSeq(s, 1, n) \o SubSeq(s, n + 1, Len(s)) = SubSeq(s, 1, Len(s))
  BY <1>1, ConcatAdjacentSubSeq
<1> QED BY <1>2, SubSeqFull

LEMMA PrefixOf ==
  ASSUME NEW S, NEW s \in Seq(S), NEW n \in 0..Len(s)
  PROVE  SubSeq(s, 1, n) \in Seq(S) /\ Len(SubSeq(s, 1, n)) = n
BY SubSeqProperties

LEMMA PrefixOfAppend ==
  ASSUME NEW S, NEW s \in Seq(S), NEW e \in S, NEW n \in 0..Len(s)
  PROVE  SubSeq(Append(s, e), 1, n) = SubSeq(s, 1, n)
<1>1. /\ Append(s, e) \in Seq(S) /\ Len(Append(s, e)) = Len(s) + 1
      /\ \A i \in 1..Len(s) : Append(s, e)[i] = s[i]
  BY AppendProperties
<1>2. /\ SubSeq(s, 1, n) \in Seq(S) /\ Len(SubSeq(s, 1, n)) = n
      /\ \A i \in 1..n : SubSeq(s, 1, n)[i] = s[i]
  BY SubSeqProperties
<1>3. \A i \in 1..n : Append(s, e)[i] \in S BY <1>1
<1>4. /\ SubSeq(Append(s, e), 1, n) \in Seq(S) /\ Len(SubSeq(Append(s, e), 1, n)) = n
      /\ \A i \in 1..n : SubSeq(Append(s, e), 1, n)[i] = Append(s, e)[i]
  BY <1>3, SubSeqProperties
<1> QED BY <1>1, <1>2, <1>4, SeqEqual

(* Among Interval numbers in a row one is a multiple of it. *)
LEMMA OneIsDue ==
  ASSUME NEW m \in Nat, NEW n \in Nat, m <= n,
         \A k \in m + 1 .. n : k % Interval # 0
  PROVE  n - m <= Interval - 1
<1> DEFINE r == n % Interval
           k == n - r
<1>1. r \in 0 .. Interval - 1 OBVIOUS
<1>2. k % Interval = 0 OBVIOUS
<1> HIDE DEF r
<1>3. k \in n - Interval + 1 .. n BY <1>1
<1> HIDE DEF k
<1>4. k \notin m + 1 .. n BY <1>2
<1> QED BY <1>3, <1>4

-----------------------------------------------------------------------------
(* The strengthening *)

(* The room row and the journal tell the same, and every entry was one its
   handler accepted. *)
JournalOfRoom ==
  IF room = NoRow THEN journal = <<>> /\ checkpoint = NoRow ELSE journal = room.core
Playable(entries, i) ==
  /\ IsActive(SubSeq(entries, 1, i - 1))
  /\ entries[i].author \in Pending(SubSeq(entries, 1, i - 1))
JournalIsHandled == \A i \in DOMAIN journal : Playable(journal, i)

(* The checkpoint is a prefix of the journal, and no entry behind it was due to
   move it. *)
PrefixKept ==
  checkpoint # NoRow =>
    /\ checkpoint.revision \in 0..Len(journal)
    /\ checkpoint.state.core = SubSeq(journal, 1, checkpoint.revision)
    /\ \A k \in checkpoint.revision + 1 .. Len(journal) : k % Interval # 0

(* Behind the first request there is a checkpoint, a request loaded the rows as
   they are, and what is acknowledged is in the journal. *)
RequestIsCurrent ==
  /\ version # Down /\ room # NoRow => checkpoint # NoRow
  /\ request.kind # "none" => version # Down /\ room # NoRow
  /\ request.kind \in {"command", "presence"} => request.state = room
  /\ request.kind = "answer" => request.revision \in DOMAIN journal
  /\ acked \subseteq DOMAIN journal
MarkerIsCurrent == version \in Versions /\ room # NoRow => Hit(version, room)

Inv ==
  /\ TypeOK /\ JournalOfRoom /\ JournalIsHandled
  /\ PrefixKept /\ RequestIsCurrent /\ MarkerIsCurrent

(* The rows of the invariant can be loaded by every version. *)
LEMMA Loadable ==
  ASSUME TypeOK, JournalOfRoom, JournalIsHandled, PrefixKept,
         room # NoRow, checkpoint # NoRow
  PROVE  /\ Rebuilt = journal /\ RowsAgree /\ ValidCheckpoint(room)
         /\ Revision(room) = Len(journal) /\ Revision(checkpoint.state) = checkpoint.revision
         /\ Revision(room) - checkpoint.revision <= Interval - 1
<1>1. /\ room \in States /\ journal \in Seq(Commands) /\ checkpoint \in Checkpoints
      /\ journal = room.core
  BY DEF TypeOK, JournalOfRoom
<1>2. /\ checkpoint.revision \in 0..Len(journal)
      /\ checkpoint.state.core = SubSeq(journal, 1, checkpoint.revision)
      /\ \A k \in checkpoint.revision + 1 .. Len(journal) : k % Interval # 0
  BY DEF PrefixKept
<1>3. Rebuilt = journal BY <1>1, <1>2, Glued DEF Rebuilt
<1>4. Len(journal) - checkpoint.revision <= Interval - 1
  <2>1. checkpoint.revision \in Nat /\ Len(journal) \in Nat
        /\ checkpoint.revision <= Len(journal)
    BY <1>1, <1>2
  <2> QED BY <2>1, <1>2, OneIsDue
<1>5. Len(checkpoint.state.core) = checkpoint.revision BY <1>1, <1>2, PrefixOf
<1>6. ASSUME NEW i \in Suffix
      PROVE  Handles(SubSeq(Rebuilt, 1, i - 1), PresentAtReplay(i), journal[i])
  <2>1. i \in DOMAIN journal BY <1>1, <1>2 DEF Suffix
  <2>2. Playable(journal, i) BY <2>1 DEF JournalIsHandled
  <2>3. journal[i].author \in PresentAtReplay(i)
    BY <1>1, <1>2 DEF PresentAtReplay, Suffix
  <2> QED BY <1>3, <2>2, <2>3 DEF Handles, Playable
<1> QED BY <1>1, <1>2, <1>3, <1>4, <1>5, <1>6 DEF RowsAgree, ValidCheckpoint, Revision

(* Whoever writes a marker finds it up to date. *)
LEMMA FreshMarker ==
  ASSUME NEW v \in Versions, NEW state \in States, NEW cp \in Checkpoints,
         NEW entries \in Seq(Commands), entries = state.core
  PROVE  /\ Marker(v, state, cp, entries) \in Markers
         /\ Marker(v, state, cp, entries).version = v
         /\ Marker(v, state, cp, entries).revision = Len(entries)
         /\ Marker(v, state, cp, entries).checkpointRevision = cp.revision
         /\ Marker(v, state, cp, entries).journalCount = Len(entries)
         /\ Marker(v, state, cp, entries).digest = cp.state
BY DEF Marker, Markers, Checkpoints, Revision, States

LEMMA RowsExist == NoRow \notin States /\ NoRow \notin Checkpoints /\ NoRow \notin Markers
OBVIOUS

-----------------------------------------------------------------------------
(* The operations *)

LEMMA InitInv == Init => Inv
<1> SUFFICES ASSUME Init PROVE Inv OBVIOUS
<1>1. /\ checkpoint = NoRow /\ marker = NoRow /\ version = Down
      /\ request = NoRequest /\ acked = {}
  BY DEF Init
<1>2. CASE room = NoRow /\ journal = <<>>
  <2>1. TypeOK BY <1>1, <1>2 DEF TypeOK
  <2>2. DOMAIN journal = {} BY <1>2
  <2> QED BY <1>1, <1>2, <2>1, <2>2
       DEF Inv, JournalOfRoom, JournalIsHandled, PrefixKept, RequestIsCurrent,
           MarkerIsCurrent, NoRequest
<1>3. CASE room \in LegacyStates /\ journal = room.core
  <2>1. PICK n \in 0..MaxLegacy : room.core \in [1..n -> Commands]
    BY <1>3 DEF LegacyStates
  <2>2. room \in States BY <1>3, <2>1 DEF LegacyStates, States
  <2>3. TypeOK BY <1>1, <1>3, <2>2 DEF TypeOK, States
  <2>4. JournalIsHandled
    BY <1>3 DEF JournalIsHandled, Playable, LegacyStates, Plausible, Handles
  <2> QED BY <1>1, <1>3, <2>2, <2>3, <2>4
       DEF Inv, JournalOfRoom, PrefixKept, RequestIsCurrent, MarkerIsCurrent, NoRequest
<1> QED BY <1>2, <1>3 DEF Init

LEMMA InitializeKeeps == ASSUME Inv, InitializeRoom PROVE Inv'
<1>1. /\ version # Down /\ request = NoRequest /\ room = NoRow
      /\ room' = [core |-> <<>>, connected |-> Players]
      /\ journal' = <<>> /\ checkpoint' = [revision |-> 0, state |-> room']
      /\ marker' = Verified(version, room', checkpoint', journal')
      /\ UNCHANGED <<version, request, acked>>
  BY DEF InitializeRoom
<1>2. /\ room' \in States /\ checkpoint' \in Checkpoints /\ journal' \in Seq(Commands)
      /\ room' # NoRow /\ checkpoint' # NoRow
  <2>1. <<>> \in Seq(Commands) OBVIOUS
  <2>2. room' \in States BY <1>1, <2>1 DEF States
  <2>3. checkpoint' \in Checkpoints BY <1>1, <2>2 DEF Checkpoints
  <2> QED BY <1>1, <2>1, <2>2, <2>3, RowsExist
<1>3. version \in Versions => Hit(version, room)' /\ marker' \in Markers
  <2>1. /\ journal' = room'.core /\ Len(journal') = 0
        /\ checkpoint'.revision = 0 /\ checkpoint'.state = room'
    BY <1>1
  <2>2. version \in Versions => marker' = Marker(version, room', checkpoint', journal')
    BY <1>1 DEF Verified
  <2>3. version \in Versions =>
          /\ marker' \in Markers /\ marker'.version = version
          /\ marker'.revision = 0 /\ marker'.checkpointRevision = 0
          /\ marker'.journalCount = 0 /\ marker'.digest = room'
    BY <1>2, <2>1, <2>2, FreshMarker
  <2>4. Revision(room') = 0 /\ Revision(checkpoint'.state) = 0
    BY <1>1, <2>1 DEF Revision
  <2> QED BY <1>1, <1>2, <2>1, <2>3, <2>4, RowsExist DEF Hit
<1>4. TypeOK'
  BY <1>1, <1>2, <1>3 DEF Inv, TypeOK, Verified, Deployments
<1>5. acked = {}
  <2>1. journal = <<>> /\ DOMAIN journal = {} BY <1>1 DEF Inv, JournalOfRoom
  <2> QED BY <2>1 DEF Inv, RequestIsCurrent
<1>6. JournalIsHandled' /\ JournalOfRoom' /\ PrefixKept'
  <2>1. DOMAIN journal' = {} /\ Len(journal') = 0 BY <1>1
  <2>2. SubSeq(journal', 1, 0) = <<>> BY <1>1
  <2>3. JournalIsHandled' BY <2>1 DEF JournalIsHandled
  <2>4. JournalOfRoom' BY <1>1, <1>2 DEF JournalOfRoom
  <2>5. /\ checkpoint'.revision = 0 /\ checkpoint'.state.core = <<>>
    BY <1>1
  <2>6. PrefixKept' BY <2>1, <2>2, <2>5 DEF PrefixKept
  <2> QED BY <2>3, <2>4, <2>6
<1> QED BY <1>1, <1>2, <1>3, <1>4, <1>5, <1>6
     DEF Inv, RequestIsCurrent, MarkerIsCurrent, NoRequest

(* Room, journal and checkpoint stay as they are. *)
LEMMA RowsRest ==
  ASSUME Inv, UNCHANGED <<room, journal, checkpoint>>
  PROVE  JournalOfRoom' /\ JournalIsHandled' /\ PrefixKept'
BY DEF Inv, JournalOfRoom, JournalIsHandled, PrefixKept

LEMMA RestartKeeps ==
  ASSUME Inv, NEW v \in Deployments, Restart(v) PROVE Inv'
<1>1. /\ version = Down /\ version' = v /\ request.kind = "none"
      /\ UNCHANGED <<room, journal, request, acked>>
  BY DEF Restart, Inv, RequestIsCurrent
<1>2. CASE room = NoRow
  <2>1. UNCHANGED <<checkpoint, marker>> BY <1>2 DEF Restart
  <2>2. TypeOK' BY <1>1, <2>1 DEF Inv, TypeOK
  <2> QED BY <1>1, <1>2, <2>1, <2>2, RowsRest
          DEF Inv, RequestIsCurrent, MarkerIsCurrent
<1>3. CASE room # NoRow /\ checkpoint = NoRow
  <2>1. /\ checkpoint' = [revision |-> Revision(room), state |-> room]
        /\ marker' = Verified(v, room, checkpoint', journal)
        /\ journal = room.core /\ room \in States /\ journal \in Seq(Commands)
        /\ Revision(room) = Len(journal)
    BY <1>3 DEF Restart, Hit, Inv, TypeOK, JournalOfRoom, Revision
  <2>2. /\ checkpoint' \in Checkpoints /\ checkpoint' # NoRow
        /\ checkpoint'.revision = Len(journal) /\ checkpoint'.state = room
    BY <2>1, RowsExist DEF Checkpoints
  <2>3. SubSeq(journal, 1, Len(journal)) = journal BY <2>1, SubSeqFull
  <2>4. PrefixKept' BY <1>1, <2>1, <2>2, <2>3 DEF PrefixKept
  <2>5. v \in Versions =>
          /\ marker' \in Markers /\ marker'.version = v
          /\ marker'.revision = Len(journal) /\ marker'.checkpointRevision = Len(journal)
          /\ marker'.journalCount = Len(journal) /\ marker'.digest = room
    BY <2>1, <2>2, FreshMarker DEF Verified
  <2>6. v \in Versions => Hit(v, room)'
    BY <1>1, <1>3, <2>1, <2>2, <2>5, RowsExist DEF Hit
  <2>7. TypeOK'
    BY <1>1, <2>1, <2>2, <2>5 DEF Inv, TypeOK, Verified, Deployments
  <2>8. MarkerIsCurrent' BY <1>1, <2>6 DEF MarkerIsCurrent
  <2> QED BY <1>1, <1>3, <2>2, <2>4, <2>7, <2>8
          DEF Inv, JournalOfRoom, JournalIsHandled, RequestIsCurrent
<1>4. CASE room # NoRow /\ checkpoint # NoRow
  <2>1. /\ checkpoint' = checkpoint
        /\ marker' = IF Hit(v, room) THEN marker ELSE Verified(v, room, checkpoint, journal)
        /\ journal = room.core /\ room \in States /\ journal \in Seq(Commands)
        /\ checkpoint \in Checkpoints
    BY <1>4 DEF Restart, Inv, TypeOK, JournalOfRoom
  <2>2. v \in Versions /\ ~Hit(v, room) =>
          /\ marker' \in Markers /\ marker'.version = v
          /\ marker'.revision = Len(journal)
          /\ marker'.checkpointRevision = checkpoint.revision
          /\ marker'.journalCount = Len(journal) /\ marker'.digest = checkpoint.state
    BY <2>1, FreshMarker DEF Verified
  <2>3. /\ Revision(room) = Len(journal) /\ Revision(checkpoint.state) = checkpoint.revision
        /\ Revision(room) - checkpoint.revision <= Interval - 1
        /\ checkpoint.revision <= Revision(room)
    BY <1>4, <2>1, Loadable DEF Inv, PrefixKept
  <2>4. v \in Versions => Hit(v, room)'
    BY <1>1, <1>4, <2>1, <2>2, <2>3, RowsExist DEF Hit
  <2>5. TypeOK' BY <1>1, <2>1, <2>2 DEF Inv, TypeOK, Verified, Deployments
  <2>6. MarkerIsCurrent' BY <1>1, <2>4 DEF MarkerIsCurrent
  <2> QED BY <1>1, <1>4, <2>1, <2>5, <2>6, RowsRest DEF Inv, RequestIsCurrent
<1> QED BY <1>2, <1>3, <1>4

LEMMA LoadKeeps ==
  ASSUME Inv, NEW what, Load(what),
         \/ what \in [kind : {"command"}, state : States, command : Commands]
         \/ what \in [kind : {"presence"}, state : States, participant : Players],
         what.state = room
  PROVE  Inv'
<1>1. /\ version # Down /\ room # NoRow /\ checkpoint # NoRow
      /\ request' = what /\ what.kind \in {"command", "presence"}
      /\ marker' = IF Hit(version, room) THEN marker
                   ELSE Verified(version, room, checkpoint, journal)
      /\ UNCHANGED <<room, journal, checkpoint, version, acked>>
  BY DEF Load, Inv, RequestIsCurrent
<1>2. journal = room.core /\ room \in States /\ journal \in Seq(Commands)
      /\ checkpoint \in Checkpoints
  BY <1>1 DEF Inv, TypeOK, JournalOfRoom
<1>3. version \in Versions => marker' = marker /\ Hit(version, room)
  BY <1>1 DEF Inv, MarkerIsCurrent
<1>4. version = NoVersion => marker' = marker BY <1>1 DEF Verified
<1>5. marker' = marker BY <1>1, <1>3, <1>4 DEF Inv, TypeOK, Deployments
<1>6. TypeOK' BY <1>1, <1>5 DEF Inv, TypeOK
<1>7. MarkerIsCurrent' BY <1>1, <1>5 DEF Inv, MarkerIsCurrent, Hit
<1> QED BY <1>1, <1>6, <1>7, RowsRest DEF Inv, RequestIsCurrent

LEMMA CommitKeeps == ASSUME Inv, CommitAccepted PROVE Inv'
<1> DEFINE c == request.command
<1>1. /\ request.kind = "command" /\ request.state = room
      /\ version # Down /\ room # NoRow /\ checkpoint # NoRow
      /\ room \in States /\ journal = room.core /\ journal \in Seq(Commands)
      /\ c \in Commands /\ checkpoint \in Checkpoints
  BY DEF CommitAccepted, Inv, RequestIsCurrent, JournalOfRoom, TypeOK, NoRequest
<1>2. /\ Handles(room.core, room.connected, c)
      /\ room' = [room EXCEPT !.core = Append(@, c)]
      /\ journal' = Append(journal, c)
      /\ checkpoint' = AdvancedCheckpoint(room')
      /\ marker' = Verified(version, room', checkpoint', journal')
      /\ request' = [kind |-> "answer", revision |-> Revision(room')]
      /\ UNCHANGED <<version, acked>>
  BY <1>1 DEF CommitAccepted
<1>3. /\ journal' \in Seq(Commands) /\ Len(journal') = Len(journal) + 1
      /\ \A i \in 1..Len(journal) : journal'[i] = journal[i]
      /\ journal'[Len(journal) + 1] = c
      /\ Len(journal) \in Nat
  BY <1>1, <1>2, AppendProperties
<1>4. room' \in States /\ room'.core = journal' /\ Revision(room') = Len(journal')
  BY <1>1, <1>2, <1>3 DEF States, Revision
<1> HIDE DEF c
<1>5. \A n \in 0..Len(journal) : SubSeq(journal', 1, n) = SubSeq(journal, 1, n)
  BY <1>1, <1>2, PrefixOfAppend
<1>6. JournalIsHandled'
  <2> SUFFICES ASSUME NEW i \in 1..Len(journal')
               PROVE  /\ IsActive(SubSeq(journal', 1, i - 1))
                      /\ journal'[i].author \in Pending(SubSeq(journal', 1, i - 1))
    BY <1>3 DEF JournalIsHandled, Playable
  <2>1. i - 1 \in 0..Len(journal) /\ SubSeq(journal', 1, i - 1) = SubSeq(journal, 1, i - 1)
    BY <1>3, <1>5
  <2>2. CASE i \in 1..Len(journal)
    <3>1. Playable(journal, i) BY <2>2, <1>1 DEF Inv, JournalIsHandled
    <3> QED BY <2>1, <2>2, <3>1, <1>3 DEF Playable
  <2>3. CASE i = Len(journal) + 1
    <3>1. SubSeq(journal, 1, i - 1) = journal BY <2>3, <1>1, <1>3, SubSeqFull
    <3> QED BY <1>1, <1>2, <1>3, <2>1, <2>3, <3>1 DEF Handles
  <2> QED BY <2>2, <2>3, <1>3
<1>7. /\ checkpoint' \in Checkpoints /\ checkpoint' # NoRow
      /\ checkpoint'.revision \in 0..Len(journal')
      /\ checkpoint'.state.core = SubSeq(journal', 1, checkpoint'.revision)
      /\ \A k \in checkpoint'.revision + 1 .. Len(journal') : k % Interval # 0
  <2>1. CASE Len(journal') % Interval = 0
    <3>1. checkpoint' = [revision |-> Len(journal'), state |-> room']
      BY <2>1, <1>2, <1>4 DEF AdvancedCheckpoint
    <3>2. SubSeq(journal', 1, Len(journal')) = journal' BY <1>3, SubSeqFull
    <3> QED BY <3>1, <3>2, <1>3, <1>4, RowsExist DEF Checkpoints
  <2>2. CASE Len(journal') % Interval # 0
    <3>1. checkpoint' = checkpoint
      BY <2>2, <1>2, <1>4 DEF AdvancedCheckpoint
    <3>2. /\ checkpoint.revision \in 0..Len(journal)
          /\ checkpoint.state.core = SubSeq(journal, 1, checkpoint.revision)
          /\ \A k \in checkpoint.revision + 1 .. Len(journal) : k % Interval # 0
      BY <1>1 DEF Inv, PrefixKept
    <3>3. \A k \in checkpoint.revision + 1 .. Len(journal') :
            k \in checkpoint.revision + 1 .. Len(journal) \/ k = Len(journal')
      BY <3>2, <1>3
    <3>4. checkpoint.revision \in 0..Len(journal') BY <3>2, <1>3
    <3> QED BY <3>1, <3>2, <3>3, <3>4, <2>2, <1>1, <1>5
  <2> QED BY <2>1, <2>2
<1>8. version \in Versions =>
        /\ marker' \in Markers /\ marker'.version = version
        /\ marker'.revision = Len(journal')
        /\ marker'.checkpointRevision = checkpoint'.revision
        /\ marker'.journalCount = Len(journal') /\ marker'.digest = checkpoint'.state
  <2>1. version \in Versions => marker' = Marker(version, room', checkpoint', journal')
    BY <1>2 DEF Verified
  <2> QED BY <2>1, <1>3, <1>4, <1>7, FreshMarker
<1>9. TypeOK'
  <2>1. request' \in [kind : {"answer"}, revision : Nat] BY <1>2, <1>3, <1>4
  <2>2. marker' \in Markers \union {NoRow}
    BY <1>1, <1>2, <1>8 DEF Inv, TypeOK, Verified, Deployments
  <2> QED BY <2>1, <2>2, <1>2, <1>3, <1>4, <1>7 DEF Inv, TypeOK
<1>10. JournalOfRoom' /\ PrefixKept'
  BY <1>4, <1>7, RowsExist DEF JournalOfRoom, PrefixKept
<1>11. RequestIsCurrent'
  <2>1. DOMAIN journal = 1..Len(journal) /\ DOMAIN journal' = 1..Len(journal) + 1
    BY <1>1, <1>3
  <2>2. acked' \subseteq DOMAIN journal'
    BY <2>1, <1>2, <1>3 DEF Inv, RequestIsCurrent
  <2>3. request'.kind = "answer" /\ request'.revision \in DOMAIN journal'
    BY <2>1, <1>2, <1>3, <1>4
  <2> QED BY <2>2, <2>3, <1>1, <1>2, <1>4, <1>7, RowsExist DEF RequestIsCurrent
<1>12. MarkerIsCurrent'
  <2>1. /\ Len(checkpoint'.state.core) = checkpoint'.revision
        /\ Len(journal') - checkpoint'.revision <= Interval - 1
    <3>1. checkpoint'.revision \in Nat /\ checkpoint'.revision <= Len(journal')
          /\ Len(journal') \in Nat
      BY <1>7, <1>3
    <3>2. Len(journal') - checkpoint'.revision <= Interval - 1
      BY <3>1, <1>7, OneIsDue
    <3>3. Len(checkpoint'.state.core) = checkpoint'.revision
      BY <1>3, <1>7, PrefixOf
    <3> QED BY <3>2, <3>3
  <2> QED BY <2>1, <1>2, <1>3, <1>4, <1>7, <1>8, RowsExist
          DEF MarkerIsCurrent, Hit, Revision
<1> QED BY <1>6, <1>9, <1>10, <1>11, <1>12 DEF Inv

LEMMA PersistKeeps == ASSUME Inv, PersistSameRevision PROVE Inv'
<1>1. /\ request.kind = "presence" /\ room # NoRow /\ room \in States
      /\ request' = NoRequest /\ UNCHANGED <<journal, checkpoint, marker, version, acked>>
      /\ request.participant \in Players
  BY DEF PersistSameRevision, Inv, RequestIsCurrent, TypeOK, NoRequest
<1>2. PICK who \in SUBSET Players : room' = [room EXCEPT !.connected = who]
  <2>1. room.connected \subseteq Players BY <1>1 DEF States
  <2> QED BY <1>1, <2>1 DEF PersistSameRevision
<1>3. room' \in States /\ room'.core = room.core /\ room' # NoRow
  BY <1>1, <1>2, RowsExist DEF States
<1>4. TypeOK' BY <1>1, <1>3 DEF Inv, TypeOK
<1>5. JournalOfRoom' /\ JournalIsHandled' /\ PrefixKept'
  BY <1>1, <1>3 DEF Inv, JournalOfRoom, JournalIsHandled, PrefixKept
<1>6. RequestIsCurrent'
  BY <1>1, <1>3 DEF Inv, RequestIsCurrent, NoRequest
<1>7. MarkerIsCurrent'
  BY <1>1, <1>3 DEF Inv, MarkerIsCurrent, Hit, Revision
<1> QED BY <1>4, <1>5, <1>6, <1>7 DEF Inv

LEMMA NextInv == Inv /\ [Next]_vars => Inv'
<1> SUFFICES ASSUME Inv, [Next]_vars PROVE Inv' OBVIOUS
<1>1. ASSUME UNCHANGED rows, request' = NoRequest, TypeOK', MarkerIsCurrent',
             acked' \subseteq DOMAIN journal, version' = version \/ version' = Down
      PROVE  Inv'
  <2>1. UNCHANGED <<room, journal, checkpoint>> BY <1>1 DEF rows
  <2>2. RequestIsCurrent'
    BY <1>1, <2>1 DEF Inv, RequestIsCurrent, NoRequest
  <2> QED BY <1>1, <2>1, <2>2, RowsRest DEF Inv
<1>2. CASE Evict
  <2>1. TypeOK' /\ MarkerIsCurrent'
    BY <1>2 DEF Evict, Inv, TypeOK, MarkerIsCurrent, rows
  <2> QED BY <1>1, <1>2, <2>1 DEF Evict, Inv, RequestIsCurrent
<1>3. CASE Refuse \/ StayAway
  <2>1. TypeOK' /\ MarkerIsCurrent'
    BY <1>3 DEF Refuse, StayAway, Inv, TypeOK, MarkerIsCurrent, Hit, rows
  <2> QED BY <1>1, <1>3, <2>1 DEF Refuse, StayAway, Inv, RequestIsCurrent
<1>4. CASE Answer
  <2>1. request.revision \in DOMAIN journal /\ request.revision \in Nat
    BY <1>4 DEF Answer, Inv, RequestIsCurrent, TypeOK, NoRequest
  <2>2. TypeOK' /\ MarkerIsCurrent'
    BY <1>4, <2>1 DEF Answer, Inv, TypeOK, MarkerIsCurrent, Hit, rows
  <2> QED BY <1>1, <1>4, <2>1, <2>2 DEF Answer, Inv, RequestIsCurrent
<1>5. ASSUME NEW c \in Commands, LoadForCommand(c) PROVE Inv'
  <2> DEFINE what == [kind |-> "command", state |-> room, command |-> c]
  <2>1. what \in [kind : {"command"}, state : States, command : Commands]
    BY <1>5 DEF LoadForCommand, Inv, TypeOK
  <2> QED BY <1>5, <2>1, LoadKeeps DEF LoadForCommand
<1>6. ASSUME NEW p \in Absentees, LoadForPresence(p) PROVE Inv'
  <2> DEFINE what == [kind |-> "presence", state |-> room, participant |-> p]
  <2>1. what \in [kind : {"presence"}, state : States, participant : Players]
    BY <1>6 DEF LoadForPresence, Inv, TypeOK
  <2> QED BY <1>6, <2>1, LoadKeeps DEF LoadForPresence
<1>7. CASE UNCHANGED vars
  BY <1>7 DEF vars, Inv, TypeOK, JournalOfRoom, JournalIsHandled, PrefixKept,
     RequestIsCurrent, MarkerIsCurrent, Hit
<1> QED BY <1>2, <1>3, <1>4, <1>5, <1>6, <1>7, InitializeKeeps, RestartKeeps,
           CommitKeeps, PersistKeeps DEF Next

LEMMA Always == Spec => []Inv
BY InitInv, NextInv, PTL DEF Spec

-----------------------------------------------------------------------------
(* The properties *)

(* Wherever the platform stops the object, every version finds rows it can load
   (validateCheckpoint, load). *)
THEOREM RoomIsNeverLost == Spec => []EveryVersionLoads
<1>1. Inv => EveryVersionLoads
  BY Loadable DEF Inv, EveryVersionLoads, CanLoad
<1> QED BY <1>1, Always, PTL

(* A version trusts the rows it wrote or verified itself (recoveryVerificationHit). *)
THEOREM OwnRowsStayTrusted == Spec => []OwnRowsAreTrusted
<1>1. Inv => OwnRowsAreTrusted
  BY DEF Inv, MarkerIsCurrent, OwnRowsAreTrusted
<1> QED BY <1>1, Always, PTL

(* A recovery rebuilds the journal. *)
LEMMA RecoversJournal == Inv => Recovered = journal
BY Loadable DEF Inv, Recovered, JournalOfRoom

LEMMA RecoversJournalNext == Inv' => (Recovered = journal)'
BY RecoversJournal, PTL

(* The rows implement a log that only grows and holds what was acknowledged
   (commitAccepted, load). *)
THEOREM ImplementsDurableLog == Spec => KeepsDurableLog
<1>1. Init => Durable!DurableInit
  <2> SUFFICES ASSUME Init PROVE Durable!DurableInit OBVIOUS
  <2>1. Inv BY InitInv
  <2>2. Recovered = journal /\ journal \in Seq(Commands)
    BY <2>1, RecoversJournal DEF Inv, TypeOK
  <2> QED BY <2>2 DEF Init, Durable!DurableInit
<1>2. Inv /\ [Next]_vars /\ Inv' => [Durable!DurableNext]_(Durable!durableVars)
  <2> SUFFICES ASSUME Inv, [Next]_vars, Inv'
               PROVE  Durable!DurableNext \/ UNCHANGED <<Recovered, acked>>
    BY DEF Durable!durableVars
  <2>1. Recovered = journal /\ Recovered' = journal' BY RecoversJournal, RecoversJournalNext
  <2>2. CASE CommitAccepted
    <3>1. /\ journal' = Append(journal, request.command) /\ UNCHANGED acked
          /\ request.command \in Commands
      BY <2>2 DEF CommitAccepted, Inv, TypeOK, NoRequest
    <3> QED BY <2>1, <3>1 DEF Durable!DurableNext, Durable!Accept
  <2>3. CASE Answer
    <3>1. /\ acked' = acked \union {request.revision} /\ UNCHANGED journal
          /\ acked' \subseteq DOMAIN journal'
      BY <2>3 DEF Answer, rows, Inv, RequestIsCurrent
    <3> QED BY <2>1, <3>1 DEF Durable!DurableNext, Durable!Acknowledge
  <2>4. CASE InitializeRoom
    <3>1. journal' = <<>> /\ journal = <<>> /\ UNCHANGED acked
      BY <2>4 DEF InitializeRoom, Inv, JournalOfRoom
    <3> QED BY <2>1, <3>1
  <2>5. ASSUME NEW v \in Deployments, Restart(v) PROVE UNCHANGED <<journal, acked>>
    BY <2>5 DEF Restart
  <2>6. CASE Evict \/ Refuse \/ StayAway \/ PersistSameRevision \/ UNCHANGED vars
    BY <2>1, <2>6 DEF Evict, Refuse, StayAway, PersistSameRevision, rows, vars
  <2>7. ASSUME \/ \E c \in Commands : LoadForCommand(c)
               \/ \E p \in Absentees : LoadForPresence(p)
        PROVE  UNCHANGED <<journal, acked>>
    BY <2>7 DEF LoadForCommand, LoadForPresence, Load
  <2> QED BY <2>1, <2>2, <2>3, <2>4, <2>5, <2>6, <2>7 DEF Next
<1> QED BY <1>1, <1>2, Always, PTL DEF Spec, KeepsDurableLog
=============================================================================
