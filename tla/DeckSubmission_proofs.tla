------------------------ MODULE DeckSubmission_proofs -----------------------
(***************************************************************************)
(* Theorems about DeckSubmission for every number of seats, tenants,       *)
(* submissions, revisions and evictions.                                   *)
(***************************************************************************)
EXTENDS DeckSubmission, TLAPS

(* A requested row is one the tables may hold. *)
LEMMA RowTyped ==
  ASSUME NEW s \in Submissions, NEW revision \in 1 .. MaxRevision,
         NEW state \in {"resolving", "accepted", "needs-attention"}
  PROVE  Row(s, revision, state) \in Rows
BY DEF Row, Rows

LEMMA NextRevisionTyped ==
  ASSUME TypeOK, NEW i \in Seats, NextRevision(i) <= MaxRevision
  PROVE  NextRevision(i) \in 1 .. MaxRevision
BY SubmissionsAssumption DEF TypeOK, NextRevision, Rows

(* A new head keeps the rows of the seat typed. *)
LEMMA ReplaceHeadTyped ==
  ASSUME TypeOK, NEW i \in Seats, NEW row \in Rows, ReplaceHead(i, row)
  PROVE  /\ head' \in [Seats -> Rows \union {None}]
         /\ history' \in [Seats -> SUBSET Rows]
         /\ snapshot' \in [Seats -> Contents \union {None}]
         /\ ready' \in [Seats -> BOOLEAN]
BY DEF TypeOK, ReplaceHead, Written, Unready

LEMMA InitTyped == Init => TypeOK
BY SubmissionsAssumption DEF Init, TypeOK

LEMMA TypeStep == TypeOK /\ [Next]_vars => TypeOK'
<1> SUFFICES ASSUME TypeOK, [Next]_vars PROVE TypeOK'
  OBVIOUS
<1> USE DEF vars, lobbyVars, deckVars, roomVars
<1>1. ASSUME NEW i \in Seats, NEW s \in Submissions, AnswerStored(i, s)
      PROVE  TypeOK'
  BY <1>1 DEF AnswerStored, TypeOK
<1>2. ASSUME NEW i \in Seats, NEW s \in Submissions, Begin(i, s)
      PROVE  TypeOK'
  <2>1. NextRevision(i) \in 1 .. MaxRevision
    BY <1>2, NextRevisionTyped DEF Begin, ReplaceHead, Row
  <2>2. Row(s, NextRevision(i), "resolving") \in Rows
    BY <2>1, RowTyped
  <2> QED
    BY <1>2, <2>1, <2>2, ReplaceHeadTyped DEF Begin, Fetch, TypeOK
<1>3. ASSUME NEW i \in Seats, NEW s \in Submissions, Resume(i, s)
      PROVE  TypeOK'
  <2>1. head[i] # None
    BY <1>3 DEF Resume, MayResume, Submitting, DeckRelations, RowsOf
  <2>2. head[i].revision \in 1 .. MaxRevision
    BY <2>1 DEF TypeOK, Rows
  <2> QED
    BY <1>3, <2>2 DEF Resume, Fetch, TypeOK
<1>4. ASSUME NEW i \in Seats, NEW s \in Submissions, BeginInvalid(i, s)
      PROVE  TypeOK'
  <2>1. Row(s, NextRevision(i), "needs-attention") \in Rows
    BY <1>4, NextRevisionTyped, RowTyped DEF BeginInvalid, ReplaceHead, Row
  <2> QED
    BY <1>4, <2>1, ReplaceHeadTyped DEF BeginInvalid, TypeOK
<1>5. ASSUME NEW i \in Seats, NEW s \in Submissions, InvalidateFailed(i, s)
      PROVE  TypeOK'
  <2>1. head[i].submission \in Submissions
    BY <1>5 DEF InvalidateFailed, TypeOK, Rows
  <2>2. Row(head[i].submission, NextRevision(i), "needs-attention") \in Rows
    BY <1>5, <2>1, NextRevisionTyped, RowTyped
    DEF InvalidateFailed, ReplaceHead, Row
  <2> QED
    BY <1>5, <2>2, ReplaceHeadTyped DEF InvalidateFailed, TypeOK
<1>6. ASSUME NEW f \in fetching, Discard(f) PROVE TypeOK'
  <2>1. /\ f.seat \in Seats /\ f.submission \in Submissions
        /\ Row(f.submission, f.revision, "needs-attention") \in Rows
    BY RowTyped DEF TypeOK
  <2>2. Superseded(f) \in [Seats -> SUBSET Rows]
    BY <2>1 DEF Superseded, Written, TypeOK
  <2>3. history' \in [Seats -> SUBSET Rows] /\ refused' \subseteq Submissions
    BY <1>6, <2>1, <2>2 DEF Discard, TypeOK
  <2> QED
    BY <1>6, <2>3 DEF Discard, Done, TypeOK
<1>7. ASSUME NEW f \in fetching, NEW state \in {"accepted", "needs-attention"},
             Settle(f, state)
      PROVE  TypeOK'
  <2>1. /\ f.seat \in Seats /\ f.submission \in Submissions
        /\ Row(f.submission, f.revision, state) \in Rows
    BY RowTyped DEF TypeOK
  <2>2. f.submission.content \in Contents
    BY <2>1 DEF Contents
  <2>3. /\ head' \in [Seats -> Rows \union {None}]
        /\ history' \in [Seats -> SUBSET Rows]
        /\ snapshot' \in [Seats -> Contents \union {None}]
    BY <1>7, <2>1, <2>2 DEF Settle, Written, TypeOK
  <2> QED
    BY <1>7, <2>1, <2>3 DEF Settle, Done, TypeOK
<1>8. ASSUME NEW i \in Seats, ReplaceSeat(i) PROVE TypeOK'
  BY <1>8 DEF ReplaceSeat, Unready, TypeOK
<1>9. ASSUME NEW i \in Seats, NEW value \in BOOLEAN, SetReady(i, value)
      PROVE  TypeOK'
  BY <1>9 DEF SetReady, TypeOK
<1>10. ASSUME NEW p \in People, ClaimSeat(p) PROVE TypeOK'
  BY <1>10 DEF ClaimSeat, TypeOK
<1>11. CASE StartWithTable \/ FinishGame
  BY <1>11 DEF StartWithTable, FinishGame, TypeOK
<1>12. CASE DeleteLobby
  BY <1>12 DEF DeleteLobby, TypeOK
<1>13. CASE Restart
  BY <1>13, SubmissionsAssumption DEF Restart, TypeOK
<1>14. CASE UNCHANGED vars
  BY <1>14 DEF TypeOK
<1>15. ASSUME NEW f \in fetching, ThrowOnFragment(f) PROVE TypeOK'
  BY <1>15 DEF ThrowOnFragment, Done, TypeOK
<1> QED
  BY <1>1, <1>2, <1>3, <1>4, <1>5, <1>6, <1>7, <1>8, <1>9, <1>10, <1>11,
     <1>12, <1>13, <1>14, <1>15
  DEF Next, Resolve, FailToResolve

(* Every row, fetch and answer keeps its type. *)
THEOREM DeckTypes == Spec => []TypeOK
BY InitTyped, TypeStep, PTL DEF Spec
-----------------------------------------------------------------------------
(* The inductive invariant.  What makes a late answer harmless: a participant
   sits down once, rows belong to the tenant, a fetch of the present tenant is
   no newer than the seat's head, and there is one fetch for an identifier. *)

TenantsApart ==
  /\ \A i, k \in Seats : tenant[i] # None /\ tenant[i] = tenant[k] => i = k
  /\ \A i \in Seats : tenant[i] # None => tenant[i] \in seated

RowsOfTenant ==
  \A i \in Seats : \A row \in history[i] : row.submission.participant = tenant[i]

RowsUnique ==
  \A i \in Seats : \A row, other \in history[i] :
    row.submission.id = other.submission.id => row = other

FetchesApart ==
  \A f, g \in fetching :
    f.seat = g.seat /\ f.submission.id = g.submission.id => f = g

FetchesSeated ==
  \A f \in fetching :
    /\ f.submission.form = "sound"
    /\ f.submission.participant \in seated

(* What a fetch of a present tenant finds on its seat. *)
Known(f) ==
  \A i \in Seats :
    tenant[i] = f.submission.participant =>
      /\ i = f.seat
      /\ RowsOf(i, f.submission) # {}
      /\ head[i] # None
      /\ f.revision <= head[i].revision
      /\ f.revision < head[i].revision /\ head[i].submission.id = f.submission.id
         => head[i].state = "needs-attention"

FetchesKnown == \A f \in fetching : Known(f)

AwaitedResolves ==
  \A f \in fetching : Awaited(f) => head[f.seat].state = "resolving"

AcceptedSound ==
  \A i \in Seats : Accepted(i) => head[i].submission.form = "sound"

(* Rows of the identifier a tenant's fetch is for hold what it fetches. *)
Meant(f) ==
  tenant[f.seat] = f.submission.participant =>
    \A row \in RowsOf(f.seat, f.submission) : Same(row.submission, f.submission)

FetchesMeant == \A f \in fetching : Meant(f)

RoomSettled ==
  /\ room = "active" => \A i \in Seats : Accepted(i)
  /\ room = "closed" => \A i \in Seats : head[i] = None

ResolvingSound ==
  \A i \in Seats :
    head[i] # None /\ head[i].state = "resolving"
    => head[i].submission.form = "sound"

(* A refused submission keeps a row that says so while its author stays. *)
Remembered(s) ==
  \A i \in Seats :
    s.form = "sound" /\ tenant[i] = s.participant =>
      /\ RowsOf(i, s) # {}
      /\ \A row \in RowsOf(i, s) :
           Same(row.submission, s) => row.state = "needs-attention"

RefusedKnown == \A s \in refused : Remembered(s)

RefusedSeated == \A s \in refused : s.participant \in seated

-----------------------------------------------------------------------------
(* The steps, sorted by what they do to the rows. *)

(* A submission's author is somebody, and its identifier tells who. *)
LEMMA Authors ==
  ASSUME NEW s \in Submissions
  PROVE  /\ s.participant \in People /\ s.participant # None
         /\ \A t \in Submissions : t.id = s.id => t.participant = s.participant
BY SubmissionsAssumption

(* What the columns of the tables and the fetches hold. *)
LEMMA Columns ==
  ASSUME TypeOK
  PROVE  /\ \A i \in Seats : head[i] # None => head[i] \in Rows
         /\ \A i \in Seats : \A row \in history[i] : row \in Rows
         /\ \A f \in fetching : /\ f.seat \in Seats
                                /\ f.submission \in Submissions
                                /\ f.revision \in 1 .. MaxRevision
         /\ \A row \in Rows : /\ row.submission \in Submissions
                              /\ row.revision \in 1 .. MaxRevision
BY DEF TypeOK, Rows

(* The three ways a request gives a seat a new head: the head is of the
   tenant, newer than the one before, and waits for its cards only if they
   are being fetched. *)
NewHead(i, row) ==
  /\ row \in Rows
  /\ ReplaceHead(i, row)
  /\ row.revision = NextRevision(i)
  /\ row.state \in {"resolving", "needs-attention"}
  /\ row.submission.participant = tenant[i]
  /\ room \in {"forming", "finished"}
  /\ UNCHANGED <<lobbyVars, roomVars, restarts>>

LEMMA NewHeads ==
  ASSUME TypeOK, NEW i \in Seats, NEW s \in Submissions,
         Begin(i, s) \/ BeginInvalid(i, s) \/ InvalidateFailed(i, s)
  PROVE  \E row \in Rows :
           /\ NewHead(i, row)
           /\ Begin(i, s) => row = Row(s, NextRevision(i), "resolving")
           /\ BeginInvalid(i, s) => row = Row(s, NextRevision(i), "needs-attention")
           /\ InvalidateFailed(i, s) =>
                row = Row(head[i].submission, NextRevision(i), "needs-attention")
<1> USE DEF NewHead, ReplaceHead, Row
<1>1. CASE Begin(i, s)
  <2>1. Row(s, NextRevision(i), "resolving") \in Rows
    BY <1>1, NextRevisionTyped, RowTyped DEF Begin
  <2> QED
    BY <1>1, <2>1 DEF Begin, BeginInvalid, InvalidateFailed, Submitting,
       ReplaceHead, Row
<1>2. CASE BeginInvalid(i, s)
  <2>1. Row(s, NextRevision(i), "needs-attention") \in Rows
    BY <1>2, NextRevisionTyped, RowTyped DEF BeginInvalid
  <2> QED
    BY <1>2, <2>1 DEF Begin, BeginInvalid, InvalidateFailed, Submitting
<1>3. CASE InvalidateFailed(i, s)
  <2>1. head[i].submission \in Submissions
    BY <1>3 DEF InvalidateFailed, TypeOK, Rows
  <2>2. Row(head[i].submission, NextRevision(i), "needs-attention") \in Rows
    BY <1>3, <2>1, NextRevisionTyped, RowTyped DEF InvalidateFailed
  <2> QED
    BY <1>3, <2>2 DEF Begin, BeginInvalid, InvalidateFailed, Submitting,
       DeckRelations
<1> QED
  BY <1>1, <1>2, <1>3

(* Every other step of Next, for the properties of the rows. *)
RowsQuiet == UNCHANGED <<lobbyVars, deckVars>>

LEMMA Steps ==
  ASSUME TypeOK, [Next]_vars
  PROVE  \/ \E i \in Seats, row \in Rows : NewHead(i, row)
         \/ \E f \in fetching : Discard(f) \/ Resolve(f) \/ FailToResolve(f)
         \/ \E i \in Seats, value \in BOOLEAN : SetReady(i, value)
         \/ \E i \in Seats : ReplaceSeat(i)
         \/ \E p \in People : ClaimSeat(p)
         \/ StartWithTable \/ DeleteLobby
         \/ RowsQuiet /\ UNCHANGED <<room, genesis, agreed>>
         \/ RowsQuiet /\ UNCHANGED <<genesis, agreed>>
            /\ room = "active" /\ room' = "finished"
<1>1. CASE UNCHANGED vars
  BY <1>1 DEF vars, roomVars, RowsQuiet
<1>2. ASSUME NEW i \in Seats, NEW s \in Submissions,
             AnswerStored(i, s) \/ Resume(i, s)
      PROVE  RowsQuiet /\ UNCHANGED <<room, genesis, agreed>>
  BY <1>2 DEF AnswerStored, Resume, RowsQuiet, roomVars
<1>3. CASE Restart
  BY <1>3 DEF Restart, RowsQuiet, roomVars
<1>4. CASE FinishGame
  BY <1>4 DEF FinishGame, RowsQuiet
<1>5. ASSUME NEW i \in Seats, NEW s \in Submissions,
             Begin(i, s) \/ BeginInvalid(i, s) \/ InvalidateFailed(i, s)
      PROVE  \E row \in Rows : NewHead(i, row)
  BY <1>5, NewHeads
<1>6. ASSUME NEW f \in fetching, ThrowOnFragment(f)
      PROVE  RowsQuiet /\ UNCHANGED <<room, genesis, agreed>>
  BY <1>6 DEF ThrowOnFragment, RowsQuiet, roomVars
<1> QED
  BY <1>1, <1>2, <1>3, <1>4, <1>5, <1>6 DEF Next

(* A fetch that ends changes the rows of its seat alone. *)
LEMMA Ends ==
  ASSUME NEW f, Resolve(f) \/ FailToResolve(f)
  PROVE  \E state \in {"accepted", "needs-attention"} : Settle(f, state)
BY DEF Resolve, FailToResolve

-----------------------------------------------------------------------------
LEMMA InitReadable == Init => DeckRelations /\ StartsAsAgreed
BY SubmissionsAssumption
DEF Init, DeckRelations, StartsAsAgreed, Accepted

LEMMA ReadableStep ==
  ASSUME TypeOK, DeckRelations, [Next]_vars
  PROVE  DeckRelations'
<1> USE DEF DeckRelations, Accepted
<1>1. ASSUME NEW i \in Seats, NEW row \in Rows, NewHead(i, row)
      PROVE  DeckRelations'
  <2>1. row # None
    BY SubmissionsAssumption
  <2> QED
    BY <1>1, <2>1 DEF NewHead, ReplaceHead, Written, RowsOf, Unready, TypeOK,
       lobbyVars
<1>2. ASSUME NEW f \in fetching, Discard(f) PROVE DeckRelations'
  <2>1. f.seat \in Seats
    BY Columns
  <2> QED
    BY <1>2, <2>1 DEF Discard, Superseded, Written, RowsOf, Row, TypeOK, lobbyVars
<1>3. ASSUME NEW f \in fetching, NEW state \in {"accepted", "needs-attention"},
             Settle(f, state)
      PROVE  DeckRelations'
  <2>1. /\ f.seat \in Seats /\ f.submission \in Submissions
        /\ head[f.seat] \in Rows
        /\ head[f.seat].submission \in Submissions
    BY <1>3, Columns DEF Settle, Awaited
  <2>2. tenant[f.seat] = f.submission.participant
    BY <1>3, <2>1, Authors DEF Settle, Awaited, Same
  <2>3. CASE Accepted(f.seat)
    BY <1>3, <2>3 DEF Settle, lobbyVars
  <2>4. CASE ~Accepted(f.seat)
    <3>1. Row(f.submission, f.revision, state) # None
      BY <2>1, Columns, RowTyped, SubmissionsAssumption
    <3>2. ~ready[f.seat]
      BY <2>1, <2>4
    <3> QED
      BY <1>3, <2>1, <2>2, <2>4, <3>1, <3>2
      DEF Settle, Written, RowsOf, Row, TypeOK, lobbyVars
  <2> QED
    BY <2>3, <2>4
<1>4. ASSUME NEW i \in Seats, NEW value \in BOOLEAN, SetReady(i, value)
      PROVE  DeckRelations'
  BY <1>4 DEF SetReady, TypeOK, lobbyVars
<1>5. ASSUME NEW i \in Seats, ReplaceSeat(i) PROVE DeckRelations'
  BY <1>5 DEF ReplaceSeat, Unready, TypeOK
<1>6. ASSUME NEW p \in People, ClaimSeat(p) PROVE DeckRelations'
  <2>1. \A i \in Seats : tenant[i] = None => head[i] = None
    BY Columns, Authors
  <2> QED
    BY <1>6, <2>1 DEF ClaimSeat, TypeOK, deckVars
<1>7. CASE StartWithTable
  BY <1>7 DEF StartWithTable, lobbyVars, deckVars
<1>8. CASE DeleteLobby
  BY <1>8 DEF DeleteLobby, TypeOK
<1>9. CASE RowsQuiet
  BY <1>9 DEF RowsQuiet, lobbyVars, deckVars
<1> QED
  BY <1>1, <1>2, <1>3, <1>4, <1>5, <1>6, <1>7, <1>8, <1>9, Steps, Ends

LEMMA AgreedStep ==
  ASSUME TypeOK, DeckRelations, StartsAsAgreed, [Next]_vars
  PROVE  StartsAsAgreed'
<1> USE DEF DeckRelations, StartsAsAgreed, Accepted
<1>1. ASSUME NEW i \in Seats, NEW row \in Rows, NewHead(i, row)
      PROVE  StartsAsAgreed'
  BY <1>1 DEF NewHead, ReplaceHead, Unready, TypeOK, roomVars
<1>2. ASSUME NEW f \in fetching, Discard(f) PROVE StartsAsAgreed'
  BY <1>2 DEF Discard, roomVars
<1>3. ASSUME NEW f \in fetching, NEW state \in {"accepted", "needs-attention"},
             Settle(f, state)
      PROVE  StartsAsAgreed'
  BY <1>3, Columns DEF Settle, TypeOK, roomVars
<1>4. ASSUME NEW i \in Seats, NEW value \in BOOLEAN, SetReady(i, value)
      PROVE  StartsAsAgreed'
  BY <1>4 DEF SetReady, TypeOK
<1>5. ASSUME NEW i \in Seats, ReplaceSeat(i) PROVE StartsAsAgreed'
  BY <1>5 DEF ReplaceSeat, Unready, TypeOK, roomVars
<1>6. ASSUME NEW p \in People, ClaimSeat(p) PROVE StartsAsAgreed'
  BY <1>6 DEF ClaimSeat, deckVars, roomVars
<1>7. CASE StartWithTable
  BY <1>7 DEF StartWithTable, lobbyVars, deckVars
<1>8. CASE DeleteLobby
  BY <1>8 DEF DeleteLobby, TypeOK
<1>9. CASE RowsQuiet /\ UNCHANGED <<room, genesis, agreed>>
  BY <1>9 DEF RowsQuiet, lobbyVars, deckVars
<1>10. CASE /\ RowsQuiet /\ UNCHANGED <<genesis, agreed>>
            /\ room = "active" /\ room' = "finished"
  BY <1>10 DEF RowsQuiet, lobbyVars, deckVars
<1> QED
  BY <1>1, <1>2, <1>3, <1>4, <1>5, <1>6, <1>7, <1>8, <1>9, <1>10, Steps, Ends

(* The lobby stays readable, and the game is dealt from the agreed decks. *)
THEOREM DecksReadable == Spec => []LobbyStaysReadable
BY InitTyped, InitReadable, TypeStep, ReadableStep, PTL
DEF Spec, LobbyStaysReadable

THEOREM DecksAgreed == Spec => []StartsAsAgreed
BY InitTyped, InitReadable, TypeStep, ReadableStep, AgreedStep, PTL DEF Spec

-----------------------------------------------------------------------------
(* Who sits where, and whose rows a seat has. *)
LEMMA TenantStep ==
  ASSUME TypeOK, TenantsApart, [Next]_vars
  PROVE  TenantsApart'
<1> USE DEF TenantsApart, lobbyVars
<1>1. ASSUME NEW i \in Seats, ReplaceSeat(i) PROVE TenantsApart'
  BY <1>1 DEF ReplaceSeat, TypeOK
<1>2. ASSUME NEW p \in People, ClaimSeat(p) PROVE TenantsApart'
  BY <1>2 DEF ClaimSeat, TypeOK
<1>3. CASE DeleteLobby
  BY <1>3 DEF DeleteLobby
<1>4. CASE UNCHANGED lobbyVars
  BY <1>4
<1> QED
  BY <1>1, <1>2, <1>3, <1>4, Steps
  DEF NewHead, Discard, Resolve, FailToResolve, Settle, SetReady,
      StartWithTable, RowsQuiet

RowsInv == DeckRelations /\ RowsOfTenant /\ RowsUnique

(* Writing a row of the tenant's keeps the rows his, one for an identifier. *)
LEMMA WrittenKeeps ==
  ASSUME TypeOK, RowsOfTenant, RowsUnique, NEW i \in Seats, NEW row \in Rows,
         row.submission.participant = tenant[i],
         tenant' = tenant, history' = Written(i, row)
  PROVE  RowsOfTenant' /\ RowsUnique'
BY DEF RowsOfTenant, RowsUnique, Written, RowsOf, TypeOK

(* A row that is written takes away only the row it stands for. *)
LEMMA WrittenCovers ==
  ASSUME TypeOK, NEW i \in Seats, NEW row, history' = Written(i, row),
         NEW k \in Seats, NEW s, RowsOf(k, s) # {}
  PROVE  RowsOf(k, s)' # {}
<1>1. PICK other \in history[k] : other.submission.id = s.id
  BY DEF RowsOf
<1>2. CASE k = i /\ row.submission.id = s.id
  <2>1. row \in history'[k]
    BY <1>2 DEF Written, TypeOK
  <2> QED
    BY <1>2, <2>1 DEF RowsOf
<1>3. CASE k # i \/ row.submission.id # s.id
  <2>1. other \in history'[k]
    BY <1>1, <1>3 DEF Written, RowsOf, TypeOK
  <2> QED
    BY <1>1, <2>1 DEF RowsOf
<1> QED
  BY <1>2, <1>3

(* An awaited fetch is the tenant's own, and so is one whose row is there. *)
LEMMA FetchOfTenant ==
  ASSUME TypeOK, RowsInv, NEW f \in fetching,
         Awaited(f) \/ RowsOf(f.seat, f.submission) # {}
  PROVE  /\ f.seat \in Seats
         /\ tenant[f.seat] = f.submission.participant
<1>1. /\ f.seat \in Seats /\ f.submission \in Submissions
  BY Columns
<1>2. CASE Awaited(f)
  <2>1. head[f.seat] # None /\ head[f.seat].submission \in Submissions
    BY <1>1, <1>2, Columns DEF Awaited
  <2> QED
    BY <1>1, <1>2, <2>1, Authors
    DEF Awaited, Same, RowsInv, DeckRelations
<1>3. CASE RowsOf(f.seat, f.submission) # {}
  <2>1. PICK row \in history[f.seat] : row.submission.id = f.submission.id
    BY <1>3 DEF RowsOf
  <2>2. row.submission \in Submissions
    BY <1>1, <2>1, Columns
  <2> QED
    BY <1>1, <2>1, <2>2, Authors DEF RowsInv, RowsOfTenant
<1> QED
  BY <1>2, <1>3

LEMMA RowsStep ==
  ASSUME TypeOK, RowsInv, [Next]_vars
  PROVE  RowsOfTenant' /\ RowsUnique'
<1> USE DEF RowsInv
<1>1. ASSUME NEW i \in Seats, NEW row \in Rows, NewHead(i, row)
      PROVE  RowsOfTenant' /\ RowsUnique'
  BY <1>1, WrittenKeeps DEF NewHead, ReplaceHead, lobbyVars
<1>2. ASSUME NEW f \in fetching, Discard(f)
      PROVE  RowsOfTenant' /\ RowsUnique'
  <2>1. CASE history' = history
    BY <1>2, <2>1 DEF Discard, lobbyVars, RowsOfTenant, RowsUnique
  <2>2. CASE /\ RowsOf(f.seat, f.submission) # {}
             /\ history' = Superseded(f)
    <3>1. Row(f.submission, f.revision, "needs-attention") \in Rows
      BY Columns, RowTyped
    <3> QED
      BY <1>2, <2>2, <3>1, FetchOfTenant, WrittenKeeps
      DEF Discard, Superseded, Row, lobbyVars
  <2> QED
    BY <1>2, <2>1, <2>2 DEF Discard
<1>3. ASSUME NEW f \in fetching, NEW state \in {"accepted", "needs-attention"},
             Settle(f, state)
      PROVE  RowsOfTenant' /\ RowsUnique'
  <2>1. CASE Accepted(f.seat)
    BY <1>3, <2>1 DEF Settle, lobbyVars, RowsOfTenant, RowsUnique
  <2>2. CASE ~Accepted(f.seat)
    <3>1. Row(f.submission, f.revision, state) \in Rows
      BY Columns, RowTyped
    <3> QED
      BY <1>3, <2>2, <3>1, FetchOfTenant, WrittenKeeps
      DEF Settle, Row, lobbyVars
  <2> QED
    BY <2>1, <2>2
<1>4. ASSUME NEW i \in Seats, ReplaceSeat(i) PROVE RowsOfTenant' /\ RowsUnique'
  BY <1>4 DEF ReplaceSeat, TypeOK, RowsOfTenant, RowsUnique
<1>5. ASSUME NEW p \in People, ClaimSeat(p) PROVE RowsOfTenant' /\ RowsUnique'
  <2>1. \A i \in Seats : tenant[i] = None => history[i] = {}
    BY Columns, Authors DEF DeckRelations
  <2> QED
    BY <1>5, <2>1 DEF ClaimSeat, TypeOK, deckVars, RowsOfTenant, RowsUnique
<1>6. CASE DeleteLobby
  BY <1>6 DEF DeleteLobby, RowsOfTenant, RowsUnique
<1>7. CASE UNCHANGED <<tenant, history>>
  BY <1>7 DEF RowsOfTenant, RowsUnique
<1> QED
  BY <1>1, <1>2, <1>3, <1>4, <1>5, <1>6, <1>7, Steps, Ends
  DEF SetReady, StartWithTable, RowsQuiet, lobbyVars, deckVars

-----------------------------------------------------------------------------
(* What the fetches under way have to do with the rows. *)
FetchesFine == FetchesApart /\ FetchesSeated /\ FetchesKnown

FetchInv == TypeOK /\ RowsInv /\ TenantsApart /\ FetchesFine

(* A new head leaves the older fetches of its seat behind. *)
LEMMA KnownUnderNewHead ==
  ASSUME FetchInv, NEW i \in Seats, NEW row \in Rows, NewHead(i, row),
         NEW f \in fetching,
         \/ row.state = "needs-attention"
         \/ f.submission.id # row.submission.id
  PROVE  Known(f)'
<1> SUFFICES ASSUME NEW k \in Seats, tenant[k] = f.submission.participant
             PROVE  /\ k = f.seat
                    /\ RowsOf(k, f.submission)' # {}
                    /\ head'[k] # None
                    /\ f.revision <= head'[k].revision
                    /\ f.revision < head'[k].revision
                       /\ head'[k].submission.id = f.submission.id
                       => head'[k].state = "needs-attention"
  BY DEF Known, NewHead, lobbyVars
<1>1. /\ k = f.seat /\ RowsOf(k, f.submission) # {} /\ head[k] # None
      /\ f.revision <= head[k].revision
      /\ f.revision < head[k].revision /\ head[k].submission.id = f.submission.id
         => head[k].state = "needs-attention"
  BY DEF FetchInv, FetchesFine, FetchesKnown, Known
<1>2. /\ f.revision \in 1 .. MaxRevision
      /\ head[k].revision \in 1 .. MaxRevision
  BY <1>1, Columns DEF FetchInv
<1>3. CASE k # i
  BY <1>1, <1>3 DEF NewHead, ReplaceHead, Written, RowsOf, FetchInv, TypeOK
<1>4. CASE k = i
  <2>1. head'[k] = row /\ row.revision = head[k].revision + 1
    BY <1>1, <1>4 DEF NewHead, ReplaceHead, NextRevision, FetchInv, TypeOK
  <2>2. RowsOf(k, f.submission)' # {}
    BY <1>1, WrittenCovers DEF NewHead, ReplaceHead, FetchInv
  <2>3. row # None
    BY SubmissionsAssumption
  <2> QED
    BY <1>1, <1>2, <2>1, <2>2, <2>3
<1> QED
  BY <1>3, <1>4

LEMMA FetchStep ==
  ASSUME FetchInv, [Next]_vars
  PROVE  FetchesFine'
<1> USE DEF FetchesFine
<1>1. ASSUME NEW i \in Seats, NEW s \in Submissions, Begin(i, s) PROVE FetchesFine'
  <2>0. PICK revision \in Nat : revision = NextRevision(i)
    BY <1>1, NextRevisionTyped DEF FetchInv, Begin, ReplaceHead, Row
  <2> DEFINE row == Row(s, revision, "resolving")
             new == [seat |-> i, submission |-> s, revision |-> revision]
  <2>1. row \in Rows /\ NewHead(i, row)
    BY <1>1, <2>0, NewHeads DEF FetchInv
  <2>2. /\ tenant[i] = s.participant /\ s.form = "sound" /\ tenant[i] # None
        /\ fetching' = fetching \union {new}
    BY <1>1, <2>0, Authors DEF Begin, Submitting, Fetch
  <2>3. \A f \in fetching : f.seat = i => f.submission.id # s.id
    <3> SUFFICES ASSUME NEW f \in fetching, f.seat = i, f.submission.id = s.id
                 PROVE  FALSE
      OBVIOUS
    <3>1. tenant[i] = f.submission.participant
      BY <2>2, Authors, Columns DEF FetchInv
    <3>2. RowsOf(i, f.submission) # {}
      BY <3>1 DEF FetchInv, FetchesKnown, Known
    <3> QED
      BY <1>1, <3>2 DEF Begin, RowsOf, Fetched
  <2>4. \A f \in fetching : f.submission.id # s.id
    <3> SUFFICES ASSUME NEW f \in fetching, f.submission.id = s.id PROVE FALSE
      OBVIOUS
    <3>1. tenant[i] = f.submission.participant
      BY <2>2, Authors, Columns DEF FetchInv
    <3> QED
      BY <2>3, <3>1 DEF FetchInv, FetchesKnown, Known
  <2>5. FetchesApart'
    BY <2>2, <2>3 DEF FetchInv, FetchesApart
  <2>6. FetchesSeated'
    BY <2>1, <2>2 DEF FetchInv, FetchesSeated, TenantsApart, NewHead, lobbyVars
  <2>7. \A f \in fetching : Known(f)'
    BY <2>1, <2>4, KnownUnderNewHead DEF Row
  <2>8. Known(new)'
    <3>1. \A k \in Seats : tenant[k] = s.participant => k = i
      BY <2>2 DEF FetchInv, TenantsApart
    <3>2. row # None
      BY <2>1, SubmissionsAssumption
    <3>3. row.revision \in 1 .. MaxRevision
      BY <2>1, Columns DEF FetchInv
    <3> QED
      BY <2>1, <3>1, <3>2, <3>3
      DEF Known, NewHead, ReplaceHead, Written, RowsOf, Row, FetchInv, TypeOK,
          lobbyVars
  <2> QED
    BY <2>2, <2>5, <2>6, <2>7, <2>8 DEF FetchesKnown
<1>2. ASSUME NEW i \in Seats, NEW s \in Submissions, Resume(i, s) PROVE FetchesFine'
  <2> DEFINE new == [seat |-> i, submission |-> s, revision |-> head[i].revision]
  <2>1. /\ tenant[i] = s.participant /\ s.form = "sound" /\ tenant[i] # None
        /\ fetching' = fetching \union {new}
        /\ RowsOf(i, s) # {}
        /\ UNCHANGED <<tenant, seated, head, history>>
    BY <1>2, Authors
    DEF Resume, MayResume, Submitting, Fetch, lobbyVars, deckVars
  <2>2. head[i] # None /\ head[i].revision \in 1 .. MaxRevision
    BY <2>1, Columns
    DEF FetchInv, RowsInv, DeckRelations, RowsOf
  <2>3. FetchesApart'
    BY <1>2, <2>1 DEF Resume, MayResume, Fetched, FetchInv, FetchesApart
  <2>4. FetchesSeated'
    BY <2>1 DEF FetchInv, FetchesSeated, TenantsApart
  <2>5. FetchesKnown'
    BY <2>1, <2>2 DEF FetchInv, FetchesKnown, Known, RowsOf, TenantsApart
  <2> QED
    BY <2>3, <2>4, <2>5
<1>3. ASSUME NEW i \in Seats, NEW s \in Submissions,
             BeginInvalid(i, s) \/ InvalidateFailed(i, s)
      PROVE  FetchesFine'
  <2>1. PICK row \in Rows : NewHead(i, row) /\ row.state = "needs-attention"
    BY <1>3, NewHeads DEF FetchInv, Row
  <2>2. fetching' = fetching /\ seated' = seated
    BY <1>3 DEF BeginInvalid, InvalidateFailed, lobbyVars
  <2> QED
    BY <2>1, <2>2, KnownUnderNewHead
    DEF FetchInv, FetchesApart, FetchesSeated, FetchesKnown
<1>4. ASSUME NEW f \in fetching, Discard(f) PROVE FetchesFine'
  <2>1. \A g \in fetching' : g \in fetching
    BY <1>4 DEF Discard, Done
  <2>2. \A g \in fetching', i \in Seats :
          RowsOf(i, g.submission) # {} => RowsOf(i, g.submission)' # {}
    BY <1>4, Columns, WrittenCovers DEF Discard, Superseded, RowsOf, FetchInv
  <2> QED
    BY <1>4, <2>1, <2>2
    DEF Discard, lobbyVars, FetchInv, FetchesApart, FetchesSeated, FetchesKnown,
        Known
<1>5. ASSUME NEW f \in fetching, NEW state \in {"accepted", "needs-attention"},
             Settle(f, state)
      PROVE  FetchesFine'
  <2>1. \A g \in fetching' : g \in fetching /\ g # f
    BY <1>5 DEF Settle, Done
  <2>2. FetchesApart' /\ FetchesSeated'
    BY <1>5, <2>1 DEF Settle, lobbyVars, FetchInv, FetchesApart, FetchesSeated
  <2>3. FetchesKnown'
    <3> SUFFICES ASSUME NEW g \in fetching, g # f PROVE Known(g)'
      BY <2>1 DEF FetchesKnown
    <3> SUFFICES ASSUME NEW k \in Seats, tenant[k] = g.submission.participant
                 PROVE  /\ k = g.seat
                        /\ RowsOf(k, g.submission)' # {}
                        /\ head'[k] # None
                        /\ g.revision <= head'[k].revision
                        /\ g.revision < head'[k].revision
                           /\ head'[k].submission.id = g.submission.id
                           => head'[k].state = "needs-attention"
      BY <1>5 DEF Settle, Known, lobbyVars
    <3>1. /\ k = g.seat /\ RowsOf(k, g.submission) # {} /\ head[k] # None
          /\ g.revision <= head[k].revision
          /\ g.revision < head[k].revision
             /\ head[k].submission.id = g.submission.id
             => head[k].state = "needs-attention"
      BY DEF FetchInv, FetchesKnown, Known
    <3>2. CASE Accepted(f.seat) \/ f.seat # k
      BY <1>5, <3>1, <3>2, Columns
      DEF Settle, Written, RowsOf, FetchInv, TypeOK
    <3>3. CASE ~Accepted(f.seat) /\ f.seat = k
      <4>1. f.submission.id # g.submission.id
        BY <3>1, <3>3 DEF FetchInv, FetchesApart
      <4>2. head'[k] = Row(f.submission, f.revision, state)
        BY <1>5, <3>3 DEF Settle, FetchInv, TypeOK
      <4>3. head'[k] # None /\ head'[k].revision = head[k].revision
        <5>1. Row(f.submission, f.revision, state) \in Rows
          BY Columns, RowTyped DEF FetchInv
        <5>2. head[k].revision = f.revision
          BY <1>5, <3>3 DEF Settle, Awaited
        <5> QED
          BY <4>2, <5>1, <5>2, SubmissionsAssumption DEF Row
      <4>4. RowsOf(k, g.submission)' # {}
        BY <1>5, <3>1, <3>3, WrittenCovers DEF Settle, FetchInv
      <4> QED
        BY <3>1, <4>1, <4>2, <4>3, <4>4 DEF Row
    <3> QED
      BY <3>2, <3>3
  <2> QED
    BY <2>2, <2>3
<1>6. ASSUME NEW i \in Seats, ReplaceSeat(i) PROVE FetchesFine'
  <2>1. \A f \in fetching : f.submission.participant # None
    BY Columns, Authors DEF FetchInv
  <2> QED
    BY <1>6, <2>1
    DEF ReplaceSeat, FetchInv, TypeOK, FetchesApart, FetchesSeated,
        FetchesKnown, Known, RowsOf
<1>7. ASSUME NEW p \in People, ClaimSeat(p) PROVE FetchesFine'
  BY <1>7
  DEF ClaimSeat, deckVars, FetchInv, TypeOK, FetchesApart, FetchesSeated,
      FetchesKnown, Known, RowsOf
<1>8. CASE DeleteLobby
  <2>1. \A f \in fetching : f.submission.participant # None
    BY Columns, Authors DEF FetchInv
  <2> QED
    BY <1>8, <2>1
    DEF DeleteLobby, FetchInv, FetchesApart, FetchesSeated, FetchesKnown, Known
<1>9. CASE Restart
  BY <1>9 DEF Restart, FetchesApart, FetchesSeated, FetchesKnown
<1>10. CASE UNCHANGED <<tenant, seated, head, history, fetching>>
  BY <1>10
  DEF FetchInv, FetchesApart, FetchesSeated, FetchesKnown, Known, RowsOf
<1>11. ASSUME NEW i \in Seats, NEW s \in Submissions, AnswerStored(i, s)
       PROVE  FetchesFine'
  BY <1>10, <1>11 DEF AnswerStored, lobbyVars, deckVars
<1>12. ASSUME NEW i \in Seats, NEW value \in BOOLEAN, SetReady(i, value)
       PROVE  FetchesFine'
  BY <1>10, <1>12 DEF SetReady, lobbyVars
<1>13. CASE StartWithTable \/ FinishGame \/ UNCHANGED vars
  BY <1>10, <1>13 DEF StartWithTable, FinishGame, vars, lobbyVars, deckVars
<1>16. ASSUME NEW f \in fetching, ThrowOnFragment(f) PROVE FetchesFine'
  <2>1. /\ fetching' \subseteq fetching
        /\ UNCHANGED <<tenant, seated, head, history>>
    BY <1>16 DEF ThrowOnFragment, Done, lobbyVars, deckVars
  <2> QED
    BY <2>1
    DEF FetchInv, FetchesApart, FetchesSeated, FetchesKnown, Known, RowsOf
<1> HIDE DEF FetchesFine
<1>14. CASE UNCHANGED vars
  BY <1>13, <1>14
<1>15. CASE Next
  BY <1>1, <1>2, <1>3, <1>4, <1>5, <1>6, <1>7, <1>8, <1>9, <1>11, <1>12, <1>13,
     <1>15, <1>16, Ends
  DEF Next
<1> QED
  BY <1>14, <1>15

-----------------------------------------------------------------------------
(* What an awaited fetch waits for, and what it may settle. *)
LEMMA AwaitedStep ==
  ASSUME FetchInv, AwaitedResolves, [Next]_vars
  PROVE  AwaitedResolves'
<1> USE DEF AwaitedResolves
<1>1. ASSUME NEW i \in Seats, NEW s \in Submissions, Begin(i, s)
      PROVE  AwaitedResolves'
  <2>0. PICK revision \in Nat : revision = NextRevision(i)
    BY <1>1, NextRevisionTyped
    DEF FetchInv, Begin, ReplaceHead, Row
  <2>1. /\ head' = [head EXCEPT ![i] = Row(s, revision, "resolving")]
        /\ fetching' = fetching \union
             {[seat |-> i, submission |-> s, revision |-> revision]}
    BY <1>1, <2>0 DEF Begin, ReplaceHead, Fetch
  <2> QED
    BY <2>1 DEF Awaited, Row, FetchInv, TypeOK
<1>2. ASSUME NEW i \in Seats, NEW s \in Submissions, Resume(i, s)
      PROVE  AwaitedResolves'
  <2>1. /\ fetching' = fetching \union
             {[seat |-> i, submission |-> s, revision |-> head[i].revision]}
        /\ head' = head
    BY <1>2 DEF Resume, Fetch, deckVars
  <2>2. PICK row \in RowsOf(i, s) : row.state = "resolving"
    BY <1>2 DEF Resume, MayResume
  <2>3. head[i] \in history[i] /\ row \in history[i]
    BY <2>2 DEF RowsOf, FetchInv, RowsInv, DeckRelations
  <2>4. row = head[i]
    BY <1>2, <2>2, <2>3
    DEF Resume, MayResume, RowsOf, Same, FetchInv, RowsInv, RowsUnique
  <2> QED
    BY <2>1, <2>2, <2>4 DEF Awaited
<1>3. ASSUME NEW i \in Seats, NEW s \in Submissions,
             BeginInvalid(i, s) \/ InvalidateFailed(i, s)
      PROVE  AwaitedResolves'
  <2>1. PICK row \in Rows : NewHead(i, row)
    BY <1>3, NewHeads DEF FetchInv
  <2>2. /\ head' = [head EXCEPT ![i] = row] /\ row.revision = NextRevision(i)
        /\ fetching' = fetching
        /\ row.submission.participant = tenant[i]
    BY <1>3, <2>1 DEF NewHead, ReplaceHead, BeginInvalid, InvalidateFailed
  <2>3. ASSUME NEW f \in fetching, f.seat = i, Same(row.submission, f.submission)
        PROVE  f.revision # row.revision
    <3>1. tenant[i] = f.submission.participant
      BY <2>2, <2>3, Columns, Authors DEF Same, FetchInv
    <3>2. head[i] # None /\ f.revision <= head[i].revision
      BY <3>1 DEF FetchInv, FetchesFine, FetchesKnown, Known
    <3>3. f.revision \in Nat /\ head[i].revision \in Nat
      BY <3>2, Columns DEF FetchInv
    <3> QED
      BY <2>2, <3>2, <3>3 DEF NextRevision
  <2> QED
    BY <2>2, <2>3 DEF Awaited, FetchInv, TypeOK
<1>4. ASSUME NEW f \in fetching, NEW state \in {"accepted", "needs-attention"},
             Settle(f, state)
      PROVE  AwaitedResolves'
  <2>1. \A g \in fetching' : g \in fetching /\ g # f
    BY <1>4 DEF Settle, Done
  <2>2. CASE Accepted(f.seat)
    BY <1>4, <2>1, <2>2 DEF Settle, Awaited
  <2>3. CASE ~Accepted(f.seat)
    <3>1. head' = [head EXCEPT ![f.seat] = Row(f.submission, f.revision, state)]
      BY <1>4, <2>3 DEF Settle
    <3>2. \A g \in fetching' :
            g.seat = f.seat => ~Same(f.submission, g.submission)
      BY <2>1 DEF FetchInv, FetchesFine, FetchesApart, Same
    <3> QED
      BY <2>1, <3>1, <3>2 DEF Awaited, Row, FetchInv, TypeOK
  <2> QED
    BY <2>2, <2>3
<1>5. ASSUME NEW i \in Seats, ReplaceSeat(i) PROVE AwaitedResolves'
  BY <1>5 DEF ReplaceSeat, Awaited, FetchInv, TypeOK
<1>6. CASE DeleteLobby
  BY <1>6, Columns DEF DeleteLobby, Awaited, FetchInv
<1>7. CASE head' = head /\ fetching' \subseteq fetching
  BY <1>7 DEF Awaited
<1>8. ASSUME NEW f \in fetching, Discard(f) PROVE AwaitedResolves'
  BY <1>7, <1>8 DEF Discard, Done
<1>9. ASSUME NEW i \in Seats, NEW s \in Submissions, AnswerStored(i, s)
      PROVE  AwaitedResolves'
  BY <1>7, <1>9 DEF AnswerStored, deckVars
<1>10. ASSUME NEW i \in Seats, NEW value \in BOOLEAN, SetReady(i, value)
       PROVE  AwaitedResolves'
  BY <1>7, <1>10 DEF SetReady
<1>11. ASSUME NEW p \in People, ClaimSeat(p) PROVE AwaitedResolves'
  BY <1>7, <1>11 DEF ClaimSeat, deckVars
<1>12. CASE StartWithTable \/ FinishGame \/ Restart
  BY <1>7, <1>12 DEF StartWithTable, FinishGame, Restart, deckVars
<1>13. CASE UNCHANGED vars
  BY <1>7, <1>13 DEF vars, deckVars
<1>14. ASSUME NEW f \in fetching, ThrowOnFragment(f) PROVE AwaitedResolves'
  BY <1>7, <1>14 DEF ThrowOnFragment, Done, deckVars
<1> HIDE DEF AwaitedResolves
<1> QED
  BY <1>1, <1>2, <1>3, <1>4, <1>5, <1>6, <1>8, <1>9, <1>10, <1>11, <1>12,
     <1>13, <1>14, Ends
  DEF Next

LEMMA AcceptedSoundStep ==
  ASSUME FetchInv, AcceptedSound, [Next]_vars
  PROVE  AcceptedSound'
<1> USE DEF AcceptedSound, Accepted
<1>1. ASSUME NEW i \in Seats, NEW row \in Rows, NewHead(i, row)
      PROVE  AcceptedSound'
  BY <1>1 DEF NewHead, ReplaceHead, FetchInv, TypeOK
<1>2. ASSUME NEW f \in fetching, NEW state \in {"accepted", "needs-attention"},
             Settle(f, state)
      PROVE  AcceptedSound'
  <2>1. f.submission.form = "sound"
    BY DEF FetchInv, FetchesFine, FetchesSeated
  <2> QED
    BY <1>2, <2>1 DEF Settle, Row, FetchInv, TypeOK
<1>3. ASSUME NEW i \in Seats, ReplaceSeat(i) PROVE AcceptedSound'
  BY <1>3 DEF ReplaceSeat, FetchInv, TypeOK
<1>4. CASE DeleteLobby
  BY <1>4 DEF DeleteLobby
<1>5. CASE head' = head
  BY <1>5
<1> HIDE DEF AcceptedSound
<1> QED
  BY <1>1, <1>2, <1>3, <1>4, <1>5, Steps, Ends
  DEF FetchInv, Discard, SetReady, ClaimSeat, StartWithTable, RowsQuiet, deckVars

-----------------------------------------------------------------------------
(* What lets a deck that is shown as resolving be asked for again. *)
WaitingInv == RoomSettled /\ ResolvingSound /\ FetchesMeant

(* No deck resolves where submissions are turned away. *)
LEMMA RoomStep ==
  ASSUME FetchInv, RoomSettled, [Next]_vars
  PROVE  RoomSettled'
<1> USE DEF RoomSettled, Accepted
<1>1. ASSUME NEW i \in Seats, NEW row \in Rows, NewHead(i, row)
      PROVE  RoomSettled'
  BY <1>1 DEF NewHead, roomVars
<1>2. ASSUME NEW f \in fetching, NEW state \in {"accepted", "needs-attention"},
             Settle(f, state)
      PROVE  RoomSettled'
  <2>1. f.seat \in Seats /\ head[f.seat] # None /\ room' = room
    BY <1>2, Columns DEF Settle, Awaited, FetchInv, roomVars
  <2> QED
    BY <1>2, <2>1 DEF Settle
<1>3. ASSUME NEW i \in Seats, ReplaceSeat(i) PROVE RoomSettled'
  BY <1>3 DEF ReplaceSeat, roomVars
<1>4. CASE StartWithTable
  BY <1>4 DEF StartWithTable, deckVars
<1>5. CASE DeleteLobby
  BY <1>5 DEF DeleteLobby
<1>6. CASE UNCHANGED <<head, room>> \/ (head' = head /\ room' = "finished")
  BY <1>6
<1> HIDE DEF RoomSettled, Accepted
<1> QED
  BY <1>1, <1>2, <1>3, <1>4, <1>5, <1>6, Steps, Ends
  DEF FetchInv, Discard, SetReady, ClaimSeat, RowsQuiet, deckVars, roomVars

(* Only a deck that can be read is ever waited for. *)
LEMMA ResolvingSoundStep ==
  ASSUME FetchInv, ResolvingSound, [Next]_vars
  PROVE  ResolvingSound'
<1> USE DEF ResolvingSound
<1>1. ASSUME NEW i \in Seats, NEW s \in Submissions,
             Begin(i, s) \/ BeginInvalid(i, s) \/ InvalidateFailed(i, s)
      PROVE  ResolvingSound'
  <2>1. PICK row \in Rows :
          /\ NewHead(i, row)
          /\ row.state = "resolving" => row.submission.form = "sound"
    BY <1>1, NewHeads DEF FetchInv, Row, Begin
  <2> QED
    BY <2>1 DEF NewHead, ReplaceHead, FetchInv, TypeOK
<1>2. ASSUME NEW f \in fetching, NEW state \in {"accepted", "needs-attention"},
             Settle(f, state)
      PROVE  ResolvingSound'
  BY <1>2 DEF Settle, Row, FetchInv, TypeOK
<1>3. ASSUME NEW i \in Seats, ReplaceSeat(i) PROVE ResolvingSound'
  BY <1>3 DEF ReplaceSeat, FetchInv, TypeOK
<1>4. CASE DeleteLobby
  BY <1>4 DEF DeleteLobby
<1>5. CASE head' = head
  BY <1>5
<1> HIDE DEF ResolvingSound
<1> QED
  BY <1>1, <1>2, <1>3, <1>4, <1>5, Ends
  DEF Next, vars, AnswerStored, Resume, ThrowOnFragment, Discard, SetReady,
      ClaimSeat, StartWithTable, FinishGame, Restart, deckVars

(* A row that is written under the identifier of a fetch must mean the same. *)
LEMMA MeantUnderWrite ==
  ASSUME TypeOK, NEW f \in fetching, Meant(f), NEW i \in Seats, NEW row,
         tenant' = tenant, history' = Written(i, row),
         /\ f.seat = i /\ tenant[i] = f.submission.participant
         /\ row.submission.id = f.submission.id
         => Same(row.submission, f.submission)
  PROVE  Meant(f)'
BY Columns DEF Meant, Written, RowsOf, TypeOK

LEMMA MeantStep ==
  ASSUME FetchInv, FetchesMeant, [Next]_vars
  PROVE  FetchesMeant'
<1> USE DEF FetchesMeant
<1>1. ASSUME NEW i \in Seats, NEW s \in Submissions, Begin(i, s)
      PROVE  FetchesMeant'
  <2>0. PICK revision \in Nat : revision = NextRevision(i)
    BY <1>1, NextRevisionTyped DEF FetchInv, Begin, ReplaceHead, Row
  <2> DEFINE row == Row(s, revision, "resolving")
             new == [seat |-> i, submission |-> s, revision |-> revision]
  <2>1. /\ tenant' = tenant /\ tenant[i] = s.participant
        /\ history' = Written(i, row)
        /\ fetching' = fetching \union {new}
    BY <1>1, <2>0 DEF Begin, Submitting, ReplaceHead, Fetch, Row, lobbyVars
  <2>2. row.submission = s
    BY DEF Row
  <2>3. ASSUME NEW f \in fetching PROVE Meant(f)'
    <3>1. ~ (/\ f.seat = i /\ tenant[i] = f.submission.participant
             /\ s.id = f.submission.id)
      BY <1>1 DEF Begin, RowsOf, Fetched, FetchInv, FetchesFine, FetchesKnown,
         Known
    <3> HIDE DEF row
    <3> QED
      BY <2>1, <2>2, <3>1, MeantUnderWrite DEF FetchInv
  <2>4. Meant(new)'
    <3>1. history'[i] = (history[i] \ RowsOf(i, s)) \union {row}
      BY <2>1, <2>2 DEF Written, FetchInv, TypeOK
    <3> QED
      BY <2>2, <3>1 DEF Meant, RowsOf, Same
  <2> QED
    BY <2>1, <2>3, <2>4
<1>2. ASSUME NEW i \in Seats, NEW s \in Submissions, Resume(i, s)
      PROVE  FetchesMeant'
  <2> DEFINE new == [seat |-> i, submission |-> s, revision |-> head[i].revision]
  <2>1. fetching' = fetching \union {new} /\ UNCHANGED <<tenant, history>>
    BY <1>2 DEF Resume, Fetch, lobbyVars, deckVars
  <2>2. PICK row \in RowsOf(i, s) : Same(row.submission, s)
    BY <1>2 DEF Resume, MayResume
  <2>3. \A r \in RowsOf(i, s) : r = row
    BY <2>2 DEF RowsOf, FetchInv, RowsInv, RowsUnique
  <2>4. Meant(new)'
    BY <2>1, <2>2, <2>3 DEF Meant, RowsOf
  <2> QED
    BY <2>1, <2>4 DEF Meant, RowsOf
<1>3. ASSUME NEW i \in Seats, NEW s \in Submissions,
             BeginInvalid(i, s) \/ InvalidateFailed(i, s)
      PROVE  FetchesMeant'
  <2>1. PICK row \in Rows :
          /\ tenant' = tenant /\ history' = Written(i, row)
          /\ BeginInvalid(i, s) => row.submission = s
          /\ InvalidateFailed(i, s) => row.submission = head[i].submission
    BY <1>3, NewHeads DEF FetchInv, NewHead, ReplaceHead, Row, lobbyVars
  <2>2. fetching' = fetching
    BY <1>3 DEF BeginInvalid, InvalidateFailed
  <2>3. ASSUME NEW f \in fetching, f.seat = i,
               tenant[i] = f.submission.participant,
               row.submission.id = f.submission.id
        PROVE  Same(row.submission, f.submission)
    <3>1. RowsOf(i, f.submission) # {}
      BY <2>3 DEF FetchInv, FetchesFine, FetchesKnown, Known
    <3>2. CASE BeginInvalid(i, s)
      BY <2>1, <2>3, <3>1, <3>2 DEF BeginInvalid, RowsOf
    <3>3. CASE InvalidateFailed(i, s)
      <4>1. head[i] \in RowsOf(i, f.submission)
        BY <2>1, <2>3, <3>3
        DEF InvalidateFailed, RowsOf, FetchInv, RowsInv, DeckRelations
      <4> QED
        BY <2>1, <2>3, <3>3, <4>1 DEF Meant
    <3> QED
      BY <1>3, <3>2, <3>3
  <2> QED
    BY <2>1, <2>2, <2>3, MeantUnderWrite DEF FetchInv
<1>4. ASSUME NEW f \in fetching, NEW row, row.submission = f.submission,
             tenant' = tenant, fetching' = Done(f),
             history' = history \/ history' = Written(f.seat, row)
      PROVE  FetchesMeant'
  <2> SUFFICES ASSUME NEW g \in fetching, g # f PROVE Meant(g)'
    BY <1>4 DEF Done
  <2>1. g.seat = f.seat => g.submission.id # f.submission.id
    BY DEF FetchInv, FetchesFine, FetchesApart
  <2>2. f.seat \in Seats
    BY Columns DEF FetchInv
  <2>3. CASE history' = history
    BY <1>4, <2>3 DEF Meant, RowsOf
  <2>4. CASE history' = Written(f.seat, row)
    BY <1>4, <2>1, <2>2, <2>4, MeantUnderWrite DEF FetchInv
  <2> QED
    BY <1>4, <2>3, <2>4
<1>5. ASSUME NEW f \in fetching, Discard(f) PROVE FetchesMeant'
  <2> DEFINE row == Row(f.submission, f.revision, "needs-attention")
  <2>1. row.submission = f.submission
    BY DEF Row
  <2>2. /\ tenant' = tenant /\ fetching' = Done(f)
        /\ history' = history \/ history' = Written(f.seat, row)
    BY <1>5 DEF Discard, Superseded, lobbyVars
  <2> HIDE DEF row
  <2> QED
    BY <1>4, <2>1, <2>2
<1>6. ASSUME NEW f \in fetching, NEW state \in {"accepted", "needs-attention"},
             Settle(f, state)
      PROVE  FetchesMeant'
  <2> DEFINE row == Row(f.submission, f.revision, state)
  <2>1. row.submission = f.submission
    BY DEF Row
  <2>2. /\ tenant' = tenant /\ fetching' = Done(f)
        /\ history' = history \/ history' = Written(f.seat, row)
    BY <1>6 DEF Settle, lobbyVars
  <2> HIDE DEF row
  <2> QED
    BY <1>4, <2>1, <2>2
<1>7. ASSUME NEW i \in Seats, ReplaceSeat(i) PROVE FetchesMeant'
  BY <1>7, Columns, Authors DEF ReplaceSeat, Meant, RowsOf, FetchInv, TypeOK
<1>8. ASSUME NEW p \in People, ClaimSeat(p) PROVE FetchesMeant'
  <2>1. \A f \in fetching : f.submission.participant # p
    BY <1>8 DEF ClaimSeat, FetchInv, FetchesFine, FetchesSeated
  <2> QED
    BY <1>8, <2>1, Columns DEF ClaimSeat, Meant, RowsOf, FetchInv, TypeOK, deckVars
<1>9. CASE DeleteLobby
  BY <1>9, Columns DEF DeleteLobby, Meant, RowsOf, FetchInv
<1>10. CASE UNCHANGED <<tenant, history>> /\ fetching' \subseteq fetching
  BY <1>10 DEF Meant, RowsOf
<1> HIDE DEF FetchesMeant
<1> QED
  BY <1>1, <1>2, <1>3, <1>5, <1>6, <1>7, <1>8, <1>9, <1>10, Ends
  DEF Next, vars, AnswerStored, ThrowOnFragment, Done, SetReady, StartWithTable,
      FinishGame, Restart, lobbyVars, deckVars

(* The tenant's fetch of the identifier a seat waits for is the one it waits
   for; where there is none, sending the submission again begins one. *)
LEMMA NobodyStuck ==
  ASSUME FetchInv, WaitingInv PROVE NoSeatIsStuck
<1> SUFFICES ASSUME NEW i \in Seats, head[i] # None, head[i].state = "resolving"
             PROVE  \/ \E f \in fetching : f.seat = i /\ Awaited(f)
                    \/ MayResume(i, head[i].submission)
  BY DEF NoSeatIsStuck
<1> DEFINE s == head[i].submission
<1>1. /\ tenant[i] = s.participant
      /\ head[i] \in RowsOf(i, s) /\ DeckRelations
      /\ s \in Submissions /\ head[i].revision \in 1 .. MaxRevision
  BY Columns DEF RowsOf, FetchInv, RowsInv, DeckRelations
<1>2. room \in {"forming", "finished"} /\ s.form = "sound"
  BY DEF WaitingInv, RoomSettled, ResolvingSound, Accepted, FetchInv, TypeOK
<1>3. CASE ~Fetched(i, s)
  BY <1>1, <1>2, <1>3 DEF MayResume, Submitting, Same
<1>4. ASSUME NEW f \in fetching, f.seat = i, f.submission.id = s.id
      PROVE  Awaited(f)
  <2>1. /\ tenant[i] = f.submission.participant
        /\ f.revision \in 1 .. MaxRevision
    BY <1>1, <1>4, Authors, Columns DEF FetchInv
  <2>2. f.revision <= head[i].revision /\ ~(f.revision < head[i].revision)
    BY <1>4, <2>1 DEF FetchInv, FetchesFine, FetchesKnown, Known
  <2>3. head[i] \in RowsOf(i, f.submission)
    BY <1>1, <1>4 DEF RowsOf
  <2>4. Same(s, f.submission)
    BY <1>4, <2>1, <2>3 DEF WaitingInv, FetchesMeant, Meant
  <2> QED
    BY <1>1, <1>4, <2>1, <2>2, <2>4 DEF Awaited
<1> QED
  BY <1>3, <1>4 DEF Fetched

-----------------------------------------------------------------------------
(* What was refused stays refused. *)
RefusedInv ==
  /\ FetchInv /\ AwaitedResolves
  /\ RefusedKnown /\ RefusedSeated

(* A row that is written for a refused submission has to say so. *)
LEMMA RememberedUnderWrite ==
  ASSUME TypeOK, NEW i \in Seats, NEW row, NEW s, Remembered(s),
         tenant' = tenant, history' = Written(i, row),
         /\ s.form = "sound" /\ tenant[i] = s.participant
         /\ Same(row.submission, s)
         => row.state = "needs-attention"
  PROVE  Remembered(s)'
<1> SUFFICES ASSUME NEW k \in Seats, s.form = "sound", tenant[k] = s.participant
             PROVE  /\ RowsOf(k, s)' # {}
                    /\ \A r \in RowsOf(k, s)' :
                         Same(r.submission, s) => r.state = "needs-attention"
  BY DEF Remembered
<1>1. /\ RowsOf(k, s) # {}
      /\ \A r \in RowsOf(k, s) :
           Same(r.submission, s) => r.state = "needs-attention"
  BY DEF Remembered
<1>2. \A r \in RowsOf(k, s)' : r \in RowsOf(k, s) \/ (k = i /\ r = row)
  BY DEF Written, RowsOf, TypeOK
<1> QED
  BY <1>1, <1>2, WrittenCovers

(* A submission whose row was just written as refused is remembered. *)
LEMMA RememberedWhenWritten ==
  ASSUME FetchInv, NEW i \in Seats, NEW row \in Rows, NEW s \in Submissions,
         tenant' = tenant, history' = Written(i, row),
         row.submission = s, row.state = "needs-attention",
         tenant[i] = s.participant
  PROVE  Remembered(s)'
<1> SUFFICES ASSUME NEW k \in Seats, tenant[k] = s.participant
             PROVE  /\ RowsOf(k, s)' # {}
                    /\ \A r \in RowsOf(k, s)' : r.state = "needs-attention"
  BY DEF Remembered
<1>1. k = i
  BY Authors DEF FetchInv, TenantsApart
<1>2. history'[i] = (history[i] \ RowsOf(i, s)) \union {row}
  BY DEF Written, FetchInv, TypeOK
<1> QED
  BY <1>1, <1>2 DEF RowsOf

LEMMA RefusedStep ==
  ASSUME RefusedInv, [Next]_vars
  PROVE  RefusedKnown' /\ RefusedSeated'
<1>0. /\ \A s \in refused : Remembered(s) /\ s.participant \in seated
      /\ refused \subseteq Submissions
  BY DEF RefusedInv, RefusedKnown, RefusedSeated, FetchInv, TypeOK
<1>1. ASSUME NEW i \in Seats, NEW s \in Submissions, AnswerStored(i, s)
      PROVE  RefusedKnown' /\ RefusedSeated'
  <2>1. /\ tenant[i] = s.participant /\ refused' = refused \union {s}
        /\ UNCHANGED <<tenant, seated, history>>
    BY <1>1 DEF AnswerStored, Submitting, lobbyVars, deckVars
  <2>2. PICK row \in RowsOf(i, s) :
          Same(row.submission, s) => row.state = "needs-attention"
    BY <1>1 DEF AnswerStored
  <2>3. \A r \in RowsOf(i, s) : r = row
    BY <2>2 DEF RowsOf, RefusedInv, FetchInv, RowsInv, RowsUnique
  <2>4. \A k \in Seats : tenant[k] = s.participant => k = i
    BY <2>1, Authors DEF RefusedInv, FetchInv, TenantsApart
  <2>5. Remembered(s)'
    BY <2>1, <2>2, <2>3, <2>4 DEF Remembered, RowsOf
  <2>6. s.participant \in seated
    BY <2>1, Authors DEF RefusedInv, FetchInv, TenantsApart
  <2>7. \A t \in refused : Remembered(t)'
    BY <1>0, <2>1 DEF Remembered, RowsOf
  <2> QED
    BY <1>0, <2>1, <2>5, <2>6, <2>7 DEF RefusedKnown, RefusedSeated
<1>2. ASSUME NEW i \in Seats, NEW s \in Submissions, Begin(i, s)
      PROVE  RefusedKnown' /\ RefusedSeated'
  <2>0. PICK row \in Rows :
          /\ NewHead(i, row) /\ row.submission = s
    BY <1>2, NewHeads DEF RefusedInv, FetchInv, Row
  <2>1. /\ tenant' = tenant /\ seated' = seated /\ refused' = refused
        /\ history' = Written(i, row)
    BY <1>2, <2>0 DEF Begin, NewHead, ReplaceHead, lobbyVars
  <2>2. ASSUME NEW t \in refused, t.form = "sound", tenant[i] = t.participant
        PROVE  ~Same(s, t)
    <3>1. PICK r \in RowsOf(i, t) : TRUE
      BY <1>0, <2>2 DEF Remembered
    <3>2. Same(r.submission, t) => r.state = "needs-attention"
      BY <1>0, <2>2 DEF Remembered
    <3> QED
      BY <1>2, <3>1, <3>2 DEF Begin, RowsOf, Same
  <2>3. \A t \in refused : Remembered(t)'
    BY <1>0, <2>0, <2>1, <2>2, RememberedUnderWrite DEF RefusedInv, FetchInv
  <2> QED
    BY <1>0, <2>1, <2>3 DEF RefusedKnown, RefusedSeated
<1>3. ASSUME NEW i \in Seats, NEW s \in Submissions,
             BeginInvalid(i, s) \/ InvalidateFailed(i, s)
      PROVE  RefusedKnown' /\ RefusedSeated'
  <2>1. PICK row \in Rows : NewHead(i, row) /\ row.state = "needs-attention"
    BY <1>3, NewHeads DEF RefusedInv, FetchInv, Row
  <2>2. /\ tenant' = tenant /\ seated' = seated
        /\ refused' = refused \union {s} /\ history' = Written(i, row)
        /\ tenant[i] = s.participant /\ s.form # "sound"
    BY <1>3, <2>1
    DEF BeginInvalid, InvalidateFailed, Submitting, NewHead, ReplaceHead, lobbyVars
  <2>3. \A t \in refused : Remembered(t)'
    BY <1>0, <2>1, <2>2, RememberedUnderWrite DEF RefusedInv, FetchInv
  <2>4. Remembered(s)'
    BY <2>2 DEF Remembered
  <2>5. s.participant \in seated
    BY <2>2, Authors DEF RefusedInv, FetchInv, TenantsApart
  <2> QED
    BY <1>0, <2>2, <2>3, <2>4, <2>5 DEF RefusedKnown, RefusedSeated
<1>4. ASSUME NEW f \in fetching, Discard(f)
      PROVE  RefusedKnown' /\ RefusedSeated'
  <2> DEFINE row == Row(f.submission, f.revision, "needs-attention")
  <2>1. /\ tenant' = tenant /\ seated' = seated
        /\ f.seat \in Seats /\ f.submission \in Submissions /\ row \in Rows
        /\ f.submission.participant \in seated
        /\ Known(f) /\ ~Awaited(f)
        /\ f.revision \in 1 .. MaxRevision
    BY <1>4, Columns, RowTyped
    DEF Discard, lobbyVars, RefusedInv, FetchInv, FetchesFine, FetchesSeated,
        FetchesKnown
  <2>2. RefusedSeated'
    BY <1>0, <1>4, <2>1 DEF Discard, RefusedSeated
  <2>3. CASE history' = history /\ refused' = refused
    BY <1>0, <2>1, <2>2, <2>3 DEF RefusedKnown, Remembered, RowsOf
  <2>4. CASE /\ RowsOf(f.seat, f.submission) # {}
             /\ history' = Superseded(f)
             /\ refused' = refused \union {f.submission}
    <3>1. tenant[f.seat] = f.submission.participant
      BY <2>4, FetchOfTenant DEF RefusedInv, FetchInv
    <3>2. history' = Written(f.seat, row)
      BY <2>4 DEF Superseded
    <3>3. row.submission = f.submission /\ row.state = "needs-attention"
      BY DEF Row
    <3> HIDE DEF row
    <3>4. Remembered(f.submission)'
      BY <2>1, <3>1, <3>2, <3>3, RememberedWhenWritten DEF RefusedInv
    <3>5. \A t \in refused : Remembered(t)'
      BY <1>0, <2>1, <3>2, <3>3, RememberedUnderWrite DEF RefusedInv, FetchInv
    <3> QED
      BY <2>2, <2>4, <3>4, <3>5 DEF RefusedKnown
  <2>5. CASE /\ \/ head[f.seat] = None
                \/ head[f.seat].submission.id = f.submission.id
             /\ history' = history
             /\ refused' = refused \union {f.submission}
    <3>1. ASSUME NEW k \in Seats, tenant[k] = f.submission.participant,
                 NEW r \in RowsOf(k, f.submission),
                 Same(r.submission, f.submission)
          PROVE  r.state = "needs-attention"
      <4>1. /\ k = f.seat /\ head[k] # None /\ f.revision <= head[k].revision
            /\ f.revision < head[k].revision
               /\ head[k].submission.id = f.submission.id
               => head[k].state = "needs-attention"
        BY <2>1, <3>1 DEF Known
      <4>2. head[k] \in history[k] /\ head[k].submission.id = f.submission.id
        BY <2>5, <4>1
        DEF RefusedInv, FetchInv, RowsInv, DeckRelations
      <4>3. r = head[k]
        BY <3>1, <4>2 DEF RowsOf, RefusedInv, FetchInv, RowsInv, RowsUnique
      <4>4. head[k].revision # f.revision
        BY <2>1, <3>1, <4>1, <4>3 DEF Awaited
      <4>5. head[k].revision \in 1 .. MaxRevision
        BY <4>1, Columns DEF RefusedInv, FetchInv
      <4> QED
        BY <2>1, <4>1, <4>2, <4>3, <4>4, <4>5
    <3>2. Remembered(f.submission)'
      BY <2>1, <2>5, <3>1 DEF Remembered, RowsOf, Known
    <3>3. \A t \in refused : Remembered(t)'
      BY <1>0, <2>1, <2>5 DEF Remembered, RowsOf
    <3> QED
      BY <2>2, <2>5, <3>2, <3>3 DEF RefusedKnown
  <2> QED
    BY <1>4, <2>3, <2>4, <2>5 DEF Discard
<1>5. ASSUME NEW f \in fetching, NEW state \in {"accepted", "needs-attention"},
             Settle(f, state)
      PROVE  RefusedKnown' /\ RefusedSeated'
  <2> DEFINE row == Row(f.submission, f.revision, state)
  <2>1. /\ tenant' = tenant /\ seated' = seated
        /\ f.seat \in Seats /\ f.submission \in Submissions /\ row \in Rows
        /\ f.submission.participant \in seated
        /\ tenant[f.seat] = f.submission.participant
        /\ Awaited(f) /\ head[f.seat].state = "resolving"
        /\ row.submission = f.submission /\ row.state = state
    BY <1>5, Columns, RowTyped, FetchOfTenant
    DEF Settle, Row, lobbyVars, RefusedInv, FetchInv, FetchesFine, FetchesSeated,
        AwaitedResolves
  <2>2. history' = Written(f.seat, row)
    BY <1>5, <2>1 DEF Settle, Accepted
  <2>3. refused' = IF state = "accepted" THEN refused
                   ELSE refused \union {f.submission}
    BY <1>5, <2>1 DEF Settle, Accepted
  <2>4. RefusedSeated'
    BY <1>0, <2>1, <2>3 DEF RefusedSeated
  <2>5. ASSUME NEW t \in refused, t.form = "sound",
               tenant[f.seat] = t.participant
        PROVE  ~Same(f.submission, t)
    <3>1. head[f.seat] \in history[f.seat]
      BY <2>1
      DEF Awaited, RefusedInv, FetchInv, RowsInv, DeckRelations
    <3>2. Same(head[f.seat].submission, f.submission)
      BY <2>1 DEF Awaited
    <3>3. Remembered(t)
      BY <1>0
    <3> QED
      BY <2>1, <2>5, <3>1, <3>2, <3>3 DEF Remembered, RowsOf, Same
  <2> HIDE DEF row
  <2>6. \A t \in refused : Remembered(t)'
    BY <1>0, <2>1, <2>2, <2>5, RememberedUnderWrite DEF RefusedInv, FetchInv
  <2>7. CASE state = "accepted"
    BY <2>3, <2>4, <2>6, <2>7 DEF RefusedKnown
  <2>8. CASE state = "needs-attention"
    <3>1. Remembered(f.submission)'
      BY <2>1, <2>2, <2>8, RememberedWhenWritten DEF RefusedInv
    <3> QED
      BY <2>3, <2>4, <2>6, <2>8, <3>1 DEF RefusedKnown
  <2> QED
    BY <2>7, <2>8
<1>6. ASSUME NEW i \in Seats, ReplaceSeat(i)
      PROVE  RefusedKnown' /\ RefusedSeated'
  <2>1. \A s \in refused : s.participant # None
    BY <1>0, Authors
  <2> QED
    BY <1>0, <1>6, <2>1
    DEF ReplaceSeat, RefusedInv, FetchInv, TypeOK, RefusedKnown, RefusedSeated,
        Remembered, RowsOf
<1>7. ASSUME NEW p \in People, ClaimSeat(p)
      PROVE  RefusedKnown' /\ RefusedSeated'
  BY <1>0, <1>7
  DEF ClaimSeat, deckVars, RefusedInv, FetchInv, TypeOK, RefusedKnown,
      RefusedSeated, Remembered, RowsOf
<1>8. CASE DeleteLobby
  <2>1. \A s \in refused : s.participant # None
    BY <1>0, Authors
  <2> QED
    BY <1>0, <1>8, <2>1 DEF DeleteLobby, RefusedKnown, RefusedSeated, Remembered
<1>9. CASE UNCHANGED <<tenant, seated, history, refused>>
  BY <1>0, <1>9 DEF RefusedKnown, RefusedSeated, Remembered, RowsOf
<1>10. ASSUME NEW i \in Seats, NEW s \in Submissions, Resume(i, s)
       PROVE  RefusedKnown' /\ RefusedSeated'
  BY <1>9, <1>10 DEF Resume, lobbyVars, deckVars
<1>11. ASSUME NEW i \in Seats, NEW value \in BOOLEAN, SetReady(i, value)
       PROVE  RefusedKnown' /\ RefusedSeated'
  BY <1>9, <1>11 DEF SetReady, lobbyVars
<1>12. CASE StartWithTable \/ FinishGame \/ Restart \/ UNCHANGED vars
  BY <1>9, <1>12 DEF StartWithTable, FinishGame, Restart, vars, lobbyVars, deckVars
<1>13. ASSUME NEW f \in fetching, ThrowOnFragment(f)
       PROVE  RefusedKnown' /\ RefusedSeated'
  BY <1>9, <1>13 DEF ThrowOnFragment, lobbyVars, deckVars
<1> QED
  BY <1>1, <1>2, <1>3, <1>4, <1>5, <1>6, <1>7, <1>8, <1>10, <1>11, <1>12,
     <1>13, Ends
  DEF Next

(* The accepted deck of a seat has a row, which remembers no refusal. *)
LEMMA RefusedNotAccepted ==
  ASSUME RefusedInv, AcceptedSound PROVE RefusedIsFinal
<1> SUFFICES ASSUME NEW i \in Seats, Accepted(i), head[i].submission \in refused
             PROVE  FALSE
  BY DEF RefusedIsFinal
<1>1. /\ tenant[i] = head[i].submission.participant
      /\ head[i] \in RowsOf(i, head[i].submission)
  BY DEF Accepted, RowsOf, RefusedInv, FetchInv, RowsInv, DeckRelations
<1>2. head[i].submission.form = "sound"
  BY DEF AcceptedSound
<1> QED
  BY <1>1, <1>2 DEF RefusedInv, RefusedKnown, Remembered, Same, Accepted

-----------------------------------------------------------------------------
DeckInv == RefusedInv /\ AcceptedSound /\ WaitingInv

LEMMA InitDeck == Init => DeckInv
<1> SUFFICES ASSUME Init PROVE DeckInv
  OBVIOUS
<1>1. RowsInv /\ TenantsApart
  BY InitReadable, SubmissionsAssumption
  DEF Init, RowsInv, RowsOfTenant, RowsUnique, TenantsApart
<1>2. FetchInv
  BY <1>1, InitTyped
  DEF Init, FetchInv, FetchesFine, FetchesApart, FetchesSeated, FetchesKnown
<1> QED
  BY <1>2
  DEF Init, DeckInv, RefusedInv, AwaitedResolves, RefusedKnown, RefusedSeated,
      AcceptedSound, Accepted, WaitingInv, RoomSettled, ResolvingSound,
      FetchesMeant

LEMMA DeckStep == DeckInv /\ [Next]_vars => DeckInv'
<1> SUFFICES ASSUME DeckInv, [Next]_vars PROVE DeckInv'
  OBVIOUS
<1> USE DEF DeckInv, RefusedInv
<1>1. TypeOK' /\ RowsInv' /\ TenantsApart'
  BY TypeStep, ReadableStep, RowsStep, TenantStep DEF FetchInv, RowsInv
<1>2. FetchInv'
  BY <1>1, FetchStep DEF FetchInv
<1>3. AwaitedResolves' /\ AcceptedSound' /\ WaitingInv'
  BY AwaitedStep, AcceptedSoundStep, RoomStep, ResolvingSoundStep, MeantStep
  DEF WaitingInv
<1> QED
  BY <1>2, <1>3, RefusedStep

(* A submission answered with needs-attention never becomes the accepted deck
   of a seat, however fetches end, are forgotten and are begun again. *)
THEOREM RefusalsStand == Spec => []RefusedIsFinal
<1>1. DeckInv => RefusedIsFinal
  BY RefusedNotAccepted DEF DeckInv
<1> QED
  BY <1>1, InitDeck, DeckStep, PTL DEF Spec

(* However fetches end, throw and are forgotten: whoever's deck is shown as
   resolving waits for a fetch under way, or has one begun by sending it again. *)
THEOREM WaitingIsServed == Spec => []NoSeatIsStuck
<1>1. DeckInv => NoSeatIsStuck
  BY NobodyStuck DEF DeckInv, RefusedInv
<1> QED
  BY <1>1, InitDeck, DeckStep, PTL DEF Spec
=============================================================================
