-------------------------- MODULE TableStart_proofs --------------------------
(***************************************************************************)
(* The lobby and the start of a variable room, proved for every number of  *)
(* guests, decks, capabilities and hands.                                  *)
(***************************************************************************)
EXTENDS TableStart, TLAPS

SeatRecords == [who : Members \union {Unseated}, cap : 0..MaxIssued,
                acceptedDeck : BOOLEAN, ready : BOOLEAN]
Rows == [who : Members, deck : Decks] \union {NoDeck}
LobbyRecords ==
  [lifecycle : {"forming", "ready", "started", "closed"}, admissionOpen : BOOLEAN,
   admission : 0..MaxIssued, seat : [Players -> SeatRecords]]

(* The types of what the lobby's operations read and write. *)
LobbyTypes ==
  /\ playerCount \in PlayerCounts
  /\ lobby \in LobbyRecords
  /\ issued \in 0..MaxIssued
  /\ deckRow \in [Players -> Rows] /\ declared \in [Players -> Rows]
  /\ submissions \subseteq [who : Members, seat : Players, cap : 0..MaxIssued,
                            deck : Decks]
  /\ invitation \in [Guests -> 0..MaxIssued] /\ barred \in [Guests -> 0..MaxIssued]

(* A participant has one seat, and a deck row belongs to whom the seat belongs. *)
SeatedOnce ==
  \A i, j \in Players : /\ lobby.seat[i].who = lobby.seat[j].who
                        /\ lobby.seat[i].who \in Guests
                        => i = j
RowsAreTheirs ==
  \A i \in Players : deckRow[i] # NoDeck => deckRow[i].who = lobby.seat[i].who

(* A ready lobby is one whose seats are ready, and a ready seat has the deck it
   was declared ready with, or none. *)
ReadyTogether == lobby.lifecycle = "ready" => \A i \in Players : lobby.seat[i].ready
ReadyAsDeclared ==
  \A i \in Players : lobby.seat[i].ready => deckRow[i] \in {declared[i], NoDeck}

(* Nobody lost a seat under an invite newer than today's, and who sits came with
   an invite newer than the loss. *)
InvitesInOrder ==
  /\ lobby.admission <= issued
  /\ \A g \in Guests : barred[g] <= lobby.admission
SeatedByInvite ==
  \A i \in Players : lobby.seat[i].who \in Guests =>
    invitation[lobby.seat[i].who] >= barred[lobby.seat[i].who]

LobbyInv ==
  /\ LobbyTypes /\ SeatedOnce /\ RowsAreTheirs
  /\ ReadyTogether /\ ReadyAsDeclared /\ InvitesInOrder /\ SeatedByInvite

USE LobbyAssumption DEF Members, NoDeck

-----------------------------------------------------------------------------
(* What the lobby's operations leave. *)

LEMMA RowShape ==
  /\ NoDeck \in Rows
  /\ \A r \in Rows : r # NoDeck => r.who \in Members /\ r.deck \in Decks
  /\ \A w \in Members, d \in Decks : [who |-> w, deck |-> d] \in Rows \ {NoDeck}
BY DEF Rows

LEMMA SeatsArePlayers == LobbyTypes => Seats = Players
BY DEF LobbyTypes, LobbyRecords, Seats

(* One seat changes and the lifecycle follows. *)
LEMMA Reseated ==
  ASSUME LobbyTypes, NEW i \in Players, NEW s \in SeatRecords,
         UNCHANGED playerCount,
         lobby' = WithSeats([lobby.seat EXCEPT ![i] = s])
  PROVE  /\ lobby' \in LobbyRecords
         /\ lobby'.seat[i] = s
         /\ \A j \in Players : j # i => lobby'.seat[j] = lobby.seat[j]
         /\ lobby'.admission = lobby.admission
         /\ lobby'.lifecycle \in {"forming", "ready"}
         /\ ReadyTogether'
<1> DEFINE seat == [lobby.seat EXCEPT ![i] = s]
<1>1. lobby.seat \in [Players -> SeatRecords] /\ Seats = Players
  BY SeatsArePlayers DEF LobbyTypes, LobbyRecords
<1>2. seat \in [Players -> SeatRecords] /\ seat[i] = s
      /\ \A j \in Players : j # i => seat[j] = lobby.seat[j]
  BY <1>1
<1>3. /\ lobby' = [lobby EXCEPT !.seat = seat, !.lifecycle = lobby'.lifecycle]
      /\ lobby'.lifecycle \in {"forming", "ready"}
      /\ lobby'.lifecycle = "ready" => \A j \in Players : seat[j].ready
  BY <1>1 DEF WithSeats, LobbyTypes, LobbyRecords
<1>4. /\ lobby' \in LobbyRecords /\ lobby'.seat = seat
      /\ lobby'.admission = lobby.admission
  BY <1>2, <1>3 DEF LobbyTypes, LobbyRecords
<1>5. LobbyRecords' = LobbyRecords /\ Players' = Players
  BY DEF LobbyRecords, Players, SeatRecords
<1>6. ReadyTogether' BY <1>3, <1>4, <1>5 DEF ReadyTogether
<1> QED BY <1>2, <1>3, <1>4, <1>6

(* One lemma for each operation that gives a seat or takes it. *)
LEMMA ClaimKeeps ==
  ASSUME LobbyInv, NEW g \in Guests, ClaimSeat(g), UNCHANGED playerCount
  PROVE  LobbyInv'
<1> USE DEF LobbyInv
<1>0. Seats = Players BY SeatsArePlayers
<1>1. PICK i \in Players :
        /\ lobby.seat[i].who = Unseated
        /\ lobby' = WithSeats([lobby.seat EXCEPT ![i].who = g])
  <2>1. SeatOf(Unseated) # {} /\ SeatOf(Unseated) \subseteq {1, 2, 3, 4}
    BY SMTT(30), <1>0 DEF ClaimSeat, SeatOf, LobbyTypes, Players, PlayerCounts
  <2>2. PICK i \in SeatOf(Unseated) : \A j \in SeatOf(Unseated) : i <= j
    BY <2>1
  <2> QED BY <2>2, <1>0 DEF ClaimSeat, SeatOf
<1> DEFINE s == [lobby.seat[i] EXCEPT !.who = g]
<1>2. s \in SeatRecords /\ s.who = g /\ s.ready = lobby.seat[i].ready
  BY DEF LobbyTypes, LobbyRecords, SeatRecords
<1>3. lobby' = WithSeats([lobby.seat EXCEPT ![i] = s]) BY <1>1
<1> HIDE DEF s
<1>4. /\ lobby' \in LobbyRecords /\ lobby'.seat[i] = s
      /\ \A j \in Players : j # i => lobby'.seat[j] = lobby.seat[j]
      /\ lobby'.admission = lobby.admission /\ ReadyTogether'
  BY <1>2, <1>3, Reseated
<1>5. UNCHANGED <<deckRow, submissions, issued, invitation, barred, declared>>
      /\ Players' = Players /\ LobbyRecords' = LobbyRecords
  BY DEF ClaimSeat, Players, LobbyRecords, SeatRecords
<1>6. \A j \in Players : lobby.seat[j].who # g
  BY <1>0 DEF ClaimSeat, SeatOf
<1>7. LobbyTypes' BY <1>4, <1>5 DEF LobbyTypes
<1>8. SeatedOnce' BY <1>2, <1>4, <1>5, <1>6 DEF SeatedOnce
<1>9. RowsAreTheirs'
  <2>1. deckRow[i] = NoDeck
    BY <1>1, RowShape DEF RowsAreTheirs, LobbyTypes
  <2> QED BY <2>1, <1>4, <1>5 DEF RowsAreTheirs
<1>10. ReadyAsDeclared' BY <1>2, <1>4, <1>5 DEF ReadyAsDeclared
<1>11. InvitesInOrder' BY <1>4, <1>5 DEF InvitesInOrder
<1>12. SeatedByInvite'
  <2>1. invitation[g] >= barred[g] BY DEF ClaimSeat, InvitesInOrder
  <2> QED BY <2>1, <1>2, <1>4, <1>5 DEF SeatedByInvite
<1> QED BY <1>4, <1>7, <1>8, <1>9, <1>10, <1>11, <1>12

LEMMA ReplaceKeeps ==
  ASSUME LobbyInv, NEW i \in Players, NEW crashes \in BOOLEAN,
         ReplaceSeat(i, crashes), UNCHANGED playerCount
  PROVE  LobbyInv'
<1> USE DEF LobbyInv
<1>0. Players' = Players /\ LobbyRecords' = LobbyRecords
      /\ deckRow' = [deckRow EXCEPT ![i] = NoDeck]
      /\ deckRow' \in [Players -> Rows]
      /\ UNCHANGED <<submissions, invitation>>
  BY RowShape DEF ReplaceSeat, Players, LobbyRecords, SeatRecords, LobbyTypes
<1>1. CASE crashes
  <2>1. UNCHANGED <<lobby, issued, barred, declared>> BY <1>1 DEF ReplaceSeat
  <2>2. LobbyTypes' BY <2>1, <1>0 DEF LobbyTypes
  <2>3. RowsAreTheirs' BY <2>1, <1>0 DEF RowsAreTheirs, LobbyTypes
  <2>4. ReadyAsDeclared' BY <2>1, <1>0 DEF ReadyAsDeclared, LobbyTypes
  <2> QED BY <2>1, <2>2, <2>3, <2>4, <1>0
          DEF SeatedOnce, ReadyTogether, InvitesInOrder, SeatedByInvite
<1>2. CASE ~crashes
  <2> DEFINE g == lobby.seat[i].who
             s == EmptySeat(issued + 1)
  <2>1. /\ issued < MaxIssued /\ g \in Guests /\ issued' = issued + 1
        /\ lobby.lifecycle = "forming"
        /\ lobby' = Vacated(i)
        /\ barred' = [barred EXCEPT ![g] = issued']
        /\ declared' = [declared EXCEPT ![i] = NoDeck]
    BY <1>2 DEF ReplaceSeat
  <2>2. s \in SeatRecords /\ s.who = Unseated /\ s.ready = FALSE
    BY <2>1 DEF EmptySeat, SeatRecords, LobbyTypes
  <2>3. /\ lobby' = [lobby EXCEPT !.seat = [lobby.seat EXCEPT ![i] = s],
                                  !.admission = issued + 1, !.admissionOpen = TRUE]
        /\ lobby.seat \in [Players -> SeatRecords]
    BY <2>1 DEF Vacated, LobbyTypes, LobbyRecords
  <2> HIDE DEF s, g
  <2> DEFINE seat == [lobby.seat EXCEPT ![i] = s]
  <2>31. /\ seat \in [Players -> SeatRecords] /\ seat[i] = s
         /\ \A j \in Players : j # i => seat[j] = lobby.seat[j]
    BY <2>2, <2>3
  <2>32. issued + 1 \in 0..MaxIssued BY <2>1 DEF LobbyTypes
  <2> HIDE DEF seat
  <2>33. /\ lobby' \in LobbyRecords /\ lobby'.lifecycle = "forming"
         /\ lobby'.seat = seat /\ lobby'.admission = issued + 1
    BY <2>1, <2>3, <2>31, <2>32 DEF LobbyTypes, LobbyRecords, seat
  <2>4. /\ lobby' \in LobbyRecords /\ lobby'.lifecycle = "forming"
        /\ lobby'.seat[i] = s /\ lobby'.admission = issued + 1
        /\ \A j \in Players : j # i => lobby'.seat[j] = lobby.seat[j]
    BY <2>31, <2>33
  <2>5. LobbyTypes'
    BY <2>1, <2>4, <1>0, RowShape DEF LobbyTypes
  <2>6. SeatedOnce' BY <2>2, <2>4, <1>0 DEF SeatedOnce
  <2>7. RowsAreTheirs' BY <2>4, <1>0 DEF RowsAreTheirs, LobbyTypes
  <2>8. ReadyTogether' BY <2>4 DEF ReadyTogether
  <2>9. ReadyAsDeclared'
    BY <2>1, <2>2, <2>4, <1>0 DEF ReadyAsDeclared, LobbyTypes
  <2>10. InvitesInOrder'
    BY <2>1, <2>4 DEF InvitesInOrder, LobbyTypes, LobbyRecords
  <2>11. \A j \in Players : j # i => lobby.seat[j].who # g
    BY <2>1 DEF SeatedOnce, g
  <2>12. SeatedByInvite'
    BY <2>1, <2>2, <2>4, <2>11, <1>0 DEF SeatedByInvite, LobbyTypes
  <2> QED BY <2>5, <2>6, <2>7, <2>8, <2>9, <2>10, <2>12
<1> QED BY <1>1, <1>2

LEMMA ResolveKeeps ==
  ASSUME LobbyInv, NEW sub \in submissions, ResolveDeck(sub), UNCHANGED playerCount
  PROVE  LobbyInv'
<1> USE DEF LobbyInv
<1>0. /\ Players' = Players /\ LobbyRecords' = LobbyRecords
      /\ submissions' = submissions \ {sub}
      /\ UNCHANGED <<issued, invitation, barred, declared>>
  BY DEF ResolveDeck, Players, LobbyRecords, SeatRecords
<1>1. CASE ~StillOpen(sub)
  <2>1. UNCHANGED <<lobby, deckRow>> BY <1>1 DEF ResolveDeck
  <2>2. LobbyTypes' BY <2>1, <1>0 DEF LobbyTypes
  <2> QED BY <2>1, <2>2, <1>0 DEF SeatedOnce, RowsAreTheirs, ReadyTogether,
              ReadyAsDeclared, InvitesInOrder, SeatedByInvite
<1>2. CASE StillOpen(sub)
  <2> DEFINE i == sub.seat
             s == [lobby.seat[i] EXCEPT !.acceptedDeck = TRUE, !.ready = FALSE]
             row == [who |-> sub.who, deck |-> sub.deck]
  <2>1. /\ i \in Players /\ row \in Rows /\ row.who = lobby.seat[i].who
    BY <1>2, RowShape DEF StillOpen, LobbyTypes
  <2>2. s \in SeatRecords /\ s.who = lobby.seat[i].who /\ s.ready = FALSE
    <3>1. lobby.seat[i] \in SeatRecords BY <2>1 DEF LobbyTypes, LobbyRecords
    <3> QED BY <3>1 DEF SeatRecords
  <2>3. /\ deckRow' = [deckRow EXCEPT ![i] = row]
        /\ lobby' = WithSeats([lobby.seat EXCEPT ![i] = s])
    <3>1. lobby.seat \in [Players -> SeatRecords] BY DEF LobbyTypes, LobbyRecords
    <3>2. [lobby.seat EXCEPT ![i].acceptedDeck = TRUE, ![i].ready = FALSE]
            = [lobby.seat EXCEPT ![i] = s]
      BY <3>1, <2>1 DEF SeatRecords
    <3> QED BY <1>2, <3>2 DEF ResolveDeck
  <2> HIDE DEF i, s, row
  <2>4. /\ lobby' \in LobbyRecords /\ lobby'.seat[i] = s
        /\ \A j \in Players : j # i => lobby'.seat[j] = lobby.seat[j]
        /\ lobby'.admission = lobby.admission /\ ReadyTogether'
    BY <2>1, <2>2, <2>3, Reseated
  <2>5. deckRow' \in [Players -> Rows] /\ deckRow'[i] = row
        /\ \A j \in Players : j # i => deckRow'[j] = deckRow[j]
    BY <2>1, <2>3 DEF LobbyTypes
  <2>6. LobbyTypes' BY <2>4, <2>5, <1>0 DEF LobbyTypes
  <2>7. SeatedOnce' BY <2>1, <2>2, <2>4, <1>0 DEF SeatedOnce
  <2>8. RowsAreTheirs' BY <2>1, <2>2, <2>4, <2>5, <1>0 DEF RowsAreTheirs
  <2>9. ReadyAsDeclared' BY <2>2, <2>4, <2>5, <1>0 DEF ReadyAsDeclared
  <2>10. InvitesInOrder' BY <2>4, <1>0 DEF InvitesInOrder
  <2>11. SeatedByInvite' BY <2>2, <2>4, <1>0 DEF SeatedByInvite
  <2> QED BY <2>4, <2>6, <2>7, <2>8, <2>9, <2>10, <2>11
<1> QED BY <1>1, <1>2

LEMMA ReadyKeeps ==
  ASSUME LobbyInv, NEW i \in Players, NEW ready \in BOOLEAN,
         SetSeatReady(i, ready), UNCHANGED playerCount
  PROVE  LobbyInv'
<1> USE DEF LobbyInv
<1> DEFINE s == [lobby.seat[i] EXCEPT !.ready = ready]
<1>0. /\ Players' = Players /\ LobbyRecords' = LobbyRecords
      /\ UNCHANGED <<deckRow, submissions, issued, invitation, barred>>
      /\ declared' = [declared EXCEPT ![i] = IF ready THEN deckRow[i] ELSE NoDeck]
  BY DEF SetSeatReady, Players, LobbyRecords, SeatRecords
<1>1. s \in SeatRecords /\ s.who = lobby.seat[i].who /\ s.ready = ready
  BY DEF LobbyTypes, LobbyRecords, SeatRecords
<1>2. lobby' = WithSeats([lobby.seat EXCEPT ![i] = s])
  BY DEF SetSeatReady
<1> HIDE DEF s
<1>3. /\ lobby' \in LobbyRecords /\ lobby'.seat[i] = s
      /\ \A j \in Players : j # i => lobby'.seat[j] = lobby.seat[j]
      /\ lobby'.admission = lobby.admission /\ ReadyTogether'
  BY <1>1, <1>2, Reseated
<1>4. LobbyTypes' BY <1>0, <1>3, RowShape DEF LobbyTypes
<1>5. SeatedOnce' BY <1>0, <1>1, <1>3 DEF SeatedOnce
<1>6. RowsAreTheirs' BY <1>0, <1>1, <1>3 DEF RowsAreTheirs
<1>7. ReadyAsDeclared' BY <1>0, <1>1, <1>3 DEF ReadyAsDeclared, LobbyTypes
<1>8. InvitesInOrder' BY <1>0, <1>3 DEF InvitesInOrder
<1>9. SeatedByInvite' BY <1>0, <1>1, <1>3 DEF SeatedByInvite
<1> QED BY <1>3, <1>4, <1>5, <1>6, <1>7, <1>8, <1>9

LEMMA LobbyKeeps ==
  ASSUME LobbyInv, LobbyNext, UNCHANGED playerCount
  PROVE  LobbyInv'
<1>0. Seats = Players /\ Players' = Players /\ LobbyRecords' = LobbyRecords
      /\ lobby.seat \in [Players -> SeatRecords]
  BY SeatsArePlayers DEF LobbyInv, Players, LobbyRecords, SeatRecords, LobbyTypes
<1>1. ASSUME UNCHANGED <<deckRow, declared, barred>>,
             lobby'.seat = lobby.seat, LobbyTypes', ReadyTogether',
             InvitesInOrder', SeatedByInvite'
      PROVE  LobbyInv'
  BY <1>0, <1>1 DEF LobbyInv, SeatedOnce, RowsAreTheirs, ReadyAsDeclared
<1>2. ASSUME NEW g \in Guests, Invite(g) PROVE LobbyInv'
  <2>1. /\ UNCHANGED <<lobby, deckRow, submissions, issued, barred, declared>>
        /\ invitation' = [invitation EXCEPT ![g] = lobby.admission]
    BY <1>2 DEF Invite
  <2>2. LobbyTypes' BY <2>1, <1>0 DEF LobbyInv, LobbyTypes, LobbyRecords
  <2>3. SeatedByInvite'
    BY <2>1, <1>0 DEF LobbyInv, SeatedByInvite, InvitesInOrder, LobbyTypes
  <2> QED BY <1>0, <1>1, <2>1, <2>2, <2>3 DEF LobbyInv, ReadyTogether, InvitesInOrder
<1>3. CASE RotateAdmission
  <2>1. /\ UNCHANGED <<deckRow, submissions, invitation, barred, declared>>
        /\ lobby.lifecycle = "forming" /\ issued < MaxIssued /\ issued' = issued + 1
        /\ lobby' = [lobby EXCEPT !.admission = issued', !.admissionOpen = TRUE]
    BY <1>3 DEF RotateAdmission
  <2>2. issued' \in 0..MaxIssued BY <2>1 DEF LobbyInv, LobbyTypes
  <2>3. /\ lobby' \in LobbyRecords /\ lobby'.seat = lobby.seat
        /\ lobby'.admission = issued + 1 /\ lobby'.lifecycle = "forming"
    BY <2>1, <2>2 DEF LobbyInv, LobbyTypes, LobbyRecords
  <2>4. LobbyTypes' BY <2>1, <2>2, <2>3, <1>0 DEF LobbyInv, LobbyTypes
  <2>5. InvitesInOrder'
    BY <2>1, <2>3 DEF LobbyInv, InvitesInOrder, LobbyTypes, LobbyRecords
  <2> QED BY <1>0, <1>1, <2>1, <2>3, <2>4, <2>5
          DEF LobbyInv, ReadyTogether, SeatedByInvite
<1>4. CASE CloseAdmission \/ HostLeaves
  <2>1. /\ UNCHANGED <<deckRow, submissions, issued, invitation, barred, declared>>
        /\ lobby' \in LobbyRecords /\ lobby'.seat = lobby.seat
        /\ lobby'.admission = lobby.admission /\ lobby'.lifecycle # "ready"
    BY <1>4 DEF CloseAdmission, HostLeaves, LobbyInv, LobbyTypes, LobbyRecords
  <2>2. LobbyTypes' BY <2>1, <1>0 DEF LobbyInv, LobbyTypes
  <2> QED BY <1>0, <1>1, <2>1, <2>2
          DEF LobbyInv, ReadyTogether, InvitesInOrder, SeatedByInvite
<1>5. ASSUME UNCHANGED <<lobby, deckRow, issued, invitation, barred, declared>>,
             submissions' \subseteq submissions \union
               [who : Members, seat : Players, cap : 0..MaxIssued, deck : Decks]
      PROVE  LobbyInv'
  <2>1. LobbyTypes' BY <1>5, <1>0 DEF LobbyInv, LobbyTypes
  <2> QED BY <1>0, <1>1, <1>5, <2>1
          DEF LobbyInv, ReadyTogether, InvitesInOrder, SeatedByInvite
<1>6. ASSUME NEW p \in Members, NEW deck \in Decks, SubmitDeck(p, deck)
      PROVE  LobbyInv'
  <2>1. PICK i \in Players : submissions' = submissions \union
            {[who |-> p, seat |-> i, cap |-> lobby.seat[i].cap, deck |-> deck]}
    BY <1>0, <1>6 DEF SubmitDeck, SeatOf
  <2>2. lobby.seat[i].cap \in 0..MaxIssued BY <1>0 DEF SeatRecords
  <2> QED BY <1>5, <1>6, <2>1, <2>2 DEF SubmitDeck
<1>7. ASSUME NEW sub \in submissions, RefuseDeck(sub) PROVE LobbyInv'
  BY <1>5, <1>7 DEF RefuseDeck
<1> QED BY <1>0, <1>2, <1>3, <1>4, <1>6, <1>7, ClaimKeeps, ReplaceKeeps,
           ResolveKeeps, ReadyKeeps DEF LobbyNext

-----------------------------------------------------------------------------
(* The whole: the table is dealt what was declared, and until the pregame is
   complete nobody has a socket and everybody counts as present. *)

Dealt == Started => /\ game = declared
                    /\ \A i \in Players : game[i].who = lobby.seat[i].who
AllPresent ==
  /\ Started /\ table.phase # "complete" => present = Players
  /\ sockets # {} => Started /\ table.phase = "complete"

Inv == LobbyInv /\ Dealt /\ AllPresent

(* Once the table is started the lobby rests, and nothing but Start starts it. *)
LEMMA StartedRests ==
  ASSUME LobbyInv, LobbyNext, UNCHANGED playerCount
  PROVE  /\ Started' <=> Started
         /\ Started => UNCHANGED <<lobby, declared>>
<1>0. Seats = Players /\ lobby \in LobbyRecords
  BY SeatsArePlayers DEF LobbyInv, LobbyTypes
<1>1. ASSUME NEW seat, lobby' = WithSeats(seat) PROVE lobby'.lifecycle \in {"forming", "ready"}
  BY <1>0, <1>1 DEF WithSeats, LobbyRecords
<1>2. ASSUME NEW g \in Guests, Invite(g) \/ ClaimSeat(g)
      PROVE  UNCHANGED <<lobby, declared>> \/ (~Started /\ ~Started')
  BY <1>1, <1>2 DEF Invite, ClaimSeat, Started
<1>3. CASE RotateAdmission \/ CloseAdmission \/ HostLeaves
  BY <1>0, <1>3 DEF RotateAdmission, CloseAdmission, HostLeaves, Live, Started, LobbyRecords
<1>4. ASSUME NEW i \in Players, NEW crashes \in BOOLEAN, ReplaceSeat(i, crashes)
      PROVE  ~Started /\ ~Started'
  BY <1>0, <1>4 DEF ReplaceSeat, Vacated, Started, LobbyRecords
<1>5. ASSUME NEW p \in Members, NEW deck \in Decks, SubmitDeck(p, deck)
      PROVE  UNCHANGED <<lobby, declared>>
  BY <1>5 DEF SubmitDeck
<1>6. ASSUME NEW s \in submissions, ResolveDeck(s) \/ RefuseDeck(s)
      PROVE  UNCHANGED <<lobby, declared>> \/ (~Started /\ ~Started')
  BY <1>1, <1>6 DEF ResolveDeck, RefuseDeck, StillOpen, Started
<1>7. ASSUME NEW i \in Players, NEW ready \in BOOLEAN, SetSeatReady(i, ready)
      PROVE  ~Started /\ ~Started'
  BY <1>1, <1>7 DEF SetSeatReady, Live, Started
<1>8. UNCHANGED <<lobby, declared>> => (Started' <=> Started) BY DEF Started
<1> QED BY <1>0, <1>2, <1>3, <1>4, <1>5, <1>6, <1>7, <1>8 DEF LobbyNext

LEMMA InitInv == Init => Inv
<1> SUFFICES ASSUME Init PROVE Inv OBVIOUS
<1>1. playerCount \in {2, 4} /\ Players = 1..playerCount
  BY DEF Init, PlayerCounts, Players
<1>2. CASE playerCount = 2
  <2>1. LobbyInit(2) /\ game = <<>> /\ present = {} /\ sockets = {}
    BY <1>2 DEF Init
  <2>2. /\ lobby.lifecycle = "forming" /\ lobby.admission = 0
        /\ lobby.seat \in [Players -> SeatRecords]
        /\ lobby \in LobbyRecords
        /\ \A i \in Players : /\ lobby.seat[i].who = IF i = 1 THEN Host ELSE Unseated
                              /\ ~lobby.seat[i].ready
    <3> DEFINE seat == [i \in Players |->
                          [EmptySeat(0) EXCEPT !.who = IF i = 1 THEN Host ELSE Unseated]]
    <3>1. lobby = [lifecycle |-> "forming", admissionOpen |-> TRUE, admission |-> 0,
                   seat |-> seat]
      BY <1>1, <1>2, <2>1 DEF LobbyInit, LobbyOf
    <3>2. \A i \in Players : /\ seat[i] \in SeatRecords /\ ~seat[i].ready
                            /\ seat[i].who = IF i = 1 THEN Host ELSE Unseated
      <4>1. TAKE i \in Players
      <4>2. seat[i] = [EmptySeat(0) EXCEPT !.who = IF i = 1 THEN Host ELSE Unseated]
        OBVIOUS
      <4>3. 0 \in 0..MaxIssued OBVIOUS
      <4> QED BY <4>2, <4>3 DEF EmptySeat, SeatRecords
    <3>3. seat \in [Players -> SeatRecords] BY <3>2
    <3> HIDE DEF seat
    <3> QED BY <3>1, <3>2, <3>3 DEF LobbyRecords
  <2>3. /\ deckRow = [i \in Players |-> NoDeck] /\ declared = [i \in Players |-> NoDeck]
        /\ submissions = {} /\ issued = 0
        /\ invitation = [g \in Guests |-> 0] /\ barred = [g \in Guests |-> 0]
    BY <1>1, <1>2, <2>1 DEF LobbyInit
  <2>4. LobbyTypes BY <1>1, <2>2, <2>3, RowShape DEF LobbyTypes, PlayerCounts
  <2> QED BY <2>1, <2>2, <2>3, <2>4
       DEF Inv, LobbyInv, SeatedOnce, RowsAreTheirs, ReadyTogether, ReadyAsDeclared,
           InvitesInOrder, SeatedByInvite, Dealt, AllPresent, Started
<1>3. CASE playerCount # 2
  <2>0. StartedTable(playerCount) /\ sockets = {} BY <1>3 DEF Init
  <2>1. PICK who \in [Players -> Members], deck \in Decks :
          /\ \A i, j \in Players : who[i] = who[j] => i = j
          /\ lobby = [lifecycle |-> "started", admissionOpen |-> FALSE, admission |-> 0,
                seat |-> [i \in Players |-> [who |-> who[i], cap |-> 0,
                                          acceptedDeck |-> TRUE, ready |-> TRUE]]]
          /\ deckRow = [i \in Players |-> [who |-> who[i], deck |-> deck]]
    BY ZenonT(40), <2>0 DEF StartedTable, Players
  <2>2. /\ declared = deckRow /\ game = deckRow
        /\ submissions = {} /\ issued = 0 /\ present = Players
        /\ invitation = [g \in Guests |-> 0] /\ barred = [g \in Guests |-> 0]
    BY <1>1, <2>0 DEF StartedTable
  <2>3. LobbyTypes
    BY <1>1, <2>1, <2>2, RowShape
       DEF LobbyTypes, PlayerCounts, LobbyRecords, SeatRecords
  <2> QED BY <2>0, <2>1, <2>2, <2>3
       DEF Inv, LobbyInv, SeatedOnce, RowsAreTheirs, ReadyTogether, ReadyAsDeclared,
           InvitesInOrder, SeatedByInvite, Dealt, AllPresent, Started
<1> QED BY <1>2, <1>3

LEMMA StartKeeps == ASSUME Inv, Start PROVE Inv'
<1>0. Seats = Players /\ Players' = Players /\ LobbyRecords' = LobbyRecords
  BY SeatsArePlayers
     DEF Start, Inv, LobbyInv, pregameVars, Players, LobbyRecords, SeatRecords
<1>1. /\ lobby.lifecycle = "ready" /\ \A i \in Players : deckRow[i] # NoDeck
      /\ lobby' = [lobby EXCEPT !.lifecycle = "started", !.admissionOpen = FALSE]
      /\ game' = deckRow /\ present' = Players /\ submissions' = {}
      /\ UNCHANGED <<deckRow, issued, invitation, barred, declared, playerCount,
                     table, sockets>>
  BY <1>0 DEF Start, pregameVars
<1>2. /\ lobby' \in LobbyRecords /\ lobby'.seat = lobby.seat
      /\ lobby'.admission = lobby.admission /\ lobby'.lifecycle = "started"
  BY <1>1 DEF Inv, LobbyInv, LobbyTypes, LobbyRecords
<1>3. LobbyTypes' BY <1>0, <1>1, <1>2 DEF Inv, LobbyInv, LobbyTypes
<1>4. LobbyInv'
  BY <1>0, <1>1, <1>2, <1>3
     DEF Inv, LobbyInv, SeatedOnce, RowsAreTheirs, ReadyTogether, ReadyAsDeclared,
         InvitesInOrder, SeatedByInvite
<1>5. Dealt'
  <2>1. \A i \in Players : deckRow[i] = declared[i]
    BY <1>1 DEF Inv, LobbyInv, ReadyTogether, ReadyAsDeclared
  <2>2. deckRow = declared BY <2>1 DEF Inv, LobbyInv, LobbyTypes
  <2> QED BY <2>2, <1>0, <1>1, <1>2 DEF Dealt, Inv, LobbyInv, RowsAreTheirs
<1>6. AllPresent'
  BY <1>0, <1>1, <1>2 DEF AllPresent, Inv, Started
<1> QED BY <1>4, <1>5, <1>6 DEF Inv

(* The pregame leaves the lobby alone, has sockets only behind it, and no
   command for a table that is complete. *)
LEMMA CommandsBeforeComplete ==
  ASSUME NEW p \in Players, PregameCommand(p) PROVE table.phase # "complete"
BY DEF PregameCommand, ConfirmCommanders, DeclareMulligan, SubmitMulliganBottom,
       RecordManualAction, CompletePregameActions, SetReady

LEMMA PregameKeeps ==
  ASSUME Inv, NEW p \in Players, ApplyPregameCommand(p) PROVE Inv' /\ present' = present
<1>0. UNCHANGED <<lobby, deckRow, submissions, issued, invitation, barred, declared,
                  playerCount, game, sockets>>
      /\ Started /\ table.phase # "complete"
      /\ present' = IF table'.phase = "complete" THEN Players ELSE present
  BY CommandsBeforeComplete DEF ApplyPregameCommand, lobbyVars
<1>1. Players' = Players /\ LobbyRecords' = LobbyRecords /\ Started'
  BY <1>0 DEF Players, LobbyRecords, SeatRecords, Started
<1>2. LobbyInv'
  BY <1>0, <1>1
     DEF Inv, LobbyInv, LobbyTypes, SeatedOnce, RowsAreTheirs, ReadyTogether,
         ReadyAsDeclared, InvitesInOrder, SeatedByInvite
<1>3. Dealt' BY <1>0, <1>1 DEF Inv, Dealt
<1>4. present' = present /\ AllPresent' BY <1>0, <1>1 DEF Inv, AllPresent
<1> QED BY <1>2, <1>3, <1>4 DEF Inv

LEMMA NextInv == Inv /\ [Next]_vars => Inv'
<1> SUFFICES ASSUME Inv, [Next]_vars PROVE Inv' OBVIOUS
<1>1. ASSUME UNCHANGED <<lobbyVars, pregameVars, game>>,
             AllPresent' PROVE Inv'
  <2>1. Players' = Players /\ LobbyRecords' = LobbyRecords
        /\ UNCHANGED <<lobby, deckRow, submissions, issued, invitation, barred,
                       declared, playerCount, table, game>>
    BY <1>1 DEF lobbyVars, pregameVars, Players, LobbyRecords, SeatRecords
  <2> QED BY <1>1, <2>1
     DEF Inv, LobbyInv, LobbyTypes, SeatedOnce, RowsAreTheirs, ReadyTogether,
         ReadyAsDeclared, InvitesInOrder, SeatedByInvite, Dealt, Started
<1>2. CASE LobbyNext /\ UNCHANGED <<pregameVars, game, present, sockets>>
  <2>1. UNCHANGED <<playerCount, table, game, present, sockets>> /\ Players' = Players
    BY <1>2 DEF pregameVars, Players
  <2>2. LobbyInv' BY <1>2, <2>1, LobbyKeeps DEF Inv
  <2>3. Dealt' /\ AllPresent'
    BY <1>2, <2>1, StartedRests DEF Inv, Dealt, AllPresent
  <2> QED BY <2>2, <2>3 DEF Inv
<1>3. CASE Start BY <1>3, StartKeeps
<1>4. ASSUME NEW p \in Players, OpenSocket(p) \/ CloseSocket(p) PROVE Inv'
  <2>1. UNCHANGED <<lobbyVars, pregameVars, game>> /\ Started /\ table.phase = "complete"
    BY <1>4 DEF OpenSocket, CloseSocket, AdmitsSockets, Inv, AllPresent
  <2>2. AllPresent'
    BY <2>1 DEF AllPresent, Started, lobbyVars, pregameVars
  <2> QED BY <1>1, <2>1, <2>2
<1>5. CASE UNCHANGED vars
  BY <1>1, <1>5 DEF vars, Inv, AllPresent, Started, lobbyVars, pregameVars, Players
<1> QED BY <1>2, <1>3, <1>4, <1>5, PregameKeeps DEF Next

LEMMA Always == Spec => []Inv
BY InitInv, NextInv, PTL DEF Spec

-----------------------------------------------------------------------------
(* The pregame *)

PlayerRecords ==
  [commanderConfirmed : BOOLEAN, mulliganDecision : Decisions,
   mulligansTaken : 0..MaxMulligans, bottomCountRequired : 0..OpeningHand,
   pendingBottom : 0..OpeningHand, manualActionCount : 0..ManualLimit,
   manualActionsComplete : BOOLEAN, ready : BOOLEAN]
(* The row of the pregame, its replay and the Core's root, by their parts. *)
Row(ph, c, k, pl) == [phase |-> ph, current |-> c, round |-> k, player |-> pl]
Replay(ph, c, k, pl, h) ==
  [phase |-> ph, current |-> c, round |-> k, player |-> pl, hand |-> h]
Root(h, m) == [hand |-> h, mulligans |-> m]

(* A mulligan costs no more than the hand, nor than the mulligans taken. *)
LEMMA Counting ==
  ASSUME playerCount \in PlayerCounts
  PROVE  /\ MaxMulligans \in Nat /\ MaxMulligans >= 1
         /\ \A k \in 0..MaxMulligans :
              /\ BottomCount(k) \in 0..OpeningHand
              /\ BottomCount(k) <= k
         /\ BottomCount(0) = 0
BY PregameAssumption DEF PlayerCounts, MaxMulligans, BottomCount

(* The first of some players is one of them. *)
LEMMA FirstOf ==
  ASSUME playerCount \in PlayerCounts, NEW S \in SUBSET Players
  PROVE  /\ S # {} => First(S) \in S
         /\ S = {} => First(S) = Nobody
<1>1. S \subseteq {1, 2, 3, 4} BY DEF PlayerCounts, Players
<1>2. ASSUME S # {} PROVE \E p \in S : \A q \in S : p <= q
  <2>1. CASE 1 \in S BY <1>1, <2>1
  <2>2. CASE 1 \notin S /\ 2 \in S BY <1>1, <2>2
  <2>3. CASE 1 \notin S /\ 2 \notin S /\ 3 \in S BY <1>1, <2>3
  <2>4. CASE 4 \in S /\ S \subseteq {4} BY <2>4
  <2>5. 1 \in S \/ 2 \in S \/ 3 \in S \/ (4 \in S /\ S \subseteq {4}) BY <1>1, <1>2
  <2> QED BY <1>1, <2>5, <2>1, <2>2, <2>3, <2>4
<1> QED BY <1>2 DEF First


WhoWaits(pl) ==
  {p \in Players : /\ pl[p].bottomCountRequired > 0
                   /\ pl[p].mulliganDecision = "mulligan"
                   /\ pl[p].pendingBottom # pl[p].bottomCountRequired}

(* What the operations do to a row and to its replay, by parts. *)
LEMMA RowTurns ==
  ASSUME NEW a, NEW b, NEW k, NEW pl, NEW c
  PROVE  [Row(a, b, k, pl) EXCEPT !.current = c] = Row(a, c, k, pl)
BY DEF Row

LEMMA RowThen ==
  ASSUME NEW a, NEW b, NEW k, NEW pl, NEW ph, NEW c
  PROVE  Then(Row(a, b, k, pl), ph, c) = Row(ph, c, k, pl)
<1>1. Then(Row(a, b, k, pl), ph, c)
        = [[Row(a, b, k, pl) EXCEPT !.phase = ph] EXCEPT !.current = c]
  BY Zenon DEF Then
<1>2. [Row(a, b, k, pl) EXCEPT !.phase = ph] = Row(ph, b, k, pl) BY DEF Row
<1>3. [Row(ph, b, k, pl) EXCEPT !.current = c] = Row(ph, c, k, pl) BY RowTurns
<1> QED BY Zenon, <1>1, <1>2, <1>3

LEMMA ReplayTurns ==
  ASSUME NEW a, NEW b, NEW k, NEW pl, NEW h, NEW c
  PROVE  [Replay(a, b, k, pl, h) EXCEPT !.current = c] = Replay(a, c, k, pl, h)
BY DEF Replay

LEMMA ReplayMoves ==
  ASSUME NEW a, NEW b, NEW k, NEW pl, NEW h, NEW ph
  PROVE  [Replay(a, b, k, pl, h) EXCEPT !.phase = ph] = Replay(ph, b, k, pl, h)
BY DEF Replay

LEMMA ReplayThen ==
  ASSUME NEW a, NEW b, NEW k, NEW pl, NEW h, NEW ph, NEW c
  PROVE  Then(Replay(a, b, k, pl, h), ph, c) = Replay(ph, c, k, pl, h)
<1>1. Then(Replay(a, b, k, pl, h), ph, c)
        = [[Replay(a, b, k, pl, h) EXCEPT !.phase = ph] EXCEPT !.current = c]
  BY Zenon DEF Then
<1>2. [Replay(a, b, k, pl, h) EXCEPT !.phase = ph] = Replay(ph, b, k, pl, h)
  BY ReplayMoves
<1>3. [Replay(ph, b, k, pl, h) EXCEPT !.current = c] = Replay(ph, c, k, pl, h)
  BY ReplayTurns
<1> QED BY Zenon, <1>1, <1>2, <1>3

(* The players a row or a replay picks depend on the player records only. *)
SameThose(t, pl) ==
  /\ Those(t, "commanderConfirmed", FALSE)
       = {x \in Players : pl[x].commanderConfirmed = FALSE}
  /\ \A d \in Decisions :
       Those(t, "mulliganDecision", d) = {x \in Players : pl[x].mulliganDecision = d}
  /\ Those(t, "manualActionsComplete", FALSE)
       = {x \in Players : pl[x].manualActionsComplete = FALSE}
  /\ \A b \in BOOLEAN : Those(t, "ready", b) = {x \in Players : pl[x].ready = b}

LEMMA ThoseOf == ASSUME NEW t, NEW pl, t.player = pl PROVE SameThose(t, pl)
BY Zenon DEF Those, SameThose

LEMMA RowThose ==
  ASSUME NEW a, NEW b, NEW k, NEW pl PROVE SameThose(Row(a, b, k, pl), pl)
BY ThoseOf DEF Row

LEMMA ReplayThose ==
  ASSUME NEW a, NEW b, NEW k, NEW pl, NEW h
  PROVE  SameThose(Replay(a, b, k, pl, h), pl)
BY ThoseOf DEF Replay

LEMMA RowWaits ==
  ASSUME NEW a, NEW b, NEW k, NEW pl
  PROVE  Waiting(Row(a, b, k, pl)) = WhoWaits(pl)
<1>1. Row(a, b, k, pl).player = pl BY DEF Row
<1> QED BY Zenon, <1>1 DEF Waiting, WhoWaits

LEMMA ReplayWaits ==
  ASSUME NEW a, NEW b, NEW k, NEW pl, NEW h
  PROVE  Waiting(Replay(a, b, k, pl, h)) = WhoWaits(pl)
<1>1. Replay(a, b, k, pl, h).player = pl BY DEF Replay
<1> QED BY Zenon, <1>1 DEF Waiting, WhoWaits

(* What the record of one player keeps to, with the hand and the mulligans the
   Core counts: nothing before the deal; once a mulligan is declared the record
   is one ahead of the Core until the wave deals; in a wave all who wait have
   taken as many mulligans as there were rounds, so that all or none of them
   owe cards; a hand that is kept or asked about again has been paid for. *)
Untouched(s, h, m) ==
  /\ s.mulliganDecision = "pending" /\ s.mulligansTaken = 0
  /\ s.bottomCountRequired = 0 /\ s.pendingBottom = 0 /\ h = 0 /\ m = 0
Paid(s, h, m, taken) ==
  /\ m = taken /\ s.bottomCountRequired = BottomCount(taken)
  /\ s.pendingBottom = 0 /\ h = OpeningHand - BottomCount(taken)

Declares(k, s, h, m) ==
  IF s.mulliganDecision = "mulligan"
  THEN s.mulligansTaken = k + 1 /\ Paid(s, h, m, s.mulligansTaken - 1)
  ELSE /\ s.mulliganDecision = "pending" => s.mulligansTaken = k
       /\ Paid(s, h, m, s.mulligansTaken)
Bottoms(k, s, h, m) ==
  IF s.mulliganDecision = "mulligan"
  THEN /\ s.mulligansTaken = k /\ m = k
       /\ s.bottomCountRequired = BottomCount(k) /\ s.bottomCountRequired > 0
       /\ s.pendingBottom \in {0, s.bottomCountRequired} /\ h = OpeningHand
  ELSE s.mulliganDecision = "keep" /\ Paid(s, h, m, s.mulligansTaken)
Keeps(s, h, m) == s.mulliganDecision = "keep" /\ Paid(s, h, m, s.mulligansTaken)

SeatFits(ph, k, s, h, m) ==
  /\ ph = "commander-reveal" => Untouched(s, h, m)
  /\ ph # "commander-reveal" => s.commanderConfirmed
  /\ ph = "mulligan-declaration" => Declares(k, s, h, m)
  /\ ph = "mulligan-bottom" => Bottoms(k, s, h, m)
  /\ ph \in {"pregame-actions", "ready", "complete"} => Keeps(s, h, m)
  /\ ph = "complete" => s.ready

TableFits(ph, c, k, pl, h, m) ==
  /\ ph \in Phases /\ c \in Players \union {Nobody} /\ k \in 0..MaxMulligans
  /\ pl \in [Players -> PlayerRecords]
  /\ h \in [Players -> 0..OpeningHand] /\ m \in [Players -> 0..MaxMulligans]
  /\ ph \in {"ready", "complete"} <=> c = Nobody
  /\ ph = "commander-reveal" => k = 0
  /\ ph = "mulligan-bottom" => c \in WhoWaits(pl)
  /\ \A x \in Players : SeatFits(ph, k, pl[x], h[x], m[x])

(* The row, the Core and the replay have these parts, and the parts fit. *)
At(ph, c, k, pl, h, m) ==
  /\ table = Row(ph, c, k, pl) /\ core = Root(h, m)
  /\ replayed = Replay(ph, c, k, pl, h)
  /\ TableFits(ph, c, k, pl, h, m)

PregameInv ==
  /\ playerCount \in PlayerCounts
  /\ At(table.phase, table.current, table.round, table.player,
        core.hand, core.mulligans)

LEMMA Parts ==
  ASSUME NEW ph, NEW c, NEW k, NEW pl, NEW h, NEW m, At(ph, c, k, pl, h, m)
  PROVE  /\ table.phase = ph /\ table.current = c /\ table.round = k
         /\ table.player = pl /\ core.hand = h /\ core.mulligans = m
         /\ replayed.phase = ph /\ replayed.current = c /\ replayed.round = k
         /\ replayed.player = pl /\ replayed.hand = h
BY DEF At, Row, Root, Replay

(* A step is described by the parts it leaves. *)
LEMMA Moved ==
  ASSUME NEW ph, NEW c, NEW k, NEW pl, NEW h, NEW m,
         playerCount \in PlayerCounts,
         UNCHANGED playerCount, table' = Row(ph, c, k, pl), core' = Root(h, m),
         replayed' = Replay(ph, c, k, pl, h), TableFits(ph, c, k, pl, h, m)
  PROVE  PregameInv'
<1>1. /\ table'.phase = ph /\ table'.current = c /\ table'.round = k /\ table'.player = pl
      /\ core'.hand = h /\ core'.mulligans = m
  BY DEF Row, Root
<1>2. /\ Players' = Players /\ MaxMulligans' = MaxMulligans
      /\ PlayerRecords' = PlayerRecords
  BY DEF Players, MaxMulligans, PlayerRecords
<1>3. \A n : BottomCount(n)' = BottomCount(n) BY DEF BottomCount
<1>4. WhoWaits(pl)' = WhoWaits(pl) BY <1>2 DEF WhoWaits
<1>5. \A s, x, y, n : Paid(s, x, y, n)' <=> Paid(s, x, y, n) BY <1>3 DEF Paid
<1>6. \A s, x, y : SeatFits(ph, k, s, x, y)' <=> SeatFits(ph, k, s, x, y)
  BY <1>3, <1>5 DEF SeatFits, Untouched, Declares, Bottoms, Keeps
<1>7. TableFits(ph, c, k, pl, h, m)' BY <1>2, <1>4, <1>6 DEF TableFits
<1> QED BY <1>1, <1>7 DEF PregameInv, At, Row, Root, Replay


(* One record is written in the row and in the replay alike. *)
LEMMA Written ==
  ASSUME NEW ph, NEW c, NEW k, NEW pl, NEW h, NEW m, At(ph, c, k, pl, h, m),
         NEW p, NEW r
  PROVE  /\ With(table, p, r) = Row(ph, c, k, [pl EXCEPT ![p] = r])
         /\ With(replayed, p, r) = Replay(ph, c, k, [pl EXCEPT ![p] = r], h)
<1>1. table = Row(ph, c, k, pl) /\ replayed = Replay(ph, c, k, pl, h) BY DEF At
<1>2. With(Row(ph, c, k, pl), p, r) = Row(ph, c, k, [pl EXCEPT ![p] = r])
  BY DEF With, Row
<1>3. With(Replay(ph, c, k, pl, h), p, r) = Replay(ph, c, k, [pl EXCEPT ![p] = r], h)
  BY DEF With, Replay
<1> QED BY Zenon, <1>1, <1>2, <1>3

(* One lemma for each operation of the pregame. *)
LEMMA ConfirmKeeps ==
  ASSUME NEW ph, NEW c, NEW k, NEW pl, NEW h, NEW m, At(ph, c, k, pl, h, m),
         playerCount \in PlayerCounts, NEW p \in Players, ConfirmCommanders(p),
         UNCHANGED playerCount
  PROVE  PregameInv'
<1> DEFINE r == [pl[p] EXCEPT !.commanderConfirmed = TRUE]
           q == [pl EXCEPT ![p] = r]
           left == {x \in Players : q[x].commanderConfirmed = FALSE}
           dealt == [x \in Players |-> OpeningHand]
           next == With(table, p, [table.player[p] EXCEPT !.commanderConfirmed = TRUE])
           sim == [replayed EXCEPT !.player[p].commanderConfirmed = TRUE]
<1>1. /\ ph = "commander-reveal" /\ c = p /\ ~pl[p].commanderConfirmed
      /\ TableFits(ph, c, k, pl, h, m) /\ core = Root(h, m)
  BY Parts DEF ConfirmCommanders, MayAct, At
<1>2. /\ pl \in [Players -> PlayerRecords] /\ k = 0
      /\ \A x \in Players : Untouched(pl[x], h[x], m[x])
  BY <1>1 DEF TableFits, SeatFits
<1>3. /\ q \in [Players -> PlayerRecords] /\ q[p].commanderConfirmed
      /\ \A x \in Players : /\ x # p => q[x] = pl[x]
                            /\ Untouched(q[x], h[x], m[x])
  <2>1. r \in PlayerRecords /\ r.commanderConfirmed BY <1>2 DEF PlayerRecords
  <2>2. Untouched(r, h[p], m[p]) BY <1>2 DEF PlayerRecords, Untouched
  <2> HIDE DEF r
  <2> QED BY <1>2, <2>1, <2>2
<1>4. next = Row(ph, c, k, q) /\ sim = Replay(ph, c, k, q, h)
  <2>1. table.player = pl /\ replayed.player = pl BY Parts
  <2>2. next = With(table, p, r) BY Zenon, <2>1
  <2>3. sim = With(replayed, p, [replayed.player[p] EXCEPT !.commanderConfirmed = TRUE])
    BY Zenon DEF With
  <2>4. sim = With(replayed, p, r) BY Zenon, <2>1, <2>3
  <2> HIDE DEF r, next, sim
  <2> QED BY <2>2, <2>4, Written
<1>5. /\ ReplayConfirm(p) = IF left # {} THEN [sim EXCEPT !.current = First(left)]
             ELSE [sim EXCEPT !.phase = "mulligan-declaration", !.current = 1,
                        !.hand = dealt]
      /\ table' = IF left # {} THEN [next EXCEPT !.current = First(left)]
                  ELSE Then(next, "mulligan-declaration", 1)
      /\ core' = IF left # {} THEN core ELSE DealOpeningHands
  <2> HIDE DEF q, left
  <2>1. Those(next, "commanderConfirmed", FALSE) = left
        /\ Those(sim, "commanderConfirmed", FALSE) = left
    <3> HIDE DEF next, sim
    <3>1. SameThose(next, q) /\ SameThose(sim, q)
      BY <1>4, RowThose, ReplayThose
    <3> QED BY Zenon, <3>1 DEF SameThose, left
  <2>2. Admits(p, "commander-reveal") /\ ~replayed.player[p].commanderConfirmed
    BY <1>1, Parts DEF Admits
  <2> QED BY <2>1, <2>2, Zenon DEF ReplayConfirm, ConfirmCommanders
<1> HIDE DEF q, next, sim
<1>6. /\ left \in SUBSET Players
      /\ left = {} => \A x \in Players : q[x].commanderConfirmed
  BY <1>3 DEF PlayerRecords
<1> HIDE DEF left, dealt
<1>7. left # {} => First(left) \in Players BY <1>6, FirstOf
<1>8. CASE left # {}
  <2>1. table' = Row(ph, First(left), k, q) /\ core' = core
    BY <1>4, <1>5, <1>8, RowTurns
  <2>2. replayed' = Replay(ph, First(left), k, q, h)
    BY <1>4, <1>5, <1>8, ReplayTurns DEF ConfirmCommanders
  <2>3. TableFits(ph, First(left), k, q, h, m)
    BY <1>1, <1>3, <1>7, <1>8 DEF TableFits, SeatFits, Nobody, Players
  <2> QED BY <1>1, <2>1, <2>2, <2>3, Moved
<1>9. CASE left = {}
  <2>1. table' = Row("mulligan-declaration", 1, k, q)
    BY <1>4, <1>5, <1>9, RowThen
  <2>2. core' = Root(dealt, m)
    BY <1>1, <1>5, <1>9 DEF DealOpeningHands, Root, dealt
  <2>3. replayed' = Replay("mulligan-declaration", 1, k, q, dealt)
    <3>1. replayed' = [Then(sim, "mulligan-declaration", 1) EXCEPT !.hand = dealt]
      BY Zenon, <1>5, <1>9 DEF ConfirmCommanders, Then
    <3>2. [Replay("mulligan-declaration", 1, k, q, h) EXCEPT !.hand = dealt]
            = Replay("mulligan-declaration", 1, k, q, dealt)
      BY DEF Replay
    <3>3. Then(Replay(ph, c, k, q, h), "mulligan-declaration", 1)
           = Replay("mulligan-declaration", 1, k, q, h)
      BY ReplayThen
    <3> QED BY Zenon, <1>4, <3>1, <3>2, <3>3
  <2>4. TableFits("mulligan-declaration", 1, k, q, dealt, m)
    BY <1>1, <1>2, <1>3, <1>6, <1>9, Counting, PregameAssumption
       DEF TableFits, SeatFits, Phases, Nobody, Players, PlayerCounts, dealt,
           Untouched, Declares, Paid
  <2> QED BY <1>1, <2>1, <2>3, <2>4, <2>2, Moved
<1> QED BY <1>8, <1>9

LEMMA ActionKeeps ==
  ASSUME NEW ph, NEW c, NEW k, NEW pl, NEW h, NEW m, At(ph, c, k, pl, h, m),
         playerCount \in PlayerCounts, NEW p \in Players, RecordManualAction(p),
         UNCHANGED playerCount
  PROVE  PregameInv'
<1> DEFINE r == [pl[p] EXCEPT !.manualActionCount = pl[p].manualActionCount + 1]
           q == [pl EXCEPT ![p] = r]
<1>1. /\ ph = "pregame-actions" /\ c = p /\ ~pl[p].manualActionsComplete
      /\ pl[p].manualActionCount < ManualLimit
      /\ TableFits(ph, c, k, pl, h, m) /\ core' = Root(h, m)
      /\ table.player = pl /\ replayed.player = pl
  BY Parts DEF RecordManualAction, MayAct, At
<1>2. pl \in [Players -> PlayerRecords] BY <1>1 DEF TableFits
<1>3. /\ q \in [Players -> PlayerRecords]
      /\ \A x \in Players : SeatFits(ph, k, q[x], h[x], m[x])
  <2>1. pl[p].manualActionCount + 1 \in 0..ManualLimit
    BY <1>1, <1>2, PregameAssumption DEF PlayerRecords
  <2>2. r \in PlayerRecords BY <1>2, <2>1 DEF PlayerRecords
  <2>3. SeatFits(ph, k, r, h[p], m[p])
    BY <1>1, <1>2, <2>1 DEF TableFits, SeatFits, Keeps, Paid, PlayerRecords
  <2> QED BY <1>1, <1>2, <2>2, <2>3 DEF TableFits
<1>4. table' = Row(ph, c, k, q) /\ replayed' = Replay(ph, c, k, q, h)
  <2>1. Admits(p, "pregame-actions") /\ ~replayed.player[p].manualActionsComplete
        /\ replayed.player[p].manualActionCount < ManualLimit
        /\ ~(replayed.player[p].manualActionCount >= ManualLimit)
    BY <1>1, <1>2, Parts, PregameAssumption DEF Admits, PlayerRecords
  <2>2. /\ table' = [table EXCEPT !.player[p].manualActionCount = @ + 1]
        /\ replayed' = [replayed EXCEPT !.player[p].manualActionCount = @ + 1]
    BY Zenon, <2>1 DEF RecordManualAction, ReplayManualAction
  <2>3. table' = With(table, p, r) /\ replayed' = With(replayed, p, r)
    BY Zenon, <1>1, <2>2 DEF With
  <2> HIDE DEF r
  <2> QED BY <2>3, Written
<1> HIDE DEF q
<1>5. TableFits(ph, c, k, q, h, m) BY <1>1, <1>3 DEF TableFits
<1> QED BY <1>1, <1>4, <1>5, Moved

LEMMA CompleteKeeps ==
  ASSUME NEW ph, NEW c, NEW k, NEW pl, NEW h, NEW m, At(ph, c, k, pl, h, m),
         playerCount \in PlayerCounts, NEW p \in Players, CompletePregameActions(p),
         UNCHANGED playerCount
  PROVE  PregameInv'
<1> DEFINE r == [pl[p] EXCEPT !.manualActionsComplete = TRUE]
           q == [pl EXCEPT ![p] = r]
           left == {x \in Players : q[x].manualActionsComplete = FALSE}
           next == With(table, p, [table.player[p] EXCEPT !.manualActionsComplete = TRUE])
           sim == [replayed EXCEPT !.player[p].manualActionsComplete = TRUE]
<1>1. /\ ph = "pregame-actions" /\ c = p /\ ~pl[p].manualActionsComplete
      /\ TableFits(ph, c, k, pl, h, m) /\ core' = Root(h, m)
      /\ table.player = pl /\ replayed.player = pl
  BY Parts DEF CompletePregameActions, MayAct, At
<1>2. pl \in [Players -> PlayerRecords] BY <1>1 DEF TableFits
<1>3. /\ q \in [Players -> PlayerRecords]
      /\ \A x \in Players : SeatFits(ph, k, q[x], h[x], m[x])
  <2>1. r \in PlayerRecords BY <1>2 DEF PlayerRecords
  <2>2. SeatFits(ph, k, r, h[p], m[p])
    BY <1>1, <1>2 DEF TableFits, SeatFits, Keeps, Paid, PlayerRecords
  <2> QED BY <1>1, <1>2, <2>1, <2>2 DEF TableFits
<1>4. next = Row(ph, c, k, q) /\ sim = Replay(ph, c, k, q, h)
  <2>1. next = With(table, p, r) /\ sim = With(replayed, p, r)
    BY Zenon, <1>1 DEF With
  <2> HIDE DEF r, next, sim
  <2> QED BY <2>1, Written
<1>5. /\ table' = IF left = {} THEN Then(next, "ready", Nobody)
                  ELSE [next EXCEPT !.current = First(left)]
      /\ replayed' = IF left = {} THEN Then(sim, "ready", Nobody)
                     ELSE [sim EXCEPT !.current = First(left)]
  <2> HIDE DEF q, left
  <2>1. Those(next, "manualActionsComplete", FALSE) = left
        /\ Those(sim, "manualActionsComplete", FALSE) = left
    <3> HIDE DEF next, sim
    <3>1. SameThose(next, q) /\ SameThose(sim, q)
      BY <1>4, RowThose, ReplayThose
    <3> QED BY Zenon, <3>1 DEF SameThose, left
  <2>2. Admits(p, "pregame-actions") /\ ~replayed.player[p].manualActionsComplete
    BY <1>1, Parts DEF Admits
  <2> QED BY Zenon, <2>1, <2>2 DEF CompletePregameActions, ReplayComplete, Then
<1>6. left \in SUBSET Players OBVIOUS
<1> HIDE DEF q, next, sim, left
<1>7. CASE left # {}
  <2>1. First(left) \in Players BY <1>6, <1>7, FirstOf
  <2>2. table' = Row(ph, First(left), k, q) BY <1>4, <1>5, <1>7, RowTurns
  <2>3. replayed' = Replay(ph, First(left), k, q, h)
    BY <1>4, <1>5, <1>7, ReplayTurns
  <2>4. TableFits(ph, First(left), k, q, h, m)
    BY <1>1, <1>3, <2>1 DEF TableFits, Nobody, Players
  <2> QED BY <1>1, <2>2, <2>3, <2>4, Moved
<1>8. CASE left = {}
  <2>1. table' = Row("ready", Nobody, k, q) BY <1>4, <1>5, <1>8, RowThen
  <2>2. replayed' = Replay("ready", Nobody, k, q, h)
    BY <1>4, <1>5, <1>8, ReplayThen
  <2>3. TableFits("ready", Nobody, k, q, h, m)
    BY <1>1, <1>3 DEF TableFits, SeatFits, Phases
  <2> QED BY <1>1, <2>1, <2>2, <2>3, Moved
<1> QED BY <1>7, <1>8

LEMMA ReadyingKeeps ==
  ASSUME NEW ph, NEW c, NEW k, NEW pl, NEW h, NEW m, At(ph, c, k, pl, h, m),
         playerCount \in PlayerCounts, NEW p \in Players, NEW ready \in BOOLEAN,
         SetReady(p, ready), UNCHANGED playerCount
  PROVE  PregameInv'
<1> DEFINE r == [pl[p] EXCEPT !.ready = ready]
           q == [pl EXCEPT ![p] = r]
           those == {x \in Players : q[x].ready = TRUE}
           left == {x \in Players : q[x].ready = FALSE}
           next == With(table, p, [table.player[p] EXCEPT !.ready = ready])
           sim == [replayed EXCEPT !.player[p].ready = ready]
<1>1. /\ ph = "ready" /\ pl[p].ready # ready
      /\ TableFits(ph, c, k, pl, h, m) /\ core' = Root(h, m)
      /\ table.player = pl /\ replayed.player = pl
  BY Parts DEF SetReady, MayAct, At
<1>2. pl \in [Players -> PlayerRecords] /\ c = Nobody BY <1>1 DEF TableFits
<1>3. /\ q \in [Players -> PlayerRecords]
      /\ \A x \in Players : SeatFits(ph, k, q[x], h[x], m[x])
  <2>1. r \in PlayerRecords BY <1>2 DEF PlayerRecords
  <2>2. SeatFits(ph, k, r, h[p], m[p])
    BY <1>1, <1>2 DEF TableFits, SeatFits, Keeps, Paid, PlayerRecords
  <2> QED BY <1>1, <1>2, <2>1, <2>2 DEF TableFits
<1>4. next = Row(ph, c, k, q) /\ sim = Replay(ph, c, k, q, h)
  <2>1. next = With(table, p, r) /\ sim = With(replayed, p, r)
    BY Zenon, <1>1 DEF With
  <2> HIDE DEF r, next, sim
  <2> QED BY <2>1, Written
<1>5. /\ table' = IF those = Players THEN Then(next, "complete", Nobody) ELSE next
      /\ replayed' = IF left # {} THEN sim ELSE [sim EXCEPT !.phase = "complete"]
  <2> HIDE DEF q, left, those
  <2>1. Those(next, "ready", TRUE) = those /\ Those(sim, "ready", FALSE) = left
    <3> HIDE DEF next, sim
    <3>1. SameThose(next, q) /\ SameThose(sim, q)
      BY <1>4, RowThose, ReplayThose
    <3> QED BY Zenon, <3>1 DEF SameThose, left, those
  <2>2. Admits(p, "ready") /\ ~(replayed.player[p].ready = ready)
    BY <1>1, Parts DEF Admits
  <2> QED BY Zenon, <2>1, <2>2 DEF SetReady, ReplayReady
<1>6. /\ those = Players <=> left = {}
      /\ left = {} => \A x \in Players : q[x].ready
  BY <1>3 DEF PlayerRecords
<1> HIDE DEF q, next, sim, left, those
<1>7. CASE left # {}
  <2>1. TableFits(ph, c, k, q, h, m) BY <1>1, <1>3 DEF TableFits
  <2> QED BY <1>1, <1>4, <1>5, <1>6, <1>7, <2>1, Moved
<1>8. CASE left = {}
  <2>1. table' = Row("complete", Nobody, k, q) BY <1>4, <1>5, <1>6, <1>8, RowThen
  <2>2. replayed' = Replay("complete", Nobody, k, q, h)
    BY <1>2, <1>4, <1>5, <1>8, ReplayMoves
  <2>3. TableFits("complete", Nobody, k, q, h, m)
    BY <1>1, <1>3, <1>6, <1>8 DEF TableFits, SeatFits, Phases
  <2> QED BY <1>1, <2>1, <2>2, <2>3, Moved
<1> QED BY <1>7, <1>8

(* The wave a mulligan starts, in the row and in its replay. *)
Waved(pl, S) ==
  [x \in Players |->
     IF x \notin S THEN pl[x]
     ELSE [pl[x] EXCEPT
             !.bottomCountRequired = BottomCount(pl[x].mulligansTaken),
             !.pendingBottom = 0,
             !.mulliganDecision =
               IF BottomCount(pl[x].mulligansTaken) = 0 THEN "pending" ELSE "mulligan"]]
Redealt(h, S) == [x \in Players |-> IF x \in S THEN OpeningHand ELSE h[x]]

(* Who owes cards, who is asked again, who took a mulligan. *)
Costing(w, S) == {x \in S : w[x].bottomCountRequired > 0}
Asked(w) == {x \in Players : w[x].mulliganDecision = "pending"}
Takers(pl) == {x \in Players : pl[x].mulliganDecision = "mulligan"}

LEMMA WaveOfRow ==
  ASSUME NEW ph, NEW c, NEW k, NEW pl \in [Players -> PlayerRecords],
         NEW S \in SUBSET Players
  PROVE  MulliganWaveOf(Row(ph, c, k, pl), S) =
           IF Costing(Waved(pl, S), S) # {}
           THEN Row("mulligan-bottom", First(Costing(Waved(pl, S), S)), k + 1,
                    Waved(pl, S))
           ELSE Row("mulligan-declaration", First(S), k + 1, Waved(pl, S))
<1> DEFINE t == Row(ph, c, k, pl)
           w == Waved(pl, S)
           next == [t EXCEPT !.round = @ + 1, !.player = w]
           bottom == Costing(w, S)
<1>1. t.player = pl /\ t.round = k BY DEF Row
<1>2. MulliganWaveOf(t, S) =
        IF bottom # {} THEN Then(next, "mulligan-bottom", First(bottom))
        ELSE Then(next, "mulligan-declaration", First(S))
  <2> HIDE DEF t
  <2> QED BY Zenon, <1>1 DEF MulliganWaveOf, Waved, Costing
<1>3. next = Row(ph, c, k + 1, w)
  <2> HIDE DEF w
  <2>1. next = [[t EXCEPT !.round = t.round + 1] EXCEPT !.player = w] BY Zenon
  <2>2. [t EXCEPT !.round = t.round + 1] = Row(ph, c, k + 1, pl) BY DEF Row
  <2>3. [Row(ph, c, k + 1, pl) EXCEPT !.player = w] = Row(ph, c, k + 1, w) BY DEF Row
  <2> HIDE DEF t, next
  <2> QED BY Zenon, <2>1, <2>2, <2>3
<1> HIDE DEF next, w, bottom
<1>4. Then(next, "mulligan-bottom", First(bottom))
        = Row("mulligan-bottom", First(bottom), k + 1, w)
  BY <1>3, RowThen
<1>5. Then(next, "mulligan-declaration", First(S))
        = Row("mulligan-declaration", First(S), k + 1, w)
  BY <1>3, RowThen
<1> QED BY Zenon, <1>2, <1>4, <1>5 DEF bottom, w

LEMMA WaveOfReplay ==
  ASSUME NEW ph, NEW c, NEW k, NEW pl \in [Players -> PlayerRecords], NEW h
  PROVE  ReplayWave(Replay(ph, c, k, pl, h)) =
           IF WhoWaits(Waved(pl, Takers(pl))) # {}
           THEN Replay("mulligan-bottom", First(WhoWaits(Waved(pl, Takers(pl)))),
                       k + 1, Waved(pl, Takers(pl)), Redealt(h, Takers(pl)))
           ELSE Replay(ph, First(Asked(Waved(pl, Takers(pl)))), k + 1,
                       Waved(pl, Takers(pl)),
                       Redealt(h, Takers(pl)))
<1> DEFINE S == Takers(pl)
           t == Replay(ph, c, k, pl, h)
           w == Waved(pl, S)
           d == Redealt(h, S)
           count(q) == BottomCount(t.player[q].mulligansTaken)
           takers == Those(t, "mulliganDecision", "mulligan")
           dealt == [q \in Players |->
             IF q \notin takers THEN t.player[q]
             ELSE [t.player[q] EXCEPT
                     !.bottomCountRequired = count(q), !.pendingBottom = 0,
                     !.mulliganDecision =
                       IF count(q) = 0 THEN "pending" ELSE t.player[q].mulliganDecision]]
           hand == [q \in Players |-> IF q \in takers THEN OpeningHand ELSE t.hand[q]]
           wave == [t EXCEPT !.round = k + 1, !.player = w, !.hand = d]
           pending == Asked(w)
<1>1. t.player = pl /\ t.round = k /\ t.hand = h BY DEF Replay
<1>2. takers = S
  <2>1. SameThose(t, pl) BY ReplayThose
  <2>2. S = {x \in Players : pl[x].mulliganDecision = "mulligan"} BY DEF Takers
  <2> HIDE DEF t, S
  <2> QED BY Zenon, <2>1, <2>2 DEF SameThose, Decisions
<1>3. dealt = w /\ hand = d
  <2> HIDE DEF t, takers, S
  <2>1. \A x \in S : pl[x].mulliganDecision = "mulligan" BY DEF S, Takers
  <2>2. \A x \in Players : dealt[x] = w[x] BY Zenon, <1>1, <1>2, <2>1 DEF Waved
  <2>3. \A x \in Players : hand[x] = d[x] BY Zenon, <1>1, <1>2 DEF Redealt
  <2>4. dealt = w BY Zenon, <2>2 DEF Waved
  <2>5. hand = d BY Zenon, <2>3 DEF Redealt
  <2> QED BY <2>4, <2>5
<1>4. ReplayWave(t) =
        IF Waiting(wave) # {}
        THEN [wave EXCEPT !.phase = "mulligan-bottom", !.current = First(Waiting(wave))]
        ELSE [wave EXCEPT !.current = First(Those(wave, "mulliganDecision", "pending"))]
  <2>1. wave = [t EXCEPT !.round = t.round + 1, !.player = dealt, !.hand = hand]
    <3> HIDE DEF t, w, d, dealt, hand
    <3> QED BY Zenon, <1>1, <1>3
  <2> HIDE DEF t, w, d, wave
  <2> QED BY Zenon, <2>1 DEF ReplayWave
<1>5. wave = Replay(ph, c, k + 1, w, d)
  <2> HIDE DEF w, d
  <2>1. wave = [[[t EXCEPT !.round = k + 1] EXCEPT !.player = w] EXCEPT !.hand = d]
    BY Zenon
  <2>2. [t EXCEPT !.round = k + 1] = Replay(ph, c, k + 1, pl, h) BY DEF Replay
  <2>3. [Replay(ph, c, k + 1, pl, h) EXCEPT !.player = w] = Replay(ph, c, k + 1, w, h)
    BY DEF Replay
  <2>4. [Replay(ph, c, k + 1, w, h) EXCEPT !.hand = d] = Replay(ph, c, k + 1, w, d)
    BY DEF Replay
  <2> HIDE DEF t, wave
  <2> QED BY Zenon, <2>1, <2>2, <2>3, <2>4
<1>6. Waiting(wave) = WhoWaits(w) /\ Those(wave, "mulliganDecision", "pending") = pending
  <2>1. SameThose(Replay(ph, c, k + 1, w, d), w)
        /\ Waiting(Replay(ph, c, k + 1, w, d)) = WhoWaits(w)
    BY ReplayThose, ReplayWaits
  <2> HIDE DEF wave, w, d
  <2> QED BY Zenon, <1>5, <2>1 DEF SameThose, Decisions, Asked
<1> HIDE DEF wave, w, d, t, pending, S
<1>7. Then(wave, "mulligan-bottom", First(WhoWaits(w)))
        = Replay("mulligan-bottom", First(WhoWaits(w)), k + 1, w, d)
  BY <1>5, ReplayThen
<1>8. [wave EXCEPT !.current = First(pending)] = Replay(ph, First(pending), k + 1, w, d)
  BY <1>5, ReplayTurns
<1> QED BY Zenon, <1>4, <1>6, <1>7, <1>8 DEF Then, t, w, d, pending, S

Resettle(s, b, d) ==
  [s EXCEPT !.bottomCountRequired = b, !.pendingBottom = 0, !.mulliganDecision = d]

LEMMA Resettled ==
  ASSUME NEW s \in PlayerRecords, NEW b \in 0..OpeningHand, NEW d \in Decisions
  PROVE  LET r == Resettle(s, b, d) IN
         /\ r \in PlayerRecords /\ r.commanderConfirmed = s.commanderConfirmed
         /\ r.mulligansTaken = s.mulligansTaken /\ r.bottomCountRequired = b
         /\ r.pendingBottom = 0 /\ r.mulliganDecision = d
<1> DEFINE r1 == [s EXCEPT !.bottomCountRequired = b]
           r2 == [r1 EXCEPT !.pendingBottom = 0]
<1>1. /\ r1 \in PlayerRecords /\ r1.commanderConfirmed = s.commanderConfirmed
      /\ r1.mulligansTaken = s.mulligansTaken /\ r1.bottomCountRequired = b
  BY DEF PlayerRecords
<1>2. Resettle(s, b, d) = [r2 EXCEPT !.mulliganDecision = d] BY Zenon DEF Resettle
<1>3. 0 \in 0..OpeningHand BY PregameAssumption
<1> HIDE DEF r1
<1>4. /\ r2 \in PlayerRecords /\ r2.commanderConfirmed = s.commanderConfirmed
      /\ r2.mulligansTaken = s.mulligansTaken /\ r2.bottomCountRequired = b
      /\ r2.pendingBottom = 0
  BY <1>1, <1>3 DEF PlayerRecords
<1> HIDE DEF r2
<1> QED BY <1>2, <1>4 DEF PlayerRecords

LEMMA DeclarationKeeps ==
  ASSUME NEW ph, NEW c, NEW k, NEW pl, NEW h, NEW m, At(ph, c, k, pl, h, m),
         playerCount \in PlayerCounts, NEW p \in Players,
         NEW decision \in {"mulligan", "keep"}, DeclareMulligan(p, decision),
         UNCHANGED playerCount
  PROVE  PregameInv'
<1> DEFINE n == pl[p].mulligansTaken + IF decision = "mulligan" THEN 1 ELSE 0
           r == [pl[p] EXCEPT !.mulliganDecision = decision, !.mulligansTaken = n]
           q == [pl EXCEPT ![p] = r]
           pending == {x \in Players : q[x].mulliganDecision = "pending"}
           takers == {x \in Players : q[x].mulliganDecision = "mulligan"}
           keepers == {x \in Players : q[x].mulliganDecision = "keep"}
           next == Declared(table, p, decision)
           sim == Declared(replayed, p, decision)
<1>1. /\ ph = "mulligan-declaration" /\ c = p /\ pl[p].mulliganDecision = "pending"
      /\ decision = "mulligan" => pl[p].mulligansTaken < MaxMulligans
      /\ TableFits(ph, c, k, pl, h, m) /\ core = Root(h, m)
      /\ table.player = pl /\ replayed.player = pl
  BY Parts DEF DeclareMulligan, MayAct, At
<1>2. pl \in [Players -> PlayerRecords] /\ MaxMulligans \in Nat
  BY <1>1, Counting DEF TableFits
<1>3. /\ q \in [Players -> PlayerRecords]
      /\ \A x \in Players : Declares(k, q[x], h[x], m[x]) /\ q[x].commanderConfirmed
      /\ takers # {} => k + 1 \in 0..MaxMulligans
  <2>1. /\ Declares(k, pl[p], h[p], m[p]) /\ pl[p].mulligansTaken = k
        /\ pl[p].commanderConfirmed /\ k \in 0..MaxMulligans
    BY <1>1 DEF TableFits, SeatFits, Declares
  <2>2. n \in 0..MaxMulligans BY <1>1, <1>2, <2>1
  <2>3. r \in PlayerRecords BY <1>2, <2>2 DEF PlayerRecords, Decisions
  <2>4. Declares(k, r, h[p], m[p])
    BY <1>1, <1>2, <2>1 DEF Declares, Paid, PlayerRecords
  <2>5. q \in [Players -> PlayerRecords] BY <1>2, <2>3
  <2>6. r.commanderConfirmed BY <1>2, <2>1 DEF PlayerRecords
  <2>7. \A x \in Players : Declares(k, q[x], h[x], m[x]) /\ q[x].commanderConfirmed
    BY <1>1, <1>2, <2>4, <2>6 DEF TableFits, SeatFits
  <2>8. ASSUME NEW x \in takers PROVE k + 1 \in 0..MaxMulligans
    <3> HIDE DEF q
    <3>1. q[x] \in PlayerRecords /\ q[x].mulligansTaken = k + 1
      BY <2>5, <2>7 DEF Declares
    <3> QED BY <3>1 DEF PlayerRecords
  <2> QED BY <2>5, <2>7, <2>8
<1>4. next = Row(ph, c, k, q) /\ sim = Replay(ph, c, k, q, h)
  <2>1. next = With(table, p, r) /\ sim = With(replayed, p, r)
    BY Zenon, <1>1 DEF Declared
  <2> HIDE DEF r, next, sim
  <2> QED BY <2>1, Written
<1>5. /\ pending \in SUBSET Players /\ takers \in SUBSET Players
      /\ pending = {} /\ takers = {} => keepers = Players
      /\ takers # {} => keepers # Players
      /\ pending = {} => \A x \in Players :
                           x \in takers \/ q[x].mulliganDecision = "keep"
  BY <1>3 DEF PlayerRecords, Decisions
<1>6. /\ Those(next, "mulliganDecision", "pending") = pending
      /\ Those(next, "mulliganDecision", "mulligan") = takers
      /\ Those(sim, "mulliganDecision", "pending") = pending
      /\ Those(sim, "mulliganDecision", "keep") = keepers
  <2> HIDE DEF q, next, sim
  <2>1. SameThose(next, q) /\ SameThose(sim, q) BY <1>4, RowThose, ReplayThose
  <2> QED BY Zenon, <2>1 DEF SameThose, Decisions
<1>7. replayed' = CASE pending # {} -> [sim EXCEPT !.current = First(pending)]
                    [] pending = {} /\ keepers = Players ->
                         [sim EXCEPT !.phase = "pregame-actions", !.current = 1]
                    [] OTHER -> ReplayWave(sim)
  <2>1. /\ Admits(p, "mulligan-declaration")
        /\ ~(replayed.player[p].mulliganDecision # "pending")
        /\ ~(decision = "mulligan" /\ replayed.player[p].mulligansTaken >= MaxMulligans)
    BY <1>1, <1>2, Parts DEF Admits, PlayerRecords
  <2>2. replayed' = ReplayDeclaration(p, decision) BY DEF DeclareMulligan
  <2> HIDE DEF q, pending, keepers
  <2> QED BY Zenon, <1>6, <2>1, <2>2 DEF ReplayDeclaration
<1>8. /\ pending # {} => /\ table' = [next EXCEPT !.current = First(pending)]
                        /\ core' = core
      /\ pending = {} /\ takers = {} => /\ table' = Then(next, "pregame-actions", 1)
                                        /\ core' = core
      /\ pending = {} /\ takers # {} => /\ table' = MulliganWaveOf(next, takers)
                                        /\ core' = MulliganWave(takers)
  <2> HIDE DEF q, pending, takers, keepers
  <2> QED BY Zenon, <1>6 DEF DeclareMulligan
<1>9. \A x \in Players : x \in takers <=> q[x].mulliganDecision = "mulligan"
  OBVIOUS
<1> HIDE DEF next, sim, pending, keepers
<1>10. CASE pending # {}
  <2> HIDE DEF q, takers
  <2>1. First(pending) \in Players BY <1>5, <1>10, FirstOf
  <2>2. table' = Row(ph, First(pending), k, q) BY <1>4, <1>8, <1>10, RowTurns
  <2>3. replayed' = Replay(ph, First(pending), k, q, h)
    BY <1>4, <1>7, <1>10, ReplayTurns
  <2>4. TableFits(ph, First(pending), k, q, h, m)
    BY <1>1, <1>3, <2>1 DEF TableFits, SeatFits, Nobody, Players
  <2> QED BY <1>1, <1>8, <1>10, <2>2, <2>3, <2>4, Moved
<1>11. CASE pending = {} /\ takers = {}
  <2> HIDE DEF q, takers
  <2>1. table' = Row("pregame-actions", 1, k, q) BY <1>4, <1>8, <1>11, RowThen
  <2>2. replayed' = Then(sim, "pregame-actions", 1)
    BY Zenon, <1>5, <1>7, <1>11 DEF Then
  <2>3. replayed' = Replay("pregame-actions", 1, k, q, h) BY <1>4, <2>2, ReplayThen
  <2>4. \A x \in Players : Keeps(q[x], h[x], m[x])
    BY <1>3, <1>5, <1>11 DEF Declares, Keeps
  <2>5. TableFits("pregame-actions", 1, k, q, h, m)
    BY <1>1, <1>3, <2>4
       DEF TableFits, SeatFits, Phases, Nobody, Players, PlayerCounts
  <2> QED BY <1>1, <1>8, <1>11, <2>1, <2>3, <2>5, Moved
<1>12. CASE pending = {} /\ takers # {}
  <2> DEFINE w  == Waved(q, takers)
             d  == Redealt(h, takers)
             mm == [x \in Players |-> m[x] + IF x \in takers THEN 1 ELSE 0]
             cost == BottomCount(k + 1)
             bottom == Costing(w, takers)
             again == Asked(w)
  <2>1. /\ core' = Root(d, mm)
    <3>1. core.hand = h /\ core.mulligans = m BY Parts
    <3> HIDE DEF takers
    <3>2. [x \in Players |-> IF x \in takers THEN OpeningHand ELSE core.hand[x]] = d
      BY <3>1 DEF Redealt
    <3>3. [x \in Players |-> core.mulligans[x] + IF x \in takers THEN 1 ELSE 0] = mm
      BY <3>1
    <3> HIDE DEF d, mm
    <3> QED BY Zenon, <1>8, <1>12, <3>2, <3>3 DEF MulliganWave, Root
  <2>2. /\ table' = MulliganWaveOf(Row(ph, c, k, q), takers)
        /\ replayed' = ReplayWave(Replay(ph, c, k, q, h))
    <3> HIDE DEF q, takers
    <3> QED BY Zenon, <1>4, <1>5, <1>7, <1>8, <1>12
  <2>3. cost \in 0..OpeningHand /\ k + 1 \in 0..MaxMulligans
    BY <1>3, <1>12, Counting
  <2>4. \A x \in takers :
          /\ q[x].mulligansTaken = k + 1 /\ m[x] = k
          /\ w[x] = Resettle(q[x], cost, IF cost = 0 THEN "pending" ELSE "mulligan")
    <3>1. k \in Nat BY <1>1 DEF TableFits
    <3>2. \A x \in takers : q[x].mulligansTaken = k + 1 /\ m[x] = k
      <4> HIDE DEF q
      <4> QED BY <1>3, <3>1 DEF Declares, Paid
    <3> HIDE DEF q, takers
    <3> QED BY Zenon, <1>5, <3>2 DEF Waved, Resettle
  <2>5. \A x \in Players : x \notin takers => w[x] = q[x]
    <3> HIDE DEF q, takers
    <3> QED BY Zenon DEF Waved
  <2>6. w = [x \in Players |-> w[x]] BY DEF Waved
  <2> HIDE DEF w, q
  <2>7. \A x \in takers :
          /\ w[x] \in PlayerRecords /\ w[x].commanderConfirmed
          /\ w[x].mulligansTaken = k + 1 /\ w[x].bottomCountRequired = cost
          /\ w[x].pendingBottom = 0
          /\ w[x].mulliganDecision = IF cost = 0 THEN "pending" ELSE "mulligan"
    <3>1. (IF cost = 0 THEN "pending" ELSE "mulligan") \in Decisions BY DEF Decisions
    <3> HIDE DEF cost, takers
    <3>2. TAKE x \in takers
    <3>3. q[x] \in PlayerRecords /\ q[x].commanderConfirmed BY <1>3, <1>5
    <3> QED BY <2>3, <2>4, <3>1, <3>3, Resettled
  <2>8. \A x \in Players : x \notin takers =>
          /\ w[x] \in PlayerRecords /\ w[x].commanderConfirmed
          /\ w[x].mulliganDecision = "keep" /\ Paid(w[x], h[x], m[x], w[x].mulligansTaken)
    BY <1>3, <1>5, <1>9, <1>12, <2>5 DEF Declares
  <2>9. w \in [Players -> PlayerRecords] BY <2>6, <2>7, <2>8
  <2>10. /\ d \in [Players -> 0..OpeningHand] /\ mm \in [Players -> 0..MaxMulligans]
         /\ \A x \in takers : d[x] = OpeningHand /\ mm[x] = k + 1
         /\ \A x \in Players : x \notin takers => d[x] = h[x] /\ mm[x] = m[x]
    <3>1. h \in [Players -> 0..OpeningHand] /\ m \in [Players -> 0..MaxMulligans]
      BY <1>1 DEF TableFits
    <3> HIDE DEF takers
    <3>2. /\ d \in [Players -> 0..OpeningHand]
          /\ \A x \in takers : d[x] = OpeningHand
          /\ \A x \in Players : x \notin takers => d[x] = h[x]
      BY <1>5, <3>1, PregameAssumption DEF Redealt
    <3>3. \A x \in takers : mm[x] = k + 1 BY <1>5, <2>4
    <3>4. MaxMulligans \in Nat BY Counting
    <3>5. \A x \in Players : x \notin takers => mm[x] = m[x] BY <3>1, <3>4
    <3>6. mm \in [Players -> 0..MaxMulligans]
      <4>1. \A x \in Players : mm[x] \in 0..MaxMulligans
        BY <2>3, <3>1, <3>3, <3>5
      <4> QED BY <4>1
    <3> QED BY <3>2, <3>3, <3>5, <3>6
  <2>11. /\ First(takers) \in takers
    BY <1>5, <1>12, FirstOf
  <2>12. /\ table' = IF bottom # {} THEN Row("mulligan-bottom", First(bottom), k + 1, w)
                     ELSE Row("mulligan-declaration", First(takers), k + 1, w)
         /\ replayed' = IF WhoWaits(w) # {}
                        THEN Replay("mulligan-bottom", First(WhoWaits(w)), k + 1, w, d)
                        ELSE Replay(ph, First(again), k + 1, w, d)
    <3>1. q \in [Players -> PlayerRecords] /\ takers \in SUBSET Players BY <1>3, <1>5
    <3> DEFINE dealt == Waved(q, takers)
               cards == Redealt(h, takers)
    <3>2. takers = Takers(q) BY DEF Takers
    <3> HIDE DEF takers
    <3>3. MulliganWaveOf(Row(ph, c, k, q), takers) =
            IF Costing(dealt, takers) # {}
            THEN Row("mulligan-bottom", First(Costing(dealt, takers)), k + 1, dealt)
            ELSE Row("mulligan-declaration", First(takers), k + 1, dealt)
      BY <3>1, WaveOfRow
    <3>4. ReplayWave(Replay(ph, c, k, q, h)) =
            IF WhoWaits(Waved(q, Takers(q))) # {}
            THEN Replay("mulligan-bottom", First(WhoWaits(Waved(q, Takers(q)))), k + 1,
                        Waved(q, Takers(q)), Redealt(h, Takers(q)))
            ELSE Replay(ph, First(Asked(Waved(q, Takers(q)))), k + 1,
                        Waved(q, Takers(q)), Redealt(h, Takers(q)))
      BY <3>1, WaveOfReplay
    <3>5. ReplayWave(Replay(ph, c, k, q, h)) =
            IF WhoWaits(dealt) # {}
            THEN Replay("mulligan-bottom", First(WhoWaits(dealt)), k + 1, dealt, cards)
            ELSE Replay(ph, First(Asked(dealt)), k + 1, dealt, cards)
      BY Zenon, <3>2, <3>4
    <3> QED BY Zenon, <2>2, <3>3, <3>5 DEF w
  <2> HIDE DEF bottom, again, d, mm
  <2>13. CASE cost > 0
    <3>1. bottom = takers /\ WhoWaits(w) = takers
      BY <2>7, <2>8, <2>13, <1>5 DEF WhoWaits, Costing, Asked, bottom, again
    <3>2. table' = Row("mulligan-bottom", First(takers), k + 1, w)
      BY Zenon, <1>12, <2>12, <3>1
    <3>3. replayed' = Replay("mulligan-bottom", First(takers), k + 1, w, d)
      BY Zenon, <1>12, <2>12, <3>1
    <3>4. \A x \in Players : Bottoms(k + 1, w[x], d[x], mm[x])
      BY <2>7, <2>8, <2>10, <2>13 DEF Bottoms
    <3>5. \A x \in Players :
            SeatFits("mulligan-bottom", k + 1, w[x], d[x], mm[x])
      BY <2>7, <2>8, <3>4 DEF SeatFits
    <3>6. First(takers) \in Players /\ First(takers) # Nobody
      BY <1>5, <2>11 DEF Nobody, Players
    <3>7. TableFits("mulligan-bottom", First(takers), k + 1, w, d, mm)
      BY <2>3, <2>9, <2>10, <2>11, <3>1, <3>5, <3>6 DEF TableFits, Phases
    <3> QED BY <2>1, <3>2, <3>3, <3>7, Moved
  <2>14. CASE cost = 0
    <3>1. bottom = {} /\ WhoWaits(w) = {} /\ again = takers
      BY <2>7, <2>8, <2>14, <1>5 DEF WhoWaits, Costing, Asked, bottom, again
    <3>2. table' = Row("mulligan-declaration", First(takers), k + 1, w)
      BY Zenon, <2>12, <3>1
    <3>3. replayed' = Replay("mulligan-declaration", First(takers), k + 1, w, d)
      BY Zenon, <1>1, <2>12, <3>1
    <3>4. \A x \in Players : Declares(k + 1, w[x], d[x], mm[x])
      BY <2>7, <2>8, <2>10, <2>14 DEF Declares, Paid
    <3>5. \A x \in Players :
            SeatFits("mulligan-declaration", k + 1, w[x], d[x], mm[x])
      BY <2>7, <2>8, <3>4 DEF SeatFits
    <3>6. First(takers) \in Players /\ First(takers) # Nobody
      BY <1>5, <2>11 DEF Nobody, Players
    <3>7. TableFits("mulligan-declaration", First(takers), k + 1, w, d, mm)
      BY <2>3, <2>9, <2>10, <3>5, <3>6 DEF TableFits, Phases
    <3> QED BY <2>1, <3>2, <3>3, <3>7, Moved
  <2> QED BY <2>3, <2>13, <2>14
<1> QED BY <1>10, <1>11, <1>12

(* What the last bottom leaves, in the row and in its replay. *)
Bottomed(pl) ==
  [x \in Players |->
     IF pl[x].mulliganDecision # "mulligan" THEN pl[x]
     ELSE [pl[x] EXCEPT
             !.pendingBottom = 0,
             !.mulliganDecision =
               IF pl[x].mulligansTaken >= MaxMulligans THEN "keep" ELSE "pending"]]
Lightened(pl, h) ==
  [x \in Players |-> IF pl[x].mulliganDecision = "mulligan"
                     THEN h[x] - pl[x].pendingBottom ELSE h[x]]

LEMMA BottomOfRow ==
  ASSUME NEW ph, NEW c, NEW k, NEW pl
  PROVE  BottomsFinished(Row(ph, c, k, pl)) =
           IF Asked(Bottomed(pl)) = {} THEN Row("pregame-actions", 1, k, Bottomed(pl))
           ELSE Row("mulligan-declaration", First(Asked(Bottomed(pl))), k, Bottomed(pl))
<1> DEFINE t == Row(ph, c, k, pl)
           b == Bottomed(pl)
           players == [x \in Players |->
             IF t.player[x].mulliganDecision # "mulligan" THEN t.player[x]
             ELSE [t.player[x] EXCEPT
                     !.pendingBottom = 0,
                     !.mulliganDecision =
                       IF t.player[x].mulligansTaken >= MaxMulligans
                       THEN "keep" ELSE "pending"]]
           next == [t EXCEPT !.player = b]
           pending == Asked(b)
<1>1. players = b
  <2>1. t.player = pl BY DEF Row
  <2> HIDE DEF t
  <2>2. \A x \in Players : players[x] = b[x] BY Zenon, <2>1 DEF Bottomed
  <2> QED BY Zenon, <2>2 DEF Bottomed
<1>2. next = Row(ph, c, k, b)
  <2> HIDE DEF b
  <2> QED BY DEF Row
<1>3. Those(next, "mulliganDecision", "pending") = pending
  <2>1. SameThose(next, b) BY <1>2, RowThose
  <2> HIDE DEF next, b
  <2> QED BY Zenon, <2>1 DEF SameThose, Decisions, Asked
<1>4. BottomsFinished(t) =
        IF pending = {} THEN Then(next, "pregame-actions", 1)
        ELSE Then(next, "mulligan-declaration", First(pending))
  <2>1. next = [t EXCEPT !.player = players]
    <3> HIDE DEF t, b, players
    <3> QED BY Zenon, <1>1
  <2> HIDE DEF t, b, pending, next
  <2> QED BY Zenon, <1>3, <2>1 DEF BottomsFinished
<1> HIDE DEF t, b, pending, next
<1>5. Then(next, "pregame-actions", 1) = Row("pregame-actions", 1, k, b)
  BY <1>2, RowThen
<1>6. Then(next, "mulligan-declaration", First(pending))
        = Row("mulligan-declaration", First(pending), k, b)
  BY <1>2, RowThen
<1> QED BY Zenon, <1>4, <1>5, <1>6 DEF t, b, pending

LEMMA BottomKeeps ==
  ASSUME NEW ph, NEW c, NEW k, NEW pl, NEW h, NEW m, At(ph, c, k, pl, h, m),
         playerCount \in PlayerCounts, NEW p \in Players, SubmitMulliganBottom(p),
         UNCHANGED playerCount
  PROVE  PregameInv'
<1> DEFINE count == pl[p].bottomCountRequired
           r == [pl[p] EXCEPT !.pendingBottom = count]
           q == [pl EXCEPT ![p] = r]
           waits == WhoWaits(q)
           b == Bottomed(q)
           d == Lightened(q, h)
           next == With(table, p, [table.player[p] EXCEPT
                        !.pendingBottom = table.player[p].bottomCountRequired])
           sim == [replayed EXCEPT !.player[p].pendingBottom = count]
<1>1. /\ ph = "mulligan-bottom" /\ c = p /\ count > 0
      /\ TableFits(ph, c, k, pl, h, m) /\ core = Root(h, m)
      /\ table.player = pl /\ replayed.player = pl
  BY Parts DEF SubmitMulliganBottom, MayAct, At
<1>2. pl \in [Players -> PlayerRecords] /\ p \in WhoWaits(pl) BY <1>1 DEF TableFits
<1>3. /\ q \in [Players -> PlayerRecords]
      /\ \A x \in Players : Bottoms(k, q[x], h[x], m[x]) /\ q[x].commanderConfirmed
      /\ waits \in SUBSET Players
      /\ waits = {} => \A x \in Players : q[x].mulliganDecision = "mulligan"
                          => q[x].pendingBottom = q[x].bottomCountRequired
  <2>1. /\ Bottoms(k, pl[p], h[p], m[p]) /\ pl[p].mulliganDecision = "mulligan"
        /\ pl[p].commanderConfirmed
    BY <1>1, <1>2 DEF TableFits, SeatFits, WhoWaits
  <2>2. r \in PlayerRecords BY <1>2 DEF PlayerRecords
  <2>3. Bottoms(k, r, h[p], m[p]) /\ r.commanderConfirmed
    BY <1>2, <2>1 DEF Bottoms, PlayerRecords
  <2>4. q \in [Players -> PlayerRecords] BY <1>2, <2>2
  <2>5. \A x \in Players : Bottoms(k, q[x], h[x], m[x]) /\ q[x].commanderConfirmed
    BY <1>1, <1>2, <2>3 DEF TableFits, SeatFits
  <2> HIDE DEF q
  <2>6. waits = {} => \A x \in Players : q[x].mulliganDecision = "mulligan"
                          => q[x].pendingBottom = q[x].bottomCountRequired
    BY <2>4, <2>5 DEF WhoWaits, Bottoms, PlayerRecords
  <2> QED BY <2>4, <2>5, <2>6 DEF WhoWaits
<1>4. next = Row(ph, c, k, q) /\ sim = Replay(ph, c, k, q, h)
  <2>1. next = With(table, p, r) /\ sim = With(replayed, p, r)
    BY Zenon, <1>1 DEF With
  <2> HIDE DEF r, next, sim
  <2> QED BY <2>1, Written
<1>5. Waiting(next) = waits /\ Waiting(sim) = waits
  <2> HIDE DEF q, next, sim
  <2> QED BY <1>4, RowWaits, ReplayWaits
<1>6. /\ waits # {} => /\ table' = [next EXCEPT !.current = First(waits)]
                      /\ core' = core
      /\ waits = {} => core' = BottomBatch(next) /\ table' = BottomsFinished(next)
  <2> HIDE DEF waits
  <2> QED BY Zenon, <1>5 DEF SubmitMulliganBottom
<1>7. ReplayBottom(p, count) =
        IF waits # {} THEN [sim EXCEPT !.current = First(waits)]
        ELSE IF Asked(b) = {} THEN Replay("pregame-actions", 1, k, b, d)
        ELSE Replay("mulligan-declaration", First(Asked(b)), k, b, d)
  <2> DEFINE active == Those(sim, "mulliganDecision", "mulligan")
             players == [x \in Players |->
                IF x \notin active THEN sim.player[x]
                ELSE [sim.player[x] EXCEPT
                        !.pendingBottom = 0,
                        !.mulliganDecision =
                          IF sim.player[x].mulligansTaken >= MaxMulligans
                          THEN "keep" ELSE "pending"]]
             hand == [x \in Players |-> IF x \in active
                         THEN sim.hand[x] - sim.player[x].pendingBottom ELSE sim.hand[x]]
             raw == [sim EXCEPT !.player = players, !.hand = hand]
             done == [sim EXCEPT !.player = b, !.hand = d]
             left == Asked(b)
             asked == Those(raw, "mulliganDecision", "pending")
  <2>1. /\ Admits(p, "mulligan-bottom") /\ count # 0
        /\ replayed.player[p].bottomCountRequired = count
    BY <1>1, <1>2, Parts DEF Admits, PlayerRecords
  <2>2. ReplayBottom(p, count) =
          IF ~Admits(p, "mulligan-bottom") \/ count = 0
             \/ replayed.player[p].bottomCountRequired # count
          THEN Refused
          ELSE IF Waiting(sim) # {} THEN [sim EXCEPT !.current = First(Waiting(sim))]
          ELSE Then(raw, IF asked = {} THEN "pregame-actions" ELSE "mulligan-declaration",
                         IF asked = {} THEN 1 ELSE First(asked))
    <3> HIDE DEF q, next, count
    <3> QED BY Zenon DEF ReplayBottom, Then
  <2> HIDE DEF q, sim, next, count
  <2>3. /\ active = {x \in Players : q[x].mulliganDecision = "mulligan"}
        /\ sim.player = q /\ sim.hand = h
    <3>1. SameThose(sim, q) BY <1>4, ReplayThose
    <3>2. sim.player = q /\ sim.hand = h BY <1>4 DEF Replay
    <3> QED BY Zenon, <3>1, <3>2 DEF SameThose, Decisions
  <2>4. players = b /\ hand = d
    <3>1. \A x \in Players : players[x] = b[x] BY Zenon, <2>3 DEF Bottomed
    <3>2. \A x \in Players : hand[x] = d[x] BY Zenon, <2>3 DEF Lightened
    <3>3. players = b BY Zenon, <3>1 DEF Bottomed
    <3>4. hand = d BY Zenon, <3>2 DEF Lightened
    <3> QED BY <3>3, <3>4
  <2>5. done = Replay(ph, c, k, b, d)
    <3> HIDE DEF b, d
    <3>1. done = [[sim EXCEPT !.player = b] EXCEPT !.hand = d] BY Zenon
    <3>2. [Replay(ph, c, k, q, h) EXCEPT !.player = b] = Replay(ph, c, k, b, h)
      BY DEF Replay
    <3>3. [Replay(ph, c, k, b, h) EXCEPT !.hand = d] = Replay(ph, c, k, b, d)
      BY DEF Replay
    <3> HIDE DEF done
    <3> QED BY Zenon, <1>4, <3>1, <3>2, <3>3
  <2>6. Those(done, "mulliganDecision", "pending") = left
    <3> HIDE DEF b, d, done
    <3>1. SameThose(done, b) BY <2>5, ReplayThose
    <3> QED BY Zenon, <3>1 DEF SameThose, Decisions, Asked
  <2>7. ReplayBottom(p, count) =
          IF waits # {} THEN [sim EXCEPT !.current = First(waits)]
          ELSE Then(done, IF left = {} THEN "pregame-actions" ELSE "mulligan-declaration",
                          IF left = {} THEN 1 ELSE First(left))
    <3>1. raw = done
      <4> HIDE DEF b, d, players, hand
      <4> QED BY Zenon, <2>4
    <3>2. asked = left
      <4> HIDE DEF raw, done, left
      <4> QED BY Zenon, <2>6, <3>1
    <3> HIDE DEF raw, done, asked, left, waits
    <3> QED BY Zenon, <1>5, <2>1, <2>2, <3>1, <3>2
  <2> HIDE DEF done, left, b, d, waits
  <2>8. Then(done, "pregame-actions", 1) = Replay("pregame-actions", 1, k, b, d)
    BY <2>5, ReplayThen
  <2>9. Then(done, "mulligan-declaration", First(left))
          = Replay("mulligan-declaration", First(left), k, b, d)
    BY <2>5, ReplayThen
  <2>10. CASE left = {} BY Zenon, <2>7, <2>8, <2>10 DEF left
  <2>11. CASE left # {} BY Zenon, <2>7, <2>9, <2>11 DEF left
  <2> QED BY <2>10, <2>11
<1>8. replayed' = ReplayBottom(p, count)
  BY Zenon, <1>1 DEF SubmitMulliganBottom
<1> HIDE DEF q, next, sim, count
<1>9. CASE waits # {}
  <2>1. First(waits) \in waits /\ First(waits) \in Players BY <1>3, <1>9, FirstOf
  <2> HIDE DEF waits
  <2>2. table' = Row(ph, First(waits), k, q) BY <1>4, <1>6, <1>9, RowTurns
  <2>3. replayed' = Replay(ph, First(waits), k, q, h)
    BY <1>4, <1>7, <1>8, <1>9, ReplayTurns
  <2>4. TableFits(ph, First(waits), k, q, h, m)
    BY <1>1, <1>3, <2>1 DEF TableFits, SeatFits, Nobody, Players, waits
  <2> QED BY <1>1, <1>6, <1>9, <2>2, <2>3, <2>4, Moved
<1>10. CASE waits = {}
  <2> DEFINE left == Asked(b)
  <2>1. core' = Root(d, m)
    <3>1. next.player = q BY <1>4 DEF Row
    <3> DEFINE hand == [x \in Players |->
                 IF next.player[x].mulliganDecision = "mulligan"
                 THEN core.hand[x] - next.player[x].pendingBottom ELSE core.hand[x]]
    <3>2. core.hand = h BY Parts
    <3>3. \A x \in Players : hand[x] = d[x] BY Zenon, <3>1, <3>2 DEF Lightened
    <3>4. hand = d BY Zenon, <3>3 DEF Lightened
    <3>5. core' = [core EXCEPT !.hand = hand] BY Zenon, <1>6, <1>10 DEF BottomBatch
    <3> HIDE DEF hand, d
    <3> QED BY <1>1, <3>4, <3>5 DEF Root
  <2>2. /\ table' = IF left = {} THEN Row("pregame-actions", 1, k, b)
                    ELSE Row("mulligan-declaration", First(left), k, b)
        /\ replayed' = IF left = {} THEN Replay("pregame-actions", 1, k, b, d)
                       ELSE Replay("mulligan-declaration", First(left), k, b, d)
    <3>1. BottomsFinished(Row(ph, c, k, q)) =
            IF Asked(Bottomed(q)) = {} THEN Row("pregame-actions", 1, k, Bottomed(q))
            ELSE Row("mulligan-declaration", First(Asked(Bottomed(q))), k, Bottomed(q))
      BY BottomOfRow
    <3> QED BY Zenon, <1>4, <1>6, <1>7, <1>8, <1>10, <3>1
  <2>3. \A x \in Players :
          /\ b[x] \in PlayerRecords /\ b[x].commanderConfirmed
          /\ b[x].mulliganDecision \in {"pending", "keep"}
          /\ b[x].mulliganDecision = "pending" => b[x].mulligansTaken = k
          /\ d[x] \in 0..OpeningHand
          /\ Paid(b[x], d[x], m[x], b[x].mulligansTaken)
    <3>1. TAKE x \in Players
    <3>2. /\ q[x] \in PlayerRecords /\ q[x].commanderConfirmed
          /\ Bottoms(k, q[x], h[x], m[x]) /\ h[x] \in 0..OpeningHand
      BY <1>1, <1>3 DEF TableFits
    <3>3. CASE q[x].mulliganDecision # "mulligan"
      <4>1. b[x] = q[x] /\ d[x] = h[x] BY Zenon, <3>3 DEF Bottomed, Lightened
      <4> HIDE DEF b, d
      <4> QED BY <3>2, <3>3, <4>1 DEF Bottoms
    <3>4. CASE q[x].mulliganDecision = "mulligan"
      <4> DEFINE dd == IF q[x].mulligansTaken >= MaxMulligans THEN "keep" ELSE "pending"
                 r1 == [q[x] EXCEPT !.pendingBottom = 0]
      <4>1. /\ b[x] = [r1 EXCEPT !.mulliganDecision = dd]
            /\ d[x] = h[x] - q[x].pendingBottom
        BY Zenon, <3>4 DEF Bottomed, Lightened
      <4>2. dd \in {"keep", "pending"} OBVIOUS
      <4> HIDE DEF dd, b, d
      <4>3. /\ r1 \in PlayerRecords /\ r1.commanderConfirmed
            /\ r1.mulligansTaken = q[x].mulligansTaken
            /\ r1.bottomCountRequired = q[x].bottomCountRequired
            /\ r1.pendingBottom = 0
        BY <3>2, PregameAssumption DEF PlayerRecords
      <4> HIDE DEF r1
      <4>4. /\ b[x] \in PlayerRecords /\ b[x].commanderConfirmed
            /\ b[x].mulligansTaken = q[x].mulligansTaken
            /\ b[x].bottomCountRequired = q[x].bottomCountRequired
            /\ b[x].pendingBottom = 0 /\ b[x].mulliganDecision = dd
        BY <4>1, <4>2, <4>3 DEF PlayerRecords, Decisions
      <4>5. q[x].pendingBottom = q[x].bottomCountRequired
        BY <1>3, <1>10, <3>4
      <4>6. /\ q[x].mulligansTaken = k /\ m[x] = k /\ h[x] = OpeningHand
            /\ q[x].bottomCountRequired = BottomCount(k)
            /\ q[x].bottomCountRequired \in 0..OpeningHand
        BY <3>2, <3>4 DEF Bottoms, PlayerRecords
      <4>7. d[x] \in 0..OpeningHand /\ d[x] = OpeningHand - BottomCount(k)
        BY <4>1, <4>5, <4>6, PregameAssumption
      <4> QED BY <4>2, <4>4, <4>6, <4>7 DEF Paid
    <3> QED BY <3>3, <3>4
  <2>4. b = [x \in Players |-> b[x]] /\ d = [x \in Players |-> d[x]]
    BY DEF Bottomed, Lightened
  <2> HIDE DEF b, d
  <2>5. b \in [Players -> PlayerRecords] /\ d \in [Players -> 0..OpeningHand]
    BY <2>3, <2>4
  <2>6. left \in SUBSET Players BY DEF Asked
  <2>7. left = {} => \A x \in Players : b[x].mulliganDecision = "keep"
    BY <2>3 DEF Asked
  <2> HIDE DEF left
  <2>8. CASE left = {}
    <3>1. TableFits("pregame-actions", 1, k, b, d, m)
      BY <1>1, <2>3, <2>5, <2>7, <2>8
         DEF TableFits, SeatFits, Keeps, Phases, Nobody, Players, PlayerCounts
    <3> QED BY <2>1, <2>2, <2>8, <3>1, Moved
  <2>9. CASE left # {}
    <3>1. First(left) \in Players BY <2>9, <2>6, FirstOf
    <3>2. \A x \in Players : Declares(k, b[x], d[x], m[x]) BY <2>3 DEF Declares
    <3>3. TableFits("mulligan-declaration", First(left), k, b, d, m)
      BY <1>1, <2>3, <2>5, <3>1, <3>2
         DEF TableFits, SeatFits, Phases, Nobody, Players
    <3> QED BY <2>1, <2>2, <2>9, <3>3, Moved
  <2> QED BY <2>8, <2>9
<1> QED BY <1>9, <1>10

LEMMA PregameStarts == Init => PregameInv
<1> SUFFICES ASSUME Init PROVE PregameInv OBVIOUS
<1> DEFINE fresh == [x \in Players |-> Fresh]
           zero == [x \in Players |-> 0]
<1>1. playerCount \in PlayerCounts /\ PregameInit BY DEF Init
<1>2. /\ table = Row("commander-reveal", 1, 0, fresh) /\ core = Root(zero, zero)
      /\ replayed = Replay("commander-reveal", 1, 0, fresh, zero)
  BY <1>1 DEF PregameInit, Dealing, Undealt, Replaying, Players, Row, Root, Replay
<1>3. MaxMulligans \in Nat BY <1>1, Counting
<1>4. Fresh \in PlayerRecords
  BY <1>3, PregameAssumption DEF Fresh, PlayerRecords, Decisions
<1>5. \A x \in Players : SeatFits("commander-reveal", 0, fresh[x], zero[x], zero[x])
  BY DEF SeatFits, Untouched, Fresh
<1>6. TableFits("commander-reveal", 1, 0, fresh, zero, zero)
  BY <1>1, <1>3, <1>4, <1>5, PregameAssumption
     DEF TableFits, Phases, Nobody, Players, PlayerCounts
<1>7. /\ table.phase = "commander-reveal" /\ table.current = 1 /\ table.round = 0
      /\ table.player = fresh /\ core.hand = zero /\ core.mulligans = zero
  BY <1>2 DEF Row, Root
<1> HIDE DEF fresh, zero
<1> QED BY <1>1, <1>2, <1>6, <1>7 DEF PregameInv, At

LEMMA PregameSteps ==
  ASSUME PregameInv, NEW p \in Players, ApplyPregameCommand(p) PROVE PregameInv'
<1>1. PICK ph, c, k, pl, h, m : At(ph, c, k, pl, h, m) BY DEF PregameInv
<1>2. playerCount \in PlayerCounts /\ UNCHANGED playerCount
  BY DEF PregameInv, ApplyPregameCommand
<1>3. CASE ConfirmCommanders(p) BY <1>1, <1>2, <1>3, ConfirmKeeps
<1>4. ASSUME NEW decision \in {"mulligan", "keep"}, DeclareMulligan(p, decision)
      PROVE  PregameInv'
  BY <1>1, <1>2, <1>4, DeclarationKeeps
<1>5. CASE SubmitMulliganBottom(p) BY <1>1, <1>2, <1>5, BottomKeeps
<1>6. CASE RecordManualAction(p) BY <1>1, <1>2, <1>6, ActionKeeps
<1>7. CASE CompletePregameActions(p) BY <1>1, <1>2, <1>7, CompleteKeeps
<1>8. ASSUME NEW ready \in BOOLEAN, SetReady(p, ready) PROVE PregameInv'
  BY <1>1, <1>2, <1>8, ReadyingKeeps
<1> QED BY <1>3, <1>4, <1>5, <1>6, <1>7, <1>8 DEF ApplyPregameCommand, PregameCommand

LEMMA PregameRests == ASSUME PregameInv, UNCHANGED pregameVars PROVE PregameInv'
<1>1. PICK ph, c, k, pl, h, m : At(ph, c, k, pl, h, m) BY DEF PregameInv
<1>2. UNCHANGED <<playerCount, table, core, replayed>> BY DEF pregameVars
<1> QED BY <1>1, <1>2, Moved DEF At, PregameInv

(* Who is present has a seat, and who has a socket is present. *)
Seated == present \subseteq Players /\ sockets \subseteq present

LEMMA SeatedNext == Inv /\ Seated /\ [Next]_vars => Seated'
<1> SUFFICES ASSUME Inv, Seated, [Next]_vars PROVE Seated' OBVIOUS
<1>1. CASE LobbyNext /\ UNCHANGED <<pregameVars, game, present, sockets>>
  BY <1>1 DEF Seated, pregameVars, Players
<1>2. CASE Start
  <2>1. Seats = Players BY SeatsArePlayers DEF Inv, LobbyInv
  <2> QED BY <1>2, <2>1 DEF Start, Seated, pregameVars, Players
<1>3. ASSUME NEW p \in Players, ApplyPregameCommand(p) PROVE Seated'
  BY <1>3, PregameKeeps DEF ApplyPregameCommand, Seated, Players
<1>4. ASSUME NEW p \in Players, OpenSocket(p) \/ CloseSocket(p) PROVE Seated'
  BY <1>4 DEF OpenSocket, CloseSocket, Seated, pregameVars, Players
<1>5. CASE UNCHANGED vars BY <1>5 DEF vars, Seated, pregameVars, Players
<1> QED BY <1>1, <1>2, <1>3, <1>4, <1>5 DEF Next

LEMMA PregameNext == PregameInv /\ [Next]_vars => PregameInv'
<1> SUFFICES ASSUME PregameInv, [Next]_vars PROVE PregameInv' OBVIOUS
<1>1. CASE UNCHANGED pregameVars BY <1>1, PregameRests
<1>2. ASSUME NEW p \in Players, ApplyPregameCommand(p) PROVE PregameInv'
  BY <1>2, PregameSteps
<1> QED BY <1>1, <1>2 DEF Next, Start, OpenSocket, CloseSocket, vars

LEMMA AlwaysPregame == Spec => [](Inv /\ Seated /\ PregameInv)
<1>1. Init => Seated BY DEF Init, StartedTable, Seated, Players
<1> QED BY <1>1, InitInv, NextInv, SeatedNext, PregameStarts, PregameNext, PTL DEF Spec

-----------------------------------------------------------------------------
(* The properties *)

(* A table starts with the decks its participants declared themselves ready
   with (variable.ts and the lobby operations of persistence.ts). *)
THEOREM StartsWithDeclaredDecks == Spec => []StartsAsDeclared
<1>1. Inv => StartsAsDeclared
  BY SeatsArePlayers
     DEF Inv, LobbyInv, ReadyAsDeclared, Dealt, StartsAsDeclared
<1> QED BY <1>1, Always, PTL

(* Who lost a seat has it again only with a newer invite
   (replaceOnlineVariableLobbySeatV4, claimOnlineVariableLobbySeatV4). *)
THEOREM KickedNeedsNewInvite == Spec => []KickedStaysOut
<1>1. Inv => KickedStaysOut
  BY SeatsArePlayers DEF Inv, LobbyInv, SeatedByInvite, KickedStaysOut
<1> QED BY <1>1, Always, PTL

(* The completion of the pregame loses no disconnect (applyPregameCommandV1). *)
THEOREM CompletionKeepsPresence == Spec => PresenceIsKept
<1>1. Inv /\ [Next]_vars =>
        [table.phase # "complete" /\ table'.phase = "complete"
           => present' = present]_vars
  <2> SUFFICES ASSUME Inv, Next, table.phase # "complete", table'.phase = "complete"
               PROVE  present' = present
    OBVIOUS
  <2>1. UNCHANGED table => FALSE OBVIOUS
  <2> QED BY <2>1, PregameKeeps
          DEF Next, Start, OpenSocket, CloseSocket, pregameVars
<1> QED BY <1>1, Always, PTL DEF Spec, PresenceIsKept

(* The validator reads back what the handler stored, except while a mulligan
   is declared and others have still to declare: the handler and the replay of
   its journal derive the same phase, order, rounds, records and hands at any
   table (handleOnlinePregameCommandEnvelopeV1, validateOnlinePregameStateV1). *)
THEOREM HandlerAndReplayAgree == Spec => []OnlyAnOpenWaveIsUnreadable
<1>1. PregameInv => OnlyAnOpenWaveIsUnreadable
  <2> SUFFICES ASSUME PregameInv PROVE OnlyAnOpenWaveIsUnreadable OBVIOUS
  <2> DEFINE open == /\ table.phase = "mulligan-declaration"
                     /\ Those(table, "mulliganDecision", "mulligan") # {}
  <2>1. PICK ph, c, k, pl, h, m : At(ph, c, k, pl, h, m) BY DEF PregameInv
  <2>2. /\ table.phase = ph /\ table.current = c /\ table.round = k
        /\ table.player = pl /\ core.hand = h /\ core.mulligans = m
        /\ replayed = Replay(ph, c, k, pl, h) /\ TableFits(ph, c, k, pl, h, m)
    BY <2>1, Parts DEF At
  <2>3. SameThose(table, pl) BY <2>2, ThoseOf
  <2>4. open <=> /\ ph = "mulligan-declaration"
                 /\ \E x \in Players : pl[x].mulliganDecision = "mulligan"
    <3>1. Those(table, "mulliganDecision", "mulligan")
            = {x \in Players : pl[x].mulliganDecision = "mulligan"}
      BY Zenon, <2>3 DEF SameThose, Decisions
    <3> QED BY <2>2, <3>1
  <2> HIDE DEF open
  <2>5. \A x \in Players :
          /\ pl[x] \in PlayerRecords /\ SeatFits(ph, k, pl[x], h[x], m[x])
          /\ h[x] \in 0..OpeningHand /\ m[x] \in 0..MaxMulligans
    BY <2>2 DEF TableFits
  <2>6. ASSUME open PROVE ~Readable
    <3>1. PICK x \in Players : pl[x].mulliganDecision = "mulligan" BY <2>4, <2>6
    <3>2. m[x] = pl[x].mulligansTaken - 1
      BY <2>4, <2>5, <2>6, <3>1 DEF SeatFits, Declares, Paid
    <3>3. pl[x].mulligansTaken \in Int BY <2>5, Counting DEF PlayerRecords, PregameInv
    <3> QED BY <2>2, <3>2, <3>3 DEF Readable, HandIsReadable
  <2>7. ASSUME ~open PROVE Readable
    <3>1. ASSUME NEW x \in Players PROVE PlayerIsReadable(pl[x]) /\ HandIsReadable(x)
      <4>1. /\ pl[x].mulligansTaken \in 0..MaxMulligans /\ BottomCount(0) = 0
            /\ pl[x].bottomCountRequired \in {0, BottomCount(pl[x].mulligansTaken)}
            /\ pl[x].bottomCountRequired \in 0..OpeningHand
            /\ pl[x].manualActionCount \in 0..ManualLimit
            /\ MaxMulligans \in Nat
        BY <2>4, <2>5, <2>7, <2>2, Counting
           DEF PlayerRecords, SeatFits, Untouched, Declares, Bottoms, Keeps, Paid,
               PregameInv, TableFits, Phases
      <4>2. HandIsReadable(x) <=>
              /\ m[x] = pl[x].mulligansTaken /\ h[x] = ExpectedHand(pl[x])
              /\ pl[x].pendingBottom <= h[x]
              /\ ph = "mulligan-bottom" =>
                   pl[x].pendingBottom <= pl[x].bottomCountRequired
              /\ ph # "mulligan-bottom" => pl[x].pendingBottom = 0
        BY Zenon, <2>2 DEF HandIsReadable
      <4>3. PlayerIsReadable(pl[x])
        BY <4>1, PregameAssumption DEF PlayerIsReadable
      <4>4. CASE ph = "mulligan-bottom" /\ pl[x].mulliganDecision = "mulligan"
        <5>1. ExpectedHand(pl[x]) = OpeningHand BY <2>2, <4>4 DEF ExpectedHand
        <5>2. Bottoms(k, pl[x], h[x], m[x]) BY <2>5, <4>4 DEF SeatFits
        <5> QED BY <4>1, <4>3, <4>4, <4>2, <5>1, <5>2, PregameAssumption DEF Bottoms
      <4>5. CASE ph = "commander-reveal"
        <5>1. ExpectedHand(pl[x]) = 0 BY <2>2, <4>5 DEF ExpectedHand
        <5>2. Untouched(pl[x], h[x], m[x]) BY <2>5, <4>5 DEF SeatFits
        <5> QED BY <4>3, <4>5, <4>2, <5>1, <5>2 DEF Untouched
      <4>6. CASE /\ ph # "commander-reveal"
                 /\ ~(ph = "mulligan-bottom" /\ pl[x].mulliganDecision = "mulligan")
        <5>1. Paid(pl[x], h[x], m[x], pl[x].mulligansTaken)
          BY <2>2, <2>4, <2>5, <2>7, <4>6
             DEF SeatFits, Declares, Bottoms, Keeps, TableFits, Phases
        <5>2. ExpectedHand(pl[x]) = OpeningHand - pl[x].bottomCountRequired
          BY <2>2, <4>6, <5>1 DEF ExpectedHand, Paid
        <5> QED BY <2>5, <4>1, <4>3, <4>6, <4>2, <5>1, <5>2 DEF Paid
      <4> QED BY <4>3, <4>4, <4>5, <4>6
    <3>2. PhaseIsReadable
      <4>1. /\ Those(table, "commanderConfirmed", TRUE)
                 = {x \in Players : pl[x].commanderConfirmed = TRUE}
            /\ Those(table, "ready", TRUE) = {x \in Players : pl[x].ready = TRUE}
        BY Zenon, <2>2 DEF Those
      <4>2. /\ ph \in {"ready", "complete"} <=> c = Nobody
            /\ ph = "commander-reveal" => k = 0
        BY <2>2 DEF TableFits
      <4>3. ph # "commander-reveal" =>
              Those(table, "commanderConfirmed", TRUE) = Players
        BY <2>5, <4>1 DEF SeatFits, PlayerRecords
      <4>4. ph = "complete" => Those(table, "ready", TRUE) = Players
        BY <2>5, <4>1 DEF SeatFits, PlayerRecords
      <4> QED BY <2>2, <4>2, <4>3, <4>4 DEF PhaseIsReadable
    <3>3. replayed = Replaying(table, core)
      BY Zenon, <2>2 DEF Replaying, Replay
    <3> QED BY <2>2, <3>1, <3>2, <3>3 DEF Readable
  <2> QED BY <2>6, <2>7 DEF OnlyAnOpenWaveIsUnreadable, open
<1> QED BY <1>1, AlwaysPregame, PTL

(* Every variable has its type, and past the mulligans everybody holds the
   opening hand but for what the mulligans taken cost, however the waves went
   (beginMulliganWave, finishBottom, commitCorePregameBottomBatchV1). *)
THEOREM MulligansPaidFor == Spec => []MulligansArePaid
<1>1. Inv /\ Seated /\ PregameInv => MulligansArePaid
  <2> SUFFICES ASSUME Inv, Seated, PregameInv PROVE MulligansArePaid OBVIOUS
  <2>1. PICK ph, c, k, pl, h, m : At(ph, c, k, pl, h, m) BY DEF PregameInv
  <2>2. /\ table.phase = ph /\ table.current = c /\ table.round = k
        /\ table.player = pl /\ core.hand = h /\ core.mulligans = m
        /\ TableFits(ph, c, k, pl, h, m)
    BY <2>1, Parts DEF At
  <2>3. TypeOfTable(table) BY <2>2 DEF TypeOfTable, TableFits, PlayerRecords
  <2>4. TypeOfLobby
    BY SeatsArePlayers
       DEF Inv, LobbyInv, LobbyTypes, LobbyRecords, SeatRecords, Rows, TypeOfLobby
  <2>5. TypeOK BY <2>2, <2>3, <2>4 DEF TypeOK, TableFits, Seated
  <2>6. ASSUME ph \in {"pregame-actions", "ready", "complete"}, NEW p \in Players
        PROVE  m[p] = pl[p].mulligansTaken /\ h[p] = OpeningHand - BottomCount(m[p])
    BY <2>2, <2>6 DEF TableFits, SeatFits, Keeps, Paid
  <2> QED BY <2>2, <2>5, <2>6 DEF MulligansArePaid
<1> QED BY <1>1, AlwaysPregame, PTL
=============================================================================
