---------------------------- MODULE VariableLobby ----------------------------
(***************************************************************************)
(* The lobby of a variable room before its table starts: seats are claimed *)
(* with the invite of the day, decks submitted and resolved, seats readied,*)
(* emptied and offered again (online/lobby/variable.ts and the operations  *)
(* of cloudflare/persistence.ts that store it).  The Durable Object handles*)
(* a request in one go, except that a submission waits for the resolver.   *)
(***************************************************************************)
EXTENDS Naturals, FiniteSets

CONSTANTS
  Host,        \* the participant of the first seat
  Guests,      \* the participants who may claim the others
  Decks,       \* what a participant may submit, as far as its digest tells
  MaxIssued,   \* how many capabilities replace others (a bound)
  MaxInFlight, \* how many submissions wait for the resolver (a bound)
  Unseated     \* no participant

ASSUME LobbyAssumption ==
  /\ Host \notin Guests /\ Unseated \notin Guests \union {Host}
  /\ MaxIssued \in Nat

Members == Guests \union {Host}
NoDeck  == [who |-> Unseated, deck |-> "none"]

VARIABLES
  lobby,       \* lifecycle ("closed": the row is deleted), admissionOpen, the
               \* generation of admissionCapability, the seats
  deckRow,     \* for each seat: deck head, history and snapshot, written and
               \* deleted together
  submissions, \* the submissions that wait for the resolver
  issued,      \* the generation of the newest capability
  invitation,  \* history: the newest invite each guest was told
  barred,      \* history: the invite that was new when the guest lost a seat
  declared     \* history: the deck row with which a seat became ready

lobbyVars == <<lobby, deckRow, submissions, issued, invitation, barred, declared>>

Seats == DOMAIN lobby.seat
SeatOf(p) == {i \in Seats : lobby.seat[i].who = p}

EmptySeat(cap) ==
  [who |-> Unseated, cap |-> cap, acceptedDeck |-> FALSE, ready |-> FALSE]

(* createOnlineVariableLobbyV4 *)
LobbyOf(n) ==
  [lifecycle |-> "forming", admissionOpen |-> TRUE, admission |-> 0,
   seat |-> [i \in 1..n |->
              [EmptySeat(0) EXCEPT !.who = IF i = 1 THEN Host ELSE Unseated]]]

LobbyInit(n) ==
  /\ lobby = LobbyOf(n)
  /\ deckRow = [i \in 1..n |-> NoDeck] /\ declared = [i \in 1..n |-> NoDeck]
  /\ submissions = {} /\ issued = 0
  /\ invitation = [g \in Guests |-> 0] /\ barred = [g \in Guests |-> 0]

(* mutate: the lifecycle follows from the seats. *)
WithSeats(seat) ==
  [lobby EXCEPT
     !.seat = seat,
     !.lifecycle = IF \A i \in Seats : /\ seat[i].who # Unseated
                                       /\ seat[i].acceptedDeck /\ seat[i].ready
                   THEN "ready" ELSE "forming"]

Live == lobby.lifecycle \in {"forming", "ready"}

-----------------------------------------------------------------------------
(* Invites and seats *)

(* The host tells a guest the invite of the day, outside the system. *)
Invite(g) ==
  /\ Live /\ invitation[g] # lobby.admission
  /\ invitation' = [invitation EXCEPT ![g] = lobby.admission]
  /\ UNCHANGED <<lobby, deckRow, submissions, issued, barred, declared>>

ClaimSeat(g) ==
  /\ lobby.admissionOpen /\ lobby.lifecycle = "forming"
  /\ invitation[g] = lobby.admission
  /\ SeatOf(g) = {} /\ SeatOf(Unseated) # {}
  /\ LET i == CHOOSE i \in SeatOf(Unseated) :
                \A j \in SeatOf(Unseated) : i <= j
     IN lobby' = WithSeats([lobby.seat EXCEPT ![i].who = g])
  /\ UNCHANGED <<deckRow, submissions, issued, invitation, barred, declared>>

RotateAdmission ==
  /\ lobby.lifecycle = "forming" /\ issued < MaxIssued
  /\ issued' = issued + 1
  /\ lobby' = [lobby EXCEPT !.admission = issued', !.admissionOpen = TRUE]
  /\ UNCHANGED <<deckRow, submissions, invitation, barred, declared>>

CloseAdmission ==
  /\ lobby.lifecycle = "forming"
  /\ lobby' = [lobby EXCEPT !.admissionOpen = FALSE]
  /\ UNCHANGED <<deckRow, submissions, issued, invitation, barred, declared>>

(* A slip: the invite stays as it was. *)
VacatedOnTheOldInvite(i) ==
  [lobby EXCEPT !.seat[i] = EmptySeat(issued + 1), !.admissionOpen = TRUE]
Vacated(i) == [lobby EXCEPT !.seat[i] = EmptySeat(issued + 1),
                            !.admission = issued + 1, !.admissionOpen = TRUE]

(* replaceVariableLobbySeatV4, for a kick and for a guest who leaves: the deck
   rows are deleted in one transaction and the lobby is stored in the next,
   which a crash may lose. *)
ReplaceSeat(i, crashes) ==
  /\ lobby.lifecycle = "forming" /\ issued < MaxIssued
  /\ lobby.seat[i].who \in Guests
  /\ deckRow' = [deckRow EXCEPT ![i] = NoDeck]
  /\ IF crashes THEN UNCHANGED <<lobby, issued, barred, declared>>
     ELSE /\ issued' = issued + 1
          /\ lobby' = Vacated(i)
          /\ barred' = [barred EXCEPT ![lobby.seat[i].who] = issued']
          /\ declared' = [declared EXCEPT ![i] = NoDeck]
  /\ UNCHANGED <<submissions, invitation>>

(* The host leaves: only the lobby row is deleted. *)
HostLeaves ==
  /\ Live
  /\ lobby' = [lobby EXCEPT !.lifecycle = "closed", !.admissionOpen = FALSE]
  /\ UNCHANGED <<deckRow, submissions, issued, invitation, barred, declared>>

-----------------------------------------------------------------------------
(* Decks and readiness *)

(* submitVariableDeckV2 until it awaits the resolver. *)
SubmitDeck(p, deck) ==
  /\ lobby.lifecycle = "forming" /\ Cardinality(submissions) < MaxInFlight
  /\ \E i \in SeatOf(p) :
       /\ ~lobby.seat[i].ready
       /\ submissions' = submissions \union
            {[who |-> p, seat |-> i, cap |-> lobby.seat[i].cap, deck |-> deck]}
  /\ UNCHANGED <<lobby, deckRow, issued, invitation, barred, declared>>

(* A slip: the seat is not looked up again after the wait. *)
SeatFoundBefore(s) ==
  lobby.lifecycle = "forming" /\ ~lobby.seat[s.seat].ready
(* The seat is still the submitter's and still not ready. *)
StillOpen(s) ==
  /\ lobby.lifecycle = "forming"
  /\ lobby.seat[s.seat].who = s.who /\ lobby.seat[s.seat].cap = s.cap
  /\ ~lobby.seat[s.seat].ready

(* The resolver answers: the lobby is read again, and the deck replaces the one
   the seat has (the same deck only repairs the seat). *)
ResolveDeck(s) ==
  /\ submissions' = submissions \ {s}
  /\ IF StillOpen(s)
     THEN /\ deckRow' = [deckRow EXCEPT ![s.seat] = [who |-> s.who, deck |-> s.deck]]
          /\ lobby' = WithSeats([lobby.seat EXCEPT ![s.seat].acceptedDeck = TRUE,
                                                   ![s.seat].ready = FALSE])
     ELSE UNCHANGED <<lobby, deckRow>>
  /\ UNCHANGED <<issued, invitation, barred, declared>>

(* The resolver finds cards it does not know: nothing is stored. *)
RefuseDeck(s) ==
  /\ submissions' = submissions \ {s}
  /\ UNCHANGED <<lobby, deckRow, issued, invitation, barred, declared>>

SetSeatReady(i, ready) ==
  /\ Live
  /\ lobby.seat[i].who # Unseated /\ lobby.seat[i].acceptedDeck
  /\ lobby.seat[i].ready # ready
  /\ lobby' = WithSeats([lobby.seat EXCEPT ![i].ready = ready])
  /\ declared' = [declared EXCEPT ![i] = IF ready THEN deckRow[i] ELSE NoDeck]
  /\ UNCHANGED <<deckRow, submissions, issued, invitation, barred>>

LobbyNext ==
  \/ \E g \in Guests : Invite(g) \/ ClaimSeat(g)
  \/ RotateAdmission \/ CloseAdmission \/ HostLeaves
  \/ \E i \in Seats, crashes \in BOOLEAN : ReplaceSeat(i, crashes)
  \/ \E p \in Members, deck \in Decks : SubmitDeck(p, deck)
  \/ \E s \in submissions : ResolveDeck(s) \/ RefuseDeck(s)
  \/ \E i \in Seats, ready \in BOOLEAN : SetSeatReady(i, ready)

TypeOfLobby ==
  /\ lobby.lifecycle \in {"forming", "ready", "started", "closed"}
  /\ lobby.admissionOpen \in BOOLEAN /\ lobby.admission \in 0..MaxIssued
  /\ lobby.seat \in [Seats -> [who : Members \union {Unseated},
                               cap : 0..MaxIssued,
                               acceptedDeck : BOOLEAN, ready : BOOLEAN]]
  /\ deckRow \in [Seats -> [who : Members, deck : Decks] \union {NoDeck}]
  /\ submissions \subseteq [who : Members, seat : Seats, cap : 0..MaxIssued,
                            deck : Decks]
  /\ issued \in 0..MaxIssued
==============================================================================
