--------------------------- MODULE DeckSubmission ---------------------------
(***************************************************************************)
(* The decks of a forming four seat lobby, as OnlineCloudflareRepository   *)
(* keeps them (online/cloudflare/persistence.ts).  A submission is stored  *)
(* as resolving in one transaction, its cards are fetched while other      *)
(* requests are served, and a second transaction settles it.  In between   *)
(* the tenant may submit another deck or leave the seat, the host may      *)
(* start the game, and the Durable Object may be evicted, which forgets    *)
(* the fetches but not the rows.                                           *)
(*                                                                         *)
(* A submission is what a client sends: its author, the identifier the     *)
(* client drew for it, its content, and whether the content is sound, can  *)
(* be stored but not read as a deck (garbled), or cannot be stored at all  *)
(* (unreadable).  A resolved snapshot is represented by the content it was *)
(* resolved from.  Requests the code answers without any effect (a foreign *)
(* seat, a bad deck before the first good one) are left out.               *)
(***************************************************************************)
EXTENDS Naturals, FiniteSets

CONSTANTS
  Seats,        \* seat indices, 0 is the host's
  Host,         \* lobby.hostParticipantId
  People,       \* everybody who may take a seat
  Submissions,  \* the requests clients may send, any number of times
  None,         \* SQL NULL, or no row
  MaxRevision,  \* bound on a head's revision
  MaxRestarts   \* bound on evictions of the Durable Object

(* What a head, and the history row of its submission, hold. *)
Rows == [submission : Submissions, revision : 1 .. MaxRevision,
         state : {"resolving", "accepted", "needs-attention"}]

(* Clients draw a fresh identifier for every submission. *)
ASSUME SubmissionsAssumption ==
  /\ 0 \in Seats /\ Seats \subseteq Nat /\ IsFiniteSet(Seats)
  /\ MaxRevision \in Nat /\ MaxRestarts \in Nat
  /\ Host \in People
  /\ None \notin People \union Rows
  /\ \A s \in Submissions : s.participant \in People
  /\ \A s, t \in Submissions : s.id = t.id => s.participant = t.participant

VARIABLES
  tenant,    \* lobby.seats[].participantId
  seated,    \* history: everybody who ever had a seat
  head,      \* online_deck_submission_head_v2
  history,   \* online_deck_submission_history_v2
  snapshot,  \* online_deck_submission_snapshot_v2
  ready,     \* online_deck_submission_ready_v2
  fetching,  \* deckInflight: submissions whose cards are being fetched
  room,      \* "forming", "active", "finished", or "closed" by the host
  genesis,   \* the decks the room was created with
  agreed,    \* history: the head each tenant declared itself ready with
  refused,   \* history: submissions answered with needs-attention
  restarts   \* how often the object was evicted

lobbyVars == <<tenant, seated>>
deckVars  == <<head, history, snapshot, ready>>
roomVars  == <<room, genesis, agreed>>
vars == <<lobbyVars, deckVars, fetching, roomVars, refused, restarts>>

Row(s, revision, state) ==
  [submission |-> s, revision |-> revision, state |-> state]

Same(s, t) == s.id = t.id /\ s.content = t.content

Init ==
  /\ tenant = [i \in Seats |-> IF i = 0 THEN Host ELSE None]
  /\ seated = {Host}
  /\ head = [i \in Seats |-> None]
  /\ history = [i \in Seats |-> {}]
  /\ snapshot = [i \in Seats |-> None]
  /\ ready = [i \in Seats |-> FALSE]
  /\ fetching = {}
  /\ room = "forming"
  /\ genesis = [i \in Seats |-> None]
  /\ agreed = [i \in Seats |-> None]
  /\ refused = {}
  /\ restarts = 0

-----------------------------------------------------------------------------
(* What validateDeckRelations demands before a request may read the rows. *)
Accepted(i) == head[i] # None /\ head[i].state = "accepted"

DeckRelations ==
  \A i \in Seats :
    /\ head[i] # None => /\ tenant[i] = head[i].submission.participant
                         /\ head[i] \in history[i]
    /\ head[i] = None => history[i] = {}
    /\ IF Accepted(i) THEN snapshot[i] = head[i].submission.content
                      ELSE snapshot[i] = None
    /\ ready[i] => Accepted(i)

(* Only an active room turns submissions away. *)
Submitting(i, s) ==
  /\ room \in {"forming", "finished"}
  /\ tenant[i] = s.participant
  /\ DeckRelations

RowsOf(i, s) == {row \in history[i] : row.submission.id = s.id}
Written(i, row) == [history EXCEPT ![i] = (@ \ RowsOf(i, row.submission)) \union {row}]

NextRevision(i) == IF head[i] = None THEN 1 ELSE head[i].revision + 1

(* A slip: a seat that was ready stays so. *)
ReadyKept(i) == ready
Unready(i) == [ready EXCEPT ![i] = FALSE]

(* The seat's head becomes row, and nothing of an earlier deck is left. *)
ReplaceHead(i, row) ==
  /\ row.revision <= MaxRevision
  /\ head' = [head EXCEPT ![i] = row]
  /\ history' = Written(i, row)
  /\ snapshot' = [snapshot EXCEPT ![i] = None]
  /\ ready' = Unready(i)

Fetch(i, s, revision) ==
  fetching' = fetching \union {[seat |-> i, submission |-> s, revision |-> revision]}

(* A slip: the key of deckInflight names the seat and not the submission. *)
FetchedOnSeat(i, s) == \E f \in fetching : f.seat = i
Fetched(i, s) ==
  \E f \in fetching : f.seat = i /\ f.submission.id = s.id

(* An identifier used before for other content, or a submission that is
   settled, is answered from its row. *)
AnswerStored(i, s) ==
  /\ Submitting(i, s)
  /\ s.form # "unreadable"
  /\ \E row \in RowsOf(i, s) :
       Same(row.submission, s) => row.state = "needs-attention"
  /\ refused' = refused \union {s}
  /\ UNCHANGED <<lobbyVars, deckVars, fetching, roomVars, restarts>>

(* A sound submission that is new, or that was superseded before its cards
   came and whose fetch was forgotten or threw. *)
Begin(i, s) ==
  /\ Submitting(i, s)
  /\ s.form = "sound"
  /\ \A row \in RowsOf(i, s) : /\ Same(row.submission, s)
                               /\ row.state = "resolving"
                               /\ ~Fetched(i, s)
                               /\ ~Same(head[i].submission, s)
  /\ ReplaceHead(i, Row(s, NextRevision(i), "resolving"))
  /\ Fetch(i, s, NextRevision(i))
  /\ UNCHANGED <<lobbyVars, roomVars, refused, restarts>>

(* The submission the seat still waits for, after its fetch was forgotten or
   its completion threw. *)
MayResume(i, s) ==
  /\ Submitting(i, s)
  /\ s.form = "sound"
  /\ \E row \in RowsOf(i, s) : /\ Same(row.submission, s)
                               /\ row.state = "resolving"
  /\ ~Fetched(i, s)
  /\ Same(head[i].submission, s)

Resume(i, s) ==
  /\ MayResume(i, s)
  /\ Fetch(i, s, head[i].revision)
  /\ UNCHANGED <<lobbyVars, deckVars, roomVars, refused, restarts>>

(* A deck that cannot be read supersedes the one before it, too. *)
BeginInvalid(i, s) ==
  /\ Submitting(i, s)
  /\ s.form = "garbled"
  /\ RowsOf(i, s) = {}
  /\ head[i] # None
  /\ ReplaceHead(i, Row(s, NextRevision(i), "needs-attention"))
  /\ refused' = refused \union {s}
  /\ UNCHANGED <<lobbyVars, fetching, roomVars, restarts>>

(* A body that cannot even be stored spoils the deck the seat has. *)
InvalidateFailed(i, s) ==
  /\ Submitting(i, s)
  /\ s.form = "unreadable"
  /\ head[i] # None
  /\ ReplaceHead(i, Row(head[i].submission, NextRevision(i), "needs-attention"))
  /\ refused' = refused \union {s}
  /\ UNCHANGED <<lobbyVars, fetching, roomVars, restarts>>

-----------------------------------------------------------------------------
(* completeDeckV2, after the awaited resolver, which reports every failure of
   the card service as an outcome and never throws.  The completion itself
   may throw. *)

(* A slip: the revision alone tells whether the seat still waits for f. *)
AwaitedByRevision(f) ==
  head[f.seat] # None /\ head[f.seat].revision = f.revision
Awaited(f) ==
  /\ head[f.seat] # None
  /\ head[f.seat].revision = f.revision
  /\ Same(head[f.seat].submission, f.submission)

Done(f) == fetching \ {f}

(* A slip: a superseded submission stays resolving in the history. *)
Unrecorded(f) == history
Superseded(f) ==
  Written(f.seat, Row(f.submission, f.revision, "needs-attention"))

(* assertNoConfiguredCapabilityFragmentV1 finds eight characters of a seat or
   invite capability in the resolved snapshot, whose contents are left out
   here, and throws before the transaction: the fetch is over, the rows stay
   as they are, and the request is answered with an error. *)
ThrowOnFragment(f) ==
  /\ f \in fetching
  /\ room # "closed"
  /\ fetching' = Done(f)
  /\ UNCHANGED <<lobbyVars, deckVars, roomVars, refused, restarts>>

(* The seat has moved on: only the submission's own row may change.  Where
   the row is gone with its tenant the transaction fails, and the request is
   answered with a conflict. *)
Discard(f) ==
  /\ f \in fetching /\ ~Awaited(f)
  /\ fetching' = Done(f)
  /\ IF head[f.seat] # None /\ head[f.seat].submission.id # f.submission.id
     THEN IF RowsOf(f.seat, f.submission) # {}
          THEN /\ history' = Superseded(f)
               /\ refused' = refused \union {f.submission}
          ELSE UNCHANGED <<history, refused>>
     ELSE /\ refused' = IF room = "closed" THEN refused
                        ELSE refused \union {f.submission}
          /\ UNCHANGED history
  /\ UNCHANGED <<lobbyVars, head, snapshot, ready, roomVars, restarts>>

Settle(f, state) ==
  LET row == Row(f.submission, f.revision, state)
  IN  /\ f \in fetching /\ Awaited(f)
      /\ fetching' = Done(f)
      /\ IF Accepted(f.seat) THEN UNCHANGED <<head, history, snapshot>>
         ELSE /\ head' = [head EXCEPT ![f.seat] = row]
              /\ history' = Written(f.seat, row)
              /\ snapshot' = [snapshot EXCEPT ![f.seat] =
                                IF state = "accepted" THEN f.submission.content
                                                      ELSE None]
      /\ refused' = IF Accepted(f.seat) \/ state = "accepted" THEN refused
                    ELSE refused \union {f.submission}
      /\ UNCHANGED <<lobbyVars, ready, roomVars, restarts>>

Resolve(f)  == Settle(f, "accepted")
FailToResolve(f) == Settle(f, "needs-attention")

-----------------------------------------------------------------------------
(* The lobby around the decks *)

SetReady(i, value) ==
  /\ room = "forming"
  /\ tenant[i] # None
  /\ DeckRelations
  /\ Accepted(i)
  /\ ready' = [ready EXCEPT ![i] = value]
  /\ agreed' = [agreed EXCEPT ![i] = IF value THEN head[i] ELSE @]
  /\ UNCHANGED <<lobbyVars, head, history, snapshot, fetching, room, genesis,
                 refused, restarts>>

StartWithTable ==
  /\ room = "forming"
  /\ DeckRelations
  /\ \A i \in Seats : tenant[i] # None /\ Accepted(i) /\ ready[i]
  /\ room' = "active"
  /\ genesis' = snapshot
  /\ UNCHANGED <<lobbyVars, deckVars, fetching, agreed, refused, restarts>>

(* The game ends; the lobby rows stay. *)
FinishGame ==
  /\ room = "active"
  /\ room' = "finished"
  /\ UNCHANGED <<lobbyVars, deckVars, fetching, genesis, agreed, refused,
                 restarts>>

(* A kick or a leave frees the seat and deletes its decks. *)
ReplaceSeat(i) ==
  /\ room = "forming"
  /\ i # 0 /\ tenant[i] # None
  /\ tenant' = [tenant EXCEPT ![i] = None]
  /\ head' = [head EXCEPT ![i] = None]
  /\ history' = [history EXCEPT ![i] = {}]
  /\ snapshot' = [snapshot EXCEPT ![i] = None]
  /\ ready' = Unready(i)
  /\ UNCHANGED <<seated, fetching, roomVars, refused, restarts>>

(* Whoever joins sits down on the first free seat, under a new name. *)
ClaimSeat(p) ==
  /\ room = "forming"
  /\ p \notin seated
  /\ \E i \in Seats :
       /\ tenant[i] = None
       /\ \A k \in Seats : tenant[k] = None => i <= k
       /\ tenant' = [tenant EXCEPT ![i] = p]
  /\ seated' = seated \union {p}
  /\ UNCHANGED <<deckVars, fetching, roomVars, refused, restarts>>

(* The host leaves: the lobby and all its rows are deleted. *)
DeleteLobby ==
  /\ room = "forming"
  /\ room' = "closed"
  /\ tenant' = [i \in Seats |-> None]
  /\ head' = [i \in Seats |-> None]
  /\ history' = [i \in Seats |-> {}]
  /\ snapshot' = [i \in Seats |-> None]
  /\ ready' = [i \in Seats |-> FALSE]
  /\ UNCHANGED <<seated, fetching, genesis, agreed, refused, restarts>>

(* The object is evicted: rows stay, fetches are forgotten. *)
Restart ==
  /\ restarts < MaxRestarts
  /\ restarts' = restarts + 1
  /\ fetching' = {}
  /\ UNCHANGED <<lobbyVars, deckVars, roomVars, refused>>

Next ==
  \/ \E i \in Seats, s \in Submissions :
       \/ AnswerStored(i, s) \/ Begin(i, s) \/ Resume(i, s)
       \/ BeginInvalid(i, s) \/ InvalidateFailed(i, s)
  \/ \E f \in fetching :
       ThrowOnFragment(f) \/ Discard(f) \/ Resolve(f) \/ FailToResolve(f)
  \/ \E i \in Seats : ReplaceSeat(i) \/ \E value \in BOOLEAN : SetReady(i, value)
  \/ \E p \in People : ClaimSeat(p)
  \/ StartWithTable \/ FinishGame \/ DeleteLobby \/ Restart

Spec == Init /\ [][Next]_vars

-----------------------------------------------------------------------------
Contents == {s.content : s \in Submissions}

TypeOK ==
  /\ tenant \in [Seats -> People \union {None}]
  /\ seated \subseteq People
  /\ head \in [Seats -> Rows \union {None}]
  /\ history \in [Seats -> SUBSET Rows]
  /\ snapshot \in [Seats -> Contents \union {None}]
  /\ ready \in [Seats -> BOOLEAN]
  /\ fetching \subseteq [seat : Seats, submission : Submissions,
                         revision : 1 .. MaxRevision]
  /\ room \in {"forming", "active", "finished", "closed"}
  /\ genesis \in [Seats -> Contents \union {None}]
  /\ agreed \in [Seats -> Rows \union {None}]
  /\ refused \subseteq Submissions
  /\ restarts \in 0 .. MaxRestarts

-----------------------------------------------------------------------------
(* Properties *)

(* Whatever a slow fetch finds when it ends, the rows it leaves are well typed
   and pass validateDeckRelations: no late answer makes the lobby unreadable, puts a
   deck of one tenant on the seat of another, or leaves a snapshot behind. *)
LobbyStaysReadable == TypeOK /\ DeckRelations

(* A seat counts as ready only for the very deck its tenant was shown when it
   declared so, and the game is dealt from those decks. *)
StartsAsAgreed ==
  /\ \A i \in Seats : ready[i] /\ Accepted(i) => agreed[i] = head[i]
  /\ room \in {"active", "finished"} =>
       \A i \in Seats : genesis[i] = agreed[i].submission.content

(* A submission that was answered with needs-attention is never the accepted
   deck of a seat afterwards. *)
RefusedIsFinal ==
  \A i \in Seats : Accepted(i) => head[i].submission \notin refused

(* A deck that is shown as resolving is being resolved, or sending it again
   has it resolved: neither an eviction, nor a completion that threw, nor the
   fetches of decks given up since keep a seat waiting for a fetch nobody
   makes and nobody can ask for. *)
NoSeatIsStuck ==
  \A i \in Seats :
    head[i] # None /\ head[i].state = "resolving"
    => \/ \E f \in fetching : f.seat = i /\ Awaited(f)
       \/ MayResume(i, head[i].submission)
=============================================================================
