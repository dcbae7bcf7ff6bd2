----------------------------- MODULE TableStart -----------------------------
(***************************************************************************)
(* From a variable lobby to a running table: the lobby, the transaction of *)
(* the start, the pregame and the room row the pregame is completed into,  *)
(* with the sockets that row's presence follows.                           *)
(***************************************************************************)
EXTENDS VariableLobby, Pregame

CONSTANT Absentees  \* the seats whose sockets open and close (a bound)

VARIABLES
  game,     \* the decks of which the start built the libraries
  present,  \* online_variable_room_state: the seats it stores as connected
  sockets   \* the seats with an authenticated socket

vars == <<lobbyVars, pregameVars, game, present, sockets>>

Started == lobby.lifecycle = "started"

(* A lobby of two seats that was just created, or a table of four whose start
   was just stored. *)
StartedTable(n) ==
  \E who \in [1..n -> Members], deck \in Decks :
    /\ who[1] = Host /\ \A i, j \in 1..n : who[i] = who[j] => i = j
    /\ lobby = [lifecycle |-> "started", admissionOpen |-> FALSE, admission |-> 0,
                seat |-> [i \in 1..n |-> [who |-> who[i], cap |-> 0,
                                          acceptedDeck |-> TRUE, ready |-> TRUE]]]
    /\ deckRow = [i \in 1..n |-> [who |-> who[i], deck |-> deck]]
    /\ declared = deckRow /\ game = deckRow
    /\ submissions = {} /\ issued = 0
    /\ invitation = [g \in Guests |-> 0] /\ barred = [g \in Guests |-> 0]
    /\ present = 1..n

Init ==
  /\ readBack \in BOOLEAN /\ playerCount \in PlayerCounts
  /\ PregameInit /\ sockets = {}
  /\ IF playerCount = 2 THEN LobbyInit(2) /\ game = <<>> /\ present = {}
     ELSE StartedTable(playerCount)

(* startVariableV4: one transaction creates the room row, the checkpoint, the
   security rows and the pregame, and closes the lobby.  A submission that
   still waits will find the lobby started. *)
Start ==
  /\ lobby.lifecycle = "ready"
  /\ \A i \in Seats : deckRow[i] # NoDeck
  /\ lobby' = [lobby EXCEPT !.lifecycle = "started", !.admissionOpen = FALSE]
  /\ game' = deckRow
  /\ present' = Seats
  /\ submissions' = {}
  /\ UNCHANGED <<deckRow, issued, invitation, barred, declared, pregameVars, sockets>>

(* applyPregameCommandV1 asks the room row whether the author is there; the
   completion stores the room the pregame carried since the start, with
   everybody present, over that row. *)
PregameCommand(p) ==
  \/ ConfirmCommanders(p)
  \/ \E decision \in {"mulligan", "keep"} : DeclareMulligan(p, decision)
  \/ SubmitMulliganBottom(p)
  \/ RecordManualAction(p)
  \/ CompletePregameActions(p)
  \/ \E ready \in BOOLEAN : SetReady(p, ready)

ApplyPregameCommand(p) ==
  /\ Started /\ p \in present
  /\ PregameCommand(p)
  /\ present' = IF table'.phase = "complete" THEN Players ELSE present
  /\ UNCHANGED <<lobbyVars, playerCount, readBack, game, sockets>>

(* A slip: sockets are admitted during the pregame. *)
AdmitsSocketsAtOnce == Started
(* The WebSocket route refuses until the pregame is complete. *)
AdmitsSockets == Started /\ table.phase = "complete"

OpenSocket(p) ==
  /\ AdmitsSockets
  /\ p \in Absentees /\ p \notin sockets
  /\ sockets' = sockets \union {p} /\ present' = present \union {p}
  /\ UNCHANGED <<lobbyVars, pregameVars, game>>

CloseSocket(p) ==
  /\ p \in sockets
  /\ sockets' = sockets \ {p} /\ present' = present \ {p}
  /\ UNCHANGED <<lobbyVars, pregameVars, game>>

Next ==
  \/ LobbyNext /\ UNCHANGED <<pregameVars, game, present, sockets>>
  \/ Start
  \/ \E p \in Players : \/ ApplyPregameCommand(p)
                        \/ OpenSocket(p) \/ CloseSocket(p)

Spec == Init /\ [][Next]_vars

-----------------------------------------------------------------------------
(* Properties *)

(* Every variable has its type. *)
TypeOK ==
  /\ TypeOfLobby
  /\ TypeOfTable(table)
  /\ core.hand \in [Players -> 0..OpeningHand]
  /\ core.mulligans \in [Players -> 0..MaxMulligans]
  /\ present \subseteq Players /\ sockets \subseteq present

(* A table starts with the decks its participants declared themselves ready
   with: whatever arrives while a resolver is awaited, and whatever a kick
   that was cut short left of a seat (submitVariableDeckV2, setVariableReadyV4,
   replaceVariableLobbySeatV4, startVariableV4). *)
StartsAsDeclared ==
  /\ \A i \in Seats : lobby.seat[i].ready => deckRow[i] \in {declared[i], NoDeck}
  /\ Started => /\ game = declared
                /\ \A i \in Seats : game[i].who = lobby.seat[i].who

(* Who lost a seat comes back only with an invite that is newer than the loss
   (replaceOnlineVariableLobbySeatV4, claimOnlineVariableLobbySeatV4). *)
KickedStaysOut ==
  \A i \in Seats : lobby.seat[i].who \in Guests =>
    invitation[lobby.seat[i].who] >= barred[lobby.seat[i].who]

(* The validator refuses a row the handler stored exactly while a mulligan was
   declared and the others have not declared yet: otherwise handler and
   validator agree on every number they both derive (handleOnlinePregame-
   CommandEnvelopeV1, validateOnlinePregameStateV1). *)
OnlyAnOpenWaveIsUnreadable ==
  Readable <=> ~(/\ table.phase = "mulligan-declaration"
                 /\ Those(table, "mulliganDecision", "mulligan") # {})

(* Every variable has its type, and once mulligans are over everybody holds a
   full hand but for the cards the mulligans taken cost: one each, the first
   free at a table of four (beginMulliganWave, finishBottom,
   commitCorePregameBottomBatchV1). *)
MulligansArePaid ==
  /\ TypeOK
  /\ table.phase \in {"pregame-actions", "ready", "complete"} =>
       \A p \in Players :
         /\ core.mulligans[p] = table.player[p].mulligansTaken
         /\ core.hand[p] = OpeningHand - BottomCount(core.mulligans[p])

(* The completion of the pregame, which stores the room as it was at the
   start, loses no disconnect (applyPregameCommandV1 and the routes that are
   closed until then). *)
PresenceIsKept ==
  [][table.phase # "complete" /\ table'.phase = "complete"
       => present' = present]_vars

(* What the pregame's tests take for granted: the row that was stored after an
   accepted command can be read for the next one. *)
RowIsReadable == Started /\ readBack => Readable
=============================================================================
