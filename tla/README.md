# Verification of MTG_OneDeck

MTG_OneDeck is a React and TypeScript Commander table: a rules Core, a local table, and a
server authoritative online room that runs in a Cloudflare Durable Object. The modules
here model the parts whose correctness depends on the order in which things happen:
messages that are lost and repeated, connections that die unnoticed, sockets that come and
go, capabilities that are rotated, decks that resolve slowly, commands that are undone, rows
that are written by several transactions, an object that may be evicted between two of them,
and a turn that several players answer. Source paths are relative to `src/src/`.

Contents: 1 the system; 2 plan; 3 modules and code; 4 runs; 5 proofs; 6 findings and
observations; 7 what is not modelled.

## 1. The system

### Parts

| part | state it keeps | operations | what is hard | what makes it correct |
| --- | --- | --- | --- | --- |
| room (`online/room`) | participants with presence, two or four seats with readiness and outcome, lifecycle | create, join, disconnect, rejoin, set ready, start, activate, reconcile with the Core | the lifecycle is derived from joins, disconnects and readiness, and derived again by the validator | a started room never forms again; outcomes and lifecycle follow the Core |
| command protocol 1 (`online/protocol`) | room, Core root, revision, command receipts | hello, snapshot, command | lost and repeated envelopes, races for a revision, identifiers used twice; the state is validated before every handler | a command is applied at most once and on the root it was based on; an answer is never contradicted; no handler leaves a state the next one refuses |
| command protocol 2 (`online/protocol/variableCommand.ts`) | the same for two or four seats, and a checkpoint for one shared undo | command, undo, manual combat damage | an undo races with a command; a concession is undone; the checkpoint grows stale | the table is what the commands that were not undone made; somebody can always move on |
| security (`online/cloudflare/security.ts`) | for each participant a grant with generation and retired tokens, for each player a controller lease; rate windows, audit rows | authorize, rotate, acquire and release a lease | rotation while sockets of the old generation are open, expiry, two devices of a player | rows stay readable; one device controls a seat at a time |
| runtime (`online/cloudflare/runtime.ts`, `websocket.ts`) | sockets with attachments that survive hibernation | routes, upgrade, frames, close, revision notices | two sockets of a participant, which close means absence, who is told of a revision | presence follows the sockets; everybody is told |
| store (`online/cloudflare/persistence.ts`) | room row, journal, checkpoint, verification marker, lobby and deck rows, pregame row | commit, presence, checkpoint, load with replay, deck submission, pregame command | a crash between two transactions; an awaited resolver | what was acknowledged survives an eviction; a late answer harms nothing |
| lobbies (`online/lobby`), decks (`online/deckSubmission`) | seats, claims, deck heads and history, readiness, revision, admission capability | claim, leave, kick, submit, ready, rotate, close, start | replacement while a deck resolves; retries after an eviction; a kick in two transactions | the game is dealt from the decks declared ready; a kicked guest needs a newer invite |
| pregame (`online/pregame`) | a journal of decisions, the Core before revision 0 | reveal, declare a mulligan, bottom cards, record an action, ready, complete | the row is read back with an independent replay; completion carries presence read at the start | a row that is stored can be read; mulligans are paid; completion loses no disconnect |
| browser client (`online/browser/client.ts`) | phase, connection epoch, pending and settled commands, revisions, deadlines | hello, projection, submit, recovery | replay after reconnection, notices that overtake projections, deadlines, its own lease left behind | the outbox learns what became of each command; every wait ends |
| Core (`engine/core`) | the game | turn operations, `applyCoreCommandV1` | passes of an older object, triggers in cleanup, HOLDs, departures in the middle of anything | nothing resolves unanswered; every turn ends clean; nobody who left is waited for |
| cockpit sessions (`online/cockpit`) | session records: multiplayer grants, revision, undo and redo stacks, time to live | create, join, command, undo, redo | one request is one transaction | |
| display pairing, projections, workbench | none: views and bindings of a state or an intent | | | |
| local store (`store/gameStore.ts`), solo engine (`engine/commands.ts`) | a local game and its history | dispatch, undo, redo, save | none concurrent | undo and redo are inverses |
| UI, card data, grammar, research, scripts | | | | |

### How they interact

A client sends frames over a socket (or an HTTP request) to the runtime. The runtime loads
the security rows, authorizes the token and the attachment, loads the protocol state from
the store, and calls a protocol handler, a pure function from a state and a message to a
state and an answer. The handler calls the room operations and the Core. The runtime then
commits the new state in one storage transaction, sends the answer, and broadcasts the new
revision to the authenticated sockets. A request is served without interruption except where
it awaits something outside the object. The deck resolver is the important case: it is awaited
between two transactions, and any other request may run in between. Some requests use two or
three transactions (a kick, the load after an eviction); an eviction forgets everything but the
rows and the socket attachments.

The headless host (`online/headless`) calls the same version 1 handlers and keeps every
state they return. The Durable Object keeps a state only with a fresh acknowledgement.

The online Core is reached through a binder (`online/tabletop/server.ts`) that admits some of
the Core's commands and fills in their arguments. The library's own turn operations
(`engine/core/turn`) can do more than those commands reach; both are modelled.

`PROJECT.json` lists every part with its files, and every hazard with its line and the
properties that watch it.

## 2. Plan

The order follows the weight of what a mistake would cost: first what an accepted command
is, then who may send one, then what the room is started from, what a crash leaves, what the
game itself waits for, and what the other end of the connection makes of it.

| step | module | abstract specification or composition | state |
| --- | --- | --- | --- |
| 1 | `OnlineProtocol` | implements `CommandLog` | done, proved with the refinement |
| 2 | `SocketSessions` | | done, proved |
| 3 | `VariableProtocol` | implements `CommandLog` | done, proved with the refinement |
| 4 | `DeckSubmission` | | done, proved |
| 5 | `RoomStore` | implements `DurableLog` | done, proved with the refinement |
| 6 | `VariableLobby`, `Pregame` | composed by `TableStart` | done; lobby, pregame and composition proved |
| 7 | `CoreTurn` | used by `TurnEngine` (the library) and `CoreCommands` (what a client reaches) | done; the safety of both proved |
| 8 | `BrowserClient` | the client against the sockets of its object | done, its safety proved |
| 9 | cockpit sessions | undo and redo stacks of one table | left: a table of its own for which no run is free; each request is one transaction |

A planned `OnlineRoom` (the room before the start) was given up: the server forms a room in one
go and in one fixed order (`online/genesis`, `online/bootstrap`), so that there is nothing to
interleave, and the room during the game is part of the two protocol modules.

Every invariant, action property and refinement that a passing run checks is also stated by a
theorem; the liveness properties cannot be (section 5).

Questions that share an instance share a run.

## 3. Modules and code

Definitions carry the source's names where they exist there; `PROJECT.json` maps every one
to its lines. A definition commented "A slip" is not part of a specification: it is
a plausible mistake in the definition below it (and is named after it, as in
`Replayed_First`), kept beside it so that each property can be shown to notice one.

### `CommandLog`
What a room promises: a request a participant authored is applied at most once, an
acknowledged request was applied, a finally refused one never is. Both protocols
implement it (`KeepsCommandLog`), with the accepted receipts as the log.
Not all refusals are final: `AUTHORIZATION_REJECTED` and `PARTICIPANT_NOT_CONNECTED` say nothing
of the command and do not count as `denied`.

### `OnlineProtocol`
`handleOnlineCommandEnvelopeV1` is one action per way it ends, in the order of its checks:
`RefuseUnadmitted`, `AnswerStored` (a key with a receipt is answered from it before anything else
is looked at), `RefuseUnplayable`, `RejectStale`, `RejectSteward`, `RejectByCore`,
`AcceptCommand`. Each has `ValidState` in its guard, as `requireProtocolState`
does. `Reconnect` stands for hello and snapshot, which change the same state, `Disconnect`
for a closed socket, `Enqueue`, `Settle` and `LoseResponse` for the client outbox and
the network. An envelope once sent may arrive again at any time and in any order.
`StoresRejects` chooses the host: the headless one keeps a rejection's receipt, the Durable
Object does not. The Core is the standing of each player, the accepted count, the set of
game actions the present root admits, which changes arbitrarily with each acceptance, and
`moving`, the active player and the holder of priority: neither may leave, a departure hands on
neither, and a game action may give the turn and priority to any of `Holders` who is left.

### `VariableProtocol`
The version 2 handler for two or four seats, with the shared undo and the manual combat damage.
The Core keeps what undo and departures depend on: whose turn it is, the stack (a set of
objects, each with its owner and the revision that put it there), HOLDs, who is attacked, open
searches, standing, and `effects`, the set of accepted commands whose result the table shows.
`AcceptUndo` restores root, outcomes and lifecycle from the checkpoint, counts one more accepted
command and drops the checkpoint. Why a root refuses a kind of command beyond this (cards,
priority) is the nondeterministic `barred`.

### `SocketSessions`
Each handler of the Durable Object runs to its end, so each action is one handler: `Rotate`,
`OpenSocket`, `Hello`, `Project`, `Close`, and three ways a command ends (`RefuseControl`,
`RejectCommand`, `CommitCommand`), with `AuditRefusal` for any request that only leaves an audit row
and advances the last observed clock. `SecurityRelations` is `assertSnapshotRelations`,
which every request demands of the rows before it is served. Version 1 reattaches on hello;
version 2 on a projection request, and announces presence. Time is a clock that
advances between handlers and never goes back.

### `DeckSubmission`
The decks of a forming four seat lobby. `Begin`, `Resume`, `BeginInvalid`, `InvalidateFailed` and
`AnswerStored` are what the first transaction of a submission may do; a member of `fetching`
is an awaited resolver; `Resolve`, `FailToResolve` and `Discard` are the second
transaction, which finds the seat as it left it or moved on. Before it, `ThrowOnFragment` ends a
fetch and changes no row: a snapshot that contains eight characters of a capability makes the completion
throw. The snapshot's text is abstracted away, so any completion may throw while the lobby
exists. `Restart` forgets `fetching` and nothing else. Around it: readiness, start, end of the game, kick and leave, claim, and the host
closing the lobby.
Assumed of the clients: a submission identifier is drawn afresh and not shared by two people
(`publicApp/v3.ts` generates it), and whoever joins gets a new participant identifier. Assumed of
the resolver: it reports failure as an outcome and does not throw. A finished room still
takes submissions: only an active one is refused. A second transaction that finds the
tenant's rows gone fails and is answered with a conflict, without effect.

### `DurableLog` and `RoomStore`
`DurableLog` is what storage promises: an accepted command stays the same entry of the log, and
only what is in the log is acknowledged. `RoomStore` has the rows of a version 1 room (room row,
journal, checkpoint, verification marker), the state an instance of the object has in memory, and
one action per transaction: create, commit with its checkpoint every `Interval` revisions,
presence writes at the same revision, the migration of a room without a checkpoint, the load (trusted
when the marker matches the rows and the version, otherwise replayed and marked), and an eviction
between any two of them, after which another version may start. A root is abstracted to the
commands that led to it, and `validateCheckpoint` is what it compares of them.

### `VariableLobby`, `Pregame`, `TableStart`
`VariableLobby` is the lobby of a variable room: invites by the capability of the day, claims, deck
submissions that await the resolver, readiness, rotation, closing, kicks (two transactions, so
that a torn one leaves a seat accepted without rows), departures. `Pregame` has the commands
of the pregame, what they do to hands and mulligans in the Core, and beside it `replayed`, the
validator's own replay of the journal; `readBack` says whether the host reads the row before each
command (the Durable Object) or hands the handler its last state. Cards are hand sizes.
`TableStart` composes them with the room row's presence: `Start` deals the decks, each pregame
command asks the row who is there, the completion writes the room it carried, sockets open after it.

### `CoreTurn`, `TurnEngine`, `CoreCommands`
`CoreTurn` holds the turn and priority structure as operators on a bundle: windows (turn
action, priority, resolution, state-based actions, triggers, cleanup), positions, who may pass, what
each turn operation returns. `TurnEngine` runs every operation of `engine/core/turn` with an
environment that casts, triggers, resolves, damages and draws. `CoreCommands` runs what a client
can reach through the server's binder: passes, step and turn advances, casts, resolutions, manual stack
entries, HOLDs, combat, cards moved by hand, and a player who leaves; an operation whose result the Core's
validator refuses has no effect, so that its action (through `RootBecomes`) has `ValidRoot` of the result
as a guard. The commands that move the game on have guard and result as definitions of their own
(`MayPassPriority` and `Passed`, `MayAdvanceTable` and `TableAdvanced`, ...): the action is made of them, and
so is `MayMoveOn`, by which `SomebodyMovesOn` says without ENABLED that such a command would be accepted.

### `BrowserClient`
One client over successive connections: phase, epoch, known and shown revision, pending and settled
commands, the deadlines armed (`handshake`, `projection`, `command`) and the attempts left. The network is
what went up on each connection (`up`), what comes down on the present one (`down`) and the
connections that are cut; frames are delivered in order and only after `onopen`, and what was sent on a
connection the client gave up still reaches the object. The object has the session that each
connection attached, revision, receipts, presence and the holder of the lease. Beside it other players'
commands move the revision and the lease expires. `OpenSocket`, `Receive...`, `...Expires`, `Submit`,
`HearsOfTheEnd`, `RecoveryFires` are the client's callbacks, each with everything it calls. The outcome of a command
in the Core is a property of the command (`Unplayable`), which is what a deterministic Core comes to
on one connection after another.

## 4. Runs

Passing runs:

| run | question | instance and why it is enough |
| --- | --- | --- |
| `protocol_race` | does any race, repetition or departure make the state unreadable or contradict an answer? | four seats; one player plays and concedes, two others concede, so the room finishes while commands are queued; everybody uses the same identifier; four different envelopes, each on any base revision, arriving any number of times; two leavers are symmetric; the turn and priority go between the first and a player without commands, so that a concession may be refused. Four accepted commands reach every boundary (first, last, after the finish) |
| `protocol_odd` | is the log kept by a host that keeps rejections, with one envelope for each check that fails before the Core? | a table participant, a foreign capability, another actor, a wrong sequence number, a steward-owned action, an absent player; three envelopes |
| `sessions_security` | can rotations, expiries and reuse of forgotten capabilities leave rows that lock the room, and does presence follow the sockets? | version 1; two players and a table, two connections, two tokens; a capability lives two instants of four and is rotated up to three times, so that a retired one expires and its token is taken by somebody else |
| `sessions_lease` | does control move between devices only when it may, and does every socket hear of each revision? | version 2; one player has two sockets and HTTP beside an opponent; a lease lives one instant, one rotation, two revisions |
| `variable_table` | can commands, undo, HOLDs, searches, damage, concessions and players who leave break the table or the promise? | three seats, three messages of drafts among which is one for each failing check; attackers, the owner of the top of the stack and the next in turn leave; two concessions end the game and an undo reopens it; one player comes and goes |
| `decks_lobby` | can a late, superseded, failed, thrown, retried or forgotten fetch harm the lobby or leave a seat waiting for good? | two seats of which one changes hands; two decks of a tenant, an identifier used for another deck, a garbled and an unreadable body; three revisions, one eviction, any number of completions that throw |
| `room_store` | can an eviction, a new version or a presence write leave rows that cannot be loaded, or lose a command? | three players of whom one drops out; two named versions and one without a name; a checkpoint at every third of four revisions, or a room of revision 1 from before checkpoints, so that due, overdue and fresh checkpoints all occur |
| `table_start` | is the table started from what was declared, and is the pregame played fairly and read back? | three guests contend for one seat with two decks, two further capabilities, two submissions under way; hands of three cards and so three (or four) mulligans; one recorded action; tables of two and of four |
| `core_turn_engine` | does any order of the turn operations leave a bundle that every later operation refuses, skip a player, misplace a trigger or end a turn unclean? | tables of two (which skips the first draw) and three; three abilities in both buckets, a spell; two turns, three events of the environment. Every window occurs inside every step, cleanup with triggers included |
| `core_table` | can the commands of clients, HOLDs, manual entries and departures resolve something unanswered, stall the table or confuse combat? | three players, one of whom holds and two of whom move cards; two stack objects, two entries, one attacker and one blocker; libraries and hands of at most one card |
| `browser_client` | does the outbox learn the truth, does every wait end, does the client give up only for a reason? | two commands (one the Core refuses) in an outbox of two; three mishaps among cuts, late deadlines, connections of the user and commands of others; one recovery delay before giving up. Three connections suffice for a replay, a replay of a replay and its own lease |

One run finds the code at odds with its own tests: `pregame_unreadable`; see section 6.

Properties, by what they relate:

- *State against the next handler's validator*: `StateStaysValid`, `StateStaysLoadable`,
  `SecurityReadable`, `LobbyStaysReadable`, `BundleIsValid`, `EveryVersionLoads`,
  `OwnRowsAreTrusted`, `OnlyAnOpenWaveIsUnreadable`. In this code a relation that fails once is
  found by every later request, so the room would be lost.
- *Answers against the history*: `KeepsCommandLog`, `KeepsDurableLog`, `AppliedOnItsBase`,
  `LeavingIsLast`, `RefusedIsFinal`, `TableIsTheLog`, `SettledAsDecided`.
- *One actor's state against another's*: `AttachedIsPresent`, `GoneIsAbsent`, `EveryoneTold`,
  `OneController`, `StartsAsAgreed`, `StartsAsDeclared`, `KickedStaysOut`, `PresenceIsKept`,
  `UndoKeepsTheSteward`, `EveryoneAnswered`, `EveryoneMayAnswer`, `StacksInApnapOrder`,
  `CombatFollowsTheTurn`, `MulligansArePaid`, `TurnEndsClean`.
- *Progress*: `EveryTriggerIsPlaced`, `EveryTurnEnds` and `ComesToRest` under fairness;
  `SomebodyMovesOn`, `NoSeatIsStuck` and `NobodyWaitsInVain` state as invariants that whoever waits
  has somebody to wait for, or can send again; `GivesUpForAReason` that a client fails for one of two known reasons.

`TypeOK` of a module is the first conjunct of its first invariant (`StateStaysValid`,
`StateStaysLoadable`, `SecurityReadable`, `LobbyStaysReadable`, `BundleIsValid`,
`CombatFollowsTheTurn`, `OwnRowsAreTrusted`, `MulligansArePaid`, `GivesUpForAReason`): a
state is readable only if it has its type. Every property of a passing run is violated when one
mapped definition is replaced by the slip named in `PROJECT.json`.

Bounds are named constants. Those that stop the exploration: `MaxRequests` (different messages
ever sent; repetition is free), `MaxInFlight` (answers or submissions under way), `Absentees` (who may
disconnect), `MaxClock`, `MaxGeneration`, `MaxRevision`, `MaxRestarts`, `MaxLegacy`, `MaxIssued`,
`MaxTurns`, `MaxEvents`, `MaxCards`, `MaxEntries`, `Holders`, `Movers`, `Attackers`,
`MaxMishaps`. Those that are parameters of the code with smaller values: `MaxRetired` and the
lifetimes, `Interval` (64), `OpeningHand` (7), `ManualLimit` (16), `MaxOutbox` (64 in the
code) and `Delays` (the recovery delays before the client gives up). Deadlock is not
checked: with its bounds used up, in a finished room, or when a client gave up, a system of this
kind may stop.

Fairness. `core_turn_engine` has weak fairness of `Progress`: whoever a window waits for answers it
in the end. That is what a player at a table does and the code's windows demand; the
environment owes nothing. `browser_client` has weak fairness of one action, `Progress`, made of what a timer
or a machine does: the recovery timer fires, a socket opens, frames that arrived are received, the object
upgrades and serves, and the deadline of a dead connection expires. Nothing is assumed of the browser's
close events, of slow but living connections, or of the user. The other runs check safety only.


## 5. Proofs

TLAPS checks every step of these, for every value of the constants that the named assumption
allows: every number of players, people, seats, identifiers, drafts, submissions, revisions, evictions,
turns and objects.

`OnlineProtocol_proofs`, from `ProtocolAssumption` (two players at least, who are not
observers; drafts well formed):

| theorem | property |
| --- | --- |
| `TypeCorrect` | `TypeOK` |
| `BasesAreExact` | `AppliedOnItsBase` |
| `LeavingEndsIt` | `LeavingIsLast` |
| `ImplementsCommandLog` | `KeepsCommandLog`, the refinement |
| `StateStaysReadable` | `StateStaysValid`, for a host that keeps no rejections or never sees a steward-owned command (`~(StoresRejects /\ StewardActions # {})`). Without that condition the property is false, see section 6 |

The inductive invariant `Inv` adds to these that lifecycle and outcomes match the Core,
that receipts have unique keys and belong to players, and `LeaversLeft`: whoever left by an accepted
command is not active in the Core. Without it `LeavingIsLast` is not inductive, since
nothing in the receipts stops a player who left from sending one more command. The proof has
a lemma for steps that change none of what `Inv` mentions, one for a stored
rejection, one for an acceptance. The log of the refinement is read from the receipts by revision
(`AcceptedLog`), since stored rejections lie between the accepted ones; `EachRevisionOnce` says that each
revision has exactly one. `LogInv` says of every refused request that it has a receipt, cannot be played,
or is bound to a revision that is past, so that no copy of it is ever accepted.

`VariableProtocol_proofs`, from `VariableAssumption` and `CheckpointAssumption` (a turn order
without repetitions of at least two players; drafts well formed; `NoCheckpoint` is no checkpoint):

| theorem | property |
| --- | --- |
| `StatesStayLoadable` | `StateStaysLoadable` |
| `TablesShowTheLog` | `TableIsTheLog` |
| `TheTableMovesOn` | `SomebodyMovesOn` |
| `UndoerStaysSteward` | `UndoKeepsTheSteward` |
| `ImplementsCommandLog` | `KeepsCommandLog`, the refinement |

The inductive invariant has, beside the first property, `Owned` (turn, stack, HOLDs and searches
belong to players who are still in), `Shows` (the effects on the table are the accepted
commands that no undo took back) and `CheckpointIsTheLast`: the checkpoint shows the log up to the last
command that is not an undo. An undo restores what the checkpoint has, so that the checkpoint
must satisfy all of this too. The refinement needs `LogInv`: what was finally refused can never be
accepted later, since its base is old, it is stored, or the table that refused it is still
there. It assumes `ComesOneWay` of the clients: the same request is not sent both
directly and through the binder.

`DeckSubmission_proofs`, from `SubmissionsAssumption` (an identifier tells its author;
`None` is neither a person nor a row; the bounds are numbers):

| theorem | property |
| --- | --- |
| `DeckTypes` | `TypeOK` |
| `DecksReadable` | `LobbyStaysReadable` |
| `DecksAgreed` | `StartsAsAgreed` |
| `RefusalsStand` | `RefusedIsFinal` |
| `WaitingIsServed` | `NoSeatIsStuck` |

`LobbyStaysReadable` is inductive with the types: that an awaited fetch belongs to the tenant
follows from its identifier. `RefusedIsFinal` is not, and the inductive
invariant `DeckInv` says why a late answer is harmless: a participant sits down once
(`TenantsApart`); rows belong to the tenant, one for an identifier (`RowsOfTenant`,
`RowsUnique`); there is one fetch for an identifier (`FetchesApart`); a fetch of a present
tenant has its row, is no newer than the seat's head, and is older than a head of its own
identifier only if that head is refused (`FetchesKnown`); an awaited fetch finds its head
resolving (`AwaitedResolves`); and a refused submission keeps a row that says so as
long as its author stays (`RefusedKnown`). `NoSeatIsStuck` needs three facts more
(`WaitingInv`): no deck resolves in a room that turns submissions away (`RoomSettled`), only a
readable one is waited for (`ResolvingSound`), and the rows of a tenant's fetch hold what it fetches
(`FetchesMeant`), so that a fetch that keeps a deck from being asked for again is the one its
seat waits for. Each conjunct has a lemma with one step per
action; the three requests that give a seat a new head share `NewHead`.

`SocketSessions_proofs`, from `SessionsAssumption` (two players at least; participants and
chosen capabilities apart; `http` and `nobody` name no socket; lifetimes not zero):

| theorem | property |
| --- | --- |
| `SessionTypes` | `TypeOK` |
| `SecurityStaysReadable` | `SecurityReadable` |
| `PresentWhileAttached` | `AttachedIsPresent` |
| `AbsentWhenGone` | `GoneIsAbsent` |
| `OneDeviceControls` | `OneController` |
| `ToldOfEachRevision` | `EveryoneTold`, under version 2 or with no HTTP players |

The stored relations are inductive with the types: a rotation is the one step that changes
a grant, it forgets what has expired, and it takes a capability that nobody has and nobody
remembers. Presence needs two facts more, in `SocketInv`: a socket that was never
opened belongs to nobody (`Fresh`), and an attachment is never ahead of the grant and one
of the same generation ends with it (`Attached`); otherwise a socket that may act could be
missing from those that `webSocketClose` counts. `OneController` needs `LeasesRemember`: whoever
sent the last command of a player still has the lease of it, for a lifetime from then on,
unless its socket closed, the capability was rotated, or it came over HTTP, where a request has no socket to lose.

`RoomStore_proofs`, from `StoreAssumption` (two players at least; the interval is not zero; a
concession is no play; the null values are none of what they stand beside):

| theorem | property |
| --- | --- |
| `RoomIsNeverLost` | `EveryVersionLoads` |
| `OwnRowsStayTrusted` | `OwnRowsAreTrusted` |
| `ImplementsDurableLog` | `KeepsDurableLog`, the refinement |

That every version can load the rows is not inductive. `Inv` says that the journal is the
room's (`JournalOfRoom`) and that every entry of it was handled when its author was in the game
(`JournalIsHandled`), that the checkpoint is a prefix with no due revision behind it
(`PrefixKept`, with the arithmetic of multiples in the lemma `OneIsDue`), that what a request under way
has loaded is what the rows say (`RequestIsCurrent`), and that a marker that matches was made
from these rows (`MarkerIsCurrent`). The abstract log is what a load would recover.

`TableStart_proofs`, from `LobbyAssumption` and `PregameAssumption`:

| theorem | property |
| --- | --- |
| `StartsWithDeclaredDecks` | `StartsAsDeclared` |
| `KickedNeedsNewInvite` | `KickedStaysOut` |
| `CompletionKeepsPresence` | `PresenceIsKept` |
| `HandlerAndReplayAgree` | `OnlyAnOpenWaveIsUnreadable` |
| `MulligansPaidFor` | `MulligansArePaid` |

These hold for every set of guests, every opening hand and every limit of manual actions; the code
deals to two or four players, and so does the model. `LobbyInv` says that a ready seat has the deck it was declared with although the rows are
stored apart from the lobby and a resolver may answer in between, that a seat was taken with an invite the guest was told,
and that the invite of a kick is not the capability of any free seat. `AllPresent` is why the
completion may store the presence of the start: no socket is admitted before it.

The pregame is derived twice: the handler acts on the row and the Core, the validator on what it
replayed. `PregameInv` brings both to the same parts (`At`: phase, current player, round, records, hands)
and says how the parts fit (`SeatFits`). A record is one mulligan ahead of the Core from its declaration
until the wave is dealt, which is the only way the row and the Core may differ; in a wave all takers
have taken as many mulligans as there were rounds, so that either all of them owe cards or none does and
the wave is over at once, for the handler and the replay alike; and whoever kept, or is asked again,
has paid for the mulligans taken (`Paid`). Neither property is inductive without these. Each
operation has a lemma that names the parts it leaves and then follows `Moved`; a player's last declaration has one
for the handler (`WaveOfRow`) and one for the replay (`WaveOfReplay`).

`Core_proofs`, first the turn operations of the library, from `CoreTurnAssumption` and
`TurnEngineAssumption` (turn orders without repetitions; objects belong to seated players):

| theorem | property |
| --- | --- |
| `BundlesStayValid` | `BundleIsValid` |
| `NobodyIsSkipped` | `EveryoneAnswered` |
| `TurnsEndClean` | `TurnEndsClean` |
| `TriggersStackInOrder` | `StacksInApnapOrder` |

`Inv` adds that the active player is seated, that whoever answered is who the window says has passed
(`AnswersArePasses`), and of which windows the turn's end is already clean (`EndsClean`). The proof rests on counting around a table: `AroundTheTable` shows that as
many passes as seats, each by the next player, are passes of everybody. The order of the triggers rests on
`WaitsOnce`: an ability waits once. A placement that is as long as the pending list and holds the
same items then repeats none, by counting, so that the intervals it is checked by are exactly the
groups (`PlacedInOrder`), and these lie in turn order. In every other step only the top of the stack
can be new (`ObjectsMove`).

Then the commands of clients, from `CoreTurnAssumption` and `CoreCommandsAssumption` (two players at
least, each seated once; creatures belong to players; the bounds are numbers):

| theorem | property |
| --- | --- |
| `EveryoneCouldAnswer` | `EveryoneMayAnswer` |
| `CombatKeepsStep` | `CombatFollowsTheTurn` |
| `TheGameGoesOn` | `SomebodyMovesOn` |

That every root is valid is a guard of every action, and is not enough for any of the three. `RootInv` adds what the
validator does not ask for: which windows the commands reach at all (`WindowOfCommands`: no trigger waits,
every check of state-based actions grants priority, a turn-based action is the active player's with
nothing on the stack); that the stack and its manual entries belong to players at the table
(`StackBelongs`), without which the steward of a root could be somebody who left; the combat context
(`CombatOf`); and `PassesAreHeard`: whoever passed in the present cycle has passed with every object of
the stack before him. The last is what an object taken back by hand or a player who leaves could break, since both
keep the passes of the cycle. Again a cycle that is over went around the table (`EverybodyPassed`, shared with
the library's part), now around one that shrinks. `TheGameGoesOn` follows from `RootInv` by the kinds of windows: in
each one the steward's command is found, and the root it leads to is shown to be valid, which is the
longer half.

A player who leaves takes objects out of the middle of sequences. `Only` is a recursive function, and what
it returns is shown for every sequence by the least length at which it could fail (`Least`, from the
well-founded order of the numbers), since the library's induction theorems take an operator as a parameter.

`BrowserClient_proofs`, from `ClientAssumption` (the names of deadlines are no commands; the bounds
are numbers):

| theorem | property |
| --- | --- |
| `TheOutcomeIsTold` | `SettledAsDecided` |
| `NobodyWaits` | `NobodyWaitsInVain` (`WaitsEnd` is its half about deadlines) |
| `FailsForAReason` | `GivesUpForAReason` |

The proof has four layers, each inductive on the ones before. `Inv` has the types; that the client is
linked exactly in the phases that need a socket (`Control`); that a connection that was not used, or
on which the client said nothing, carries nothing (`Silent`); that the client never knows more than the
object (`Known`); and that every frame under way is one its phase expects and not behind what it knows
(`Fresh`), which is why no frame is ever refused as `INVALID_FRAME`. `Budget` counts each connection against
a mishap. `Spoke` orders what was said on a connection: hello, then the projection request, then commands,
so that the object takes a command only from a participant who is present. `Settling` says that every
command under way, on whatever connection, is a copy of its outbox entry, and that what was refused is
unplayable or bound to a revision that is past, so that no later copy can be accepted. `Served` says
what is under way when the client waits. Its hardest case is a projection of an old revision that arrives after
the notice of a newer one, or before it: such a projection is only sent while the notice is under way too or
the client knows of the revision already.

Model-checked only: the liveness properties `EveryTriggerIsPlaced`, `EveryTurnEnds` and
`ComesToRest`. Liveness under fairness and ENABLED are out of the prover's reach. The safety half of
progress is proved: `SomebodyMovesOn` and `NobodyWaitsInVain` say that somebody can always act. No module declares a RECURSIVE
operator.

## 6. Findings and observations

`pregame_unreadable` (code): a player's declaration of a mulligan counts at once in the player's
record and in the Core only when everybody has declared, and the row stored in between is one the
validator refuses (`online/pregame/validation.ts:214`), so that the pregame of a table with
several players can be read no more after the first declared mulligan. The tests never store that
state. `OnlyAnOpenWaveIsUnreadable`, which is also proved, shows that these are the only unreadable rows,
also for a host that keeps its own state and plays the pregame to its end.

What the models also showed, without a run of its own:

- The version 1 handler stores an `AUTHORIZATION_REJECTED` receipt for a steward-owned command
  (`online/protocol/command.ts:308-316`), which the validator of the next handler refuses
  (`online/protocol/state.ts:490`). A host that keeps returned states can read the room no
  more; the Durable Object is not affected.
- A version 1 command that came by HTTP is committed without a notice to any socket
  (`online/cloudflare/runtime.ts:1175`); `EveryoneTold` is checked for version 2.
- After a rotation a socket of the old generation is not counted when another closes
  (`runtime.ts:1778`), so its player is absent with a socket open.
- A deck submission that was replaced while its cards were fetched takes the seat back when it is
  sent again after an eviction (`online/cloudflare/persistence.ts:1598`). The game is still dealt from
  what was declared ready.
- A four seat submission whose resolved cards contain eight characters of some seat or invite capability
  ends with an exception before it is settled (`online/cloudflare/persistence.ts:1652`): the request
  fails, the seat stays resolving, and no fetch is under way. Sending it again begins a fetch again
  (`NoSeatIsStuck`), which throws again as long as cards and capabilities are the same; another deck
  supersedes it. A superseded fetch that throws leaves its history row resolving.
- A kick from a variable lobby that is cut short leaves a seat marked accepted whose deck is gone: the start is
  refused until the guest submits again or is kicked again. A two seat lobby with a starting life of 20 can never start
  (`PREGAME_REQUIRES_40_LIFE`). A journal of 256 pregame entries can be filled by toggling
  readiness.
- The windows of cleanup are answered by operations of the library that no client command reaches
  (`engine/core/turn/cleanupV1.ts:99`, `engine/core/tabletop/server.ts:181`), so that in
  `CoreCommands` a turn that reached its cleanup step never ends. `EveryTurnEnds` is therefore a
  property of `TurnEngine`.
- A manual entry for an object that is ready to resolve but is not the last entry, or two entries for one
  object, pin the table, and so does a draw step with an empty library. `SomebodyMovesOn` of
  `CoreCommands` allows these two and the cleanup step, and nothing else. A HOLD or a state-based
  choice of somebody who does not come back is waited for without end. The departure of the active
  player, of one who has priority, or of the one the passes started with, is refused as a whole.
- Moving a card off the stack by hand in a priority window keeps the passes already made. An attacker is
  checked for neither zone nor controller, and a combat step may be set by anybody.
- After a command timed out the client reconnects in 250 ms. If the object has not noticed the end of the
  old socket, the replayed command meets the 30 s lease of the client's own old connection, and the client
  fails for good with its outbox kept: the second reason of `GivesUpForAReason`. An idle client on a
  silently dead connection shows an old view until the browser reports the end; there is no heartbeat. The
  counter of command timeouts is not reset by a connection of the user while the outbox is not empty.
- Over an ordered connection the branches of the client that drop a projection behind the known
  revision, refuse one as `INVALID_FRAME` or ask again for a stale one (`browser/client.ts:973-985`) are not
  taken: `GivesUpForAReason` has no third reason.

## 7. Not modelled

- Cockpit sessions: one table with its own undo and redo stacks, each request one transaction.
- The room before the start: formed in one go by the server. Callers of the library could form it in
  another order.
- The replay of a version 2 journal, which starts at the root of revision 0
  (`persistence.ts:868`).
- What a card does: of `applyCoreCommandV1` the commands that move the turn, the stack, combat, HOLDs and
  players are modelled; life totals, counters, commander rules, visibility, grants, searches (but
  for `VariableProtocol`) and notes are not. The solo engine is one large sequential reducer; card
  effects, grammar and rule classification are functions of strings.
- Display pairing, guided actions, projections, table display and workbench views, adapters: pure functions
  of a state or an intent, without steps. Public app clients: the form and journey state of one tab.
- In modelled parts: parsing and canonical forms of messages, digests (equal exactly when the
  digested content is), rate windows and audit rows (any refusal they cause is
  `AuditRefusal`), frame and message counters, sends a socket refuses, malformed frames, the expiry of a
  capability under a client and a player who left the room while the client stays, the v1 deck
  route, which answers every request with a refusal, queries, which change nothing, and the
  capacity of the pregame journal.
- UI, card data pipeline, scripts, versioning: no state that outlives a view or a process. These,
  the solo engine, the local store and the grammar are by far most of the repository's lines, so
  that the lines mapped are a small share of it while they are most of the online room's control.
