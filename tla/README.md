# relay-chatapp: a TLA+ model of its messaging

These modules model relay-chatapp: its backend (`src/backend`, Node.js, WebSocket
and MongoDB) as far as it matters whether a message is stored once, acknowledged
truthfully, delivered, replayed and receipted, to one person or to a room, edited
and deleted, and whether connections, presence, rooms and login sessions are in
order; and the parts of its web client (`src/frontend`) that decide the same
questions in a browser tab: its socket, its token refresh and what it shows of
the messages it sends. TLC checks the modules on small instances; the theorems of
the eight `*Proofs` modules hold for every value of the constants and are checked
by TLAPS. `PROJECT.json` ties every definition to the lines it models, every
checked property to a run and to a mutated definition that breaks it, and lists
the hazards, the findings and the theorems.

Contents: 1 the system, 2 the modules, 3 the runs, 4 bounds and fairness,
5 the proofs, 6 what disagrees with the documents, 7 what is not modelled,
8 what could come next.

## 1. The system

One Node process serves HTTP and WebSocket. Its handlers are asynchronous: one
runs without interruption up to an `await` on MongoDB, and any other handler may
run before it goes on. State is split between MongoDB, which survives a restart,
and maps in memory, which do not. Several processes may share a Redis bus.

### Inventory

| part | state | operations | what makes it hard | what makes it correct |
|---|---|---|---|---|
| **Message intake** `services/message.service.js`, `storage/message.mongo.js`, `websocket/handlers/sendMessage.js` | `messages` rows; domain objects and `clientMessageIdMap` in memory | `acceptIncomingMessage`, `persistAndReturnAck`, `persistMessage`, `updateMessageState` | concurrent retries of one `clientMessageId`, restarts that forget the map, an insert whose answer is lost | an ACK names a stored row; one client id, one message |
| **Delivery records** `services/delivery.service.js`, `websocket/state/directDeliveryStore.js` | a record per message and recipient in memory, an ACK timeout per SENT record; `deliveries` collection | `createDelivery`, `transitionState`, `forceMarkAsRead`, `recordFailuresForDisconnectedUser` | memory and database are updated one after the other around awaits | the record is never ahead of the database, never goes back, and is watched while SENT |
| **Live delivery** `websocket/services/message.service.js` | transport cache of messages | `attemptDelivery`, `sendToUserSocket` | runs detached from the handler of the send; cached state goes stale | what was not received can still be replayed |
| **Confirmations** `websocket/handlers/deliveredAck.js`, `readAck.js`, `http/controllers/chat.controller.js` | none of their own | delivered, read, HTTP mark-read | check, await, unconditional write | the sender is told only what is true |
| **Replay** `services/replay.service.js`, `websocket/handlers/reconnect.js` | none of its own | `MESSAGE_REPLAY`, `RESUME` | marks rows delivered before emitting them; gives up after 8 s but runs on | as for live delivery |
| **Outbound queue** `websocket/safety/backpressure.js`, `flowControl.js` | queue, flag, overflow and pending counters per socket | `sendMessage`, `processQueue`, `sendNext`, `sendOrFail`, `closeAbusiveConnection` | a loop of continuations and immediates, frames arriving in between, slow peers, a full queue | one loop, FIFO, exact accounting, progress |
| **Connections and presence** `websocket/connection/*`, `websocket/state/sessionStore.js` | sessions, up to three sockets each, presence, grace timers | register, cleanup, evict, heartbeat, disconnect | grace timer against reconnect; late close events of evicted sockets | offline only when no socket is left; a late close harms no other socket |
| **Rooms** `websocket/state/roomManager.js`, `storage/room.mongo.js` | members, roles, joining times, version; an index of rooms per user; `rooms` collection | create, join, add, leave, remove, role and meta changes, delete, load | every change is persisted in the background, unordered; leaving goes on after an await; loading overlaps requests | departures do not take the owner away; index and members agree; what is loaded is what was last stored |
| **Group messages** `websocket/services/group.service.js`, `websocket/state/roomDeliveryStore.js` | count of recipients per message, idempotency map, in memory | `sendRoomMessage`, recorded deliveries, hydration after a restart | members change while a row per member is written; the count is rebuilt over two awaits | who is counted has the message; complete means everybody |
| **Edits and deletes** `websocket/handlers/messageMutation.js`, `ChatAdapterContext.jsx` | the row, the transport cache, the bubble in each tab | edit, delete, the frames to all tabs, merges with loaded history | overlapping handlers, a cache nobody updates, optimistic changes, histories read earlier | tabs end at the latest edit they have met, two named ways back aside; nothing is shown that was not stored |
| **Redis bus** `services/redisBus.js`, `redisBusHandlers.js` | dedupe map | publish, handle, kick | dedupe before delivery; events are lost silently | a kick reaches the instance that has the socket |
| **Login sessions** `auth/sessionStore.mongo.js`, `http/controllers/auth.controller.js`, `sessions.controller.js`, `admin.controller.js` | refresh sessions, bans, cookies of each browser | login, refresh with rotation, four ways to log out, revocation, ban, upgrade | two tabs share a token; revocation between a read and a write; several instances | one token usable, none after revocation; no socket outlives its session unnoticed |
| **Read cursors** `chat/readCursorStore.mongo.js` | cursor per member and chat | `upsertCursor` | requests landing out of order | not modelled |
| **Web client, socket** `frontend/src/transport/wsClient.js`, `lib/http.js`, `hooks/useAuth.js`, `ChatAdapterContext.jsx` | socket, timers, refresh loop, sign-in state | connect, reconnect, disconnect, shut down, refresh, sign in and out | old sockets closing late, deferred disconnects, timers that outlive what set them, other tabs | no socket slips away; off means off; who is signed in gets connected |
| **Web client, messages** `ChatAdapterContext.jsx`, `ChatWindow.jsx` | bubbles per conversation, outbox | send, retry, ACK, NACK, errors, ticks, merges | echo before ACK, timeouts before answers, errors that name no message, histories | no text is lost, no tick made up, duplicates are explained, the outbox empties |

Interactions: intake creates the delivery record and leaves `attemptDelivery`
running; delivery, confirmations and replay read and write rows, deliveries,
records and the transport cache; all of them put frames on outbound queues; a
queue that drops a frame writes `FAILED` on the row the frame names; connections
decide whether there is a socket, and after the grace period record failures;
the bus hands a message to the instance that has the recipient's socket; rooms
supply the members group messages go to; an upgrade trusts the login session,
and a revocation kicks its sockets, here and over the bus. In a tab, `wsClient`
calls the adapter with every frame; `HELLO_ACK` starts the flush of the outbox,
a resume and the refresh loop; signing out ends them. The remaining parts (rate
limits, admin pages, reports, search, export, uploads, metrics, the legacy core)
are listed with their reasons under `components` in `PROJECT.json`.

## 2. The modules

| module | what it is |
|---|---|
| `MessageLifecycle` | intake, persistence, delivery records, live delivery, confirmations, replay, FAILED marks and restarts, for the direct messages of one sender to one recipient |
| `MessageContract` | the abstract specification of the same: what is stored, acknowledged, delivered, received and receipted |
| `MCMessageLifecycle` | the symmetry of the handlers, for TLC |
| `MessageLifecycleProofs` | theorems about `MessageLifecycle` |
| `OutboundQueue` | the queue of one socket and its drain loop |
| `Connections` | sockets, the sessions that hold them, presence and its grace timers |
| `MCConnections` | the owners of the session ids, for TLC |
| `TransportProofs` | theorems about `OutboundQueue` and `Connections` |
| `Rooms` | rooms in memory, their index and their background writes, leaving, restarts and loading |
| `RoomContract` | the abstract specification of membership: found, enter, depart, dissolve, forget, restore |
| `MCRooms` | the symmetry of the users, for TLC |
| `RoomsProofs` | theorems about `Rooms` |
| `GroupDelivery` | a message to a room whose members move as `RoomContract` says, and the count of its recipients |
| `MCGroupDelivery` | the symmetry of the recipients, for TLC |
| `GroupDeliveryProofs` | theorems about `GroupDelivery` |
| `AuthSessions` | sessions, tokens, cookies, bans, upgrades, and kicks between instances |
| `SessionContract` | the abstract specification of a session's life and its one token |
| `MCAuthSessions` | whose session an id is, which browser a tab runs in, for TLC |
| `AuthSessionsProofs` | theorems about `AuthSessions` |
| `WebClient` | the socket, the timers and the token refresh of one tab |
| `WebClientProofs` | theorems about `WebClient` |
| `SendView` | the bubbles, the outbox and the retries of one tab that sends direct messages |
| `SendViewProofs` | theorems about `SendView` |
| `MessageEdits` | edits and deletes of one message, from the bubbles of the owner's tabs to those of the recipient's |
| `MCMessageEdits` | how far the clocks of tabs are ahead, for TLC |
| `MessageEditsProofs` | theorems about `MessageEdits` |

### MessageLifecycle

A `Task` is one activation of a handler; `pc[t]` names the `await` it stands at.
An action is one database operation, its answer, and the code that runs up to
the next one. The intake is `AcceptNew` or `AcceptDuplicate`, then `Lookup`,
`Insert`, `CreateDelivery`, `UpdateSent`, `FinishSend`; the task then *is* the
detached `attemptDelivery` (`AttemptLoad`, `AttemptCheck`, `AttemptQueued` or
`AttemptRefused`). A confirmation of delivery is `ConfirmDelivered`, `DRead`,
`DWrite`, `DMark`, `DFinish`; of reading, `ConfirmRead`, `RRead` to `RNotify`; a
replay is `Replay`, `PFetch`, per row `PPick`, `PCheck`, `PWrite`, `PMark`,
`PFinish`, and `PEmit` at its end.

| variables | in the code |
|---|---|
| `row`, `marked` | the `messages` and `deliveries` collections |
| `mem`, `dedupe` | `messageStore` and `clientMessageIdMap` of `services/message.service.js` |
| `cache` | `websocket/state/messageStore.js` |
| `record`, `timer`, `failure` | `directDeliveryStore`, its ACK timeouts and recorded failures |
| `frames`, `failing` | frames in outbound queues; `sendOrFail`s that await their FAILED mark |
| `open` | the recipient has an OPEN socket |
| `held`, `pushed` | what the recipient's client has received, and what of it as a live `MESSAGE_RECEIVE` |
| `acks`, `nacks`, `told`, `claimed`, `forced` | history: the answers given, the notifications emitted, what a replay marked, what mark-read forced |

Failures are actions: a failed database operation (also one that was applied
although its answer was lost), a slow socket, a disconnect, a full queue, the
timeout of a resume, and `Crash`, which keeps the two collections and what the
clients know and forgets the rest. The client is external; `ConfirmDelivered`
and `ConfirmRead` have the guards the web client gives them (it confirms a live
message, and reads only what it holds). Data is reduced to ids: a message is a
number, its place in the order a replay uses.

`MessageContract` is implemented under the mapping `Contract`: the rows with
their client ids are `stored`, `deliveries` is `delivered`, the client's messages
are `received`, the "read" notifications are `receipts`.

### OutboundQueue

`AcceptQueued`, `AcceptAndDrain` and `Refuse` are the three ways `sendMessage`
ends; `Refuse(closes)` has a parameter because most callers close the socket when
told so (`shouldClose`) and the dispatcher's `sendResponse` does not. `sendNext`
and `sendNextStops` are one turn of the loop, `Sent` and `Dropped` the
continuations of `sendOrFail`. A loop stands at `sent` or `dropped` while its
continuation is a microtask: `NoMicrotask` keeps external events behind it, as
the event loop does. Names that `Connections` has too start with `queue` or
`Queue` (`QueueInit`, `QueueSpec`), since `TransportProofs` extends both.
`checkBackpressure` looks at `bufferedAmount` at most every
100 ms, so a slow peer may or may not be noticed by it (`MayBlock`, `MayPass`),
and always by `sendOrFail`. A frame is the number of its acceptance.

The two modules meet in `frames` and `Transmit`/`sendOrFail`: the life cycle
needs of the queue only that a frame waits, arrives, is dropped with its FAILED
mark or is lost with the socket. It does not use the order of frames.

### Connections

Every handler is synchronous here, so an action is a whole handler; what
interleaves are sockets, timers and requests. `register` is the end of an
upgrade, with the eviction of the oldest socket of a full session. `StartClosing`
is any reason for a socket to leave OPEN (the peer, a heartbeat, an abusive
client); `CloseEvent` is its `close` listener, which comes later. An error
(`removeConnection`), a kick (`removeSession`), revoke-all and bans (`remove`)
clean up before that event, which still comes. `GraceExpires` is the timer of
`lifecycle.requestDisconnect`. `Shutdown` and `clear` are the two halves of
`wsServer.shutdown`; between them, an upgrade that was under way is registered
and then closed by the connection handler.

| variables | in the code |
|---|---|
| `ready` | `readyState` |
| `sid`, `known` | the session id and user id captured by the close listener; the sockets `connectionStore` has |
| `stored`, `sockets`, `primary` | `websocket/state/sessionStore.js` |
| `presence`, `timers` | `presenceStore` and `pendingOfflineTimers` |
| `phase` | `isShuttingDown`, and whether `wss` has been closed |

Sockets are numbered in the order of registration, which is what
`socketCreatedAt` and the order of the set amount to. `MessageLifecycle` sees of
all this whether the recipient has an OPEN socket (`open`), and that the grace
period or a forced removal records failures (`GraceExpired`).

### Rooms and RoomContract

roomManager changes the room in memory and starts a write of the whole of it,
which nothing awaits. So each operation (`Create`, `CreateWith`, `Join`,
`AddMember`, `Leave`, `RemoveMember`, `SetRole`, `UpdateMeta`, `Delete`) is one
action, with the transfer of ownership that a departure causes, and adds a record
to `writes`; `Land` and `Fail` are what becomes of a write, in any order. The
exception is `leaveRoom` of an owner, which awaits the write of the transfer or
deletion and then looks at the room object it holds: an activation in `leaving`
ends by `LeaveDeletes`, `LeavePersists` or `LeaveEnds`. `Crash` forgets memory,
`Load` brings the collection back while requests are served.

| variables | in the code |
|---|---|
| `room`, `index` | `rooms` and `userRooms` of `roomManager` |
| `store` | the `rooms` collection |
| `writes`, `newest`, `landed` | upserts and deletes under way; numbers to tell older from newer |
| `leaving` | `leaveRoom`s that await, with what has become of the object they hold |
| `phase` | whether `loadFromStore` has ended |
| `replaced`, `demoted`, `promoted`, `past` | history: what loading replaced, roles given away, members at any time |

`RoomContract` keeps nothing but who is in a room, and who has been. It is the
interface to `GroupDelivery`, which instantiates it for its own variables: the
members of a room move by its actions, and nothing else of `Rooms` matters there.

### GroupDelivery

`Send` takes the members and enters the fan-out; `PersistCanonical` writes the
row of history; for one member after the other `PersistMember` writes a row and
`SendToMember` queues a frame and counts it; `Answer` fills the idempotency map
and answers. `Repeat` finds the map filled. The rows of members are then replayed
or confirmed: `Replay` or `Confirm`, `WriteState`, `WriteMark`, `CountReplayed`, and,
where the count was forgotten, `QueryRows` and `CountHydrated`, with the members
the room has by then. A frame of a live delivery reports its count through
`Record`, which tells the sender when the count reaches the total.

| variables | in the code |
|---|---|
| `idem` | `groupStore` |
| `entry` | `roomDeliveryStore` |
| `send` | activations of `sendRoomMessage`, with the members they took |
| `canon`, `row`, `marked` | the `messages` and `deliveries` collections |
| `task` | replays and confirmations of one row |
| `reached`, `failed`, `told`, `rebuilt`, `answers` | history |

### AuthSessions and SessionContract

A tab has one HTTP request (`req`) and one upgrade (`up`) at a time; a step is one
database operation. `Login` checks the ban, creates the session and stores its
token; `Refresh` looks the token up, reads the session, checks the ban and
rotates (`RotateReads`, `RotateWrites`: the conditional write of
`rotateRefreshHash`); `Logout` stands for logging out, revoking one device and
revoking all, with the middleware that lets each through. `Answered` sets or
clears the cookies of the browser, which tabs share. An admin bans or revokes in
two or three steps. A kick closes the sockets of this instance and is published
for the others (`bus`), where it may come late or never. `Registers` is the end
of an upgrade that has read its session some steps before. Tokens are numbers;
a token and its hash are the same one.

`SessionContract` says what the store promises whoever uses it: one opening, one
token, exchanged only when presented, revoked for good.

### WebClient

An action is one task of the page's event loop. Sockets are a pool; `ws` is the
one the module refers to. `CloseEvent` is `onclose`, which does not ask whether
the event is about the socket in use; `AuthTimer`, `ReconnectTimer` and
`DeferredDisconnect` are the timers; `EffectRuns` and `EffectCleanup` are the
effect that connects and the clean-up of a remount; `Login`, `Logout` and
`AuthChanged` (another tab) drive them. `runWsRefreshLoop`,
`ensureRefreshBeforeRequest`, `RefreshDenied` and `RefreshEnds` are the refresh
loop and the requests that wait for it. Definitions named like functions of the
code (`connect`, `disconnect`, `shutdown`, `handleSessionExpired`) are those
functions, used by several actions. A page reload is a return to `Init`.

### SendView

A send has a bubble under its `clientMessageId` (`own`) until the ACK gives it the
server's id; the echo and the history bring a bubble under the server's id
(`echo`). Both have one id after the ACK, and the next received message or loaded
history keeps one (`Collapses`); until then rendering shows the better status.
`HandleSend` and `HandleRetryFailedMessage` are the two ways to send, both through
`sendOrQueueMessage`; `FlushTimer` and `HelloAck` run `flushPendingOutbox`. The
server is reduced to what it answers: an echo and an ACK, a NACK, an error that
names no message, a delivery status, receipts that may repeat, in the order of
the socket (`down`). `level` is the state the message has had there.

### MessageEdits

The owner's tab changes its bubble and tells the server (`EditMessage`,
`DeleteMessage`), or does not reach it (`ChangeUnsent`). A handler looks the
message up (`FindsCached`, or `ReadsRow` and `CachesRow`), skips an edit that
changes nothing by the content it has found (`SkipsEdit`), takes its stamp
(`StampsChange`), writes (`AppliesChange`) and broadcasts (`BroadcastsChange`).
`FrameArrives`, `LoadReads` and `LoadArrives` are a tab's side, with the merge by
`editedAt`. The delivery of the message, live or by replay, carries the content
it has read before: a late `MESSAGE_RECEIVE` puts an older text back into a bubble
that has met an edit, with no `editedAt` (`ReceiveShown`). Three history variables
follow a tab: `heard`, the edits it has met since its page was loaded, and of these
`replaced`, behind which a `MESSAGE_RECEIVE` has taken it back, and `buried`, which
a delete with an earlier stamp has.

## 3. The runs

| run | shows |
|---|---|
| `message_lifecycle` (677 thousand states) | two messages, one client id, two concurrent handlers, three requests, one fault of any kind. `AckNamesStoredRow`: no ACK without its row. `OneIdPerClientId`: retries, side by side or after a restart, are acknowledged with one id. `UnheldIsReplayable`: from whatever cursor the client sends, a replay delivers a stored message the client does not hold; the exceptions are the four ways to lose a push: a replay has claimed it, mark-read has forced it, the cursor has passed it, or as many rows as the query may return lie between the cursor and it. `RecordBehindDeliveries`, `RecordNeverRegresses`: the record in memory follows the database and never goes back. `SentIsWatched`: the ACK timeout is armed only while SENT, and SENT is watched or has failed. `ReceiptsAreHonest`: the sender is told "read" only of what the client holds, "delivered" only of that or what a replay claimed. `ContractSpec`: the whole implements `MessageContract` |
| `outbound_queue` (252 thousand states) | `OneDrain`: the flag keeps two loops apart. `InOrder`: FIFO, no frame twice, each accounted for. `SentToFastPeer` (liveness): on a queue that never fills, to a peer that keeps up, every accepted frame is sent or the socket closes. `NextFrameRestarts` (liveness): a queue that has stopped recovers; once backpressure has cleared for good and no drain is about to end with a drop, the next accepted frame, and all before it, are taken from the queue or the socket closes |
| `connections` (246 thousand states) | one user, two sessions of two sockets, five connections. `SessionsMatchSockets`: an OPEN socket is where delivery and kicks look for it, a session holds only its own live sockets, not too many, and one of them is primary; a late close event after an eviction, or after a kick and a return, changes none of it. `PresenceIsJustified`: OPEN socket implies online with no timer; online without one implies a close event or a timer to come. `GoneIsNoticed` (liveness): nobody is shown online for ever |
| `rooms` (600 thousand states) | `IndexMatches`: rooms listed for a user are those they are in, replaced ones aside. `OwnershipIsExplained`: no interleaving of departures, writes, failures and restarts leaves a room in memory, in the collection or in a write without an owner or with two; only a role change does. `QuietStoreIsCurrent`: when nothing is under way and the last write landed last, a restart would lose nothing. `ContractSpec`: members move as `RoomContract` says |
| `group_delivery` (5.05 million states) | `CountIsBacked`: each member counted has a frame or a row that was delivered, also after hydration. `CompleteIsHonest`: told complete, everybody the message was sent to has it, unless a replay remade the count. `AnsweredIsStored`: an answered message has a row per member and one of history, refused writes aside |
| `auth_sessions` (682 thousand states) | `SocketsAreAuthorised`: a socket outlives its session only while a kick is coming, or where none was sent, or one was lost, or the upgrade raced the revocation; the exceptions are the hazards. `BanEndsSessions`, `CookieIsKnown`: a ban reaches every session, a browser never holds a token unknown to the store. `ContractSpec`: one token, never after revocation |
| `web_client` (436 thousand states) | `SocketsAreAccounted`: no open socket without a reference, except where `onclose` of another one dropped it. `OffIsOff`, `NeverStranded`: no attempt where reconnecting is disabled, always one in sight where it is not. `WaitersAreServed`, `OneLoop`: refreshes end for all who wait; a second loop only beside one out of reach. `KeepsTrying` (liveness): who signs in and stays so gets a socket, unless a close forbids it |
| `send_view` (1.49 million states) | `NothingVanishes`: a text is stored, or pending or failed on the screen, unless a reload took it. `TicksAreBacked`: no tick beyond what the server has. `DoubleIsExplained`: seen twice only before its ACK, after a NACK for a written row, or when the ACK was lost with the socket. `OutboxDrains` (liveness): what is queued leaves a ready socket |
| `message_edits` (2.03 million states) | `PeersFollow`: a recipient's tab that has met an edit shows it or a later one, whatever the order of frames and histories, but for two ways back: a late `MESSAGE_RECEIVE` replaces the bubble with what the delivery had read, and a delete that history brings with an earlier stamp replaces the bubble and its stamp. `PeersAgree`: once it has met every edit, and gone back behind none, it shows what the row has, where writes came in the order of their stamps. `ShownIsStored`, `DeletedIsTrue`: nothing is shown to the recipient that the row has not had; no merge makes a delete up |
| `acked_edit`, `doc_read_is_terminal`, `queued_is_sent` | section 6 |

Every property of the nine passing runs has a mutant in `PROJECT.json`, a plausible
bug in one definition, which TLC finds by that property. The type invariants, and
`PendingIsExact`, `ReadyIsEarned`, `AckedWasStored`, `ServedWhileFast`, `AcceptAttends`,
`StaysAttended`, `FlushesGoOn` and `TimerIsKept`, are not checked by a run: TLAPS
proves them for every value of the constants (section 5).

## 4. Bounds and fairness

`MessageLifecycle`: two tasks, because every race in this code is between two
handlers, or a handler and a timer, socket or crash, which need no task. One
client id is enough for idempotency: two ids never meet. Two messages show a
retry that gets a second id, a cursor that passes a row, and, as the replay limit
is 1, a window that hides one; replays of several rows are left to the proofs.
`MaxRequests` and `MaxFaults` bound a behaviour: three requests are a send and a
retry with a replay or a confirmation between or after them. With two faults TLC
finds no violation either (2.44 million states), but needs longer than a run should
take; the theorems cover any number of both. Tasks are interchangeable, hence `SYMMETRY`; it is used with safety properties
only. `CHECK_DEADLOCK FALSE` because a behaviour stops when its requests are
spent and all handlers have ended.

`OutboundQueue`: a queue of 3 of which a loop takes one leaves an empty, a half
full (`Forgiven`) and a full queue; two overflows tell the last from one before;
six frames fill the queue twice; two loops are enough to break exclusion; a
threshold of 3 would be passed by a counter that leaks. Four frames are enough for
`queued_is_sent`: one is under way and three fill the queue. `CHECK_DEADLOCK FALSE`
because a closed socket is the end.

`Connections`: users do not interact, so one is enough; two sessions, as "last
socket of the session" and "last of the user" differ; a limit of two sockets
makes the third registration evict. Five connections fill both sessions and
evict, or let a user be evicted, kicked and return while old sockets are still
CLOSING. `CHECK_DEADLOCK FALSE` because all five may have come and gone.

`Rooms`: one room, since operations of different rooms touch nothing in common;
three users are an owner, an heir and a third who is promoted or re-creates the
room; five writes let three be under way when one lands; one fault is a failed
write or a restart. `GroupDelivery`: a sender and two others, one message,
three moves of members, one fault. Two activations of one client id share the
idempotency map and the row of history; with `MaxMessages = 2` TLC finishes only
for `MaxMoves = 1` and `MaxFaults = 0` (875 thousand states, no violation), and the
theorems cover any number. `AuthSessions`: one
user, two sessions, two tabs of one browser, two instances, four requests: two
refreshes that race, an upgrade and a revocation. Users share nothing but the bus.
`WebClient`: two sockets, an old and a new one, and two refresh loops; nothing
else is bounded, and it never stops, so deadlock is checked. `SendView`: two sends, a
typed one and a retry or another; two frames on the way, which are an echo and
its ACK; one event. `MessageEdits`: one tab of each side, two texts, two changes,
two events, clocks that differ by one millisecond. `CHECK_DEADLOCK FALSE` in all
of these but `WebClient`, because their bounds are spent at some time.

Fairness is used in `OutboundQueue`, `Connections`, `WebClient` and `SendView`.
`WF(Step(d))`: Node runs its continuations and immediates, and the MongoDB
driver answers or fails. `WF(CatchUp)`: a peer that stays connected reads what
it is sent. `WF(CloseEvent(w))`: `ws` destroys a closing socket that gets no
answer, and then emits `close`. `WF(GraceExpires(u))`: timers fire. Nobody has
to connect, close or kick. In a tab, `WF(CloseEvent)`, `WF(ReconnectTimer)` and
`WF(EffectRuns)` say that browsers deliver close events, run timers and React
runs effects, and `WF(FlushTimer)` that the timer of the outbox fires; whether a
socket opens is up to the server. `MessageLifecycle` has none: it makes no
liveness claim, since whether a client comes back, replays or confirms is up to
the client.

## 5. The proofs

Assumptions are those of the modules: ids are numbers and distinct from the null
values; bounds are natural numbers; `User` of `GroupDelivery` is finite; a queue
holds at least one frame and the threshold of pending sends exceeds 1; a session
may hold a socket and belongs to a user; the sender of an edited message has a tab,
and a tab belongs to one side. Nothing bounds the number of tasks,
messages, client ids, drains, requests, faults, users, rooms, sessions,
connections, tabs, sockets, sends, edits or texts.

**MessageLifecycle.** None of the properties is inductive: from
`UnheldIsReplayable` alone one cannot see that a handler about to mark a message
has its confirmation in hand. `IInv` adds four things: `KnownAreStored`
(whatever names a message, in queues, caches or replays, names a stored one),
`HandlersKnow` (what a handler has established at each await, for example that at
`dFinish` the message is marked and at `pMark` it is claimed), `RowsAreUnique`
(the unique index), and `PassedOverIsExplained` (whatever makes a replay skip a
message has a known cause: the client holds it, a replay claimed it, mark-read
forced it). The proof has one lemma per conjunct, and before them one per
variable group listing the actions that write it, so that each conjunct looks
only at its writers. `Invariance` is `Spec => []IInv`; from it follow
`TypeCorrect`, `AcksAreDurable`, `SendsAreIdempotent`, `RecordsFollowDeliveries`,
`SentRecordsAreWatched`, `SenderIsToldTheTruth`, `UnheldStaysReplayable`, the
action property `RecordsMoveForward`, and the refinement `KeepsContract`
(`Spec => ContractSpec`). Idempotency, for instance, follows from
`AckNamesStoredRow` and `RowsAreUnique`: two ACKs of one client id name two rows
with it, which the index forbids. `UnheldStaysReplayable` needs the invariant for
what PFetch, PPick and PCheck look at (the row, the mark, the record, the cache);
that the row lies in the window follows from the cursor and the count of the rows
before it, which is a number because ids are (`RowsBefore`).

**OutboundQueue.** `IInv` is the conjunction of the type, exclusion, pending
count and order with `open => present`: a socket loses its state object only
after it has ceased to be open, so no loop is started while an orphan finishes.
The exclusion needs the equivalence of the flag and an active loop, and the order
needs it stated as an arithmetic progression: the queue is the numbers after
those taken. `QueueInvariance`, and from it `QueueTypeCorrect`,
`DrainsAreExclusive`, `PendingSendsAreExact` and `FramesStayInOrder`.
`FastPeersAreServed` is the safety half of `SentToFastPeer`: as long as the peer
keeps up and the queue does not fill, frames that wait on an open socket have a
drain at work, which is not inductive without that premise: a drain stops early
when a check fails, and nothing but an accepted frame starts another.
`NextFrameIsAttended` is the safety half of `NextFrameRestarts`: once backpressure is
clear and no drop is under way, an accepted frame has a drain at work
(`AcceptAttends`), and that drain neither drops a frame nor stops in front of one
while this stays so (`StaysAttended`). Both come from two lemmas, `ClearStep` and
`AttendedStep`.

**Connections.** `IInv` is the type, `SessionsMatchSockets` and
`PresenceIsJustified`; presence needs the former, because the handlers ask
`getSockets`, which walks the sessions: the answer "none" means that the user
has no OPEN socket only if every OPEN socket is in its session
(`AskedAfterwards`). The bound on sockets of a session needs that an eviction
follows at once. `ConnectionInvariance`, and from it `ConnectionTypeCorrect`,
`SessionsStayMatched` and `PresenceStaysJustified`.

**Rooms.** Four invariants, each inductive beside the type: `IndexInv` (the index,
and while rooms are being loaded none has been replaced yet),
`OwnershipIsExplained` itself (it already speaks of memory, collection and writes),
`NewestIsCurrent` (the newest write under way has the room as it is in memory, and
so has the collection once that write has landed), and `PastIsComplete` (every set
of members in memory, stored or being written has been the room's at some time,
which the refinement needs for restarts). From them: `RoomTypeCorrect`,
`IndexStaysMatched`, `OwnershipStaysExplained`, `QuietStoreStaysCurrent`,
`KeepsRoomContract`.

**GroupDelivery.** `CountIsBacked` needs `TaskInv` (a row that is about to be
counted, or was found by the query of a rebuilt count, is in state delivered);
`CompleteIsHonest` needs `CountInv` (an entry no replay has made has the recipients
of its own send for its total, and nobody else in it, so that reaching the total
means all of them); `AnsweredIsStored` needs `SendInv`, what an activation has done
at each stage. From them: `GroupTypeCorrect`, `CountStaysBacked`,
`CompletionStaysHonest`, `AnsweredStaysStored`.

**AuthSessions.** `IInv` adds what each request knows at the operation it stands
at (`RequestsKnow`, `AdminKnows`: for example, that at `rotate` a session that still
holds the presented hash is active), and that whatever names a session names one
that exists. From it: `AuthTypeCorrect`, `SocketsStayAuthorised`,
`BansReachSessions`, `CookiesStayKnown`, `KeepsSessionContract`.

**WebClient.** One lemma per action; `IInv` is the type and the properties, with
the bound on loops (`LoopsAreBounded`) and that greeted sockets have opened
(`AckedHaveOpened`): `Invariance`, and from it `ClientTypeCorrect`,
`SocketsStayAccounted`, `OffStaysOff`, `NobodyIsStranded`, `ReadyStaysEarned`,
`WaitersStayServed`, `OneLoopStays`.

**SendView.** `NothingVanishes` alone is not inductive: an ACK must find a stored
row, and an outbox item a bubble. `IInv` adds that frames and histories under way
say no more than the server (`NewsIsBacked`), that a bubble waiting for an answer
which was given has it on the way or lost it with a socket (`AnswerIsComing`), that
an answer has a row (`StoredIsRequested`), and that what is queued was not sent
(`QueuedIsUnsent`). From `Invariance`: `ViewTypeCorrect`, `TextsStay`,
`TicksStayBacked`, `DoublesStayExplained`. The safety half of `OutboxDrains` is two
theorems: `FlushesContinue` (a flush that has left something has its timer set) and
`TimerStays` (no step, a closed socket included, takes a set timer away while
something is queued, except the pause of a minute or more, after which the code
leaves the rest to the next `HELLO_ACK`).

**MessageEdits.** What a tab shows comes from a frame, a history or the delivery, and
each of them carries something read at an earlier await; none of the properties sees
that. `IInv` says of each carrier that the history of the row backs it: the row
itself and its stamp (`RowIsBacked`), the cache and the text a handler has found
(`AcksAreBacked`), the delivery that has read the content (`LateIsBacked`), frames on
the way (`FramesAreBacked`), pages of history (`LoadsAreBacked`), with
`WrittenIsStamped` to keep written edits as they are. `Follows` strengthens
`PeersFollow`: the stamp of a bubble is the greatest of the edits it has met and not
gone back behind (`Kept`: neither replaced by a `MESSAGE_RECEIVE` nor buried by a
delete since), and its text is that of one of them, so a merge only has to compare
two stamps. From
`EditInvariance`: `EditTypeCorrect`, `TextsShownWereStored`, `DeletesAreTrue`,
`PeersStayFollowing`, `PeersComeToAgree`, and `AckedEditsWereStored`. The last is what
holds of the claim that the run `acked_edit` refutes: an acknowledged edit has been
the content of the row, but perhaps before it was asked for. `PeersAgree` has a
premise, `StampsFollowWrites`, because `editMessageContent` takes the time before it
writes: overlapping handlers write in any order, and then row and tabs differ.

Only model-checked: `SentToFastPeer`, `NextFrameRestarts`, `GoneIsNoticed`, `KeepsTrying` and
`OutboxDrains`, as liveness under fairness is out of the prover's reach; and the
counterexamples of section 6.

## 6. Where the code and its documents disagree

Three are runs that TLC ends with a counterexample.

| run | document | behaviour |
|---|---|---|
| `acked_edit` | header of `messageMutation.js`: validate, persist, broadcast, acknowledge | an edit is compared with the transport cache, which keeps the text of its first load: edit x to y, then y to x, and the second is acknowledged, not written and not sent |
| `doc_read_is_terminal` | `STATE_MACHINE.md`: "read → any other state" is invalid | a confirmation that read the row as sent, a replay, a repeated send or a FAILED mark writes over `read`: writes are unconditional and come after an await |
| `queued_is_sent` | `backpressure.js:118` and `:165`, `wsServer.js:581`: frames are queued for when backpressure clears, "so they can be sent later" | a full queue counts as backpressure itself: a drain that finds it full stops, only an accepted frame starts another, and a full queue accepts none. A burst between two immediates does it, with a peer that is never slow |

The others were met while the modules were written, and can be followed in the
definitions named.

*Direct messages.* `STATE_MACHINE.md:63`: "delivered" only after the recipient's
confirmation; a replay notifies the sender before any row is emitted (`PFinish`).
`PROTOCOL.md:32`: a repeated send gets the existing id; after a restart it gets a
NACK, as the row is found under the old id and updated under the new one
(`UpdateSent`).

*Queue.* A queue that stopped with room left has no timer and no drain event either:
it waits for the next accepted frame (`sendNextStops`), and if that comes while a
dropped frame is being marked FAILED, for the one after (`Dropped`). Repeated
overflow closes the socket, except for responses of the dispatcher, which ignore
`shouldClose` (`Refuse`).

*Presence.* `connectionManager.js:382`: online "until last socket is CLOSED";
presence counts OPEN sockets only. The limit of sockets per session closes the
oldest with a code the client takes for normal and reconnects after: four tabs of
one browser evict each other in turn.

*Rooms.* `ROOM_RBAC_MODEL.md` and the comment at `roomManager.js:229`: the oldest
admin inherits, before any member; the code takes the oldest of all
(`transferOwnershipOrDelete`). The end of `leaveRoom` goes by room id and may
delete a room that was created again meanwhile (`LeaveDeletes`).
`PHASE4_PROTOCOL.md:164`: ROOM_MESSAGE is idempotent; two overlapping sends of one
client id, or one before and one after a restart, are both broadcast (`Send`).
`replay.service.js:256`: "if all others received, notify sender"; a crash between
the mark and the count, or two hydrations side by side, can leave the last
recipient uncounted (`CountReplayed`, `CountHydrated`).

*Login sessions.* `lib/http.js:8` takes a refused refresh for "true session
invalid"; the second of two tabs that refresh with one token is refused and logged
out although the session is active, and its answer clears the cookies the first
has got (`Answered`). `sessions.controller.js:139`: logout-all drops all sockets of
the user; it kicks on its own instance only, as `deleteMe` does (`LogoutKicks`).

*Socket of a tab.* `lib/http.js:18`: "Only one loop"; a `HELLO_ACK` during a running
refresh arms a second one (`OneLoop` has the exception). `wsClient.js:2`: a single
socket; a token refresh that reconnects keeps the old one until its close event,
and that event drops the new one (`CloseEvent`). A suspension by close code 4003 is
never shown: the client is shut down before the listener hears of it, and takes
that for a suspension already handled (`Suspended`). The server keeps
`protocolVersion` per session, so a second socket is greeted by the first's
(`HelloRefused`).

*Edits in a tab.* "Edit will sync when connected" and "Could not send. Restoring."
lead to a load of history, which keeps the tab's own newer change, and nothing is
sent later (`ChangeUnsent`, `Merged`). An edit that arrives around a delete sets
`deleted` to false, so a deleted bubble comes back (`EditShown`;
`EDIT_DELETE_SYNC_CHECKLIST.md` expects it to stay), and `MESSAGE_RECEIVE` resets
`editedAt` and `deleted` and brings the text its delivery has read, so an edit the
tab has shown can go back to the older text (`ReceiveShown`, the exception
`replaced` of `PeersFollow`). Stamps are taken before the write, so the
row can end with the earlier stamp. Mutations are not published on the bus: tabs
at other instances hear of them from history only.

*Sending in a tab.* `WS_B1_B2_VERIFY.md:99`: a message must "never disappear silently
or duplicate" after a reload; the outbox is in memory and a reload takes it
(`ReloadPage`, the exception in `NothingVanishes`). After 15 s a message that is
still queued is shown as failed; retried, both are sent (`SendingTimeout`). An ACK
lost after its echo leaves the message sent and failed, and a retry duplicates
it; a late ACK brings a retried bubble back (`Acked`); the inline Retry of
`ChatWindow.jsx:696` is offered on deleted bubbles too. An error without a client
id fails an unrelated pending bubble (`ErrorArrives`). A forced DELIVERED, an echo
or a history can turn ticks back (`StatusArrives`): ticks are backed, but not
monotonic. A message queued while rate-limited waits for the next `HELLO_ACK` or
flush, as nothing sets a timer for it (`SendsOrQueues`; hence the premise of
`OutboxDrains`).

## 7. What is left out, and why

- Messages to oneself (marked delivered at once) and the rollback of a room
  message. `DELIVERY_STATUS` is not a receipt in `MessageLifecycle`; what the tab
  makes of it is in `SendView`.
- Clock values. HTTP mark-read forces every message up to the pivot's timestamp;
  `MarkReadUpTo` lets any stored messages be the older ones.
- The gap between MongoDB's answer and the continuation that uses it: one action.
  A replay's query and its re-reads of the rows are one action as well; the
  checks that decide (`PPick`, `PCheck`) come later and are separate.
- Other instances, for messages: the recipient's socket is on the instance of
  the sender. `AuthSessions` has several, for kicks.
- In the queue: `ws.send` throwing on an open socket (the code treats it like a
  drop), and the loop a socket may start before its state object is
  installed, which ends in its first phase.
- In connections: clocks of the heartbeats, the last-seen ids and protocol
  version of a session, and the broadcast of presence changes.
- In rooms: creation and additions with more than one extra user at a time; names
  and pictures are the version only, and the version in which a user joined stands
  for the time.
- In group delivery: who is online; `SendToMember` may or may not queue a frame.
- Messages of other chats: they too move the cursor of a client and fill the window
  of its replay, which the exceptions of `UnheldIsReplayable` cover in kind.
- In login sessions: registration, which is a login without the ban check, and
  the clock of access tokens: a tab may act while the cookies are there, and a
  request to log out may find its token expired (`AuthMiddleware`), when `/logout`
  clears the cookies and leaves the session active.
- In the socket of a tab: lengths of backoffs and the rate limit; the presence
  timer, which starts and ends with the ping timer; in `connect`, `new WebSocket`
  throwing and a build without a WebSocket address, which never connects.
- In the sender's view: one tab and one direct chat; typing while the socket is
  "connecting" is refused by the window; the branch of the flush that gives up
  after failed sends, which a ready socket does not reach; deleting one's own
  pending bubble; the 15 s may pass at any time.
- In edits: `deletedAt`, acknowledgement frames, the last message of the sidebar,
  and edits of room messages, which the recipient's tabs are not told of.
- Read cursors and unread counts: one unconditional write and one query.
  Incoming rate limits and validation: sequential per socket, before any handler.
  Reports, promotions, users, password reset, uploads, search, export, metrics: one
  document per request, or counters nothing reads back. The legacy message core
  is not required by any live module. Most of the frontend's lines are rendering.

## 8. What could come next

- The cursor of a resume as liveness: who resumes until nothing comes has
  everything, cursor and window aside; and over several chats.
- The room side of the tab: room events, snapshots and delivery summaries over
  `RoomContract` and `GroupDelivery`.
- Messages between instances: the chat event of the bus and its dedupe map, with
  a recipient who changes instance.
- The safety half of `KeepsTrying`, step by step, as `TimerStays` is for the outbox.
