# Verification of termText

termText is a terminal chat: a Go relay (`server/`) that keeps accounts,
contacts and messages in SQLite and relays envelopes between WebSocket
connections, and a Bubble Tea client (`client/`) that connects, reconnects and
shows conversations with delivery ticks. This directory holds TLA+ models of the
parts whose behaviour depends on the order of events, the TLC configurations
that check them and TLAPS proofs about them. Line numbers refer to the sources
at this commit.

## The system

| Part | State | Operations | What is hard about it |
|---|---|---|---|
| Hub, `server/hub.go` | `clients`: username -> current `*Client`; each client's `outbox` channel | register (replaces and closes the old outbox), unregister (ignored when stale), route (enqueue, no route, or disconnect a full client), presence query | one goroutine owns the map, but every connection's goroutines hold the channels it closes |
| Connection, `server/client.go` | socket, outbox, goroutines serveWS, readPump, writePump | upgrade, pumps, ping, `trySend` | three goroutines and the hub end a connection from four sides |
| Messages, `server/messages.go`, `store` | rows of `messages` with `delivered` and `read` | `handleMessage`, `handleAckRead`, `flushOfflineMessages`, `handleHistoryRequest` | each handler is several database statements and hub calls with other goroutines in between |
| Presence, `server/presence.go` | none of its own | `broadcastPresence`, `OnlineStatus` | snapshot and broadcasts of two connections of one user cross |
| Contacts, `server/contacts.go`, `store` | rows of `contacts`, `conversations` | request, accept, decline, list | read-then-write without a transaction |
| Sessions, `server/http.go`, `store` | rows of `users`, `sessions` | register, login, logout, lookup, prune | expiry, code, name conflicts |
| Rate limiter, `server/ratelimit.go` | token bucket per address | allow, reap | forgetting a bucket must not give tokens away |
| Files, `server/files.go` | rows of `files`, bytes on disk | upload, download | disk and database change in separate steps |
| Client connection, `client/network.go`, `auth.go`, `events.go` | screen, token, generation, reconnect delay, outbox | connect, disconnect, reconnect tick, logout | results of earlier commands arrive after the state moved on |
| Client conversations, `client/update.go`, `events.go` | messages and ticks per contact, history cursor, unread, read flags | send, ack, tick, page of history, read acks | live messages, catch-up and pages overlap |
| Rendering, terminal input, configuration | - | - | not modelled |

The parts meet in three ways: HTTP requests (accounts, files), envelopes over
the WebSocket of a connection, and, inside the relay, the hub's unbuffered
channels and the SQLite connection (one only, so statements are atomic and
serial, but handlers are not).

What makes each part correct, and where that is settled:

| Part | It is correct when | Where |
|---|---|---|
| Hub and connections | the map holds only open, running connections of the right user; no channel is closed twice or sent on after; a stale unregister is harmless; a closed outbox ends its goroutines; a dead socket leaves the map | `Hub` |
| Messages | no persisted message is stranded or given to somebody else; acknowledgements and ticks are backed by rows, across crashes; with a recipient that keeps connecting every message is delivered | `Delivery` |
| Contacts | an accepted contact stays; a sidebar shows accepted contacts only; a request stays offered to its target | `Contacts` |
| Rate limiter | never more attempts than burst and rate pay for, whatever the reaper does; the map stays bounded by recent addresses | `RateLimiter` |
| Presence | once nothing is on its way a sidebar shows who is online, unless words overtook each other; no typing indicator stays without a word that takes it back | `Presence` |
| Client connection | retrying never loses its thread; the chat screen is never dead; what /logout removed stays removed; no socket is left running | `ClientConn` |
| Client conversations | each message once and none missing, whichever of page, replay and live came first; ticks follow the server; what was read is acknowledged, what was asked for is on its way | `ClientChat` |
| Sessions | a session ends by its own logout or its expiry, and by nothing else; one account per name | `Sessions` |
| Files | a row has its bytes, and bytes have a row or an upload that writes them; a file message shown as sent can be downloaded by both sides | `FileTransfer` |

## Modules

* `Hub` models `hub.go` and the goroutines of `client.go`. A member of `Conns`
  is one `*Client` value; `clients` is the hub's map, `outbox` and `closed` the
  channels, `reader`, `writer` and `serving` say where readPump, writePump and
  serveWS are, `up` whether the socket works. The hub's channels are unbuffered,
  so one step is one rendezvous (a sender together with the body of the select
  case) or one move of a goroutine. `Register`, `HubUnregister` and `Route` are
  the select cases; `TrySend` is a reply on one's own outbox; `ReaderPanics` is
  that reply when the outbox is closed, and `PanicCrashes` what it leads to.
  When all three goroutines have returned the value is used again for the next
  connection of its user, which keeps the state finite.
* `Delivery` EXTENDS `Hub` and composes `messages.go`, the `messages` table and
  the ticks of the sending client with it. `handler[c]` is the program counter
  of readPump inside a handler, `catchup[c]` that of serveWS inside
  `flushOfflineMessages`; a step is one SQL statement, one `trySend` or one
  `hub.route`. Rows survive `Restart`, everything else does not.
* `Contacts` EXTENDS `Hub` and composes `contacts.go`, the statements of the
  store behind it and the client's sidebar and pending requests with it, in the
  same style. `RequestContact`, `TheirRequest`, `UpgradeRequest` and
  `InsertRequest` are the statements of `Store.RequestContact`; `QueryContacts`,
  `SendList`, `QueryRequests` and `SendRequest` those of the catch-up; `frames`
  holds what a client has written and readPump has not read.
* `RateLimiter` models `ratelimit.go`; an attempt holds the mutex, so it is one
  step. `TokenBucket` is the abstract specification: a bucket per address that
  is never forgotten. `ImplementsTokenBucket` instantiates it with
  `Ideal`, computed from the level that lazy refill and reaper leave.
* `ClientConn` models the client from launch to relaunch: `model.go`'s
  `initialModel`, the messages of `network.go` and their handlers in
  `events.go`, the login of `auth.go`, `/logout` in `update.go` and the config
  file. `m` is the Bubble Tea model, reduced to the fields these handlers use,
  and each `Handle...` action is the handler of that name applied to one message.
  A `link` is one `wsConnect`: dialing, then the outcome that waits for Update,
  then an open socket, then the loss that waits for Update. `timers` counts the
  running `tea.Tick`s of each generation, `login` follows a request and then its
  session on the server, `saved` is the token in config.json. Messages are taken in
  any order, because each comes from a goroutine of its own. On connect the
  handler also resends read acknowledgements; they are in `ClientChat`.
* `Presence` EXTENDS `Hub` and composes with it the broadcasts of serveWS and of
  readPump's deferred function (`presence.go`), the contact list with its snapshot
  of who is online, the relay of typing indicators, and the watcher's sidebar.
  `serve[c]` and `farewell[c]` are what the two goroutines of a connection have yet
  to do, one routed contact per step. The client's own `trySend` drops a
  typing frame when its outbox is full. `misled`, `unheard` and `unsaid` record the
  words that were overtaken, kept from their target, or dropped by the client, when
  the code has no means against it.
* `ClientChat` models one conversation as one client sees it: the entries of
  `m.messages`, the contact's unread count and history flags, the frames in both
  directions, and the server's side of the conversation, one statement or one
  `trySend` per step: `page` and `acking` stand between the statement of a handler
  and its reply, `relaying` between the INSERT of the peer's message and its route.
  `Routed` is the hub's way into the client's outbox, `ToClient` that of `trySend`,
  which may drop the frame: other conversations fill the same outbox. `lost` records
  what was lost or dropped, and the `ack_read` that came too early to count.
  `Connect` ... `ServerNotices` are the life of the connection,
  reduced to what a conversation can tell: frames are lost with it, a stale
  `handleDisconnected` comes late, and the outbox survives nothing. The merge with
  the first page sorts by time only, so its result is any of the sorted orders.
* `Sessions` models `/register`, `/login` and `/logout`: `request[r].pc` is where the
  handler is between its statements, `waiting` what the client still waits for,
  `sessions` the table with its expiries, `now` the server's clock.
* `FileTransfer` EXTENDS `Sessions` and composes the upload handler, the `files`
  table, the uploads directory, the client's `/send` and the file branch of
  `handleMessage` with it. An upload is a request whose parts are read one at a time;
  the conversation it is for is that of the client at `/send`. Its result goes to the
  client program (`Clients`) that started it and carries no user: the message is
  posted by `me[c]`, whoever is logged in there when it ends, in the conversation that
  is open by then. Downloads change nothing: `CanDownload`
  says what the handler answers.
* `MCDelivery`, `MCContacts`, `MCPresence`, `MCClientChat`, `MCFileTransfer` and
  `MCRateLimiter` give the constants values for TLC; those of `ClientConn` are
  numbers and are in its configurations. `HubProofs`, `DeliveryProofs`,
  `ContactsProofs`, `RateLimiterProofs`, `ClientConnProofs`, `FileTransferProofs`,
  `PresenceProofs` and `ClientChatProofs` hold the theorems; the invariants of the last
  are in `ClientChatInvariants`.
* Definitions under a comment `Mutant of X` are plausible bugs of X. No
  specification uses them; each is the change that makes one property of one
  run fail, and so shows that the property depends on that code.

The abstract side of the composition is `Hub` itself: its `HubNext` lets any
connection reply, route, fail or crash at any time, and `Delivery` and
`Contacts` are shown to take only such steps (`ImplementsHub`). What is proved
about the hub therefore holds in both. `Presence` is built from the same actions
of `Hub`, conjoined with its own, except that the contact list and the end of
serveWS are one step there.

## Runs

| Run | Configuration | What it shows |
|---|---|---|
| `delivery_overlap` | `MCDeliveryOverlap` | a message sent while its recipient's new connection overlaps the unwinding of the old one always has somebody who will offer it; the hub's map, channels and goroutines stay consistent under replacement, slow clients, panics and crashes |
| `delivery_faults` | `MCDeliveryFaults` | failing statements, crashes, lost sockets and foreign frames: envelopes and ticks stay true, every step is one of the hub |
| `delivery_liveness` | `MCDeliveryLive` | with one disturbance and a recipient that keeps connecting, a persisted message is eventually marked delivered; a closed outbox ends all goroutines of its connection; a dead socket's entry leaves the map |
| `contacts_races` | `MCContacts` | any three commands of two users while handlers and catch-ups interleave: what is accepted stays, sidebars are true, no request is stranded |
| `contacts_faults` | `MCContactsFaults` | failing statements, lost sockets, crashes and outboxes of one slot |
| `limiter` | `MCRateLimiter` | two addresses, every schedule of attempts and sweeps: the rate holds, the limiter is a token bucket, and a sweep throttled to once per TTL leaves no bucket idle for twice the TTL |
| `client_conn` | `MCClientConn` | two logins, four links, three losses and a relaunch, every message as late as it likes: the retry loop, the chat screen, the logged-out token and the sockets are as they should be, and the client stops reconnecting once dials stop failing |
| `presence` | `MCPresence` | a watcher and a user with two connections: broadcasts of both, snapshot and typing cross in every order, with one disturbance |
| `chat` | `MCClientChat` | three stored messages, pages of two, one live message, one fault: pages, replay, relay and acknowledgements in every order show each message once, leave none out but those lost or dropped, and leave the client neither waiting nor owing without cause |
| `file_transfer` | `MCFileTransfer` | two requests of register, login, logout and upload at a time, which fail, time out, expire and are cut off by restarts: rows and bytes agree, sent files are shared, sessions last; the two users share a client program, so that uploads end under another account |

Two things the documentation says do not hold, and a run finds a counterexample
to each (`findings` of PROJECT.json quotes them):

| Run | What the documentation says | What happens |
|---|---|---|
| `panic_on_closed_outbox` | a replaced connection's pumps unwind on their own (hub.go:67) | a handler of it that replies panics on the closed channel and takes the relay down |
| `history_zone` | a page is "strictly older than everything loaded" (events.go:352) | the cursor is a local time compared as text with UTC (update.go:481, store.go:611): east of Greenwich the page repeats what is shown |

More were met while modelling. The properties the runs check are stated so that
they hold in spite of them (a history variable records each loss the code has no
means against), and they have no run of their own. On the server:

* undelivered messages are replayed, then marked (PROTOCOL.md:311), but `trySend`
  drops one when the outbox is full and it is marked all the same
  (messages.go:238-240);
* "accepted" means accepted (store.go:252), but an UPDATE of a row declined
  meanwhile changes nothing and is reported as accepted, with a conversation
  (store.go:271);
* `message_ack` precedes `ack_delivered` (PROTOCOL.md:300), but the recipient's
  catch-up may overtake the sender's handler between INSERT and `trySend`. An
  `ack_read` may overtake `message_ack` the same way, which `markTick` takes to be
  impossible (update.go:635-637): it finds no entry and the tick is missed
  (`TickIsRight` excepts it);
* Retry-After is cut to whole seconds (ratelimit.go:108), so a client that waits
  as long as it says may be refused again; the header is not modelled;
* one row per relationship (store.go:55), but two users who add each other at
  the same time both insert a pending row; accepting either works;
* both sidebars update live (contacts.go:60), but a contact_list read before an
  accept may be sent after it and take the contact off until the next reconnect;
* the snapshot of who is online is taken before the list is sent, and a presence
  frame in between is overwritten by it; likewise the "offline" of a replaced
  connection may come after the "online" of its successor (`misled`);
* a failed upload leaves no orphan (SECURITY.md:31), but a second file part of one
  form, or a crash, leaves the file of the first on disk (`abandoned`), also when the second file
  cannot be created (files.go:114, 121);
* a repeated /logout is said to be idempotent (http.go:134), but it is answered 401;
  a token that has been revoked keeps the WebSocket it opened.

In the client:

* /logout leaves "no stale state from the old session" (update.go:755), but a
  reconnect that is dialing goes on, succeeds and puts the fresh model on the chat
  screen of the account just left; after a 401 the old account's model is kept;
* ticks progress from sent to delivered to read (model.go:17), but `markTick`
  lets a late `ack_delivered` replace read; a tick is never ahead of its row
  (`TicksAreTrue`), and a read that overtakes the page with its message is
  missed until the next page (`TickIsRight` excepts it);
* a stale generation is ignored (events.go:93), but /logout starts generations at 0
  again, so a timer of the old session may match one of the new and run a second
  retry loop; likewise the saved token's dial and a login's may both be under way;
* a failed write at /logout "just means the next launch re-prompts" (update.go:767),
  but the next launch dials with the old token, which works unless the
  revocation got through; `LogoutIsRemembered` is about writes that succeed;
* a 401 means the token is bad (events.go:36), but `authenticateHTTP` answers 401
  for any failed lookup (files.go:31), and the client drops a good token;
* a register whose answer timed out is done on the server, and the retry gets 409;
* pendingRequests are outstanding (model.go:124), but a `contact_accept` lost
  with the connection leaves its request there;
* `historyLoading` stays set when the request or its answer is lost, and no page of
  that conversation is asked for again (`HistoryIsComing` excepts it);
* an `ack_read` in the outbox of a connection that is lost is not sent again, nor
  is one beyond the 32 that fit (`AckIsComing` excepts both);
* a message typed while disconnected is shown with a tick and dropped;
* a typing indicator outlives the watcher's own reconnect (`TypingIsBacked` is
  about those shown since), and one whose end of burst found the typist's outbox
  full is taken back by nothing (`unsaid`);
* an upload that ends after the user has opened another conversation, or after
  another account has logged in, is posted there, refused by the server and shown
  as sent (`unshared`); a download
  overwrites a file of the same name.

### Bounds

* `Conns`: one or two connection values per user. Two are what a replaced
  connection and its successor need; a third could only wait. That users do not
  disturb each other in the hub is what `HubProofs` shows for any number of them.
* `OutboxSize` 1 to 4 for the code's 32: one slot makes every second envelope
  meet a full outbox; where a property is not about overflow the size is such
  that there is none. `NoRequestStranded` is checked without overflow, because
  `trySend` drops a replayed request when the outbox is full and the user sees it
  only at the next connect.
* `MaxMsgs` 1, `Senders` alice only: handlers touch one row, and what else fills
  an outbox are the frames of other kinds.
* `MaxCmds` 1 to 3 and `Commands`: add, accept and decline of one pair are three.
  Replies do not depend on other pairs, so two users show them all.
* `NoiseKinds` and `MaxNoise` bound what may go wrong: socket failures, crashes,
  frames of other kinds; `Flaky` says whose sockets may fail, `DBFaults` whether
  a statement may. Panics of the relay and disconnects of slow clients are not
  noise: they happen as often as they can.
* `MaxTime` 8 with a burst of 2 and a token every 2 units: a whole refill is 4
  units, equal to `IdleTTL`, so a bucket is reaped at the earliest moment the
  assumption allows and used again, and 8 is twice that.
* `MaxLogins` 2, `MaxLinks` 4, `MaxLosses` 3, `MaxLaunches` 1: a saved session or a
  first login, then another after /logout; a dial or a lost socket of the old
  session beside two of the new, so that timers of equal generations meet; dials fail
  and are repeated without bound. A message that starts a dial waits while all
  links are taken, which the four make harmless: `ReconnectsOnceReachable` holds.
* `presence`: an outbox of one slot, one burst of typing, one disturbance of any
  kind. Two connections of the user watched and one of the watcher are the smallest
  case in which broadcasts of two connections and a snapshot cross.
* `chat`: `PageSize` 2 (50 in the code) with three stored messages, so that there is a
  second page with one entry; one row of each kind (read by nobody, one's own, still
  queued). `OutCap` 2 for 32, so that acknowledgements meet a full outbox.
  `MaxSends` 1 and `MaxLosses` 1: one live message of either side against replay and
  page, one lost connection, failing statement or dropped reply; reconnecting after
  it is the case of the resending. `Zone` is 0, and 2 (one message's distance) in `history_zone`.
* `file_transfer`: two users who take turns at one client program, two conversations
  (one of both, one with a third user who is never logged in), two requests, tokens
  and files, `MaxNoise` 1. Requests interact through one user's token, one file or the
  client only; two of them are what a race needs. `TTL` 1 and `MaxTime` 1: a session
  expires under a request that has been authorised. `MaxParts` 2 is the second file
  part of a form. The state constraint `Bounds` follows one file up to its message,
  while the other is uploaded beside it, and lets one user send from the client and the
  other post forms; both log in and out at the client, so that results reach either.
* Symmetry is declared in `delivery_overlap` and `presence` (one user's two
  connections), in `limiter` (addresses) and in `file_transfer` (requests, tokens,
  files), none of which checks liveness.
* `CHECK_DEADLOCK FALSE` is in every run but the limiter's: when the bounded
  commands, messages, time and disturbances are used up and everybody is connected
  nothing is left to do. The limiter never stops and is checked for deadlock.

### Fairness

Weak fairness of every goroutine that can move: Go's scheduler runs them, and a
rendezvous with the hub always succeeds because `Run` never blocks (its answer
on `delivered` goes to a buffered channel, hub.go:117). `ClosedUnwinds` and
`DeadSocketLeavesHub` need no more. `EventuallyDelivered` needs also that a client without a socket dials
again (client/network.go:27-49, events.go:72-101). `client_conn`
assumes that a dial ends (gorilla's DefaultDialer has a handshake timeout), that
`tea.Tick` fires and that Update takes the message of either; nothing of the
network: that dials stop failing is the premise of `ReconnectsOnceReachable`.
Nothing forces anybody to send, read, fail or crash. `Presence`, `ClientChat` and
`FileTransfer` assume no fairness: what must come is stated as safety, something
that brings it is on its way (`SettledIsRight`, `HistoryIsComing`, `AckIsComing`).

## Proofs

All theorems hold for any sets of users and connections, any capacities and any
bounds. The assumptions are those named in the modules: owners are users,
capacities are positive, `Envelope` is the set each module defines, and for the
limiter that `IdleTTL` is at least a whole refill (main.go: 10 minutes against
5 times 12 seconds). Four theorems have a hypothesis of their own: `NothingStranded`
that the database answers, `MessagesShownOnce` that the zone adds nothing,
`SidebarTrue` that no decline overtakes an UPDATE, and `RequestsReachTarget` that
besides the database answers and outboxes have room (see `ContactsProofs`).

* `HubProofs`. `HubInv` joins the types with `RegisteredIsLive` and
  `LiveIsKnown`, which need each other: a registered connection is open only
  because whoever closes an outbox takes it off the map, and a stale unregister
  is harmless only because every running connection is registered or closed.
  Theorems `HubTypeCorrect`, `HubHoldsLiveConns`, `HubForgetsNoOne`.
* `DeliveryProofs`. `DeliveryInv` adds to the types what the program counters
  stand for: the row a handler or catch-up is at exists, is its user's, and has
  been marked when it notifies. Rows only grow (`RowsKept`), so an envelope that
  was true when queued stays true; `AcksTrue` and `TicksTrue` follow by looking at
  who queues and who drains. `DeliveryIsOfHub` is the refinement.
  `NothingStranded` says per row that whoever may still offer it (`OffersRow`,
  `HandlesRow`) lets go of it only by marking it, and that a recipient who
  registers brings a catch-up along. Its hypothesis is `~DBFaults`: a statement
  that fails leaves the row to the next connection of the recipient, which the
  code accepts.
* `ContactsProofs`. `ContactsInv` is the type invariant with commands in flight
  included. `ContactsIsOfHub` is the refinement, which in turn gives the shape of
  envelopes to the client (`HubInvStep`); `AcceptedForGood` goes through the four
  statements that write the table (`RowWriters`).
  `SidebarInv` is `SidebarIsTrue` made inductive: what a handler has found out
  (`TrueHandler`), what a catch-up carries (`TrueCatchup`) and what waits in an
  outbox (`TrueOutbox`) is of friends, and friends stay friends (`FriendsKept`).
  One thing a handler finds out may pass: the row a mutual add wants to UPDATE,
  which a decline of the same user may remove first. It takes a connection that
  has been replaced and still has a `/decline` to read: then the user is told of a
  contact that is none. So theorem `SidebarTrue` has the
  hypothesis `[]NoRivalDecline`, and `OneConnectionNoRival` shows it of every
  instance where decliners have one connection value, such as the two that are
  checked. `RequestsReachTarget`, for `NoRequestStranded`, follows a request from the
  handler that pushes it or the catch-up that replays it through the outbox to
  the client, and to the `/decline` that ends it (`CatchupOffers`, `PushOffers`,
  `QueueOffers`, `RequestsOffer`, `DeclineOffers`; `OfferedElsewhere` when the
  connection changes). Besides `[]NoRivalDecline` it needs `~DBFaults` and
  `[]RoomForRequests`: `trySend` drops a replayed request that finds a full outbox,
  unless a copy is in it. `contacts_races` satisfies all three in each of its states.
* `RateLimiterProofs`. One fact carries it, `LevelIsDebt`: what an address may
  spend is its capacity less its debt, whether its bucket is there, being swept or
  long gone. From it `LimiterIsTokenBucket`, and with the sum of attempts against
  debt (`DebtCovers`) `ServedWithinRate`; `ReaperKeepsUp` from the throttle.
* `ClientConnProofs`. `RetryInv` joins `RetryIsPending` and `ChatIsAlive` with what
  they rest on: the model's link is open or its loss waits (`ConnIsLive`), a
  client that reconnects has a generation (`RetryHasGen`), and every generation is
  paid for by a loss (`GenIsPaid`), which bounds them. `TokenInv` adds to
  `LogoutIsRemembered` that all tokens known are of sessions granted before, so that
  a late answer to a login never brings one that was left. Theorems
  `ClientTypeCorrect`, `RetriesGoOn`, `ChatNeverDead`, `LogoutForGood`,
  `SocketsHeld`.
* `FileTransferProofs`. `FilesInv` adds to `FilesMatchRows` what an upload in
  progress owns (`Owned`: its file is on disk, has no row, and is whole once
  written) and that no two uploads write to one file (`Apart`), without which the
  cleanup of one could remove what another has committed. Theorems `RowsMatchFiles`
  and `SessionsEndProperly`; the second needs only the shape of the tables.
  `SharingInv` adds whose account every request and session is (`Accounted`),
  that a row is of a user with an account and a conversation (`Uploading`), and
  that whatever names a file, from the answer to its upload to the message in the
  table, agrees with its row, which never changes (`Sharing`, `RowsStay`). Theorems
  `FileTransferTypeCorrect`, `SentFilesShared`.
* `PresenceProofs`. `ShapeInv` says whom a goroutine may still tell. `TypingInv`
  goes from an indicator back to its cause: every start of a burst, in a frame, an
  envelope or on a screen, has the burst itself or its end behind it in the same
  queue (`Backed`), and a backing ends only in the step that queues the word that
  ends the indicator (`BackedStays`). `SettledInv` says the same of the last word
  about a contact: it is true (`Truthful`) and has been said to everybody
  connected (`Informed`), unless a greeting, a farewell or an entry of `misled` or
  `unheard` excuses it. Both need `OneSocket`: a user has one working socket, so
  that coming and going always starts a broadcast of the right kind. Theorems
  `PresenceTypeCorrect`, `TypingBacked`, `SettledRight`.
* `ClientChatProofs`. The inductive invariants of `ClientChatInvariants`, each on top
  of the last.
  `ShapeInv`: only frames of the protocol, and every id mentioned anywhere is that
  of a row. `WaitInv` for `HistoryIsComing`: what `historyLoading` waits for moves
  from outbox to page to inbox or to `lost`, and the answer resets it.
  `PagesHonest`: a page says `read` only of rows that are, so that what a page
  shows as acknowledged is; with it `AckInv`, the per-entry form of
  `AckIsComing`. `Numbers`: the numbers of the client and the ids of the server name
  the same messages (`Books`), also of the row that waits for its `message_ack`
  (`AckBooks`), no number is used twice, and a `message_ack` finds an entry
  without id; without it a receipt could land on another entry. `TickInv` for
  `TickIsRight`: a receipt is behind every page and `message_ack` in the inbox that
  does not know of it, because it was put there later, or it overtook them and is in
  `lost` (`StoredNews` for the row between INSERT and `message_ack`). The next carry
  `ShownOnce`: a live message or an acknowledged id is not on the screen, nor in a
  page ahead of it (`AckFresh`), nor is one yet to be acknowledged, because readPump
  handles no request for a page before (`Unheard`); an entry is no newer than its row, and one the
  user typed is older (`AtBooks`); one page at a time is asked for (`Single`), and
  what it brings lies below the oldest entry shown (`Cursor`); an entry that
  is older than that oldest one stands behind something newer (`FloorInv`).
  `Cursor` is where the zone matters: theorem `MessagesShownOnce` has the
  hypothesis `Zone = 0`, and `history_zone` shows what happens without it.
  `HoleInv` for `NothingMissing`: a row of the start that no replay will bring is
  settled; any other is shown, queued, on its way or, lost with a connection or dropped by a
  full outbox, missed (`Accounted`), and
  every settled row above an entry is shown, so that a request from there and the
  page that answers it skip none (`Upward`). Theorem `NoHole` has two hypotheses:
  `Zone >= 0` (a smaller cursor skips messages), and `QueueIsNewest`, that the
  undelivered rows at the start are the newest ones. A database where marking one
  row delivered had failed can have it otherwise; the replay then shows an old
  message first, the cursor starts there, and what lies between it and the first
  page stays hidden until the client is started anew. `Counted` gives the bounds of
  `ChatTypeOK`: the rows, the messages in the outbox and those still to be sent are
  together no more than there were to send, so that storing one moves it and does
  not add to it; the badge counts rows that are shown. Other theorems:
  `ChatTypeCorrect`, `ChatShapeCorrect`, `PagesAwaited`, `AcksUnderway`, `NumbersBooked`,
  `TicksUnderway`.

Only model-checked:

* the liveness properties (`ClosedUnwinds`, `DeadSocketLeavesHub`,
  `EventuallyDelivered`, `ReconnectsOnceReachable`), which the prover cannot treat;
* the counterexamples.

## Abstractions

* JSON, SQL text, logging and the contents of messages are left out. A message is
  its row, a conversation its pair of users.
* Levels of the limiter are exact fractions; the code's are float64.
* A write to a dead socket may succeed or fail; an envelope written to a working
  socket reaches the client. An envelope still in the network when the socket
  fails is the first case.
* A client's write of a command reaches readPump unless the connection ends first.
* A user runs one client; in `Delivery` and `Contacts` it keeps its lists across
  reconnects and does not log out.
* `ClientConn` knows one server, and a user name is the login that set it. Attempt
  counts and delays only say when a timer fires, which is at any time.
* `MarkDelivered` may fail in `Delivery`, where a row offered twice is what it leads
  to; in `ClientChat` it succeeds, and a failing statement is the first of a handler.
* `handleHistoryRequest` replies without changing state: one foreign frame in
  `Delivery`, two steps in `ClientChat`.
* `ClientChat` has one connection value at a time on the server; replacement is in
  `Delivery`. The user does not log out, and other conversations are not
  followed. `sent_at` increases with the row, as it does under one clock.
* In `Presence` who has whom as a contact is fixed; the replies and replays that
  serveWS sends after the list are left out.
* In `Sessions` a password is known by its user and nobody else; a request that
  fails before its first statement changes nothing and is left out. Tokens and file
  names are not guessed and not repeated.

Not modelled for good:

* rendering (`view.go`), terminal input and key bindings: no state that outlives a
  frame;
* the config file beyond its token, start-up flags, environment: read once;
* the client's download (`client/files.go`): one request and one local file, nothing
  it races with but a file of the same name;
* bcrypt, token generation, JSON and the layout of envelopes: pure functions of
  libraries, modelled by what their callers use.

## Plan

Every safety property the passing runs check is stated by a theorem. What is left
needs a wider model of the client: a logout while a conversation is open, and a
second conversation beside it (see Abstractions).
