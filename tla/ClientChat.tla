----------------------------- MODULE ClientChat -----------------------------
(***************************************************************************)
(* One conversation as one client sees it (client/update.go,               *)
(* client/events.go): the entries it shows, the history pages it asks for, *)
(* the offline replay and the live messages that arrive between them, the  *)
(* read acknowledgements it owes and the ticks on its own messages.  The   *)
(* server's side is what handleHistoryRequest, handleAckRead,              *)
(* handleMessage, pushContactList and flushOfflineMessages do for this     *)
(* conversation (server/messages.go, server/contacts.go, store/store.go).  *)
(*                                                                         *)
(* The id of a row is its index in `rows`; its sent_at is 2 * id, so that  *)
(* the client's clock has a value between any two.                         *)
(***************************************************************************)
EXTENDS Integers, Sequences, FiniteSets, SequencesExt

CONSTANTS
  PageSize,  \* historyPageSize
  OutCap,    \* outboxSize
  Zone,      \* what the client's zone adds to a time that is compared as text
  Preload,   \* the rows the database holds when the client starts
  MaxSends,  \* bound: messages sent by either side
  MaxLosses  \* bound: lost connections, failing statements, full outboxes of the server

ASSUME ChatAssumption ==
  /\ PageSize \in Nat \ {0} /\ OutCap \in Nat \ {0} /\ Zone \in Int
  /\ MaxSends \in Nat /\ MaxLosses \in Nat
  /\ Preload \in Seq([mine : BOOLEAN, cm : {0}, delivered : BOOLEAN, read : BOOLEAN])

VARIABLES
  rows,       \* server: the messages of the conversation, oldest first
  registered, \* server: the hub has a connection of this user
  relaying,   \* server: the peer's row that handleMessage has yet to route, or 0
  greeting,   \* server: what serveWS has yet to do, and the rows left to replay
  page,       \* server: the page handleHistoryRequest is about to send, or NoPage
  acking,     \* server: the client's row handleMessage has yet to acknowledge, or 0
  inbox,      \* frames on their way to the client
  outbox,     \* frames on their way to the server
  link,       \* "up"; "dead" until handleDisconnected has run; "down"
  contact,    \* client: the conversation's entry in m.contacts, and whether it is open
  msgs,       \* client: m.messages of this conversation
  sends,      \* what is left of MaxSends
  losses,     \* what is left of MaxLosses
  lost        \* frames that were lost on the way, found an outbox full, or came too
              \* early to count

server == <<rows, registered, relaying, greeting, page, acking>>
vars == <<server, inbox, outbox, link, contact, msgs, sends, losses, lost>>

NoPage == [type |-> "none"]
List == [type |-> "contact_list"]
Message(id) == [type |-> "message", id |-> id]
MessageAck(cm, id) == [type |-> "message_ack", cm |-> cm, id |-> id]
AckRead(id) == [type |-> "ack_read", id |-> id]
Send(cm) == [type |-> "message", cm |-> cm]
HistoryRequest(before) == [type |-> "history_request", before |-> before]
HistoryResponse(ms) == [type |-> "history_response", messages |-> ms]

Latest == 0  \* an empty "before"
Ids == 1..(Len(Preload) + MaxSends)
Entry == [id : {0} \cup Ids, cm : 0..MaxSends, at : Nat, mine : BOOLEAN,
          tick : BOOLEAN, seen : BOOLEAN, sent : BOOLEAN]

ChatTypeOK ==
  /\ rows \in Seq([mine : BOOLEAN, cm : 0..MaxSends, delivered : BOOLEAN, read : BOOLEAN])
  /\ registered \in BOOLEAN /\ relaying \in {0} \cup Ids /\ acking \in {0} \cup Ids
  /\ greeting \in [pc : {"none", "list", "flush", "replay"}, of : Seq(Ids)]
  /\ link \in {"up", "dead", "down"}
  /\ link = "down" => outbox = <<>> /\ inbox = <<>>
  /\ Len(outbox) <= OutCap
  /\ contact \in [known : BOOLEAN, active : BOOLEAN, unread : 0..Len(msgs),
                  loaded : BOOLEAN, loading : BOOLEAN, exhausted : BOOLEAN]
  /\ contact.active => contact.known /\ contact.unread = 0
  /\ msgs \in Seq(Entry)
  /\ \A i \in DOMAIN msgs : msgs[i].sent => msgs[i].seen \/ msgs[i].mine
  /\ sends \in 0..MaxSends /\ losses \in 0..MaxLosses

Init ==
  /\ rows = Preload
  /\ registered = FALSE
  /\ relaying = 0
  /\ greeting = [pc |-> "none", of |-> <<>>]
  /\ page = NoPage /\ acking = 0
  /\ inbox = <<>> /\ outbox = <<>>
  /\ link = "down"
  /\ contact = [known |-> FALSE, active |-> FALSE, unread |-> 0,
                loaded |-> FALSE, loading |-> FALSE, exhausted |-> FALSE]
  /\ msgs = <<>>
  /\ sends = MaxSends
  /\ losses = MaxLosses
  /\ lost = {}

-----------------------------------------------------------------------------
(* The client's model: what it sends.                                      *)

\* What trySend still takes: nothing without a connection.
Room(box) == IF link = "down" THEN 0 ELSE OutCap - Len(box)

\* Mutant of Put: the outbox has no limit.
PutAlways(box, f) == Append(box, f)

Put(box, f) == IF Room(box) > 0 THEN Append(box, f) ELSE box

\* markConversationRead's `continue`.
Unacked(ms) == {i \in DOMAIN ms : ~ms[i].mine /\ ~ms[i].sent}

\* resendPendingReadAcks' `continue`.
Pending(ms) == {i \in Unacked(ms) : ms[i].seen}

\* The numbers in D from the smallest to the greatest.
Ascending(D) ==
  [k \in 1..Cardinality(D) |-> CHOOSE i \in D : Cardinality({j \in D : j < i}) = k - 1]

\* The entries of D whose ack_read finds one of n places.
Accepted(D, n) == {i \in D : Cardinality({j \in D : j < i}) < n}

\* The loop of both functions over the entries D: sendReadAck for each ...
Marked(ms, D, n) ==
  [i \in DOMAIN ms |->
     IF i \in D THEN [ms[i] EXCEPT !.seen = TRUE, !.sent = i \in Accepted(D, n)] ELSE ms[i]]

\* ... and what it puts into the outbox.
Acks(ms, D, n) == [k \in 1..Cardinality(Accepted(D, n)) |->
                     AckRead(ms[Ascending(Accepted(D, n))[k]].id)]

\* The others: without a connection they wait for the next one, a full outbox
\* makes them wait for the next call of markConversationRead.
Refused(ms, D, n) ==
  IF link = "down" THEN {} ELSE {AckRead(ms[i].id) : i \in D \ Accepted(D, n)}

\* requestHistory, with historyLoading.
RequestHistory(c, box, gone, before) ==
  /\ contact' = [c EXCEPT !.loading = TRUE]
  /\ outbox' = Put(box, HistoryRequest(before))
  /\ lost' = IF Room(box) > 0 THEN gone ELSE gone \cup {HistoryRequest(before)}

\* maybeLoadHistory
MaybeLoadHistory(c, box, gone) ==
  IF c.active /\ ~c.loaded /\ ~c.loading
  THEN RequestHistory(c, box, gone, Latest)
  ELSE contact' = c /\ outbox' = box /\ lost' = gone

\* The last part of the handlers: markConversationRead if it is open.
ShowTo(c, ms) ==
  /\ contact' = c
  /\ msgs' = IF c.active THEN Marked(ms, Unacked(ms), Room(outbox)) ELSE ms
  /\ outbox' = IF c.active THEN outbox \o Acks(ms, Unacked(ms), Room(outbox)) ELSE outbox
  /\ lost' = IF c.active THEN lost \cup Refused(ms, Unacked(ms), Room(outbox)) ELSE lost

-----------------------------------------------------------------------------
(* The user.                                                               *)

\* setActive on this conversation.
Open ==
  /\ contact.known /\ ~contact.active
  /\ msgs' = Marked(msgs, Unacked(msgs), Room(outbox))
  /\ MaybeLoadHistory([contact EXCEPT !.active = TRUE, !.unread = 0],
                      outbox \o Acks(msgs, Unacked(msgs), Room(outbox)),
                      lost \cup Refused(msgs, Unacked(msgs), Room(outbox)))
  /\ UNCHANGED <<server, inbox, link, sends, losses>>

\* setActive on another one.
Leave ==
  /\ contact.active
  /\ contact' = [contact EXCEPT !.active = FALSE]
  /\ UNCHANGED <<server, inbox, outbox, link, msgs, sends, losses, lost>>

\* maybeLoadMoreHistory, scrolled to the top.  The cursor is the local time
\* of the oldest entry, which the server compares as text with UTC.
LoadMore ==
  /\ contact.active /\ contact.loaded /\ ~contact.loading /\ ~contact.exhausted
  /\ msgs # <<>>
  /\ RequestHistory(contact, outbox, lost, msgs[1].at + Zone)
  /\ UNCHANGED <<server, inbox, link, msgs, sends, losses>>

\* sendChatMessage: shown at once, sent if there is a connection.
Type ==
  /\ contact.active
  /\ sends > 0 /\ sends' = sends - 1
  /\ outbox' = Put(outbox, Send(sends))
  /\ lost' = IF Room(outbox) > 0 THEN lost ELSE lost \cup {Send(sends)}
  /\ msgs' = Append(msgs, [id |-> 0, cm |-> sends, at |-> 2 * Len(rows) + 1, mine |-> TRUE,
                           tick |-> FALSE, seen |-> FALSE, sent |-> FALSE])
  /\ UNCHANGED <<server, inbox, link, contact, losses>>

-----------------------------------------------------------------------------
(* The client's handlers of what the server sends.                         *)

Receive(type) == inbox # <<>> /\ Head(inbox).type = type /\ inbox' = Tail(inbox)

\* handleContactList: the state of a known contact is kept, the first list
\* may open the conversation (it opens the first one).
HandleContactList ==
  /\ Receive("contact_list")
  /\ \E first \in BOOLEAN :
       MaybeLoadHistory([contact EXCEPT !.known = TRUE,
                                        !.active = IF contact.known THEN @ ELSE first], outbox, lost)
  /\ UNCHANGED <<server, link, msgs, sends, losses>>

\* appendMessage's look for the server id ...
AppendMessage(ms, e) ==
  IF \E i \in DOMAIN ms : ms[i].id = e.id THEN ms ELSE Append(ms, e)

\* ... and handleIncomingMessage: the unread badge if it is not open.
HandleMessage ==
  /\ Receive("message")
  /\ LET id == Head(inbox).id
         ms == AppendMessage(msgs, [id |-> id, cm |-> 0, at |-> 2 * id, mine |-> FALSE,
                                    tick |-> FALSE, seen |-> FALSE, sent |-> FALSE])
     IN  ShowTo(IF ms # msgs /\ contact.known /\ ~contact.active
                THEN [contact EXCEPT !.unread = @ + 1] ELSE contact, ms)
  /\ UNCHANGED <<server, link, sends, losses>>

\* The entries of a page, oldest first.
Entries(ms) ==
  [i \in DOMAIN ms |->
     LET m == Reverse(ms)[i]
         mine == rows[m.id].mine
     IN  [id |-> m.id, cm |-> 0, at |-> 2 * m.id, mine |-> mine, tick |-> mine /\ m.read,
          seen |-> mine \/ m.read, sent |-> mine \/ m.read]]

\* mergeInitialHistory: by id, the live copy wins, then sorted by time; entries
\* of one time may come in any order (a map is iterated, sort.Slice is not stable).
MergeInitialHistory(existing, history) ==
  LET ids == {existing[i].id : i \in DOMAIN existing}
      all == {existing[i] : i \in DOMAIN existing}
               \cup {history[i] : i \in {j \in DOMAIN history : history[j].id \notin ids}}
  IN  {s \in [1..Cardinality(all) -> all] :
         \A j \in DOMAIN s : \A i \in 1..(j - 1) : s[i] # s[j] /\ s[i].at <= s[j].at}

\* Mutant of NothingOlder: a page that is just full ends the history.
NothingOlderOffByOne(ms) == Len(ms) <= PageSize

\* A short page is the last one.
NothingOlder(ms) == Len(ms) < PageSize

\* Mutant of Loaded: an empty page returns before the flag is reset.
LoadedUnlessEmpty(c, ms) ==
  [c EXCEPT !.loading = ms = <<>>, !.loaded = TRUE, !.exhausted = @ \/ NothingOlder(ms)]

\* What any page says of the conversation.
Loaded(c, ms) ==
  [c EXCEPT !.loading = FALSE, !.loaded = TRUE, !.exhausted = @ \/ NothingOlder(ms)]

\* handleHistoryResponse; later pages go in front (prependHistory).
HandleHistoryResponse ==
  /\ Receive("history_response")
  /\ LET ms == Head(inbox).messages
         c == Loaded(contact, ms)
     IN  \/ /\ ~contact.known  \* not a known contact: ignored
            /\ UNCHANGED <<contact, msgs, outbox, lost>>
         \/ /\ contact.known /\ ms = <<>>
            /\ contact' = c
            /\ UNCHANGED <<msgs, outbox, lost>>
         \/ /\ contact.known /\ ms # <<>>
            /\ \E shown \in IF contact.loaded THEN {Entries(ms) \o msgs}
                           ELSE MergeInitialHistory(msgs, Entries(ms)) : ShowTo(c, shown)
  /\ UNCHANGED <<server, link, sends, losses>>

\* handleMessageAck
HandleMessageAck ==
  /\ Receive("message_ack")
  /\ msgs' = [i \in DOMAIN msgs |-> IF msgs[i].mine /\ msgs[i].cm = Head(inbox).cm
                                    THEN [msgs[i] EXCEPT !.id = Head(inbox).id] ELSE msgs[i]]
  /\ UNCHANGED <<server, outbox, link, contact, sends, losses, lost>>

\* Mutant of MarkTick: only the newest entry gets the tick.
MarkLastTick(ms, id) ==
  [i \in DOMAIN ms |-> IF ms[i].mine /\ ms[i].id = id /\ i = Len(ms)
                       THEN [ms[i] EXCEPT !.tick = TRUE] ELSE ms[i]]

\* markTick: the first entry of that id.
MarkTick(ms, id) ==
  [i \in DOMAIN ms |-> IF ms[i].mine /\ ms[i].id = id /\ \A j \in 1..(i - 1) : ms[j].id # id
                       THEN [ms[i] EXCEPT !.tick = TRUE] ELSE ms[i]]

HandleAckRead ==
  /\ Receive("ack_read")
  /\ msgs' = MarkTick(msgs, Head(inbox).id)
  /\ UNCHANGED <<server, outbox, link, contact, sends, losses, lost>>

\* handleDisconnected: frames already read have been handled before.
HandleDisconnected ==
  /\ link = "dead" /\ inbox = <<>>
  /\ link' = "down"
  /\ outbox' = <<>>
  /\ lost' = lost \cup {outbox[i] : i \in DOMAIN outbox}
  /\ UNCHANGED <<server, inbox, contact, msgs, sends, losses>>

-----------------------------------------------------------------------------
(* The server.                                                             *)

\* The hub puts a frame into the client's outbox (it disconnects a client
\* whose outbox is full); the frame gets lost when the connection has died.
Routed(f) ==
  IF link = "up" THEN inbox' = Append(inbox, f) /\ lost' = lost
                 ELSE inbox' = inbox /\ lost' = lost \cup {f}

\* trySend, of a handler or of serveWS: it drops the frame when the outbox is
\* full, which the frames of other conversations may make it at any time.
ToClient(f) ==
  \/ Routed(f) /\ losses' = losses
  \/ /\ link = "up" /\ losses > 0 /\ losses' = losses - 1
     /\ inbox' = inbox /\ lost' = lost \cup {f}

\* Mutant of Connected: nothing is sent again.
ConnectedQuietly == msgs' = msgs /\ outbox' = <<>> /\ lost' = lost

\* handleConnected: a new outbox, resendPendingReadAcks.
Connected ==
  /\ msgs' = Marked(msgs, Pending(msgs), OutCap)
  /\ outbox' = Acks(msgs, Pending(msgs), OutCap)
  /\ lost' = lost \cup {AckRead(msgs[i].id) : i \in Pending(msgs) \ Accepted(Pending(msgs), OutCap)}

\* A reconnect succeeds: serveWS registers the connection.  (A handler of the
\* old one that still runs replies to the old outbox; when makes no difference.)
Connect ==
  /\ link = "down" /\ page = NoPage /\ acking = 0
  /\ link' = "up"
  /\ registered' = TRUE
  /\ greeting' = [pc |-> "list", of |-> <<>>]
  /\ Connected
  /\ UNCHANGED <<rows, relaying, page, acking, inbox, contact, sends, losses>>

\* (Here and below, a closed outbox ends the process: see PumpsJustUnwind.)
PushContactList ==
  /\ registered /\ greeting.pc = "list"
  /\ ToClient(List)
  /\ greeting' = [greeting EXCEPT !.pc = "flush"]
  /\ UNCHANGED <<rows, registered, relaying, page, acking, outbox, link, contact, msgs, sends>>

Undelivered == {i \in DOMAIN rows : ~rows[i].mine /\ ~rows[i].delivered}

\* flushOfflineMessages reads the queue ...
LoadUndelivered ==
  /\ greeting.pc = "flush"
  /\ greeting' = [pc |-> "replay", of |-> Ascending(Undelivered)]
  /\ UNCHANGED <<rows, registered, relaying, page, acking, inbox, outbox, link, contact, msgs,
                 sends, losses, lost>>

\* ... and replays it one by one; what trySend drops is marked all the same.
ReplayOne ==
  /\ registered /\ greeting.pc = "replay" /\ greeting.of # <<>>
  /\ ToClient(Message(Head(greeting.of)))
  /\ rows' = [rows EXCEPT ![Head(greeting.of)].delivered = TRUE]
  /\ greeting' = [greeting EXCEPT !.of = Tail(@)]
  /\ UNCHANGED <<registered, relaying, page, acking, outbox, link, contact, msgs, sends>>

ServeReturns ==
  /\ greeting.pc = "replay" /\ greeting.of = <<>>
  /\ greeting' = [greeting EXCEPT !.pc = "none"]
  /\ UNCHANGED <<rows, registered, relaying, page, acking, inbox, outbox, link, contact, msgs,
                 sends, losses, lost>>

\* The peer's message: handleMessage stores it ...
PeerSends ==
  /\ relaying = 0
  /\ sends > 0 /\ sends' = sends - 1
  /\ rows' = Append(rows, [mine |-> FALSE, cm |-> 0, delivered |-> FALSE, read |-> FALSE])
  /\ relaying' = Len(rows) + 1
  /\ UNCHANGED <<registered, greeting, page, acking, inbox, outbox, link, contact, msgs, losses, lost>>

\* ... and routes it, marking it delivered if the hub took it.
Relay ==
  /\ relaying # 0
  /\ relaying' = 0
  /\ IF registered
     THEN Routed(Message(relaying)) /\ rows' = [rows EXCEPT ![relaying].delivered = TRUE]
     ELSE UNCHANGED <<inbox, lost, rows>>
  /\ UNCHANGED <<registered, greeting, page, acking, outbox, link, contact, msgs, sends, losses>>

\* The peer reads one of the client's messages; the ack_read comes too early
\* when a page without it has been read from the table and not been sent, and
\* when the message has been stored and not been acknowledged (the catch-up of
\* the peer may have offered it by then).
PeerReads(id) ==
  /\ rows[id].mine /\ ~rows[id].read
  /\ rows' = [rows EXCEPT ![id].read = TRUE, ![id].delivered = TRUE]
  /\ LET early == \/ acking = id
                  \/ page # NoPage /\ \E i \in DOMAIN page.messages : page.messages[i].id = id
     IN  /\ inbox' = IF registered /\ link = "up" THEN Append(inbox, AckRead(id)) ELSE inbox
         /\ lost' = IF registered /\ link = "up" /\ ~early THEN lost ELSE lost \cup {AckRead(id)}
  /\ UNCHANGED <<registered, relaying, greeting, page, acking, outbox, link, contact, msgs, sends, losses>>

\* readPump takes the client's next frame when the last one has been handled.
Read(type) ==
  /\ link = "up" /\ page = NoPage /\ acking = 0
  /\ outbox # <<>> /\ Head(outbox).type = type /\ outbox' = Tail(outbox)

\* Mutant of HistoryPage: the cursor's own row is part of the page.
HistoryPageInclusive(before) ==
  LET all == {i \in DOMAIN rows : before = Latest \/ 2 * i <= before}
      some == {i \in all : Cardinality({j \in all : j > i}) < PageSize}
  IN  Reverse([k \in 1..Cardinality(some) |->
                 LET i == Ascending(some)[k] IN [id |-> i, read |-> rows[i].read]])

\* HistoryPage: the newest PageSize rows before the cursor, newest first.
HistoryPage(before) ==
  LET all == {i \in DOMAIN rows : before = Latest \/ 2 * i < before}
      some == {i \in all : Cardinality({j \in all : j > i}) < PageSize}
  IN  Reverse([k \in 1..Cardinality(some) |->
                 LET i == Ascending(some)[k] IN [id |-> i, read |-> rows[i].read]])

\* handleHistoryRequest reads the page ...
HandleHistoryRequest ==
  /\ Read("history_request")
  /\ page' = HistoryResponse(HistoryPage(Head(outbox).before))
  /\ UNCHANGED <<rows, registered, relaying, greeting, acking, inbox, link, contact, msgs, sends,
                 losses, lost>>

\* ... and sends it.
SendPage ==
  /\ page # NoPage
  /\ ToClient(page)
  /\ page' = NoPage
  /\ UNCHANGED <<rows, registered, relaying, greeting, acking, outbox, link, contact, msgs, sends>>

\* handleAckRead
ServerMarksRead ==
  /\ Read("ack_read")
  /\ rows' = [rows EXCEPT ![Head(outbox).id].read = TRUE, ![Head(outbox).id].delivered = TRUE]
  /\ UNCHANGED <<registered, relaying, greeting, page, acking, inbox, link, contact, msgs, sends,
                 losses, lost>>

\* handleMessage for the client's own message: it is stored ...
StoreMessage ==
  /\ Read("message")
  /\ rows' = Append(rows, [mine |-> TRUE, cm |-> Head(outbox).cm, delivered |-> FALSE,
                           read |-> FALSE])
  /\ acking' = Len(rows) + 1
  /\ UNCHANGED <<registered, relaying, greeting, page, inbox, link, contact, msgs, sends,
                 losses, lost>>

\* ... and acknowledged.
SendAck ==
  /\ acking # 0
  /\ ToClient(MessageAck(rows[acking].cm, acking))
  /\ acking' = 0
  /\ UNCHANGED <<rows, registered, relaying, greeting, page, outbox, link, contact, msgs, sends>>

\* The first statement of a handler fails, and nothing is changed or sent.
HandlerFails ==
  /\ losses > 0 /\ losses' = losses - 1
  /\ \E type \in {"history_request", "ack_read", "message"} : Read(type)
  /\ lost' = lost \cup {Head(outbox)}
  /\ UNCHANGED <<server, inbox, link, contact, msgs, sends>>

\* The connection dies: what the client has read stays, the rest is lost.
LoseConnection ==
  /\ link = "up"
  /\ losses > 0 /\ losses' = losses - 1
  /\ link' = "dead"
  /\ \E n \in 0..Len(inbox) :
       /\ inbox' = SubSeq(inbox, 1, n)
       /\ lost' = lost \cup {inbox[i] : i \in (n + 1)..Len(inbox)}
                       \cup {outbox[i] : i \in DOMAIN outbox}
  /\ outbox' = <<>>
  /\ UNCHANGED <<server, contact, msgs, sends>>

\* readPump notices, after its last handler, and unregisters.
ServerNotices ==
  /\ registered /\ link # "up" /\ page = NoPage /\ acking = 0
  /\ registered' = FALSE
  /\ UNCHANGED <<rows, relaying, greeting, page, acking, inbox, outbox, link, contact, msgs, sends,
                 losses, lost>>

-----------------------------------------------------------------------------
ClientStep ==
  \/ HandleContactList \/ HandleMessage \/ HandleHistoryResponse
  \/ HandleMessageAck \/ HandleAckRead \/ HandleDisconnected

ServerStep ==
  \/ PushContactList \/ LoadUndelivered \/ ReplayOne \/ ServeReturns
  \/ Relay \/ HandleHistoryRequest \/ SendPage \/ ServerMarksRead \/ StoreMessage \/ SendAck

Next ==
  \/ Open \/ Leave \/ LoadMore \/ Type
  \/ ClientStep
  \/ Connect
  \/ ServerStep
  \/ PeerSends \/ \E id \in DOMAIN rows : PeerReads(id)
  \/ HandlerFails \/ LoseConnection \/ ServerNotices

ChatSpec == Init /\ [][Next]_vars

-----------------------------------------------------------------------------
(* Properties.                                                             *)

Shown(id) == \E i \in DOMAIN msgs : msgs[i].id = id
InPage(p, id) == \E i \in DOMAIN p.messages : p.messages[i].id = id
Coming(id) ==
  \/ \E i \in DOMAIN inbox : \/ inbox[i] \in {Message(id), MessageAck(rows[id].cm, id)}
                             \/ inbox[i].type = "history_response" /\ InPage(inbox[i], id)
  \/ page # NoPage /\ InPage(page, id)
  \/ id = relaying \/ id = acking \/ id \in Undelivered
\* The live copy, the replayed one or the message_ack was lost with its
\* connection, or the server's outbox had no room for it.
Missed(id) == lost \cap {Message(id), MessageAck(rows[id].cm, id)} # {}

\* No message is shown twice, whichever of the page, the replay and the live
\* relay brings it first (update.go:496-497, 603-607).  A message that was
\* appended behind a newer one may come back with an older page.
ShownOnce ==
  \A j \in DOMAIN msgs : \A i \in 1..(j - 1) :
    msgs[i].id = msgs[j].id /\ msgs[j].id # 0
      => \E k \in 1..(j - 1) : msgs[k].id > msgs[j].id

\* Pages, replay and live messages leave no hole: once the conversation is
\* loaded every message not older than the first one shown (any message,
\* once the history is exhausted) is shown, on its way, or was lost with a
\* connection or dropped by trySend, which for a replayed message is no more
\* offered (update.go:450-483, events.go:282-303, messages.go:238-240).
NothingMissing ==
  contact.loaded =>
    \A id \in DOMAIN rows :
      contact.exhausted \/ (msgs # <<>> /\ msgs[1].id # 0 /\ msgs[1].id <= id)
        => Shown(id) \/ Coming(id) \/ Missed(id)

\* A read receipt the server has given reaches the tick of the entry, unless
\* it was lost or overtook the page that brought the entry or the message_ack
\* that gave it its id; the latter is what update.go:635-637 takes to be
\* impossible (update.go:634-648).
TickIsRight ==
  \A i \in DOMAIN msgs :
    LET id == msgs[i].id
    IN  msgs[i].mine /\ id # 0 /\ rows[id].read /\ (\A j \in 1..(i - 1) : msgs[j].id # id)
          => msgs[i].tick \/ AckRead(id) \in lost \/ \E k \in DOMAIN inbox : inbox[k] = AckRead(id)

\* While the client waits for a page it is on its way or was lost; nothing
\* else keeps it from asking again (update.go:450-483).
HistoryIsComing ==
  contact.loading =>
    \/ \E i \in DOMAIN outbox : outbox[i].type = "history_request"
    \/ page # NoPage
    \/ \E i \in DOMAIN inbox : inbox[i].type = "history_response"
    \/ \E f \in lost : f.type \in {"history_request", "history_response"}

\* "a message read during an outage isn't silently lost" (update.go:427-431):
\* for what has been on the screen and is not read on the server, an ack_read
\* is on its way, or will be sent over the next connection; only what was in
\* an outbox when its connection was lost, or found it full, is left out.
AckIsComing ==
  \A i \in DOMAIN msgs :
    LET ack == AckRead(msgs[i].id)
    IN  ~msgs[i].mine /\ msgs[i].seen /\ ~rows[msgs[i].id].read
          => \/ ack \in lost
             \/ \E k \in DOMAIN outbox : outbox[k] = ack
             \/ link = "down" /\ ~msgs[i].sent

\* "Strictly older than everything loaded -- no overlap possible"
\* (events.go:352).
NoOverlap == \A i, j \in DOMAIN msgs : msgs[i].id = msgs[j].id /\ msgs[i].id # 0 => i = j
=============================================================================
