------------------------ MODULE ClientChatInvariants ------------------------
(***************************************************************************)
(* What a conversation keeps, for any page size, outbox, zone, preloaded   *)
(* history and bounds: inductive invariants that build on each other,      *)
(*                                                                         *)
(*   ShapeInv     what the two sides and the boxes hold; every id that is  *)
(*                mentioned anywhere is the id of a row;                   *)
(*   WaitInv      what historyLoading waits for has not vanished;          *)
(*   PagesHonest  a page says `read` only of rows that are read, so that   *)
(*   AckInv       what it shows as seen needs no ack_read, and every other *)
(*                entry that was seen has one underway;                    *)
(*   Numbers      the client's numbers and the server's ids name the same  *)
(*                messages, also between the INSERT of one and its         *)
(*                message_ack (acking);                                    *)
(*   TickInv      a receipt is behind every page and every message_ack in  *)
(*                the inbox that does not yet know of it, unless it was    *)
(*                lost, and                                                *)
(*   StoredNews   one told before the message_ack is queued is lost;       *)
(*   AckFresh     an acknowledged id is neither shown nor in a page before *)
(*                its acknowledgement, and                                 *)
(*   Unheard      nor is the id of a row whose acknowledgement is to come; *)
(*   AtBooks      no entry is newer than its row;                          *)
(*   Single       one page is under way at a time, and                     *)
(*   Cursor       it lies below what is shown (Zone = 0), so that          *)
(*   FloorInv     what is older than the oldest entry stands behind        *)
(*                something newer, and nothing else is shown twice;        *)
(*   HoleInv      (Zone >= 0, a queue newer than what was settled) every   *)
(*                row is settled, shown, on its way or missed, and above   *)
(*                an entry, a cursor or a page every settled row is shown; *)
(*   Counted      no message is counted twice, on its way or in the badge. *)
(*                                                                         *)
(* Between them stand the relations of a step that their proofs speak of:  *)
(* what it adds to the boxes, and what becomes of the frames it takes.     *)
(***************************************************************************)
EXTENDS ClientChat

Below(D, i) == {j \in D : j < i}

-----------------------------------------------------------------------------
(* The loop of markConversationRead and resendPendingReadAcks.             *)

EntryT == [id : Nat, cm : Nat, at : Nat, mine : BOOLEAN,
           tick : BOOLEAN, seen : BOOLEAN, sent : BOOLEAN]

\* Marking changes what was seen and sent, and nothing else.
SameFaces(ms, ns) ==
  /\ Len(ns) = Len(ms)
  /\ \A i \in 1..Len(ms) : /\ ns[i].id = ms[i].id /\ ns[i].cm = ms[i].cm
                           /\ ns[i].at = ms[i].at /\ ns[i].mine = ms[i].mine
                           /\ ns[i].tick = ms[i].tick

-----------------------------------------------------------------------------
(* The shape of the state.                                                 *)

Id == Nat \ {0}
Item == [id : Id, read : BOOLEAN]
RowT == [mine : BOOLEAN, cm : Nat, delivered : BOOLEAN, read : BOOLEAN]
Pages == {HistoryResponse(ms) : ms \in Seq(Item)}
ServerFrame ==
  {List} \cup {Message(id) : id \in Id} \cup {MessageAck(cm, id) : cm \in Nat, id \in Id}
    \cup {AckRead(id) : id \in Id} \cup Pages
ClientFrame ==
  {AckRead(id) : id \in Id} \cup {Send(cm) : cm \in Nat} \cup {HistoryRequest(b) : b \in Int}

ServerShape ==
  /\ rows \in Seq(RowT)
  /\ registered \in BOOLEAN
  /\ relaying \in Nat /\ acking \in Nat
  /\ greeting \in [pc : {"none", "list", "flush", "replay"}, of : Seq(Id)]
  /\ page \in {NoPage} \cup Pages
  /\ sends \in 0..MaxSends /\ losses \in 0..MaxLosses

WireShape ==
  /\ inbox \in Seq(ServerFrame)
  /\ outbox \in Seq(ClientFrame)
  /\ Len(outbox) <= OutCap
  /\ link \in {"up", "dead", "down"}
  /\ link = "down" => outbox = <<>> /\ inbox = <<>>

ClientShape ==
  /\ contact \in [known : BOOLEAN, active : BOOLEAN, unread : Nat,
                  loaded : BOOLEAN, loading : BOOLEAN, exhausted : BOOLEAN]
  /\ contact.active => contact.known /\ contact.unread = 0
  /\ contact.loading => contact.known
  /\ ~contact.known => contact.unread = 0
  /\ msgs \in Seq(EntryT)
  /\ \A i \in 1..Len(msgs) : ~msgs[i].mine => msgs[i].id \in Id
  /\ \A i \in 1..Len(msgs) : msgs[i].sent => msgs[i].seen \/ msgs[i].mine

ChatShape == ServerShape /\ WireShape /\ ClientShape

-----------------------------------------------------------------------------
(* What the server reads from the table.                                   *)

Older(before, i) == before = Latest \/ 2 * i < before

-----------------------------------------------------------------------------
(* Rows only gain flags.                                                   *)

\* ns is a table of n rows or more that has grown from rows.
Grown(ns) ==
  /\ ns \in Seq(RowT)
  /\ Len(ns) >= Len(rows)
  /\ \A j \in 1..Len(rows) : /\ ns[j].mine = rows[j].mine /\ ns[j].cm = rows[j].cm
                             /\ rows[j].read => ns[j].read
                             /\ rows[j].delivered => ns[j].delivered

\* The row i has been marked delivered, or read as well, and nothing else changed.
RowMarked(ns, i) ==
  /\ Grown(ns) /\ Len(ns) = Len(rows)
  /\ ns[i].delivered = TRUE
  /\ \A j \in 1..Len(rows) : j # i => ns[j] = rows[j]

\* The rows a frame for the client names are in the table.
Within(f, n) ==
  /\ f.type \in {"message", "message_ack", "ack_read"} => f.id <= n
  /\ f.type = "history_response" => \A i \in 1..Len(f.messages) : f.messages[i].id <= n

Known ==
  /\ relaying <= Len(rows) /\ acking <= Len(rows)
  /\ \A k \in 1..Len(greeting.of) : greeting.of[k] <= Len(rows)
  /\ page # NoPage => Within(page, Len(rows))
  /\ \A k \in 1..Len(inbox) : Within(inbox[k], Len(rows))
  /\ \A k \in 1..Len(outbox) : outbox[k].type = "ack_read" => outbox[k].id <= Len(rows)
  /\ \A i \in 1..Len(msgs) : msgs[i].id <= Len(rows)

ShapeInv == ChatShape /\ Known

-----------------------------------------------------------------------------
(* The client's steps.                                                     *)

ContactT == [known : BOOLEAN, active : BOOLEAN, unread : Nat,
             loaded : BOOLEAN, loading : BOOLEAN, exhausted : BOOLEAN]

ContactOK(c) ==
  /\ c \in ContactT
  /\ c.active => c.known /\ c.unread = 0
  /\ c.loading => c.known
  /\ ~c.known => c.unread = 0

BoxOK(box, n) ==
  /\ box \in Seq(ClientFrame)
  /\ Len(box) <= OutCap
  /\ link = "down" => box = <<>>
  /\ \A k \in 1..Len(box) : box[k].type = "ack_read" => box[k].id <= n

MsgsOK(ms, n) ==
  /\ ms \in Seq(EntryT)
  /\ \A i \in 1..Len(ms) : /\ ~ms[i].mine => ms[i].id \in Id
                           /\ ms[i].sent => ms[i].seen \/ ms[i].mine
                           /\ ms[i].id <= n

\* handleMessageAck's loop.
AckedIn(ms, f) ==
  [i \in DOMAIN ms |-> IF ms[i].mine /\ ms[i].cm = f.cm THEN [ms[i] EXCEPT !.id = f.id] ELSE ms[i]]

\* What was in the outbox keeps its place.
Queued == \A k \in 1..Len(outbox) : k \in 1..Len(outbox') /\ outbox'[k] = outbox[k]

\* The entry sendChatMessage shows.
Typed == [id |-> 0, cm |-> sends, at |-> 2 * Len(rows) + 1, mine |-> TRUE,
          tick |-> FALSE, seen |-> FALSE, sent |-> FALSE]

\* The entry of a live message.
Arrived(id) == [id |-> id, cm |-> 0, at |-> 2 * id, mine |-> FALSE,
                tick |-> FALSE, seen |-> FALSE, sent |-> FALSE]

\* What the page at the head of the inbox may be turned into.
Results(ms) == IF contact.loaded THEN {Entries(ms) \o msgs}
               ELSE MergeInitialHistory(msgs, Entries(ms))

-----------------------------------------------------------------------------
(* What one step does to the table, the boxes and the entries.             *)

\* Where a frame of the outbox comes from ...
Sent(f) ==
  \/ \E l \in 1..Len(outbox) : outbox[l] = f
  \/ f.type = "ack_read" /\ \E i \in 1..Len(msgs') : msgs'[i].id = f.id
  \/ Type /\ f = Send(sends)
  \/ f = HistoryRequest(Latest)
  \/ LoadMore /\ f = HistoryRequest(msgs[1].at + Zone)

\* ... and one of the inbox, and what becomes of it.
Came(f) ==
  \/ \E l \in 1..Len(inbox) : inbox[l] = f
  \/ f.type \in {"contact_list", "ack_read"}
  \/ page # NoPage /\ f = page
  \/ f.type = "message" /\ (f.id = relaying \/ \E k \in 1..Len(greeting.of) : f.id = greeting.of[k])
  \/ SendAck /\ f = MessageAck(rows[acking].cm, acking)
Goes(f) ==
  \/ f \in lost' \/ \E l \in 1..Len(inbox') : inbox'[l] = f
  \/ f = inbox[1] /\ 1 \in 1..Len(inbox) /\ (f.type = "message" => HandleMessage)
                  /\ (f.type = "message_ack" => HandleMessageAck)
                  /\ (f.type = "history_response" => HandleHistoryResponse)

\* What becomes of a frame of the outbox.
Spent(f) ==
  \/ f \in lost' \/ \E l \in 1..Len(outbox') : outbox'[l] = f
  \/ /\ f = outbox[1] /\ 1 \in 1..Len(outbox)
     /\ HandleHistoryRequest \/ (f.type # "history_request" /\ (ServerMarksRead \/ StoreMessage))

-----------------------------------------------------------------------------
(* A page that is waited for.                                              *)

Waiting ==
  \/ \E k \in 1..Len(outbox) : outbox[k].type = "history_request"
  \/ page # NoPage
  \/ \E k \in 1..Len(inbox) : inbox[k].type = "history_response"
  \/ \E f \in lost : f.type \in {"history_request", "history_response"}

WaitInv == contact.loading => Waiting

-----------------------------------------------------------------------------
(* The read acknowledgements.                                              *)

\* What a page says was read is read.
Honest(f) == \A i \in 1..Len(f.messages) : f.messages[i].read => rows[f.messages[i].id].read
PagesHonest ==
  /\ page # NoPage => Honest(page)
  /\ \A k \in 1..Len(inbox) : inbox[k].type = "history_response" => Honest(inbox[k])

Underway(id) == AckRead(id) \in lost \/ \E k \in 1..Len(outbox) : outbox[k] = AckRead(id)
Acked(e) == ~e.mine /\ e.seen /\ ~rows[e.id].read => Underway(e.id) \/ (link = "down" /\ ~e.sent)
AckInv == \A i \in 1..Len(msgs) : Acked(msgs[i])

\* The acknowledgement of every entry of ns is lost, in the box or will be sent.
AckedBy(ns, box, gone) ==
  \A i \in 1..Len(ns) : ~ns[i].mine /\ ns[i].seen /\ ~rows[ns[i].id].read =>
    \/ AckRead(ns[i].id) \in gone
    \/ \E k \in 1..Len(box) : box[k] = AckRead(ns[i].id)
    \/ link = "down" /\ ~ns[i].sent

-----------------------------------------------------------------------------
(* Whose message is whose: the client's numbers and the server's ids.      *)

\* The entries know their rows, and every number was given to one entry.
MsgsBooked(ms) ==
  /\ \A i \in 1..Len(ms) : ms[i].cm # 0 => ms[i].mine /\ ms[i].cm > sends
  /\ \A i, j \in 1..Len(ms) : ms[i].cm = ms[j].cm /\ ms[i].cm # 0 => i = j
  /\ \A i \in 1..Len(ms) : ms[i].id # 0 =>
       /\ ms[i].mine <=> rows[ms[i].id].mine
       /\ ms[i].cm # 0 => rows[ms[i].id].cm = ms[i].cm

\* Before the first page there are typed entries and live ones.
Distinct(ms) ==
  /\ \A i \in 1..Len(ms) : ms[i].mine => ms[i].cm # 0
  /\ \A i, j \in 1..Len(ms) : ms[i].id = ms[j].id /\ ms[i].id # 0 => i = j

\* No entry of that number has an id.
Fresh(ms, cm) == \A i \in 1..Len(ms) : ms[i].cm = cm => ms[i].id = 0

WireBooks ==
  /\ \A k \in 1..Len(outbox) : outbox[k].type = "ack_read" => ~rows[outbox[k].id].mine
  /\ \A k \in 1..Len(outbox) : outbox[k].type = "message" =>
       outbox[k].cm > sends /\ Fresh(msgs, outbox[k].cm)
  /\ \A k, l \in 1..Len(outbox) : outbox[k].type = "message" /\ outbox[l] = outbox[k] => k = l
  /\ \A k \in 1..Len(inbox) : inbox[k].type = "message" => ~rows[inbox[k].id].mine
  /\ \A k \in 1..Len(inbox) : inbox[k].type = "message_ack" =>
       /\ inbox[k].cm > sends /\ Fresh(msgs, inbox[k].cm)
       /\ rows[inbox[k].id].mine /\ rows[inbox[k].id].cm = inbox[k].cm
  /\ \A k, l \in 1..Len(inbox) :
       inbox[k].type = "message_ack" /\ inbox[l].type = "message_ack" /\ inbox[k].cm = inbox[l].cm
         => k = l
  /\ \A k \in 1..Len(outbox), l \in 1..Len(inbox) :
       outbox[k].type = "message" /\ inbox[l].type = "message_ack" => outbox[k].cm # inbox[l].cm

ServerBooks ==
  /\ relaying # 0 => ~rows[relaying].mine
  /\ \A k \in 1..Len(greeting.of) : ~rows[greeting.of[k]].mine

Books ==
  /\ MsgsBooked(msgs)
  /\ ~contact.loaded => Distinct(msgs)
  /\ WireBooks
  /\ ServerBooks

\* A row that has yet to be acknowledged is known by its number only.
AckBooks ==
  acking # 0 =>
    /\ rows[acking].mine /\ rows[acking].cm > sends /\ Fresh(msgs, rows[acking].cm)
    /\ \A k \in 1..Len(outbox) : outbox[k].type = "message" => outbox[k].cm # rows[acking].cm
    /\ \A k \in 1..Len(inbox) : inbox[k].type = "message_ack" => inbox[k].cm # rows[acking].cm

Numbers == Books /\ AckBooks

\* What a step adds to the boxes.
NewOut(f) ==
  f.type # "message" /\ (f.type = "ack_read" => f.id \in 1..Len(rows) /\ ~rows[f.id].mine)
NewIn(f) ==
  f.type # "message_ack" /\ (f.type = "message" => f.id \in 1..Len(rows) /\ ~rows[f.id].mine)

\* What is put behind the frames of a box says nothing new of a number.
Adds(box, nbox) ==
  \A k \in 1..Len(nbox) : (k \in 1..Len(box) /\ nbox[k] = box[k]) \/ NewOut(nbox[k])

\* An entry of a page: it has no number, and it is told whose it is.
PageEntry(e) == e.cm = 0 /\ e.id \in 1..Len(rows) /\ (e.mine <=> rows[e.id].mine)

-----------------------------------------------------------------------------
(* The ticks: where a receipt can be.                                      *)

\* The receipt was lost, or comes behind the frame k.
Told(id, k) ==
  \/ AckRead(id) \in lost
  \/ \E l \in 1..Len(inbox) : l > k /\ inbox[l] = AckRead(id)

News(id, k) == rows[id].mine /\ rows[id].read => Told(id, k)

\* An entry that may be waiting for its tick.
Owed(ms, i) ==
  ms[i].mine /\ ms[i].id # 0 /\ ~ms[i].tick /\ \A j \in 1..(i - 1) : ms[j].id # ms[i].id

MsgsNews == \A i \in 1..Len(msgs) : Owed(msgs, i) => News(msgs[i].id, 0)

\* The page that has been read from the table: what it does not say has been told too early.
PageNews ==
  page # NoPage => \A i \in 1..Len(page.messages) :
    ~page.messages[i].read /\ rows[page.messages[i].id].mine /\ rows[page.messages[i].id].read
      => AckRead(page.messages[i].id) \in lost

\* Pages and acknowledgements on their way: the receipt comes behind them.
FrameNews(f, k) ==
  /\ f.type = "history_response" =>
       \A i \in 1..Len(f.messages) : ~f.messages[i].read => News(f.messages[i].id, k)
  /\ f.type = "message_ack" => News(f.id, k)

WireNews == \A k \in 1..Len(inbox) : FrameNews(inbox[k], k)

TickInv == MsgsNews /\ PageNews /\ WireNews

\* The row that has yet to be acknowledged: its receipt has been told too early.
StoredNews == acking # 0 /\ rows[acking].mine /\ rows[acking].read => AckRead(acking) \in lost

\* What a step does with the receipts: e frames are taken from the front, and
\* the peer's reading of a message is told or lost.
AcksKept(e) ==
  \A l \in 1..Len(inbox) : inbox[l].type = "ack_read" /\ l # e =>
    inbox[l] \in lost' \/ (l - e \in 1..Len(inbox') /\ inbox'[l - e] = inbox[l])

ReadsTold ==
  \A id \in 1..Len(rows) : rows[id].mine /\ rows'[id].read /\ ~rows[id].read =>
    \/ AckRead(id) \in lost'
    \/ Len(inbox') = Len(inbox) + 1 /\ inbox'[Len(inbox) + 1] = AckRead(id)

\* A frame that is new says all that has been told, or it was told too early.
NewFrame(f) ==
  /\ f.type = "history_response" => \A i \in 1..Len(f.messages) :
       ~f.messages[i].read /\ rows[f.messages[i].id].mine /\ rows[f.messages[i].id].read
         => AckRead(f.messages[i].id) \in lost
  /\ f.type = "message_ack" /\ rows[f.id].mine /\ rows[f.id].read => AckRead(f.id) \in lost

\* No message of the client is read by the peer in this step.
QuietReads == \A id \in 1..Len(rows) : rows[id].mine /\ rows'[id].read => rows[id].read

\* Whatever entry is owed a tick, the receipt of its message is known of.
Covered(ms) ==
  \A i \in 1..Len(ms) : Owed(ms, i) =>
    ms[i].id \in 1..Len(rows) /\ \E k \in 0..Len(inbox) : News(ms[i].id, k)

-----------------------------------------------------------------------------
(* The order of the entries: no message is shown twice.                    *)

\* What a step other than a page does to the entries: they keep their times,
\* numbers and ids, there may be one more, and an id that is new is nowhere else.
MsgsGrow(ns) ==
  /\ Len(ns) = Len(msgs) \/ Len(ns) = Len(msgs) + 1
  /\ \A i \in 1..Len(msgs) : /\ ns[i].at = msgs[i].at /\ ns[i].cm = msgs[i].cm
                             /\ msgs[i].id # 0 => ns[i].id = msgs[i].id
                             /\ msgs[i].id # ns[i].id => msgs[i].cm # 0
  /\ \A i \in 1..Len(ns) : \/ i \in 1..Len(msgs) /\ ns[i].id = msgs[i].id
                           \/ \A j \in 1..Len(ns) : ns[j].id = ns[i].id /\ ns[j].id # 0 => j = i
  /\ Len(ns) = Len(msgs) + 1 /\ ns[Len(ns)].cm # 0 => ns[Len(ns)].at = 2 * Len(rows) + 1

\* The id of an acknowledgement is not shown yet, nor by a page before it.
AckFresh ==
  \A k \in 1..Len(inbox) : inbox[k].type = "message_ack" =>
    /\ \A i \in 1..Len(msgs) : msgs[i].id # inbox[k].id
    /\ \A l \in 1..(k - 1) : inbox[l].type = "history_response" =>
         \A i \in 1..Len(inbox[l].messages) : inbox[l].messages[i].id # inbox[k].id

\* ... nor is the id of a row that has yet to be acknowledged.
Unheard ==
  acking # 0 =>
    /\ page = NoPage
    /\ \A i \in 1..Len(msgs) : msgs[i].id # acking
    /\ \A l \in 1..Len(inbox) : inbox[l].type = "history_response" =>
         \A i \in 1..Len(inbox[l].messages) : inbox[l].messages[i].id # acking

\* The times: an entry is not newer than its row, and a typed one is older.
EntryAt(e) ==
  /\ 1 <= e.at /\ e.at <= 2 * Len(rows) + 1
  /\ e.id # 0 => e.at <= 2 * e.id
  /\ e.cm # 0 => \A i \in 1..Len(rows) : rows[i].cm = e.cm => e.at < 2 * i

RowsCm == \A i \in 1..Len(rows) : rows[i].cm # 0 => rows[i].cm > sends

AtBooks == (\A i \in 1..Len(msgs) : EntryAt(msgs[i])) /\ RowsCm

-----------------------------------------------------------------------------
(* One page at a time, and where it ends.                                  *)

Asks(f) == f.type = "history_request"
Answers(f) == f.type = "history_response"

Outstanding ==
  \/ \E k \in 1..Len(outbox) : Asks(outbox[k])
  \/ page # NoPage
  \/ \E k \in 1..Len(inbox) : Answers(inbox[k])

\* historyLoading lets one request through: it is in the outbox, or its page is
\* at the server, or in the inbox.
Single ==
  /\ Outstanding => contact.loading
  /\ \A k \in 1..Len(outbox) : Asks(outbox[k]) =>
       /\ page = NoPage
       /\ \A l \in 1..Len(outbox) : Asks(outbox[l]) => k = l
       /\ \A l \in 1..Len(inbox) : ~Answers(inbox[l])
  /\ page # NoPage => \A l \in 1..Len(inbox) : ~Answers(inbox[l])
  /\ \A k, l \in 1..Len(inbox) : Answers(inbox[k]) /\ Answers(inbox[l]) => k = l

Falling(p) == \A j \in 1..Len(p) : \A i \in 1..(j - 1) : p[i].id > p[j].id
Under(p, at) == \A i \in 1..Len(p) : 2 * p[i].id < at

\* A later page is older than everything that is shown, newest message first.
Cursor ==
  /\ contact.loaded /\ Outstanding => ~contact.exhausted
  /\ contact.loaded => \A k \in 1..Len(outbox) : Asks(outbox[k]) =>
       outbox[k].before # Latest /\ outbox[k].before <= msgs[1].at
  /\ contact.loaded /\ page # NoPage => Under(page.messages, msgs[1].at)
  /\ contact.loaded => \A k \in 1..Len(inbox) : Answers(inbox[k]) =>
       Under(inbox[k].messages, msgs[1].at)
  /\ page # NoPage => Falling(page.messages)
  /\ \A k \in 1..Len(inbox) : Answers(inbox[k]) => Falling(inbox[k].messages)

\* The oldest entry bounds the others: some message at or above it is shown, no
\* typed entry is older, and what is older stands behind something newer.
Floor(ms) ==
  /\ \E k \in 1..Len(ms) : ms[k].id # 0 /\ ms[1].at <= 2 * ms[k].id
  /\ \A j \in 1..Len(ms) : ms[j].cm # 0 => ms[1].at <= ms[j].at
  /\ \A j \in 1..Len(ms) : ms[j].id # 0 /\ 2 * ms[j].id < ms[1].at =>
       \E k \in 1..(j - 1) : ms[k].id > ms[j].id

FloorInv == contact.loaded /\ ~contact.exhausted => Floor(msgs)

FlagsKept ==
  /\ contact'.loading = contact.loading /\ contact'.loaded = contact.loaded
  /\ contact'.exhausted = contact.exhausted

Once(ms) ==
  \A j \in 1..Len(ms) : \A i \in 1..(j - 1) :
    ms[i].id = ms[j].id /\ ms[j].id # 0 => \E k \in 1..(j - 1) : ms[k].id > ms[j].id

\* Where an entry comes from: it was shown before and may now have its id, it was
\* typed, or it was brought by a live message or a page.
Kept(e, o) == e.cm = o.cm /\ e.at = o.at /\ (e.id = o.id \/ (o.id = 0 /\ e.cm # 0))
Brought(e) ==
  /\ e.cm = 0 /\ e.at = 2 * e.id /\ 1 \in 1..Len(inbox)
  /\ \/ inbox[1].type = "message" /\ e.id = inbox[1].id
     \/ /\ inbox[1].type = "history_response" /\ HandleHistoryResponse
        /\ \E k \in 1..Len(inbox[1].messages) : inbox[1].messages[k].id = e.id
Origin(e) ==
  \/ \E i \in 1..Len(msgs) : Kept(e, msgs[i])
  \/ Type /\ e.id = 0 /\ e.cm = sends /\ e.at = 2 * Len(rows) + 1
  \/ Brought(e)

-----------------------------------------------------------------------------
(* No hole: what the queue and the pages bring.                            *)

\* The rows of the start that no replay will bring: only a page can.
Settled(d) == d \in 1..Len(Preload) /\ (Preload[d].mine \/ Preload[d].delivered)

\* The rows that wait for the client are newer than the others.
QueueIsNewest == \A i, j \in 1..Len(Preload) : i < j /\ Settled(j) => Settled(i)

\* The rows of the start are still there, and what was settled is not replayed.
Started ==
  /\ Len(rows) >= Len(Preload)
  /\ \A d \in 1..Len(Preload) : rows[d].cm = 0 /\ (Settled(d) => rows[d].mine \/ rows[d].delivered)
Replayed ==
  /\ ~Settled(relaying)
  /\ \A k \in 1..Len(greeting.of) : ~Settled(greeting.of[k])
  /\ \A k \in 1..Len(inbox) : inbox[k].type = "message" => ~Settled(inbox[k].id)

\* What the client acknowledges it shows, and what it sent has an entry.
HasEntry(cm) == \E i \in 1..Len(msgs) : msgs[i].cm = cm
NamedOut(f) == (f.type = "ack_read" => Shown(f.id)) /\ (f.type = "message" => HasEntry(f.cm))
NamedIn(f) == f.type = "message_ack" => HasEntry(f.cm)
Named == /\ \A k \in 1..Len(outbox) : NamedOut(outbox[k])
         /\ \A k \in 1..Len(inbox) : NamedIn(inbox[k])
         /\ acking # 0 => HasEntry(rows[acking].cm)

\* Any other row is in the queue, on its way, or shown, unless it was lost.
OnWay(id) ==
  \/ Missed(id) \/ id \in Undelivered \/ id = acking
  \/ \E k \in 1..Len(inbox) : inbox[k] \in {Message(id), MessageAck(rows[id].cm, id)}
Accounted == \A id \in 1..Len(rows) : Settled(id) \/ Shown(id) \/ OnWay(id)

\* With an entry every settled row above it is shown, so a request from there
\* on, and a page, skip none.
Times == \A i \in 1..Len(msgs) : \/ msgs[i].at > 2 * Len(Preload)
                                 \/ msgs[i].id # 0 /\ msgs[i].at = 2 * msgs[i].id
ShownFrom(at) == \A d : Settled(d) /\ at <= 2 * d => Shown(d)
Brings(p) ==
  \A d : Settled(d) /\ (Len(p) < PageSize \/ \E i \in 1..Len(p) : p[i].id <= d)
    => Shown(d) \/ \E i \in 1..Len(p) : p[i].id = d
AskedAbove(f) == f.type = "history_request" /\ f.before # Latest => ShownFrom(f.before)
Upward ==
  /\ \A i \in 1..Len(msgs) : msgs[i].id # 0 => ShownFrom(2 * msgs[i].id)
  /\ \A k \in 1..Len(outbox) : AskedAbove(outbox[k])
  /\ page # NoPage => Brings(page.messages)
  /\ \A k \in 1..Len(inbox) : inbox[k].type = "history_response" => Brings(inbox[k].messages)
  /\ contact.exhausted => ShownFrom(0)

HoleInv == Started /\ Replayed /\ Named /\ Accounted /\ Times /\ Upward

-----------------------------------------------------------------------------
(* The bounds.                                                             *)

\* Every message is still to be sent, in the outbox, or a row; the badge counts
\* messages that are shown.
Sending == {n \in 1..MaxSends : \E k \in 1..Len(outbox) : outbox[k] = Send(n)}
ShownRows == {id \in 1..Len(rows) : \E i \in 1..Len(msgs) : msgs[i].id = id}
Counted ==
  /\ Len(rows) + Cardinality(Sending) + sends <= Len(Preload) + MaxSends
  /\ \A i \in 1..Len(rows) : rows[i].cm <= MaxSends
  /\ \A k \in 1..Len(outbox) : outbox[k].type = "message" => outbox[k].cm <= MaxSends
  /\ \A i \in 1..Len(msgs) : msgs[i].cm <= MaxSends
  /\ contact.unread <= Cardinality(ShownRows)

=============================================================================
