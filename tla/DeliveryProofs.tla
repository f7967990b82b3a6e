--------------------------- MODULE DeliveryProofs ---------------------------
(***************************************************************************)
(* Proofs about message delivery, for any users, connections, capacities   *)
(* and bounds.  DeliveryInv adds to the types what the program counters    *)
(* stand for: which row a handler or a catch-up is at, and what has        *)
(* already happened to it.                                                 *)
(***************************************************************************)
EXTENDS Delivery, HubProofs

HandlerType ==
  [pc : {"idle", "ack", "route", "mark", "notify", "relay_read", "error"},
   msg : 0..Len(messages)]

CatchupType ==
  [pc : {"none", "query", "send", "mark", "notify"}, todo : SUBSET (1..Len(messages))]

\* A handler past the INSERT is at a row of its own user, and one that
\* notifies has marked it; one that relays a receipt has recorded it
\* (messages.go:50-101, 139-154).
HandlerAtRow(c) ==
  LET m == handler[c].msg IN
    /\ handler[c] \in HandlerType
    /\ handler[c].pc \in {"ack", "route", "mark", "notify"} =>
         m \in 1..Len(messages) /\ messages[m].from = Owner[c]
    /\ handler[c].pc = "notify" => messages[m].delivered
    /\ handler[c].pc = "relay_read" => m \in 1..Len(messages) /\ messages[m].read

\* The catch-up runs on serveWS, replays its own user's messages and
\* notifies of the row it has just marked (messages.go:216-255).
CatchupAtRow(c) ==
  /\ catchup[c] \in CatchupType
  /\ catchup[c].pc # "none" => c \in serving
  /\ \A m \in catchup[c].todo :
       /\ messages[m].to = Owner[c]
       /\ catchup[c].pc = "notify" /\ Oldest(c, m) => messages[m].delivered

\* MarkRead sets both flags (store.go:573-577).
ReadIsDelivered ==
  \A m \in 1..Len(messages) : messages[m].read => messages[m].delivered

DeliveryInv ==
  /\ messages \in Seq(Row) /\ Len(messages) \in 0..MaxMsgs
  /\ ReadIsDelivered
  /\ DOMAIN handler = Conns /\ handler = [c \in Conns |-> handler[c]]
  /\ \A c \in Conns : HandlerAtRow(c)
  /\ DOMAIN catchup = Conns /\ catchup = [c \in Conns |-> catchup[c]]
  /\ \A c \in Conns : CatchupAtRow(c)
  /\ tick \in [Ids -> {"none", "sent", "delivered", "read"}]
  /\ noise \in 0..MaxNoise

-----------------------------------------------------------------------------
(* Rows are only added, and their flags only set.                          *)

RowsKept ==
  /\ messages' \in Seq(Row)
  /\ Len(messages') \in Len(messages)..MaxMsgs
  /\ \A m \in 1..Len(messages) :
       /\ messages'[m].from = messages[m].from
       /\ messages'[m].to = messages[m].to
       /\ messages[m].delivered => messages'[m].delivered
       /\ messages[m].read => messages'[m].read
  /\ ReadIsDelivered'

\* Inserting a row keeps the others as they are (store.go:491-515).
LEMMA InsertKeeps ==
  ASSUME DeliveryInv, NEW c \in Conns, NEW u \in Users, PersistMessage(c, u)
  PROVE  /\ RowsKept
         /\ Len(messages') = Len(messages) + 1
         /\ messages'[Len(messages')].from = Owner[c]
  <1>. DEFINE row == [from |-> Owner[c], to |-> u, delivered |-> FALSE, read |-> FALSE]
  <1>1. row \in Row
    BY HubAssumption DEF Row
  <1>2. messages \in Seq(Row) /\ Len(messages) \in Nat /\ Len(messages) <= MaxMsgs
    BY DeliveryAssumption DEF DeliveryInv
  <1>3. messages' = Append(messages, row) /\ Len(messages) < MaxMsgs
    BY DEF PersistMessage
  <1>4. /\ messages' \in Seq(Row)
        /\ Len(messages') = Len(messages) + 1
        /\ \A m \in 1..Len(messages) : messages'[m] = messages[m]
        /\ messages'[Len(messages) + 1] = row
    BY <1>1, <1>2, <1>3
  <1>5. ReadIsDelivered'
    BY SMTT(30), <1>2, <1>4 DEF DeliveryInv, ReadIsDelivered
  <1>. QED
    BY <1>2, <1>3, <1>4, <1>5, DeliveryAssumption DEF RowsKept

\* Setting flags of one row keeps the rows (store.go:568-577).
LEMMA FlagsKeep ==
  ASSUME DeliveryInv, NEW m \in 1..Len(messages),
         StoreMarkDelivered(m) \/ StoreMarkRead(m)
  PROVE  /\ RowsKept
         /\ Len(messages') = Len(messages)
         /\ messages'[m].delivered
         /\ StoreMarkRead(m) => messages'[m].read
  <1>1. messages \in Seq(Row) /\ Len(messages) \in Nat /\ Len(messages) <= MaxMsgs
    BY DeliveryAssumption DEF DeliveryInv
  <1>2. PICK r : /\ messages' = [messages EXCEPT ![m] = r]
                 /\ \/ r = [messages[m] EXCEPT !.delivered = TRUE]
                    \/ r = [messages[m] EXCEPT !.delivered = TRUE, !.read = TRUE]
                 /\ StoreMarkRead(m) => r = [messages[m] EXCEPT !.delivered = TRUE, !.read = TRUE]
    BY DEF StoreMarkDelivered, StoreMarkRead
  <1>3. messages[m] \in Row
    BY <1>1, ElementOfSeq
  <1>4. /\ r \in Row
        /\ r.from = messages[m].from
        /\ r.to = messages[m].to
        /\ r.delivered
        /\ messages[m].read => r.read
        /\ StoreMarkRead(m) => r.read
    BY <1>2, <1>3 DEF Row
  <1>5. /\ messages' \in Seq(Row)
        /\ Len(messages') = Len(messages)
        /\ \A j \in 1..Len(messages) : messages'[j] = IF j = m THEN r ELSE messages[j]
    BY <1>1, <1>2, <1>4, ExceptSeq
  <1>6. ReadIsDelivered'
    BY <1>4, <1>5 DEF DeliveryInv, ReadIsDelivered
  <1>. QED
    BY <1>1, <1>4, <1>5, <1>6, DeliveryAssumption DEF RowsKept

\* A step that leaves the table alone keeps the rows.
LEMMA NoRowsTouched ==
  ASSUME DeliveryInv, UNCHANGED messages
  PROVE  RowsKept
  BY DeliveryAssumption DEF DeliveryInv, RowsKept, ReadIsDelivered

-----------------------------------------------------------------------------
(* What does not move stays at its row.                                    *)

\* A handler that does not move is still at its row, whatever others did to
\* the table meanwhile.
LEMMA HandlerStays ==
  ASSUME DeliveryInv, RowsKept, NEW c \in Conns, handler'[c] = handler[c]
  PROVE  HandlerAtRow(c)'
  <1>1. HandlerAtRow(c) /\ Len(messages) \in Nat
    BY DeliveryAssumption DEF DeliveryInv
  <1>2. Len(messages') \in Nat /\ Len(messages) <= Len(messages')
    BY <1>1, DeliveryAssumption DEF RowsKept
  <1>3. handler'[c] \in HandlerType'
    BY <1>1, <1>2 DEF HandlerAtRow, HandlerType
  <1>4. ASSUME handler[c].msg \in 1..Len(messages)
        PROVE  handler'[c].msg \in 1..Len(messages')
    BY <1>1, <1>2, <1>4
  <1>5. ASSUME handler[c].pc = "notify"
        PROVE  messages'[handler'[c].msg].delivered
    BY <1>1, <1>5 DEF HandlerAtRow, RowsKept
  <1>. QED
    BY <1>1, <1>3, <1>4, <1>5 DEF HandlerAtRow, RowsKept

\* A handler that returns is at no row (client.go:131-171).
LEMMA HandlerIdles ==
  ASSUME DeliveryInv, RowsKept, NEW c \in Conns, handler'[c] = IdleHandler
  PROVE  HandlerAtRow(c)'
  BY DEF DeliveryInv, RowsKept, HandlerAtRow, HandlerType, IdleHandler

\* A catch-up that does not move keeps its list, while its serveWS runs.
LEMMA CatchupStays ==
  ASSUME DeliveryInv, RowsKept, NEW c \in Conns, catchup'[c] = catchup[c],
         c \in serving => c \in serving'
  PROVE  CatchupAtRow(c)'
  BY DEF DeliveryInv, RowsKept, CatchupAtRow, CatchupType, Oldest

\* A catch-up that is over has no list (client.go:106-113).
LEMMA CatchupOver ==
  ASSUME DeliveryInv, RowsKept, NEW c \in Conns, catchup'[c] = NoCatchup
  PROVE  CatchupAtRow(c)'
  BY DEF DeliveryInv, RowsKept, CatchupAtRow, CatchupType, NoCatchup

\* The parts of the invariant, step by step.
LEMMA Assemble ==
  ASSUME RowsKept,
         handler' = [c \in Conns |-> handler'[c]],
         catchup' = [c \in Conns |-> catchup'[c]],
         \A c \in Conns : HandlerAtRow(c)' /\ CatchupAtRow(c)',
         tick' \in [Ids -> {"none", "sent", "delivered", "read"}],
         noise' \in 0..MaxNoise
  PROVE  DeliveryInv'
  <1>1. Len(messages') \in 0..MaxMsgs
    BY LenProperties DEF RowsKept
  <1>. QED
    BY <1>1 DEF RowsKept, DeliveryInv

\* One handler moves on, or one catch-up, or neither.
LEMMA HandlerMoves ==
  ASSUME DeliveryInv, RowsKept, NEW c \in Conns, NEW h,
         handler' = [handler EXCEPT ![c] = h], HandlerAtRow(c)',
         UNCHANGED <<catchup, serving, tick, noise>>
  PROVE  DeliveryInv'
  <1>1. /\ handler' = [d \in Conns |-> handler'[d]]
        /\ catchup' = [d \in Conns |-> catchup'[d]]
        /\ \A d \in Conns : d # c => handler'[d] = handler[d]
    BY DEF DeliveryInv
  <1>2. ASSUME NEW d \in Conns PROVE HandlerAtRow(d)' /\ CatchupAtRow(d)'
    <2>1. HandlerAtRow(d)'
      BY <1>1, HandlerStays
    <2>2. CatchupAtRow(d)'
      BY CatchupStays
    <2>. QED
      BY <2>1, <2>2
  <1>. QED
    BY <1>1, <1>2, Assemble DEF DeliveryInv

\* The same for the catch-up of one connection.
LEMMA CatchupMoves ==
  ASSUME DeliveryInv, RowsKept, NEW c \in Conns, NEW k,
         catchup' = [catchup EXCEPT ![c] = k], CatchupAtRow(c)',
         \A d \in Conns : d # c /\ d \in serving => d \in serving',
         UNCHANGED <<handler, tick, noise>>
  PROVE  DeliveryInv'
  <1>1. /\ handler' = [d \in Conns |-> handler'[d]]
        /\ catchup' = [d \in Conns |-> catchup'[d]]
        /\ \A d \in Conns : d # c => catchup'[d] = catchup[d]
    BY DEF DeliveryInv
  <1>2. ASSUME NEW d \in Conns PROVE HandlerAtRow(d)' /\ CatchupAtRow(d)'
    <2>1. HandlerAtRow(d)'
      BY HandlerStays
    <2>2. CatchupAtRow(d)'
      BY <1>1, CatchupStays
    <2>. QED
      BY <2>1, <2>2
  <1>. QED
    BY <1>1, <1>2, Assemble DEF DeliveryInv

\* Steps of the pumps and of the hub that touch neither rows, handlers nor
\* catch-ups, and may change ticks.
LEMMA NeitherMoves ==
  ASSUME DeliveryInv, UNCHANGED <<messages, handler, catchup, serving>>,
         tick' \in [Ids -> {"none", "sent", "delivered", "read"}],
         noise' \in 0..MaxNoise
  PROVE  DeliveryInv'
  <1>1. RowsKept
    BY NoRowsTouched
  <1>2. ASSUME NEW d \in Conns PROVE HandlerAtRow(d)' /\ CatchupAtRow(d)'
    <2>1. HandlerAtRow(d)'
      BY <1>1, HandlerStays
    <2>2. CatchupAtRow(d)'
      BY <1>1, CatchupStays
    <2>. QED
      BY <2>1, <2>2
  <1>. QED
    BY <1>1, <1>2, Assemble DEF DeliveryInv

-----------------------------------------------------------------------------
(* One lemma per handler.                                                  *)

\* handleMessage keeps its row at every step, through to the last ack
\* (messages.go:50-101).
LEMMA HandleMessageKeeps ==
  ASSUME DeliveryInv, NEW c \in Conns,
         \/ \E u \in Users : PersistMessage(c, u)
         \/ SendMessageAck(c)
         \/ RelayMessage(c)
         \/ MarkDelivered(c)
         \/ SendDeliveredAck(c)
         \/ SendError(c)
  PROVE  DeliveryInv'
  <1>1. HandlerAtRow(c) /\ Len(messages) \in Nat /\ c \in DOMAIN handler
    BY DeliveryAssumption DEF DeliveryInv
  <1>2. ASSUME NEW u \in Users, PersistMessage(c, u) PROVE DeliveryInv'
    <2>1. RowsKept /\ Len(messages') = Len(messages) + 1
          /\ messages'[Len(messages')].from = Owner[c]
      BY <1>2, InsertKeeps
    <2>2. PICK h : /\ handler' = [handler EXCEPT ![c] = h]
                   /\ \/ h = [pc |-> "ack", msg |-> Len(messages) + 1]
                      \/ h = [pc |-> "error", msg |-> handler[c].msg]
      BY <1>2 DEF PersistMessage, Goto
    <2>3. handler'[c] = h
      BY <1>1, <2>2
    <2>4. HandlerAtRow(c)'
      BY <1>1, <2>1, <2>2, <2>3 DEF HandlerAtRow, HandlerType
    <2>. QED
      BY <1>2, <2>1, <2>2, <2>4, HandlerMoves DEF PersistMessage, hubVars
  <1>3. CASE SendMessageAck(c)
    <2>1. RowsKept /\ UNCHANGED messages
      BY <1>3, NoRowsTouched DEF SendMessageAck
    <2>2. handler' = [handler EXCEPT ![c] = [pc |-> "route", msg |-> handler[c].msg]]
      BY <1>3 DEF SendMessageAck, Goto
    <2>3. handler[c].pc = "ack"
      BY <1>3 DEF SendMessageAck, Handling
    <2>4. HandlerAtRow(c)'
      BY <1>1, <2>1, <2>2, <2>3 DEF HandlerAtRow, HandlerType
    <2>. QED
      BY <1>3, <2>1, <2>2, <2>4, HandlerMoves DEF SendMessageAck, Reply
  <1>4. CASE RelayMessage(c)
    <2>1. RowsKept /\ UNCHANGED messages
      BY <1>4, NoRowsTouched DEF RelayMessage
    <2>2. PICK h : /\ handler' = [handler EXCEPT ![c] = h]
                   /\ h = [pc |-> "mark", msg |-> handler[c].msg] \/ h = IdleHandler
      BY <1>4 DEF RelayMessage, Goto, Done
    <2>3. handler[c].pc = "route"
      BY <1>4 DEF RelayMessage, Handling
    <2>4. HandlerAtRow(c)'
      BY <1>1, <2>1, <2>2, <2>3 DEF HandlerAtRow, HandlerType, IdleHandler
    <2>. QED
      BY <1>4, <2>1, <2>2, <2>4, HandlerMoves DEF RelayMessage
  <1>5. CASE MarkDelivered(c)
    <2>1. handler[c].pc = "mark" /\ handler[c].msg \in 1..Len(messages)
      BY <1>1, <1>5 DEF MarkDelivered, Handling, HandlerAtRow
    <2>2. CASE StoreMarkDelivered(handler[c].msg) /\ Goto(c, "notify")
      <3>1. RowsKept /\ Len(messages') = Len(messages) /\ messages'[handler[c].msg].delivered
        BY <2>1, <2>2, FlagsKeep
      <3>2. handler' = [handler EXCEPT ![c] = [pc |-> "notify", msg |-> handler[c].msg]]
        BY <2>2 DEF Goto
      <3>3. HandlerAtRow(c)'
        BY <1>1, <2>1, <3>1, <3>2 DEF HandlerAtRow, HandlerType, RowsKept
      <3>. QED
        BY <1>5, <3>1, <3>2, <3>3, HandlerMoves DEF MarkDelivered, hubVars
    <2>3. CASE UNCHANGED messages /\ Done(c)
      <3>1. RowsKept
        BY <2>3, NoRowsTouched
      <3>2. handler'[c] = IdleHandler
        BY <1>1, <2>3 DEF Done
      <3>. QED
        BY <1>5, <2>3, <3>1, <3>2, HandlerIdles, HandlerMoves DEF MarkDelivered, Done, hubVars
    <2>. QED
      BY <1>5, <2>2, <2>3 DEF MarkDelivered
  <1>6. CASE SendDeliveredAck(c) \/ SendError(c)
    <2>1. RowsKept
      BY <1>6, NoRowsTouched DEF SendDeliveredAck, SendError
    <2>2. handler' = [handler EXCEPT ![c] = IdleHandler]
      BY <1>6 DEF SendDeliveredAck, SendError, Done
    <2>3. HandlerAtRow(c)'
      BY <1>1, <2>1, <2>2, HandlerIdles
    <2>. QED
      BY <1>6, <2>1, <2>2, <2>3, HandlerMoves DEF SendDeliveredAck, SendError, Reply
  <1>. QED
    BY <1>2, <1>3, <1>4, <1>5, <1>6

\* handleAckRead relays only what it has recorded (messages.go:139-154).
LEMMA HandleAckReadKeeps ==
  ASSUME DeliveryInv, NEW c \in Conns,
         (\E m \in Ids : MarkRead(c, m)) \/ RelayRead(c)
  PROVE  DeliveryInv'
  <1>1. HandlerAtRow(c) /\ Len(messages) \in Nat /\ c \in DOMAIN handler
        /\ messages \in Seq(Row)
    BY DeliveryAssumption DEF DeliveryInv
  <1>2. ASSUME NEW m \in Ids, MarkRead(c, m) PROVE DeliveryInv'
    <2>1. m \in 1..Len(messages)
      BY <1>1, <1>2 DEF MarkRead
    <2>2. RowsKept /\ Len(messages') = Len(messages) /\ messages'[m].read
      BY <1>2, <2>1, FlagsKeep DEF MarkRead
    <2>3. handler' = [handler EXCEPT ![c] = [pc |-> "relay_read", msg |-> m]]
      BY <1>2 DEF MarkRead
    <2>4. HandlerAtRow(c)'
      BY <1>1, <2>1, <2>2, <2>3 DEF HandlerAtRow, HandlerType
    <2>. QED
      BY <1>2, <2>2, <2>3, <2>4, HandlerMoves DEF MarkRead, hubVars
  <1>3. CASE RelayRead(c)
    <2>1. RowsKept
      BY <1>3, NoRowsTouched DEF RelayRead
    <2>2. handler' = [handler EXCEPT ![c] = IdleHandler]
      BY <1>3 DEF RelayRead, Done
    <2>3. HandlerAtRow(c)'
      BY <1>1, <2>1, <2>2, HandlerIdles
    <2>. QED
      BY <1>3, <2>1, <2>2, <2>3, HandlerMoves DEF RelayRead
  <1>. QED
    BY <1>2, <1>3

\* The catch-up notifies only of the row it has just marked
\* (messages.go:216-255).
LEMMA CatchupKeeps ==
  ASSUME DeliveryInv, NEW c \in Conns, CatchupStep(c)
  PROVE  DeliveryInv'
  <1>1. /\ CatchupAtRow(c)
        /\ Len(messages) \in Nat /\ messages \in Seq(Row)
        /\ c \in DOMAIN catchup
    BY DeliveryAssumption DEF DeliveryInv
  <1>2. CASE FlushQuery(c)
    <2>1. RowsKept /\ UNCHANGED <<messages, serving>>
      BY <1>2, NoRowsTouched DEF FlushQuery, hubVars
    <2>2. PICK p \in {Undelivered(Owner[c]), {}} :
                 catchup' = [catchup EXCEPT ![c] = [pc |-> "send", todo |-> p]]
      BY <1>2 DEF FlushQuery
    <2>3. CatchupAtRow(c)'
      BY <1>1, <1>2, <2>1, <2>2 DEF CatchupAtRow, CatchupType, Undelivered, FlushQuery
    <2>. QED
      BY <1>2, <2>1, <2>2, <2>3, CatchupMoves DEF FlushQuery
  <1>3. CASE FlushSend(c)
    <2>1. RowsKept /\ UNCHANGED <<messages, serving>>
      BY <1>3, NoRowsTouched DEF FlushSend, Reply
    <2>2. /\ catchup' = [catchup EXCEPT ![c] = [pc |-> "mark", todo |-> catchup[c].todo]]
          /\ catchup[c].pc = "send"
      BY <1>3 DEF FlushSend, Replay
    <2>3. CatchupAtRow(c)'
      BY <1>1, <2>1, <2>2 DEF CatchupAtRow, CatchupType
    <2>. QED
      BY <1>3, <2>1, <2>2, <2>3, CatchupMoves DEF FlushSend
  <1>4. CASE FlushMark(c)
    <2>1. PICK m \in Ids : /\ Oldest(c, m)
                           /\ \/ StoreMarkDelivered(m) /\ Replay(c, "notify")
                              \/ NextRow(c, m) /\ UNCHANGED messages
      BY <1>4 DEF FlushMark
    <2>2. m \in catchup[c].todo /\ m \in 1..Len(messages) /\ catchup[c].pc = "mark" /\ c \in serving
      BY <1>1, <1>4, <2>1 DEF FlushMark, Oldest, CatchupAtRow, CatchupType
    <2>3. UNCHANGED serving
      BY <1>4 DEF FlushMark, hubVars
    <2>4. CASE StoreMarkDelivered(m) /\ Replay(c, "notify")
      <3>1. RowsKept /\ Len(messages') = Len(messages) /\ messages'[m].delivered
        BY <2>2, <2>4, FlagsKeep
      <3>2. catchup' = [catchup EXCEPT ![c] = [pc |-> "notify", todo |-> catchup[c].todo]]
        BY <2>4 DEF Replay
      <3>3. \A n \in catchup[c].todo : n \in 1..Len(messages) /\ messages[n].to = Owner[c]
        BY <1>1 DEF CatchupAtRow, CatchupType
      <3>4. \A n \in catchup[c].todo : messages'[n].to = Owner[c]
        BY <3>1, <3>3 DEF RowsKept
      <3>5. \A n \in catchup[c].todo : Oldest(c, n)' => n = m
        BY <1>1, <2>1, <3>2, <3>3 DEF Oldest
      <3>6. CatchupAtRow(c)'
        BY <1>1, <2>2, <2>3, <3>1, <3>2, <3>4, <3>5 DEF CatchupAtRow, CatchupType
      <3>. QED
        BY <1>4, <2>3, <3>1, <3>2, <3>6, CatchupMoves DEF FlushMark
    <2>5. CASE NextRow(c, m) /\ UNCHANGED messages
      <3>1. RowsKept
        BY <2>5, NoRowsTouched
      <3>2. catchup' = [catchup EXCEPT ![c] = [pc |-> "send", todo |-> catchup[c].todo \ {m}]]
        BY <2>5 DEF NextRow
      <3>3. CatchupAtRow(c)'
        BY <1>1, <2>2, <2>3, <2>5, <3>2 DEF CatchupAtRow, CatchupType
      <3>. QED
        BY <1>4, <2>3, <3>1, <3>2, <3>3, CatchupMoves DEF FlushMark
    <2>. QED
      BY <2>1, <2>4, <2>5
  <1>5. CASE FlushNotify(c)
    <2>1. PICK m \in Ids : NextRow(c, m)
      BY <1>5 DEF FlushNotify
    <2>2. RowsKept /\ UNCHANGED <<messages, serving>> /\ catchup[c].pc = "notify"
      BY <1>5, NoRowsTouched DEF FlushNotify
    <2>3. catchup' = [catchup EXCEPT ![c] = [pc |-> "send", todo |-> catchup[c].todo \ {m}]]
      BY <2>1 DEF NextRow
    <2>4. CatchupAtRow(c)'
      BY <1>1, <2>2, <2>3 DEF CatchupAtRow, CatchupType
    <2>. QED
      BY <1>5, <2>2, <2>3, <2>4, CatchupMoves DEF FlushNotify
  <1>6. CASE CatchupEnds(c)
    <2>1. RowsKept /\ catchup' = [catchup EXCEPT ![c] = NoCatchup] /\ serving' = serving \ {c}
      BY <1>6, NoRowsTouched DEF CatchupEnds, ServeEnds
    <2>2. CatchupAtRow(c)'
      BY <1>1, <2>1, CatchupOver
    <2>. QED
      BY <1>6, <2>1, <2>2, CatchupMoves DEF CatchupEnds
  <1>. QED
    BY <1>2, <1>3, <1>4, <1>5, <1>6 DEF CatchupStep

\* Connecting starts a catch-up; everything that only moves the hub or a
\* pump leaves handlers and rows alone (client.go:94-122, 176-218).
LEMMA ConnectionKeeps ==
  ASSUME DeliveryInv, NEW c \in Conns,
         \/ HandleOther(c)
         \/ HandlerPanics(c)
         \/ ClientConnects(c)
         \/ LoseSocket(c)
         \/ StopReading(c)
         \/ UnwindConn(c)
         \/ Deliver(c)
         \/ \E u \in Users : Chatter(u)
  PROVE  DeliveryInv'
  <1>1. /\ c \in DOMAIN handler /\ c \in DOMAIN catchup
        /\ tick \in [Ids -> {"none", "sent", "delivered", "read"}]
        /\ noise \in 0..MaxNoise
    BY DEF DeliveryInv
  <1>2. ASSUME NEW kind, Noise(kind) PROVE noise' \in 0..MaxNoise
    BY <1>1, <1>2, DeliveryAssumption DEF Noise
  <1>3. CASE HandleOther(c)
    BY <1>1, <1>2, <1>3, NeitherMoves DEF HandleOther, Reply
  <1>4. CASE HandlerPanics(c)
    <2>1. RowsKept
      BY <1>4, NoRowsTouched DEF HandlerPanics
    <2>2. handler' = [handler EXCEPT ![c] = IdleHandler]
      BY <1>4 DEF HandlerPanics, Done
    <2>3. UNCHANGED <<catchup, serving, tick>> /\ noise' \in 0..MaxNoise
      BY <1>1, <1>2, <1>4 DEF HandlerPanics, ReaderPanics
    <2>4. ASSUME NEW d \in Conns PROVE HandlerAtRow(d)' /\ CatchupAtRow(d)'
      <3>1. HandlerAtRow(d)'
        <4>1. CASE d = c
          BY <1>1, <2>1, <2>2, <4>1, HandlerIdles
        <4>2. CASE d # c
          BY <1>1, <2>1, <2>2, <4>2, HandlerStays DEF DeliveryInv
        <4>. QED
          BY <4>1, <4>2
      <3>2. CatchupAtRow(d)'
        BY <2>1, <2>3, CatchupStays
      <3>. QED
        BY <3>1, <3>2
    <2>5. /\ handler' = [d \in Conns |-> handler'[d]]
          /\ catchup' = [d \in Conns |-> catchup'[d]]
      BY <2>2, <2>3 DEF DeliveryInv
    <2>. QED
      BY <1>1, <2>1, <2>3, <2>4, <2>5, Assemble
  <1>5. CASE ClientConnects(c)
    <2>1. RowsKept /\ serving' = serving \cup {c}
      BY <1>5, NoRowsTouched DEF ClientConnects, Connect
    <2>2. catchup' = [catchup EXCEPT ![c] = [pc |-> "query", todo |-> {}]]
      BY <1>5 DEF ClientConnects
    <2>3. CatchupAtRow(c)'
      BY <1>1, <2>1, <2>2 DEF CatchupAtRow, CatchupType
    <2>. QED
      BY <1>5, <2>1, <2>2, <2>3, CatchupMoves DEF ClientConnects
  <1>6. CASE LoseSocket(c)
    BY <1>1, <1>2, <1>6, NeitherMoves DEF LoseSocket, SocketFails
  <1>7. CASE StopReading(c)
    BY <1>1, <1>7, NeitherMoves DEF StopReading, ReadFails, deliveryVars
  <1>8. CASE UnwindConn(c)
    BY <1>1, <1>8, NeitherMoves
    DEF UnwindConn, Unregister, ReaderReturns, WriterSeesClose, PingFails, deliveryVars
  <1>9. CASE Deliver(c)
    <2>1. tick' \in [Ids -> {"none", "sent", "delivered", "read"}]
      BY <1>1, <1>9 DEF Deliver, Received
    <2>. QED
      BY <1>1, <1>9, <2>1, NeitherMoves DEF Deliver, WriterSends
  <1>10. ASSUME NEW u \in Users, Chatter(u) PROVE DeliveryInv'
    BY <1>1, <1>2, <1>10, NeitherMoves DEF Chatter, Relay
  <1>. QED
    BY <1>3, <1>4, <1>5, <1>6, <1>7, <1>8, <1>9, <1>10

\* A restart keeps the rows and the clients, and no handler (main.go:33-51).
LEMMA CrashKeeps ==
  ASSUME DeliveryInv, Crash \/ \E c \in Conns : CrashOfPanic(c)
  PROVE  DeliveryInv'
  <1>1. AllGone /\ noise' \in 0..MaxNoise
    BY DeliveryAssumption DEF Crash, CrashOfPanic, Noise, DeliveryInv
  <1>2. RowsKept
    BY <1>1, NoRowsTouched DEF AllGone
  <1>3. ASSUME NEW d \in Conns PROVE HandlerAtRow(d)' /\ CatchupAtRow(d)'
    <2>1. handler'[d] = IdleHandler /\ catchup'[d] = NoCatchup
      BY <1>1 DEF AllGone
    <2>. QED
      BY <1>2, <2>1, HandlerIdles, CatchupOver
  <1>4. /\ handler' = [d \in Conns |-> handler'[d]]
        /\ catchup' = [d \in Conns |-> catchup'[d]]
        /\ tick' \in [Ids -> {"none", "sent", "delivered", "read"}]
    BY <1>1 DEF AllGone, DeliveryInv
  <1>. QED
    BY <1>1, <1>2, <1>3, <1>4, Assemble

\* An empty table and no connection satisfy the invariant.
LEMMA DeliveryInvInit == DeliveryInit => DeliveryInv
  <1>. SUFFICES ASSUME DeliveryInit PROVE DeliveryInv
    OBVIOUS
  <1>1. messages \in Seq(Row) /\ Len(messages) \in 0..MaxMsgs /\ ReadIsDelivered
    BY DeliveryAssumption, EmptySeq DEF DeliveryInit, ReadIsDelivered
  <1>2. ASSUME NEW d \in Conns PROVE HandlerAtRow(d) /\ CatchupAtRow(d)
    BY <1>1 DEF DeliveryInit, HandlerAtRow, HandlerType, CatchupAtRow, CatchupType,
                IdleHandler, NoCatchup
  <1>. QED
    BY <1>1, <1>2, DeliveryAssumption DEF DeliveryInit, DeliveryInv

\* Every step keeps the invariant of delivery.
LEMMA DeliveryInvStep == DeliveryInv /\ [Next]_vars => DeliveryInv'
  <1>. SUFFICES ASSUME DeliveryInv, [Next]_vars PROVE DeliveryInv'
    OBVIOUS
  <1>1. CASE UNCHANGED vars
    BY <1>1, NeitherMoves DEF vars, hubVars, deliveryVars, DeliveryInv
  <1>2. ASSUME NEW c \in Conns, HandlerStep(c) PROVE DeliveryInv'
    BY <1>2, HandleMessageKeeps, HandleAckReadKeeps, ConnectionKeeps DEF HandlerStep
  <1>3. CASE \E u \in Users : Chatter(u)
    <2>1. PICK c \in Conns : TRUE
      BY <1>3 DEF Chatter, Relay
    <2>. QED
      BY <1>3, <2>1, ConnectionKeeps
  <1>4. ASSUME NEW c \in Conns,
               \/ HandleOther(c) \/ HandlerPanics(c) \/ ClientConnects(c)
               \/ LoseSocket(c) \/ StopReading(c) \/ UnwindConn(c) \/ Deliver(c)
        PROVE  DeliveryInv'
    BY <1>4, ConnectionKeeps
  <1>5. ASSUME NEW c \in Conns,
               \/ \E u \in Users : PersistMessage(c, u)
               \/ \E m \in Ids : MarkRead(c, m)
               \/ CatchupStep(c)
               \/ CrashOfPanic(c)
        PROVE  DeliveryInv'
    BY <1>5, HandleMessageKeeps, HandleAckReadKeeps, CatchupKeeps, CrashKeeps
  <1>. QED
    BY <1>1, <1>2, <1>3, <1>4, <1>5, CrashKeeps DEF Next

-----------------------------------------------------------------------------
(* Delivery implements the hub.                                            *)

\* The envelopes of messages.go are envelopes of the hub, and none is the
\* placeholder for the other kinds.
LEMMA Envelopes ==
  /\ Other \in Envelope
  /\ \A m \in Ids : \A t \in {"message", "message_ack", "ack_delivered", "ack_read"} :
       Env(t, m) \in Envelope /\ Env(t, m) # Other
  BY EnvelopeAssumption DEF DeliveryEnvelope, Env, Other, Ids

\* What a handler or the catch-up does to the hub, it does as a goroutine of
\* a running connection (messages.go:58-101, 145-154, 223-254).
LEMMA StepsOfHub == DeliveryInv /\ [Next]_vars => [HubNext]_hubVars
  <1>. SUFFICES ASSUME DeliveryInv, Next PROVE [HubNext]_hubVars
    BY DEF vars
  <1>. DEFINE Kept == UNCHANGED hubVars
  <1>1. Len(messages) \in 0..MaxMsgs /\ messages \in Seq(Row) /\ MaxMsgs \in Nat
    BY DeliveryAssumption DEF DeliveryInv
  <1>2. ASSUME NEW c \in Conns, handler[c].pc \in {"ack", "route", "mark", "notify", "relay_read"}
        PROVE  /\ handler[c].msg \in Ids
               /\ messages[handler[c].msg].to \in Users
               /\ messages[handler[c].msg].from \in Users
    <2>1. handler[c].msg \in 1..Len(messages)
      BY <1>2 DEF DeliveryInv, HandlerAtRow
    <2>2. messages[handler[c].msg] \in Row
      BY <1>1, <2>1, ElementOfSeq
    <2>. QED
      BY <1>1, <2>1, <2>2 DEF Ids, Row
  <1>3. ASSUME NEW c \in Conns, NEW m \in catchup[c].todo PROVE messages[m].from \in Users
    <2>1. m \in 1..Len(messages)
      BY <1>3 DEF DeliveryInv, CatchupAtRow, CatchupType
    <2>2. messages[m] \in Row
      BY <1>1, <2>1, ElementOfSeq
    <2>. QED
      BY <2>2 DEF Row
  <1>4. ASSUME NEW c \in Conns, HandlerStep(c) PROVE HubNext \/ Kept
    <2>1. CASE SendMessageAck(c) \/ SendDeliveredAck(c) \/ SendError(c)
      <3>1. PICK e \in Envelope : Reply(c, e)
        <4>1. CASE SendMessageAck(c)
          BY <1>2, <4>1, Envelopes DEF SendMessageAck, Handling
        <4>2. CASE SendDeliveredAck(c)
          BY <1>2, <4>2, Envelopes DEF SendDeliveredAck, Handling
        <4>3. CASE SendError(c)
          BY <4>3, Envelopes DEF SendError
        <4>. QED
          BY <2>1, <4>1, <4>2, <4>3
      <3>. QED
        BY <3>1 DEF HubNext
    <2>2. CASE RelayMessage(c)
      <3>1. /\ reader[c] = "reading"
            /\ messages[handler[c].msg].to \in Users
            /\ Env("message", handler[c].msg) \in Envelope
        BY <1>2, <2>2, Envelopes DEF RelayMessage, Handling
      <3>2. Relay(messages[handler[c].msg].to, Env("message", handler[c].msg))
        BY <2>2, <3>1 DEF RelayMessage, Relay, Route
      <3>. QED
        BY <3>1, <3>2 DEF HubNext
    <2>3. CASE RelayRead(c)
      <3>1. /\ reader[c] = "reading"
            /\ messages[handler[c].msg].from \in Users
            /\ Env("ack_read", handler[c].msg) \in Envelope
        BY <1>2, <2>3, Envelopes DEF RelayRead, Handling
      <3>2. \/ Relay(messages[handler[c].msg].from, Env("ack_read", handler[c].msg))
            \/ Kept
        BY <2>3, <3>1 DEF RelayRead, Relay, hubVars
      <3>. QED
        BY <3>1, <3>2 DEF HubNext
    <2>4. CASE HandlerPanics(c)
      BY <2>4 DEF HandlerPanics, HubNext
    <2>5. CASE MarkDelivered(c)
      BY <2>5 DEF MarkDelivered
    <2>. QED
      BY <1>4, <2>1, <2>2, <2>3, <2>4, <2>5 DEF HandlerStep
  <1>5. ASSUME NEW c \in Conns, CatchupStep(c) PROVE HubNext \/ Kept
    <2>1. CASE FlushSend(c)
      <3>1. PICK e \in Envelope : Reply(c, e)
        BY <2>1, Envelopes DEF FlushSend
      <3>. QED
        BY <3>1 DEF HubNext
    <2>2. CASE FlushNotify(c)
      <3>1. PICK m \in Ids : /\ Oldest(c, m)
                             /\ \/ Route(messages[m].from, Env("ack_delivered", m))
                                \/ UNCHANGED <<clients, outbox, closed>>
        BY <2>2 DEF FlushNotify
      <3>2. c \in serving /\ messages[m].from \in Users /\ Env("ack_delivered", m) \in Envelope
        BY <1>3, <2>2, <3>1, Envelopes DEF FlushNotify, Oldest, DeliveryInv, CatchupAtRow
      <3>3. Relay(messages[m].from, Env("ack_delivered", m)) \/ Kept
        BY <2>2, <3>1, <3>2 DEF FlushNotify, Relay, hubVars
      <3>. QED
        BY <3>2, <3>3 DEF HubNext
    <2>3. CASE CatchupEnds(c)
      BY <2>3 DEF CatchupEnds, HubNext, ConnStep
    <2>4. CASE FlushQuery(c) \/ FlushMark(c)
      BY <2>4 DEF FlushQuery, FlushMark
    <2>. QED
      BY <1>5, <2>1, <2>2, <2>3, <2>4 DEF CatchupStep
  <1>6. ASSUME NEW c \in Conns,
               \/ \E u \in Users : PersistMessage(c, u)
               \/ \E m \in Ids : MarkRead(c, m)
        PROVE  Kept
    BY <1>6 DEF PersistMessage, MarkRead
  <1>7. ASSUME NEW c \in Conns,
               \/ HandleOther(c) \/ HandlerPanics(c) \/ ClientConnects(c)
               \/ LoseSocket(c) \/ StopReading(c) \/ UnwindConn(c)
               \/ Deliver(c) \/ CrashOfPanic(c)
        PROVE  HubNext
    BY <1>7, Envelopes
    DEF HandleOther, HandlerPanics, ClientConnects, LoseSocket, StopReading,
        UnwindConn, Deliver, CrashOfPanic, HubNext, ConnStep
  <1>8. ASSUME NEW u \in Users, Chatter(u) PROVE HubNext
    BY <1>8, Envelopes DEF Chatter, HubNext
  <1>9. CASE Crash
    BY <1>9 DEF Crash, HubNext
  <1>. QED
    BY <1>4, <1>5, <1>6, <1>7, <1>8, <1>9 DEF Next

\* Message delivery takes no liberty with the hub, its channels or the
\* goroutines of a connection (server/messages.go over server/hub.go).
THEOREM DeliveryIsOfHub == DeliverySpec => ImplementsHub
  <1>1. DeliveryInit => HubInit
    BY DEF DeliveryInit
  <1>. QED
    BY <1>1, DeliveryInvInit, DeliveryInvStep, StepsOfHub, PTL
    DEF DeliverySpec, ImplementsHub, HubSafeSpec

\* Program counters, rows and ticks keep their shape (messages.go, store.go).
THEOREM DeliveryTypeCorrect == DeliverySpec => []DeliveryTypeOK
  <1>1. DeliveryInv => DeliveryTypeOK
    <2>. SUFFICES ASSUME DeliveryInv PROVE DeliveryTypeOK
      OBVIOUS
    <2>1. \A c \in Conns : handler[c] \in HandlerType /\ catchup[c] \in CatchupType
      BY DEF DeliveryInv, HandlerAtRow, CatchupAtRow
    <2>2. handler \in [Conns -> HandlerType] /\ catchup \in [Conns -> CatchupType]
      BY <2>1 DEF DeliveryInv
    <2>. QED
      BY <2>2, DeliveryAssumption DEF DeliveryInv, DeliveryTypeOK, HandlerType, CatchupType
  <1>. QED
    BY <1>1, DeliveryInvInit, DeliveryInvStep, PTL DEF DeliverySpec

-----------------------------------------------------------------------------
(* Envelopes and ticks are true.                                           *)

\* What AcksAreTrue says of one envelope in the outbox of c.
True(c, e) == e # Other =>
  /\ e.id \in 1..Len(messages)
  /\ e.type = "message" => messages[e.id].to = Owner[c]
  /\ e.type # "message" => messages[e.id].from = Owner[c]
  /\ e.type = "ack_delivered" => messages[e.id].delivered
  /\ e.type = "ack_read" => messages[e.id].read

\* An envelope stays true while it waits in an outbox, as rows are never
\* deleted and flags never cleared (store.go:568-577).
LEMMA StaysTrue ==
  ASSUME DeliveryInv, RowsKept, NEW c, NEW e, True(c, e)
  PROVE  True(c, e)'
  BY DeliveryAssumption DEF DeliveryInv, RowsKept, True

\* The rows only grow, whatever the step.
LEMMA NextKeepsRows == DeliveryInv /\ [Next]_vars => RowsKept
  <1>. SUFFICES ASSUME DeliveryInv, [Next]_vars PROVE RowsKept
    OBVIOUS
  <1>1. ASSUME NEW c \in Conns, NEW u \in Users, PersistMessage(c, u) PROVE RowsKept
    BY <1>1, InsertKeeps
  <1>2. ASSUME NEW c \in Conns, NEW m \in Ids, MarkRead(c, m) PROVE RowsKept
    <2>1. m \in 1..Len(messages)
      BY <1>2 DEF MarkRead, DeliveryInv
    <2>. QED
      BY <1>2, <2>1, FlagsKeep DEF MarkRead
  <1>3. ASSUME NEW c \in Conns, MarkDelivered(c) PROVE RowsKept
    <2>1. handler[c].msg \in 1..Len(messages)
      BY <1>3 DEF MarkDelivered, Handling, DeliveryInv, HandlerAtRow
    <2>. QED
      BY <1>3, <2>1, FlagsKeep, NoRowsTouched DEF MarkDelivered
  <1>4. ASSUME NEW c \in Conns, FlushMark(c) PROVE RowsKept
    <2>1. PICK m \in Ids : Oldest(c, m) /\ (StoreMarkDelivered(m) \/ UNCHANGED messages)
      BY <1>4 DEF FlushMark
    <2>2. m \in 1..Len(messages)
      BY <2>1 DEF Oldest, DeliveryInv, CatchupAtRow, CatchupType
    <2>. QED
      BY <2>1, <2>2, FlagsKeep, NoRowsTouched
  <1>5. ASSUME NEW c \in Conns,
               \/ SendMessageAck(c) \/ RelayMessage(c) \/ SendDeliveredAck(c)
               \/ RelayRead(c) \/ SendError(c) \/ HandlerPanics(c)
               \/ FlushQuery(c) \/ FlushSend(c) \/ FlushNotify(c) \/ CatchupEnds(c)
               \/ HandleOther(c) \/ ClientConnects(c) \/ LoseSocket(c)
               \/ StopReading(c) \/ UnwindConn(c) \/ Deliver(c) \/ CrashOfPanic(c)
        PROVE  UNCHANGED messages
    BY <1>5
    DEF SendMessageAck, RelayMessage, SendDeliveredAck, RelayRead, SendError,
        HandlerPanics, FlushQuery, FlushSend, FlushNotify, CatchupEnds, HandleOther,
        ClientConnects, LoseSocket, StopReading, UnwindConn, Deliver, CrashOfPanic,
        AllGone, deliveryVars
  <1>6. ASSUME (\E u \in Users : Chatter(u)) \/ Crash \/ UNCHANGED vars
        PROVE  UNCHANGED messages
    BY <1>6 DEF Chatter, Crash, AllGone, vars, deliveryVars
  <1>. QED
    BY <1>1, <1>2, <1>3, <1>4, <1>5, <1>6, NoRowsTouched DEF Next, HandlerStep, CatchupStep

TrueOutbox(c) == \A i \in 1..Len(outbox[c]) : True(c, outbox[c][i])

\* An outbox that loses its head, gains a true envelope or is emptied stays
\* true.
LEMMA OutboxStaysTrue ==
  ASSUME HubTypeOK, DeliveryInv, RowsKept, NEW c \in Conns, TrueOutbox(c),
         \/ outbox'[c] = outbox[c]
         \/ outbox'[c] = <<>>
         \/ outbox[c] # <<>> /\ outbox'[c] = Tail(outbox[c])
         \/ \E e \in Envelope : True(c, e)' /\ outbox'[c] = Append(outbox[c], e)
  PROVE  TrueOutbox(c)'
  <1>1. outbox[c] \in Seq(Envelope) /\ Len(outbox[c]) \in Nat
    BY DEF HubTypeOK
  <1>2. ASSUME NEW i \in 1..Len(outbox[c]), NEW e, e = outbox[c][i] PROVE True(c, e)'
    <2>1. True(c, e)
      BY <1>2 DEF TrueOutbox
    <2>. QED
      BY <2>1, StaysTrue
  <1>3. SUFFICES ASSUME NEW i \in 1..Len(outbox'[c]), NEW e, e = outbox'[c][i]
                 PROVE  True(c, e)'
    BY DEF TrueOutbox, True
  <1>4. CASE outbox'[c] = outbox[c]
    BY <1>2, <1>3, <1>4
  <1>5. CASE outbox'[c] = <<>>
    BY <1>3, <1>5
  <1>6. CASE outbox[c] # <<>> /\ outbox'[c] = Tail(outbox[c])
    <2>1. Len(outbox'[c]) = Len(outbox[c]) - 1 /\ outbox'[c][i] = outbox[c][i + 1]
      BY <1>1, <1>3, <1>6, HeadTailProperties
    <2>2. i + 1 \in 1..Len(outbox[c])
      BY <1>1, <2>1
    <2>. QED
      BY <1>2, <1>3, <2>1, <2>2
  <1>7. ASSUME NEW f \in Envelope, True(c, f)', outbox'[c] = Append(outbox[c], f)
        PROVE  True(c, e)'
    <2>1. Len(outbox'[c]) = Len(outbox[c]) + 1
      BY <1>1, <1>7
    <2>2. CASE i = Len(outbox[c]) + 1
      <3>1. e = f
        BY <1>1, <1>3, <1>7, <2>2
      <3>. QED
        BY <1>7, <3>1
    <2>3. CASE i # Len(outbox[c]) + 1
      <3>1. i \in 1..Len(outbox[c]) /\ e = outbox[c][i]
        BY <1>1, <1>3, <1>7, <2>1, <2>3
      <3>. QED
        BY <1>2, <3>1
    <2>. QED
      BY <2>2, <2>3
  <1>. QED
    BY <1>4, <1>5, <1>6, <1>7

AllTrue == \A c \in Conns : TrueOutbox(c)

\* The proof form of AcksAreTrue is AcksAreTrue.
LEMMA AllTrueIsAcksAreTrue ==
  ASSUME DeliveryInv
  PROVE  AllTrue <=> AcksAreTrue
  <1>1. DOMAIN messages = 1..Len(messages)
    BY DEF DeliveryInv
  <1>. QED
    BY <1>1 DEF AllTrue, TrueOutbox, True, AcksAreTrue

\* A true reply, and a routed envelope true for its user's connections, keep
\* all outboxes true (client.go:212-218, hub.go:83-100).
LEMMA ReplyStaysTrue ==
  ASSUME HubInv, DeliveryInv, RowsKept, AllTrue,
         NEW c \in Conns, NEW e \in Envelope, Reply(c, e), True(c, e)'
  PROVE  AllTrue'
  <1>. SUFFICES ASSUME NEW d \in Conns PROVE TrueOutbox(d)'
    BY DEF AllTrue
  <1>1. \/ outbox'[d] = outbox[d]
        \/ True(d, e)' /\ outbox'[d] = Append(outbox[d], e)
    BY DEF Reply, TrySend, HubInv, HubTypeOK
  <1>. QED
    BY <1>1, OutboxStaysTrue DEF AllTrue, HubInv

\* An envelope that is true for every connection of its user may be routed
\* (hub.go:83-100).
LEMMA RouteStaysTrue ==
  ASSUME HubInv, DeliveryInv, RowsKept, AllTrue,
         NEW u \in Users, NEW e \in Envelope, Route(u, e),
         \A c \in Conns : Owner[c] = u => True(c, e)'
  PROVE  AllTrue'
  <1>. SUFFICES ASSUME NEW d \in Conns PROVE TrueOutbox(d)'
    BY DEF AllTrue
  <1>1. CASE Unrouted(u)
    BY <1>1, OutboxStaysTrue DEF AllTrue, HubInv, Unrouted, NoRoute, DropSlow
  <1>2. CASE Enqueue(u, e)
    <2>1. Owner[clients[u]] = u /\ clients[u] \in Conns
      BY <1>2 DEF Enqueue, HubInv, HubTypeOK, RegisteredIsLive
    <2>2. \/ outbox'[d] = outbox[d]
          \/ True(d, e)' /\ outbox'[d] = Append(outbox[d], e)
      BY <1>2, <2>1 DEF Enqueue, HubInv, HubTypeOK
    <2>. QED
      BY <2>2, OutboxStaysTrue DEF AllTrue, HubInv
  <1>. QED
    BY <1>1, <1>2 DEF Route

\* Frames of other kinds say nothing about messages.
LEMMA OtherIsTrue ==
  ASSUME NEW c
  PROVE  True(c, Other)'
  BY DEF True, Other, Env

\* Steps that only empty, drain or leave alone the outboxes.
LEMMA DrainStaysTrue ==
  ASSUME HubInv, DeliveryInv, RowsKept, AllTrue,
         \A d \in Conns : \/ outbox'[d] = outbox[d]
                          \/ outbox'[d] = <<>>
                          \/ outbox[d] # <<>> /\ outbox'[d] = Tail(outbox[d])
  PROVE  AllTrue'
  BY OutboxStaysTrue DEF AllTrue, HubInv

\* Every step keeps the queued envelopes true: handlers and the catch-up
\* queue true ones, all others drain, drop or add other frames.
LEMMA AllTrueStep ==
  ASSUME HubInv, DeliveryInv, AllTrue, [Next]_vars
  PROVE  AllTrue'
  <1>1. RowsKept /\ DeliveryInv'
    BY NextKeepsRows, DeliveryInvStep
  <1>2. ASSUME NEW c \in Conns, HandlerStep(c) PROVE AllTrue'
    <2>. DEFINE m == handler[c].msg
    <2>1. HandlerAtRow(c) /\ Len(messages) \in 0..MaxMsgs /\ messages \in Seq(Row)
      BY DEF DeliveryInv
    <2>2. CASE SendMessageAck(c)
      <3>1. /\ m \in 1..Len(messages) /\ messages[m].from = Owner[c]
            /\ m \in Ids /\ UNCHANGED messages
        BY <2>1, <2>2, DeliveryAssumption DEF SendMessageAck, Handling, HandlerAtRow, Ids
      <3>2. True(c, Env("message_ack", m)) /\ Env("message_ack", m) \in Envelope
        BY <3>1, Envelopes DEF True, Env
      <3>3. ASSUME NEW e, e = Env("message_ack", m) PROVE True(c, e)'
        BY <1>1, <3>2, <3>3, StaysTrue
      <3>. QED
        BY <1>1, <2>2, <3>2, <3>3, ReplyStaysTrue DEF SendMessageAck
    <2>3. CASE RelayMessage(c)
      <3>1. /\ m \in 1..Len(messages) /\ m \in Ids /\ UNCHANGED messages
            /\ messages[m].to \in Users
        <4>1. m \in 1..Len(messages) /\ UNCHANGED messages
          BY <2>1, <2>3 DEF RelayMessage, Handling, HandlerAtRow
        <4>2. messages[m] \in Row
          BY <2>1, <4>1, ElementOfSeq
        <4>. QED
          BY <2>1, <4>1, <4>2, DeliveryAssumption DEF Row, Ids
      <3>2. Env("message", m) \in Envelope
        BY <3>1, Envelopes
      <3>3. ASSUME NEW d \in Conns, Owner[d] = messages[m].to,
                   NEW e, e = Env("message", m)
            PROVE  True(d, e)'
        <4>1. True(d, e)
          BY <3>1, <3>3 DEF True, Env
        <4>. QED
          BY <1>1, <4>1, StaysTrue
      <3>4. Route(messages[m].to, Env("message", m))
        BY <2>3 DEF RelayMessage, Route
      <3>. QED
        BY <1>1, <3>1, <3>2, <3>3, <3>4, RouteStaysTrue
    <2>4. CASE SendDeliveredAck(c)
      <3>1. /\ m \in 1..Len(messages) /\ messages[m].from = Owner[c] /\ messages[m].delivered
            /\ m \in Ids /\ UNCHANGED messages
        BY <2>1, <2>4, DeliveryAssumption DEF SendDeliveredAck, Handling, HandlerAtRow, Ids
      <3>2. True(c, Env("ack_delivered", m)) /\ Env("ack_delivered", m) \in Envelope
        BY <3>1, Envelopes DEF True, Env
      <3>3. ASSUME NEW e, e = Env("ack_delivered", m) PROVE True(c, e)'
        BY <1>1, <3>2, <3>3, StaysTrue
      <3>. QED
        BY <1>1, <2>4, <3>2, <3>3, ReplyStaysTrue DEF SendDeliveredAck
    <2>5. CASE RelayRead(c)
      <3>1. /\ m \in 1..Len(messages) /\ m \in Ids /\ UNCHANGED messages
            /\ messages[m].from \in Users /\ messages[m].read
        <4>1. m \in 1..Len(messages) /\ UNCHANGED messages /\ messages[m].read
          BY <2>1, <2>5 DEF RelayRead, Handling, HandlerAtRow
        <4>2. messages[m] \in Row
          BY <2>1, <4>1, ElementOfSeq
        <4>. QED
          BY <2>1, <4>1, <4>2, DeliveryAssumption DEF Row, Ids
      <3>2. Env("ack_read", m) \in Envelope
        BY <3>1, Envelopes
      <3>3. ASSUME NEW d \in Conns, Owner[d] = messages[m].from,
                   NEW e, e = Env("ack_read", m)
            PROVE  True(d, e)'
        <4>1. True(d, e)
          BY <3>1, <3>3 DEF True, Env
        <4>. QED
          BY <1>1, <4>1, StaysTrue
      <3>4. \/ Route(messages[m].from, Env("ack_read", m))
            \/ UNCHANGED outbox
        BY <2>5 DEF RelayRead
      <3>. QED
        BY <1>1, <3>1, <3>2, <3>3, <3>4, RouteStaysTrue, DrainStaysTrue
    <2>6. CASE SendError(c)
      BY <1>1, <2>6, Envelopes, OtherIsTrue, ReplyStaysTrue DEF SendError
    <2>7. CASE MarkDelivered(c) \/ HandlerPanics(c)
      BY <1>1, <2>7, DrainStaysTrue DEF MarkDelivered, HandlerPanics, ReaderPanics, hubVars
    <2>. QED
      BY <1>2, <2>2, <2>3, <2>4, <2>5, <2>6, <2>7 DEF HandlerStep
  <1>3. ASSUME NEW c \in Conns, CatchupStep(c) PROVE AllTrue'
    <2>1. /\ Len(messages) \in 0..MaxMsgs /\ messages \in Seq(Row) /\ MaxMsgs \in Nat
          /\ \A n \in catchup[c].todo : n \in 1..Len(messages)
          /\ CatchupAtRow(c)
      BY DeliveryAssumption DEF DeliveryInv, CatchupAtRow, CatchupType
    <2>2. CASE FlushSend(c)
      <3>1. PICK m \in Ids : Oldest(c, m) /\ Reply(c, Env("message", m))
        BY <2>2 DEF FlushSend
      <3>2. m \in 1..Len(messages) /\ messages[m].to = Owner[c]
        BY <2>1, <3>1 DEF Oldest, CatchupAtRow
      <3>3. True(c, Env("message", m)) /\ Env("message", m) \in Envelope
        BY <3>1, <3>2, Envelopes DEF True, Env
      <3>4. ASSUME NEW e, e = Env("message", m) PROVE True(c, e)'
        BY <1>1, <3>3, <3>4, StaysTrue
      <3>. QED
        BY <1>1, <3>1, <3>3, <3>4, ReplyStaysTrue
    <2>3. CASE FlushNotify(c)
      <3>1. PICK m \in Ids : /\ Oldest(c, m)
                             /\ \/ Route(messages[m].from, Env("ack_delivered", m))
                                \/ UNCHANGED outbox
        BY <2>3 DEF FlushNotify
      <3>2. m \in 1..Len(messages) /\ messages[m].delivered
        BY <2>1, <2>3, <3>1 DEF Oldest, CatchupAtRow, FlushNotify
      <3>3. messages[m] \in Row
        BY <2>1, <3>2, ElementOfSeq
      <3>4. messages[m].from \in Users /\ Env("ack_delivered", m) \in Envelope
        BY <3>1, <3>3, Envelopes DEF Row
      <3>5. ASSUME NEW d \in Conns, Owner[d] = messages[m].from,
                   NEW e, e = Env("ack_delivered", m)
            PROVE  True(d, e)'
        <4>1. True(d, e)
          BY <3>2, <3>5 DEF True, Env
        <4>. QED
          BY <1>1, <4>1, StaysTrue
      <3>. QED
        BY <1>1, <3>1, <3>4, <3>5, RouteStaysTrue, DrainStaysTrue
    <2>4. CASE FlushQuery(c) \/ FlushMark(c) \/ CatchupEnds(c)
      BY <1>1, <2>4, DrainStaysTrue DEF FlushQuery, FlushMark, CatchupEnds, ServeEnds, hubVars
    <2>. QED
      BY <1>3, <2>2, <2>3, <2>4 DEF CatchupStep
  <1>4. ASSUME NEW c \in Conns,
               \/ \E u \in Users : PersistMessage(c, u)
               \/ \E m \in Ids : MarkRead(c, m)
               \/ HandlerPanics(c) \/ LoseSocket(c) \/ StopReading(c) \/ UnwindConn(c)
        PROVE  AllTrue'
    <2>1. UNCHANGED outbox
      BY <1>4
      DEF PersistMessage, MarkRead, HandlerPanics, ReaderPanics, LoseSocket, SocketFails,
          StopReading, ReadFails, UnwindConn, Unregister, ReaderReturns, WriterSeesClose,
          PingFails, hubVars
    <2>. QED
      BY <1>1, <2>1, DrainStaysTrue
  <1>5. ASSUME NEW c \in Conns, HandleOther(c) PROVE AllTrue'
    BY <1>1, <1>5, Envelopes, OtherIsTrue, ReplyStaysTrue DEF HandleOther
  <1>6. ASSUME NEW u \in Users, Chatter(u) PROVE AllTrue'
    BY <1>1, <1>6, Envelopes, OtherIsTrue, RouteStaysTrue DEF Chatter, Relay
  <1>7. ASSUME NEW c \in Conns, ClientConnects(c) \/ Deliver(c) PROVE AllTrue'
    <2>1. \A d \in Conns : \/ outbox'[d] = outbox[d]
                           \/ outbox'[d] = <<>>
                           \/ outbox[d] # <<>> /\ outbox'[d] = Tail(outbox[d])
      BY <1>7 DEF ClientConnects, Connect, Deliver, WriterSends, HubInv, HubTypeOK
    <2>. QED
      BY <1>1, <2>1, DrainStaysTrue
  <1>8. ASSUME Restart PROVE AllTrue'
    BY <1>1, <1>8, DrainStaysTrue DEF Restart
  <1>9. CASE UNCHANGED vars
    BY <1>1, <1>9, DrainStaysTrue DEF vars, hubVars
  <1>. QED
    BY <1>2, <1>3, <1>4, <1>5, <1>6, <1>7, <1>8, <1>9
    DEF Next, Crash, CrashOfPanic, PanicCrashes

\* The hub's invariant, the invariant of delivery and true envelopes,
\* together.
TrueInv == HubInv /\ DeliveryInv /\ AllTrue

\* Nothing is queued at first, and a step keeps all three.
LEMMA TrueInvHolds ==
  /\ DeliveryInit => TrueInv
  /\ TrueInv /\ [Next]_vars => TrueInv'
  <1>1. ASSUME DeliveryInit PROVE TrueInv
    <2>1. HubInit
      BY <1>1 DEF DeliveryInit
    <2>2. AllTrue
      BY <2>1 DEF HubInit, AllTrue, TrueOutbox
    <2>. QED
      BY <1>1, <2>1, <2>2, HubInvInit, DeliveryInvInit DEF TrueInv
  <1>2. ASSUME TrueInv, [Next]_vars PROVE TrueInv'
    <2>1. HubInv'
      BY <1>2, StepsOfHub, HubInvStep DEF TrueInv
    <2>2. DeliveryInv' /\ AllTrue'
      BY <1>2, DeliveryInvStep, AllTrueStep DEF TrueInv
    <2>. QED
      BY <2>1, <2>2 DEF TrueInv
  <1>. QED
    BY <1>1, <1>2

\* Every envelope queued for a connection is for that user and says nothing
\* the database does not know (messages.go:93-101, 139-154, 240-254).
THEOREM AcksTrue == DeliverySpec => []AcksAreTrue
  <1>1. TrueInv => AcksAreTrue
    BY AllTrueIsAcksAreTrue DEF TrueInv
  <1>. QED
    BY <1>1, TrueInvHolds, PTL DEF DeliverySpec

\* Ticks come from true envelopes, and the rows behind them stay.
LEMMA TicksStep ==
  ASSUME TrueInv, TicksAreTrue, [Next]_vars
  PROVE  TicksAreTrue'
  <1>1. /\ messages \in Seq(Row) /\ Len(messages) \in Nat
        /\ DOMAIN messages = 1..Len(messages)
        /\ messages' \in Seq(Row) /\ Len(messages') \in Nat
        /\ Len(messages) <= Len(messages')
        /\ DOMAIN messages' = 1..Len(messages')
        /\ \A m \in 1..Len(messages) :
             /\ messages[m].delivered => messages'[m].delivered
             /\ messages[m].read => messages'[m].read
        /\ \A m \in 1..Len(messages) : messages[m].read => messages[m].delivered
    BY NextKeepsRows, DeliveryAssumption
    DEF TrueInv, DeliveryInv, RowsKept, ReadIsDelivered
  <1>2. ASSUME UNCHANGED tick PROVE TicksAreTrue'
    BY <1>1, <1>2 DEF TicksAreTrue
  <1>3. ASSUME NEW c \in Conns, Deliver(c), tick' # tick PROVE TicksAreTrue'
    <2>1. PICK e : e = outbox[c][1] /\ tick' = Received(e)
      BY <1>3 DEF Deliver, WriterSends
    <2>2. e \in Envelope /\ True(c, e)
      <3>1. outbox[c] \in Seq(Envelope) /\ outbox[c] # <<>>
        BY <1>3 DEF Deliver, WriterSends, TrueInv, HubInv, HubTypeOK
      <3>2. 1 \in 1..Len(outbox[c])
        BY <3>1
      <3>3. outbox[c][1] \in Envelope
        BY <3>1, <3>2, ElementOfSeq
      <3>4. True(c, outbox[c][1])
        BY <3>2 DEF TrueInv, AllTrue, TrueOutbox
      <3>. QED
        BY <2>1, <3>3, <3>4
    <2>3. e # Other /\ e.id \in 1..Len(messages)
      <3>1. Other.type = "other"
        BY DEF Other, Env
      <3>2. e # Other
        BY <1>3, <2>1, <3>1 DEF Received
      <3>. QED
        BY <2>2, <3>2 DEF True
    <2>4. UNCHANGED messages
      BY <1>3 DEF Deliver
    <2>5. tick \in [Ids -> {"none", "sent", "delivered", "read"}]
      BY DEF TrueInv, DeliveryInv
    <2>6. ASSUME NEW m \in Ids
          PROVE  /\ tick'[m] # "none" => m \in 1..Len(messages)
                 /\ tick'[m] = "delivered" => messages[m].delivered
                 /\ tick'[m] = "read" => messages[m].read /\ messages[m].delivered
      <3>1. CASE m # e.id
        <4>1. tick'[m] = tick[m]
          BY <2>1, <2>5, <3>1 DEF Received
        <4>. QED
          BY <1>1, <4>1 DEF TicksAreTrue
      <3>2. CASE m = e.id
        <4>1. \/ tick'[m] = tick[m]
              \/ tick'[m] = "sent"
              \/ e.type = "ack_delivered" /\ tick'[m] = "delivered"
              \/ e.type = "ack_read" /\ tick'[m] = "read"
          BY <2>1, <2>5, <3>2 DEF Received
        <4>2. /\ e.type = "ack_delivered" => messages[m].delivered
              /\ e.type = "ack_read" => messages[m].read
          BY <2>2, <2>3, <3>2 DEF True
        <4>. QED
          BY <1>1, <2>3, <3>2, <4>1, <4>2 DEF TicksAreTrue
      <3>. QED
        BY <3>1, <3>2
    <2>. QED
      BY <1>1, <2>4, <2>6 DEF TicksAreTrue
  <1>4. ASSUME NEW c \in Conns, HandlerStep(c) \/ CatchupStep(c) PROVE UNCHANGED tick
    BY <1>4
    DEF HandlerStep, CatchupStep, SendMessageAck, RelayMessage, MarkDelivered,
        SendDeliveredAck, RelayRead, SendError, HandlerPanics, FlushQuery, FlushSend,
        FlushMark, FlushNotify, CatchupEnds
  <1>5. ASSUME NEW c \in Conns,
               \/ \E u \in Users : PersistMessage(c, u)
               \/ \E m \in Ids : MarkRead(c, m)
               \/ HandleOther(c) \/ HandlerPanics(c) \/ ClientConnects(c)
               \/ LoseSocket(c) \/ StopReading(c) \/ UnwindConn(c)
               \/ CrashOfPanic(c)
        PROVE  UNCHANGED tick
    BY <1>5
    DEF PersistMessage, MarkRead, HandleOther, HandlerPanics, ClientConnects, LoseSocket,
        StopReading, UnwindConn, CrashOfPanic, AllGone, deliveryVars
  <1>6. ASSUME (\E u \in Users : Chatter(u)) \/ Crash \/ UNCHANGED vars
        PROVE  UNCHANGED tick
    BY <1>6 DEF Chatter, Crash, AllGone, vars, deliveryVars
  <1>. QED
    BY <1>2, <1>3, <1>4, <1>5, <1>6 DEF Next

\* The ticks shown to a sender are backed by rows, in every run of the relay
\* with any number of restarts (messages.go:93-101, update.go:638-648).
THEOREM TicksTrue == DeliverySpec => []TicksAreTrue
  <1>1. DeliveryInit => TicksAreTrue
    BY DEF DeliveryInit, TicksAreTrue
  <1>2. TrueInv /\ TicksAreTrue /\ [Next]_vars => TicksAreTrue'
    BY TicksStep
  <1>. QED
    BY <1>1, <1>2, TrueInvHolds, PTL DEF DeliverySpec

-----------------------------------------------------------------------------
(* No message is stranded.                                                 *)

\* Who may still offer row m: the catch-up of connection d, or d's handler.
OffersRow(d, m) == catchup[d].pc = "query" \/ m \in catchup[d].todo
HandlesRow(d, m) == handler[d].msg = m /\ handler[d].pc \in {"ack", "route", "mark"}

\* A row stays pending when its recipient keeps its connection or loses it,
\* nobody who offers it lets go of it, and no panic is forgotten.
LEMMA StaysPending ==
  ASSUME HubInv, RowsKept, NEW m \in 1..Len(messages), messages[m].to \in Users, Pending(m),
         clients'[messages[m].to] \in {clients[messages[m].to], NoConn},
         \A d \in Conns : /\ Owner[d] = messages[m].to
                          /\ d \notin closed
                          /\ OffersRow(d, m)
                          => OffersRow(d, m)',
         \A d \in Conns : HandlesRow(d, m) => HandlesRow(d, m)',
         panicked # {} => panicked' # {}
  PROVE  Pending(m)'
  <1>. DEFINE u == messages[m].to
  <1>1. messages'[m].to = u
    BY DEF RowsKept
  <1>2. CASE clients'[u] = NoConn
    BY <1>1, <1>2 DEF Pending
  <1>3. CASE clients'[u] = clients[u] /\ clients[u] # NoConn
    <2>1. clients[u] \in Conns /\ Owner[clients[u]] = u /\ clients[u] \notin closed
      BY <1>3 DEF HubInv, HubTypeOK, RegisteredIsLive
    <2>2. CASE OffersRow(clients[u], m)
      BY <1>1, <1>3, <2>1, <2>2 DEF OffersRow, Pending
    <2>3. CASE \E d \in Conns : HandlesRow(d, m)
      BY <2>3 DEF HandlesRow, Pending
    <2>4. CASE panicked # {}
      BY <2>4 DEF Pending
    <2>. QED
      BY <1>3, <2>2, <2>3, <2>4 DEF Pending, OffersRow, HandlesRow
  <1>. QED
    BY <1>2, <1>3

\* Routing takes nobody's connection but the one it drops as slow
\* (hub.go:83-100).
LEMMA RouteOnlyDrops ==
  ASSUME HubTypeOK, NEW u \in Users, NEW e, Route(u, e), NEW v \in Users
  PROVE  clients'[v] \in {clients[v], NoConn}
  BY DEF HubTypeOK, Route, Unrouted, NoRoute, DropSlow, Enqueue

\* A row that is unmarked after a step was unmarked and pending before it.
LEMMA OldRowPending ==
  ASSUME TrueInv, NoStranded, RowsKept, NEW m \in 1..Len(messages), ~messages'[m].delivered
  PROVE  ~messages[m].delivered /\ Pending(m) /\ messages[m].to \in Users /\ m \in Ids
  <1>1. messages \in Seq(Row) /\ Len(messages) \in 0..MaxMsgs
    BY DEF TrueInv, DeliveryInv
  <1>2. messages[m] \in Row /\ m \in DOMAIN messages
    BY <1>1, ElementOfSeq
  <1>3. ~messages[m].delivered
    BY DEF RowsKept
  <1>. QED
    BY <1>1, <1>2, <1>3, DeliveryAssumption DEF NoStranded, Row, Ids

\* A handler's steps hand a row on until it is marked or its recipient is
\* gone from the hub (messages.go:50-101).
LEMMA HandlersKeepPending ==
  ASSUME TrueInv, NoStranded, RowsKept, ~DBFaults, NEW c \in Conns,
         NEW m \in 1..Len(messages), ~messages'[m].delivered,
         \/ \E u \in Users : PersistMessage(c, u)
         \/ \E n \in Ids : MarkRead(c, n)
         \/ HandlerStep(c)
         \/ HandlerPanics(c)
  PROVE  Pending(m)'
  <1>1. ~messages[m].delivered /\ Pending(m) /\ messages[m].to \in Users /\ m \in Ids
    BY OldRowPending
  <1>2. /\ HubInv /\ HubTypeOK
        /\ c \in DOMAIN handler
        /\ messages \in Seq(Row) /\ Len(messages) \in Nat
    BY DeliveryAssumption DEF TrueInv, HubInv, DeliveryInv
  <1>3. \A d \in Conns : OffersRow(d, m) => OffersRow(d, m)'
    <2>1. UNCHANGED catchup
      BY DEF PersistMessage, MarkRead, HandlerStep, SendMessageAck, RelayMessage,
             MarkDelivered, SendDeliveredAck, RelayRead, SendError, HandlerPanics
    <2>. QED
      BY <2>1 DEF OffersRow
  <1>4. ASSUME UNCHANGED <<clients, panicked>>,
               NEW h, handler' = [handler EXCEPT ![c] = h],
               HandlesRow(c, m) => h.msg = m /\ h.pc \in {"ack", "route", "mark"}
        PROVE  Pending(m)'
    <2>1. \A d \in Conns : HandlesRow(d, m) => HandlesRow(d, m)'
      BY <1>2, <1>4 DEF HandlesRow, TrueInv, DeliveryInv
    <2>. QED
      BY <1>1, <1>2, <1>3, <1>4, <2>1, StaysPending
  <1>5. ASSUME NEW u \in Users, PersistMessage(c, u) PROVE Pending(m)'
    BY <1>4, <1>5 DEF PersistMessage, Handling, HandlesRow, hubVars
  <1>6. ASSUME NEW n \in Ids, MarkRead(c, n) PROVE Pending(m)'
    BY <1>4, <1>6 DEF MarkRead, Handling, HandlesRow, hubVars
  <1>7. CASE SendMessageAck(c)
    BY <1>4, <1>7 DEF SendMessageAck, Reply, TrySend, Goto, HandlesRow
  <1>8. CASE RelayMessage(c)
    <2>. DEFINE n == handler[c].msg
    <2>1. /\ UNCHANGED <<messages, panicked>> /\ handler[c].pc = "route"
          /\ n \in 1..Len(messages)
      BY <1>8 DEF RelayMessage, Handling, TrueInv, DeliveryInv, HandlerAtRow
    <2>2. CASE Enqueue(messages[n].to, Env("message", n)) /\ Goto(c, "mark")
      BY <1>4, <2>1, <2>2 DEF Enqueue, Goto, HandlesRow
    <2>3. CASE Unrouted(messages[n].to) /\ Done(c)
      <3>1. messages[n].to \in Users
        <4>1. messages[n] \in Row
          BY <1>2, <2>1, ElementOfSeq
        <4>. QED
          BY <4>1 DEF Row
      <3>2. CASE n = m
        <4>1. clients'[messages[m].to] = NoConn
          BY <1>2, <2>3, <3>1, <3>2 DEF Unrouted, NoRoute, DropSlow, HubTypeOK
        <4>. QED
          BY <2>1, <4>1 DEF Pending
      <3>3. CASE n # m
        <4>1. \A d \in Conns : HandlesRow(d, m) => HandlesRow(d, m)'
          BY <1>2, <2>3, <3>3 DEF Done, HandlesRow, TrueInv, DeliveryInv
        <4>2. clients'[messages[m].to] \in {clients[messages[m].to], NoConn}
          BY <1>1, <1>2, <2>3, <3>1, RouteOnlyDrops DEF Route
        <4>. QED
          BY <1>1, <1>2, <1>3, <2>1, <4>1, <4>2, StaysPending
      <3>. QED
        BY <3>2, <3>3
    <2>. QED
      BY <1>8, <2>2, <2>3 DEF RelayMessage
  <1>9. CASE MarkDelivered(c)
    <2>1. /\ StoreMarkDelivered(handler[c].msg) /\ Goto(c, "notify")
          /\ UNCHANGED hubVars /\ handler[c].msg \in 1..Len(messages)
      BY <1>9 DEF MarkDelivered, Handling, TrueInv, DeliveryInv, HandlerAtRow
    <2>2. messages'[handler[c].msg].delivered
      BY <2>1, FlagsKeep DEF TrueInv
    <2>3. ~HandlesRow(c, m)
      BY <2>2 DEF HandlesRow
    <2>. QED
      BY <1>4, <2>1, <2>3 DEF Goto, hubVars
  <1>10. CASE SendDeliveredAck(c) \/ SendError(c)
    BY <1>4, <1>10 DEF SendDeliveredAck, SendError, Handling, Reply, TrySend, Done, HandlesRow
  <1>11. CASE RelayRead(c)
    <2>. DEFINE n == handler[c].msg
    <2>1. /\ UNCHANGED <<messages, panicked>> /\ handler[c].pc = "relay_read"
          /\ n \in 1..Len(messages)
          /\ Route(messages[n].from, Env("ack_read", n)) /\ Done(c)
      BY <1>11 DEF RelayRead, Handling, TrueInv, DeliveryInv, HandlerAtRow
    <2>2. messages[n].from \in Users
      <3>1. messages[n] \in Row
        BY <1>2, <2>1, ElementOfSeq
      <3>. QED
        BY <3>1 DEF Row
    <2>3. clients'[messages[m].to] \in {clients[messages[m].to], NoConn}
      BY <1>1, <1>2, <2>1, <2>2, RouteOnlyDrops
    <2>4. \A d \in Conns : HandlesRow(d, m) => HandlesRow(d, m)'
      BY <1>2, <2>1 DEF Done, HandlesRow, TrueInv, DeliveryInv
    <2>. QED
      BY <1>1, <1>2, <1>3, <2>1, <2>3, <2>4, StaysPending
  <1>12. CASE HandlerPanics(c)
    BY <1>12 DEF HandlerPanics, ReaderPanics, Pending
  <1>. QED
    BY <1>5, <1>6, <1>7, <1>8, <1>9, <1>10, <1>11, <1>12 DEF HandlerStep

\* The catch-up finds every unmarked row of its user, and lets go of one
\* only when it is marked or its own outbox is closed (messages.go:216-255).
LEMMA CatchupKeepsPending ==
  ASSUME TrueInv, NoStranded, RowsKept, ~DBFaults, NEW c \in Conns,
         NEW m \in 1..Len(messages), ~messages'[m].delivered, CatchupStep(c)
  PROVE  Pending(m)'
  <1>1. ~messages[m].delivered /\ Pending(m) /\ messages[m].to \in Users /\ m \in Ids
    BY OldRowPending
  <1>2. /\ HubInv /\ HubTypeOK
        /\ c \in DOMAIN catchup
        /\ messages \in Seq(Row) /\ Len(messages) \in Nat
        /\ m \in DOMAIN messages
    BY DeliveryAssumption DEF TrueInv, HubInv, DeliveryInv
  <1>3. \A d \in Conns : HandlesRow(d, m) => HandlesRow(d, m)'
    <2>1. UNCHANGED handler
      BY DEF CatchupStep, FlushQuery, FlushSend, FlushMark, FlushNotify, CatchupEnds
    <2>. QED
      BY <2>1 DEF HandlesRow
  <1>4. ASSUME clients'[messages[m].to] \in {clients[messages[m].to], NoConn},
               UNCHANGED panicked,
               NEW k, catchup' = [catchup EXCEPT ![c] = k],
               Owner[c] = messages[m].to /\ c \notin closed /\ OffersRow(c, m)
               => k.pc = "query" \/ m \in k.todo
        PROVE  Pending(m)'
    <2>1. \A d \in Conns : /\ Owner[d] = messages[m].to
                           /\ d \notin closed
                           /\ OffersRow(d, m)
                           => OffersRow(d, m)'
      BY <1>2, <1>4 DEF OffersRow, TrueInv, DeliveryInv
    <2>. QED
      BY <1>1, <1>2, <1>3, <1>4, <2>1, StaysPending
  <1>5. CASE FlushQuery(c)
    <2>1. catchup' = [catchup EXCEPT ![c] = [pc |-> "send", todo |-> Undelivered(Owner[c])]]
      BY <1>5 DEF FlushQuery
    <2>. QED
      BY <1>1, <1>2, <1>4, <1>5, <2>1 DEF FlushQuery, hubVars, Undelivered
  <1>6. CASE FlushSend(c)
    BY <1>4, <1>6 DEF FlushSend, Replay, Reply, TrySend, OffersRow
  <1>7. CASE FlushMark(c)
    <2>1. Replay(c, "notify") /\ UNCHANGED hubVars /\ catchup[c].pc = "mark"
      BY <1>7 DEF FlushMark
    <2>. QED
      BY <1>4, <2>1 DEF Replay, OffersRow, hubVars
  <1>8. CASE FlushNotify(c)
    <2>1. PICK n \in Ids : /\ Oldest(c, n)
                           /\ Route(messages[n].from, Env("ack_delivered", n))
                           /\ NextRow(c, n)
      BY <1>8 DEF FlushNotify
    <2>2. n \in 1..Len(messages) /\ messages[n].delivered
      BY <1>8, <2>1 DEF FlushNotify, Oldest, TrueInv, DeliveryInv, CatchupAtRow, CatchupType
    <2>3. messages[n].from \in Users /\ n # m
      <3>1. messages[n] \in Row
        BY <1>2, <2>2, ElementOfSeq
      <3>. QED
        BY <1>1, <2>2, <3>1 DEF Row
    <2>4. clients'[messages[m].to] \in {clients[messages[m].to], NoConn}
      BY <1>1, <1>2, <2>1, <2>3, RouteOnlyDrops
    <2>. QED
      BY <1>4, <1>8, <2>1, <2>3, <2>4 DEF FlushNotify, NextRow, OffersRow
  <1>9. CASE CatchupEnds(c)
    <2>1. c \in closed \/ ~OffersRow(c, m)
      BY <1>9 DEF CatchupEnds, OffersRow
    <2>. QED
      BY <1>4, <1>9, <2>1 DEF CatchupEnds, ServeEnds
  <1>. QED
    BY <1>5, <1>6, <1>7, <1>8, <1>9 DEF CatchupStep

\* A new connection asks for the backlog before anything else; one that goes
\* leaves the rows to the next (client.go:94-122, 176-218).
LEMMA ConnectionsKeepPending ==
  ASSUME TrueInv, NoStranded, RowsKept, NEW c \in Conns,
         NEW m \in 1..Len(messages), ~messages'[m].delivered,
         \/ HandleOther(c) \/ ClientConnects(c) \/ LoseSocket(c) \/ StopReading(c)
         \/ UnwindConn(c) \/ Deliver(c) \/ (\E u \in Users : Chatter(u))
  PROVE  Pending(m)'
  <1>1. ~messages[m].delivered /\ Pending(m) /\ messages[m].to \in Users /\ m \in Ids
    BY OldRowPending
  <1>2. HubInv /\ HubTypeOK
    BY DEF TrueInv, HubInv
  <1>3. UNCHANGED handler
    BY DEF HandleOther, ClientConnects, LoseSocket, StopReading, UnwindConn, Deliver,
           Chatter, deliveryVars
  <1>4. \A d \in Conns : HandlesRow(d, m) => HandlesRow(d, m)'
    BY <1>3 DEF HandlesRow
  <1>5. CASE ClientConnects(c)
    <2>1. /\ clients' = [clients EXCEPT ![Owner[c]] = c] /\ Owner[c] \in Users
          /\ catchup' = [catchup EXCEPT ![c] = [pc |-> "query", todo |-> {}]]
          /\ UNCHANGED <<messages, panicked>>
      BY <1>5, HubAssumption DEF ClientConnects, Connect, Register
    <2>2. c \in DOMAIN catchup
      BY DEF TrueInv, DeliveryInv
    <2>3. CASE messages[m].to = Owner[c]
      BY <1>2, <2>1, <2>2, <2>3 DEF Pending, HubTypeOK
    <2>4. CASE messages[m].to # Owner[c]
      <3>1. clients'[messages[m].to] = clients[messages[m].to]
        BY <1>1, <1>2, <2>1, <2>4 DEF HubTypeOK
      <3>2. \A d \in Conns : OffersRow(d, m) => OffersRow(d, m)'
        BY <2>1, <2>2 DEF OffersRow, TrueInv, DeliveryInv
      <3>. QED
        BY <1>1, <1>2, <1>4, <2>1, <3>1, <3>2, StaysPending
    <2>. QED
      BY <2>3, <2>4
  <1>6. ASSUME clients'[messages[m].to] \in {clients[messages[m].to], NoConn},
               UNCHANGED <<catchup, panicked>>
        PROVE  Pending(m)'
    BY <1>1, <1>2, <1>4, <1>6, StaysPending DEF OffersRow
  <1>7. CASE HandleOther(c) \/ LoseSocket(c) \/ StopReading(c) \/ Deliver(c)
    BY <1>6, <1>7 DEF HandleOther, Reply, TrySend, LoseSocket, SocketFails, StopReading,
                      ReadFails, Deliver, WriterSends, deliveryVars
  <1>8. CASE UnwindConn(c)
    <2>1. clients'[messages[m].to] \in {clients[messages[m].to], NoConn}
      BY <1>1, <1>2, <1>8 DEF UnwindConn, Unregister, HubUnregister, ReaderReturns,
                              WriterSeesClose, PingFails, HubTypeOK
    <2>. QED
      BY <1>6, <1>8, <2>1 DEF UnwindConn, Unregister, ReaderReturns, WriterSeesClose,
                              PingFails, deliveryVars
  <1>9. ASSUME NEW u \in Users, Chatter(u) PROVE Pending(m)'
    BY <1>1, <1>2, <1>6, <1>9, RouteOnlyDrops DEF Chatter, Relay
  <1>. QED
    BY <1>5, <1>7, <1>8, <1>9

\* Only an INSERT adds a row, and its handler has the row in hand
\* (messages.go:50-58).
LEMMA NewRowPending ==
  ASSUME TrueInv, ~DBFaults, [Next]_vars,
         NEW m \in 1..Len(messages'), m \notin 1..Len(messages)
  PROVE  Pending(m)'
  <1>1. Len(messages) \in Nat /\ messages \in Seq(Row) /\ DOMAIN handler = Conns
    BY DeliveryAssumption DEF TrueInv, DeliveryInv
  <1>2. Len(messages') # Len(messages)
    BY <1>1
  <1>3. ASSUME NEW c \in Conns, NEW u \in Users, PersistMessage(c, u) PROVE Pending(m)'
    <2>1. m = Len(messages) + 1
      BY <1>1, <1>3, InsertKeeps DEF TrueInv
    <2>2. handler' = [handler EXCEPT ![c] = [pc |-> "ack", msg |-> Len(messages) + 1]]
      BY <1>3 DEF PersistMessage
    <2>. QED
      BY <1>1, <2>1, <2>2 DEF Pending
  <1>4. ASSUME NEW c \in Conns, (\E n \in Ids : MarkRead(c, n)) \/ MarkDelivered(c) \/ FlushMark(c)
        PROVE  FALSE
    <2>1. PICK n \in 1..Len(messages) :
               StoreMarkDelivered(n) \/ StoreMarkRead(n)
      BY <1>4 DEF MarkRead, MarkDelivered, Handling, FlushMark, Oldest, TrueInv, DeliveryInv,
                  HandlerAtRow, CatchupAtRow, CatchupType
    <2>. QED
      BY <1>2, <2>1, FlagsKeep DEF TrueInv
  <1>5. ASSUME NEW c \in Conns,
               \/ SendMessageAck(c) \/ RelayMessage(c) \/ SendDeliveredAck(c)
               \/ RelayRead(c) \/ SendError(c) \/ HandlerPanics(c)
               \/ FlushQuery(c) \/ FlushSend(c) \/ FlushNotify(c) \/ CatchupEnds(c)
               \/ HandleOther(c) \/ ClientConnects(c) \/ LoseSocket(c)
               \/ StopReading(c) \/ UnwindConn(c) \/ Deliver(c) \/ CrashOfPanic(c)
        PROVE  FALSE
    <2>1. UNCHANGED messages
      BY <1>5
      DEF SendMessageAck, RelayMessage, SendDeliveredAck, RelayRead, SendError,
          HandlerPanics, FlushQuery, FlushSend, FlushNotify, CatchupEnds, HandleOther,
          ClientConnects, LoseSocket, StopReading, UnwindConn, Deliver, CrashOfPanic,
          AllGone, deliveryVars
    <2>. QED
      BY <1>2, <2>1
  <1>6. ~((\E u \in Users : Chatter(u)) \/ Crash \/ UNCHANGED vars)
    BY <1>2 DEF Chatter, Crash, AllGone, vars, deliveryVars
  <1>. QED
    BY <1>3, <1>4, <1>5, <1>6 DEF Next, HandlerStep, CatchupStep

\* Every step keeps all unmarked rows in somebody's hands.
LEMMA NoStrandedStep ==
  ASSUME TrueInv, NoStranded, ~DBFaults, [Next]_vars
  PROVE  NoStranded'
  <1>1. RowsKept
    BY NextKeepsRows DEF TrueInv
  <1>2. SUFFICES ASSUME NEW m \in 1..Len(messages'), ~messages'[m].delivered
                 PROVE  Pending(m)'
    BY <1>1 DEF NoStranded, RowsKept
  <1>3. CASE m \notin 1..Len(messages)
    BY <1>2, <1>3, NewRowPending
  <1>4. CASE m \in 1..Len(messages)
    <2>1. ASSUME NEW c \in Conns,
                 \/ \E u \in Users : PersistMessage(c, u)
                 \/ \E n \in Ids : MarkRead(c, n)
                 \/ HandlerStep(c) \/ HandlerPanics(c)
          PROVE  Pending(m)'
      BY <1>1, <1>2, <1>4, <2>1, HandlersKeepPending
    <2>2. ASSUME NEW c \in Conns, CatchupStep(c) PROVE Pending(m)'
      BY <1>1, <1>2, <1>4, <2>2, CatchupKeepsPending
    <2>3. ASSUME NEW c \in Conns,
                 \/ HandleOther(c) \/ ClientConnects(c) \/ LoseSocket(c) \/ StopReading(c)
                 \/ UnwindConn(c) \/ Deliver(c) \/ (\E u \in Users : Chatter(u))
          PROVE  Pending(m)'
      BY <1>1, <1>2, <1>4, <2>3, ConnectionsKeepPending
    <2>4. ASSUME NEW u \in Users, Chatter(u) PROVE Pending(m)'
      BY <2>3, <2>4 DEF Chatter, Relay
    <2>5. ASSUME Restart, UNCHANGED messages PROVE Pending(m)'
      <3>1. messages[m].to \in Users
        BY <1>1, <1>2, <1>4, OldRowPending
      <3>. QED
        BY <2>5, <3>1 DEF Restart, Pending
    <2>6. CASE UNCHANGED vars
      <3>1. Pending(m)
        BY <1>1, <1>2, <1>4, OldRowPending
      <3>. QED
        BY <2>6, <3>1 DEF Pending, vars, hubVars, deliveryVars
    <2>. QED
      BY <2>1, <2>2, <2>3, <2>4, <2>5, <2>6
      DEF Next, Crash, CrashOfPanic, PanicCrashes, AllGone
  <1>. QED
    BY <1>3, <1>4

\* As long as the database answers, an undelivered row whose recipient is
\* connected is always in the hands of a handler or of the catch-up, in
\* every interleaving of persisting, registering, querying and routing, with
\* slow outboxes, lost sockets, panics and restarts (messages.go:50-101,
\* 214-255, client.go:106-113).  A statement that fails leaves its row for the
\* next connection, hence the hypothesis.
THEOREM NothingStranded ==
  ASSUME ~DBFaults
  PROVE  DeliverySpec => []NoStranded
  <1>1. DeliveryInit => NoStranded
    BY DEF DeliveryInit, NoStranded
  <1>2. TrueInv /\ NoStranded /\ [Next]_vars => NoStranded'
    BY NoStrandedStep
  <1>. QED
    BY <1>1, <1>2, TrueInvHolds, PTL DEF DeliverySpec
=============================================================================
