------------------------------ MODULE Delivery ------------------------------
(***************************************************************************)
(* Message delivery on top of the hub: persist, acknowledge, relay, mark   *)
(* (handleMessage), read receipts (handleAckRead) and the catch-up of a    *)
(* new connection (flushOfflineMessages), all of server/messages.go, with  *)
(* the messages table of server/store/store.go and the ticks of the        *)
(* sending client (client/events.go, client/update.go).                    *)
(*                                                                         *)
(* readPump handles one frame at a time, so `handler` says how far each    *)
(* connection's readPump is inside a handler; `catchup` says the same of   *)
(* serveWS.  A step is one database statement, one channel operation or    *)
(* one rendezvous with the hub, and everything else may run in between.    *)
(*                                                                         *)
(* The database has one connection and survives a restart.  A message is   *)
(* its row; ids are handed out in order, which is also the order of        *)
(* sent_at.  A user runs one client, which connects again when its socket  *)
(* is gone and keeps its ticks meanwhile.                                  *)
(***************************************************************************)
EXTENDS Hub

CONSTANTS
  Senders,    \* bound: the users that send messages
  MaxMsgs,    \* bound: messages ever sent
  Flaky,      \* bound: the users whose sockets may fail
  NoiseKinds, \* bound: what may disturb delivery, "socket" failures,
              \* "crash"es and "frames" of other kinds ...
  MaxNoise,   \* ... and how often
  DBFaults    \* whether a database statement may fail

ASSUME DeliveryAssumption ==
  /\ Senders \subseteq Users /\ Flaky \subseteq Users
  /\ MaxMsgs \in Nat \ {0}
  /\ NoiseKinds \subseteq {"socket", "crash", "frames"}
  /\ MaxNoise \in Nat
  /\ DBFaults \in BOOLEAN

Ids == 1..MaxMsgs

\* Envelopes by what the properties tell apart: "other" stands for presence,
\* typing, contact, history and error frames.
Env(t, m) == [type |-> t, id |-> m]
Other == Env("other", 0)
DeliveryEnvelope ==
  {Other} \cup [type : {"message", "message_ack", "ack_delivered", "ack_read"}, id : Ids]

ASSUME EnvelopeAssumption == Envelope = DeliveryEnvelope

VARIABLES
  messages, \* table messages: row i has id i
  handler,  \* the handler readPump is in, and its message
  catchup,  \* serveWS: what it does next and the messages it has to replay
  tick,     \* the sending client's tick; "none" until message_ack
  noise     \* what is left of MaxNoise

deliveryVars == <<messages, handler, catchup, tick, noise>>
vars == <<hubVars, deliveryVars>>

Row == [from : Users, to : Users, delivered : BOOLEAN, read : BOOLEAN]
IdleHandler == [pc |-> "idle", msg |-> 0]
NoCatchup == [pc |-> "none", todo |-> {}]

DeliveryTypeOK ==
  /\ messages \in Seq(Row) /\ Len(messages) <= MaxMsgs
  /\ handler \in [Conns -> [pc : {"idle", "ack", "route", "mark", "notify", "relay_read", "error"},
                            msg : 0..Len(messages)]]
  /\ catchup \in [Conns -> [pc : {"none", "query", "send", "mark", "notify"},
                            todo : SUBSET (1..Len(messages))]]
  /\ tick \in [Ids -> {"none", "sent", "delivered", "read"}]
  /\ noise \in 0..MaxNoise

DeliveryInit ==
  /\ HubInit
  /\ messages = <<>>
  /\ handler = [c \in Conns |-> IdleHandler]
  /\ catchup = [c \in Conns |-> NoCatchup]
  /\ tick = [m \in Ids |-> "none"]
  /\ noise = MaxNoise

Handling(c, pc) == reader[c] = "reading" /\ handler[c].pc = pc
Goto(c, pc) == handler' = [handler EXCEPT ![c] = [pc |-> pc, msg |-> @.msg]]
Done(c) == handler' = [handler EXCEPT ![c] = IdleHandler]
Replay(c, pc) == catchup' = [catchup EXCEPT ![c] = [pc |-> pc, todo |-> @.todo]]
Noise(kind) == kind \in NoiseKinds /\ noise > 0 /\ noise' = noise - 1
Undelivered(u) == {m \in DOMAIN messages : messages[m].to = u /\ ~messages[m].delivered}

\* Store.MarkDelivered and Store.MarkRead.
StoreMarkDelivered(m) ==
  messages' = [messages EXCEPT ![m] = [@ EXCEPT !.delivered = TRUE]]
StoreMarkRead(m) ==
  messages' = [messages EXCEPT ![m] = [@ EXCEPT !.delivered = TRUE, !.read = TRUE]]

-----------------------------------------------------------------------------
(* handleMessage, on the sender's readPump.                                *)

\* Mutant of PersistMessage: the handler goes on with the wrong id.
PersistOffByOne(c, u) ==
  /\ Handling(c, "idle")
  /\ Owner[c] \in Senders
  /\ u # Owner[c]
  /\ Len(messages) < MaxMsgs
  /\ messages' = Append(messages, [from |-> Owner[c], to |-> u,
                                   delivered |-> FALSE, read |-> FALSE])
  /\ handler' = [handler EXCEPT ![c] = [pc |-> "ack", msg |-> Len(messages) + 2]]
  /\ UNCHANGED <<hubVars, catchup, tick, noise>>

\* insertMessage.  When reading the row back fails the row stays, but the
\* handler gives up with an error envelope.
PersistMessage(c, u) ==
  /\ Handling(c, "idle")
  /\ Owner[c] \in Senders
  /\ u # Owner[c]
  /\ Len(messages) < MaxMsgs
  /\ messages' = Append(messages, [from |-> Owner[c], to |-> u,
                                   delivered |-> FALSE, read |-> FALSE])
  /\ \/ handler' = [handler EXCEPT ![c] = [pc |-> "ack", msg |-> Len(messages) + 1]]
     \/ DBFaults /\ Goto(c, "error")
  /\ UNCHANGED <<hubVars, catchup, tick, noise>>

SendMessageAck(c) ==
  /\ Handling(c, "ack")
  /\ Reply(c, Env("message_ack", handler[c].msg))
  /\ Goto(c, "route")
  /\ UNCHANGED <<messages, catchup, tick, noise>>

\* hub.route with the delivered channel, and the answer read from it.
RelayMessage(c) ==
  /\ Handling(c, "route")
  /\ LET m == handler[c].msg IN
       \/ /\ Enqueue(messages[m].to, Env("message", m))
          /\ Goto(c, "mark")
       \/ /\ Unrouted(messages[m].to)
          /\ Done(c)
  /\ UNCHANGED <<reader, writer, panicked, serving, up, messages, catchup, tick, noise>>

\* Mutant of MarkDelivered: the sender is told although the update failed.
MarkOrNot(c) ==
  /\ Handling(c, "mark")
  /\ \/ StoreMarkDelivered(handler[c].msg)
     \/ DBFaults /\ UNCHANGED messages
  /\ Goto(c, "notify")
  /\ UNCHANGED <<hubVars, catchup, tick, noise>>

MarkDelivered(c) ==
  /\ Handling(c, "mark")
  /\ \/ /\ StoreMarkDelivered(handler[c].msg)
        /\ Goto(c, "notify")
     \/ /\ DBFaults
        /\ Done(c)
        /\ UNCHANGED messages
  /\ UNCHANGED <<hubVars, catchup, tick, noise>>

SendDeliveredAck(c) ==
  /\ Handling(c, "notify")
  /\ Reply(c, Env("ack_delivered", handler[c].msg))
  /\ Done(c)
  /\ UNCHANGED <<messages, catchup, tick, noise>>

-----------------------------------------------------------------------------
(* handleAckRead, on the recipient's readPump.                             *)

\* MarkRead.  The client may have the message from the relay, the catch-up
\* or a page of history, and acknowledges it until the row says read.
MarkRead(c, m) ==
  /\ Handling(c, "idle")
  /\ m \in DOMAIN messages
  /\ messages[m].to = Owner[c]
  /\ ~messages[m].read
  /\ StoreMarkRead(m)
  /\ handler' = [handler EXCEPT ![c] = [pc |-> "relay_read", msg |-> m]]
  /\ UNCHANGED <<hubVars, catchup, tick, noise>>

\* GetUserByID may fail; then the sender is not told.
RelayRead(c) ==
  /\ Handling(c, "relay_read")
  /\ \/ Route(messages[handler[c].msg].from, Env("ack_read", handler[c].msg))
     \/ DBFaults /\ UNCHANGED <<clients, outbox, closed>>
  /\ Done(c)
  /\ UNCHANGED <<reader, writer, panicked, serving, up, messages, catchup, tick, noise>>

-----------------------------------------------------------------------------
(* flushOfflineMessages, on the recipient's serveWS.                       *)

\* UndeliveredMessagesFor; a failing query ends the catch-up.
FlushQuery(c) ==
  /\ catchup[c].pc = "query"
  /\ \E pending \in {Undelivered(Owner[c])} \cup (IF DBFaults THEN {{}} ELSE {}) :
       catchup' = [catchup EXCEPT ![c] = [pc |-> "send", todo |-> pending]]
  /\ UNCHANGED <<hubVars, messages, handler, tick, noise>>

\* The oldest of the rows read is next.
Oldest(c, m) == m \in catchup[c].todo /\ \A n \in catchup[c].todo : m <= n

FlushSend(c) ==
  /\ catchup[c].pc = "send"
  /\ \E m \in Ids : /\ Oldest(c, m)
                    /\ Reply(c, Env("message", m))
  /\ Replay(c, "mark")
  /\ UNCHANGED <<messages, handler, tick, noise>>

NextRow(c, m) == catchup' = [catchup EXCEPT ![c] = [pc |-> "send", todo |-> @.todo \ {m}]]

FlushMark(c) ==
  /\ catchup[c].pc = "mark"
  /\ \E m \in Ids : /\ Oldest(c, m)
                    /\ \/ /\ StoreMarkDelivered(m)
                          /\ Replay(c, "notify")
                       \/ /\ DBFaults
                          /\ NextRow(c, m)
                          /\ UNCHANGED messages
  /\ UNCHANGED <<hubVars, handler, tick, noise>>

FlushNotify(c) ==
  /\ catchup[c].pc = "notify"
  /\ \E m \in Ids : /\ Oldest(c, m)
                    /\ \/ Route(messages[m].from, Env("ack_delivered", m))
                       \/ DBFaults /\ UNCHANGED <<clients, outbox, closed>>
                    /\ NextRow(c, m)
  /\ UNCHANGED <<reader, writer, panicked, serving, up, messages, handler, tick, noise>>

\* All rows are replayed, or a trySend on the closed outbox panics: of the
\* contact list before the query, or of a replayed message.
CatchupEnds(c) ==
  /\ \/ catchup[c].pc = "send" /\ catchup[c].todo = {}
     \/ catchup[c].pc \in {"query", "send"} /\ c \in closed
  /\ ServeEnds(c)
  /\ catchup' = [catchup EXCEPT ![c] = NoCatchup]
  /\ UNCHANGED <<messages, handler, tick, noise>>

-----------------------------------------------------------------------------
(* The rest of a connection's life, with the hub's steps.                  *)

\* The "internal error" reply of a handler that gives up.
SendError(c) ==
  /\ Handling(c, "error")
  /\ Reply(c, Other)
  /\ Done(c)
  /\ UNCHANGED <<messages, catchup, tick, noise>>

\* A frame that is rejected, or answered with a page of history.
HandleOther(c) ==
  /\ Handling(c, "idle")
  /\ Noise("frames")
  /\ Reply(c, Other)
  /\ UNCHANGED <<messages, handler, catchup, tick>>

\* Presence, typing and contact frames routed by any connection.
Chatter(u) ==
  /\ Noise("frames")
  /\ Relay(u, Other)
  /\ UNCHANGED <<messages, handler, catchup, tick>>

\* Mutant of ClientConnects: a connection that takes over skips the catch-up.
TakesOver(c) ==
  /\ \A d \in up : Owner[d] # Owner[c]
  /\ Connect(c)
  /\ catchup' = [catchup EXCEPT ![c] =
       [pc |-> IF clients[Owner[c]] = NoConn THEN "query" ELSE "none", todo |-> {}]]
  /\ UNCHANGED <<messages, handler, tick, noise>>

\* A user's client dials only when it has no working socket.
ClientConnects(c) ==
  /\ \A d \in up : Owner[d] # Owner[c]
  /\ Connect(c)
  /\ catchup' = [catchup EXCEPT ![c] = [pc |-> "query", todo |-> {}]]
  /\ UNCHANGED <<messages, handler, tick, noise>>

LoseSocket(c) ==
  /\ Noise("socket")
  /\ Owner[c] \in Flaky
  /\ SocketFails(c)
  /\ UNCHANGED <<messages, handler, catchup, tick>>

\* readPump asks for the next frame only between handlers.
StopReading(c) ==
  /\ Handling(c, "idle")
  /\ ReadFails(c)
  /\ UNCHANGED deliveryVars

\* Mutant of HandlerPanics: the panic is recovered and readPump just returns.
HandlerRecovers(c) ==
  /\ handler[c].pc \in {"ack", "notify", "error"}
  /\ reader[c] = "reading" /\ c \in closed
  /\ reader' = [reader EXCEPT ![c] = "idle"]
  /\ UNCHANGED <<clients, outbox, closed, writer, panicked, serving, up>>
  /\ Done(c)
  /\ UNCHANGED <<messages, catchup, tick, noise>>

\* The handler's trySend hits the closed outbox.
HandlerPanics(c) ==
  /\ \/ handler[c].pc \in {"ack", "notify", "error"} /\ UNCHANGED noise
     \/ handler[c].pc = "idle" /\ Noise("frames")
  /\ ReaderPanics(c)
  /\ Done(c)
  /\ UNCHANGED <<messages, catchup, tick>>

UnwindConn(c) ==
  /\ Unregister(c) \/ ReaderReturns(c) \/ WriterSeesClose(c) \/ PingFails(c)
  /\ UNCHANGED deliveryVars

\* handleMessageAck attaches the id; markTick sets a tick only on a message
\* whose id is known, and overwrites what was there.
Received(e) ==
  CASE e.type = "message_ack" -> [tick EXCEPT ![e.id] = "sent"]
    [] e.type = "ack_delivered" /\ tick[e.id] # "none" -> [tick EXCEPT ![e.id] = "delivered"]
    [] e.type = "ack_read" /\ tick[e.id] # "none" -> [tick EXCEPT ![e.id] = "read"]
    [] OTHER -> tick

\* What is written to a working socket reaches the client.
Deliver(c) ==
  /\ WriterSends(c)
  /\ tick' = IF c \in up THEN Received(Head(outbox[c])) ELSE tick
  /\ UNCHANGED <<messages, handler, catchup, noise>>

\* Mutant of AllGone: a restart that loses the rows.
RowsGone ==
  /\ handler' = [c \in Conns |-> IdleHandler]
  /\ catchup' = [c \in Conns |-> NoCatchup]
  /\ messages' = <<>>
  /\ UNCHANGED tick

\* The goroutines die with the process, the rows stay.
AllGone ==
  /\ handler' = [c \in Conns |-> IdleHandler]
  /\ catchup' = [c \in Conns |-> NoCatchup]
  /\ UNCHANGED <<messages, tick>>

Crash == Noise("crash") /\ Restart /\ AllGone

CrashOfPanic(c) == PanicCrashes(c) /\ AllGone /\ UNCHANGED noise

HandlerStep(c) ==
  \/ SendMessageAck(c)
  \/ RelayMessage(c)
  \/ MarkDelivered(c)
  \/ SendDeliveredAck(c)
  \/ RelayRead(c)
  \/ SendError(c)
  \/ handler[c].pc # "idle" /\ HandlerPanics(c)

CatchupStep(c) ==
  FlushQuery(c) \/ FlushSend(c) \/ FlushMark(c) \/ FlushNotify(c) \/ CatchupEnds(c)

Next ==
  \/ \E c \in Conns :
       \/ \E u \in Users : PersistMessage(c, u)
       \/ \E m \in Ids : MarkRead(c, m)
       \/ HandleOther(c)
       \/ HandlerPanics(c)
       \/ HandlerStep(c)
       \/ CatchupStep(c)
       \/ ClientConnects(c)
       \/ LoseSocket(c)
       \/ StopReading(c)
       \/ UnwindConn(c)
       \/ Deliver(c)
       \/ CrashOfPanic(c)
  \/ \E u \in Users : Chatter(u)
  \/ Crash

DeliverySpec == DeliveryInit /\ [][Next]_vars

\* Goroutines that can move do, and a client without a socket keeps dialling
\* (client/network.go:27-49).  Nobody is made to send, read or fail.
Fairness ==
  /\ \A c \in Conns : /\ WF_vars(HandlerStep(c))
                      /\ WF_vars(CatchupStep(c))
                      /\ WF_vars(StopReading(c))
                      /\ WF_vars(Unregister(c) /\ UNCHANGED deliveryVars)
                      /\ WF_vars(ReaderReturns(c) /\ UNCHANGED deliveryVars)
                      /\ WF_vars(CrashOfPanic(c))
                      /\ WF_vars(Deliver(c))
                      /\ WF_vars((WriterSeesClose(c) \/ PingFails(c)) /\ UNCHANGED deliveryVars)
  /\ \A u \in Users : WF_vars(\E c \in Conns : Owner[c] = u /\ ClientConnects(c))

DeliveryFairSpec == DeliverySpec /\ Fairness

-----------------------------------------------------------------------------
(* Properties.                                                             *)

\* Every delivery step is a step of the hub and its connections, or leaves
\* them alone: the composition takes no liberty with channels, goroutines
\* or sockets (messages.go only ever uses hub.route and trySend).
ImplementsHub == HubSafeSpec

\* Envelopes are true and reach the right user: a message goes to its
\* recipient only, the sender alone is told, and never of a delivery or a
\* reading the database does not know, even across restarts
\* (messages.go:93-101, 139-154, 240-254).
AcksAreTrue ==
  \A c \in Conns : \A i \in 1..Len(outbox[c]) :
    LET e == outbox[c][i] IN e # Other =>
      /\ e.id \in DOMAIN messages
      /\ e.type = "message" => messages[e.id].to = Owner[c]
      /\ e.type # "message" => messages[e.id].from = Owner[c]
      /\ e.type = "ack_delivered" => messages[e.id].delivered
      /\ e.type = "ack_read" => messages[e.id].read

\* The ticks a sender sees are backed by rows that survive the relay
\* (update.go:638-648).
TicksAreTrue ==
  \A m \in Ids :
    /\ tick[m] # "none" => m \in DOMAIN messages
    /\ tick[m] = "delivered" => messages[m].delivered
    /\ tick[m] = "read" => messages[m].read /\ messages[m].delivered

\* Somebody is still going to offer message m to its recipient.
Pending(m) ==
  LET u == messages[m].to
      c == clients[u]
  IN  \/ c = NoConn    \* the next connection's catch-up finds the row
      \/ catchup[c].pc = "query"
      \/ m \in catchup[c].todo
      \/ \E d \in Conns : handler[d].msg = m /\ handler[d].pc \in {"ack", "route", "mark"}
      \/ panicked # {} \* the relay is going down

\* No message is stranded: while its recipient is connected, an undelivered
\* row is always in the hands of a handler or of the catch-up, whatever
\* order persisting, registering, querying and routing happen in
\* ("delivered=false in messages *is* the queue", messages.go:214-215).
NoStranded ==
  \A m \in DOMAIN messages : ~messages[m].delivered => Pending(m)

\* Every persisted message is eventually marked delivered once faults stop
\* and its recipient keeps reconnecting ("flushed on next connect",
\* messages.go:90).
EventuallyDelivered ==
  \A m \in Ids : m \in DOMAIN messages ~> (m \in DOMAIN messages /\ messages[m].delivered)

-----------------------------------------------------------------------------
(* What the documentation says and the code does not keep.                 *)

\* "closing its outbox lets its pumps unwind on their own" (hub.go:67): a
\* handler that replies after the hub has closed its outbox does not take
\* the relay down.
PumpsJustUnwind == panicked = {}
=============================================================================
