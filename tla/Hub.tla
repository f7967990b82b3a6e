-------------------------------- MODULE Hub --------------------------------
(***************************************************************************)
(* The relay's hub (server/hub.go) and the life of one connection around   *)
(* it (server/client.go): registration, the two pumps, the outbox channel  *)
(* between them and the hub, and the ways a connection ends.               *)
(*                                                                         *)
(* A member of Conns is one *Client value.  Its goroutines are serveWS     *)
(* (the set `serving`), readPump (`reader`) and writePump (`writer`); once *)
(* all three have returned nothing refers to the value any more and the    *)
(* model hands it to the next connection of the same user.                 *)
(*                                                                         *)
(* The hub's channels register, unregister, route and presence are         *)
(* unbuffered, so one step of the model is one rendezvous: a goroutine's   *)
(* send together with the body of the hub's select case.                   *)
(***************************************************************************)
EXTENDS Integers, Sequences

CONSTANTS
  Users,       \* usernames
  Conns,       \* *Client values
  Owner,       \* Client.username
  OutboxSize,  \* capacity of Client.outbox
  Envelope,    \* what may be put in an outbox
  NoConn       \* "no entry" in the hub's map

ASSUME HubAssumption ==
  /\ Owner \in [Conns -> Users]
  /\ OutboxSize \in Nat \ {0}
  /\ NoConn \notin Conns

VARIABLES
  clients,  \* Hub.clients: username -> *Client
  outbox,   \* contents of each Client.outbox
  closed,   \* connections whose outbox channel has been closed
  reader,   \* where each readPump is
  writer,   \* where each writePump is
  panicked, \* readPumps that unwind from a panic
  serving,  \* connections whose serveWS goroutine still runs
  up        \* connections whose socket works in both directions

hubVars == <<clients, outbox, closed, reader, writer, panicked, serving, up>>

HubTypeOK ==
  /\ clients \in [Users -> Conns \cup {NoConn}]
  /\ outbox \in [Conns -> Seq(Envelope)]
  /\ \A c \in Conns : Len(outbox[c]) <= OutboxSize
  /\ closed \in SUBSET Conns
  /\ reader \in [Conns -> {"idle", "reading", "leaving", "announcing"}]
  /\ writer \in [Conns -> {"idle", "running"}]
  /\ panicked \in SUBSET Conns
  /\ serving \in SUBSET Conns
  /\ up \in SUBSET Conns

HubInit ==
  /\ clients = [u \in Users |-> NoConn]
  /\ outbox = [c \in Conns |-> <<>>]
  /\ closed = {}
  /\ reader = [c \in Conns |-> "idle"]
  /\ writer = [c \in Conns |-> "idle"]
  /\ panicked = {}
  /\ serving = {}
  /\ up = {}

-----------------------------------------------------------------------------
(* The cases of Hub.Run's select.                                          *)

Full(c) == Len(outbox[c]) >= OutboxSize

\* No goroutine holds the value any more.
Free(c) == reader[c] = "idle" /\ writer[c] = "idle" /\ c \notin serving

\* case c := <-h.register.  A reconnect closes the outbox it replaces.
Register(c) ==
  /\ clients' = [clients EXCEPT ![Owner[c]] = c]
  /\ closed' = (closed \ {c}) \cup ({clients[Owner[c]]} \ {NoConn})

\* Mutant of HubUnregister: no check that c is still the current connection.
UnregisterAnyway(c) ==
  /\ clients' = [clients EXCEPT ![Owner[c]] = NoConn]
  /\ closed' = closed \cup {c}

\* case c := <-h.unregister.  A stale value is not the current one: no effect.
HubUnregister(c) ==
  \/ /\ clients[Owner[c]] = c
     /\ clients' = [clients EXCEPT ![Owner[c]] = NoConn]
     /\ closed' = closed \cup {c}
  \/ /\ clients[Owner[c]] # c
     /\ UNCHANGED <<clients, closed>>

\* case r := <-h.route, in its three outcomes; only Enqueue reports true on
\* r.delivered.
NoRoute(u) ==
  /\ clients[u] = NoConn
  /\ UNCHANGED <<clients, closed, outbox>>

\* Mutant of Enqueue: the outbox has no limit.
EnqueueAlways(u, e) ==
  /\ clients[u] # NoConn
  /\ outbox' = [outbox EXCEPT ![clients[u]] = Append(@, e)]
  /\ UNCHANGED <<clients, closed>>

Enqueue(u, e) ==
  /\ clients[u] # NoConn
  /\ ~Full(clients[u])
  /\ outbox' = [outbox EXCEPT ![clients[u]] = Append(@, e)]
  /\ UNCHANGED <<clients, closed>>

\* Mutant of DropSlow: the entry stays in the map.
DropButKeep(u) ==
  /\ clients[u] # NoConn
  /\ Full(clients[u])
  /\ closed' = closed \cup {clients[u]}
  /\ UNCHANGED <<clients, outbox>>

\* Mutant of DropSlow: the envelope is dropped, the connection is not.
DropSilently(u) ==
  /\ clients[u] # NoConn
  /\ Full(clients[u])
  /\ UNCHANGED <<clients, closed, outbox>>

DropSlow(u) ==
  /\ clients[u] # NoConn
  /\ Full(clients[u])
  /\ clients' = [clients EXCEPT ![u] = NoConn]
  /\ closed' = closed \cup {clients[u]}
  /\ UNCHANGED outbox

Unrouted(u) == NoRoute(u) \/ DropSlow(u)

Route(u, e) == Enqueue(u, e) \/ Unrouted(u)

\* Client.trySend on an open outbox: a full one drops the envelope.  On a
\* closed one the send panics, see ReaderPanics and ServeEnds.
TrySend(c, e) ==
  /\ c \notin closed
  /\ outbox' = IF Full(c) THEN outbox ELSE [outbox EXCEPT ![c] = Append(@, e)]
  /\ UNCHANGED <<clients, closed>>

-----------------------------------------------------------------------------
(* The goroutines of a connection.                                         *)

\* serveWS: upgrade, a fresh Client, hub.register, then the two pumps.
Connect(c) ==
  /\ Free(c)
  /\ Register(c)
  /\ outbox' = [outbox EXCEPT ![c] = <<>>]
  /\ reader' = [reader EXCEPT ![c] = "reading"]
  /\ writer' = [writer EXCEPT ![c] = "running"]
  /\ serving' = serving \cup {c}
  /\ up' = up \cup {c}
  /\ UNCHANGED panicked

\* serveWS has pushed its catch-up and returns, or its trySend hit a closed
\* outbox: net/http recovers that panic, which ends only this goroutine.
ServeEnds(c) ==
  /\ c \in serving
  /\ serving' = serving \ {c}
  /\ UNCHANGED <<clients, outbox, closed, reader, writer, panicked, up>>

\* The peer goes away, the network fails, or no pong arrives in pongWait.
SocketFails(c) ==
  /\ c \in up
  /\ up' = up \ {c}
  /\ UNCHANGED <<clients, outbox, closed, reader, writer, panicked, serving>>

\* Mutant of ReadFails: readPump returns without unregistering.
ReaderForgets(c) ==
  /\ reader[c] = "reading"
  /\ c \notin up
  /\ reader' = [reader EXCEPT ![c] = "idle"]
  /\ UNCHANGED <<clients, outbox, closed, writer, panicked, serving, up>>

\* ReadMessage returns an error, the deferred function of readPump starts.
ReadFails(c) ==
  /\ reader[c] = "reading"
  /\ c \notin up
  /\ reader' = [reader EXCEPT ![c] = "leaving"]
  /\ UNCHANGED <<clients, outbox, closed, writer, panicked, serving, up>>

Unregister(c) ==
  /\ reader[c] = "leaving"
  /\ HubUnregister(c)
  /\ reader' = [reader EXCEPT ![c] = "announcing"]
  /\ UNCHANGED <<outbox, writer, panicked, serving, up>>

\* The "offline" broadcast is over, conn.Close() and readPump returns.
ReaderReturns(c) ==
  /\ reader[c] = "announcing"
  /\ c \notin panicked
  /\ reader' = [reader EXCEPT ![c] = "idle"]
  /\ up' = up \ {c}
  /\ UNCHANGED <<clients, outbox, closed, writer, panicked, serving>>

\* writePump takes one envelope.  A write to a dead socket may still succeed
\* into the kernel's buffer, or fail and end the pump.
WriterSends(c) ==
  /\ writer[c] = "running"
  /\ outbox[c] # <<>>
  /\ outbox' = [outbox EXCEPT ![c] = Tail(@)]
  /\ \/ UNCHANGED writer
     \/ c \notin up /\ writer' = [writer EXCEPT ![c] = "idle"]
  /\ UNCHANGED <<clients, closed, reader, panicked, serving, up>>

\* Mutant of WriterSeesClose: writePump returns without conn.Close().
WriterLeavesSocket(c) ==
  /\ writer[c] = "running"
  /\ outbox[c] = <<>>
  /\ c \in closed
  /\ writer' = [writer EXCEPT ![c] = "idle"]
  /\ UNCHANGED <<clients, outbox, closed, reader, panicked, serving, up>>

\* The closed outbox is drained: close frame, conn.Close(), return.
WriterSeesClose(c) ==
  /\ writer[c] = "running"
  /\ outbox[c] = <<>>
  /\ c \in closed
  /\ writer' = [writer EXCEPT ![c] = "idle"]
  /\ up' = up \ {c}
  /\ UNCHANGED <<clients, outbox, closed, reader, panicked, serving>>

\* The ping ticker finds the socket dead.
PingFails(c) ==
  /\ writer[c] = "running"
  /\ c \notin up
  /\ writer' = [writer EXCEPT ![c] = "idle"]
  /\ UNCHANGED <<clients, outbox, closed, reader, panicked, serving, up>>

\* The process dies and is started again: NewHub, no goroutine, no socket.
Restart ==
  /\ clients' = [u \in Users |-> NoConn]
  /\ outbox' = [c \in Conns |-> <<>>]
  /\ closed' = {}
  /\ reader' = [c \in Conns |-> "idle"]
  /\ writer' = [c \in Conns |-> "idle"]
  /\ panicked' = {}
  /\ serving' = {}
  /\ up' = {}

\* A handler in readPump sends on its own closed outbox and panics.  The
\* deferred function still runs; nothing recovers the panic, so the whole
\* server goes down when it is done.
ReaderPanics(c) ==
  /\ reader[c] = "reading"
  /\ c \in closed
  /\ reader' = [reader EXCEPT ![c] = "leaving"]
  /\ panicked' = panicked \cup {c}
  /\ UNCHANGED <<clients, outbox, closed, writer, serving, up>>

PanicCrashes(c) ==
  /\ reader[c] = "announcing"
  /\ c \in panicked
  /\ Restart

\* A handler in readPump, or serveWS, replies on its own outbox.
Reply(c, e) ==
  /\ reader[c] = "reading" \/ c \in serving
  /\ TrySend(c, e)
  /\ UNCHANGED <<reader, writer, panicked, serving, up>>

\* Any goroutine of a connection asks the hub to route an envelope.
Relay(u, e) ==
  /\ \E c \in Conns : reader[c] \in {"reading", "announcing"} \/ c \in serving
  /\ Route(u, e)
  /\ UNCHANGED <<reader, writer, panicked, serving, up>>

ConnStep(c) ==
  \/ ServeEnds(c)
  \/ ReadFails(c)
  \/ Unregister(c)
  \/ ReaderReturns(c)
  \/ WriterSends(c)
  \/ WriterSeesClose(c)
  \/ PingFails(c)

HubNext ==
  \/ \E c \in Conns : \/ Connect(c)
                      \/ SocketFails(c)
                      \/ ConnStep(c)
                      \/ ReaderPanics(c)
                      \/ PanicCrashes(c)
                      \/ \E e \in Envelope : Reply(c, e)
  \/ \E u \in Users, e \in Envelope : Relay(u, e)
  \/ Restart

HubSafeSpec == HubInit /\ [][HubNext]_hubVars

-----------------------------------------------------------------------------
(* Properties.                                                             *)

Live(c) == reader[c] \in {"reading", "leaving"}

\* Whatever the hub's map holds is that user's own connection, its outbox is
\* open and its readPump has yet to unregister.  It is what makes the hub's
\* close(...) never close twice and its send never hit a closed channel,
\* and it rules out a ghost that keeps a user online after its goroutines
\* are gone (hub.go:65-100).
RegisteredIsLive ==
  \A u \in Users : clients[u] # NoConn =>
    LET c == clients[u] IN Owner[c] = u /\ c \notin closed /\ Live(c)

\* A connection with a running readPump is either the registered one or has
\* been told to go by closing its outbox: the hub never forgets a connection
\* in silence, so none can linger unreachable (hub.go:68-70, 90-100).
LiveIsKnown ==
  \A c \in Conns : Live(c) => clients[Owner[c]] = c \/ c \in closed

\* "closing its outbox lets its pumps unwind on their own" (hub.go:67): once
\* the outbox is closed all goroutines of the connection return.
ClosedUnwinds == \A c \in Conns : c \in closed ~> Free(c)

\* A dead socket is noticed and the user's entry is given up, unless another
\* connection has taken it (client.go:118-123, 201-205).
DeadSocketLeavesHub ==
  \A c \in Conns : (Live(c) /\ c \notin up) ~> clients[Owner[c]] # c
=============================================================================
