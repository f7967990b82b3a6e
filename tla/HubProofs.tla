----------------------------- MODULE HubProofs -----------------------------
(***************************************************************************)
(* Proofs about the hub, for any number of users, connections and any      *)
(* outbox capacity.  RegisteredIsLive and LiveIsKnown are inductive only   *)
(* together: replacing a connection keeps the second because the first     *)
(* says that what the map held was that user's, and keeps the first        *)
(* because a value is reused only when no goroutine runs it.               *)
(***************************************************************************)
EXTENDS Hub, TLAPS, SequenceTheorems

\* The inductive invariant.
HubInv == HubTypeOK /\ RegisteredIsLive /\ LiveIsKnown

-----------------------------------------------------------------------------
\* An append that found room keeps every outbox a sequence of envelopes no
\* longer than its capacity (hub.go:90-92, client.go:212-215).
LEMMA AppendFits ==
  ASSUME HubTypeOK, NEW c \in Conns, NEW e \in Envelope, ~Full(c)
  PROVE  LET o == [outbox EXCEPT ![c] = Append(@, e)]
         IN  o \in [Conns -> Seq(Envelope)] /\ \A d \in Conns : Len(o[d]) <= OutboxSize
  BY HubAssumption DEF HubTypeOK, Full

\* What the hub may do to an outbox keeps it within its capacity.
LEMMA RouteTypeOK ==
  ASSUME HubTypeOK, NEW u \in Users, NEW e \in Envelope, Route(u, e)
  PROVE  /\ outbox' \in [Conns -> Seq(Envelope)]
         /\ \A d \in Conns : Len(outbox'[d]) <= OutboxSize
         /\ clients' \in [Users -> Conns \cup {NoConn}]
         /\ closed' \in SUBSET Conns
  <1>1. clients[u] # NoConn => clients[u] \in Conns
    BY DEF HubTypeOK
  <1>2. CASE NoRoute(u)
    BY <1>2 DEF NoRoute, HubTypeOK
  <1>3. CASE Enqueue(u, e)
    BY <1>1, <1>3, AppendFits DEF Enqueue, HubTypeOK
  <1>4. CASE DropSlow(u)
    BY <1>1, <1>4 DEF DropSlow, HubTypeOK
  <1>. QED
    BY <1>2, <1>3, <1>4 DEF Route, Unrouted

\* Replacing, unregistering or dropping a connection never breaks the link
\* between the hub's map and the goroutines (hub.go:65-100): the three cases
\* that change the map or close an outbox.
LEMMA RegisterKeeps ==
  ASSUME HubInv, NEW c \in Conns, Connect(c)
  PROVE  HubInv'
  <1>1. Owner[c] \in Users /\ NoConn \notin Conns
    BY HubAssumption
  <1>2. /\ clients' = [clients EXCEPT ![Owner[c]] = c]
        /\ closed' = (closed \ {c}) \cup ({clients[Owner[c]]} \ {NoConn})
        /\ reader' = [reader EXCEPT ![c] = "reading"]
        /\ reader[c] = "idle"
    BY DEF Connect, Register, Free
  <1>3. HubTypeOK'
    <2>1. outbox' \in [Conns -> Seq(Envelope)] /\ \A d \in Conns : Len(outbox'[d]) <= OutboxSize
      BY HubAssumption DEF Connect, HubInv, HubTypeOK
    <2>2. /\ clients' \in [Users -> Conns \cup {NoConn}]
          /\ closed' \in SUBSET Conns
      BY <1>1, <1>2 DEF HubInv, HubTypeOK
    <2>. QED
      BY <1>2, <2>1, <2>2 DEF Connect, HubInv, HubTypeOK
  <1>4. RegisteredIsLive'
    <2>1. SUFFICES ASSUME NEW u \in Users, clients'[u] # NoConn
                   PROVE  /\ Owner[clients'[u]] = u
                          /\ clients'[u] \notin closed'
                          /\ reader'[clients'[u]] \in {"reading", "leaving"}
      BY DEF RegisteredIsLive, Live
    <2>2. CASE u = Owner[c]
      <3>1. clients'[u] = c
        BY <1>1, <1>2, <2>2 DEF HubInv, HubTypeOK
      <3>2. clients[Owner[c]] # c
        BY <1>1, <1>2 DEF HubInv, RegisteredIsLive, Live
      <3>. QED
        BY <1>2, <2>2, <3>1, <3>2 DEF HubInv, HubTypeOK
    <2>3. CASE u # Owner[c]
      <3>1. clients'[u] = clients[u]
        BY <1>1, <1>2, <2>3 DEF HubInv, HubTypeOK
      <3>2. /\ Owner[clients[u]] = u
            /\ clients[u] \notin closed
            /\ reader[clients[u]] \in {"reading", "leaving"}
            /\ clients[u] \in Conns
        BY <2>1, <3>1 DEF HubInv, HubTypeOK, RegisteredIsLive, Live
      <3>3. clients[Owner[c]] # NoConn => Owner[clients[Owner[c]]] = Owner[c]
        BY <1>1 DEF HubInv, RegisteredIsLive
      <3>. QED
        BY <1>2, <2>3, <3>1, <3>2, <3>3 DEF HubInv, HubTypeOK
    <2>. QED
      BY <2>2, <2>3
  <1>5. LiveIsKnown'
    <2>1. SUFFICES ASSUME NEW d \in Conns, reader'[d] \in {"reading", "leaving"}
                   PROVE  clients'[Owner[d]] = d \/ d \in closed'
      BY DEF LiveIsKnown, Live
    <2>2. CASE d = c
      BY <1>1, <1>2, <2>2 DEF HubInv, HubTypeOK
    <2>3. CASE d # c
      <3>1. clients[Owner[d]] = d \/ d \in closed
        BY <1>2, <2>1, <2>3 DEF HubInv, HubTypeOK, LiveIsKnown, Live
      <3>2. CASE Owner[d] = Owner[c]
        BY <1>1, <1>2, <2>3, <3>1, <3>2
      <3>3. CASE Owner[d] # Owner[c]
        BY <1>2, <2>3, <3>1, <3>3 DEF HubInv, HubTypeOK
      <3>. QED
        BY <3>2, <3>3
    <2>. QED
      BY <2>2, <2>3
  <1>. QED
    BY <1>3, <1>4, <1>5 DEF HubInv

\* An unregister takes the entry away and closes the outbox together, or is
\* stale and does nothing (hub.go:74-81).
LEMMA UnregisterKeeps ==
  ASSUME HubInv, NEW c \in Conns, Unregister(c)
  PROVE  HubInv'
  <1>1. Owner[c] \in Users /\ NoConn \notin Conns
    BY HubAssumption
  <1>2. reader[c] = "leaving" /\ reader' = [reader EXCEPT ![c] = "announcing"]
    BY DEF Unregister
  <1>3. CASE /\ clients[Owner[c]] = c
             /\ clients' = [clients EXCEPT ![Owner[c]] = NoConn]
             /\ closed' = closed \cup {c}
    <2>1. HubTypeOK'
      BY <1>1, <1>2, <1>3 DEF Unregister, HubInv, HubTypeOK
    <2>2. RegisteredIsLive'
      BY <1>1, <1>2, <1>3 DEF HubInv, HubTypeOK, RegisteredIsLive, Live
    <2>3. LiveIsKnown'
      BY <1>1, <1>2, <1>3 DEF HubInv, HubTypeOK, LiveIsKnown, Live
    <2>. QED
      BY <2>1, <2>2, <2>3 DEF HubInv
  <1>4. CASE clients[Owner[c]] # c /\ UNCHANGED <<clients, closed>>
    <2>1. HubTypeOK'
      BY <1>2, <1>4 DEF Unregister, HubInv, HubTypeOK
    <2>2. RegisteredIsLive'
      BY <1>2, <1>4 DEF HubInv, HubTypeOK, RegisteredIsLive, Live
    <2>3. LiveIsKnown'
      BY <1>2, <1>4 DEF HubInv, HubTypeOK, LiveIsKnown, Live
    <2>. QED
      BY <2>1, <2>2, <2>3 DEF HubInv
  <1>. QED
    BY <1>3, <1>4 DEF Unregister, HubUnregister

\* Routing closes the outbox of a slow connection and drops it from the map
\* in one case of the select (hub.go:83-100).
LEMMA RelayKeeps ==
  ASSUME HubInv, NEW u \in Users, NEW e \in Envelope, Relay(u, e)
  PROVE  HubInv'
  <1>1. HubTypeOK'
    BY RouteTypeOK DEF Relay, HubInv, HubTypeOK
  <1>2. CASE UNCHANGED <<clients, closed>>
    BY <1>1, <1>2 DEF Relay, HubInv, RegisteredIsLive, LiveIsKnown, Live
  <1>3. CASE DropSlow(u)
    <2>1. RegisteredIsLive'
      BY <1>3 DEF DropSlow, Relay, HubInv, HubTypeOK, RegisteredIsLive, Live
    <2>2. LiveIsKnown'
      BY <1>3 DEF DropSlow, Relay, HubInv, HubTypeOK, RegisteredIsLive, LiveIsKnown, Live
    <2>. QED
      BY <1>1, <2>1, <2>2 DEF HubInv
  <1>. QED
    BY <1>2, <1>3 DEF Relay, Route, Unrouted, NoRoute, Enqueue

-----------------------------------------------------------------------------
\* Every step that neither changes the hub's map nor closes an outbox, and
\* starts no readPump, keeps the invariant: the life of a connection after
\* the hub has let it go (client.go:117-208).
LEMMA PumpsKeep ==
  ASSUME HubInv, UNCHANGED <<clients, closed>>, HubTypeOK',
         \A c \in Conns : Live(c)' <=> Live(c)
  PROVE  HubInv'
  BY DEF HubInv, HubTypeOK, RegisteredIsLive, LiveIsKnown

\* A new process starts with an empty hub (main.go:33-51, hub.go:43-50).
LEMMA RestartKeeps ==
  ASSUME Restart
  PROVE  HubInv'
  BY HubAssumption DEF Restart, HubInv, HubTypeOK, RegisteredIsLive, LiveIsKnown, Live

\* An empty hub satisfies the invariant (hub.go:43-50).
LEMMA HubInvInit == HubInit => HubInv
  BY HubAssumption DEF HubInit, HubInv, HubTypeOK, RegisteredIsLive, LiveIsKnown, Live

\* Every step of the hub and of its connections keeps the invariant.
LEMMA HubInvStep == HubInv /\ [HubNext]_hubVars => HubInv'
  <1>. SUFFICES ASSUME HubInv, [HubNext]_hubVars PROVE HubInv'
    OBVIOUS
  <1>1. ASSUME NEW c \in Conns, ServeEnds(c) PROVE HubInv'
    BY <1>1, PumpsKeep DEF ServeEnds, HubInv, HubTypeOK, Live
  <1>2. ASSUME NEW c \in Conns, SocketFails(c) PROVE HubInv'
    BY <1>2, PumpsKeep DEF SocketFails, HubInv, HubTypeOK, Live
  <1>3. ASSUME NEW c \in Conns, ReadFails(c) PROVE HubInv'
    BY <1>3, PumpsKeep DEF ReadFails, HubInv, HubTypeOK, Live
  <1>4. ASSUME NEW c \in Conns, ReaderReturns(c) PROVE HubInv'
    BY <1>4, PumpsKeep DEF ReaderReturns, HubInv, HubTypeOK, Live
  <1>5. ASSUME NEW c \in Conns, WriterSends(c) PROVE HubInv'
    <2>1. /\ outbox' \in [Conns -> Seq(Envelope)]
          /\ \A d \in Conns : Len(outbox'[d]) <= OutboxSize
      BY <1>5, HubAssumption DEF WriterSends, HubInv, HubTypeOK
    <2>. QED
      BY <1>5, <2>1, PumpsKeep DEF WriterSends, HubInv, HubTypeOK, Live
  <1>6. ASSUME NEW c \in Conns, WriterSeesClose(c) PROVE HubInv'
    BY <1>6, PumpsKeep DEF WriterSeesClose, HubInv, HubTypeOK, Live
  <1>7. ASSUME NEW c \in Conns, PingFails(c) PROVE HubInv'
    BY <1>7, PumpsKeep DEF PingFails, HubInv, HubTypeOK, Live
  <1>8. ASSUME NEW c \in Conns, ReaderPanics(c) PROVE HubInv'
    BY <1>8, PumpsKeep DEF ReaderPanics, HubInv, HubTypeOK, Live
  <1>9. ASSUME NEW c \in Conns, NEW e \in Envelope, Reply(c, e) PROVE HubInv'
    <2>1. /\ outbox' \in [Conns -> Seq(Envelope)]
          /\ \A d \in Conns : Len(outbox'[d]) <= OutboxSize
      BY <1>9, AppendFits DEF Reply, TrySend, HubInv, HubTypeOK
    <2>. QED
      BY <1>9, <2>1, PumpsKeep DEF Reply, TrySend, HubInv, HubTypeOK, Live
  <1>10. CASE UNCHANGED hubVars
    BY <1>10, PumpsKeep DEF hubVars, HubInv, HubTypeOK, Live
  <1>. QED
    BY <1>1, <1>2, <1>3, <1>4, <1>5, <1>6, <1>7, <1>8, <1>9, <1>10,
       RegisterKeeps, UnregisterKeeps, RelayKeeps, RestartKeeps
    DEF HubNext, ConnStep, PanicCrashes

\* The state of the hub and of every connection keeps its shape; no outbox
\* ever holds more than its capacity (hub.go:34-41, client.go:18-25).
THEOREM HubTypeCorrect == HubSafeSpec => []HubTypeOK
  <1>1. HubInv => HubTypeOK
    BY DEF HubInv
  <1>. QED
    BY HubInvInit, HubInvStep, <1>1, PTL DEF HubSafeSpec

\* What the hub's map holds is that user's connection, open and running, so
\* the hub closes no channel twice and never sends on a closed one
\* (hub.go:65-100).
THEOREM HubHoldsLiveConns == HubSafeSpec => []RegisteredIsLive
  <1>1. HubInv => RegisteredIsLive
    BY DEF HubInv
  <1>. QED
    BY HubInvInit, HubInvStep, <1>1, PTL DEF HubSafeSpec

\* No running connection is forgotten by the hub without its outbox being
\* closed (hub.go:68-70, 90-100).
THEOREM HubForgetsNoOne == HubSafeSpec => []LiveIsKnown
  <1>1. HubInv => LiveIsKnown
    BY DEF HubInv
  <1>. QED
    BY HubInvInit, HubInvStep, <1>1, PTL DEF HubSafeSpec
=============================================================================
