--------------------------- MODULE ContactsProofs ---------------------------
(***************************************************************************)
(* Proofs about contact requests, for any users, connections, capacities   *)
(* and bounds.  ContactsInv is the type invariant made inductive: commands *)
(* still on the network, too, are about somebody else.  SidebarInv makes   *)
(* SidebarIsTrue inductive: what handlers have found out, what catch-ups   *)
(* carry and what waits in outboxes is of friends.                         *)
(***************************************************************************)
EXTENDS Contacts, HubProofs

Others(c) == Users \ {Owner[c]}
Statuses == {"none", "pending", "accepted"}
BusyPc == {"theirs", "upgrade", "insert", "converse", "tell_self",
           "tell_other", "push", "declined", "error"}
CatchupPc == {"none", "list", "send_list", "requests", "send"}
FrameType(c) == [cmd : {"add", "accept", "decline"}, of : Others(c)]

TablesOK ==
  /\ contacts \in [Pairs -> Statuses]
  /\ conversations \subseteq {{p[1], p[2]} : p \in Pairs}
HandlersOK ==
  /\ handler = [c \in Conns |-> handler[c]]
  /\ \A c \in Conns : handler[c] = IdleHandler \/ handler[c] \in [pc : BusyPc, peer : Others(c)]
CatchupsOK ==
  /\ catchup = [c \in Conns |-> catchup[c]]
  /\ \A c \in Conns : catchup[c] \in [pc : CatchupPc, todo : SUBSET Others(c)]
FramesOK ==
  /\ frames = [c \in Conns |-> frames[c]]
  /\ \A c \in Conns : frames[c] \in Seq(FrameType(c))
ClientOK == sidebar \in [Users -> SUBSET Users] /\ requests \in [Users -> SUBSET Users]
BoundsOK == cmds \in 0..MaxCmds /\ noise \in 0..MaxNoise

ContactsInv ==
  TablesOK /\ HandlersOK /\ CatchupsOK /\ FramesOK /\ ClientOK /\ BoundsOK

-----------------------------------------------------------------------------
(* What the operators that actions are made of keep.                       *)

\* A handler starts on a command about another user (client.go:140-171).
LEMMA StartOK ==
  ASSUME HandlersOK, NEW c \in Conns, NEW v \in Others(c), NEW pc \in BusyPc, Start(c, pc, v)
  PROVE  HandlersOK'
  BY DEF HandlersOK, Start

\* A handler under way goes on (contacts.go).
LEMMA GotoOK ==
  ASSUME HandlersOK, NEW c \in Conns, handler[c].pc # "idle", NEW pc \in BusyPc, Goto(c, pc)
  PROVE  HandlersOK'
  <1>1. handler[c] \in [pc : BusyPc, peer : Others(c)]
    BY DEF HandlersOK, IdleHandler
  <1>. QED
    BY <1>1 DEF HandlersOK, Goto

\* A handler returns.
LEMMA DoneOK ==
  ASSUME HandlersOK, NEW c \in Conns, Done(c)
  PROVE  HandlersOK'
  BY DEF HandlersOK, Done

\* Whom a handler under way is about.
LEMMA PeerOK ==
  ASSUME HandlersOK, NEW c \in Conns, handler[c].pc # "idle"
  PROVE  handler[c].peer \in Others(c) /\ handler[c].pc \in BusyPc
  BY DEF HandlersOK, IdleHandler

\* Reading a frame takes it off the network.
LEMMA FrameOK ==
  ASSUME FramesOK, NEW c \in Conns, NEW cmd, NEW v, Frame(c, cmd, v)
  PROVE  FramesOK' /\ v \in Others(c)
  <1>1. frames[c] \in Seq(FrameType(c)) /\ frames[c] # <<>>
    BY DEF FramesOK, Frame
  <1>2. Head(frames[c]) \in FrameType(c) /\ Tail(frames[c]) \in Seq(FrameType(c))
    BY <1>1
  <1>3. v \in Others(c)
    BY <1>2 DEF Frame, FrameType
  <1>4. FramesOK'
    BY <1>2 DEF Frame, FramesOK
  <1>. QED
    BY <1>3, <1>4

\* The catch-up goes on with other users only.
LEMMA CatchupOK ==
  ASSUME CatchupsOK, NEW c \in Conns, NEW pc \in CatchupPc, NEW S \in SUBSET Others(c),
         Catchup(c, pc, S)
  PROVE  CatchupsOK'
  BY DEF CatchupsOK, Catchup

\* A connection's frames are lost.
LEMMA FramesLost ==
  ASSUME FramesOK, NEW c \in Conns, frames' = [frames EXCEPT ![c] = <<>>]
  PROVE  FramesOK'
  BY DEF FramesOK

\* An UPDATE, INSERT or DELETE leaves a row of the table, or none.
LEMMA SetOK ==
  ASSUME TablesOK, NEW u, NEW v, NEW status \in Statuses, Set(u, v, status),
         UNCHANGED conversations
  PROVE  TablesOK'
  BY DEF TablesOK, Set

\* Conversations are of two different users (store.go:73, 448-453).
LEMMA ConversationOK ==
  ASSUME NEW c \in Conns, NEW v \in Others(c)
  PROVE  {Owner[c], v} \in {{p[1], p[2]} : p \in Pairs}
  <1>1. <<Owner[c], v>> \in Pairs
    BY HubAssumption DEF Pairs, Others
  <1>. QED
    BY <1>1

\* What is not written keeps its shape.
LEMMA Untouched ==
  /\ TablesOK /\ UNCHANGED tables => TablesOK'
  /\ HandlersOK /\ UNCHANGED handler => HandlersOK'
  /\ CatchupsOK /\ UNCHANGED catchup => CatchupsOK'
  /\ FramesOK /\ UNCHANGED frames => FramesOK'
  /\ ClientOK /\ UNCHANGED client => ClientOK'
  /\ BoundsOK /\ UNCHANGED bounds => BoundsOK'
  BY DEF TablesOK, tables, HandlersOK, CatchupsOK, FramesOK, ClientOK, client, BoundsOK, bounds

-----------------------------------------------------------------------------
(* The steps of a handler, of a catch-up, and the rest.                    *)

\* The three handlers keep the invariant (contacts.go:13-104).
LEMMA HandlerKeeps ==
  ASSUME ContactsInv, NEW c \in Conns, HandlerStep(c)
  PROVE  ContactsInv'
  <1>. USE DEF ContactsInv
  <1>1. ASSUME NEW v \in Users, RequestContact(c, v) PROVE ContactsInv'
    <2>1. FramesOK' /\ v \in Others(c)
      BY <1>1, FrameOK DEF RequestContact
    <2>2. PICK pc \in {"push", "converse", "theirs", "error"} : Start(c, pc, v)
      BY <1>1 DEF RequestContact
    <2>3. HandlersOK'
      BY <2>1, <2>2, StartOK DEF BusyPc
    <2>. QED
      BY <1>1, <2>1, <2>3, Untouched DEF RequestContact
  <1>2. ASSUME NEW v \in Users, AcceptContact(c, v) \/ DeclineContact(c, v) PROVE ContactsInv'
    <2>1. FramesOK' /\ v \in Others(c)
      BY <1>2, FrameOK DEF AcceptContact, DeclineContact
    <2>2. PICK pc \in {"converse", "declined", "error"} : Start(c, pc, v)
      BY <1>2 DEF AcceptContact, DeclineContact
    <2>3. HandlersOK'
      BY <2>1, <2>2, StartOK DEF BusyPc
    <2>4. TablesOK'
      <3>1. CASE UNCHANGED tables
        BY <3>1, Untouched
      <3>2. CASE ~UNCHANGED tables
        <4>1. PICK status \in Statuses : Set(v, Owner[c], status)
          BY <1>2, <3>2 DEF AcceptContact, DeclineContact, Statuses, tables
        <4>. QED
          BY <1>2, <4>1, SetOK DEF AcceptContact, DeclineContact
      <3>. QED
        BY <3>1, <3>2
    <2>. QED
      BY <1>2, <2>1, <2>3, <2>4, Untouched DEF AcceptContact, DeclineContact
  <1>3. ASSUME TheirRequest(c) PROVE ContactsInv'
    <2>1. PICK pc \in {"upgrade", "converse", "insert", "error"} : Goto(c, pc)
      BY <1>3 DEF TheirRequest
    <2>2. HandlersOK'
      BY <1>3, <2>1, GotoOK DEF TheirRequest, Handling, BusyPc
    <2>. QED
      BY <1>3, <2>2, Untouched DEF TheirRequest
  <1>4. ASSUME UpgradeRequest(c) \/ InsertRequest(c) PROVE ContactsInv'
    <2>1. PICK pc \in {"push", "converse", "error"} : Goto(c, pc)
      BY <1>4 DEF UpgradeRequest, InsertRequest
    <2>2. HandlersOK'
      BY <1>4, <2>1, GotoOK DEF UpgradeRequest, InsertRequest, Handling, BusyPc
    <2>3. TablesOK'
      <3>1. CASE UNCHANGED tables
        BY <3>1, Untouched
      <3>2. CASE ~UNCHANGED tables
        <4>1. PICK status \in Statuses : \E u, v : Set(u, v, status)
          BY <1>4, <3>2 DEF UpgradeRequest, InsertRequest, Statuses, tables
        <4>. QED
          BY <1>4, <4>1, SetOK DEF UpgradeRequest, InsertRequest
      <3>. QED
        BY <3>1, <3>2
    <2>. QED
      BY <1>4, <2>2, <2>3, Untouched DEF UpgradeRequest, InsertRequest
  <1>5. ASSUME GetOrCreateConversation(c) PROVE ContactsInv'
    <2>1. Goto(c, "tell_self") \/ Done(c)
      BY <1>5 DEF GetOrCreateConversation
    <2>2. HandlersOK'
      BY <1>5, <2>1, GotoOK, DoneOK DEF GetOrCreateConversation, Handling, BusyPc
    <2>3. {Owner[c], handler[c].peer} \in {{p[1], p[2]} : p \in Pairs}
      BY <1>5, PeerOK, ConversationOK DEF GetOrCreateConversation, Handling
    <2>4. TablesOK'
      BY <1>5, <2>3 DEF GetOrCreateConversation, TablesOK
    <2>. QED
      BY <1>5, <2>2, <2>4, Untouched DEF GetOrCreateConversation
  <1>6. ASSUME TellSelf(c) PROVE ContactsInv'
    <2>1. HandlersOK'
      BY <1>6, GotoOK DEF TellSelf, Handling, BusyPc
    <2>. QED
      BY <1>6, <2>1, Untouched DEF TellSelf
  <1>7. ASSUME PushRequest(c) \/ TellOther(c) \/ TellDeclined(c) \/ SendError(c)
        PROVE  ContactsInv'
    <2>1. HandlersOK'
      BY <1>7, DoneOK DEF PushRequest, TellOther, TellDeclined, SendError
    <2>. QED
      BY <1>7, <2>1, Untouched DEF PushRequest, TellOther, TellDeclined, SendError
  <1>8. ASSUME HandlerPanics(c) PROVE ContactsInv'
    BY <1>8, DoneOK, FramesLost, Untouched DEF HandlerPanics
  <1>. QED
    BY <1>1, <1>2, <1>3, <1>4, <1>5, <1>6, <1>7, <1>8 DEF HandlerStep

\* What a new connection is sent is about other users (contacts.go:130-183).
LEMMA CatchupKeeps ==
  ASSUME ContactsInv, NEW c \in Conns, CatchupStep(c)
  PROVE  ContactsInv'
  <1>. USE DEF ContactsInv
  <1>1. catchup[c].todo \subseteq Others(c)
    BY DEF CatchupsOK
  <1>2. Accepted(Owner[c]) \subseteq Others(c) /\ PendingIncoming(Owner[c]) \subseteq Others(c)
    BY DEF Accepted, PendingIncoming, Others
  <1>3. ASSUME QueryContacts(c) \/ QueryRequests(c) PROVE ContactsInv'
    <2>1. PICK pc \in CatchupPc, S \in SUBSET Others(c) : Catchup(c, pc, S)
      BY <1>2, <1>3 DEF QueryContacts, QueryRequests, CatchupPc
    <2>2. CatchupsOK'
      BY <2>1, CatchupOK
    <2>. QED
      BY <1>3, <2>2, Untouched DEF QueryContacts, QueryRequests
  <1>4. ASSUME SendList(c) PROVE ContactsInv'
    <2>1. PICK S \in SUBSET catchup[c].todo :
               conversations' = conversations \cup {{Owner[c], v} : v \in S}
      BY <1>4 DEF SendList
    <2>2. \A v \in S : {Owner[c], v} \in {{p[1], p[2]} : p \in Pairs}
      BY <1>1, ConversationOK
    <2>3. TablesOK'
      BY <1>4, <2>1, <2>2 DEF SendList, TablesOK
    <2>4. CatchupsOK'
      BY <1>4, CatchupOK DEF SendList, CatchupPc
    <2>. QED
      BY <1>4, <2>3, <2>4, Untouched DEF SendList
  <1>5. ASSUME SendRequest(c) PROVE ContactsInv'
    <2>1. PICK v \in catchup[c].todo : Catchup(c, "send", catchup[c].todo \ {v})
      BY <1>5 DEF SendRequest
    <2>2. CatchupsOK'
      BY <1>1, <2>1, CatchupOK DEF CatchupPc
    <2>. QED
      BY <1>5, <2>2, Untouched DEF SendRequest
  <1>6. ASSUME CatchupEnds(c) PROVE ContactsInv'
    <2>1. CatchupsOK'
      BY <1>6 DEF CatchupEnds, CatchupsOK, NoCatchup, CatchupPc
    <2>. QED
      BY <1>6, <2>1, Untouched DEF CatchupEnds
  <1>. QED
    BY <1>3, <1>4, <1>5, <1>6 DEF CatchupStep

\* What a client makes of an envelope (events.go:103-230).
LEMMA ReceivedKeeps ==
  ASSUME ClientOK, NEW u \in Users, NEW e \in Envelope, Received(u, e)
  PROVE  ClientOK'
  <1>1. e.of \subseteq Users
    BY ContactEnvelopeAssumption DEF ContactEnvelope
  <1>. QED
    BY <1>1 DEF ClientOK, Received, client

\* The life of a connection, and what its user types.
LEMMA ConnectionKeeps ==
  ASSUME ContactsInv, HubTypeOK, NEW c \in Conns,
         \/ Deliver(c) \/ ClientConnects(c) \/ LoseSocket(c)
         \/ StopReading(c) \/ UnwindConn(c)
  PROVE  ContactsInv'
  <1>. USE DEF ContactsInv
  <1>1. ASSUME Deliver(c) PROVE ContactsInv'
    <2>1. Head(outbox[c]) \in Envelope /\ Owner[c] \in Users
      <3>1. outbox[c] \in Seq(Envelope) /\ outbox[c] # <<>>
        BY <1>1 DEF Deliver, WriterSends, HubTypeOK
      <3>. QED
        BY <3>1, HubAssumption
    <2>2. ClientOK'
      BY <1>1, <2>1, ReceivedKeeps, Untouched DEF Deliver
    <2>. QED
      BY <1>1, <2>2, Untouched DEF Deliver
  <1>2. ASSUME ClientConnects(c) PROVE ContactsInv'
    <2>1. CatchupsOK' /\ FramesOK'
      BY <1>2, CatchupOK, FramesLost DEF ClientConnects, CatchupPc
    <2>. QED
      BY <1>2, <2>1, Untouched DEF ClientConnects
  <1>3. ASSUME LoseSocket(c) PROVE ContactsInv'
    <2>1. BoundsOK'
      BY <1>3, ContactsAssumption DEF LoseSocket, Noise, BoundsOK
    <2>. QED
      BY <1>3, <2>1, Untouched DEF LoseSocket
  <1>4. ASSUME StopReading(c) PROVE ContactsInv'
    BY <1>4, FramesLost, Untouched DEF StopReading
  <1>5. ASSUME UnwindConn(c) PROVE ContactsInv'
    BY <1>5, Untouched DEF UnwindConn
  <1>. QED
    BY <1>1, <1>2, <1>3, <1>4, <1>5

\* Commands name somebody else (update.go:699-750).
LEMMA TypeKeeps ==
  ASSUME ContactsInv, NEW typed \in Commands, NEW v \in Users, Type(typed[1], typed[2], v)
  PROVE  ContactsInv'
  <1>. USE DEF ContactsInv
  <1>. DEFINE u == typed[1]  cmd == typed[2]
  <1>1. u \in Users /\ cmd \in {"add", "accept", "decline"} /\ u # v
    BY ContactsAssumption DEF Type
  <1>2. ASSUME NEW c \in Conns PROVE frames'[c] \in Seq(FrameType(c))
    <2>1. frames[c] \in Seq(FrameType(c))
      BY DEF FramesOK
    <2>2. CASE frames'[c] = frames[c]
      BY <2>1, <2>2
    <2>3. CASE Owner[c] = u /\ frames'[c] = Append(frames[c], [cmd |-> cmd, of |-> v])
      <3>1. [cmd |-> cmd, of |-> v] \in FrameType(c)
        BY <1>1, <2>3 DEF FrameType, Others
      <3>. QED
        BY <2>1, <2>3, <3>1
    <2>. QED
      BY <2>2, <2>3 DEF Type
  <1>3. frames' = [c \in Conns |-> frames'[c]]
    BY DEF Type
  <1>4. FramesOK'
    BY <1>2, <1>3 DEF FramesOK, FrameType, Others
  <1>5. ClientOK'
    BY <1>1 DEF Type, ClientOK
  <1>6. BoundsOK'
    BY ContactsAssumption DEF Type, BoundsOK
  <1>. QED
    BY <1>4, <1>5, <1>6, Untouched DEF Type

\* A crash loses what is in memory (main.go:33-51).
LEMMA CrashKeeps ==
  ASSUME ContactsInv, Crash \/ \E c \in Conns : CrashOfPanic(c)
  PROVE  ContactsInv'
  <1>. USE DEF ContactsInv
  <1>1. AllGone /\ (Noise("crash") \/ UNCHANGED noise)
    BY DEF Crash, CrashOfPanic
  <1>2. HandlersOK' /\ CatchupsOK' /\ FramesOK'
    BY <1>1 DEF AllGone, HandlersOK, CatchupsOK, NoCatchup, CatchupPc, FramesOK
  <1>3. BoundsOK'
    BY <1>1, ContactsAssumption DEF AllGone, Noise, BoundsOK
  <1>. QED
    BY <1>1, <1>2, <1>3, Untouched DEF AllGone

\* Empty tables, no connection, empty clients.
LEMMA ContactsInvInit == ContactsInit => ContactsInv
  BY ContactsAssumption
  DEF ContactsInit, ContactsInv, TablesOK, HandlersOK, CatchupsOK, FramesOK, ClientOK,
      BoundsOK, Statuses, NoCatchup, CatchupPc

\* Every step keeps ContactsInv.
LEMMA ContactsInvStep == ContactsInv /\ HubTypeOK /\ [Next]_vars => ContactsInv'
  <1>. SUFFICES ASSUME ContactsInv, HubTypeOK, [Next]_vars PROVE ContactsInv'
    OBVIOUS
  <1>1. CASE UNCHANGED vars
    BY <1>1, Untouched DEF vars, ContactsInv
  <1>2. CASE Next
    BY <1>2, HandlerKeeps, CatchupKeeps, ConnectionKeeps, TypeKeeps, CrashKeeps DEF Next
  <1>. QED
    BY <1>1, <1>2

-----------------------------------------------------------------------------
(* Contacts over the hub.                                                  *)

\* What the handlers and the catch-up send is an envelope.
LEMMA Envelopes ==
  /\ Error \in Envelope
  /\ \A u \in Users : Request(u) \in Envelope /\ Accept(u) \in Envelope /\ Decline(u) \in Envelope
  /\ \A S \in SUBSET Users : ContactList(S) \in Envelope
  BY ContactEnvelopeAssumption
  DEF ContactEnvelope, Error, Request, Accept, Decline, ContactList

\* A handler that routes an envelope takes the hub's step Relay.
LEMMA RoutesAreRelays ==
  ASSUME NEW c \in Conns, reader[c] = "reading", NEW u \in Users, NEW e \in Envelope,
         Route(u, e), UNCHANGED <<reader, writer, panicked, serving, up>>
  PROVE  HubNext
  BY DEF Relay, HubNext

\* Every step is one of the hub and its connections, or none of theirs.
LEMMA StepsOfHub == ContactsInv /\ [Next]_vars => [HubNext]_hubVars
  <1>. SUFFICES ASSUME ContactsInv, Next PROVE [HubNext]_hubVars
    BY DEF vars
  <1>. DEFINE Kept == UNCHANGED hubVars
  <1>1. ASSUME NEW c \in Conns, handler[c].pc # "idle" PROVE handler[c].peer \in Users
    BY <1>1, PeerOK DEF ContactsInv, Others
  <1>2. ASSUME NEW c \in Conns PROVE Owner[c] \in Users /\ catchup[c].todo \subseteq Users
    BY HubAssumption DEF ContactsInv, CatchupsOK, Others
  <1>3. ASSUME NEW c \in Conns, HandlerStep(c) PROVE HubNext \/ Kept
    <2>1. CASE TellSelf(c) \/ SendError(c)
      <3>1. PICK e \in Envelope : Reply(c, e)
        BY <1>1, <2>1, Envelopes DEF TellSelf, SendError, Handling
      <3>. QED
        BY <3>1 DEF HubNext
    <2>2. CASE PushRequest(c) \/ TellOther(c) \/ TellDeclined(c)
      <3>1. /\ reader[c] = "reading" /\ handler[c].peer \in Users
            /\ UNCHANGED <<reader, writer, panicked, serving, up>>
        BY <1>1, <2>2 DEF PushRequest, TellOther, TellDeclined, Handling
      <3>2. PICK e \in Envelope : Route(handler[c].peer, e)
        BY <1>2, <2>2, Envelopes DEF PushRequest, TellOther, TellDeclined
      <3>. QED
        BY <3>1, <3>2, RoutesAreRelays
    <2>3. CASE HandlerPanics(c)
      BY <2>3 DEF HandlerPanics, HubNext
    <2>4. CASE \/ \E v \in Users : \/ RequestContact(c, v)
                                   \/ AcceptContact(c, v) \/ DeclineContact(c, v)
               \/ TheirRequest(c) \/ UpgradeRequest(c) \/ InsertRequest(c)
               \/ GetOrCreateConversation(c)
      BY <2>4 DEF RequestContact, AcceptContact, DeclineContact, TheirRequest,
                  UpgradeRequest, InsertRequest, GetOrCreateConversation
    <2>. QED
      BY <1>3, <2>1, <2>2, <2>3, <2>4 DEF HandlerStep
  <1>4. ASSUME NEW c \in Conns, CatchupStep(c) PROVE HubNext \/ Kept
    <2>1. CASE SendList(c)
      <3>1. PICK S \in SUBSET catchup[c].todo : Reply(c, ContactList(S))
        BY <2>1 DEF SendList
      <3>. QED
        BY <1>2, <3>1, Envelopes DEF HubNext
    <2>2. CASE SendRequest(c)
      <3>1. PICK v \in catchup[c].todo : Reply(c, Request(v))
        BY <2>2 DEF SendRequest
      <3>. QED
        BY <1>2, <3>1, Envelopes DEF HubNext
    <2>3. CASE CatchupEnds(c)
      BY <2>3 DEF CatchupEnds, HubNext, ConnStep
    <2>4. CASE QueryContacts(c) \/ QueryRequests(c)
      BY <2>4 DEF QueryContacts, QueryRequests
    <2>. QED
      BY <1>4, <2>1, <2>2, <2>3, <2>4 DEF CatchupStep
  <1>5. ASSUME NEW c \in Conns,
               \/ Deliver(c) \/ ClientConnects(c) \/ LoseSocket(c)
               \/ StopReading(c) \/ UnwindConn(c) \/ CrashOfPanic(c)
        PROVE  HubNext
    BY <1>5 DEF Deliver, ClientConnects, LoseSocket, StopReading, UnwindConn,
                CrashOfPanic, HubNext, ConnStep
  <1>6. ASSUME NEW typed \in Commands, NEW v \in Users, Type(typed[1], typed[2], v) PROVE Kept
    BY <1>6 DEF Type
  <1>7. CASE Crash
    BY <1>7 DEF Crash, HubNext
  <1>. QED
    BY <1>3, <1>4, <1>5, <1>6, <1>7 DEF Next

\* Both invariants hold together.
LEMMA InvHolds == ContactsSpec => [](ContactsInv /\ HubInv)
  <1>1. ContactsInit => ContactsInv /\ HubInv
    BY ContactsInvInit, HubInvInit DEF ContactsInit
  <1>2. ContactsInv /\ HubInv /\ [Next]_vars => (ContactsInv /\ HubInv)'
    BY ContactsInvStep, StepsOfHub, HubInvStep DEF HubInv
  <1>. QED
    BY <1>1, <1>2, PTL DEF ContactsSpec

\* Contact handling takes no liberty with the hub, its channels or the
\* goroutines of a connection (server/contacts.go over server/hub.go).
THEOREM ContactsIsOfHub == ContactsSpec => ImplementsHub
  <1>1. ContactsInit => HubInit
    BY DEF ContactsInit
  <1>. QED
    BY <1>1, InvHolds, StepsOfHub, PTL DEF ContactsSpec, ImplementsHub, HubSafeSpec

\* Rows, handlers, catch-ups, frames and the client's lists keep their shape
\* (contacts.go, store.go:55-73, events.go).
THEOREM ContactsTypeCorrect == ContactsSpec => []ContactsTypeOK
  <1>1. ContactsInv => ContactsTypeOK
    <2>. SUFFICES ASSUME ContactsInv PROVE ContactsTypeOK
      OBVIOUS
    <2>1. ASSUME NEW c \in Conns
          PROVE  /\ handler[c].pc \in BusyPc \cup {"idle"}
                 /\ handler[c].pc = "idle" \/ handler[c].peer \in Others(c)
                 /\ catchup[c] \in [pc : CatchupPc, todo : SUBSET Others(c)]
      BY DEF ContactsInv, HandlersOK, IdleHandler, CatchupsOK
    <2>2. ASSUME NEW c \in Conns
          PROVE  frames[c] \in Seq([cmd : {"add", "accept", "decline"}, of : Users])
      <3>1. FrameType(c) \subseteq [cmd : {"add", "accept", "decline"}, of : Users]
        BY DEF FrameType, Others
      <3>2. frames[c] \in Seq(FrameType(c))
        BY DEF ContactsInv, FramesOK
      <3>. QED
        BY <3>1, <3>2, SeqMonotonic
    <2>3. frames \in [Conns -> Seq([cmd : {"add", "accept", "decline"}, of : Users])]
      BY <2>2 DEF ContactsInv, FramesOK
    <2>. QED
      BY <2>1, <2>3 DEF ContactsInv, TablesOK, ClientOK, BoundsOK, ContactsTypeOK,
                        Statuses, BusyPc, CatchupPc, Others
  <1>. QED
    BY <1>1, InvHolds, PTL

\* The statements that write the contacts table (store.go:254-334).
LEMMA RowWriters ==
  ASSUME [Next]_vars
  PROVE  \/ UNCHANGED contacts
         \/ \E c \in Conns : \/ UpgradeRequest(c) \/ InsertRequest(c)
                            \/ \E v \in Users : AcceptContact(c, v) \/ DeclineContact(c, v)
  <1>1. ASSUME NEW c \in Conns, HandlerStep(c)
        PROVE  \/ UNCHANGED contacts
               \/ UpgradeRequest(c) \/ InsertRequest(c)
               \/ \E v \in Users : AcceptContact(c, v) \/ DeclineContact(c, v)
    <2>1. ASSUME \/ \E v \in Users : RequestContact(c, v)
                 \/ TheirRequest(c) \/ GetOrCreateConversation(c)
                 \/ PushRequest(c) \/ TellSelf(c) \/ TellOther(c)
                 \/ TellDeclined(c) \/ SendError(c) \/ HandlerPanics(c)
          PROVE  UNCHANGED contacts
      BY <2>1 DEF RequestContact, TheirRequest, PushRequest, GetOrCreateConversation,
                  TellSelf, TellOther, TellDeclined, SendError, HandlerPanics, tables
    <2>. QED
      BY <1>1, <2>1 DEF HandlerStep
  <1>2. ASSUME NEW c \in Conns, CatchupStep(c) PROVE UNCHANGED contacts
    BY <1>2 DEF CatchupStep, QueryContacts, SendList, QueryRequests, SendRequest,
                CatchupEnds, tables
  <1>3. ASSUME NEW c \in Conns,
               \/ Deliver(c) \/ ClientConnects(c) \/ LoseSocket(c)
               \/ StopReading(c) \/ UnwindConn(c) \/ CrashOfPanic(c)
        PROVE  UNCHANGED contacts
    BY <1>3 DEF Deliver, ClientConnects, LoseSocket, StopReading, UnwindConn,
                CrashOfPanic, AllGone, tables
  <1>4. ASSUME Crash \/ \E typed \in Commands, v \in Users : Type(typed[1], typed[2], v)
        PROVE  UNCHANGED contacts
    BY <1>4 DEF Crash, AllGone, Type, tables
  <1>. QED
    BY <1>1, <1>2, <1>3, <1>4 DEF Next, vars, tables

\* An accepted row is overwritten by no statement (store.go:254-334).
LEMMA AcceptedKept ==
  ContactsInv /\ [Next]_vars => \A p \in Pairs : contacts[p] = "accepted" => contacts'[p] = "accepted"
  <1>. DEFINE Stays == \A p \in Pairs : contacts[p] = "accepted" => contacts'[p] = "accepted"
  <1>. SUFFICES ASSUME ContactsInv, [Next]_vars PROVE Stays
    OBVIOUS
  <1>1. contacts \in [Pairs -> Statuses]
    BY DEF ContactsInv, TablesOK
  <1>2. CASE UNCHANGED contacts
    BY <1>2
  <1>3. ASSUME NEW c \in Conns, UpgradeRequest(c) PROVE Stays
    BY <1>1, <1>3 DEF UpgradeRequest, Set
  <1>4. ASSUME NEW c \in Conns, InsertRequest(c) PROVE Stays
    BY <1>1, <1>4 DEF InsertRequest, Set, Status
  <1>5. ASSUME NEW c \in Conns, NEW v \in Users, AcceptContact(c, v) PROVE Stays
    BY <1>1, <1>5 DEF AcceptContact, Set
  <1>6. ASSUME NEW c \in Conns, NEW v \in Users, DeclineContact(c, v) PROVE Stays
    BY <1>1, <1>6 DEF DeclineContact, Set, Status
  <1>. QED
    BY <1>2, <1>3, <1>4, <1>5, <1>6, RowWriters

\* Whoever races, declines or crashes: who has become a contact stays one
\* (store.go:254-334).
THEOREM AcceptedForGood == ContactsSpec => AcceptedStays
  BY AcceptedKept, InvHolds, PTL DEF ContactsSpec, AcceptedStays

-----------------------------------------------------------------------------
(* The sidebar.                                                            *)

Friends(u, v) == v \in Accepted(u)
Befriended(u, v) == Friends(u, v) /\ {u, v} \in conversations

\* What puts users on a sidebar names friends only.
TrueTo(u, e) == e.type \in {"contact_accept", "contact_list"} => \A v \in e.of : Befriended(u, v)
TrueOutbox(c) == \A i \in 1..Len(outbox[c]) : TrueTo(Owner[c], outbox[c][i])

\* What a handler has found out still holds: the row it wants to UPDATE is there.
TrueHandler(c) ==
  /\ handler[c].pc = "upgrade" => Status(handler[c].peer, Owner[c]) # "none"
  /\ handler[c].pc = "converse" => Friends(Owner[c], handler[c].peer)
  /\ handler[c].pc \in {"tell_self", "tell_other"} => Befriended(Owner[c], handler[c].peer)
TrueCatchup(c) == catchup[c].pc = "send_list" => \A v \in catchup[c].todo : Friends(Owner[c], v)

SidebarInv ==
  /\ SidebarIsTrue
  /\ \A c \in Conns : TrueOutbox(c) /\ TrueHandler(c) /\ TrueCatchup(c)

\* No handler is about to remove the row that another one of the same user is
\* about to UPDATE.
NoRivalDecline ==
  \A c, d \in Conns :
    /\ Owner[d] = Owner[c] /\ handler[c].pc = "upgrade"
    /\ handler[d].pc = "idle" /\ frames[d] # <<>>
    => Head(frames[d]) # [cmd |-> "decline", of |-> handler[c].peer]

\* Friends stay friends, and their conversation stays.
LEMMA FriendsKept ==
  ASSUME ContactsInv, [Next]_vars
  PROVE  /\ \A u, v \in Users : Friends(u, v) => Friends(u, v)'
         /\ \A u, v \in Users : Befriended(u, v) => Befriended(u, v)'
  <1>1. \A p \in Pairs : contacts[p] = "accepted" => contacts'[p] = "accepted"
    BY AcceptedKept
  <1>2. \A u, v \in Users : Friends(u, v) => Friends(u, v)'
    <2>1. SUFFICES ASSUME NEW u \in Users, NEW v \in Users, Friends(u, v) PROVE Friends(u, v)'
      OBVIOUS
    <2>2. <<u, v>> \in Pairs /\ <<v, u>> \in Pairs
      BY <2>1 DEF Friends, Accepted, Pairs
    <2>. QED
      BY <1>1, <2>1, <2>2 DEF Friends, Accepted, Status
  <1>3. conversations \subseteq conversations'
    <2>1. ASSUME NEW c \in Conns, HandlerStep(c) PROVE conversations \subseteq conversations'
      BY <2>1 DEF HandlerStep, RequestContact, AcceptContact, DeclineContact, TheirRequest,
                  UpgradeRequest, InsertRequest, PushRequest, GetOrCreateConversation, TellSelf,
                  TellOther, TellDeclined, SendError, HandlerPanics, tables
    <2>2. ASSUME NEW c \in Conns, CatchupStep(c) PROVE conversations \subseteq conversations'
      BY <2>2 DEF CatchupStep, QueryContacts, SendList, QueryRequests, SendRequest,
                  CatchupEnds, tables
    <2>3. ASSUME NEW c \in Conns,
                 \/ Deliver(c) \/ ClientConnects(c) \/ LoseSocket(c)
                 \/ StopReading(c) \/ UnwindConn(c) \/ CrashOfPanic(c)
          PROVE  conversations \subseteq conversations'
      BY <2>3 DEF Deliver, ClientConnects, LoseSocket, StopReading, UnwindConn,
                  CrashOfPanic, AllGone, tables
    <2>4. ASSUME Crash \/ \E typed \in Commands, v \in Users : Type(typed[1], typed[2], v)
          PROVE  conversations \subseteq conversations'
      BY <2>4 DEF Crash, AllGone, Type, tables
    <2>. QED
      BY <2>1, <2>2, <2>3, <2>4 DEF Next, vars, tables
  <1>. QED
    BY <1>2, <1>3 DEF Befriended

\* Both sides of a friendship see the same.
LEMMA FriendsBothWays ==
  ASSUME NEW u \in Users, NEW v \in Users
  PROVE  (Friends(u, v) => Friends(v, u)) /\ (Befriended(u, v) => Befriended(v, u))
  <1>1. Friends(u, v) => Friends(v, u)
    BY DEF Friends, Accepted
  <1>2. {u, v} = {v, u}
    OBVIOUS
  <1>. QED
    BY <1>1, <1>2 DEF Befriended

\* The first frame of a connection, and what is left of its frames.
LEMMA FrameIs ==
  ASSUME ContactsInv, NEW c \in Conns, NEW cmd, NEW v, Frame(c, cmd, v)
  PROVE  /\ Len(frames[c]) \in Nat /\ 1 \in 1..Len(frames[c])
         /\ frames[c][1] = [cmd |-> cmd, of |-> v]
         /\ Len(frames'[c]) = Len(frames[c]) - 1
         /\ \A i \in 1..Len(frames'[c]) : i + 1 \in 1..Len(frames[c]) /\ frames'[c][i] = frames[c][i + 1]
         /\ \A d \in Conns : d # c => frames'[d] = frames[d]
         /\ v \in Others(c)
  <1>1. PICK s : s = frames[c] /\ s \in Seq(FrameType(c)) /\ s # <<>> /\ Head(s) = [cmd |-> cmd, of |-> v]
    BY DEF ContactsInv, FramesOK, Frame
  <1>2. Len(s) \in Nat /\ Len(s) # 0
    BY <1>1
  <1>3. Head(s) = s[1] /\ Len(Tail(s)) = Len(s) - 1 /\ \A i \in 1..(Len(s) - 1) : Tail(s)[i] = s[i + 1]
    BY <1>1, <1>2
  <1>4. /\ frames'[c] = Tail(s)
        /\ \A d \in Conns : d # c => frames'[d] = frames[d]
    BY <1>1 DEF Frame, ContactsInv, FramesOK
  <1>5. v \in Others(c)
    BY FrameOK DEF ContactsInv
  <1>. QED
    BY <1>1, <1>2, <1>3, <1>4, <1>5

\* A row that a handler wants to UPDATE is then removed by no other.
LEMMA UpgradeWaits ==
  ASSUME NoRivalDecline, ContactsInv, SidebarInv, [Next]_vars, NEW c \in Conns,
         handler[c].pc = "upgrade"
  PROVE  contacts'[<<handler[c].peer, Owner[c]>>] # "none"
  <1>1. handler[c].peer \in Others(c) /\ Owner[c] \in Users
    BY PeerOK, HubAssumption DEF ContactsInv
  <1>2. PICK p \in Pairs : p = <<handler[c].peer, Owner[c]>>
    BY <1>1 DEF Pairs, Others
  <1>3. contacts[p] # "none"
    BY <1>2 DEF SidebarInv, TrueHandler, Status
  <1>4. contacts \in [Pairs -> Statuses]
    BY DEF ContactsInv, TablesOK
  <1>5. ASSUME NEW d \in Conns, NEW v \in Users, DeclineContact(d, v) PROVE contacts'[p] # "none"
    <2>1. handler[d].pc = "idle" /\ frames[d] # <<>> /\ Head(frames[d]) = [cmd |-> "decline", of |-> v]
      BY <1>5 DEF DeclineContact, Frame, Handling
    <2>2. Owner[d] # Owner[c] \/ v # handler[c].peer
      BY <2>1 DEF NoRivalDecline
    <2>4. p # <<v, Owner[d]>>
      BY <1>2, <2>2
    <2>. QED
      BY <1>3, <1>4, <1>5, <2>4 DEF DeclineContact, Set
  <1>6. ASSUME NEW d \in Conns, UpgradeRequest(d) PROVE contacts'[p] # "none"
    BY <1>3, <1>4, <1>6 DEF UpgradeRequest, Set
  <1>7. ASSUME NEW d \in Conns, InsertRequest(d) PROVE contacts'[p] # "none"
    BY <1>3, <1>4, <1>7 DEF InsertRequest, Set
  <1>8. ASSUME NEW d \in Conns, NEW v \in Users, AcceptContact(d, v) PROVE contacts'[p] # "none"
    BY <1>3, <1>4, <1>8 DEF AcceptContact, Set
  <1>. QED
    BY <1>2, <1>3, <1>5, <1>6, <1>7, <1>8, RowWriters

\* A handler that has not moved.
LEMMA HandlerStaysTrue ==
  ASSUME NoRivalDecline, ContactsInv, SidebarInv, [Next]_vars,
         NEW c \in Conns, handler'[c] = handler[c]
  PROVE  TrueHandler(c)'
  <1>1. Owner[c] \in Users /\ (handler[c].pc # "idle" => handler[c].peer \in Users)
    BY HubAssumption, PeerOK DEF ContactsInv, Others
  <1>2. TrueHandler(c)
    BY DEF SidebarInv
  <1>3. handler[c].pc = "upgrade" => contacts'[<<handler[c].peer, Owner[c]>>] # "none"
    BY UpgradeWaits
  <1>4. /\ handler[c].pc = "converse" => Friends(Owner[c], handler[c].peer)'
        /\ handler[c].pc \in {"tell_self", "tell_other"} => Befriended(Owner[c], handler[c].peer)'
    <2>1. PICK u, v : u = Owner[c] /\ v = handler[c].peer
      OBVIOUS
    <2>2. ASSUME handler[c].pc = "converse" PROVE Friends(u, v)'
      BY <1>1, <1>2, <2>1, <2>2, FriendsKept DEF TrueHandler
    <2>3. ASSUME handler[c].pc \in {"tell_self", "tell_other"} PROVE Befriended(u, v)'
      BY <1>1, <1>2, <2>1, <2>3, FriendsKept DEF TrueHandler
    <2>. QED
      BY <2>1, <2>2, <2>3 DEF Friends, Befriended, Accepted, Status
  <1>. QED
    BY <1>3, <1>4 DEF TrueHandler, Status, Friends, Befriended, Accepted

\* A handler that is over, or at a point where nothing needs to hold.
LEMMA HandlerIsFree ==
  ASSUME NEW c \in Conns, handler'[c].pc \notin {"upgrade", "converse", "tell_self", "tell_other"}
  PROVE  TrueHandler(c)'
  BY DEF TrueHandler

\* A step of a handler leads to where what it needs holds (contacts.go:21-104).
LEMMA HandlerComesTrue ==
  ASSUME ContactsInv, SidebarInv, [Next]_vars, NEW c \in Conns, HandlerStep(c)
  PROVE  TrueHandler(c)' /\ \A d \in Conns : d # c => handler'[d] = handler[d]
  <1>1. handler = [d \in Conns |-> handler[d]]
    BY DEF ContactsInv, HandlersOK
  <1>2. \A d \in Conns : d # c => handler'[d] = handler[d]
    BY <1>1 DEF HandlerStep, RequestContact, AcceptContact, DeclineContact, TheirRequest,
                UpgradeRequest, InsertRequest, PushRequest, GetOrCreateConversation, TellSelf,
                TellOther, TellDeclined, SendError, HandlerPanics, Start, Goto, Done
  <1>3. Owner[c] \in Users
    BY HubAssumption
  <1>4. contacts \in [Pairs -> Statuses]
    BY DEF ContactsInv, TablesOK
  <1>5. ASSUME handler[c].pc # "idle" PROVE handler[c].peer \in Others(c) /\ handler[c].peer \in Users
    BY <1>5, PeerOK DEF ContactsInv, Others
  <1>6. ASSUME NEW v \in Users, RequestContact(c, v) PROVE TrueHandler(c)'
    <2>1. v \in Others(c)
      BY <1>6, FrameOK DEF RequestContact, ContactsInv
    <2>2. PICK pc : /\ handler'[c] = [pc |-> pc, peer |-> v] /\ Start(c, pc, v)
                    /\ \/ pc \in {"push", "theirs", "error"}
                       \/ pc = "converse" /\ Status(Owner[c], v) = "accepted"
      BY <1>1, <1>6 DEF RequestContact, Start
    <2>3. CASE pc \in {"push", "theirs", "error"}
      BY <2>2, <2>3, HandlerIsFree
    <2>4. CASE pc = "converse" /\ Status(Owner[c], v) = "accepted"
      <3>1. Friends(Owner[c], v)
        BY <2>1, <2>4 DEF Friends, Accepted, Others
      <3>2. Friends(Owner[c], v)'
        BY <1>3, <1>6, <3>1 DEF RequestContact, tables, Friends, Accepted, Status
      <3>. QED
        BY <2>2, <2>4, <3>2 DEF TrueHandler, Friends, Accepted, Status
    <2>. QED
      BY <2>2, <2>3, <2>4
  <1>7. ASSUME NEW v \in Users, AcceptContact(c, v) PROVE TrueHandler(c)'
    <2>1. v \in Others(c)
      BY <1>7, FrameOK DEF AcceptContact, ContactsInv
    <2>2. CASE Start(c, "error", v)
      BY <1>1, <2>2, HandlerIsFree DEF Start
    <2>3. CASE Set(v, Owner[c], "accepted") /\ Start(c, "converse", v)
      <3>1. <<v, Owner[c]>> \in Pairs
        BY <1>3, <2>1 DEF Pairs, Others
      <3>2. contacts'[<<v, Owner[c]>>] = "accepted"
        BY <1>4, <2>3, <3>1 DEF Set
      <3>3. handler'[c].pc = "converse" /\ handler'[c].peer = v
        BY <1>1, <2>3 DEF Start
      <3>. QED
        BY <2>1, <3>2, <3>3 DEF TrueHandler, Friends, Accepted, Status, Others
    <2>. QED
      BY <1>7, <2>2, <2>3 DEF AcceptContact
  <1>8. ASSUME NEW v \in Users, DeclineContact(c, v) PROVE TrueHandler(c)'
    <2>1. handler'[c].pc \in {"declined", "error"}
      BY <1>1, <1>8 DEF DeclineContact, Start
    <2>. QED
      BY <2>1, HandlerIsFree
  <1>9. ASSUME TheirRequest(c) PROVE TrueHandler(c)'
    <2>1. PICK v \in Others(c) : v = handler[c].peer
      BY <1>5, <1>9 DEF TheirRequest, Handling
    <2>2. UNCHANGED contacts /\ handler'[c].peer = v
      BY <1>1, <1>9, <2>1 DEF TheirRequest, Goto, tables
    <2>3. \/ handler'[c].pc = "upgrade" /\ Status(v, Owner[c]) = "pending"
          \/ handler'[c].pc = "converse" /\ Status(v, Owner[c]) = "accepted"
          \/ handler'[c].pc \in {"insert", "error"}
      BY <1>1, <1>9, <2>1 DEF TheirRequest, Goto
    <2>. QED
      BY <2>1, <2>2, <2>3 DEF TrueHandler, Friends, Accepted, Status, Others
  <1>10. ASSUME UpgradeRequest(c) PROVE TrueHandler(c)'
    <2>1. PICK v \in Others(c) : v = handler[c].peer
      BY <1>5, <1>10 DEF UpgradeRequest, Handling
    <2>2. Status(v, Owner[c]) # "none"
      BY <1>10, <2>1 DEF UpgradeRequest, Handling, SidebarInv, TrueHandler
    <2>3. CASE Goto(c, "error")
      BY <1>1, <2>3, HandlerIsFree DEF Goto
    <2>4. CASE Goto(c, "converse") /\ Set(v, Owner[c], "accepted")
      <3>1. <<v, Owner[c]>> \in Pairs
        BY <1>3, <2>1 DEF Pairs, Others
      <3>2. contacts'[<<v, Owner[c]>>] = "accepted"
        BY <1>4, <2>4, <3>1 DEF Set
      <3>3. handler'[c].pc = "converse" /\ handler'[c].peer = v
        BY <1>1, <2>1, <2>4 DEF Goto
      <3>. QED
        BY <2>1, <3>2, <3>3 DEF TrueHandler, Friends, Accepted, Status, Others
    <2>. QED
      BY <1>10, <2>1, <2>2, <2>3, <2>4 DEF UpgradeRequest
  <1>11. ASSUME \/ InsertRequest(c) \/ PushRequest(c) \/ TellOther(c)
                \/ TellDeclined(c) \/ SendError(c) \/ HandlerPanics(c)
         PROVE  TrueHandler(c)'
    <2>1. handler'[c].pc \in {"push", "error", "idle"}
      BY <1>1, <1>11 DEF InsertRequest, PushRequest, TellOther, TellDeclined, SendError, HandlerPanics,
                         Goto, Done, IdleHandler
    <2>. QED
      BY <2>1, HandlerIsFree
  <1>12. ASSUME GetOrCreateConversation(c) PROVE TrueHandler(c)'
    <2>1. PICK v \in Others(c) : v = handler[c].peer
      BY <1>5, <1>12 DEF GetOrCreateConversation, Handling
    <2>2. Friends(Owner[c], v)
      BY <1>12, <2>1 DEF GetOrCreateConversation, Handling, SidebarInv, TrueHandler
    <2>3. CASE Done(c)
      BY <1>1, <2>3, HandlerIsFree DEF Done, IdleHandler
    <2>4. CASE conversations' = conversations \cup {{Owner[c], v}} /\ Goto(c, "tell_self")
      <3>1. handler'[c].pc = "tell_self" /\ handler'[c].peer = v
        BY <1>1, <2>1, <2>4 DEF Goto
      <3>2. Friends(Owner[c], v)'
        BY <1>12, <2>2 DEF GetOrCreateConversation, Friends, Accepted, Status
      <3>. QED
        BY <2>4, <3>1, <3>2 DEF TrueHandler, Befriended, Friends, Accepted, Status
    <2>. QED
      BY <1>12, <2>1, <2>3, <2>4 DEF GetOrCreateConversation
  <1>13. ASSUME TellSelf(c) PROVE TrueHandler(c)'
    <2>1. PICK v \in Others(c) : v = handler[c].peer
      BY <1>5, <1>13 DEF TellSelf, Handling
    <2>2. Befriended(Owner[c], v)
      BY <1>13, <2>1 DEF TellSelf, Handling, SidebarInv, TrueHandler
    <2>3. handler'[c].pc = "tell_other" /\ handler'[c].peer = v
      BY <1>1, <1>13, <2>1 DEF TellSelf, Goto
    <2>4. Befriended(Owner[c], v)'
      BY <1>13, <2>2 DEF TellSelf, tables, Befriended, Friends, Accepted, Status
    <2>. QED
      BY <2>3, <2>4 DEF TrueHandler, Befriended, Friends, Accepted, Status
  <1>. QED
    BY <1>2, <1>6, <1>7, <1>8, <1>9, <1>10, <1>11, <1>12, <1>13 DEF HandlerStep

\* The steps that move a handler.
LEMMA HandlersMove ==
  ASSUME ContactsInv, Next, NEW c \in Conns
  PROVE  \/ handler'[c] = handler[c]
         \/ handler'[c] = IdleHandler /\ (Crash \/ \E d \in Conns : CrashOfPanic(d))
         \/ HandlerStep(c)
  <1>1. handler = [d \in Conns |-> handler[d]]
    BY DEF ContactsInv, HandlersOK
  <1>2. ASSUME NEW d \in Conns, HandlerStep(d), d # c PROVE handler'[c] = handler[c]
    BY <1>1, <1>2 DEF HandlerStep, RequestContact, AcceptContact, DeclineContact, TheirRequest,
                UpgradeRequest, InsertRequest, PushRequest, GetOrCreateConversation, TellSelf,
                TellOther, TellDeclined, SendError, HandlerPanics, Start, Goto, Done
  <1>3. ASSUME NEW d \in Conns,
               \/ CatchupStep(d) \/ Deliver(d) \/ ClientConnects(d)
               \/ LoseSocket(d) \/ StopReading(d) \/ UnwindConn(d)
        PROVE  handler' = handler
    BY <1>3 DEF CatchupStep, QueryContacts, SendList, QueryRequests, SendRequest, CatchupEnds,
                Deliver, ClientConnects, LoseSocket, StopReading, UnwindConn
  <1>4. ASSUME Crash \/ \E d \in Conns : CrashOfPanic(d) PROVE handler'[c] = IdleHandler
    BY <1>4 DEF Crash, CrashOfPanic, AllGone
  <1>5. ASSUME NEW typed \in Commands, NEW v \in Users, Type(typed[1], typed[2], v)
        PROVE  handler' = handler
    BY <1>5 DEF Type
  <1>. QED
    BY <1>2, <1>3, <1>4, <1>5 DEF Next

\* So every handler is true in every state.
LEMMA HandlersTrue ==
  ASSUME NoRivalDecline, ContactsInv, SidebarInv, [Next]_vars, NEW c \in Conns
  PROVE  TrueHandler(c)'
  <1>1. CASE UNCHANGED vars
    BY <1>1, HandlerStaysTrue DEF vars
  <1>2. CASE handler'[c] = handler[c]
    BY <1>2, HandlerStaysTrue
  <1>3. CASE handler'[c] = IdleHandler
    BY <1>3, HandlerIsFree DEF IdleHandler
  <1>4. CASE HandlerStep(c)
    BY <1>4, HandlerComesTrue
  <1>. QED
    BY <1>1, <1>2, <1>3, <1>4, HandlersMove

\* AcceptedContacts has read friends, and they stay friends (contacts.go:130-140).
LEMMA CatchupsTrue ==
  ASSUME ContactsInv, SidebarInv, [Next]_vars, NEW c \in Conns
  PROVE  TrueCatchup(c)'
  <1>1. /\ catchup = [d \in Conns |-> catchup[d]] /\ catchup[c].todo \subseteq Users
        /\ Owner[c] \in Users /\ TrueCatchup(c)
    BY HubAssumption DEF ContactsInv, CatchupsOK, Others, SidebarInv
  <1>2. CASE catchup'[c] = catchup[c]
    BY <1>1, <1>2, FriendsKept DEF TrueCatchup, Friends, Accepted, Status
  <1>3. CASE catchup'[c].pc # "send_list"
    BY <1>3 DEF TrueCatchup
  <1>4. ASSUME QueryContacts(c) PROVE TrueCatchup(c)'
    <2>1. CASE Catchup(c, "send_list", Accepted(Owner[c]))
      <3>1. catchup'[c].pc = "send_list" /\ catchup'[c].todo = Accepted(Owner[c])
        BY <1>1, <2>1 DEF Catchup
      <3>2. UNCHANGED contacts
        BY <1>4 DEF QueryContacts, tables
      <3>. QED
        BY <3>1, <3>2 DEF TrueCatchup, Friends, Accepted, Status
    <2>2. CASE Catchup(c, "requests", {})
      BY <1>1, <1>3, <2>2 DEF Catchup
    <2>. QED
      BY <1>4, <2>1, <2>2 DEF QueryContacts
  <1>5. ASSUME NEW d \in Conns, SendList(d) \/ QueryRequests(d) \/ SendRequest(d) \/ CatchupEnds(d)
        PROVE  catchup'[c] = catchup[c] \/ catchup'[c].pc # "send_list"
    BY <1>1, <1>5 DEF SendList, QueryRequests, SendRequest, CatchupEnds, Catchup, NoCatchup
  <1>6. ASSUME NEW d \in Conns, QueryContacts(d), d # c PROVE catchup'[c] = catchup[c]
    BY <1>1, <1>6 DEF QueryContacts, Catchup
  <1>7. ASSUME NEW d \in Conns, HandlerStep(d) PROVE catchup' = catchup
    BY <1>7 DEF HandlerStep, RequestContact, AcceptContact, DeclineContact, TheirRequest,
                UpgradeRequest, InsertRequest, PushRequest, GetOrCreateConversation, TellSelf,
                TellOther, TellDeclined, SendError, HandlerPanics
  <1>8. ASSUME NEW d \in Conns,
               \/ Deliver(d) \/ ClientConnects(d) \/ LoseSocket(d)
               \/ StopReading(d) \/ UnwindConn(d)
        PROVE  catchup'[c] = catchup[c] \/ catchup'[c].pc # "send_list"
    BY <1>1, <1>8 DEF Deliver, ClientConnects, LoseSocket, StopReading, UnwindConn, Catchup
  <1>9. ASSUME Crash \/ \E d \in Conns : CrashOfPanic(d) PROVE catchup'[c].pc # "send_list"
    BY <1>9 DEF Crash, CrashOfPanic, AllGone, NoCatchup
  <1>10. ASSUME UNCHANGED vars \/ \E typed \in Commands, v \in Users : Type(typed[1], typed[2], v)
         PROVE  catchup' = catchup
    BY <1>10 DEF vars, Type
  <1>. QED
    BY <1>2, <1>3, <1>4, <1>5, <1>6, <1>7, <1>8, <1>9, <1>10 DEF Next, CatchupStep

\* What an envelope says stays true.
LEMMA StaysTrueTo ==
  ASSUME ContactsInv, [Next]_vars, NEW u \in Users, NEW e \in Envelope, TrueTo(u, e)
  PROVE  TrueTo(u, e)'
  <1>1. e.of \subseteq Users
    BY ContactEnvelopeAssumption DEF ContactEnvelope
  <1>2. \A v \in Users : Befriended(u, v) => Befriended(u, v)'
    BY FriendsKept
  <1>. QED
    BY <1>1, <1>2 DEF TrueTo

\* What can happen to an outbox in a step.
Delivers(c) ==
  \/ outbox'[c] = outbox[c]
  \/ outbox'[c] = <<>>
  \/ outbox[c] # <<>> /\ outbox'[c] = Tail(outbox[c])
Queues(c, e) == outbox'[c] = Append(outbox[c], e)

\* An outbox that loses its head, is emptied or takes in a true envelope holds
\* true ones.
LEMMA OutboxStaysTrue ==
  ASSUME ContactsInv, HubTypeOK, SidebarInv, [Next]_vars, NEW c \in Conns,
         Delivers(c) \/ \E e \in Envelope : TrueTo(Owner[c], e)' /\ Queues(c, e)
  PROVE  TrueOutbox(c)'
  <1>1. outbox[c] \in Seq(Envelope) /\ Len(outbox[c]) \in Nat /\ Owner[c] \in Users
    BY HubAssumption DEF HubTypeOK
  <1>2. ASSUME NEW i \in 1..Len(outbox[c]), NEW e, e = outbox[c][i] PROVE TrueTo(Owner[c], e)'
    <2>1. e \in Envelope
      BY <1>1, <1>2
    <2>2. TrueTo(Owner[c], e)
      BY <1>2 DEF SidebarInv, TrueOutbox
    <2>. QED
      BY <1>1, <2>1, <2>2, StaysTrueTo
  <1>3. SUFFICES ASSUME NEW i \in 1..Len(outbox'[c]), NEW e, e = outbox'[c][i]
                 PROVE  TrueTo(Owner[c], e)'
    BY DEF TrueOutbox, TrueTo, Befriended, Friends, Accepted, Status
  <1>4. CASE outbox'[c] = outbox[c]
    BY <1>2, <1>3, <1>4
  <1>5. CASE outbox'[c] = <<>>
    BY <1>3, <1>5
  <1>6. CASE outbox[c] # <<>> /\ outbox'[c] = Tail(outbox[c])
    <2>1. Len(outbox'[c]) = Len(outbox[c]) - 1 /\ outbox'[c][i] = outbox[c][i + 1]
      BY <1>1, <1>3, <1>6
    <2>2. i + 1 \in 1..Len(outbox[c])
      BY <1>1, <2>1
    <2>. QED
      BY <1>2, <1>3, <2>1, <2>2
  <1>7. ASSUME NEW f \in Envelope, TrueTo(Owner[c], f)', Queues(c, f)
        PROVE  TrueTo(Owner[c], e)'
    <2>1. /\ Len(outbox'[c]) = Len(outbox[c]) + 1 /\ outbox'[c][Len(outbox[c]) + 1] = f
          /\ \A k \in 1..Len(outbox[c]) : outbox'[c][k] = outbox[c][k]
      BY <1>1, <1>7 DEF Queues
    <2>2. CASE i = Len(outbox[c]) + 1
      BY <1>3, <1>7, <2>1, <2>2
    <2>3. CASE i # Len(outbox[c]) + 1
      <3>1. i \in 1..Len(outbox[c]) /\ e = outbox[c][i]
        BY <1>1, <1>3, <2>1, <2>3
      <3>. QED
        BY <1>2, <3>1
    <2>. QED
      BY <2>2, <2>3
  <1>. QED
    BY <1>4, <1>5, <1>6, <1>7 DEF Delivers

\* What a handler or a catch-up sends is true: a reply to its own user, an
\* envelope routed to another one's connection.
LEMMA ReplyIsQueued ==
  ASSUME HubTypeOK, NEW c \in Conns, NEW e \in Envelope, Reply(c, e), NEW d \in Conns
  PROVE  outbox'[d] = outbox[d] \/ (d = c /\ Queues(d, e))
  BY DEF Reply, TrySend, HubTypeOK, Queues

\* An envelope that is routed goes to a connection of its user.
LEMMA RouteIsQueued ==
  ASSUME HubTypeOK, RegisteredIsLive, NEW u \in Users, NEW e \in Envelope, Route(u, e), NEW d \in Conns
  PROVE  outbox'[d] = outbox[d] \/ (Owner[d] = u /\ Queues(d, e))
  <1>1. CASE Enqueue(u, e)
    <2>1. PICK c \in Conns : c = clients[u] /\ Owner[c] = u
      BY <1>1 DEF Enqueue, HubTypeOK, RegisteredIsLive
    <2>2. outbox' = [outbox EXCEPT ![c] = Append(outbox[c], e)]
      BY <1>1, <2>1 DEF Enqueue
    <2>. QED
      BY <2>1, <2>2 DEF HubTypeOK, Queues
  <1>2. CASE Unrouted(u)
    BY <1>2 DEF Unrouted, NoRoute, DropSlow
  <1>. QED
    BY <1>1, <1>2 DEF Route

\* What the steps of a handler and a catch-up send.
Harmless(e) == e.type \in {"contact_request", "contact_decline", "error"}

\* Requests, declines and errors put nobody on a sidebar.
LEMMA HarmlessTrue ==
  ASSUME NEW u, NEW e, Harmless(e)
  PROVE  TrueTo(u, e)'
  BY DEF Harmless, TrueTo

\* What a handler replies or routes is true to whom it is for (contacts.go:36-104).
LEMMA HandlerSends ==
  ASSUME ContactsInv, HubTypeOK, RegisteredIsLive, SidebarInv, [Next]_vars,
         NEW c \in Conns, HandlerStep(c), NEW d \in Conns
  PROVE  outbox'[d] = outbox[d] \/ \E e \in Envelope : TrueTo(Owner[d], e)' /\ Queues(d, e)
  <1>1. Owner[c] \in Users
    BY HubAssumption
  <1>2. ASSUME handler[c].pc # "idle" PROVE handler[c].peer \in Users
    BY <1>2, PeerOK DEF ContactsInv, Others
  <1>3. CASE \/ \E v \in Users : RequestContact(c, v) \/ AcceptContact(c, v) \/ DeclineContact(c, v)
             \/ TheirRequest(c) \/ UpgradeRequest(c) \/ InsertRequest(c) \/ GetOrCreateConversation(c)
             \/ HandlerPanics(c)
    BY <1>3 DEF RequestContact, AcceptContact, DeclineContact, TheirRequest, UpgradeRequest,
                InsertRequest, GetOrCreateConversation, HandlerPanics, ReaderPanics, hubVars
  <1>4. CASE PushRequest(c) \/ TellDeclined(c)
    <2>1. PICK v \in Users : v = handler[c].peer
      BY <1>2, <1>4 DEF PushRequest, TellDeclined, Handling
    <2>2. PICK e \in Envelope : Harmless(e) /\ Route(v, e)
      BY <1>1, <1>4, <2>1, Envelopes DEF PushRequest, TellDeclined, Request, Decline, Harmless
    <2>. QED
      BY <2>2, RouteIsQueued, HarmlessTrue
  <1>5. CASE SendError(c)
    <2>1. Error \in Envelope /\ Harmless(Error) /\ Reply(c, Error)
      BY <1>5, Envelopes DEF SendError, Error, Harmless
    <2>. QED
      BY <2>1, ReplyIsQueued, HarmlessTrue
  <1>6. CASE TellSelf(c) \/ TellOther(c)
    <2>1. PICK v \in Users : v = handler[c].peer
      BY <1>2, <1>6 DEF TellSelf, TellOther, Handling
    <2>2. Befriended(Owner[c], v)
      BY <1>6, <2>1 DEF TellSelf, TellOther, Handling, SidebarInv, TrueHandler
    <2>3. Befriended(Owner[c], v)' /\ Befriended(v, Owner[c])'
      BY <1>1, <2>2, FriendsKept, FriendsBothWays
    <2>4. PICK e \in Envelope : e = Accept(v)
      BY Envelopes
    <2>5. PICK f \in Envelope : f = Accept(Owner[c])
      BY <1>1, Envelopes
    <2>6. e.of = {v} /\ f.of = {Owner[c]}
      BY <2>4, <2>5 DEF Accept
    <2>7. TrueTo(Owner[c], e)' /\ TrueTo(v, f)'
      BY <2>3, <2>6 DEF TrueTo, Befriended, Friends, Accepted, Status
    <2>8. CASE TellSelf(c)
      <3>1. Reply(c, e)
        BY <2>1, <2>4, <2>8 DEF TellSelf
      <3>. QED
        BY <2>7, <3>1, ReplyIsQueued
    <2>9. CASE TellOther(c)
      <3>1. Route(v, f)
        BY <2>1, <2>5, <2>9 DEF TellOther
      <3>. QED
        BY <2>7, <3>1, RouteIsQueued
    <2>. QED
      BY <1>6, <2>8, <2>9
  <1>. QED
    BY <1>3, <1>4, <1>5, <1>6 DEF HandlerStep

\* So is what the catch-up sends (contacts.go:113-165).
LEMMA CatchupSends ==
  ASSUME ContactsInv, HubTypeOK, SidebarInv, [Next]_vars,
         NEW c \in Conns, CatchupStep(c), NEW d \in Conns
  PROVE  outbox'[d] = outbox[d] \/ \E e \in Envelope : TrueTo(Owner[d], e)' /\ Queues(d, e)
  <1>1. Owner[c] \in Users /\ catchup[c].todo \subseteq Users
    BY HubAssumption DEF ContactsInv, CatchupsOK, Others
  <1>2. CASE QueryContacts(c) \/ QueryRequests(c) \/ CatchupEnds(c)
    BY <1>2 DEF QueryContacts, QueryRequests, CatchupEnds, ServeEnds, hubVars
  <1>3. CASE SendRequest(c)
    <2>1. PICK v \in catchup[c].todo : Reply(c, Request(v))
      BY <1>3 DEF SendRequest
    <2>2. Request(v) \in Envelope /\ Harmless(Request(v))
      BY <1>1, Envelopes DEF Request, Harmless
    <2>. QED
      BY <2>1, <2>2, ReplyIsQueued, HarmlessTrue
  <1>4. CASE SendList(c)
    <2>1. PICK S \in SUBSET catchup[c].todo : /\ conversations' = conversations \cup {{Owner[c], v} : v \in S}
                                              /\ Reply(c, ContactList(S))
      BY <1>4 DEF SendList
    <2>2. PICK e \in Envelope : e = ContactList(S)
      BY <1>1, Envelopes
    <2>3. \A v \in S : Friends(Owner[c], v)
      BY <1>4 DEF SendList, SidebarInv, TrueCatchup
    <2>4. \A v \in S : Befriended(Owner[c], v)'
      <3>1. UNCHANGED contacts
        BY <1>4 DEF SendList
      <3>. QED
        BY <2>1, <2>3, <3>1 DEF Befriended, Friends, Accepted, Status
    <2>5. e.of = S
      BY <2>2 DEF ContactList
    <2>6. TrueTo(Owner[c], e)'
      BY <2>4, <2>5 DEF TrueTo, Befriended, Friends, Accepted, Status
    <2>. QED
      BY <2>1, <2>2, <2>6, ReplyIsQueued
  <1>. QED
    BY <1>2, <1>3, <1>4 DEF CatchupStep

\* So what waits in an outbox is true.
LEMMA OutboxesTrue ==
  ASSUME ContactsInv, HubInv, SidebarInv, [Next]_vars, NEW d \in Conns
  PROVE  TrueOutbox(d)'
  <1>1. HubTypeOK /\ RegisteredIsLive
    BY DEF HubInv
  <1>2. CASE Delivers(d)
    BY <1>1, <1>2, OutboxStaysTrue
  <1>3. ASSUME NEW c \in Conns, HandlerStep(c) \/ CatchupStep(c) PROVE TrueOutbox(d)'
    BY <1>1, <1>3, HandlerSends, CatchupSends, OutboxStaysTrue DEF Delivers
  <1>4. ASSUME NEW c \in Conns, ClientConnects(c) PROVE Delivers(d)
    BY <1>1, <1>4 DEF ClientConnects, Connect, HubTypeOK, Delivers
  <1>5. ASSUME NEW c \in Conns, Deliver(c) PROVE Delivers(d)
    BY <1>1, <1>5 DEF Deliver, WriterSends, HubTypeOK, Delivers
  <1>6. ASSUME NEW c \in Conns, LoseSocket(c) \/ StopReading(c) \/ UnwindConn(c) PROVE Delivers(d)
    BY <1>6 DEF LoseSocket, SocketFails, StopReading, ReadFails, UnwindConn, Unregister, ReaderReturns,
                WriterSeesClose, PingFails, Delivers
  <1>7. ASSUME Crash \/ \E c \in Conns : CrashOfPanic(c) PROVE Delivers(d)
    BY <1>7 DEF Crash, CrashOfPanic, PanicCrashes, Restart, Delivers
  <1>8. ASSUME UNCHANGED vars \/ \E typed \in Commands, v \in Users : Type(typed[1], typed[2], v)
        PROVE  Delivers(d)
    BY <1>8 DEF vars, hubVars, Type, Delivers
  <1>. QED
    BY <1>2, <1>3, <1>4, <1>5, <1>6, <1>7, <1>8 DEF Next

\* The client puts on the sidebar what a true envelope says (events.go:106-145,
\* 213-228).
LEMMA SidebarsTrue ==
  ASSUME ContactsInv, HubInv, SidebarInv, [Next]_vars
  PROVE  SidebarIsTrue'
  <1>1. sidebar \in [Users -> SUBSET Users]
    BY DEF ContactsInv, ClientOK
  <1>2. SidebarIsTrue <=> \A u \in Users : \A v \in sidebar[u] : Befriended(u, v)
    BY DEF SidebarIsTrue, Befriended, Friends
  <1>3. SUFFICES ASSUME NEW u \in Users, NEW v \in sidebar'[u] PROVE Befriended(u, v)'
    BY DEF SidebarIsTrue, Befriended, Friends, Accepted, Status
  <1>4. CASE v \in sidebar[u]
    BY <1>1, <1>2, <1>4, FriendsKept DEF SidebarInv
  <1>5. ASSUME NEW c \in Conns, Deliver(c), v \notin sidebar[u] PROVE Befriended(u, v)'
    <2>1. outbox[c] \in Seq(Envelope) /\ outbox[c] # <<>>
      BY <1>5 DEF Deliver, WriterSends, HubInv, HubTypeOK
    <2>2. PICK e \in Envelope : e = outbox[c][1] /\ e = Head(outbox[c]) /\ 1 \in 1..Len(outbox[c])
      BY <2>1
    <2>3. TrueTo(Owner[c], e)
      BY <2>2 DEF SidebarInv, TrueOutbox
    <2>4. Received(Owner[c], e) /\ ~UNCHANGED sidebar
      BY <1>3, <1>5, <2>2 DEF Deliver, client
    <2>5. e.type \in {"contact_accept", "contact_list"} /\ v \in e.of /\ u = Owner[c]
      BY <1>1, <1>3, <1>5, <2>4, HubAssumption DEF Received, client
    <2>6. e.of \subseteq Users
      BY ContactEnvelopeAssumption DEF ContactEnvelope
    <2>. QED
      BY <2>3, <2>5, <2>6, FriendsKept DEF TrueTo
  <1>6. ASSUME NEW c \in Conns, HandlerStep(c) PROVE sidebar' = sidebar
    BY <1>6 DEF HandlerStep, RequestContact, AcceptContact, DeclineContact, TheirRequest,
                UpgradeRequest, InsertRequest, PushRequest, GetOrCreateConversation, TellSelf,
                TellOther, TellDeclined, SendError, HandlerPanics, client
  <1>7. ASSUME NEW c \in Conns,
               \/ CatchupStep(c) \/ ClientConnects(c) \/ LoseSocket(c)
               \/ StopReading(c) \/ UnwindConn(c)
        PROVE  sidebar' = sidebar
    BY <1>7 DEF CatchupStep, QueryContacts, SendList, QueryRequests, SendRequest, CatchupEnds,
                ClientConnects, LoseSocket, StopReading, UnwindConn, client
  <1>8. ASSUME \/ UNCHANGED vars \/ Crash \/ \E c \in Conns : CrashOfPanic(c)
               \/ \E typed \in Commands, w \in Users : Type(typed[1], typed[2], w)
        PROVE  sidebar' = sidebar
    BY <1>8 DEF vars, client, Crash, CrashOfPanic, AllGone, Type
  <1>. QED
    BY <1>4, <1>5, <1>6, <1>7, <1>8 DEF Next

\* At the start nothing is said of anybody.
LEMMA SidebarInvInit == ContactsInit => SidebarInv
  BY DEF ContactsInit, HubInit, SidebarInv, SidebarIsTrue, TrueOutbox, TrueHandler, TrueCatchup,
         IdleHandler, NoCatchup

\* Every step keeps the invariant.
LEMMA SidebarInvStep ==
  ASSUME NoRivalDecline, ContactsInv, HubInv, SidebarInv, [Next]_vars
  PROVE  SidebarInv'
  <1>1. \A c \in Conns : TrueOutbox(c)' /\ TrueHandler(c)' /\ TrueCatchup(c)'
    BY OutboxesTrue, HandlersTrue, CatchupsTrue
  <1>. QED
    BY <1>1, SidebarsTrue DEF SidebarInv

\* The invariants together, in the form the proofs below use.
LEMMA AllHold == ContactsSpec /\ []NoRivalDecline => [](ContactsInv /\ HubInv /\ SidebarInv)
  <1>1. ContactsInit => ContactsInv /\ HubInv /\ SidebarInv
    BY ContactsInvInit, HubInvInit, SidebarInvInit DEF ContactsInit
  <1>2. ContactsInv /\ HubInv /\ SidebarInv /\ NoRivalDecline /\ [Next]_vars
        => (ContactsInv /\ HubInv /\ SidebarInv)'
    BY ContactsInvStep, StepsOfHub, HubInvStep, SidebarInvStep DEF HubInv
  <1>. QED
    BY <1>1, <1>2, PTL DEF ContactsSpec

\* While no decline is about to overtake the UPDATE of another handler of the
\* same user, a sidebar shows accepted contacts only, each with its
\* conversation, even when statements fail (contacts.go:66-82, 130-165,
\* events.go:106-145, 213-228).
THEOREM SidebarTrue == ContactsSpec /\ []NoRivalDecline => []SidebarIsTrue
  <1>1. SidebarInv => SidebarIsTrue
    BY DEF SidebarInv
  <1>. QED
    BY <1>1, AllHold, PTL

-----------------------------------------------------------------------------
(* Where nobody declines on one connection while another is still handled. *)

\* Who may decline has one connection value, so that no two of its handlers
\* overlap.
DeclinersConnectOnce ==
  \A c, d \in Conns : Owner[c] = Owner[d] /\ <<Owner[c], "decline">> \in Commands => c = d

MayDecline(c) ==
  \A i \in 1..Len(frames[c]) : frames[c][i].cmd = "decline" => <<Owner[c], "decline">> \in Commands

\* A frame has been typed by its user (update.go:699-750).
LEMMA FramesTrue ==
  ASSUME ContactsInv, [Next]_vars, NEW c \in Conns, MayDecline(c)
  PROVE  MayDecline(c)'
  <1>1. /\ frames = [d \in Conns |-> frames[d]] /\ frames[c] \in Seq(FrameType(c)) /\ Len(frames[c]) \in Nat
    BY DEF ContactsInv, FramesOK
  <1>2. CASE frames'[c] = frames[c]
    BY <1>2 DEF MayDecline
  <1>3. CASE frames'[c] = <<>>
    BY <1>3 DEF MayDecline
  <1>4. ASSUME NEW d \in Conns, NEW cmd, NEW v, Frame(d, cmd, v) PROVE MayDecline(c)'
    <2>1. CASE d = c
      <3>1. \A i \in 1..Len(frames'[c]) : i + 1 \in 1..Len(frames[c]) /\ frames'[c][i] = frames[c][i + 1]
        BY <1>4, <2>1, FrameIs
      <3>2. \A i \in 1..Len(frames[c]) : frames[c][i].cmd = "decline" => <<Owner[c], "decline">> \in Commands
        BY DEF MayDecline
      <3>. QED
        BY ONLY <3>1, <3>2 DEF MayDecline
    <2>2. CASE d # c
      BY <1>2, <1>4, <2>2, FrameIs
    <2>. QED
      BY <2>1, <2>2
  <1>5. ASSUME NEW d \in Conns, HandlerStep(d) PROVE MayDecline(c)'
    <2>1. CASE \E v \in Users : RequestContact(d, v) \/ AcceptContact(d, v) \/ DeclineContact(d, v)
      BY <1>4, <2>1 DEF RequestContact, AcceptContact, DeclineContact
    <2>2. ASSUME \/ TheirRequest(d) \/ UpgradeRequest(d) \/ InsertRequest(d) \/ PushRequest(d)
                 \/ GetOrCreateConversation(d) \/ TellSelf(d) \/ TellOther(d)
                 \/ TellDeclined(d) \/ SendError(d) \/ HandlerPanics(d)
          PROVE  frames'[c] = frames[c] \/ frames'[c] = <<>>
      BY <1>1, <2>2 DEF TheirRequest, UpgradeRequest, InsertRequest, PushRequest,
                GetOrCreateConversation, TellSelf, TellOther, TellDeclined, SendError, HandlerPanics
    <2>. QED
      BY <1>2, <1>3, <1>5, <2>1, <2>2 DEF HandlerStep
  <1>6. ASSUME NEW d \in Conns,
               \/ CatchupStep(d) \/ Deliver(d) \/ ClientConnects(d) \/ LoseSocket(d)
               \/ StopReading(d) \/ UnwindConn(d)
        PROVE  frames'[c] = frames[c] \/ frames'[c] = <<>>
    BY <1>1, <1>6 DEF CatchupStep, QueryContacts, SendList, QueryRequests, SendRequest, CatchupEnds,
                Deliver, ClientConnects, LoseSocket, StopReading, UnwindConn
  <1>7. ASSUME Crash \/ \E d \in Conns : CrashOfPanic(d) PROVE frames'[c] = <<>>
    BY <1>7 DEF Crash, CrashOfPanic, AllGone
  <1>8. ASSUME NEW typed \in Commands, NEW v \in Users, Type(typed[1], typed[2], v)
        PROVE  MayDecline(c)'
    <2>1. \/ frames'[c] = frames[c]
          \/ Owner[c] = typed[1] /\ frames'[c] = Append(frames[c], [cmd |-> typed[2], of |-> v])
      BY <1>1, <1>8 DEF Type
    <2>2. CASE Owner[c] = typed[1] /\ frames'[c] = Append(frames[c], [cmd |-> typed[2], of |-> v])
      <3>1. PICK f : f = [cmd |-> typed[2], of |-> v]
        OBVIOUS
      <3>2. typed = <<typed[1], typed[2]>>
        BY ContactsAssumption
      <3>3. /\ Len(frames'[c]) = Len(frames[c]) + 1 /\ frames'[c][Len(frames[c]) + 1] = f
            /\ \A i \in 1..Len(frames[c]) : frames'[c][i] = frames[c][i]
        BY <1>1, <2>2, <3>1
      <3>4. f.cmd = "decline" => <<Owner[c], "decline">> \in Commands
        BY <2>2, <3>1, <3>2
      <3>5. \A i \in 1..Len(frames[c]) : frames[c][i].cmd = "decline" => <<Owner[c], "decline">> \in Commands
        BY DEF MayDecline
      <3>6. \A i \in 1..Len(frames'[c]) : i \in 1..Len(frames[c]) \/ i = Len(frames[c]) + 1
        BY <1>1, <3>3
      <3>. QED
        BY ONLY <3>3, <3>4, <3>5, <3>6 DEF MayDecline
    <2>. QED
      BY <1>2, <2>1, <2>2
  <1>. QED
    BY <1>2, <1>3, <1>5, <1>6, <1>7, <1>8 DEF Next, vars

\* One connection value per decliner rules the overlap out (client.go:126-171:
\* a connection handles its frames one after the other).
THEOREM OneConnectionNoRival ==
  ASSUME DeclinersConnectOnce
  PROVE  ContactsSpec => []NoRivalDecline
  <1>1. ContactsInit => ContactsInv /\ HubInv /\ \A c \in Conns : MayDecline(c)
    BY ContactsInvInit, HubInvInit DEF ContactsInit, MayDecline
  <1>2. ContactsInv /\ HubInv /\ (\A c \in Conns : MayDecline(c)) /\ [Next]_vars
        => ContactsInv' /\ HubInv' /\ (\A c \in Conns : MayDecline(c))'
    <2>1. SUFFICES ASSUME ContactsInv, HubInv, \A c \in Conns : MayDecline(c), [Next]_vars
                   PROVE  ContactsInv' /\ HubInv' /\ \A c \in Conns : MayDecline(c)'
      OBVIOUS
    <2>2. \A c \in Conns : MayDecline(c)'
      BY <2>1, FramesTrue
    <2>3. ContactsInv' /\ HubInv'
      BY <2>1, ContactsInvStep, StepsOfHub, HubInvStep DEF HubInv
    <2>. QED
      BY <2>2, <2>3
  <1>3. ASSUME ContactsInv, \A c \in Conns : MayDecline(c) PROVE NoRivalDecline
    <2>1. SUFFICES ASSUME NEW c \in Conns, NEW d \in Conns, Owner[d] = Owner[c],
                          handler[c].pc = "upgrade", handler[d].pc = "idle", frames[d] # <<>>,
                          Head(frames[d]) = [cmd |-> "decline", of |-> handler[c].peer]
                   PROVE  FALSE
      BY DEF NoRivalDecline
    <2>2. PICK s \in Seq(FrameType(d)) : s = frames[d]
      BY <1>3 DEF ContactsInv, FramesOK
    <2>3. 1 \in 1..Len(frames[d]) /\ frames[d][1] = Head(frames[d])
      BY <2>1, <2>2
    <2>4. <<Owner[d], "decline">> \in Commands
      BY <1>3, <2>1, <2>3 DEF MayDecline
    <2>. QED
      BY <2>1, <2>4 DEF DeclinersConnectOnce
  <1>. QED
    BY <1>1, <1>2, <1>3, PTL DEF ContactsSpec

-----------------------------------------------------------------------------
(* Requests.                                                               *)

Waits(u, v) == contacts[<<v, u>>] = "pending" /\ contacts[<<u, v>>] # "accepted"

\* The parts of Offered that speak of u's connection c, or of who pushes.
CatchingUp(c, v) == catchup[c].pc \in {"list", "send_list", "requests"} \/ v \in catchup[c].todo
Pushing(u, v) == \E d \in Conns : Owner[d] = v /\ handler[d].pc = "push" /\ handler[d].peer = u
Queued(c, v) == \E i \in 1..Len(outbox[c]) : outbox[c][i] = Request(v)
Declining(c, v) == \E i \in 1..Len(frames[c]) : frames[c][i] = [cmd |-> "decline", of |-> v]

\* A request that a catch-up has to send finds room in the outbox, or is there
\* already.
RoomForRequests ==
  \A c \in Conns : catchup[c].pc = "send" => \A v \in catchup[c].todo : Full(c) => Queued(c, v)

\* A step in which u has the connection c throughout.
Steady(u, c) ==
  /\ c \in Conns /\ clients[u] = c /\ clients'[u] = c
  /\ c \in up /\ c \in up' /\ panicked' = {}

\* In any other step u's next connection will find the row, or everything is
\* about to restart.
LEMMA OfferedElsewhere ==
  ASSUME ContactsInv, HubInv, [Next]_vars, NEW u \in Users, NEW v \in Users,
         Offered(u, v), \A c \in Conns : ~Steady(u, c)
  PROVE  Offered(u, v)'
  <1>1. /\ HubTypeOK /\ RegisteredIsLive
        /\ catchup = [c \in Conns |-> catchup[c]]
    BY DEF HubInv, ContactsInv, CatchupsOK
  <1>2. CASE clients'[u] = NoConn \/ clients'[u] \notin up' \/ panicked' # {}
    BY <1>2 DEF Offered
  <1>3. CASE clients'[u] # NoConn /\ clients'[u] \in up' /\ panicked' = {}
    <2>1. ~Crash /\ \A c \in Conns : ~CrashOfPanic(c)
      BY <1>3 DEF Crash, CrashOfPanic, PanicCrashes, Restart
    <2>2. ASSUME NEW c \in Conns, ClientConnects(c) PROVE Offered(u, v)'
      <3>1. CASE Owner[c] = u
        <4>1. clients'[u] = c /\ catchup'[c].pc = "list"
          BY <1>1, <2>2, <3>1 DEF ClientConnects, Connect, Register, Catchup, HubTypeOK
        <4>. QED
          BY <4>1 DEF Offered
      <3>2. CASE Owner[c] # u
        <4>1. clients'[u] = clients[u] /\ up' = up \cup {c} /\ clients[u] \in Conns
          BY <1>1, <1>3, <2>2, <3>2, HubAssumption DEF ClientConnects, Connect, Register, HubTypeOK
        <4>2. clients[u] # c
          BY <1>1, <1>3, <3>2, <4>1 DEF RegisteredIsLive
        <4>3. Steady(u, clients[u])
          BY <1>3, <4>1, <4>2 DEF Steady
        <4>. QED
          BY <4>1, <4>3
      <3>. QED
        BY <3>1, <3>2
    <2>3. ASSUME NEW c \in Conns, HandlerStep(c)
          PROVE  (clients'[u] = clients[u] \/ clients'[u] = NoConn) /\ up' = up
      <3>1. CASE \/ \E w \in Users : RequestContact(c, w) \/ AcceptContact(c, w) \/ DeclineContact(c, w)
                 \/ TheirRequest(c) \/ UpgradeRequest(c) \/ InsertRequest(c) \/ GetOrCreateConversation(c)
                 \/ HandlerPanics(c) \/ TellSelf(c) \/ SendError(c)
        BY <3>1 DEF RequestContact, AcceptContact, DeclineContact, TheirRequest, UpgradeRequest,
                    InsertRequest, GetOrCreateConversation, HandlerPanics, ReaderPanics, hubVars,
                    TellSelf, SendError, Reply, TrySend
      <3>2. CASE PushRequest(c) \/ TellOther(c) \/ TellDeclined(c)
        BY <1>1, <3>2 DEF PushRequest, TellOther, TellDeclined, Route, Enqueue, Unrouted, NoRoute,
                          DropSlow, HubTypeOK
      <3>. QED
        BY <2>3, <3>1, <3>2 DEF HandlerStep
    <2>4. ASSUME NEW c \in Conns,
                 \/ CatchupStep(c) \/ Deliver(c) \/ LoseSocket(c) \/ StopReading(c) \/ UnwindConn(c)
          PROVE  (clients'[u] = clients[u] \/ clients'[u] = NoConn) /\ up' \subseteq up
      <3>1. CASE CatchupStep(c)
        BY <3>1 DEF CatchupStep, QueryContacts, SendList, QueryRequests, SendRequest, CatchupEnds,
                    ServeEnds, Reply, TrySend, hubVars
      <3>2. CASE Deliver(c) \/ LoseSocket(c) \/ StopReading(c)
        BY <3>2 DEF Deliver, WriterSends, LoseSocket, SocketFails, StopReading, ReadFails
      <3>3. CASE UnwindConn(c)
        BY <1>1, <3>3 DEF UnwindConn, Unregister, HubUnregister, ReaderReturns, WriterSeesClose,
                          PingFails, HubTypeOK
      <3>. QED
        BY <2>4, <3>1, <3>2, <3>3
    <2>5. ASSUME UNCHANGED vars \/ \E typed \in Commands, w \in Users : Type(typed[1], typed[2], w)
          PROVE  clients'[u] = clients[u] /\ up' = up
      BY <2>5 DEF vars, hubVars, Type
    <2>6. CASE clients'[u] = clients[u] /\ up' \subseteq up
      <3>1. clients[u] \in Conns
        BY <1>1, <1>3, <2>6 DEF HubTypeOK
      <3>. QED
        BY <1>3, <2>6, <3>1 DEF Steady
    <2>. QED
      BY <1>3, <2>1, <2>2, <2>3, <2>4, <2>5, <2>6 DEF Next
  <1>. QED
    BY <1>2, <1>3

\* What cannot happen in a steady step.
LEMMA SteadyStep ==
  ASSUME HubInv, [Next]_vars, NEW u \in Users, NEW c, Steady(u, c)
  PROVE  /\ c \in Conns /\ Owner[c] = u /\ c \notin closed
         /\ ~Crash /\ ~ClientConnects(c) /\ ~StopReading(c)
         /\ \A d \in Conns : ~CrashOfPanic(d) /\ ~HandlerPanics(d)
  <1>1. c \in Conns /\ clients[u] = c /\ c # NoConn
    BY HubAssumption DEF Steady, HubInv, HubTypeOK
  <1>2. Owner[c] = u /\ c \notin closed /\ Live(c)
    BY <1>1 DEF HubInv, RegisteredIsLive
  <1>3. ~Crash /\ \A d \in Conns : ~CrashOfPanic(d)
    BY <1>1 DEF Crash, CrashOfPanic, PanicCrashes, Restart, Steady
  <1>4. ~ClientConnects(c)
    BY <1>2 DEF ClientConnects, Connect, Free, Live
  <1>5. ~StopReading(c)
    BY DEF StopReading, ReadFails, Steady
  <1>6. \A d \in Conns : ~HandlerPanics(d)
    BY DEF HandlerPanics, ReaderPanics, Steady
  <1>. QED
    BY <1>1, <1>2, <1>3, <1>4, <1>5, <1>6

\* A catch-up that has yet to read the requests reads this one, and what it has
\* read it sends (contacts.go:148-165).
LEMMA CatchupOffers ==
  ASSUME ~DBFaults, ContactsInv, HubInv, RoomForRequests, [Next]_vars,
         NEW u \in Users, NEW v \in Users, u # v, NEW c, Steady(u, c), Waits(u, v), CatchingUp(c, v)
  PROVE  CatchingUp(c, v)' \/ Queued(c, v)'
  <1>1. /\ c \in Conns /\ Owner[c] = u /\ c \notin closed
        /\ ~Crash /\ ~ClientConnects(c)
        /\ \A d \in Conns : ~CrashOfPanic(d)
    BY SteadyStep
  <1>2. /\ catchup = [d \in Conns |-> catchup[d]] /\ outbox \in [Conns -> Seq(Envelope)]
        /\ outbox[c] \in Seq(Envelope)
    BY <1>1 DEF ContactsInv, CatchupsOK, HubInv, HubTypeOK
  <1>3. CASE catchup'[c] = catchup[c]
    BY <1>3 DEF CatchingUp
  <1>4. CASE QueryContacts(c) \/ SendList(c)
    BY <1>1, <1>2, <1>4 DEF QueryContacts, SendList, Catchup, CatchingUp
  <1>5. CASE QueryRequests(c)
    <2>1. v \in PendingIncoming(u)
      BY DEF PendingIncoming, Waits, Status
    <2>. QED
      BY <1>1, <1>2, <1>5, <2>1 DEF QueryRequests, Catchup, CatchingUp
  <1>6. CASE SendRequest(c)
    <2>1. PICK w \in catchup[c].todo : Reply(c, Request(w)) /\ Catchup(c, "send", catchup[c].todo \ {w})
      BY <1>6 DEF SendRequest
    <2>2. CASE w # v
      BY <1>1, <1>2, <1>6, <2>1, <2>2 DEF SendRequest, Catchup, CatchingUp
    <2>3. CASE w = v
      <3>1. PICK e \in Envelope : e = Request(v)
        BY Envelopes
      <3>2. Full(c) => Queued(c, v)
        BY <1>1, <1>6, <2>1, <2>3 DEF RoomForRequests, SendRequest
      <3>3. CASE Full(c)
        <4>1. outbox' = outbox
          BY <2>1, <3>3 DEF Reply, TrySend
        <4>. QED
          BY <3>2, <3>3, <4>1 DEF Queued, Request
      <3>4. CASE ~Full(c)
        <4>1. outbox'[c] = Append(outbox[c], e)
          BY <1>1, <1>2, <2>1, <2>3, <3>1, <3>4 DEF Reply, TrySend
        <4>2. Len(outbox'[c]) \in 1..Len(outbox'[c]) /\ outbox'[c][Len(outbox'[c])] = e
          BY <1>2, <4>1
        <4>. QED
          BY <3>1, <4>2 DEF Queued, Request
      <3>. QED
        BY <3>3, <3>4
    <2>. QED
      BY <2>2, <2>3
  <1>7. ASSUME CatchupEnds(c) PROVE FALSE
    BY <1>1, <1>7 DEF CatchupEnds, CatchingUp
  <1>8. ASSUME NEW d \in Conns, CatchupStep(d), d # c PROVE catchup'[c] = catchup[c]
    BY <1>1, <1>2, <1>8 DEF CatchupStep, QueryContacts, SendList, QueryRequests, SendRequest, CatchupEnds,
                Catchup
  <1>9. ASSUME NEW d \in Conns, HandlerStep(d) PROVE catchup' = catchup
    BY <1>9 DEF HandlerStep, RequestContact, AcceptContact, DeclineContact, TheirRequest,
                UpgradeRequest, InsertRequest, PushRequest, GetOrCreateConversation, TellSelf,
                TellOther, TellDeclined, SendError, HandlerPanics
  <1>10. ASSUME NEW d \in Conns, ClientConnects(d) PROVE catchup'[c] = catchup[c]
    BY <1>1, <1>2, <1>10 DEF ClientConnects, Catchup
  <1>11. ASSUME NEW d \in Conns, Deliver(d) \/ LoseSocket(d) \/ StopReading(d) \/ UnwindConn(d)
         PROVE  catchup' = catchup
    BY <1>11 DEF Deliver, LoseSocket, StopReading, UnwindConn
  <1>12. ASSUME UNCHANGED vars \/ \E typed \in Commands, w \in Users : Type(typed[1], typed[2], w)
         PROVE  catchup' = catchup
    BY <1>12 DEF vars, Type
  <1>. QED
    BY <1>1, <1>3, <1>4, <1>5, <1>6, <1>7, <1>8, <1>9, <1>10, <1>11, <1>12 DEF Next, CatchupStep

\* A panic is forgotten only by a restart (hub.go, client.go:126-135).
LEMMA PanicsKept ==
  ASSUME [Next]_vars
  PROVE  \/ panicked \subseteq panicked' \/ Crash \/ \E d \in Conns : CrashOfPanic(d)
  <1>1. ASSUME NEW c \in Conns, HandlerStep(c) PROVE panicked \subseteq panicked'
    BY <1>1 DEF HandlerStep, RequestContact, AcceptContact, DeclineContact, TheirRequest,
                UpgradeRequest, InsertRequest, PushRequest, GetOrCreateConversation, TellSelf,
                TellOther, TellDeclined, SendError, HandlerPanics, ReaderPanics, Reply, hubVars
  <1>2. ASSUME NEW c \in Conns, CatchupStep(c) PROVE panicked' = panicked
    BY <1>2 DEF CatchupStep, QueryContacts, SendList, QueryRequests, SendRequest, CatchupEnds,
                ServeEnds, Reply, hubVars
  <1>3. ASSUME NEW c \in Conns,
               \/ Deliver(c) \/ ClientConnects(c) \/ LoseSocket(c)
               \/ StopReading(c) \/ UnwindConn(c)
        PROVE  panicked' = panicked
    BY <1>3 DEF Deliver, WriterSends, ClientConnects, Connect, LoseSocket, SocketFails, StopReading,
                ReadFails, UnwindConn, Unregister, ReaderReturns, WriterSeesClose, PingFails
  <1>4. ASSUME UNCHANGED vars \/ \E typed \in Commands, w \in Users : Type(typed[1], typed[2], w)
        PROVE  panicked' = panicked
    BY <1>4 DEF vars, hubVars, Type
  <1>. QED
    BY <1>1, <1>2, <1>3, <1>4 DEF Next

\* A handler about to push the request queues it for u's connection
\* (contacts.go:44-50).
LEMMA PushOffers ==
  ASSUME ContactsInv, HubInv, [Next]_vars, NEW u \in Users, NEW v \in Users, NEW c, Steady(u, c),
         Pushing(u, v)
  PROVE  Pushing(u, v)' \/ Queued(c, v)'
  <1>1. /\ c \in Conns /\ Owner[c] = u
        /\ ~Crash /\ \A d \in Conns : ~CrashOfPanic(d) /\ ~HandlerPanics(d)
    BY SteadyStep
  <1>2. PICK d \in Conns : Owner[d] = v /\ handler[d].pc = "push" /\ handler[d].peer = u
    BY DEF Pushing
  <1>3. CASE handler'[d] = handler[d]
    BY <1>2, <1>3 DEF Pushing
  <1>4. CASE PushRequest(d)
    <2>1. PICK e \in Envelope : e = Request(v)
      BY Envelopes
    <2>2. Route(u, e) /\ outbox[c] \in Seq(Envelope) /\ outbox = [k \in Conns |-> outbox[k]] /\ c # NoConn
      BY <1>1, <1>2, <1>4, <2>1, HubAssumption DEF PushRequest, HubInv, HubTypeOK
    <2>3. clients[u] = c /\ clients'[u] = c /\ clients = [k \in Users |-> clients[k]]
      BY DEF Steady, HubInv, HubTypeOK
    <2>4. outbox'[c] = Append(outbox[c], e)
      BY <1>1, <2>2, <2>3 DEF Route, Enqueue, Unrouted, NoRoute, DropSlow
    <2>5. Len(outbox'[c]) \in 1..Len(outbox'[c]) /\ outbox'[c][Len(outbox'[c])] = e
      BY <2>2, <2>4
    <2>. QED
      BY <2>1, <2>5 DEF Queued, Request
  <1>5. ASSUME HandlerStep(d) PROVE PushRequest(d)
    BY <1>1, <1>2, <1>5 DEF HandlerStep, RequestContact, AcceptContact, DeclineContact, TheirRequest,
                UpgradeRequest, InsertRequest, GetOrCreateConversation, TellSelf,
                TellOther, TellDeclined, SendError, Frame, Handling
  <1>. QED
    BY <1>1, <1>3, <1>4, <1>5, HandlersMove DEF vars

\* An envelope leaves the outbox by being delivered: the client then offers the
\* request (events.go:184-199).
LEMMA QueueOffers ==
  ASSUME ContactsInv, HubInv, SidebarInv, [Next]_vars, NEW u \in Users, NEW v \in Users,
         NEW c, Steady(u, c), Queued(c, v)
  PROVE  Queued(c, v)' \/ v \in requests'[u]
  <1>1. /\ c \in Conns /\ Owner[c] = u /\ ~Crash /\ ~ClientConnects(c)
        /\ \A d \in Conns : ~CrashOfPanic(d)
    BY SteadyStep
  <1>2. HubTypeOK /\ RegisteredIsLive /\ outbox[c] \in Seq(Envelope) /\ Len(outbox[c]) \in Nat
    BY <1>1 DEF HubInv, HubTypeOK
  <1>3. PICK i \in 1..Len(outbox[c]) : outbox[c][i] = Request(v)
    BY DEF Queued
  <1>4. PICK r : r = Request(v)
    OBVIOUS
  <1>5. CASE outbox'[c] = outbox[c]
    BY <1>3, <1>5 DEF Queued, Request
  <1>6. ASSUME NEW e \in Envelope, Queues(c, e) PROVE Queued(c, v)'
    <2>1. i \in 1..Len(outbox'[c]) /\ outbox'[c][i] = outbox[c][i]
      BY <1>2, <1>3, <1>6 DEF Queues
    <2>. QED
      BY <1>3, <2>1 DEF Queued, Request
  <1>7. CASE Deliver(c)
    <2>1. /\ outbox'[c] = Tail(outbox[c]) /\ outbox[c] # <<>> /\ Received(u, Head(outbox[c]))
      BY <1>1, <1>2, <1>7 DEF Deliver, WriterSends, HubTypeOK, Steady
    <2>2. CASE i = 1
      <3>1. Received(u, r)
        BY <1>2, <1>3, <1>4, <2>1, <2>2
      <3>2. requests \in [Users -> SUBSET Users]
        BY DEF ContactsInv, ClientOK
      <3>. QED
        BY <1>4, <3>1, <3>2 DEF Received, Request
    <2>3. CASE i # 1
      <3>1. i - 1 \in 1..Len(outbox'[c]) /\ outbox'[c][i - 1] = outbox[c][i]
        BY <1>2, <1>3, <2>1, <2>3
      <3>. QED
        BY <1>3, <3>1 DEF Queued, Request
    <2>. QED
      BY <2>2, <2>3
  <1>8. ASSUME NEW d \in Conns, HandlerStep(d) \/ CatchupStep(d)
        PROVE  Queued(c, v)' \/ v \in requests'[u]
    <2>1. outbox'[c] = outbox[c] \/ \E e \in Envelope : TrueTo(Owner[c], e)' /\ Queues(c, e)
      BY <1>1, <1>2, <1>8, HandlerSends, CatchupSends
    <2>. QED
      BY <1>5, <1>6, <2>1
  <1>9. ASSUME NEW d \in Conns, Deliver(d) \/ ClientConnects(d), d # c PROVE outbox'[c] = outbox[c]
    BY <1>1, <1>2, <1>9 DEF Deliver, WriterSends, ClientConnects, Connect, HubTypeOK
  <1>10. ASSUME NEW d \in Conns, LoseSocket(d) \/ StopReading(d) \/ UnwindConn(d) PROVE outbox' = outbox
    BY <1>10 DEF LoseSocket, SocketFails, StopReading, ReadFails, UnwindConn, Unregister, ReaderReturns,
                WriterSeesClose, PingFails
  <1>11. ASSUME UNCHANGED vars \/ \E typed \in Commands, w \in Users : Type(typed[1], typed[2], w)
         PROVE  outbox' = outbox
    BY <1>11 DEF vars, hubVars, Type
  <1>. QED
    BY <1>1, <1>5, <1>7, <1>8, <1>9, <1>10, <1>11 DEF Next

\* What the user has been offered stays until it is declined or the two are
\* friends (events.go:213-228, update.go:699-750).
LEMMA RequestsOffer ==
  ASSUME ContactsInv, HubInv, SidebarInv, [Next]_vars, NEW u \in Users, NEW v \in Users,
         NEW c, Steady(u, c), ~Friends(u, v), v \in requests[u]
  PROVE  v \in requests'[u] \/ Declining(c, v)'
  <1>1. c \in Conns /\ Owner[c] = u
    BY SteadyStep
  <1>2. requests \in [Users -> SUBSET Users]
    BY DEF ContactsInv, ClientOK
  <1>3. ASSUME NEW typed \in Commands, NEW w \in Users, Type(typed[1], typed[2], w)
        PROVE  v \in requests'[u] \/ Declining(c, v)'
    <2>1. CASE typed[1] = u /\ typed[2] = "decline" /\ w = v
      <3>1. PICK f : f = [cmd |-> "decline", of |-> v]
        OBVIOUS
      <3>2. frames[c] \in Seq(FrameType(c)) /\ frames'[c] = Append(frames[c], f)
        BY <1>1, <1>3, <2>1, <3>1 DEF Type, Steady, ContactsInv, FramesOK
      <3>3. Len(frames'[c]) \in 1..Len(frames'[c]) /\ frames'[c][Len(frames'[c])] = f
        BY <3>2
      <3>. QED
        BY <3>1, <3>3 DEF Declining
    <2>2. CASE ~(typed[1] = u /\ typed[2] = "decline" /\ w = v)
      BY <1>2, <1>3, <2>2 DEF Type
    <2>. QED
      BY <2>1, <2>2
  <1>4. ASSUME NEW d \in Conns, Deliver(d) PROVE v \in requests'[u]
    <2>1. outbox[d] \in Seq(Envelope) /\ outbox[d] # <<>>
      BY <1>4 DEF Deliver, WriterSends, HubInv, HubTypeOK
    <2>2. PICK e \in Envelope : e = outbox[d][1] /\ e = Head(outbox[d]) /\ 1 \in 1..Len(outbox[d])
      BY <2>1
    <2>3. TrueTo(Owner[d], e)
      BY <2>2 DEF SidebarInv, TrueOutbox
    <2>4. Owner[d] = u /\ e.type = "contact_accept" => v \notin e.of
      BY <2>3 DEF TrueTo, Befriended
    <2>5. UNCHANGED client \/ Received(Owner[d], e)
      BY <1>4, <2>2 DEF Deliver
    <2>. QED
      BY <1>2, <2>4, <2>5, HubAssumption DEF Received, client
  <1>5. ASSUME NEW d \in Conns, HandlerStep(d) PROVE requests' = requests
    BY <1>5 DEF HandlerStep, RequestContact, AcceptContact, DeclineContact, TheirRequest,
                UpgradeRequest, InsertRequest, PushRequest, GetOrCreateConversation, TellSelf,
                TellOther, TellDeclined, SendError, HandlerPanics, client
  <1>6. ASSUME NEW d \in Conns,
               \/ CatchupStep(d) \/ ClientConnects(d) \/ LoseSocket(d)
               \/ StopReading(d) \/ UnwindConn(d)
        PROVE  requests' = requests
    BY <1>6 DEF CatchupStep, QueryContacts, SendList, QueryRequests, SendRequest, CatchupEnds,
                ClientConnects, LoseSocket, StopReading, UnwindConn, client
  <1>7. ASSUME UNCHANGED vars \/ Crash \/ \E d \in Conns : CrashOfPanic(d)
        PROVE  requests' = requests
    BY <1>7 DEF vars, client, Crash, CrashOfPanic, AllGone
  <1>. QED
    BY <1>3, <1>4, <1>5, <1>6, <1>7 DEF Next

\* A decline on its way is read, and then the row is gone (contacts.go:85-104).
LEMMA DeclineOffers ==
  ASSUME ~DBFaults, ContactsInv, HubInv, [Next]_vars, NEW u \in Users, NEW v \in Users, u # v,
         NEW c, Steady(u, c), Waits(u, v), Waits(u, v)', Declining(c, v)
  PROVE  Declining(c, v)'
  <1>1. /\ c \in Conns /\ Owner[c] = u /\ ~Crash /\ ~ClientConnects(c) /\ ~StopReading(c)
        /\ \A d \in Conns : ~CrashOfPanic(d) /\ ~HandlerPanics(d)
    BY SteadyStep
  <1>2. /\ frames = [d \in Conns |-> frames[d]] /\ frames[c] \in Seq(FrameType(c))
        /\ contacts \in [Pairs -> Statuses]
    BY <1>1 DEF ContactsInv, FramesOK, TablesOK
  <1>3. PICK f : f = [cmd |-> "decline", of |-> v]
    OBVIOUS
  <1>4. PICK i \in 1..Len(frames[c]) : frames[c][i] = f
    BY <1>3 DEF Declining
  <1>5. CASE frames'[c] = frames[c]
    BY <1>3, <1>4, <1>5 DEF Declining
  <1>6. ASSUME NEW cmd, NEW w, Frame(c, cmd, w) PROVE Declining(c, v)' \/ (cmd = "decline" /\ w = v)
    <2>1. /\ Len(frames[c]) \in Nat /\ frames[c][1] = [cmd |-> cmd, of |-> w]
          /\ Len(frames'[c]) = Len(frames[c]) - 1
          /\ \A k \in 1..Len(frames'[c]) : k + 1 \in 1..Len(frames[c]) /\ frames'[c][k] = frames[c][k + 1]
      BY <1>1, <1>6, FrameIs
    <2>2. CASE i = 1
      BY <1>3, <1>4, <2>1, <2>2
    <2>3. CASE i # 1
      <3>1. i - 1 \in 1..Len(frames'[c]) /\ (i - 1) + 1 = i
        BY <2>1, <2>3
      <3>2. frames'[c][i - 1] = f
        BY <1>4, <2>1, <3>1
      <3>. QED
        BY <1>3, <3>1, <3>2 DEF Declining
    <2>. QED
      BY <2>2, <2>3
  <1>7. ASSUME NEW w \in Users, RequestContact(c, w) \/ AcceptContact(c, w) PROVE Declining(c, v)'
    BY <1>6, <1>7 DEF RequestContact, AcceptContact
  <1>8. ASSUME NEW w \in Users, DeclineContact(c, w) PROVE Declining(c, v)'
    <2>1. Frame(c, "decline", w)
      BY <1>8 DEF DeclineContact
    <2>2. ASSUME w = v PROVE FALSE
      <3>1. PICK p \in Pairs : p = <<v, u>>
        BY DEF Pairs
      <3>2. contacts[p] = "pending" /\ contacts'[p] = "pending"
        BY <3>1 DEF Waits
      <3>3. contacts' = [contacts EXCEPT ![p] = "none"]
        BY <1>1, <1>8, <2>2, <3>1, <3>2 DEF DeclineContact, Set, Status
      <3>. QED
        BY <1>2, <3>2, <3>3
    <2>. QED
      BY <1>6, <2>1, <2>2
  <1>9. ASSUME NEW d \in Conns, HandlerStep(d), d # c PROVE frames'[c] = frames[c]
    BY <1>1, <1>2, <1>9 DEF HandlerStep, RequestContact, AcceptContact, DeclineContact, TheirRequest,
                UpgradeRequest, InsertRequest, PushRequest, GetOrCreateConversation, TellSelf,
                TellOther, TellDeclined, SendError, Frame
  <1>10. ASSUME \/ TheirRequest(c) \/ UpgradeRequest(c) \/ InsertRequest(c) \/ PushRequest(c)
                \/ GetOrCreateConversation(c) \/ TellSelf(c) \/ TellOther(c)
                \/ TellDeclined(c) \/ SendError(c)
         PROVE  frames' = frames
    BY <1>10 DEF TheirRequest, UpgradeRequest, InsertRequest, PushRequest,
                GetOrCreateConversation, TellSelf, TellOther, TellDeclined, SendError
  <1>11. ASSUME HandlerStep(c) PROVE Declining(c, v)'
    BY <1>1, <1>5, <1>7, <1>8, <1>10, <1>11 DEF HandlerStep
  <1>12. ASSUME NEW d \in Conns, ClientConnects(d) \/ StopReading(d) PROVE frames'[c] = frames[c]
    BY <1>1, <1>2, <1>12 DEF ClientConnects, StopReading
  <1>13. ASSUME NEW d \in Conns, CatchupStep(d) \/ Deliver(d) \/ LoseSocket(d) \/ UnwindConn(d)
         PROVE  frames' = frames
    BY <1>13 DEF CatchupStep, QueryContacts, SendList, QueryRequests, SendRequest, CatchupEnds,
                Deliver, LoseSocket, UnwindConn
  <1>14. ASSUME NEW typed \in Commands, NEW w \in Users, Type(typed[1], typed[2], w)
         PROVE  Declining(c, v)'
    <2>1. PICK g : frames'[c] = frames[c] \/ frames'[c] = Append(frames[c], g)
      BY <1>1, <1>14 DEF Type
    <2>2. CASE frames'[c] = Append(frames[c], g)
      <3>1. i \in 1..Len(frames'[c]) /\ frames'[c][i] = f
        BY <1>2, <1>4, <2>2
      <3>. QED
        BY <1>3, <3>1 DEF Declining
    <2>. QED
      BY <1>5, <2>1, <2>2
  <1>15. ASSUME UNCHANGED vars PROVE frames' = frames
    BY <1>15 DEF vars
  <1>. QED
    BY <1>1, <1>5, <1>9, <1>11, <1>12, <1>13, <1>14, <1>15 DEF Next

\* A request that begins to wait is about to be pushed (store.go:281-286,
\* contacts.go:44-50).
LEMMA NewRequestPushed ==
  ASSUME ContactsInv, [Next]_vars, NEW u \in Users, NEW v \in Users, u # v,
         ~Waits(u, v), Waits(u, v)'
  PROVE  Pushing(u, v)'
  <1>1. PICK p \in Pairs, q \in Pairs : p = <<v, u>> /\ q = <<u, v>>
    BY DEF Pairs
  <1>2. contacts'[p] = "pending" /\ contacts'[q] # "accepted"
    BY <1>1 DEF Waits
  <1>3. contacts[q] # "accepted"
    BY <1>2, AcceptedKept
  <1>4. contacts[p] # "pending"
    BY <1>1, <1>3 DEF Waits
  <1>5. contacts \in [Pairs -> Statuses] /\ handler = [c \in Conns |-> handler[c]]
    BY DEF ContactsInv, TablesOK, HandlersOK
  <1>6. ASSUME NEW c \in Conns, NEW w \in Users,
               AcceptContact(c, w) \/ DeclineContact(c, w) \/ UpgradeRequest(c)
        PROVE  contacts'[p] # "pending"
    BY <1>4, <1>5, <1>6 DEF AcceptContact, DeclineContact, UpgradeRequest, Set
  <1>7. ASSUME NEW c \in Conns, InsertRequest(c) PROVE Pushing(u, v)'
    <2>1. PICK w : w = handler[c].peer
      OBVIOUS
    <2>2. contacts' = [contacts EXCEPT ![<<Owner[c], w>>] = "pending"] /\ Goto(c, "push")
      BY <1>2, <1>4, <1>7, <2>1 DEF InsertRequest, Set
    <2>3. <<Owner[c], w>> = p
      BY <1>2, <1>4, <1>5, <2>2
    <2>4. Owner[c] = v /\ w = u
      BY <1>1, <2>3
    <2>5. handler'[c].pc = "push" /\ handler'[c].peer = u
      BY <1>5, <2>1, <2>2, <2>4 DEF Goto
    <2>. QED
      BY <2>4, <2>5 DEF Pushing
  <1>. QED
    BY <1>2, <1>4, <1>6, <1>7, RowWriters

\* Offered, said with its parts.
LEMMA OfferedParts ==
  ASSUME NEW u, NEW v, NEW c, c = clients[u], c # NoConn, c \in up, panicked = {}
  PROVE  Offered(u, v) <=> \/ CatchingUp(c, v) \/ Pushing(u, v) \/ Queued(c, v)
                           \/ v \in requests[u] \/ Declining(c, v)
  BY DEF Offered, CatchingUp, Pushing, Queued, Declining

\* Every step keeps every request offered.
LEMMA OfferedStep ==
  ASSUME ~DBFaults, ContactsInv, HubInv, SidebarInv, RoomForRequests, [Next]_vars,
         NEW u \in Users, NEW v \in Users, u # v, Waits(u, v) => Offered(u, v), Waits(u, v)'
  PROVE  Offered(u, v)'
  <1>1. CASE ~Waits(u, v)
    <2>1. Pushing(u, v)'
      BY <1>1, NewRequestPushed
    <2>. QED
      BY <2>1 DEF Pushing, Offered
  <1>2. CASE Waits(u, v) /\ \A c \in Conns : ~Steady(u, c)
    BY <1>2, OfferedElsewhere
  <1>3. ASSUME Waits(u, v), NEW c \in Conns, Steady(u, c) PROVE Offered(u, v)'
    <2>1. c # NoConn /\ panicked = {}
      <3>1. /\ c # NoConn /\ ~Crash
            /\ \A d \in Conns : ~CrashOfPanic(d) /\ ~HandlerPanics(d)
        BY <1>3, SteadyStep, HubAssumption
      <3>. QED
        BY <1>3, <3>1, PanicsKept DEF Steady
    <2>2. ~Friends(u, v)
      BY <1>3 DEF Waits, Friends, Accepted, Status
    <2>3. \/ CatchingUp(c, v) \/ Pushing(u, v) \/ Queued(c, v)
          \/ v \in requests[u] \/ Declining(c, v)
      BY <1>3, <2>1, OfferedParts DEF Steady
    <2>4. \/ CatchingUp(c, v)' \/ Pushing(u, v)' \/ Queued(c, v)'
          \/ v \in requests'[u] \/ Declining(c, v)'
      BY <1>3, <2>2, <2>3, CatchupOffers, PushOffers, QueueOffers, RequestsOffer, DeclineOffers
    <2>5. clients'[u] = c
      BY <1>3 DEF Steady
    <2>. QED
      BY <2>4, <2>5 DEF Offered, CatchingUp, Pushing, Queued, Declining
  <1>. QED
    BY <1>1, <1>2, <1>3

\* While the database works, no decline overtakes an UPDATE, and a catch-up finds
\* room for the requests it sends, no request is stranded: as long as its target
\* is connected the pending row is shown to it or about to be (contacts.go:21-104,
\* 148-165, events.go:205-228; PROTOCOL.md:367-370).
THEOREM RequestsReachTarget ==
  ASSUME ~DBFaults
  PROVE  ContactsSpec /\ []NoRivalDecline /\ []RoomForRequests => []NoRequestStranded
  <1>1. ContactsInit => NoRequestStranded
    BY DEF ContactsInit, NoRequestStranded
  <1>2. ContactsInv /\ HubInv /\ SidebarInv /\ RoomForRequests /\ NoRequestStranded /\ [Next]_vars
        => NoRequestStranded'
    <2>1. SUFFICES ASSUME ContactsInv, HubInv, SidebarInv, RoomForRequests, NoRequestStranded, [Next]_vars
                   PROVE  NoRequestStranded'
      OBVIOUS
    <2>2. ASSUME NEW p \in Pairs, contacts'[p] = "pending", contacts'[<<p[2], p[1]>>] # "accepted"
          PROVE  Offered(p[2], p[1])'
      <3>1. PICK v \in Users, u \in Users : p = <<v, u>> /\ u # v
        BY DEF Pairs
      <3>2. Waits(u, v) => Offered(u, v)
        BY <2>1, <3>1 DEF NoRequestStranded, Waits
      <3>3. Waits(u, v)'
        BY <2>2, <3>1 DEF Waits
      <3>4. Offered(u, v)'
        BY <2>1, <3>1, <3>2, <3>3, OfferedStep
      <3>. QED
        BY <3>1, <3>4
    <2>. QED
      BY <2>2 DEF NoRequestStranded
  <1>. QED
    BY <1>1, <1>2, AllHold, PTL DEF ContactsSpec
=============================================================================
