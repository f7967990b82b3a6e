------------------------------ MODULE Contacts ------------------------------
(***************************************************************************)
(* Contact requests on top of the hub: the three handlers of               *)
(* server/contacts.go, the contacts table of server/store/store.go that    *)
(* they read and write statement by statement, the contact list and the    *)
(* pending requests a new connection is sent, and what the client makes of *)
(* it all (client/events.go).                                              *)
(*                                                                         *)
(* A conversation is its pair of users: the table's UNIQUE constraint and  *)
(* the second SELECT of GetOrCreateConversation make creating it one       *)
(* idempotent step.  Frames of other kinds are left out; those of messages *)
(* are in module Delivery.                                                 *)
(***************************************************************************)
EXTENDS Hub

CONSTANTS
  Commands,   \* bound: who may type which of "add", "accept" and "decline" ...
  MaxCmds,    \* bound: ... and how often in all
  NoiseKinds, \* bound: what may disturb, of "socket" failures and "crash"es ...
  MaxNoise,   \* bound: ... and how often
  DBFaults    \* whether a database statement may fail

ASSUME ContactsAssumption ==
  /\ Commands \subseteq Users \X {"add", "accept", "decline"}
  /\ MaxCmds \in Nat /\ MaxNoise \in Nat
  /\ NoiseKinds \subseteq {"socket", "crash"}
  /\ DBFaults \in BOOLEAN

Pairs == {p \in Users \X Users : p[1] # p[2]}

Request(u) == [type |-> "contact_request", of |-> {u}]
Accept(u) == [type |-> "contact_accept", of |-> {u}]
Decline(u) == [type |-> "contact_decline", of |-> {u}]
ContactList(S) == [type |-> "contact_list", of |-> S]
Error == [type |-> "error", of |-> {}]
ContactEnvelope ==
  [type : {"contact_request", "contact_accept", "contact_decline", "contact_list", "error"},
   of : SUBSET Users]

ASSUME ContactEnvelopeAssumption == Envelope = ContactEnvelope

VARIABLES
  contacts,      \* table contacts: (user_a, user_b) -> status, "none" without a row
  conversations, \* table conversations: pairs of users
  handler,       \* the handler readPump is in, and whom the command names
  catchup,       \* serveWS: what it does next, and the users it has to send
  frames,        \* commands on their way to each readPump
  sidebar,       \* client: model.contacts
  requests,      \* client: model.pendingRequests
  cmds,          \* what is left of MaxCmds
  noise          \* what is left of MaxNoise

tables == <<contacts, conversations>>
client == <<sidebar, requests>>
bounds == <<cmds, noise>>
vars == <<hubVars, tables, handler, catchup, frames, client, bounds>>

IdleHandler == [pc |-> "idle", peer |-> NoConn]
NoCatchup == [pc |-> "none", todo |-> {}]

ContactsTypeOK ==
  /\ contacts \in [Pairs -> {"none", "pending", "accepted"}]
  /\ conversations \subseteq {{p[1], p[2]} : p \in Pairs}
  /\ \A c \in Conns :
       /\ handler[c].pc \in {"idle", "theirs", "upgrade", "insert", "converse", "tell_self",
                             "tell_other", "push", "declined", "error"}
       /\ handler[c].pc = "idle" \/ handler[c].peer \in Users \ {Owner[c]}
       /\ catchup[c].pc \in {"none", "list", "send_list", "requests", "send"}
       /\ catchup[c].todo \subseteq Users \ {Owner[c]}
  /\ frames \in [Conns -> Seq([cmd : {"add", "accept", "decline"}, of : Users])]
  /\ sidebar \in [Users -> SUBSET Users]
  /\ requests \in [Users -> SUBSET Users]
  /\ cmds \in 0..MaxCmds /\ noise \in 0..MaxNoise

ContactsInit ==
  /\ HubInit
  /\ contacts = [p \in Pairs |-> "none"]
  /\ conversations = {}
  /\ handler = [c \in Conns |-> IdleHandler]
  /\ catchup = [c \in Conns |-> NoCatchup]
  /\ frames = [c \in Conns |-> <<>>]
  /\ sidebar = [u \in Users |-> {}]
  /\ requests = [u \in Users |-> {}]
  /\ cmds = MaxCmds
  /\ noise = MaxNoise

Handling(c, pc) == reader[c] = "reading" /\ handler[c].pc = pc
Goto(c, pc) == handler' = [handler EXCEPT ![c] = [pc |-> pc, peer |-> @.peer]]
Done(c) == handler' = [handler EXCEPT ![c] = IdleHandler]
Noise(kind) == kind \in NoiseKinds /\ noise > 0 /\ noise' = noise - 1

\* The next frame of c is command cmd about v.
Frame(c, cmd, v) ==
  /\ Handling(c, "idle")
  /\ frames[c] # <<>> /\ Head(frames[c]) = [cmd |-> cmd, of |-> v]
  /\ frames' = [frames EXCEPT ![c] = Tail(@)]

Start(c, pc, v) == handler' = [handler EXCEPT ![c] = [pc |-> pc, peer |-> v]]

\* contactStatus(u, v).
Status(u, v) == contacts[<<u, v>>]
Set(u, v, status) == contacts' = [contacts EXCEPT ![<<u, v>>] = status]

-----------------------------------------------------------------------------
(* handleContactRequest: the statements of RequestContact.                 *)

\* "Did we already request (or already have) this contact?"
RequestContact(c, v) ==
  /\ Frame(c, "add", v)
  /\ LET status == Status(Owner[c], v) IN
       \/ status = "pending" /\ Start(c, "push", v)
       \/ status = "accepted" /\ Start(c, "converse", v)
       \/ status = "none" /\ Start(c, "theirs", v)
       \/ DBFaults /\ Start(c, "error", v)
  /\ UNCHANGED <<hubVars, tables, catchup, client, bounds>>

\* "Did target already request us?"
TheirRequest(c) ==
  /\ Handling(c, "theirs")
  /\ LET status == Status(handler[c].peer, Owner[c]) IN
       \/ status = "pending" /\ Goto(c, "upgrade")
       \/ status = "accepted" /\ Goto(c, "converse")
       \/ status = "none" /\ Goto(c, "insert")
       \/ DBFaults /\ Goto(c, "error")
  /\ UNCHANGED <<hubVars, tables, catchup, frames, client, bounds>>

\* UPDATE ... SET status = 'accepted', of a row that may be gone by now.
UpgradeRequest(c) ==
  /\ Handling(c, "upgrade")
  /\ \/ /\ Goto(c, "converse")
        /\ IF Status(handler[c].peer, Owner[c]) = "none" THEN UNCHANGED contacts
           ELSE Set(handler[c].peer, Owner[c], "accepted")
     \/ /\ DBFaults
        /\ Goto(c, "error")
        /\ UNCHANGED contacts
  /\ UNCHANGED <<hubVars, conversations, catchup, frames, client, bounds>>

\* Mutant of InsertRequest: the target is not told.
InsertQuietly(c) ==
  /\ Handling(c, "insert")
  /\ Status(Owner[c], handler[c].peer) = "none"
  /\ Set(Owner[c], handler[c].peer, "pending")
  /\ Done(c)
  /\ UNCHANGED <<hubVars, conversations, catchup, frames, client, bounds>>

\* INSERT, which the primary key may refuse.
InsertRequest(c) ==
  /\ Handling(c, "insert")
  /\ \/ /\ Status(Owner[c], handler[c].peer) = "none"
        /\ Set(Owner[c], handler[c].peer, "pending")
        /\ Goto(c, "push")
     \/ /\ Status(Owner[c], handler[c].peer) # "none" \/ DBFaults
        /\ Goto(c, "error")
        /\ UNCHANGED contacts
  /\ UNCHANGED <<hubVars, conversations, catchup, frames, client, bounds>>

PushRequest(c) ==
  /\ Handling(c, "push")
  /\ Route(handler[c].peer, Request(Owner[c]))
  /\ Done(c)
  /\ UNCHANGED <<reader, writer, panicked, serving, up,
                 tables, catchup, frames, client, bounds>>

-----------------------------------------------------------------------------
(* handleContactAccept, handleContactDecline, notifyContactAccepted.       *)

\* Mutant of AcceptContact: RowsAffected is not looked at.
AcceptUnchecked(c, v) ==
  /\ Frame(c, "accept", v)
  /\ contacts' = IF Status(v, Owner[c]) = "pending"
                 THEN [contacts EXCEPT ![<<v, Owner[c]>>] = "accepted"] ELSE contacts
  /\ Start(c, "converse", v)
  /\ UNCHANGED <<hubVars, conversations, catchup, client, bounds>>

\* Store.AcceptContact: UPDATE ... WHERE status = 'pending'.
AcceptContact(c, v) ==
  /\ Frame(c, "accept", v)
  /\ \/ /\ Status(v, Owner[c]) = "pending"
        /\ Set(v, Owner[c], "accepted")
        /\ Start(c, "converse", v)
     \/ /\ Status(v, Owner[c]) # "pending" \/ DBFaults
        /\ Start(c, "error", v)
        /\ UNCHANGED contacts
  /\ UNCHANGED <<hubVars, conversations, catchup, client, bounds>>

\* Mutant of DeclineContact: DELETE whatever the status.
DeclineAny(c, v) ==
  /\ Frame(c, "decline", v)
  /\ Status(v, Owner[c]) # "none"
  /\ Set(v, Owner[c], "none")
  /\ Start(c, "declined", v)
  /\ UNCHANGED <<hubVars, conversations, catchup, client, bounds>>

\* Mutant of DeclineContact: a refused request is remembered.
DeclineKeepsRow(c, v) ==
  /\ Frame(c, "decline", v)
  /\ Status(v, Owner[c]) = "pending"
  /\ Set(v, Owner[c], "declined")
  /\ Start(c, "declined", v)
  /\ UNCHANGED <<hubVars, conversations, catchup, client, bounds>>

\* Store.DeclineContact: DELETE ... WHERE status = 'pending'.
DeclineContact(c, v) ==
  /\ Frame(c, "decline", v)
  /\ \/ /\ Status(v, Owner[c]) = "pending"
        /\ Set(v, Owner[c], "none")
        /\ Start(c, "declined", v)
     \/ /\ Status(v, Owner[c]) # "pending" \/ DBFaults
        /\ Start(c, "error", v)
        /\ UNCHANGED contacts
  /\ UNCHANGED <<hubVars, conversations, catchup, client, bounds>>

\* When GetOrCreateConversation fails nobody is told.
GetOrCreateConversation(c) ==
  /\ Handling(c, "converse")
  /\ \/ /\ conversations' = conversations \cup {{Owner[c], handler[c].peer}}
        /\ Goto(c, "tell_self")
     \/ /\ DBFaults
        /\ Done(c)
        /\ UNCHANGED conversations
  /\ UNCHANGED <<hubVars, contacts, catchup, frames, client, bounds>>

TellSelf(c) ==
  /\ Handling(c, "tell_self")
  /\ Reply(c, Accept(handler[c].peer))
  /\ Goto(c, "tell_other")
  /\ UNCHANGED <<tables, catchup, frames, client, bounds>>

TellOther(c) ==
  /\ Handling(c, "tell_other")
  /\ Route(handler[c].peer, Accept(Owner[c]))
  /\ Done(c)
  /\ UNCHANGED <<reader, writer, panicked, serving, up,
                 tables, catchup, frames, client, bounds>>

TellDeclined(c) ==
  /\ Handling(c, "declined")
  /\ Route(handler[c].peer, Decline(Owner[c]))
  /\ Done(c)
  /\ UNCHANGED <<reader, writer, panicked, serving, up,
                 tables, catchup, frames, client, bounds>>

SendError(c) ==
  /\ Handling(c, "error")
  /\ Reply(c, Error)
  /\ Done(c)
  /\ UNCHANGED <<tables, catchup, frames, client, bounds>>

-----------------------------------------------------------------------------
(* The catch-up of a new connection: pushContactList and                   *)
(* pushPendingContactRequests.                                             *)

Accepted(u) == {v \in Users \ {u} : Status(u, v) = "accepted" \/ Status(v, u) = "accepted"}
PendingIncoming(u) == {v \in Users \ {u} : Status(v, u) = "pending"}

Catchup(c, pc, todo) == catchup' = [catchup EXCEPT ![c] = [pc |-> pc, todo |-> todo]]

\* AcceptedContacts; when it fails no list is sent.
QueryContacts(c) ==
  /\ catchup[c].pc = "list"
  /\ \/ Catchup(c, "send_list", Accepted(Owner[c]))
     \/ DBFaults /\ Catchup(c, "requests", {})
  /\ UNCHANGED <<hubVars, tables, handler, frames, client, bounds>>

\* A contact whose conversation cannot be had is left out of the list.
SendList(c) ==
  /\ catchup[c].pc = "send_list"
  /\ \E S \in IF DBFaults THEN SUBSET catchup[c].todo ELSE {catchup[c].todo} :
       /\ conversations' = conversations \cup {{Owner[c], v} : v \in S}
       /\ Reply(c, ContactList(S))
  /\ Catchup(c, "requests", {})
  /\ UNCHANGED <<contacts, handler, frames, client, bounds>>

QueryRequests(c) ==
  /\ catchup[c].pc = "requests"
  /\ \/ Catchup(c, "send", PendingIncoming(Owner[c]))
     \/ DBFaults /\ Catchup(c, "send", {})
  /\ UNCHANGED <<hubVars, tables, handler, frames, client, bounds>>

SendRequest(c) ==
  /\ catchup[c].pc = "send"
  /\ \E v \in catchup[c].todo : /\ Reply(c, Request(v))
                                /\ Catchup(c, "send", catchup[c].todo \ {v})
  /\ UNCHANGED <<tables, handler, frames, client, bounds>>

\* All is sent, or a trySend on the closed outbox panics.
CatchupEnds(c) ==
  /\ \/ catchup[c].pc = "send" /\ catchup[c].todo = {}
     \/ catchup[c].pc \in {"send_list", "send"} /\ c \in closed
  /\ ServeEnds(c)
  /\ catchup' = [catchup EXCEPT ![c] = NoCatchup]
  /\ UNCHANGED <<tables, handler, frames, client, bounds>>

-----------------------------------------------------------------------------
(* The client.                                                             *)

\* runCommand: what is typed without a connection is dropped; /decline is
\* shown as done at once.
Type(u, cmd, v) ==
  /\ u # v
  /\ cmds > 0 /\ cmds' = cmds - 1
  /\ frames' = [c \in Conns |-> IF c \in up /\ Owner[c] = u
                                THEN Append(frames[c], [cmd |-> cmd, of |-> v])
                                ELSE frames[c]]
  /\ requests' = IF cmd = "decline" THEN [requests EXCEPT ![u] = @ \ {v}] ELSE requests
  /\ UNCHANGED <<hubVars, tables, handler, catchup, sidebar, noise>>

\* Mutant of Received: a request already adds its sender to the sidebar.
ReceivedRequestAsAccept(u, e) ==
  /\ sidebar' = IF e.type = "contact_list" THEN [sidebar EXCEPT ![u] = e.of]
                ELSE [sidebar EXCEPT ![u] = @ \cup e.of]
  /\ UNCHANGED requests

\* handleContactList, handleContactRequest and handleContactAccept; a decline
\* or an error only changes the notice.
Received(u, e) ==
  CASE e.type = "contact_list" ->
         /\ sidebar' = [sidebar EXCEPT ![u] = e.of]
         /\ UNCHANGED requests
    [] e.type = "contact_request" ->
         /\ requests' = [requests EXCEPT ![u] = @ \cup e.of]
         /\ UNCHANGED sidebar
    [] e.type = "contact_accept" /\ ~(e.of \subseteq sidebar[u]) ->
         /\ sidebar' = [sidebar EXCEPT ![u] = @ \cup e.of]
         /\ requests' = [requests EXCEPT ![u] = @ \ e.of]
    [] OTHER -> UNCHANGED client

Deliver(c) ==
  /\ WriterSends(c)
  /\ IF c \in up THEN Received(Owner[c], Head(outbox[c])) ELSE UNCHANGED client
  /\ UNCHANGED <<tables, handler, catchup, frames, bounds>>

\* The client dials when it has no working socket.
ClientConnects(c) ==
  /\ \A d \in up : Owner[d] # Owner[c]
  /\ Connect(c)
  /\ frames' = [frames EXCEPT ![c] = <<>>]
  /\ Catchup(c, "list", {})
  /\ UNCHANGED <<tables, handler, client, bounds>>

-----------------------------------------------------------------------------
(* The rest of a connection's life, with the hub's steps.                  *)

LoseSocket(c) ==
  /\ Noise("socket")
  /\ SocketFails(c)
  /\ UNCHANGED <<tables, handler, catchup, frames, client, cmds>>

\* Frames not read yet are lost.
StopReading(c) ==
  /\ Handling(c, "idle")
  /\ ReadFails(c)
  /\ frames' = [frames EXCEPT ![c] = <<>>]
  /\ UNCHANGED <<tables, handler, catchup, client, bounds>>

HandlerPanics(c) ==
  /\ handler[c].pc \in {"tell_self", "error"}
  /\ ReaderPanics(c)
  /\ Done(c)
  /\ frames' = [frames EXCEPT ![c] = <<>>]
  /\ UNCHANGED <<tables, catchup, client, bounds>>

UnwindConn(c) ==
  /\ Unregister(c) \/ ReaderReturns(c) \/ WriterSeesClose(c) \/ PingFails(c)
  /\ UNCHANGED <<tables, handler, catchup, frames, client, bounds>>

AllGone ==
  /\ handler' = [c \in Conns |-> IdleHandler]
  /\ catchup' = [c \in Conns |-> NoCatchup]
  /\ frames' = [c \in Conns |-> <<>>]
  /\ UNCHANGED <<tables, client, cmds>>

Crash == Noise("crash") /\ Restart /\ AllGone

CrashOfPanic(c) == PanicCrashes(c) /\ AllGone /\ UNCHANGED noise

HandlerStep(c) ==
  \/ \E v \in Users : RequestContact(c, v) \/ AcceptContact(c, v) \/ DeclineContact(c, v)
  \/ TheirRequest(c) \/ UpgradeRequest(c) \/ InsertRequest(c) \/ PushRequest(c)
  \/ GetOrCreateConversation(c) \/ TellSelf(c) \/ TellOther(c)
  \/ TellDeclined(c) \/ SendError(c) \/ HandlerPanics(c)

CatchupStep(c) ==
  QueryContacts(c) \/ SendList(c) \/ QueryRequests(c) \/ SendRequest(c) \/ CatchupEnds(c)

Next ==
  \/ \E c \in Conns :
       \/ HandlerStep(c)
       \/ CatchupStep(c)
       \/ Deliver(c)
       \/ ClientConnects(c)
       \/ LoseSocket(c)
       \/ StopReading(c)
       \/ UnwindConn(c)
       \/ CrashOfPanic(c)
  \/ \E typed \in Commands, v \in Users : Type(typed[1], typed[2], v)
  \/ Crash

ContactsSpec == ContactsInit /\ [][Next]_vars

-----------------------------------------------------------------------------
(* Properties.                                                             *)

\* Contact handling takes no liberty with the hub (contacts.go only uses
\* hub.route and trySend).
ImplementsHub == HubSafeSpec

\* Who has become a contact stays one, whatever requests, declines and
\* crashes race with it (store.go:254-334).
AcceptedStays ==
  [][\A p \in Pairs : contacts[p] = "accepted" => contacts'[p] = "accepted"]_vars

\* A sidebar shows accepted contacts only, each with the conversation that
\* messages to it will name (contacts.go:66-82, 130-165, events.go:106-145,
\* 213-228).
SidebarIsTrue ==
  \A u \in Users : \A v \in sidebar[u] :
    v \in Accepted(u) /\ {u, v} \in conversations

\* Somebody is still going to show v's request to u, or u has it, or u has
\* just declined it.
Offered(u, v) ==
  LET c == clients[u] IN
    \/ c = NoConn \/ c \notin up   \* the next connection's catch-up finds the row
    \/ catchup[c].pc \in {"list", "send_list", "requests"}
    \/ v \in catchup[c].todo
    \/ \E d \in Conns : Owner[d] = v /\ handler[d].pc = "push" /\ handler[d].peer = u
    \/ \E i \in 1..Len(outbox[c]) : outbox[c][i] = Request(v)
    \/ v \in requests[u]
    \/ \E i \in 1..Len(frames[c]) : frames[c][i] = [cmd |-> "decline", of |-> v]
    \/ panicked # {}

\* No request is stranded: while its target is connected, a pending row is
\* shown to the target or about to be ("the pending row itself is the durable
\* record", PROTOCOL.md:367-370), provided no outbox overflows.
NoRequestStranded ==
  \A p \in Pairs :
    contacts[p] = "pending" /\ contacts[<<p[2], p[1]>>] # "accepted" => Offered(p[2], p[1])
=============================================================================
