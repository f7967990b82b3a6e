------------------------------ MODULE Presence ------------------------------
(***************************************************************************)
(* Presence and typing on top of the hub: the "online" that serveWS and    *)
(* the "offline" that readPump's deferred function broadcast               *)
(* (server/client.go, server/presence.go), the contact list with its       *)
(* snapshot of who is online (server/contacts.go), the relay of typing     *)
(* indicators, and what the clients show (client/events.go).               *)
(*                                                                         *)
(* serveWS and readPump of one connection are two goroutines, and each     *)
(* routes one contact after the other; nothing orders the broadcasts of    *)
(* one connection, or of two connections of one user.  Who has whom as an  *)
(* accepted contact does not change here: module Contacts is about that.   *)
(* The replies and replays that follow the list in serveWS are left out.   *)
(***************************************************************************)
EXTENDS Hub

CONSTANTS
  Contact,    \* AcceptedContacts of each user, those of interest (a bound)
  MaxBursts,  \* bound: bursts of typing
  NoiseKinds, \* bound: what may disturb, of "socket" failures, "crash"es, failing
              \* "db" statements and "frames" of other kinds ...
  MaxNoise    \* bound: ... and how often

ASSUME PresenceAssumption ==
  /\ Contact \in [Users -> SUBSET Users]
  /\ \A u \in Users : u \notin Contact[u]
  /\ MaxBursts \in Nat /\ MaxNoise \in Nat
  /\ NoiseKinds \subseteq {"socket", "crash", "db", "frames"}
  /\ NoConn \notin Users

Presence(u, on) == [type |-> "presence", of |-> {u}, on |-> on]
Typing(u, on) == [type |-> "typing", of |-> {u}, on |-> on]
ContactList(S, on) == [type |-> "contact_list", of |-> S, on |-> on]
Other == [type |-> "other", of |-> {}, on |-> {}]
PresenceEnvelope ==
  [type : {"presence", "typing", "contact_list", "other"}, of : SUBSET Users, on : SUBSET Users]

ASSUME PresenceEnvelopeAssumption == Envelope = PresenceEnvelope

VARIABLES
  serve,    \* serveWS: what it does next; whom it has to tell, or whom it found online
  farewell, \* readPump's deferred function: whom it has to tell
  frames,   \* typing frames on their way to each readPump
  sidebar,  \* client: model.contacts ...
  online,   \* ... those with contact.online set ...
  typing,   \* ... and model.typing; "kept" is shown since an earlier connection
  burst,    \* client: the contact a burst of typing goes to ...
  unsaid,   \* ... and <<u, v>>: trySend dropped the end of a burst of v's to u
  bursts,   \* what is left of MaxBursts
  noise,    \* what is left of MaxNoise
  misled,   \* <<u, v>>: the last word to u's connection about v was overtaken and not true
  unheard   \* <<u, v>>: a failing statement or a full outbox has kept a word about v from u

client == <<sidebar, online, typing, burst, unsaid>>
vars == <<hubVars, serve, farewell, frames, client, bursts, noise, misled, unheard>>

Idle == [pc |-> "none", of |-> {}]
Watchers(v) == {u \in Users : v \in Contact[u]}
Pairs == {p \in Users \X Users : p[2] \in Contact[p[1]]}

PresenceTypeOK ==
  /\ serve \in [Conns -> [pc : {"none", "online", "send_list"}, of : SUBSET Users]]
  /\ \A c \in Conns : /\ serve[c].of \subseteq Users \ {Owner[c]}
                      /\ farewell[c] \subseteq Watchers(Owner[c])
                      /\ serve[c].pc # "none" <=> c \in serving
                      /\ farewell[c] # {} => reader[c] = "announcing"
  /\ frames \in [Conns -> Seq([to : Users, on : BOOLEAN])]
  /\ \A u \in Users : /\ sidebar[u] \subseteq Contact[u]
                      /\ online[u] \subseteq sidebar[u]
                      /\ burst[u] \in Users \cup {NoConn}
  /\ typing \in [Pairs -> {"no", "shown", "kept"}]
  /\ bursts \in 0..MaxBursts /\ noise \in 0..MaxNoise
  /\ misled \subseteq Pairs /\ unheard \subseteq Pairs /\ unsaid \subseteq Pairs

PresenceInit ==
  /\ HubInit
  /\ serve = [c \in Conns |-> Idle]
  /\ farewell = [c \in Conns |-> {}]
  /\ frames = [c \in Conns |-> <<>>]
  /\ sidebar = [u \in Users |-> {}]
  /\ online = [u \in Users |-> {}]
  /\ typing = [p \in Pairs |-> "no"]
  /\ burst = [u \in Users |-> NoConn]
  /\ bursts = MaxBursts
  /\ noise = MaxNoise
  /\ misled = {} /\ unheard = {} /\ unsaid = {}

Noise(kind) == kind \in NoiseKinds /\ noise > 0 /\ noise' = noise - 1
Serve(c, pc, S) == serve' = [serve EXCEPT ![c] = [pc |-> pc, of |-> S]]
Registered(u) == clients[u] # NoConn

-----------------------------------------------------------------------------
(* broadcastPresence, by serveWS and by readPump.                          *)

\* What u will believe of v once it has read all that it has been sent and
\* its contact list, when the envelope routed now says `on`.
LastWord(u, v, on) ==
  LET c == clients[u] IN IF serve[c].pc = "send_list" THEN v \in serve[c].of ELSE on

\* What may overtake a broadcast to u about v: u's contact list, another
\* connection of v, the other goroutine of v's connection.
Overtaken(u, v) ==
  \/ clients[u] # NoConn /\ serve[clients[u]].pc = "send_list"
  \/ \E d \in Conns : /\ Owner[d] = v /\ ~Free(d)
                      /\ \/ \E e \in Conns \ {d} : Owner[e] = v /\ ~Free(e)
                         \/ serve[d].pc = "online" /\ reader[d] # "reading"

\* One contact u is told about v.
Tell(u, v, on) ==
  /\ Route(u, Presence(v, IF on THEN {v} ELSE {}))
  /\ misled' = CASE outbox' = outbox -> misled
                 [] outbox' # outbox /\ LastWord(u, v, on) # Registered(v) /\ Overtaken(u, v) ->
                      misled \cup {<<u, v>>}
                 [] OTHER -> misled \ {<<u, v>>}

\* AcceptedContacts; when it fails nobody is told.
Audience(u) ==
  \/ unheard' = unheard /\ noise' = noise
  \/ unheard' = unheard \cup (Watchers(u) \X {u}) /\ Noise("db")

\* The client dials when it has no working socket; serveWS registers the
\* connection and starts to broadcast "online".
ComeOnline(c) ==
  /\ \A d \in up : Owner[d] # Owner[c]
  /\ Connect(c)
  /\ Audience(Owner[c])
  /\ Serve(c, "online", IF noise' = noise THEN Watchers(Owner[c]) ELSE {})
  /\ frames' = [frames EXCEPT ![c] = <<>>]
  /\ typing' = [p \in Pairs |-> IF p[1] = Owner[c] /\ typing[p] = "shown"
                                THEN "kept" ELSE typing[p]]
  /\ UNCHANGED <<farewell, sidebar, online, burst, unsaid, bursts, misled>>

TellOnline(c) ==
  /\ serve[c].pc = "online"
  /\ \E u \in serve[c].of : /\ Tell(u, Owner[c], TRUE)
                            /\ Serve(c, "online", serve[c].of \ {u})
  /\ UNCHANGED <<reader, writer, panicked, serving, up, farewell, frames, client,
                 bursts, noise, unheard>>

\* Mutant of SayGoodbye: only the connection still registered broadcasts.
SayGoodbyeIfCurrent(c) ==
  /\ Unregister(c)
  /\ farewell' = [farewell EXCEPT ![c] = IF clients[Owner[c]] = c THEN Watchers(Owner[c]) ELSE {}]
  /\ UNCHANGED <<serve, frames, client, bursts, noise, misled, unheard>>

\* readPump's deferred function: unregister, then the broadcast.
SayGoodbye(c) ==
  /\ Unregister(c)
  /\ Audience(Owner[c])
  /\ farewell' = [farewell EXCEPT ![c] = IF noise' = noise THEN Watchers(Owner[c]) ELSE {}]
  /\ UNCHANGED <<serve, frames, client, bursts, misled>>

TellOffline(c) ==
  /\ \E u \in farewell[c] : /\ Tell(u, Owner[c], FALSE)
                            /\ farewell' = [farewell EXCEPT ![c] = @ \ {u}]
  /\ UNCHANGED <<reader, writer, panicked, serving, up, serve, frames, client,
                 bursts, noise, unheard>>

ReaderEnds(c) ==
  /\ farewell[c] = {}
  /\ ReaderReturns(c)
  /\ UNCHANGED <<serve, farewell, frames, client, bursts, noise, misled, unheard>>

-----------------------------------------------------------------------------
(* pushContactList.                                                        *)

\* AcceptedContacts and hub.OnlineStatus.
AskOnline(c) ==
  /\ serve[c].pc = "online" /\ serve[c].of = {}
  /\ Serve(c, "send_list", {v \in Contact[Owner[c]] : Registered(v)})
  /\ misled' = {p \in misled : p[1] # Owner[c] \/ c # clients[Owner[c]]}
  /\ UNCHANGED <<hubVars, farewell, frames, client, bursts, noise, unheard>>

\* AcceptedContacts fails: no list is sent.
AskNobody(c) ==
  /\ serve[c].pc = "online" /\ serve[c].of = {}
  /\ Noise("db")
  /\ ServeEnds(c)
  /\ Serve(c, "none", {})
  /\ unheard' = unheard \cup ({Owner[c]} \X Contact[Owner[c]])
  /\ UNCHANGED <<farewell, frames, client, bursts, misled>>

\* The list, and serveWS is done; on a closed outbox the panic ends it.
SendList(c) ==
  /\ serve[c].pc = "send_list"
  /\ \/ /\ TrySend(c, ContactList(Contact[Owner[c]], serve[c].of))
        /\ unheard' = IF Full(c) THEN unheard \cup ({Owner[c]} \X Contact[Owner[c]]) ELSE unheard
     \/ c \in closed /\ UNCHANGED <<clients, outbox, closed, unheard>>
  /\ serving' = serving \ {c}
  /\ Serve(c, "none", {})
  /\ UNCHANGED <<reader, writer, panicked, up, farewell, frames, client, bursts, noise, misled>>

-----------------------------------------------------------------------------
(* Typing: the client's bursts and handleTyping.                           *)

\* sendTyping over the connection in use, if there is one.  Frames of all
\* kinds share the client's outbox; trySend drops what finds it full.
SendTyping(u, v, on) ==
  \/ /\ frames' = [c \in Conns |-> IF c \in up /\ Owner[c] = u
                                   THEN Append(frames[c], [to |-> v, on |-> on]) ELSE frames[c]]
     /\ unsaid' = unsaid
  \/ /\ \E c \in up : Owner[c] = u
     /\ frames' = frames
     /\ unsaid' = IF on THEN unsaid ELSE unsaid \cup {<<v, u>>}

\* handleTypingKeystroke
StartTyping(u, v) ==
  /\ burst[u] = NoConn /\ u \in Contact[v]
  /\ bursts > 0 /\ bursts' = bursts - 1
  /\ burst' = [burst EXCEPT ![u] = v]
  /\ SendTyping(u, v, TRUE)
  /\ UNCHANGED <<hubVars, serve, farewell, sidebar, online, typing, noise, misled, unheard>>

\* The input is emptied or sent, another conversation is opened, or no key
\* is pressed for typingIdleTimeout.
StopTyping(u) ==
  /\ burst[u] # NoConn
  /\ SendTyping(u, burst[u], FALSE)
  /\ burst' = [burst EXCEPT ![u] = NoConn]
  /\ UNCHANGED <<hubVars, serve, farewell, sidebar, online, typing, bursts, noise, misled, unheard>>

NextFrame(c) ==
  /\ reader[c] = "reading" /\ frames[c] # <<>>
  /\ frames' = [frames EXCEPT ![c] = Tail(@)]

HandleTyping(c) ==
  /\ NextFrame(c)
  /\ LET f == Head(frames[c])
     IN  Route(f.to, Typing(Owner[c], IF f.on THEN {Owner[c]} ELSE {}))
  /\ UNCHANGED <<reader, writer, panicked, serving, up, serve, farewell, client,
                 bursts, noise, misled, unheard>>

\* otherParticipant fails.  The error reply may find the outbox closed; that
\* happens once to a connection and is not counted as noise.
TypingFails(c) ==
  /\ NextFrame(c)
  /\ \/ Reply(c, Other) /\ Noise("db")
     \/ ReaderPanics(c) /\ "db" \in NoiseKinds /\ noise' = noise
  /\ unheard' = unheard \cup {<<Head(frames[c]).to, Owner[c]>>}
  /\ UNCHANGED <<serve, farewell, client, bursts, misled>>

-----------------------------------------------------------------------------
(* The receiving client and the rest of a connection's life.               *)

\* Mutant of MarkOnline: users who are not in the sidebar are marked too.
MarkAnyone(u, e) == (online[u] \ e.of) \cup e.on

\* handleIncomingPresence: the contact's online flag ...
MarkOnline(u, e) == (online[u] \ e.of) \cup (e.on \cap sidebar[u])

\* Mutant of Silence: "offline" leaves the indicator alone.
SilenceNobody(u, e) == typing

\* ... and "offline" takes the typing indicator away.
Silence(u, e) == [p \in Pairs |-> IF p[1] = u /\ p[2] \in e.of \ e.on THEN "no" ELSE typing[p]]

\* handleIncomingTyping
Indicate(u, e) ==
  [p \in Pairs |-> IF p[1] = u /\ p[2] \in e.of
                   THEN IF p[2] \in e.on THEN "shown" ELSE "no" ELSE typing[p]]

\* The same, and handleContactList.
Received(u, e) ==
  /\ sidebar' = IF e.type = "contact_list" THEN [sidebar EXCEPT ![u] = e.of] ELSE sidebar
  /\ online' = CASE e.type = "contact_list" -> [online EXCEPT ![u] = e.on]
                 [] e.type = "presence" -> [online EXCEPT ![u] = MarkOnline(u, e)]
                 [] OTHER -> online
  /\ typing' = CASE e.type = "presence" -> Silence(u, e)
                 [] e.type = "typing" -> Indicate(u, e)
                 [] OTHER -> typing

Deliver(c) ==
  /\ WriterSends(c)
  /\ IF c \in up THEN Received(Owner[c], Head(outbox[c])) ELSE UNCHANGED <<sidebar, online, typing>>
  /\ UNCHANGED <<serve, farewell, frames, burst, unsaid, bursts, noise, misled, unheard>>

\* Frames of any other kind.
Chatter(u) ==
  /\ Noise("frames")
  /\ Relay(u, Other)
  /\ UNCHANGED <<serve, farewell, frames, client, bursts, misled, unheard>>

LoseSocket(c) ==
  /\ Noise("socket")
  /\ SocketFails(c)
  /\ UNCHANGED <<serve, farewell, frames, client, bursts, misled, unheard>>

\* Frames not read yet are lost.
StopReading(c) ==
  /\ ReadFails(c)
  /\ frames' = [frames EXCEPT ![c] = <<>>]
  /\ UNCHANGED <<serve, farewell, client, bursts, noise, misled, unheard>>

WriterEnds(c) ==
  /\ WriterSeesClose(c) \/ PingFails(c)
  /\ UNCHANGED <<serve, farewell, frames, client, bursts, noise, misled, unheard>>

AllGone ==
  /\ serve' = [c \in Conns |-> Idle]
  /\ farewell' = [c \in Conns |-> {}]
  /\ frames' = [c \in Conns |-> <<>>]
  /\ UNCHANGED <<client, bursts, misled, unheard>>

Crash == Noise("crash") /\ Restart /\ AllGone

CrashOfPanic(c) == farewell[c] = {} /\ PanicCrashes(c) /\ AllGone /\ UNCHANGED noise

ServeStep(c) == TellOnline(c) \/ AskOnline(c) \/ SendList(c)

Next ==
  \/ \E c \in Conns :
       \/ ComeOnline(c)
       \/ ServeStep(c)
       \/ AskNobody(c)
       \/ SayGoodbye(c) \/ TellOffline(c) \/ ReaderEnds(c)
       \/ HandleTyping(c) \/ TypingFails(c)
       \/ Deliver(c)
       \/ LoseSocket(c) \/ StopReading(c) \/ WriterEnds(c)
       \/ CrashOfPanic(c)
  \/ \E u \in Users : StopTyping(u) \/ \E v \in Users : StartTyping(u, v)
  \/ \E u \in Users : Chatter(u)
  \/ Crash

PresenceSpec == PresenceInit /\ [][Next]_vars

-----------------------------------------------------------------------------
(* Properties.                                                             *)

\* A connection of v has yet to tell u "offline".
Farewell(u, v) ==
  \E d \in Conns : /\ Owner[d] = v
                   /\ \/ reader[d] = "reading" /\ (d \notin up \/ d # clients[v])
                      \/ reader[d] = "leaving"
                      \/ u \in farewell[d]

\* A connection of v has yet to tell u "online".
Greeting(u, v) == \E d \in Conns : Owner[d] = v /\ serve[d].pc = "online" /\ u \in serve[d].of

\* u's connection works and has handed over everything, its list included.
UpToDate(u) ==
  LET c == clients[u] IN
    c # NoConn /\ c \in up /\ serve[c].pc = "none" /\ outbox[c] = <<>>

\* The sidebar tells the truth once nothing more is on its way, however
\* registering, being replaced or dropped, unwinding and broadcasting
\* interleave ("an online/offline transition", presence.go:35-36; "the next
\* contact_list ... reports current status anyway", server/README.md:146-149).
\* The exceptions are the two that `misled` and `unheard` record: a broadcast
\* or a snapshot that was overtaken, and one that was lost on the server.
SettledIsRight ==
  \A p \in Pairs :
    LET u == p[1]
        v == p[2]
    IN  UpToDate(u) /\ v \in sidebar[u] /\ ~Greeting(u, v) /\ ~Farewell(u, v)
          => (v \in online[u] <=> Registered(v)) \/ p \in misled \cup unheard

\* The end of v's burst, or v's "offline", is on its way to u.
StopOnItsWay(u, v) ==
  \/ \E d \in Conns : /\ Owner[d] = v /\ reader[d] = "reading"
                      /\ \E i \in 1..Len(frames[d]) : frames[d][i] = [to |-> u, on |-> FALSE]
  \/ \E i \in 1..Len(outbox[clients[u]]) :
       LET e == outbox[clients[u]][i]
       IN  e.type \in {"presence", "typing"} /\ e.of = {v} /\ e.on = {}
  \/ Farewell(u, v)

\* "typing..." does not stick: what a client has been shown over its present
\* connection either is true, or the word that takes it back is on its way,
\* whatever connections the other side loses in mid-burst (events.go:372-376).
\* What was shown before u's own connection was lost may stick, and so may
\* what v's client or the server kept from u: `unsaid` records an end of v's
\* burst that found the outbox of v's client full (model.go:230-241; nothing
\* sends it again), `unheard` what a failing statement lost.
TypingIsBacked ==
  \A p \in Pairs :
    LET u == p[1]
        v == p[2]
    IN  typing[p] = "shown" /\ clients[u] # NoConn /\ clients[u] \in up
          => burst[v] = u \/ StopOnItsWay(u, v) \/ p \in unheard \cup unsaid
=============================================================================
