--------------------------- MODULE PresenceProofs ---------------------------
(***************************************************************************)
(* Proofs about presence and typing, for any users, contacts, connections, *)
(* capacities and bounds, in three inductive invariants over the hub's:    *)
(*                                                                         *)
(*   ShapeInv    what the tables hold and whom a goroutine may still tell; *)
(*   TypingInv   every start of a burst, in a frame, in an outbox or on a  *)
(*               screen, has the burst itself or its end behind it;        *)
(*   SettledInv  the last word about a contact is true, unless a greeting, *)
(*               a farewell or an entry of misled or unheard excuses it.   *)
(*                                                                         *)
(* Both of the last two rest on the same fact about the two goroutines of  *)
(* a connection: what excuses a wrong word or backs an indicator ends only *)
(* in the step that puts the word that ends it in the outbox (ExcuseEnds,  *)
(* BackedStays), and coming and going always start one (RegisteredStays).  *)
(***************************************************************************)
EXTENDS Presence, HubProofs

Frame == [to : Users, on : BOOLEAN]

\* What is stored has the shape of its table.
Shape ==
  /\ serve \in [Conns -> [pc : {"none", "online", "send_list"}, of : SUBSET Users]]
  /\ farewell \in [Conns -> SUBSET Users]
  /\ frames \in [Conns -> Seq(Frame)]
  /\ sidebar \in [Users -> SUBSET Users]
  /\ online \in [Users -> SUBSET Users]
  /\ typing \in [Pairs -> {"no", "shown", "kept"}]
  /\ burst \in [Users -> Users \cup {NoConn}]
  /\ bursts \in 0..MaxBursts /\ noise \in 0..MaxNoise
  /\ misled \in SUBSET Pairs /\ unheard \in SUBSET Pairs /\ unsaid \in SUBSET Pairs

\* serveWS tells the users who have its own as a contact, and lists its own
\* user's contacts; readPump says goodbye after it has unregistered.
GoroutineAtWork(c) ==
  /\ serve[c].pc = "none" => serve[c].of = {}
  /\ serve[c].pc = "online" => serve[c].of \subseteq Watchers(Owner[c])
  /\ serve[c].pc = "send_list" => serve[c].of \subseteq Contact[Owner[c]]
  /\ serve[c].pc # "none" <=> c \in serving
  /\ farewell[c] \subseteq Watchers(Owner[c])
  /\ farewell[c] # {} => reader[c] = "announcing"

Goroutines == \A c \in Conns : GoroutineAtWork(c)

\* A client types to those who have it as a contact.
Bursts ==
  /\ \A u \in Users : burst[u] # NoConn => u \in Contact[burst[u]]
  /\ \A c \in Conns : \A i \in 1..Len(frames[c]) : Owner[c] \in Contact[frames[c][i].to]

\* A list in an outbox is of that user's contacts, and so is the sidebar.
ListsAreOwn ==
  /\ \A c \in Conns : \A i \in 1..Len(outbox[c]) :
       outbox[c][i].type = "contact_list"
       => outbox[c][i].of = Contact[Owner[c]] /\ outbox[c][i].on \subseteq Contact[Owner[c]]
  /\ \A u \in Users : sidebar[u] \subseteq Contact[u] /\ online[u] \subseteq sidebar[u]

\* The inductive invariant of the types.
ShapeInv == HubInv /\ Shape /\ Goroutines /\ Bursts /\ ListsAreOwn

-----------------------------------------------------------------------------
\* The envelopes of presence.go and client.go are envelopes of the hub.
LEMMA Envelopes ==
  /\ Other \in Envelope
  /\ \A v \in Users : \A S \in SUBSET {v} : Presence(v, S) \in Envelope /\ Typing(v, S) \in Envelope
  /\ \A S, T \in SUBSET Users : ContactList(S, T) \in Envelope
  BY PresenceEnvelopeAssumption DEF PresenceEnvelope, Other, Presence, Typing, ContactList

\* Watchers and contacts are two views of the same pairs.
LEMMA PairsOf ==
  /\ \A u, v \in Users : <<u, v>> \in Pairs <=> v \in Contact[u]
  /\ \A v \in Users : Watchers(v) \X {v} \subseteq Pairs
  /\ \A u \in Users : {u} \X Contact[u] \subseteq Pairs
  /\ \A v \in Users : Watchers(v) \subseteq Users \ {v}
  /\ \A u \in Users : Contact[u] \subseteq Users \ {u}
  BY PresenceAssumption DEF Pairs, Watchers

\* A frame that readPump takes was its user's, to somebody who has it as a
\* contact (client.go:131-171).
LEMMA FrameTaken ==
  ASSUME ShapeInv, NEW c \in Conns, NextFrame(c)
  PROVE  /\ Head(frames[c]) \in Frame
         /\ Owner[c] \in Contact[Head(frames[c]).to]
         /\ frames'[c] = Tail(frames[c]) /\ frames'[c] \in Seq(Frame)
         /\ \A i \in 1..Len(frames'[c]) : i + 1 \in 1..Len(frames[c]) /\ frames'[c][i] = frames[c][i + 1]
         /\ \A d \in Conns \ {c} : frames'[d] = frames[d]
         /\ frames' \in [Conns -> Seq(Frame)]
  <1>1. /\ frames[c] \in Seq(Frame) /\ frames[c] # <<>> /\ frames \in [Conns -> Seq(Frame)]
        /\ frames' = [frames EXCEPT ![c] = Tail(frames[c])]
    BY DEF NextFrame, ShapeInv, Shape
  <1>2. 1 \in 1..Len(frames[c]) /\ Head(frames[c]) = frames[c][1]
    BY <1>1
  <1>3. /\ Tail(frames[c]) \in Seq(Frame) /\ Len(Tail(frames[c])) = Len(frames[c]) - 1
        /\ \A i \in 1..Len(Tail(frames[c])) : Tail(frames[c])[i] = frames[c][i + 1]
    BY <1>1, HeadTailProperties
  <1>4. frames[c][1] \in Frame
    BY <1>1, <1>2, ElementOfSeq
  <1>. QED
    BY <1>1, <1>2, <1>3, <1>4 DEF ShapeInv, Bursts

\* Telling a contact is a step of the hub by a goroutine that runs.
LEMMA TellIsRelay ==
  ASSUME NEW u \in Users, NEW v \in Users, NEW on \in BOOLEAN, Tell(u, v, on),
         \E c \in Conns : reader[c] \in {"reading", "announcing"} \/ c \in serving,
         UNCHANGED <<reader, writer, panicked, serving, up>>
  PROVE  \E e \in Envelope : Relay(u, e)
  BY Envelopes DEF Tell, Relay

\* Every step is one of the hub's, or the last two of serveWS at once.
LEMMA HubKept ==
  ASSUME ShapeInv, [Next]_vars
  PROVE  HubInv'
  <1>. USE DEF ShapeInv
  <1>1. ASSUME NEW c \in Conns, SendList(c) PROVE HubInv'
    <2>1. ASSUME TrySend(c, ContactList(Contact[Owner[c]], serve[c].of)) PROVE HubTypeOK'
      <3>1. Contact[Owner[c]] \in SUBSET Users /\ serve[c].of \in SUBSET Users
        BY HubAssumption, PresenceAssumption DEF Shape
      <3>2. ContactList(Contact[Owner[c]], serve[c].of) \in Envelope
        BY <3>1, Envelopes
      <3>3. /\ outbox' \in [Conns -> Seq(Envelope)]
            /\ \A d \in Conns : Len(outbox'[d]) <= OutboxSize
        BY <2>1, <3>2, AppendFits DEF TrySend, HubInv, HubTypeOK
      <3>. QED
        BY <1>1, <2>1, <3>3 DEF SendList, TrySend, HubInv, HubTypeOK
    <2>2. UNCHANGED <<clients, closed, reader>> /\ HubTypeOK'
      BY <1>1, <2>1 DEF SendList, TrySend, HubInv, HubTypeOK
    <2>. QED
      BY <2>2, PumpsKeep DEF Live
  <1>2. ASSUME NEW c \in Conns, TellOnline(c) \/ TellOffline(c) PROVE HubNext
    <2>1. PICK u \in Users, on \in BOOLEAN : Tell(u, Owner[c], on)
      BY <1>2, HubAssumption DEF TellOnline, TellOffline, Shape
    <2>2. c \in serving \/ reader[c] = "announcing"
      BY <1>2 DEF TellOnline, TellOffline, Goroutines, GoroutineAtWork
    <2>3. UNCHANGED <<reader, writer, panicked, serving, up>> /\ Owner[c] \in Users
      BY <1>2, HubAssumption DEF TellOnline, TellOffline
    <2>. QED
      BY <2>1, <2>2, <2>3, TellIsRelay DEF HubNext
  <1>3. ASSUME NEW c \in Conns, HandleTyping(c) PROVE HubNext
    <2>. DEFINE f == Head(frames[c])
    <2>1. f \in Frame /\ f.to \in Users /\ Owner[c] \in Users
      BY <1>3, FrameTaken, HubAssumption DEF HandleTyping, Frame
    <2>2. Typing(Owner[c], IF f.on THEN {Owner[c]} ELSE {}) \in Envelope
      BY <2>1, Envelopes
    <2>3. Relay(f.to, Typing(Owner[c], IF f.on THEN {Owner[c]} ELSE {}))
      BY <1>3 DEF HandleTyping, Relay, NextFrame
    <2>. QED
      BY <2>1, <2>2, <2>3 DEF HubNext
  <1>4. ASSUME NEW c \in Conns,
               \/ ComeOnline(c) \/ AskNobody(c) \/ SayGoodbye(c) \/ ReaderEnds(c)
               \/ TypingFails(c) \/ Deliver(c) \/ LoseSocket(c) \/ StopReading(c)
               \/ WriterEnds(c) \/ CrashOfPanic(c)
        PROVE  HubNext
    BY <1>4, Envelopes
    DEF ComeOnline, AskNobody, SayGoodbye, ReaderEnds, TypingFails, Deliver, LoseSocket,
        StopReading, WriterEnds, CrashOfPanic, HubNext, ConnStep
  <1>5. ASSUME NEW c \in Conns, AskOnline(c) PROVE UNCHANGED hubVars
    BY <1>5 DEF AskOnline
  <1>6. ASSUME NEW u \in Users, StopTyping(u) \/ \E v \in Users : StartTyping(u, v)
        PROVE  UNCHANGED hubVars
    BY <1>6 DEF StopTyping, StartTyping
  <1>7. ASSUME NEW u \in Users, Chatter(u) PROVE HubNext
    BY <1>7, Envelopes DEF Chatter, HubNext
  <1>8. CASE Crash
    BY <1>8, RestartKeeps DEF Crash
  <1>9. CASE UNCHANGED vars
    BY <1>9, HubInvStep DEF vars
  <1>. QED
    BY <1>1, <1>2, <1>3, <1>4, <1>5, <1>6, <1>7, <1>8, <1>9, HubInvStep DEF Next, ServeStep

-----------------------------------------------------------------------------
(* Shape, goroutines, bursts and lists.                                    *)

\* What a failing AcceptedContacts leaves unheard are pairs, and the noise
\* stays in its bound (presence.go:37-46).
LEMMA NoiseStays ==
  ASSUME Shape
  PROVE  /\ \A kind : Noise(kind) => noise' \in 0..MaxNoise
         /\ \A v \in Users : Audience(v) => noise' \in 0..MaxNoise /\ unheard' \in SUBSET Pairs
  BY PairsOf, PresenceAssumption DEF Shape, Noise, Audience

\* Telling a watcher records pairs only.
LEMMA TellShape ==
  ASSUME Shape, NEW v \in Users, NEW u \in Watchers(v), NEW on, Tell(u, v, on)
  PROVE  misled' \in SUBSET Pairs
  <1>1. <<u, v>> \in Pairs
    BY PairsOf
  <1>. QED
    BY <1>1 DEF Shape, Tell

\* A frame about v has been sent over c.
Typed(c, v) ==
  /\ Len(frames'[c]) = Len(frames[c]) + 1
  /\ \A i \in 1..Len(frames[c]) : frames'[c][i] = frames[c][i]
  /\ frames'[c][Len(frames[c]) + 1].to = v

\* What is sent to a typing user's connections are frames.
LEMMA SendTypingShape ==
  ASSUME Shape, NEW u \in Users, NEW v \in Users, NEW on \in BOOLEAN, SendTyping(u, v, on)
  PROVE  /\ frames' \in [Conns -> Seq(Frame)]
         /\ unsaid' = unsaid \/ unsaid' = unsaid \cup {<<v, u>>}
         /\ \A c \in Conns :
              \/ frames'[c] = frames[c] /\ ~(c \in up /\ Owner[c] = u)
              \/ /\ frames'[c] = frames[c]
                 /\ ~on => unsaid' = unsaid \cup {<<v, u>>}
              \/ /\ c \in up /\ Owner[c] = u /\ Typed(c, v)
                 /\ frames'[c][Len(frames[c]) + 1] = [to |-> v, on |-> on]
  <1>1. CASE frames' = frames /\ unsaid' = IF on THEN unsaid ELSE unsaid \cup {<<v, u>>}
    BY <1>1 DEF Shape
  <1>2. CASE /\ frames' = [c \in Conns |-> IF c \in up /\ Owner[c] = u
                                           THEN Append(frames[c], [to |-> v, on |-> on]) ELSE frames[c]]
             /\ unsaid' = unsaid
    <2>1. PICK g \in Frame : g = [to |-> v, on |-> on] /\ g.to = v
      <3>1. [to |-> v, on |-> on] \in Frame /\ [to |-> v, on |-> on].to = v
        BY DEF Frame
      <3>. QED
        BY <3>1
    <2>2. ASSUME NEW c \in Conns
          PROVE  /\ frames'[c] = IF c \in up /\ Owner[c] = u THEN Append(frames[c], g) ELSE frames[c]
                 /\ frames[c] \in Seq(Frame)
      BY <1>2, <2>1 DEF Shape
    <2>3. ASSUME NEW c \in Conns PROVE frames'[c] \in Seq(Frame)
      <3>1. Append(frames[c], g) \in Seq(Frame)
        BY <2>2
      <3>. QED
        BY <2>2, <3>1
    <2>4. frames' \in [Conns -> Seq(Frame)]
      BY <1>2, <2>3
    <2>5. ASSUME NEW c \in Conns, c \in up /\ Owner[c] = u
          PROVE  Typed(c, v) /\ frames'[c][Len(frames[c]) + 1] = g
      <3>1. frames[c] \in Seq(Frame) /\ frames'[c] = Append(frames[c], g)
        BY <2>2, <2>5
      <3>2. /\ Len(frames'[c]) = Len(frames[c]) + 1
            /\ \A i \in 1..Len(frames[c]) : frames'[c][i] = frames[c][i]
            /\ frames'[c][Len(frames[c]) + 1] = g
        BY <3>1
      <3>. QED
        BY <2>1, <3>2 DEF Typed
    <2>. QED
      BY <1>2, <2>1, <2>2, <2>4, <2>5
  <1>. QED
    BY <1>1, <1>2 DEF SendTyping

\* serveWS tells a set of users, or lists one.
LEMMA ServeShape ==
  ASSUME Shape, NEW c \in Conns
  PROVE  /\ \A pc \in {"none", "online", "send_list"} : \A S \in SUBSET Users : Serve(c, pc, S) =>
              serve' \in [Conns -> [pc : {"none", "online", "send_list"}, of : SUBSET Users]]
         /\ \A u : serve[c].of \ {u} \in SUBSET Users
         /\ {} \in SUBSET Users
  <1>1. ASSUME NEW pc \in {"none", "online", "send_list"}, NEW S \in SUBSET Users, Serve(c, pc, S)
        PROVE  serve' \in [Conns -> [pc : {"none", "online", "send_list"}, of : SUBSET Users]]
    <2>1. PICK r \in [pc : {"none", "online", "send_list"}, of : SUBSET Users] :
            r = [pc |-> pc, of |-> S]
      OBVIOUS
    <2>. QED
      BY <1>1, <2>1 DEF Serve, Shape
  <1>2. serve[c].of \in SUBSET Users
    BY DEF Shape
  <1>. QED
    BY <1>1, <1>2

\* Every step keeps the shape of the tables.
LEMMA ShapeKept ==
  ASSUME ShapeInv, [Next]_vars
  PROVE  Shape'
  <1>. USE DEF ShapeInv
  <1>1. /\ \A c \in Conns : Owner[c] \in Users /\ Watchers(Owner[c]) \in SUBSET Users
        /\ \A c \in Conns : Contact[Owner[c]] \in SUBSET Users
        /\ HubTypeOK
    BY PairsOf, HubAssumption, PresenceAssumption DEF HubInv
  <1>2. ASSUME NEW c \in Conns, ComeOnline(c) PROVE Shape'
    <2>1. noise' \in 0..MaxNoise /\ unheard' \in SUBSET Pairs
      BY <1>1, <1>2, NoiseStays DEF ComeOnline
    <2>2. /\ serve' = [serve EXCEPT ![c] = [pc |-> "online",
                                  of |-> IF noise' = noise THEN Watchers(Owner[c]) ELSE {}]]
          /\ frames' = [frames EXCEPT ![c] = <<>>]
          /\ typing' = [p \in Pairs |-> IF p[1] = Owner[c] /\ typing[p] = "shown"
                                        THEN "kept" ELSE typing[p]]
          /\ UNCHANGED <<farewell, sidebar, online, burst, unsaid, bursts, misled>>
      BY <1>2 DEF ComeOnline, Serve
    <2>3. serve' \in [Conns -> [pc : {"none", "online", "send_list"}, of : SUBSET Users]]
      BY <1>1, <2>2 DEF Shape
    <2>4. frames' \in [Conns -> Seq(Frame)]
      BY <2>2, EmptySeq DEF Shape
    <2>5. typing' \in [Pairs -> {"no", "shown", "kept"}]
      BY <2>2 DEF Shape
    <2>. QED
      BY <2>1, <2>2, <2>3, <2>4, <2>5 DEF Shape
  <1>3. ASSUME NEW c \in Conns, TellOnline(c) \/ TellOffline(c) PROVE Shape'
    <2>1. misled' \in SUBSET Pairs
      BY <1>1, <1>3, TellShape DEF TellOnline, TellOffline, Goroutines, GoroutineAtWork
    <2>2. serve' \in [Conns -> [pc : {"none", "online", "send_list"}, of : SUBSET Users]]
      <3>1. CASE TellOnline(c)
        <4>1. PICK u \in Users : Serve(c, "online", serve[c].of \ {u})
          BY <3>1 DEF TellOnline, Shape
        <4>2. serve[c].of \ {u} \in SUBSET Users /\ "online" \in {"none", "online", "send_list"}
          BY ServeShape
        <4>. QED
          BY <4>1, <4>2, ServeShape
      <3>2. CASE TellOffline(c)
        BY <3>2 DEF TellOffline, Shape
      <3>. QED
        BY <1>3, <3>1, <3>2
    <2>3. farewell' \in [Conns -> SUBSET Users]
      BY <1>3 DEF TellOnline, TellOffline, Shape
    <2>. QED
      BY <1>3, <2>1, <2>2, <2>3 DEF TellOnline, TellOffline, Shape, client
  <1>4. ASSUME NEW c \in Conns, SayGoodbye(c) PROVE Shape'
    <2>1. noise' \in 0..MaxNoise /\ unheard' \in SUBSET Pairs
      BY <1>1, <1>4, NoiseStays DEF SayGoodbye
    <2>. QED
      BY <1>1, <1>4, <2>1 DEF SayGoodbye, Shape, client
  <1>5. ASSUME NEW c \in Conns, AskOnline(c) \/ AskNobody(c) \/ SendList(c) PROVE Shape'
    <2>1. noise' \in 0..MaxNoise
      BY <1>5, NoiseStays DEF AskOnline, AskNobody, SendList, Shape
    <2>2. unheard' \in SUBSET Pairs
      BY <1>1, <1>5, PairsOf DEF AskOnline, AskNobody, SendList, Shape
    <2>3. serve' \in [Conns -> [pc : {"none", "online", "send_list"}, of : SUBSET Users]]
      <3>1. {v \in Contact[Owner[c]] : Registered(v)} \in SUBSET Users
        BY <1>1
      <3>. QED
        BY <1>5, <3>1, ServeShape DEF AskOnline, AskNobody, SendList
    <2>4. misled' \in SUBSET Pairs
      BY <1>5 DEF AskOnline, AskNobody, SendList, Shape
    <2>. QED
      BY <1>5, <2>1, <2>2, <2>3, <2>4 DEF AskOnline, AskNobody, SendList, Shape, client
  <1>6. ASSUME NEW c \in Conns, HandleTyping(c) PROVE Shape'
    <2>1. frames' \in [Conns -> Seq(Frame)]
      BY <1>6, FrameTaken DEF HandleTyping
    <2>. QED
      BY <1>6, <2>1 DEF HandleTyping, Shape, client
  <1>7. ASSUME NEW c \in Conns, TypingFails(c) PROVE Shape'
    <2>1. /\ frames' \in [Conns -> Seq(Frame)] /\ Head(frames[c]) \in Frame
          /\ Owner[c] \in Contact[Head(frames[c]).to]
      BY <1>7, FrameTaken DEF TypingFails
    <2>2. <<Head(frames[c]).to, Owner[c]>> \in Pairs
      BY <1>1, <2>1, PairsOf DEF Frame
    <2>3. noise' \in 0..MaxNoise
      BY <1>7, NoiseStays DEF TypingFails, Shape
    <2>. QED
      BY <1>7, <2>1, <2>2, <2>3 DEF TypingFails, Shape, client
  <1>8. ASSUME NEW c \in Conns, StopReading(c) PROVE Shape'
    BY <1>8, EmptySeq DEF StopReading, Shape, client
  <1>9. ASSUME NEW c \in Conns, ReaderEnds(c) \/ LoseSocket(c) \/ WriterEnds(c) PROVE Shape'
    <2>1. noise' \in 0..MaxNoise
      BY <1>9, NoiseStays DEF ReaderEnds, LoseSocket, WriterEnds, Shape
    <2>. QED
      BY <1>9, <2>1 DEF ReaderEnds, LoseSocket, WriterEnds, Shape, client
  <1>10. ASSUME NEW c \in Conns, Deliver(c) PROVE Shape'
    <2>1. UNCHANGED <<serve, farewell, frames, burst, unsaid, bursts, noise, misled, unheard>>
      BY <1>10 DEF Deliver
    <2>2. CASE UNCHANGED <<sidebar, online, typing>>
      BY <2>1, <2>2 DEF Shape
    <2>3. ASSUME NEW e \in Envelope, Received(Owner[c], e) PROVE Shape'
      <3>1. e.of \in SUBSET Users /\ e.on \in SUBSET Users
        BY <2>3, PresenceEnvelopeAssumption DEF PresenceEnvelope
      <3>2. sidebar' \in [Users -> SUBSET Users]
        BY <2>3, <3>1 DEF Received, Shape
      <3>3. online' \in [Users -> SUBSET Users]
        BY <1>1, <2>3, <3>1 DEF Received, MarkOnline, Shape
      <3>4. typing' \in [Pairs -> {"no", "shown", "kept"}]
        BY <2>3 DEF Received, Silence, Indicate, Shape
      <3>. QED
        BY <2>1, <3>2, <3>3, <3>4 DEF Shape
    <2>4. Head(outbox[c]) \in Envelope
      <3>1. outbox[c] \in Seq(Envelope) /\ outbox[c] # <<>>
        BY <1>1, <1>10 DEF Deliver, WriterSends, HubTypeOK
      <3>. QED
        BY <3>1
    <2>. QED
      BY <1>10, <2>2, <2>3, <2>4 DEF Deliver
  <1>11. ASSUME NEW u \in Users, NEW v \in Users, StartTyping(u, v) PROVE Shape'
    <2>1. <<v, u>> \in Pairs
      BY <1>11, PairsOf DEF StartTyping
    <2>2. /\ frames' \in [Conns -> Seq(Frame)]
          /\ unsaid' = unsaid \/ unsaid' = unsaid \cup {<<v, u>>}
      BY <1>11, SendTypingShape DEF StartTyping
    <2>3. unsaid' \in SUBSET Pairs
      BY <2>1, <2>2 DEF Shape
    <2>. QED
      BY <1>11, <2>2, <2>3, PresenceAssumption DEF StartTyping, Shape
  <1>12. ASSUME NEW u \in Users, StopTyping(u) PROVE Shape'
    <2>1. burst[u] \in Users /\ <<burst[u], u>> \in Pairs
      BY <1>12, PairsOf DEF StopTyping, Shape, Bursts
    <2>2. /\ frames' \in [Conns -> Seq(Frame)]
          /\ unsaid' = unsaid \/ unsaid' = unsaid \cup {<<burst[u], u>>}
      BY <1>12, <2>1, SendTypingShape DEF StopTyping
    <2>3. unsaid' \in SUBSET Pairs
      BY <2>1, <2>2 DEF Shape
    <2>. QED
      BY <1>12, <2>2, <2>3 DEF StopTyping, Shape
  <1>13. ASSUME NEW u \in Users, Chatter(u) PROVE Shape'
    <2>1. noise' \in 0..MaxNoise
      BY <1>13, NoiseStays DEF Chatter
    <2>. QED
      BY <1>13, <2>1 DEF Chatter, Shape, client
  <1>14. ASSUME AllGone, noise' \in 0..MaxNoise PROVE Shape'
    BY <1>14, EmptySeq DEF AllGone, Shape, client, Idle
  <1>15. CASE Crash
    BY <1>14, <1>15, NoiseStays DEF Crash
  <1>16. ASSUME NEW c \in Conns, CrashOfPanic(c) PROVE Shape'
    BY <1>14, <1>16 DEF CrashOfPanic, Shape
  <1>17. CASE UNCHANGED vars
    BY <1>17 DEF vars, client, Shape
  <1>. QED
    BY <1>2, <1>3, <1>4, <1>5, <1>6, <1>7, <1>8, <1>9, <1>10, <1>11, <1>12, <1>13, <1>15,
       <1>16, <1>17 DEF Next, ServeStep

\* Every step keeps the goroutines to their work.
LEMMA GoroutinesKept ==
  ASSUME ShapeInv, [Next]_vars
  PROVE  Goroutines'
  <1>. USE DEF ShapeInv
  <1>1. HubTypeOK /\ Shape /\ (\A c \in Conns : GoroutineAtWork(c))
    BY DEF HubInv, Goroutines
  <1>2. ASSUME NEW c \in Conns,
               /\ UNCHANGED <<serve, serving, farewell>>
               /\ \A d \in Conns : farewell[d] # {} => reader'[d] = "announcing"
        PROVE  Goroutines'
    BY <1>1, <1>2 DEF Goroutines, GoroutineAtWork
  <1>3. ASSUME NEW c \in Conns, ComeOnline(c) PROVE Goroutines'
    <2>1. /\ serve' = [serve EXCEPT ![c] = [pc |-> "online",
                                  of |-> IF noise' = noise THEN Watchers(Owner[c]) ELSE {}]]
          /\ serving' = serving \cup {c} /\ UNCHANGED farewell
          /\ reader' = [reader EXCEPT ![c] = "reading"] /\ reader[c] = "idle"
      BY <1>3 DEF ComeOnline, Serve, Connect, Free
    <2>. QED
      BY <1>1, <2>1 DEF Goroutines, GoroutineAtWork, Shape, HubTypeOK
  <1>4. ASSUME NEW c \in Conns, TellOnline(c) PROVE Goroutines'
    <2>1. PICK u : serve' = [serve EXCEPT ![c] = [pc |-> "online", of |-> serve[c].of \ {u}]]
      BY <1>4 DEF TellOnline, Serve
    <2>2. UNCHANGED <<serving, farewell, reader>> /\ serve[c].pc = "online"
      BY <1>4 DEF TellOnline
    <2>. QED
      BY <1>1, <2>1, <2>2 DEF Goroutines, GoroutineAtWork, Shape
  <1>5. ASSUME NEW c \in Conns, AskOnline(c) PROVE Goroutines'
    <2>1. /\ serve' = [serve EXCEPT ![c] = [pc |-> "send_list",
                                            of |-> {v \in Contact[Owner[c]] : Registered(v)}]]
          /\ UNCHANGED <<serving, farewell, reader>> /\ serve[c].pc = "online"
      BY <1>5 DEF AskOnline, Serve, hubVars
    <2>. QED
      BY <1>1, <2>1 DEF Goroutines, GoroutineAtWork, Shape
  <1>6. ASSUME NEW c \in Conns, AskNobody(c) \/ SendList(c) PROVE Goroutines'
    <2>1. /\ serve' = [serve EXCEPT ![c] = [pc |-> "none", of |-> {}]]
          /\ serving' = serving \ {c} /\ UNCHANGED <<farewell, reader>>
      BY <1>6 DEF AskNobody, SendList, Serve, ServeEnds
    <2>. QED
      BY <1>1, <2>1 DEF Goroutines, GoroutineAtWork, Shape
  <1>7. ASSUME NEW c \in Conns, SayGoodbye(c) PROVE Goroutines'
    <2>1. /\ reader' = [reader EXCEPT ![c] = "announcing"]
          /\ farewell' = [farewell EXCEPT ![c] = IF noise' = noise THEN Watchers(Owner[c]) ELSE {}]
          /\ UNCHANGED <<serve, serving>>
      BY <1>7 DEF SayGoodbye, Unregister
    <2>. QED
      BY <1>1, <2>1 DEF Goroutines, GoroutineAtWork, Shape, HubTypeOK
  <1>8. ASSUME NEW c \in Conns, TellOffline(c) PROVE Goroutines'
    <2>1. PICK u : farewell' = [farewell EXCEPT ![c] = farewell[c] \ {u}]
      BY <1>8 DEF TellOffline
    <2>2. UNCHANGED <<serve, serving, reader>> /\ farewell[c] # {}
      BY <1>8 DEF TellOffline
    <2>. QED
      BY <1>1, <2>1, <2>2 DEF Goroutines, GoroutineAtWork, Shape
  <1>9. ASSUME NEW c \in Conns,
               \/ ReaderEnds(c) \/ HandleTyping(c) \/ TypingFails(c) \/ Deliver(c)
               \/ LoseSocket(c) \/ StopReading(c) \/ WriterEnds(c)
        PROVE  Goroutines'
    <2>1. /\ UNCHANGED <<serve, serving, farewell>>
          /\ \A d \in Conns \ {c} : reader'[d] = reader[d]
          /\ reader'[c] = reader[c] \/ reader[c] # "announcing" \/ farewell[c] = {}
      BY <1>1, <1>9
      DEF ReaderEnds, HandleTyping, TypingFails, Deliver, LoseSocket, StopReading, WriterEnds,
          ReaderReturns, Reply, ReaderPanics, WriterSends, SocketFails, ReadFails,
          WriterSeesClose, PingFails, HubTypeOK
    <2>. QED
      BY <1>1, <1>2, <2>1 DEF GoroutineAtWork
  <1>10. ASSUME Restart, AllGone PROVE Goroutines'
    BY <1>10 DEF Restart, AllGone, Goroutines, GoroutineAtWork, Idle
  <1>11. CASE UNCHANGED <<serve, serving, farewell, reader>>
    BY <1>1, <1>11 DEF Goroutines, GoroutineAtWork
  <1>. QED
    BY <1>3, <1>4, <1>5, <1>6, <1>7, <1>8, <1>9, <1>10, <1>11
    DEF Next, ServeStep, Crash, CrashOfPanic, PanicCrashes, StopTyping, StartTyping, Chatter,
        Relay, vars, hubVars

-----------------------------------------------------------------------------
(* What a step does to the outboxes.                                       *)

\* e has been put in c's outbox.
Added(c, e) ==
  /\ Len(outbox'[c]) = Len(outbox[c]) + 1
  /\ outbox'[c][Len(outbox[c]) + 1] = e
  /\ \A i \in 1..Len(outbox[c]) : outbox'[c][i] = outbox[c][i]

\* The first envelope of c's outbox has left it.
Sent(c) ==
  /\ outbox[c] # <<>> /\ Head(outbox[c]) = outbox[c][1] /\ 1 \in 1..Len(outbox[c])
  /\ outbox[c][1] \in Envelope
  /\ Len(outbox'[c]) = Len(outbox[c]) - 1
  /\ \A i \in 1..Len(outbox'[c]) : i + 1 \in 1..Len(outbox[c]) /\ outbox'[c][i] = outbox[c][i + 1]

LEMMA AppendAdds ==
  ASSUME HubTypeOK, NEW c \in Conns, NEW e \in Envelope,
         outbox' = [outbox EXCEPT ![c] = Append(@, e)]
  PROVE  Added(c, e) /\ \A d \in Conns \ {c} : outbox'[d] = outbox[d]
  <1>1. outbox[c] \in Seq(Envelope) /\ outbox'[c] = Append(outbox[c], e)
    BY DEF HubTypeOK
  <1>. QED
    BY <1>1 DEF Added, HubTypeOK

\* The three outcomes of h.route (hub.go:83-100).
LEMMA RouteEffect ==
  ASSUME HubInv, NEW u \in Users, NEW e \in Envelope, Route(u, e)
  PROVE  \/ clients[u] = NoConn /\ UNCHANGED <<clients, outbox>>
         \/ /\ clients[u] \in Conns /\ Owner[clients[u]] = u /\ UNCHANGED clients
            /\ Added(clients[u], e)
            /\ \A d \in Conns \ {clients[u]} : outbox'[d] = outbox[d]
            /\ outbox' # outbox
         \/ /\ clients[u] # NoConn
            /\ clients' = [clients EXCEPT ![u] = NoConn] /\ UNCHANGED outbox
  <1>1. CASE Enqueue(u, e)
    <2>1. clients[u] \in Conns /\ Owner[clients[u]] = u
      BY <1>1 DEF Enqueue, HubInv, HubTypeOK, RegisteredIsLive
    <2>2. Added(clients[u], e) /\ \A d \in Conns \ {clients[u]} : outbox'[d] = outbox[d]
      BY <1>1, <2>1, AppendAdds DEF Enqueue, HubInv
    <2>3. outbox' # outbox
      <3>1. Len(outbox[clients[u]]) \in Nat
        BY <2>1 DEF HubInv, HubTypeOK
      <3>. QED
        BY <2>2, <3>1 DEF Added
    <2>. QED
      BY <1>1, <2>1, <2>2, <2>3 DEF Enqueue
  <1>2. CASE NoRoute(u) \/ DropSlow(u)
    BY <1>2 DEF NoRoute, DropSlow
  <1>. QED
    BY <1>1, <1>2 DEF Route, Unrouted

\* trySend, on an open outbox, full or not (client.go:209-219).
LEMMA TrySendEffect ==
  ASSUME HubTypeOK, NEW c \in Conns, NEW e \in Envelope, TrySend(c, e)
  PROVE  /\ UNCHANGED clients
         /\ \/ UNCHANGED outbox
            \/ Added(c, e) /\ \A d \in Conns \ {c} : outbox'[d] = outbox[d]
         /\ Full(c) => UNCHANGED outbox
         /\ ~Full(c) => Added(c, e)
  BY AppendAdds DEF TrySend

\* writePump hands over the oldest envelope (client.go:186-200).
LEMMA WriterEffect ==
  ASSUME HubTypeOK, NEW c \in Conns, WriterSends(c)
  PROVE  Sent(c) /\ UNCHANGED clients /\ \A d \in Conns \ {c} : outbox'[d] = outbox[d]
  <1>1. outbox[c] \in Seq(Envelope) /\ outbox[c] # <<>> /\ outbox'[c] = Tail(outbox[c])
    BY DEF WriterSends, HubTypeOK
  <1>2. 1 \in 1..Len(outbox[c]) /\ Head(outbox[c]) = outbox[c][1]
    BY <1>1
  <1>3. /\ Len(Tail(outbox[c])) = Len(outbox[c]) - 1
        /\ \A i \in 1..Len(Tail(outbox[c])) : Tail(outbox[c])[i] = outbox[c][i + 1]
    BY <1>1, HeadTailProperties
  <1>4. outbox[c][1] \in Envelope
    BY <1>1, <1>2, ElementOfSeq
  <1>. QED
    BY <1>1, <1>2, <1>3, <1>4 DEF Sent, WriterSends, HubTypeOK

\* serveWS's own list (contacts.go:128-131).
LEMMA SendListEffect ==
  ASSUME ShapeInv, NEW c \in Conns, SendList(c)
  PROVE  /\ UNCHANGED clients
         /\ \A d \in Conns \ {c} : outbox'[d] = outbox[d] /\ serve'[d] = serve[d]
         /\ serve'[c] = Idle /\ serve[c].pc = "send_list"
         /\ \/ c \in closed /\ UNCHANGED <<outbox, unheard>>
            \/ UNCHANGED outbox /\ unheard' = unheard \cup ({Owner[c]} \X Contact[Owner[c]])
            \/ Added(c, ContactList(Contact[Owner[c]], serve[c].of)) /\ UNCHANGED unheard
  <1>1. Contact[Owner[c]] \in SUBSET Users /\ serve[c].of \in SUBSET Users
    BY HubAssumption, PresenceAssumption DEF ShapeInv, Shape
  <1>2. ContactList(Contact[Owner[c]], serve[c].of) \in Envelope
    BY <1>1, Envelopes
  <1>3. /\ \A d \in Conns \ {c} : serve'[d] = serve[d]
        /\ serve'[c] = Idle /\ serve[c].pc = "send_list"
    BY DEF SendList, Serve, Idle, ShapeInv, Shape
  <1>4. CASE TrySend(c, ContactList(Contact[Owner[c]], serve[c].of))
             /\ unheard' = IF Full(c) THEN unheard \cup ({Owner[c]} \X Contact[Owner[c]])
                                      ELSE unheard
    BY <1>2, <1>3, <1>4, TrySendEffect DEF ShapeInv, HubInv
  <1>5. CASE c \in closed /\ UNCHANGED <<clients, outbox, closed, unheard>>
    BY <1>3, <1>5
  <1>. QED
    BY <1>4, <1>5 DEF SendList

\* Whatever is put in c's outbox.
Welcome(c, e) ==
  e.type = "contact_list" => e.of = Contact[Owner[c]] /\ e.on \subseteq Contact[Owner[c]]

\* Nothing but serveWS puts a list in an outbox, and that is the user's own.
LEMMA OutboxStep ==
  ASSUME ShapeInv, [Next]_vars, NEW c \in Conns
  PROVE  \/ outbox'[c] = outbox[c] \/ (Sent(c) /\ Deliver(c))
         \/ outbox'[c] = <<>> /\ (ComeOnline(c) \/ Restart)
         \/ \E e \in Envelope : Added(c, e) /\ Welcome(c, e)
  <1>. USE DEF ShapeInv
  <1>. DEFINE Goal == \/ outbox'[c] = outbox[c] \/ (Sent(c) /\ Deliver(c))
                      \/ outbox'[c] = <<>> /\ (ComeOnline(c) \/ Restart)
                      \/ \E e \in Envelope : Added(c, e) /\ Welcome(c, e)
  <1>1. HubTypeOK /\ Shape
    BY DEF HubInv
  <1>2. ASSUME NEW u \in Users, NEW e \in Envelope, e.type # "contact_list", Route(u, e)
        PROVE  Goal
    BY <1>2, RouteEffect DEF Welcome
  <1>3. ASSUME NEW v \in Users, NEW u \in Users, NEW on \in BOOLEAN, Tell(u, v, on)
        PROVE  Goal
    <2>1. \A S : Presence(v, S).type # "contact_list"
      BY DEF Presence
    <2>. QED
      BY <1>2, <1>3, <2>1, Envelopes DEF Tell
  <1>4. ASSUME NEW d \in Conns, TellOnline(d) \/ TellOffline(d) PROVE Goal
    BY <1>1, <1>3, <1>4, HubAssumption DEF TellOnline, TellOffline, Shape
  <1>5. ASSUME NEW d \in Conns, HandleTyping(d) PROVE Goal
    <2>1. Head(frames[d]).to \in Users /\ Owner[d] \in Users
      BY <1>5, FrameTaken, HubAssumption DEF HandleTyping, Frame
    <2>2. \A S : Typing(Owner[d], S).type # "contact_list"
      BY DEF Typing
    <2>. QED
      BY <1>2, <1>5, <2>1, <2>2, Envelopes DEF HandleTyping
  <1>6. ASSUME NEW u \in Users, Chatter(u) PROVE Goal
    BY <1>2, <1>6, Envelopes DEF Chatter, Relay, Other
  <1>7. ASSUME NEW d \in Conns, TypingFails(d) PROVE Goal
    BY <1>1, <1>7, TrySendEffect, Envelopes
    DEF TypingFails, Reply, ReaderPanics, Other, Welcome
  <1>8. ASSUME NEW d \in Conns, SendList(d) PROVE Goal
    <2>1. Contact[Owner[c]] \in SUBSET Users /\ serve[c].of \in SUBSET Users
      BY HubAssumption, PresenceAssumption DEF Shape
    <2>2. PICK e \in Envelope : e = ContactList(Contact[Owner[c]], serve[c].of)
      BY <2>1, Envelopes
    <2>3. d = c => serve[c].of \subseteq Contact[Owner[c]]
      BY <1>8, SendListEffect DEF Goroutines, GoroutineAtWork
    <2>4. d = c => Welcome(c, e)
      BY <2>2, <2>3 DEF Welcome, ContactList
    <2>. QED
      BY <1>8, <2>2, <2>4, SendListEffect
  <1>9. ASSUME NEW d \in Conns, ComeOnline(d) PROVE Goal
    BY <1>1, <1>9 DEF ComeOnline, Connect, HubTypeOK
  <1>10. ASSUME NEW d \in Conns, Deliver(d) PROVE Goal
    BY <1>1, <1>10, WriterEffect DEF Deliver
  <1>11. ASSUME Restart PROVE Goal
    BY <1>11 DEF Restart
  <1>12. CASE UNCHANGED outbox
    BY <1>12
  <1>13. ASSUME NEW d \in Conns,
                \/ AskOnline(d) \/ AskNobody(d) \/ SayGoodbye(d) \/ ReaderEnds(d)
                \/ LoseSocket(d) \/ StopReading(d) \/ WriterEnds(d)
         PROVE  UNCHANGED outbox
    BY <1>13
    DEF AskOnline, AskNobody, SayGoodbye, ReaderEnds, LoseSocket, StopReading, WriterEnds,
        hubVars, ServeEnds, Unregister, ReaderReturns, SocketFails, ReadFails, WriterSeesClose,
        PingFails
  <1>. QED
    BY <1>4, <1>5, <1>6, <1>7, <1>8, <1>9, <1>10, <1>11, <1>12, <1>13
    DEF Next, ServeStep, Crash, CrashOfPanic, PanicCrashes, StopTyping, StartTyping, vars, hubVars

\* Every step keeps bursts to those who can see them.
LEMMA BurstsKept ==
  ASSUME ShapeInv, [Next]_vars
  PROVE  Bursts'
  <1>. USE DEF ShapeInv
  <1>1. ASSUME UNCHANGED burst,
               \A c \in Conns : frames'[c] = frames[c] \/ frames'[c] = <<>>
        PROVE  Bursts'
    BY <1>1 DEF Bursts
  <1>2. ASSUME NEW c \in Conns, NextFrame(c), UNCHANGED burst PROVE Bursts'
    <2>1. ASSUME NEW d \in Conns, NEW i \in 1..Len(frames'[d])
          PROVE  Owner[d] \in Contact[frames'[d][i].to]
      <3>1. CASE d # c
        BY <1>2, <2>1, <3>1, FrameTaken DEF Bursts
      <3>2. CASE d = c
        <4>1. i + 1 \in 1..Len(frames[c]) /\ frames'[c][i] = frames[c][i + 1]
          BY <1>2, <2>1, <3>2, FrameTaken
        <4>. QED
          BY <3>2, <4>1 DEF Bursts
      <3>. QED
        BY <3>1, <3>2
    <2>. QED
      BY <1>2, <2>1 DEF Bursts
  <1>3. ASSUME NEW u \in Users, NEW v \in Users, u \in Contact[v],
               \A c \in Conns : frames'[c] = frames[c] \/ (Owner[c] = u /\ Typed(c, v)),
               burst' = [burst EXCEPT ![u] = v] \/ burst' = [burst EXCEPT ![u] = NoConn]
        PROVE  Bursts'
    <2>1. \A w \in Users : burst'[w] # NoConn => w \in Contact[burst'[w]]
      <3>1. /\ burst' = [burst EXCEPT ![u] = v] \/ burst' = [burst EXCEPT ![u] = NoConn]
            /\ u \in Contact[v]
        BY <1>3
      <3>. QED
        BY <3>1 DEF Bursts, Shape
    <2>2. ASSUME NEW c \in Conns, NEW i \in 1..Len(frames'[c])
          PROVE  Owner[c] \in Contact[frames'[c][i].to]
      <3>1. frames[c] \in Seq(Frame)
        BY DEF Shape
      <3>2. CASE frames'[c] = frames[c]
        BY <2>2, <3>2 DEF Bursts
      <3>3. CASE Owner[c] = u /\ Typed(c, v)
        <4>1. CASE i \in 1..Len(frames[c])
          BY <3>3, <4>1 DEF Bursts, Typed
        <4>2. CASE i = Len(frames[c]) + 1
          BY <1>3, <3>3, <4>2 DEF Typed
        <4>. QED
          BY <2>2, <3>1, <3>3, <4>1, <4>2 DEF Typed
      <3>. QED
        BY <1>3, <3>2, <3>3
    <2>. QED
      BY <2>1, <2>2 DEF Bursts
  <1>4. ASSUME NEW u \in Users, StopTyping(u) PROVE Bursts'
    <2>1. /\ burst[u] \in Users /\ u \in Contact[burst[u]]
          /\ SendTyping(u, burst[u], FALSE) /\ burst' = [burst EXCEPT ![u] = NoConn]
      BY <1>4 DEF StopTyping, Shape, Bursts
    <2>2. PICK v \in Users : v = burst[u]
      BY <2>1
    <2>3. \A c \in Conns : frames'[c] = frames[c] \/ (Owner[c] = u /\ Typed(c, v))
      BY <2>1, <2>2, SendTypingShape
    <2>. QED
      BY <1>3, <2>1, <2>2, <2>3
  <1>5. ASSUME NEW u \in Users, NEW v \in Users, StartTyping(u, v) PROVE Bursts'
    <2>1. \A c \in Conns : frames'[c] = frames[c] \/ (Owner[c] = u /\ Typed(c, v))
      BY <1>5, SendTypingShape DEF StartTyping
    <2>2. u \in Contact[v] /\ burst' = [burst EXCEPT ![u] = v]
      BY <1>5 DEF StartTyping
    <2>. QED
      BY <1>3, <2>1, <2>2
  <1>6. ASSUME NEW c \in Conns, ComeOnline(c) \/ StopReading(c) PROVE Bursts'
    BY <1>1, <1>6 DEF ComeOnline, StopReading, Shape, client
  <1>7. ASSUME AllGone PROVE Bursts'
    BY <1>1, <1>7 DEF AllGone, client
  <1>8. CASE UNCHANGED <<burst, frames>>
    BY <1>1, <1>8
  <1>. QED
    BY <1>2, <1>4, <1>5, <1>6, <1>7, <1>8
    DEF Next, ServeStep, TellOnline, AskOnline, SendList, AskNobody, SayGoodbye, TellOffline,
        ReaderEnds, HandleTyping, TypingFails, Deliver, LoseSocket, WriterEnds, CrashOfPanic,
        Chatter, Crash, client, vars

\* Every step keeps the lists to their owners' contacts.
LEMMA ListsKept ==
  ASSUME ShapeInv, [Next]_vars
  PROVE  ListsAreOwn'
  <1>. USE DEF ShapeInv
  <1>1. HubTypeOK /\ Shape
    BY DEF HubInv
  <1>2. ASSUME NEW c \in Conns, NEW i \in 1..Len(outbox'[c])
        PROVE  Welcome(c, outbox'[c][i])
    <2>1. \A j \in 1..Len(outbox[c]) : Welcome(c, outbox[c][j])
      BY DEF ListsAreOwn, Welcome
    <2>2. Len(outbox[c]) \in Nat
      BY <1>1 DEF HubTypeOK
    <2>3. CASE Sent(c)
      BY <1>2, <2>1, <2>3 DEF Sent
    <2>4. ASSUME NEW e \in Envelope, Added(c, e), Welcome(c, e) PROVE Welcome(c, outbox'[c][i])
      BY <1>2, <2>1, <2>2, <2>4 DEF Added
    <2>. QED
      BY <1>2, <2>1, <2>3, <2>4, OutboxStep
  <1>3. ASSUME NEW u \in Users
        PROVE  sidebar'[u] \subseteq Contact[u] /\ online'[u] \subseteq sidebar'[u]
    <2>0. sidebar[u] \subseteq Contact[u] /\ online[u] \subseteq sidebar[u]
      BY DEF ListsAreOwn
    <2>1. CASE UNCHANGED <<sidebar, online>>
      BY <2>0, <2>1
    <2>2. ASSUME NEW c \in Conns, Deliver(c), c \in up
          PROVE  sidebar'[u] \subseteq Contact[u] /\ online'[u] \subseteq sidebar'[u]
      <3>1. Sent(c) /\ Received(Owner[c], outbox[c][1])
        BY <1>1, <2>2, WriterEffect DEF Deliver, Sent
      <3>2. Welcome(c, outbox[c][1]) /\ Owner[c] \in Users
        BY <3>1, HubAssumption DEF Sent, ListsAreOwn, Welcome
      <3>3. CASE outbox[c][1].type = "contact_list"
        BY <1>1, <2>0, <3>1, <3>2, <3>3 DEF Received, Welcome, Shape
      <3>4. CASE outbox[c][1].type # "contact_list"
        BY <1>1, <2>0, <3>1, <3>2, <3>4 DEF Received, MarkOnline, Shape
      <3>. QED
        BY <3>3, <3>4
    <2>. QED
      BY <2>1, <2>2
      DEF Next, ServeStep, ComeOnline, TellOnline, AskOnline, SendList, AskNobody, SayGoodbye,
          TellOffline, ReaderEnds, HandleTyping, TypingFails, Deliver, LoseSocket, StopReading,
          WriterEnds, CrashOfPanic, StartTyping, StopTyping, Chatter, Crash, AllGone, client, vars
  <1>. QED
    BY <1>2, <1>3 DEF ListsAreOwn, Welcome

LEMMA ShapeInvInit == PresenceInit => ShapeInv
  BY HubInvInit, HubAssumption, PresenceAssumption
  DEF PresenceInit, HubInit, ShapeInv, Shape, Goroutines, GoroutineAtWork, Bursts, ListsAreOwn, Idle

LEMMA ShapeInvStep == ShapeInv /\ [Next]_vars => ShapeInv'
  BY HubKept, ShapeKept, GoroutinesKept, BurstsKept, ListsKept DEF ShapeInv

LEMMA ShapeInvHolds == PresenceSpec => []ShapeInv
  BY ShapeInvInit, ShapeInvStep, PTL DEF PresenceSpec

\* The tables of the server and of the clients keep their shape: serveWS and
\* readPump only ever tell the users who have their own as a contact, and a
\* sidebar never holds anybody else (client.go:62-123, contacts.go:100-131).
THEOREM PresenceTypeCorrect == PresenceSpec => []PresenceTypeOK
  <1>1. ShapeInv => PresenceTypeOK
    <2>. SUFFICES ASSUME ShapeInv PROVE PresenceTypeOK
      OBVIOUS
    <2>1. \A c \in Conns : Owner[c] \in Users
      BY HubAssumption
    <2>2. ASSUME NEW c \in Conns PROVE serve[c].of \subseteq Users \ {Owner[c]}
      BY <2>1, PairsOf DEF ShapeInv, Shape, Goroutines, GoroutineAtWork
    <2>. QED
      BY <2>2
      DEF PresenceTypeOK, ShapeInv, Shape, Frame, Goroutines, GoroutineAtWork, ListsAreOwn
  <1>. QED
    BY <1>1, ShapeInvHolds, PTL

-----------------------------------------------------------------------------
(* Which step changes what.                                                *)

\* The hub's map forgets a user or gets a new connection of that user.
LEMMA ClientsStep ==
  ASSUME ShapeInv, [Next]_vars, NEW u \in Users
  PROVE  \/ clients'[u] = clients[u] \/ clients'[u] = NoConn
         \/ \E c \in Conns : ComeOnline(c) /\ Owner[c] = u
  <1>. USE DEF ShapeInv
  <1>. DEFINE Goal == \/ clients'[u] = clients[u] \/ clients'[u] = NoConn
                      \/ \E c \in Conns : ComeOnline(c) /\ Owner[c] = u
  <1>1. HubTypeOK
    BY DEF HubInv
  <1>2. ASSUME NEW v \in Users, NEW e, Route(v, e) PROVE Goal
    BY <1>1, <1>2 DEF Route, Enqueue, Unrouted, NoRoute, DropSlow, HubTypeOK
  <1>3. ASSUME NEW c \in Conns, TellOnline(c) \/ TellOffline(c) PROVE Goal
    BY <1>2, <1>3 DEF TellOnline, TellOffline, Tell, Shape
  <1>4. ASSUME NEW c \in Conns, HandleTyping(c) PROVE Goal
    <2>1. Head(frames[c]).to \in Users
      BY <1>4, FrameTaken DEF HandleTyping, Frame
    <2>. QED
      BY <1>2, <1>4, <2>1 DEF HandleTyping
  <1>5. ASSUME NEW v \in Users, Chatter(v) PROVE Goal
    BY <1>2, <1>5 DEF Chatter, Relay
  <1>6. ASSUME NEW c \in Conns, ComeOnline(c) PROVE Goal
    BY <1>1, <1>6, HubAssumption DEF ComeOnline, Connect, Register, HubTypeOK
  <1>7. ASSUME NEW c \in Conns, SayGoodbye(c) PROVE Goal
    BY <1>1, <1>7, HubAssumption DEF SayGoodbye, Unregister, HubUnregister, HubTypeOK
  <1>8. ASSUME Restart PROVE Goal
    BY <1>8 DEF Restart
  <1>9. CASE UNCHANGED clients
    BY <1>9
  <1>10. ASSUME NEW c \in Conns,
                \/ AskOnline(c) \/ SendList(c) \/ AskNobody(c) \/ ReaderEnds(c)
                \/ TypingFails(c) \/ Deliver(c) \/ LoseSocket(c) \/ StopReading(c)
                \/ WriterEnds(c)
         PROVE  UNCHANGED clients
    BY <1>10
    DEF AskOnline, SendList, AskNobody, ReaderEnds, TypingFails, Deliver, LoseSocket,
        StopReading, WriterEnds, hubVars, TrySend, ServeEnds, ReaderReturns, Reply,
        ReaderPanics, WriterSends, SocketFails, ReadFails, WriterSeesClose, PingFails
  <1>. QED
    BY <1>3, <1>4, <1>5, <1>6, <1>7, <1>8, <1>9, <1>10
    DEF Next, ServeStep, Crash, CrashOfPanic, PanicCrashes, StopTyping, StartTyping, vars, hubVars

\* A socket works from the dial on, until it fails or is closed.
LEMMA UpStep ==
  ASSUME ShapeInv, [Next]_vars, NEW c \in up'
  PROVE  c \in up \/ (c \in Conns /\ ComeOnline(c))
  <1>1. ASSUME NEW d \in Conns, ComeOnline(d) PROVE up' = up \cup {d}
    BY <1>1 DEF ComeOnline, Connect
  <1>2. ASSUME NEW d \in Conns,
               ReaderEnds(d) \/ TypingFails(d) \/ Deliver(d) \/ LoseSocket(d) \/ StopReading(d)
        PROVE  up' \subseteq up
    BY <1>2
    DEF ReaderEnds, TypingFails, Deliver, LoseSocket, StopReading, ReaderReturns, Reply,
        ReaderPanics, WriterSends, SocketFails, ReadFails
  <1>3. ASSUME NEW d \in Conns,
               TellOnline(d) \/ AskOnline(d) \/ SendList(d) \/ AskNobody(d) \/ SayGoodbye(d)
        PROVE  up' \subseteq up
    BY <1>3 DEF TellOnline, AskOnline, SendList, AskNobody, SayGoodbye, hubVars, ServeEnds,
                Unregister
  <1>4. ASSUME NEW d \in Conns, TellOffline(d) \/ HandleTyping(d) \/ WriterEnds(d)
        PROVE  up' \subseteq up
    BY <1>4 DEF TellOffline, HandleTyping, WriterEnds, WriterSeesClose, PingFails
  <1>5. ASSUME Restart PROVE up' \subseteq up
    BY <1>5 DEF Restart
  <1>6. CASE UNCHANGED up
    BY <1>6
  <1>. QED
    BY <1>1, <1>2, <1>3, <1>4, <1>5, <1>6
    DEF Next, ServeStep, CrashOfPanic, PanicCrashes, Crash, StartTyping, StopTyping, Chatter,
        Relay, hubVars, vars

\* readPump reads, unwinds, announces and returns, in this order, unless the
\* process dies.
LEMMA ReaderStep ==
  ASSUME ShapeInv, [Next]_vars, NEW c \in Conns
  PROVE  \/ reader'[c] = reader[c] \/ ComeOnline(c) \/ SayGoodbye(c) \/ Restart
         \/ reader[c] = "reading" /\ reader'[c] = "leaving"
         \/ reader[c] = "announcing" /\ reader'[c] = "idle" /\ farewell[c] = {}
  <1>. USE DEF ShapeInv
  <1>1. reader \in [Conns -> {"idle", "reading", "leaving", "announcing"}]
    BY DEF HubInv, HubTypeOK
  <1>2. ASSUME NEW d \in Conns, ComeOnline(d) \/ SayGoodbye(d)
        PROVE  d = c \/ reader'[c] = reader[c]
    BY <1>1, <1>2 DEF ComeOnline, SayGoodbye, Connect, Unregister
  <1>3. ASSUME NEW d \in Conns, StopReading(d) \/ ReaderEnds(d) \/ TypingFails(d)
        PROVE  \/ reader'[c] = reader[c]
               \/ reader[c] = "reading" /\ reader'[c] = "leaving"
               \/ reader[c] = "announcing" /\ reader'[c] = "idle" /\ farewell[c] = {}
    BY <1>1, <1>3 DEF StopReading, ReaderEnds, TypingFails, ReadFails, ReaderReturns, Reply,
                      ReaderPanics
  <1>4. CASE UNCHANGED reader
    BY <1>4
  <1>5. ASSUME NEW d \in Conns,
               \/ TellOnline(d) \/ TellOffline(d) \/ AskOnline(d) \/ SendList(d) \/ AskNobody(d)
               \/ HandleTyping(d) \/ Deliver(d) \/ LoseSocket(d) \/ WriterEnds(d)
        PROVE  UNCHANGED reader
    BY <1>5
    DEF TellOnline, TellOffline, AskOnline, SendList, AskNobody, HandleTyping, Deliver,
        LoseSocket, WriterEnds, hubVars, ServeEnds, WriterSends, SocketFails, WriterSeesClose,
        PingFails
  <1>. QED
    BY <1>2, <1>3, <1>4, <1>5
    DEF Next, ServeStep, CrashOfPanic, PanicCrashes, Crash, StartTyping, StopTyping, Chatter,
        Relay, hubVars, vars

\* A broadcast of "offline" is prepared by the unregister and then only
\* becomes shorter, unless the process dies.
LEMMA FarewellStep ==
  ASSUME ShapeInv, [Next]_vars, NEW c \in Conns
  PROVE  farewell'[c] = farewell[c] \/ SayGoodbye(c) \/ TellOffline(c) \/ Restart
  <1>1. farewell \in [Conns -> SUBSET Users]
    BY DEF ShapeInv, Shape
  <1>2. ASSUME NEW d \in Conns, SayGoodbye(d) \/ TellOffline(d), d # c
        PROVE  farewell'[c] = farewell[c]
    BY <1>1, <1>2 DEF SayGoodbye, TellOffline
  <1>3. CASE UNCHANGED farewell
    BY <1>3
  <1>4. ASSUME NEW d \in Conns,
               \/ ComeOnline(d) \/ TellOnline(d) \/ AskOnline(d) \/ SendList(d) \/ AskNobody(d)
               \/ ReaderEnds(d) \/ HandleTyping(d) \/ TypingFails(d) \/ Deliver(d)
               \/ LoseSocket(d) \/ StopReading(d) \/ WriterEnds(d)
        PROVE  UNCHANGED farewell
    BY <1>4
    DEF ComeOnline, TellOnline, AskOnline, SendList, AskNobody, ReaderEnds, HandleTyping,
        TypingFails, Deliver, LoseSocket, StopReading, WriterEnds
  <1>. QED
    BY <1>2, <1>3, <1>4
    DEF Next, ServeStep, CrashOfPanic, PanicCrashes, Crash, StartTyping, StopTyping, Chatter, vars

\* Typing frames are sent by the client and read or lost by readPump.
LEMMA FramesStep ==
  ASSUME ShapeInv, [Next]_vars, NEW c \in Conns
  PROVE  \/ frames'[c] = frames[c] \/ ComeOnline(c) \/ StopReading(c) \/ Restart
         \/ HandleTyping(c) \/ TypingFails(c)
         \/ c \in up /\ StopTyping(Owner[c])
         \/ c \in up /\ \E v \in Users : StartTyping(Owner[c], v)
  <1>. USE DEF ShapeInv
  <1>1. frames \in [Conns -> Seq(Frame)]
    BY DEF Shape
  <1>2. ASSUME NEW d \in Conns, HandleTyping(d) \/ TypingFails(d), d # c
        PROVE  frames'[c] = frames[c]
    BY <1>1, <1>2 DEF HandleTyping, TypingFails, NextFrame
  <1>3. ASSUME NEW d \in Conns, ComeOnline(d) \/ StopReading(d), d # c
        PROVE  frames'[c] = frames[c]
    BY <1>1, <1>3 DEF ComeOnline, StopReading
  <1>4. ASSUME NEW u, NEW v, NEW on, SendTyping(u, v, on), ~(c \in up /\ Owner[c] = u)
        PROVE  frames'[c] = frames[c]
    BY <1>4 DEF SendTyping
  <1>5. ASSUME NEW u \in Users, StopTyping(u) \/ \E v \in Users : StartTyping(u, v)
        PROVE  frames'[c] = frames[c] \/ (c \in up /\ Owner[c] = u)
    BY <1>4, <1>5 DEF StopTyping, StartTyping
  <1>6. CASE UNCHANGED frames
    BY <1>6
  <1>7. ASSUME NEW d \in Conns,
               \/ TellOnline(d) \/ TellOffline(d) \/ AskOnline(d) \/ SendList(d) \/ AskNobody(d)
               \/ SayGoodbye(d) \/ ReaderEnds(d) \/ Deliver(d) \/ LoseSocket(d) \/ WriterEnds(d)
        PROVE  UNCHANGED frames
    BY <1>7
    DEF TellOnline, TellOffline, AskOnline, SendList, AskNobody, SayGoodbye, ReaderEnds,
        Deliver, LoseSocket, WriterEnds
  <1>. QED
    BY <1>2, <1>3, <1>5, <1>6, <1>7
    DEF Next, ServeStep, CrashOfPanic, PanicCrashes, Crash, Chatter, vars

\* What was kept from a client stays on record.
LEMMA UnheardGrows ==
  ASSUME [Next]_vars
  PROVE  unheard \subseteq unheard' /\ unsaid \subseteq unsaid'
  BY DEF Next, ServeStep, ComeOnline, TellOnline, AskOnline, SendList, AskNobody, SayGoodbye,
         TellOffline, ReaderEnds, HandleTyping, TypingFails, Deliver, LoseSocket, StopReading,
         WriterEnds, CrashOfPanic, StartTyping, StopTyping, SendTyping, Chatter, Crash, AllGone,
         Audience, client, vars

\* Only a dial brings a socket up, and only when the client has none.
OneSocket == \A c, d \in up : Owner[c] = Owner[d] => c = d

LEMMA OneSocketKept ==
  ASSUME ShapeInv, OneSocket, [Next]_vars
  PROVE  OneSocket'
  <1>1. SUFFICES ASSUME NEW c \in up', NEW d \in up', Owner[c] = Owner[d] PROVE c = d
    BY DEF OneSocket
  <1>2. ASSUME NEW e \in Conns, ComeOnline(e)
        PROVE  up' = up \cup {e} /\ \A f \in up : Owner[f] # Owner[e]
    BY <1>2 DEF ComeOnline, Connect
  <1>. QED
    BY <1>1, <1>2, UpStep DEF OneSocket

-----------------------------------------------------------------------------
(* "typing..." does not stick.                                             *)

\* An envelope that takes v's indicator away, and one that shows it.
Stop(e, v) == e.type \in {"presence", "typing"} /\ e.of = {v} /\ e.on = {}
Start(e, v) == e.type = "typing" /\ v \in e.of /\ v \in e.on

\* The frame that ends a burst to u.
StopFrame(u) == [to |-> u, on |-> FALSE]

\* v types to u over a connection that works, or the end of the burst has
\* been sent and will be read, or "offline" is due, or a word was lost.
Typist(u, v) == burst[v] = u /\ \E d \in up : Owner[d] = v /\ reader[d] = "reading"
StopRead(u, v) ==
  \E d \in Conns : /\ Owner[d] = v /\ reader[d] = "reading"
                   /\ \E i \in 1..Len(frames[d]) : frames[d][i] = StopFrame(u)
Backed(u, v) ==
  Typist(u, v) \/ StopRead(u, v) \/ Farewell(u, v) \/ <<u, v>> \in unheard \cup unsaid

\* Every frame of a working connection belongs to the present burst or has
\* the end of its own behind it, unless that end was dropped.
FramesBacked ==
  \A d \in up : reader[d] = "reading" =>
    \A i \in 1..Len(frames[d]) :
      \/ burst[Owner[d]] = frames[d][i].to
      \/ <<frames[d][i].to, Owner[d]>> \in unsaid
      \/ \E j \in i..Len(frames[d]) : frames[d][j] = StopFrame(frames[d][i].to)

\* So has every envelope in a registered outbox ...
EnvelopesBacked ==
  \A p \in Pairs : clients[p[1]] # NoConn =>
    LET o == outbox[clients[p[1]]] IN
      \A i \in 1..Len(o) : Start(o[i], p[2]) =>
        Backed(p[1], p[2]) \/ \E j \in i..Len(o) : Stop(o[j], p[2])

\* ... and what the client shows.
ShownBacked ==
  \A p \in Pairs : clients[p[1]] # NoConn /\ clients[p[1]] \in up /\ typing[p] = "shown" =>
    LET o == outbox[clients[p[1]]] IN
      Backed(p[1], p[2]) \/ \E j \in 1..Len(o) : Stop(o[j], p[2])

\* The inductive invariant of TypingIsBacked.
TypingInv == ShapeInv /\ OneSocket /\ FramesBacked /\ EnvelopesBacked /\ ShownBacked

\* The end of a burst is behind everything that was sent over the connection,
\* unless the client's outbox was full.
LEMMA StopSent ==
  ASSUME Shape, NEW v \in Users, NEW u \in Users, SendTyping(v, u, FALSE),
         NEW d \in Conns, d \in up, Owner[d] = v
  PROVE  \/ frames'[d] = frames[d] /\ <<u, v>> \in unsaid'
         \/ Typed(d, u) /\ frames'[d][Len(frames[d]) + 1] = StopFrame(u)
  <1>1. PICK on \in BOOLEAN : on = FALSE
    OBVIOUS
  <1>2. SendTyping(v, u, on)
    BY <1>1
  <1>3. \/ frames'[d] = frames[d] /\ <<u, v>> \in unsaid'
        \/ Typed(d, u) /\ frames'[d][Len(frames[d]) + 1] = [to |-> u, on |-> on]
    BY <1>1, <1>2, SendTypingShape
  <1>. QED
    BY <1>1, <1>3 DEF StopFrame

\* The step in which d's serveWS, or readPump, tells u.
SaysOnline(d, u) == TellOnline(d) /\ Tell(u, Owner[d], TRUE)
SaysOffline(d, u) == TellOffline(d) /\ Tell(u, Owner[d], FALSE)

\* An "offline" that is due stays due until it is in the outbox
\* (client.go:117-123, presence.go:35-50).
LEMMA FarewellStays ==
  ASSUME ShapeInv, [Next]_vars, NEW u \in Users, NEW v \in Users, u \in Watchers(v),
         Farewell(u, v), clients[u] \in Conns, clients'[u] = clients[u]
  PROVE  \/ Farewell(u, v)' \/ <<u, v>> \in unheard'
         \/ /\ \E d \in Conns : Owner[d] = v /\ SaysOffline(d, u)
            /\ Added(clients[u], Presence(v, {}))
  <1>. USE DEF ShapeInv
  <1>. DEFINE Goal == \/ Farewell(u, v)' \/ <<u, v>> \in unheard'
                      \/ /\ \E d \in Conns : Owner[d] = v /\ SaysOffline(d, u)
            /\ Added(clients[u], Presence(v, {}))
  <1>0. /\ ~Restart
        /\ HubTypeOK /\ Shape
    BY HubAssumption DEF Restart, HubInv
  <1>1. PICK d \in Conns :
          /\ Owner[d] = v
          /\ \/ reader[d] = "reading" /\ (d \notin up \/ d # clients[v])
             \/ reader[d] = "leaving"
             \/ u \in farewell[d]
    BY DEF Farewell
  <1>2. ~ComeOnline(d)
    <2>1. reader[d] # "idle"
      BY <1>1 DEF Goroutines, GoroutineAtWork
    <2>. QED
      BY <2>1 DEF ComeOnline, Connect, Free
  <1>3. CASE SayGoodbye(d)
    <2>1. CASE unheard' = unheard /\ noise' = noise
      <3>1. farewell'[d] = Watchers(v)
        BY <1>0, <1>1, <1>3, <2>1 DEF SayGoodbye, Shape
      <3>. QED
        BY <1>1, <3>1 DEF Farewell
    <2>2. CASE unheard' = unheard \cup (Watchers(v) \X {v})
      BY <2>2
    <2>. QED
      BY <1>1, <1>3, <2>1, <2>2 DEF SayGoodbye, Audience
  <1>4. CASE ~SayGoodbye(d) /\ reader[d] \in {"reading", "leaving"}
    <2>1. reader'[d] = reader[d] \/ (reader[d] = "reading" /\ reader'[d] = "leaving")
      BY <1>0, <1>2, <1>4, ReaderStep
    <2>2. CASE reader'[d] = "leaving"
      BY <1>1, <2>2 DEF Farewell
    <2>3. CASE reader[d] = "reading" /\ reader'[d] = "reading"
      <3>1. d \notin up \/ d # clients[v]
        BY <1>1, <2>3 DEF Goroutines, GoroutineAtWork
      <3>2. d \notin up => d \notin up'
        BY <1>2, UpStep
      <3>3. d # clients[v] => d # clients'[v]
        <4>1. CASE \E c \in Conns : ComeOnline(c) /\ Owner[c] = v
          <5>1. PICK c \in Conns : ComeOnline(c) /\ Owner[c] = v
            BY <4>1
          <5>2. clients'[v] = c
            BY <1>0, <5>1 DEF ComeOnline, Connect, Register, HubTypeOK
          <5>. QED
            BY <1>2, <5>1, <5>2
        <4>. QED
          BY <4>1, ClientsStep, HubAssumption
      <3>. QED
        BY <1>1, <2>3, <3>1, <3>2, <3>3 DEF Farewell
    <2>. QED
      BY <1>4, <2>1, <2>2, <2>3
  <1>5. CASE ~SayGoodbye(d) /\ u \in farewell[d]
    <2>1. CASE farewell'[d] = farewell[d]
      BY <1>1, <1>5, <2>1 DEF Farewell
    <2>2. CASE TellOffline(d)
      <3>1. PICK w \in farewell[d] : /\ Tell(w, v, FALSE)
                                     /\ farewell' = [farewell EXCEPT ![d] = @ \ {w}]
        BY <1>1, <2>2 DEF TellOffline
      <3>2. CASE w # u
        BY <1>0, <1>1, <1>5, <3>1, <3>2 DEF Farewell, Shape
      <3>3. CASE w = u
        <4>1. Route(u, Presence(v, {})) /\ Presence(v, {}) \in Envelope
          BY <3>1, <3>3, Envelopes DEF Tell
        <4>2. Added(clients[u], Presence(v, {}))
          BY <1>0, <4>1, RouteEffect, HubAssumption DEF HubTypeOK
        <4>. QED
          BY <1>1, <2>2, <3>1, <3>3, <4>2 DEF SaysOffline
      <3>. QED
        BY <3>2, <3>3
    <2>. QED
      BY <1>0, <1>5, <2>1, <2>2, FarewellStep
  <1>. QED
    BY <1>1, <1>3, <1>4, <1>5

\* What backs an indicator goes on backing it until the word that takes it
\* away is in the outbox.
LEMMA BackedStays ==
  ASSUME ShapeInv, [Next]_vars, NEW u \in Users, NEW v \in Users, u \in Watchers(v),
         Backed(u, v), clients[u] \in Conns, clients'[u] = clients[u]
  PROVE  Backed(u, v)' \/ \E e \in Envelope : Added(clients[u], e) /\ Stop(e, v)
  <1>. USE DEF ShapeInv
  <1>. DEFINE Goal == Backed(u, v)' \/ \E e \in Envelope : Added(clients[u], e) /\ Stop(e, v)
  <1>0. ~Restart /\ HubTypeOK /\ Shape /\ u # NoConn /\ v \in Contact[u] /\ <<u, v>> \in Pairs
    BY HubAssumption, PresenceAssumption DEF Restart, HubInv, Watchers, Pairs
  <1>1. CASE <<u, v>> \in unheard \cup unsaid
    BY <1>1, UnheardGrows DEF Backed
  <1>2. CASE Farewell(u, v)
    <2>1. Presence(v, {}) \in Envelope /\ Stop(Presence(v, {}), v)
      BY Envelopes DEF Presence, Stop
    <2>. QED
      BY <1>2, <2>1, FarewellStays DEF Backed
  <1>3. ASSUME NEW d \in Conns, Owner[d] = v, reader[d] = "reading"
        PROVE  ~ComeOnline(d) /\ ~SayGoodbye(d)
    BY <1>3 DEF ComeOnline, Connect, Free, SayGoodbye, Unregister
  <1>4. ASSUME NEW d \in Conns, Owner[d] = v, reader'[d] = "leaving"
        PROVE  Goal
    BY <1>4 DEF Backed, Farewell
  <1>5. ASSUME NEW d \in Conns, Owner[d] = v, reader'[d] = "reading", d \notin up'
        PROVE  Goal
    BY <1>5 DEF Backed, Farewell
  <1>6. CASE Typist(u, v)
    <2>1. PICK d \in up : Owner[d] = v /\ reader[d] = "reading" /\ d \in Conns
      BY <1>0, <1>6 DEF Typist, HubTypeOK
    <2>2. CASE reader'[d] = "reading" /\ d \in up' /\ burst'[v] = u
      BY <2>1, <2>2 DEF Backed, Typist
    <2>3. CASE reader'[d] = "reading" /\ StopTyping(v)
      <3>1. SendTyping(v, u, FALSE)
        BY <1>6, <2>3 DEF StopTyping, Typist
      <3>2. CASE <<u, v>> \in unsaid'
        BY <3>2 DEF Backed
      <3>3. CASE Typed(d, u) /\ frames'[d][Len(frames[d]) + 1] = StopFrame(u)
        <4>1. Len(frames[d]) \in Nat
          BY <1>0 DEF Shape
        <4>2. Len(frames[d]) + 1 \in 1..Len(frames'[d])
          BY <3>3, <4>1 DEF Typed
        <4>. QED
          BY <2>1, <2>3, <3>3, <4>2 DEF Backed, StopRead
      <3>. QED
        BY <1>0, <2>1, <3>1, <3>2, <3>3, StopSent
    <2>4. burst'[v] = u \/ StopTyping(v)
      <3>1. ASSUME NEW w \in Users, NEW x \in Users, StartTyping(w, x) PROVE burst'[v] = u
        BY <1>0, <1>6, <3>1 DEF StartTyping, Typist, Shape
      <3>2. ASSUME NEW w \in Users, StopTyping(w), w # v PROVE burst'[v] = u
        BY <1>0, <1>6, <3>2 DEF StopTyping, Typist, Shape
      <3>3. CASE UNCHANGED burst
        BY <1>6, <3>3 DEF Typist
      <3>. QED
        BY <3>1, <3>2, <3>3
        DEF Next, ServeStep, ComeOnline, TellOnline, AskOnline, SendList, AskNobody, SayGoodbye,
            TellOffline, ReaderEnds, HandleTyping, TypingFails, Deliver, LoseSocket, StopReading,
            WriterEnds, CrashOfPanic, Chatter, Crash, AllGone, client, vars
    <2>5. reader'[d] \in {"reading", "leaving"}
      BY <1>0, <1>3, <2>1, ReaderStep
    <2>. QED
      BY <1>4, <1>5, <2>1, <2>2, <2>3, <2>4, <2>5
  <1>7. CASE StopRead(u, v)
    <2>1. PICK d \in Conns : /\ Owner[d] = v /\ reader[d] = "reading"
                             /\ \E i \in 1..Len(frames[d]) : frames[d][i] = StopFrame(u)
      BY <1>7 DEF StopRead
    <2>2. PICK i \in 1..Len(frames[d]) : frames[d][i] = StopFrame(u)
      BY <2>1
    <2>3. reader'[d] \in {"reading", "leaving"}
      BY <1>0, <1>3, <2>1, ReaderStep
    <2>4. ASSUME NEW k \in 1..Len(frames'[d]), frames'[d][k] = StopFrame(u), reader'[d] = "reading"
          PROVE  Goal
      BY <2>1, <2>4 DEF Backed, StopRead
    <2>5. CASE reader'[d] = "reading" /\ frames'[d] = frames[d]
      BY <2>2, <2>4, <2>5
    <2>6. CASE reader'[d] = "reading" /\ NextFrame(d) /\ i # 1
      <3>1. i - 1 \in 1..Len(frames'[d]) /\ frames'[d][i - 1] = frames[d][i]
        <4>1. frames[d] \in Seq(Frame) /\ frames[d] # <<>> /\ frames'[d] = Tail(frames[d])
          BY <1>0, <2>6 DEF NextFrame, Shape
        <4>2. Len(frames'[d]) = Len(frames[d]) - 1
          BY <4>1, HeadTailProperties
        <4>3. i - 1 \in 1..Len(frames'[d])
          BY <2>2, <2>6, <4>1, <4>2
        <4>. QED
          BY <2>6, <4>3, FrameTaken
      <3>. QED
        BY <2>2, <2>4, <2>6, <3>1
    <2>7. CASE HandleTyping(d) /\ i = 1
      <3>1. Head(frames[d]) = StopFrame(u)
        BY <1>0, <2>2, <2>7 DEF Shape
      <3>2. Route(u, Typing(v, {})) /\ Typing(v, {}) \in Envelope /\ Stop(Typing(v, {}), v)
        <4>1. Head(frames[d]).to = u /\ Head(frames[d]).on = FALSE
          BY <3>1 DEF StopFrame
        <4>2. Route(u, Typing(v, {}))
          BY <2>1, <2>7, <4>1 DEF HandleTyping
        <4>. QED
          BY <4>2, Envelopes DEF Typing, Stop
      <3>3. Added(clients[u], Typing(v, {}))
        BY <1>0, <3>2, RouteEffect, HubAssumption DEF HubTypeOK
      <3>. QED
        BY <3>2, <3>3
    <2>8. CASE TypingFails(d) /\ i = 1
      <3>1. Head(frames[d]) = StopFrame(u)
        BY <1>0, <2>2, <2>8 DEF Shape
      <3>2. <<u, v>> \in unheard'
        BY <2>1, <2>8, <3>1 DEF TypingFails, StopFrame
      <3>. QED
        BY <3>2 DEF Backed
    <2>9. ASSUME NEW w \in Users, Typed(d, w), reader'[d] = "reading" PROVE Goal
      <3>1. i \in 1..Len(frames'[d]) /\ frames'[d][i] = frames[d][i]
        <4>1. Len(frames[d]) \in Nat
          BY <1>0 DEF Shape
        <4>. QED
          BY <2>2, <2>9, <4>1 DEF Typed
      <3>. QED
        BY <2>2, <2>4, <2>9, <3>1
    <2>10. CASE d \in up /\ StopTyping(v)
      <3>1. burst[v] \in Users /\ SendTyping(v, burst[v], FALSE)
        BY <1>0, <2>10 DEF StopTyping, Shape
      <3>2. frames'[d] = frames[d] \/ Typed(d, burst[v])
        BY <1>0, <2>1, <2>10, <3>1, SendTypingShape
      <3>. QED
        BY <1>4, <2>1, <2>3, <2>5, <2>9, <3>1, <3>2
    <2>11. ASSUME NEW w \in Users, d \in up, StartTyping(v, w) PROVE Goal
      <3>1. frames'[d] = frames[d] \/ Typed(d, w)
        BY <1>0, <2>1, <2>11, SendTypingShape DEF StartTyping
      <3>. QED
        BY <1>4, <2>1, <2>3, <2>5, <2>9, <3>1
    <2>12. CASE StopReading(d)
      <3>1. reader'[d] = "leaving"
        BY <1>0, <2>12 DEF StopReading, ReadFails, HubTypeOK
      <3>. QED
        BY <1>4, <2>1, <3>1
    <2>13. HandleTyping(d) \/ TypingFails(d) => NextFrame(d)
      BY DEF HandleTyping, TypingFails
    <2>. QED
      BY <1>0, <1>3, <1>4, <2>1, <2>3, <2>5, <2>6, <2>7, <2>8, <2>10, <2>11, <2>12, <2>13,
         FramesStep
  <1>. QED
    BY <1>1, <1>2, <1>6, <1>7 DEF Backed

\* The envelope that handleTyping makes of d's next frame.
Relayed(d) == Typing(Owner[d], IF Head(frames[d]).on THEN {Owner[d]} ELSE {})

\* Who puts what in c's outbox.
LEMMA AddedBy ==
  ASSUME ShapeInv, [Next]_vars, NEW c \in Conns, NEW e \in Envelope, Added(c, e)
  PROVE  \/ e = Other
         \/ SendList(c) /\ e = ContactList(Contact[Owner[c]], serve[c].of)
         \/ /\ clients[Owner[c]] = c
            /\ \E d \in Conns :
                 \/ /\ HandleTyping(d) /\ Head(frames[d]).to = Owner[c]
                    /\ e = Relayed(d)
                 \/ /\ SaysOnline(d, Owner[c]) /\ e = Presence(Owner[d], {Owner[d]})
                 \/ /\ SaysOffline(d, Owner[c]) /\ e = Presence(Owner[d], {})
  <1>. USE DEF ShapeInv
  <1>. DEFINE Goal == \/ e = Other
                      \/ SendList(c) /\ e = ContactList(Contact[Owner[c]], serve[c].of)
                      \/ /\ clients[Owner[c]] = c
                         /\ \E d \in Conns :
                              \/ /\ HandleTyping(d) /\ Head(frames[d]).to = Owner[c]
                                 /\ e = Relayed(d)
                              \/ /\ SaysOnline(d, Owner[c]) /\ e = Presence(Owner[d], {Owner[d]})
                              \/ /\ SaysOffline(d, Owner[c]) /\ e = Presence(Owner[d], {})
  <1>1. HubTypeOK /\ Shape /\ Len(outbox[c]) \in Nat
    BY DEF HubInv, HubTypeOK
  <1>2. outbox'[c] # outbox[c] /\ outbox'[c] # <<>>
    BY <1>1 DEF Added
  <1>3. \A f : Added(c, f) => f = e
    BY DEF Added
  <1>4. ASSUME NEW u \in Users, NEW f \in Envelope, Route(u, f)
        PROVE  u = Owner[c] /\ clients[Owner[c]] = c /\ f = e
    BY <1>2, <1>3, <1>4, RouteEffect
  <1>5. ASSUME NEW d \in Conns, TellOnline(d) PROVE Goal
    <2>1. PICK u \in Users : Tell(u, Owner[d], TRUE)
      BY <1>1, <1>5 DEF TellOnline, Shape
    <2>2. Route(u, Presence(Owner[d], {Owner[d]}))
      BY <2>1 DEF Tell
    <2>3. Presence(Owner[d], {Owner[d]}) \in Envelope
      BY Envelopes, HubAssumption
    <2>. QED
      BY <1>4, <1>5, <2>1, <2>2, <2>3 DEF SaysOnline
  <1>6. ASSUME NEW d \in Conns, TellOffline(d) PROVE Goal
    <2>1. PICK u \in Users : Tell(u, Owner[d], FALSE)
      BY <1>1, <1>6 DEF TellOffline, Shape
    <2>2. Route(u, Presence(Owner[d], {}))
      BY <2>1 DEF Tell
    <2>3. Presence(Owner[d], {}) \in Envelope
      BY Envelopes, HubAssumption
    <2>. QED
      BY <1>4, <1>6, <2>1, <2>2, <2>3 DEF SaysOffline
  <1>7. ASSUME NEW d \in Conns, HandleTyping(d) PROVE Goal
    <2>1. Head(frames[d]).to \in Users /\ Owner[d] \in Users
      BY <1>7, FrameTaken, HubAssumption DEF HandleTyping, Frame
    <2>2. Relayed(d) \in Envelope
      BY <2>1, Envelopes DEF Relayed
    <2>3. Route(Head(frames[d]).to, Relayed(d))
      BY <1>7 DEF HandleTyping, Relayed
    <2>4. Head(frames[d]).to = Owner[c] /\ clients[Owner[c]] = c /\ Relayed(d) = e
      BY <1>4, <2>1, <2>2, <2>3
    <2>. QED
      BY <1>7, <2>4
  <1>8. ASSUME NEW u \in Users, Chatter(u) PROVE Goal
    BY <1>4, <1>8, Envelopes DEF Chatter, Relay
  <1>9. ASSUME NEW d \in Conns, TypingFails(d) PROVE Goal
    BY <1>1, <1>2, <1>3, <1>9, TrySendEffect, Envelopes DEF TypingFails, Reply, ReaderPanics
  <1>10. ASSUME NEW d \in Conns, SendList(d) PROVE Goal
    BY <1>2, <1>3, <1>10, SendListEffect
  <1>11. ASSUME NEW d \in Conns, ComeOnline(d) PROVE FALSE
    BY <1>1, <1>2, <1>11 DEF ComeOnline, Connect, HubTypeOK
  <1>12. ASSUME NEW d \in Conns, Deliver(d) PROVE FALSE
    <2>1. d = c
      BY <1>1, <1>2, <1>12, WriterEffect DEF Deliver
    <2>2. Len(outbox'[c]) = Len(outbox[c]) - 1
      BY <1>1, <1>12, <2>1, WriterEffect DEF Deliver, Sent
    <2>. QED
      BY <1>1, <2>2 DEF Added
  <1>13. ~Restart
    BY <1>2 DEF Restart
  <1>14. outbox' # outbox
    BY <1>2
  <1>15. ASSUME NEW d \in Conns,
                \/ AskOnline(d) \/ AskNobody(d) \/ SayGoodbye(d) \/ ReaderEnds(d)
                \/ LoseSocket(d) \/ StopReading(d) \/ WriterEnds(d)
         PROVE  UNCHANGED outbox
    BY <1>15
    DEF AskOnline, AskNobody, SayGoodbye, ReaderEnds, LoseSocket, StopReading, WriterEnds,
        hubVars, ServeEnds, Unregister, ReaderReturns, SocketFails, ReadFails, WriterSeesClose,
        PingFails
  <1>. QED
    BY <1>5, <1>6, <1>7, <1>8, <1>9, <1>10, <1>11, <1>12, <1>13, <1>14, <1>15
    DEF Next, ServeStep, Crash, CrashOfPanic, PanicCrashes, StopTyping, StartTyping, vars, hubVars

\* A client's burst begins and ends by its own keys only.
LEMMA BurstStep ==
  ASSUME ShapeInv, [Next]_vars, NEW v \in Users
  PROVE  burst'[v] = burst[v] \/ StopTyping(v) \/ \E w \in Users : StartTyping(v, w)
  <1>1. ASSUME NEW u \in Users, NEW w \in Users, StartTyping(u, w), u # v
        PROVE  burst'[v] = burst[v]
    BY <1>1 DEF StartTyping, ShapeInv, Shape
  <1>2. ASSUME NEW u \in Users, StopTyping(u), u # v PROVE burst'[v] = burst[v]
    BY <1>2 DEF StopTyping, ShapeInv, Shape
  <1>3. CASE UNCHANGED burst
    BY <1>3
  <1>. QED
    BY <1>1, <1>2, <1>3
    DEF Next, ServeStep, ComeOnline, TellOnline, AskOnline, SendList, AskNobody, SayGoodbye,
        TellOffline, ReaderEnds, HandleTyping, TypingFails, Deliver, LoseSocket, StopReading,
        WriterEnds, CrashOfPanic, Chatter, Crash, AllGone, client, vars

\* The end of a burst follows its beginning on every working connection.
LEMMA FramesBackedKept ==
  ASSUME TypingInv, [Next]_vars
  PROVE  FramesBacked'
  <1>. USE DEF TypingInv
  <1>1. SUFFICES ASSUME NEW d \in up', reader'[d] = "reading", NEW i \in 1..Len(frames'[d])
                 PROVE  \/ burst'[Owner[d]] = frames'[d][i].to
                        \/ <<frames'[d][i].to, Owner[d]>> \in unsaid'
                        \/ \E j \in i..Len(frames'[d]) :
                             frames'[d][j] = StopFrame(frames'[d][i].to)
    BY DEF FramesBacked, StopFrame
  <1>. DEFINE v == Owner[d]
  <1>. DEFINE Goal == \/ burst'[v] = frames'[d][i].to
                      \/ <<frames'[d][i].to, v>> \in unsaid'
                      \/ \E j \in i..Len(frames'[d]) :
                           frames'[d][j] = StopFrame(frames'[d][i].to)
  <1>2. /\ ~Restart /\ HubTypeOK /\ Shape /\ d \in Conns /\ v \in Users
        /\ Len(frames[d]) \in Nat /\ frames[d] \in Seq(Frame)
    <2>1. ~Restart /\ HubTypeOK /\ Shape
      BY DEF Restart, ShapeInv, HubInv
    <2>2. d \in Conns
      BY <2>1, UpStep DEF HubTypeOK
    <2>. QED
      BY <2>1, <2>2, HubAssumption DEF Shape
  <1>3. ~ComeOnline(d)
    BY <1>1, <1>2 DEF ComeOnline, Shape
  <1>4. d \in up /\ reader[d] = "reading"
    <2>1. ~SayGoodbye(d)
      BY <1>1, <1>2 DEF SayGoodbye, Unregister, HubTypeOK
    <2>. QED
      BY <1>1, <1>2, <1>3, <2>1, UpStep, ReaderStep
  <1>5. \A k \in 1..Len(frames[d]) :
          \/ burst[v] = frames[d][k].to
          \/ <<frames[d][k].to, v>> \in unsaid'
          \/ \E j \in k..Len(frames[d]) : frames[d][j] = StopFrame(frames[d][k].to)
    BY <1>4, UnheardGrows DEF FramesBacked
  <1>6. ASSUME NEW w \in Users, Typed(d, w), i # Len(frames[d]) + 1,
               burst[v] # frames[d][i].to
        PROVE  Goal
    <2>1. i \in 1..Len(frames[d]) /\ frames'[d][i] = frames[d][i]
      BY <1>2, <1>6 DEF Typed
    <2>2. CASE <<frames[d][i].to, v>> \in unsaid'
      BY <2>1, <2>2
    <2>3. ASSUME NEW j \in i..Len(frames[d]), frames[d][j] = StopFrame(frames[d][i].to)
          PROVE  Goal
      <3>1. j \in i..Len(frames'[d]) /\ frames'[d][j] = frames[d][j]
        BY <1>2, <1>6, <2>1 DEF Typed
      <3>. QED
        BY <2>1, <2>3, <3>1
    <2>. QED
      BY <1>5, <1>6, <2>1, <2>2, <2>3
  <1>7. CASE StopTyping(v)
    <2>1. PICK w \in Users : w = burst[v] /\ SendTyping(v, w, FALSE)
      BY <1>2, <1>7 DEF StopTyping, Shape
    <2>2. CASE frames'[d] = frames[d] /\ <<w, v>> \in unsaid'
      BY <1>5, <2>1, <2>2
    <2>3. CASE Typed(d, w) /\ frames'[d][Len(frames[d]) + 1] = StopFrame(w)
      <3>1. Len(frames[d]) + 1 \in i..Len(frames'[d])
        BY <1>2, <2>3 DEF Typed
      <3>2. frames'[d][i].to = w \/ burst[v] # frames[d][i].to
        BY <1>2, <2>1, <2>3 DEF Typed
      <3>3. i = Len(frames[d]) + 1 => frames'[d][i].to = w
        BY <2>3 DEF Typed
      <3>. QED
        BY <1>6, <2>3, <3>1, <3>2, <3>3
    <2>. QED
      BY <1>2, <1>4, <2>1, <2>2, <2>3, StopSent
  <1>8. ASSUME NEW w \in Users, StartTyping(v, w) PROVE Goal
    <2>1. burst'[v] = w /\ burst[v] = NoConn
      BY <1>2, <1>8 DEF StartTyping, Shape
    <2>2. \A k \in 1..Len(frames[d]) : burst[v] # frames[d][k].to
      <3>1. \A k \in 1..Len(frames[d]) : frames[d][k] \in Frame
        BY <1>2
      <3>. QED
        BY <2>1, <3>1, PresenceAssumption DEF Frame
    <2>3. CASE frames'[d] = frames[d]
      BY <1>5, <2>2, <2>3
    <2>4. CASE Typed(d, w)
      <3>1. i = Len(frames[d]) + 1 => frames'[d][i].to = w
        BY <2>4 DEF Typed
      <3>2. i # Len(frames[d]) + 1 => i \in 1..Len(frames[d])
        BY <1>2, <2>4 DEF Typed
      <3>. QED
        BY <1>6, <2>1, <2>2, <2>4, <3>1, <3>2
    <2>. QED
      BY <1>2, <1>4, <1>8, <2>3, <2>4, SendTypingShape DEF StartTyping
  <1>9. CASE NextFrame(d) /\ burst'[v] = burst[v]
    <2>1. i + 1 \in 1..Len(frames[d]) /\ frames'[d][i] = frames[d][i + 1]
      BY <1>2, <1>9, FrameTaken
    <2>2. ASSUME NEW j \in (i + 1)..Len(frames[d])
          PROVE  j - 1 \in i..Len(frames'[d]) /\ frames'[d][j - 1] = frames[d][j]
      <3>1. Len(frames'[d]) = Len(frames[d]) - 1
        <4>1. frames[d] # <<>> /\ frames'[d] = Tail(frames[d])
          BY <1>2, <1>9 DEF NextFrame, Shape
        <4>. QED
          BY <1>2, <4>1, HeadTailProperties
      <3>2. j - 1 \in i..Len(frames'[d]) /\ j - 1 \in 1..Len(frames'[d])
        BY <1>2, <3>1
      <3>. QED
        BY <1>2, <1>9, <3>2, FrameTaken
    <2>. QED
      BY <1>5, <1>9, <2>1, <2>2
  <1>10. CASE frames'[d] = frames[d] /\ burst'[v] = burst[v]
    BY <1>5, <1>10
  <1>11. ~StopReading(d)
    BY <1>1, <1>2 DEF StopReading, ReadFails, HubTypeOK
  <1>12. HandleTyping(d) \/ TypingFails(d) => NextFrame(d)
    BY DEF HandleTyping, TypingFails
  <1>. QED
    BY <1>2, <1>3, <1>7, <1>8, <1>9, <1>10, <1>11, <1>12, FramesStep, BurstStep

\* Whose registered outbox it is, in a step that is not that user's dial.
LEMMA StaysRegistered ==
  ASSUME ShapeInv, [Next]_vars, NEW u \in Users, clients'[u] # NoConn,
         \A c \in Conns : ~(ComeOnline(c) /\ Owner[c] = u)
  PROVE  /\ clients'[u] = clients[u] /\ clients[u] \in Conns /\ Owner[clients[u]] = u
         /\ ~Restart /\ Len(outbox[clients[u]]) \in Nat
         /\ clients[u] \in up' => clients[u] \in up
  <1>1. HubTypeOK /\ RegisteredIsLive
    BY DEF ShapeInv, HubInv
  <1>2. clients'[u] = clients[u] /\ clients[u] \in Conns
    BY <1>1, ClientsStep DEF HubTypeOK
  <1>3. Owner[clients[u]] = u
    BY <1>1, <1>2, HubAssumption DEF RegisteredIsLive
  <1>4. ~Restart
    BY DEF Restart
  <1>. QED
    BY <1>1, <1>2, <1>3, <1>4, UpStep DEF HubTypeOK

\* The registered outbox of a user who has just dialled is empty.
LEMMA DialledIsEmpty ==
  ASSUME ShapeInv, NEW c \in Conns, ComeOnline(c)
  PROVE  clients'[Owner[c]] = c /\ outbox'[c] = <<>> /\ c \in up'
  BY HubAssumption DEF ComeOnline, Connect, Register, ShapeInv, HubInv, HubTypeOK

\* "typing" is relayed for a burst that is still on, or that has an end.
LEMMA StartIsBacked ==
  ASSUME TypingInv, [Next]_vars, NEW u \in Users, NEW v \in Users, v \in Contact[u],
         clients[u] \in Conns, clients'[u] = clients[u], Owner[clients[u]] = u,
         NEW e \in Envelope, Added(clients[u], e), Start(e, v)
  PROVE  Backed(u, v)'
  <1>. USE DEF TypingInv
  <1>. DEFINE c == clients[u]
  <1>0. /\ ~Restart /\ Shape /\ HubTypeOK
    BY HubAssumption DEF Restart, ShapeInv, HubInv
  <1>1. PICK d \in Conns :
          /\ HandleTyping(d) /\ Head(frames[d]).to = u
          /\ e = Relayed(d)
    <2>1. e.type = "typing"
      BY DEF Start
    <2>2. /\ Other.type # "typing" /\ \A S, T : ContactList(S, T).type # "typing"
          /\ \A w, S : Presence(w, S).type # "typing"
      BY DEF Other, ContactList, Presence
    <2>3. /\ e # Other /\ e # ContactList(Contact[u], serve[c].of)
          /\ \A S : \A d \in Conns : e # Presence(Owner[d], S)
      BY <2>1, <2>2
    <2>4. PICK k \in Conns : k = clients[u]
      OBVIOUS
    <2>5. \/ e = Other
          \/ SendList(k) /\ e = ContactList(Contact[Owner[k]], serve[k].of)
          \/ /\ clients[Owner[k]] = k
             /\ \E d \in Conns :
                  \/ /\ HandleTyping(d) /\ Head(frames[d]).to = Owner[k]
                     /\ e = Relayed(d)
                  \/ /\ SaysOnline(d, Owner[k]) /\ e = Presence(Owner[d], {Owner[d]})
                  \/ /\ SaysOffline(d, Owner[k]) /\ e = Presence(Owner[d], {})
      <3>1. ShapeInv /\ Added(k, e)
        BY <2>4
      <3>. QED
        BY <3>1, AddedBy
    <2>. QED
      BY <2>3, <2>4, <2>5
  <1>2. Owner[d] = v /\ Head(frames[d]).on
    BY <1>1 DEF Start, Typing, Relayed
  <1>3. /\ frames[d] \in Seq(Frame) /\ frames[d] # <<>> /\ frames'[d] = Tail(frames[d])
        /\ 1 \in 1..Len(frames[d]) /\ Head(frames[d]) = frames[d][1]
        /\ Len(frames[d]) \in Nat /\ reader[d] = "reading" /\ reader'[d] = "reading"
        /\ UNCHANGED <<up, burst>>
    BY <1>0, <1>1 DEF HandleTyping, NextFrame, Shape, client
  <1>4. CASE d \notin up
    BY <1>2, <1>3, <1>4 DEF Backed, Farewell
  <1>5. CASE d \in up /\ burst[v] = u
    BY <1>2, <1>3, <1>5 DEF Backed, Typist
  <1>6. CASE <<u, v>> \in unsaid
    BY <1>6, UnheardGrows DEF Backed
  <1>7. CASE d \in up /\ burst[v] # u /\ <<u, v>> \notin unsaid
    <2>1. PICK j \in 1..Len(frames[d]) : frames[d][j] = StopFrame(u)
      BY <1>1, <1>2, <1>3, <1>7 DEF FramesBacked
    <2>2. j # 1
      BY <1>2, <1>3, <2>1 DEF StopFrame
    <2>3. Len(frames'[d]) = Len(frames[d]) - 1
      BY <1>3, HeadTailProperties
    <2>4. j - 1 \in 1..Len(frames'[d])
      BY <1>3, <2>2, <2>3
    <2>5. frames'[d][j - 1] = frames[d][j]
      <3>1. NextFrame(d)
        BY <1>1 DEF HandleTyping
      <3>. QED
        BY <2>4, <3>1, FrameTaken
    <2>. QED
      BY <1>2, <1>3, <2>1, <2>4, <2>5 DEF Backed, StopRead
  <1>. QED
    BY <1>4, <1>5, <1>6, <1>7

LEMMA EnvelopesBackedKept ==
  ASSUME TypingInv, [Next]_vars
  PROVE  EnvelopesBacked'
  <1>. USE DEF TypingInv
  <1>1. SUFFICES ASSUME NEW u \in Users, NEW v \in Users, v \in Contact[u], <<u, v>> \in Pairs,
                        clients'[u] # NoConn, NEW i \in 1..Len(outbox'[clients'[u]]),
                        Start(outbox'[clients'[u]][i], v)
                 PROVE  \/ Backed(u, v)'
                        \/ \E j \in i..Len(outbox'[clients'[u]]) : Stop(outbox'[clients'[u]][j], v)
    BY DEF EnvelopesBacked, Pairs
  <1>2. \A c \in Conns : ~(ComeOnline(c) /\ Owner[c] = u)
    BY <1>1, DialledIsEmpty
  <1>. DEFINE c == clients[u]
  <1>3. /\ clients'[u] = c /\ c \in Conns /\ Owner[c] = u /\ ~Restart
        /\ Len(outbox[c]) \in Nat /\ u \in Watchers(v)
    BY <1>1, <1>2, StaysRegistered DEF Watchers
  <1>4. ASSUME NEW k \in 1..Len(outbox[c]), Start(outbox[c][k], v)
        PROVE  \/ Backed(u, v)'
               \/ \E e \in Envelope : Added(c, e) /\ Stop(e, v)
               \/ \E j \in k..Len(outbox[c]) : Stop(outbox[c][j], v)
    <2>1. clients[u] # NoConn
      BY <1>3, HubAssumption
    <2>2. Backed(u, v) \/ \E j \in k..Len(outbox[c]) : Stop(outbox[c][j], v)
      BY <1>1, <1>4, <2>1 DEF EnvelopesBacked
    <2>. QED
      BY <1>3, <2>2, BackedStays
  <1>5. CASE outbox'[c] = outbox[c]
    <2>1. \A e : ~Added(c, e)
      BY <1>3, <1>5 DEF Added
    <2>. QED
      BY <1>1, <1>3, <1>4, <1>5, <2>1
  <1>6. CASE Sent(c)
    <2>1. i + 1 \in 1..Len(outbox[c]) /\ outbox'[c][i] = outbox[c][i + 1]
      BY <1>1, <1>3, <1>6 DEF Sent
    <2>2. \A e : ~Added(c, e)
      BY <1>3, <1>6 DEF Added, Sent
    <2>3. ASSUME NEW j \in (i + 1)..Len(outbox[c]), Stop(outbox[c][j], v)
          PROVE  j - 1 \in i..Len(outbox'[c]) /\ Stop(outbox'[c][j - 1], v)
      <3>1. j - 1 \in i..Len(outbox'[c]) /\ j - 1 \in 1..Len(outbox'[c])
        BY <1>1, <1>3, <1>6, <2>1 DEF Sent
      <3>2. outbox'[c][j - 1] = outbox[c][j]
        <4>1. PICK k \in 1..Len(outbox'[c]) : k = j - 1 /\ j = k + 1
          BY <1>3, <3>1
        <4>. QED
          BY <1>6, <4>1 DEF Sent
      <3>. QED
        BY <2>3, <3>1, <3>2
    <2>. QED
      BY <1>1, <1>3, <1>4, <2>1, <2>2, <2>3
  <1>7. ASSUME NEW e \in Envelope, Added(c, e)
        PROVE  Backed(u, v)' \/ \E j \in i..Len(outbox'[c]) : Stop(outbox'[c][j], v)
    <2>1. CASE i = Len(outbox[c]) + 1
      BY <1>1, <1>3, <1>7, <2>1, StartIsBacked DEF Added
    <2>2. CASE i # Len(outbox[c]) + 1
      <3>1. i \in 1..Len(outbox[c]) /\ Start(outbox[c][i], v)
        BY <1>1, <1>3, <1>7, <2>2 DEF Added
      <3>2. Len(outbox[c]) + 1 \in i..Len(outbox'[c])
        BY <1>3, <1>7, <3>1 DEF Added
      <3>3. \A f : Added(c, f) => outbox'[c][Len(outbox[c]) + 1] = f
        BY DEF Added
      <3>4. \A j \in i..Len(outbox[c]) : j \in i..Len(outbox'[c]) /\ outbox'[c][j] = outbox[c][j]
        BY <1>3, <1>7, <3>1 DEF Added
      <3>. QED
        BY <1>4, <3>1, <3>2, <3>3, <3>4
    <2>. QED
      BY <2>1, <2>2
  <1>8. outbox'[c] # <<>>
    BY <1>1, <1>3
  <1>. QED
    BY <1>3, <1>5, <1>6, <1>7, <1>8, OutboxStep

\* An indicator appears when its envelope is delivered.
LEMMA TypingStep ==
  ASSUME ShapeInv, [Next]_vars, NEW p \in Pairs, typing'[p] = "shown"
  PROVE  \/ /\ typing[p] = "shown"
            /\ \A d \in Conns : Deliver(d) /\ d \in up /\ Owner[d] = p[1]
                                => ~Stop(outbox[d][1], p[2])
         \/ \E d \in Conns : /\ Deliver(d) /\ d \in up /\ Owner[d] = p[1]
                             /\ Start(outbox[d][1], p[2])
  <1>. USE DEF ShapeInv
  <1>1. ASSUME NEW d \in Conns, Deliver(d), d \in up
        PROVE  /\ typing[p] # "shown" => Owner[d] = p[1] /\ Start(outbox[d][1], p[2])
               /\ Owner[d] = p[1] => ~Stop(outbox[d][1], p[2])
    <2>1. Received(Owner[d], outbox[d][1])
      BY <1>1, WriterEffect DEF Deliver, Sent, HubInv
    <2>2. CASE outbox[d][1].type = "typing"
      BY <2>1, <2>2 DEF Received, Indicate, Start, Stop
    <2>3. CASE outbox[d][1].type = "presence"
      BY <2>1, <2>3 DEF Received, Silence, Start, Stop
    <2>4. CASE outbox[d][1].type \notin {"presence", "typing"}
      BY <2>1, <2>4 DEF Received, Start, Stop
    <2>. QED
      BY <2>2, <2>3, <2>4
  <1>2. ASSUME NEW d \in Conns, ComeOnline(d) PROVE typing[p] = "shown"
    BY <1>2 DEF ComeOnline
  <1>3. CASE UNCHANGED typing
    BY <1>1, <1>3
  <1>4. ASSUME NEW d \in Conns, Deliver(d), d \notin up PROVE typing[p] = "shown"
    BY <1>4 DEF Deliver
  <1>5. typing[p] = "shown" \/ \E d \in Conns : Deliver(d) /\ d \in up
    BY <1>2, <1>3, <1>4
    DEF Next, ServeStep, TellOnline, AskOnline, SendList, AskNobody, SayGoodbye,
        TellOffline, ReaderEnds, HandleTyping, TypingFails, LoseSocket, StopReading,
        WriterEnds, CrashOfPanic, StartTyping, StopTyping, Chatter, Crash, AllGone, client, vars
  <1>. QED
    BY <1>1, <1>5

LEMMA ShownBackedKept ==
  ASSUME TypingInv, [Next]_vars
  PROVE  ShownBacked'
  <1>. USE DEF TypingInv
  <1>1. SUFFICES ASSUME NEW u \in Users, NEW v \in Users, v \in Contact[u], <<u, v>> \in Pairs,
                        clients'[u] # NoConn, clients'[u] \in up', typing'[<<u, v>>] = "shown"
                 PROVE  \/ Backed(u, v)'
                        \/ \E j \in 1..Len(outbox'[clients'[u]]) : Stop(outbox'[clients'[u]][j], v)
    BY DEF ShownBacked, Pairs
  <1>2. \A c \in Conns : ~(ComeOnline(c) /\ Owner[c] = u)
    BY <1>1 DEF ComeOnline
  <1>. DEFINE c == clients[u]
  <1>3. /\ clients'[u] = c /\ c \in Conns /\ Owner[c] = u /\ ~Restart /\ c \in up
        /\ Len(outbox[c]) \in Nat /\ u \in Watchers(v) /\ c # NoConn
    BY <1>1, <1>2, StaysRegistered, HubAssumption DEF Watchers
  <1>4. \/ Backed(u, v) \/ \E j \in 1..Len(outbox[c]) : Stop(outbox[c][j], v)
    <2>1. CASE typing[<<u, v>>] = "shown"
      BY <1>1, <1>3, <2>1 DEF ShownBacked
    <2>2. ASSUME NEW d \in Conns, Deliver(d), d \in up, Owner[d] = u, Start(outbox[d][1], v)
          PROVE  \/ Backed(u, v) \/ \E j \in 1..Len(outbox[c]) : Stop(outbox[c][j], v)
      <3>1. d = c
        BY <1>3, <2>2 DEF OneSocket
      <3>2. 1 \in 1..Len(outbox[c])
        BY <2>2, <3>1, WriterEffect DEF Deliver, Sent, ShapeInv, HubInv
      <3>. QED
        BY <1>1, <1>3, <2>2, <3>1, <3>2 DEF EnvelopesBacked
    <2>. QED
      BY <1>1, <2>1, <2>2, TypingStep
  <1>5. Backed(u, v) => Backed(u, v)' \/ \E e \in Envelope : Added(c, e) /\ Stop(e, v)
    BY <1>3, BackedStays
  <1>6. ASSUME NEW e \in Envelope, Added(c, e), Stop(e, v)
        PROVE  \E j \in 1..Len(outbox'[c]) : Stop(outbox'[c][j], v)
    <2>1. Len(outbox[c]) + 1 \in 1..Len(outbox'[c])
      BY <1>3, <1>6 DEF Added
    <2>. QED
      BY <1>6, <2>1 DEF Added
  <1>7. ASSUME NEW j \in 1..Len(outbox[c]), Stop(outbox[c][j], v)
        PROVE  \/ Backed(u, v)' \/ \E k \in 1..Len(outbox'[c]) : Stop(outbox'[c][k], v)
    <2>1. CASE outbox'[c] = outbox[c]
      BY <1>7, <2>1
    <2>2. ASSUME NEW e \in Envelope, Added(c, e)
          PROVE  \E k \in 1..Len(outbox'[c]) : Stop(outbox'[c][k], v)
      <3>1. j \in 1..Len(outbox'[c]) /\ outbox'[c][j] = outbox[c][j]
        BY <1>3, <2>2 DEF Added
      <3>. QED
        BY <1>7, <3>1
    <2>3. CASE Sent(c) /\ Deliver(c) /\ j # 1
      <3>1. j - 1 \in 1..Len(outbox'[c]) /\ outbox'[c][j - 1] = outbox[c][j]
        <4>1. j - 1 \in 1..Len(outbox'[c])
          BY <1>3, <2>3 DEF Sent
        <4>. QED
          BY <2>3, <4>1 DEF Sent
      <3>. QED
        BY <1>7, <3>1
    <2>4. CASE Deliver(c) /\ j = 1
      <3>1. PICK d \in Conns : /\ Deliver(d) /\ d \in up /\ Owner[d] = u
                               /\ Start(outbox[d][1], v)
        BY <1>1, <1>3, <1>7, <2>4, TypingStep
      <3>2. d = c
        BY <1>3, <3>1 DEF OneSocket
      <3>. QED
        BY <1>7, <2>4, <3>1, <3>2 DEF Start, Stop
    <2>. QED
      BY <1>2, <1>3, <2>1, <2>2, <2>3, <2>4, OutboxStep
  <1>. QED
    BY <1>3, <1>4, <1>5, <1>6, <1>7

LEMMA TypingInvInit == PresenceInit => TypingInv
  <1>. SUFFICES ASSUME PresenceInit PROVE TypingInv
    OBVIOUS
  <1>1. /\ up = {} /\ clients = [u \in Users |-> NoConn]
    BY DEF PresenceInit, HubInit
  <1>2. \A p \in Pairs : clients[p[1]] = NoConn
    BY <1>1 DEF Pairs
  <1>. QED
    BY <1>1, <1>2, ShapeInvInit
    DEF TypingInv, OneSocket, FramesBacked, EnvelopesBacked, ShownBacked

LEMMA TypingInvStep == TypingInv /\ [Next]_vars => TypingInv'
  BY ShapeInvStep, OneSocketKept, FramesBackedKept, EnvelopesBackedKept, ShownBackedKept
  DEF TypingInv

\* "typing..." does not stick: whatever the other side's connections do in
\* mid-burst, what is shown over a client's present connection is true, or
\* the word that takes it back is on its way (client.go:117-171,
\* events.go:372-398).
THEOREM TypingBacked == PresenceSpec => []TypingIsBacked
  <1>1. TypingInv => TypingIsBacked
    <2>. SUFFICES ASSUME TypingInv, NEW p \in Pairs, typing[p] = "shown",
                         clients[p[1]] # NoConn, clients[p[1]] \in up
                  PROVE  \/ burst[p[2]] = p[1] \/ StopOnItsWay(p[1], p[2])
                         \/ p \in unheard \cup unsaid
      BY DEF TypingIsBacked
    <2>1. p = <<p[1], p[2]>>
      BY DEF Pairs
    <2>2. CASE Backed(p[1], p[2])
      <3>1. StopRead(p[1], p[2]) \/ Farewell(p[1], p[2]) => StopOnItsWay(p[1], p[2])
        BY DEF StopRead, StopFrame, StopOnItsWay
      <3>. QED
        BY <2>1, <2>2, <3>1 DEF Backed, Typist
    <2>3. ASSUME NEW j \in 1..Len(outbox[clients[p[1]]]), Stop(outbox[clients[p[1]]][j], p[2])
          PROVE  StopOnItsWay(p[1], p[2])
      BY <2>3 DEF Stop, StopOnItsWay
    <2>. QED
      BY <2>2, <2>3 DEF TypingInv, ShownBacked
  <1>. QED
    BY <1>1, TypingInvInit, TypingInvStep, PTL DEF PresenceSpec

-----------------------------------------------------------------------------
(* The sidebar settles on the truth.                                       *)

\* An envelope that says whether v is online.
Says(e, v) == e.type = "contact_list" \/ (e.type = "presence" /\ (v \in e.of \/ v \in e.on))

\* What excuses a sidebar that is wrong about v.
Excused(u, v) == <<u, v>> \in misled \cup unheard \/ Greeting(u, v) \/ Farewell(u, v)

\* The last word in u's outbox about v, or else what its sidebar shows, is
\* true.
Right(u, v) ==
  LET o == outbox[clients[u]] IN
    /\ \A i \in 1..Len(o) :
         Says(o[i], v) /\ (\A j \in (i + 1)..Len(o) : ~Says(o[j], v))
         => (v \in o[i].on <=> Registered(v))
    /\ (\A i \in 1..Len(o) : ~Says(o[i], v)) => (v \in online[u] <=> Registered(v))

\* serveWS has done its part: the sidebar has v, or a list is on its way, or
\* a word was lost.
Informed ==
  \A p \in Pairs :
    LET u == p[1]
        v == p[2]
        c == clients[u]
    IN  c # NoConn /\ c \in up /\ serve[c].pc = "none" =>
          \/ v \in sidebar[u] \/ <<u, v>> \in unheard
          \/ \E i \in 1..Len(outbox[c]) : outbox[c][i].type = "contact_list"

\* The snapshot that serveWS is about to send, and the last word after it,
\* are true unless something excuses them.
Truthful ==
  \A p \in Pairs :
    LET u == p[1]
        v == p[2]
        c == clients[u]
    IN  c # NoConn /\ c \in up /\ ~Excused(u, v) =>
          /\ serve[c].pc = "send_list" => (v \in serve[c].of <=> Registered(v))
          /\ serve[c].pc = "none" => Right(u, v)

\* The inductive invariant of SettledIsRight.
SettledInv == ShapeInv /\ OneSocket /\ Informed /\ Truthful

\* serveWS registers, tells, asks, sends and is done.
LEMMA ServeChange ==
  ASSUME ShapeInv, [Next]_vars, NEW c \in Conns
  PROVE  \/ serve'[c] = serve[c] \/ ComeOnline(c) \/ TellOnline(c) \/ AskOnline(c)
         \/ AskNobody(c) \/ SendList(c) \/ Restart
  <1>1. serve \in [Conns -> [pc : {"none", "online", "send_list"}, of : SUBSET Users]]
    BY DEF ShapeInv, Shape
  <1>2. ASSUME NEW d \in Conns, ComeOnline(d) \/ TellOnline(d), d # c
        PROVE  serve'[c] = serve[c]
    BY <1>1, <1>2 DEF ComeOnline, TellOnline, Serve
  <1>3. ASSUME NEW d \in Conns, AskOnline(d) \/ AskNobody(d) \/ SendList(d), d # c
        PROVE  serve'[c] = serve[c]
    BY <1>1, <1>3 DEF AskOnline, AskNobody, SendList, Serve
  <1>4. CASE UNCHANGED serve
    BY <1>4
  <1>5. ASSUME NEW d \in Conns,
               \/ SayGoodbye(d) \/ TellOffline(d) \/ ReaderEnds(d) \/ HandleTyping(d)
               \/ TypingFails(d) \/ Deliver(d) \/ LoseSocket(d) \/ StopReading(d) \/ WriterEnds(d)
        PROVE  UNCHANGED serve
    BY <1>5 DEF SayGoodbye, TellOffline, ReaderEnds, HandleTyping, TypingFails, Deliver,
                LoseSocket, StopReading, WriterEnds
  <1>. QED
    BY <1>2, <1>3, <1>4, <1>5
    DEF Next, ServeStep, CrashOfPanic, PanicCrashes, Crash, StartTyping, StopTyping, Chatter, vars

\* serveWS goes on telling after it has told one.
LEMMA StillTelling ==
  ASSUME ShapeInv, NEW c \in Conns, TellOnline(c)
  PROVE  serve'[c].pc = "online"
  <1>1. PICK u : serve' = [serve EXCEPT ![c] = [pc |-> "online", of |-> serve[c].of \ {u}]]
    BY DEF TellOnline, Serve
  <1>. QED
    BY <1>1 DEF ShapeInv, Shape

\* A dial greets all who have the user as a contact, or the failing
\* statement that kept it from them is on record (presence.go:35-50).
LEMMA DialGreets ==
  ASSUME ShapeInv, NEW c \in Conns, ComeOnline(c), NEW u \in Watchers(Owner[c])
  PROVE  Greeting(u, Owner[c])' \/ <<u, Owner[c]>> \in unheard'
  <1>1. CASE noise' = noise
    <2>1. serve' = [serve EXCEPT ![c] = [pc |-> "online", of |-> Watchers(Owner[c])]]
      BY <1>1 DEF ComeOnline, Serve
    <2>2. serve'[c].pc = "online" /\ serve'[c].of = Watchers(Owner[c])
      BY <2>1 DEF ShapeInv, Shape
    <2>. QED
      BY <2>2 DEF Greeting
  <1>2. CASE unheard' = unheard \cup (Watchers(Owner[c]) \X {Owner[c]})
    BY <1>2
  <1>. QED
    BY <1>1, <1>2 DEF ComeOnline, Audience

\* So does an unregister with its farewell.
LEMMA GoodbyeFollows ==
  ASSUME ShapeInv, NEW c \in Conns, SayGoodbye(c), NEW u \in Watchers(Owner[c])
  PROVE  Farewell(u, Owner[c])' \/ <<u, Owner[c]>> \in unheard'
  <1>1. CASE unheard' = unheard /\ noise' = noise
    <2>1. farewell'[c] = Watchers(Owner[c])
      BY <1>1 DEF SayGoodbye, ShapeInv, Shape
    <2>. QED
      BY <2>1 DEF Farewell
  <1>2. CASE unheard' = unheard \cup (Watchers(Owner[c]) \X {Owner[c]})
    BY <1>2
  <1>. QED
    BY <1>1, <1>2 DEF SayGoodbye, Audience

\* Coming and going are always followed by an excuse, until the word is out.
LEMMA RegisteredStays ==
  ASSUME ShapeInv, [Next]_vars, ~Restart, NEW u \in Users, NEW v \in Users, u \in Watchers(v),
         ~Excused(u, v)'
  PROVE  Registered(v)' <=> Registered(v)
  <1>1. CASE clients'[v] = clients[v]
    BY <1>1 DEF Registered
  <1>2. ASSUME NEW c \in Conns, ComeOnline(c), Owner[c] = v PROVE FALSE
    BY <1>2, DialGreets DEF Excused
  <1>3. CASE clients'[v] = NoConn /\ clients[v] # NoConn
    <2>. DEFINE d == clients[v]
    <2>1. d \in Conns /\ Owner[d] = v /\ reader[d] \in {"reading", "leaving"}
      BY <1>3 DEF ShapeInv, HubInv, HubTypeOK, RegisteredIsLive, Live
    <2>2. ~SayGoodbye(d)
      BY <2>1, GoodbyeFollows DEF Excused
    <2>3. ~ComeOnline(d)
      BY <2>1 DEF ComeOnline, Connect, Free
    <2>4. reader'[d] \in {"reading", "leaving"}
      BY <2>1, <2>2, <2>3, ReaderStep
    <2>5. d # clients'[v]
      BY <1>3
    <2>6. Farewell(u, v)'
      BY <2>1, <2>4, <2>5 DEF Farewell
    <2>. QED
      BY <2>6 DEF Excused
  <1>. QED
    BY <1>1, <1>2, <1>3, ClientsStep DEF Registered

\* u is told about v.
Told(u, v) == \E d \in Conns : Owner[d] = v /\ (SaysOnline(d, u) \/ SaysOffline(d, u))

LEMMA ToldIsAdded ==
  ASSUME ShapeInv, NEW u \in Users, NEW d \in Conns,
         clients[u] \in Conns, clients'[u] = clients[u]
  PROVE  /\ SaysOnline(d, u) => Added(clients[u], Presence(Owner[d], {Owner[d]}))
                                /\ UNCHANGED clients /\ outbox' # outbox
         /\ SaysOffline(d, u) => Added(clients[u], Presence(Owner[d], {}))
                                 /\ UNCHANGED clients /\ outbox' # outbox
  <1>1. /\ Presence(Owner[d], {Owner[d]}) \in Envelope /\ Presence(Owner[d], {}) \in Envelope
        /\ HubInv /\ clients[u] # NoConn /\ clients \in [Users -> Conns \cup {NoConn}]
    BY Envelopes, HubAssumption DEF ShapeInv, HubInv, HubTypeOK
  <1>2. ASSUME NEW e \in Envelope, Route(u, e)
        PROVE  Added(clients[u], e) /\ UNCHANGED clients /\ outbox' # outbox
    BY <1>1, <1>2, RouteEffect
  <1>3. SaysOnline(d, u) => Route(u, Presence(Owner[d], {Owner[d]}))
    BY DEF SaysOnline, Tell
  <1>4. SaysOffline(d, u) => Route(u, Presence(Owner[d], {}))
    BY DEF SaysOffline, Tell
  <1>. QED
    BY <1>1, <1>2, <1>3, <1>4

\* An excuse ends when the word is in the outbox, or when a new snapshot is
\* taken.
LEMMA ExcuseEnds ==
  ASSUME ShapeInv, [Next]_vars, NEW u \in Users, NEW v \in Users, u \in Watchers(v),
         clients[u] \in Conns, clients'[u] = clients[u], Excused(u, v), ~Excused(u, v)'
  PROVE  Told(u, v) \/ AskOnline(clients[u])
  <1>. USE DEF ShapeInv
  <1>1. ~Restart /\ Shape /\ \A c \in Conns : Owner[c] \in Users
    BY HubAssumption DEF Restart
  <1>2. <<u, v>> \notin unheard
    BY UnheardGrows DEF Excused
  <1>3. CASE <<u, v>> \in misled
    <2>1. <<u, v>> \notin misled'
      BY DEF Excused
    <2>2. ASSUME NEW d \in Conns, AskOnline(d) PROVE d = clients[u]
      BY <1>3, <2>1, <2>2 DEF AskOnline
    <2>3. ASSUME NEW d \in Conns, TellOnline(d) PROVE Told(u, v)
      <3>1. PICK w \in Users : Tell(w, Owner[d], TRUE)
        BY <1>1, <2>3 DEF TellOnline, Shape
      <3>2. w = u /\ Owner[d] = v
        BY <1>3, <2>1, <3>1 DEF Tell
      <3>. QED
        BY <2>3, <3>1, <3>2 DEF Told, SaysOnline
    <2>4. ASSUME NEW d \in Conns, TellOffline(d) PROVE Told(u, v)
      <3>1. PICK w \in Users : Tell(w, Owner[d], FALSE)
        BY <1>1, <2>4 DEF TellOffline, Shape
      <3>2. w = u /\ Owner[d] = v
        BY <1>3, <2>1, <3>1 DEF Tell
      <3>. QED
        BY <2>4, <3>1, <3>2 DEF Told, SaysOffline
    <2>5. misled' # misled
      BY <1>3, <2>1
    <2>6. ASSUME NEW d \in Conns,
                 \/ ComeOnline(d) \/ SendList(d) \/ AskNobody(d) \/ SayGoodbye(d) \/ ReaderEnds(d)
                 \/ HandleTyping(d) \/ TypingFails(d) \/ Deliver(d) \/ LoseSocket(d)
                 \/ StopReading(d) \/ WriterEnds(d)
          PROVE  UNCHANGED misled
      BY <2>6 DEF ComeOnline, SendList, AskNobody, SayGoodbye, ReaderEnds, HandleTyping,
                  TypingFails, Deliver, LoseSocket, StopReading, WriterEnds
    <2>. QED
      BY <1>1, <2>2, <2>3, <2>4, <2>5, <2>6
      DEF Next, ServeStep, CrashOfPanic, PanicCrashes, Crash, StartTyping, StopTyping, Chatter, vars
  <1>4. CASE Greeting(u, v)
    <2>1. PICK d \in Conns : Owner[d] = v /\ serve[d].pc = "online" /\ u \in serve[d].of
      BY <1>4 DEF Greeting
    <2>2. ~(serve'[d].pc = "online" /\ u \in serve'[d].of)
      BY <2>1 DEF Excused, Greeting
    <2>3. ~ComeOnline(d)
      <3>1. d \in serving
        BY <2>1 DEF Goroutines, GoroutineAtWork
      <3>. QED
        BY <3>1 DEF ComeOnline, Connect, Free
    <2>4. ~AskOnline(d) /\ ~AskNobody(d) /\ ~SendList(d)
      BY <2>1 DEF AskOnline, AskNobody, SendList
    <2>5. TellOnline(d)
      BY <1>1, <2>1, <2>2, <2>3, <2>4, ServeChange
    <2>6. PICK w \in Users : Tell(w, v, TRUE) /\ Serve(d, "online", serve[d].of \ {w})
      BY <1>1, <2>1, <2>5 DEF TellOnline, Shape
    <2>7. serve'[d].pc = "online" /\ serve'[d].of = serve[d].of \ {w}
      BY <1>1, <2>6 DEF Serve, Shape
    <2>8. w = u
      BY <2>1, <2>2, <2>7
    <2>. QED
      BY <2>1, <2>5, <2>6, <2>8 DEF Told, SaysOnline
  <1>5. CASE Farewell(u, v)
    BY <1>5, FarewellStays DEF Excused, Told
  <1>. QED
    BY <1>2, <1>3, <1>4, <1>5 DEF Excused

\* A new word about v replaces the last one; another envelope leaves it.
LEMMA RightAfterWord ==
  ASSUME NEW u \in Users, NEW v \in Users, NEW c \in Conns, clients'[u] = c,
         Len(outbox[c]) \in Nat, NEW e, Added(c, e), Says(e, v), v \in e.on <=> Registered(v)'
  PROVE  Right(u, v)'
  <1>. DEFINE n == Len(outbox[c]) + 1
  <1>1. Len(outbox'[c]) = n /\ outbox'[c][n] = e /\ n \in 1..n /\ n \in Nat
    BY DEF Added
  <1>2. ASSUME NEW i \in 1..n, \A j \in (i + 1)..n : ~Says(outbox'[c][j], v)
        PROVE  v \in outbox'[c][i].on <=> Registered(v)'
    <2>1. i = n
      <3>1. SUFFICES ASSUME i # n PROVE FALSE
        OBVIOUS
      <3>2. n \in (i + 1)..n
        BY <1>1, <3>1
      <3>. QED
        BY <1>1, <1>2, <3>2
    <2>. QED
      BY <1>1, <2>1
  <1>3. \E i \in 1..n : Says(outbox'[c][i], v)
    BY <1>1
  <1>. QED
    BY <1>1, <1>2, <1>3 DEF Right, Says

LEMMA RightAfterOther ==
  ASSUME NEW u \in Users, NEW v \in Users, NEW c \in Conns, clients[u] = c, clients'[u] = c,
         Len(outbox[c]) \in Nat, Right(u, v), Registered(v)' <=> Registered(v),
         online'[u] = online[u],
         outbox'[c] = outbox[c] \/ \E e : Added(c, e) /\ ~Says(e, v)
  PROVE  Right(u, v)'
  <1>1. CASE outbox'[c] = outbox[c]
    BY <1>1 DEF Right, Says
  <1>2. ASSUME NEW e, Added(c, e), ~Says(e, v) PROVE Right(u, v)'
    <2>. DEFINE n == Len(outbox[c])
    <2>1. /\ Len(outbox'[c]) = n + 1 /\ outbox'[c][n + 1] = e
          /\ \A i \in 1..n : outbox'[c][i] = outbox[c][i]
      BY <1>2 DEF Added
    <2>2. ASSUME NEW i \in 1..(n + 1), Says(outbox'[c][i], v),
                 \A j \in (i + 1)..(n + 1) : ~Says(outbox'[c][j], v)
          PROVE  v \in outbox'[c][i].on <=> Registered(v)'
      <3>1. i \in 1..n
        BY <1>2, <2>1, <2>2
      <3>2. \A j \in (i + 1)..n : ~Says(outbox[c][j], v)
        BY <2>1, <2>2, <3>1
      <3>3. Says(outbox[c][i], v) /\ outbox'[c][i] = outbox[c][i]
        BY <2>1, <2>2, <3>1
      <3>. QED
        BY <3>1, <3>2, <3>3 DEF Right
    <2>3. ASSUME \A i \in 1..(n + 1) : ~Says(outbox'[c][i], v)
          PROVE  v \in online'[u] <=> Registered(v)'
      <3>1. \A i \in 1..n : ~Says(outbox[c][i], v)
        BY <2>1, <2>3
      <3>. QED
        BY <3>1 DEF Right
    <2>4. \A i \in 1..Len(outbox'[c]) :
            Says(outbox'[c][i], v) /\ (\A j \in (i + 1)..Len(outbox'[c]) : ~Says(outbox'[c][j], v))
            => (v \in outbox'[c][i].on <=> Registered(v)')
      BY ONLY <2>1, <2>2
    <2>5. (\A i \in 1..Len(outbox'[c]) : ~Says(outbox'[c][i], v))
          => (v \in online'[u] <=> Registered(v)')
      BY ONLY <2>1, <2>3
    <2>. QED
      BY <2>4, <2>5 DEF Right, Says
  <1>. QED
    BY <1>1, <1>2

\* What the client makes of a word is what the word says, if v is in its
\* sidebar or gets there with the word (events.go:355-398).
LEMMA RightAfterDelivery ==
  ASSUME ShapeInv, NEW u \in Users, NEW v \in Users, v \in Contact[u], NEW c \in Conns,
         clients[u] = c, clients'[u] = c, Owner[c] = u, Right(u, v),
         Registered(v)' <=> Registered(v), Deliver(c), c \in up,
         v \in sidebar[u] \/ \E i \in 1..Len(outbox[c]) : outbox[c][i].type = "contact_list"
  PROVE  Right(u, v)'
  <1>. DEFINE n == Len(outbox[c])
  <1>. DEFINE e == outbox[c][1]
  <1>1. /\ Sent(c) /\ Received(u, e) /\ n \in Nat /\ n \in Nat \ {0} /\ Len(outbox'[c]) = n - 1
        /\ \A i \in 1..(n - 1) : i + 1 \in 1..n /\ outbox'[c][i] = outbox[c][i + 1]
    <2>1. HubTypeOK
      BY DEF ShapeInv, HubInv
    <2>2. Sent(c)
      BY <2>1, WriterEffect DEF Deliver
    <2>3. n \in Nat /\ Received(u, e)
      BY <2>1, <2>2 DEF HubTypeOK, Deliver, Sent
    <2>. QED
      BY <2>2, <2>3 DEF Sent
  <1>2. ASSUME NEW i \in 1..(n - 1), Says(outbox'[c][i], v),
               \A j \in (i + 1)..(n - 1) : ~Says(outbox'[c][j], v)
        PROVE  v \in outbox'[c][i].on <=> Registered(v)'
    <2>1. ASSUME NEW j \in (i + 2)..n PROVE ~Says(outbox[c][j], v)
      <3>1. PICK k \in (i + 1)..(n - 1) : j = k + 1
        BY <1>1
      <3>2. outbox'[c][k] = outbox[c][j]
        BY <1>1, <3>1
      <3>. QED
        BY <1>2, <3>1, <3>2
    <2>2. i + 1 \in 1..n /\ Says(outbox[c][i + 1], v) /\ outbox'[c][i] = outbox[c][i + 1]
      BY <1>1, <1>2
    <2>3. \A j \in ((i + 1) + 1)..n : ~Says(outbox[c][j], v)
      BY <1>1, <2>1
    <2>. QED
      BY <2>2, <2>3 DEF Right
  <1>3. ASSUME \A i \in 1..(n - 1) : ~Says(outbox'[c][i], v)
        PROVE  v \in online'[u] <=> Registered(v)'
    <2>1. ASSUME NEW j \in 2..n PROVE ~Says(outbox[c][j], v)
      <3>1. PICK k \in 1..(n - 1) : j = k + 1
        BY <1>1
      <3>. QED
        BY <1>1, <1>3, <3>1
    <2>2. sidebar \in [Users -> SUBSET Users] /\ online \in [Users -> SUBSET Users]
      BY DEF ShapeInv, Shape
    <2>3. CASE Says(e, v)
      <3>1. v \in e.on <=> Registered(v)
        <4>1. 1 \in 1..n /\ \A j \in (1 + 1)..n : ~Says(outbox[c][j], v)
          BY <1>1, <2>1
        <4>. QED
          BY <2>3, <4>1 DEF Right
      <3>2. v \in online'[u] <=> v \in e.on
        <4>1. CASE e.type = "contact_list"
          BY <1>1, <2>2, <4>1 DEF Received
        <4>2. CASE e.type = "presence"
          <5>1. v \in sidebar[u]
            <6>1. ASSUME NEW i \in 1..n, outbox[c][i].type = "contact_list" PROVE FALSE
              <7>1. i # 1
                BY <4>2, <6>1
              <7>2. i \in 2..n
                BY <1>1, <7>1
              <7>. QED
                BY <2>1, <6>1, <7>2 DEF Says
            <6>. QED
              BY <6>1
          <5>2. online'[u] = (online[u] \ e.of) \cup (e.on \cap sidebar[u])
            BY <1>1, <2>2, <4>2 DEF Received, MarkOnline
          <5>. QED
            BY <2>3, <4>2, <5>1, <5>2 DEF Says
        <4>. QED
          BY <2>3, <4>1, <4>2 DEF Says
      <3>. QED
        BY <3>1, <3>2
    <2>4. CASE ~Says(e, v)
      <3>1. \A i \in 1..n : ~Says(outbox[c][i], v)
        <4>1. \A i \in 1..n : i = 1 \/ i \in 2..n
          BY <1>1
        <4>. QED
          BY <2>1, <2>4, <4>1
      <3>2. v \in online'[u] <=> v \in online[u]
        <4>1. CASE e.type = "presence"
          <5>1. online'[u] = (online[u] \ e.of) \cup (e.on \cap sidebar[u])
            BY <1>1, <2>2, <4>1 DEF Received, MarkOnline
          <5>. QED
            BY <2>4, <4>1, <5>1 DEF Says
        <4>2. CASE e.type # "presence"
          BY <1>1, <2>4, <4>2 DEF Received, Says
        <4>. QED
          BY <4>1, <4>2
      <3>. QED
        BY <3>1, <3>2 DEF Right
    <2>. QED
      BY <2>3, <2>4
  <1>. QED
    BY <1>1, <1>2, <1>3 DEF Right, Says

\* A sidebar changes when an envelope is delivered over a working connection.
LEMMA SidebarStep ==
  ASSUME ShapeInv, [Next]_vars, NEW u \in Users
  PROVE  \/ sidebar'[u] = sidebar[u] /\ online'[u] = online[u]
         \/ \E d \in Conns : /\ Deliver(d) /\ d \in up /\ Owner[d] = u
                             /\ Received(u, outbox[d][1])
  <1>1. ASSUME NEW d \in Conns, Deliver(d), d \in up
        PROVE  /\ Received(Owner[d], outbox[d][1])
               /\ Owner[d] = u \/ (sidebar'[u] = sidebar[u] /\ online'[u] = online[u])
    <2>1. Received(Owner[d], outbox[d][1])
      BY <1>1, WriterEffect DEF Deliver, Sent, ShapeInv, HubInv
    <2>. QED
      BY <2>1 DEF Received, ShapeInv, Shape
  <1>2. ASSUME NEW d \in Conns, Deliver(d), d \notin up PROVE UNCHANGED <<sidebar, online>>
    BY <1>2 DEF Deliver
  <1>3. UNCHANGED <<sidebar, online>> \/ \E d \in Conns : Deliver(d) /\ d \in up
    BY <1>2
    DEF Next, ServeStep, ComeOnline, TellOnline, AskOnline, SendList, AskNobody, SayGoodbye,
        TellOffline, ReaderEnds, HandleTyping, TypingFails, LoseSocket, StopReading,
        WriterEnds, CrashOfPanic, StartTyping, StopTyping, Chatter, Crash, AllGone, client, vars
  <1>. QED
    BY <1>1, <1>3

\* The registered connection of u and what a step that is not u's dial may
\* do to it.
LEMMA SettledStep ==
  ASSUME ShapeInv, OneSocket, [Next]_vars, NEW u \in Users, NEW v \in Users, v \in Contact[u],
         clients'[u] # NoConn, clients'[u] \in up', serve'[clients'[u]].pc # "online"
  PROVE  /\ clients'[u] = clients[u] /\ clients[u] \in Conns /\ Owner[clients[u]] = u
         /\ clients[u] \in up /\ clients[u] # NoConn /\ clients[u] \notin closed
         /\ ~Restart /\ Len(outbox[clients[u]]) \in Nat /\ u \in Watchers(v)
         /\ <<u, v>> \in Pairs
         /\ \A d \in Conns : d \in up /\ Owner[d] = u => d = clients[u]
  <1>1. ASSUME NEW c \in Conns, ComeOnline(c), Owner[c] = u PROVE FALSE
    <2>1. clients'[u] = c
      BY <1>1, DialledIsEmpty
    <2>2. serve'[c].pc = "online"
      BY <1>1 DEF ComeOnline, Serve, ShapeInv, Shape
    <2>. QED
      BY <2>1, <2>2
  <1>2. /\ clients'[u] = clients[u] /\ clients[u] \in Conns /\ Owner[clients[u]] = u
        /\ ~Restart /\ Len(outbox[clients[u]]) \in Nat /\ clients[u] \in up
    BY <1>1, StaysRegistered
  <1>3. clients[u] \notin closed
    BY <1>2, HubAssumption DEF ShapeInv, HubInv, RegisteredIsLive
  <1>. QED
    BY <1>2, <1>3, HubAssumption DEF Watchers, Pairs, OneSocket

LEMMA InformedKept ==
  ASSUME SettledInv, [Next]_vars
  PROVE  Informed'
  <1>. USE DEF SettledInv
  <1>1. SUFFICES ASSUME NEW u \in Users, NEW v \in Users, v \in Contact[u],
                        clients'[u] # NoConn, clients'[u] \in up', serve'[clients'[u]].pc = "none"
                 PROVE  \/ v \in sidebar'[u] \/ <<u, v>> \in unheard'
                        \/ \E i \in 1..Len(outbox'[clients'[u]]) :
                             outbox'[clients'[u]][i].type = "contact_list"
    BY DEF Informed, Pairs
  <1>2. PICK c \in Conns : c = clients[u] /\ c = clients'[u]
    BY <1>1, SettledStep
  <1>3. /\ Owner[c] = u /\ c \in up /\ c # NoConn /\ c \notin closed /\ ~Restart
        /\ Len(outbox[c]) \in Nat /\ <<u, v>> \in Pairs
        /\ \A d \in Conns : d \in up /\ Owner[d] = u => d = c
    BY <1>1, <1>2, SettledStep
  <1>. DEFINE Goal == \/ v \in sidebar'[u] \/ <<u, v>> \in unheard'
                      \/ \E i \in 1..Len(outbox'[c]) : outbox'[c][i].type = "contact_list"
  <1>4. CASE serve'[c] = serve[c]
    <2>1. \/ v \in sidebar[u] \/ <<u, v>> \in unheard
          \/ \E i \in 1..Len(outbox[c]) : outbox[c][i].type = "contact_list"
      <3>1. serve[c].pc = "none" /\ clients[u] # NoConn /\ clients[u] \in up
        BY <1>1, <1>2, <1>3, <1>4
      <3>. QED
        BY <1>2, <1>3, <3>1 DEF Informed
    <2>2. CASE <<u, v>> \in unheard
      BY <2>2, UnheardGrows
    <2>3. ASSUME NEW d \in Conns, Received(u, outbox[d][1]), d = c, Sent(c)
          PROVE  (outbox[c][1].type = "contact_list" \/ v \in sidebar[u]) => v \in sidebar'[u]
      <3>1. outbox[c][1].type = "contact_list" => outbox[c][1].of = Contact[u]
        BY <1>3, <2>3 DEF ShapeInv, ListsAreOwn, Sent
      <3>. QED
        BY <1>1, <2>3, <3>1 DEF Received, ShapeInv, Shape
    <2>4. ASSUME NEW d \in Conns, Deliver(d), d = c PROVE Sent(c)
      BY <2>4, WriterEffect DEF Deliver, ShapeInv, HubInv
    <2>5. CASE v \in sidebar[u]
      BY <1>3, <2>3, <2>4, <2>5, SidebarStep
    <2>6. ASSUME NEW i \in 1..Len(outbox[c]), outbox[c][i].type = "contact_list" PROVE Goal
      <3>1. CASE outbox'[c] = outbox[c]
        BY <2>6, <3>1
      <3>2. ASSUME NEW e \in Envelope, Added(c, e) PROVE Goal
        <4>1. i \in 1..Len(outbox'[c]) /\ outbox'[c][i] = outbox[c][i]
          BY <1>3, <2>6, <3>2 DEF Added
        <4>. QED
          BY <2>6, <4>1
      <3>3. CASE Sent(c) /\ Deliver(c) /\ i # 1
        <4>1. PICK k \in 1..Len(outbox'[c]) : i = k + 1
          BY <1>3, <3>3 DEF Sent
        <4>2. outbox'[c][k] = outbox[c][i]
          BY <3>3, <4>1 DEF Sent
        <4>. QED
          BY <2>6, <4>2
      <3>4. CASE Sent(c) /\ Deliver(c) /\ i = 1
        <4>1. Received(u, outbox[c][1])
          BY <1>3, <3>4 DEF Deliver, Sent
        <4>. QED
          BY <2>3, <2>6, <3>4, <4>1
      <3>5. ~(ComeOnline(c) \/ Restart)
        <4>1. reader[c] # "idle"
          BY <1>2, <1>3 DEF ShapeInv, HubInv, RegisteredIsLive, Live
        <4>. QED
          BY <1>3, <4>1 DEF ComeOnline, Connect, Free
      <3>. QED
        BY <3>1, <3>2, <3>3, <3>4, <3>5, OutboxStep
    <2>. QED
      BY <1>2, <2>1, <2>2, <2>5, <2>6
  <1>5. CASE AskNobody(c)
    BY <1>1, <1>3, <1>5 DEF AskNobody
  <1>6. CASE SendList(c)
    <2>1. CASE Added(c, ContactList(Contact[Owner[c]], serve[c].of))
      <3>1. Len(outbox[c]) + 1 \in 1..Len(outbox'[c])
        BY <1>3, <2>1 DEF Added
      <3>2. outbox'[c][Len(outbox[c]) + 1].type = "contact_list"
        BY <2>1 DEF Added, ContactList
      <3>. QED
        BY <1>2, <3>1, <3>2
    <2>2. CASE unheard' = unheard \cup ({Owner[c]} \X Contact[Owner[c]])
      BY <1>1, <1>3, <2>2
    <2>. QED
      BY <1>3, <1>6, <2>1, <2>2, SendListEffect
  <1>7. ASSUME ComeOnline(c) \/ TellOnline(c) \/ AskOnline(c) PROVE FALSE
    <2>1. serve \in [Conns -> [pc : {"none", "online", "send_list"}, of : SUBSET Users]]
      BY DEF ShapeInv, Shape
    <2>2. ~ComeOnline(c)
      BY <1>1, <1>2, <2>1 DEF ComeOnline, Serve
    <2>3. ~TellOnline(c)
      BY <1>1, <1>2, StillTelling
    <2>4. ~AskOnline(c)
      BY <1>1, <1>2, <2>1 DEF AskOnline, Serve
    <2>. QED
      BY <1>7, <2>2, <2>3, <2>4
  <1>. QED
    BY <1>3, <1>4, <1>5, <1>6, <1>7, ServeChange

\* Being told makes it true, unless the word was overtaken, and is then on
\* record, or a farewell is still to come.
LEMMA ToldIsRight ==
  ASSUME ShapeInv, [Next]_vars, NEW u \in Users, NEW v \in Users, u \in Watchers(v),
         Told(u, v), ~Excused(u, v)', NEW c \in Conns, c = clients[u], clients'[u] = c,
         Len(outbox[c]) \in Nat, serve'[c] = serve[c]
  PROVE  /\ serve[c].pc = "send_list" => (v \in serve[c].of <=> Registered(v)')
         /\ serve[c].pc = "none" => Right(u, v)'
  <1>. USE DEF ShapeInv
  <1>1. PICK d \in Conns : Owner[d] = v /\ (SaysOnline(d, u) \/ SaysOffline(d, u))
    BY DEF Told
  <1>2. HubTypeOK /\ RegisteredIsLive /\ Shape
    BY DEF HubInv
  <1>3. CASE SaysOnline(d, u)
    <2>1. /\ Added(c, Presence(v, {v})) /\ UNCHANGED clients /\ outbox' # outbox
      BY <1>1, <1>3, ToldIsAdded
    <2>2. Registered(v)' <=> Registered(v)
      BY <2>1 DEF Registered
    <2>3. LastWord(u, v, TRUE) = Registered(v) \/ ~Overtaken(u, v)
      <3>1. <<u, v>> \notin misled'
        BY DEF Excused
      <3>. QED
        BY <1>1, <1>3, <2>1, <3>1 DEF SaysOnline, Tell
    <2>4. CASE Registered(v) /\ serve[c].pc # "send_list"
      <3>1. Says(Presence(v, {v}), v) /\ v \in Presence(v, {v}).on
        BY DEF Says, Presence
      <3>2. Right(u, v)'
        BY <2>1, <2>2, <2>4, <3>1, RightAfterWord
      <3>. QED
        BY <2>4, <3>2
    <2>5. CASE serve[c].pc = "send_list"
      <3>1. Overtaken(u, v)
        BY <2>5, HubAssumption DEF Overtaken
      <3>. QED
        BY <2>2, <2>3, <2>5, <3>1 DEF LastWord
    <2>6. CASE ~Registered(v) /\ serve[c].pc # "send_list"
      <3>1. ~Overtaken(u, v)
        BY <2>3, <2>6 DEF LastWord
      <3>2. serve[d].pc = "online" /\ d \in serving
        BY <1>3 DEF SaysOnline, TellOnline, Goroutines, GoroutineAtWork
      <3>3. reader[d] = "reading"
        BY <1>1, <3>1, <3>2 DEF Overtaken, Free
      <3>4. reader'[d] = "reading" /\ clients'[v] = NoConn
        BY <1>3, <2>1, <2>6, <3>3 DEF SaysOnline, TellOnline, Registered
      <3>5. Farewell(u, v)'
        BY <1>1, <3>4, HubAssumption DEF Farewell
      <3>. QED
        BY <3>5 DEF Excused
    <2>. QED
      BY <2>4, <2>5, <2>6
  <1>4. CASE SaysOffline(d, u)
    <2>1. /\ Added(c, Presence(v, {})) /\ UNCHANGED clients /\ outbox' # outbox
      BY <1>1, <1>4, ToldIsAdded
    <2>2. Registered(v)' <=> Registered(v)
      BY <2>1 DEF Registered
    <2>3. LastWord(u, v, FALSE) = Registered(v) \/ ~Overtaken(u, v)
      <3>1. <<u, v>> \notin misled'
        BY DEF Excused
      <3>. QED
        BY <1>1, <1>4, <2>1, <3>1 DEF SaysOffline, Tell
    <2>4. CASE ~Registered(v) /\ serve[c].pc # "send_list"
      <3>1. Says(Presence(v, {}), v) /\ v \notin Presence(v, {}).on
        BY DEF Says, Presence
      <3>2. Right(u, v)'
        BY <2>1, <2>2, <2>4, <3>1, RightAfterWord
      <3>. QED
        BY <2>4, <3>2
    <2>5. CASE serve[c].pc = "send_list"
      <3>1. Overtaken(u, v)
        BY <2>5, HubAssumption DEF Overtaken
      <3>. QED
        BY <2>2, <2>3, <2>5, <3>1 DEF LastWord
    <2>6. CASE Registered(v) /\ serve[c].pc # "send_list"
      <3>1. ~Overtaken(u, v)
        BY <2>3, <2>6 DEF LastWord
      <3>2. reader[d] = "announcing"
        BY <1>4 DEF SaysOffline, TellOffline, Goroutines, GoroutineAtWork
      <3>3. /\ clients[v] \in Conns /\ Owner[clients[v]] = v
            /\ reader[clients[v]] \in {"reading", "leaving"}
        BY <1>2, <2>6 DEF Registered, HubTypeOK, RegisteredIsLive, Live
      <3>4. Overtaken(u, v)
        BY <1>1, <3>2, <3>3 DEF Overtaken, Free
      <3>. QED
        BY <3>1, <3>4
    <2>. QED
      BY <2>4, <2>5, <2>6
  <1>. QED
    BY <1>1, <1>3, <1>4

LEMMA TruthfulKept ==
  ASSUME SettledInv, [Next]_vars
  PROVE  Truthful'
  <1>. USE DEF SettledInv
  <1>1. SUFFICES ASSUME NEW u \in Users, NEW v \in Users, v \in Contact[u],
                        clients'[u] # NoConn, clients'[u] \in up', ~Excused(u, v)',
                        serve'[clients'[u]].pc # "online"
                 PROVE  /\ serve'[clients'[u]].pc = "send_list"
                           => (v \in serve'[clients'[u]].of <=> Registered(v)')
                        /\ serve'[clients'[u]].pc = "none" => Right(u, v)'
    BY DEF Truthful, Pairs
  <1>2. PICK c \in Conns : c = clients[u] /\ c = clients'[u]
    BY <1>1, SettledStep
  <1>3. /\ Owner[c] = u /\ c \in up /\ c # NoConn /\ c \notin closed /\ ~Restart
        /\ Len(outbox[c]) \in Nat /\ <<u, v>> \in Pairs /\ u \in Watchers(v)
        /\ \A d \in Conns : d \in up /\ Owner[d] = u => d = c
    BY <1>1, <1>2, SettledStep
  <1>4. Registered(v)' <=> Registered(v)
    BY <1>1, <1>3, RegisteredStays
  <1>5. serve \in [Conns -> [pc : {"none", "online", "send_list"}, of : SUBSET Users]]
    BY DEF ShapeInv, Shape
  <1>. DEFINE Goal == /\ serve'[c].pc = "send_list" => (v \in serve'[c].of <=> Registered(v)')
                      /\ serve'[c].pc = "none" => Right(u, v)'
  <1>6. ~ComeOnline(c) /\ ~TellOnline(c)
    <2>1. ~ComeOnline(c)
      BY <1>1, <1>2, <1>5 DEF ComeOnline, Serve
    <2>2. ~TellOnline(c)
      BY <1>1, <1>2, StillTelling
    <2>. QED
      BY <2>1, <2>2
  <1>7. CASE AskOnline(c)
    <2>1. serve'[c].pc = "send_list" /\ serve'[c].of = {w \in Contact[u] : Registered(w)}
      BY <1>3, <1>5, <1>7 DEF AskOnline, Serve
    <2>. QED
      BY <1>1, <1>2, <1>4, <2>1
  <1>8. ~AskNobody(c)
    <2>1. AskNobody(c) => <<u, v>> \in unheard'
      BY <1>1, <1>3 DEF AskNobody
    <2>. QED
      BY <1>1, <2>1 DEF Excused
  <1>9. Told(u, v) => serve'[c] = serve[c]
    <2>1. ASSUME NEW d \in Conns, SaysOnline(d, u) PROVE serve'[c] = serve[c]
      <3>1. d # c
        BY <1>6, <2>1 DEF SaysOnline
      <3>. QED
        BY <1>5, <2>1, <3>1 DEF SaysOnline, TellOnline, Serve
    <2>2. ASSUME NEW d \in Conns, SaysOffline(d, u) PROVE serve'[c] = serve[c]
      BY <2>2 DEF SaysOffline, TellOffline
    <2>. QED
      BY <2>1, <2>2 DEF Told
  <1>10. CASE Told(u, v)
    <2>1. /\ serve[c].pc = "send_list" => (v \in serve[c].of <=> Registered(v)')
          /\ serve[c].pc = "none" => Right(u, v)'
      BY <1>1, <1>2, <1>3, <1>9, <1>10, ToldIsRight
    <2>. QED
      BY <1>2, <1>9, <1>10, <2>1
  <1>11. ASSUME ~Told(u, v), ~AskOnline(c)
         PROVE  /\ serve[c].pc = "send_list" => (v \in serve[c].of <=> Registered(v))
                /\ serve[c].pc = "none" => Right(u, v)
    <2>1. ~Excused(u, v)
      BY <1>1, <1>2, <1>3, <1>11, ExcuseEnds
    <2>2. clients[u] # NoConn /\ clients[u] \in up
      BY <1>2, <1>3
    <2>. QED
      BY <1>2, <1>3, <2>1, <2>2 DEF Truthful
  <1>12. CASE SendList(c) /\ ~Told(u, v)
    <2>1. serve[c].pc = "send_list" /\ serve'[c] = Idle
      BY <1>12, SendListEffect
    <2>2. v \in serve[c].of <=> Registered(v)
      BY <1>11, <1>12, <2>1 DEF AskOnline
    <2>3. CASE Added(c, ContactList(Contact[Owner[c]], serve[c].of))
      <3>1. PICK e : e = ContactList(Contact[Owner[c]], serve[c].of)
        OBVIOUS
      <3>2. Says(e, v) /\ (v \in e.on <=> Registered(v)')
        BY <1>4, <2>2, <3>1 DEF Says, ContactList
      <3>3. Right(u, v)'
        BY <1>2, <1>3, <2>3, <3>1, <3>2, RightAfterWord
      <3>. QED
        BY <1>2, <2>1, <3>3 DEF Idle
    <2>4. CASE unheard' = unheard \cup ({Owner[c]} \X Contact[Owner[c]])
      BY <1>1, <1>3, <2>4 DEF Excused
    <2>. QED
      BY <1>3, <1>12, <2>3, <2>4, SendListEffect
  <1>13. CASE serve'[c] = serve[c] /\ ~Told(u, v) /\ ~AskOnline(c)
    <2>1. CASE serve[c].pc = "send_list"
      BY <1>2, <1>4, <1>11, <1>13, <2>1
    <2>2. CASE serve[c].pc = "none"
      <3>1. Right(u, v)
        BY <1>11, <1>13, <2>2
      <3>2. CASE Deliver(c)
        <4>1. \/ v \in sidebar[u]
              \/ \E i \in 1..Len(outbox[c]) : outbox[c][i].type = "contact_list"
          <5>1. clients[u] # NoConn /\ clients[u] \in up /\ serve[clients[u]].pc = "none"
            BY <1>2, <1>3, <2>2
          <5>2. <<u, v>> \notin unheard
            BY <1>1, UnheardGrows DEF Excused
          <5>. QED
            BY <1>2, <1>3, <5>1, <5>2 DEF Informed
        <4>2. Right(u, v)'
          BY <1>1, <1>2, <1>3, <1>4, <3>1, <3>2, <4>1, RightAfterDelivery
        <4>. QED
          BY <1>2, <1>13, <2>2, <4>2
      <3>3. CASE ~Deliver(c)
        <4>1. online'[u] = online[u]
          BY <1>3, <3>3, SidebarStep
        <4>2. outbox'[c] = outbox[c] \/ \E e \in Envelope : Added(c, e)
          <5>1. reader[c] # "idle"
            BY <1>2, <1>3 DEF ShapeInv, HubInv, RegisteredIsLive, Live
          <5>2. ~ComeOnline(c)
            BY <5>1 DEF ComeOnline, Connect, Free
          <5>. QED
            BY <1>3, <3>3, <5>2, OutboxStep
        <4>3. ASSUME NEW e \in Envelope, Added(c, e) PROVE ~Says(e, v)
          <5>1. ~SendList(c)
            BY <2>2 DEF SendList
          <5>2. /\ ~Says(Other, v)
                /\ \A d \in Conns : ~Says(Relayed(d), v)
                /\ \A d \in Conns : Owner[d] # v => /\ ~Says(Presence(Owner[d], {Owner[d]}), v)
                                                    /\ ~Says(Presence(Owner[d], {}), v)
            BY DEF Says, Other, Relayed, Typing, Presence
          <5>. QED
            BY <1>3, <1>13, <4>3, <5>1, <5>2, AddedBy DEF Told
        <4>4. Right(u, v)'
          BY <1>2, <1>3, <1>4, <3>1, <4>1, <4>2, <4>3, RightAfterOther
        <4>. QED
          BY <1>2, <1>13, <2>2, <4>4
      <3>. QED
        BY <3>2, <3>3
    <2>3. serve[c].pc # "online"
      BY <1>1, <1>2, <1>13
    <2>. QED
      BY <1>2, <1>5, <2>1, <2>2, <2>3
  <1>. QED
    BY <1>2, <1>3, <1>6, <1>7, <1>8, <1>10, <1>12, <1>13, ServeChange

LEMMA SettledInvInit == PresenceInit => SettledInv
  <1>. SUFFICES ASSUME PresenceInit PROVE SettledInv
    OBVIOUS
  <1>1. up = {} /\ clients = [u \in Users |-> NoConn]
    BY DEF PresenceInit, HubInit
  <1>2. \A p \in Pairs : clients[p[1]] = NoConn
    BY <1>1 DEF Pairs
  <1>. QED
    BY <1>1, <1>2, ShapeInvInit DEF SettledInv, OneSocket, Informed, Truthful

LEMMA SettledInvStep == SettledInv /\ [Next]_vars => SettledInv'
  BY ShapeInvStep, OneSocketKept, InformedKept, TruthfulKept DEF SettledInv

\* Once nothing more is on its way the sidebar tells who is online, however
\* registering, being replaced, being dropped, unwinding and broadcasting
\* interleave, except for what was overtaken or lost on the server
\* (hub.go:65-100, presence.go:35-50, client.go:83-123, contacts.go:100-131,
\* events.go:355-398).
THEOREM SettledRight == PresenceSpec => []SettledIsRight
  <1>1. SettledInv => SettledIsRight
    <2>. SUFFICES ASSUME SettledInv, NEW p \in Pairs, UpToDate(p[1]), p[2] \in sidebar[p[1]],
                         ~Greeting(p[1], p[2]), ~Farewell(p[1], p[2]),
                         p \notin misled \cup unheard
                  PROVE  p[2] \in online[p[1]] <=> Registered(p[2])
      BY DEF SettledIsRight
    <2>1. p = <<p[1], p[2]>>
      BY DEF Pairs
    <2>2. ~Excused(p[1], p[2])
      BY <2>1 DEF Excused
    <2>3. Right(p[1], p[2])
      BY <2>2 DEF SettledInv, Truthful, UpToDate
    <2>4. outbox[clients[p[1]]] = <<>>
      BY DEF UpToDate
    <2>. QED
      BY <2>3, <2>4 DEF Right
  <1>. QED
    BY <1>1, SettledInvInit, SettledInvStep, PTL DEF PresenceSpec
=============================================================================
