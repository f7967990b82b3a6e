-------------------------- MODULE ClientConnProofs --------------------------
(***************************************************************************)
(* Proofs about ClientConn, for any numbers of logins, links, losses and   *)
(* launches.                                                               *)
(***************************************************************************)
EXTENDS ClientConn, TLAPS

-----------------------------------------------------------------------------
(* The inductive invariant.                                                *)

\* The model's connection is one whose readLoop runs or has just ended.
ConnIsLive == m.conn # NoLink => link[m.conn].st \in {"open", "lost"}

\* Every generation is paid for by a loss, the one about to be handled included.
LossUnderway == IF m.conn # NoLink /\ link[m.conn].st = "lost" THEN 1 ELSE 0
GenIsPaid == m.gen + LossUnderway + losses <= MaxLosses

\* A client that reconnects has had a loss, so its generation is not zero.
RetryHasGen == m.reconnecting => m.gen > 0

\* What the model, the file and `left` know are sessions that have been granted.
Known == {s \in Logins : login[s] \in {"valid", "over"}}
TokensAreKnown ==
  /\ m.token \in Known \cup {NoToken}
  /\ saved \in Known \cup {NoToken}
  /\ left \subseteq Known

\* The connection and its retries, and what the tokens are.
RetryInv == ConnIsLive /\ GenIsPaid /\ RetryHasGen /\ RetryIsPending /\ ChatIsAlive
TokenInv == TokensAreKnown /\ LogoutIsRemembered

ClientInv == ClientTypeOK /\ RetryInv /\ TokenInv

-----------------------------------------------------------------------------
(* A dial takes an idle link and leaves the others alone.                  *)
LEMMA DialTakesIdle ==
  ASSUME NEW ls \in [Links -> Link], NEW t \in Tokens,
         \E l \in Links : ls[l].st = "none"
  PROVE  \E l \in Links : /\ ls[l].st = "none"
                          /\ WsConnect(ls, t) = [ls EXCEPT ![l] = [st |-> "dialing", tok |-> t]]
PROOF
<1>1. PICK k \in Links : k = CHOOSE l \in Links : ls[l].st = "none"
  OBVIOUS
<1>2. ls[k].st = "none"
  BY <1>1
<1> QED
  BY <1>1, <1>2 DEF WsConnect

\* Launching: no link at all, or one dial with the saved token.
LEMMA LaunchDials ==
  ASSUME NEW t \in Tokens
  PROVE  /\ Launch(t) \in [Links -> Link]
         /\ t # NoToken => \E l \in Links : Launch(t)[l].st = "dialing"
PROOF
<1> DEFINE none == [l \in Links |-> NoWire]
<1>1. none \in [Links -> Link]
  BY DEF NoWire, Link, Tokens
<1>2. 1 \in Links /\ none[1].st = "none"
  BY ClientAssumption DEF Links, NoWire
<1>4. PICK k \in Links : WsConnect(none, t) = [none EXCEPT ![k] = [st |-> "dialing", tok |-> t]]
  BY <1>1, <1>2, DialTakesIdle
<1>5. WsConnect(none, t) \in [Links -> Link]
  BY <1>1, <1>4 DEF Link
<1>6. WsConnect(none, t)[k].st = "dialing"
  BY <1>1, <1>4
<1> QED
  BY <1>1, <1>5, <1>6 DEF Launch

LEMMA FreshModel ==
  ASSUME NEW t \in Tokens
  PROVE  /\ InitialModel(t) \in Model
         /\ InitialModel(t).token = t
         /\ InitialModel(t).conn = NoLink
         /\ InitialModel(t).gen = 0
         /\ InitialModel(t).screen = "auth"
         /\ InitialModel(t).reconnecting = FALSE
PROOF
<1>1. 0 \in 0..MaxLosses
  BY ClientAssumption
<1>2. NoLink \in Links \cup {NoLink}
  OBVIOUS
<1> QED
  BY <1>1, <1>2 DEF InitialModel, Model

LEMMA ClientInvInit == Init => ClientInv
PROOF
<1> SUFFICES ASSUME Init PROVE ClientInv
  OBVIOUS
<1>1. saved \in Tokens
  BY ClientAssumption DEF Init, Saved, Logins, Tokens
<1>2. link \in [Links -> Link]
  BY <1>1, LaunchDials DEF Init
<1>3. /\ m \in Model
      /\ m.token = saved /\ m.conn = NoLink /\ m.gen = 0
      /\ m.screen = "auth" /\ m.reconnecting = FALSE
  BY <1>1, FreshModel DEF Init
<1>4. ClientTypeOK
  BY <1>1, <1>2, <1>3, ClientAssumption DEF Init, ClientTypeOK, NoTimers
<1>5. ConnIsLive /\ RetryHasGen /\ RetryIsPending /\ ChatIsAlive
  BY <1>3 DEF ConnIsLive, RetryHasGen, RetryIsPending, ChatIsAlive
<1>6. GenIsPaid
  BY <1>3, ClientAssumption DEF Init, GenIsPaid, LossUnderway
<1>7. saved # NoToken => saved \in Logins /\ login[saved] \in {"valid", "over"}
  BY <1>1 DEF Init, Tokens
<1>8. TokensAreKnown /\ LogoutIsRemembered
  BY <1>1, <1>3, <1>7 DEF Init, TokensAreKnown, LogoutIsRemembered, Known
<1> QED
  BY <1>4, <1>5, <1>6, <1>8 DEF ClientInv, RetryInv, TokenInv

-----------------------------------------------------------------------------
(* Steps on the login side.                                                *)

\* The retries do not look at anything but these.
LEMMA RetryFrame ==
  ASSUME RetryInv, UNCHANGED <<link, timers, losses>>,
         m'.screen = m.screen, m'.conn = m.conn, m'.gen = m.gen,
         m'.reconnecting = m.reconnecting, m'.connErr = m.connErr
  PROVE  RetryInv'
PROOF
BY DEF RetryInv, ConnIsLive, GenIsPaid, LossUnderway, RetryHasGen, RetryIsPending,
       ChatIsAlive, Dialing

\* A session that was granted stays so, and the tokens do not change.
LEMMA TokenFrame ==
  ASSUME TokenInv, UNCHANGED <<saved, left>>, m'.token = m.token,
         \A s \in Logins : login[s] \in {"valid", "over"} => login'[s] \in {"valid", "over"}
  PROVE  TokenInv'
PROOF
BY DEF TokenInv, TokensAreKnown, LogoutIsRemembered, Known

LEMMA SubmitKeeps == ClientInv /\ SubmitAuth => ClientInv'
PROOF
<1> SUFFICES ASSUME ClientInv, SubmitAuth PROVE ClientInv'
  OBVIOUS
<1>1. PICK s \in Logins : login[s] = "unused" /\ login' = [login EXCEPT ![s] = "asked"]
  BY DEF SubmitAuth
<1>2. /\ m' \in Model /\ m'.screen = m.screen /\ m'.conn = m.conn /\ m'.gen = m.gen
      /\ m'.reconnecting = m.reconnecting /\ m'.connErr = m.connErr /\ m'.token = m.token
  BY DEF SubmitAuth, ClientInv, ClientTypeOK, Model
<1>3. ClientTypeOK'
  BY <1>1, <1>2 DEF SubmitAuth, ClientInv, ClientTypeOK
<1>4. RetryInv'
  BY <1>2, RetryFrame DEF SubmitAuth, ClientInv
<1>5. TokenInv'
  BY <1>1, <1>2, TokenFrame DEF SubmitAuth, ClientInv, ClientTypeOK
<1> QED
  BY <1>3, <1>4, <1>5 DEF ClientInv

LEMMA LoginKeeps ==
  ASSUME ClientInv, NEW s \in Logins, DoAuth(s) \/ SessionOver(s)
  PROVE  ClientInv'
PROOF
<1>1. /\ UNCHANGED <<m, saved, link, timers, left, losses, launches>>
      /\ \E st \in {"granted", "denied", "over"} : login' = [login EXCEPT ![s] = st]
      /\ login[s] = "valid" => login' = [login EXCEPT ![s] = "over"]
      /\ login[s] # "over"
  BY DEF DoAuth, SessionOver
<1>2. ClientTypeOK'
  BY <1>1 DEF ClientInv, ClientTypeOK
<1>3. RetryInv'
  BY <1>1, RetryFrame DEF ClientInv
<1>4. TokenInv'
  BY <1>1, TokenFrame DEF ClientInv, ClientTypeOK
<1> QED
  BY <1>2, <1>3, <1>4 DEF ClientInv

\* A dial with a known token keeps the types and disturbs no link in use.
LEMMA DialKeeps ==
  ASSUME ClientTypeOK, NEW t \in Tokens, Idle # {}, link' = WsConnect(link, t)
  PROVE  /\ link' \in [Links -> Link]
         /\ \A l \in Links : link[l].st # "none" => link'[l] = link[l]
         /\ Dialing'
PROOF
<1>1. link \in [Links -> Link]
  BY DEF ClientTypeOK
<1>2. PICK k \in Links : /\ link[k].st = "none"
                         /\ link' = [link EXCEPT ![k] = [st |-> "dialing", tok |-> t]]
  BY <1>1, DialTakesIdle DEF Idle
<1>3. [st |-> "dialing", tok |-> t] \in Link
  BY DEF Link
<1>4. link'[k].st = "dialing"
  BY <1>1, <1>2
<1> QED
  BY <1>1, <1>2, <1>3, <1>4 DEF Dialing

LEMMA AuthResultKeeps ==
  ASSUME ClientInv, NEW s \in Logins, AuthResult(s)
  PROVE  ClientInv'
PROOF
<1>1. /\ login[s] \in {"granted", "denied"}
      /\ \E st \in {"valid", "over"} : login' = [login EXCEPT ![s] = st]
      /\ UNCHANGED <<timers, left, losses, launches>>
  BY DEF AuthResult
<1>2. ClientTypeOK
  BY DEF ClientInv
<1>3. /\ login' \in [Logins -> {"unused", "asked", "granted", "denied", "valid", "over"}]
      /\ login'[s] \in {"valid", "over"}
      /\ \A r \in Logins : login[r] \in {"valid", "over"} => login'[r] \in {"valid", "over"}
  BY <1>1, <1>2 DEF ClientTypeOK
<1>4. CASE UNCHANGED <<m, saved, link>>
  <2>1. ClientTypeOK' /\ RetryInv' /\ TokenInv'
    BY <1>1, <1>3, <1>4, RetryFrame, TokenFrame DEF ClientInv, ClientTypeOK
  <2> QED
    BY <2>1 DEF ClientInv
<1>5. CASE m' = [m EXCEPT !.submitting = FALSE] /\ UNCHANGED <<saved, link>>
  <2>1. /\ m' \in Model /\ m'.screen = m.screen /\ m'.conn = m.conn /\ m'.gen = m.gen
        /\ m'.reconnecting = m.reconnecting /\ m'.connErr = m.connErr /\ m'.token = m.token
    BY <1>2, <1>5 DEF ClientTypeOK, Model
  <2>2. ClientTypeOK' /\ RetryInv' /\ TokenInv'
    BY <1>1, <1>3, <1>5, <2>1, RetryFrame, TokenFrame DEF ClientInv, ClientTypeOK
  <2> QED
    BY <2>2 DEF ClientInv
<1>6. CASE /\ m' = [m EXCEPT !.submitting = FALSE, !.me = s, !.token = s]
           /\ Save(s) /\ Idle # {} /\ link' = WsConnect(link, s)
           /\ m.screen = "auth"
  <2>1. s \in Tokens
    BY DEF Tokens
  <2>2. /\ m' \in Model /\ m'.screen = m.screen /\ m'.conn = m.conn /\ m'.gen = m.gen
        /\ m'.reconnecting = m.reconnecting /\ m'.connErr = m.connErr /\ m'.token = s
    BY <1>2, <1>6, <2>1 DEF ClientTypeOK, Model
  <2>3. /\ link' \in [Links -> Link] /\ Dialing'
        /\ \A l \in Links : link[l].st # "none" => link'[l] = link[l]
    BY <1>2, <1>6, <2>1, DialKeeps
  <2>4. saved' = saved \/ saved' = s
    BY <1>6 DEF Save
  <2>5. ClientTypeOK'
    BY <1>1, <1>2, <1>3, <2>1, <2>2, <2>3, <2>4 DEF ClientTypeOK
  <2>6. m.conn # NoLink => m.conn \in Links /\ link'[m.conn] = link[m.conn]
    BY <1>2, <2>3 DEF ClientInv, RetryInv, ConnIsLive, ClientTypeOK, Model
  <2>7. RetryInv'
    BY <1>1, <2>2, <2>3, <2>6
    DEF ClientInv, RetryInv, ConnIsLive, GenIsPaid, LossUnderway, RetryHasGen,
        RetryIsPending, ChatIsAlive
  <2>8. s \notin left
    BY <1>1 DEF ClientInv, TokenInv, TokensAreKnown, Known
  <2>9. TokenInv'
    BY <1>1, <1>3, <2>2, <2>4, <2>8
    DEF ClientInv, TokenInv, TokensAreKnown, LogoutIsRemembered, Known
  <2> QED
    BY <2>5, <2>7, <2>9 DEF ClientInv
<1> QED
  BY <1>4, <1>5, <1>6 DEF AuthResult

-----------------------------------------------------------------------------
(* Steps on the connection side.  Each changes one link.                   *)
LEMMA Numbers ==
  ASSUME ClientTypeOK
  PROVE  /\ m.gen \in 0..MaxLosses /\ m.gen \in Nat
         /\ losses \in 0..MaxLosses /\ losses \in Nat
         /\ MaxLosses \in Nat /\ m.conn \in Links \cup {NoLink}
PROOF
<1>1. m.gen \in 0..MaxLosses /\ losses \in 0..MaxLosses /\ m.conn \in Links \cup {NoLink}
  BY DEF ClientTypeOK, Model
<1>2. MaxLosses \in Nat
  BY ClientAssumption
<1> QED
  BY <1>1, <1>2

LEMMA HandshakeKeeps ==
  ASSUME ClientInv, NEW l \in Links, Handshake(l)
  PROVE  ClientInv'
PROOF
<1>1. ClientTypeOK
  BY DEF ClientInv
<1>2. PICK st \in {"accepted", "refused", "mismatch", "failed"} :
        link' = [link EXCEPT ![l].st = st]
  BY DEF Handshake, Answers
<1>3. /\ link[l].st = "dialing"
      /\ UNCHANGED <<m, saved, timers, login, left, losses, launches>>
  BY DEF Handshake
<1>4. /\ link' \in [Links -> Link] /\ link'[l].st = st
      /\ \A k \in Links : k # l => link'[k] = link[k]
  BY <1>1, <1>2 DEF ClientTypeOK, Link
<1>5. ClientTypeOK'
  BY <1>1, <1>3, <1>4 DEF ClientTypeOK
<1>6. Dialing'
  BY <1>2, <1>4 DEF Dialing
<1>7. m.conn # NoLink => m.conn \in Links /\ link'[m.conn] = link[m.conn]
  BY <1>1, <1>3, <1>4 DEF ClientInv, RetryInv, ConnIsLive, ClientTypeOK, Model
<1>8. RetryInv'
  BY <1>3, <1>6, <1>7
  DEF ClientInv, RetryInv, ConnIsLive, GenIsPaid, LossUnderway, RetryHasGen,
      RetryIsPending, ChatIsAlive
<1>9. TokenInv'
  BY <1>3, TokenFrame DEF ClientInv
<1> QED
  BY <1>5, <1>8, <1>9 DEF ClientInv

LEMMA ConnectedKeeps ==
  ASSUME ClientInv, NEW l \in Links, HandleConnected(l)
  PROVE  ClientInv'
PROOF
<1>1. ClientTypeOK
  BY DEF ClientInv
<1>2. UNCHANGED <<saved, timers, login, left, losses, launches>>
  BY DEF HandleConnected
<1>3. link' \in [Links -> Link] /\ link'[l].st = "open"
  BY <1>1 DEF HandleConnected, ClientTypeOK, Link
<1>4. /\ m' \in Model /\ m'.conn = l /\ m'.screen = "chat" /\ m'.reconnecting = FALSE
      /\ m'.gen = m.gen /\ m'.token = m.token
  BY <1>1 DEF HandleConnected, ClientTypeOK, Model
<1>5. l # NoLink /\ m.gen \in Nat /\ losses \in Nat /\ MaxLosses \in Nat
  <2>1. l # NoLink
    BY DEF Links, NoLink
  <2> QED
    BY <1>1, <2>1, Numbers
<1>6. ClientTypeOK'
  BY <1>1, <1>2, <1>3, <1>4 DEF ClientTypeOK
<1>7. ConnIsLive' /\ RetryHasGen' /\ RetryIsPending' /\ ChatIsAlive'
  BY <1>3, <1>4, <1>5 DEF ConnIsLive, RetryHasGen, RetryIsPending, ChatIsAlive
<1>8. GenIsPaid'
  <2>1. LossUnderway \in {0, 1} /\ LossUnderway' = 0
    BY <1>3, <1>4 DEF LossUnderway
  <2> QED
    BY <1>2, <1>4, <1>5, <2>1 DEF ClientInv, RetryInv, GenIsPaid
<1>9. TokenInv'
  BY <1>2, <1>4, TokenFrame DEF ClientInv
<1> QED
  BY <1>6, <1>7, <1>8, <1>9 DEF ClientInv, RetryInv

\* Freeing or losing another link than the model's leaves the model's alone.
LEMMA FreeKeeps ==
  ASSUME ClientTypeOK, NEW l \in Links, link' = [link EXCEPT ![l] = NoWire]
  PROVE  /\ link' \in [Links -> Link]
         /\ \A k \in Links : k # l => link'[k] = link[k]
PROOF
BY DEF ClientTypeOK, NoWire, Link, Tokens

LEMMA ConnectErrKeeps ==
  ASSUME ClientInv, NEW l \in Links, HandleConnectErr(l)
  PROVE  ClientInv'
PROOF
<1> DEFINE halted == [m EXCEPT !.submitting = FALSE, !.reconnecting = FALSE]
<1>1. ClientTypeOK
  BY DEF ClientInv
<1>2. /\ link[l].st \in {"refused", "mismatch", "failed"}
      /\ link' = [link EXCEPT ![l] = NoWire]
      /\ UNCHANGED <<saved, login, left, losses, launches>>
  BY DEF HandleConnectErr
<1>3. /\ link' \in [Links -> Link]
      /\ m.conn # NoLink => m.conn \in Links /\ link'[m.conn] = link[m.conn]
  BY <1>1, <1>2, FreeKeeps DEF ClientInv, RetryInv, ConnIsLive, ClientTypeOK, Model
<1>4. CASE /\ m.reconnecting /\ m' = [m EXCEPT !.connErr = "reconnecting"]
           /\ StartTimer(m.gen)
  <2>1. /\ m' \in Model /\ m'.conn = m.conn /\ m'.screen = m.screen /\ m'.gen = m.gen
        /\ m'.reconnecting = TRUE /\ m'.token = m.token
    BY <1>1, <1>4 DEF ClientTypeOK, Model
  <2>2. m.gen \in 1..MaxLosses
    <3>1. m.gen > 0
      BY <1>4 DEF ClientInv, RetryInv, RetryHasGen
    <3> QED
      BY <1>1, <3>1, Numbers
  <2>3. timers' \in [1..MaxLosses -> Nat] /\ timers'[m.gen] > 0
    BY <1>1, <1>4, <2>2 DEF StartTimer, ClientTypeOK
  <2>4. ClientTypeOK'
    BY <1>1, <1>2, <1>3, <2>1, <2>3 DEF ClientTypeOK
  <2>5. RetryInv'
    BY <1>2, <1>3, <2>1, <2>2, <2>3
    DEF ClientInv, RetryInv, ConnIsLive, GenIsPaid, LossUnderway, RetryHasGen,
        RetryIsPending, ChatIsAlive
  <2>6. TokenInv'
    BY <1>2, <2>1, TokenFrame DEF ClientInv
  <2> QED
    BY <2>4, <2>5, <2>6 DEF ClientInv
<1>5. CASE m' = [halted EXCEPT !.connErr = "mismatch"] /\ UNCHANGED timers
  <2>1. /\ m' \in Model /\ m'.conn = m.conn /\ m'.connErr = "mismatch" /\ m'.gen = m.gen
        /\ m'.reconnecting = FALSE /\ m'.token = m.token
    BY <1>1, <1>5 DEF ClientTypeOK, Model
  <2>2. ClientTypeOK'
    BY <1>1, <1>2, <1>3, <1>5, <2>1 DEF ClientTypeOK
  <2>3. RetryInv'
    BY <1>2, <1>3, <2>1
    DEF ClientInv, RetryInv, ConnIsLive, GenIsPaid, LossUnderway, RetryHasGen,
        RetryIsPending, ChatIsAlive
  <2>4. TokenInv'
    BY <1>2, <2>1, TokenFrame DEF ClientInv
  <2> QED
    BY <2>2, <2>3, <2>4 DEF ClientInv
<1>6. CASE m' = BackToLogin(halted) /\ UNCHANGED timers
  <2>1. /\ m' \in Model /\ m'.conn = m.conn /\ m'.screen = "auth" /\ m'.gen = m.gen
        /\ m'.reconnecting = FALSE /\ m'.token = NoToken
    BY <1>1, <1>6 DEF ClientTypeOK, Model, BackToLogin, Tokens
  <2>2. ClientTypeOK'
    BY <1>1, <1>2, <1>3, <1>6, <2>1 DEF ClientTypeOK
  <2>3. RetryInv'
    BY <1>2, <1>3, <2>1
    DEF ClientInv, RetryInv, ConnIsLive, GenIsPaid, LossUnderway, RetryHasGen,
        RetryIsPending, ChatIsAlive
  <2>4. NoToken \notin left
    BY <1>1 DEF ClientTypeOK, Logins, NoToken
  <2>5. TokenInv'
    BY <1>2, <2>1, <2>4
    DEF ClientInv, TokenInv, TokensAreKnown, LogoutIsRemembered, Known
  <2> QED
    BY <2>2, <2>3, <2>5 DEF ClientInv
<1> QED
  BY <1>4, <1>5, <1>6 DEF HandleConnectErr

LEMMA SocketLostKeeps ==
  ASSUME ClientInv, NEW l \in Links, SocketLost(l)
  PROVE  ClientInv'
PROOF
<1>1. ClientTypeOK
  BY DEF ClientInv
<1>2. /\ link[l].st = "open" /\ losses > 0 /\ losses' = losses - 1
      /\ UNCHANGED <<m, saved, timers, login, left, launches>>
  BY DEF SocketLost
<1>3. /\ link' \in [Links -> Link] /\ link'[l].st = "lost"
      /\ \A k \in Links : k # l => link'[k] = link[k]
  BY <1>1 DEF SocketLost, ClientTypeOK, Link
<1>4. /\ losses \in 0..MaxLosses /\ losses' \in 0..MaxLosses
      /\ m.gen \in Nat /\ m.conn \in Links \cup {NoLink}
  BY <1>1, <1>2, Numbers
<1>5. ClientTypeOK'
  BY <1>1, <1>2, <1>3, <1>4 DEF ClientTypeOK
<1>6. Dialing => Dialing'
  BY <1>2, <1>3 DEF Dialing
<1>7. ConnIsLive'
  BY <1>2, <1>3, <1>4 DEF ClientInv, RetryInv, ConnIsLive
<1>8. GenIsPaid'
  <2>1. LossUnderway \in {0, 1} /\ LossUnderway' \in {0, 1}
    BY DEF LossUnderway
  <2>2. LossUnderway' = LossUnderway \/ (LossUnderway = 0 /\ LossUnderway' = 1)
    BY <1>2, <1>3, <1>4 DEF LossUnderway
  <2> QED
    BY <1>2, <1>4, <2>1, <2>2, ClientAssumption DEF ClientInv, RetryInv, GenIsPaid
<1>9. RetryHasGen' /\ RetryIsPending' /\ ChatIsAlive'
  BY <1>2, <1>4, <1>6, <1>7
  DEF ClientInv, RetryInv, ConnIsLive, RetryHasGen, RetryIsPending, ChatIsAlive
<1>10. TokenInv'
  BY <1>2, TokenFrame DEF ClientInv
<1> QED
  BY <1>5, <1>7, <1>8, <1>9, <1>10 DEF ClientInv, RetryInv

LEMMA DisconnectedKeeps ==
  ASSUME ClientInv, NEW l \in Links, HandleDisconnected(l)
  PROVE  ClientInv'
PROOF
<1>1. ClientTypeOK
  BY DEF ClientInv
<1>2. /\ link[l].st = "lost" /\ link' = [link EXCEPT ![l] = NoWire]
      /\ UNCHANGED <<saved, login, left, losses, launches>>
  BY DEF HandleDisconnected
<1>3. /\ link' \in [Links -> Link]
      /\ \A k \in Links : k # l => link'[k] = link[k]
  BY <1>1, <1>2, FreeKeeps
<1>4. CASE l # m.conn /\ UNCHANGED <<m, timers>>
  <2>1. ClientTypeOK'
    BY <1>1, <1>2, <1>3, <1>4 DEF ClientTypeOK
  <2>2. m.conn # NoLink => m.conn \in Links /\ link'[m.conn] = link[m.conn]
    BY <1>1, <1>3, <1>4, Numbers
  <2>3. Dialing => Dialing'
    BY <1>2, <1>3 DEF Dialing
  <2>4. RetryInv'
    BY <1>2, <1>4, <2>2, <2>3
    DEF ClientInv, RetryInv, ConnIsLive, GenIsPaid, LossUnderway, RetryHasGen,
        RetryIsPending, ChatIsAlive
  <2>5. TokenInv'
    BY <1>2, <1>4, TokenFrame DEF ClientInv
  <2> QED
    BY <2>1, <2>4, <2>5 DEF ClientInv
<1>5. CASE l = m.conn /\ m' = Disconnected /\ StartTimer(m.gen + 1)
  <2>1. LossUnderway = 1
    BY <1>2, <1>5 DEF LossUnderway, Links, NoLink
  <2>2. /\ m.gen + 1 \in 0..MaxLosses /\ m.gen + 1 \in 1..MaxLosses
        /\ m.gen + 1 + losses <= MaxLosses /\ m.gen + 1 > 0
    BY <1>1, <2>1, Numbers DEF ClientInv, RetryInv, GenIsPaid
  <2>3. /\ m' \in Model /\ m'.conn = NoLink /\ m'.gen = m.gen + 1
        /\ m'.reconnecting = TRUE /\ m'.token = m.token
    BY <1>1, <1>5, <2>2 DEF Disconnected, ClientTypeOK, Model
  <2>4. timers' \in [1..MaxLosses -> Nat] /\ timers'[m.gen + 1] > 0
    BY <1>1, <1>5, <2>2 DEF StartTimer, ClientTypeOK
  <2>5. ClientTypeOK'
    BY <1>1, <1>2, <1>3, <2>3, <2>4 DEF ClientTypeOK
  <2>6. ConnIsLive' /\ RetryHasGen' /\ RetryIsPending' /\ ChatIsAlive'
    BY <2>2, <2>3, <2>4 DEF ConnIsLive, RetryHasGen, RetryIsPending, ChatIsAlive
  <2>7. GenIsPaid'
    <3>1. LossUnderway' = 0
      BY <2>3 DEF LossUnderway
    <3> QED
      BY <1>1, <1>2, <2>2, <2>3, <3>1, Numbers DEF GenIsPaid
  <2>8. TokenInv'
    BY <1>2, <2>3, TokenFrame DEF ClientInv
  <2> QED
    BY <2>5, <2>6, <2>7, <2>8 DEF ClientInv, RetryInv
<1> QED
  BY <1>4, <1>5 DEF HandleDisconnected

LEMMA TickKeeps ==
  ASSUME ClientInv, NEW g \in 1..MaxLosses, HandleReconnectTick(g)
  PROVE  ClientInv'
PROOF
<1>1. ClientTypeOK
  BY DEF ClientInv
<1>2. /\ timers[g] > 0 /\ timers' = [timers EXCEPT ![g] = @ - 1]
      /\ UNCHANGED <<saved, login, left, losses, launches>>
  BY DEF HandleReconnectTick
<1>3. /\ timers' \in [1..MaxLosses -> Nat]
      /\ \A h \in 1..MaxLosses : h # g => timers'[h] = timers[h]
  BY <1>1, <1>2 DEF ClientTypeOK
<1>4. CASE g # m.gen /\ UNCHANGED <<m, link>>
  <2>1. ClientTypeOK'
    BY <1>1, <1>2, <1>3, <1>4 DEF ClientTypeOK
  <2>2. m.gen > 0 => timers'[m.gen] = timers[m.gen]
    <3>1. m.gen > 0 => m.gen \in 1..MaxLosses
      BY <1>1, Numbers
    <3> QED
      BY <1>3, <1>4, <3>1
  <2>3. RetryInv'
    BY <1>2, <1>4, <2>2
    DEF ClientInv, RetryInv, ConnIsLive, GenIsPaid, LossUnderway, RetryHasGen,
        RetryIsPending, ChatIsAlive, Dialing
  <2>4. TokenInv'
    BY <1>2, <1>4, TokenFrame DEF ClientInv
  <2> QED
    BY <2>1, <2>3, <2>4 DEF ClientInv
<1>5. CASE /\ Idle # {} /\ m' = [m EXCEPT !.connErr = "reconnecting"]
           /\ link' = WsConnect(link, m.token)
  <2>1. /\ m' \in Model /\ m'.screen = m.screen /\ m'.conn = m.conn /\ m'.gen = m.gen
        /\ m'.reconnecting = m.reconnecting /\ m'.token = m.token /\ m.token \in Tokens
    BY <1>1, <1>5 DEF ClientTypeOK, Model
  <2>2. /\ link' \in [Links -> Link] /\ Dialing'
        /\ \A l \in Links : link[l].st # "none" => link'[l] = link[l]
    BY <1>1, <1>5, <2>1, DialKeeps
  <2>3. ClientTypeOK'
    BY <1>1, <1>2, <1>3, <2>1, <2>2 DEF ClientTypeOK
  <2>4. m.conn # NoLink => m.conn \in Links /\ link'[m.conn] = link[m.conn]
    BY <1>1, <2>2, Numbers DEF ClientInv, RetryInv, ConnIsLive
  <2>5. RetryInv'
    BY <1>2, <2>1, <2>2, <2>4
    DEF ClientInv, RetryInv, ConnIsLive, GenIsPaid, LossUnderway, RetryHasGen,
        RetryIsPending, ChatIsAlive
  <2>6. TokenInv'
    BY <1>2, <2>1, TokenFrame DEF ClientInv
  <2> QED
    BY <2>3, <2>5, <2>6 DEF ClientInv
<1> QED
  BY <1>4, <1>5 DEF HandleReconnectTick, Stale

-----------------------------------------------------------------------------
(* Leaving.                                                                *)
LEMMA FreshIsRetryInv ==
  ASSUME ClientTypeOK, m'.conn = NoLink, m'.gen = 0, m'.screen = "auth",
         m'.reconnecting = FALSE, losses' = losses
  PROVE  RetryInv'
PROOF
<1>1. LossUnderway' = 0
  BY DEF LossUnderway
<1>2. GenIsPaid'
  BY <1>1, Numbers DEF GenIsPaid
<1> QED
  BY <1>2 DEF RetryInv, ConnIsLive, RetryHasGen, RetryIsPending, ChatIsAlive

LEMMA LogoutKeeps == ClientInv /\ DoLogout => ClientInv'
PROOF
<1> SUFFICES ASSUME ClientInv, DoLogout PROVE ClientInv'
  OBVIOUS
<1>1. ClientTypeOK
  BY DEF ClientInv
<1>2. /\ UNCHANGED <<timers, login, losses, launches>>
      /\ saved' = NoToken \/ saved' = saved
      /\ left' = IF saved' = NoToken THEN left \cup ({m.token} \ {NoToken}) ELSE left
  BY DEF DoLogout, Save
<1>3. link' \in [Links -> Link]
  BY <1>1 DEF DoLogout, CloseConn, ClientTypeOK, Link
<1>4. NoToken \in Tokens
  BY DEF Tokens
<1>5. /\ m' \in Model /\ m'.token = NoToken /\ m'.conn = NoLink /\ m'.gen = 0
      /\ m'.screen = "auth" /\ m'.reconnecting = FALSE
  BY <1>4, FreshModel DEF DoLogout, LoggedOut
<1>6. TokenInv'
  <2>1. NoToken \notin Logins
    BY DEF Logins, NoToken
  <2>2. Known' = Known /\ Known \subseteq Logins
    BY <1>2 DEF Known
  <2> QED
    BY <1>2, <1>5, <2>1, <2>2
    DEF ClientInv, TokenInv, TokensAreKnown, LogoutIsRemembered
<1>7. ClientTypeOK'
  BY <1>1, <1>2, <1>3, <1>4, <1>5, <1>6
  DEF ClientTypeOK, TokenInv, TokensAreKnown, Known
<1>8. RetryInv'
  BY <1>1, <1>2, <1>5, FreshIsRetryInv
<1> QED
  BY <1>6, <1>7, <1>8 DEF ClientInv

LEMMA RelaunchKeeps == ClientInv /\ Relaunch => ClientInv'
PROOF
<1> SUFFICES ASSUME ClientInv, Relaunch PROVE ClientInv'
  OBVIOUS
<1>1. ClientTypeOK
  BY DEF ClientInv
<1>2. UNCHANGED <<saved, left, losses>> /\ saved \in Tokens
  BY <1>1 DEF Relaunch, ClientTypeOK
<1>3. link' \in [Links -> Link]
  BY <1>2, LaunchDials DEF Relaunch
<1>4. /\ m' \in Model /\ m'.token = saved /\ m'.conn = NoLink /\ m'.gen = 0
      /\ m'.screen = "auth" /\ m'.reconnecting = FALSE
  BY <1>2, FreshModel DEF Relaunch
<1>5. /\ timers' \in [1..MaxLosses -> Nat]
      /\ launches' \in 0..MaxLaunches
  BY <1>1, ClientAssumption DEF Relaunch, NoTimers, ClientTypeOK
<1>6. /\ login' \in [Logins -> {"unused", "asked", "granted", "denied", "valid", "over"}]
      /\ \A s \in Logins : login[s] \in {"valid", "over"} => login'[s] \in {"valid", "over"}
  BY <1>1 DEF Relaunch, ClientTypeOK
<1>7. ClientTypeOK'
  BY <1>1, <1>2, <1>3, <1>4, <1>5, <1>6 DEF ClientTypeOK
<1>8. RetryInv'
  BY <1>1, <1>2, <1>4, FreshIsRetryInv
<1>9. TokenInv'
  BY <1>2, <1>4, <1>6
  DEF ClientInv, TokenInv, TokensAreKnown, LogoutIsRemembered, Known
<1> QED
  BY <1>7, <1>8, <1>9 DEF ClientInv

-----------------------------------------------------------------------------
LEMMA ClientInvStep == ClientInv /\ [Next]_vars => ClientInv'
PROOF
<1> SUFFICES ASSUME ClientInv, [Next]_vars PROVE ClientInv'
  OBVIOUS
<1>1. CASE UNCHANGED vars
  BY <1>1
  DEF vars, ClientInv, ClientTypeOK, RetryInv, ConnIsLive, GenIsPaid, LossUnderway,
      RetryHasGen, RetryIsPending, ChatIsAlive, Dialing, TokenInv, TokensAreKnown,
      LogoutIsRemembered, Known
<1>2. CASE SubmitAuth \/ DoLogout \/ Relaunch
  BY <1>2, SubmitKeeps, LogoutKeeps, RelaunchKeeps
<1>3. CASE \E s \in Logins : DoAuth(s) \/ AuthResult(s) \/ SessionOver(s)
  BY <1>3, LoginKeeps, AuthResultKeeps
<1>4. CASE \E l \in Links : \/ Handshake(l) \/ HandleConnected(l) \/ HandleConnectErr(l)
                            \/ SocketLost(l) \/ HandleDisconnected(l)
  BY <1>4, HandshakeKeeps, ConnectedKeeps, ConnectErrKeeps, SocketLostKeeps,
     DisconnectedKeeps
<1>5. CASE \E g \in 1..MaxLosses : HandleReconnectTick(g)
  BY <1>5, TickKeeps
<1> QED
  BY <1>1, <1>2, <1>3, <1>4, <1>5 DEF Next

LEMMA ClientInvAlways == ClientSpec => []ClientInv
PROOF
BY ClientInvInit, ClientInvStep, PTL DEF ClientSpec

\* The variables have their types, generations and timers within the losses.
THEOREM ClientTypeCorrect == ClientSpec => []ClientTypeOK
PROOF
<1>1. ClientInv => ClientTypeOK
  BY DEF ClientInv
<1> QED
  BY <1>1, ClientInvAlways, PTL

\* events.go's three handlers never lose the thread of their retries.
THEOREM RetriesGoOn == ClientSpec => []RetryIsPending
PROOF
<1>1. ClientInv => RetryIsPending
  BY DEF ClientInv, RetryInv
<1> QED
  BY <1>1, ClientInvAlways, PTL

\* The chat screen is connected, on its way there, or says why it is not.
THEOREM ChatNeverDead == ClientSpec => []ChatIsAlive
PROOF
<1>1. ClientInv => ChatIsAlive
  BY DEF ClientInv, RetryInv
<1> QED
  BY <1>1, ClientInvAlways, PTL

\* A token that /logout removed comes back neither from late messages nor from
\* the config file.
THEOREM LogoutForGood == ClientSpec => []LogoutIsRemembered
PROOF
<1>1. ClientInv => LogoutIsRemembered
  BY DEF ClientInv, TokenInv
<1> QED
  BY <1>1, ClientInvAlways, PTL

\* The steps that give up the model's connection are the report of its loss,
\* the logout that closes it and the end of the program.
LEMMA SocketsHeldStep ==
  ASSUME ClientInv, [Next]_vars, NEW l \in Links,
         l = m.conn, link[l].st = "open", link'[l].st = "open"
  PROVE  m'.conn # NoLink
PROOF
<1>1. m \in Model /\ l # NoLink /\ link \in [Links -> Link]
  BY DEF ClientInv, ClientTypeOK, Links, NoLink
<1>2. CASE UNCHANGED m
  BY <1>1, <1>2
<1>3. CASE SubmitAuth
  BY <1>1, <1>3 DEF SubmitAuth, Model
<1>4. CASE DoLogout
  BY <1>1, <1>4 DEF DoLogout, CloseConn
<1>5. CASE Relaunch
  <2>1. saved \in Tokens
    BY DEF ClientInv, ClientTypeOK
  <2>2. Launch(saved)[l].st # "open"
    <3>1. CASE saved = NoToken
      BY <3>1 DEF Launch, NoWire
    <3>2. CASE saved # NoToken
      <4> DEFINE none == [k \in Links |-> NoWire]
      <4>1. none \in [Links -> Link] /\ none[l].st = "none"
        BY DEF NoWire, Link, Tokens
      <4>2. \E k \in Links :
              Launch(saved) = [none EXCEPT ![k] = [st |-> "dialing", tok |-> saved]]
        BY <2>1, <3>2, <4>1, DialTakesIdle DEF Launch
      <4> QED
        BY <4>1, <4>2
    <3> QED
      BY <3>1, <3>2
  <2> QED
    BY <1>5, <2>2 DEF Relaunch
<1>6. ASSUME NEW s \in Logins, AuthResult(s) PROVE m'.conn # NoLink
  BY <1>1, <1>6 DEF AuthResult, Model
<1>7. ASSUME NEW k \in Links, HandleConnected(k) PROVE m'.conn # NoLink
  <2>1. k # NoLink
    BY DEF Links, NoLink
  <2> QED
    BY <1>1, <1>7, <2>1 DEF HandleConnected, Model
<1>8. ASSUME NEW k \in Links, HandleConnectErr(k) PROVE m'.conn # NoLink
  BY <1>1, <1>8 DEF HandleConnectErr, BackToLogin, Model
<1>9. ASSUME NEW k \in Links, HandleDisconnected(k) PROVE m'.conn # NoLink
  BY <1>1, <1>9 DEF HandleDisconnected
<1>10. ASSUME NEW g \in 1..MaxLosses, HandleReconnectTick(g) PROVE m'.conn # NoLink
  BY <1>1, <1>10 DEF HandleReconnectTick, Model
<1> QED
  BY <1>2, <1>3, <1>4, <1>5, <1>6, <1>7, <1>8, <1>9, <1>10
  DEF Next, vars, DoAuth, SessionOver, Handshake, SocketLost

\* No socket in use is left running with nobody holding it.
THEOREM SocketsHeld == ClientSpec => NoSocketLeftRunning
PROOF
<1>1. ClientInv /\ [Next]_vars =>
        [\A l \in Links : (l = m.conn /\ link[l].st = "open" /\ link'[l].st = "open")
                            => m'.conn # NoLink]_vars
  BY SocketsHeldStep
<1> QED
  BY <1>1, ClientInvAlways, PTL DEF ClientSpec, NoSocketLeftRunning
=============================================================================
