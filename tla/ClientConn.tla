----------------------------- MODULE ClientConn -----------------------------
(***************************************************************************)
(* The client's connection and session life cycle: launch, login, dial,    *)
(* reconnect with backoff, /logout and relaunch (client/network.go,        *)
(* client/events.go, client/auth.go, client/model.go, client/update.go).   *)
(*                                                                         *)
(* Bubble Tea applies one message at a time to the model `m`.  A dial, a   *)
(* timer, an HTTP request and a readLoop each run on a goroutine of their  *)
(* own and hand their message over when they end, in any order; nothing    *)
(* cancels them.  A link is one wsConnect from the dial to the message     *)
(* that its socket is lost; its number stands for the *websocket.Conn.     *)
(*                                                                         *)
(* What the chat screen shows is not part of this module.  A user name is  *)
(* the login that set it, so `me` and a token are numbers of logins.       *)
(* Backoff delays and attempt counts only choose when a timer fires, which *)
(* here may be at any time.                                                *)
(***************************************************************************)
EXTENDS Integers

CONSTANTS
  MaxLogins,   \* bound: logins, the one saved before the first launch included
  MaxLinks,    \* bound: links at a time
  MaxLosses,   \* bound: sockets the network takes away
  MaxLaunches  \* bound: times the program is started again

ASSUME ClientAssumption ==
  /\ MaxLogins \in Nat \ {0} /\ MaxLinks \in Nat \ {0}
  /\ MaxLosses \in Nat /\ MaxLaunches \in Nat

Logins == 1..MaxLogins
Links == 1..MaxLinks
NoToken == 0
NoLink == 0
Saved == 1 \* the login of the token found at the first launch

VARIABLES
  m,       \* the Bubble Tea model
  saved,   \* the token in config.json
  link,    \* what has become of each wsConnect
  timers,  \* how many reconnect timers of each generation are running
  login,   \* each login request, then its session on the server
  left,    \* the logins /logout has ended, config file included
  losses,  \* what is left of MaxLosses ...
  launches \* ... and of MaxLaunches

vars == <<m, saved, link, timers, login, left, losses, launches>>

Tokens == Logins \cup {NoToken}
Model ==
  [screen : {"auth", "chat"}, me : Tokens, token : Tokens, conn : Links \cup {NoLink},
   reconnecting : BOOLEAN, gen : 0..MaxLosses, submitting : BOOLEAN,
   connErr : {"", "reconnecting", "mismatch"}]
Link ==
  [st : {"none", "dialing", "accepted", "refused", "mismatch", "failed", "open", "lost"},
   tok : Tokens]

ClientTypeOK ==
  /\ m \in Model
  /\ saved \in Tokens
  /\ link \in [Links -> Link]
  /\ timers \in [1..MaxLosses -> Nat]
  /\ login \in [Logins -> {"unused", "asked", "granted", "denied", "valid", "over"}]
  /\ left \subseteq Logins
  /\ losses \in 0..MaxLosses /\ launches \in 0..MaxLaunches

-----------------------------------------------------------------------------
NoWire == [st |-> "none", tok |-> NoToken]
Idle == {l \in Links : link[l].st = "none"}

\* The dial a step starts on links `ls`: wsConnect as a tea.Cmd.
WsConnect(ls, tok) ==
  [ls EXCEPT ![CHOOSE l \in Links : ls[l].st = "none"] = [st |-> "dialing", tok |-> tok]]

\* initialModel with a config that holds token t, and model.Init.
InitialModel(t) ==
  [screen |-> "auth", me |-> t, token |-> t, conn |-> NoLink, reconnecting |-> FALSE,
   gen |-> 0, submitting |-> FALSE, connErr |-> ""]
Launch(t) ==
  LET none == [l \in Links |-> NoWire]
  IN  IF t = NoToken THEN none ELSE WsConnect(none, t)

NoTimers == [g \in 1..MaxLosses |-> 0]

Init ==
  /\ saved \in {NoToken, Saved}
  /\ m = InitialModel(saved)
  /\ link = Launch(saved)
  /\ timers = NoTimers
  /\ \E st \in {"valid", "over"} :
       login = [s \in Logins |-> IF s = saved THEN st ELSE "unused"]
  /\ left = {}
  /\ losses = MaxLosses
  /\ launches = MaxLaunches

\* config.save, which may fail: updateAuth says so, doLogout does not.
Save(t) == saved' \in {t, saved}

-----------------------------------------------------------------------------
(* Logging in.                                                             *)

\* Enter on the auth screen.
SubmitAuth ==
  LET unused == {s \in Logins : login[s] = "unused"}
  IN  /\ m.screen = "auth" /\ ~m.submitting
      /\ unused # {}
      /\ login' = [login EXCEPT ![CHOOSE s \in unused : TRUE] = "asked"]
      /\ m' = [m EXCEPT !.submitting = TRUE]
      /\ UNCHANGED <<saved, link, timers, left, losses, launches>>

\* doAuth comes back: with a token, or with a rejection or an error.
DoAuth(s) ==
  /\ login[s] = "asked"
  /\ \E answer \in {"granted", "denied"} : login' = [login EXCEPT ![s] = answer]
  /\ UNCHANGED <<m, saved, link, timers, left, losses, launches>>

\* updateAuth, case authResultMsg.  updateChat does not know the message.
AuthResult(s) ==
  /\ login[s] \in {"granted", "denied"}
  /\ login' = [login EXCEPT ![s] = IF @ = "granted" THEN "valid" ELSE "over"]
  /\ \/ /\ m.screen = "chat"
        /\ UNCHANGED <<m, saved, link>>
     \/ /\ m.screen = "auth" /\ login[s] = "denied"
        /\ m' = [m EXCEPT !.submitting = FALSE]
        /\ UNCHANGED <<saved, link>>
     \/ /\ m.screen = "auth" /\ login[s] = "granted"
        /\ Idle # {}
        /\ m' = [m EXCEPT !.submitting = FALSE, !.me = s, !.token = s]
        /\ Save(s)
        /\ link' = WsConnect(link, s)
  /\ UNCHANGED <<timers, left, losses, launches>>

\* The server ends a session: it expired, or a logoutCmd got through.
SessionOver(s) ==
  /\ login[s] = "valid"
  /\ login' = [login EXCEPT ![s] = "over"]
  /\ UNCHANGED <<m, saved, link, timers, left, losses, launches>>

-----------------------------------------------------------------------------
(* Dialing, losing the socket and dialing again.                           *)

\* The session of token t exists on the server.
Authentic(t) == t \in {s \in Logins : login[s] \in {"granted", "valid"}}

\* serveWS answers an upgrade with 426, 401 or 101, or is never reached.  A
\* token lookup that fails inside the server is a 401 too.
Answers(t) ==
  {"mismatch", "failed", "refused"} \cup (IF Authentic(t) THEN {"accepted"} ELSE {})

\* DefaultDialer.Dial returns.
Handshake(l) ==
  /\ link[l].st = "dialing"
  /\ \E answer \in Answers(link[l].tok) : link' = [link EXCEPT ![l].st = answer]
  /\ UNCHANGED <<m, saved, timers, login, left, losses, launches>>

HandleConnected(l) ==
  /\ link[l].st = "accepted"
  /\ link' = [link EXCEPT ![l].st = "open"]
  /\ m' = [m EXCEPT !.conn = l, !.screen = "chat", !.connErr = "",
                    !.submitting = FALSE, !.reconnecting = FALSE]
  /\ UNCHANGED <<saved, timers, login, left, losses, launches>>

\* reconnectCmd
StartTimer(g) == timers' = [timers EXCEPT ![g] = @ + 1]

\* Mutant of BackToLogin: the chat screen stays.
BackWithoutScreen(now) == [now EXCEPT !.token = NoToken]

BackToLogin(now) == [now EXCEPT !.screen = "auth", !.token = NoToken]

HandleConnectErr(l) ==
  LET status == link[l].st
      halted == [m EXCEPT !.submitting = FALSE, !.reconnecting = FALSE]
  IN  /\ status \in {"refused", "mismatch", "failed"}
      /\ link' = [link EXCEPT ![l] = NoWire]
      /\ \/ /\ status = "failed" /\ m.reconnecting
            /\ m' = [m EXCEPT !.connErr = "reconnecting"]
            /\ StartTimer(m.gen)
         \/ /\ status = "mismatch"
            /\ m' = [halted EXCEPT !.connErr = "mismatch"]
            /\ UNCHANGED timers
         \/ /\ status = "refused" \/ (status = "failed" /\ ~m.reconnecting)
            /\ m' = BackToLogin(halted)
            /\ UNCHANGED timers
      /\ UNCHANGED <<saved, login, left, losses, launches>>

\* readLoop's ReadMessage fails.
SocketLost(l) ==
  /\ link[l].st = "open"
  /\ losses > 0 /\ losses' = losses - 1
  /\ link' = [link EXCEPT ![l].st = "lost"]
  /\ UNCHANGED <<m, saved, timers, login, left, launches>>

\* Mutant of Disconnected: the generation is counted up twice.
DisconnectedTwice ==
  [m EXCEPT !.conn = NoLink, !.reconnecting = TRUE, !.connErr = "reconnecting",
            !.gen = @ + 2]

\* Mutant of Disconnected: the generation is not counted up.
DisconnectedSameGen ==
  [m EXCEPT !.conn = NoLink, !.reconnecting = TRUE, !.connErr = "reconnecting"]

Disconnected ==
  [m EXCEPT !.conn = NoLink, !.reconnecting = TRUE, !.connErr = "reconnecting",
            !.gen = @ + 1]

HandleDisconnected(l) ==
  /\ link[l].st = "lost"
  /\ link' = [link EXCEPT ![l] = NoWire]
  /\ \/ /\ l # m.conn
        /\ UNCHANGED <<m, timers>>
     \/ /\ l = m.conn
        /\ m' = Disconnected
        /\ StartTimer(m.gen + 1)
  /\ UNCHANGED <<saved, login, left, losses, launches>>

\* Mutant of Stale: the current generation counts as superseded.
StaleOrCurrent(g) == g <= m.gen

Stale(g) == g # m.gen

HandleReconnectTick(g) ==
  /\ timers[g] > 0
  /\ timers' = [timers EXCEPT ![g] = @ - 1]
  /\ \/ /\ Stale(g)
        /\ UNCHANGED <<m, link>>
     \/ /\ ~Stale(g)
        /\ Idle # {}
        /\ m' = [m EXCEPT !.connErr = "reconnecting"]
        /\ link' = WsConnect(link, m.token)
  /\ UNCHANGED <<saved, login, left, losses, launches>>

-----------------------------------------------------------------------------
(* Leaving.                                                                *)

\* Mutant of CloseConn: /logout only forgets the connection.
KeepConn == link

\* The deliberate Close ends the readLoop, whose message comes later.
CloseConn ==
  [l \in Links |-> IF l = m.conn /\ link[l].st = "open"
                   THEN [link[l] EXCEPT !.st = "lost"] ELSE link[l]]

\* Mutant of LoggedOut: fields cleared by hand, the token forgotten.
ClearedByHand ==
  [m EXCEPT !.screen = "auth", !.conn = NoLink, !.me = NoToken,
            !.reconnecting = FALSE, !.connErr = ""]

LoggedOut == InitialModel(NoToken)

DoLogout ==
  /\ m.screen = "chat"
  /\ link' = CloseConn
  /\ Save(NoToken)
  /\ left' = IF saved' = NoToken THEN left \cup ({m.token} \ {NoToken}) ELSE left
  /\ m' = LoggedOut
  /\ UNCHANGED <<timers, login, losses, launches>>

\* The program ends, at any moment, and is started again on the same config.
Relaunch ==
  /\ launches > 0 /\ launches' = launches - 1
  /\ m' = InitialModel(saved)
  /\ link' = Launch(saved)
  /\ timers' = NoTimers
  /\ login' = [s \in Logins |-> CASE login[s] = "granted" -> "valid"
                                  [] login[s] \in {"asked", "denied"} -> "over"
                                  [] OTHER -> login[s]]
  /\ UNCHANGED <<saved, left, losses>>

Next ==
  \/ SubmitAuth \/ DoLogout \/ Relaunch
  \/ \E s \in Logins : DoAuth(s) \/ AuthResult(s) \/ SessionOver(s)
  \/ \E l \in Links : \/ Handshake(l) \/ HandleConnected(l) \/ HandleConnectErr(l)
                      \/ SocketLost(l) \/ HandleDisconnected(l)
  \/ \E g \in 1..MaxLosses : HandleReconnectTick(g)

ClientSpec == Init /\ [][Next]_vars

\* The runtime runs every goroutine and Update takes every message.  Nothing
\* is assumed of the network, the server or the user: a dial ends, somehow.
ClientFairSpec ==
  /\ ClientSpec
  /\ \A l \in Links :
       WF_vars(Handshake(l)) /\ WF_vars(HandleConnected(l)) /\ WF_vars(HandleConnectErr(l))
  /\ \A g \in 1..MaxLosses : WF_vars(HandleReconnectTick(g))

-----------------------------------------------------------------------------
Dialing == \E l \in Links : link[l].st \in {"dialing", "accepted", "refused", "mismatch", "failed"}

\* handleDisconnected, handleConnectErr, handleReconnectTick: while the client
\* says it is reconnecting, the timer of the current generation runs or a dial
\* is under way, so that the loop of retries cannot have lost its thread.
RetryIsPending ==
  m.reconnecting => Dialing \/ (m.gen > 0 /\ timers[m.gen] > 0)

\* The chat screen is never dead: it has a connection whose loss readLoop will
\* report, or it reconnects, or it shows the version mismatch that stopped it.
ChatIsAlive ==
  m.screen = "chat" =>
    \/ (m.conn # NoLink /\ link[m.conn].st \in {"open", "lost"})
    \/ m.reconnecting \/ Dialing
    \/ m.connErr = "mismatch"

\* doLogout and updateAuth, over relaunches: neither the model nor the config
\* file holds a token that /logout took out of both, whatever late answers and
\* lost sockets of the old session come in afterwards.
LogoutIsRemembered == m.token \notin left /\ saved \notin left

\* handleDisconnected, doLogout, handleConnectErr: no step leaves the socket in
\* use running with nobody holding it, still online under the user's name and
\* feeding its messages to the model, unless a newer connection displaces it.
NoSocketLeftRunning ==
  [][\A l \in Links :
       (l = m.conn /\ link[l].st = "open" /\ link'[l].st = "open") => m'.conn # NoLink]_vars

\* "Retries continue indefinitely except on a 401" (client/network.go): when
\* dials stop failing, the client stops reconnecting, by a connection, or with
\* the login screen or the version mismatch that the server's answer calls for.
ReconnectsOnceReachable ==
  <>[](\A l \in Links : link[l].st # "failed") => (m.reconnecting ~> ~m.reconnecting)
=============================================================================
