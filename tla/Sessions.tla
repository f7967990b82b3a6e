------------------------------ MODULE Sessions ------------------------------
(***************************************************************************)
(* Accounts and session tokens: /register, /login and /logout              *)
(* (server/http.go, server/store/store.go), each request a goroutine whose *)
(* statements interleave with the others', the clients that submit them    *)
(* (client/auth.go) and give up after a timeout, the expiry of sessions    *)
(* and the pruning at start-up (server/main.go).                           *)
(*                                                                         *)
(* A password is known by the user it belongs to, and no one else.         *)
(* Requests that fail before the first statement change nothing; the rate  *)
(* limit in front of them is in module RateLimiter.                        *)
(***************************************************************************)
EXTENDS Integers, Sequences, FiniteSets

CONSTANTS
  Users,     \* usernames
  Actors,    \* those whose clients are followed (a bound)
  Tokens,    \* what GenerateToken returns
  Requests,  \* HTTP requests in flight (a bound)
  None,      \* no token, no request, no conversation
  TTL,       \* SessionTTL
  MaxTime,   \* bound: the time that passes
  MaxNoise   \* bound: failing statements, lost answers and restarts

ASSUME SessionsAssumption ==
  /\ TTL \in Nat \ {0} /\ MaxTime \in Nat /\ MaxNoise \in Nat
  /\ Actors \subseteq Users
  /\ None \notin Users \cup Tokens \cup Requests

VARIABLES
  accounts, \* the users table
  sessions, \* the sessions table: user and expires_at of each token, or None
  now,      \* time.Now() on the server
  request,  \* what each handler is about to do
  waiting,  \* client: auth.submitting, and the request it is about
  token,    \* client: model.token
  noise     \* what is left of MaxNoise

sessionVars == <<accounts, sessions, now, request, waiting, token, noise>>

Idle == [pc |-> "idle", user |-> None, token |-> None]
NoSession == [user |-> None, expires |-> 0]

SessionsTypeOK ==
  /\ accounts \subseteq Users
  /\ \A t \in Tokens : \/ sessions[t] = NoSession
                       \/ sessions[t].user \in accounts /\ sessions[t].expires \in now - MaxTime..now + TTL
  /\ \A r \in Requests : /\ request[r].pc = "issue" => request[r].user \in accounts
                         /\ request[r].pc = "idle" => request[r] = Idle
  /\ \A u \in Users : /\ waiting[u] = None \/ request[waiting[u]].user = u
                      /\ token[u] \in Tokens \cup {None}
                      /\ token[u] # None => waiting[u] = None

SessionsInit ==
  /\ accounts = {}
  /\ sessions = [t \in Tokens |-> NoSession]
  /\ now = 0
  /\ request = [r \in Requests |-> Idle]
  /\ waiting = [u \in Users |-> None]
  /\ token = [u \in Users |-> None]
  /\ noise = MaxNoise

Noise == noise > 0 /\ noise' = noise - 1

\* GetUserByToken: expiry is part of the query.
Authorised(t) == sessions[t] # NoSession /\ sessions[t].expires > now

Begin(r, pc, u, t) ==
  /\ request[r] = Idle
  /\ request' = [request EXCEPT ![r] = [pc |-> pc, user |-> u, token |-> t]]

Proceed(r, pc) ==
  request' = [request EXCEPT ![r] = [pc |-> pc, user |-> request[r].user, token |-> request[r].token]]

\* Mutant of Answer: the client goes on waiting.
AnswerUnread(r) ==
  /\ request' = [request EXCEPT ![r] = Idle]
  /\ waiting' = waiting

\* The handler answers; a client that has not given up reads it.
Answer(r) ==
  /\ request' = [request EXCEPT ![r] = Idle]
  /\ waiting' = [u \in Users |-> IF waiting[u] = r THEN None ELSE waiting[u]]

-----------------------------------------------------------------------------
(* The client.                                                             *)

\* submitAuth, unless a request is in flight already.
Submit(r, u) ==
  /\ token[u] = None /\ waiting[u] = None
  /\ \E pc \in {"register", "login"} : Begin(r, pc, u, None)
  /\ waiting' = [waiting EXCEPT ![u] = r]
  /\ UNCHANGED <<accounts, sessions, now, token, noise>>

\* httpAuth's timeout: the server goes on, and nobody reads the answer.
GiveUp(u) ==
  /\ waiting[u] # None
  /\ Noise
  /\ waiting' = [waiting EXCEPT ![u] = None]
  /\ UNCHANGED <<accounts, sessions, now, request, token>>

\* doLogout: the token is dropped, the request is best effort.
Logout(r, u) ==
  /\ token[u] # None
  /\ token' = [token EXCEPT ![u] = None]
  /\ \/ Begin(r, "logout", u, token[u]) /\ noise' = noise
     \/ Noise /\ UNCHANGED request
  /\ UNCHANGED <<accounts, sessions, now, waiting>>

\* handleConnectErr: the dial is answered 401, the token is dropped.
Forget(u) ==
  /\ token[u] # None /\ ~Authorised(token[u])
  /\ token' = [token EXCEPT ![u] = None]
  /\ UNCHANGED <<accounts, sessions, now, request, waiting, noise>>

-----------------------------------------------------------------------------
(* The handlers.                                                           *)

\* registerHandler: CreateUser, the username is unique ...
CreateUser(r) ==
  /\ request[r].pc = "register"
  /\ \/ /\ request[r].user \notin accounts
        /\ accounts' = accounts \cup {request[r].user}
        /\ Proceed(r, "issue") /\ waiting' = waiting
     \/ /\ request[r].user \in accounts  \* ErrUsernameTaken
        /\ accounts' = accounts
        /\ Answer(r)
  /\ UNCHANGED <<sessions, now, token, noise>>

\* ... loginHandler: GetUserByUsername and CheckPassword ...
CheckLogin(r) ==
  /\ request[r].pc = "login"
  /\ IF request[r].user \in accounts THEN Proceed(r, "issue") /\ waiting' = waiting
                                     ELSE Answer(r)
  /\ UNCHANGED <<accounts, sessions, now, token, noise>>

\* ... and both: issueSession, the token goes to the client.
IssueSession(r) ==
  /\ request[r].pc = "issue"
  /\ LET u == request[r].user
     IN  \E t \in Tokens :
           /\ sessions[t] = NoSession /\ \A v \in Users : token[v] # t
           /\ \A q \in Requests : request[q].token # t
           /\ sessions' = [sessions EXCEPT ![t] = [user |-> u, expires |-> now + TTL]]
           /\ token' = IF waiting[u] = r THEN [token EXCEPT ![u] = t] ELSE token
  /\ Answer(r)
  /\ UNCHANGED <<accounts, now, noise>>

\* logoutHandler: authenticateHTTP ...
AuthLogout(r) ==
  /\ request[r].pc = "logout"
  /\ IF Authorised(request[r].token) THEN Proceed(r, "revoke") /\ waiting' = waiting
                                     ELSE Answer(r)
  /\ UNCHANGED <<accounts, sessions, now, token, noise>>

\* Mutant of DeleteSession: it revokes per user, not per token.
DeleteSessionsOf(t) ==
  [s \in Tokens |-> IF sessions[s].user = sessions[t].user THEN NoSession ELSE sessions[s]]

DeleteSession(t) == [sessions EXCEPT ![t] = NoSession]

\* ... and DeleteSession.
Revoke(r) ==
  /\ request[r].pc = "revoke"
  /\ sessions' = DeleteSession(request[r].token)
  /\ Answer(r)
  /\ UNCHANGED <<accounts, now, token, noise>>

\* A statement fails: 500, or 401 when it was the lookup of the token.
AuthFails(r) ==
  /\ request[r].pc \in {"register", "login", "issue", "logout", "revoke"}
  /\ Noise
  /\ Answer(r)
  /\ UNCHANGED <<accounts, sessions, now, token>>

\* DeleteExpiredSessions
Pruned == [t \in Tokens |-> IF sessions[t].expires <= now THEN NoSession ELSE sessions[t]]

\* The server dies and starts again; pruning may fail.
RestartSessions ==
  /\ Noise
  /\ sessions' \in {Pruned, sessions}
  /\ request' = [r \in Requests |-> Idle]
  /\ waiting' = [u \in Users |-> None]
  /\ UNCHANGED <<accounts, now, token>>

Tick ==
  /\ now < MaxTime /\ now' = now + 1
  /\ UNCHANGED <<accounts, sessions, request, waiting, token, noise>>

AuthStep(r) == CreateUser(r) \/ CheckLogin(r) \/ IssueSession(r) \/ AuthLogout(r) \/ Revoke(r)

-----------------------------------------------------------------------------
(* Properties.                                                             *)

\* A session ends by its own /logout or by its expiry, whatever other
\* requests, restarts and the housekeeping do ("Housekeeping only",
\* main.go:39; "Revocation is per token", server/README.md:107).
SessionsLast ==
  [][\A t \in Tokens :
       Authorised(t) /\ ~Authorised(t)'
         => \/ now' >= sessions[t].expires
            \/ \E r \in Requests : request[r].pc = "revoke" /\ request[r].token = t]_sessionVars
=============================================================================
