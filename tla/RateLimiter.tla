---------------------------- MODULE RateLimiter ----------------------------
(***************************************************************************)
(* The limiter in front of /register and /login (server/ratelimit.go): a   *)
(* bucket of tokens per client address, refilled lazily, and a reaper that *)
(* drops idle buckets.                                                     *)
(*                                                                         *)
(* allow holds the mutex throughout, so an attempt is one step.  Time is   *)
(* an integer, and a level counts tokens in units of 1/Refill token, so    *)
(* that one unit of time adds one unit of level: the arithmetic is exact   *)
(* where the code's float64 is so only up to rounding.                     *)
(***************************************************************************)
EXTENDS Integers, Sequences

CONSTANTS
  Keys,     \* client addresses
  NoKey,    \* "nobody has asked yet"
  Burst,    \* rateLimiter.burst
  Refill,   \* rateLimiter.refill
  IdleTTL,  \* rateLimiter.idleTTL
  MaxTime   \* bound: how far the clock goes

Capacity == Burst * Refill

\* main.go passes 5, 12 seconds and 10 minutes.
ASSUME LimiterAssumption ==
  /\ Burst \in Nat \ {0} /\ Refill \in Nat \ {0}
  /\ IdleTTL \in Nat /\ MaxTime \in Nat
  /\ IdleTTL >= Capacity
  /\ NoKey \notin Keys

VARIABLES
  now,       \* the clock
  buckets,   \* rateLimiter.buckets
  lastReap,  \* rateLimiter.lastReap
  answer,    \* what limit last did: key, granted or not, wait
  served     \* when next(w, r) was called for each key

vars == <<now, buckets, lastReap, answer, served>>

Bucket == [tokens : 0..Capacity, lastSeen : 0..now]

LimiterTypeOK ==
  /\ now \in 0..MaxTime
  /\ DOMAIN buckets \subseteq Keys
  /\ \A k \in DOMAIN buckets : buckets[k] \in Bucket
  /\ lastReap \in {-IdleTTL} \cup (0..now)
  /\ answer \in [key : Keys \cup {NoKey}, ok : BOOLEAN, wait : 0..Refill]
  /\ served \in [Keys -> Seq(0..now)]

\* newRateLimiter.  The zero lastReap is long ago.
Init ==
  /\ now = 0
  /\ buckets = [k \in {} |-> 0]
  /\ lastReap = -IdleTTL
  /\ answer = [key |-> NoKey, ok |-> TRUE, wait |-> 0]
  /\ served = [k \in Keys |-> <<>>]

-----------------------------------------------------------------------------
ReapDue == now - lastReap >= IdleTTL

\* Mutant of Reaped: the sweep drops every bucket.
ReapedAll == IF ReapDue THEN [k \in {} |-> 0] ELSE buckets

\* Mutant of Reaped: the sweep is forgotten.
ReapedNone == buckets

\* The buckets that reap leaves.
Reaped ==
  [k \in {j \in DOMAIN buckets : ReapDue => now - buckets[j].lastSeen < IdleTTL} |-> buckets[k]]

\* Mutant of Level: the refill is not capped at the burst.
LevelUncapped(k) ==
  IF k \notin DOMAIN Reaped THEN Capacity
  ELSE Reaped[k].tokens + (now - Reaped[k].lastSeen)

\* What key k may spend: a full new bucket, or what its bucket has refilled to.
Level(k) ==
  IF k \notin DOMAIN Reaped THEN Capacity
  ELSE LET refilled == Reaped[k].tokens + (now - Reaped[k].lastSeen)
       IN  IF refilled > Capacity THEN Capacity ELSE refilled

\* The bucket of k after the attempt, and the others that are left.
Store(k, level) ==
  /\ buckets' = [j \in DOMAIN Reaped \cup {k} |->
                   IF j = k THEN [tokens |-> level, lastSeen |-> now] ELSE Reaped[j]]
  /\ lastReap' = IF ReapDue THEN now ELSE lastReap
  /\ UNCHANGED now

\* Mutant of Allow: the last fraction of a token is enough.
AllowFraction(k) ==
  /\ Level(k) > 0
  /\ Store(k, Level(k) - Refill)
  /\ answer' = [key |-> k, ok |-> TRUE, wait |-> 0]
  /\ served' = [served EXCEPT ![k] = Append(@, now)]

\* allow finds a token, and limit calls next.
Allow(k) ==
  /\ Level(k) >= Refill
  /\ Store(k, Level(k) - Refill)
  /\ answer' = [key |-> k, ok |-> TRUE, wait |-> 0]
  /\ served' = [served EXCEPT ![k] = Append(@, now)]

\* allow finds none and tells the wait; limit refuses the request.
Refuse(k) ==
  /\ Level(k) < Refill
  /\ Store(k, Level(k))
  /\ answer' = [key |-> k, ok |-> FALSE, wait |-> Refill - Level(k)]
  /\ UNCHANGED served

TimePasses ==
  /\ now < MaxTime
  /\ now' = now + 1
  /\ UNCHANGED <<buckets, lastReap, answer, served>>

Next == TimePasses \/ \E k \in Keys : Allow(k) \/ Refuse(k)

LimiterSpec == Init /\ [][Next]_vars

-----------------------------------------------------------------------------
(* Properties.                                                             *)

\* How long until the key has its whole burst again.
Debt(k) ==
  IF k \notin DOMAIN buckets THEN 0
  ELSE LET full == buckets[k].lastSeen + Capacity - buckets[k].tokens
       IN  IF full > now THEN full - now ELSE 0

\* "dropping them after this long loses no state" (ratelimit.go:25): the
\* limiter with lazy refills and a reaper answers as one that counts every
\* key's debt for ever.
Ideal == INSTANCE TokenBucket WITH debt <- [k \in Keys |-> Debt(k)]

ImplementsTokenBucket == Ideal!Spec

\* "Burst attempts back to back, then one per refill interval"
\* (PROTOCOL.md:54-55): in any stretch of time between two attempts that were
\* served, no more than the burst and what the stretch pays for were served.
WindowBound ==
  \A k \in Keys : \A i, j \in 1..Len(served[k]) :
    i <= j => (j - i + 1) * Refill <= Capacity + (served[k][j] - served[k][i])

\* "so the map doesn't grow unbounded" (ratelimit.go:87-88): although the
\* sweep is throttled, an attempt leaves no bucket that has been idle for
\* twice the TTL.
IdleBucketsGo ==
  [][buckets' # buckets =>
       \A j \in DOMAIN buckets' : now - buckets'[j].lastSeen < 2 * IdleTTL]_vars
=============================================================================
