-------------------------- MODULE RateLimiterProofs --------------------------
(***************************************************************************)
(* Proofs about the limiter, for any keys, burst, refill interval and any  *)
(* TTL no shorter than a whole refill.  Everything follows from one fact,  *)
(* LevelIsDebt: what a key may spend is its capacity less its debt, whether *)
(* its bucket is there, is just being swept, or has been gone for long.    *)
(***************************************************************************)
EXTENDS RateLimiter, TLAPS, SequenceTheorems

\* A bucket the last sweep left had been idle for less than the TTL then.
BucketOK(k) ==
  /\ buckets[k] \in [tokens : 0..Capacity, lastSeen : 0..now]
  /\ buckets[k].lastSeen > lastReap - IdleTTL

\* What the debt of a key says of the attempts that were served.
DebtCovers(k) ==
  \A i \in 1..Len(served[k]) :
    Debt(k) + (now - served[k][i]) >= (Len(served[k]) - i + 1) * Refill

KeyWindow(k) ==
  \A i, j \in 1..Len(served[k]) :
    i <= j => (j - i + 1) * Refill <= Capacity + (served[k][j] - served[k][i])

LimiterInv ==
  /\ now \in 0..MaxTime
  /\ DOMAIN buckets \subseteq Keys
  /\ \A k \in DOMAIN buckets : BucketOK(k)
  /\ lastReap \in {-IdleTTL} \cup (0..now)
  /\ answer \in [key : Keys \cup {NoKey}, ok : BOOLEAN, wait : 0..Refill]
  /\ served \in [Keys -> Seq(0..now)]

-----------------------------------------------------------------------------
\* A burst pays for an attempt.
LEMMA CapacityOK == Capacity \in Nat /\ Capacity >= Refill /\ Capacity > 0
  <1>1. Burst \in Nat /\ Burst >= 1 /\ Refill \in Nat /\ Refill > 0
    BY LimiterAssumption
  <1>2. Burst * Refill \in Nat /\ Burst * Refill >= Refill
    BY <1>1
  <1>. QED
    BY <1>1, <1>2 DEF Capacity

\* The bucket a sweep drops was full (ratelimit.go:24-26), so what a key may
\* spend does not depend on the sweep.
LEMMA LevelIsDebt ==
  ASSUME LimiterInv, NEW k \in Keys
  PROVE  /\ Debt(k) \in 0..Capacity
         /\ Level(k) = Capacity - Debt(k)
  <1>1. CASE k \notin DOMAIN buckets
    BY <1>1, LimiterAssumption, CapacityOK DEF Debt, Level, Reaped
  <1>2. CASE k \in DOMAIN buckets
    <2>1. /\ buckets[k].tokens \in 0..Capacity
          /\ buckets[k].lastSeen \in 0..now
          /\ now \in Nat
      BY <1>2 DEF LimiterInv, BucketOK
    <2>2. k \in DOMAIN Reaped => Reaped[k] = buckets[k]
      BY DEF Reaped
    <2>3. k \notin DOMAIN Reaped => now - buckets[k].lastSeen >= IdleTTL
      BY <1>2, <2>1, LimiterAssumption, CapacityOK DEF Reaped
    <2>. QED
      BY <1>2, <2>1, <2>2, <2>3, LimiterAssumption, CapacityOK DEF Debt, Level
  <1>. QED
    BY <1>1, <1>2

\* Writing one bucket back leaves that key the level written and moves no
\* other debt (ratelimit.go:60-99).
LEMMA StoreSetsDebt ==
  ASSUME LimiterInv, NEW k \in Keys, NEW level \in 0..Capacity, Store(k, level)
  PROVE  /\ Debt(k)' = Capacity - level
         /\ \A j \in Keys : j # k => Debt(j)' = Debt(j)
         /\ DOMAIN buckets' \subseteq Keys
         /\ \A j \in DOMAIN buckets' : BucketOK(j)'
         /\ lastReap' \in {-IdleTTL} \cup (0..now')
         /\ \A j \in DOMAIN buckets' : now - buckets'[j].lastSeen < 2 * IdleTTL
  <1>1. now \in Nat /\ now' = now
    BY DEF LimiterInv, Store
  <1>2. /\ DOMAIN buckets' = DOMAIN Reaped \cup {k}
        /\ buckets'[k] = [tokens |-> level, lastSeen |-> now]
        /\ \A j \in DOMAIN Reaped : j # k => buckets'[j] = buckets[j]
        /\ DOMAIN Reaped \subseteq DOMAIN buckets
    BY DEF Store, Reaped
  <1>3. lastReap' = IF ReapDue THEN now ELSE lastReap
    BY DEF Store
  <1>4. /\ lastReap \in {-IdleTTL} \cup (0..now)
        /\ IdleTTL \in Nat /\ Capacity \in Nat /\ IdleTTL >= Capacity /\ Capacity > 0
    BY LimiterAssumption, CapacityOK DEF LimiterInv
  <1>5. ASSUME NEW j \in DOMAIN buckets
        PROVE  /\ buckets[j].tokens \in 0..Capacity
               /\ buckets[j].lastSeen \in 0..now
               /\ buckets[j] \in [tokens : 0..Capacity, lastSeen : 0..now]
               /\ buckets[j].lastSeen > lastReap - IdleTTL
    BY DEF LimiterInv, BucketOK
  <1>6. \A j \in DOMAIN buckets :
          j \in DOMAIN Reaped <=> (ReapDue => now - buckets[j].lastSeen < IdleTTL)
    BY DEF Reaped
  <1>7. Debt(k)' = Capacity - level
    BY <1>1, <1>2, <1>4 DEF Debt
  <1>8. ASSUME NEW j \in Keys, j # k PROVE Debt(j)' = Debt(j)
    <2>1. CASE j \in DOMAIN Reaped
      BY <1>1, <1>2, <1>8, <2>1 DEF Debt
    <2>2. CASE j \in DOMAIN buckets /\ j \notin DOMAIN Reaped
      <3>1. now - buckets[j].lastSeen >= IdleTTL
        BY <1>1, <1>4, <1>5, <1>6, <2>2
      <3>2. Debt(j) = 0
        BY <1>1, <1>4, <1>5, <2>2, <3>1 DEF Debt
      <3>. QED
        BY <1>2, <1>8, <2>2, <3>2 DEF Debt
    <2>3. CASE j \notin DOMAIN buckets
      BY <1>2, <1>8, <2>3 DEF Debt
    <2>. QED
      BY <2>1, <2>2, <2>3
  <1>9. DOMAIN buckets' \subseteq Keys
    BY <1>2 DEF LimiterInv
  <1>10. ASSUME NEW j \in DOMAIN buckets'
         PROVE  BucketOK(j)' /\ now - buckets'[j].lastSeen < 2 * IdleTTL
    <2>1. CASE j = k
      BY <1>1, <1>2, <1>3, <1>4, <2>1 DEF BucketOK
    <2>2. CASE j # k
      <3>1. j \in DOMAIN buckets /\ buckets'[j] = buckets[j] /\ j \in DOMAIN Reaped
        BY <1>2, <2>2
      <3>2. buckets[j].lastSeen > lastReap' - IdleTTL
        BY <1>1, <1>3, <1>4, <1>5, <1>6, <3>1
      <3>3. now - buckets[j].lastSeen < 2 * IdleTTL
        BY <1>1, <1>3, <1>4, <1>5, <1>6, <3>1 DEF ReapDue
      <3>. QED
        BY <1>1, <1>5, <3>1, <3>2, <3>3 DEF BucketOK
    <2>. QED
      BY <2>1, <2>2
  <1>11. lastReap' \in {-IdleTTL} \cup (0..now')
    BY <1>1, <1>3, <1>4
  <1>. QED
    BY <1>7, <1>8, <1>9, <1>10, <1>11

\* An answered attempt keeps the types (ratelimit.go:81-84, 107-111).
LEMMA AttemptKeeps ==
  ASSUME LimiterInv, NEW k \in Keys, Allow(k) \/ Refuse(k)
  PROVE  /\ LimiterInv'
         /\ \A j \in DOMAIN buckets' : now - buckets'[j].lastSeen < 2 * IdleTTL
  <1>1. /\ Debt(k) \in 0..Capacity /\ Level(k) = Capacity - Debt(k)
        /\ Capacity \in Nat /\ Refill \in Nat /\ Refill > 0 /\ now' = now /\ now \in Nat
    BY LevelIsDebt, LimiterAssumption, CapacityOK DEF LimiterInv, Allow, Refuse, Store
  <1>2. PICK level \in 0..Capacity : Store(k, level)
    BY <1>1 DEF Allow, Refuse
  <1>3. answer' \in [key : Keys \cup {NoKey}, ok : BOOLEAN, wait : 0..Refill]
    <2>1. CASE Allow(k)
      BY <1>1, <2>1 DEF Allow
    <2>2. CASE Refuse(k)
      <3>1. Refill - Level(k) \in 0..Refill
        BY <1>1, <2>2 DEF Refuse
      <3>. QED
        BY <2>2, <3>1 DEF Refuse
    <2>. QED
      BY <2>1, <2>2
  <1>4. served' \in [Keys -> Seq(0..now')]
    <2>1. CASE Allow(k)
      <3>1. Append(served[k], now) \in Seq(0..now)
        BY <1>1 DEF LimiterInv
      <3>. QED
        BY <1>1, <2>1, <3>1 DEF Allow, LimiterInv
    <2>2. CASE Refuse(k)
      BY <1>1, <2>2 DEF Refuse, LimiterInv
    <2>. QED
      BY <2>1, <2>2
  <1>. QED
    BY <1>1, <1>2, <1>3, <1>4, StoreSetsDebt DEF LimiterInv

\* As time passes everything seen and served stays in the past.
LEMMA TimeKeeps ==
  ASSUME LimiterInv, TimePasses
  PROVE  LimiterInv'
  <1>1. now \in Nat /\ MaxTime \in Nat /\ now' = now + 1 /\ now' \in 0..MaxTime
    BY LimiterAssumption, CapacityOK DEF LimiterInv, TimePasses
  <1>2. \A k \in DOMAIN buckets' : BucketOK(k)'
    BY <1>1 DEF LimiterInv, TimePasses, BucketOK
  <1>3. served' \in [Keys -> Seq(0..now')]
    <2>1. 0..now \subseteq 0..now'
      BY <1>1
    <2>2. ASSUME NEW k \in Keys PROVE served[k] \in Seq(0..now')
      <3>1. served[k] \in Seq(0..now)
        BY DEF LimiterInv
      <3>. QED
        BY <2>1, <3>1, SeqMonotonic
    <2>. QED
      BY <2>2 DEF LimiterInv, TimePasses
  <1>. QED
    BY <1>1, <1>2, <1>3, LimiterAssumption, CapacityOK DEF LimiterInv, TimePasses

\* The types hold at first, and every step keeps them.
LEMMA LimiterInvHolds ==
  /\ Init => LimiterInv
  /\ LimiterInv /\ [Next]_vars => LimiterInv'
  <1>1. Init => LimiterInv
    BY LimiterAssumption, CapacityOK DEF Init, LimiterInv
  <1>2. ASSUME LimiterInv, UNCHANGED vars PROVE LimiterInv'
    BY <1>2 DEF LimiterInv, BucketOK, vars
  <1>. QED
    BY <1>1, <1>2, AttemptKeeps, TimeKeeps DEF Next

\* Levels, sweeps and answers keep their shape (ratelimit.go:30-45).
THEOREM LimiterTypeCorrect == LimiterSpec => []LimiterTypeOK
  <1>1. LimiterInv => LimiterTypeOK
    BY DEF LimiterInv, LimiterTypeOK, BucketOK, Bucket
  <1>. QED
    BY <1>1, LimiterInvHolds, PTL DEF LimiterSpec

\* No attempt leaves a bucket that has been idle for twice the TTL
\* (ratelimit.go:87-99).
THEOREM ReaperKeepsUp == LimiterSpec => IdleBucketsGo
  <1>. DEFINE Swept == buckets' # buckets =>
                 \A j \in DOMAIN buckets' : now - buckets'[j].lastSeen < 2 * IdleTTL
  <1>1. LimiterInv /\ [Next]_vars => Swept
    <2>1. [Next]_vars /\ buckets' # buckets => \E k \in Keys : Allow(k) \/ Refuse(k)
      BY DEF Next, TimePasses, vars
    <2>. QED
      BY <2>1, AttemptKeeps
  <1>. QED
    BY <1>1, LimiterInvHolds, PTL DEF LimiterSpec, IdleBucketsGo

-----------------------------------------------------------------------------
(* The limiter is a token bucket that never forgets.                       *)

IdealDebt == [k \in Keys |-> Debt(k)]

\* One step of the limiter is one step of the ideal one, sweeps included
\* (ratelimit.go:60-99).
LEMMA IdealStep ==
  ASSUME LimiterInv, [Next]_vars
  PROVE  [Ideal!Next]_<<IdealDebt, answer>>
  <1>. USE DEF IdealDebt
  <1>1. Capacity = Burst * Refill /\ Capacity \in Nat /\ Refill \in Nat
    BY LimiterAssumption, CapacityOK DEF Capacity
  <1>2. ASSUME NEW k \in Keys, Allow(k) PROVE Ideal!Grant(k)
    <2>1. /\ Debt(k) \in 0..Capacity
          /\ Level(k) = Capacity - Debt(k)
          /\ Level(k) >= Refill /\ Store(k, Level(k) - Refill)
      BY <1>2, LevelIsDebt DEF Allow
    <2>2. Level(k) - Refill \in 0..Capacity
      BY <1>1, <2>1
    <2>3. /\ Debt(k)' = Capacity - (Level(k) - Refill)
          /\ \A j \in Keys : j # k => Debt(j)' = Debt(j)
      BY <2>1, <2>2, StoreSetsDebt
    <2>4. IdealDebt' = [IdealDebt EXCEPT ![k] = IdealDebt[k] + Refill]
      <3>1. Debt(k)' = Debt(k) + Refill
        BY <1>1, <2>1, <2>3
      <3>. QED
        BY <2>3, <3>1
    <2>5. IdealDebt[k] + Refill <= Burst * Refill
      BY <1>1, <2>1
    <2>6. answer' = [key |-> k, ok |-> TRUE, wait |-> 0]
      BY <1>2 DEF Allow
    <2>. QED
      BY <2>4, <2>5, <2>6 DEF Ideal!Grant
  <1>3. ASSUME NEW k \in Keys, Refuse(k) PROVE Ideal!Refuse(k)
    <2>1. /\ Debt(k) \in 0..Capacity
          /\ Level(k) = Capacity - Debt(k)
          /\ Level(k) < Refill /\ Store(k, Level(k))
      BY <1>3, LevelIsDebt DEF Refuse
    <2>2. Level(k) \in 0..Capacity
      BY <1>1, <2>1
    <2>3. /\ Debt(k)' = Capacity - Level(k)
          /\ \A j \in Keys : j # k => Debt(j)' = Debt(j)
      BY <2>1, <2>2, StoreSetsDebt
    <2>4. UNCHANGED IdealDebt
      BY <1>1, <2>1, <2>3
    <2>5. IdealDebt[k] + Refill > Burst * Refill
      BY <1>1, <2>1
    <2>6. Refill - Level(k) = IdealDebt[k] + Refill - Burst * Refill
      BY <1>1, <2>1
    <2>7. answer' = [key |-> k, ok |-> FALSE,
                     wait |-> IdealDebt[k] + Refill - Burst * Refill]
      BY <1>3, <2>6 DEF Refuse
    <2>. QED
      BY <2>4, <2>5, <2>7 DEF Ideal!Refuse
  <1>4. CASE TimePasses
    <2>1. ASSUME NEW k \in Keys
          PROVE  Debt(k)' = IF Debt(k) = 0 THEN 0 ELSE Debt(k) - 1
      <3>1. /\ buckets' = buckets /\ now' = now + 1 /\ now \in Nat
            /\ k \in DOMAIN buckets => /\ buckets[k].tokens \in 0..Capacity
                                       /\ buckets[k].lastSeen \in 0..now
        BY <1>4 DEF TimePasses, LimiterInv, BucketOK
      <3>. QED
        BY <1>1, <3>1 DEF Debt
    <2>2. IdealDebt' = [k \in Keys |-> IF IdealDebt[k] = 0 THEN 0 ELSE IdealDebt[k] - 1]
      BY <2>1
    <2>. QED
      BY <1>4, <2>2 DEF TimePasses, Ideal!TimePasses, Ideal!Next
  <1>5. CASE UNCHANGED vars
    BY <1>5 DEF vars, Debt
  <1>. QED
    BY <1>2, <1>3, <1>4, <1>5 DEF Next, Ideal!Next

\* "dropping them after this long loses no state" (ratelimit.go:24-26): for
\* every TTL of at least a whole refill the limiter is a token bucket that
\* remembers every address.
THEOREM LimiterIsTokenBucket == LimiterSpec => ImplementsTokenBucket
  <1>1. Init => Ideal!Init
    BY DEF Init, Ideal!Init, Debt
  <1>2. LimiterInv /\ [Next]_vars =>
          [Ideal!Next]_<<IdealDebt, answer>>
    BY IdealStep
  <1>. QED
    BY <1>1, <1>2, LimiterInvHolds, PTL
    DEF LimiterSpec, ImplementsTokenBucket, Ideal!Spec, IdealDebt

-----------------------------------------------------------------------------
(* How many attempts are served.                                           *)

WindowInv == \A k \in Keys : DebtCovers(k) /\ KeyWindow(k)

\* A key's history and debt, when neither changes or only time passes.
LEMMA WindowStays ==
  ASSUME LimiterInv, NEW k \in Keys, DebtCovers(k), KeyWindow(k),
         served'[k] = served[k], Debt(k)' \in Int,
         Debt(k)' + now' >= Debt(k) + now, now' \in Nat
  PROVE  DebtCovers(k)' /\ KeyWindow(k)'
  <1>1. Debt(k) \in Int /\ now \in Nat /\ Refill \in Nat
    BY LevelIsDebt, LimiterAssumption, CapacityOK DEF LimiterInv
  <1>2. ASSUME NEW i \in 1..Len(served[k]) PROVE served[k][i] \in Nat
    <2>1. served[k] \in Seq(0..now)
      BY DEF LimiterInv
    <2>. QED
      BY SMTT(30), <1>1, <1>2, <2>1, ElementOfSeq
  <1>3. DebtCovers(k)'
    <2>. SUFFICES ASSUME NEW i \in 1..Len(served[k])
                  PROVE  Debt(k)' + (now' - served[k][i]) >= (Len(served[k]) - i + 1) * Refill
      BY DEF DebtCovers
    <2>. DEFINE owed == (Len(served[k]) - i + 1) * Refill
    <2>1. Debt(k) + (now - served[k][i]) >= owed
      BY DEF DebtCovers
    <2>2. Len(served[k]) \in Nat
      BY DEF LimiterInv
    <2>3. owed \in Int
      BY SMTT(30), <1>1, <2>2
    <2>. HIDE DEF owed
    <2>4. Debt(k)' + (now' - served[k][i]) >= owed
      BY SMTT(30), <1>1, <1>2, <2>1, <2>3
    <2>. QED
      BY <2>4 DEF owed
  <1>. QED
    BY <1>3 DEF KeyWindow

\* One more attempt is served: the debt it adds is what it may add to every
\* window (ratelimit.go:81-84).
LEMMA WindowGrows ==
  ASSUME LimiterInv, NEW k \in Keys, DebtCovers(k), KeyWindow(k), Allow(k)
  PROVE  DebtCovers(k)' /\ KeyWindow(k)'
  <1>. DEFINE n == Len(served[k])
  <1>1. /\ Debt(k) \in 0..Capacity /\ Level(k) = Capacity - Debt(k)
        /\ Capacity \in Nat /\ Refill \in Nat /\ now \in Nat
        /\ Level(k) >= Refill /\ Store(k, Level(k) - Refill)
    BY LevelIsDebt, LimiterAssumption, CapacityOK DEF LimiterInv, Allow
  <1>2. Debt(k)' = Debt(k) + Refill /\ Debt(k) + Refill <= Capacity /\ now' = now
    <2>1. Level(k) - Refill \in 0..Capacity
      BY <1>1
    <2>. QED
      BY <1>1, <2>1, StoreSetsDebt DEF Store
  <1>3. /\ served[k] \in Seq(0..now) /\ n \in Nat
        /\ served'[k] = Append(served[k], now)
    BY DEF LimiterInv, Allow
  <1>4. /\ Len(served'[k]) = n + 1
        /\ served'[k][n + 1] = now
        /\ \A i \in 1..n : served'[k][i] = served[k][i] /\ served[k][i] \in 0..now
    <2>1. \A i \in 1..n : served[k][i] \in 0..now
      BY <1>3, ElementOfSeq
    <2>2. now \in 0..now
      BY <1>1
    <2>. HIDE DEF n
    <2>3. n = Len(served[k])
      BY DEF n
    <2>. QED
      BY <1>3, <2>1, <2>2, <2>3, AppendProperties
  <1>5. ASSUME NEW i \in 1..n
        PROVE  Debt(k) + Refill + (now - served[k][i]) >= (n + 1 - i + 1) * Refill
    <2>. DEFINE owed == (n - i + 1) * Refill
                later == (n + 1 - i + 1) * Refill
    <2>1. Debt(k) + (now - served[k][i]) >= owed
      BY DEF DebtCovers
    <2>2. owed \in Int /\ later = owed + Refill
      BY <1>1, <1>3
    <2>3. served[k][i] \in Int
      BY SMTT(30), <1>1, <1>4
    <2>. HIDE DEF owed, later
    <2>4. Debt(k) + Refill + (now - served[k][i]) >= later
      BY SMTT(30), <1>1, <2>1, <2>2, <2>3
    <2>. QED
      BY <2>4 DEF later
  <1>6. DebtCovers(k)'
    <2>. SUFFICES ASSUME NEW i \in 1..(n + 1)
                  PROVE  Debt(k)' + (now' - served'[k][i]) >= (n + 1 - i + 1) * Refill
      BY <1>4 DEF DebtCovers
    <2>1. CASE i = n + 1
      <3>1. (n + 1 - i + 1) * Refill = Refill
        BY <1>1, <1>3, <2>1
      <3>2. now' - served'[k][i] = 0
        BY SMTT(30), <1>1, <1>2, <1>4, <2>1
      <3>. QED
        BY SMTT(30), <1>1, <1>2, <3>1, <3>2
    <2>2. CASE i \in 1..n
      BY <1>2, <1>4, <1>5, <2>2
    <2>. QED
      BY <1>3, <2>1, <2>2
  <1>7. KeyWindow(k)'
    <2>. SUFFICES ASSUME NEW i \in 1..(n + 1), NEW j \in 1..(n + 1), i <= j
                  PROVE  (j - i + 1) * Refill <= Capacity + (served'[k][j] - served'[k][i])
      BY <1>4 DEF KeyWindow, Capacity
    <2>1. CASE j \in 1..n
      <3>1. i \in 1..n
        BY <1>3, <2>1
      <3>. QED
        BY <1>4, <2>1, <3>1 DEF KeyWindow
    <2>2. CASE j = n + 1 /\ i = n + 1
      <3>1. (j - i + 1) * Refill = Refill
        BY SMTT(30), <1>1, <1>3, <2>2
      <3>2. Refill <= Capacity
        BY <1>1, <1>2
      <3>3. served'[k][j] - served'[k][i] = 0
        BY SMTT(30), <1>1, <1>4, <2>2
      <3>. QED
        BY SMTT(30), <1>1, <3>1, <3>2, <3>3
    <2>3. CASE j = n + 1 /\ i \in 1..n
      <3>. DEFINE owed == (n + 1 - i + 1) * Refill
      <3>1. owed \in Int /\ (j - i + 1) * Refill = owed
        BY <1>1, <1>3, <2>3
      <3>2. Debt(k) + Refill + (now - served[k][i]) >= owed
        BY <1>5, <2>3
      <3>3. served'[k][j] = now /\ served'[k][i] = served[k][i] /\ served[k][i] \in Int
        BY SMTT(30), <1>1, <1>4, <2>3
      <3>. HIDE DEF owed
      <3>4. owed <= Capacity + (now - served[k][i])
        <4>1. /\ Debt(k) \in Int /\ Capacity \in Int /\ Refill \in Int /\ now \in Int
              /\ Debt(k) + Refill <= Capacity
          BY <1>1, <1>2
        <4>2. \A debt, cap, refill, t, s, o \in Int :
                debt + refill <= cap /\ debt + refill + (t - s) >= o => o <= cap + (t - s)
          OBVIOUS
        <4>. QED
          BY <3>1, <3>2, <3>3, <4>1, <4>2
      <3>5. owed <= Capacity + (served'[k][j] - served'[k][i])
        BY <3>3, <3>4
      <3>. QED
        BY <3>1, <3>5
    <2>. QED
      BY <1>3, <2>1, <2>2, <2>3
  <1>. QED
    BY <1>6, <1>7

\* Every step keeps every key's windows bounded.
LEMMA WindowStep ==
  ASSUME LimiterInv, WindowInv, [Next]_vars
  PROVE  WindowInv'
  <1>. SUFFICES ASSUME NEW j \in Keys PROVE DebtCovers(j)' /\ KeyWindow(j)'
    BY DEF WindowInv
  <1>1. /\ DebtCovers(j) /\ KeyWindow(j) /\ Debt(j) \in 0..Capacity
        /\ Capacity \in Nat /\ Refill \in Nat /\ now \in Nat
    BY LevelIsDebt, LimiterAssumption, CapacityOK DEF WindowInv, LimiterInv
  <1>2. ASSUME NEW k \in Keys, Allow(k) \/ Refuse(k), k # j
        PROVE  DebtCovers(j)' /\ KeyWindow(j)'
    <2>1. /\ Level(k) = Capacity - Debt(k) /\ Debt(k) \in 0..Capacity
      BY LevelIsDebt
    <2>2. PICK level \in 0..Capacity : Store(k, level)
      BY <1>1, <1>2, <2>1 DEF Allow, Refuse
    <2>3. Debt(j)' = Debt(j) /\ now' = now /\ served'[j] = served[j]
      BY <1>2, <2>2, StoreSetsDebt DEF Store, Allow, Refuse, LimiterInv
    <2>. QED
      BY <1>1, <2>3, WindowStays
  <1>3. CASE Refuse(j)
    <2>1. Level(j) \in 0..Capacity /\ Level(j) = Capacity - Debt(j)
      BY <1>1, LevelIsDebt
    <2>2. Debt(j)' = Debt(j) /\ now' = now /\ served'[j] = served[j]
      BY <1>1, <1>3, <2>1, StoreSetsDebt DEF Refuse, Store
    <2>. QED
      BY <1>1, <2>2, WindowStays
  <1>4. CASE TimePasses
    <2>1. /\ buckets' = buckets /\ now' = now + 1 /\ served' = served
          /\ j \in DOMAIN buckets => /\ buckets[j].tokens \in 0..Capacity
                                     /\ buckets[j].lastSeen \in 0..now
      BY <1>4 DEF TimePasses, LimiterInv, BucketOK
    <2>2. Debt(j)' \in Int /\ Debt(j)' + now' >= Debt(j) + now
      BY <1>1, <2>1 DEF Debt
    <2>. QED
      BY <1>1, <2>1, <2>2, WindowStays
  <1>5. CASE UNCHANGED vars
    BY <1>1, <1>5 DEF vars, DebtCovers, KeyWindow, Debt
  <1>. QED
    BY <1>1, <1>2, <1>3, <1>4, <1>5, WindowGrows DEF Next

\* No stretch of time sees more attempts served than the burst and what the
\* stretch pays for, reaper or not (PROTOCOL.md:54-55).
THEOREM ServedWithinRate == LimiterSpec => []WindowBound
  <1>1. Init => WindowInv
    <2>1. ASSUME Init, NEW k \in Keys PROVE Len(served[k]) = 0
      BY <2>1 DEF Init
    <2>2. ASSUME Init, NEW k \in Keys PROVE 1..Len(served[k]) = {}
      BY <2>1, <2>2
    <2>. QED
      BY <2>2 DEF WindowInv, DebtCovers, KeyWindow
  <1>2. LimiterInv /\ WindowInv /\ [Next]_vars => WindowInv'
    BY WindowStep
  <1>3. WindowInv => WindowBound
    BY DEF WindowInv, KeyWindow, WindowBound
  <1>. QED
    BY <1>1, <1>2, <1>3, LimiterInvHolds, PTL DEF LimiterSpec
=============================================================================
