---------------------------- MODULE TokenBucket ----------------------------
(***************************************************************************)
(* What a rate limiter with a burst and a refill interval promises, with   *)
(* no buckets to keep and none to forget: every key has a debt, which time *)
(* pays off and an attempt adds to.                                        *)
(***************************************************************************)
EXTENDS Integers

CONSTANTS
  Keys,   \* client addresses
  NoKey,  \* "nobody has asked yet"
  Burst,  \* attempts allowed back to back
  Refill  \* time that pays for one attempt

VARIABLES
  debt,   \* time until the key has its whole burst again
  answer  \* the last answer: to whom, granted or not, and how long to wait

Init ==
  /\ debt = [k \in Keys |-> 0]
  /\ answer = [key |-> NoKey, ok |-> TRUE, wait |-> 0]

Grant(k) ==
  /\ debt[k] + Refill <= Burst * Refill
  /\ debt' = [debt EXCEPT ![k] = @ + Refill]
  /\ answer' = [key |-> k, ok |-> TRUE, wait |-> 0]

Refuse(k) ==
  /\ debt[k] + Refill > Burst * Refill
  /\ answer' = [key |-> k, ok |-> FALSE, wait |-> debt[k] + Refill - Burst * Refill]
  /\ UNCHANGED debt

TimePasses ==
  /\ debt' = [k \in Keys |-> IF debt[k] = 0 THEN 0 ELSE debt[k] - 1]
  /\ UNCHANGED answer

Next == TimePasses \/ \E k \in Keys : Grant(k) \/ Refuse(k)

Spec == Init /\ [][Next]_<<debt, answer>>
=============================================================================
