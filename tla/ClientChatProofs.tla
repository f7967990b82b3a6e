-------------------------- MODULE ClientChatProofs --------------------------
(***************************************************************************)
(* Proofs about a conversation: the invariants of ClientChatInvariants are *)
(* inductive, and the properties follow from them.                         *)
(*                                                                         *)
(* The lemmas follow the code: what the loops of the client do to a list   *)
(* of entries (Marked, Acks, MergeInitialHistory, MarkTick), what the      *)
(* server reads from its table (HistoryPage), what any step leaves alone   *)
(* and where the frames and rows it leaves come from, then the invariants, *)
(* with one lemma per handler where a step has to be looked into.          *)
(***************************************************************************)
EXTENDS ClientChatInvariants, FiniteSetTheorems, FunctionTheorems, SequenceTheorems, TLAPS

LEMMA BelowGrows ==
  ASSUME NEW D \in SUBSET Int, IsFiniteSet(D), NEW i \in D, NEW j \in D, i < j
  PROVE  Cardinality(Below(D, i)) < Cardinality(Below(D, j))
<1>1. IsFiniteSet(Below(D, i)) /\ IsFiniteSet(Below(D, j))  BY FS_Subset DEF Below
<1>2. Below(D, i) \in SUBSET Below(D, j)
  <2>1. \A x \in D : x \in Int  OBVIOUS
  <2>2. \A x \in D : x < i => x < j  BY <2>1
  <2>3. QED BY <2>2 DEF Below
<1>3. i \in Below(D, j) /\ i \notin Below(D, i)  BY DEF Below
<1>4. QED BY <1>1, <1>2, <1>3, FS_Subset, FS_CardinalityType

LEMMA BelowBound ==
  ASSUME NEW D \in SUBSET Int, IsFiniteSet(D), NEW i \in D
  PROVE  /\ IsFiniteSet(Below(D, i))
         /\ Cardinality(D) \in Nat
         /\ Cardinality(Below(D, i)) \in 0..(Cardinality(D) - 1)
<1>1. IsFiniteSet(Below(D, i)) /\ Cardinality(Below(D, i)) <= Cardinality(D)  BY FS_Subset DEF Below
<1>2. Below(D, i) \in SUBSET D /\ Below(D, i) # D  BY DEF Below
<1>3. QED BY <1>1, <1>2, FS_Subset, FS_CardinalityType

LEMMA AscendingSorts ==
  ASSUME NEW D \in SUBSET Int, IsFiniteSet(D)
  PROVE  /\ Cardinality(D) \in Nat
         /\ Ascending(D) \in [1..Cardinality(D) -> D]
         /\ \A i \in D : \E k \in 1..Cardinality(D) : Ascending(D)[k] = i
         /\ \A k, l \in 1..Cardinality(D) : k < l => Ascending(D)[k] < Ascending(D)[l]
         /\ \A k \in 1..Cardinality(D) : Cardinality(Below(D, Ascending(D)[k])) = k - 1
<1> DEFINE n == Cardinality(D)
           rank == [i \in D |-> Cardinality(Below(D, i))]
           T == 0..(n - 1)
<1>1. n \in Nat  BY FS_CardinalityType
<1>2. rank \in [D -> T]  BY BelowBound
<1>3. \A i, j \in D : i < j => rank[i] < rank[j]  BY BelowGrows
<1>4. rank \in Injection(D, T)
  <2>1. \A i, j \in D : rank[i] = rank[j] => i = j
    <3>1. SUFFICES ASSUME NEW i \in D, NEW j \in D, rank[i] = rank[j], i # j PROVE FALSE  OBVIOUS
    <3>2. rank[i] \in Int /\ rank[j] \in Int  BY <1>1, <1>2
    <3>3. i < j \/ j < i  BY <3>1
    <3>4. QED BY <1>3, <3>1, <3>2, <3>3
  <2>2. QED BY <1>2, <2>1, Fun_IsInj DEF Injection, IsInjective
<1>5. IsFiniteSet(T) /\ Cardinality(T) = n  BY <1>1, FS_Interval
<1>6. rank \in Surjection(D, T)  BY <1>4, <1>5, FS_Injection
<1>7. \A t \in T : \E i \in D : rank[i] = t  BY <1>6 DEF Surjection
<1>8. ASSUME NEW k \in 1..n
      PROVE  Ascending(D)[k] \in D /\ Cardinality(Below(D, Ascending(D)[k])) = k - 1
  <2>1. k - 1 \in T  BY <1>1
  <2>2. \E i \in D : Cardinality({j \in D : j < i}) = k - 1  BY <1>7, <2>1 DEF Below
  <2>3. Ascending(D)[k] = CHOOSE i \in D : Cardinality({j \in D : j < i}) = k - 1  BY DEF Ascending
  <2>4. QED BY <2>2, <2>3 DEF Below
<1>9. Ascending(D) \in [1..n -> D]  BY <1>8 DEF Ascending
<1>10. \A i \in D : \E k \in 1..n : Ascending(D)[k] = i
  <2>1. TAKE i \in D
  <2>2. rank[i] \in T /\ rank[i] + 1 \in 1..n  BY <1>1, <1>2
  <2>3. rank[Ascending(D)[rank[i] + 1]] = rank[i] /\ Ascending(D)[rank[i] + 1] \in D
    BY <1>1, <1>8, <2>2
  <2>4. Ascending(D)[rank[i] + 1] = i  BY <1>4, <2>3 DEF Injection, IsInjective
  <2>5. QED BY <2>2, <2>4
<1>11. \A k, l \in 1..n : k < l => Ascending(D)[k] < Ascending(D)[l]
  <2>1. SUFFICES ASSUME NEW k \in 1..n, NEW l \in 1..n, k < l,
                        ~(Ascending(D)[k] < Ascending(D)[l])
                 PROVE  FALSE
    OBVIOUS
  <2>2. PICK i \in D : i = Ascending(D)[k]  BY <1>8
  <2>3. PICK j \in D : j = Ascending(D)[l]  BY <1>8
  <2>4. Cardinality(Below(D, i)) = k - 1 /\ Cardinality(Below(D, j)) = l - 1  BY <1>8, <2>2, <2>3
  <2>5. i = j \/ j < i  BY <2>1, <2>2, <2>3
  <2>6. CASE i = j  BY <2>1, <2>4, <2>6
  <2>7. CASE j < i  BY <2>1, <2>4, <2>7, BelowGrows
  <2>8. QED BY <2>5, <2>6, <2>7
<1>12. QED BY <1>1, <1>8, <1>9, <1>10, <1>11

-----------------------------------------------------------------------------
(* The loop of markConversationRead and resendPendingReadAcks.             *)

LEMMA AcceptedFew ==
  ASSUME NEW D \in SUBSET Int, IsFiniteSet(D), NEW n \in Nat
  PROVE  /\ Accepted(D, n) \in SUBSET D
         /\ IsFiniteSet(Accepted(D, n))
         /\ Cardinality(Accepted(D, n)) <= n
<1> DEFINE A == Accepted(D, n)
           rank == [i \in A |-> Cardinality(Below(D, i))]
           T == 0..(n - 1)
<1>1. A \in SUBSET D  BY DEF Accepted
<1>2. IsFiniteSet(A)  BY <1>1, FS_Subset
<1>3. \A i \in A : Cardinality(Below(D, i)) \in T  BY <1>1, BelowBound DEF Accepted, Below
<1>4. \A i, j \in A : i < j => rank[i] < rank[j]  BY <1>1, BelowGrows
<1>5. \A i, j \in A : rank[i] = rank[j] => i = j
  <2>1. SUFFICES ASSUME NEW i \in A, NEW j \in A, rank[i] = rank[j], i # j PROVE FALSE  OBVIOUS
  <2>2. rank[i] \in Int /\ rank[j] \in Int  BY <1>3
  <2>3. i < j \/ j < i
    <3>1. i \in D /\ j \in D  BY <1>1
    <3>2. i \in Int /\ j \in Int  BY <3>1
    <3>3. QED BY <2>1, <3>2
  <2>4. QED BY <1>4, <2>1, <2>2, <2>3
<1>6. rank \in Injection(A, T)  BY <1>3, <1>5, Fun_IsInj DEF Injection, IsInjective
<1>7. IsFiniteSet(T) /\ Cardinality(T) = n  BY FS_Interval
<1>8. Cardinality(A) <= n  BY <1>6, <1>7, FS_Injection
<1>9. QED BY <1>1, <1>2, <1>8

LEMMA AcksAre ==
  ASSUME NEW ms \in Seq(EntryT), NEW D \in SUBSET DOMAIN ms, NEW n \in Nat
  PROVE  /\ Acks(ms, D, n) \in Seq({AckRead(ms[i].id) : i \in Accepted(D, n)})
         /\ Len(Acks(ms, D, n)) \in Nat /\ Len(Acks(ms, D, n)) <= n
         /\ \A k \in 1..Len(Acks(ms, D, n)) : \E i \in Accepted(D, n) :
              Acks(ms, D, n)[k] = AckRead(ms[i].id)
         /\ \A i \in Accepted(D, n) : \E k \in 1..Len(Acks(ms, D, n)) :
              Acks(ms, D, n)[k] = AckRead(ms[i].id)
<1> DEFINE A == Accepted(D, n)
<1>1. D \in SUBSET Int /\ IsFiniteSet(D)
  <2>1. DOMAIN ms = 1..Len(ms) /\ Len(ms) \in Nat  OBVIOUS
  <2>2. IsFiniteSet(1..Len(ms))  BY <2>1, FS_Interval
  <2>3. QED BY <2>1, <2>2, FS_Subset
<1>2. A \in SUBSET D /\ IsFiniteSet(A) /\ Cardinality(A) <= n  BY <1>1, AcceptedFew
<1>3. A \in SUBSET Int  BY <1>1, <1>2
<1>4. /\ Cardinality(A) \in Nat
      /\ Ascending(A) \in [1..Cardinality(A) -> A]
      /\ \A i \in A : \E k \in 1..Cardinality(A) : Ascending(A)[k] = i
  BY <1>2, <1>3, AscendingSorts
<1>5. PICK m \in Nat : m = Cardinality(A)  BY <1>4
<1>6. Acks(ms, D, n) = [k \in 1..m |-> AckRead(ms[Ascending(A)[k]].id)]  BY <1>5 DEF Acks
<1>7. \A k \in 1..m : Ascending(A)[k] \in A  BY <1>4, <1>5
<1>8. Acks(ms, D, n) \in Seq({AckRead(ms[i].id) : i \in A}) /\ Len(Acks(ms, D, n)) = m
  BY <1>6, <1>7
<1>9. \A i \in A : \E k \in 1..m : Acks(ms, D, n)[k] = AckRead(ms[i].id)  BY <1>4, <1>5, <1>6
<1>10. \A k \in 1..m : \E i \in A : Acks(ms, D, n)[k] = AckRead(ms[i].id)  BY <1>6, <1>7
<1>11. QED BY <1>2, <1>5, <1>8, <1>9, <1>10

LEMMA MarkedKeeps ==
  ASSUME NEW ms \in Seq(EntryT), NEW D, NEW n
  PROVE  /\ Marked(ms, D, n) \in Seq(EntryT)
         /\ SameFaces(ms, Marked(ms, D, n))
         /\ \A i \in 1..Len(ms) : i \notin D => Marked(ms, D, n)[i] = ms[i]
         /\ \A i \in 1..Len(ms) : i \in D => /\ Marked(ms, D, n)[i].seen = TRUE
                                             /\ Marked(ms, D, n)[i].sent = (i \in Accepted(D, n))
<1>1. PICK l \in Nat : l = Len(ms)  OBVIOUS
<1>2. DOMAIN ms = 1..l /\ \A i \in 1..l : ms[i] \in EntryT  BY <1>1
<1>3. Marked(ms, D, n) =
        [i \in 1..l |-> IF i \in D
                        THEN [ms[i] EXCEPT !.seen = TRUE, !.sent = i \in Accepted(D, n)]
                        ELSE ms[i]]
  BY <1>2 DEF Marked
<1>4. ASSUME NEW i \in 1..l
      PROVE  /\ Marked(ms, D, n)[i] \in EntryT
             /\ Marked(ms, D, n)[i].id = ms[i].id /\ Marked(ms, D, n)[i].cm = ms[i].cm
             /\ Marked(ms, D, n)[i].at = ms[i].at /\ Marked(ms, D, n)[i].mine = ms[i].mine
             /\ Marked(ms, D, n)[i].tick = ms[i].tick
             /\ i \notin D => Marked(ms, D, n)[i] = ms[i]
             /\ i \in D => /\ Marked(ms, D, n)[i].seen = TRUE
                           /\ Marked(ms, D, n)[i].sent = (i \in Accepted(D, n))
  <2>1. ms[i] \in EntryT  BY <1>2
  <2>2. CASE i \in D
    <3>1. Marked(ms, D, n)[i] = [ms[i] EXCEPT !.seen = TRUE, !.sent = i \in Accepted(D, n)]
      BY <1>3, <2>2
    <3>2. (i \in Accepted(D, n)) \in BOOLEAN  OBVIOUS
    <3>3. QED BY <2>1, <2>2, <3>1, <3>2 DEF EntryT
  <2>3. CASE i \notin D  BY <1>3, <2>1, <2>3
  <2>4. QED BY <2>2, <2>3
<1>5. Marked(ms, D, n) \in Seq(EntryT) /\ Len(Marked(ms, D, n)) = l
  <2>1. PICK f : f = Marked(ms, D, n)  OBVIOUS
  <2>2. f \in [1..l -> EntryT]
    <3>1. DOMAIN f = 1..l /\ f = [i \in DOMAIN f |-> f[i]]  BY <1>3, <2>1
    <3>2. QED BY <1>4, <2>1, <3>1
  <2>3. QED BY <2>1, <2>2
<1>6. QED BY <1>1, <1>4, <1>5 DEF SameFaces

-----------------------------------------------------------------------------
(* The shape of the state.                                                 *)

LEMMA ServerFrameIs ==
  ASSUME NEW f \in ServerFrame
  PROVE  /\ f.type \in {"contact_list", "message", "message_ack", "ack_read", "history_response"}
         /\ f.type = "contact_list" => f = List
         /\ f.type = "message" => f.id \in Id /\ f = Message(f.id)
         /\ f.type = "message_ack" => f.cm \in Nat /\ f.id \in Id /\ f = MessageAck(f.cm, f.id)
         /\ f.type = "ack_read" => f.id \in Id /\ f = AckRead(f.id)
         /\ f.type = "history_response" =>
              f \in Pages /\ f.messages \in Seq(Item) /\ f = HistoryResponse(f.messages)
BY DEF ServerFrame, List, Message, MessageAck, AckRead, Pages, HistoryResponse

LEMMA ClientFrameIs ==
  ASSUME NEW f \in ClientFrame
  PROVE  /\ f.type \in {"ack_read", "message", "history_request"}
         /\ f.type = "ack_read" => f.id \in Id /\ f = AckRead(f.id)
         /\ f.type = "message" => f.cm \in Nat /\ f = Send(f.cm)
         /\ f.type = "history_request" => f.before \in Int /\ f = HistoryRequest(f.before)
BY DEF ClientFrame, AckRead, Send, HistoryRequest

LEMMA MakesServerFrame ==
  /\ List \in ServerFrame
  /\ \A id \in Id : Message(id) \in ServerFrame /\ AckRead(id) \in ServerFrame
  /\ \A id \in Id, cm \in Nat : MessageAck(cm, id) \in ServerFrame
  /\ \A ms \in Seq(Item) : HistoryResponse(ms) \in Pages
  /\ \A p \in Pages : p \in ServerFrame /\ p.type = "history_response"
BY DEF ServerFrame, Pages, HistoryResponse

LEMMA MakesClientFrame ==
  /\ \A id \in Id : AckRead(id) \in ClientFrame
  /\ \A cm \in Nat : Send(cm) \in ClientFrame
  /\ \A b \in Int : HistoryRequest(b) \in ClientFrame
BY DEF ClientFrame

-----------------------------------------------------------------------------
(* What the server reads from the table.                                   *)

LEMMA FunIsSeq ==
  ASSUME NEW S, NEW n \in Nat, NEW f \in [1..n -> S]
  PROVE  f \in Seq(S) /\ Len(f) = n
OBVIOUS

LEMMA RowsFinite ==
  ASSUME rows \in Seq(RowT), NEW D \in SUBSET DOMAIN rows
  PROVE  IsFiniteSet(D) /\ D \in SUBSET Int /\ D \in SUBSET Id
<1>1. DOMAIN rows = 1..Len(rows) /\ Len(rows) \in Nat  OBVIOUS
<1>2. IsFiniteSet(1..Len(rows))  BY <1>1, FS_Interval
<1>3. QED BY <1>1, <1>2, FS_Subset DEF Id

LEMMA QueueShape ==
  ASSUME rows \in Seq(RowT)
  PROVE  /\ Ascending(Undelivered) \in Seq(Id)
         /\ \A k \in 1..Len(Ascending(Undelivered)) : Ascending(Undelivered)[k] \in Undelivered
         /\ \A i \in Undelivered : \E k \in 1..Len(Ascending(Undelivered)) :
              Ascending(Undelivered)[k] = i
<1>1. Undelivered \in SUBSET DOMAIN rows  BY DEF Undelivered
<1>2. IsFiniteSet(Undelivered) /\ Undelivered \in SUBSET Int /\ Undelivered \in SUBSET Id
  BY <1>1, RowsFinite
<1>3. /\ Cardinality(Undelivered) \in Nat
      /\ Ascending(Undelivered) \in [1..Cardinality(Undelivered) -> Undelivered]
      /\ \A i \in Undelivered : \E k \in 1..Cardinality(Undelivered) :
           Ascending(Undelivered)[k] = i
  BY <1>2, AscendingSorts
<1>4. Ascending(Undelivered) \in Seq(Undelivered)
      /\ Len(Ascending(Undelivered)) = Cardinality(Undelivered)
  BY <1>3
<1>5. Ascending(Undelivered) \in Seq(Id)
  <2>1. PICK n \in Nat : n = Cardinality(Undelivered)  BY <1>3
  <2>2. PICK f \in [1..n -> Undelivered] : f = Ascending(Undelivered)  BY <1>3, <2>1
  <2>3. \A k \in 1..n : f[k] \in Id  BY <1>2, <2>2
  <2>4. f \in [1..n -> Id]  BY <2>2, <2>3
  <2>5. QED BY <2>2, <2>4, FunIsSeq
<1>6. QED BY <1>3, <1>4, <1>5

LEMMA AscendingInterval ==
  ASSUME NEW lo \in Int, NEW hi \in Int, lo <= hi + 1
  PROVE  /\ Cardinality(lo..hi) = hi - lo + 1
         /\ \A k \in 1..(hi - lo + 1) : Ascending(lo..hi)[k] = lo + k - 1
<1>1. IsFiniteSet(lo..hi) /\ Cardinality(lo..hi) = hi - lo + 1  BY FS_Interval
<1>2. lo..hi \in SUBSET Int  OBVIOUS
<1>3. ASSUME NEW k \in 1..(hi - lo + 1)
      PROVE  Ascending(lo..hi)[k] = lo + k - 1
  <2>1. Ascending(lo..hi)[k] \in lo..hi
        /\ Cardinality(Below(lo..hi, Ascending(lo..hi)[k])) = k - 1
    BY <1>1, <1>2, AscendingSorts
  <2>2. PICK i \in lo..hi : i = Ascending(lo..hi)[k]  BY <2>1
  <2>3. Below(lo..hi, i) = lo..(i - 1)  BY DEF Below
  <2>4. Cardinality(lo..(i - 1)) = i - lo
    <3>1. PICK b \in Int : b = i - 1  OBVIOUS
    <3>2. Cardinality(lo..b) = IF lo > b THEN 0 ELSE b - lo + 1  BY FS_Interval
    <3>3. QED BY <3>1, <3>2
  <2>5. QED BY <2>1, <2>2, <2>3, <2>4
<1>4. QED BY <1>1, <1>3

LEMMA ReverseIs ==
  ASSUME NEW S, NEW q \in Seq(S)
  PROVE  /\ Reverse(q) \in Seq(S) /\ Len(Reverse(q)) = Len(q)
         /\ \A k \in 1..Len(q) : Reverse(q)[k] = q[Len(q) - k + 1]
<1>1. PICK n \in Nat : n = Len(q)  OBVIOUS
<1>2. Reverse(q) = [i \in 1..n |-> q[(n - i) + 1]]  BY <1>1 DEF Reverse
<1>3. \A i \in 1..n : q[(n - i) + 1] \in S  BY <1>1
<1>4. QED BY <1>1, <1>2, <1>3

\* A page is the newest PageSize of the first m rows, newest first.
LEMMA PageIs ==
  ASSUME rows \in Seq(RowT), NEW before \in Int
  PROVE  \E m \in 0..Len(rows), s \in 0..PageSize :
           /\ \A i \in 1..Len(rows) : Older(before, i) <=> i <= m
           /\ s <= m /\ (s = m \/ s = PageSize)
           /\ HistoryPage(before) \in Seq(Item) /\ Len(HistoryPage(before)) = s
           /\ \A k \in 1..s : /\ HistoryPage(before)[k].id = m - k + 1
                             /\ HistoryPage(before)[k].read = rows[m - k + 1].read
<1>1. PICK n \in Nat : n = Len(rows) /\ DOMAIN rows = 1..n  OBVIOUS
<1>2. PICK m \in 0..n : \A i \in 1..n : Older(before, i) <=> i <= m
  <2>1. CASE before = Latest  BY <2>1 DEF Older, Latest
  <2>2. CASE before # Latest
    <3>1. PICK h \in Int : 2 * h < before /\ before <= 2 * h + 2
      <4>1. (before - 1) \div 2 \in Int  OBVIOUS
      <4>2. 2 * ((before - 1) \div 2) < before /\ before <= 2 * ((before - 1) \div 2) + 2  OBVIOUS
      <4>3. QED BY <4>1, <4>2
    <3>2. \A i \in 1..n : Older(before, i) <=> i <= h  BY <2>2, <3>1 DEF Older
    <3>3. CASE h < 0  BY <3>2, <3>3
    <3>4. CASE h > n  BY <3>2, <3>4
    <3>5. CASE h \in 0..n  BY <3>2, <3>5
    <3>6. QED BY <3>3, <3>4, <3>5
  <2>3. QED BY <2>1, <2>2
<1>3. PICK s \in 0..PageSize : s <= m /\ (s = m \/ s = PageSize)
  <2>1. PageSize \in Nat  BY ChatAssumption
  <2>2. CASE m <= PageSize  BY <2>1, <2>2
  <2>3. CASE m > PageSize  BY <2>1, <2>3
  <2>4. QED BY <2>1, <2>2, <2>3
<1> DEFINE lo == m - s + 1
<1>4. {i \in DOMAIN rows : before = Latest \/ 2 * i < before} = 1..m  BY <1>1, <1>2 DEF Older
<1>5. {i \in 1..m : Cardinality({j \in 1..m : j > i}) < PageSize} = lo..m
  <2>1. ASSUME NEW i \in 1..m
        PROVE  Cardinality({j \in 1..m : j > i}) = m - i
    <3>1. {j \in 1..m : j > i} = (i + 1)..m  OBVIOUS
    <3>2. Cardinality((i + 1)..m) = m - i  BY FS_Interval
    <3>3. QED BY <3>1, <3>2
  <2>2. \A i \in 1..m : Cardinality({j \in 1..m : j > i}) < PageSize <=> i \in lo..m
    <3>1. PageSize \in Nat  BY ChatAssumption
    <3>2. \A i \in 1..m : m - i < PageSize <=> i \in lo..m  BY <1>3, <3>1
    <3>3. QED BY <2>1, <3>2
  <2>3. lo..m \in SUBSET (1..m)  BY <1>3
  <2>4. QED BY <2>2, <2>3
<1>6. HistoryPage(before) =
        Reverse([k \in 1..Cardinality(lo..m) |->
                   [id |-> Ascending(lo..m)[k], read |-> rows[Ascending(lo..m)[k]].read]])
  BY <1>4, <1>5 DEF HistoryPage
<1>7. Cardinality(lo..m) = s /\ \A k \in 1..s : Ascending(lo..m)[k] = lo + k - 1
  <2>1. PICK a \in Int : a = lo  BY <1>3
  <2>2. a <= m + 1 /\ m - a + 1 = s  BY <1>3, <2>1
  <2>3. /\ Cardinality(a..m) = m - a + 1
        /\ \A k \in 1..(m - a + 1) : Ascending(a..m)[k] = a + k - 1
    BY <2>2, AscendingInterval
  <2>4. QED BY <2>1, <2>2, <2>3
<1> DEFINE up == [k \in 1..s |-> [id |-> lo + k - 1, read |-> rows[lo + k - 1].read]]
<1>8. HistoryPage(before) = Reverse(up)  BY <1>6, <1>7
<1>9. up \in Seq(Item) /\ Len(up) = s
  <2>1. \A k \in 1..s : lo + k - 1 \in 1..n /\ lo + k - 1 \in Id  BY <1>3 DEF Id
  <2>2. \A i \in 1..n : rows[i].read \in BOOLEAN
    <3>1. \A i \in 1..n : rows[i] \in RowT  BY <1>1
    <3>2. QED BY <3>1 DEF RowT
  <2>3. \A k \in 1..s : [id |-> lo + k - 1, read |-> rows[lo + k - 1].read] \in Item
    BY <2>1, <2>2 DEF Item
  <2>4. up \in [1..s -> Item]  BY <2>3
  <2>5. s \in Nat  BY ChatAssumption
  <2>6. PICK f \in [1..s -> Item] : f = up  BY <2>4
  <2>7. QED BY <2>5, <2>6, FunIsSeq
<1>10. Reverse(up) \in Seq(Item) /\ Len(Reverse(up)) = s
       /\ \A k \in 1..s : Reverse(up)[k] = up[s - k + 1]
  <2>1. PICK u \in Seq(Item) : u = up  BY <1>9
  <2>2. /\ Reverse(u) \in Seq(Item) /\ Len(Reverse(u)) = Len(u)
        /\ \A k \in 1..Len(u) : Reverse(u)[k] = u[Len(u) - k + 1]
    BY ReverseIs
  <2>3. Len(u) = s  BY <1>9, <2>1
  <2>4. QED BY <2>1, <2>2, <2>3
<1>11. \A k \in 1..s : up[s - k + 1].id = m - k + 1 /\ up[s - k + 1].read = rows[m - k + 1].read
  <2>1. TAKE k \in 1..s
  <2>2. s - k + 1 \in 1..s /\ lo + (s - k + 1) - 1 = m - k + 1  BY <1>3
  <2>3. QED BY <2>2
<1>12. PICK h \in Seq(Item) :
         /\ h = HistoryPage(before) /\ Len(h) = s
         /\ \A k \in 1..s : h[k].id = m - k + 1 /\ h[k].read = rows[m - k + 1].read
  BY <1>8, <1>10, <1>11
<1>13. QED BY <1>1, <1>2, <1>3, <1>12

-----------------------------------------------------------------------------
(* Rows only gain flags.                                                   *)

LEMMA DeliveredIsRow ==
  ASSUME NEW i, rows[i] \in RowT
  PROVE  \E r \in RowT :
           /\ [rows EXCEPT ![i].delivered = TRUE] = [rows EXCEPT ![i] = r]
           /\ r.mine = rows[i].mine /\ r.cm = rows[i].cm /\ r.read = rows[i].read
           /\ r.delivered = TRUE
<1>1. PICK r : r = [rows[i] EXCEPT !.delivered = TRUE]  OBVIOUS
<1>2. r \in RowT /\ r.mine = rows[i].mine /\ r.cm = rows[i].cm /\ r.read = rows[i].read
      /\ r.delivered = TRUE
  BY <1>1 DEF RowT
<1>3. [rows EXCEPT ![i].delivered = TRUE] = [rows EXCEPT ![i] = r]  BY <1>1, Zenon
<1>4. QED BY <1>2, <1>3, Zenon

LEMMA ReadIsRow ==
  ASSUME NEW i \in DOMAIN rows, rows[i] \in RowT
  PROVE  \E r \in RowT :
           /\ [rows EXCEPT ![i].read = TRUE, ![i].delivered = TRUE] = [rows EXCEPT ![i] = r]
           /\ r.mine = rows[i].mine /\ r.cm = rows[i].cm
           /\ r.read = TRUE /\ r.delivered = TRUE
<1>1. PICK a : a = [rows[i] EXCEPT !.read = TRUE]  OBVIOUS
<1>2. PICK r : r = [a EXCEPT !.delivered = TRUE]  OBVIOUS
<1>3. r \in RowT /\ r.mine = rows[i].mine /\ r.cm = rows[i].cm /\ r.read = TRUE
      /\ r.delivered = TRUE
  BY <1>1, <1>2 DEF RowT
<1>4. PICK fs : fs = [rows EXCEPT ![i] = a]  OBVIOUS
<1>5. fs[i] = a  BY <1>4
<1>6. [rows EXCEPT ![i].read = TRUE, ![i].delivered = TRUE]
        = [fs EXCEPT ![i] = [fs[i] EXCEPT !.delivered = TRUE]]
  BY <1>1, <1>4, Zenon
<1>7. [fs EXCEPT ![i] = r] = [rows EXCEPT ![i] = r]  BY <1>4
<1>8. [rows EXCEPT ![i].read = TRUE, ![i].delivered = TRUE] = [rows EXCEPT ![i] = r]
  BY <1>2, <1>5, <1>6, <1>7, Zenon
<1>9. QED BY <1>3, <1>8, Zenon

LEMMA RowSet ==
  ASSUME rows \in Seq(RowT), NEW i \in 1..Len(rows), NEW r \in RowT,
         r.mine = rows[i].mine, r.cm = rows[i].cm,
         rows[i].read => r.read, rows[i].delivered => r.delivered
  PROVE  /\ Grown([rows EXCEPT ![i] = r]) /\ Len([rows EXCEPT ![i] = r]) = Len(rows)
         /\ [rows EXCEPT ![i] = r][i] = r
         /\ \A j \in 1..Len(rows) : j # i => [rows EXCEPT ![i] = r][j] = rows[j]
<1>1. PICK n \in Nat : n = Len(rows) /\ DOMAIN rows = 1..n  OBVIOUS
<1>2. QED BY <1>1 DEF Grown

LEMMA MarkedDelivered ==
  ASSUME rows \in Seq(RowT), NEW i \in 1..Len(rows)
  PROVE  /\ RowMarked([rows EXCEPT ![i].delivered = TRUE], i)
         /\ [rows EXCEPT ![i].delivered = TRUE][i].read = rows[i].read
<1>1. rows[i] \in RowT  OBVIOUS
<1>2. PICK r \in RowT :
        /\ [rows EXCEPT ![i].delivered = TRUE] = [rows EXCEPT ![i] = r]
        /\ r.mine = rows[i].mine /\ r.cm = rows[i].cm /\ r.read = rows[i].read
        /\ r.delivered = TRUE
  BY <1>1, DeliveredIsRow, Zenon
<1>3. /\ Grown([rows EXCEPT ![i] = r]) /\ Len([rows EXCEPT ![i] = r]) = Len(rows)
      /\ [rows EXCEPT ![i] = r][i] = r
      /\ \A j \in 1..Len(rows) : j # i => [rows EXCEPT ![i] = r][j] = rows[j]
  <2>1. /\ r.mine = rows[i].mine /\ r.cm = rows[i].cm
        /\ rows[i].read => r.read
        /\ rows[i].delivered => r.delivered
    BY <1>2, Zenon
  <2>2. QED BY <2>1, RowSet
<1>4. PICK ns : ns = [rows EXCEPT ![i] = r]  OBVIOUS
<1>5. RowMarked(ns, i) /\ ns[i].read = rows[i].read
  <2>1. r.delivered = TRUE /\ r.read = rows[i].read  BY <1>2, Zenon
  <2>2. QED BY <1>3, <1>4, <2>1 DEF RowMarked
<1>6. QED BY <1>2, <1>4, <1>5, Zenon

LEMMA MarkedRead ==
  ASSUME rows \in Seq(RowT), NEW i \in 1..Len(rows)
  PROVE  /\ RowMarked([rows EXCEPT ![i].read = TRUE, ![i].delivered = TRUE], i)
         /\ [rows EXCEPT ![i].read = TRUE, ![i].delivered = TRUE][i].read = TRUE
<1>1. rows[i] \in RowT /\ i \in DOMAIN rows  OBVIOUS
<1>2. PICK r \in RowT :
        /\ [rows EXCEPT ![i].read = TRUE, ![i].delivered = TRUE] = [rows EXCEPT ![i] = r]
        /\ r.mine = rows[i].mine /\ r.cm = rows[i].cm
        /\ r.read = TRUE /\ r.delivered = TRUE
  BY <1>1, ReadIsRow, Zenon
<1>3. /\ Grown([rows EXCEPT ![i] = r]) /\ Len([rows EXCEPT ![i] = r]) = Len(rows)
      /\ [rows EXCEPT ![i] = r][i] = r
      /\ \A j \in 1..Len(rows) : j # i => [rows EXCEPT ![i] = r][j] = rows[j]
  <2>1. /\ r.mine = rows[i].mine /\ r.cm = rows[i].cm
        /\ rows[i].read => r.read
        /\ rows[i].delivered => r.delivered
    BY <1>2, Zenon
  <2>2. QED BY <2>1, RowSet
<1>4. PICK ns : ns = [rows EXCEPT ![i] = r]  OBVIOUS
<1>5. RowMarked(ns, i) /\ ns[i].read = TRUE
  <2>1. r.delivered = TRUE /\ r.read = TRUE  BY <1>2, Zenon
  <2>2. QED BY <1>3, <1>4, <2>1 DEF RowMarked
<1>6. QED BY <1>2, <1>4, <1>5, Zenon

LEMMA GrownByOne ==
  ASSUME rows \in Seq(RowT), NEW r \in RowT
  PROVE  /\ Grown(Append(rows, r)) /\ Len(Append(rows, r)) = Len(rows) + 1
         /\ Append(rows, r)[Len(rows) + 1] = r
         /\ \A j \in 1..Len(rows) : Append(rows, r)[j] = rows[j]
BY DEF Grown

LEMMA GrownNot ==
  ASSUME rows \in Seq(RowT)
  PROVE  Grown(rows)
BY DEF Grown

LEMMA WithinGrows ==
  ASSUME NEW f \in ServerFrame, NEW n \in Nat, NEW m \in Nat, n <= m, Within(f, n)
  PROVE  Within(f, m)
<1>1. CASE f.type = "history_response"
  <2>1. f.messages \in Seq(Item)  BY <1>1, ServerFrameIs
  <2>2. \A i \in 1..Len(f.messages) : f.messages[i].id \in Int /\ f.messages[i].id <= n
    <3>1. TAKE i \in 1..Len(f.messages)
    <3>2. f.messages[i] \in Item  BY <2>1
    <3>3. f.messages[i].id <= n  BY <1>1 DEF Within
    <3>4. QED BY <3>2, <3>3 DEF Item, Id
  <2>3. QED BY <1>1, <2>2 DEF Within
<1>2. CASE f.type # "history_response"
  <2>1. f.type \in {"message", "message_ack", "ack_read"} => f.id \in Int  BY ServerFrameIs DEF Id
  <2>2. QED BY <1>2, <2>1 DEF Within
<1>3. QED BY <1>1, <1>2

\* What is known stays known when the table grows.
LEMMA KnownGrows ==
  ASSUME ShapeInv, Grown(rows')
  PROVE  /\ relaying <= Len(rows') /\ acking <= Len(rows')
         /\ \A k \in 1..Len(greeting.of) : greeting.of[k] <= Len(rows')
         /\ page # NoPage => Within(page, Len(rows'))
         /\ \A k \in 1..Len(inbox) : Within(inbox[k], Len(rows'))
         /\ \A k \in 1..Len(outbox) : outbox[k].type = "ack_read" => outbox[k].id <= Len(rows')
         /\ \A i \in 1..Len(msgs) : msgs[i].id <= Len(rows')
<1>1. PICK n \in Nat, m \in Nat : n = Len(rows) /\ m = Len(rows') /\ n <= m
  BY DEF ShapeInv, ChatShape, ServerShape, Grown
<1>2. relaying <= m /\ acking <= m  BY <1>1 DEF ShapeInv, ChatShape, ServerShape, Known
<1>3. \A k \in 1..Len(greeting.of) : greeting.of[k] <= m
  <2>1. greeting.of \in Seq(Id)  BY DEF ShapeInv, ChatShape, ServerShape
  <2>2. \A k \in 1..Len(greeting.of) : greeting.of[k] \in Int /\ greeting.of[k] <= n
    BY <1>1, <2>1 DEF Id, ShapeInv, Known
  <2>3. QED BY <1>1, <2>2
<1>4. page # NoPage => Within(page, m)
  <2>1. SUFFICES ASSUME page # NoPage PROVE Within(page, m)  OBVIOUS
  <2>2. page \in ServerFrame  BY <2>1, MakesServerFrame DEF ShapeInv, ChatShape, ServerShape
  <2>3. QED BY <1>1, <2>1, <2>2, WithinGrows DEF ShapeInv, Known
<1>5. \A k \in 1..Len(inbox) : Within(inbox[k], m)
  <2>1. TAKE k \in 1..Len(inbox)
  <2>2. inbox[k] \in ServerFrame  BY DEF ShapeInv, ChatShape, WireShape
  <2>3. QED BY <1>1, <2>2, WithinGrows DEF ShapeInv, Known
<1>6. \A k \in 1..Len(outbox) : outbox[k].type = "ack_read" => outbox[k].id <= m
  <2>1. TAKE k \in 1..Len(outbox)
  <2>2. outbox[k] \in ClientFrame  BY DEF ShapeInv, ChatShape, WireShape
  <2>3. outbox[k].type = "ack_read" => outbox[k].id \in Int /\ outbox[k].id <= n
    BY <1>1, <2>2, ClientFrameIs DEF Id, ShapeInv, Known
  <2>4. QED BY <1>1, <2>3
<1>7. \A i \in 1..Len(msgs) : msgs[i].id <= m
  <2>1. TAKE i \in 1..Len(msgs)
  <2>2. msgs[i] \in EntryT  BY DEF ShapeInv, ChatShape, ClientShape
  <2>3. msgs[i].id \in Int /\ msgs[i].id <= n  BY <1>1, <2>2 DEF ShapeInv, Known, EntryT
  <2>4. QED BY <1>1, <2>3
<1>8. QED BY <1>1, <1>2, <1>3, <1>4, <1>5, <1>6, <1>7

-----------------------------------------------------------------------------
(* The boxes.                                                              *)

LEMMA TailIs ==
  ASSUME NEW S, NEW q \in Seq(S), q # <<>>
  PROVE  /\ Tail(q) \in Seq(S) /\ Len(Tail(q)) = Len(q) - 1 /\ Head(q) = q[1] /\ Head(q) \in S
         /\ \A k \in 1..Len(Tail(q)) : k + 1 \in 1..Len(q) /\ Tail(q)[k] = q[k + 1]
OBVIOUS

LEMMA AppendIs ==
  ASSUME NEW S, NEW q \in Seq(S), NEW x \in S
  PROVE  /\ Append(q, x) \in Seq(S) /\ Len(Append(q, x)) = Len(q) + 1
         /\ Append(q, x)[Len(q) + 1] = x
         /\ \A k \in 1..Len(q) : Append(q, x)[k] = q[k]
OBVIOUS

LEMMA ConcatIs ==
  ASSUME NEW S, NEW q \in Seq(S), NEW r \in Seq(S)
  PROVE  /\ (q \o r) \in Seq(S) /\ Len(q \o r) = Len(q) + Len(r)
         /\ \A k \in 1..Len(q) : (q \o r)[k] = q[k]
         /\ \A k \in 1..Len(r) : (q \o r)[Len(q) + k] = r[k]
OBVIOUS

LEMMA PrefixIs ==
  ASSUME NEW S, NEW q \in Seq(S), NEW n \in 0..Len(q)
  PROVE  /\ SubSeq(q, 1, n) \in Seq(S) /\ Len(SubSeq(q, 1, n)) = n
         /\ \A k \in 1..n : SubSeq(q, 1, n)[k] = q[k]
OBVIOUS

\* A frame for the client.
LEMMA ToClientIs ==
  ASSUME ShapeInv, NEW f \in ServerFrame, ToClient(f), Within(f, Len(rows'))
  PROVE  /\ inbox' \in Seq(ServerFrame)
         /\ link = "down" => inbox' = inbox
         /\ losses' \in 0..MaxLosses
         /\ \/ inbox' = inbox /\ lost' = lost \cup {f}
            \/ /\ inbox' = Append(inbox, f) /\ lost' = lost
               /\ Len(inbox') = Len(inbox) + 1 /\ inbox'[Len(inbox) + 1] = f
               /\ \A k \in 1..Len(inbox) : inbox'[k] = inbox[k]
         /\ (\A k \in 1..Len(inbox) : Within(inbox[k], Len(rows')))
              => \A k \in 1..Len(inbox') : Within(inbox'[k], Len(rows'))
<1>1. inbox \in Seq(ServerFrame) /\ losses \in 0..MaxLosses /\ losses \in Int
  BY DEF ShapeInv, ChatShape, ServerShape, WireShape
<1>2. CASE inbox' = Append(inbox, f) /\ lost' = lost /\ losses' = losses /\ link = "up"
  <2>1. inbox' \in Seq(ServerFrame) /\ Len(inbox') = Len(inbox) + 1 /\ inbox'[Len(inbox) + 1] = f
        /\ \A k \in 1..Len(inbox) : inbox'[k] = inbox[k]
    BY <1>1, <1>2, AppendIs
  <2>2. \A k \in 1..Len(inbox') : k \in 1..Len(inbox) \/ inbox'[k] = f  BY <1>1, <2>1
  <2>3. QED BY <1>1, <1>2, <2>1, <2>2
<1>3. CASE /\ inbox' = inbox /\ lost' = lost \cup {f}
           /\ losses' = losses \/ (losses > 0 /\ losses' = losses - 1)
  <2>1. losses' \in 0..MaxLosses  BY <1>1, <1>3, ChatAssumption
  <2>2. QED BY <1>1, <1>3, <2>1
<1>4. QED BY <1>2, <1>3 DEF ToClient, Routed

-----------------------------------------------------------------------------
(* The server's steps.                                                     *)

LEMMA ReadTakes ==
  ASSUME ShapeInv, NEW type, Read(type)
  PROVE  /\ outbox' \in Seq(ClientFrame) /\ Len(outbox') = Len(outbox) - 1
         /\ Len(outbox') <= OutCap /\ link = "up" /\ page = NoPage /\ acking = 0
         /\ \A k \in 1..Len(outbox') : k + 1 \in 1..Len(outbox) /\ outbox'[k] = outbox[k + 1]
         /\ Head(outbox) \in ClientFrame /\ Head(outbox).type = type /\ Head(outbox) = outbox[1]
         /\ Len(outbox) \in Nat /\ 1 \in 1..Len(outbox)
<1>1. outbox \in Seq(ClientFrame) /\ Len(outbox) <= OutCap /\ OutCap \in Nat
  BY ChatAssumption DEF ShapeInv, ChatShape, WireShape
<1>2. outbox # <<>> /\ outbox' = Tail(outbox) /\ Head(outbox).type = type /\ link = "up" /\ page = NoPage
      /\ acking = 0
  BY DEF Read
<1>3. QED BY <1>1, <1>2, TailIs

LEMMA OutboxTaken ==
  ASSUME ShapeInv, NEW type, Read(type), Grown(rows')
  PROVE  \A k \in 1..Len(outbox') : outbox'[k].type = "ack_read" => outbox'[k].id <= Len(rows')
BY KnownGrows, ReadTakes

LEMMA PushContactListShape ==
  ASSUME ShapeInv, PushContactList
  PROVE  ShapeInv' /\ Grown(rows')
<1>1. Grown(rows')  BY GrownNot DEF ShapeInv, ChatShape, ServerShape, PushContactList
<1>2. List \in ServerFrame /\ Within(List, Len(rows')) /\ ToClient(List)
  BY MakesServerFrame DEF List, Within, PushContactList
<1>3. /\ inbox' \in Seq(ServerFrame) /\ (link = "down" => inbox' = inbox) /\ losses' \in 0..MaxLosses
      /\ \A k \in 1..Len(inbox') : Within(inbox'[k], Len(rows'))
  BY <1>1, <1>2, ToClientIs, KnownGrows
<1>4. greeting' \in [pc : {"none", "list", "flush", "replay"}, of : Seq(Id)] /\ greeting'.of = greeting.of
  BY DEF ShapeInv, ChatShape, ServerShape, PushContactList
<1>5. ChatShape'
  BY <1>3, <1>4 DEF ShapeInv, ChatShape, ServerShape, WireShape, ClientShape, PushContactList
<1>6. Known'  BY <1>1, <1>3, <1>4, KnownGrows DEF Known, PushContactList
<1>7. QED BY <1>1, <1>5, <1>6 DEF ShapeInv

LEMMA LoadUndeliveredShape ==
  ASSUME ShapeInv, LoadUndelivered
  PROVE  ShapeInv' /\ Grown(rows')
<1>1. rows \in Seq(RowT) /\ rows' = rows /\ Grown(rows')
  BY GrownNot DEF ShapeInv, ChatShape, ServerShape, LoadUndelivered
<1>2. PICK q \in Seq(Id) : q = Ascending(Undelivered)  BY <1>1, QueueShape
<1>3. greeting' = [pc |-> "replay", of |-> q]  BY <1>2 DEF LoadUndelivered
<1>4. \A k \in 1..Len(q) : q[k] <= Len(rows)
  <2>1. \A k \in 1..Len(q) : q[k] \in Undelivered  BY <1>1, <1>2, QueueShape
  <2>2. \A i \in Undelivered : i <= Len(rows)  BY <1>1 DEF Undelivered
  <2>3. QED BY <2>1, <2>2
<1>5. ChatShape'
  BY <1>3 DEF ShapeInv, ChatShape, ServerShape, WireShape, ClientShape, LoadUndelivered
<1>6. Known'  BY <1>1, <1>3, <1>4 DEF ShapeInv, Known, LoadUndelivered
<1>7. QED BY <1>1, <1>5, <1>6 DEF ShapeInv

LEMMA ServeReturnsShape ==
  ASSUME ShapeInv, ServeReturns
  PROVE  ShapeInv' /\ Grown(rows')
<1>1. rows \in Seq(RowT) /\ rows' = rows /\ Grown(rows')
  BY GrownNot DEF ShapeInv, ChatShape, ServerShape, ServeReturns
<1>2. greeting' \in [pc : {"none", "list", "flush", "replay"}, of : Seq(Id)] /\ greeting'.of = greeting.of
  BY DEF ShapeInv, ChatShape, ServerShape, ServeReturns
<1>3. ChatShape'  BY <1>2 DEF ShapeInv, ChatShape, ServerShape, WireShape, ClientShape, ServeReturns
<1>4. Known'  BY <1>1, <1>2 DEF ShapeInv, Known, ServeReturns
<1>5. QED BY <1>1, <1>3, <1>4 DEF ShapeInv

LEMMA ServerNoticesShape ==
  ASSUME ShapeInv, ServerNotices
  PROVE  ShapeInv' /\ Grown(rows')
<1>1. rows \in Seq(RowT) /\ rows' = rows /\ Grown(rows')
  BY GrownNot DEF ShapeInv, ChatShape, ServerShape, ServerNotices
<1>2. ChatShape'  BY DEF ShapeInv, ChatShape, ServerShape, WireShape, ClientShape, ServerNotices
<1>3. Known'  BY <1>1 DEF ShapeInv, Known, ServerNotices
<1>4. QED BY <1>1, <1>2, <1>3 DEF ShapeInv

LEMMA ReplayOneShape ==
  ASSUME ShapeInv, ReplayOne
  PROVE  /\ ShapeInv' /\ Grown(rows') /\ Head(greeting.of) \in 1..Len(rows)
         /\ RowMarked(rows', Head(greeting.of))
         /\ rows'[Head(greeting.of)].read = rows[Head(greeting.of)].read
<1>1. rows \in Seq(RowT)  BY DEF ShapeInv, ChatShape, ServerShape
<1>2. greeting.of \in Seq(Id) /\ greeting.of # <<>>
  BY DEF ShapeInv, ChatShape, ServerShape, ReplayOne
<1>3. PICK q \in Seq(Id) : q = greeting.of /\ q # <<>>  BY <1>2
<1>4. PICK i \in Id : i = Head(q) /\ i = q[1]  BY <1>3, TailIs
<1>5. i \in 1..Len(rows)
  <2>1. q[1] <= Len(rows)  BY <1>3 DEF ShapeInv, Known
  <2>2. QED BY <1>1, <1>4, <2>1 DEF Id
<1>6. rows' = [rows EXCEPT ![i].delivered = TRUE]  BY <1>3, <1>4 DEF ReplayOne
<1>7. RowMarked(rows', i) /\ rows'[i].read = rows[i].read
  BY <1>1, <1>5, <1>6, MarkedDelivered, Zenon
<1>8. Grown(rows') /\ Len(rows') = Len(rows) /\ rows' \in Seq(RowT)  BY <1>7 DEF RowMarked, Grown
<1>9. Message(i) \in ServerFrame /\ Within(Message(i), Len(rows')) /\ ToClient(Message(i))
  BY <1>3, <1>4, <1>5, <1>8, MakesServerFrame DEF Message, Within, ReplayOne
<1>10. /\ inbox' \in Seq(ServerFrame) /\ (link = "down" => inbox' = inbox) /\ losses' \in 0..MaxLosses
       /\ \A k \in 1..Len(inbox') : Within(inbox'[k], Len(rows'))
  BY <1>8, <1>9, ToClientIs, KnownGrows
<1>11. greeting' = [greeting EXCEPT !.of = Tail(q)]  BY <1>3 DEF ReplayOne
<1>12. /\ Tail(q) \in Seq(Id)
       /\ \A k \in 1..Len(Tail(q)) : k + 1 \in 1..Len(q) /\ Tail(q)[k] = q[k + 1]
  BY <1>3, TailIs
<1>13. greeting' \in [pc : {"none", "list", "flush", "replay"}, of : Seq(Id)] /\ greeting'.of = Tail(q)
  BY <1>11, <1>12 DEF ShapeInv, ChatShape, ServerShape
<1>14. \A k \in 1..Len(Tail(q)) : Tail(q)[k] <= Len(rows')  BY <1>3, <1>8, <1>12 DEF ShapeInv, Known
<1>15. ChatShape'
  BY <1>8, <1>10, <1>13 DEF ShapeInv, ChatShape, ServerShape, WireShape, ClientShape, ReplayOne
<1>16. Known'  BY <1>8, <1>10, <1>13, <1>14, KnownGrows DEF Known, ReplayOne
<1>17. QED BY <1>3, <1>4, <1>5, <1>7, <1>8, <1>15, <1>16 DEF ShapeInv

LEMMA PeerSendsShape ==
  ASSUME ShapeInv, PeerSends
  PROVE  /\ ShapeInv' /\ Grown(rows') /\ Len(rows') = Len(rows) + 1
         /\ rows'[Len(rows) + 1] = [mine |-> FALSE, cm |-> 0, delivered |-> FALSE, read |-> FALSE]
         /\ \A j \in 1..Len(rows) : rows'[j] = rows[j]
<1>1. rows \in Seq(RowT)  BY DEF ShapeInv, ChatShape, ServerShape
<1> DEFINE r == [mine |-> FALSE, cm |-> 0, delivered |-> FALSE, read |-> FALSE]
<1>2. r \in RowT /\ rows' = Append(rows, r)  BY DEF RowT, PeerSends
<1>3. /\ Grown(rows') /\ Len(rows') = Len(rows) + 1 /\ rows'[Len(rows) + 1] = r
      /\ \A j \in 1..Len(rows) : rows'[j] = rows[j]
  BY <1>1, <1>2, GrownByOne
<1>4. rows' \in Seq(RowT)  BY <1>3 DEF Grown
<1>5. relaying' \in Nat /\ relaying' <= Len(rows') /\ sends' \in 0..MaxSends
  BY <1>1, <1>3, ChatAssumption DEF PeerSends, ShapeInv, ChatShape, ServerShape
<1>6. ChatShape'
  BY <1>4, <1>5 DEF ShapeInv, ChatShape, ServerShape, WireShape, ClientShape, PeerSends
<1>7. Known'  BY <1>3, <1>5, KnownGrows DEF Known, PeerSends
<1>8. QED BY <1>3, <1>6, <1>7 DEF ShapeInv

LEMMA RelayShape ==
  ASSUME ShapeInv, Relay
  PROVE  /\ ShapeInv' /\ Grown(rows') /\ relaying \in 1..Len(rows)
         /\ \/ ~registered /\ rows' = rows
            \/ /\ registered /\ RowMarked(rows', relaying)
               /\ rows'[relaying].read = rows[relaying].read
<1>1. rows \in Seq(RowT) /\ relaying \in 1..Len(rows) /\ relaying \in Id
  BY DEF Relay, ShapeInv, ChatShape, ServerShape, Known, Id
<1>2. CASE registered
  <2>1. rows' = [rows EXCEPT ![relaying].delivered = TRUE] /\ ToClient(Message(relaying))
    BY <1>2 DEF Relay, ToClient
  <2>2. RowMarked(rows', relaying) /\ rows'[relaying].read = rows[relaying].read
    BY <1>1, <2>1, MarkedDelivered, Zenon
  <2>3. Grown(rows') /\ Len(rows') = Len(rows) /\ rows' \in Seq(RowT)  BY <2>2 DEF RowMarked, Grown
  <2>4. Message(relaying) \in ServerFrame /\ Within(Message(relaying), Len(rows'))
    BY <1>1, <2>3, MakesServerFrame DEF Message, Within
  <2>5. /\ inbox' \in Seq(ServerFrame) /\ (link = "down" => inbox' = inbox)
        /\ \A k \in 1..Len(inbox') : Within(inbox'[k], Len(rows'))
    BY <2>1, <2>3, <2>4, ToClientIs, KnownGrows
  <2>6. ChatShape'
    BY <2>3, <2>5 DEF ShapeInv, ChatShape, ServerShape, WireShape, ClientShape, Relay
  <2>7. Known'
    <3>1. relaying' = 0 /\ 0 <= Len(rows')  BY <2>3 DEF Relay
    <3>2. QED BY <2>3, <2>5, <3>1, KnownGrows DEF Known, Relay
  <2>8. QED BY <1>1, <1>2, <2>2, <2>3, <2>6, <2>7 DEF ShapeInv
<1>3. CASE ~registered
  <2>1. rows' = rows /\ inbox' = inbox /\ Grown(rows') /\ relaying' = 0
    BY <1>1, <1>3, GrownNot DEF Relay
  <2>2. ChatShape'  BY <2>1 DEF ShapeInv, ChatShape, ServerShape, WireShape, ClientShape, Relay
  <2>3. Known'  BY <1>1, <2>1 DEF ShapeInv, Known, Relay
  <2>4. QED BY <1>1, <1>3, <2>1, <2>2, <2>3 DEF ShapeInv
<1>4. QED BY <1>2, <1>3

LEMMA SendPageShape ==
  ASSUME ShapeInv, SendPage
  PROVE  ShapeInv' /\ Grown(rows') /\ page \in Pages
<1>1. rows' = rows /\ Grown(rows')  BY GrownNot DEF ShapeInv, ChatShape, ServerShape, SendPage
<1>2. page \in Pages /\ ToClient(page) /\ page' = NoPage
  BY DEF SendPage, ShapeInv, ChatShape, ServerShape
<1>3. page \in ServerFrame /\ Within(page, Len(rows'))
  BY <1>1, <1>2, MakesServerFrame DEF ShapeInv, Known, SendPage
<1>4. /\ inbox' \in Seq(ServerFrame) /\ (link = "down" => inbox' = inbox) /\ losses' \in 0..MaxLosses
      /\ \A k \in 1..Len(inbox') : Within(inbox'[k], Len(rows'))
  BY <1>1, <1>2, <1>3, ToClientIs, KnownGrows
<1>5. ChatShape'
  BY <1>2, <1>4 DEF ShapeInv, ChatShape, ServerShape, WireShape, ClientShape, SendPage
<1>6. Known'  BY <1>1, <1>2, <1>4, KnownGrows DEF Known, SendPage
<1>7. QED BY <1>1, <1>2, <1>5, <1>6 DEF ShapeInv

LEMMA PeerReadsShape ==
  ASSUME ShapeInv, NEW id \in DOMAIN rows, PeerReads(id)
  PROVE  ShapeInv' /\ RowMarked(rows', id) /\ id \in 1..Len(rows) /\ rows'[id].read = TRUE
<1>1. rows \in Seq(RowT) /\ id \in 1..Len(rows) /\ id \in Id
  BY DEF ShapeInv, ChatShape, ServerShape, Id
<1>2. rows' = [rows EXCEPT ![id].read = TRUE, ![id].delivered = TRUE]  BY DEF PeerReads
<1>3. RowMarked(rows', id) /\ rows'[id].read = TRUE  BY <1>1, <1>2, MarkedRead, Zenon
<1>4. Grown(rows') /\ Len(rows') = Len(rows) /\ rows' \in Seq(RowT)  BY <1>3 DEF RowMarked, Grown
<1>5. AckRead(id) \in ServerFrame /\ Within(AckRead(id), Len(rows'))
  BY <1>1, <1>4, MakesServerFrame DEF AckRead, Within
<1>6. inbox' = IF registered /\ link = "up" THEN Append(inbox, AckRead(id)) ELSE inbox
  BY DEF PeerReads
<1>7. /\ inbox' \in Seq(ServerFrame) /\ (link = "down" => inbox' = inbox)
      /\ \A k \in 1..Len(inbox') : Within(inbox'[k], Len(rows'))
  <2>1. inbox \in Seq(ServerFrame) /\ \A k \in 1..Len(inbox) : Within(inbox[k], Len(rows'))
    BY <1>4, KnownGrows DEF ShapeInv, ChatShape, WireShape
  <2>2. CASE registered /\ link = "up"
    <3>1. inbox' = Append(inbox, AckRead(id))  BY <1>6, <2>2
    <3>2. inbox' \in Seq(ServerFrame) /\ Len(inbox') = Len(inbox) + 1
          /\ inbox'[Len(inbox) + 1] = AckRead(id)
          /\ \A k \in 1..Len(inbox) : inbox'[k] = inbox[k]
      BY <1>5, <2>1, <3>1, AppendIs
    <3>3. \A k \in 1..Len(inbox') : k \in 1..Len(inbox) \/ inbox'[k] = AckRead(id)  BY <2>1, <3>2
    <3>4. QED BY <1>5, <2>1, <2>2, <3>2, <3>3
  <2>3. CASE ~(registered /\ link = "up")  BY <1>6, <2>1, <2>3
  <2>4. QED BY <2>2, <2>3
<1>8. ChatShape'
  BY <1>4, <1>7 DEF ShapeInv, ChatShape, ServerShape, WireShape, ClientShape, PeerReads
<1>9. Known'  BY <1>4, <1>7, KnownGrows DEF Known, PeerReads
<1>10. QED BY <1>1, <1>3, <1>8, <1>9 DEF ShapeInv

LEMMA HandleHistoryRequestShape ==
  ASSUME ShapeInv, HandleHistoryRequest
  PROVE  /\ ShapeInv' /\ Grown(rows') /\ page' \in Pages
         /\ Head(outbox).before \in Int
         /\ HistoryPage(Head(outbox).before) \in Seq(Item)
         /\ page' = HistoryResponse(HistoryPage(Head(outbox).before))
<1>1. rows \in Seq(RowT) /\ rows' = rows /\ Grown(rows') /\ Read("history_request")
  BY GrownNot DEF ShapeInv, ChatShape, ServerShape, HandleHistoryRequest
<1>2. Head(outbox).before \in Int  BY <1>1, ReadTakes, ClientFrameIs
<1>3. PICK b \in Int : b = Head(outbox).before  BY <1>2
<1>4. PICK m \in 0..Len(rows), s \in 0..PageSize :
        /\ s <= m
        /\ HistoryPage(b) \in Seq(Item) /\ Len(HistoryPage(b)) = s
        /\ \A k \in 1..s : HistoryPage(b)[k].id = m - k + 1
  BY <1>1, PageIs
<1>5. PICK h \in Seq(Item) : h = HistoryPage(b) /\ Len(h) = s /\ \A k \in 1..s : h[k].id = m - k + 1
  BY <1>4
<1>6. page' = HistoryResponse(h) /\ HistoryResponse(h) \in Pages
  BY <1>3, <1>5, MakesServerFrame DEF HandleHistoryRequest
<1>7. Within(HistoryResponse(h), Len(rows'))
  <2>1. HistoryResponse(h).type = "history_response" /\ HistoryResponse(h).messages = h
    BY DEF HistoryResponse
  <2>2. Len(rows) \in Nat /\ Len(rows') = Len(rows)  BY <1>1
  <2>3. \A k \in 1..s : m - k + 1 <= Len(rows')  BY <2>2
  <2>4. \A k \in 1..Len(h) : h[k].id <= Len(rows')  BY <1>5, <2>3
  <2>5. QED BY <2>1, <2>4 DEF Within
<1>8. ChatShape'
  BY <1>1, <1>6, ReadTakes
  DEF ShapeInv, ChatShape, ServerShape, WireShape, ClientShape, HandleHistoryRequest
<1>9. Known'  BY <1>1, <1>6, <1>7, KnownGrows, OutboxTaken DEF Known, HandleHistoryRequest
<1>10. QED BY <1>1, <1>2, <1>3, <1>5, <1>6, <1>8, <1>9 DEF ShapeInv

LEMMA ServerMarksReadShape ==
  ASSUME ShapeInv, ServerMarksRead
  PROVE  /\ ShapeInv' /\ Head(outbox).id \in 1..Len(rows) /\ Head(outbox) = AckRead(Head(outbox).id)
         /\ RowMarked(rows', Head(outbox).id) /\ rows'[Head(outbox).id].read = TRUE
<1>1. rows \in Seq(RowT) /\ Read("ack_read")
  BY DEF ShapeInv, ChatShape, ServerShape, ServerMarksRead
<1>2. Head(outbox).id \in Id /\ Head(outbox) = AckRead(Head(outbox).id)
  BY <1>1, ReadTakes, ClientFrameIs
<1>3. PICK i \in Id : i = Head(outbox).id  BY <1>2
<1>4. i \in 1..Len(rows)
  <2>1. i <= Len(rows)  BY <1>1, <1>3, ReadTakes DEF ShapeInv, Known
  <2>2. QED BY <1>1, <2>1 DEF Id
<1>5. rows' = [rows EXCEPT ![i].read = TRUE, ![i].delivered = TRUE]  BY <1>3 DEF ServerMarksRead
<1>6. RowMarked(rows', i) /\ rows'[i].read = TRUE  BY <1>1, <1>4, <1>5, MarkedRead, Zenon
<1>7. Grown(rows') /\ Len(rows') = Len(rows) /\ rows' \in Seq(RowT)  BY <1>6 DEF RowMarked, Grown
<1>8. ChatShape'
  <2>1. /\ UNCHANGED <<registered, relaying, greeting, page, acking, inbox>>
        /\ UNCHANGED <<link, contact, msgs, sends, losses>>
    BY DEF ServerMarksRead
  <2>2. ServerShape'  BY <1>7, <2>1 DEF ShapeInv, ChatShape, ServerShape
  <2>3. outbox' \in Seq(ClientFrame) /\ Len(outbox') <= OutCap /\ link = "up"  BY <1>1, ReadTakes
  <2>4. WireShape'  BY <2>1, <2>3 DEF ShapeInv, ChatShape, WireShape
  <2>5. ClientShape'  BY <2>1 DEF ShapeInv, ChatShape, ClientShape
  <2>6. QED BY <2>2, <2>4, <2>5 DEF ChatShape
<1>9. Known'  BY <1>1, <1>7, KnownGrows, OutboxTaken DEF Known, ServerMarksRead
<1>10. QED BY <1>2, <1>3, <1>4, <1>6, <1>8, <1>9 DEF ShapeInv

LEMMA StoreMessageShape ==
  ASSUME ShapeInv, StoreMessage
  PROVE  /\ ShapeInv' /\ Grown(rows') /\ Len(rows') = Len(rows) + 1 /\ Len(rows) + 1 \in Id
         /\ Head(outbox).cm \in Nat /\ Head(outbox) = Send(Head(outbox).cm)
         /\ rows'[Len(rows) + 1] = [mine |-> TRUE, cm |-> Head(outbox).cm,
                                    delivered |-> FALSE, read |-> FALSE]
         /\ \A j \in 1..Len(rows) : rows'[j] = rows[j]
<1>1. rows \in Seq(RowT) /\ Read("message")
  BY DEF ShapeInv, ChatShape, ServerShape, StoreMessage
<1>2. Head(outbox).cm \in Nat /\ Head(outbox) = Send(Head(outbox).cm)
  BY <1>1, ReadTakes, ClientFrameIs
<1>3. PICK cm \in Nat : cm = Head(outbox).cm  BY <1>2
<1> DEFINE r == [mine |-> TRUE, cm |-> cm, delivered |-> FALSE, read |-> FALSE]
<1>4. r \in RowT /\ rows' = Append(rows, r)  BY <1>3 DEF RowT, StoreMessage
<1>5. /\ Grown(rows') /\ Len(rows') = Len(rows) + 1 /\ rows'[Len(rows) + 1] = r
      /\ \A j \in 1..Len(rows) : rows'[j] = rows[j]
  BY <1>1, <1>4, GrownByOne
<1>6. rows' \in Seq(RowT)  BY <1>5 DEF Grown
<1>7. acking' \in Nat /\ acking' <= Len(rows') /\ Len(rows) + 1 \in Id
  BY <1>1, <1>5 DEF StoreMessage, Id
<1>8. ChatShape'
  BY <1>1, <1>6, <1>7, ReadTakes
  DEF ShapeInv, ChatShape, ServerShape, WireShape, ClientShape, StoreMessage
<1>9. Known'  BY <1>1, <1>5, <1>7, KnownGrows, OutboxTaken DEF Known, StoreMessage
<1>10. QED BY <1>2, <1>3, <1>5, <1>7, <1>8, <1>9 DEF ShapeInv

LEMMA SendAckShape ==
  ASSUME ShapeInv, SendAck
  PROVE  /\ ShapeInv' /\ Grown(rows') /\ acking \in 1..Len(rows) /\ rows[acking].cm \in Nat
         /\ MessageAck(rows[acking].cm, acking) \in ServerFrame
         /\ Within(MessageAck(rows[acking].cm, acking), Len(rows'))
<1>1. rows \in Seq(RowT) /\ rows' = rows /\ Grown(rows') /\ acking \in 1..Len(rows) /\ acking' = 0
  BY GrownNot DEF ShapeInv, ChatShape, ServerShape, Known, SendAck
<1>2. PICK f : f = MessageAck(rows[acking].cm, acking)  OBVIOUS
<1>3. rows[acking] \in RowT /\ acking \in Id  BY <1>1 DEF Id
<1>4. f \in ServerFrame /\ Within(f, Len(rows')) /\ rows[acking].cm \in Nat /\ ToClient(f)
  BY <1>1, <1>2, <1>3, MakesServerFrame DEF RowT, MessageAck, Within, SendAck
<1>5. /\ inbox' \in Seq(ServerFrame) /\ (link = "down" => inbox' = inbox) /\ losses' \in 0..MaxLosses
      /\ \A k \in 1..Len(inbox') : Within(inbox'[k], Len(rows'))
  BY <1>1, <1>4, ToClientIs, KnownGrows
<1>6. ChatShape'
  BY <1>1, <1>5 DEF ShapeInv, ChatShape, ServerShape, WireShape, ClientShape, SendAck
<1>7. Known'
  <2>1. 0 <= Len(rows')  BY <1>1
  <2>2. QED BY <1>1, <1>5, <2>1, KnownGrows DEF Known, SendAck
<1>8. QED BY <1>1, <1>2, <1>4, <1>6, <1>7 DEF ShapeInv

LEMMA HandlerFailsShape ==
  ASSUME ShapeInv, HandlerFails
  PROVE  ShapeInv' /\ rows' = rows
<1>1. rows' = rows /\ Grown(rows')
  BY GrownNot DEF ShapeInv, ChatShape, ServerShape, HandlerFails, server
<1>2. PICK type \in {"history_request", "ack_read", "message"} : Read(type)  BY DEF HandlerFails
<1>3. losses' \in 0..MaxLosses  BY ChatAssumption DEF ShapeInv, ChatShape, ServerShape, HandlerFails
<1>4. ChatShape'
  BY <1>2, <1>3, ReadTakes
  DEF ShapeInv, ChatShape, ServerShape, WireShape, ClientShape, HandlerFails, server
<1>5. Known'  BY <1>1, <1>2, KnownGrows, OutboxTaken DEF Known, HandlerFails, server
<1>6. QED BY <1>1, <1>4, <1>5 DEF ShapeInv

LEMMA LoseConnectionShape ==
  ASSUME ShapeInv, LoseConnection
  PROVE  ShapeInv' /\ rows' = rows
<1>1. rows' = rows /\ Grown(rows') /\ outbox' = <<>> /\ link' = "dead"
  BY GrownNot DEF ShapeInv, ChatShape, ServerShape, LoseConnection, server
<1>2. inbox \in Seq(ServerFrame)  BY DEF ShapeInv, ChatShape, WireShape
<1>3. PICK n \in 0..Len(inbox) : inbox' = SubSeq(inbox, 1, n)  BY DEF LoseConnection
<1>4. inbox' \in Seq(ServerFrame) /\ Len(inbox') = n /\ \A k \in 1..n : inbox'[k] = inbox[k]
  BY <1>2, <1>3, PrefixIs
<1>5. losses' \in 0..MaxLosses /\ OutCap \in Nat
  BY ChatAssumption DEF ShapeInv, ChatShape, ServerShape, LoseConnection
<1>6. ChatShape'
  BY <1>1, <1>4, <1>5
  DEF ShapeInv, ChatShape, ServerShape, WireShape, ClientShape, LoseConnection, server
<1>7. \A k \in 1..Len(inbox') : Within(inbox'[k], Len(rows'))  BY <1>1, <1>2, <1>4, KnownGrows
<1>8. Known'  BY <1>1, <1>7, KnownGrows DEF Known, LoseConnection, server
<1>9. QED BY <1>1, <1>6, <1>8 DEF ShapeInv

-----------------------------------------------------------------------------
(* The client's steps.                                                     *)

LEMMA RoomIs ==
  ASSUME NEW box, NEW n, BoxOK(box, n)
  PROVE  /\ Room(box) \in Nat /\ Len(box) \in Nat /\ Len(box) + Room(box) <= OutCap
         /\ link = "down" => Room(box) = 0
         /\ link # "down" => Room(box) = OutCap - Len(box)
<1>1. Len(box) \in Nat /\ OutCap \in Nat /\ Len(box) <= OutCap /\ (link = "down" => Len(box) = 0)
  BY ChatAssumption DEF BoxOK
<1>2. QED BY <1>1 DEF Room

LEMMA PutIs ==
  ASSUME NEW box, NEW n, BoxOK(box, n), NEW f \in ClientFrame, f.type # "ack_read"
  PROVE  /\ BoxOK(Put(box, f), n)
         /\ \A k \in 1..Len(box) : Put(box, f)[k] = box[k]
         /\ \/ Room(box) > 0 /\ Len(Put(box, f)) = Len(box) + 1 /\ Put(box, f)[Len(box) + 1] = f
            \/ Room(box) = 0 /\ Put(box, f) = box
<1>1. box \in Seq(ClientFrame)  BY DEF BoxOK
<1>2. CASE Room(box) > 0
  <2>1. Put(box, f) = Append(box, f) /\ link # "down" /\ Len(box) + 1 <= OutCap /\ Len(box) \in Nat
    BY <1>2, RoomIs, ChatAssumption DEF Put
  <2>2. PICK b : b = Put(box, f)  OBVIOUS
  <2>3. /\ b \in Seq(ClientFrame) /\ Len(b) = Len(box) + 1 /\ b[Len(box) + 1] = f
        /\ \A k \in 1..Len(box) : b[k] = box[k]
    BY <1>1, <2>1, <2>2, AppendIs
  <2>4. \A k \in 1..Len(b) : k \in 1..Len(box) \/ b[k] = f  BY <2>1, <2>3
  <2>5. \A k \in 1..Len(b) : b[k].type = "ack_read" => b[k].id <= n  BY <2>3, <2>4 DEF BoxOK
  <2>6. QED BY <1>2, <2>1, <2>2, <2>3, <2>5 DEF BoxOK
<1>3. CASE ~(Room(box) > 0)  BY <1>3, RoomIs DEF Put
<1>4. QED BY <1>2, <1>3

\* The acknowledgements of entries D that are not the client's own.
LEMMA AcksFit ==
  ASSUME NEW box, NEW n \in Nat, BoxOK(box, n), NEW ms, MsgsOK(ms, n), NEW D \in SUBSET DOMAIN ms,
         \A i \in D : ~ms[i].mine
  PROVE  /\ BoxOK(box \o Acks(ms, D, Room(box)), n)
         /\ Len(box \o Acks(ms, D, Room(box))) \in Nat
         /\ \A k \in 1..Len(box) : (box \o Acks(ms, D, Room(box)))[k] = box[k]
         /\ \A k \in 1..Len(box \o Acks(ms, D, Room(box))) :
              \/ k \in 1..Len(box)
              \/ \E i \in D : (box \o Acks(ms, D, Room(box)))[k] = AckRead(ms[i].id)
         /\ \A i \in Accepted(D, Room(box)) : \E k \in 1..Len(box \o Acks(ms, D, Room(box))) :
              (box \o Acks(ms, D, Room(box)))[k] = AckRead(ms[i].id)
<1>1. PICK r \in Nat : r = Room(box) /\ Len(box) + r <= OutCap /\ (link = "down" => r = 0)
  BY RoomIs
<1>2. ms \in Seq(EntryT) /\ box \in Seq(ClientFrame) /\ Len(box) \in Nat  BY DEF MsgsOK, BoxOK
<1>3. PICK a : a = Acks(ms, D, r)  OBVIOUS
<1>b. \A i \in Accepted(D, r) : \E k \in 1..Len(a) : a[k] = AckRead(ms[i].id)
  BY <1>2, <1>3, AcksAre, Zenon
<1>a. /\ Len(a) <= r /\ Len(a) \in Nat
      /\ \A k \in 1..Len(a) : \E i \in Accepted(D, r) : a[k] = AckRead(ms[i].id)
  BY <1>2, <1>3, AcksAre, Zenon
<1>c. DOMAIN a = 1..Len(a) /\ a = [k \in 1..Len(a) |-> a[k]]
  <2>1. PICK F : a \in Seq(F)  BY <1>2, <1>3, AcksAre, Zenon
  <2>2. QED BY <2>1
<1>4. Accepted(D, r) \in SUBSET D  BY DEF Accepted
<1>5. \A i \in D : ms[i].id \in Id /\ ms[i].id <= n  BY <1>2 DEF MsgsOK
<1>6. \A k \in 1..Len(a) : \E i \in D : a[k] = AckRead(ms[i].id)  BY <1>4, <1>a
<1>7. \A k \in 1..Len(a) : a[k] \in ClientFrame /\ (a[k].type = "ack_read" => a[k].id <= n)
  <2>1. \A i \in D : AckRead(ms[i].id) \in ClientFrame /\ AckRead(ms[i].id).id <= n
    BY <1>5, MakesClientFrame DEF AckRead
  <2>2. QED BY <1>6, <2>1
<1>8. a \in Seq(ClientFrame)
  <2>2. a \in [1..Len(a) -> ClientFrame]  BY <1>7, <1>c
  <2>3. QED BY <1>a, <2>2, FunIsSeq
<1>9. PICK b : b = box \o a  OBVIOUS
<1>10. /\ b \in Seq(ClientFrame) /\ Len(b) = Len(box) + Len(a)
       /\ \A k \in 1..Len(box) : b[k] = box[k]
       /\ \A k \in 1..Len(a) : b[Len(box) + k] = a[k]
  BY <1>2, <1>8, <1>9, ConcatIs
<1>11. \A k \in 1..Len(b) : k \in 1..Len(box) \/ \E l \in 1..Len(a) : b[k] = a[l]
  <2>1. TAKE k \in 1..Len(b)
  <2>2. CASE k > Len(box)
    <3>1. PICK l \in 1..Len(a) : k = Len(box) + l
      <4>1. k - Len(box) \in 1..Len(a) /\ k = Len(box) + (k - Len(box))  BY <1>2, <1>10, <1>a, <2>2
      <4>2. QED BY <4>1
    <3>2. QED BY <1>10, <3>1
  <2>3. CASE ~(k > Len(box))  BY <1>2, <1>10, <2>3
  <2>4. QED BY <2>2, <2>3
<1>12. \A i \in Accepted(D, r) : \E k \in 1..Len(b) : b[k] = AckRead(ms[i].id)
  <2>1. TAKE i \in Accepted(D, r)
  <2>2. PICK l \in 1..Len(a) : a[l] = AckRead(ms[i].id)  BY <1>b, Zenon
  <2>3. Len(box) + l \in 1..Len(b)  BY <1>2, <1>10, <1>a
  <2>5. b[Len(box) + l] = a[l]  BY <1>10
  <2>4. QED BY <2>2, <2>3, <2>5
<1>13. BoxOK(b, n)
  <2>1. Len(b) <= OutCap  BY <1>1, <1>2, <1>10, <1>a, ChatAssumption
  <2>2. link = "down" => b = <<>>
    <3>1. link = "down" => Len(b) = 0  BY <1>1, <1>2, <1>10, <1>a DEF BoxOK
    <3>2. QED BY <1>10, <3>1
  <2>3. \A k \in 1..Len(b) : b[k].type = "ack_read" => b[k].id <= n  BY <1>7, <1>10, <1>11 DEF BoxOK
  <2>4. QED BY <1>10, <2>1, <2>2, <2>3 DEF BoxOK
<1>14. Len(b) \in Nat  BY <1>10
<1>15. \A k \in 1..Len(b) : k \in 1..Len(box) \/ \E i \in D : b[k] = AckRead(ms[i].id)
  BY <1>6, <1>11
<1>16. b = box \o Acks(ms, D, Room(box))  BY <1>1, <1>3, <1>9
<1>17. QED BY <1>1, <1>10, <1>12, <1>13, <1>14, <1>15, <1>16

LEMMA MarkedOK ==
  ASSUME NEW ms, NEW n, MsgsOK(ms, n), NEW D, NEW room
  PROVE  MsgsOK(Marked(ms, D, room), n)
<1>1. PICK ns \in Seq(EntryT) :
        /\ ns = Marked(ms, D, room) /\ SameFaces(ms, ns)
        /\ \A i \in 1..Len(ms) : i \notin D => ns[i] = ms[i]
        /\ \A i \in 1..Len(ms) : i \in D => ns[i].seen = TRUE
  BY MarkedKeeps DEF MsgsOK
<1>2. Len(ns) = Len(ms) /\ \A i \in 1..Len(ms) : ns[i].id = ms[i].id /\ ns[i].mine = ms[i].mine
  BY <1>1 DEF SameFaces
<1>3. \A i \in 1..Len(ms) : ns[i].sent => ns[i].seen \/ ns[i].mine  BY <1>1 DEF MsgsOK
<1>4. MsgsOK(ns, n)  BY <1>2, <1>3 DEF MsgsOK
<1>5. QED BY <1>1, <1>4

LEMMA UnackedIs ==
  ASSUME NEW ms
  PROVE  /\ Unacked(ms) \in SUBSET DOMAIN ms /\ \A i \in Unacked(ms) : ~ms[i].mine
         /\ Pending(ms) \in SUBSET DOMAIN ms /\ \A i \in Pending(ms) : ~ms[i].mine
BY DEF Unacked, Pending

\* The last part of the handlers.
LEMMA ShowToIs ==
  ASSUME NEW c, NEW ms, NEW n \in Nat, BoxOK(outbox, n), MsgsOK(ms, n), ShowTo(c, ms)
  PROVE  /\ contact' = c
         /\ MsgsOK(msgs', n) /\ SameFaces(ms, msgs')
         /\ BoxOK(outbox', n)
         /\ \A k \in 1..Len(outbox) : k \in 1..Len(outbox') /\ outbox'[k] = outbox[k]
         /\ \A k \in 1..Len(outbox') : k \in 1..Len(outbox) \/ outbox'[k].type = "ack_read"
<1>1. ms \in Seq(EntryT) /\ outbox \in Seq(ClientFrame)  BY DEF MsgsOK, BoxOK
<1>2. CASE c.active
  <2>1. /\ msgs' = Marked(ms, Unacked(ms), Room(outbox))
        /\ outbox' = outbox \o Acks(ms, Unacked(ms), Room(outbox))
        /\ contact' = c
    BY <1>2 DEF ShowTo
  <2>2. MsgsOK(msgs', n) /\ SameFaces(ms, msgs')  BY <1>1, <2>1, MarkedOK, MarkedKeeps
  <2>3. /\ BoxOK(outbox', n) /\ Len(outbox') \in Nat
        /\ \A k \in 1..Len(outbox) : outbox'[k] = outbox[k]
        /\ \A k \in 1..Len(outbox') :
              \/ k \in 1..Len(outbox)
              \/ \E i \in Unacked(ms) : outbox'[k] = AckRead(ms[i].id)
    BY <2>1, AcksFit, UnackedIs
  <2>4. \A k \in 1..Len(outbox') : k \in 1..Len(outbox) \/ outbox'[k].type = "ack_read"
    <3>1. \A id : AckRead(id).type = "ack_read"  BY DEF AckRead
    <3>2. QED BY <2>3, <3>1
  <2>5. Len(outbox) <= Len(outbox')
    <3>1. PICK a : a = Acks(ms, Unacked(ms), Room(outbox))  OBVIOUS
    <3>2. Room(outbox) \in Nat  BY RoomIs
    <3>3. Unacked(ms) \in SUBSET DOMAIN ms  BY UnackedIs
    <3>4. a \in Seq({AckRead(ms[i].id) : i \in Accepted(Unacked(ms), Room(outbox))})
      BY <1>1, <3>1, <3>2, <3>3, AcksAre
    <3>5. outbox' = outbox \o a  BY <2>1, <3>1
    <3>6. Len(outbox') = Len(outbox) + Len(a) /\ Len(a) \in Nat  BY <1>1, <3>4, <3>5
    <3>7. QED BY <1>1, <3>6
  <2>6. \A k \in 1..Len(outbox) : k \in 1..Len(outbox')  BY <1>1, <2>3, <2>5
  <2>7. QED BY <2>1, <2>2, <2>3, <2>4, <2>6
<1>3. CASE ~c.active
  <2>1. msgs' = ms /\ outbox' = outbox /\ contact' = c  BY <1>3 DEF ShowTo
  <2>2. SameFaces(ms, msgs')  BY <2>1 DEF SameFaces
  <2>3. QED BY <2>1, <2>2
<1>4. QED BY <1>2, <1>3

\* What the client makes of a page.
LEMMA EntriesAre ==
  ASSUME rows \in Seq(RowT), NEW p \in Seq(Item), \A i \in 1..Len(p) : p[i].id <= Len(rows)
  PROVE  /\ MsgsOK(Entries(p), Len(rows)) /\ Len(Entries(p)) = Len(p)
         /\ \A i \in 1..Len(p) : \E k \in 1..Len(p) :
              /\ k = Len(p) - i + 1
              /\ Entries(p)[i].id = p[k].id /\ Entries(p)[i].id \in Id
              /\ Entries(p)[i].cm = 0 /\ Entries(p)[i].at = 2 * p[k].id
              /\ Entries(p)[i].mine = rows[p[k].id].mine
              /\ Entries(p)[i].mine => (Entries(p)[i].tick <=> p[k].read)
              /\ ~Entries(p)[i].mine => (Entries(p)[i].seen <=> p[k].read)
<1>1. PICK n \in Nat : n = Len(p) /\ DOMAIN p = 1..n  OBVIOUS
<1>2. /\ Reverse(p) \in Seq(Item) /\ Len(Reverse(p)) = n
      /\ \A i \in 1..n : Reverse(p)[i] = p[n - i + 1]
  BY <1>1, ReverseIs
<1> DEFINE e == Entries(p)
<1>3. ASSUME NEW i \in 1..n
      PROVE  \E k \in 1..n :
               /\ k = n - i + 1
               /\ e[i] \in EntryT
               /\ e[i].sent => (e[i].seen \/ e[i].mine)
               /\ e[i].id = p[k].id /\ e[i].id \in Id /\ e[i].id <= Len(rows)
               /\ e[i].cm = 0 /\ e[i].at = 2 * p[k].id
               /\ e[i].mine = rows[p[k].id].mine
               /\ e[i].mine => (e[i].tick <=> p[k].read)
               /\ ~e[i].mine => (e[i].seen <=> p[k].read)
  <2>1. PICK k \in 1..n : k = n - i + 1  OBVIOUS
  <2>2. PICK m \in Item : m = p[k] /\ m = Reverse(p)[i]  BY <1>1, <1>2, <2>1
  <2>3. m.id \in Id /\ m.read \in BOOLEAN /\ m.id \in 1..Len(rows)
    <3>1. m.id \in Id /\ m.read \in BOOLEAN /\ m.id <= Len(rows)  BY <1>1, <2>2 DEF Item
    <3>2. QED BY <3>1 DEF Id
  <2>4. rows[m.id] \in RowT  BY <2>3
  <2>5. PICK mine \in BOOLEAN : mine = rows[m.id].mine  BY <2>4 DEF RowT
  <2>6. PICK tick \in BOOLEAN : tick = (mine /\ m.read)  BY <2>3, <2>5
  <2>7. PICK done \in BOOLEAN : done = (mine \/ m.read)  BY <2>3, <2>5
  <2>8. e[i] = [id |-> m.id, cm |-> 0, at |-> 2 * m.id, mine |-> mine, tick |-> tick,
                seen |-> done, sent |-> done]
    BY <1>1, <2>2, <2>5, <2>6, <2>7 DEF Entries
  <2>9. 2 * m.id \in Nat /\ m.id \in Nat  BY <2>3 DEF Id
  <2>10. e[i] \in EntryT  BY <2>8, <2>9 DEF EntryT
  <2>11. /\ mine => (tick <=> m.read)
         /\ ~mine => (done <=> m.read)
    BY <2>6, <2>7
  <2>12. PICK x \in EntryT : x = e[i]  BY <2>10
  <2>13. /\ x.id = m.id /\ x.cm = 0 /\ x.at = 2 * m.id /\ x.mine = mine
         /\ x.tick = tick /\ x.seen = done /\ x.sent = done
    BY <2>8, <2>12
  <2>14. /\ x.sent => (x.seen \/ x.mine)
         /\ x.mine => (x.tick <=> m.read)
         /\ ~x.mine => (x.seen <=> m.read)
    BY <2>11, <2>13
  <2>15. x.id \in Id /\ x.id <= Len(rows) /\ x.mine = rows[m.id].mine  BY <2>3, <2>5, <2>13
  <2>16. QED BY <2>1, <2>2, <2>12, <2>13, <2>14, <2>15
<1>4. DOMAIN e = 1..n /\ e = [i \in 1..n |-> e[i]]  BY <1>1 DEF Entries
<1>5. PICK f : f = e  OBVIOUS
<1>6. f \in [1..n -> EntryT]
  <2>1. \A i \in 1..n : f[i] \in EntryT  BY <1>3, <1>5
  <2>2. f = [i \in 1..n |-> f[i]]  BY <1>4, <1>5
  <2>3. QED BY <2>1, <2>2
<1>7. f \in Seq(EntryT) /\ Len(f) = n  BY <1>6, FunIsSeq
<1>8. MsgsOK(f, Len(rows))  BY <1>3, <1>5, <1>7 DEF MsgsOK
<1>9. QED BY <1>1, <1>3, <1>5, <1>7, <1>8

LEMMA MergedFrom ==
  ASSUME NEW a \in Seq(EntryT), NEW b \in Seq(EntryT), NEW s \in MergeInitialHistory(a, b)
  PROVE  /\ s \in Seq(EntryT)
         /\ \A k \in 1..Len(s) : \/ \E i \in 1..Len(a) : s[k] = a[i]
                                 \/ \E j \in 1..Len(b) : /\ s[k] = b[j]
                                                         /\ \A i \in 1..Len(a) : a[i].id # b[j].id
         /\ \A i \in 1..Len(a) : \E k \in 1..Len(s) : s[k] = a[i]
         /\ \A j \in 1..Len(b) : \/ \E i \in 1..Len(a) : a[i].id = b[j].id
                                 \/ \E k \in 1..Len(s) : s[k] = b[j]
         /\ \A l \in 1..Len(s) : \A k \in 1..(l - 1) : s[k] # s[l] /\ s[k].at <= s[l].at
<1> DEFINE ids == {a[i].id : i \in DOMAIN a}
           B == {j \in DOMAIN b : b[j].id \notin ids}
           A1 == {a[i] : i \in DOMAIN a}
           B1 == {b[j] : j \in B}
           all == A1 \cup B1
<1>1. DOMAIN a = 1..Len(a) /\ DOMAIN b = 1..Len(b) /\ Len(a) \in Nat /\ Len(b) \in Nat  OBVIOUS
<1>2. s \in [1..Cardinality(all) -> all]
      /\ \A l \in DOMAIN s : \A k \in 1..(l - 1) : s[k] # s[l] /\ s[k].at <= s[l].at
  BY DEF MergeInitialHistory
<1>3. IsFiniteSet(all)
  <2>1. IsFiniteSet(1..Len(a)) /\ IsFiniteSet(1..Len(b))  BY <1>1, FS_Interval
  <2>2. IsFiniteSet(A1)
    <3>1. [i \in 1..Len(a) |-> a[i]] \in Surjection(1..Len(a), A1)  BY <1>1 DEF Surjection
    <3>2. QED BY <2>1, <3>1, FS_Surjection
  <2>3. IsFiniteSet(B)  BY <1>1, <2>1, FS_Subset
  <2>4. IsFiniteSet(B1)
    <3>1. [j \in B |-> b[j]] \in Surjection(B, B1)  BY DEF Surjection
    <3>2. QED BY <2>3, <3>1, FS_Surjection
  <2>5. QED BY <2>2, <2>4, FS_Union
<1>4. PICK n \in Nat : n = Cardinality(all)  BY <1>3, FS_CardinalityType
<1> HIDE DEF all
<1>5. s \in [1..n -> all] /\ DOMAIN s = 1..n  BY <1>2, <1>4
<1>6. s \in Seq(all) /\ Len(s) = n  BY <1>5, FunIsSeq
<1>7. \A l \in 1..n : \A k \in 1..(l - 1) : s[k] # s[l] /\ s[k].at <= s[l].at  BY <1>2, <1>5
<1>8. s \in Injection(1..n, all)
  <2>1. \A k, l \in 1..n : k < l => s[k] # s[l]  BY <1>7
  <2>2. \A k, l \in 1..n : s[k] = s[l] => k = l  BY <2>1
  <2>3. QED BY <1>5, <2>2, Fun_IsInj DEF Injection, IsInjective
<1>9. s \in Surjection(1..n, all)
  <2>1. Cardinality(1..n) = n  BY FS_Interval
  <2>2. QED BY <1>3, <1>4, <1>8, <2>1, FS_Injection
<1>10. \A e \in all : \E k \in 1..n : s[k] = e  BY <1>9 DEF Surjection
<1>11. \A k \in 1..n : s[k] \in all  BY <1>5
<1>12. \A e \in all : \/ \E i \in 1..Len(a) : e = a[i]
                      \/ \E j \in 1..Len(b) : e = b[j] /\ \A i \in 1..Len(a) : a[i].id # b[j].id
  BY <1>1 DEF all
<1>13. \A i \in 1..Len(a) : a[i] \in all  BY <1>1 DEF all
<1>14. \A j \in 1..Len(b) : (\E i \in 1..Len(a) : a[i].id = b[j].id) \/ b[j] \in all
  BY <1>1 DEF all
<1>15. \A e \in all : e \in EntryT  BY <1>12
<1>16. s \in Seq(EntryT)
  <2>1. s \in [1..n -> EntryT]  BY <1>5, <1>11, <1>15
  <2>2. QED BY <2>1, FunIsSeq
<1>17. QED BY <1>6, <1>7, <1>10, <1>11, <1>12, <1>13, <1>14, <1>16

LEMMA ReceiveTakes ==
  ASSUME ShapeInv, NEW type, Receive(type)
  PROVE  /\ inbox' \in Seq(ServerFrame) /\ Len(inbox') = Len(inbox) - 1 /\ Len(inbox) \in Nat
         /\ \A k \in 1..Len(inbox') : k + 1 \in 1..Len(inbox) /\ inbox'[k] = inbox[k + 1]
         /\ \A k \in 1..Len(inbox) : k = 1 \/ (k - 1 \in 1..Len(inbox') /\ inbox'[k - 1] = inbox[k])
         /\ Head(inbox) \in ServerFrame /\ Head(inbox).type = type /\ Head(inbox) = inbox[1]
         /\ 1 \in 1..Len(inbox)
         /\ Within(Head(inbox), Len(rows)) /\ link # "down"
         /\ \A k \in 1..Len(inbox') : Within(inbox'[k], Len(rows))
<1>1. PICK q \in Seq(ServerFrame) : q = inbox  BY DEF ShapeInv, ChatShape, WireShape
<1>2. q # <<>> /\ inbox' = Tail(q) /\ Head(q).type = type  BY <1>1 DEF Receive
<1>3. /\ Tail(q) \in Seq(ServerFrame) /\ Len(Tail(q)) = Len(q) - 1 /\ Head(q) = q[1]
      /\ Head(q) \in ServerFrame
      /\ \A k \in 1..Len(Tail(q)) : k + 1 \in 1..Len(q) /\ Tail(q)[k] = q[k + 1]
  BY <1>2, TailIs
<1>4. 1 \in 1..Len(q) /\ Len(q) \in Nat  BY <1>2
<1>5. \A k \in 1..Len(q) : k = 1 \/ (k - 1 \in 1..Len(Tail(q)) /\ Tail(q)[k - 1] = q[k])
  BY <1>3, <1>4
<1>6. \A k \in 1..Len(q) : Within(q[k], Len(rows))  BY <1>1 DEF ShapeInv, Known
<1>7. link # "down"  BY <1>1, <1>2 DEF ShapeInv, ChatShape, WireShape
<1>8. QED BY <1>1, <1>2, <1>3, <1>4, <1>5, <1>6, <1>7

LEMMA AppendedOK ==
  ASSUME NEW ms, NEW n, MsgsOK(ms, n), NEW e \in EntryT,
         ~e.mine => e.id \in Id, e.sent => e.seen \/ e.mine, e.id <= n
  PROVE  /\ MsgsOK(Append(ms, e), n) /\ Len(Append(ms, e)) = Len(ms) + 1
         /\ Append(ms, e)[Len(ms) + 1] = e
         /\ \A i \in 1..Len(ms) : Append(ms, e)[i] = ms[i]
<1>1. ms \in Seq(EntryT)  BY DEF MsgsOK
<1>2. PICK b : b = Append(ms, e)  OBVIOUS
<1>3. /\ b \in Seq(EntryT) /\ Len(b) = Len(ms) + 1 /\ b[Len(ms) + 1] = e
      /\ \A k \in 1..Len(ms) : b[k] = ms[k]
  BY <1>1, <1>2, AppendIs
<1>4. \A k \in 1..Len(b) : k \in 1..Len(ms) \/ b[k] = e  BY <1>1, <1>3
<1>5. MsgsOK(b, n)  BY <1>3, <1>4 DEF MsgsOK
<1>6. QED BY <1>2, <1>3, <1>5

LEMMA ConcatOK ==
  ASSUME NEW a, NEW b, NEW n, MsgsOK(a, n), MsgsOK(b, n)
  PROVE  /\ MsgsOK(a \o b, n) /\ Len(a \o b) = Len(a) + Len(b)
         /\ \A k \in 1..Len(a) : (a \o b)[k] = a[k]
         /\ \A k \in 1..Len(b) : (a \o b)[Len(a) + k] = b[k]
         /\ \A k \in 1..Len(a \o b) : k \in 1..Len(a) \/ \E l \in 1..Len(b) : k = Len(a) + l
<1>1. a \in Seq(EntryT) /\ b \in Seq(EntryT) /\ Len(a) \in Nat /\ Len(b) \in Nat  BY DEF MsgsOK
<1>2. PICK c : c = a \o b  OBVIOUS
<1>3. /\ c \in Seq(EntryT) /\ Len(c) = Len(a) + Len(b)
      /\ \A k \in 1..Len(a) : c[k] = a[k]
      /\ \A k \in 1..Len(b) : c[Len(a) + k] = b[k]
  BY <1>1, <1>2, ConcatIs
<1>4. \A k \in 1..Len(c) : k \in 1..Len(a) \/ \E l \in 1..Len(b) : k = Len(a) + l
  <2>1. TAKE k \in 1..Len(c)
  <2>2. CASE k > Len(a)
    <3>1. k - Len(a) \in 1..Len(b) /\ k = Len(a) + (k - Len(a))  BY <1>1, <1>3, <2>2
    <3>2. QED BY <3>1
  <2>3. CASE ~(k > Len(a))  BY <1>1, <1>3, <2>3
  <2>4. QED BY <2>2, <2>3
<1>5. \A k \in 1..Len(c) : (\E l \in 1..Len(a) : c[k] = a[l]) \/ (\E l \in 1..Len(b) : c[k] = b[l])
  BY <1>3, <1>4
<1>6. MsgsOK(c, n)
  <2>1. ASSUME NEW k \in 1..Len(c)
        PROVE  /\ ~c[k].mine => c[k].id \in Id
               /\ c[k].sent => c[k].seen \/ c[k].mine
               /\ c[k].id <= n
    <3>1. CASE \E l \in 1..Len(a) : c[k] = a[l]  BY <3>1 DEF MsgsOK
    <3>2. CASE \E l \in 1..Len(b) : c[k] = b[l]  BY <3>2 DEF MsgsOK
    <3>3. QED BY <1>5, <3>1, <3>2
  <2>2. QED BY <1>3, <2>1 DEF MsgsOK
<1>7. QED BY <1>2, <1>3, <1>4, <1>6

LEMMA MergedOK ==
  ASSUME NEW a, NEW b, NEW n, MsgsOK(a, n), MsgsOK(b, n), NEW s \in MergeInitialHistory(a, b)
  PROVE  MsgsOK(s, n)
<1>1. a \in Seq(EntryT) /\ b \in Seq(EntryT)  BY DEF MsgsOK
<1>2. /\ s \in Seq(EntryT)
      /\ \A k \in 1..Len(s) : \/ \E i \in 1..Len(a) : s[k] = a[i]
                              \/ \E j \in 1..Len(b) : s[k] = b[j]
  BY <1>1, MergedFrom
<1>3. QED BY <1>2 DEF MsgsOK

LEMMA AckedOK ==
  ASSUME NEW ms, NEW n, MsgsOK(ms, n), NEW f, f.id \in Id, f.id <= n
  PROVE  /\ MsgsOK(AckedIn(ms, f), n) /\ Len(AckedIn(ms, f)) = Len(ms)
         /\ \A i \in 1..Len(ms) :
              /\ AckedIn(ms, f)[i].mine = ms[i].mine /\ AckedIn(ms, f)[i].cm = ms[i].cm
              /\ AckedIn(ms, f)[i].at = ms[i].at /\ AckedIn(ms, f)[i].tick = ms[i].tick
              /\ AckedIn(ms, f)[i].seen = ms[i].seen /\ AckedIn(ms, f)[i].sent = ms[i].sent
              /\ \/ ms[i].mine /\ ms[i].cm = f.cm /\ AckedIn(ms, f)[i].id = f.id
                 \/ ~(ms[i].mine /\ ms[i].cm = f.cm) /\ AckedIn(ms, f)[i] = ms[i]
<1>1. ms \in Seq(EntryT)  BY DEF MsgsOK
<1>2. PICK l \in Nat : l = Len(ms) /\ DOMAIN ms = 1..l  BY <1>1
<1>3. PICK g : g = AckedIn(ms, f)  OBVIOUS
<1>4. g = [i \in 1..l |-> IF ms[i].mine /\ ms[i].cm = f.cm THEN [ms[i] EXCEPT !.id = f.id] ELSE ms[i]]
  BY <1>2, <1>3 DEF AckedIn
<1>5. ASSUME NEW i \in 1..l
      PROVE  /\ g[i] \in EntryT
             /\ g[i].mine = ms[i].mine /\ g[i].cm = ms[i].cm
             /\ g[i].at = ms[i].at /\ g[i].tick = ms[i].tick
             /\ g[i].seen = ms[i].seen /\ g[i].sent = ms[i].sent
             /\ \/ ms[i].mine /\ ms[i].cm = f.cm /\ g[i].id = f.id
                \/ ~(ms[i].mine /\ ms[i].cm = f.cm) /\ g[i] = ms[i]
  <2>1. ms[i] \in EntryT  BY <1>1, <1>2
  <2>2. CASE ms[i].mine /\ ms[i].cm = f.cm
    <3>1. g[i] = [ms[i] EXCEPT !.id = f.id]  BY <1>4, <2>2
    <3>2. f.id \in Nat  BY DEF Id
    <3>3. QED BY <2>1, <2>2, <3>1, <3>2 DEF EntryT
  <2>3. CASE ~(ms[i].mine /\ ms[i].cm = f.cm)
    <3>1. g[i] = ms[i]  BY <1>4, <2>3
    <3>2. QED BY <2>1, <2>3, <3>1
  <2>4. QED BY <2>2, <2>3
<1>6. g \in Seq(EntryT) /\ Len(g) = l
  <2>1. DOMAIN g = 1..l /\ g = [i \in 1..l |-> g[i]]  BY <1>4
  <2>2. \A i \in 1..l : g[i] \in EntryT  BY <1>5
  <2>3. g \in [1..l -> EntryT]  BY <2>1, <2>2
  <2>4. QED BY <2>3, FunIsSeq
<1>7. MsgsOK(g, n)
  <2>1. ASSUME NEW i \in 1..l
        PROVE  /\ ~g[i].mine => g[i].id \in Id
               /\ g[i].sent => g[i].seen \/ g[i].mine
               /\ g[i].id <= n
    <3>1. /\ ~ms[i].mine => ms[i].id \in Id
          /\ ms[i].sent => ms[i].seen \/ ms[i].mine
          /\ ms[i].id <= n
      BY <1>2 DEF MsgsOK
    <3>2. QED BY <1>5, <3>1
  <2>2. QED BY <1>6, <2>1 DEF MsgsOK
<1>8. QED BY <1>2, <1>3, <1>5, <1>6, <1>7

LEMMA TickedOK ==
  ASSUME NEW ms, NEW n, MsgsOK(ms, n), NEW id
  PROVE  /\ MsgsOK(MarkTick(ms, id), n) /\ Len(MarkTick(ms, id)) = Len(ms)
         /\ \A i \in 1..Len(ms) :
              /\ MarkTick(ms, id)[i].mine = ms[i].mine /\ MarkTick(ms, id)[i].cm = ms[i].cm
              /\ MarkTick(ms, id)[i].at = ms[i].at /\ MarkTick(ms, id)[i].id = ms[i].id
              /\ MarkTick(ms, id)[i].seen = ms[i].seen /\ MarkTick(ms, id)[i].sent = ms[i].sent
              /\ ms[i].tick => MarkTick(ms, id)[i].tick
              /\ (ms[i].mine /\ ms[i].id = id /\ \A j \in 1..(i - 1) : ms[j].id # id)
                   => MarkTick(ms, id)[i].tick
<1>1. ms \in Seq(EntryT)  BY DEF MsgsOK
<1>2. PICK l \in Nat : l = Len(ms) /\ DOMAIN ms = 1..l  BY <1>1
<1>3. PICK g : g = MarkTick(ms, id)  OBVIOUS
<1>4. g = [i \in 1..l |-> IF ms[i].mine /\ ms[i].id = id /\ \A j \in 1..(i - 1) : ms[j].id # id
                          THEN [ms[i] EXCEPT !.tick = TRUE] ELSE ms[i]]
  BY <1>2, <1>3 DEF MarkTick
<1>5. ASSUME NEW i \in 1..l
      PROVE  /\ g[i] \in EntryT
             /\ g[i].mine = ms[i].mine /\ g[i].cm = ms[i].cm
             /\ g[i].at = ms[i].at /\ g[i].id = ms[i].id
             /\ g[i].seen = ms[i].seen /\ g[i].sent = ms[i].sent
             /\ ms[i].tick => g[i].tick
             /\ (ms[i].mine /\ ms[i].id = id /\ \A j \in 1..(i - 1) : ms[j].id # id) => g[i].tick
  <2>1. ms[i] \in EntryT  BY <1>1, <1>2
  <2>2. CASE ms[i].mine /\ ms[i].id = id /\ \A j \in 1..(i - 1) : ms[j].id # id
    <3>1. g[i] = [ms[i] EXCEPT !.tick = TRUE]  BY <1>4, <2>2
    <3>2. QED BY <2>1, <2>2, <3>1 DEF EntryT
  <2>3. CASE ~(ms[i].mine /\ ms[i].id = id /\ \A j \in 1..(i - 1) : ms[j].id # id)
    <3>1. g[i] = ms[i]  BY <1>4, <2>3
    <3>2. QED BY <2>1, <2>3, <3>1
  <2>4. QED BY <2>2, <2>3
<1>6. g \in Seq(EntryT) /\ Len(g) = l
  <2>1. DOMAIN g = 1..l /\ g = [i \in 1..l |-> g[i]]  BY <1>4
  <2>2. \A i \in 1..l : g[i] \in EntryT  BY <1>5
  <2>3. g \in [1..l -> EntryT]  BY <2>1, <2>2
  <2>4. QED BY <2>3, FunIsSeq
<1>7. MsgsOK(g, n)
  <2>1. ASSUME NEW i \in 1..l
        PROVE  /\ ~g[i].mine => g[i].id \in Id
               /\ g[i].sent => g[i].seen \/ g[i].mine
               /\ g[i].id <= n
    <3>1. /\ ~ms[i].mine => ms[i].id \in Id
          /\ ms[i].sent => ms[i].seen \/ ms[i].mine
          /\ ms[i].id <= n
      BY <1>2 DEF MsgsOK
    <3>2. QED BY <1>5, <3>1
  <2>2. QED BY <1>6, <2>1 DEF MsgsOK
<1>8. QED BY <1>2, <1>3, <1>5, <1>6, <1>7

LEMMA ClientStepShape ==
  ASSUME ShapeInv, UNCHANGED <<server, link, losses>>, sends' \in 0..MaxSends,
         ContactOK(contact'), BoxOK(outbox', Len(rows)), MsgsOK(msgs', Len(rows)),
         inbox' \in Seq(ServerFrame), link = "down" => inbox' = <<>>,
         \A k \in 1..Len(inbox') : Within(inbox'[k], Len(rows))
  PROVE  ShapeInv'
<1>1. rows' = rows /\ registered' = registered /\ relaying' = relaying /\ greeting' = greeting
      /\ page' = page /\ acking' = acking /\ link' = link /\ losses' = losses
  BY DEF server
<1>2. ServerShape'  BY <1>1 DEF ShapeInv, ChatShape, ServerShape
<1>3. WireShape'  BY <1>1 DEF ShapeInv, ChatShape, WireShape, BoxOK
<1>4. ClientShape'  BY DEF ContactOK, ContactT, MsgsOK, ClientShape
<1>5. Known'  BY <1>1 DEF ShapeInv, Known, BoxOK, MsgsOK
<1>6. QED BY <1>2, <1>3, <1>4, <1>5 DEF ShapeInv, ChatShape

LEMMA ShapeGives ==
  ASSUME ShapeInv
  PROVE  /\ ContactOK(contact) /\ BoxOK(outbox, Len(rows)) /\ MsgsOK(msgs, Len(rows))
         /\ rows \in Seq(RowT) /\ Len(rows) \in Nat
         /\ inbox \in Seq(ServerFrame) /\ (link = "down" => inbox = <<>>)
         /\ \A k \in 1..Len(inbox) : Within(inbox[k], Len(rows))
         /\ sends \in 0..MaxSends /\ ServerShape
BY DEF ShapeInv, ChatShape, ServerShape, WireShape, ClientShape, Known, ContactOK, ContactT,
       BoxOK, MsgsOK

\* A contact is changed in a field or two.
LEMMA ContactEdits ==
  ASSUME NEW c, ContactOK(c)
  PROVE  /\ c.known => ContactOK([c EXCEPT !.loading = TRUE])
         /\ c.known => ContactOK([c EXCEPT !.active = TRUE, !.unread = 0])
         /\ ContactOK([c EXCEPT !.active = FALSE])
         /\ c.known /\ ~c.active => ContactOK([c EXCEPT !.unread = c.unread + 1])
         /\ \A a \in BOOLEAN : (a = c.active \/ ~c.known) =>
              ContactOK([c EXCEPT !.known = TRUE, !.active = a])
<1>1. c \in ContactT /\ (c.active => c.known /\ c.unread = 0) /\ (c.loading => c.known)
      /\ (~c.known => c.unread = 0)
  BY DEF ContactOK
<1>2. ASSUME c.known PROVE ContactOK([c EXCEPT !.loading = TRUE])
  <2>1. PICK d : d = [c EXCEPT !.loading = TRUE]  OBVIOUS
  <2>2. d \in ContactT /\ d.known = c.known /\ d.active = c.active /\ d.unread = c.unread
    BY <1>1, <2>1 DEF ContactT
  <2>3. QED BY <1>1, <1>2, <2>1, <2>2 DEF ContactOK
<1>3. ASSUME c.known PROVE ContactOK([c EXCEPT !.active = TRUE, !.unread = 0])
  <2>1. PICK d : d = [c EXCEPT !.active = TRUE, !.unread = 0]  OBVIOUS
  <2>2. d \in ContactT /\ d.known = c.known /\ d.unread = 0 /\ d.loading = c.loading
    BY <1>1, <2>1 DEF ContactT
  <2>3. QED BY <1>1, <1>3, <2>1, <2>2 DEF ContactOK
<1>4. ContactOK([c EXCEPT !.active = FALSE])
  <2>1. PICK d : d = [c EXCEPT !.active = FALSE]  OBVIOUS
  <2>2. /\ d \in ContactT /\ d.known = c.known /\ d.active = FALSE /\ d.loading = c.loading
        /\ d.unread = c.unread
    BY <1>1, <2>1 DEF ContactT
  <2>3. QED BY <1>1, <2>1, <2>2 DEF ContactOK
<1>5. ASSUME c.known, ~c.active PROVE ContactOK([c EXCEPT !.unread = c.unread + 1])
  <2>1. PICK d : d = [c EXCEPT !.unread = c.unread + 1]  OBVIOUS
  <2>2. d \in ContactT /\ d.known = c.known /\ d.active = c.active /\ d.loading = c.loading
    BY <1>1, <2>1 DEF ContactT
  <2>3. QED BY <1>1, <1>5, <2>1, <2>2 DEF ContactOK
<1>6. ASSUME NEW a \in BOOLEAN, a = c.active \/ ~c.known
      PROVE  ContactOK([c EXCEPT !.known = TRUE, !.active = a])
  <2>1. PICK d : d = [c EXCEPT !.known = TRUE, !.active = a]  OBVIOUS
  <2>2. d \in ContactT /\ d.known = TRUE /\ d.active = a /\ d.unread = c.unread
    BY <1>1, <2>1 DEF ContactT
  <2>3. QED BY <1>1, <1>6, <2>1, <2>2 DEF ContactOK
<1>7. QED BY <1>2, <1>3, <1>4, <1>5, <1>6

\* requestHistory
LEMMA RequestIs ==
  ASSUME NEW c, ContactOK(c), c.known, NEW box, NEW n, BoxOK(box, n), NEW gone, NEW before \in Int,
         RequestHistory(c, box, gone, before)
  PROVE  /\ contact' = [c EXCEPT !.loading = TRUE] /\ ContactOK(contact')
         /\ BoxOK(outbox', n)
         /\ \A k \in 1..Len(box) : k \in 1..Len(outbox') /\ outbox'[k] = box[k]
         /\ \/ /\ Len(outbox') = Len(box) + 1 /\ outbox'[Len(box) + 1] = HistoryRequest(before)
               /\ Len(box) \in Nat /\ lost' = gone
            \/ outbox' = box /\ lost' = gone \cup {HistoryRequest(before)}
<1>1. contact' = [c EXCEPT !.loading = TRUE] /\ outbox' = Put(box, HistoryRequest(before))
      /\ lost' = IF Room(box) > 0 THEN gone ELSE gone \cup {HistoryRequest(before)}
  BY DEF RequestHistory
<1>2. HistoryRequest(before) \in ClientFrame /\ HistoryRequest(before).type # "ack_read"
  BY MakesClientFrame DEF HistoryRequest
<1>3. /\ BoxOK(outbox', n)
      /\ \A k \in 1..Len(box) : outbox'[k] = box[k]
      /\ \/ /\ Room(box) > 0 /\ Len(outbox') = Len(box) + 1
            /\ outbox'[Len(box) + 1] = HistoryRequest(before)
         \/ Room(box) = 0 /\ outbox' = box
  BY <1>1, <1>2, PutIs
<1>4. ContactOK(contact')  BY <1>1, ContactEdits
<1>5. Len(box) \in Nat /\ Room(box) \in Nat  BY RoomIs
<1>6. \A k \in 1..Len(box) : k \in 1..Len(outbox')  BY <1>3, <1>5
<1>7. QED BY <1>1, <1>3, <1>4, <1>5, <1>6

\* maybeLoadHistory
LEMMA MaybeLoadIs ==
  ASSUME NEW c, ContactOK(c), NEW box, NEW n, BoxOK(box, n), NEW gone,
         MaybeLoadHistory(c, box, gone)
  PROVE  /\ ContactOK(contact') /\ BoxOK(outbox', n) /\ gone \subseteq lost'
         /\ \A k \in 1..Len(box) : k \in 1..Len(outbox') /\ outbox'[k] = box[k]
         /\ \/ /\ contact' = [c EXCEPT !.loading = TRUE] /\ c.active /\ ~c.loaded /\ ~c.loading
               /\ \/ /\ Len(outbox') = Len(box) + 1 /\ outbox'[Len(box) + 1] = HistoryRequest(Latest)
                     /\ Len(box) \in Nat /\ lost' = gone
                  \/ outbox' = box /\ lost' = gone \cup {HistoryRequest(Latest)}
            \/ contact' = c /\ outbox' = box /\ lost' = gone
<1>1. CASE c.active /\ ~c.loaded /\ ~c.loading
  <2>1. RequestHistory(c, box, gone, Latest)  BY <1>1 DEF MaybeLoadHistory
  <2>2. c.known /\ Latest \in Int  BY <1>1 DEF ContactOK, Latest
  <2>3. /\ contact' = [c EXCEPT !.loading = TRUE] /\ ContactOK(contact')
        /\ BoxOK(outbox', n)
        /\ \A k \in 1..Len(box) : k \in 1..Len(outbox') /\ outbox'[k] = box[k]
        /\ \/ /\ Len(outbox') = Len(box) + 1 /\ outbox'[Len(box) + 1] = HistoryRequest(Latest)
              /\ Len(box) \in Nat /\ lost' = gone
           \/ outbox' = box /\ lost' = gone \cup {HistoryRequest(Latest)}
    BY <2>1, <2>2, RequestIs
  <2>4. gone \subseteq lost'  BY <2>3
  <2>5. QED BY <1>1, <2>3, <2>4
<1>2. CASE ~(c.active /\ ~c.loaded /\ ~c.loading)
  <2>1. contact' = c /\ outbox' = box /\ lost' = gone  BY <1>2 DEF MaybeLoadHistory
  <2>2. QED BY <2>1
<1>3. QED BY <1>1, <1>2

LEMMA OpenIs ==
  ASSUME ShapeInv, Open
  PROVE  \E c, box, gone :
           /\ box = outbox \o Acks(msgs, Unacked(msgs), Room(outbox))
           /\ gone = lost \cup Refused(msgs, Unacked(msgs), Room(outbox))
           /\ MaybeLoadHistory(c, box, gone) /\ ContactOK(c) /\ BoxOK(box, Len(rows))
           /\ c.loading = contact.loading /\ c.loaded = contact.loaded
           /\ c.exhausted = contact.exhausted /\ c.unread = 0
<1>1. PICK c, box, gone :
        /\ c = [contact EXCEPT !.active = TRUE, !.unread = 0]
        /\ box = outbox \o Acks(msgs, Unacked(msgs), Room(outbox))
        /\ gone = lost \cup Refused(msgs, Unacked(msgs), Room(outbox))
  OBVIOUS
<1>2. MaybeLoadHistory(c, box, gone)  BY <1>1 DEF Open
<1>3. ContactOK(c) /\ BoxOK(box, Len(rows))
  BY <1>1, ShapeGives, ContactEdits, UnackedIs, AcksFit DEF Open
<1>4. /\ c.loading = contact.loading /\ c.loaded = contact.loaded
      /\ c.exhausted = contact.exhausted /\ c.unread = 0
  BY <1>1, ShapeGives DEF ContactOK, ContactT
<1>5. QED BY <1>1, <1>2, <1>3, <1>4

LEMMA ListIs ==
  ASSUME ShapeInv, HandleContactList
  PROVE  \E c : /\ MaybeLoadHistory(c, outbox, lost) /\ ContactOK(c)
                /\ c.loading = contact.loading /\ c.loaded = contact.loaded
                /\ c.exhausted = contact.exhausted /\ c.unread = contact.unread
<1>1. PICK first \in BOOLEAN :
        MaybeLoadHistory([contact EXCEPT !.known = TRUE,
                            !.active = IF contact.known THEN @ ELSE first], outbox, lost)
  BY DEF HandleContactList
<1>2. PICK a \in BOOLEAN : a = IF contact.known THEN contact.active ELSE first
  BY ShapeGives DEF ContactOK, ContactT
<1>3. PICK c : c = [contact EXCEPT !.known = TRUE, !.active = a]  OBVIOUS
<1>4. MaybeLoadHistory(c, outbox, lost)  BY <1>1, <1>2, <1>3
<1>5. ContactOK(c)  BY <1>2, <1>3, ShapeGives, ContactEdits
<1>6. /\ c.loading = contact.loading /\ c.loaded = contact.loaded
      /\ c.exhausted = contact.exhausted /\ c.unread = contact.unread
  BY <1>3, ShapeGives DEF ContactOK, ContactT
<1>7. QED BY <1>4, <1>5, <1>6

LEMMA OpenShape ==
  ASSUME ShapeInv, Open
  PROVE  ShapeInv' /\ SameFaces(msgs, msgs') /\ Queued
<1>1. PICK c, box, gone :
        /\ box = outbox \o Acks(msgs, Unacked(msgs), Room(outbox))
        /\ MaybeLoadHistory(c, box, gone) /\ ContactOK(c) /\ BoxOK(box, Len(rows))
  BY OpenIs
<1>2. /\ ContactOK(contact') /\ BoxOK(outbox', Len(rows))
      /\ \A k \in 1..Len(box) : k \in 1..Len(outbox') /\ outbox'[k] = box[k]
  BY <1>1, MaybeLoadIs
<1>3. MsgsOK(msgs', Len(rows)) /\ SameFaces(msgs, msgs')
  BY ShapeGives, MarkedOK, MarkedKeeps DEF Open, MsgsOK
<1>4. UNCHANGED <<server, link, losses>> /\ sends' = sends /\ inbox' = inbox  BY DEF Open
<1>5. ShapeInv'  BY <1>2, <1>3, <1>4, ShapeGives, ClientStepShape
<1>6. Queued
  <2>1. PICK a : a = Acks(msgs, Unacked(msgs), Room(outbox))  OBVIOUS
  <2>2. PICK S : a \in Seq(S)  BY <2>1, ShapeGives, RoomIs, UnackedIs, AcksAre DEF MsgsOK
  <2>3. outbox \in Seq(ClientFrame)  BY ShapeGives DEF BoxOK
  <2>4. \A k \in 1..Len(outbox) : k \in 1..Len(box) /\ box[k] = outbox[k]  BY <1>1, <2>1, <2>2, <2>3
  <2>5. QED BY <1>2, <2>4 DEF Queued
<1>7. QED BY <1>3, <1>5, <1>6

LEMMA LeaveShape ==
  ASSUME ShapeInv, Leave
  PROVE  ShapeInv' /\ msgs' = msgs
<1>1. ContactOK(contact') /\ outbox' = outbox /\ msgs' = msgs /\ UNCHANGED <<server, link, losses>>
      /\ sends' = sends /\ inbox' = inbox
  BY ShapeGives, ContactEdits DEF Leave
<1>2. QED BY <1>1, ShapeGives, ClientStepShape

LEMMA LoadMoreShape ==
  ASSUME ShapeInv, LoadMore
  PROVE  /\ ShapeInv' /\ msgs' = msgs /\ msgs[1].at + Zone \in Int /\ contact.known
         /\ msgs[1] \in EntryT /\ 1 \in 1..Len(msgs) /\ Queued
<1>1. RequestHistory(contact, outbox, lost, msgs[1].at + Zone)  BY DEF LoadMore
<1>2. msgs[1] \in EntryT /\ 1 \in 1..Len(msgs)  BY ShapeGives DEF LoadMore, MsgsOK
<1>3. msgs[1].at + Zone \in Int  BY <1>2, ChatAssumption DEF EntryT
<1>4. contact.known  BY ShapeGives DEF LoadMore, ContactOK
<1>5. ContactOK(contact') /\ BoxOK(outbox', Len(rows)) /\ Queued
  BY <1>1, <1>3, <1>4, ShapeGives, RequestIs DEF Queued
<1>6. UNCHANGED <<server, link, losses>> /\ sends' = sends /\ inbox' = inbox /\ msgs' = msgs
  BY DEF LoadMore
<1>7. ShapeInv'  BY <1>5, <1>6, ShapeGives, ClientStepShape
<1>8. QED BY <1>2, <1>3, <1>4, <1>5, <1>6, <1>7

LEMMA TypeShape ==
  ASSUME ShapeInv, Type
  PROVE  /\ ShapeInv' /\ Typed \in EntryT /\ Len(msgs') = Len(msgs) + 1 /\ Len(msgs) \in Nat
         /\ msgs'[Len(msgs) + 1] = Typed
         /\ \A i \in 1..Len(msgs) : msgs'[i] = msgs[i]
         /\ \A k \in 1..Len(outbox) : k \in 1..Len(outbox') /\ outbox'[k] = outbox[k]
         /\ \/ /\ Len(outbox') = Len(outbox) + 1 /\ outbox'[Len(outbox) + 1] = Send(sends)
               /\ lost' = lost /\ Len(outbox) \in Nat
            \/ outbox' = outbox /\ lost' = lost \cup {Send(sends)}
<1>1. sends \in Nat /\ sends' \in 0..MaxSends /\ Len(rows) \in Nat
  BY ShapeGives, ChatAssumption DEF Type
<1>2. Typed \in EntryT  BY <1>1 DEF Typed, EntryT
<1>3. /\ Typed.mine = TRUE /\ Typed.id = 0 /\ Typed.id <= Len(rows) /\ Typed.sent = FALSE
  BY <1>1 DEF Typed
<1>4. msgs' = Append(msgs, Typed) /\ outbox' = Put(outbox, Send(sends))
      /\ lost' = IF Room(outbox) > 0 THEN lost ELSE lost \cup {Send(sends)}
  BY DEF Type, Typed
<1>5. /\ MsgsOK(msgs', Len(rows)) /\ Len(msgs') = Len(msgs) + 1
      /\ msgs'[Len(msgs) + 1] = Typed
      /\ \A i \in 1..Len(msgs) : msgs'[i] = msgs[i]
  BY <1>2, <1>3, <1>4, ShapeGives, AppendedOK
<1>6. Send(sends) \in ClientFrame /\ Send(sends).type # "ack_read"
  BY <1>1, MakesClientFrame DEF Send
<1>7. /\ BoxOK(outbox', Len(rows))
      /\ \A k \in 1..Len(outbox) : outbox'[k] = outbox[k]
      /\ \/ /\ Room(outbox) > 0 /\ Len(outbox') = Len(outbox) + 1
            /\ outbox'[Len(outbox) + 1] = Send(sends)
         \/ Room(outbox) = 0 /\ outbox' = outbox
  BY <1>4, <1>6, ShapeGives, PutIs
<1>8. Len(outbox) \in Nat /\ Room(outbox) \in Nat  BY ShapeGives, RoomIs
<1>9. \A k \in 1..Len(outbox) : k \in 1..Len(outbox')  BY <1>7, <1>8
<1>10. ContactOK(contact') /\ UNCHANGED <<server, link, losses>> /\ inbox' = inbox
  BY ShapeGives DEF Type
<1>11. ShapeInv'  BY <1>1, <1>5, <1>7, <1>10, ShapeGives, ClientStepShape
<1>12. Len(msgs) \in Nat  BY ShapeGives DEF MsgsOK
<1>13. QED BY <1>2, <1>4, <1>5, <1>7, <1>8, <1>9, <1>11, <1>12

\* Nothing that waits is taken out of the outbox.
LEMMA HandleContactListShape ==
  ASSUME ShapeInv, HandleContactList
  PROVE  /\ ShapeInv' /\ msgs' = msgs /\ Queued
<1>1. PICK c : MaybeLoadHistory(c, outbox, lost) /\ ContactOK(c)  BY ListIs
<1>2. ContactOK(contact') /\ BoxOK(outbox', Len(rows)) /\ Queued
  BY <1>1, ShapeGives, MaybeLoadIs DEF Queued
<1>3. UNCHANGED <<server, link, losses>> /\ sends' = sends /\ msgs' = msgs
      /\ Receive("contact_list")
  BY DEF HandleContactList
<1>4. inbox' \in Seq(ServerFrame) /\ link # "down" /\ \A k \in 1..Len(inbox') : Within(inbox'[k], Len(rows))
  BY <1>3, ReceiveTakes
<1>5. ShapeInv'  BY <1>2, <1>3, <1>4, ShapeGives, ClientStepShape
<1>6. QED BY <1>2, <1>3, <1>5

LEMMA HandleMessageShape ==
  ASSUME ShapeInv, HandleMessage
  PROVE  /\ ShapeInv' /\ Queued
         /\ Receive("message") /\ Head(inbox).id \in Id /\ Head(inbox).id <= Len(rows)
         /\ Head(inbox) = Message(Head(inbox).id)
         /\ Arrived(Head(inbox).id) \in EntryT
         /\ MsgsOK(AppendMessage(msgs, Arrived(Head(inbox).id)), Len(rows))
         /\ \E c : /\ c.known = contact.known /\ c.loaded = contact.loaded
                   /\ c.loading = contact.loading /\ c.exhausted = contact.exhausted
                   /\ c.active = contact.active
                   /\ ShowTo(c, AppendMessage(msgs, Arrived(Head(inbox).id)))
<1>1. PICK id : id = Head(inbox).id  OBVIOUS
<1>2. PICK ms : ms = AppendMessage(msgs, Arrived(id))  OBVIOUS
<1>3. PICK c : c = IF ms # msgs /\ contact.known /\ ~contact.active
                   THEN [contact EXCEPT !.unread = @ + 1] ELSE contact
  OBVIOUS
<1>4. ShowTo(c, ms) /\ UNCHANGED <<server, link, losses>> /\ sends' = sends /\ Receive("message")
  BY <1>1, <1>2, <1>3 DEF HandleMessage, Arrived
<1>5. /\ inbox' \in Seq(ServerFrame) /\ link # "down"
      /\ \A k \in 1..Len(inbox') : Within(inbox'[k], Len(rows))
      /\ Head(inbox) \in ServerFrame /\ Head(inbox).type = "message"
      /\ Within(Head(inbox), Len(rows))
  BY <1>4, ReceiveTakes
<1>6. id \in Id /\ id <= Len(rows) /\ Head(inbox) = Message(id)
  BY <1>1, <1>5, ServerFrameIs DEF Within
<1>7. PICK e : e = Arrived(id)  OBVIOUS
<1>8. e \in EntryT /\ e.id = id /\ e.mine = FALSE /\ e.sent = FALSE
  BY <1>6, <1>7 DEF Arrived, EntryT, Id
<1>9. MsgsOK(ms, Len(rows))
  <2>1. MsgsOK(Append(msgs, e), Len(rows))  BY <1>6, <1>8, ShapeGives, AppendedOK
  <2>2. QED BY <1>2, <1>7, <2>1, ShapeGives DEF AppendMessage
<1>10. ContactOK(c)  BY <1>3, ShapeGives, ContactEdits
<1>11. /\ contact' = c /\ MsgsOK(msgs', Len(rows)) /\ BoxOK(outbox', Len(rows))
       /\ Queued
  BY <1>4, <1>9, ShapeGives, ShowToIs DEF Queued
<1>12. ShapeInv'  BY <1>4, <1>5, <1>10, <1>11, ShapeGives, ClientStepShape
<1>13. /\ c.known = contact.known /\ c.loaded = contact.loaded
       /\ c.loading = contact.loading /\ c.exhausted = contact.exhausted
       /\ c.active = contact.active
  BY <1>3, ShapeGives DEF ContactOK, ContactT
<1>14. QED BY <1>1, <1>2, <1>4, <1>6, <1>7, <1>8, <1>9, <1>11, <1>12, <1>13

LEMMA HandleHistoryResponseShape ==
  ASSUME ShapeInv, HandleHistoryResponse
  PROVE  /\ ShapeInv' /\ Queued
         /\ Receive("history_response")
         /\ Head(inbox).messages \in Seq(Item) /\ Head(inbox) = HistoryResponse(Head(inbox).messages)
         /\ \A i \in 1..Len(Head(inbox).messages) : Head(inbox).messages[i].id <= Len(rows)
         /\ MsgsOK(Entries(Head(inbox).messages), Len(rows))
         /\ \/ ~contact.known /\ UNCHANGED <<contact, msgs, outbox, lost>>
            \/ /\ contact.known /\ Head(inbox).messages = <<>>
               /\ contact' = Loaded(contact, Head(inbox).messages)
               /\ UNCHANGED <<msgs, outbox, lost>>
            \/ /\ contact.known /\ Head(inbox).messages # <<>>
               /\ \E shown \in Results(Head(inbox).messages) :
                    /\ MsgsOK(shown, Len(rows))
                    /\ ShowTo(Loaded(contact, Head(inbox).messages), shown)
<1>1. PICK p : p = Head(inbox).messages  OBVIOUS
<1>2. UNCHANGED <<server, link, losses>> /\ sends' = sends /\ Receive("history_response")
  BY DEF HandleHistoryResponse
<1>3. /\ inbox' \in Seq(ServerFrame) /\ link # "down"
      /\ \A k \in 1..Len(inbox') : Within(inbox'[k], Len(rows))
      /\ Head(inbox) \in ServerFrame /\ Head(inbox).type = "history_response"
      /\ Within(Head(inbox), Len(rows))
  BY <1>2, ReceiveTakes
<1>4. p \in Seq(Item) /\ Head(inbox) = HistoryResponse(p)
      /\ \A i \in 1..Len(p) : p[i].id <= Len(rows)
  BY <1>1, <1>3, ServerFrameIs DEF Within
<1>5. PICK c : c = Loaded(contact, p)  OBVIOUS
<1>6. ContactOK(c)
  <2>1. PICK e \in BOOLEAN : e = (contact.exhausted \/ NothingOlder(p))  OBVIOUS
  <2>3. c = [contact EXCEPT !.loading = FALSE, !.loaded = TRUE, !.exhausted = e]
    BY <1>5, <2>1 DEF Loaded
  <2>4. contact \in ContactT  BY ShapeGives DEF ContactOK
  <2>5. /\ c \in ContactT /\ c.known = contact.known /\ c.active = contact.active
        /\ c.unread = contact.unread /\ c.loading = FALSE
    BY <2>3, <2>4 DEF ContactT
  <2>6. QED BY <2>5, ShapeGives DEF ContactOK
<1>7. MsgsOK(Entries(p), Len(rows))  BY <1>4, ShapeGives, EntriesAre
<1>8. ASSUME NEW shown \in Results(p)
      PROVE  MsgsOK(shown, Len(rows))
  <2>1. CASE contact.loaded
    <3>1. shown = Entries(p) \o msgs  BY <2>1 DEF Results
    <3>2. QED BY <1>7, <3>1, ShapeGives, ConcatOK
  <2>2. CASE ~contact.loaded
    <3>1. shown \in MergeInitialHistory(msgs, Entries(p))  BY <2>2 DEF Results
    <3>2. QED BY <1>7, <3>1, ShapeGives, MergedOK
  <2>3. QED BY <2>1, <2>2
<1>9. \/ ~contact.known /\ UNCHANGED <<contact, msgs, outbox, lost>>
      \/ contact.known /\ p = <<>> /\ contact' = c /\ UNCHANGED <<msgs, outbox, lost>>
      \/ contact.known /\ p # <<>> /\ \E shown \in Results(p) : ShowTo(c, shown)
  BY <1>1, <1>5 DEF HandleHistoryResponse, Results
<1>10. CASE ~contact.known /\ UNCHANGED <<contact, msgs, outbox, lost>>
  <2>1. ContactOK(contact') /\ MsgsOK(msgs', Len(rows)) /\ BoxOK(outbox', Len(rows)) /\ Queued
    BY <1>10, ShapeGives DEF Queued
  <2>2. ShapeInv'  BY <1>2, <1>3, <2>1, ShapeGives, ClientStepShape
  <2>3. QED BY <1>1, <1>2, <1>4, <1>7, <1>10, <2>1, <2>2
<1>11. CASE contact.known /\ p = <<>> /\ contact' = c /\ UNCHANGED <<msgs, outbox, lost>>
  <2>1. ContactOK(contact') /\ MsgsOK(msgs', Len(rows)) /\ BoxOK(outbox', Len(rows)) /\ Queued
    BY <1>6, <1>11, ShapeGives DEF Queued
  <2>2. ShapeInv'  BY <1>2, <1>3, <2>1, ShapeGives, ClientStepShape
  <2>3. QED BY <1>1, <1>2, <1>4, <1>5, <1>7, <1>11, <2>1, <2>2
<1>12. ASSUME contact.known, p # <<>>, NEW shown \in Results(p), ShowTo(c, shown)
       PROVE  /\ ShapeInv' /\ Queued
              /\ \E sh \in Results(p) : MsgsOK(sh, Len(rows)) /\ ShowTo(c, sh)
  <2>1. MsgsOK(shown, Len(rows))  BY <1>8
  <2>2. contact' = c /\ MsgsOK(msgs', Len(rows)) /\ BoxOK(outbox', Len(rows)) /\ Queued
    BY <1>12, <2>1, ShapeGives, ShowToIs DEF Queued
  <2>3. ShapeInv'  BY <1>2, <1>3, <1>6, <2>2, ShapeGives, ClientStepShape
  <2>4. QED BY <1>12, <2>1, <2>2, <2>3
<1>13. QED BY <1>1, <1>2, <1>4, <1>5, <1>7, <1>9, <1>10, <1>11, <1>12

LEMMA HandleMessageAckShape ==
  ASSUME ShapeInv, HandleMessageAck
  PROVE  /\ ShapeInv' /\ Receive("message_ack") /\ outbox' = outbox
         /\ Head(inbox).id \in Id /\ Head(inbox).id <= Len(rows) /\ Head(inbox).cm \in Nat
         /\ Head(inbox) = MessageAck(Head(inbox).cm, Head(inbox).id)
         /\ msgs' = AckedIn(msgs, Head(inbox))
<1>1. /\ UNCHANGED <<server, link, losses>> /\ sends' = sends /\ Receive("message_ack")
      /\ contact' = contact /\ outbox' = outbox /\ msgs' = AckedIn(msgs, Head(inbox))
  BY DEF HandleMessageAck, AckedIn
<1>2. /\ inbox' \in Seq(ServerFrame) /\ link # "down"
      /\ \A k \in 1..Len(inbox') : Within(inbox'[k], Len(rows))
      /\ Head(inbox) \in ServerFrame /\ Head(inbox).type = "message_ack"
      /\ Within(Head(inbox), Len(rows))
  BY <1>1, ReceiveTakes
<1>3. /\ Head(inbox).id \in Id /\ Head(inbox).id <= Len(rows) /\ Head(inbox).cm \in Nat
      /\ Head(inbox) = MessageAck(Head(inbox).cm, Head(inbox).id)
  BY <1>2, ServerFrameIs DEF Within
<1>4. MsgsOK(msgs', Len(rows))  BY <1>1, <1>3, ShapeGives, AckedOK
<1>5. ContactOK(contact') /\ BoxOK(outbox', Len(rows))  BY <1>1, ShapeGives
<1>6. ShapeInv'  BY <1>1, <1>2, <1>4, <1>5, ShapeGives, ClientStepShape
<1>7. QED BY <1>1, <1>3, <1>6

LEMMA HandleAckReadShape ==
  ASSUME ShapeInv, HandleAckRead
  PROVE  /\ ShapeInv' /\ Receive("ack_read") /\ outbox' = outbox
         /\ Head(inbox).id \in Id /\ Head(inbox).id <= Len(rows)
         /\ Head(inbox) = AckRead(Head(inbox).id)
         /\ msgs' = MarkTick(msgs, Head(inbox).id)
<1>1. /\ UNCHANGED <<server, link, losses>> /\ sends' = sends /\ Receive("ack_read")
      /\ contact' = contact /\ outbox' = outbox /\ msgs' = MarkTick(msgs, Head(inbox).id)
  BY DEF HandleAckRead
<1>2. /\ inbox' \in Seq(ServerFrame) /\ link # "down"
      /\ \A k \in 1..Len(inbox') : Within(inbox'[k], Len(rows))
      /\ Head(inbox) \in ServerFrame /\ Head(inbox).type = "ack_read"
      /\ Within(Head(inbox), Len(rows))
  BY <1>1, ReceiveTakes
<1>3. /\ Head(inbox).id \in Id /\ Head(inbox).id <= Len(rows)
      /\ Head(inbox) = AckRead(Head(inbox).id)
  BY <1>2, ServerFrameIs DEF Within
<1>4. MsgsOK(msgs', Len(rows))  BY <1>1, ShapeGives, TickedOK
<1>5. ContactOK(contact') /\ BoxOK(outbox', Len(rows))  BY <1>1, ShapeGives
<1>6. ShapeInv'  BY <1>1, <1>2, <1>4, <1>5, ShapeGives, ClientStepShape
<1>7. QED BY <1>1, <1>3, <1>6

LEMMA HandleDisconnectedShape ==
  ASSUME ShapeInv, HandleDisconnected
  PROVE  ShapeInv' /\ inbox' = <<>> /\ inbox = <<>> /\ msgs' = msgs
<1>1. /\ rows' = rows /\ registered' = registered /\ relaying' = relaying /\ greeting' = greeting
      /\ page' = page /\ acking' = acking /\ losses' = losses /\ sends' = sends /\ inbox' = <<>>
      /\ outbox' = <<>> /\ link' = "down" /\ contact' = contact /\ msgs' = msgs /\ inbox = <<>>
  BY DEF HandleDisconnected, server
<1>2. ServerShape'  BY <1>1 DEF ShapeInv, ChatShape, ServerShape
<1>3. WireShape'  BY <1>1, ChatAssumption DEF WireShape
<1>4. ClientShape'  BY <1>1 DEF ShapeInv, ChatShape, ClientShape
<1>5. Known'  BY <1>1 DEF ShapeInv, Known
<1>6. QED BY <1>1, <1>2, <1>3, <1>4, <1>5 DEF ShapeInv, ChatShape

LEMMA ConnectShape ==
  ASSUME ShapeInv, Connect
  PROVE  /\ ShapeInv' /\ outbox = <<>> /\ inbox = <<>> /\ inbox' = <<>> /\ SameFaces(msgs, msgs')
<1>1. /\ rows' = rows /\ registered' = TRUE /\ relaying' = relaying
      /\ greeting' = [pc |-> "list", of |-> <<>>]
      /\ page' = page /\ acking' = acking /\ losses' = losses /\ sends' = sends /\ inbox' = inbox
      /\ outbox' = Acks(msgs, Pending(msgs), OutCap) /\ msgs' = Marked(msgs, Pending(msgs), OutCap)
      /\ link' = "up" /\ contact' = contact /\ link = "down"
  BY DEF Connect, Connected
<1>2. outbox = <<>> /\ inbox = <<>>  BY <1>1 DEF ShapeInv, ChatShape, WireShape
<1>3. MsgsOK(msgs', Len(rows)) /\ SameFaces(msgs, msgs')
  BY <1>1, ShapeGives, MarkedOK, MarkedKeeps DEF MsgsOK
<1>4. /\ outbox' \in Seq(ClientFrame) /\ Len(outbox') <= OutCap
      /\ \A k \in 1..Len(outbox') : outbox'[k].type = "ack_read" => outbox'[k].id <= Len(rows)
  <2>1. PICK a : a = Acks(msgs, Pending(msgs), OutCap)  OBVIOUS
  <2>2. msgs \in Seq(EntryT) /\ OutCap \in Nat /\ Pending(msgs) \in SUBSET DOMAIN msgs
    BY ShapeGives, ChatAssumption, UnackedIs DEF MsgsOK
  <2>3. /\ Len(a) <= OutCap /\ Len(a) \in Nat
        /\ \A k \in 1..Len(a) : \E i \in Accepted(Pending(msgs), OutCap) : a[k] = AckRead(msgs[i].id)
    BY <2>1, <2>2, AcksAre, Zenon
  <2>4. \A i \in Accepted(Pending(msgs), OutCap) : msgs[i].id \in Id /\ msgs[i].id <= Len(rows)
    <3>1. TAKE i \in Accepted(Pending(msgs), OutCap)
    <3>2. i \in DOMAIN msgs /\ ~msgs[i].mine  BY UnackedIs DEF Accepted
    <3>3. QED BY <2>2, <3>2, ShapeGives DEF MsgsOK
  <2>5. \A k \in 1..Len(a) : a[k] \in ClientFrame /\ (a[k].type = "ack_read" => a[k].id <= Len(rows))
    <3>1. \A i \in Accepted(Pending(msgs), OutCap) :
            AckRead(msgs[i].id) \in ClientFrame /\ AckRead(msgs[i].id).id <= Len(rows)
      BY <2>4, MakesClientFrame DEF AckRead
    <3>2. QED BY <2>3, <3>1
  <2>6. DOMAIN a = 1..Len(a) /\ a = [k \in 1..Len(a) |-> a[k]]
    <3>1. PICK F : a \in Seq(F)  BY <2>1, <2>2, AcksAre, Zenon
    <3>2. QED BY <3>1
  <2>7. a \in [1..Len(a) -> ClientFrame]  BY <2>5, <2>6
  <2>8. a \in Seq(ClientFrame)  BY <2>3, <2>7, FunIsSeq
  <2>9. QED BY <1>1, <2>1, <2>3, <2>5, <2>8
<1>5. ServerShape'  BY <1>1 DEF ShapeInv, ChatShape, ServerShape
<1>6. WireShape'  BY <1>1, <1>2, <1>4 DEF ShapeInv, ChatShape, WireShape
<1>7. ClientShape'  BY <1>1, <1>3 DEF ShapeInv, ChatShape, ClientShape, MsgsOK
<1>8. Known'  BY <1>1, <1>2, <1>3, <1>4 DEF ShapeInv, Known, MsgsOK
<1>9. QED BY <1>1, <1>2, <1>3, <1>5, <1>6, <1>7, <1>8 DEF ShapeInv, ChatShape

LEMMA InitShape ==
  ASSUME Init
  PROVE  ShapeInv
<1>1. rows \in Seq(RowT)
  <2>0. PICK T : T = [mine : BOOLEAN, cm : {0}, delivered : BOOLEAN, read : BOOLEAN]  OBVIOUS
  <2>1. PICK r \in Seq(T) : r = rows  BY <2>0, ChatAssumption DEF Init
  <2>2. \A i \in 1..Len(r) : r[i] \in RowT
    <3>1. TAKE i \in 1..Len(r)
    <3>2. r[i] \in T  OBVIOUS
    <3>3. QED BY <2>0, <3>2 DEF RowT
  <2>3. Len(r) \in Nat /\ r \in [1..Len(r) -> RowT]  BY <2>2
  <2>4. QED BY <2>1, <2>3, FunIsSeq
<1>2. ServerShape
  <2>1. PICK g : g = [pc |-> "none", of |-> <<>>]  OBVIOUS
  <2>2. g.pc = "none" /\ g.of = <<>> /\ <<>> \in Seq(Id)  BY <2>1
  <2>3. g \in [pc : {"none", "list", "flush", "replay"}, of : Seq(Id)]  BY <2>1, <2>2
  <2>4. sends \in 0..MaxSends /\ losses \in 0..MaxLosses /\ relaying \in Nat /\ acking \in Nat
    BY ChatAssumption DEF Init
  <2>5. QED BY <1>1, <2>1, <2>3, <2>4 DEF Init, ServerShape
<1>3. WireShape  BY ChatAssumption DEF Init, WireShape
<1>4. ClientShape  BY DEF Init, ClientShape
<1>5. Known  BY <1>1 DEF Init, Known
<1>6. QED BY <1>2, <1>3, <1>4, <1>5 DEF ShapeInv, ChatShape

LEMMA Stutter ==
  ASSUME UNCHANGED vars
  PROVE  /\ rows' = rows /\ registered' = registered /\ relaying' = relaying
         /\ greeting' = greeting /\ page' = page /\ inbox' = inbox /\ outbox' = outbox
         /\ link' = link /\ contact' = contact /\ msgs' = msgs /\ sends' = sends
         /\ losses' = losses /\ lost' = lost /\ acking' = acking
BY DEF vars, server

\* Every step keeps the shape of the state, and rows are only added or marked.
LEMMA StepShape ==
  ASSUME ShapeInv, [Next]_vars
  PROVE  ShapeInv'
<1>1. CASE Open \/ Leave \/ LoadMore \/ Type
  BY <1>1, OpenShape, LeaveShape, LoadMoreShape, TypeShape
<1>2. CASE ClientStep
  BY <1>2, HandleContactListShape, HandleMessageShape, HandleHistoryResponseShape,
     HandleMessageAckShape, HandleAckReadShape, HandleDisconnectedShape DEF ClientStep
<1>3. CASE Connect \/ HandlerFails \/ LoseConnection \/ ServerNotices \/ PeerSends
  BY <1>3, ConnectShape, HandlerFailsShape, LoseConnectionShape, ServerNoticesShape, PeerSendsShape
<1>4. CASE ServerStep
  BY <1>4, PushContactListShape, LoadUndeliveredShape, ReplayOneShape, ServeReturnsShape,
     RelayShape, HandleHistoryRequestShape, SendPageShape, ServerMarksReadShape,
     StoreMessageShape, SendAckShape DEF ServerStep
<1>5. CASE \E id \in DOMAIN rows : PeerReads(id)  BY <1>5, PeerReadsShape
<1>6. CASE UNCHANGED vars
  BY <1>6, Stutter DEF ShapeInv, ChatShape, ServerShape, WireShape, ClientShape, Known
<1>7. QED BY <1>1, <1>2, <1>3, <1>4, <1>5, <1>6 DEF Next

-----------------------------------------------------------------------------
(* What one step does to the table, the boxes and the entries.             *)

\* What every step leaves alone, but for the steps that are named.
LEMMA Leaves ==
  ASSUME [Next]_vars
  PROVE  /\ \/ rows' = rows \/ ReplayOne \/ Relay \/ ServerMarksRead \/ StoreMessage \/ PeerSends
            \/ \E id \in DOMAIN rows : PeerReads(id)
         /\ relaying' = relaying \/ PeerSends \/ Relay
         /\ \/ greeting' = greeting \/ Connect \/ PushContactList \/ LoadUndelivered \/ ReplayOne
            \/ ServeReturns
         /\ page' = page \/ HandleHistoryRequest \/ SendPage
         /\ acking' = acking \/ StoreMessage \/ SendAck
         /\ link' = link \/ HandleDisconnected \/ Connect \/ LoseConnection
         /\ \/ contact' = contact \/ Open \/ Leave \/ LoadMore \/ HandleContactList \/ HandleMessage
            \/ HandleHistoryResponse
         /\ \/ msgs' = msgs \/ Open \/ Type \/ HandleMessage \/ HandleHistoryResponse
            \/ HandleMessageAck \/ HandleAckRead \/ Connect
         /\ sends' = sends \/ Type \/ PeerSends
<1>1. CASE UNCHANGED vars  BY <1>1 DEF vars, server
<1>2. CASE Open \/ Leave \/ LoadMore \/ Type \/ ClientStep
  BY <1>2 DEF Open, Leave, LoadMore, Type, ClientStep, HandleContactList, HandleMessage,
     HandleHistoryResponse, HandleMessageAck, HandleAckRead, HandleDisconnected, server
<1>3. CASE ServerStep
  BY <1>3 DEF ServerStep, PushContactList, LoadUndelivered, ReplayOne, ServeReturns, Relay,
     HandleHistoryRequest, SendPage, ServerMarksRead, StoreMessage, SendAck
<1>4. CASE Connect \/ PeerSends \/ HandlerFails \/ LoseConnection \/ ServerNotices
  BY <1>4 DEF Connect, PeerSends, HandlerFails, LoseConnection, ServerNotices, server
<1>5. CASE \E id \in DOMAIN rows : PeerReads(id)  BY <1>5 DEF PeerReads
<1>6. QED BY <1>1, <1>2, <1>3, <1>4, <1>5 DEF Next

\* What rows every step leaves.
LEMMA StepGrows ==
  ASSUME ShapeInv, [Next]_vars
  PROVE  Grown(rows')
<1>1. CASE rows' = rows  BY <1>1, ShapeGives, GrownNot
<1>2. CASE rows' # rows
  BY <1>2, Leaves, ReplayOneShape, RelayShape, ServerMarksReadShape, StoreMessageShape,
     PeerSendsShape, PeerReadsShape DEF RowMarked
<1>3. QED BY <1>1, <1>2

\* What was lost stays lost.
LEMMA LostStays ==
  ASSUME ShapeInv, [Next]_vars
  PROVE  lost \subseteq lost'
<1>1. CASE Open \/ HandleContactList  BY <1>1, OpenIs, ListIs, ShapeGives, MaybeLoadIs
<1>2. CASE UNCHANGED vars  BY <1>2, Stutter
<1>3. CASE Leave \/ LoadMore \/ Type \/ (ClientStep /\ ~HandleContactList)
  BY <1>3 DEF Leave, LoadMore, RequestHistory, Type, ClientStep, HandleMessage,
     HandleHistoryResponse, ShowTo, HandleMessageAck, HandleAckRead, HandleDisconnected
<1>4. CASE ServerStep
  BY <1>4 DEF ServerStep, PushContactList, LoadUndelivered, ReplayOne, ServeReturns, Relay, ToClient,
     Routed, HandleHistoryRequest, SendPage, ServerMarksRead, StoreMessage, SendAck
<1>5. CASE Connect \/ PeerSends \/ HandlerFails \/ LoseConnection \/ ServerNotices
  BY <1>5 DEF Connect, Connected, PeerSends, HandlerFails, LoseConnection, ServerNotices
<1>6. CASE \E id \in DOMAIN rows : PeerReads(id)  BY <1>6 DEF PeerReads
<1>7. QED BY <1>1, <1>2, <1>3, <1>4, <1>5, <1>6 DEF Next

\* A frame is put behind the others or lost.
LEMMA ToClientAdds ==
  ASSUME ShapeInv, NEW f, ToClient(f)
  PROVE  /\ lost \subseteq lost'
         /\ \A k \in 1..Len(inbox) : k \in 1..Len(inbox') /\ inbox'[k] = inbox[k]
         /\ \A k \in 1..Len(inbox') : k \in 1..Len(inbox) \/ inbox'[k] = f
         /\ f \in lost' \/ \E k \in 1..Len(inbox') : inbox'[k] = f
<1>1. inbox \in Seq(ServerFrame)  BY DEF ShapeInv, ChatShape, WireShape
<1>2. CASE inbox' = Append(inbox, f) /\ lost' = lost
  <2>2. PICK S : S = ServerFrame \cup {f}  OBVIOUS
  <2>3. inbox \in Seq(S) /\ f \in S  BY <1>1, <2>2
  <2>4. PICK q : q = Append(inbox, f)  OBVIOUS
  <2>5. /\ Len(q) = Len(inbox) + 1 /\ q[Len(inbox) + 1] = f /\ Len(inbox) \in Nat
        /\ \A k \in 1..Len(inbox) : q[k] = inbox[k]
    BY <2>3, <2>4, AppendIs
  <2>6. Len(inbox) + 1 \in 1..Len(q) /\ \A k \in 1..Len(inbox) : k \in 1..Len(q)  BY <2>5
  <2>7. \A k \in 1..Len(q) : k \in 1..Len(inbox) \/ k = Len(inbox) + 1  BY <2>5
  <2>8. QED BY <1>2, <2>4, <2>5, <2>6, <2>7
<1>3. CASE inbox' = inbox /\ lost' = lost \cup {f}  BY <1>3
<1>4. QED BY <1>2, <1>3 DEF ToClient, Routed

\* ... and what the other user's reading adds.
LEMMA PeerReadsAdds ==
  ASSUME ShapeInv, NEW id, PeerReads(id)
  PROVE  /\ Len(inbox') \in Nat /\ \A k \in 1..Len(inbox) : k \in 1..Len(inbox') /\ inbox'[k] = inbox[k]
         /\ \A k \in 1..Len(inbox') : \/ k \in 1..Len(inbox) /\ inbox'[k] = inbox[k]
                                      \/ k > Len(inbox) /\ inbox'[k] = AckRead(id)
<1>1. PICK f : f = AckRead(id)  OBVIOUS
<1>2. inbox \in Seq(ServerFrame) /\ Len(inbox) \in Nat /\ (inbox' = inbox \/ inbox' = Append(inbox, f))
  BY <1>1, ShapeGives DEF PeerReads
<1>3. QED BY <1>1, <1>2

LEMMA ReadLeaves ==
  ASSUME ShapeInv, NEW type, Read(type)
  PROVE  \A k \in 1..Len(outbox) :
           outbox[k] = Head(outbox) \/ \E l \in 1..Len(outbox') : outbox'[l] = outbox[k]
<1>1. outbox \in Seq(ClientFrame) /\ outbox # <<>> /\ outbox' = Tail(outbox)
  BY DEF Read, ShapeInv, ChatShape, WireShape
<1>2. TAKE k \in 1..Len(outbox)
<1>3. CASE k = 1  BY <1>1, <1>3
<1>4. CASE k # 1
  <2>1. k - 1 \in 1..Len(Tail(outbox)) /\ Tail(outbox)[k - 1] = outbox[k]  BY <1>1, <1>4
  <2>2. QED BY <1>1, <2>1
<1>5. QED BY <1>3, <1>4

\* What a broken connection takes with it is lost.
LEMMA LoseConnectionLoses ==
  ASSUME ShapeInv, LoseConnection
  PROVE  /\ lost \subseteq lost' /\ outbox' = <<>>
         /\ \A k \in 1..Len(outbox) : outbox[k] \in lost'
         /\ Len(inbox') <= Len(inbox) /\ Len(inbox') \in Nat
         /\ \A k \in 1..Len(inbox') : k \in 1..Len(inbox) /\ inbox'[k] = inbox[k]
         /\ \A k \in 1..Len(inbox) : k \in 1..Len(inbox') \/ inbox[k] \in lost'
<1>1. PICK n \in 0..Len(inbox) :
        /\ inbox' = SubSeq(inbox, 1, n)
        /\ lost' = lost \cup {inbox[i] : i \in (n + 1)..Len(inbox)}
                        \cup {outbox[i] : i \in DOMAIN outbox}
  BY DEF LoseConnection
<1>2. inbox \in Seq(ServerFrame) /\ DOMAIN outbox = 1..Len(outbox) /\ Len(inbox) \in Nat
  BY DEF ShapeInv, ChatShape, WireShape
<1>3. Len(inbox') = n /\ \A k \in 1..n : inbox'[k] = inbox[k]  BY <1>1, <1>2, PrefixIs
<1>4. \A k \in 1..Len(inbox) : k \in 1..n \/ k \in (n + 1)..Len(inbox)  BY <1>2
<1>5. \A k \in 1..n : k \in 1..Len(inbox)  BY <1>2
<1>6. \A k \in 1..Len(inbox) : k \in 1..n \/ inbox[k] \in lost'  BY <1>1, <1>4
<1>7. n <= Len(inbox) /\ n \in Nat  BY <1>2
<1>8. lost \subseteq lost' /\ \A k \in 1..Len(outbox) : outbox[k] \in lost'  BY <1>1, <1>2
<1>9. outbox' = <<>>  BY DEF LoseConnection
<1>10. QED BY <1>3, <1>5, <1>6, <1>7, <1>8, <1>9

\* The ack_reads put into the outbox are about entries.
LEMMA AcksName ==
  ASSUME ShapeInv, NEW ms, MsgsOK(ms, Len(rows)), SameFaces(ms, msgs'), NEW box,
         box = outbox \o Acks(ms, Unacked(ms), Room(outbox))
  PROVE  BoxOK(box, Len(rows)) /\ \A k \in 1..Len(box) : Sent(box[k])
<1>1. BoxOK(outbox, Len(rows)) /\ MsgsOK(ms, Len(rows)) /\ Len(rows) \in Nat  BY ShapeGives
<1>2. Unacked(ms) \in SUBSET DOMAIN ms /\ \A i \in Unacked(ms) : ~ms[i].mine  BY UnackedIs
<1>3. /\ BoxOK(box, Len(rows))
      /\ \A k \in 1..Len(outbox) : box[k] = outbox[k]
      /\ \A k \in 1..Len(box) :
           k \in 1..Len(outbox) \/ \E i \in Unacked(ms) : box[k] = AckRead(ms[i].id)
  BY <1>1, <1>2, AcksFit
<1>4. ASSUME NEW i \in Unacked(ms)
      PROVE  Sent(AckRead(ms[i].id))
  <2>1. i \in 1..Len(msgs') /\ msgs'[i].id = ms[i].id  BY <1>1, <1>2 DEF SameFaces, MsgsOK
  <2>2. QED BY <2>1 DEF Sent, AckRead
<1>5. ASSUME NEW k \in 1..Len(outbox)
      PROVE  Sent(box[k])
  BY <1>3 DEF Sent
<1>6. QED BY <1>3, <1>4, <1>5

LEMMA ShowToSends ==
  ASSUME ShapeInv, NEW c, NEW ms, MsgsOK(ms, Len(rows)), ShowTo(c, ms)
  PROVE  \A k \in 1..Len(outbox') : Sent(outbox'[k])
<1>1. SameFaces(ms, msgs')  BY ShapeGives, ShowToIs
<1>2. PICK box : box = outbox \o Acks(ms, Unacked(ms), Room(outbox))  OBVIOUS
<1>3. outbox' = box \/ outbox' = outbox  BY <1>2 DEF ShowTo
<1>4. QED BY <1>1, <1>2, <1>3, AcksName DEF Sent

LEMMA LoadSends ==
  ASSUME NEW c, ContactOK(c), NEW box, BoxOK(box, Len(rows)), NEW gone,
         MaybeLoadHistory(c, box, gone), \A k \in 1..Len(box) : Sent(box[k])
  PROVE  \A k \in 1..Len(outbox') : Sent(outbox'[k])
<1>1. /\ \A k \in 1..Len(box) : k \in 1..Len(outbox') /\ outbox'[k] = box[k]
      /\ \/ /\ Len(outbox') = Len(box) + 1 /\ outbox'[Len(box) + 1] = HistoryRequest(Latest)
            /\ Len(box) \in Nat
         \/ outbox' = box
  BY MaybeLoadIs
<1>2. \A k \in 1..Len(outbox') : \/ k \in 1..Len(box) /\ outbox'[k] = box[k]
                                 \/ outbox'[k] = HistoryRequest(Latest)
  BY <1>1
<1>3. QED BY <1>2 DEF Sent

\* What the client sends in a step, and what for.
LEMMA OutboxFrom ==
  ASSUME ShapeInv, [Next]_vars
  PROVE  \A k \in 1..Len(outbox') : Sent(outbox'[k])
<1>1. MsgsOK(msgs, Len(rows)) /\ ContactOK(contact) /\ BoxOK(outbox, Len(rows))  BY ShapeGives
<1>2. ASSUME \A k \in 1..Len(outbox') : \E l \in 1..Len(outbox) : outbox'[k] = outbox[l]
      PROVE  \A k \in 1..Len(outbox') : Sent(outbox'[k])
  BY <1>2 DEF Sent
<1>3. CASE Open
  <2>1. PICK c, box, gone : /\ box = outbox \o Acks(msgs, Unacked(msgs), Room(outbox))
                            /\ MaybeLoadHistory(c, box, gone) /\ ContactOK(c) /\ SameFaces(msgs, msgs')
    BY <1>3, OpenIs, OpenShape
  <2>2. BoxOK(box, Len(rows)) /\ \A k \in 1..Len(box) : Sent(box[k])  BY <1>1, <2>1, AcksName
  <2>3. QED BY ONLY <2>1, <2>2, LoadSends
<1>4. CASE LoadMore
  <2>1. PICK b : b = msgs[1].at + Zone  OBVIOUS
  <2>2. RequestHistory(contact, outbox, lost, b) /\ b \in Int /\ contact.known
    BY <1>4, <2>1, LoadMoreShape DEF LoadMore
  <2>3. /\ \A k \in 1..Len(outbox) : k \in 1..Len(outbox') /\ outbox'[k] = outbox[k]
        /\ \/ /\ Len(outbox') = Len(outbox) + 1 /\ outbox'[Len(outbox) + 1] = HistoryRequest(b)
              /\ Len(outbox) \in Nat
           \/ outbox' = outbox
    BY <1>1, <2>2, RequestIs
  <2>4. \A k \in 1..Len(outbox') : \/ k \in 1..Len(outbox) /\ outbox'[k] = outbox[k]
                                   \/ outbox'[k] = HistoryRequest(b)
    BY <2>3
  <2>5. QED BY <1>4, <2>1, <2>4 DEF Sent
<1>5. CASE Type
  <2>1. \A k \in 1..Len(outbox') : \/ k \in 1..Len(outbox) /\ outbox'[k] = outbox[k]
                                   \/ outbox'[k] = Send(sends)
    BY <1>5, TypeShape
  <2>2. QED BY <1>5, <2>1 DEF Sent
<1>6. CASE HandleContactList
  <2>1. PICK c : MaybeLoadHistory(c, outbox, lost) /\ ContactOK(c)  BY <1>6, ListIs
  <2>2. \A k \in 1..Len(outbox) : Sent(outbox[k])  BY DEF Sent
  <2>3. QED BY ONLY <1>1, <2>1, <2>2, LoadSends
<1>7. CASE HandleMessage  BY <1>7, HandleMessageShape, ShowToSends
<1>8. CASE HandleHistoryResponse
  <2>1. outbox' = outbox \/ \E c, ms : MsgsOK(ms, Len(rows)) /\ ShowTo(c, ms)
    BY <1>8, HandleHistoryResponseShape
  <2>2. QED BY <1>2, <2>1, ShowToSends
<1>9. CASE Connect
  <2>1. outbox' = Acks(msgs, Pending(msgs), OutCap) /\ SameFaces(msgs, msgs')
        /\ msgs \in Seq(EntryT) /\ OutCap \in Nat
    BY <1>1, <1>9, ConnectShape, ChatAssumption DEF Connect, Connected, MsgsOK
  <2>2. /\ Accepted(Pending(msgs), OutCap) \subseteq Pending(msgs)
        /\ Pending(msgs) \in SUBSET DOMAIN msgs
    BY UnackedIs DEF Accepted
  <2>3. \A k \in 1..Len(Acks(msgs, Pending(msgs), OutCap)) :
          \E i \in Accepted(Pending(msgs), OutCap) :
            Acks(msgs, Pending(msgs), OutCap)[k] = AckRead(msgs[i].id)
    BY <2>1, <2>2, AcksAre
  <2>4. \A i \in Pending(msgs) : i \in 1..Len(msgs') /\ msgs'[i].id = msgs[i].id
    BY <2>1, <2>2 DEF SameFaces
  <2>5. \A i \in Pending(msgs) : Sent(AckRead(msgs[i].id))  BY <2>4 DEF Sent, AckRead
  <2>6. QED BY <2>1, <2>2, <2>3, <2>5
<1>10. CASE \E type \in {"history_request", "ack_read", "message"} : Read(type)
  BY <1>2, <1>10, ReadTakes
<1>11. CASE outbox' = <<>>  BY <1>2, <1>11
<1>12. CASE outbox' = outbox  BY <1>2, <1>12
<1>13. CASE HandleMessageAck \/ HandleAckRead \/ HandleDisconnected \/ LoseConnection \/ Leave
  BY <1>11, <1>12, <1>13 DEF HandleMessageAck, HandleAckRead, HandleDisconnected, LoseConnection, Leave
<1>14. CASE HandlerFails \/ HandleHistoryRequest \/ ServerMarksRead \/ StoreMessage
  BY <1>10, <1>14 DEF HandlerFails, HandleHistoryRequest, ServerMarksRead, StoreMessage
<1>15. CASE UNCHANGED vars  BY <1>12, <1>15, Stutter
<1>16. CASE \/ PushContactList \/ LoadUndelivered \/ ReplayOne \/ ServeReturns \/ Relay \/ SendPage
            \/ SendAck \/ PeerSends \/ ServerNotices \/ \E id \in DOMAIN rows : PeerReads(id)
  BY <1>12, <1>16 DEF PushContactList, LoadUndelivered, ReplayOne, ServeReturns, Relay, SendPage,
                      SendAck, PeerSends, ServerNotices, PeerReads
<1>17. QED
  BY <1>3, <1>4, <1>5, <1>6, <1>7, <1>8, <1>9, <1>13, <1>14, <1>15, <1>16
     DEF Next, ClientStep, ServerStep

LEMMA OutboxGoes ==
  ASSUME ShapeInv, [Next]_vars
  PROVE  \A k \in 1..Len(outbox) : Spent(outbox[k])
<1>1. CASE outbox' = outbox \/ Queued  BY <1>1 DEF Spent, Queued
<1>2. CASE Open \/ LoadMore \/ Type \/ HandleContactList \/ HandleMessage \/ HandleHistoryResponse
  BY <1>1, <1>2, OpenShape, LoadMoreShape, TypeShape, HandleContactListShape, HandleMessageShape,
     HandleHistoryResponseShape DEF Queued
<1>3. ASSUME NEW type, Read(type), \/ HandleHistoryRequest \/ Head(outbox) \in lost'
                                   \/ type # "history_request" /\ (ServerMarksRead \/ StoreMessage)
      PROVE  \A k \in 1..Len(outbox) : Spent(outbox[k])
  BY <1>3, ReadLeaves, ReadTakes DEF Spent
<1>4. CASE HandleHistoryRequest \/ ServerMarksRead \/ StoreMessage \/ HandlerFails
  BY <1>3, <1>4 DEF HandleHistoryRequest, ServerMarksRead, StoreMessage, HandlerFails
<1>5. CASE LoseConnection  BY <1>5, LoseConnectionLoses DEF Spent
<1>6. CASE HandleDisconnected
  <2>1. DOMAIN outbox = 1..Len(outbox)  BY DEF ShapeInv, ChatShape, WireShape
  <2>2. QED BY <1>6, <2>1 DEF HandleDisconnected, Spent
<1>7. CASE Connect
  <2>1. outbox = <<>>  BY <1>7, ConnectShape
  <2>2. QED BY <2>1
<1>8. CASE \/ Leave \/ HandleMessageAck \/ HandleAckRead \/ PushContactList \/ LoadUndelivered
           \/ ReplayOne \/ ServeReturns \/ Relay \/ SendPage \/ SendAck \/ PeerSends \/ ServerNotices
           \/ (\E id \in DOMAIN rows : PeerReads(id)) \/ UNCHANGED vars
  BY <1>1, <1>8 DEF Leave, HandleMessageAck, HandleAckRead, PushContactList, LoadUndelivered, ReplayOne,
     ServeReturns, Relay, SendPage, SendAck, PeerSends, ServerNotices, PeerReads, vars
<1>9. QED BY <1>2, <1>4, <1>5, <1>6, <1>7, <1>8 DEF Next, ClientStep, ServerStep

\* What arrives at the client in a step, and what does not.
LEMMA InboxFrom ==
  ASSUME ShapeInv, [Next]_vars
  PROVE  /\ \A k \in 1..Len(inbox') : Came(inbox'[k])
         /\ \A k \in 1..Len(inbox) : Goes(inbox[k])
<1>1. ASSUME inbox' = inbox
      PROVE  /\ \A k \in 1..Len(inbox') : Came(inbox'[k])
             /\ \A k \in 1..Len(inbox) : Goes(inbox[k])
  BY <1>1 DEF Came, Goes
<1>2. ASSUME NEW type, Receive(type), type = "message" => HandleMessage,
             type = "message_ack" => HandleMessageAck,
             type = "history_response" => HandleHistoryResponse
      PROVE  /\ \A k \in 1..Len(inbox') : Came(inbox'[k])
             /\ \A k \in 1..Len(inbox) : Goes(inbox[k])
  <2>1. /\ \A k \in 1..Len(inbox') : k + 1 \in 1..Len(inbox) /\ inbox'[k] = inbox[k + 1]
        /\ \A k \in 1..Len(inbox) : k = 1 \/ (k - 1 \in 1..Len(inbox') /\ inbox'[k - 1] = inbox[k])
        /\ inbox[1].type = type /\ 1 \in 1..Len(inbox)
    BY <1>2, ReceiveTakes
  <2>2. QED BY <1>2, <2>1 DEF Came, Goes
<1>3. ASSUME NEW f, ToClient(f), Came(f)
      PROVE  /\ \A k \in 1..Len(inbox') : Came(inbox'[k])
             /\ \A k \in 1..Len(inbox) : Goes(inbox[k])
  <2>1. /\ \A k \in 1..Len(inbox) : k \in 1..Len(inbox') /\ inbox'[k] = inbox[k]
        /\ \A k \in 1..Len(inbox') : k \in 1..Len(inbox) \/ inbox'[k] = f
    BY <1>3, ToClientAdds
  <2>2. QED BY <1>3, <2>1 DEF Came, Goes
<1>4. CASE PushContactList \/ SendPage
  BY <1>3, <1>4 DEF PushContactList, SendPage, Came, List
<1>7. CASE SendAck
  <2>1. PICK f : f = MessageAck(rows[acking].cm, acking)  OBVIOUS
  <2>2. Came(f)  BY <1>7, <2>1 DEF Came
  <2>3. QED BY <1>3, <1>7, <2>1, <2>2 DEF SendAck
<1>5. CASE ReplayOne
  <2>1. PICK id : id = Head(greeting.of)  OBVIOUS
  <2>2. greeting.of \in Seq(Id) /\ greeting.of # <<>> /\ ToClient(Message(id))
    BY <1>5, <2>1, ShapeGives DEF ReplayOne, ServerShape
  <2>3. 1 \in 1..Len(greeting.of) /\ id = greeting.of[1]  BY <2>1, <2>2
  <2>4. Came(Message(id))  BY <2>3 DEF Came, Message
  <2>5. QED BY <1>3, <2>2, <2>4
<1>6. CASE Relay
  <2>1. Came(Message(relaying))  BY DEF Came, Message
  <2>2. QED BY <1>1, <1>3, <1>6, <2>1 DEF Relay, ToClient
<1>8. CASE \E id \in DOMAIN rows : PeerReads(id)
  <2>1. PICK id \in DOMAIN rows : PeerReads(id)  BY <1>8
  <2>2. Came(AckRead(id))  BY DEF Came, AckRead
  <2>3. QED BY <2>1, <2>2, PeerReadsAdds DEF Came, Goes
<1>9. CASE LoseConnection  BY <1>9, LoseConnectionLoses DEF Came, Goes
<1>10. CASE ClientStep
  BY <1>1, <1>2, <1>10 DEF ClientStep, HandleContactList, HandleMessage, HandleHistoryResponse,
     HandleMessageAck, HandleAckRead, HandleDisconnected
<1>11. CASE UNCHANGED vars  BY <1>1, <1>11, Stutter
<1>12. CASE \/ Open \/ Leave \/ LoadMore \/ Type \/ Connect \/ LoadUndelivered \/ ServeReturns
            \/ HandleHistoryRequest \/ ServerMarksRead \/ StoreMessage \/ PeerSends
            \/ HandlerFails \/ ServerNotices
  BY <1>1, <1>12 DEF Open, Leave, LoadMore, Type, Connect, LoadUndelivered, ServeReturns,
     HandleHistoryRequest, ServerMarksRead, StoreMessage, PeerSends, HandlerFails, ServerNotices
<1>13. QED BY <1>4, <1>5, <1>6, <1>7, <1>8, <1>9, <1>10, <1>11, <1>12 DEF Next, ServerStep

\* A row that is marked delivered is on its way or was read; a new one is in the
\* queue or about to be acknowledged.
LEMMA RowsFrom ==
  ASSUME ShapeInv, [Next]_vars
  PROVE  /\ \A i \in 1..Len(rows) : ~rows[i].mine /\ ~rows[i].delivered /\ rows'[i].delivered =>
              \/ Message(i) \in lost' \/ \E l \in 1..Len(inbox') : inbox'[l] = Message(i)
              \/ \E l \in 1..Len(outbox) : outbox[l] = AckRead(i)
         /\ \A i \in 1..Len(rows') :
              \/ i \in 1..Len(rows) /\ rows'[i].cm = rows[i].cm
              \/ ~rows'[i].mine /\ ~rows'[i].delivered /\ rows'[i].cm = 0
              \/ i = acking' /\ \E l \in 1..Len(outbox) : outbox[l] = Send(rows'[i].cm)
<1> DEFINE Tells(i) == \/ Message(i) \in lost' \/ \E l \in 1..Len(inbox') : inbox'[l] = Message(i)
                      \/ \E l \in 1..Len(outbox) : outbox[l] = AckRead(i)
<1>1. Len(rows) \in Nat  BY ShapeGives
<1>2. ASSUME rows' = rows
      PROVE  /\ \A i \in 1..Len(rows) :
                  ~rows[i].mine /\ ~rows[i].delivered /\ rows'[i].delivered => Tells(i)
             /\ \A i \in 1..Len(rows') : i \in 1..Len(rows) /\ rows'[i].cm = rows[i].cm
  BY <1>2
<1>3. ASSUME NEW j, RowMarked(rows', j), rows[j].mine \/ Tells(j)
      PROVE  /\ \A i \in 1..Len(rows) :
                  ~rows[i].mine /\ ~rows[i].delivered /\ rows'[i].delivered => Tells(i)
             /\ \A i \in 1..Len(rows') : i \in 1..Len(rows) /\ rows'[i].cm = rows[i].cm
  BY <1>3 DEF RowMarked, Grown
<1>4. CASE ReplayOne
  <2>1. PICK id : id = Head(greeting.of)  OBVIOUS
  <2>2. RowMarked(rows', id) /\ ToClient(Message(id))  BY <1>4, <2>1, ReplayOneShape DEF ReplayOne
  <2>3. Tells(id)  BY <2>2, ToClientAdds
  <2>4. QED BY <1>3, <2>2, <2>3
<1>5. CASE Relay
  <2>1. CASE registered
    <3>1. RowMarked(rows', relaying) /\ ToClient(Message(relaying))
      BY <1>5, <2>1, RelayShape DEF Relay, ToClient
    <3>2. Tells(relaying)  BY <3>1, ToClientAdds
    <3>3. QED BY <1>3, <3>1, <3>2
  <2>2. QED BY <1>2, <1>5, <2>1, RelayShape
<1>6. CASE ServerMarksRead
  <2>1. PICK id : id = Head(outbox).id  OBVIOUS
  <2>2. RowMarked(rows', id) /\ Head(outbox) = AckRead(id)  BY <1>6, <2>1, ServerMarksReadShape
  <2>3. Head(outbox) = outbox[1] /\ 1 \in 1..Len(outbox)  BY <1>6, ReadTakes DEF ServerMarksRead
  <2>4. QED BY <1>3, <2>2, <2>3
<1>7. CASE \E id \in DOMAIN rows : PeerReads(id)
  <2>1. PICK id \in DOMAIN rows : PeerReads(id)  BY <1>7
  <2>2. RowMarked(rows', id) /\ rows[id].mine  BY <2>1, PeerReadsShape DEF PeerReads
  <2>3. QED BY <1>3, <2>2
<1>8. CASE PeerSends
  <2>1. /\ Len(rows') = Len(rows) + 1 /\ \A j \in 1..Len(rows) : rows'[j] = rows[j]
        /\ rows'[Len(rows) + 1] = [mine |-> FALSE, cm |-> 0, delivered |-> FALSE, read |-> FALSE]
    BY <1>8, PeerSendsShape
  <2>2. \A i \in 1..Len(rows') : i \in 1..Len(rows) \/ i = Len(rows) + 1  BY <1>1, <2>1
  <2>3. QED BY <2>1, <2>2
<1>9. CASE StoreMessage
  <2>1. PICK cm : cm = Head(outbox).cm  OBVIOUS
  <2>2. /\ Len(rows') = Len(rows) + 1 /\ \A j \in 1..Len(rows) : rows'[j] = rows[j]
        /\ rows'[Len(rows) + 1] = [mine |-> TRUE, cm |-> cm, delivered |-> FALSE, read |-> FALSE]
        /\ Head(outbox) = Send(cm) /\ acking' = Len(rows) + 1
    BY <1>9, <2>1, StoreMessageShape DEF StoreMessage
  <2>3. Head(outbox) = outbox[1] /\ 1 \in 1..Len(outbox)  BY <1>9, ReadTakes DEF StoreMessage
  <2>4. \A i \in 1..Len(rows') : i \in 1..Len(rows) \/ i = Len(rows) + 1  BY <1>1, <2>2
  <2>5. rows'[Len(rows) + 1].cm = cm  BY <2>2
  <2>6. QED BY <2>2, <2>3, <2>4, <2>5
<1>10. QED BY <1>2, <1>4, <1>5, <1>6, <1>7, <1>8, <1>9, Leaves

-----------------------------------------------------------------------------
(* A page that is waited for.                                              *)

\* A request is put into the outbox or lost.
LEMMA RequestWaits ==
  ASSUME NEW c, ContactOK(c), c.known, NEW box, NEW n, BoxOK(box, n), NEW gone, NEW before \in Int,
         RequestHistory(c, box, gone, before)
  PROVE  Waiting'
<1>1. HistoryRequest(before).type = "history_request"  BY DEF HistoryRequest
<1>2. CASE Len(outbox') = Len(box) + 1 /\ outbox'[Len(box) + 1] = HistoryRequest(before) /\ Len(box) \in Nat
  <2>1. Len(box) + 1 \in 1..Len(outbox')  BY <1>2
  <2>2. QED BY <1>1, <1>2, <2>1 DEF Waiting
<1>3. CASE lost' = gone \cup {HistoryRequest(before)}  BY <1>1, <1>3 DEF Waiting
<1>4. QED BY <1>2, <1>3, RequestIs

\* historyLoading is set only with a request, and an answer resets it.
LEMMA StepAsks ==
  ASSUME ShapeInv, [Next]_vars
  PROVE  /\ contact'.loading => contact.loading \/ Waiting'
         /\ HandleHistoryResponse => ~contact'.loading
<1>1. ContactOK(contact) /\ contact \in ContactT  BY ShapeGives DEF ContactOK
<1>2. ASSUME HandleHistoryResponse PROVE ~contact'.loading
  <2>1. (~contact.known /\ contact' = contact) \/ contact' = Loaded(contact, Head(inbox).messages)
    BY <1>2, HandleHistoryResponseShape DEF ShowTo
  <2>2. QED BY <1>1, <2>1 DEF ContactOK, ContactT, Loaded
<1>3. ASSUME Open \/ HandleContactList PROVE contact'.loading => contact.loading \/ Waiting'
  <2>1. PICK c, box, gone : /\ MaybeLoadHistory(c, box, gone) /\ ContactOK(c)
                            /\ BoxOK(box, Len(rows)) /\ c.loading = contact.loading
    BY <1>3, OpenIs, ListIs, ShapeGives
  <2>2. contact' = c \/ (RequestHistory(c, box, gone, Latest) /\ c.known)
    BY <2>1 DEF MaybeLoadHistory, ContactOK
  <2>3. Latest \in Int  BY DEF Latest
  <2>4. QED BY <2>1, <2>2, <2>3, RequestWaits
<1>4. ASSUME LoadMore PROVE Waiting'
  <2>1. PICK b \in Int : RequestHistory(contact, outbox, lost, b) /\ contact.known
    BY <1>4, LoadMoreShape DEF LoadMore
  <2>2. QED BY <1>1, <2>1, ShapeGives, RequestWaits
<1>5. ASSUME HandleMessage PROVE contact'.loading = contact.loading
  BY <1>5, HandleMessageShape DEF ShowTo
<1>6. ASSUME Leave PROVE contact'.loading = contact.loading  BY <1>1, <1>6 DEF Leave, ContactT
<1>7. QED BY <1>2, <1>3, <1>4, <1>5, <1>6, Leaves

\* Nothing of what is waited for is taken away.
LEMMA StepWaits ==
  ASSUME ShapeInv, WaitInv, [Next]_vars
  PROVE  WaitInv' /\ lost \subseteq lost'
<1>1. /\ lost \subseteq lost' /\ (HandleHistoryResponse => ~contact'.loading)
      /\ contact'.loading => contact.loading \/ Waiting'
  BY LostStays, StepAsks
<1>2. HandleHistoryRequest => page' # NoPage
  <2>1. HandleHistoryRequest => page'.type = "history_response"
    BY HandleHistoryRequestShape, MakesServerFrame
  <2>2. QED BY <2>1 DEF NoPage
<1>3. CASE \E k \in 1..Len(outbox) : outbox[k].type = "history_request"
  BY <1>1, <1>2, <1>3, OutboxGoes DEF Spent, WaitInv, Waiting
<1>4. CASE page # NoPage
  <2>1. CASE SendPage
    <3>1. ToClient(page) /\ page.type = "history_response"
      BY <2>1, SendPageShape, MakesServerFrame DEF SendPage
    <3>2. QED BY <1>1, <3>1, ToClientAdds DEF WaitInv, Waiting
  <2>2. QED BY <1>1, <1>2, <1>4, <2>1, Leaves DEF WaitInv, Waiting
<1>5. CASE \E k \in 1..Len(inbox) : inbox[k].type = "history_response"
  BY <1>1, <1>5, InboxFrom DEF Goes, WaitInv, Waiting
<1>6. CASE \E f \in lost : f.type \in {"history_request", "history_response"}
  BY <1>1, <1>6 DEF WaitInv, Waiting
<1>7. QED BY <1>1, <1>3, <1>4, <1>5, <1>6 DEF WaitInv, Waiting

LEMMA InitQuiet ==
  ASSUME Init
  PROVE  WaitInv
<1>1. contact = [known |-> FALSE, active |-> FALSE, unread |-> 0,
                 loaded |-> FALSE, loading |-> FALSE, exhausted |-> FALSE]
  BY DEF Init
<1>2. ~contact.loading  BY <1>1
<1>3. QED BY <1>2 DEF WaitInv

\* Whatever the connections, the failures and the pages do, the state keeps its
\* shape: frames of the protocol only, ids of rows that exist, an outbox within
\* its capacity and empty without a connection, a badge only on a known
\* conversation that is not open (client/update.go, client/network.go).
THEOREM ChatShapeCorrect == ChatSpec => []ShapeInv
<1>1. Init => ShapeInv  BY InitShape
<1>2. ShapeInv /\ [Next]_vars => ShapeInv'  BY StepShape
<1>3. QED BY <1>1, <1>2, PTL DEF ChatSpec

\* While historyLoading keeps the client from asking again, the request, the page
\* or the answer is on its way, or was lost (maybeLoadHistory, requestHistory and
\* handleHistoryResponse against handleHistoryRequest).
THEOREM PagesAwaited == ChatSpec => []HistoryIsComing
<1>1. Init => ShapeInv /\ WaitInv  BY InitShape, InitQuiet
<1>2. ShapeInv /\ WaitInv /\ [Next]_vars => (ShapeInv /\ WaitInv)'  BY StepShape, StepWaits
<1>3. ShapeInv /\ WaitInv => HistoryIsComing
  <2>1. SUFFICES ASSUME ShapeInv, WaitInv PROVE HistoryIsComing  OBVIOUS
  <2>2. DOMAIN outbox = 1..Len(outbox) /\ DOMAIN inbox = 1..Len(inbox)
    BY DEF ShapeInv, ChatShape, WireShape
  <2>3. QED BY <2>1, <2>2 DEF WaitInv, Waiting, HistoryIsComing
<1>4. QED BY <1>1, <1>2, <1>3, PTL DEF ChatSpec

-----------------------------------------------------------------------------
(* The read acknowledgements.                                              *)

LEMMA HonestStays ==
  ASSUME ShapeInv, Grown(rows'), NEW f \in ServerFrame, f.type = "history_response",
         Within(f, Len(rows)), Honest(f)
  PROVE  \A i \in 1..Len(f.messages) : f.messages[i].read => rows'[f.messages[i].id].read
<1>1. f.messages \in Seq(Item) /\ \A i \in 1..Len(f.messages) : f.messages[i].id <= Len(rows)
  BY ServerFrameIs DEF Within
<1>2. Len(rows) \in Nat  BY ShapeGives
<1>3. TAKE i \in 1..Len(f.messages)
<1>4. f.messages[i] \in Item  BY <1>1
<1>5. f.messages[i].id \in 1..Len(rows)  BY <1>1, <1>2, <1>4 DEF Item, Id
<1>6. QED BY <1>5 DEF Honest, Grown

LEMMA StepHonest ==
  ASSUME ShapeInv, PagesHonest, [Next]_vars
  PROVE  PagesHonest'
<1>1. page # NoPage => page \in ServerFrame /\ Within(page, Len(rows)) /\ page.type = "history_response"
  BY MakesServerFrame DEF ShapeInv, ChatShape, ServerShape, Known
<1>2. \A l \in 1..Len(inbox) : inbox[l] \in ServerFrame /\ Within(inbox[l], Len(rows))
  BY DEF ShapeInv, ChatShape, WireShape, Known
<1>3. page # NoPage => \A i \in 1..Len(page.messages) :
                         page.messages[i].read => rows'[page.messages[i].id].read
  BY <1>1, StepGrows, HonestStays DEF PagesHonest
<1>4. \A l \in 1..Len(inbox) : inbox[l].type = "history_response" =>
        \A i \in 1..Len(inbox[l].messages) :
          inbox[l].messages[i].read => rows'[inbox[l].messages[i].id].read
  BY <1>2, StepGrows, HonestStays DEF PagesHonest
<1>5. ASSUME NEW f, NEW k \in 1..Len(inbox'), f = inbox'[k], f.type = "history_response"
      PROVE  \A i \in 1..Len(f.messages) : f.messages[i].read => rows'[f.messages[i].id].read
  BY <1>3, <1>4, <1>5, InboxFrom DEF Came, MessageAck
<1>6. CASE HandleHistoryRequest
  <2>1. /\ Head(outbox).before \in Int /\ page' = HistoryResponse(HistoryPage(Head(outbox).before))
        /\ HistoryPage(Head(outbox).before) \in Seq(Item) /\ rows' = rows
    BY <1>6, HandleHistoryRequestShape DEF HandleHistoryRequest
  <2>2. PICK p \in Seq(Item) : p = HistoryPage(Head(outbox).before)  BY <2>1
  <2>3. PICK m \in 0..Len(rows), s \in 0..PageSize :
          /\ Len(p) = s /\ s <= m
          /\ \A k \in 1..s : p[k].id = m - k + 1 /\ p[k].read = rows[m - k + 1].read
    BY <2>1, <2>2, ShapeGives, PageIs
  <2>4. \A i \in 1..Len(p) : p[i].read => rows'[p[i].id].read  BY <2>1, <2>3
  <2>5. page'.messages = p  BY <2>1, <2>2 DEF HistoryResponse
  <2>6. QED BY <1>5, <2>4, <2>5 DEF PagesHonest, Honest
<1>7. CASE page' = page \/ page' = NoPage  BY <1>3, <1>5, <1>7 DEF PagesHonest, Honest
<1>8. QED BY <1>6, <1>7, Leaves DEF SendPage

\* A step that shows nothing new of the peer.
LEMMA AckStays ==
  ASSUME ShapeInv, AckInv, Grown(rows'), lost \subseteq lost',
         link = "down" => link' = "down",
         \A k \in 1..Len(outbox) : outbox[k].type = "ack_read" =>
           \/ \E l \in 1..Len(outbox') : outbox'[l] = outbox[k]
           \/ outbox[k] \in lost' \/ rows'[outbox[k].id].read,
         \A i \in 1..Len(msgs') : ~msgs'[i].mine =>
           \E j \in 1..Len(msgs) :
             /\ ~msgs[j].mine /\ msgs'[i].id = msgs[j].id
             /\ msgs'[i].seen = msgs[j].seen /\ msgs'[i].sent = msgs[j].sent
  PROVE  AckInv'
<1>1. SUFFICES ASSUME NEW i \in 1..Len(msgs'), ~msgs'[i].mine, msgs'[i].seen,
                      ~rows'[msgs'[i].id].read
               PROVE  \/ AckRead(msgs'[i].id) \in lost'
                      \/ \E k \in 1..Len(outbox') : outbox'[k] = AckRead(msgs'[i].id)
                      \/ link' = "down" /\ ~msgs'[i].sent
  BY DEF AckInv, Acked, Underway
<1>2. PICK j \in 1..Len(msgs) : /\ ~msgs[j].mine /\ msgs'[i].id = msgs[j].id
                                /\ msgs'[i].seen = msgs[j].seen /\ msgs'[i].sent = msgs[j].sent
  BY <1>1
<1>3. PICK id : id = msgs[j].id  OBVIOUS
<1>4. id \in 1..Len(rows)  BY <1>2, <1>3, ShapeGives DEF MsgsOK, Id
<1>5. ~rows[id].read  BY <1>1, <1>2, <1>3, <1>4 DEF Grown
<1>6. Underway(id) \/ (link = "down" /\ ~msgs[j].sent)  BY <1>1, <1>2, <1>3, <1>5 DEF AckInv, Acked
<1>7. CASE AckRead(id) \in lost  BY <1>2, <1>3, <1>7
<1>8. CASE \E k \in 1..Len(outbox) : outbox[k] = AckRead(id)
  <2>1. PICK k \in 1..Len(outbox) : outbox[k] = AckRead(id)  BY <1>8
  <2>2. outbox[k].type = "ack_read" /\ outbox[k].id = id  BY <2>1 DEF AckRead
  <2>3. \/ \E l \in 1..Len(outbox') : outbox'[l] = outbox[k]
        \/ outbox[k] \in lost'
    BY <1>1, <1>2, <1>3, <2>2
  <2>4. QED BY <1>2, <1>3, <2>1, <2>3
<1>9. QED BY <1>2, <1>3, <1>6, <1>7, <1>8 DEF Underway

LEMMA MarkedAt ==
  ASSUME NEW ms \in Seq(EntryT), NEW D, NEW n, NEW i \in 1..Len(ms)
  PROVE  /\ i \notin D => Marked(ms, D, n)[i] = ms[i]
         /\ i \in D /\ i \notin Accepted(D, n) => ~Marked(ms, D, n)[i].sent
<1>1. i \in DOMAIN ms /\ ms[i] \in EntryT  OBVIOUS
<1>2. Marked(ms, D, n)[i] = IF i \in D
                            THEN [ms[i] EXCEPT !.seen = TRUE, !.sent = i \in Accepted(D, n)]
                            ELSE ms[i]
  BY <1>1 DEF Marked
<1>3. ASSUME i \in D, i \notin Accepted(D, n)
      PROVE  ~Marked(ms, D, n)[i].sent
  <2>1. (i \in Accepted(D, n)) = FALSE  BY <1>3
  <2>2. Marked(ms, D, n)[i] = [ms[i] EXCEPT !.seen = TRUE, !.sent = FALSE]  BY <1>2, <1>3, <2>1
  <2>3. QED BY <1>1, <2>2 DEF EntryT
<1>4. QED BY <1>2, <1>3

\* markConversationRead over the entries of an open conversation.
LEMMA MarkedAcked ==
  ASSUME NEW n \in Nat, BoxOK(outbox, n), NEW ms, MsgsOK(ms, n), \A i \in 1..Len(ms) : Acked(ms[i])
  PROVE  AckedBy(Marked(ms, Unacked(ms), Room(outbox)),
                 outbox \o Acks(ms, Unacked(ms), Room(outbox)),
                 lost \cup Refused(ms, Unacked(ms), Room(outbox)))
<1>a. PICK ns : ns = Marked(ms, Unacked(ms), Room(outbox))
  OBVIOUS
<1>b. PICK box : box = outbox \o Acks(ms, Unacked(ms), Room(outbox))
  OBVIOUS
<1>c. PICK gone : gone = lost \cup Refused(ms, Unacked(ms), Room(outbox))
  OBVIOUS
<1>1. ms \in Seq(EntryT) /\ DOMAIN ms = 1..Len(ms)  BY DEF MsgsOK
<1>2. SameFaces(ms, ns)  BY <1>a, <1>1, MarkedKeeps
<1>d. ASSUME NEW i \in 1..Len(ms)
      PROVE  /\ i \notin Unacked(ms) => ns[i] = ms[i]
             /\ i \in Unacked(ms) /\ i \notin Accepted(Unacked(ms), Room(outbox)) => ~ns[i].sent
  BY <1>a, <1>1, MarkedAt
<1>3. /\ \A k \in 1..Len(outbox) : k \in 1..Len(box) /\ box[k] = outbox[k]
      /\ \A i \in Accepted(Unacked(ms), Room(outbox)) :
           \E k \in 1..Len(box) : box[k] = AckRead(ms[i].id)
  <2>1. PICK a : a = Acks(ms, Unacked(ms), Room(outbox))  OBVIOUS
  <2>2. PICK F : a \in Seq(F)  BY <1>1, <2>1, RoomIs, UnackedIs, AcksAre
  <2>3. outbox \in Seq(ClientFrame)  BY DEF BoxOK
  <2>4. Len(box) = Len(outbox) + Len(a) /\ Len(a) \in Nat /\ Len(outbox) \in Nat
    BY <1>b, <2>1, <2>2, <2>3
  <2>5. \A k \in 1..Len(outbox) : k \in 1..Len(box) /\ box[k] = outbox[k]
    BY <1>b, <2>1, <2>2, <2>3, <2>4
  <2>8. \A i \in Accepted(Unacked(ms), Room(outbox)) :
          \E l \in 1..Len(a) : a[l] = AckRead(ms[i].id)
    <3>1. Room(outbox) \in Nat /\ Unacked(ms) \in SUBSET DOMAIN ms  BY RoomIs, UnackedIs
    <3>2. QED BY <1>1, <2>1, <3>1, AcksAre, Zenon
  <2>9. \A l \in 1..Len(a) : Len(outbox) + l \in 1..Len(box) /\ box[Len(outbox) + l] = a[l]
    BY <1>b, <2>1, <2>2, <2>3, <2>4
  <2>6. \A i \in Accepted(Unacked(ms), Room(outbox)) :
          \E k \in 1..Len(box) : box[k] = AckRead(ms[i].id)
    BY <2>8, <2>9
  <2>7. QED BY <2>5, <2>6
<1>4. SUFFICES ASSUME NEW i \in 1..Len(ns), ~ns[i].mine, ns[i].seen, ~rows[ns[i].id].read
               PROVE  \/ AckRead(ns[i].id) \in gone
                      \/ \E k \in 1..Len(box) : box[k] = AckRead(ns[i].id)
                      \/ link = "down" /\ ~ns[i].sent
  BY <1>a, <1>b, <1>c DEF AckedBy
<1>5. i \in 1..Len(ms) /\ ns[i].id = ms[i].id /\ ns[i].mine = ms[i].mine  BY <1>2 DEF SameFaces
<1>6. CASE i \notin Unacked(ms)
  <2>1. ns[i] = ms[i] /\ ms[i].sent  BY <1>1, <1>2, <1>d, <1>4, <1>5, <1>6 DEF Unacked
  <2>2. Underway(ms[i].id)  BY <1>4, <1>5, <2>1 DEF Acked
  <2>3. CASE AckRead(ms[i].id) \in lost  BY <1>c, <1>5, <2>3
  <2>4. CASE \E k \in 1..Len(outbox) : outbox[k] = AckRead(ms[i].id)  BY <1>3, <1>5, <2>4
  <2>5. QED BY <2>2, <2>3, <2>4 DEF Underway
<1>7. CASE i \in Unacked(ms) /\ i \in Accepted(Unacked(ms), Room(outbox))  BY <1>3, <1>5, <1>7
<1>8. CASE i \in Unacked(ms) /\ i \notin Accepted(Unacked(ms), Room(outbox))
  <2>1. CASE link = "down"  BY <1>d, <1>5, <1>8, <2>1
  <2>2. CASE link # "down"
    <3>1. AckRead(ms[i].id) \in Refused(ms, Unacked(ms), Room(outbox))  BY <1>8, <2>2 DEF Refused
    <3>2. QED BY <1>c, <1>5, <3>1
  <2>3. QED BY <2>1, <2>2
<1>9. QED BY <1>6, <1>7, <1>8

LEMMA ShowToAcks ==
  ASSUME ShapeInv, NEW c, NEW ms, MsgsOK(ms, Len(rows)), \A i \in 1..Len(ms) : Acked(ms[i]),
         ShowTo(c, ms), rows' = rows, link' = link
  PROVE  AckInv'
<1>1. CASE c.active
  <2>1. /\ msgs' = Marked(ms, Unacked(ms), Room(outbox))
        /\ outbox' = outbox \o Acks(ms, Unacked(ms), Room(outbox))
        /\ lost' = lost \cup Refused(ms, Unacked(ms), Room(outbox))
    BY <1>1 DEF ShowTo
  <2>2. AckedBy(msgs', outbox', lost')  BY <2>1, ShapeGives, MarkedAcked
  <2>3. QED BY <2>2 DEF AckedBy, AckInv, Acked, Underway
<1>2. CASE ~c.active  BY <1>2 DEF ShowTo, AckInv, Acked, Underway
<1>3. QED BY <1>1, <1>2

\* What lies in the outbox stays, and the messages of the peer.
LEMMA QueuedAcks ==
  ASSUME ShapeInv, AckInv, Queued, rows' = rows, lost \subseteq lost', link' = link, msgs' = msgs
  PROVE  AckInv'
<1>1. Grown(rows')  BY ShapeGives, GrownNot
<1>2. \A k \in 1..Len(outbox) : \E l \in 1..Len(outbox') : outbox'[l] = outbox[k]  BY DEF Queued
<1>3. QED BY <1>1, <1>2, AckStays

LEMMA UserAcks ==
  ASSUME ShapeInv, WaitInv, AckInv, Open \/ Leave \/ LoadMore \/ Type
  PROVE  AckInv'
<1>0. lost \subseteq lost'  BY LostStays DEF Next
<1>1. CASE Leave \/ LoadMore
  <2>1. msgs' = msgs /\ rows' = rows /\ link' = link /\ Queued
    BY <1>1, LoadMoreShape DEF Leave, LoadMore, server, Queued
  <2>2. QED BY <1>0, <2>1, QueuedAcks
<1>2. CASE Type
  <2>1. rows' = rows /\ link' = link /\ Queued  BY <1>2, TypeShape DEF Type, server, Queued
  <2>2. Grown(rows')  BY <2>1, ShapeGives, GrownNot
  <2>3. /\ Len(msgs') = Len(msgs) + 1 /\ Len(msgs) \in Nat /\ msgs'[Len(msgs) + 1] = Typed
        /\ \A i \in 1..Len(msgs) : msgs'[i] = msgs[i]
    BY <1>2, TypeShape
  <2>4. Typed.mine  BY DEF Typed
  <2>5. \A i \in 1..Len(msgs') : i \in 1..Len(msgs) \/ i = Len(msgs) + 1  BY <2>3
  <2>6. \A i \in 1..Len(msgs') : ~msgs'[i].mine => i \in 1..Len(msgs) /\ msgs'[i] = msgs[i]
    BY <2>3, <2>4, <2>5
  <2>7. \A k \in 1..Len(outbox) : \E l \in 1..Len(outbox') : outbox'[l] = outbox[k]
    BY <2>1 DEF Queued
  <2>8. QED BY <1>0, <2>1, <2>2, <2>6, <2>7, AckStays
<1>3. CASE Open
  <2>1. PICK c, box, gone :
          /\ box = outbox \o Acks(msgs, Unacked(msgs), Room(outbox))
          /\ gone = lost \cup Refused(msgs, Unacked(msgs), Room(outbox))
          /\ MaybeLoadHistory(c, box, gone) /\ ContactOK(c) /\ BoxOK(box, Len(rows))
    BY <1>3, OpenIs
  <2>2. msgs' = Marked(msgs, Unacked(msgs), Room(outbox)) /\ rows' = rows /\ link' = link
    BY <1>3 DEF Open, server
  <2>3. /\ gone \subseteq lost'
        /\ \A k \in 1..Len(box) : k \in 1..Len(outbox') /\ outbox'[k] = box[k]
    BY <2>1, MaybeLoadIs
  <2>4. \A i \in 1..Len(msgs) : Acked(msgs[i])  BY DEF AckInv
  <2>5. AckedBy(msgs', box, gone)  BY <2>1, <2>2, <2>4, ShapeGives, MarkedAcked
  <2>6. QED BY <2>2, <2>3, <2>5 DEF AckedBy, AckInv, Acked, Underway
<1>4. QED BY <1>1, <1>2, <1>3

\* Every entry that is shown after a page is one of the page or was there before.
LEMMA ResultFrom ==
  ASSUME NEW p, NEW n, MsgsOK(Entries(p), n), MsgsOK(msgs, n), NEW shown \in Results(p)
  PROVE  \A i \in 1..Len(shown) : \/ \E j \in 1..Len(msgs) : shown[i] = msgs[j]
                                  \/ \E j \in 1..Len(Entries(p)) : shown[i] = Entries(p)[j]
<1>1. PICK es : es = Entries(p)  OBVIOUS
<1>2. MsgsOK(es, n) /\ es \in Seq(EntryT) /\ msgs \in Seq(EntryT)  BY <1>1 DEF MsgsOK
<1>3. CASE contact.loaded
  <2>1. shown = es \o msgs  BY <1>1, <1>3 DEF Results
  <2>2. /\ Len(shown) = Len(es) + Len(msgs) /\ Len(es) \in Nat /\ Len(msgs) \in Nat
        /\ \A k \in 1..Len(es) : shown[k] = es[k]
        /\ \A k \in 1..Len(msgs) : shown[Len(es) + k] = msgs[k]
    BY <1>2, <2>1, ConcatIs
  <2>4. ASSUME NEW k \in 1..Len(shown), k \notin 1..Len(es)
        PROVE  \E l \in 1..Len(msgs) : shown[k] = msgs[l]
    <3>1. k - Len(es) \in 1..Len(msgs) /\ k = Len(es) + (k - Len(es))  BY <2>2, <2>4
    <3>2. shown[Len(es) + (k - Len(es))] = msgs[k - Len(es)]  BY <2>2, <3>1
    <3>3. QED BY <3>1, <3>2
  <2>3. QED BY <1>1, <2>2, <2>4
<1>4. CASE ~contact.loaded
  <2>1. shown \in MergeInitialHistory(msgs, es)  BY <1>1, <1>4 DEF Results
  <2>2. \A k \in 1..Len(shown) : \/ \E i \in 1..Len(msgs) : shown[k] = msgs[i]
                                 \/ \E j \in 1..Len(es) : shown[k] = es[j]
    BY <1>2, <2>1, MergedFrom
  <2>3. QED BY <1>1, <2>2
<1>5. QED BY <1>3, <1>4

LEMMA ClientAcks ==
  ASSUME ShapeInv, WaitInv, PagesHonest, AckInv, ClientStep
  PROVE  AckInv'
<1>1. rows' = rows /\ Grown(rows') /\ lost \subseteq lost'
  <2>1. rows' = rows
    BY DEF ClientStep, HandleContactList, HandleMessage, HandleHistoryResponse, HandleMessageAck,
       HandleAckRead, HandleDisconnected, server
  <2>2. QED BY <2>1, ShapeGives, GrownNot, LostStays DEF Next
<1>2. \A i \in 1..Len(msgs) : Acked(msgs[i])  BY DEF AckInv
<1>3. CASE HandleContactList
  <2>1. msgs' = msgs /\ Queued /\ link' = link
    BY <1>3, HandleContactListShape DEF HandleContactList
  <2>2. QED BY <1>1, <2>1, QueuedAcks
<1>4. CASE HandleMessage
  <2>1. PICK id : id = Head(inbox).id  OBVIOUS
  <2>2. PICK ms : ms = AppendMessage(msgs, Arrived(id))  OBVIOUS
  <2>3. /\ link' = link /\ MsgsOK(ms, Len(rows)) /\ Arrived(id) \in EntryT
        /\ \E c : ShowTo(c, ms)
    BY <1>4, <2>1, <2>2, HandleMessageShape DEF HandleMessage
  <2>4. \A i \in 1..Len(ms) : Acked(ms[i])
    <3>1. msgs \in Seq(EntryT)  BY ShapeGives DEF MsgsOK
    <3>2. Acked(Arrived(id))  BY DEF Acked, Arrived
    <3>3. CASE ms = msgs  BY <1>2, <3>3
    <3>4. CASE ms = Append(msgs, Arrived(id))
      <4>1. PICK e \in EntryT : e = Arrived(id)  BY <2>3
      <4>2. ms = Append(msgs, e)  BY <3>4, <4>1
      <4>3. /\ Len(ms) = Len(msgs) + 1 /\ ms[Len(msgs) + 1] = e
            /\ \A i \in 1..Len(msgs) : ms[i] = msgs[i]
        BY <3>1, <4>2, AppendIs
      <4>4. \A i \in 1..Len(ms) : i \in 1..Len(msgs) \/ i = Len(msgs) + 1  BY <3>1, <4>3
      <4>5. QED BY <1>2, <3>2, <4>1, <4>3, <4>4
    <3>5. QED BY <2>2, <3>3, <3>4 DEF AppendMessage
  <2>5. QED BY <1>1, <2>3, <2>4, ShowToAcks
<1>5. CASE HandleHistoryResponse
  <2>1. link' = link  BY <1>5 DEF HandleHistoryResponse
  <2>2. PICK p : p = Head(inbox).messages  OBVIOUS
  <2>3. CASE msgs' = msgs /\ outbox' = outbox
    <3>1. Queued  BY <2>3 DEF Queued
    <3>2. QED BY <1>1, <2>1, <2>3, <3>1, QueuedAcks
  <2>4. ASSUME NEW shown \in Results(p), MsgsOK(shown, Len(rows)),
               ShowTo(Loaded(contact, p), shown)
        PROVE  AckInv'
    <3>1. /\ p \in Seq(Item) /\ \A i \in 1..Len(p) : p[i].id <= Len(rows)
          /\ Receive("history_response")
      BY <1>5, <2>2, HandleHistoryResponseShape
    <3>2. \A i \in 1..Len(p) : p[i].read => rows[p[i].id].read
      <4>1. 1 \in 1..Len(inbox) /\ inbox[1] = Head(inbox) /\ inbox[1].type = "history_response"
        BY <3>1, ReceiveTakes
      <4>2. Honest(inbox[1])  BY <4>1 DEF PagesHonest
      <4>3. inbox[1].messages = p  BY <2>2, <4>1
      <4>4. QED BY <4>2, <4>3 DEF Honest
    <3>3. /\ MsgsOK(Entries(p), Len(rows)) /\ Len(Entries(p)) = Len(p)
          /\ \A i \in 1..Len(p) : \E k \in 1..Len(p) :
               /\ Entries(p)[i].id = p[k].id
               /\ ~Entries(p)[i].mine => (Entries(p)[i].seen <=> p[k].read)
      BY <3>1, ShapeGives, EntriesAre
    <3>4. \A i \in 1..Len(Entries(p)) : Acked(Entries(p)[i])  BY <3>2, <3>3 DEF Acked
    <3>5. \A i \in 1..Len(shown) : \/ \E j \in 1..Len(msgs) : shown[i] = msgs[j]
                                   \/ \E j \in 1..Len(Entries(p)) : shown[i] = Entries(p)[j]
      <4>1. MsgsOK(msgs, Len(rows))  BY ShapeGives
      <4>2. MsgsOK(Entries(p), Len(rows)) /\ shown \in Results(p)  BY <2>4, <3>3
      <4>3. QED BY ONLY <4>1, <4>2, ResultFrom
    <3>6. \A i \in 1..Len(shown) : Acked(shown[i])  BY <1>2, <3>4, <3>5
    <3>7. QED BY <1>1, <2>1, <2>4, <3>6, ShowToAcks
  <2>5. QED BY <1>5, <2>2, <2>3, <2>4, HandleHistoryResponseShape
<1>6. CASE HandleMessageAck
  <2>1. /\ msgs' = AckedIn(msgs, Head(inbox)) /\ outbox' = outbox /\ link' = link
        /\ Head(inbox).id \in Id /\ Head(inbox).id <= Len(rows)
    BY <1>6, HandleMessageAckShape DEF HandleMessageAck
  <2>2. /\ Len(msgs') = Len(msgs)
        /\ \A i \in 1..Len(msgs) : /\ msgs'[i].mine = msgs[i].mine
                                   /\ ~msgs[i].mine => msgs'[i] = msgs[i]
    BY <2>1, ShapeGives, AckedOK
  <2>3. \A i \in 1..Len(msgs') : ~msgs'[i].mine =>
           \E j \in 1..Len(msgs) :
             /\ ~msgs[j].mine /\ msgs'[i].id = msgs[j].id
             /\ msgs'[i].seen = msgs[j].seen /\ msgs'[i].sent = msgs[j].sent
    BY <2>2
  <2>4. QED BY <1>1, <2>1, <2>3, AckStays
<1>7. CASE HandleAckRead
  <2>1. msgs' = MarkTick(msgs, Head(inbox).id) /\ outbox' = outbox /\ link' = link
    BY <1>7, HandleAckReadShape DEF HandleAckRead
  <2>2. /\ Len(msgs') = Len(msgs)
        /\ \A i \in 1..Len(msgs) :
             /\ msgs'[i].mine = msgs[i].mine /\ msgs'[i].id = msgs[i].id
             /\ msgs'[i].seen = msgs[i].seen /\ msgs'[i].sent = msgs[i].sent
    BY <2>1, ShapeGives, TickedOK
  <2>3. \A i \in 1..Len(msgs') : ~msgs'[i].mine =>
           \E j \in 1..Len(msgs) :
             /\ ~msgs[j].mine /\ msgs'[i].id = msgs[j].id
             /\ msgs'[i].seen = msgs[j].seen /\ msgs'[i].sent = msgs[j].sent
    BY <2>2
  <2>4. QED BY <1>1, <2>1, <2>3, AckStays
<1>8. CASE HandleDisconnected
  <2>1. /\ msgs' = msgs /\ link' = "down"
        /\ lost' = lost \cup {outbox[i] : i \in DOMAIN outbox}
    BY <1>8 DEF HandleDisconnected
  <2>2. DOMAIN outbox = 1..Len(outbox)  BY DEF ShapeInv, ChatShape, WireShape
  <2>3. \A k \in 1..Len(outbox) : outbox[k] \in lost'  BY <2>1, <2>2
  <2>4. QED BY <1>1, <2>1, <2>3, AckStays
<1>9. QED BY <1>3, <1>4, <1>5, <1>6, <1>7, <1>8 DEF ClientStep

LEMMA ServerAcks ==
  ASSUME ShapeInv, AckInv, lost \subseteq lost', Grown(rows'),
         ServerStep \/ PeerSends \/ ServerNotices \/ HandlerFails \/ LoseConnection
           \/ \E id \in DOMAIN rows : PeerReads(id)
  PROVE  AckInv'
<1>1. msgs' = msgs /\ (link = "down" => link' = "down")
  BY DEF ServerStep, PeerSends, ServerNotices, HandlerFails, LoseConnection, PeerReads,
     PushContactList, LoadUndelivered, ReplayOne, ServeReturns, Relay, HandleHistoryRequest,
     SendPage, ServerMarksRead, StoreMessage, SendAck
<1>3. CASE outbox' = outbox  BY <1>1, <1>3, AckStays
<1>4. CASE LoseConnection  BY <1>1, <1>4, LoseConnectionLoses, AckStays
<1>5. ASSUME NEW type, Read(type), \/ type \in {"history_request", "message"}
                                   \/ Head(outbox) \in lost' \/ rows'[Head(outbox).id].read
      PROVE  AckInv'
  <2>1. Head(outbox).type = type  BY <1>5 DEF Read
  <2>2. \A k \in 1..Len(outbox) : outbox[k].type = "ack_read" =>
           \/ \E l \in 1..Len(outbox') : outbox'[l] = outbox[k]
           \/ outbox[k] \in lost' \/ rows'[outbox[k].id].read
    <3>1. TAKE k \in 1..Len(outbox)
    <3>2. outbox[k] = Head(outbox) \/ \E l \in 1..Len(outbox') : outbox'[l] = outbox[k]
      BY <1>5, ReadLeaves
    <3>3. QED BY <1>5, <2>1, <3>2
  <2>3. QED BY <1>1, <2>2, AckStays
<1>6. CASE HandlerFails  BY <1>5, <1>6 DEF HandlerFails
<1>7. CASE HandleHistoryRequest  BY <1>5, <1>7 DEF HandleHistoryRequest
<1>8. CASE StoreMessage  BY <1>5, <1>8 DEF StoreMessage
<1>9. CASE ServerMarksRead
  <2>1. Read("ack_read") /\ rows'[Head(outbox).id].read
    BY <1>9, ServerMarksReadShape DEF ServerMarksRead
  <2>2. QED BY <1>5, <2>1
<1>10. QED
  BY <1>3, <1>4, <1>6, <1>7, <1>8, <1>9
     DEF ServerStep, PeerSends, ServerNotices, PeerReads,
     PushContactList, LoadUndelivered, ReplayOne, ServeReturns, Relay, SendPage, SendAck

LEMMA ConnectAcks ==
  ASSUME ShapeInv, AckInv, Connect
  PROVE  AckInv'
<1>1. /\ msgs' = Marked(msgs, Pending(msgs), OutCap)
      /\ outbox' = Acks(msgs, Pending(msgs), OutCap)
      /\ lost' = lost \cup {AckRead(msgs[i].id) : i \in Pending(msgs) \ Accepted(Pending(msgs), OutCap)}
      /\ rows' = rows /\ link = "down"
  BY DEF Connect, Connected
<1>2. msgs \in Seq(EntryT) /\ DOMAIN msgs = 1..Len(msgs) /\ OutCap \in Nat
  BY ShapeGives, ChatAssumption DEF MsgsOK
<1>3. SameFaces(msgs, msgs')  BY <1>1, <1>2, MarkedKeeps
<1>4. \A i \in Accepted(Pending(msgs), OutCap) :
        \E k \in 1..Len(outbox') : outbox'[k] = AckRead(msgs[i].id)
  <2>1. Pending(msgs) \in SUBSET DOMAIN msgs  BY UnackedIs
  <2>2. PICK a : a = Acks(msgs, Pending(msgs), OutCap)  OBVIOUS
  <2>3. \A i \in Accepted(Pending(msgs), OutCap) : \E k \in 1..Len(a) : a[k] = AckRead(msgs[i].id)
    BY <1>2, <2>1, <2>2, AcksAre, Zenon
  <2>4. QED BY <1>1, <2>2, <2>3
<1>5. SUFFICES ASSUME NEW i \in 1..Len(msgs'), ~msgs'[i].mine, msgs'[i].seen,
                      ~rows[msgs'[i].id].read
               PROVE  \/ AckRead(msgs'[i].id) \in lost'
                      \/ \E k \in 1..Len(outbox') : outbox'[k] = AckRead(msgs'[i].id)
  BY <1>1 DEF AckInv, Acked, Underway
<1>6. i \in 1..Len(msgs) /\ msgs'[i].id = msgs[i].id /\ msgs'[i].mine = msgs[i].mine
  BY <1>3 DEF SameFaces
<1>7. CASE i \in Pending(msgs)  BY <1>1, <1>4, <1>6, <1>7
<1>8. CASE i \notin Pending(msgs)
  <2>1. msgs'[i] = msgs[i] /\ msgs[i].sent
    <3>1. msgs'[i] = msgs[i]  BY <1>1, <1>2, <1>6, <1>8, MarkedAt
    <3>2. QED BY <1>2, <1>5, <1>6, <1>8, <3>1 DEF Pending, Unacked
  <2>2. Underway(msgs[i].id)  BY <1>5, <1>6, <2>1 DEF AckInv, Acked
  <2>3. outbox = <<>>  BY ConnectShape
  <2>4. AckRead(msgs[i].id) \in lost  BY <2>2, <2>3 DEF Underway
  <2>5. QED BY <1>1, <1>6, <2>4
<1>9. QED BY <1>7, <1>8

LEMMA StepAcks ==
  ASSUME ShapeInv, WaitInv, PagesHonest, AckInv, [Next]_vars
  PROVE  AckInv'
<1>1. lost \subseteq lost' /\ Grown(rows')  BY StepWaits, StepGrows
<1>2. CASE UNCHANGED vars  BY <1>2, Stutter DEF AckInv, Acked, Underway
<1>3. CASE Next  BY <1>1, <1>3, UserAcks, ClientAcks, ServerAcks, ConnectAcks DEF Next
<1>4. QED BY <1>2, <1>3

LEMMA InitAcks ==
  ASSUME Init
  PROVE  PagesHonest /\ AckInv
BY DEF Init, PagesHonest, AckInv

\* A message that has been on the screen and is unread on the server has its
\* ack_read on the way, or handleConnected will send it; only what was lost in
\* an outbox is excepted (markConversationRead, resendPendingReadAcks).
THEOREM AcksUnderway == ChatSpec => []AckIsComing
<1>1. Init => ShapeInv /\ WaitInv /\ PagesHonest /\ AckInv  BY InitShape, InitQuiet, InitAcks
<1>2. ShapeInv /\ WaitInv /\ PagesHonest /\ AckInv /\ [Next]_vars
        => (ShapeInv /\ WaitInv /\ PagesHonest /\ AckInv)'
  BY StepShape, StepWaits, StepHonest, StepAcks
<1>3. ShapeInv /\ AckInv => AckIsComing
  <2>1. SUFFICES ASSUME ShapeInv, AckInv PROVE AckIsComing  OBVIOUS
  <2>2. DOMAIN outbox = 1..Len(outbox) /\ DOMAIN msgs = 1..Len(msgs)
    BY DEF ShapeInv, ChatShape, WireShape, ClientShape
  <2>3. QED BY <2>1, <2>2 DEF AckInv, Acked, Underway, AckIsComing
<1>4. QED BY <1>1, <1>2, <1>3, PTL DEF ChatSpec

-----------------------------------------------------------------------------
(* Whose message is whose: the client's numbers and the server's ids.      *)

LEMMA WireStays ==
  ASSUME ShapeInv, WireBooks, NEW d \in {0, 1}, NEW e \in {0, 1}, Grown(rows'), sends' <= sends,
         sends \in Nat, sends' \in Nat,
         \A k \in 1..Len(outbox') : \/ k + d \in 1..Len(outbox) /\ outbox'[k] = outbox[k + d]
                                    \/ NewOut(outbox'[k]),
         \A k \in 1..Len(inbox') : \/ k + e \in 1..Len(inbox) /\ inbox'[k] = inbox[k + e]
                                   \/ NewIn(inbox'[k]),
         \A k \in 1..Len(outbox') : outbox'[k].type = "message" =>
           (Fresh(msgs, outbox'[k].cm) => Fresh(msgs', outbox'[k].cm)),
         \A k \in 1..Len(inbox') : inbox'[k].type = "message_ack" =>
           (Fresh(msgs, inbox'[k].cm) => Fresh(msgs', inbox'[k].cm))
  PROVE  WireBooks'
<1>1. Len(rows) \in Nat /\ rows \in Seq(RowT)  BY ShapeGives
<1>2. ASSUME NEW i \in 1..Len(rows)
      PROVE  (rows'[i].mine <=> rows[i].mine) /\ rows'[i].cm = rows[i].cm
  BY DEF Grown
<1>3. \A k \in 1..Len(outbox) : /\ outbox[k].type = "ack_read" => outbox[k].id \in 1..Len(rows)
                                /\ outbox[k].type = "message" => outbox[k].cm \in Nat
  <2>1. TAKE k \in 1..Len(outbox)
  <2>2. outbox[k] \in ClientFrame  BY DEF ShapeInv, ChatShape, WireShape
  <2>3. QED BY <1>1, <2>2, ClientFrameIs DEF ShapeInv, Known, Id
<1>4. \A k \in 1..Len(inbox) :
        /\ inbox[k].type \in {"message", "message_ack"} => inbox[k].id \in 1..Len(rows)
        /\ inbox[k].type = "message_ack" => inbox[k].cm \in Nat
  <2>1. TAKE k \in 1..Len(inbox)
  <2>2. inbox[k] \in ServerFrame /\ Within(inbox[k], Len(rows))
    BY DEF ShapeInv, ChatShape, WireShape, Known
  <2>3. QED BY <1>1, <2>2, ServerFrameIs DEF Within, Id
<1>5. \A k \in 1..Len(outbox') : outbox'[k].type = "ack_read" => ~rows'[outbox'[k].id].mine
  <2>1. TAKE k \in 1..Len(outbox')
  <2>2. CASE k + d \in 1..Len(outbox) /\ outbox'[k] = outbox[k + d]
    <3>1. PICK l \in 1..Len(outbox) : outbox'[k] = outbox[l]  BY <2>2
    <3>2. outbox[l].type = "ack_read" => outbox[l].id \in 1..Len(rows) /\ ~rows[outbox[l].id].mine
      BY <1>3 DEF WireBooks
    <3>3. QED BY <1>2, <3>1, <3>2
  <2>3. CASE NewOut(outbox'[k])  BY <1>2, <2>3 DEF NewOut
  <2>4. QED BY <2>2, <2>3
<1>6. \A k \in 1..Len(outbox') : outbox'[k].type = "message" =>
        /\ k + d \in 1..Len(outbox) /\ outbox'[k] = outbox[k + d]
        /\ outbox'[k].cm > sends' /\ Fresh(msgs', outbox'[k].cm)
  <2>1. SUFFICES ASSUME NEW k \in 1..Len(outbox'), outbox'[k].type = "message"
                 PROVE  /\ k + d \in 1..Len(outbox) /\ outbox'[k] = outbox[k + d]
                        /\ outbox'[k].cm > sends' /\ Fresh(msgs', outbox'[k].cm)
    OBVIOUS
  <2>2. k + d \in 1..Len(outbox) /\ outbox'[k] = outbox[k + d]  BY <2>1 DEF NewOut
  <2>3. outbox[k + d].cm \in Nat /\ outbox[k + d].cm > sends /\ Fresh(msgs, outbox[k + d].cm)
    BY <1>3, <2>1, <2>2 DEF WireBooks
  <2>4. outbox'[k].cm > sends' /\ Fresh(msgs, outbox'[k].cm)  BY <2>2, <2>3
  <2>5. QED BY <2>1, <2>2, <2>4
<1>7. \A k, l \in 1..Len(outbox') : outbox'[k].type = "message" /\ outbox'[l] = outbox'[k] => k = l
  <2>1. SUFFICES ASSUME NEW k \in 1..Len(outbox'), NEW l \in 1..Len(outbox'),
                        outbox'[k].type = "message", outbox'[l] = outbox'[k]
                 PROVE  k = l
    OBVIOUS
  <2>2. /\ k + d \in 1..Len(outbox) /\ outbox'[k] = outbox[k + d]
        /\ l + d \in 1..Len(outbox) /\ outbox'[l] = outbox[l + d]
    BY <1>6, <2>1
  <2>3. k + d = l + d  BY <2>1, <2>2 DEF WireBooks
  <2>4. QED BY <2>3
<1>8. \A k \in 1..Len(inbox') : inbox'[k].type = "message" => ~rows'[inbox'[k].id].mine
  <2>1. TAKE k \in 1..Len(inbox')
  <2>2. CASE k + e \in 1..Len(inbox) /\ inbox'[k] = inbox[k + e]
    <3>1. PICK m \in 1..Len(inbox) : inbox'[k] = inbox[m]  BY <2>2
    <3>2. inbox[m].type = "message" => inbox[m].id \in 1..Len(rows) /\ ~rows[inbox[m].id].mine
      BY <1>4 DEF WireBooks
    <3>3. QED BY <1>2, <3>1, <3>2
  <2>3. CASE NewIn(inbox'[k])  BY <1>2, <2>3 DEF NewIn
  <2>4. QED BY <2>2, <2>3
<1>9. \A k \in 1..Len(inbox') : inbox'[k].type = "message_ack" =>
        /\ k + e \in 1..Len(inbox) /\ inbox'[k] = inbox[k + e]
        /\ inbox'[k].cm > sends' /\ Fresh(msgs', inbox'[k].cm)
        /\ rows'[inbox'[k].id].mine /\ rows'[inbox'[k].id].cm = inbox'[k].cm
  <2>1. SUFFICES ASSUME NEW k \in 1..Len(inbox'), inbox'[k].type = "message_ack"
                 PROVE  /\ k + e \in 1..Len(inbox) /\ inbox'[k] = inbox[k + e]
                        /\ inbox'[k].cm > sends' /\ Fresh(msgs', inbox'[k].cm)
                        /\ rows'[inbox'[k].id].mine /\ rows'[inbox'[k].id].cm = inbox'[k].cm
    OBVIOUS
  <2>2. k + e \in 1..Len(inbox) /\ inbox'[k] = inbox[k + e]  BY <2>1 DEF NewIn
  <2>3. PICK m \in 1..Len(inbox) : inbox'[k] = inbox[m]  BY <2>2
  <2>4. /\ inbox[m].cm \in Nat /\ inbox[m].cm > sends /\ Fresh(msgs, inbox[m].cm)
        /\ inbox[m].id \in 1..Len(rows)
        /\ rows[inbox[m].id].mine /\ rows[inbox[m].id].cm = inbox[m].cm
    BY <1>4, <2>1, <2>3 DEF WireBooks
  <2>5. inbox'[k].cm > sends' /\ Fresh(msgs, inbox'[k].cm)  BY <2>3, <2>4
  <2>6. rows'[inbox'[k].id].mine /\ rows'[inbox'[k].id].cm = inbox'[k].cm  BY <1>2, <2>3, <2>4
  <2>7. QED BY <2>1, <2>2, <2>5, <2>6
<1>10. \A k, l \in 1..Len(inbox') :
         inbox'[k].type = "message_ack" /\ inbox'[l].type = "message_ack"
           /\ inbox'[k].cm = inbox'[l].cm => k = l
  <2>1. SUFFICES ASSUME NEW k \in 1..Len(inbox'), NEW l \in 1..Len(inbox'),
                        inbox'[k].type = "message_ack", inbox'[l].type = "message_ack",
                        inbox'[k].cm = inbox'[l].cm
                 PROVE  k = l
    OBVIOUS
  <2>2. /\ k + e \in 1..Len(inbox) /\ inbox'[k] = inbox[k + e]
        /\ l + e \in 1..Len(inbox) /\ inbox'[l] = inbox[l + e]
    BY <1>9, <2>1
  <2>3. k + e = l + e  BY <2>1, <2>2 DEF WireBooks
  <2>4. QED BY <2>3
<1>11. \A k \in 1..Len(outbox'), l \in 1..Len(inbox') :
         outbox'[k].type = "message" /\ inbox'[l].type = "message_ack" => outbox'[k].cm # inbox'[l].cm
  <2>1. SUFFICES ASSUME NEW k \in 1..Len(outbox'), NEW l \in 1..Len(inbox'),
                        outbox'[k].type = "message", inbox'[l].type = "message_ack"
                 PROVE  outbox'[k].cm # inbox'[l].cm
    OBVIOUS
  <2>2. /\ k + d \in 1..Len(outbox) /\ outbox'[k] = outbox[k + d]
        /\ l + e \in 1..Len(inbox) /\ inbox'[l] = inbox[l + e]
    BY <1>6, <1>9, <2>1
  <2>3. QED BY <2>1, <2>2 DEF WireBooks
<1>12. QED BY <1>5, <1>6, <1>7, <1>8, <1>9, <1>10, <1>11 DEF WireBooks

\* The same entries in the same places.
LEMMA FacesBooked ==
  ASSUME NEW ms, NEW ns, SameFaces(ms, ns)
  PROVE  /\ MsgsBooked(ms) => MsgsBooked(ns)
         /\ Distinct(ms) => Distinct(ns)
         /\ \A cm : Fresh(ms, cm) => Fresh(ns, cm)
<1>1. Len(ns) = Len(ms)
      /\ \A i \in 1..Len(ms) : ns[i].id = ms[i].id /\ ns[i].cm = ms[i].cm /\ ns[i].mine = ms[i].mine
  BY DEF SameFaces
<1>2. MsgsBooked(ms) => MsgsBooked(ns)  BY <1>1 DEF MsgsBooked
<1>3. Distinct(ms) => Distinct(ns)  BY <1>1 DEF Distinct
<1>4. \A cm : Fresh(ms, cm) => Fresh(ns, cm)  BY <1>1 DEF Fresh
<1>5. QED BY <1>2, <1>3, <1>4

\* The books are kept when the table grows.
LEMMA GrownBooked ==
  ASSUME ShapeInv, Books, Grown(rows'), sends' <= sends, sends' \in Nat, msgs' = msgs
  PROVE  /\ MsgsBooked(msgs)'
         /\ Distinct(msgs) <=> Distinct(msgs)'
<1>1. sends \in Nat  BY ShapeGives, ChatAssumption
<1>2. msgs \in Seq(EntryT) /\ \A i \in 1..Len(msgs) : msgs[i].id <= Len(rows)
  BY ShapeGives DEF MsgsOK
<1>3. \A i \in 1..Len(msgs) : msgs[i].cm \in Nat /\ (msgs[i].id # 0 => msgs[i].id \in 1..Len(rows))
  <2>1. TAKE i \in 1..Len(msgs)
  <2>2. msgs[i] \in EntryT  BY <1>2
  <2>3. msgs[i].cm \in Nat /\ msgs[i].id \in Nat  BY <2>2 DEF EntryT
  <2>4. QED BY <1>2, <2>3, ShapeGives
<1>4. \A i \in 1..Len(rows) : (rows'[i].mine <=> rows[i].mine) /\ rows'[i].cm = rows[i].cm
  BY DEF Grown
<1>5. /\ \A i \in 1..Len(msgs) : msgs[i].cm # 0 => msgs[i].mine /\ msgs[i].cm > sends'
      /\ \A i, j \in 1..Len(msgs) : msgs[i].cm = msgs[j].cm /\ msgs[i].cm # 0 => i = j
  BY <1>1, <1>3 DEF Books, MsgsBooked
<1>6. \A i \in 1..Len(msgs) : msgs[i].id # 0 =>
       /\ msgs[i].mine <=> rows'[msgs[i].id].mine
       /\ msgs[i].cm # 0 => rows'[msgs[i].id].cm = msgs[i].cm
  BY <1>3, <1>4 DEF Books, MsgsBooked
<1>7. MsgsBooked(msgs)'  BY <1>5, <1>6 DEF MsgsBooked
<1>8. QED BY <1>7 DEF Distinct

LEMMA GrownServer ==
  ASSUME ShapeInv, Books, Grown(rows'), relaying' = relaying \/ relaying' = 0,
         greeting'.of = greeting.of
  PROVE  ServerBooks'
<1>1. \A i \in 1..Len(rows) : rows'[i].mine <=> rows[i].mine  BY DEF Grown
<1>2. relaying # 0 => relaying \in 1..Len(rows)
  BY ShapeGives DEF ShapeInv, Known, ChatShape, ServerShape
<1>3. \A k \in 1..Len(greeting.of) : greeting.of[k] \in 1..Len(rows)
  <2>1. greeting.of \in Seq(Id)  BY DEF ShapeInv, ChatShape, ServerShape
  <2>2. QED BY <2>1, ShapeGives DEF ShapeInv, Known, Id
<1>4. QED BY <1>1, <1>2, <1>3 DEF Books, ServerBooks

LEMMA AcksAdd ==
  ASSUME ShapeInv, NEW ms, MsgsOK(ms, Len(rows)), MsgsBooked(ms)
  PROVE  Adds(outbox, outbox \o Acks(ms, Unacked(ms), Room(outbox)))
<1>1. PICK box : box = outbox \o Acks(ms, Unacked(ms), Room(outbox))  OBVIOUS
<1>2. \A i \in Unacked(ms) : NewOut(AckRead(ms[i].id))
  <2>1. TAKE i \in Unacked(ms)
  <2>2. i \in 1..Len(ms) /\ ~ms[i].mine  BY UnackedIs DEF MsgsOK
  <2>3. ms[i].id \in Id /\ ms[i].id <= Len(rows)  BY <2>2 DEF MsgsOK
  <2>4. ms[i].id \in 1..Len(rows) /\ ms[i].id # 0  BY <2>3, ShapeGives DEF Id
  <2>5. ~rows[ms[i].id].mine  BY <2>2, <2>4 DEF MsgsBooked
  <2>6. QED BY <2>4, <2>5 DEF NewOut, AckRead
<1>3. /\ \A k \in 1..Len(outbox) : box[k] = outbox[k]
      /\ \A k \in 1..Len(box) :
           k \in 1..Len(outbox) \/ \E i \in Unacked(ms) : box[k] = AckRead(ms[i].id)
  <2>1. BoxOK(outbox, Len(rows)) /\ MsgsOK(ms, Len(rows)) /\ Len(rows) \in Nat  BY ShapeGives
  <2>2. Unacked(ms) \in SUBSET DOMAIN ms /\ \A i \in Unacked(ms) : ~ms[i].mine  BY UnackedIs
  <2>3. QED BY ONLY <1>1, <2>1, <2>2, AcksFit
<1>4. QED BY <1>1, <1>2, <1>3 DEF Adds

LEMMA AddsTwice ==
  ASSUME NEW a, NEW b, NEW c, Adds(a, b), Adds(b, c)
  PROVE  Adds(a, c)
<1>1. SUFFICES ASSUME NEW k \in 1..Len(c)
               PROVE  (k \in 1..Len(a) /\ c[k] = a[k]) \/ NewOut(c[k])
  BY DEF Adds
<1>2. CASE k \in 1..Len(b) /\ c[k] = b[k]  BY <1>2 DEF Adds
<1>3. QED BY <1>2 DEF Adds

LEMMA RequestAdds ==
  ASSUME NEW c, ContactOK(c), NEW box, NEW n, BoxOK(box, n), NEW gone,
         MaybeLoadHistory(c, box, gone)
  PROVE  Adds(box, outbox') /\ contact'.loaded = c.loaded /\ contact'.known = c.known
<1>1. /\ \A k \in 1..Len(box) : k \in 1..Len(outbox') /\ outbox'[k] = box[k]
      /\ \/ /\ contact' = [c EXCEPT !.loading = TRUE]
            /\ \/ /\ Len(outbox') = Len(box) + 1 /\ outbox'[Len(box) + 1] = HistoryRequest(Latest)
                  /\ Len(box) \in Nat
               \/ outbox' = box
         \/ contact' = c /\ outbox' = box
  BY MaybeLoadIs
<1>2. contact'.loaded = c.loaded /\ contact'.known = c.known  BY <1>1 DEF ContactOK, ContactT
<1>3. NewOut(HistoryRequest(Latest))  BY DEF NewOut, HistoryRequest
<1>4. ASSUME outbox' = box
      PROVE  Adds(box, outbox')
  BY <1>4 DEF Adds
<1>5. ASSUME Len(outbox') = Len(box) + 1, outbox'[Len(box) + 1] = HistoryRequest(Latest),
             Len(box) \in Nat
      PROVE  Adds(box, outbox')
  <2>1. \A k \in 1..Len(outbox') : k \in 1..Len(box) \/ k = Len(box) + 1  BY <1>5
  <2>2. QED BY <1>1, <1>3, <1>5, <2>1 DEF Adds
<1>6. QED BY <1>1, <1>2, <1>4, <1>5

LEMMA ShowToAdds ==
  ASSUME ShapeInv, NEW c, NEW ms, MsgsOK(ms, Len(rows)), MsgsBooked(ms), ShowTo(c, ms)
  PROVE  Adds(outbox, outbox') /\ SameFaces(ms, msgs') /\ contact' = c
<1>1. SameFaces(ms, msgs') /\ contact' = c  BY ShapeGives, ShowToIs
<1>2. CASE c.active  BY <1>1, <1>2, AcksAdd DEF ShowTo
<1>3. CASE ~c.active  BY <1>1, <1>3 DEF ShowTo, Adds
<1>4. QED BY <1>2, <1>3

\* A step of the client that leaves the table and the server alone.
LEMMA ClientBooked ==
  ASSUME ShapeInv, Books, rows' = rows, ServerBooks', sends' = sends,
         NEW e \in {0, 1}, Adds(outbox, outbox'),
         \A k \in 1..Len(inbox') : k + e \in 1..Len(inbox) /\ inbox'[k] = inbox[k + e],
         NEW ms, MsgsBooked(ms), SameFaces(ms, msgs'), ~contact'.loaded => Distinct(ms),
         \A k \in 1..Len(outbox) : outbox[k].type = "message" =>
           (Fresh(msgs, outbox[k].cm) => Fresh(ms, outbox[k].cm)),
         \A k \in 1..Len(inbox') : inbox'[k].type = "message_ack" =>
           (Fresh(msgs, inbox'[k].cm) => Fresh(ms, inbox'[k].cm))
  PROVE  Books'
<1>1. sends \in Nat /\ rows \in Seq(RowT)  BY ShapeGives, ChatAssumption
<1>2. Grown(rows')  BY <1>1, GrownNot
<1>3. MsgsBooked(msgs)' /\ (~contact'.loaded => Distinct(msgs)')
  <2>1. PICK ns : ns = msgs'  OBVIOUS
  <2>2. MsgsBooked(ns) /\ (~contact'.loaded => Distinct(ns))  BY <2>1, FacesBooked
  <2>3. QED BY <2>1, <2>2 DEF MsgsBooked, Distinct
<1>4. \A cm : Fresh(ms, cm) => Fresh(msgs', cm)  BY FacesBooked
<1>5. \A k \in 1..Len(outbox') : \/ k + 0 \in 1..Len(outbox) /\ outbox'[k] = outbox[k + 0]
                                 \/ NewOut(outbox'[k])
  BY DEF Adds
<1>6. \A k \in 1..Len(outbox') : outbox'[k].type = "message" =>
           (Fresh(msgs, outbox'[k].cm) => Fresh(msgs', outbox'[k].cm))
  BY <1>4, <1>5 DEF Adds, NewOut
<1>7. \A k \in 1..Len(inbox') : inbox'[k].type = "message_ack" =>
           (Fresh(msgs, inbox'[k].cm) => Fresh(msgs', inbox'[k].cm))
  BY <1>4
<1>8. WireBooks'
  <2>1. WireBooks /\ sends' <= sends /\ sends' \in Nat  BY <1>1 DEF Books
  <2>2. \A k \in 1..Len(inbox') : \/ k + e \in 1..Len(inbox) /\ inbox'[k] = inbox[k + e]
                                  \/ NewIn(inbox'[k])
    OBVIOUS
  <2>3. PICK d \in {0, 1} : d = 0  OBVIOUS
  <2>4. \A k \in 1..Len(outbox') : \/ k + d \in 1..Len(outbox) /\ outbox'[k] = outbox[k + d]
                                   \/ NewOut(outbox'[k])
    BY <1>5, <2>3
  <2>5. QED BY <1>1, <1>2, <1>6, <1>7, <2>1, <2>2, <2>4, WireStays
<1>9. QED BY <1>3, <1>8 DEF Books

LEMMA ServerSame ==
  ASSUME Books, UNCHANGED <<rows, relaying, greeting>>
  PROVE  ServerBooks'
BY DEF Books, ServerBooks

LEMMA SameInbox ==
  \A k \in 1..Len(inbox) : k + 0 \in 1..Len(inbox) /\ inbox[k] = inbox[k + 0]
OBVIOUS

LEMMA SelfFaces ==
  ASSUME NEW ms
  PROVE  SameFaces(ms, ms)
BY DEF SameFaces

LEMMA UserBooked ==
  ASSUME ShapeInv, Books, Open \/ Leave \/ LoadMore
  PROVE  Books'
<1>1. /\ rows' = rows /\ relaying' = relaying /\ greeting' = greeting /\ sends' = sends
      /\ inbox' = inbox
  BY DEF Open, Leave, LoadMore, server
<1>2. MsgsBooked(msgs) /\ (~contact.loaded => Distinct(msgs))  BY DEF Books
<1>3. Adds(outbox, outbox') /\ SameFaces(msgs, msgs') /\ contact'.loaded = contact.loaded
  <2>1. CASE Leave
    <3>1. outbox' = outbox /\ msgs' = msgs /\ contact'.loaded = contact.loaded
      BY <2>1, ShapeGives DEF Leave, ContactOK, ContactT
    <3>2. QED BY <3>1, SelfFaces DEF Adds
  <2>2. CASE LoadMore
    <3>1. /\ RequestHistory(contact, outbox, lost, msgs[1].at + Zone)
          /\ msgs[1].at + Zone \in Int /\ contact.known /\ msgs' = msgs
      BY <2>2, LoadMoreShape DEF LoadMore
    <3>2. PICK b \in Int : b = msgs[1].at + Zone  BY <3>1
    <3>3. /\ contact' = [contact EXCEPT !.loading = TRUE]
          /\ \A k \in 1..Len(outbox) : k \in 1..Len(outbox') /\ outbox'[k] = outbox[k]
          /\ \/ /\ Len(outbox') = Len(outbox) + 1 /\ outbox'[Len(outbox) + 1] = HistoryRequest(b)
                /\ Len(outbox) \in Nat
             \/ outbox' = outbox
      BY <3>1, <3>2, ShapeGives, RequestIs
    <3>4. contact'.loaded = contact.loaded  BY <3>3, ShapeGives DEF ContactOK, ContactT
    <3>5. NewOut(HistoryRequest(b))  BY DEF NewOut, HistoryRequest
    <3>6. Adds(outbox, outbox')
      <4>1. CASE outbox' = outbox  BY <4>1 DEF Adds
      <4>2. CASE /\ Len(outbox') = Len(outbox) + 1 /\ outbox'[Len(outbox) + 1] = HistoryRequest(b)
                 /\ Len(outbox) \in Nat
        <5>1. \A k \in 1..Len(outbox') : k \in 1..Len(outbox) \/ k = Len(outbox) + 1  BY <4>2
        <5>2. QED BY <3>3, <3>5, <4>2, <5>1 DEF Adds
      <4>3. QED BY <3>3, <4>1, <4>2
    <3>7. QED BY <3>1, <3>4, <3>6, SelfFaces
  <2>3. CASE Open
    <3>1. PICK c, box, gone :
            /\ box = outbox \o Acks(msgs, Unacked(msgs), Room(outbox))
            /\ MaybeLoadHistory(c, box, gone) /\ ContactOK(c) /\ BoxOK(box, Len(rows))
            /\ c.loaded = contact.loaded
      BY <2>3, OpenIs
    <3>2. Adds(box, outbox') /\ contact'.loaded = c.loaded  BY <3>1, RequestAdds
    <3>3. Adds(outbox, box)  BY <1>2, <3>1, ShapeGives, AcksAdd
    <3>4. Adds(outbox, outbox')  BY <3>2, <3>3, AddsTwice
    <3>5. QED BY <2>3, <3>1, <3>2, <3>4, OpenShape
  <2>4. QED BY <2>1, <2>2, <2>3
<1>4. \A k \in 1..Len(inbox') : k + 0 \in 1..Len(inbox) /\ inbox'[k] = inbox[k + 0]
  BY <1>1, SameInbox
<1>5. QED BY <1>1, <1>2, <1>3, <1>4, ServerSame, ClientBooked

LEMMA BooksNumbers ==
  ASSUME ShapeInv, Books
  PROVE  /\ sends \in Nat
         /\ \A k \in 1..Len(outbox) : outbox[k].type = "message" =>
              outbox[k].cm \in Nat /\ outbox[k].cm > sends /\ outbox[k].cm # 0
         /\ \A k \in 1..Len(inbox) : inbox[k].type = "message_ack" =>
              inbox[k].cm \in Nat /\ inbox[k].cm > sends /\ inbox[k].cm # 0
<1>1. sends \in Nat  BY ShapeGives, ChatAssumption
<1>2. \A k \in 1..Len(outbox) : outbox[k].type = "message" => outbox[k].cm \in Nat
  <2>1. TAKE k \in 1..Len(outbox)
  <2>2. outbox[k] \in ClientFrame  BY DEF ShapeInv, ChatShape, WireShape
  <2>3. QED BY <2>2, ClientFrameIs
<1>3. \A k \in 1..Len(inbox) : inbox[k].type = "message_ack" => inbox[k].cm \in Nat
  <2>1. TAKE k \in 1..Len(inbox)
  <2>2. inbox[k] \in ServerFrame  BY DEF ShapeInv, ChatShape, WireShape
  <2>3. QED BY <2>2, ServerFrameIs
<1>4. /\ \A k \in 1..Len(outbox) : outbox[k].type = "message" => outbox[k].cm > sends
      /\ \A k \in 1..Len(inbox) : inbox[k].type = "message_ack" => inbox[k].cm > sends
  BY DEF Books, WireBooks
<1>5. QED BY <1>1, <1>2, <1>3, <1>4

LEMMA TypeBooked ==
  ASSUME ShapeInv, Books, Type
  PROVE  Books'
<1>1. /\ rows' = rows /\ relaying' = relaying /\ greeting' = greeting /\ inbox' = inbox
      /\ contact' = contact /\ sends > 0 /\ sends' = sends - 1
  BY DEF Type, server
<1>2. sends \in Nat /\ sends' \in Nat /\ sends # 0 /\ sends' < sends  BY <1>1, BooksNumbers
<1>3. /\ Len(msgs') = Len(msgs) + 1 /\ Len(msgs) \in Nat
      /\ msgs'[Len(msgs) + 1] = Typed
      /\ \A i \in 1..Len(msgs) : msgs'[i] = msgs[i]
      /\ \A k \in 1..Len(outbox) : k \in 1..Len(outbox') /\ outbox'[k] = outbox[k]
      /\ \/ /\ Len(outbox') = Len(outbox) + 1 /\ outbox'[Len(outbox) + 1] = Send(sends)
            /\ lost' = lost /\ Len(outbox) \in Nat
         \/ outbox' = outbox /\ lost' = lost \cup {Send(sends)}
  BY TypeShape
<1>4. Typed.mine /\ Typed.id = 0 /\ Typed.cm = sends  BY DEF Typed
<1>5. \A i \in 1..Len(msgs') : \/ i \in 1..Len(msgs) /\ msgs'[i] = msgs[i]
                               \/ i = Len(msgs) + 1 /\ msgs'[i] = Typed
  BY <1>3
<1>6. \A i \in 1..Len(msgs) : msgs[i].cm \in Nat
  <2>1. TAKE i \in 1..Len(msgs)
  <2>2. msgs[i] \in EntryT  BY ShapeGives DEF MsgsOK
  <2>3. QED BY <2>2 DEF EntryT
<1>7. \A i \in 1..Len(msgs) : msgs[i].cm # 0 => /\ msgs[i].mine /\ msgs[i].cm > sends
                                                /\ msgs[i].cm > sends' /\ msgs[i].cm # sends
  BY <1>2, <1>6 DEF Books, MsgsBooked
<1>8. MsgsBooked(msgs)'
  <2>1. \A i \in 1..Len(msgs') : msgs'[i].cm # 0 => msgs'[i].mine /\ msgs'[i].cm > sends'
    BY <1>2, <1>4, <1>5, <1>7
  <2>2. \A i, j \in 1..Len(msgs') : msgs'[i].cm = msgs'[j].cm /\ msgs'[i].cm # 0 => i = j
    <3>1. SUFFICES ASSUME NEW i \in 1..Len(msgs'), NEW j \in 1..Len(msgs'),
                          msgs'[i].cm = msgs'[j].cm, msgs'[i].cm # 0
                   PROVE  i = j
      OBVIOUS
    <3>2. CASE i \in 1..Len(msgs) /\ j \in 1..Len(msgs)  BY <1>3, <3>1, <3>2 DEF Books, MsgsBooked
    <3>3. CASE i \in 1..Len(msgs) /\ j = Len(msgs) + 1  BY <1>3, <1>4, <1>7, <3>1, <3>3
    <3>4. CASE j \in 1..Len(msgs) /\ i = Len(msgs) + 1  BY <1>3, <1>4, <1>7, <3>1, <3>4
    <3>5. QED BY <1>5, <3>2, <3>3, <3>4
  <2>3. \A i \in 1..Len(msgs') : msgs'[i].id # 0 =>
       /\ msgs'[i].mine <=> rows'[msgs'[i].id].mine
       /\ msgs'[i].cm # 0 => rows'[msgs'[i].id].cm = msgs'[i].cm
    BY <1>1, <1>4, <1>5 DEF Books, MsgsBooked
  <2>4. QED BY <2>1, <2>2, <2>3 DEF MsgsBooked
<1>9. ASSUME ~contact.loaded PROVE Distinct(msgs)'
  <2>1. Distinct(msgs)  BY <1>9 DEF Books
  <2>2. \A i \in 1..Len(msgs') : msgs'[i].mine => msgs'[i].cm # 0
    BY <1>2, <1>4, <1>5, <2>1 DEF Distinct
  <2>3. \A i, j \in 1..Len(msgs') : msgs'[i].id = msgs'[j].id /\ msgs'[i].id # 0 => i = j
    BY <1>4, <1>5, <2>1 DEF Distinct
  <2>4. QED BY <2>2, <2>3 DEF Distinct
<1>10. \A cm : Fresh(msgs, cm) => Fresh(msgs', cm)  BY <1>4, <1>5 DEF Fresh
<1>11. Fresh(msgs', sends)  BY <1>2, <1>4, <1>5, <1>7 DEF Fresh
<1>12. WireBooks'
  <2>0. \A k \in 1..Len(outbox') : \/ k \in 1..Len(outbox) /\ outbox'[k] = outbox[k]
                                   \/ /\ outbox'[k] = Send(sends) /\ k = Len(outbox) + 1
                                      /\ Len(outbox) \in Nat
    <3>1. CASE outbox' = outbox  BY <3>1
    <3>2. CASE /\ Len(outbox') = Len(outbox) + 1 /\ outbox'[Len(outbox) + 1] = Send(sends)
               /\ Len(outbox) \in Nat
      <4>1. \A k \in 1..Len(outbox') : k \in 1..Len(outbox) \/ k = Len(outbox) + 1  BY <3>2
      <4>2. QED BY <1>3, <3>2, <4>1
    <3>3. QED BY <1>3, <3>1, <3>2
  <2>s. Send(sends).type = "message" /\ Send(sends).cm = sends
    BY DEF Send
  <2>n. /\ \A k \in 1..Len(outbox) : outbox[k].type = "message" =>
             /\ outbox[k].cm > sends' /\ outbox[k].cm # sends /\ Fresh(msgs', outbox[k].cm)
        /\ \A k \in 1..Len(inbox) : inbox[k].type = "message_ack" =>
             /\ inbox[k].cm > sends' /\ inbox[k].cm # sends /\ Fresh(msgs', inbox[k].cm)
    <3>1. /\ \A k \in 1..Len(outbox) : outbox[k].type = "message" => Fresh(msgs, outbox[k].cm)
          /\ \A k \in 1..Len(inbox) : inbox[k].type = "message_ack" => Fresh(msgs, inbox[k].cm)
      BY DEF Books, WireBooks
    <3>2. /\ \A k \in 1..Len(outbox) : outbox[k].type = "message" =>
               outbox[k].cm > sends' /\ outbox[k].cm # sends
          /\ \A k \in 1..Len(inbox) : inbox[k].type = "message_ack" =>
               inbox[k].cm > sends' /\ inbox[k].cm # sends
      BY <1>2, BooksNumbers
    <3>3. QED BY <1>10, <3>1, <3>2
  <2>1. \A k \in 1..Len(outbox') : outbox'[k].type = "ack_read" => ~rows'[outbox'[k].id].mine
    BY <1>1, <2>0, <2>s DEF Books, WireBooks
  <2>2. \A k \in 1..Len(outbox') : outbox'[k].type = "message" =>
          outbox'[k].cm > sends' /\ Fresh(msgs', outbox'[k].cm)
    BY <1>2, <1>11, <2>0, <2>s, <2>n
  <2>3. \A k, l \in 1..Len(outbox') : outbox'[k].type = "message" /\ outbox'[l] = outbox'[k] => k = l
    <3>1. SUFFICES ASSUME NEW k \in 1..Len(outbox'), NEW l \in 1..Len(outbox'),
                          outbox'[k].type = "message", outbox'[l] = outbox'[k]
                   PROVE  k = l
      OBVIOUS
    <3>2. CASE k \in 1..Len(outbox) /\ l \in 1..Len(outbox)
      BY <1>3, <3>1, <3>2 DEF Books, WireBooks
    <3>3. CASE k \in 1..Len(outbox) /\ outbox'[l] = Send(sends)  BY <1>3, <2>s, <2>n, <3>1, <3>3
    <3>4. CASE l \in 1..Len(outbox) /\ outbox'[k] = Send(sends)  BY <1>3, <2>s, <2>n, <3>1, <3>4
    <3>5. QED BY <2>0, <3>2, <3>3, <3>4
  <2>4. \A k \in 1..Len(outbox'), l \in 1..Len(inbox') :
       outbox'[k].type = "message" /\ inbox'[l].type = "message_ack" => outbox'[k].cm # inbox'[l].cm
    BY <1>1, <2>0, <2>s, <2>n DEF Books, WireBooks
  <2>5. /\ \A k \in 1..Len(inbox') : inbox'[k].type = "message" => ~rows'[inbox'[k].id].mine
        /\ \A k \in 1..Len(inbox') : inbox'[k].type = "message_ack" =>
             /\ inbox'[k].cm > sends' /\ Fresh(msgs', inbox'[k].cm)
             /\ rows'[inbox'[k].id].mine /\ rows'[inbox'[k].id].cm = inbox'[k].cm
        /\ \A k, l \in 1..Len(inbox') :
             inbox'[k].type = "message_ack" /\ inbox'[l].type = "message_ack"
               /\ inbox'[k].cm = inbox'[l].cm => k = l
    BY <1>1, <2>n DEF Books, WireBooks
  <2>6. QED BY <2>1, <2>2, <2>3, <2>4, <2>5 DEF WireBooks
<1>13. ServerBooks'  BY <1>1, ServerSame
<1>14. QED BY <1>1, <1>8, <1>9, <1>12, <1>13 DEF Books

\* A message that arrives is the peer's.
LEMMA ArrivedBooked ==
  ASSUME ShapeInv, Books, NEW id \in Id, ~rows[id].mine, Arrived(id) \in EntryT
  PROVE  /\ MsgsBooked(AppendMessage(msgs, Arrived(id)))
         /\ Distinct(msgs) => Distinct(AppendMessage(msgs, Arrived(id)))
         /\ \A cm : cm # 0 /\ Fresh(msgs, cm) => Fresh(AppendMessage(msgs, Arrived(id)), cm)
<1>1. PICK e \in EntryT : e = Arrived(id)  OBVIOUS
<1>2. e.id = id /\ e.cm = 0 /\ e.mine = FALSE /\ id # 0  BY <1>1 DEF Arrived, Id
<1>3. PICK ms : ms = AppendMessage(msgs, e)  OBVIOUS
<1>4. msgs \in Seq(EntryT) /\ DOMAIN msgs = 1..Len(msgs)  BY ShapeGives DEF MsgsOK
<1>5. CASE ms = msgs  BY <1>1, <1>3, <1>5 DEF Books
<1>6. CASE ms # msgs
  <2>1. ms = Append(msgs, e) /\ \A i \in 1..Len(msgs) : msgs[i].id # id
    BY <1>2, <1>3, <1>4, <1>6 DEF AppendMessage
  <2>2. /\ Len(ms) = Len(msgs) + 1 /\ ms[Len(msgs) + 1] = e /\ Len(msgs) \in Nat
        /\ \A i \in 1..Len(msgs) : ms[i] = msgs[i]
    BY <1>4, <2>1, AppendIs
  <2>3. \A i \in 1..Len(ms) : \/ i \in 1..Len(msgs) /\ ms[i] = msgs[i]
                              \/ i = Len(msgs) + 1 /\ ms[i] = e
    BY <2>2
  <2>4. MsgsBooked(ms)  BY <1>2, <2>3 DEF Books, MsgsBooked
  <2>5. Distinct(msgs) => Distinct(ms)  BY <1>2, <2>1, <2>3 DEF Distinct
  <2>6. \A cm : cm # 0 /\ Fresh(msgs, cm) => Fresh(ms, cm)  BY <1>2, <2>3 DEF Fresh
  <2>7. QED BY <1>1, <1>3, <2>4, <2>5, <2>6
<1>7. QED BY <1>5, <1>6

LEMMA ListBooked ==
  ASSUME ShapeInv, Books, HandleContactList
  PROVE  Books'
<1>1. /\ rows' = rows /\ relaying' = relaying /\ greeting' = greeting /\ sends' = sends
      /\ Receive("contact_list") /\ msgs' = msgs
  BY DEF HandleContactList, server
<1>2. PICK c : MaybeLoadHistory(c, outbox, lost) /\ ContactOK(c) /\ c.loaded = contact.loaded
  BY ListIs
<1>3. Adds(outbox, outbox') /\ contact'.loaded = contact.loaded  BY <1>2, ShapeGives, RequestAdds
<1>4. MsgsBooked(msgs) /\ (~contact'.loaded => Distinct(msgs)) /\ SameFaces(msgs, msgs')
  BY <1>1, <1>3, SelfFaces DEF Books
<1>5. PICK e \in {0, 1} : e = 1  OBVIOUS
<1>6. \A k \in 1..Len(inbox') : k + e \in 1..Len(inbox) /\ inbox'[k] = inbox[k + e]
  BY <1>1, <1>5, ReceiveTakes
<1>7. ServerBooks'  BY <1>1, ServerSame
<1>8. QED BY <1>1, <1>3, <1>4, <1>6, <1>7, ClientBooked

\* The same, for a handler of the client.
LEMMA HandlerBooked ==
  ASSUME ShapeInv, Books, UNCHANGED <<rows, relaying, greeting, sends>>, NEW type, Receive(type),
         Adds(outbox, outbox'), NEW ms, MsgsBooked(ms), SameFaces(ms, msgs'),
         ~contact'.loaded => Distinct(ms),
         \A cm : cm # 0 /\ Fresh(msgs, cm) =>
           Fresh(ms, cm) \/ (type = "message_ack" /\ cm = Head(inbox).cm)
  PROVE  Books'
<1>1. /\ rows' = rows /\ sends' = sends /\ ServerBooks'  BY ServerSame
<1>2. /\ \A k \in 1..Len(inbox') : k + 1 \in 1..Len(inbox) /\ inbox'[k] = inbox[k + 1]
      /\ Head(inbox) = inbox[1] /\ 1 \in 1..Len(inbox) /\ inbox[1].type = type
  BY ReceiveTakes
<1>3. \A k \in 1..Len(outbox) : outbox[k].type = "message" =>
        (Fresh(msgs, outbox[k].cm) => Fresh(ms, outbox[k].cm))
  <2>1. \A k \in 1..Len(outbox) : outbox[k].type = "message" =>
          outbox[k].cm # 0 /\ (type = "message_ack" => outbox[k].cm # inbox[1].cm)
    BY <1>2, BooksNumbers DEF Books, WireBooks
  <2>2. QED BY <1>2, <2>1
<1>4. \A k \in 1..Len(inbox') : inbox'[k].type = "message_ack" =>
        (Fresh(msgs, inbox'[k].cm) => Fresh(ms, inbox'[k].cm))
  <2>1. SUFFICES ASSUME NEW k \in 1..Len(inbox'), inbox'[k].type = "message_ack",
                        Fresh(msgs, inbox'[k].cm)
                 PROVE  Fresh(ms, inbox'[k].cm)
    OBVIOUS
  <2>2. k + 1 \in 1..Len(inbox) /\ inbox'[k] = inbox[k + 1] /\ k + 1 # 1  BY <1>2
  <2>3. PICK l \in 1..Len(inbox) : inbox'[k] = inbox[l] /\ l # 1  BY <2>2
  <2>4. inbox[l].cm # 0  BY <2>1, <2>3, BooksNumbers
  <2>5. type = "message_ack" => inbox[l].cm # inbox[1].cm  BY <1>2, <2>1, <2>3 DEF Books, WireBooks
  <2>6. QED BY <1>2, <2>1, <2>3, <2>4, <2>5
<1>5. PICK e \in {0, 1} : e = 1  OBVIOUS
<1>6. \A k \in 1..Len(inbox') : k + e \in 1..Len(inbox) /\ inbox'[k] = inbox[k + e]  BY <1>2, <1>5
<1>7. QED BY <1>1, <1>3, <1>4, <1>6, ClientBooked

LEMMA MessageBooked ==
  ASSUME ShapeInv, Books, HandleMessage
  PROVE  Books'
<1>1. UNCHANGED <<rows, relaying, greeting, sends>>  BY DEF HandleMessage, server
<1>2. /\ Receive("message") /\ Head(inbox).id \in Id /\ Arrived(Head(inbox).id) \in EntryT
      /\ MsgsOK(AppendMessage(msgs, Arrived(Head(inbox).id)), Len(rows))
  BY HandleMessageShape
<1>3. PICK c : c.loaded = contact.loaded /\ ShowTo(c, AppendMessage(msgs, Arrived(Head(inbox).id)))
  BY HandleMessageShape
<1>4. ~rows[Head(inbox).id].mine
  <2>1. Head(inbox) = inbox[1] /\ 1 \in 1..Len(inbox) /\ inbox[1].type = "message"
    BY <1>2, ReceiveTakes
  <2>2. QED BY <2>1 DEF Books, WireBooks
<1>5. PICK ms : ms = AppendMessage(msgs, Arrived(Head(inbox).id))  OBVIOUS
<1>6. /\ MsgsBooked(ms) /\ (Distinct(msgs) => Distinct(ms))
      /\ \A cm : cm # 0 /\ Fresh(msgs, cm) => Fresh(ms, cm)
  BY <1>2, <1>4, <1>5, ArrivedBooked
<1>7. MsgsOK(ms, Len(rows)) /\ ShowTo(c, ms)  BY <1>2, <1>3, <1>5
<1>8. Adds(outbox, outbox') /\ SameFaces(ms, msgs') /\ contact' = c  BY <1>6, <1>7, ShowToAdds
<1>9. ~contact'.loaded => Distinct(ms)  BY <1>3, <1>6, <1>8 DEF Books
<1>10. QED BY <1>1, <1>2, <1>6, <1>8, <1>9, HandlerBooked

LEMMA EntriesBooked ==
  ASSUME ShapeInv, NEW p \in Seq(Item), \A i \in 1..Len(p) : p[i].id <= Len(rows)
  PROVE  MsgsOK(Entries(p), Len(rows)) /\ \A i \in 1..Len(Entries(p)) : PageEntry(Entries(p)[i])
<1>1. PICK es : es = Entries(p)  OBVIOUS
<1>2. /\ MsgsOK(es, Len(rows)) /\ Len(es) = Len(p)
      /\ \A i \in 1..Len(p) : \E k \in 1..Len(p) :
           /\ es[i].id = p[k].id /\ es[i].id \in Id /\ es[i].cm = 0
           /\ es[i].mine = rows[p[k].id].mine
  <2>1. rows \in Seq(RowT) /\ p \in Seq(Item) /\ \A i \in 1..Len(p) : p[i].id <= Len(rows)
    BY ShapeGives
  <2>2. MsgsOK(Entries(p), Len(rows)) /\ Len(Entries(p)) = Len(p)  BY ONLY <2>1, EntriesAre
  <2>3. ASSUME NEW i \in 1..Len(p)
        PROVE  \E k \in 1..Len(p) :
                 /\ Entries(p)[i].id = p[k].id /\ Entries(p)[i].id \in Id
                 /\ Entries(p)[i].cm = 0 /\ Entries(p)[i].mine = rows[p[k].id].mine
    BY ONLY <2>1, EntriesAre, i \in 1..Len(p)
  <2>4. QED BY ONLY <1>1, <2>2, <2>3
<1>3. ASSUME NEW i \in 1..Len(es)
      PROVE  PageEntry(es[i])
  <2>1. PICK k \in 1..Len(p) :
           /\ es[i].id = p[k].id /\ es[i].id \in Id /\ es[i].cm = 0
           /\ es[i].mine = rows[p[k].id].mine
    BY <1>2
  <2>2. es[i].id <= Len(rows)  BY <2>1
  <2>3. es[i].id \in 1..Len(rows)  BY <2>1, <2>2, ShapeGives DEF Id
  <2>4. QED BY <2>1, <2>3 DEF PageEntry
<1>4. QED BY <1>1, <1>2, <1>3

LEMMA ResultBooked ==
  ASSUME ShapeInv, Books, NEW p \in Seq(Item), \A i \in 1..Len(p) : p[i].id <= Len(rows),
         NEW shown \in Results(p)
  PROVE  /\ MsgsBooked(shown)
         /\ \A cm : cm # 0 /\ Fresh(msgs, cm) => Fresh(shown, cm)
<1>1. PICK es : es = Entries(p)  OBVIOUS
<1>2. /\ MsgsOK(es, Len(rows)) /\ MsgsOK(msgs, Len(rows))
      /\ \A i \in 1..Len(es) : PageEntry(es[i])
  BY <1>1, EntriesBooked, ShapeGives
<1>3. \A k \in 1..Len(shown) : \/ \E i \in 1..Len(msgs) : shown[k] = msgs[i]
                               \/ \E j \in 1..Len(es) : shown[k] = es[j]
  BY <1>1, <1>2, ResultFrom
<1>4. \A k \in 1..Len(shown) : \/ \E i \in 1..Len(msgs) : shown[k] = msgs[i]
                               \/ PageEntry(shown[k])
  BY <1>2, <1>3
<1>5. \A k \in 1..Len(shown) : shown[k].cm # 0 => shown[k].mine /\ shown[k].cm > sends
  BY <1>4 DEF PageEntry, Books, MsgsBooked
<1>6. \A k \in 1..Len(shown) : shown[k].id # 0 =>
       /\ shown[k].mine <=> rows[shown[k].id].mine
       /\ shown[k].cm # 0 => rows[shown[k].id].cm = shown[k].cm
  BY <1>4 DEF PageEntry, Books, MsgsBooked
<1>7. \A k, l \in 1..Len(shown) : shown[k].cm = shown[l].cm /\ shown[k].cm # 0 => k = l
  <2>1. SUFFICES ASSUME NEW k \in 1..Len(shown), NEW l \in 1..Len(shown),
                        shown[k].cm = shown[l].cm, shown[k].cm # 0
                 PROVE  k = l
    OBVIOUS
  <2>2. CASE contact.loaded
    <3>1. shown = es \o msgs  BY <1>1, <2>2 DEF Results
    <3>2. /\ shown \in Seq(EntryT) /\ Len(shown) = Len(es) + Len(msgs)
          /\ Len(es) \in Nat /\ Len(msgs) \in Nat /\ Len(shown) \in Nat
          /\ \A m \in 1..Len(es) : shown[m] = es[m]
          /\ \A m \in 1..Len(msgs) : shown[Len(es) + m] = msgs[m]
      BY <1>2, <3>1, ConcatIs DEF MsgsOK
    <3>3. ASSUME NEW m \in 1..Len(shown), shown[m].cm # 0
          PROVE  m - Len(es) \in 1..Len(msgs) /\ shown[m] = msgs[m - Len(es)]
      <4>1. ~(m \in 1..Len(es))  BY <1>2, <3>2, <3>3 DEF PageEntry
      <4>2. m - Len(es) \in 1..Len(msgs) /\ m = Len(es) + (m - Len(es))  BY <3>2, <4>1
      <4>3. QED BY <3>2, <4>2
    <3>4. /\ k - Len(es) \in 1..Len(msgs) /\ shown[k] = msgs[k - Len(es)]
          /\ l - Len(es) \in 1..Len(msgs) /\ shown[l] = msgs[l - Len(es)]
      BY <2>1, <3>3
    <3>5. k - Len(es) = l - Len(es)  BY <2>1, <3>4 DEF Books, MsgsBooked
    <3>6. QED BY <3>2, <3>5
  <2>3. CASE ~contact.loaded
    <3>1. shown \in MergeInitialHistory(msgs, es)  BY <1>1, <2>3 DEF Results
    <3>2. /\ Len(shown) \in Nat
          /\ \A m \in 1..Len(shown) : \A n \in 1..(m - 1) : shown[n] # shown[m]
      <4>1. msgs \in Seq(EntryT) /\ es \in Seq(EntryT)  BY <1>2 DEF MsgsOK
      <4>2. shown \in Seq(EntryT)
            /\ \A m \in 1..Len(shown) : \A n \in 1..(m - 1) :
                 shown[n] # shown[m] /\ shown[n].at <= shown[m].at
        BY <3>1, <4>1, MergedFrom
      <4>3. QED BY <4>2
    <3>3. shown[k] = shown[l]
      <4>1. PICK i \in 1..Len(msgs) : shown[k] = msgs[i]  BY <1>4, <2>1 DEF PageEntry
      <4>2. PICK j \in 1..Len(msgs) : shown[l] = msgs[j]  BY <1>4, <2>1 DEF PageEntry
      <4>3. i = j  BY <2>1, <4>1, <4>2 DEF Books, MsgsBooked
      <4>4. QED BY <4>1, <4>2, <4>3
    <3>4. ~(k \in 1..(l - 1)) /\ ~(l \in 1..(k - 1))  BY <3>2, <3>3
    <3>5. QED BY <3>2, <3>4
  <2>4. QED BY <2>2, <2>3
<1>8. MsgsBooked(shown)  BY <1>5, <1>6, <1>7 DEF MsgsBooked
<1>9. \A cm : cm # 0 /\ Fresh(msgs, cm) => Fresh(shown, cm)  BY <1>4 DEF PageEntry, Fresh
<1>10. QED BY <1>8, <1>9

LEMMA HistoryBooked ==
  ASSUME ShapeInv, Books, HandleHistoryResponse
  PROVE  Books'
<1>1. UNCHANGED <<rows, relaying, greeting, sends>>  BY DEF HandleHistoryResponse, server
<1>2. PICK p : p = Head(inbox).messages  OBVIOUS
<1>3. /\ Receive("history_response") /\ p \in Seq(Item)
      /\ \A i \in 1..Len(p) : p[i].id <= Len(rows)
      /\ \/ ~contact.known /\ UNCHANGED <<contact, msgs, outbox, lost>>
         \/ /\ contact.known /\ p = <<>>
            /\ contact' = Loaded(contact, p)
            /\ UNCHANGED <<msgs, outbox, lost>>
         \/ /\ contact.known /\ p # <<>>
            /\ \E shown \in Results(p) : MsgsOK(shown, Len(rows)) /\ ShowTo(Loaded(contact, p), shown)
  BY <1>2, HandleHistoryResponseShape
<1>4. PICK c : c = Loaded(contact, p)  OBVIOUS
<1>5. c.loaded = TRUE  BY <1>4, ShapeGives DEF Loaded, ContactOK, ContactT
<1>6. MsgsBooked(msgs) /\ (~contact.loaded => Distinct(msgs))  BY DEF Books
<1>7. CASE msgs' = msgs /\ outbox' = outbox /\ (contact' = contact \/ contact' = c)
  <2>1. Adds(outbox, outbox') /\ SameFaces(msgs, msgs')  BY <1>7, SelfFaces DEF Adds
  <2>2. ~contact'.loaded => Distinct(msgs)  BY <1>5, <1>6, <1>7
  <2>3. QED BY <1>1, <1>3, <1>6, <2>1, <2>2, HandlerBooked
<1>8. ASSUME NEW shown \in Results(p), MsgsOK(shown, Len(rows)), ShowTo(c, shown)
      PROVE  Books'
  <2>1. /\ MsgsBooked(shown)
        /\ \A cm : cm # 0 /\ Fresh(msgs, cm) => Fresh(shown, cm)
    BY <1>3, ResultBooked
  <2>2. Adds(outbox, outbox') /\ SameFaces(shown, msgs') /\ contact' = c  BY <1>8, <2>1, ShowToAdds
  <2>3. ~contact'.loaded => Distinct(shown)  BY <1>5, <2>2
  <2>4. QED BY <1>1, <1>3, <2>1, <2>2, <2>3, HandlerBooked
<1>9. QED BY <1>3, <1>4, <1>7, <1>8

LEMMA AckBooked ==
  ASSUME ShapeInv, Books, HandleMessageAck
  PROVE  Books'
<1>1. UNCHANGED <<rows, relaying, greeting, sends, contact>>  BY DEF HandleMessageAck, server
<1>2. PICK f : f = Head(inbox)  OBVIOUS
<1>3. /\ Receive("message_ack") /\ outbox' = outbox
      /\ f.id \in Id /\ f.id <= Len(rows) /\ f.cm \in Nat /\ msgs' = AckedIn(msgs, f)
  BY <1>2, HandleMessageAckShape
<1>4. f = inbox[1] /\ 1 \in 1..Len(inbox) /\ f.type = "message_ack"  BY <1>2, <1>3, ReceiveTakes
<1>5. /\ f.cm # 0 /\ f.cm > sends /\ Fresh(msgs, f.cm)
      /\ rows[f.id].mine /\ rows[f.id].cm = f.cm /\ f.id # 0
  BY <1>3, <1>4, BooksNumbers DEF Books, WireBooks, Id
<1>6. PICK ms : ms = AckedIn(msgs, f)  OBVIOUS
<1>7. /\ Len(ms) = Len(msgs)
      /\ \A i \in 1..Len(msgs) :
           /\ ms[i].mine = msgs[i].mine /\ ms[i].cm = msgs[i].cm
           /\ \/ msgs[i].mine /\ msgs[i].cm = f.cm /\ ms[i].id = f.id
              \/ ~(msgs[i].mine /\ msgs[i].cm = f.cm) /\ ms[i] = msgs[i]
  <2>1. MsgsOK(msgs, Len(rows))  BY ShapeGives
  <2>2. QED BY ONLY <1>3, <1>6, <2>1, AckedOK
<1>8. \A i \in 1..Len(ms) : ms[i].id # 0 =>
       /\ ms[i].mine <=> rows[ms[i].id].mine
       /\ ms[i].cm # 0 => rows[ms[i].id].cm = ms[i].cm
  <2>1. SUFFICES ASSUME NEW i \in 1..Len(msgs), ms[i].id # 0
                 PROVE  /\ ms[i].mine <=> rows[ms[i].id].mine
                        /\ ms[i].cm # 0 => rows[ms[i].id].cm = ms[i].cm
    BY <1>7
  <2>2. CASE msgs[i].mine /\ msgs[i].cm = f.cm /\ ms[i].id = f.id  BY <1>5, <1>7, <2>2
  <2>3. CASE ~(msgs[i].mine /\ msgs[i].cm = f.cm) /\ ms[i] = msgs[i]
    BY <2>1, <2>3 DEF Books, MsgsBooked
  <2>4. QED BY <1>7, <2>2, <2>3
<1>9. MsgsBooked(ms)
  <2>1. \A i \in 1..Len(ms) : ms[i].cm # 0 => ms[i].mine /\ ms[i].cm > sends
    BY <1>7 DEF Books, MsgsBooked
  <2>2. \A i, j \in 1..Len(ms) : ms[i].cm = ms[j].cm /\ ms[i].cm # 0 => i = j
    BY <1>7 DEF Books, MsgsBooked
  <2>3. QED BY <1>8, <2>1, <2>2 DEF MsgsBooked
<1>10. ASSUME ~contact'.loaded
       PROVE  Distinct(ms)
  <2>1. Distinct(msgs)  BY <1>1, <1>10 DEF Books
  <2>2. \A i \in 1..Len(ms) : ms[i].mine => ms[i].cm # 0  BY <1>7, <2>1 DEF Distinct
  <2>3. \A i \in 1..Len(ms) : ms[i].id = f.id => ms[i].cm = f.cm  BY <1>5, <1>8, <2>2
  <2>4. \A i \in 1..Len(ms) : ms[i].id = msgs[i].id \/ ms[i].id = f.id  BY <1>7
  <2>5. \A i, j \in 1..Len(ms) : ms[i].id = ms[j].id /\ ms[i].id # 0 => i = j
    <3>1. SUFFICES ASSUME NEW i \in 1..Len(ms), NEW j \in 1..Len(ms),
                          ms[i].id = ms[j].id, ms[i].id # 0
                   PROVE  i = j
      OBVIOUS
    <3>2. CASE ms[i].id = f.id
      <4>1. ms[i].cm = f.cm /\ ms[j].cm = f.cm  BY ONLY <2>3, <3>1, <3>2
      <4>2. QED BY ONLY <1>5, <1>9, <3>1, <4>1 DEF MsgsBooked
    <3>3. CASE ms[i].id # f.id  BY <1>7, <2>1, <2>4, <3>1, <3>3 DEF Distinct
    <3>4. QED BY <3>2, <3>3
  <2>6. QED BY <2>2, <2>5 DEF Distinct
<1>11. \A cm : cm # 0 /\ Fresh(msgs, cm) => Fresh(ms, cm) \/ cm = f.cm  BY <1>7 DEF Fresh
<1>12. SameFaces(ms, msgs') /\ Adds(outbox, outbox')  BY <1>3, <1>6, SelfFaces DEF Adds
<1>13. QED BY <1>1, <1>2, <1>3, <1>9, <1>10, <1>11, <1>12, HandlerBooked

LEMMA TickBooked ==
  ASSUME ShapeInv, Books, HandleAckRead
  PROVE  Books'
<1>1. UNCHANGED <<rows, relaying, greeting, sends, contact>>  BY DEF HandleAckRead, server
<1>2. PICK id : id = Head(inbox).id  OBVIOUS
<1>3. Receive("ack_read") /\ outbox' = outbox /\ msgs' = MarkTick(msgs, id)
  BY <1>2, HandleAckReadShape
<1>4. PICK ms : ms = MarkTick(msgs, id)  OBVIOUS
<1>5. /\ Len(ms) = Len(msgs)
      /\ \A i \in 1..Len(msgs) : /\ ms[i].mine = msgs[i].mine /\ ms[i].cm = msgs[i].cm
                                 /\ ms[i].id = msgs[i].id
  BY <1>4, ShapeGives, TickedOK
<1>6. MsgsBooked(ms)  BY <1>5 DEF Books, MsgsBooked
<1>7. ~contact'.loaded => Distinct(ms)  BY <1>1, <1>5 DEF Books, Distinct
<1>8. \A cm : cm # 0 /\ Fresh(msgs, cm) => Fresh(ms, cm)  BY <1>5 DEF Fresh
<1>9. SameFaces(ms, msgs') /\ Adds(outbox, outbox')  BY <1>3, <1>4, SelfFaces DEF Adds
<1>10. QED BY <1>1, <1>3, <1>6, <1>7, <1>8, <1>9, HandlerBooked

LEMMA ClientStepBooked ==
  ASSUME ShapeInv, Books, ClientStep
  PROVE  Books'
<1>1. ASSUME HandleDisconnected
      PROVE  Books'
  <2>1. /\ rows' = rows /\ relaying' = relaying /\ greeting' = greeting /\ sends' = sends
        /\ contact' = contact /\ outbox' = <<>> /\ inbox' = inbox /\ msgs' = msgs
    BY <1>1 DEF HandleDisconnected, server
  <2>2. Adds(outbox, outbox') /\ SameFaces(msgs, msgs')  BY <2>1, SelfFaces DEF Adds
  <2>3. MsgsBooked(msgs) /\ (~contact'.loaded => Distinct(msgs))  BY <2>1 DEF Books
  <2>4. ServerBooks'  BY <2>1, ServerSame
  <2>5. PICK e \in {0, 1} : e = 0  OBVIOUS
  <2>6. \A k \in 1..Len(inbox') : k + e \in 1..Len(inbox) /\ inbox'[k] = inbox[k + e]
    BY <2>1, <2>5, SameInbox
  <2>7. QED BY <2>1, <2>2, <2>3, <2>4, <2>6, ClientBooked
<1>2. QED BY <1>1, ListBooked, MessageBooked, HistoryBooked, AckBooked, TickBooked DEF ClientStep

\* Connect: the outbox is a new one.
LEMMA ConnectBooked ==
  ASSUME ShapeInv, Books, Connect
  PROVE  Books'
<1>1. /\ rows' = rows /\ relaying' = relaying /\ sends' = sends /\ contact' = contact
      /\ inbox' = inbox /\ greeting' = [pc |-> "list", of |-> <<>>]
      /\ outbox' = Acks(msgs, Pending(msgs), OutCap)
  BY DEF Connect, Connected, server
<1>2. MsgsBooked(msgs) /\ (~contact'.loaded => Distinct(msgs)) /\ SameFaces(msgs, msgs')
  BY <1>1, ConnectShape DEF Books
<1>3. MsgsOK(msgs, Len(rows)) /\ msgs \in Seq(EntryT) /\ OutCap \in Nat
  BY ShapeGives, ChatAssumption DEF MsgsOK
<1>4. Adds(outbox, outbox')
  <2>1. \A k \in 1..Len(outbox') : \E i \in Pending(msgs) : outbox'[k] = AckRead(msgs[i].id)
    <3>1. /\ Accepted(Pending(msgs), OutCap) \subseteq Pending(msgs)
          /\ Pending(msgs) \in SUBSET DOMAIN msgs
      BY UnackedIs DEF Accepted
    <3>2. \A k \in 1..Len(Acks(msgs, Pending(msgs), OutCap)) :
            \E i \in Accepted(Pending(msgs), OutCap) :
              Acks(msgs, Pending(msgs), OutCap)[k] = AckRead(msgs[i].id)
      BY <1>3, <3>1, AcksAre
    <3>3. QED BY <1>1, <3>1, <3>2
  <2>2. ASSUME NEW i \in Pending(msgs)
        PROVE  NewOut(AckRead(msgs[i].id))
    <3>1. i \in 1..Len(msgs) /\ ~msgs[i].mine  BY <1>3, UnackedIs
    <3>2. msgs[i].id \in Id /\ msgs[i].id <= Len(rows)  BY <1>3, <3>1 DEF MsgsOK
    <3>3. msgs[i].id \in 1..Len(rows) /\ msgs[i].id # 0  BY <3>2, ShapeGives DEF Id
    <3>4. ~rows[msgs[i].id].mine  BY <1>2, <3>1, <3>3 DEF MsgsBooked
    <3>5. QED BY <3>3, <3>4 DEF NewOut, AckRead
  <2>3. QED BY <2>1, <2>2 DEF Adds
<1>5. ServerBooks'
  <2>1. greeting'.of = <<>>  BY <1>1
  <2>2. QED BY <1>1, <2>1 DEF Books, ServerBooks
<1>6. PICK e \in {0, 1} : e = 0  OBVIOUS
<1>7. \A k \in 1..Len(inbox') : k + e \in 1..Len(inbox) /\ inbox'[k] = inbox[k + e]
  BY <1>1, <1>6, SameInbox
<1>8. QED BY <1>1, <1>2, <1>4, <1>5, <1>7, ClientBooked

\* A step of the server, or of the network.
LEMMA ServerBooked ==
  ASSUME ShapeInv, Books, Grown(rows'), UNCHANGED <<msgs, contact>>, sends' \in Nat, sends' <= sends,
         ServerBooks', NEW d \in {0, 1},
         \A k \in 1..Len(outbox') : k + d \in 1..Len(outbox) /\ outbox'[k] = outbox[k + d],
         \A k \in 1..Len(inbox') : \/ k \in 1..Len(inbox) /\ inbox'[k] = inbox[k]
                                   \/ NewIn(inbox'[k])
  PROVE  Books'
<1>1. sends \in Nat  BY ShapeGives, ChatAssumption
<1>2. MsgsBooked(msgs)' /\ (~contact.loaded => Distinct(msgs))'
  <2>1. MsgsBooked(msgs)' /\ (Distinct(msgs) <=> Distinct(msgs)')  BY GrownBooked
  <2>2. QED BY <2>1 DEF Books
<1>3. PICK e \in {0, 1} : e = 0  OBVIOUS
<1>4. \A k \in 1..Len(inbox') : \/ k + e \in 1..Len(inbox) /\ inbox'[k] = inbox[k + e]
                                \/ NewIn(inbox'[k])
  <2>1. TAKE k \in 1..Len(inbox')
  <2>2. k + e = k  BY <1>3
  <2>3. QED BY <2>2
<1>5. \A k \in 1..Len(outbox') : \/ k + d \in 1..Len(outbox) /\ outbox'[k] = outbox[k + d]
                                 \/ NewOut(outbox'[k])
  OBVIOUS
<1>6. WireBooks  BY DEF Books
<1>7. /\ \A k \in 1..Len(outbox') : outbox'[k].type = "message" =>
           (Fresh(msgs, outbox'[k].cm) => Fresh(msgs', outbox'[k].cm))
      /\ \A k \in 1..Len(inbox') : inbox'[k].type = "message_ack" =>
           (Fresh(msgs, inbox'[k].cm) => Fresh(msgs', inbox'[k].cm))
  OBVIOUS
<1>8. WireBooks'  BY <1>1, <1>4, <1>5, <1>6, <1>7, WireStays
<1>9. QED BY <1>2, <1>8 DEF Books

LEMMA OutboxSame ==
  \A k \in 1..Len(outbox) : k + 0 \in 1..Len(outbox) /\ outbox[k] = outbox[k + 0]
OBVIOUS

\* The server puts a frame on its way.
LEMMA SentBooked ==
  ASSUME ShapeInv, Books, Grown(rows'), UNCHANGED <<msgs, contact, outbox, sends>>, ServerBooks',
         NEW f, ToClient(f), NewIn(f)
  PROVE  Books'
<1>1. sends \in Nat /\ sends' \in Nat /\ sends' <= sends  BY ShapeGives, ChatAssumption
<1>2. \A k \in 1..Len(inbox') : \/ k \in 1..Len(inbox) /\ inbox'[k] = inbox[k]
                                \/ NewIn(inbox'[k])
  BY ToClientAdds
<1>3. PICK d \in {0, 1} : d = 0  OBVIOUS
<1>4. \A k \in 1..Len(outbox') : k + d \in 1..Len(outbox) /\ outbox'[k] = outbox[k + d]
  BY <1>3, OutboxSame
<1>5. QED BY <1>1, <1>2, <1>4, ServerBooked

\* The server takes a frame.
LEMMA TakenBooked ==
  ASSUME ShapeInv, Books, Grown(rows'), UNCHANGED <<msgs, contact, inbox, sends, relaying, greeting>>,
         NEW type, Read(type)
  PROVE  Books'
<1>1. sends \in Nat /\ sends' \in Nat /\ sends' <= sends  BY ShapeGives, ChatAssumption
<1>2. \A k \in 1..Len(outbox') : k + 1 \in 1..Len(outbox) /\ outbox'[k] = outbox[k + 1]
  BY ReadTakes
<1>3. PICK d \in {0, 1} : d = 1  OBVIOUS
<1>4. \A k \in 1..Len(outbox') : k + d \in 1..Len(outbox) /\ outbox'[k] = outbox[k + d]
  BY <1>2, <1>3
<1>5. ServerBooks'  BY GrownServer
<1>6. QED BY <1>1, <1>4, <1>5, ServerBooked

LEMMA ServerStepsBooked ==
  ASSUME ShapeInv, Books, Grown(rows'),
         \/ PushContactList \/ LoadUndelivered \/ ReplayOne \/ ServeReturns \/ Relay
         \/ HandleHistoryRequest \/ SendPage \/ ServerMarksRead \/ ServerNotices
         \/ PeerSends \/ HandlerFails \/ LoseConnection
         \/ \E id \in DOMAIN rows : PeerReads(id)
  PROVE  Books'
<1>0. /\ sends \in Nat /\ rows \in Seq(RowT) /\ Len(rows) \in Nat  BY ShapeGives, ChatAssumption
<1>z. PICK zero \in {0, 1} : zero = 0
  OBVIOUS
<1>q. ASSUME UNCHANGED <<outbox, msgs, contact>>, ServerBooks', sends' \in Nat, sends' <= sends,
             \A k \in 1..Len(inbox') : (k \in 1..Len(inbox) /\ inbox'[k] = inbox[k]) \/ NewIn(inbox'[k])
      PROVE  Books'
  <2>1. \A k \in 1..Len(outbox') : k + zero \in 1..Len(outbox) /\ outbox'[k] = outbox[k + zero]
    BY <1>q, <1>z, OutboxSame
  <2>2. QED BY <1>q, <2>1, ServerBooked
<1>m. \A i \in 1..Len(rows) : rows'[i].mine <=> rows[i].mine
  BY DEF Grown
<1>1. CASE PushContactList
  <2>1. /\ ToClient(List) /\ greeting' = [greeting EXCEPT !.pc = "flush"]
        /\ UNCHANGED <<rows, relaying, msgs, contact, outbox, sends>>
    BY <1>1 DEF PushContactList
  <2>2. greeting'.of = greeting.of  BY <2>1 DEF ShapeInv, ChatShape, ServerShape
  <2>3. ServerBooks'  BY <2>1, <2>2, GrownServer
  <2>4. NewIn(List)  BY DEF NewIn, List
  <2>5. QED BY <2>1, <2>3, <2>4, SentBooked
<1>2. CASE LoadUndelivered
  <2>1. /\ greeting' = [pc |-> "replay", of |-> Ascending(Undelivered)]
        /\ UNCHANGED <<rows, relaying, msgs, contact, outbox, inbox, sends>>
    BY <1>2 DEF LoadUndelivered
  <2>2. greeting'.of = Ascending(Undelivered)  BY <2>1
  <2>3. \A k \in 1..Len(greeting'.of) : ~rows[greeting'.of[k]].mine
    BY <1>0, <2>2, QueueShape DEF Undelivered
  <2>4. ServerBooks'  BY <2>1, <2>3 DEF Books, ServerBooks
  <2>5. QED BY <1>0, <1>q, <2>1, <2>4
<1>3. CASE ReplayOne
  <2>1. /\ ToClient(Message(Head(greeting.of))) /\ greeting.of # <<>>
        /\ greeting' = [greeting EXCEPT !.of = Tail(@)]
        /\ UNCHANGED <<relaying, msgs, contact, outbox, sends>>
    BY <1>3 DEF ReplayOne
  <2>2. greeting'.of = Tail(greeting.of) /\ greeting.of \in Seq(Id)
    BY <2>1 DEF ShapeInv, ChatShape, ServerShape
  <2>3. /\ Head(greeting.of) = greeting.of[1] /\ 1 \in 1..Len(greeting.of)
        /\ \A k \in 1..Len(greeting'.of) :
             k + 1 \in 1..Len(greeting.of) /\ greeting'.of[k] = greeting.of[k + 1]
    BY <2>1, <2>2, TailIs
  <2>4. \A k \in 1..Len(greeting.of) : greeting.of[k] \in 1..Len(rows) /\ ~rows[greeting.of[k]].mine
    BY <1>0, <2>2 DEF Books, ServerBooks, ShapeInv, Known, Id
  <2>5. \A k \in 1..Len(greeting'.of) : ~rows'[greeting'.of[k]].mine  BY <1>m, <2>3, <2>4
  <2>6. relaying # 0 => ~rows'[relaying].mine
    BY <1>m, <1>0 DEF Books, ServerBooks, ShapeInv, Known, ChatShape, ServerShape
  <2>7. ServerBooks'  BY <2>1, <2>5, <2>6 DEF ServerBooks
  <2>8. NewIn(Message(Head(greeting.of)))  BY <2>3, <2>4 DEF NewIn, Message
  <2>9. QED BY <2>1, <2>7, <2>8, SentBooked
<1>4. CASE ServeReturns \/ ServerNotices
  <2>1. /\ greeting' = greeting \/ greeting' = [greeting EXCEPT !.pc = "none"]
        /\ UNCHANGED <<rows, relaying, msgs, contact, outbox, inbox, sends>>
    BY <1>4 DEF ServeReturns, ServerNotices
  <2>2. greeting'.of = greeting.of  BY <2>1 DEF ShapeInv, ChatShape, ServerShape
  <2>4. ServerBooks'  BY <2>1, <2>2, GrownServer
  <2>5. QED BY <1>0, <1>q, <2>1, <2>4
<1>5. CASE Relay
  <2>1. /\ UNCHANGED <<greeting, msgs, contact, outbox, sends>> /\ relaying' = 0 /\ relaying # 0
        /\ ToClient(Message(relaying)) \/ inbox' = inbox
    BY <1>5 DEF Relay, ToClient
  <2>2. ServerBooks'  BY <2>1, GrownServer
  <2>3. NewIn(Message(relaying))
    <3>1. relaying \in 1..Len(rows) /\ ~rows[relaying].mine
      BY <1>5, <2>1, RelayShape DEF Books, ServerBooks
    <3>2. QED BY <3>1 DEF NewIn, Message
  <2>4. CASE ToClient(Message(relaying))  BY <2>1, <2>2, <2>3, <2>4, SentBooked
  <2>5. CASE inbox' = inbox  BY <1>0, <1>q, <2>1, <2>2, <2>5
  <2>6. QED BY <2>1, <2>4, <2>5
<1>6. CASE HandleHistoryRequest \/ ServerMarksRead \/ HandlerFails
  <2>1. /\ UNCHANGED <<msgs, contact, inbox, sends, relaying, greeting>>
        /\ \E type \in {"history_request", "ack_read", "message"} : Read(type)
    BY <1>6 DEF HandleHistoryRequest, ServerMarksRead, HandlerFails, server
  <2>2. QED BY <2>1, TakenBooked
<1>7. CASE SendPage
  <2>1. /\ ToClient(page) /\ UNCHANGED <<relaying, greeting, msgs, contact, outbox, sends>>
    BY <1>7 DEF SendPage
  <2>2. ServerBooks'  BY <2>1, GrownServer
  <2>3. NewIn(page)  BY <1>7, SendPageShape, MakesServerFrame DEF NewIn
  <2>4. QED BY <2>1, <2>2, <2>3, SentBooked
<1>8. CASE PeerSends
  <2>1. /\ UNCHANGED <<greeting, msgs, contact, outbox, inbox>> /\ relaying' = Len(rows) + 1
        /\ sends > 0 /\ sends' = sends - 1
    BY <1>8 DEF PeerSends
  <2>2. sends' \in Nat /\ sends' <= sends  BY <1>0, <2>1
  <2>3. ~rows'[relaying'].mine
    <3>1. rows'[Len(rows) + 1] = [mine |-> FALSE, cm |-> 0, delivered |-> FALSE, read |-> FALSE]
      BY <1>8, PeerSendsShape
    <3>2. QED BY <2>1, <3>1
  <2>4. \A k \in 1..Len(greeting.of) : ~rows'[greeting.of[k]].mine
    <3>1. \A k \in 1..Len(greeting.of) : greeting.of[k] \in 1..Len(rows)
      <4>1. greeting.of \in Seq(Id)  BY DEF ShapeInv, ChatShape, ServerShape
      <4>2. QED BY <1>0, <4>1 DEF ShapeInv, Known, Id
    <3>2. QED BY <1>m, <3>1 DEF Books, ServerBooks
  <2>5. ServerBooks'  BY <2>1, <2>3, <2>4 DEF ServerBooks
  <2>6. QED BY <1>q, <2>1, <2>2, <2>5
<1>9. CASE LoseConnection
  <2>1. UNCHANGED <<rows, relaying, greeting, msgs, contact, sends>> /\ outbox' = <<>>
    BY <1>9 DEF LoseConnection, server
  <2>2. \A k \in 1..Len(inbox') : k \in 1..Len(inbox) /\ inbox'[k] = inbox[k]
    BY <1>9, LoseConnectionLoses
  <2>3. \A k \in 1..Len(outbox') : k + zero \in 1..Len(outbox) /\ outbox'[k] = outbox[k + zero]
    BY <2>1
  <2>4. ServerBooks'  BY <2>1, ServerSame
  <2>5. QED BY <1>0, <2>1, <2>2, <2>3, <2>4, ServerBooked
<1>10. ASSUME NEW id \in DOMAIN rows, PeerReads(id)
       PROVE  Books'
  <2>1. UNCHANGED <<relaying, greeting, outbox, contact, msgs, sends>>  BY <1>10 DEF PeerReads
  <2>2. NewIn(AckRead(id))  BY DEF NewIn, AckRead
  <2>3. ServerBooks'  BY <2>1, GrownServer
  <2>4. \A k \in 1..Len(inbox') : (k \in 1..Len(inbox) /\ inbox'[k] = inbox[k]) \/ NewIn(inbox'[k])
    BY <1>10, <2>2, PeerReadsAdds
  <2>5. QED BY <1>0, <1>q, <2>1, <2>3, <2>4
<1>11. QED BY <1>1, <1>2, <1>3, <1>4, <1>5, <1>6, <1>7, <1>8, <1>9, <1>10

LEMMA StoreBooked ==
  ASSUME ShapeInv, Books, StoreMessage
  PROVE  Books' /\ AckBooks'
<1>1. /\ Grown(rows') /\ Head(outbox).cm \in Nat /\ Head(outbox) = Send(Head(outbox).cm)
      /\ rows'[Len(rows) + 1] = [mine |-> TRUE, cm |-> Head(outbox).cm,
                                 delivered |-> FALSE, read |-> FALSE]
  BY StoreMessageShape
<1>2. /\ UNCHANGED <<relaying, greeting, msgs, contact, sends, inbox>> /\ Read("message")
      /\ acking' = Len(rows) + 1
  BY DEF StoreMessage
<1>3. Books'  BY <1>1, <1>2, TakenBooked
<1>4. /\ Head(outbox) = outbox[1] /\ 1 \in 1..Len(outbox) /\ outbox[1].type = "message"
      /\ \A k \in 1..Len(outbox') : k + 1 \in 1..Len(outbox) /\ outbox'[k] = outbox[k + 1]
  BY <1>2, ReadTakes
<1>5. \A k \in 1..Len(outbox') : \E l \in 1..Len(outbox) : l # 1 /\ outbox'[k] = outbox[l]
  <2>1. TAKE k \in 1..Len(outbox')
  <2>2. k + 1 \in 1..Len(outbox) /\ k + 1 # 1 /\ outbox'[k] = outbox[k + 1]  BY <1>4
  <2>3. QED BY <2>2
<1>6. PICK cm \in Nat : cm = Head(outbox).cm  BY <1>1
<1>7. outbox[1] = Send(cm) /\ cm > sends /\ Fresh(msgs, cm)
  <2>1. outbox[1] = Send(cm) /\ outbox[1].cm = cm  BY <1>1, <1>4, <1>6
  <2>2. QED BY <1>4, <2>1 DEF Books, WireBooks
<1>8. rows'[acking'].mine /\ rows'[acking'].cm = cm
  <2>1. rows'[acking'] = [mine |-> TRUE, cm |-> cm, delivered |-> FALSE, read |-> FALSE]
    BY <1>1, <1>2, <1>6
  <2>2. QED BY <2>1
<1>9. \A k \in 1..Len(outbox) : outbox[k].type = "message" /\ k # 1 => outbox[k].cm # cm
  <2>1. SUFFICES ASSUME NEW k \in 1..Len(outbox), outbox[k].type = "message", outbox[k].cm = cm
                 PROVE  k = 1
    OBVIOUS
  <2>2. outbox[k] \in ClientFrame  BY DEF ShapeInv, ChatShape, WireShape
  <2>3. outbox[k] = Send(cm)  BY <2>1, <2>2, ClientFrameIs
  <2>4. QED BY <1>4, <1>7, <2>1, <2>3 DEF Books, WireBooks
<1>10. \A k \in 1..Len(outbox') : outbox'[k].type = "message" => outbox'[k].cm # cm  BY <1>5, <1>9
<1>11. \A k \in 1..Len(inbox) : inbox[k].type = "message_ack" => inbox[k].cm # cm
  BY <1>4, <1>6 DEF Books, WireBooks
<1>12. AckBooks'
  <2>1. cm > sends' /\ Fresh(msgs', cm)  BY <1>2, <1>7
  <2>2. QED BY <1>2, <1>8, <1>10, <1>11, <2>1 DEF AckBooks, Fresh
<1>13. QED BY <1>3, <1>12

LEMMA SendAckBooked ==
  ASSUME ShapeInv, Books, AckBooks, SendAck
  PROVE  Books' /\ AckBooks'
<1>1. UNCHANGED <<rows, relaying, greeting, outbox, contact, msgs, sends>> /\ acking # 0 /\ acking' = 0
  BY DEF SendAck
<1>2. PICK new : new = MessageAck(rows[acking].cm, acking)  OBVIOUS
<1>3. /\ new.type = "message_ack" /\ new.cm = rows[acking].cm /\ new.id = acking
      /\ Len(inbox) \in Nat
  BY <1>2, ShapeGives DEF MessageAck
<1>4. /\ new.cm > sends /\ Fresh(msgs, new.cm) /\ rows[new.id].mine /\ rows[new.id].cm = new.cm
      /\ \A k \in 1..Len(outbox) : outbox[k].type = "message" => outbox[k].cm # new.cm
      /\ \A k \in 1..Len(inbox) : inbox[k].type = "message_ack" => inbox[k].cm # new.cm
  BY <1>1, <1>3 DEF AckBooks
<1>5. \/ inbox' = inbox
      \/ /\ Len(inbox') = Len(inbox) + 1 /\ inbox'[Len(inbox) + 1] = new
         /\ \A k \in 1..Len(inbox) : inbox'[k] = inbox[k]
  BY <1>2, SendAckShape, ToClientIs DEF SendAck
<1>6. \A k \in 1..Len(inbox') : \/ k \in 1..Len(inbox) /\ inbox'[k] = inbox[k]
                                \/ k = Len(inbox) + 1 /\ inbox'[k] = new
  BY <1>3, <1>5
<1>7. WireBooks  BY DEF Books
<1>8. \A k \in 1..Len(inbox') :
        /\ inbox'[k].type = "message" => ~rows[inbox'[k].id].mine
        /\ inbox'[k].type = "message_ack" =>
             /\ inbox'[k].cm > sends /\ Fresh(msgs, inbox'[k].cm)
             /\ rows[inbox'[k].id].mine /\ rows[inbox'[k].id].cm = inbox'[k].cm
             /\ \A l \in 1..Len(outbox) : outbox[l].type = "message" => outbox[l].cm # inbox'[k].cm
             /\ \A l \in 1..Len(inbox') :
                  inbox'[l].type = "message_ack" /\ inbox'[k].cm = inbox'[l].cm => k = l
  <2>1. TAKE k \in 1..Len(inbox')
  <2>2. CASE k \in 1..Len(inbox) /\ inbox'[k] = inbox[k]  BY <1>4, <1>6, <1>7, <2>2 DEF WireBooks
  <2>3. CASE k = Len(inbox) + 1 /\ inbox'[k] = new  BY <1>3, <1>4, <1>6, <2>3
  <2>4. QED BY <1>6, <2>2, <2>3
<1>9. WireBooks'  BY <1>1, <1>7, <1>8 DEF WireBooks, Fresh
<1>10. MsgsBooked(msgs)' /\ (~contact.loaded => Distinct(msgs))' /\ ServerBooks'
  BY <1>1, ServerSame DEF Books, MsgsBooked, Distinct
<1>11. QED BY <1>1, <1>9, <1>10 DEF Books, AckBooks

\* A number without an id gets one from its acknowledgement only.
LEMMA FreshKept ==
  ASSUME ShapeInv, Books, [Next]_vars, NEW cm, cm # 0, Fresh(msgs, cm)
  PROVE  Fresh(msgs', cm) \/ (HandleMessageAck /\ 1 \in 1..Len(inbox) /\ cm = inbox[1].cm
                                /\ inbox[1].type = "message_ack")
<1>1. CASE Open \/ Connect  BY <1>1, OpenShape, ConnectShape, FacesBooked
<1>2. CASE Type
  <2>1. /\ Len(msgs') = Len(msgs) + 1 /\ Len(msgs) \in Nat /\ msgs'[Len(msgs) + 1] = Typed
        /\ \A i \in 1..Len(msgs) : msgs'[i] = msgs[i]
    BY <1>2, TypeShape
  <2>2. \A i \in 1..Len(msgs') : \/ i \in 1..Len(msgs) /\ msgs'[i] = msgs[i]
                                 \/ msgs'[i].id = 0
    BY <2>1 DEF Typed
  <2>3. QED BY <2>2 DEF Fresh
<1>3. CASE HandleMessage
  <2>1. PICK ms : ms = AppendMessage(msgs, Arrived(Head(inbox).id))  OBVIOUS
  <2>2. /\ Head(inbox).id \in Id /\ Arrived(Head(inbox).id) \in EntryT /\ MsgsOK(ms, Len(rows))
        /\ Head(inbox) = inbox[1] /\ 1 \in 1..Len(inbox) /\ inbox[1].type = "message"
        /\ \E c : ShowTo(c, ms)
    BY <1>3, <2>1, HandleMessageShape, ReceiveTakes
  <2>3. SameFaces(ms, msgs')  BY <2>2, ShapeGives, ShowToIs
  <2>4. ~rows[Head(inbox).id].mine  BY <2>2 DEF Books, WireBooks
  <2>5. Fresh(ms, cm)  BY <2>1, <2>2, <2>4, ArrivedBooked
  <2>6. QED BY <2>3, <2>5, FacesBooked
<1>4. CASE HandleHistoryResponse
  <2>1. PICK p : p = Head(inbox).messages  OBVIOUS
  <2>2. /\ p \in Seq(Item) /\ \A i \in 1..Len(p) : p[i].id <= Len(rows)
        /\ \/ msgs' = msgs
           \/ \E shown \in Results(p) : MsgsOK(shown, Len(rows)) /\ ShowTo(Loaded(contact, p), shown)
    BY <1>4, <2>1, HandleHistoryResponseShape
  <2>3. ASSUME NEW ms \in Results(p), MsgsOK(ms, Len(rows)), ShowTo(Loaded(contact, p), ms)
        PROVE  Fresh(msgs', cm)
    <3>1. Fresh(ms, cm)  BY <2>2, ResultBooked
    <3>2. SameFaces(ms, msgs')  BY <2>3, ShapeGives, ShowToIs
    <3>3. QED BY <3>1, <3>2, FacesBooked
  <2>4. QED BY <2>2, <2>3
<1>5. CASE HandleMessageAck
  <2>1. PICK f : f = Head(inbox)  OBVIOUS
  <2>2. /\ f = inbox[1] /\ 1 \in 1..Len(inbox) /\ f.type = "message_ack" /\ f.id \in Id
        /\ f.id <= Len(rows) /\ f.cm \in Nat /\ msgs' = AckedIn(msgs, f)
    BY <1>5, <2>1, HandleMessageAckShape, ReceiveTakes
  <2>3. /\ Len(msgs') = Len(msgs)
        /\ \A i \in 1..Len(msgs) :
             /\ msgs'[i].cm = msgs[i].cm
             /\ msgs[i].cm = f.cm \/ msgs'[i] = msgs[i]
    BY <2>2, ShapeGives, AckedOK
  <2>4. QED BY <1>5, <2>2, <2>3 DEF Fresh
<1>6. CASE HandleAckRead
  <2>1. /\ Len(msgs') = Len(msgs)
        /\ \A i \in 1..Len(msgs) : msgs'[i].cm = msgs[i].cm /\ msgs'[i].id = msgs[i].id
    BY <1>6, HandleAckReadShape, ShapeGives, TickedOK
  <2>2. QED BY <2>1 DEF Fresh
<1>7. QED BY <1>1, <1>2, <1>3, <1>4, <1>5, <1>6, Leaves

LEMMA AckBooksStay ==
  ASSUME ShapeInv, Books, AckBooks, [Next]_vars, ~StoreMessage, ~SendAck
  PROVE  AckBooks'
<1>1. SUFFICES ASSUME acking # 0 PROVE AckBooks'  BY Leaves DEF AckBooks
<1>2. PICK cm : cm = rows[acking].cm  OBVIOUS
<1>3. acking' = acking /\ acking \in 1..Len(rows) /\ Grown(rows')
  BY <1>1, Leaves, StepGrows DEF ShapeInv, ChatShape, ServerShape, Known
<1>4. rows'[acking].mine /\ rows'[acking].cm = cm /\ cm \in Nat
  <2>1. rows[acking] \in RowT  BY <1>3, ShapeGives
  <2>2. QED BY <1>1, <1>2, <1>3, <2>1 DEF Grown, AckBooks, RowT
<1>5. /\ cm > sends /\ cm # 0 /\ Fresh(msgs, cm) /\ sends \in Nat
      /\ \A k \in 1..Len(outbox) : outbox[k].type = "message" => outbox[k].cm # cm
      /\ \A k \in 1..Len(inbox) : inbox[k].type = "message_ack" => inbox[k].cm # cm
  <2>1. sends \in Nat  BY BooksNumbers
  <2>2. QED BY <1>1, <1>2, <1>4, <2>1 DEF AckBooks
<1>6. sends' = sends \/ sends' = sends - 1  BY Leaves DEF Type, PeerSends
<1>7. cm > sends'  BY <1>4, <1>5, <1>6
<1>8. Fresh(msgs', cm)  BY <1>5, FreshKept
<1>9. \A k \in 1..Len(outbox') : outbox'[k].type = "message" => outbox'[k].cm # cm
  BY <1>4, <1>5, OutboxFrom DEF Sent, Send, HistoryRequest
<1>10. \A k \in 1..Len(inbox') : inbox'[k].type = "message_ack" => inbox'[k].cm # cm
  <2>1. page # NoPage => page.type = "history_response"
    BY MakesServerFrame DEF ShapeInv, ChatShape, ServerShape
  <2>2. QED BY <1>5, <2>1, InboxFrom DEF Came
<1>11. QED BY <1>3, <1>4, <1>7, <1>8, <1>9, <1>10 DEF AckBooks, Fresh

LEMMA StepBooks ==
  ASSUME ShapeInv, Numbers, [Next]_vars
  PROVE  Numbers'
<1>0. Books /\ AckBooks  BY DEF Numbers
<1>1. Grown(rows')  BY StepGrows
<1>2. ASSUME UNCHANGED vars PROVE Books'
  <2>1. /\ UNCHANGED <<rows, relaying, greeting, sends, contact, msgs>>
        /\ inbox' = inbox /\ outbox' = outbox
    BY <1>2, Stutter
  <2>2. sends' \in Nat /\ sends' <= sends  BY <2>1, ShapeGives, ChatAssumption
  <2>3. PICK d \in {0, 1} : d = 0  OBVIOUS
  <2>4. \A k \in 1..Len(outbox') : k + d \in 1..Len(outbox) /\ outbox'[k] = outbox[k + d]
    BY <2>1, <2>3, OutboxSame
  <2>5. \A k \in 1..Len(inbox') : k \in 1..Len(inbox) /\ inbox'[k] = inbox[k]  BY <2>1
  <2>6. ServerBooks'  BY <1>0, <2>1, ServerSame
  <2>7. QED BY <1>0, <1>1, <2>1, <2>2, <2>4, <2>5, <2>6, ServerBooked
<1>3. ASSUME Next PROVE Books'
  <2>1. CASE Open \/ Leave \/ LoadMore  BY <1>0, <2>1, UserBooked
  <2>2. CASE Type  BY <1>0, <2>2, TypeBooked
  <2>3. CASE ClientStep  BY <1>0, <2>3, ClientStepBooked
  <2>4. CASE Connect  BY <1>0, <2>4, ConnectBooked
  <2>5. CASE StoreMessage \/ SendAck  BY <1>0, <2>5, StoreBooked, SendAckBooked
  <2>6. QED BY <1>0, <1>1, <1>3, <2>1, <2>2, <2>3, <2>4, <2>5, ServerStepsBooked DEF Next, ServerStep
<1>4. AckBooks'  BY <1>0, AckBooksStay, StoreBooked, SendAckBooked
<1>5. QED BY <1>2, <1>3, <1>4 DEF Numbers

LEMMA InitBooks ==
  ASSUME Init
  PROVE  Numbers
<1>1. /\ msgs = <<>> /\ inbox = <<>> /\ outbox = <<>> /\ relaying = 0
      /\ greeting = [pc |-> "none", of |-> <<>>]
  BY DEF Init
<1>2. greeting.of = <<>>  BY <1>1
<1>3. Len(msgs) = 0 /\ Len(inbox) = 0 /\ Len(outbox) = 0 /\ Len(greeting.of) = 0  BY <1>1, <1>2
<1>4. MsgsBooked(msgs) /\ Distinct(msgs)  BY <1>3 DEF MsgsBooked, Distinct
<1>5. WireBooks  BY <1>3 DEF WireBooks
<1>6. ServerBooks  BY <1>1, <1>3 DEF ServerBooks
<1>7. QED BY <1>4, <1>5, <1>6 DEF Books, Numbers, AckBooks, Init

\* A client message number belongs to one entry and one row: a message_ack gives
\* its id to the entry the message was typed as, which had none, and no ack_read
\* of the client is about a message of its own (sendChatMessage, handleMessageAck
\* and mergeInitialHistory against handleMessage).
THEOREM NumbersBooked == ChatSpec => []Numbers
<1>1. Init => ShapeInv /\ Numbers  BY InitShape, InitBooks
<1>2. ShapeInv /\ Numbers /\ [Next]_vars => (ShapeInv /\ Numbers)'  BY StepShape, StepBooks
<1>3. QED BY <1>1, <1>2, PTL DEF ChatSpec

-----------------------------------------------------------------------------
(* The ticks: where a receipt can be.                                      *)

LEMMA ToldStays ==
  ASSUME ShapeInv, NEW e \in {0, 1}, AcksKept(e), lost \subseteq lost',
         NEW id, NEW k \in Nat, Told(id, k), NEW m \in Nat, m + e <= k \/ (m = 0 /\ inbox[1] # AckRead(id))
  PROVE  Told(id, m)'
<1>1. CASE AckRead(id) \in lost  BY <1>1 DEF Told
<1>2. ASSUME NEW l \in 1..Len(inbox), l > k, inbox[l] = AckRead(id)
      PROVE  Told(id, m)'
  <2>1. inbox[l].type = "ack_read"  BY <1>2 DEF AckRead
  <2>2. l # e /\ l - e > m  BY <1>2
  <2>3. inbox[l] \in lost' \/ (l - e \in 1..Len(inbox') /\ inbox'[l - e] = inbox[l])
    BY <2>1, <2>2 DEF AcksKept
  <2>4. QED BY <1>2, <2>2, <2>3 DEF Told
<1>3. QED BY <1>1, <1>2 DEF Told

LEMMA NewsStays ==
  ASSUME ShapeInv, Grown(rows'), NEW e \in {0, 1}, AcksKept(e), ReadsTold, lost \subseteq lost',
         NEW id \in 1..Len(rows), NEW k \in Nat, News(id, k), NEW m \in 0..Len(inbox),
         m + e <= k \/ (m = 0 /\ inbox[1] # AckRead(id))
  PROVE  News(id, m)'
<1>1. SUFFICES ASSUME rows'[id].mine, rows'[id].read
               PROVE  Told(id, m)'
  BY DEF News
<1>2. rows[id].mine /\ Len(inbox) \in Nat  BY <1>1, ShapeGives DEF Grown
<1>3. CASE rows[id].read
  <2>1. Told(id, k)  BY <1>2, <1>3 DEF News
  <2>2. QED BY <2>1, ToldStays
<1>4. CASE ~rows[id].read
  <2>1. \/ AckRead(id) \in lost'
        \/ Len(inbox') = Len(inbox) + 1 /\ inbox'[Len(inbox) + 1] = AckRead(id)
    BY <1>1, <1>2, <1>4 DEF ReadsTold
  <2>2. CASE AckRead(id) \in lost'  BY <2>2 DEF Told
  <2>3. CASE Len(inbox') = Len(inbox) + 1 /\ inbox'[Len(inbox) + 1] = AckRead(id)
    <3>1. Len(inbox) + 1 \in 1..Len(inbox') /\ Len(inbox) + 1 > m  BY <1>2, <2>3
    <3>2. QED BY <2>3, <3>1 DEF Told
  <2>4. QED BY <2>1, <2>2, <2>3
<1>5. QED BY <1>3, <1>4

LEMMA FrameNewsStays ==
  ASSUME ShapeInv, Grown(rows'), NEW e \in {0, 1}, AcksKept(e), ReadsTold, lost \subseteq lost',
         NEW k \in 1..Len(inbox), NEW f, f = inbox[k], FrameNews(f, k),
         NEW m \in 0..Len(inbox), m + e <= k
  PROVE  FrameNews(f, m)'
<1>1. f \in ServerFrame /\ Within(f, Len(rows)) /\ Len(rows) \in Nat /\ k \in Nat  BY ShapeGives
<1>2. ASSUME f.type = "message_ack"
      PROVE  News(f.id, m)'
  <2>1. PICK id : id = f.id  OBVIOUS
  <2>2. id \in 1..Len(rows)  BY <1>1, <1>2, <2>1, ServerFrameIs DEF Within, Id
  <2>3. News(id, k)  BY <1>2, <2>1 DEF FrameNews
  <2>4. News(id, m)'  BY <1>1, <2>2, <2>3, NewsStays
  <2>5. QED BY <2>1, <2>4
<1>3. ASSUME f.type = "history_response", NEW i \in 1..Len(f.messages), ~f.messages[i].read
      PROVE  News(f.messages[i].id, m)'
  <2>1. PICK id : id = f.messages[i].id  OBVIOUS
  <2>2. id \in 1..Len(rows)
    <3>1. f.messages \in Seq(Item)  BY <1>1, <1>3, ServerFrameIs
    <3>2. f.messages[i] \in Item  BY <1>3, <3>1
    <3>3. id \in Id /\ id <= Len(rows)  BY <1>1, <1>3, <2>1, <3>2 DEF Within, Item
    <3>4. QED BY <1>1, <3>3 DEF Id
  <2>3. News(id, k)  BY <1>3, <2>1 DEF FrameNews
  <2>4. News(id, m)'  BY <1>1, <2>2, <2>3, NewsStays
  <2>5. QED BY <2>1, <2>4
<1>4. QED BY <1>2, <1>3 DEF FrameNews

LEMMA WireNewsStays ==
  ASSUME ShapeInv, Grown(rows'), NEW e \in {0, 1}, AcksKept(e), ReadsTold, lost \subseteq lost',
         WireNews,
         \A f : \A k \in 1..Len(inbox') : f = inbox'[k] =>
           (k + e \in 1..Len(inbox) /\ f = inbox[k + e]) \/ NewFrame(f)'
  PROVE  WireNews'
<1>1. SUFFICES ASSUME NEW k \in 1..Len(inbox'), NEW f, f = inbox'[k]
               PROVE  FrameNews(f, k)'
  BY DEF WireNews
<1>2. Len(inbox) \in Nat  BY ShapeGives
<1>3. CASE k + e \in 1..Len(inbox) /\ f = inbox[k + e]
  <2>1. PICK l \in 1..Len(inbox) : l = k + e  BY <1>3
  <2>2. f = inbox[l] /\ FrameNews(f, l)  BY <1>3, <2>1 DEF WireNews
  <2>3. k \in 0..Len(inbox) /\ k + e <= l  BY <1>2, <2>1
  <2>4. QED BY <2>2, <2>3, FrameNewsStays
<1>4. CASE NewFrame(f)'  BY <1>4 DEF NewFrame, FrameNews, News, Told
<1>5. QED BY <1>1, <1>3, <1>4

\* The entries keep what they have, or get it from what was on its way.
LEMMA MsgsNewsStays ==
  ASSUME ShapeInv, Grown(rows'), NEW e \in {0, 1}, AcksKept(e), ReadsTold, lost \subseteq lost',
         e = 1 => inbox[1].type # "ack_read",
         \A i \in 1..Len(msgs') : Owed(msgs', i) =>
           msgs'[i].id \in 1..Len(rows) /\ \E k \in 0..Len(inbox) : News(msgs'[i].id, k)
  PROVE  MsgsNews'
<1>1. SUFFICES ASSUME NEW i \in 1..Len(msgs'), NEW id, id = msgs'[i].id, Owed(msgs', i)
               PROVE  News(id, 0)'
  BY DEF MsgsNews, Owed
<1>2. PICK k \in 0..Len(inbox) : id \in 1..Len(rows) /\ News(id, k)  BY <1>1
<1>3. Len(inbox) \in Nat  BY ShapeGives
<1>4. k \in Nat /\ 0 \in 0..Len(inbox) /\ 0 \in Nat  BY <1>3
<1>5. 0 + e <= k \/ (0 = 0 /\ inbox[1] # AckRead(id))
  <2>1. CASE e = 0  BY <1>4, <2>1
  <2>2. CASE e = 1  BY <2>2 DEF AckRead
  <2>3. QED BY <2>1, <2>2
<1>6. QED BY <1>2, <1>4, <1>5, NewsStays

LEMMA FacesCovered ==
  ASSUME NEW ms, NEW ns, SameFaces(ms, ns), Covered(ms)
  PROVE  Covered(ns)
<1>1. Len(ns) = Len(ms)
      /\ \A i \in 1..Len(ms) : ns[i].id = ms[i].id /\ ns[i].mine = ms[i].mine /\ ns[i].tick = ms[i].tick
  BY DEF SameFaces
<1>2. SUFFICES ASSUME NEW i \in 1..Len(ns), Owed(ns, i)
               PROVE  ns[i].id \in 1..Len(rows) /\ \E k \in 0..Len(inbox) : News(ns[i].id, k)
  BY DEF Covered
<1>3. i \in 1..Len(ms) /\ i \in Int /\ ns[i].id = ms[i].id /\ ns[i].mine = ms[i].mine /\ ns[i].tick = ms[i].tick
  BY <1>1
<1>4. ASSUME NEW j \in 1..(i - 1)
      PROVE  ms[j].id # ms[i].id
  <2>1. j \in 1..Len(ms)  BY <1>3
  <2>2. ns[j].id # ns[i].id  BY <1>2 DEF Owed
  <2>3. QED BY <1>1, <1>3, <2>1, <2>2
<1>5. Owed(ms, i)  BY <1>2, <1>3, <1>4 DEF Owed
<1>6. QED BY <1>3, <1>5 DEF Covered

LEMMA MsgsCovered ==
  ASSUME ShapeInv, TickInv
  PROVE  Covered(msgs)
<1>1. SUFFICES ASSUME NEW i \in 1..Len(msgs), Owed(msgs, i)
               PROVE  msgs[i].id \in 1..Len(rows) /\ \E k \in 0..Len(inbox) : News(msgs[i].id, k)
  BY DEF Covered
<1>2. Len(rows) \in Nat /\ Len(inbox) \in Nat  BY ShapeGives
<1>3. msgs[i] \in EntryT /\ msgs[i].id <= Len(rows) /\ msgs[i].id # 0
  BY <1>1, ShapeGives DEF MsgsOK, Owed
<1>4. msgs[i].id \in Nat  BY <1>3 DEF EntryT
<1>5. News(msgs[i].id, 0)  BY <1>1 DEF TickInv, MsgsNews
<1>6. 0 \in 0..Len(inbox)  BY <1>2
<1>7. QED BY <1>2, <1>3, <1>4, <1>5, <1>6

LEMMA TickStays ==
  ASSUME ShapeInv, TickInv, Grown(rows'), QuietReads, NEW e \in {0, 1}, AcksKept(e),
         lost \subseteq lost', e = 1 => inbox[1].type # "ack_read",
         \A f : \A k \in 1..Len(inbox') : f = inbox'[k] =>
           (k + e \in 1..Len(inbox) /\ f = inbox[k + e]) \/ NewFrame(f)',
         page' # NoPage => page' = page,
         NEW ms, Covered(ms), SameFaces(ms, msgs')
  PROVE  TickInv'
<1>1. ReadsTold  BY DEF ReadsTold, QuietReads
<1>2. WireNews'  BY <1>1, WireNewsStays DEF TickInv
<1>3. Covered(msgs')  BY FacesCovered
<1>4. MsgsNews'  BY <1>1, <1>3, MsgsNewsStays DEF Covered
<1>5. PageNews'
  <2>1. SUFFICES ASSUME page # NoPage, page' = page, NEW i \in 1..Len(page.messages), NEW id,
                        id = page.messages[i].id, ~page.messages[i].read,
                        rows'[id].mine, rows'[id].read
                 PROVE  AckRead(id) \in lost'
    BY DEF PageNews
  <2>2. id \in 1..Len(rows)
    <3>1. page \in Pages /\ Within(page, Len(rows)) /\ Len(rows) \in Nat
      BY <2>1, ShapeGives DEF ServerShape, ShapeInv, Known
    <3>2. page.type = "history_response" /\ page.messages \in Seq(Item)
      BY <3>1, MakesServerFrame, ServerFrameIs
    <3>3. page.messages[i] \in Item  BY <2>1, <3>2
    <3>4. id \in Id /\ id <= Len(rows)  BY <2>1, <3>1, <3>2, <3>3 DEF Within, Item
    <3>5. QED BY <3>1, <3>4 DEF Id
  <2>3. rows[id].mine /\ rows[id].read  BY <2>1, <2>2 DEF Grown, QuietReads
  <2>4. AckRead(id) \in lost  BY <2>1, <2>3 DEF TickInv, PageNews
  <2>5. QED BY <2>4
<1>6. QED BY <1>2, <1>4, <1>5 DEF TickInv

LEMMA SameReads ==
  ASSUME ShapeInv, rows' = rows
  PROVE  Grown(rows') /\ QuietReads
BY ShapeGives, GrownNot DEF QuietReads

LEMMA SameAcks ==
  ASSUME ShapeInv, inbox' = inbox
  PROVE  /\ AcksKept(0)
         /\ \A f : \A k \in 1..Len(inbox') : f = inbox'[k] => k + 0 \in 1..Len(inbox) /\ f = inbox[k + 0]
<1>1. \A k \in 1..Len(inbox) : k + 0 = k /\ k - 0 = k  OBVIOUS
<1>2. AcksKept(0)  BY <1>1 DEF AcksKept
<1>3. QED BY <1>1, <1>2

LEMMA TakenAcks ==
  ASSUME ShapeInv, NEW type, Receive(type)
  PROVE  /\ AcksKept(1) /\ inbox[1].type = type /\ 1 \in 1..Len(inbox) /\ Head(inbox) = inbox[1]
         /\ \A f : \A k \in 1..Len(inbox') : f = inbox'[k] => k + 1 \in 1..Len(inbox) /\ f = inbox[k + 1]
<1>1. /\ inbox' \in Seq(ServerFrame) /\ Len(inbox') = Len(inbox) - 1 /\ Len(inbox) \in Nat
      /\ \A k \in 1..Len(inbox') : k + 1 \in 1..Len(inbox) /\ inbox'[k] = inbox[k + 1]
      /\ \A k \in 1..Len(inbox) : k = 1 \/ (k - 1 \in 1..Len(inbox') /\ inbox'[k - 1] = inbox[k])
      /\ Head(inbox) = inbox[1] /\ 1 \in 1..Len(inbox) /\ Head(inbox).type = type
  BY ReceiveTakes
<1>2. AcksKept(1)  BY <1>1 DEF AcksKept
<1>3. QED BY <1>1, <1>2

LEMMA HandlerTicked ==
  ASSUME ShapeInv, TickInv, UNCHANGED <<rows, page>>, NEW type, Receive(type), type # "ack_read",
         lost \subseteq lost', NEW ms, Covered(ms), SameFaces(ms, msgs')
  PROVE  TickInv'
<1>1. Grown(rows') /\ QuietReads  BY SameReads
<1>2. PICK e \in {0, 1} : e = 1  OBVIOUS
<1>3. AcksKept(e) /\ (e = 1 => inbox[1].type # "ack_read")
      /\ \A f : \A k \in 1..Len(inbox') : f = inbox'[k] =>
           (k + e \in 1..Len(inbox) /\ f = inbox[k + e]) \/ NewFrame(f)'
  BY <1>2, TakenAcks
<1>4. page' # NoPage => page' = page  OBVIOUS
<1>5. QED BY <1>1, <1>3, <1>4, TickStays

\* The inbox is not touched.
LEMMA QuietTicked ==
  ASSUME ShapeInv, TickInv, Grown(rows'), QuietReads, page' # NoPage => page' = page,
         inbox' = inbox, lost \subseteq lost', NEW ms, Covered(ms), SameFaces(ms, msgs')
  PROVE  TickInv'
<1>1. PICK e \in {0, 1} : e = 0  OBVIOUS
<1>2. AcksKept(e) /\ (e = 1 => inbox[1].type # "ack_read")
      /\ \A f : \A k \in 1..Len(inbox') : f = inbox'[k] =>
           (k + e \in 1..Len(inbox) /\ f = inbox[k + e]) \/ NewFrame(f)'
  BY <1>1, SameAcks
<1>3. QED BY <1>2, TickStays

\* A frame is sent to the client.
LEMMA SentTicked ==
  ASSUME ShapeInv, TickInv, Grown(rows'), QuietReads, page' # NoPage => page' = page,
         NEW f, ToClient(f), NewFrame(f)', msgs' = msgs
  PROVE  TickInv'
<1>1. /\ lost \subseteq lost'
      /\ \A k \in 1..Len(inbox) : k \in 1..Len(inbox') /\ inbox'[k] = inbox[k]
      /\ \A k \in 1..Len(inbox') : k \in 1..Len(inbox) \/ inbox'[k] = f
  BY ToClientAdds
<1>2. PICK e \in {0, 1} : e = 0  OBVIOUS
<1>3. \A k \in Int : k + e = k /\ k - e = k  BY <1>2
<1>4. AcksKept(e)  BY <1>1, <1>3 DEF AcksKept
<1>5. ASSUME NEW k \in 1..Len(inbox'), NEW g, g = inbox'[k]
      PROVE  (k + e \in 1..Len(inbox) /\ g = inbox[k + e]) \/ NewFrame(g)'
  <2>1. CASE k \in 1..Len(inbox)  BY <1>1, <1>3, <1>5, <2>1
  <2>2. CASE inbox'[k] = f
    <3>1. g = f  BY <1>5, <2>2
    <3>2. QED BY <3>1
  <2>3. QED BY <1>1, <2>1, <2>2
<1>6. Covered(msgs) /\ SameFaces(msgs, msgs')  BY MsgsCovered, SelfFaces
<1>7. e = 1 => inbox[1].type # "ack_read"  BY <1>2
<1>8. QED BY <1>1, <1>4, <1>5, <1>6, <1>7, TickStays

LEMMA AppendCovered ==
  ASSUME NEW ms \in Seq(EntryT), NEW e \in EntryT, e.mine => e.id = 0, Covered(ms)
  PROVE  Covered(Append(ms, e))
<1>1. PICK ns : ns = Append(ms, e)  OBVIOUS
<1>2. /\ Len(ns) = Len(ms) + 1 /\ ns[Len(ms) + 1] = e /\ Len(ms) \in Nat
      /\ \A i \in 1..Len(ms) : ns[i] = ms[i]
  BY <1>1, AppendIs
<1>3. ASSUME NEW i \in 1..Len(ns), Owed(ns, i)
      PROVE  ns[i].id \in 1..Len(rows) /\ \E k \in 0..Len(inbox) : News(ns[i].id, k)
  <2>1. i # Len(ms) + 1  BY <1>2, <1>3 DEF Owed
  <2>2. i \in 1..Len(ms) /\ i \in Int  BY <1>2, <2>1
  <2>3. \A j \in 1..(i - 1) : j \in 1..Len(ms) /\ ns[j] = ms[j]  BY <1>2, <2>2
  <2>4. Owed(ms, i)  BY <1>2, <1>3, <2>2, <2>3 DEF Owed
  <2>5. QED BY <1>2, <2>2, <2>4 DEF Covered
<1>4. QED BY <1>1, <1>3 DEF Covered

LEMMA ArrivedCovered ==
  ASSUME ShapeInv, TickInv, NEW id, Arrived(id) \in EntryT
  PROVE  Covered(AppendMessage(msgs, Arrived(id)))
<1>1. Covered(msgs) /\ msgs \in Seq(EntryT)  BY MsgsCovered, ShapeGives DEF MsgsOK
<1>2. Arrived(id).mine = FALSE  BY DEF Arrived
<1>3. Covered(Append(msgs, Arrived(id)))  BY <1>1, <1>2, AppendCovered
<1>4. QED BY <1>1, <1>3 DEF AppendMessage

LEMMA EntriesCovered ==
  ASSUME ShapeInv, NEW p \in Seq(Item), \A i \in 1..Len(p) : p[i].id <= Len(rows),
         NEW k \in Nat, \A i \in 1..Len(p) : ~p[i].read => News(p[i].id, k)
  PROVE  \A i \in 1..Len(Entries(p)) :
           /\ Entries(p)[i].id \in 1..Len(rows)
           /\ Entries(p)[i].mine /\ ~Entries(p)[i].tick => News(Entries(p)[i].id, k)
<1>1. PICK es : es = Entries(p)  OBVIOUS
<1>2. /\ MsgsOK(es, Len(rows)) /\ Len(es) = Len(p)
      /\ \A i \in 1..Len(p) : \E l \in 1..Len(p) :
           /\ es[i].id = p[l].id /\ es[i].id \in Id
           /\ es[i].mine => (es[i].tick <=> p[l].read)
  BY <1>1, ShapeGives, EntriesAre
<1>3. ASSUME NEW i \in 1..Len(es)
      PROVE  /\ es[i].id \in 1..Len(rows)
             /\ es[i].mine /\ ~es[i].tick => News(es[i].id, k)
  <2>1. PICK l \in 1..Len(p) :
           /\ es[i].id = p[l].id /\ es[i].id \in Id
           /\ es[i].mine => (es[i].tick <=> p[l].read)
    BY <1>2
  <2>2. es[i].id \in 1..Len(rows)  BY <2>1, ShapeGives DEF Id
  <2>3. es[i].mine /\ ~es[i].tick => News(es[i].id, k)  BY <2>1
  <2>4. QED BY <2>2, <2>3
<1>4. QED BY <1>1, <1>3

LEMMA ResultCovered ==
  ASSUME ShapeInv, Books, TickInv, NEW p \in Seq(Item), \A i \in 1..Len(p) : p[i].id <= Len(rows),
         NEW k \in 0..Len(inbox), \A i \in 1..Len(p) : ~p[i].read => News(p[i].id, k),
         NEW shown \in Results(p)
  PROVE  Covered(shown)
<1>1. PICK es : es = Entries(p)  OBVIOUS
<1>2. /\ MsgsOK(es, Len(rows)) /\ MsgsOK(msgs, Len(rows))
      /\ es \in Seq(EntryT) /\ msgs \in Seq(EntryT)
  BY <1>1, EntriesBooked, ShapeGives DEF MsgsOK
<1>3. \A i \in 1..Len(es) :
           /\ es[i].id \in 1..Len(rows)
           /\ es[i].mine /\ ~es[i].tick => News(es[i].id, k)
  <2>1. k \in Nat  BY ShapeGives
  <2>2. QED BY <1>1, <2>1, EntriesCovered
<1>4. Covered(msgs)  BY MsgsCovered
<1>5. SUFFICES ASSUME NEW i \in 1..Len(shown), Owed(shown, i)
               PROVE  shown[i].id \in 1..Len(rows) /\ \E l \in 0..Len(inbox) : News(shown[i].id, l)
  BY DEF Covered
<1>6. ASSUME NEW j \in 1..Len(es), shown[i] = es[j]
      PROVE  shown[i].id \in 1..Len(rows) /\ \E l \in 0..Len(inbox) : News(shown[i].id, l)
  BY <1>3, <1>5, <1>6 DEF Owed
<1>7. ASSUME NEW j \in 1..Len(msgs), shown[i] = msgs[j],
             \A l \in 1..(j - 1) : msgs[l].id # msgs[j].id
      PROVE  shown[i].id \in 1..Len(rows) /\ \E l \in 0..Len(inbox) : News(shown[i].id, l)
  <2>1. Owed(msgs, j)  BY <1>5, <1>7 DEF Owed
  <2>2. QED BY <1>4, <1>7, <2>1 DEF Covered
<1>8. CASE contact.loaded
  <2>1. shown = es \o msgs  BY <1>1, <1>8 DEF Results
  <2>2. /\ Len(shown) = Len(es) + Len(msgs)
        /\ Len(es) \in Nat /\ Len(msgs) \in Nat
        /\ \A m \in 1..Len(es) : shown[m] = es[m]
        /\ \A m \in 1..Len(msgs) : shown[Len(es) + m] = msgs[m]
    BY <1>2, <2>1, ConcatIs
  <2>3. CASE i \in 1..Len(es)  BY <1>6, <2>2, <2>3
  <2>4. CASE ~(i \in 1..Len(es))
    <3>1. PICK j \in 1..Len(msgs) : i = Len(es) + j
      <4>1. i - Len(es) \in 1..Len(msgs) /\ i = Len(es) + (i - Len(es))  BY <2>2, <2>4
      <4>2. QED BY <4>1
    <3>2. shown[i] = msgs[j]  BY <2>2, <3>1
    <3>3. ASSUME NEW l \in 1..(j - 1)
          PROVE  msgs[l].id # msgs[j].id
      <4>1. l \in 1..Len(msgs) /\ Len(es) + l \in 1..(i - 1)  BY <2>2, <3>1
      <4>2. PICK m \in 1..(i - 1) : m = Len(es) + l  BY <4>1
      <4>3. shown[m] = msgs[l]  BY <2>2, <4>1, <4>2
      <4>4. shown[m].id # shown[i].id  BY <1>5 DEF Owed
      <4>5. QED BY <3>2, <4>3, <4>4
    <3>4. QED BY <1>7, <3>2, <3>3
  <2>5. QED BY <2>3, <2>4
<1>9. CASE ~contact.loaded
  <2>1. \/ \E j \in 1..Len(msgs) : shown[i] = msgs[j]
        \/ \E j \in 1..Len(es) : shown[i] = es[j]
    <3>1. MsgsOK(Entries(p), Len(rows)) /\ MsgsOK(msgs, Len(rows)) /\ shown \in Results(p)
      BY <1>1, <1>2
    <3>2. \A m \in 1..Len(shown) : \/ \E j \in 1..Len(msgs) : shown[m] = msgs[j]
                                   \/ \E j \in 1..Len(Entries(p)) : shown[m] = Entries(p)[j]
      BY ONLY <3>1, ResultFrom
    <3>3. QED BY ONLY <1>1, <3>2, i \in 1..Len(shown)
  <2>2. ASSUME NEW j \in 1..Len(msgs), shown[i] = msgs[j]
        PROVE  \A l \in 1..(j - 1) : msgs[l].id # msgs[j].id
    <3>1. msgs[j].id # 0  BY <1>5, <2>2 DEF Owed
    <3>2. Len(msgs) \in Nat /\ j \in Int  BY <1>2
    <3>3. \A l \in 1..(j - 1) : l \in 1..Len(msgs) /\ l # j  BY <3>2
    <3>4. QED BY <1>9, <3>1, <3>3 DEF Books, Distinct
  <2>3. QED BY <1>6, <1>7, <2>1, <2>2
<1>10. QED BY <1>8, <1>9

LEMMA AckedCovered ==
  ASSUME ShapeInv, Books, TickInv, NEW f, 1 \in 1..Len(inbox), f = inbox[1], f.type = "message_ack"
  PROVE  Covered(AckedIn(msgs, f))
<1>1. PICK ms : ms = AckedIn(msgs, f)  OBVIOUS
<1>2. f \in ServerFrame /\ Within(f, Len(rows)) /\ Len(rows) \in Nat /\ Len(inbox) \in Nat
  BY ShapeGives
<1>3. f.id \in 1..Len(rows) /\ f.id \in Id /\ f.id <= Len(rows)
  BY <1>2, ServerFrameIs DEF Within, Id
<1>4. News(f.id, 1) /\ 1 \in 0..Len(inbox) /\ Fresh(msgs, f.cm)
  BY <1>2 DEF TickInv, WireNews, FrameNews, Books, WireBooks
<1>5. /\ Len(ms) = Len(msgs)
      /\ \A i \in 1..Len(msgs) :
           /\ ms[i].mine = msgs[i].mine /\ ms[i].tick = msgs[i].tick
           /\ \/ msgs[i].mine /\ msgs[i].cm = f.cm /\ ms[i].id = f.id
              \/ ~(msgs[i].mine /\ msgs[i].cm = f.cm) /\ ms[i] = msgs[i]
  BY <1>1, <1>3, ShapeGives, AckedOK
<1>6. \A i \in 1..Len(msgs) : /\ ms[i].mine = msgs[i].mine /\ ms[i].tick = msgs[i].tick
                              /\ ms[i].id = f.id \/ ms[i].id = msgs[i].id
                              /\ msgs[i].id = 0 \/ ms[i].id = msgs[i].id
  BY <1>4, <1>5 DEF Fresh
<1>7. Covered(msgs)  BY MsgsCovered
<1>8. ASSUME NEW i \in 1..Len(ms), Owed(ms, i)
      PROVE  ms[i].id \in 1..Len(rows) /\ \E l \in 0..Len(inbox) : News(ms[i].id, l)
  <2>1. CASE ms[i].id = f.id  BY <1>3, <1>4, <2>1
  <2>2. CASE ms[i].id # f.id
    <3>1. ms[i].id = msgs[i].id /\ msgs[i].id # 0 /\ i \in 1..Len(msgs) /\ i \in Int
      BY <1>5, <1>6, <1>8, <2>2 DEF Owed
    <3>2. ASSUME NEW j \in 1..(i - 1)
          PROVE  msgs[j].id # msgs[i].id
      <4>1. j \in 1..Len(msgs)
        <5>1. Len(msgs) \in Nat  BY ShapeGives DEF MsgsOK
        <5>2. QED BY <3>1, <5>1
      <4>2. ms[j].id # ms[i].id  BY <1>8 DEF Owed
      <4>3. QED BY <1>6, <3>1, <4>1, <4>2
    <3>3. Owed(msgs, i)  BY <1>6, <1>8, <3>1, <3>2 DEF Owed
    <3>4. QED BY <1>7, <3>1, <3>3 DEF Covered
  <2>3. QED BY <2>1, <2>2
<1>9. QED BY <1>1, <1>8 DEF Covered

LEMMA UserTicked ==
  ASSUME ShapeInv, WaitInv, TickInv, Open \/ Leave \/ LoadMore \/ Type
  PROVE  TickInv'
<1>1. rows' = rows /\ page' = page /\ inbox' = inbox  BY DEF Open, Leave, LoadMore, Type, server
<1>2. \E ms : Covered(ms) /\ SameFaces(ms, msgs')
  <2>1. Covered(msgs) /\ msgs \in Seq(EntryT)  BY MsgsCovered, ShapeGives DEF MsgsOK
  <2>2. CASE Open  BY <2>1, <2>2, OpenShape
  <2>3. CASE Leave \/ LoadMore  BY <2>1, <2>3, LeaveShape, LoadMoreShape, SelfFaces
  <2>4. CASE Type
    <3>1. msgs' = Append(msgs, Typed) /\ Typed \in EntryT /\ Typed.id = 0
      BY <2>4, TypeShape DEF Type, Typed
    <3>2. Covered(Append(msgs, Typed))  BY <2>1, <3>1, AppendCovered
    <3>3. Covered(msgs') /\ SameFaces(msgs', msgs')  BY <3>1, <3>2, SelfFaces
    <3>4. QED BY <3>3
  <2>5. QED BY <2>2, <2>3, <2>4
<1>3. Grown(rows') /\ QuietReads  BY <1>1, SameReads
<1>4. page' # NoPage => page' = page  BY <1>1
<1>5. lost \subseteq lost'  BY LostStays DEF Next
<1>6. QED BY <1>1, <1>5, <1>2, <1>3, <1>4, QuietTicked

\* handleAckRead: the entry that is owed the tick gets it.
LEMMA AckReadTicked ==
  ASSUME ShapeInv, TickInv, HandleAckRead
  PROVE  TickInv'
<1>1. rows' = rows /\ page' = page /\ lost' = lost  BY DEF HandleAckRead, server
<1>2. PICK id : id = Head(inbox).id  OBVIOUS
<1>3. /\ Receive("ack_read") /\ Head(inbox) = AckRead(id) /\ msgs' = MarkTick(msgs, id)
  BY <1>2, HandleAckReadShape
<1>4. PICK e \in {0, 1} : e = 1  OBVIOUS
<1>5. /\ AcksKept(e) /\ inbox[1] = AckRead(id) /\ 1 \in 1..Len(inbox)
      /\ \A f : \A k \in 1..Len(inbox') : f = inbox'[k] =>
           (k + e \in 1..Len(inbox) /\ f = inbox[k + e]) \/ NewFrame(f)'
  BY <1>3, <1>4, TakenAcks
<1>6. Grown(rows') /\ ReadsTold  BY <1>1, SameReads DEF QuietReads, ReadsTold
<1>7. WireNews'  BY <1>1, <1>5, <1>6, WireNewsStays DEF TickInv
<1>8. PageNews'  BY <1>1 DEF TickInv, PageNews
<1>9. PICK ms : ms = MarkTick(msgs, id)  OBVIOUS
<1>10. /\ Len(ms) = Len(msgs)
       /\ \A i \in 1..Len(msgs) :
            /\ ms[i].mine = msgs[i].mine /\ ms[i].id = msgs[i].id
            /\ msgs[i].tick => ms[i].tick
            /\ (msgs[i].mine /\ msgs[i].id = id /\ \A j \in 1..(i - 1) : msgs[j].id # id) => ms[i].tick
  BY <1>9, ShapeGives, TickedOK
<1>11. Len(inbox) \in Nat /\ Len(msgs) \in Nat  BY ShapeGives DEF MsgsOK
<1>12. ASSUME NEW i \in 1..Len(ms), Owed(ms, i), NEW x, x = ms[i].id
       PROVE  News(x, 0)'
  <2>1. i \in 1..Len(msgs) /\ x = msgs[i].id /\ msgs[i].mine /\ x # 0 /\ ~msgs[i].tick
    BY <1>10, <1>12 DEF Owed
  <2>2. \A j \in 1..(i - 1) : msgs[j].id # x
    <3>1. \A j \in 1..(i - 1) : j \in 1..Len(msgs) /\ ms[j].id # ms[i].id
      BY <1>11, <1>12, <2>1 DEF Owed
    <3>2. QED BY <1>10, <1>12, <3>1
  <2>3. x # id  BY <1>10, <1>12, <2>1, <2>2 DEF Owed
  <2>4. Owed(msgs, i)  BY <2>1, <2>2 DEF Owed
  <2>5. x \in 1..Len(rows)  BY <2>1, <2>4, MsgsCovered DEF Covered
  <2>6. News(x, 0)  BY <2>1, <2>4 DEF TickInv, MsgsNews
  <2>7. inbox[1] # AckRead(x)  BY <1>5, <2>3 DEF AckRead
  <2>8. 0 \in Nat /\ 0 \in 0..Len(inbox)  BY <1>11
  <2>9. lost \subseteq lost' /\ (0 + e <= 0 \/ (0 = 0 /\ inbox[1] # AckRead(x)))  BY <1>1, <2>7
  <2>10. QED BY <1>5, <1>6, <2>5, <2>6, <2>8, <2>9, NewsStays
<1>13. MsgsNews'
  <2>1. SUFFICES ASSUME NEW i \in 1..Len(msgs'), NEW x, x = msgs'[i].id, Owed(msgs', i)
                 PROVE  News(x, 0)'
    BY DEF MsgsNews, Owed
  <2>2. QED BY <1>3, <1>9, <1>12, <2>1
<1>14. QED BY <1>7, <1>8, <1>13 DEF TickInv

LEMMA HandlersTicked ==
  ASSUME ShapeInv, WaitInv, Books, TickInv, ClientStep
  PROVE  TickInv'
<1>1. lost \subseteq lost'  BY LostStays DEF Next
<1>2. Covered(msgs) /\ SameFaces(msgs, msgs)  BY MsgsCovered, SelfFaces
<1>3. CASE HandleContactList
  <2>1. UNCHANGED <<rows, page>> /\ Receive("contact_list") /\ msgs' = msgs
    BY <1>3 DEF HandleContactList, server
  <2>2. QED BY <1>1, <1>2, <2>1, HandlerTicked
<1>4. CASE HandleMessage
  <2>1. UNCHANGED <<rows, page>>  BY <1>4 DEF HandleMessage, server
  <2>2. PICK ms : ms = AppendMessage(msgs, Arrived(Head(inbox).id))  OBVIOUS
  <2>3. /\ Receive("message") /\ Arrived(Head(inbox).id) \in EntryT /\ MsgsOK(ms, Len(rows))
        /\ \E c : ShowTo(c, ms)
    BY <1>4, <2>2, HandleMessageShape
  <2>4. Covered(ms)  BY <2>2, <2>3, ArrivedCovered
  <2>5. SameFaces(ms, msgs')  BY <2>3, ShapeGives, ShowToIs
  <2>6. QED BY <1>1, <2>1, <2>3, <2>4, <2>5, HandlerTicked
<1>5. CASE HandleHistoryResponse
  <2>1. UNCHANGED <<rows, page>>  BY <1>5 DEF HandleHistoryResponse, server
  <2>2. PICK p : p = Head(inbox).messages  OBVIOUS
  <2>3. PICK c : c = Loaded(contact, p)  OBVIOUS
  <2>4. /\ Receive("history_response") /\ p \in Seq(Item)
        /\ \A i \in 1..Len(p) : p[i].id <= Len(rows)
        /\ \/ msgs' = msgs
           \/ \E shown \in Results(p) : MsgsOK(shown, Len(rows)) /\ ShowTo(c, shown)
    BY <1>5, <2>2, <2>3, HandleHistoryResponseShape
  <2>5. CASE msgs' = msgs  BY <1>1, <1>2, <2>1, <2>4, <2>5, HandlerTicked
  <2>6. ASSUME NEW shown \in Results(p), MsgsOK(shown, Len(rows)), ShowTo(c, shown)
        PROVE  TickInv'
    <3>1. inbox[1].type = "history_response" /\ 1 \in 1..Len(inbox) /\ Head(inbox) = inbox[1]
      BY <2>4, TakenAcks
    <3>2. 1 \in 0..Len(inbox) /\ \A i \in 1..Len(p) : ~p[i].read => News(p[i].id, 1)
      BY <2>2, <3>1, ShapeGives DEF TickInv, WireNews, FrameNews
    <3>3. Covered(shown)  BY <2>4, <2>6, <3>2, ResultCovered
    <3>4. SameFaces(shown, msgs')  BY <2>6, ShapeGives, ShowToIs
    <3>5. QED BY <1>1, <2>1, <2>4, <3>3, <3>4, HandlerTicked
  <2>7. QED BY <2>4, <2>5, <2>6
<1>6. CASE HandleMessageAck
  <2>1. UNCHANGED <<rows, page>>  BY <1>6 DEF HandleMessageAck, server
  <2>2. PICK f : f = Head(inbox)  OBVIOUS
  <2>3. Receive("message_ack") /\ msgs' = AckedIn(msgs, f)  BY <1>6, <2>2, HandleMessageAckShape
  <2>4. f = inbox[1] /\ f.type = "message_ack" /\ 1 \in 1..Len(inbox)  BY <2>2, <2>3, TakenAcks
  <2>5. Covered(AckedIn(msgs, f)) /\ SameFaces(AckedIn(msgs, f), msgs')
    BY <2>3, <2>4, AckedCovered, SelfFaces
  <2>6. QED BY <1>1, <2>1, <2>3, <2>5, HandlerTicked
<1>7. CASE HandleAckRead  BY <1>7, AckReadTicked
<1>8. CASE HandleDisconnected
  <2>1. rows' = rows /\ page' = page /\ inbox' = inbox /\ msgs' = msgs
    BY <1>8 DEF HandleDisconnected, server
  <2>2. Grown(rows') /\ QuietReads /\ (page' # NoPage => page' = page) /\ SameFaces(msgs, msgs')
    BY <1>2, <2>1, SameReads
  <2>3. QED BY <1>1, <1>2, <2>1, <2>2, QuietTicked
<1>9. QED BY <1>3, <1>4, <1>5, <1>6, <1>7, <1>8 DEF ClientStep

\* The peer reads one of the client's messages.
LEMMA PeerReadsTicked ==
  ASSUME ShapeInv, TickInv, NEW id \in DOMAIN rows, PeerReads(id)
  PROVE  TickInv'
<1>1. /\ RowMarked(rows', id) /\ id \in 1..Len(rows) /\ Grown(rows')
      /\ \A j \in 1..Len(rows) : j # id => rows'[j] = rows[j]
  BY PeerReadsShape DEF RowMarked
<1>2. /\ msgs' = msgs /\ page' = page
      /\ \/ inbox' = Append(inbox, AckRead(id)) /\ lost' = lost
         \/ lost' = lost \cup {AckRead(id)} /\ (inbox' = Append(inbox, AckRead(id)) \/ inbox' = inbox)
      /\ page # NoPage /\ (\E i \in DOMAIN page.messages : page.messages[i].id = id)
           => AckRead(id) \in lost'
  BY DEF PeerReads
<1>3. inbox \in Seq(ServerFrame) /\ AckRead(id) \in ServerFrame /\ Len(inbox) \in Nat
  BY <1>1, ShapeGives, MakesServerFrame DEF Id
<1>5. PICK e \in {0, 1} : e = 0  OBVIOUS
<1>6. \A k \in Int : k + e = k /\ k - e = k  BY <1>5
<1>7. \A k \in 1..Len(inbox) : k \in 1..Len(inbox') /\ inbox'[k] = inbox[k]  BY PeerReadsAdds
<1>8. AcksKept(e) /\ lost \subseteq lost' /\ (e = 1 => inbox[1].type # "ack_read")
  BY <1>2, <1>5, <1>6, <1>7 DEF AcksKept
<1>9. ReadsTold
  <2>1. \/ AckRead(id) \in lost'
        \/ Len(inbox') = Len(inbox) + 1 /\ inbox'[Len(inbox) + 1] = AckRead(id)
    BY <1>2, <1>3, AppendIs
  <2>2. QED BY <1>1, <2>1 DEF ReadsTold
<1>10. ASSUME NEW k \in 1..Len(inbox'), NEW f, f = inbox'[k]
       PROVE  (k + e \in 1..Len(inbox) /\ f = inbox[k + e]) \/ NewFrame(f)'
  <2>1. CASE k \in 1..Len(inbox)  BY <1>6, <1>7, <1>10, <2>1
  <2>2. CASE k \notin 1..Len(inbox)
    <3>1. f = AckRead(id)  BY <1>10, <2>2, PeerReadsAdds
    <3>2. f.type = "ack_read"  BY <3>1 DEF AckRead
    <3>3. QED BY <3>2 DEF NewFrame
  <2>3. QED BY <2>1, <2>2
<1>11. WireNews'  BY <1>1, <1>8, <1>9, <1>10, WireNewsStays DEF TickInv
<1>12. MsgsNews'
  <2>1. Covered(msgs)  BY MsgsCovered
  <2>2. QED BY <1>1, <1>2, <1>8, <1>9, <2>1, MsgsNewsStays DEF Covered
<1>13. PageNews'
  <2>1. SUFFICES ASSUME page # NoPage, page' = page, NEW i \in 1..Len(page.messages), NEW x,
                        x = page.messages[i].id, ~page.messages[i].read,
                        rows'[x].mine, rows'[x].read
                 PROVE  AckRead(x) \in lost'
    BY <1>2 DEF PageNews
  <2>2. x \in 1..Len(rows) /\ i \in DOMAIN page.messages
    <3>1. page \in Pages /\ Within(page, Len(rows)) /\ Len(rows) \in Nat
      BY <2>1, ShapeGives DEF ServerShape, ShapeInv, Known
    <3>2. page.type = "history_response" /\ page.messages \in Seq(Item)
      BY <3>1, MakesServerFrame, ServerFrameIs
    <3>3. page.messages[i] \in Item /\ i \in DOMAIN page.messages  BY <2>1, <3>2
    <3>4. x \in Id /\ x <= Len(rows)  BY <2>1, <3>1, <3>2, <3>3 DEF Within, Item
    <3>5. QED BY <3>1, <3>3, <3>4 DEF Id
  <2>3. CASE x = id  BY <1>2, <2>1, <2>2, <2>3
  <2>4. CASE x # id
    <3>1. rows[x].mine /\ rows[x].read  BY <1>1, <2>1, <2>2, <2>4
    <3>2. AckRead(x) \in lost  BY <2>1, <3>1 DEF TickInv, PageNews
    <3>3. QED BY <1>8, <3>2
  <2>5. QED BY <2>3, <2>4
<1>14. QED BY <1>11, <1>12, <1>13 DEF TickInv

\* The server reads a page from the table.
LEMMA PageReadTicked ==
  ASSUME ShapeInv, TickInv, HandleHistoryRequest
  PROVE  TickInv'
<1>1. rows' = rows /\ inbox' = inbox /\ msgs' = msgs /\ lost' = lost  BY DEF HandleHistoryRequest
<1>2. PICK b \in Int : b = Head(outbox).before  BY HandleHistoryRequestShape
<1>3. page' = HistoryResponse(HistoryPage(b)) /\ rows \in Seq(RowT)
  BY <1>2, HandleHistoryRequestShape, ShapeGives
<1>4. PICK ms : ms = HistoryPage(b)  OBVIOUS
<1>5. page'.messages = ms  BY <1>3, <1>4 DEF HistoryResponse
<1>6. PICK m \in 0..Len(rows), s \in 0..PageSize :
        /\ Len(ms) = s
        /\ \A k \in 1..s : ms[k].id = m - k + 1 /\ ms[k].read = rows[m - k + 1].read
  BY <1>3, <1>4, PageIs
<1>7. \A k \in 1..Len(ms) : ms[k].read = rows[ms[k].id].read  BY <1>6
<1>8. PageNews'  BY <1>1, <1>5, <1>7 DEF PageNews
<1>9. MsgsNews' /\ WireNews'  BY <1>1 DEF TickInv, MsgsNews, WireNews, FrameNews, News, Told
<1>10. QED BY <1>8, <1>9 DEF TickInv

LEMMA MarkedQuiet ==
  ASSUME ShapeInv, NEW i \in 1..Len(rows), RowMarked(rows', i),
         rows'[i].read = rows[i].read \/ ~rows[i].mine
  PROVE  Grown(rows') /\ QuietReads
BY DEF RowMarked, QuietReads

LEMMA RelaysTicked ==
  ASSUME ShapeInv, TickInv, StoredNews, lost \subseteq lost',
         PushContactList \/ ReplayOne \/ Relay \/ SendPage \/ SendAck
  PROVE  TickInv'
<1>1. \A id : Message(id).type = "message"  BY DEF Message
<1>2. CASE PushContactList
  <2>1. ToClient(List) /\ rows' = rows /\ page' = page /\ msgs' = msgs  BY <1>2 DEF PushContactList
  <2>2. NewFrame(List)'  BY DEF NewFrame, List
  <2>3. Grown(rows') /\ QuietReads /\ (page' # NoPage => page' = page)  BY <2>1, SameReads
  <2>4. QED BY <2>1, <2>2, <2>3, SentTicked
<1>3. CASE ReplayOne
  <2>1. PICK id : id = Head(greeting.of)  OBVIOUS
  <2>2. ToClient(Message(id)) /\ page' = page /\ msgs' = msgs  BY <1>3, <2>1 DEF ReplayOne
  <2>3. NewFrame(Message(id))'  BY DEF NewFrame, Message
  <2>4. id \in 1..Len(rows) /\ RowMarked(rows', id) /\ rows'[id].read = rows[id].read
    BY <1>3, <2>1, ReplayOneShape
  <2>5. Grown(rows') /\ QuietReads /\ (page' # NoPage => page' = page)  BY <2>2, <2>4, MarkedQuiet
  <2>6. QED BY <2>2, <2>3, <2>5, SentTicked
<1>4. CASE Relay
  <2>1. PICK id : id = relaying  OBVIOUS
  <2>2. /\ page' = page /\ msgs' = msgs
        /\ ToClient(Message(id)) \/ (inbox' = inbox /\ rows' = rows)
    BY <1>4, <2>1 DEF Relay, ToClient
  <2>3. Grown(rows') /\ QuietReads /\ (page' # NoPage => page' = page)
    <3>1. \/ rows' = rows
          \/ id \in 1..Len(rows) /\ RowMarked(rows', id) /\ rows'[id].read = rows[id].read
      BY <1>4, <2>1, RelayShape
    <3>2. QED BY <2>2, <3>1, SameReads, MarkedQuiet
  <2>4. NewFrame(Message(id))'  BY DEF NewFrame, Message
  <2>5. CASE ToClient(Message(id))  BY <2>2, <2>3, <2>4, <2>5, SentTicked
  <2>6. CASE inbox' = inbox
    <3>1. Covered(msgs) /\ SameFaces(msgs, msgs')  BY <2>2, MsgsCovered, SelfFaces
    <3>2. QED BY <2>3, <2>6, <3>1, QuietTicked
  <2>7. QED BY <2>2, <2>5, <2>6
<1>5. CASE SendPage
  <2>1. PICK f : f = page  OBVIOUS
  <2>2. ToClient(f) /\ f # NoPage /\ page' = NoPage /\ rows' = rows /\ msgs' = msgs
    BY <1>5, <2>1 DEF SendPage
  <2>3. f.type = "history_response"  BY <1>5, <2>1, SendPageShape, MakesServerFrame
  <2>4. NewFrame(f)'  BY <2>1, <2>2, <2>3 DEF NewFrame, TickInv, PageNews
  <2>5. Grown(rows') /\ QuietReads /\ (page' # NoPage => page' = page)  BY <2>2, SameReads
  <2>6. QED BY <2>2, <2>4, <2>5, SentTicked
<1>6. CASE SendAck
  <2>1. PICK f : f = MessageAck(rows[acking].cm, acking)  OBVIOUS
  <2>2. ToClient(f) /\ acking # 0 /\ rows' = rows /\ msgs' = msgs /\ page' = page
    BY <1>6, <2>1 DEF SendAck
  <2>3. f.type = "message_ack" /\ f.id = acking  BY <2>1 DEF MessageAck
  <2>4. rows'[f.id].mine /\ rows'[f.id].read => AckRead(f.id) \in lost'
    BY <2>2, <2>3 DEF StoredNews
  <2>5. NewFrame(f)'  BY <2>3, <2>4 DEF NewFrame
  <2>6. Grown(rows') /\ QuietReads /\ (page' # NoPage => page' = page)  BY <2>2, SameReads
  <2>7. QED BY <2>2, <2>5, <2>6, SentTicked
<1>7. QED BY <1>2, <1>3, <1>4, <1>5, <1>6

\* Steps that send nothing to the client.
LEMMA SilentTicked ==
  ASSUME ShapeInv, Books, TickInv, lost \subseteq lost',
         \/ Connect \/ LoadUndelivered \/ ServeReturns \/ ServerNotices \/ PeerSends
         \/ ServerMarksRead \/ HandlerFails \/ StoreMessage
  PROVE  TickInv'
<1>1. inbox' = inbox /\ (page' # NoPage => page' = page)
  BY DEF Connect, LoadUndelivered, ServeReturns, ServerNotices, PeerSends, ServerMarksRead,
         HandlerFails, StoreMessage, server
<1>2. SameFaces(msgs, msgs') /\ Covered(msgs)
  <2>1. CASE Connect  BY <2>1, ConnectShape, MsgsCovered
  <2>2. CASE ~Connect
    <3>1. msgs' = msgs
      BY <2>2 DEF LoadUndelivered, ServeReturns, ServerNotices, PeerSends, ServerMarksRead,
                  HandlerFails, StoreMessage
    <3>2. QED BY <3>1, SelfFaces, MsgsCovered
  <2>3. QED BY <2>1, <2>2
<1>3. Grown(rows') /\ QuietReads
  <2>1. CASE PeerSends \/ StoreMessage
    <3>1. Grown(rows') /\ \A j \in 1..Len(rows) : rows'[j] = rows[j]
      BY <2>1, PeerSendsShape, StoreMessageShape
    <3>2. QED BY <3>1 DEF QuietReads
  <2>2. CASE ServerMarksRead
    <3>1. PICK id : id = Head(outbox).id  OBVIOUS
    <3>2. id \in 1..Len(rows) /\ Head(outbox) = AckRead(id) /\ RowMarked(rows', id)
      BY <2>2, <3>1, ServerMarksReadShape
    <3>3. outbox[1] = AckRead(id) /\ 1 \in 1..Len(outbox)
      <4>1. Read("ack_read")  BY <2>2 DEF ServerMarksRead
      <4>2. QED BY <3>2, <4>1, ReadTakes
    <3>4. ~rows[id].mine  BY <3>3 DEF Books, WireBooks, AckRead
    <3>5. QED BY <3>2, <3>4, MarkedQuiet
  <2>3. CASE ~PeerSends /\ ~StoreMessage /\ ~ServerMarksRead
    <3>1. rows' = rows
      BY <2>3 DEF Connect, LoadUndelivered, ServeReturns, ServerNotices, HandlerFails, server
    <3>2. QED BY <3>1, SameReads
  <2>4. QED BY <2>1, <2>2, <2>3
<1>4. QED BY <1>1, <1>2, <1>3, QuietTicked

LEMMA LossTicked ==
  ASSUME ShapeInv, TickInv, LoseConnection
  PROVE  TickInv'
<1>1. rows' = rows /\ page' = page /\ msgs' = msgs  BY DEF LoseConnection, server
<1>2. /\ lost \subseteq lost'
      /\ \A k \in 1..Len(inbox') : k \in 1..Len(inbox) /\ inbox'[k] = inbox[k]
      /\ \A k \in 1..Len(inbox) : k \in 1..Len(inbox') \/ inbox[k] \in lost'
  BY LoseConnectionLoses
<1>3. PICK e \in {0, 1} : e = 0  OBVIOUS
<1>4. \A k \in Int : k + e = k /\ k - e = k  BY <1>3
<1>5. AcksKept(e) /\ (e = 1 => inbox[1].type # "ack_read")  BY <1>2, <1>3, <1>4 DEF AcksKept
<1>6. \A f : \A k \in 1..Len(inbox') : f = inbox'[k] =>
        (k + e \in 1..Len(inbox) /\ f = inbox[k + e]) \/ NewFrame(f)'
  BY <1>2, <1>4
<1>7. Covered(msgs) /\ SameFaces(msgs, msgs')  BY <1>1, MsgsCovered, SelfFaces
<1>8. Grown(rows') /\ QuietReads /\ (page' # NoPage => page' = page)  BY <1>1, SameReads
<1>9. QED BY <1>2, <1>5, <1>6, <1>7, <1>8, TickStays

LEMMA StepTicks ==
  ASSUME ShapeInv, WaitInv, Books, TickInv, StoredNews, [Next]_vars
  PROVE  TickInv'
<1>1. lost \subseteq lost'  BY StepWaits
<1>2. CASE UNCHANGED vars
  <2>1. rows' = rows /\ page' = page /\ inbox' = inbox /\ msgs' = msgs /\ lost' = lost
    BY <1>2, Stutter
  <2>2. QED BY <2>1 DEF TickInv, MsgsNews, PageNews, WireNews, FrameNews, News, Told
<1>3. CASE Next
  <2>1. CASE Open \/ Leave \/ LoadMore \/ Type  BY <2>1, UserTicked
  <2>2. CASE ClientStep  BY <2>2, HandlersTicked
  <2>3. CASE PushContactList \/ ReplayOne \/ Relay \/ SendPage \/ SendAck
    BY <1>1, <2>3, RelaysTicked
  <2>4. CASE \/ Connect \/ LoadUndelivered \/ ServeReturns \/ ServerNotices \/ PeerSends
             \/ ServerMarksRead \/ HandlerFails \/ StoreMessage
    BY <1>1, <2>4, SilentTicked
  <2>5. CASE HandleHistoryRequest  BY <2>5, PageReadTicked
  <2>7. CASE LoseConnection  BY <2>7, LossTicked
  <2>8. CASE \E id \in DOMAIN rows : PeerReads(id)  BY <2>8, PeerReadsTicked
  <2>9. QED BY <1>3, <2>1, <2>2, <2>3, <2>4, <2>5, <2>7, <2>8 DEF Next, ServerStep
<1>4. QED BY <1>2, <1>3

\* The peer can read a message before it is acknowledged.
LEMMA StepStored ==
  ASSUME ShapeInv, Books, StoredNews, lost \subseteq lost', [Next]_vars
  PROVE  StoredNews'
<1>1. CASE StoreMessage
  <2>1. rows'[acking'] = [mine |-> TRUE, cm |-> Head(outbox).cm, delivered |-> FALSE, read |-> FALSE]
    BY <1>1, StoreMessageShape DEF StoreMessage
  <2>2. QED BY <2>1 DEF StoredNews
<1>2. CASE SendAck  BY <1>2 DEF SendAck, StoredNews
<1>3. CASE acking' = acking /\ acking # 0 /\ rows'[acking].mine /\ rows'[acking].read
  <2>1. acking \in 1..Len(rows) /\ Grown(rows')
    BY <1>3, StepGrows, ShapeGives DEF ServerShape, ShapeInv, Known
  <2>2. rows[acking].mine  BY <1>3, <2>1 DEF Grown
  <2>3. CASE rows[acking].read  BY <1>3, <2>2, <2>3 DEF StoredNews
  <2>4. CASE rows'[acking] = rows[acking]  BY <1>3, <2>3, <2>4
  <2>5. CASE ServerMarksRead
    <3>1. PICK id : id = Head(outbox).id  OBVIOUS
    <3>2. id \in 1..Len(rows) /\ Head(outbox) = AckRead(id) /\ RowMarked(rows', id)
      BY <2>5, <3>1, ServerMarksReadShape
    <3>3. outbox[1] = AckRead(id) /\ 1 \in 1..Len(outbox)  BY <2>5, <3>2, ReadTakes DEF ServerMarksRead
    <3>4. id # acking  BY <2>2, <3>3 DEF Books, WireBooks, AckRead
    <3>5. QED BY <2>1, <2>4, <3>2, <3>4 DEF RowMarked
  <2>6. CASE ReplayOne \/ Relay
    <3>1. rows'[acking] = rows[acking] \/ rows'[acking].read = rows[acking].read
      BY <2>1, <2>6, ReplayOneShape, RelayShape DEF RowMarked
    <3>2. QED BY <1>3, <2>3, <2>4, <3>1
  <2>7. ASSUME NEW id \in DOMAIN rows, PeerReads(id) PROVE StoredNews'
    <3>1. RowMarked(rows', id)  BY <2>7, PeerReadsShape
    <3>2. CASE id = acking  BY <1>3, <2>7, <3>2 DEF PeerReads, StoredNews
    <3>3. QED BY <2>1, <2>4, <3>1, <3>2 DEF RowMarked
  <2>8. CASE PeerSends  BY <2>1, <2>4, <2>8, PeerSendsShape
  <2>9. QED BY <1>1, <2>1, <2>4, <2>5, <2>6, <2>7, <2>8, Leaves
<1>4. QED BY <1>1, <1>2, <1>3, Leaves DEF StoredNews

LEMMA InitTicks ==
  ASSUME Init
  PROVE  TickInv /\ StoredNews
<1>1. msgs = <<>> /\ inbox = <<>> /\ page = NoPage /\ acking = 0  BY DEF Init
<1>2. Len(msgs) = 0 /\ Len(inbox) = 0  BY <1>1
<1>3. QED BY <1>1, <1>2 DEF TickInv, MsgsNews, PageNews, WireNews, StoredNews

\* The tick of a message the peer has read is shown, or its ack_read is in the
\* inbox, or it was lost, or the hub had it overtake the page or the message_ack that
\* names the entry (markTick, handleMessageAck, mergeInitialHistory against the
\* steps of handleMessage, handleHistoryRequest and handleAckRead).
THEOREM TicksUnderway == ChatSpec => []TickIsRight
<1> DEFINE Ticked == ShapeInv /\ WaitInv /\ Numbers /\ TickInv /\ StoredNews
<1>1. Init => Ticked  BY InitShape, InitQuiet, InitBooks, InitTicks
<1>2. Ticked /\ [Next]_vars => Ticked'
  BY StepShape, StepWaits, StepBooks, StepTicks, StepStored DEF Numbers
<1>3. Ticked => TickIsRight
  <2>1. SUFFICES ASSUME ShapeInv, Books, TickInv, NEW i \in DOMAIN msgs, NEW id, id = msgs[i].id,
                        msgs[i].mine, id # 0, rows[id].read,
                        \A j \in 1..(i - 1) : msgs[j].id # id
                 PROVE  msgs[i].tick \/ AckRead(id) \in lost \/ \E k \in DOMAIN inbox : inbox[k] = AckRead(id)
    BY DEF TickIsRight, Numbers
  <2>2. CASE ~msgs[i].tick
    <3>1. i \in 1..Len(msgs) /\ inbox \in Seq(ServerFrame)  BY <2>1, ShapeGives DEF MsgsOK
    <3>2. Owed(msgs, i)  BY <2>1, <2>2 DEF Owed
    <3>3. News(id, 0)  BY <2>1, <3>1, <3>2 DEF TickInv, MsgsNews
    <3>4. rows[id].mine  BY <2>1, <3>1 DEF Books, MsgsBooked
    <3>5. QED BY <2>1, <3>1, <3>3, <3>4 DEF News, Told
  <2>3. QED BY <2>1, <2>2
<1>4. QED BY <1>1, <1>2, <1>3, PTL DEF ChatSpec

-----------------------------------------------------------------------------
(* The order of the entries: no message is shown twice.                    *)

LEMMA FacesGrow ==
  ASSUME NEW ms, NEW ns, SameFaces(ms, ns), Len(ms) \in Nat, Len(msgs) \in Nat, MsgsGrow(ms)
  PROVE  MsgsGrow(ns)
<1>1. /\ Len(ns) = Len(ms)
      /\ \A i \in 1..Len(ms) : ns[i].id = ms[i].id /\ ns[i].cm = ms[i].cm /\ ns[i].at = ms[i].at
  BY DEF SameFaces
<1>2. \A i \in 1..Len(msgs) : i \in 1..Len(ms)  BY DEF MsgsGrow
<1>3. /\ Len(ns) = Len(msgs) \/ Len(ns) = Len(msgs) + 1
      /\ \A i \in 1..Len(msgs) : /\ ns[i].at = msgs[i].at /\ ns[i].cm = msgs[i].cm
                                 /\ msgs[i].id # 0 => ns[i].id = msgs[i].id
                                 /\ msgs[i].id # ns[i].id => msgs[i].cm # 0
  BY <1>1, <1>2 DEF MsgsGrow
<1>4. \A i \in 1..Len(ns) : \/ i \in 1..Len(msgs) /\ ns[i].id = msgs[i].id
                            \/ \A j \in 1..Len(ns) : ns[j].id = ns[i].id /\ ns[j].id # 0 => j = i
  BY <1>1 DEF MsgsGrow
<1>5. Len(ns) = Len(msgs) + 1 /\ ns[Len(ns)].cm # 0 => ns[Len(ns)].at = 2 * Len(rows) + 1
  <2>1. SUFFICES ASSUME Len(ns) = Len(msgs) + 1, ns[Len(ns)].cm # 0
                 PROVE  ns[Len(ns)].at = 2 * Len(rows) + 1
    OBVIOUS
  <2>2. Len(ns) \in 1..Len(ms)  BY <1>1, <2>1
  <2>3. ns[Len(ns)].cm = ms[Len(ms)].cm /\ ns[Len(ns)].at = ms[Len(ms)].at  BY <1>1, <2>2
  <2>4. QED BY <1>1, <2>1, <2>3 DEF MsgsGrow
<1>6. QED BY <1>3, <1>4, <1>5 DEF MsgsGrow

LEMMA SelfGrow ==
  MsgsGrow(msgs)
BY DEF MsgsGrow

LEMMA AppendGrow ==
  ASSUME ShapeInv, NEW e \in EntryT, \A i \in 1..Len(msgs) : msgs[i].id = e.id => e.id = 0,
         e.cm # 0 => e.at = 2 * Len(rows) + 1
  PROVE  MsgsGrow(Append(msgs, e))
<1>1. PICK ns : ns = Append(msgs, e)  OBVIOUS
<1>2. msgs \in Seq(EntryT)  BY ShapeGives DEF MsgsOK
<1>3. /\ Len(ns) = Len(msgs) + 1 /\ ns[Len(msgs) + 1] = e /\ Len(msgs) \in Nat
      /\ \A i \in 1..Len(msgs) : ns[i] = msgs[i]
  BY <1>1, <1>2, AppendIs
<1>4. \A i \in 1..Len(ns) : \/ i \in 1..Len(msgs) /\ ns[i] = msgs[i]
                            \/ i = Len(msgs) + 1 /\ ns[i] = e
  BY <1>3
<1>5. \A i \in 1..Len(ns) : \/ i \in 1..Len(msgs) /\ ns[i].id = msgs[i].id
                            \/ \A j \in 1..Len(ns) : ns[j].id = ns[i].id /\ ns[j].id # 0 => j = i
  BY <1>4
<1>6. QED BY <1>1, <1>3, <1>5 DEF MsgsGrow

LEMMA AckedGrow ==
  ASSUME ShapeInv, Books, AckFresh, NEW f, 1 \in 1..Len(inbox), f = inbox[1], f.type = "message_ack"
  PROVE  MsgsGrow(AckedIn(msgs, f))
<1>1. PICK ms : ms = AckedIn(msgs, f)  OBVIOUS
<1>2. f \in ServerFrame /\ Within(f, Len(rows)) /\ Len(rows) \in Nat  BY ShapeGives
<1>3. f.id \in Id /\ f.id <= Len(rows) /\ f.cm # 0  BY <1>2, ServerFrameIs, BooksNumbers DEF Within
<1>4. Fresh(msgs, f.cm) /\ \A i \in 1..Len(msgs) : msgs[i].id # f.id
  BY DEF Books, WireBooks, AckFresh
<1>5. /\ Len(ms) = Len(msgs)
      /\ \A i \in 1..Len(msgs) :
           /\ ms[i].cm = msgs[i].cm /\ ms[i].at = msgs[i].at
           /\ \/ msgs[i].mine /\ msgs[i].cm = f.cm /\ ms[i].id = f.id
              \/ ~(msgs[i].mine /\ msgs[i].cm = f.cm) /\ ms[i] = msgs[i]
  BY <1>1, <1>3, ShapeGives, AckedOK
<1>6. \A i \in 1..Len(msgs) : /\ msgs[i].id # 0 => ms[i].id = msgs[i].id
                              /\ msgs[i].id # ms[i].id => msgs[i].cm # 0
  BY <1>3, <1>4, <1>5 DEF Fresh
<1>7. \A i \in 1..Len(ms) : \/ i \in 1..Len(msgs) /\ ms[i].id = msgs[i].id
                            \/ \A j \in 1..Len(ms) : ms[j].id = ms[i].id /\ ms[j].id # 0 => j = i
  <2>1. SUFFICES ASSUME NEW i \in 1..Len(msgs), ms[i].id # msgs[i].id,
                        NEW j \in 1..Len(msgs), ms[j].id = ms[i].id
                 PROVE  j = i
    BY <1>5
  <2>2. msgs[i].cm = f.cm /\ ms[i].id = f.id  BY <1>5, <2>1
  <2>3. ms[j].id # msgs[j].id  BY <1>4, <2>1, <2>2
  <2>4. msgs[j].cm = f.cm  BY <1>5, <2>3
  <2>5. QED BY <1>3, <2>2, <2>4 DEF Books, MsgsBooked
<1>8. Len(msgs) # Len(msgs) + 1  BY ShapeGives DEF MsgsOK
<1>9. QED BY <1>1, <1>5, <1>6, <1>7, <1>8 DEF MsgsGrow

LEMMA TickedGrow ==
  ASSUME ShapeInv, NEW id
  PROVE  MsgsGrow(MarkTick(msgs, id))
<1>1. PICK ms : ms = MarkTick(msgs, id)  OBVIOUS
<1>2. /\ Len(ms) = Len(msgs)
      /\ \A i \in 1..Len(msgs) : /\ ms[i].cm = msgs[i].cm /\ ms[i].at = msgs[i].at
                                 /\ ms[i].id = msgs[i].id
  BY <1>1, ShapeGives, TickedOK
<1>3. Len(msgs) # Len(msgs) + 1  BY ShapeGives DEF MsgsOK
<1>4. QED BY <1>1, <1>2, <1>3 DEF MsgsGrow

\* Every step but a page's arrival.
LEMMA StepGrow ==
  ASSUME ShapeInv, Books, AckFresh, [Next]_vars
  PROVE  MsgsGrow(msgs') \/ HandleHistoryResponse
<1>1. Len(msgs) \in Nat  BY ShapeGives DEF MsgsOK
<1>2. CASE Open \/ Connect
  <2>1. SameFaces(msgs, msgs')  BY <1>2, OpenShape, ConnectShape
  <2>2. QED BY <1>1, <2>1, SelfGrow, FacesGrow
<1>3. CASE Type
  <2>1. msgs' = Append(msgs, Typed) /\ Typed \in EntryT /\ Typed.id = 0 /\ Typed.at = 2 * Len(rows) + 1
    BY <1>3, TypeShape DEF Type, Typed
  <2>2. QED BY <2>1, AppendGrow
<1>4. CASE HandleMessage
  <2>1. PICK e : e = Arrived(Head(inbox).id)  OBVIOUS
  <2>2. PICK ms : ms = AppendMessage(msgs, e)  OBVIOUS
  <2>3. /\ e \in EntryT /\ MsgsOK(ms, Len(rows)) /\ \E c : ShowTo(c, ms)
    BY <1>4, <2>1, <2>2, HandleMessageShape
  <2>4. SameFaces(ms, msgs') /\ Len(ms) \in Nat  BY <2>3, ShapeGives, ShowToIs DEF MsgsOK
  <2>5. e.cm = 0  BY <2>1 DEF Arrived
  <2>6. MsgsGrow(ms)
    <3>1. CASE \E i \in DOMAIN msgs : msgs[i].id = e.id  BY <2>2, <3>1, SelfGrow DEF AppendMessage
    <3>2. CASE ~\E i \in DOMAIN msgs : msgs[i].id = e.id
      <4>1. ms = Append(msgs, e) /\ \A i \in 1..Len(msgs) : msgs[i].id # e.id
        BY <2>2, <3>2, ShapeGives DEF AppendMessage, MsgsOK
      <4>2. QED BY <2>3, <2>5, <4>1, AppendGrow
    <3>3. QED BY <3>1, <3>2
  <2>7. QED BY <1>1, <2>4, <2>6, FacesGrow
<1>5. CASE HandleMessageAck
  <2>1. PICK f : f = Head(inbox)  OBVIOUS
  <2>2. Receive("message_ack") /\ msgs' = AckedIn(msgs, f)  BY <1>5, <2>1, HandleMessageAckShape
  <2>3. f = inbox[1] /\ f.type = "message_ack" /\ 1 \in 1..Len(inbox)  BY <2>1, <2>2, TakenAcks
  <2>4. QED BY <2>2, <2>3, AckedGrow
<1>6. CASE HandleAckRead  BY <1>6, HandleAckReadShape, TickedGrow
<1>7. ASSUME msgs' = msgs
      PROVE  MsgsGrow(msgs')
  BY <1>7, SelfGrow
<1>8. QED BY <1>2, <1>3, <1>4, <1>5, <1>6, <1>7, Leaves

LEMMA OldAt ==
  ASSUME ShapeInv, ShapeInv', Books', Grown(rows'), AtBooks, MsgsGrow(msgs'), NEW i \in 1..Len(msgs)
  PROVE  \A e : e = msgs'[i] => EntryAt(e)'
<1>1. /\ Len(rows) \in Nat /\ Len(rows') \in Nat /\ Len(rows) <= Len(rows')
      /\ Len(msgs) \in Nat /\ i \in 1..Len(msgs')
  BY ShapeGives DEF MsgsOK, Grown, MsgsGrow
<1>2. msgs[i] \in EntryT /\ msgs'[i] \in EntryT /\ msgs'[i].id <= Len(rows')
  BY <1>1, ShapeGives DEF MsgsOK, ShapeInv, ChatShape, ClientShape, Known
<1>3. PICK old \in EntryT : old = msgs[i]  BY <1>2
<1>4. TAKE e
<1>5. SUFFICES ASSUME e = msgs'[i] PROVE EntryAt(e)'  OBVIOUS
<1>6. e \in EntryT /\ e.at \in Nat /\ e.id \in Nat /\ e.id <= Len(rows')  BY <1>2, <1>5 DEF EntryT
<1>7. EntryAt(old) /\ e.at = old.at /\ e.cm = old.cm /\ (old.id # e.id => e.cm # 0)
  BY <1>3, <1>5 DEF AtBooks, MsgsGrow
<1>8. 1 <= e.at /\ e.at <= 2 * Len(rows) + 1 /\ e.at <= 2 * Len(rows') + 1
  BY <1>1, <1>6, <1>7 DEF EntryAt
<1>9. ASSUME e.cm # 0, NEW n \in 1..Len(rows'), rows'[n].cm = e.cm
      PROVE  e.at < 2 * n
  <2>1. CASE n \in 1..Len(rows)  BY <1>7, <1>9, <2>1 DEF EntryAt, Grown
  <2>2. CASE n > Len(rows)  BY <1>1, <1>6, <1>8, <2>2
  <2>3. QED BY <1>1, <2>1, <2>2
<1>10. ASSUME e.id # 0
       PROVE  e.at <= 2 * e.id
  <2>1. CASE old.id = e.id  BY <1>7, <1>10, <2>1 DEF EntryAt
  <2>2. CASE old.id # e.id
    <3>1. rows'[e.id].cm = e.cm /\ e.cm # 0 /\ e.id \in 1..Len(rows')
      BY <1>1, <1>5, <1>6, <1>7, <1>10, <2>2 DEF Books, MsgsBooked
    <3>2. e.at < 2 * e.id  BY <1>9, <3>1
    <3>3. QED BY <1>6, <3>2
  <2>3. QED BY <2>1, <2>2
<1>11. QED BY <1>8, <1>9, <1>10 DEF EntryAt

LEMMA AtGrows ==
  ASSUME ShapeInv, ShapeInv', Books', Grown(rows'), AtBooks, MsgsGrow(msgs'), RowsCm',
         Len(msgs') = Len(msgs) + 1 => \A e : e = msgs'[Len(msgs) + 1] => EntryAt(e)'
  PROVE  AtBooks'
<1>1. Len(msgs) \in Nat  BY ShapeGives DEF MsgsOK
<1>2. SUFFICES ASSUME NEW i \in 1..Len(msgs'), NEW e, e = msgs'[i]
               PROVE  EntryAt(e)'
  BY DEF AtBooks
<1>3. CASE i \in 1..Len(msgs)  BY <1>2, <1>3, OldAt
<1>4. CASE i \notin 1..Len(msgs)
  <2>1. i = Len(msgs) + 1 /\ Len(msgs') = Len(msgs) + 1  BY <1>1, <1>4 DEF MsgsGrow
  <2>2. QED BY <1>2, <2>1
<1>5. QED BY <1>3, <1>4

\* Only a send adds a row.
LEMMA LenStays ==
  ASSUME ShapeInv, [Next]_vars
  PROVE  Len(rows') = Len(rows) \/ StoreMessage \/ PeerSends
BY Leaves, ReplayOneShape, RelayShape, ServerMarksReadShape, PeerReadsShape DEF RowMarked

\* Rows are added by handleMessage only.
LEMMA RowsKept ==
  ASSUME ShapeInv, RowsCm, Books, [Next]_vars
  PROVE  RowsCm' /\ (Len(rows') = Len(rows) \/ StoreMessage \/ PeerSends)
<1>1. Grown(rows') /\ Len(rows) \in Nat /\ sends \in Nat  BY StepGrows, ShapeGives, ChatAssumption
<1>2. \A i \in 1..Len(rows) : rows[i].cm \in Nat
  <2>1. TAKE i \in 1..Len(rows)
  <2>2. rows[i] \in RowT  BY ShapeGives
  <2>3. QED BY <2>2 DEF RowT
<1>3. CASE StoreMessage
  <2>1. /\ Len(rows') = Len(rows) + 1 /\ \A j \in 1..Len(rows) : rows'[j] = rows[j]
        /\ rows'[Len(rows) + 1] = [mine |-> TRUE, cm |-> Head(outbox).cm,
                                   delivered |-> FALSE, read |-> FALSE]
    BY <1>3, StoreMessageShape
  <2>2. sends' = sends /\ Read("message")  BY <1>3 DEF StoreMessage
  <2>3. rows'[Len(rows) + 1].cm = outbox[1].cm /\ outbox[1].type = "message" /\ 1 \in 1..Len(outbox)
    BY <2>1, <2>2, ReadTakes
  <2>4. outbox[1].cm > sends  BY <2>3, BooksNumbers
  <2>5. \A i \in 1..Len(rows') : i \in 1..Len(rows) \/ i = Len(rows) + 1  BY <1>1, <2>1
  <2>6. QED BY <1>3, <2>1, <2>2, <2>3, <2>4, <2>5 DEF RowsCm
<1>4. CASE PeerSends
  <2>1. /\ Len(rows') = Len(rows) + 1 /\ \A j \in 1..Len(rows) : rows'[j] = rows[j]
        /\ rows'[Len(rows) + 1] = [mine |-> FALSE, cm |-> 0, delivered |-> FALSE, read |-> FALSE]
    BY <1>4, PeerSendsShape
  <2>2. sends > 0 /\ sends' = sends - 1  BY <1>4 DEF PeerSends
  <2>3. rows'[Len(rows) + 1].cm = 0  BY <2>1
  <2>4. \A i \in 1..Len(rows') : i \in 1..Len(rows) \/ i = Len(rows) + 1  BY <1>1, <2>1
  <2>5. \A i \in 1..Len(rows) : rows[i].cm # 0 => rows[i].cm > sends'
    BY <1>1, <1>2, <2>2 DEF RowsCm
  <2>6. QED BY <1>4, <2>1, <2>3, <2>4, <2>5 DEF RowsCm
<1>5. ASSUME Len(rows') = Len(rows), sends' = sends \/ (sends > 0 /\ sends' = sends - 1)
      PROVE  RowsCm'
  BY <1>1, <1>2, <1>5 DEF RowsCm, Grown
<1>6. CASE ~StoreMessage /\ ~PeerSends
  <2>1. Len(rows') = Len(rows)  BY <1>6, LenStays
  <2>2. sends' = sends \/ (sends > 0 /\ sends' = sends - 1)  BY Leaves DEF Type, PeerSends
  <2>3. QED BY <1>5, <2>1, <2>2
<1>7. QED BY <1>3, <1>4, <1>6

LEMMA PageAt ==
  ASSUME ShapeInv, NEW p \in Seq(Item), \A i \in 1..Len(p) : p[i].id <= Len(rows),
         NEW j \in 1..Len(Entries(p))
  PROVE  EntryAt(Entries(p)[j])
<1>1. PICK e : e = Entries(p)[j]  OBVIOUS
<1>2. Len(rows) \in Nat /\ Len(Entries(p)) = Len(p)  BY ShapeGives, EntriesAre
<1>3. e.cm = 0 /\ e.id \in Id /\ e.at = 2 * e.id /\ e.id <= Len(rows)
  <2>1. /\ rows \in Seq(RowT) /\ p \in Seq(Item) /\ \A i \in 1..Len(p) : p[i].id <= Len(rows)
        /\ j \in 1..Len(p)
    BY <1>2, ShapeGives
  <2>2. PICK k \in 1..Len(p) : /\ Entries(p)[j].id = p[k].id /\ Entries(p)[j].id \in Id
                              /\ Entries(p)[j].cm = 0 /\ Entries(p)[j].at = 2 * p[k].id
    BY ONLY <2>1, EntriesAre
  <2>3. QED BY ONLY <1>1, <2>1, <2>2
<1>4. QED BY <1>1, <1>2, <1>3 DEF EntryAt, Id

\* Only a typed message and one that arrives add an entry.
LEMMA NewEntry ==
  ASSUME ShapeInv, [Next]_vars, ~Type, ~HandleHistoryResponse, Len(msgs') = Len(msgs) + 1
  PROVE  HandleMessage
<1>1. Len(msgs) \in Nat  BY ShapeGives DEF MsgsOK
<1>2. CASE Open \/ Connect  BY <1>1, <1>2, OpenShape, ConnectShape DEF SameFaces
<1>3. CASE HandleMessageAck
  <2>1. PICK f : f = Head(inbox)  OBVIOUS
  <2>2. f.id \in Id /\ f.id <= Len(rows) /\ msgs' = AckedIn(msgs, f)
    BY <1>3, <2>1, HandleMessageAckShape
  <2>3. Len(msgs') = Len(msgs)  BY <2>2, ShapeGives, AckedOK
  <2>4. QED BY <1>1, <2>3
<1>4. CASE HandleAckRead
  <2>1. Len(msgs') = Len(msgs)  BY <1>4, HandleAckReadShape, ShapeGives, TickedOK
  <2>2. QED BY <1>1, <2>1
<1>5. QED BY <1>1, <1>2, <1>3, <1>4, Leaves

LEMMA MessageAdds ==
  ASSUME ShapeInv, HandleMessage, Len(msgs') = Len(msgs) + 1
  PROVE  \E id \in 1..Len(rows), e \in EntryT :
           /\ e = msgs'[Len(msgs) + 1] /\ e.id = id /\ e.cm = 0 /\ e.at = 2 * id
           /\ id = Head(inbox).id /\ \A i \in 1..Len(msgs) : msgs[i].id # id
<1>1. PICK e : e = Arrived(Head(inbox).id)  OBVIOUS
<1>2. PICK ms : ms = AppendMessage(msgs, e)  OBVIOUS
<1>3. /\ e \in EntryT /\ MsgsOK(ms, Len(rows)) /\ \E c : ShowTo(c, ms)
      /\ Head(inbox).id \in Id /\ Head(inbox).id <= Len(rows) /\ ShapeInv'
  BY <1>1, <1>2, HandleMessageShape
<1>4. SameFaces(ms, msgs') /\ Len(msgs) \in Nat /\ msgs \in Seq(EntryT)
  BY <1>3, ShapeGives, ShowToIs DEF MsgsOK
<1>5. Len(ms) = Len(msgs) + 1  BY <1>4 DEF SameFaces
<1>6. ~\E i \in DOMAIN msgs : msgs[i].id = e.id  BY <1>2, <1>4, <1>5 DEF AppendMessage
<1>7. ms = Append(msgs, e) /\ \A i \in 1..Len(msgs) : msgs[i].id # e.id
  BY <1>2, <1>4, <1>6 DEF AppendMessage
<1>8. ms[Len(msgs) + 1] = e  BY <1>3, <1>4, <1>7, AppendIs
<1>9. PICK n : n = msgs'[Len(msgs) + 1]  OBVIOUS
<1>10. Len(msgs) + 1 \in 1..Len(ms) /\ Len(msgs) + 1 \in 1..Len(msgs')  BY <1>4, <1>5
<1>11. n.id = e.id /\ n.cm = e.cm /\ n.at = e.at  BY <1>4, <1>8, <1>9, <1>10 DEF SameFaces
<1>12. n \in EntryT
  <2>1. msgs' \in Seq(EntryT)  BY <1>3 DEF ShapeInv, ChatShape, ClientShape
  <2>2. QED BY <1>9, <1>10, <2>1, ElementOfSeq
<1>13. PICK id : id = Head(inbox).id  OBVIOUS
<1>14. e.id = id /\ e.cm = 0 /\ e.at = 2 * id  BY <1>1, <1>13 DEF Arrived
<1>15. id \in 1..Len(rows)  BY <1>3, <1>13, ShapeGives DEF Id
<1>16. QED BY <1>7, <1>9, <1>11, <1>12, <1>13, <1>14, <1>15

LEMMA StepAt ==
  ASSUME ShapeInv, ShapeInv', Books, Books', AckFresh, AtBooks, [Next]_vars
  PROVE  AtBooks'
<1>1. Grown(rows') /\ Len(rows) \in Nat /\ RowsCm' /\ Len(msgs) \in Nat
  BY StepGrows, ShapeGives, RowsKept DEF AtBooks, MsgsOK
<1>2. CASE HandleHistoryResponse
  <2>1. rows' = rows  BY <1>2 DEF HandleHistoryResponse, server
  <2>2. PICK p : p = Head(inbox).messages  OBVIOUS
  <2>3. PICK c : c = Loaded(contact, p)  OBVIOUS
  <2>4. /\ p \in Seq(Item) /\ \A i \in 1..Len(p) : p[i].id <= Len(rows)
        /\ MsgsOK(Entries(p), Len(rows))
        /\ \/ msgs' = msgs
           \/ \E shown \in Results(p) : MsgsOK(shown, Len(rows)) /\ ShowTo(c, shown)
    BY <1>2, <2>2, <2>3, HandleHistoryResponseShape
  <2>5. \E ms : SameFaces(ms, msgs') /\ \A i \in 1..Len(ms) : EntryAt(ms[i])
    <3>1. CASE msgs' = msgs  BY <3>1, SelfFaces DEF AtBooks
    <3>2. ASSUME NEW shown \in Results(p), MsgsOK(shown, Len(rows)), ShowTo(c, shown)
          PROVE  SameFaces(shown, msgs') /\ \A i \in 1..Len(shown) : EntryAt(shown[i])
      <4>1. SameFaces(shown, msgs')  BY <3>2, ShapeGives, ShowToIs
      <4>2. \A i \in 1..Len(shown) : \/ \E j \in 1..Len(msgs) : shown[i] = msgs[j]
                                     \/ \E j \in 1..Len(Entries(p)) : shown[i] = Entries(p)[j]
        BY <2>4, ShapeGives, ResultFrom
      <4>3. \A j \in 1..Len(Entries(p)) : EntryAt(Entries(p)[j])  BY <2>4, PageAt
      <4>4. QED BY <4>1, <4>2, <4>3 DEF AtBooks
    <3>3. QED BY <2>4, <3>1, <3>2
  <2>6. PICK ms : SameFaces(ms, msgs') /\ \A i \in 1..Len(ms) : EntryAt(ms[i])  BY <2>5
  <2>7. \A i \in 1..Len(msgs') : /\ i \in 1..Len(ms) /\ msgs'[i].id = ms[i].id
                                 /\ msgs'[i].cm = ms[i].cm /\ msgs'[i].at = ms[i].at
    BY <2>6 DEF SameFaces
  <2>8. QED BY <1>1, <2>1, <2>6, <2>7 DEF AtBooks, EntryAt
<1>3. CASE Type
  <2>1. /\ Len(msgs') = Len(msgs) + 1 /\ msgs'[Len(msgs) + 1] = Typed  BY <1>3, TypeShape
  <2>2. rows' = rows /\ sends > 0 /\ sends \in Nat
    BY <1>3, ShapeGives, ChatAssumption DEF Type, server
  <2>3. Typed.id = 0 /\ Typed.at = 2 * Len(rows) + 1 /\ Typed.cm = sends  BY DEF Typed
  <2>4. \A i \in 1..Len(rows) : rows[i].cm # sends  BY <2>2 DEF AtBooks, RowsCm
  <2>5. ASSUME NEW e, e = msgs'[Len(msgs) + 1]
        PROVE  EntryAt(e)'
    <3>1. e.id = 0 /\ e.at = 2 * Len(rows) + 1 /\ e.cm = sends  BY <2>1, <2>3, <2>5
    <3>2. QED BY <1>1, <2>2, <2>4, <3>1 DEF EntryAt
  <2>6. MsgsGrow(msgs')
    <3>1. msgs' = Append(msgs, Typed) /\ Typed \in EntryT  BY <1>3, TypeShape DEF Type, Typed
    <3>2. QED BY <2>3, <3>1, AppendGrow
  <2>7. QED BY <1>1, <2>5, <2>6, AtGrows
<1>4. CASE MsgsGrow(msgs') /\ ~Type /\ ~HandleHistoryResponse
  <2>1. ASSUME Len(msgs') = Len(msgs) + 1
        PROVE  \A e : e = msgs'[Len(msgs) + 1] => EntryAt(e)'
    <3>2. CASE HandleMessage
      <4>1. PICK id \in 1..Len(rows), n \in EntryT :
              n = msgs'[Len(msgs) + 1] /\ n.id = id /\ n.cm = 0 /\ n.at = 2 * id
        BY <2>1, <3>2, MessageAdds
      <4>2. Len(rows) <= Len(rows') /\ Len(rows') \in Nat  BY <1>1 DEF Grown
      <4>3. QED BY <1>1, <4>1, <4>2 DEF EntryAt
    <3>3. QED BY <1>4, <2>1, <3>2, NewEntry
  <2>2. QED BY <1>1, <1>4, <2>1, AtGrows
<1>5. QED BY <1>2, <1>3, <1>4, StepGrow

-----------------------------------------------------------------------------
(* The id of an acknowledgement is new.                                    *)

\* Up to e frames are taken from the front and others put behind, none of them
\* an acknowledgement.
LEMMA FreshStays ==
  ASSUME ShapeInv, AckFresh, NEW e \in {0, 1}, Len(inbox') \in Nat,
         \A f : \A k \in 1..Len(inbox') : f = inbox'[k] =>
           \/ k + e \in 1..Len(inbox) /\ f = inbox[k + e]
           \/ k + e > Len(inbox) /\ f.type # "message_ack",
         \A k \in 1..Len(inbox) : k > e /\ inbox[k].type = "message_ack" =>
           \A i \in 1..Len(msgs') : msgs'[i].id # inbox[k].id
  PROVE  AckFresh'
<1>1. Len(inbox) \in Nat  BY ShapeGives
<1>2. SUFFICES ASSUME NEW k \in 1..Len(inbox'), inbox'[k].type = "message_ack"
               PROVE  /\ \A i \in 1..Len(msgs') : msgs'[i].id # inbox'[k].id
                      /\ \A l \in 1..(k - 1) : inbox'[l].type = "history_response" =>
                           \A i \in 1..Len(inbox'[l].messages) :
                             inbox'[l].messages[i].id # inbox'[k].id
  BY DEF AckFresh
<1>3. k + e \in 1..Len(inbox) /\ inbox'[k] = inbox[k + e] /\ k + e > e  BY <1>2
<1>4. \A i \in 1..Len(msgs') : msgs'[i].id # inbox'[k].id  BY <1>2, <1>3
<1>5. ASSUME NEW l \in 1..(k - 1), inbox'[l].type = "history_response"
      PROVE  \A i \in 1..Len(inbox'[l].messages) : inbox'[l].messages[i].id # inbox'[k].id
  <2>1. l \in 1..Len(inbox') /\ l + e <= Len(inbox) /\ l + e \in 1..(k + e - 1)  BY <1>1, <1>3
  <2>2. inbox'[l] = inbox[l + e]  BY <1>1, <2>1
  <2>3. PICK n \in 1..Len(inbox) : n = k + e  BY <1>3
  <2>4. PICK o \in 1..(n - 1) : o = l + e  BY <2>1, <2>3
  <2>5. inbox[n].type = "message_ack" /\ inbox[o].type = "history_response"
    BY <1>2, <1>3, <1>5, <2>2, <2>3, <2>4
  <2>6. \A i \in 1..Len(inbox[o].messages) : inbox[o].messages[i].id # inbox[n].id
    BY <2>5 DEF AckFresh
  <2>7. QED BY <1>3, <2>2, <2>3, <2>4, <2>6
<1>6. QED BY <1>4, <1>5

LEMMA FacesFresh ==
  ASSUME NEW ms, NEW ns, SameFaces(ms, ns), NEW id, \A i \in 1..Len(ms) : ms[i].id # id
  PROVE  \A i \in 1..Len(ns) : ns[i].id # id
BY DEF SameFaces

\* The ids shown after a step, as far as pending acknowledgements go.
LEMMA HandledFresh ==
  ASSUME ShapeInv, AckFresh, NEW type, Receive(type), NEW ms, SameFaces(ms, msgs'),
         \A k \in 1..Len(inbox) : k > 1 /\ inbox[k].type = "message_ack" =>
           \A i \in 1..Len(ms) : ms[i].id # inbox[k].id
  PROVE  AckFresh'
<1>1. /\ Len(inbox') \in Nat
      /\ \A f : \A k \in 1..Len(inbox') : f = inbox'[k] => k + 1 \in 1..Len(inbox) /\ f = inbox[k + 1]
  BY ReceiveTakes
<1>2. \A k \in 1..Len(inbox) : k > 1 /\ inbox[k].type = "message_ack" =>
        \A i \in 1..Len(msgs') : msgs'[i].id # inbox[k].id
  <2>1. SUFFICES ASSUME NEW k \in 1..Len(inbox), k > 1, inbox[k].type = "message_ack"
                 PROVE  \A i \in 1..Len(msgs') : msgs'[i].id # inbox[k].id
    OBVIOUS
  <2>2. PICK id : id = inbox[k].id  OBVIOUS
  <2>3. \A i \in 1..Len(ms) : ms[i].id # id  BY <2>1, <2>2
  <2>4. \A i \in 1..Len(msgs') : msgs'[i].id # id  BY <2>3, FacesFresh
  <2>5. QED BY <2>2, <2>4
<1>3. PICK e \in {0, 1} : e = 1  OBVIOUS
<1>4. QED BY <1>1, <1>2, <1>3, FreshStays

\* Nothing arrives; typed entries have no id.
LEMMA QuietFresh ==
  ASSUME ShapeInv, AckFresh, inbox' = inbox, NEW ms, SameFaces(ms, msgs'),
         \A i \in 1..Len(ms) : ms[i].id = 0 \/ \E j \in 1..Len(msgs) : ms[i].id = msgs[j].id
  PROVE  AckFresh'
<1>1. Len(inbox) \in Nat  BY ShapeGives
<1>2. \A k \in 1..Len(inbox) : inbox[k].type = "message_ack" => inbox[k].id # 0
  <2>1. TAKE k \in 1..Len(inbox)
  <2>2. inbox[k] \in ServerFrame  BY ShapeGives, ElementOfSeq
  <2>3. QED BY <2>2, ServerFrameIs DEF Id
<1>3. \A k \in 1..Len(inbox) : inbox[k].type = "message_ack" =>
        \A i \in 1..Len(ms) : ms[i].id # inbox[k].id
  <2>1. SUFFICES ASSUME NEW k \in 1..Len(inbox), inbox[k].type = "message_ack", NEW i \in 1..Len(ms)
                 PROVE  ms[i].id # inbox[k].id
    OBVIOUS
  <2>2. QED BY <1>2, <2>1 DEF AckFresh
<1>4. \A k \in 1..Len(inbox) : inbox[k].type = "message_ack" =>
        \A i \in 1..Len(msgs') : msgs'[i].id # inbox[k].id
  <2>1. SUFFICES ASSUME NEW k \in 1..Len(inbox), inbox[k].type = "message_ack"
                 PROVE  \A i \in 1..Len(msgs') : msgs'[i].id # inbox[k].id
    OBVIOUS
  <2>2. PICK id : id = inbox[k].id  OBVIOUS
  <2>3. \A i \in 1..Len(ms) : ms[i].id # id  BY <1>3, <2>1, <2>2
  <2>4. \A i \in 1..Len(msgs') : msgs'[i].id # id  BY <2>3, FacesFresh
  <2>5. QED BY <2>2, <2>4
<1>5. PICK e \in {0, 1} : e = 0  OBVIOUS
<1>6. Len(inbox') \in Nat /\ \A f : \A k \in 1..Len(inbox') : f = inbox'[k] =>
        k + e \in 1..Len(inbox) /\ f = inbox[k + e]
  BY <1>1, <1>5
<1>7. QED BY <1>4, <1>6, FreshStays

LEMMA SentFresh ==
  ASSUME ShapeInv, AckFresh, msgs' = msgs, Len(inbox') \in Nat,
         \A k \in 1..Len(inbox') : \/ k \in 1..Len(inbox) /\ inbox'[k] = inbox[k]
                                   \/ k > Len(inbox) /\ inbox'[k].type # "message_ack"
  PROVE  AckFresh'
<1>1. PICK e \in {0, 1} : e = 0  OBVIOUS
<1>2. Len(inbox) \in Nat  BY ShapeGives
<1>3. \A f : \A k \in 1..Len(inbox') : f = inbox'[k] =>
        \/ k + e \in 1..Len(inbox) /\ f = inbox[k + e]
        \/ k + e > Len(inbox) /\ f.type # "message_ack"
  BY <1>1, <1>2
<1>4. \A k \in 1..Len(inbox) : k > e /\ inbox[k].type = "message_ack" =>
        \A i \in 1..Len(msgs') : msgs'[i].id # inbox[k].id
  BY DEF AckFresh
<1>5. QED BY <1>3, <1>4, FreshStays

LEMMA ToClientFresh ==
  ASSUME ShapeInv, AckFresh, msgs' = msgs, NEW f, ToClient(f), f.type # "message_ack"
  PROVE  AckFresh'
<1>1. Len(inbox) \in Nat /\ inbox \in Seq(ServerFrame)  BY ShapeGives
<1>2. CASE inbox' = inbox  BY <1>1, <1>2, SentFresh
<1>3. CASE inbox' = Append(inbox, f)
  <2>1. /\ Len(inbox') = Len(inbox) + 1 /\ inbox'[Len(inbox) + 1] = f
        /\ \A k \in 1..Len(inbox) : inbox'[k] = inbox[k]
    BY <1>1, <1>3
  <2>2. \A k \in 1..Len(inbox') : \/ k \in 1..Len(inbox) /\ inbox'[k] = inbox[k]
                                  \/ k > Len(inbox) /\ inbox'[k].type # "message_ack"
    <3>1. TAKE k \in 1..Len(inbox')
    <3>2. CASE k \in 1..Len(inbox)  BY <2>1, <3>2
    <3>3. CASE k \notin 1..Len(inbox)
      <4>1. k = Len(inbox) + 1  BY <1>1, <2>1, <3>3
      <4>2. QED BY <1>1, <2>1, <4>1
    <3>4. QED BY <3>2, <3>3
  <2>3. QED BY <1>1, <2>1, <2>2, SentFresh
<1>4. QED BY <1>2, <1>3 DEF ToClient, Routed

\* The acknowledgement goes out before anything else names its row.
LEMMA SendAckFresh ==
  ASSUME ShapeInv, AckFresh, Unheard, SendAck
  PROVE  AckFresh'
<1>1. Len(inbox) \in Nat /\ inbox \in Seq(ServerFrame) /\ msgs' = msgs /\ acking # 0
  BY ShapeGives DEF SendAck
<1>2. PICK f : f = MessageAck(rows[acking].cm, acking)  OBVIOUS
<1>3. \/ inbox' = inbox
      \/ /\ Len(inbox') = Len(inbox) + 1 /\ inbox'[Len(inbox) + 1] = f
         /\ \A k \in 1..Len(inbox) : inbox'[k] = inbox[k]
  BY <1>2, SendAckShape, ToClientIs DEF SendAck
<1>4. CASE inbox' = inbox  BY <1>1, <1>4, SentFresh
<1>5. CASE /\ Len(inbox') = Len(inbox) + 1 /\ inbox'[Len(inbox) + 1] = f
           /\ \A k \in 1..Len(inbox) : inbox'[k] = inbox[k]
  <2>1. SUFFICES ASSUME NEW k \in 1..Len(inbox'), inbox'[k].type = "message_ack"
                 PROVE  /\ \A i \in 1..Len(msgs') : msgs'[i].id # inbox'[k].id
                        /\ \A l \in 1..(k - 1) : inbox'[l].type = "history_response" =>
                             \A i \in 1..Len(inbox'[l].messages) :
                               inbox'[l].messages[i].id # inbox'[k].id
    BY DEF AckFresh
  <2>2. \A l \in 1..(k - 1) : l \in 1..Len(inbox) /\ inbox'[l] = inbox[l]  BY <1>1, <1>5
  <2>3. CASE k \in 1..Len(inbox)
    <3>1. inbox'[k] = inbox[k] /\ inbox[k].type = "message_ack"  BY <1>5, <2>1, <2>3
    <3>2. /\ \A i \in 1..Len(msgs) : msgs[i].id # inbox[k].id
          /\ \A l \in 1..(k - 1) : inbox[l].type = "history_response" =>
               \A i \in 1..Len(inbox[l].messages) : inbox[l].messages[i].id # inbox[k].id
      BY <2>3, <3>1 DEF AckFresh
    <3>3. QED BY ONLY <1>1, <2>2, <3>1, <3>2
  <2>4. CASE k = Len(inbox) + 1
    <3>1. inbox'[k].id = acking  BY <1>2, <1>5, <2>4 DEF MessageAck
    <3>2. /\ \A i \in 1..Len(msgs) : msgs[i].id # acking
          /\ \A l \in 1..Len(inbox) : inbox[l].type = "history_response" =>
               \A i \in 1..Len(inbox[l].messages) : inbox[l].messages[i].id # acking
      BY <1>1 DEF Unheard
    <3>3. QED BY ONLY <1>1, <2>2, <3>1, <3>2
  <2>5. QED BY <1>1, <1>5, <2>3, <2>4
<1>6. QED BY <1>3, <1>4, <1>5

\* Every result of a page shows ids that were shown or are in the page.
LEMMA HistoryFresh ==
  ASSUME ShapeInv, AckFresh, HandleHistoryResponse
  PROVE  AckFresh'
<1>1. PICK p : p = Head(inbox).messages  OBVIOUS
<1>2. PICK c : c = Loaded(contact, p)  OBVIOUS
<1>3. /\ Receive("history_response") /\ p \in Seq(Item)
      /\ \A i \in 1..Len(p) : p[i].id <= Len(rows)
      /\ MsgsOK(Entries(p), Len(rows))
      /\ \/ msgs' = msgs
         \/ \E shown \in Results(p) : MsgsOK(shown, Len(rows)) /\ ShowTo(c, shown)
  BY <1>1, <1>2, HandleHistoryResponseShape
<1>4. 1 \in 1..Len(inbox) /\ inbox[1] = Head(inbox) /\ Head(inbox).type = "history_response"
      /\ Len(inbox) \in Nat
  BY <1>3, ReceiveTakes
<1>5. ASSUME NEW k \in 1..Len(inbox), k > 1, inbox[k].type = "message_ack"
      PROVE  /\ \A i \in 1..Len(msgs) : msgs[i].id # inbox[k].id
             /\ \A i \in 1..Len(p) : p[i].id # inbox[k].id
  <2>1. 1 \in 1..(k - 1)  BY <1>4, <1>5
  <2>2. QED BY <1>1, <1>4, <1>5, <2>1 DEF AckFresh
<1>6. CASE msgs' = msgs  BY <1>3, <1>5, <1>6, SelfFaces, HandledFresh
<1>7. ASSUME NEW shown \in Results(p), MsgsOK(shown, Len(rows)), ShowTo(c, shown)
      PROVE  AckFresh'
  <2>1. SameFaces(shown, msgs')  BY <1>7, ShapeGives, ShowToIs
  <2>2. \A i \in 1..Len(shown) : \/ \E j \in 1..Len(msgs) : shown[i] = msgs[j]
                                 \/ \E j \in 1..Len(Entries(p)) : shown[i] = Entries(p)[j]
    <3>1. PICK n : n = Len(rows)  OBVIOUS
    <3>2. MsgsOK(Entries(p), n) /\ MsgsOK(msgs, n) /\ shown \in Results(p)
      BY <1>3, <1>7, <3>1, ShapeGives
    <3>3. QED BY ONLY <3>2, ResultFrom
  <2>3. \A j \in 1..Len(Entries(p)) : \E i \in 1..Len(p) : Entries(p)[j].id = p[i].id
    BY <1>3, ShapeGives, EntriesAre
  <2>4. \A k \in 1..Len(inbox) : k > 1 /\ inbox[k].type = "message_ack" =>
          \A i \in 1..Len(shown) : shown[i].id # inbox[k].id
    <3>1. SUFFICES ASSUME NEW k \in 1..Len(inbox), k > 1, inbox[k].type = "message_ack",
                          NEW i \in 1..Len(shown)
                   PROVE  shown[i].id # inbox[k].id
      OBVIOUS
    <3>2. CASE \E j \in 1..Len(msgs) : shown[i] = msgs[j]  BY <1>5, <3>1, <3>2
    <3>3. CASE \E j \in 1..Len(Entries(p)) : shown[i] = Entries(p)[j]  BY <1>5, <2>3, <3>1, <3>3
    <3>4. QED BY <2>2, <3>2, <3>3
  <2>5. QED BY <1>3, <2>1, <2>4, HandledFresh
<1>8. QED BY <1>3, <1>6, <1>7

LEMMA MessageFresh ==
  ASSUME ShapeInv, Books, AckFresh, HandleMessage
  PROVE  AckFresh'
<1>1. PICK id : id = Head(inbox).id  OBVIOUS
<1>2. PICK ms : ms = AppendMessage(msgs, Arrived(id))  OBVIOUS
<1>3. /\ Receive("message") /\ id \in Id /\ Head(inbox) = Message(id)
      /\ MsgsOK(ms, Len(rows)) /\ \E c : ShowTo(c, ms)
      /\ Arrived(id) \in EntryT
  BY <1>1, <1>2, HandleMessageShape
<1>4. SameFaces(ms, msgs')  BY <1>3, ShapeGives, ShowToIs
<1>5. 1 \in 1..Len(inbox) /\ inbox[1].type = "message" /\ inbox[1].id = id
  BY <1>1, <1>3, ReceiveTakes
<1>6. ~rows[id].mine  BY <1>5 DEF Books, WireBooks
<1>7. \A i \in 1..Len(ms) : ms[i].id = id \/ \E j \in 1..Len(msgs) : ms[i] = msgs[j]
  <2>1. CASE ms = msgs  BY <2>1
  <2>2. CASE ms = Append(msgs, Arrived(id))
    <3>1. msgs \in Seq(EntryT) /\ Arrived(id).id = id  BY ShapeGives DEF MsgsOK, Arrived
    <3>2. /\ Len(ms) = Len(msgs) + 1 /\ ms[Len(msgs) + 1] = Arrived(id) /\ Len(msgs) \in Nat
          /\ \A k \in 1..Len(msgs) : ms[k] = msgs[k]
      BY <1>3, <2>2, <3>1, AppendIs
    <3>3. \A i \in 1..Len(ms) : i \in 1..Len(msgs) \/ i = Len(msgs) + 1  BY <3>2
    <3>4. QED BY <3>1, <3>2, <3>3
  <2>3. QED BY <1>2, <2>1, <2>2 DEF AppendMessage
<1>8. \A k \in 1..Len(inbox) : k > 1 /\ inbox[k].type = "message_ack" =>
        \A i \in 1..Len(ms) : ms[i].id # inbox[k].id
  <2>1. SUFFICES ASSUME NEW k \in 1..Len(inbox), inbox[k].type = "message_ack", NEW i \in 1..Len(ms)
                 PROVE  ms[i].id # inbox[k].id
    OBVIOUS
  <2>2. rows[inbox[k].id].mine  BY <2>1 DEF Books, WireBooks
  <2>3. CASE ms[i].id = id  BY <1>6, <2>2, <2>3
  <2>4. CASE \E j \in 1..Len(msgs) : ms[i] = msgs[j]  BY <2>1, <2>4 DEF AckFresh
  <2>5. QED BY <1>7, <2>3, <2>4
<1>9. QED BY <1>3, <1>4, <1>8, HandledFresh

LEMMA AckedFresh ==
  ASSUME ShapeInv, Books, AckFresh, HandleMessageAck
  PROVE  AckFresh'
<1>1. PICK f : f = Head(inbox)  OBVIOUS
<1>2. PICK ms : ms = AckedIn(msgs, f)  OBVIOUS
<1>3. Receive("message_ack") /\ f.id \in Id /\ f.id <= Len(rows) /\ msgs' = ms
  BY <1>1, <1>2, HandleMessageAckShape
<1>4. 1 \in 1..Len(inbox) /\ inbox[1] = f /\ f.type = "message_ack"  BY <1>1, <1>3, ReceiveTakes
<1>5. /\ Len(ms) = Len(msgs)
      /\ \A i \in 1..Len(msgs) : ms[i].id = f.id \/ ms[i] = msgs[i]
  BY <1>2, <1>3, ShapeGives, AckedOK
<1>6. \A k \in 1..Len(inbox) : k > 1 /\ inbox[k].type = "message_ack" =>
        \A i \in 1..Len(ms) : ms[i].id # inbox[k].id
  <2>1. SUFFICES ASSUME NEW k \in 1..Len(inbox), k > 1, inbox[k].type = "message_ack",
                        NEW i \in 1..Len(ms)
                 PROVE  ms[i].id # inbox[k].id
    OBVIOUS
  <2>2. inbox[k].cm # f.cm  BY <1>4, <2>1 DEF Books, WireBooks
  <2>3. rows[inbox[k].id].cm = inbox[k].cm /\ rows[f.id].cm = f.cm
    BY <1>4, <2>1 DEF Books, WireBooks
  <2>4. inbox[k].id # f.id  BY <2>2, <2>3
  <2>5. QED BY <1>5, <2>1, <2>4 DEF AckFresh
<1>7. SameFaces(ms, msgs')  BY <1>3, SelfFaces
<1>8. QED BY <1>3, <1>6, <1>7, HandledFresh

LEMMA UserFresh ==
  ASSUME ShapeInv, AckFresh,
         \/ Open \/ Connect \/ Type \/ HandleContactList \/ HandleAckRead
         \/ Leave \/ LoadMore \/ HandleDisconnected \/ UNCHANGED vars
  PROVE  AckFresh'
<1>1. CASE Open \/ Connect
  <2>1. SameFaces(msgs, msgs') /\ inbox' = inbox  BY <1>1, OpenShape, ConnectShape DEF Open, Connect
  <2>2. QED BY <2>1, QuietFresh
<1>2. CASE Type
  <2>1. /\ Len(msgs') = Len(msgs) + 1 /\ msgs'[Len(msgs) + 1] = Typed /\ Len(msgs) \in Nat
        /\ \A i \in 1..Len(msgs) : msgs'[i] = msgs[i]
    BY <1>2, TypeShape
  <2>2. Typed.id = 0 /\ inbox' = inbox  BY <1>2 DEF Typed, Type
  <2>3. \A i \in 1..Len(msgs') : i \in 1..Len(msgs) \/ i = Len(msgs) + 1  BY <2>1
  <2>4. \A i \in 1..Len(msgs') :
          msgs'[i].id = 0 \/ \E j \in 1..Len(msgs) : msgs'[i].id = msgs[j].id
    BY <2>1, <2>2, <2>3
  <2>5. SameFaces(msgs', msgs')  BY SelfFaces
  <2>6. QED BY <2>2, <2>4, <2>5, QuietFresh
<1>3. CASE HandleContactList
  <2>1. Receive("contact_list") /\ msgs' = msgs
    BY <1>3, HandleContactListShape DEF HandleContactList
  <2>2. SameFaces(msgs, msgs')  BY <2>1, SelfFaces
  <2>3. QED BY <2>1, <2>2, HandledFresh DEF AckFresh
<1>4. CASE HandleAckRead
  <2>1. PICK ms : ms = MarkTick(msgs, Head(inbox).id)  OBVIOUS
  <2>2. Receive("ack_read") /\ msgs' = ms  BY <1>4, <2>1, HandleAckReadShape
  <2>3. Len(ms) = Len(msgs) /\ \A i \in 1..Len(msgs) : ms[i].id = msgs[i].id
    BY <2>1, ShapeGives, TickedOK
  <2>4. SameFaces(ms, msgs')  BY <2>2, SelfFaces
  <2>5. \A k \in 1..Len(inbox) : k > 1 /\ inbox[k].type = "message_ack" =>
          \A i \in 1..Len(ms) : ms[i].id # inbox[k].id
    BY <2>3 DEF AckFresh
  <2>6. QED BY <2>2, <2>4, <2>5, HandledFresh
<1>5. CASE Leave \/ LoadMore \/ HandleDisconnected \/ UNCHANGED vars
  <2>1. inbox' = inbox /\ msgs' = msgs  BY <1>5, Stutter DEF Leave, LoadMore, HandleDisconnected
  <2>2. SameFaces(msgs, msgs')  BY <2>1, SelfFaces
  <2>3. QED BY <2>1, <2>2, QuietFresh
<1>6. QED BY <1>1, <1>2, <1>3, <1>4, <1>5

LEMMA ServerFresh ==
  ASSUME ShapeInv, AckFresh, Unheard,
         ServerStep \/ PeerSends \/ HandlerFails \/ LoseConnection \/ ServerNotices
           \/ \E id \in DOMAIN rows : PeerReads(id)
  PROVE  AckFresh'
<1>1. Len(inbox) \in Nat /\ inbox \in Seq(ServerFrame)  BY ShapeGives
<1>2. ASSUME inbox' = inbox, msgs' = msgs PROVE AckFresh'  BY <1>1, <1>2, SentFresh
<1>3. CASE \/ LoadUndelivered \/ ServeReturns \/ HandleHistoryRequest \/ ServerMarksRead
           \/ PeerSends \/ HandlerFails \/ ServerNotices \/ StoreMessage
  BY <1>2, <1>3 DEF LoadUndelivered, ServeReturns, HandleHistoryRequest, ServerMarksRead,
                    PeerSends, HandlerFails, ServerNotices, StoreMessage
<1>4. CASE PushContactList  BY <1>4, ToClientFresh DEF PushContactList, List
<1>5. CASE ReplayOne
  <2>1. PICK f : f = Message(Head(greeting.of))  OBVIOUS
  <2>2. ToClient(f) /\ msgs' = msgs /\ f.type = "message"  BY <1>5, <2>1 DEF ReplayOne, Message
  <2>3. QED BY <2>2, ToClientFresh
<1>6. CASE Relay
  <2>1. PICK f : f = Message(relaying)  OBVIOUS
  <2>2. ToClient(f) \/ inbox' = inbox  BY <1>6, <2>1 DEF Relay, ToClient
  <2>3. msgs' = msgs /\ f.type = "message"  BY <1>6, <2>1 DEF Relay, Message
  <2>4. QED BY <1>2, <2>2, <2>3, ToClientFresh
<1>7. CASE SendPage
  <2>1. ToClient(page) /\ msgs' = msgs /\ page \in Pages  BY <1>7, SendPageShape DEF SendPage
  <2>2. page.type = "history_response"  BY <2>1, MakesServerFrame
  <2>3. QED BY <2>1, <2>2, ToClientFresh
<1>8. CASE SendAck  BY <1>8, SendAckFresh
<1>9. ASSUME NEW id \in DOMAIN rows, PeerReads(id) PROVE AckFresh'
  <2>1. AckRead(id).type = "ack_read" /\ msgs' = msgs  BY <1>9 DEF AckRead, PeerReads
  <2>2. QED BY <1>9, <2>1, PeerReadsAdds, SentFresh
<1>10. CASE LoseConnection
  <2>1. /\ Len(inbox') \in Nat
        /\ \A k \in 1..Len(inbox') : k \in 1..Len(inbox) /\ inbox'[k] = inbox[k]
    BY <1>10, LoseConnectionLoses
  <2>2. msgs' = msgs  BY <1>10 DEF LoseConnection
  <2>3. QED BY <2>1, <2>2, SentFresh
<1>11. QED BY <1>3, <1>4, <1>5, <1>6, <1>7, <1>8, <1>9, <1>10 DEF ServerStep

\* The id of an acknowledgement is shown by nobody before it arrives.
LEMMA StepFresh ==
  ASSUME ShapeInv, Books, AckFresh, Unheard, [Next]_vars
  PROVE  AckFresh'
BY MessageFresh, AckedFresh, UserFresh, ServerFresh, HistoryFresh DEF Next, ClientStep

-----------------------------------------------------------------------------
(* One page at a time, and where it ends.                                  *)

LEMMA NothingAsked ==
  ASSUME ~Outstanding'
  PROVE  Single' /\ Cursor'
BY DEF Outstanding, Single, Cursor

\* The oldest entry stays what it is until a page comes.
LEMMA OldestStays ==
  ASSUME ShapeInv, Cursor, FloorInv, MsgsGrow(msgs'), contact.loaded, Outstanding
  PROVE  msgs'[1].at = msgs[1].at
<1>1. Floor(msgs) /\ Len(msgs) \in Nat  BY ShapeGives DEF Cursor, FloorInv, MsgsOK
<1>2. 1 \in 1..Len(msgs)  BY <1>1 DEF Floor
<1>3. QED BY <1>2 DEF MsgsGrow

\* No request and no page is new.
LEMMA CursorStays ==
  ASSUME ShapeInv, Single, Cursor, FloorInv, MsgsGrow(msgs'), FlagsKept,
         page' # NoPage => page' = page,
         NEW d \in {0, 1}, NEW e \in {0, 1},
         \A f : \A k \in 1..Len(outbox') : f = outbox'[k] /\ Asks(f) =>
           k + d \in 1..Len(outbox) /\ f = outbox[k + d],
         \A f : \A k \in 1..Len(inbox') : f = inbox'[k] /\ Answers(f) =>
           k + e \in 1..Len(inbox) /\ f = inbox[k + e]
  PROVE  Single' /\ Cursor'
<1>1. SUFFICES ASSUME Outstanding' PROVE Single' /\ Cursor'  BY NothingAsked
<1>2. \A k \in 1..Len(outbox') : Asks(outbox'[k]) =>
        \E l \in 1..Len(outbox) : l = k + d /\ outbox[l] = outbox'[k] /\ Asks(outbox[l])
  OBVIOUS
<1>3. \A k \in 1..Len(inbox') : Answers(inbox'[k]) =>
        \E l \in 1..Len(inbox) : l = k + e /\ inbox[l] = inbox'[k] /\ Answers(inbox[l])
  OBVIOUS
<1>4. Outstanding  BY <1>1, <1>2, <1>3 DEF Outstanding
<1>5. contact.loaded => msgs'[1].at = msgs[1].at  BY <1>4, OldestStays
<1>6. Single'
  <2>1. contact'.loading  BY <1>4 DEF Single, FlagsKept
  <2>2. \A k \in 1..Len(outbox') : Asks(outbox'[k]) =>
          /\ page' = NoPage
          /\ \A l \in 1..Len(outbox') : Asks(outbox'[l]) => k = l
          /\ \A l \in 1..Len(inbox') : ~Answers(inbox'[l])
    <3>1. SUFFICES ASSUME NEW k \in 1..Len(outbox'), Asks(outbox'[k])
                   PROVE  /\ page' = NoPage
                          /\ \A l \in 1..Len(outbox') : Asks(outbox'[l]) => k = l
                          /\ \A l \in 1..Len(inbox') : ~Answers(inbox'[l])
      OBVIOUS
    <3>2. PICK n \in 1..Len(outbox) : n = k + d /\ Asks(outbox[n])  BY <1>2, <3>1
    <3>3. page = NoPage /\ \A l \in 1..Len(inbox) : ~Answers(inbox[l])  BY <3>2 DEF Single
    <3>4. \A l \in 1..Len(inbox') : ~Answers(inbox'[l])  BY <1>3, <3>3
    <3>5. ASSUME NEW l \in 1..Len(outbox'), Asks(outbox'[l])
          PROVE  k = l
      <4>1. PICK m \in 1..Len(outbox) : m = l + d /\ Asks(outbox[m])  BY <1>2, <3>5
      <4>2. m = n  BY <3>2, <4>1 DEF Single
      <4>3. QED BY <3>2, <4>1, <4>2
    <3>6. QED BY <3>3, <3>4, <3>5
  <2>3. page' # NoPage => \A l \in 1..Len(inbox') : ~Answers(inbox'[l])  BY <1>3 DEF Single
  <2>4. ASSUME NEW k \in 1..Len(inbox'), NEW l \in 1..Len(inbox'),
               Answers(inbox'[k]), Answers(inbox'[l])
        PROVE  k = l
    <3>1. PICK n \in 1..Len(inbox) : n = k + e /\ Answers(inbox[n])  BY <1>3, <2>4
    <3>2. PICK m \in 1..Len(inbox) : m = l + e /\ Answers(inbox[m])  BY <1>3, <2>4
    <3>3. m = n  BY <3>1, <3>2 DEF Single
    <3>4. QED BY <3>1, <3>2, <3>3
  <2>5. QED BY <2>1, <2>2, <2>3, <2>4 DEF Single
<1>7. Cursor'
  <2>1. contact'.loaded => ~contact'.exhausted  BY <1>4 DEF Cursor, FlagsKept
  <2>2. contact'.loaded => \A k \in 1..Len(outbox') : Asks(outbox'[k]) =>
          outbox'[k].before # Latest /\ outbox'[k].before <= msgs'[1].at
    BY <1>2, <1>5 DEF Cursor, FlagsKept
  <2>3. page' # NoPage => page' = page /\ Falling(page'.messages)  BY DEF Cursor
  <2>4. contact'.loaded /\ page' # NoPage => Under(page'.messages, msgs'[1].at)
    BY <1>5 DEF Cursor, FlagsKept
  <2>5. ASSUME NEW k \in 1..Len(inbox'), Answers(inbox'[k])
        PROVE  /\ Falling(inbox'[k].messages)
               /\ contact'.loaded => Under(inbox'[k].messages, msgs'[1].at)
    <3>1. PICK l \in 1..Len(inbox) : inbox[l] = inbox'[k] /\ Answers(inbox[l])  BY <1>3, <2>5
    <3>2. Falling(inbox[l].messages) /\ (contact.loaded => Under(inbox[l].messages, msgs[1].at))
      BY <3>1 DEF Cursor
    <3>3. QED BY <1>5, <3>1, <3>2 DEF FlagsKept
  <2>6. QED BY <2>1, <2>2, <2>3, <2>4, <2>5 DEF Cursor, Falling, Under
<1>8. QED BY <1>6, <1>7

\* The first request after the last page.
LEMMA CursorAsks ==
  ASSUME ~Outstanding, contact'.loading, contact'.loaded => ~contact'.exhausted, page' = page,
         \A k \in 1..Len(inbox') : Answers(inbox'[k]) => \E l \in 1..Len(inbox) : inbox[l] = inbox'[k],
         NEW n, \A k \in 1..Len(outbox') : Asks(outbox'[k]) =>
           /\ k = n
           /\ contact'.loaded => outbox'[k].before # Latest /\ outbox'[k].before <= msgs'[1].at
  PROVE  Single' /\ Cursor'
<1>1. page' = NoPage /\ \A k \in 1..Len(inbox') : ~Answers(inbox'[k])  BY DEF Outstanding
<1>2. Single'  BY <1>1 DEF Single
<1>3. Cursor'  BY <1>1 DEF Cursor
<1>4. QED BY <1>2, <1>3

LEMMA KeptCursor ==
  ASSUME ShapeInv, Single, Cursor, FloorInv, MsgsGrow(msgs'), FlagsKept,
         page' # NoPage => page' = page,
         \A k \in 1..Len(outbox') : Asks(outbox'[k]) => k \in 1..Len(outbox) /\ outbox'[k] = outbox[k],
         \A k \in 1..Len(inbox') : Answers(inbox'[k]) => k \in 1..Len(inbox) /\ inbox'[k] = inbox[k]
  PROVE  Single' /\ Cursor'
<1>1. PICK d \in {0, 1} : d = 0  OBVIOUS
<1>2. \A f : \A k \in 1..Len(outbox') : f = outbox'[k] /\ Asks(f) =>
        k + d \in 1..Len(outbox) /\ f = outbox[k + d]
  BY <1>1
<1>3. \A f : \A k \in 1..Len(inbox') : f = inbox'[k] /\ Answers(f) =>
        k + d \in 1..Len(inbox) /\ f = inbox[k + d]
  BY <1>1
<1>4. QED BY <1>2, <1>3, CursorStays

LEMMA HandledCursor ==
  ASSUME ShapeInv, Single, Cursor, FloorInv, MsgsGrow(msgs'), FlagsKept, page' = page,
         \A k \in 1..Len(outbox') : Asks(outbox'[k]) => k \in 1..Len(outbox) /\ outbox'[k] = outbox[k],
         NEW type, Receive(type)
  PROVE  Single' /\ Cursor'
<1>1. PICK d \in {0, 1} : d = 0  OBVIOUS
<1>2. PICK e \in {0, 1} : e = 1  OBVIOUS
<1>3. \A f : \A k \in 1..Len(outbox') : f = outbox'[k] /\ Asks(f) =>
        k + d \in 1..Len(outbox) /\ f = outbox[k + d]
  BY <1>1
<1>4. \A f : \A k \in 1..Len(inbox') : f = inbox'[k] /\ Answers(f) =>
        k + e \in 1..Len(inbox) /\ f = inbox[k + e]
  BY <1>2, ReceiveTakes
<1>5. QED BY <1>3, <1>4, CursorStays

LEMMA ReadCursor ==
  ASSUME ShapeInv, Single, Cursor, FloorInv, MsgsGrow(msgs'), FlagsKept, page' = page,
         NEW type, Read(type),
         \A k \in 1..Len(inbox') : Answers(inbox'[k]) => k \in 1..Len(inbox) /\ inbox'[k] = inbox[k]
  PROVE  Single' /\ Cursor'
<1>1. PICK d \in {0, 1} : d = 1  OBVIOUS
<1>2. PICK e \in {0, 1} : e = 0  OBVIOUS
<1>3. \A f : \A k \in 1..Len(outbox') : f = outbox'[k] /\ Asks(f) =>
        k + d \in 1..Len(outbox) /\ f = outbox[k + d]
  BY <1>1, ReadTakes
<1>4. \A f : \A k \in 1..Len(inbox') : f = inbox'[k] /\ Answers(f) =>
        k + e \in 1..Len(inbox) /\ f = inbox[k + e]
  BY <1>2
<1>5. QED BY <1>3, <1>4, CursorStays

LEMMA SentCursor ==
  ASSUME ShapeInv, Single, Cursor, FloorInv, UNCHANGED <<msgs, contact, outbox, page>>,
         NEW f, ToClient(f), ~Answers(f)
  PROVE  Single' /\ Cursor'
<1>1. MsgsGrow(msgs') /\ FlagsKept  BY SelfGrow DEF FlagsKept
<1>2. \A k \in 1..Len(inbox') : Answers(inbox'[k]) => k \in 1..Len(inbox) /\ inbox'[k] = inbox[k]
  <2>1. SUFFICES ASSUME NEW k \in 1..Len(inbox'), Answers(inbox'[k])
                 PROVE  k \in 1..Len(inbox) /\ inbox'[k] = inbox[k]
    OBVIOUS
  <2>2. k \in 1..Len(inbox)  BY <2>1, ToClientAdds
  <2>3. QED BY <2>2, ToClientAdds
<1>3. QED BY <1>1, <1>2, KeptCursor

LEMMA ServerCursor ==
  ASSUME ShapeInv, Single, Cursor, FloorInv, MsgsGrow(msgs'),
         \/ PushContactList \/ LoadUndelivered \/ ReplayOne \/ ServeReturns \/ Relay
         \/ ServerMarksRead \/ StoreMessage \/ SendAck \/ HandlerFails \/ LoseConnection \/ ServerNotices
         \/ PeerSends \/ \E id \in DOMAIN rows : PeerReads(id)
  PROVE  Single' /\ Cursor'
<1>1. Len(inbox) \in Nat /\ inbox \in Seq(ServerFrame)  BY ShapeGives
<1>2. CASE LoadUndelivered \/ ServeReturns \/ ServerNotices \/ PeerSends
  <2>1. UNCHANGED <<contact, page, inbox, outbox>>
    BY <1>2 DEF LoadUndelivered, ServeReturns, ServerNotices, PeerSends, server
  <2>2. QED BY <2>1, KeptCursor DEF FlagsKept
<1>3. CASE PushContactList
  <2>1. UNCHANGED <<msgs, contact, outbox, page>> /\ ToClient(List) /\ ~Answers(List)
    BY <1>3 DEF PushContactList, List, Answers
  <2>2. QED BY <2>1, SentCursor
<1>4. CASE ReplayOne
  <2>1. PICK f : f = Message(Head(greeting.of))  OBVIOUS
  <2>2. UNCHANGED <<msgs, contact, outbox, page>> /\ ToClient(f) /\ ~Answers(f)
    BY <1>4, <2>1 DEF ReplayOne, Message, Answers
  <2>3. QED BY <2>2, SentCursor
<1>5. CASE Relay
  <2>1. PICK f : f = Message(relaying)  OBVIOUS
  <2>2. UNCHANGED <<msgs, contact, outbox, page>> /\ ~Answers(f) /\ (ToClient(f) \/ inbox' = inbox)
    BY <1>5, <2>1 DEF Relay, Message, Answers, ToClient
  <2>3. CASE inbox' = inbox  BY <2>2, <2>3, KeptCursor DEF FlagsKept
  <2>4. QED BY <2>2, <2>3, SentCursor
<1>6. CASE ServerMarksRead
  <2>1. UNCHANGED <<contact, page, inbox>> /\ Read("ack_read")  BY <1>6 DEF ServerMarksRead
  <2>2. QED BY <2>1, ReadCursor DEF FlagsKept
<1>7. CASE StoreMessage \/ SendAck
  <2>1. CASE StoreMessage
    <3>1. UNCHANGED <<contact, page, inbox>> /\ Read("message")  BY <2>1 DEF StoreMessage
    <3>2. QED BY <3>1, ReadCursor DEF FlagsKept
  <2>2. CASE SendAck
    <3>1. PICK f : f = MessageAck(rows[acking].cm, acking)  OBVIOUS
    <3>2. UNCHANGED <<msgs, contact, outbox, page>> /\ ToClient(f) /\ ~Answers(f)
      BY <2>2, <3>1 DEF SendAck, MessageAck, Answers
    <3>3. QED BY <3>2, SentCursor
  <2>3. QED BY <1>7, <2>1, <2>2
<1>8. CASE HandlerFails
  <2>1. PICK type : Read(type)  BY <1>8 DEF HandlerFails
  <2>2. UNCHANGED <<contact, page, inbox>>  BY <1>8 DEF HandlerFails, server
  <2>3. QED BY <2>1, <2>2, ReadCursor DEF FlagsKept
<1>9. CASE LoseConnection
  <2>1. /\ outbox' = <<>>
        /\ \A k \in 1..Len(inbox') : k \in 1..Len(inbox) /\ inbox'[k] = inbox[k]
    BY <1>9, LoseConnectionLoses
  <2>2. UNCHANGED <<contact, page>> /\ Len(outbox') = 0  BY <1>9, <2>1 DEF LoseConnection, server
  <2>3. QED BY <2>1, <2>2, KeptCursor DEF FlagsKept
<1>10. ASSUME NEW id \in DOMAIN rows, PeerReads(id) PROVE Single' /\ Cursor'
  <2>1. UNCHANGED <<contact, page, outbox>> /\ ~Answers(AckRead(id))
    BY <1>10 DEF PeerReads, AckRead, Answers
  <2>2. \A k \in 1..Len(inbox') : Answers(inbox'[k]) => k \in 1..Len(inbox) /\ inbox'[k] = inbox[k]
    BY <1>10, <2>1, PeerReadsAdds
  <2>3. QED BY <2>1, <2>2, KeptCursor DEF FlagsKept
<1>11. QED BY <1>2, <1>3, <1>4, <1>5, <1>6, <1>7, <1>8, <1>9, <1>10

\* The request for the latest page.
LEMMA FirstAsked ==
  ASSUME ~Outstanding, contact'.loading, ~contact'.loaded, page' = page,
         \A k \in 1..Len(inbox') : Answers(inbox'[k]) => \E l \in 1..Len(inbox) : inbox[l] = inbox'[k],
         NEW n, \A k \in 1..Len(outbox') : Asks(outbox'[k]) => k = n
  PROVE  Single' /\ Cursor'
BY CursorAsks

\* What setActive and the contact list ask for, when they ask.
LEMMA MaybeLoadCursor ==
  ASSUME ShapeInv, Single, Cursor, FloorInv, MsgsGrow(msgs'), page' = page,
         NEW c, ContactOK(c), c.loading = contact.loading, c.loaded = contact.loaded,
         c.exhausted = contact.exhausted,
         NEW box, BoxOK(box, Len(rows)), NEW gone, MaybeLoadHistory(c, box, gone),
         \A k \in 1..Len(box) : Asks(box[k]) => k \in 1..Len(outbox) /\ box[k] = outbox[k],
         NEW e \in {0, 1},
         \A k \in 1..Len(inbox') : k + e \in 1..Len(inbox) /\ inbox'[k] = inbox[k + e]
  PROVE  Single' /\ Cursor'
<1>1. /\ \A k \in 1..Len(box) : k \in 1..Len(outbox') /\ outbox'[k] = box[k]
      /\ \/ /\ contact' = [c EXCEPT !.loading = TRUE] /\ ~c.loaded /\ ~c.loading
            /\ \/ /\ Len(outbox') = Len(box) + 1 /\ outbox'[Len(box) + 1] = HistoryRequest(Latest)
                  /\ Len(box) \in Nat
               \/ outbox' = box
         \/ contact' = c /\ outbox' = box
  BY MaybeLoadIs
<1>2. CASE contact' = c /\ outbox' = box
  <2>1. PICK d \in {0, 1} : d = 0  OBVIOUS
  <2>2. \A f : \A k \in 1..Len(outbox') : f = outbox'[k] /\ Asks(f) =>
          k + d \in 1..Len(outbox) /\ f = outbox[k + d]
    BY <1>2, <2>1
  <2>3. FlagsKept  BY <1>2 DEF FlagsKept
  <2>4. \A f : \A k \in 1..Len(inbox') : f = inbox'[k] /\ Answers(f) =>
          k + e \in 1..Len(inbox) /\ f = inbox[k + e]
    OBVIOUS
  <2>5. QED BY <2>2, <2>3, <2>4, CursorStays
<1>3. CASE contact' = [c EXCEPT !.loading = TRUE] /\ ~c.loaded /\ ~c.loading
  <2>1. ~Outstanding  BY <1>3 DEF Single
  <2>2. contact'.loading /\ ~contact'.loaded  BY <1>3 DEF ContactOK, ContactT
  <2>3. \A k \in 1..Len(box) : ~Asks(box[k])  BY <2>1 DEF Outstanding
  <2>4. \A k \in 1..Len(outbox') : Asks(outbox'[k]) => k = Len(box) + 1
    <3>1. CASE outbox' = box  BY <2>3, <3>1
    <3>2. CASE Len(outbox') = Len(box) + 1 /\ Len(box) \in Nat
      <4>1. \A k \in 1..Len(outbox') : k \in 1..Len(box) \/ k = Len(box) + 1  BY <3>2
      <4>2. QED BY <1>1, <2>3, <4>1
    <3>3. contact' # c  BY <1>3, <2>2
    <3>4. QED BY <1>1, <3>1, <3>2, <3>3
  <2>5. \A k \in 1..Len(inbox') : Answers(inbox'[k]) => \E l \in 1..Len(inbox) : inbox[l] = inbox'[k]
    OBVIOUS
  <2>6. page' = page  OBVIOUS
  <2>7. QED BY ONLY <2>1, <2>2, <2>4, <2>5, <2>6, FirstAsked
<1>4. QED BY <1>1, <1>2, <1>3

\* Acknowledgements are no requests.
LEMMA AckedBox ==
  ASSUME ShapeInv, NEW ms, MsgsOK(ms, Len(rows)), NEW D \in SUBSET DOMAIN ms, \A i \in D : ~ms[i].mine,
         NEW box, box = outbox \o Acks(ms, D, Room(outbox))
  PROVE  /\ BoxOK(box, Len(rows))
         /\ \A k \in 1..Len(box) : Asks(box[k]) => k \in 1..Len(outbox) /\ box[k] = outbox[k]
<1>1. /\ BoxOK(box, Len(rows))
      /\ \A k \in 1..Len(outbox) : box[k] = outbox[k]
      /\ \A k \in 1..Len(box) : k \in 1..Len(outbox) \/ \E i \in D : box[k] = AckRead(ms[i].id)
  BY ShapeGives, AcksFit
<1>2. \A id : ~Asks(AckRead(id))  BY DEF Asks, AckRead
<1>3. QED BY <1>1, <1>2

LEMMA OpenCursor ==
  ASSUME ShapeInv, Single, Cursor, FloorInv, MsgsGrow(msgs'), Open
  PROVE  Single' /\ Cursor'
<1>1. PICK c, box, gone :
        /\ box = outbox \o Acks(msgs, Unacked(msgs), Room(outbox))
        /\ MaybeLoadHistory(c, box, gone) /\ ContactOK(c)
        /\ c.loading = contact.loading /\ c.loaded = contact.loaded
        /\ c.exhausted = contact.exhausted
  BY OpenIs
<1>2. page' = page /\ inbox' = inbox  BY DEF Open, server
<1>3. /\ BoxOK(box, Len(rows))
      /\ \A k \in 1..Len(box) : Asks(box[k]) => k \in 1..Len(outbox) /\ box[k] = outbox[k]
  BY <1>1, ShapeGives, UnackedIs, AckedBox
<1>4. PICK e \in {0, 1} : e = 0  OBVIOUS
<1>5. \A k \in 1..Len(inbox') : k + e \in 1..Len(inbox) /\ inbox'[k] = inbox[k + e]
  BY <1>2, <1>4, SameInbox
<1>6. QED BY <1>1, <1>2, <1>3, <1>5, MaybeLoadCursor

LEMMA ListCursor ==
  ASSUME ShapeInv, Single, Cursor, FloorInv, MsgsGrow(msgs'), HandleContactList
  PROVE  Single' /\ Cursor'
<1>1. PICK c : /\ MaybeLoadHistory(c, outbox, lost) /\ ContactOK(c)
               /\ c.loading = contact.loading /\ c.loaded = contact.loaded
               /\ c.exhausted = contact.exhausted
  BY ListIs
<1>2. page' = page /\ Receive("contact_list") /\ BoxOK(outbox, Len(rows))
  BY ShapeGives DEF HandleContactList, server
<1>3. PICK e \in {0, 1} : e = 1  OBVIOUS
<1>4. \A k \in 1..Len(inbox') : k + e \in 1..Len(inbox) /\ inbox'[k] = inbox[k + e]
  BY <1>2, <1>3, ReceiveTakes
<1>5. QED BY <1>1, <1>2, <1>4, MaybeLoadCursor

\* The cursor of an older page is the time of the oldest entry, in a zone that
\* adds nothing to it.
LEMMA LoadMoreCursor ==
  ASSUME Zone = 0, ShapeInv, Single, Cursor, AtBooks, LoadMore
  PROVE  Single' /\ Cursor'
<1>1. /\ contact.loaded /\ ~contact.loading /\ ~contact.exhausted
      /\ RequestHistory(contact, outbox, lost, msgs[1].at + Zone) /\ page' = page /\ inbox' = inbox
  BY DEF LoadMore, server
<1>2. msgs' = msgs /\ contact.known /\ msgs[1] \in EntryT /\ 1 \in 1..Len(msgs)  BY LoadMoreShape
<1>3. PICK at : at = msgs[1].at + Zone  OBVIOUS
<1>4. at = msgs[1].at /\ at \in Int /\ at >= 1
  <2>1. msgs[1].at \in Nat /\ msgs[1].at >= 1  BY <1>2 DEF EntryT, AtBooks, EntryAt
  <2>2. QED BY <1>3, <2>1
<1>5. /\ contact' = [contact EXCEPT !.loading = TRUE]
      /\ \A k \in 1..Len(outbox) : outbox'[k] = outbox[k]
      /\ \/ /\ Len(outbox') = Len(outbox) + 1 /\ outbox'[Len(outbox) + 1] = HistoryRequest(at)
            /\ Len(outbox) \in Nat
         \/ outbox' = outbox
  <2>1. RequestHistory(contact, outbox, lost, at)  BY <1>1, <1>3
  <2>2. QED BY <1>2, <1>4, <2>1, ShapeGives, RequestIs
<1>6. contact'.loading /\ ~contact'.exhausted  BY <1>1, <1>5, ShapeGives DEF ContactOK, ContactT
<1>7. ~Outstanding  BY <1>1 DEF Single
<1>8. PICK n : n = Len(outbox) + 1  OBVIOUS
<1>9. \A k \in 1..Len(outbox') : Asks(outbox'[k]) =>
        k = n /\ outbox'[k].before # Latest /\ outbox'[k].before <= msgs'[1].at
  <2>1. \A k \in 1..Len(outbox) : ~Asks(outbox[k])  BY <1>7 DEF Outstanding
  <2>2. CASE outbox' = outbox  BY <2>1, <2>2
  <2>3. CASE /\ Len(outbox') = Len(outbox) + 1 /\ outbox'[Len(outbox) + 1] = HistoryRequest(at)
             /\ Len(outbox) \in Nat
    <3>1. \A k \in 1..Len(outbox') : k \in 1..Len(outbox) \/ k = n  BY <1>8, <2>3
    <3>2. outbox'[n].before = at  BY <1>8, <2>3 DEF HistoryRequest
    <3>3. at # Latest /\ at <= msgs'[1].at  BY <1>2, <1>4 DEF Latest
    <3>4. QED BY <1>5, <2>1, <3>1, <3>2, <3>3
  <2>4. QED BY <1>5, <2>2, <2>3
<1>10. QED BY <1>1, <1>6, <1>7, <1>9, CursorAsks

\* The client's other steps ask for nothing.
LEMMA QuietCursor ==
  ASSUME ShapeInv, Single, Cursor, FloorInv, MsgsGrow(msgs'),
         \/ Leave \/ Type \/ HandleMessageAck \/ HandleAckRead \/ HandleDisconnected \/ Connect
         \/ UNCHANGED vars
  PROVE  Single' /\ Cursor'
<1>1. page' = page /\ Len(inbox) \in Nat
  BY ShapeGives DEF Leave, Type, HandleMessageAck, HandleAckRead, HandleDisconnected, Connect,
                    vars, server
<1>2. CASE Leave
  <2>1. UNCHANGED <<outbox, inbox>> /\ FlagsKept
    BY <1>2, ShapeGives DEF Leave, FlagsKept, ContactOK, ContactT
  <2>2. QED BY <1>1, <2>1, KeptCursor
<1>3. CASE Type
  <2>1. UNCHANGED <<contact, inbox>>  BY <1>3 DEF Type
  <2>2. /\ \A k \in 1..Len(outbox) : outbox'[k] = outbox[k]
        /\ \/ Len(outbox') = Len(outbox) + 1 /\ outbox'[Len(outbox) + 1] = Send(sends) /\ Len(outbox) \in Nat
           \/ outbox' = outbox
    BY <1>3, TypeShape
  <2>3. ~Asks(Send(sends))  BY DEF Asks, Send
  <2>4. \A k \in 1..Len(outbox') : k \in 1..Len(outbox) \/ outbox'[k] = Send(sends)  BY <2>2
  <2>5. \A k \in 1..Len(outbox') : Asks(outbox'[k]) => k \in 1..Len(outbox) /\ outbox'[k] = outbox[k]
    BY <2>2, <2>3, <2>4
  <2>6. QED BY <1>1, <2>1, <2>5, KeptCursor DEF FlagsKept
<1>4. CASE HandleMessageAck \/ HandleAckRead
  <2>1. UNCHANGED <<contact, outbox>> /\ (Receive("message_ack") \/ Receive("ack_read"))
    BY <1>4 DEF HandleMessageAck, HandleAckRead
  <2>2. QED BY <1>1, <2>1, HandledCursor DEF FlagsKept
<1>5. CASE HandleDisconnected
  <2>1. UNCHANGED <<contact, inbox>> /\ Len(outbox') = 0  BY <1>5 DEF HandleDisconnected
  <2>2. QED BY <1>1, <2>1, KeptCursor DEF FlagsKept
<1>6. CASE Connect
  <2>1. UNCHANGED <<contact, inbox>> /\ outbox' = Acks(msgs, Pending(msgs), OutCap)
    BY <1>6 DEF Connect, Connected
  <2>2. msgs \in Seq(EntryT) /\ OutCap \in Nat /\ Pending(msgs) \in SUBSET DOMAIN msgs
    BY ShapeGives, ChatAssumption, UnackedIs DEF MsgsOK
  <2>3. \A k \in 1..Len(outbox') : \E i \in Accepted(Pending(msgs), OutCap) : outbox'[k] = AckRead(msgs[i].id)
    BY <2>1, <2>2, AcksAre, Zenon
  <2>4. \A id : ~Asks(AckRead(id))  BY DEF Asks, AckRead
  <2>5. \A k \in 1..Len(outbox') : ~Asks(outbox'[k])  BY <2>3, <2>4
  <2>6. QED BY <1>1, <2>1, <2>5, KeptCursor DEF FlagsKept
<1>7. CASE UNCHANGED vars  BY <1>1, <1>7, KeptCursor DEF FlagsKept, vars
<1>8. QED BY <1>2, <1>3, <1>4, <1>5, <1>6, <1>7

LEMMA MessageCursor ==
  ASSUME ShapeInv, Single, Cursor, FloorInv, MsgsGrow(msgs'), HandleMessage
  PROVE  Single' /\ Cursor'
<1>1. PICK ms : ms = AppendMessage(msgs, Arrived(Head(inbox).id))  OBVIOUS
<1>2. PICK c : ShowTo(c, ms) /\ c.loading = contact.loading /\ c.loaded = contact.loaded
               /\ c.exhausted = contact.exhausted
  <2>1. ContactOK(contact)  BY ShapeGives
  <2>2. \E c : ShowTo(c, ms) /\ (c = contact \/ c = [contact EXCEPT !.unread = @ + 1])
    BY <1>1 DEF HandleMessage, Arrived
  <2>3. QED BY <2>1, <2>2 DEF ContactOK, ContactT
<1>3. MsgsOK(ms, Len(rows)) /\ page' = page /\ Receive("message")
  BY <1>1, HandleMessageShape DEF HandleMessage, server
<1>4. /\ contact' = c
      /\ \A k \in 1..Len(outbox) : outbox'[k] = outbox[k]
      /\ \A k \in 1..Len(outbox') : k \in 1..Len(outbox) \/ outbox'[k].type = "ack_read"
  BY <1>2, <1>3, ShapeGives, ShowToIs
<1>5. \A k \in 1..Len(outbox') : Asks(outbox'[k]) => k \in 1..Len(outbox) /\ outbox'[k] = outbox[k]
  BY <1>4 DEF Asks
<1>6. QED BY <1>2, <1>3, <1>4, <1>5, HandledCursor DEF FlagsKept

\* A page is the answer to the one request, so nothing is asked any more.
LEMMA HistoryCursor ==
  ASSUME ShapeInv, Single, HandleHistoryResponse
  PROVE  Single' /\ Cursor'
<1>1. PICK p : p = Head(inbox).messages  OBVIOUS
<1>2. PICK c : c = Loaded(contact, p)  OBVIOUS
<1>3. /\ Receive("history_response") /\ page' = page
      /\ \/ outbox' = outbox
         \/ \E shown : MsgsOK(shown, Len(rows)) /\ ShowTo(c, shown)
  BY <1>1, <1>2, HandleHistoryResponseShape DEF HandleHistoryResponse, server
<1>4. 1 \in 1..Len(inbox) /\ Answers(inbox[1])
      /\ \A k \in 1..Len(inbox') : k + 1 \in 1..Len(inbox) /\ inbox'[k] = inbox[k + 1]
  BY <1>3, ReceiveTakes DEF Answers
<1>5. page = NoPage /\ (\A k \in 1..Len(outbox) : ~Asks(outbox[k]))
      /\ \A k \in 1..Len(inbox) : Answers(inbox[k]) => k = 1
  BY <1>4 DEF Single
<1>6. \A k \in 1..Len(outbox') : ~Asks(outbox'[k])
  <2>1. CASE outbox' = outbox  BY <1>5, <2>1
  <2>2. ASSUME NEW shown, MsgsOK(shown, Len(rows)), ShowTo(c, shown)
        PROVE  \A k \in 1..Len(outbox') : ~Asks(outbox'[k])
    <3>1. /\ \A k \in 1..Len(outbox) : outbox'[k] = outbox[k]
          /\ \A k \in 1..Len(outbox') : k \in 1..Len(outbox) \/ outbox'[k].type = "ack_read"
      BY <2>2, ShapeGives, ShowToIs
    <3>2. QED BY <1>5, <3>1 DEF Asks
  <2>3. QED BY <1>3, <2>1, <2>2
<1>7. ~Outstanding'  BY <1>3, <1>4, <1>5, <1>6 DEF Outstanding
<1>8. QED BY <1>7, NothingAsked

\* What the server reads lies before the cursor.
LEMMA RequestCursor ==
  ASSUME ShapeInv, Single, Cursor, FloorInv, HandleHistoryRequest
  PROVE  Single' /\ Cursor'
<1>1. PICK before : before = Head(outbox).before  OBVIOUS
<1>2. PICK p : p = HistoryPage(before)  OBVIOUS
<1>3. /\ Read("history_request") /\ page' = HistoryResponse(p)
      /\ contact' = contact /\ msgs' = msgs /\ inbox' = inbox
  BY <1>1, <1>2 DEF HandleHistoryRequest
<1>4. /\ 1 \in 1..Len(outbox) /\ Asks(outbox[1]) /\ outbox[1].before = before /\ before \in Int
      /\ \A k \in 1..Len(outbox') : k + 1 \in 1..Len(outbox) /\ outbox'[k] = outbox[k + 1]
  <2>1. /\ Head(outbox) \in ClientFrame /\ Head(outbox) = outbox[1]
        /\ Head(outbox).type = "history_request" /\ 1 \in 1..Len(outbox)
        /\ \A k \in 1..Len(outbox') : k + 1 \in 1..Len(outbox) /\ outbox'[k] = outbox[k + 1]
    BY <1>3, ReadTakes
  <2>2. QED BY <1>1, <2>1, ClientFrameIs DEF Asks
<1>5. PICK m \in 0..Len(rows), s \in 0..PageSize :
        /\ \A i \in 1..Len(rows) : Older(before, i) <=> i <= m
        /\ s <= m /\ Len(p) = s
        /\ \A k \in 1..s : p[k].id = m - k + 1
  BY <1>2, <1>4, ShapeGives, PageIs
<1>6. m \in Nat /\ s \in Nat /\ Len(rows) \in Nat  BY ShapeGives, ChatAssumption
<1>7. contact.loading /\ (\A k \in 1..Len(outbox) : Asks(outbox[k]) => k = 1)
      /\ \A k \in 1..Len(inbox) : ~Answers(inbox[k])
  BY <1>4 DEF Single, Outstanding
<1>8. \A k \in 1..Len(outbox') : ~Asks(outbox'[k])  BY <1>4, <1>7
<1>9. Falling(p)  BY <1>5, <1>6 DEF Falling
<1>10. contact.loaded => ~contact.exhausted /\ Under(p, msgs[1].at)
  <2>1. SUFFICES ASSUME contact.loaded PROVE ~contact.exhausted /\ Under(p, msgs[1].at)  OBVIOUS
  <2>2. ~contact.exhausted /\ before # Latest /\ before <= msgs[1].at
    BY <1>4, <2>1 DEF Cursor, Outstanding
  <2>3. msgs[1].at \in Int
    <3>1. 1 \in 1..Len(msgs) /\ msgs \in Seq(EntryT)
      BY <2>1, <2>2, ShapeGives DEF FloorInv, Floor, MsgsOK
    <3>2. msgs[1] \in EntryT  BY <3>1
    <3>3. QED BY <3>2 DEF EntryT
  <2>4. ASSUME NEW k \in 1..Len(p) PROVE 2 * p[k].id < msgs[1].at
    <3>1. PICK id : id = p[k].id  OBVIOUS
    <3>2. id \in 1..Len(rows) /\ id <= m  BY <1>5, <1>6, <2>4, <3>1
    <3>3. 2 * id < before  BY <1>5, <2>2, <3>2 DEF Older
    <3>4. QED BY <1>4, <2>2, <2>3, <3>1, <3>2, <3>3
  <2>5. QED BY <2>2, <2>4 DEF Under
<1>11. page'.messages = p  BY <1>3 DEF HistoryResponse
<1>12. Single'  BY <1>3, <1>7, <1>8 DEF Single
<1>13. Cursor'  BY <1>3, <1>7, <1>8, <1>9, <1>10, <1>11 DEF Cursor
<1>14. QED BY <1>12, <1>13

LEMMA SendCursor ==
  ASSUME ShapeInv, Single, Cursor, SendPage
  PROVE  Single' /\ Cursor'
<1>1. /\ page # NoPage /\ page' = NoPage /\ ToClient(page)
      /\ outbox' = outbox /\ contact' = contact /\ msgs' = msgs
  BY DEF SendPage
<1>2. /\ \A k \in 1..Len(outbox') : ~Asks(outbox'[k])
      /\ \A k \in 1..Len(inbox) : ~Answers(inbox[k])
      /\ contact.loading
  BY <1>1 DEF Single, Outstanding
<1>3. /\ contact.loaded => ~contact.exhausted /\ Under(page.messages, msgs[1].at)
      /\ Falling(page.messages)
  BY <1>1 DEF Cursor, Outstanding
<1>4. \A k \in 1..Len(inbox') : Answers(inbox'[k]) => inbox'[k] = page /\ k = Len(inbox) + 1
  <2>1. CASE inbox' = inbox  BY <1>2, <2>1
  <2>2. CASE inbox' = Append(inbox, page)
    <3>1. inbox \in Seq(ServerFrame) /\ page \in ServerFrame
      BY <1>1, ShapeGives, MakesServerFrame DEF ServerShape
    <3>2. /\ Len(inbox') = Len(inbox) + 1 /\ inbox'[Len(inbox) + 1] = page /\ Len(inbox) \in Nat
          /\ \A k \in 1..Len(inbox) : inbox'[k] = inbox[k]
      BY <2>2, <3>1
    <3>3. \A k \in 1..Len(inbox') : k \in 1..Len(inbox) \/ k = Len(inbox) + 1  BY <3>2
    <3>4. QED BY <1>2, <3>2, <3>3
  <2>3. QED BY <1>1, <2>1, <2>2 DEF ToClient, Routed
<1>5. Single'
  <2>1. \A k, l \in 1..Len(inbox') : Answers(inbox'[k]) /\ Answers(inbox'[l]) => k = l  BY <1>4
  <2>2. contact'.loading /\ page' = NoPage  BY <1>1, <1>2
  <2>3. \A k \in 1..Len(outbox') : ~Asks(outbox'[k])  BY <1>2
  <2>4. QED BY <2>1, <2>2, <2>3 DEF Single
<1>6. Cursor'  BY <1>1, <1>2, <1>3, <1>4 DEF Cursor
<1>7. QED BY <1>5, <1>6

LEMMA StepCursor ==
  ASSUME Zone = 0, ShapeInv, Books, AckFresh, AtBooks, Single, Cursor, FloorInv, [Next]_vars
  PROVE  Single' /\ Cursor'
<1>1. CASE HandleHistoryResponse  BY <1>1, HistoryCursor
<1>2. CASE HandleHistoryRequest  BY <1>2, RequestCursor
<1>3. CASE SendPage  BY <1>3, SendCursor
<1>4. CASE LoadMore  BY <1>4, LoadMoreCursor
<1>5. CASE MsgsGrow(msgs')
  BY <1>1, <1>2, <1>3, <1>4, <1>5, QuietCursor, MessageCursor, OpenCursor, ListCursor, ServerCursor
     DEF Next, ClientStep, ServerStep
<1>6. QED BY <1>1, <1>5, StepGrow

LEMMA ShownOnceIs ==
  ASSUME ShapeInv
  PROVE  ShownOnce <=> Once(msgs)
<1>1. DOMAIN msgs = 1..Len(msgs)  BY ShapeGives DEF MsgsOK
<1>2. QED BY <1>1 DEF ShownOnce, Once

LEMMA FacesOrder ==
  ASSUME NEW ms, NEW ns, SameFaces(ms, ns), Len(ms) \in Nat
  PROVE  (Once(ms) => Once(ns)) /\ (Floor(ms) => Floor(ns))
<1>1. /\ Len(ns) = Len(ms)
      /\ \A i \in 1..Len(ms) : ns[i].id = ms[i].id /\ ns[i].cm = ms[i].cm /\ ns[i].at = ms[i].at
  BY DEF SameFaces
<1>2. \A j \in 1..Len(ms) : \A i \in 1..(j - 1) : i \in 1..Len(ms)  OBVIOUS
<1>3. Once(ms) => Once(ns)  BY <1>1, <1>2 DEF Once
<1>4. ASSUME Floor(ms) PROVE Floor(ns)
  <2>1. 1 \in 1..Len(ms)  BY <1>4 DEF Floor
  <2>2. ns[1].at = ms[1].at  BY <1>1, <2>1
  <2>3. QED BY <1>1, <1>2, <1>4, <2>2 DEF Floor
<1>5. QED BY <1>3, <1>4

\* A step that is not a page keeps the order.
LEMMA GrowOnce ==
  ASSUME ShapeInv, MsgsGrow(msgs'), Once(msgs)
  PROVE  Once(msgs')
<1>1. SUFFICES ASSUME NEW j \in 1..Len(msgs'), NEW i \in 1..(j - 1),
                      msgs'[i].id = msgs'[j].id, msgs'[j].id # 0
               PROVE  \E k \in 1..(j - 1) : msgs'[k].id > msgs'[j].id
  BY DEF Once
<1>2. Len(msgs) \in Nat /\ msgs \in Seq(EntryT)  BY ShapeGives DEF MsgsOK
<1>3. i \in 1..Len(msgs') /\ i # j  BY <1>1, <1>2 DEF MsgsGrow
<1>4. j \in 1..Len(msgs) /\ msgs'[j].id = msgs[j].id  BY <1>1, <1>3 DEF MsgsGrow
<1>5. i \in 1..Len(msgs) /\ msgs'[i].id = msgs[i].id  BY <1>1, <1>3 DEF MsgsGrow
<1>6. PICK k \in 1..(j - 1) : msgs[k].id > msgs[j].id  BY <1>1, <1>4, <1>5 DEF Once
<1>7. k \in 1..Len(msgs) /\ msgs[k].id # 0
  <2>1. k \in 1..Len(msgs)  BY <1>2, <1>4
  <2>2. msgs[k] \in EntryT /\ msgs[j] \in EntryT  BY <1>2, <1>4, <2>1
  <2>3. msgs[k].id \in Nat /\ msgs[j].id \in Nat  BY <2>2 DEF EntryT
  <2>4. QED BY <1>6, <2>1, <2>3
<1>8. msgs'[k].id = msgs[k].id  BY <1>7 DEF MsgsGrow
<1>9. QED BY <1>4, <1>6, <1>8

LEMMA GrowFloor ==
  ASSUME ShapeInv, ShapeInv', AtBooks, AtBooks', MsgsGrow(msgs'), Floor(msgs)
  PROVE  Floor(msgs')
<1>1. Len(msgs) \in Nat /\ msgs \in Seq(EntryT) /\ Len(rows) \in Nat  BY ShapeGives DEF MsgsOK
<1>2. msgs' \in Seq(EntryT) /\ Len(msgs') \in Nat  BY DEF ShapeInv, ChatShape, ClientShape
<1>3. PICK n \in 1..Len(msgs) : msgs[n].id # 0 /\ msgs[1].at <= 2 * msgs[n].id  BY DEF Floor
<1>4. PICK top \in Nat : top = msgs[1].at /\ top = msgs'[1].at /\ top <= 2 * Len(rows) + 1
  <2>1. 1 \in 1..Len(msgs)  BY <1>1, <1>3
  <2>2. msgs[1] \in EntryT  BY <1>1, <2>1
  <2>3. msgs[1].at \in Nat  BY <2>2 DEF EntryT
  <2>4. msgs'[1].at = msgs[1].at /\ msgs[1].at <= 2 * Len(rows) + 1
    BY <2>1 DEF MsgsGrow, AtBooks, EntryAt
  <2>5. QED BY <2>3, <2>4
<1>5. \A i \in 1..Len(msgs) : i \in 1..Len(msgs')  BY <1>1 DEF MsgsGrow
<1>6. n \in 1..Len(msgs') /\ msgs'[n].id # 0 /\ top <= 2 * msgs'[n].id
  BY <1>3, <1>4, <1>5 DEF MsgsGrow
<1>7. \A j \in 1..Len(msgs') : j \in 1..Len(msgs) \/ (j = Len(msgs) + 1 /\ Len(msgs') = Len(msgs) + 1)
  BY <1>1 DEF MsgsGrow
<1>8. ASSUME NEW j \in 1..Len(msgs'), msgs'[j].cm # 0
      PROVE  top <= msgs'[j].at
  <2>1. CASE j \in 1..Len(msgs)  BY <1>4, <1>8, <2>1 DEF MsgsGrow, Floor
  <2>2. CASE j = Len(msgs) + 1 /\ Len(msgs') = Len(msgs) + 1  BY <1>4, <1>8, <2>2 DEF MsgsGrow
  <2>3. QED BY <1>7, <2>1, <2>2
<1>9. ASSUME NEW j \in 1..Len(msgs'), msgs'[j].id # 0, 2 * msgs'[j].id < top
      PROVE  \E k \in 1..(j - 1) : msgs'[k].id > msgs'[j].id
  <2>1. msgs'[j] \in EntryT /\ msgs'[n] \in EntryT  BY <1>2, <1>6
  <2>2. msgs'[j].id \in Nat /\ msgs'[n].id \in Nat /\ msgs'[j].at \in Nat  BY <2>1 DEF EntryT
  <2>3. CASE j \in 1..Len(msgs) /\ msgs'[j].id = msgs[j].id
    <3>1. PICK k \in 1..(j - 1) : msgs[k].id > msgs[j].id  BY <1>4, <1>9, <2>3 DEF Floor
    <3>2. k \in 1..Len(msgs)  BY <1>1, <2>3
    <3>3. msgs[k] \in EntryT  BY <1>1, <3>2
    <3>4. msgs[k].id \in Nat  BY <3>3 DEF EntryT
    <3>5. msgs[k].id # 0  BY <2>2, <2>3, <3>1, <3>4
    <3>6. msgs'[k].id = msgs[k].id  BY <3>2, <3>5 DEF MsgsGrow
    <3>7. QED BY <2>3, <3>1, <3>6
  <2>4. CASE j \in 1..Len(msgs) /\ msgs'[j].id # msgs[j].id
    <3>1. msgs'[j].cm # 0  BY <2>4 DEF MsgsGrow
    <3>2. top <= msgs'[j].at  BY <1>8, <3>1
    <3>3. msgs'[j].at <= 2 * msgs'[j].id  BY <1>9 DEF AtBooks, EntryAt
    <3>4. QED BY <1>9, <2>2, <3>2, <3>3
  <2>5. CASE j = Len(msgs) + 1
    <3>1. n \in 1..(j - 1)  BY ONLY <1>1, <2>5, n \in 1..Len(msgs)
    <3>2. msgs'[n].id > msgs'[j].id  BY ONLY <1>6, <1>9, <2>2, top \in Nat
    <3>3. QED BY <3>1, <3>2
  <2>6. QED BY <1>7, <2>3, <2>4, <2>5
<1>10. QED BY <1>4, <1>6, <1>8, <1>9 DEF Floor

\* Only a page changes what is known of the history.
LEMMA FlagsStay ==
  ASSUME ShapeInv, [Next]_vars, ~HandleHistoryResponse
  PROVE  contact'.loaded = contact.loaded /\ contact'.exhausted = contact.exhausted
<1>1. ContactOK(contact) /\ contact \in ContactT  BY ShapeGives DEF ContactOK
<1>2. CASE Open \/ HandleContactList
  <2>1. PICK c, box, gone : /\ MaybeLoadHistory(c, box, gone) /\ ContactOK(c)
                            /\ c.loaded = contact.loaded /\ c.exhausted = contact.exhausted
    BY <1>2, OpenIs, ListIs
  <2>2. contact' = c \/ contact' = [c EXCEPT !.loading = TRUE]
    BY <2>1 DEF MaybeLoadHistory, RequestHistory
  <2>3. QED BY <2>1, <2>2 DEF ContactOK, ContactT
<1>3. CASE Leave \/ LoadMore  BY <1>1, <1>3 DEF Leave, LoadMore, RequestHistory, ContactT
<1>4. CASE HandleMessage
  <2>1. contact' = contact \/ contact' = [contact EXCEPT !.unread = @ + 1]
    BY <1>4 DEF HandleMessage, ShowTo
  <2>2. QED BY <1>1, <2>1 DEF ContactT
<1>5. QED BY <1>2, <1>3, <1>4, Leaves

\* The entries of a page: oldest first, as old as their ids say.
LEMMA EntriesOrdered ==
  ASSUME ShapeInv, NEW p \in Seq(Item), \A i \in 1..Len(p) : p[i].id <= Len(rows), Falling(p),
         NEW es, es = Entries(p)
  PROVE  /\ MsgsOK(es, Len(rows)) /\ Len(es) = Len(p) /\ Len(es) \in Nat
         /\ \A i \in 1..Len(es) : es[i].cm = 0 /\ es[i].id \in Id /\ es[i].at = 2 * es[i].id
         /\ \A j \in 1..Len(es) : \A i \in 1..(j - 1) : es[i].id < es[j].id
         /\ \A at : Under(p, at) => \A i \in 1..Len(es) : 2 * es[i].id < at
<1>1. /\ MsgsOK(es, Len(rows)) /\ Len(es) = Len(p)
      /\ \A i \in 1..Len(p) : \E k \in 1..Len(p) :
           /\ k = Len(p) - i + 1
           /\ es[i].id = p[k].id /\ es[i].id \in Id /\ es[i].cm = 0 /\ es[i].at = 2 * p[k].id
  BY ShapeGives, EntriesAre
<1>2. Len(p) \in Nat  OBVIOUS
<1>3. ASSUME NEW j \in 1..Len(es), NEW i \in 1..(j - 1)
      PROVE  es[i].id < es[j].id
  <2>1. i \in 1..Len(p) /\ j \in 1..Len(p)  BY <1>1, <1>2, <1>3
  <2>2. PICK k \in 1..Len(p) : k = Len(p) - i + 1 /\ es[i].id = p[k].id  BY <1>1, <2>1
  <2>3. PICK l \in 1..Len(p) : l = Len(p) - j + 1 /\ es[j].id = p[l].id  BY <1>1, <2>1
  <2>4. l \in 1..(k - 1)  BY <1>2, <2>1, <2>2, <2>3
  <2>5. p[l].id > p[k].id  BY <2>4 DEF Falling
  <2>6. p[l] \in Item /\ p[k] \in Item  OBVIOUS
  <2>7. p[l].id \in Nat /\ p[k].id \in Nat  BY <2>6 DEF Item, Id
  <2>8. QED BY <2>2, <2>3, <2>5, <2>7
<1>4. ASSUME NEW at, Under(p, at), NEW i \in 1..Len(es)
      PROVE  2 * es[i].id < at
  <2>1. PICK k \in 1..Len(p) : es[i].id = p[k].id  BY <1>1, <1>4
  <2>2. QED BY <1>4, <2>1 DEF Under
<1>5. QED BY <1>1, <1>2, <1>3, <1>4

\* mergeInitialHistory: no id twice, and nothing typed is older than the page's
\* first entry unless it is the oldest itself.
LEMMA MergedOrder ==
  ASSUME ShapeInv, Distinct(msgs), NEW p \in Seq(Item), p # <<>>,
         \A i \in 1..Len(p) : p[i].id <= Len(rows), Falling(p),
         NEW shown \in MergeInitialHistory(msgs, Entries(p)),
         \A i \in 1..Len(shown) : EntryAt(shown[i])
  PROVE  Once(shown) /\ Floor(shown)
<1>1. PICK es : es = Entries(p)  OBVIOUS
<1>2. /\ MsgsOK(es, Len(rows)) /\ Len(es) = Len(p) /\ Len(es) \in Nat
      /\ \A i \in 1..Len(es) : es[i].cm = 0 /\ es[i].id \in Id /\ es[i].at = 2 * es[i].id
      /\ \A j \in 1..Len(es) : \A i \in 1..(j - 1) : es[i].id < es[j].id
  BY <1>1, EntriesOrdered
<1>3. msgs \in Seq(EntryT) /\ es \in Seq(EntryT)  BY <1>2, ShapeGives DEF MsgsOK
<1>4. /\ shown \in Seq(EntryT)
      /\ \A k \in 1..Len(shown) : \/ \E i \in 1..Len(msgs) : shown[k] = msgs[i]
                                  \/ \E j \in 1..Len(es) : /\ shown[k] = es[j]
                                                           /\ \A i \in 1..Len(msgs) : msgs[i].id # es[j].id
      /\ \A i \in 1..Len(msgs) : \E k \in 1..Len(shown) : shown[k] = msgs[i]
      /\ \A j \in 1..Len(es) : \/ \E i \in 1..Len(msgs) : msgs[i].id = es[j].id
                               \/ \E k \in 1..Len(shown) : shown[k] = es[j]
      /\ \A l \in 1..Len(shown) : \A k \in 1..(l - 1) : shown[k] # shown[l] /\ shown[k].at <= shown[l].at
  <2>1. shown \in MergeInitialHistory(msgs, es)  BY <1>1
  <2>2. QED BY ONLY <1>3, <2>1, MergedFrom
<1>5. Len(shown) \in Nat /\ Len(p) \in Nat /\ Len(p) # 0  BY <1>4
<1>6. \A k \in 1..Len(shown) : shown[k].at \in Nat /\ shown[k].id \in Nat
  <2>1. \A k \in 1..Len(shown) : shown[k] \in EntryT  BY <1>4
  <2>2. QED BY <2>1 DEF EntryT
<1>7. \A i, j \in 1..Len(es) : es[i].id = es[j].id => i = j
  <2>1. SUFFICES ASSUME NEW i \in 1..Len(es), NEW j \in 1..Len(es), es[i].id = es[j].id, i # j
                 PROVE  FALSE
    OBVIOUS
  <2>2. es[i].id \in Nat /\ es[j].id \in Nat  BY <1>2 DEF Id
  <2>3. i \in 1..(j - 1) \/ j \in 1..(i - 1)  BY <1>2, <2>1
  <2>4. QED BY <1>2, <2>1, <2>2, <2>3
<1>8. Once(shown)
  <2>1. SUFFICES ASSUME NEW j \in 1..Len(shown), NEW i \in 1..(j - 1),
                        shown[i].id = shown[j].id, shown[j].id # 0
                 PROVE  FALSE
    BY DEF Once
  <2>2. shown[i] # shown[j] /\ i \in 1..Len(shown)  BY <1>4, <1>5
  <2>6. \/ \E n \in 1..Len(msgs) : shown[j] = msgs[n]
        \/ \E n \in 1..Len(es) : /\ shown[j] = es[n]
                                 /\ \A m \in 1..Len(msgs) : msgs[m].id # es[n].id
    BY <1>4
  <2>3. CASE \E n \in 1..Len(msgs) : shown[i] = msgs[n]
    <3>1. PICK n \in 1..Len(msgs) : shown[i] = msgs[n]  BY <2>3
    <3>2. PICK m \in 1..Len(msgs) : shown[j] = msgs[m]  BY ONLY <2>1, <2>6, <3>1
    <3>3. n = m  BY <2>1, <3>1, <3>2 DEF Distinct
    <3>4. QED BY <2>2, <3>1, <3>2, <3>3
  <2>4. CASE \E n \in 1..Len(es) : /\ shown[i] = es[n]
                                   /\ \A m \in 1..Len(msgs) : msgs[m].id # es[n].id
    <3>1. PICK n \in 1..Len(es) : /\ shown[i] = es[n]
                                  /\ \A m \in 1..Len(msgs) : msgs[m].id # es[n].id
      BY <2>4
    <3>2. PICK m \in 1..Len(es) : shown[j] = es[m]  BY ONLY <2>1, <2>6, <3>1
    <3>3. n = m  BY ONLY <1>7, <2>1, <3>1, <3>2
    <3>4. QED BY <2>2, <3>1, <3>2, <3>3
  <2>5. QED BY <1>4, <2>2, <2>3, <2>4
<1>9. \A j \in 1..Len(shown) : shown[1].at <= shown[j].at
  <2>1. TAKE j \in 1..Len(shown)
  <2>2. CASE j = 1  BY <1>6, <2>2
  <2>3. CASE j # 1
    <3>1. 1 \in 1..(j - 1)  BY <1>5, <2>3
    <3>2. QED BY <1>4, <3>1
  <2>4. QED BY <2>2, <2>3
<1>10. PICK k \in 1..Len(shown) : shown[k].id # 0
  <2>1. 1 \in 1..Len(es) /\ es[1].id \in Id  BY <1>2, <1>5
  <2>2. \E k \in 1..Len(shown) : shown[k].id = es[1].id  BY <1>4, <2>1
  <2>3. es[1].id # 0  BY <2>1 DEF Id
  <2>4. QED BY <2>2, <2>3
<1>11. 1 \in 1..Len(shown)  BY <1>5, <1>10
<1>12. \A j \in 1..Len(shown) : shown[j].id # 0 => shown[1].at <= 2 * shown[j].id
  <2>1. SUFFICES ASSUME NEW j \in 1..Len(shown), shown[j].id # 0
                 PROVE  shown[1].at <= 2 * shown[j].id
    OBVIOUS
  <2>2. shown[j].at <= 2 * shown[j].id /\ shown[1].at <= shown[j].at  BY <1>9, <2>1 DEF EntryAt
  <2>3. QED BY <1>6, <1>11, <2>2
<1>13. \A j \in 1..Len(shown) : ~(shown[j].id # 0 /\ 2 * shown[j].id < shown[1].at)
  BY <1>6, <1>11, <1>12
<1>14. Floor(shown)  BY <1>9, <1>10, <1>12, <1>13 DEF Floor
<1>15. QED BY <1>8, <1>14

\* prependHistory: the page goes below the floor.
LEMMA PrependedOrder ==
  ASSUME ShapeInv, Once(msgs), Floor(msgs), NEW p \in Seq(Item), p # <<>>,
         \A i \in 1..Len(p) : p[i].id <= Len(rows), Falling(p), Under(p, msgs[1].at)
  PROVE  Once(Entries(p) \o msgs) /\ Floor(Entries(p) \o msgs)
<1>1. PICK es : es = Entries(p)  OBVIOUS
<1>2. PICK shown : shown = es \o msgs  OBVIOUS
<1>3. /\ MsgsOK(es, Len(rows)) /\ Len(es) = Len(p) /\ Len(es) \in Nat
      /\ \A i \in 1..Len(es) : es[i].cm = 0 /\ es[i].id \in Id /\ es[i].at = 2 * es[i].id
      /\ \A j \in 1..Len(es) : \A i \in 1..(j - 1) : es[i].id < es[j].id
  BY <1>1, EntriesOrdered
<1>4. msgs \in Seq(EntryT) /\ es \in Seq(EntryT)  BY <1>3, ShapeGives DEF MsgsOK
<1>5. PICK n \in Nat : n = Len(es) /\ n >= 1
  <2>1. Len(p) \in Nat /\ Len(p) # 0  OBVIOUS
  <2>2. QED BY <1>3, <2>1
<1>6. /\ shown \in Seq(EntryT) /\ Len(shown) = n + Len(msgs) /\ Len(msgs) \in Nat /\ Len(shown) \in Nat
      /\ \A k \in 1..n : shown[k] = es[k]
      /\ \A k \in 1..Len(msgs) : shown[n + k] = msgs[k]
  BY <1>2, <1>4, <1>5, ConcatIs
<1>7. \A k \in 1..Len(shown) : shown[k].id \in Nat
  <2>1. \A k \in 1..Len(shown) : shown[k] \in EntryT  BY <1>6
  <2>2. QED BY <2>1 DEF EntryT
<1>8. PICK top \in Nat : top = msgs[1].at
  <2>1. 1 \in 1..Len(msgs)  BY DEF Floor
  <2>2. msgs[1] \in EntryT  BY <1>4, <2>1
  <2>3. QED BY <2>2 DEF EntryT
<1>9. \A i \in 1..n : es[i].id \in Nat /\ es[i].id # 0 /\ 2 * es[i].id < top
  <2>1. TAKE i \in 1..n
  <2>2. 2 * es[i].id < msgs[1].at  BY <1>1, <1>5, EntriesOrdered
  <2>3. es[i].id \in Id  BY <1>3, <1>5
  <2>4. QED BY <1>8, <2>2, <2>3 DEF Id
<1>10. ASSUME NEW j \in 1..Len(shown)
       PROVE  j \in 1..n \/ (j - n \in 1..Len(msgs) /\ shown[j] = msgs[j - n])
  <2>1. CASE j <= n  BY <1>5, <2>1
  <2>2. CASE j > n
    <3>0. j - n \in Int  BY <1>5, <1>6
    <3>1. PICK l \in Int : l = j - n  BY <3>0
    <3>2. l \in 1..Len(msgs) /\ j = n + l  BY <1>5, <1>6, <2>2, <3>1
    <3>3. shown[j] = msgs[l]  BY <1>6, <3>2
    <3>4. QED BY <3>1, <3>2, <3>3
  <2>3. QED
    BY <1>5, <2>1, <2>2
\* What stands behind something newer still does.
<1>11. ASSUME NEW j \in 1..Len(shown), NEW m \in 1..Len(msgs), m = j - n, shown[j] = msgs[m],
              \E k \in 1..(m - 1) : msgs[k].id > msgs[m].id
       PROVE  \E k \in 1..(j - 1) : shown[k].id > shown[j].id
  <2>1. PICK k \in 1..(m - 1) : msgs[k].id > msgs[m].id  BY <1>11
  <2>2. PICK l \in 1..(j - 1) : l = n + k  BY <1>5, <1>11
  <2>3. k \in 1..Len(msgs)  BY <1>6, <1>11
  <2>4. shown[l] = msgs[k]  BY <1>6, <2>2, <2>3
  <2>5. QED BY <1>11, <2>1, <2>4
<1>12. Once(shown)
  <2>1. SUFFICES ASSUME NEW j \in 1..Len(shown), NEW i \in 1..(j - 1),
                        shown[i].id = shown[j].id, shown[j].id # 0
                 PROVE  \E k \in 1..(j - 1) : shown[k].id > shown[j].id
    BY DEF Once
  <2>2. i \in 1..Len(shown)  BY <1>6
  <2>3. CASE j \in 1..n
    <3>1. es[i].id < es[j].id /\ i \in 1..n  BY <1>3, <1>5, <2>3
    <3>2. shown[i] = es[i] /\ shown[j] = es[j]  BY <1>6, <2>3, <3>1
    <3>3. QED BY <1>9, <2>1, <2>3, <3>1, <3>2
  <2>4. ASSUME NEW m \in 1..Len(msgs), m = j - n, shown[j] = msgs[m]
        PROVE  \E k \in 1..(j - 1) : shown[k].id > shown[j].id
    <3>1. \E k \in 1..(m - 1) : msgs[k].id > msgs[m].id
      <4>1. CASE i \in 1..n
        <5>1. shown[i] = es[i] /\ 2 * es[i].id < top  BY <1>6, <1>9, <4>1
        <5>2. msgs[m].id = es[i].id /\ msgs[m].id # 0  BY <2>1, <2>4, <5>1
        <5>3. QED BY <1>8, <5>1, <5>2 DEF Floor
      <4>2. ASSUME NEW l \in 1..Len(msgs), l = i - n, shown[i] = msgs[l]
            PROVE  \E k \in 1..(m - 1) : msgs[k].id > msgs[m].id
        <5>1. l \in 1..(m - 1)  BY <1>5, <1>6, <2>4, <4>2
        <5>2. QED BY <2>1, <2>4, <4>2, <5>1 DEF Once
      <4>3. QED BY <1>10, <2>2, <4>1, <4>2
    <3>2. QED BY <1>11, <2>4, <3>1
  <2>5. QED BY <1>10, <2>3, <2>4
<1>13. shown[1] = es[1] /\ 1 \in 1..n /\ 1 \in 1..Len(shown)  BY <1>5, <1>6
<1>14. PICK low \in Nat : low = es[1].id /\ low # 0 /\ shown[1].at = 2 * low /\ 2 * low < top
  BY <1>3, <1>5, <1>9, <1>13
<1>15. \E k \in 1..Len(shown) : shown[k].id # 0 /\ shown[1].at <= 2 * shown[k].id
  <2>1. shown[1].id # 0 /\ shown[1].at <= 2 * shown[1].id  BY ONLY <1>13, <1>14
  <2>2. QED BY ONLY <1>13, <2>1
<1>16. ASSUME NEW j \in 1..Len(shown), shown[j].cm # 0
       PROVE  shown[1].at <= shown[j].at
  <2>1. j \notin 1..n  BY <1>3, <1>5, <1>6, <1>16
  <2>2. PICK m \in 1..Len(msgs) : m = j - n /\ shown[j] = msgs[m]  BY <1>10, <2>1
  <2>3. top <= msgs[m].at  BY <1>8, <1>16, <2>2 DEF Floor
  <2>4. msgs[m] \in EntryT  BY <1>4
  <2>5. msgs[m].at \in Nat  BY <2>4 DEF EntryT
  <2>6. shown[1].at < top /\ shown[1].at \in Nat  BY ONLY <1>14, low \in Nat, top \in Nat
  <2>7. shown[j].at = msgs[m].at  BY ONLY <2>2
  <2>8. QED BY ONLY <2>3, <2>5, <2>6, <2>7, top \in Nat
<1>17. ASSUME NEW j \in 1..Len(shown), shown[j].id # 0, 2 * shown[j].id < shown[1].at
       PROVE  \E k \in 1..(j - 1) : shown[k].id > shown[j].id
  <2>1. j \notin 1..n
    <3>1. SUFFICES ASSUME j \in 1..n PROVE FALSE  OBVIOUS
    <3>2. shown[j] = es[j] /\ es[j].id \in Nat /\ 2 * es[j].id < 2 * low
      BY <1>6, <1>9, <1>14, <1>17, <3>1
    <3>3. CASE j = 1  BY <1>14, <3>2, <3>3
    <3>4. CASE j # 1
      <4>1. 1 \in 1..(j - 1)  BY <3>1, <3>4
      <4>2. es[1].id < es[j].id  BY <1>3, <1>5, <3>1, <4>1
      <4>3. QED BY <1>14, <3>2, <4>2
    <3>5. QED BY <3>3, <3>4
  <2>2. PICK m \in 1..Len(msgs) : m = j - n /\ shown[j] = msgs[m]  BY <1>10, <2>1
  <2>3. msgs[m].id # 0 /\ 2 * msgs[m].id < top
    <3>1. shown[j].id \in Nat  BY <1>7
    <3>2. PICK id \in Nat : id = shown[j].id /\ id = msgs[m].id  BY <2>2, <3>1
    <3>3. id # 0 /\ 2 * id < 2 * low  BY <1>14, <1>17, <3>2
    <3>4. 2 * id < top  BY <1>14, <3>3
    <3>5. QED BY <3>2, <3>3, <3>4
  <2>4. \E k \in 1..(m - 1) : msgs[k].id > msgs[m].id  BY <1>8, <2>3 DEF Floor
  <2>5. QED BY <1>11, <2>2, <2>4
<1>18. Floor(shown)  BY <1>15, <1>16, <1>17 DEF Floor
<1>19. QED BY <1>1, <1>2, <1>12, <1>18

\* A page keeps the order and gives a floor, unless it ends the history.
LEMMA HistoryOrder ==
  ASSUME ShapeInv, Books, AtBooks', Cursor, FloorInv, Once(msgs), HandleHistoryResponse
  PROVE  FloorInv' /\ Once(msgs')
<1>1. PICK p : p = Head(inbox).messages  OBVIOUS
<1>2. PICK c : c = Loaded(contact, p)  OBVIOUS
<1>3. /\ Receive("history_response") /\ p \in Seq(Item)
      /\ \A i \in 1..Len(p) : p[i].id <= Len(rows)
      /\ \/ ~contact.known /\ UNCHANGED <<contact, msgs, outbox, lost>>
         \/ /\ contact.known /\ p = <<>> /\ contact' = c
            /\ UNCHANGED <<msgs, outbox, lost>>
         \/ /\ contact.known /\ p # <<>>
            /\ \E shown \in Results(p) : MsgsOK(shown, Len(rows)) /\ ShowTo(c, shown)
  BY <1>1, <1>2, HandleHistoryResponseShape
<1>4. 1 \in 1..Len(inbox) /\ Answers(inbox[1]) /\ inbox[1].messages = p
  BY <1>1, <1>3, ReceiveTakes DEF Answers
<1>5. Outstanding  BY <1>4 DEF Outstanding
<1>6. Falling(p) /\ (contact.loaded => ~contact.exhausted /\ Under(p, msgs[1].at))
  BY <1>4, <1>5 DEF Cursor
<1>7. CASE UNCHANGED <<contact, msgs>>  BY <1>7 DEF FloorInv, Once, Floor
<1>8. CASE p = <<>> /\ contact' = c /\ UNCHANGED msgs
  <2>1. Len(p) = 0 /\ PageSize \in Nat /\ PageSize # 0  BY <1>8, ChatAssumption
  <2>2. NothingOlder(p)  BY <2>1 DEF NothingOlder
  <2>3. c.exhausted  BY <1>2, <2>2, ShapeGives DEF Loaded, ContactOK, ContactT
  <2>4. QED BY <1>8, <2>3 DEF FloorInv, Once
<1>9. ASSUME p # <<>>, NEW shown \in Results(p), MsgsOK(shown, Len(rows)), ShowTo(c, shown)
      PROVE  Floor(msgs') /\ Once(msgs')
  <2>1. SameFaces(shown, msgs') /\ Len(shown) \in Nat  BY <1>9, ShapeGives, ShowToIs DEF MsgsOK
  <2>2. CASE contact.loaded
    <3>1. Floor(msgs) /\ shown = Entries(p) \o msgs  BY <1>6, <1>9, <2>2 DEF FloorInv, Results
    <3>2. Under(p, msgs[1].at)  BY <1>6, <2>2
    <3>3. Once(shown) /\ Floor(shown)  BY <1>3, <1>6, <1>9, <3>1, <3>2, PrependedOrder
    <3>4. QED BY <2>1, <3>3, FacesOrder
  <2>3. CASE ~contact.loaded
    <3>1. Distinct(msgs) /\ shown \in MergeInitialHistory(msgs, Entries(p))
      BY <1>9, <2>3 DEF Books, Results
    <3>2. rows' = rows  BY DEF HandleHistoryResponse, server
    <3>3. \A i \in 1..Len(shown) : EntryAt(shown[i])
      <4>1. \A i \in 1..Len(shown) :
              /\ i \in 1..Len(msgs') /\ msgs'[i].id = shown[i].id
              /\ msgs'[i].cm = shown[i].cm /\ msgs'[i].at = shown[i].at
        BY <2>1 DEF SameFaces
      <4>2. QED BY <3>2, <4>1 DEF AtBooks, EntryAt
    <3>4. Once(shown) /\ Floor(shown)  BY <1>3, <1>6, <1>9, <3>1, <3>3, MergedOrder
    <3>5. QED BY <2>1, <3>4, FacesOrder
  <2>4. QED BY <2>2, <2>3
<1>10. QED BY <1>3, <1>7, <1>8, <1>9 DEF FloorInv

LEMMA StepOrder ==
  ASSUME ShapeInv, ShapeInv', Books, AckFresh, AtBooks, AtBooks', Cursor, FloorInv, Once(msgs),
         [Next]_vars
  PROVE  FloorInv' /\ Once(msgs')
<1>1. CASE HandleHistoryResponse  BY <1>1, HistoryOrder
<1>2. CASE ~HandleHistoryResponse
  <2>1. MsgsGrow(msgs')  BY <1>2, StepGrow
  <2>2. contact'.loaded = contact.loaded /\ contact'.exhausted = contact.exhausted
    BY <1>2, FlagsStay
  <2>3. Once(msgs')  BY <2>1, GrowOnce
  <2>4. Floor(msgs) => Floor(msgs')  BY <2>1, GrowFloor
  <2>5. FloorInv'  BY <2>2, <2>4 DEF FloorInv
  <2>6. QED BY <2>3, <2>5
<1>3. QED BY <1>1, <1>2

LEMMA InitOrder ==
  ASSUME Init
  PROVE  AckFresh /\ Unheard /\ AtBooks /\ Single /\ Cursor /\ FloorInv /\ Once(msgs)
<1>1. /\ msgs = <<>> /\ inbox = <<>> /\ outbox = <<>> /\ page = NoPage /\ acking = 0 /\ rows = Preload
      /\ contact = [known |-> FALSE, active |-> FALSE, unread |-> 0,
                    loaded |-> FALSE, loading |-> FALSE, exhausted |-> FALSE]
  BY DEF Init
<1>2. Len(msgs) = 0 /\ Len(inbox) = 0 /\ Len(outbox) = 0 /\ ~contact.loaded  BY <1>1
<1>3. \A i \in 1..Len(rows) : rows[i].cm = 0
  <2>1. PICK T : T = [mine : BOOLEAN, cm : {0}, delivered : BOOLEAN, read : BOOLEAN]  OBVIOUS
  <2>2. PICK r \in Seq(T) : r = rows  BY <1>1, <2>1, ChatAssumption
  <2>3. \A i \in 1..Len(r) : r[i].cm = 0
    <3>1. TAKE i \in 1..Len(r)
    <3>2. r[i] \in T  OBVIOUS
    <3>3. QED BY <2>1, <3>2
  <2>4. QED BY <2>2, <2>3
<1>4. AckFresh /\ Unheard /\ AtBooks  BY <1>1, <1>2, <1>3 DEF AckFresh, Unheard, AtBooks, RowsCm
<1>5. ~Outstanding  BY <1>1, <1>2 DEF Outstanding
<1>6. Single /\ Cursor  BY <1>1, <1>2, <1>5 DEF Single, Cursor
<1>7. FloorInv /\ Once(msgs)  BY <1>2 DEF FloorInv, Once
<1>8. QED BY <1>4, <1>6, <1>7

\* A page shows what it brings, and nothing that was shown is lost.
LEMMA HistoryShows ==
  ASSUME ShapeInv, HandleHistoryResponse
  PROVE  /\ \A i \in 1..Len(msgs) : \E j \in 1..Len(msgs') : Kept(msgs'[j], msgs[i])
         /\ \A j \in 1..Len(msgs') : Origin(msgs'[j])
         /\ 1 \in 1..Len(inbox) /\ inbox[1].type = "history_response"
         /\ \/ UNCHANGED <<contact, msgs>>
            \/ /\ contact' = Loaded(contact, inbox[1].messages)
               /\ \A id : InPage(inbox[1], id) => Shown(id)'
<1>1. PICK p : p = inbox[1].messages  OBVIOUS
<1>2. 1 \in 1..Len(inbox) /\ inbox[1].type = "history_response" /\ Head(inbox) = inbox[1]
      /\ MsgsOK(msgs, Len(rows)) /\ MsgsOK(Entries(p), Len(rows)) /\ rows \in Seq(RowT)
      /\ p \in Seq(Item) /\ \A i \in 1..Len(p) : p[i].id <= Len(rows)
  <2>1. Head(inbox) = inbox[1] /\ 1 \in 1..Len(inbox) /\ inbox[1].type = "history_response"
    BY HandleHistoryResponseShape, ReceiveTakes
  <2>2. QED BY <1>1, <2>1, HandleHistoryResponseShape, ShapeGives
<1>3. \/ ~contact.known /\ UNCHANGED <<contact, msgs>>
      \/ p = <<>> /\ contact' = Loaded(contact, p) /\ msgs' = msgs
      \/ \E shown \in Results(p) : MsgsOK(shown, Len(rows)) /\ ShowTo(Loaded(contact, p), shown)
  BY <1>1, <1>2, HandleHistoryResponseShape
<1>4. ASSUME msgs' = msgs
      PROVE  /\ \A i \in 1..Len(msgs) : \E j \in 1..Len(msgs') : Kept(msgs'[j], msgs[i])
             /\ \A j \in 1..Len(msgs') : Origin(msgs'[j])
  <2>1. \A i \in 1..Len(msgs) : Kept(msgs[i], msgs[i])  BY DEF Kept
  <2>2. QED BY <1>4, <2>1 DEF Origin
<1>5. ASSUME NEW shown \in Results(p), MsgsOK(shown, Len(rows)), ShowTo(Loaded(contact, p), shown)
      PROVE  /\ \A i \in 1..Len(msgs) : \E j \in 1..Len(msgs') : Kept(msgs'[j], msgs[i])
             /\ \A j \in 1..Len(msgs') : Origin(msgs'[j])
             /\ contact' = Loaded(contact, p)
             /\ \A id : InPage(inbox[1], id) => Shown(id)'
  <2>1. SameFaces(shown, msgs') /\ contact' = Loaded(contact, p) /\ MsgsOK(msgs', Len(rows))
    BY <1>5, ShapeGives, ShowToIs
  <2>2. \A j \in 1..Len(msgs') : /\ j \in 1..Len(shown) /\ msgs'[j].id = shown[j].id
                                 /\ msgs'[j].cm = shown[j].cm /\ msgs'[j].at = shown[j].at
    BY <2>1 DEF SameFaces
  <2>3. \A j \in 1..Len(shown) : j \in 1..Len(msgs')  BY <2>1 DEF SameFaces
  <2>4. \A i \in 1..Len(shown) : \/ \E j \in 1..Len(msgs) : shown[i] = msgs[j]
                                 \/ \E j \in 1..Len(Entries(p)) : shown[i] = Entries(p)[j]
    BY <1>2, <1>5, ResultFrom
  <2>5. /\ \A i \in 1..Len(msgs) : \E j \in 1..Len(shown) : shown[j] = msgs[i]
        /\ \A i \in 1..Len(Entries(p)) : \E j \in 1..Len(shown) : shown[j].id = Entries(p)[i].id
    <3>1. CASE contact.loaded
      <4>1. shown = Entries(p) \o msgs  BY <1>5, <3>1 DEF Results
      <4>2. PICK es \in Seq(EntryT) : es = Entries(p)  BY <1>2 DEF MsgsOK
      <4>3. /\ \A k \in 1..Len(es) : k \in 1..Len(shown) /\ shown[k] = es[k]
            /\ \A k \in 1..Len(msgs) : Len(es) + k \in 1..Len(shown) /\ shown[Len(es) + k] = msgs[k]
        BY <1>2, <4>1, <4>2, ConcatIs DEF MsgsOK
      <4>4. QED BY <4>2, <4>3
    <3>2. CASE ~contact.loaded
      <4>1. PICK es \in Seq(EntryT) : es = Entries(p)  BY <1>2 DEF MsgsOK
      <4>2. shown \in MergeInitialHistory(msgs, es) /\ msgs \in Seq(EntryT)
        BY <1>2, <1>5, <3>2, <4>1 DEF Results, MsgsOK
      <4>3. /\ \A i \in 1..Len(msgs) : \E k \in 1..Len(shown) : shown[k] = msgs[i]
            /\ \A j \in 1..Len(es) : \/ \E i \in 1..Len(msgs) : msgs[i].id = es[j].id
                                     \/ \E k \in 1..Len(shown) : shown[k] = es[j]
        BY <4>2, MergedFrom
      <4>4. ASSUME NEW j \in 1..Len(es)
            PROVE  \E k \in 1..Len(shown) : shown[k].id = es[j].id
        BY <4>3
      <4>5. QED BY <4>1, <4>3, <4>4
    <3>3. QED BY <3>1, <3>2
  <2>6. /\ Len(Entries(p)) = Len(p)
        /\ \A i \in 1..Len(p) : \E k \in 1..Len(p) :
             /\ k = Len(p) - i + 1 /\ Entries(p)[i].id = p[k].id
             /\ Entries(p)[i].cm = 0 /\ Entries(p)[i].at = 2 * p[k].id
    BY ONLY <1>2, EntriesAre
  <2>7. \A k \in 1..Len(p) : \E i \in 1..Len(p) : Entries(p)[i].id = p[k].id
    <3>1. TAKE k \in 1..Len(p)
    <3>2. PICK n \in Nat : n = Len(p)  BY <1>2
    <3>3. n - k + 1 \in 1..n /\ n - (n - k + 1) + 1 = k  BY <3>1, <3>2
    <3>4. PICK i \in 1..n : i = n - k + 1  BY <3>3
    <3>5. Entries(p)[i].id = p[k].id  BY <2>6, <3>2, <3>3, <3>4
    <3>6. QED BY <3>2, <3>5
  <2>8. \A j \in 1..Len(msgs') : Origin(msgs'[j])
    <3>1. TAKE j \in 1..Len(msgs')
    <3>2. CASE \E i \in 1..Len(msgs) : shown[j] = msgs[i]  BY <2>2, <3>2 DEF Origin, Kept
    <3>3. ASSUME NEW i \in 1..Len(p), shown[j] = Entries(p)[i]
          PROVE  Origin(msgs'[j])
      <4>1. PICK k \in 1..Len(p) : Entries(p)[i].id = p[k].id /\ Entries(p)[i].cm = 0
                                   /\ Entries(p)[i].at = 2 * p[k].id
        BY <2>6
      <4>2. PICK e : e = msgs'[j]  OBVIOUS
      <4>3. e.id = p[k].id /\ e.cm = 0 /\ e.at = 2 * e.id  BY <2>2, <3>3, <4>1, <4>2
      <4>4. QED BY <1>1, <1>2, <4>2, <4>3 DEF Origin, Brought
    <3>4. QED BY <2>2, <2>4, <2>6, <3>2, <3>3
  <2>9. \A i \in 1..Len(msgs) : \E j \in 1..Len(msgs') : Kept(msgs'[j], msgs[i])
    BY <2>2, <2>3, <2>5 DEF Kept
  <2>10. \A id : InPage(inbox[1], id) => Shown(id)'
    <3>1. SUFFICES ASSUME NEW id, InPage(inbox[1], id) PROVE Shown(id)'  OBVIOUS
    <3>2. PICK k \in 1..Len(p) : p[k].id = id  BY <1>1, <1>2, <3>1 DEF InPage
    <3>3. PICK i \in 1..Len(p) : Entries(p)[i].id = id  BY <2>7, <3>2
    <3>4. PICK j \in 1..Len(shown) : shown[j].id = id  BY <2>5, <2>6, <3>3
    <3>5. j \in DOMAIN msgs' /\ msgs'[j].id = id  BY <2>1, <2>2, <2>3, <3>4 DEF MsgsOK
    <3>6. QED BY <3>5 DEF Shown
  <2>11. QED BY <1>1, <2>1, <2>8, <2>9, <2>10
<1>6. CASE p = <<>> /\ contact' = Loaded(contact, p) /\ msgs' = msgs
  <2>1. \A id : ~InPage(inbox[1], id)  BY <1>1, <1>6 DEF InPage
  <2>2. QED BY <1>1, <1>2, <1>4, <1>6, <2>1
<1>7. CASE UNCHANGED <<contact, msgs>>  BY <1>2, <1>4, <1>7
<1>8. QED BY <1>1, <1>2, <1>3, <1>5, <1>6, <1>7

LEMMA MsgsFrom ==
  ASSUME ShapeInv, Books, AckFresh, [Next]_vars
  PROVE  /\ \A i \in 1..Len(msgs) : \E j \in 1..Len(msgs') : Kept(msgs'[j], msgs[i])
         /\ \A j \in 1..Len(msgs') : Origin(msgs'[j])
<1>1. Len(msgs) \in Nat  BY ShapeGives DEF MsgsOK
<1>2. CASE HandleHistoryResponse  BY <1>2, HistoryShows
<1>3. CASE MsgsGrow(msgs') /\ ~HandleHistoryResponse
  <2>1. Len(msgs') = Len(msgs) \/ Len(msgs') = Len(msgs) + 1  BY <1>3 DEF MsgsGrow
  <2>2. \A i \in 1..Len(msgs) : i \in 1..Len(msgs') /\ Kept(msgs'[i], msgs[i])
    BY <1>1, <1>3, <2>1 DEF MsgsGrow, Kept
  <2>3. ASSUME Len(msgs') = Len(msgs) + 1
        PROVE  Origin(msgs'[Len(msgs) + 1])
    <3>1. PICK e : e = msgs'[Len(msgs) + 1]  OBVIOUS
    <3>2. CASE Type
      <4>1. e = Typed  BY <3>1, <3>2, TypeShape
      <4>2. e.id = 0 /\ e.cm = sends /\ e.at = 2 * Len(rows) + 1  BY <4>1 DEF Typed
      <4>3. QED BY <3>1, <3>2, <4>2 DEF Origin
    <3>3. CASE HandleMessage
      <4>1. Head(inbox).type = "message" /\ Head(inbox) = inbox[1] /\ 1 \in 1..Len(inbox)
        BY <3>3, HandleMessageShape, ReceiveTakes
      <4>2. e.cm = 0 /\ e.at = 2 * e.id /\ e.id = Head(inbox).id  BY <2>3, <3>1, <3>3, MessageAdds
      <4>3. QED BY <3>1, <4>1, <4>2 DEF Origin, Brought
    <3>4. QED BY <1>3, <2>3, <3>2, <3>3, NewEntry
  <2>4. QED BY <1>1, <2>1, <2>2, <2>3 DEF Origin
<1>4. QED BY <1>2, <1>3, StepGrow

\* Whoever reads the table after the row was stored has to wait for its acknowledgement.
LEMMA StepUnheard ==
  ASSUME ShapeInv, ShapeInv', Numbers, Numbers', AckFresh, Unheard, [Next]_vars
  PROVE  Unheard'
<1>1. CASE StoreMessage
  <2>1. PICK n : n = Len(rows) + 1  OBVIOUS
  <2>2. /\ acking' = n /\ UNCHANGED <<page, inbox, msgs>> /\ page = NoPage
        /\ Len(rows) \in Nat /\ inbox \in Seq(ServerFrame)
    BY <1>1, <2>1, ShapeGives DEF StoreMessage, Read
  <2>3. ASSUME NEW i \in 1..Len(msgs) PROVE msgs[i].id # n
    <3>1. msgs[i] \in EntryT /\ msgs[i].id <= Len(rows)  BY <2>3, ShapeGives, ElementOfSeq DEF MsgsOK
    <3>2. QED BY <2>1, <2>2, <3>1 DEF EntryT
  <2>4. ASSUME NEW l \in 1..Len(inbox), inbox[l].type = "history_response"
        PROVE  \A i \in 1..Len(inbox[l].messages) : inbox[l].messages[i].id # n
    <3>1. PICK f \in ServerFrame : f = inbox[l] /\ Within(f, Len(rows))
      BY <2>2, <2>4, ShapeGives, ElementOfSeq
    <3>2. PICK p \in Seq(Item) : p = f.messages  BY <2>4, <3>1, ServerFrameIs
    <3>3. \A i \in 1..Len(p) : p[i] \in Item /\ p[i].id <= Len(rows)
      BY <2>4, <3>1, <3>2, ElementOfSeq DEF Within
    <3>4. \A i \in 1..Len(p) : p[i].id \in Nat  BY <3>3 DEF Item, Id
    <3>5. QED BY <2>1, <2>2, <3>1, <3>2, <3>3, <3>4
  <2>5. QED BY <2>2, <2>3, <2>4 DEF Unheard
<1>2. CASE SendAck  BY <1>2 DEF SendAck, Unheard
<1>3. CASE acking' = acking /\ acking # 0
  <2>1. page = NoPage /\ page' = NoPage
    BY <1>3, Leaves DEF Unheard, HandleHistoryRequest, SendPage, Read
  <2>2. ASSUME NEW k \in 1..Len(inbox'), inbox'[k].type = "history_response"
        PROVE  \A i \in 1..Len(inbox'[k].messages) : inbox'[k].messages[i].id # acking
    <3>1. Came(inbox'[k])  BY InboxFrom
    <3>2. \E l \in 1..Len(inbox) : inbox[l] = inbox'[k]
      BY <2>1, <2>2, <3>1 DEF Came, MessageAck
    <3>3. QED BY <1>3, <2>2, <3>2 DEF Unheard
  <2>3. ASSUME NEW j \in 1..Len(msgs'), NEW e, e = msgs'[j], e.id = acking
        PROVE  FALSE
    <3>1. e.cm = 0 \/ e.id = 0
      <4>1. AckBooks' /\ MsgsBooked(msgs)'  BY DEF Numbers, Books
      <4>2. e.cm # 0 /\ e.id # 0 => rows'[acking].cm = e.cm  BY <2>3, <4>1 DEF MsgsBooked
      <4>3. Fresh(msgs', rows'[acking].cm)  BY <1>3, <4>1 DEF AckBooks, Fresh
      <4>4. QED BY <2>3, <4>2, <4>3 DEF Fresh
    <3>2. e.id # 0 /\ Origin(e)  BY <1>3, <2>3, MsgsFrom DEF Numbers
    <3>3. CASE \E i \in 1..Len(msgs) : Kept(e, msgs[i])
      BY <1>3, <2>3, <3>1, <3>2, <3>3 DEF Kept, Unheard
    <3>4. CASE Brought(e)
      <4>1. inbox[1].type # "message" \/ e.id # inbox[1].id
        BY <1>3, <2>3, <3>4 DEF Brought, Numbers, Books, WireBooks, AckBooks
      <4>2. ~ (/\ inbox[1].type = "history_response"
               /\ \E k \in 1..Len(inbox[1].messages) : inbox[1].messages[k].id = e.id)
        BY <1>3, <2>3, <3>4 DEF Brought, Unheard
      <4>3. QED BY <3>4, <4>1, <4>2 DEF Brought
    <3>5. QED BY <3>2, <3>3, <3>4 DEF Origin
  <2>4. QED BY <1>3, <2>1, <2>2, <2>3 DEF Unheard
<1>4. QED BY <1>1, <1>2, <1>3, Leaves DEF Unheard

\* Where the zone adds nothing to the cursor (the client's clock is in UTC), no
\* message is shown twice, but for one that stands behind a newer message:
\* appendMessage and mergeInitialHistory look for the id, prependHistory does not
\* and relies on the server's "sent_at < before" (update.go:496-497, 603-607,
\* events.go:352, store.HistoryPage).
THEOREM MessagesShownOnce ==
  ASSUME Zone = 0
  PROVE  ChatSpec => []ShownOnce
<1> DEFINE Order == /\ ShapeInv /\ Numbers /\ AckFresh /\ Unheard /\ AtBooks
                    /\ Single /\ Cursor /\ FloorInv /\ Once(msgs)
<1>1. Init => Order  BY InitShape, InitBooks, InitOrder
<1>2. Order /\ [Next]_vars => Order'
  <2>1. SUFFICES ASSUME Order, [Next]_vars PROVE Order'  OBVIOUS
  <2>2. Books /\ Books' /\ ShapeInv' /\ Numbers' /\ AckFresh'
    BY <2>1, StepShape, StepBooks, StepFresh DEF Numbers
  <2>3. Unheard' /\ AtBooks'  BY <2>1, <2>2, StepUnheard, StepAt
  <2>4. Single' /\ Cursor'  BY <2>1, <2>2, StepCursor
  <2>5. FloorInv' /\ Once(msgs')  BY <2>1, <2>2, <2>3, StepOrder
  <2>6. QED BY <2>2, <2>3, <2>4, <2>5 DEF Once
<1>3. Order => ShownOnce  BY ShownOnceIs
<1>4. QED BY <1>1, <1>2, <1>3, PTL DEF ChatSpec

-----------------------------------------------------------------------------
(* No hole: what the queue and the pages bring.                            *)

LEMMA StartedStays ==
  ASSUME ShapeInv, Started, Grown(rows')
  PROVE  Started'
<1>1. Len(rows) \in Nat /\ Len(rows') \in Nat /\ Len(Preload) \in Nat
  BY ShapeGives, ChatAssumption DEF Grown
<1>2. \A d \in 1..Len(Preload) : d \in 1..Len(rows)  BY <1>1 DEF Started
<1>3. QED BY <1>1, <1>2 DEF Started, Grown, Settled

\* A row above the start, or one in the queue, was not settled.
LEMMA NotSettled ==
  ASSUME ShapeInv, Started
  PROVE  ~Settled(0) /\ ~Settled(Len(rows) + 1) /\ \A i \in Undelivered : ~Settled(i)
<1>1. Len(rows) \in Nat /\ Len(Preload) \in Nat  BY ShapeGives, ChatAssumption
<1>2. QED BY <1>1 DEF Started, Settled, Undelivered

LEMMA ReplayedStays ==
  ASSUME ShapeInv, Started, Replayed, [Next]_vars
  PROVE  Replayed'
<1>1. /\ rows \in Seq(RowT) /\ greeting.of \in Seq(Id)
      /\ ~Settled(0) /\ ~Settled(Len(rows) + 1) /\ \A i \in Undelivered : ~Settled(i)
  BY ShapeGives, NotSettled DEF ServerShape
<1>2. \A k \in 1..Len(inbox') : inbox'[k].type = "message" => ~Settled(inbox'[k].id)
  <2>1. TAKE k \in 1..Len(inbox')
  <2>2. PICK f : f = inbox'[k] /\ Came(f)  BY InboxFrom
  <2>3. page # NoPage => page.type = "history_response"
    BY ShapeGives, MakesServerFrame DEF ServerShape
  <2>4. f.type = "message" => \/ \E l \in 1..Len(inbox) : inbox[l] = f
                              \/ f.id = relaying
                              \/ \E l \in 1..Len(greeting.of) : f.id = greeting.of[l]
    BY <2>2, <2>3 DEF Came, MessageAck
  <2>5. QED BY <2>2, <2>4 DEF Replayed
<1>3. ~Settled(relaying')  BY <1>1, Leaves DEF PeerSends, Relay, Replayed
<1>4. \A k \in 1..Len(greeting'.of) : ~Settled(greeting'.of[k])
  <2>1. CASE LoadUndelivered
    <3>1. greeting'.of = Ascending(Undelivered)  BY <2>1 DEF LoadUndelivered
    <3>2. QED BY <1>1, <3>1, QueueShape
  <2>2. CASE ReplayOne
    <3>1. greeting'.of = Tail(greeting.of) /\ greeting.of # <<>>
      BY <2>2, ShapeGives DEF ReplayOne, ServerShape
    <3>2. QED BY <1>1, <3>1, TailIs DEF Replayed
  <2>3. CASE greeting'.of = greeting.of \/ greeting'.of = <<>>  BY <2>3 DEF Replayed
  <2>4. CASE Connect \/ PushContactList \/ ServeReturns
    BY <2>3, <2>4, ShapeGives DEF Connect, PushContactList, ServeReturns, ServerShape
  <2>5. QED BY <2>1, <2>2, <2>3, <2>4, Leaves
<1>5. QED BY <1>2, <1>3, <1>4 DEF Replayed

\* What is shown stays.
LEMMA ShownStays ==
  ASSUME ShapeInv, ShapeInv', Books, AckFresh, [Next]_vars
  PROVE  /\ \A id : id # 0 /\ Shown(id) => Shown(id)'
         /\ \A cm : HasEntry(cm) => HasEntry(cm)'
         /\ \A at : ShownFrom(at) => ShownFrom(at)'
         /\ \A p : Brings(p) => Brings(p)'
<1>1. \A i \in 1..Len(msgs) : \E j \in 1..Len(msgs') : Kept(msgs'[j], msgs[i])  BY MsgsFrom
<1>2. DOMAIN msgs = 1..Len(msgs) /\ DOMAIN msgs' = 1..Len(msgs')
  BY DEF ShapeInv, ChatShape, ClientShape
<1>3. \A id : id # 0 /\ Shown(id) => Shown(id)'  BY <1>1, <1>2 DEF Shown, Kept
<1>4. \A cm : HasEntry(cm) => HasEntry(cm)'  BY <1>1 DEF HasEntry, Kept
<1>5. \A d : Settled(d) => d # 0  BY DEF Settled
<1>6. QED BY <1>3, <1>4, <1>5 DEF ShownFrom, Brings

LEMMA NamedStays ==
  ASSUME ShapeInv, ShapeInv', Books, AckFresh, Named, [Next]_vars
  PROVE  Named'
<1>1. /\ \A id : id # 0 /\ Shown(id) => Shown(id)'
      /\ \A cm : HasEntry(cm) => HasEntry(cm)'
  BY ShownStays
<1>2. DOMAIN msgs' = 1..Len(msgs')  BY DEF ShapeInv, ChatShape, ClientShape
<1>3. \A f : \A k \in 1..Len(outbox') : f = outbox'[k] => NamedOut(f)'
  <2>1. SUFFICES ASSUME NEW f, NEW k \in 1..Len(outbox'), f = outbox'[k] PROVE NamedOut(f)'  OBVIOUS
  <2>2. Sent(f)  BY <2>1, OutboxFrom
  <2>3. CASE \E l \in 1..Len(outbox) : outbox[l] = f
    <3>1. NamedOut(f) /\ f \in ClientFrame  BY <2>3, ShapeGives DEF Named, BoxOK
    <3>2. f.type = "ack_read" => f.id # 0  BY <3>1, ClientFrameIs DEF Id
    <3>3. QED BY <1>1, <3>1, <3>2 DEF NamedOut
  <2>4. CASE f.type = "ack_read" /\ \E i \in 1..Len(msgs') : msgs'[i].id = f.id
    BY <1>2, <2>4 DEF NamedOut, Shown
  <2>5. CASE Type /\ f = Send(sends)
    <3>1. Len(msgs') = Len(msgs) + 1 /\ msgs'[Len(msgs) + 1] = Typed /\ Len(msgs) \in Nat
      BY <2>5, TypeShape
    <3>2. PICK n : n = sends  OBVIOUS
    <3>3. Len(msgs) + 1 \in 1..Len(msgs') /\ msgs'[Len(msgs) + 1].cm = n  BY <3>1, <3>2 DEF Typed
    <3>4. HasEntry(n)'  BY <3>3 DEF HasEntry
    <3>5. f.cm = n /\ f.type # "ack_read"  BY <2>5, <3>2 DEF Send
    <3>6. HasEntry(f.cm)'  BY <3>4, <3>5
    <3>7. QED BY <3>5, <3>6 DEF NamedOut
  <2>6. QED BY <2>2, <2>3, <2>4, <2>5 DEF Sent, NamedOut, HistoryRequest
<1>4. \A f : \A k \in 1..Len(inbox') : f = inbox'[k] => NamedIn(f)'
  <2>1. SUFFICES ASSUME NEW f, NEW k \in 1..Len(inbox'), f = inbox'[k] PROVE NamedIn(f)'  OBVIOUS
  <2>2. Came(f)  BY <2>1, InboxFrom
  <2>3. page # NoPage => page.type = "history_response"
    BY ShapeGives, MakesServerFrame DEF ServerShape
  <2>4. QED BY <1>1, <2>2, <2>3 DEF Came, Named, NamedIn, SendAck, MessageAck
<1>5. \A cm : acking' # 0 /\ cm = rows'[acking'].cm => HasEntry(cm)'
  <2>1. CASE StoreMessage
    <3>1. PICK cm : cm = Head(outbox).cm  OBVIOUS
    <3>2. /\ Read("message") /\ acking' = Len(rows) + 1
          /\ rows'[Len(rows) + 1] = [mine |-> TRUE, cm |-> cm, delivered |-> FALSE, read |-> FALSE]
      BY <2>1, <3>1, StoreMessageShape DEF StoreMessage
    <3>3. rows'[acking'].cm = cm /\ HasEntry(cm)  BY <3>1, <3>2, ReadTakes DEF Named, NamedOut
    <3>4. QED BY <1>1, <3>3
  <2>2. CASE SendAck  BY <2>2 DEF SendAck
  <2>3. CASE acking' = acking /\ acking # 0
    <3>1. acking \in 1..Len(rows)  BY <2>3, ShapeGives DEF ServerShape, ShapeInv, Known
    <3>2. rows'[acking].cm = rows[acking].cm  BY <3>1, StepGrows DEF Grown
    <3>3. QED BY <1>1, <2>3, <3>2 DEF Named
  <2>4. QED BY <2>1, <2>2, <2>3, Leaves
<1>6. QED BY <1>3, <1>4, <1>5 DEF Named

LEMMA MessageShows ==
  ASSUME ShapeInv, HandleMessage
  PROVE  \E j \in 1..Len(msgs') : msgs'[j].id = inbox[1].id
<1>1. PICK id : id = Head(inbox).id  OBVIOUS
<1>2. PICK ms : ms = AppendMessage(msgs, Arrived(id))  OBVIOUS
<1>3. Head(inbox) = inbox[1] /\ MsgsOK(msgs, Len(rows)) /\ MsgsOK(ms, Len(rows)) /\ SameFaces(ms, msgs')
      /\ Arrived(id) \in EntryT /\ id \in Id /\ id <= Len(rows)
  BY <1>1, <1>2, HandleMessageShape, ReceiveTakes, ShapeGives, ShowToIs
<1>4. DOMAIN msgs = 1..Len(msgs) /\ Len(msgs) \in Nat  BY <1>3 DEF MsgsOK
<1>5. \E j \in 1..Len(ms) : ms[j].id = id
  <2>1. CASE \E j \in 1..Len(msgs) : msgs[j].id = id  BY <1>2, <1>4, <2>1 DEF AppendMessage, Arrived
  <2>2. CASE ~ \E j \in 1..Len(msgs) : msgs[j].id = id
    <3>1. ms = Append(msgs, Arrived(id))  BY <1>2, <1>4, <2>2 DEF AppendMessage, Arrived
    <3>2. Len(ms) = Len(msgs) + 1 /\ ms[Len(msgs) + 1] = Arrived(id)
      BY <1>3, <3>1, AppendedOK DEF Arrived
    <3>3. QED BY <1>4, <3>2 DEF Arrived
  <2>3. QED BY <2>1, <2>2
<1>6. QED BY <1>1, <1>3, <1>5 DEF SameFaces

LEMMA AckShows ==
  ASSUME ShapeInv, Books, Named, HandleMessageAck
  PROVE  \E j \in 1..Len(msgs') : msgs'[j].id = inbox[1].id
<1>1. PICK f : f = Head(inbox)  OBVIOUS
<1>2. /\ f = inbox[1] /\ 1 \in 1..Len(inbox) /\ f.type = "message_ack" /\ f.id \in Id /\ f.id <= Len(rows)
      /\ msgs' = AckedIn(msgs, f) /\ MsgsOK(msgs, Len(rows))
  BY <1>1, HandleMessageAckShape, ReceiveTakes, ShapeGives
<1>3. f.cm # 0 /\ NamedIn(f) /\ MsgsBooked(msgs)  BY <1>2, BooksNumbers DEF Named, Books
<1>4. PICK i \in 1..Len(msgs) : msgs[i].cm = f.cm  BY <1>2, <1>3 DEF NamedIn, HasEntry
<1>5. msgs[i].mine  BY <1>3, <1>4 DEF MsgsBooked
<1>6. QED BY <1>2, <1>4, <1>5, AckedOK

LEMMA AccountedStays ==
  ASSUME ShapeInv, ShapeInv', WaitInv, Books, AckFresh, Named, Accounted, [Next]_vars
  PROVE  Accounted'
<1>1. /\ lost \subseteq lost' /\ Grown(rows') /\ \A id : id # 0 /\ Shown(id) => Shown(id)'
      /\ \A k \in 1..Len(inbox) : Goes(inbox[k])
  BY StepWaits, StepGrows, ShownStays, InboxFrom
<1>2. Len(rows) \in Nat /\ DOMAIN rows = 1..Len(rows) /\ DOMAIN rows' = 1..Len(rows')
      /\ DOMAIN msgs' = 1..Len(msgs')
  BY ShapeGives DEF ShapeInv, ChatShape, ServerShape, ClientShape
<1>3. \A id : \A m \in {Message(id), MessageAck(rows'[id].cm, id)} : m \in lost' => OnWay(id)'
  BY DEF OnWay, Missed
<1>4. \A id : \A m \in {Message(id), MessageAck(rows'[id].cm, id)} :
        (\E l \in 1..Len(inbox') : inbox'[l] = m) => OnWay(id)'
  BY DEF OnWay
<1>5. SUFFICES ASSUME NEW id \in 1..Len(rows') PROVE Settled(id) \/ Shown(id)' \/ OnWay(id)'
  BY DEF Accounted
<1>6. ASSUME ~rows'[id].mine, ~rows'[id].delivered
      PROVE  OnWay(id)'
  BY <1>2, <1>6 DEF OnWay, Undelivered
<1>7. ASSUME id \in 1..Len(rows), rows'[id].cm = rows[id].cm
      PROVE  Settled(id) \/ Shown(id)' \/ OnWay(id)'
  <2>1. CASE Settled(id) \/ Shown(id)  BY <1>1, <1>7, <2>1
  <2>2. CASE Missed(id)
    <3>1. PICK m \in {Message(id), MessageAck(rows'[id].cm, id)} : m \in lost
      BY <1>7, <2>2 DEF Missed
    <3>2. QED BY <1>1, <1>3, <3>1
  <2>3. CASE id \in Undelivered
    <3>1. ~rows[id].mine /\ ~rows[id].delivered /\ ~rows'[id].mine
      BY <1>1, <1>7, <2>3 DEF Undelivered, Grown
    <3>2. CASE \E l \in 1..Len(outbox) : outbox[l] = AckRead(id)
      <4>1. Shown(id)  BY <3>2 DEF Named, NamedOut, AckRead
      <4>2. QED BY <1>1, <1>7, <4>1
    <3>3. CASE Message(id) \in lost' \/ \E l \in 1..Len(inbox') : inbox'[l] = Message(id)
      BY <1>3, <1>4, <3>3
    <3>4. CASE rows'[id].delivered  BY <1>7, <3>1, <3>2, <3>3, <3>4, RowsFrom
    <3>5. QED BY <1>6, <3>1, <3>4
  <2>4. CASE \E k \in 1..Len(inbox) : inbox[k] \in {Message(id), MessageAck(rows[id].cm, id)}
    <3>1. PICK k \in 1..Len(inbox), m \in {Message(id), MessageAck(rows'[id].cm, id)} : m = inbox[k]
      BY <1>7, <2>4
    <3>2. Goes(m) /\ m.id = id /\ m.type \in {"message", "message_ack"}
      BY <1>1, <3>1 DEF Message, MessageAck
    <3>3. CASE m \in lost' \/ \E l \in 1..Len(inbox') : inbox'[l] = m  BY <1>3, <1>4, <3>1, <3>3
    <3>4. CASE m = inbox[1] /\ (HandleMessage \/ HandleMessageAck)
      <4>1. \E j \in 1..Len(msgs') : msgs'[j].id = id  BY <3>2, <3>4, MessageShows, AckShows
      <4>2. QED BY <1>2, <4>1 DEF Shown
    <3>5. QED BY <3>2, <3>3, <3>4 DEF Goes
  <2>5. CASE id = acking
    <3>1. acking' = acking \/ SendAck
      <4>1. StoreMessage => acking = 0  BY DEF StoreMessage, Read
      <4>2. Len(rows) \in Nat  BY ShapeGives
      <4>3. id # 0  BY <1>7, <4>2
      <4>4. QED BY <2>5, <4>1, <4>3, Leaves
    <3>2. CASE SendAck
      <4>1. PICK m : m = MessageAck(rows'[id].cm, id)  OBVIOUS
      <4>2. ToClient(m)  BY <1>7, <2>5, <3>2, <4>1 DEF SendAck
      <4>3. m \in lost' \/ \E l \in 1..Len(inbox') : inbox'[l] = m  BY <4>2, ToClientAdds
      <4>4. QED BY <1>3, <1>4, <4>1, <4>3
    <3>3. QED BY <2>5, <3>1, <3>2 DEF OnWay
  <2>6. QED BY <1>7, <2>1, <2>2, <2>3, <2>4, <2>5 DEF Accounted, OnWay
<1>8. ASSUME id = acking' PROVE OnWay(id)'  BY <1>8 DEF OnWay
<1>9. QED BY <1>6, <1>7, <1>8, RowsFrom

LEMMA TimesStays ==
  ASSUME ShapeInv, Books, AckFresh, Started, Times, [Next]_vars
  PROVE  Times'
<1>1. /\ \A j \in 1..Len(msgs') : Origin(msgs'[j]) /\ Len(rows) \in Nat /\ Len(Preload) \in Nat
      /\ inbox \in Seq(ServerFrame)
  BY MsgsFrom, ShapeGives, ChatAssumption
<1>2. SUFFICES ASSUME NEW j \in 1..Len(msgs'), NEW e, e = msgs'[j]
               PROVE  e.at > 2 * Len(Preload) \/ (e.id # 0 /\ e.at = 2 * e.id)
  BY DEF Times
<1>3. CASE \E i \in 1..Len(msgs) : Kept(e, msgs[i])  BY <1>3 DEF Kept, Times
<1>4. CASE e.at = 2 * Len(rows) + 1  BY <1>1, <1>4 DEF Started
<1>5. CASE Brought(e)
  <2>1. inbox[1] \in ServerFrame  BY <1>1, <1>5 DEF Brought
  <2>2. e.id \in Id
    <3>1. CASE inbox[1].type = "message" /\ e.id = inbox[1].id  BY <2>1, <3>1, ServerFrameIs
    <3>2. CASE /\ inbox[1].type = "history_response"
               /\ \E k \in 1..Len(inbox[1].messages) : inbox[1].messages[k].id = e.id
      <4>1. inbox[1].messages \in Seq(Item)  BY <2>1, <3>2, ServerFrameIs
      <4>2. PICK k \in 1..Len(inbox[1].messages) : inbox[1].messages[k].id = e.id  BY <3>2
      <4>3. inbox[1].messages[k] \in Item  BY <4>1, <4>2
      <4>4. QED BY <4>2, <4>3 DEF Item
    <3>3. QED BY <1>5, <3>1, <3>2 DEF Brought
  <2>3. QED BY <1>5, <2>2 DEF Brought, Id
<1>6. QED BY <1>1, <1>2, <1>3, <1>4, <1>5 DEF Origin

\* Every new page has the settled rows from its oldest message on, or they are shown.
LEMMA PageBrings ==
  ASSUME ShapeInv, Started, Upward, HandleHistoryRequest
  PROVE  Brings(page'.messages)
<1>1. PICK b : b = Head(outbox).before  OBVIOUS
<1>2. PICK p : p = HistoryPage(b)  OBVIOUS
<1>3. b \in Int /\ page'.messages = p /\ rows \in Seq(RowT) /\ Len(rows) \in Nat /\ Len(Preload) \in Nat
      /\ b = outbox[1].before /\ 1 \in 1..Len(outbox) /\ outbox[1].type = "history_request"
  BY <1>1, <1>2, HandleHistoryRequestShape, ReadTakes, ShapeGives, ChatAssumption
     DEF HistoryResponse, HandleHistoryRequest
<1>4. PICK m \in 0..Len(rows), s \in 0..PageSize :
        /\ \A i \in 1..Len(rows) : Older(b, i) <=> i <= m
        /\ s <= m /\ (s = m \/ s = PageSize) /\ Len(p) = s
        /\ \A k \in 1..s : p[k].id = m - k + 1
  <2>1. PICK m \in 0..Len(rows), s \in 0..PageSize :
          /\ \A i \in 1..Len(rows) : Older(b, i) <=> i <= m
          /\ s <= m /\ (s = m \/ s = PageSize) /\ Len(HistoryPage(b)) = s
          /\ \A k \in 1..s : HistoryPage(b)[k].id = m - k + 1
    BY <1>3, PageIs
  <2>2. QED BY <1>2, <2>1
<1>5. SUFFICES ASSUME NEW d, Settled(d), Len(p) < PageSize \/ \E i \in 1..Len(p) : p[i].id <= d
               PROVE  Shown(d) \/ \E i \in 1..Len(p) : p[i].id = d
  BY <1>3 DEF Brings
<1>6. d \in 1..Len(Preload) /\ d \in 1..Len(rows)  BY <1>3, <1>5 DEF Settled, Started
<1>7. CASE Older(b, d)
  <2>1. d <= m  BY <1>4, <1>6, <1>7
  <2>2. m - d + 1 <= s  BY <1>4, <1>5, <1>6, <2>1, ChatAssumption
  <2>3. m - d + 1 \in 1..s /\ p[m - d + 1].id = d  BY <1>4, <1>6, <2>1, <2>2
  <2>4. QED BY <1>4, <2>3
<1>8. CASE ~Older(b, d)
  <2>1. b # Latest /\ b <= 2 * d  BY <1>3, <1>6, <1>8 DEF Older
  <2>2. ShownFrom(b)  BY <1>3, <2>1 DEF Upward, AskedAbove
  <2>3. QED BY <1>5, <2>1, <2>2 DEF ShownFrom
<1>9. QED BY <1>7, <1>8

\* An entry that is new, or has a new id, has the settled rows above it shown.
LEMMA EntriesUp ==
  ASSUME QueueIsNewest, ShapeInv, ShapeInv', Books, Books', AckFresh, Started, Started', Replayed, Upward,
         [Next]_vars
  PROVE  \A e : \A j \in 1..Len(msgs') : e = msgs'[j] /\ e.id # 0 => ShownFrom(2 * e.id)'
<1>1. /\ \A j \in 1..Len(msgs') : Origin(msgs'[j])
      /\ \A at : ShownFrom(at) => ShownFrom(at)'
      /\ \A id : id # 0 /\ Shown(id) => Shown(id)'
  BY MsgsFrom, ShownStays
<1>2. SUFFICES ASSUME NEW e, NEW j \in 1..Len(msgs'), e = msgs'[j], e.id # 0
               PROVE  ShownFrom(2 * e.id)'
  OBVIOUS
<1>3. e \in EntryT /\ e.id \in Id /\ e.id <= Len(rows') /\ Len(rows') \in Nat /\ Len(Preload) \in Nat
  <2>1. msgs' \in Seq(EntryT) /\ e.id <= Len(rows') /\ rows' \in Seq(RowT)
    BY <1>2 DEF ShapeInv, ChatShape, ClientShape, ServerShape, Known
  <2>2. e \in EntryT  BY <1>2, <2>1
  <2>3. QED BY <1>2, <2>1, <2>2, ChatAssumption DEF EntryT, Id
<1>4. ASSUME NEW i \in 1..Len(msgs), Kept(e, msgs[i])
      PROVE  ShownFrom(2 * e.id)'
  <2>1. CASE e.id = msgs[i].id  BY <1>1, <1>2, <2>1 DEF Upward
  <2>2. CASE e.cm # 0
    <3>1. rows'[e.id].cm = e.cm  BY <1>2, <2>2 DEF Books, MsgsBooked
    <3>2. e.id > Len(Preload)  BY <1>3, <2>2, <3>1 DEF Started, Id
    <3>3. QED BY <1>3, <3>2 DEF ShownFrom, Settled, Id
  <2>3. QED BY <1>4, <2>1, <2>2 DEF Kept
<1>5. CASE Brought(e) /\ inbox[1].type = "message" /\ e.id = inbox[1].id
  <2>1. ~Settled(e.id)  BY <1>5 DEF Brought, Replayed
  <2>2. QED BY <1>3, <2>1 DEF ShownFrom, Settled, Id, QueueIsNewest
<1>6. CASE HandleHistoryResponse /\ \E k \in 1..Len(inbox[1].messages) : inbox[1].messages[k].id = e.id
  <2>1. CASE msgs' = msgs
    <3>1. Kept(e, msgs[j])  BY <1>2, <2>1 DEF Kept
    <3>2. QED BY <1>2, <1>4, <2>1, <3>1
  <2>2. CASE \A id : InPage(inbox[1], id) => Shown(id)'
    <3>1. PICK p : p = inbox[1].messages  OBVIOUS
    <3>2. Brings(p) /\ DOMAIN p = 1..Len(p)
      <4>1. 1 \in 1..Len(inbox) /\ inbox[1].type = "history_response" /\ p \in Seq(Item)
        BY <1>6, <3>1, HistoryShows, HandleHistoryResponseShape, ReceiveTakes
      <4>2. QED BY <3>1, <4>1 DEF Upward
    <3>3. \A d : (\E i \in 1..Len(p) : p[i].id = d) => Shown(d)'  BY <2>2, <3>1, <3>2 DEF InPage
    <3>4. \A d : Settled(d) /\ 2 * e.id <= 2 * d => e.id <= d /\ d # 0  BY <1>3 DEF Settled, Id
    <3>5. QED BY <1>1, <1>6, <3>1, <3>2, <3>3, <3>4 DEF ShownFrom, Brings
  <2>3. QED BY <1>6, <2>1, <2>2, HistoryShows
<1>7. QED BY <1>1, <1>2, <1>4, <1>5, <1>6 DEF Origin, Brought

LEMMA UpwardStays ==
  ASSUME Zone >= 0, QueueIsNewest, ShapeInv, ShapeInv', Books, Books', AckFresh, Started, Started', Replayed,
         Times, Upward, [Next]_vars
  PROVE  Upward'
<1>1. /\ \A at : ShownFrom(at) => ShownFrom(at)'
      /\ \A p : Brings(p) => Brings(p)'
      /\ \A id : id # 0 /\ Shown(id) => Shown(id)'
      /\ Len(Preload) \in Nat /\ Zone \in Int
  BY ShownStays, ChatAssumption
<1>2. \A e : \A j \in 1..Len(msgs') : e = msgs'[j] /\ e.id # 0 => ShownFrom(2 * e.id)'  BY EntriesUp
<1>3. \A f : \A k \in 1..Len(outbox') : f = outbox'[k] => AskedAbove(f)'
  <2>1. SUFFICES ASSUME NEW f, NEW k \in 1..Len(outbox'), f = outbox'[k],
                        f.type = "history_request", f.before # Latest
                 PROVE  ShownFrom(f.before)'
    BY DEF AskedAbove
  <2>2. CASE \E l \in 1..Len(outbox) : outbox[l] = f  BY <1>1, <2>1, <2>2 DEF Upward, AskedAbove
  <2>3. CASE LoadMore /\ f = HistoryRequest(msgs[1].at + Zone)
    <3>1. PICK at : at = msgs[1].at  OBVIOUS
    <3>2. f.before = at + Zone /\ 1 \in 1..Len(msgs) /\ at \in Nat /\ msgs[1].id \in Nat
      BY <2>3, <3>1, LoadMoreShape DEF HistoryRequest, EntryT
    <3>3. CASE at > 2 * Len(Preload)  BY <1>1, <3>2, <3>3 DEF ShownFrom, Settled
    <3>4. CASE msgs[1].id # 0 /\ at = 2 * msgs[1].id
      <4>1. ShownFrom(at)  BY <3>2, <3>4 DEF Upward
      <4>2. ShownFrom(at + Zone)
        <5>1. \A d : Settled(d) /\ at + Zone <= 2 * d => at <= 2 * d  BY <1>1, <3>2 DEF Settled
        <5>2. QED BY <4>1, <5>1 DEF ShownFrom
      <4>3. QED BY <1>1, <3>2, <4>2
    <3>5. QED BY <3>1, <3>2, <3>3, <3>4 DEF Times
  <2>4. QED BY <2>1, <2>2, <2>3, OutboxFrom DEF Sent, HistoryRequest, Send
<1>4. \A p : page' # NoPage /\ p = page'.messages => Brings(p)'
  <2>1. CASE HandleHistoryRequest  BY <1>1, <2>1, PageBrings
  <2>2. CASE page' = page \/ page' = NoPage  BY <1>1, <2>2 DEF Upward
  <2>3. QED BY <2>1, <2>2, Leaves DEF SendPage
<1>5. \A f : \A k \in 1..Len(inbox') : f = inbox'[k] /\ f.type = "history_response" => Brings(f.messages)'
  <2>1. SUFFICES ASSUME NEW f, NEW k \in 1..Len(inbox'), f = inbox'[k], f.type = "history_response"
                 PROVE  Brings(f.messages)'
    OBVIOUS
  <2>2. Came(f)  BY <2>1, InboxFrom
  <2>3. (\E l \in 1..Len(inbox) : inbox[l] = f) \/ (page # NoPage /\ f = page)
    BY <2>1, <2>2 DEF Came, MessageAck
  <2>4. Brings(f.messages)  BY <2>1, <2>3 DEF Upward
  <2>5. QED BY <1>1, <2>4
<1>6. contact'.exhausted => ShownFrom(0)'
  <2>1. CASE contact.exhausted  BY <1>1, <2>1 DEF Upward
  <2>2. CASE ~HandleHistoryResponse  BY <2>1, <2>2, FlagsStay
  <2>3. CASE HandleHistoryResponse /\ contact'.exhausted /\ ~contact.exhausted
    <3>1. PICK p : p = inbox[1].messages  OBVIOUS
    <3>2. /\ contact' = Loaded(contact, p) /\ ContactOK(contact) /\ p \in Seq(Item)
          /\ \A id : InPage(inbox[1], id) => Shown(id)'
          /\ 1 \in 1..Len(inbox) /\ inbox[1].type = "history_response"
      BY <2>3, <3>1, HistoryShows, HandleHistoryResponseShape, ReceiveTakes, ShapeGives
    <3>3. Len(p) < PageSize  BY <2>3, <3>2 DEF Loaded, NothingOlder, ContactOK, ContactT
    <3>4. Brings(p)  BY <3>1, <3>2 DEF Upward
    <3>5. \A d : (\E i \in 1..Len(p) : p[i].id = d) => Shown(d)'  BY <3>1, <3>2 DEF InPage
    <3>6. QED BY <1>1, <3>3, <3>4, <3>5 DEF ShownFrom, Brings, Settled
  <2>4. QED BY <2>1, <2>2, <2>3
<1>7. QED BY <1>2, <1>3, <1>4, <1>5, <1>6 DEF Upward

LEMMA InitHole ==
  ASSUME Init
  PROVE  HoleInv
<1>1. /\ msgs = <<>> /\ inbox = <<>> /\ outbox = <<>> /\ page = NoPage /\ rows = Preload
      /\ relaying = 0 /\ acking = 0 /\ greeting.of = <<>> /\ ~contact.exhausted
  BY DEF Init
<1>2. /\ Len(msgs) = 0 /\ Len(inbox) = 0 /\ Len(outbox) = 0 /\ Len(greeting.of) = 0
      /\ Len(Preload) \in Nat /\ DOMAIN Preload = 1..Len(Preload)
  BY <1>1, ChatAssumption
<1>3. Started
  <2>1. PICK T : T = [mine : BOOLEAN, cm : {0}, delivered : BOOLEAN, read : BOOLEAN]  OBVIOUS
  <2>2. PICK r \in Seq(T) : r = Preload  BY <2>1, ChatAssumption
  <2>3. \A i \in 1..Len(r) : r[i].cm = 0
    <3>1. TAKE i \in 1..Len(r)
    <3>2. r[i] \in T  OBVIOUS
    <3>3. QED BY <2>1, <3>2
  <2>4. QED BY <1>1, <1>2, <2>2, <2>3 DEF Started, Settled
<1>4. Replayed /\ Named /\ Times /\ Upward
  BY <1>1, <1>2 DEF Replayed, Named, Times, Upward, Settled
<1>5. Accounted  BY <1>1, <1>2 DEF Accounted, Settled, OnWay, Undelivered
<1>6. QED BY <1>3, <1>4, <1>5 DEF HoleInv

LEMMA HoleFills ==
  ASSUME ShapeInv, HoleInv
  PROVE  NothingMissing
<1>1. /\ rows \in Seq(RowT) /\ msgs \in Seq(EntryT) /\ inbox \in Seq(ServerFrame)
  BY DEF ShapeInv, ChatShape, ServerShape, ClientShape, WireShape
<1>2. SUFFICES ASSUME NEW id \in DOMAIN rows,
                      contact.exhausted \/ (msgs # <<>> /\ msgs[1].id # 0 /\ msgs[1].id <= id)
               PROVE  Shown(id) \/ Coming(id) \/ Missed(id)
  BY DEF NothingMissing
<1>3. id \in 1..Len(rows) /\ id \in Nat  BY <1>1, <1>2
<1>4. CASE OnWay(id)  BY <1>1, <1>4 DEF OnWay, Coming
<1>5. CASE Settled(id) /\ contact.exhausted  BY <1>3, <1>5 DEF HoleInv, Upward, ShownFrom
<1>6. CASE Settled(id) /\ msgs # <<>> /\ msgs[1].id # 0 /\ msgs[1].id <= id
  <2>1. 1 \in 1..Len(msgs) /\ msgs[1] \in EntryT  BY <1>1, <1>6
  <2>2. ShownFrom(2 * msgs[1].id) /\ 2 * msgs[1].id <= 2 * id
    BY <1>3, <1>6, <2>1 DEF HoleInv, Upward, EntryT
  <2>3. QED BY <1>6, <2>2 DEF ShownFrom
<1>7. QED BY <1>2, <1>3, <1>4, <1>5, <1>6 DEF HoleInv, Accounted

\* If the database starts with a queue that is newer than what the client has
\* received or sent, no message is left out between the pages, the replay and
\* the live messages, however their handlers interleave and whichever connection
\* is lost: every message from the first one shown on is shown, on its way, or
\* was lost with a connection or in trySend with a full outbox.  The zone may let a page repeat a message, not
\* skip one (update.go:450-483, events.go:282-303, store.HistoryPage).
THEOREM NoHole ==
  ASSUME Zone >= 0, QueueIsNewest
  PROVE  ChatSpec => []NothingMissing
<1> DEFINE Whole == ShapeInv /\ WaitInv /\ Numbers /\ AckFresh /\ Unheard /\ HoleInv
<1>1. Init => Whole  BY InitShape, InitQuiet, InitBooks, InitOrder, InitHole
<1>2. Whole /\ [Next]_vars => Whole'
  <2>1. SUFFICES ASSUME Whole, [Next]_vars PROVE Whole'  OBVIOUS
  <2>2. /\ ShapeInv' /\ WaitInv' /\ Numbers' /\ AckFresh' /\ Grown(rows') /\ Books /\ Books'
    BY <2>1, StepShape, StepWaits, StepBooks, StepFresh, StepGrows DEF Numbers
  <2>3. Started' /\ Replayed' /\ Named' /\ Accounted' /\ Times'
    BY <2>1, <2>2, StartedStays, ReplayedStays, NamedStays, AccountedStays, TimesStays DEF HoleInv
  <2>4. Upward'  BY <2>1, <2>2, <2>3, UpwardStays DEF HoleInv
  <2>5. Unheard'  BY <2>1, <2>2, StepUnheard
  <2>6. QED BY <2>2, <2>3, <2>4, <2>5 DEF HoleInv
<1>3. Whole => NothingMissing  BY HoleFills
<1>4. QED BY <1>1, <1>2, <1>3, PTL DEF ChatSpec

-----------------------------------------------------------------------------
(* The bounds.                                                             *)

LEMMA FiniteBits ==
  ASSUME ShapeInv
  PROVE  /\ IsFiniteSet(Sending) /\ Cardinality(Sending) \in Nat
         /\ IsFiniteSet(ShownRows) /\ Cardinality(ShownRows) \in Nat
         /\ Cardinality(ShownRows) <= Len(msgs)
<1>1. MaxSends \in Nat /\ Len(rows) \in Nat /\ msgs \in Seq(EntryT) /\ Len(msgs) \in Nat
  BY ShapeGives, ChatAssumption DEF MsgsOK
<1>2. /\ IsFiniteSet(1..MaxSends) /\ IsFiniteSet(1..Len(rows)) /\ IsFiniteSet(1..Len(msgs))
      /\ Cardinality(1..Len(msgs)) = Len(msgs)
  <2>1. ASSUME NEW n \in Nat PROVE IsFiniteSet(1..n) /\ Cardinality(1..n) = n
    <3>1. 1 \in Int /\ n \in Int  OBVIOUS
    <3>2. IsFiniteSet(1..n) /\ Cardinality(1..n) = IF 1 > n THEN 0 ELSE n - 1 + 1
      BY ONLY <3>1, FS_Interval
    <3>3. QED BY <3>2
  <2>2. QED BY <1>1, <2>1
<1>3. Sending \subseteq 1..MaxSends /\ ShownRows \subseteq 1..Len(rows)  BY DEF Sending, ShownRows
<1>4. IsFiniteSet(Sending) /\ IsFiniteSet(ShownRows)  BY <1>2, <1>3, FS_Subset
<1>5. Cardinality(ShownRows) <= Len(msgs)
  <2>1. PICK A : A = {i \in 1..Len(msgs) : msgs[i].id \in ShownRows}  OBVIOUS
  <2>2. A \subseteq 1..Len(msgs)  BY <2>1
  <2>3. IsFiniteSet(A) /\ Cardinality(A) <= Len(msgs)  BY <1>2, <2>2, FS_Subset
  <2>4. PICK f : f = [i \in A |-> msgs[i].id]  OBVIOUS
  <2>5. f \in Surjection(A, ShownRows)
    <3>1. f \in [A -> ShownRows]  BY <2>1, <2>4
    <3>2. \A id \in ShownRows : \E i \in A : f[i] = id  BY <2>1, <2>4 DEF ShownRows
    <3>3. QED BY <3>1, <3>2 DEF Surjection
  <2>6. Cardinality(ShownRows) <= Cardinality(A)  BY <2>3, <2>5, FS_Surjection
  <2>7. QED BY <1>1, <1>4, <2>3, <2>6, FS_CardinalityType
<1>6. QED BY <1>4, <1>5, FS_CardinalityType

LEMMA SendingStays ==
  ASSUME ShapeInv, Books, Counted, [Next]_vars
  PROVE  Len(rows') + Cardinality(Sending') + sends' <= Len(Preload) + MaxSends
<1>1. /\ IsFiniteSet(Sending) /\ Cardinality(Sending) \in Nat /\ sends \in Nat /\ MaxSends \in Nat
      /\ Len(rows) \in Nat /\ Len(Preload) \in Nat
      /\ Len(rows) + Cardinality(Sending) + sends <= Len(Preload) + MaxSends
  BY FiniteBits, ShapeGives, ChatAssumption DEF Counted
<1>2. \A n \in Sending' : n \in Sending \/ (Type /\ n = sends)
  <2>1. TAKE n \in Sending'
  <2>2. n \in 1..MaxSends /\ Sent(Send(n))  BY OutboxFrom DEF Sending
  <2>3. (\E l \in 1..Len(outbox) : outbox[l] = Send(n)) \/ (Type /\ Send(n).cm = Send(sends).cm)
    BY <2>2 DEF Sent, Send, HistoryRequest
  <2>4. QED BY <2>2, <2>3 DEF Sending, Send
<1>3. Sending' \subseteq Sending \/ Type  BY <1>2
<1>4. \A S \in SUBSET Sending : Cardinality(S) <= Cardinality(Sending) /\ Cardinality(S) \in Nat
  BY <1>1, FS_Subset, FS_CardinalityType
<1>5. CASE Type
  <2>1. Sending' \subseteq Sending \cup {sends}  BY <1>2
  <2>2. IsFiniteSet(Sending \cup {sends})
        /\ Cardinality(Sending \cup {sends}) <= Cardinality(Sending) + 1
    <3>1. IsFiniteSet(Sending)  BY <1>1
    <3>2. /\ IsFiniteSet(Sending \cup {sends})
          /\ Cardinality(Sending \cup {sends})
               = IF sends \in Sending THEN Cardinality(Sending) ELSE Cardinality(Sending) + 1
      BY ONLY <3>1, FS_AddElement
    <3>3. QED BY <1>1, <3>2
  <2>3. /\ Cardinality(Sending') <= Cardinality(Sending \cup {sends})
        /\ Cardinality(Sending') \in Nat /\ Cardinality(Sending \cup {sends}) \in Nat
    BY <2>1, <2>2, FS_Subset, FS_CardinalityType
  <2>4. rows' = rows /\ sends' = sends - 1  BY <1>5 DEF Type, server
  <2>5. QED BY <1>1, <2>2, <2>3, <2>4
<1>6. CASE StoreMessage
  <2>1. PICK n : n = Head(outbox).cm  OBVIOUS
  <2>2. /\ Len(rows') = Len(rows) + 1 /\ outbox[1] = Send(n) /\ 1 \in 1..Len(outbox)
        /\ \A k \in 1..Len(outbox') : k + 1 \in 1..Len(outbox) /\ outbox'[k] = outbox[k + 1]
    BY <1>6, <2>1, StoreMessageShape, ReadTakes DEF StoreMessage
  <2>3. n \in Nat /\ n # 0 /\ n <= MaxSends /\ outbox[1].type = "message"
    BY <2>2, BooksNumbers DEF Counted, Send
  <2>4. n \in Sending  BY <1>1, <2>2, <2>3 DEF Sending
  <2>5. n \notin Sending'
    <3>1. \A k \in 1..Len(outbox') : outbox'[k] # Send(n)  BY <2>2, <2>3 DEF Books, WireBooks
    <3>2. QED BY <3>1 DEF Sending
  <2>6. Sending' \subseteq Sending \ {n}  BY <1>3, <1>6, <2>5 DEF Type, StoreMessage, server
  <2>7. IsFiniteSet(Sending \ {n}) /\ Cardinality(Sending \ {n}) = Cardinality(Sending) - 1
    BY <1>1, <2>4, FS_RemoveElement
  <2>8. Cardinality(Sending') <= Cardinality(Sending) - 1 /\ Cardinality(Sending') \in Nat
    BY <2>6, <2>7, FS_Subset, FS_CardinalityType
  <2>9. sends' = sends  BY <1>6 DEF StoreMessage
  <2>10. QED BY <1>1, <2>2, <2>8, <2>9
<1>7. CASE PeerSends
  <2>1. Len(rows') = Len(rows) + 1 /\ sends' = sends - 1 /\ outbox' = outbox
    BY <1>7, PeerSendsShape DEF PeerSends
  <2>2. Sending' = Sending  BY <2>1 DEF Sending
  <2>3. QED BY <1>1, <2>1, <2>2
<1>8. CASE ~Type /\ ~StoreMessage /\ ~PeerSends
  <2>1. Len(rows') = Len(rows) /\ sends' = sends  BY <1>8, LenStays, Leaves
  <2>2. Cardinality(Sending') <= Cardinality(Sending) /\ Cardinality(Sending') \in Nat
    BY <1>3, <1>4, <1>8
  <2>3. QED BY <1>1, <2>1, <2>2
<1>9. QED BY <1>5, <1>6, <1>7, <1>8

\* The badge grows with a message that was not shown.
LEMMA BadgeStays ==
  ASSUME ShapeInv, ShapeInv', Books, AckFresh, Counted, [Next]_vars
  PROVE  contact'.unread <= Cardinality(ShownRows')
<1>1. /\ contact \in ContactT /\ contact.unread <= Cardinality(ShownRows)
      /\ IsFiniteSet(ShownRows) /\ Cardinality(ShownRows) \in Nat
      /\ Len(rows) \in Nat /\ Len(rows') \in Nat /\ Len(rows) <= Len(rows')
  BY FiniteBits, ShapeGives, StepGrows DEF Counted, ContactOK, Grown
<1>2. ShownRows \subseteq ShownRows'
  <2>1. \A i \in 1..Len(msgs) : msgs[i].id # 0 => \E j \in 1..Len(msgs') : msgs'[j].id = msgs[i].id
    BY MsgsFrom DEF Kept
  <2>2. QED BY <1>1, <2>1 DEF ShownRows
<1>3. IsFiniteSet(ShownRows') /\ Cardinality(ShownRows') \in Nat
  <2>1. ShownRows' \subseteq 1..Len(rows') /\ IsFiniteSet(1..Len(rows'))
    BY <1>1, FS_Interval DEF ShownRows
  <2>2. QED BY <2>1, FS_Subset, FS_CardinalityType
<1>4. Cardinality(ShownRows) <= Cardinality(ShownRows')
  <2>1. ShownRows \in SUBSET ShownRows' /\ IsFiniteSet(ShownRows')  BY <1>2, <1>3
  <2>2. QED BY ONLY <2>1, FS_Subset
<1>5. CASE contact'.unread = contact.unread \/ contact'.unread = 0
  <2>1. contact.unread \in Nat  BY <1>1 DEF ContactT
  <2>2. QED BY <1>1, <1>3, <1>4, <1>5, <2>1
<1>6. CASE HandleMessage
  <2>1. PICK id : id = Head(inbox).id  OBVIOUS
  <2>2. id \in 1..Len(rows) /\ DOMAIN msgs = 1..Len(msgs) /\ id = inbox[1].id
    BY <1>1, <1>6, <2>1, HandleMessageShape, ReceiveTakes, ShapeGives DEF Id, MsgsOK
  <2>3. \/ contact' = contact
        \/ /\ contact' = [contact EXCEPT !.unread = @ + 1]
           /\ AppendMessage(msgs, Arrived(id)) # msgs
    BY <1>6, <2>1 DEF HandleMessage, ShowTo, Arrived
  <2>4. CASE contact' = contact  BY <1>5, <2>4
  <2>5. CASE AppendMessage(msgs, Arrived(id)) # msgs /\ contact' = [contact EXCEPT !.unread = @ + 1]
    <3>1. id \notin ShownRows  BY <2>2, <2>5 DEF AppendMessage, Arrived, ShownRows
    <3>2. id \in ShownRows'  BY <1>1, <1>6, <2>2, MessageShows DEF ShownRows
    <3>3. ShownRows \cup {id} \in SUBSET ShownRows'  BY <1>2, <3>2
    <3>4. Cardinality(ShownRows \cup {id}) = Cardinality(ShownRows) + 1
      BY <1>1, <3>1, FS_AddElement
    <3>5. Cardinality(ShownRows \cup {id}) <= Cardinality(ShownRows')  BY <1>3, <3>3, FS_Subset
    <3>6. contact'.unread = contact.unread + 1 /\ contact.unread \in Nat  BY <1>1, <2>5 DEF ContactT
    <3>7. QED BY <1>1, <1>3, <3>4, <3>5, <3>6
  <2>6. QED BY <2>3, <2>4, <2>5
<1>7. CASE Open \/ HandleContactList
  <2>1. PICK c, box, gone : /\ MaybeLoadHistory(c, box, gone) /\ ContactOK(c)
                            /\ (c.unread = contact.unread \/ c.unread = 0)
    <3>1. CASE Open  BY <3>1, OpenIs
    <3>2. CASE HandleContactList  BY <3>2, ListIs
    <3>3. QED BY <1>7, <3>1, <3>2
  <2>2. contact' = c \/ contact' = [c EXCEPT !.loading = TRUE]
    BY <2>1 DEF MaybeLoadHistory, RequestHistory
  <2>3. QED BY <1>5, <2>1, <2>2 DEF ContactOK, ContactT
<1>8. CASE Leave \/ LoadMore  BY <1>1, <1>5, <1>8 DEF Leave, LoadMore, RequestHistory, ContactT
<1>9. CASE HandleHistoryResponse
  <2>1. contact' = contact \/ contact' = Loaded(contact, Head(inbox).messages)
    BY <1>9, HandleHistoryResponseShape DEF ShowTo
  <2>2. QED BY <1>1, <1>5, <2>1 DEF Loaded, ContactT
<1>10. QED BY <1>5, <1>6, <1>7, <1>8, <1>9, Leaves

LEMMA CountedStays ==
  ASSUME ShapeInv, ShapeInv', Books, AckFresh, Counted, [Next]_vars
  PROVE  Counted'
<1>1. sends \in 0..MaxSends /\ MaxSends \in Nat  BY ShapeGives, ChatAssumption
<1>2. ASSUME NEW f, NEW k \in 1..Len(outbox'), f = outbox'[k], f.type = "message" PROVE f.cm <= MaxSends
  <2>1. (\E l \in 1..Len(outbox) : outbox[l] = f) \/ f = Send(sends)
    BY <1>2, OutboxFrom DEF Sent, HistoryRequest
  <2>2. QED BY <1>1, <1>2, <2>1 DEF Counted, Send
<1>3. \A i \in 1..Len(rows') : rows'[i].cm <= MaxSends
  <2>1. ASSUME NEW n, NEW l \in 1..Len(outbox), outbox[l] = Send(n) PROVE n <= MaxSends
    BY <2>1 DEF Counted, Send
  <2>2. TAKE i \in 1..Len(rows')
  <2>3. CASE i \in 1..Len(rows) /\ rows'[i].cm = rows[i].cm  BY <2>3 DEF Counted
  <2>4. CASE rows'[i].cm = 0  BY <1>1, <2>4
  <2>5. CASE \E l \in 1..Len(outbox) : outbox[l] = Send(rows'[i].cm)  BY <2>1, <2>5
  <2>6. QED BY <2>3, <2>4, <2>5, RowsFrom
<1>4. \A j \in 1..Len(msgs') : msgs'[j].cm <= MaxSends
  BY <1>1, MsgsFrom DEF Origin, Kept, Brought, Counted
<1>5. QED BY <1>2, <1>3, <1>4, SendingStays, BadgeStays DEF Counted

LEMMA InitCounted ==
  ASSUME Init
  PROVE  Counted
<1>1. /\ msgs = <<>> /\ outbox = <<>> /\ rows = Preload /\ sends = MaxSends /\ contact.unread = 0
      /\ MaxSends \in Nat /\ Len(Preload) \in Nat
  BY ChatAssumption DEF Init
<1>2. Len(msgs) = 0 /\ Len(outbox) = 0  BY <1>1
<1>3. Sending = {} /\ ShownRows = {}  BY <1>2 DEF Sending, ShownRows
<1>4. Cardinality({}) = 0  BY FS_EmptySet
<1>5. \A i \in 1..Len(Preload) : Preload[i].cm <= MaxSends
  <2>1. PICK T : T = [mine : BOOLEAN, cm : {0}, delivered : BOOLEAN, read : BOOLEAN]  OBVIOUS
  <2>2. PICK r \in Seq(T) : r = Preload  BY <2>1, ChatAssumption
  <2>3. ASSUME NEW i \in 1..Len(r) PROVE r[i].cm = 0
    <3>1. r[i] \in T  OBVIOUS
    <3>2. QED BY <2>1, <3>1
  <2>4. QED BY <1>1, <2>2, <2>3
<1>6. QED BY <1>1, <1>2, <1>3, <1>4, <1>5 DEF Counted

\* A sequence of things that are all in T.
LEMMA SeqIn ==
  ASSUME NEW S, NEW s \in Seq(S), NEW T, \A i \in 1..Len(s) : s[i] \in T
  PROVE  s \in Seq(T)
<1>1. s \in [1..Len(s) -> T] /\ Len(s) \in Nat  OBVIOUS
<1>2. QED BY <1>1, FunIsSeq

LEMMA CountedFits ==
  ASSUME ShapeInv, Counted
  PROVE  ChatTypeOK
<1>1. /\ rows \in Seq(RowT) /\ msgs \in Seq(EntryT) /\ Len(rows) \in Nat /\ Len(msgs) \in Nat
      /\ greeting.of \in Seq(Id) /\ relaying \in Nat /\ acking \in Nat /\ MaxSends \in Nat /\ Len(Preload) \in Nat
  BY ShapeGives, ChatAssumption DEF MsgsOK, ServerShape
<1>2. Len(rows) <= Len(Preload) + MaxSends
  <2>1. Cardinality(Sending) \in Nat /\ sends \in Nat  BY FiniteBits, ShapeGives, ChatAssumption
  <2>2. QED BY <1>1, <2>1 DEF Counted
<1>3. \A n \in Nat : n <= Len(rows) => n \in {0} \cup Ids  BY <1>1, <1>2 DEF Ids
<1>4. rows \in Seq([mine : BOOLEAN, cm : 0..MaxSends, delivered : BOOLEAN, read : BOOLEAN])
  <2>1. ASSUME NEW i \in 1..Len(rows)
        PROVE  rows[i] \in [mine : BOOLEAN, cm : 0..MaxSends, delivered : BOOLEAN, read : BOOLEAN]
    <3>1. rows[i] \in RowT /\ rows[i].cm <= MaxSends  BY <1>1 DEF Counted
    <3>2. QED BY <1>1, <3>1 DEF RowT
  <2>2. QED BY <1>1, <2>1, SeqIn
<1>5. relaying \in {0} \cup Ids /\ acking \in {0} \cup Ids  BY <1>1, <1>3 DEF ShapeInv, Known
<1>6. greeting \in [pc : {"none", "list", "flush", "replay"}, of : Seq(Ids)]
  <2>1. ASSUME NEW k \in 1..Len(greeting.of) PROVE greeting.of[k] \in Ids
    <3>1. greeting.of[k] \in Id /\ greeting.of[k] <= Len(rows)  BY <1>1 DEF ShapeInv, Known
    <3>2. QED BY <1>3, <3>1 DEF Id
  <2>2. greeting.of \in Seq(Ids)  BY <1>1, <2>1, SeqIn
  <2>3. QED BY <2>2, ShapeGives DEF ServerShape
<1>7. contact.unread \in 0..Len(msgs)
  BY <1>1, FiniteBits, ShapeGives DEF Counted, ContactOK, ContactT
<1>8. msgs \in Seq(Entry)
  <2>1. ASSUME NEW i \in 1..Len(msgs) PROVE msgs[i] \in Entry
    <3>1. msgs[i] \in EntryT /\ msgs[i].cm <= MaxSends /\ msgs[i].id <= Len(rows)
      BY <1>1 DEF Counted, ShapeInv, Known
    <3>2. QED BY <1>1, <1>3, <3>1 DEF EntryT, Entry
  <2>2. QED BY <1>1, <2>1, SeqIn
<1>9. contact \in [known : BOOLEAN, active : BOOLEAN, unread : 0..Len(msgs),
                   loaded : BOOLEAN, loading : BOOLEAN, exhausted : BOOLEAN]
  BY <1>7, ShapeGives DEF ContactOK, ContactT
<1>10. QED
  BY <1>1, <1>4, <1>5, <1>6, <1>8, <1>9
     DEF ChatTypeOK, ShapeInv, ChatShape, ServerShape, WireShape, ClientShape

\* The tables, the boxes and the entries keep their shape and their bounds: no
\* message is counted twice on its way from the user to the table, and the badge
\* never counts more than there is to see (client/update.go, server/messages.go).
THEOREM ChatTypeCorrect == ChatSpec => []ChatTypeOK
<1> DEFINE Bounded == ShapeInv /\ Numbers /\ AckFresh /\ Unheard /\ Counted
<1>1. Init => Bounded  BY InitShape, InitBooks, InitOrder, InitCounted
<1>2. Bounded /\ [Next]_vars => Bounded'
  BY StepShape, StepBooks, StepFresh, StepUnheard, CountedStays DEF Numbers
<1>3. Bounded => ChatTypeOK  BY CountedFits
<1>4. QED BY <1>1, <1>2, <1>3, PTL DEF ChatSpec

=============================================================================
