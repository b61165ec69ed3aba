--------------------------- MODULE LimiterProofs ----------------------------
(***************************************************************************)
(* Safety of the two limiters: the lock-free bucket for every rate,        *)
(* capacity and number of threads, and the fixed-window counters for every *)
(* limit and any number of callers, keys and windows.                      *)
(***************************************************************************)
EXTENDS TokenBucket, FixedWindow, FiniteSetTheorems, TLAPS

USE BucketAssumption, FixedWindowAssumption


(* Integer division rounds down by less than one divisor.                  *)
LEMMA DivBounds ==
  ASSUME NEW a \in Nat, NEW u \in Nat \ {0}
  PROVE  /\ a \div u \in Nat
         /\ (a \div u) * u <= a
         /\ a < (a \div u) * u + u
  OBVIOUS

(* Products of naturals, stated where the solvers need them.               *)
LEMMA ProductNat ==
  ASSUME NEW a \in Nat, NEW b \in Nat
  PROVE  a * b \in Nat
  OBVIOUS

(* Products, which the provers do not distribute by themselves.            *)
LEMMA ProductDiff ==
  ASSUME NEW a \in Nat, NEW b \in Nat, NEW r \in Nat
  PROVE  (a - b) * r = a * r - b * r
  OBVIOUS

(* The same for a sum.                                                     *)
LEMMA ProductSum ==
  ASSUME NEW a \in Nat, NEW b \in Nat, NEW r \in Nat
  PROVE  (a + b) * r = a * r + b * r
  OBVIOUS

(* A credit is a natural number that, in clock ticks times rate, is at     *)
(* most what was earned and short of it by less than one token.            *)
LEMMA CreditBounds ==
  ASSUME NEW a \in Nat, NEW b \in Nat
  PROVE  /\ Credit(a, b) \in Nat
         /\ Credit(a, b) # 0 => b < a
         /\ b < a => /\ Credit(a, b) * Unit <= a * Rate - b * Rate
                     /\ a * Rate - b * Rate < Credit(a, b) * Unit + Unit
<1> DEFINE earned == SaturatingSub(a, b) * Rate
<1>1. earned \in Nat /\ Credit(a, b) = earned \div Unit
  BY ProductNat DEF SaturatingSub, Credit
<1>2. /\ Credit(a, b) \in Nat
      /\ Credit(a, b) * Unit <= earned
      /\ earned < Credit(a, b) * Unit + Unit
  <2> HIDE DEF earned
  <2> QED
    BY <1>1, DivBounds
<1>3. ASSUME b < a PROVE earned = a * Rate - b * Rate
  BY <1>3, ProductDiff DEF SaturatingSub
<1>4. ASSUME ~(b < a) PROVE Credit(a, b) = 0
  <2>1. SaturatingSub(a, b) = 0
    BY <1>4 DEF SaturatingSub
  <2>2. earned = 0
    BY <2>1
  <2> QED
    BY <2>2, <1>1
<1> QED
  BY <1>2, <1>3, <1>4

-----------------------------------------------------------------------------
(* The inductive invariant.  The part about "cas" is what makes the rest   *)
(* inductive: a thread about to compare-exchange holds a clock reading     *)
(* ahead of a last_refill it really saw, with at least one token due.      *)
ThreadsBehindClock ==
  /\ last_refill <= now
  /\ \A t \in Threads : seen[t] <= now
  /\ \A t \in Threads :
       pc[t] = "cas" => /\ last[t] < seen[t]
                        /\ last[t] <= last_refill
                        /\ Credit(seen[t], last[t]) # 0

BucketInv ==
  /\ TypeOK
  /\ ThreadsBehindClock
  /\ NoDoubleCredit
  /\ CreditWithinRate

(* A CAS winner keeps the credit within the rate.                          *)
LEMMA WinnerKeepsRate ==
  ASSUME TypeOK, CreditWithinRate,
         NEW a \in Nat, last_refill < a, Credit(a, last_refill) # 0,
         last_refill' = a, won' = won + Credit(a, last_refill)
  PROVE  CreditWithinRate'
<1> DEFINE k == Credit(a, last_refill)
           p == k * Unit
           q == won * Unit
           x == last_refill * Rate
           y == a * Rate
<1>1. /\ k \in Nat /\ p <= y - x /\ y - x < p + Unit
      /\ won \in Nat /\ last_refill \in Nat
  BY CreditBounds DEF TypeOK
<1>2. p \in Nat /\ q \in Nat /\ x \in Nat /\ y \in Nat
  BY <1>1, ProductNat
<1>3. p >= Unit
  BY <1>1
<1>4. q <= x /\ x <= 2 * won * Unit
  BY DEF CreditWithinRate
<1>5. 2 * won * Unit = 2 * q
  BY <1>1
<1>6. (won + k) * Unit = q + p /\ 2 * (won + k) * Unit = 2 * (q + p)
  BY <1>1, ProductSum
<1>7. q + p <= y /\ y <= 2 * (q + p)
  <2> HIDE DEF k, p, q, x, y
  <2> QED
    BY <1>1, <1>2, <1>3, <1>4, <1>5
<1> QED
  BY <1>6, <1>7 DEF CreditWithinRate

(* A full bucket with idle threads meets the invariant.                    *)
THEOREM BucketInvInit == Init => BucketInv
  BY DEF Init, BucketInv, TypeOK, ThreadsBehindClock, NoDoubleCredit,
         CreditWithinRate

(* Every atomic operation of every thread preserves the invariant.         *)
THEOREM BucketInvNext == BucketInv /\ [Next]_vars => BucketInv'
<1> SUFFICES ASSUME BucketInv, [Next]_vars PROVE BucketInv'
  OBVIOUS
<1> USE DEF BucketInv
<1>1. ASSUME NEW t \in Threads, ReadClock(t) PROVE BucketInv'
  <2> USE <1>1 DEF ReadClock
  <2>1. TypeOK'
    BY DEF TypeOK
  <2>2. ThreadsBehindClock'
    BY DEF TypeOK, ThreadsBehindClock
  <2>3. NoDoubleCredit'
    BY DEF TypeOK, NoDoubleCredit
  <2>4. CreditWithinRate'
    BY DEF CreditWithinRate
  <2> QED
    BY <2>1, <2>2, <2>3, <2>4
<1>2. ASSUME NEW t \in Threads, LoadLast(t) PROVE BucketInv'
  <2> USE <1>2 DEF LoadLast
  <2>0. Credit(seen[t], last_refill) # 0 => last_refill < seen[t]
    BY CreditBounds DEF TypeOK
  <2>1. TypeOK'
    BY DEF TypeOK
  <2>2. ThreadsBehindClock'
    BY <2>0 DEF TypeOK, ThreadsBehindClock
  <2>3. NoDoubleCredit'
    BY DEF TypeOK, NoDoubleCredit
  <2>4. CreditWithinRate'
    BY DEF CreditWithinRate
  <2> QED
    BY <2>1, <2>2, <2>3, <2>4
<1>3. ASSUME NEW t \in Threads, CompareExchange(t) PROVE BucketInv'
  <2>1. CASE last_refill = last[t]
    <3>1. /\ last_refill' = seen[t] /\ won' = won + Credit(seen[t], last[t])
          /\ pc' = [pc EXCEPT ![t] = "credit"]
          /\ UNCHANGED <<tokens, now, seen, last, admitted>>
      BY <1>3, <2>1 DEF CompareExchange
    <3>2. /\ last[t] < seen[t] /\ seen[t] <= now
          /\ Credit(seen[t], last[t]) # 0 /\ seen[t] \in Nat
          /\ last[t] \in Nat
      BY <1>3 DEF CompareExchange, ThreadsBehindClock, TypeOK
    <3>3. TypeOK'
      <4>1. Credit(seen[t], last[t]) \in Nat
        BY <3>2, CreditBounds
      <4> QED
        BY <3>1, <3>2, <4>1 DEF TypeOK
    <3>4. ThreadsBehindClock'
      BY <3>1, <3>2, <2>1 DEF TypeOK, ThreadsBehindClock
    <3>5. NoDoubleCredit'
      <4> SUFFICES ASSUME NEW r \in Threads, NEW s \in Threads,
                          pc'[r] = "credit", pc'[s] = "credit"
                   PROVE  /\ last'[r] < seen'[r] /\ seen'[r] <= last_refill'
                          /\ r # s => (seen'[r] <= last'[s]
                                         \/ seen'[s] <= last'[r])
        BY DEF NoDoubleCredit
      <4>1. \A q \in Threads : q # t => pc'[q] = pc[q]
        BY <3>1 DEF TypeOK
      <4>2. \A q \in Threads : (q # t /\ pc'[q] = "credit") =>
              last[q] < seen[q] /\ seen[q] <= last[t]
        BY <4>1, <2>1 DEF NoDoubleCredit
      <4> QED
        BY <3>1, <3>2, <4>1, <4>2 DEF NoDoubleCredit, TypeOK
    <3>6. CreditWithinRate'
      <4>1. /\ last_refill' = seen[t] /\ last_refill < seen[t]
            /\ Credit(seen[t], last_refill) # 0
            /\ won' = won + Credit(seen[t], last_refill)
        BY <3>1, <3>2, <2>1
      <4> QED
        BY <3>2, <4>1, WinnerKeepsRate
    <3> QED
      BY <3>3, <3>4, <3>5, <3>6
  <2>2. CASE last_refill # last[t]
    <3> USE <1>3, <2>2 DEF CompareExchange
    <3>1. TypeOK'
      BY DEF TypeOK
    <3>2. ThreadsBehindClock'
      BY DEF TypeOK, ThreadsBehindClock
    <3>3. NoDoubleCredit'
      BY DEF TypeOK, NoDoubleCredit
    <3>4. CreditWithinRate'
      BY DEF CreditWithinRate
    <3> QED
      BY <3>1, <3>2, <3>3, <3>4
  <2> QED
    BY <2>1, <2>2
<1>4. ASSUME NEW t \in Threads, AddCredit(t) PROVE BucketInv'
  <2> USE <1>4 DEF AddCredit
  <2>1. TypeOK'
    <3>1. Credit(seen[t], last[t]) \in Nat
      BY CreditBounds DEF TypeOK
    <3>2. CappedAdd(tokens, Credit(seen[t], last[t])) \in 0..Capacity
      BY <3>1 DEF CappedAdd, TypeOK
    <3> QED
      BY <3>2 DEF TypeOK
  <2>2. ThreadsBehindClock'
    BY DEF TypeOK, ThreadsBehindClock
  <2>3. NoDoubleCredit'
    BY DEF TypeOK, NoDoubleCredit
  <2>4. CreditWithinRate'
    BY DEF CreditWithinRate
  <2> QED
    BY <2>1, <2>2, <2>3, <2>4
<1>5. ASSUME NEW t \in Threads, Consume(t) PROVE BucketInv'
  <2> USE <1>5 DEF Consume
  <2>1. TypeOK'
    BY DEF TypeOK
  <2>2. ThreadsBehindClock'
    BY DEF TypeOK, ThreadsBehindClock
  <2>3. NoDoubleCredit'
    BY DEF TypeOK, NoDoubleCredit
  <2>4. CreditWithinRate'
    BY DEF CreditWithinRate
  <2> QED
    BY <2>1, <2>2, <2>3, <2>4
<1>6. CASE Tick
  <2> USE <1>6 DEF Tick
  <2>1. TypeOK' /\ ThreadsBehindClock'
    BY DEF TypeOK, ThreadsBehindClock
  <2>2. NoDoubleCredit' /\ CreditWithinRate'
    BY DEF NoDoubleCredit, CreditWithinRate
  <2> QED
    BY <2>1, <2>2
<1>7. CASE UNCHANGED vars
  BY <1>7 DEF vars, TypeOK, ThreadsBehindClock, NoDoubleCredit,
              CreditWithinRate
<1> QED
  BY <1>1, <1>2, <1>3, <1>4, <1>5, <1>6, <1>7 DEF Next

-----------------------------------------------------------------------------
(* The invariant holds in every reachable state.                           *)
THEOREM BucketInvariant == Spec => []BucketInv
  BY BucketInvInit, BucketInvNext, PTL DEF Spec

(* The counter never leaves 0..capacity.                                   *)
THEOREM BucketTypeOK == Spec => []TypeOK
  BY BucketInvariant, PTL DEF BucketInv

(* No stretch of time is credited twice.                                   *)
THEOREM BucketNoDoubleCredit == Spec => []NoDoubleCredit
  BY BucketInvariant, PTL DEF BucketInv

(* Between half of the configured rate and all of it is credited.          *)
THEOREM BucketCreditWithinRate == Spec => []CreditWithinRate
  BY BucketInvariant, PTL DEF BucketInv

(* last_refill never moves backwards.                                      *)
THEOREM BucketRefillMonotone == Spec => RefillMonotone
<1>1. BucketInv /\ [Next]_vars => [last_refill' >= last_refill]_vars
  <2> SUFFICES ASSUME BucketInv, Next PROVE last_refill' >= last_refill
    BY DEF vars
  <2>1. ASSUME NEW t \in Threads, CompareExchange(t)
        PROVE  last_refill' >= last_refill
    BY <2>1 DEF CompareExchange, BucketInv, ThreadsBehindClock, TypeOK
  <2>2. ASSUME last_refill' = last_refill
        PROVE  last_refill' >= last_refill
    BY <2>2 DEF BucketInv, TypeOK
  <2> QED
    BY <2>1, <2>2 DEF Next, ReadClock, LoadLast, AddCredit, Consume, Tick
<1> QED
  BY <1>1, BucketInvariant, PTL DEF Spec, RefillMonotone
-----------------------------------------------------------------------------
(* The bucket implements RateContract.  What is admitted must be earned by *)
(* ticks of the clock that nobody is paid for twice.  Of the credits that  *)
(* were won, some are still in the hands of threads between their compare- *)
(* exchange and their update, so the ticks paid out are a set of their     *)
(* own, disjoint from the spans those threads hold.                        *)
Span(t) == last[t]..(seen[t] - 1)

PaidBy(T) ==
  /\ (admitted + tokens) * Unit <= Capacity * Unit + Cardinality(T) * Rate
  /\ \A t \in Threads : pc[t] = "credit" => Span(t) \cap T = {}

AdmittedEarned == \E T \in SUBSET (0..(last_refill - 1)) : PaidBy(T)

(* Ticks before a moment are finite, and no more than the moment's number. *)
LEMMA TicksBefore ==
  ASSUME NEW n \in Nat, NEW T \in SUBSET (0..(n - 1))
  PROVE  IsFiniteSet(T) /\ Cardinality(T) \in Nat /\ Cardinality(T) <= n
<1>1. IsFiniteSet(0..(n - 1)) /\ Cardinality(0..(n - 1)) = n
  BY FS_Interval
<1> QED
  BY <1>1, FS_Subset, FS_CardinalityType

(* Multiplication by the unit keeps and reflects the order.                *)
LEMMA ProductOrder ==
  ASSUME NEW a \in Nat, NEW b \in Nat, NEW r \in Nat, a <= b
  PROVE  a * r <= b * r
<1>1. PICK d \in Nat : b = a + d
  BY b - a \in Nat
<1>2. b * r = a * r + d * r
  BY <1>1, ProductSum
<1> QED
  BY <1>2, ProductNat

(* What fits into a multiple of the unit fits into the quotient.           *)
LEMMA FitsQuotient ==
  ASSUME NEW a \in Nat, NEW b \in Nat, a * Unit <= b
  PROVE  a <= b \div Unit
<1> DEFINE q == b \div Unit
<1>1. q \in Nat /\ b < q * Unit + Unit
  BY DivBounds
<1> HIDE DEF q
<1>2. SUFFICES ASSUME q + 1 <= a PROVE FALSE
  BY <1>1 DEF q
<1>3. (q + 1) * Unit <= a * Unit
  BY <1>1, <1>2, ProductOrder
<1>4. (q + 1) * Unit = q * Unit + Unit
  BY <1>1, ProductSum
<1> QED
  BY <1>1, <1>3, <1>4, ProductNat

(* A thread that adds its credit is paid for its own span.                 *)
LEMMA PaidSpan ==
  ASSUME BucketInv, NEW t \in Threads, AddCredit(t),
         NEW T \in SUBSET (0..(last_refill - 1)), PaidBy(T)
  PROVE  PaidBy(T \cup Span(t))' /\ Span(t) \subseteq 0..(last_refill - 1)
<1> DEFINE S == Span(t)
           k == Credit(seen[t], last[t])
           x == seen[t] * Rate
           y == last[t] * Rate
<1>1. /\ last[t] \in Nat /\ seen[t] \in Nat /\ last[t] < seen[t]
      /\ seen[t] <= last_refill /\ last_refill \in Nat
      /\ tokens \in Nat /\ admitted \in Nat /\ pc[t] = "credit"
  BY DEF BucketInv, TypeOK, NoDoubleCredit, AddCredit
<1>2. /\ k \in Nat /\ k * Unit <= x - y
  BY <1>1, CreditBounds
<1>3. S \subseteq 0..(last_refill - 1)
  BY <1>1 DEF Span
<1>4. IsFiniteSet(S) /\ Cardinality(S) = seen[t] - last[t]
  <2>1. last[t] \in Int /\ seen[t] - 1 \in Int /\ ~(last[t] > seen[t] - 1)
    BY <1>1
  <2>2. /\ IsFiniteSet(last[t]..(seen[t] - 1))
        /\ Cardinality(last[t]..(seen[t] - 1)) = seen[t] - 1 - last[t] + 1
    BY <2>1, FS_Interval
  <2> QED
    BY <1>1, <2>2 DEF Span
<1>5. IsFiniteSet(T) /\ Cardinality(T) \in Nat
  BY <1>1, TicksBefore
<1>6. S \cap T = {} /\ T \cap S = {}
  BY <1>1 DEF PaidBy
<1>7. Cardinality(T \cup S) = Cardinality(T) + (seen[t] - last[t])
  <2> HIDE DEF S
  <2>1. Cardinality(T \cup S) = Cardinality(T) + Cardinality(S) - Cardinality(T \cap S)
    BY <1>4, <1>5, FS_Union
  <2>2. Cardinality(T \cap S) = 0
    BY <1>6, FS_EmptySet
  <2> QED
    BY <1>1, <1>4, <1>5, <2>1, <2>2
<1>8. Cardinality(T \cup S) * Rate = Cardinality(T) * Rate + (x - y)
  <2>1. seen[t] - last[t] \in Nat
    BY <1>1
  <2>2. (Cardinality(T) + (seen[t] - last[t])) * Rate
          = Cardinality(T) * Rate + (seen[t] - last[t]) * Rate
    BY <1>5, <2>1, ProductSum
  <2> QED
    BY <1>1, <1>7, <2>2, ProductDiff
<1>9. /\ tokens' \in Nat /\ tokens' <= tokens + k /\ admitted' = admitted
      /\ pc' = [pc EXCEPT ![t] = "consume"] /\ seen' = seen /\ last' = last
  BY <1>1, <1>2 DEF AddCredit, CappedAdd
<1>10. (admitted' + tokens') * Unit
         <= Capacity * Unit + Cardinality(T \cup S) * Rate
  <2>1. (admitted' + tokens') * Unit <= (admitted + tokens + k) * Unit
    <3>1. admitted' + tokens' <= admitted + tokens + k
      BY <1>1, <1>2, <1>9
    <3> QED
      BY <1>1, <1>2, <1>9, <3>1, ProductOrder
  <2>2. (admitted + tokens + k) * Unit = (admitted + tokens) * Unit + k * Unit
    BY <1>1, <1>2, ProductSum
  <2>3. (admitted + tokens) * Unit <= Capacity * Unit + Cardinality(T) * Rate
    BY DEF PaidBy
  <2>4. /\ x \in Nat /\ y \in Nat /\ k * Unit \in Nat
        /\ (admitted + tokens) * Unit \in Nat /\ Capacity * Unit \in Nat
        /\ Cardinality(T) * Rate \in Nat /\ (admitted' + tokens') * Unit \in Nat
    BY <1>1, <1>2, <1>5, <1>9, ProductNat
  <2> HIDE DEF x, y, k
  <2> QED
    BY <1>2, <1>8, <2>1, <2>2, <2>3, <2>4
<1>11. ASSUME NEW u \in Threads, pc'[u] = "credit"
       PROVE  Span(u) \cap (T \cup S) = {}
  <2>1. u # t /\ pc[u] = "credit"
    BY <1>9, <1>11 DEF BucketInv, TypeOK
  <2>2. Span(u) \cap T = {}
    BY <2>1 DEF PaidBy
  <2>3. /\ last[u] \in Nat /\ seen[u] \in Nat
        /\ seen[u] <= last[t] \/ seen[t] <= last[u]
    BY <1>1, <2>1 DEF BucketInv, TypeOK, NoDoubleCredit
  <2>4. Span(u) \cap S = {}
    BY <1>1, <2>3 DEF Span
  <2> QED
    BY <2>2, <2>4
<1> QED
  BY <1>3, <1>9, <1>10, <1>11 DEF PaidBy, Span

(* Every atomic operation keeps what is admitted within what is earned.    *)
THEOREM EarnedNext ==
  BucketInv /\ AdmittedEarned /\ [Next]_vars => AdmittedEarned'
<1> SUFFICES ASSUME BucketInv, AdmittedEarned, [Next]_vars
             PROVE  AdmittedEarned'
  OBVIOUS
<1>1. PICK T \in SUBSET (0..(last_refill - 1)) : PaidBy(T)
  BY DEF AdmittedEarned
<1>2. ASSUME last_refill' = last_refill, PaidBy(T)' PROVE AdmittedEarned'
  BY <1>2 DEF AdmittedEarned
<1>3. ASSUME NEW t \in Threads, ReadClock(t) \/ LoadLast(t)
      PROVE  AdmittedEarned'
  <2>1. /\ UNCHANGED <<tokens, admitted, last_refill>>
        /\ \A u \in Threads : pc'[u] = "credit" =>
             pc[u] = "credit" /\ last'[u] = last[u] /\ seen'[u] = seen[u]
    BY <1>3 DEF ReadClock, LoadLast, BucketInv, TypeOK
  <2> QED
    BY <1>1, <1>2, <2>1 DEF PaidBy, Span
<1>4. ASSUME NEW t \in Threads, CompareExchange(t) PROVE AdmittedEarned'
  <2>1. CASE last_refill # last[t]
    <3>1. /\ UNCHANGED <<tokens, admitted, last_refill, seen, last>>
          /\ \A u \in Threads : pc'[u] = "credit" => pc[u] = "credit"
      BY <1>4, <2>1 DEF CompareExchange, BucketInv, TypeOK
    <3> QED
      BY <1>1, <1>2, <3>1 DEF PaidBy, Span
  <2>2. CASE last_refill = last[t]
    <3>1. /\ UNCHANGED <<tokens, admitted, seen, last>>
          /\ last_refill' = seen[t] /\ last[t] < seen[t]
          /\ last[t] \in Nat /\ seen[t] \in Nat /\ last[t] = last_refill
          /\ \A u \in Threads : pc'[u] = "credit" => pc[u] = "credit" \/ u = t
      BY <1>4, <2>2 DEF CompareExchange, BucketInv, TypeOK, ThreadsBehindClock
    <3>2. T \in SUBSET (0..(last_refill' - 1)) /\ Span(t) \cap T = {}
      BY <3>1 DEF Span
    <3>3. PaidBy(T)'
      BY <1>1, <3>1, <3>2 DEF PaidBy, Span
    <3> QED
      BY <3>2, <3>3 DEF AdmittedEarned
  <2> QED
    BY <2>1, <2>2
<1>5. ASSUME NEW t \in Threads, AddCredit(t) PROVE AdmittedEarned'
  <2>1. PaidBy(T \cup Span(t))' /\ T \cup Span(t) \in SUBSET (0..(last_refill - 1))
    BY <1>1, <1>5, PaidSpan
  <2>2. last_refill' = last_refill /\ (T \cup Span(t))' = T \cup Span(t)
    BY <1>5 DEF AddCredit, Span
  <2> QED
    BY <2>1, <2>2 DEF AdmittedEarned
<1>6. ASSUME NEW t \in Threads, Consume(t) PROVE AdmittedEarned'
  <2>1. /\ UNCHANGED <<last_refill, seen, last>>
        /\ admitted' + tokens' = admitted + tokens
        /\ \A u \in Threads : pc'[u] = "credit" => pc[u] = "credit"
    BY <1>6 DEF Consume, BucketInv, TypeOK
  <2> QED
    BY <1>1, <1>2, <2>1 DEF PaidBy, Span
<1>7. ASSUME Tick \/ UNCHANGED vars PROVE AdmittedEarned'
  BY <1>1, <1>2, <1>7 DEF Tick, vars, PaidBy, Span
<1> QED
  BY <1>3, <1>4, <1>5, <1>6, <1>7 DEF Next

(* What is admitted up to now is within the contract's allowance.          *)
LEMMA WithinAllowance ==
  BucketInv /\ AdmittedEarned => admitted <= Contract!Allowance
<1> SUFFICES ASSUME BucketInv, AdmittedEarned
             PROVE  admitted <= Contract!Allowance
  OBVIOUS
<1>1. PICK T \in SUBSET (0..(last_refill - 1)) : PaidBy(T)
  BY DEF AdmittedEarned
<1>2. /\ admitted \in Nat /\ tokens \in Nat /\ now \in Nat
      /\ last_refill \in Nat /\ last_refill <= now
  BY DEF BucketInv, TypeOK, ThreadsBehindClock
<1>3. Cardinality(T) \in Nat /\ Cardinality(T) <= now
  BY <1>2, TicksBefore
<1>4. /\ Cardinality(T) * Rate <= now * Rate
      /\ admitted * Unit <= (admitted + tokens) * Unit
  BY <1>2, <1>3, ProductOrder
<1>5. (admitted + tokens) * Unit <= Capacity * Unit + Cardinality(T) * Rate
  BY <1>1 DEF PaidBy
<1>6. /\ admitted * Unit \in Nat /\ (admitted + tokens) * Unit \in Nat
      /\ Capacity * Unit \in Nat /\ Cardinality(T) * Rate \in Nat
      /\ now * Rate \in Nat
  BY <1>2, <1>3, ProductNat
<1>7. admitted * Unit <= Capacity * Unit + now * Rate
  BY <1>4, <1>5, <1>6
<1>8. (now * Rate) \div Unit \in Nat
  BY <1>6, DivBounds
<1>9. CASE admitted <= Capacity
  BY <1>2, <1>8, <1>9 DEF Contract!Allowance
<1>10. CASE ~(admitted <= Capacity)
  <2> DEFINE d == admitted - Capacity
  <2>1. d \in Nat /\ d * Unit = admitted * Unit - Capacity * Unit
    BY <1>2, <1>10, ProductDiff
  <2>2. d * Unit <= now * Rate
    BY <1>6, <1>7, <2>1
  <2> HIDE DEF d
  <2>3. d <= (now * Rate) \div Unit
    BY <1>6, <2>1, <2>2, FitsQuotient
  <2> QED
    BY <1>2, <1>8, <2>3 DEF d, Contract!Allowance
<1> QED
  BY <1>9, <1>10

(* Every behaviour of the racing threads is one of the contract: the       *)
(* tokens admitted never exceed the burst plus what the rate earned.       *)
THEOREM BucketImplementsContract == Spec => ImplementsContract
<1>1. Init => AdmittedEarned
  <2> SUFFICES ASSUME Init PROVE PaidBy({}) /\ {} \in SUBSET (0..(last_refill - 1))
    BY DEF AdmittedEarned
  <2>1. Cardinality({}) = 0
    BY FS_EmptySet
  <2> QED
    BY <2>1 DEF Init, PaidBy
<1>2. Init => Contract!Init
  BY DEF Init, Contract!Init
<1>a. BucketInv' /\ AdmittedEarned' => (admitted <= Contract!Allowance)'
  BY WithinAllowance, PTL
<1>3. BucketInv /\ BucketInv' /\ AdmittedEarned' /\ [Next]_vars
        => [Contract!Next]_<<now, admitted>>
  <2> SUFFICES ASSUME BucketInv, BucketInv', AdmittedEarned', [Next]_vars
               PROVE  [Contract!Next]_<<now, admitted>>
    OBVIOUS
  <2>1. ASSUME NEW t \in Threads, Consume(t)
        PROVE  [Contract!Next]_<<now, admitted>>
    <3>1. now' = now /\ (admitted' = admitted
                          \/ \E n \in Costs : admitted' = admitted + n)
      BY <2>1 DEF Consume
    <3>2. admitted' <= (Contract!Allowance)'
      BY <1>a
    <3>3. (Contract!Allowance)' = Contract!Allowance
      BY <3>1 DEF Contract!Allowance
    <3> QED
      BY <3>1, <3>2, <3>3 DEF Contract!Next, Contract!Admit
  <2>2. CASE Tick
    BY <2>2 DEF Tick, Contract!Next, Contract!Tick, BucketInv, TypeOK
  <2> QED
    BY <2>1, <2>2 DEF Next, ReadClock, LoadLast, CompareExchange, AddCredit, vars
<1>4. Spec => []AdmittedEarned
  BY <1>1, EarnedNext, BucketInvariant, PTL DEF Spec
<1> QED
  BY <1>2, <1>3, <1>4, BucketInvariant, PTL
     DEF Spec, ImplementsContract, Contract!Spec

-----------------------------------------------------------------------------
(* The fixed-window counters.                                              *)

Packed == [window: Windows, count: 0..MaxRequests]

(* What window v of one key may have admitted after s setbacks: once per   *)
(* forward run of the counter, and in the running one nothing yet in the   *)
(* windows ahead of it.                                                    *)
RunBound(a, s, p, v) ==
  /\ v > p.window => a <= MaxRequests * s
  /\ v = p.window => a <= MaxRequests * s + p.count
  /\ v < p.window => a <= MaxRequests * s + MaxRequests

(* A counter nobody consumed from satisfies every bound.                   *)
LEMMA FreshFacts ==
  /\ Fresh \in Packed
  /\ None \in [Windows -> Nat]
  /\ \A p \in Packed, v \in Windows :
       CountIn(p, v) \in 0..MaxRequests /\ RunBound(None[v], 0, p, v)
<1>1. Fresh \in Packed /\ None \in [Windows -> Nat]
  BY DEF Fresh, None, Packed, Windows
<1>2. ASSUME NEW p \in Packed, NEW v \in Windows
      PROVE  CountIn(p, v) \in 0..MaxRequests /\ RunBound(None[v], 0, p, v)
  <2>1. /\ None[v] = 0 /\ p.count \in 0..MaxRequests /\ MaxRequests * 0 = 0
        /\ p.window \in Int /\ v \in Int
    BY DEF None, Packed, Windows
  <2> QED
    BY <2>1 DEF CountIn, RunBound
<1> QED
  BY <1>1, <1>2

(* An admitted update of allow_n keeps the bound of its key: in the window *)
(* of the caller one more is admitted and counted.  Going back counts a    *)
(* setback, and starts a new forward run.                                  *)
LEMMA ConsumeKeepsBound ==
  ASSUME NEW p \in Packed, NEW q \in Packed,
         NEW u \in Windows, q.count = CountIn(p, q.window) + 1,
         NEW a \in Nat, NEW s \in Nat, NEW a2 \in Nat, NEW s2 \in Nat,
         RunBound(a, s, p, u),
         a2 = IF u = q.window THEN a + 1 ELSE a,
         s2 = IF q.window < p.window THEN s + 1 ELSE s
  PROVE  RunBound(a2, s2, q, u)
<1>1. /\ p.window \in Int /\ q.window \in Int /\ u \in Int
      /\ p.count \in Nat /\ q.count \in Nat /\ p.count <= MaxRequests
  BY DEF Packed, Windows
<1>2. PICK x \in Nat, y \in Nat : x = MaxRequests * s /\ y = MaxRequests * s2
  OBVIOUS
<1>3. /\ u > p.window => a <= x
      /\ u = p.window => a <= x + p.count
      /\ u < p.window => a <= x + MaxRequests
  BY <1>1, <1>2 DEF RunBound
<1>4. /\ u > q.window => a2 <= y
      /\ u = q.window => a2 <= y + q.count
      /\ u < q.window => a2 <= y + MaxRequests
  <2>1. CASE q.window < p.window
    <3>1. y = x + MaxRequests /\ q.count = 1
      BY <1>2, <2>1, <1>1 DEF CountIn
    <3> QED
      BY <1>1, <1>3, <2>1, <3>1
  <2>2. CASE q.window = p.window
    <3>1. y = x /\ q.count = p.count + 1
      BY <1>2, <2>2, <1>1 DEF CountIn
    <3> QED
      BY <1>1, <1>3, <2>2, <3>1
  <2>3. CASE q.window > p.window
    <3>1. y = x /\ q.count = 1
      BY <1>2, <2>3, <1>1 DEF CountIn
    <3> QED
      BY <1>1, <1>3, <2>3, <3>1
  <2> QED
    BY <1>1, <2>1, <2>2, <2>3
<1> QED
  BY <1>1, <1>2, <1>4 DEF RunBound

-----------------------------------------------------------------------------
(* The history and counter of one key, typed and within its bounds.        *)
KeyOK(adm, s, p) ==
  /\ adm \in [Windows -> Nat] /\ s \in Nat /\ p \in Packed
  /\ \A v \in Windows : RunBound(adm[v], s, p, v)

AllKeysOK == \A k \in Keys : KeyOK(granted[k], setbacks[k], packed[k])

(* The inductive invariant: the types, and the bound for every key.        *)
WindowInv == WindowTypeOK /\ AllKeysOK

(* What holds key by key is within the limit of the run.                   *)
LEMMA KeysWithinLimit == WindowInv => LimitUnlessSetBack
<1> SUFFICES ASSUME WindowInv, NEW k \in Keys, NEW v \in Windows
             PROVE  granted[k][v] <= MaxRequests * (1 + setbacks[k])
  BY DEF LimitUnlessSetBack
<1>1. /\ RunBound(granted[k][v], setbacks[k], packed[k], v)
      /\ granted[k][v] \in Nat /\ setbacks[k] \in Nat
      /\ packed[k].window \in Int /\ v \in Int /\ packed[k].count \in 0..MaxRequests
  BY DEF WindowInv, AllKeysOK, KeyOK, Packed, Windows
<1>2. PICK a \in Nat, s \in Nat, p \in Packed :
        a = granted[k][v] /\ s = setbacks[k] /\ p = packed[k]
  BY <1>1 DEF WindowInv, AllKeysOK, KeyOK
<1>3. PICK x \in Nat : x = MaxRequests * s
  OBVIOUS
<1>4. MaxRequests * (1 + s) = x + MaxRequests
  BY <1>3
<1>5. a <= x + MaxRequests
  BY <1>1, <1>2, <1>3 DEF RunBound
<1> QED
  BY <1>2, <1>4, <1>5

(* A key whose counter is new or reset.                                    *)
LEMMA NewKeyOK == ASSUME NEW p \in Packed PROVE KeyOK(None, 0, p)
  BY FreshFacts DEF KeyOK

(* A counter created in window v with its first request admitted.          *)
LEMMA FirstRequestOK ==
  ASSUME NEW v \in Windows, MaxRequests >= 1
  PROVE  KeyOK([None EXCEPT ![v] = 1], 0, [window |-> v, count |-> 1])
<1> DEFINE adm == [None EXCEPT ![v] = 1]
           p == [window |-> v, count |-> 1]
<1>1. adm \in [Windows -> Nat] /\ p \in Packed
  BY DEF None, Windows, Packed
<1>2. ASSUME NEW u \in Windows PROVE RunBound(adm[u], 0, p, u)
  <2>1. /\ adm[u] = (IF u = v THEN 1 ELSE 0) /\ MaxRequests * 0 = 0
        /\ p.window = v /\ p.count = 1 /\ u \in Int /\ v \in Int
    BY DEF None, Windows
  <2> HIDE DEF adm, p
  <2> QED
    BY <2>1 DEF RunBound
<1> QED
  BY <1>1, <1>2 DEF KeyOK

(* The update of allow_n preserves the invariant's part it touches.        *)
LEMMA ConsumeOK ==
  ASSUME WindowTypeOK, AllKeysOK, NEW k \in Keys, NEW v \in Windows, AllowN(k, v)
  PROVE  /\ packed' \in [Keys -> Packed]
         /\ granted' \in [Keys -> [Windows -> Nat]]
         /\ setbacks' \in [Keys -> Nat]
         /\ AllKeysOK'
<1>0. /\ packed \in [Keys -> Packed]
      /\ granted \in [Keys -> [Windows -> Nat]]
      /\ setbacks \in [Keys -> Nat]
      /\ packed[k] \in Packed /\ packed[k].window \in Windows
  BY DEF WindowTypeOK, Packed
<1>1. CASE CountIn(packed[k], v) + 1 <= MaxRequests
  <2> DEFINE q == [window |-> v, count |-> CountIn(packed[k], v) + 1]
             adm == [granted[k] EXCEPT ![v] = @ + 1]
             sb == IF v < packed[k].window THEN setbacks[k] + 1 ELSE setbacks[k]
  <2>1. packed' = [packed EXCEPT ![k] = q]
    BY <1>1 DEF AllowN
  <2>2. granted' = [granted EXCEPT ![k] = adm]
    BY <1>1, <1>0 DEF AllowN
  <2>3. setbacks' = [setbacks EXCEPT ![k] = sb]
    BY <1>1, <1>0 DEF AllowN
  <2>4. KeyOK(adm, sb, q)
    <3>1. /\ adm \in [Windows -> Nat] /\ sb \in Nat /\ q \in Packed
          /\ \A x \in Windows : adm[x] = IF x = v THEN granted[k][x] + 1
                                                ELSE granted[k][x]
          /\ q.window = v /\ q.count = CountIn(packed[k], v) + 1
      BY <1>0, <1>1 DEF Packed, CountIn
    <3>2. /\ granted[k] \in [Windows -> Nat] /\ setbacks[k] \in Nat
          /\ sb = IF q.window < packed[k].window THEN setbacks[k] + 1 ELSE setbacks[k]
      BY <1>0, <3>1
    <3> HIDE DEF adm, sb, q
    <3>3. ASSUME NEW u \in Windows PROVE RunBound(adm[u], sb, q, u)
      <4>1. RunBound(granted[k][u], setbacks[k], packed[k], u)
        BY DEF AllKeysOK, KeyOK
      <4>2. /\ granted[k][u] \in Nat /\ adm[u] \in Nat
            /\ adm[u] = IF u = q.window THEN granted[k][u] + 1 ELSE granted[k][u]
            /\ q.count = CountIn(packed[k], q.window) + 1
        BY <3>1, <3>2
      <4>3. PICK p \in Packed, a \in Nat, a2 \in Nat, s \in Nat :
              p = packed[k] /\ a = granted[k][u] /\ a2 = adm[u] /\ s = setbacks[k]
        BY <1>0, <3>2, <4>2
      <4>4. /\ q \in Packed /\ sb \in Nat /\ RunBound(a, s, p, u)
            /\ q.count = CountIn(p, q.window) + 1
            /\ a2 = IF u = q.window THEN a + 1 ELSE a
            /\ sb = IF q.window < p.window THEN s + 1 ELSE s
        BY <3>1, <3>2, <4>1, <4>2, <4>3
      <4>5. RunBound(a2, sb, q, u)
        BY <4>4, ConsumeKeepsBound
      <4> QED
        BY <4>3, <4>5
    <3> QED
      BY <3>1, <3>3 DEF KeyOK
  <2>5. /\ packed' \in [Keys -> Packed]
        /\ granted' \in [Keys -> [Windows -> Nat]]
        /\ setbacks' \in [Keys -> Nat]
    <3>1. adm \in [Windows -> Nat] /\ sb \in Nat
          /\ q \in Packed
      BY <2>4 DEF KeyOK
    <3> HIDE DEF adm, sb, q
    <3> QED
      BY <1>0, <2>1, <2>2, <2>3, <3>1
  <2>6. ASSUME NEW j \in Keys
        PROVE  KeyOK(granted'[j], setbacks'[j], packed'[j])
    <3> HIDE DEF adm, sb, q
    <3>1. CASE j = k
      BY <3>1, <1>0, <2>1, <2>2, <2>3, <2>4
    <3>2. CASE j # k
      BY <3>2, <1>0, <2>1, <2>2, <2>3 DEF AllKeysOK
    <3> QED
      BY <3>1, <3>2
  <2> QED
    BY <2>5, <2>6 DEF AllKeysOK
<1>2. CASE ~(CountIn(packed[k], v) + 1 <= MaxRequests)
  <2>1. packed' = packed /\ granted' = granted /\ setbacks' = setbacks
    BY <1>2 DEF AllowN
  <2> QED
    BY <1>0, <2>1 DEF AllKeysOK
<1> QED
  BY <1>1, <1>2

(* So does the slow path, whichever key it evicts.                         *)
LEMMA CreateOK ==
  ASSUME WindowTypeOK, AllKeysOK, NEW t \in Callers, NEW victims,
         EvictAndCreate(t, victims)
  PROVE  /\ counters' \subseteq Keys
         /\ packed' \in [Keys -> Packed]
         /\ granted' \in [Keys -> [Windows -> Nat]]
         /\ setbacks' \in [Keys -> Nat]
         /\ AllKeysOK'
<1>1. counters' \subseteq Keys
  BY DEF EvictAndCreate, WindowTypeOK
<1>2. ASSUME NEW j \in Keys
      PROVE  KeyOK(granted'[j], setbacks'[j], packed'[j])
  <2>1. CASE j = key[t] /\ MaxRequests >= 1
    <3>1. /\ packed'[j] = [window |-> window, count |-> 1]
          /\ granted'[j] = [None EXCEPT ![window] = 1]
          /\ setbacks'[j] = 0
      BY <2>1 DEF EvictAndCreate
    <3> QED
      BY <3>1, <2>1, FirstRequestOK DEF WindowTypeOK
  <2>2. CASE j = key[t] /\ ~(MaxRequests >= 1)
    <3>1. /\ packed'[j] = Fresh /\ granted'[j] = None
          /\ setbacks'[j] = 0
      BY <2>2 DEF EvictAndCreate
    <3> QED
      BY <3>1, FreshFacts, NewKeyOK
  <2>3. CASE j # key[t] /\ j \in counters \ victims
    <3>1. /\ packed'[j] = packed[j] /\ granted'[j] = granted[j]
          /\ setbacks'[j] = setbacks[j]
      BY <2>3 DEF EvictAndCreate
    <3> QED
      BY <3>1 DEF AllKeysOK
  <2>4. CASE j # key[t] /\ j \notin counters \ victims
    <3>1. /\ packed'[j] = Fresh /\ granted'[j] = None
          /\ setbacks'[j] = 0
      BY <2>4 DEF EvictAndCreate
    <3> QED
      BY <3>1, FreshFacts, NewKeyOK
  <2> QED
    BY <2>1, <2>2, <2>3, <2>4
<1>3. /\ packed' = [j \in Keys |-> packed'[j]]
      /\ granted' = [j \in Keys |-> granted'[j]]
      /\ setbacks' = [j \in Keys |-> setbacks'[j]]
  BY DEF EvictAndCreate
<1>4. ASSUME NEW j \in Keys
      PROVE  /\ packed'[j] \in Packed /\ granted'[j] \in [Windows -> Nat]
             /\ setbacks'[j] \in Nat
  BY <1>2 DEF KeyOK
<1> QED
  BY <1>1, <1>2, <1>3, <1>4 DEF AllKeysOK

(* An empty store meets the invariant.                                     *)
THEOREM WindowInvInit == WindowInit => WindowInv
<1> SUFFICES ASSUME WindowInit PROVE WindowInv
  OBVIOUS
<1>1. WindowTypeOK
  BY FreshFacts DEF WindowInit, WindowTypeOK, Packed, Windows
<1>2. AllKeysOK
  BY FreshFacts, NewKeyOK DEF WindowInit, AllKeysOK
<1> QED
  BY <1>1, <1>2 DEF WindowInv

(* Every step of every thread preserves the invariant.                     *)
THEOREM WindowInvNext == WindowInv /\ [WindowNext]_windowVars => WindowInv'
<1> SUFFICES ASSUME WindowInv, [WindowNext]_windowVars PROVE WindowInv'
  OBVIOUS
<1>k. AllKeysOK
  BY DEF WindowInv
<1>t. WindowTypeOK
  BY DEF WindowInv
<1>1. ASSUME NEW t \in Callers, Call(t) \/ Found(t) \/ Missing(t)
                                   \/ ResetBegin(t)
      PROVE  WindowInv'
  <2>1. /\ packed' = packed /\ granted' = granted /\ setbacks' = setbacks
        /\ counters' = counters /\ window' = window
    BY <1>1 DEF Call, Found, Missing, ResetBegin
  <2>2. WindowTypeOK'
    <3>1. /\ path' \in [Callers -> {"idle", "lookup", "update", "slow", "reset"}]
          /\ key' \in [Callers -> Keys]
          /\ w' \in [Callers -> Windows]
      <4>1. CASE Call(t)
        BY <4>1, <1>t DEF Call, WindowTypeOK
      <4>2. CASE Found(t)
        BY <4>2, <1>t DEF Found, WindowTypeOK
      <4>3. CASE Missing(t)
        BY <4>3, <1>t DEF Missing, WindowTypeOK
      <4>4. CASE ResetBegin(t)
        BY <4>4, <1>t DEF ResetBegin, WindowTypeOK
      <4> QED
        BY <1>1, <4>1, <4>2, <4>3, <4>4
    <3> QED
      BY <2>1, <3>1, <1>t DEF WindowTypeOK
  <2> QED
    BY <1>k, <2>1, <2>2 DEF WindowInv, AllKeysOK
<1>2. ASSUME NEW t \in Callers, Update(t) \/ SlowFound(t)
      PROVE  WindowInv'
  <2>1. PICK v \in Windows : AllowN(key[t], v)
    BY <1>2, <1>t DEF Update, SlowFound, WindowTypeOK
  <2>2. key[t] \in Keys
    BY <1>t DEF WindowTypeOK
  <2>3. /\ packed' \in [Keys -> Packed]
        /\ granted' \in [Keys -> [Windows -> Nat]]
        /\ setbacks' \in [Keys -> Nat]
        /\ AllKeysOK'
    BY <1>t, <1>k, <2>1, <2>2, ConsumeOK
  <2>4. /\ counters' = counters /\ window' = window
        /\ key' = key /\ w' = w /\ path' = [path EXCEPT ![t] = "idle"]
    BY <1>2 DEF Update, SlowFound
  <2>5. WindowTypeOK'
    BY <1>t, <2>3, <2>4 DEF WindowTypeOK, Packed
  <2> QED
    BY <2>3, <2>5 DEF WindowInv
<1>3. ASSUME NEW t \in Callers, SlowCreate(t) PROVE WindowInv'
  <2>1. PICK victims : EvictAndCreate(t, victims)
    BY <1>3 DEF SlowCreate
  <2>2. /\ counters' \subseteq Keys
        /\ packed' \in [Keys -> Packed]
        /\ granted' \in [Keys -> [Windows -> Nat]]
        /\ setbacks' \in [Keys -> Nat]
        /\ AllKeysOK'
    BY <1>t, <1>k, <2>1, CreateOK
  <2>3. WindowTypeOK'
    BY <1>t, <2>1, <2>2 DEF WindowTypeOK, Packed, EvictAndCreate
  <2> QED
    BY <2>2, <2>3 DEF WindowInv
<1>4. ASSUME NEW t \in Callers, ResetStore(t) PROVE WindowInv'
  <2> DEFINE p == [window |-> w[t], count |-> 0]
  <2>1. p \in Packed /\ key[t] \in Keys
    BY <1>t DEF WindowTypeOK, Packed
  <2>2. /\ packed' = [packed EXCEPT ![key[t]] = p]
        /\ granted' = [granted EXCEPT ![key[t]] = None]
        /\ setbacks' = [setbacks EXCEPT ![key[t]] = 0]
    BY <1>4 DEF ResetStore
  <2> HIDE DEF p
  <2>3. /\ packed' \in [Keys -> Packed]
        /\ granted' \in [Keys -> [Windows -> Nat]]
        /\ setbacks' \in [Keys -> Nat]
    BY <1>t, <2>1, <2>2, FreshFacts DEF WindowTypeOK, Packed
  <2>4. ASSUME NEW j \in Keys
        PROVE  KeyOK(granted'[j], setbacks'[j], packed'[j])
    <3>1. CASE j = key[t]
      BY <3>1, <1>t, <2>1, <2>2, NewKeyOK DEF WindowTypeOK
    <3>2. CASE j # key[t]
      BY <3>2, <1>t, <1>k, <2>2 DEF WindowTypeOK, AllKeysOK
    <3> QED
      BY <3>1, <3>2
  <2>5. WindowTypeOK'
    BY <1>4, <1>t, <2>3 DEF ResetStore, WindowTypeOK, Packed
  <2> QED
    BY <2>3, <2>4, <2>5 DEF WindowInv, AllKeysOK
<1>5. CASE ResetAll
  <2>1. /\ packed' \in [Keys -> Packed]
        /\ granted' \in [Keys -> [Windows -> Nat]]
        /\ setbacks' \in [Keys -> Nat]
        /\ AllKeysOK'
    BY <1>5, FreshFacts, NewKeyOK DEF ResetAll, AllKeysOK
  <2>2. WindowTypeOK'
    BY <1>5, <1>t, <2>1 DEF ResetAll, thread, WindowTypeOK, Packed
  <2> QED
    BY <2>1, <2>2 DEF WindowInv
<1>6. CASE NextWindow
  <2>1. WindowTypeOK'
    BY <1>6, <1>t DEF NextWindow, thread, WindowTypeOK, Windows
  <2> QED
    BY <1>6, <1>k, <2>1 DEF NextWindow, WindowInv, AllKeysOK
<1>7. CASE UNCHANGED windowVars
  BY <1>7 DEF windowVars, WindowInv, WindowTypeOK, AllKeysOK
<1> QED
  BY <1>1, <1>2, <1>3, <1>4, <1>5, <1>6, <1>7 DEF WindowNext

(* The invariant holds in every reachable state.                           *)
THEOREM WindowInvariant == WindowSpec => []WindowInv
  BY WindowInvInit, WindowInvNext, PTL DEF WindowSpec

(* The count of a counter never passes max_requests.                       *)
THEOREM WindowStaysTyped == WindowSpec => []WindowTypeOK
  BY WindowInvariant, PTL DEF WindowInv

(* A window admits more than max_requests only after a late caller set its *)
(* counter back, and then once more per setback.                           *)
THEOREM WindowLimitUnlessSetBack == WindowSpec => []LimitUnlessSetBack
  BY WindowInvariant, KeysWithinLimit, PTL

(* What a step may do to a counter that keeps its place in the map.        *)
Kept(k) ==
  packed'[k].window = packed[k].window =>
    \/ packed'[k].count >= packed[k].count
    \/ \E t \in Callers : path[t] = "reset" /\ key[t] = k /\ path'[t] = "idle"

(* Racing creators never overwrite a counter: under the write lock the     *)
(* second one finds the first one's, so consumption in a window is lost    *)
(* only with the window or by a reset.                                     *)
THEOREM WindowNoLostConsumption == WindowSpec => NoLostConsumption
<1>1. WindowTypeOK /\ [WindowNext]_windowVars => [\A k \in counters \cap counters' : Kept(k)]_windowVars
  <2> SUFFICES ASSUME WindowTypeOK, WindowNext, NEW k \in counters, k \in counters'
               PROVE  Kept(k)
    BY DEF windowVars
  <2>1. packed[k].count \in Nat /\ k \in Keys
    BY DEF WindowTypeOK
  <2>2. ASSUME packed'[k] = packed[k] PROVE Kept(k)
    BY <2>1, <2>2 DEF Kept
  <2>3. ASSUME NEW j \in Keys, NEW v \in Windows, AllowN(j, v) PROVE Kept(k)
    <3>1. CASE packed'[k] = packed[k]
      BY <2>2, <3>1
    <3>2. CASE packed'[k] # packed[k]
      <4>1. /\ CountIn(packed[k], v) + 1 <= MaxRequests /\ j = k
            /\ packed'[k] = [window |-> v, count |-> CountIn(packed[k], v) + 1]
        BY <2>1, <2>3, <3>2 DEF AllowN, WindowTypeOK
      <4> QED
        BY <2>1, <4>1 DEF Kept, CountIn
    <3> QED
      BY <3>1, <3>2
  <2>4. ASSUME NEW t \in Callers, Update(t) \/ SlowFound(t) PROVE Kept(k)
    BY <2>3, <2>4 DEF Update, SlowFound, WindowTypeOK
  <2>5. ASSUME NEW t \in Callers, SlowCreate(t) PROVE Kept(k)
    <3>1. key[t] \notin counters
      BY <2>5 DEF SlowCreate
    <3>2. PICK victims : EvictAndCreate(t, victims)
      BY <2>5 DEF SlowCreate
    <3>3. k # key[t] /\ k \in counters \ victims
      BY <3>1, <3>2 DEF EvictAndCreate
    <3> QED
      BY <2>1, <2>2, <3>2, <3>3 DEF EvictAndCreate
  <2>6. ASSUME NEW t \in Callers, ResetStore(t) PROVE Kept(k)
    <3>1. CASE key[t] = k
      BY <2>6, <3>1 DEF ResetStore, Kept, WindowTypeOK
    <3>2. CASE key[t] # k
      BY <2>1, <2>2, <2>6, <3>2 DEF ResetStore, WindowTypeOK
    <3> QED
      BY <3>1, <3>2
  <2>7. ~ResetAll
    BY DEF ResetAll
  <2> QED
    BY <2>2, <2>4, <2>5, <2>6, <2>7
       DEF WindowNext, Call, Found, Missing, ResetBegin, NextWindow
<1> QED
  BY <1>1, WindowStaysTyped, PTL DEF WindowSpec, NoLostConsumption, Kept
=============================================================================
