---------------------------- MODULE TokenBucket -----------------------------
(***************************************************************************)
(* The lock-free token bucket of himadri-ratelimit, at the granularity of  *)
(* its atomic operations: a thread in allow_n reads the clock, loads       *)
(* last_refill, tries to move it with a compare-exchange, credits the      *)
(* tokens if it won, and finally consumes with a bound-checked update.     *)
(* Each fetch_update is a CAS loop whose successful iteration is one       *)
(* atomic update.                                                          *)
(*                                                                         *)
(* Time starts at 0 when the bucket is built.  The saturating operations   *)
(* of `refill` saturate only when elapsed microseconds times rate reach    *)
(* 2^64, where they lower the credit; the model computes exactly.          *)
(***************************************************************************)
EXTENDS Integers, FiniteSets

CONSTANTS Threads,    \* concurrent callers of allow_n
          Rate,       \* tokens per Unit
          Unit,       \* clock ticks per unit of time (1_000_000 in the code)
          Capacity,   \* burst
          Costs,      \* the n of allow_n
          MaxTime     \* bound on the clock

ASSUME BucketAssumption ==
  /\ Rate \in Nat
  /\ Unit \in Nat \ {0}
  /\ Capacity \in Nat
  /\ Costs \subseteq Nat
  /\ MaxTime \in Nat

VARIABLES tokens, last_refill,  \* the two atomics
          now,                  \* now_micros()
          pc, seen, last,       \* per thread: clock and last_refill as read
          won,                  \* history: tokens credited by CAS winners
          admitted              \* history: tokens consumed

vars == <<tokens, last_refill, now, pc, seen, last, won, admitted>>

Init ==
  /\ tokens = Capacity
  /\ last_refill = 0
  /\ now = 0
  /\ pc = [t \in Threads |-> "idle"]
  /\ seen = [t \in Threads |-> 0]
  /\ last = [t \in Threads |-> 0]
  /\ won = 0
  /\ admitted = 0

SaturatingSub(a, b) == IF a >= b THEN a - b ELSE 0

CappedAdd(a, b) == IF a + b <= Capacity THEN a + b ELSE Capacity

(* Mutant of Credit: the division rounds up.                               *)
CreditRoundsUp(a, b) == (SaturatingSub(a, b) * Rate + Unit - 1) \div Unit

(* The tokens earned between last_refill = b and the clock reading a.      *)
Credit(a, b) == (SaturatingSub(a, b) * Rate) \div Unit

ReadClock(t) ==
  /\ pc[t] = "idle"
  /\ seen' = [seen EXCEPT ![t] = now]
  /\ pc' = [pc EXCEPT ![t] = "load"]
  /\ UNCHANGED <<tokens, last_refill, now, last, won, admitted>>

(* The load decides: no credit due, no refill.                             *)
LoadLast(t) ==
  /\ pc[t] = "load"
  /\ last' = [last EXCEPT ![t] = last_refill]
  /\ pc' = [pc EXCEPT ![t] =
              IF Credit(seen[t], last_refill) = 0 THEN "consume" ELSE "cas"]
  /\ UNCHANGED <<tokens, last_refill, now, seen, won, admitted>>

(* Mutant of CompareExchange: the store is unconditional.                  *)
StoreLastRefill(t) ==
  /\ pc[t] = "cas"
  /\ last_refill' = seen[t]
  /\ won' = won + Credit(seen[t], last[t])
  /\ pc' = [pc EXCEPT ![t] = "credit"]
  /\ UNCHANGED <<tokens, now, seen, last, admitted>>

CompareExchange(t) ==
  /\ pc[t] = "cas"
  /\ \/ /\ last_refill = last[t]
        /\ last_refill' = seen[t]
        /\ won' = won + Credit(seen[t], last[t])
        /\ pc' = [pc EXCEPT ![t] = "credit"]
     \/ /\ last_refill # last[t]
        /\ pc' = [pc EXCEPT ![t] = "consume"]
        /\ UNCHANGED <<last_refill, won>>
  /\ UNCHANGED <<tokens, now, seen, last, admitted>>

AddCredit(t) ==
  /\ pc[t] = "credit"
  /\ tokens' = CappedAdd(tokens, Credit(seen[t], last[t]))
  /\ pc' = [pc EXCEPT ![t] = "consume"]
  /\ UNCHANGED <<last_refill, now, seen, last, won, admitted>>

Consume(t) ==
  /\ pc[t] = "consume"
  /\ \E n \in Costs :
       IF n <= tokens
       THEN tokens' = tokens - n /\ admitted' = admitted + n
       ELSE UNCHANGED <<tokens, admitted>>
  /\ pc' = [pc EXCEPT ![t] = "idle"]
  /\ UNCHANGED <<last_refill, now, seen, last, won>>

Tick ==
  /\ now < MaxTime
  /\ now' = now + 1
  /\ UNCHANGED <<tokens, last_refill, pc, seen, last, won, admitted>>

Next ==
  \/ \E t \in Threads : ReadClock(t) \/ LoadLast(t) \/ CompareExchange(t)
                          \/ AddCredit(t) \/ Consume(t)
  \/ Tick

Spec == Init /\ [][Next]_vars

-----------------------------------------------------------------------------
(* The counter stays between 0 and the capacity ("concurrent callers can   *)
(* never drive the counter below zero").                                   *)
TypeOK ==
  /\ tokens \in 0..Capacity
  /\ last_refill \in Nat
  /\ now \in Nat
  /\ pc \in [Threads -> {"idle", "load", "cas", "credit", "consume"}]
  /\ seen \in [Threads -> Nat]
  /\ last \in [Threads -> Nat]
  /\ won \in Nat
  /\ admitted \in Nat

(* "racing refillers cannot double-credit": two threads that both won a    *)
(* compare-exchange and have not yet added their credit hold disjoint      *)
(* intervals of time, both in the past of last_refill.                     *)
NoDoubleCredit ==
  \A s, t \in Threads :
    (pc[s] = "credit" /\ pc[t] = "credit") =>
      /\ last[s] < seen[s] /\ seen[s] <= last_refill
      /\ s # t => (seen[s] <= last[t] \/ seen[t] <= last[s])

(* last_refill never runs backwards: a thread that was delayed between     *)
(* reading the clock and its compare-exchange cannot make time that was    *)
(* already credited available again.                                       *)
RefillMonotone == [][last_refill' >= last_refill]_vars

(* Whatever the pattern of calls, all credit handed out is earned, and     *)
(* rounding down at each refill never loses more than half of it: between  *)
(* half the configured rate and the full rate is credited.                 *)
CreditWithinRate ==
  /\ won * Unit <= last_refill * Rate
  /\ last_refill * Rate <= 2 * won * Unit

(* The bucket implements its contract.                                     *)
Contract == INSTANCE RateContract WITH now <- now, admitted <- admitted
ImplementsContract == Contract!Spec
=============================================================================
