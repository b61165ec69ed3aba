--------------------------- MODULE BreakerProofs ---------------------------
(***************************************************************************)
(* Safety of the circuit breaker and of the failover loop around it:       *)
(* CircuitBreaker for any finite set of concurrent calls, then Failover,   *)
(* for any number of requests, any targets, strategies and averages and    *)
(* any moment at which the breakers are dropped.                           *)
(***************************************************************************)
EXTENDS Failover, CircuitBreaker, FiniteSetTheorems, NaturalsInduction,
        WellFoundedInduction, SequenceTheorems, TLAPS

USE BreakerConfigAssumption

(* A breaker whose counters agree with its state, the part of the          *)
(* inductive invariant that speaks of `BreakerInner` alone.                *)
GoodBreaker(b) == b \in BreakerInner /\ BreakerConsistent(b)

(* CircuitBreaker::new builds a good breaker.                              *)
LEMMA NewBreakerGood == GoodBreaker(NewBreaker)
  BY DEF GoodBreaker, NewBreaker, BreakerInner, CircuitState,
         BreakerConsistent

(* A breaker spelled out by its fields.                                    *)
Fields(st, failures, successes, admitted, ag) ==
  [state |-> st, failure_count |-> failures, success_count |-> successes,
   half_open_admitted |-> admitted, age |-> ag]

(* The fields of a good breaker have their types and determine it.         *)
LEMMA GoodFields ==
  ASSUME NEW b, GoodBreaker(b)
  PROVE  /\ b.state \in CircuitState
         /\ b.failure_count \in 0..FailureThreshold
         /\ b.success_count \in 0..HalfOpenMaxCalls
         /\ b.half_open_admitted \in 0..HalfOpenMaxCalls
         /\ b.age \in 0..RecoveryTimeout
         /\ BreakerConsistent(b)
         /\ b \in BreakerInner
  BY DEF GoodBreaker, BreakerInner

(* The constants that reset a field are in its range.                      *)
LEMMA ZeroAndOne ==
  /\ 0 \in 0..FailureThreshold /\ 0 < FailureThreshold
  /\ 0 \in 0..HalfOpenMaxCalls /\ 1 \in 0..HalfOpenMaxCalls
  /\ 0 < HalfOpenMaxCalls
  /\ 0 \in 0..RecoveryTimeout
  /\ CircuitState = {"Closed", "Open", "HalfOpen"}
  BY DEF CircuitState

(* Well-typed, consistent fields make a good breaker.                      *)
LEMMA FieldsGood ==
  ASSUME NEW st \in CircuitState,
         NEW failures \in 0..FailureThreshold,
         NEW successes \in 0..HalfOpenMaxCalls,
         NEW admitted \in 0..HalfOpenMaxCalls,
         NEW ag \in 0..RecoveryTimeout,
         st = "Closed" => failures < FailureThreshold,
         st # "Closed" => failures = FailureThreshold,
         st = "HalfOpen" => admitted >= 1 /\ successes < HalfOpenMaxCalls
  PROVE  /\ GoodBreaker(Fields(st, failures, successes, admitted, ag))
         /\ Fields(st, failures, successes, admitted, ag).state = st
  BY DEF GoodBreaker, BreakerInner, BreakerConsistent, Fields

(* allow keeps the breaker good, opens a half-open period only with one    *)
(* admission, and otherwise adds at most one.                              *)
LEMMA AllowGood ==
  ASSUME NEW b, GoodBreaker(b)
  PROVE  /\ GoodBreaker(AfterAllow(b))
         /\ b.state = "Closed" => AfterAllow(b) = b
         /\ (b.state = "Open" /\ Allows(b)) =>
              /\ AfterAllow(b).state = "HalfOpen"
              /\ AfterAllow(b).half_open_admitted = 1
              /\ AfterAllow(b).success_count = 0
         /\ (b.state = "HalfOpen" /\ Allows(b)) =>
              /\ AfterAllow(b).state = "HalfOpen"
              /\ AfterAllow(b).half_open_admitted = b.half_open_admitted + 1
              /\ AfterAllow(b).success_count = b.success_count
         /\ ~Allows(b) => AfterAllow(b) = b
<1>f. /\ b.state \in CircuitState
      /\ b.failure_count \in 0..FailureThreshold
      /\ b.success_count \in 0..HalfOpenMaxCalls
      /\ b.half_open_admitted \in 0..HalfOpenMaxCalls
      /\ b.age \in 0..RecoveryTimeout
      /\ BreakerConsistent(b)
      /\ b \in BreakerInner
  BY GoodFields
<1> USE <1>f, ZeroAndOne DEF BreakerConsistent
<1>1. CASE b.state = "Open" /\ Recovered(b)
  <2>1. AfterAllow(b) = Fields("HalfOpen", b.failure_count, 0, 1, b.age)
    BY <1>1 DEF AfterAllow, Fields, BreakerInner
  <2>2. GoodBreaker(Fields("HalfOpen", b.failure_count, 0, 1, b.age))
    BY <1>1, FieldsGood
  <2> QED
    BY <1>1, <2>1, <2>2 DEF Fields, Allows
<1>2. CASE b.state = "HalfOpen" /\ b.half_open_admitted < HalfOpenMaxCalls
  <2>1. AfterAllow(b) = Fields("HalfOpen", b.failure_count, b.success_count,
                               b.half_open_admitted + 1, b.age)
    BY <1>2 DEF AfterAllow, Fields, BreakerInner
  <2>2. GoodBreaker(Fields("HalfOpen", b.failure_count, b.success_count,
                           b.half_open_admitted + 1, b.age))
    <3>1. /\ b.half_open_admitted + 1 \in 0..HalfOpenMaxCalls
          /\ b.half_open_admitted + 1 >= 1
          /\ b.failure_count = FailureThreshold
          /\ b.success_count < HalfOpenMaxCalls
      BY <1>2
    <3> QED
      BY <3>1 DEF Fields, GoodBreaker, BreakerInner, BreakerConsistent
  <2> QED
    BY <1>2, <2>1, <2>2 DEF Fields, Allows
<1>3. CASE /\ ~(b.state = "Open" /\ Recovered(b))
           /\ ~(b.state = "HalfOpen"
                   /\ b.half_open_admitted < HalfOpenMaxCalls)
  <2>1. AfterAllow(b) = b
    BY <1>3 DEF AfterAllow
  <2> QED
    BY <1>3, <2>1 DEF Allows
<1> QED
  BY <1>1, <1>2, <1>3

(* record_success keeps the breaker good; it leaves HalfOpen only for      *)
(* Closed, and counts the success while it stays.                          *)
LEMMA SuccessGood ==
  ASSUME NEW b, GoodBreaker(b)
  PROVE  /\ GoodBreaker(AfterSuccess(b))
         /\ b.state # "HalfOpen" => AfterSuccess(b).state = b.state
         /\ b.state = "HalfOpen" =>
              /\ AfterSuccess(b).state \in {"HalfOpen", "Closed"}
              /\ AfterSuccess(b).success_count = b.success_count + 1
              /\ AfterSuccess(b).half_open_admitted = b.half_open_admitted
              /\ AfterSuccess(b).state = "Closed" =>
                   AfterSuccess(b).success_count = HalfOpenMaxCalls
<1>f. /\ b.state \in CircuitState
      /\ b.failure_count \in 0..FailureThreshold
      /\ b.success_count \in 0..HalfOpenMaxCalls
      /\ b.half_open_admitted \in 0..HalfOpenMaxCalls
      /\ b.age \in 0..RecoveryTimeout
      /\ BreakerConsistent(b)
      /\ b \in BreakerInner
  BY GoodFields
<1> USE <1>f, ZeroAndOne DEF BreakerConsistent
<1>1. CASE b.state = "Closed"
  <2>1. AfterSuccess(b) = Fields("Closed", 0, b.success_count,
                                 b.half_open_admitted, b.age)
    BY <1>1 DEF AfterSuccess, Fields, BreakerInner
  <2>2. GoodBreaker(Fields("Closed", 0, b.success_count,
                           b.half_open_admitted, b.age))
    BY <1>1, FieldsGood
  <2> QED
    BY <1>1, <2>1, <2>2 DEF Fields
<1>2. CASE b.state = "HalfOpen" /\ b.success_count + 1 >= HalfOpenMaxCalls
  <2>1. AfterSuccess(b) = Fields("Closed", 0, b.success_count + 1,
                                 b.half_open_admitted, b.age)
    BY <1>2 DEF AfterSuccess, Fields, BreakerInner
  <2>2. GoodBreaker(Fields("Closed", 0, b.success_count + 1,
                           b.half_open_admitted, b.age))
    BY <1>2, FieldsGood
  <2> QED
    BY <1>2, <2>1, <2>2 DEF Fields
<1>3. CASE b.state = "HalfOpen" /\ ~(b.success_count + 1 >= HalfOpenMaxCalls)
  <2>1. AfterSuccess(b) = Fields("HalfOpen", b.failure_count,
                                 b.success_count + 1,
                                 b.half_open_admitted, b.age)
    BY <1>3 DEF AfterSuccess, Fields, BreakerInner
  <2>2. GoodBreaker(Fields("HalfOpen", b.failure_count, b.success_count + 1,
                           b.half_open_admitted, b.age))
    <3>1. /\ b.success_count + 1 \in 0..HalfOpenMaxCalls
          /\ b.success_count + 1 < HalfOpenMaxCalls
          /\ b.failure_count = FailureThreshold
          /\ b.half_open_admitted >= 1
      BY <1>3
    <3> QED
      BY <3>1 DEF Fields, GoodBreaker, BreakerInner, BreakerConsistent
  <2> QED
    BY <1>3, <2>1, <2>2 DEF Fields
<1>4. CASE b.state = "Open"
  BY <1>4 DEF AfterSuccess
<1> QED
  BY <1>1, <1>2, <1>3, <1>4

(* record_failure keeps the breaker good and never leaves it half-open.    *)
LEMMA FailureGood ==
  ASSUME NEW b, GoodBreaker(b)
  PROVE  /\ GoodBreaker(AfterFailure(b))
         /\ AfterFailure(b).state # "HalfOpen"
         /\ b.state # "Closed" => AfterFailure(b).state = "Open"
<1>f. /\ b.state \in CircuitState
      /\ b.failure_count \in 0..FailureThreshold
      /\ b.success_count \in 0..HalfOpenMaxCalls
      /\ b.half_open_admitted \in 0..HalfOpenMaxCalls
      /\ b.age \in 0..RecoveryTimeout
      /\ BreakerConsistent(b)
      /\ b \in BreakerInner
  BY GoodFields
<1> USE <1>f, ZeroAndOne DEF BreakerConsistent
<1>1. CASE b.state = "Closed"
  <2> DEFINE st == IF b.failure_count + 1 >= FailureThreshold
                   THEN "Open" ELSE "Closed"
  <2>1. AfterFailure(b) = Fields(st, b.failure_count + 1, b.success_count,
                                 b.half_open_admitted, 0)
    BY <1>1 DEF AfterFailure, Fields, BreakerInner
  <2>2. GoodBreaker(Fields(st, b.failure_count + 1, b.success_count,
                           b.half_open_admitted, 0))
    BY <1>1, FieldsGood
  <2> QED
    BY <1>1, <2>1, <2>2 DEF Fields
<1>2. CASE b.state # "Closed"
  <2>1. AfterFailure(b) = Fields("Open", b.failure_count, b.success_count,
                                 b.half_open_admitted, 0)
    BY <1>2 DEF AfterFailure, Fields, BreakerInner
  <2>2. GoodBreaker(Fields("Open", b.failure_count, b.success_count,
                           b.half_open_admitted, 0))
    BY <1>2, FieldsGood
  <2> QED
    BY <1>2, <2>1, <2>2 DEF Fields
<1> QED
  BY <1>1, <1>2

(* reset yields a good, closed breaker.                                    *)
LEMMA ResetGood ==
  ASSUME NEW b, GoodBreaker(b)
  PROVE  GoodBreaker(AfterReset(b)) /\ AfterReset(b).state = "Closed"
<1>f. b.age \in 0..RecoveryTimeout /\ b \in BreakerInner
  BY GoodFields
<1>1. AfterReset(b) = Fields("Closed", 0, 0, 0, b.age)
  BY <1>f DEF AfterReset, NewBreaker, Fields
<1> QED
  BY <1>1, GoodFields, FieldsGood, ZeroAndOne

(* Time changes nothing but the age.                                       *)
LEMMA OlderGood ==
  ASSUME NEW b, GoodBreaker(b)
  PROVE  /\ GoodBreaker(Older(b))
         /\ Older(b).state = b.state
         /\ Older(b).half_open_admitted = b.half_open_admitted
         /\ Older(b).success_count = b.success_count
<1> DEFINE older == IF b.age < RecoveryTimeout THEN b.age + 1 ELSE b.age
<1>1. Older(b) = Fields(b.state, b.failure_count, b.success_count,
                        b.half_open_admitted, older)
  BY GoodFields DEF Older, Fields, BreakerInner
<1>2. older \in 0..RecoveryTimeout
  BY GoodFields
<1>3. GoodBreaker(Fields(b.state, b.failure_count, b.success_count,
                         b.half_open_admitted, older))
  BY <1>2, GoodFields, FieldsGood DEF BreakerConsistent
<1> QED
  BY <1>1, <1>3 DEF Fields

-----------------------------------------------------------------------------
(* The inductive invariant.  TypeOK alone is not inductive: that           *)
(* failure_count stays in range needs CountersConsistent.                  *)
BreakerInv ==
  /\ BreakerTypeOK
  /\ CountersConsistent
  /\ AdmissionsAccounted
  /\ ProbesOnlyHalfOpen

(* The probes are a finite set, so they can be counted.                    *)
LEMMA ProbesFinite ==
  /\ IsFiniteSet(Probes) /\ Cardinality(Probes) \in Nat
  /\ IsFiniteSet(Probes') /\ Cardinality(Probes') \in Nat
<1>1. Probes \in SUBSET Calls /\ Probes' \in SUBSET Calls
  BY DEF Probes
<1>2. IsFiniteSet(Probes) /\ IsFiniteSet(Probes')
  BY <1>1, FS_Subset, CallsAssumption
<1> QED
  BY <1>2, FS_CardinalityType

(* Ending a call takes it, and no other, out of the probes, unless the     *)
(* half-open period ends too and no probe is left.                         *)
LEMMA EndingCall ==
  ASSUME BreakerTypeOK, NEW c \in Calls, call[c] # "idle", NEW b,
         call' = CallsAfter(c, b)
  PROVE  /\ call' \in [Calls -> {"idle", "normal", "probe", "stale"}]
         /\ (inner.state = "HalfOpen" /\ b.state # "HalfOpen") => Probes' = {}
         /\ (inner.state # "HalfOpen" \/ b.state = "HalfOpen") =>
              /\ Probes' = Probes \ {c}
              /\ Cardinality(Probes') =
                   IF call[c] = "probe" THEN Cardinality(Probes) - 1
                                        ELSE Cardinality(Probes)
<1>1. /\ call' \in [Calls -> {"idle", "normal", "probe", "stale"}]
      /\ (inner.state = "HalfOpen" /\ b.state # "HalfOpen") => Probes' = {}
      /\ (inner.state # "HalfOpen" \/ b.state = "HalfOpen") =>
            Probes' = Probes \ {c}
  BY DEF BreakerTypeOK, CallsAfter, Retire, Probes
<1>2. c \in Probes <=> call[c] = "probe"
  BY DEF Probes
<1> QED
  BY <1>1, <1>2, ProbesFinite, FS_RemoveElement

(* Admitting an idle call as a probe adds one to the probes.               *)
LEMMA AdmittingProbe ==
  ASSUME BreakerTypeOK, NEW c \in Calls, call[c] = "idle",
         call' = [call EXCEPT ![c] = "probe"]
  PROVE  Cardinality(Probes') = Cardinality(Probes) + 1
<1>1. Probes' = Probes \cup {c} /\ c \notin Probes
  BY DEF BreakerTypeOK, Probes
<1> QED
  BY <1>1, ProbesFinite, FS_AddElement

(* A new breaker, with no call under way, meets the invariant.             *)
THEOREM BreakerInvInit == BreakerInit => BreakerInv
<1> SUFFICES ASSUME BreakerInit PROVE BreakerInv
  OBVIOUS
<1>1. BreakerTypeOK /\ CountersConsistent /\ inner.state = "Closed"
  BY NewBreakerGood DEF BreakerInit, BreakerTypeOK,
    CountersConsistent, GoodBreaker,
                        NewBreaker
<1>2. Probes = {}
  BY DEF BreakerInit, Probes
<1> QED
  BY <1>1, <1>2 DEF BreakerInv, AdmissionsAccounted,
    ProbesOnlyHalfOpen

(* Every step of every call preserves the invariant.                       *)
THEOREM BreakerInvNext == BreakerInv /\ [BreakerNext]_breakerVars => BreakerInv'
<1> SUFFICES ASSUME BreakerInv, [BreakerNext]_breakerVars PROVE BreakerInv'
  OBVIOUS
<1> USE DEF BreakerInv
<1>g. GoodBreaker(inner)
  BY DEF BreakerTypeOK, CountersConsistent, GoodBreaker
<1>t. /\ inner.half_open_admitted \in Nat
      /\ inner.success_count \in Nat
      /\ inner.state \in CircuitState
      /\ probe_ok \in Nat /\ forgotten \in Nat
  BY DEF BreakerTypeOK, BreakerInner
<1>p. Cardinality(Probes) \in Nat /\ Cardinality(Probes') \in Nat
  BY ProbesFinite
<1>1. ASSUME NEW c \in Calls, Allow(c) PROVE BreakerInv'
  <2> USE <1>1
  <2>1. GoodBreaker(inner')
    BY <1>g, AllowGood DEF Allow
  <2>2. BreakerTypeOK' /\ CountersConsistent'
    BY <2>1 DEF Allow, BreakerTypeOK,
      CountersConsistent, GoodBreaker
  <2>3. CASE inner.state = "Closed"
    <3>1. inner' = inner
      BY <2>3, <1>g, AllowGood DEF Allow
    <3>2. Probes' = Probes
      BY <2>3 DEF Allow, Probes, BreakerTypeOK
    <3> QED
      BY <2>2, <2>3, <3>1, <3>2 DEF AdmissionsAccounted,
        ProbesOnlyHalfOpen
  <2>4. CASE inner.state = "Open"
    <3>1. inner'.state = "HalfOpen" /\ inner'.half_open_admitted = 1
          /\ inner'.success_count = 0
      BY <2>4, <1>g, AllowGood DEF Allow
    <3>2. Cardinality(Probes') = Cardinality(Probes) + 1
      BY <2>4, AdmittingProbe DEF Allow
    <3>3. Cardinality(Probes) = 0
      BY <2>4, FS_EmptySet DEF ProbesOnlyHalfOpen
    <3>4. probe_ok' = 0 /\ forgotten' = 0
      BY <2>4 DEF Allow
    <3> QED
      BY <2>2, <3>1, <3>2, <3>3, <3>4
      DEF AdmissionsAccounted, ProbesOnlyHalfOpen
  <2>5. CASE inner.state = "HalfOpen"
    <3>1. /\ inner'.state = "HalfOpen"
          /\ inner'.half_open_admitted = inner.half_open_admitted + 1
          /\ inner'.success_count = inner.success_count
      BY <2>5, <1>g, AllowGood DEF Allow
    <3>2. Cardinality(Probes') = Cardinality(Probes) + 1
      BY <2>5, AdmittingProbe DEF Allow
    <3>3. probe_ok' = probe_ok /\ forgotten' = forgotten
      BY <2>5 DEF Allow
    <3> QED
      BY <2>2, <2>5, <3>1, <3>2, <3>3, <1>t, <1>p
      DEF AdmissionsAccounted, ProbesOnlyHalfOpen
  <2> QED
    BY <2>3, <2>4, <2>5, <1>t DEF CircuitState
<1>2. ASSUME NEW c \in Calls, Rejected(c) PROVE BreakerInv'
  <2>1. inner' = inner /\ call' = call
        /\ probe_ok' = probe_ok /\ forgotten' = forgotten
    BY <1>2, <1>g, AllowGood DEF Rejected
  <2> QED
    BY <2>1 DEF BreakerTypeOK, CountersConsistent,
      AdmissionsAccounted,
                ProbesOnlyHalfOpen, Probes
<1>3. ASSUME NEW c \in Calls, RecordSuccess(c) PROVE BreakerInv'
  <2> USE <1>3
  <2>1. GoodBreaker(inner')
    BY <1>g, SuccessGood DEF RecordSuccess
  <2>2. /\ inner.state # "HalfOpen" => inner'.state = inner.state
        /\ inner.state = "HalfOpen" =>
             /\ inner'.state \in {"HalfOpen", "Closed"}
             /\ inner'.success_count = inner.success_count + 1
             /\ inner'.half_open_admitted = inner.half_open_admitted
    BY <1>g, SuccessGood DEF RecordSuccess
  <2>3. /\ call' \in [Calls -> {"idle", "normal", "probe", "stale"}]
        /\ (inner.state = "HalfOpen" /\ inner'.state # "HalfOpen")
              => Probes' = {}
        /\ (inner.state # "HalfOpen" \/ inner'.state = "HalfOpen") =>
              /\ Probes' = Probes \ {c}
              /\ Cardinality(Probes') =
                   IF call[c] = "probe" THEN Cardinality(Probes) - 1
                                        ELSE Cardinality(Probes)
    BY EndingCall DEF RecordSuccess
  <2>4. BreakerTypeOK' /\ CountersConsistent'
    BY <2>1, <2>3, <1>t
    DEF RecordSuccess, BreakerTypeOK, CountersConsistent,
      GoodBreaker
  <2>5. ProbesOnlyHalfOpen'
    BY <2>2, <2>3 DEF ProbesOnlyHalfOpen
  <2>6. AdmissionsAccounted'
    <3> SUFFICES ASSUME inner'.state = "HalfOpen"
                 PROVE  /\ inner'.half_open_admitted =
                             Cardinality(Probes') + probe_ok' + forgotten'
                        /\ inner'.success_count >= probe_ok'
      BY DEF AdmissionsAccounted
    <3>1. inner.state = "HalfOpen"
      BY <2>2
    <3>2. inner.half_open_admitted =
             Cardinality(Probes) + probe_ok + forgotten
          /\ inner.success_count >= probe_ok
      BY <3>1 DEF AdmissionsAccounted
    <3>3. /\ forgotten' = forgotten
          /\ probe_ok' = IF call[c] = "probe" THEN probe_ok + 1 ELSE probe_ok
      BY DEF RecordSuccess
    <3> QED
      BY <3>1, <3>2, <3>3, <2>2, <2>3, <1>t, <1>p
  <2> QED
    BY <2>4, <2>5, <2>6
<1>4. ASSUME NEW c \in Calls, RecordFailure(c) PROVE BreakerInv'
  <2> USE <1>4
  <2>1. GoodBreaker(inner') /\ inner'.state # "HalfOpen"
    BY <1>g, FailureGood DEF RecordFailure
  <2>2. /\ call' \in [Calls -> {"idle", "normal", "probe", "stale"}]
        /\ inner.state = "HalfOpen" => Probes' = {}
        /\ inner.state # "HalfOpen" => Probes' = Probes \ {c}
    BY EndingCall, <2>1 DEF RecordFailure
  <2>3. BreakerTypeOK' /\ CountersConsistent'
    BY <2>1, <2>2 DEF RecordFailure, BreakerTypeOK,
      CountersConsistent, GoodBreaker
  <2> QED
    BY <2>1, <2>2, <2>3 DEF AdmissionsAccounted,
      ProbesOnlyHalfOpen
<1>5. ASSUME NEW c \in Calls, Forget(c) PROVE BreakerInv'
  <2> USE <1>5
  <2>1. BreakerTypeOK' /\ CountersConsistent'
    BY <1>t DEF Forget, BreakerTypeOK, CountersConsistent
  <2>2. Probes' = Probes \ {c} /\ (c \in Probes <=> call[c] = "probe")
    BY DEF Forget, Probes, BreakerTypeOK
  <2>3. Cardinality(Probes') = IF call[c] = "probe"
                               THEN Cardinality(Probes) - 1
                               ELSE Cardinality(Probes)
    BY <2>2, ProbesFinite, FS_RemoveElement
  <2>4. /\ inner' = inner /\ probe_ok' = probe_ok
        /\ forgotten' = IF call[c] = "probe" THEN forgotten + 1
                                             ELSE forgotten
    BY DEF Forget
  <2> QED
    BY <2>1, <2>2, <2>3, <2>4, <1>t, <1>p
    DEF AdmissionsAccounted, ProbesOnlyHalfOpen
<1>6. CASE Reset
  <2>1. GoodBreaker(inner') /\ inner'.state = "Closed"
    BY <1>6, <1>g, ResetGood DEF Reset
  <2>2. call' \in [Calls -> {"idle", "normal", "probe", "stale"}]
        /\ Probes' = {}
    BY <1>6 DEF Reset, Retire, Probes, BreakerTypeOK
  <2> QED
    BY <1>6, <2>1, <2>2 DEF Reset, BreakerTypeOK,
      CountersConsistent, GoodBreaker,
                            AdmissionsAccounted, ProbesOnlyHalfOpen
<1>7. CASE BreakerTick
  <2>1. /\ GoodBreaker(inner') /\ inner'.state = inner.state
        /\ inner'.half_open_admitted = inner.half_open_admitted
        /\ inner'.success_count = inner.success_count
    BY <1>7, <1>g, OlderGood DEF BreakerTick
  <2>2. Probes' = Probes /\ call' = call
        /\ probe_ok' = probe_ok /\ forgotten' = forgotten
    BY <1>7 DEF BreakerTick, Probes
  <2> QED
    BY <2>1, <2>2 DEF BreakerTypeOK,
      CountersConsistent, GoodBreaker,
                      AdmissionsAccounted, ProbesOnlyHalfOpen
<1>8. CASE UNCHANGED breakerVars
  BY <1>8 DEF breakerVars, BreakerTypeOK, CountersConsistent,
    AdmissionsAccounted,
              ProbesOnlyHalfOpen, Probes
<1> QED
  BY <1>1, <1>2, <1>3, <1>4, <1>5, <1>6, <1>7, <1>8 DEF BreakerNext

-----------------------------------------------------------------------------
(* The invariant holds in every reachable state.                           *)
THEOREM BreakerInvariant == BreakerSpec => []BreakerInv
  BY BreakerInvInit, BreakerInvNext, PTL DEF BreakerSpec

(* Type correctness of the breaker's state.                                *)
THEOREM BreakerStaysTyped == BreakerSpec => []BreakerTypeOK
  BY BreakerInvariant, PTL DEF BreakerInv

(* Counters and state agree after every interleaving.                      *)
THEOREM BreakerCountersConsistent == BreakerSpec => []CountersConsistent
  BY BreakerInvariant, PTL DEF BreakerInv

(* Every half-open admission is in flight, succeeded or unreported.        *)
THEOREM BreakerAdmissionsAccounted == BreakerSpec => []AdmissionsAccounted
  BY BreakerInvariant, PTL DEF BreakerInv

(* No more than half_open_max_calls probes of one half-open period are in  *)
(* flight at once.                                                         *)
THEOREM BreakerProbeBound == BreakerSpec => []ProbeBound
<1>1. BreakerInv => ProbeBound
  <2> SUFFICES ASSUME BreakerInv PROVE ProbeBound
    OBVIOUS
  <2>1. /\ inner.half_open_admitted <= HalfOpenMaxCalls
        /\ inner.half_open_admitted \in Nat
        /\ probe_ok \in Nat /\ forgotten \in Nat
    BY DEF BreakerInv, BreakerTypeOK, BreakerInner
  <2>2. CASE inner.state = "HalfOpen"
    BY <2>1, <2>2, ProbesFinite
    DEF BreakerInv, AdmissionsAccounted, ProbeBound
  <2>3. CASE inner.state # "HalfOpen"
    BY <2>3, FS_EmptySet DEF BreakerInv,
      ProbesOnlyHalfOpen, ProbeBound
  <2> QED
    BY <2>2, <2>3
<1> QED
  BY <1>1, BreakerInvariant, PTL

(* The breaker closes only from HalfOpen, by the success that completes    *)
(* half_open_max_calls of them, or by an explicit reset.                   *)
THEOREM BreakerClosesOnlyOnSuccesses == BreakerSpec => ClosesOnlyOnSuccesses
<1> DEFINE Goal == (inner.state # "Closed" /\ inner'.state = "Closed") =>
                     \/ Reset
                     \/ /\ inner.state = "HalfOpen"
                        /\ inner'.success_count = HalfOpenMaxCalls
                        /\ \E c \in Calls : RecordSuccess(c)
<1>1. BreakerInv /\ [BreakerNext]_breakerVars => [Goal]_breakerVars
  <2> SUFFICES ASSUME BreakerInv, BreakerNext,
                      inner.state # "Closed", inner'.state = "Closed"
               PROVE  Goal
    BY DEF breakerVars
  <2>g. GoodBreaker(inner)
    BY DEF BreakerInv, BreakerTypeOK,
      CountersConsistent, GoodBreaker
  <2>t. inner.state \in CircuitState
    BY <2>g DEF GoodBreaker, BreakerInner
  <2>1. ASSUME NEW c \in Calls, Allow(c) PROVE FALSE
    BY <2>1, <2>g, <2>t, AllowGood DEF Allow,
      CircuitState
  <2>2. ASSUME NEW c \in Calls, Rejected(c) PROVE FALSE
    BY <2>2, <2>g, AllowGood DEF Rejected
  <2>3. ASSUME NEW c \in Calls, RecordSuccess(c) PROVE Goal
    BY <2>3, <2>g, SuccessGood DEF RecordSuccess
  <2>4. ASSUME NEW c \in Calls, RecordFailure(c) PROVE FALSE
    BY <2>4, <2>g, FailureGood DEF RecordFailure
  <2>5. ASSUME NEW c \in Calls, Forget(c) PROVE FALSE
    BY <2>5 DEF Forget
  <2>6. CASE BreakerTick
    BY <2>6, <2>g, OlderGood DEF BreakerTick
  <2> QED
    BY <2>1, <2>2, <2>3, <2>4, <2>5, <2>6 DEF BreakerNext
<1> QED
  BY <1>1, BreakerInvariant, PTL DEF BreakerSpec,
    ClosesOnlyOnSuccesses
-----------------------------------------------------------------------------
(* Positions.                                                              *)

(* A set of naturals has a least element, if any.                          *)
LEMMA LeastExists ==
  ASSUME NEW S \in SUBSET Nat, S # {}
  PROVE  \E n \in S : \A m \in S : n <= m
<1>1. PICK n \in S : \A m \in S : ~(<<m, n>> \in OpToRel(<, Nat))
  BY NatLessThanWellFounded, WFMin
<1>2. ASSUME NEW m \in S PROVE n <= m
  <2>1. ~(<<m, n>> \in OpToRel(<, Nat)) /\ n \in Nat /\ m \in Nat
    BY <1>1
  <2> QED
    BY <2>1 DEF OpToRel
<1> QED
  BY <1>2

(* The k-th of a finite set of positions is well defined: every rank is    *)
(* taken, and by one position only.                                        *)
LEMMA Ranks ==
  ASSUME NEW n \in Nat, NEW kept \in SUBSET (1..n)
  PROVE  /\ Cardinality(kept) \in Nat
         /\ \A k \in 1..Cardinality(kept) : \E i \in kept :
              Cardinality({j \in kept : j <= i}) = k
         /\ \A i \in kept : Cardinality({j \in kept : j <= i}) \in 1..Cardinality(kept)
         /\ \A i, j \in kept :
              Cardinality({h \in kept : h <= i}) = Cardinality({h \in kept : h <= j})
                => i = j
<1> DEFINE upto(i) == {j \in kept : j <= i}
           rank == [i \in kept |-> Cardinality(upto(i))]
<1>1. IsFiniteSet(1..n) /\ IsFiniteSet(kept) /\ Cardinality(kept) \in Nat
  <2>1. IsFiniteSet(1..n)
    BY FS_Interval
  <2>2. IsFiniteSet(kept)
    BY <2>1, FS_Subset
  <2> QED
    BY <2>1, <2>2, FS_CardinalityType
<1>2. \A i \in kept : /\ IsFiniteSet(upto(i)) /\ Cardinality(upto(i)) \in Nat
                      /\ Cardinality(upto(i)) <= Cardinality(kept)
                      /\ i \in upto(i)
  <2> SUFFICES ASSUME NEW i \in kept
               PROVE  /\ IsFiniteSet(upto(i)) /\ Cardinality(upto(i)) \in Nat
                      /\ Cardinality(upto(i)) <= Cardinality(kept)
                      /\ i \in upto(i)
    OBVIOUS
  <2>1. upto(i) \in SUBSET kept /\ i \in upto(i)
    OBVIOUS
  <2> QED
    BY <1>1, <2>1, FS_Subset, FS_CardinalityType
<1>3. \A i \in kept : Cardinality(upto(i)) \in 1..Cardinality(kept)
  <2> SUFFICES ASSUME NEW i \in kept
               PROVE  Cardinality(upto(i)) \in 1..Cardinality(kept)
    OBVIOUS
  <2>1. PICK c : c = Cardinality(upto(i))
    OBVIOUS
  <2>2. c # 0
    BY <1>2, <2>1, FS_EmptySet
  <2>3. c \in Nat /\ c <= Cardinality(kept)
    BY <1>2, <2>1
  <2> QED
    BY <1>1, <2>1, <2>2, <2>3
<1>4. \A i, j \in kept : i < j => Cardinality(upto(i)) # Cardinality(upto(j))
  <2> SUFFICES ASSUME NEW i \in kept, NEW j \in kept, i < j,
                      Cardinality(upto(i)) = Cardinality(upto(j))
               PROVE  FALSE
    OBVIOUS
  <2>0. i \in Nat /\ j \in Nat /\ \A h \in kept : h \in Nat
    OBVIOUS
  <2>a. j <= j /\ ~(j <= i) /\ \A h \in kept : h <= i => h <= j
    BY <2>0
  <2>1. upto(i) \in SUBSET upto(j) /\ j \in upto(j) /\ j \notin upto(i)
    BY <2>a
  <2>2. upto(j) = upto(i)
    BY <2>1, <1>2, FS_Subset
  <2> QED
    BY <2>1, <2>2
<1>5. \A i, j \in kept : Cardinality(upto(i)) = Cardinality(upto(j)) => i = j
  BY <1>4
<1>6. rank \in Injection(kept, 1..Cardinality(kept))
  <2> HIDE DEF upto
  <2> QED
    BY <1>3, <1>5 DEF Injection, IsInjective
<1>7. rank \in Surjection(kept, 1..Cardinality(kept))
  <2>1. IsFiniteSet(1..Cardinality(kept))
        /\ Cardinality(1..Cardinality(kept)) = Cardinality(kept)
    BY <1>1, FS_Interval
  <2> HIDE DEF rank
  <2> QED
    BY <1>6, <2>1, FS_Injection
<1>8. \A k \in 1..Cardinality(kept) : \E i \in kept : rank[i] = k
  <2> HIDE DEF rank
  <2> QED
    BY <1>7 DEF Surjection
<1>9. \A k \in 1..Cardinality(kept) : \E i \in kept : Cardinality(upto(i)) = k
  BY <1>8
<1> QED
  BY <1>1, <1>3, <1>5, <1>9

(* at is the order in which Sublist takes the kept positions, each once.   *)
Takes(at, list, kept) ==
  /\ Cardinality(kept) \in Nat
  /\ at \in [1..Cardinality(kept) -> kept]
  /\ \A i \in kept : \E k \in 1..Cardinality(kept) : at[k] = i
  /\ \A k, l \in 1..Cardinality(kept) : at[k] = at[l] => k = l
  /\ Sublist(list, kept) = [k \in 1..Cardinality(kept) |-> list[at[k]]]

(* Sublist takes every kept position once.                                 *)
LEMMA SublistPositions ==
  ASSUME NEW list, NEW n \in Nat, NEW kept \in SUBSET (1..n)
  PROVE  \E at : Takes(at, list, kept)
<1> DEFINE rank(i) == Cardinality({j \in kept : j <= i})
           C == Cardinality(kept)
           at == [k \in 1..C |-> CHOOSE i \in kept : rank(i) = k]
<1>1. /\ C \in Nat
      /\ \A k \in 1..C : \E i \in kept : rank(i) = k
      /\ \A i \in kept : rank(i) \in 1..C
      /\ \A i, j \in kept : rank(i) = rank(j) => i = j
  BY Ranks
<1>2. Sublist(list, kept) = [k \in 1..C |-> list[at[k]]]
  BY DEF Sublist
<1> HIDE DEF rank, C
<1>3. \A k \in 1..C : at[k] \in kept /\ rank(at[k]) = k
  BY <1>1
<1>4. at \in [1..C -> kept]
  BY <1>3
<1> HIDE DEF at
<1>5. \A k, l \in 1..C : at[k] = at[l] => k = l
  BY <1>3
<1>6. \A i \in kept : \E k \in 1..C : at[k] = i
  <2> SUFFICES ASSUME NEW i \in kept PROVE at[rank(i)] = i /\ rank(i) \in 1..C
    BY Zenon
  <2>1. rank(i) \in 1..C
    BY <1>1
  <2>2. at[rank(i)] \in kept /\ rank(at[rank(i)]) = rank(i)
    BY <1>3, <2>1
  <2> QED
    BY <1>1, <2>1, <2>2
<1>7. Takes(at, list, kept)
  BY <1>1, <1>2, <1>4, <1>5, <1>6 DEF Takes, C
<1> QED
  BY <1>7

-----------------------------------------------------------------------------
(* The order of the candidates.                                            *)

List(d) ==
  /\ Len(d) \in Nat /\ DOMAIN d = 1..Len(d)
  /\ d \in [DOMAIN d -> {d[i] : i \in DOMAIN d}]

Distinct(d) ==
  \A k, l \in DOMAIN d : Endpoint(d[k]) = Endpoint(d[l]) => k = l

(* Every endpoint of the list is one of d's.                               *)
Covers(d, list) ==
  \A i \in DOMAIN list : \E k \in DOMAIN d : Endpoint(d[k]) = Endpoint(list[i])

(* A function on an interval is a list.                                    *)
LEMMA FunctionList ==
  ASSUME NEW m \in Nat, NEW V, NEW d \in [1..m -> V]
  PROVE  d \in Seq(V) /\ List(d) /\ Len(d) = m
<1>1. d \in Seq(V)
  BY SeqDef
<1> QED
  BY <1>1, LenProperties DEF List

(* dedup_targets keeps one target of every endpoint.                       *)
LEMMA DedupKeeps ==
  ASSUME NEW o, List(o)
  PROVE  /\ List(Dedup(o)) /\ Distinct(Dedup(o))
         /\ Covers(Dedup(o), o) /\ Covers(o, Dedup(o))
<1> DEFINE n == Len(o)
           kept == {i \in DOMAIN o : \A j \in 1..(i - 1) :
                      Endpoint(o[i]) # Endpoint(o[j])}
           C == Cardinality(kept)
<1>1. n \in Nat /\ DOMAIN o = 1..n /\ kept \in SUBSET (1..n)
  BY DEF List
<1>2. PICK at : Takes(at, o, kept)
  <2>1. PICK K, m : K = kept /\ m = n
    OBVIOUS
  <2>2. m \in Nat /\ K \in SUBSET (1..m)
    BY <1>1, <2>1
  <2> HIDE DEF kept, n
  <2>3. \E at : Takes(at, o, K)
    BY <2>2, SublistPositions
  <2> QED
    BY <2>1, <2>3
<1>3. /\ C \in Nat
      /\ at \in [1..C -> kept]
      /\ \A i \in kept : \E k \in 1..C : at[k] = i
      /\ \A k, l \in 1..C : at[k] = at[l] => k = l
      /\ Sublist(o, kept) = [k \in 1..C |-> o[at[k]]]
  BY <1>2 DEF Takes
<1>4. PICK d : d = Dedup(o)
  OBVIOUS
<1>5. d = [k \in 1..C |-> o[at[k]]]
  BY <1>3, <1>4 DEF Dedup
<1>6. \A i, j \in kept : Endpoint(o[i]) = Endpoint(o[j]) => i = j
  <2> SUFFICES ASSUME NEW i \in kept, NEW j \in kept, i < j,
                      Endpoint(o[i]) = Endpoint(o[j])
               PROVE  FALSE
    BY <1>1
  <2>1. i \in 1..(j - 1)
    BY <1>1
  <2> QED
    BY <2>1
<1>7. \A i \in 1..n : \E j \in kept : Endpoint(o[j]) = Endpoint(o[i])
  <2> SUFFICES ASSUME NEW i \in 1..n
               PROVE  \E j \in kept : Endpoint(o[j]) = Endpoint(o[i])
    OBVIOUS
  <2> DEFINE S == {j \in 1..n : Endpoint(o[j]) = Endpoint(o[i])}
  <2>1. S \in SUBSET Nat /\ i \in S
    BY <1>1
  <2>2. PICK j \in S : \A h \in S : j <= h
    <3> HIDE DEF S
    <3> QED
      BY <2>1, LeastExists
  <2>3. \A h \in 1..(j - 1) : h \in 1..n /\ ~(j <= h)
    BY <1>1
  <2>4. \A h \in 1..(j - 1) : Endpoint(o[j]) # Endpoint(o[h])
    BY <2>2, <2>3
  <2> QED
    BY <2>4, <1>1
<1> HIDE DEF kept, C
<1>8. List(d) /\ Len(d) = C
  <2>1. d \in [1..C -> {o[at[k]] : k \in 1..C}]
    BY <1>5
  <2> QED
    BY <2>1, <1>3, FunctionList
<1>9. DOMAIN d = 1..C /\ \A k \in 1..C : at[k] \in kept /\ d[k] = o[at[k]]
  BY <1>3, <1>5
<1>10. Distinct(d)
  BY <1>3, <1>6, <1>9 DEF Distinct
<1>11. Covers(d, o)
  <2> SUFFICES ASSUME NEW i \in 1..n
               PROVE  \E k \in 1..C : Endpoint(d[k]) = Endpoint(o[i])
    BY <1>1, <1>9 DEF Covers
  <2>1. PICK j \in kept : Endpoint(o[j]) = Endpoint(o[i])
    BY <1>7
  <2>2. PICK k \in 1..C : at[k] = j
    BY <1>3
  <2> QED
    BY <2>1, <2>2, <1>9
<1>12. Covers(o, d)
  BY <1>1, <1>9 DEF Covers
<1> QED
  BY <1>4, <1>8, <1>10, <1>11, <1>12

(* A sort drops no target.                                                 *)
LEMMA SortKeeps ==
  ASSUME NEW list, List(list), NEW key, \A i \in DOMAIN list : key[i] \in Int
  PROVE  /\ List(StableSort(list, key)) /\ Len(StableSort(list, key)) = Len(list)
         /\ Covers(StableSort(list, key), list)
<1> DEFINE D == DOMAIN list
           n == Len(list)
           before(i, j) == key[i] < key[j] \/ (key[i] = key[j] /\ i < j)
           lower(i) == {j \in D : before(j, i)}
           rank(i) == Cardinality(lower(i))
           pos(k) == CHOOSE i \in D : rank(i) = k - 1
<1>1. /\ n \in Nat /\ D = 1..n /\ IsFiniteSet(D) /\ Cardinality(D) = n
      /\ \A i \in D : i \in Nat /\ key[i] \in Int
  <2>1. n \in Nat /\ D = 1..n
    BY DEF List
  <2>2. IsFiniteSet(1..n) /\ Cardinality(1..n) = n
    BY <2>1, FS_Interval
  <2> QED
    BY <2>1, <2>2
<1>2. /\ \A i \in D : ~before(i, i)
      /\ \A i, j \in D : i # j => before(i, j) \/ before(j, i)
      /\ \A i, j, h \in D : before(i, j) /\ before(j, h) => before(i, h)
  BY <1>1
<1>3. StableSort(list, key) = [k \in D |-> list[pos(k)]]
  BY DEF StableSort
<1> HIDE DEF before, D, n
<1>4. \A i \in D : /\ lower(i) \in SUBSET D /\ i \notin lower(i)
                   /\ IsFiniteSet(lower(i)) /\ rank(i) \in Nat /\ rank(i) < n
  <2> SUFFICES ASSUME NEW i \in D
               PROVE  /\ lower(i) \in SUBSET D /\ i \notin lower(i)
                      /\ IsFiniteSet(lower(i)) /\ rank(i) \in Nat /\ rank(i) < n
    OBVIOUS
  <2>1. PICK L : L = lower(i)
    OBVIOUS
  <2>2. L \in SUBSET D /\ i \notin L
    BY <1>2, <2>1
  <2>3. /\ IsFiniteSet(L) /\ Cardinality(L) <= Cardinality(D)
        /\ Cardinality(D) = Cardinality(L) => D = L
    BY <1>1, <2>2, FS_Subset
  <2>4. Cardinality(L) \in Nat
    BY <2>3, FS_CardinalityType
  <2> QED
    BY <1>1, <2>1, <2>2, <2>3, <2>4
<1>5. \A i, j \in D : before(i, j) => rank(i) # rank(j)
  <2> SUFFICES ASSUME NEW i \in D, NEW j \in D, before(i, j), rank(i) = rank(j)
               PROVE  FALSE
    OBVIOUS
  <2>1. lower(i) \in SUBSET lower(j) /\ i \in lower(j)
    BY <1>2
  <2>2. lower(j) = lower(i)
    <3>1. PICK L, M : L = lower(i) /\ M = lower(j)
      OBVIOUS
    <3>2. /\ IsFiniteSet(M) /\ L \in SUBSET M
          /\ Cardinality(M) = Cardinality(L)
      BY <1>4, <2>1, <3>1
    <3>3. M = L
      BY <3>2, FS_Subset
    <3> QED
      BY <3>1, <3>3
  <2> QED
    BY <1>4, <2>1, <2>2
<1> HIDE DEF lower, rank
<1>6. \A i, j \in D : rank(i) = rank(j) => i = j
  BY <1>2, <1>5
<1>7. \A i \in D : rank(i) + 1 \in D /\ pos(rank(i) + 1) = i
  <2> SUFFICES ASSUME NEW i \in D
               PROVE  rank(i) + 1 \in D /\ pos(rank(i) + 1) = i
    OBVIOUS
  <2>1. rank(i) + 1 \in D /\ rank(i) = (rank(i) + 1) - 1
    BY <1>1, <1>4
  <2>2. pos(rank(i) + 1) \in D /\ rank(pos(rank(i) + 1)) = (rank(i) + 1) - 1
    BY <2>1
  <2> QED
    BY <1>6, <2>1, <2>2
<1> HIDE DEF pos
<1>8. StableSort(list, key) \in [1..n -> {list[pos(k)] : k \in D}]
  BY <1>1, <1>3
<1>9. List(StableSort(list, key)) /\ Len(StableSort(list, key)) = n
  BY <1>1, <1>8, FunctionList
<1>10. \A i \in D : \E k \in DOMAIN StableSort(list, key) :
         Endpoint(StableSort(list, key)[k]) = Endpoint(list[i])
  BY <1>3, <1>7
<1> QED
  BY <1>9, <1>10 DEF Covers, D, n

(* A weighted draw without replacement drops no target.                    *)
LEMMA BalanceKeeps ==
  ASSUME NEW list, List(list), NEW o \in LoadBalanced(list)
  PROVE  List(o) /\ Len(o) = Len(list) /\ Covers(o, list)
<1>1. PICK p \in [DOMAIN list -> DOMAIN list] :
        /\ \A i \in DOMAIN list : \E k \in DOMAIN list : p[k] = i
        /\ o = [k \in DOMAIN list |-> list[p[k]]]
  BY DEF LoadBalanced
<1>2. o \in [1..Len(list) -> {list[p[k]] : k \in DOMAIN list}]
  BY <1>1 DEF List
<1>3. List(o) /\ Len(o) = Len(list)
  BY <1>2, FunctionList DEF List
<1>4. Covers(o, list)
  BY <1>1 DEF Covers
<1> QED
  BY <1>3, <1>4

(* A target put first, if any, drops none.                                 *)
LEMMA PrimaryKeeps ==
  ASSUME NEW list, List(list), NEW primary
  PROVE  /\ List(OrderedWithPrimary(primary, list))
         /\ Len(OrderedWithPrimary(primary, list)) >= Len(list)
         /\ Covers(OrderedWithPrimary(primary, list), list)
<1>1. CASE primary = None
  BY <1>1 DEF OrderedWithPrimary, List, Covers
<1>2. CASE primary # None
  <2> DEFINE V == {primary} \cup {list[i] : i \in DOMAIN list}
  <2>1. PICK o : o = <<primary>> \o list
    OBVIOUS
  <2>2. list \in Seq(V) /\ <<primary>> \in Seq(V)
    <3>1. list \in [1..Len(list) -> V]
      BY DEF List
    <3>2. Len(list) \in Nat
      BY DEF List
    <3> QED
      BY <3>1, <3>2, SeqDef
  <2>3. /\ o \in Seq(V) /\ Len(o) = 1 + Len(list)
        /\ \A i \in 1..Len(list) : o[i + 1] = list[i]
    <3>1. /\ o \in Seq(V) /\ Len(o) = Len(<<primary>>) + Len(list)
          /\ \A i \in 1..Len(<<primary>>) + Len(list) : o[i] =
               IF i <= Len(<<primary>>) THEN <<primary>>[i] ELSE list[i - Len(<<primary>>)]
      BY <2>1, <2>2, ConcatProperties
    <3>2. Len(<<primary>>) = 1
      OBVIOUS
    <3>3. Len(list) \in Nat
      BY DEF List
    <3> QED
      BY <3>1, <3>2, <3>3
  <2>4. List(o) /\ Len(o) >= Len(list)
    BY <2>3, LenProperties DEF List
  <2>5. Covers(o, list)
    <3> SUFFICES ASSUME NEW i \in 1..Len(list)
                 PROVE  \E k \in DOMAIN o : Endpoint(o[k]) = Endpoint(list[i])
      BY DEF Covers, List
    <3>1. i + 1 \in DOMAIN o
      BY <2>3, <2>4 DEF List
    <3> QED
      BY <3>1, <2>3
  <2> QED
    BY <1>2, <2>1, <2>4, <2>5 DEF OrderedWithPrimary
<1> QED
  BY <1>1, <1>2

(* What is asked of the order a strategy returns: no endpoint twice, and   *)
(* every eligible one, the first alone under the single strategy.          *)
Ordered(order, eligible, single) ==
  /\ List(order) /\ Len(order) >= 1 /\ Distinct(order)
  /\ \/ Covers(order, eligible)
     \/ /\ single
        /\ \A k \in DOMAIN order : Endpoint(order[k]) = Endpoint(eligible[1])

(* select_ordered returns such an order in every mode.                     *)
LEMMA OrderingsOrdered ==
  ASSUME NEW config, NEW ask, NEW eligible, List(eligible), Len(eligible) >= 1,
         \A i \in DOMAIN eligible : eligible[i].weight \in Int,
         NEW avgs \in [DOMAIN eligible -> Nat],
         NEW order \in Orderings(FromStrategyConfig(config), ask, eligible, avgs)
  PROVE  Ordered(order, eligible, config.mode = "single")
<1>1. PICK built : built = FromStrategyConfig(config)
  OBVIOUS
<1>2. built.mode = config.mode
  BY <1>1 DEF FromStrategyConfig, FromMode, Built
<1>3. PICK o : /\ order = Dedup(o)
               /\ o \in CASE built.mode = "single" -> {<<eligible[1]>>}
                    [] built.mode = "fallback" -> {eligible}
                    [] built.mode = "load_balance" -> LoadBalanced(eligible)
                    [] built.mode = "least_latency" -> {StableSort(eligible, avgs)}
                    [] built.mode = "cost_optimized" ->
                         {StableSort(eligible, [i \in DOMAIN eligible |-> eligible[i].weight])}
                    [] built.mode = "ab_test" ->
                         {OrderedWithPrimary(t, eligible) : t \in AbTestVariants(built, eligible)}
                    [] OTHER -> {OrderedWithPrimary(RuleTarget(built, ask), eligible)}
  BY <1>1 DEF Orderings
<1>4. CASE built.mode = "single"
  <2>1. o = <<eligible[1]>>
    BY <1>3, <1>4
  <2>2. List(o) /\ Len(o) = 1 /\ DOMAIN o = {1} /\ o[1] = eligible[1]
    BY <2>1 DEF List
  <2>3. List(order) /\ Distinct(order) /\ Covers(order, o) /\ Covers(o, order)
    BY <1>3, <2>2, DedupKeeps
  <2>4. \A k \in DOMAIN order : Endpoint(order[k]) = Endpoint(eligible[1])
    BY <2>2, <2>3 DEF Covers
  <2>5. Len(order) >= 1
    BY <2>2, <2>3 DEF Covers, List
  <2> QED
    BY <1>2, <1>4, <2>3, <2>4, <2>5 DEF Ordered
<1>5. CASE built.mode # "single"
  <2>1. List(o) /\ Len(o) >= 1 /\ Covers(o, eligible)
    <3>1. CASE built.mode = "fallback"
      <4>1. o = eligible
        BY <1>3, <3>1
      <4> QED
        BY <4>1 DEF Covers
    <3>2. CASE built.mode = "load_balance"
      <4>1. o \in LoadBalanced(eligible)
        BY <1>3, <3>2
      <4> QED
        BY <4>1, BalanceKeeps
    <3>3. CASE built.mode = "least_latency"
      <4>1. o = StableSort(eligible, avgs)
        BY <1>3, <3>3
      <4> QED
        BY <4>1, SortKeeps
    <3>4. CASE built.mode = "cost_optimized"
      <4>1. PICK key : key = [i \in DOMAIN eligible |-> eligible[i].weight]
        OBVIOUS
      <4>2. o = StableSort(eligible, key)
        BY <1>3, <3>4, <4>1
      <4>3. \A i \in DOMAIN eligible : key[i] \in Int
        BY <4>1
      <4> QED
        BY <4>2, <4>3, SortKeeps
    <3>5. CASE built.mode \notin {"single", "fallback", "load_balance",
                                 "least_latency", "cost_optimized"}
      <4>1. \E t : o = OrderedWithPrimary(t, eligible)
        BY <1>3, <3>5
      <4>2. Len(eligible) \in Nat
        BY DEF List
      <4>3. List(o) /\ Len(o) >= Len(eligible) /\ Covers(o, eligible)
        BY <4>1, PrimaryKeeps
      <4> QED
        BY <4>2, <4>3 DEF List
    <3> QED
      BY <1>5, <3>1, <3>2, <3>3, <3>4, <3>5
  <2>2. List(order) /\ Distinct(order) /\ Covers(order, o)
    BY <1>3, <2>1, DedupKeeps
  <2>3. Covers(order, eligible)
    BY <2>1, <2>2 DEF Covers
  <2>4. Len(order) >= 1
    <3>1. 1 \in DOMAIN o
      BY <2>1 DEF List
    <3>2. PICK k \in DOMAIN order : Endpoint(order[k]) = Endpoint(o[1])
      BY <2>2, <3>1 DEF Covers
    <3> QED
      BY <2>2, <3>2 DEF List
  <2> QED
    BY <2>2, <2>3, <2>4 DEF Ordered
<1> QED
  BY <1>4, <1>5

(* What is asked of the order a request walks: that and no endpoint of a   *)
(* provider its caller is denied.                                          *)
Exhaustive(order, eligible, permitted, single) ==
  /\ List(order) /\ Len(order) >= 1 /\ Distinct(order)
  /\ \A k \in DOMAIN order : order[k].provider \in permitted
  /\ \/ \A i \in DOMAIN eligible :
          eligible[i].provider \in permitted =>
            \E k \in DOMAIN order : Endpoint(order[k]) = Endpoint(eligible[i])
     \/ /\ single
        /\ \A k \in DOMAIN order : Endpoint(order[k]) = Endpoint(eligible[1])

(* The filter keeps every permitted endpoint of the order.                 *)
LEMMA FilterKeeps ==
  ASSUME NEW order, NEW eligible, NEW single, Ordered(order, eligible, single),
         NEW permitted, FilterTargetsByRbac(order, permitted) # <<>>
  PROVE  Exhaustive(FilterTargetsByRbac(order, permitted), eligible,
                    permitted, single)
<1>1. PICK n, K : /\ n = Len(order)
                  /\ K = {i \in DOMAIN order : order[i].provider \in permitted}
  OBVIOUS
<1>2. n \in Nat /\ DOMAIN order = 1..n /\ K \in SUBSET (1..n)
  BY <1>1 DEF Ordered, List
<1>3. PICK at : Takes(at, order, K)
  BY <1>2, SublistPositions
<1>4. PICK o, m : o = FilterTargetsByRbac(order, permitted) /\ m = Cardinality(K)
  OBVIOUS
<1>5. /\ m \in Nat /\ at \in [1..m -> K]
      /\ \A i \in K : \E k \in 1..m : at[k] = i
      /\ \A k, l \in 1..m : at[k] = at[l] => k = l
      /\ o = [k \in 1..m |-> order[at[k]]]
  BY <1>1, <1>3, <1>4 DEF Takes, FilterTargetsByRbac
<1>6. PICK V : V = {order[at[k]] : k \in 1..m}
  OBVIOUS
<1>7. o \in [1..m -> V]
  BY <1>5, <1>6
<1>8. List(o) /\ Len(o) = m
  <2>1. m \in Nat
    BY <1>5
  <2> QED
    BY <1>7, <2>1, FunctionList
<1>9. m >= 1
  <2>1. o # <<>>
    BY <1>4
  <2>2. o \in Seq(V)
    BY <1>5, <1>7, FunctionList
  <2> QED
    BY <1>5, <1>8, <2>1, <2>2, EmptySeq
<1>10. Distinct(o)
  <2>1. \A k, l \in 1..n : Endpoint(order[k]) = Endpoint(order[l]) => k = l
    BY <1>2 DEF Ordered, Distinct
  <2>2. DOMAIN o = 1..m /\ \A k \in 1..m : at[k] \in 1..n /\ o[k] = order[at[k]]
    BY <1>2, <1>5
  <2> SUFFICES ASSUME NEW k \in 1..m, NEW l \in 1..m, Endpoint(o[k]) = Endpoint(o[l])
               PROVE  k = l
    BY <2>2 DEF Distinct
  <2>3. at[k] = at[l]
    BY <2>1, <2>2
  <2> QED
    BY <1>5, <2>3
<1>11. \A k \in DOMAIN o : at[k] \in K /\ o[k] = order[at[k]]
  BY <1>5
<1>12. \A k \in DOMAIN o : o[k].provider \in permitted
  BY <1>1, <1>11
<1>13. CASE Covers(order, eligible)
  <2> SUFFICES ASSUME NEW i \in DOMAIN eligible, eligible[i].provider \in permitted
               PROVE  \E k \in DOMAIN o : Endpoint(o[k]) = Endpoint(eligible[i])
    BY <1>4, <1>8, <1>9, <1>10, <1>12 DEF Exhaustive
  <2>1. PICK j \in DOMAIN order : Endpoint(order[j]) = Endpoint(eligible[i])
    BY <1>13 DEF Covers
  <2>2. order[j].provider = eligible[i].provider
    BY <2>1 DEF Endpoint
  <2>3. j \in K
    BY <1>1, <2>2
  <2>4. PICK k \in 1..m : at[k] = j
    BY <1>5, <2>3
  <2> QED
    BY <1>5, <2>1, <2>4
<1>14. CASE /\ single
            /\ \A k \in DOMAIN order : Endpoint(order[k]) = Endpoint(eligible[1])
  <2>2. \A k \in DOMAIN o : at[k] \in DOMAIN order /\ o[k] = order[at[k]]
    BY <1>2, <1>11
  <2>1. \A k \in DOMAIN o : Endpoint(o[k]) = Endpoint(eligible[1])
    <3> SUFFICES ASSUME NEW k \in DOMAIN o
                 PROVE  Endpoint(o[k]) = Endpoint(eligible[1])
      OBVIOUS
    <3>1. PICK j \in DOMAIN order : o[k] = order[j]
      BY <2>2
    <3>2. Endpoint(order[j]) = Endpoint(eligible[1])
      BY <1>14
    <3> QED
      BY <3>1, <3>2
  <2> QED
    BY <1>4, <1>8, <1>9, <1>10, <1>12, <1>14, <2>1 DEF Exhaustive
<1> QED
  BY <1>13, <1>14 DEF Ordered

(* What serves the model is a list of configured targets.                  *)
LEMMA EligibleTargets ==
  ASSUME NEW c \in Configs, NEW model
  PROVE  /\ List(Eligible(c.targets, model))
         /\ \A i \in DOMAIN Eligible(c.targets, model) :
              Eligible(c.targets, model)[i].weight \in Int
<1>1. PICK list, n, K :
        /\ list = c.targets /\ n = Len(c.targets)
        /\ K = {i \in DOMAIN c.targets : ServesModel(c.targets[i], model)}
  OBVIOUS
<1>2. /\ n \in Nat /\ DOMAIN list = 1..n /\ K \in SUBSET (1..n)
      /\ \A i \in 1..n : list[i].weight \in Int
  BY <1>1, ConfigsAssumption, LenProperties
<1>3. PICK at : Takes(at, list, K)
  BY <1>2, SublistPositions
<1>4. PICK e : e = Eligible(c.targets, model)
  OBVIOUS
<1>5. /\ Cardinality(K) \in Nat /\ at \in [1..Cardinality(K) -> K]
      /\ e = [k \in 1..Cardinality(K) |-> list[at[k]]]
  BY <1>1, <1>3, <1>4 DEF Takes, Eligible
<1>6. PICK m, V : /\ m = Cardinality(K)
                  /\ V = {list[at[k]] : k \in 1..Cardinality(K)}
  OBVIOUS
<1>7. List(e)
  <2>1. m \in Nat /\ e \in [1..m -> V]
    BY <1>5, <1>6
  <2> QED
    BY <2>1, FunctionList
<1>8. \A i \in DOMAIN e : e[i].weight \in Int
  BY <1>2, <1>5
<1> QED
  BY <1>4, <1>7, <1>8

-----------------------------------------------------------------------------
(* The failover loop.                                                      *)

Final == {"ok", "fatal"}

(* The loop state of one request: the record Idle builds, an order that    *)
(* is exhaustive once the request has started, and a log no longer than    *)
(* the order in which only the last entry may be final.                    *)
Loop(q) ==
  /\ q.log \in Seq(Outcomes)
  /\ q.pc \in {"idle", "attempt", "exec", "done"}
  /\ q.pc = "idle" => q.log = <<>> /\ DOMAIN q.order = {}
  /\ q.pc # "idle" => /\ Exhaustive(q.order, q.eligible, q.permitted, q.single)
                      /\ Len(q.log) <= Len(q.order)
  /\ \A i \in 1..(Len(q.log) - 1) : q.log[i] \notin Final
  /\ q.pc \in {"attempt", "exec"} =>
       /\ Len(q.log) < Len(q.order)
       /\ \A i \in DOMAIN q.log : q.log[i] \notin Final
  /\ q.pc = "done" =>
       /\ Len(q.log) >= 1
       /\ q.log[Len(q.log)] \in Final \/ Len(q.log) = Len(q.order)

LoopFields ==
  {"pc", "eligible", "permitted", "single", "order", "log", "live"}

(* req is a function to such records.                                      *)
Loops ==
  /\ DOMAIN req = Requests
  /\ req = [r \in Requests |-> req[r]]
  /\ \A r \in Requests :
       /\ DOMAIN req[r] = LoopFields
       /\ req[r] = [f \in LoopFields |-> req[r][f]]
       /\ Loop(req[r])

(* The record of a request that has not started.                           *)
LEMMA IdleLoop ==
  /\ DOMAIN Idle = LoopFields
  /\ Idle = [f \in LoopFields |-> Idle[f]]
  /\ Loop(Idle)
  BY EmptySeq DEF Idle, LoopFields, Loop, Exhaustive

(* The log after one more candidate.                                       *)
LEMMA LongerLog ==
  ASSUME NEW V, NEW l \in Seq(V), NEW o \in V
  PROVE  /\ Append(l, o) \in Seq(V) /\ Len(Append(l, o)) = Len(l) + 1
         /\ Len(l) \in Nat /\ DOMAIN l = 1..Len(l)
         /\ DOMAIN Append(l, o) = 1..(Len(l) + 1)
         /\ \A i \in 1..Len(l) : Append(l, o)[i] = l[i]
         /\ Append(l, o)[Len(l) + 1] = o
  OBVIOUS

(* The end of a candidate keeps the loop state.                            *)
LEMMA AdvanceLoop ==
  ASSUME NEW q, DOMAIN q = LoopFields, q = [f \in LoopFields |-> q[f]],
         Loop(q), q.pc \in {"attempt", "exec"}, NEW outcome \in Outcomes
  PROVE  /\ DOMAIN Advance(q, outcome) = LoopFields
         /\ Advance(q, outcome) = [f \in LoopFields |-> Advance(q, outcome)[f]]
         /\ Loop(Advance(q, outcome))
         /\ Advance(q, outcome).log = Append(q.log, outcome)
<1>1. PICK a : a = Advance(q, outcome)
  OBVIOUS
<1>2. PICK n : n = Len(q.log)
  OBVIOUS
<1>3. /\ DOMAIN a = LoopFields /\ a = [f \in LoopFields |-> a[f]]
      /\ a.log = Append(q.log, outcome) /\ a.order = q.order
      /\ a.eligible = q.eligible /\ a.single = q.single
      /\ a.permitted = q.permitted
      /\ a.pc \in {"attempt", "done"}
      /\ a.pc = "done" <=> \/ outcome \in Executed /\ ~Retryable(outcome)
                           \/ n + 1 = Len(q.order)
  BY <1>1, <1>2 DEF Advance, LoopFields
<1>4. /\ a.log \in Seq(Outcomes) /\ Len(a.log) = n + 1 /\ n \in Nat
      /\ DOMAIN a.log = 1..(n + 1)
      /\ \A i \in 1..n : a.log[i] = q.log[i]
      /\ a.log[n + 1] = outcome
      /\ DOMAIN q.log = 1..n
  <2>1. q.log \in Seq(Outcomes)
    BY DEF Loop
  <2>2. PICK l : l = q.log
    OBVIOUS
  <2>3. /\ Append(l, outcome) \in Seq(Outcomes)
        /\ Len(Append(l, outcome)) = Len(l) + 1
        /\ Len(l) \in Nat /\ DOMAIN l = 1..Len(l)
        /\ DOMAIN Append(l, outcome) = 1..(Len(l) + 1)
        /\ \A i \in 1..Len(l) : Append(l, outcome)[i] = l[i]
        /\ Append(l, outcome)[Len(l) + 1] = outcome
    BY <2>1, <2>2, LongerLog
  <2>4. a.log = Append(l, outcome) /\ n = Len(l)
    BY <1>2, <1>3, <2>2
  <2> QED
    BY <2>2, <2>3, <2>4, Zenon
<1>a. /\ Exhaustive(q.order, q.eligible, q.permitted, q.single)
      /\ Len(q.log) < Len(q.order)
      /\ \A i \in DOMAIN q.log : q.log[i] \notin Final
  BY DEF Loop
<1>b. PICK m : m = Len(q.order) /\ m \in Nat
  BY <1>a DEF Exhaustive, List
<1>5. n < m /\ \A i \in 1..n : q.log[i] \notin Final
  BY <1>2, <1>4, <1>a, <1>b
<1>6. outcome \in Executed /\ ~Retryable(outcome) <=> outcome \in Final
  BY DEF Executed, Retryable, Final
<1>7. Loop(a)
  <2>1. \A i \in 1..(Len(a.log) - 1) : a.log[i] \notin Final
    <3>1. Len(a.log) - 1 = n
      BY <1>4
    <3> QED
      BY <1>4, <1>5, <3>1
  <2>a. Exhaustive(a.order, a.eligible, a.permitted, a.single) /\ Len(a.order) = m
    BY <1>3, <1>a, <1>b
  <2>b. Len(a.log) <= m /\ Len(a.log) >= 1
    BY <1>4, <1>5, <1>b
  <2>2. CASE a.pc = "done"
    <3>1. outcome \in Final \/ Len(a.log) = m
      BY <1>3, <1>4, <1>6, <1>b, <2>2
    <3> QED
      BY <1>4, <2>1, <2>2, <2>a, <2>b, <3>1 DEF Loop
  <2>3. CASE a.pc = "attempt"
    <3>1. n + 1 # m /\ outcome \notin Final
      BY <1>3, <1>6, <1>b, <2>3
    <3>2. \A i \in DOMAIN a.log : a.log[i] \notin Final
      <4> SUFFICES ASSUME NEW i \in 1..(n + 1) PROVE a.log[i] \notin Final
        BY <1>4
      <4>1. CASE i = n + 1
        BY <1>4, <3>1, <4>1
      <4>2. CASE i # n + 1
        <5>1. i \in 1..n
          BY <1>4, <4>2
        <5> QED
          BY <1>4, <1>5, <5>1
      <4> QED
        BY <4>1, <4>2
    <3>3. Len(a.log) < m
      BY <1>4, <1>5, <1>b, <3>1
    <3> QED
      BY <1>4, <2>1, <2>3, <2>a, <2>b, <3>2, <3>3 DEF Loop
  <2> QED
    BY <1>3, <2>2, <2>3
<1> QED
  BY <1>1, <1>3, <1>7

(* Each request starts idle.                                               *)
LEMMA LoopsInit == Init => Loops
<1> SUFFICES ASSUME Init PROVE Loops
  OBVIOUS
<1>1. req = [r \in Requests |-> Idle]
  BY DEF Init
<1> QED
  BY <1>1, IdleLoop DEF Loops

(* The order select_targets hands a request is exhaustive.                 *)
LEMMA StartLoop ==
  ASSUME NEW r \in Requests, Start(r), Loops
  PROVE  \E q : /\ req' = [req EXCEPT ![r] = q]
                /\ DOMAIN q = LoopFields /\ q = [f \in LoopFields |-> q[f]]
                /\ Loop(q) /\ q.log = <<>> /\ q.pc = "attempt"
<1>1. PICK ask \in Asked, c \in Configs :
        /\ Eligible(c.targets, ask.model) # <<>>
        /\ \E avgs \in [DOMAIN Eligible(c.targets, ask.model) -> Averages] :
           \E order \in Orderings(FromStrategyConfig(c.strategy), ask,
                                  Eligible(c.targets, ask.model), avgs) :
           \E permitted \in Permits :
             /\ FilterTargetsByRbac(order, permitted) # <<>>
             /\ req' = [req EXCEPT ![r] =
                         Begun(Eligible(c.targets, ask.model), permitted,
                               c.strategy.mode = "single",
                               FilterTargetsByRbac(order, permitted))]
  BY Zenon DEF Start
<1>c. PICK avgs \in [DOMAIN Eligible(c.targets, ask.model) -> Averages] :
      \E order \in Orderings(FromStrategyConfig(c.strategy), ask,
                             Eligible(c.targets, ask.model), avgs) :
      \E permitted \in Permits :
        /\ FilterTargetsByRbac(order, permitted) # <<>>
        /\ req' = [req EXCEPT ![r] =
                    Begun(Eligible(c.targets, ask.model), permitted,
                          c.strategy.mode = "single",
                          FilterTargetsByRbac(order, permitted))]
  BY <1>1, Zenon
<1>d. PICK order \in Orderings(FromStrategyConfig(c.strategy), ask,
                               Eligible(c.targets, ask.model), avgs) :
      \E permitted \in Permits :
        /\ FilterTargetsByRbac(order, permitted) # <<>>
        /\ req' = [req EXCEPT ![r] =
                    Begun(Eligible(c.targets, ask.model), permitted,
                          c.strategy.mode = "single",
                          FilterTargetsByRbac(order, permitted))]
  BY <1>c, Zenon
<1>a. PICK permitted \in Permits :
        /\ FilterTargetsByRbac(order, permitted) # <<>>
        /\ req' = [req EXCEPT ![r] =
                    Begun(Eligible(c.targets, ask.model), permitted,
                          c.strategy.mode = "single",
                          FilterTargetsByRbac(order, permitted))]
  BY <1>d, Zenon
<1>2. PICK e, s : e = Eligible(c.targets, ask.model) /\ s = c.strategy
  OBVIOUS
<1>3. List(e) /\ \A i \in DOMAIN e : e[i].weight \in Int
  BY <1>2, EligibleTargets
<1>4. e # <<>>
  BY <1>1, <1>2
<1>5. /\ order \in Orderings(FromStrategyConfig(s), ask, e, avgs)
      /\ avgs \in [DOMAIN e -> Averages]
      /\ FilterTargetsByRbac(order, permitted) # <<>>
      /\ req' = [req EXCEPT ![r] =
                  Begun(e, permitted, s.mode = "single",
                        FilterTargetsByRbac(order, permitted))]
  BY <1>a, <1>2, Zenon
<1>b. PICK allowed : allowed = FilterTargetsByRbac(order, permitted)
  OBVIOUS
<1>6. Len(e) >= 1
  <2>1. PICK V : V = {e[i] : i \in DOMAIN e}
    OBVIOUS
  <2>2. e \in [1..Len(e) -> V] /\ Len(e) \in Nat
    BY <1>3, <2>1 DEF List
  <2>3. e \in Seq(V)
    BY <2>2, FunctionList
  <2> QED
    BY <1>4, <2>2, <2>3, EmptySeq
<1>7. avgs \in [DOMAIN e -> Nat]
  BY <1>5, FailoverAssumption
<1>9. Ordered(order, e, s.mode = "single")
  BY <1>3, <1>5, <1>6, <1>7, OrderingsOrdered
<1>8. PICK single : single = (s.mode = "single")
  OBVIOUS
<1>10. PICK q : q = Begun(e, permitted, single, allowed)
  OBVIOUS
<1>11. /\ DOMAIN q = LoopFields /\ q = [f \in LoopFields |-> q[f]]
       /\ q.pc = "attempt" /\ q.eligible = e /\ q.order = allowed
       /\ q.permitted = permitted
       /\ q.single = single /\ q.log = <<>>
  BY <1>10 DEF Begun, Idle, LoopFields
<1>12. Exhaustive(q.order, q.eligible, q.permitted, q.single)
  <2>2. Ordered(order, e, single)
    BY <1>8, <1>9, Zenon
  <2>1. Exhaustive(allowed, e, permitted, single)
    BY <1>5, <1>b, <2>2, FilterKeeps
  <2> QED
    BY <1>11, <2>1
<1>13. Len(q.order) >= 1 /\ Len(q.order) \in Nat
  BY <1>12 DEF Exhaustive, List
<1>14. PICK l : l = q.log
  OBVIOUS
<1>15. l \in Seq(Outcomes) /\ Len(l) = 0 /\ DOMAIN l = {} /\ 1..(Len(l) - 1) = {}
  BY <1>11, <1>14, EmptySeq
<1>16. Loop(q)
  <2>1. /\ q.log = <<>> /\ q.log \in Seq(Outcomes) /\ Len(q.log) = 0
        /\ DOMAIN q.log = {} /\ 1..(Len(q.log) - 1) = {}
    BY <1>11, <1>14, <1>15
  <2>2. Len(q.log) <= Len(q.order) /\ Len(q.log) < Len(q.order)
    BY <1>13, <2>1
  <2> QED
    BY <1>11, <1>12, <2>1, <2>2 DEF Loop
<1>17. req' = [req EXCEPT ![r] = q]
  BY <1>5, <1>8, <1>10, <1>b, Zenon
<1> QED
  BY <1>11, <1>16, <1>17

(* Every step keeps the loop state of every request.                       *)
LEMMA LoopsNext == Loops /\ [Next]_vars => Loops'
<1> SUFFICES ASSUME Loops, [Next]_vars PROVE Loops'
  OBVIOUS
<1> DEFINE Good(q) == /\ DOMAIN q = LoopFields
                      /\ q = [f \in LoopFields |-> q[f]]
                      /\ Loop(q)
<1>1. DOMAIN req = Requests /\ \A r \in Requests : Good(req[r])
  BY DEF Loops
<1> DEFINE Kept == /\ DOMAIN req' = Requests
                   /\ req' = [p \in Requests |-> req'[p]]
                   /\ \A p \in Requests : Good(req'[p])
<1>2. SUFFICES Kept
  BY DEF Loops, Loop
<1>3. ASSUME NEW r \in Requests, NEW q, Good(q),
             req' = [req EXCEPT ![r] = q]
      PROVE  Kept
  <2> HIDE DEF Good
  <2> QED
    BY <1>1, <1>3 DEF Loops
<1>4. ASSUME NEW r \in Requests, req[r].pc \in {"attempt", "exec"},
             NEW outcome \in Outcomes
      PROVE  Good(Advance(req[r], outcome))
  <2>1. PICK q : q = req[r]
    OBVIOUS
  <2>2. Good(q) /\ q.pc \in {"attempt", "exec"}
    BY <1>1, <1>4, <2>1
  <2>3. Good(Advance(q, outcome))
    BY <2>2, AdvanceLoop
  <2> QED
    BY <2>1, <2>3
<1>5. Good(Idle)
  BY IdleLoop
<1>6. CASE UNCHANGED vars
  <2>1. req' = req
    BY <1>6 DEF vars
  <2> HIDE DEF Good
  <2> QED
    BY <1>1, <2>1 DEF Loops
<1>7. ASSUME NEW r \in Requests, Start(r) PROVE Kept
  <2>1. PICK q : req' = [req EXCEPT ![r] = q] /\ Good(q)
    BY <1>7, StartLoop
  <2> HIDE DEF Good, Kept
  <2> QED
    BY <1>3, <2>1
<1>8. ASSUME NEW r \in Requests, Reject(r) PROVE Kept
  <2>1. req[r].pc = "attempt" /\ req' = [req EXCEPT ![r] = Advance(@, "circuit_open")]
    BY <1>8, Zenon DEF Reject
  <2>2. "circuit_open" \in Outcomes
    BY DEF Outcomes
  <2>3. Good(Advance(req[r], "circuit_open"))
    BY <1>4, <2>1, <2>2
  <2> HIDE DEF Good, Kept
  <2> QED
    BY <1>3, <2>1, <2>3
<1>9. ASSUME NEW r \in Requests, LookupFails(r) PROVE Kept
  <2>1. PICK why \in Lookups \cap LookupFailure :
          req[r].pc = "attempt" /\ req' = [req EXCEPT ![r] = Advance(@, why)]
    BY <1>9, Zenon DEF LookupFails
  <2>2. why \in Outcomes
    BY DEF Outcomes
  <2>3. Good(Advance(req[r], why))
    BY <1>4, <2>1, <2>2
  <2> HIDE DEF Good, Kept
  <2> QED
    BY <1>3, <2>1, <2>3
<1>10. ASSUME NEW r \in Requests, Complete(r) PROVE Kept
  <2>1. PICK outcome \in UpstreamOutcomes :
          req[r].pc = "exec" /\ req' = [req EXCEPT ![r] = Advance(@, outcome)]
    BY <1>10, Zenon DEF Complete
  <2>2. outcome \in Outcomes
    BY FailoverAssumption DEF Outcomes
  <2>3. Good(Advance(req[r], outcome))
    BY <1>4, <2>1, <2>2
  <2> HIDE DEF Good, Kept
  <2> QED
    BY <1>3, <2>1, <2>3
<1>11. ASSUME NEW r \in Requests, Execute(r) PROVE Kept
  <2>1. req[r].pc = "attempt" /\ req' = [req EXCEPT ![r].pc = "exec", ![r].live = TRUE]
    BY <1>11, Zenon DEF Execute
  <2>2. PICK q : q = req[r]
    OBVIOUS
  <2>a. PICK p : p = [q EXCEPT !.pc = "exec", !.live = TRUE]
    OBVIOUS
  <2>3. req' = [req EXCEPT ![r] = p]
    BY <1>1, <2>1, <2>2, <2>a DEF Loops
  <2>4. Good(q) /\ q.pc = "attempt"
    BY <1>1, <2>1, <2>2
  <2>5. Good(p)
    BY <2>a, <2>4 DEF Loop, LoopFields
  <2> HIDE DEF Good, Kept
  <2> QED
    BY <1>3, <2>3, <2>5
<1>12. ASSUME NEW r \in Requests, Disconnect(r) \/ Return(r) PROVE Kept
  <2>1. req' = [req EXCEPT ![r] = Idle]
    BY <1>12 DEF Disconnect, Return
  <2> HIDE DEF Good, Kept
  <2> QED
    BY <1>3, <1>5, <2>1
<1>13. CASE DropBreakers
  <2>1. PICK S : req' = [r \in Requests |->
                   IF req[r].pc = "exec" /\ Candidate(req[r]) \in S
                   THEN [req[r] EXCEPT !.live = FALSE] ELSE req[r]]
    BY <1>13, Zenon DEF DropBreakers
  <2>2. ASSUME NEW q, Good(q) PROVE Good([q EXCEPT !.live = FALSE])
    BY <2>2 DEF Loop, LoopFields
  <2> HIDE DEF Good
  <2>3. \A r \in Requests : req'[r] = req[r] \/ req'[r] = [req[r] EXCEPT !.live = FALSE]
    BY <2>1
  <2>4. \A r \in Requests : Good(req'[r])
    BY <1>1, <2>2, <2>3
  <2> QED
    BY <2>1, <2>4
<1>14. CASE Tick
  <2>1. req' = req
    BY <1>14 DEF Tick
  <2> HIDE DEF Good
  <2> QED
    BY <1>1, <2>1 DEF Loops
<1> HIDE DEF Kept
<1> QED
  BY <1>6, <1>7, <1>8, <1>9, <1>10, <1>11, <1>12, <1>13, <1>14 DEF Next, Step

(* The endpoints tried are as many as the candidates that have ended.      *)
LEMMA TriedOnce ==
  ASSUME NEW order, NEW n \in Nat, List(order), Distinct(order),
         n <= Len(order)
  PROVE  Cardinality({Endpoint(order[i]) : i \in 1..n}) = n
<1>1. PICK T : T = {Endpoint(order[i]) : i \in 1..n}
  OBVIOUS
<1>2. PICK f : f = [i \in 1..n |-> Endpoint(order[i])]
  OBVIOUS
<1>3. \A i \in 1..n : i \in DOMAIN order
  BY DEF List
<1>4. \A i, j \in 1..n : f[i] = f[j] => i = j
  BY <1>2, <1>3 DEF Distinct
<1>5. f \in [1..n -> T] /\ \A t \in T : \E i \in 1..n : f[i] = t
  BY <1>1, <1>2
<1>6. f \in Bijection(1..n, T)
  BY <1>4, <1>5 DEF Bijection, Injection, Surjection, IsInjective
<1>7. IsFiniteSet(1..n) /\ Cardinality(1..n) = n
  BY FS_Interval
<1> QED
  BY <1>1, <1>6, <1>7, FS_Bijection DEF ExistsBijection

(* Every reachable loop state has given up only when it must.              *)
LEMMA LoopsExhaustive == Loops => FailoverExhaustive
<1> SUFFICES ASSUME Loops, NEW r \in Requests, NEW q, q = req[r]
             PROVE  LET tried == {Endpoint(q.order[i]) : i \in DOMAIN q.log}
                    IN  /\ Cardinality(tried) = Len(q.log)
                        /\ \A i \in DOMAIN q.order :
                             q.order[i].provider \in q.permitted
                        /\ \A i \in 1..Len(q.log) - 1 : q.log[i] \notin Final
                        /\ q.pc \in {"attempt", "exec"} =>
                             \A i \in DOMAIN q.log : q.log[i] \notin Final
                        /\ q.pc = "done" =>
                             \/ q.log[Len(q.log)] \in Final
                             \/ q.single /\ tried = {Endpoint(q.eligible[1])}
                             \/ \A i \in DOMAIN q.eligible :
                                  q.eligible[i].provider \in q.permitted =>
                                    Endpoint(q.eligible[i]) \in tried
  BY Zenon DEF FailoverExhaustive, Final
<1>1. Loop(q)
  BY DEF Loops
<1>2. PICK n : n = Len(q.log) /\ n \in Nat /\ DOMAIN q.log = 1..n
  BY <1>1, LenProperties DEF Loop
<1>3. PICK tried : tried = {Endpoint(q.order[i]) : i \in DOMAIN q.log}
  OBVIOUS
<1>4. tried = {Endpoint(q.order[i]) : i \in 1..n}
  BY <1>2, <1>3
<1>5. Cardinality(tried) = n
  <2>1. CASE q.pc = "idle"
    <3>1. n = 0
      BY <1>1, <1>2, <2>1 DEF Loop
    <3>2. tried = {}
      BY <1>4, <3>1
    <3> QED
      BY <3>1, <3>2, FS_EmptySet
  <2>2. CASE q.pc # "idle"
    <3>1. Exhaustive(q.order, q.eligible, q.permitted, q.single) /\ n <= Len(q.order)
      BY <1>1, <1>2, <2>2 DEF Loop
    <3>2. PICK order : order = q.order
      OBVIOUS
    <3>3. List(order) /\ Distinct(order) /\ n <= Len(order)
      BY <3>1, <3>2 DEF Exhaustive
    <3> QED
      BY <1>2, <1>4, <3>2, <3>3, TriedOnce
  <2> QED
    BY <2>1, <2>2
<1>6. ASSUME q.pc = "done", q.log[Len(q.log)] \notin Final
      PROVE  \/ q.single /\ tried = {Endpoint(q.eligible[1])}
             \/ \A i \in DOMAIN q.eligible :
                  q.eligible[i].provider \in q.permitted =>
                    Endpoint(q.eligible[i]) \in tried
  <2>1. Exhaustive(q.order, q.eligible, q.permitted, q.single) /\ n = Len(q.order)
    BY <1>1, <1>2, <1>6 DEF Loop
  <2>2. DOMAIN q.order = 1..n /\ n >= 1
    BY <2>1 DEF Exhaustive, List
  <2>3. CASE \A i \in DOMAIN q.eligible :
               q.eligible[i].provider \in q.permitted =>
                 \E k \in DOMAIN q.order :
                   Endpoint(q.order[k]) = Endpoint(q.eligible[i])
    BY <1>4, <2>2, <2>3
  <2>4. CASE /\ q.single
             /\ \A k \in DOMAIN q.order : Endpoint(q.order[k]) = Endpoint(q.eligible[1])
    <3>1. \A t \in tried : t = Endpoint(q.eligible[1])
      BY <1>4, <2>2, <2>4
    <3>2. Endpoint(q.eligible[1]) \in tried
      <4>1. 1 \in 1..n
        BY <1>2, <2>2
      <4> QED
        BY <1>4, <2>2, <2>4, <4>1
    <3> QED
      BY <2>4, <3>1, <3>2
  <2> QED
    BY <2>1, <2>3, <2>4 DEF Exhaustive
<1>7. /\ \A i \in 1..Len(q.log) - 1 : q.log[i] \notin Final
      /\ q.pc \in {"attempt", "exec"} =>
           \A i \in DOMAIN q.log : q.log[i] \notin Final
  BY <1>1 DEF Loop
<1>8. \A i \in DOMAIN q.order : q.order[i].provider \in q.permitted
  BY <1>1 DEF Loop, Exhaustive
<1> QED
  BY <1>2, <1>3, <1>5, <1>6, <1>7, <1>8

(* with_failover gives up only when it must, in every reachable state, for *)
(* any list of targets, any strategy in force when the request started and *)
(* any averages read while others record.                                  *)
THEOREM FailoverGivesUpOnlyWhenItMust == Spec => []FailoverExhaustive
  BY LoopsInit, LoopsNext, LoopsExhaustive, PTL DEF Spec

-----------------------------------------------------------------------------
(* The breakers under failover.                                            *)

(* Every breaker of the map is a good one.                                 *)
MapGood ==
  /\ circuit_breakers = [k \in Keys |-> circuit_breakers[k]]
  /\ \A k \in Keys : GoodBreaker(circuit_breakers[k])

(* No critical section but record_failure opens a breaker.                 *)
LEMMA OnlyFailureOpens ==
  ASSUME NEW b, GoodBreaker(b), b.state # "Open"
  PROVE  /\ AfterAllow(b).state # "Open"
         /\ AfterSuccess(b).state # "Open"
         /\ Older(b).state # "Open"
         /\ NewBreaker.state # "Open"
<1>1. b.state \in {"Closed", "HalfOpen"}
  BY GoodFields, ZeroAndOne
<1>2. AfterAllow(b).state # "Open"
  BY <1>1, AllowGood
<1>3. AfterSuccess(b).state # "Open"
  BY <1>1, SuccessGood
<1>4. Older(b).state # "Open" /\ NewBreaker.state # "Open"
  BY OlderGood DEF NewBreaker
<1> QED
  BY <1>2, <1>3, <1>4

(* A request executing against this key, on the breaker in the map, sees   *)
(* an outage in this step.                                                 *)
OutageAt(t) ==
  \E r \in Requests :
    /\ req[r].pc = "exec" /\ req[r].live
    /\ Candidate(req[r]) = t
    /\ req'[r].log = Append(req[r].log, "retryable")

Opens(b, c) == b.state # "Open" /\ c.state = "Open"

(* A step that puts section(b) in the place of one breaker.                *)
LEMMA OneBreaker ==
  ASSUME NEW t, NEW b, MapGood,
         circuit_breakers' = [circuit_breakers EXCEPT ![t] = b],
         t \in Keys => /\ GoodBreaker(b)
                       /\ Opens(circuit_breakers[t], b) => OutageAt(t)
  PROVE  /\ MapGood'
         /\ \A k \in Keys : Opens(circuit_breakers[k], circuit_breakers'[k])
                              => OutageAt(k)
<1>1. /\ DOMAIN circuit_breakers' = Keys
      /\ circuit_breakers' = [k \in Keys |-> circuit_breakers'[k]]
      /\ \A k \in Keys : circuit_breakers'[k] =
                           IF k = t THEN b ELSE circuit_breakers[k]
  BY DEF MapGood
<1>2. \A k \in Keys : GoodBreaker(circuit_breakers'[k])
  <2> SUFFICES ASSUME NEW k \in Keys PROVE GoodBreaker(circuit_breakers'[k])
    OBVIOUS
  <2>1. CASE k = t
    BY <1>1, <2>1
  <2>2. CASE k # t
    BY <1>1, <2>2 DEF MapGood
  <2> QED
    BY <2>1, <2>2
<1>3. \A k \in Keys : Opens(circuit_breakers[k], circuit_breakers'[k])
                        => OutageAt(k)
  <2> SUFFICES ASSUME NEW k \in Keys,
                      Opens(circuit_breakers[k], circuit_breakers'[k])
               PROVE  OutageAt(k)
    OBVIOUS
  <2>1. CASE k = t
    BY <1>1, <2>1
  <2>2. CASE k # t
    BY <1>1, <2>2 DEF Opens
  <2> QED
    BY <2>1, <2>2
<1>4. MapGood' <=> /\ circuit_breakers' = [k \in Keys |-> circuit_breakers'[k]]
                   /\ \A k \in Keys : GoodBreaker(circuit_breakers'[k])
  BY DEF MapGood, GoodBreaker, BreakerConsistent, BreakerInner, CircuitState
<1> QED
  BY <1>1, <1>2, <1>3, <1>4

(* No step breaks a breaker, and a step that opens one reports an outage.  *)
LEMMA MapNext ==
  ASSUME Loops, MapGood, [Next]_vars
  PROVE  /\ MapGood'
         /\ \A k \in Keys : Opens(circuit_breakers[k], circuit_breakers'[k])
                              => OutageAt(k)
<1> DEFINE Kept == /\ MapGood'
                   /\ \A k \in Keys :
                        Opens(circuit_breakers[k], circuit_breakers'[k])
                          => OutageAt(k)
<1>0. MapGood' <=> /\ circuit_breakers' = [k \in Keys |-> circuit_breakers'[k]]
                   /\ \A k \in Keys : GoodBreaker(circuit_breakers'[k])
  BY DEF MapGood, GoodBreaker, BreakerConsistent, BreakerInner, CircuitState
<1>1. ASSUME circuit_breakers' = circuit_breakers PROVE Kept
  BY <1>0, <1>1 DEF MapGood, Opens
<1>2. ASSUME NEW t, circuit_breakers' = [circuit_breakers EXCEPT ![t] = AfterAllow(@)]
      PROVE  Kept
  <2>1. PICK b : b = AfterAllow(circuit_breakers[t])
    OBVIOUS
  <2>2. circuit_breakers' = [circuit_breakers EXCEPT ![t] = b]
    BY <1>2, <2>1
  <2>3. ASSUME t \in Keys
        PROVE  GoodBreaker(b) /\ ~Opens(circuit_breakers[t], b)
    <3>1. GoodBreaker(circuit_breakers[t])
      BY <2>3 DEF MapGood
    <3> QED
      BY <2>1, <3>1, AllowGood, OnlyFailureOpens DEF Opens
  <2> QED
    BY <2>2, <2>3, OneBreaker
<1>3. ASSUME NEW r \in Requests, Complete(r) PROVE Kept
  <2>1. PICK outcome \in UpstreamOutcomes :
          /\ req[r].pc = "exec"
          /\ circuit_breakers' =
               IF req[r].live
               THEN [circuit_breakers EXCEPT ![Candidate(req[r])] =
                                               Recorded(@, outcome)]
               ELSE circuit_breakers
          /\ req' = [req EXCEPT ![r] = Advance(@, outcome)]
    BY <1>3, Zenon DEF Complete
  <2>2. PICK t : t = Candidate(req[r])
    OBVIOUS
  <2>3. CASE ~req[r].live
    <3>1. circuit_breakers' = circuit_breakers
      BY <2>1, <2>3
    <3> QED
      BY <1>1, <3>1
  <2>4. CASE req[r].live
    <3>1. PICK b : b = Recorded(circuit_breakers[t], outcome)
      OBVIOUS
    <3>2. circuit_breakers' = [circuit_breakers EXCEPT ![t] = b]
      BY <2>1, <2>2, <2>4, <3>1
    <3>3. req'[r].log = Append(req[r].log, outcome)
      <4>1. PICK q : q = req[r]
        OBVIOUS
      <4>2. /\ DOMAIN q = LoopFields /\ q = [f \in LoopFields |-> q[f]]
            /\ Loop(q) /\ q.pc = "exec" /\ DOMAIN req = Requests
        BY <2>1, <4>1 DEF Loops
      <4>3. outcome \in Outcomes
        BY FailoverAssumption DEF Outcomes
      <4>4. Advance(q, outcome).log = Append(q.log, outcome)
        BY <4>2, <4>3, AdvanceLoop
      <4>5. req'[r] = Advance(q, outcome)
        BY <2>1, <4>1, <4>2
      <4> QED
        BY <4>1, <4>4, <4>5
    <3>4. ASSUME t \in Keys
          PROVE  GoodBreaker(b) /\ (Opens(circuit_breakers[t], b) => OutageAt(t))
      <4>1. GoodBreaker(circuit_breakers[t])
        BY <3>4 DEF MapGood
      <4>2. CASE outcome = "ok"
        <5>1. b = AfterSuccess(circuit_breakers[t])
          BY <3>1, <4>2 DEF Recorded
        <5> QED
          BY <4>1, <5>1, SuccessGood, OnlyFailureOpens DEF Opens
      <4>3. CASE outcome = "retryable"
        <5>1. b = AfterFailure(circuit_breakers[t])
          BY <3>1, <4>3 DEF Recorded
        <5>2. OutageAt(t)
          BY <2>1, <2>2, <2>4, <3>3, <4>3 DEF OutageAt
        <5> QED
          BY <4>1, <5>1, <5>2, FailureGood
      <4>4. CASE outcome \notin {"ok", "retryable"}
        <5>1. b = circuit_breakers[t]
          BY <3>1, <4>4 DEF Recorded
        <5> QED
          BY <4>1, <5>1 DEF Opens
      <4> QED
        BY <4>2, <4>3, <4>4
    <3> QED
      BY <3>2, <3>4, OneBreaker
  <2> QED
    BY <2>3, <2>4
<1>4. ASSUME DropBreakers PROVE Kept
  <2>1. PICK S : circuit_breakers' =
          [t \in Keys |-> IF t \in S THEN NewBreaker ELSE circuit_breakers[t]]
    BY <1>4, Zenon DEF DropBreakers
  <2>2. \A k \in Keys : /\ GoodBreaker(circuit_breakers'[k])
                        /\ ~Opens(circuit_breakers[k], circuit_breakers'[k])
    <3> SUFFICES ASSUME NEW k \in Keys
                 PROVE  /\ GoodBreaker(circuit_breakers'[k])
                        /\ ~Opens(circuit_breakers[k], circuit_breakers'[k])
      OBVIOUS
    <3>1. CASE k \in S
      <4>1. circuit_breakers'[k] = NewBreaker
        BY <2>1, <3>1
      <4> QED
        BY <4>1, NewBreakerGood DEF Opens, NewBreaker
    <3>2. CASE k \notin S
      <4>1. circuit_breakers'[k] = circuit_breakers[k]
        BY <2>1, <3>2
      <4> QED
        BY <4>1 DEF MapGood, Opens
    <3> QED
      BY <3>1, <3>2
  <2>3. circuit_breakers' = [k \in Keys |-> circuit_breakers'[k]]
    BY <2>1
  <2> QED
    BY <1>0, <2>2, <2>3
<1>5. ASSUME Tick PROVE Kept
  <2>1. circuit_breakers' = [t \in Keys |-> Older(circuit_breakers[t])]
    BY <1>5, Zenon DEF Tick
  <2>2. \A k \in Keys : /\ GoodBreaker(circuit_breakers'[k])
                        /\ ~Opens(circuit_breakers[k], circuit_breakers'[k])
    <3> SUFFICES ASSUME NEW k \in Keys
                 PROVE  /\ GoodBreaker(circuit_breakers'[k])
                        /\ ~Opens(circuit_breakers[k], circuit_breakers'[k])
      OBVIOUS
    <3>1. PICK b : b = circuit_breakers[k] /\ GoodBreaker(b)
      BY DEF MapGood
    <3>2. circuit_breakers'[k] = Older(b)
      BY <2>1, <3>1
    <3> QED
      BY <3>1, <3>2, OlderGood DEF Opens
  <2>3. circuit_breakers' = [k \in Keys |-> circuit_breakers'[k]]
    BY <2>1
  <2> QED
    BY <1>0, <2>2, <2>3
<1>6. ASSUME NEW r \in Requests,
             Reject(r) \/ LookupFails(r) \/ Execute(r)
      PROVE  Kept
  <2>1. \E t : circuit_breakers' = [circuit_breakers EXCEPT ![t] = AfterAllow(@)]
    BY <1>6, Zenon DEF Reject, LookupFails, Execute
  <2> QED
    BY <1>2, <2>1
<1>7. ASSUME NEW r \in Requests,
             Start(r) \/ Return(r) \/ Disconnect(r)
      PROVE  Kept
  <2>1. circuit_breakers' = circuit_breakers
    BY <1>7, Zenon DEF Start, Return, Disconnect
  <2> QED
    BY <1>1, <2>1
<1>8. ASSUME UNCHANGED vars PROVE Kept
  <2>1. circuit_breakers' = circuit_breakers
    BY <1>8 DEF vars
  <2> QED
    BY <1>1, <2>1
<1> HIDE DEF Kept
<1>9. Kept
  BY <1>3, <1>4, <1>5, <1>6, <1>7, <1>8 DEF Next, Step
<1> QED
  BY <1>9 DEF Kept

(* A new map holds good breakers.                                          *)
LEMMA MapInit == Init => MapGood
  BY NewBreakerGood DEF Init, MapGood

(* The counters of every breaker agree with its state however requests,    *)
(* dropped futures, config changes and time interleave on it: the breaker  *)
(* alone needs no discipline of its callers, and Failover keeps none.      *)
THEOREM FailoverBreakersConsistent == Spec => []MapGood
<1>1. Loops /\ MapGood /\ [Next]_vars => Loops' /\ MapGood'
  BY LoopsNext, MapNext
<1>2. Init => Loops /\ MapGood
  BY LoopsInit, MapInit
<1> QED
  BY <1>1, <1>2, PTL DEF Spec

(* A breaker opens only in the step in which a request executing against   *)
(* that target, on the breaker still in the map, sees an outage: never on  *)
(* a 429, an error that is not retryable, a probe refused, a dropped       *)
(* future, a breaker replaced while the request was in flight.             *)
THEOREM FailoverOpensOnlyOnOutage == Spec => OpensOnlyOnOutage
<1>1. Loops /\ MapGood /\ [Next]_vars =>
        \A t \in Keys :
          (circuit_breakers[t].state # "Open"
             /\ circuit_breakers'[t].state = "Open") =>
            \E r \in Requests :
              /\ req[r].pc = "exec" /\ req[r].live
              /\ Candidate(req[r]) = t
              /\ req'[r].log = Append(req[r].log, "retryable")
  BY MapNext, Zenon DEF Opens, OutageAt
<1>2. Spec => []Loops
  BY LoopsInit, LoopsNext, PTL DEF Spec
<1> QED
  BY <1>1, <1>2, FailoverBreakersConsistent, PTL DEF Spec, OpensOnlyOnOutage
=============================================================================
