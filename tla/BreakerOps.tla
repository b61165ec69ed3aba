----------------------------- MODULE BreakerOps -----------------------------
(***************************************************************************)
(* The critical sections of himadri-circuitbreaker as functions of the     *)
(* state behind the breaker's mutex (`BreakerInner`).  Every method of     *)
(* `CircuitBreaker` takes the mutex on entry and holds it until it         *)
(* returns, so each one is a single atomic function of `BreakerInner`.     *)
(*                                                                         *)
(* Time.  The code only ever compares now - last_failure_time with the     *)
(* recovery timeout, so a breaker carries `age`, the time since            *)
(* last_failure_time, saturated at RecoveryTimeout: `last_failure_time =   *)
(* now_millis()` is age = 0 and the test of `allow` is age >=              *)
(* RecoveryTimeout.  No clock bound is needed.                             *)
(***************************************************************************)
EXTENDS Naturals

CONSTANTS FailureThreshold,   \* CircuitBreakerConfig.failure_threshold
          RecoveryTimeout,    \* CircuitBreakerConfig.recovery_timeout, in ticks
          HalfOpenMaxCalls    \* CircuitBreakerConfig.half_open_max_calls

ASSUME BreakerConfigAssumption ==
  /\ FailureThreshold \in Nat \ {0}
  /\ RecoveryTimeout \in Nat
  /\ HalfOpenMaxCalls \in Nat \ {0}

CircuitState == {"Closed", "Open", "HalfOpen"}

BreakerInner == [state: CircuitState,
                 failure_count: 0..FailureThreshold,
                 success_count: 0..HalfOpenMaxCalls,
                 half_open_admitted: 0..HalfOpenMaxCalls,
                 age: 0..RecoveryTimeout]

(* CircuitBreaker::new.  last_failure_time starts at 0 and is not read     *)
(* before the first failure sets it; age starts saturated.                 *)
NewBreaker == [state |-> "Closed",
               failure_count |-> 0,
               success_count |-> 0,
               half_open_admitted |-> 0,
               age |-> RecoveryTimeout]

(* One tick of now_millis().                                               *)
Older(b) ==
  [b EXCEPT !.age = IF b.age < RecoveryTimeout THEN b.age + 1 ELSE b.age]

Recovered(b) == b.age >= RecoveryTimeout

(* Mutant of Allows: the half-open cap is not tested.                      *)
AllowsUncapped(b) ==
  \/ b.state = "Closed"
  \/ b.state = "Open" /\ Recovered(b)
  \/ b.state = "HalfOpen"

(* The value `allow` returns ...                                           *)
Allows(b) ==
  \/ b.state = "Closed"
  \/ b.state = "Open" /\ Recovered(b)
  \/ b.state = "HalfOpen" /\ b.half_open_admitted < HalfOpenMaxCalls

(* ... and the state it leaves: the call that finds the recovery timeout   *)
(* elapsed opens the half-open period and is its first probe.              *)
AfterAllow(b) ==
  CASE b.state = "Open" /\ Recovered(b) ->
         [b EXCEPT !.state = "HalfOpen", !.success_count = 0,
                   !.half_open_admitted = 1]
    [] b.state = "HalfOpen" /\ b.half_open_admitted < HalfOpenMaxCalls ->
         [b EXCEPT !.half_open_admitted = @ + 1]
    [] OTHER -> b

(* Mutant of AfterSuccess: `>` for `>=` in the half-open test.             *)
AfterSuccessOffByOne(b) ==
  CASE b.state = "Closed" -> [b EXCEPT !.failure_count = 0]
    [] b.state = "HalfOpen" ->
         IF b.success_count + 1 > HalfOpenMaxCalls
         THEN [b EXCEPT !.success_count = @ + 1, !.state = "Closed",
                        !.failure_count = 0]
         ELSE [b EXCEPT !.success_count = @ + 1]
    [] OTHER -> b

(* Mutant of AfterSuccess: a late success closes an open breaker.          *)
AfterSuccessClosesOpen(b) ==
  CASE b.state = "HalfOpen" /\ b.success_count + 1 < HalfOpenMaxCalls ->
         [b EXCEPT !.success_count = @ + 1]
    [] OTHER -> [b EXCEPT !.state = "Closed", !.failure_count = 0]

AfterSuccess(b) ==
  CASE b.state = "Closed" -> [b EXCEPT !.failure_count = 0]
    [] b.state = "HalfOpen" ->
         IF b.success_count + 1 >= HalfOpenMaxCalls
         THEN [b EXCEPT !.success_count = @ + 1, !.state = "Closed",
                        !.failure_count = 0]
         ELSE [b EXCEPT !.success_count = @ + 1]
    [] OTHER -> b

(* Mutant of AfterFailure: failures are counted in every state.            *)
AfterFailureAlwaysCounts(b) ==
  LET counted == [b EXCEPT !.age = 0, !.failure_count = @ + 1]
  IN  IF b.state # "Closed" \/ b.failure_count + 1 >= FailureThreshold
      THEN [counted EXCEPT !.state = "Open"]
      ELSE counted

(* Mutant of AfterFailure: a failed probe does not reopen the breaker.     *)
AfterFailureKeepsHalfOpen(b) ==
  IF b.state = "Closed"
  THEN [b EXCEPT !.age = 0, !.failure_count = @ + 1,
                 !.state = IF b.failure_count + 1 >= FailureThreshold
                           THEN "Open" ELSE "Closed"]
  ELSE [b EXCEPT !.age = 0]

(* last_failure_time moves in every state, so a failure that arrives while *)
(* the breaker is open restarts the recovery timeout.                      *)
AfterFailure(b) ==
  CASE b.state = "Closed" ->
         IF b.failure_count + 1 >= FailureThreshold
         THEN [b EXCEPT !.age = 0, !.failure_count = @ + 1, !.state = "Open"]
         ELSE [b EXCEPT !.age = 0, !.failure_count = @ + 1]
    [] b.state = "HalfOpen" -> [b EXCEPT !.age = 0, !.state = "Open"]
    [] OTHER -> [b EXCEPT !.age = 0]

(* reset() zeroes everything but last_failure_time.                        *)
AfterReset(b) == [NewBreaker EXCEPT !.age = b.age]

(* What ties the counters to the state, whatever the order of the calls: a *)
(* closed breaker has fewer failures than the threshold, a breaker that    *)
(* left Closed reached it, and a half-open breaker has admitted at least   *)
(* one probe and is short of the successes that close it.                  *)
BreakerConsistent(b) ==
  /\ b.state = "Closed" => b.failure_count < FailureThreshold
  /\ b.state # "Closed" => b.failure_count = FailureThreshold
  /\ b.state = "HalfOpen" =>
       /\ b.half_open_admitted >= 1
       /\ b.success_count < HalfOpenMaxCalls
=============================================================================
