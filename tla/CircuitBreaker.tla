--------------------------- MODULE CircuitBreaker ---------------------------
(***************************************************************************)
(* One circuit breaker shared by concurrent calls.  A call asks `allow`,   *)
(* runs against the provider for an arbitrary time and then reports a      *)
(* success, a failure, or nothing at all (CallersMayForget: the paths of   *)
(* `with_failover` that record no outcome).                                *)
(*                                                                         *)
(* call[c] is "idle", "normal" (admitted while the breaker was closed),    *)
(* "probe" (admitted in the half-open period now running) or "stale"       *)
(* (a probe of a half-open period that has ended).  probe_ok and forgotten *)
(* count how the probes of the running period ended.  The three are        *)
(* history: no guard reads more of them than "is c idle".                  *)
(***************************************************************************)
EXTENDS BreakerOps, Integers, FiniteSets

CONSTANTS Calls,              \* concurrent callers
          CallersMayForget    \* may a call end without recording an outcome?

ASSUME CallsAssumption == IsFiniteSet(Calls)
ASSUME ForgetAssumption == CallersMayForget \in BOOLEAN

VARIABLES inner, call, probe_ok, forgotten

breakerVars == <<inner, call, probe_ok, forgotten>>

BreakerInit ==
  /\ inner = NewBreaker
  /\ call = [c \in Calls |-> "idle"]
  /\ probe_ok = 0
  /\ forgotten = 0

(* The half-open period ends: its probes are no longer the breaker's.      *)
Retire(calls) ==
  [c \in Calls |-> IF calls[c] = "probe" THEN "stale" ELSE calls[c]]

Allow(c) ==
  /\ call[c] = "idle"
  /\ Allows(inner)
  /\ inner' = AfterAllow(inner)
  /\ call' = [call EXCEPT ![c] =
                IF inner.state = "Closed" THEN "normal" ELSE "probe"]
  /\ IF inner.state = "Open"
     THEN probe_ok' = 0 /\ forgotten' = 0
     ELSE UNCHANGED <<probe_ok, forgotten>>

(* `allow` returned false: the caller sees CircuitOpen, nothing changes.   *)
Rejected(c) ==
  /\ call[c] = "idle"
  /\ ~Allows(inner)
  /\ inner' = AfterAllow(inner)
  /\ UNCHANGED <<call, probe_ok, forgotten>>

(* Calls after call c ended, with the breaker going from `inner` to b.     *)
CallsAfter(c, b) ==
  LET ended == [call EXCEPT ![c] = "idle"]
  IN  IF inner.state = "HalfOpen" /\ b.state # "HalfOpen"
      THEN Retire(ended)
      ELSE ended

RecordSuccess(c) ==
  /\ call[c] # "idle"
  /\ inner' = AfterSuccess(inner)
  /\ call' = CallsAfter(c, inner')
  /\ probe_ok' = IF call[c] = "probe" THEN probe_ok + 1 ELSE probe_ok
  /\ UNCHANGED forgotten

RecordFailure(c) ==
  /\ call[c] # "idle"
  /\ inner' = AfterFailure(inner)
  /\ call' = CallsAfter(c, inner')
  /\ UNCHANGED <<probe_ok, forgotten>>

(* The call ends and records nothing.                                      *)
Forget(c) ==
  /\ CallersMayForget
  /\ call[c] # "idle"
  /\ call' = [call EXCEPT ![c] = "idle"]
  /\ forgotten' = IF call[c] = "probe" THEN forgotten + 1 ELSE forgotten
  /\ UNCHANGED <<inner, probe_ok>>

(* CircuitBreaker::reset; probes of the period it ends become stale.       *)
Reset ==
  /\ inner' = AfterReset(inner)
  /\ call' = Retire(call)
  /\ UNCHANGED <<probe_ok, forgotten>>

BreakerTick ==
  /\ ~Recovered(inner)
  /\ inner' = Older(inner)
  /\ UNCHANGED <<call, probe_ok, forgotten>>

BreakerNext ==
  \/ \E c \in Calls : Allow(c) \/ Rejected(c) \/ RecordSuccess(c)
                        \/ RecordFailure(c) \/ Forget(c)
  \/ Reset
  \/ BreakerTick

BreakerSpec == BreakerInit /\ [][BreakerNext]_breakerVars

(* The provider client has a request timeout, so an admitted call ends     *)
(* (with some outcome); new calls and resets are the environment's.        *)
Ends(c) == RecordSuccess(c) \/ RecordFailure(c) \/ Forget(c)

FairBreakerSpec == BreakerSpec /\ \A c \in Calls : WF_breakerVars(Ends(c))

-----------------------------------------------------------------------------
Probes == {c \in Calls : call[c] = "probe"}

(* The variables have the types of `BreakerInner` and of the call table.   *)
BreakerTypeOK ==
  /\ inner \in BreakerInner
  /\ call \in [Calls -> {"idle", "normal", "probe", "stale"}]
  /\ probe_ok \in Nat
  /\ forgotten \in Nat

(* The counters stay in their ranges and agree with the state after every  *)
(* interleaving of allow, record_success, record_failure and reset: in     *)
(* particular a late outcome of a call admitted in an earlier period leaves*)
(* no closed breaker at the threshold and no half-open breaker with enough *)
(* successes to close.                                                     *)
CountersConsistent == inner \in BreakerInner /\ BreakerConsistent(inner)

(* Every admission of the running half-open period is accounted for: it is *)
(* in flight, succeeded, or ended without a report.  So at most            *)
(* half_open_max_calls probes are ever in flight in one period, whatever   *)
(* calls of other periods do meanwhile (lib.rs `half_open_admitted`).      *)
AdmissionsAccounted ==
  inner.state = "HalfOpen" =>
    /\ inner.half_open_admitted = Cardinality(Probes) + probe_ok + forgotten
    /\ inner.success_count >= probe_ok

(* Outside a half-open period no call counts as a probe of it.             *)
ProbesOnlyHalfOpen == inner.state # "HalfOpen" => Probes = {}

ProbeBound == Cardinality(Probes) <= HalfOpenMaxCalls

(* A success never takes the breaker from Open to Closed: the breaker      *)
(* closes only from HalfOpen, and only by the success that completes       *)
(* half_open_max_calls of them, or by an explicit reset.                   *)
ClosesOnlyOnSuccesses ==
  [][ (inner.state # "Closed" /\ inner'.state = "Closed") =>
        \/ Reset
        \/ /\ inner.state = "HalfOpen"
           /\ inner'.success_count = HalfOpenMaxCalls
           /\ \E c \in Calls : RecordSuccess(c) ]_breakerVars

(* lib.rs, test_half_open_caps_admissions: a half-open breaker at capacity *)
(* rejects "until the outcome of the in-flight probes is known".  The only *)
(* thing that can keep it there is a probe that ends without a report: if  *)
(* all of them report, however their outcomes interleave with those of     *)
(* calls of other periods, the breaker leaves the state.                   *)
StuckOnlyIfForgotten ==
  (inner.state = "HalfOpen" /\ inner.half_open_admitted = HalfOpenMaxCalls)
    ~> (inner.state # "HalfOpen" \/ forgotten > 0)
=============================================================================
