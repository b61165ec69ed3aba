------------------------------ MODULE Failover ------------------------------
(***************************************************************************)
(* Target selection and Gateway::with_failover: concurrent requests walk   *)
(* the target lists the strategy in force orders for them, gated by one    *)
(* circuit breaker per routing key.                                        *)
(*                                                                         *)
(* eligible are the targets that serve the request's model, permitted the  *)
(* providers its caller's roles allow, single says that the strategy names *)
(* one target and no fallback.                                             *)
(*                                                                         *)
(* A request is at pc "attempt" when it is about to take the next          *)
(* candidate, at "exec" while it awaits the provider, at "done" when       *)
(* with_failover has a result.  log holds how each candidate ended, so the *)
(* candidate in hand is order[Len(log) + 1] and everything with_failover   *)
(* returns is a function of order and log.  live says that the breaker the *)
(* request cloned an Arc of is still the one in the map: a config change   *)
(* empties the map, a rebuild drops the breakers of removed endpoints, and *)
(* a request in flight then reports to a breaker nobody reads.             *)
(***************************************************************************)
EXTENDS BreakerOps, Strategy

CONSTANTS Keys,                 \* routing keys
          Requests,             \* concurrent requests
          Asked,                \* what a request may ask for
          Configs,              \* strategy sections and targets in force
          Permits,              \* sets of providers RBAC may permit a caller:
                                \* all of them when it is off or an admin calls
          Averages,             \* averages the latency store may answer
          Lookups,              \* how the client and key lookups may end
          UpstreamOutcomes,     \* how a provider call may end
          ClientsMayDisconnect  \* may a request's future be dropped?

LookupFailure == {"not_found", "key_error"}
Executed == {"ok", "rate_limited", "retryable", "fatal"}

ASSUME FailoverAssumption ==
  /\ IsFiniteSet(Requests)
  /\ Averages \subseteq Nat
  /\ Lookups \subseteq {"found"} \cup LookupFailure
  /\ UpstreamOutcomes \subseteq Executed
  /\ ClientsMayDisconnect \in BOOLEAN

(* A configuration's targets are a list, and their weights are numbers.    *)
ASSUME ConfigsAssumption ==
  \A c \in Configs :
    /\ c.targets \in Seq({c.targets[i] : i \in DOMAIN c.targets})
    /\ \A i \in DOMAIN c.targets : c.targets[i].weight \in Int

VARIABLES circuit_breakers, req

vars == <<circuit_breakers, req>>

Idle == [pc |-> "idle", eligible |-> <<>>, permitted |-> {}, single |-> FALSE,
         order |-> <<>>, log |-> <<>>, live |-> FALSE]

Init ==
  /\ circuit_breakers = [k \in Keys |-> NewBreaker]
  /\ req = [r \in Requests |-> Idle]

(* routing_key: the endpoint's id, else the provider's name.               *)
RoutingKey(t) == IF t.id = None THEN t.provider ELSE t.id

Candidate(q) == RoutingKey(q.order[Len(q.log) + 1])

(* ProviderError::retryable.                                               *)
Retryable(outcome) == outcome \in {"rate_limited", "retryable"}

(* The candidate ended: stop on a success, on an error that is not         *)
(* retryable and after the last candidate, else go on to the next one.     *)
Advance(q, outcome) ==
  LET stops == \/ outcome \in Executed /\ ~Retryable(outcome)
               \/ Len(q.log) + 1 = Len(q.order)
  IN  [q EXCEPT !.log = Append(@, outcome),
                !.live = FALSE,
                !.pc = IF stops THEN "done" ELSE "attempt"]

(* A request that has its candidates.                                      *)
Begun(eligible, permitted, single, order) ==
  [Idle EXCEPT !.pc = "attempt", !.eligible = eligible,
               !.permitted = permitted, !.single = single, !.order = order]

(* Mutant of FilterTargetsByRbac: the strategy's first choice is not       *)
(* checked.                                                                *)
FilterTargetsAfterFirst(order, permitted) ==
  Sublist(order, {i \in DOMAIN order :
                    i = 1 \/ order[i].provider \in permitted})

(* The targets of the order whose provider the caller's roles permit, in   *)
(* their order.                                                            *)
FilterTargetsByRbac(order, permitted) ==
  Sublist(order, {i \in DOMAIN order : order[i].provider \in permitted})

(* select_targets under whatever configuration is in force, then the       *)
(* beginning of with_failover.  No target for the model is a 404, none the *)
(* roles permit a 403.  The grants come from a later read of the           *)
(* configuration than strategy and targets, so they are chosen apart.      *)
Start(r) ==
  /\ req[r].pc = "idle"
  /\ \E ask \in Asked, c \in Configs :
       LET eligible == Eligible(c.targets, ask.model)
       IN  /\ eligible # <<>>
           /\ \E avgs \in [DOMAIN eligible -> Averages] :
              \E order \in Orderings(FromStrategyConfig(c.strategy), ask,
                                     eligible, avgs) :
              \E permitted \in Permits :
                LET allowed == FilterTargetsByRbac(order, permitted)
                IN  /\ allowed # <<>>
                    /\ req' = [req EXCEPT ![r] =
                                 Begun(eligible, permitted,
                                       c.strategy.mode = "single", allowed)]
  /\ UNCHANGED circuit_breakers

(* Mutant of Reject: the loop waits for the breaker to admit the candidate.*)
RejectWaits(r) ==
  /\ req[r].pc = "attempt"
  /\ LET t == Candidate(req[r]) IN
       /\ ~Allows(circuit_breakers[t])
       /\ circuit_breakers' =
            [circuit_breakers EXCEPT ![t] = AfterAllow(@)]
  /\ UNCHANGED req

(* The breaker refuses the candidate.                                      *)
Reject(r) ==
  /\ req[r].pc = "attempt"
  /\ LET t == Candidate(req[r]) IN
       /\ ~Allows(circuit_breakers[t])
       /\ circuit_breakers' =
            [circuit_breakers EXCEPT ![t] = AfterAllow(@)]
  /\ req' = [req EXCEPT ![r] = Advance(@, "circuit_open")]

(* The breaker admits the call, then the client or key lookup fails: the   *)
(* admission is spent and no outcome is recorded.                          *)
LookupFails(r) ==
  /\ req[r].pc = "attempt"
  /\ \E why \in Lookups \cap LookupFailure :
       req' = [req EXCEPT ![r] = Advance(@, why)]
  /\ LET t == Candidate(req[r]) IN
       /\ Allows(circuit_breakers[t])
       /\ circuit_breakers' =
            [circuit_breakers EXCEPT ![t] = AfterAllow(@)]

Execute(r) ==
  /\ req[r].pc = "attempt"
  /\ "found" \in Lookups
  /\ LET t == Candidate(req[r]) IN
       /\ Allows(circuit_breakers[t])
       /\ circuit_breakers' =
            [circuit_breakers EXCEPT ![t] = AfterAllow(@)]
  /\ req' = [req EXCEPT ![r].pc = "exec", ![r].live = TRUE]

(* Mutant of Recorded: a 429 counts as a failure of the provider.          *)
RecordedWith429(b, outcome) ==
  CASE outcome = "ok" -> AfterSuccess(b)
    [] Retryable(outcome) -> AfterFailure(b)
    [] OTHER -> b

(* What the attempt's result does to the breaker: a 429 and an error that  *)
(* is not retryable record nothing.                                        *)
Recorded(b, outcome) ==
  CASE outcome = "ok" -> AfterSuccess(b)
    [] outcome = "retryable" -> AfterFailure(b)
    [] OTHER -> b

Complete(r) ==
  /\ req[r].pc = "exec"
  /\ \E outcome \in UpstreamOutcomes :
       /\ circuit_breakers' =
            IF req[r].live
            THEN [circuit_breakers EXCEPT ![Candidate(req[r])] =
                                            Recorded(@, outcome)]
            ELSE circuit_breakers
       /\ req' = [req EXCEPT ![r] = Advance(@, outcome)]

(* The client disconnects: the future awaiting the provider is dropped.    *)
Disconnect(r) ==
  /\ ClientsMayDisconnect
  /\ req[r].pc = "exec"
  /\ req' = [req EXCEPT ![r] = Idle]
  /\ UNCHANGED circuit_breakers

(* with_failover returns to route / route_stream.                          *)
Return(r) ==
  /\ req[r].pc = "done"
  /\ req' = [req EXCEPT ![r] = Idle]
  /\ UNCHANGED circuit_breakers

(* apply_config clears the breaker map; a rebuild retains only the         *)
(* breakers of active endpoints.  The next request to need one makes a     *)
(* new breaker.                                                            *)
DropBreakers ==
  \E S \in SUBSET Keys \ {{}} :
    /\ circuit_breakers' =
         [t \in Keys |-> IF t \in S THEN NewBreaker
                                       ELSE circuit_breakers[t]]
    /\ req' = [r \in Requests |->
                 IF req[r].pc = "exec" /\ Candidate(req[r]) \in S
                 THEN [req[r] EXCEPT !.live = FALSE] ELSE req[r]]

Tick ==
  /\ \E t \in Keys : ~Recovered(circuit_breakers[t])
  /\ circuit_breakers' = [t \in Keys |-> Older(circuit_breakers[t])]
  /\ UNCHANGED req

Step(r) == Reject(r) \/ LookupFails(r) \/ Execute(r) \/ Complete(r)
             \/ Return(r)

Next ==
  \/ \E r \in Requests : Start(r) \/ Step(r) \/ Disconnect(r)
  \/ DropBreakers
  \/ Tick

Spec == Init /\ [][Next]_vars

(* The runtime polls every request, and a provider call ends at the latest *)
(* at the client's request timeout; arrivals, disconnects and config       *)
(* changes are the environment's.                                          *)
FairSpec == Spec /\ \A r \in Requests : WF_vars(Step(r))

-----------------------------------------------------------------------------
Outcomes == {"circuit_open"} \cup LookupFailure \cup Executed

(* Types of the breaker map and of the requests' loop state.               *)
TypeOK ==
  /\ circuit_breakers \in [Keys -> BreakerInner]
  /\ \A r \in Requests :
       /\ req[r].pc \in {"idle", "attempt", "exec", "done"}
       /\ \A i \in DOMAIN req[r].order : RoutingKey(req[r].order[i]) \in Keys
       /\ req[r].log \in Seq(Outcomes)
       /\ req[r].live \in BOOLEAN
       /\ req[r].live => req[r].pc = "exec"

(* with_failover gives up only when it must, whatever the strategy: a      *)
(* request that ends without a success or an error that is not retryable   *)
(* has put every endpoint that serves its model and that its caller's      *)
(* roles permit to its breaker (one only under the single strategy).       *)
(* No endpoint of another provider is tried, also where a rule or a        *)
(* variant puts one first, none is tried twice, and no candidate before    *)
(* the last ended a request: no second call after a success.               *)
FailoverExhaustive ==
  \A r \in Requests :
    LET q == req[r]
        final == {"ok", "fatal"}
        tried == {Endpoint(q.order[i]) : i \in DOMAIN q.log}
    IN  /\ Cardinality(tried) = Len(q.log)
        /\ \A i \in DOMAIN q.order : q.order[i].provider \in q.permitted
        /\ \A i \in 1..Len(q.log) - 1 : q.log[i] \notin final
        /\ q.pc \in {"attempt", "exec"} =>
             \A i \in DOMAIN q.log : q.log[i] \notin final
        /\ q.pc = "done" =>
             \/ q.log[Len(q.log)] \in final
             \/ q.single /\ tried = {Endpoint(q.eligible[1])}
             \/ \A i \in DOMAIN q.eligible :
                  q.eligible[i].provider \in q.permitted =>
                    Endpoint(q.eligible[i]) \in tried

(* route.rs: "A 429 means 'slow down', not 'the provider is down' -        *)
(* opening the circuit on it would turn a soft limit into a full outage".  *)
(* A breaker opens only in the step in which a request executing against   *)
(* that very target, on that very breaker, sees an outage error.           *)
OpensOnlyOnOutage ==
  [][ \A t \in Keys :
        (circuit_breakers[t].state # "Open"
           /\ circuit_breakers'[t].state = "Open") =>
          \E r \in Requests :
            /\ req[r].pc = "exec" /\ req[r].live
            /\ Candidate(req[r]) = t
            /\ req'[r].log = Append(req[r].log, "retryable") ]_vars

(* Every request that starts gets an answer, however the breakers behave.  *)
RequestsFinish ==
  \A r \in Requests : req[r].pc = "attempt" ~> req[r].pc \in {"done", "idle"}

(* himadri-circuitbreaker test_half_open_caps_admissions: a half-open      *)
(* breaker at capacity rejects "until the outcome of the in-flight probes  *)
(* is known".                                                              *)
HalfOpenResolves ==
  \A t \in Keys :
    (/\ circuit_breakers[t].state = "HalfOpen"
     /\ circuit_breakers[t].half_open_admitted = HalfOpenMaxCalls)
      ~> circuit_breakers[t].state # "HalfOpen"
=============================================================================
