# himadri: TLA+ models, checks and proofs

himadri is an OpenAI-compatible AI gateway in Rust (tokio, axum). A request is
authenticated, checked against policies and plugins, given an ordered list of
targets by a strategy, and sent to the first target that answers, gated by
circuit breakers. Administrators change models, endpoints and configuration while
requests are in flight. Almost all state is shared between concurrent tasks, and
most of what can go wrong is an order of steps no test runs. That is what the
modules here are about.

Source paths below are relative to `src/crates/`.

## Inventory

| Component | State | Operations | What is hard | What makes it correct |
|---|---|---|---|---|
| Circuit breaker (`himadri-circuitbreaker`) | state, failure and success counters, half-open admissions, last failure time, behind a mutex | `allow`, `record_success`, `record_failure`, `reset` | calls admitted in one period report in another, or never | counters agree with the state; bounded probes; closes only by successes; not stuck half-open |
| Failover (`himadri/gateway/route.rs` `with_failover`, `strategy.rs`) | loop position, breaker map, strategy in force | order the targets, try a candidate, classify the outcome, record it, go on or stop | errors that are not recorded, dropped futures, breakers replaced under a request, rule targets among the configured ones | every endpoint tried once before giving up, none after a success, breakers open only on outages, requests end |
| Token bucket (`himadri-ratelimit/token_bucket.rs`) | two atomics | `allow_n`, `refill` | lock-free races, delayed threads, rounding | no double credit; admissions within burst plus rate |
| Fixed-window limiter (`himadri-plugins/rate_limit.rs`) | shard map of packed (window, count) atomics | `allow`, lazy create, evict, `reset`, `reset_all` | window computed before the update, double-checked creation | the limit, the store bound, no lost counter |
| Routing (`himadri/gateway/rebuild.rs`, `config.rs`, `handlers.rs`) | config, targets, clients, keys, breakers, config history; two SQL tables | endpoint and model mutations, rebuild, reload, rollback, re-assertion | five maps replaced at five moments; calls that overlap or are cut off; failed reads; old documents | routing follows the tables; targets resolve; nothing leaks; history is faithful |
| Gateway locks (`gateway/mod.rs`, `proxy.rs`) | four tokio `RwLock`s, one `DashMap` | every handler's lock operations | lock order, guards over `await`, blocked threads | consistent reads; every call ends, or it is known why not |
| API key store (`himadri-admin/store.rs`, `handlers.rs`) | keys by id and by hash; one SQL table | create, validate, update, revoke, rotate, delete | rotation is several map operations; read-modify-write; legacy plaintext rows; a statement that fails after another went through | a revoked key stays revoked, a withdrawn secret never comes back, uses are counted |
| Model and endpoint stores (`provider_store.rs`, `postgres_provider_store.rs`, `crypto.rs`, `handlers.rs`) | two tables, keys encrypted at rest | create, update, toggle, delete of models and endpoints, the catalogue | cascades in two statements, read-merge-write, restarts under another encryption key | no orphans, keys survive, what an operator said holds, the catalogue offers what a rebuild would serve |
| Authentication (`himadri-auth`, `combined_auth.rs`, `middleware.rs`, `main.rs`) | login secret, copy of the identity provider's keys | bypass, login, OIDC token, master key, stored key; background refresh | several authenticators tried in turn, key rotation, restarts | admin only by right, required roles held, refusals audited, rotation followed |
| Access control (`rbac.rs`, `scope.rs`, `policy.rs`) | none of its own | scope chain, model lists, budgets, role patterns, target filter | scopes that add up, greedy patterns | a team narrows its organisation, roles grant what they say |
| Request pipeline (`gateway/route.rs`, `stream.rs`, `policy.rs`, `audit.rs`, `himadri-plugin`) | per-request context, configuration in force | prologue, plugins, cache, selection, call, response guardrails, streaming, accounting | configuration changes and disconnects at every await | personal data withheld both ways, accounted exactly once |
| Guardrails (`pii_guardrail.rs`, `pii_engine.rs`, `word_filter.rs`, `max_token.rs`) | settings by scope | scan, redact, block, observe | settings resolved at each use, engines that fail or panic | the governing section decides |
| Budget, cache, limiter registry, usage, audit (`himadri-plugins`, `himadri-ratelimit/lib.rs`, `himadri-admin`, `himadri-observability`) | spend, cached answers, buckets by scope, rings, a bounded queue | check, charge, look up, insert, evict, drop | check and charge are separate; full stores | bounded overspend, every audit event accounted for, statistics that add up |
| Providers (`himadri-provider`) | one HTTP client per provider type, a stream's buffer | build a body, call, parse, stream | chunks cut anywhere, stalls, deadlines, vendors' own formats | what a client sees does not depend on the cuts; streams metered; calls end; nothing lost in translation |
| Metrics, tracing, web UI, load-test sink, deployment | none that others depend on | I/O and formatting | - | - |

Interactions: handlers call the stores and then `rebuild_targets`, which replaces
the gateway's maps; requests read those maps one lookup at a time and hold `Arc`s
to breakers across awaits; config changes clear the breaker map under them;
plugins and breakers are shared by all requests; the lock order
strategy, config, targets is the only thing that keeps reloads, rebuilds and
requests from waiting on one another.

## Modules

| Module | Models | Kind |
|---|---|---|
| `BreakerOps` | the methods of `CircuitBreaker` as functions of `BreakerInner` | operators |
| `CircuitBreaker` | one breaker and concurrent calls that report late, or never | state machine |
| `Strategy` | `select_ordered`: the lists each mode may return | operators |
| `Failover` | target selection and `with_failover` for concurrent requests | composes `BreakerOps` and `Strategy` |
| `RateContract` | what a token bucket promises | abstract specification |
| `TokenBucket` | `allow_n` and `refill`, one action per atomic operation | implements `RateContract` |
| `FixedWindow` | one shard of `RateLimiterStore` | state machine |
| `Routing` | admin calls, rebuild, reload, rollback and requests | state machine |
| `GatewayLocks` | lock operations of the handlers, worker threads | state machine |
| `KeyContract` | what validating a key promises | abstract specification |
| `ApiKeys` | the three backends of the key store against validations | implements `KeyContract` |
| `ProviderRegistry` | which endpoints can be built and what they then are | operators |
| `EndpointStore` | the model and endpoint tables, encryption at rest, restarts | uses `ProviderRegistry` |
| `Policy` | scopes, request policies, roles and their patterns | operators |
| `Access` | startup, tokens, middleware, login, key refresh, admin routes | uses `Policy` |
| `Guardrails` | which PII section governs, what a scan rewrites or refuses | uses `Policy` |
| `Stores` | spend, cache, buckets, usage ring, request log, audit queue | uses `Policy` |
| `GatewayErrors` | provider errors to gateway errors to statuses | operators |
| `Pipeline` | chat, streamed, legacy and embedding requests end to end | composes `Guardrails`, `Stores`, `GatewayErrors` |
| `ProviderWire` | bodies, answers and event streams of the three vendor formats | uses `ProviderRegistry` |
| `ProviderCall` | calls, HTTP client pool, network and timeouts | composes `ProviderWire`, `GatewayErrors` |
| `BreakerProofs` | theorems about `CircuitBreaker` and `Failover` | proofs |
| `LimiterProofs` | theorems about `TokenBucket` and `FixedWindow` | proofs |
| `RoutingProofs` | theorems about `Routing` and `GatewayLocks` | proofs |
| `EndpointStoreProofs`, `ApiKeysProofs`, `AccessProofs`, `PipelineProofs`, `ProviderCallProofs` | theorems about the module of that name | proofs |
| `MC*` | instances for TLC | model checking |

### How state and actions correspond to the code

**BreakerOps, CircuitBreaker.** Every method of `CircuitBreaker` runs under one
mutex, so each is one function from state to state: `Allows` and `AfterAllow` are
the result and the effect of `allow`. Time is `age`, the ticks since the last
failure, capped at the recovery timeout, since the code compares only "elapsed >=
timeout". `CircuitBreaker` adds callers; `call`, `probe_ok` and `forgotten` are
history variables that remember which half-open period a call was admitted in and
how the probes of the running one ended. The code keeps no such information.

**Strategy, Failover.** `Orderings` is the set of lists `select_ordered` may return
for a built strategy, a request, its eligible targets and the averages read from
the latency store; a random draw or an average that changes between two reads is a
member of the set. `Start` is `select_targets` under any configuration followed by
`filter_targets_by_rbac`: `permitted` holds the providers the caller's roles allow,
and a request whose list becomes empty is refused before the loop. One request is then the loop of `with_failover`. `log` lists how each candidate ended and the
candidate in hand follows from its length. `Reject` is an open breaker,
`LookupFails` a missing client or key after the admission was spent,
`Execute`/`Complete` the awaited provider call, `Disconnect` the dropped future.
`Recorded` is the code's match on the result: success and outage errors are
recorded, a 429 and other errors are not. `DropBreakers` stands for `apply_config`
and the rebuild, which replace breakers while requests hold the old ones (`live`).

**TokenBucket.** The two atomics are `tokens` and `last_refill`. A call reads the
clock, loads `last_refill`, compare-exchanges, credits, consumes; other threads
and the clock may move between any two of these. `fetch_update` loops are one atomic update
(their last iteration). `won` and `admitted` are history.

**FixedWindow.** Time is the window index. On the fast path the window is computed
(`Found`) and the atomic updated (`Update`) under the shard's read lock; a miss
(`Missing`) releases it and takes the write lock, where the key is looked up again
(`SlowFound`, `SlowCreate`). The write lock excludes readers: `NoReaders`.
`granted` counts the calls a window admitted and `setbacks` how often a late caller
set the key's counter back to an earlier window. Both are history.

**Routing.** `models` and `rows` are the admin tables; an endpoint row carries a
version that stands for its contents (base URL and key). `providers` and
`provider_keys` hold the version their client and key were taken from.
`config.targets` and `targets` are one variable, since the code writes both under
both locks. An admin call is a record with a program counter: the table write, two
reads, the ownership test, then the steps of `rebuild_targets_from_db` in their
order (clients, keys, retain, swap, breakers, prune). Reload and rollback apply,
clear the breakers, record, and go on to the re-assertion, which is a rebuild with
`OnEmpty::KeepPrevious`. A reload brings any of `Documents`, one that was saved while
endpoints routed included. Nothing serialises the calls: two may be anywhere in these
steps, and `HangUp` drops a call at an await, with what it has done so far. A request
selects a target, looks up the client, then the key. The code remembers nothing of
this, so history variables do: `stale` (two calls overlapped, one was cut off, a read
failed, or none of it since), `saved` (the live targets came with a document),
`unsure` (two documents overlapped or one was never recorded) and `late` (breakers
made for a target that had stopped routing). The properties name them as the exact
exceptions.

**GatewayLocks.** A handler is the sequence of its lock operations. tokio's locks
are FIFO queues (external, modelled from their documented fairness as the code
uses them). A `DashMap` write blocks its worker thread while a reference is out,
and `proxy` keeps one over `send().await`. A task runs only while a worker thread is
free, and with as many rebuilds as threads none may be. All of `providers` is one
shard, the worst case.

**ApiKeys, KeyContract.** `keys` is the table (or the memory store's first map) and
`keys_by_key` the memory store's index. An admin call takes one step per map
operation or SQL statement; a statement may fail where the code handles it. A
secret is a number, its hash the pair "hashed, number"; a row from before hashing
holds the plain one, and the first match upgrades it. `shown`, `unread`, `accepted`, `revoked`
and `overlapped` are history. Operators overlap: `Copied` says that a call has read a
row and will write it back, and a revocation made meanwhile may be undone; on the
memory store two rotations or deletes of one key (`overlapped`) may leave it two
secrets. Seen through the refinement mapping, the store is
`KeyContract`'s: each secret has at most one holder, a key one secret unless it is
`overlapped`, a withdrawn secret never comes
back, and a validation accepts only a secret that was valid at some moment of the
call.

**EndpointStore.** `models` and `rows` are the two tables, `cipher` the running
process's `PROVIDER_ENCRYPTION_KEY`. An admin call is its statements, one step each:
read, write, on SQLite the cascade in two. It ends with the last of them: the rebuild
that follows and whether routing then agrees with the tables are `Routing`'s subject,
and here the catalogue is compared with what a rebuild would serve. `Abandon` is a
failed statement or a client that hangs up: what was written stays. `Restart` ends
every call and starts the process under any key. `meant`, `given` and `raced` are
history: what an operator last said, and which rows two overlapping calls touched.

**Policy, Access.** A role pattern is a sequence of characters with stars, and
`PatternMatches` the code's greedy search, checked against the meaning `GlobMeans`.
`Access` starts the process in any environment and takes a request through
`combined_auth`: bypass, login token, identity-provider token, then master key or
stored key. A token is a record of what verification finds out (signed, fresh, for
us, its key id), the cryptography being a library's. `FetchJwks` and `StoreJwks`
are the background refresh, `RotateKey` is the identity provider's. An API request
reads the configuration twice, for the model check (`ApiRoute`) and for the target
filter (`SelectTargets`), and it may change in between.

**Guardrails, Stores, Pipeline.** A text is the set of its words and an entity a word
the engine recognises with a confidence. Each `pc` of `Pipeline` is an await of
`route`, `route_stream` or `embed`; what lies between two awaits is one action, the
trailing accounting included. Settings are resolved from the configuration in
force when a guardrail runs, as in the code, so `ApplyConfig` between scan, call and
response check matters. Whether the engine can panic
follows the size of the text scanned, the request's or the answer's. A stream's
recorder fires at its end or when it is dropped. `peak` is history: how many requests
of a key were at most between the budget check and the charge. `Stores`
has the spend store (a bounded LRU list with a ceiling), the response cache, the buckets
per scope without their refill (that is `TokenBucket`), the usage ring and request
log with their statistics, and the audit queue with its drop counter; an event that cannot be
serialised or written is `lost`, which the code does not count.

**ProviderWire, ProviderCall.** A message is a role, a content (text, parts or none),
its tool calls and the call it answers. OpenAI's body sends it as it came, the two
others drop the tool calls and the id (`Serialized`). A vendor's stream is a sequence
of tokens (pieces of lines, line ends, characters of two bytes) that `Chunk` hands over
cut anywhere. `TakeTokens` is the parser of `sse_events`. What it should have found
is stated apart from it: `Received` and `TornBy` say which text arrived and which
characters a cut tore, `TextIn`, `ToolsIn` and `MeaningOf` what that text says.
`PoolGet`/`PoolInsert` are the two halves of the client pool's lookup; `Tick` counts a
call's total time and the gap since its last chunk against the two timeouts.

## Runs

Every property of a passing run has a mutant in `PROJECT.json`, and a property that
joins several named parts has one for each part: a plausible bug in one mapped
definition that makes TLC find that property violated.

| Run | Instance | Shows |
|---|---|---|
| `breaker` | 3 calls, thresholds 2/2/2 | counters consistent, admissions accounted, closing only by enough successes, and half-open for ever only if a probe never reported |
| `failover` | 2 requests, an endpoint and a configured target of two providers and an endpoint that does not serve the model, roles that deny a provider or none, every strategy mode, thresholds 1/1/1 | every endpoint the strategy finds and the roles permit is tried exactly once before a request gives up and none after a success, breakers open only by outages of their own endpoint, requests end |
| `token_bucket` | 2 threads, rate 2/3, capacity 2, 7 ticks | no double credit, credit within the rate, refinement of `RateContract` |
| `fixed_window` | 3 threads, 2 keys, shard of 1, 3 windows | a window admits more than the limit only after a late caller set its counter back, at most the limit once more per setback; no counter overwritten by a racing creator |
| `routing` | 1 model, 2 endpoints (one keyed, one keyless), 2 admin calls that may overlap and a third by itself, 1 request, failing reads, hang-ups, documents of the environment or saved while an endpoint routed | when tables, targets, clients, keys and breakers agree after the calls; every moment at which a live endpoint lacks client or key; when the newest version is the live document; environment targets are wiped only in an overlap |
| `locks` | chat, passthrough, mutation and reload on 2 worker threads | consistent selection; every call ends, except where rebuilds have blocked every thread on the reference a passthrough holds, or ever new references outrun one rebuild |
| `endpoints` | 1 model, 1 endpoint, 2 admin calls at a time, 4 in all, 2 starts, 2 encryption keys or none, both backends | no orphans, only buildable rows are enabled and the catalogue offers what a rebuild would serve; an operator's last word holds; keys survive restarts as they were given |
| `api_keys` | 1 key id, 2 overlapping admins against 1 validation, 3 secrets, each backend, failing statements | rows are honest about secret and uses; a revocation holds unless a call that had copied the row writes it back; refinement of `KeyContract` |
| `access` | every environment, token and claim set of the instance, 2 starts, 2 signing keys | entry and admin by right except where a failed discovery left the door open, refusals on record, scopes and roles grant what they say, rotation is followed |
| `pipeline` | 2 requests of any kind and principal, 1 configuration change or log deletion, streams of 1 chunk, usage ring of 2, request log and audit queue of 1 | personal data withheld from provider and, unless the engine panics, from client; one usage record per accountable request; overspend of at most what was unpaid at once; every audit event queued, written, lost in writing or counted as dropped; statistics tell what the rings hold |
| `providers` | 2 calls of the three formats, lines of at most 7 tokens, deadline of 3 ticks | conversations, streams and counts reach the other side however the network cuts them, tool calls and torn characters as the property says; the buffer is bounded; a stream is not cut off while sending; answers and refusals keep their meaning; calls end |
| `failover_stuck` | as `failover` | **violated**: a half-open probe that ends in a 429, a client error, a failed lookup or a disconnect is never recorded; after `half_open_max_calls` of them the breaker rejects for ever, where a test of the breaker says it waits for the outcome of the probes in flight |

Ranges and shapes are proved with the inductive invariants (below); the breaker's
ranges are part of `CountersConsistent`. The modules' `TypeOK`s document their state
and are not part of the runs.

### Bounds

Two or three actors suffice: each counterexample found while building the models
needed at most three, and the properties speak of pairs (two winners, two
creators, a request and a rebuild). Thresholds of two in `breaker` tell "first"
from "last"; `failover` uses one so that every breaker state is reached with two
requests, and one kind of lookup failure, since both have the same effect; its
lists of two are the shortest with a next candidate. A capacity of two with costs 1
and 2, and a rate that does not divide the unit, make rounding and an almost empty
bucket happen. Three windows let a counter leave a window and come back. In `routing` two calls that may overlap
reach every exception the properties name, and a third that starts when nothing else
runs shows what catches up again; the tables start empty or with endpoints that route,
so that no call is spent on setting up; of two endpoints a rebuild can drop one and keep the other. Two worker threads
are as many as the rebuilds of `locks`, so that both can block. Three secrets let a key
be created and rotated by two operators at once. Four endpoint calls with two at a time
let one overlap each of the others, and two starts bring every pair
of encryption keys. In `pipeline` one change falls at any await of two requests; a usage
ring of two holds sums over two keys and an order, a log and a queue of one overflow
with the second request, and two requests of one key spend one after the other or at
once, which the bound tells apart. In `providers` a
line limit of seven tokens is shorter than the longest line sent and longer than the others,
and a deadline of three ticks is shorter than the longest stream.

Every bound that is not in the code (`MaxOps`, `MaxRacing`, `MaxTime`, `MaxWindow`,
`MaxReloads`, `MaxCalls`, `MaxBoots`, `MaxSecrets`, `MaxUses`, `MaxKid`,
`MaxChanges`, `MaxChunks`, `MaxElapsed`) is a guard of the action that would pass it. Deadlock is
checked except in `routing`, `endpoints`, `api_keys`, `access` and `providers`,
where the bounded calls come to an end and nothing is left to do, and in `locks`, where
the code can really stop (`Exhausted`, a finding). `token_bucket`, `fixed_window`,
`routing`, `endpoints`, `api_keys` and `pipeline` use symmetry of interchangeable actors;
none of them checks liveness.

### Fairness

- `CircuitBreaker`: a call that was admitted ends (weak fairness of its ending,
  with whatever outcome), because the HTTP client has a request timeout. New
  calls, resets and the clock are not fair.
- `Failover`: weak fairness of each request's steps: the runtime polls it and the
  provider call ends at the latest at its timeout. Arrivals, disconnects and
  config changes are the environment's.
- `GatewayLocks`: weak fairness of each task's next step (`Runs`): worker threads poll
  what is runnable while one of them is free, and the upstream answers or a timeout
  fires. Nothing is assumed of a `DashMap` write that finds a reference out each time it
  looks, so `CallsEnd` names the two ways a call may fail to end.
- `ProviderCall`: weak fairness of the pool's two steps, of the clock and of a
  timer that has expired. The vendor and the network owe nothing.
- `Access`: weak fairness of the background refresh, which the code runs on an
  interval; the identity provider's rotations, restarts and requests are not fair.
- `ApiKeys`, `EndpointStore`, `Pipeline`, `Routing`, `FixedWindow` state safety only.

## Proofs

Eight modules hold theorems, checked by TLAPS with no assumption beyond the named
`ASSUME`s of the modules, all of which TLC evaluates in the runs. They hold for
any number of calls, threads, keys, windows, admins, endpoints, restarts, requests,
chunks and tasks and every threshold, rate, capacity, strategy, configuration, document and pattern. No theorem has a further hypothesis:
where the code keeps a promise only under conditions, the conditions are in the
property, and its run and its theorem state the same formula. Each
inductive invariant was checked by TLC as an invariant of the run's instance before
it was proved.

- `BreakerProofs`, one breaker: `BreakerStaysTyped`, `BreakerCountersConsistent`,
  `BreakerAdmissionsAccounted`, `BreakerProbeBound`,
  `BreakerClosesOnlyOnSuccesses`. The inductive invariant `BreakerInv` joins the
  first three with "no probe outside a half-open period". The types alone are not
  inductive: that `failure_count` stays in range follows from its relation to the
  state. One lemma per method of the breaker (`AllowGood`, `SuccessGood`,
  `FailureGood`, `ResetGood`, `OlderGood`) shows that it keeps the counters
  consistent; two lemmas on cardinality follow the set of probes.
- `BreakerProofs`, failover: `FailoverGivesUpOnlyWhenItMust`,
  `FailoverBreakersConsistent`, `FailoverOpensOnlyOnOutage`. The first has two parts.
  About the operators: whatever the strategy, the list `select_ordered` returns names
  no endpoint twice and covers every eligible endpoint (`Exhaustive`; only the first
  under the single mode), and filtering by role keeps of both what the caller's roles
  permit. The lemmas behind it say what a sublist, `dedup_targets`, a
  sort and a target put first keep of a list. About the loop: `Loops` says that the log
  is a prefix of that list without a final outcome before its end, and that a request
  is done only by a final outcome or at the end of the list. The other two rest on
  `MapGood` (every breaker of the map has consistent counters, by the same lemmas per
  method) and on `OnlyFailureOpens`: no other method opens a breaker.
- `LimiterProofs`, token bucket: `BucketTypeOK`, `BucketNoDoubleCredit`,
  `BucketCreditWithinRate`, `BucketRefillMonotone`, and the refinement
  `BucketImplementsContract`. The strengthening `ThreadsBehindClock` says that a
  thread about to compare-exchange holds a clock reading ahead of a `last_refill` it
  really saw, with a token due. With it a winner's interval starts where the last one
  ended. `WinnerKeepsRate` carries the arithmetic: a credit of at least one token is
  at least half of what was earned, since less than one is lost. For the refinement
  `AdmittedEarned` says that admissions and tokens left are paid by the capacity and
  a set of ticks before `last_refill` that is disjoint from the spans of the threads
  still about to add their credit, so that a consumption is a step the contract
  allows and everything else stutters.
- `LimiterProofs`, fixed window: `WindowStaysTyped`, `WindowLimitUnlessSetBack`,
  `WindowNoLostConsumption`. The invariant bounds what each window of a key has
  admitted by the setbacks so far and, for the counter's own, the count it shows
  (`RunBound`). The proof
  goes key by key (`KeyOK`): `ConsumeOK` for an update from any window, `CreateOK` for
  eviction and creation; that a racing creator overwrites nothing follows from the
  second look under the write lock.
- `EndpointStoreProofs`: `KeysSurvive`, `RowsStaySound`, `LastWordStands`, for any
  number of overlapping calls and restarts. `Typed` gives the shapes of rows and calls;
  `KeyKept` says how each stored key was encrypted; `Sound` adds what a call between its
  read and its write still knows of the row (`Fresh`: the row is as it was read, or the
  call and another one raced on it). `StoredKeyAssumption` says that keys in requests
  and legacy rows are stored as some process would have stored them.
- `ApiKeysProofs`: `RowsStayHonest`, `RevocationLasts` and `StoreImplementsContract`
  (the refinement of `KeyContract`), for any number of operators.
  `Shaped` types calls and validations on each backend. `Honest` says that every
  stored secret was shown, is unread or is about to be told, and that a cloned row
  under rotation counts no more uses than were accepted.
  `Withdrawn` says that a revoked row stays disabled and that no call holds a copy of it
  that would enable it (`Respects`). `Indexed` says in which order the memory store's
  two maps are (`InOrder`): each entry leads to the row that holds its secret, unless
  the call that is to remove it is in flight, and a key not `overlapped` has at most
  one call between its two writes (`Sole`). `Apart` describes the steps of which the
  contract sees nothing but the request.
- `RoutingProofs`: `RoutingTypeOK`, `EnvTargetsSurvive`, `HistoryStaysFaithful`,
  `SurvivorsStayServable`, `RoutingStaysInSync`, for any number of overlapping calls and
  any documents. The invariant has two layers. One holds always: `Typed`, `Recorded`
  and `LiveRecorded` (what versions a rollback made copy, and whose document is live
  while it is unsure), `Sole` (no two calls are in flight unless `stale` says so),
  `NoPrev` and `EnvStocked`. The other, `ByItself`, holds while no calls overlap: a
  rebuild under way read the tables as they are (`TablesRead`), one that may swap
  in nothing found the database owning the routing (`NeverEmptied`, `KeptEmpty`), and
  `Matched`, `Stocked`, `Dropped` and `BreakersKept` follow the separate swaps of
  clients, keys, targets and breakers. An overlap gives the second layer up; `stale`
  lets it come back only when a call has run through by itself.
- `RoutingProofs`, locks: `SelectsConsistently`, for any number of tasks, workers and
  reloads. The invariant `Swapped` holds the lock discipline: a reload holds the
  strategy lock in write mode from before its first swap until it has the targets
  lock too (`HoldsWhileSwapping`), so a reader of both never falls between the swaps.
- `AccessProofs`: `EntryByRight`, `RefusalsStayOnRecord`, `GrantsStayHeld` and
  `PatternsMean`. `AccessInv` says what the process holds follows from the
  environment of this start (`ProcessOK`), and what is known of a request at each
  point of its way (`RequestOK`): who was let in is a principal entitled to its
  scope. `GrantsStayHeld` rests on two facts about operators. The chain of scopes
  with a team begins with the chain without (`ChainGrows`), and all verdicts are Ok
  when the first error is none (`FirstErrorOk`). And `PatternsMean`: what
  `pattern_matches` accepts, part by part and greedily, can be cut into the pattern's
  parts, for every pattern and name. Loops (`Positions`, `FilterTargets`) are
  recursive functions; that they exist and what they compute is shown by least
  counterexample (`LeastExists`, `LoopExists`), which needs no induction rule.
  `OptionAssumption` and `PatternAssumption` say that `None` is no value an option
  holds and that patterns, names and headers are sequences.
- `PipelineProofs`: `PipelineAccountedOnce`, `PipelinePiiWithheld`,
  `PipelineResponseWithheld`, `PipelineAuditConserved`, `PipelineBudgetBounded`, for any
  number of requests, configurations, changes and chunks.
  - `PipelineInv` says of every request what its position implies. `Flow` is the
    accounting: which positions still owe the usage record, that a stream's is written
    exactly when its recorder says so, and where a disconnect or an error ends.
    `Clean` is the content: from the scan on, the working body is clean under the
    configuration *the scan saw* (a later change does not matter), and what is sent
    is that body; between guard and reply the answer is clean under the
    configuration the check saw. Neither final property is inductive, since both speak
    only of requests that have already sent or shown something. What the scan does is a
    set of lemmas on `Guardrails`: the settings the plugin computes are those of the
    governing section, of the environment or of the default, and a text it rewrites
    keeps no entity that section names.
  - `AuditInv`: queued, written, dropped and lost events add up to the requests that owe
    one; every step either leaves both sides alone or adds one to each.
  - `BudgetInv` is needed because a charge comes steps after its check. Each key has
    spent so little that even if each of its requests between check and charge
    (`PendingOf`) cost the most an answer can, the bound would hold, or it has
    not been charged since the start; and `peak` is at least the number of those
    requests. A request enters `PendingOf` only
    below the limit and leaves it with at most one charge. Lemmas on the spend store
    (`SpendAdd`, its eviction and its saturation) say what a charge does to that key, to
    others and to the store's bounds.

  `AskedAssumption` and `Pipeline`'s `ConfigsAssumption` give the shape of requests and
  of configuration sections; its `OptionAssumption` separates `None` from the values
  beside it; `PipelineAssumption` says that a placeholder is no entity;
  `BudgetAssumption` that amounts are naturals, a restored spend store is one, two
  principals of one key have one limit (it is the key's) and some answer costs most.
  `Failover`'s `ConfigsAssumption` says that targets are a list with integer weights.
- `ProviderCallProofs`: `BuffersBounded`, `ActiveStreamsLive`, `RepliesStayMeaningful`,
  for any number of calls, conversations, streams, caps and timeouts.
  - `CallInv`: a stream runs on the streaming client and only streams do, so all that
    can be due is a silence; a timeout that fired is still due (after it the call
    takes nothing in), and only a finished call was answered or refused. What a parsed
    answer and a mapped refusal hold are lemmas on the operators (`ParsedWhole`,
    `RefusalExplained`).
  - `WireInv`: while a stream has more to come, the buffer is exactly as long as what
    has been received of the running line (`Unfinished`), so a buffer over the cap
    shows a vendor's line over the cap (`LongLine`). That this survives a chunk is a
    fact about the parser's loop, token by token (`TokensBuffered`, by least
    counterexample as in `AccessProofs`): the end of a line empties the buffer, another
    token grows it by one, replacing half a character moves no end of line, and
    `[DONE]` leaves it empty. `EventParsed` and `EventsParsed` show that no vendor's
    event is itself turned into the error the cap raises.

  `WiresAssumption` says that streams are sequences and `None` is no error. Of a
  vendor's answers nothing is assumed: `RepliesStayMeaningful` tells for each finish
  reason whether it is translated or passed on.

Only model-checked:

- liveness (`StuckOnlyIfForgotten`, `RequestsFinish`, `CallsEnd`, `RotationFollowed`),
  which needs fairness and `ENABLED`;
- `Pipeline`'s `StatisticsTold`: counts, sorted lists and pages of the rings are folds, and
  what a fold computes for every ring needs induction over data;
- `ProviderCall`'s `TranslationKept`: `ConversationKept` and `CutsInvisible` compare
  filtered and mapped lists of any length and what two different parsers compute for
  every stream, which is induction over data, and `StreamMetered` also depends on
  which streams the vendors send.

## Where the code and what is said of it disagree

Each of these is a finding of `PROJECT.json`, which quotes both sides. `failover_stuck`
shows the first as a violated property. For the others the property of the passing run
states exactly when the code departs from what is said, so that it holds, has a mutant
and can be proved, and so that nothing else hides behind the exception.

| Said | What the code does | Property |
|---|---|---|
| rejected half-open probes wait for the outcome of those in flight | an outcome that is not recorded is waited for, for ever (`route.rs:197`) | `HalfOpenResolves` (violated) |
| a window rollover never wipes consumption | a caller with an old clock reading sets the counter back (`rate_limit.rs:54`) | `LimitUnlessSetBack` |
| the rebuild after a save keeps tables and routing in sync | overlapping calls may apply the older snapshot last, a call may be cut off, and a saved document is kept when the tables enable nothing (`handlers.rs:646`) | `RoutingInSync` |
| a key is never missing | it is between retain and swap, and after overlaps, cut-offs and old documents (`rebuild.rs:153`) | `SurvivorsServable` |
| an empty database does not replace environment targets | it does when a reload falls between the ownership test and the swap (`handlers.rs:667`) | `EnvNeverWiped` |
| what is applied is recorded as a version | not when the client hangs up in between, nor in that order when two overlap (`config.rs:64`) | `HistoryFaithful` |
| timeouts keep a hung upstream from pinning a request | rebuilds that block every worker thread on `proxy`'s reference stop the timers too (`proxy.rs:42`) | `CallsEnd` of `GatewayLocks` |
| a plaintext key is encrypted by the next update | only by one that brings a key (`provider_store.rs:254`) | `KeySurvives` |
| no bypass while `JWT_ISSUER` is configured | there is one after a failed discovery (`combined_auth.rs:114`) | `AccessByRight` |
| the response side fails closed | an engine's panic lets the answer through (`pii_guardrail.rs:691`) | `ResponseWithheld` |
| tool calls are translated for all providers, streamed too | Anthropic's and Gemini's streams and bodies drop them (`anthropic/provider.rs:252`) | `TranslationKept` |
| stop reasons are mapped to OpenAI's words | unknown ones are passed on (`anthropic/provider.rs:22`) | `RepliesKept` |

## Known limits of the code seen while modelling, without a finding

Nothing in the repository says otherwise of these; where a property allows for one it
is named.

Breakers, failover, limiters:

- `himadri-circuitbreaker/src/lib.rs:124`: a success of a call admitted before the
  breaker opened counts as a probe's when it arrives while half-open.
- `himadri/src/gateway/route.rs:143`: the latency `with_failover` returns can be
  the one of an earlier candidate than the target it returns.
- `himadri/src/strategy.rs:224`: a load-balanced target of weight 0 is drawn only
  where a draw ends on the edge of an interval. Targets of conditional and content
  rules are not filtered by the model they serve.

Routing, locks and the tables:

- `himadri/src/gateway/rebuild.rs:110`: the build loop replaces the live client
  before the key, so a request can pair a new base URL with the old key.
- `himadri/src/gateway/rebuild.rs:184`: after a failed read and a reload, a
  deleted endpoint's client is in nobody's previous targets and is never pruned.
  `RoutingInSync` therefore speaks of clients and keys left behind only while `stale`
  is "no".
- `himadri-admin/src/crypto.rs:41`: without an encryption key (unset or invalid) a
  stored ciphertext is handed out and sent upstream as the key. `KeySurvives` speaks
  of processes with a key.
- `himadri-admin/src/provider_store.rs:231`: an update undoes a toggle that falls
  between its read and its write, and two overlapping updates can store a pair
  neither validated (`handlers.rs:944-950` admits it); on SQLite an endpoint created
  while its model is deleted stays an orphan. `raced` exempts these rows.
- `himadri-admin/src/store.rs:374`, `:489`, `:714`: a rotation in memory or an SQL
  update that had read a key before it was revoked writes its enabled copy back
  (`Copied`), and of two overlapping rotations in memory both secrets may stay valid
  (`overlapped`).

Authentication and pipeline:

- A 403 of `require_admin_scope`, a 404 or 403 of `select_targets` and the refusals of
  streams and embeddings in the prologue are not audited; other refused
  requests are audited with their unredacted messages (`route.rs:290-311`).
- Streams are never charged to the budget, cache hits are charged again, embeddings
  pass no plugin, guardrail, budget or accounting; a cache hit passes by provider
  roles; a disconnect during a call leaves that call unaccounted.
- An engine that panics stops a request even with `fail_open` on. With several choices
  the redacted joined text is written into each.
- `himadri-observability/src/audit.rs:174-196`: an event that cannot be serialised or
  written is gone without a count (`lost`).
- Evicting a spend entry forgets that key's spend. A log deletion with `before` alone
  deletes nothing, and its filters are alternatives where the listing's are
  conjunctive.

Providers:

- A character split across two network chunks is replaced, a last line without a
  newline is lost, and whether an over-long line is refused depends on the cuts.
  `CutsInvisible` says which characters (`torn`) and allows for transport faults. The
  replacement character is longer than the byte it replaces (`sse.rs:41`), so within a
  few bytes of the cap a line that fits can be refused; tokens of length one do not
  show it.
- A stream that keeps sending is never ended, however slowly it does: only a silence
  is. `CallsEnd` speaks of streams of finite length, and of silences.
- Of a Gemini candidate only the first part is streamed, and Gemini tool calls finish
  with "stop". Anthropic keeps the last and Gemini the first system message, both drop
  one of several parts. Usage objects with missing keys panic.

## Not modelled

Metrics and tracing, the metrics endpoint's key check, the web interface, the
load-test sink, benches and deployment files: no shared state a property could
speak of, or the work of a library. HTTP routing, URLs, headers and sampling
parameters of the vendors, provider presets' tables, the parsing of configuration
files, `roles.rs`'s catalogue (called by nothing) and the recognition of entities in
a text are left out of the modules that would hold them. The latency store has no
state: its averages are arbitrary. `update_config`'s parsing and validation are left
out of `Routing`: a document there is already valid. Liveness of the pipeline is not
checked: its fairness conditions are beyond what TLC evaluates in time.
`PROJECT.json` gives the reason for each component.

## Plan

Modelled, in this order: breaker and failover, the two limiters, routing, locks; then
keys, access, strategies, pipeline, providers and the endpoint tables. Proved: every
safety property of the runs except those listed above as only model-checked. What is
left:

1. `Policy`: the converse of `PatternsMean` (greedy matching also refuses nothing the
   pattern means).
2. A latency store with state of its own, and a liveness property of the pipeline.
