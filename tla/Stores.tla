------------------------------- MODULE Stores -------------------------------
(***************************************************************************)
(* The in-memory stores a request leaves its traces in: the rate limiter's *)
(* buckets, the budget plugin's spend, the response cache's key, the usage *)
(* ring with the dashboards read from it, the request log and the audit    *)
(* queue.  Pure operators on the value of a store; each is one critical    *)
(* section of the code.                                                    *)
(***************************************************************************)
EXTENDS Policy

LOCAL INSTANCE FiniteSetsExt

-----------------------------------------------------------------------------
(* RateLimiter: a bucket per name, [cap, level].  Refill over time is the  *)
(* subject of TokenBucket; here a bucket only drains until it is rebuilt.  *)

Fresh(cap) == [cap |-> cap, level |-> cap]

(* The bucket a check finds: created on first sight, rebuilt when its      *)
(* parameters changed.                                                     *)
Bucket(buckets, name, cap) ==
  IF name \in DOMAIN buckets /\ buckets[name].cap = cap THEN buckets[name] ELSE Fresh(cap)

Allows(buckets, name, cap) == Bucket(buckets, name, cap).level > 0

(* ShardedRateLimiter::allow_with_params: the buckets after the check.     *)
AllowWithParams(buckets, name, cap) ==
  LET b == Bucket(buckets, name, cap)
      after == [b EXCEPT !.level = IF @ > 0 THEN @ - 1 ELSE 0]
  IN  [n \in DOMAIN buckets \cup {name} |-> IF n = name THEN after ELSE buckets[n]]

(* Gateway::check_rate_limits: the global bucket, the key's, the           *)
(* organisation's, each drained before the next is asked.  `limits` is the *)
(* sequence of the [name, cap] that apply.                                 *)
CheckRateLimits(buckets, limits) ==
  LET state[i \in 0..Len(limits)] ==
        IF i = 0 THEN [buckets |-> buckets, ok |-> TRUE]
        ELSE LET s == state[i - 1]
                 l == limits[i]
             IN  IF ~s.ok THEN s
                 ELSE [buckets |-> AllowWithParams(s.buckets, l.name, l.cap),
                       ok |-> Allows(s.buckets, l.name, l.cap)]
  IN  state[Len(limits)]

-----------------------------------------------------------------------------
(* The budget plugin.  Prices and costs are in tenths of a micro-dollar,   *)
(* the store holds whole micro-dollars, least recently updated key first.  *)

UsdToMicro(tenths) == (tenths + 5) \div 10

(* calculate_cost.                                                         *)
CalculateCost(price, usage) ==
  usage.prompt * price.input + usage.completion * price.output

SpendKeys(store) == {store[i].key : i \in DOMAIN store}

SpendGet(store, key) ==
  LET at == {i \in DOMAIN store : store[i].key = key}
  IN  IF at = {} THEN 0 ELSE store[CHOOSE i \in at : TRUE].micro

(* The store without the entry of a key it has.                            *)
Forgotten(store, key) ==
  LET at == CHOOSE i \in DOMAIN store : store[i].key = key
  IN  [i \in 1..(Len(store) - 1) |-> IF i < at THEN store[i] ELSE store[i + 1]]

(* Mutant of SpendAdd: a new key is inserted without making room.          *)
SpendAddUnbounded(store, key, tenths, max_keys, ceiling) ==
  LET others == IF key \in SpendKeys(store) THEN Forgotten(store, key) ELSE store
  IN  Append(others, [key |-> key, micro |-> SpendGet(store, key) + UsdToMicro(tenths)])

(* SpendStore::add: a new key at the cap evicts the least recently updated *)
(* one; the amount saturates.                                              *)
SpendAdd(store, key, tenths, max_keys, ceiling) ==
  LET sum == SpendGet(store, key) + UsdToMicro(tenths)
      full == key \notin SpendKeys(store) /\ max_keys > 0 /\ Len(store) >= max_keys
      others == IF key \in SpendKeys(store) THEN Forgotten(store, key)
                ELSE IF full THEN Tail(store) ELSE store
  IN  Append(others, [key |-> key, micro |-> IF sum > ceiling THEN ceiling ELSE sum])

(* effective_limit: a positive cap of the principal's own, else the global *)
(* one; 0 is unlimited.                                                    *)
EffectiveLimit(own, global) == IF own # None /\ own > 0 THEN own ELSE global

(* Mutant of OverBudget: the limit itself may still be spent from.         *)
OverBudgetLate(store, key, limit) == limit > 0 /\ SpendGet(store, key) > limit

(* check_budget.                                                           *)
OverBudget(store, key, limit) == limit > 0 /\ SpendGet(store, key) >= limit

(* spend_key and RateLimitPlugin::get_api_key: the stable id, else the     *)
(* user.                                                                   *)
SpendKey(auth) ==
  IF auth = None THEN None ELSE IF auth.key # None THEN auth.key ELSE auth.user

-----------------------------------------------------------------------------
(* ResponseCachePlugin::cache_key: the scope and every field that matters, *)
(* injectively; the hash is taken to have no collisions.                   *)

CacheKey(request, org, team) ==
  [org |-> org, team |-> team, model |-> request.model,
   max_tokens |-> request.max_tokens, messages |-> request.slots]

-----------------------------------------------------------------------------
(* UsageStore.                                                             *)

(* Mutant of Push: the newest record is the one that is dropped.           *)
PushDropsNewest(ring, record, max) ==
  IF Len(ring) >= max THEN ring ELSE Append(ring, record)

(* record and the request log's write: oldest out past the cap.            *)
Push(ring, record, max) ==
  LET all == Append(ring, record)
  IN  IF Len(all) > max THEN SubSeq(all, Len(all) - max + 1, Len(all)) ELSE all

(* load_pricing: the table of the environment replaces or extends.         *)
LoadPricing(default, overrides) ==
  [m \in DOMAIN default \cup DOMAIN overrides |->
     IF m \in DOMAIN overrides THEN overrides[m] ELSE default[m]]

(* calculate_cost: a model without a price is free.                        *)
UsageCost(pricing, model, usage) ==
  IF model \in DOMAIN pricing THEN CalculateCost(pricing[model], usage) ELSE 0

Total(ring, at, field) == MapThenSumSet(LAMBDA i : ring[i][field], at)

(* get_key_stats.                                                          *)
KeyStats(ring, key) ==
  LET mine == {i \in DOMAIN ring : ring[i].key = key}
  IN  [requests |-> Cardinality(mine),
       successful |-> Cardinality({i \in mine : ring[i].success}),
       failed |-> Cardinality({i \in mine : ~ring[i].success}),
       tokens |-> Total(ring, mine, "prompt") + Total(ring, mine, "completion"),
       cost |-> Total(ring, mine, "cost"),
       last |-> IF mine = {} THEN None ELSE ring[Max(mine)].id,
       models |-> {ring[i].model : i \in mine}]

(* top_n: the n rows with the most requests, ties in any order.            *)
TopN(rows, n) ==
  LET size == IF Cardinality(DOMAIN rows) < n THEN Cardinality(DOMAIN rows) ELSE n
  IN  CHOOSE s \in [1..size -> DOMAIN rows] :
        /\ \A i, j \in 1..size : i < j => s[i] # s[j] /\ rows[s[i]].requests >= rows[s[j]].requests
        /\ \A k \in DOMAIN rows : (\A i \in 1..size : s[i] # k) =>
             \A i \in 1..size : rows[s[i]].requests >= rows[k].requests

Breakdown(ring, field) ==
  [v \in {ring[i][field] : i \in DOMAIN ring} |->
     LET at == {i \in DOMAIN ring : ring[i][field] = v}
     IN  [requests |-> Cardinality(at), tokens |-> Total(ring, at, "total"),
          cost |-> Total(ring, at, "cost")]]

(* get_dashboard.                                                          *)
Dashboard(ring, key_count, n) ==
  LET errors == {i \in DOMAIN ring : ~ring[i].success}
      recent[k \in 0..Cardinality(errors)] ==
        IF k = 0 THEN << >>
        ELSE LET left == errors \ {recent[k - 1][j].at : j \in DOMAIN recent[k - 1]}
             IN  Append(recent[k - 1], [at |-> Max(left)])
      shown == IF Cardinality(errors) < n THEN Cardinality(errors) ELSE n
  IN  [keys |-> key_count, requests |-> Len(ring),
       tokens |-> Total(ring, DOMAIN ring, "total"),
       cost |-> Total(ring, DOMAIN ring, "cost"), errors |-> Cardinality(errors),
       top_models |-> TopN(Breakdown(ring, "model"), n),
       top_providers |-> TopN(Breakdown(ring, "provider"), n),
       recent_errors |-> [k \in 1..shown |-> recent[Cardinality(errors)][k].at]]

-----------------------------------------------------------------------------
(* The request log.                                                        *)

(* The filters of RequestLogQuery, all of which must hold.                 *)
Listed(e, q) ==
  /\ q.model \in {None, e.model}
  /\ q.provider \in {None, e.provider}
  /\ q.since = None \/ e.at >= q.since

ListLogs(log, q) ==
  LET filtered == SelectSeq(log, LAMBDA e : Listed(e, q))
      last == IF q.offset + q.limit < Len(filtered) THEN q.offset + q.limit ELSE Len(filtered)
  IN  [data |-> SubSeq(filtered, q.offset + 1, last), total |-> Len(filtered)]

(* MaintenanceQuery keeps what is not older than `before`; of the rest, an *)
(* entry goes when any one of the given filters matches it.  The stage is  *)
(* the same in every entry, so it is left out of both queries.             *)
Retained(e, q) ==
  \/ q.before # None /\ e.at >= q.before
  \/ /\ ~(q.model # None /\ e.model = q.model)
     /\ ~(q.provider # None /\ e.provider = q.provider)

DeleteLogs(log, q) == SelectSeq(log, LAMBDA e : Retained(e, q))

-----------------------------------------------------------------------------
(* AuditLog.  [queue, dropped, written, lost].                             *)

(* Redactor::redact.                                                       *)
AuditRedacted(text, secrets) ==
  IF text \cap secrets = {} THEN text ELSE (text \ secrets) \cup {"[REDACTED]"}

(* Without content capture the texts are stripped; with it they pass the   *)
(* redactor when there is one.                                             *)
Captured(event, capture, redactor) ==
  IF ~capture THEN [event EXCEPT !.messages = {}, !.response = {}]
  ELSE [event EXCEPT !.messages = AuditRedacted(@, redactor),
                     !.response = AuditRedacted(@, redactor)]

(* Mutant of AuditSend: an event that finds the queue full is lost without *)
(* a trace.                                                                *)
AuditSendSilent(audit, event, capacity) ==
  IF Len(audit.queue) >= capacity THEN audit ELSE [audit EXCEPT !.queue = Append(@, event)]

(* AuditLog::log's try_send: a full queue drops the event and counts it.   *)
AuditSend(audit, event, capacity) ==
  IF Len(audit.queue) >= capacity THEN [audit EXCEPT !.dropped = @ + 1]
  ELSE [audit EXCEPT !.queue = Append(@, event)]

(* write_loop takes one event off and writes its line; an event it cannot  *)
(* serialise, or a file it cannot open or write, costs the event and is    *)
(* counted nowhere.                                                        *)
AuditWrite(audit, wrote) ==
  IF wrote THEN [audit EXCEPT !.queue = Tail(@), !.written = @ + 1]
  ELSE [audit EXCEPT !.queue = Tail(@), !.lost = @ + 1]
=============================================================================
