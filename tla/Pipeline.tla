------------------------------ MODULE Pipeline ------------------------------
(***************************************************************************)
(* The life of a /v1 request inside the gateway, from the handler to the   *)
(* reply, for several requests at once: the shared prologue (rate limits,  *)
(* policy, before-request plugins), the response cache, target selection   *)
(* and the provider call, after-request plugins, response guardrails,      *)
(* accounting, and streams with their recorder; with the operator changing *)
(* the configuration and clients hanging up at any await.                  *)
(*                                                                         *)
(* pc[r]: idle -> prepare -> pii -> plugins -> cache -> select -> call ->  *)
(* wait -> after -> guard -> insert -> done; a stream leaves wait for      *)
(* stream -> closing -> done, an embedding prepare for embed; gone is a    *)
(* request whose client hung up.  Every pc is an await point of the code:  *)
(* what lies between two of them is one step.                              *)
(***************************************************************************)
EXTENDS Guardrails, Stores, GatewayErrors

LOCAL INSTANCE FiniteSetsExt

CONSTANTS Requests,      \* the requests in flight
          Asked,         \* what a client may ask: [kind, body, auth]
          Configs,       \* configurations an operator may apply
          PiiEnv,        \* the GUARDRAILS_PII_* environment
          HasKey,        \* GUARDRAILS_ENCRYPTION_KEY is set
          Blocklist, MaxTokensLimit,       \* WORD_FILTER_BLOCKLIST, MAX_TOKENS_LIMIT
          Price, SpendLimit, MaxKeys, Ceiling,  \* the budget plugin
          Pricing,       \* the usage store's table
          Capture, Secrets,                \* AUDIT_CAPTURE_CONTENT, redactor
          Replies,       \* what a provider may answer: [choices, usage, large]
          Failures,      \* how a provider call may fail
          Chunks,        \* stream chunks: [text, usage]
          LogQueries,    \* maintenance queries of the admin
          SpentBefore,   \* bound: spend stores to start from
          MaxChanges,    \* bound: configuration changes and log deletions
          MaxChunks,     \* bound: chunks of a stream
          BufferLimit,   \* DEFAULT_STREAM_BUFFER_LIMIT, in chunks
          MaxUsage, MaxLogs, AuditCapacity \* capacities of the rings and the queue

VARIABLES config, changes, buckets, spend, cache, usage, logs, tick, audit, req,
          peak           \* history: see Unpaid

vars == <<config, changes, buckets, spend, cache, usage, logs, tick, audit, req, peak>>
stores == <<buckets, spend, cache, usage, logs, tick, audit>>

Start == [pc |-> "idle", ask |-> None, work |-> None, scan |-> None, sent |-> None,
          order |-> << >>, target |-> None, reply |-> None, error |-> None, origin |-> None,
          check |-> None, shown |-> {}, status |-> 0, rec |-> None, records |-> 0]

(* The rest of a request is kept while these parts of it change.           *)
Changed(q, change) ==
  [f \in DOMAIN q |-> IF f \in DOMAIN change THEN change[f] ELSE q[f]]

Goes(r, change) == req' = [req EXCEPT ![r] = Changed(@, change)]

(* The handler returns, or is dropped: its locals go, except for what the  *)
(* properties look back at.                                                *)
Ended(q) ==
  [Start EXCEPT !.pc = "done", !.ask = q.ask, !.rec = q.rec, !.records = q.records]

Ends(r, change) == req' = [req EXCEPT ![r] = Changed(Ended(@), change)]

(* Who asks, and the keys their requests are charged to.                   *)
Principals == {a.auth : a \in Asked}
Payers == {SpendKey(a) : a \in Principals}

Init ==
  /\ config \in {ApplyDeprecations(c) : c \in Configs}
  /\ changes = 0 /\ buckets = [n \in {} |-> None] /\ spend \in SpentBefore
  /\ cache = {} /\ usage = << >> /\ logs = << >> /\ tick = 0
  /\ audit = [queue |-> << >>, dropped |-> 0, written |-> 0, lost |-> 0]
  /\ req = [r \in Requests |-> Start]
  /\ peak = [k \in Payers |-> 0]

Auth(r) == req[r].ask.auth
Stream(r) == req[r].ask.body.stream

(* The requests of a key between the budget check and the charge; peak     *)
(* remembers how many there were at most at any one time.                  *)
Unpaid(k) ==
  {r \in Requests : /\ req[r].pc \in {"cache", "select", "call", "wait", "after"}
                    /\ ~Stream(r) /\ SpendKey(Auth(r)) = k}

PeakWith(r) ==
  LET k == SpendKey(Auth(r))
      n == Cardinality(Unpaid(k) \cup {r})
  IN  IF k = None \/ Stream(r) THEN peak
      ELSE [peak EXCEPT ![k] = IF n > @ THEN n ELSE @]

(* What with_failover may end with before any provider was asked.  route   *)
(* flattens it to a 503, route_stream keeps it.                            *)
Unreached == {"circuit_open", "provider_not_found", "unavailable"}

-----------------------------------------------------------------------------
(* Accounting.                                                             *)

NoUsage == [prompt |-> 0, completion |-> 0, total |-> 0]

TokensOf(u) == IF u = None THEN NoUsage ELSE u

(* Mutant of Succeeded: a refusal of the content is no failure.            *)
SucceededLoosely(error) == error \in {None, "bad_request"}

Succeeded(error) == error = None

(* record_usage: the usage ring and the request log; a failure costs       *)
(* nothing.                                                                *)
RecordUsage(r, provider, model, u, error) ==
  LET t == TokensOf(u)
      entry == [id |-> r, at |-> tick + 1, key |-> Auth(r).key, model |-> model,
                provider |-> provider, prompt |-> t.prompt,
                completion |-> t.completion, total |-> t.total,
                cost |-> IF Succeeded(error) THEN UsageCost(Pricing, model, t) ELSE 0,
                success |-> Succeeded(error)]
  IN  /\ usage' = Push(usage, entry, MaxUsage)
      /\ logs' = Push(logs, entry, MaxLogs)
      /\ tick' = tick + 1

Logged(r, messages, response, error) ==
  audit' = AuditSend(audit,
             Captured([id |-> r, messages |-> messages, response |-> response,
                       error |-> error], Capture, Secrets), AuditCapacity)

(* LiveRequestAuditor::record_full.                                        *)
RecordFull(r, request, provider, u, response, error) ==
  /\ Logged(r, Words(request), response, error)
  /\ RecordUsage(r, provider, request.model, u, error)

(* The prologue's refusal: route audits it with the client's own request,  *)
(* route_stream and embed do not.                                          *)
Refuse(r, error) ==
  /\ IF Stream(r) \/ req[r].ask.kind = "embed"
     THEN UNCHANGED <<usage, logs, tick, audit>>
     ELSE RecordFull(r, req[r].ask.body, << >>, None, {}, error)
  /\ Ends(r, [status |-> StatusCode(error), error |-> error, scan |-> req[r].scan,
              records |-> req[r].records + (tick' - tick)])

-----------------------------------------------------------------------------
(* The prologue.                                                           *)

(* legacy_to_chat: one user message, an empty prompt is refused.           *)
LegacyToChat(body) ==
  IF body.prompt = {} THEN None
  ELSE [model |-> body.model, max_tokens |-> body.max_tokens,
        stream |-> body.stream, large |-> FALSE,
        slots |-> <<[role |-> "user", kind |-> "text", text |-> body.prompt]>>]

(* What a handler makes of the client's request.                           *)
Accepted(a) ==
  [a EXCEPT !.body = IF a.kind = "legacy" THEN LegacyToChat(a.body) ELSE a.body]

(* chat_completions, completions and embeddings.                           *)
Arrive(r) ==
  /\ req[r].pc = "idle"
  /\ \E a \in Asked :
       IF Accepted(a).body = None
       THEN Ends(r, [status |-> 400])
       ELSE Goes(r, [pc |-> "prepare", ask |-> Accepted(a), work |-> Accepted(a).body])
  /\ UNCHANGED <<config, changes, peak, stores>>

(* The buckets check_rate_limits asks, in its order: the global one, the   *)
(* key's (with the key's own burst), the organisation's.                   *)
Limits(auth) ==
  IF ~config.rate_limit.enabled THEN << >>
  ELSE <<[name |-> <<"global">>, cap |-> config.rate_limit.burst]>>
       \o (IF auth.key = None THEN << >>
           ELSE <<[name |-> <<"key", auth.key>>,
                   cap |-> IF auth.burst = None THEN config.rate_limit.burst
                           ELSE auth.burst]>>)
       \o (IF auth.org \notin DOMAIN config.orgs THEN << >>
           ELSE LET limit == config.orgs[auth.org].rate_limit
                IN  IF limit = None THEN << >>
                    ELSE <<[name |-> <<"org", auth.org>>, cap |-> limit]>>)

(* prepare_request up to the plugins, and the head of embed, under one     *)
(* read of the configuration.                                              *)
Prepare(r) ==
  /\ req[r].pc = "prepare"
  /\ LET body == req[r].ask.body
         asked == [model |-> body.model, max_tokens |-> body.max_tokens,
                   words |-> Words(body)]
         limited == CheckRateLimits(buckets, Limits(Auth(r)))
         embed == req[r].ask.kind = "embed"
         verdict == IF embed THEN CheckRbacModel(Auth(r), config.rbac, body.model)
                    ELSE PolicyVerdict(Auth(r), config, asked)
     IN  /\ buckets' = limited.buckets
         /\ IF ~limited.ok THEN Refuse(r, "rate_limited")
            ELSE IF verdict # Ok THEN Refuse(r, "forbidden")
            ELSE /\ Goes(r, [pc |-> IF embed THEN "embed" ELSE "pii"])
                 /\ UNCHANGED <<usage, logs, tick, audit>>
  /\ UNCHANGED <<config, changes, peak, spend, cache>>

(* The PII plugin, first of the before-request plugins, resolves its       *)
(* settings against the configuration of the moment.                       *)
RunPii(r) ==
  /\ req[r].pc = "pii"
  /\ LET settings == EffectiveSettings(config, PiiEnv, Auth(r).org, Auth(r).team)
     IN \E engine \in EngineOutcomes(req[r].work.large) :
          LET out == PiiExecute(settings, req[r].work, engine, HasKey)
          IN  IF out.verdict = Ok
              THEN /\ Goes(r, [pc |-> "plugins", work |-> out.request,
                               scan |-> [config |-> config, engine |-> engine]])
                   /\ UNCHANGED <<usage, logs, tick, audit>>
              ELSE Refuse(r, out.verdict)
  /\ UNCHANGED <<config, changes, peak, buckets, spend, cache>>

(* RateLimitPlugin::execute, per key and per address: how its counters get *)
(* to their answer is FixedWindow's subject.                               *)
WindowVerdicts == {Ok, "rate_limited"}

(* The other before-request plugins in the order wire::plugins registers   *)
(* them: words, max tokens, budget, and the fixed-window limiter, which    *)
(* may refuse anyone.                                                      *)
RunPlugins(r) ==
  /\ req[r].pc = "plugins"
  /\ LET key == SpendKey(Auth(r))
         limit == EffectiveLimit(Auth(r).budget, SpendLimit)
     IN \E window \in WindowVerdicts :
          LET verdict == FirstError(<<WordFilter(Blocklist, req[r].work),
                                      MaxToken(MaxTokensLimit, req[r].work),
                                      IF key # None /\ OverBudget(spend, key, limit)
                                      THEN "quota" ELSE Ok,
                                      window>>)
          IN  IF verdict = Ok
              THEN /\ Goes(r, [pc |-> IF Stream(r) THEN "select" ELSE "cache"])
                   /\ peak' = PeakWith(r)
                   /\ UNCHANGED <<usage, logs, tick, audit>>
              ELSE Refuse(r, verdict) /\ peak' = peak
  /\ UNCHANGED <<config, changes, buckets, spend, cache>>

-----------------------------------------------------------------------------
(* The cache and the provider.                                             *)

KeyOf(r) == CacheKey(req[r].work, Auth(r).org, Auth(r).team)

(* A hit goes on with the cached response; an entry may have expired.      *)
CacheLookup(r) ==
  /\ req[r].pc = "cache"
  /\ \/ \E c \in cache :
          /\ c.key = KeyOf(r)
          /\ Goes(r, [pc |-> "after", reply |-> c.reply, origin |-> c.by])
     \/ Goes(r, [pc |-> "select"])
  /\ UNCHANGED <<config, changes, peak, stores>>

Serving(targets, model) ==
  SelectSeq(targets, LAMBDA t : t.models = None \/ model \in t.models)

(* select_targets: what serves the model, then what the roles allow.  Its  *)
(* errors leave route and route_stream without an audit event.             *)
Select(r) ==
  /\ req[r].pc = "select"
  /\ LET eligible == Serving(config.targets, req[r].work.model)
         left == FilterTargets(Auth(r), config.rbac, eligible)
     IN  IF left = << >>
         THEN LET e == IF eligible = << >> THEN "not_found" ELSE "forbidden"
              IN  Ends(r, [error |-> e, status |-> StatusCode(e), scan |-> req[r].scan])
         ELSE Goes(r, [pc |-> "call", order |-> left])
  /\ UNCHANGED <<config, changes, peak, stores>>

(* Mutant of Dispatch: the client's request is sent, not the pipeline's.   *)
DispatchRaw(r) ==
  /\ req[r].pc = "call"
  /\ \E i \in DOMAIN req[r].order :
       Goes(r, [pc |-> "wait", sent |-> req[r].ask.body,
                target |-> req[r].order[i].provider])
  /\ UNCHANGED <<config, changes, peak, stores>>

(* with_failover hands the pipeline's copy of the request to the providers *)
(* in order; target is the one that has the last word.                     *)
Dispatch(r) ==
  /\ req[r].pc = "call"
  /\ \E i \in DOMAIN req[r].order :
       Goes(r, [pc |-> "wait", sent |-> req[r].work,
                target |-> req[r].order[i].provider])
  /\ UNCHANGED <<config, changes, peak, stores>>

(* No provider could be asked: open circuits, missing clients or keys.     *)
Unreachable(r) ==
  /\ req[r].pc = "call"
  /\ \E e \in Unreached :
       IF Stream(r) THEN Ends(r, [error |-> e, status |-> StatusCode(e)])
       ELSE \E i \in DOMAIN req[r].order :
              Goes(r, [pc |-> "after", error |-> "unavailable",
                       target |-> req[r].order[i].provider])
  /\ UNCHANGED <<config, changes, peak, stores>>

(* The last attempt of the failover fails.                                 *)
CallFails(r) ==
  /\ req[r].pc = "wait"
  /\ \E e \in Failures :
       LET error == FromProvider(e)
       IN  IF Stream(r)
           THEN Ends(r, [error |-> error, status |-> StatusCode(error)])
           ELSE Goes(r, [pc |-> "after", error |-> error])
  /\ UNCHANGED <<config, changes, peak, stores>>

CallAnswers(r) ==
  /\ req[r].pc = "wait" /\ ~Stream(r)
  /\ \E reply \in Replies : Goes(r, [pc |-> "after", reply |-> reply])
  /\ UNCHANGED <<config, changes, peak, stores>>

ProviderOf(r) == IF req[r].origin # None THEN <<"cache">> ELSE req[r].target

(* record_cost: only an answer that reports its tokens costs something.    *)
ChargeOf(r) ==
  LET u == req[r].reply.usage
  IN  IF req[r].reply = None \/ u = None THEN 0 ELSE CalculateCost(Price, u)

(* The after-request plugins: the logger and the budget.  A failed call    *)
(* leaves route with its audit event in the same step.                     *)
RunAfter(r) ==
  /\ req[r].pc = "after"
  /\ LET key == SpendKey(Auth(r))
     IN  spend' = IF key # None /\ ChargeOf(r) > 0
                  THEN SpendAdd(spend, key, ChargeOf(r), MaxKeys, Ceiling)
                  ELSE spend
  /\ IF req[r].reply # None
     THEN Goes(r, [pc |-> "guard"]) /\ UNCHANGED <<usage, logs, tick, audit>>
     ELSE /\ RecordFull(r, req[r].work, req[r].target, None, {}, req[r].error)
          /\ Ends(r, [status |-> StatusCode(req[r].error), records |-> req[r].records + 1])
  /\ UNCHANGED <<config, changes, peak, buckets, cache>>

-----------------------------------------------------------------------------
(* The answer.                                                             *)

(* Mutant of Guarded: answers from the cache were checked once already.    *)
GuardedOnce(r, text, engine) ==
  IF req[r].origin # None THEN "allow"
  ELSE CheckResponse(EffectiveResponseSettings(config, PiiEnv, Auth(r).org, Auth(r).team),
                     text, engine, HasKey)

(* run_response_guardrails on the joined text of the choices.              *)
Guarded(r, text, engine) ==
  CheckResponse(EffectiveResponseSettings(config, PiiEnv, Auth(r).org, Auth(r).team),
                text, engine, HasKey)

(* Every outcome is audited: a rejection as an error without its tokens, a *)
(* redaction as a success, and neither is cached; an allowed answer and    *)
(* one whose check failed go on to the cache.                              *)
Guard(r) ==
  /\ req[r].pc = "guard"
  /\ LET reply == req[r].reply
         text == ExtractResponseText(reply.choices)
         provider == ProviderOf(r)
         redacted == Rewritten(text, EffectiveResponseSettings(config, PiiEnv,
                                       Auth(r).org, Auth(r).team))
     IN \E engine \in EngineOutcomes(reply.large) :
          LET action == Guarded(r, text, engine)
              check == [config |-> config, engine |-> engine]
              records == req[r].records + 1
          IN  \/ /\ action \in {"allow", "error"}
                 /\ RecordFull(r, req[r].work, provider, reply.usage, text, None)
                 /\ Goes(r, [pc |-> "insert", check |-> check, records |-> records])
              \/ /\ action = "reject"
                 /\ RecordFull(r, req[r].work, provider, None, {}, "bad_request")
                 /\ Ends(r, [status |-> 400, check |-> check, records |-> records])
              \/ /\ action = "redact"
                 /\ RecordFull(r, req[r].work, provider, reply.usage, redacted, None)
                 /\ Ends(r, [status |-> 200, check |-> check, records |-> records,
                             shown |-> ExtractResponseText(
                               RedactResponseText(reply.choices, redacted))])
  /\ UNCHANGED <<config, changes, peak, buckets, spend, cache>>

(* The cache takes the answer, after a hit too, and the client gets it.    *)
Insert(r) ==
  /\ req[r].pc = "insert"
  /\ cache' = {c \in cache : c.key # KeyOf(r)}
              \cup {[key |-> KeyOf(r), reply |-> req[r].reply,
                     by |-> IF req[r].origin # None THEN req[r].origin ELSE req[r].ask]}
  /\ Ends(r, [status |-> 200, check |-> req[r].check,
              shown |-> ExtractResponseText(req[r].reply.choices)])
  /\ UNCHANGED <<config, changes, peak, buckets, spend, usage, logs, tick, audit>>

-----------------------------------------------------------------------------
(* Streams.                                                                *)

(* route_stream audits the start and wraps the stream with its recorder.   *)
StreamOpens(r) ==
  /\ req[r].pc = "wait" /\ Stream(r)
  /\ Logged(r, Words(req[r].work), {}, None)
  /\ Goes(r, [pc |-> "stream",
              rec |-> [usage |-> None, error |-> None, recorded |-> FALSE,
                       buffer |-> {}, chunks |-> 0, scanned |-> FALSE]])
  /\ UNCHANGED <<config, changes, peak, buckets, spend, cache, usage, logs, tick>>

(* poll_next on a chunk: usage of the last chunk that has one, text into   *)
(* the buffer up to its limit, the chunk to the client, except after an    *)
(* error event, when sse_response closes the stream instead.               *)
Observed(rec, chunk) ==
  [rec EXCEPT !.usage = IF chunk.usage = None THEN @ ELSE chunk.usage,
              !.buffer = IF rec.chunks < BufferLimit THEN @ \cup chunk.text ELSE @,
              !.chunks = @ + 1]

StreamChunk(r) ==
  /\ req[r].pc = "stream" /\ req[r].rec.chunks < MaxChunks
  /\ \E chunk \in Chunks :
       LET rec == Observed(req[r].rec, chunk)
       IN  IF rec.error = None
           THEN Goes(r, [rec |-> rec, shown |-> req[r].shown \cup chunk.text])
           ELSE Goes(r, [pc |-> "closing", rec |-> rec])
  /\ UNCHANGED <<config, changes, peak, stores>>

StreamFails(r) ==
  /\ req[r].pc = "stream" /\ req[r].rec.error = None
  /\ Goes(r, [rec |-> [req[r].rec EXCEPT !.error = "stream"],
              shown |-> req[r].shown \cup {"error"}])
  /\ UNCHANGED <<config, changes, peak, stores>>

(* Mutant of RecorderFinish: the recorder does not remember that it fired. *)
RecorderFinishAgain(r) ==
  RecordUsage(r, req[r].target, req[r].work.model, req[r].rec.usage,
              req[r].rec.error)

(* StreamUsageRecorder::finish.                                            *)
RecorderFinish(r) ==
  IF req[r].rec.recorded THEN UNCHANGED <<usage, logs, tick>>
  ELSE RecordUsage(r, req[r].target, req[r].work.model, req[r].rec.usage,
                   req[r].rec.error)

Recorded(r) == [req[r].rec EXCEPT !.recorded = TRUE]

(* The provider's stream ends: the recorder fires, and the guardrails read *)
(* the buffer, only to log what they think of it.                          *)
StreamEnds(r) ==
  /\ req[r].pc = "stream"
  /\ RecorderFinish(r)
  /\ Goes(r, [pc |-> "closing", status |-> 200,
              rec |-> [Recorded(r) EXCEPT !.scanned = @ \/ req[r].rec.buffer # {}],
              records |-> req[r].records + (tick' - tick)])
  /\ UNCHANGED <<config, changes, peak, buckets, spend, cache, audit>>

(* The response body is done with and dropped, the recorder with it.       *)
DropStream(r) ==
  /\ req[r].pc = "closing"
  /\ RecorderFinish(r)
  /\ Ends(r, [status |-> 200, rec |-> Recorded(r),
              records |-> req[r].records + (tick' - tick)])
  /\ UNCHANGED <<config, changes, peak, buckets, spend, cache, audit>>

(* The client hangs up: the handler's future is dropped at its await, and  *)
(* with an open stream its recorder.                                       *)
Disconnect(r) ==
  /\ req[r].pc \notin {"idle", "done", "gone"}
  /\ IF req[r].rec = None
     THEN Ends(r, [pc |-> "gone"]) /\ UNCHANGED <<usage, logs, tick>>
     ELSE /\ RecorderFinish(r)
          /\ Ends(r, [pc |-> "gone", rec |-> Recorded(r),
                      records |-> req[r].records + (tick' - tick)])
  /\ UNCHANGED <<config, changes, peak, buckets, spend, cache, audit>>

-----------------------------------------------------------------------------
(* Embeddings: neither plugins nor accounting.                             *)

(* The targets the roles leave, whatever model they serve.                 *)
EmbedSelect(r) ==
  /\ req[r].pc = "embed" /\ req[r].order = << >>
  /\ LET left == FilterTargets(Auth(r), config.rbac, config.targets)
     IN  IF left = << >>
         THEN LET e == IF config.targets = << >> THEN "internal" ELSE "forbidden"
              IN  Ends(r, [error |-> e, status |-> StatusCode(e)])
         ELSE Goes(r, [order |-> left, error |-> "internal"])
  /\ UNCHANGED <<config, changes, peak, stores>>

(* One target: an answer, a reason to go on, or a failure that ends it.    *)
EmbedTry(r) ==
  /\ req[r].pc = "embed" /\ req[r].order # << >>
  /\ \/ Ends(r, [status |-> 200, error |-> None])
     \/ Ends(r, [error |-> "provider", status |-> StatusCode("provider")])
     \/ \E e \in {req[r].error, "provider", "unavailable"} :
          IF Len(req[r].order) = 1
          THEN Ends(r, [error |-> e, status |-> StatusCode(e)])
          ELSE Goes(r, [order |-> Tail(req[r].order), error |-> e])
  /\ UNCHANGED <<config, changes, peak, stores>>

-----------------------------------------------------------------------------
(* The operator and the audit writer.                                      *)

(* apply_config normalises deprecated guardrail fields.                    *)
Normalized(c) == ApplyDeprecations(c)

(* apply_config: the limiter is cleared, the response cache is not.        *)
ApplyConfig ==
  /\ changes < MaxChanges
  /\ \E c \in Configs :
       /\ c.targets # << >>
       /\ Normalized(c) # config
       /\ config' = Normalized(c)
  /\ changes' = changes + 1
  /\ buckets' = [n \in {} |-> None]
  /\ UNCHANGED <<peak, spend, cache, usage, logs, tick, audit, req>>

(* DELETE /admin/logs.                                                     *)
PurgeLogs ==
  /\ changes < MaxChanges /\ logs # << >>
  /\ \E q \in LogQueries : logs' = DeleteLogs(logs, q)
  /\ changes' = changes + 1
  /\ UNCHANGED <<config, peak, buckets, spend, cache, usage, tick, audit, req>>

(* The audit writer takes an event off the queue; its line may not reach   *)
(* the file.                                                               *)
WriteAudit ==
  /\ audit.queue # << >>
  /\ \E wrote \in BOOLEAN : audit' = AuditWrite(audit, wrote)
  /\ UNCHANGED <<config, changes, peak, buckets, spend, cache, usage, logs, tick, req>>

Done == \A r \in Requests : req[r].pc \in {"done", "gone"}

(* Nothing more is asked.                                                  *)
Quiet == Done /\ audit.queue = << >> /\ UNCHANGED vars

Step(r) ==
  \/ Prepare(r) \/ RunPii(r) \/ RunPlugins(r) \/ CacheLookup(r) \/ Select(r)
  \/ Dispatch(r) \/ Unreachable(r) \/ CallFails(r) \/ CallAnswers(r)
  \/ RunAfter(r) \/ Guard(r) \/ Insert(r)
  \/ StreamOpens(r) \/ StreamEnds(r) \/ DropStream(r)
  \/ EmbedSelect(r) \/ EmbedTry(r)

Next ==
  \/ \E r \in Requests :
       \/ Arrive(r) \/ Step(r) \/ StreamChunk(r) \/ StreamFails(r) \/ Disconnect(r)
  \/ ApplyConfig \/ PurgeLogs \/ WriteAudit \/ Quiet

Spec == Init /\ [][Next]_vars

-----------------------------------------------------------------------------
(* What is taken for granted of the constants.                             *)

(* The states of StreamUsageRecorder.                                      *)
Recorders ==
  [usage : {None} \cup {c.usage : c \in Chunks}, error : {None, "stream"},
   recorded : BOOLEAN, buffer : SUBSET UNION {c.text : c \in Chunks},
   chunks : 0..MaxChunks, scanned : BOOLEAN]

(* A client's request is a record whose messages have one of the roles.    *)
ASSUME AskedAssumption ==
  \A a \in Asked :
    /\ DOMAIN a = {"kind", "body", "auth"}
    /\ LET body == Accepted(a).body
       IN  body # None =>
             /\ "slots" \in DOMAIN body
             /\ \A i \in DOMAIN body.slots :
                  /\ DOMAIN body.slots[i] = {"role", "kind", "text"}
                  /\ ParseRoles({body.slots[i].role}) # {}

(* An organisation and a team have their guardrails, with or without a pii *)
(* section.                                                                *)
HasGuardrails(scope) ==
  "guardrails" \in DOMAIN scope /\ "pii" \in DOMAIN scope.guardrails

ASSUME ConfigsAssumption ==
  \A c \in Configs :
    /\ {"orgs", "pii"} \subseteq DOMAIN c
    /\ \A o \in DOMAIN c.orgs :
         /\ HasGuardrails(c.orgs[o]) /\ "teams" \in DOMAIN c.orgs[o]
         /\ \A t \in DOMAIN c.orgs[o].teams : HasGuardrails(c.orgs[o].teams[t])

(* The pii sections of the configurations an operator may put in force.    *)
Sections ==
  LET normal == {ApplyDeprecations(c) : c \in Configs}
      orgs == UNION {{c.orgs[o] : o \in DOMAIN c.orgs} : c \in normal}
      teams == UNION {{org.teams[t] : t \in DOMAIN org.teams} : org \in orgs}
  IN  {c.pii : c \in normal} \cup {s.guardrails.pii : s \in orgs \cup teams}

(* Option::None is none of the values it stands beside.                    *)
ASSUME OptionAssumption ==
  /\ \A a \in Asked : Accepted(a) # None
  /\ \A c \in Configs : c.pii # None
  /\ \A c \in Configs : \A e \in EngineOutcomes(TRUE) :
       [config |-> ApplyDeprecations(c), engine |-> e] # None
  /\ None \notin Recorders
  /\ [DefaultSection EXCEPT !.enabled = TRUE, !.mode = "block"] # None
  /\ \A s \in Sections \ {None} : RequestSettings(s) # None /\ ResponseSettings(s) # None
  /\ EnvOptions(PiiEnv, PiiEnv.mode) # None
  /\ EnvOptions(PiiEnv, PiiEnv.response_mode) # None

(* What a rewritten span leaves behind is no entity.                       *)
ASSUME PipelineAssumption ==
  /\ IsFiniteSet(Requests)
  /\ Placeholder \notin DOMAIN Confidence
  /\ MaxChunks \in Nat

(* A spend store: one amount per key, within the cap and the ceiling.      *)
IsSpendStore(s) ==
  /\ s \in Seq([key : SpendKeys(s), micro : 0..Ceiling])
  /\ \A i, j \in DOMAIN s : s[i].key = s[j].key => i = j
  /\ MaxKeys > 0 => Len(s) <= MaxKeys

LimitOf(auth) == EffectiveLimit(auth.budget, SpendLimit)
CostOf(reply) == UsdToMicro(CalculateCost(Price, TokensOf(reply.usage)))

(* The limit is the key's, not the request's; some answer costs the most   *)
(* of all.                                                                 *)
ASSUME BudgetAssumption ==
  /\ MaxKeys \in Nat /\ Ceiling \in Nat
  /\ \A s \in SpentBefore : IsSpendStore(s)
  /\ \A a, b \in Principals :
       /\ LimitOf(a) \in Nat
       /\ SpendKey(a) = SpendKey(b) /\ SpendKey(a) # None => LimitOf(a) = LimitOf(b)
  /\ \A p \in Replies : CalculateCost(Price, TokensOf(p.usage)) \in Nat
  /\ \E p \in Replies : \A q \in Replies : CostOf(q) <= CostOf(p)

-----------------------------------------------------------------------------
(* Properties.                                                             *)

(* Requests, stores and rings have their shapes; rings, queue and spend    *)
(* stay within their capacities.                                           *)
TypeOK ==
  /\ \A r \in Requests :
       /\ req[r].pc \in {"idle", "prepare", "pii", "plugins", "cache", "select", "call",
                         "wait", "after", "guard", "insert", "stream",
                         "closing", "embed", "done", "gone"}
       /\ req[r].pc = "done" => req[r].status \in {200, 400, 403, 404, 429, 500, 503}
       /\ req[r].pc = "after" => (req[r].reply = None) # (req[r].error = None)
  /\ \A n \in DOMAIN buckets : buckets[n].level \in 0..buckets[n].cap
  /\ Len(usage) <= MaxUsage /\ Len(logs) <= MaxLogs /\ Len(audit.queue) <= AuditCapacity
  /\ changes \in 0..MaxChanges

(* What an operator means by a configuration: the section of the team, or  *)
(* else of its organisation, counts, block_pii standing for a blocking     *)
(* one; where neither has any, the global section; else the environment.   *)
Meant(g) ==
  IF g.pii # None THEN g.pii
  ELSE IF g.enabled /\ g.content_filter # None
          /\ g.content_filter.enabled /\ g.content_filter.block_pii
  THEN [DefaultSection EXCEPT !.enabled = TRUE, !.mode = "block"]
  ELSE None

(* The environment's section.                                              *)
EnvSection ==
  [enabled |-> TRUE, apply_to |-> DefaultRoles, mode |-> PiiEnv.mode,
   response_mode |-> PiiEnv.response_mode, strategy |-> PiiEnv.strategy,
   entities |-> PiiEnv.entities, min_confidence |-> PiiEnv.min_confidence,
   scan_tool_arguments |-> PiiEnv.scan_tool_arguments,
   fail_open |-> PiiEnv.fail_open]

Governing(c, auth) ==
  LET org == auth.org \in DOMAIN c.orgs
      of_team == IF org /\ auth.team \in DOMAIN c.orgs[auth.org].teams
                 THEN Meant(c.orgs[auth.org].teams[auth.team].guardrails) ELSE None
      of_org == IF org THEN Meant(c.orgs[auth.org].guardrails) ELSE None
  IN  CASE of_team # None -> of_team
        [] of_team = None /\ of_org # None -> of_org
        [] OTHER -> IF c.pii.enabled THEN c.pii ELSE EnvSection

(* The entities a section is about, and whether a scan came to nothing.    *)
Personal(section, text) ==
  {e \in text \cap DOMAIN Confidence :
     /\ Confidence[e] >= section.min_confidence
     /\ section.entities = None \/ e \in Upper(section.entities)}

ScanFailed(section, engine) ==
  engine # "ok" \/ (section.strategy = "encrypt" /\ ~HasKey)

(* No provider is ever sent an entity that the section governing the       *)
(* request wants redacted or blocked in that role, whatever order the      *)
(* configuration changed in, with an operator's fail_open the only way     *)
(* out.                                                                    *)
PiiWithheld ==
  \A r \in Requests : req[r].sent # None =>
    LET s == Governing(req[r].scan.config, Auth(r))
        slots == req[r].sent.slots
    IN  s.enabled /\ s.mode \in {"redact", "block"}
          /\ ~(s.fail_open /\ ScanFailed(s, req[r].scan.engine))
        => \A i \in DOMAIN slots :
             /\ slots[i].role \in s.apply_to
             /\ slots[i].kind = "text" \/ s.scan_tool_arguments
             => Personal(s, slots[i].text) = {}

(* No client of a non-streamed request reads an entity that the section    *)
(* governing its response wants withheld, from the cache or not, but for   *)
(* two ways out: the operator's fail_open, and an engine that panicked on  *)
(* the blocking pool, where only answers above the inline limit go.        *)
(* configuration.md:604-605 knows only the first: "On engine errors the    *)
(* response side fails closed by withholding the response (unless          *)
(* `fail_open`)".  After a panic check_response returns the Err that its   *)
(* own comment at pii_guardrail.rs:586-588 warns of, and the answer goes   *)
(* out unscanned with fail_open off.                                       *)
ResponseWithheld ==
  \A r \in Requests : req[r].check # None /\ req[r].shown # {} =>
    LET s == Governing(req[r].check.config, Auth(r))
    IN  s.enabled /\ s.response_mode \in {"redact", "block"}
          /\ req[r].check.engine # "panic"
          /\ ~(s.fail_open /\ ScanFailed(s, req[r].check.engine))
        => Personal(s, req[r].shown) = {}

(* A finished request left one usage record, a started stream too however  *)
(* it ended; an embedding, a request no target serves, a stream that never *)
(* started and a malformed legacy body left none.                          *)
Accountable(r) ==
  IF req[r].ask = None \/ req[r].ask.kind = "embed" THEN FALSE
  ELSE IF Stream(r) THEN req[r].rec # None
  ELSE req[r].pc = "done"
       /\ ~(req[r].error \in {"not_found", "forbidden"} /\ req[r].scan # None)

AccountedOnce ==
  \A r \in Requests :
    /\ req[r].records <= 1
    /\ req[r].pc \in {"done", "gone"} /\ Accountable(r) => req[r].records = 1
    /\ req[r].pc = "done" /\ ~Accountable(r) => req[r].records = 0

(* The spend store keeps one amount per key, no more keys than its cap and *)
(* no amount past its ceiling.                                             *)
SpendBounded ==
  /\ MaxKeys > 0 => Len(spend) <= MaxKeys
  /\ Cardinality(SpendKeys(spend)) = Len(spend)
  /\ \A i \in DOMAIN spend : spend[i].micro <= Ceiling

(* The most one answer can cost.                                           *)
CostliestReply ==
  LET costs == {CostOf(p) : p \in Replies}
  IN  CHOOSE c \in costs : \A d \in costs : d <= c

(* A key overspends by no more than one answer for each of its requests    *)
(* that were ever between the budget check and the charge at the same      *)
(* time, in a store that keeps its bounds: requests one after the other    *)
(* pass the limit by one answer at most, two that race by two.             *)
BudgetBounded ==
  /\ SpendBounded
  /\ \A a \in Principals :
       LET limit == LimitOf(a)
           spent == SpendGet(spend, SpendKey(a))
       IN  limit > 0 =>
             \/ spent < limit + peak[SpendKey(a)] * CostliestReply
             \/ \E s \in SpentBefore : spent <= SpendGet(s, SpendKey(a))

(* Every audit event is queued, written, counted as dropped, or was lost   *)
(* by the writer, which logs a failure to open or write the file, says     *)
(* nothing of one to serialise the event, and counts neither: a full queue *)
(* never loses an event uncounted, and dropped_events tells of that alone. *)
AuditConserved ==
  LET audited(r) == IF req[r].ask = None THEN 0
                    ELSE IF Stream(r) THEN IF req[r].rec = None THEN 0 ELSE 1
                    ELSE req[r].records
      logged == {r \in Requests : audited(r) = 1}
  IN  Len(audit.queue) + audit.written + audit.dropped + audit.lost
        = Cardinality(logged)

(* The requests that failed in their clients' eyes: answered with anything *)
(* but a 200, or a stream that broke off.                                  *)
Failed(r) ==
  /\ req[r].records = 1
  /\ IF Stream(r) THEN req[r].rec.error # None
     ELSE req[r].pc = "done" /\ req[r].status # 200

(* As long as the usage ring has evicted nothing, the dashboard and the    *)
(* page of each key count the requests there were and call those failed    *)
(* whose clients were told so, whichever of the ways through the pipeline  *)
(* left the record; and the log's last page shows the newest record of     *)
(* all, however many it evicted, until an operator deletes from it.        *)
StatisticsTold ==
  LET recorded == {r \in Requests : req[r].records = 1}
      failed == {r \in Requests : Failed(r)}
      board == Dashboard(usage, Cardinality(Payers), 5)
      newest == ListLogs(logs, [model |-> None, provider |-> None, since |-> None,
                                offset |-> Len(logs) - 1, limit |-> 1])
      of(k, rs) == Cardinality({r \in rs : Auth(r).key = k})
  IN  /\ tick <= MaxUsage =>
           /\ board.requests = Cardinality(recorded) /\ board.errors = Cardinality(failed)
           /\ \A k \in Payers \ {None} :
                LET page == KeyStats(usage, k)
                IN  /\ page.requests = of(k, recorded) /\ page.failed = of(k, failed)
                    /\ page.successful = of(k, recorded \ failed)
      /\ tick > 0 /\ changes = 0 => newest.data[1].at = tick

=============================================================================
