------------------------------ MODULE Routing -------------------------------
(***************************************************************************)
(* Live routing state and everything that changes it: the admin mutations  *)
(* of the model and endpoint tables, each followed by a rebuild of the     *)
(* routing targets; config reload and rollback, each followed by a         *)
(* re-assertion of the database's targets; and requests that resolve a     *)
(* target, its client and its key one after the other.                     *)
(*                                                                         *)
(* An endpoint row's ver stands for what it says (provider type, base URL, *)
(* API key); an update gives it a new one, 0 is "no row".  providers and   *)
(* provider_keys hold the ver a client or key was taken from, 0 for no     *)
(* entry, so a request shows which row its client and its key came from.   *)
(* config.targets and targets are written together, under both locks, by   *)
(* the same two functions: one variable stands for both.                   *)
(***************************************************************************)
EXTENDS Integers, Sequences, FiniteSets

CONSTANTS Models, Endpoints,
          ModelOf,          \* ModelEndpoint.model_id
          Unbuildable,      \* endpoints the provider registry cannot build
          Keyless,          \* endpoints stored without an API key
          EnvTargets,       \* config targets: they carry no endpoint id
          Admins,           \* concurrent admin calls
          Requests,
          Documents,        \* the targets a saved config document may name
          StoresMayFail,    \* may a read of the admin tables fail?
          MaxOps,           \* bound on admin calls, the startup included
          MaxRacing         \* bound on the ones that begin before a call ends

Targets == Endpoints \cup EnvTargets

ASSUME RoutingAssumption ==
  /\ ModelOf \in [Endpoints -> Models]
  /\ Unbuildable \subseteq Endpoints
  /\ Keyless \subseteq Endpoints
  /\ EnvTargets # {}
  /\ EnvTargets \cap Endpoints = {}
  /\ Documents \subseteq (SUBSET Targets) \ {{}}
  /\ StoresMayFail \in BOOLEAN
  /\ MaxOps \in Nat
  /\ MaxRacing \in Nat

VARIABLES models, rows,       \* the admin tables
          doc, targets,       \* live config: its settings and its targets
          provider_keys, providers, circuit_breakers,
          history,            \* ConfigHistory.entries; version = position
          admin, req,         \* admin calls and requests in progress
          ops,                \* admin calls begun
          \* History variables: see the section on them.
          stale, saved, unsure, late

store == <<models, rows>>
live == <<doc, targets, provider_keys, providers, circuit_breakers, history>>
ghosts == <<stale, saved, unsure, late>>
vars == <<store, live, admin, req, ops, ghosts>>

NoRow == [enabled |-> FALSE, ver |-> 0]

IdleCall == [pc |-> "idle", models |-> [m \in Models |-> "absent"],
             rows |-> [e \in Endpoints |-> NoRow], keep |-> FALSE,
             prev |-> {}, doc |-> 0, targets |-> {}, from |-> 0]

IdleRequest == [pc |-> "idle", target |-> CHOOSE t \in EnvTargets : TRUE]

(* The endpoints a rebuild turns into targets.                             *)
Built(ms, rs) ==
  {e \in Endpoints \ Unbuildable :
     ms[ModelOf[e]] = "enabled" /\ rs[e].ver # 0 /\ rs[e].enabled}

(* The state after the rebuild at startup.                                 *)
Init ==
  /\ models \in [Models -> {"absent", "enabled"}]
  /\ rows \in [Endpoints -> {NoRow, [enabled |-> TRUE, ver |-> 1]}]
  /\ \A e \in Endpoints : models[ModelOf[e]] = "absent" => rows[e] = NoRow
  /\ LET built == Built(models, rows) IN
       /\ targets = IF built = {} THEN EnvTargets ELSE built
       /\ providers = [t \in Targets |->
                         IF t \in EnvTargets \cup built THEN 1 ELSE 0]
       /\ provider_keys = [e \in Endpoints |->
                             IF e \in built \ Keyless THEN 1 ELSE 0]
  /\ doc = 1
  /\ history = <<[doc |-> 1, targets |-> EnvTargets, from |-> 0]>>
  /\ circuit_breakers = {}
  /\ admin = [a \in Admins |-> IdleCall]
  /\ req = [r \in Requests |-> IdleRequest]
  /\ ops = 1
  /\ stale = "no"
  /\ saved = FALSE
  /\ unsure = FALSE
  /\ late = {}

-----------------------------------------------------------------------------
(* History variables.  Nothing serialises the admin calls and a client may *)
(* hang up on one, so the properties must say which of these happened:     *)
(*   stale   "overlap" from the moment two calls are in flight until none  *)
(*           is; then, and after a call was cut off, "cut"; "unread" after *)
(*           a rebuild could not read the tables; "before" once a later    *)
(*           rebuild ran to its end by itself; "no" while none of it       *)
(*           happened;                                                     *)
(*   saved   the live targets are those of a config document;              *)
(*   unsure  two documents were applied in an overlap, or one was applied  *)
(*           and never recorded, and none was recorded by itself since;    *)
(*   late    breakers made for a target that had stopped routing.          *)

At(a, pc) == admin[a].pc = pc

Quiet == \A a \in Admins : At(a, "idle")

Alone(a) == \A b \in Admins \ {a} : At(b, "idle")

Applying(a) == admin[a].pc \in {"apply", "clear_breakers", "record"}

(* stale after call a, which would leave s behind it if it ran by itself.  *)
Left(a, s) == IF stale # "overlap" THEN s
              ELSE IF Alone(a) THEN "cut" ELSE "overlap"

(* A rebuild went through: what earlier calls left behind is past.         *)
CaughtUp == IF stale = "no" THEN "no" ELSE "before"

-----------------------------------------------------------------------------
(* Admin handlers: the write to the tables, then rebuild_targets.          *)

Begin(a, pc) ==
  /\ At(a, "idle")
  /\ ops < IF Quiet THEN MaxOps ELSE MaxRacing
  /\ ops' = ops + 1
  /\ admin' = [admin EXCEPT ![a] = [IdleCall EXCEPT !.pc = pc]]
  /\ stale' = IF Quiet THEN stale ELSE "overlap"
  /\ UNCHANGED <<live, req, saved, unsure, late>>

CreateModel(a, m) ==
  /\ Begin(a, "list_models")
  /\ models[m] = "absent"
  /\ \E s \in {"disabled", "enabled"} : models' = [models EXCEPT ![m] = s]
  /\ UNCHANGED rows

(* update_model and toggle_model.                                          *)
ToggleModel(a, m) ==
  /\ Begin(a, "list_models")
  /\ models[m] # "absent"
  /\ \E s \in {"disabled", "enabled"} : models' = [models EXCEPT ![m] = s]
  /\ UNCHANGED rows

(* An enabled model is refused with a conflict; its endpoints go with it.  *)
DeleteModel(a, m) ==
  /\ Begin(a, "list_models")
  /\ models[m] = "disabled"
  /\ models' = [models EXCEPT ![m] = "absent"]
  /\ rows' = [e \in Endpoints |-> IF ModelOf[e] = m THEN NoRow ELSE rows[e]]

CreateEndpoint(a, e) ==
  /\ Begin(a, "list_models")
  /\ models[ModelOf[e]] # "absent"
  /\ rows[e] = NoRow
  /\ e \notin Unbuildable
  /\ \E on \in BOOLEAN :
       rows' = [rows EXCEPT ![e] = [enabled |-> on, ver |-> ops + 1]]
  /\ UNCHANGED models

UpdateEndpoint(a, e) ==
  /\ Begin(a, "list_models")
  /\ rows[e] # NoRow
  /\ e \notin Unbuildable
  /\ \E on \in BOOLEAN :
       rows' = [rows EXCEPT ![e] = [enabled |-> on, ver |-> ops + 1]]
  /\ UNCHANGED models

(* Turning off an endpoint nobody can build must keep working.             *)
ToggleEndpoint(a, e) ==
  /\ Begin(a, "list_models")
  /\ rows[e] # NoRow
  /\ \E on \in BOOLEAN :
       /\ on => e \notin Unbuildable
       /\ rows' = [rows EXCEPT ![e].enabled = on]
  /\ UNCHANGED models

DeleteEndpoint(a, e) ==
  /\ Begin(a, "list_models")
  /\ rows[e] # NoRow
  /\ rows' = [rows EXCEPT ![e] = NoRow]
  /\ UNCHANGED models

-----------------------------------------------------------------------------
(* Config documents: reload or rollback, then the re-assertion.            *)

(* The document of call a becomes d with targets ts.                       *)
BeginApply(a, d, ts, from) ==
  /\ At(a, "idle")
  /\ ops < IF Quiet THEN MaxOps ELSE MaxRacing
  /\ ops' = ops + 1
  /\ admin' = [admin EXCEPT ![a] =
                 [IdleCall EXCEPT !.pc = "apply", !.keep = TRUE, !.doc = d,
                                  !.targets = ts, !.from = from]]
  /\ stale' = IF Quiet THEN stale ELSE "overlap"
  /\ unsure' = (unsure \/ \E b \in Admins : Applying(b))
  /\ UNCHANGED <<store, live, req, saved, late>>

(* PUT /admin/config and POST /admin/reload: a new document.  Its targets  *)
(* are the environment's or, when the operator edits what GET returned,    *)
(* endpoints that routed then.                                             *)
Reload(a) == \E ts \in Documents : BeginApply(a, ops + 1, ts, 0)

Rollback(a) ==
  \E v \in DOMAIN history :
    BeginApply(a, history[v].doc, history[v].targets, v)

Step(a, pc) == admin' = [admin EXCEPT ![a].pc = pc]

(* The handler returns and its locals are gone.                            *)
Done(a, s) ==
  /\ admin' = [admin EXCEPT ![a] = IdleCall]
  /\ stale' = Left(a, s)

(* The swap of apply_config, under the three write locks.                  *)
Apply(a) ==
  /\ At(a, "apply")
  /\ doc' = admin[a].doc
  /\ targets' = admin[a].targets
  /\ saved' = TRUE
  /\ Step(a, "clear_breakers")
  /\ UNCHANGED <<store, provider_keys, providers, circuit_breakers, history,
                 req, ops, stale, unsure, late>>

ClearBreakers(a) ==
  /\ At(a, "clear_breakers")
  /\ circuit_breakers' = {}
  /\ late' = {}
  /\ Step(a, "record")
  /\ UNCHANGED <<store, doc, targets, provider_keys, providers, history,
                 req, ops, stale, saved, unsure>>

(* The document is moved into the history; the re-assertion follows.       *)
Reasserts(a) ==
  admin' = [admin EXCEPT ![a] = [IdleCall EXCEPT !.pc = "list_models",
                                                 !.keep = TRUE]]

(* Mutant of Record: a rollback is not recorded as a version of its own.   *)
RecordNoRollback(a) ==
  /\ At(a, "record")
  /\ history' = IF admin[a].from = 0
                THEN Append(history, [doc |-> admin[a].doc,
                                      targets |-> admin[a].targets,
                                      from |-> 0])
                ELSE history
  /\ unsure' = (unsure /\ stale = "overlap")
  /\ Reasserts(a)
  /\ UNCHANGED <<store, doc, targets, provider_keys, providers,
                 circuit_breakers, req, ops, stale, saved, late>>

Record(a) ==
  /\ At(a, "record")
  /\ history' = Append(history, [doc |-> admin[a].doc,
                                 targets |-> admin[a].targets,
                                 from |-> admin[a].from])
  /\ unsure' = (unsure /\ stale = "overlap")
  /\ Reasserts(a)
  /\ UNCHANGED <<store, doc, targets, provider_keys, providers,
                 circuit_breakers, req, ops, stale, saved, late>>

-----------------------------------------------------------------------------
(* rebuild_targets and reassert_db_targets_after_config.                   *)

ListModels(a) ==
  /\ At(a, "list_models")
  /\ admin' = [admin EXCEPT ![a].pc = "list_endpoints", ![a].models = models]
  /\ UNCHANGED <<store, live, req, ops, ghosts>>

ListEndpoints(a) ==
  /\ At(a, "list_endpoints")
  /\ admin' = [admin EXCEPT ![a].pc = IF admin[a].keep THEN "build"
                                                       ELSE "owns",
                            ![a].rows = rows]
  /\ UNCHANGED <<store, live, req, ops, ghosts>>

(* Mutant of ListFails: a failed read counts as an empty table.            *)
FailureReadsEmpty(a) ==
  /\ StoresMayFail
  /\ At(a, "list_endpoints")
  /\ admin' = [admin EXCEPT ![a].pc = IF admin[a].keep THEN "build"
                                                       ELSE "owns",
                            ![a].rows = [e \in Endpoints |-> NoRow]]
  /\ UNCHANGED <<store, live, req, ops, ghosts>>

(* A read fails: no rebuild, the live state stays.                         *)
ListFails(a) ==
  /\ StoresMayFail
  /\ admin[a].pc \in {"list_models", "list_endpoints"}
  /\ Done(a, IF stale = "cut" THEN "cut" ELSE "unread")
  /\ UNCHANGED <<store, live, req, ops, saved, unsure, late>>

(* The client hangs up and the handler's future is dropped, at one of its  *)
(* awaits: a read of the tables, or a lock it waits for.                   *)
HangUp(a) ==
  /\ admin[a].pc \in {"apply", "record", "list_models", "list_endpoints",
                      "owns", "swap"}
  /\ Done(a, IF At(a, "apply") THEN stale ELSE "cut")
  /\ unsure' = (unsure \/ At(a, "record"))
  /\ UNCHANGED <<store, live, req, ops, saved, late>>

(* Mutant of DbOwnsRouting: an admin mutation always applies its result.   *)
AlwaysApply(a) ==
  /\ At(a, "owns")
  /\ Step(a, "build")
  /\ UNCHANGED <<store, live, req, ops, ghosts>>

(* keep is OnEmpty::KeepPrevious: an empty result replaces the targets     *)
(* only if the database owned routing.                                     *)
DbOwnsRouting(a) ==
  /\ At(a, "owns")
  /\ admin' = [admin EXCEPT ![a].pc = "build",
                            ![a].keep = (targets \cap Endpoints = {})]
  /\ UNCHANGED <<store, live, req, ops, ghosts>>

NewTargets(a) == Built(admin[a].models, admin[a].rows)

(* The build loop registers the clients; then the keep-previous exit.      *)
Build(a) ==
  /\ At(a, "build")
  /\ providers' = [t \in Targets |->
                     IF t \in NewTargets(a) THEN admin[a].rows[t].ver
                                            ELSE providers[t]]
  /\ IF NewTargets(a) = {} /\ admin[a].keep
     THEN Done(a, CaughtUp)
     ELSE Step(a, "insert_keys") /\ UNCHANGED stale
  /\ UNCHANGED <<store, doc, targets, provider_keys, circuit_breakers,
                 history, req, ops, saved, unsure, late>>

(* Mutant of InsertKeys: clear the map first.                              *)
ClearKeysFirst(a) ==
  /\ At(a, "insert_keys")
  /\ provider_keys' = [e \in Endpoints |-> 0]
  /\ Step(a, "retain_keys")
  /\ UNCHANGED <<store, doc, targets, providers, circuit_breakers, history,
                 req, ops, ghosts>>

InsertKeys(a) ==
  /\ At(a, "insert_keys")
  /\ provider_keys' = [e \in Endpoints |->
                         IF e \in NewTargets(a) \ Keyless
                         THEN admin[a].rows[e].ver
                         ELSE provider_keys[e]]
  /\ Step(a, "retain_keys")
  /\ UNCHANGED <<store, doc, targets, providers, circuit_breakers, history,
                 req, ops, ghosts>>

(* Mutant of RetainKeys: nothing is dropped.                               *)
RetainAllKeys(a) ==
  /\ At(a, "retain_keys")
  /\ Step(a, "swap")
  /\ UNCHANGED <<store, live, req, ops, ghosts>>

RetainKeys(a) ==
  /\ At(a, "retain_keys")
  /\ provider_keys' = [e \in Endpoints |->
                         IF e \in NewTargets(a) \ Keyless
                         THEN provider_keys[e] ELSE 0]
  /\ Step(a, "swap")
  /\ UNCHANGED <<store, doc, targets, providers, circuit_breakers, history,
                 req, ops, ghosts>>

(* Under the config and targets write locks.                               *)
Swap(a) ==
  /\ At(a, "swap")
  /\ targets' = NewTargets(a)
  /\ admin' = [admin EXCEPT ![a].pc = "retain_breakers",
                            ![a].prev = targets \cap Endpoints]
  /\ saved' = FALSE
  /\ UNCHANGED <<store, doc, provider_keys, providers, circuit_breakers,
                 history, req, ops, stale, unsure, late>>

RetainBreakers(a) ==
  /\ At(a, "retain_breakers")
  /\ circuit_breakers' = circuit_breakers \cap NewTargets(a)
  /\ late' = late \cap NewTargets(a)
  /\ Step(a, "prune")
  /\ UNCHANGED <<store, doc, targets, provider_keys, providers, history,
                 req, ops, stale, saved, unsure>>

(* Mutant of PruneClients: clients are retained on the new targets.        *)
RetainClients(a) ==
  /\ At(a, "prune")
  /\ providers' = [t \in Targets |->
                     IF t \in NewTargets(a) THEN providers[t] ELSE 0]
  /\ Done(a, CaughtUp)
  /\ UNCHANGED <<store, doc, targets, provider_keys, circuit_breakers,
                 history, req, ops, saved, unsure, late>>

(* The clients of endpoints that were targets until the swap.              *)
PruneClients(a) ==
  /\ At(a, "prune")
  /\ providers' = [t \in Targets |->
                     IF t \in admin[a].prev \ NewTargets(a) THEN 0
                                                            ELSE providers[t]]
  /\ Done(a, CaughtUp)
  /\ UNCHANGED <<store, doc, targets, provider_keys, circuit_breakers,
                 history, req, ops, saved, unsure, late>>

-----------------------------------------------------------------------------
(* Requests.  What one finds when it looks up the client and then the key  *)
(* of its target is what SurvivorsServable says of the maps at every       *)
(* moment: the model keeps the steps that change the routing state, for    *)
(* one candidate of each request.                                          *)

SelectTarget(r) ==
  /\ req[r].pc = "idle"
  /\ \E t \in targets :
       req' = [req EXCEPT ![r] = [pc |-> "attempt", target |-> t]]
  /\ UNCHANGED <<store, live, admin, ops, ghosts>>

(* The breaker entry of a candidate is created if missing, even though the *)
(* candidate then ends with ProviderNotFound.                              *)
LookupClient(r) ==
  /\ req[r].pc = "attempt"
  /\ circuit_breakers' = circuit_breakers \cup {req[r].target}
  /\ late' = late \cup ({req[r].target} \ (targets \cup circuit_breakers))
  /\ req' = [req EXCEPT ![r] = [IdleRequest EXCEPT !.pc = "done"]]
  /\ UNCHANGED <<store, doc, targets, provider_keys, providers, history,
                 admin, ops, stale, saved, unsure>>

AdminStep(a) ==
  \/ \E m \in Models : CreateModel(a, m) \/ ToggleModel(a, m)
                         \/ DeleteModel(a, m)
  \/ \E e \in Endpoints : CreateEndpoint(a, e) \/ UpdateEndpoint(a, e)
                            \/ ToggleEndpoint(a, e) \/ DeleteEndpoint(a, e)
  \/ Reload(a) \/ Rollback(a) \/ Apply(a) \/ ClearBreakers(a) \/ Record(a)
  \/ ListModels(a) \/ ListEndpoints(a) \/ ListFails(a) \/ HangUp(a)
  \/ DbOwnsRouting(a) \/ Build(a) \/ InsertKeys(a) \/ RetainKeys(a) \/ Swap(a)
  \/ RetainBreakers(a) \/ PruneClients(a)

RequestStep(r) == SelectTarget(r) \/ LookupClient(r)

Next == (\E a \in Admins : AdminStep(a)) \/ (\E r \in Requests : RequestStep(r))

Spec == Init /\ [][Next]_vars

-----------------------------------------------------------------------------
AdminPC == {"idle", "apply", "clear_breakers", "record", "list_models",
            "list_endpoints", "owns", "build", "insert_keys", "retain_keys",
            "swap", "retain_breakers", "prune"}

Row == [enabled : BOOLEAN, ver : Nat]

(* The tables, the live maps, the history and the calls have their types.  *)
TypeOK ==
  /\ models \in [Models -> {"absent", "disabled", "enabled"}]
  /\ rows \in [Endpoints -> Row]
  /\ doc \in Nat
  /\ targets \subseteq Targets
  /\ provider_keys \in [Endpoints -> Nat]
  /\ providers \in [Targets -> Nat]
  /\ circuit_breakers \subseteq Targets
  /\ history \in Seq([doc : Nat, targets : SUBSET Targets, from : Nat])
  /\ admin \in [Admins ->
       [pc : AdminPC, keep : BOOLEAN, prev : SUBSET Endpoints,
        models : [Models -> {"absent", "disabled", "enabled"}],
        rows : [Endpoints -> Row],
        doc : Nat, targets : SUBSET Targets, from : Nat]]
  /\ req \in [Requests ->
       [pc : {"idle", "attempt", "done"}, target : Targets]]
  /\ ops \in Nat
  /\ stale \in {"no", "unread", "cut", "before", "overlap"}
  /\ saved \in BOOLEAN
  /\ unsure \in BOOLEAN
  /\ late \subseteq Targets

(* README: admin changes "rebuild routing targets live"; handlers.rs: the  *)
(* re-assertion after a config save "keeps the two in sync".  Once no      *)
(* admin call runs, the endpoints that route are the ones the tables       *)
(* enable, each with the client and the key of its row as it is.  Not      *)
(* after a rebuild that overlapped another call, was cut off or could not  *)
(* read the tables, until one runs to its end by itself; and not when the  *)
(* tables enable nothing and a document that was saved with endpoints in   *)
(* it stays live.                                                          *)
RoutingMatchesTables ==
  (Quiet /\ stale \in {"no", "before"}) =>
    \/ /\ targets \cap Endpoints = Built(models, rows)
       /\ \A e \in targets \cap Endpoints :
            /\ providers[e] = rows[e].ver
            /\ e \in Keyless \/ provider_keys[e] = rows[e].ver
    \/ saved /\ Built(models, rows) = {}

(* The environment's clients survive all rebuilds.                         *)
EnvClientsStay == \A t \in EnvTargets : providers[t] # 0

(* rebuild.rs: clients of endpoints that no longer route are dropped "or   *)
(* they accumulate for the process's life", no credential outlives its     *)
(* endpoint, and a breaker does only when a request that had chosen the    *)
(* endpoint before it was dropped made the entry again.                    *)
NothingLeaks ==
  (Quiet /\ stale = "no") =>
    /\ \A e \in Endpoints \ Built(models, rows) :
         providers[e] = 0 /\ provider_keys[e] = 0
    /\ circuit_breakers \subseteq targets \cup late

(* When the admin calls are over, the tables, the targets, the clients and *)
(* the keys agree, although each is swapped in a step of its own.          *)
RoutingInSync == RoutingMatchesTables /\ EnvClientsStay /\ NothingLeaks

(* rebuild.rs says a request that holds a target sees "either the old or   *)
(* the new key for its endpoint -- never a missing one".  A live endpoint  *)
(* does lack its key or its client: between the retain and the swap of a   *)
(* rebuild that drops the endpoint; after a rebuild that was cut off there *)
(* or that overlapped another; and when the live targets are those of a    *)
(* document that names an endpoint of the past.  At no other moment.       *)
SurvivorsServable ==
  \A e \in targets \cap Endpoints :
    (providers[e] = 0 \/ (e \notin Keyless /\ provider_keys[e] = 0)) =>
      \/ \E a \in Admins : At(a, "swap") /\ e \notin NewTargets(a)
      \/ stale \in {"cut", "overlap"}
      \/ saved

(* handlers.rs: "While env/config targets are live, an empty DB must not   *)
(* replace them".  It does only when another admin call overlaps: a reload *)
(* between the ownership test of a rebuild and its swap.                   *)
EnvNeverWiped ==
  [][ (targets # {} /\ targets \cap Endpoints = {} /\ targets' = {}) =>
        stale = "overlap" ]_vars

(* The newest version of the history is the configuration that is live,    *)
(* except between two documents applied in an overlap, or after a call cut *)
(* off between applying and recording, until a document is recorded by     *)
(* itself; and a version made by a rollback equals the version it names.   *)
HistoryFaithful ==
  /\ (Quiet /\ ~unsure) => history[Len(history)].doc = doc
  /\ \A v \in DOMAIN history :
       LET from == history[v].from IN
         from # 0 => /\ from < v
                     /\ history[from].doc = history[v].doc
=============================================================================
