--------------------------- MODULE RoutingProofs ----------------------------
(***************************************************************************)
(* Proofs about Routing, for every set of models, endpoints, documents and *)
(* requests and any number of admin calls, overlapping, cut off or failing *)
(* to read the tables: the types, and the properties of the Routing run.   *)
(* And about GatewayLocks, whose locks keep a request from the middle of a *)
(* reload.                                                                 *)
(***************************************************************************)
EXTENDS Routing, GatewayLocks, SequenceTheorems, TLAPS

Calls ==
  [pc : AdminPC, keep : BOOLEAN, prev : SUBSET Endpoints,
   models : [Models -> {"absent", "disabled", "enabled"}],
   rows : [Endpoints -> Row],
   doc : Nat, targets : SUBSET Targets, from : Nat]

Versions == [doc : Nat, targets : SUBSET Targets, from : Nat]

RequestState == [pc : {"idle", "attempt", "done"}, target : Targets]

Staleness == {"no", "unread", "cut", "before", "overlap"}

Tables ==
  /\ models \in [Models -> {"absent", "disabled", "enabled"}]
  /\ rows \in [Endpoints -> Row]

-----------------------------------------------------------------------------
(* What the helpers of the actions do to a call's record.                  *)

(* The record of a call that begins, or has returned, is a call's record.  *)
LEMMA IdleCallType == IdleCall \in Calls
<1>1. NoRow \in Row
  BY DEF NoRow, Row
<1>2. QED
  BY <1>1 DEF IdleCall, Calls, AdminPC

(* Begin sets the label and leaves the other fields as in IdleCall.        *)
LEMMA BegunFields ==
  ASSUME NEW a \in Admins, NEW p \in AdminPC,
         admin \in [Admins -> Calls],
         admin' = [admin EXCEPT ![a] = [IdleCall EXCEPT !.pc = p]]
  PROVE  /\ admin' \in [Admins -> Calls]
         /\ \A b \in Admins : b # a => admin'[b] = admin[b]
         /\ admin'[a].pc = p
         /\ admin'[a].keep = FALSE
         /\ admin'[a].prev = {}
<1>1. PICK q : q = [IdleCall EXCEPT !.pc = p]
  OBVIOUS
<1>2. /\ q \in Calls
      /\ q.pc = p
      /\ q.keep = FALSE
      /\ q.prev = {}
  BY <1>1, IdleCallType DEF IdleCall, Calls
<1>3. admin' = [admin EXCEPT ![a] = q]
  BY <1>1
<1>4. QED
  BY <1>2, <1>3

(* Recording leaves a call that re-asserts the tables.                     *)
LEMMA ReassertFields ==
  ASSUME NEW a \in Admins, admin \in [Admins -> Calls], Reasserts(a)
  PROVE  /\ admin' \in [Admins -> Calls]
         /\ \A b \in Admins : b # a => admin'[b] = admin[b]
         /\ admin'[a].pc = "list_models"
         /\ admin'[a].keep = TRUE
         /\ admin'[a].prev = {}
<1>1. PICK q : q = [IdleCall EXCEPT !.pc = "list_models", !.keep = TRUE]
  OBVIOUS
<1>2. /\ q \in Calls
      /\ q.pc = "list_models"
      /\ q.keep = TRUE
      /\ q.prev = {}
  BY <1>1, IdleCallType DEF IdleCall, Calls, AdminPC
<1>3. admin' = [admin EXCEPT ![a] = q]
  BY <1>1 DEF Reasserts
<1>4. QED
  BY <1>2, <1>3

(* BeginApply fills in the document.                                       *)
LEMMA ApplyFields ==
  ASSUME NEW a \in Admins, NEW d \in Nat, NEW ts \in SUBSET Targets,
         NEW f \in Nat, admin \in [Admins -> Calls], BeginApply(a, d, ts, f)
  PROVE  /\ admin' \in [Admins -> Calls]
         /\ \A b \in Admins : b # a => admin'[b] = admin[b]
         /\ admin'[a].pc = "apply"
         /\ admin'[a].keep = TRUE
         /\ admin'[a].prev = {}
         /\ admin'[a].doc = d
         /\ admin'[a].targets = ts
         /\ admin'[a].from = f
<1>1. PICK q : q = [IdleCall EXCEPT !.pc = "apply", !.keep = TRUE, !.doc = d,
                                    !.targets = ts, !.from = f]
  OBVIOUS
<1>2. q = [pc |-> "apply", models |-> IdleCall.models,
           rows |-> IdleCall.rows, keep |-> TRUE,
           prev |-> {}, doc |-> d, targets |-> ts, from |-> f]
  BY <1>1 DEF IdleCall
<1>3. /\ q \in Calls
      /\ q.pc = "apply"
      /\ q.keep = TRUE
      /\ q.prev = {}
      /\ q.doc = d
      /\ q.targets = ts
      /\ q.from = f
  BY <1>2, IdleCallType DEF Calls, AdminPC
<1>4. admin' = [admin EXCEPT ![a] = q]
  BY <1>1 DEF BeginApply
<1>5. QED
  BY <1>3, <1>4

(* Step moves the label and nothing else.                                  *)
LEMMA StepFields ==
  ASSUME NEW a \in Admins, NEW p \in AdminPC,
         admin \in [Admins -> Calls], Step(a, p)
  PROVE  /\ admin' \in [Admins -> Calls]
         /\ \A b \in Admins : b # a => admin'[b] = admin[b]
         /\ admin'[a].pc = p
         /\ admin'[a].keep = admin[a].keep
         /\ admin'[a].prev = admin[a].prev
         /\ admin'[a].models = admin[a].models
         /\ admin'[a].rows = admin[a].rows
         /\ admin'[a].doc = admin[a].doc
         /\ admin'[a].targets = admin[a].targets
         /\ admin'[a].from = admin[a].from
<1>1. PICK q : q = [admin[a] EXCEPT !.pc = p]
  OBVIOUS
<1>2. admin[a] \in Calls
  OBVIOUS
<1>3. q \in Calls
  BY <1>1, <1>2 DEF Calls
<1>4. /\ q.pc = p
      /\ q.keep = admin[a].keep
      /\ q.prev = admin[a].prev
      /\ q.models = admin[a].models
      /\ q.rows = admin[a].rows
      /\ q.doc = admin[a].doc
      /\ q.targets = admin[a].targets
      /\ q.from = admin[a].from
  BY <1>1, <1>2 DEF Calls
<1>5. admin' = [admin EXCEPT ![a] = q]
  BY <1>1 DEF Step
<1>6. QED
  BY <1>3, <1>4, <1>5

(* A call that returns leaves the idle record.                             *)
LEMMA DoneFields ==
  ASSUME NEW a \in Admins, admin \in [Admins -> Calls], NEW s, Done(a, s)
  PROVE  /\ admin' \in [Admins -> Calls]
         /\ \A b \in Admins : b # a => admin'[b] = admin[b]
         /\ admin'[a].pc = "idle"
         /\ admin'[a].keep = FALSE
         /\ admin'[a].prev = {}
<1>1. PICK q : q = IdleCall
  OBVIOUS
<1>2. /\ q \in Calls
      /\ q.pc = "idle"
      /\ q.keep = FALSE
      /\ q.prev = {}
  BY <1>1, IdleCallType DEF IdleCall
<1>3. admin' = [admin EXCEPT ![a] = q]
  BY <1>1 DEF Done
<1>4. QED
  BY <1>2, <1>3

(* The reads of a rebuild store what they read.                            *)
LEMMA ListModelsFields ==
  ASSUME Tables, NEW a \in Admins, admin \in [Admins -> Calls], ListModels(a)
  PROVE  /\ admin' \in [Admins -> Calls]
         /\ \A b \in Admins : b # a => admin'[b] = admin[b]
         /\ admin'[a].pc = "list_endpoints"
         /\ admin'[a].keep = admin[a].keep
         /\ admin'[a].prev = admin[a].prev
         /\ admin'[a].models = models
<1>1. PICK q : q = [admin[a] EXCEPT !.pc = "list_endpoints", !.models = models]
  OBVIOUS
<1>2. admin[a] \in Calls
  OBVIOUS
<1>3. /\ q \in Calls
      /\ q.pc = "list_endpoints"
      /\ q.keep = admin[a].keep
      /\ q.prev = admin[a].prev
      /\ q.models = models
  BY <1>1, <1>2 DEF Calls, Tables, AdminPC
<1>4. admin' = [admin EXCEPT ![a] = q]
  BY <1>1, <1>2 DEF ListModels, Calls
<1>5. QED
  BY <1>3, <1>4

(* What reading the endpoints leaves in the call.                          *)
LEMMA ListEndpointsFields ==
  ASSUME Tables, NEW a \in Admins, admin \in [Admins -> Calls],
         ListEndpoints(a)
  PROVE  /\ admin' \in [Admins -> Calls]
         /\ \A b \in Admins : b # a => admin'[b] = admin[b]
         /\ admin'[a].pc = IF admin[a].keep THEN "build" ELSE "owns"
         /\ admin'[a].keep = admin[a].keep
         /\ admin'[a].prev = admin[a].prev
         /\ admin'[a].models = admin[a].models
         /\ admin'[a].rows = rows
<1>1. PICK q : q = [admin[a] EXCEPT !.pc = IF admin[a].keep THEN "build"
                                                            ELSE "owns",
                                    !.rows = rows]
  OBVIOUS
<1>2. admin[a] \in Calls
  OBVIOUS
<1>3. /\ q \in Calls
      /\ q.pc = IF admin[a].keep THEN "build" ELSE "owns"
      /\ q.keep = admin[a].keep
      /\ q.prev = admin[a].prev
      /\ q.models = admin[a].models
      /\ q.rows = rows
  BY <1>1, <1>2 DEF Calls, Tables, AdminPC
<1>4. admin' = [admin EXCEPT ![a] = q]
  BY <1>1, <1>2 DEF ListEndpoints, Calls
<1>5. QED
  BY <1>3, <1>4

(* What the test of ownership leaves in the call.                          *)
LEMMA DbOwnsRoutingFields ==
  ASSUME NEW a \in Admins, admin \in [Admins -> Calls], DbOwnsRouting(a)
  PROVE  /\ admin' \in [Admins -> Calls]
         /\ \A b \in Admins : b # a => admin'[b] = admin[b]
         /\ admin'[a].pc = "build"
         /\ admin'[a].keep = (targets \cap Endpoints = {})
         /\ admin'[a].prev = admin[a].prev
         /\ admin'[a].models = admin[a].models
         /\ admin'[a].rows = admin[a].rows
<1>1. PICK k \in BOOLEAN : k = (targets \cap Endpoints = {})
  OBVIOUS
<1>2. PICK q : q = [admin[a] EXCEPT !.pc = "build", !.keep = k]
  OBVIOUS
<1>3. admin[a] \in Calls
  OBVIOUS
<1>4. /\ q \in Calls
      /\ q.pc = "build"
      /\ q.keep = k
      /\ q.prev = admin[a].prev
      /\ q.models = admin[a].models
      /\ q.rows = admin[a].rows
  BY <1>2, <1>3 DEF Calls, AdminPC
<1>5. admin' = [admin EXCEPT ![a].pc = "build", ![a].keep = k]
  BY <1>1, Zenon DEF DbOwnsRouting
<1>6. admin' = [admin EXCEPT ![a] = q]
  BY <1>2, <1>3, <1>5
<1>7. QED
  BY <1>1, <1>4, <1>6

(* What the swap of the targets leaves in the call.                        *)
LEMMA SwapFields ==
  ASSUME NEW a \in Admins, admin \in [Admins -> Calls], Swap(a)
  PROVE  /\ admin' \in [Admins -> Calls]
         /\ \A b \in Admins : b # a => admin'[b] = admin[b]
         /\ admin'[a].pc = "retain_breakers"
         /\ admin'[a].prev = targets \cap Endpoints
         /\ admin'[a].models = admin[a].models
         /\ admin'[a].rows = admin[a].rows
<1>1. PICK q : q = [admin[a] EXCEPT !.pc = "retain_breakers",
                                    !.prev = targets \cap Endpoints]
  OBVIOUS
<1>2. admin[a] \in Calls
  OBVIOUS
<1>3. /\ q \in Calls
      /\ q.pc = "retain_breakers"
      /\ q.prev = targets \cap Endpoints
      /\ q.models = admin[a].models
      /\ q.rows = admin[a].rows
  BY <1>1, <1>2 DEF Calls, AdminPC
<1>4. admin' = [admin EXCEPT ![a] = q]
  BY <1>1, <1>2 DEF Swap
<1>5. QED
  BY <1>3, <1>4

-----------------------------------------------------------------------------
(* Types.                                                                  *)

Typed ==
  /\ Tables
  /\ doc \in Nat
  /\ targets \subseteq Targets
  /\ provider_keys \in [Endpoints -> Nat]
  /\ providers \in [Targets -> Nat]
  /\ circuit_breakers \subseteq Targets
  /\ history \in Seq(Versions)
  /\ admin \in [Admins -> Calls]
  /\ req \in [Requests -> RequestState]
  /\ ops \in Nat
  /\ stale \in Staleness
  /\ saved \in BOOLEAN
  /\ unsure \in BOOLEAN
  /\ late \subseteq Targets

(* TypeOK with its record sets named.                                      *)
LEMMA TypedIsTypeOK == Typed <=> TypeOK
  BY DEF Typed, TypeOK, Tables, Calls, Versions, RequestState, Staleness

(* What a rebuild turns into targets are endpoints with a row.             *)
LEMMA BuiltEndpoints ==
  ASSUME NEW ms, NEW rs
  PROVE  /\ Built(ms, rs) \subseteq Endpoints
         /\ \A e \in Built(ms, rs) : rs[e].ver # 0
  BY DEF Built

(* The idle request is a request.                                          *)
LEMMA IdleRequestType == IdleRequest \in RequestState
<1>1. (CHOOSE t \in EnvTargets : TRUE) \in EnvTargets
  BY RoutingAssumption
<1>2. QED
  BY <1>1 DEF IdleRequest, RequestState, Targets

(* A start from any tables is well typed.                                  *)
LEMMA TypedInit == Init => Typed
<1>1. SUFFICES ASSUME Init PROVE Typed
  OBVIOUS
<1>2. Tables
  <2>1. NoRow \in Row /\ [enabled |-> TRUE, ver |-> 1] \in Row
    BY DEF NoRow, Row
  <2>2. rows \in [Endpoints -> Row]
    BY <1>1, <2>1 DEF Init
  <2>3. models \in [Models -> {"absent", "disabled", "enabled"}]
    BY <1>1 DEF Init
  <2>4. QED
    BY <2>2, <2>3 DEF Tables
<1>3. targets \subseteq Targets
  BY <1>1, BuiltEndpoints DEF Init, Targets
<1>4. /\ provider_keys \in [Endpoints -> Nat]
      /\ providers \in [Targets -> Nat]
  BY <1>1 DEF Init
<1>5. [doc |-> 1, targets |-> EnvTargets, from |-> 0] \in Versions
  BY DEF Versions, Targets
<1>6. history \in Seq(Versions)
  BY <1>1, <1>5 DEF Init
<1>7. admin \in [Admins -> Calls]
  BY <1>1, <1>2, IdleCallType DEF Init
<1>8. req \in [Requests -> RequestState]
  BY <1>1, IdleRequestType DEF Init
<1>9. QED
  BY <1>1, <1>2, <1>3, <1>4, <1>6, <1>7, <1>8 DEF Init, Typed, Staleness

(* One of the admin mutations of the tables.                               *)
Mutates(a) ==
  \/ \E m \in Models : CreateModel(a, m) \/ ToggleModel(a, m)
                         \/ DeleteModel(a, m)
  \/ \E e \in Endpoints : CreateEndpoint(a, e) \/ UpdateEndpoint(a, e)
                            \/ ToggleEndpoint(a, e) \/ DeleteEndpoint(a, e)

(* The tables after an admin mutation.                                     *)
LEMMA MutationTypes ==
  ASSUME Typed, NEW a \in Admins, Mutates(a)
  PROVE  /\ Tables'
         /\ Begin(a, "list_models")
<1>1. ASSUME NEW m \in Models, CreateModel(a, m) \/ ToggleModel(a, m)
      PROVE  Tables' /\ Begin(a, "list_models")
  BY <1>1 DEF Typed, Tables, CreateModel, ToggleModel
<1>2. ASSUME NEW m \in Models, DeleteModel(a, m)
      PROVE  Tables' /\ Begin(a, "list_models")
  BY <1>2 DEF Typed, Tables, DeleteModel, NoRow, Row
<1>3. ASSUME NEW e \in Endpoints, CreateEndpoint(a, e) \/ UpdateEndpoint(a, e)
      PROVE  Tables' /\ Begin(a, "list_models")
  <2>1. PICK on \in BOOLEAN :
          rows' = [rows EXCEPT ![e] = [enabled |-> on, ver |-> ops + 1]]
    BY <1>3 DEF CreateEndpoint, UpdateEndpoint
  <2>2. [enabled |-> on, ver |-> ops + 1] \in Row
    BY DEF Typed, Row
  <2>3. QED
    BY <1>3, <2>1, <2>2 DEF Typed, Tables, CreateEndpoint, UpdateEndpoint
<1>4. ASSUME NEW e \in Endpoints, ToggleEndpoint(a, e)
      PROVE  Tables' /\ Begin(a, "list_models")
  <2>1. PICK on \in BOOLEAN : rows' = [rows EXCEPT ![e].enabled = on]
    BY <1>4 DEF ToggleEndpoint
  <2>2. PICK q : q = [rows[e] EXCEPT !.enabled = on]
    OBVIOUS
  <2>3. q \in Row
    BY <2>2 DEF Typed, Tables, Row
  <2>4. rows' = [rows EXCEPT ![e] = q]
    BY <2>1, <2>2
  <2>5. QED
    BY <1>4, <2>3, <2>4 DEF Typed, Tables, ToggleEndpoint
<1>5. ASSUME NEW e \in Endpoints, DeleteEndpoint(a, e)
      PROVE  Tables' /\ Begin(a, "list_models")
  BY <1>5 DEF Typed, Tables, DeleteEndpoint, NoRow, Row
<1>6. QED
  BY <1>1, <1>2, <1>3, <1>4, <1>5 DEF Mutates

(* A document that is applied is a new one, or repeats a version of the    *)
(* history.                                                                *)
LEMMA DocumentTypes ==
  ASSUME Typed, NEW a \in Admins, Reload(a) \/ Rollback(a)
  PROVE  \E d \in Nat : \E ts \in SUBSET Targets : \E f \in Nat :
           /\ BeginApply(a, d, ts, f)
           /\ \/ f = 0 /\ ts \in Documents
              \/ /\ f \in DOMAIN history
                 /\ d = history[f].doc
                 /\ ts = history[f].targets
<1>1. CASE Reload(a)
  <2>1. PICK ts \in Documents : BeginApply(a, ops + 1, ts, 0)
    BY <1>1 DEF Reload
  <2>2. ops + 1 \in Nat /\ ts \in SUBSET Targets /\ 0 \in Nat
    BY RoutingAssumption DEF Typed
  <2>3. QED
    BY <2>1, <2>2
<1>2. CASE Rollback(a)
  <2>1. PICK v \in DOMAIN history :
          BeginApply(a, history[v].doc, history[v].targets, v)
    BY <1>2 DEF Rollback
  <2>2. history[v] \in Versions /\ v \in Nat
    BY DEF Typed
  <2>3. history[v].doc \in Nat /\ history[v].targets \in SUBSET Targets
    BY <2>2 DEF Versions
  <2>4. QED
    BY <2>1, <2>2, <2>3
<1>3. QED
  BY <1>1, <1>2

(* A rebuild writes the row versions its call has read.                    *)
LEMMA VersionTypes ==
  ASSUME Typed, NEW a \in Admins
  PROVE  /\ admin[a] \in Calls
         /\ NewTargets(a) \subseteq Endpoints
         /\ \A e \in NewTargets(a) : /\ admin[a].rows[e].ver \in Nat
                                     /\ admin[a].rows[e].ver # 0
<1>1. admin[a] \in Calls
  BY DEF Typed
<1>2. NewTargets(a) \subseteq Endpoints
  BY BuiltEndpoints DEF NewTargets
<1>3. \A e \in NewTargets(a) : admin[a].rows[e].ver # 0
  BY BuiltEndpoints DEF NewTargets
<1>4. admin[a].rows \in [Endpoints -> Row]
  BY <1>1 DEF Calls
<1>5. QED
  BY <1>1, <1>2, <1>3, <1>4 DEF Row

(* What a call leaves behind it.                                           *)
LEMMA LeftTypes ==
  ASSUME Typed, NEW a \in Admins, NEW s \in Staleness
  PROVE  /\ Left(a, s) \in Staleness
         /\ CaughtUp \in Staleness
  BY DEF Left, CaughtUp, Staleness

(* A step of an admin call keeps the types.                                *)
LEMMA TypedAdmin ==
  ASSUME Typed, NEW a \in Admins, AdminStep(a)
  PROVE  Typed'
<1> USE DEF store, live, ghosts
<1>0. /\ admin \in [Admins -> Calls]
      /\ Tables
      /\ admin[a] \in Calls
  BY DEF Typed
<1>1. CASE Mutates(a)
  <2>1. Tables' /\ Begin(a, "list_models")
    BY <1>1, MutationTypes
  <2>2. "list_models" \in AdminPC
    BY DEF AdminPC
  <2>3. admin' \in [Admins -> Calls]
    BY <1>0, <2>1, <2>2, BegunFields DEF Begin
  <2>4. QED
    BY <2>1, <2>3 DEF Typed, Begin, Staleness
<1>2. CASE Reload(a) \/ Rollback(a)
  <2>1. PICK d \in Nat, ts \in SUBSET Targets, f \in Nat :
          BeginApply(a, d, ts, f)
    BY <1>2, DocumentTypes
  <2>2. admin' \in [Admins -> Calls]
    BY <1>0, <2>1, ApplyFields
  <2>3. QED
    BY <2>1, <2>2 DEF Typed, BeginApply, Tables, Staleness
<1>3. CASE Apply(a)
  <2>1. admin' \in [Admins -> Calls]
    BY <1>0, <1>3, StepFields DEF Apply, AdminPC
  <2>2. doc' \in Nat /\ targets' \subseteq Targets
    BY <1>0, <1>3 DEF Apply, Calls
  <2>3. QED
    BY <1>3, <2>1, <2>2 DEF Typed, Apply, Tables
<1>4. CASE ClearBreakers(a)
  <2>1. admin' \in [Admins -> Calls]
    BY <1>0, <1>4, StepFields DEF ClearBreakers, AdminPC
  <2>2. QED
    BY <1>4, <2>1 DEF Typed, ClearBreakers, Tables
<1>5. CASE Record(a)
  <2>1. admin' \in [Admins -> Calls]
    BY <1>0, <1>5, ReassertFields DEF Record
  <2>2. PICK q : q = [doc |-> admin[a].doc, targets |-> admin[a].targets,
                      from |-> admin[a].from]
    OBVIOUS
  <2>3. q \in Versions
    BY <1>0, <2>2 DEF Calls, Versions
  <2>4. history' = Append(history, q)
    BY <1>5, <2>2 DEF Record
  <2>5. history' \in Seq(Versions)
    BY <2>3, <2>4 DEF Typed
  <2>6. QED
    BY <1>5, <2>1, <2>5 DEF Typed, Record, Tables
<1>6. CASE ListModels(a)
  <2>1. admin' \in [Admins -> Calls]
    BY <1>0, <1>6, ListModelsFields
  <2>2. QED
    BY <1>6, <2>1 DEF Typed, ListModels, Tables
<1>7. CASE ListEndpoints(a)
  <2>1. admin' \in [Admins -> Calls]
    BY <1>0, <1>7, ListEndpointsFields
  <2>2. QED
    BY <1>7, <2>1 DEF Typed, ListEndpoints, Tables
<1>8. CASE ListFails(a)
  <2>1. admin' \in [Admins -> Calls]
    BY <1>0, <1>8, DoneFields DEF ListFails
  <2>2. PICK s \in Staleness : Done(a, s)
    BY <1>8 DEF ListFails, Staleness
  <2>3. stale' \in Staleness
    BY <2>2, LeftTypes DEF Done
  <2>4. QED
    BY <1>8, <2>1, <2>3 DEF Typed, ListFails, Tables
<1>8a. CASE HangUp(a)
  <2>1. admin' \in [Admins -> Calls]
    BY <1>0, <1>8a, DoneFields DEF HangUp
  <2>2. PICK s \in Staleness : Done(a, s)
    BY <1>8a DEF HangUp, Staleness, Typed
  <2>3. stale' \in Staleness
    BY <2>2, LeftTypes DEF Done
  <2>4. QED
    BY <1>8a, <2>1, <2>3 DEF Typed, HangUp, Tables
<1>9. CASE DbOwnsRouting(a)
  <2>1. admin' \in [Admins -> Calls]
    BY <1>0, <1>9, DbOwnsRoutingFields
  <2>2. QED
    BY <1>9, <2>1 DEF Typed, DbOwnsRouting, Tables
<1>10. CASE Build(a)
  <2>1. \/ Done(a, CaughtUp)
        \/ Step(a, "insert_keys") /\ stale' = stale
    BY <1>10 DEF Build
  <2>2. admin' \in [Admins -> Calls]
    BY <1>0, <2>1, DoneFields, StepFields DEF AdminPC
  <2>3. providers' \in [Targets -> Nat]
    BY <1>10, VersionTypes DEF Build, Typed
  <2>4. stale' \in Staleness
    <3>1. CaughtUp \in Staleness
      BY DEF CaughtUp, Staleness
    <3>2. QED
      BY <2>1, <3>1, LeftTypes DEF Done, Typed
  <2>5. QED
    BY <1>10, <2>2, <2>3, <2>4 DEF Typed, Build, Tables
<1>11. CASE InsertKeys(a)
  <2>1. admin' \in [Admins -> Calls]
    BY <1>0, <1>11, StepFields DEF InsertKeys, AdminPC
  <2>2. provider_keys' \in [Endpoints -> Nat]
    BY <1>11, VersionTypes DEF InsertKeys, Typed
  <2>3. QED
    BY <1>11, <2>1, <2>2 DEF Typed, InsertKeys, Tables
<1>12. CASE RetainKeys(a)
  <2>1. admin' \in [Admins -> Calls]
    BY <1>0, <1>12, StepFields DEF RetainKeys, AdminPC
  <2>2. provider_keys' \in [Endpoints -> Nat]
    BY <1>12 DEF RetainKeys, Typed
  <2>3. QED
    BY <1>12, <2>1, <2>2 DEF Typed, RetainKeys, Tables
<1>13. CASE Swap(a)
  <2>1. admin' \in [Admins -> Calls]
    BY <1>0, <1>13, SwapFields
  <2>2. targets' \subseteq Targets
    BY <1>13, VersionTypes DEF Swap, Targets
  <2>3. QED
    BY <1>13, <2>1, <2>2 DEF Typed, Swap, Tables
<1>14. CASE RetainBreakers(a)
  <2>1. admin' \in [Admins -> Calls]
    BY <1>0, <1>14, StepFields DEF RetainBreakers, AdminPC
  <2>2. circuit_breakers' \subseteq Targets
    BY <1>14 DEF RetainBreakers, Typed
  <2>3. QED
    BY <1>14, <2>1, <2>2 DEF Typed, RetainBreakers, Tables
<1>15. CASE PruneClients(a)
  <2>1. admin' \in [Admins -> Calls]
    BY <1>0, <1>15, DoneFields DEF PruneClients
  <2>2. providers' \in [Targets -> Nat]
    BY <1>15 DEF PruneClients, Typed
  <2>3. stale' \in Staleness
    <3>1. CaughtUp \in Staleness
      BY DEF CaughtUp, Staleness
    <3>2. QED
      BY <1>15, <3>1, LeftTypes DEF PruneClients, Done
  <2>4. QED
    BY <1>15, <2>1, <2>2, <2>3 DEF Typed, PruneClients, Tables
<1>16. QED
  BY <1>1, <1>2, <1>3, <1>4, <1>5, <1>6, <1>7, <1>8, <1>8a, <1>9, <1>10,
     <1>11, <1>12, <1>13, <1>14, <1>15 DEF AdminStep, Mutates

(* A request's step touches the request and, at most, the breakers.        *)
LEMMA RequestFrame ==
  ASSUME NEW r \in Requests, RequestStep(r)
  PROVE  UNCHANGED <<models, rows, doc, targets, provider_keys, providers,
                     history, admin, ops, stale, saved, unsure>>
  BY DEF RequestStep, SelectTarget, LookupClient, store, live, ghosts

(* The steps of a request keep the types.                                  *)
LEMMA TypedRequest ==
  ASSUME Typed, NEW r \in Requests, RequestStep(r)
  PROVE  Typed'
<1>0. /\ req \in [Requests -> RequestState]
      /\ req[r] \in RequestState
  BY DEF Typed
<1>1. /\ req' \in [Requests -> RequestState]
      /\ circuit_breakers' \subseteq Targets
      /\ late' \subseteq Targets
  <2>1. CASE SelectTarget(r)
    <3>1. PICK t \in targets :
            req' = [req EXCEPT ![r] = [pc |-> "attempt", target |-> t]]
      BY <2>1 DEF SelectTarget
    <3>2. [pc |-> "attempt", target |-> t] \in RequestState
      BY DEF Typed, RequestState
    <3>3. QED
      BY <1>0, <2>1, <3>1, <3>2 DEF SelectTarget, live, ghosts, Typed
  <2>2. CASE LookupClient(r)
    <3>1. req[r].target \in Targets
      BY <1>0 DEF RequestState
    <3>2. [IdleRequest EXCEPT !.pc = "done"] \in RequestState
      BY IdleRequestType DEF RequestState
    <3>3. QED
      BY <1>0, <2>2, <3>1, <3>2 DEF LookupClient, Typed
  <2>3. QED
    BY <2>1, <2>2 DEF RequestStep
<1>2. QED
  BY <1>1, RequestFrame DEF Typed, Tables

(* Every step keeps the types.                                             *)
LEMMA TypedNext == Typed /\ [Next]_vars => Typed'
<1>1. ASSUME Typed, UNCHANGED vars PROVE Typed'
  BY <1>1 DEF Typed, vars, store, live, ghosts, Tables
<1>2. QED
  BY <1>1, TypedAdmin, TypedRequest DEF Next

(* The tables, the live maps, the history, the admin calls and the         *)
(* requests of gateway/rebuild.rs and gateway/config.rs keep their types,  *)
(* for any number of concurrent admin calls and requests.                  *)
THEOREM RoutingTypeOK == Spec => []TypeOK
<1>1. Typed => TypeOK
  BY TypedIsTypeOK
<1>2. QED
  BY <1>1, TypedInit, TypedNext, PTL DEF Spec

-----------------------------------------------------------------------------
(***************************************************************************)
(* The inductive invariant.  rebuild_targets takes no lock around its      *)
(* reads and its swaps: nothing is claimed of calls that overlap, except   *)
(* what stands in the history and that the environment keeps its clients.  *)
(* From the moment none is in flight, one that runs by itself is followed  *)
(* through its steps.                                                      *)
(***************************************************************************)

(* The endpoints that route.                                               *)
Served == targets \cap Endpoints

(* The client and the key of an endpoint are those of its row.             *)
Fresh(e) ==
  /\ providers[e] = rows[e].ver
  /\ e \in Keyless \/ provider_keys[e] = rows[e].ver

(* No call is in flight beside another one, unless there is an overlap.    *)
Sole ==
  stale # "overlap" =>
    \A a, b \in Admins :
      (admin[a].pc # "idle" /\ admin[b].pc # "idle") => a = b

(* Only a rebuild after its swap has endpoints to drop.                    *)
NoPrev ==
  \A a \in Admins :
    admin[a].pc \notin {"retain_breakers", "prune"} => admin[a].prev = {}

(* The environment's clients stay.                                         *)
EnvStocked == \A t \in EnvTargets : providers[t] # 0

(* A version made by a rollback, or about to be, copies the one it names;  *)
(* and no document is without targets.                                     *)
Recorded ==
  /\ history # <<>>
  /\ \A v \in DOMAIN history :
       /\ history[v].targets # {}
       /\ history[v].from # 0 => /\ history[v].from < v
                                 /\ history[history[v].from].doc
                                      = history[v].doc
  /\ \A a \in Admins : Applying(a) =>
       /\ admin[a].targets # {}
       /\ admin[a].from # 0 => /\ admin[a].from \in DOMAIN history
                               /\ history[admin[a].from].doc = admin[a].doc

(* Between the swap of a document and its record it is the call's.         *)
LiveRecorded ==
  /\ ~unsure =>
       /\ \A a, b \in Admins : Applying(a) /\ Applying(b) => a = b
       /\ (\A a \in Admins : admin[a].pc \notin {"clear_breakers", "record"})
            => history[Len(history)].doc = doc
  /\ (~unsure \/ stale # "overlap") =>
       \A a \in Admins : admin[a].pc \in {"clear_breakers", "record"} =>
         admin[a].doc = doc

(* A rebuild works on the tables as they are: nobody else writes them.     *)
TablesRead ==
  \A a \in Admins :
    /\ admin[a].pc \in {"list_endpoints", "owns", "build", "insert_keys",
                        "retain_keys", "swap", "retain_breakers", "prune"} =>
         admin[a].models = models
    /\ admin[a].pc \in {"owns", "build", "insert_keys", "retain_keys", "swap",
                        "retain_breakers", "prune"} => admin[a].rows = rows

(* A rebuild that may swap in nothing found the database owning routing.   *)
NeverEmptied ==
  \A a \in Admins :
    /\ (~admin[a].keep /\ admin[a].pc \in
          {"build", "insert_keys", "retain_keys", "swap"}) => Served # {}
    /\ (admin[a].keep /\ admin[a].pc \in
          {"insert_keys", "retain_keys", "swap"}) => NewTargets(a) # {}

(* A rebuild that keeps the previous targets keeps no endpoint, but for    *)
(* those a document named.                                                 *)
KeptEmpty ==
  \A a \in Admins :
    /\ Applying(a) => admin[a].keep
    /\ (admin[a].keep /\ admin[a].pc \in
          {"clear_breakers", "record", "list_models", "list_endpoints",
           "build", "insert_keys", "retain_keys", "swap"}) =>
         Served = {} \/ saved

(* The endpoints that route are the ones the tables enable.                *)
Matched ==
  /\ (/\ stale \in {"no", "before"}
      /\ \A a \in Admins : admin[a].pc \in {"idle", "apply"}) =>
       \/ Served = Built(models, rows) /\ \A e \in Served : Fresh(e)
       \/ saved /\ Built(models, rows) = {}
  /\ \A a \in Admins : admin[a].pc \in {"retain_breakers", "prune"} =>
       Served = Built(models, rows) /\ \A e \in Served : Fresh(e)

(* Clients and keys are in place before the targets that need them.        *)
Stocked ==
  /\ \A a \in Admins :
       admin[a].pc \in {"insert_keys", "retain_keys", "swap"} =>
         \A e \in NewTargets(a) : providers[e] = admin[a].rows[e].ver
  /\ \A a \in Admins :
       admin[a].pc \in {"retain_keys", "swap"} =>
         \A e \in NewTargets(a) \ Keyless :
           provider_keys[e] = admin[a].rows[e].ver
  /\ (stale # "cut" /\ ~saved) =>
       /\ \A e \in Served : providers[e] # 0
       /\ \A e \in Served \ Keyless :
            provider_keys[e] = 0 =>
              \E a \in Admins : admin[a].pc = "swap" /\ e \notin NewTargets(a)

(* A mutation that has not swapped yet.                                    *)
Replacing(a) ==
  /\ ~admin[a].keep
  /\ admin[a].pc \in {"list_models", "list_endpoints", "owns", "build",
                      "insert_keys", "retain_keys", "swap"}

(* What the tables do not enable is gone, or is what the call at hand will *)
(* drop.                                                                   *)
Dropped ==
  /\ \A a \in Admins :
       admin[a].pc \in {"swap", "retain_breakers", "prune"} =>
         \A e \in Endpoints \ NewTargets(a) : provider_keys[e] = 0
  /\ stale = "no" =>
       \A e \in Endpoints \ Built(models, rows) :
         (providers[e] # 0 \/ provider_keys[e] # 0) =>
           \E a \in Admins : \/ e \in admin[a].prev
                             \/ Replacing(a) /\ e \in Served

(* Breakers are those of targets, once the swap has been followed up.      *)
BreakersKept ==
  (/\ stale = "no"
   /\ \A a \in Admins : admin[a].pc \notin {"clear_breakers",
                                            "retain_breakers"}) =>
    circuit_breakers \subseteq targets \cup late

(* What holds while no calls overlap.                                      *)
ByItself ==
  /\ TablesRead
  /\ NeverEmptied
  /\ KeptEmpty
  /\ Matched
  /\ Stocked
  /\ Dropped
  /\ BreakersKept

-----------------------------------------------------------------------------
(* The shape of a step: whom it leaves alone.                              *)

(* A step of one call leaves the records of the others alone.              *)
LEMMA OthersKept ==
  ASSUME Typed, NEW a \in Admins, AdminStep(a)
  PROVE  \A b \in Admins : b # a => admin'[b] = admin[b]
<1>0. admin \in [Admins -> Calls]
  BY DEF Typed
<1>1. PICK q : admin' = [admin EXCEPT ![a] = q]
  <2> USE DEF Begin, BeginApply, Step, Done, Reasserts
  <2>1. CASE Mutates(a)
    BY <2>1, MutationTypes
  <2>2. CASE Reload(a) \/ Rollback(a)
    BY <2>2 DEF Reload, Rollback
  <2>3. CASE Apply(a) \/ ClearBreakers(a) \/ Record(a)
    BY <2>3 DEF Apply, ClearBreakers, Record
  <2>4. CASE ListModels(a)
    BY <2>4 DEF ListModels
  <2>5. CASE ListEndpoints(a)
    BY <2>5 DEF ListEndpoints
  <2>6. CASE ListFails(a) \/ HangUp(a) \/ PruneClients(a)
    BY <2>6 DEF ListFails, HangUp, PruneClients
  <2>7. CASE DbOwnsRouting(a)
    BY <2>7 DEF DbOwnsRouting
  <2>8. CASE Build(a)
    BY <2>8 DEF Build
  <2>9. CASE InsertKeys(a) \/ RetainKeys(a) \/ RetainBreakers(a)
    BY <2>9 DEF InsertKeys, RetainKeys, RetainBreakers
  <2>10. CASE Swap(a)
    BY <2>10 DEF Swap
  <2>11. QED
    BY <2>1, <2>2, <2>3, <2>4, <2>5, <2>6, <2>7, <2>8, <2>9, <2>10
       DEF AdminStep, Mutates
<1>2. QED
  BY <1>0, <1>1

(* A step that is not in an overlap is of the only call in flight, or ends *)
(* the overlap.                                                            *)
LEMMA WhoIsThere ==
  ASSUME Typed, Sole, NEW a \in Admins, AdminStep(a), stale' # "overlap"
  PROVE  \/ /\ stale # "overlap"
            /\ \A b \in Admins : b # a => /\ admin[b].pc = "idle"
                                          /\ admin'[b] = admin[b]
         \/ /\ stale' = "cut"
            /\ stale = "overlap"
            /\ \A b \in Admins : admin'[b].pc = "idle"
<1>0. /\ admin \in [Admins -> Calls]
      /\ \A b \in Admins : b # a => admin'[b] = admin[b]
  BY OthersKept DEF Typed
<1>1. CASE Mutates(a) \/ Reload(a) \/ Rollback(a)
  <2>1. Quiet /\ stale # "overlap"
    <3>1. CASE Mutates(a)
      BY <3>1, MutationTypes DEF Begin
    <3>2. CASE Reload(a) \/ Rollback(a)
      BY <3>2 DEF Reload, Rollback, BeginApply
    <3>3. QED
      BY <1>1, <3>1, <3>2
  <2>2. QED
    BY <1>0, <2>1 DEF Quiet, At
<1>2. ASSUME NEW s, Done(a, s), admin[a].pc # "idle"
      PROVE  \/ /\ stale # "overlap"
                /\ \A b \in Admins : b # a => admin[b].pc = "idle"
             \/ /\ stale' = "cut"
                /\ stale = "overlap"
                /\ \A b \in Admins : admin'[b].pc = "idle"
  <2>1. CASE stale # "overlap"
    BY <1>2, <2>1 DEF Sole
  <2>2. CASE stale = "overlap"
    <3>1. Alone(a) /\ stale' = "cut"
      BY <1>2, <2>2 DEF Done, Left
    <3>2. admin'[a].pc = "idle"
      BY <1>0, <1>2, DoneFields
    <3>3. QED
      BY <1>0, <2>2, <3>1, <3>2 DEF Alone, At
  <2>3. QED
    BY <2>1, <2>2
<1>3. CASE ListFails(a) \/ HangUp(a) \/ PruneClients(a)
  <2>1. admin[a].pc # "idle" /\ \E s : Done(a, s)
    BY <1>3 DEF ListFails, HangUp, PruneClients, At
  <2>2. QED
    BY <1>0, <1>2, <2>1
<1>4. CASE Build(a)
  <2>1. admin[a].pc # "idle"
    BY <1>4 DEF Build, At
  <2>2. CASE Done(a, CaughtUp)
    BY <1>0, <1>2, <2>1, <2>2
  <2>3. CASE stale' = stale
    BY <1>0, <2>1, <2>3 DEF Sole
  <2>4. QED
    BY <1>4, <2>2, <2>3 DEF Build
<1>5. CASE \/ Apply(a) \/ ClearBreakers(a) \/ Record(a) \/ ListModels(a)
           \/ ListEndpoints(a) \/ DbOwnsRouting(a) \/ InsertKeys(a)
           \/ RetainKeys(a) \/ Swap(a) \/ RetainBreakers(a)
  <2>1. admin[a].pc # "idle" /\ stale' = stale
    BY <1>5 DEF Apply, ClearBreakers, Record, ListModels, ListEndpoints,
                DbOwnsRouting, InsertKeys, RetainKeys, Swap, RetainBreakers,
                At, ghosts
  <2>2. QED
    BY <1>0, <2>1 DEF Sole
<1>6. QED
  BY <1>1, <1>3, <1>4, <1>5 DEF AdminStep, Mutates

(* What no overlap disturbs.                                               *)
LEMMA AlwaysAdmin ==
  ASSUME Typed, Typed', Sole, NoPrev, EnvStocked, Recorded, LiveRecorded,
         NEW a \in Admins, AdminStep(a)
  PROVE  NoPrev' /\ EnvStocked' /\ Recorded' /\ LiveRecorded'
<1> USE DEF store, live, ghosts, At
<1>0. /\ admin \in [Admins -> Calls]
      /\ Tables
      /\ admin[a] \in Calls
      /\ NewTargets(a) \subseteq Endpoints
  BY VersionTypes DEF Typed
<1>a. \A b \in Admins : b # a => admin'[b] = admin[b]
  BY OthersKept
<1>b. stale' # "overlap" => \/ stale # "overlap"
                            \/ \A b \in Admins : admin'[b].pc = "idle"
  BY WhoIsThere
<1>1. CASE Mutates(a)
  <2>1. /\ Begin(a, "list_models")
        /\ admin[a].pc = "idle"
        /\ admin'[a].pc = "list_models"
        /\ admin'[a].keep = FALSE
        /\ admin'[a].prev = {}
    <3>1. Begin(a, "list_models") /\ "list_models" \in AdminPC
      BY <1>1, MutationTypes DEF AdminPC
    <3>2. QED
      BY <1>0, <3>1, BegunFields DEF Begin
  <2>2. NoPrev'
    BY <1>a, <2>1 DEF Begin, NoPrev
  <2>3. EnvStocked'
    BY <1>a, <2>1 DEF Begin, EnvStocked
  <2>4. Recorded'
    BY <1>a, <2>1 DEF Begin, Recorded, Applying
  <2>5. LiveRecorded'
    BY <1>b, <1>a, <2>1 DEF Begin, LiveRecorded, Applying, Sole
  <2>6. QED
    BY <2>2, <2>3, <2>4, <2>5
<1>2. CASE Reload(a) \/ Rollback(a)
  <2>0. PICK d \in Nat, ts \in SUBSET Targets, f \in Nat :
          /\ BeginApply(a, d, ts, f)
          /\ \/ f = 0 /\ ts \in Documents
             \/ /\ f \in DOMAIN history
                /\ d = history[f].doc
                /\ ts = history[f].targets
    BY <1>2, DocumentTypes
  <2>1. /\ admin[a].pc = "idle"
        /\ admin'[a].pc = "apply"
        /\ admin'[a].keep = TRUE
        /\ admin'[a].prev = {}
        /\ admin'[a].doc = d
        /\ admin'[a].targets = ts
        /\ admin'[a].from = f
    <3>1. admin[a].pc = "idle"
      BY <2>0 DEF BeginApply
    <3>2. BeginApply(a, d, ts, f) /\ admin \in [Admins -> Calls]
      BY <1>0, <2>0
    <3>3. QED
      BY <3>1, <3>2, ApplyFields
  <2>2. NoPrev'
    BY <1>0, <1>a, <2>0, <2>1 DEF BeginApply, NoPrev
  <2>3. EnvStocked'
    BY <1>0, <1>a, <2>0, <2>1 DEF BeginApply, EnvStocked
  <2>4. Recorded'
    BY RoutingAssumption, <1>0, <1>a, <2>0, <2>1
       DEF BeginApply, Recorded, Applying
  <2>5. LiveRecorded'
    BY <1>0, <1>b, <1>a, <2>0, <2>1
       DEF BeginApply, LiveRecorded, Applying, Sole
  <2>6. QED
    BY <2>2, <2>3, <2>4, <2>5
<1>3. CASE Apply(a)
  <2>1. /\ admin[a].pc = "apply"
        /\ admin'[a].pc = "clear_breakers"
        /\ admin'[a].keep = admin[a].keep
        /\ admin'[a].prev = admin[a].prev
        /\ admin'[a].models = admin[a].models
        /\ admin'[a].rows = admin[a].rows
        /\ admin'[a].doc = admin[a].doc
        /\ admin'[a].targets = admin[a].targets
        /\ admin'[a].from = admin[a].from
    BY <1>0, <1>3, StepFields DEF Apply, AdminPC
  <2>2. NoPrev'
    BY <1>a, <1>3, <2>1 DEF Apply, NoPrev
  <2>3. EnvStocked'
    BY <1>a, <1>3, <2>1 DEF Apply, EnvStocked
  <2>4. Recorded'
    BY <1>a, <1>3, <2>1 DEF Apply, Recorded, Applying
  <2>5. LiveRecorded'
    BY <1>b, <1>a, <1>3, <2>1 DEF Apply, LiveRecorded, Applying, Sole
  <2>6. QED
    BY <2>2, <2>3, <2>4, <2>5
<1>4. CASE ClearBreakers(a)
  <2>1. /\ admin[a].pc = "clear_breakers"
        /\ admin'[a].pc = "record"
        /\ admin'[a].keep = admin[a].keep
        /\ admin'[a].prev = admin[a].prev
        /\ admin'[a].models = admin[a].models
        /\ admin'[a].rows = admin[a].rows
        /\ admin'[a].doc = admin[a].doc
        /\ admin'[a].targets = admin[a].targets
        /\ admin'[a].from = admin[a].from
    BY <1>0, <1>4, StepFields DEF ClearBreakers, AdminPC
  <2>2. NoPrev'
    BY <1>a, <1>4, <2>1 DEF ClearBreakers, NoPrev
  <2>3. EnvStocked'
    BY <1>a, <1>4, <2>1 DEF ClearBreakers, EnvStocked
  <2>4. Recorded'
    BY <1>a, <1>4, <2>1 DEF ClearBreakers, Recorded, Applying
  <2>5. LiveRecorded'
    BY <1>b, <1>a, <1>4, <2>1 DEF ClearBreakers, LiveRecorded, Applying, Sole
  <2>6. QED
    BY <2>2, <2>3, <2>4, <2>5
<1>5. CASE Record(a)
  <2>1. /\ admin[a].pc = "record"
        /\ admin'[a].pc = "list_models"
        /\ admin'[a].keep = TRUE
        /\ admin'[a].prev = {}
    BY <1>0, <1>5, ReassertFields DEF Record
  <2>2. NoPrev'
    BY <1>a, <1>5, <2>1 DEF Record, NoPrev
  <2>3. EnvStocked'
    BY <1>a, <1>5, <2>1 DEF Record, EnvStocked
  <2>4. Recorded'
    <3>1. /\ history \in Seq(Versions)
          /\ Len(history) \in Nat
      BY DEF Typed
    <3>2. PICK q : q = [doc |-> admin[a].doc, targets |-> admin[a].targets,
                        from |-> admin[a].from]
      OBVIOUS
    <3>3. /\ q.doc = admin[a].doc
          /\ q.from = admin[a].from
          /\ q.targets = admin[a].targets
          /\ q \in Versions
      BY <1>0, <3>2 DEF Calls, Versions
    <3>4. history' = Append(history, q)
      BY <1>5, <3>2 DEF Record
    <3>5. /\ DOMAIN history' = DOMAIN history \cup {Len(history) + 1}
          /\ \A v \in DOMAIN history : history'[v] = history[v]
          /\ history'[Len(history) + 1] = q
          /\ history' # <<>>
      BY <3>1, <3>3, <3>4
    <3>6. /\ admin[a].targets # {}
          /\ admin[a].from # 0 => /\ admin[a].from \in DOMAIN history
                                  /\ history[admin[a].from].doc = admin[a].doc
      BY <2>1 DEF Recorded, Applying
    <3>7. ASSUME NEW v \in DOMAIN history', history'[v].from # 0
          PROVE  /\ history'[v].from < v
                 /\ history'[history'[v].from].doc = history'[v].doc
      <4>1. CASE v \in DOMAIN history
        <5>1. /\ history[v].from < v
              /\ history[history[v].from].doc = history[v].doc
          BY <3>5, <3>7, <4>1 DEF Recorded
        <5>2. history[v].from \in Nat \ {0}
          <6>1. history[v] \in Versions
            BY <3>1, <4>1
          <6>2. QED
            BY <3>5, <3>7, <4>1, <6>1 DEF Versions
        <5>3. history[v].from \in DOMAIN history
          BY <3>1, <4>1, <5>1, <5>2
        <5>4. QED
          BY <3>5, <4>1, <5>1, <5>3
      <4>2. CASE v = Len(history) + 1
        BY <3>1, <3>3, <3>5, <3>6, <3>7, <4>2
      <4>3. QED
        BY <3>5, <4>1, <4>2
    <3>8. ASSUME NEW v \in DOMAIN history' PROVE history'[v].targets # {}
      BY <3>3, <3>5, <3>6 DEF Recorded
    <3>9. ASSUME NEW b \in Admins, Applying(b)'
          PROVE  /\ admin'[b].targets # {}
                 /\ admin'[b].from # 0 =>
                      /\ admin'[b].from \in DOMAIN history'
                      /\ history'[admin'[b].from].doc = admin'[b].doc
      <4>1. b # a
        BY <2>1, <3>9 DEF Applying
      <4>2. admin'[b] = admin[b] /\ Applying(b)
        BY <1>a, <3>9, <4>1 DEF Applying
      <4>3. /\ admin[b].targets # {}
            /\ admin[b].from # 0 => /\ admin[b].from \in DOMAIN history
                                    /\ history[admin[b].from].doc
                                         = admin[b].doc
        BY <4>2 DEF Recorded
      <4>4. QED
        BY <3>5, <4>2, <4>3
    <3>10. QED
      BY <3>5, <3>7, <3>8, <3>9 DEF Recorded
  <2>5. LiveRecorded'
    <3>1. /\ history \in Seq(Versions)
          /\ history' = Append(history, [doc |-> admin[a].doc,
                                         targets |-> admin[a].targets,
                                         from |-> admin[a].from])
          /\ doc' = doc
          /\ unsure' = (unsure /\ stale = "overlap")
          /\ stale' = stale
      BY <1>5 DEF Record, Typed
    <3>2. history'[Len(history')].doc = admin[a].doc
      BY <3>1
    <3>3. ~unsure' => admin[a].doc = doc
      BY <2>1, <3>1 DEF LiveRecorded
    <3>4. ~unsure' => \A b \in Admins : Applying(b) => b = a
      BY <2>1, <3>1 DEF LiveRecorded, Sole, Applying
    <3>5. QED
      BY <1>a, <2>1, <3>1, <3>2, <3>3, <3>4 DEF LiveRecorded, Applying
  <2>6. QED
    BY <2>2, <2>3, <2>4, <2>5
<1>6. CASE ListModels(a)
  <2>1. /\ admin[a].pc = "list_models"
        /\ admin'[a].pc = "list_endpoints"
        /\ admin'[a].models = models
        /\ admin'[a].keep = admin[a].keep
        /\ admin'[a].prev = admin[a].prev
    BY <1>0, <1>6, ListModelsFields DEF ListModels
  <2>2. NoPrev'
    BY <1>a, <1>6, <2>1 DEF ListModels, NoPrev
  <2>3. EnvStocked'
    BY <1>a, <1>6, <2>1 DEF ListModels, EnvStocked
  <2>4. Recorded'
    BY <1>a, <1>6, <2>1 DEF ListModels, Recorded, Applying
  <2>5. LiveRecorded'
    BY <1>b, <1>a, <1>6, <2>1 DEF ListModels, LiveRecorded, Applying, Sole
  <2>6. QED
    BY <2>2, <2>3, <2>4, <2>5
<1>7. CASE ListEndpoints(a)
  <2>1. /\ admin[a].pc = "list_endpoints"
        /\ admin'[a].pc = IF admin[a].keep THEN "build" ELSE "owns"
        /\ admin'[a].rows = rows
        /\ admin'[a].keep = admin[a].keep
        /\ admin'[a].prev = admin[a].prev
        /\ admin'[a].models = admin[a].models
    BY <1>0, <1>7, ListEndpointsFields DEF ListEndpoints
  <2>2. NoPrev'
    BY <1>0, <1>a, <1>7, <2>1 DEF ListEndpoints, NoPrev
  <2>3. EnvStocked'
    BY <1>0, <1>a, <1>7, <2>1 DEF ListEndpoints, EnvStocked
  <2>4. Recorded'
    BY <1>0, <1>a, <1>7, <2>1 DEF ListEndpoints, Recorded, Applying
  <2>5. LiveRecorded'
    BY <1>0, <1>b, <1>a, <1>7, <2>1
       DEF ListEndpoints, LiveRecorded, Applying, Sole
  <2>6. QED
    BY <2>2, <2>3, <2>4, <2>5
<1>8. CASE ListFails(a)
  <2>1. /\ admin[a].pc \in {"list_models", "list_endpoints"}
        /\ admin'[a].pc = "idle"
        /\ admin'[a].prev = {}
        /\ stale' = Left(a, IF stale = "cut" THEN "cut" ELSE "unread")
    BY <1>0, <1>8, DoneFields DEF ListFails, Done
  <2>2. NoPrev'
    BY <1>a, <1>8, <2>1 DEF ListFails, NoPrev
  <2>3. EnvStocked'
    BY <1>a, <1>8, <2>1 DEF ListFails, EnvStocked
  <2>4. Recorded'
    BY <1>a, <1>8, <2>1 DEF ListFails, Recorded, Applying
  <2>5. LiveRecorded'
    BY <1>b, <1>a, <1>8, <2>1 DEF ListFails, LiveRecorded, Applying, Sole
  <2>6. QED
    BY <2>2, <2>3, <2>4, <2>5
<1>9. CASE DbOwnsRouting(a)
  <2>1. /\ admin[a].pc = "owns"
        /\ admin'[a].pc = "build"
        /\ admin'[a].keep = (targets \cap Endpoints = {})
        /\ admin'[a].prev = admin[a].prev
        /\ admin'[a].models = admin[a].models
        /\ admin'[a].rows = admin[a].rows
    BY <1>0, <1>9, DbOwnsRoutingFields DEF DbOwnsRouting
  <2>2. NoPrev'
    BY <1>0, <1>a, <1>9, <2>1 DEF DbOwnsRouting, NoPrev
  <2>3. EnvStocked'
    BY <1>0, <1>a, <1>9, <2>1 DEF DbOwnsRouting, EnvStocked
  <2>4. Recorded'
    BY <1>0, <1>a, <1>9, <2>1 DEF DbOwnsRouting, Recorded, Applying
  <2>5. LiveRecorded'
    BY <1>0, <1>b, <1>a, <1>9, <2>1
       DEF DbOwnsRouting, LiveRecorded, Applying, Sole
  <2>6. QED
    BY <2>2, <2>3, <2>4, <2>5
<1>10. CASE Build(a)
  <2>1. /\ admin[a].pc = "build"
        /\ \/ /\ NewTargets(a) = {} /\ admin[a].keep
              /\ admin'[a].pc = "idle"
              /\ admin'[a].prev = {}
              /\ stale' = Left(a, CaughtUp)
           \/ /\ ~(NewTargets(a) = {} /\ admin[a].keep)
              /\ admin'[a].pc = "insert_keys"
              /\ admin'[a].keep = admin[a].keep
              /\ admin'[a].prev = admin[a].prev
              /\ admin'[a].models = admin[a].models
              /\ admin'[a].rows = admin[a].rows
              /\ stale' = stale
    <3>1. CASE NewTargets(a) = {} /\ admin[a].keep
      BY <1>0, <1>10, <3>1, DoneFields DEF Build, Done
    <3>2. CASE ~(NewTargets(a) = {} /\ admin[a].keep)
      BY <1>0, <1>10, <3>2, StepFields DEF Build, AdminPC
    <3>3. QED
      BY <3>1, <3>2
  <2>2. NoPrev'
    BY <1>a, <1>10, <2>1 DEF Build, NoPrev
  <2>3. EnvStocked'
    <3>1. \A t \in EnvTargets : providers'[t] = providers[t]
      BY <1>0, <1>10, RoutingAssumption DEF Build, Targets
    <3>2. QED
      BY <3>1 DEF EnvStocked
  <2>4. Recorded'
    BY <1>a, <1>10, <2>1 DEF Build, Recorded, Applying
  <2>5. LiveRecorded'
    BY <1>b, <1>a, <1>10, <2>1 DEF Build, LiveRecorded, Applying, Sole
  <2>6. QED
    BY <2>2, <2>3, <2>4, <2>5
<1>11. CASE InsertKeys(a)
  <2>1. /\ admin[a].pc = "insert_keys"
        /\ admin'[a].pc = "retain_keys"
        /\ admin'[a].keep = admin[a].keep
        /\ admin'[a].prev = admin[a].prev
        /\ admin'[a].models = admin[a].models
        /\ admin'[a].rows = admin[a].rows
    BY <1>0, <1>11, StepFields DEF InsertKeys, AdminPC
  <2>2. NoPrev'
    BY <1>a, <1>11, <2>1 DEF InsertKeys, NoPrev
  <2>3. EnvStocked'
    BY <1>a, <1>11, <2>1 DEF InsertKeys, EnvStocked
  <2>4. Recorded'
    BY <1>a, <1>11, <2>1 DEF InsertKeys, Recorded, Applying
  <2>5. LiveRecorded'
    BY <1>b, <1>a, <1>11, <2>1 DEF InsertKeys, LiveRecorded, Applying, Sole
  <2>6. QED
    BY <2>2, <2>3, <2>4, <2>5
<1>12. CASE RetainKeys(a)
  <2>1. /\ admin[a].pc = "retain_keys"
        /\ admin'[a].pc = "swap"
        /\ admin'[a].keep = admin[a].keep
        /\ admin'[a].prev = admin[a].prev
        /\ admin'[a].models = admin[a].models
        /\ admin'[a].rows = admin[a].rows
    BY <1>0, <1>12, StepFields DEF RetainKeys, AdminPC
  <2>2. NoPrev'
    BY <1>a, <1>12, <2>1 DEF RetainKeys, NoPrev
  <2>3. EnvStocked'
    BY <1>a, <1>12, <2>1 DEF RetainKeys, EnvStocked
  <2>4. Recorded'
    BY <1>a, <1>12, <2>1 DEF RetainKeys, Recorded, Applying
  <2>5. LiveRecorded'
    BY <1>b, <1>a, <1>12, <2>1 DEF RetainKeys, LiveRecorded, Applying, Sole
  <2>6. QED
    BY <2>2, <2>3, <2>4, <2>5
<1>13. CASE Swap(a)
  <2>1. /\ admin[a].pc = "swap"
        /\ admin'[a].pc = "retain_breakers"
        /\ admin'[a].prev = targets \cap Endpoints
        /\ admin'[a].models = admin[a].models
        /\ admin'[a].rows = admin[a].rows
    BY <1>0, <1>13, SwapFields DEF Swap
  <2>2. NoPrev'
    BY <1>a, <1>13, <2>1 DEF Swap, NoPrev
  <2>3. EnvStocked'
    BY <1>a, <1>13, <2>1 DEF Swap, EnvStocked
  <2>4. Recorded'
    BY <1>a, <1>13, <2>1 DEF Swap, Recorded, Applying
  <2>5. LiveRecorded'
    BY <1>b, <1>a, <1>13, <2>1 DEF Swap, LiveRecorded, Applying, Sole
  <2>6. QED
    BY <2>2, <2>3, <2>4, <2>5
<1>14. CASE RetainBreakers(a)
  <2>1. /\ admin[a].pc = "retain_breakers"
        /\ admin'[a].pc = "prune"
        /\ admin'[a].keep = admin[a].keep
        /\ admin'[a].prev = admin[a].prev
        /\ admin'[a].models = admin[a].models
        /\ admin'[a].rows = admin[a].rows
    BY <1>0, <1>14, StepFields DEF RetainBreakers, AdminPC
  <2>2. NoPrev'
    BY <1>a, <1>14, <2>1 DEF RetainBreakers, NoPrev
  <2>3. EnvStocked'
    BY <1>a, <1>14, <2>1 DEF RetainBreakers, EnvStocked
  <2>4. Recorded'
    BY <1>a, <1>14, <2>1 DEF RetainBreakers, Recorded, Applying
  <2>5. LiveRecorded'
    BY <1>b, <1>a, <1>14, <2>1 DEF RetainBreakers, LiveRecorded, Applying, Sole
  <2>6. QED
    BY <2>2, <2>3, <2>4, <2>5
<1>15. CASE PruneClients(a)
  <2>1. /\ admin[a].pc = "prune"
        /\ admin'[a].pc = "idle"
        /\ admin'[a].prev = {}
        /\ stale' = Left(a, CaughtUp)
    BY <1>0, <1>15, DoneFields DEF PruneClients, Done
  <2>2. NoPrev'
    BY <1>a, <1>15, <2>1 DEF PruneClients, NoPrev
  <2>3. EnvStocked'
    <3>1. admin[a].prev \subseteq Endpoints
      BY <1>0 DEF Calls
    <3>2. \A t \in EnvTargets : providers'[t] = providers[t]
      BY <1>15, <3>1, RoutingAssumption DEF PruneClients, Targets
    <3>3. QED
      BY <3>2 DEF EnvStocked
  <2>4. Recorded'
    BY <1>a, <1>15, <2>1 DEF PruneClients, Recorded, Applying
  <2>5. LiveRecorded'
    BY <1>b, <1>a, <1>15, <2>1 DEF PruneClients, LiveRecorded, Applying, Sole
  <2>6. QED
    BY <2>2, <2>3, <2>4, <2>5
<1>16. CASE HangUp(a)
  <2>1. /\ admin[a].pc \in {"apply", "record", "list_models",
                            "list_endpoints", "owns", "swap"}
        /\ admin'[a].pc = "idle"
        /\ admin'[a].prev = {}
        /\ stale' = Left(a, IF admin[a].pc = "apply" THEN stale ELSE "cut")
    BY <1>0, <1>16, DoneFields DEF HangUp, Done
  <2>2. NoPrev'
    BY <1>a, <1>16, <2>1 DEF HangUp, NoPrev
  <2>3. EnvStocked'
    BY <1>a, <1>16, <2>1 DEF HangUp, EnvStocked
  <2>4. Recorded'
    BY <1>a, <1>16, <2>1 DEF HangUp, Recorded, Applying
  <2>5. LiveRecorded'
    BY <1>b, <1>a, <1>16, <2>1 DEF HangUp, LiveRecorded, Applying, Sole
  <2>6. QED
    BY <2>2, <2>3, <2>4, <2>5
<1>17. QED
  BY <1>1, <1>2, <1>3, <1>4, <1>5, <1>6, <1>7, <1>8, <1>9, <1>10, <1>11,
     <1>12, <1>13, <1>14, <1>15, <1>16 DEF AdminStep, Mutates

(* A call by itself keeps what holds while no calls overlap.               *)
LEMMA LoneAdmin ==
  ASSUME Typed, Typed', NoPrev, ByItself, NEW a \in Admins, AdminStep(a),
         stale # "overlap", stale' # "overlap",
         \A b \in Admins : b # a => /\ admin[b].pc = "idle"
                                    /\ admin'[b] = admin[b]
  PROVE  ByItself'
<1> USE DEF ByItself
<1> USE DEF store, live, ghosts, At
<1>0. /\ admin \in [Admins -> Calls]
      /\ Tables
      /\ admin[a] \in Calls
      /\ NewTargets(a) \subseteq Endpoints
  BY VersionTypes DEF Typed
<1>a. \A b \in Admins : b # a => /\ admin[b].pc = "idle"
                                /\ admin[b].prev = {}
                                /\ admin'[b] = admin[b]
  BY DEF NoPrev
<1>1. CASE Mutates(a)
  <2>1. /\ Begin(a, "list_models")
        /\ admin[a].pc = "idle"
        /\ admin'[a].pc = "list_models"
        /\ admin'[a].keep = FALSE
        /\ admin'[a].prev = {}
    <3>1. Begin(a, "list_models") /\ "list_models" \in AdminPC
      BY <1>1, MutationTypes DEF AdminPC
    <3>2. QED
      BY <1>0, <3>1, BegunFields DEF Begin
  <2>2. TablesRead'
    BY <1>a, <2>1 DEF Begin, TablesRead
  <2>3. NeverEmptied'
    BY <1>a, <2>1 DEF Begin, NeverEmptied, Served, NewTargets
  <2>4. KeptEmpty'
    BY <1>a, <2>1 DEF Begin, KeptEmpty, Served, Applying
  <2>5. Matched'
    BY <1>a, <2>1 DEF Begin, Matched, Served, Fresh
  <2>6. Stocked'
    BY <1>a, <2>1 DEF Begin, Stocked, Served, NewTargets
  <2>7. Dropped'
    <3>1. \A e \in Endpoints \ Built(models, rows) :
            stale = "no" => providers[e] = 0 /\ provider_keys[e] = 0
      BY <1>a, <2>1 DEF Dropped, Replacing, NoPrev
    <3>2. stale = "no" => \/ Served = Built(models, rows)
                          \/ Built(models, rows) = {}
      BY <1>a, <2>1 DEF Matched
    <3>3. /\ providers' = providers
          /\ provider_keys' = provider_keys
          /\ targets' = targets
          /\ stale' = stale
      BY <2>1 DEF Begin
    <3>4. Replacing(a)'
      BY <2>1 DEF Replacing
    <3>5. ASSUME stale' = "no", NEW e \in Endpoints \ Built(models, rows)',
                 (providers[e] # 0 \/ provider_keys[e] # 0)'
          PROVE  Replacing(a)' /\ e \in Served'
      BY <3>1, <3>2, <3>3, <3>4, <3>5 DEF Served
    <3>6. QED
      BY <1>a, <2>1, <3>5 DEF Dropped
  <2>8. BreakersKept'
    BY <1>a, <2>1 DEF Begin, BreakersKept
  <2>9. QED
    BY <2>2, <2>3, <2>4, <2>5, <2>6, <2>7, <2>8
<1>2. CASE Reload(a) \/ Rollback(a)
  <2>0. PICK d \in Nat, ts \in SUBSET Targets, f \in Nat :
          /\ BeginApply(a, d, ts, f)
          /\ \/ f = 0 /\ ts \in Documents
             \/ /\ f \in DOMAIN history
                /\ d = history[f].doc
                /\ ts = history[f].targets
    BY <1>2, DocumentTypes
  <2>1. /\ admin[a].pc = "idle"
        /\ admin'[a].pc = "apply"
        /\ admin'[a].keep = TRUE
        /\ admin'[a].prev = {}
        /\ admin'[a].doc = d
        /\ admin'[a].targets = ts
        /\ admin'[a].from = f
    <3>1. admin[a].pc = "idle"
      BY <2>0 DEF BeginApply
    <3>2. BeginApply(a, d, ts, f) /\ admin \in [Admins -> Calls]
      BY <1>0, <2>0
    <3>3. QED
      BY <3>1, <3>2, ApplyFields
  <2>2. TablesRead'
    BY <1>0, <1>a, <2>0, <2>1 DEF BeginApply, TablesRead
  <2>3. NeverEmptied'
    BY <1>0, <1>a, <2>0, <2>1 DEF BeginApply, NeverEmptied, Served, NewTargets
  <2>4. KeptEmpty'
    BY <1>0, <1>a, <2>0, <2>1 DEF BeginApply, KeptEmpty, Served, Applying
  <2>5. Matched'
    BY <1>0, <1>a, <2>0, <2>1 DEF BeginApply, Matched, Served, Fresh
  <2>6. Stocked'
    BY <1>0, <1>a, <2>0, <2>1 DEF BeginApply, Stocked, Served, NewTargets
  <2>7. Dropped'
    BY <1>0, <1>a, <2>0, <2>1
       DEF BeginApply, Dropped, Served, NewTargets, Replacing, NoPrev
  <2>8. BreakersKept'
    BY <1>0, <1>a, <2>0, <2>1 DEF BeginApply, BreakersKept
  <2>9. QED
    BY <2>2, <2>3, <2>4, <2>5, <2>6, <2>7, <2>8
<1>3. CASE Apply(a)
  <2>1. /\ admin[a].pc = "apply"
        /\ admin'[a].pc = "clear_breakers"
        /\ admin'[a].keep = admin[a].keep
        /\ admin'[a].prev = admin[a].prev
        /\ admin'[a].models = admin[a].models
        /\ admin'[a].rows = admin[a].rows
        /\ admin'[a].doc = admin[a].doc
        /\ admin'[a].targets = admin[a].targets
        /\ admin'[a].from = admin[a].from
    BY <1>0, <1>3, StepFields DEF Apply, AdminPC
  <2>2. TablesRead'
    BY <1>a, <1>3, <2>1 DEF Apply, TablesRead
  <2>3. NeverEmptied'
    BY <1>a, <1>3, <2>1 DEF Apply, NeverEmptied, Served, NewTargets
  <2>4. KeptEmpty'
    BY <1>a, <1>3, <2>1 DEF Apply, KeptEmpty, Served, Applying
  <2>5. Matched'
    BY <1>a, <1>3, <2>1 DEF Apply, Matched, Served, Fresh
  <2>6. Stocked'
    BY <1>a, <1>3, <2>1 DEF Apply, Stocked, Served, NewTargets
  <2>7. Dropped'
    BY <1>a, <1>3, <2>1
       DEF Apply, Dropped, Served, NewTargets, Replacing, NoPrev
  <2>8. BreakersKept'
    BY <1>a, <1>3, <2>1 DEF Apply, BreakersKept
  <2>9. QED
    BY <2>2, <2>3, <2>4, <2>5, <2>6, <2>7, <2>8
<1>4. CASE ClearBreakers(a)
  <2>1. /\ admin[a].pc = "clear_breakers"
        /\ admin'[a].pc = "record"
        /\ admin'[a].keep = admin[a].keep
        /\ admin'[a].prev = admin[a].prev
        /\ admin'[a].models = admin[a].models
        /\ admin'[a].rows = admin[a].rows
        /\ admin'[a].doc = admin[a].doc
        /\ admin'[a].targets = admin[a].targets
        /\ admin'[a].from = admin[a].from
    BY <1>0, <1>4, StepFields DEF ClearBreakers, AdminPC
  <2>2. TablesRead'
    BY <1>a, <1>4, <2>1 DEF ClearBreakers, TablesRead
  <2>3. NeverEmptied'
    BY <1>a, <1>4, <2>1 DEF ClearBreakers, NeverEmptied, Served, NewTargets
  <2>4. KeptEmpty'
    BY <1>a, <1>4, <2>1 DEF ClearBreakers, KeptEmpty, Served, Applying
  <2>5. Matched'
    BY <1>a, <1>4, <2>1 DEF ClearBreakers, Matched, Served, Fresh
  <2>6. Stocked'
    BY <1>a, <1>4, <2>1 DEF ClearBreakers, Stocked, Served, NewTargets
  <2>7. Dropped'
    BY <1>a, <1>4, <2>1
       DEF ClearBreakers, Dropped, Served, NewTargets, Replacing, NoPrev
  <2>8. BreakersKept'
    BY <1>a, <1>4, <2>1 DEF ClearBreakers, BreakersKept
  <2>9. QED
    BY <2>2, <2>3, <2>4, <2>5, <2>6, <2>7, <2>8
<1>5. CASE Record(a)
  <2>1. /\ admin[a].pc = "record"
        /\ admin'[a].pc = "list_models"
        /\ admin'[a].keep = TRUE
        /\ admin'[a].prev = {}
    BY <1>0, <1>5, ReassertFields DEF Record
  <2>2. TablesRead'
    BY <1>a, <1>5, <2>1 DEF Record, TablesRead
  <2>3. NeverEmptied'
    BY <1>a, <1>5, <2>1 DEF Record, NeverEmptied, Served, NewTargets
  <2>4. KeptEmpty'
    BY <1>a, <1>5, <2>1 DEF Record, KeptEmpty, Served, Applying
  <2>5. Matched'
    BY <1>a, <1>5, <2>1 DEF Record, Matched, Served, Fresh
  <2>6. Stocked'
    BY <1>a, <1>5, <2>1 DEF Record, Stocked, Served, NewTargets
  <2>7. Dropped'
    BY <1>a, <1>5, <2>1
       DEF Record, Dropped, Served, NewTargets, Replacing, NoPrev
  <2>8. BreakersKept'
    BY <1>a, <1>5, <2>1 DEF Record, BreakersKept
  <2>9. QED
    BY <2>2, <2>3, <2>4, <2>5, <2>6, <2>7, <2>8
<1>6. CASE ListModels(a)
  <2>1. /\ admin[a].pc = "list_models"
        /\ admin'[a].pc = "list_endpoints"
        /\ admin'[a].models = models
        /\ admin'[a].keep = admin[a].keep
        /\ admin'[a].prev = admin[a].prev
    BY <1>0, <1>6, ListModelsFields DEF ListModels
  <2>2. TablesRead'
    BY <1>a, <1>6, <2>1 DEF ListModels, TablesRead
  <2>3. NeverEmptied'
    BY <1>a, <1>6, <2>1 DEF ListModels, NeverEmptied, Served, NewTargets
  <2>4. KeptEmpty'
    BY <1>a, <1>6, <2>1 DEF ListModels, KeptEmpty, Served, Applying
  <2>5. Matched'
    BY <1>a, <1>6, <2>1 DEF ListModels, Matched, Served, Fresh
  <2>6. Stocked'
    BY <1>a, <1>6, <2>1 DEF ListModels, Stocked, Served, NewTargets
  <2>7. Dropped'
    BY <1>a, <1>6, <2>1
       DEF ListModels, Dropped, Served, NewTargets, Replacing, NoPrev
  <2>8. BreakersKept'
    BY <1>a, <1>6, <2>1 DEF ListModels, BreakersKept
  <2>9. QED
    BY <2>2, <2>3, <2>4, <2>5, <2>6, <2>7, <2>8
<1>7. CASE ListEndpoints(a)
  <2>1. /\ admin[a].pc = "list_endpoints"
        /\ admin'[a].pc = IF admin[a].keep THEN "build" ELSE "owns"
        /\ admin'[a].rows = rows
        /\ admin'[a].keep = admin[a].keep
        /\ admin'[a].prev = admin[a].prev
        /\ admin'[a].models = admin[a].models
    BY <1>0, <1>7, ListEndpointsFields DEF ListEndpoints
  <2>2. TablesRead'
    BY <1>0, <1>a, <1>7, <2>1 DEF ListEndpoints, TablesRead
  <2>3. NeverEmptied'
    BY <1>0, <1>a, <1>7, <2>1
       DEF ListEndpoints, NeverEmptied, Served, NewTargets
  <2>4. KeptEmpty'
    BY <1>0, <1>a, <1>7, <2>1 DEF ListEndpoints, KeptEmpty, Served, Applying
  <2>5. Matched'
    BY <1>0, <1>a, <1>7, <2>1 DEF ListEndpoints, Matched, Served, Fresh
  <2>6. Stocked'
    BY <1>0, <1>a, <1>7, <2>1 DEF ListEndpoints, Stocked, Served, NewTargets
  <2>7. Dropped'
    BY <1>0, <1>a, <1>7, <2>1
       DEF ListEndpoints, Dropped, Served, NewTargets, Replacing, NoPrev
  <2>8. BreakersKept'
    BY <1>0, <1>a, <1>7, <2>1 DEF ListEndpoints, BreakersKept
  <2>9. QED
    BY <2>2, <2>3, <2>4, <2>5, <2>6, <2>7, <2>8
<1>8. CASE ListFails(a)
  <2>1. /\ admin[a].pc \in {"list_models", "list_endpoints"}
        /\ admin'[a].pc = "idle"
        /\ admin'[a].prev = {}
        /\ stale' = Left(a, IF stale = "cut" THEN "cut" ELSE "unread")
    BY <1>0, <1>8, DoneFields DEF ListFails, Done
  <2>2. TablesRead'
    BY <1>a, <1>8, <2>1 DEF ListFails, TablesRead, Left, CaughtUp
  <2>3. NeverEmptied'
    BY <1>a, <1>8, <2>1
       DEF ListFails, NeverEmptied, Served, NewTargets, Left, CaughtUp
  <2>4. KeptEmpty'
    BY <1>a, <1>8, <2>1
       DEF ListFails, KeptEmpty, Served, Applying, Left, CaughtUp
  <2>5. Matched'
    BY <1>a, <1>8, <2>1 DEF ListFails, Matched, Served, Fresh, Left, CaughtUp
  <2>6. Stocked'
    BY <1>a, <1>8, <2>1
       DEF ListFails, Stocked, Served, NewTargets, Left, CaughtUp
  <2>7. Dropped'
    BY <1>a, <1>8, <2>1
       DEF ListFails, Dropped, Served, NewTargets, Replacing, NoPrev,
           Left, CaughtUp
  <2>8. BreakersKept'
    BY <1>a, <1>8, <2>1 DEF ListFails, BreakersKept, Left, CaughtUp
  <2>9. QED
    BY <2>2, <2>3, <2>4, <2>5, <2>6, <2>7, <2>8
<1>9. CASE DbOwnsRouting(a)
  <2>1. /\ admin[a].pc = "owns"
        /\ admin'[a].pc = "build"
        /\ admin'[a].keep = (targets \cap Endpoints = {})
        /\ admin'[a].prev = admin[a].prev
        /\ admin'[a].models = admin[a].models
        /\ admin'[a].rows = admin[a].rows
    BY <1>0, <1>9, DbOwnsRoutingFields DEF DbOwnsRouting
  <2>2. TablesRead'
    BY <1>a, <1>9, <2>1 DEF DbOwnsRouting, TablesRead
  <2>3. NeverEmptied'
    BY <1>a, <1>9, <2>1 DEF DbOwnsRouting, NeverEmptied, Served, NewTargets
  <2>4. KeptEmpty'
    BY <1>a, <1>9, <2>1 DEF DbOwnsRouting, KeptEmpty, Served, Applying
  <2>5. Matched'
    BY <1>a, <1>9, <2>1 DEF DbOwnsRouting, Matched, Served, Fresh
  <2>6. Stocked'
    BY <1>a, <1>9, <2>1 DEF DbOwnsRouting, Stocked, Served, NewTargets
  <2>7. Dropped'
    BY <1>a, <1>9, <2>1
       DEF DbOwnsRouting, Dropped, Served, NewTargets, Replacing, NoPrev
  <2>8. BreakersKept'
    BY <1>a, <1>9, <2>1 DEF DbOwnsRouting, BreakersKept
  <2>9. QED
    BY <2>2, <2>3, <2>4, <2>5, <2>6, <2>7, <2>8
<1>10. CASE Build(a)
  <2>1. /\ admin[a].pc = "build"
        /\ \/ /\ NewTargets(a) = {} /\ admin[a].keep
              /\ admin'[a].pc = "idle"
              /\ admin'[a].prev = {}
              /\ stale' = Left(a, CaughtUp)
           \/ /\ ~(NewTargets(a) = {} /\ admin[a].keep)
              /\ admin'[a].pc = "insert_keys"
              /\ admin'[a].keep = admin[a].keep
              /\ admin'[a].prev = admin[a].prev
              /\ admin'[a].models = admin[a].models
              /\ admin'[a].rows = admin[a].rows
              /\ stale' = stale
    <3>1. CASE NewTargets(a) = {} /\ admin[a].keep
      BY <1>0, <1>10, <3>1, DoneFields DEF Build, Done
    <3>2. CASE ~(NewTargets(a) = {} /\ admin[a].keep)
      BY <1>0, <1>10, <3>2, StepFields DEF Build, AdminPC
    <3>3. QED
      BY <3>1, <3>2
  <2>2. TablesRead'
    BY <1>a, <1>10, <2>1 DEF Build, TablesRead, Left, CaughtUp
  <2>3. NeverEmptied'
    BY <1>a, <1>10, <2>1
       DEF Build, NeverEmptied, Served, NewTargets, Left, CaughtUp
  <2>4. KeptEmpty'
    BY <1>a, <1>10, <2>1 DEF Build, KeptEmpty, Served, Applying, Left, CaughtUp
  <2>5. Matched'
    <3>1. NewTargets(a) = Built(models, rows)
      BY <2>1 DEF NewTargets, TablesRead
    <3>2. NewTargets(a) = {} /\ admin[a].keep => Served = {} \/ saved
      BY <2>1 DEF KeptEmpty
    <3>3. QED
      BY <1>10, <1>a, <2>1, <3>1, <3>2 DEF Build, Matched, Served
  <2>6. Stocked'
    <3>1. /\ \A t \in Targets : providers'[t] =
                IF t \in NewTargets(a) THEN admin[a].rows[t].ver
                                       ELSE providers[t]
          /\ provider_keys' = provider_keys
          /\ targets' = targets
          /\ saved' = saved
      BY <1>10 DEF Build
    <3>2. \A t \in NewTargets(a) : /\ providers'[t] = admin[a].rows[t].ver
                                   /\ providers'[t] # 0
      BY <1>0, <3>1, VersionTypes DEF Targets
    <3>3. \A t \in Targets : providers[t] # 0 => providers'[t] # 0
      BY <3>1, <3>2
    <3>4. CASE admin'[a].pc = "idle"
      <4>1. ~saved => Served = {}
        BY <2>1, <3>4 DEF KeptEmpty
      <4>2. QED
        BY <1>a, <3>1, <3>4, <4>1 DEF Stocked, Served
    <3>5. CASE admin'[a].pc = "insert_keys"
      <4>1. NewTargets(a)' = NewTargets(a) /\ admin'[a].rows = admin[a].rows
        BY <2>1, <3>5 DEF NewTargets
      <4>2. (stale # "cut" /\ ~saved) =>
              /\ \A e \in Served : providers[e] # 0
              /\ \A e \in Served \ Keyless : provider_keys[e] # 0
        BY <1>a, <2>1 DEF Stocked
      <4>3. stale' = stale
        BY <2>1, <3>5
      <4>4. QED
        BY <1>a, <3>1, <3>2, <3>3, <3>5, <4>1, <4>2, <4>3
           DEF Stocked, Served, Targets
    <3>6. QED
      BY <2>1, <3>4, <3>5
  <2>7. Dropped'
    <3>1. NewTargets(a) = Built(models, rows)
      BY <2>1 DEF NewTargets, TablesRead
    <3>2. \A e \in Endpoints \ NewTargets(a) : providers'[e] = providers[e]
      BY <1>10 DEF Build, Targets
    <3>3. stale' = "no" => stale = "no"
      BY <2>1 DEF Left, CaughtUp
    <3>4. admin[a].prev = {} /\ admin'[a].prev = {}
      BY <2>1 DEF NoPrev
    <3>5. ASSUME stale = "no", NEW e \in Endpoints \ Built(models, rows),
                 providers[e] # 0 \/ provider_keys[e] # 0
          PROVE  Replacing(a) /\ e \in Served
      BY <1>a, <3>4, <3>5 DEF Dropped, Replacing
    <3>6. Replacing(a) => Replacing(a)'
      BY <2>1 DEF Replacing
    <3>7. /\ provider_keys' = provider_keys
          /\ targets' = targets
          /\ models' = models
          /\ rows' = rows
      BY <1>10 DEF Build
    <3>8. QED
      BY <1>a, <2>1, <3>1, <3>2, <3>3, <3>5, <3>6, <3>7 DEF Dropped, Served
  <2>8. BreakersKept'
    BY <1>a, <1>10, <2>1 DEF Build, BreakersKept, Left, CaughtUp
  <2>9. QED
    BY <2>2, <2>3, <2>4, <2>5, <2>6, <2>7, <2>8
<1>11. CASE InsertKeys(a)
  <2>1. /\ admin[a].pc = "insert_keys"
        /\ admin'[a].pc = "retain_keys"
        /\ admin'[a].keep = admin[a].keep
        /\ admin'[a].prev = admin[a].prev
        /\ admin'[a].models = admin[a].models
        /\ admin'[a].rows = admin[a].rows
    BY <1>0, <1>11, StepFields DEF InsertKeys, AdminPC
  <2>2. TablesRead'
    BY <1>a, <1>11, <2>1 DEF InsertKeys, TablesRead
  <2>3. NeverEmptied'
    BY <1>a, <1>11, <2>1 DEF InsertKeys, NeverEmptied, Served, NewTargets
  <2>4. KeptEmpty'
    BY <1>a, <1>11, <2>1 DEF InsertKeys, KeptEmpty, Served, Applying
  <2>5. Matched'
    BY <1>a, <1>11, <2>1 DEF InsertKeys, Matched, Served, Fresh
  <2>6. Stocked'
    <3>1. /\ \A e \in Endpoints : provider_keys'[e] =
                IF e \in NewTargets(a) \ Keyless THEN admin[a].rows[e].ver
                                                ELSE provider_keys[e]
          /\ providers' = providers
          /\ targets' = targets
          /\ saved' = saved
          /\ stale' = stale
      BY <1>11 DEF InsertKeys
    <3>2. \A e \in NewTargets(a) \ Keyless :
            /\ provider_keys'[e] = admin[a].rows[e].ver
            /\ provider_keys'[e] # 0
      BY <1>0, <3>1, VersionTypes
    <3>3. (stale # "cut" /\ ~saved) =>
            \A e \in Served \ Keyless : provider_keys[e] # 0
      BY <1>a, <2>1 DEF Stocked
    <3>4. (stale # "cut" /\ ~saved) =>
            \A e \in Served \ Keyless : provider_keys'[e] # 0
      BY <3>1, <3>2, <3>3 DEF Served
    <3>5. NewTargets(a)' = NewTargets(a)
      BY <2>1 DEF NewTargets
    <3>6. QED
      BY <1>a, <2>1, <3>1, <3>2, <3>4, <3>5 DEF Stocked, Served
  <2>7. Dropped'
    <3>1. NewTargets(a) = Built(models, rows)
      BY <2>1 DEF NewTargets, TablesRead
    <3>2. \A e \in Endpoints \ NewTargets(a) :
            provider_keys'[e] = provider_keys[e]
      BY <1>11 DEF InsertKeys
    <3>3. Replacing(a) => Replacing(a)'
      BY <2>1 DEF Replacing
    <3>4. QED
      BY <1>11, <1>a, <2>1, <3>1, <3>2, <3>3
         DEF InsertKeys, Dropped, Served, Replacing
  <2>8. BreakersKept'
    BY <1>a, <1>11, <2>1 DEF InsertKeys, BreakersKept
  <2>9. QED
    BY <2>2, <2>3, <2>4, <2>5, <2>6, <2>7, <2>8
<1>12. CASE RetainKeys(a)
  <2>1. /\ admin[a].pc = "retain_keys"
        /\ admin'[a].pc = "swap"
        /\ admin'[a].keep = admin[a].keep
        /\ admin'[a].prev = admin[a].prev
        /\ admin'[a].models = admin[a].models
        /\ admin'[a].rows = admin[a].rows
    BY <1>0, <1>12, StepFields DEF RetainKeys, AdminPC
  <2>2. TablesRead'
    BY <1>a, <1>12, <2>1 DEF RetainKeys, TablesRead
  <2>3. NeverEmptied'
    BY <1>a, <1>12, <2>1 DEF RetainKeys, NeverEmptied, Served, NewTargets
  <2>4. KeptEmpty'
    BY <1>a, <1>12, <2>1 DEF RetainKeys, KeptEmpty, Served, Applying
  <2>5. Matched'
    BY <1>a, <1>12, <2>1 DEF RetainKeys, Matched, Served, Fresh
  <2>6. Stocked'
    <3>1. /\ \A e \in Endpoints : provider_keys'[e] =
                IF e \in NewTargets(a) \ Keyless THEN provider_keys[e] ELSE 0
          /\ providers' = providers
          /\ targets' = targets
          /\ saved' = saved
          /\ stale' = stale
      BY <1>12 DEF RetainKeys
    <3>2. /\ NewTargets(a)' = NewTargets(a)
          /\ admin'[a].rows = admin[a].rows
      BY <2>1 DEF NewTargets
    <3>3. \A e \in NewTargets(a) \ Keyless :
            /\ provider_keys'[e] = admin[a].rows[e].ver
            /\ provider_keys'[e] # 0
      BY <1>0, <2>1, <3>1, VersionTypes DEF Stocked
    <3>4. \A e \in Served \ Keyless :
            provider_keys'[e] = 0 => e \notin NewTargets(a)
      BY <3>3 DEF Served
    <3>5. QED
      BY <1>a, <2>1, <3>1, <3>2, <3>3, <3>4 DEF Stocked, Served
  <2>7. Dropped'
    <3>1. NewTargets(a) = Built(models, rows)
      BY <2>1 DEF NewTargets, TablesRead
    <3>2. /\ \A e \in Endpoints : provider_keys'[e] =
                IF e \in NewTargets(a) \ Keyless THEN provider_keys[e] ELSE 0
          /\ UNCHANGED <<providers, targets, stale, models, rows>>
      BY <1>12 DEF RetainKeys
    <3>3. NewTargets(a)' = NewTargets(a)
      BY <2>1 DEF NewTargets
    <3>4. Replacing(a) => Replacing(a)'
      BY <2>1 DEF Replacing
    <3>5. QED
      BY <1>a, <2>1, <3>2, <3>3, <3>4 DEF Dropped, Served, Replacing
  <2>8. BreakersKept'
    BY <1>a, <1>12, <2>1 DEF RetainKeys, BreakersKept
  <2>9. QED
    BY <2>2, <2>3, <2>4, <2>5, <2>6, <2>7, <2>8
<1>13. CASE Swap(a)
  <2>1. /\ admin[a].pc = "swap"
        /\ admin'[a].pc = "retain_breakers"
        /\ admin'[a].prev = targets \cap Endpoints
        /\ admin'[a].models = admin[a].models
        /\ admin'[a].rows = admin[a].rows
    BY <1>0, <1>13, SwapFields DEF Swap
  <2>2. TablesRead'
    BY <1>a, <1>13, <2>1 DEF Swap, TablesRead
  <2>3. NeverEmptied'
    BY <1>a, <1>13, <2>1 DEF Swap, NeverEmptied, Served, NewTargets
  <2>4. KeptEmpty'
    BY <1>a, <1>13, <2>1 DEF Swap, KeptEmpty, Served, Applying
  <2>5. Matched'
    <3>1. NewTargets(a) = Built(models, rows)
      BY <2>1 DEF NewTargets, TablesRead
    <3>2. admin[a].rows = rows
      BY <2>1 DEF TablesRead
    <3>3. /\ targets' = NewTargets(a)
          /\ UNCHANGED <<models, rows, providers, provider_keys>>
      BY <1>13 DEF Swap
    <3>4. Served' = Built(models, rows)
      BY <1>0, <3>1, <3>3 DEF Served
    <3>5. \A e \in NewTargets(a) : Fresh(e)
      BY <2>1, <3>2 DEF Stocked, Fresh
    <3>6. \A e \in Served' : Fresh(e)'
      BY <1>0, <3>3, <3>5 DEF Served, Fresh
    <3>7. QED
      BY <1>a, <2>1, <3>3, <3>4, <3>6 DEF Matched
  <2>6. Stocked'
    <3>1. /\ targets' = NewTargets(a)
          /\ UNCHANGED <<providers, provider_keys, stale>>
      BY <1>13 DEF Swap
    <3>2. \A e \in NewTargets(a) :
            providers[e] # 0 /\ (e \in Keyless \/ provider_keys[e] # 0)
      BY <2>1, VersionTypes DEF Stocked
    <3>3. Served' = NewTargets(a)
      BY <1>0, <3>1 DEF Served
    <3>4. QED
      BY <1>a, <2>1, <3>1, <3>2, <3>3 DEF Stocked
  <2>7. Dropped'
    <3>1. NewTargets(a)' = NewTargets(a)
      BY <2>1 DEF NewTargets
    <3>2. UNCHANGED <<providers, provider_keys, stale, models, rows>>
      BY <1>13 DEF Swap
    <3>3. admin[a].prev = {}
      BY <2>1 DEF NoPrev
    <3>4. ASSUME stale = "no", NEW e \in Endpoints \ Built(models, rows),
                 providers[e] # 0 \/ provider_keys[e] # 0
          PROVE  e \in admin'[a].prev
      BY <1>a, <2>1, <3>3, <3>4 DEF Dropped, Served, Replacing
    <3>5. QED
      BY <1>a, <2>1, <3>1, <3>2, <3>4 DEF Dropped
  <2>8. BreakersKept'
    BY <1>a, <1>13, <2>1 DEF Swap, BreakersKept
  <2>9. QED
    BY <2>2, <2>3, <2>4, <2>5, <2>6, <2>7, <2>8
<1>14. CASE RetainBreakers(a)
  <2>1. /\ admin[a].pc = "retain_breakers"
        /\ admin'[a].pc = "prune"
        /\ admin'[a].keep = admin[a].keep
        /\ admin'[a].prev = admin[a].prev
        /\ admin'[a].models = admin[a].models
        /\ admin'[a].rows = admin[a].rows
    BY <1>0, <1>14, StepFields DEF RetainBreakers, AdminPC
  <2>2. TablesRead'
    BY <1>a, <1>14, <2>1 DEF RetainBreakers, TablesRead
  <2>3. NeverEmptied'
    BY <1>a, <1>14, <2>1 DEF RetainBreakers, NeverEmptied, Served, NewTargets
  <2>4. KeptEmpty'
    BY <1>a, <1>14, <2>1 DEF RetainBreakers, KeptEmpty, Served, Applying
  <2>5. Matched'
    BY <1>a, <1>14, <2>1 DEF RetainBreakers, Matched, Served, Fresh
  <2>6. Stocked'
    BY <1>a, <1>14, <2>1 DEF RetainBreakers, Stocked, Served, NewTargets
  <2>7. Dropped'
    <3>1. NewTargets(a)' = NewTargets(a)
      BY <2>1 DEF NewTargets
    <3>2. UNCHANGED <<providers, provider_keys, stale, models, rows>>
      BY <1>14 DEF RetainBreakers
    <3>3. QED
      BY <1>a, <2>1, <3>1, <3>2 DEF Dropped, Replacing
  <2>8. BreakersKept'
    <3>1. NewTargets(a) = Built(models, rows)
      BY <2>1 DEF NewTargets, TablesRead
    <3>2. NewTargets(a) \subseteq targets
      BY <2>1, <3>1 DEF Matched, Served
    <3>3. circuit_breakers' \subseteq targets' \cup late'
      BY <1>14, <3>2 DEF RetainBreakers
    <3>4. QED
      BY <3>3 DEF BreakersKept
  <2>9. QED
    BY <2>2, <2>3, <2>4, <2>5, <2>6, <2>7, <2>8
<1>15. CASE PruneClients(a)
  <2>1. /\ admin[a].pc = "prune"
        /\ admin'[a].pc = "idle"
        /\ admin'[a].prev = {}
        /\ stale' = Left(a, CaughtUp)
    BY <1>0, <1>15, DoneFields DEF PruneClients, Done
  <2>2. TablesRead'
    BY <1>a, <1>15, <2>1 DEF PruneClients, TablesRead, Left, CaughtUp
  <2>3. NeverEmptied'
    BY <1>a, <1>15, <2>1
       DEF PruneClients, NeverEmptied, Served, NewTargets, Left, CaughtUp
  <2>4. KeptEmpty'
    BY <1>a, <1>15, <2>1
       DEF PruneClients, KeptEmpty, Served, Applying, Left, CaughtUp
  <2>5. Matched'
    <3>1. NewTargets(a) = Built(models, rows)
      BY <2>1 DEF NewTargets, TablesRead
    <3>2. Served = Built(models, rows) /\ \A e \in Served : Fresh(e)
      BY <2>1 DEF Matched
    <3>3. /\ UNCHANGED <<models, rows, provider_keys, targets>>
          /\ \A e \in NewTargets(a) : providers'[e] = providers[e]
      BY <1>0, <1>15 DEF PruneClients, Targets
    <3>4. Served' = Built(models, rows)' /\ \A e \in Served' : Fresh(e)'
      BY <3>1, <3>2, <3>3 DEF Served, Fresh
    <3>5. QED
      BY <1>a, <2>1, <3>4 DEF Matched
  <2>6. Stocked'
    <3>1. NewTargets(a) = Built(models, rows)
      BY <2>1 DEF NewTargets, TablesRead
    <3>2. Served = Built(models, rows) /\ \A e \in Served : Fresh(e)
      BY <2>1 DEF Matched
    <3>3. /\ UNCHANGED <<provider_keys, targets>>
          /\ \A e \in NewTargets(a) : providers'[e] = providers[e]
      BY <1>0, <1>15 DEF PruneClients, Targets
    <3>4. \A e \in Served :
            providers'[e] # 0 /\ (e \in Keyless \/ provider_keys'[e] # 0)
      BY <3>1, <3>2, <3>3, BuiltEndpoints DEF Fresh
    <3>5. QED
      BY <1>a, <2>1, <3>3, <3>4 DEF Stocked, Served
  <2>7. Dropped'
    <3>1. NewTargets(a) = Built(models, rows)
      BY <2>1 DEF NewTargets, TablesRead
    <3>2. \A e \in Endpoints \ NewTargets(a) : provider_keys[e] = 0
      BY <2>1 DEF Dropped
    <3>3. \A e \in Endpoints : providers'[e] =
            IF e \in admin[a].prev \ NewTargets(a) THEN 0 ELSE providers[e]
      BY <1>15 DEF PruneClients, Targets
    <3>4. stale' = "no" => stale = "no"
      BY <2>1 DEF Left, CaughtUp
    <3>5. ASSUME stale = "no", NEW e \in Endpoints \ Built(models, rows),
                 providers[e] # 0
          PROVE  e \in admin[a].prev
      BY <1>a, <2>1, <3>5 DEF Dropped, Replacing
    <3>6. UNCHANGED <<provider_keys, models, rows>>
      BY <1>15 DEF PruneClients
    <3>7. QED
      BY <1>a, <2>1, <3>1, <3>2, <3>3, <3>4, <3>5, <3>6 DEF Dropped
  <2>8. BreakersKept'
    BY <1>a, <1>15, <2>1 DEF PruneClients, BreakersKept, Left, CaughtUp
  <2>9. QED
    BY <2>2, <2>3, <2>4, <2>5, <2>6, <2>7, <2>8
<1>16. CASE HangUp(a)
  <2>1. /\ admin[a].pc \in {"apply", "record", "list_models",
                            "list_endpoints", "owns", "swap"}
        /\ admin'[a].pc = "idle"
        /\ admin'[a].prev = {}
        /\ stale' = Left(a, IF admin[a].pc = "apply" THEN stale ELSE "cut")
    BY <1>0, <1>16, DoneFields DEF HangUp, Done
  <2>2. TablesRead'
    BY <1>a, <1>16, <2>1 DEF HangUp, TablesRead, Left, CaughtUp
  <2>3. NeverEmptied'
    BY <1>a, <1>16, <2>1
       DEF HangUp, NeverEmptied, Served, NewTargets, Left, CaughtUp
  <2>4. KeptEmpty'
    BY <1>a, <1>16, <2>1
       DEF HangUp, KeptEmpty, Served, Applying, Left, CaughtUp
  <2>5. Matched'
    BY <1>a, <1>16, <2>1 DEF HangUp, Matched, Served, Fresh, Left, CaughtUp
  <2>6. Stocked'
    BY <1>a, <1>16, <2>1
       DEF HangUp, Stocked, Served, NewTargets, Left, CaughtUp
  <2>7. Dropped'
    BY <1>a, <1>16, <2>1
       DEF HangUp, Dropped, Served, NewTargets, Replacing, NoPrev, Left,
           CaughtUp
  <2>8. BreakersKept'
    BY <1>a, <1>16, <2>1 DEF HangUp, BreakersKept, Left, CaughtUp
  <2>9. QED
    BY <2>2, <2>3, <2>4, <2>5, <2>6, <2>7, <2>8
<1>17. QED
  BY <1>1, <1>2, <1>3, <1>4, <1>5, <1>6, <1>7, <1>8, <1>9, <1>10, <1>11,
     <1>12, <1>13, <1>14, <1>15, <1>16 DEF AdminStep, Mutates

-----------------------------------------------------------------------------
(* The theorems.                                                           *)

(* The inductive invariant.                                                *)
IInv ==
  /\ Typed
  /\ Sole
  /\ NoPrev
  /\ EnvStocked
  /\ Recorded
  /\ LiveRecorded
  /\ stale # "overlap" => ByItself

(* The invariant holds at the start.                                       *)
LEMMA IInvInit == Init => IInv
<1>1. SUFFICES ASSUME Init PROVE IInv
  OBVIOUS
<1>2. \A a \in Admins : admin[a].pc = "idle" /\ admin[a].prev = {}
  BY <1>1 DEF Init, IdleCall
<1>3. Sole /\ NoPrev /\ TablesRead /\ NeverEmptied /\ KeptEmpty
  BY <1>2 DEF Sole, NoPrev, TablesRead, NeverEmptied, KeptEmpty, Applying
<1>4. /\ history # <<>>
      /\ Len(history) = 1
      /\ DOMAIN history = {1}
      /\ history[1].from = 0
      /\ history[1].targets = EnvTargets
      /\ history[1].doc = doc
  BY <1>1 DEF Init
<1>5. Recorded /\ LiveRecorded
  BY <1>2, <1>4, RoutingAssumption DEF Recorded, LiveRecorded, Applying
<1>6. PICK built : built = Built(models, rows)
  OBVIOUS
<1>7. built \subseteq Endpoints
  BY <1>6, BuiltEndpoints
<1>8. /\ targets = IF built = {} THEN EnvTargets ELSE built
      /\ providers = [t \in Targets |->
                        IF t \in EnvTargets \cup built THEN 1 ELSE 0]
      /\ provider_keys = [e \in Endpoints |->
                            IF e \in built \ Keyless THEN 1 ELSE 0]
  BY <1>1, <1>6 DEF Init
<1>9. Served = built
  BY <1>7, <1>8, RoutingAssumption DEF Served
<1>10. /\ \A t \in EnvTargets \cup built : providers[t] = 1
       /\ \A e \in built \ Keyless : provider_keys[e] = 1
       /\ \A e \in Endpoints \ built : providers[e] = 0 /\ provider_keys[e] = 0
  BY <1>7, <1>8, RoutingAssumption DEF Targets
<1>11. \A e \in built : rows[e].ver = 1
  <2>1. ASSUME NEW e \in built PROVE rows[e].ver = 1
    <3>1. rows[e].ver # 0 /\ e \in Endpoints
      BY <1>6, <1>7, BuiltEndpoints
    <3>2. rows[e] \in {NoRow, [enabled |-> TRUE, ver |-> 1]}
      BY <1>1, <3>1 DEF Init
    <3>3. QED
      BY <3>1, <3>2 DEF NoRow
  <2>2. QED
    BY <2>1
<1>12. EnvStocked
  BY <1>10 DEF EnvStocked
<1>13. Matched
  BY <1>2, <1>6, <1>9, <1>10, <1>11 DEF Matched, Fresh
<1>14. Stocked
  BY <1>2, <1>9, <1>10 DEF Stocked
<1>15. Dropped
  BY <1>2, <1>6, <1>10 DEF Dropped
<1>16. BreakersKept
  BY <1>1 DEF Init, BreakersKept
<1>17. QED
  BY <1>1, <1>3, <1>5, <1>12, <1>13, <1>14, <1>15, <1>16, TypedInit
     DEF IInv, ByItself

(* A step of an admin call keeps the invariant.                            *)
LEMMA IInvAdmin ==
  ASSUME IInv, NEW a \in Admins, AdminStep(a)
  PROVE  IInv'
<1>1. Typed /\ Typed' /\ Sole
  BY TypedAdmin DEF IInv
<1>2. NoPrev' /\ EnvStocked' /\ Recorded' /\ LiveRecorded'
  BY <1>1, AlwaysAdmin DEF IInv
<1>3. Sole'
  BY <1>1, WhoIsThere DEF Sole
<1>4. ASSUME stale' # "overlap" PROVE ByItself'
  <2>1. CASE stale # "overlap"
    BY <1>1, <1>4, <2>1, WhoIsThere, LoneAdmin DEF IInv
  <2>2. CASE stale = "overlap"
    <3>1. stale' = "cut" /\ \A b \in Admins : admin'[b].pc = "idle"
      BY <1>1, <1>4, <2>2, WhoIsThere
    <3>2. QED
      BY <3>1
         DEF ByItself, TablesRead, NeverEmptied, KeptEmpty, Matched, Stocked,
             Dropped, BreakersKept, Applying
  <2>3. QED
    BY <2>1, <2>2
<1>5. QED
  BY <1>1, <1>2, <1>3, <1>4 DEF IInv

(* A step of a request keeps it: the breaker it makes is of a target, or   *)
(* it is late.                                                             *)
LEMMA IInvRequest ==
  ASSUME IInv, NEW r \in Requests, RequestStep(r)
  PROVE  IInv'
<1>1. Typed'
  BY TypedRequest DEF IInv
<1>2. UNCHANGED <<models, rows, doc, targets, provider_keys, providers,
                  history, admin, ops, stale, saved, unsure>>
  BY RequestFrame
<1>3. Sole' /\ NoPrev' /\ EnvStocked' /\ Recorded' /\ LiveRecorded'
  BY <1>2
     DEF IInv, Sole, NoPrev, EnvStocked, Recorded, LiveRecorded, Applying
<1>4. ASSUME stale # "overlap"
      PROVE  /\ TablesRead' /\ NeverEmptied' /\ KeptEmpty' /\ Matched'
             /\ Stocked' /\ Dropped'
  BY <1>2, <1>4
     DEF IInv, ByItself, TablesRead, NeverEmptied, KeptEmpty, Matched,
         Stocked, Dropped, Served, Fresh, NewTargets, Applying, Replacing
<1>5. ASSUME stale # "overlap" PROVE BreakersKept'
  <2>1. BreakersKept
    BY <1>5 DEF IInv, ByItself
  <2>2. CASE SelectTarget(r)
    BY <1>2, <2>1, <2>2 DEF SelectTarget, BreakersKept, live, ghosts
  <2>3. CASE LookupClient(r)
    BY <1>2, <2>1, <2>3 DEF LookupClient, BreakersKept
  <2>4. QED
    BY <2>2, <2>3 DEF RequestStep
<1>6. QED
  BY <1>1, <1>2, <1>3, <1>4, <1>5 DEF IInv, ByItself

(* Every step keeps the invariant.                                         *)
LEMMA IInvNext == IInv /\ [Next]_vars => IInv'
<1>1. ASSUME IInv, UNCHANGED vars PROVE IInv'
  <2>1. Typed'
    BY <1>1, TypedNext DEF IInv
  <2>2. QED
    BY <1>1, <2>1
       DEF vars, store, live, ghosts, IInv, ByItself, Sole, NoPrev,
           EnvStocked, Recorded, LiveRecorded, TablesRead, NeverEmptied,
           KeptEmpty, Matched, Stocked, Dropped, BreakersKept, Served,
           Fresh, NewTargets, Applying, Replacing
<1>2. QED
  BY <1>1, IInvAdmin, IInvRequest DEF Next

(* handlers.rs "While env/config targets are live, an empty DB must not    *)
(* replace them": no step of a rebuild, a reload or a rollback leaves the  *)
(* gateway without targets while the environment's route, whatever config  *)
(* documents are saved and whoever hangs up, unless admin calls overlap.   *)
THEOREM EnvTargetsSurvive == Spec => EnvNeverWiped
<1>1. ASSUME IInv, [Next]_vars
      PROVE  [ (targets # {} /\ targets \cap Endpoints = {} /\ targets' = {})
                 => stale = "overlap" ]_vars
  <2>1. SUFFICES ASSUME targets # {}, targets \cap Endpoints = {},
                        stale # "overlap"
                 PROVE  targets' # {}
    OBVIOUS
  <2>2. ASSUME NEW a \in Admins, Apply(a) PROVE targets' # {}
    BY <1>1, <2>2 DEF IInv, Recorded, Apply, Applying, At
  <2>3. ASSUME NEW a \in Admins, Swap(a) PROVE targets' # {}
    <3>1. admin[a].keep \in BOOLEAN
      BY <1>1 DEF IInv, Typed, Calls
    <3>2. NeverEmptied
      BY <1>1, <2>1 DEF IInv, ByItself
    <3>3. admin[a].keep => NewTargets(a) # {}
      BY <2>3, <3>2 DEF NeverEmptied, Swap, At
    <3>4. admin[a].keep
      BY <2>1, <2>3, <3>1, <3>2 DEF NeverEmptied, Swap, At, Served
    <3>5. QED
      BY <2>3, <3>3, <3>4 DEF Swap
  <2>4. ASSUME NEW a \in Admins, AdminStep(a), ~Apply(a), ~Swap(a)
        PROVE  targets' = targets
    BY <2>4
       DEF AdminStep, CreateModel, ToggleModel, DeleteModel, CreateEndpoint,
           UpdateEndpoint, ToggleEndpoint, DeleteEndpoint, Begin, Reload,
           Rollback, BeginApply, ClearBreakers, Record, ListModels,
           ListEndpoints, ListFails, HangUp, DbOwnsRouting, Build,
           InsertKeys, RetainKeys, RetainBreakers, PruneClients, live
  <2>5. ASSUME NEW r \in Requests, RequestStep(r) PROVE targets' = targets
    BY <2>5, RequestFrame
  <2>6. UNCHANGED vars => targets' = targets
    BY DEF vars, live
  <2>7. QED
    BY <1>1, <2>1, <2>2, <2>3, <2>4, <2>5, <2>6 DEF Next
<1>2. QED
  BY <1>1, IInvInit, IInvNext, PTL DEF Spec, EnvNeverWiped

(* config.rs: once no admin call runs, the newest version of the history   *)
(* is the live document, unless documents were applied in an overlap or    *)
(* one was cut off before it was recorded; and every version made by a     *)
(* rollback comes after the one it restores and says the same.             *)
THEOREM HistoryStaysFaithful == Spec => []HistoryFaithful
<1>1. IInv => HistoryFaithful
  BY DEF IInv, Recorded, LiveRecorded, HistoryFaithful, Quiet, At
<1>2. QED
  BY <1>1, IInvInit, IInvNext, PTL DEF Spec

(* rebuild.rs "without an empty window": a live endpoint lacks its client  *)
(* or its key only between the retain and the swap of a rebuild that drops *)
(* it, after a rebuild that was cut off there or that overlapped another   *)
(* call, or when a document put it back.                                   *)
THEOREM SurvivorsStayServable == Spec => []SurvivorsServable
<1>1. ASSUME IInv PROVE SurvivorsServable
  <2>1. stale # "overlap" => Stocked
    BY <1>1 DEF IInv, ByItself
  <2>2. QED
    BY <2>1 DEF Stocked, SurvivorsServable, Served, At
<1>2. QED
  BY <1>1, IInvInit, IInvNext, PTL DEF Spec

(* rebuild.rs and handlers.rs: when no admin call runs and the last        *)
(* rebuild ran by itself to its end, the endpoints that route are the ones *)
(* the tables enable, each with the client and the key of its row, or a    *)
(* document stands in for tables that enable nothing; the environment      *)
(* keeps its clients; and, as long as every rebuild went so, no client, no *)
(* credential and no breaker outlives its endpoint.                        *)
THEOREM RoutingStaysInSync == Spec => []RoutingInSync
<1>1. ASSUME IInv PROVE RoutingInSync
  <2>1. RoutingMatchesTables
    <3>1. SUFFICES ASSUME Quiet, stale \in {"no", "before"}
                   PROVE  \/ Served = Built(models, rows)
                             /\ \A e \in Served : Fresh(e)
                          \/ saved /\ Built(models, rows) = {}
      BY DEF RoutingMatchesTables, Served, Fresh
    <3>2. Matched
      BY <1>1, <3>1 DEF IInv, ByItself
    <3>3. QED
      BY <3>1, <3>2 DEF Matched, Quiet, At
  <2>2. EnvClientsStay
    BY <1>1 DEF IInv, EnvStocked, EnvClientsStay
  <2>3. NothingLeaks
    <3>1. SUFFICES ASSUME Quiet, stale = "no"
                   PROVE  /\ \A e \in Endpoints \ Built(models, rows) :
                               providers[e] = 0 /\ provider_keys[e] = 0
                          /\ circuit_breakers \subseteq targets \cup late
      BY DEF NothingLeaks
    <3>2. NoPrev /\ Dropped /\ BreakersKept
      BY <1>1, <3>1 DEF IInv, ByItself
    <3>3. QED
      BY <3>1, <3>2 DEF NoPrev, Dropped, BreakersKept, Replacing, Quiet, At
  <2>4. QED
    BY <2>1, <2>2, <2>3 DEF RoutingInSync
<1>2. QED
  BY <1>1, IInvInit, IInvNext, PTL DEF Spec

-----------------------------------------------------------------------------
(* The locks: a request never ranks the targets of one config with the     *)
(* strategy of another, for any number of tasks, worker threads and        *)
(* reloads.                                                                *)

Names == {"swap", "insert", "get_ref", "upstream", "drop_ref"}

Operation == [op : Names \cup {"lock", "drop"}, lock : Locks \cup {"-"},
              mode : {"read", "write", "-"}]

-----------------------------------------------------------------------------
(* The programs.                                                           *)

(* c is the two programs s and r one after the other.                      *)
Joins(c, s, r) ==
  /\ c \in Seq(Operation)
  /\ Len(c) = Len(s) + Len(r)
  /\ \A i \in 1 .. Len(s) + Len(r) :
       c[i] = IF i <= Len(s) THEN s[i] ELSE r[i - Len(s)]

(* Concatenation, in the form the handlers are taken apart with.           *)
LEMMA Joined ==
  ASSUME NEW s \in Seq(Operation), NEW r \in Seq(Operation)
  PROVE  Joins(s \o r, s, r)
  BY ConcatProperties, Zenon DEF Joins

(* What a handler is made of.                                              *)
LEMMA OperationTypes ==
  /\ \A l \in Locks :
       /\ Read(l) \in Operation
       /\ Write(l) \in Operation
       /\ Drop(l) \in Operation
  /\ \A n \in Names : Op(n) \in Operation
  BY DEF Read, Write, Drop, Op, Operation, Names

(* apply_config, operation by operation.                                   *)
LEMMA ApplyProgram ==
  /\ ApplyConfig \in Seq(Operation)
  /\ Len(ApplyConfig) = 7
  /\ ApplyConfig[1] = Write("strategy")
  /\ ApplyConfig[2] = Write("config")
  /\ ApplyConfig[3] = Write("targets")
  /\ ApplyConfig[4] = Op("swap")
  /\ ApplyConfig[5] = Drop("strategy")
  /\ ApplyConfig[6] = Drop("config")
  /\ ApplyConfig[7] = Drop("targets")
  BY OperationTypes DEF ApplyConfig, Locks, Names

(* A rebuild swaps no config in.                                           *)
LEMMA RebuildProgram ==
  /\ Rebuild \in Seq(Operation)
  /\ Len(Rebuild) = 6
  /\ \A i \in 1..6 : Rebuild[i].op # "swap"
<1>1. Rebuild \in Seq(Operation) /\ Len(Rebuild) = 6
  BY OperationTypes DEF Rebuild, Locks, Names
<1>2. \A i \in 1..6 : i = 1 \/ i = 2 \/ i = 3 \/ i = 4 \/ i = 5 \/ i = 6
  OBVIOUS
<1>3. \A i \in 1..6 : Rebuild[i].op # "swap"
  BY <1>2 DEF Rebuild, Op, Write, Drop
<1>4. QED
  BY <1>1, <1>3

(* A request and a proxied call swap nothing.                              *)
LEMMA ReadersPrograms ==
  /\ Chat \in Seq(Operation)
  /\ Len(Chat) = 10
  /\ \A i \in 1..Len(Chat) : Chat[i].op # "swap"
  /\ Proxy \in Seq(Operation)
  /\ Len(Proxy) = 5
  /\ \A i \in 1..Len(Proxy) : Proxy[i].op # "swap"
<1>1. Chat \in Seq(Operation) /\ Len(Chat) = 10
  BY OperationTypes DEF Chat, Locks
<1>2. \A i \in 1..10 : i = 1 \/ i = 2 \/ i = 3 \/ i = 4 \/ i = 5 \/ i = 6
                         \/ i = 7 \/ i = 8 \/ i = 9 \/ i = 10
  OBVIOUS
<1>3. \A i \in 1..10 : Chat[i].op # "swap"
  BY <1>2 DEF Chat, Read, Drop
<1>4. Proxy \in Seq(Operation) /\ Len(Proxy) = 5
  BY OperationTypes DEF Proxy, Locks, Names
<1>5. \A i \in 1..5 : i = 1 \/ i = 2 \/ i = 3 \/ i = 4 \/ i = 5
  OBVIOUS
<1>6. \A i \in 1..5 : Proxy[i].op # "swap"
  BY <1>5 DEF Proxy, Read, Drop, Op
<1>7. QED
  BY <1>1, <1>3, <1>4, <1>6

(* An admin mutation swaps nothing itself.                                 *)
LEMMA MutationProgram ==
  /\ Mutation \in Seq(Operation)
  /\ Len(Mutation) = 8
  /\ \A i \in 1..Len(Mutation) : Mutation[i].op # "swap"
<1>1. PICK s : s = << Read("targets"), Drop("targets") >>
  OBVIOUS
<1>2. /\ s \in Seq(Operation)
      /\ Len(s) = 2
      /\ s[1] = Read("targets")
      /\ s[2] = Drop("targets")
  BY <1>1, OperationTypes DEF Locks
<1>3. Mutation = s \o Rebuild
  BY <1>1 DEF Mutation
<1>4. /\ Mutation \in Seq(Operation)
      /\ Len(Mutation) = 8
      /\ \A i \in 1..8 : Mutation[i] = IF i <= 2 THEN s[i] ELSE Rebuild[i - 2]
  <2>1. Rebuild \in Seq(Operation) /\ Len(Rebuild) = 6
    BY RebuildProgram
  <2>2. Joins(Mutation, s, Rebuild)
    BY <1>2, <1>3, <2>1, Joined, Zenon
  <2>3. QED
    BY <1>2, <2>1, <2>2 DEF Joins
<1>5. ASSUME NEW i \in 1..8 PROVE Mutation[i].op # "swap"
  <2>1. CASE i <= 2
    BY <1>2, <1>4, <2>1 DEF Read, Drop
  <2>2. CASE i > 2
    <3>1. i - 2 \in 1..6 /\ Mutation[i] = Rebuild[i - 2]
      BY <1>4, <2>2
    <3>2. QED
      BY <3>1, RebuildProgram
  <2>3. QED
    BY <2>1, <2>2
<1>6. QED
  BY <1>4, <1>5

(* A reload runs apply_config first, and swaps only there.                 *)
LEMMA ReloadProgram ==
  /\ ReloadConfig \in Seq(Operation)
  /\ Len(ReloadConfig) = 15
  /\ \A i \in 1..7 : ReloadConfig[i] = ApplyConfig[i]
  /\ \A i \in 8..15 : ReloadConfig[i].op # "swap"
<1>1. PICK h : h = << Write("history"), Drop("history") >>
  OBVIOUS
<1>2. /\ h \in Seq(Operation)
      /\ Len(h) = 2
      /\ h[1] = Write("history")
      /\ h[2] = Drop("history")
  BY <1>1, OperationTypes DEF Locks
<1>3. PICK s : s = ApplyConfig \o h
  OBVIOUS
<1>4. /\ s \in Seq(Operation)
      /\ Len(s) = 9
      /\ \A i \in 1..9 : s[i] = IF i <= 7 THEN ApplyConfig[i] ELSE h[i - 7]
  <2>1. ApplyConfig \in Seq(Operation) /\ Len(ApplyConfig) = 7
    BY ApplyProgram
  <2>2. Joins(s, ApplyConfig, h)
    BY <1>2, <1>3, <2>1, Joined, Zenon
  <2>3. QED
    BY <1>2, <2>1, <2>2 DEF Joins
<1>5. ReloadConfig = s \o Rebuild
  BY <1>1, <1>3 DEF ReloadConfig
<1>6. /\ ReloadConfig \in Seq(Operation)
      /\ Len(ReloadConfig) = 15
      /\ \A i \in 1..15 : ReloadConfig[i] = IF i <= 9 THEN s[i] ELSE Rebuild[i - 9]
  <2>1. Rebuild \in Seq(Operation) /\ Len(Rebuild) = 6
    BY RebuildProgram
  <2>2. Joins(ReloadConfig, s, Rebuild)
    BY <1>4, <1>5, <2>1, Joined, Zenon
  <2>3. QED
    BY <1>4, <2>1, <2>2 DEF Joins
<1>7. \A i \in 1..7 : ReloadConfig[i] = ApplyConfig[i]
  BY <1>4, <1>6
<1>8. ASSUME NEW i \in 8..15 PROVE ReloadConfig[i].op # "swap"
  <2>1. CASE i <= 9
    <3>1. i = 8 \/ i = 9
      BY <2>1
    <3>2. ReloadConfig[i] = h[1] \/ ReloadConfig[i] = h[2]
      BY <1>4, <1>6, <3>1
    <3>3. QED
      BY <1>2, <3>2 DEF Write, Drop
  <2>2. CASE i > 9
    <3>1. i - 9 \in 1..6 /\ ReloadConfig[i] = Rebuild[i - 9]
      BY <1>6, <2>2
    <3>2. QED
      BY <3>1, RebuildProgram
  <2>3. QED
    BY <2>1, <2>2
<1>9. QED
  BY <1>6, <1>7, <1>8

(* Every program is a sequence of operations; only a reload swaps, as its  *)
(* fourth operation.                                                       *)
LEMMA Programs ==
  ASSUME NEW t \in Tasks
  PROVE  /\ Prog(t) \in Seq(Operation)
         /\ Len(Prog(t)) \in Nat \ {0}
         /\ Handler[t] # "reload" =>
              \A i \in 1..Len(Prog(t)) : Prog(t)[i].op # "swap"
         /\ Handler[t] = "reload" => Prog(t) = ReloadConfig
<1>1. Handler[t] \in Handlers
  BY LocksAssumption
<1>2. \/ Handler[t] = "chat" /\ Prog(t) = Chat
      \/ Handler[t] = "proxy" /\ Prog(t) = Proxy
      \/ Handler[t] = "mutation" /\ Prog(t) = Mutation
      \/ Handler[t] = "reload" /\ Prog(t) = ReloadConfig
  BY <1>1 DEF Handlers, Prog, Program
<1>3. PICK p : p = Prog(t)
  OBVIOUS
<1>4. /\ p \in Seq(Operation)
      /\ Handler[t] # "reload" => \A i \in 1..Len(p) : p[i].op # "swap"
      /\ Handler[t] = "reload" => p = ReloadConfig
  <2>1. CASE Handler[t] = "chat"
    BY <1>2, <1>3, <2>1, ReadersPrograms
  <2>2. CASE Handler[t] = "proxy"
    BY <1>2, <1>3, <2>2, ReadersPrograms
  <2>3. CASE Handler[t] = "mutation"
    BY <1>2, <1>3, <2>3, MutationProgram
  <2>4. CASE Handler[t] = "reload"
    BY <1>2, <1>3, <2>4, ReloadProgram
  <2>5. QED
    BY <1>2, <2>1, <2>2, <2>3, <2>4
<1>5. Len(p) \in Nat \ {0}
  <2>1. /\ Len(Chat) = 10 /\ Len(Proxy) = 5
        /\ Len(Mutation) = 8 /\ Len(ReloadConfig) = 15
    BY ReadersPrograms, MutationProgram, ReloadProgram
  <2>2. p = Chat \/ p = Proxy \/ p = Mutation \/ p = ReloadConfig
    BY <1>2, <1>3
  <2>3. PICK n : n = Len(p)
    OBVIOUS
  <2>4. n = 10 \/ n = 5 \/ n = 8 \/ n = 15
    BY <2>1, <2>2, <2>3, Zenon
  <2>5. n \in Nat \ {0}
    BY <2>4
  <2>6. QED
    BY <2>3, <2>5
<1>6. QED
  BY <1>3, <1>4, <1>5

-----------------------------------------------------------------------------
(* The invariant: a reload holds the strategy's write lock from its second *)
(* operation to its fifth and the targets' from its fourth to its seventh, *)
(* so that the swap, its fourth, gives both the same generation.           *)
HoldsWhileSwapping ==
  \A t \in Tasks : Handler[t] = "reload" =>
    /\ pc[t] \in 2..5 => writer["strategy"] = {t}
    /\ pc[t] \in 4..7 => writer["targets"] = {t}

Swapped ==
  /\ pc \in [Tasks -> Nat]
  /\ \A t \in Tasks : pc[t] <= Len(Prog(t))
  /\ writer \in [Locks -> SUBSET Tasks]
  /\ generation \in [Locks -> Nat]
  /\ HoldsWhileSwapping
  /\ generation["strategy"] = generation["targets"]

(* Before any call no lock is held and the generations are equal.          *)
LEMMA SwappedInit == LocksInit => Swapped
<1>1. ASSUME LocksInit PROVE Swapped
  BY <1>1, Programs DEF LocksInit, Swapped, HoldsWhileSwapping, Locks
<1>2. QED
  BY <1>1

(* Advance moves the task to its next operation.                           *)
LEMMA Advanced ==
  ASSUME Swapped, NEW t \in Tasks, Advance(t), pc[t] # 0
  PROVE  /\ pc' \in [Tasks -> Nat]
         /\ \A u \in Tasks : pc'[u] <= Len(Prog(u))
         /\ \A u \in Tasks : u # t => pc'[u] = pc[u]
         /\ pc'[t] = IF pc[t] = Len(Prog(t)) THEN 0 ELSE pc[t] + 1
<1>1. pc'[t] = IF pc[t] = Len(Prog(t)) THEN 0 ELSE pc[t] + 1
  BY DEF Swapped, Advance
<1>2. \A u \in Tasks : u # t => pc'[u] = pc[u]
  BY DEF Swapped, Advance
<1>3. pc' \in [Tasks -> Nat]
  BY DEF Swapped, Advance
<1>4. pc'[t] <= Len(Prog(t))
  BY <1>1, Programs DEF Swapped
<1>5. QED
  BY <1>1, <1>2, <1>3, <1>4 DEF Swapped

(* Where a reload is by the operation it is about to run.                  *)
LEMMA ReloadAt ==
  ASSUME Swapped, NEW t \in Tasks, Handler[t] = "reload", pc[t] # 0
  PROVE  /\ Len(Prog(t)) = 15
         /\ pc[t] \in 1..15
         /\ pc[t] = 1 => Current(t) = Write("strategy")
         /\ pc[t] = 2 => Current(t) = Write("config")
         /\ pc[t] = 3 => Current(t) = Write("targets")
         /\ pc[t] = 4 => Current(t) = Op("swap")
         /\ pc[t] = 5 => Current(t) = Drop("strategy")
         /\ pc[t] = 6 => Current(t) = Drop("config")
         /\ pc[t] = 7 => Current(t) = Drop("targets")
         /\ Current(t).op = "swap" => pc[t] = 4
<1>1. Prog(t) = ReloadConfig /\ Len(Prog(t)) = 15
  BY Programs, ReloadProgram
<1>2. pc[t] \in 1..15
  <2>1. pc[t] \in Nat /\ pc[t] <= Len(Prog(t))
    BY DEF Swapped
  <2>2. QED
    BY <1>1, <2>1
<1>3. Current(t) = ReloadConfig[pc[t]]
  BY <1>1 DEF Current
<1>4. /\ pc[t] = 1 => Current(t) = Write("strategy")
      /\ pc[t] = 2 => Current(t) = Write("config")
      /\ pc[t] = 3 => Current(t) = Write("targets")
      /\ pc[t] = 4 => Current(t) = Op("swap")
      /\ pc[t] = 5 => Current(t) = Drop("strategy")
      /\ pc[t] = 6 => Current(t) = Drop("config")
      /\ pc[t] = 7 => Current(t) = Drop("targets")
  BY <1>3, ReloadProgram, ApplyProgram
<1>5. Current(t).op = "swap" => pc[t] = 4
  BY <1>2, <1>3, <1>4, ReloadProgram DEF Write, Drop
<1>6. QED
  BY <1>1, <1>2, <1>4, <1>5

(* A lock somebody holds for writing is not given away, and a release      *)
(* takes away only the releaser.                                           *)
LEMMA OthersKeep ==
  ASSUME Swapped, NEW t \in Tasks, NEW u \in Tasks, u # t, NEW l \in Locks,
         writer[l] = {u}, Acquire(t) \/ Release(t)
  PROVE  writer'[l] = {u}
<1>1. CASE Acquire(t)
  BY <1>1 DEF Acquire, Compatible, Swapped
<1>2. CASE Release(t)
  BY <1>2 DEF Release, Swapped
<1>3. QED
  BY <1>1, <1>2

(* A step that moves one task and writes no lock's holder or data.         *)
LEMMA Passes ==
  ASSUME Swapped, NEW t \in Tasks, Advance(t), pc[t] # 0,
         Current(t).op \notin {"lock", "drop", "swap"},
         UNCHANGED <<writer, generation>>
  PROVE  Swapped'
<1>1. /\ pc' \in [Tasks -> Nat]
      /\ \A u \in Tasks : pc'[u] <= Len(Prog(u))
      /\ \A u \in Tasks : u # t => pc'[u] = pc[u]
      /\ pc'[t] = IF pc[t] = Len(Prog(t)) THEN 0 ELSE pc[t] + 1
  BY Advanced
<1>2. Handler[t] = "reload" => pc'[t] = 0 \/ pc'[t] > 8
  BY <1>1, ReloadAt DEF Write, Drop, Op
<1>3. HoldsWhileSwapping'
  BY <1>1, <1>2 DEF Swapped, HoldsWhileSwapping
<1>4. QED
  BY <1>1, <1>3 DEF Swapped

(* Taking and dropping locks keeps the invariant.                          *)
LEMMA LocksKeep ==
  ASSUME Swapped, NEW t \in Tasks, Acquire(t) \/ Release(t)
  PROVE  Swapped'
<1>1. /\ pc[t] # 0
      /\ Advance(t)
      /\ generation' = generation
      /\ writer' \in [Locks -> SUBSET Tasks]
  BY DEF Acquire, Release, AtOp, Swapped
<1>2. /\ pc' \in [Tasks -> Nat]
      /\ \A u \in Tasks : pc'[u] <= Len(Prog(u))
      /\ \A u \in Tasks : u # t => pc'[u] = pc[u]
      /\ pc'[t] = IF pc[t] = Len(Prog(t)) THEN 0 ELSE pc[t] + 1
  BY <1>1, Advanced
<1>3. ASSUME NEW u \in Tasks, Handler[u] = "reload", u # t
      PROVE  /\ pc'[u] \in 2..5 => writer'["strategy"] = {u}
             /\ pc'[u] \in 4..7 => writer'["targets"] = {u}
  <2>1. "strategy" \in Locks /\ "targets" \in Locks
    BY DEF Locks
  <2>2. /\ pc[u] \in 2..5 => writer["strategy"] = {u}
        /\ pc[u] \in 4..7 => writer["targets"] = {u}
    BY <1>3 DEF Swapped, HoldsWhileSwapping
  <2>3. pc'[u] = pc[u]
    BY <1>2, <1>3
  <2>4. QED
    BY <1>3, <2>1, <2>2, <2>3, OthersKeep
<1>4. ASSUME Handler[t] = "reload"
      PROVE  /\ pc'[t] \in 2..5 => writer'["strategy"] = {t}
             /\ pc'[t] \in 4..7 => writer'["targets"] = {t}
  <2>1. /\ pc[t] \in 1..15
        /\ pc'[t] = IF pc[t] = 15 THEN 0 ELSE pc[t] + 1
    BY <1>1, <1>2, <1>4, ReloadAt
  <2>2. /\ pc[t] \in 2..5 => writer["strategy"] = {t}
        /\ pc[t] \in 4..7 => writer["targets"] = {t}
    BY <1>4 DEF Swapped, HoldsWhileSwapping
  <2>3. CASE pc[t] \in {1, 2, 3}
    <3>1. /\ pc[t] = 1 => Current(t) = Write("strategy")
          /\ pc[t] = 2 => Current(t) = Write("config")
          /\ pc[t] = 3 => Current(t) = Write("targets")
      BY <1>1, <1>4, ReloadAt
    <3>2. /\ Current(t).op = "lock"
          /\ Current(t).mode = "write"
          /\ pc[t] = 1 => Current(t).lock = "strategy"
          /\ pc[t] = 2 => Current(t).lock = "config"
          /\ pc[t] = 3 => Current(t).lock = "targets"
      BY <2>3, <3>1 DEF Write
    <3>3. writer' = [writer EXCEPT ![Current(t).lock] = {t}]
      BY <3>2 DEF Acquire, Release, AtOp
    <3>4. QED
      BY <2>1, <2>2, <2>3, <3>2, <3>3 DEF Swapped, Locks
  <2>4. CASE pc[t] \in {4, 5, 6}
    <3>1. /\ pc[t] = 4 => Current(t) = Op("swap")
          /\ pc[t] = 5 => Current(t) = Drop("strategy")
          /\ pc[t] = 6 => Current(t) = Drop("config")
      BY <1>1, <1>4, ReloadAt
    <3>2. /\ pc[t] # 4
          /\ Current(t).op = "drop"
          /\ pc[t] = 5 => Current(t).lock = "strategy"
          /\ pc[t] = 6 => Current(t).lock = "config"
      BY <2>4, <3>1 DEF Drop, Op, Acquire, Release, AtOp
    <3>3. writer' = [writer EXCEPT ![Current(t).lock] = @ \ {t}]
      BY <3>2 DEF Acquire, Release, AtOp
    <3>4. QED
      BY <2>1, <2>2, <2>4, <3>2, <3>3 DEF Swapped, Locks
  <2>5. CASE pc[t] > 6
    BY <2>1, <2>5
  <2>6. QED
    BY <2>1, <2>3, <2>4, <2>5
<1>5. HoldsWhileSwapping'
  BY <1>3, <1>4 DEF HoldsWhileSwapping
<1>6. QED
  BY <1>1, <1>2, <1>5 DEF Swapped

(* The swap happens under both write locks: both parts move together.      *)
LEMMA SwapKeeps ==
  ASSUME Swapped, NEW t \in Tasks, SwapParts(t)
  PROVE  Swapped'
<1>1. pc[t] # 0 /\ Current(t).op = "swap" /\ Advance(t) /\ writer' = writer
  BY DEF SwapParts, AtOp
<1>2. Handler[t] = "reload"
  <2>1. pc[t] \in 1..Len(Prog(t))
    BY <1>1, Programs DEF Swapped
  <2>2. QED
    BY <1>1, <2>1, Programs DEF Current
<1>3. pc[t] = 4 /\ pc'[t] = 5
  <2>1. pc[t] = 4 /\ Len(Prog(t)) = 15
    BY <1>1, <1>2, ReloadAt
  <2>2. pc'[t] = IF pc[t] = Len(Prog(t)) THEN 0 ELSE pc[t] + 1
    BY <1>1, Advanced
  <2>3. QED
    BY <2>1, <2>2
<1>4. writer["strategy"] = {t} /\ writer["targets"] = {t}
  BY <1>2, <1>3 DEF Swapped, HoldsWhileSwapping
<1>5. /\ generation' \in [Locks -> Nat]
      /\ generation'["strategy"] = generation["strategy"] + 1
      /\ generation'["targets"] = generation["strategy"] + 1
  BY <1>4 DEF SwapParts, Swapped, Locks
<1>6. /\ pc' \in [Tasks -> Nat]
      /\ \A u \in Tasks : pc'[u] <= Len(Prog(u))
      /\ \A u \in Tasks : u # t => pc'[u] = pc[u]
  BY <1>1, Advanced
<1>7. HoldsWhileSwapping'
  BY <1>1, <1>3, <1>4, <1>6 DEF Swapped, HoldsWhileSwapping
<1>8. QED
  BY <1>1, <1>5, <1>6, <1>7 DEF Swapped

(* Every step of every task keeps the lock discipline.                     *)
LEMMA SwappedNext == Swapped /\ [LocksNext]_lockVars => Swapped'
<1>1. SUFFICES ASSUME Swapped, [LocksNext]_lockVars PROVE Swapped'
  OBVIOUS
<1>2. ASSUME NEW t \in Tasks, Call(t) PROVE Swapped'
  <2>1. Len(Prog(t)) >= 1
    BY Programs
  <2>2. /\ pc' \in [Tasks -> Nat]
        /\ pc'[t] = 1
        /\ \A u \in Tasks : u # t => pc'[u] = pc[u]
        /\ UNCHANGED <<writer, generation>>
    BY <1>1, <1>2 DEF Call, Swapped
  <2>3. \A u \in Tasks : pc'[u] <= Len(Prog(u))
    BY <1>1, <2>1, <2>2 DEF Swapped
  <2>4. HoldsWhileSwapping'
    <3>1. ASSUME NEW u \in Tasks, Handler[u] = "reload"
          PROVE  /\ pc'[u] \in 2..5 => writer'["strategy"] = {u}
                 /\ pc'[u] \in 4..7 => writer'["targets"] = {u}
      <4>1. CASE u = t
        BY <2>2, <4>1
      <4>2. CASE u # t
        BY <1>1, <2>2, <3>1, <4>2 DEF Swapped, HoldsWhileSwapping
      <4>3. QED
        BY <4>1, <4>2
    <3>2. QED
      BY <3>1 DEF HoldsWhileSwapping
  <2>5. QED
    BY <1>1, <2>2, <2>3, <2>4 DEF Swapped
<1>3. ASSUME NEW t \in Tasks, Request(t) \/ InsertBlocks(t) PROVE Swapped'
  BY <1>1, <1>3 DEF Request, InsertBlocks, Swapped, HoldsWhileSwapping
<1>4. ASSUME NEW t \in Tasks, Acquire(t) \/ Release(t) PROVE Swapped'
  BY <1>1, <1>4, LocksKeep
<1>5. ASSUME NEW t \in Tasks, SwapParts(t) PROVE Swapped'
  BY <1>1, <1>5, SwapKeeps
<1>6. ASSUME NEW t \in Tasks,
             GetRef(t) \/ Upstream(t) \/ DropRef(t) \/ Insert(t)
      PROVE  Swapped'
  <2>1. /\ Advance(t)
        /\ pc[t] # 0
        /\ Current(t).op \notin {"lock", "drop", "swap"}
        /\ UNCHANGED <<writer, generation>>
    BY <1>6 DEF GetRef, Upstream, DropRef, Insert, AtOp
  <2>2. QED
    BY <1>1, <2>1, Passes
<1>7. CASE UNCHANGED lockVars
  BY <1>1, <1>7 DEF lockVars, Swapped, HoldsWhileSwapping
<1>8. QED
  BY <1>1, <1>2, <1>3, <1>4, <1>5, <1>6, <1>7 DEF LocksNext, Runs

(* config.rs takes the write locks of the strategy and of the targets      *)
(* together "to prevent inconsistent reads": in every schedule of requests *)
(* and reloads, a request that holds both for reading finds them written   *)
(* by the same reload.                                                     *)
THEOREM SelectsConsistently == LocksSpec => []ConsistentSelect
<1>1. Swapped => ConsistentSelect
  BY DEF Swapped, ConsistentSelect
<1>2. QED
  BY <1>1, SwappedInit, SwappedNext, PTL DEF LocksSpec
=============================================================================
