------------------------ MODULE EndpointStoreProofs -------------------------
(***************************************************************************)
(* What the model and endpoint tables guarantee for any number of models,  *)
(* endpoints, overlapping admin calls, restarts and encryption keys.       *)
(***************************************************************************)
EXTENDS EndpointStore, TLAPS

-----------------------------------------------------------------------------
(* The shapes of the state.                                                *)

RowShape(r) ==
  /\ r = [st |-> r.st, model |-> r.model, type |-> r.type, base_url |-> r.base_url,
          api_key |-> r.api_key, enabled |-> r.enabled]
  /\ r.st \in {"unissued", "there", "deleted"}
  /\ r.st = "there" => r.model \in Models
  /\ r.enabled \in BOOLEAN

GivenShape(g) ==
  /\ g = [type |-> g.type, base_url |-> g.base_url, enabled |-> g.enabled,
          secret |-> g.secret, under |-> g.under, legacy |-> g.legacy]
  /\ g.enabled \in BOOLEAN /\ g.legacy \in BOOLEAN

(* A call in progress, with what it still knows of its request.            *)
CallShape(c) ==
  /\ c = [pc |-> c.pc, id |-> c.id, ask |-> c.ask, seen |-> c.seen]
  /\ c.pc \in Pending \cup {"idle"}
  /\ c.pc = "insert" =>
       /\ c.ask.ask \in Creates /\ c.ask.model \in Models
       /\ Validated(c.ask.ask)
  /\ c.pc \in {"update_get", "update_write"} => c.ask \in Updates
  /\ c.pc = "update_write" => c.seen.enabled \in BOOLEAN
  /\ c.pc = "update_model" =>
       c.ask.asked \in BOOLEAN \cup {Unset} /\ c.ask.seen \in BOOLEAN

(* What a call works on has been issued.                                   *)
Issued(c, ms, rs) ==
  /\ c.pc \in {"update_get", "update_write", "toggle_write"} =>
       c.id \in Endpoints /\ rs[c.id].st # "unissued"
  /\ c.pc \in {"update_model", "delete_endpoints", "delete_model"} =>
       c.id \in Models /\ ms[c.id] # "unissued"

RowsTyped(rs) ==
  /\ DOMAIN rs = Endpoints /\ rs = [e \in Endpoints |-> rs[e]]
  /\ \A e \in Endpoints : RowShape(rs[e])

GivenTyped(g) ==
  /\ DOMAIN g = Endpoints /\ g = [e \in Endpoints |-> g[e]]
  /\ \A e \in Endpoints : GivenShape(g[e])

AdminTyped(ad, ms, rs) ==
  /\ DOMAIN ad = Admins /\ ad = [a \in Admins |-> ad[a]]
  /\ \A a \in Admins : CallShape(ad[a]) /\ Issued(ad[a], ms, rs)

Typed ==
  /\ backend \in Backends /\ cipher \in Ciphers \cup {None}
  /\ models \in [Models -> {"unissued", "enabled", "disabled", "deleted"}]
  /\ RowsTyped(rows) /\ GivenTyped(given) /\ AdminTyped(admin, models, rows)
  /\ meant \in [Models -> BOOLEAN]
  /\ raced \subseteq Models \cup Endpoints

(* The tables start typed.                                                 *)
LEMMA InitTyped == Init => Typed
<1> SUFFICES ASSUME Init PROVE Typed
  OBVIOUS
<1>1. ASSUME NEW e \in Endpoints
      PROVE  /\ RowShape(rows[e]) /\ GivenShape(Said(rows[e]))
             /\ rows[e].api_key # None =>
                  rows[e].api_key = Encrypt(rows[e].api_key.under, rows[e].api_key.secret)
  <2>1. CASE rows[e] = NoRow("unissued")
    BY <2>1, StoredKeyAssumption DEF RowShape, GivenShape, Said, NoRow
  <2>2. CASE \E m \in Models, r \in LegacyRows : rows[e] =
               [st |-> "there", model |-> m, type |-> r.type, base_url |-> r.base_url,
                api_key |-> r.api_key, enabled |-> r.enabled]
    <3>1. PICK m \in Models, r \in LegacyRows : rows[e] =
               [st |-> "there", model |-> m, type |-> r.type, base_url |-> r.base_url,
                api_key |-> r.api_key, enabled |-> r.enabled]
      BY <2>2
    <3>2. RowShape(rows[e])
      BY <3>1, StoredKeyAssumption DEF RowShape
    <3>4. GivenShape(Said(rows[e]))
      BY <3>1, StoredKeyAssumption DEF GivenShape, Said
    <3> QED
      BY <3>1, <3>2, <3>4, StoredKeyAssumption
  <2> QED
    BY <2>1, <2>2 DEF Init
<1>2. \A e \in Endpoints : GivenShape(given[e])
  BY <1>1 DEF Init
<1>3. \A a \in Admins : CallShape(admin[a]) /\ Issued(admin[a], models, rows)
  BY DEF Init, CallShape, Issued, Idle, Pending
<1>4. rows = [e \in Endpoints |-> rows[e]] /\ DOMAIN rows = Endpoints
  BY DEF Init
<1>5. meant \in [Models -> BOOLEAN]
  BY DEF Init
<1>6. models \in [Models -> {"unissued", "enabled", "disabled", "deleted"}]
  BY DEF Init
<1>7. /\ DOMAIN given = Endpoints /\ given = [e \in Endpoints |-> given[e]]
      /\ DOMAIN admin = Admins /\ admin = [a \in Admins |-> admin[a]]
  BY DEF Init
<1>8. backend \in Backends /\ cipher \in (Ciphers \cup {None})
  BY DEF Init
<1>9. raced \subseteq Models \cup Endpoints
  BY DEF Init
<1> QED
  BY <1>1, <1>2, <1>3, <1>4, <1>5, <1>6, <1>7, <1>8, <1>9
  DEF Typed, RowsTyped, GivenTyped, AdminTyped

(* What was issued stays issued.                                           *)
Grows ==
  /\ \A e \in Endpoints : rows[e].st # "unissued" => rows'[e].st # "unissued"
  /\ \A m \in Models : models[m] # "unissued" => models'[m] # "unissued"

(* A call that moves on keeps the calls typed.                             *)
LEMMA MovesOn ==
  ASSUME Typed, Grows, NEW a \in Admins, NEW c,
         admin' = [admin EXCEPT ![a] = c],
         CallShape(c), Issued(c, models', rows')
  PROVE  AdminTyped(admin', models', rows')
  BY DEF Typed, AdminTyped, Issued, Grows

(* The same for a call that only changes where it is.                      *)
LEMMA GoesTo ==
  ASSUME Typed, Grows, NEW a \in Admins, NEW pc, Goto(a, pc), pc = "delete_model",
         admin[a].id \in Models, models[admin[a].id] # "unissued"
  PROVE  AdminTyped(admin', models', rows')
<1> DEFINE c == [admin[a] EXCEPT !.pc = pc]
<1>1. admin' = [admin EXCEPT ![a] = c]
  BY DEF Goto
<1>2. CallShape(admin[a])
  BY DEF Typed, AdminTyped
<1>3. c = [pc |-> pc, id |-> admin[a].id, ask |-> admin[a].ask, seen |-> admin[a].seen]
  BY <1>2 DEF CallShape
<1>4. CallShape(c)
  BY <1>3 DEF CallShape, Pending
<1>5. Issued(c, models', rows')
  BY <1>3 DEF Issued, Grows
<1> QED
  BY <1>1, <1>4, <1>5, MovesOn

(* A call that is over.                                                    *)
LEMMA IsDone ==
  ASSUME Typed, Grows, NEW a \in Admins, Done(a)
  PROVE  AdminTyped(admin', models', rows')
<1>1. CallShape(Idle) /\ Issued(Idle, models', rows')
  BY DEF CallShape, Issued, Idle, Pending
<1> QED
  BY <1>1, MovesOn DEF Done

(* A call of one statement.                                                *)
LEMMA IsOnce ==
  ASSUME Typed, Grows, NEW a \in Admins, Once(a)
  PROVE  AdminTyped(admin', models', rows')
<1>1. admin' = admin
  BY DEF Once
<1> QED
  BY <1>1 DEF Typed, AdminTyped, Issued, Grows

(* A call that arrives.                                                    *)
LEMMA Arrives ==
  ASSUME Typed, Grows, NEW a \in Admins, NEW pc, NEW id, NEW ask,
         Call(a, pc, id, ask),
         CallShape([pc |-> pc, id |-> id, ask |-> ask, seen |-> None]),
         Issued([pc |-> pc, id |-> id, ask |-> ask, seen |-> None], models', rows')
  PROVE  AdminTyped(admin', models', rows')
<1>1. PICK c : c = [Idle EXCEPT !.pc = pc, !.id = id, !.ask = ask]
  OBVIOUS
<1>2. c = [pc |-> c.pc, id |-> c.id, ask |-> c.ask, seen |-> c.seen]
  BY <1>1 DEF Idle
<1>3. c.pc = pc /\ c.id = id /\ c.ask = ask /\ c.seen = None
  BY <1>1 DEF Idle
<1>4. c = [pc |-> pc, id |-> id, ask |-> ask, seen |-> None]
  BY <1>2, <1>3
<1> QED
  BY <1>1, <1>4, MovesOn DEF Call

(* Writes only adds objects of the call.                                   *)
LEMMA WritesTyped ==
  ASSUME Typed, NEW a, NEW S, S \subseteq Models \cup Endpoints, Writes(a, S)
  PROVE  raced' \subseteq Models \cup Endpoints
  BY DEF Typed, Writes

(* A row that is removed, or replaced by a typed one.                      *)
LEMMA RemovedTyped ==
  ASSUME Typed, NEW S, rows' = Removed(S)
  PROVE  /\ RowsTyped(rows')
         /\ \A e \in Endpoints : rows[e].st # "unissued" => rows'[e].st # "unissued"
  BY DEF Typed, RowsTyped, RowShape, Removed, NoRow

(* The statement that sets a model.                                        *)
LEMMA SetModelTyped ==
  ASSUME Typed, NEW a \in Admins, NEW m \in Models, NEW on \in BOOLEAN,
         NEW said \in BOOLEAN, SetModel(a, m, on, said)
  PROVE  /\ models' \in [Models -> {"unissued", "enabled", "disabled", "deleted"}]
         /\ meant' \in [Models -> BOOLEAN]
         /\ raced' \subseteq Models \cup Endpoints
         /\ Grows
<1>1. raced' \subseteq Models \cup Endpoints
  BY WritesTyped DEF SetModel
<1>2. /\ models' \in [Models -> {"unissued", "enabled", "disabled", "deleted"}]
      /\ Grows
  BY DEF Typed, SetModel, ModelState, Exists, Grows
<1>3. meant' \in [Models -> BOOLEAN]
  BY DEF Typed, SetModel
<1> QED
  BY <1>1, <1>2, <1>3

(* The statement that sets the enabled column of an endpoint.              *)
LEMMA SetEnabledTyped ==
  ASSUME Typed, NEW a \in Admins, NEW e \in Endpoints, NEW on \in BOOLEAN,
         SetEnabled(a, e, on)
  PROVE  /\ RowsTyped(rows') /\ GivenTyped(given')
         /\ raced' \subseteq Models \cup Endpoints
         /\ Grows
<1>1. CASE There(e)
  <2>1. raced' \subseteq Models \cup Endpoints
    BY <1>1, WritesTyped DEF SetEnabled
  <2>2. RowsTyped(rows') /\ Grows
    <3>1. RowShape(rows[e])
      BY DEF Typed, RowsTyped
    <3>2. /\ rows' = [rows EXCEPT ![e] = [rows[e] EXCEPT !.enabled = on]]
          /\ models' = models
      BY <1>1 DEF SetEnabled
    <3>3. [rows[e] EXCEPT !.enabled = on] =
            [st |-> rows[e].st, model |-> rows[e].model, type |-> rows[e].type,
             base_url |-> rows[e].base_url, api_key |-> rows[e].api_key, enabled |-> on]
      BY <3>1 DEF RowShape
    <3>4. RowShape([rows[e] EXCEPT !.enabled = on])
      BY <3>1, <3>3 DEF RowShape
    <3> QED
      BY <3>2, <3>3, <3>4 DEF Typed, RowsTyped, Grows
  <2>3. GivenTyped(given')
    <3>1. GivenShape(given[e])
      BY DEF Typed, GivenTyped
    <3>2. given' = [given EXCEPT ![e] = [given[e] EXCEPT !.enabled = on, !.legacy = FALSE]]
      BY <1>1 DEF SetEnabled, Typed, GivenTyped
    <3>3. PICK g : g = [given[e] EXCEPT !.enabled = on, !.legacy = FALSE]
      OBVIOUS
    <3>4. GivenShape(g)
      <4>1. g = [type |-> g.type, base_url |-> g.base_url, enabled |-> g.enabled,
                 secret |-> g.secret, under |-> g.under, legacy |-> g.legacy]
        BY <3>1, <3>3 DEF GivenShape
      <4>2. g.enabled = on /\ g.legacy = FALSE /\ g.secret = given[e].secret
        BY <3>1, <3>3 DEF GivenShape
      <4> QED
        BY <3>1, <4>1, <4>2 DEF GivenShape
    <3> QED
      BY <3>2, <3>3, <3>4 DEF Typed, GivenTyped
  <2> QED
    BY <2>1, <2>2, <2>3
<1>2. CASE ~There(e)
  BY <1>2 DEF SetEnabled, Typed, Grows
<1> QED
  BY <1>1, <1>2

(* The row an update leaves, field by field.                               *)
LEMMA MergedFields ==
  ASSUME NEW row, RowShape(row), NEW ask \in Updates, NEW seen, seen.enabled \in BOOLEAN,
         NEW r, r = Merged(row, ask, seen)
  PROVE  /\ RowShape(r)
         /\ r.st = row.st /\ r.model = row.model
         /\ r.type = Or(ask.type, seen.type)
         /\ r.base_url = Or(ask.base_url, seen.base_url)
         /\ r.enabled = Or(ask.enabled, seen.enabled)
         /\ r.api_key = IF ask.api_key = Unset THEN row.api_key
                                              ELSE Encrypt(cipher, ask.api_key)
<1> DEFINE key == IF ask.api_key = Unset THEN row.api_key ELSE Encrypt(cipher, ask.api_key)
<1>1. /\ r.st = row.st /\ r.model = row.model
      /\ r.type = Or(ask.type, seen.type)
      /\ r.base_url = Or(ask.base_url, seen.base_url)
      /\ r.api_key = key
  BY DEF RowShape, Merged
<1>2. r.enabled = Or(ask.enabled, seen.enabled)
  BY DEF RowShape, Merged
<1>3. r = [st |-> r.st, model |-> r.model, type |-> r.type, base_url |-> r.base_url,
           api_key |-> r.api_key, enabled |-> r.enabled]
  BY DEF RowShape, Merged
<1>4. r.enabled \in BOOLEAN
  BY <1>2, EndpointAssumption DEF Or
<1> QED
  BY <1>1, <1>2, <1>3, <1>4 DEF RowShape

(* The tables and the history after an update's write.                     *)
LEMMA UpdateTyped ==
  ASSUME Typed, NEW a \in Admins, UpdateEndpoint(a)
  PROVE  /\ RowsTyped(rows') /\ GivenTyped(given')
         /\ raced' \subseteq Models \cup Endpoints
         /\ Grows
<1> DEFINE e == admin[a].id
           ask == admin[a].ask
           seen == admin[a].seen
<1>1. /\ e \in Endpoints /\ ask \in Updates /\ seen.enabled \in BOOLEAN
      /\ models' = models
  BY DEF Typed, AdminTyped, Issued, CallShape, UpdateEndpoint, At
<1>2. CASE ~There(e)
  BY <1>1, <1>2 DEF UpdateEndpoint, Typed, Grows
<1>3. CASE There(e)
  <2>1. RowShape(rows[e]) /\ GivenShape(given[e]) /\ DOMAIN given = Endpoints
    BY <1>1 DEF Typed, RowsTyped, GivenTyped
  <2>2. raced' \subseteq Models \cup Endpoints
    BY <1>1, <1>3, WritesTyped DEF UpdateEndpoint
  <2>3. rows' = [rows EXCEPT ![e] = Merged(rows[e], ask, seen)]
    BY <1>1, <1>3 DEF UpdateEndpoint, Typed, RowsTyped
  <2>4. /\ RowShape(Merged(rows[e], ask, seen))
        /\ Merged(rows[e], ask, seen).st = "there"
    BY <1>1, <1>3, <2>1, MergedFields DEF There
  <2>5. RowsTyped(rows') /\ Grows
    BY <1>1, <2>3, <2>4 DEF Typed, RowsTyped, Grows
  <2>6. PICK g : g = [type |-> Or(ask.type, given[e].type),
                      base_url |-> Or(ask.base_url, given[e].base_url),
                      enabled |-> Or(ask.enabled, given[e].enabled),
                      secret |-> Or(ask.api_key, given[e].secret),
                      under |-> IF ask.api_key = Unset THEN given[e].under ELSE cipher,
                      legacy |-> FALSE]
    OBVIOUS
  <2>7. given' = [given EXCEPT ![e] = g]
    BY <1>1, <1>3, <2>1, <2>6 DEF UpdateEndpoint
  <2>8. GivenShape(g)
    <3>1. g.enabled \in BOOLEAN
      BY <1>1, <2>1, <2>6, EndpointAssumption DEF GivenShape, Or
    <3> QED
      BY <2>6, <3>1 DEF GivenShape
  <2> QED
    BY <1>1, <2>2, <2>5, <2>7, <2>8 DEF Typed, GivenTyped
<1> QED
  BY <1>2, <1>3

(* The admin call arrives after having read only: the tables stand.        *)
LEMMA OnlyReads ==
  ASSUME Typed, AdminTyped(admin', models, rows),
         UNCHANGED <<backend, cipher, tables, intent, raced>>
  PROVE  Typed'
  BY DEF Typed, tables, intent

(* Every step keeps the state typed.                                       *)
THEOREM TypedNext == Typed /\ [Next]_vars => Typed'
<1> SUFFICES ASSUME Typed, [Next]_vars PROVE Typed'
  OBVIOUS
<1> USE DEF Pending
<1>0. CASE UNCHANGED vars
  BY <1>0 DEF Typed, vars, tables, intent
<1>still. ASSUME UNCHANGED <<models, rows>> PROVE Grows
  BY <1>still DEF Grows
<1>1. ASSUME NEW a \in Admins, NEW m \in Models, NEW on \in BOOLEAN, CreateModel(a, m, on)
      PROVE  Typed'
  <2>1. models' \in [Models -> {"unissued", "enabled", "disabled", "deleted"}] /\ Grows
    BY <1>1 DEF CreateModel, Typed, ModelState, Grows
  <2>2. meant' \in [Models -> BOOLEAN]
    BY <1>1 DEF CreateModel, Typed
  <2>3. AdminTyped(admin', models', rows')
    BY <1>1, <2>1, IsOnce DEF CreateModel
  <2> QED
    BY <1>1, <2>1, <2>2, <2>3 DEF CreateModel, Typed
<1>2. ASSUME NEW a \in Admins, NEW m \in Models, NEW on \in BOOLEAN, ToggleModel(a, m, on)
      PROVE  Typed'
  <2>1. /\ models' \in [Models -> {"unissued", "enabled", "disabled", "deleted"}]
        /\ meant' \in [Models -> BOOLEAN] /\ raced' \subseteq Models \cup Endpoints
        /\ Grows
    BY <1>2, SetModelTyped DEF ToggleModel
  <2>2. AdminTyped(admin', models', rows')
    BY <1>2, <2>1, IsOnce DEF ToggleModel
  <2> QED
    BY <1>2, <2>1, <2>2 DEF ToggleModel, SetModel, Typed
<1>3. ASSUME NEW a \in Admins, NEW m \in Models, NEW on \in BOOLEAN \cup {Unset},
             ReadModel(a, m, on)
      PROVE  Typed'
  <2>1. AdminTyped(admin', models', rows')
    BY <1>3, <1>still, Arrives DEF ReadModel, CallShape, Issued, Exists, tables
  <2> QED
    BY <1>3, <2>1, OnlyReads DEF ReadModel, tables
<1>4. ASSUME NEW a \in Admins, NEW m \in Models, ReadForDelete(a, m) PROVE Typed'
  <2>1. AdminTyped(admin', models', rows')
    BY <1>4, <1>still, Arrives DEF ReadForDelete, CallShape, Issued, tables
  <2> QED
    BY <1>4, <2>1, OnlyReads DEF ReadForDelete, tables
<1>5. ASSUME NEW a \in Admins, UpdateModel(a) PROVE Typed'
  <2> DEFINE ask == admin[a].ask
  <2>1. /\ admin[a].id \in Models /\ models[admin[a].id] # "unissued"
        /\ Or(ask.asked, ask.seen) \in BOOLEAN
    BY <1>5 DEF UpdateModel, At, Typed, AdminTyped, CallShape, Issued, Or
  <2>2. /\ models' \in [Models -> {"unissued", "enabled", "disabled", "deleted"}]
        /\ meant' \in [Models -> BOOLEAN] /\ raced' \subseteq Models \cup Endpoints
        /\ Grows
    BY <1>5, <2>1, SetModelTyped DEF UpdateModel
  <2>3. AdminTyped(admin', models', rows')
    BY <1>5, <2>2, IsDone DEF UpdateModel
  <2> QED
    BY <1>5, <2>2, <2>3 DEF UpdateModel, SetModel, Typed
<1>7. ASSUME NEW a \in Admins, DeleteEndpoints(a) PROVE Typed'
  <2>1. admin[a].id \in Models /\ models[admin[a].id] # "unissued"
    BY <1>7 DEF DeleteEndpoints, At, Typed, AdminTyped, Issued
  <2>2. RowsTyped(rows') /\ Grows
    BY <1>7, RemovedTyped DEF DeleteEndpoints, Grows
  <2>3. raced' \subseteq Models \cup Endpoints
    BY <1>7, <2>1, WritesTyped DEF DeleteEndpoints, EndpointsOf
  <2>4. AdminTyped(admin', models', rows')
    BY <1>7, <2>1, <2>2, GoesTo DEF DeleteEndpoints
  <2> QED
    BY <1>7, <2>2, <2>3, <2>4 DEF DeleteEndpoints, Typed, intent
<1>8. ASSUME NEW a \in Admins, DeleteModel(a) PROVE Typed'
  <2> DEFINE m == admin[a].id
             dragged == IF backend = "postgres" THEN EndpointsOf(m) ELSE {}
  <2>1. m \in Models
    BY <1>8 DEF DeleteModel, At, Typed, AdminTyped, Issued
  <2>2. CASE Exists(m)
    <3>1. /\ models' = [models EXCEPT ![m] = "deleted"] /\ rows' = Removed(dragged)
          /\ Writes(a, dragged \cup {m}) /\ Done(a)
      BY <1>8, <2>2 DEF DeleteModel
    <3>2. models' \in [Models -> {"unissued", "enabled", "disabled", "deleted"}]
      BY <2>1, <3>1 DEF Typed
    <3>3. RowsTyped(rows') /\ Grows
      BY <2>1, <3>1, RemovedTyped DEF Grows, Typed
    <3>4. raced' \subseteq Models \cup Endpoints
      BY <2>1, <3>1, WritesTyped DEF EndpointsOf
    <3>5. AdminTyped(admin', models', rows')
      BY <3>1, <3>3, IsDone
    <3> QED
      BY <1>8, <3>2, <3>3, <3>4, <3>5 DEF DeleteModel, Typed, intent
  <2>3. CASE ~Exists(m)
    <3>1. /\ Done(a) /\ UNCHANGED <<tables, raced>>
      BY <1>8, <2>3 DEF DeleteModel
    <3>2. AdminTyped(admin', models', rows')
      BY <3>1, <1>still, IsDone DEF tables
    <3> QED
      BY <1>8, <3>1, <3>2, OnlyReads DEF DeleteModel, tables
  <2> QED
    BY <2>2, <2>3
<1>9. ASSUME NEW a \in Admins, NEW m \in Models, NEW ask \in Creates, CreateEndpoint(a, m, ask)
      PROVE  Typed'
  <2>1. AdminTyped(admin', models', rows')
    BY <1>9, <1>still, Arrives DEF CreateEndpoint, CallShape, Issued, tables
  <2> QED
    BY <1>9, <2>1, OnlyReads DEF CreateEndpoint, tables
<1>10. ASSUME NEW a \in Admins, NEW e \in Endpoints, NEW ask \in Updates, ReadEndpoint(a, e, ask)
       PROVE  Typed'
  <2>1. AdminTyped(admin', models', rows')
    BY <1>10, <1>still, Arrives DEF ReadEndpoint, CallShape, Issued, There, tables
  <2> QED
    BY <1>10, <2>1, OnlyReads DEF ReadEndpoint, tables
<1>11. ASSUME NEW a \in Admins, NEW e \in Endpoints, Insert(a, e) PROVE Typed'
  <2> DEFINE ask == admin[a].ask.ask
             m == admin[a].ask.model
  <2>1. m \in Models /\ ask \in Creates
    BY <1>11 DEF Insert, At, Typed, AdminTyped, CallShape
  <2>2. CASE backend = "postgres" /\ ~Exists(m)
    <3>1. Done(a) /\ UNCHANGED <<rows, given, raced>>
      BY <1>11, <2>2 DEF Insert
    <3>2. AdminTyped(admin', models', rows')
      BY <1>11, <3>1, <1>still, IsDone DEF Insert
    <3> QED
      BY <1>11, <3>1, <3>2 DEF Insert, Typed
  <2>3. CASE ~(backend = "postgres" /\ ~Exists(m))
    <3>1. PICK row : row = [st |-> "there", model |-> m, type |-> ask.type,
                 base_url |-> ask.base_url, enabled |-> ask.enabled,
                 api_key |-> Encrypt(cipher, ask.api_key)]
      OBVIOUS
    <3>2. PICK g : g = [type |-> ask.type, base_url |-> ask.base_url, enabled |-> ask.enabled,
                  secret |-> ask.api_key, under |-> cipher, legacy |-> FALSE]
      OBVIOUS
    <3>3. /\ rows' = [rows EXCEPT ![e] = row] /\ given' = [given EXCEPT ![e] = g]
          /\ Done(a) /\ raced' \subseteq raced \cup {m}
      BY <1>11, <2>3, <3>1, <3>2 DEF Insert
    <3>4. RowShape(row) /\ row.st = "there"
      BY <2>1, <3>1, EndpointAssumption DEF RowShape
    <3>5. GivenShape(g)
      BY <2>1, <3>2, EndpointAssumption, StoredKeyAssumption DEF GivenShape
    <3>6. RowsTyped(rows')
      BY <3>3, <3>4 DEF Typed, RowsTyped
    <3>7. Grows
      BY <1>11, <3>3, <3>4 DEF Typed, RowsTyped, Grows, Insert
    <3>8. GivenTyped(given')
      BY <3>3, <3>5 DEF Typed, GivenTyped
    <3>9. AdminTyped(admin', models', rows')
      BY <3>3, <3>7, IsDone
    <3>10. raced' \subseteq Models \cup Endpoints
      BY <2>1, <3>3 DEF Typed
    <3> QED
      BY <1>11, <3>6, <3>8, <3>9, <3>10 DEF Insert, Typed
  <2> QED
    BY <2>2, <2>3
<1>12. ASSUME NEW a \in Admins, NEW e \in Endpoints, ReadForToggle(a, e) PROVE Typed'
  <2>1. AdminTyped(admin', models', rows')
    BY <1>12, <1>still, Arrives DEF ReadForToggle, CallShape, Issued, There, tables
  <2> QED
    BY <1>12, <2>1, OnlyReads DEF ReadForToggle, tables
<1>13. ASSUME NEW a \in Admins, NEW e \in Endpoints, ToggleOff(a, e) PROVE Typed'
  <2>1. /\ RowsTyped(rows') /\ GivenTyped(given') /\ Grows
        /\ raced' \subseteq Models \cup Endpoints
    BY <1>13, SetEnabledTyped DEF ToggleOff
  <2>2. AdminTyped(admin', models', rows')
    BY <1>13, <2>1, IsOnce DEF ToggleOff
  <2> QED
    BY <1>13, <2>1, <2>2 DEF ToggleOff, SetEnabled, Typed
<1>14. ASSUME NEW a \in Admins, NEW e \in Endpoints, DeleteEndpoint(a, e) PROVE Typed'
  <2>1. RowsTyped(rows') /\ Grows
    BY <1>14, RemovedTyped DEF DeleteEndpoint, Grows
  <2>2. raced' \subseteq Models \cup Endpoints
    BY <1>14, WritesTyped DEF DeleteEndpoint
  <2>3. AdminTyped(admin', models', rows')
    BY <1>14, <2>1, IsOnce DEF DeleteEndpoint
  <2> QED
    BY <1>14, <2>1, <2>2, <2>3 DEF DeleteEndpoint, Typed, intent
<1>15. ASSUME NEW a \in Admins, GetEndpoint(a) PROVE Typed'
  <2> DEFINE e == admin[a].id
  <2>1. e \in Endpoints /\ RowShape(rows[e]) /\ CallShape(admin[a]) /\ Issued(admin[a], models, rows)
    BY <1>15 DEF GetEndpoint, At, Typed, AdminTyped, RowsTyped, Issued
  <2>2. CASE There(e)
    <3>1. PICK c : c = [admin[a] EXCEPT !.pc = "update_write",
                          !.seen = [type |-> rows[e].type, base_url |-> rows[e].base_url,
                                    enabled |-> rows[e].enabled]]
      OBVIOUS
    <3>2. admin' = [admin EXCEPT ![a] = c]
      BY <1>15, <2>2, <3>1 DEF GetEndpoint, Typed, AdminTyped
    <3>3. /\ c = [pc |-> c.pc, id |-> c.id, ask |-> c.ask, seen |-> c.seen]
          /\ c.pc = "update_write" /\ c.id = e /\ c.ask = admin[a].ask
          /\ c.seen.enabled = rows[e].enabled
      BY <2>1, <3>1 DEF CallShape
    <3>4. CallShape(c) /\ Issued(c, models, rows)
      BY <1>15, <2>1, <3>3 DEF CallShape, Issued, GetEndpoint, At, RowShape
    <3>5. AdminTyped(admin', models', rows')
      BY <1>15, <3>2, <3>4, <1>still, MovesOn DEF GetEndpoint, tables
    <3> QED
      BY <1>15, <3>5, OnlyReads DEF GetEndpoint, tables
  <2>3. CASE ~There(e)
    <3>1. AdminTyped(admin', models', rows')
      BY <1>15, <2>3, <1>still, IsDone DEF GetEndpoint, tables
    <3> QED
      BY <1>15, <3>1, OnlyReads DEF GetEndpoint, tables
  <2> QED
    BY <2>2, <2>3
<1>16. ASSUME NEW a \in Admins, UpdateEndpoint(a) PROVE Typed'
  <2>1. /\ RowsTyped(rows') /\ GivenTyped(given') /\ Grows
        /\ raced' \subseteq Models \cup Endpoints
    BY <1>16, UpdateTyped
  <2>2. admin[a].id \in Endpoints /\ rows[admin[a].id].st # "unissued"
    BY <1>16 DEF UpdateEndpoint, At, Typed, AdminTyped, Issued
  <2>3. AdminTyped(admin', models', rows')
    BY <1>16, <2>1, IsDone DEF UpdateEndpoint
  <2> QED
    BY <1>16, <2>1, <2>3 DEF UpdateEndpoint, Typed
<1>17. ASSUME NEW a \in Admins, ToggleOn(a) PROVE Typed'
  <2>1. admin[a].id \in Endpoints /\ rows[admin[a].id].st # "unissued"
    BY <1>17 DEF ToggleOn, At, Typed, AdminTyped, Issued
  <2>2. /\ RowsTyped(rows') /\ GivenTyped(given') /\ Grows
        /\ raced' \subseteq Models \cup Endpoints
    BY <1>17, <2>1, SetEnabledTyped DEF ToggleOn
  <2>3. AdminTyped(admin', models', rows')
    BY <1>17, <2>2, IsDone DEF ToggleOn
  <2> QED
    BY <1>17, <2>2, <2>3 DEF ToggleOn, SetEnabled, Typed
<1>20. ASSUME NEW a \in Admins, Abandon(a) PROVE Typed'
  <2>1. AdminTyped(admin', models', rows')
    BY <1>20, <1>still, IsDone DEF Abandon, tables
  <2> QED
    BY <1>20, <2>1 DEF Abandon, Typed, tables, intent
<1>21. ASSUME NEW c \in Ciphers \cup {None}, Restart(c) PROVE Typed'
  <2>1. CallShape(Idle) /\ Issued(Idle, models', rows')
    BY DEF CallShape, Issued, Idle
  <2>2. AdminTyped(admin', models', rows')
    BY <1>21, <2>1 DEF Restart, AdminTyped
  <2> QED
    BY <1>21, <2>2 DEF Restart, Typed, tables, intent
<1> QED
  BY <1>0, <1>1, <1>2, <1>3, <1>4, <1>5, <1>7, <1>8, <1>9, <1>10, <1>11, <1>12, <1>13,
     <1>14, <1>15, <1>16, <1>17, <1>20, <1>21
  DEF Next, ModelCall, EndpointCall

-----------------------------------------------------------------------------
(* The key last given is the key in the table.                             *)

KeyOf(row, g) ==
  row.st = "there" =>
    /\ row.api_key = Encrypt(g.under, g.secret)
    /\ row.api_key = None => g.secret = None

KeyKept == \A e \in Endpoints : KeyOf(rows[e], given[e])

(* encrypt_endpoint_api_key, then decrypt_endpoint: the key comes back to  *)
(* a process that could have encrypted it, and to no other.                *)
LEMMA RoundTrip ==
  ASSUME NEW u, NEW secret, Encrypt(u, secret) = None => secret = None,
         NEW c \in Ciphers
  PROVE  Decrypt(c, Encrypt(u, secret)) =
           IF u \in {None, c} \/ secret = "" THEN secret ELSE None
<1>1. CASE secret = None
  BY <1>1 DEF Decrypt, Encrypt
<1>2. CASE secret # None
  <2>1. PICK k : k = [under |-> IF secret = "" THEN None ELSE u, secret |-> secret]
    OBVIOUS
  <2>2. Encrypt(u, secret) = k /\ k # None
    BY <1>2, <2>1 DEF Encrypt
  <2>3. k.secret = secret /\ k.under = IF secret = "" THEN None ELSE u
    BY <2>1
  <2>4. c # None
    BY EndpointAssumption
  <2>5. CASE k.under = None
    <3>1. Decrypt(c, k) = secret
      BY <2>2, <2>3, <2>5 DEF Decrypt
    <3> QED
      BY <2>2, <2>3, <2>5, <3>1
  <2>6. CASE k.under = c
    <3>1. Decrypt(c, k) = secret
      BY <2>2, <2>3, <2>4, <2>6 DEF Decrypt
    <3> QED
      BY <2>2, <2>3, <2>4, <2>6, <3>1
  <2>7. CASE k.under \notin {None, c}
    <3>1. Decrypt(c, k) = None
      BY <2>2, <2>3, <2>4, <2>7 DEF Decrypt
    <3> QED
      BY <2>2, <2>3, <2>7, <3>1
  <2> QED
    BY <2>5, <2>6, <2>7
<1> QED
  BY <1>1, <1>2

(* What an earlier version stored counts as given.                         *)
LEMMA InitKeys == Init => KeyKept
<1> SUFFICES ASSUME Init, NEW e \in Endpoints, There(e) PROVE KeyOf(rows[e], given[e])
  BY DEF KeyKept, KeyOf, There
<1>1. PICK m \in Models, r \in LegacyRows : rows[e] =
               [st |-> "there", model |-> m, type |-> r.type, base_url |-> r.base_url,
                api_key |-> r.api_key, enabled |-> r.enabled]
  BY DEF Init, There, NoRow
<1>2. given[e] = Said(rows[e])
  BY DEF Init
<1>3. CASE r.api_key = None
  BY <1>1, <1>2, <1>3 DEF KeyOf, Said, Encrypt
<1>4. CASE r.api_key # None
  BY <1>1, <1>2, <1>4, StoredKeyAssumption DEF KeyOf, Said
<1> QED
  BY <1>3, <1>4

(* No step but one that gives a key changes a key, and that one encrypts   *)
(* what was given under the key of the process.                            *)
LEMMA KeysNext == Typed /\ KeyKept /\ [Next]_vars => KeyKept'
<1> SUFFICES ASSUME Typed, KeyKept, [Next]_vars, NEW e \in Endpoints
             PROVE  KeyOf(rows'[e], given'[e])
  BY DEF KeyKept
<1>0. KeyOf(rows[e], given[e]) /\ RowShape(rows[e]) /\ GivenShape(given[e])
  BY DEF Typed, RowsTyped, GivenTyped, KeyKept
<1>1. ASSUME UNCHANGED <<rows, given>> PROVE KeyOf(rows'[e], given'[e])
  BY <1>0, <1>1
<1>2. ASSUME NEW S, rows' = Removed(S), UNCHANGED given PROVE KeyOf(rows'[e], given'[e])
  BY <1>0, <1>2 DEF Removed, KeyOf, NoRow
<1>3. ASSUME NEW a \in Admins, NEW f \in Endpoints, NEW on \in BOOLEAN, SetEnabled(a, f, on)
      PROVE  KeyOf(rows'[e], given'[e])
  <2>1. CASE ~There(f) \/ f # e
    <3>1. rows'[e] = rows[e] /\ given'[e] = given[e]
      BY <1>3, <2>1 DEF SetEnabled, Typed, RowsTyped, GivenTyped
    <3> QED
      BY <1>0, <3>1
  <2>2. CASE There(f) /\ f = e
    <3>1. /\ rows'[e] = [rows[e] EXCEPT !.enabled = on]
          /\ given'[e] = [given[e] EXCEPT !.enabled = on, !.legacy = FALSE]
      BY <1>3, <2>2 DEF SetEnabled, Typed, RowsTyped, GivenTyped
    <3>2. /\ rows'[e].st = rows[e].st /\ rows'[e].api_key = rows[e].api_key
      BY <1>0, <3>1 DEF RowShape
    <3>3. given'[e].under = given[e].under /\ given'[e].secret = given[e].secret
      BY <1>0, <3>1 DEF GivenShape
    <3> QED
      BY <1>0, <3>2, <3>3 DEF KeyOf
  <2> QED
    BY <2>1, <2>2
<1>4. ASSUME NEW a \in Admins, NEW f \in Endpoints, Insert(a, f)
      PROVE  KeyOf(rows'[e], given'[e])
  <2>1. CASE UNCHANGED <<rows, given>> \/ f # e
    <3>1. rows'[e] = rows[e] /\ given'[e] = given[e]
      BY <1>4, <2>1 DEF Insert, Typed, RowsTyped, GivenTyped
    <3> QED
      BY <1>0, <3>1
  <2>2. CASE f = e /\ ~UNCHANGED <<rows, given>>
    <3>1. admin[a].ask.ask \in Creates /\ cipher \in Ciphers \cup {None}
      BY <1>4 DEF Insert, At, Typed, AdminTyped, CallShape
    <3>2. /\ rows'[e].api_key = Encrypt(cipher, admin[a].ask.ask.api_key)
          /\ given'[e].under = cipher /\ given'[e].secret = admin[a].ask.ask.api_key
      BY <1>4, <2>2 DEF Insert, Typed, RowsTyped, GivenTyped
    <3> QED
      BY <3>1, <3>2, StoredKeyAssumption DEF KeyOf
  <2> QED
    BY <2>1, <2>2
<1>5. ASSUME NEW a \in Admins, UpdateEndpoint(a) PROVE KeyOf(rows'[e], given'[e])
  <2> DEFINE f == admin[a].id
             ask == admin[a].ask
  <2>1. CASE ~There(f) \/ f # e
    <3>1. rows'[e] = rows[e] /\ given'[e] = given[e]
      BY <1>5, <2>1 DEF UpdateEndpoint, Typed, RowsTyped, GivenTyped
    <3> QED
      BY <1>0, <3>1
  <2>2. CASE There(f) /\ f = e
    <3>1. /\ ask \in Updates /\ admin[a].seen.enabled \in BOOLEAN
          /\ cipher \in Ciphers \cup {None}
      BY <1>5 DEF UpdateEndpoint, At, Typed, AdminTyped, CallShape
    <3>2. rows'[e] = Merged(rows[e], ask, admin[a].seen)
      BY <1>5, <2>2 DEF UpdateEndpoint, Typed, RowsTyped
    <3>3. rows'[e].api_key = IF ask.api_key = Unset THEN rows[e].api_key
                                                   ELSE Encrypt(cipher, ask.api_key)
      BY <1>0, <3>1, <3>2, MergedFields
    <3>4. /\ given'[e].under = (IF ask.api_key = Unset THEN given[e].under ELSE cipher)
          /\ given'[e].secret = Or(ask.api_key, given[e].secret)
      BY <1>5, <2>2 DEF UpdateEndpoint, Typed, GivenTyped
    <3> QED
      BY <1>0, <2>2, <3>1, <3>3, <3>4, StoredKeyAssumption DEF KeyOf, Or, There
  <2> QED
    BY <2>1, <2>2
<1>6. ASSUME NEW a \in Admins, NEW f \in Endpoints, ToggleOff(a, f) \/ DeleteEndpoint(a, f)
      PROVE  KeyOf(rows'[e], given'[e])
  BY <1>6, <1>2, <1>3 DEF ToggleOff, DeleteEndpoint, intent
<1>7. ASSUME NEW a \in Admins, ToggleOn(a) PROVE KeyOf(rows'[e], given'[e])
  <2>1. admin[a].id \in Endpoints
    BY <1>7 DEF ToggleOn, At, Typed, AdminTyped, Issued
  <2> QED
    BY <1>7, <2>1, <1>3 DEF ToggleOn
<1>8. ASSUME NEW a \in Admins, DeleteEndpoints(a) \/ DeleteModel(a)
      PROVE  KeyOf(rows'[e], given'[e])
  BY <1>8, <1>1, <1>2 DEF DeleteEndpoints, DeleteModel, intent, tables
<1>9. ASSUME NEW a \in Admins, ModelCall(a), ~DeleteEndpoints(a), ~DeleteModel(a)
      PROVE  UNCHANGED <<rows, given>>
  BY <1>9 DEF ModelCall, CreateModel, ToggleModel, SetModel, ReadModel, ReadForDelete,
              UpdateModel, tables, intent
<1>10. ASSUME NEW a \in Admins, \/ \E m \in Models, ask \in Creates : CreateEndpoint(a, m, ask)
                                \/ \E f \in Endpoints, ask \in Updates : ReadEndpoint(a, f, ask)
                                \/ \E f \in Endpoints : ReadForToggle(a, f)
                                \/ GetEndpoint(a) \/ Abandon(a)
       PROVE  UNCHANGED <<rows, given>>
  BY <1>10 DEF CreateEndpoint, ReadEndpoint, ReadForToggle, GetEndpoint, Abandon, tables, intent
<1>11. ASSUME NEW c \in Ciphers \cup {None}, Restart(c) PROVE UNCHANGED <<rows, given>>
  BY <1>11 DEF Restart, tables, intent
<1>12. ASSUME UNCHANGED vars PROVE UNCHANGED <<rows, given>>
  BY <1>12 DEF vars, tables, intent
<1> QED
  BY <1>1, <1>4, <1>5, <1>6, <1>7, <1>8, <1>9, <1>10, <1>11, <1>12 DEF Next, EndpointCall

(* The invariant of the shapes and the keys.                               *)
LEMMA TypedAlways == Spec => [](Typed /\ KeyKept)
  BY InitTyped, InitKeys, TypedNext, KeysNext, PTL DEF Spec

(* The key last given for an endpoint stays in its row, and is read back   *)
(* by every process with the encryption key it was stored under and by no  *)
(* other: no update, toggle, restart under another key or failed           *)
(* decryption loses or leaks it.                                           *)
THEOREM KeysSurvive == Spec => []KeySurvives
<1>1. ASSUME Typed, KeyKept PROVE KeySurvives
  <2> SUFFICES ASSUME NEW e \in Endpoints, There(e)
               PROVE  /\ rows[e].api_key = Encrypt(given[e].under, given[e].secret)
                      /\ \A c \in Ciphers : Decrypt(c, rows[e].api_key) =
                           IF given[e].under \in {None, c} \/ given[e].secret = ""
                           THEN given[e].secret ELSE None
    BY DEF KeySurvives
  <2>1. /\ rows[e].api_key = Encrypt(given[e].under, given[e].secret)
        /\ rows[e].api_key = None => given[e].secret = None
    BY <1>1 DEF KeyKept, KeyOf, There
  <2>2. ASSUME NEW c \in Ciphers
        PROVE  Decrypt(c, Encrypt(given[e].under, given[e].secret)) =
                 IF given[e].under \in {None, c} \/ given[e].secret = ""
                 THEN given[e].secret ELSE None
    <3>1. PICK u, secret : u = given[e].under /\ secret = given[e].secret
      OBVIOUS
    <3>2. Encrypt(u, secret) = None => secret = None
      BY <2>1, <3>1
    <3>3. Decrypt(c, Encrypt(u, secret)) =
            IF u \in {None, c} \/ secret = "" THEN secret ELSE None
      BY <3>2, RoundTrip
    <3> QED
      BY <3>1, <3>3
  <2> QED
    BY <2>1, <2>2
<1> QED
  BY <1>1, TypedAlways, PTL

-----------------------------------------------------------------------------
(* The rows are what the operators asked for, and fit to be routed by.     *)

Stored(state) == state \in {"enabled", "disabled"}

RowOK(e, row, g, ms, rd) ==
  row.st = "there" =>
    /\ Stored(ms[row.model]) \/ row.model \in rd
    /\ row.enabled => Validated(row) \/ g.legacy \/ e \in rd
    /\ \/ e \in rd
       \/ row.type = g.type /\ row.base_url = g.base_url /\ row.enabled = g.enabled

ModelOK(m, state, on, rd) == Stored(state) => m \in rd \/ (state = "enabled") = on

(* What a call has read and will write by is still so, or the race is on   *)
(* record; and a model SQLite is about to delete has no endpoint left.     *)
Fresh(c, bk, ms, rs, rd) ==
  /\ c.pc = "update_get" /\ rs[c.id].st = "there" =>
       c.id \in rd \/ Validated(EffectiveRoutingPair(c.ask, rs[c.id]))
  /\ c.pc = "update_write" /\ rs[c.id].st = "there" =>
       \/ c.id \in rd
       \/ /\ Validated(EffectiveRoutingPair(c.ask, c.seen))
          /\ c.seen.type = rs[c.id].type /\ c.seen.base_url = rs[c.id].base_url
          /\ c.seen.enabled = rs[c.id].enabled
  /\ c.pc = "toggle_write" /\ rs[c.id].st = "there" =>
       c.id \in rd \/ Validated(rs[c.id])
  /\ c.pc = "update_model" /\ Stored(ms[c.id]) =>
       c.id \in rd \/ c.ask.seen = (ms[c.id] = "enabled")
  /\ c.pc = "delete_model" /\ bk = "sqlite" =>
       \A e \in Endpoints : rs[e].st = "there" /\ rs[e].model = c.id => c.id \in rd

Sound ==
  /\ \A e \in Endpoints : RowOK(e, rows[e], given[e], models, raced)
  /\ \A m \in Models : ModelOK(m, models[m], meant[m], raced)
  /\ \A a \in Admins : Fresh(admin[a], backend, models, rows, raced)

(* Nothing is stale on a freshly started process.                          *)
LEMMA InitSound == Init => Sound
<1> SUFFICES ASSUME Init PROVE Sound
  OBVIOUS
<1>1. ASSUME NEW e \in Endpoints PROVE RowOK(e, rows[e], given[e], models, raced)
  BY DEF Init, RowOK, There, Exists, Said, Stored
<1>2. ASSUME NEW m \in Models PROVE ModelOK(m, models[m], meant[m], raced)
  BY DEF Init, ModelOK
<1>3. ASSUME NEW a \in Admins PROVE Fresh(admin[a], backend, models, rows, raced)
  BY DEF Init, Fresh, Idle
<1> QED
  BY <1>1, <1>2, <1>3 DEF Sound

(* What a step may do to the tables under a call c of somebody else: leave *)
(* a row, issue one, delete one, or change one and put that on record.     *)
RowStep(c, old, new, e, rd) ==
  \/ new = old
  \/ old.st = "unissued" /\ (c.pc = "delete_model" /\ c.id = new.model => c.id \in rd)
  \/ new.st = "deleted"
  \/ /\ c.pc \in {"update_get", "update_write", "toggle_write"} /\ c.id = e => e \in rd
     /\ new.st = old.st /\ new.model = old.model

ModelStep(c, old, new, m, rd) ==
  \/ new = old \/ old = "unissued" \/ new = "deleted"
  \/ c.pc = "update_model" /\ c.id = m => m \in rd

(* A step of this kind leaves the call as fresh as it was.                 *)
LEMMA StaysFresh ==
  ASSUME NEW c, NEW bk, NEW ms, NEW ms2, NEW rs, NEW rs2, NEW rd, NEW rd2,
         CallShape(c), Issued(c, ms, rs), Fresh(c, bk, ms, rs, rd), rd \subseteq rd2,
         \A e \in Endpoints : RowStep(c, rs[e], rs2[e], e, rd2),
         \A m \in Models : ModelStep(c, ms[m], ms2[m], m, rd2)
  PROVE  Fresh(c, bk, ms2, rs2, rd2)
<1>1. CASE c.pc = "update_get"
  BY <1>1 DEF Fresh, Issued, RowStep
<1>2. CASE c.pc = "update_write"
  BY <1>2 DEF Fresh, Issued, RowStep
<1>3. CASE c.pc = "toggle_write"
  BY <1>3 DEF Fresh, Issued, RowStep
<1>4. CASE c.pc = "update_model"
  BY <1>4 DEF Fresh, Issued, ModelStep, Stored
<1>5. CASE c.pc = "delete_model"
  BY <1>5 DEF Fresh, Issued, RowStep
<1>6. CASE c.pc \notin {"update_get", "update_write", "toggle_write", "update_model",
                       "delete_model"}
  BY <1>6 DEF Fresh
<1> QED
  BY <1>1, <1>2, <1>3, <1>4, <1>5, <1>6

(* How a call moves: the other calls stay where they are.                  *)
LEMMA MoveFacts ==
  ASSUME Typed, NEW a \in Admins
  PROVE  /\ \A pc : Goto(a, pc) =>
              /\ admin'[a].pc = pc /\ admin'[a].id = admin[a].id
              /\ admin'[a].ask = admin[a].ask /\ admin'[a].seen = admin[a].seen
              /\ \A b \in Admins \ {a} : admin'[b] = admin[b]
         /\ \A pc, id, ask : Call(a, pc, id, ask) =>
              /\ admin'[a].pc = pc /\ admin'[a].id = id /\ admin'[a].ask = ask
              /\ \A b \in Admins \ {a} : admin'[b] = admin[b]
         /\ Done(a) \/ Once(a) =>
              /\ admin'[a].pc = "idle"
              /\ \A b \in Admins \ {a} : admin'[b] = admin[b]
<1>1. CallShape(admin[a]) /\ DOMAIN admin = Admins
  BY DEF Typed, AdminTyped
<1>2. ASSUME NEW pc, Goto(a, pc)
      PROVE  /\ admin'[a].pc = pc /\ admin'[a].id = admin[a].id
             /\ admin'[a].ask = admin[a].ask /\ admin'[a].seen = admin[a].seen
             /\ \A b \in Admins \ {a} : admin'[b] = admin[b]
  <2>1. /\ admin'[a] = [admin[a] EXCEPT !.pc = pc]
        /\ \A b \in Admins \ {a} : admin'[b] = admin[b]
    BY <1>1, <1>2 DEF Goto
  <2> QED
    BY <1>1, <2>1 DEF CallShape
<1>3. ASSUME NEW pc, NEW id, NEW ask, Call(a, pc, id, ask)
      PROVE  /\ admin'[a].pc = pc /\ admin'[a].id = id /\ admin'[a].ask = ask
             /\ \A b \in Admins \ {a} : admin'[b] = admin[b]
  BY <1>1, <1>3 DEF Call, Idle
<1>4. Done(a) \/ Once(a) =>
        /\ admin'[a].pc = "idle"
        /\ \A b \in Admins \ {a} : admin'[b] = admin[b]
  BY <1>1 DEF Done, Once, Idle, At
<1> QED
  BY <1>2, <1>3, <1>4

(* Writes puts on record every call it overtakes.                          *)
LEMMA WritesFacts ==
  ASSUME NEW a \in Admins, NEW S, Writes(a, S)
  PROVE  /\ raced \subseteq raced'
         /\ \A b \in Admins \ {a} :
              /\ admin[b].pc \in Pending \ {"insert"}
              /\ admin[b].id \in S
              => admin[b].id \in raced'
  BY DEF Writes, Subject, At, Pending

(* The calls after a step of call a.                                       *)
LEMMA AllFresh ==
  ASSUME Typed, Sound, NEW a \in Admins, backend' = backend, raced \subseteq raced',
         \A b \in Admins \ {a} :
           /\ admin'[b] = admin[b]
           /\ \A e \in Endpoints : RowStep(admin[b], rows[e], rows'[e], e, raced')
           /\ \A m \in Models : ModelStep(admin[b], models[m], models'[m], m, raced'),
         Fresh(admin'[a], backend', models', rows', raced')
  PROVE  \A b \in Admins : Fresh(admin'[b], backend', models', rows', raced')
<1> SUFFICES ASSUME NEW b \in Admins \ {a}
             PROVE  Fresh(admin'[b], backend', models', rows', raced')
  OBVIOUS
<1>1. PICK c, ms, ms2, rs, rs2, rd, rd2 :
        /\ c = admin[b] /\ ms = models /\ ms2 = models' /\ rs = rows /\ rs2 = rows'
        /\ rd = raced /\ rd2 = raced'
  OBVIOUS
<1>2. /\ CallShape(c) /\ Issued(c, ms, rs) /\ Fresh(c, backend, ms, rs, rd)
      /\ rd \subseteq rd2
      /\ \A e \in Endpoints : RowStep(c, rs[e], rs2[e], e, rd2)
      /\ \A m \in Models : ModelStep(c, ms[m], ms2[m], m, rd2)
  BY <1>1 DEF Typed, AdminTyped, Sound
<1>3. Fresh(c, backend, ms2, rs2, rd2)
  BY <1>2, StaysFresh
<1> QED
  BY <1>1, <1>3

(* A step that leaves the tables alone.                                    *)
LEMMA ReadsSound ==
  ASSUME Typed, Sound, NEW a \in Admins,
         UNCHANGED <<backend, models, rows, given, meant, raced>>,
         \A b \in Admins \ {a} : admin'[b] = admin[b],
         Fresh(admin'[a], backend, models, rows, raced)
  PROVE  Sound'
  BY DEF Sound

(* A step that deletes the rows of S.                                      *)
LEMMA RemovesSound ==
  ASSUME Typed, Sound, NEW S, rows' = Removed(S), UNCHANGED <<given, models>>,
         raced \subseteq raced'
  PROVE  /\ \A e \in Endpoints : RowOK(e, rows'[e], given'[e], models', raced')
         /\ \A e \in Endpoints : rows'[e] = rows[e] \/ rows'[e].st = "deleted"
  BY DEF Typed, Sound, RowOK, Removed, NoRow

(* SetEnabled, with a row that may be turned on.                           *)
LEMMA SetEnabledSound ==
  ASSUME Typed, Sound, NEW a \in Admins, NEW e \in Endpoints, NEW on \in BOOLEAN,
         SetEnabled(a, e, on), on /\ There(e) => e \in raced \/ Validated(rows[e])
  PROVE  /\ \A f \in Endpoints : RowOK(f, rows'[f], given'[f], models', raced')
         /\ raced \subseteq raced'
         /\ \A b \in Admins \ {a}, f \in Endpoints :
              RowStep(admin[b], rows[f], rows'[f], f, raced')
<1>1. CASE ~There(e)
  BY <1>1 DEF SetEnabled, Sound, RowStep
<1>2. CASE There(e)
  <2>1. RowShape(rows[e]) /\ GivenShape(given[e])
    BY DEF Typed, RowsTyped, GivenTyped
  <2>2. /\ rows'[e] = [rows[e] EXCEPT !.enabled = on]
        /\ given'[e] = [given[e] EXCEPT !.enabled = on, !.legacy = FALSE]
        /\ \A f \in Endpoints \ {e} : rows'[f] = rows[f] /\ given'[f] = given[f]
        /\ models' = models
    BY <1>2 DEF SetEnabled, Typed, RowsTyped, GivenTyped
  <2>3. /\ rows'[e].st = rows[e].st /\ rows'[e].model = rows[e].model
        /\ rows'[e].type = rows[e].type /\ rows'[e].base_url = rows[e].base_url
        /\ rows'[e].enabled = on
    BY <2>1, <2>2 DEF RowShape
  <2>4. /\ given'[e].type = given[e].type /\ given'[e].base_url = given[e].base_url
        /\ given'[e].enabled = on
    BY <2>1, <2>2 DEF GivenShape
  <2>5. Writes(a, {e})
    BY <1>2 DEF SetEnabled
  <2>6. /\ raced \subseteq raced'
        /\ \A b \in Admins \ {a} :
             admin[b].pc \in Pending \ {"insert"} /\ admin[b].id = e => e \in raced'
    BY <2>5, WritesFacts
  <2>7. RowOK(e, rows[e], given[e], models, raced)
    BY DEF Sound
  <2>8. RowOK(e, rows'[e], given'[e], models', raced')
    BY <1>2, <2>2, <2>3, <2>4, <2>6, <2>7 DEF RowOK, Validated, There
  <2>9. ASSUME NEW f \in Endpoints \ {e} PROVE RowOK(f, rows'[f], given'[f], models', raced')
    BY <2>2, <2>6 DEF Sound, RowOK
  <2>10. ASSUME NEW b \in Admins \ {a}, NEW f \in Endpoints
         PROVE  RowStep(admin[b], rows[f], rows'[f], f, raced')
    BY <2>2, <2>3, <2>6 DEF RowStep, Pending
  <2> QED
    BY <2>6, <2>8, <2>9, <2>10
<1> QED
  BY <1>1, <1>2

(* SetModel, with the state the operator asked for or had before.          *)
LEMMA SetModelSound ==
  ASSUME Typed, Sound, NEW a \in Admins, NEW m \in Models, NEW on \in BOOLEAN,
         NEW said \in BOOLEAN, SetModel(a, m, on, said),
         ~said /\ Exists(m) => m \in raced \/ on = (models[m] = "enabled")
  PROVE  /\ \A f \in Endpoints : RowOK(f, rows'[f], given'[f], models', raced')
         /\ \A n \in Models : ModelOK(n, models'[n], meant'[n], raced')
         /\ raced \subseteq raced'
         /\ \A b \in Admins \ {a}, n \in Models :
              ModelStep(admin[b], models[n], models'[n], n, raced')
<1>1. /\ raced \subseteq raced'
      /\ \A b \in Admins \ {a} :
           admin[b].pc \in Pending \ {"insert"} /\ admin[b].id = m => m \in raced'
  <2>1. Writes(a, {m})
    BY DEF SetModel
  <2> QED
    BY <2>1, WritesFacts
<1>2. /\ models'[m] = IF Exists(m) THEN ModelState(on) ELSE models[m]
      /\ \A n \in Models \ {m} : models'[n] = models[n] /\ meant'[n] = meant[n]
      /\ rows' = rows /\ given' = given
  BY DEF SetModel, Typed
<1>3. meant'[m] = IF said THEN on ELSE meant[m]
  BY DEF SetModel, Typed
<1>4. \A n \in Models : Stored(models'[n]) <=> Stored(models[n])
  BY <1>2 DEF Stored, ModelState, Exists
<1>5. ASSUME NEW f \in Endpoints PROVE RowOK(f, rows'[f], given'[f], models', raced')
  BY <1>1, <1>2, <1>4 DEF Sound, RowOK, Typed, RowsTyped, RowShape
<1>6. ModelOK(m, models'[m], meant'[m], raced')
  <2>1. CASE ~Exists(m)
    BY <1>2, <2>1 DEF ModelOK, Stored, Exists
  <2>2. CASE Exists(m) /\ said
    BY <1>2, <1>3, <2>2 DEF ModelOK, ModelState
  <2>3. CASE Exists(m) /\ ~said
    BY <1>1, <1>2, <1>3, <2>3 DEF ModelOK, ModelState, Sound, Stored, Exists
  <2> QED
    BY <2>1, <2>2, <2>3
<1>7. ASSUME NEW n \in Models \ {m} PROVE ModelOK(n, models'[n], meant'[n], raced')
  BY <1>1, <1>2 DEF ModelOK, Sound
<1>8. ASSUME NEW b \in Admins \ {a}, NEW n \in Models
      PROVE  ModelStep(admin[b], models[n], models'[n], n, raced')
  BY <1>1, <1>2 DEF ModelStep, Pending
<1> QED
  BY <1>1, <1>5, <1>6, <1>7, <1>8

(* The write of an update leaves the row the operator asked for.           *)
LEMMA UpdateSound ==
  ASSUME Typed, Sound, NEW a \in Admins, UpdateEndpoint(a)
  PROVE  /\ \A f \in Endpoints : RowOK(f, rows'[f], given'[f], models', raced')
         /\ raced \subseteq raced'
         /\ \A b \in Admins \ {a}, f \in Endpoints :
              RowStep(admin[b], rows[f], rows'[f], f, raced')
<1> DEFINE e == admin[a].id
           ask == admin[a].ask
           seen == admin[a].seen
<1>1. /\ e \in Endpoints /\ ask \in Updates /\ seen.enabled \in BOOLEAN
      /\ models' = models /\ admin[a].pc = "update_write"
  BY DEF Typed, AdminTyped, Issued, CallShape, UpdateEndpoint, At
<1>2. CASE ~There(e)
  BY <1>1, <1>2 DEF UpdateEndpoint, Sound, RowStep
<1>3. CASE There(e)
  <2>1. RowShape(rows[e])
    BY <1>1 DEF Typed, RowsTyped
  <2>2. /\ rows'[e] = Merged(rows[e], ask, seen)
        /\ \A f \in Endpoints \ {e} : rows'[f] = rows[f]
    BY <1>1, <1>3 DEF UpdateEndpoint, Typed, RowsTyped
  <2>3. /\ given'[e].type = Or(ask.type, given[e].type)
        /\ given'[e].base_url = Or(ask.base_url, given[e].base_url)
        /\ given'[e].enabled = Or(ask.enabled, given[e].enabled)
        /\ \A f \in Endpoints \ {e} : given'[f] = given[f]
    BY <1>1, <1>3 DEF UpdateEndpoint, Typed, GivenTyped
  <2>4. /\ rows'[e].st = rows[e].st /\ rows'[e].model = rows[e].model
        /\ rows'[e].type = Or(ask.type, seen.type)
        /\ rows'[e].base_url = Or(ask.base_url, seen.base_url)
        /\ rows'[e].enabled = Or(ask.enabled, seen.enabled)
    BY <1>1, <2>1, <2>2, MergedFields
  <2>5. Writes(a, {e})
    BY <1>1, <1>3 DEF UpdateEndpoint
  <2>6. /\ raced \subseteq raced'
        /\ \A b \in Admins \ {a} :
             admin[b].pc \in Pending \ {"insert"} /\ admin[b].id = e => e \in raced'
    BY <2>5, WritesFacts
  <2>7. RowOK(e, rows[e], given[e], models, raced) /\ Fresh(admin[a], backend, models, rows, raced)
    BY <1>1 DEF Sound
  <2>8. ASSUME e \in raced PROVE RowOK(e, rows'[e], given'[e], models', raced')
    BY <1>1, <2>4, <2>6, <2>7, <2>8 DEF RowOK
  <2>9. ASSUME e \notin raced PROVE RowOK(e, rows'[e], given'[e], models', raced')
    <3>1. /\ Validated(EffectiveRoutingPair(ask, seen))
          /\ seen.type = rows[e].type /\ seen.base_url = rows[e].base_url
          /\ seen.enabled = rows[e].enabled
      BY <1>1, <1>3, <2>7, <2>9 DEF Fresh, There
    <3>2. Validated(rows'[e])
      BY <2>4, <3>1 DEF Validated, EffectiveRoutingPair
    <3>3. /\ rows'[e].type = given'[e].type /\ rows'[e].base_url = given'[e].base_url
          /\ rows'[e].enabled = given'[e].enabled
      BY <1>3, <2>3, <2>4, <2>7, <2>9, <3>1 DEF RowOK, Or, There
    <3> QED
      BY <1>1, <2>4, <2>6, <2>7, <3>2, <3>3 DEF RowOK
  <2>10. ASSUME NEW f \in Endpoints \ {e} PROVE RowOK(f, rows'[f], given'[f], models', raced')
    BY <1>1, <2>2, <2>3, <2>6 DEF Sound, RowOK
  <2>11. RowOK(e, rows'[e], given'[e], models', raced')
    BY <2>8, <2>9
  <2>12. ASSUME NEW b \in Admins \ {a}, NEW f \in Endpoints
         PROVE  RowStep(admin[b], rows[f], rows'[f], f, raced')
    BY <2>2, <2>4, <2>6 DEF RowStep, Pending
  <2> QED
    BY <2>6, <2>10, <2>11, <2>12
<1> QED
  BY <1>2, <1>3

(* Every step keeps the rows sound.                                        *)
LEMMA SoundNext == Typed /\ Sound /\ [Next]_vars => Sound'
<1> SUFFICES ASSUME Typed, Sound, [Next]_vars PROVE Sound'
  OBVIOUS
<1>0. CASE UNCHANGED vars
  BY <1>0 DEF Sound, vars, tables, intent
<1>1. ASSUME NEW a \in Admins, NEW m \in Models, NEW on \in BOOLEAN, CreateModel(a, m, on)
      PROVE  Sound'
  <2>1. /\ models[m] = "unissued" /\ models'[m] = ModelState(on)
        /\ \A n \in Models \ {m} : models'[n] = models[n] /\ meant'[n] = meant[n]
        /\ rows' = rows /\ given' = given /\ raced' = raced /\ backend' = backend
    BY <1>1 DEF CreateModel, Typed
  <2>2. meant'[m] = on
    BY <1>1 DEF CreateModel, Typed
  <2>3. /\ admin'[a].pc = "idle" /\ \A b \in Admins \ {a} : admin'[b] = admin[b]
    BY <1>1, MoveFacts DEF CreateModel
  <2>4. \A b \in Admins : Fresh(admin'[b], backend', models', rows', raced')
    <3>1. Fresh(admin'[a], backend', models', rows', raced')
      BY <2>3 DEF Fresh
    <3>2. \A b \in Admins \ {a}, n \in Models :
            ModelStep(admin[b], models[n], models'[n], n, raced')
      BY <2>1 DEF ModelStep
    <3> QED
      BY <2>1, <2>3, <3>1, <3>2, AllFresh DEF RowStep
  <2>5. ASSUME NEW f \in Endpoints PROVE RowOK(f, rows'[f], given'[f], models', raced')
    BY <2>1 DEF Sound, RowOK, Stored, Typed, RowsTyped, RowShape, ModelState
  <2>6. ASSUME NEW n \in Models PROVE ModelOK(n, models'[n], meant'[n], raced')
    BY <2>1, <2>2 DEF Sound, ModelOK, ModelState
  <2> QED
    BY <2>4, <2>5, <2>6 DEF Sound
<1>2. ASSUME NEW a \in Admins, NEW m \in Models, NEW on \in BOOLEAN, ToggleModel(a, m, on)
      PROVE  Sound'
  <2>1. /\ SetModel(a, m, on, TRUE) /\ rows' = rows /\ backend' = backend
        /\ Once(a)
    BY <1>2 DEF ToggleModel, SetModel
  <2>2. /\ \A f \in Endpoints : RowOK(f, rows'[f], given'[f], models', raced')
        /\ \A n \in Models : ModelOK(n, models'[n], meant'[n], raced')
        /\ raced \subseteq raced'
        /\ \A b \in Admins \ {a}, n \in Models :
              ModelStep(admin[b], models[n], models'[n], n, raced')
    BY <2>1, SetModelSound
  <2>3. /\ admin'[a].pc = "idle" /\ \A b \in Admins \ {a} : admin'[b] = admin[b]
    BY <2>1, MoveFacts
  <2>4. Fresh(admin'[a], backend', models', rows', raced')
    BY <2>3 DEF Fresh
  <2>5. \A b \in Admins : Fresh(admin'[b], backend', models', rows', raced')
    BY <2>1, <2>2, <2>3, <2>4, AllFresh DEF RowStep
  <2> QED
    BY <2>2, <2>5 DEF Sound
<1>3. ASSUME NEW a \in Admins, NEW m \in Models, NEW on \in BOOLEAN \cup {Unset},
             ReadModel(a, m, on)
      PROVE  Sound'
  <2>1. /\ admin'[a].pc = "update_model" /\ admin'[a].id = m
        /\ admin'[a].ask = [asked |-> on, seen |-> models[m] = "enabled"]
        /\ \A b \in Admins \ {a} : admin'[b] = admin[b]
    BY <1>3, MoveFacts DEF ReadModel
  <2>2. Fresh(admin'[a], backend, models, rows, raced)
    BY <2>1 DEF Fresh
  <2> QED
    BY <1>3, <2>1, <2>2, ReadsSound DEF ReadModel, tables, intent
<1>4. ASSUME NEW a \in Admins, NEW m \in Models, ReadForDelete(a, m) PROVE Sound'
  <2>1. /\ admin'[a].pc = IF backend = "sqlite" THEN "delete_endpoints" ELSE "delete_model"
        /\ \A b \in Admins \ {a} : admin'[b] = admin[b]
    BY <1>4, MoveFacts DEF ReadForDelete
  <2>2. Fresh(admin'[a], backend, models, rows, raced)
    BY <2>1 DEF Fresh
  <2> QED
    BY <1>4, <2>1, <2>2, ReadsSound DEF ReadForDelete, tables, intent
<1>5. ASSUME NEW a \in Admins, UpdateModel(a) PROVE Sound'
  <2> DEFINE ask == admin[a].ask
             m == admin[a].id
             on == Or(ask.asked, ask.seen)
  <2>1. /\ m \in Models /\ admin[a].pc = "update_model" /\ on \in BOOLEAN
    BY <1>5 DEF UpdateModel, At, Typed, AdminTyped, CallShape, Issued, Or
  <2>2. /\ SetModel(a, m, on, ask.asked # Unset) /\ rows' = rows /\ backend' = backend
        /\ Done(a)
    BY <1>5 DEF UpdateModel, SetModel
  <2>3. ~(ask.asked # Unset) /\ Exists(m) => m \in raced \/ on = (models[m] = "enabled")
    BY <2>1 DEF Sound, Fresh, Or, Exists, Stored
  <2>4. /\ \A f \in Endpoints : RowOK(f, rows'[f], given'[f], models', raced')
        /\ \A n \in Models : ModelOK(n, models'[n], meant'[n], raced')
        /\ raced \subseteq raced'
        /\ \A b \in Admins \ {a}, n \in Models :
              ModelStep(admin[b], models[n], models'[n], n, raced')
    BY <2>1, <2>2, <2>3, SetModelSound
  <2>5. /\ admin'[a].pc = "idle" /\ \A b \in Admins \ {a} : admin'[b] = admin[b]
    BY <2>2, MoveFacts
  <2>6. Fresh(admin'[a], backend', models', rows', raced')
    BY <2>5 DEF Fresh
  <2>7. \A b \in Admins : Fresh(admin'[b], backend', models', rows', raced')
    BY <2>2, <2>4, <2>5, <2>6, AllFresh DEF RowStep
  <2> QED
    BY <2>4, <2>7 DEF Sound
<1>6. ASSUME NEW a \in Admins, Abandon(a) PROVE Sound'
  <2>1. /\ admin'[a].pc = "idle" /\ \A b \in Admins \ {a} : admin'[b] = admin[b]
    BY <1>6, MoveFacts DEF Abandon
  <2>2. Fresh(admin'[a], backend, models, rows, raced)
    BY <2>1 DEF Fresh
  <2> QED
    BY <1>6, <2>1, <2>2, ReadsSound DEF Abandon, tables, intent
<1>7. ASSUME NEW a \in Admins, DeleteEndpoints(a) PROVE Sound'
  <2> DEFINE m == admin[a].id
  <2>1. /\ rows' = Removed(EndpointsOf(m)) /\ Writes(a, EndpointsOf(m) \cup {m})
        /\ Goto(a, "delete_model") /\ UNCHANGED <<backend, models, given, meant>>
    BY <1>7 DEF DeleteEndpoints, intent
  <2>2. raced \subseteq raced'
    BY <2>1, WritesFacts
  <2>3. /\ \A f \in Endpoints : RowOK(f, rows'[f], given'[f], models', raced')
        /\ \A f \in Endpoints : rows'[f] = rows[f] \/ rows'[f].st = "deleted"
    BY <2>1, <2>2, RemovesSound
  <2>4. /\ admin'[a].pc = "delete_model" /\ admin'[a].id = m
        /\ \A b \in Admins \ {a} : admin'[b] = admin[b]
    BY <2>1, MoveFacts
  <2>5. Fresh(admin'[a], backend', models', rows', raced')
    BY <2>1, <2>4 DEF Fresh, Removed, EndpointsOf, There, NoRow
  <2>6. \A b \in Admins : Fresh(admin'[b], backend', models', rows', raced')
    BY <2>1, <2>2, <2>3, <2>4, <2>5, AllFresh DEF RowStep, ModelStep
  <2>7. \A n \in Models : ModelOK(n, models'[n], meant'[n], raced')
    BY <2>1, <2>2 DEF Sound, ModelOK
  <2> QED
    BY <2>3, <2>6, <2>7 DEF Sound
<1>8. ASSUME NEW a \in Admins, DeleteModel(a) PROVE Sound'
  <2> DEFINE m == admin[a].id
             dragged == IF backend = "postgres" THEN EndpointsOf(m) ELSE {}
  <2>1. /\ m \in Models /\ admin[a].pc = "delete_model" /\ backend \in {"sqlite", "postgres"}
        /\ UNCHANGED <<backend, given, meant>>
    BY <1>8, EndpointAssumption DEF DeleteModel, At, Typed, AdminTyped, Issued, intent
  <2>2. CASE ~Exists(m)
    <3>1. /\ Done(a) /\ UNCHANGED <<models, rows, raced>>
      BY <1>8, <2>2 DEF DeleteModel, tables
    <3>2. /\ admin'[a].pc = "idle" /\ \A b \in Admins \ {a} : admin'[b] = admin[b]
      BY <3>1, MoveFacts
    <3>3. Fresh(admin'[a], backend, models, rows, raced)
      BY <3>2 DEF Fresh
    <3> QED
      BY <2>1, <3>1, <3>2, <3>3, ReadsSound
  <2>3. CASE Exists(m)
    <3>1. /\ models' = [models EXCEPT ![m] = "deleted"] /\ rows' = Removed(dragged)
          /\ Writes(a, dragged \cup {m}) /\ Done(a)
      BY <1>8, <2>3 DEF DeleteModel
    <3>2. raced \subseteq raced'
      BY <3>1, WritesFacts
    <3>3. \A n \in Models \ {m} : models'[n] = models[n]
      BY <3>1 DEF Typed
    <3>4. models'[m] = "deleted"
      BY <2>1, <3>1 DEF Typed
    <3>5. \A f \in Endpoints : rows'[f] = rows[f] \/ rows'[f].st = "deleted"
      BY <3>1 DEF Removed, NoRow
    <3>6. \A f \in Endpoints : rows'[f].st = "there" /\ rows'[f].model = m => m \in raced'
      <4>1. CASE backend = "postgres"
        BY <3>1, <4>1 DEF Removed, EndpointsOf, There, NoRow
      <4>2. CASE backend = "sqlite"
        <5>1. Fresh(admin[a], backend, models, rows, raced)
          BY DEF Sound
        <5> QED
          BY <2>1, <3>2, <3>5, <4>2, <5>1 DEF Fresh
      <4> QED
        BY <2>1, <4>1, <4>2
    <3>7. ASSUME NEW f \in Endpoints PROVE RowOK(f, rows'[f], given'[f], models', raced')
      BY <2>1, <3>2, <3>3, <3>5, <3>6 DEF Sound, RowOK, Typed, RowsTyped, RowShape
    <3>8. ASSUME NEW n \in Models PROVE ModelOK(n, models'[n], meant'[n], raced')
      BY <2>1, <3>2, <3>3, <3>4 DEF Sound, ModelOK, Stored
    <3>9. /\ admin'[a].pc = "idle" /\ \A b \in Admins \ {a} : admin'[b] = admin[b]
      BY <3>1, MoveFacts
    <3>10. Fresh(admin'[a], backend', models', rows', raced')
      BY <3>9 DEF Fresh
    <3>11. \A b \in Admins : Fresh(admin'[b], backend', models', rows', raced')
      <4>1. \A b \in Admins \ {a}, f \in Endpoints : RowStep(admin[b], rows[f], rows'[f], f, raced')
        BY <3>5 DEF RowStep
      <4>2. \A b \in Admins \ {a}, n \in Models :
              ModelStep(admin[b], models[n], models'[n], n, raced')
        BY <3>3, <3>4 DEF ModelStep
      <4> QED
        BY <2>1, <3>2, <3>9, <3>10, <4>1, <4>2, AllFresh
    <3> QED
      BY <3>7, <3>8, <3>11 DEF Sound
  <2> QED
    BY <2>2, <2>3
<1>9. ASSUME NEW a \in Admins, NEW m \in Models, NEW ask \in Creates, CreateEndpoint(a, m, ask)
      PROVE  Sound'
  <2>1. /\ admin'[a].pc = "insert" /\ \A b \in Admins \ {a} : admin'[b] = admin[b]
    BY <1>9, MoveFacts DEF CreateEndpoint
  <2>2. Fresh(admin'[a], backend, models, rows, raced)
    BY <2>1 DEF Fresh
  <2> QED
    BY <1>9, <2>1, <2>2, ReadsSound DEF CreateEndpoint, tables, intent
<1>10. ASSUME NEW a \in Admins, NEW e \in Endpoints, NEW ask \in Updates, ReadEndpoint(a, e, ask)
       PROVE  Sound'
  <2>1. /\ admin'[a].pc = "update_get" /\ admin'[a].id = e /\ admin'[a].ask = ask
        /\ \A b \in Admins \ {a} : admin'[b] = admin[b]
    BY <1>10, MoveFacts DEF ReadEndpoint
  <2>2. Fresh(admin'[a], backend, models, rows, raced)
    BY <1>10, <2>1 DEF Fresh, ReadEndpoint
  <2> QED
    BY <1>10, <2>1, <2>2, ReadsSound DEF ReadEndpoint, tables, intent
<1>11. ASSUME NEW a \in Admins, NEW e \in Endpoints, Insert(a, e) PROVE Sound'
  <2> DEFINE ask == admin[a].ask.ask
             m == admin[a].ask.model
  <2>1. /\ m \in Models /\ ask \in Creates /\ Validated(ask) /\ rows[e].st = "unissued"
        /\ UNCHANGED <<backend, models, meant>>
    BY <1>11 DEF Insert, At, Typed, AdminTyped, CallShape
  <2>2. CASE backend = "postgres" /\ ~Exists(m)
    <3>1. Done(a) /\ UNCHANGED <<rows, given, raced>>
      BY <1>11, <2>2 DEF Insert
    <3>2. /\ admin'[a].pc = "idle" /\ \A b \in Admins \ {a} : admin'[b] = admin[b]
      BY <3>1, MoveFacts
    <3>3. Fresh(admin'[a], backend, models, rows, raced)
      BY <3>2 DEF Fresh
    <3> QED
      BY <2>1, <3>1, <3>2, <3>3, ReadsSound
  <2>3. CASE ~(backend = "postgres" /\ ~Exists(m))
    <3>1. /\ rows'[e].st = "there" /\ rows'[e].model = m /\ rows'[e].type = ask.type
          /\ rows'[e].base_url = ask.base_url /\ rows'[e].enabled = ask.enabled
          /\ \A f \in Endpoints \ {e} : rows'[f] = rows[f]
      BY <1>11, <2>3 DEF Insert, Typed, RowsTyped
    <3>2. /\ given'[e].type = ask.type /\ given'[e].base_url = ask.base_url
          /\ given'[e].enabled = ask.enabled
          /\ \A f \in Endpoints \ {e} : given'[f] = given[f]
      BY <1>11, <2>3 DEF Insert, Typed, GivenTyped
    <3>3. /\ raced \subseteq raced'
          /\ Exists(m) \/ m \in raced'
          /\ \A b \in Admins \ {a} :
               admin[b].pc = "delete_model" /\ admin[b].id = m => m \in raced'
      BY <1>11, <2>3 DEF Insert
    <3>4. Done(a)
      BY <1>11, <2>3 DEF Insert
    <3>5. /\ admin'[a].pc = "idle" /\ \A b \in Admins \ {a} : admin'[b] = admin[b]
      BY <3>4, MoveFacts
    <3>6. Fresh(admin'[a], backend', models', rows', raced')
      BY <3>5 DEF Fresh
    <3>7. \A b \in Admins : Fresh(admin'[b], backend', models', rows', raced')
      <4>1. \A b \in Admins \ {a}, f \in Endpoints : RowStep(admin[b], rows[f], rows'[f], f, raced')
        BY <2>1, <3>1, <3>3 DEF RowStep
      <4> QED
        BY <2>1, <3>3, <3>5, <3>6, <4>1, AllFresh DEF ModelStep
    <3>8. RowOK(e, rows'[e], given'[e], models', raced')
      BY <2>1, <3>1, <3>2, <3>3 DEF RowOK, Validated, Exists, Stored
    <3>9. ASSUME NEW f \in Endpoints \ {e} PROVE RowOK(f, rows'[f], given'[f], models', raced')
      BY <2>1, <3>1, <3>2, <3>3 DEF Sound, RowOK
    <3>10. ASSUME NEW n \in Models PROVE ModelOK(n, models'[n], meant'[n], raced')
      BY <2>1, <3>3 DEF Sound, ModelOK
    <3> QED
      BY <3>7, <3>8, <3>9, <3>10 DEF Sound
  <2> QED
    BY <2>2, <2>3
<1>12. ASSUME NEW a \in Admins, NEW e \in Endpoints, ReadForToggle(a, e) PROVE Sound'
  <2>1. /\ admin'[a].pc = "toggle_write" /\ admin'[a].id = e
        /\ \A b \in Admins \ {a} : admin'[b] = admin[b]
    BY <1>12, MoveFacts DEF ReadForToggle
  <2>2. Fresh(admin'[a], backend, models, rows, raced)
    BY <1>12, <2>1 DEF Fresh, ReadForToggle
  <2> QED
    BY <1>12, <2>1, <2>2, ReadsSound DEF ReadForToggle, tables, intent
<1>13. ASSUME NEW a \in Admins, NEW e \in Endpoints, NEW on \in BOOLEAN, SetEnabled(a, e, on),
              on /\ There(e) => e \in raced \/ Validated(rows[e]),
              admin'[a].pc = "idle", \A b \in Admins \ {a} : admin'[b] = admin[b]
       PROVE  Sound'
  <2>1. /\ \A f \in Endpoints : RowOK(f, rows'[f], given'[f], models', raced')
        /\ raced \subseteq raced'
        /\ \A b \in Admins \ {a}, f \in Endpoints :
              RowStep(admin[b], rows[f], rows'[f], f, raced')
    BY <1>13, SetEnabledSound
  <2>2. Fresh(admin'[a], backend', models', rows', raced')
    BY <1>13 DEF Fresh
  <2>3. UNCHANGED <<backend, models, meant>>
    BY <1>13 DEF SetEnabled
  <2>4. \A b \in Admins : Fresh(admin'[b], backend', models', rows', raced')
    BY <1>13, <2>1, <2>2, <2>3, AllFresh DEF ModelStep
  <2>5. \A n \in Models : ModelOK(n, models'[n], meant'[n], raced')
    BY <2>1, <2>3 DEF Sound, ModelOK
  <2> QED
    BY <2>1, <2>4, <2>5 DEF Sound
<1>14. ASSUME NEW a \in Admins, NEW e \in Endpoints, ToggleOff(a, e) PROVE Sound'
  <2>1. admin'[a].pc = "idle" /\ \A b \in Admins \ {a} : admin'[b] = admin[b]
    BY <1>14, MoveFacts DEF ToggleOff
  <2>2. SetEnabled(a, e, FALSE)
    BY <1>14 DEF ToggleOff
  <2> QED
    BY <1>13, <2>1, <2>2
<1>15. ASSUME NEW a \in Admins, ToggleOn(a) PROVE Sound'
  <2>1. admin'[a].pc = "idle" /\ \A b \in Admins \ {a} : admin'[b] = admin[b]
    BY <1>15, MoveFacts DEF ToggleOn
  <2>2. admin[a].id \in Endpoints /\ admin[a].pc = "toggle_write"
    BY <1>15 DEF ToggleOn, At, Typed, AdminTyped, Issued
  <2>3. There(admin[a].id) => admin[a].id \in raced \/ Validated(rows[admin[a].id])
    BY <2>2 DEF Sound, Fresh, There
  <2>4. SetEnabled(a, admin[a].id, TRUE)
    BY <1>15 DEF ToggleOn
  <2> QED
    BY <1>13, <2>1, <2>2, <2>3, <2>4
<1>16. ASSUME NEW a \in Admins, NEW e \in Endpoints, DeleteEndpoint(a, e) PROVE Sound'
  <2>1. /\ rows' = Removed({e}) /\ Writes(a, {e}) /\ Once(a)
        /\ UNCHANGED <<backend, models, given, meant>>
    BY <1>16 DEF DeleteEndpoint, intent
  <2>2. raced \subseteq raced'
    BY <2>1, WritesFacts
  <2>3. /\ \A f \in Endpoints : RowOK(f, rows'[f], given'[f], models', raced')
        /\ \A f \in Endpoints : rows'[f] = rows[f] \/ rows'[f].st = "deleted"
    BY <2>1, <2>2, RemovesSound
  <2>4. /\ admin'[a].pc = "idle" /\ \A b \in Admins \ {a} : admin'[b] = admin[b]
    BY <2>1, MoveFacts
  <2>5. Fresh(admin'[a], backend', models', rows', raced')
    BY <2>4 DEF Fresh
  <2>6. \A b \in Admins : Fresh(admin'[b], backend', models', rows', raced')
    BY <2>1, <2>2, <2>3, <2>4, <2>5, AllFresh DEF RowStep, ModelStep
  <2>7. \A n \in Models : ModelOK(n, models'[n], meant'[n], raced')
    BY <2>1, <2>2 DEF Sound, ModelOK
  <2> QED
    BY <2>3, <2>6, <2>7 DEF Sound
<1>17. ASSUME NEW a \in Admins, GetEndpoint(a) PROVE Sound'
  <2> DEFINE e == admin[a].id
  <2>1. /\ e \in Endpoints /\ CallShape(admin[a]) /\ DOMAIN admin = Admins
        /\ admin[a].pc = "update_get" /\ Fresh(admin[a], backend, models, rows, raced)
    BY <1>17 DEF GetEndpoint, At, Typed, AdminTyped, Issued, Sound
  <2>2. CASE There(e)
    <3>1. PICK seen : seen = [type |-> rows[e].type, base_url |-> rows[e].base_url,
                              enabled |-> rows[e].enabled]
      OBVIOUS
    <3>2. /\ admin'[a] = [admin[a] EXCEPT !.pc = "update_write", !.seen = seen]
          /\ \A b \in Admins \ {a} : admin'[b] = admin[b]
      BY <1>17, <2>1, <2>2, <3>1 DEF GetEndpoint
    <3>3. /\ admin'[a].pc = "update_write" /\ admin'[a].id = e
          /\ admin'[a].ask = admin[a].ask /\ admin'[a].seen = seen
      BY <2>1, <3>2 DEF CallShape
    <3>4. /\ seen.type = rows[e].type /\ seen.base_url = rows[e].base_url
          /\ seen.enabled = rows[e].enabled
      BY <3>1
    <3>5. EffectiveRoutingPair(admin[a].ask, seen) = EffectiveRoutingPair(admin[a].ask, rows[e])
      BY <3>4 DEF EffectiveRoutingPair
    <3>6. Fresh(admin'[a], backend, models, rows, raced)
      BY <2>1, <2>2, <3>3, <3>4, <3>5 DEF Fresh, There
    <3> QED
      BY <1>17, <3>2, <3>6, ReadsSound DEF GetEndpoint, tables, intent
  <2>3. CASE ~There(e)
    <3>1. admin'[a].pc = "idle" /\ \A b \in Admins \ {a} : admin'[b] = admin[b]
      BY <1>17, <2>3, MoveFacts DEF GetEndpoint
    <3>2. Fresh(admin'[a], backend, models, rows, raced)
      BY <3>1 DEF Fresh
    <3> QED
      BY <1>17, <3>1, <3>2, ReadsSound DEF GetEndpoint, tables, intent
  <2> QED
    BY <2>2, <2>3
<1>18. ASSUME NEW a \in Admins, UpdateEndpoint(a) PROVE Sound'
  <2>1. /\ \A f \in Endpoints : RowOK(f, rows'[f], given'[f], models', raced')
        /\ raced \subseteq raced'
        /\ \A b \in Admins \ {a}, f \in Endpoints :
              RowStep(admin[b], rows[f], rows'[f], f, raced')
    BY <1>18, UpdateSound
  <2>2. admin'[a].pc = "idle" /\ \A b \in Admins \ {a} : admin'[b] = admin[b]
    BY <1>18, MoveFacts DEF UpdateEndpoint
  <2>3. UNCHANGED <<backend, models, meant>>
    BY <1>18 DEF UpdateEndpoint
  <2>4. Fresh(admin'[a], backend', models', rows', raced')
    BY <2>2 DEF Fresh
  <2>5. \A b \in Admins : Fresh(admin'[b], backend', models', rows', raced')
    BY <2>1, <2>2, <2>3, <2>4, AllFresh DEF ModelStep
  <2>6. \A n \in Models : ModelOK(n, models'[n], meant'[n], raced')
    BY <2>1, <2>3 DEF Sound, ModelOK
  <2> QED
    BY <2>1, <2>5, <2>6 DEF Sound
<1>19. ASSUME NEW c \in Ciphers \cup {None}, Restart(c) PROVE Sound'
  BY <1>19 DEF Restart, Sound, Fresh, Idle, tables, intent
<1> QED
  BY <1>0, <1>1, <1>2, <1>3, <1>4, <1>5, <1>6, <1>7, <1>8, <1>9, <1>10, <1>11, <1>12, <1>14,
     <1>15, <1>16, <1>17, <1>18, <1>19
  DEF Next, ModelCall, EndpointCall

(* The tables stay sound.                                                  *)
LEMMA SoundAlways == Spec => [](Typed /\ Sound)
  BY InitTyped, InitSound, TypedNext, SoundNext, PTL DEF Spec

(* endpoint_is_routable and the registry's validate agree.                 *)
LEMMA SameRule == ASSUME NEW row PROVE EndpointIsRoutable(row) <=> Validated(row)
  BY DEF EndpointIsRoutable, Validated, Build, RegisteredTypes, Trimmed

(* The catalogue and the next rebuild agree.                               *)
LEMMA CatalogueAgrees == Typed => CatalogueServed
<1> SUFFICES ASSUME Typed PROVE CatalogueServed
  OBVIOUS
<1>1. \A e \in Endpoints : There(e) => rows[e].model \in Models
  BY DEF Typed, RowsTyped, RowShape, There
<1>2. \A e \in Endpoints : EndpointIsRoutable(rows[e]) <=> Validated(rows[e])
  BY SameRule
<1> QED
  BY <1>1, <1>2 DEF CatalogueServed, Listed, Buildable

(* No endpoint outlives its model and every enabled endpoint can be built, *)
(* but for a race that is on record or a row of an earlier version: the    *)
(* cascade in two statements, and validations made against a row that is   *)
(* read again before it is written.  The catalogue always offers exactly   *)
(* the models that a rebuild of the tables would serve.                    *)
THEOREM RowsStaySound == Spec => []RowsSound
<1>1. Typed /\ Sound => NoOrphans /\ EnabledBuildable
  BY DEF Typed, RowsTyped, RowShape, Sound, RowOK, NoOrphans, EnabledBuildable,
         There, Exists, Stored
<1>2. Typed /\ Sound => RowsSound
  BY <1>1, CatalogueAgrees DEF RowsSound
<1> QED
  BY <1>2, SoundAlways, PTL

(* No update, toggle or restart undoes what an operator said last, unless  *)
(* two calls overlapped on the object.                                     *)
THEOREM LastWordStands == Spec => []LastWordHolds
<1>1. Typed /\ Sound => LastWordHolds
  BY DEF Typed, RowsTyped, RowShape, Sound, RowOK, ModelOK, LastWordHolds, There, Exists, Stored
<1> QED
  BY <1>1, SoundAlways, PTL
=============================================================================
