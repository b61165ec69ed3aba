---------------------------- MODULE EndpointStore ---------------------------
(***************************************************************************)
(* The model and endpoint tables behind the admin API, on SQLite and on    *)
(* Postgres: every admin call statement by statement, several calls at     *)
(* once, with statements that fail, clients that hang up, and restarts     *)
(* under another PROVIDER_ENCRYPTION_KEY.                                  *)
(*                                                                         *)
(* A stored key is None or [under, secret]: the text itself when under is  *)
(* None, else its encryption under that key.  Ids are UUIDs and are never  *)
(* issued twice.  A call is over here with its last statement: the rebuild *)
(* of the routing that follows it touches no table and is the subject of   *)
(* Routing.                                                                *)
(*                                                                         *)
(* given and meant are history: what an operator last asked for.  raced are*)
(* the models and endpoints one call wrote while another was between its   *)
(* read and its write.                                                     *)
(***************************************************************************)
EXTENDS ProviderRegistry, Naturals, FiniteSets

CONSTANTS Models, Endpoints,
          Admins,        \* concurrent calls of the admin API
          Backends,      \* backends connect_model_stores may choose
          Ciphers,       \* encryption keys the process may be started with
          Creates,       \* what a create asks: [type, base_url, api_key, enabled]
          Updates,       \* what an update asks: the same, Unset where it says nothing
          LegacyRows,    \* [type, base_url, api_key, enabled] from before this version
          Forbidden,     \* base URLs provider_url_is_allowed refuses
          Unset,         \* a field the request leaves out
          MaxCalls,      \* bound: admin calls begun
          MaxBoots       \* bound: starts of the process

ASSUME EndpointAssumption ==
  /\ Models \cap Endpoints = {}
  /\ Backends \subseteq {"sqlite", "postgres"}
  /\ None \notin Ciphers /\ Unset # None
  /\ \A ask \in Creates : ask.enabled \in BOOLEAN
  /\ \A ask \in Updates : ask.enabled \in BOOLEAN \cup {Unset}
  /\ MaxCalls \in Nat /\ MaxBoots \in Nat \ {0}

VARIABLES backend, cipher, models, rows, admin, given, meant, raced,
          calls, boots   \* admin calls begun, starts of the process

tables == <<models, rows>>
intent == <<given, meant>>
vars == <<backend, cipher, tables, admin, intent, raced, calls, boots>>

-----------------------------------------------------------------------------
(* Encryption at rest.                                                     *)

(* encrypt_endpoint_api_key: nothing to encrypt with, or nothing to        *)
(* encrypt, is passed through.                                             *)
Encrypt(c, api_key) ==
  IF api_key = None THEN None
  ELSE [under |-> IF api_key = "" THEN None ELSE c, secret |-> api_key]

(* A ciphertext handed on as if it were a key.                             *)
Ciphertext == "enc:v1:"

(* An earlier version stored its keys by the same function, or in the      *)
(* clear; no stored key reads "no key".                                    *)
ASSUME StoredKeyAssumption ==
  /\ \A r \in LegacyRows :
       /\ r.enabled \in BOOLEAN
       /\ r.api_key # None =>
            /\ r.api_key = Encrypt(r.api_key.under, r.api_key.secret)
            /\ r.api_key.under \in Ciphers \cup {None}
  /\ \A ask \in Creates \cup Updates : \A c \in Ciphers \cup {None} :
       Encrypt(c, ask.api_key) = None => ask.api_key = None

(* decrypt_endpoint: a text without the prefix is taken as it is, a failure*)
(* clears the field; without a cipher every text is taken as it is.        *)
Decrypt(c, stored) ==
  CASE stored = None -> None
    [] stored # None /\ stored.under = None -> stored.secret
    [] stored # None /\ stored.under # None /\ c = stored.under -> stored.secret
    [] stored # None /\ stored.under \notin {None, c} ->
         IF c = None THEN Ciphertext ELSE None

-----------------------------------------------------------------------------
(* What the tables mean.                                                   *)

NoRow(st) == [st |-> st, model |-> None, type |-> None, base_url |-> None,
              api_key |-> None, enabled |-> FALSE]

Exists(m) == models[m] \in {"enabled", "disabled"}

There(e) == rows[e].st = "there"

(* The endpoints the next rebuild turns into targets.                      *)
Buildable ==
  {e \in Endpoints : /\ There(e) /\ rows[e].enabled
                     /\ models[rows[e].model] = "enabled"
                     /\ Validated(rows[e])}

(* Mutant of EndpointIsRoutable: a blank address counts as one.            *)
EndpointIsRoutableBlank(row) == row.type \in RegisteredTypes \/ row.base_url # None

(* endpoint_is_routable, the catalogue's own copy of the registry's rule.  *)
EndpointIsRoutable(row) ==
  row.type \in RegisteredTypes \/ Trimmed(row.base_url) # None

(* list_enabled_models_for_api.                                            *)
Listed ==
  {m \in Models : /\ models[m] = "enabled"
                  /\ \E e \in Endpoints : /\ There(e) /\ rows[e].enabled
                                          /\ rows[e].model = m
                                          /\ EndpointIsRoutable(rows[e])}

-----------------------------------------------------------------------------
Idle == [pc |-> "idle", id |-> None, ask |-> None, seen |-> None]

Said(row) == [type |-> row.type, base_url |-> row.base_url, enabled |-> row.enabled,
              secret |-> IF row.api_key = None THEN None ELSE row.api_key.secret,
              under |-> IF row.api_key = None THEN None ELSE row.api_key.under,
              legacy |-> TRUE]

(* A process has started on a database an earlier version left behind.     *)
Init ==
  /\ backend \in Backends
  /\ cipher \in Ciphers \cup {None}
  /\ models \in [Models -> {"unissued", "enabled"}]
  /\ rows \in [Endpoints ->
                 {NoRow("unissued")} \cup
                 {[st |-> "there", model |-> m, type |-> r.type, base_url |-> r.base_url,
                   api_key |-> r.api_key, enabled |-> r.enabled] :
                     m \in Models, r \in LegacyRows}]
  /\ \A e \in Endpoints : There(e) => Exists(rows[e].model)
  /\ admin = [a \in Admins |-> Idle]
  /\ given = [e \in Endpoints |-> Said(rows[e])]
  /\ meant = [m \in Models |-> models[m] = "enabled"]
  /\ raced = {}
  /\ calls = 0 /\ boots = 1

At(a, pc) == admin[a].pc = pc

Goto(a, pc) == admin' = [admin EXCEPT ![a].pc = pc] /\ UNCHANGED <<calls, boots>>

Done(a) == admin' = [admin EXCEPT ![a] = Idle] /\ UNCHANGED <<calls, boots>>

(* A call arrives: what it does before its first await is part of it.      *)
Call(a, pc, id, ask) ==
  /\ At(a, "idle") /\ calls < MaxCalls
  /\ admin' = [admin EXCEPT ![a] = [Idle EXCEPT !.pc = pc, !.id = id, !.ask = ask]]
  /\ calls' = calls + 1 /\ UNCHANGED boots

(* A call of one statement.                                                *)
Once(a) ==
  /\ At(a, "idle") /\ calls < MaxCalls
  /\ calls' = calls + 1 /\ UNCHANGED <<admin, boots>>

Pending == {"insert", "update_get", "update_write", "toggle_write",
            "update_model", "delete_endpoints", "delete_model"}

(* The object a call works on.                                             *)
Subject(b) == IF At(b, "insert") THEN admin[b].ask.model ELSE admin[b].id

(* Call a writes the objects of S.                                         *)
Writes(a, S) ==
  raced' = raced \cup {x \in S : \E b \in Admins \ {a} : admin[b].pc \in Pending
                                                         /\ Subject(b) = x}

-----------------------------------------------------------------------------
(* Models.                                                                 *)

(* unwrap_or.                                                              *)
Or(asked, current) == IF asked = Unset THEN current ELSE asked

ModelState(on) == IF on THEN "enabled" ELSE "disabled"

CreateModel(a, m, on) ==
  /\ models[m] = "unissued"
  /\ Once(a)
  /\ models' = [models EXCEPT ![m] = ModelState(on)]
  /\ meant' = [meant EXCEPT ![m] = on]
  /\ UNCHANGED <<backend, cipher, rows, given, raced>>

(* update: the row is read, merged with the request and written back.      *)
ReadModel(a, m, on) ==
  /\ Exists(m)
  /\ Call(a, "update_model", m, [asked |-> on, seen |-> models[m] = "enabled"])
  /\ UNCHANGED <<backend, cipher, tables, intent, raced>>

(* UPDATE changes nothing when the row is gone.                            *)
SetModel(a, m, on, said) ==
  /\ models' = [models EXCEPT ![m] = IF Exists(m) THEN ModelState(on) ELSE @]
  /\ meant' = [meant EXCEPT ![m] = IF said THEN on ELSE @]
  /\ Writes(a, {m})
  /\ UNCHANGED <<backend, cipher, rows, given>>

UpdateModel(a) ==
  /\ At(a, "update_model")
  /\ LET ask == admin[a].ask IN
       SetModel(a, admin[a].id, Or(ask.asked, ask.seen), ask.asked # Unset)
  /\ Done(a)

ToggleModel(a, m, on) ==
  /\ Exists(m)
  /\ Once(a)
  /\ SetModel(a, m, on, TRUE)

(* delete: an enabled model is a conflict.                                 *)
ReadForDelete(a, m) ==
  /\ models[m] = "disabled"
  /\ Call(a, IF backend = "sqlite" THEN "delete_endpoints" ELSE "delete_model", m, None)
  /\ UNCHANGED <<backend, cipher, tables, intent, raced>>

EndpointsOf(m) == {e \in Endpoints : There(e) /\ rows[e].model = m}

Removed(S) == [e \in Endpoints |-> IF e \in S THEN NoRow("deleted") ELSE rows[e]]

(* Mutant of DeleteEndpoints: the cascade is left to the database.         *)
DeleteEndpointsForgotten(a) ==
  /\ At(a, "delete_endpoints")
  /\ Goto(a, "delete_model")
  /\ UNCHANGED <<backend, cipher, tables, intent, raced>>

(* SQLite has no foreign key: the endpoints go first, in a statement of    *)
(* their own.                                                              *)
DeleteEndpoints(a) ==
  /\ At(a, "delete_endpoints")
  /\ LET m == admin[a].id IN
       /\ rows' = Removed(EndpointsOf(m))
       /\ Writes(a, EndpointsOf(m) \cup {m})
  /\ Goto(a, "delete_model")
  /\ UNCHANGED <<backend, cipher, models, intent>>

(* On Postgres the endpoints go with the row.                              *)
DeleteModel(a) ==
  /\ At(a, "delete_model")
  /\ LET m == admin[a].id
         dragged == IF backend = "postgres" THEN EndpointsOf(m) ELSE {} IN
       IF Exists(m)
       THEN /\ models' = [models EXCEPT ![m] = "deleted"]
            /\ rows' = Removed(dragged)
            /\ Writes(a, dragged \cup {m})
            /\ Done(a)
       ELSE Done(a) /\ UNCHANGED <<tables, raced>>
  /\ UNCHANGED <<backend, cipher, intent>>

-----------------------------------------------------------------------------
(* Endpoints.                                                              *)

(* UpdateModelEndpointRequest::effective_routing_pair.                     *)
EffectiveRoutingPair(ask, row) ==
  [type |-> Or(ask.type, row.type), base_url |-> Or(ask.base_url, row.base_url)]

(* The handler has validated the pair and the URL, and the store has found *)
(* the model.                                                              *)
CreateEndpoint(a, m, ask) ==
  /\ Validated(ask) /\ ask.base_url \notin Forbidden
  /\ Exists(m)
  /\ Call(a, "insert", None, [ask |-> ask, model |-> m])
  /\ UNCHANGED <<backend, cipher, tables, intent, raced>>

(* On Postgres the foreign key refuses an endpoint whose model is gone.    *)
Insert(a, e) ==
  /\ At(a, "insert") /\ rows[e].st = "unissued"
  /\ LET ask == admin[a].ask.ask
         m == admin[a].ask.model
         row == [st |-> "there", model |-> m, type |-> ask.type,
                 base_url |-> ask.base_url, enabled |-> ask.enabled,
                 api_key |-> Encrypt(cipher, ask.api_key)] IN
       IF backend = "postgres" /\ ~Exists(m)
       THEN Done(a) /\ UNCHANGED <<rows, given, raced>>
       ELSE /\ rows' = [rows EXCEPT ![e] = row]
            /\ given' = [given EXCEPT ![e] =
                 [type |-> ask.type, base_url |-> ask.base_url, enabled |-> ask.enabled,
                  secret |-> ask.api_key, under |-> cipher, legacy |-> FALSE]]
            /\ raced' = IF Exists(m) /\ \A b \in Admins \ {a} :
                             ~(admin[b].pc = "delete_model" /\ admin[b].id = m)
                        THEN raced ELSE raced \cup {m}
            /\ Done(a)
  /\ UNCHANGED <<backend, cipher, models, meant>>

(* Mutant of ReadEndpoint: the request's fields are validated on their own.*)
ReadEndpointInIsolation(a, e, ask) ==
  /\ There(e)
  /\ ask.type # Unset => Validated([type |-> ask.type, base_url |-> Or(ask.base_url, rows[e].base_url)])
  /\ ask.base_url \notin Forbidden
  /\ Call(a, "update_get", e, ask)
  /\ UNCHANGED <<backend, cipher, tables, intent, raced>>

(* update_model_endpoint: the pair the update would produce is validated   *)
(* against the row as it is now, and a new base URL is checked.            *)
ReadEndpoint(a, e, ask) ==
  /\ There(e)
  /\ Validated(EffectiveRoutingPair(ask, rows[e]))
  /\ ask.base_url \notin Forbidden
  /\ Call(a, "update_get", e, ask)
  /\ UNCHANGED <<backend, cipher, tables, intent, raced>>

(* The store's update reads the row once more.                             *)
GetEndpoint(a) ==
  /\ At(a, "update_get")
  /\ LET row == rows[admin[a].id] IN
       IF There(admin[a].id)
       THEN /\ admin' = [admin EXCEPT ![a].pc = "update_write",
                  ![a].seen = [type |-> row.type, base_url |-> row.base_url,
                               enabled |-> row.enabled]]
            /\ UNCHANGED <<calls, boots>>
       ELSE Done(a)
  /\ UNCHANGED <<backend, cipher, tables, intent, raced>>

(* Mutant of Merged: the key is written back as it was read.               *)
MergedKeyReadBack(row, ask, seen) ==
  LET k == Decrypt(cipher, row.api_key) IN
  [row EXCEPT !.type = Or(ask.type, seen.type),
              !.base_url = Or(ask.base_url, seen.base_url),
              !.enabled = Or(ask.enabled, seen.enabled),
              !.api_key = Encrypt(cipher, IF ask.api_key = Unset THEN k ELSE ask.api_key)]

(* Mutant of Merged: what the request does not say is on.                  *)
MergedDefaultsOn(row, ask, seen) ==
  [row EXCEPT !.type = Or(ask.type, seen.type),
              !.base_url = Or(ask.base_url, seen.base_url),
              !.enabled = Or(ask.enabled, TRUE),
              !.api_key = IF ask.api_key = Unset THEN @ ELSE Encrypt(cipher, ask.api_key)]

(* The row the UPDATE leaves: every column from the request or from the    *)
(* read, but the key only from the request.                                *)
Merged(row, ask, seen) ==
  [row EXCEPT !.type = Or(ask.type, seen.type),
              !.base_url = Or(ask.base_url, seen.base_url),
              !.enabled = Or(ask.enabled, seen.enabled),
              !.api_key = IF ask.api_key = Unset THEN @ ELSE Encrypt(cipher, ask.api_key)]

UpdateEndpoint(a) ==
  /\ At(a, "update_write")
  /\ LET e == admin[a].id
         ask == admin[a].ask IN
       IF There(e)
       THEN /\ rows' = [rows EXCEPT ![e] = Merged(@, ask, admin[a].seen)]
            /\ given' = [given EXCEPT ![e] =
                 [type |-> Or(ask.type, @.type), base_url |-> Or(ask.base_url, @.base_url),
                  enabled |-> Or(ask.enabled, @.enabled), secret |-> Or(ask.api_key, @.secret),
                  under |-> IF ask.api_key = Unset THEN @.under ELSE cipher,
                  legacy |-> FALSE]]
            /\ Writes(a, {e})
       ELSE UNCHANGED <<rows, given, raced>>
  /\ Done(a)
  /\ UNCHANGED <<backend, cipher, models, meant>>

(* toggle_model_endpoint: turning on validates the row first.              *)
ReadForToggle(a, e) ==
  /\ There(e) /\ Validated(rows[e])
  /\ Call(a, "toggle_write", e, None)
  /\ UNCHANGED <<backend, cipher, tables, intent, raced>>

SetEnabled(a, e, on) ==
  /\ IF There(e)
     THEN /\ rows' = [rows EXCEPT ![e].enabled = on]
          /\ given' = [given EXCEPT ![e].enabled = on, ![e].legacy = FALSE]
          /\ Writes(a, {e})
     ELSE UNCHANGED <<rows, given, raced>>
  /\ UNCHANGED <<backend, cipher, models, meant>>

ToggleOn(a) ==
  /\ At(a, "toggle_write")
  /\ SetEnabled(a, admin[a].id, TRUE)
  /\ Done(a)

ToggleOff(a, e) ==
  /\ There(e)
  /\ Once(a)
  /\ SetEnabled(a, e, FALSE)

DeleteEndpoint(a, e) ==
  /\ There(e)
  /\ Once(a)
  /\ rows' = Removed({e})
  /\ Writes(a, {e})
  /\ UNCHANGED <<backend, cipher, models, intent>>

-----------------------------------------------------------------------------
(* After the call.                                                         *)

(* A statement fails, or the client hangs up and the handler is dropped.   *)
Abandon(a) ==
  /\ ~At(a, "idle")
  /\ Done(a)
  /\ UNCHANGED <<backend, cipher, tables, intent, raced>>

(* CipherKey::from_env at start.                                           *)
Restart(c) ==
  /\ boots < MaxBoots
  /\ boots' = boots + 1
  /\ cipher' = c
  /\ admin' = [a \in Admins |-> Idle]
  /\ UNCHANGED <<backend, tables, intent, raced, calls>>

ModelCall(a) ==
  \/ \E m \in Models, on \in BOOLEAN : CreateModel(a, m, on) \/ ToggleModel(a, m, on)
  \/ \E m \in Models, on \in BOOLEAN \cup {Unset} : ReadModel(a, m, on)
  \/ \E m \in Models : ReadForDelete(a, m)
  \/ UpdateModel(a) \/ DeleteEndpoints(a) \/ DeleteModel(a)

EndpointCall(a) ==
  \/ \E m \in Models, ask \in Creates : CreateEndpoint(a, m, ask)
  \/ \E e \in Endpoints, ask \in Updates : ReadEndpoint(a, e, ask)
  \/ \E e \in Endpoints : \/ Insert(a, e) \/ ReadForToggle(a, e)
                          \/ ToggleOff(a, e) \/ DeleteEndpoint(a, e)
  \/ GetEndpoint(a) \/ UpdateEndpoint(a) \/ ToggleOn(a)

Next ==
  \/ \E a \in Admins : ModelCall(a) \/ EndpointCall(a) \/ Abandon(a)
  \/ \E c \in Ciphers \cup {None} : Restart(c)

Spec == Init /\ [][Next]_vars

-----------------------------------------------------------------------------
(* Properties.                                                             *)

(* Types; a row that is not there has no contents, and an empty key is     *)
(* never encrypted.                                                        *)
TypeOK ==
  /\ backend \in Backends /\ cipher \in Ciphers \cup {None}
  /\ \A m \in Models : models[m] \in {"unissued", "enabled", "disabled", "deleted"}
  /\ \A e \in Endpoints :
       \/ rows[e] \in {NoRow("unissued"), NoRow("deleted")}
       \/ /\ rows[e].st = "there" /\ rows[e].model \in Models
          /\ rows[e].api_key # None =>
               rows[e].api_key.under \in IF rows[e].api_key.secret = "" THEN {None}
                                         ELSE Ciphers \cup {None}
          /\ rows[e].enabled \in BOOLEAN
  /\ \A a \in Admins : admin[a].pc \in Pending \cup {"idle"}
  /\ raced \subseteq Models \cup Endpoints

(* Every endpoint has its model (the cascade of ModelStore::delete, in two *)
(* statements on SQLite that a crash may separate), unless it was created  *)
(* while the model was being deleted.                                      *)
NoOrphans ==
  \A e \in Endpoints : There(e) => Exists(rows[e].model) \/ rows[e].model \in raced

(* What an operator last said of a model or an endpoint still holds: no    *)
(* later update, toggle or restart undoes a field it did not name, unless  *)
(* two calls overlapped (the read-merge-write of both update functions).   *)
LastWordHolds ==
  /\ \A m \in Models : Exists(m) => m \in raced \/ (models[m] = "enabled") = meant[m]
  /\ \A e \in Endpoints : There(e) =>
       \/ e \in raced
       \/ /\ rows[e].type = given[e].type
          /\ rows[e].base_url = given[e].base_url
          /\ rows[e].enabled = given[e].enabled

(* The key last given for an endpoint is in the table, whatever was        *)
(* restarted, overlapped or could not be decrypted since: under the        *)
(* PROVIDER_ENCRYPTION_KEY it was encrypted under it is read back, under   *)
(* another it reads as absent, never as ciphertext (decrypt_endpoint, and  *)
(* the UPDATE without the key column).  It is encrypted if and only if the *)
(* process that it was given to could encrypt: a key stored in the clear   *)
(* stays in the clear through every later update and toggle that names no  *)
(* key, although docs/configuration.md says such rows are "transparently   *)
(* re-encrypted the next time they're updated".                            *)
KeySurvives ==
  \A e \in Endpoints : There(e) =>
    /\ rows[e].api_key = Encrypt(given[e].under, given[e].secret)
    /\ \A c \in Ciphers :
         Decrypt(c, rows[e].api_key) =
           IF given[e].under \in {None, c} \/ given[e].secret = "" THEN given[e].secret
           ELSE None

(* An enabled endpoint can be built, so that it serves what the admin UI   *)
(* shows, unless an earlier version stored it or two calls overlapped      *)
(* (update_model_endpoint's validation of the merged pair, and the check   *)
(* when toggling on).                                                      *)
EnabledBuildable ==
  \A e \in Endpoints : There(e) /\ rows[e].enabled =>
    Validated(rows[e]) \/ given[e].legacy \/ e \in raced

(* GET /v1/models names exactly the models the next rebuild gives a target:*)
(* endpoint_is_routable repeats the registry's rule, also for rows of an   *)
(* earlier version, blank addresses and unknown types.                     *)
CatalogueServed == Listed = {rows[e].model : e \in Buildable}

(* The rows of the tables are fit to be routed by, and the catalogue read  *)
(* from them offers what can be served: in every state of two overlapping  *)
(* or abandoned calls, since a rebuild may read the tables in any.         *)
RowsSound == NoOrphans /\ EnabledBuildable /\ CatalogueServed

=============================================================================
