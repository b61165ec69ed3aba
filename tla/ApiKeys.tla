------------------------------ MODULE ApiKeys -------------------------------
(***************************************************************************)
(* The API key store behind its three backends.  In memory a key is an     *)
(* entry of `keys` and an entry of the index `keys_by_key`, two concurrent *)
(* maps changed one after the other; in SQL it is one row, but an update   *)
(* reads the row and writes all of it back, and SQLite reads a row again   *)
(* after writing it.                                                       *)
(*                                                                         *)
(* A stored value or a presented token is a string: [hashed, secret] with  *)
(* the number of times the secret was hashed.  0 is the secret itself (in  *)
(* the table: a row written before hashing was introduced), 1 what the     *)
(* store keeps, 2 the hash of a kept hash that somebody presents.  Of a    *)
(* row, the fields that decide a validation are kept; the others travel    *)
(* with `expires`.                                                         *)
(***************************************************************************)
EXTENDS Integers, FiniteSets

CONSTANTS Ids, NoId,
          Admins,       \* concurrent calls of the admin API
          Validators,   \* concurrent requests being authenticated
          MaxSecrets,   \* bound on secrets generated
          MaxUses,      \* bound on uses of a key
          Backends,     \* backends StoreBackend::new may choose
          SqlMayFail    \* may a SQL statement fail?

ASSUME KeysAssumption ==
  /\ IsFiniteSet(Ids) /\ NoId \notin Ids
  /\ MaxSecrets \in Nat \ {0} /\ MaxUses \in Nat
  /\ Backends \subseteq {"memory", "postgres", "sqlite"}
  /\ SqlMayFail \in BOOLEAN

Secrets == 1..MaxSecrets

VARIABLES backend,
          keys,         \* the map or table, by id
          keys_by_key,  \* the index of the memory store
          admin, val,   \* admin calls and validations in progress
          issued,       \* secrets generated so far
          created,      \* ids given out so far
          shown,        \* history: secrets replied in plaintext
          unread,       \* history: secrets SQLite stored and could not reply
          accepted,     \* history: validations accepted, by id
          revoked,      \* history: ids revoked or deleted, not enabled since
          overlapped    \* history: ids two rotations or deletes overlapped on

store == <<keys, keys_by_key>>
history == <<shown, unread, accepted, revoked, overlapped>>
vars == <<backend, store, admin, val, issued, created, history>>

Plain(s) == [hashed |-> 0, secret |-> s]
Hash(string) == [string EXCEPT !.hashed = @ + 1]

NoRow == [key |-> Plain(0), enabled |-> FALSE, expires |-> "never",
          usage_count |-> 0]
Exists(id) == keys[id] # NoRow

IdleAdmin == [pc |-> "idle", id |-> NoId, row |-> NoRow, secret |-> 0,
              enable |-> "keep"]
IdleVal == [pc |-> "idle", token |-> Plain(0), id |-> NoId]

(* StoreBackend::new connects to the database it is told to, or falls back *)
(* to memory.  A table may hold a key from before hashing.                 *)
Init ==
  /\ backend \in Backends
  /\ \E legacy \in {{}} \cup {{i} : i \in Ids} :
       /\ backend = "memory" => legacy = {}
       /\ created = legacy
       /\ issued = Cardinality(legacy)
       /\ shown = 1..issued
       /\ keys = [i \in Ids |-> IF i \in legacy
                    THEN [NoRow EXCEPT !.key = Plain(1), !.enabled = TRUE]
                    ELSE NoRow]
  /\ keys_by_key = [s \in Secrets |-> NoId]
  /\ admin = [a \in Admins |-> IdleAdmin]
  /\ val = [v \in Validators |-> IdleVal]
  /\ unread = {}
  /\ accepted = [i \in Ids |-> 0]
  /\ revoked = {}
  /\ overlapped = {}

-----------------------------------------------------------------------------
(* Parts of the operations, the same in every backend.                     *)

At(a, pc) == admin[a].pc = pc
Goto(a, pc) == admin' = [admin EXCEPT ![a].pc = pc]
Done(a) == admin' = [admin EXCEPT ![a] = IdleAdmin]

(* The call goes on at pc, about to reply secret s (0: a masked key).      *)
Continue(a, pc, id, row, s) ==
  admin' = [admin EXCEPT ![a] = [pc |-> pc, id |-> id, row |-> row,
                                 secret |-> s, enable |-> "keep"]]

(* The secret of this very call leaves the store in plaintext.             *)
Reveal(s) == shown' = shown \cup {s}

generate_api_key == issued < MaxSecrets /\ issued' = issued + 1

(* What create stores, under an id nobody had before.                      *)
Insert(id, expires) ==
  /\ created' = created \cup {id}
  /\ keys' = [keys EXCEPT ![id] =
                [key |-> Hash(Plain(issued')), enabled |-> TRUE,
                 expires |-> expires, usage_count |-> 0]]

(* What an update request leaves of a row: every field that is given.      *)
Merged(row, enable, expires) ==
  [row EXCEPT !.enabled = IF enable = "keep" THEN @ ELSE enable = "on",
              !.expires = IF expires = "keep" THEN @ ELSE expires]

Enables == {"keep", "on", "off"}
Expiries == {"keep", "never", "future"}

(* One of the calls has read the row of a key and will write it back.      *)
Copied(calls, id) ==
  \E a \in Admins :
    /\ calls[a].id = id
    /\ calls[a].pc \in {"rotate_unindex", "rotate_insert", "pg_write",
                        "sqlite_write"}

(* The operator has revoked or deleted a key, or enabled it again.  What   *)
(* is done while another call is about to write its copy of the row may be *)
(* undone by it, and is not counted.                                       *)
Remember(id, enable) ==
  revoked' = IF enable = "on" THEN revoked \ {id}
             ELSE IF enable = "off" /\ ~Copied(admin', id) THEN revoked \cup {id}
             ELSE revoked

(* A second call starts to change the index entries of the same key.       *)
Overlap(id) ==
  overlapped' = IF \E a \in Admins : admin[a].id = id
                THEN overlapped \cup {id} ELSE overlapped

Remove(id) == keys' = [keys EXCEPT ![id] = NoRow]

(* UPDATE ... SET key = hash of the new secret.                            *)
SetKey(id) == keys' = [keys EXCEPT ![id].key = Hash(Plain(issued'))]

(* Mutant of WriteRow: the columns validations write are written back too. *)
WriteWholeRow(id, row, enable) ==
  IF Exists(id)
  THEN keys' = [keys EXCEPT ![id] = row] /\ Remember(id, enable)
  ELSE UNCHANGED <<keys, revoked>>

(* UPDATE ... SET every column but key and usage, if the row still exists. *)
WriteRow(id, row, enable) ==
  IF Exists(id)
  THEN /\ keys' = [keys EXCEPT ![id].enabled = row.enabled,
                               ![id].expires = row.expires]
       /\ Remember(id, enable)
  ELSE UNCHANGED <<keys, revoked>>

Usable(row) == row # NoRow /\ row.enabled /\ row.expires # "past"

(* An entry is used: count it.                                             *)
Use(v, id, key) ==
  /\ keys' = [keys EXCEPT ![id].usage_count = @ + 1, ![id].key = key]
  /\ accepted' = [accepted EXCEPT ![id] = @ + 1]
  /\ val' = [val EXCEPT ![v].pc = "accepted", ![v].id = id]

Refused(v) ==
  /\ val' = [val EXCEPT ![v].pc = "refused", ![v].id = NoId]
  /\ UNCHANGED <<keys, accepted>>

-----------------------------------------------------------------------------
(* The store in memory.                                                    *)

Create(a) ==
  /\ backend = "memory" /\ At(a, "idle") /\ generate_api_key
  /\ \E id \in Ids \ created, expires \in {"never", "future"} :
       Insert(id, expires) /\ Continue(a, "index", id, NoRow, issued')
  /\ UNCHANGED <<backend, keys_by_key, val, history>>

(* Last step of create and rotate.                                         *)
Index(a) ==
  /\ At(a, "index")
  /\ keys_by_key' = [keys_by_key EXCEPT ![admin[a].secret] = admin[a].id]
  /\ Reveal(admin[a].secret)
  /\ Done(a)
  /\ UNCHANGED <<backend, keys, val, issued, created, unread, accepted,
                 revoked, overlapped>>

(* The entry is changed under its lock.                                    *)
Update(a) ==
  /\ backend = "memory" /\ At(a, "idle")
  /\ UNCHANGED <<backend, keys_by_key, admin, val, issued, created, shown,
                 unread, accepted, overlapped>>
  /\ \E id \in created, enable \in Enables, expires \in Expiries :
       /\ Exists(id)
       /\ keys' = [keys EXCEPT ![id] = Merged(@, enable, expires)]
       /\ Remember(id, enable)

Delete(a) ==
  /\ backend = "memory" /\ At(a, "idle")
  /\ \E id \in created :
       /\ Exists(id)
       /\ Remove(id)
       /\ Overlap(id)
       /\ Continue(a, "unindex", id, keys[id], 0)
       /\ Remember(id, "off")
  /\ UNCHANGED <<backend, keys_by_key, val, issued, created, shown, unread,
                 accepted>>

Unindex(a) ==
  /\ At(a, "unindex")
  /\ keys_by_key' = [keys_by_key EXCEPT ![admin[a].row.key.secret] = NoId]
  /\ Done(a)
  /\ UNCHANGED <<backend, keys, val, issued, created, history>>

Revoke(a) ==
  /\ backend = "memory" /\ At(a, "idle")
  /\ UNCHANGED <<backend, keys_by_key, admin, val, issued, created, shown,
                 unread, accepted, overlapped>>
  /\ \E id \in created :
       /\ Exists(id)
       /\ keys' = [keys EXCEPT ![id].enabled = FALSE]
       /\ Remember(id, "off")

(* Clone the entry, take the old hash out of the index, insert the clone   *)
(* with the new hash, index it.                                            *)
Rotate(a) ==
  /\ backend = "memory" /\ At(a, "idle") /\ generate_api_key
  /\ \E id \in created :
       /\ Exists(id)
       /\ Overlap(id)
       /\ Continue(a, "rotate_unindex", id, keys[id], issued')
  /\ UNCHANGED <<backend, store, val, created, shown, unread, accepted,
                 revoked>>

(* Mutant of RotateUnindex: the old hash stays in the index.               *)
RotateKeepsOldHash(a) ==
  /\ At(a, "rotate_unindex")
  /\ Goto(a, "rotate_insert")
  /\ UNCHANGED <<backend, store, val, issued, created, history>>

RotateUnindex(a) ==
  /\ At(a, "rotate_unindex")
  /\ keys_by_key' = [keys_by_key EXCEPT ![admin[a].row.key.secret] = NoId]
  /\ Goto(a, "rotate_insert")
  /\ UNCHANGED <<backend, keys, val, issued, created, history>>

(* Mutant of RotateInsert: a rotation starts a fresh, enabled entry.       *)
RotateInsertsEnabled(a) ==
  /\ At(a, "rotate_insert")
  /\ keys' = [keys EXCEPT ![admin[a].id] =
                [admin[a].row EXCEPT !.key = Hash(Plain(admin[a].secret)),
                                     !.enabled = TRUE]]
  /\ Continue(a, "index", admin[a].id, NoRow, admin[a].secret)
  /\ UNCHANGED <<backend, keys_by_key, val, issued, created, history>>

RotateInsert(a) ==
  /\ At(a, "rotate_insert")
  /\ keys' = [keys EXCEPT ![admin[a].id] =
                [admin[a].row EXCEPT !.key = Hash(Plain(admin[a].secret))]]
  /\ Continue(a, "index", admin[a].id, NoRow, admin[a].secret)
  /\ UNCHANGED <<backend, keys_by_key, val, issued, created, history>>

(* validate: the index, then the entry under its lock.                     *)
Lookup(v) ==
  /\ backend = "memory" /\ val[v].pc = "lookup"
  /\ LET hash == Hash(val[v].token)
         id == IF hash.hashed = 1 THEN keys_by_key[hash.secret] ELSE NoId
     IN  val' = [val EXCEPT ![v].pc = IF id = NoId THEN "refused" ELSE "check",
                            ![v].id = id]
  /\ UNCHANGED <<backend, store, admin, issued, created, history>>

Check(v) ==
  /\ val[v].pc = "check"
  /\ LET id == val[v].id IN
       IF Usable(keys[id]) THEN Use(v, id, keys[id].key) ELSE Refused(v)
  /\ UNCHANGED <<backend, keys_by_key, admin, issued, created, shown, unread,
                 revoked, overlapped>>

-----------------------------------------------------------------------------
(* Postgres: one statement each, but for update.                           *)

PgCreate(a) ==
  /\ backend = "postgres" /\ At(a, "idle") /\ generate_api_key
  /\ \E id \in Ids \ created, expires \in {"never", "future"} :
       Insert(id, expires)
  /\ Reveal(issued')
  /\ UNCHANGED <<backend, keys_by_key, admin, val, unread, accepted,
                 revoked, overlapped>>

PgUpdate(a) ==
  /\ backend = "postgres" /\ At(a, "idle")
  /\ \E id \in created, enable \in Enables, expires \in Expiries :
       /\ Exists(id)
       /\ admin' = [admin EXCEPT ![a] =
            [pc |-> "pg_write", id |-> id, secret |-> 0, enable |-> enable,
             row |-> Merged(keys[id], enable, expires)]]
  /\ UNCHANGED <<backend, store, val, issued, created, history>>

PgWriteBack(a) ==
  /\ At(a, "pg_write")
  /\ Done(a)
  /\ WriteRow(admin[a].id, admin[a].row, admin[a].enable)
  /\ UNCHANGED <<backend, keys_by_key, val, issued, created, shown, unread,
                 accepted, overlapped>>

PgDelete(a) ==
  /\ backend = "postgres" /\ At(a, "idle")
  /\ UNCHANGED <<backend, keys_by_key, admin, val, issued, created, shown,
                 unread, accepted, overlapped>>
  /\ \E id \in created : Exists(id) /\ Remove(id) /\ Remember(id, "off")

PgRevoke(a) ==
  /\ backend = "postgres" /\ At(a, "idle")
  /\ UNCHANGED <<backend, keys_by_key, admin, val, issued, created, shown,
                 unread, accepted, overlapped>>
  /\ \E id \in created :
       /\ Exists(id)
       /\ keys' = [keys EXCEPT ![id].enabled = FALSE]
       /\ Remember(id, "off")

(* Mutant of PgRotate: the reply is built from the row as it was.          *)
PgRotateRepliesOld(a) ==
  /\ backend = "postgres" /\ At(a, "idle") /\ generate_api_key
  /\ \E id \in created :
       Exists(id) /\ SetKey(id) /\ Reveal(keys[id].key.secret)
  /\ UNCHANGED <<backend, keys_by_key, admin, val, created, unread, accepted,
                 revoked, overlapped>>

PgRotate(a) ==
  /\ backend = "postgres" /\ At(a, "idle") /\ generate_api_key
  /\ \E id \in created : Exists(id) /\ SetKey(id)
  /\ Reveal(issued')
  /\ UNCHANGED <<backend, keys_by_key, admin, val, created, unread, accepted,
                 revoked, overlapped>>

(* The row a token matches: by its hash or, only for a row that was never  *)
(* hashed, as it is.                                                       *)
Matches(token, row) ==
  \/ row.key = Hash(token)
  \/ row.key = token /\ row.key.hashed = 0

(* One statement: match, test, count, and upgrade a legacy row.            *)
MatchAndUse(v) ==
  LET token == val[v].token
      found == {i \in Ids : Usable(keys[i]) /\ Matches(token, keys[i])}
  IN  IF found = {} THEN Refused(v)
      ELSE \E id \in found : Use(v, id, Hash(token))

PgValidate(v) ==
  /\ backend = "postgres" /\ val[v].pc = "lookup"
  /\ MatchAndUse(v)
  /\ UNCHANGED <<backend, keys_by_key, admin, issued, created, shown, unread,
                 revoked, overlapped>>

-----------------------------------------------------------------------------
(* SQLite: create, update and rotate select the row again to reply it.     *)

SqliteCreate(a) ==
  /\ backend = "sqlite" /\ At(a, "idle") /\ generate_api_key
  /\ \E id \in Ids \ created, expires \in {"never", "future"} :
       Insert(id, expires) /\ Continue(a, "reread", id, NoRow, issued')
  /\ UNCHANGED <<backend, keys_by_key, val, history>>

SqliteUpdate(a) ==
  /\ backend = "sqlite" /\ At(a, "idle")
  /\ \E id \in created, enable \in Enables, expires \in Expiries :
       /\ Exists(id)
       /\ admin' = [admin EXCEPT ![a] =
            [pc |-> "sqlite_write", id |-> id, secret |-> 0, enable |-> enable,
             row |-> Merged(keys[id], enable, expires)]]
  /\ UNCHANGED <<backend, store, val, issued, created, history>>

SqliteWriteBack(a) ==
  /\ At(a, "sqlite_write")
  /\ Continue(a, "reread", admin[a].id, NoRow, 0)
  /\ WriteRow(admin[a].id, admin[a].row, admin[a].enable)
  /\ UNCHANGED <<backend, keys_by_key, val, issued, created, shown, unread,
                 accepted, overlapped>>

SqliteDelete(a) ==
  /\ backend = "sqlite" /\ At(a, "idle")
  /\ UNCHANGED <<backend, keys_by_key, admin, val, issued, created, shown,
                 unread, accepted, overlapped>>
  /\ \E id \in created : Exists(id) /\ Remove(id) /\ Remember(id, "off")

SqliteRevoke(a) ==
  /\ backend = "sqlite" /\ At(a, "idle")
  /\ UNCHANGED <<backend, keys_by_key, admin, val, issued, created, shown,
                 unread, accepted, overlapped>>
  /\ \E id \in created :
       /\ Exists(id)
       /\ keys' = [keys EXCEPT ![id].enabled = FALSE]
       /\ Remember(id, "off")

SqliteRotate(a) ==
  /\ backend = "sqlite" /\ At(a, "idle") /\ generate_api_key
  /\ \E id \in created :
       /\ Exists(id) /\ SetKey(id)
       /\ Continue(a, "reread", id, NoRow, issued')
  /\ UNCHANGED <<backend, keys_by_key, val, created, history>>

Lose(secret) == unread' = IF secret = 0 THEN unread ELSE unread \cup {secret}

(* The row may be gone by then, and with it the secret of this call.       *)
Reread(a) ==
  /\ At(a, "reread")
  /\ IF admin[a].secret # 0 /\ Exists(admin[a].id)
     THEN Reveal(admin[a].secret) /\ UNCHANGED unread
     ELSE Lose(admin[a].secret) /\ UNCHANGED shown
  /\ Done(a)
  /\ UNCHANGED <<backend, store, val, issued, created, accepted, revoked,
                 overlapped>>

SqliteValidate(v) ==
  /\ backend = "sqlite" /\ val[v].pc = "lookup"
  /\ MatchAndUse(v)
  /\ UNCHANGED <<backend, keys_by_key, admin, issued, created, shown, unread,
                 revoked, overlapped>>

-----------------------------------------------------------------------------
(* A statement fails and the call ends with an error.                      *)
StatementFails(a) ==
  /\ SqlMayFail
  /\ admin[a].pc \in {"reread", "pg_write", "sqlite_write"}
  /\ Lose(admin[a].secret)
  /\ Done(a)
  /\ UNCHANGED <<backend, store, val, issued, created, shown, accepted,
                 revoked, overlapped>>

(* A request presents a secret or, with a leaked table, a stored string.   *)
Present(v) ==
  /\ val[v].pc = "idle" /\ \A id \in Ids : accepted[id] < MaxUses
  /\ \E token \in [hashed : {0, 1}, secret : 1..issued] :
       val' = [val EXCEPT ![v] = [IdleVal EXCEPT !.pc = "lookup",
                                                 !.token = token]]
  /\ UNCHANGED <<backend, store, admin, issued, created, history>>

(* The database fails the request (authenticate replies 500).              *)
ValidateFails(v) ==
  /\ SqlMayFail /\ backend # "memory" /\ val[v].pc = "lookup"
  /\ Refused(v)
  /\ UNCHANGED <<backend, keys_by_key, admin, issued, created, shown, unread,
                 revoked, overlapped>>

Answer(v) ==
  /\ val[v].pc \in {"accepted", "refused"}
  /\ val' = [val EXCEPT ![v] = IdleVal]
  /\ UNCHANGED <<backend, store, admin, issued, created, history>>

(* Time passes the expiry of a key.                                        *)
Expire ==
  /\ \E id \in created :
       /\ keys[id].expires = "future"
       /\ keys' = [keys EXCEPT ![id].expires = "past"]
  /\ UNCHANGED <<backend, keys_by_key, admin, val, issued, created, history>>

AdminStep(a) ==
  \/ Create(a) \/ Index(a) \/ Update(a) \/ Delete(a) \/ Unindex(a)
  \/ Revoke(a) \/ Rotate(a) \/ RotateUnindex(a) \/ RotateInsert(a)
  \/ PgCreate(a) \/ PgUpdate(a) \/ PgWriteBack(a) \/ PgDelete(a)
  \/ PgRevoke(a) \/ PgRotate(a)
  \/ SqliteCreate(a) \/ SqliteUpdate(a) \/ SqliteWriteBack(a)
  \/ SqliteDelete(a) \/ SqliteRevoke(a) \/ SqliteRotate(a) \/ Reread(a)
  \/ StatementFails(a)

Validate(v) ==
  \/ Present(v) \/ Lookup(v) \/ Check(v) \/ PgValidate(v)
  \/ SqliteValidate(v) \/ ValidateFails(v) \/ Answer(v)

Next ==
  \/ \E a \in Admins : AdminStep(a)
  \/ \E v \in Validators : Validate(v)
  \/ Expire

Spec == Init /\ [][Next]_vars

-----------------------------------------------------------------------------
(* Types of the store's maps and of the calls in progress.                 *)
Strings == [hashed : {0, 1}, secret : 0..MaxSecrets]
Rows == [key : Strings, enabled : BOOLEAN,
         expires : {"never", "future", "past"}, usage_count : Nat]

TypeOK ==
  /\ keys \in [Ids -> Rows]
  /\ keys_by_key \in [Secrets -> Ids \cup {NoId}]
  /\ \A a \in Admins : admin[a].row \in Rows /\ admin[a].secret \in 0..issued
  /\ \A v \in Validators : val[v].token \in Strings
  /\ issued \in 0..MaxSecrets
  /\ shown \subseteq 1..issued /\ unread \subseteq 1..issued
  /\ accepted \in [Ids -> Nat]
  /\ revoked \subseteq created /\ overlapped \subseteq created

Quiet == \A a \in Admins : At(a, "idle")

(* Between admin calls the secret of every key has been told to an         *)
(* operator, unless SQLite stored it and failed to read the row again.     *)
SecretKnown ==
  Quiet => \A id \in Ids : Exists(id) =>
             keys[id].key.secret \in shown \cup unread

(* usage_count counts the accepted validations.  In memory a rotation that *)
(* cloned the entry before a use writes the older count back.              *)
UsageCounted ==
  \A id \in Ids : Exists(id) =>
    /\ keys[id].usage_count <= accepted[id]
    /\ backend # "memory" => keys[id].usage_count = accepted[id]

(* What the table says of a key is so: its secret, and its uses.           *)
RowsHonest == SecretKnown /\ UsageCounted

(* A key that was revoked or deleted and not enabled again is not          *)
(* accepted, whatever update, rotation or expiry comes in between, of      *)
(* whichever operator.  Only a call that had read the row before and       *)
(* writes it back afterwards may bring the key back: rotate in memory      *)
(* inserts its clone, update in SQL sets every column to what it read.     *)
RevocationHolds ==
  [][\A v \in Validators :
       (val[v].pc # "accepted" /\ val'[v].pc = "accepted") =>
         val'[v].id \notin revoked]_vars

(* What a caller of validate sees is a store in which a key has one secret *)
(* at a time and a withdrawn secret never comes back.  Two rotations of a  *)
(* key that overlap in memory leave it with two.                           *)
Holder ==
  [s \in Secrets |->
     IF backend = "memory" THEN keys_by_key[s]
     ELSE IF \E i \in Ids : keys[i].key.secret = s
          THEN CHOOSE i \in Ids : keys[i].key.secret = s
          ELSE NoId]

Contract == INSTANCE KeyContract WITH
  holder <- Holder,
  granted <- IF backend = "memory" THEN shown ELSE 1..issued,
  usable <- {i \in Ids : Usable(keys[i])},
  overlapped <- overlapped,
  call <- [v \in Validators |->
             [pc |-> val[v].pc, id |-> val[v].id,
              secret |-> IF val[v].token.hashed = 0 THEN val[v].token.secret
                                                    ELSE 0]]

(* Every backend implements the contract of the key store.                 *)
ImplementsContract == Contract!Spec
=============================================================================
