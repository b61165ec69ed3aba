--------------------------- MODULE ApiKeysProofs ----------------------------
(***************************************************************************)
(* What the API key store guarantees for any number of keys, secrets,      *)
(* operators and requests being authenticated.                             *)
(***************************************************************************)
EXTENDS ApiKeys, FiniteSetTheorems, TLAPS

-----------------------------------------------------------------------------
(* The shapes of the state.                                                *)

CallPcs == {"idle", "index", "unindex", "rotate_unindex", "rotate_insert", "pg_write",
            "sqlite_write", "reread"}
Calls == [pc : CallPcs, id : Ids \cup {NoId}, row : Rows, secret : 0..MaxSecrets,
          enable : Enables]
Requests == [pc : {"idle", "lookup", "check", "accepted", "refused"}, token : Strings,
             id : Ids \cup {NoId}]

(* A call knows what it works on: the index and the rotation the key they  *)
(* change and its secret, the write-backs the row they update.             *)
CallOK(c, b, n, cr) ==
  /\ c.secret <= n
  /\ c.pc \in {"index", "rotate_unindex", "rotate_insert"} =>
       b = "memory" /\ c.id \in Ids /\ c.secret # 0
  /\ c.pc \in {"rotate_unindex", "rotate_insert"} => c.id \in cr
  /\ c.pc = "unindex" => b = "memory" /\ c.id \in Ids
  /\ c.pc \in {"unindex", "rotate_unindex", "rotate_insert"} => c.row.key.secret \in 1..n
  /\ c.pc \in {"pg_write", "sqlite_write"} => b # "memory" /\ c.id \in Ids /\ c.secret = 0
  /\ c.pc = "reread" => b # "memory" /\ c.id \in Ids

(* A request past its lookup has found a key.                              *)
RequestOK(q, b, n) ==
  /\ q.token.secret <= n
  /\ q.pc = "lookup" => q.token.secret # 0
  /\ q.pc = "check" => b = "memory" /\ q.id \in Ids

(* An entry has a secret that was generated; what is not there has none.   *)
RowOK(r, n) == r # NoRow => r.key.secret \in 1..n

KeysPart(ks, n, cr) ==
  /\ ks \in [Ids -> Rows]
  /\ \A i \in Ids : RowOK(ks[i], n) /\ (ks[i] # NoRow => i \in cr)

AdminPart(ad, b, n, cr) ==
  /\ ad \in [Admins -> Calls]
  /\ \A a \in Admins : CallOK(ad[a], b, n, cr)

ValPart(vl, b, n) ==
  /\ vl \in [Validators -> Requests]
  /\ \A v \in Validators : RequestOK(vl[v], b, n)

Shaped ==
  /\ backend \in Backends
  /\ issued \in 0..MaxSecrets /\ created \subseteq Ids
  /\ KeysPart(keys, issued, created)
  /\ keys_by_key \in [Secrets -> Ids \cup {NoId}]
  /\ AdminPart(admin, backend, issued, created)
  /\ ValPart(val, backend, issued)
  /\ shown \subseteq 1..issued /\ unread \subseteq 1..issued
  /\ accepted \in [Ids -> Nat]
  /\ revoked \subseteq created /\ overlapped \subseteq created

(* The constant rows and strings.                                          *)
LEMMA Constants ==
  /\ Plain(0) \in Strings /\ NoRow \in Rows
  /\ IdleAdmin \in Calls /\ IdleVal \in Requests
  BY KeysAssumption DEF Plain, Strings, NoRow, Rows, IdleAdmin, Calls, CallPcs, Enables,
     IdleVal, Requests

(* The store starts empty, or with one key from before hashing.            *)
LEMMA InitShaped == Init => Shaped
<1> SUFFICES ASSUME Init PROVE Shaped
  OBVIOUS
<1> USE KeysAssumption
<1>1. PICK legacy \in {{}} \cup {{i} : i \in Ids} :
        /\ created = legacy /\ issued = Cardinality(legacy) /\ shown = 1..issued
        /\ keys = [i \in Ids |-> IF i \in legacy
                    THEN [NoRow EXCEPT !.key = Plain(1), !.enabled = TRUE]
                    ELSE NoRow]
  BY DEF Init
<1>2. issued \in 0..1 /\ created \subseteq Ids /\ (created # {} => issued = 1)
  <2>1. CASE legacy = {}
    BY <1>1, <2>1, FS_EmptySet
  <2>2. CASE \E i \in Ids : legacy = {i}
    <3>1. PICK i \in Ids : legacy = {i}
      BY <2>2
    <3>2. Cardinality({i}) = 1
      BY FS_Singleton
    <3> QED
      BY <1>1, <3>1, <3>2
  <2> QED
    BY <2>1, <2>2
<1>3. PICK r : r = [NoRow EXCEPT !.key = Plain(1), !.enabled = TRUE]
  OBVIOUS
<1>4. r \in Rows /\ r.key = Plain(1) /\ Plain(1).secret = 1
  <2>1. r = [key |-> r.key, enabled |-> r.enabled, expires |-> r.expires,
             usage_count |-> r.usage_count]
    BY <1>3 DEF NoRow
  <2>2. r.key = Plain(1) /\ r.enabled = TRUE /\ r.expires = "never" /\ r.usage_count = 0
    BY <1>3 DEF NoRow
  <2>3. Plain(1) \in Strings /\ Plain(1).secret = 1
    BY DEF Plain, Strings
  <2>4. PICK k : k = Plain(1)
    OBVIOUS
  <2>5. r = [key |-> k, enabled |-> TRUE, expires |-> "never", usage_count |-> 0]
    BY <2>1, <2>2, <2>4
  <2> QED
    BY <2>2, <2>3, <2>4, <2>5 DEF Rows
<1>5. keys \in [Ids -> Rows] /\ \A i \in Ids : keys[i] = IF i \in created THEN r ELSE NoRow
  BY <1>1, <1>3, <1>4, Constants
<1>6. KeysPart(keys, issued, created)
  BY <1>2, <1>4, <1>5 DEF RowOK, KeysPart
<1>7. \A a \in Admins : CallOK(admin[a], backend, issued, created)
  BY <1>2 DEF Init, CallOK, IdleAdmin
<1>8. \A v \in Validators : RequestOK(val[v], backend, issued)
  BY <1>2 DEF Init, RequestOK, IdleVal, Plain
<1>9. AdminPart(admin, backend, issued, created) /\ ValPart(val, backend, issued)
  BY <1>7, <1>8, Constants DEF Init, AdminPart, ValPart
<1>10. /\ backend \in Backends /\ shown \subseteq 1..issued /\ unread \subseteq 1..issued
       /\ keys_by_key \in [Secrets -> Ids \cup {NoId}]
       /\ accepted \in [Ids -> Nat] /\ revoked \subseteq created /\ overlapped \subseteq created
  BY <1>1 DEF Init
<1> QED
  BY <1>2, <1>6, <1>9, <1>10 DEF Shaped

-----------------------------------------------------------------------------
(* What the statements leave.                                              *)

Expiry == {"never", "future", "past"}
Row(key, on, expires, n) ==
  [key |-> key, enabled |-> on, expires |-> expires, usage_count |-> n]

(* A row is its four fields.                                               *)
LEMMA RowIs ==
  /\ \A r \in Rows : /\ r = Row(r.key, r.enabled, r.expires, r.usage_count)
                     /\ r.key \in Strings /\ r.enabled \in BOOLEAN /\ r.expires \in Expiry
                     /\ r.usage_count \in Nat
  /\ \A key \in Strings, on \in BOOLEAN, expires \in Expiry, n \in Nat :
       /\ Row(key, on, expires, n) \in Rows
       /\ Row(key, on, expires, n).key = key /\ Row(key, on, expires, n).enabled = on
       /\ Row(key, on, expires, n).expires = expires
       /\ Row(key, on, expires, n).usage_count = n
  BY DEF Rows, Row, Expiry

(* The hash of a secret.                                                   *)
LEMMA HashIs ==
  ASSUME NEW t \in Strings
  PROVE  Hash(t) = [hashed |-> t.hashed + 1, secret |-> t.secret]
  BY DEF Strings, Hash

(* What create and rotate store.                                           *)
LEMMA HashedSecret ==
  ASSUME NEW s \in 0..MaxSecrets
  PROVE  /\ Hash(Plain(s)) \in Strings /\ Hash(Plain(s)).secret = s
         /\ Hash(Plain(s)).hashed = 1
<1>1. Plain(s) \in Strings /\ Plain(s).secret = s /\ Plain(s).hashed = 0
  BY DEF Plain, Strings
<1>2. Hash(Plain(s)) = [hashed |-> 1, secret |-> s]
  BY <1>1, HashIs
<1> QED
  BY <1>2 DEF Strings

(* The assignments of the statements, one row at a time.                   *)
LEMMA Edits ==
  ASSUME keys \in [Ids -> Rows], NEW i \in Ids, NEW key, NEW on, NEW ex
  PROVE  /\ [keys EXCEPT ![i].enabled = on] =
              [keys EXCEPT ![i] = Row(keys[i].key, on, keys[i].expires, keys[i].usage_count)]
         /\ [keys EXCEPT ![i].expires = ex] =
              [keys EXCEPT ![i] = Row(keys[i].key, keys[i].enabled, ex, keys[i].usage_count)]
         /\ [keys EXCEPT ![i].key = key] =
              [keys EXCEPT ![i] = Row(key, keys[i].enabled, keys[i].expires, keys[i].usage_count)]
<1>1. PICK r : r = keys[i]
  OBVIOUS
<1>2. r = Row(r.key, r.enabled, r.expires, r.usage_count) /\ DOMAIN keys = Ids
  BY <1>1, RowIs
<1>3. [r EXCEPT !.enabled = on] = Row(r.key, on, r.expires, r.usage_count)
  BY <1>2 DEF Row
<1>4. [r EXCEPT !.expires = ex] = Row(r.key, r.enabled, ex, r.usage_count)
  BY <1>2 DEF Row
<1>5. [r EXCEPT !.key = key] = Row(key, r.enabled, r.expires, r.usage_count)
  BY <1>2 DEF Row
<1>8. /\ [keys EXCEPT ![i].enabled = on] = [keys EXCEPT ![i] = [r EXCEPT !.enabled = on]]
      /\ [keys EXCEPT ![i].expires = ex] = [keys EXCEPT ![i] = [r EXCEPT !.expires = ex]]
      /\ [keys EXCEPT ![i].key = key] = [keys EXCEPT ![i] = [r EXCEPT !.key = key]]
  BY <1>1, <1>2
<1> QED
  BY <1>1, <1>3, <1>4, <1>5, <1>8

(* The columns an update writes.                                           *)
LEMMA EditTwo ==
  ASSUME keys \in [Ids -> Rows], NEW i \in Ids, NEW on, NEW ex
  PROVE  [keys EXCEPT ![i].enabled = on, ![i].expires = ex] =
           [keys EXCEPT ![i] = Row(keys[i].key, on, ex, keys[i].usage_count)]
<1>1. PICK r : r = keys[i]
  OBVIOUS
<1>2. r = Row(r.key, r.enabled, r.expires, r.usage_count) /\ DOMAIN keys = Ids
  BY <1>1, RowIs
<1>3. PICK q : q = [r EXCEPT !.enabled = on, !.expires = ex]
  OBVIOUS
<1>4. q = [key |-> q.key, enabled |-> q.enabled, expires |-> q.expires,
           usage_count |-> q.usage_count]
  BY <1>2, <1>3 DEF Row
<1>5. q.key = r.key /\ q.enabled = on /\ q.expires = ex /\ q.usage_count = r.usage_count
  BY <1>2, <1>3 DEF Row
<1>6. [keys EXCEPT ![i].enabled = on, ![i].expires = ex] = [keys EXCEPT ![i] = q]
  BY <1>1, <1>2, <1>3
<1>7. q = Row(r.key, on, ex, r.usage_count)
  BY <1>4, <1>5 DEF Row
<1> QED
  BY <1>1, <1>6, <1>7

(* The columns a validation writes.                                        *)
LEMMA EditUse ==
  ASSUME keys \in [Ids -> Rows], NEW i \in Ids, NEW key \in Strings, NEW v,
         Use(v, i, key)
  PROVE  \E r \in Rows : /\ keys' = [keys EXCEPT ![i] = r] /\ r.enabled = keys[i].enabled
                        /\ r.expires = keys[i].expires
                        /\ r.key = key /\ r.usage_count = keys[i].usage_count + 1
<1>1. PICK r : r = keys[i]
  OBVIOUS
<1>2. r = Row(r.key, r.enabled, r.expires, r.usage_count) /\ DOMAIN keys = Ids /\ r \in Rows
  BY <1>1, RowIs
<1>3. PICK n \in Nat : n = r.usage_count + 1
  BY <1>2, RowIs
<1>4. PICK q : q = [r EXCEPT !.usage_count = n, !.key = key]
  OBVIOUS
<1>5. q = [key |-> q.key, enabled |-> q.enabled, expires |-> q.expires,
           usage_count |-> q.usage_count]
  BY <1>2, <1>4 DEF Row
<1>6. q.key = key /\ q.enabled = r.enabled /\ q.expires = r.expires /\ q.usage_count = n
  BY <1>2, <1>4 DEF Row
<1>7. keys' = [keys EXCEPT ![i] = q]
  BY <1>1, <1>2, <1>3, <1>4 DEF Use
<1>8. q \in Rows
  <2>1. q = Row(key, r.enabled, r.expires, n)
    BY <1>5, <1>6 DEF Row
  <2>2. r.enabled \in BOOLEAN /\ r.expires \in Expiry
    BY <1>2, RowIs
  <2> QED
    BY <2>1, <2>2, RowIs
<1> QED
  BY <1>1, <1>3, <1>6, <1>7, <1>8

(* What an update request leaves of a row.                                 *)
LEMMA MergedIs ==
  ASSUME NEW r \in Rows, NEW enable \in Enables, NEW expires \in Expiries
  PROVE  /\ Merged(r, enable, expires) \in Rows
         /\ Merged(r, enable, expires).key = r.key
         /\ Merged(r, enable, expires).usage_count = r.usage_count
         /\ Merged(r, enable, expires).enabled =
              IF enable = "keep" THEN r.enabled ELSE enable = "on"
<1> DEFINE on == IF enable = "keep" THEN r.enabled ELSE enable = "on"
           ex == IF expires = "keep" THEN r.expires ELSE expires
<1>1. PICK q : q = Merged(r, enable, expires)
  OBVIOUS
<1>2. r = [key |-> r.key, enabled |-> r.enabled, expires |-> r.expires,
           usage_count |-> r.usage_count]
  BY RowIs DEF Row
<1>3. q = [key |-> q.key, enabled |-> q.enabled, expires |-> q.expires,
           usage_count |-> q.usage_count]
  BY <1>1, <1>2 DEF Merged
<1>4. q.key = r.key /\ q.expires = ex /\ q.usage_count = r.usage_count
  BY <1>1, <1>2 DEF Merged
<1>5. q.enabled = on
  BY <1>1, <1>2 DEF Merged
<1>6. on \in BOOLEAN /\ ex \in Expiry /\ r.key \in Strings /\ r.usage_count \in Nat
  BY RowIs DEF Expiries, Expiry
<1>7. q \in Rows
  <2>1. q = Row(r.key, on, ex, r.usage_count)
    BY <1>3, <1>4, <1>5 DEF Row
  <2> QED
    BY <1>6, <2>1, RowIs
<1> QED
  BY <1>1, <1>4, <1>5, <1>7

(* Secrets and ids are only ever added.                                    *)
Grows ==
  /\ backend' = backend
  /\ issued' \in 0..MaxSecrets /\ issued <= issued'
  /\ created \subseteq created' /\ created' \subseteq Ids

(* A row is written.                                                       *)
LEMMA PutRow ==
  ASSUME Shaped, Grows, NEW i \in Ids, NEW r \in Rows, keys' = [keys EXCEPT ![i] = r],
         r # NoRow => r.key.secret \in 1..issued' /\ i \in created'
  PROVE  KeysPart(keys', issued', created')
  BY DEF Shaped, Grows, KeysPart, RowOK

(* The rows are left alone.                                                *)
LEMMA SameRows ==
  ASSUME Shaped, Grows, keys' = keys
  PROVE  KeysPart(keys', issued', created')
  BY DEF Shaped, Grows, KeysPart, RowOK

(* What holds of a call goes on to hold.                                   *)
LEMMA CallLasts ==
  ASSUME NEW c \in Calls, NEW b, NEW n \in Nat, NEW n2 \in Nat, n <= n2,
         NEW cr, NEW cr2, cr \subseteq cr2, CallOK(c, b, n, cr)
  PROVE  CallOK(c, b, n2, cr2)
<1>1. c.secret \in Nat /\ c.secret <= n2
  BY KeysAssumption DEF Calls, CallOK
<1>2. c.pc \in {"unindex", "rotate_unindex", "rotate_insert"} => c.row.key.secret \in 1..n2
  BY DEF CallOK
<1> QED
  BY <1>1, <1>2 DEF CallOK

(* An admin call moves on, or none does.                                   *)
LEMMA Moves ==
  ASSUME Shaped, Grows, NEW a \in Admins, NEW c \in Calls,
         admin' = [admin EXCEPT ![a] = c], CallOK(c, backend', issued', created')
  PROVE  AdminPart(admin', backend', issued', created')
<1>1. ASSUME NEW b \in Admins
      PROVE  CallOK(admin[b], backend', issued', created') /\ admin[b] \in Calls
  BY CallLasts DEF Shaped, Grows, AdminPart
<1> QED
  BY <1>1 DEF Shaped, AdminPart

(* No admin call moves.                                                    *)
LEMMA SameCalls ==
  ASSUME Shaped, Grows, admin' = admin
  PROVE  AdminPart(admin', backend', issued', created')
<1>1. ASSUME NEW b \in Admins PROVE CallOK(admin[b], backend', issued', created')
  BY CallLasts DEF Shaped, Grows, AdminPart
<1> QED
  BY <1>1 DEF Shaped, AdminPart

(* How Goto and Done move a call.                                          *)
LEMMA MovesTo ==
  ASSUME Shaped, NEW a \in Admins
  PROVE  /\ \A pc : Goto(a, pc) =>
              admin' = [admin EXCEPT ![a] =
                [pc |-> pc, id |-> admin[a].id, row |-> admin[a].row,
                 secret |-> admin[a].secret, enable |-> admin[a].enable]]
         /\ admin[a] \in Calls /\ CallOK(admin[a], backend, issued, created)
         /\ \A pc \in CallPcs, id \in Ids, row \in Rows, n \in 0..MaxSecrets, on \in Enables :
              [pc |-> pc, id |-> id, row |-> row, secret |-> n, enable |-> on] \in Calls
<1>1. admin[a] \in Calls /\ CallOK(admin[a], backend, issued, created)
  BY DEF Shaped, AdminPart
<1>2. ASSUME NEW pc, Goto(a, pc)
      PROVE  admin' = [admin EXCEPT ![a] =
               [pc |-> pc, id |-> admin[a].id, row |-> admin[a].row,
                secret |-> admin[a].secret, enable |-> admin[a].enable]]
  <2>1. [admin[a] EXCEPT !.pc = pc] =
          [pc |-> pc, id |-> admin[a].id, row |-> admin[a].row,
           secret |-> admin[a].secret, enable |-> admin[a].enable]
    BY <1>1 DEF Calls
  <2>2. admin' = [admin EXCEPT ![a] = [admin[a] EXCEPT !.pc = pc]]
    BY <1>2 DEF Goto, Shaped, AdminPart
  <2> QED
    BY <2>1, <2>2
<1>3. \A pc \in CallPcs, id \in Ids, row \in Rows, n \in 0..MaxSecrets, on \in Enables :
        [pc |-> pc, id |-> id, row |-> row, secret |-> n, enable |-> on] \in Calls
  BY DEF Calls
<1> QED
  BY <1>1, <1>2, <1>3

(* A call that is over.                                                    *)
LEMMA IsDone ==
  ASSUME Shaped, Grows, NEW a \in Admins, Done(a)
  PROVE  AdminPart(admin', backend', issued', created')
<1>1. IdleAdmin \in Calls /\ CallOK(IdleAdmin, backend', issued', created')
  BY Constants, KeysAssumption DEF IdleAdmin, CallOK, Grows
<1> QED
  BY <1>1, Moves DEF Done

(* A request moves on, or none does.                                       *)
LEMMA RequestMoves ==
  ASSUME Shaped, Grows, NEW v \in Validators, NEW q \in Requests,
         val' = [val EXCEPT ![v] = q], RequestOK(q, backend', issued')
  PROVE  ValPart(val', backend', issued')
<1>1. ASSUME NEW w \in Validators PROVE RequestOK(val[w], backend', issued')
  BY DEF Shaped, Grows, ValPart, RequestOK, Requests, Strings
<1> QED
  BY <1>1 DEF Shaped, ValPart

(* No request moves.                                                       *)
LEMMA SameRequests ==
  ASSUME Shaped, Grows, val' = val
  PROVE  ValPart(val', backend', issued')
<1>1. ASSUME NEW w \in Validators PROVE RequestOK(val[w], backend', issued')
  BY DEF Shaped, Grows, ValPart, RequestOK, Requests, Strings
<1> QED
  BY <1>1 DEF Shaped, ValPart

(* A request is answered or goes on.                                       *)
LEMMA RequestIs ==
  ASSUME Shaped, NEW v \in Validators, NEW pc, NEW id,
         val' = [val EXCEPT ![v].pc = pc, ![v].id = id]
  PROVE  val' = [val EXCEPT ![v] = [pc |-> pc, token |-> val[v].token, id |-> id]]
<1>1. PICK q : q = [val[v] EXCEPT !.pc = pc, !.id = id]
  OBVIOUS
<1>2. val[v] \in Requests /\ DOMAIN val = Validators
  BY DEF Shaped, ValPart
<1>3. q = [pc |-> q.pc, token |-> q.token, id |-> q.id]
  BY <1>1, <1>2 DEF Requests
<1>4. q.pc = pc /\ q.token = val[v].token /\ q.id = id
  BY <1>1, <1>2 DEF Requests
<1>5. val' = [val EXCEPT ![v] = q]
  BY <1>1, <1>2
<1>6. q = [pc |-> pc, token |-> val[v].token, id |-> id]
  BY <1>3, <1>4
<1> QED
  BY <1>5, <1>6

(* The rows the statements write, by what they take from the row before.   *)
LEMMA Written ==
  ASSUME Shaped, NEW i \in Ids
  PROVE  /\ \A on \in BOOLEAN : keys' = [keys EXCEPT ![i].enabled = on] =>
              \E r \in Rows : /\ keys' = [keys EXCEPT ![i] = r] /\ r.enabled = on
                             /\ r.key = keys[i].key /\ r.usage_count = keys[i].usage_count
         /\ \A ex \in Expiry : keys' = [keys EXCEPT ![i].expires = ex] =>
              \E r \in Rows : /\ keys' = [keys EXCEPT ![i] = r] /\ r.enabled = keys[i].enabled
                             /\ r.key = keys[i].key /\ r.usage_count = keys[i].usage_count
<1>1. keys \in [Ids -> Rows]
  BY DEF Shaped, KeysPart
<1>2. /\ keys[i].key \in Strings /\ keys[i].enabled \in BOOLEAN /\ keys[i].expires \in Expiry
      /\ keys[i].usage_count \in Nat
  BY <1>1, RowIs
<1>3. ASSUME NEW on \in BOOLEAN, keys' = [keys EXCEPT ![i].enabled = on]
      PROVE  \E r \in Rows : /\ keys' = [keys EXCEPT ![i] = r] /\ r.enabled = on
                            /\ r.key = keys[i].key /\ r.usage_count = keys[i].usage_count
  <2> DEFINE r == Row(keys[i].key, on, keys[i].expires, keys[i].usage_count)
  <2>1. keys' = [keys EXCEPT ![i] = r]
    BY <1>1, <1>3, Edits
  <2>2. r \in Rows /\ r.enabled = on /\ r.key = keys[i].key /\ r.usage_count = keys[i].usage_count
    BY <1>2, RowIs
  <2> QED
    BY <2>1, <2>2
<1>4. ASSUME NEW ex \in Expiry, keys' = [keys EXCEPT ![i].expires = ex]
      PROVE  \E r \in Rows : /\ keys' = [keys EXCEPT ![i] = r] /\ r.enabled = keys[i].enabled
                            /\ r.key = keys[i].key /\ r.usage_count = keys[i].usage_count
  <2> DEFINE r == Row(keys[i].key, keys[i].enabled, ex, keys[i].usage_count)
  <2>1. keys' = [keys EXCEPT ![i] = r]
    BY <1>1, <1>4, Edits
  <2>2. /\ r \in Rows /\ r.enabled = keys[i].enabled /\ r.key = keys[i].key
        /\ r.usage_count = keys[i].usage_count
    BY <1>2, RowIs
  <2> QED
    BY <2>1, <2>2
<1> QED
  BY <1>3, <1>4

(* The row an update writes.                                               *)
LEMMA WrittenBack ==
  ASSUME Shaped, NEW i \in Ids, NEW on \in BOOLEAN, NEW ex \in Expiry,
         keys' = [keys EXCEPT ![i].enabled = on, ![i].expires = ex]
  PROVE  \E r \in Rows : /\ keys' = [keys EXCEPT ![i] = r] /\ r.enabled = on
                         /\ r.key = keys[i].key /\ r.usage_count = keys[i].usage_count
<1>1. keys \in [Ids -> Rows]
  BY DEF Shaped, KeysPart
<1>2. PICK r : r = Row(keys[i].key, on, ex, keys[i].usage_count)
  OBVIOUS
<1>3. [keys EXCEPT ![i].enabled = on, ![i].expires = ex] = [keys EXCEPT ![i] = r]
  BY <1>1, <1>2, EditTwo
<1>4. keys[i].key \in Strings /\ keys[i].usage_count \in Nat
  BY <1>1, RowIs
<1>5. /\ r \in Rows /\ r.enabled = on /\ r.key = keys[i].key
      /\ r.usage_count = keys[i].usage_count
  BY <1>2, <1>4, RowIs
<1> QED
  BY <1>3, <1>5

(* The row a rotation writes.                                              *)
LEMMA Rekeyed ==
  ASSUME Shaped, NEW i \in Ids, NEW key \in Strings, keys' = [keys EXCEPT ![i].key = key]
  PROVE  \E r \in Rows : /\ keys' = [keys EXCEPT ![i] = r] /\ r.enabled = keys[i].enabled
                         /\ r.key = key /\ r.usage_count = keys[i].usage_count
<1>1. keys \in [Ids -> Rows]
  BY DEF Shaped, KeysPart
<1>2. PICK r : r = Row(key, keys[i].enabled, keys[i].expires, keys[i].usage_count)
  OBVIOUS
<1>3. keys' = [keys EXCEPT ![i] = r]
  BY <1>1, <1>2, Edits
<1>4. /\ keys[i].enabled \in BOOLEAN /\ keys[i].expires \in Expiry
      /\ keys[i].usage_count \in Nat
  BY <1>1, RowIs
<1>5. /\ r \in Rows /\ r.enabled = keys[i].enabled /\ r.key = key
      /\ r.usage_count = keys[i].usage_count
  BY <1>2, <1>4, RowIs
<1> QED
  BY <1>3, <1>5

(* What generate_api_key does.                                             *)
LEMMA Generated ==
  ASSUME Shaped, generate_api_key, backend' = backend, created \subseteq created',
         created' \subseteq Ids
  PROVE  /\ Grows /\ issued' = issued + 1 /\ issued' \in 1..MaxSecrets
         /\ Hash(Plain(issued')) \in Strings /\ Hash(Plain(issued')).secret = issued'
         /\ Hash(Plain(issued')).hashed = 1
<1>1. issued' = issued + 1 /\ issued' \in 1..MaxSecrets
  BY KeysAssumption DEF Shaped, generate_api_key
<1>2. Grows
  BY <1>1, KeysAssumption DEF Shaped, Grows
<1>3. PICK n \in 0..MaxSecrets : n = issued'
  BY <1>1, KeysAssumption
<1> QED
  BY <1>1, <1>2, <1>3, HashedSecret

(* What Insert adds: an enabled, unused row with the secret just generated. *)
LEMMA Inserted ==
  ASSUME Shaped, generate_api_key, backend' = backend, NEW i \in Ids,
         NEW ex \in {"never", "future"}, Insert(i, ex)
  PROVE  /\ Grows /\ issued' = issued + 1 /\ issued' \in 1..MaxSecrets
         /\ created' = created \cup {i} /\ KeysPart(keys', issued', created')
         /\ \E r \in Rows : /\ keys' = [keys EXCEPT ![i] = r] /\ r.key.secret = issued'
                            /\ r.key.hashed = 1 /\ r.enabled = TRUE /\ r.usage_count = 0
<1>1. created' = created \cup {i} /\ created' \subseteq Ids
  BY DEF Insert, Shaped
<1>2. /\ Grows /\ issued' = issued + 1 /\ issued' \in 1..MaxSecrets
      /\ Hash(Plain(issued')) \in Strings /\ Hash(Plain(issued')).secret = issued'
      /\ Hash(Plain(issued')).hashed = 1
  BY <1>1, Generated
<1>3. PICK key \in Strings : key = Hash(Plain(issued'))
  BY <1>2
<1>4. PICK r : r = [key |-> key, enabled |-> TRUE, expires |-> ex, usage_count |-> 0]
  OBVIOUS
<1>5. keys' = [keys EXCEPT ![i] = r]
  BY <1>3, <1>4 DEF Insert
<1>6. /\ r \in Rows /\ r.key = key /\ r.enabled = TRUE /\ r.usage_count = 0
  BY <1>4 DEF Rows
<1>7. KeysPart(keys', issued', created')
  <2>1. r.key.secret \in 1..issued' /\ i \in created'
    BY <1>1, <1>2, <1>3, <1>6, KeysAssumption
  <2> QED
    BY <1>2, <1>5, <1>6, <2>1, PutRow
<1> QED
  BY <1>1, <1>2, <1>3, <1>5, <1>6, <1>7

(* A validation that is accepted counts a use.                             *)
LEMMA Used ==
  ASSUME Shaped, Grows, NEW v \in Validators, NEW i \in Ids, Usable(keys[i]),
         NEW key \in Strings, key.secret = keys[i].key.secret, Use(v, i, key)
  PROVE  /\ KeysPart(keys', issued', created') /\ accepted' \in [Ids -> Nat]
         /\ \E r \in Rows : /\ keys' = [keys EXCEPT ![i] = r] /\ r.key = key
                            /\ r.enabled = keys[i].enabled /\ r.expires = keys[i].expires
                            /\ r.usage_count = keys[i].usage_count + 1
<1>1. PICK r \in Rows : /\ keys' = [keys EXCEPT ![i] = r] /\ r.enabled = keys[i].enabled
                        /\ r.expires = keys[i].expires
                        /\ r.key = key /\ r.usage_count = keys[i].usage_count + 1
  <2>1. keys \in [Ids -> Rows]
    BY DEF Shaped, KeysPart
  <2> QED
    BY <2>1, EditUse
<1>2. key.secret \in 1..issued' /\ i \in created'
  BY DEF Shaped, KeysPart, RowOK, Usable, Grows
<1>3. KeysPart(keys', issued', created')
  BY <1>1, <1>2, PutRow
<1>4. accepted' \in [Ids -> Nat]
  BY DEF Use, Shaped
<1> QED
  BY <1>1, <1>3, <1>4

(* What a row that a token matches and the token have in common.           *)
LEMMA Matched ==
  ASSUME NEW t \in Strings, NEW r \in Rows, Matches(t, r)
  PROVE  /\ t.hashed = 0 /\ r.key.secret = t.secret
         /\ Hash(t) \in Strings /\ Hash(t).secret = t.secret
<1>1. Hash(t) = [hashed |-> t.hashed + 1, secret |-> t.secret] /\ t.hashed \in {0, 1}
  BY HashIs DEF Strings
<1>2. r.key \in Strings
  BY RowIs
<1>3. CASE r.key = Hash(t)
  <2>1. r.key.hashed = t.hashed + 1 /\ r.key.secret = t.secret
    BY <1>1, <1>3
  <2>2. r.key.hashed \in {0, 1}
    BY <1>2 DEF Strings
  <2> QED
    BY <1>1, <1>2, <1>3, <2>1, <2>2
<1>4. CASE r.key = t /\ r.key.hashed = 0
  BY <1>1, <1>4 DEF Strings
<1> QED
  BY <1>3, <1>4 DEF Matches

(* A statement matches a row and uses it, or refuses the token.            *)
LEMMA MatchedAndUsed ==
  ASSUME Shaped, NEW v \in Validators, MatchAndUse(v)
  PROVE  \/ Refused(v)
         \/ \E i \in Ids : /\ Usable(keys[i]) /\ val[v].token.hashed = 0
                           /\ keys[i].key.secret = val[v].token.secret
                           /\ Hash(val[v].token) \in Strings
                           /\ Hash(val[v].token).secret = keys[i].key.secret
                           /\ Use(v, i, Hash(val[v].token))
<1> DEFINE found == {i \in Ids : Usable(keys[i]) /\ Matches(val[v].token, keys[i])}
<1>1. CASE found = {}
  BY <1>1 DEF MatchAndUse
<1>2. CASE found # {}
  <2>1. PICK i \in found : Use(v, i, Hash(val[v].token))
    BY <1>2 DEF MatchAndUse
  <2>2. i \in Ids /\ Usable(keys[i]) /\ Matches(val[v].token, keys[i])
    BY <2>1
  <2>3. val[v].token \in Strings /\ keys[i] \in Rows
    BY <2>2 DEF Shaped, ValPart, Requests, KeysPart
  <2> QED
    BY <2>1, <2>2, <2>3, Matched
<1> QED
  BY <1>1, <1>2

(* Nothing is generated.                                                   *)
LEMMA NothingNew ==
  ASSUME Shaped, UNCHANGED <<backend, issued, created>> PROVE Grows
  BY DEF Shaped, Grows

(* What Remember keeps.                                                    *)
LEMMA RememberTyped ==
  ASSUME Shaped, created' = created, NEW i \in created, NEW enable \in Enables,
         Remember(i, enable)
  PROVE  revoked' \subseteq created'
<1>1. CASE enable = "on"
  BY <1>1 DEF Shaped, Remember
<1>2. CASE enable = "off"
  BY <1>2 DEF Shaped, Remember
<1>3. CASE enable = "keep"
  BY <1>3 DEF Shaped, Remember
<1> QED
  BY <1>1, <1>2, <1>3 DEF Enables

(* A call arrives and goes on at pc.                                       *)
LEMMA Continues ==
  ASSUME Shaped, Grows, NEW a \in Admins, NEW pc \in CallPcs, NEW i \in Ids, NEW r \in Rows,
         NEW n \in 0..issued', Continue(a, pc, i, r, n),
         CallOK([pc |-> pc, id |-> i, row |-> r, secret |-> n, enable |-> "keep"],
                backend', issued', created')
  PROVE  AdminPart(admin', backend', issued', created')
<1>1. [pc |-> pc, id |-> i, row |-> r, secret |-> n, enable |-> "keep"] \in Calls
  BY KeysAssumption DEF Calls, Enables, Grows
<1> QED
  BY <1>1, Moves DEF Continue

(* A call goes on with what it has.                                        *)
LEMMA GoesOn ==
  ASSUME Shaped, Grows, NEW a \in Admins, NEW pc, Goto(a, pc),
         admin[a].pc = "rotate_unindex" /\ pc = "rotate_insert"
  PROVE  AdminPart(admin', backend', issued', created')
<1> DEFINE c == [pc |-> pc, id |-> admin[a].id, row |-> admin[a].row,
                 secret |-> admin[a].secret, enable |-> admin[a].enable]
<1>1. admin' = [admin EXCEPT ![a] = c] /\ admin[a] \in Calls
  BY MovesTo
<1>2. CallOK(admin[a], backend', issued', created')
  BY <1>1, MovesTo, CallLasts DEF Grows, Shaped
<1>3. c \in Calls
  BY <1>1 DEF Calls, CallPcs
<1>4. CallOK(c, backend', issued', created')
  BY <1>2 DEF CallOK
<1> QED
  BY <1>1, <1>3, <1>4, Moves

(* A call has written its copy of the row and goes on without it.          *)
LEMMA GoesOnBare ==
  ASSUME Shaped, Grows, NEW a \in Admins,
         \/ /\ admin[a].pc = "rotate_insert"
            /\ Continue(a, "index", admin[a].id, NoRow, admin[a].secret)
         \/ /\ admin[a].pc = "sqlite_write"
            /\ Continue(a, "reread", admin[a].id, NoRow, 0)
  PROVE  AdminPart(admin', backend', issued', created')
<1>1. admin[a] \in Calls /\ CallOK(admin[a], backend', issued', created')
  BY MovesTo, CallLasts DEF Grows, Shaped
<1>2. PICK i \in Ids, n \in 0..issued' : i = admin[a].id /\ n = admin[a].secret
  BY <1>1 DEF CallOK, Calls, Grows, Shaped
<1>3. 0 \in 0..issued' /\ NoRow \in Rows
  BY Constants, KeysAssumption DEF Grows
<1>4. CASE admin[a].pc = "rotate_insert" /\ Continue(a, "index", i, NoRow, n)
  <2>1. CallOK([pc |-> "index", id |-> i, row |-> NoRow, secret |-> n, enable |-> "keep"],
               backend', issued', created')
    BY <1>1, <1>2, <1>4 DEF CallOK
  <2> QED
    BY <1>2, <1>3, <1>4, <2>1, Continues DEF CallPcs
<1>5. CASE admin[a].pc = "sqlite_write" /\ Continue(a, "reread", i, NoRow, 0)
  <2>1. CallOK([pc |-> "reread", id |-> i, row |-> NoRow, secret |-> 0, enable |-> "keep"],
               backend', issued', created')
    BY <1>1, <1>2, <1>3, <1>5 DEF CallOK
  <2> QED
    BY <1>2, <1>3, <1>5, <2>1, Continues DEF CallPcs
<1> QED
  BY <1>2, <1>4, <1>5

(* A request is answered, or goes on to the entry its lookup found.        *)
LEMMA RequestGoesOn ==
  ASSUME Shaped, Grows, NEW v \in Validators, NEW pc \in {"check", "accepted", "refused"},
         NEW i \in Ids \cup {NoId},
         val' = [val EXCEPT ![v].pc = pc, ![v].id = i],
         pc = "check" => backend = "memory" /\ i \in Ids
  PROVE  ValPart(val', backend', issued')
<1>1. val' = [val EXCEPT ![v] = [pc |-> pc, token |-> val[v].token, id |-> i]]
  BY RequestIs
<1>2. val[v] \in Requests /\ RequestOK(val[v], backend, issued)
  BY DEF Shaped, ValPart
<1>3. PICK q : q = [pc |-> pc, token |-> val[v].token, id |-> i]
  OBVIOUS
<1>4. q \in Requests
  BY <1>2, <1>3 DEF Requests
<1>5. RequestOK(q, backend', issued')
  <2>1. val[v].token.secret <= issued'
    BY <1>2 DEF RequestOK, Requests, Strings, Shaped, Grows
  <2> QED
    BY <1>3, <2>1 DEF RequestOK, Grows
<1> QED
  BY <1>1, <1>3, <1>4, <1>5, RequestMoves

(* Every step of every backend keeps the shapes.                           *)
THEOREM ShapedNext == Shaped /\ [Next]_vars => Shaped'
<1> SUFFICES ASSUME Shaped, [Next]_vars PROVE Shaped'
  OBVIOUS
<1> USE DEF store, history
<1>0. CASE UNCHANGED vars
  BY <1>0 DEF Shaped, vars
<1>1. ASSUME NEW a \in Admins, Create(a) \/ PgCreate(a) \/ SqliteCreate(a) PROVE Shaped'
  <2>1. PICK i \in Ids \ created, ex \in {"never", "future"} :
          /\ Insert(i, ex)
          /\ \/ Continue(a, "index", i, NoRow, issued') /\ backend = "memory"
             \/ Continue(a, "reread", i, NoRow, issued') /\ backend = "sqlite"
             \/ admin' = admin
    BY <1>1 DEF Create, PgCreate, SqliteCreate
  <2>2. /\ generate_api_key /\ UNCHANGED <<backend, keys_by_key, val, unread, accepted, revoked, overlapped>>
        /\ shown' \subseteq shown \cup {issued'}
    BY <1>1 DEF Create, PgCreate, SqliteCreate, Reveal
  <2>3. /\ Grows /\ issued' = issued + 1 /\ issued' \in 1..MaxSecrets
        /\ created' = created \cup {i} /\ KeysPart(keys', issued', created')
    BY <2>1, <2>2, Inserted
  <2>4. AdminPart(admin', backend', issued', created')
    <3>1. CASE admin' = admin
      BY <2>3, <3>1, SameCalls
    <3>2. CASE Continue(a, "index", i, NoRow, issued') /\ backend = "memory"
      <4>1. CallOK([pc |-> "index", id |-> i, row |-> NoRow, secret |-> issued', enable |-> "keep"],
                   backend', issued', created')
        BY <2>2, <2>3, <3>2 DEF CallOK
      <4>2. issued' \in 0..issued'
        BY <2>3
      <4> QED
        BY <2>3, <3>2, <4>1, <4>2, Constants, Continues DEF CallPcs
    <3>3. CASE Continue(a, "reread", i, NoRow, issued') /\ backend = "sqlite"
      <4>1. CallOK([pc |-> "reread", id |-> i, row |-> NoRow, secret |-> issued', enable |-> "keep"],
                   backend', issued', created')
        BY <2>2, <2>3, <3>3 DEF CallOK
      <4>2. issued' \in 0..issued'
        BY <2>3
      <4> QED
        BY <2>3, <3>3, <4>1, <4>2, Constants, Continues DEF CallPcs
    <3> QED
      BY <2>1, <3>1, <3>2, <3>3
  <2>5. ValPart(val', backend', issued')
    BY <2>2, <2>3, SameRequests
  <2>6. shown' \subseteq 1..issued' /\ unread' \subseteq 1..issued' /\ revoked' \subseteq created'
    BY <2>2, <2>3 DEF Shaped
  <2> QED
    BY <2>2, <2>3, <2>4, <2>5, <2>6 DEF Shaped, Grows
<1>2. ASSUME NEW a \in Admins, Index(a) PROVE Shaped'
  <2>1. /\ UNCHANGED <<backend, keys, val, issued, created, unread, accepted, revoked, overlapped>>
        /\ keys_by_key' = [keys_by_key EXCEPT ![admin[a].secret] = admin[a].id]
        /\ shown' = shown \cup {admin[a].secret} /\ Done(a)
    BY <1>2 DEF Index, Reveal
  <2>2. Grows
    BY <2>1, NothingNew
  <2>3. admin[a].secret \in 1..issued /\ admin[a].id \in Ids
    BY <1>2, MovesTo DEF Index, At, CallOK, Calls, Shaped
  <2>4. keys_by_key' \in [Secrets -> Ids \cup {NoId}]
    BY <2>1, <2>3 DEF Shaped
  <2>5. AdminPart(admin', backend', issued', created')
    BY <2>1, <2>2, IsDone
  <2>6. shown' \subseteq 1..issued
    BY <2>1, <2>3 DEF Shaped
  <2> QED
    BY <2>1, <2>4, <2>5, <2>6 DEF Shaped
<1>3. ASSUME NEW a \in Admins, Update(a) PROVE Shaped'
  <2>1. PICK i \in created, enable \in Enables, ex \in Expiries :
          /\ Exists(i) /\ keys' = [keys EXCEPT ![i] = Merged(@, enable, ex)]
          /\ Remember(i, enable)
    BY <1>3 DEF Update
  <2>2. UNCHANGED <<backend, keys_by_key, admin, val, issued, created, shown, unread, accepted,
                       overlapped>>
    BY <1>3 DEF Update
  <2>3. Grows /\ i \in Ids
    BY <2>2, NothingNew DEF Shaped
  <2>4. keys[i] \in Rows /\ keys[i].key.secret \in 1..issued
    BY <2>1, <2>3 DEF Shaped, KeysPart, RowOK, Exists
  <2>5. PICK r \in Rows : r = Merged(keys[i], enable, ex) /\ r.key = keys[i].key
    BY <2>4, MergedIs
  <2>6. keys' = [keys EXCEPT ![i] = r]
    BY <2>1, <2>3, <2>5 DEF Shaped, KeysPart
  <2>7. KeysPart(keys', issued', created')
    BY <2>2, <2>3, <2>4, <2>5, <2>6, PutRow
  <2>8. revoked' \subseteq created'
    BY <2>1, <2>2, RememberTyped
  <2> QED
    BY <2>2, <2>7, <2>8 DEF Shaped
<1>4. ASSUME NEW a \in Admins, Delete(a) \/ PgDelete(a) \/ SqliteDelete(a) PROVE Shaped'
  <2>1. PICK i \in created :
          /\ Exists(i) /\ Remove(i) /\ Remember(i, "off")
          /\ Overlap(i) \/ overlapped' = overlapped
          /\ \/ Continue(a, "unindex", i, keys[i], 0) /\ backend = "memory"
             \/ admin' = admin
    BY <1>4 DEF Delete, PgDelete, SqliteDelete
  <2>2. UNCHANGED <<backend, keys_by_key, val, issued, created, shown, unread, accepted>>
    BY <1>4 DEF Delete, PgDelete, SqliteDelete
  <2>3. Grows /\ i \in Ids
    BY <2>2, NothingNew DEF Shaped
  <2>4. KeysPart(keys', issued', created')
    BY <2>1, <2>3, Constants, PutRow DEF Remove
  <2>5. AdminPart(admin', backend', issued', created')
    <3>1. CASE admin' = admin
      BY <2>3, <3>1, SameCalls
    <3>2. CASE Continue(a, "unindex", i, keys[i], 0) /\ backend = "memory"
      <4>1. keys[i] \in Rows /\ keys[i].key.secret \in 1..issued /\ issued \in Nat
        BY <2>1, <2>3 DEF Shaped, KeysPart, RowOK, Exists
      <4>2. CallOK([pc |-> "unindex", id |-> i, row |-> keys[i], secret |-> 0, enable |-> "keep"],
                   backend', issued', created')
        BY <2>2, <2>3, <3>2, <4>1 DEF CallOK
      <4>3. 0 \in 0..issued'
        BY <2>2, <4>1
      <4> QED
        BY <2>3, <3>2, <4>1, <4>2, <4>3, Continues DEF CallPcs
    <3> QED
      BY <2>1, <3>1, <3>2
  <2>6. revoked' \subseteq created' /\ overlapped' \subseteq created'
    BY <2>1, <2>2, RememberTyped DEF Enables, Overlap, Shaped
  <2> QED
    BY <2>2, <2>4, <2>5, <2>6 DEF Shaped
<1>5. ASSUME NEW a \in Admins, Unindex(a) PROVE Shaped'
  <2>1. /\ UNCHANGED <<backend, keys, val, issued, created, history>> /\ Done(a)
        /\ keys_by_key' = [keys_by_key EXCEPT ![admin[a].row.key.secret] = NoId]
    BY <1>5 DEF Unindex
  <2>2. Grows
    BY <2>1, NothingNew
  <2>3. AdminPart(admin', backend', issued', created')
    BY <2>1, <2>2, IsDone
  <2> QED
    BY <2>1, <2>3 DEF Shaped
<1>6. ASSUME NEW a \in Admins, Revoke(a) \/ PgRevoke(a) \/ SqliteRevoke(a) PROVE Shaped'
  <2>1. PICK i \in created : /\ Exists(i) /\ keys' = [keys EXCEPT ![i].enabled = FALSE]
                            /\ Remember(i, "off")
    BY <1>6 DEF Revoke, PgRevoke, SqliteRevoke
  <2>2. UNCHANGED <<backend, keys_by_key, admin, val, issued, created, shown, unread, accepted,
                       overlapped>>
    BY <1>6 DEF Revoke, PgRevoke, SqliteRevoke
  <2>3. Grows /\ i \in Ids
    BY <2>2, NothingNew DEF Shaped
  <2>4. PICK r \in Rows : keys' = [keys EXCEPT ![i] = r] /\ r.key = keys[i].key
    BY <2>1, <2>3, Written
  <2>5. keys[i].key.secret \in 1..issued
    BY <2>1, <2>3 DEF Shaped, KeysPart, RowOK, Exists
  <2>6. KeysPart(keys', issued', created')
    BY <2>2, <2>3, <2>4, <2>5, PutRow
  <2>7. revoked' \subseteq created'
    BY <2>1, <2>2, RememberTyped DEF Enables
  <2> QED
    BY <2>2, <2>6, <2>7 DEF Shaped
<1>7. ASSUME NEW a \in Admins, Rotate(a) PROVE Shaped'
  <2>1. PICK i \in created : Exists(i) /\ Overlap(i) /\ Continue(a, "rotate_unindex", i, keys[i], issued')
    BY <1>7 DEF Rotate
  <2>2. /\ UNCHANGED <<backend, keys, keys_by_key, val, created, shown, unread, accepted, revoked>>
        /\ generate_api_key /\ backend = "memory"
    BY <1>7 DEF Rotate
  <2>3. Grows /\ issued' = issued + 1 /\ issued' \in 1..MaxSecrets
    BY <2>2, Generated DEF Shaped
  <2>4. i \in Ids /\ keys[i] \in Rows /\ keys[i].key.secret \in 1..issued /\ issued \in Nat
    BY <2>1 DEF Shaped, KeysPart, RowOK, Exists
  <2>5. CallOK([pc |-> "rotate_unindex", id |-> i, row |-> keys[i], secret |-> issued',
                enable |-> "keep"], backend', issued', created')
    BY <2>1, <2>2, <2>3, <2>4 DEF CallOK
  <2>6. issued' \in 0..issued'
    BY <2>3
  <2>7. AdminPart(admin', backend', issued', created')
    BY <2>1, <2>3, <2>4, <2>5, <2>6, Continues DEF CallPcs
  <2>8. KeysPart(keys', issued', created') /\ ValPart(val', backend', issued')
    BY <2>2, <2>3, SameRows, SameRequests
  <2>9. shown' \subseteq 1..issued' /\ unread' \subseteq 1..issued'
        /\ overlapped' \subseteq created'
    BY <2>1, <2>2, <2>3 DEF Shaped, Overlap
  <2> QED
    BY <2>2, <2>3, <2>7, <2>8, <2>9 DEF Shaped, Grows
<1>8. ASSUME NEW a \in Admins, RotateUnindex(a) PROVE Shaped'
  <2>1. /\ UNCHANGED <<backend, keys, val, issued, created, history>>
        /\ Goto(a, "rotate_insert") /\ admin[a].pc = "rotate_unindex"
        /\ keys_by_key' = [keys_by_key EXCEPT ![admin[a].row.key.secret] = NoId]
    BY <1>8 DEF RotateUnindex, At
  <2>2. Grows
    BY <2>1, NothingNew
  <2>3. AdminPart(admin', backend', issued', created')
    BY <2>1, <2>2, GoesOn
  <2> QED
    BY <2>1, <2>3 DEF Shaped
<1>9. ASSUME NEW a \in Admins, RotateInsert(a) PROVE Shaped'
  <2> DEFINE c == admin[a]
  <2>1. /\ UNCHANGED <<backend, keys_by_key, val, issued, created, history>>
        /\ Continue(a, "index", c.id, NoRow, c.secret) /\ c.pc = "rotate_insert"
        /\ keys' = [keys EXCEPT ![c.id] = [c.row EXCEPT !.key = Hash(Plain(c.secret))]]
    BY <1>9 DEF RotateInsert, At
  <2>2. Grows
    BY <2>1, NothingNew
  <2>3. /\ c \in Calls /\ c.id \in Ids /\ c.id \in created /\ c.secret \in 1..issued
    BY <2>1, MovesTo DEF CallOK, Calls, Shaped
  <2>4. c.secret \in 0..MaxSecrets /\ c.row \in Rows
    BY <2>3 DEF Calls
  <2>5. Hash(Plain(c.secret)) \in Strings /\ Hash(Plain(c.secret)).secret = c.secret
    BY <2>4, HashedSecret
  <2>6. PICK key \in Strings : key = Hash(Plain(c.secret)) /\ key.secret = c.secret
    BY <2>5
  <2>7. PICK r : r = [c.row EXCEPT !.key = key]
    OBVIOUS
  <2>8. r \in Rows /\ r.key = key
    BY <2>4, <2>7 DEF Rows
  <2>9. KeysPart(keys', issued', created')
    BY <2>1, <2>2, <2>3, <2>6, <2>7, <2>8, PutRow
  <2>10. AdminPart(admin', backend', issued', created')
    BY <2>1, <2>2, GoesOnBare
  <2> QED
    BY <2>1, <2>9, <2>10 DEF Shaped
<1>10. ASSUME NEW v \in Validators, Lookup(v) PROVE Shaped'
  <2>1. UNCHANGED <<backend, keys, keys_by_key, admin, issued, created, history>>
    BY <1>10 DEF Lookup
  <2>2. Grows
    BY <2>1, NothingNew
  <2>3. PICK i : /\ val' = [val EXCEPT ![v].pc = IF i = NoId THEN "refused" ELSE "check",
                                       ![v].id = i]
                 /\ i = IF Hash(val[v].token).hashed = 1
                        THEN keys_by_key[Hash(val[v].token).secret] ELSE NoId
    BY <1>10 DEF Lookup
  <2>4. backend = "memory"
    BY <1>10 DEF Lookup
  <2>5. i \in Ids \cup {NoId}
    <3>1. /\ val[v].token \in Strings /\ val[v].token.secret \in 1..issued
      BY <1>10 DEF Lookup, Shaped, ValPart, Requests, Strings, RequestOK
    <3>2. Hash(val[v].token).secret \in Secrets
      <4>1. PICK t \in Strings : t = val[v].token
        BY <3>1
      <4>2. Hash(t).secret = t.secret
        BY HashIs
      <4>3. issued \in 0..MaxSecrets /\ MaxSecrets \in Nat
        BY KeysAssumption DEF Shaped
      <4>4. t.secret \in 1..MaxSecrets
        BY <3>1, <4>1, <4>3
      <4> QED
        BY <4>1, <4>2, <4>4 DEF Secrets
    <3> QED
      BY <2>3, <3>2 DEF Shaped
  <2>6. PICK pc \in {"refused", "check"} : pc = IF i = NoId THEN "refused" ELSE "check"
    OBVIOUS
  <2>7. ValPart(val', backend', issued')
    BY <2>2, <2>3, <2>4, <2>5, <2>6, RequestGoesOn
  <2> QED
    BY <2>1, <2>7 DEF Shaped
<1>11. ASSUME NEW v \in Validators, Refused(v),
              UNCHANGED <<backend, keys_by_key, admin, issued, created, shown, unread, revoked, overlapped>>
       PROVE  Shaped'
  <2>1. Grows
    BY <1>11, NothingNew
  <2>2. ValPart(val', backend', issued')
    BY <1>11, <2>1, RequestGoesOn DEF Refused
  <2> QED
    BY <1>11, <2>2 DEF Shaped, Refused
<1>12. ASSUME NEW v \in Validators, NEW i \in Ids, Usable(keys[i]), NEW key \in Strings,
              key.secret = keys[i].key.secret, Use(v, i, key),
              UNCHANGED <<backend, keys_by_key, admin, issued, created, shown, unread, revoked, overlapped>>
       PROVE  Shaped'
  <2>1. Grows
    BY <1>12, NothingNew
  <2>2. ValPart(val', backend', issued')
    BY <1>12, <2>1, RequestGoesOn DEF Use
  <2>3. KeysPart(keys', issued', created') /\ accepted' \in [Ids -> Nat]
    BY <1>12, <2>1, Used
  <2> QED
    BY <1>12, <2>2, <2>3 DEF Shaped
<1>13. ASSUME NEW v \in Validators, Check(v) PROVE Shaped'
  <2>1. val[v].id \in Ids
    BY <1>13 DEF Check, Shaped, ValPart, RequestOK
  <2>2. keys[val[v].id].key \in Strings
    BY <2>1, RowIs DEF Shaped, KeysPart
  <2> QED
    BY <1>11, <1>12, <1>13, <2>1, <2>2 DEF Check
<1>14. ASSUME NEW v \in Validators, PgValidate(v) \/ SqliteValidate(v) \/ ValidateFails(v)
       PROVE  Shaped'
  <2>1. UNCHANGED <<backend, keys_by_key, admin, issued, created, shown, unread, revoked, overlapped>>
    BY <1>14 DEF PgValidate, SqliteValidate, ValidateFails
  <2>2. MatchAndUse(v) \/ Refused(v)
    BY <1>14 DEF PgValidate, SqliteValidate, ValidateFails
  <2> QED
    BY <1>11, <1>12, <2>1, <2>2, MatchedAndUsed
<1>15. ASSUME NEW a \in Admins, PgUpdate(a) \/ SqliteUpdate(a) PROVE Shaped'
  <2>1. PICK i \in created, enable \in Enables, ex \in Expiries, pc \in {"pg_write", "sqlite_write"} :
          /\ Exists(i)
          /\ admin' = [admin EXCEPT ![a] =
               [pc |-> pc, id |-> i, secret |-> 0, enable |-> enable,
                row |-> Merged(keys[i], enable, ex)]]
    BY <1>15 DEF PgUpdate, SqliteUpdate
  <2>2. /\ UNCHANGED <<backend, keys, keys_by_key, val, issued, created, history>>
        /\ backend # "memory"
    BY <1>15 DEF PgUpdate, SqliteUpdate
  <2>3. Grows /\ i \in Ids
    BY <2>2, NothingNew DEF Shaped
  <2>4. PICK r \in Rows : r = Merged(keys[i], enable, ex)
    BY <2>3, MergedIs DEF Shaped, KeysPart
  <2>5. PICK c : c = [pc |-> pc, id |-> i, secret |-> 0, enable |-> enable, row |-> r]
    OBVIOUS
  <2>6. c \in Calls /\ CallOK(c, backend', issued', created')
    BY <2>2, <2>3, <2>5, KeysAssumption DEF Calls, CallPcs, CallOK, Grows
  <2>7. AdminPart(admin', backend', issued', created')
    BY <2>1, <2>3, <2>4, <2>5, <2>6, Moves
  <2> QED
    BY <2>2, <2>7 DEF Shaped
<1>16. ASSUME NEW a \in Admins, PgWriteBack(a) \/ SqliteWriteBack(a) PROVE Shaped'
  <2> DEFINE c == admin[a]
  <2>1. /\ UNCHANGED <<backend, keys_by_key, val, issued, created, shown, unread, accepted,
                       overlapped>>
        /\ WriteRow(c.id, c.row, c.enable)
        /\ Done(a) \/ (c.pc = "sqlite_write" /\ Continue(a, "reread", c.id, NoRow, 0))
        /\ c.pc \in {"pg_write", "sqlite_write"}
    BY <1>16 DEF PgWriteBack, SqliteWriteBack, At
  <2>2. Grows /\ c \in Calls /\ c.id \in Ids
    BY <2>1, NothingNew, MovesTo DEF CallOK
  <2>3. AdminPart(admin', backend', issued', created')
    BY <2>1, <2>2, IsDone, GoesOnBare
  <2>4. CASE ~Exists(c.id)
    BY <2>1, <2>3, <2>4 DEF Shaped, WriteRow
  <2>5. CASE Exists(c.id)
    <3>1. /\ keys' = [keys EXCEPT ![c.id].enabled = c.row.enabled, ![c.id].expires = c.row.expires]
          /\ Remember(c.id, c.enable)
      BY <2>1, <2>5 DEF WriteRow
    <3>2. c.row.enabled \in BOOLEAN /\ c.row.expires \in Expiry /\ c.enable \in Enables
      BY <2>2, RowIs DEF Calls
    <3>3. PICK r \in Rows : keys' = [keys EXCEPT ![c.id] = r] /\ r.key = keys[c.id].key
      <4>1. PICK i \in Ids, on \in BOOLEAN, ex \in Expiry :
              i = c.id /\ on = c.row.enabled /\ ex = c.row.expires
        BY <2>2, <3>2
      <4>2. keys' = [keys EXCEPT ![i].enabled = on, ![i].expires = ex]
        BY <3>1, <4>1
      <4>3. \E r \in Rows :
              /\ keys' = [keys EXCEPT ![i] = r] /\ r.enabled = on
              /\ r.key = keys[i].key /\ r.usage_count = keys[i].usage_count
        BY <4>2, WrittenBack, Zenon
      <4> QED
        BY <4>1, <4>3
    <3>4. keys[c.id].key.secret \in 1..issued /\ c.id \in created
      BY <2>2, <2>5 DEF Shaped, KeysPart, RowOK, Exists
    <3>5. KeysPart(keys', issued', created')
      BY <2>1, <2>2, <3>3, <3>4, PutRow
    <3>6. revoked' \subseteq created'
      BY <2>1, <3>1, <3>2, <3>4, RememberTyped
    <3> QED
      BY <2>1, <2>3, <3>5, <3>6 DEF Shaped
  <2> QED
    BY <2>4, <2>5
<1>17. ASSUME NEW a \in Admins, PgRotate(a) \/ SqliteRotate(a) PROVE Shaped'
  <2>1. PICK i \in created :
          /\ Exists(i) /\ SetKey(i)
          /\ \/ Continue(a, "reread", i, NoRow, issued') /\ backend = "sqlite"
             \/ admin' = admin
    BY <1>17 DEF PgRotate, SqliteRotate
  <2>2. /\ generate_api_key /\ UNCHANGED <<backend, keys_by_key, val, created, unread, accepted, revoked, overlapped>>
        /\ shown' \subseteq shown \cup {issued'}
    BY <1>17 DEF PgRotate, SqliteRotate, Reveal
  <2>3. /\ Grows /\ issued' = issued + 1 /\ issued' \in 1..MaxSecrets
        /\ Hash(Plain(issued')) \in Strings /\ Hash(Plain(issued')).secret = issued'
    BY <2>2, Generated DEF Shaped
  <2>4. i \in Ids
    BY <2>1 DEF Shaped
  <2>5. PICK r \in Rows : keys' = [keys EXCEPT ![i] = r] /\ r.key = Hash(Plain(issued'))
    <3>1. PICK key \in Strings : key = Hash(Plain(issued'))
      BY <2>3
    <3>2. keys' = [keys EXCEPT ![i].key = key]
      BY <2>1, <3>1 DEF SetKey
    <3>3. \E r \in Rows : keys' = [keys EXCEPT ![i] = r] /\ r.key = key
      BY <2>4, <3>2, Rekeyed, Zenon
    <3> QED
      BY <3>1, <3>3
  <2>6. KeysPart(keys', issued', created')
    <3>1. r.key.secret \in 1..issued' /\ i \in created'
      BY <2>1, <2>2, <2>3, <2>5
    <3> QED
      BY <2>3, <2>4, <2>5, <3>1, PutRow
  <2>7. AdminPart(admin', backend', issued', created')
    <3>1. CASE admin' = admin
      BY <2>3, <3>1, SameCalls
    <3>2. CASE Continue(a, "reread", i, NoRow, issued') /\ backend = "sqlite"
      <4>1. CallOK([pc |-> "reread", id |-> i, row |-> NoRow, secret |-> issued', enable |-> "keep"],
                   backend', issued', created')
        BY <2>2, <2>3, <2>4, <3>2 DEF CallOK
      <4>2. issued' \in 0..issued'
        BY <2>3
      <4> QED
        BY <2>3, <2>4, <3>2, <4>1, <4>2, Constants, Continues DEF CallPcs
    <3> QED
      BY <2>1, <3>1, <3>2
  <2>8. ValPart(val', backend', issued')
    BY <2>2, <2>3, SameRequests
  <2>9. shown' \subseteq 1..issued' /\ unread' \subseteq 1..issued'
    BY <2>2, <2>3 DEF Shaped
  <2> QED
    BY <2>2, <2>3, <2>6, <2>7, <2>8, <2>9 DEF Shaped, Grows
<1>18. ASSUME NEW a \in Admins, Reread(a) \/ StatementFails(a) PROVE Shaped'
  <2>1. /\ UNCHANGED <<backend, keys, keys_by_key, val, issued, created, accepted, revoked, overlapped>>
        /\ Done(a)
        /\ shown' \in {shown, shown \cup {admin[a].secret}}
        /\ unread' \in {unread, unread \cup {admin[a].secret}}
        /\ admin[a].secret # 0 \/ (shown' = shown /\ unread' = unread)
    BY <1>18 DEF Reread, StatementFails, Reveal, Lose
  <2>2. Grows /\ admin[a].secret \in 0..issued
    BY <2>1, NothingNew, MovesTo DEF CallOK, Calls, Shaped
  <2>3. AdminPart(admin', backend', issued', created')
    BY <2>1, <2>2, IsDone
  <2>4. shown' \subseteq 1..issued /\ unread' \subseteq 1..issued
    BY <2>1, <2>2 DEF Shaped
  <2> QED
    BY <2>1, <2>3, <2>4 DEF Shaped
<1>19. ASSUME NEW v \in Validators, Present(v) PROVE Shaped'
  <2>1. PICK token \in [hashed : {0, 1}, secret : 1..issued] :
          val' = [val EXCEPT ![v] = [IdleVal EXCEPT !.pc = "lookup", !.token = token]]
    BY <1>19 DEF Present
  <2>2. UNCHANGED <<backend, keys, keys_by_key, admin, issued, created, history>>
    BY <1>19 DEF Present
  <2>3. Grows
    BY <2>2, NothingNew
  <2>4. PICK q : q = [IdleVal EXCEPT !.pc = "lookup", !.token = token]
    OBVIOUS
  <2>5. q = [pc |-> q.pc, token |-> q.token, id |-> q.id]
    BY <2>4 DEF IdleVal
  <2>6. q.pc = "lookup" /\ q.token = token /\ q.id = NoId
    BY <2>4 DEF IdleVal
  <2>7. token \in Strings /\ token.secret \in 1..issued
    <3>1. issued \in 0..MaxSecrets /\ MaxSecrets \in Nat
      BY KeysAssumption DEF Shaped
    <3>2. token = [hashed |-> token.hashed, secret |-> token.secret]
      OBVIOUS
    <3>3. token.hashed \in {0, 1} /\ token.secret \in 1..issued
      OBVIOUS
    <3>4. token.secret \in 0..MaxSecrets
      BY <3>1, <3>3
    <3> QED
      BY <3>2, <3>3, <3>4 DEF Strings
  <2>8. q \in Requests /\ RequestOK(q, backend', issued')
    BY <2>2, <2>5, <2>6, <2>7 DEF Requests, RequestOK, Shaped
  <2>9. ValPart(val', backend', issued')
    BY <2>1, <2>3, <2>4, <2>8, RequestMoves
  <2> QED
    BY <2>2, <2>9 DEF Shaped
<1>20. ASSUME NEW v \in Validators, Answer(v) PROVE Shaped'
  <2>1. /\ UNCHANGED <<backend, keys, keys_by_key, admin, issued, created, history>>
        /\ val' = [val EXCEPT ![v] = IdleVal]
    BY <1>20 DEF Answer
  <2>2. Grows
    BY <2>1, NothingNew
  <2>3. RequestOK(IdleVal, backend', issued')
    BY <2>2 DEF RequestOK, IdleVal, Plain, Grows
  <2>4. ValPart(val', backend', issued')
    BY <2>1, <2>2, <2>3, Constants, RequestMoves
  <2> QED
    BY <2>1, <2>4 DEF Shaped
<1>21. CASE Expire
  <2>1. PICK i \in created : keys[i].expires = "future" /\ keys' = [keys EXCEPT ![i].expires = "past"]
    BY <1>21 DEF Expire
  <2>2. UNCHANGED <<backend, keys_by_key, admin, val, issued, created, history>>
    BY <1>21 DEF Expire
  <2>3. Grows /\ i \in Ids
    BY <2>2, NothingNew DEF Shaped
  <2>4. PICK r \in Rows : keys' = [keys EXCEPT ![i] = r] /\ r.key = keys[i].key
    BY <2>1, <2>3, Written DEF Expiry
  <2>5. keys[i].key.secret \in 1..issued
    BY <2>1, <2>3 DEF Shaped, KeysPart, RowOK, NoRow
  <2>6. KeysPart(keys', issued', created')
    BY <2>2, <2>3, <2>4, <2>5, PutRow
  <2> QED
    BY <2>2, <2>6 DEF Shaped
<1> QED
  BY <1>0, <1>1, <1>2, <1>3, <1>4, <1>5, <1>6, <1>7, <1>8, <1>9, <1>10, <1>13, <1>14, <1>15,
     <1>16, <1>17, <1>18, <1>19, <1>20, <1>21
  DEF Next, AdminStep, Validate

-----------------------------------------------------------------------------
(* What the rows say of their keys.  Between two calls the secret of every *)
(* row has been told; within a call, the call still has it to tell.  An    *)
(* entry a rotation has cloned counts no more uses than there were.        *)

Rotating == {"rotate_unindex", "rotate_insert"}
Telling == {"index", "reread"}

Told(s) ==
  \/ s \in shown \cup unread
  \/ \E a \in Admins : admin[a].pc \in Telling /\ admin[a].secret = s

Known == \A i \in Ids : Exists(i) => Told(keys[i].key.secret)

Clones == \A a \in Admins : admin[a].pc \in Rotating =>
            admin[a].row.usage_count <= accepted[admin[a].id]

Honest ==
  /\ Known
  /\ UsageCounted
  /\ \A i \in Ids \ created : accepted[i] = 0
  /\ Clones

(* No secret and no use is forgotten.                                      *)
Remembers ==
  /\ shown \subseteq shown' /\ unread \subseteq unread'
  /\ accepted' \in [Ids -> Nat] /\ \A i \in Ids : accepted[i] <= accepted'[i]

(* A call that had a secret to tell has told it or still has it.           *)
TellsOn ==
  \A b \in Admins : admin[b].pc \in Telling /\ admin[b].secret # 0 =>
    \/ admin[b].secret \in shown' \cup unread'
    \/ admin'[b].pc \in Telling /\ admin'[b].secret = admin[b].secret

(* What was told, or is about to be, stays so.                             *)
LEMMA ToldLasts ==
  ASSUME Remembers, TellsOn, NEW s, s # 0, Told(s)
  PROVE  Told(s)'
  BY DEF Remembers, TellsOn, Told

(* A call moves on and has nothing left to tell.                           *)
LEMMA MovesTell ==
  ASSUME Shaped, Honest, Remembers, NEW a \in Admins, NEW c \in Calls,
         admin' = [admin EXCEPT ![a] = c],
         c.pc \in Rotating => c.row.usage_count <= accepted'[c.id],
         admin[a].pc \in Telling /\ admin[a].secret # 0 => admin[a].secret \in shown' \cup unread'
  PROVE  TellsOn /\ Clones'
<1>1. admin \in [Admins -> Calls]
  BY DEF Shaped, AdminPart
<1>2. TellsOn
  BY <1>1 DEF TellsOn
<1>3. ASSUME NEW b \in Admins, admin'[b].pc \in Rotating
      PROVE  admin'[b].row.usage_count <= accepted'[admin'[b].id]
  <2>1. CASE b = a
    BY <1>1, <1>3, <2>1
  <2>2. CASE b # a
    <3>1. admin'[b] = admin[b]
      BY <1>1, <2>2
    <3>2. admin[b].id \in Ids /\ admin[b].row.usage_count \in Nat
      BY <1>1, <1>3, <3>1, RowIs DEF Shaped, AdminPart, CallOK, Rotating, Calls
    <3>3. admin[b].row.usage_count <= accepted[admin[b].id]
      BY <1>3, <3>1 DEF Honest, Clones
    <3>4. /\ accepted[admin[b].id] \in Nat /\ accepted'[admin[b].id] \in Nat
          /\ accepted[admin[b].id] <= accepted'[admin[b].id]
      BY <3>2 DEF Remembers, Shaped
    <3> QED
      BY <3>1, <3>2, <3>3, <3>4
  <2> QED
    BY <2>1, <2>2
<1> QED
  BY <1>2, <1>3 DEF Clones

(* No call moves.                                                          *)
LEMMA StaysTold ==
  ASSUME Shaped, Honest, Remembers, admin' = admin
  PROVE  TellsOn /\ Clones'
<1>1. TellsOn
  BY DEF TellsOn
<1>2. ASSUME NEW b \in Admins, admin[b].pc \in Rotating
      PROVE  admin[b].row.usage_count <= accepted'[admin[b].id]
  <2>1. admin[b].id \in Ids /\ admin[b].row.usage_count \in Nat
    BY <1>2, RowIs DEF Shaped, AdminPart, CallOK, Rotating, Calls
  <2>2. admin[b].row.usage_count <= accepted[admin[b].id]
    BY <1>2 DEF Honest, Clones
  <2>3. /\ accepted[admin[b].id] \in Nat /\ accepted'[admin[b].id] \in Nat
        /\ accepted[admin[b].id] <= accepted'[admin[b].id]
    BY <2>1 DEF Remembers, Shaped
  <2> QED
    BY <2>1, <2>2, <2>3
<1> QED
  BY <1>1, <1>2 DEF Clones

(* A row is written whose secret is told and whose uses are counted.       *)
LEMMA PutHonest ==
  ASSUME Shaped, Honest, Grows, Remembers, TellsOn, Clones', NEW i \in Ids, NEW r \in Rows,
         keys' = [keys EXCEPT ![i] = r],
         \A j \in Ids : j # i => accepted'[j] = accepted[j],
         i \in created',
         r # NoRow => /\ Told(r.key.secret)' /\ r.usage_count <= accepted'[i]
                      /\ backend # "memory" => r.usage_count = accepted'[i]
  PROVE  Honest'
<1>1. keys \in [Ids -> Rows]
  BY DEF Shaped, KeysPart
<1>2. Known'
  <2>1. ASSUME NEW j \in Ids, keys'[j] # NoRow PROVE Told(keys[j].key.secret)'
    <3>1. CASE j = i
      <4>1. PICK s : s = r.key.secret
        OBVIOUS
      <4>2. keys'[j].key.secret = s /\ Told(s)'
        BY <1>1, <2>1, <3>1, <4>1
      <4> QED
        BY <4>2 DEF Told
    <3>2. CASE j # i
      <4>1. keys'[j] = keys[j] /\ keys[j] # NoRow
        BY <1>1, <2>1, <3>2
      <4>2. PICK s : s = keys[j].key.secret
        OBVIOUS
      <4>3. s # 0 /\ Told(s)
        BY <4>1, <4>2 DEF Shaped, KeysPart, RowOK, Honest, Known, Exists
      <4>4. Told(s)' /\ keys'[j].key.secret = s
        BY <4>1, <4>2, <4>3, ToldLasts
      <4> QED
        BY <4>4 DEF Told
    <3> QED
      BY <3>1, <3>2
  <2> QED
    BY <2>1 DEF Known, Exists
<1>3. UsageCounted'
  <2>1. ASSUME NEW j \in Ids, keys'[j] # NoRow
        PROVE  /\ keys'[j].usage_count <= accepted'[j]
               /\ backend # "memory" => keys'[j].usage_count = accepted'[j]
    BY <1>1, <2>1 DEF Honest, UsageCounted, Exists
  <2> QED
    BY <2>1 DEF UsageCounted, Exists, Grows
<1>4. \A j \in Ids \ created' : accepted'[j] = 0
  BY DEF Honest, Grows
<1> QED
  BY <1>2, <1>3, <1>4 DEF Honest

(* The rows are left alone.                                                *)
LEMMA SameHonest ==
  ASSUME Shaped, Honest, Grows, Remembers, TellsOn, Clones', keys' = keys, accepted' = accepted
  PROVE  Honest'
<1>2. Known'
  <2>1. ASSUME NEW j \in Ids, keys[j] # NoRow PROVE Told(keys[j].key.secret)'
    <3>1. PICK s : s = keys[j].key.secret
      OBVIOUS
    <3>2. s # 0 /\ Told(s)
      BY <2>1, <3>1 DEF Shaped, KeysPart, RowOK, Honest, Known, Exists
    <3>3. Told(s)'
      BY <3>2, ToldLasts
    <3> QED
      BY <3>1, <3>3
  <2> QED
    BY <2>1 DEF Known, Exists
<1>3. UsageCounted' /\ \A j \in Ids \ created' : accepted'[j] = 0
  BY DEF Honest, UsageCounted, Exists, Grows
<1> QED
  BY <1>2, <1>3 DEF Honest

(* The store starts honest: an old key's secret is known to its owner.     *)
LEMMA InitHonest == Init => Honest
<1> SUFFICES ASSUME Init PROVE Honest
  OBVIOUS
<1>1. Shaped
  BY InitShaped
<1>2. Known
  <2>1. ASSUME NEW i \in Ids, Exists(i) PROVE keys[i].key.secret \in shown
    BY <1>1, <2>1 DEF Shaped, KeysPart, RowOK, Exists, Init
  <2> QED
    BY <2>1 DEF Known, Told
<1>3. \A i \in Ids : keys[i].usage_count = 0
  BY DEF Init, NoRow
<1>4. Clones
  BY DEF Init, Clones, IdleAdmin, Rotating
<1> QED
  BY <1>2, <1>3, <1>4 DEF Honest, UsageCounted, Init

(* Every step of every backend keeps the rows honest.                      *)
THEOREM HonestNext == Shaped /\ Honest /\ [Next]_vars => Honest'
<1> SUFFICES ASSUME Shaped, Honest, [Next]_vars PROVE Honest'
  OBVIOUS
<1> USE DEF store, history
<1>a. /\ keys \in [Ids -> Rows] /\ accepted \in [Ids -> Nat] /\ created \subseteq Ids
      /\ \A i \in Ids : keys[i].usage_count \in Nat /\ accepted[i] \in Nat
  BY RowIs DEF Shaped, KeysPart
<1>b. ASSUME NEW i \in Ids, Exists(i), NEW s, s = keys[i].key.secret PROVE s # 0 /\ Told(s)
  BY <1>b DEF Honest, Known, Shaped, KeysPart, RowOK, Exists
<1>c. ASSUME UNCHANGED accepted, shown \subseteq shown', unread \subseteq unread'
      PROVE  Remembers
  BY <1>a, <1>c DEF Remembers
<1>0. CASE UNCHANGED vars
  BY <1>0 DEF Honest, vars, Known, UsageCounted, Clones, Told, Exists
<1>1. ASSUME NEW a \in Admins, Create(a) \/ PgCreate(a) \/ SqliteCreate(a) PROVE Honest'
  <2>1. PICK i \in Ids \ created, ex \in {"never", "future"} :
          /\ Insert(i, ex)
          /\ \/ Continue(a, "index", i, NoRow, issued') /\ shown' = shown
             \/ Continue(a, "reread", i, NoRow, issued') /\ shown' = shown
             \/ admin' = admin /\ shown' = shown \cup {issued'}
    BY <1>1 DEF Create, PgCreate, SqliteCreate, Reveal
  <2>2. /\ generate_api_key /\ UNCHANGED <<backend, unread, accepted>> /\ admin[a].pc = "idle"
    BY <1>1 DEF Create, PgCreate, SqliteCreate, At
  <2>3. /\ Grows /\ issued' \in 1..MaxSecrets /\ created' = created \cup {i}
    BY <2>1, <2>2, Inserted
  <2>4. PICK r \in Rows : /\ keys' = [keys EXCEPT ![i] = r] /\ r.key.secret = issued'
                          /\ r.usage_count = 0
    BY <2>1, <2>2, Inserted
  <2>5. Remembers
    BY <1>c, <2>1, <2>2
  <2>6. TellsOn /\ Clones' /\ Told(r.key.secret)'
    <3>1. CASE admin' = admin /\ shown' = shown \cup {issued'}
      <4>1. TellsOn /\ Clones'
        BY <2>5, <3>1, StaysTold
      <4>2. r.key.secret \in shown'
        BY <2>4, <3>1
      <4> QED
        BY <4>1, <4>2 DEF Told
    <3>2. ASSUME NEW pc \in Telling, Continue(a, pc, i, NoRow, issued')
          PROVE  TellsOn /\ Clones' /\ Told(r.key.secret)'
      <4>1. PICK c : c = [pc |-> pc, id |-> i, row |-> NoRow, secret |-> r.key.secret, enable |-> "keep"]
        OBVIOUS
      <4>2. c \in Calls /\ c.pc \notin Rotating /\ c.secret = r.key.secret /\ c.pc \in Telling
        BY <2>3, <2>4, <4>1, Constants, KeysAssumption
        DEF Calls, CallPcs, Enables, Telling, Rotating
      <4>3. admin' = [admin EXCEPT ![a] = c]
        BY <2>4, <3>2, <4>1 DEF Continue
      <4>4. TellsOn /\ Clones'
        BY <2>2, <2>5, <4>2, <4>3, MovesTell DEF Telling
      <4>5. admin'[a] = c
        BY <4>3 DEF Shaped, AdminPart
      <4> QED
        BY <4>2, <4>4, <4>5 DEF Told
    <3> QED
      BY <2>1, <3>1, <3>2 DEF Telling
  <2>7. accepted'[i] = r.usage_count /\ r.usage_count <= accepted'[i]
    BY <2>1, <2>2, <2>4 DEF Honest
  <2> QED
    BY <2>2, <2>3, <2>4, <2>5, <2>6, <2>7, PutHonest
<1>2. ASSUME NEW a \in Admins, Index(a) PROVE Honest'
  <2>1. /\ UNCHANGED <<backend, keys, issued, created, unread, accepted>>
        /\ shown' = shown \cup {admin[a].secret} /\ admin' = [admin EXCEPT ![a] = IdleAdmin]
    BY <1>2 DEF Index, Reveal, Done
  <2>2. Grows /\ Remembers /\ IdleAdmin \in Calls /\ IdleAdmin.pc \notin Rotating
    BY <1>c, <2>1, NothingNew, Constants DEF IdleAdmin, Rotating
  <2>3. TellsOn /\ Clones'
    BY <2>1, <2>2, MovesTell
  <2> QED
    BY <2>1, <2>2, <2>3, SameHonest
<1>3. ASSUME NEW i \in created, Exists(i), NEW r \in Rows, keys' = [keys EXCEPT ![i] = r],
             r.key = keys[i].key, r.usage_count = keys[i].usage_count,
             UNCHANGED <<backend, issued, created, shown, unread, accepted>>, TellsOn, Clones'
      PROVE  Honest'
  <2>1. Grows /\ Remembers /\ i \in Ids
    BY <1>a, <1>c, <1>3, NothingNew
  <2>2. PICK s : s = r.key.secret
    OBVIOUS
  <2>3. Told(s)'
    BY <1>3, <1>b, <2>1, <2>2, ToldLasts
  <2>4. r.usage_count <= accepted'[i] /\ (backend # "memory" => r.usage_count = accepted'[i])
    BY <1>3, <2>1 DEF Honest, UsageCounted
  <2>5. Told(r.key.secret)'
    BY <2>2, <2>3
  <2> QED
    BY <1>3, <2>1, <2>4, <2>5, PutHonest
<1>4. ASSUME NEW a \in Admins, Update(a) PROVE Honest'
  <2>1. PICK i \in created, enable \in Enables, ex \in Expiries :
          Exists(i) /\ keys' = [keys EXCEPT ![i] = Merged(keys[i], enable, ex)]
    <3>1. PICK i \in created, enable \in Enables, ex \in Expiries :
            Exists(i) /\ keys' = [keys EXCEPT ![i] = Merged(@, enable, ex)]
      BY <1>4 DEF Update
    <3> QED
      BY <1>a, <3>1
  <2>2. UNCHANGED <<backend, issued, created, shown, unread, accepted>> /\ admin' = admin
    BY <1>4 DEF Update
  <2>3. PICK k \in Rows : k = keys[i]
    BY <1>a, <2>1
  <2>4. /\ Merged(k, enable, ex) \in Rows /\ Merged(k, enable, ex).key = k.key
        /\ Merged(k, enable, ex).usage_count = k.usage_count
    BY MergedIs
  <2>5. TellsOn /\ Clones'
    BY <1>c, <2>2, StaysTold
  <2> QED
    BY <1>3, <2>1, <2>2, <2>3, <2>4, <2>5
<1>5. ASSUME NEW a \in Admins, Revoke(a) \/ PgRevoke(a) \/ SqliteRevoke(a) PROVE Honest'
  <2>1. PICK i \in created : Exists(i) /\ keys' = [keys EXCEPT ![i].enabled = FALSE]
    BY <1>5 DEF Revoke, PgRevoke, SqliteRevoke
  <2>2. UNCHANGED <<backend, issued, created, shown, unread, accepted>> /\ admin' = admin
    BY <1>5 DEF Revoke, PgRevoke, SqliteRevoke
  <2>3. PICK r \in Rows : /\ keys' = [keys EXCEPT ![i] = r] /\ r.key = keys[i].key
                          /\ r.usage_count = keys[i].usage_count
    BY <1>a, <2>1, Written
  <2>4. TellsOn /\ Clones'
    BY <1>c, <2>2, StaysTold
  <2> QED
    BY <1>3, <2>1, <2>2, <2>3, <2>4
<1>6. CASE Expire
  <2>1. PICK i \in created : keys[i].expires = "future" /\ keys' = [keys EXCEPT ![i].expires = "past"]
    BY <1>6 DEF Expire
  <2>2. UNCHANGED <<backend, issued, created, shown, unread, accepted>> /\ admin' = admin
    BY <1>6 DEF Expire
  <2>3. PICK r \in Rows : /\ keys' = [keys EXCEPT ![i] = r] /\ r.key = keys[i].key
                          /\ r.usage_count = keys[i].usage_count
    BY <1>a, <2>1, Written DEF Expiry
  <2>4. TellsOn /\ Clones' /\ Exists(i)
    BY <1>c, <2>1, <2>2, StaysTold DEF Exists, NoRow
  <2> QED
    BY <1>3, <2>1, <2>2, <2>3, <2>4
<1>7. ASSUME NEW a \in Admins, PgWriteBack(a) \/ SqliteWriteBack(a) PROVE Honest'
  <2> DEFINE c == admin[a]
  <2>1. /\ UNCHANGED <<backend, issued, created, shown, unread, accepted>>
        /\ WriteRow(c.id, c.row, c.enable)
        /\ Done(a) \/ Continue(a, "reread", c.id, NoRow, 0)
        /\ c.pc \in {"pg_write", "sqlite_write"}
    BY <1>7 DEF PgWriteBack, SqliteWriteBack, At
  <2>2. Grows /\ Remembers /\ c \in Calls /\ c.id \in Ids /\ CallOK(c, backend, issued, created)
    BY <1>c, <2>1, NothingNew, MovesTo DEF CallOK
  <2>3. PICK d \in Calls : admin' = [admin EXCEPT ![a] = d] /\ d.pc \notin Rotating
    <3>1. CASE Done(a)
      BY <3>1, Constants DEF Done, IdleAdmin, Rotating
    <3>2. CASE Continue(a, "reread", c.id, NoRow, 0)
      <4>1. PICK d : d = [pc |-> "reread", id |-> c.id, row |-> NoRow, secret |-> 0,
                          enable |-> "keep"]
        OBVIOUS
      <4>2. admin' = [admin EXCEPT ![a] = d]
        BY <3>2, <4>1 DEF Continue
      <4>3. d \in Calls /\ d.pc \notin Rotating
        BY <2>2, <4>1, Constants, KeysAssumption DEF Calls, CallPcs, Rotating, Enables
      <4> QED
        BY <4>2, <4>3
    <3> QED
      BY <2>1, <3>1, <3>2
  <2>4. TellsOn /\ Clones'
    BY <2>1, <2>2, <2>3, MovesTell DEF Telling
  <2>5. CASE ~Exists(c.id)
    BY <2>1, <2>2, <2>4, <2>5, SameHonest DEF WriteRow
  <2>6. CASE Exists(c.id)
    <3>1. PICK on \in BOOLEAN, ex \in Expiry :
            keys' = [keys EXCEPT ![c.id].enabled = on, ![c.id].expires = ex]
      <4>1. c.row.enabled \in BOOLEAN /\ c.row.expires \in Expiry
        BY <2>2, RowIs DEF Calls
      <4>2. keys' = [keys EXCEPT ![c.id].enabled = c.row.enabled, ![c.id].expires = c.row.expires]
        BY <2>1, <2>6 DEF WriteRow
      <4> QED
        BY <4>1, <4>2, Zenon
    <3>2. PICK r \in Rows : /\ keys' = [keys EXCEPT ![c.id] = r] /\ r.key = keys[c.id].key
                            /\ r.usage_count = keys[c.id].usage_count
      <4>1. PICK i \in Ids : i = c.id
        BY <2>2
      <4>2. keys' = [keys EXCEPT ![i].enabled = on, ![i].expires = ex]
        BY <3>1, <4>1
      <4>3. \E r \in Rows :
              /\ keys' = [keys EXCEPT ![i] = r] /\ r.enabled = on
              /\ r.key = keys[i].key /\ r.usage_count = keys[i].usage_count
        BY <4>2, WrittenBack, Zenon
      <4> QED
        BY <4>1, <4>3
    <3>3. c.id \in created
      BY <2>2, <2>6 DEF Shaped, KeysPart, Exists
    <3> QED
      BY <1>3, <2>1, <2>4, <2>6, <3>2, <3>3
  <2> QED
    BY <2>5, <2>6
<1>8. ASSUME NEW a \in Admins, Delete(a) \/ PgDelete(a) \/ SqliteDelete(a) PROVE Honest'
  <2>1. PICK i \in created : /\ Exists(i) /\ keys' = [keys EXCEPT ![i] = NoRow]
                             /\ Continue(a, "unindex", i, keys[i], 0) \/ admin' = admin
    BY <1>8 DEF Delete, PgDelete, SqliteDelete, Remove
  <2>2. UNCHANGED <<backend, issued, created, shown, unread, accepted>> /\ admin[a].pc = "idle"
    BY <1>8 DEF Delete, PgDelete, SqliteDelete, At
  <2>3. Grows /\ Remembers /\ i \in Ids
    BY <1>a, <1>c, <2>2, NothingNew
  <2>4. TellsOn /\ Clones'
    <3>1. CASE admin' = admin
      BY <2>3, <3>1, StaysTold
    <3>2. CASE Continue(a, "unindex", i, keys[i], 0)
      <4>1. PICK c : c = [pc |-> "unindex", id |-> i, row |-> keys[i], secret |-> 0, enable |-> "keep"]
        OBVIOUS
      <4>2. c \in Calls /\ c.pc \notin Rotating
        BY <1>a, <2>3, <4>1, KeysAssumption DEF Calls, CallPcs, Enables, Rotating
      <4> QED
        BY <2>2, <2>3, <3>2, <4>1, <4>2, MovesTell DEF Continue, Telling
    <3> QED
      BY <2>1, <3>1, <3>2
  <2> QED
    BY <2>1, <2>2, <2>3, <2>4, Constants, PutHonest
<1>9. ASSUME NEW a \in Admins, Unindex(a) PROVE Honest'
  <2>1. /\ UNCHANGED <<backend, keys, issued, created, shown, unread, accepted>>
        /\ admin' = [admin EXCEPT ![a] = IdleAdmin] /\ admin[a].pc = "unindex"
    BY <1>9 DEF Unindex, Done, At
  <2>2. Grows /\ Remembers /\ IdleAdmin \in Calls /\ IdleAdmin.pc \notin Rotating
    BY <1>c, <2>1, NothingNew, Constants DEF IdleAdmin, Rotating
  <2>3. TellsOn /\ Clones'
    BY <2>1, <2>2, MovesTell DEF Telling
  <2> QED
    BY <2>1, <2>2, <2>3, SameHonest
<1>10. ASSUME NEW a \in Admins, Rotate(a) PROVE Honest'
  <2>1. PICK i \in created : Exists(i) /\ Continue(a, "rotate_unindex", i, keys[i], issued')
    BY <1>10 DEF Rotate
  <2>2. /\ UNCHANGED <<backend, keys, created, shown, unread, accepted>>
        /\ generate_api_key /\ admin[a].pc = "idle"
    BY <1>10 DEF Rotate, At
  <2>3. Grows /\ issued' \in 1..MaxSecrets /\ i \in Ids /\ Remembers
    BY <1>a, <1>c, <2>1, <2>2, Generated
  <2>4. PICK c : c = [pc |-> "rotate_unindex", id |-> i, row |-> keys[i], secret |-> issued',
                      enable |-> "keep"]
    OBVIOUS
  <2>5. c \in Calls
    BY <1>a, <2>3, <2>4, KeysAssumption DEF Calls, CallPcs, Enables
  <2>6. c.row.usage_count <= accepted'[c.id]
    BY <2>1, <2>2, <2>3, <2>4 DEF Honest, UsageCounted
  <2>7. TellsOn /\ Clones'
    BY <2>1, <2>2, <2>3, <2>4, <2>5, <2>6, MovesTell DEF Continue, Telling
  <2> QED
    BY <2>2, <2>3, <2>7, SameHonest
<1>11. ASSUME NEW a \in Admins, RotateUnindex(a) PROVE Honest'
  <2> DEFINE c == admin[a]
  <2>1. /\ UNCHANGED <<backend, keys, issued, created, shown, unread, accepted>>
        /\ Goto(a, "rotate_insert") /\ c.pc = "rotate_unindex"
    BY <1>11 DEF RotateUnindex, At
  <2>2. Grows /\ Remembers /\ c \in Calls
    BY <1>c, <2>1, NothingNew, MovesTo
  <2>3. PICK d : d = [pc |-> "rotate_insert", id |-> c.id, row |-> c.row, secret |-> c.secret,
                      enable |-> c.enable]
    OBVIOUS
  <2>4. d \in Calls /\ d.row = c.row /\ d.id = c.id
    BY <2>2, <2>3 DEF Calls, CallPcs
  <2>5. admin' = [admin EXCEPT ![a] = d]
    BY <2>1, <2>3, MovesTo
  <2>6. d.row.usage_count <= accepted'[d.id]
    BY <2>1, <2>4 DEF Honest, Clones, Rotating
  <2>7. TellsOn /\ Clones'
    BY <2>1, <2>2, <2>4, <2>5, <2>6, MovesTell DEF Telling
  <2> QED
    BY <2>1, <2>2, <2>7, SameHonest
<1>12. ASSUME NEW a \in Admins, RotateInsert(a) PROVE Honest'
  <2> DEFINE c == admin[a]
  <2>1. /\ UNCHANGED <<backend, issued, created, shown, unread, accepted>>
        /\ Continue(a, "index", c.id, NoRow, c.secret) /\ c.pc = "rotate_insert"
        /\ keys' = [keys EXCEPT ![c.id] = [c.row EXCEPT !.key = Hash(Plain(c.secret))]]
    BY <1>12 DEF RotateInsert, At
  <2>2. /\ Grows /\ Remembers /\ c \in Calls /\ c.id \in Ids /\ c.id \in created
        /\ backend = "memory" /\ c.row \in Rows /\ c.secret \in 0..MaxSecrets
    BY <1>c, <2>1, NothingNew, MovesTo DEF CallOK, Calls
  <2>3. PICK d : d = [pc |-> "index", id |-> c.id, row |-> NoRow, secret |-> c.secret,
                      enable |-> "keep"]
    OBVIOUS
  <2>4. d \in Calls /\ d.pc = "index" /\ d.secret = c.secret
    BY <2>2, <2>3, Constants DEF Calls, CallPcs, Enables
  <2>5. admin' = [admin EXCEPT ![a] = d]
    BY <2>1, <2>3 DEF Continue
  <2>6. TellsOn /\ Clones'
    BY <2>1, <2>2, <2>4, <2>5, MovesTell DEF Telling, Rotating
  <2>7. PICK key \in Strings : key = Hash(Plain(c.secret)) /\ key.secret = c.secret
    BY <2>2, HashedSecret
  <2>8. PICK r : r = [c.row EXCEPT !.key = key]
    OBVIOUS
  <2>9. r \in Rows /\ r.key = key /\ r.usage_count = c.row.usage_count
    BY <2>2, <2>8 DEF Rows
  <2>10. Told(r.key.secret)'
    <3>1. admin'[a].pc \in Telling /\ admin'[a].secret = r.key.secret
      BY <2>4, <2>5, <2>7, <2>9 DEF Shaped, AdminPart, Telling
    <3> QED
      BY <3>1 DEF Told
  <2>11. r.usage_count <= accepted'[c.id]
    BY <2>1, <2>9 DEF Honest, Clones, Rotating
  <2> QED
    BY <2>1, <2>2, <2>6, <2>7, <2>8, <2>9, <2>10, <2>11, PutHonest
<1>13. ASSUME NEW a \in Admins, PgRotate(a) \/ SqliteRotate(a) PROVE Honest'
  <2>1. PICK i \in created :
          /\ Exists(i) /\ SetKey(i)
          /\ \/ Continue(a, "reread", i, NoRow, issued') /\ shown' = shown
             \/ admin' = admin /\ shown' = shown \cup {issued'}
    BY <1>13 DEF PgRotate, SqliteRotate, Reveal
  <2>2. /\ generate_api_key /\ UNCHANGED <<backend, created, unread, accepted>>
        /\ admin[a].pc = "idle" /\ backend # "memory"
    BY <1>13 DEF PgRotate, SqliteRotate, At
  <2>3. /\ Grows /\ issued' \in 1..MaxSecrets /\ i \in Ids /\ Remembers
        /\ Hash(Plain(issued')) \in Strings /\ Hash(Plain(issued')).secret = issued'
    BY <1>a, <1>c, <2>1, <2>2, Generated
  <2>4. PICK key \in Strings : key = Hash(Plain(issued')) /\ key.secret = issued'
    BY <2>3
  <2>5. keys' = [keys EXCEPT ![i].key = key]
    BY <2>1, <2>4 DEF SetKey
  <2>6. PICK r \in Rows : /\ keys' = [keys EXCEPT ![i] = r] /\ r.key = key
                          /\ r.usage_count = keys[i].usage_count
    <3>1. i \in Ids
      BY <2>3
    <3>2. \E r \in Rows : /\ keys' = [keys EXCEPT ![i] = r] /\ r.enabled = keys[i].enabled
                          /\ r.key = key /\ r.usage_count = keys[i].usage_count
      BY <3>1, <2>5, Rekeyed, Zenon
    <3> QED
      BY <3>2
  <2>7. TellsOn /\ Clones' /\ Told(r.key.secret)'
    <3>1. CASE admin' = admin /\ shown' = shown \cup {issued'}
      <4>1. TellsOn /\ Clones'
        BY <2>3, <3>1, StaysTold
      <4>2. r.key.secret \in shown'
        BY <2>4, <2>6, <3>1
      <4> QED
        BY <4>1, <4>2 DEF Told
    <3>2. CASE Continue(a, "reread", i, NoRow, issued')
      <4>1. PICK c : c = [pc |-> "reread", id |-> i, row |-> NoRow, secret |-> r.key.secret,
                          enable |-> "keep"]
        OBVIOUS
      <4>2. c \in Calls /\ c.pc \notin Rotating /\ c.secret = r.key.secret /\ c.pc \in Telling
        BY <2>3, <2>4, <2>6, <4>1, Constants, KeysAssumption
        DEF Calls, CallPcs, Enables, Telling, Rotating
      <4>3. admin' = [admin EXCEPT ![a] = c]
        BY <2>4, <2>6, <3>2, <4>1 DEF Continue
      <4>4. TellsOn /\ Clones'
        BY <2>2, <2>3, <4>2, <4>3, MovesTell DEF Telling
      <4>5. admin'[a] = c
        BY <4>3 DEF Shaped, AdminPart
      <4> QED
        BY <4>2, <4>4, <4>5 DEF Told
    <3> QED
      BY <2>1, <3>1, <3>2
  <2>8. r.usage_count = accepted'[i] /\ r.usage_count <= accepted'[i]
    BY <1>a, <2>1, <2>2, <2>3, <2>6 DEF Honest, UsageCounted
  <2> QED
    BY <2>1, <2>2, <2>3, <2>6, <2>7, <2>8, PutHonest
<1>14. ASSUME NEW a \in Admins, Reread(a) \/ StatementFails(a) PROVE Honest'
  <2>1. /\ UNCHANGED <<backend, keys, issued, created, accepted>>
        /\ admin' = [admin EXCEPT ![a] = IdleAdmin]
        /\ shown \subseteq shown' /\ unread \subseteq unread'
        /\ admin[a].secret # 0 => admin[a].secret \in shown' \cup unread'
    BY <1>14 DEF Reread, StatementFails, Reveal, Lose, Done
  <2>2. Grows /\ Remembers /\ IdleAdmin \in Calls /\ IdleAdmin.pc \notin Rotating
    BY <1>c, <2>1, NothingNew, Constants DEF IdleAdmin, Rotating
  <2>3. TellsOn /\ Clones'
    BY <2>1, <2>2, MovesTell
  <2> QED
    BY <2>1, <2>2, <2>3, SameHonest
<1>15. ASSUME NEW a \in Admins, PgUpdate(a) \/ SqliteUpdate(a) PROVE Honest'
  <2>1. PICK i \in created, enable \in Enables, ex \in Expiries, pc \in {"pg_write", "sqlite_write"} :
          admin' = [admin EXCEPT ![a] =
            [pc |-> pc, id |-> i, secret |-> 0, enable |-> enable,
             row |-> Merged(keys[i], enable, ex)]]
    BY <1>15 DEF PgUpdate, SqliteUpdate
  <2>2. /\ UNCHANGED <<backend, keys, issued, created, shown, unread, accepted>>
        /\ admin[a].pc = "idle"
    BY <1>15 DEF PgUpdate, SqliteUpdate, At
  <2>3. Grows /\ Remembers
    BY <1>c, <2>2, NothingNew
  <2>4. PICK r \in Rows : r = Merged(keys[i], enable, ex)
    BY <1>a, <2>1, MergedIs
  <2>5. PICK c : c = [pc |-> pc, id |-> i, secret |-> 0, enable |-> enable, row |-> r]
    OBVIOUS
  <2>6. c \in Calls /\ c.pc \notin Rotating
    BY <1>a, <2>5, KeysAssumption DEF Calls, CallPcs, Rotating
  <2>7. TellsOn /\ Clones'
    BY <2>1, <2>2, <2>3, <2>4, <2>5, <2>6, MovesTell DEF Telling
  <2> QED
    BY <2>2, <2>3, <2>7, SameHonest
<1>16. ASSUME UNCHANGED <<backend, keys, admin, issued, created, shown, unread, accepted>>
       PROVE  Honest'
  <2>1. Grows /\ Remembers
    BY <1>c, <1>16, NothingNew
  <2> QED
    BY <1>16, <2>1, StaysTold, SameHonest
<1>17. ASSUME NEW v \in Validators, NEW i \in Ids, Usable(keys[i]), NEW key \in Strings,
              key.secret = keys[i].key.secret, Use(v, i, key),
              UNCHANGED <<backend, admin, issued, created, shown, unread>>
       PROVE  Honest'
  <2>1. Grows
    BY <1>17, NothingNew
  <2>2. PICK r \in Rows : /\ keys' = [keys EXCEPT ![i] = r] /\ r.key = key
                          /\ r.usage_count = keys[i].usage_count + 1
    BY <1>17, <2>1, Used
  <2>3. /\ accepted'[i] = accepted[i] + 1 /\ accepted' \in [Ids -> Nat]
        /\ \A j \in Ids : j # i => accepted'[j] = accepted[j]
    BY <1>a, <1>17 DEF Use
  <2>4. Remembers
    BY <1>a, <1>17, <2>3 DEF Remembers
  <2>5. TellsOn /\ Clones'
    BY <1>17, <2>4, StaysTold
  <2>6. Exists(i) /\ i \in created'
    BY <1>17 DEF Usable, Exists, Shaped, KeysPart
  <2>7. PICK s : s = r.key.secret
    OBVIOUS
  <2>8. Told(s)'
    BY <1>b, <1>17, <2>2, <2>4, <2>5, <2>6, <2>7, ToldLasts
  <2>9. /\ Told(r.key.secret)' /\ r.usage_count <= accepted'[i]
        /\ backend # "memory" => r.usage_count = accepted'[i]
    BY <1>a, <2>2, <2>3, <2>6, <2>7, <2>8 DEF Honest, UsageCounted
  <2> QED
    BY <2>1, <2>2, <2>3, <2>4, <2>5, <2>6, <2>9, PutHonest
<1>18. ASSUME NEW v \in Validators, Validate(v) PROVE Honest'
  <2>1. CASE Present(v) \/ Lookup(v) \/ Answer(v)
    BY <1>16, <2>1 DEF Present, Lookup, Answer
  <2>2. CASE Check(v)
    <3>1. val[v].id \in Ids
      BY <2>2 DEF Check, Shaped, ValPart, RequestOK
    <3>2. keys[val[v].id].key \in Strings
      BY <3>1, <1>a, RowIs
    <3> QED
      BY <1>16, <1>17, <2>2, <3>1, <3>2 DEF Check, Refused
  <2>3. CASE PgValidate(v) \/ SqliteValidate(v) \/ ValidateFails(v)
    <3>1. UNCHANGED <<backend, admin, issued, created, shown, unread>>
      BY <2>3 DEF PgValidate, SqliteValidate, ValidateFails
    <3>2. MatchAndUse(v) \/ Refused(v)
      BY <2>3 DEF PgValidate, SqliteValidate, ValidateFails
    <3>3. CASE Refused(v)
      BY <1>16, <3>1, <3>3 DEF Refused
    <3> QED
      BY <1>17, <3>1, <3>2, <3>3, MatchedAndUsed
  <2> QED
    BY <1>18, <2>1, <2>2, <2>3 DEF Validate
<1> QED
  BY <1>0, <1>1, <1>2, <1>4, <1>5, <1>6, <1>7, <1>8, <1>9, <1>10, <1>11, <1>12, <1>13, <1>14,
     <1>15, <1>18
  DEF Next, AdminStep

(* RowsHonest: between admin calls somebody was told the secret of every   *)
(* key, or SQLite is known to have lost it; and usage_count is the number  *)
(* of accepted validations (in memory, where a rotation writes back the    *)
(* count it cloned, at most that), whatever the calls that interleave.     *)
THEOREM RowsStayHonest == Spec => []RowsHonest
<1>1. Init => Shaped /\ Honest
  BY InitShaped, InitHonest
<1>2. Shaped /\ Honest /\ [Next]_vars => Shaped' /\ Honest'
  BY ShapedNext, HonestNext
<1>3. Shaped /\ Honest => RowsHonest
  <2> SUFFICES ASSUME Shaped, Honest PROVE RowsHonest
    OBVIOUS
  <2>1. Quiet => \A s : Told(s) => s \in shown \cup unread
    BY DEF Quiet, At, Told, Telling
  <2> QED
    BY <2>1 DEF Honest, Known, RowsHonest, SecretKnown
<1> QED
  BY <1>1, <1>2, <1>3, PTL DEF Spec

-----------------------------------------------------------------------------
(* A revocation that is counted stands, however many administrators work:  *)
(* when it is made no other call is about to write a copy of the row, and  *)
(* what is copied afterwards is disabled, unless the call was made to      *)
(* enable the key.                                                         *)

Writing == {"pg_write", "sqlite_write"}

Respects(c, rv) ==
  /\ c.pc \in Rotating => (c.row.enabled => c.id \notin rv)
  /\ c.pc \in Writing => (c.enable = "off" => ~c.row.enabled)
  /\ c.pc \in Writing => (c.enable = "keep" => (c.row.enabled => c.id \notin rv))

Withdrawn ==
  /\ \A i \in Ids : Exists(i) /\ keys[i].enabled => i \notin revoked
  /\ \A a \in Admins : Respects(admin[a], revoked)

(* Nothing is revoked at the start.                                        *)
LEMMA InitWithdrawn == Init => Withdrawn
  BY DEF Init, Withdrawn, Respects, IdleAdmin, Rotating, Writing

(* A call moves on, and no key is revoked while another is written back.   *)
LEMMA OnlyCall ==
  ASSUME Shaped, Withdrawn, NEW a \in Admins, NEW c, admin' = [admin EXCEPT ![a] = c],
         Respects(c, revoked'), revoked' \subseteq revoked
  PROVE  \A b \in Admins : Respects(admin'[b], revoked')
<1>1. admin \in [Admins -> Calls]
  BY DEF Shaped, AdminPart
<1>2. ASSUME NEW b \in Admins PROVE Respects(admin'[b], revoked')
  <2>1. CASE b = a
    BY <1>1, <2>1
  <2>2. CASE b # a
    <3>1. admin'[b] = admin[b] /\ Respects(admin[b], revoked)
      BY <1>1, <2>2 DEF Withdrawn
    <3> QED
      BY <3>1 DEF Respects
  <2> QED
    BY <2>1, <2>2
<1> QED
  BY <1>2

(* A key is revoked, or enabled: the pending calls go on to respect it.    *)
LEMMA OthersRespect ==
  ASSUME Shaped, Withdrawn, NEW a \in Admins, NEW c,
         admin' = admin \/ admin' = [admin EXCEPT ![a] = c], c.pc \notin Rotating \cup Writing,
         NEW i \in Ids, NEW enable \in Enables, Remember(i, enable)
  PROVE  \A b \in Admins : Respects(admin'[b], revoked')
<1>1. admin \in [Admins -> Calls]
  BY DEF Shaped, AdminPart
<1>2. ASSUME NEW b \in Admins, admin'[b].pc \in Rotating \cup Writing
      PROVE  Respects(admin'[b], revoked')
  <2>1. admin'[b] = admin[b] /\ Respects(admin[b], revoked)
    BY <1>1, <1>2 DEF Withdrawn
  <2>2. admin[b].id # i \/ revoked' \subseteq revoked
    <3>1. CASE enable = "off"
      <4>1. admin[b].id = i => Copied(admin', i)
        BY <1>2, <2>1 DEF Copied, Rotating, Writing
      <4> QED
        BY <3>1, <4>1 DEF Remember
    <3>2. CASE enable # "off"
      BY <3>2 DEF Remember
    <3> QED
      BY <3>1, <3>2
  <2>3. admin[b].id \in revoked' => admin[b].id \in revoked
    BY <2>2 DEF Remember
  <2> QED
    BY <2>1, <2>3 DEF Respects
<1>3. \A d, rv : d.pc \notin Rotating \cup Writing => Respects(d, rv)
  BY DEF Respects
<1> QED
  BY <1>2, <1>3

(* What Continue and Goto leave of a call.                                 *)
LEMMA ContinueIs ==
  ASSUME NEW a, NEW pc, NEW i, NEW r, NEW n, Continue(a, pc, i, r, n)
  PROVE  \E c : admin' = [admin EXCEPT ![a] = c] /\ c.pc = pc /\ c.id = i /\ c.row = r
<1>1. PICK c : c = [pc |-> pc, id |-> i, row |-> r, secret |-> n, enable |-> "keep"]
  OBVIOUS
<1>2. admin' = [admin EXCEPT ![a] = c]
  BY <1>1 DEF Continue
<1>3. c.pc = pc /\ c.id = i /\ c.row = r
  BY <1>1
<1> QED
  BY <1>2, <1>3

(* Goto changes where the call is, and nothing else of it.                 *)
LEMMA GotoIs ==
  ASSUME Shaped, NEW a \in Admins, NEW pc, Goto(a, pc)
  PROVE  \E c : /\ admin' = [admin EXCEPT ![a] = c] /\ c.pc = pc /\ c.id = admin[a].id
                /\ c.row = admin[a].row
<1>1. PICK c : c = [pc |-> pc, id |-> admin[a].id, row |-> admin[a].row,
                    secret |-> admin[a].secret, enable |-> admin[a].enable]
  OBVIOUS
<1>2. admin' = [admin EXCEPT ![a] = c]
  BY <1>1, MovesTo
<1>3. c.pc = pc /\ c.id = admin[a].id /\ c.row = admin[a].row
  BY <1>1
<1> QED
  BY <1>2, <1>3

(* A row is written that is enabled only if its key is not revoked.        *)
LEMMA PutWithdrawn ==
  ASSUME Shaped, Withdrawn, NEW i \in Ids, NEW r \in Rows, keys' = [keys EXCEPT ![i] = r],
         r # NoRow => (r.enabled => i \notin revoked'),
         \A j \in Ids : j # i /\ j \in revoked' => j \in revoked,
         \A b \in Admins : Respects(admin'[b], revoked')
  PROVE  Withdrawn'
<1>1. keys \in [Ids -> Rows]
  BY DEF Shaped, KeysPart
<1>2. ASSUME NEW j \in Ids, keys'[j] # NoRow, keys'[j].enabled PROVE j \notin revoked'
  BY <1>1, <1>2 DEF Withdrawn, Exists
<1> QED
  BY <1>2 DEF Withdrawn, Exists

(* What Remember does to the other keys, and to this one.                  *)
LEMMA RememberIs ==
  ASSUME NEW i, NEW enable \in Enables, Remember(i, enable)
  PROVE  /\ \A j : j # i /\ j \in revoked' => j \in revoked
         /\ enable = "on" => i \notin revoked'
         /\ enable = "keep" => revoked' = revoked
<1>1. CASE enable = "on"
  BY <1>1 DEF Remember
<1>2. CASE enable = "off"
  BY <1>2 DEF Remember
<1>3. CASE enable = "keep"
  BY <1>3 DEF Remember
<1> QED
  BY <1>1, <1>2, <1>3 DEF Enables

(* Every step of every backend keeps it.                                   *)
THEOREM WithdrawnNext == Shaped /\ Withdrawn /\ [Next]_vars => Withdrawn'
<1> SUFFICES ASSUME Shaped, Withdrawn, [Next]_vars PROVE Withdrawn'
  OBVIOUS
<1> USE DEF store, history
<1>a. /\ keys \in [Ids -> Rows] /\ created \subseteq Ids /\ revoked \subseteq created
      /\ \A i \in Ids : keys[i].enabled \in BOOLEAN
  BY RowIs DEF Shaped, KeysPart
<1>b. ASSUME NEW i \in Ids, Exists(i), keys[i].enabled PROVE i \notin revoked
  BY <1>b DEF Withdrawn
<1>c. \A c, rv : c.pc \notin Rotating \cup Writing => Respects(c, rv)
  BY DEF Respects
<1>d. IdleAdmin.pc \notin Rotating \cup Writing
  BY DEF IdleAdmin, Rotating, Writing
<1>e. ASSUME UNCHANGED admin, UNCHANGED revoked
      PROVE  \A b \in Admins : Respects(admin'[b], revoked')
  BY <1>e DEF Withdrawn
<1>0. ASSUME UNCHANGED <<keys, admin, revoked>> PROVE Withdrawn'
  BY <1>0, <1>e DEF Withdrawn, Exists
<1>1. ASSUME NEW a \in Admins, NEW c, admin' = [admin EXCEPT ![a] = c], Respects(c, revoked'),
             UNCHANGED <<keys, revoked>>
      PROVE  Withdrawn'
  <2>1. \A b \in Admins : Respects(admin'[b], revoked')
    BY <1>1, OnlyCall
  <2> QED
    BY <1>1, <2>1 DEF Withdrawn, Exists
<1>2. ASSUME NEW a \in Admins, Create(a) \/ PgCreate(a) \/ SqliteCreate(a) PROVE Withdrawn'
  <2>1. PICK i \in Ids \ created, ex \in {"never", "future"} :
          /\ Insert(i, ex)
          /\ \/ Continue(a, "index", i, NoRow, issued')
             \/ Continue(a, "reread", i, NoRow, issued')
             \/ admin' = admin
    BY <1>2 DEF Create, PgCreate, SqliteCreate
  <2>2. generate_api_key /\ UNCHANGED <<backend, revoked>>
    BY <1>2 DEF Create, PgCreate, SqliteCreate
  <2>3. PICK r \in Rows : keys' = [keys EXCEPT ![i] = r]
    BY <2>1, <2>2, Inserted
  <2>4. \A b \in Admins : Respects(admin'[b], revoked')
    <3>1. CASE admin' = admin
      BY <1>e, <2>2, <3>1
    <3>2. ASSUME NEW pc \in Telling, Continue(a, pc, i, NoRow, issued')
          PROVE  \A b \in Admins : Respects(admin'[b], revoked')
      <4>1. PICK c : /\ admin' = [admin EXCEPT ![a] = c] /\ c.pc = pc
        <5>1. PICK n : n = issued'
          OBVIOUS
        <5>2. Continue(a, pc, i, NoRow, n)
          BY <3>2, <5>1
        <5> QED
          BY <5>2, ContinueIs
      <4>2. Respects(c, revoked')
        BY <1>c, <4>1 DEF Telling, Rotating, Writing
      <4> QED
        BY <2>2, <4>1, <4>2, OnlyCall
    <3> QED
      BY <2>1, <3>1, <3>2 DEF Telling
  <2>5. i \notin revoked'
    BY <1>a, <2>1, <2>2
  <2> QED
    BY <2>1, <2>2, <2>3, <2>4, <2>5, PutWithdrawn
<1>3. ASSUME NEW a \in Admins, Index(a) \/ Unindex(a) \/ Reread(a) \/ StatementFails(a)
      PROVE  Withdrawn'
  <2>1. UNCHANGED <<keys, revoked>> /\ admin' = [admin EXCEPT ![a] = IdleAdmin]
    BY <1>3 DEF Index, Unindex, Reread, StatementFails, Done
  <2> QED
    BY <1>1, <1>c, <1>d, <2>1
<1>4. ASSUME NEW a \in Admins, UNCHANGED admin, NEW i \in Ids, NEW enable \in Enables,
             Remember(i, enable)
      PROVE  \A b \in Admins : Respects(admin'[b], revoked')
  <2>1. PICK c : c = IdleAdmin
    OBVIOUS
  <2> QED
    BY <1>4, <1>d, <2>1, OthersRespect
<1>5. ASSUME NEW a \in Admins, Update(a) PROVE Withdrawn'
  <2>1. PICK i \in created, enable \in Enables, ex \in Expiries :
          /\ Exists(i) /\ keys' = [keys EXCEPT ![i] = Merged(@, enable, ex)]
          /\ Remember(i, enable)
    BY <1>5 DEF Update
  <2>2. admin' = admin /\ admin[a].pc = "idle" /\ i \in Ids
    BY <1>5, <1>a DEF Update, At
  <2>3. PICK k \in Rows : k = keys[i]
    BY <1>a, <2>2
  <2>4. PICK r \in Rows : /\ r = Merged(k, enable, ex)
                          /\ r.enabled = IF enable = "keep" THEN k.enabled ELSE enable = "on"
    BY MergedIs
  <2>5. keys' = [keys EXCEPT ![i] = r]
    BY <1>a, <2>1, <2>2, <2>3, <2>4
  <2>6. r.enabled => i \notin revoked'
    <3>1. CASE enable = "keep"
      BY <1>b, <2>1, <2>2, <2>3, <2>4, <3>1, RememberIs
    <3>2. CASE enable # "keep"
      BY <2>1, <2>4, <3>2, RememberIs
    <3> QED
      BY <3>1, <3>2
  <2>7. \A j \in Ids : j # i /\ j \in revoked' => j \in revoked
    BY <2>1, RememberIs
  <2>8. \A b \in Admins : Respects(admin'[b], revoked')
    BY <1>4, <2>1, <2>2 DEF Enables
  <2> QED
    BY <2>2, <2>5, <2>6, <2>7, <2>8, PutWithdrawn
<1>6. ASSUME NEW a \in Admins, Revoke(a) \/ PgRevoke(a) \/ SqliteRevoke(a) PROVE Withdrawn'
  <2>1. PICK i \in created : /\ keys' = [keys EXCEPT ![i].enabled = FALSE]
                             /\ Remember(i, "off")
    BY <1>6 DEF Revoke, PgRevoke, SqliteRevoke
  <2>2. admin' = admin /\ admin[a].pc = "idle" /\ i \in Ids
    BY <1>6, <1>a DEF Revoke, PgRevoke, SqliteRevoke, At
  <2>3. PICK r \in Rows : keys' = [keys EXCEPT ![i] = r] /\ r.enabled = FALSE
    BY <2>1, <2>2, Written
  <2>4. \A j \in Ids : j # i /\ j \in revoked' => j \in revoked
    BY <2>1, RememberIs DEF Enables
  <2>5. \A b \in Admins : Respects(admin'[b], revoked')
    BY <1>4, <2>1, <2>2 DEF Enables
  <2> QED
    BY <2>2, <2>3, <2>4, <2>5, PutWithdrawn
<1>7. ASSUME NEW i \in Ids, NEW r \in Rows, keys' = [keys EXCEPT ![i] = r], Exists(i),
             r.enabled = keys[i].enabled, UNCHANGED revoked,
             \A b \in Admins : Respects(admin'[b], revoked')
      PROVE  Withdrawn'
  <2>1. r.enabled => i \notin revoked'
    BY <1>7, <1>b
  <2> QED
    BY <1>7, <2>1, PutWithdrawn
<1>8. CASE Expire
  <2>1. PICK i \in created : keys[i].expires = "future" /\ keys' = [keys EXCEPT ![i].expires = "past"]
    BY <1>8 DEF Expire
  <2>2. UNCHANGED <<revoked, admin>> /\ Exists(i) /\ i \in Ids
    BY <1>8, <1>a, <2>1 DEF Expire, Exists, NoRow
  <2>3. PICK r \in Rows : keys' = [keys EXCEPT ![i] = r] /\ r.enabled = keys[i].enabled
    BY <2>1, <2>2, Written DEF Expiry
  <2> QED
    BY <1>7, <1>e, <2>2, <2>3
<1>9. ASSUME NEW a \in Admins, Delete(a) \/ PgDelete(a) \/ SqliteDelete(a) PROVE Withdrawn'
  <2>1. PICK i \in created : /\ keys' = [keys EXCEPT ![i] = NoRow] /\ Remember(i, "off")
                             /\ Continue(a, "unindex", i, keys[i], 0) \/ admin' = admin
    BY <1>9 DEF Delete, PgDelete, SqliteDelete, Remove
  <2>2. i \in Ids
    BY <1>a
  <2>3. \A b \in Admins : Respects(admin'[b], revoked')
    <3>1. CASE admin' = admin
      BY <1>4, <2>1, <2>2, <3>1 DEF Enables
    <3>2. CASE Continue(a, "unindex", i, keys[i], 0)
      <4>1. PICK r : r = keys[i]
        OBVIOUS
      <4>2. Continue(a, "unindex", i, r, 0)
        BY <3>2, <4>1
      <4>3. PICK c : admin' = [admin EXCEPT ![a] = c] /\ c.pc = "unindex"
        BY <4>2, ContinueIs
      <4>4. c.pc \notin Rotating \cup Writing
        BY <4>3 DEF Rotating, Writing
      <4> QED
        BY <2>1, <2>2, <4>3, <4>4, OthersRespect DEF Enables
    <3> QED
      BY <2>1, <3>1, <3>2
  <2>4. \A j \in Ids : j # i /\ j \in revoked' => j \in revoked
    BY <2>1, RememberIs DEF Enables
  <2> QED
    BY <2>1, <2>2, <2>3, <2>4, Constants, PutWithdrawn
<1>10. ASSUME NEW a \in Admins, Rotate(a) PROVE Withdrawn'
  <2>1. PICK i \in created : Exists(i) /\ Continue(a, "rotate_unindex", i, keys[i], issued')
    BY <1>10 DEF Rotate
  <2>2. UNCHANGED <<keys, revoked>> /\ i \in Ids
    BY <1>10, <1>a DEF Rotate
  <2>3. PICK c : /\ admin' = [admin EXCEPT ![a] = c] /\ c.pc = "rotate_unindex" /\ c.row = keys[i]
                 /\ c.id = i
    <3>1. PICK r, n : r = keys[i] /\ n = issued'
      OBVIOUS
    <3>2. Continue(a, "rotate_unindex", i, r, n)
      BY <2>1, <3>1
    <3> QED
      BY <3>1, <3>2, ContinueIs
  <2>4. Respects(c, revoked')
    BY <1>b, <2>1, <2>2, <2>3 DEF Respects, Writing
  <2> QED
    BY <1>1, <2>2, <2>3, <2>4
<1>11. ASSUME NEW a \in Admins, RotateUnindex(a) PROVE Withdrawn'
  <2>1. /\ UNCHANGED <<keys, revoked>> /\ admin[a].pc = "rotate_unindex"
        /\ Goto(a, "rotate_insert")
    BY <1>11 DEF RotateUnindex, At
  <2>2. PICK c : /\ admin' = [admin EXCEPT ![a] = c] /\ c.pc = "rotate_insert"
                 /\ c.row = admin[a].row /\ c.id = admin[a].id
    BY <2>1, GotoIs
  <2>3. Respects(c, revoked')
    BY <2>1, <2>2 DEF Withdrawn, Respects, Rotating, Writing
  <2> QED
    BY <1>1, <2>1, <2>2, <2>3
<1>12. ASSUME NEW a \in Admins, RotateInsert(a) PROVE Withdrawn'
  <2> DEFINE c == admin[a]
  <2>1. /\ UNCHANGED revoked /\ c.pc = "rotate_insert"
        /\ Continue(a, "index", c.id, NoRow, c.secret)
        /\ keys' = [keys EXCEPT ![c.id] = [c.row EXCEPT !.key = Hash(Plain(c.secret))]]
    BY <1>12 DEF RotateInsert, At
  <2>2. /\ c \in Calls /\ c.id \in Ids /\ c.row \in Rows /\ c.secret \in 0..MaxSecrets
    BY <2>1, MovesTo DEF CallOK, Calls
  <2>3. PICK d : admin' = [admin EXCEPT ![a] = d] /\ d.pc = "index"
    BY <2>1, ContinueIs
  <2>4. \A b \in Admins : Respects(admin'[b], revoked')
    BY <1>c, <2>1, <2>3, OnlyCall DEF Rotating, Writing
  <2>5. PICK key \in Strings : key = Hash(Plain(c.secret))
    BY <2>2, HashedSecret
  <2>6. PICK r : r = [c.row EXCEPT !.key = key]
    OBVIOUS
  <2>7. r \in Rows /\ r.enabled = c.row.enabled
    BY <2>2, <2>6 DEF Rows
  <2>8. r.enabled => c.id \notin revoked'
    BY <2>1, <2>7 DEF Withdrawn, Respects, Rotating
  <2> QED
    BY <2>1, <2>2, <2>4, <2>5, <2>6, <2>7, <2>8, PutWithdrawn
<1>13. ASSUME NEW a \in Admins, PgRotate(a) \/ SqliteRotate(a) PROVE Withdrawn'
  <2>1. PICK i \in created : /\ Exists(i) /\ SetKey(i)
                             /\ Continue(a, "reread", i, NoRow, issued') \/ admin' = admin
    BY <1>13 DEF PgRotate, SqliteRotate
  <2>2. generate_api_key /\ UNCHANGED <<backend, created, revoked>>
    BY <1>13 DEF PgRotate, SqliteRotate
  <2>3. i \in Ids
    BY <1>a, <2>1
  <2>4. PICK key \in Strings : key = Hash(Plain(issued'))
    BY <1>a, <2>2, Generated
  <2>5. keys' = [keys EXCEPT ![i].key = key]
    BY <2>1, <2>4 DEF SetKey
  <2>6. \E r \in Rows : /\ keys' = [keys EXCEPT ![i] = r] /\ r.enabled = keys[i].enabled
                        /\ r.key = key /\ r.usage_count = keys[i].usage_count
    BY <2>3, <2>5, Rekeyed, Zenon
  <2>7. \A b \in Admins : Respects(admin'[b], revoked')
    <3>1. CASE admin' = admin
      BY <1>e, <2>2, <3>1
    <3>2. CASE Continue(a, "reread", i, NoRow, issued')
      <4>1. PICK c : admin' = [admin EXCEPT ![a] = c] /\ c.pc = "reread"
        <5>1. PICK n : n = issued'
          OBVIOUS
        <5>2. Continue(a, "reread", i, NoRow, n)
          BY <3>2, <5>1
        <5> QED
          BY <5>2, ContinueIs
      <4>2. Respects(c, revoked')
        BY <1>c, <4>1 DEF Rotating, Writing
      <4> QED
        BY <2>2, <4>1, <4>2, OnlyCall
    <3> QED
      BY <2>1, <3>1, <3>2
  <2> QED
    BY <1>7, <2>1, <2>2, <2>3, <2>6, <2>7
<1>14. ASSUME NEW a \in Admins, PgUpdate(a) \/ SqliteUpdate(a) PROVE Withdrawn'
  <2>1. PICK i \in created, enable \in Enables, ex \in Expiries, pc \in Writing :
          /\ Exists(i)
          /\ admin' = [admin EXCEPT ![a] =
               [pc |-> pc, id |-> i, secret |-> 0, enable |-> enable,
                row |-> Merged(keys[i], enable, ex)]]
    BY <1>14 DEF PgUpdate, SqliteUpdate, Writing
  <2>2. UNCHANGED <<keys, revoked>> /\ i \in Ids
    BY <1>14, <1>a DEF PgUpdate, SqliteUpdate
  <2>3. PICK k \in Rows : k = keys[i]
    BY <1>a, <2>2
  <2>4. PICK r \in Rows : /\ r = Merged(k, enable, ex)
                          /\ r.enabled = IF enable = "keep" THEN k.enabled ELSE enable = "on"
    BY MergedIs
  <2>5. PICK c : c = [pc |-> pc, id |-> i, secret |-> 0, enable |-> enable, row |-> r]
    OBVIOUS
  <2>6. admin' = [admin EXCEPT ![a] = c]
    BY <2>1, <2>3, <2>4, <2>5
  <2>7. c.pc \notin Rotating /\ c.enable = enable /\ c.row = r /\ c.id = i
    BY <2>5 DEF Rotating, Writing
  <2>8. enable = "off" => ~r.enabled
    BY <2>4
  <2>9. enable = "keep" => (r.enabled => i \notin revoked')
    BY <1>b, <2>1, <2>2, <2>3, <2>4
  <2>10. Respects(c, revoked')
    BY <2>7, <2>8, <2>9 DEF Respects
  <2> QED
    BY <1>1, <2>2, <2>6, <2>10
<1>15. ASSUME NEW a \in Admins, PgWriteBack(a) \/ SqliteWriteBack(a) PROVE Withdrawn'
  <2> DEFINE c == admin[a]
  <2>1. /\ WriteRow(c.id, c.row, c.enable) /\ (Done(a) \/ Continue(a, "reread", c.id, NoRow, 0))
        /\ c.pc \in Writing
    BY <1>15 DEF PgWriteBack, SqliteWriteBack, At, Writing
  <2>2. /\ c \in Calls /\ c.id \in Ids /\ c.enable \in Enables /\ c.row.enabled \in BOOLEAN
        /\ c.row.expires \in Expiry
    BY <2>1, MovesTo, RowIs DEF CallOK, Calls, Writing
  <2>3. PICK d : admin' = [admin EXCEPT ![a] = d] /\ d.pc \in {"idle", "reread"}
    <3>1. CASE Done(a)
      <4>1. PICK d : d = IdleAdmin
        OBVIOUS
      <4>2. d.pc = "idle"
        BY <4>1 DEF IdleAdmin
      <4> QED
        BY <3>1, <4>1, <4>2 DEF Done
    <3>2. CASE Continue(a, "reread", c.id, NoRow, 0)
      BY <3>2, ContinueIs
    <3> QED
      BY <1>15, <3>1, <3>2 DEF PgWriteBack, SqliteWriteBack
  <2>4. \A b \in Admins : Respects(admin'[b], revoked')
    <3>1. d.pc \notin Rotating \cup Writing
      BY <2>3 DEF Rotating, Writing
    <3>2. CASE ~Exists(c.id)
      BY <1>c, <2>1, <2>3, <3>1, <3>2, OnlyCall DEF WriteRow
    <3>3. CASE Exists(c.id)
      BY <2>1, <2>2, <2>3, <3>1, <3>3, OthersRespect DEF WriteRow
    <3> QED
      BY <3>2, <3>3
  <2>5. CASE ~Exists(c.id)
    BY <1>15, <2>4, <2>5 DEF WriteRow, PgWriteBack, SqliteWriteBack, Withdrawn, Exists
  <2>6. CASE Exists(c.id)
    <3>1. /\ keys' = [keys EXCEPT ![c.id].enabled = c.row.enabled, ![c.id].expires = c.row.expires]
          /\ Remember(c.id, c.enable)
      BY <1>15, <2>6 DEF WriteRow, PgWriteBack, SqliteWriteBack
    <3>2. PICK r \in Rows : keys' = [keys EXCEPT ![c.id] = r] /\ r.enabled = c.row.enabled
      <4>1. PICK on \in BOOLEAN, ex \in Expiry : on = c.row.enabled /\ ex = c.row.expires
        BY <2>2
      <4>2. keys' = [keys EXCEPT ![c.id].enabled = on, ![c.id].expires = ex]
        BY <3>1, <4>1
      <4>3. \E r \in Rows :
              /\ keys' = [keys EXCEPT ![c.id] = r] /\ r.enabled = on
              /\ r.key = keys[c.id].key /\ r.usage_count = keys[c.id].usage_count
        <5>1. PICK i \in Ids : i = c.id
          BY <2>2
        <5>2. keys' = [keys EXCEPT ![i].enabled = on, ![i].expires = ex]
          BY <4>2, <5>1
        <5>3. \E r \in Rows :
                /\ keys' = [keys EXCEPT ![i] = r] /\ r.enabled = on
                /\ r.key = keys[i].key /\ r.usage_count = keys[i].usage_count
          BY <5>2, WrittenBack, Zenon
        <5> QED
          BY <5>1, <5>3
      <4> QED
        BY <4>1, <4>3
    <3>3. /\ \A j : j # c.id /\ j \in revoked' => j \in revoked
          /\ c.enable = "on" => c.id \notin revoked'
          /\ c.enable = "keep" => revoked' = revoked
      BY <2>2, <3>1, RememberIs
    <3>4. r.enabled => c.id \notin revoked'
      BY <2>1, <2>2, <3>2, <3>3 DEF Withdrawn, Respects, Enables
    <3> QED
      BY <2>2, <2>4, <3>2, <3>3, <3>4, PutWithdrawn
  <2> QED
    BY <2>5, <2>6
<1>16. ASSUME NEW v \in Validators, NEW i \in Ids, Usable(keys[i]), NEW key \in Strings,
              Use(v, i, key), UNCHANGED <<admin, revoked>>
       PROVE  Withdrawn'
  <2>1. PICK r \in Rows : keys' = [keys EXCEPT ![i] = r] /\ r.enabled = keys[i].enabled
    BY <1>16, <1>a, EditUse
  <2>2. Exists(i)
    BY <1>16 DEF Usable, Exists
  <2> QED
    BY <1>7, <1>e, <1>16, <2>1, <2>2
<1>17. ASSUME NEW v \in Validators, Validate(v) PROVE Withdrawn'
  <2>1. UNCHANGED <<admin, revoked>>
    BY <1>17 DEF Validate, Present, Lookup, Check, PgValidate, SqliteValidate, ValidateFails, Answer
  <2>2. CASE UNCHANGED keys
    BY <1>0, <2>1, <2>2
  <2>3. CASE Check(v)
    <3>1. val[v].id \in Ids
      BY <2>3 DEF Check, Shaped, ValPart, RequestOK
    <3>2. keys[val[v].id].key \in Strings
      BY <3>1, <1>a, RowIs
    <3> QED
      BY <1>16, <2>1, <2>2, <2>3, <3>1, <3>2 DEF Check, Refused
  <2>4. CASE MatchAndUse(v)
    BY <1>16, <2>1, <2>2, <2>4, MatchedAndUsed DEF Refused
  <2> QED
    BY <1>17, <2>2, <2>3, <2>4
    DEF Validate, Present, Lookup, PgValidate, SqliteValidate, ValidateFails, Answer, Refused
<1>18. CASE UNCHANGED vars
  BY <1>0, <1>18 DEF vars
<1> QED
  BY <1>2, <1>3, <1>5, <1>6, <1>8, <1>9, <1>10, <1>11, <1>12, <1>13, <1>14, <1>15, <1>17, <1>18
  DEF Next, AdminStep

(* A validation accepts only a key that is usable at that moment.          *)
LEMMA AcceptsUsable ==
  ASSUME Shaped, [Next]_vars, NEW v \in Validators, val[v].pc # "accepted",
         val'[v].pc = "accepted"
  PROVE  val'[v].id \in Ids /\ Usable(keys[val'[v].id])
<1> USE DEF store, history
<1>1. val \in [Validators -> Requests]
  BY DEF Shaped, ValPart
<1>2. ASSUME NEW w \in Validators, NEW pc, NEW id, val' = [val EXCEPT ![w].pc = pc, ![w].id = id]
      PROVE  w # v => val'[v] = val[v]
  BY <1>1, <1>2
<1>3. ASSUME NEW w \in Validators, NEW i \in Ids, Usable(keys[i]), NEW key, Use(w, i, key)
      PROVE  val'[v].id \in Ids /\ Usable(keys[val'[v].id])
  <2>1. val' = [val EXCEPT ![w] = [pc |-> "accepted", token |-> val[w].token, id |-> i]]
    BY <1>3, RequestIs DEF Use
  <2>2. w = v
    BY <1>1, <2>1
  <2> QED
    BY <1>1, <1>3, <2>1, <2>2
<1>4. ASSUME NEW w \in Validators, Refused(w) PROVE FALSE
  <2>1. val' = [val EXCEPT ![w] = [pc |-> "refused", token |-> val[w].token, id |-> NoId]]
    BY <1>4, RequestIs DEF Refused
  <2> QED
    BY <1>1, <2>1
<1>5. val' # val
  OBVIOUS
<1>6. PICK w \in Validators : Validate(w)
  <2>1. ASSUME NEW a \in Admins, AdminStep(a) PROVE FALSE
    <3>1. UNCHANGED val
      BY <2>1 DEF AdminStep, Create, Index, Update, Delete, Unindex, Revoke, Rotate, RotateUnindex,
         RotateInsert, PgCreate, PgUpdate, PgWriteBack, PgDelete, PgRevoke, PgRotate, SqliteCreate,
         SqliteUpdate, SqliteWriteBack, SqliteDelete, SqliteRevoke, SqliteRotate, Reread,
         StatementFails
    <3> QED
      BY <1>5, <3>1
  <2>2. ~Expire /\ ~UNCHANGED vars
    BY <1>5 DEF Expire, vars
  <2> QED
    BY <2>1, <2>2 DEF Next
<1>7. CASE Present(w)
  <2>1. PICK token : val' = [val EXCEPT ![w] = [IdleVal EXCEPT !.pc = "lookup", !.token = token]]
    BY <1>7 DEF Present
  <2> QED
    BY <1>1, <2>1 DEF IdleVal
<1>8. CASE Answer(w)
  BY <1>1, <1>8 DEF Answer, IdleVal
<1>9. CASE Lookup(w)
  <2>1. \E i : \E pc \in {"refused", "check"} : val' = [val EXCEPT ![w].pc = pc, ![w].id = i]
    <3>1. PICK i : val' = [val EXCEPT ![w].pc = IF i = NoId THEN "refused" ELSE "check", ![w].id = i]
      BY <1>9 DEF Lookup
    <3>2. PICK pc \in {"refused", "check"} : pc = IF i = NoId THEN "refused" ELSE "check"
      OBVIOUS
    <3>3. val' = [val EXCEPT ![w].pc = pc, ![w].id = i]
      BY <3>1, <3>2
    <3> QED
      BY <3>3, Zenon
  <2>2. PICK i : \E pc \in {"refused", "check"} : val' = [val EXCEPT ![w].pc = pc, ![w].id = i]
    BY <2>1
  <2>3. PICK pc \in {"refused", "check"} : val' = [val EXCEPT ![w].pc = pc, ![w].id = i]
    BY <2>2
  <2>4. val' = [val EXCEPT ![w] = [pc |-> pc, token |-> val[w].token, id |-> i]]
    BY <2>3, RequestIs
  <2> QED
    BY <1>1, <2>4
<1>10. CASE Check(w)
  <2>1. val[w].id \in Ids
    BY <1>10 DEF Check, Shaped, ValPart, RequestOK
  <2> QED
    BY <1>3, <1>4, <1>10, <2>1 DEF Check
<1>11. CASE PgValidate(w) \/ SqliteValidate(w) \/ ValidateFails(w)
  <2>1. MatchAndUse(w) \/ Refused(w)
    BY <1>11 DEF PgValidate, SqliteValidate, ValidateFails
  <2> QED
    BY <1>3, <1>4, <2>1, MatchedAndUsed
<1> QED
  BY <1>6, <1>7, <1>8, <1>9, <1>10, <1>11 DEF Validate

(* RevocationHolds: no validation accepts a key that was revoked or        *)
(* deleted and not enabled since, whatever updates, rotations and expiries *)
(* came in between, in any backend and with any number of administrators,  *)
(* unless another call had copied the row before.                          *)
THEOREM RevocationLasts == Spec => RevocationHolds
<1>1. Init => Shaped /\ Withdrawn
  BY InitShaped, InitWithdrawn
<1>2. Shaped /\ Withdrawn /\ [Next]_vars => Shaped' /\ Withdrawn'
  BY ShapedNext, WithdrawnNext
<1>3. Shaped /\ Withdrawn /\ [Next]_vars =>
        [\A v \in Validators : (val[v].pc # "accepted" /\ val'[v].pc = "accepted") =>
           val'[v].id \notin revoked]_vars
  <2> SUFFICES ASSUME Shaped, Withdrawn, [Next]_vars, NEW v \in Validators,
                      val[v].pc # "accepted", val'[v].pc = "accepted"
               PROVE  val'[v].id \notin revoked
    OBVIOUS
  <2>1. val'[v].id \in Ids /\ Usable(keys[val'[v].id])
    BY AcceptsUsable
  <2> QED
    BY <2>1 DEF Withdrawn, Exists, Usable
<1> QED
  BY <1>1, <1>2, <1>3, PTL DEF Spec, RevocationHolds

-----------------------------------------------------------------------------
(* The contract.  In SQL no two rows have the same secret.  In memory the  *)
(* index leads to the entry that has the secret, or to one that a deletion *)
(* has removed and is about to take out of the index; a secret on its way  *)
(* into the index is new, and its key has no other there.  All this is so  *)
(* of a key that no two rotations or deletes have overlapped on; what they *)
(* do to such a key never touches the entries of another.                  *)

Unique(ks) ==
  \A i, j \in Ids : ks[i].key.secret = ks[j].key.secret => i = j \/ ks[i].key.secret = 0

(* A call that is about to index a secret, now or later.                   *)
Pending == Rotating \cup {"index"}

(* Each key is the business of one call.                                   *)
Sole(calls, o) ==
  \A a, b \in Admins : calls[a].id \in Ids \ o /\ calls[a].id = calls[b].id => a = b

(* No two calls are about to index the same secret.                        *)
Distinct(calls) ==
  \A a, b \in Admins :
    calls[a].pc \in Pending /\ calls[b].pc \in Pending /\ calls[a].secret = calls[b].secret
      => a = b

Unindexing(c, i, s) == c.pc = "unindex" /\ c.id = i /\ c.row.key.secret = s

Leads(calls, ks, index, o) ==
  \A i \in Ids \ o, s \in Secrets : index[s] = i =>
    ks[i].key.secret = s \/ \E a \in Admins : Unindexing(calls[a], i, s)

(* What a call that works alone on its key knows of the index.             *)
Settled(c, ks, index, o) ==
  c.id \in Ids \ o =>
    /\ c.pc = "unindex" => ks[c.id].key.secret = 0
    /\ c.pc = "rotate_unindex" => c.row.key.secret = ks[c.id].key.secret
    /\ c.pc \in {"rotate_insert", "index"} => \A s \in Secrets : index[s] # c.id
    /\ c.pc = "index" => ks[c.id].key.secret = c.secret

(* What any call keeps to.                                                 *)
Fresh(c, sh, cr) ==
  /\ c.pc \in Pending => c.secret \notin sh
  /\ c.id \in cr \cup {NoId} /\ (c.pc = "idle" => c.id = NoId)

InOrder(calls, ks, index, sh, o, cr) ==
  /\ Sole(calls, o) /\ Distinct(calls) /\ Leads(calls, ks, index, o)
  /\ \A a \in Admins : Settled(calls[a], ks, index, o) /\ Fresh(calls[a], sh, cr)

IndexOK == InOrder(admin, keys, keys_by_key, shown, overlapped, created)

Resolved == \A v \in Validators : val[v].pc = "check" =>
              val[v].token.hashed = 0 /\ val[v].token.secret # 0

Indexed ==
  /\ backend = "memory" => IndexOK
  /\ backend # "memory" => Unique(keys)
  /\ Resolved

HolderOf(b, index, ks) ==
  [s \in Secrets |->
     IF b = "memory" THEN index[s]
     ELSE IF \E i \in Ids : ks[i].key.secret = s
          THEN CHOOSE i \in Ids : ks[i].key.secret = s
          ELSE NoId]

(* Holder is that of the tables.                                           *)
LEMMA HolderNow ==
  /\ Holder = HolderOf(backend, keys_by_key, keys)
  /\ Holder' = HolderOf(backend', keys_by_key', keys')
  BY DEF Holder, HolderOf

(* Key h, or none, is the one that has secret s.                           *)
Has(h, ks, s) == h \in Ids \cup {NoId} /\ \A i \in Ids : h = i <=> ks[i].key.secret = s

(* In SQL the holder of a secret is the row that has it.                   *)
LEMMA HolderIs ==
  ASSUME NEW b, b # "memory", NEW index, NEW ks, Unique(ks), NEW s \in Secrets
  PROVE  Has(HolderOf(b, index, ks)[s], ks, s)
<1>1. s # 0
  BY DEF Secrets
<1>2. HolderOf(b, index, ks)[s] = IF \E i \in Ids : ks[i].key.secret = s
                                  THEN CHOOSE i \in Ids : ks[i].key.secret = s
                                  ELSE NoId
  BY DEF HolderOf
<1>3. CASE \E i \in Ids : ks[i].key.secret = s
  <2>1. PICK k : k = CHOOSE i \in Ids : ks[i].key.secret = s
    OBVIOUS
  <2>2. k \in Ids /\ ks[k].key.secret = s
    BY <1>3, <2>1
  <2>3. ASSUME NEW i \in Ids, ks[i].key.secret = s PROVE i = k
    BY <1>1, <2>2, <2>3 DEF Unique
  <2> QED
    BY <1>2, <1>3, <2>1, <2>2, <2>3 DEF Has
<1>4. CASE ~\E i \in Ids : ks[i].key.secret = s
  BY <1>2, <1>4, KeysAssumption DEF Has
<1> QED
  BY <1>3, <1>4

(* Rows that keep their secrets keep their holders.                        *)
LEMMA SameHolder ==
  ASSUME NEW b, b # "memory", NEW index, NEW index2, NEW ks, NEW ks2, Unique(ks), Unique(ks2),
         \A i \in Ids : ks2[i].key.secret = ks[i].key.secret
  PROVE  HolderOf(b, index2, ks2) = HolderOf(b, index, ks)
<1>1. ASSUME NEW s \in Secrets
      PROVE  HolderOf(b, index2, ks2)[s] = HolderOf(b, index, ks)[s]
  <2>1. PICK h, h2 : h = HolderOf(b, index, ks)[s] /\ h2 = HolderOf(b, index2, ks2)[s]
    OBVIOUS
  <2>2. h \in Ids \cup {NoId} /\ \A i \in Ids : h = i <=> ks[i].key.secret = s
    <3>1. Has(HolderOf(b, index, ks)[s], ks, s)
      BY HolderIs
    <3> QED
      BY <2>1, <3>1 DEF Has
  <2>3. h2 \in Ids \cup {NoId} /\ \A i \in Ids : h2 = i <=> ks2[i].key.secret = s
    <3>1. Has(HolderOf(b, index2, ks2)[s], ks2, s)
      BY HolderIs
    <3> QED
      BY <2>1, <3>1 DEF Has
  <2>4. h2 = h
    BY <2>2, <2>3
  <2> QED
    BY <2>1, <2>4
<1>2. /\ HolderOf(b, index2, ks2) = [s \in Secrets |-> HolderOf(b, index2, ks2)[s]]
      /\ HolderOf(b, index, ks) = [s \in Secrets |-> HolderOf(b, index, ks)[s]]
  BY DEF HolderOf
<1> QED
  BY <1>1, <1>2

(* One row is written: it keeps its secret, loses it, or gets a new one.   *)
RowMoves ==
  \E i \in Ids, r \in Rows :
    /\ keys' = [keys EXCEPT ![i] = r]
    /\ \/ r.key.secret = keys[i].key.secret \/ r.key.secret = 0
       \/ r.key.secret = issued' /\ issued' = issued + 1

(* No secret of the table is past the counter.                             *)
LEMMA SecretsIssued ==
  ASSUME Shaped, NEW i \in Ids PROVE keys[i].key.secret \in 0..issued
<1>1. CASE keys[i] = NoRow
  BY <1>1 DEF NoRow, Plain, Shaped
<1>2. CASE keys[i] # NoRow
  BY <1>2 DEF Shaped, KeysPart, RowOK
<1> QED
  BY <1>1, <1>2

(* Then no two rows have the same secret.                                  *)
LEMMA UniqueLasts ==
  ASSUME Shaped, Unique(keys), RowMoves
  PROVE  Unique(keys')
<1>1. PICK i \in Ids, r \in Rows :
        /\ keys' = [keys EXCEPT ![i] = r]
        /\ \/ r.key.secret = keys[i].key.secret \/ r.key.secret = 0
           \/ r.key.secret = issued' /\ issued' = issued + 1
  BY DEF RowMoves
<1>2. keys'[i] = r /\ \A j \in Ids : j # i => keys'[j] = keys[j]
  BY <1>1 DEF Shaped, KeysPart
<1>3. \A j \in Ids : keys[j].key.secret # issued + 1
  BY SecretsIssued DEF Shaped
<1>4. ASSUME NEW j \in Ids, NEW k \in Ids, keys'[j].key.secret = keys'[k].key.secret, j # k,
             keys'[j].key.secret # 0
      PROVE  FALSE
  BY <1>1, <1>2, <1>3, <1>4 DEF Unique
<1> QED
  BY <1>4 DEF Unique

(* In SQL a call writes at most one row.                                   *)
LEMMA SqlWrites ==
  ASSUME Shaped, backend # "memory", NEW a \in Admins, AdminStep(a)
  PROVE  (keys' = keys \/ RowMoves) /\ UNCHANGED <<backend, val, overlapped>> /\ Grows
<1> USE DEF store, history
<1>a. /\ keys \in [Ids -> Rows] /\ created \subseteq Ids /\ MaxSecrets \in Nat
      /\ issued \in 0..MaxSecrets
  BY KeysAssumption DEF Shaped, KeysPart
<1>b. ~Create(a) /\ ~Update(a) /\ ~Delete(a) /\ ~Revoke(a) /\ ~Rotate(a)
  BY DEF Create, Update, Delete, Revoke, Rotate
<1>c. ~Index(a) /\ ~Unindex(a) /\ ~RotateUnindex(a) /\ ~RotateInsert(a)
  BY MovesTo DEF Index, Unindex, RotateUnindex, RotateInsert, At, CallOK
<1>1. UNCHANGED <<backend, val, overlapped>>
  BY <1>b, <1>c DEF AdminStep, PgCreate, PgUpdate, PgWriteBack, PgDelete, PgRevoke, PgRotate,
     SqliteCreate, SqliteUpdate, SqliteWriteBack, SqliteDelete, SqliteRevoke, SqliteRotate, Reread,
     StatementFails
<1>2. CASE PgCreate(a) \/ SqliteCreate(a)
  <2>1. PICK i \in Ids \ created, ex \in {"never", "future"} : Insert(i, ex)
    BY <1>2 DEF PgCreate, SqliteCreate
  <2>2. generate_api_key
    BY <1>2 DEF PgCreate, SqliteCreate
  <2>3. Grows /\ issued' = issued + 1
    BY <1>1, <2>1, <2>2, Inserted
  <2>4. \E r \in Rows : keys' = [keys EXCEPT ![i] = r] /\ r.key.secret = issued'
    BY <1>1, <2>1, <2>2, Inserted
  <2> QED
    BY <1>1, <2>3, <2>4 DEF RowMoves
<1>3. CASE PgRotate(a) \/ SqliteRotate(a)
  <2>1. PICK i \in created : SetKey(i)
    BY <1>3 DEF PgRotate, SqliteRotate
  <2>2. generate_api_key /\ created' = created
    BY <1>3 DEF PgRotate, SqliteRotate
  <2>3. Grows /\ issued' = issued + 1
    BY <1>1, <1>a, <2>2, Generated
  <2>4. PICK key \in Strings : key = Hash(Plain(issued')) /\ key.secret = issued'
    BY <1>1, <1>a, <2>2, Generated
  <2>5. keys' = [keys EXCEPT ![i].key = key] /\ i \in Ids
    BY <1>a, <2>1, <2>4 DEF SetKey
  <2>6. i \in Ids
    BY <2>5
  <2>7. keys' = [keys EXCEPT ![i].key = key]
    BY <2>5
  <2>8. \E r \in Rows : /\ keys' = [keys EXCEPT ![i] = r] /\ r.enabled = keys[i].enabled
                        /\ r.key = key /\ r.usage_count = keys[i].usage_count
    BY <2>6, <2>7, Rekeyed, Zenon
  <2> QED
    BY <1>1, <2>3, <2>4, <2>6, <2>8 DEF RowMoves
<1>4. CASE ~(PgCreate(a) \/ SqliteCreate(a) \/ PgRotate(a) \/ SqliteRotate(a))
  <2>1. UNCHANGED <<issued, created>>
    BY <1>4, <1>b, <1>c DEF AdminStep, PgUpdate, PgWriteBack, PgDelete, PgRevoke, SqliteUpdate,
       SqliteWriteBack, SqliteDelete, SqliteRevoke, Reread, StatementFails
  <2>2. Grows
    BY <1>1, <2>1, NothingNew
  <2>3. CASE PgDelete(a) \/ SqliteDelete(a)
    <3>1. PICK i \in Ids : keys' = [keys EXCEPT ![i] = NoRow]
      BY <1>a, <2>3 DEF PgDelete, SqliteDelete, Remove
    <3>2. NoRow \in Rows /\ NoRow.key.secret = 0
      BY Constants DEF NoRow, Plain
    <3> QED
      BY <1>1, <2>2, <3>1, <3>2 DEF RowMoves
  <2>4. CASE PgRevoke(a) \/ SqliteRevoke(a)
    <3>1. PICK i \in Ids : keys' = [keys EXCEPT ![i].enabled = FALSE]
      BY <1>a, <2>4 DEF PgRevoke, SqliteRevoke
    <3>2. PICK r \in Rows : keys' = [keys EXCEPT ![i] = r] /\ r.key = keys[i].key
      BY <3>1, Written
    <3> QED
      BY <1>1, <2>2, <3>2 DEF RowMoves
  <2>5. CASE PgWriteBack(a) \/ SqliteWriteBack(a)
    <3> DEFINE c == admin[a]
    <3>1. c \in Calls /\ c.id \in Ids /\ c.row.enabled \in BOOLEAN /\ c.row.expires \in Expiry
      BY <2>5, MovesTo, RowIs DEF PgWriteBack, SqliteWriteBack, At, CallOK, Calls
    <3>2. WriteRow(c.id, c.row, c.enable)
      BY <2>5 DEF PgWriteBack, SqliteWriteBack
    <3>3. CASE ~Exists(c.id)
      BY <1>1, <2>2, <3>2, <3>3 DEF WriteRow
    <3>4. CASE Exists(c.id)
      <4>1. PICK i \in Ids, on \in BOOLEAN, ex \in Expiry :
              i = c.id /\ on = c.row.enabled /\ ex = c.row.expires
        BY <3>1
      <4>2. keys' = [keys EXCEPT ![i].enabled = on, ![i].expires = ex]
        BY <3>2, <3>4, <4>1 DEF WriteRow
      <4>3. \E r \in Rows :
              /\ keys' = [keys EXCEPT ![i] = r] /\ r.enabled = on
              /\ r.key = keys[i].key /\ r.usage_count = keys[i].usage_count
        BY <4>2, WrittenBack, Zenon
      <4> QED
        BY <1>1, <2>2, <4>3 DEF RowMoves
    <3> QED
      BY <3>3, <3>4
  <2>6. CASE PgUpdate(a) \/ SqliteUpdate(a) \/ Reread(a) \/ StatementFails(a)
    BY <1>1, <2>2, <2>6 DEF PgUpdate, SqliteUpdate, Reread, StatementFails
  <2> QED
    BY <1>4, <1>b, <1>c, <2>3, <2>4, <2>5, <2>6 DEF AdminStep
<1> QED
  BY <1>2, <1>3, <1>4

(* In SQL such a step grants at most a secret that was just generated.     *)
LEMMA SqlReissues ==
  ASSUME Shaped, backend # "memory", UNCHANGED <<backend, val, overlapped>>, Grows, Unique(keys),
         Unique(keys'), keys' = keys \/ RowMoves
  PROVE  Contract!Reissue
<1>1. PICK h, h2 : h = Holder /\ h2 = Holder'
  OBVIOUS
<1>2. ASSUME NEW s \in Secrets PROVE Has(h[s], keys, s)
  <2>1. Has(HolderOf(backend, keys_by_key, keys)[s], keys, s)
    BY HolderIs
  <2> QED
    BY <1>1, <2>1, HolderNow
<1>3. ASSUME NEW s \in Secrets
      PROVE  h2[s] \in Ids \cup {NoId} /\ \A i \in Ids : h2[s] = i <=> keys'[i].key.secret = s
  <2>1. PICK b, index, ks : b = backend' /\ index = keys_by_key' /\ ks = keys'
    OBVIOUS
  <2>2. b # "memory" /\ Unique(ks)
    BY <2>1
  <2>3. Has(HolderOf(b, index, ks)[s], ks, s)
    BY <2>2, HolderIs
  <2>4. h2 = HolderOf(b, index, ks)
    BY <1>1, <2>1, HolderNow
  <2>5. Has(h2[s], ks, s)
    BY <2>3, <2>4
  <2> QED
    BY <2>1, <2>5 DEF Has
<1>4. ASSUME NEW s \in Secrets, h2[s] \notin {h[s], NoId}
      PROVE  s \notin 1..issued /\ s \in 1..issued'
  <2>1. PICK i \in Ids : i = h2[s] /\ keys'[i].key.secret = s
    BY <1>3, <1>4
  <2>2. keys[i].key.secret # s
    BY <1>2, <1>4, <2>1 DEF Has
  <2>3. keys' # keys
    BY <2>1, <2>2
  <2>4. PICK j \in Ids, r \in Rows :
          /\ keys' = [keys EXCEPT ![j] = r]
          /\ \/ r.key.secret = keys[j].key.secret \/ r.key.secret = 0
             \/ r.key.secret = issued' /\ issued' = issued + 1
    BY <2>3 DEF RowMoves
  <2>5. j = i /\ r.key.secret = s /\ s # 0
    BY <2>1, <2>2, <2>4 DEF Shaped, KeysPart, Secrets
  <2>6. s = issued + 1 /\ s = issued'
    BY <2>2, <2>4, <2>5
  <2> QED
    BY <2>6 DEF Shaped
<1>5. ASSUME NEW s \in Secrets, NEW t \in Secrets, h2[s] = h2[t], s # t PROVE h2[s] = NoId
  BY <1>3, <1>5
<1>6. 1..issued \subseteq 1..issued' /\ overlapped \subseteq Ids
  BY DEF Grows, Shaped
<1> QED
  BY <1>1, <1>4, <1>5, <1>6 DEF Contract!Reissue

(* In memory only the last step of create and rotate adds to the index.    *)
LEMMA MemoryReissues ==
  ASSUME Shaped, Shaped', backend = "memory", UNCHANGED <<backend, val>>, IndexOK',
         shown \subseteq shown', overlapped \subseteq overlapped',
         \A s \in Secrets : \/ keys_by_key'[s] = keys_by_key[s] \/ keys_by_key'[s] = NoId
                            \/ s \notin shown /\ s \in shown'
  PROVE  Contract!Reissue
<1>1. \A s \in Secrets : Holder[s] = keys_by_key[s] /\ Holder'[s] = keys_by_key'[s]
  BY DEF Holder
<1>2. PICK calls, ks, index, o :
        calls = admin' /\ ks = keys' /\ index = keys_by_key' /\ o = overlapped'
  OBVIOUS
<1>3. /\ Sole(calls, o) /\ Leads(calls, ks, index, o) /\ o \subseteq Ids
      /\ index \in [Secrets -> Ids \cup {NoId}]
      /\ \A a \in Admins : Settled(calls[a], ks, index, o)
  BY <1>2 DEF IndexOK, InOrder, Shaped
<1>4. ASSUME NEW s \in Secrets, NEW t \in Secrets, index[s] = index[t], s # t
      PROVE  index[s] \in {NoId} \cup o
  <2> SUFFICES ASSUME NEW i \in Ids \ o, index[s] = i, index[t] = i PROVE FALSE
    BY <1>3, <1>4
  <2>1. s # 0 /\ t # 0
    BY DEF Secrets
  <2>2. /\ ks[i].key.secret = s \/ \E a \in Admins : Unindexing(calls[a], i, s)
        /\ ks[i].key.secret = t \/ \E a \in Admins : Unindexing(calls[a], i, t)
    BY <1>3 DEF Leads
  <2>3. ASSUME NEW a \in Admins, NEW u, Unindexing(calls[a], i, u) PROVE ks[i].key.secret = 0
    BY <1>3, <2>3 DEF Unindexing, Settled
  <2>4. PICK a \in Admins, b \in Admins : Unindexing(calls[a], i, s) /\ Unindexing(calls[b], i, t)
    BY <1>4, <2>1, <2>2, <2>3
  <2>5. a = b
    BY <1>3, <2>4 DEF Sole, Unindexing
  <2> QED
    BY <1>4, <2>4, <2>5 DEF Unindexing
<1>5. \A s, t \in Secrets : (Holder'[s] = Holder'[t] /\ s # t) =>
                              Holder'[s] \in {NoId} \cup overlapped'
  BY <1>1, <1>2, <1>4
<1>6. overlapped' \subseteq Ids
  BY <1>2, <1>3
<1> QED
  BY <1>1, <1>5, <1>6 DEF Contract!Reissue

(* The index and the calls are left alone, and no secret changes.          *)
LEMMA SecretsStay ==
  ASSUME Shaped, IndexOK, UNCHANGED <<keys_by_key, admin, shown, overlapped, created>>,
         \A i \in Ids : keys'[i].key.secret = keys[i].key.secret
  PROVE  IndexOK'
<1>1. Leads(admin, keys', keys_by_key, overlapped)
  BY DEF IndexOK, InOrder, Leads
<1>2. ASSUME NEW a \in Admins PROVE Settled(admin[a], keys', keys_by_key, overlapped)
  <2>1. Settled(admin[a], keys, keys_by_key, overlapped)
    BY DEF IndexOK, InOrder
  <2> QED
    BY <2>1 DEF Settled
<1> QED
  BY <1>1, <1>2 DEF IndexOK, InOrder

(* A call moves on and changes nothing but its own key, the index entries  *)
(* that lead to it, and entries it takes out.                              *)
KeyStep(a, d, i) ==
  /\ admin' = [admin EXCEPT ![a] = d] /\ admin[a].id \in {i, NoId} /\ d.id \in {i, NoId}
  /\ \A j \in Ids : j # i => keys'[j].key.secret = keys[j].key.secret
  /\ \A s \in Secrets : keys_by_key'[s] \in {keys_by_key[s], NoId, i}
  /\ overlapped \subseteq overlapped' /\ overlapped' \subseteq overlapped \cup {i}
  /\ created \subseteq created'
  /\ i \notin overlapped' => \A b \in Admins : b # a => admin[b].id # i
  /\ i \notin overlapped' => \A s \in Secrets : keys_by_key'[s] = i =>
                              keys'[i].key.secret = s \/ Unindexing(d, i, s)
  /\ Settled(d, keys', keys_by_key', overlapped') /\ Fresh(d, shown', created')
  /\ d.pc \in Pending => \A b \in Admins : b # a /\ admin[b].pc \in Pending =>
                                            admin[b].secret # d.secret
  /\ \A s \in shown' : s \in shown \/ (admin[a].pc = "index" /\ s = admin[a].secret)

(* Such a step keeps the index in order.                                   *)
LEMMA KeyMoves ==
  ASSUME Shaped, IndexOK, NEW a \in Admins, NEW d, NEW i \in Ids, KeyStep(a, d, i)
  PROVE  IndexOK'
<1>a. NoId \notin Ids
  BY KeysAssumption
<1>b. admin'[a] = d /\ \A b \in Admins : b # a => admin'[b] = admin[b]
  BY DEF KeyStep, Shaped, AdminPart
<1>z. /\ admin[a].id \in {i, NoId} /\ d.id \in {i, NoId}
      /\ \A j \in Ids : j # i => keys'[j].key.secret = keys[j].key.secret
      /\ \A s \in Secrets : keys_by_key'[s] \in {keys_by_key[s], NoId, i}
      /\ overlapped \subseteq overlapped' /\ overlapped' \subseteq overlapped \cup {i}
      /\ created \subseteq created'
      /\ i \notin overlapped' => \A b \in Admins : b # a => admin[b].id # i
  BY DEF KeyStep
<1>y. /\ i \notin overlapped' => \A s \in Secrets : keys_by_key'[s] = i =>
                                  keys'[i].key.secret = s \/ Unindexing(d, i, s)
      /\ Settled(d, keys', keys_by_key', overlapped') /\ Fresh(d, shown', created')
      /\ d.pc \in Pending => \A b \in Admins : b # a /\ admin[b].pc \in Pending =>
                                                admin[b].secret # d.secret
      /\ \A s \in shown' : s \in shown \/ (admin[a].pc = "index" /\ s = admin[a].secret)
  BY DEF KeyStep
<1>c. /\ Sole(admin, overlapped) /\ Distinct(admin) /\ Leads(admin, keys, keys_by_key, overlapped)
      /\ \A b \in Admins : Settled(admin[b], keys, keys_by_key, overlapped) /\ Fresh(admin[b], shown, created)
  BY DEF IndexOK, InOrder
<1>1. Sole(admin', overlapped')
  <2> SUFFICES ASSUME NEW b \in Admins, NEW e \in Admins, admin'[b].id \in Ids \ overlapped',
                      admin'[b].id = admin'[e].id, b # e
               PROVE  FALSE
    BY DEF Sole
  <2>1. CASE b # a /\ e # a
    BY <1>b, <1>c, <1>z, <2>1 DEF Sole
  <2>2. CASE b = a \/ e = a
    BY <1>a, <1>b, <1>z, <2>2
  <2> QED
    BY <2>1, <2>2
<1>2. Distinct(admin')
  BY <1>b, <1>c, <1>y DEF Distinct
<1>3. Leads(admin', keys', keys_by_key', overlapped')
  <2> SUFFICES ASSUME NEW j \in Ids \ overlapped', NEW s \in Secrets, keys_by_key'[s] = j
               PROVE  keys'[j].key.secret = s \/ \E b \in Admins : Unindexing(admin'[b], j, s)
    BY DEF Leads
  <2>1. CASE j = i
    BY <1>b, <1>y, <2>1
  <2>2. CASE j # i
    <3>1. keys_by_key[s] = j /\ j \in Ids \ overlapped
      BY <1>a, <1>z, <2>2
    <3>2. keys[j].key.secret = s \/ \E b \in Admins : Unindexing(admin[b], j, s)
      BY <1>c, <3>1 DEF Leads
    <3>3. ASSUME NEW b \in Admins, Unindexing(admin[b], j, s) PROVE admin'[b] = admin[b]
      BY <1>a, <1>b, <1>z, <2>2, <3>3 DEF Unindexing
    <3> QED
      BY <1>z, <2>2, <3>2, <3>3
  <2> QED
    BY <2>1, <2>2
<1>4. ASSUME NEW b \in Admins
      PROVE  Settled(admin'[b], keys', keys_by_key', overlapped') /\ Fresh(admin'[b], shown', created')
  <2>1. CASE b = a
    BY <1>b, <1>y, <2>1
  <2>2. CASE b # a
    <3>1. PICK c : c = admin[b] /\ admin'[b] = c
      BY <1>b, <2>2
    <3>2. Settled(c, keys, keys_by_key, overlapped) /\ Fresh(c, shown, created)
      BY <1>c, <3>1
    <3>3. ASSUME c.id \in Ids \ overlapped' PROVE c.id # i /\ c.id \in Ids \ overlapped
      BY <1>z, <2>2, <3>1, <3>3
    <3>4. Settled(c, keys', keys_by_key', overlapped')
      <4> SUFFICES ASSUME c.id \in Ids \ overlapped'
                   PROVE  /\ c.pc = "unindex" => keys'[c.id].key.secret = 0
                          /\ c.pc = "rotate_unindex" => c.row.key.secret = keys'[c.id].key.secret
                          /\ c.pc \in {"rotate_insert", "index"} => \A s \in Secrets : keys_by_key'[s] # c.id
                          /\ c.pc = "index" => keys'[c.id].key.secret = c.secret
        BY DEF Settled
      <4>1. keys'[c.id].key.secret = keys[c.id].key.secret
        BY <1>z, <3>3
      <4>2. \A s \in Secrets : keys_by_key[s] # c.id => keys_by_key'[s] # c.id
        BY <1>a, <1>z, <3>3
      <4> QED
        BY <3>2, <3>3, <4>1, <4>2 DEF Settled
    <3>5. c.pc \in Pending => c.secret \notin shown'
      BY <1>c, <1>y, <2>2, <3>1, <3>2 DEF Fresh, Distinct, Pending
    <3> QED
      BY <1>z, <3>1, <3>2, <3>4, <3>5 DEF Fresh
  <2> QED
    BY <2>1, <2>2
<1> QED
  BY <1>1, <1>2, <1>3, <1>4 DEF IndexOK, InOrder

(* What the index says of a key that at most one call works on.            *)
LEMMA LeadsAlone ==
  ASSUME IndexOK, NEW a \in Admins, NEW i \in Ids \ overlapped,
         \A b \in Admins : b # a => admin[b].id # i, NEW s \in Secrets, keys_by_key[s] = i
  PROVE  keys[i].key.secret = s \/ Unindexing(admin[a], i, s)
  BY DEF IndexOK, InOrder, Leads, Unindexing

(* Every step of the store in memory keeps the index, and adds to it only  *)
(* a secret that nobody had.                                               *)
LEMMA MemorySteps ==
  ASSUME Shaped, IndexOK, backend = "memory", NEW a \in Admins, AdminStep(a)
  PROVE  /\ IndexOK' /\ UNCHANGED <<backend, val>> /\ shown \subseteq shown'
         /\ overlapped \subseteq overlapped'
         /\ \A s \in Secrets : \/ keys_by_key'[s] = keys_by_key[s] \/ keys_by_key'[s] = NoId
                               \/ s \notin shown /\ s \in shown'
<1> USE DEF store, history
<1> DEFINE c == admin[a]
           Adds == \A s \in Secrets : \/ keys_by_key'[s] = keys_by_key[s] \/ keys_by_key'[s] = NoId
                                      \/ s \notin shown /\ s \in shown'
           Goal == /\ IndexOK' /\ UNCHANGED <<backend, val>> /\ shown \subseteq shown'
                   /\ overlapped \subseteq overlapped' /\ Adds
<1>a. /\ keys \in [Ids -> Rows] /\ created \subseteq Ids /\ keys_by_key \in [Secrets -> Ids \cup {NoId}]
      /\ issued \in 0..MaxSecrets /\ MaxSecrets \in Nat /\ shown \subseteq 1..issued
      /\ c \in Calls /\ CallOK(c, backend, issued, created) /\ NoId \notin Ids
      /\ 0 \notin Secrets /\ overlapped \subseteq created /\ admin \in [Admins -> Calls]
  BY KeysAssumption, MovesTo DEF Shaped, KeysPart, AdminPart, Secrets
<1>b. /\ Settled(c, keys, keys_by_key, overlapped) /\ Fresh(c, shown, created)
      /\ Sole(admin, overlapped) /\ Distinct(admin)
      /\ \A b \in Admins : Fresh(admin[b], shown, created)
      /\ InOrder(admin, keys, keys_by_key, shown, overlapped, created)
  BY DEF IndexOK, InOrder
<1>c. IdleAdmin.pc = "idle" /\ IdleAdmin.id = NoId
  BY DEF IdleAdmin
<1>d. \A ks, index, o, sh, cr : /\ Settled(IdleAdmin, ks, index, o) /\ Fresh(IdleAdmin, sh, cr)
                                /\ IdleAdmin.pc \notin Pending
  BY <1>a, <1>c DEF Settled, Fresh, Pending, Rotating
<1>e. \A b \in Admins : admin[b].secret \in Nat /\ admin[b].secret <= issued
  BY <1>a DEF Shaped, AdminPart, CallOK, Calls
<1>f. c.pc = "idle" => \A b \in Admins, i \in Ids : Overlap(i) =>
        /\ overlapped \subseteq overlapped' /\ overlapped' \subseteq overlapped \cup {i}
        /\ i \notin overlapped' => admin[b].id # i
  BY DEF Overlap
<1>h. c.id \in Ids \ overlapped => \A b \in Admins : b # a => admin[b].id # c.id
  BY <1>b DEF Sole
<1>k. c.pc = "idle" => c.id = NoId
  BY <1>b DEF Fresh
<1>1. CASE Create(a)
  <2>1. PICK i \in Ids \ created, ex \in {"never", "future"} :
          Insert(i, ex) /\ Continue(a, "index", i, NoRow, issued')
    BY <1>1 DEF Create
  <2>2. /\ generate_api_key /\ UNCHANGED <<backend, keys_by_key, val, shown, overlapped>>
        /\ c.pc = "idle"
    BY <1>1 DEF Create, At
  <2>3. issued' = issued + 1 /\ created' = created \cup {i}
    BY <2>1, <2>2, Inserted DEF Insert
  <2>4. PICK r \in Rows : keys' = [keys EXCEPT ![i] = r] /\ r.key.secret = issued'
    BY <2>1, <2>2, Inserted
  <2>5. PICK d : d = [pc |-> "index", id |-> i, row |-> NoRow, secret |-> r.key.secret, enable |-> "keep"]
    OBVIOUS
  <2>6. admin' = [admin EXCEPT ![a] = d]
    BY <2>1, <2>4, <2>5 DEF Continue
  <2>7. keys[i].key.secret = 0
    BY <2>1 DEF Shaped, KeysPart, NoRow, Plain
  <2>8. \A b \in Admins : admin[b].id # i
    BY <1>a, <1>b, <2>1 DEF Fresh
  <2>9. i \in Ids \ overlapped
    BY <1>a, <2>1
  <2>10. \A s \in Secrets : keys_by_key[s] # i
    BY <1>a, <2>7, <2>8, <2>9, LeadsAlone DEF Unindexing
  <2>11. keys'[i].key.secret = r.key.secret /\ r.key.secret \notin shown'
    BY <1>a, <2>2, <2>3, <2>4
  <2>12. Settled(d, keys', keys_by_key', overlapped') /\ Fresh(d, shown', created')
    BY <2>2, <2>3, <2>5, <2>10, <2>11 DEF Settled, Fresh
  <2>13. \A b \in Admins : admin[b].secret # d.secret
    BY <1>a, <1>e, <2>3, <2>4, <2>5
  <2>14. \A j \in Ids : j # i => keys'[j].key.secret = keys[j].key.secret
    BY <1>a, <2>4
  <2>15. c.id \in {i, NoId} /\ d.id \in {i, NoId}
    BY <1>a, <1>k, <2>2, <2>5
  <2>16. IndexOK'
    <3>1. KeyStep(a, d, i)
      BY <2>2, <2>3, <2>6, <2>8, <2>9, <2>10, <2>12, <2>13, <2>14, <2>15 DEF KeyStep
    <3> QED
      BY <2>2, <3>1, KeyMoves
  <2> QED
    BY <2>2, <2>16
<1>2. CASE Index(a)
  <2>1. /\ c.pc = "index" /\ keys_by_key' = [keys_by_key EXCEPT ![c.secret] = c.id]
        /\ shown' = shown \cup {c.secret} /\ admin' = [admin EXCEPT ![a] = IdleAdmin]
        /\ UNCHANGED <<backend, keys, val, overlapped, created>>
    BY <1>2 DEF Index, Reveal, Done, At
  <2>2. c.id \in Ids /\ c.secret \in Secrets /\ c.secret \notin shown
    BY <1>a, <1>b, <2>1 DEF CallOK, Calls, Secrets, Fresh, Pending
  <2>3. \A s \in Secrets : keys_by_key'[s] = IF s = c.secret THEN c.id ELSE keys_by_key[s]
    BY <1>a, <2>1
  <2>4. PICK i \in Ids : i = c.id
    BY <2>2
  <2>5. ASSUME i \notin overlapped', NEW s \in Secrets, keys_by_key'[s] = i
        PROVE  keys'[i].key.secret = s
    BY <1>b, <2>1, <2>3, <2>4, <2>5 DEF Settled
  <2>6. IndexOK'
    <3>1. KeyStep(a, IdleAdmin, i)
      BY <1>a, <1>c, <1>d, <1>h, <2>1, <2>3, <2>4, <2>5 DEF KeyStep
    <3> QED
      BY <2>2, <3>1, KeyMoves
  <2>7. Adds
    BY <2>1, <2>2, <2>3
  <2> QED
    BY <2>1, <2>6, <2>7
<1>3. ASSUME \A i \in Ids : keys'[i].key.secret = keys[i].key.secret,
             UNCHANGED <<backend, keys_by_key, admin, val, shown, overlapped, created>>
      PROVE  Goal
  <2>1. IndexOK'
    BY <1>3, SecretsStay
  <2> QED
    BY <1>3, <2>1
<1>4. CASE Update(a)
  <2>1. PICK i \in created, enable \in Enables, ex \in Expiries :
          keys' = [keys EXCEPT ![i] = Merged(@, enable, ex)]
    BY <1>4 DEF Update
  <2>2. UNCHANGED <<backend, keys_by_key, admin, val, shown, overlapped, created>> /\ i \in Ids
    BY <1>4, <1>a DEF Update
  <2>3. PICK k \in Rows : k = keys[i]
    BY <1>a, <2>2
  <2>4. Merged(k, enable, ex).key = k.key
    BY MergedIs
  <2>5. \A j \in Ids : keys'[j].key.secret = keys[j].key.secret
    BY <1>a, <2>1, <2>2, <2>3, <2>4
  <2> QED
    BY <1>3, <2>2, <2>5
<1>5. CASE Revoke(a)
  <2>1. PICK i \in created : keys' = [keys EXCEPT ![i].enabled = FALSE]
    BY <1>5 DEF Revoke
  <2>2. UNCHANGED <<backend, keys_by_key, admin, val, shown, overlapped, created>> /\ i \in Ids
    BY <1>5, <1>a DEF Revoke
  <2>3. PICK r \in Rows : keys' = [keys EXCEPT ![i] = r] /\ r.key = keys[i].key
    BY <2>1, <2>2, Written
  <2>4. \A j \in Ids : keys'[j].key.secret = keys[j].key.secret
    BY <1>a, <2>2, <2>3
  <2> QED
    BY <1>3, <2>2, <2>4
<1>6. CASE Delete(a)
  <2>1. PICK i \in created : Remove(i) /\ Overlap(i) /\ Continue(a, "unindex", i, keys[i], 0)
    BY <1>6 DEF Delete
  <2>2. UNCHANGED <<backend, keys_by_key, val, shown, created>> /\ c.pc = "idle" /\ i \in Ids
    BY <1>6, <1>a DEF Delete, At
  <2>3. PICK d : d = [pc |-> "unindex", id |-> i, row |-> keys[i], secret |-> 0, enable |-> "keep"]
    OBVIOUS
  <2>4. admin' = [admin EXCEPT ![a] = d]
    BY <2>1, <2>3 DEF Continue
  <2>5. keys'[i].key.secret = 0 /\ \A j \in Ids : j # i => keys'[j] = keys[j]
    BY <1>a, <2>1, <2>2 DEF Remove, NoRow, Plain
  <2>6. d.pc = "unindex" /\ d.id = i /\ d.row.key.secret = keys[i].key.secret
    BY <2>3
  <2>7. Settled(d, keys', keys_by_key', overlapped') /\ Fresh(d, shown', created')
    BY <2>1, <2>2, <2>5, <2>6 DEF Settled, Fresh, Pending, Rotating
  <2>8. /\ overlapped \subseteq overlapped' /\ overlapped' \subseteq overlapped \cup {i}
        /\ i \notin overlapped' => \A b \in Admins : admin[b].id # i
    BY <1>f, <2>1, <2>2
  <2>9. ASSUME i \notin overlapped', NEW s \in Secrets, keys_by_key'[s] = i
        PROVE  Unindexing(d, i, s)
    <3>1. keys[i].key.secret = s \/ Unindexing(c, i, s)
      BY <2>2, <2>8, <2>9, LeadsAlone
    <3> QED
      BY <2>2, <2>6, <3>1 DEF Unindexing
  <2>10. d.pc \notin Pending
    BY <2>6 DEF Pending, Rotating
  <2>11. IndexOK'
    <3>1. KeyStep(a, d, i)
      BY <1>k, <2>2, <2>4, <2>5, <2>6, <2>7, <2>8, <2>9, <2>10 DEF KeyStep
    <3> QED
      BY <2>2, <3>1, KeyMoves
  <2> QED
    BY <2>2, <2>8, <2>11
<1>7. ASSUME c.pc \in {"unindex", "rotate_unindex"},
             keys_by_key' = [keys_by_key EXCEPT ![c.row.key.secret] = NoId]
      PROVE  \A s \in Secrets : keys_by_key'[s] = IF s = c.row.key.secret THEN NoId
                                                  ELSE keys_by_key[s]
  BY <1>7, <1>a DEF CallOK, Secrets
<1>8. CASE Unindex(a)
  <2>1. /\ c.pc = "unindex" /\ keys_by_key' = [keys_by_key EXCEPT ![c.row.key.secret] = NoId]
        /\ admin' = [admin EXCEPT ![a] = IdleAdmin]
        /\ UNCHANGED <<backend, keys, val, shown, overlapped, created>>
    BY <1>8 DEF Unindex, Done, At
  <2>2. \A s \in Secrets : keys_by_key'[s] = IF s = c.row.key.secret THEN NoId ELSE keys_by_key[s]
    BY <1>7, <2>1
  <2>3. PICK i \in Ids : i = c.id
    BY <1>a, <2>1 DEF CallOK
  <2>4. ASSUME i \notin overlapped', NEW s \in Secrets, keys_by_key'[s] = i
        PROVE  keys'[i].key.secret = s
    <3>1. keys_by_key[s] = i /\ s # c.row.key.secret
      BY <1>a, <2>2, <2>4
    <3>2. keys[i].key.secret = s \/ Unindexing(c, i, s)
      BY <1>h, <2>1, <2>3, <2>4, <3>1, LeadsAlone
    <3> QED
      BY <2>1, <3>1, <3>2 DEF Unindexing
  <2>5. IndexOK'
    <3>1. KeyStep(a, IdleAdmin, i)
      BY <1>a, <1>c, <1>d, <1>h, <2>1, <2>2, <2>3, <2>4 DEF KeyStep
    <3> QED
      BY <2>2, <3>1, KeyMoves
  <2> QED
    BY <2>1, <2>2, <2>5
<1>9. CASE Rotate(a)
  <2>1. PICK i \in created : Overlap(i) /\ Continue(a, "rotate_unindex", i, keys[i], issued')
    BY <1>9 DEF Rotate
  <2>2. /\ UNCHANGED <<backend, keys, keys_by_key, val, shown, created>> /\ c.pc = "idle"
        /\ issued' = issued + 1 /\ i \in Ids
    BY <1>9, <1>a DEF Rotate, At, generate_api_key
  <2>3. PICK d : d = [pc |-> "rotate_unindex", id |-> i, row |-> keys[i], secret |-> issued',
                      enable |-> "keep"]
    OBVIOUS
  <2>4. admin' = [admin EXCEPT ![a] = d]
    BY <2>1, <2>3 DEF Continue
  <2>5. issued' \notin shown'
    BY <1>a, <2>2
  <2>6. Settled(d, keys', keys_by_key', overlapped') /\ Fresh(d, shown', created')
    BY <2>1, <2>2, <2>3, <2>5 DEF Settled, Fresh
  <2>7. /\ overlapped \subseteq overlapped' /\ overlapped' \subseteq overlapped \cup {i}
        /\ i \notin overlapped' => \A b \in Admins : admin[b].id # i
    BY <1>f, <2>1, <2>2
  <2>8. ASSUME i \notin overlapped', NEW s \in Secrets, keys_by_key'[s] = i
        PROVE  keys'[i].key.secret = s
    <3>1. keys[i].key.secret = s \/ Unindexing(c, i, s)
      BY <2>2, <2>7, <2>8, LeadsAlone
    <3> QED
      BY <2>2, <3>1 DEF Unindexing
  <2>9. \A b \in Admins : admin[b].secret # d.secret
    BY <1>a, <1>e, <2>2, <2>3
  <2>10. IndexOK'
    <3>1. KeyStep(a, d, i)
      BY <1>k, <2>2, <2>3, <2>4, <2>6, <2>7, <2>8, <2>9 DEF KeyStep
    <3> QED
      BY <2>2, <3>1, KeyMoves
  <2> QED
    BY <2>2, <2>7, <2>10
<1>10. CASE RotateUnindex(a)
  <2>1. /\ c.pc = "rotate_unindex" /\ Goto(a, "rotate_insert")
        /\ keys_by_key' = [keys_by_key EXCEPT ![c.row.key.secret] = NoId]
        /\ UNCHANGED <<backend, keys, val, shown, overlapped, created>>
    BY <1>10 DEF RotateUnindex, At
  <2>2. PICK d : d = [pc |-> "rotate_insert", id |-> c.id, row |-> c.row, secret |-> c.secret,
                      enable |-> c.enable]
    OBVIOUS
  <2>3. admin' = [admin EXCEPT ![a] = d]
    BY <2>1, <2>2, MovesTo
  <2>4. \A s \in Secrets : keys_by_key'[s] = IF s = c.row.key.secret THEN NoId ELSE keys_by_key[s]
    BY <1>7, <2>1
  <2>5. PICK i \in Ids : i = c.id
    BY <1>a, <2>1 DEF CallOK
  <2>6. ASSUME i \notin overlapped', NEW s \in Secrets, keys_by_key'[s] = i PROVE FALSE
    <3>1. keys_by_key[s] = i /\ s # c.row.key.secret
      BY <1>a, <2>4, <2>6
    <3>2. keys[i].key.secret = s \/ Unindexing(c, i, s)
      BY <1>h, <2>1, <2>5, <2>6, <3>1, LeadsAlone
    <3>3. c.row.key.secret = keys[i].key.secret
      BY <1>b, <2>1, <2>5, <2>6 DEF Settled
    <3> QED
      BY <2>1, <3>1, <3>2, <3>3 DEF Unindexing
  <2>7. c.secret \notin shown' /\ c.pc \in Pending /\ c.id \in created
    BY <1>a, <1>b, <2>1 DEF Fresh, Pending, Rotating, CallOK
  <2>8. Settled(d, keys', keys_by_key', overlapped') /\ Fresh(d, shown', created')
    BY <2>1, <2>2, <2>5, <2>6, <2>7 DEF Settled, Fresh
  <2>9. \A b \in Admins : b # a /\ admin[b].pc \in Pending => admin[b].secret # d.secret
    BY <1>b, <2>2, <2>7 DEF Distinct
  <2>10. d.id = i
    BY <2>2, <2>5
  <2>11. IndexOK'
    <3>1. KeyStep(a, d, i)
      BY <1>h, <2>1, <2>3, <2>4, <2>5, <2>6, <2>8, <2>9, <2>10 DEF KeyStep
    <3> QED
      BY <2>2, <3>1, KeyMoves
  <2> QED
    BY <2>1, <2>4, <2>11
<1>11. CASE RotateInsert(a)
  <2>1. /\ c.pc = "rotate_insert" /\ Continue(a, "index", c.id, NoRow, c.secret)
        /\ keys' = [keys EXCEPT ![c.id] = [c.row EXCEPT !.key = Hash(Plain(c.secret))]]
        /\ UNCHANGED <<backend, keys_by_key, val, shown, overlapped, created>>
    BY <1>11 DEF RotateInsert, At
  <2>2. c.id \in Ids /\ c.row \in Rows /\ c.secret \in 0..MaxSecrets
    BY <1>a, <2>1 DEF CallOK, Calls
  <2>3. PICK d : d = [pc |-> "index", id |-> c.id, row |-> NoRow, secret |-> c.secret,
                      enable |-> "keep"]
    OBVIOUS
  <2>4. admin' = [admin EXCEPT ![a] = d]
    BY <2>1, <2>3 DEF Continue
  <2>5. PICK key \in Strings : key = Hash(Plain(c.secret)) /\ key.secret = c.secret
    BY <2>2, HashedSecret
  <2>6. PICK r : r = [c.row EXCEPT !.key = key]
    OBVIOUS
  <2>7. r.key = key
    BY <2>2, <2>6 DEF Rows
  <2>8. keys'[c.id].key.secret = c.secret /\ \A j \in Ids : j # c.id => keys'[j] = keys[j]
    BY <1>a, <2>1, <2>2, <2>5, <2>6, <2>7
  <2>9. PICK i \in Ids : i = c.id
    BY <2>2
  <2>10. i \notin overlapped => \A s \in Secrets : keys_by_key'[s] # i
    BY <1>b, <2>1, <2>9 DEF Settled
  <2>11. c.secret \notin shown' /\ c.pc \in Pending /\ c.id \in created
    BY <1>a, <1>b, <2>1 DEF Fresh, Pending, Rotating, CallOK
  <2>12. Settled(d, keys', keys_by_key', overlapped') /\ Fresh(d, shown', created')
    BY <2>1, <2>3, <2>8, <2>9, <2>10, <2>11 DEF Settled, Fresh
  <2>13. \A b \in Admins : b # a /\ admin[b].pc \in Pending => admin[b].secret # d.secret
    BY <1>b, <2>3, <2>11 DEF Distinct
  <2>14. d.id = i /\ d.pc \in Pending
    BY <2>3, <2>9 DEF Pending
  <2>15. IndexOK'
    <3>1. KeyStep(a, d, i)
      BY <1>h, <2>1, <2>4, <2>8, <2>9, <2>10, <2>12, <2>13, <2>14 DEF KeyStep
    <3> QED
      BY <2>2, <3>1, KeyMoves
  <2> QED
    BY <2>1, <2>15
<1>12. ~PgCreate(a) /\ ~PgUpdate(a) /\ ~PgDelete(a) /\ ~PgRevoke(a) /\ ~PgRotate(a)
  BY DEF PgCreate, PgUpdate, PgDelete, PgRevoke, PgRotate
<1>13. /\ ~SqliteCreate(a) /\ ~SqliteUpdate(a) /\ ~SqliteDelete(a) /\ ~SqliteRevoke(a)
       /\ ~SqliteRotate(a)
  BY DEF SqliteCreate, SqliteUpdate, SqliteDelete, SqliteRevoke, SqliteRotate
<1>14. ~PgWriteBack(a) /\ ~SqliteWriteBack(a) /\ ~Reread(a) /\ ~StatementFails(a)
  BY <1>a DEF CallOK, PgWriteBack, SqliteWriteBack, Reread, StatementFails, At
<1> QED
  BY <1>1, <1>2, <1>4, <1>5, <1>6, <1>8, <1>9, <1>10, <1>11, <1>12, <1>13, <1>14 DEF AdminStep

(* A request, as the contract sees it.                                     *)
CallOf(q) == [pc |-> q.pc, id |-> q.id,
              secret |-> IF q.token.hashed = 0 THEN q.token.secret ELSE 0]
Call == [v \in Validators |-> CallOf(val[v])]

(* A request moves on.                                                     *)
LEMMA CallMoves ==
  ASSUME Shaped, NEW v \in Validators, NEW q, val' = [val EXCEPT ![v] = q]
  PROVE  Call' = [Call EXCEPT ![v] = CallOf(q)]
<1>1. DOMAIN val = Validators
  BY DEF Shaped, ValPart
<1>2. \A w \in Validators : val'[w] = IF w = v THEN q ELSE val[w]
  BY <1>1
<1>3. Call' = [w \in Validators |-> CallOf(val'[w])]
  BY DEF Call
<1>4. Call = [w \in Validators |-> CallOf(val[w])]
  BY DEF Call
<1>5. ASSUME NEW w \in Validators PROVE Call'[w] = [Call EXCEPT ![v] = CallOf(q)][w]
  BY <1>2, <1>3, <1>4
<1> QED
  BY <1>3, <1>4, <1>5

Answered(v, pc, id) == val' = [val EXCEPT ![v].pc = pc, ![v].id = id]
Replied(v, pc, id) == Call' = [Call EXCEPT ![v].pc = pc, ![v].id = id]

(* A request is answered or resolved: its secret stays.                    *)
LEMMA CallGoesOn ==
  ASSUME Shaped, NEW v \in Validators, NEW pc, NEW id, Answered(v, pc, id)
  PROVE  Replied(v, pc, id)
<1>0. val' = [val EXCEPT ![v].pc = pc, ![v].id = id]
  BY DEF Answered
<1>1. PICK q : q = [pc |-> pc, token |-> val[v].token, id |-> id]
  OBVIOUS
<1>2. val' = [val EXCEPT ![v] = q]
  BY <1>0, <1>1, RequestIs
<1>3. Call' = [Call EXCEPT ![v] = CallOf(q)]
  BY <1>2, CallMoves
<1>4. PICK c, d : c = CallOf(val[v]) /\ d = [c EXCEPT !.pc = pc, !.id = id]
  OBVIOUS
<1>5. d = [pc |-> d.pc, id |-> d.id, secret |-> d.secret]
  BY <1>4 DEF CallOf
<1>6. d.pc = pc /\ d.id = id /\ d.secret = c.secret
  BY <1>4 DEF CallOf
<1>7. c.secret = IF val[v].token.hashed = 0 THEN val[v].token.secret ELSE 0
  BY <1>4 DEF CallOf
<1>8. d = CallOf(q)
  BY <1>1, <1>5, <1>6, <1>7 DEF CallOf
<1>9. Call[v] = c
  BY <1>4 DEF Call
<1>10. [Call EXCEPT ![v].pc = pc, ![v].id = id] = [Call EXCEPT ![v] = d]
  BY <1>4, <1>9 DEF Call
<1> QED
  BY <1>3, <1>8, <1>10 DEF Replied

(* What the contract says of a request.                                    *)
LEMMA CallIs ==
  ASSUME Shaped, NEW v \in Validators
  PROVE  /\ Call[v].pc = val[v].pc /\ Call[v].id = val[v].id
         /\ Call[v].secret = IF val[v].token.hashed = 0 THEN val[v].token.secret ELSE 0
         /\ val[v].token \in Strings
         /\ val[v].token.hashed = 0 /\ val[v].token.secret # 0 => Call[v].secret \in Secrets
<1>1. Call[v] = CallOf(val[v])
  BY DEF Call
<1>2. /\ Call[v].pc = val[v].pc /\ Call[v].id = val[v].id
      /\ Call[v].secret = IF val[v].token.hashed = 0 THEN val[v].token.secret ELSE 0
  BY <1>1 DEF CallOf
<1>3. val[v].token \in Strings
  BY DEF Shaped, ValPart, Requests
<1>4. val[v].token.secret \in 0..MaxSecrets
  BY <1>3 DEF Strings
<1> QED
  BY <1>2, <1>3, <1>4 DEF Secrets

(* The contract sees nothing but the request.                              *)
Apart ==
  /\ Holder' = Holder /\ UNCHANGED <<backend, issued, shown, overlapped>>
  /\ \A i \in Ids : Usable(keys'[i]) <=> Usable(keys[i])

(* Refused is Refuse.                                                      *)
LEMMA Refuses ==
  ASSUME Shaped, NEW v \in Validators, val[v].pc \in {"lookup", "check"},
         Answered(v, "refused", NoId), Apart
  PROVE  Contract!Refuse(v)
<1>1. Call' = [Call EXCEPT ![v].pc = "refused", ![v].id = NoId]
  BY CallGoesOn DEF Replied
<1>2. Call[v].pc \in {"lookup", "check"}
  BY CallIs
<1>3. {i \in Ids : Usable(keys'[i])} = {i \in Ids : Usable(keys[i])}
  BY DEF Apart
<1> QED
  BY <1>1, <1>2, <1>3 DEF Contract!Refuse, Apart, Call, CallOf

(* A use is Accept, of the key the lookup found or the one that now holds  *)
(* the secret.                                                             *)
LEMMA Accepts ==
  ASSUME Shaped, NEW v \in Validators, NEW i \in Ids, Usable(keys[i]),
         val[v].token.hashed = 0, val[v].token.secret # 0,
         \/ val[v].pc = "check" /\ val[v].id = i
         \/ val[v].pc = "lookup" /\ Holder[val[v].token.secret] = i,
         Answered(v, "accepted", i), Apart
  PROVE  Contract!Accept(v)
<1>1. Call' = [Call EXCEPT ![v].pc = "accepted", ![v].id = i]
  BY CallGoesOn DEF Replied
<1>2. /\ Call[v].pc \in {"lookup", "check"} /\ Call[v].secret \in Secrets
      /\ i = IF Call[v].pc = "check" THEN Call[v].id ELSE Holder[Call[v].secret]
  BY CallIs
<1>3. {j \in Ids : Usable(keys'[j])} = {j \in Ids : Usable(keys[j])}
  BY DEF Apart
<1> QED
  BY <1>1, <1>2, <1>3 DEF Contract!Accept, Apart, Call, CallOf

(* A token is presented.                                                   *)
LEMMA Begins ==
  ASSUME Shaped, NEW v \in Validators, Present(v)
  PROVE  \E s \in Secrets \cup {0} : Contract!Begin(v, s)
<1> USE DEF store, history
<1>1. PICK token \in [hashed : {0, 1}, secret : 1..issued] :
        val' = [val EXCEPT ![v] = [IdleVal EXCEPT !.pc = "lookup", !.token = token]]
  BY DEF Present
<1>2. PICK q : q = [IdleVal EXCEPT !.pc = "lookup", !.token = token]
  OBVIOUS
<1>3. q.pc = "lookup" /\ q.token = token /\ q.id = NoId
  BY <1>2 DEF IdleVal
<1>4. PICK s : s = IF token.hashed = 0 THEN token.secret ELSE 0
  OBVIOUS
<1>5. s \in Secrets \cup {0}
  BY <1>4, KeysAssumption DEF Secrets, Shaped
<1>6. CallOf(q) = [pc |-> "lookup", secret |-> s, id |-> NoId]
  BY <1>3, <1>4 DEF CallOf
<1>7. Call' = [Call EXCEPT ![v] = [pc |-> "lookup", secret |-> s, id |-> NoId]]
  <2>1. val' = [val EXCEPT ![v] = q]
    BY <1>1, <1>2
  <2> QED
    BY <1>6, <2>1, CallMoves
<1>8. Call[v].pc = "idle"
  BY CallIs DEF Present
<1>9. UNCHANGED <<backend, keys, keys_by_key, issued, shown, overlapped>>
  BY DEF Present
<1>10. Holder' = Holder
  BY <1>9 DEF Holder
<1>11. Contract!Begin(v, s)
  BY <1>7, <1>8, <1>9, <1>10 DEF Contract!Begin, Call, CallOf
<1> QED
  BY <1>5, <1>11

(* A request is over.                                                      *)
LEMMA Ends ==
  ASSUME Shaped, NEW v \in Validators, Answer(v)
  PROVE  Contract!End(v)
<1> USE DEF store, history
<1>1. CallOf(IdleVal) = [pc |-> "idle", secret |-> 0, id |-> NoId]
  BY DEF CallOf, IdleVal, Plain
<1>2. Call' = [Call EXCEPT ![v] = [pc |-> "idle", secret |-> 0, id |-> NoId]]
  BY <1>1, CallMoves DEF Answer
<1>3. Call[v].pc \in {"accepted", "refused"}
  BY CallIs DEF Answer
<1>4. UNCHANGED <<backend, keys, keys_by_key, issued, shown, overlapped>>
  BY DEF Answer
<1>5. Holder' = Holder
  BY <1>4 DEF Holder
<1> QED
  BY <1>2, <1>3, <1>4, <1>5 DEF Contract!End, Call, CallOf

(* The lookup in memory.                                                   *)
LEMMA Looks ==
  ASSUME Shaped, NEW v \in Validators, Lookup(v)
  PROVE  Contract!Refuse(v) \/ Contract!Resolve(v)
<1> USE DEF store, history
<1>1. PICK t \in Strings : t = val[v].token
  BY CallIs
<1>2. Hash(t).hashed = t.hashed + 1 /\ Hash(t).secret = t.secret /\ t.hashed \in {0, 1}
  BY HashIs DEF Strings
<1>3. PICK i : i = IF t.hashed = 0 THEN keys_by_key[t.secret] ELSE NoId
  OBVIOUS
<1>4. Answered(v, IF i = NoId THEN "refused" ELSE "check", i)
  <2>1. i = IF Hash(t).hashed = 1 THEN keys_by_key[Hash(t).secret] ELSE NoId
    BY <1>2, <1>3
  <2> QED
    BY <1>1, <2>1 DEF Lookup, Answered
<1>5. UNCHANGED <<backend, keys, keys_by_key, issued, shown, overlapped>> /\ backend = "memory"
  BY DEF Lookup
<1>6. Apart
  BY <1>5 DEF Apart, Holder
<1>7. CASE i = NoId
  BY <1>4, <1>6, <1>7, Refuses DEF Lookup
<1>8. CASE i # NoId
  <2>1. t.hashed = 0 /\ t.secret # 0
    BY <1>1, <1>3, <1>8 DEF Lookup, Shaped, ValPart, RequestOK
  <2>2. Call[v].pc = "lookup" /\ Call[v].secret \in Secrets /\ Call[v].secret = t.secret
    BY <1>1, <2>1, CallIs DEF Lookup
  <2>3. Holder[Call[v].secret] = i
    BY <1>3, <1>5, <2>1, <2>2 DEF Holder
  <2>4. Call' = [Call EXCEPT ![v].pc = "check", ![v].id = i]
    BY <1>4, <1>8, CallGoesOn DEF Replied
  <2> QED
    BY <1>5, <1>6, <2>2, <2>3, <2>4 DEF Contract!Resolve, Call, CallOf, Apart
<1> QED
  BY <1>7, <1>8

(* Holders depend on the secrets in the table, and on the index in memory. *)
LEMMA HolderStays ==
  ASSUME UNCHANGED <<backend, keys_by_key>>,
         backend # "memory" => Unique(keys) /\ Unique(keys'),
         \A i \in Ids : keys'[i].key.secret = keys[i].key.secret
  PROVE  Holder' = Holder
<1>1. CASE backend = "memory"
  BY <1>1 DEF Holder
<1>2. CASE backend # "memory"
  <2>1. PICK b, index, ks, ks2 : b = backend /\ index = keys_by_key /\ ks = keys /\ ks2 = keys'
    OBVIOUS
  <2>2. b # "memory" /\ Unique(ks) /\ Unique(ks2)
    BY <1>2, <2>1
  <2>3. \A i \in Ids : ks2[i].key.secret = ks[i].key.secret
    BY <2>1
  <2>4. HolderOf(b, index, ks2) = HolderOf(b, index, ks)
    BY <2>2, <2>3, SameHolder
  <2> QED
    BY <2>1, <2>4, HolderNow
<1> QED
  BY <1>1, <1>2

(* A use changes neither a secret nor whether a key can be used.           *)
LEMMA UsesApart ==
  ASSUME Shaped, Indexed, NEW v \in Validators, NEW i \in Ids, Usable(keys[i]),
         NEW key \in Strings, key.secret = keys[i].key.secret, Use(v, i, key),
         UNCHANGED <<backend, keys_by_key, admin, issued, created, shown, overlapped>>
  PROVE  /\ Apart /\ Answered(v, "accepted", i)
         /\ backend = "memory" => IndexOK'
         /\ backend # "memory" => Unique(keys')
<1>1. PICK r \in Rows : /\ keys' = [keys EXCEPT ![i] = r] /\ r.enabled = keys[i].enabled
                        /\ r.expires = keys[i].expires /\ r.key = key
  BY EditUse DEF Shaped, KeysPart
<1>2. keys'[i] = r /\ \A j \in Ids : j # i => keys'[j] = keys[j]
  BY <1>1 DEF Shaped, KeysPart
<1>3. \A j \in Ids : keys'[j].key.secret = keys[j].key.secret
  BY <1>1, <1>2
<1>4. Usable(r)
  <2>1. ~NoRow.enabled
    BY DEF NoRow
  <2>2. r.enabled /\ r.expires # "past"
    BY <1>1 DEF Usable
  <2>3. r # NoRow
    BY <2>1, <2>2
  <2> QED
    BY <2>2, <2>3 DEF Usable
<1>5. \A j \in Ids : Usable(keys'[j]) <=> Usable(keys[j])
  BY <1>2, <1>4
<1>6. backend # "memory" => Unique(keys')
  BY <1>3 DEF Indexed, Unique
<1>7. Holder' = Holder
  BY <1>3, <1>6, HolderStays DEF Indexed
<1>8. backend = "memory" => IndexOK'
  BY <1>3, SecretsStay DEF Indexed
<1> QED
  BY <1>5, <1>6, <1>7, <1>8 DEF Apart, Answered, Use

(* Every step of a request is one of the contract's.                       *)
LEMMA RequestSteps ==
  ASSUME Shaped, Indexed, NEW v \in Validators, Validate(v)
  PROVE  /\ Indexed'
         /\ \/ \E s \in Secrets \cup {0} : Contract!Begin(v, s)
            \/ Contract!Resolve(v) \/ Contract!Accept(v) \/ Contract!Refuse(v) \/ Contract!End(v)
<1> USE DEF store, history
<1>a. val \in [Validators -> Requests]
  BY DEF Shaped, ValPart
<1>b. UNCHANGED <<backend, keys_by_key, admin, issued, created, shown, overlapped>>
  BY DEF Validate, Present, Lookup, Check, PgValidate, SqliteValidate, ValidateFails, Answer
<1>c. ASSUME UNCHANGED keys
      PROVE  (backend = "memory" => IndexOK') /\ (backend # "memory" => Unique(keys')) /\ Apart
  <2>1. backend = "memory" => IndexOK'
    BY <1>b, <1>c, SecretsStay DEF Indexed
  <2>2. Holder' = Holder
    BY <1>b, <1>c DEF Holder
  <2> QED
    BY <1>b, <1>c, <2>1, <2>2 DEF Indexed, Apart
<1>d. ASSUME NEW pc, NEW id, Answered(v, pc, id), pc = "check" => Resolved' PROVE Resolved'
  <2>1. val' = [val EXCEPT ![v] = [pc |-> pc, token |-> val[v].token, id |-> id]]
    BY <1>d, RequestIs DEF Answered
  <2> QED
    BY <1>a, <1>d, <2>1 DEF Indexed, Resolved
<1>e. ASSUME Refused(v), val[v].pc \in {"lookup", "check"} PROVE Indexed' /\ Contract!Refuse(v)
  <2>1. Answered(v, "refused", NoId) /\ UNCHANGED keys
    BY <1>e DEF Refused, Answered
  <2>2. Resolved'
    BY <1>d, <2>1
  <2>3. Contract!Refuse(v)
    BY <1>c, <1>e, <2>1, Refuses
  <2> QED
    BY <1>b, <1>c, <2>1, <2>2, <2>3 DEF Indexed
<1>f. ASSUME NEW i \in Ids, Usable(keys[i]), NEW key \in Strings, key.secret = keys[i].key.secret,
             Use(v, i, key), val[v].token.hashed = 0, val[v].token.secret # 0,
             \/ val[v].pc = "check" /\ val[v].id = i
             \/ val[v].pc = "lookup" /\ Holder[val[v].token.secret] = i
      PROVE  Indexed' /\ Contract!Accept(v)
  <2>1. /\ Apart /\ Answered(v, "accepted", i)
        /\ backend = "memory" => IndexOK'
        /\ backend # "memory" => Unique(keys')
    BY <1>b, <1>f, UsesApart
  <2>2. Resolved'
    BY <1>d, <2>1
  <2>3. Contract!Accept(v)
    BY <1>f, <2>1, Accepts
  <2> QED
    BY <1>b, <2>1, <2>2, <2>3 DEF Indexed
<1>1. CASE Present(v)
  <2>1. PICK token : val' = [val EXCEPT ![v] = [IdleVal EXCEPT !.pc = "lookup", !.token = token]]
    BY <1>1 DEF Present
  <2>2. Resolved'
    BY <1>a, <2>1 DEF Resolved, Indexed, IdleVal
  <2>3. UNCHANGED keys
    BY <1>1 DEF Present
  <2> QED
    BY <1>1, <1>b, <1>c, <2>2, <2>3, Begins DEF Indexed
<1>2. CASE Answer(v)
  <2>1. Resolved' /\ UNCHANGED keys
    BY <1>2, <1>a DEF Answer, Resolved, Indexed, IdleVal
  <2> QED
    BY <1>2, <1>b, <1>c, <2>1, Ends DEF Indexed
<1>3. CASE Lookup(v)
  <2>1. PICK t \in Strings : t = val[v].token
    BY CallIs
  <2>2. Hash(t).hashed = t.hashed + 1 /\ t.hashed \in {0, 1}
    BY HashIs DEF Strings
  <2>3. PICK i : /\ val' = [val EXCEPT ![v].pc = IF i = NoId THEN "refused" ELSE "check", ![v].id = i]
                 /\ i # NoId => Hash(t).hashed = 1
    BY <1>3, <2>1 DEF Lookup
  <2>4. PICK pc : pc = IF i = NoId THEN "refused" ELSE "check"
    OBVIOUS
  <2>5. val' = [val EXCEPT ![v] = [pc |-> pc, token |-> val[v].token, id |-> i]]
    <3>1. val' = [val EXCEPT ![v].pc = pc, ![v].id = i]
      BY <2>3, <2>4
    <3> QED
      BY <3>1, RequestIs
  <2>6. t.secret # 0 /\ (pc = "check" => t.hashed = 0)
    BY <1>3, <2>1, <2>2, <2>3, <2>4 DEF Lookup, Shaped, ValPart, RequestOK
  <2>7. Resolved' /\ UNCHANGED keys
    <3>1. ASSUME NEW w \in Validators, val'[w].pc = "check"
          PROVE  val'[w].token.hashed = 0 /\ val'[w].token.secret # 0
      <4>1. CASE w = v
        BY <1>a, <2>1, <2>5, <2>6, <3>1, <4>1
      <4>2. CASE w # v
        BY <1>a, <2>5, <3>1, <4>2 DEF Indexed, Resolved
      <4> QED
        BY <4>1, <4>2
    <3> QED
      BY <1>3, <3>1 DEF Resolved, Lookup
  <2> QED
    BY <1>3, <1>b, <1>c, <2>7, Looks DEF Indexed
<1>4. CASE Check(v)
  <2>1. val[v].id \in Ids /\ val[v].pc = "check"
    BY <1>4 DEF Check, Shaped, ValPart, RequestOK
  <2>2. keys[val[v].id].key \in Strings
    BY <2>1, RowIs DEF Shaped, KeysPart
  <2>3. val[v].token.hashed = 0 /\ val[v].token.secret # 0
    BY <2>1 DEF Indexed, Resolved
  <2> QED
    BY <1>4, <1>e, <1>f, <2>1, <2>2, <2>3 DEF Check
<1>5. CASE PgValidate(v) \/ SqliteValidate(v) \/ ValidateFails(v)
  <2>1. val[v].pc = "lookup" /\ backend # "memory"
    BY <1>5 DEF PgValidate, SqliteValidate, ValidateFails
  <2>2. MatchAndUse(v) \/ Refused(v)
    BY <1>5 DEF PgValidate, SqliteValidate, ValidateFails
  <2>3. ASSUME NEW i \in Ids, Usable(keys[i]), val[v].token.hashed = 0,
               keys[i].key.secret = val[v].token.secret,
               Hash(val[v].token) \in Strings,
               Hash(val[v].token).secret = keys[i].key.secret,
               Use(v, i, Hash(val[v].token))
        PROVE  Indexed' /\ Contract!Accept(v)
    <3>1. val[v].token.secret # 0
      BY <2>1 DEF Shaped, ValPart, RequestOK
    <3>2. val[v].token.secret \in Secrets
      BY <2>3, <3>1, CallIs
    <3>3. PICK s \in Secrets : s = val[v].token.secret
      BY <3>2
    <3>4. Has(HolderOf(backend, keys_by_key, keys)[s], keys, s)
      BY <2>1, HolderIs DEF Indexed
    <3>5. Holder[val[v].token.secret] = i
      BY <2>3, <3>3, <3>4, HolderNow DEF Has
    <3> QED
      BY <1>f, <2>1, <2>3, <3>1, <3>5
  <2> QED
    BY <1>e, <2>1, <2>2, <2>3, MatchedAndUsed
<1> QED
  BY <1>1, <1>2, <1>3, <1>4, <1>5 DEF Validate

(* The store starts as the contract does.                                  *)
LEMMA InitContract == Init => Indexed /\ Contract!Init
<1> SUFFICES ASSUME Init PROVE Indexed /\ Contract!Init
  OBVIOUS
<1>1. Shaped
  BY InitShaped
<1>2. PICK legacy \in {{}} \cup {{i} : i \in Ids} :
        keys = [i \in Ids |-> IF i \in legacy
                  THEN [NoRow EXCEPT !.key = Plain(1), !.enabled = TRUE] ELSE NoRow]
  BY DEF Init
<1>3. \A i \in Ids : i \notin legacy => keys[i].key.secret = 0
  BY <1>2 DEF NoRow, Plain
<1>4. Unique(keys)
  BY <1>2, <1>3 DEF Unique
<1>5. IndexOK
  <2>1. IdleAdmin.pc = "idle" /\ IdleAdmin.id = NoId /\ NoId \notin Ids
    BY KeysAssumption DEF IdleAdmin
  <2>2. admin = [a \in Admins |-> IdleAdmin] /\ \A s \in Secrets : keys_by_key[s] = NoId
    BY DEF Init
  <2>3. Sole(admin, overlapped) /\ Distinct(admin) /\ Leads(admin, keys, keys_by_key, overlapped)
    BY <2>1, <2>2 DEF Sole, Distinct, Leads, Pending, Rotating
  <2>4. \A a \in Admins : /\ Settled(admin[a], keys, keys_by_key, overlapped)
                          /\ Fresh(admin[a], shown, created)
    BY <2>1, <2>2 DEF Settled, Fresh, Pending, Rotating
  <2> QED
    BY <2>3, <2>4 DEF IndexOK, InOrder
<1>6. Indexed
  BY <1>4, <1>5 DEF Indexed, Resolved, Init, IdleVal
<1>7. shown = 1..issued /\ issued \in 0..MaxSecrets
  BY <1>1 DEF Init, Shaped
<1>8. 1..issued \subseteq Secrets
  BY <1>7, KeysAssumption DEF Secrets
<1>9. ASSUME NEW s \in Secrets
      PROVE  Holder[s] \in Ids \cup {NoId} /\ (Holder[s] # NoId => s \in 1..issued)
  <2>1. CASE backend = "memory"
    BY <2>1 DEF Holder, Init
  <2>2. CASE backend # "memory"
    <3>1. Has(HolderOf(backend, keys_by_key, keys)[s], keys, s)
      BY <1>4, <2>2, HolderIs
    <3>2. Has(Holder[s], keys, s)
      BY <3>1, HolderNow
    <3>3. s # 0
      BY DEF Secrets
    <3>4. ASSUME Holder[s] # NoId PROVE s \in 1..issued
      <4>1. PICK i \in Ids : keys[i].key.secret = s
        BY <3>2, <3>4 DEF Has
      <4> QED
        BY <1>1, <1>7, <3>3, <4>1, SecretsIssued
    <3> QED
      BY <3>2, <3>4 DEF Has
  <2> QED
    BY <2>1, <2>2
<1>10. Holder \in [Secrets -> Ids \cup {NoId}]
  <2>1. Holder = [s \in Secrets |-> Holder[s]]
    BY DEF Holder
  <2> QED
    BY <1>9, <2>1
<1>11. Call = [v \in Validators |-> [pc |-> "idle", secret |-> 0, id |-> NoId]]
  <2>1. CallOf(IdleVal) = [pc |-> "idle", secret |-> 0, id |-> NoId]
    BY DEF CallOf, IdleVal, Plain
  <2> QED
    BY <2>1 DEF Call, Init
<1>12. Contract!Init
  BY <1>7, <1>8, <1>9, <1>10, <1>11 DEF Contract!Init, Call, CallOf, Init
<1> QED
  BY <1>6, <1>12

(* Every step of the store is a step of the contract, or invisible to it.  *)
LEMMA ContractSteps ==
  ASSUME Shaped, Shaped', Indexed, [Next]_vars
  PROVE  Indexed' /\ [Contract!Next]_(Contract!vars)
<1> USE DEF store, history
<1>1. CASE UNCHANGED vars
  <2>1. IndexOK <=> IndexOK'
    BY <1>1 DEF vars, IndexOK
  <2>2. Indexed'
    BY <1>1, <2>1 DEF vars, Indexed, Resolved
  <2>3. Holder' = Holder
    BY <1>1 DEF vars, Holder
  <2> QED
    BY <1>1, <2>2, <2>3 DEF vars, Contract!vars
<1>2. ASSUME NEW a \in Admins, AdminStep(a) PROVE Indexed' /\ Contract!Reissue
  <2>1. CASE backend = "memory"
    <3>1. /\ IndexOK' /\ UNCHANGED <<backend, val>> /\ shown \subseteq shown'
          /\ overlapped \subseteq overlapped'
          /\ \A s \in Secrets : \/ keys_by_key'[s] = keys_by_key[s] \/ keys_by_key'[s] = NoId
                                \/ s \notin shown /\ s \in shown'
      BY <1>2, <2>1, MemorySteps DEF Indexed
    <3>2. Contract!Reissue
      BY <2>1, <3>1, MemoryReissues
    <3> QED
      BY <2>1, <3>1, <3>2 DEF Indexed, Resolved
  <2>2. CASE backend # "memory"
    <3>1. (keys' = keys \/ RowMoves) /\ UNCHANGED <<backend, val, overlapped>> /\ Grows
      BY <1>2, <2>2, SqlWrites
    <3>2. Unique(keys) /\ Unique(keys')
      BY <2>2, <3>1, UniqueLasts DEF Indexed
    <3>3. Contract!Reissue
      BY <2>2, <3>1, <3>2, SqlReissues
    <3> QED
      BY <2>2, <3>1, <3>2, <3>3 DEF Indexed, Resolved
  <2> QED
    BY <2>1, <2>2
<1>3. CASE Expire
  <2>1. PICK i \in created : keys' = [keys EXCEPT ![i].expires = "past"]
    BY <1>3 DEF Expire
  <2>2. /\ UNCHANGED <<backend, keys_by_key, admin, val, issued, created, shown, overlapped>>
        /\ i \in Ids
    BY <1>3 DEF Expire, Shaped
  <2>3. PICK r \in Rows : keys' = [keys EXCEPT ![i] = r] /\ r.key = keys[i].key
    BY <2>1, <2>2, Written DEF Expiry
  <2>4. \A j \in Ids : keys'[j].key.secret = keys[j].key.secret
    BY <2>2, <2>3 DEF Shaped, KeysPart
  <2>5. CASE backend = "memory"
    <3>1. IndexOK'
      BY <2>2, <2>4, <2>5, SecretsStay DEF Indexed
    <3>2. Contract!Reissue
      BY <2>2, <2>5, <3>1, MemoryReissues
    <3> QED
      BY <2>2, <2>5, <3>1, <3>2 DEF Indexed, Resolved, Contract!Next
  <2>6. CASE backend # "memory"
    <3>1. RowMoves /\ Grows
      BY <2>2, <2>3, NothingNew DEF RowMoves
    <3>2. Unique(keys) /\ Unique(keys')
      BY <2>6, <3>1, UniqueLasts DEF Indexed
    <3>3. Contract!Reissue
      BY <2>2, <2>6, <3>1, <3>2, SqlReissues
    <3> QED
      BY <2>2, <2>6, <3>2, <3>3 DEF Indexed, Resolved, Contract!Next
  <2> QED
    BY <2>5, <2>6
<1>4. ASSUME NEW v \in Validators, Validate(v) PROVE Indexed' /\ Contract!Next
  BY <1>4, RequestSteps DEF Contract!Next
<1> QED
  BY <1>1, <1>2, <1>3, <1>4 DEF Next, Contract!Next

(* ImplementsContract: each of the three backends implements the contract  *)
(* of the key store, for any number of operators and requests: a key has   *)
(* one secret at a time, unless two rotations or deletes of it overlapped  *)
(* in memory, a withdrawn secret never comes back, and a token is accepted *)
(* only for the key that held it during the call and is usable.            *)
THEOREM StoreImplementsContract == Spec => ImplementsContract
<1>1. Init => Shaped /\ Indexed /\ Contract!Init
  BY InitShaped, InitContract
<1>2. Shaped /\ [Next]_vars => Shaped'
  BY ShapedNext
<1>3. Shaped /\ Shaped' /\ Indexed /\ [Next]_vars => Indexed' /\ [Contract!Next]_(Contract!vars)
  BY ContractSteps
<1> QED
  BY <1>1, <1>2, <1>3, PTL DEF Spec, ImplementsContract, Contract!Spec

=============================================================================
