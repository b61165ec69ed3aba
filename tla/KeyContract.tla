----------------------------- MODULE KeyContract ----------------------------
(***************************************************************************)
(* What an API key store promises the callers of `validate`, whatever the  *)
(* backend: a key has one secret at a time unless two changes of its       *)
(* secret overlapped, a secret is granted once and never comes back after  *)
(* it was withdrawn, and a token is accepted only                          *)
(* for the key that held it at some moment of the call, if that key is     *)
(* usable (there, enabled, not expired) when it is accepted.               *)
(***************************************************************************)
CONSTANTS Ids, Secrets, NoId, Validators

VARIABLES holder,    \* per secret: the key that has it
          granted,   \* secrets granted so far
          usable,    \* keys that are there, enabled and not expired
          overlapped,  \* keys whose secret two calls changed at once
          call       \* per validator: [pc, secret, id]

vars == <<holder, granted, usable, overlapped, call>>

Init ==
  /\ granted \subseteq Secrets
  /\ holder \in [Secrets -> Ids \cup {NoId}]
  /\ \A s \in Secrets : holder[s] # NoId => s \in granted
  /\ usable \subseteq Ids /\ overlapped = {}
  /\ call = [v \in Validators |-> [pc |-> "idle", secret |-> 0, id |-> NoId]]

(* A secret is withdrawn, or a new one granted to a key that has none; a   *)
(* rotation may do both at once.                                           *)
Reissue ==
  /\ \A s \in Secrets : holder'[s] \notin {holder[s], NoId} =>
                          s \notin granted /\ s \in granted'
  /\ granted \subseteq granted'
  /\ \A s, t \in Secrets : (holder'[s] = holder'[t] /\ s # t) =>
                             holder'[s] \in {NoId} \cup overlapped'
  /\ usable' \subseteq Ids
  /\ overlapped \subseteq overlapped' /\ overlapped' \subseteq Ids
  /\ UNCHANGED call

Begin(v, s) ==
  /\ call[v].pc = "idle"
  /\ call' = [call EXCEPT ![v] = [pc |-> "lookup", secret |-> s, id |-> NoId]]
  /\ UNCHANGED <<holder, granted, usable, overlapped>>

Resolve(v) ==
  /\ call[v].pc = "lookup" /\ call[v].secret \in Secrets
  /\ call' = [call EXCEPT ![v].pc = "check", ![v].id = holder[call[v].secret]]
  /\ UNCHANGED <<holder, granted, usable, overlapped>>

Accept(v) ==
  /\ call[v].pc \in {"lookup", "check"} /\ call[v].secret \in Secrets
  /\ LET id == IF call[v].pc = "check" THEN call[v].id
                                       ELSE holder[call[v].secret]
     IN  /\ id \in usable
         /\ call' = [call EXCEPT ![v].pc = "accepted", ![v].id = id]
  /\ UNCHANGED <<holder, granted, usable, overlapped>>

Refuse(v) ==
  /\ call[v].pc \in {"lookup", "check"}
  /\ call' = [call EXCEPT ![v].pc = "refused", ![v].id = NoId]
  /\ UNCHANGED <<holder, granted, usable, overlapped>>

End(v) ==
  /\ call[v].pc \in {"accepted", "refused"}
  /\ call' = [call EXCEPT ![v] = [pc |-> "idle", secret |-> 0, id |-> NoId]]
  /\ UNCHANGED <<holder, granted, usable, overlapped>>

Next ==
  \/ Reissue
  \/ \E v \in Validators :
       \/ \E s \in Secrets \cup {0} : Begin(v, s)
       \/ Resolve(v) \/ Accept(v) \/ Refuse(v) \/ End(v)

Spec == Init /\ [][Next]_vars
=============================================================================
