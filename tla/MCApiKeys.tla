----------------------------- MODULE MCApiKeys ------------------------------
(* A key, two operators whose calls may overlap, and a request.            *)
EXTENDS ApiKeys, TLC

MCBackends == {"memory", "postgres", "sqlite"}

(* Operators are alike: no property names one of them.                     *)
Alike == Permutations(Admins)
=============================================================================
