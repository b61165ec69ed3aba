----------------------------- MODULE MCRouting ------------------------------
(* A small instance of Routing for TLC: one model with two endpoints, e1   *)
(* keyed and e2 keyless, so that a rebuild can drop one and keep the other *)
(* while another call runs, and a third call by itself after them.         *)
EXTENDS Routing, TLC

CONSTANTS m1, e1, e2, env

AllOfOneModel == [e \in Endpoints |-> m1]

(* The document of the environment, and one read while e1 routed.          *)
EnvOrSaved == {{env}, {e1}}

(* Which of the calls is which makes no difference.                        *)
SameCalls == Permutations(Admins)
=============================================================================
