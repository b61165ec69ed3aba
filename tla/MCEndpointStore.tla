-------------------------- MODULE MCEndpointStore ---------------------------
(***************************************************************************)
(* One model, one endpoint, two admin calls at a time, two encryption keys *)
(* and none: enough for a read-merge-write to race a toggle, a deletion to *)
(* race a creation, and a key to be unreadable for a while.                *)
(***************************************************************************)
EXTENDS EndpointStore, TLC

Ask(type, base, key, on) == [type |-> type, base_url |-> base, api_key |-> key, enabled |-> on]

MCCreates == {Ask("openai", None, "s1", TRUE), Ask("custom", "url", "", FALSE),
              Ask("custom", None, "s1", TRUE), Ask("custom", "inner", None, TRUE)}

MCUpdates == {Ask("custom", Unset, Unset, Unset), Ask(Unset, None, Unset, Unset),
              Ask("openai", "url", Unset, TRUE), Ask(Unset, Unset, "s2", Unset),
              Ask(Unset, Unset, None, FALSE), Ask(Unset, "inner", Unset, Unset)}

MCLegacy == {Ask("custom", "", [under |-> None, secret |-> "s1"], TRUE),
             Ask("openai", None, [under |-> "k1", secret |-> "s1"], TRUE)}

Symmetry == Permutations(Admins)

=============================================================================
