----------------------------- MODULE MCFailover -----------------------------
(* Small instances of Failover for TLC: two requests over an endpoint and a*)
(* configured target (routing keys "e" and "b") of two providers, one of   *)
(* which the callers' roles may deny, in every strategy mode.  The requests*)
(* ask for <<m, x>>, which X does not serve.                               *)
EXTENDS Failover

CONSTANTS r1, r2

M == <<"m">>
MX == <<"m", "x">>

MCTarget(id, p, env, w, models) ==
  [id |-> id, provider |-> p, api_key_env |-> env, base_url |-> None,
   weight |-> w, models |-> models]

E == MCTarget("e", "p", None, 1, {M, MX})
B == MCTarget(None, "b", "K", 0, None)
X == MCTarget("x", "b", None, 0, {M})

MCAsked == {[model |-> MX, user |-> {"Hi"}, other |-> {}],
            [model |-> MX, user |-> {}, other |-> {"hi"}]}

Section(mode) ==
  [mode |-> mode, conditional_rules |-> << >>, content_rules |-> << >>,
   ab_variants |-> << >>, fallback |-> None]

OnModel(key, value, t) == [key |-> key, value |-> value, target |-> t]
OnContent(cond, t) ==
  [condition |-> cond, value |-> "hi", compiles |-> FALSE, target |-> t]

MCConfigs ==
  {[strategy |-> Section(m), targets |-> <<X, E, B>>] :
     m \in {"single", "fallback", "load_balance", "least_latency",
            "cost_optimized", "ab_test"}}
  \cup {[strategy |-> s, targets |-> <<X, E, B>>] : s \in
          {[Section("conditional") EXCEPT
              !.conditional_rules = <<OnModel("model", M, E),
                                      OnModel("model_prefix", M, B)>>],
           [Section("content_based") EXCEPT
              !.content_rules = <<OnContent("regex", E),
                                  OnContent("contains", B)>>,
              !.fallback = B],
           [Section("content_based") EXCEPT
              !.content_rules = <<OnContent("not_contains", B)>>],
           [Section("ab_test") EXCEPT
              !.ab_variants = <<[target |-> B, weight |-> 0]>>]}}

MCPermits == {{"b", "p"}, {"b"}}

MCLookups == {"found", "not_found"}
=============================================================================
