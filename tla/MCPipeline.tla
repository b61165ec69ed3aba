----------------------------- MODULE MCPipeline -----------------------------
(* Pipeline with two requests.  Organisation acme redacts, its team ops     *)
(* still uses the deprecated block_pii, its team lab has switched scanning  *)
(* off; the other configurations block globally, or leave it to the         *)
(* environment, with a rate limit of one request and roles.                 *)
EXTENDS Pipeline, TLC

Symmetry == Permutations(Requests)

M == <<"m">>
G == <<"g">>
P == <<"p">>
Q == <<"q">>

MCConfidence == [EMAIL |-> 9, PHONE |-> 7]
MCEnv == [mode |-> "redact", response_mode |-> None, strategy |-> "unknown",
          entities |-> {"email"}, min_confidence |-> 6,
          scan_tool_arguments |-> TRUE, fail_open |-> FALSE]

Section(mode, response_mode) ==
  [DefaultSection EXCEPT !.enabled = TRUE, !.mode = mode, !.response_mode = response_mode]
NoGuard == [enabled |-> FALSE, blocked_words |-> {}, max_tokens |-> None,
            pii |-> None, content_filter |-> None]
Scope(guard) == [allowed_models |-> None, blocked_models |-> None, token_budget |-> None,
                 guardrails |-> guard]
BlockPii == [NoGuard EXCEPT !.enabled = TRUE,
               !.content_filter = [enabled |-> TRUE, block_pii |-> TRUE]]
Off == [NoGuard EXCEPT !.pii = DefaultSection]
Acme ==
  Scope([NoGuard EXCEPT !.pii = [Section("redact", "redact") EXCEPT !.entities = {"email"}]])
  @@ [rate_limit |-> None,
      teams |-> [ops |-> Scope(BlockPii), lab |-> Scope(Off)]]

NoRoles == [enabled |-> FALSE, default_role |-> None, roles |-> [x \in {} |-> None]]
Roles == [enabled |-> TRUE, default_role |-> None,
          roles |-> [dev |-> [models |-> None, providers |-> {<<"*">>}]]]

Scoped == [orgs |-> [acme |-> Acme], rbac |-> NoRoles,
           rate_limit |-> [enabled |-> FALSE, burst |-> 1],
           pii |-> DefaultSection, targets |-> <<[provider |-> P, models |-> {G}]>>]
Global == [orgs |-> [acme |-> [Scope(NoGuard) @@ [rate_limit |-> 1, teams |-> [x \in {} |-> None]]
                                 EXCEPT !.allowed_models = {G}]],
           rbac |-> Roles, rate_limit |-> [enabled |-> TRUE, burst |-> 2],
           pii |-> [Section("block", "block") EXCEPT !.fail_open = TRUE],
           targets |-> <<[provider |-> P, models |-> None], [provider |-> Q, models |-> {G}]>>]
MCConfigs == {Scoped, Global}

Anon == [scope |-> "user", roles |-> {"dev"}, org |-> None, team |-> None,
         key |-> None, user |-> None, budget |-> None, burst |-> None]
Of(team) == [Anon EXCEPT !.org = "acme", !.team = team, !.budget = 3,
                        !.key = IF team = "lab" THEN "l" ELSE "k"]
Stranger == [Anon EXCEPT !.roles = {}, !.user = "u", !.burst = 1]

Chat(model, stream, large, words) ==
  [model |-> model, max_tokens |-> 4, stream |-> stream, large |-> large,
   slots |-> <<[role |-> "user", kind |-> "text", text |-> words],
               [role |-> "system", kind |-> "text", text |-> words],
               [role |-> "assistant", kind |-> "args", text |-> {"PHONE"}]>>]
Asks(kind, body, auth) == [kind |-> kind, body |-> body, auth |-> auth]

MCAsked ==
  {Asks("chat", Chat(G, FALSE, FALSE, {"EMAIL", "PHONE"}), Of(t)) : t \in {None, "ops", "lab"}}
  \cup {Asks("chat", Chat(G, FALSE, TRUE, {"EMAIL"}), Anon),
        Asks("chat", Chat(G, TRUE, FALSE, {"EMAIL"}), Of(None)),
        Asks("chat", Chat(M, FALSE, FALSE, {}), Stranger),
        Asks("embed", Chat(G, FALSE, FALSE, {}), Anon)}
  \cup {Asks("legacy", [model |-> G, max_tokens |-> None, stream |-> FALSE,
                        prompt |-> p], Anon) : p \in {{}, {"BAD"}}}

(* Whatever a short answer may meet, a long one may too.                   *)
MCReplies == {[choices |-> <<{"EMAIL"}, {"hi"}>>, large |-> TRUE,
               usage |-> [prompt |-> 1, completion |-> 1, total |-> 2]]}
MCFailures == {"api_429", "network"}
MCChunks == {[text |-> {"hi"}, usage |-> [prompt |-> 1, completion |-> 1, total |-> 2]]}
MCPrice == [input |-> 7, output |-> 8]
MCPricing == LoadPricing([m \in {G} |-> MCPrice], [m \in {M} |-> MCPrice])
MCQueries == {[model |-> G, provider |-> None, before |-> 2],
              [model |-> None, provider |-> << >>, before |-> None]}
MCSpent == {<<[key |-> "l", micro |-> 3], [key |-> "z", micro |-> 1]>>}
MCSecrets == {"PHONE"}
=============================================================================
