----------------------------- MODULE MCAccess -----------------------------
(* Eight environments that start and six that are refused; one             *)
(* organisation with one team; role patterns that overlap, nest and end in *)
(* a star.                                                                 *)
EXTENDS Access

MCEnv(master, issuer, password, required) ==
  [require_auth |-> FALSE, deployment |-> "dev", master_key |-> master,
   source |-> "auto", database |-> "none", migrate |-> FALSE,
   issuer |-> issuer, audience |-> issuer, password |-> password,
   required_roles |-> required]

Plain == MCEnv("mk", TRUE, TRUE, {})
NoAuthEnv == MCEnv(None, FALSE, FALSE, {})

MCEnvs ==
  {NoAuthEnv, Plain, MCEnv(None, TRUE, FALSE, {}), MCEnv(None, FALSE, TRUE, {}),
   MCEnv("mk", TRUE, TRUE, {"user", "x"}), MCEnv("mk", FALSE, FALSE, {"user"}),
   [Plain EXCEPT !.deployment = "prod", !.source = "db", !.database = "up"],
   [NoAuthEnv EXCEPT !.require_auth = TRUE],
   [NoAuthEnv EXCEPT !.deployment = "staging"],
   [Plain EXCEPT !.source = "typo"], [Plain EXCEPT !.source = "db"],
   [Plain EXCEPT !.migrate = TRUE, !.database = "down"],
   [Plain EXCEPT !.audience = FALSE]}

MCClaims(roles, project, scope, org, team, rpm) ==
  [roles |-> roles, project_roles |-> project, scope |-> scope, org |-> org,
   team |-> team, rpm |-> rpm]

MCClaimSets ==
  {MCClaims({"user"}, {}, {}, "o", "t", 90),
   MCClaims({}, {"user", "read"}, {"read"}, "o", None, None),
   MCClaims({"x"}, {"admin"}, {}, "o", "t", 1),
   MCClaims({}, {}, {"admin"}, None, None, None)}

MCRow(id, scopes, org, team) ==
  [id |-> id, scopes |-> scopes, org |-> org, team |-> team, rate |-> None]

MCKeyRows == {MCRow("k1", {"user"}, "o", "t"), MCRow("k2", {"admin"}, "o", None),
              MCRow("k3", {"read-only"}, "p", "t")}

AB == <<"a", "b">>
ABB == <<"a", "b", "b">>
P == <<"p">>
Q == <<"q">>

MCGuard(on, words, max) == [enabled |-> on, blocked_words |-> words, max_tokens |-> max]

MCScope(allowed, blocked, budget, guard) ==
  [allowed_models |-> allowed, blocked_models |-> blocked,
   token_budget |-> budget, guardrails |-> guard]

MCOrg(s, team) ==
  [allowed_models |-> s.allowed_models, blocked_models |-> s.blocked_models,
   token_budget |-> s.token_budget, guardrails |-> s.guardrails,
   teams |-> [t \in {"t"} |-> team]]

Free == MCScope(None, None, None, MCGuard(FALSE, {"bad"}, 1))
NoRbac == [enabled |-> FALSE, roles |-> [r \in {} |-> None], default_role |-> None]

MCRoles(user, x, default) ==
  [enabled |-> TRUE, default_role |-> default,
   roles |-> [r \in {"user", "x"} |-> IF r = "user" THEN user ELSE x]]

Grant(models, providers) == [models |-> models, providers |-> providers]

MCConfigs ==
  {[orgs |-> [o \in {"o"} |-> MCOrg(org, team)], rbac |-> NoRbac] :
     org \in {Free, MCScope({AB}, None, 1, MCGuard(TRUE, {"BAD"}, 2))},
     team \in {Free, MCScope(None, {ABB}, 2, MCGuard(TRUE, {"bad"}, None))}}
  \cup
  {[orgs |-> [o \in {} |-> None], rbac |-> r] :
     r \in {MCRoles(Grant({<<"a", "*", "b", "*", "b">>}, {P}),
                    Grant(None, {<<"*">>}), "x"),
            MCRoles(Grant({<<"a", "*", "b">>, Q}, None),
                    Grant({<<"*", "b", "a", "*">>}, {Q}), "x"),
            MCRoles(Grant({<<"a", "b", "*", "b">>}, {<<"p", "*">>}),
                    Grant({ABB}, {P, Q}), None)}}

MCChat(model, max, words) == [model |-> model, max_tokens |-> max, words |-> words]

MCChatRequests == {MCChat(AB, 1, {"bad"}), MCChat(AB, 2, {}), MCChat(ABB, None, {"BAD"}),
                   MCChat(ABB, 1, {"hi"}), MCChat(AB, 3, {"hi"})}

MCTargetOrders == {<<[provider |-> P], [provider |-> Q]>>}

MCPeers == [peer : {"lan1", "wan1"},
            forwarded : {<< >>, <<"junk">>, <<"wan2", "wan3", "lan2">>, <<"lan2", "wan2">>},
            real_ip : {None, "wan2", "lan2", "junk"}]
=============================================================================
