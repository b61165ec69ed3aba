------------------------------- MODULE Policy -------------------------------
(***************************************************************************)
(* The decisions the gateway takes about one request from one Config: the  *)
(* scope chain of a principal, the model lists, word and token guardrails  *)
(* and token budgets of its scopes, and role-based access to models and    *)
(* providers.  Pure operators: Pipeline applies them to the configuration  *)
(* in force, Access compares them with what they are documented to mean.   *)
(*                                                                         *)
(* A principal is a record [scope, roles, org, team, key], None when the   *)
(* request carried none.  An Option is its value or None.  A request is a  *)
(* record [model, max_tokens, words], words being the set of words of its  *)
(* messages, in the case the client wrote them.                            *)
(***************************************************************************)
EXTENDS Naturals, Sequences, FiniteSets

CONSTANT None   \* Option::None

Ok == "ok"

Least(S) == CHOOSE x \in S : \A y \in S : x <= y

(* The first check of a list that fails decides, as `?` does.              *)
FirstError(verdicts) ==
  LET failed == {i \in DOMAIN verdicts : verdicts[i] # Ok}
  IN  IF failed = {} THEN Ok ELSE verdicts[Least(failed)]

-----------------------------------------------------------------------------
(* Config::scopes.                                                         *)

(* The request policy of one scope, what OrgConfig and TeamConfig share.   *)
ScopeRecord(kind, s) ==
  [kind |-> kind, allowed_models |-> s.allowed_models,
   blocked_models |-> s.blocked_models, token_budget |-> s.token_budget,
   guardrails |-> s.guardrails]

(* Mutant of Scopes: a configured team stands in for its organisation.     *)
ScopesTeamReplaces(orgs, org_id, team_id) ==
  IF org_id \notin DOMAIN orgs THEN << >>
  ELSE LET org == orgs[org_id]
       IN IF team_id \in DOMAIN org.teams
          THEN <<ScopeRecord("team", org.teams[team_id])>>
          ELSE <<ScopeRecord("org", org)>>

(* The chain <<org>> or <<org, team>>; a team counts only under its own    *)
(* configured organisation.                                                *)
Scopes(orgs, org_id, team_id) ==
  IF org_id \notin DOMAIN orgs THEN << >>
  ELSE LET org == orgs[org_id]
       IN <<ScopeRecord("org", org)>>
          \o (IF team_id \in DOMAIN org.teams
              THEN <<ScopeRecord("team", org.teams[team_id])>>
              ELSE << >>)

-----------------------------------------------------------------------------
(* check_org_guardrails and check_token_budgets.                           *)

(* The words are compared in lower case on both sides; "BAD" and "bad" are *)
(* the two spellings of one word.                                          *)
Lower(words) == {IF w = "BAD" THEN "bad" ELSE w : w \in words}

ListVerdict(scope, request) ==
  IF scope.allowed_models # None /\ request.model \notin scope.allowed_models
  THEN "not_allowed"
  ELSE IF scope.blocked_models # None /\ request.model \in scope.blocked_models
  THEN "blocked"
  ELSE Ok

Exceeds(requested, max) ==
  requested # None /\ max # None /\ requested > max

GuardVerdict(scope, request) ==
  IF ~scope.guardrails.enabled THEN Ok
  ELSE IF Lower(scope.guardrails.blocked_words) \cap Lower(request.words) # {}
  THEN "blocked_word"
  ELSE IF Exceeds(request.max_tokens, scope.guardrails.max_tokens)
  THEN "guardrail_max_tokens"
  ELSE Ok

(* Every scope's model lists before any scope's word and token guardrails. *)
CheckOrgGuardrails(auth, orgs, request) ==
  IF auth = None THEN Ok
  ELSE LET chain == Scopes(orgs, auth.org, auth.team)
       IN FirstError([i \in DOMAIN chain |-> ListVerdict(chain[i], request)]
                     \o [i \in DOMAIN chain |-> GuardVerdict(chain[i], request)])

CheckTokenBudgets(auth, orgs, request) ==
  IF auth = None THEN Ok
  ELSE LET chain == Scopes(orgs, auth.org, auth.team)
       IN FirstError([i \in DOMAIN chain |->
                        IF Exceeds(request.max_tokens, chain[i].token_budget)
                        THEN "budget_max_tokens" ELSE Ok])

-----------------------------------------------------------------------------
(* RbacConfig.  A pattern is a sequence of characters and "*"; a name is a *)
(* sequence of characters.                                                 *)

(* The positions, from pos on, where part starts in value.                 *)
Occurrences(part, value, pos) ==
  {i \in pos..(Len(value) - Len(part) + 1) :
     SubSeq(value, i, i + Len(part) - 1) = part}

(* pattern.split('*'): the literal parts around the stars.                 *)
Split(pattern) ==
  LET stars == {i \in DOMAIN pattern : pattern[i] = "*"}
      cut == [k \in 0..(Cardinality(stars) + 1) |->
                IF k = 0 THEN 0
                ELSE IF k = Cardinality(stars) + 1 THEN Len(pattern) + 1
                ELSE CHOOSE i \in stars :
                       Cardinality({j \in stars : j <= i}) = k]
  IN  [k \in 1..(Cardinality(stars) + 1) |->
         SubSeq(pattern, cut[k - 1] + 1, cut[k] - 1)]

(* Mutant of PatternMatches: a middle part may overlap what came before.   *)
PatternMatchesOverlap(pattern, value) ==
  LET parts == Split(pattern)
  IN  IF Len(parts) = 1 THEN pattern = value
      ELSE \A i \in DOMAIN parts :
             CASE parts[i] = << >> -> TRUE
               [] i = 1 -> 1 \in Occurrences(parts[i], value, 1)
               [] OTHER -> Occurrences(parts[i], value, 1) # {}

(* Where matching stands after part i of parts when it stood at pos, 0     *)
(* when the part is not found: an anchored prefix, then each middle part   *)
(* at its first occurrence, then an anchored suffix.                       *)
MatchPart(parts, value, i, pos) ==
  LET at == Occurrences(parts[i], value, pos)
      end == Len(value) - Len(parts[i]) + 1
  IN  IF parts[i] = << >> THEN pos
      ELSE IF i = 1 THEN IF pos \in at THEN pos + Len(parts[i]) ELSE 0
      ELSE IF i = Len(parts) THEN IF end \in at THEN Len(value) + 1 ELSE 0
      ELSE IF at = {} THEN 0 ELSE Least(at) + Len(parts[i])

(* The loop of pattern_matches: the position after each part.              *)
Positions(parts, value) ==
  LET pos[i \in 0..Len(parts)] ==
        IF i = 0 THEN 1
        ELSE IF pos[i - 1] = 0 THEN 0 ELSE MatchPart(parts, value, i, pos[i - 1])
  IN  pos

PatternMatches(pattern, value) ==
  LET parts == Split(pattern)
  IN  IF Len(parts) = 1 THEN pattern = value
      ELSE Positions(parts, value)[Len(parts)] # 0

AnyMatch(patterns, value) == \E p \in patterns : PatternMatches(p, value)

(* merge_dimension over the policies: None, unrestricted, wins.            *)
MergeDimension(lists) ==
  IF None \in lists THEN None ELSE UNION lists

(* The union over the principal's configured roles; default_role speaks    *)
(* only for a principal none of whose roles is configured.                 *)
EffectivePolicy(rbac, roles) ==
  LET matched == roles \cap DOMAIN rbac.roles
      named == IF matched = {} THEN {rbac.default_role} \cap DOMAIN rbac.roles
                               ELSE matched
      policies == {rbac.roles[r] : r \in named}
  IN  IF policies = {} THEN None
      ELSE [models |-> MergeDimension({p.models : p \in policies}),
            providers |-> MergeDimension({p.providers : p \in policies})]

CheckDimension(rbac, roles, is_admin, value, dimension, denial) ==
  IF ~rbac.enabled \/ is_admin THEN Ok
  ELSE LET policy == EffectivePolicy(rbac, roles)
       IN  CASE policy = None -> "no_matching_role"
             [] policy # None /\ policy[dimension] = None -> Ok
             [] OTHER -> IF AnyMatch(policy[dimension], value) THEN Ok
                         ELSE denial

CheckModel(rbac, roles, is_admin, model) ==
  CheckDimension(rbac, roles, is_admin, model, "models", "model_forbidden")

CheckProvider(rbac, roles, is_admin, provider) ==
  CheckDimension(rbac, roles, is_admin, provider, "providers",
                 "provider_forbidden")

RolesOf(auth) == IF auth = None THEN {} ELSE auth.roles
IsAdmin(auth) == IF auth = None THEN FALSE ELSE auth.scope = "admin"

(* check_rbac_model.                                                       *)
CheckRbacModel(auth, rbac, model) ==
  CheckModel(rbac, RolesOf(auth), IsAdmin(auth), model)

(* filter_targets_by_rbac: the targets kept, in order; an empty result is  *)
(* the 403.                                                                *)
FilterTargets(auth, rbac, ordered) ==
  LET allowed(t) == CheckProvider(rbac, RolesOf(auth), IsAdmin(auth), t.provider) = Ok
      kept[i \in 0..Len(ordered)] ==
        IF i = 0 THEN << >>
        ELSE IF allowed(ordered[i]) THEN Append(kept[i - 1], ordered[i])
        ELSE kept[i - 1]
  IN  kept[Len(ordered)]

(* prepare_request's checks on the request, after the rate limits.         *)
PolicyVerdict(auth, config, request) ==
  FirstError(<<CheckTokenBudgets(auth, config.orgs, request),
               CheckOrgGuardrails(auth, config.orgs, request),
               CheckRbacModel(auth, config.rbac, request.model)>>)

=============================================================================
