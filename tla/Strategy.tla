------------------------------ MODULE Strategy ------------------------------
(***************************************************************************)
(* Strategy::select_ordered: the order in which a request tries the        *)
(* targets that serve its model, for every strategy mode.                  *)
(*                                                                         *)
(* A target is a record [id, provider, api_key_env, base_url, weight,      *)
(* models] and a request what the rules look at: [model, user, other], the *)
(* model as a sequence of name parts and the words of its user and of its  *)
(* other messages.  The averages the least-latency mode sorts by are read  *)
(* one by one from the latency store while other requests record into it,  *)
(* so they are a parameter: any list of averages, Unmeasured among them.   *)
(***************************************************************************)
EXTENDS Integers, Sequences, FiniteSets

CONSTANT None               \* Option::None

(* The elements of list at the positions kept, in their order.             *)
Sublist(list, kept) ==
  [k \in 1..Cardinality(kept) |->
     list[CHOOSE i \in kept : Cardinality({j \in kept : j <= i}) = k]]

-----------------------------------------------------------------------------
(* Building and running a strategy.                                        *)

Built(mode, rules, fallback, variants) ==
  [mode |-> mode, rules |-> rules, fallback |-> fallback,
   variants |-> variants]

(* from_mode: an advanced mode without its rules.                          *)
FromMode(mode) == Built(mode, << >>, None, << >>)

(* from_strategy_config: only the advanced modes keep their section; a     *)
(* regular expression that does not compile is kept and matches nothing.   *)
FromStrategyConfig(config) ==
  CASE config.mode = "conditional" ->
         Built("conditional", config.conditional_rules, config.fallback, << >>)
    [] config.mode = "content_based" ->
         Built("content_based", config.content_rules, config.fallback, << >>)
    [] config.mode = "ab_test" ->
         Built("ab_test", << >>, None, config.ab_variants)
    [] OTHER -> FromMode(config.mode)

StartsWith(name, prefix) ==
  Len(prefix) <= Len(name) /\ SubSeq(name, 1, Len(prefix)) = prefix

MatchesCondition(rule, ask) ==
  IF rule.key = "model" THEN ask.model = rule.value
  ELSE StartsWith(ask.model, rule.value)

(* The words of the user messages only, without regard to case except for  *)
(* a regular expression.  "Hi" and "hi" are two spellings of one word.     *)
Lowered(words) == {IF w = "Hi" THEN "hi" ELSE w : w \in words}

MatchesContentRule(rule, ask) ==
  CASE rule.condition = "contains" -> Lowered({rule.value}) \subseteq Lowered(ask.user)
    [] rule.condition = "not_contains" ->
         ~(Lowered({rule.value}) \subseteq Lowered(ask.user))
    [] rule.condition = "regex" -> rule.compiles /\ rule.value \in ask.user

(* The target of the first rule that matches, else the fallback.           *)
RuleTarget(built, ask) ==
  LET hit == {i \in DOMAIN built.rules :
                IF built.mode = "conditional"
                THEN MatchesCondition(built.rules[i], ask)
                ELSE MatchesContentRule(built.rules[i], ask)}
  IN  IF hit = {} THEN built.fallback
      ELSE built.rules[CHOOSE i \in hit : \A j \in hit : i <= j].target

(* The variants select_ab_test_variant may draw: a weight that is not      *)
(* positive counts as 1, so every variant can be drawn.                    *)
AbTestVariants(built, eligible) ==
  IF built.variants = << >> THEN {eligible[1]}
  ELSE {built.variants[i].target : i \in DOMAIN built.variants}

OrderedWithPrimary(primary, eligible) ==
  IF primary = None THEN eligible ELSE <<primary>> \o eligible

(* What dedup_targets tells targets apart by.                              *)
Endpoint(t) == <<t.id, t.provider, t.api_key_env, t.base_url>>

(* Mutant of Dedup: it compares neighbours, like Vec::dedup.               *)
DedupNeighbours(ordered) ==
  Sublist(ordered, {i \in DOMAIN ordered : i > 1 =>
                      Endpoint(ordered[i]) # Endpoint(ordered[i - 1])})

(* The first target of each endpoint, in order.                            *)
Dedup(ordered) ==
  Sublist(ordered, {i \in DOMAIN ordered : \A j \in 1..(i - 1) :
                      Endpoint(ordered[i]) # Endpoint(ordered[j])})

(* A stable sort of the list by the given keys.                            *)
StableSort(list, key) ==
  LET before(i, j) == key[i] < key[j] \/ (key[i] = key[j] /\ i < j)
  IN  [k \in DOMAIN list |->
         list[CHOOSE i \in DOMAIN list :
                Cardinality({j \in DOMAIN list : before(j, i)}) = k - 1]]

(* Weighted draws without replacement.  A target of weight 0 is drawn only *)
(* where a draw of exactly 0 (the first one) or rounding (the last one)    *)
(* ends on it, or in order once no weight is left.                         *)
LoadBalanced(list) ==
  LET positive(i) == list[i].weight > 0
      drawable(i, left) ==
        IF \E j \in left : positive(j)
        THEN \/ positive(i)
             \/ \A j \in left : i <= j
             \/ \A j \in left : i >= j
        ELSE \A j \in left : i <= j
      draws == {p \in [DOMAIN list -> DOMAIN list] :
                  /\ \A i \in DOMAIN list : \E k \in DOMAIN list : p[k] = i
                  /\ \A k \in DOMAIN list :
                       drawable(p[k], {p[j] : j \in k..Len(list)})}
  IN  {[k \in DOMAIN list |-> list[p[k]]] : p \in draws}

(* select_ordered: the lists it may return, given the averages it read.    *)
Orderings(built, ask, eligible, avgs) ==
  LET orders ==
        CASE built.mode = "single" -> {<<eligible[1]>>}
          [] built.mode = "fallback" -> {eligible}
          [] built.mode = "load_balance" -> LoadBalanced(eligible)
          [] built.mode = "least_latency" -> {StableSort(eligible, avgs)}
          [] built.mode = "cost_optimized" ->
               {StableSort(eligible, [i \in DOMAIN eligible |-> eligible[i].weight])}
          [] built.mode = "ab_test" ->
               {OrderedWithPrimary(t, eligible) : t \in AbTestVariants(built, eligible)}
          [] OTHER -> {OrderedWithPrimary(RuleTarget(built, ask), eligible)}
  IN  {Dedup(o) : o \in orders}

(* target_serves_model.                                                    *)
ServesModel(t, model) == t.models = None \/ model \in t.models

(* The targets that serve the model, in their order.                       *)
Eligible(targets, model) ==
  Sublist(targets, {i \in DOMAIN targets : ServesModel(targets[i], model)})
=============================================================================
