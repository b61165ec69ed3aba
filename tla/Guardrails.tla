----------------------------- MODULE Guardrails -----------------------------
(***************************************************************************)
(* What the content guardrails do to one request or one response under one *)
(* configuration: which PII section governs it, what is scanned, what is   *)
(* rewritten, refused or let through, and what happens when the detection  *)
(* engine fails.  Pure operators; Pipeline applies them to the             *)
(* configuration in force when the plugin runs.                            *)
(*                                                                         *)
(* A text is the set of the words in it; the words of DOMAIN Confidence    *)
(* are entities the engine detects, with that confidence, and Placeholder  *)
(* is what a rewritten span leaves behind.  A request is a record          *)
(* [model, max_tokens, stream, large, slots], slots being the sequence of  *)
(* its [role, kind, text]: message contents (kind "text") and tool-call    *)
(* arguments (kind "args").                                                *)
(***************************************************************************)
EXTENDS Policy

CONSTANT Confidence      \* the engine's entities and the score of each

Placeholder == "[X]"

-----------------------------------------------------------------------------
(* Settings.                                                               *)

PiiModes == {"redact", "block", "observe"}
ResponseModes == {"off", "observe", "redact", "block"}
Strategies == {"replace", "mask", "hash", "encrypt", "remove"}

(* Entity names are compared in upper case.                                *)
Upper(names) == {IF n = "email" THEN "EMAIL" ELSE n : n \in names}

(* parse_roles: names that are no role are ignored.                        *)
ParseRoles(names) == names \cap {"user", "system", "assistant", "tool"}

DefaultRoles == {"user", "system", "tool"}

(* PiiGuardrailSettings::from_config; `enabled` is the caller's concern.   *)
RequestSettings(section) ==
  [mode |-> section.mode, strategy |-> section.strategy,
   entities |-> IF section.entities = None THEN None ELSE Upper(section.entities),
   min_confidence |-> section.min_confidence,
   apply_to |-> ParseRoles(section.apply_to),
   scan_tool_arguments |-> section.scan_tool_arguments,
   fail_open |-> section.fail_open]

(* PiiResponseSettings::from_config: response_mode with the shared options.*)
ResponseSettings(section) ==
  [RequestSettings(section) EXCEPT !.mode = section.response_mode]

(* options_from_env: an unknown strategy is replace, an empty list is every*)
(* entity.                                                                 *)
EnvOptions(env, mode) ==
  [mode |-> mode,
   strategy |-> IF env.strategy \in Strategies THEN env.strategy ELSE "replace",
   entities |-> IF env.entities \in {None, {}} THEN None ELSE Upper(env.entities),
   min_confidence |-> env.min_confidence, apply_to |-> DefaultRoles,
   scan_tool_arguments |-> env.scan_tool_arguments,
   fail_open |-> env.fail_open]

(* PiiGuardrailSettings::from_env and PiiResponseSettings::from_env.       *)
EnvDefaults(env) ==
  IF env.mode \in PiiModes THEN EnvOptions(env, env.mode) ELSE None

EnvResponseDefaults(env) ==
  IF env.response_mode \in ResponseModes \ {"off"}
  THEN EnvOptions(env, env.response_mode) ELSE None

-----------------------------------------------------------------------------
(* Which settings govern a request.                                        *)

(* Config::apply_guardrail_deprecations: block_pii of an enabled content   *)
(* filter becomes a blocking pii section where there is none.              *)
Shim(guardrails, default) ==
  IF /\ guardrails.enabled
     /\ guardrails.content_filter # None
     /\ guardrails.content_filter.enabled /\ guardrails.content_filter.block_pii
     /\ guardrails.pii = None
  THEN [guardrails EXCEPT !.pii = [default EXCEPT !.enabled = TRUE, !.mode = "block"]]
  ELSE guardrails

DefaultSection ==
  [enabled |-> FALSE, mode |-> "redact", strategy |-> "replace", entities |-> None,
   min_confidence |-> 6, apply_to |-> DefaultRoles, scan_tool_arguments |-> FALSE,
   fail_open |-> FALSE, response_mode |-> "off"]

Shimmed(scope) == [scope EXCEPT !.guardrails = Shim(@, DefaultSection)]

ShimmedOrg(org) ==
  [Shimmed(org) EXCEPT !.teams = [t \in DOMAIN @ |-> Shimmed(@[t])]]

ApplyDeprecations(config) ==
  [config EXCEPT !.orgs = [o \in DOMAIN @ |-> ShimmedOrg(@[o])]]

(* Mutant of ScopedPiiSection: the organisation's section comes first.     *)
ScopedPiiSectionOrgFirst(config, org, team) ==
  LET chain == Scopes(config.orgs, org, team)
      present == {i \in DOMAIN chain : chain[i].guardrails.pii # None}
  IN  IF present = {} THEN None ELSE chain[Least(present)].guardrails.pii

(* scoped_pii_section: the most specific scope that has a section, even a  *)
(* disabled one.                                                           *)
ScopedPiiSection(config, org, team) ==
  LET chain == Scopes(config.orgs, org, team)
      present == {i \in DOMAIN chain : chain[i].guardrails.pii # None}
  IN  IF present = {} THEN None
      ELSE chain[CHOOSE i \in present : \A j \in present : j <= i].guardrails.pii

(* PiiGuardrailPlugin::effective_settings; None when nothing is scanned.   *)
EffectiveSettings(config, env, org, team) ==
  LET section == ScopedPiiSection(config, org, team)
  IN  IF section # None
      THEN IF section.enabled THEN RequestSettings(section) ELSE None
      ELSE IF config.pii.enabled THEN RequestSettings(config.pii)
      ELSE EnvDefaults(env)

(* PiiResponseGuardrail::effective_settings.                               *)
Active(section) == section.enabled /\ section.response_mode # "off"

EffectiveResponseSettings(config, env, org, team) ==
  LET section == ScopedPiiSection(config, org, team)
  IN  IF section # None
      THEN IF Active(section) THEN ResponseSettings(section) ELSE None
      ELSE IF Active(config.pii) THEN ResponseSettings(config.pii)
      ELSE EnvResponseDefaults(env)

-----------------------------------------------------------------------------
(* The engine.  It works, fails on the text ("err"), or, on the blocking   *)
(* pool where large texts go, panics ("panic").                            *)

(* filtered_entities.                                                      *)
Filtered(text, opts) ==
  {e \in text \cap DOMAIN Confidence :
     /\ Confidence[e] >= opts.min_confidence
     /\ opts.entities = None \/ e \in opts.entities}

Rewritten(text, opts) ==
  LET hits == Filtered(text, opts)
  IN  IF hits = {} THEN text
      ELSE (text \ hits) \cup (IF opts.strategy = "remove" THEN {} ELSE {Placeholder})

(* anonymizer_config: encrypt needs a key, which is found out only when    *)
(* there is something to encrypt.                                          *)
RedactFails(text, opts, has_key) ==
  Filtered(text, opts) # {} /\ opts.strategy = "encrypt" /\ ~has_key

EngineOutcomes(large) == {"ok", "err"} \cup (IF large THEN {"panic"} ELSE {})

-----------------------------------------------------------------------------
(* The request plugin.                                                     *)

(* collect_slots: the slots of the scanned roles, tool arguments only when *)
(* asked for, empty texts never.                                           *)
CollectSlots(settings, request) ==
  {i \in DOMAIN request.slots :
     /\ request.slots[i].role \in settings.apply_to
     /\ request.slots[i].text # {}
     /\ request.slots[i].kind = "text" \/ settings.scan_tool_arguments}

(* run_engine: the outcome over all the texts, the first failure wins.     *)
RunEngine(settings, request, scanned, engine, has_key) ==
  IF engine # "ok" THEN engine
  ELSE IF settings.mode = "redact"
          /\ \E i \in scanned : RedactFails(request.slots[i].text, settings, has_key)
  THEN "err" ELSE "ok"

(* write_back of every rewritten text.                                     *)
RewrittenSlot(settings, slot) == [slot EXCEPT !.text = Rewritten(@, settings)]

WriteBack(settings, request, scanned) ==
  [request EXCEPT !.slots =
     [i \in DOMAIN @ |-> IF i \in scanned THEN RewrittenSlot(settings, @[i]) ELSE @[i]]]

(* engine_error; a panic on the blocking pool fails the request whatever   *)
(* fail_open says.                                                         *)
EngineError(settings, outcome) ==
  IF outcome = "err" /\ settings.fail_open THEN Ok ELSE "internal"

(* PiiGuardrailPlugin::execute: the verdict and the request it leaves.     *)
PiiExecute(settings, request, engine, has_key) ==
  IF settings = None THEN [verdict |-> Ok, request |-> request]
  ELSE
    LET scanned == CollectSlots(settings, request)
        outcome == RunEngine(settings, request, scanned, engine, has_key)
        found == \E i \in scanned : Filtered(request.slots[i].text, settings) # {}
    IN  IF scanned = {} THEN [verdict |-> Ok, request |-> request]
        ELSE IF outcome # "ok"
        THEN [verdict |-> EngineError(settings, outcome), request |-> request]
        ELSE [verdict |-> IF found /\ settings.mode = "block" THEN "bad_request" ELSE Ok,
              request |-> IF found /\ settings.mode = "redact"
                          THEN WriteBack(settings, request, scanned) ELSE request]

(* The words of a request's messages; tool arguments are no part of them.  *)
Words(request) ==
  UNION {request.slots[i].text :
           i \in {j \in DOMAIN request.slots : request.slots[j].kind = "text"}}

(* WordFilterPlugin and MaxTokenPlugin.                                    *)
WordFilter(blocked, request) ==
  IF Lower(blocked) \cap Lower(Words(request)) # {} THEN "bad_request" ELSE Ok

MaxToken(limit, request) ==
  IF Exceeds(request.max_tokens, limit) THEN "bad_request" ELSE Ok

-----------------------------------------------------------------------------
(* The response guardrail.  A response is the sequence of its choices'     *)
(* texts.                                                                  *)

ExtractResponseText(choices) == UNION {choices[i] : i \in DOMAIN choices}

(* redact_response_text: every choice becomes the one redacted text.       *)
RedactResponseText(choices, text) == [i \in DOMAIN choices |-> text]

(* check_response: a failed scan withholds the response unless fail_open;  *)
(* a panic on the blocking pool is an error.                               *)
CheckResponse(settings, text, engine, has_key) ==
  LET failed == \/ engine = "err"
                \/ settings.mode = "redact" /\ RedactFails(text, settings, has_key)
  IN  IF settings = None \/ text = {} THEN "allow"
      ELSE IF engine = "panic" THEN "error"
      ELSE IF failed THEN IF settings.fail_open THEN "allow" ELSE "reject"
      ELSE IF Filtered(text, settings) = {} \/ settings.mode = "observe" THEN "allow"
      ELSE IF settings.mode = "redact" THEN "redact" ELSE "reject"
=============================================================================
