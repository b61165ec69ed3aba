-------------------------- MODULE ProviderRegistry --------------------------
(***************************************************************************)
(* Which client serves a provider type: MapProviderRegistry::build and the *)
(* question `validate` asks of it.  Shared by the calls of a client and by *)
(* the admin API, which refuses an endpoint nobody could build.            *)
(***************************************************************************)
CONSTANT None   \* Option::None

(* The eight presets of the OpenAI shape stand under the name "openai".    *)
RegisteredTypes == {"openai", "anthropic", "gemini"}

Trimmed(base) == IF base = "" THEN None ELSE base

(* build: an unregistered type needs an address of its own.                *)
Build(type, base) ==
  IF type \in RegisteredTypes
  THEN [shape |-> type, base |-> IF Trimmed(base) = None THEN "preset" ELSE base]
  ELSE IF Trimmed(base) = None THEN [shape |-> "missing_base_url", base |-> None]
  ELSE [shape |-> "openai", base |-> base]

(* validate, asked before an endpoint is stored and again by every rebuild.*)
Validated(ask) == Build(ask.type, ask.base_url).shape # "missing_base_url"

ShapeOf(ask) == Build(ask.type, ask.base_url).shape

=============================================================================
