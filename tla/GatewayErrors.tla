--------------------------- MODULE GatewayErrors ---------------------------
(***************************************************************************)
(* How a failure is named on its way from a provider's HTTP response to    *)
(* the gateway's own answer: ProviderError::from_response, the conversion  *)
(* into GatewayError, and its status code.  "api_401" is an Api error of   *)
(* status 401 or 403, "api_4xx" one of any other client error.             *)
(***************************************************************************)
EXTENDS Naturals

(* from_response: `auth` are the statuses the vendor refuses a key with.   *)
FromResponse(auth, status) ==
  CASE status \in auth -> "auth"
    [] status = 429 -> "rate_limited"
    [] status = 404 -> "model_not_found"
    [] status \in {401, 403} \ auth -> "api_401"
    [] status \in 400..499 \ (auth \cup {401, 403, 404, 429}) -> "api_4xx"
    [] OTHER -> "api_5xx"

(* Mutant of FromProvider: the upstream's refusal of our key is passed on. *)
FromProviderPassesAuth(e) ==
  CASE e \in {"auth", "api_401"} -> "forbidden"
    [] e \in {"rate_limited", "api_429"} -> "rate_limited"
    [] OTHER -> "unavailable"

(* From<ProviderError>: an upstream's refusal of our key is not the        *)
(* client's fault, its 429 and 4xx are passed on.                          *)
FromProvider(e) ==
  CASE e \in {"auth", "api_401", "api_5xx", "network"} -> "unavailable"
    [] e \in {"rate_limited", "api_429"} -> "rate_limited"
    [] e = "model_not_found" -> "not_found"
    [] e \in {"api_4xx", "context_length", "unsupported", "missing_base_url"} ->
         "bad_request"
    [] e = "parse" -> "provider"
    [] OTHER -> "internal"

(* GatewayError::status_code.                                              *)
StatusCode(e) ==
  CASE e \in {"provider_not_found", "not_found"} -> 404
    [] e \in {"circuit_open", "unavailable"} -> 503
    [] e \in {"rate_limited", "quota"} -> 429
    [] e = "forbidden" -> 403
    [] e = "bad_request" -> 400
    [] OTHER -> 500
=============================================================================
