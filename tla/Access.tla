------------------------------- MODULE Access -------------------------------
(***************************************************************************)
(* Who may do what: startup decides which authenticators exist, the        *)
(* combined authentication middleware turns a bearer token into a          *)
(* principal, and the routes and Policy decide what that principal gets.   *)
(* The identity provider rotates its signing key, the gateway refreshes    *)
(* its copy of the key set in the background, break-glass logins are       *)
(* signed with a secret made at start, and the process restarts.           *)
(*                                                                         *)
(* One request is followed at a time: it is at pc "auth" when the          *)
(* middleware sees it, at "store" while the key store is asked, at "route" *)
(* with its principal known, at "select" when the policy let it pass, and  *)
(* at "done" with the status it got.                                       *)
(***************************************************************************)
EXTENDS Policy

CONSTANTS Envs,        \* the environments an operator may start with
          ClaimSets,   \* the claims of the identity provider's tokens
          KeyRows,     \* the rows a key-store lookup may return
          Configs,     \* configurations: [orgs, rbac]
          ChatRequests,\* chat requests: [model, max_tokens, words]
          TargetOrders,\* target lists a strategy may return
          Peers,       \* how a request reaches us: [peer, forwarded, real_ip]
          MaxBoots,    \* bound: starts of the process
          MaxKid       \* bound: signing keys of the identity provider

ASSUME AccessAssumption ==
  /\ MaxBoots \in Nat \ {0}
  /\ MaxKid \in Nat \ {0}

VARIABLES env, status, boot, jwks, fetched, secret, idp, issued, req

vars == <<env, status, boot, jwks, fetched, secret, idp, issued, req>>

Idle == [pc |-> "idle", route |-> None, token |-> None, ctx |-> None,
         code |-> 0, audited |-> FALSE, via |-> None, asked |-> None,
         from |-> None, remote_ip |-> None]

-----------------------------------------------------------------------------
(* Startup.                                                                *)

(* main refuses to start: authentication required without a master key, an *)
(* unknown provider source, strict database routing without a working      *)
(* database, a migration that fails, an issuer without an audience.        *)
AuthIsRequired(e) == e.require_auth \/ e.deployment \in {"production", "prod", "staging"}

RefusesToStart(e) ==
  \/ AuthIsRequired(e) /\ e.master_key = None
  \/ e.source \notin {"auto", "db"}
  \/ e.source = "db" /\ e.database # "up"
  \/ e.migrate /\ e.database # "up"
  \/ e.issuer /\ ~e.audience

(* CombinedAuth::middleware's bypass: no authenticator at all.             *)
Bypass == jwks = None /\ secret = None /\ env.master_key = None

Init ==
  /\ env \in Envs /\ status = "down" /\ boot = 0
  /\ jwks = None /\ fetched = None /\ secret = None
  /\ idp = 1 /\ issued = {} /\ req = Idle

(* AdminLogin::new: a fresh signing secret for every start.                *)
NewSecret(b) == b

(* A start, discovery of the identity provider included: when that fails   *)
(* the gateway runs without JWT authentication.                            *)
Start ==
  /\ status = "down" /\ boot < MaxBoots
  /\ env' \in Envs
  /\ boot' = boot + 1
  /\ IF RefusesToStart(env')
     THEN status' = "refused" /\ UNCHANGED <<jwks, secret>>
     ELSE /\ status' = "up"
          /\ jwks' \in IF env'.issuer THEN {{idp}, None} ELSE {None}
          /\ secret' = IF env'.password THEN NewSecret(boot') ELSE None
  /\ UNCHANGED <<fetched, idp, issued, req>>

(* The process ends; nothing of this state is kept.                        *)
Stop ==
  /\ status # "down"
  /\ status' = "down"
  /\ jwks' = None /\ fetched' = None /\ secret' = None /\ req' = Idle
  /\ UNCHANGED <<env, boot, idp, issued>>

(* The identity provider replaces its signing key.                         *)
RotateKey ==
  /\ idp < MaxKid
  /\ idp' = idp + 1
  /\ UNCHANGED <<env, status, boot, jwks, fetched, secret, issued, req>>

(* refresh_jwks, run by the background task: fetch, then replace the keys. *)
FetchJwks ==
  /\ jwks # None /\ fetched = None
  /\ fetched' = {idp}
  /\ UNCHANGED <<env, status, boot, jwks, secret, idp, issued, req>>

(* Mutant of StoreJwks: new keys are added and none is ever dropped.       *)
StoreJwksAdds ==
  /\ fetched # None
  /\ jwks' = jwks \cup fetched
  /\ fetched' = None
  /\ UNCHANGED <<env, status, boot, secret, idp, issued, req>>

StoreJwks ==
  /\ fetched # None
  /\ jwks' = fetched
  /\ fetched' = None
  /\ UNCHANGED <<env, status, boot, secret, idp, issued, req>>

-----------------------------------------------------------------------------
(* Principals.                                                             *)

Context(scope, roles, org, team, key, rate) ==
  [scope |-> scope, roles |-> roles, org |-> org, team |-> team, key |-> key,
   rate |-> rate]

Anonymous == Context("admin", {}, None, None, None, None)
Master == Context("admin", {"admin"}, None, None, None, None)

(* JwtClaims::roles: the flat claim and the project-role claims.           *)
ClaimedRoles(claims) == claims.roles \cup claims.project_roles

(* Requests per minute as a per-second rate, rounded up.                   *)
PerSecond(rpm) == (rpm + 59) \div 60

IntoAuthContext(claims) ==
  LET roles == ClaimedRoles(claims)
      admin == roles \cap {"admin", "gateway-admin"} # {}
               \/ "admin" \in claims.scope
      readonly == roles \cap {"read-only", "readonly", "read"} # {}
                  \/ "read" \in claims.scope
  IN  Context(IF admin THEN "admin" ELSE IF readonly THEN "read_only" ELSE "api_key",
              roles, claims.org, claims.team, "sub",
              IF claims.rpm = None THEN None
              ELSE [rps |-> PerSecond(claims.rpm), burst |-> claims.rpm])

(* AuthMiddleware::authenticate on a stored key.                           *)
KeyContext(row) ==
  Context(IF "admin" \in row.scopes THEN "admin"
          ELSE IF "read-only" \in row.scopes THEN "read_only" ELSE "api_key",
          row.scopes, row.org, row.team, row.id, row.rate)

LoginClaims ==
  [roles |-> {"admin"}, project_roles |-> {}, scope |-> {}, org |-> None,
   team |-> None, rpm |-> None]

(* Everyone the middleware lets in: nobody is authenticated as Option::None. *)
Principals ==
  {Anonymous, Master, IntoAuthContext(LoginClaims)}
  \cup {IntoAuthContext(c) : c \in ClaimSets}
  \cup {KeyContext(row) : row \in KeyRows}

(* An Option's None is none of the values it may hold: no number, no       *)
(* principal with or without a team, no team's name.  A header is a list   *)
(* of strings.                                                             *)
ASSUME OptionAssumption ==
  /\ None \notin Nat
  /\ \A ctx \in Principals : ctx # None /\ [ctx EXCEPT !.team = None] # None
  /\ \A p \in Peers : p.forwarded \in Seq(STRING)
  /\ \A c \in Configs : \A o \in DOMAIN c.orgs : None \notin DOMAIN c.orgs[o].teams

(* Patterns and the names they are matched with are sequences, and a list  *)
(* of patterns, one role's or merged from several, is never None.          *)
ASSUME PatternAssumption ==
  /\ \A c \in Configs, dim \in {"models", "providers"} :
       /\ \A r \in DOMAIN c.rbac.roles :
            c.rbac.roles[r][dim] # None => c.rbac.roles[r][dim] \subseteq Seq(STRING)
       /\ \A lists \in SUBSET {c.rbac.roles[r][dim] : r \in DOMAIN c.rbac.roles} :
            None \notin lists => UNION lists # None
  /\ \A chat \in ChatRequests : chat.model \in Seq(STRING)
  /\ \A order \in TargetOrders :
       Len(order) \in Nat /\ \A i \in 1..Len(order) : order[i].provider \in Seq(STRING)

(* AdminLogin::validate: signature, expiry, issuer and audience.           *)
LoginValid(token) ==
  token.kind = "login" /\ secret # None /\ token.secret = secret /\ token.fresh

(* OidcDiscovery::validate_token: the key named by the header must be in   *)
(* the key set, then signature, expiry, audience and issuer must hold.     *)
OidcValid(token) ==
  /\ token.kind = "oidc" /\ jwks # None
  /\ token.kid \in jwks
  /\ token.signed /\ token.fresh /\ token.for_us

(* enforce_required_roles.                                                 *)
HasRequiredRole(ctx) ==
  env.required_roles = {} \/ ctx.roles \cap env.required_roles # {}

-----------------------------------------------------------------------------
(* Client addresses.  "lan" addresses are internal, "wan" ones are not.    *)

Internal(ip) == ip \in {"lan1", "lan2"}

(* Mutant of TrustedProxyIp: the leftmost forwarded address is believed.   *)
TrustedProxyIpLeftmost(p) ==
  IF p.forwarded # << >> THEN p.forwarded[1] ELSE p.real_ip

(* The rightmost public address of X-Forwarded-For, else X-Real-IP when    *)
(* that is public.                                                         *)
TrustedProxyIp(p) ==
  LET public == {i \in DOMAIN p.forwarded :
                   p.forwarded[i] # "junk" /\ ~Internal(p.forwarded[i])}
  IN  IF public # {}
      THEN p.forwarded[CHOOSE i \in public : \A j \in public : j <= i]
      ELSE IF p.real_ip \in {None, "junk"} \/ Internal(p.real_ip) THEN None
      ELSE p.real_ip

ResolveRemoteIp(p) ==
  IF Internal(p.peer) /\ TrustedProxyIp(p) # None THEN TrustedProxyIp(p) ELSE p.peer

-----------------------------------------------------------------------------
(* A request.                                                              *)

Tokens ==
  {None, [kind |-> "junk"], [kind |-> "master"], [kind |-> "key"]}
  \cup [kind : {"login"}, secret : issued, fresh : BOOLEAN]
  \cup {[kind |-> "oidc", kid |-> k, signed |-> s, fresh |-> f, for_us |-> a,
         claims |-> c] :
          k \in 1..idp, s \in BOOLEAN, f \in BOOLEAN, a \in BOOLEAN,
          c \in ClaimSets}

(* build_router: the login route is public, the others pass the combined   *)
(* middleware.                                                             *)
Arrive ==
  /\ status = "up" /\ req.pc = "idle"
  /\ \/ req' = [Idle EXCEPT !.pc = "login", !.route = "login"]
     \/ \E route \in {"api", "admin"}, token \in Tokens :
          req' = [Idle EXCEPT !.pc = "auth", !.route = route, !.token = token]
  /\ UNCHANGED <<env, status, boot, jwks, fetched, secret, idp, issued>>

Reply(code, audited) ==
  req' = [req EXCEPT !.pc = "done", !.code = code, !.audited = audited]

Proceed(ctx, via) ==
  req' = [req EXCEPT !.pc = "route", !.ctx = ctx, !.via = via]

(* Mutant of Gated: the role gate is left out.                             *)
GatedOpen(ctx, via) == Proceed(ctx, via)

(* Mutant of Gated: the refusal is not audited.                            *)
GatedSilently(ctx, via) ==
  IF HasRequiredRole(ctx) THEN Proceed(ctx, via) ELSE Reply(403, FALSE)

(* A principal found by a token passes the role gate or is refused.        *)
Gated(ctx, via) ==
  IF HasRequiredRole(ctx) THEN Proceed(ctx, via) ELSE Reply(403, TRUE)

(* CombinedAuth::middleware up to the key store: bypass, missing token,    *)
(* break-glass token (which skips the role gate), identity-provider token; *)
(* whatever is not accepted is tried as a key.                             *)
Middleware ==
  /\ req.pc = "auth"
  /\ LET token == req.token
     IN  CASE Bypass -> Proceed(Anonymous, "bypass")
           [] ~Bypass /\ token = None -> Reply(401, TRUE)
           [] ~Bypass /\ token # None /\ LoginValid(token) ->
                Proceed(IntoAuthContext(LoginClaims), "login")
           [] ~Bypass /\ token # None /\ OidcValid(token) ->
                Gated(IntoAuthContext(token.claims), "oidc")
           [] OTHER -> req' = [req EXCEPT !.pc = "store"]
  /\ UNCHANGED <<env, status, boot, jwks, fetched, secret, idp, issued>>

(* AuthMiddleware::authenticate: the master key, else the key store.       *)
Authenticate ==
  /\ req.pc = "store"
  /\ IF req.token.kind = "master" /\ env.master_key # None
     THEN Gated(Master, "master")
     ELSE \/ Reply(401, TRUE)
          \/ Reply(500, FALSE)
          \/ /\ req.token.kind = "key"
             /\ \E row \in KeyRows : Gated(KeyContext(row), "key")
  /\ UNCHANGED <<env, status, boot, jwks, fetched, secret, idp, issued>>

(* dev_admin_login: 404 without the mechanism, 401 for wrong credentials,  *)
(* audited with the address the request is taken to come from.             *)
Login ==
  /\ req.pc = "login"
  /\ \/ secret = None /\ Reply(404, FALSE) /\ UNCHANGED issued
     \/ /\ secret # None
        /\ \E p \in Peers :
             req' = [req EXCEPT !.pc = "done", !.code = 401, !.audited = TRUE,
                                !.from = p, !.remote_ip = ResolveRemoteIp(p)]
        /\ UNCHANGED issued
     \/ secret # None /\ Reply(200, FALSE) /\ issued' = issued \cup {secret}
  /\ UNCHANGED <<env, status, boot, jwks, fetched, secret, idp>>

(* Mutant of AdminRoute: any principal may use the admin routes.           *)
AdminRouteOpen ==
  /\ req.pc = "route" /\ req.route = "admin"
  /\ Reply(200, FALSE)
  /\ UNCHANGED <<env, status, boot, jwks, fetched, secret, idp, issued>>

(* require_admin_scope.                                                    *)
AdminRoute ==
  /\ req.pc = "route" /\ req.route = "admin"
  /\ Reply(IF req.ctx.scope = "admin" THEN 200 ELSE 403, FALSE)
  /\ UNCHANGED <<env, status, boot, jwks, fetched, secret, idp, issued>>

(* prepare_request: the policy checks of a chat request, under the         *)
(* configuration it reads.                                                 *)
ApiRoute ==
  /\ req.pc = "route" /\ req.route = "api"
  /\ \E config \in Configs, chat \in ChatRequests :
       LET verdict == PolicyVerdict(req.ctx, config, chat)
       IN  req' = [req EXCEPT !.pc = IF verdict = Ok THEN "select" ELSE "done",
                     !.code = IF verdict = Ok THEN 0 ELSE 403,
                     !.asked = [config |-> config, chat |-> chat,
                                verdict |-> verdict, served |-> None]]
  /\ UNCHANGED <<env, status, boot, jwks, fetched, secret, idp, issued>>

(* select_targets: the targets the principal's roles leave, under the      *)
(* configuration read again, which may be another one by then.             *)
SelectTargets ==
  /\ req.pc = "select"
  /\ \E config \in Configs, order \in TargetOrders :
       LET left == FilterTargets(req.ctx, config.rbac, order)
       IN  req' = [req EXCEPT !.pc = "done",
                     !.code = IF left = << >> THEN 403 ELSE 200,
                     !.asked.served = [rbac |-> config.rbac, left |-> left]]
  /\ UNCHANGED <<env, status, boot, jwks, fetched, secret, idp, issued>>

Finish ==
  /\ req.pc = "done"
  /\ req' = Idle
  /\ UNCHANGED <<env, status, boot, jwks, fetched, secret, idp, issued>>

Next ==
  \/ Start \/ Stop \/ RotateKey \/ FetchJwks \/ StoreJwks
  \/ Arrive \/ Middleware \/ Authenticate \/ Login
  \/ AdminRoute \/ ApiRoute \/ SelectTargets \/ Finish

(* The refresh task loops as long as the process runs and its fetches do   *)
(* not fail for ever.                                                      *)
Fairness == WF_vars(FetchJwks) /\ WF_vars(StoreJwks)

Spec == Init /\ [][Next]_vars /\ Fairness

-----------------------------------------------------------------------------
TypeOK ==
  /\ env \in Envs /\ status \in {"down", "up", "refused"}
  /\ boot \in 0..MaxBoots /\ idp \in 1..MaxKid
  /\ jwks \in SUBSET (1..MaxKid) \cup {None}
  /\ fetched \in SUBSET (1..MaxKid) \cup {None}
  /\ secret \in 1..MaxBoots \cup {None}
  /\ issued \subseteq 1..MaxBoots
  /\ req.pc \in {"idle", "auth", "store", "login", "route", "select", "done"}
  /\ req.code \in {0, 200, 401, 403, 404, 500}
  /\ req.ctx # None =>
       /\ req.ctx.scope \in {"admin", "read_only", "api_key"}
       /\ req.ctx.rate # None =>
            req.ctx.rate.rps \in 1..req.ctx.rate.burst

(* What entitles the bearer of a token to the admin routes, said without   *)
(* the middleware: the master key, a login of this very start, a genuine   *)
(* identity-provider token with an admin role or scope, a key with the     *)
(* admin scope, or a gateway with none of MASTER_KEY, JWT_ISSUER and       *)
(* DEV_ADMIN_PASSWORD set.                                                 *)
EntitledAdmin(r) ==
  \/ r.via = "bypass" /\ env.master_key = None /\ ~env.password /\ ~env.issuer
  \/ r.token.kind = "master" /\ env.master_key # None
  \/ r.token.kind = "login" /\ env.password /\ r.token.secret = boot
  \/ /\ r.token.kind = "oidc" /\ env.issuer
     /\ r.token.signed /\ r.token.fresh /\ r.token.for_us
     /\ \/ "admin" \in r.token.claims.scope
        \/ \E role \in {"admin", "gateway-admin"} :
             role \in r.token.claims.roles \cup r.token.claims.project_roles
  \/ r.token.kind = "key" /\ \E row \in KeyRows : row.id = r.ctx.key
                                                  /\ "admin" \in row.scopes

(* An issuer is the only authentication configured and its discovery       *)
(* failed at this start: the gateway runs without any.                     *)
LeftOpen == env.issuer /\ jwks = None /\ env.master_key = None /\ ~env.password

(* An admin handler runs only for who is entitled to it, across restarts,  *)
(* key rotation and refresh, and for anybody in one case: the gateway was  *)
(* left open by a failed discovery.  main.rs:597-599 says the bypass       *)
(* "stays off when DEV_ADMIN_PASSWORD or JWT_ISSUER is configured"; it     *)
(* asks for a discovery that succeeded.                                    *)
AdminByRight ==
  req.pc = "done" /\ req.route = "admin" /\ req.code = 200 =>
    (req.via = "bypass" /\ LeftOpen) \/ EntitledAdmin(req)

(* JWT_REQUIRED_ROLES: whoever gets past authentication without the bypass *)
(* and the break-glass login holds one of the required roles.              *)
RequiredRolesHeld ==
  req.ctx # None /\ req.via \notin {"bypass", "login"} /\ env.required_roles # {}
    => req.ctx.roles \cap env.required_roles # {}

(* Nobody is let in or reaches an admin handler but by right, or through a *)
(* gateway that was left open.                                             *)
AccessByRight == AdminByRight /\ RequiredRolesHeld

(* policy.rs: "team config narrows org config".  What a member of a team   *)
(* may ask for, the organisation's other members may ask for too.          *)
TeamNarrowsOrg ==
  req.asked # None /\ req.asked.verdict = Ok =>
    PolicyVerdict([req.ctx EXCEPT !.team = None], req.asked.config, req.asked.chat) = Ok

(* A pattern matches a name when the name can be cut into the literal      *)
(* parts of the pattern with anything between them.                        *)
GlobMeans(pattern, name) ==
  LET parts == Split(pattern)
      n == Len(parts)
  IN  IF n = 1 THEN pattern = name
      ELSE \E at \in [1..n -> 1..(Len(name) + 1)] :
             /\ at[1] = 1 /\ at[n] = Len(name) + 1 - Len(parts[n])
             /\ \A i \in 1..n : SubSeq(name, at[i], at[i] + Len(parts[i]) - 1) = parts[i]
             /\ \A i \in 1..(n - 1) : at[i] + Len(parts[i]) <= at[i + 1]

(* RbacConfig's documented meaning: the union of the principal's roles,    *)
(* the default role for who has none of the configured ones.               *)
RoleGrants(rbac, roles, dim, name) ==
  \E r \in DOMAIN rbac.roles :
    /\ \/ r \in roles
       \/ r = rbac.default_role /\ \A q \in roles : q \notin DOMAIN rbac.roles
    /\ \/ rbac.roles[r][dim] = None
       \/ \E p \in rbac.roles[r][dim] : GlobMeans(p, name)

(* The model of a request that is served is granted by the configuration   *)
(* its checks read, and every target left by the one the selection read,   *)
(* admins and a disabled policy unrestricted.                              *)
RolesGrant ==
  req.asked # None /\ req.code = 200 /\ req.ctx.scope # "admin" =>
    /\ req.asked.config.rbac.enabled =>
         RoleGrants(req.asked.config.rbac, req.ctx.roles, "models",
                    req.asked.chat.model)
    /\ req.asked.served.rbac.enabled =>
         \A i \in DOMAIN req.asked.served.left :
           RoleGrants(req.asked.served.rbac, req.ctx.roles, "providers",
                      req.asked.served.left[i].provider)

(* Every refusal by the middleware or the login is audited, and nothing    *)
(* that was let through or failed inside is reported as one.               *)
RefusalsAudited ==
  req.pc = "done" =>
    (req.audited <=> (req.code = 401 \/ (req.code = 403 /\ req.ctx = None)))

(* The address a request is taken to come from is the peer's own, or a     *)
(* public one that an internal peer vouches for: never an internal or      *)
(* malformed value out of a header, and never a header of a public peer.   *)
RemoteIpSound ==
  req.from # None =>
    \/ req.remote_ip = req.from.peer
    \/ /\ Internal(req.from.peer)
       /\ req.remote_ip # "junk" /\ ~Internal(req.remote_ip)

(* Who is refused is on record, under an address that can be believed.     *)
RefusalsOnRecord == RefusalsAudited /\ RemoteIpSound

(* A request is served only what its organisation, its team and its roles  *)
(* grant, whichever of them a check looks at first.                        *)
GrantsHold == TeamNarrowsOrg /\ RolesGrant

(* Rotated signing keys are picked up without a restart: a gateway that    *)
(* stays up ends with the identity provider's last key, and only that one. *)
RotationFollowed ==
  idp = MaxKid /\ jwks # None ~> (jwks = {MaxKid} \/ status # "up")
=============================================================================
