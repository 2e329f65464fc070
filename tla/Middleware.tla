----------------------------- MODULE Middleware -----------------------------
(***************************************************************************)
(* The tower service of src/axum.rs: concurrent HTTP requests, each taken  *)
(* through the policy, the bearer token, the validator with its JWKS cache *)
(* (JwksCache), the claims and the policy again.                           *)
(*                                                                         *)
(* Between validate_async and the call of the inner service the code never *)
(* awaits, so a request is answered in the step that ends its validation.  *)
(* The inner service is outside: a request that reaches it is done here.   *)
(***************************************************************************)
EXTENDS JwksCache, Policy

CONSTANTS
  Configs,   \* the configurations the layer may be built with
  Requests   \* the requests clients may send

VARIABLES
  config,    \* SecurityPolicy.config, never changed
  request,   \* the request each caller's future handles, or None
  response   \* how it ended, or Unanswered

vars_http == <<config, request, response>>
all_vars == <<vars, vars_http>>

(* Two spellings of the scheme are known; an empty token is no token. *)
bearer_token(authorization) ==
  IF authorization # None /\ authorization.scheme \in {"Bearer", "bearer"}
    THEN authorization.token ELSE None

Token_of(req) == bearer_token(req.authorization)
Required(req) == requirement(config, req.method, req.path)

Unanswered == [status |-> "none", principal |-> NoValue]
Refuse(status) == [status |-> status, principal |-> NoValue]
Forward(principal) == [status |-> "inner", principal |-> principal]

(* The tokens of requests are tokens of the validator; what serde accepts   *)
(* as a configuration.                                                     *)
ASSUME RequestsAssumption ==
  /\ None \notin Requests
  /\ \A req \in Requests : Token_of(req) \in Token \cup {None}
  /\ \A cfg \in Configs :
       /\ cfg.other_endpoints \in {"Allow", "Deny", "Authenticated"}
       /\ Len(cfg.secure_endpoints) \in Nat
       /\ DOMAIN cfg.secure_endpoints = 1..Len(cfg.secure_endpoints)

(* Mutant: a token that does not validate is 403, too. *)
error_response_forbids(verdict, decision) ==
  IF verdict # "Ok" \/ decision = "Forbidden" THEN Refuse("403") ELSE Refuse("401")

(* error_response: 401 but for a principal the policy forbids. *)
error_response(verdict, decision) ==
  IF verdict = "Ok" /\ decision = "Forbidden" THEN Refuse("403") ELSE Refuse("401")

(* The rest of the handler once validate_async returned verdict. *)
Conclude(req, verdict) ==
  LET principal == from_claims(Token_of(req).claims, config)
      decision == IF verdict = "Ok" /\ principal # NoValue
                    THEN authorize(config, req.method, req.path, principal)
                    ELSE "Unauthorized"
  IN IF verdict = "Cancelled" THEN Refuse("dropped")
     ELSE IF decision = "Allow" THEN Forward(principal)
     ELSE error_response(verdict, decision)

------------------------------------------------------------------------------
Init_http ==
  /\ Init
  /\ config \in Configs
  /\ request = [c \in Callers |-> None]
  /\ response = [c \in Callers |-> Unanswered]

(* A request arrives; the layer exists only once its validator does. *)
Arrives(c, req) ==
  /\ Serving
  /\ pc[c] = "idle" /\ request[c] = None
  /\ request' = [request EXCEPT ![c] = req]
  /\ UNCHANGED config

(* No token needed: the request is passed on without a principal, whatever  *)
(* credentials it carries.                                                 *)
Permit(c, req) ==
  /\ Arrives(c, req)
  /\ Required(req).kind = "PermitAll"
  /\ response' = [response EXCEPT ![c] = Forward(NoValue)]
  /\ UNCHANGED vars

Deny(c, req) ==
  /\ Arrives(c, req)
  /\ Required(req).kind = "DenyAll"
  /\ response' = [response EXCEPT ![c] = Refuse("403")]
  /\ UNCHANGED vars

(* The request needs a token and has none. *)
Challenge(c, req) ==
  /\ Arrives(c, req)
  /\ Required(req).kind \in {"Authenticated", "AnyAuthority"}
  /\ Token_of(req) = None
  /\ response' = [response EXCEPT ![c] = Refuse("401")]
  /\ UNCHANGED vars

(* The token is given to validate_async, which may answer at once. *)
Authenticate(c, req) ==
  /\ Arrives(c, req)
  /\ Required(req).kind \in {"Authenticated", "AnyAuthority"}
  /\ Token_of(req) # None
  /\ ValidateAsync(c, Token_of(req))
  /\ response' = [response EXCEPT ![c] =
       IF result'[c] = None THEN Unanswered ELSE Conclude(req, result'[c])]

(* The application keeps a clone of the validator and refreshes it. *)
Refresh(c) ==
  /\ request[c] = None
  /\ CallRefresh(c)
  /\ UNCHANGED vars_http

(* It may also validate a token with its clone, outside of any request. *)
Check(c, token) ==
  /\ request[c] = None
  /\ Validate(c, token) \/ ValidateAsync(c, token)
  /\ UNCHANGED vars_http

(* A request whose validation ends is answered in the same step. *)
Answering ==
  /\ response' = [c \in Callers |->
       IF request[c] # None /\ result'[c] # result[c]
         THEN Conclude(request[c], result'[c]) ELSE response[c]]
  /\ UNCHANGED <<config, request>>

(* The validator goes on. *)
Proceed == Underway /\ Answering

Next_http ==
  \/ \E c \in Callers, req \in Requests : Permit(c, req)
  \/ \E c \in Callers, req \in Requests : Deny(c, req)
  \/ \E c \in Callers, req \in Requests : Challenge(c, req)
  \/ \E c \in Callers, req \in Requests : Authenticate(c, req)
  \/ \E c \in Callers : Refresh(c)
  \/ \E c \in Callers, token \in Token : Check(c, token)
  \/ Proceed

Spec_http == Init_http /\ [][Next_http]_all_vars

------------------------------------------------------------------------------
(* The access rules of README.md:84-90, one by one, for the properties. *)

Blacklisted(req) == Listed(config.blacklist, req.path)

Open(req) ==
  \/ Listed(config.whitelist, req.path)
  \/ \E endpoint \in config.allowed_endpoints : Applies(endpoint, req.method, req.path)

(* The secure endpoints in charge: the first one that applies, if any. *)
Securing(req) ==
  {i \in DOMAIN config.secure_endpoints :
     /\ Applies(config.secure_endpoints[i], req.method, req.path)
     /\ \A j \in 1..(i - 1) : ~Applies(config.secure_endpoints[j], req.method, req.path)}

(* Whom the rules let through: anybody, or a principal with a role. *)
OpenToAll(req) ==
  /\ ~Blacklisted(req)
  /\ Open(req) \/ (Securing(req) = {} /\ config.other_endpoints = "Allow")

OpenTo(req, principal) ==
  /\ ~Blacklisted(req) /\ ~Open(req)
  /\ \/ \E i \in Securing(req), role \in principal.authorities :
           role \in config.secure_endpoints[i].roles
     \/ Securing(req) = {} /\ config.other_endpoints = "Authenticated"

(* The inner service is called for a request only if the rules let it       *)
(* through: anonymously where they ask for nothing, and otherwise with the *)
(* principal of its own token, verified in that very step on a key that    *)
(* the provider withdrew no longer than max_stale and a timeout ago.       *)
ForwardedIsEntitled ==
  [][\A c \in Callers :
       response[c] = Unanswered /\ response'[c].status = "inner" =>
         LET req == request'[c]
             principal == response'[c].principal
         IN \/ principal = NoValue /\ OpenToAll(req)
            \/ /\ principal # NoValue
               /\ principal = from_claims(Token_of(req).claims, config)
               /\ OpenTo(req, principal)
               /\ \E key \in keys :
                    /\ Verifies(key, Token_of(req))
                    /\ HasRemote => gone[key] <= MaxStale + Timeout]_all_vars

(* 403 is for what the rules forbid: a blacklisted or undeclared path, or a *)
(* verified principal without the role; trouble with the JWKS never looks  *)
(* like it.  401 is for what a better token would change.                  *)
RefusalsAreJustified ==
  \A c \in Callers : request[c] # None =>
    LET req == request[c] IN
    /\ response[c].status = "403" =>
         \/ Blacklisted(req)
         \/ ~Open(req) /\ Securing(req) = {} /\ config.other_endpoints = "Deny"
         \/ result[c] = "Ok" /\ ~OpenTo(req, from_claims(Token_of(req).claims, config))
    /\ response[c].status = "401" =>
         /\ ~Blacklisted(req) /\ ~OpenToAll(req)
         /\ \/ Token_of(req) = None
            \/ result[c] # "Ok"
            \/ from_claims(Token_of(req).claims, config) = NoValue

(* Two requests for the same endpoint: who is forbidden lacks an authority  *)
(* of everybody who is let in, so more authorities never mean less access. *)
DecisionsMonotone ==
  \A c, d \in Callers :
    /\ request[c] # None /\ request[d] # None
    /\ request[c].method = request[d].method /\ request[c].path = request[d].path
    /\ response[c].status = "inner" /\ response[d].status = "403"
    => /\ response[c].principal # NoValue
       /\ ~(response[c].principal.authorities \subseteq
              from_claims(Token_of(request[d]).claims, config).authorities)

==============================================================================
