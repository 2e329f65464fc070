------------------------------- MODULE Policy -------------------------------
(***************************************************************************)
(* SecurityPolicy of src/policy.rs: what a configuration requires of a     *)
(* request, and whether a principal meets it.                              *)
(*                                                                         *)
(* A configuration is the record of the policy fields of SecurityConfig;   *)
(* the lists whose order does not matter are sets.  Which pattern matches  *)
(* which path is a parameter: PathMatching models how that is decided.     *)
(***************************************************************************)
EXTENDS Claims, Naturals

CONSTANT Matches  \* the pairs <<pattern, path>> with path_matches(pattern, path)

path_matches(pattern, path) == <<pattern, path>> \in Matches

Listed(patterns, path) == \E pattern \in patterns : path_matches(pattern, path)

(* An entry of allowed_endpoints or secure_endpoints applies. *)
Applies(endpoint, method, path) ==
  endpoint.method = method /\ path_matches(endpoint.path, path)

PermitAll == [kind |-> "PermitAll"]
DenyAll == [kind |-> "DenyAll"]
Authenticated == [kind |-> "Authenticated"]
AnyAuthority(roles) == [kind |-> "AnyAuthority", roles |-> roles]

(* other_endpoints: what is required where nothing else applies. *)
other_requirement(config) ==
  CASE config.other_endpoints = "Allow" -> PermitAll
    [] config.other_endpoints = "Deny" -> DenyAll
    [] config.other_endpoints = "Authenticated" -> Authenticated

(* Mutant: the whitelist is looked at before the blacklist. *)
requirement_whitelist_first(config, method, path) ==
  LET secure == SelectInSeq(config.secure_endpoints,
                  LAMBDA endpoint : Applies(endpoint, method, path)) IN
  IF Listed(config.whitelist, path) THEN PermitAll
  ELSE IF Listed(config.blacklist, path) THEN DenyAll
  ELSE IF \E endpoint \in config.allowed_endpoints : Applies(endpoint, method, path)
    THEN PermitAll
  ELSE IF secure # 0 THEN AnyAuthority(config.secure_endpoints[secure].roles)
  ELSE other_requirement(config)

(* blacklist, whitelist, allowed_endpoints, the first secure endpoint that  *)
(* applies, other_endpoints: in this order.                                *)
requirement(config, method, path) ==
  LET secure == SelectInSeq(config.secure_endpoints,
                  LAMBDA endpoint : Applies(endpoint, method, path)) IN
  IF Listed(config.blacklist, path) THEN DenyAll
  ELSE IF Listed(config.whitelist, path) THEN PermitAll
  ELSE IF \E endpoint \in config.allowed_endpoints : Applies(endpoint, method, path)
    THEN PermitAll
  ELSE IF secure # 0 THEN AnyAuthority(config.secure_endpoints[secure].roles)
  ELSE other_requirement(config)

(* Mutant: the authorities must all be among the required ones. *)
has_only_required(principal, required) == principal.authorities \subseteq required

has_any_authority(principal, required) == principal.authorities \cap required # {}

(* principal is NoValue for an anonymous request. *)
authorize(config, method, path, principal) ==
  LET required == requirement(config, method, path) IN
  CASE required.kind = "PermitAll" -> "Allow"
    [] required.kind = "DenyAll" -> "Forbidden"
    [] required.kind = "Authenticated" ->
         IF principal # NoValue THEN "Allow" ELSE "Unauthorized"
    [] required.kind = "AnyAuthority" ->
         IF principal = NoValue THEN "Unauthorized"
         ELSE IF has_any_authority(principal, required.roles) THEN "Allow"
         ELSE "Forbidden"

==============================================================================
