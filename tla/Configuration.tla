---------------------------- MODULE Configuration ----------------------------
(***************************************************************************)
(* SecurityConfig of src/config.rs: its loading from YAML, its validation  *)
(* and its defaults.                                                       *)
(*                                                                         *)
(* A YAML text is Malformed (no YAML, no opentmf.security, a field of the  *)
(* wrong type) or the function from the names of the fields it gives to    *)
(* their values.  A method is its name and whether it is written in lower  *)
(* case, in a text it may also be NoMethod; a Duration is counted in       *)
(* fractions of a second.                                                  *)
(***************************************************************************)
EXTENDS Policy

CONSTANTS
  Malformed,    \* a text serde_yaml rejects
  NoMethod,     \* a text that is no HTTP method
  Rooted,       \* the paths that start with "/"
  Second        \* how many of the units of a Duration make a second

ASSUME SecondAssumption == Second \in Nat \ {0}

Ok(config) == [error |-> "none", config |-> config]
Err(error) == [error |-> error, config |-> NoValue]

(* duration_seconds: whole seconds in the text. *)
read_duration(seconds) == seconds * Second

(* Mutant: as_millis for as_secs. *)
written_duration_units(duration) == duration

written_duration(duration) == duration \div Second

default_user_claim == <<"sub">>
default_authorities_claim == <<"roles">>
default_jwks_refresh_interval == 300 * Second
default_jwks_max_stale == 3600 * Second
default_jwks_request_timeout == 5 * Second

DefaultConfig ==
  [issuer_uri |-> NoValue, jwk_set_uri |-> NoValue,
   user_claim |-> default_user_claim, fallback_user_claims |-> <<>>,
   authorities_claim |-> default_authorities_claim,
   jwks_refresh_interval |-> default_jwks_refresh_interval,
   jwks_max_stale |-> default_jwks_max_stale,
   jwks_request_timeout |-> default_jwks_request_timeout,
   jwks_accept_invalid_certs |-> FALSE,
   secure_endpoints |-> <<>>, allowed_endpoints |-> {}, blacklist |-> {}, whitelist |-> {},
   other_endpoints |-> "Deny"]

Durations == {"jwks_refresh_interval", "jwks_max_stale", "jwks_request_timeout"}
OtherEndpoints == [allow |-> "Allow", deny |-> "Deny", authenticated |-> "Authenticated"]

(* Mutant: the method is taken as it is written. *)
read_method_verbatim(method) == method

(* method_serde: a method is read in upper case, and written as it is.      *)
read_method(method) == [name |-> method.name, lower |-> FALSE]
write_method(method) == method

(* What serde sees to: the types of the fields, in a text and in a          *)
(* SecurityConfig.                                                         *)
TypedText(yaml) ==
  /\ \A field \in Durations \cap DOMAIN yaml : yaml[field] \in Nat
  /\ "secure_endpoints" \in DOMAIN yaml =>
       yaml.secure_endpoints \in Seq(Range(yaml.secure_endpoints))

TypedConfig(config) ==
  /\ config = [field \in DOMAIN DefaultConfig |-> config[field]]
  /\ \A field \in Durations : config[field] \in Nat
  /\ \A e \in config.allowed_endpoints :
       e = [method |-> [name |-> e.method.name, lower |-> e.method.lower], path |-> e.path]
  /\ config.secure_endpoints \in Seq(Range(config.secure_endpoints))
  /\ \A e \in Range(config.secure_endpoints) :
       e = [method |-> [name |-> e.method.name, lower |-> e.method.lower],
            path |-> e.path, roles |-> e.roles]
  /\ config.other_endpoints \in Range(OtherEndpoints)

read_endpoint(given) == [method |-> read_method(given.method), path |-> given.path]

(* Roles that are not given are none, so that nobody has one of them. *)
read_secure_endpoint(given) ==
  [method |-> read_method(given.method), path |-> given.path,
   roles |-> IF "roles" \in DOMAIN given THEN given.roles ELSE {}]

read_field(field, value) ==
  CASE field \in Durations -> read_duration(value)
    [] field = "allowed_endpoints" -> {read_endpoint(given) : given \in value}
    [] field = "secure_endpoints" -> [i \in DOMAIN value |-> read_secure_endpoint(value[i])]
    [] field = "other_endpoints" -> OtherEndpoints[value]
    [] OTHER -> value

(* What serde makes of the text: fields it does not know are ignored, fields *)
(* that are not given have their defaults.                                 *)
readable(yaml) ==
  /\ yaml # Malformed
  /\ "other_endpoints" \in DOMAIN yaml => yaml.other_endpoints \in DOMAIN OtherEndpoints
  /\ "allowed_endpoints" \in DOMAIN yaml =>
       \A given \in yaml.allowed_endpoints : given.method # NoMethod
  /\ "secure_endpoints" \in DOMAIN yaml =>
       \A i \in DOMAIN yaml.secure_endpoints : yaml.secure_endpoints[i].method # NoMethod

read_config(yaml) ==
  [field \in DOMAIN DefaultConfig |->
     IF field \in DOMAIN yaml THEN read_field(field, yaml[field]) ELSE DefaultConfig[field]]

(* Every pattern of the four lists. *)
Patterns(config) ==
  config.blacklist \cup config.whitelist
    \cup {endpoint.path : endpoint \in config.allowed_endpoints}
    \cup {config.secure_endpoints[i].path : i \in DOMAIN config.secure_endpoints}

validate_path(path) == path \in Rooted
validate(config) == \A path \in Patterns(config) : validate_path(path)

from_yaml_str(yaml) ==
  IF ~readable(yaml) THEN Err("Yaml")
  ELSE IF ~validate(read_config(yaml)) THEN Err("InvalidPath")
  ELSE Ok(read_config(yaml))

(* Serialize: every field is written. *)
written_field(field, value) ==
  CASE field \in Durations -> written_duration(value)
    [] field = "allowed_endpoints" ->
         {[method |-> write_method(e.method), path |-> e.path] : e \in value}
    [] field = "secure_endpoints" ->
         [i \in DOMAIN value |-> [value[i] EXCEPT !.method = write_method(@)]]
    [] field = "other_endpoints" ->
         CHOOSE text \in DOMAIN OtherEndpoints : OtherEndpoints[text] = value
    [] OTHER -> value

to_yaml(config) == [field \in DOMAIN config |-> written_field(field, config[field])]

==============================================================================
