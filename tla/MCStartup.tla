------------------------------ MODULE MCStartup ------------------------------
(* Values for the constants of Startup. *)
EXTENDS Startup

CONSTANTS p, q, u, r1, r2, role, k, user, query, issuer, public, secret, opaque

(* q matches every path, p and the unrooted u only r1. *)
MCMatches == {<<p, r1>>, <<u, r1>>, <<q, r1>>, <<q, r2>>}

Plain == [scheme |-> "https", user |-> NoValue, host |-> "h", path |-> "jwks", query |-> NoValue]
Credentialed == [Plain EXCEPT !.user = user, !.query = query]

Usable == [key_id |-> k, decoding_key |-> k]
Unusable == [key_id |-> k, decoding_key |-> Unsupported]

------------------------------------------------------------------------------
(* YAML texts: one that gives field value, beside those of rest. *)
With(rest, field, value) ==
  [f \in DOMAIN rest \cup {field} |-> IF f = field THEN value ELSE rest[f]]

Empty == [f \in {} |-> NoValue]
Direct == With(Empty, "jwk_set_uri", Plain)

Method(name, lower) == [name |-> name, lower |-> lower]
Open(method, path) == [method |-> method, path |-> path]
Secured(method, path, roles) == [method |-> method, path |-> path, roles |-> roles]
Get == Method("GET", TRUE)
Put == Method("PUT", FALSE)

(* The sources of the keys, alone and together, and how long to wait. *)
SourceTexts ==
  {Empty, With(Empty, "issuer_uri", issuer), With(Empty, "jwk_set_uri", Unparsable),
   With(With(Empty, "jwk_set_uri", Credentialed), "issuer_uri", issuer),
   With(With(Direct, "jwks_accept_invalid_certs", TRUE), "jwks_request_timeout", 0),
   With(Direct, "jwks_request_timeout", 1)}

Lists ==
  {With(rest, field, {path}) : rest \in {Empty, With(Empty, "blacklist", {p})},
                               field \in {"blacklist", "whitelist"}, path \in {p, q, u}}
Allowed ==
  {With(rest, "allowed_endpoints", {Open(method, path)}) :
     rest \in {Empty, With(Empty, "blacklist", {p})}, method \in {Get, Put, NoMethod}, path \in {p, q, u}}
Secure ==
  {With(rest, "secure_endpoints", endpoints) :
     rest \in {Empty, With(Empty, "whitelist", {p})},
     endpoints \in {<<Secured(Get, q, {role})>>, <<Open(Put, q)>>, <<Open(Get, u)>>,
                    <<Open(Get, p), Secured(Get, q, {role})>>, <<Open(NoMethod, q)>>,
                    <<Secured(Put, p, {role}), Open(Put, q), Secured(Put, q, {role})>>}}
Others ==
  {With(rest, "other_endpoints", text) :
     rest \in Secure \cup {Empty}, text \in {"allow", "deny", "authenticated", "always"}}

Texts == {Malformed} \cup SourceTexts \cup Lists \cup Allowed \cup Secure \cup Others

(* Configurations an application may fill in: half seconds, methods in lower *)
(* case, paths as in YAML.                                                 *)
Filled ==
  {DefaultConfig,
   [DefaultConfig EXCEPT !.jwk_set_uri = Plain, !.whitelist = {u}, !.jwks_request_timeout = 1],
   [DefaultConfig EXCEPT !.issuer_uri = issuer, !.jwks_max_stale = 3, !.jwks_request_timeout = 3,
      !.allowed_endpoints = {Open(Get, p), Open(Put, p)},
      !.secure_endpoints = <<Secured(Put, q, {role}), Secured(Get, q, {})>>]}

MCInputs ==
  [kind : {"yaml"}, value : Texts] \cup [kind : {"config"}, value : Filled]
    \cup [kind : {"jwks_uri"}, value : {[uri |-> Credentialed, issuer |-> issuer]}]
    \cup [kind : {"jwk_set"}, value : {NoJwkSet, {}, {Unusable}, {Usable, Unusable}}]

(* For NoSecretIsLogged: a URI that carries credentials. *)
RedactionInputs ==
  [kind : {"config"}, value : {[DefaultConfig EXCEPT !.jwk_set_uri = Credentialed]}]

------------------------------------------------------------------------------
(* Answers. *)
MCDocuments == {[jwks_uri |-> NoValue], [jwks_uri |-> Plain], [jwks_uri |-> Credentialed]}

Header(text, words, value, visible) ==
  [name |-> [text |-> text, words |-> words], value |-> value, visible |-> visible]
Cookie == Header("set-cookie", {"cookie"}, secret, TRUE)
SessionId == Header("x-session-id", {"session"}, secret, TRUE)
Type == Header("content-type", {}, public, TRUE)
Vary(value, visible) == Header("vary", {}, value, visible)

MCHeads ==
  [success : BOOLEAN,
   headers : {<<>>, <<Type, Cookie, Cookie, Cookie>>, <<SessionId, Vary(public, TRUE), Type>>,
              <<Vary(public, TRUE), Vary(opaque, FALSE), Vary("c", TRUE), Vary("d", TRUE)>>}]

(* Bodies of up to four characters of one, two and four bytes; public ones, *)
(* and one with a symmetric key.                                           *)
PublicBodies ==
  [text : {<<1>>}, secret : {{}}, jwk_set : {NoJwkSet, {}, {Unusable}, {Usable, Unusable}}]
MCBodies ==
  PublicBodies
    \cup [text : {<<1, 1, 1>>}, secret : {{2}}, jwk_set : {{Usable}}]
    \cup [text : SeqOf({1, 2, 4}, 4), secret : {{}}, jwk_set : {{Usable}}]

==============================================================================
