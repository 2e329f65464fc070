---------------------------- MODULE MCMiddleware ----------------------------
(* Values for the constants of Middleware. *)
EXTENDS Middleware, TLC

CONSTANTS a, b, ka, kb, iss, other, c1, c2, reader, writer, alice, p, q, r1, r2

CallerSymmetry == Permutations(Callers)

KeyA == [key_id |-> a, decoding_key |-> ka]
KeyB == [key_id |-> b, decoding_key |-> kb]
KeyNoId == [key_id |-> None, decoding_key |-> kb]
KeyBad == [key_id |-> a, decoding_key |-> Unsupported]

(* q matches every path, p only r1. *)
MCMatches == {<<p, r1>>, <<q, r1>>, <<q, r2>>}

Text(t) == [kind |-> "string", text |-> t]
Claimed(roles) ==
  [kind |-> "object",
   fields |-> [n \in {<<"sub">>, <<"roles">>} |->
                 IF n = <<"sub">> THEN Text(alice)
                 ELSE [kind |-> "array", items |-> [i \in DOMAIN roles |-> Text(roles[i])]]]]
Nameless == [kind |-> "object", fields |-> [n \in {<<"roles">>} |-> Text(reader)]]

Jwt(kid, signer, claims) ==
  [header |-> TRUE, kid |-> kid, signer |-> signer, iss |-> iss, expired |-> FALSE,
   claims |-> claims]

Reader == Jwt(a, ka, Claimed(<<reader>>))
Both == Jwt(a, ka, Claimed(<<reader, writer>>))
NoRoles == Jwt(a, ka, Claimed(<<>>))
NoName == Jwt(a, ka, Nameless)
Forged == Jwt(a, kb, Claimed(<<reader, writer>>))
Rotated == Jwt(b, kb, Claimed(<<writer>>))

Header(scheme, token) == [scheme |-> scheme, token |-> token]
Ask(method, path, authorization) ==
  [method |-> method, path |-> path, authorization |-> authorization]

Policies(blacklists, whitelists, allowed, secure, others) ==
  [blacklist : blacklists, whitelist : whitelists, allowed_endpoints : allowed,
   secure_endpoints : secure, other_endpoints : others,
   user_claim : {<<"sub">>}, fallback_user_claims : {<<>>}, authorities_claim : {<<"roles">>}]

Get(path) == [method |-> "GET", path |-> path]
Needs(path, roles) == [method |-> "GET", path |-> path, roles |-> roles]

------------------------------------------------------------------------------
(* Every combination of the lists, for a validator with fixed keys. *)
ManyPolicies ==
  Policies({{}, {p}}, {{}, {p}}, {{}, {Get(q)}, {[Get(p) EXCEPT !.method = "PUT"]}},
           {<<>>, <<Needs(q, {reader, writer})>>, <<Needs(p, {writer}), Needs(q, {reader})>>,
            <<Needs(q, {reader}), Needs(p, {writer})>>, <<Needs(p, {})>>},
           {"Allow", "Deny", "Authenticated"})

StaticJwk == {KeyA, KeyNoId}
StaticDocs == {{KeyA, KeyNoId}}
StaticTokens == {Reader, Both, NoRoles, NoName, Forged}

(* What the application may validate by itself: tokens that expired, have a *)
(* foreign issuer or none, a broken header, no kid, or an unknown one.     *)
OddTokens ==
  {[Reader EXCEPT !.expired = TRUE], [Reader EXCEPT !.iss = other], [Reader EXCEPT !.iss = None],
   [Reader EXCEPT !.header = FALSE], [Rotated EXCEPT !.kid = None], Rotated}
CheckedTokens == StaticTokens \cup OddTokens
StaticRequests ==
  {Ask("GET", path, authorization) : path \in {r1, r2},
     authorization \in {None, Header("Basic", Reader), Header("bearer", None), Header("bearer", Both)}
                       \cup {Header("Bearer", token) : token \in StaticTokens}}

------------------------------------------------------------------------------
(* One policy, with public, protected and denied paths, and a provider that *)
(* rotates its keys.                                                       *)
OnePolicy ==
  Policies({{}}, {{p}}, {{}}, {<<Needs(q, {writer})>>}, {"Deny"})

RotatingJwk == {KeyA, KeyB, KeyBad}
RotatingDocs == {{KeyA}, {KeyB, KeyBad}, {KeyBad}}
RotatingTokens == {Both, Rotated}
RotatingRequests ==
  {Ask("GET", r1, None)} \cup {Ask("GET", r2, Header("Bearer", token)) : token \in RotatingTokens}

==============================================================================
