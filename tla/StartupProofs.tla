---------------------------- MODULE StartupProofs ----------------------------
(* What TLAPS proves of Startup, for every input, issuer and JWKS server.    *)
EXTENDS Startup, Inductions

------------------------------------------------------------------------------
(* The requests, and the layer. *)

(* Where the JWK set is to be fetched from, and the requests this takes. *)
Source ==
  IF config.jwk_set_uri # NoValue THEN config.jwk_set_uri ELSE discovered.jwks_uri
Requests ==
  IF config.jwk_set_uri # NoValue THEN <<JwkSet(config.jwk_set_uri)>>
  ELSE <<Discovery(config.issuer_uri), JwkSet(discovered.jwks_uri)>>

(* What has been asked, and what is known, at every place. *)
Progress ==
  /\ phase \in {"start", "from_config"} => asked = <<>>
  /\ phase = "discover" =>
       /\ config.jwk_set_uri = NoValue
       /\ asked = <<Discovery(config.issuer_uri)>>
  /\ phase \in {"build", "fetch", "read"} \/ (phase = "serving" /\ input.kind # "jwk_set") =>
       /\ jwks_uri = Source
       /\ config.jwk_set_uri = NoValue => discovered # NoValue
  /\ phase = "build" =>
       asked = IF config.jwk_set_uri # NoValue THEN <<>> ELSE <<Discovery(config.issuer_uri)>>
  /\ phase \in {"fetch", "read"} => asked = IF refreshing THEN <<JwkSet(Source)>> ELSE Requests
  /\ refreshing \in BOOLEAN /\ (refreshing => phase \in {"fetch", "read"})

(* There is a validator that serves, and whom it asks. *)
Served ==
  phase = "serving" \/ refreshing =>
    /\ input.kind = "jwk_set" => validator.remote = NoValue
    /\ input.kind # "jwk_set" =>
         validator = [keys |-> validator.keys, issuer |-> config.issuer_uri, remote |-> Source]

(* Which inputs get how far. *)
Admitted ==
  /\ input \in Inputs
  /\ input.kind = "jwk_set" => phase \in {"start", "serving", "failed"}
  /\ input.kind = "yaml" /\ phase \notin {"start", "failed"} => Patterns(config) \subseteq Rooted
  /\ error \in {"Yaml", "InvalidPath"} => phase = "failed" /\ asked = <<>>

IInv == Progress /\ Admitted /\ Served /\ OnlyTheConfiguredAreAsked

LEMMA SecondOfTwo ==
  ASSUME NEW first, NEW second
  PROVE  Append(<<first>>, second) = <<first, second>>
<1> DEFINE both == Append(<<first>>, second)
<1>1. <<first>> \in Seq({first, second}) /\ Len(<<first>>) = 1
  OBVIOUS
<1>2. <<first, second>> \in Seq({first, second}) /\ Len(<<first, second>>) = 2
  OBVIOUS
<1>3. both \in Seq({first, second}) /\ Len(both) = 2
  BY <1>1, AppendProperties
<1>4. \A i \in 1..2 : both[i] = <<first, second>>[i]
  <2>1. both[1] = <<first>>[1] /\ both[2] = second
    BY <1>1, AppendProperties
  <2> QED BY <2>1
<1> QED BY <1>1, <1>2, <1>3, <1>4, SeqEqual

(* A construction that fails keeps what it has asked. *)
LEMMA FailKeeps ==
  ASSUME IInv, NEW kind, Fail(kind), UNCHANGED <<input, config, discovered, refreshing, asked>>,
         phase \notin {"fetch", "read", "serving"},
         kind \in {"Yaml", "InvalidPath"} => asked = <<>>
  PROVE  IInv'
<1>1. phase' = "failed" /\ error' = kind /\ UNCHANGED validator /\ refreshing = FALSE
  BY DEF Fail, IInv, Progress
<1>2. Progress' /\ Served'
  BY <1>1 DEF Progress, Served
<1>3. Admitted'
  BY <1>1 DEF IInv, Admitted
<1>4. OnlyTheConfiguredAreAsked'
  BY <1>1 DEF IInv, OnlyTheConfiguredAreAsked
<1> QED BY <1>2, <1>3, <1>4 DEF IInv

(* Where an exchange that fails leaves off. *)
LEMMA AbortEffect ==
  ASSUME NEW kind, NEW text, NEW lines, Abort(kind, text, lines)
  PROVE  /\ error' = kind /\ refreshing' = FALSE /\ UNCHANGED validator
         /\ \/ ~refreshing /\ phase' = "failed"
            \/ refreshing /\ phase' = "serving"
BY Zenon DEF Abort

(* So does a fetch, and a refresh keeps the validator. *)
LEMMA AbortKeeps ==
  ASSUME IInv, Exchanging, NEW kind, kind \notin {"Yaml", "InvalidPath"}, NEW text, NEW lines,
         Abort(kind, text, lines), UNCHANGED <<input, config, jwks_uri, discovered, asked>>
  PROVE  IInv'
<1>1. /\ phase \in {"fetch", "read"} /\ error' = kind /\ refreshing' = FALSE
      /\ phase' = IF refreshing THEN "serving" ELSE "failed"
      /\ UNCHANGED validator
  BY AbortEffect DEF Exchanging, IInv, Progress
<1>2. /\ UNCHANGED Source
      /\ input.kind # "jwk_set"
      /\ jwks_uri = Source /\ (config.jwk_set_uri = NoValue => discovered # NoValue)
  BY <1>1 DEF IInv, Progress, Admitted, Source
<1>3. Progress'
  BY <1>1, <1>2 DEF Progress
<1>4. Served'
  BY <1>1, <1>2 DEF IInv, Served
<1>5. Admitted'
  BY <1>1, <1>2 DEF IInv, Admitted
<1>6. OnlyTheConfiguredAreAsked'
  BY <1>1 DEF IInv, OnlyTheConfiguredAreAsked
<1> QED BY <1>3, <1>4, <1>5, <1>6 DEF IInv

LEMMA LoadIsValid ==
  ASSUME NEW yaml, from_yaml_str(yaml).error = "none"
  PROVE  Patterns(from_yaml_str(yaml).config) \subseteq Rooted
BY DEF from_yaml_str, Ok, Err, validate, validate_path

LEMMA InitIInv == Init => IInv
BY DEF Init, IInv, Progress, Admitted, Served, OnlyTheConfiguredAreAsked

LEMMA NextIInv == IInv /\ [Next]_vars => IInv'
<1> SUFFICES ASSUME IInv, [Next]_vars PROVE IInv'
  OBVIOUS
<1>1. CASE Load
  <2>1. CASE from_yaml_str(input.value).error = "none"
    BY <1>1, <2>1, LoadIsValid
       DEF Load, IInv, Progress, Admitted, Served, OnlyTheConfiguredAreAsked, Fail, answers
  <2>2. CASE from_yaml_str(input.value).error # "none"
    BY <1>1, <2>2
       DEF Load, IInv, Progress, Admitted, Served, OnlyTheConfiguredAreAsked, Fail, answers
  <2> QED BY <2>1, <2>2
<1>2. CASE Fill
  BY <1>2 DEF Fill, IInv, Progress, Admitted, Served, OnlyTheConfiguredAreAsked, answers
<1>3. CASE FromJwksUri
  <2>1. config'.jwk_set_uri = input.value.uri /\ input.value.uri # NoValue
    BY <1>3, InputsAssumption DEF FromJwksUri, jwks_uri_config, DefaultConfig, IInv, Admitted
  <2> QED BY <1>3, <2>1
          DEF FromJwksUri, IInv, Progress, Source, Admitted, Served,
              OnlyTheConfiguredAreAsked, answers
<1>4. CASE FromJwkSet
  <2>1. CASE phase' = "failed"
    BY <1>4, <2>1
       DEF FromJwkSet, IInv, Progress, Admitted, Served, OnlyTheConfiguredAreAsked, Fail, answers
  <2>2. CASE phase' = "serving"
    BY <1>4, <2>2
       DEF FromJwkSet, IInv, Progress, Admitted, Served, OnlyTheConfiguredAreAsked, Fail,
           answers, Keys!jwk_set_to_keys
  <2> QED BY <1>4, <2>1, <2>2 DEF FromJwkSet, Fail
<1>5. CASE from_config
  <2>1. CASE config.jwk_set_uri # NoValue
    BY <1>5, <2>1
       DEF from_config, IInv, Progress, Source, Admitted, Served, OnlyTheConfiguredAreAsked, answers
  <2>2. CASE config.jwk_set_uri = NoValue /\ config.issuer_uri # NoValue
    <3>1. asked' = <<Discovery(config.issuer_uri)>> /\ phase' = "discover"
      BY <1>5, <2>2 DEF from_config, IInv, Progress
    <3> QED BY <1>5, <2>2, <3>1
            DEF from_config, IInv, Progress, Admitted, Served, OnlyTheConfiguredAreAsked,
                answers, Discovery
  <2>3. CASE config.jwk_set_uri = NoValue /\ config.issuer_uri = NoValue
    BY <1>5, <2>3, FailKeeps DEF from_config, answers
  <2> QED BY <2>1, <2>2, <2>3
<1>6. ASSUME NEW document, Discovered(document) PROVE IInv'
  <2>1. CASE document # NoValue /\ document.jwks_uri # NoValue
    BY <1>6, <2>1
       DEF Discovered, IInv, Progress, Source, Admitted, Served, OnlyTheConfiguredAreAsked
  <2>2. CASE phase' = "failed"
    BY <1>6, <2>2
       DEF Discovered, IInv, Progress, Admitted, Served, OnlyTheConfiguredAreAsked, Fail
  <2> QED BY <1>6, <2>1, <2>2 DEF Discovered, Fail
<1>7. CASE DiscoveryFails
  BY <1>7, FailKeeps DEF DiscoveryFails, answers
<1>8. CASE ClientFails
  BY <1>8, FailKeeps DEF ClientFails, answers
<1>9. CASE Request
  <2>1. CASE jwks_uri = Unparsable
    BY <1>9, <2>1, FailKeeps DEF Request, answers
  <2>2. CASE jwks_uri # Unparsable
    <3>1. asked' = Requests /\ phase' = "fetch" /\ UNCHANGED Requests
      <4>1. /\ asked' = Append(asked, JwkSet(jwks_uri)) /\ phase = "build" /\ phase' = "fetch"
            /\ UNCHANGED <<config, discovered>>
        BY <1>9, <2>2 DEF Request, answers
      <4>2. CASE config.jwk_set_uri # NoValue
        <5>1. asked = <<>> /\ jwks_uri = config.jwk_set_uri
          BY <4>1, <4>2 DEF IInv, Progress, Source
        <5> QED BY <4>1, <4>2, <5>1 DEF Requests
      <4>3. CASE config.jwk_set_uri = NoValue
        <5>1. asked = <<Discovery(config.issuer_uri)>> /\ jwks_uri = discovered.jwks_uri
          BY <4>1, <4>3 DEF IInv, Progress, Source
        <5>2. asked' = <<Discovery(config.issuer_uri), JwkSet(discovered.jwks_uri)>>
          BY <4>1, <5>1, SecondOfTwo
        <5> QED BY <4>1, <4>3, <5>2 DEF Requests
      <4> QED BY <4>2, <4>3
    <3> QED BY <1>9, <2>2, <3>1
            DEF Request, IInv, Progress, Source, Requests, Admitted, Served,
                OnlyTheConfiguredAreAsked, answers
  <2> QED BY <2>1, <2>2
<1>10. ASSUME NEW answer, Respond(answer) PROVE IInv'
  BY <1>10 DEF Respond, IInv, Progress, Source, Requests, Admitted, Served,
               OnlyTheConfiguredAreAsked
<1>11. ASSUME NEW received, Received(received) PROVE IInv'
  <2>1. CASE \E kind, text, lines : /\ kind \notin {"Yaml", "InvalidPath"}
                                   /\ Abort(kind, text, lines)
    BY <1>11, <2>1, AbortKeeps DEF Received, Exchanging
  <2>2. CASE phase' = "serving" /\ error' = "none" /\ refreshing' = FALSE
    <3>1. phase = "read" /\ UNCHANGED <<input, config, jwks_uri, discovered, asked>>
      BY <1>11 DEF Received
    <3>2. /\ UNCHANGED Source /\ input.kind # "jwk_set" /\ refreshing \in BOOLEAN
          /\ jwks_uri = Source /\ (config.jwk_set_uri = NoValue => discovered # NoValue)
      BY <3>1 DEF IInv, Progress, Admitted, Source
    <3>3. \/ validator' = [validator EXCEPT !.keys = validator'.keys] /\ refreshing
          \/ validator' = [keys |-> validator'.keys, issuer |-> config.issuer_uri, remote |-> jwks_uri]
          \/ UNCHANGED validator /\ refreshing
      BY <1>11, <2>2, <3>2 DEF Received, Abort
    <3>4. validator' = [keys |-> validator'.keys, issuer |-> config.issuer_uri, remote |-> Source]
      BY <3>2, <3>3 DEF IInv, Served
    <3>5. Progress'
      BY <2>2, <3>1, <3>2 DEF Progress
    <3>6. Served'
      BY <3>1, <3>2, <3>4 DEF Served
    <3>7. Admitted'
      BY <2>2, <3>1, <3>2 DEF IInv, Admitted
    <3>8. OnlyTheConfiguredAreAsked'
      <4>1. asked = Requests \/ asked = <<JwkSet(Source)>>
        BY <3>1 DEF IInv, Progress
      <4> QED BY <2>2, <3>1, <3>2, <4>1 DEF OnlyTheConfiguredAreAsked, Requests, Source
    <3> QED BY <3>5, <3>6, <3>7, <3>8 DEF IInv
  <2> QED BY <1>11, <2>1, <2>2 DEF Received
<1>12. CASE FetchFails
  BY <1>12, AbortKeeps DEF FetchFails, answers
<1>13. CASE TimeOut
  BY <1>13, AbortKeeps DEF TimeOut, answers
<1>14. CASE Dropped
  BY <1>14 DEF Dropped, Exchanging, IInv, Progress, Source, Admitted, Served,
               OnlyTheConfiguredAreAsked, answers
<1>15. CASE RefreshNow
  <2>1. input.kind # "jwk_set" /\ jwks_uri = Source /\ error \notin {"Yaml", "InvalidPath"}
    BY <1>15 DEF RefreshNow, IInv, Progress, Served, Admitted
  <2>2. asked' = <<JwkSet(Source')>> /\ UNCHANGED Source
    BY <1>15, <2>1 DEF RefreshNow, Source
  <2> QED BY <1>15, <2>1, <2>2
          DEF RefreshNow, IInv, Progress, Source, Admitted, Served, OnlyTheConfiguredAreAsked
<1>16. CASE Tick
  BY <1>16 DEF Tick, IInv, Progress, Source, Requests, Admitted, Served,
               OnlyTheConfiguredAreAsked, answers
<1>17. CASE UNCHANGED vars
  BY <1>17 DEF vars, IInv, Progress, Source, Requests, Admitted, Served,
               OnlyTheConfiguredAreAsked, answers
<1> QED
  BY <1>1, <1>2, <1>3, <1>4, <1>5, <1>6, <1>7, <1>8, <1>9, <1>10, <1>11, <1>12,
     <1>13, <1>14, <1>15, <1>16, <1>17 DEF Next

(* Keys come from an input or from a received body, and from nowhere else. *)
LEMMA NextEarned ==
  ASSUME IInv, Next, (phase' = "serving" /\ ~refreshing) \/ validator' # validator
  PROVE  Earned'
<1>1. CASE FromJwkSet
  BY <1>1 DEF FromJwkSet, Fail, Earned, Keys!jwk_set_to_keys
<1>2. ASSUME NEW received, Received(received) PROVE Earned'
  <2> DEFINE keys == Keys!jwk_set_to_keys(received.jwk_set)
  <2>0. /\ ~BadStatus /\ phase' = "serving" /\ keys # {} /\ phase = "read" /\ body' = received
        /\ validator' = IF refreshing THEN [validator EXCEPT !.keys = keys]
                        ELSE [keys |-> keys, issuer |-> config.issuer_uri, remote |-> jwks_uri]
        /\ UNCHANGED <<input, config, jwks_uri, discovered, head>>
    <3>1. ~\E kind, text, lines : Abort(kind, text, lines)
      BY AbortEffect
    <3> HIDE DEF keys
    <3> QED BY <1>2, <3>1 DEF Received, keys
  <2> HIDE DEF keys
  <2>1. input.kind # "jwk_set" /\ validator'.keys = keys
    BY <2>0 DEF IInv, Served, Admitted
  <2>2. IInv'
    BY NextIInv
  <2>3. input.kind # "jwk_set" /\ (input.kind = "yaml" => Patterns(config) \subseteq Rooted)
    BY <2>0, <2>1 DEF IInv, Admitted
  <2>4. /\ validator'.remote = Source /\ validator'.issuer = config.issuer_uri
    <3>1. /\ validator' = [keys |-> validator'.keys, issuer |-> config'.issuer_uri, remote |-> Source']
          /\ UNCHANGED Source
      BY <2>0, <2>2, <2>3 DEF IInv, Served, Source
    <3> QED BY <2>0, <3>1
  <2> QED BY <2>0, <2>1, <2>3, <2>4 DEF Earned, Source, BadStatus, Keys!jwk_set_to_keys, keys
<1>3. CASE Load \/ Fill \/ FromJwksUri \/ from_config \/ DiscoveryFails \/ ClientFails \/ Request
           \/ RefreshNow \/ \E document \in Documents \cup {NoValue} : Discovered(document)
  BY <1>3 DEF Load, Fill, FromJwksUri, from_config, DiscoveryFails, ClientFails, Request,
              RefreshNow, Discovered, Fail
<1>4. CASE FetchFails \/ TimeOut \/ Dropped \/ Tick \/ \E answer \in Heads : Respond(answer)
  <2>1. ASSUME NEW kind, NEW text, NEW lines, Abort(kind, text, lines) PROVE Earned'
    BY <2>1, AbortEffect
  <2>2. CASE Dropped \/ Tick \/ \E answer \in Heads : Respond(answer)
    BY <2>2 DEF Dropped, Tick, Respond, Exchanging
  <2> QED BY <1>4, <2>1, <2>2 DEF FetchFails, TimeOut
<1> QED BY <1>1, <1>2, <1>3, <1>4 DEF Next

(* A layer exists only on the keys of a success of the right server, under   *)
(* the configured issuer and, from a YAML text, valid patterns, and only   *)
(* another success replaces them (jwt.rs:69-149, 235-268).                 *)
THEOREM LayerIsEarned == Spec => ServingIsEarned
<1>1. IInv /\ [Next]_vars
        => [(phase' = "serving" /\ ~refreshing) \/ validator' # validator => Earned']_vars
  BY NextEarned
<1> QED BY <1>1, InitIInv, NextIInv, PTL DEF Spec, ServingIsEarned

(* Nobody is asked but the configured servers, each once by the construction, *)
(* and nobody for a text that is refused (jwt.rs:70-73, config.rs:71-75).   *)
THEOREM OnlyConfiguredServersAsked == Spec => []OnlyTheConfiguredAreAsked
<1>1. IInv => OnlyTheConfiguredAreAsked
  BY DEF IInv
<1> QED BY <1>1, InitIInv, NextIInv, PTL DEF Spec

------------------------------------------------------------------------------
(* The configuration. *)

(* The configuration is the one the input makes, and valid if it was loaded. *)
Configured ==
  (\/ phase \notin {"start", "serving", "failed"}
   \/ phase = "serving" /\ input.kind # "jwk_set"
   \/ config # NoValue) =>
    /\ Configures(input) /\ config = config_of(input)
    /\ input.kind = "yaml" => validate(config)

Given == input \in Inputs /\ Configured

LEMMA InitGiven == Init => Given
BY DEF Init, Given, Configured

LEMMA LoadIsGiven ==
  ASSUME NEW yaml, from_yaml_str(yaml).error = "none"
  PROVE  /\ readable(yaml) /\ from_yaml_str(yaml).config = read_config(yaml)
         /\ validate(from_yaml_str(yaml).config)
BY DEF from_yaml_str, Ok, Err

LEMMA NextGiven == IInv /\ Given /\ [Next]_vars => Given'
<1> SUFFICES ASSUME IInv, Given, [Next]_vars PROVE Given'
  OBVIOUS
<1> USE DEF Given, Configured
<1>1. CASE Load
  <2>1. CASE from_yaml_str(input.value).error = "none"
    BY <1>1, <2>1, LoadIsGiven DEF Load, Fail, Configures, config_of
  <2>2. CASE from_yaml_str(input.value).error # "none"
    BY <1>1, <2>2 DEF Load, Fail
  <2> QED BY <2>1, <2>2
<1>2. CASE Fill
  BY <1>2 DEF Fill, Configures, config_of
<1>3. CASE FromJwksUri
  BY <1>3 DEF FromJwksUri, Configures, config_of
<1>4. CASE FromJwkSet
  BY <1>4 DEF FromJwkSet, Fail
<1>5. CASE from_config
  BY <1>5 DEF from_config, Fail
<1>6. ASSUME NEW document, Discovered(document) PROVE Given'
  BY <1>6 DEF Discovered, Fail
<1>7. CASE DiscoveryFails \/ ClientFails
  BY <1>7 DEF DiscoveryFails, ClientFails, Fail
<1>8. CASE Request
  BY <1>8 DEF Request, Fail
<1>9. ASSUME NEW answer, Respond(answer) PROVE Given'
  BY <1>9 DEF Respond
<1>10. ASSUME Exchanging, UNCHANGED <<input, config>> PROVE Given'
  BY <1>10 DEF Exchanging
<1>11. ASSUME NEW received, Received(received) PROVE Given'
  BY <1>10, <1>11 DEF Received, Exchanging
<1>12. CASE FetchFails \/ TimeOut \/ Dropped \/ Tick
  BY <1>10, <1>12 DEF FetchFails, TimeOut, Dropped, Tick
<1>13. CASE RefreshNow
  <2>1. phase = "serving" /\ input.kind # "jwk_set" /\ UNCHANGED <<input, config>>
    BY <1>13 DEF RefreshNow, IInv, Served
  <2> QED BY <2>1
<1>14. CASE UNCHANGED vars
  BY <1>14 DEF vars
<1> QED
  BY <1>1, <1>2, <1>3, <1>4, <1>5, <1>6, <1>7, <1>8, <1>9, <1>11, <1>12, <1>13, <1>14 DEF Next

------------------------------------------------------------------------------
(* The policy. *)

(* The configuration read from a text, field by field. *)
LEMMA ReadFields ==
  ASSUME NEW yaml, readable(yaml), TypedText(yaml)
  PROVE  LET c == read_config(yaml) IN
         /\ c.blacklist = IF "blacklist" \in DOMAIN yaml THEN yaml.blacklist ELSE {}
         /\ c.whitelist = IF "whitelist" \in DOMAIN yaml THEN yaml.whitelist ELSE {}
         /\ c.allowed_endpoints = IF "allowed_endpoints" \in DOMAIN yaml
              THEN {read_endpoint(given) : given \in yaml.allowed_endpoints} ELSE {}
         /\ c.secure_endpoints = IF "secure_endpoints" \in DOMAIN yaml
              THEN [i \in DOMAIN yaml.secure_endpoints |->
                      read_secure_endpoint(yaml.secure_endpoints[i])] ELSE <<>>
         /\ c.other_endpoints = IF "other_endpoints" \in DOMAIN yaml
              THEN OtherEndpoints[yaml.other_endpoints] ELSE "Deny"
         /\ c.other_endpoints \in {"Allow", "Deny", "Authenticated"}
<1> DEFINE c == read_config(yaml)
<1>1. ASSUME NEW field \in DOMAIN DefaultConfig
      PROVE  c[field] = IF field \in DOMAIN yaml THEN read_field(field, yaml[field])
                        ELSE DefaultConfig[field]
  BY DEF read_config
<1>2. {"blacklist", "whitelist", "allowed_endpoints", "secure_endpoints", "other_endpoints"}
        \subseteq DOMAIN DefaultConfig
  BY DEF DefaultConfig
<1>3. /\ DefaultConfig.blacklist = {} /\ DefaultConfig.whitelist = {}
      /\ DefaultConfig.allowed_endpoints = {} /\ DefaultConfig.secure_endpoints = <<>>
      /\ DefaultConfig.other_endpoints = "Deny"
  BY DEF DefaultConfig
<1>4. \A value :
        /\ read_field("blacklist", value) = value /\ read_field("whitelist", value) = value
        /\ read_field("allowed_endpoints", value) = {read_endpoint(given) : given \in value}
        /\ read_field("secure_endpoints", value)
             = [i \in DOMAIN value |-> read_secure_endpoint(value[i])]
        /\ read_field("other_endpoints", value) = OtherEndpoints[value]
  BY DEF read_field, Durations
<1>5. "other_endpoints" \in DOMAIN yaml =>
        OtherEndpoints[yaml.other_endpoints] \in {"Allow", "Deny", "Authenticated"}
  BY DEF readable, OtherEndpoints
<1> HIDE DEF c
<1>6. c.blacklist = IF "blacklist" \in DOMAIN yaml THEN yaml.blacklist ELSE {}
  BY <1>1, <1>2, <1>3, <1>4
<1>7. c.whitelist = IF "whitelist" \in DOMAIN yaml THEN yaml.whitelist ELSE {}
  BY <1>1, <1>2, <1>3, <1>4
<1>8. c.allowed_endpoints = IF "allowed_endpoints" \in DOMAIN yaml
        THEN {read_endpoint(given) : given \in yaml.allowed_endpoints} ELSE {}
  BY <1>1, <1>2, <1>3, <1>4
<1>9. c.secure_endpoints = IF "secure_endpoints" \in DOMAIN yaml
        THEN [i \in DOMAIN yaml.secure_endpoints |->
                read_secure_endpoint(yaml.secure_endpoints[i])] ELSE <<>>
  BY <1>1, <1>2, <1>3, <1>4
<1>10. c.other_endpoints = IF "other_endpoints" \in DOMAIN yaml
         THEN OtherEndpoints[yaml.other_endpoints] ELSE "Deny"
  BY <1>1, <1>2, <1>3, <1>4
<1> QED BY <1>5, <1>6, <1>7, <1>8, <1>9, <1>10 DEF c

LEMMA SecureIsList ==
  ASSUME NEW yaml, readable(yaml), TypedText(yaml)
  PROVE  read_config(yaml).secure_endpoints \in Seq(Range(read_config(yaml).secure_endpoints))
<1> DEFINE endpoints == read_config(yaml).secure_endpoints
<1>1. CASE "secure_endpoints" \in DOMAIN yaml
  <2>1. DOMAIN yaml.secure_endpoints = 1..Len(yaml.secure_endpoints) /\ Len(yaml.secure_endpoints) \in Nat
    BY <1>1 DEF TypedText
  <2>2. endpoints = [i \in 1..Len(yaml.secure_endpoints) |->
                       read_secure_endpoint(yaml.secure_endpoints[i])]
    BY <1>1, <2>1, ReadFields
  <2>3. endpoints \in [1..Len(yaml.secure_endpoints) -> Range(endpoints)]
    BY <2>2 DEF Range
  <2>4. ASSUME NEW n \in Nat, endpoints \in [1..n -> Range(endpoints)]
        PROVE  endpoints \in Seq(Range(endpoints))
    <3> HIDE DEF endpoints
    <3> QED BY <2>4
  <2> QED BY <2>1, <2>3, <2>4
<1>2. CASE "secure_endpoints" \notin DOMAIN yaml
  <2>1. endpoints = <<>>
    BY <1>2, ReadFields
  <2> QED BY <2>1
<1> QED BY <1>1, <1>2

(* A text's own rules, as read_config hands them to requirement. *)
LEMMA RulesAsWritten ==
  ASSUME Given, input.kind = "yaml", config # NoValue
  PROVE  WrittenRulesGovern
<1> DEFINE yaml == input.value
           Has(field, item) == field \in DOMAIN yaml /\ item
<1>1. config = read_config(yaml) /\ readable(yaml) /\ TypedText(yaml)
  BY InputsAssumption DEF Given, Configured, Configures, config_of, readable
<1>2. ASSUME NEW path, NEW method \in RequestMethods
      PROVE  LET named(given) == /\ given.method.name = method.name /\ ~method.lower
                                 /\ path_matches(given.path, path)
                 denied == Has("blacklist", Listed(yaml.blacklist, path))
                 open == \/ Has("whitelist", Listed(yaml.whitelist, path))
                         \/ Has("allowed_endpoints", \E given \in yaml.allowed_endpoints : named(given))
                 secured == {i \in DOMAIN config.secure_endpoints : named(yaml.secure_endpoints[i])}
                 required == requirement(config, method, path)
             IN CASE denied -> required = DenyAll
                  [] ~denied /\ open -> required = PermitAll
                  [] ~denied /\ ~open /\ secured # {} ->
                       \E i \in secured :
                         /\ \A j \in secured : i <= j
                         /\ required = AnyAuthority(IF "roles" \in DOMAIN yaml.secure_endpoints[i]
                                                      THEN yaml.secure_endpoints[i].roles ELSE {})
                  [] OTHER ->
                       required = IF "other_endpoints" \in DOMAIN yaml
                                    THEN Otherwise[yaml.other_endpoints] ELSE DenyAll
  <2> DEFINE named(given) == /\ given.method.name = method.name /\ ~method.lower
                             /\ path_matches(given.path, path)
             denied == Has("blacklist", Listed(yaml.blacklist, path))
             open == \/ Has("whitelist", Listed(yaml.whitelist, path))
                     \/ Has("allowed_endpoints", \E given \in yaml.allowed_endpoints : named(given))
             secured == {i \in DOMAIN config.secure_endpoints : named(yaml.secure_endpoints[i])}
             required == requirement(config, method, path)
             secure == SelectInSeq(config.secure_endpoints,
                         LAMBDA endpoint : Applies(endpoint, method, path))
  <2>0. ASSUME NEW name
        PROVE  [name |-> name, lower |-> FALSE] = method <=> name = method.name /\ ~method.lower
    <3>1. method = [name |-> method.name, lower |-> method.lower] /\ method.lower \in BOOLEAN
      BY DEF RequestMethods
    <3> QED BY <3>1
  <2>1. denied <=> Listed(config.blacklist, path)
    BY <1>1, ReadFields DEF Listed
  <2>2. open <=> \/ Listed(config.whitelist, path)
                 \/ \E endpoint \in config.allowed_endpoints : Applies(endpoint, method, path)
    <3>1. Has("whitelist", Listed(yaml.whitelist, path)) <=> Listed(config.whitelist, path)
      BY <1>1, ReadFields DEF Listed
    <3>2. \A given : Applies(read_endpoint(given), method, path) <=> named(given)
      BY <2>0 DEF Applies, read_endpoint, read_method
    <3>3. Has("allowed_endpoints", \E given \in yaml.allowed_endpoints : named(given))
          <=> \E endpoint \in config.allowed_endpoints : Applies(endpoint, method, path)
      <4> HIDE DEF named
      <4>1. CASE "allowed_endpoints" \in DOMAIN yaml
        <5>1. config.allowed_endpoints = {read_endpoint(given) : given \in yaml.allowed_endpoints}
          BY <1>1, <4>1, ReadFields
        <5> QED BY <3>2, <4>1, <5>1
      <4>2. CASE "allowed_endpoints" \notin DOMAIN yaml
        BY <1>1, <4>2, ReadFields
      <4> QED BY <4>1, <4>2
    <3> QED BY <3>1, <3>3
  <2>3. ASSUME NEW i \in DOMAIN config.secure_endpoints
        PROVE  /\ i \in secured <=> Applies(config.secure_endpoints[i], method, path)
               /\ config.secure_endpoints[i].roles
                    = IF "roles" \in DOMAIN yaml.secure_endpoints[i]
                        THEN yaml.secure_endpoints[i].roles ELSE {}
    <3>1. "secure_endpoints" \in DOMAIN yaml
      <4>1. "secure_endpoints" \notin DOMAIN yaml => config.secure_endpoints = <<>>
        BY <1>1, ReadFields
      <4> QED BY <4>1
    <3>2. config.secure_endpoints[i] = read_secure_endpoint(yaml.secure_endpoints[i])
      <4>1. config.secure_endpoints = [k \in DOMAIN yaml.secure_endpoints |->
                                        read_secure_endpoint(yaml.secure_endpoints[k])]
        BY <1>1, <3>1, ReadFields
      <4> QED BY <4>1
    <3> QED BY <2>0, <3>2 DEF Applies, read_secure_endpoint, read_method
  <2>4. IF secured = {} THEN secure = 0
        ELSE secure \in secured /\ secure # 0 /\ \A j \in secured : secure <= j
    <3> DEFINE I == {i \in 1..Len(config.secure_endpoints) :
                      Applies(config.secure_endpoints[i], method, path)}
    <3>1. secure = IF I # {} THEN Min(I) ELSE 0
      BY DEF SelectInSeq
    <3>2. /\ Len(config.secure_endpoints) \in Nat
          /\ DOMAIN config.secure_endpoints = 1..Len(config.secure_endpoints)
      BY <1>1, SecureIsList
    <3>3. secured = I /\ 0 \notin I /\ I \in SUBSET Nat
      BY <2>3, <3>2
    <3>4. I # {} => Min(I) \in I /\ \A j \in I : Min(I) <= j
      <4> HIDE DEF I
      <4> QED BY <3>3, LeastNumber
    <3> HIDE DEF secured, secure, I
    <3> QED BY <3>1, <3>3, <3>4
  <2>5. required = IF denied THEN DenyAll
                   ELSE IF open THEN PermitAll
                   ELSE IF secure # 0 THEN AnyAuthority(config.secure_endpoints[secure].roles)
                   ELSE other_requirement(config)
    <3> HIDE DEF denied, open
    <3> QED BY <2>1, <2>2 DEF requirement
  <2>6. other_requirement(config) = IF "other_endpoints" \in DOMAIN yaml
                                      THEN Otherwise[yaml.other_endpoints] ELSE DenyAll
    <3>1. CASE "other_endpoints" \in DOMAIN yaml
      <4>1. /\ yaml.other_endpoints \in {"allow", "deny", "authenticated"}
            /\ config.other_endpoints = OtherEndpoints[yaml.other_endpoints]
        BY <1>1, <3>1, ReadFields DEF readable, OtherEndpoints
      <4>2. CASE yaml.other_endpoints = "allow"
        BY <3>1, <4>1, <4>2 DEF other_requirement, OtherEndpoints, Otherwise
      <4>3. CASE yaml.other_endpoints = "deny"
        BY <3>1, <4>1, <4>3 DEF other_requirement, OtherEndpoints, Otherwise
      <4>4. CASE yaml.other_endpoints = "authenticated"
        BY <3>1, <4>1, <4>4 DEF other_requirement, OtherEndpoints, Otherwise
      <4> QED BY <4>1, <4>2, <4>3, <4>4
    <3>2. CASE "other_endpoints" \notin DOMAIN yaml
      BY <1>1, <3>2, ReadFields DEF other_requirement
    <3> QED BY <3>1, <3>2
  <2>7. denied => required = DenyAll
    <3> HIDE DEF denied, open, secured, secure, required
    <3> QED BY <2>5
  <2>8. ~denied /\ open => required = PermitAll
    <3> HIDE DEF denied, open, secured, secure, required
    <3> QED BY <2>5
  <2>9. ASSUME ~denied /\ ~open /\ secured # {}
        PROVE  \E i \in secured :
                 /\ \A j \in secured : i <= j
                 /\ required = AnyAuthority(IF "roles" \in DOMAIN yaml.secure_endpoints[i]
                                              THEN yaml.secure_endpoints[i].roles ELSE {})
    <3>1. /\ secure \in secured /\ \A j \in secured : secure <= j
          /\ required = AnyAuthority(config.secure_endpoints[secure].roles)
      <4> HIDE DEF denied, open, secured, secure, required
      <4> QED BY <2>4, <2>5, <2>9
    <3>2. secure \in DOMAIN config.secure_endpoints
      BY <3>1
    <3> HIDE DEF denied, open, secured, secure, required
    <3>3. config.secure_endpoints[secure].roles
            = IF "roles" \in DOMAIN yaml.secure_endpoints[secure]
                THEN yaml.secure_endpoints[secure].roles ELSE {}
      BY <2>3, <3>2
    <3> QED BY <3>1, <3>3
  <2>10. ~denied /\ ~open /\ secured = {}
           => required = IF "other_endpoints" \in DOMAIN yaml
                           THEN Otherwise[yaml.other_endpoints] ELSE DenyAll
    <3> HIDE DEF denied, open, secured, secure, required
    <3> QED BY <2>4, <2>5, <2>6
  <2> QED BY <2>7, <2>8, <2>9, <2>10
<1> QED BY <1>2 DEF WrittenRulesGovern

(* Every rule of a YAML text governs what it names, for every text and any   *)
(* number of rules, and the rest is as other-endpoints says, shut if it is   *)
(* not given (config.rs:58-75, policy.rs:34-76).                           *)
THEOREM RulesGovernAsWritten == Spec => []WrittenRulesGovern
<1>1. Given => WrittenRulesGovern
  BY RulesAsWritten DEF WrittenRulesGovern
<1> QED BY <1>1, InitIInv, NextIInv, InitGiven, NextGiven, PTL DEF Spec

------------------------------------------------------------------------------
(* Saving the configuration. *)

(* Fractions of a second are lost in writing, whole seconds are kept. *)
LEMMA SecondsAreWritten ==
  ASSUME NEW v \in Nat
  PROVE  /\ read_duration(v) \in Nat
         /\ read_duration(written_duration(v)) \in (v - Second + 1)..v
         /\ written_duration(read_duration(v)) = v
BY SecondAssumption DEF read_duration, written_duration

LEMMA DefaultFields ==
  /\ DOMAIN DefaultConfig =
       {"issuer_uri", "jwk_set_uri", "user_claim", "fallback_user_claims", "authorities_claim",
        "jwks_refresh_interval", "jwks_max_stale", "jwks_request_timeout",
        "jwks_accept_invalid_certs", "secure_endpoints", "allowed_endpoints", "blacklist",
        "whitelist", "other_endpoints"}
  /\ Durations \subseteq DOMAIN DefaultConfig
  /\ \A field \in Durations : \E n \in Nat : DefaultConfig[field] = read_duration(n)
<1>1. /\ default_jwks_refresh_interval = read_duration(300)
      /\ default_jwks_max_stale = read_duration(3600)
      /\ default_jwks_request_timeout = read_duration(5)
  BY DEF default_jwks_refresh_interval, default_jwks_max_stale, default_jwks_request_timeout,
         read_duration
<1>2. /\ DefaultConfig.jwks_refresh_interval = default_jwks_refresh_interval
      /\ DefaultConfig.jwks_max_stale = default_jwks_max_stale
      /\ DefaultConfig.jwks_request_timeout = default_jwks_request_timeout
  BY DEF DefaultConfig
<1>3. \A field \in Durations : \E n \in Nat : DefaultConfig[field] = read_duration(n)
  BY <1>1, <1>2 DEF Durations
<1> QED BY <1>3 DEF DefaultConfig, Durations

(* Durations of a text are whole seconds. *)
LEMMA ReadDurations ==
  ASSUME NEW yaml, TypedText(yaml), NEW field \in Durations
  PROVE  \E n \in Nat : read_config(yaml)[field] = read_duration(n)
<1>1. \A value : read_field(field, value) = read_duration(value)
  BY DEF read_field, Durations
<1>2. field \in DOMAIN DefaultConfig
  BY DefaultFields
<1>3. read_config(yaml)[field] = IF field \in DOMAIN yaml THEN read_field(field, yaml[field])
                                 ELSE DefaultConfig[field]
  BY <1>2 DEF read_config
<1>4. field \in DOMAIN yaml => yaml[field] \in Nat
  BY DEF TypedText
<1> QED BY <1>1, <1>3, <1>4, DefaultFields

(* What is read has methods in upper case. *)
UpperCase(c) ==
  \A e \in c.allowed_endpoints \cup Range(c.secure_endpoints) : e.method.lower = FALSE

LEMMA ReadIsTyped ==
  ASSUME NEW yaml, readable(yaml), TypedText(yaml)
  PROVE  TypedConfig(read_config(yaml)) /\ UpperCase(read_config(yaml))
<1> DEFINE c == read_config(yaml)
<1>1. c = [field \in DOMAIN DefaultConfig |-> c[field]]
  BY DEF read_config
<1>2. \A field \in Durations : c[field] \in Nat
  BY ReadDurations, SecondsAreWritten
<1>3. \A e \in c.allowed_endpoints :
        /\ e = [method |-> [name |-> e.method.name, lower |-> e.method.lower], path |-> e.path]
        /\ e.method.lower = FALSE
  <2>1. CASE "allowed_endpoints" \in DOMAIN yaml
    <3>1. c.allowed_endpoints = {read_endpoint(given) : given \in yaml.allowed_endpoints}
      BY <2>1, ReadFields
    <3> HIDE DEF c
    <3> QED BY <3>1 DEF read_endpoint, read_method
  <2>2. CASE "allowed_endpoints" \notin DOMAIN yaml
    <3>1. c.allowed_endpoints = {}
      BY <2>2, ReadFields
    <3> HIDE DEF c
    <3> QED BY <3>1
  <2> QED BY <2>1, <2>2
<1>4. c.secure_endpoints \in Seq(Range(c.secure_endpoints))
  BY SecureIsList
<1>5. \A e \in Range(c.secure_endpoints) :
        /\ e = [method |-> [name |-> e.method.name, lower |-> e.method.lower],
                path |-> e.path, roles |-> e.roles]
        /\ e.method.lower = FALSE
  <2>1. CASE "secure_endpoints" \in DOMAIN yaml
    <3>1. c.secure_endpoints = [i \in DOMAIN yaml.secure_endpoints |->
                                  read_secure_endpoint(yaml.secure_endpoints[i])]
      BY <2>1, ReadFields
    <3> HIDE DEF c
    <3> QED BY <3>1 DEF read_secure_endpoint, read_method, Range
  <2>2. CASE "secure_endpoints" \notin DOMAIN yaml
    <3>1. c.secure_endpoints = <<>>
      BY <2>2, ReadFields
    <3> HIDE DEF c
    <3> QED BY <3>1 DEF Range
  <2> QED BY <2>1, <2>2
<1>6. c.other_endpoints \in Range(OtherEndpoints)
  <2>1. Range(OtherEndpoints) = {"Allow", "Deny", "Authenticated"}
    BY DEF Range, OtherEndpoints
  <2> QED BY <2>1, ReadFields
<1> HIDE DEF c
<1>7. TypedConfig(c) /\ UpperCase(c)
  BY <1>1, <1>2, <1>3, <1>4, <1>5, <1>6 DEF TypedConfig, UpperCase
<1> QED BY <1>7 DEF c

LEMMA JwksUriIsTyped ==
  ASSUME NEW given
  PROVE  TypedConfig(jwks_uri_config(given))
<1> DEFINE c == jwks_uri_config(given)
<1>1. /\ c = [field \in DOMAIN DefaultConfig |-> c[field]]
      /\ \A field \in Durations : c[field] = DefaultConfig[field]
      /\ c.allowed_endpoints = {} /\ c.secure_endpoints = <<>> /\ c.other_endpoints = "Deny"
  BY DEF jwks_uri_config, DefaultConfig, Durations
<1>2. \A field \in Durations : c[field] \in Nat
  <2> HIDE DEF c
  <2>1. ASSUME NEW field \in Durations PROVE c[field] \in Nat
    <3>1. PICK m \in Nat : DefaultConfig[field] = read_duration(m)
      BY DefaultFields
    <3> QED BY <1>1, <3>1, SecondsAreWritten
  <2> QED BY <2>1
<1>3. Range(<<>>) = {} /\ <<>> \in Seq({}) /\ "Deny" \in Range(OtherEndpoints)
  BY DEF Range, OtherEndpoints
<1> HIDE DEF c
<1>4. TypedConfig(c)
  BY <1>1, <1>2, <1>3 DEF TypedConfig
<1> QED BY <1>4 DEF c

(* What a configuration becomes by being saved and loaded, field by field. *)
SavedField(c, field) ==
  CASE field \in Durations -> read_duration(written_duration(c[field]))
    [] field = "allowed_endpoints" -> {InUpperCase(e) : e \in c[field]}
    [] field = "secure_endpoints" -> [i \in DOMAIN c[field] |-> InUpperCase(c[field][i])]
    [] OTHER -> c[field]

LEMMA UpperCaseIsRead ==
  /\ \A e : e = [method |-> [name |-> e.method.name, lower |-> e.method.lower], path |-> e.path]
       => /\ read_endpoint(e) = InUpperCase(e)
          /\ InUpperCase(e).path = e.path
          /\ e.method.lower = FALSE => InUpperCase(e) = e
  /\ \A e : e = [method |-> [name |-> e.method.name, lower |-> e.method.lower],
               path |-> e.path, roles |-> e.roles]
       => /\ read_secure_endpoint(e) = InUpperCase(e)
          /\ InUpperCase(e).path = e.path
          /\ e.method.lower = FALSE => InUpperCase(e) = e
<1>1. ASSUME NEW e, e = [method |-> [name |-> e.method.name, lower |-> e.method.lower],
                         path |-> e.path]
      PROVE  /\ read_endpoint(e) = InUpperCase(e)
             /\ InUpperCase(e).path = e.path
             /\ e.method.lower = FALSE => InUpperCase(e) = e
  <2>1. ASSUME NEW n, NEW l, NEW p, e = [method |-> [name |-> n, lower |-> l], path |-> p]
        PROVE  InUpperCase(e) = [method |-> [name |-> n, lower |-> FALSE], path |-> p]
    <3>1. InUpperCase(e) = [e EXCEPT !.method = [@ EXCEPT !.lower = FALSE]]
      BY DEF InUpperCase
    <3> QED BY <2>1, <3>1
  <2> DEFINE n == e.method.name  l == e.method.lower  p == e.path
  <2>2. e = [method |-> [name |-> n, lower |-> l], path |-> p]
    BY <1>1
  <2> HIDE DEF n, l, p
  <2>3. InUpperCase(e) = [method |-> [name |-> n, lower |-> FALSE], path |-> p]
    BY <2>1, <2>2
  <2>4. e.method.lower = l /\ e.method.name = n /\ e.path = p
    BY <2>2
  <2>5. read_endpoint(e) = InUpperCase(e)
    BY <2>3, <2>4 DEF read_endpoint, read_method
  <2>6. InUpperCase(e).path = e.path
    BY <2>3, <2>4
  <2>7. l = FALSE => InUpperCase(e) = e
    BY <2>2, <2>3
  <2> QED BY <2>4, <2>5, <2>6, <2>7
<1>2. ASSUME NEW e, e = [method |-> [name |-> e.method.name, lower |-> e.method.lower],
                         path |-> e.path, roles |-> e.roles]
      PROVE  /\ read_secure_endpoint(e) = InUpperCase(e)
             /\ InUpperCase(e).path = e.path
             /\ e.method.lower = FALSE => InUpperCase(e) = e
  <2>1. ASSUME NEW n, NEW l, NEW p, NEW r,
               e = [method |-> [name |-> n, lower |-> l], path |-> p, roles |-> r]
        PROVE  InUpperCase(e) = [method |-> [name |-> n, lower |-> FALSE], path |-> p, roles |-> r]
    <3>1. InUpperCase(e) = [e EXCEPT !.method = [@ EXCEPT !.lower = FALSE]]
      BY DEF InUpperCase
    <3> QED BY <2>1, <3>1
  <2> DEFINE n == e.method.name  l == e.method.lower  p == e.path  r == e.roles
  <2>2. e = [method |-> [name |-> n, lower |-> l], path |-> p, roles |-> r]
    BY <1>2
  <2> HIDE DEF n, l, p, r
  <2>3. InUpperCase(e) = [method |-> [name |-> n, lower |-> FALSE], path |-> p, roles |-> r]
    BY <2>1, <2>2
  <2>4. e.method.lower = l /\ e.method.name = n /\ e.path = p /\ e.roles = r
        /\ "roles" \in DOMAIN e
    BY <2>2
  <2>5. read_secure_endpoint(e) = InUpperCase(e)
    BY <2>3, <2>4 DEF read_secure_endpoint, read_method
  <2>6. InUpperCase(e).path = e.path
    BY <2>3, <2>4
  <2>7. l = FALSE => InUpperCase(e) = e
    BY <2>2, <2>3
  <2> QED BY <2>4, <2>5, <2>6, <2>7
<1> QED BY <1>1, <1>2

LEMMA SavedAndRead ==
  ASSUME NEW c, TypedConfig(c), to_yaml(c) # Malformed,
         \A e \in c.allowed_endpoints \cup Range(c.secure_endpoints) : write_method(e.method) # NoMethod
  PROVE  /\ readable(to_yaml(c))
         /\ DOMAIN c = DOMAIN DefaultConfig
         /\ \A field \in DOMAIN c : read_config(to_yaml(c))[field] = SavedField(c, field)
<1> DEFINE yaml == to_yaml(c)
           again == read_config(yaml)
<1>1. DOMAIN c = DOMAIN DefaultConfig
  BY DEF TypedConfig
<1>2. \A field \in DOMAIN c : field \in DOMAIN yaml /\ yaml[field] = written_field(field, c[field])
  BY DEF to_yaml
<1>3. \A field \in DOMAIN c : again[field] = read_field(field, written_field(field, c[field]))
  BY <1>1, <1>2 DEF read_config
<1>4. {"allowed_endpoints", "secure_endpoints", "other_endpoints"} \subseteq DOMAIN c
  BY <1>1, DefaultFields
<1>5. \A value :
        /\ written_field("allowed_endpoints", value)
             = {[method |-> write_method(e.method), path |-> e.path] : e \in value}
        /\ written_field("secure_endpoints", value)
             = [i \in DOMAIN value |-> [value[i] EXCEPT !.method = write_method(@)]]
        /\ written_field("other_endpoints", value)
             = CHOOSE text \in DOMAIN OtherEndpoints : OtherEndpoints[text] = value
  BY DEF written_field, Durations
<1>6. \A value :
        /\ read_field("allowed_endpoints", value) = {read_endpoint(given) : given \in value}
        /\ read_field("secure_endpoints", value)
             = [i \in DOMAIN value |-> read_secure_endpoint(value[i])]
        /\ read_field("other_endpoints", value) = OtherEndpoints[value]
  BY DEF read_field, Durations
<1>7. ASSUME NEW e
      PROVE  /\ e = [method |-> e.method, path |-> e.path]
                  => [method |-> write_method(e.method), path |-> e.path] = e
             /\ [e EXCEPT !.method = write_method(@)] = [e EXCEPT !.method = @]
  BY DEF write_method
<1>8. /\ \A given \in yaml.allowed_endpoints : given.method # NoMethod
      /\ again.allowed_endpoints = {InUpperCase(e) : e \in c.allowed_endpoints}
  <2>1. yaml.allowed_endpoints
          = {[method |-> write_method(e.method), path |-> e.path] : e \in c.allowed_endpoints}
    BY <1>2, <1>4, <1>5
  <2>2. again.allowed_endpoints = {read_endpoint(given) : given \in yaml.allowed_endpoints}
    BY <1>2, <1>3, <1>4, <1>6
  <2> DEFINE written(e) == [method |-> write_method(e.method), path |-> e.path]
  <2>3. ASSUME NEW e \in c.allowed_endpoints
        PROVE  written(e) = e /\ read_endpoint(e) = InUpperCase(e) /\ e.method # NoMethod
    <3>1. e = [method |-> [name |-> e.method.name, lower |-> e.method.lower], path |-> e.path]
      BY DEF TypedConfig
    <3>2. written(e) = e
      BY <3>1 DEF write_method
    <3>3. write_method(e.method) # NoMethod
      OBVIOUS
    <3> QED BY <3>1, <3>2, <3>3, UpperCaseIsRead DEF write_method
  <2>4. yaml.allowed_endpoints = c.allowed_endpoints
    <3>1. yaml.allowed_endpoints = {written(e) : e \in c.allowed_endpoints}
      BY <2>1
    <3> HIDE DEF written, yaml
    <3> QED BY <2>3, <3>1
  <2> HIDE DEF yaml, again
  <2> QED BY <2>2, <2>3, <2>4
<1>9. /\ \A i \in DOMAIN yaml.secure_endpoints : yaml.secure_endpoints[i].method # NoMethod
      /\ again.secure_endpoints
           = [i \in DOMAIN c.secure_endpoints |-> InUpperCase(c.secure_endpoints[i])]
  <2> DEFINE endpoints == c.secure_endpoints
             written(e) == [e EXCEPT !.method = write_method(@)]
  <2>1. yaml.secure_endpoints = [i \in DOMAIN endpoints |-> written(endpoints[i])]
    BY <1>2, <1>4, <1>5
  <2>2. again.secure_endpoints
          = [i \in DOMAIN yaml.secure_endpoints |-> read_secure_endpoint(yaml.secure_endpoints[i])]
    BY <1>2, <1>3, <1>4, <1>6
  <2>3. ASSUME NEW i \in DOMAIN endpoints
        PROVE  LET e == endpoints[i] IN
               written(e) = e /\ read_secure_endpoint(e) = InUpperCase(e) /\ e.method # NoMethod
    <3> DEFINE e == endpoints[i]
    <3>1. e \in Range(endpoints)
      BY DEF Range
    <3>2. e = [method |-> [name |-> e.method.name, lower |-> e.method.lower],
               path |-> e.path, roles |-> e.roles]
      BY <3>1 DEF TypedConfig
    <3>3. write_method(e.method) # NoMethod
      BY <3>1
    <3> HIDE DEF e
    <3>4. written(e) = e
      BY <3>2 DEF write_method
    <3>5. read_secure_endpoint(e) = InUpperCase(e)
      BY <3>2, UpperCaseIsRead
    <3> QED BY <3>3, <3>4, <3>5 DEF e, write_method
  <2> HIDE DEF yaml, again, written
  <2>4. DOMAIN yaml.secure_endpoints = DOMAIN endpoints
        /\ \A i \in DOMAIN endpoints : yaml.secure_endpoints[i] = endpoints[i]
    BY <2>1, <2>3
  <2> HIDE DEF endpoints
  <2>5. again.secure_endpoints = [i \in DOMAIN endpoints |-> InUpperCase(endpoints[i])]
    BY <2>2, <2>3, <2>4
  <2> QED BY <2>3, <2>4, <2>5 DEF endpoints
<1>10. yaml.other_endpoints \in DOMAIN OtherEndpoints /\ again.other_endpoints = c.other_endpoints
  <2>1. PICK text \in DOMAIN OtherEndpoints : OtherEndpoints[text] = c.other_endpoints
    BY DEF TypedConfig, Range
  <2>2. yaml.other_endpoints
          = CHOOSE t \in DOMAIN OtherEndpoints : OtherEndpoints[t] = c.other_endpoints
    BY <1>2, <1>4, <1>5
  <2>3. again.other_endpoints = OtherEndpoints[yaml.other_endpoints]
    BY <1>2, <1>3, <1>4, <1>6
  <2> HIDE DEF yaml, again
  <2> QED BY <2>1, <2>2, <2>3
<1>11. readable(yaml)
  BY <1>8, <1>9, <1>10 DEF readable
<1>12. ASSUME NEW field \in DOMAIN c
       PROVE  again[field] = SavedField(c, field)
  <2>0. again[field] = read_field(field, written_field(field, c[field]))
    BY <1>3
  <2> HIDE DEF again, yaml
  <2>1. CASE field \in Durations
    BY <2>0, <2>1 DEF SavedField, read_field, written_field, Durations
  <2>2. CASE field \in {"allowed_endpoints", "secure_endpoints", "other_endpoints"}
    <3>1. field \notin Durations
      BY <2>2 DEF Durations
    <3>2. /\ again.allowed_endpoints = SavedField(c, "allowed_endpoints")
          /\ again.secure_endpoints = SavedField(c, "secure_endpoints")
          /\ again.other_endpoints = SavedField(c, "other_endpoints")
      BY <1>8, <1>9, <1>10 DEF SavedField, Durations
    <3> QED BY <2>2, <3>2
  <2>3. CASE field \notin Durations
             /\ field \notin {"allowed_endpoints", "secure_endpoints", "other_endpoints"}
    BY <2>0, <2>3 DEF SavedField, read_field, written_field
  <2> QED BY <2>1, <2>2, <2>3
<1> QED BY <1>1, <1>11, <1>12

LEMMA SavedLoads ==
  ASSUME Given, config # NoValue
  PROVE  SavedConfigLoads
<1> DEFINE yaml == to_yaml(config)
           read == read_config(yaml)
           again == from_yaml_str(yaml)
<1>1. Configures(input) /\ config = config_of(input) /\ input \in Inputs
  BY DEF Given, Configured
<1>2. TypedConfig(config)
  <2>1. CASE input.kind = "yaml"
    BY <1>1, <2>1, InputsAssumption, ReadIsTyped DEF Configures, config_of, readable
  <2>2. CASE input.kind = "config"
    BY <1>1, <2>2, InputsAssumption DEF config_of
  <2>3. CASE input.kind = "jwks_uri"
    BY <1>1, <2>3, JwksUriIsTyped DEF config_of
  <2> QED BY <1>1, <2>1, <2>2, <2>3, InputsAssumption DEF Configures
<1>3. /\ yaml # Malformed
      /\ \A e \in config.allowed_endpoints \cup Range(config.secure_endpoints) :
           write_method(e.method) # NoMethod
  BY <1>1, WritingAssumption
<1>4. /\ readable(yaml)
      /\ DOMAIN config = DOMAIN DefaultConfig
      /\ \A field \in DOMAIN config : read[field] = SavedField(config, field)
  <2> HIDE DEF yaml, read
  <2> QED BY <1>2, <1>3, SavedAndRead DEF yaml, read
<1>5. Patterns(read) = Patterns(config)
  <2>1. /\ {"blacklist", "whitelist", "allowed_endpoints", "secure_endpoints"} \subseteq DOMAIN config
        /\ {"blacklist", "whitelist", "allowed_endpoints", "secure_endpoints"} \cap Durations = {}
    BY <1>4, DefaultFields DEF Durations
  <2>2. /\ read.blacklist = config.blacklist /\ read.whitelist = config.whitelist
        /\ read.allowed_endpoints = {InUpperCase(e) : e \in config.allowed_endpoints}
        /\ read.secure_endpoints
             = [i \in DOMAIN config.secure_endpoints |-> InUpperCase(config.secure_endpoints[i])]
    <3> HIDE DEF read
    <3> QED BY <1>4, <2>1 DEF SavedField
  <2>3. \A e \in config.allowed_endpoints \cup Range(config.secure_endpoints) :
          InUpperCase(e).path = e.path
    BY <1>2, UpperCaseIsRead DEF TypedConfig
  <2>4. \A i \in DOMAIN config.secure_endpoints :
          config.secure_endpoints[i] \in Range(config.secure_endpoints)
    BY DEF Range
  <2> HIDE DEF read
  <2>5. {e.path : e \in read.allowed_endpoints} = {e.path : e \in config.allowed_endpoints}
    BY <2>2, <2>3
  <2>6. {read.secure_endpoints[i].path : i \in DOMAIN read.secure_endpoints}
          = {config.secure_endpoints[i].path : i \in DOMAIN config.secure_endpoints}
    BY <2>2, <2>3, <2>4
  <2> QED BY <2>2, <2>5, <2>6 DEF Patterns
<1>6. IF Patterns(config) \subseteq Rooted THEN again = Ok(read) ELSE again = Err("InvalidPath")
  <2>1. validate(read) <=> Patterns(config) \subseteq Rooted
    BY <1>5 DEF validate, validate_path
  <2> HIDE DEF read
  <2> QED BY <1>4, <2>1 DEF from_yaml_str, read
<1>7. again.error = IF Patterns(config) \subseteq Rooted THEN "none" ELSE "InvalidPath"
  <2> HIDE DEF again, read
  <2> QED BY <1>6 DEF Ok, Err
<1>8. again.error = "none" => again.config = read
  <2> HIDE DEF again, read
  <2> QED BY <1>6 DEF Ok, Err
<1>9. \A field \in DOMAIN config :
        CASE field \in Durations -> read[field] \in (config[field] - Second + 1)..config[field]
          [] field = "allowed_endpoints" -> read[field] = {InUpperCase(e) : e \in config[field]}
          [] field = "secure_endpoints" ->
               read[field] = [i \in DOMAIN config[field] |-> InUpperCase(config[field][i])]
          [] OTHER -> read[field] = config[field]
  <2> HIDE DEF read
  <2>1. ASSUME NEW field \in Durations
        PROVE  read[field] \in (config[field] - Second + 1)..config[field]
    <3>1. read[field] = read_duration(written_duration(config[field]))
      BY <1>4, DefaultFields DEF SavedField, Durations
    <3> QED BY <1>2, <3>1, SecondsAreWritten DEF TypedConfig
  <2>2. "allowed_endpoints" \notin Durations /\ "secure_endpoints" \notin Durations
    BY DEF Durations
  <2> QED BY <1>4, <2>1, <2>2 DEF SavedField
<1>10. input.kind = "yaml" => again = Ok(config)
  <2> SUFFICES ASSUME input.kind = "yaml" PROVE again = Ok(config)
    OBVIOUS
  <2>1. config = read_config(input.value) /\ TypedText(input.value) /\ readable(input.value)
    BY <1>1, InputsAssumption DEF Configures, config_of, readable
  <2>2. \A field \in Durations : read[field] = config[field]
    <3>1. ASSUME NEW field \in Durations
          PROVE  read_duration(written_duration(config[field])) = config[field]
      <4>1. PICK n \in Nat : config[field] = read_duration(n)
        BY <2>1, ReadDurations
      <4> QED BY <4>1, SecondsAreWritten
    <3> HIDE DEF read
    <3>2. \A field \in Durations : read[field] = read_duration(written_duration(config[field]))
      BY <1>4, DefaultFields DEF SavedField, Durations
    <3> QED BY <3>1, <3>2
  <2>5. \A field \in DOMAIN config : read[field] = config[field]
    <3>1. \A e \in config.allowed_endpoints \cup Range(config.secure_endpoints) : InUpperCase(e) = e
      BY <1>2, <2>1, ReadIsTyped, UpperCaseIsRead DEF TypedConfig, UpperCase
    <3>2. \A i \in DOMAIN config.secure_endpoints :
            config.secure_endpoints[i] \in Range(config.secure_endpoints)
      BY DEF Range
    <3>3. config.secure_endpoints
            = [i \in DOMAIN config.secure_endpoints |-> config.secure_endpoints[i]]
      <4>1. config.secure_endpoints \in Seq(Range(config.secure_endpoints))
        BY <1>2 DEF TypedConfig
      <4>2. \A s, S : s \in Seq(S) => s = [i \in DOMAIN s |-> s[i]]
        BY SeqDef
      <4> QED BY <4>1, <4>2
    <3>4. /\ {InUpperCase(e) : e \in config.allowed_endpoints} = config.allowed_endpoints
          /\ [i \in DOMAIN config.secure_endpoints |-> InUpperCase(config.secure_endpoints[i])]
               = config.secure_endpoints
      BY <3>1, <3>2, <3>3
    <3> HIDE DEF read
    <3> QED BY <1>4, <2>2, <3>4 DEF SavedField
  <2>3. read = config
    <3>1. read = [field \in DOMAIN DefaultConfig |-> read[field]]
      BY DEF read_config
    <3>2. config = [field \in DOMAIN DefaultConfig |-> config[field]]
      BY <1>2 DEF TypedConfig
    <3> HIDE DEF read
    <3> QED BY <1>4, <2>5, <3>1, <3>2
  <2>4. Patterns(config) \subseteq Rooted
    BY DEF Given, Configured, validate, validate_path
  <2> HIDE DEF again, read
  <2> QED BY <1>6, <2>3, <2>4
<1> QED BY <1>7, <1>8, <1>9, <1>10 DEF SavedConfigLoads

(* What was loaded can be saved and loaded again unchanged; what the         *)
(* application filled in loses fractions of seconds, and its methods come  *)
(* back in upper case (config.rs:165-199).                                 *)
THEOREM SavedConfigurationsLoad == Spec => []SavedConfigLoads
<1>1. Given => SavedConfigLoads
  BY SavedLoads DEF SavedConfigLoads
<1> QED BY <1>1, InitIInv, NextIInv, InitGiven, NextGiven, PTL DEF Spec

------------------------------------------------------------------------------
(* The headers. *)

(* One turn of the loop of sanitized_headers. *)
Added(shown, header) ==
  [text \in DOMAIN shown \cup {header.name.text} |->
     IF text # header.name.text THEN shown[text]
     ELSE IF text \in DOMAIN shown THEN with_value(shown[text], sanitized_header_value(header))
     ELSE [kind |-> "string", text |-> sanitized_header_value(header)]]

(* What the log may hold of a header, and of headers. *)
Texts(headers) == {sanitized_header_value(header) : header \in Range(headers)}
Entries(headers) ==
  [kind : {"string"}, text : Texts(headers)] \cup [kind : {"array"}, items : Seq(Texts(headers))]
Objects(headers) ==
  UNION {[names -> Entries(headers)] : names \in SUBSET {header.name.text : header \in Range(headers)}}

(* A value more is added at the end. *)
LEMMA ValueIsAppended ==
  ASSUME NEW S, NEW entry \in [kind : {"string"}, text : S] \cup [kind : {"array"}, items : Seq(S)],
         NEW value \in S
  PROVE  /\ Values(entry) \in Seq(S)
         /\ with_value(entry, value) \in [kind : {"array"}, items : Seq(S)]
         /\ Values(with_value(entry, value)) = Append(Values(entry), value)
<1>1. CASE entry \in [kind : {"string"}, text : S]
  <2>1. entry.kind = "string" /\ entry.text \in S
    BY <1>1
  <2>2. with_value(entry, value) = [kind |-> "array", items |-> <<entry.text, value>>]
    BY <2>1 DEF with_value
  <2>3. <<entry.text, value>> \in Seq(S) /\ <<entry.text>> \in Seq(S)
    BY <2>1
  <2>4. Append(<<entry.text>>, value) = <<entry.text, value>>
    BY SecondOfTwo
  <2> QED BY <2>1, <2>2, <2>3, <2>4 DEF Values
<1>2. CASE entry \in [kind : {"array"}, items : Seq(S)]
  <2>1. entry.kind = "array" /\ entry.items \in Seq(S)
    BY <1>2
  <2>2. with_value(entry, value) = [kind |-> "array", items |-> Append(entry.items, value)]
    BY <2>1 DEF with_value
  <2>3. Append(entry.items, value) \in Seq(S)
    BY <2>1
  <2> QED BY <2>1, <2>2, <2>3 DEF Values
<1> QED BY <1>1, <1>2

LEMMA AddedIsObject ==
  ASSUME NEW headers, NEW shown \in Objects(headers), NEW header \in Range(headers)
  PROVE  Added(shown, header) \in Objects(headers)
<1> DEFINE names == {h.name.text : h \in Range(headers)}
           value == sanitized_header_value(header)
<1>1. PICK given \in SUBSET names : shown \in [given -> Entries(headers)]
  BY DEF Objects
<1>2. value \in Texts(headers)
  BY DEF Texts
<1>3. ASSUME NEW text \in given PROVE with_value(shown[text], value) \in Entries(headers)
  <2>1. shown[text] \in Entries(headers)
    BY <1>1
  <2> HIDE DEF value
  <2> QED BY <1>2, <2>1, ValueIsAppended DEF Entries
<1>4. [kind |-> "string", text |-> value] \in Entries(headers)
  <2> HIDE DEF value
  <2> QED BY <1>2 DEF Entries
<1>5. Added(shown, header) \in [given \cup {header.name.text} -> Entries(headers)]
  <2> HIDE DEF value
  <2> QED BY <1>1, <1>3, <1>4 DEF Added, value
<1>6. given \cup {header.name.text} \in SUBSET names
  OBVIOUS
<1> HIDE DEF names
<1> QED BY <1>5, <1>6 DEF Objects, names

(* sanitized_headers is what its loop has come to after the last header. *)
LEMMA SanitizedInTurns ==
  ASSUME NEW headers, headers \in Seq(Range(headers))
  PROVE  \E shown \in [0..Len(headers) -> Objects(headers)] :
           /\ shown[0] = <<>>
           /\ \A k \in 1..Len(headers) : shown[k] = Added(shown[k - 1], headers[k])
           /\ sanitized_headers(headers) = shown[Len(headers)]
<1> DEFINE n == Len(headers)
           V == Objects(headers)
           base == <<>>
           step == [at \in V \X (1..n) |-> Added(at[1], headers[at[2]])]
           iter == CHOOSE f : f = [s \in SUBSET DOMAIN headers |->
                     IF s = {} THEN <<>> ELSE Added(f[s \ {Max(s)}], headers[Max(s)])]
           shown == [k \in 0..n |-> iter[1..k]]
<1>1. n \in Nat /\ DOMAIN headers = 1..n /\ \A k \in 1..n : headers[k] \in Range(headers)
  BY DEF Range
<1>2. base \in V
  <2>1. <<>> \in [{} -> Entries(headers)]
    OBVIOUS
  <2> QED BY <2>1 DEF Objects
<1>3. StepOn(step, n, V)
  BY <1>1, AddedIsObject DEF StepOn
<1>4. PICK g : Folds(g, n, V, base, step)
  <2> HIDE DEF n, V, base, step
  <2> QED BY <1>1, <1>2, <1>3, FoldExists
<1>5. \A v \in V, k \in 1..n : step[<<v, k>>] = Added(v, headers[k])
  OBVIOUS
<1>6. g = [s \in SUBSET DOMAIN headers |->
             IF s = {} THEN <<>> ELSE Added(g[s \ {Max(s)}], headers[Max(s)])]
  <2>1. ASSUME NEW s \in SUBSET (1..n), s # {}
        PROVE  g[s] = Added(g[s \ {Max(s)}], headers[Max(s)])
    <3>1. g[s \ {Max(s)}] \in V /\ Max(s) \in 1..n
      BY <1>4, <2>1 DEF Folds
    <3> HIDE DEF step, V, n
    <3> QED BY <1>4, <1>5, <2>1, <3>1 DEF Folds
  <2> HIDE DEF step, V
  <2> QED BY <1>1, <1>4, <2>1 DEF Folds
<1>7. iter = [s \in SUBSET DOMAIN headers |->
                IF s = {} THEN <<>> ELSE Added(iter[s \ {Max(s)}], headers[Max(s)])]
  BY <1>6
<1>8. Iterates(iter, n, V, base, step)
  <2>1. ASSUME NEW s \in SUBSET (1..n), s # {}, iter[s \ {Max(s)}] \in V
        PROVE  iter[s] = step[<<iter[s \ {Max(s)}], Max(s)>>]
    <3>1. Max(s) \in 1..n
      BY <1>4, <2>1 DEF Folds
    <3>2. iter[s] = Added(iter[s \ {Max(s)}], headers[Max(s)])
      <4> HIDE DEF iter
      <4> QED BY <1>1, <1>7, <2>1
    <3> HIDE DEF iter, step, V, n
    <3> QED BY <1>5, <2>1, <3>1, <3>2
  <2>2. iter[{}] = base
    <3> HIDE DEF iter
    <3> QED BY <1>7
  <2> HIDE DEF iter, step, V, n, base
  <2> QED BY <2>1, <2>2 DEF Iterates
<1>9. Turns(iter, n, V, base, step)
  <2> HIDE DEF iter, n, V, base, step
  <2> QED BY <1>1, <1>2, <1>3, <1>8, FoldInTurns
<1>10. sanitized_headers(headers) = iter[1..n]
  BY <1>1 DEF sanitized_headers, FoldLeft, MapThenFoldSet, Added
<1>11. shown \in [0..n -> V] /\ shown[0] = <<>> /\ shown[n] = iter[1..n]
  <2> HIDE DEF iter, V, n, step
  <2> QED BY <1>1, <1>9 DEF Turns
<1>12. ASSUME NEW k \in 1..n PROVE shown[k] = Added(shown[k - 1], headers[k])
  <2>1. k - 1 \in 0..n /\ k \in 0..n
    OBVIOUS
  <2>2. iter[1..(k - 1)] \in V /\ iter[1..k] = step[<<iter[1..(k - 1)], k>>]
    <3> HIDE DEF iter, V, n, step, base
    <3> QED BY <1>9, <2>1 DEF Turns
  <2> HIDE DEF iter, V, n, step
  <2> QED BY <1>5, <2>1, <2>2
<1> HIDE DEF shown, iter, V, n
<1>13. \E f \in [0..n -> V] :
         /\ f[0] = <<>>
         /\ \A k \in 1..n : f[k] = Added(f[k - 1], headers[k])
         /\ sanitized_headers(headers) = f[n]
  BY <1>10, <1>11, <1>12
<1> QED BY <1>13 DEF V, n

(* The first k headers of that name, as places in headers; and that values   *)
(* are what is shown of them, in their order.                              *)
Places(headers, k, text) == {i \in 1..k : headers[i].name.text = text}
Shows(values, headers, k, text) ==
  \E sent \in [DOMAIN values -> Places(headers, k, text)] :
    /\ Range(sent) = Places(headers, k, text)
    /\ \A j, l \in DOMAIN values : j < l => sent[j] < sent[l]
    /\ \A j \in DOMAIN values : values[j] = sanitized_header_value(headers[sent[j]])

(* One value more is shown of the header that comes next. *)
LEMMA ShowsOneMore ==
  ASSUME NEW headers, NEW k \in Nat \ {0}, NEW S, NEW before \in Seq(S), NEW value \in S,
         value = sanitized_header_value(headers[k]),
         Shows(before, headers, k - 1, headers[k].name.text)
  PROVE  Shows(Append(before, value), headers, k, headers[k].name.text)
<1> DEFINE text == headers[k].name.text
           after == Append(before, value)
           m == Len(before)
<1>0. PICK sent \in [DOMAIN before -> Places(headers, k - 1, text)] :
        /\ Range(sent) = Places(headers, k - 1, text)
        /\ \A j, l \in DOMAIN before : j < l => sent[j] < sent[l]
        /\ \A j \in DOMAIN before : before[j] = sanitized_header_value(headers[sent[j]])
  BY DEF Shows
<1> DEFINE more == [j \in 1..(m + 1) |-> IF j = m + 1 THEN k ELSE sent[j]]
<1>1. /\ m \in Nat /\ DOMAIN before = 1..m /\ DOMAIN after = 1..(m + 1)
      /\ after[m + 1] = value
      /\ \A j \in 1..m : after[j] = before[j]
  BY AppendProperties
<1>2. /\ Places(headers, k, text) = Places(headers, k - 1, text) \cup {k}
      /\ \A i \in Places(headers, k - 1, text) : i \in Nat /\ i < k
  BY DEF Places
<1>3. \A j \in 1..m : sent[j] \in Places(headers, k - 1, text)
  BY <1>1
<1>4. more \in [1..(m + 1) -> Places(headers, k, text)]
  <2> HIDE DEF text
  <2> QED BY <1>1, <1>2, <1>3
<1>5. Range(more) = Places(headers, k, text)
  <2>1. ASSUME NEW i \in Places(headers, k, text) PROVE \E j \in 1..(m + 1) : more[j] = i
    <3>1. CASE i = k
      <4>1. m + 1 \in 1..(m + 1) /\ more[m + 1] = k
        BY <1>1
      <4> HIDE DEF more
      <4> QED BY <3>1, <4>1
    <3>2. CASE i \in Places(headers, k - 1, text)
      <4>1. PICK j \in 1..m : sent[j] = i
        BY <1>0, <1>1, <3>2 DEF Range
      <4>2. j \in 1..(m + 1) /\ more[j] = i
        BY <1>1, <4>1
      <4> HIDE DEF more
      <4> QED BY <4>2
    <3> HIDE DEF text, more
    <3> QED BY <1>2, <2>1, <3>1, <3>2
  <2>2. DOMAIN more = 1..(m + 1)
    OBVIOUS
  <2> HIDE DEF more, m, text
  <2> QED BY <1>4, <2>1, <2>2 DEF Range
<1>6. ASSUME NEW j \in 1..(m + 1), NEW l \in 1..(m + 1), j < l PROVE more[j] < more[l]
  <2>1. j \in 1..m /\ more[j] = sent[j]
    BY <1>1, <1>6
  <2>2. CASE l \in 1..m
    <3>1. more[l] = sent[l]
      BY <1>1, <2>2
    <3> HIDE DEF more, m
    <3> QED BY <1>0, <1>1, <1>6, <2>1, <2>2, <3>1
  <2>3. CASE l = m + 1
    <3>1. more[l] = k
      BY <1>1, <2>3
    <3> HIDE DEF more, m, text
    <3> QED BY <1>2, <1>3, <2>1, <3>1
  <2> QED BY <1>1, <2>2, <2>3
<1>7. \A j \in 1..(m + 1) : after[j] = sanitized_header_value(headers[more[j]])
  <2> HIDE DEF m
  <2> QED BY <1>0, <1>1
<1> HIDE DEF more, m, after
<1>8. Shows(after, headers, k, text)
  BY <1>1, <1>4, <1>5, <1>6, <1>7 DEF Shows
<1> QED BY <1>8 DEF after

(* The log's object has an entry for every name, and it shows every value    *)
(* sent under that name, in the order they came.                           *)
LEMMA EveryHeaderIsShown ==
  ASSUME NEW headers, headers \in Seq(Range(headers))
  PROVE  /\ sanitized_headers(headers) \in Objects(headers)
         /\ DOMAIN sanitized_headers(headers) = {h.name.text : h \in Range(headers)}
         /\ \A text \in DOMAIN sanitized_headers(headers) :
              Shows(Values(sanitized_headers(headers)[text]), headers, Len(headers), text)
<1> DEFINE n == Len(headers)
           names(k) == {headers[i].name.text : i \in 1..k}
<1>1. n \in Nat /\ DOMAIN headers = 1..n /\ \A k \in 1..n : headers[k] \in Range(headers)
  BY DEF Range
<1>2. PICK shown \in [0..n -> Objects(headers)] :
        /\ shown[0] = <<>>
        /\ \A k \in 1..n : shown[k] = Added(shown[k - 1], headers[k])
        /\ sanitized_headers(headers) = shown[n]
  BY SanitizedInTurns
<1> DEFINE Good(k) == /\ DOMAIN shown[k] = names(k)
                      /\ \A text \in names(k) : Shows(Values(shown[k][text]), headers, k, text)
           I == {k \in 0..n : Good(k)}
<1>3. 0 \in I
  <2>1. names(0) = {} /\ DOMAIN shown[0] = {}
    BY <1>2
  <2> HIDE DEF names
  <2> QED BY <1>1, <2>1
<1>4. ASSUME NEW k \in 1..n, k - 1 \in I PROVE k \in I
  <2> DEFINE before == shown[k - 1]
             header == headers[k]
             value == sanitized_header_value(header)
  <2>1. Good(k - 1) /\ k - 1 \in 0..n
    BY <1>4
  <2>2. shown[k] = Added(before, header) /\ before \in Objects(headers)
    BY <1>2, <2>1
  <2>3. names(k) = names(k - 1) \cup {header.name.text}
    OBVIOUS
  <2>4. value \in Texts(headers)
    BY <1>1 DEF Texts
  <2>5. DOMAIN shown[k] = names(k)
    <3> HIDE DEF names, header, before
    <3> QED BY <2>1, <2>2, <2>3 DEF Added, before
  <2>6. ASSUME NEW text \in names(k), text # header.name.text
        PROVE  Shows(Values(shown[k][text]), headers, k, text)
    <3>1. text \in names(k - 1)
      <4> HIDE DEF names
      <4> QED BY <2>3, <2>6
    <3>2. shown[k][text] = before[text] /\ Shows(Values(before[text]), headers, k - 1, text)
      <4> HIDE DEF names, header, value
      <4> QED BY <2>1, <2>2, <2>6, <3>1 DEF Added
    <3>3. Places(headers, k, text) = Places(headers, k - 1, text)
      BY <2>6 DEF Places
    <3> HIDE DEF before
    <3> QED BY <3>2, <3>3 DEF Shows
  <2>7. Shows(Values(shown[k][header.name.text]), headers, k, header.name.text)
    <3> DEFINE text == header.name.text
               after == shown[k][text]
    <3>1. CASE text \in names(k - 1)
      <4>1. before[text] \in Entries(headers)
        <5>1. text \in DOMAIN before
          BY <2>1, <3>1
        <5> HIDE DEF before, text
        <5> QED BY <2>2, <5>1 DEF Objects
      <4>2. after = with_value(before[text], value)
        <5> HIDE DEF names, value, before
        <5> QED BY <2>1, <2>2, <3>1 DEF Added, value, before
      <4>3. /\ Values(before[text]) \in Seq(Texts(headers))
            /\ Values(after) = Append(Values(before[text]), value)
        <5> HIDE DEF before, text, value, after
        <5> QED BY <2>4, <4>1, <4>2, ValueIsAppended DEF Entries
      <4>4. Shows(Values(before[text]), headers, k - 1, text)
        BY <2>1, <3>1
      <4>5. k \in Nat \ {0}
        BY <1>1
      <4> DEFINE values == Values(before[text])
      <4>6. /\ values \in Seq(Texts(headers)) /\ value = sanitized_header_value(headers[k])
            /\ Shows(values, headers, k - 1, headers[k].name.text)
        BY <4>3, <4>4
      <4>7. Shows(Append(values, value), headers, k, headers[k].name.text)
        <5> HIDE DEF values, value
        <5> QED BY <2>4, <4>5, <4>6, ShowsOneMore
      <4> HIDE DEF before, value
      <4> QED BY <4>3, <4>7
    <3>2. CASE text \notin names(k - 1)
      <4>1. after = [kind |-> "string", text |-> value]
        <5> HIDE DEF names, value, before
        <5> QED BY <2>1, <2>2, <3>2 DEF Added, value, before
      <4>2. Values(after) = <<value>>
        <5> HIDE DEF after, value
        <5> QED BY <4>1 DEF Values
      <4>3. Places(headers, k, text) = {k}
        <5>1. \A i \in 1..(k - 1) : headers[i].name.text # text
          BY <3>2
        <5> HIDE DEF text
        <5>2. headers[k].name.text = text
          BY DEF text
        <5> QED BY <5>1, <5>2 DEF Places
      <4> DEFINE sent == [j \in 1..1 |-> k]
      <4>4. /\ DOMAIN <<value>> = 1..1 /\ sent \in [1..1 -> {k}] /\ Range(sent) = {k}
            /\ \A j, l \in 1..1 : ~(j < l)
            /\ \A j \in 1..1 : <<value>>[j] = value /\ sent[j] = k
        BY DEF Range
      <4> HIDE DEF after, sent, text
      <4>5. \A j \in 1..1 : <<value>>[j] = sanitized_header_value(headers[sent[j]])
        BY <4>4
      <4> HIDE DEF value
      <4> DEFINE values == <<value>>
      <4>6. /\ DOMAIN values = 1..1 /\ Values(after) = values
            /\ \A j \in 1..1 : values[j] = sanitized_header_value(headers[sent[j]])
        BY <4>2, <4>4, <4>5
      <4> HIDE DEF values
      <4>7. Shows(values, headers, k, text)
        BY <4>3, <4>4, <4>6 DEF Shows
      <4> QED BY <4>6, <4>7 DEF after, text
    <3> QED BY <3>1, <3>2
  <2>8. Good(k)
    <3> HIDE DEF names
    <3> QED BY <2>5, <2>6, <2>7
  <2> HIDE DEF Good
  <2> QED BY <2>8
<1>5. n \in I
  <2>1. \A k \in 0..n : k \in I
    <3> HIDE DEF I, n
    <3> QED BY <1>1, <1>3, <1>4, Upwards
  <2> HIDE DEF I
  <2> QED BY <1>1, <2>1
<1>6. names(n) = {h.name.text : h \in Range(headers)}
  BY <1>1 DEF Range
<1>7. Good(n)
  BY <1>5
<1> HIDE DEF names
<1> QED BY <1>1, <1>2, <1>6, <1>7

------------------------------------------------------------------------------
(* The body. *)

(* Bytes adds up the widths of the characters, one after the other. *)
LEMMA BytesInTurns ==
  ASSUME NEW text \in Seq(Nat)
  PROVE  \E sum \in [0..Len(text) -> Nat] :
           /\ sum[0] = 0
           /\ \A k \in 1..Len(text) : sum[k] = sum[k - 1] + text[k]
           /\ Bytes(text) = sum[Len(text)]
<1> DEFINE n == Len(text)
           step == [at \in Nat \X (1..n) |-> at[1] + text[at[2]]]
           iter == CHOOSE f : f = [s \in SUBSET DOMAIN text |->
                     IF s = {} THEN 0 ELSE f[s \ {Max(s)}] + text[Max(s)]]
           sum == [k \in 0..n |-> iter[1..k]]
<1>1. n \in Nat /\ DOMAIN text = 1..n /\ \A k \in 1..n : text[k] \in Nat
  OBVIOUS
<1>2. StepOn(step, n, Nat)
  BY <1>1 DEF StepOn
<1>3. PICK g : Folds(g, n, Nat, 0, step)
  <2> HIDE DEF n, step
  <2> QED BY <1>1, <1>2, FoldExists
<1>4. \A v \in Nat, k \in 1..n : step[<<v, k>>] = v + text[k]
  OBVIOUS
<1>5. g = [s \in SUBSET DOMAIN text |-> IF s = {} THEN 0 ELSE g[s \ {Max(s)}] + text[Max(s)]]
  <2>1. ASSUME NEW s \in SUBSET (1..n), s # {} PROVE g[s] = g[s \ {Max(s)}] + text[Max(s)]
    <3>1. g[s \ {Max(s)}] \in Nat /\ Max(s) \in 1..n
      BY <1>3, <2>1 DEF Folds
    <3> HIDE DEF step, n
    <3> QED BY <1>3, <1>4, <2>1, <3>1 DEF Folds
  <2> HIDE DEF step, n
  <2> QED BY <1>1, <1>3, <2>1 DEF Folds
<1>6. iter = [s \in SUBSET DOMAIN text |->
                IF s = {} THEN 0 ELSE iter[s \ {Max(s)}] + text[Max(s)]]
  BY <1>5
<1>7. Iterates(iter, n, Nat, 0, step)
  <2>1. ASSUME NEW s \in SUBSET (1..n), s # {}, iter[s \ {Max(s)}] \in Nat
        PROVE  iter[s] = step[<<iter[s \ {Max(s)}], Max(s)>>]
    <3>1. Max(s) \in 1..n
      BY <1>3, <2>1 DEF Folds
    <3>2. iter[s] = iter[s \ {Max(s)}] + text[Max(s)]
      <4> HIDE DEF iter
      <4> QED BY <1>1, <1>6, <2>1
    <3> HIDE DEF iter, step, n
    <3> QED BY <1>4, <2>1, <3>1, <3>2
  <2>2. iter[{}] = 0
    <3> HIDE DEF iter
    <3> QED BY <1>6
  <2> HIDE DEF iter, step, n
  <2> QED BY <2>1, <2>2 DEF Iterates
<1>8. Turns(iter, n, Nat, 0, step)
  <2> HIDE DEF iter, n, step
  <2> QED BY <1>1, <1>2, <1>7, FoldInTurns
<1>9. Bytes(text) = iter[1..n]
  BY <1>1 DEF Bytes, FoldLeft, MapThenFoldSet
<1>10. sum \in [0..n -> Nat] /\ sum[0] = 0 /\ sum[n] = iter[1..n]
  <2> HIDE DEF iter, n, step
  <2> QED BY <1>1, <1>8 DEF Turns
<1>11. ASSUME NEW k \in 1..n PROVE sum[k] = sum[k - 1] + text[k]
  <2>1. k - 1 \in 0..n /\ k \in 0..n
    BY <1>1
  <2>2. iter[1..(k - 1)] \in Nat /\ iter[1..k] = step[<<iter[1..(k - 1)], k>>]
    <3> HIDE DEF iter, n, step
    <3> QED BY <1>8, <2>1 DEF Turns
  <2> HIDE DEF iter, n, step
  <2> QED BY <1>4, <2>1, <2>2
<1> HIDE DEF sum, iter
<1> QED BY <1>9, <1>10, <1>11

(* How many bytes the first characters of a body are: more for each. *)
Sums(sum, text) ==
  /\ sum[0] = 0 /\ Bytes(text) = sum[Len(text)]
  /\ \A k \in 0..Len(text) : sum[k] \in Nat /\ Bytes(SubSeq(text, 1, k)) = sum[k]
  /\ \A i, j \in 0..Len(text) : i < j => sum[i] < sum[j]

LEMMA SumsExist ==
  ASSUME NEW text \in Seq(Nat \ {0})
  PROVE  \E sum : Sums(sum, text)
<1> DEFINE n == Len(text)
<1>1. n \in Nat /\ text \in Seq(Nat) /\ \A k \in 1..n : text[k] \in Nat \ {0}
  OBVIOUS
<1>2. PICK sum \in [0..n -> Nat] :
        /\ sum[0] = 0
        /\ \A k \in 1..n : sum[k] = sum[k - 1] + text[k]
        /\ Bytes(text) = sum[n]
  BY <1>1, BytesInTurns
<1>3. ASSUME NEW k \in 0..n PROVE Bytes(SubSeq(text, 1, k)) = sum[k]
  <2> DEFINE some == SubSeq(text, 1, k)
  <2>1. some \in Seq(Nat) /\ Len(some) = k /\ \A i \in 1..k : some[i] = text[i]
    BY <1>1
  <2>2. PICK part \in [0..k -> Nat] :
          /\ part[0] = 0
          /\ \A i \in 1..k : part[i] = part[i - 1] + some[i]
          /\ Bytes(some) = part[k]
    <3> HIDE DEF some
    <3> QED BY <2>1, BytesInTurns
  <2> DEFINE I == {i \in 0..k : part[i] = sum[i]}
  <2>3. 0 \in I
    BY <1>2, <2>2
  <2>4. ASSUME NEW i \in 1..k, i - 1 \in I PROVE i \in I
    <3>1. i \in 1..n /\ some[i] = text[i] /\ part[i - 1] = sum[i - 1]
      BY <1>1, <2>1, <2>4
    <3> HIDE DEF some
    <3> QED BY <1>2, <2>2, <3>1
  <2>5. k \in I
    <3>1. \A i \in 0..k : i \in I
      <4>1. k \in Nat
        BY <1>1
      <4> HIDE DEF I
      <4> QED BY <2>3, <2>4, <4>1, Upwards
    <3> HIDE DEF I
    <3> QED BY <3>1
  <2> HIDE DEF some
  <2>6. Bytes(some) = sum[k]
    BY <2>2, <2>5
  <2> QED BY <2>6 DEF some
<1>4. ASSUME NEW i \in 0..n, NEW j \in 0..n, i < j PROVE sum[i] < sum[j]
  <2> DEFINE I == {k \in 0..n : i < k => sum[i] < sum[k]}
  <2>1. 0 \in I
    BY <1>1
  <2>2. ASSUME NEW k \in 1..n, k - 1 \in I PROVE k \in I
    <3>1. sum[k] = sum[k - 1] + text[k] /\ text[k] \in Nat \ {0} /\ k - 1 \in 0..n
      BY <1>1, <1>2
    <3>2. sum[k - 1] \in Nat /\ sum[k] \in Nat /\ sum[i] \in Nat
      <4>1. k \in 0..n
        BY <1>1
      <4> HIDE DEF n
      <4> QED BY <1>2, <3>1, <4>1
    <3>3. i < k => i = k - 1 \/ i < k - 1
      OBVIOUS
    <3>4. i < k - 1 => sum[i] < sum[k - 1]
      BY <2>2
    <3> HIDE DEF n
    <3>5. i < k => sum[i] < sum[k]
      BY <3>1, <3>2, <3>3, <3>4
    <3> QED BY <3>5
  <2>3. \A k \in 0..n : k \in I
    <3> HIDE DEF I, n
    <3> QED BY <1>1, <2>1, <2>2, Upwards
  <2> HIDE DEF n
  <2> QED BY <1>4, <2>3
<1>5. Sums(sum, text)
  BY <1>2, <1>3, <1>4 DEF Sums
<1> QED BY <1>5

(* boundary is the last place up to the limit where a character ends. *)
LEMMA BoundaryIsLast ==
  ASSUME NEW text \in Seq(Nat \ {0}), NEW max \in Nat
  PROVE  /\ boundary(text, max) \in 0..max
         /\ is_char_boundary(text, boundary(text, max))
         /\ \A e \in 0..max : is_char_boundary(text, e) => e <= boundary(text, max)
<1> DEFINE Ends(e) == {i \in 0..e : is_char_boundary(text, i)}
           Greatest(e, i) == i \in Ends(e) /\ \A j \in Ends(e) : j <= i
           last == [e \in 0..max |-> CHOOSE i : Greatest(e, i)]
           end == CHOOSE f : f = [e \in 0..max |-> IF is_char_boundary(text, e) THEN e ELSE f[e - 1]]
<1>1. is_char_boundary(text, 0)
  <2>1. PICK sum : Sums(sum, text)
    BY SumsExist
  <2>2. 0 \in 0..Len(text) /\ Bytes(SubSeq(text, 1, 0)) = 0
    BY <2>1 DEF Sums
  <2> QED BY <2>2 DEF is_char_boundary, Characters
<1>2. ASSUME NEW e \in 0..max, is_char_boundary(text, e) PROVE last[e] = e
  <2>1. Greatest(e, e) /\ \A i : Greatest(e, i) => i = e
    BY <1>2
  <2> HIDE DEF Greatest
  <2> QED BY <2>1
<1>3. ASSUME NEW e \in 0..max, ~is_char_boundary(text, e) PROVE e - 1 \in 0..max /\ Ends(e) = Ends(e - 1)
  <2>1. e # 0
    BY <1>1, <1>3
  <2>2. \A i : i \in 0..e /\ i # e <=> i \in 0..(e - 1)
    BY <2>1
  <2> QED BY <1>3, <2>1, <2>2
<1>4. last = [e \in 0..max |-> IF is_char_boundary(text, e) THEN e ELSE last[e - 1]]
  <2>1. ASSUME NEW e \in 0..max, ~is_char_boundary(text, e) PROVE last[e] = last[e - 1]
    BY <1>3, <2>1
  <2> DEFINE f == last
  <2>2. f = [e \in 0..max |-> f[e]] /\ \A e \in 0..max : f[e] = last[e]
    OBVIOUS
  <2>3. \A e \in 0..max : f[e] = IF is_char_boundary(text, e) THEN e ELSE f[e - 1]
    BY <1>2, <2>1
  <2> HIDE DEF f
  <2>4. f = [e \in 0..max |-> IF is_char_boundary(text, e) THEN e ELSE f[e - 1]]
    BY <2>2, <2>3
  <2> QED BY <2>4 DEF f
<1>5. end = [e \in 0..max |-> IF is_char_boundary(text, e) THEN e ELSE end[e - 1]]
  <2> HIDE DEF last
  <2> QED BY <1>4
<1>6. boundary(text, max) = end[max]
  BY DEF boundary
<1> DEFINE I == {e \in 0..max : Greatest(e, end[e])}
<1>7. 0 \in I
  <2>1. end[0] = 0
    <3> HIDE DEF end
    <3> QED BY <1>1, <1>5
  <2> HIDE DEF end
  <2> QED BY <1>1, <2>1
<1>8. ASSUME NEW e \in 1..max, e - 1 \in I PROVE e \in I
  <2>1. CASE is_char_boundary(text, e)
    <3>1. end[e] = e
      <4> HIDE DEF end
      <4> QED BY <1>5, <2>1
    <3> HIDE DEF end
    <3> QED BY <2>1, <3>1
  <2>2. CASE ~is_char_boundary(text, e)
    <3>1. end[e] = end[e - 1]
      <4> HIDE DEF end
      <4> QED BY <1>5, <2>2
    <3>2. Greatest(e - 1, end[e - 1]) /\ Ends(e) = Ends(e - 1)
      <4> HIDE DEF end
      <4> QED BY <1>3, <1>8, <2>2
    <3> HIDE DEF end, Ends
    <3> QED BY <3>1, <3>2
  <2> QED BY <2>1, <2>2
<1>9. Greatest(max, end[max])
  <2>1. \A e \in 0..max : e \in I
    <3> HIDE DEF I
    <3> QED BY <1>7, <1>8, Upwards
  <2> HIDE DEF end, Greatest
  <2> QED BY <2>1
<1> HIDE DEF end
<1> QED BY <1>6, <1>9

(* The preview of a body: all of it, or the longest beginning that fits.    *)
LEMMA PreviewMeaning ==
  ASSUME NEW text \in Seq(Nat \ {0}), NEW max \in Nat
  PROVE  LET shown == body_preview(text, max).preview IN
         /\ IsPrefix(shown, text)
         /\ Bytes(shown) <= max
         /\ \A n \in (Len(shown) + 1)..Len(text) : Bytes(SubSeq(text, 1, n)) > max
         /\ body_preview(text, max).truncated <=> shown # text
<1>1. PICK sum : Sums(sum, text)
  BY SumsExist
<1>2. Len(text) \in Nat /\ Bytes(text) = sum[Len(text)] /\ Bytes(text) \in Nat
  BY <1>1 DEF Sums
<1>3. CASE Bytes(text) <= max
  <2>1. body_preview(text, max) = [preview |-> text, truncated |-> FALSE]
    BY <1>3 DEF body_preview
  <2>2. body_preview(text, max).preview = text /\ body_preview(text, max).truncated = FALSE
    BY <2>1
  <2>3. IsPrefix(text, text)
    BY <1>2 DEF IsPrefix
  <2>4. \A n \in (Len(text) + 1)..Len(text) : FALSE
    BY <1>2
  <2> QED BY <1>3, <2>2, <2>3, <2>4
<1>4. CASE ~(Bytes(text) <= max)
  <2> DEFINE b == boundary(text, max)
             n == CHOOSE i \in Characters(text, b) : TRUE
             shown == SubSeq(text, 1, n)
  <2>1. /\ b \in 0..max /\ Characters(text, b) # {}
        /\ \A e \in 0..max : Characters(text, e) # {} => e <= b
    BY BoundaryIsLast DEF is_char_boundary
  <2>2. body_preview(text, max) = [preview |-> shown, truncated |-> TRUE]
    BY <1>4 DEF body_preview
  <2>3. n \in Characters(text, b)
    <3> HIDE DEF b
    <3> QED BY <2>1
  <2> HIDE DEF n, b
  <2>4. n \in 0..Len(text) /\ sum[n] = b /\ Bytes(shown) = b
    BY <1>1, <2>3 DEF Characters, Sums
  <2>5. Len(shown) = n /\ IsPrefix(shown, text)
    <3>1. Len(shown) = n
      BY <1>2, <2>4
    <3>2. SubSeq(shown, 1, n) = SubSeq(text, 1, n)
      <4>1. shown \in Seq(Nat \ {0})
        BY <1>2, <2>4
      <4> QED BY <3>1, <4>1, SubSeqFull
    <3> QED BY <1>2, <2>4, <3>1, <3>2 DEF IsPrefix
  <2>6. ASSUME NEW k \in (n + 1)..Len(text) PROVE Bytes(SubSeq(text, 1, k)) > max
    <3>1. k \in 0..Len(text) /\ n < k
      BY <2>4
    <3>2. sum[n] < sum[k] /\ sum[k] \in Nat /\ Bytes(SubSeq(text, 1, k)) = sum[k]
      BY <1>1, <2>4, <3>1 DEF Sums
    <3>3. sum[k] \in 0..max => Characters(text, sum[k]) # {}
      BY <3>1, <3>2 DEF Characters
    <3> QED BY <2>1, <2>4, <3>2, <3>3
  <2>7. shown # text
    <3>1. Bytes(shown) # Bytes(text)
      BY <1>2, <1>4, <2>1, <2>4
    <3> QED BY <3>1
  <2>8. body_preview(text, max).preview = shown /\ body_preview(text, max).truncated = TRUE
    <3> HIDE DEF shown
    <3> QED BY <2>2
  <2>9. Bytes(shown) <= max
    BY <2>1, <2>4
  <2> HIDE DEF shown
  <2> QED BY <2>5, <2>6, <2>7, <2>8, <2>9
<1> QED BY <1>3, <1>4

------------------------------------------------------------------------------
(* The log. *)

(* An object of the log shows nothing but the values sanitized_header_value *)
(* gives.                                                                  *)
LEMMA ObjectsShowTexts ==
  ASSUME NEW headers, NEW object \in Objects(headers), NEW entry \in Range(object)
  PROVE  Range(Values(entry)) \subseteq Texts(headers)
<1>1. entry \in Entries(headers)
  BY DEF Objects, Range
<1>2. CASE entry \in [kind : {"string"}, text : Texts(headers)]
  BY <1>2 DEF Values, Range
<1>3. CASE entry \in [kind : {"array"}, items : Seq(Texts(headers))]
  BY <1>3 DEF Values, Range
<1> QED BY <1>1, <1>2, <1>3 DEF Entries

LEMMA PromisedIsSensitive ==
  ASSUME NEW name, Promised(name)
  PROVE  is_sensitive_header_name(name)
BY DEF Promised, is_sensitive_header_name, SENSITIVE_PATTERNS

LEMMA HeadersArePublic ==
  ASSUME NEW answer \in Heads
  PROVE  Texts(answer.headers) \subseteq PublicTexts
<1> SUFFICES ASSUME NEW header \in Range(answer.headers)
             PROVE  sanitized_header_value(header) \in PublicTexts
  BY DEF Texts
<1>1. header \in Headers
  BY DEF Headers
<1>2. ~is_sensitive_header_name(header.name) => header.value \in PublicTexts
  BY <1>1, PromisedIsSensitive DEF PublicTexts
<1>3. {"<redacted>", "<non-utf8>"} \subseteq PublicTexts
  BY DEF PublicTexts
<1> QED BY <1>2, <1>3 DEF sanitized_header_value

LEMMA UrisArePublic ==
  ASSUME NEW uri \in Uris \cup {Unparsable}
  PROVE  Range(sanitize_uri(uri)) \subseteq PublicTexts
<1>1. CASE uri = Unparsable
  BY <1>1 DEF sanitize_uri, Range, PublicTexts
<1>2. CASE uri # Unparsable
  <2>1. {uri.scheme, uri.host, uri.path} \subseteq PublicTexts
    BY <1>2 DEF PublicTexts
  <2>2. Range(<<uri.scheme, uri.host, uri.path>>) = {uri.scheme, uri.host, uri.path}
    BY DEF Range
  <2> QED BY <1>2, <2>1, <2>2 DEF sanitize_uri
<1> QED BY <1>1, <1>2

LEMMA RequestIsPublic ==
  ASSUME NEW uri
  PROVE  \A entry \in Range(sanitized_headers(request_headers(uri))) :
           Range(Values(entry)) \subseteq PublicTexts
<1> DEFINE headers == request_headers(uri)
<1>1. headers \in Seq(Range(headers)) /\ Texts(headers) \subseteq {"<redacted>"}
  <2>1. CASE uri.user = NoValue
    BY <2>1 DEF request_headers, Range, Texts
  <2>2. CASE uri.user # NoValue
    <3> DEFINE header == [name |-> [text |-> "authorization", words |-> {"authorization"}],
                          value |-> uri.user, visible |-> TRUE]
    <3>1. headers = <<header>>
      BY <2>2 DEF request_headers
    <3>2. is_sensitive_header_name(header.name)
      BY DEF is_sensitive_header_name, SENSITIVE_PATTERNS
    <3>3. sanitized_header_value(header) = "<redacted>"
      BY <3>2 DEF sanitized_header_value
    <3> HIDE DEF header, headers
    <3>4. Range(headers) = {header}
      BY <3>1 DEF Range
    <3> QED BY <3>1, <3>3, <3>4 DEF Texts
  <2> QED BY <2>1, <2>2
<1>2. "<redacted>" \in PublicTexts
  BY DEF PublicTexts
<1> HIDE DEF headers
<1>3. sanitized_headers(headers) \in Objects(headers)
  BY <1>1, EveryHeaderIsShown
<1>4. ASSUME NEW entry \in Range(sanitized_headers(headers))
      PROVE  Range(Values(entry)) \subseteq PublicTexts
  BY <1>1, <1>2, <1>3, ObjectsShowTexts
<1> QED BY <1>4 DEF headers

(* A line that shows no secret, and one that is not about a response. *)
Discreet(line) == Shown(line) \subseteq PublicTexts
Quiet(line) == Discreet(line) /\ line.event # "response"

LEMMA LinesAreQuiet ==
  ASSUME NEW uri \in Uris \cup {Unparsable}, NEW event, event # "response"
  PROVE  /\ Quiet(Line(event, sanitize_uri(uri), <<>>))
         /\ Quiet(Line(event, sanitize_uri(uri), sanitized_headers(request_headers(uri))))
         /\ \A text : Quiet([Line(event, sanitize_uri(uri), <<>>) EXCEPT !.error = text])
<1>1. Range(<<>>) = {}
  BY DEF Range
<1>2. Quiet(Line(event, sanitize_uri(uri), <<>>))
  <2> DEFINE line == Line(event, sanitize_uri(uri), <<>>)
  <2>1. line.event = event /\ line.uri = sanitize_uri(uri) /\ line.headers = <<>>
    BY DEF Line
  <2> HIDE DEF line
  <2> QED BY <1>1, <2>1, UrisArePublic DEF Quiet, Discreet, Shown, line
<1>3. Quiet(Line(event, sanitize_uri(uri), sanitized_headers(request_headers(uri))))
  <2> DEFINE line == Line(event, sanitize_uri(uri), sanitized_headers(request_headers(uri)))
  <2>1. /\ line.event = event /\ line.uri = sanitize_uri(uri)
        /\ line.headers = sanitized_headers(request_headers(uri))
    BY DEF Line
  <2>2. Quiet(line)
    <3> HIDE DEF line
    <3>1. \A entry \in Range(line.headers) : Range(Values(entry)) \subseteq PublicTexts
      BY <2>1, RequestIsPublic
    <3> QED BY <2>1, <3>1, UrisArePublic DEF Quiet, Discreet, Shown
  <2> QED BY <2>2
<1>4. ASSUME NEW text PROVE Quiet([Line(event, sanitize_uri(uri), <<>>) EXCEPT !.error = text])
  <2> DEFINE line == [Line(event, sanitize_uri(uri), <<>>) EXCEPT !.error = text]
  <2>1. line.event = event /\ line.uri = sanitize_uri(uri) /\ line.headers = <<>>
    BY DEF Line
  <2> HIDE DEF line
  <2> QED BY <1>1, <2>1, UrisArePublic DEF Quiet, Discreet, Shown, line
<1> QED BY <1>2, <1>3, <1>4

LEMMA ResponseIsDiscreet ==
  ASSUME head \in Heads, NEW received
  PROVE  /\ Discreet(ResponseLine(received))
         /\ ResponseLine(received).event = "response"
         /\ ResponseLine(received).headers = sanitized_headers(head.headers)
         /\ ResponseLine(received).preview = body_preview(received.text, PreviewLimit)
<1> DEFINE line == ResponseLine(received)
<1>1. /\ line.event = "response" /\ line.uri = <<>> /\ line.headers = sanitized_headers(head.headers)
      /\ line.preview = body_preview(received.text, PreviewLimit)
  BY DEF ResponseLine, Line
<1>2. head.headers \in Seq(Range(head.headers))
  BY AnswersAssumption
<1>3. sanitized_headers(head.headers) \in Objects(head.headers)
  BY <1>2, EveryHeaderIsShown
<1> HIDE DEF line
<1>4. \A entry \in Range(line.headers) : Range(Values(entry)) \subseteq PublicTexts
  BY <1>1, <1>3, ObjectsShowTexts, HeadersArePublic
<1>5. Discreet(line)
  BY <1>1, <1>4 DEF Discreet, Shown, Range
<1> QED BY <1>1, <1>5 DEF line

(* Logging. *)
IsLog(lines) == lines \in Seq(Range(lines))

LEMMA Logging ==
  ASSUME NEW lines, IsLog(lines), NEW more, IsLog(more)
  PROVE  IsLog(lines \o more) /\ Range(lines \o more) = Range(lines) \cup Range(more)
<1> DEFINE S == Range(lines) \cup Range(more)
<1>1. lines \in Seq(S) /\ more \in Seq(S)
  BY DEF IsLog
<1>2. lines \o more \in Seq(S) /\ Range(lines \o more) = S
  BY <1>1, RangeConcatenation
<1> HIDE DEF S
<1> QED BY <1>2 DEF IsLog, S

LEMMA LoggingTwo ==
  ASSUME NEW first, NEW second
  PROVE  IsLog(<<first, second>>) /\ Range(<<first, second>>) = {first, second}
BY DEF IsLog, Range

(* Where the JWK set is fetched, and who has answered. *)
Fetching ==
  /\ jwks_uri \in Uris \cup {NoValue, Unparsable}
  /\ phase \in {"build", "fetch", "read"} => jwks_uri # NoValue
  /\ phase \in {"fetch", "read"} \/ (phase = "serving" /\ input.kind # "jwk_set") =>
       jwks_uri \in Uris
  /\ head \in Heads \cup {NoValue}
  /\ phase = "read" => head \in Heads

(* No line shows a secret, and the one about the response, the last but for  *)
(* the one that says it was a success, is about what was received.         *)
Logged ==
  /\ IsLog(log)
  /\ \A line \in Range(log) : Discreet(line)
  /\ \A line \in Range(log) : line.event = "response" =>
       /\ phase \in {"serving", "failed"}
       /\ head \in Heads /\ body \in Bodies
       /\ line = ResponseLine(body)

LInv == Given /\ Fetching /\ Logged

LEMMA InitLogged == Init => IInv /\ LInv
<1> SUFFICES ASSUME Init PROVE Fetching /\ Logged
  BY InitIInv, InitGiven DEF LInv
<1>1. Range(<<>>) = {} /\ <<>> \in Seq({})
  BY DEF Range
<1> QED BY <1>1 DEF Init, Fetching, Logged, IsLog

(* Lines that are not about the response, before there is one. *)
LEMMA QuietLogging ==
  ASSUME Logged, phase \notin {"serving", "failed"}, NEW more, IsLog(more),
         \A line \in Range(more) : Quiet(line), log' = log \o more
  PROVE  Logged'
<1>1. IsLog(log \o more) /\ Range(log \o more) = Range(log) \cup Range(more)
  BY Logging DEF Logged
<1>2. \A line \in Range(log) : line.event # "response"
  BY DEF Logged
<1>3. \A line \in Range(log') : Discreet(line) /\ line.event # "response"
  BY <1>1, <1>2 DEF Logged, Quiet
<1> QED BY <1>1, <1>3 DEF Logged, Discreet, Shown, Values, PublicTexts

(* A step that logs nothing. *)
LEMMA Silent ==
  ASSUME Logged, UNCHANGED <<log, head, body>>,
         phase \notin {"serving", "failed"} \/ phase' = phase
  PROVE  Logged'
<1>1. ASSUME NEW line \in Range(log), line.event = "response"
      PROVE  phase' \in {"serving", "failed"} /\ head \in Heads /\ body \in Bodies
             /\ line = ResponseLine(body)
  BY <1>1 DEF Logged
<1> QED BY <1>1 DEF Logged, ResponseLine, IsLog, Discreet, Shown, Line

LEMMA WarningIsQuiet ==
  ASSUME Fetching, phase = "build"
  PROVE  IsLog(CertsWarning) /\ \A line \in Range(CertsWarning) : Quiet(line)
<1>1. jwks_uri \in Uris \cup {Unparsable}
  BY DEF Fetching
<1>2. Quiet(Line("verification disabled", sanitize_uri(jwks_uri), <<>>))
  BY <1>1, LinesAreQuiet
<1>3. IsLog(<<>>) /\ Range(<<>>) = {}
  BY DEF IsLog, Range
<1>4. \A line : IsLog(<<line>>) /\ Range(<<line>>) = {line}
  BY DEF IsLog, Range
<1> QED BY <1>2, <1>3, <1>4 DEF CertsWarning

(* The end of an exchange: besides quiet lines at most the one about the    *)
(* response.                                                               *)
LEMMA EndLogged ==
  ASSUME Fetching, Logged, Exchanging, phase' \in {"serving", "failed"},
         UNCHANGED <<input, jwks_uri, head>>,
         NEW more, IsLog(more), log' = log \o more,
         \A line \in Range(more) :
           \/ Quiet(line)
           \/ head \in Heads /\ body' \in Bodies /\ line = ResponseLine(body')
  PROVE  Fetching' /\ Logged'
<1>1. Fetching'
  BY DEF Fetching, Exchanging
<1>2. IsLog(log') /\ Range(log') = Range(log) \cup Range(more)
  BY Logging DEF Logged
<1>3. \A line \in Range(log) : Discreet(line) /\ line.event # "response"
  BY DEF Logged, Exchanging
<1>4. ResponseLine(body') = ResponseLine(body)'
  BY DEF ResponseLine, Line
<1>5. ASSUME NEW line \in Range(log')
      PROVE  /\ Discreet(line)
             /\ line.event = "response" =>
                  head \in Heads /\ body' \in Bodies /\ line = ResponseLine(body)'
  <2>1. CASE Quiet(line) \/ line \in Range(log)
    BY <1>3, <2>1 DEF Quiet
  <2>2. CASE head \in Heads /\ body' \in Bodies /\ line = ResponseLine(body')
    BY <1>4, <2>2, ResponseIsDiscreet
  <2> QED BY <1>2, <1>5, <2>1, <2>2
<1>6. Logged'
  BY <1>2, <1>5 DEF Logged, IsLog, Discreet, Shown
<1> QED BY <1>1, <1>6

(* An exchange that fails. *)
LEMMA AbortLogged ==
  ASSUME Fetching, Logged, Exchanging, UNCHANGED <<input, jwks_uri, head>>,
         NEW kind, NEW text, NEW lines, Abort(kind, text, lines), IsLog(lines),
         \A line \in Range(lines) :
           \/ Quiet(line)
           \/ head \in Heads /\ body' \in Bodies /\ line = ResponseLine(body')
  PROVE  Fetching' /\ Logged'
<1> DEFINE warning == [Line("refresh failed", sanitize_uri(jwks_uri), <<>>) EXCEPT !.error = text]
<1>1. Quiet(warning)
  BY LinesAreQuiet DEF Fetching, Exchanging
<1>2. /\ phase' \in {"serving", "failed"}
      /\ log' = log \o lines \/ log' = log \o lines \o <<warning>>
  BY Zenon DEF Abort
<1>3. CASE log' = log \o lines
  BY <1>2, <1>3, EndLogged
<1>4. CASE log' = log \o lines \o <<warning>>
  <2> HIDE DEF warning
  <2> DEFINE more == lines \o <<warning>>
  <2>1. IsLog(<<warning>>) /\ Range(<<warning>>) = {warning}
    BY DEF IsLog, Range
  <2>2. IsLog(more) /\ Range(more) = Range(lines) \cup {warning}
    BY <2>1, Logging
  <2>3. log' = log \o more
    BY <1>4, <2>1, ConcatAssociative DEF IsLog, Logged
  <2> HIDE DEF more
  <2> QED BY <1>1, <1>2, <2>2, <2>3, EndLogged
<1> QED BY <1>2, <1>3, <1>4

LEMMA NextLogged == IInv /\ LInv /\ [Next]_vars => LInv'
<1> SUFFICES ASSUME IInv, LInv, [Next]_vars PROVE Fetching' /\ Logged'
  BY NextGiven DEF LInv
<1> USE DEF LInv
<1>1. CASE Load \/ Fill
  BY <1>1, Silent DEF Load, Fill, Fail, Fetching, answers
<1>2. CASE FromJwksUri
  <2>1. input \in Inputs /\ Configures(input) /\ config_of(input) = jwks_uri_config(input.value)
    BY <1>2 DEF FromJwksUri, Given, Configures, config_of
  <2>2. config_of(input).jwk_set_uri = input.value.uri /\ input.value.uri # NoValue
    BY <1>2, <2>1, InputsAssumption DEF FromJwksUri, jwks_uri_config, DefaultConfig
  <2>3. input.value.uri \in Uris \cup {Unparsable} /\ input.value.uri # NoValue
    BY <2>1, <2>2 DEF Uris
  <2> QED BY <1>2, <2>3, Silent DEF FromJwksUri, Fetching, answers
<1>3. CASE FromJwkSet
  BY <1>3, Silent DEF FromJwkSet, Fail, Fetching, answers
<1>4. CASE from_config
  <2>1. input \in Inputs /\ Configures(input) /\ config = config_of(input)
    BY <1>4 DEF from_config, Given, Configured
  <2>2. config.jwk_set_uri \in Uris \cup {NoValue, Unparsable}
    BY <2>1 DEF Uris
  <2> QED BY <1>4, <2>2, Silent DEF from_config, Fail, Fetching, answers
<1>5. ASSUME NEW document \in Documents \cup {NoValue}, Discovered(document)
      PROVE  Fetching' /\ Logged'
  <2>1. document # NoValue => document.jwks_uri \in Uris \cup {NoValue, Unparsable}
    BY DEF Uris
  <2> QED BY <1>5, <2>1, Silent DEF Discovered, Fail, Fetching
<1>6. CASE DiscoveryFails
  BY <1>6, Silent DEF DiscoveryFails, Fail, Fetching, answers
<1>7. CASE ClientFails
  <2>1. phase = "build" /\ log' = log \o CertsWarning /\ Fetching'
    BY <1>7 DEF ClientFails, Fail, Fetching, answers
  <2> QED BY <2>1, WarningIsQuiet, QuietLogging
<1>8. CASE Request
  <2>1. phase = "build" /\ jwks_uri \in Uris \cup {Unparsable}
    BY <1>8 DEF Request, Fetching
  <2>2. Fetching'
    BY <1>8, <2>1 DEF Request, Fail, Fetching, answers
  <2>3. IsLog(CertsWarning) /\ \A line \in Range(CertsWarning) : Quiet(line)
    BY <2>1, WarningIsQuiet
  <2>4. IsLog(log)
    BY DEF Logged
  <2> DEFINE request == RequestLine
  <2>5. Quiet(StartupLine) /\ Quiet(request)
    BY <2>1, LinesAreQuiet DEF StartupLine, RequestLine
  <2>6. CASE log' = log \o CertsWarning \o <<StartupLine>>
    <3> DEFINE more == CertsWarning \o <<StartupLine>>
    <3>1. IsLog(<<StartupLine>>) /\ Range(<<StartupLine>>) = {StartupLine}
      BY DEF IsLog, Range
    <3>2. IsLog(more) /\ \A line \in Range(more) : Quiet(line)
      BY <2>3, <2>5, <3>1, Logging
    <3>3. log' = log \o more
      BY <2>3, <2>4, <2>6, <3>1, ConcatAssociative DEF IsLog
    <3> HIDE DEF more
    <3> QED BY <2>1, <2>2, <3>2, <3>3, QuietLogging
  <2>7. CASE log' = log \o CertsWarning \o <<StartupLine, request>>
    <3> HIDE DEF request
    <3> DEFINE more == CertsWarning \o <<StartupLine, request>>
    <3>1. IsLog(<<StartupLine, request>>) /\ Range(<<StartupLine, request>>) = {StartupLine, request}
      BY LoggingTwo
    <3>2. IsLog(more) /\ \A line \in Range(more) : Quiet(line)
      BY <2>3, <2>5, <3>1, Logging
    <3>3. log' = log \o more
      BY <2>3, <2>4, <2>7, <3>1, ConcatAssociative DEF IsLog
    <3> HIDE DEF more
    <3> QED BY <2>1, <2>2, <3>2, <3>3, QuietLogging
  <2> QED BY <1>8, <2>6, <2>7 DEF Request
<1>9. ASSUME NEW answer \in Heads, Respond(answer) PROVE Fetching' /\ Logged'
  <2>1. \A line \in Range(log) : line.event # "response"
    BY <1>9 DEF Respond, Logged
  <2>2. UNCHANGED log /\ Fetching'
    BY <1>9 DEF Respond, Fetching
  <2> QED BY <2>1, <2>2 DEF Logged, IsLog, Discreet, Shown
<1>10. ASSUME NEW received \in Bodies, Received(received) PROVE Fetching' /\ Logged'
  <2> DEFINE response == ResponseLine(received)
             completed == Line("completed", sanitize_uri(jwks_uri), <<>>)
  <2>1. /\ phase = "read" /\ body' = received /\ UNCHANGED <<input, head, jwks_uri>>
        /\ head \in Heads /\ jwks_uri \in Uris /\ Exchanging
    BY <1>10 DEF Received, Fetching, Exchanging
  <2>2. \/ \E kind, text : Abort(kind, text, <<response>>)
        \/ phase' = "serving" /\ log' = log \o <<response, completed>>
    BY <1>10 DEF Received
  <2>3. Quiet(completed)
    BY <2>1, LinesAreQuiet
  <2>4. response = ResponseLine(body')
    BY <2>1
  <2> HIDE DEF response, completed
  <2>5. CASE \E kind, text : Abort(kind, text, <<response>>)
    <3>1. IsLog(<<response>>) /\ Range(<<response>>) = {response}
      BY DEF IsLog, Range
    <3> QED BY <2>1, <2>4, <2>5, <3>1, AbortLogged
  <2>6. CASE phase' = "serving" /\ log' = log \o <<response, completed>>
    <3>1. /\ IsLog(<<response, completed>>)
          /\ Range(<<response, completed>>) = {response, completed}
      BY LoggingTwo
    <3> QED BY <2>1, <2>3, <2>4, <2>6, <3>1, EndLogged
  <2> QED BY <2>2, <2>5, <2>6
<1>11. CASE FetchFails \/ TimeOut
  <2>1. Exchanging /\ UNCHANGED <<input, jwks_uri, head>> /\ Abort("JwksFetch", Broken, <<>>)
    BY <1>11 DEF FetchFails, TimeOut, answers
  <2>2. IsLog(<<>>) /\ Range(<<>>) = {}
    BY DEF IsLog, Range
  <2> QED BY <2>1, <2>2, AbortLogged
<1>12. CASE Dropped
  BY <1>12, Silent DEF Dropped, Exchanging, Fetching, answers
<1>13. CASE RefreshNow
  <2>1. /\ phase = "serving" /\ phase' = "fetch" /\ head' = NoValue /\ UNCHANGED <<input, jwks_uri>>
        /\ log' = <<Line("refreshing", sanitize_uri(jwks_uri), <<>>), RequestLine>>
    BY <1>13 DEF RefreshNow
  <2>2. jwks_uri \in Uris
    BY <1>13 DEF RefreshNow, IInv, Served, Fetching
  <2>3. Fetching'
    BY <2>1, <2>2 DEF Fetching, Uris
  <2> DEFINE first == Line("refreshing", sanitize_uri(jwks_uri), <<>>)
             second == RequestLine
  <2>4. Quiet(first) /\ Quiet(second)
    BY <2>2, LinesAreQuiet DEF RequestLine
  <2>5. log' = <<first, second>>
    BY <2>1
  <2> HIDE DEF first, second
  <2>6. IsLog(log') /\ \A line \in Range(log') : Quiet(line)
    BY <2>4, <2>5, LoggingTwo
  <2> QED BY <2>3, <2>6 DEF Logged, IsLog, Quiet, Discreet, Shown
<1>14. CASE Tick \/ UNCHANGED vars
  <2>1. UNCHANGED <<input, phase, jwks_uri, head, body, log>>
    BY <1>14 DEF Tick, vars, answers
  <2> QED BY <2>1, Silent DEF Fetching
<1> QED
  BY <1>1, <1>2, <1>3, <1>4, <1>5, <1>6, <1>7, <1>8, <1>9, <1>10, <1>11, <1>12, <1>13, <1>14
     DEF Next

(* Where a line shows a URI or headers it shows no user info, no query and   *)
(* no value of a header README.md promises to redact, for any names,       *)
(* values and numbers of headers, in the construction and in every refresh *)
(* (jwt.rs:473-542).                                                       *)
THEOREM ExchangesAreSanitized == Spec => []HeadersAndUrisAreRedacted
<1>1. LInv => HeadersAndUrisAreRedacted
  <2> SUFFICES ASSUME LInv PROVE HeadersAndUrisAreRedacted
    OBVIOUS
  <2> DEFINE headers == IF head = NoValue THEN {} ELSE Range(head.headers)
             uris == {jwks_uri} \ {NoValue, Unparsable}
             secrets == Secrets
  <2>1. headers \subseteq Headers /\ uris \subseteq Uris
    BY DEF LInv, Fetching, Headers
  <2>2. secrets \subseteq SecretTexts
    <3>1. secrets = {h.value : h \in {g \in headers : Promised(g.name)}}
                      \cup {uri.user : uri \in uris} \cup {uri.query : uri \in uris}
      BY DEF Secrets
    <3> HIDE DEF headers, uris, secrets
    <3> QED BY <2>1, <3>1 DEF SecretTexts
  <2>3. \A i \in DOMAIN log : Shown(log[i]) \subseteq PublicTexts
    BY DEF LInv, Logged, Discreet, Range
  <2>4. \A i \in DOMAIN log : Shown(log[i]) \cap secrets = {}
    <3> HIDE DEF secrets
    <3> QED BY <2>2, <2>3, SecretsAssumption
  <2> QED BY <2>4 DEF HeadersAndUrisAreRedacted
<1> QED BY <1>1, InitLogged, NextIInv, NextLogged, PTL DEF Spec

(* The line about the response. *)
LEMMA ResponseMeaning ==
  ASSUME LInv, NEW i \in Responses
  PROVE  /\ head \in Heads /\ body \in Bodies
         /\ log[i].headers = sanitized_headers(head.headers)
         /\ log[i].preview = body_preview(body.text, PreviewLimit)
<1>1. log[i] \in Range(log) /\ log[i].event = "response"
  BY DEF Responses, Range
<1>2. head \in Heads /\ body \in Bodies /\ log[i] = ResponseLine(body)
  BY <1>1 DEF LInv, Logged
<1> QED BY <1>2, ResponseIsDiscreet

(* Every header of the response is in the log under its name, value for      *)
(* value and in order, and readable unless it had to be redacted or cannot *)
(* be shown (jwt.rs:494-542).                                              *)
THEOREM EveryHeaderIsVisible == Spec => []HeadersStayVisible
<1>1. LInv => HeadersStayVisible
  <2> SUFFICES ASSUME LInv, NEW i \in Responses,
                      NEW text \in {h.name.text : h \in Range(head.headers)}
               PROVE  LET places == {n \in DOMAIN head.headers : head.headers[n].name.text = text}
                          shown == Values(log[i].headers[text])
                      IN \E sent \in [DOMAIN shown -> places] :
                           /\ Range(sent) = places
                           /\ \A j, l \in DOMAIN shown : j < l => sent[j] < sent[l]
                           /\ \A j \in DOMAIN shown : LET header == head.headers[sent[j]] IN
                                \/ shown[j] = header.value
                                \/ shown[j] = "<non-utf8>" /\ ~header.visible
                                \/ shown[j] = "<redacted>" /\ is_sensitive_header_name(header.name)
    BY DEF HeadersStayVisible
  <2> DEFINE headers == head.headers
             places == {n \in DOMAIN headers : headers[n].name.text = text}
             shown == Values(log[i].headers[text])
  <2>1. head \in Heads /\ log[i].headers = sanitized_headers(headers)
    BY ResponseMeaning
  <2>2. headers \in Seq(Range(headers))
    BY <2>1, AnswersAssumption
  <2>3. Shows(shown, headers, Len(headers), text)
    <3> HIDE DEF headers
    <3> QED BY <2>1, <2>2, EveryHeaderIsShown DEF headers
  <2>4. places = Places(headers, Len(headers), text)
    BY <2>2 DEF Places
  <2>5. \A header : \/ sanitized_header_value(header) = header.value
                    \/ sanitized_header_value(header) = "<non-utf8>" /\ ~header.visible
                    \/ /\ sanitized_header_value(header) = "<redacted>"
                       /\ is_sensitive_header_name(header.name)
    BY DEF sanitized_header_value
  <2> HIDE DEF headers, places, shown
  <2>6. \E sent \in [DOMAIN shown -> places] :
          /\ Range(sent) = places
          /\ \A j, l \in DOMAIN shown : j < l => sent[j] < sent[l]
          /\ \A j \in DOMAIN shown :
               \/ shown[j] = headers[sent[j]].value
               \/ shown[j] = "<non-utf8>" /\ ~headers[sent[j]].visible
               \/ shown[j] = "<redacted>" /\ is_sensitive_header_name(headers[sent[j]].name)
    BY <2>3, <2>4, <2>5 DEF Shows
  <2> QED BY <2>6 DEF headers, places, shown
<1> QED BY <1>1, InitLogged, NextIInv, NextLogged, PTL DEF Spec

(* The preview in the log is the longest beginning of the body that ends     *)
(* with a character and fits the limit, for every body and every limit     *)
(* (jwt.rs:550-567).                                                       *)
THEOREM PreviewIsAsLongAsItMayBe == Spec => []PreviewIsLongest
<1>1. LInv => PreviewIsLongest
  <2> SUFFICES ASSUME LInv, NEW i \in Responses
               PROVE  LET shown == log[i].preview.preview IN
                      /\ IsPrefix(shown, body.text)
                      /\ Bytes(shown) <= PreviewLimit
                      /\ \A n \in (Len(shown) + 1)..Len(body.text) :
                           Bytes(SubSeq(body.text, 1, n)) > PreviewLimit
                      /\ log[i].preview.truncated <=> shown # body.text
    BY DEF PreviewIsLongest
  <2>1. body.text \in Seq(Nat \ {0}) /\ PreviewLimit \in Nat
        /\ log[i].preview = body_preview(body.text, PreviewLimit)
    BY ResponseMeaning, AnswersAssumption
  <2> QED BY <2>1, PreviewMeaning
<1> QED BY <1>1, InitLogged, NextIInv, NextLogged, PTL DEF Spec

==============================================================================
