------------------------------- MODULE Startup -------------------------------
(***************************************************************************)
(* How an application comes to its security layer: the configuration is    *)
(* loaded (src/config.rs) and the validator built from it (src/jwt.rs),    *)
(* which may take an exchange with the issuer and takes one with the       *)
(* server of the JWK set, repeated by every refresh and logged on the way. *)
(*                                                                         *)
(* Steps are the stretches of code between two awaits.  JwksCache shows    *)
(* who refreshes when, and fetch_keys as one exchange; here a refresh may  *)
(* come at any time, one after the other, and fetch_keys has its parts.    *)
(***************************************************************************)
EXTENDS Configuration, HttpLogging

CONSTANTS
  Inputs,       \* what the application starts from, see Init
  Documents,    \* discovery documents an issuer may answer with
  Heads,        \* status and headers a server may answer with
  Bodies,       \* bodies it may send, as [text, secret, jwk_set]: secret are the
                \* places in the text of what is not public, the k of an "oct" key
  NoJwkSet,     \* jwk_set of a body that is not one
  Unsupported,  \* key material the library rejects
  PreviewLimit  \* how many bytes of a body are logged: 4096

(* from_jwks_uri: the defaults for all the rest. *)
jwks_uri_config(given) ==
  [DefaultConfig EXCEPT !.jwk_set_uri = given.uri, !.issuer_uri = given.issuer]

(* An input is refused, or holds keys, or makes a configuration. *)
Configures(i) == i.kind # "jwk_set" /\ (i.kind = "yaml" => readable(i.value))
config_of(i) ==
  CASE i.kind = "yaml" -> read_config(i.value)
    [] i.kind = "config" -> i.value
    [] i.kind = "jwks_uri" -> jwks_uri_config(i.value)

(* The URI of from_jwks_uri is no Option. *)
ASSUME InputsAssumption ==
  \A i \in Inputs :
    /\ i.kind \in {"yaml", "config", "jwks_uri", "jwk_set"}
    /\ i.kind = "yaml" /\ i.value # Malformed => TypedText(i.value)
    /\ i.kind = "config" => TypedConfig(i.value)
    /\ i.kind = "jwks_uri" => i.value.uri # NoValue

(* serde_yaml takes what it has written for YAML, and its methods for such. *)
ASSUME WritingAssumption ==
  \A i \in Inputs : Configures(i) =>
    /\ to_yaml(config_of(i)) # Malformed
    /\ \A endpoint \in config_of(i).allowed_endpoints \cup Range(config_of(i).secure_endpoints) :
         write_method(endpoint.method) # NoMethod

(* Headers are a list; a character takes a byte at least. *)
ASSUME AnswersAssumption ==
  /\ \A answer \in Heads : answer.headers \in Seq(Range(answer.headers))
  /\ \A received \in Bodies : received.text \in Seq(Nat \ {0})
  /\ PreviewLimit \in Nat

VARIABLES
  input,      \* [kind, value]: a YAML text, a SecurityConfig, a URI or a JWK set
  phase,      \* where the construction is
  error,      \* the error it, or the last refresh, ended with
  config,     \* the SecurityConfig
  jwks_uri,   \* where the JWK set is fetched from, by refreshes too
  discovered, \* the discovery document, once there is one
  refreshing, \* whether it is refresh_now that awaits fetch_keys
  timer,      \* how long the exchange with the JWKS server has lasted
  head, body, \* what that server answered
  validator,  \* the validator, once there is one
  (* History of the construction or the last refresh, read by the properties only. *)
  asked,      \* the requests that have been sent
  log         \* the lines that have been logged

vars == <<input, phase, error, config, jwks_uri, discovered, refreshing, timer, head, body,
          validator, asked, log>>
answers == <<discovered, head, body>>

Keys == INSTANCE JwtKeys WITH None <- NoValue, Issuer <- NoValue

Line(event, uri, headers) ==
  [event |-> event, uri |-> uri, headers |-> headers, error |-> <<>>,
   preview |-> [preview |-> <<>>, truncated |-> FALSE]]
Discovery(issuer) == [to |-> issuer, what |-> "openid-configuration"]
JwkSet(uri) == [to |-> uri, what |-> "jwks"]

Init ==
  /\ input \in Inputs
  /\ phase = "start"
  /\ error = "none"
  /\ config = NoValue /\ jwks_uri = NoValue
  /\ discovered = NoValue /\ head = NoValue /\ body = NoValue
  /\ refreshing = FALSE /\ timer = 0
  /\ validator = NoValue
  /\ asked = <<>> /\ log = <<>>

(* The construction fails before it fetches. *)
Fail(kind) ==
  /\ phase' = "failed"
  /\ error' = kind
  /\ UNCHANGED validator

------------------------------------------------------------------------------
(* from_yaml_str. *)
Load ==
  /\ phase = "start" /\ input.kind = "yaml"
  /\ LET loaded == from_yaml_str(input.value) IN
       \/ /\ loaded.error = "none"
          /\ config' = loaded.config
          /\ phase' = "from_config"
          /\ UNCHANGED <<error, validator>>
       \/ /\ loaded.error # "none"
          /\ Fail(loaded.error)
          /\ UNCHANGED config
  /\ UNCHANGED <<input, jwks_uri, refreshing, timer, answers, asked, log>>

(* The application fills in a SecurityConfig itself; nobody validates it.   *)
Fill ==
  /\ phase = "start" /\ input.kind = "config"
  /\ config' = input.value
  /\ phase' = "from_config"
  /\ UNCHANGED <<input, error, jwks_uri, refreshing, timer, answers, validator, asked, log>>

FromJwksUri ==
  /\ phase = "start" /\ input.kind = "jwks_uri"
  /\ config' = jwks_uri_config(input.value)
  /\ jwks_uri' = input.value.uri
  /\ phase' = "build"
  /\ UNCHANGED <<input, error, refreshing, timer, answers, validator, asked, log>>

(* from_jwk_set: a validator that never asks anybody. *)
FromJwkSet ==
  /\ phase = "start" /\ input.kind = "jwk_set"
  /\ LET keys == Keys!jwk_set_to_keys(input.value) IN
       \/ /\ input.value # NoJwkSet /\ keys # {}
          /\ validator' = [keys |-> keys, issuer |-> NoValue, remote |-> NoValue]
          /\ phase' = "serving"
          /\ UNCHANGED error
       \/ input.value # NoJwkSet /\ keys = {} /\ Fail("NoMatchingKey")
       \/ input.value = NoJwkSet /\ Fail("JwksParse")
  /\ UNCHANGED <<input, config, jwks_uri, refreshing, timer, answers, asked, log>>

(* Mutant: the issuer is asked even if there is a jwk-set-uri. *)
from_config_discovers ==
  /\ phase = "from_config"
  /\ \/ /\ config.issuer_uri # NoValue
        /\ phase' = "discover"
        /\ asked' = Append(asked, Discovery(config.issuer_uri))
        /\ UNCHANGED <<error, jwks_uri, validator>>
     \/ /\ config.issuer_uri = NoValue /\ config.jwk_set_uri # NoValue
        /\ jwks_uri' = config.jwk_set_uri
        /\ phase' = "build"
        /\ UNCHANGED <<error, asked, validator>>
     \/ /\ config.issuer_uri = NoValue /\ config.jwk_set_uri = NoValue
        /\ Fail("MissingJwksUri")
        /\ UNCHANGED <<jwks_uri, asked>>
  /\ UNCHANGED <<input, config, refreshing, timer, answers, log>>

(* from_config up to the first await: jwk-set-uri, else the issuer is asked *)
(* for it, else there is nobody to ask.                                    *)
from_config ==
  /\ phase = "from_config"
  /\ \/ /\ config.jwk_set_uri # NoValue
        /\ jwks_uri' = config.jwk_set_uri
        /\ phase' = "build"
        /\ UNCHANGED <<error, asked, validator>>
     \/ /\ config.jwk_set_uri = NoValue /\ config.issuer_uri # NoValue
        /\ phase' = "discover"
        /\ asked' = Append(asked, Discovery(config.issuer_uri))
        /\ UNCHANGED <<error, jwks_uri, validator>>
     \/ /\ config.jwk_set_uri = NoValue /\ config.issuer_uri = NoValue
        /\ Fail("MissingJwksUri")
        /\ UNCHANGED <<jwks_uri, asked>>
  /\ UNCHANGED <<input, config, refreshing, timer, answers, log>>

(* discover_jwks_uri once the issuer has answered; its status is not looked  *)
(* at.  NoValue stands for a body that is no discovery document.           *)
Discovered(document) ==
  /\ phase = "discover"
  /\ discovered' = document
  /\ \/ /\ document # NoValue /\ document.jwks_uri # NoValue
        /\ jwks_uri' = document.jwks_uri
        /\ phase' = "build"
        /\ UNCHANGED <<error, validator>>
     \/ /\ document # NoValue /\ document.jwks_uri = NoValue
        /\ Fail("MissingJwksUri")
        /\ UNCHANGED jwks_uri
     \/ /\ document = NoValue
        /\ Fail("DiscoveryFetch")
        /\ UNCHANGED jwks_uri
  /\ UNCHANGED <<input, config, refreshing, timer, head, body, asked, log>>

(* The issuer cannot be reached. *)
DiscoveryFails ==
  /\ phase = "discover"
  /\ Fail("DiscoveryFetch")
  /\ UNCHANGED <<input, config, jwks_uri, refreshing, timer, answers, asked, log>>

------------------------------------------------------------------------------
(* from_jwks_uri_with_options and fetch_keys. *)

(* The request carries the user info of the URI in a header of its own.     *)
request_headers(uri) ==
  IF uri.user = NoValue THEN <<>>
  ELSE <<[name |-> [text |-> "authorization", words |-> {"authorization"}],
          value |-> uri.user, visible |-> TRUE]>>

(* What a reqwest::Error that carries the URL shows of it: all but the user  *)
(* info.                                                                   *)
url_of_error(uri) == <<uri.scheme, uri.host, uri.path, uri.query>>

CertsWarning ==
  IF config.jwks_accept_invalid_certs
    THEN <<Line("verification disabled", sanitize_uri(jwks_uri), <<>>)>> ELSE <<>>

StartupLine == Line("startup", sanitize_uri(jwks_uri), <<>>)

RequestLine ==
  Line("request", sanitize_uri(jwks_uri), sanitized_headers(request_headers(jwks_uri)))

(* The client cannot be built. *)
ClientFails ==
  /\ phase = "build"
  /\ log' = log \o CertsWarning
  /\ Fail("JwksFetch")
  /\ UNCHANGED <<input, config, jwks_uri, refreshing, timer, answers, asked>>

(* Up to the await on the response: the request is built, unless the URI is *)
(* none, and sent.                                                         *)
Request ==
  /\ phase = "build"
  /\ \/ /\ jwks_uri = Unparsable
        /\ log' = log \o CertsWarning \o <<StartupLine>>
        /\ Fail("JwksFetch")
        /\ UNCHANGED asked
     \/ /\ jwks_uri # Unparsable
        /\ log' = log \o CertsWarning \o <<StartupLine, RequestLine>>
        /\ asked' = Append(asked, JwkSet(jwks_uri))
        /\ phase' = "fetch"
        /\ UNCHANGED <<error, validator>>
  /\ timer' = 0
  /\ UNCHANGED <<input, config, jwks_uri, refreshing, answers>>

(* refresh_now up to the same await, if there is a server to ask. *)
RefreshNow ==
  /\ phase = "serving" /\ validator.remote # NoValue
  /\ log' = <<Line("refreshing", sanitize_uri(jwks_uri), <<>>), RequestLine>>
  /\ asked' = <<JwkSet(jwks_uri)>>
  /\ phase' = "fetch" /\ refreshing' = TRUE
  /\ timer' = 0 /\ head' = NoValue /\ body' = NoValue
  /\ UNCHANGED <<input, error, config, jwks_uri, discovered, validator>>

(* fetch_keys returns an error, which shows text: the construction ends with *)
(* it; refresh_now logs it and leaves the keys alone.                      *)
Abort(kind, text, lines) ==
  /\ error' = kind
  /\ \/ /\ ~refreshing
        /\ phase' = "failed"
        /\ log' = log \o lines
     \/ /\ refreshing
        /\ phase' = "serving"
        /\ log' = log \o lines \o
             <<[Line("refresh failed", sanitize_uri(jwks_uri), <<>>) EXCEPT !.error = text]>>
  /\ refreshing' = FALSE
  /\ UNCHANGED validator

(* Status and headers arrive. *)
Respond(answer) ==
  /\ phase = "fetch"
  /\ head' = answer
  /\ phase' = "read"
  /\ UNCHANGED <<input, error, config, jwks_uri, discovered, refreshing, timer, body, validator,
                 asked, log>>

ResponseLine(received) ==
  [Line("response", <<>>, sanitized_headers(head.headers))
     EXCEPT !.preview = body_preview(received.text, PreviewLimit)]

Exchanging == phase \in {"fetch", "read"}

(* Mutant: the status is not looked at. *)
BadStatusIgnored == FALSE

(* error_for_status_ref. *)
BadStatus == ~head.success

(* The body arrives: it is logged, then the status decides, then the body.  *)
Received(received) ==
  /\ phase = "read"
  /\ body' = received
  /\ LET keys == Keys!jwk_set_to_keys(received.jwk_set)
         refuse(kind, text) == Abort(kind, text, <<ResponseLine(received)>>)
     IN
       \/ BadStatus /\ refuse("JwksFetch", url_of_error(jwks_uri))
       \/ ~BadStatus /\ received.jwk_set = NoJwkSet /\ refuse("JwksParse", <<>>)
       \/ ~BadStatus /\ received.jwk_set # NoJwkSet /\ keys = {} /\ refuse("NoMatchingKey", <<>>)
       \/ /\ ~BadStatus /\ received.jwk_set # NoJwkSet /\ keys # {}
          /\ log' = log \o <<ResponseLine(received), Line("completed", sanitize_uri(jwks_uri), <<>>)>>
          /\ validator' = IF refreshing THEN [validator EXCEPT !.keys = keys]
               ELSE [keys |-> keys, issuer |-> config.issuer_uri, remote |-> jwks_uri]
          /\ phase' = "serving"
          /\ error' = "none" /\ refreshing' = FALSE
  /\ UNCHANGED <<input, config, jwks_uri, discovered, timer, head, asked>>

(* What the error shows if the exchange ends here: one that comes while the *)
(* body is read carries no URL.                                            *)
Broken == IF phase = "fetch" THEN url_of_error(jwks_uri) ELSE <<>>

(* The exchange breaks off. *)
FetchFails ==
  /\ Exchanging
  /\ Abort("JwksFetch", Broken, <<>>)
  /\ UNCHANGED <<input, config, jwks_uri, timer, answers, asked>>

(* Mutant: the timeout ends with the arrival of the status. *)
TimeOutConnect ==
  /\ phase = "fetch"
  /\ timer >= config.jwks_request_timeout
  /\ Abort("JwksFetch", Broken, <<>>)
  /\ UNCHANGED <<input, config, jwks_uri, timer, answers, asked>>

(* The timeout of the client covers the whole exchange. *)
TimeOut ==
  /\ Exchanging
  /\ timer >= config.jwks_request_timeout
  /\ Abort("JwksFetch", Broken, <<>>)
  /\ UNCHANGED <<input, config, jwks_uri, timer, answers, asked>>

(* The future of the caller that refreshes is dropped. *)
Dropped ==
  /\ Exchanging /\ refreshing
  /\ phase' = "serving" /\ refreshing' = FALSE
  /\ UNCHANGED <<input, error, config, jwks_uri, timer, answers, validator, asked, log>>

Tick ==
  /\ Exchanging
  /\ timer < config.jwks_request_timeout
  /\ timer' = timer + 1
  /\ UNCHANGED <<input, phase, error, config, jwks_uri, refreshing, answers, validator, asked, log>>

------------------------------------------------------------------------------
Next ==
  \/ Load \/ Fill \/ FromJwksUri \/ FromJwkSet
  \/ from_config
  \/ \E document \in Documents \cup {NoValue} : Discovered(document)
  \/ DiscoveryFails
  \/ ClientFails \/ Request \/ RefreshNow
  \/ \E answer \in Heads : Respond(answer)
  \/ \E received \in Bodies : Received(received)
  \/ FetchFails \/ TimeOut \/ Dropped \/ Tick

(* What the application and the runtime do by themselves: nothing is        *)
(* assumed of the issuer and of the JWKS server.                           *)
Fairness ==
  /\ WF_vars(Load \/ Fill \/ FromJwksUri \/ FromJwkSet)
  /\ WF_vars(from_config)
  /\ WF_vars(Request)
  /\ WF_vars(Tick)
  /\ WF_vars(TimeOut)

Spec == Init /\ [][Next]_vars /\ Fairness

------------------------------------------------------------------------------
Ended == phase \in {"serving", "failed"}

(* The keys are usable ones, and of the set the application gave or of the  *)
(* last answer, a success, of the jwk-set-uri or else of the URI the issuer *)
(* named; no YAML text with a path that lacks its slash gets that far.     *)
Earned ==
  /\ validator.keys # {}
  /\ \A key \in validator.keys : key.decoding_key # Unsupported
  /\ input.kind = "jwk_set" => validator.keys \subseteq input.value
  /\ input.kind # "jwk_set" =>
       /\ head.success
       /\ validator.keys \subseteq body.jwk_set
       /\ validator.remote = IF config.jwk_set_uri # NoValue THEN config.jwk_set_uri
                             ELSE discovered.jwks_uri
       /\ validator.issuer = config.issuer_uri
  /\ input.kind = "yaml" => Patterns(config) \subseteq Rooted

(* The layer exists only after a first successful fetch (README.md:94-96),  *)
(* and only a fetch as successful as that replaces its keys (jwt.rs:241).  *)
ServingIsEarned ==
  [][(phase' = "serving" /\ ~refreshing) \/ validator' # validator => Earned']_vars

(* Nobody is asked but whom the configuration names, or the issuer it names: *)
(* each once and in this order by the construction, the issuer not again by *)
(* a refresh, and nobody at all for a text that is refused.  Where the      *)
(* servers redirect a request to is not modelled.                          *)
OnlyTheConfiguredAreAsked ==
  asked # <<>> =>
    /\ error \notin {"Yaml", "InvalidPath"}
    /\ IF config.jwk_set_uri # NoValue
         THEN asked = <<JwkSet(config.jwk_set_uri)>>
         ELSE \/ asked = <<Discovery(config.issuer_uri)>>
              \/ /\ discovered # NoValue
                 /\ \/ asked = <<Discovery(config.issuer_uri), JwkSet(discovered.jwks_uri)>>
                    \/ /\ refreshing \/ phase = "serving"
                       /\ asked = <<JwkSet(discovered.jwks_uri)>>

(* Header names that README.md:115-118 promises to redact. *)
Promised(name) ==
  name.words \cap {"token", "secret", "password", "credential", "authorization", "cookie",
                   "api-key", "session", "jwt", "bearer", "csrf", "xsrf"} # {}

(* The texts that are secret, and those that anybody may see. *)
Uris ==
  ({config_of(i).jwk_set_uri : i \in {j \in Inputs : Configures(j)}}
     \cup {document.jwks_uri : document \in Documents}) \ {NoValue, Unparsable}
Headers == UNION {Range(answer.headers) : answer \in Heads}
SecretTexts ==
  {h.value : h \in {g \in Headers : Promised(g.name)}}
    \cup UNION {{uri.user, uri.query} : uri \in Uris}
PublicTexts ==
  {"<redacted>", "<non-utf8>", "<invalid-jwks-uri>"}
    \cup {h.value : h \in {g \in Headers : ~Promised(g.name)}}
    \cup UNION {{uri.scheme, uri.host, uri.path} : uri \in Uris}

(* No secret happens to be the text of something else. *)
ASSUME SecretsAssumption == SecretTexts \cap PublicTexts = {}

(* The values the log shows of one header, and all that a line shows. *)
Values(entry) == IF entry.kind = "string" THEN <<entry.text>> ELSE entry.items
Shown(line) == Range(line.uri) \cup UNION {Range(Values(entry)) : entry \in Range(line.headers)}

(* The user info and the query of the URI, and the values of the headers    *)
(* whose names the README promises to redact.                              *)
Secrets ==
  LET headers == IF head = NoValue THEN {} ELSE Range(head.headers)
      uris == {jwks_uri} \ {NoValue, Unparsable}
  IN {h.value : h \in {g \in headers : Promised(g.name)}}
       \cup {uri.user : uri \in uris} \cup {uri.query : uri \in uris}

(* Where the log shows URIs and headers, of the construction and of every   *)
(* refresh, it shows no secret, however often a header is repeated         *)
(* (jwt.rs:473-542).  What errors and bodies show is another matter: see   *)
(* NoSecretIsLogged.                                                       *)
HeadersAndUrisAreRedacted ==
  \A i \in DOMAIN log : Shown(log[i]) \cap Secrets = {}

(* "The crate does not log [...] private keys, credentials, or secrets"     *)
(* (README.md:121-123), wherever in a line.  The code does: the warning of a *)
(* refresh that failed shows the error with its URL, the query of the URI   *)
(* included (jwt.rs:262), and the preview the key of an "oct" JWK           *)
(* (jwt.rs:437).                                                           *)
NoSecretIsLogged ==
  \A i \in DOMAIN log :
    /\ (Shown(log[i]) \cup Range(log[i].error)) \cap (Secrets \ {NoValue}) = {}
    /\ log[i].event = "response" => body.secret \cap DOMAIN log[i].preview.preview = {}

Responses == {i \in DOMAIN log : log[i].event = "response"}

(* Operators can tell which headers were sent (README.md:118-119): for every *)
(* name the log has one entry per value, in the order they came, and what   *)
(* is not redacted is the value itself.                                    *)
HeadersStayVisible ==
  \A i \in Responses : \A text \in {h.name.text : h \in Range(head.headers)} :
    LET places == {n \in DOMAIN head.headers : head.headers[n].name.text = text}
        shown == Values(log[i].headers[text])
    IN \E sent \in [DOMAIN shown -> places] :
         /\ Range(sent) = places
         /\ \A j, l \in DOMAIN shown : j < l => sent[j] < sent[l]
         /\ \A j \in DOMAIN shown : LET header == head.headers[sent[j]] IN
              \/ shown[j] = header.value
              \/ shown[j] = "<non-utf8>" /\ ~header.visible
              \/ shown[j] = "<redacted>" /\ is_sensitive_header_name(header.name)

(* The preview is the longest run of whole characters from the start of the *)
(* body that fits the limit (jwt.rs:550-567), and says when it is not all. *)
PreviewIsLongest ==
  \A i \in Responses :
    LET shown == log[i].preview.preview IN
    /\ IsPrefix(shown, body.text)
    /\ Bytes(shown) <= PreviewLimit
    /\ \A n \in (Len(shown) + 1)..Len(body.text) :
         Bytes(SubSeq(body.text, 1, n)) > PreviewLimit
    /\ log[i].preview.truncated <=> shown # body.text

(* Methods of requests, other-endpoints as the README has it, and an        *)
(* endpoint whose method is in upper case, for the properties.             *)
RequestMethods == [name : {"GET", "PUT"}, lower : BOOLEAN]
Otherwise == [allow |-> PermitAll, deny |-> DenyAll, authenticated |-> Authenticated]
InUpperCase(endpoint) == [endpoint EXCEPT !.method.lower = FALSE]

(* Every rule of a YAML text governs the requests it names, those in upper  *)
(* case however it writes its method; of secure endpoints the first that    *)
(* applies.  The rest is as other-endpoints says: shut unless it is given.  *)
(* Roles that are not given admit nobody.                                  *)
WrittenRulesGovern ==
  input.kind = "yaml" /\ config # NoValue =>
    LET yaml == input.value
        Has(field, item) == field \in DOMAIN yaml /\ item
    IN \A path \in {match[2] : match \in Matches}, method \in RequestMethods :
         LET named(given) == /\ given.method.name = method.name /\ ~method.lower
                             /\ path_matches(given.path, path)
             denied == Has("blacklist", Listed(yaml.blacklist, path))
             open == \/ Has("whitelist", Listed(yaml.whitelist, path))
                     \/ Has("allowed_endpoints", \E given \in yaml.allowed_endpoints : named(given))
             secured == {i \in DOMAIN config.secure_endpoints : named(yaml.secure_endpoints[i])}
             required == requirement(config, method, path)
         IN CASE denied -> required = DenyAll
              [] ~denied /\ open -> required = PermitAll
              [] ~denied /\ ~open /\ secured # {} ->
                   \E i \in secured :
                     /\ \A j \in secured : i <= j
                     /\ required = AnyAuthority(IF "roles" \in DOMAIN yaml.secure_endpoints[i]
                                                  THEN yaml.secure_endpoints[i].roles ELSE {})
              [] OTHER ->
                   required = IF "other_endpoints" \in DOMAIN yaml
                                THEN Otherwise[yaml.other_endpoints] ELSE DenyAll

(* A configuration that was loaded can be saved and loaded again without a   *)
(* change.  One filled in by the application loads only if its paths are    *)
(* valid; it loses fractions of seconds, and a method it has in lower case  *)
(* comes back in upper case, so that its rule governs other requests.      *)
SavedConfigLoads ==
  config # NoValue =>
    LET again == from_yaml_str(to_yaml(config)) IN
    /\ input.kind = "yaml" => again = Ok(config)
    /\ again.error = IF Patterns(config) \subseteq Rooted THEN "none" ELSE "InvalidPath"
    /\ again.error = "none" => \A field \in DOMAIN config :
         CASE field \in Durations ->
                again.config[field] \in (config[field] - Second + 1)..config[field]
           [] field = "allowed_endpoints" ->
                again.config[field] = {InUpperCase(e) : e \in config[field]}
           [] field = "secure_endpoints" ->
                again.config[field] = [i \in DOMAIN config[field] |-> InUpperCase(config[field][i])]
           [] OTHER -> again.config[field] = config[field]

(* The construction comes to an end, and every refresh too, unless the      *)
(* issuer never answers: discovery has no timeout (jwt.rs:400), every other *)
(* wait ends by itself.                                                    *)
WaitsOnlyForDiscovery == []<>Ended \/ <>[](phase = "discover")

==============================================================================
