# Formal models of opentmf-rbac-security

TLA+ models of the crate in `src/`: a tower layer that authenticates HTTP
requests with JWTs, checked against a cached JWKS, and authorizes them by path
and role. The models are checked with TLC on small instances; the theorems are
checked with TLAPS for every value of the constants.

## The system

| Part | Code | State it keeps | Operations | Talks to |
|---|---|---|---|---|
| Validator and JWKS cache | `jwt.rs:35-343` | `JwksState` (keys, `last_success_at`, `last_error`) behind an `RwLock`; `refresh_lock`, a fair async mutex | `validate`, `validate_async`, `refresh_now`, `health`, the first fetch, the background task | the identity provider over HTTP; called by the middleware and by the application |
| Key selection | `jwt.rs:345-379`, `450-471` | none | `validate_with_keys`, `jwk_set_to_keys` | `jsonwebtoken` |
| Construction and discovery | `jwt.rs:69-190`, `394-407` | none of its own | `from_config` and the other constructors, `discover_jwks_uri` | the issuer over HTTP |
| Policy | `policy.rs:17-98` | the configuration, never changed | `requirement`, `authorize` | path matching |
| Path matching | `policy.rs:101-185` | none | `path_matches` | |
| Claims and principal | `claims.rs`, `principal.rs` | none | `claim_value`, `claim_as_string(_list)`, `from_claims`, `has_any_authority` | |
| Middleware | `axum.rs` | per request: the future of `call` | `poll_ready`, `call` | policy, bearer token, validator, principal, inner service |
| Configuration | `config.rs` | none | loading and saving of YAML, `validate` | the policy and the constructors take what it gives |
| Logging helpers | `jwt.rs:473-567` | none | redaction of URIs and headers, body preview | |

A request runs through `call` (`axum.rs:73-159`): the policy says what is
required; where that is a principal, the bearer token goes to `validate_async`,
the claims become a principal and the policy decides. All requests share one
validator. `validate_async` takes its verdict from the cached keys; for a kid
that is not cached it calls `refresh_now`, which waits for `refresh_lock`,
fetches the JWKS and replaces the cache, and then checks the token once more.
The background task calls the same `refresh_now` every `jwks-refresh-interval`.

### What is hard, and what makes each part correct

- **Cache and refresh.** Refreshes of many requests, of the task and of the
  application overlap; every one waits twice (lock, HTTP) and its future may be
  dropped at either wait; fetches fail, time out, or bring a set without usable
  keys; the provider rotates its keys meanwhile. Correct means: the cache never
  goes back, is never emptied, and no key verifies tokens long after its
  withdrawal; a known key is found; no call hangs, nor waits longer than the others
  can make it; a failing provider does not
  stop the task; `health` tells what validation does.
- **Middleware.** It asks the policy before and after a wait during which the
  keys change. Correct means: what reaches the inner service is entitled to, by
  rules and keys of that very moment; 401 and 403 are told apart; every call of
  the validator ends, and with it the request.
- **Policy and path matching.** The order of the lists decides, entries overlap,
  and `segment_matches` is a greedy loop while `**` branches. Correct means: the
  first rule that applies governs; a match is one the wildcards really allow;
  more authorities never mean less access.
- **Claims.** Tokens hold values of any shape at any name. Correct means: the
  first usable source names the principal; authorities are exactly the texts of
  the configured claim.
- **Construction and configuration.** Several inputs, two servers of which the
  first has no timeout, answers that fail at any stage. Correct means: a layer
  exists only after a success; nobody is asked but whom the configuration names;
  the rules that were written govern; what was loaded can be saved and loaded
  again; every wait but that for discovery ends.
- **Logging.** Headers repeat, values may be no text, a body is cut at a byte.
  Correct means: nothing secret is shown, and everything else is. Errors and
  bodies are logged without redaction.

`PROJECT.json` lists the hazards one by one, with their lines.

## The modules

| Module | Models | Uses |
|---|---|---|
| `JwtKeys` | key selection and verification, as operators over sets of keys | |
| `JwksCache` | validator, refresh, task, provider, clock | `JwtKeys` |
| `ValidatorContract` | the abstract specification of the validator | `JwtKeys` |
| `JwksCacheRefinement` | the mapping from `JwksCache` to `ValidatorContract` | both |
| `PathMatching` | `path_matches`, and a reference definition of it | |
| `Claims` | claims and principal | |
| `Policy` | `requirement` and `authorize` | `Claims` |
| `Middleware` | the tower service over validator, policy and claims | `JwksCache`, `Policy` |
| `HttpLogging` | what is logged of an exchange | |
| `Configuration` | `SecurityConfig`, its reading, writing and validation | `Policy` |
| `Startup` | from an input of the application to a validator, with discovery, first fetch and refreshes | `Configuration`, `HttpLogging`, `JwtKeys` |
| `Inductions` | induction and recursion, for the proofs: no code | |
| `JwksCacheProofs`, `JwksCacheTimingProofs`, `JwksCacheRefinementProofs`, `MiddlewareProofs`, `StartupProofs`, `ClaimsProofs`, `PathMatchingProofs` | theorems | the modules they are named for (the last two: `MCClaims`, `MCPathMatching`); all but the first three `Inductions` |
| `MCJwksCache`, `MCMiddleware`, `MCStartup`, `MCPathMatching`, `MCClaims` | the values of the constants for TLC; the last two evaluate pure functions on bounded inputs and state what they must return | |

Definitions whose comment begins with "Mutant:" are versions of the definition
below them as a plausible bug would make it. No specification uses them; they
exist to see that a property fails when its code is wrong.

### JwksCache

| Variable | In the code |
|---|---|
| `keys`, `age`, `last_error` | `JwksState`; `age` is `last_success_at.elapsed()` |
| `holder`, `queue` | `refresh_lock` with its fair queue of waiters |
| `pc`, `timer`, `resp` | where each future is suspended, how long its sleep or exchange has lasted, what the provider answered |
| `call`, `result` | the call each caller makes, what it got |
| `published`, `rev` | the provider's JWK set and how often it was replaced |
| `keysRev`, `gone`, `absent` | history for the properties: where the keys come from, how long a key has been withdrawn, whether the provider lacked a call's kid |

An action is the code between two awaits. `validate` is one action (`Validate`);
`validate_async` is `ValidateAsync` up to its wait and `Retry` after it;
`refresh_now` is `EnterRefresh` (up to the lock), `AcquireLock` (lock granted,
request sent), and `RefreshOk` or `RefreshErr` (response in, state written, lock
released, caller resumed). `Refreshed` says how each kind of caller goes on. The
first fetch is `BootOk`/`BootErr`, the timer of the task `Wake`. `Cancel` drops a
caller's future at a wait. `Serve` is the moment at which the provider composes
its answer: it may be long before the client has it, so a set may be outdated
when it is installed. The state guard of `JwksState` is never held over an await,
hence what happens under it is atomic.

Time: `Tick` advances all running times. They count up to `Horizon`, above every
threshold, so time goes on for ever in a finite model. `Overdue` is the one
assumption on scheduling: before the clock moves, a timer that ran out has its
effect, a free lock goes to the head of its queue, and the task does not linger
between two awaits. Callers may linger as long as they like. Without this
assumption no bound on the age of anything could hold.

An `Err(NoMatchingKey)` of `jwk_set_to_keys` and one of `validate_with_keys` are
the same variant in the code and the same verdict here; a caller of
`refresh_now` may get the former. `JwtError::Header` stands for a token that
`decode_header` rejects.

### ValidatorContract

No lock, queue, exchange or clock: a call is answered in one step, by the
verdict the cache gives in that step (or a failed refresh); the cache may at any
time move forward to a published set with a usable key, and at any time expire.
`NoMatchingKey` answers `validate_async` only if the provider lacked the kid
during the call. `JwksCacheRefinement` maps `stale` to the test of
`ensure_not_stale` and `ready` to "the first fetch succeeded".

### Middleware

`EXTENDS JwksCache` and adds the configuration, the request each caller handles
and its response. `Permit`, `Deny`, `Challenge` are the early returns of `call`;
`Authenticate` starts `ValidateAsync` of `JwksCache`; `Proceed` takes a step of
`JwksCache`'s `Underway` and, with `Conclude`, answers the request whose
validation that step ends: between the return of `validate_async` and the
response the code never awaits. The inner service lies outside. Which pattern
matches which path is the constant `Matches`; `PathMatching` models the
function itself.

### Startup

| Variable | In the code |
|---|---|
| `input`, `config` | what the application passes, the `SecurityConfig` (of `from_jwks_uri`: what it stands for) |
| `phase` | the place in the constructor: `from_config`, `discover`, `build` (of the client), `fetch` (until status and headers), `read` (of the body), `serving` or `failed` |
| `error` | the variant of `ConfigError` or `JwtError` the construction, or the last refresh, ended with |
| `refreshing` | whether it is `refresh_now` that awaits `fetch_keys` |
| `jwks_uri`, `discovered`, `head`, `body` | the URI of the JWK set and the parts of the answers |
| `timer` | how long the exchange with the JWKS server has lasted |
| `validator` | the keys, issuer and remote of the validator |
| `asked`, `log` | history for the properties: requests sent and lines logged by the construction, or by the last refresh |

`Load` is `from_yaml_str`, `Fill` a configuration the application fills in, which
nobody validates, `FromJwksUri` and `FromJwkSet` the constructors of these names.
`from_config` runs to its first await; `Discovered` or `DiscoveryFails` ends the
exchange with the issuer. `ClientFails`, `Request`, `Respond` and `Received` are
`from_jwks_uri_with_options` with `fetch_keys`, cut at the awaits on the response
and on its body; `FetchFails` and `TimeOut` end the exchange at either. `Received`
logs, then looks at the status, then at the body, in the order of the code.
`RefreshNow` runs `fetch_keys` again for a validator with a server; where it fails,
`Abort` logs the error and leaves the keys alone, and `Dropped` is the loss of the
caller's future. `JwksCache` says when refreshes come and that they do not overlap:
here they may come at any time, one after the other, and there a fetch is one
exchange. Its `BootOk` is the first success, `HasRemote = FALSE` a validator of
`from_jwk_set`.

A line of the log is what it shows of a URI, of headers, of an error and of a body.
An error of the request or the status shows its URL but for the user info, one of
the body no URL (`reqwest`, external).

### Configuration and HttpLogging

Operators without state. A YAML text is the function from the fields it gives to
their values: `readable` is what serde rejects, `read_config` fills in the
defaults, `to_yaml` is `Serialize`. A method, in a text and in a configuration, has
a case and a duration its fractions of a second: a method is read in upper case and
written as it is, a duration is written in whole seconds.
`sanitized_headers` keeps the array a repeated header turns into; `boundary` is
the loop that backs up to the end of a character.

### Abstractions

- A JWK is `[key_id, decoding_key]`; a token its kid, its signer, whether its
  header parses, whether it expired, its issuer (and, in `Middleware`, its
  claims). The cached vector is a set: its order only decides which of several
  validation errors is reported.
- `jsonwebtoken::decode` is external: right key, not expired, no foreign issuer.
  `set_issuer` does not require `iss` to be present and the audience is not
  validated (`jwt.rs:360-366`).
- An HTTP exchange yields one of the provider's sets, or fails, or lasts until
  the request timeout. Status, transport and timeout errors are `JwksFetch`.
- In `Startup` the answers, which the code receives in two parts, are chosen
  anew at each part. A URI is the record of its parts or `Unparsable`; a header
  name its text and the words in it; a body the widths of its characters, the places
  of those that are secret and the JWK set it parses to. Where a server redirects a
  request to, which `reqwest` follows, is not modelled. Port and fragment, which `sanitize_uri` drops, are left out.
- A claim name is the sequence of its parts between dots; texts are model values.

## The runs

| Run | Instance | Shows |
|---|---|---|
| `safety` | 2 callers and the task, 2 rotations over 3 JWK sets (one with a bad key, one with nothing else), all intervals 1, failures on | types, `CacheNeverEmpty`, `UnknownKidIsUnknown`, `AcceptedKeyIsRecent`, `NoRegression`, `HealthAgrees`, `WaitsAreBounded`, `ImplementsContract` |
| `healthy` | a provider that never fails, interval 2, timeout 1, 2 callers, max stale 5 | `NeverStale` |
| `live` | 2 callers, failures on, under `Fairness` | `CallsReturn` |
| `reachable` | 1 caller, 2 rotations, under `Fairness` and `ProviderAnswers` | `StaleRecovers`, `EventuallyCurrent` |
| `known_key` | 2 callers, 1 rotation | violated, see Findings |
| `access` | 2 requests with all kinds of credentials, 180 policies, fixed keys, calls of the application itself | `ForwardedIsEntitled`, `RefusalsAreJustified`, `DecisionsMonotone`, `StaticVerdicts` |
| `rotation` | 2 requests, one policy, rotating and failing provider | `ForwardedIsEntitled`, `RefusalsAreJustified` |
| `matching` | segments of up to 5 characters; patterns and paths of up to 3 segments, of up to 5 for the going back at `**` | `MatchIsSound`, `MatchIsComplete`, `ShortcutsAgree`, `SearchIsBounded` |
| `exact` | the segments of `matching` | violated, see Findings |
| `principals` | 8 shapes of values and 4 objects under 4 names, 24 configurations | `NestedValuesAreFound`, `PrincipalIsFirstUsable`, `AuthoritiesAreTheClaim` |
| `startup` | 98 YAML texts, 3 filled-in configurations, a URI, 4 JWK sets; 3 discovery documents; statuses with up to 4 headers; bodies of up to 4 characters | `ServingIsEarned`, `OnlyTheConfiguredAreAsked`, `HeadersAndUrisAreRedacted`, `HeadersStayVisible`, `PreviewIsLongest`, `WrittenRulesGovern`, `SavedConfigLoads`, `WaitsOnlyForDiscovery` |
| `redaction` | a URI with user info and query; answers of `startup`, none with a secret in its body | violated, see Findings |

`CHECK_DEADLOCK FALSE` is set only in the runs of `MCPathMatching` and
`MCClaims`, which stop after one evaluation, and of `MCStartup`, where a construction
ends.

**Bounds.** `MaxRev` bounds the rotations, `Horizon` the counted times; every
caller makes one call. Two callers and the task are three contenders for the
lock: one holds it, one waits, one arrives, which is where each hazard of the
refresh needs at most three; a third caller would only lengthen the queue. Two
rotations let a key come, go and come back. With all intervals 1, a cache goes
stale within three ticks, so staleness meets every other event. Five characters
are enough for a pattern with two stars between three stretches, or for a stretch
of two that overlaps itself; three segments for two `**` around a literal. In
`startup` two units make a second, so that half seconds occur, and a preview of
5 bytes cuts bodies of characters of 1, 2 and 4 bytes at every place; three
equal headers are the least at which the third value is added to an array. The
theorems below lift the safety results of `safety`, `healthy`, `access`,
`rotation`, `principals`, `startup` and `matching` to any number of callers, any
intervals, JWK sets, configurations, answers, patterns and paths.

**Fairness.** `Fairness` is weak fairness of what the runtime does by itself:
the clock, the wake-up of the task, the grant of a free lock to the head of its
queue, the continuation of a future, and the end of an exchange, which the
timeout of the HTTP client forces (`jwt.rs:113`). Callers and provider are under
no obligation. `ProviderAnswers` adds, for `reachable` only, that among the
scheduled refreshes tried again and again some are answered and the answer
arrives; strong fairness, since a timeout disables it in between. With it, the
properties also assume that the provider settles on usable sets.

In `Startup`, `Fairness` is that of the application and the runtime: code goes on
up to its next await, the clock moves, an exchange that reaches the timeout of the
client ends. Nothing is assumed of the issuer and of the JWKS server.
`WaitsOnlyForDiscovery` therefore allows the one wait that may last for ever, the
`reqwest::get` of `discover_jwks_uri` (`jwt.rs:400`), which has no timeout.

**What the runs say about time.** `AcceptedKeyIsRecent`: a withdrawn key may
verify tokens for `jwks-max-stale` plus one `jwks-request-timeout`, not just the
former, as `last_success_at` is taken at the end of the exchange. `NeverStale`:
with a healthy provider the cache gets at most
`interval + (callers + 1) * timeout` old, and `healthy` runs exactly at this
bound (max stale 4 fails): each waiter ahead of the task in the queue of
`refresh_lock` may last a timeout and be dropped before it succeeds.
`WaitsAreBounded`: who joins the queue of `refresh_lock` stands in it for up to one
timeout per process that may be ahead, which `safety` reaches; with its own exchange
a request with an unknown kid may hang for `callers + 1` timeouts.
`SecurityConfig::validate` does not relate the three settings; the defaults
(300 s, 3600 s, 5 s) leave room for 659 callers.

**What the runs say about the rest.** `SearchIsBounded`: `matches_parts` takes
at most `(n + 1) * C(m + k, k)` calls for `n` parts, `k` of them `**`, and a path
of `m`. `SavedConfigLoads`: what was loaded from YAML is saved and loaded again as
it is. A configuration that the application filled in is not: durations are written
in whole seconds, so a timeout below one second is saved with 0, and a method in
lower case is read back in upper case (`config.rs:186`, `195`), where its rule
governs other requests. `ServingIsEarned` says of YAML texts
only that their patterns are rooted: `from_config` does not call `validate`, and
a filled-in configuration may have patterns that no path matches. Discovery does
not look at the status of the answer; what counts is a body with `jwks_uri`. With
neither URI configured the error is `JwtError::MissingJwksUri`;
`ConfigError::MissingJwksConfiguration` (`error.rs:5`) is never constructed.

## Findings

- `known_key`: two calls miss the same new kid; the refresh of the first installs
  it, that of the second fails, and the second call is refused with the fetch
  error (`?` at `jwt.rs:224`) although the fresh cache has its key. README.md:106-109
  says that known keys stay usable and that validation is retried once.
- `exact`: `/*a` does not match `/aa`, nor `/files/*.json` the path
  `/files/a.json.json`: `segment_matches` takes each stretch at its first
  occurrence (`policy.rs:176`), for good. `matching` shows that matches are never
  wrong, and missed only where the last stretch of a pattern segment occurs more
  than once.
- `redaction`: the warning of a refresh that failed shows the error of `reqwest` with
  its URL, query included (`jwt.rs:262`; `axum.rs:121` does so, too), which
  `sanitize_uri` drops everywhere else; README.md:121-122 says that no credentials or
  secrets are logged. The run takes bodies to be public, as README.md:122 does. With
  the bodies of `startup` the property fails even without a refresh: the preview
  (`jwt.rs:437`) shows the key of an `oct` JWK.
- Shown by `principals`, whose `NestedValuesAreFound` demands the opposite: a flat
  claim named `nested.claim`, a supported format by ARCHITECTURE.md:225, cannot be
  read, since `claim_value` splits the name (`claims.rs:9`).
- Shown by `matching`: `SearchIsBounded` is the `O(n*m)` of ARCHITECTURE.md:475 for a
  pattern with one `**` only; with `k` of them the search branches
  (`policy.rs:137-143`) and its bound grows with `m` to the power of `k`.

## The proofs

All are checked by `tlapm` with Z3, Zenon and LS4. What is assumed of the constants
is named in the module that declares them, and TLC evaluates it in a run:
`ConstantsAssumption` of `JwksCache`: the task is no caller, the sentinels are
distinct from what they stand beside, the intervals are natural numbers, and
`Horizon` exceeds `MaxStale + Timeout`; `RequestsAssumption` of `Middleware`:
requests carry tokens of `Token` or none, `other_endpoints` is one of its three
values, `secure_endpoints` is a sequence. Those of the other modules stand with
their theorems.

The provers do no induction over data. `Inductions` has it instead over sets of
numbers: `LeastNumber`, from the library's theorem on well-founded relations, gives
`Upwards`, `Downwards` and `RankInduction`, in which an invariant is the set of the
turns, or places, at which it holds. From these follows what a recursive definition
needs before it means anything to a prover, that the function exists:
`RecursionExists`, and `FoldExists` with `FoldInTurns` for the folds of the
community modules. Each fold and each recursive function of the model that a theorem
speaks of is first shown to go turn by turn (`...InTurns`, `GlobMeaning`,
`SearchMeaning`).

`JwksCacheProofs`:

- `TypeCorrect`: `Spec => []TypeOK`.
- `InductiveInvariant`: what the others rest on. Types are not enough: that the
  cache does not regress needs that `refresh_lock` has one holder and only the
  holder fetches, that a response was composed after the lock was acquired and
  from a revision not older than the cached one; that accepted keys are recent
  needs that a cached key has been gone for no longer than the age of the cache
  plus `Timeout`, and for that, that no exchange outlasts `Timeout` (this is
  where `Overdue` enters); that an unknown kid is unknown needs, for each place of
  `validate_async`, that either the provider lacked the kid or the answer under
  way, or the set just installed, still has it. One step per action preserves
  each conjunct it disturbs.
- From it: `NeverEmpty`, `CacheNeverRegresses`, `AcceptedKeysAreRecent`,
  `HealthIsTruthful`, `UnknownKidsAreUnknown` and, for validators with fixed
  keys, `StaticVerdictsHold`. The action properties share two lemmas: which steps
  give an answer (`AnswerStep`) and which change the cache (`CacheStep`).

`JwksCacheTimingProofs`:

- `QueueIsBounded`: `Spec => []WaitsAreBounded`, for any finite set of callers and any
  provider. By `Lined` each process has one place in the queue, so no more than
  `Callers` of them are ahead of another. `Patience`: who stands i-th has waited no
  longer than leaves room, within the bound, for a timeout of each of those ahead,
  less what the exchange of the holder has already taken.
- `CacheNeverStale`: `Spec => []NeverStale` assuming `PromptProvider` (the provider
  answers in time, each of its sets has a usable key) and `RoomEnough`
  (`MaxStale >= Interval + (N + 1) * Timeout` for the finite number `N` of callers),
  the assumptions `healthy` instantiates at the bound. A caller of the model makes
  one call, so `N` counts calls; the argument uses of them only those that stand
  before the task in the queue. `Lined`: who waits has exactly one place in the
  queue. `Punctual`: at each place of its loop the task has used no more than its
  share of the budget; while it waits i-th, the age of the cache plus a timeout for
  each of those before it is within the budget. A caller that is dropped takes its
  share with it, one that succeeds resets the age, and the fair queue lets nobody
  in before the task.

`JwksCacheRefinementProofs`:

- `Refinement`: `Spec => ImplementsContract`. `InitSimulation` maps initial
  states; `StepSimulation` maps each action to a step of the contract or to a
  stutter: lock, queue, exchange and clock steps are hidden, except the tick that
  makes the cache stale (`Expire`); `RefreshOk` is `Refresh` or, for an outside
  caller, `AnswerRefresh`. `RefinementInvariant` adds what the simulation
  needs to the inductive invariant.

`MiddlewareProofs`:

- `ValidatorWithin`: `Spec_http => Spec`. Requests are only another way of making
  calls, so the theorems on the cache hold within the middleware.
- `RequestsHandled`: `Spec_http => [](IInv /\ HInv)`. `HInv` says of every request
  how it has been handled: on arrival, or by a call of `validate_async` for its
  own token, with the response `Conclude` makes of its result. That a request is
  never answered with somebody else's verdict is what the properties need and do
  not say; it rests on two lemmas on what a step does to the calls of others
  (`UnderwayKeeps`, `BeginKeeps`).
- `RequirementMeaning` and `DecisionMeaning` relate `requirement` and `authorize`,
  written as the code is, to the access rules one by one; that the first secure
  endpoint exists is `LeastNumber`.
- From these: `OnlyTheEntitled` (`ForwardedIsEntitled`, with `AcceptedKey` of
  `JwksCacheProofs` for the age of the key), `RefusalsJustified`,
  `DecisionsAreMonotone`, for any requests, configurations, relation of patterns and
  paths, and provider.

`StartupProofs`, for any inputs, documents and answers. Assumed is that an input is
what the types of Rust and serde admit, and that `from_jwks_uri` is given a URI
(`InputsAssumption`); that serde_yaml takes what it has written for YAML, and its
methods for methods (`WritingAssumption`, about external code); that headers are a
list and a character takes a byte at least (`AnswersAssumption`); and that a second
is some units of time (`SecondAssumption`). `SecretsAssumption` says that the texts
which must not be seen are not also the literals, names and hosts which may be: a
password that is the word `https` cannot be told from the scheme.

- `LayerIsEarned` (`ServingIsEarned`, of the construction and of every refresh) and `OnlyConfiguredServersAsked`
  (`OnlyTheConfiguredAreAsked`). What a layer rests on has been decided some steps
  before: `Progress` says at each place what has been asked and which URI was
  chosen, `Admitted` which inputs get there.
- `RulesGovernAsWritten` (`WrittenRulesGovern`) and `SavedConfigurationsLoad`
  (`SavedConfigLoads`), on the invariant `Configured`: a configuration is the one its
  input makes. `RulesAsWritten` follows the lists of the text through `read_config`
  to `requirement`, `SavedAndRead` the fields of a configuration through `to_yaml`
  and back: fractions of a second are lost (`SavedField`), methods come back in upper
  case (`UpperCaseIsRead`), and what has been read already has neither to lose.
- `ExchangesAreSanitized` (`HeadersAndUrisAreRedacted`: what lines show of URIs and
  headers, since of errors and bodies it would be false), `EveryHeaderIsVisible`
  (`HeadersStayVisible`) and `PreviewIsAsLongAsItMayBe` (`PreviewIsLongest`), on the
  invariant `LInv`. `Fetching` says what is known of the exchange at each place.
  `Logged` says that every line is discreet and that the one about the response is
  about the head and body received: a log grows while the exchange goes on, and the
  properties only look at it. `EveryHeaderIsShown` is an invariant of the loop that
  turns a repeated header into an array: after `k` headers the object shows the first
  `k`, each with the marker or its value, and nothing else. `BoundaryIsLast` says that
  backing up from the limit ends at the last character that fits.

`ClaimsProofs`, for any tokens and any number of fallback claims:

- `FirstUsableNames` (`PrincipalIsFirstUsable`), by `LeastNumber`,
  `AuthoritiesAreThoseClaimed` (`AuthoritiesAreTheClaim`), and `NestedValuesFound`
  (`NestedValuesAreFound`) for names of two parts, as the property has them. Assumed
  is that what `claim_value` finds in a token is a value as JSON has them
  (`TokensAssumption`: a scalar has a text, only a string an empty one); that
  configurations give names of claims (`ConfigsAssumption`); and that texts and
  principals differ from `NoValue` (`TextsAssumption`). TLC evaluates the three in
  `principals`.

`PathMatchingProofs`, for patterns and paths of any number of segments of any length
over any characters (`CasesAssumption`):

- `MatchesAreSound` (`MatchIsSound`). The loop of `segment_matches` has the invariant
  `SoundAt`: whatever the pattern after its k-th stretch globs from where the
  remainder begins, the whole pattern globs from the start of the segment
  (`TurnIsSound`). It rests on where the stretches of `split` start in the pattern
  (`StartsAt`, `SplitMeaning`), on `find` giving a place, the least one, where the
  stretch occurs (`TakeMeaning`), and on a star globbing any gap. `matches_parts` is
  followed by `RankInduction` over how far pattern and path are from their ends:
  where a call succeeds, the segments left have owners among the parts left
  (`Owns`, `SearchSound`), and the owners of the first call are the witness of
  `Denotes`.
- `MatchesAreComplete` (`MatchIsComplete`). The invariant `CompleteAt` is the other
  half: what is left of the pattern globs from some place that is still to come.
  Taking a stretch where it occurs first keeps this, since it leaves at least as much
  of the segment as any other choice; only the last stretch, which must end the
  segment, may then be found too early, and does so only if it occurs twice
  (`SegmentComplete`). For `matches_parts`, `OneLessOwned` takes the first segment
  from its owner.
- `SearchesAreBounded` (`SearchIsBounded`). At a `**` a call makes two, whose bounds
  add up to its own by Pascal's rule (`CallIsBounded`). `RowsMeaning` proves this rule,
  and that its division leaves no rest, of the `choose` of the community modules.
- `ShortcutsOnlySaveWork` (`ShortcutsAgree`): a path matches itself segment by
  segment, stars in it included (`SearchSame`), and `**` alone matches every path
  (`SearchAnyDepth`).

So every invariant and every action property of the passing runs is a theorem.
Only model-checked are the liveness properties (`CallsReturn`, `StaleRecovers`,
`EventuallyCurrent`, `WaitsOnlyForDiscovery`), which are out of the prover's reach,
and that `KnownKeyHonoured`, `MatchIsExact` and `NoSecretIsLogged` are false.

## Not modelled

- `poll_ready` and the clone of the inner service in `call` (`axum.rs:69-74`):
  what tower's readiness protocol asks of a middleware lives in the state of the
  inner service, and is nowhere stated in the repository.
- The drop of a validator: its task keeps it alive (`jwt.rs:320`).
- Poisoning of the `RwLock`: nothing under it panics.
- `jsonwebtoken`, `reqwest` and `serde_yaml` beyond what the code uses of them; the
  texts of errors; the crate root, which re-exports; `as_endpoint`, which nothing
  calls; the examples and tests, read for how the crate is used.

## Plan

Done, in this order: `JwtKeys` and `JwksCache` with their runs; `JwksCacheProofs`;
`ValidatorContract` with its refinement and proof; `PathMatching`; `Claims`;
`Policy`; `Middleware`; `MiddlewareProofs`; `HttpLogging`, `Configuration`,
`Startup`; `JwksCacheTimingProofs`, `StartupProofs`, `ClaimsProofs`; `Inductions`
and with it the theorems on YAML texts and logging, nested claims, and
`PathMatchingProofs`.

Next: `Middleware` over the configurations of `Startup` in place of free ones, so that
what was written in YAML is followed up to the response.
