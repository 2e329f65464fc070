------------------------------ MODULE JwksCache ------------------------------
(***************************************************************************)
(* The JWKS cache of JwtValidator (src/jwt.rs): startup, the background    *)
(* refresh task, and concurrent calls of validate, validate_async and      *)
(* refresh_now against one shared JwksState, one refresh lock and an       *)
(* identity provider that rotates its keys.                                *)
(*                                                                         *)
(* Steps are the stretches of code between two points where a future can   *)
(* be suspended: the refresh lock and the HTTP exchange.  The RwLock around *)
(* JwksState is never held across an await, so what is done under it is    *)
(* one step.                                                               *)
(*                                                                         *)
(* Time is discrete.  Instants are not kept; elapsed times are: `age` is   *)
(* last_success_at.elapsed(), `timer` the running time of a sleep, of an    *)
(* HTTP exchange or of a wait for the lock.  Ages stop counting at Horizon, *)
(* beyond every threshold they are compared with, so time itself is not    *)
(* bounded.                                                                *)
(***************************************************************************)
EXTENDS Naturals, Sequences, FiniteSets, JwtKeys

CONSTANTS
  Callers,    \* futures and threads that call the validator, one call each
  Task,       \* the construction of the validator and the task it spawns
  Jwk,        \* every JWK the identity provider may ever publish
  Docs,       \* the JWK sets it may publish
  Token,      \* the tokens callers present
  Interval,   \* jwks-refresh-interval
  MaxStale,   \* jwks-max-stale
  Timeout,    \* jwks-request-timeout
  Horizon,    \* bound: elapsed times are not counted beyond it
  MaxRev,     \* bound: how many times the provider rotates its keys
  HasRemote,  \* remote.is_some(): FALSE for a validator built from fixed keys
  Faulty,     \* whether HTTP exchanges may fail
  NoResponse  \* the HTTP response has not arrived

(* How a refresh can fail, and how a call can end: with an Ok, with one of  *)
(* the variants of JwtError it can return, or not at all.                  *)
FetchError == {"JwksFetch", "JwksParse", "NoMatchingKey"}
Verdict == {"Ok", "Header", "JwksStale", "Validation", "Cancelled"} \cup FetchError

ASSUME ConstantsAssumption ==
  /\ Task \notin Callers
  /\ None \notin Callers \cup {Task} \cup Verdict
  /\ Docs \subseteq SUBSET Jwk
  /\ Interval \in Nat /\ MaxStale \in Nat /\ Timeout \in Nat
  /\ Horizon \in Nat /\ Horizon > MaxStale + Timeout
  /\ MaxRev \in Nat
  /\ HasRemote \in BOOLEAN /\ Faulty \in BOOLEAN
  /\ NoResponse \notin [doc : SUBSET Jwk, rev : Nat]

VARIABLES
  published,  \* the JWK set the provider serves now
  rev,        \* how often it has been replaced
  keys,       \* JwksState.keys
  age,        \* JwksState.last_success_at.elapsed()
  last_error, \* JwksState.last_error
  holder,     \* who holds refresh_lock, or None
  queue,      \* who waits for refresh_lock, in order of arrival
  pc,         \* where each caller and the task are
  timer,      \* how long the current sleep, HTTP exchange or wait for the lock has lasted
  resp,       \* the response of the HTTP exchange, once the provider gave it
  call,       \* what each caller asked for
  result,     \* what each caller got
  (* History, read by the properties only. *)
  keysRev,    \* the revision the cached keys were taken from
  gone,       \* how long each usable JWK has been absent from the provider's set
  absent      \* whether the provider lacked the caller's kid during its call

provider == <<published, rev, gone>>
state == <<keys, age, last_error, keysRev>>
lock == <<holder, queue>>
calls == <<call, result, absent>>
vars == <<provider, state, lock, calls, pc, timer, resp>>

Procs == Callers \cup {Task}
Response == [doc : Docs, rev : 0..MaxRev]
NoCall == [op |-> "none", token |-> None]

Usable == jwk_set_to_keys(Jwk)

Lacks(doc, token) == matching_keys(jwk_set_to_keys(doc), token) = {}

Serving == pc[Task] \notin {"boot", "failed"}

(* Mutant: fixed keys age too. *)
StaleFixedKeys == age > MaxStale

Stale == HasRemote /\ age > MaxStale

Fetching(p) == pc[p] \in {"boot", "fetch"}
Validating(c) == call[c].op = "validate_async" /\ pc[c] # "done"

------------------------------------------------------------------------------
(* Construction.  A remote validator starts with from_jwks_uri_with_options *)
(* about to fetch; one built by from_keys holds its keys from the start.    *)
Init ==
  /\ published \in Docs
  /\ rev = 0
  /\ IF HasRemote
       THEN /\ keys = {}
            /\ pc = [p \in Procs |-> IF p = Task THEN "boot" ELSE "idle"]
       ELSE /\ keys = jwk_set_to_keys(published)
            /\ keys # {}
            /\ pc = [p \in Procs |-> IF p = Task THEN "none" ELSE "idle"]
  /\ age = 0
  /\ last_error = None
  /\ holder = None
  /\ queue = <<>>
  /\ timer = [p \in Procs |-> 0]
  /\ resp = [p \in Procs |-> NoResponse]
  /\ call = [c \in Callers |-> NoCall]
  /\ result = [c \in Callers |-> None]
  /\ keysRev = 0
  /\ gone = [jwk \in Usable |-> 0]
  /\ absent = [c \in Callers |-> FALSE]

------------------------------------------------------------------------------
(* The provider and the clock. *)

(* The provider replaces its JWK set. *)
Rotate(doc) ==
  /\ rev < MaxRev
  /\ published' = doc
  /\ rev' = rev + 1
  /\ absent' = [c \in Callers |->
                  absent[c] \/ (Validating(c) /\ Lacks(doc, call[c].token))]
  /\ gone' = [jwk \in Usable |-> IF jwk \in doc THEN 0 ELSE gone[jwk]]
  /\ UNCHANGED <<state, lock, call, result, pc, timer, resp>>

(* The provider answers an HTTP request with the set it serves at that     *)
(* moment; the client may learn of it later.                               *)
Serve(p) ==
  /\ Fetching(p)
  /\ resp[p] = NoResponse
  /\ resp' = [resp EXCEPT ![p] = [doc |-> published, rev |-> rev]]
  /\ UNCHANGED <<provider, state, lock, calls, pc, timer>>

(* Mutant: the HTTP client has no timeout. *)
OverdueNoTimeout ==
  \/ pc[Task] = "sleep" /\ timer[Task] >= Interval
  \/ pc[Task] = "refresh"
  \/ holder = None /\ queue # <<>>

(* Work the runtime does before the clock moves on: a timer that has run   *)
(* out ends its sleep or its exchange, the head of the queue gets the free *)
(* lock, and the background task does not linger between its awaits.       *)
Overdue ==
  \/ \E p \in Procs : Fetching(p) /\ timer[p] >= Timeout
  \/ pc[Task] = "sleep" /\ timer[Task] >= Interval
  \/ pc[Task] = "refresh"
  \/ holder = None /\ queue # <<>>

Later(n) == IF n < Horizon THEN n + 1 ELSE n

Tick ==
  /\ ~Overdue
  /\ age' = IF pc[Task] \in {"boot", "failed"} THEN age ELSE Later(age)
  /\ timer' = [p \in Procs |->
                 CASE Fetching(p) \/ pc[p] = "sleep" -> timer[p] + 1
                   [] pc[p] = "wait" -> Later(timer[p])
                   [] OTHER -> timer[p]]
  /\ gone' = [jwk \in Usable |-> IF jwk \in published THEN 0 ELSE Later(gone[jwk])]
  /\ UNCHANGED <<published, rev, keys, last_error, keysRev, lock, calls, pc, resp>>

------------------------------------------------------------------------------
(* How a call goes on.  Timer and response belong to the await p leaves. *)

Goto(p, label) ==
  /\ pc' = [pc EXCEPT ![p] = label]
  /\ timer' = [timer EXCEPT ![p] = 0]
  /\ resp' = [resp EXCEPT ![p] = NoResponse]

Finish(c, verdict) ==
  /\ Goto(c, "done")
  /\ result' = [result EXCEPT ![c] = verdict]

(* Mutant: an error ends the loop of the background task. *)
RefreshedTaskStops(p, verdict) ==
  IF p = Task
    THEN /\ Goto(p, IF verdict = "Ok" THEN "sleep" ELSE "done")
         /\ UNCHANGED result
    ELSE IF call[p].op = "validate_async" /\ verdict = "Ok"
      THEN Goto(p, "retry") /\ UNCHANGED result
      ELSE Finish(p, verdict)

(* What happens after refresh_now returned: the task goes back to sleep    *)
(* whatever the outcome, validate_async retries after a success and gives  *)
(* up with the error otherwise, an outside caller gets the outcome.        *)
Refreshed(p, verdict) ==
  \/ /\ p = Task
     /\ Goto(p, "sleep")
     /\ UNCHANGED result
  \/ /\ p # Task
     /\ call[p].op = "validate_async" /\ verdict = "Ok"
     /\ Goto(p, "retry")
     /\ UNCHANGED result
  \/ /\ p # Task
     /\ call[p].op = "refresh_now" \/ verdict # "Ok"
     /\ Finish(p, verdict)

------------------------------------------------------------------------------
(* Validation. *)

Begin(c, op, token) ==
  /\ pc[c] = "idle"
  /\ Serving
  /\ call' = [call EXCEPT ![c] = [op |-> op, token |-> token]]

(* decode_header, ensure_not_stale and validate_with_keys, in the order    *)
(* both entry points use them.                                             *)
FirstVerdict(token) ==
  IF ~token.header THEN "Header"
  ELSE IF Stale THEN "JwksStale"
  ELSE validate_with_keys(keys, token)

(* validate: the verdict of the cached keys is final. *)
Validate(c, token) ==
  /\ Begin(c, "validate", token)
  /\ Finish(c, FirstVerdict(token))
  /\ UNCHANGED <<provider, state, lock, absent>>

(* The kid of the token is not cached, and there is a JWKS to ask. *)
UnknownKid(token) ==
  /\ FirstVerdict(token) = "NoMatchingKey"
  /\ token.kid # None
  /\ HasRemote

(* validate_async up to its first await: an unknown kid goes on to         *)
(* refresh_now, every other verdict is final.                              *)
ValidateAsync(c, token) ==
  /\ Begin(c, "validate_async", token)
  /\ absent' = [absent EXCEPT ![c] = Lacks(published, token)]
  /\ \/ /\ UnknownKid(token)
        /\ Goto(c, "refresh")
        /\ UNCHANGED result
     \/ /\ ~UnknownKid(token)
        /\ Finish(c, FirstVerdict(token))
  /\ UNCHANGED <<provider, state, lock>>

(* The second half of validate_async: the cache, as it is by now, is       *)
(* checked again and its verdict is final.                                 *)
Retry(c) ==
  /\ pc[c] = "retry"
  /\ Finish(c, IF Stale THEN "JwksStale"
               ELSE validate_with_keys(keys, call[c].token))
  /\ UNCHANGED <<provider, state, lock, call, absent>>

------------------------------------------------------------------------------
(* Refreshing. *)

(* The application calls refresh_now itself. *)
CallRefresh(c) ==
  /\ Begin(c, "refresh_now", None)
  /\ Goto(c, "refresh")
  /\ UNCHANGED <<provider, state, lock, result, absent>>

(* The background task wakes up. *)
Wake ==
  /\ pc[Task] = "sleep"
  /\ timer[Task] >= Interval
  /\ Goto(Task, "refresh")
  /\ UNCHANGED <<provider, state, lock, calls>>

(* Mutant: a refresh already in flight counts as one's own. *)
EnterRefreshShared(p) ==
  /\ pc[p] = "refresh"
  /\ IF ~HasRemote \/ holder # None
       THEN Refreshed(p, "Ok") /\ UNCHANGED queue
       ELSE Goto(p, "wait") /\ queue' = Append(queue, p) /\ UNCHANGED result
  /\ UNCHANGED <<provider, state, holder, call, absent>>

(* refresh_now up to the refresh lock.  Without a remote it returns at     *)
(* once.                                                                   *)
EnterRefresh(p) ==
  /\ pc[p] = "refresh"
  /\ \/ /\ ~HasRemote
        /\ Refreshed(p, "Ok")
        /\ UNCHANGED queue
     \/ /\ HasRemote
        /\ Goto(p, "wait")
        /\ queue' = Append(queue, p)
        /\ UNCHANGED result
  /\ UNCHANGED <<provider, state, holder, call, absent>>

(* Mutant: refreshes are not serialised. *)
AcquireLockUnguarded(p) ==
  /\ pc[p] = "wait"
  /\ queue # <<>> /\ Head(queue) = p
  /\ holder' = p
  /\ queue' = Tail(queue)
  /\ Goto(p, "fetch")
  /\ UNCHANGED <<provider, state, calls>>

(* The lock is granted in order of arrival; its holder sends the request.  *)
AcquireLock(p) ==
  /\ pc[p] = "wait"
  /\ holder = None
  /\ queue # <<>> /\ Head(queue) = p
  /\ holder' = p
  /\ queue' = Tail(queue)
  /\ Goto(p, "fetch")
  /\ UNCHANGED <<provider, state, calls>>

(* Mutant: a set without usable keys is a success. *)
FetchedKeysAny(p) == resp[p] # NoResponse

(* fetch_keys returned usable keys. *)
FetchedKeys(p) ==
  /\ resp[p] # NoResponse
  /\ jwk_set_to_keys(resp[p].doc) # {}

(* fetch_keys returned an error: the exchange failed or timed out, the     *)
(* body was no JWK set, or the set had no usable key.                      *)
FetchFailed(p, error) ==
  \/ error \in {"JwksFetch", "JwksParse"} /\ Faulty
  \/ /\ error = "NoMatchingKey"
     /\ resp[p] # NoResponse
     /\ jwk_set_to_keys(resp[p].doc) = {}

(* Mutant: the time of the refresh is not recorded. *)
InstallUndated(p) ==
  /\ keys' = jwk_set_to_keys(resp[p].doc)
  /\ last_error' = None
  /\ keysRev' = resp[p].rev
  /\ UNCHANGED age

(* Mutant: fetched keys are added to the cached ones. *)
InstallMerged(p) ==
  /\ keys' = keys \cup jwk_set_to_keys(resp[p].doc)
  /\ age' = 0
  /\ last_error' = None
  /\ keysRev' = resp[p].rev

(* The write to JwksState after a successful fetch. *)
Install(p) ==
  /\ keys' = jwk_set_to_keys(resp[p].doc)
  /\ age' = 0
  /\ last_error' = None
  /\ keysRev' = resp[p].rev

(* refresh_now on success: the keys, the time and the error are replaced   *)
(* together, the lock is released.                                         *)
RefreshOk(p) ==
  /\ pc[p] = "fetch"
  /\ FetchedKeys(p)
  /\ Install(p)
  /\ holder' = None
  /\ Refreshed(p, "Ok")
  /\ UNCHANGED <<provider, queue, call, absent>>

(* Mutant: a failed attempt counts as a success for the age. *)
RefreshErrTouches(p, error) ==
  /\ pc[p] = "fetch"
  /\ FetchFailed(p, error)
  /\ last_error' = error
  /\ age' = 0
  /\ holder' = None
  /\ Refreshed(p, error)
  /\ UNCHANGED <<provider, keys, keysRev, queue, call, absent>>

(* refresh_now on failure: only the error is recorded, the last known good *)
(* keys and their age stay.                                                *)
RefreshErr(p, error) ==
  /\ pc[p] = "fetch"
  /\ FetchFailed(p, error)
  /\ last_error' = error
  /\ holder' = None
  /\ Refreshed(p, error)
  /\ UNCHANGED <<provider, keys, age, keysRev, queue, call, absent>>

(* Startup: without a first successful fetch there is no validator. *)
BootOk ==
  /\ pc[Task] = "boot"
  /\ FetchedKeys(Task)
  /\ Install(Task)
  /\ Goto(Task, "sleep")
  /\ UNCHANGED <<provider, lock, calls>>

BootErr(error) ==
  /\ pc[Task] = "boot"
  /\ FetchFailed(Task, error)
  /\ Goto(Task, "failed")
  /\ UNCHANGED <<provider, state, lock, calls>>

(* Mutant: a dropped holder leaves the lock taken. *)
CancelKeepsLock(c) ==
  /\ pc[c] \in {"wait", "fetch"}
  /\ queue' = SelectSeq(queue, LAMBDA p : p # c)
  /\ Finish(c, "Cancelled")
  /\ UNCHANGED <<provider, state, holder, call, absent>>

(* A call's future is dropped while it is suspended (the HTTP client of    *)
(* the service went away): its place in the queue or its lock is given up  *)
(* and its HTTP exchange abandoned.                                        *)
Cancel(c) ==
  /\ \/ /\ pc[c] = "wait"
        /\ \E i \in 1..Len(queue) :
             /\ queue[i] = c
             /\ queue' = SubSeq(queue, 1, i - 1) \o SubSeq(queue, i + 1, Len(queue))
        /\ UNCHANGED holder
     \/ /\ pc[c] = "fetch"
        /\ holder' = None
        /\ UNCHANGED queue
  /\ Finish(c, "Cancelled")
  /\ UNCHANGED <<provider, state, call, absent>>

------------------------------------------------------------------------------
(* What goes on without a new call: the provider, the clock, the task, and   *)
(* the calls under way.                                                    *)
Underway ==
  \/ \E doc \in Docs : Rotate(doc)
  \/ \E p \in Procs : Serve(p)
  \/ Tick
  \/ \E c \in Callers : Retry(c)
  \/ Wake
  \/ \E p \in Procs : EnterRefresh(p)
  \/ \E p \in Procs : AcquireLock(p)
  \/ \E p \in Procs : RefreshOk(p)
  \/ \E p \in Procs, error \in FetchError : RefreshErr(p, error)
  \/ BootOk
  \/ \E error \in FetchError : BootErr(error)
  \/ \E c \in Callers : Cancel(c)

Next ==
  \/ \E c \in Callers, token \in Token : Validate(c, token)
  \/ \E c \in Callers, token \in Token : ValidateAsync(c, token)
  \/ \E c \in Callers : CallRefresh(c)
  \/ Underway

Spec == Init /\ [][Next]_vars

------------------------------------------------------------------------------
(* Mutant: health and ensure_not_stale disagree at the limit. *)
HealthEarly ==
  IF HasRemote /\ (keys = {} \/ age >= MaxStale) THEN "DOWN" ELSE "UP"

(* health(), reduced to its status: it compares the age with max_stale on    *)
(* its own, next to ensure_not_stale.                                      *)
Health ==
  IF HasRemote /\ (keys = {} \/ age > MaxStale) THEN "DOWN" ELSE "UP"

------------------------------------------------------------------------------
(* Fairness.  The runtime polls every future that can go on, and reqwest   *)
(* ends every exchange by its timeout at the latest.  Nothing is assumed   *)
(* of the callers or of the provider.                                      *)
EndFetch(p) == RefreshOk(p) \/ \E error \in FetchError : RefreshErr(p, error)

Fairness ==
  /\ WF_vars(Tick)
  /\ WF_vars(Wake)
  /\ WF_vars(BootOk \/ \E error \in FetchError : BootErr(error))
  /\ \A p \in Procs : /\ WF_vars(EnterRefresh(p))
                      /\ WF_vars(AcquireLock(p))
                      /\ WF_vars(EndFetch(p))
  /\ \A c \in Callers : WF_vars(Retry(c))

(* The provider does not fail every scheduled refresh for ever: one that    *)
(* is tried again and again is answered, and the answer arrives, sometimes. *)
ProviderAnswers ==
  /\ SF_vars(Serve(Task))
  /\ SF_vars(RefreshOk(Task))

LiveSpec == Spec /\ Fairness
ReachableSpec == LiveSpec /\ ProviderAnswers

------------------------------------------------------------------------------
TaskLabel == {"none", "boot", "failed", "sleep", "refresh", "wait", "fetch"}
CallerLabel == {"idle", "refresh", "wait", "fetch", "retry", "done"}

(* Types of the variables, and the places the background task and a call    *)
(* can be at: the task never ends once it runs.                            *)
TypeOK ==
  /\ published \in Docs
  /\ rev \in 0..MaxRev
  /\ keys \subseteq Usable
  /\ age \in 0..Horizon
  /\ last_error \in FetchError \cup {None}
  /\ holder \in Procs \cup {None}
  /\ queue \in Seq(Procs)
  /\ pc \in [Procs -> TaskLabel \cup CallerLabel]
  /\ pc[Task] \in TaskLabel
  /\ \A c \in Callers : pc[c] \in CallerLabel
  /\ timer \in [Procs -> Nat]
  /\ resp \in [Procs -> Response \cup {NoResponse}]
  /\ call \in [Callers -> [op : {"validate", "validate_async"}, token : Token]
                          \cup {[op |-> "refresh_now", token |-> None], NoCall}]
  /\ result \in [Callers -> Verdict \cup {None}]
  /\ keysRev \in 0..MaxRev
  /\ gone \in [Usable -> 0..Horizon]
  /\ absent \in [Callers -> BOOLEAN]

(* Once the validator exists its cache always holds at least one usable    *)
(* key, whatever the provider publishes afterwards (jwt.rs:457): the        *)
(* "cache is empty" branch of health() is never taken.                     *)
CacheNeverEmpty ==
  Serving => /\ keys # {}
             /\ \A key \in keys : key.decoding_key # Unsupported

(* Caller c gets the claims of its token in this step. *)
Accepts(c) ==
  /\ result[c] = None
  /\ result'[c] = "Ok"
  /\ call'[c].op # "refresh_now"

Verifies(key, token) ==
  key \in matching_keys(keys, token) /\ Decodes(token, key)

(* A token is accepted only on a key the provider still published at most   *)
(* max_stale plus one request timeout ago: last_success_at is taken when    *)
(* the exchange ends (jwt.rs:243), up to a timeout after the provider       *)
(* composed its answer, so max_stale alone is not the bound.               *)
AcceptedKeyIsRecent ==
  [][HasRemote => \A c \in Callers : Accepts(c) =>
       \E key \in keys : /\ Verifies(key, call'[c].token)
                         /\ gone[key] <= MaxStale + Timeout]_vars

(* The cache never goes back to an older JWK set, however refreshes of the *)
(* task, of unknown kids and of the application overlap (refresh_lock).    *)
NoRegression == [][Serving => keysRev' >= keysRev]_vars

(* A call is refused for an unknown kid only if the provider really lacked  *)
(* a usable key of that kid at some moment of the call: a key published    *)
(* before the call began, and kept, is found (the refresh and single retry *)
(* of validate_async).                                                     *)
UnknownKidIsUnknown ==
  HasRemote => \A c \in Callers :
    /\ call[c].op = "validate_async"
    /\ call[c].token.kid # None
    /\ result[c] = "NoMatchingKey"
    => absent[c]

(* health() and validation agree: while it reports DOWN no token is         *)
(* accepted, while it reports UP none is refused as stale.                 *)
HealthAgrees ==
  [][\A c \in Callers :
       /\ Accepts(c) => Health = "UP"
       /\ result[c] = None /\ result'[c] = "JwksStale" => Health = "DOWN"]_vars

(* A validator built from fixed keys gives every entry point the verdict    *)
(* of those keys, however long it has been running, and its refresh_now    *)
(* does nothing.                                                           *)
StaticVerdicts ==
  ~HasRemote => \A c \in Callers : result[c] # None =>
    result[c] = IF call[c].op = "refresh_now" THEN "Ok"
                ELSE IF ~call[c].token.header THEN "Header"
                ELSE validate_with_keys(keys, call[c].token)

(* With a provider that never fails and the scheduled refreshes dense       *)
(* enough, the cache never goes stale, although any number of callers may   *)
(* queue for the lock ahead of the task and be dropped just before their    *)
(* own refresh would have succeeded.                                       *)
NeverStale == Serving => ~Stale

(* The last known good keys stay usable (README.md:106-107): a call is    *)
(* not refused while the cache is fresh and holds a key that verifies its   *)
(* token.                                                                  *)
KnownKeyHonoured ==
  [][\A c \in Callers :
       /\ result[c] = None /\ result'[c] \notin {None, "Cancelled"}
       /\ call'[c].op = "validate_async" /\ call'[c].token.header
       /\ ~Stale /\ \E key \in keys : Verifies(key, call'[c].token)
       => result'[c] = "Ok"]_vars

(* Who joins the queue for refresh_lock behind everybody else (jwt.rs:234)  *)
(* stands in it for one request timeout per process that may be ahead, and *)
(* no longer, although each of them sends a request of its own and the     *)
(* provider may let every one of them run out: with its own exchange, a    *)
(* request with an unknown kid hangs for up to (Callers + 1) timeouts.  It  *)
(* takes a Horizon above the bound to see a longer wait.                    *)
WaitsAreBounded ==
  \A p \in Procs : pc[p] = "wait" => timer[p] <= Cardinality(Callers) * Timeout

(* Every call returns: neither a failing provider nor a dropped holder of   *)
(* refresh_lock keeps the others waiting for ever.                         *)
CallsReturn ==
  \A c \in Callers : pc[c] \notin {"idle", "done"} ~> pc[c] = "done"

(* A stale cache recovers although validation itself never refreshes it:    *)
(* the scheduled task goes on after failures.  The provider may publish     *)
(* unusable sets for a while, but not for ever.                            *)
StaleRecovers ==
  <>[](jwk_set_to_keys(published) # {}) => (Serving /\ Stale ~> ~Stale)

(* Once the provider stops rotating on a usable set, the cache ends up with *)
(* it for good.                                                            *)
EventuallyCurrent ==
  <>[](jwk_set_to_keys(published) # {}) =>
    <>[](Serving => keys = jwk_set_to_keys(published))

==============================================================================
