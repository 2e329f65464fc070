---------------------- MODULE JwksCacheRefinementProofs ----------------------
(* JwksCache implements ValidatorContract, for every value of the constants. *)
EXTENDS JwksCacheRefinement, JwksCacheProofs

------------------------------------------------------------------------------
(* What the refinement needs beyond the invariant of JwksCacheProofs. *)

(* A call exists from the moment its caller leaves "idle", and only         *)
(* validate_async has a second half.                                       *)
Begun ==
  \A c \in Callers : /\ pc[c] = "idle" <=> call[c] = NoCall
                     /\ pc[c] = "retry" => call[c].op = "validate_async"

(* One revision, one set: a response or a cache of the current revision     *)
(* holds the published set, a response of the cached revision the cached    *)
(* keys.                                                                   *)
Snapshots ==
  /\ Serving /\ keysRev = rev => keys = jwk_set_to_keys(published)
  /\ \A p \in Procs : resp[p] # NoResponse =>
       /\ resp[p].rev = rev => resp[p].doc = published
       /\ Serving /\ resp[p].rev = keysRev => keys = jwk_set_to_keys(resp[p].doc)

RInv == IInv /\ FixedKeys /\ Begun /\ Snapshots

LEMMA InitBegun == Init => Begun
BY ConstantsAssumption DEF Init, Begun, Procs

LEMMA NextBegun == TypeOK /\ Mutex /\ Begun /\ [Next]_vars => Begun'
<1> SUFFICES ASSUME TypeOK, Mutex, Begun, [Next]_vars PROVE Begun'
  OBVIOUS
<1> USE ConstantsAssumption DEF Begun
(* Where a process already under way goes on. *)
<1>1. ASSUME NEW p \in Procs, NEW label, Goto(p, label), pc[p] # "idle", label # "idle",
             label = "retry" => call[p].op = "validate_async", UNCHANGED call
      PROVE  Begun'
  BY <1>1, GotoEffect DEF Procs
<1>2. ASSUME NEW c \in Callers, NEW op \in {"validate", "validate_async", "refresh_now"},
             NEW token, Begin(c, op, token),
             NEW label \in {"refresh", "done"}, Goto(c, label)
      PROVE  Begun'
  <2>1. c \in Procs /\ pc'[c] = label
    BY <1>2, GotoEffect DEF Procs
  <2>2. call'[c] # NoCall /\ \A d \in Callers : d # c => call'[d] = call[d]
    BY <1>2 DEF Begin, NoCall, TypeOK
  <2> QED BY <1>2, <2>1, <2>2, GotoEffect DEF Procs
<1>3. ASSUME NEW p \in Procs, NEW verdict, Refreshed(p, verdict), pc[p] # "idle", UNCHANGED call
      PROVE  Begun'
  <2>1. PICK label : Goto(p, label) /\ label \in {"sleep", "retry", "done"}
                     /\ (label = "retry" => call[p].op = "validate_async")
    BY <1>3 DEF Refreshed, Finish
  <2> QED BY <1>1, <1>3, <2>1
<1>4. CASE UNCHANGED <<pc, call>>
  BY <1>4
<1>5. ASSUME NEW c \in Callers, NEW token \in Token, Validate(c, token) \/ ValidateAsync(c, token)
      PROVE  Begun'
  BY <1>2, <1>5 DEF Validate, ValidateAsync, Finish
<1>6. ASSUME NEW c \in Callers, CallRefresh(c) PROVE Begun'
  BY <1>2, <1>6 DEF CallRefresh
<1>7. ASSUME NEW c \in Callers, Retry(c) \/ Cancel(c) PROVE Begun'
  BY <1>1, <1>7 DEF Retry, Cancel, Finish, Procs
<1>8. ASSUME NEW p \in Procs, EnterRefresh(p) PROVE Begun'
  BY <1>1, <1>3, <1>8 DEF EnterRefresh
<1>9. ASSUME NEW p \in Procs, AcquireLock(p) PROVE Begun'
  BY <1>1, <1>9 DEF AcquireLock, calls
<1>10. ASSUME NEW p \in Procs, RefreshOk(p) PROVE Begun'
  BY <1>3, <1>10 DEF RefreshOk
<1>11. ASSUME NEW p \in Procs, NEW error \in FetchError, RefreshErr(p, error) PROVE Begun'
  BY <1>3, <1>11 DEF RefreshErr
<1>12. ASSUME Wake \/ BootOk PROVE Begun'
  BY <1>1, <1>12 DEF Wake, BootOk, calls, Procs
<1>13. ASSUME NEW error \in FetchError, BootErr(error) PROVE Begun'
  BY <1>1, <1>13 DEF BootErr, calls, Procs
<1>14. ASSUME NEW p \in Procs, Serve(p) PROVE Begun'
  BY <1>4, <1>14 DEF Serve, calls
<1>15. ASSUME NEW doc \in Docs, Rotate(doc) PROVE Begun'
  BY <1>4, <1>15 DEF Rotate
<1>16. ASSUME Tick \/ UNCHANGED vars PROVE Begun'
  BY <1>4, <1>16 DEF Tick, vars, calls
<1> QED
  BY <1>5, <1>6, <1>7, <1>8, <1>9, <1>10, <1>11, <1>12, <1>13, <1>14, <1>15, <1>16 DEF Next, Underway

LEMMA InitSnapshots == Init => Snapshots
BY ConstantsAssumption DEF Init, Snapshots, Serving, Procs

LEMMA NextSnapshots == IInv /\ Snapshots /\ [Next]_vars => Snapshots'
<1> SUFFICES ASSUME IInv, Snapshots, [Next]_vars PROVE Snapshots'
  OBVIOUS
<1> USE ConstantsAssumption DEF Snapshots
<1>0. /\ TypeOK /\ Mutex /\ Exchanges
      /\ rev \in Nat /\ keysRev \in Nat /\ keysRev <= rev
      /\ \A p \in Procs : resp[p] # NoResponse =>
           /\ Fetching(p) /\ resp[p].rev \in Nat /\ resp[p].rev <= rev /\ keysRev <= resp[p].rev
  BY DEF IInv, Exchanges, TypeOK, Response
(* A step that moves one process without starting the validator. *)
<1>1. ASSUME NEW p \in Procs, NEW label, Goto(p, label), UNCHANGED <<published, rev, keys, keysRev>>,
             p = Task => Serving \/ label = "failed"
      PROVE  Snapshots'
  <2>1. Serving' => Serving
    BY <1>0, <1>1, GotoEffect DEF Serving, Procs
  <2>2. \A q \in Procs : resp'[q] # NoResponse => resp'[q] = resp[q]
    BY <1>0, <1>1, GotoEffect
  <2> QED BY <1>1, <2>1, <2>2
(* A step that installs a response. *)
<1>2. ASSUME NEW p \in Procs, NEW label, Goto(p, label), UNCHANGED provider,
             FetchedKeys(p), Install(p)
      PROVE  Snapshots'
  <2>1. \A q \in Procs : resp'[q] = NoResponse
    BY <1>0, <1>2, GotoEffect, OneExchange DEF FetchedKeys
  <2> QED BY <1>2, <2>1 DEF Install, FetchedKeys, provider
<1>3. ASSUME NEW doc \in Docs, Rotate(doc) PROVE Snapshots'
  BY <1>0, <1>3 DEF Rotate, state, Serving
<1>4. ASSUME NEW p \in Procs, Serve(p) PROVE Snapshots'
  <2>1. resp'[p].doc = published /\ resp'[p].rev = rev /\ \A q \in Procs : q # p => resp'[q] = resp[q]
    BY <1>0, <1>4 DEF Serve, TypeOK
  <2> QED BY <1>4, <2>1 DEF Serve, provider, state, Serving
<1>5. ASSUME Tick \/ UNCHANGED vars PROVE Snapshots'
  BY <1>5 DEF Tick, vars, provider, state, Serving
<1>6. \A p \in Procs : pc[p] \notin {"boot", "failed", "idle"} => Serving
  BY <1>0 DEF Mutex, Serving, Procs
<1>7. ASSUME NEW c \in Callers, NEW token \in Token, Validate(c, token) \/ ValidateAsync(c, token)
      PROVE  Snapshots'
  BY <1>1, <1>7 DEF Validate, ValidateAsync, Finish, provider, state, Procs
<1>8. ASSUME NEW c \in Callers, CallRefresh(c) \/ Retry(c) \/ Cancel(c) PROVE Snapshots'
  BY <1>1, <1>8 DEF CallRefresh, Retry, Cancel, Finish, provider, state, Procs
<1>9. CASE Wake
  BY <1>1, <1>6, <1>9 DEF Wake, provider, state, Procs
<1>10. ASSUME NEW p \in Procs, EnterRefresh(p) PROVE Snapshots'
  BY <1>1, <1>6, <1>10, RefreshedEffect DEF EnterRefresh, provider, state
<1>11. ASSUME NEW p \in Procs, AcquireLock(p) PROVE Snapshots'
  BY <1>1, <1>6, <1>11 DEF AcquireLock, provider, state
<1>12. ASSUME NEW p \in Procs, RefreshOk(p) PROVE Snapshots'
  BY <1>2, <1>12, RefreshedEffect DEF RefreshOk
<1>13. ASSUME NEW p \in Procs, NEW error \in FetchError, RefreshErr(p, error) PROVE Snapshots'
  BY <1>1, <1>6, <1>13, RefreshedEffect DEF RefreshErr, provider
<1>14. CASE BootOk
  BY <1>2, <1>14 DEF BootOk, Procs
<1>15. ASSUME NEW error \in FetchError, BootErr(error) PROVE Snapshots'
  BY <1>1, <1>15 DEF BootErr, provider, state, Procs
<1> QED
  BY <1>3, <1>4, <1>5, <1>7, <1>8, <1>9, <1>10, <1>11, <1>12, <1>13, <1>14, <1>15 DEF Next, Underway

(* The strengthened invariant, for the step simulation below. *)
THEOREM RefinementInvariant == Spec => []RInv
<1>1. Init => RInv
  BY InitType, InitMutex, InitExchanges, InitFilled, InitFreshness, InitAnswered,
     InitWitnessed, InitBegun, InitSnapshots, ConstantsAssumption
     DEF RInv, IInv, FixedKeys, Init, Procs
<1>2. RInv /\ [Next]_vars => RInv'
  BY NextType, NextMutex, NextExchanges, NextFilled, NextFreshness, NextAnswered,
     NextWitnessed, NextFixedKeys, NextBegun, NextSnapshots DEF RInv, IInv
<1> QED BY <1>1, <1>2, PTL DEF Spec

------------------------------------------------------------------------------
(* The step simulation. *)

(* Both modules select and judge keys the same way. *)
LEMMA SameJudgement ==
  /\ \A doc : Contract!jwk_set_to_keys(doc) = jwk_set_to_keys(doc)
  /\ \A doc, token : Contract!Lacks(doc, token) <=> Lacks(doc, token)
  /\ \A token : Contract!CacheVerdict(token) =
       IF Stale THEN "JwksStale" ELSE validate_with_keys(keys, token)
  /\ Contract!NoCall = NoCall
BY DEF Contract!jwk_set_to_keys, jwk_set_to_keys, Contract!Lacks, Lacks,
       Contract!matching_keys, matching_keys, Contract!CacheVerdict,
       Contract!validate_with_keys, validate_with_keys, Contract!Decodes, Decodes,
       Contract!NoCall, NoCall

(* A call is pending in the contract while its future is under way. *)
LEMMA SamePending ==
  ASSUME RInv, NEW c \in Callers
  PROVE  Contract!Pending(c) <=> pc[c] \notin {"idle", "done"}
BY SameJudgement DEF RInv, IInv, Begun, Answered, Contract!Pending

LEMMA InitSimulation == Init => Contract!Init
BY ConstantsAssumption, SameJudgement DEF Init, Contract!Init, Serving, Stale, Procs

(* A step the contract does not see. *)
LEMMA HiddenStep ==
  ASSUME UNCHANGED <<published, rev, keys, keysRev, age, calls>>, Serving' = Serving
  PROVE  UNCHANGED Contract!vars
BY DEF calls, Stale, Contract!vars

(* A process that is past its construction moves: the validator still       *)
(* exists, or still does not.                                              *)
LEMMA ServingKept ==
  ASSUME TypeOK, NEW p \in Procs, NEW label, Goto(p, label),
         p = Task => Serving /\ label \notin {"boot", "failed"}
  PROVE  Serving' = Serving
BY GotoEffect, ConstantsAssumption DEF Serving, Procs

(* A pending call gets an answer the cache did not move for. *)
LEMMA AnswerSimulation ==
  ASSUME RInv, NEW c \in Callers, NEW verdict, Finish(c, verdict),
         UNCHANGED <<provider, state, call, absent>>,
         pc[c] \notin {"idle", "done"}, Contract!Allowed(c, verdict)
  PROVE  Contract!Answer(c, verdict) /\ verdict \in Contract!AnyVerdict
<1>1. Serving' = Serving
  BY ServingKept, ConstantsAssumption DEF RInv, IInv, Finish, Procs
<1>2. Contract!Pending(c)
  BY SamePending
<1>3. verdict \in Contract!AnyVerdict
  BY SameJudgement, VerdictOfKeys DEF Contract!Allowed, Contract!AnyVerdict
<1> QED
  BY <1>1, <1>2, <1>3 DEF Contract!Answer, Finish, provider, state, Stale

(* An unknown kid was unknown to the provider during the call, when the     *)
(* call's own refresh or its second look says so.                          *)
LEMMA UnknownIsAbsent ==
  ASSUME RInv, HasRemote, NEW c \in Callers, call[c].op = "validate_async",
         \/ pc[c] = "retry" /\ validate_with_keys(keys, call[c].token) = "NoMatchingKey"
         \/ pc[c] = "fetch" /\ FetchFailed(c, "NoMatchingKey")
  PROVE  absent[c]
<1>1. Witness(c)
  BY DEF RInv, IInv, Witnessed, Validating
<1>2. CASE pc[c] = "retry" /\ validate_with_keys(keys, call[c].token) = "NoMatchingKey"
  BY <1>1, <1>2, VerdictOfKeys DEF Witness
<1>3. CASE pc[c] = "fetch" /\ FetchFailed(c, "NoMatchingKey")
  <2>1. resp[c] # NoResponse /\ Lacks(resp[c].doc, call[c].token)
    BY <1>3 DEF FetchFailed, Lacks, matching_keys
  <2> QED BY <1>1, <2>1 DEF Witness, Procs
<1> QED BY <1>2, <1>3

(* Installing a response moves the cache forward. *)
LEMMA InstallSimulation ==
  ASSUME RInv, HasRemote, NEW p \in Procs, FetchedKeys(p), Install(p),
         UNCHANGED provider, Serving'
  PROVE  Contract!Advance
<1>1. /\ resp[p].rev \in keysRev..rev /\ resp[p].doc \in Docs
      /\ resp[p].rev = rev => resp[p].doc = published
      /\ Serving /\ resp[p].rev = keysRev => keys = jwk_set_to_keys(resp[p].doc)
  BY DEF RInv, IInv, TypeOK, Exchanges, Snapshots, FetchedKeys, Response
<1>2. /\ keys' = jwk_set_to_keys(resp[p].doc) /\ keys' # {} /\ keys' \subseteq Usable
      /\ keysRev' = resp[p].rev
  BY <1>1, UsableType DEF Install, FetchedKeys
<1>3. Stale' = FALSE
  BY ConstantsAssumption DEF Install, Stale
<1> QED
  BY <1>1, <1>2, <1>3, SameJudgement DEF Contract!Advance, provider, Usable

LEMMA StepSimulation == RInv /\ [Next]_vars => [Contract!Next]_Contract!vars
<1> SUFFICES ASSUME RInv, [Next]_vars PROVE [Contract!Next]_Contract!vars
  OBVIOUS
<1> USE ConstantsAssumption
<1>0. /\ TypeOK /\ Mutex /\ Begun
      /\ \A p \in Procs : pc[p] \notin {"boot", "failed", "idle"} => Serving
      /\ \A p \in Procs : pc[p] \in {"wait", "fetch", "retry"} => HasRemote
  BY DEF RInv, IInv, Mutex, Serving, FixedKeys, Procs
(* A process that moves on without the cache, the calls or the clock. *)
<1>1. ASSUME NEW p \in Procs, NEW label, label \notin {"boot", "failed"}, Goto(p, label),
             p = Task => Serving, UNCHANGED <<published, rev, keys, keysRev, age, calls>>
      PROVE  UNCHANGED Contract!vars
  BY <1>0, <1>1, HiddenStep, ServingKept
<1>2. ASSUME NEW c \in Callers, NEW verdict, Finish(c, verdict),
             UNCHANGED <<provider, state, call, absent>>,
             pc[c] \notin {"idle", "done"}, Contract!Allowed(c, verdict)
      PROVE  Contract!Next
  BY <1>2, AnswerSimulation DEF Contract!Next
<1>3. ASSUME NEW doc \in Docs, Rotate(doc) PROVE Contract!Next
  <2>1. \A c \in Callers :
          Validating(c) <=> Contract!Pending(c) /\ call[c].op = "validate_async"
    BY <1>0, SamePending DEF Begun, Validating, NoCall
  <2>2. Serving' = Serving /\ Stale' = Stale
    BY <1>3 DEF Rotate, state, Serving, Stale
  <2>3. absent' = [c \in Callers |-> absent[c] \/
          (Contract!Pending(c) /\ call[c].op = "validate_async"
             /\ Contract!Lacks(doc, call[c].token))]
    BY <1>3, <2>1, SameJudgement DEF Rotate
  <2>4. Contract!Publish(doc)
    BY <1>3, <2>2, <2>3 DEF Rotate, state, Contract!Publish
  <2> QED BY <2>4 DEF Contract!Next
<1>4. ASSUME NEW p \in Procs, Serve(p) PROVE UNCHANGED Contract!vars
  BY <1>4, HiddenStep DEF Serve, provider, state, Serving
<1>5. CASE Tick
  <2>1. Serving' = Serving /\ UNCHANGED <<published, rev, keys, keysRev, calls>>
    BY <1>5 DEF Tick, Serving
  <2>2. CASE age' = age
    BY <2>1, <2>2, HiddenStep
  <2>3. CASE age' # age
    <3>1. Serving /\ age' >= age /\ age \in Nat /\ age' \in Nat
      BY <1>0, <1>5, <2>3, LaterType DEF Tick, Serving, TypeOK
    <3>2. CASE Stale' = Stale
      BY <2>1, <3>2 DEF Contract!vars, calls
    <3>3. CASE Stale' # Stale
      <4>1. HasRemote /\ Stale' = TRUE
        BY <3>1, <3>3 DEF Stale
      <4>2. Contract!Expire
        BY <2>1, <3>1, <4>1 DEF Contract!Expire, calls
      <4> QED BY <4>2 DEF Contract!Next
    <3> QED BY <3>2, <3>3
  <2> QED BY <2>2, <2>3
<1>6. ASSUME NEW c \in Callers, NEW token \in Token,
             Validate(c, token) \/ ValidateAsync(c, token)
      PROVE  Contract!Next
  <2>1. /\ Serving' = Serving /\ Stale' = Stale /\ Serving
        /\ UNCHANGED <<published, rev, keys, keysRev>> /\ call[c] = NoCall
    BY <1>0, <1>6, ServingKept
       DEF Validate, ValidateAsync, Begin, Begun, Finish, provider, state, Stale, Procs
  <2>2. FirstVerdict(token) = IF ~token.header THEN "Header" ELSE Contract!CacheVerdict(token)
    BY SameJudgement DEF FirstVerdict
  <2>3. ASSUME Validate(c, token) PROVE Contract!Ask(c, "validate", token)
    BY <2>1, <2>2, <2>3, SameJudgement DEF Validate, Begin, Finish, Contract!Ask
  <2>4. ASSUME ValidateAsync(c, token), ~UnknownKid(token)
        PROVE  Contract!Ask(c, "validate_async", token)
    BY <2>1, <2>2, <2>4, SameJudgement
       DEF ValidateAsync, UnknownKid, Begin, Finish, Contract!Ask
  <2>5. ASSUME ValidateAsync(c, token), UnknownKid(token) PROVE Contract!AskUnknown(c, token)
    BY <2>1, <2>2, <2>5, SameJudgement
       DEF ValidateAsync, UnknownKid, Begin, Contract!AskUnknown
  <2> QED BY <1>6, <2>3, <2>4, <2>5 DEF Contract!Next
<1>7. ASSUME NEW c \in Callers, CallRefresh(c) PROVE Contract!Next
  <2>1. /\ Serving' = Serving /\ Stale' = Stale /\ Serving
        /\ UNCHANGED <<published, rev, keys, keysRev>> /\ call[c] = NoCall
    BY <1>0, <1>7, ServingKept DEF CallRefresh, Begin, Begun, provider, state, Stale, Procs
  <2>2. Contract!AskRefresh(c)
    BY <1>7, <2>1, SameJudgement DEF CallRefresh, Begin, Contract!AskRefresh
  <2> QED BY <2>2 DEF Contract!Next
<1>8. ASSUME NEW c \in Callers, Retry(c) PROVE Contract!Next
  <2>1. HasRemote /\ call[c].op = "validate_async"
    BY <1>0, <1>8 DEF Retry, Begun, Procs
  <2>2. Contract!Allowed(c, IF Stale THEN "JwksStale"
                            ELSE validate_with_keys(keys, call[c].token))
    BY <1>8, <2>1, UnknownIsAbsent, SameJudgement DEF Retry, Contract!Allowed
  <2> QED BY <1>2, <1>8, <2>2 DEF Retry
<1>9. CASE Wake
  BY <1>0, <1>1, <1>9 DEF Wake, provider, state, Procs
<1>10. ASSUME NEW p \in Procs, EnterRefresh(p) PROVE [Contract!Next]_Contract!vars
  <2>1. CASE HasRemote
    BY <1>0, <1>1, <1>10, <2>1 DEF EnterRefresh, provider, state, calls
  <2>2. CASE ~HasRemote
    <3>1. /\ p \in Callers /\ call[p].op = "refresh_now" /\ pc[p] = "refresh"
          /\ Refreshed(p, "Ok") /\ UNCHANGED <<provider, state, call, absent>>
      BY <1>10, <2>2 DEF EnterRefresh, RInv, FixedKeys, Procs
    <3>2. Finish(p, "Ok")
      BY <3>1 DEF Refreshed
    <3>3. Contract!Allowed(p, "Ok")
      BY <2>2, <3>1 DEF Contract!Allowed
    <3> QED BY <1>2, <3>1, <3>2, <3>3
  <2> QED BY <2>1, <2>2
<1>11. ASSUME NEW p \in Procs, AcquireLock(p) PROVE UNCHANGED Contract!vars
  BY <1>0, <1>1, <1>11 DEF AcquireLock, provider, state
<1>12. ASSUME NEW p \in Procs, RefreshOk(p) PROVE Contract!Next
  <2>1. HasRemote /\ Serving
    BY <1>0, <1>12 DEF RefreshOk
  <2>2. Serving'
    <3>1. PICK label \in {"sleep", "retry", "done"} : Goto(p, label)
      BY <1>12 DEF RefreshOk, Refreshed, Finish
    <3> QED BY <2>1, <3>1, <1>0, ServingKept
  <2>3. Contract!Advance
    BY <1>12, <2>1, <2>2, InstallSimulation DEF RefreshOk
  <2>4. CASE UNCHANGED result
    BY <1>12, <2>3, <2>4 DEF RefreshOk, Contract!Refresh, Contract!Next, provider
  <2>5. CASE p \in Callers /\ call[p].op = "refresh_now" /\ Finish(p, "Ok")
    <3>1. Contract!Pending(p)
      BY <1>12, SamePending, <2>5 DEF RefreshOk
    <3>2. Contract!AnswerRefresh(p)
      BY <1>12, <2>3, <2>5, <3>1 DEF RefreshOk, Finish, provider, Contract!AnswerRefresh
    <3> QED BY <2>5, <3>2 DEF Contract!Next
  <2> QED BY <1>12, <2>4, <2>5 DEF RefreshOk, Refreshed, Procs
<1>13. ASSUME NEW p \in Procs, NEW error \in FetchError, RefreshErr(p, error)
       PROVE  [Contract!Next]_Contract!vars
  <2>1. /\ HasRemote /\ Serving /\ pc[p] = "fetch" /\ FetchFailed(p, error)
        /\ UNCHANGED <<published, rev, keys, keysRev, age, call, absent>>
    BY <1>0, <1>13 DEF RefreshErr, provider
  <2>2. CASE p = Task
    BY <1>1, <1>13, <2>1, <2>2 DEF RefreshErr, Refreshed, calls
  <2>3. CASE p \in Callers
    <3>1. Finish(p, error)
      BY <1>13, <2>3 DEF RefreshErr, Refreshed, FetchError
    <3>2. Contract!Allowed(p, error)
      BY <2>1, <2>3, UnknownIsAbsent DEF Contract!Allowed, FetchError
    <3>3. Serving' = Serving
      BY <1>0, <2>3, <3>1, ServingKept DEF Finish, Procs
    <3>4. Contract!Answer(p, error)
      BY <2>1, <2>3, <3>1, <3>2, <3>3, SamePending DEF Contract!Answer, Finish, Stale
    <3> QED BY <2>3, <3>4 DEF Contract!Next, Contract!AnyVerdict, FetchError
  <2> QED BY <2>2, <2>3 DEF Procs
<1>14. CASE BootOk
  <2>1. HasRemote
    BY <1>14 DEF BootOk, RInv, FixedKeys
  <2>2. Serving'
    BY <1>0, <1>14, GotoEffect DEF BootOk, Serving, Procs
  <2>3. Contract!Advance
    BY <1>14, <2>1, <2>2, InstallSimulation DEF BootOk, Procs
  <2> QED BY <1>14, <2>3 DEF BootOk, Contract!Refresh, Contract!Next, provider, calls
<1>15. ASSUME NEW error \in FetchError, BootErr(error) PROVE UNCHANGED Contract!vars
  <2>1. Serving' = Serving
    BY <1>0, <1>15, GotoEffect DEF BootErr, Serving, Procs
  <2> QED BY <1>15, <2>1, HiddenStep DEF BootErr, provider, state
<1>16. ASSUME NEW c \in Callers, Cancel(c) PROVE Contract!Next
  <2>1. Contract!Allowed(c, "Cancelled")
    BY DEF Contract!Allowed
  <2> QED BY <1>2, <1>16, <2>1 DEF Cancel
<1>17. CASE UNCHANGED vars
  BY <1>17, HiddenStep DEF vars, provider, state, Serving
<1> QED
  BY <1>3, <1>4, <1>5, <1>6, <1>7, <1>8, <1>9, <1>10, <1>11, <1>12, <1>13, <1>14,
     <1>15, <1>16, <1>17 DEF Next, Underway

(* JwksCache implements ValidatorContract: the lock, the queue, the          *)
(* exchanges and the cancellations of src/jwt.rs are invisible to callers,  *)
(* who get every answer as if the cache were consulted in one step.        *)
THEOREM Refinement == Spec => ImplementsContract
BY InitSimulation, StepSimulation, RefinementInvariant, PTL
   DEF Spec, ImplementsContract, Contract!Spec

==============================================================================
