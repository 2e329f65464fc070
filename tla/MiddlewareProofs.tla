-------------------------- MODULE MiddlewareProofs --------------------------
(* What TLAPS proves of Middleware, for every value of its constants: that  *)
(* it runs the validator within the behaviours JwksCacheProofs is about,    *)
(* and whom it lets through.                                               *)
EXTENDS Middleware, JwksCacheProofs, Inductions

------------------------------------------------------------------------------
(* The validator within the middleware. *)

(* Every step of the middleware is a step of the validator, or none of it. *)
LEMMA StepIsValidatorStep == [Next_http]_all_vars => [Next]_vars
<1> SUFFICES ASSUME [Next_http]_all_vars PROVE [Next]_vars
  OBVIOUS
<1>1. ASSUME NEW c \in Callers, NEW req \in Requests,
             Permit(c, req) \/ Deny(c, req) \/ Challenge(c, req)
      PROVE  UNCHANGED vars
  BY <1>1 DEF Permit, Deny, Challenge
<1>2. ASSUME NEW c \in Callers, NEW req \in Requests, Authenticate(c, req)
      PROVE  Next
  <2>1. Token_of(req) \in Token
    BY <1>2, RequestsAssumption DEF Authenticate
  <2> QED BY <1>2, <2>1 DEF Authenticate, Next
<1>3. ASSUME NEW c \in Callers, Refresh(c) PROVE Next
  BY <1>3 DEF Refresh, Next
<1>4. CASE Proceed
  BY <1>4 DEF Proceed, Next
<1>5. CASE UNCHANGED all_vars
  BY <1>5 DEF all_vars
<1>6. ASSUME NEW c \in Callers, NEW token \in Token, Check(c, token) PROVE Next
  BY <1>6 DEF Check, Next
<1> QED BY <1>1, <1>2, <1>3, <1>4, <1>5, <1>6 DEF Next_http

(* Whatever holds of the validator on its own holds within the middleware:  *)
(* requests only ever call validate_async, and only when it exists.        *)
THEOREM ValidatorWithin == Spec_http => Spec
<1>1. Init_http => Init
  BY DEF Init_http
<1> QED BY <1>1, StepIsValidatorStep, PTL DEF Spec_http, Spec

------------------------------------------------------------------------------
(* What a requirement and a decision mean under the access rules. *)

(* The index requirement looks for is that of the first secure endpoint    *)
(* that applies, and 0 only if none does.                                  *)
LEMMA FirstSecure ==
  ASSUME config \in Configs, NEW req
  PROVE  LET secure == SelectInSeq(config.secure_endpoints,
                         LAMBDA endpoint : Applies(endpoint, req.method, req.path))
         IN IF secure = 0 THEN Securing(req) = {} ELSE secure \in Securing(req)
<1> DEFINE n == Len(config.secure_endpoints)
           I == {i \in 1..n : Applies(config.secure_endpoints[i], req.method, req.path)}
<1>1. n \in Nat /\ DOMAIN config.secure_endpoints = 1..n
  BY RequestsAssumption
<1>2. SelectInSeq(config.secure_endpoints,
        LAMBDA endpoint : Applies(endpoint, req.method, req.path))
      = IF I # {} THEN Min(I) ELSE 0
  BY DEF SelectInSeq
<1>3. CASE I = {}
  BY <1>1, <1>2, <1>3 DEF Securing
<1>4. CASE I # {}
  <2>1. I \in SUBSET Nat
    BY <1>1
  <2>2. Min(I) \in I /\ \A i \in I : Min(I) <= i
    <3> HIDE DEF I
    <3> QED BY <1>4, <2>1, LeastNumber
  <2>3. PICK first \in I : first = Min(I) /\ \A i \in I : first <= i
    BY <2>2
  <2>4. first \in 1..n /\ Applies(config.secure_endpoints[first], req.method, req.path)
    OBVIOUS
  <2>5. ASSUME NEW j \in 1..(first - 1)
        PROVE  ~Applies(config.secure_endpoints[j], req.method, req.path)
    <3>1. j \in 1..n /\ ~(first <= j)
      BY <1>1, <2>4
    <3> QED BY <2>3, <3>1
  <2>6. first \in Securing(req) /\ first # 0
    BY <1>1, <2>4, <2>5 DEF Securing
  <2> QED BY <1>2, <1>4, <2>3, <2>6
<1> QED BY <1>3, <1>4

(* What each requirement says of the rules. *)
LEMMA RequirementMeaning ==
  ASSUME config \in Configs, NEW req
  PROVE  LET required == Required(req) IN
         /\ required.kind \in {"PermitAll", "DenyAll", "Authenticated", "AnyAuthority"}
         /\ required.kind = "PermitAll" => OpenToAll(req)
         /\ required.kind = "DenyAll" =>
              \/ Blacklisted(req)
              \/ ~Open(req) /\ Securing(req) = {} /\ config.other_endpoints = "Deny"
         /\ required.kind \in {"Authenticated", "AnyAuthority"} =>
              ~Blacklisted(req) /\ ~Open(req)
         /\ required.kind = "Authenticated" =>
              Securing(req) = {} /\ config.other_endpoints = "Authenticated"
         /\ required.kind = "AnyAuthority" =>
              \E i \in Securing(req) : required.roles = config.secure_endpoints[i].roles
<1> DEFINE secure == SelectInSeq(config.secure_endpoints,
                       LAMBDA endpoint : Applies(endpoint, req.method, req.path))
<1>1. IF secure = 0 THEN Securing(req) = {} ELSE secure \in Securing(req)
  BY FirstSecure
<1>2. config.other_endpoints \in {"Allow", "Deny", "Authenticated"}
  BY RequestsAssumption
<1>3. Required(req) = IF Blacklisted(req) THEN DenyAll
                      ELSE IF Open(req) THEN PermitAll
                      ELSE IF secure # 0 THEN AnyAuthority(config.secure_endpoints[secure].roles)
                      ELSE other_requirement(config)
  BY DEF Required, requirement, Blacklisted, Open
<1> HIDE DEF secure
<1>4. other_requirement(config) = IF config.other_endpoints = "Allow" THEN PermitAll
                                  ELSE IF config.other_endpoints = "Deny" THEN DenyAll
                                  ELSE Authenticated
  BY <1>2 DEF other_requirement
<1> QED
  BY <1>1, <1>2, <1>3, <1>4
     DEF PermitAll, DenyAll, Authenticated, AnyAuthority, OpenToAll

(* Whom authorize allows, the rules let through; whom it forbids although   *)
(* the request needs a token, they do not.                                 *)
LEMMA DecisionMeaning ==
  ASSUME config \in Configs, NEW req, NEW principal, principal # NoValue,
         Required(req).kind \in {"Authenticated", "AnyAuthority"}
  PROVE  LET decision == authorize(config, req.method, req.path, principal) IN
         /\ decision = "Allow" <=> OpenTo(req, principal)
         /\ decision \in {"Allow", "Forbidden"}
<1>1. CASE Required(req).kind = "Authenticated"
  BY <1>1, RequirementMeaning DEF authorize, Required, OpenTo
<1>2. CASE Required(req).kind = "AnyAuthority"
  <2>1. PICK i \in Securing(req) : Required(req).roles = config.secure_endpoints[i].roles
    BY <1>2, RequirementMeaning
  <2>2. \A j \in Securing(req) : j = i
    BY <2>1, RequestsAssumption DEF Securing
  <2>3. authorize(config, req.method, req.path, principal)
        = IF principal.authorities \cap Required(req).roles # {} THEN "Allow" ELSE "Forbidden"
    BY <1>2 DEF authorize, Required, has_any_authority
  <2>4. OpenTo(req, principal) <=> principal.authorities \cap Required(req).roles # {}
    BY <1>2, <2>1, <2>2, RequirementMeaning DEF OpenTo
  <2> QED BY <2>3, <2>4
<1> QED BY <1>1, <1>2

------------------------------------------------------------------------------
(* What the validator does to the calls of others, and to calls under way. *)

(* No step but a new call touches a call that is not under way.            *)
LEMMA UnderwayKeeps ==
  ASSUME IInv, Underway, NEW c \in Callers
  PROVE  /\ call' = call
         /\ pc[c] # "idle" => pc'[c] # "idle"
         /\ pc[c] \in {"idle", "done"} => pc'[c] = pc[c] /\ result'[c] = result[c]
<1> DEFINE Goal ==
      /\ call' = call
      /\ pc[c] # "idle" => pc'[c] # "idle"
      /\ pc[c] \in {"idle", "done"} => pc'[c] = pc[c] /\ result'[c] = result[c]
<1> USE ConstantsAssumption
<1>0. /\ pc \in [Procs -> TaskLabel \cup CallerLabel]
      /\ result \in [Callers -> Verdict \cup {None}]
      /\ c \in Procs /\ c # Task /\ TypeOK
  BY DEF IInv, TypeOK, Procs
(* A step of p, which is not idle nor done. *)
<1>1. ASSUME NEW p \in Procs, NEW label, Goto(p, label), label # "idle",
             p = c => pc[p] \notin {"idle", "done"},
             p # c => result'[c] = result[c], UNCHANGED call
      PROVE  Goal
  BY <1>0, <1>1, GotoEffect
<1>2. ASSUME NEW d \in Callers, NEW verdict, Finish(d, verdict),
             d = c => pc[d] \notin {"idle", "done"}, UNCHANGED call
      PROVE  Goal
  BY <1>0, <1>1, <1>2 DEF Finish, Procs
<1>3. ASSUME NEW p \in Procs, NEW verdict, Refreshed(p, verdict),
             pc[p] \notin {"idle", "done"}, UNCHANGED call
      PROVE  Goal
  <2>1. \E label \in {"sleep", "retry", "done"} : Goto(p, label)
    BY <1>3, RefreshedEffect
  <2>2. p # c => result'[c] = result[c]
    BY <1>0, <1>3 DEF Refreshed, Finish
  <2> QED BY <1>1, <1>3, <2>1, <2>2
<1>4. CASE UNCHANGED <<pc, call, result>>
  BY <1>4
<1>5. ASSUME NEW doc \in Docs, Rotate(doc) PROVE Goal
  BY <1>4, <1>5 DEF Rotate
<1>6. ASSUME NEW p \in Procs, Serve(p) PROVE Goal
  BY <1>4, <1>6 DEF Serve, calls
<1>7. CASE Tick
  BY <1>4, <1>7 DEF Tick, calls
<1>8. ASSUME NEW d \in Callers, Retry(d) PROVE Goal
  BY <1>2, <1>8 DEF Retry
<1>9. CASE Wake
  BY <1>0, <1>1, <1>9 DEF Wake, calls, Procs
<1>10. ASSUME NEW p \in Procs, EnterRefresh(p) PROVE Goal
  <2>1. CASE Refreshed(p, "Ok")
    BY <1>3, <1>10, <2>1 DEF EnterRefresh
  <2>2. CASE Goto(p, "wait") /\ UNCHANGED result
    BY <1>1, <1>10, <2>2 DEF EnterRefresh
  <2> QED BY <1>10, <2>1, <2>2 DEF EnterRefresh
<1>11. ASSUME NEW p \in Procs, AcquireLock(p) PROVE Goal
  BY <1>1, <1>11 DEF AcquireLock, calls
<1>12. ASSUME NEW p \in Procs, RefreshOk(p) PROVE Goal
  BY <1>3, <1>12 DEF RefreshOk
<1>13. ASSUME NEW p \in Procs, NEW error \in FetchError, RefreshErr(p, error) PROVE Goal
  BY <1>3, <1>13 DEF RefreshErr
<1>14. CASE BootOk
  BY <1>0, <1>1, <1>14 DEF BootOk, calls, Procs
<1>15. ASSUME NEW error \in FetchError, BootErr(error) PROVE Goal
  BY <1>0, <1>1, <1>15 DEF BootErr, calls, Procs
<1>16. ASSUME NEW d \in Callers, Cancel(d) PROVE Goal
  BY <1>2, <1>16 DEF Cancel
<1> QED
  BY <1>5, <1>6, <1>7, <1>8, <1>9, <1>10, <1>11, <1>12, <1>13, <1>14, <1>15, <1>16
     DEF Underway

(* A new call concerns its caller only. *)
LEMMA BeginKeeps ==
  ASSUME IInv, NEW d \in Callers, NEW token,
         Validate(d, token) \/ ValidateAsync(d, token) \/ CallRefresh(d)
  PROVE  /\ pc[d] = "idle" /\ pc'[d] # "idle" /\ result[d] = None
         /\ ValidateAsync(d, token) => call'[d] = [op |-> "validate_async", token |-> token]
         /\ \A c \in Callers : c # d =>
              call'[c] = call[c] /\ pc'[c] = pc[c] /\ result'[c] = result[c]
<1>1. /\ call \in [Callers -> [op : {"validate", "validate_async"}, token : Token]
                          \cup {[op |-> "refresh_now", token |-> None], NoCall}]
      /\ result \in [Callers -> Verdict \cup {None}]
      /\ TypeOK /\ Answered /\ Callers \subseteq Procs
  BY DEF IInv, TypeOK, Procs
<1>2. \E label \in {"refresh", "done"} : Goto(d, label)
  BY DEF Validate, ValidateAsync, CallRefresh, Finish
<1>3. \A c \in Callers : c # d => result'[c] = result[c]
  BY <1>1 DEF Validate, ValidateAsync, CallRefresh, Finish
<1> QED
  BY <1>1, <1>2, <1>3, GotoEffect DEF Answered, Validate, ValidateAsync, CallRefresh, Begin

------------------------------------------------------------------------------
(* The invariant of the middleware: how each request has been handled.      *)

(* A request that needs no validation has been answered on arrival.         *)
Immediate(c) ==
  \/ Required(request[c]).kind = "PermitAll" /\ response[c] = Forward(NoValue)
  \/ Required(request[c]).kind = "DenyAll" /\ response[c] = Refuse("403")
  \/ /\ Required(request[c]).kind \in {"Authenticated", "AnyAuthority"}
     /\ Token_of(request[c]) = None
     /\ response[c] = Refuse("401")

(* Any other request has its token validated, and is answered as soon as     *)
(* its call of the validator is.                                           *)
Delegated(c) ==
  /\ Required(request[c]).kind \in {"Authenticated", "AnyAuthority"}
  /\ Token_of(request[c]) # None
  /\ call[c] = [op |-> "validate_async", token |-> Token_of(request[c])]
  /\ response[c] = IF result[c] = None THEN Unanswered
                   ELSE Conclude(request[c], result[c])

Handled(c) ==
  request[c] # None => IF pc[c] = "idle" THEN Immediate(c) ELSE Delegated(c)

HInv ==
  /\ config \in Configs
  /\ request \in [Callers -> Requests \cup {None}]
  /\ DOMAIN response = Callers
  /\ \A c \in Callers : Handled(c)

LEMMA InitHInv == Init_http => HInv
BY DEF Init_http, HInv, Handled

LEMMA NextHInv == IInv /\ HInv /\ [Next_http]_all_vars => HInv'
<1> SUFFICES ASSUME IInv, HInv, [Next_http]_all_vars PROVE HInv'
  OBVIOUS
<1> USE ConstantsAssumption
(* A step that does not concern the request of c. *)
<1>1. ASSUME NEW c \in Callers, UNCHANGED config,
             request'[c] = request[c], response'[c] = response[c], pc'[c] = pc[c],
             call'[c] = call[c], result'[c] = result[c]
      PROVE  Handled(c)'
  <2>1. Handled(c)
    BY DEF HInv
  <2> QED BY <1>1, <2>1 DEF Handled, Immediate, Delegated, Required, Conclude
<1>2. ASSUME NEW d \in Callers, NEW req \in Requests, Arrives(d, req),
             NEW r, response' = [response EXCEPT ![d] = r], UNCHANGED vars,
             \/ Required(req).kind = "PermitAll" /\ r = Forward(NoValue)
             \/ Required(req).kind = "DenyAll" /\ r = Refuse("403")
             \/ /\ Required(req).kind \in {"Authenticated", "AnyAuthority"}
                /\ Token_of(req) = None
                /\ r = Refuse("401")
      PROVE  HInv'
  <2>1. /\ config' = config /\ request' = [request EXCEPT ![d] = req]
        /\ pc[d] = "idle" /\ pc' = pc /\ call' = call /\ result' = result
    BY <1>2 DEF Arrives, vars, calls
  <2>2. Handled(d)'
    BY <1>2, <2>1 DEF Handled, Immediate, Required, HInv
  <2>3. ASSUME NEW c \in Callers, c # d PROVE Handled(c)'
    BY <1>1, <1>2, <2>1, <2>3 DEF HInv
  <2> QED BY <1>2, <2>1, <2>2, <2>3 DEF HInv
<1>3. ASSUME NEW c \in Callers, NEW req \in Requests, Permit(c, req) PROVE HInv'
  BY <1>2, <1>3 DEF Permit
<1>4. ASSUME NEW c \in Callers, NEW req \in Requests, Deny(c, req) PROVE HInv'
  BY <1>2, <1>4 DEF Deny
<1>5. ASSUME NEW c \in Callers, NEW req \in Requests, Challenge(c, req) PROVE HInv'
  BY <1>2, <1>5 DEF Challenge
<1>6. ASSUME NEW d \in Callers, NEW req \in Requests, Authenticate(d, req) PROVE HInv'
  <2>1. /\ config' = config /\ request' = [request EXCEPT ![d] = req]
        /\ ValidateAsync(d, Token_of(req)) /\ Token_of(req) # None
        /\ Required(req).kind \in {"Authenticated", "AnyAuthority"}
        /\ response' = [response EXCEPT ![d] =
             IF result'[d] = None THEN Unanswered ELSE Conclude(req, result'[d])]
    BY <1>6 DEF Authenticate, Arrives
  <2>2. /\ pc'[d] # "idle"
        /\ call'[d] = [op |-> "validate_async", token |-> Token_of(req)]
        /\ \A c \in Callers : c # d =>
              call'[c] = call[c] /\ pc'[c] = pc[c] /\ result'[c] = result[c]
    BY <2>1, BeginKeeps
  <2>3. Handled(d)'
    BY <2>1, <2>2 DEF Handled, Delegated, Required, Conclude, HInv
  <2>4. ASSUME NEW c \in Callers, c # d PROVE Handled(c)'
    BY <1>1, <2>1, <2>2, <2>4 DEF HInv
  <2> QED BY <2>1, <2>3, <2>4 DEF HInv
<1>7. ASSUME NEW d \in Callers, NEW token, Refresh(d) \/ Check(d, token) PROVE HInv'
  <2>1. /\ UNCHANGED vars_http /\ request[d] = None
        /\ Validate(d, token) \/ ValidateAsync(d, token) \/ CallRefresh(d)
    BY <1>7 DEF Refresh, Check
  <2>2. Handled(d)'
    BY <2>1 DEF Handled, vars_http
  <2>3. ASSUME NEW c \in Callers, c # d PROVE Handled(c)'
    BY <1>1, <2>1, <2>3, BeginKeeps DEF vars_http
  <2> QED BY <2>1, <2>2, <2>3 DEF HInv, vars_http
<1>8. CASE Proceed
  <2>1. /\ config' = config /\ request' = request
        /\ response' = [c \in Callers |->
             IF request[c] # None /\ result'[c] # result[c]
               THEN Conclude(request[c], result'[c]) ELSE response[c]]
    BY <1>8 DEF Proceed, Answering
  <2>2. ASSUME NEW c \in Callers PROVE Handled(c)'
    <3>0. /\ call' = call
          /\ pc[c] # "idle" => pc'[c] # "idle"
          /\ pc[c] \in {"idle", "done"} => pc'[c] = pc[c] /\ result'[c] = result[c]
      BY <1>8, UnderwayKeeps DEF Proceed
    <3>1. CASE request[c] = None
      BY <2>1, <3>1 DEF Handled
    <3>2. CASE pc[c] \in {"idle", "done"}
      BY <1>1, <2>1, <3>0, <3>2
    <3>3. CASE request[c] # None /\ pc[c] \notin {"idle", "done"}
      <4>1. result[c] = None
        BY <3>3 DEF IInv, Answered
      <4>2. Delegated(c)
        BY <3>3 DEF HInv, Handled
      <4>3. response'[c] = IF result'[c] = None THEN Unanswered
                           ELSE Conclude(request[c], result'[c])
        BY <2>1, <3>3, <4>1, <4>2 DEF Delegated
      <4>4. Delegated(c)'
        BY <2>1, <3>0, <4>2, <4>3 DEF Delegated, Required, Conclude
      <4> QED BY <3>0, <3>3, <4>4 DEF Handled
    <3> QED BY <3>1, <3>2, <3>3
  <2> QED BY <2>1, <2>2 DEF HInv
<1>9. CASE UNCHANGED all_vars
  <2>1. /\ UNCHANGED <<config, request, response, pc, call, result>>
    BY <1>9 DEF all_vars, vars_http, vars, calls
  <2> QED BY <1>1, <2>1 DEF HInv
<1> QED BY <1>3, <1>4, <1>5, <1>6, <1>7, <1>8, <1>9 DEF Next_http

(* Every request that needs no token is answered on arrival, every other     *)
(* one with what its own call of the validator gives (axum.rs:90-157).     *)
THEOREM RequestsHandled == Spec_http => [](IInv /\ HInv)
<1>1. Spec_http => []IInv
  BY ValidatorWithin, InductiveInvariant, PTL
<1> QED BY <1>1, InitHInv, NextHInv, PTL DEF Spec_http

------------------------------------------------------------------------------
(* What the responses say. *)

LEMMA ConcludeMeaning ==
  ASSUME config \in Configs, NEW req, NEW verdict,
         Required(req).kind \in {"Authenticated", "AnyAuthority"}
  PROVE  LET principal == from_claims(Token_of(req).claims, config)
             answer == Conclude(req, verdict)
         IN /\ answer # Unanswered
            /\ answer.status = "inner" =>
                 /\ verdict = "Ok" /\ principal # NoValue
                 /\ answer.principal = principal /\ OpenTo(req, principal)
            /\ answer.status = "403" =>
                 verdict = "Ok" /\ principal # NoValue /\ ~OpenTo(req, principal)
            /\ answer.status = "401" => verdict # "Ok" \/ principal = NoValue
<1> DEFINE principal == from_claims(Token_of(req).claims, config)
<1>1. principal # NoValue =>
        /\ authorize(config, req.method, req.path, principal) = "Allow"
             <=> OpenTo(req, principal)
        /\ authorize(config, req.method, req.path, principal) \in {"Allow", "Forbidden"}
  BY DecisionMeaning
<1> QED BY <1>1 DEF Conclude, error_response, Forward, Refuse, Unanswered

(* 401 and 403 are told apart as the rules demand (axum.rs:162-170).        *)
THEOREM RefusalsJustified == Spec_http => []RefusalsAreJustified
<1>1. IInv /\ HInv => RefusalsAreJustified
  <2> SUFFICES ASSUME IInv, HInv, NEW c \in Callers, request[c] # None
               PROVE  LET req == request[c] IN
                 /\ response[c].status = "403" =>
                      \/ Blacklisted(req)
                      \/ ~Open(req) /\ Securing(req) = {} /\ config.other_endpoints = "Deny"
                      \/ result[c] = "Ok" /\ ~OpenTo(req, from_claims(Token_of(req).claims, config))
                 /\ response[c].status = "401" =>
                      /\ ~Blacklisted(req) /\ ~OpenToAll(req)
                      /\ \/ Token_of(req) = None
                         \/ result[c] # "Ok"
                         \/ from_claims(Token_of(req).claims, config) = NoValue
    BY DEF RefusalsAreJustified
  <2>1. Required(request[c]).kind \in {"Authenticated", "AnyAuthority"} =>
          ~Blacklisted(request[c]) /\ ~OpenToAll(request[c])
    <3>1. CASE Required(request[c]).kind = "Authenticated"
      BY <3>1, RequirementMeaning DEF HInv, OpenToAll
    <3>2. CASE Required(request[c]).kind = "AnyAuthority"
      BY <3>2, RequirementMeaning DEF HInv, OpenToAll
    <3> QED BY <3>1, <3>2
  <2>2. CASE pc[c] = "idle"
    BY <2>1, <2>2, RequirementMeaning DEF HInv, Handled, Immediate, Forward, Refuse
  <2>3. CASE pc[c] # "idle"
    <3>1. Delegated(c) /\ config \in Configs
      BY <2>3 DEF HInv, Handled
    <3>2. CASE result[c] = None
      BY <3>1, <3>2 DEF Delegated, Unanswered
    <3>3. CASE result[c] # None
      BY <2>1, <3>1, <3>3, ConcludeMeaning DEF Delegated
    <3> QED BY <3>2, <3>3
  <2> QED BY <2>2, <2>3
<1> QED BY <1>1, RequestsHandled, PTL

(* Who is forbidden lacks an authority of everybody who is let in, for the   *)
(* same endpoint (policy.rs:90-96).                                        *)
THEOREM DecisionsAreMonotone == Spec_http => []DecisionsMonotone
<1>1. IInv /\ HInv => DecisionsMonotone
  <2> SUFFICES ASSUME IInv, HInv, NEW c \in Callers, NEW d \in Callers,
                      request[c] # None, request[d] # None,
                      request[c].method = request[d].method, request[c].path = request[d].path,
                      response[c].status = "inner", response[d].status = "403"
               PROVE  /\ response[c].principal # NoValue
                      /\ ~(response[c].principal.authorities \subseteq
                             from_claims(Token_of(request[d]).claims, config).authorities)
    BY DEF DecisionsMonotone
  <2>1. Required(request[c]) = Required(request[d])
    BY DEF Required
  <2>2. \/ Required(request[c]).kind = "PermitAll"
        \/ Delegated(c)
    BY DEF HInv, Handled, Immediate, Forward, Refuse
  <2>3. \/ Required(request[d]).kind = "DenyAll"
        \/ Delegated(d)
    BY DEF HInv, Handled, Immediate, Forward, Refuse
  <2>4. Delegated(c) /\ Delegated(d) /\ config \in Configs
    BY <2>1, <2>2, <2>3 DEF Delegated, HInv
  <2>5. /\ response[c].principal # NoValue
        /\ OpenTo(request[c], response[c].principal)
    BY <2>4, ConcludeMeaning DEF Delegated, Unanswered
  <2>6. ~OpenTo(request[d], from_claims(Token_of(request[d]).claims, config))
    BY <2>4, ConcludeMeaning DEF Delegated, Unanswered
  <2>7. /\ Securing(request[c]) = Securing(request[d])
        /\ Blacklisted(request[c]) = Blacklisted(request[d])
        /\ Open(request[c]) = Open(request[d])
    BY DEF Securing, Blacklisted, Open
  <2> QED BY <2>5, <2>6, <2>7 DEF OpenTo
<1> QED BY <1>1, RequestsHandled, PTL

(* What a step may do to a request: leave it, or take up a new one.         *)
LEMMA RequestStep ==
  ASSUME HInv, [Next_http]_all_vars, NEW c \in Callers
  PROVE  /\ config' = config
         /\ request'[c] = None => request[c] = None /\ response'[c] = response[c]
         /\ request[c] = None /\ request'[c] # None => pc[c] = "idle"
<1> USE RequestsAssumption DEF HInv
<1>1. ASSUME NEW d \in Callers, NEW req \in Requests,
             Permit(d, req) \/ Deny(d, req) \/ Challenge(d, req) \/ Authenticate(d, req)
      PROVE  /\ config' = config
             /\ request'[c] = None => request[c] = None /\ response'[c] = response[c]
             /\ request[c] = None /\ request'[c] # None => pc[c] = "idle"
  BY <1>1 DEF Permit, Deny, Challenge, Authenticate, Arrives
<1>2. ASSUME NEW d \in Callers, NEW token, Refresh(d) \/ Check(d, token)
      PROVE  UNCHANGED vars_http
  BY <1>2 DEF Refresh, Check
<1>3. CASE Proceed
  BY <1>3 DEF Proceed, Answering
<1> QED BY <1>1, <1>2, <1>3 DEF Next_http, all_vars, vars_http

(* What reaches the inner service is entitled to, by the rules and by the    *)
(* keys of the very step that lets it through (axum.rs:90-147).            *)
THEOREM OnlyTheEntitled == Spec_http => ForwardedIsEntitled
<1> DEFINE Entitled(c) ==
      LET req == request'[c]
          principal == response'[c].principal
      IN \/ principal = NoValue /\ OpenToAll(req)
         \/ /\ principal # NoValue
            /\ principal = from_claims(Token_of(req).claims, config)
            /\ OpenTo(req, principal)
            /\ \E key \in keys :
                 /\ Verifies(key, Token_of(req))
                 /\ HasRemote => gone[key] <= MaxStale + Timeout
<1>1. ASSUME IInv, HInv, HInv', [Next_http]_all_vars, NEW c \in Callers,
             response[c] = Unanswered, response'[c].status = "inner"
      PROVE  Entitled(c)
  <2>1. /\ config' = config
        /\ request'[c] # None
        /\ request[c] = None => pc[c] = "idle"
    BY <1>1, RequestStep DEF Unanswered
  <2>2. result[c] = None
    <3>1. CASE pc[c] = "idle"
      BY <1>1, <3>1 DEF IInv, Answered
    <3>2. CASE pc[c] # "idle"
      <4>1. Delegated(c) /\ config \in Configs
        BY <1>1, <2>1, <3>2 DEF HInv, Handled
      <4> QED BY <1>1, <4>1, ConcludeMeaning DEF Delegated
    <3> QED BY <3>1, <3>2
  <2>3. CASE pc'[c] = "idle"
    <3>1. Immediate(c)'
      BY <1>1, <2>1, <2>3 DEF HInv, Handled
    <3>2. /\ requirement(config, request'[c].method, request'[c].path).kind = "PermitAll"
          /\ response'[c] = Forward(NoValue)
      BY <1>1, <2>1, <3>1 DEF Immediate, Required, Refuse
    <3>3. PICK req : req = request'[c]
      OBVIOUS
    <3>4. config \in Configs /\ Required(req).kind = "PermitAll"
      BY <1>1, <3>2, <3>3 DEF Required, HInv
    <3>5. OpenToAll(req)
      BY <3>4, RequirementMeaning
    <3> QED BY <3>2, <3>3, <3>5 DEF Forward
  <2>4. CASE pc'[c] # "idle"
    <3>1. Delegated(c)'
      BY <1>1, <2>1, <2>4 DEF HInv, Handled
    <3>2. PICK req : req = request'[c]
      OBVIOUS
    <3>3. /\ Required(req).kind \in {"Authenticated", "AnyAuthority"}
          /\ call'[c] = [op |-> "validate_async", token |-> Token_of(req)]
          /\ response'[c] = IF result'[c] = None THEN Unanswered
                            ELSE Conclude(req, result'[c])
      BY <2>1, <3>1, <3>2 DEF Delegated, Required, Conclude
    <3>4. PICK verdict : verdict = result'[c]
      OBVIOUS
    <3>5. /\ response'[c] = Conclude(req, verdict)
          /\ config \in Configs
      BY <1>1, <3>3, <3>4 DEF Unanswered, HInv
    <3>6. /\ verdict = "Ok"
          /\ response'[c].principal # NoValue
          /\ response'[c].principal = from_claims(Token_of(req).claims, config)
          /\ OpenTo(req, response'[c].principal)
      BY <1>1, <3>3, <3>5, ConcludeMeaning
    <3>7. Accepts(c)
      BY <2>2, <3>3, <3>4, <3>6 DEF Accepts
    <3>8. \E key \in keys : /\ Verifies(key, Token_of(req))
                            /\ HasRemote => gone[key] <= MaxStale + Timeout
      BY <1>1, <3>3, <3>7, StepIsValidatorStep, AcceptedKey
    <3> QED BY <3>2, <3>6, <3>8
  <2> QED BY <2>3, <2>4
<1>2. IInv /\ HInv /\ HInv' /\ [Next_http]_all_vars =>
        [\A c \in Callers : response[c] = Unanswered /\ response'[c].status = "inner" =>
           Entitled(c)]_all_vars
  BY <1>1
<1> QED BY <1>2, RequestsHandled, PTL DEF Spec_http, ForwardedIsEntitled

==============================================================================
