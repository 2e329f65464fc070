--------------------------- MODULE JwksCacheProofs ---------------------------
(* What TLAPS proves of JwksCache, for every value of its constants. *)
EXTENDS JwksCache, SequenceTheorems, TLAPS

------------------------------------------------------------------------------
(* Facts about the operators of the model. *)

(* The verdict of the cached keys is one of three outcomes, and it is       *)
(* NoMatchingKey exactly when no key fits the token.                       *)
LEMMA VerdictOfKeys ==
  ASSUME NEW ks, NEW token
  PROVE  /\ validate_with_keys(ks, token) \in {"NoMatchingKey", "Ok", "Validation"}
         /\ validate_with_keys(ks, token) = "NoMatchingKey"
              <=> matching_keys(ks, token) = {}
BY DEF validate_with_keys

(* Every entry point answers with a verdict. *)
LEMMA VerdictType ==
  ASSUME NEW token
  PROVE  /\ FirstVerdict(token) \in Verdict
         /\ validate_with_keys(keys, token) \in Verdict
BY VerdictOfKeys DEF FirstVerdict, Verdict, FetchError

(* What is taken from a published set is usable. *)
LEMMA UsableType ==
  ASSUME NEW doc \in Docs
  PROVE  jwk_set_to_keys(doc) \subseteq Usable
BY ConstantsAssumption DEF jwk_set_to_keys, Usable

(* The clock of an elapsed time moves by at most one and stays within       *)
(* Horizon.                                                                *)
LEMMA LaterType ==
  ASSUME NEW n \in 0..Horizon
  PROVE  Later(n) \in 0..Horizon /\ Later(n) >= n /\ Later(n) <= n + 1
BY ConstantsAssumption DEF Later

LEMMA LaterNumber ==
  ASSUME NEW n \in Nat
  PROVE  Later(n) \in Nat /\ Later(n) <= n + 1
BY DEF Later

(* Dropping one waiter leaves a queue of waiters. *)
LEMMA DropType ==
  ASSUME NEW S, NEW q \in Seq(S), NEW i \in 1..Len(q)
  PROVE  SubSeq(q, 1, i - 1) \o SubSeq(q, i + 1, Len(q)) \in Seq(S)
<1>1. SubSeq(q, 1, i - 1) \in Seq(S)
  <2>1. \A j \in 1..(i - 1) : q[j] \in S
    OBVIOUS
  <2> QED BY <2>1, SubSeqProperties
<1>2. SubSeq(q, i + 1, Len(q)) \in Seq(S)
  <2>1. \A j \in (i + 1)..Len(q) : q[j] \in S
    OBVIOUS
  <2> QED BY <2>1, SubSeqProperties
<1> QED BY <1>1, <1>2, ConcatProperties

------------------------------------------------------------------------------
(* Type correctness. *)

LEMMA InitType == Init => TypeOK
BY ConstantsAssumption, UsableType
   DEF Init, TypeOK, Procs, NoCall, TaskLabel, CallerLabel

(* The types Goto touches. *)
ControlType ==
  /\ pc \in [Procs -> TaskLabel \cup CallerLabel]
  /\ pc[Task] \in TaskLabel
  /\ \A c \in Callers : pc[c] \in CallerLabel
  /\ timer \in [Procs -> Nat]
  /\ resp \in [Procs -> Response \cup {NoResponse}]

LEMMA GotoType ==
  ASSUME ControlType, NEW p \in Procs, NEW label,
         p = Task => label \in TaskLabel,
         p # Task => label \in CallerLabel,
         Goto(p, label)
  PROVE  ControlType'
BY ConstantsAssumption DEF ControlType, Goto, Procs

LEMMA RefreshedType ==
  ASSUME TypeOK, ControlType, NEW p \in Procs, NEW verdict \in Verdict,
         Refreshed(p, verdict)
  PROVE  /\ ControlType'
         /\ result' \in [Callers -> Verdict \cup {None}]
<1>1. CASE p = Task /\ Goto(p, "sleep") /\ UNCHANGED result
  BY <1>1, GotoType DEF TaskLabel, TypeOK
<1>2. CASE p # Task /\ Goto(p, "retry") /\ UNCHANGED result
  BY <1>2, GotoType DEF CallerLabel, TypeOK
<1>3. CASE p # Task /\ Finish(p, verdict)
  BY <1>3, GotoType DEF CallerLabel, TypeOK, Finish, Procs
<1> QED BY <1>1, <1>2, <1>3 DEF Refreshed

LEMMA NextType == TypeOK /\ [Next]_vars => TypeOK'
<1> SUFFICES ASSUME TypeOK, [Next]_vars PROVE TypeOK'
  OBVIOUS
<1>0. ControlType
  BY DEF TypeOK, ControlType
<1> USE <1>0
<1>1. ASSUME NEW doc \in Docs, Rotate(doc) PROVE TypeOK'
  BY <1>1, ConstantsAssumption DEF TypeOK, Rotate, state, lock, calls
<1>2. ASSUME NEW p \in Procs, Serve(p) PROVE TypeOK'
  BY <1>2, ConstantsAssumption DEF TypeOK, Serve, provider, state, lock, calls, Response
<1>3. CASE Tick
  <2>1. gone' \in [Usable -> 0..Horizon]
    BY <1>3, LaterType, ConstantsAssumption DEF Tick, TypeOK
  <2>2. age' \in 0..Horizon
    BY <1>3, LaterType DEF Tick, TypeOK
  <2>3. timer' \in [Procs -> Nat]
    <3>1. timer \in [Procs -> Nat]
      BY DEF TypeOK
    <3>2. \A p \in Procs : Later(timer[p]) \in Nat /\ timer[p] + 1 \in Nat
      BY <3>1, LaterNumber
    <3> QED BY <1>3, <3>1, <3>2 DEF Tick
  <2> QED BY <1>3, <2>1, <2>2, <2>3 DEF TypeOK, Tick, lock, calls
<1>4. ASSUME NEW c \in Callers, NEW token \in Token, Validate(c, token) PROVE TypeOK'
  <2>1. ControlType' /\ result' \in [Callers -> Verdict \cup {None}]
    BY <1>4, GotoType, VerdictType, ConstantsAssumption
       DEF Validate, Finish, TypeOK, CallerLabel, Procs
  <2> QED BY <1>4, <2>1
          DEF TypeOK, ControlType, Validate, Begin, provider, state, lock
<1>5. ASSUME NEW c \in Callers, NEW token \in Token, ValidateAsync(c, token) PROVE TypeOK'
  <2>1. ControlType' /\ result' \in [Callers -> Verdict \cup {None}]
    <3>1. CASE Goto(c, "refresh") /\ UNCHANGED result
      BY <3>1, GotoType, ConstantsAssumption DEF TypeOK, CallerLabel, Procs
    <3>2. CASE Finish(c, FirstVerdict(token))
      BY <3>2, GotoType, VerdictType, ConstantsAssumption
         DEF Finish, TypeOK, CallerLabel, Procs
    <3> QED BY <1>5, <3>1, <3>2 DEF ValidateAsync
  <2>2. Lacks(published, token) \in BOOLEAN
    BY DEF Lacks
  <2> QED BY <1>5, <2>1, <2>2
          DEF TypeOK, ControlType, ValidateAsync, Begin, provider, state, lock
<1>6. ASSUME NEW c \in Callers, CallRefresh(c) PROVE TypeOK'
  <2>1. ControlType'
    BY <1>6, GotoType, ConstantsAssumption DEF CallRefresh, CallerLabel, Procs
  <2> QED BY <1>6, <2>1
          DEF TypeOK, ControlType, CallRefresh, Begin, provider, state, lock
<1>7. ASSUME NEW c \in Callers, Retry(c) PROVE TypeOK'
  <2>1. ControlType' /\ result' \in [Callers -> Verdict \cup {None}]
    BY <1>7, GotoType, VerdictType, ConstantsAssumption
       DEF Retry, Finish, TypeOK, CallerLabel, Procs, Verdict
  <2> QED BY <1>7, <2>1
          DEF TypeOK, ControlType, Retry, provider, state, lock
<1>8. CASE Wake
  <2>1. ControlType'
    BY <1>8, GotoType DEF Wake, TaskLabel, Procs
  <2> QED BY <1>8, <2>1
          DEF TypeOK, ControlType, Wake, provider, state, lock, calls
<1>9. ASSUME NEW p \in Procs, EnterRefresh(p) PROVE TypeOK'
  <2>1. ControlType' /\ result' \in [Callers -> Verdict \cup {None}]
    BY <1>9, GotoType, RefreshedType, "Ok" \in Verdict
       DEF EnterRefresh, TaskLabel, CallerLabel, TypeOK, Verdict
  <2>2. queue' \in Seq(Procs)
    <3>1. Append(queue, p) \in Seq(Procs)
      BY AppendProperties DEF TypeOK
    <3> QED BY <1>9, <3>1 DEF EnterRefresh, TypeOK
  <2> QED BY <1>9, <2>1, <2>2
          DEF TypeOK, ControlType, EnterRefresh, provider, state
<1>10. ASSUME NEW p \in Procs, AcquireLock(p) PROVE TypeOK'
  <2>1. ControlType'
    BY <1>10, GotoType DEF AcquireLock, TaskLabel, CallerLabel
  <2>2. queue' \in Seq(Procs)
    BY <1>10, HeadTailProperties DEF AcquireLock, TypeOK
  <2> QED BY <1>10, <2>1, <2>2
          DEF TypeOK, ControlType, AcquireLock, provider, state, calls
<1>11. ASSUME NEW p \in Procs, RefreshOk(p) PROVE TypeOK'
  <2>1. ControlType' /\ result' \in [Callers -> Verdict \cup {None}]
    BY <1>11, RefreshedType DEF RefreshOk, Verdict
  <2>2. resp[p] \in Response /\ resp[p].doc \in Docs
    BY <1>11 DEF RefreshOk, FetchedKeys, TypeOK, Response
  <2>3. keys' \subseteq Usable
    BY <1>11, <2>2, UsableType DEF RefreshOk, Install
  <2> QED BY <1>11, <2>1, <2>2, <2>3, ConstantsAssumption
          DEF TypeOK, ControlType, RefreshOk, Install, Response, provider
<1>12. ASSUME NEW p \in Procs, NEW error \in FetchError, RefreshErr(p, error) PROVE TypeOK'
  <2>1. ControlType' /\ result' \in [Callers -> Verdict \cup {None}]
    BY <1>12, RefreshedType DEF RefreshErr, Verdict
  <2> QED BY <1>12, <2>1 DEF TypeOK, ControlType, RefreshErr, provider
<1>13. CASE BootOk
  <2>1. ControlType'
    BY <1>13, GotoType DEF BootOk, TaskLabel, Procs
  <2>2. resp[Task] \in Response /\ resp[Task].doc \in Docs
    BY <1>13 DEF BootOk, FetchedKeys, TypeOK, Procs, Response
  <2>3. keys' \subseteq Usable
    BY <1>13, <2>2, UsableType DEF BootOk, Install
  <2> QED BY <1>13, <2>1, <2>2, <2>3, ConstantsAssumption
          DEF TypeOK, ControlType, BootOk, Install, Response, provider, lock, calls
<1>14. ASSUME NEW error \in FetchError, BootErr(error) PROVE TypeOK'
  <2>1. ControlType'
    BY <1>14, GotoType DEF BootErr, TaskLabel, Procs
  <2> QED BY <1>14, <2>1
          DEF TypeOK, ControlType, BootErr, provider, state, lock, calls
<1>15. ASSUME NEW c \in Callers, Cancel(c) PROVE TypeOK'
  <2>1. ControlType' /\ result' \in [Callers -> Verdict \cup {None}]
    BY <1>15, GotoType, ConstantsAssumption
       DEF Cancel, Finish, TypeOK, CallerLabel, Procs, Verdict
  <2>2. queue' \in Seq(Procs)
    <3>1. CASE queue' = queue
      BY <3>1 DEF TypeOK
    <3>2. ASSUME NEW i \in 1..Len(queue),
                 queue' = SubSeq(queue, 1, i - 1) \o SubSeq(queue, i + 1, Len(queue))
          PROVE  queue' \in Seq(Procs)
      BY <3>2, DropType DEF TypeOK
    <3> QED BY <1>15, <3>1, <3>2 DEF Cancel
  <2> QED BY <1>15, <2>1, <2>2 DEF TypeOK, ControlType, Cancel, provider, state
<1>16. CASE UNCHANGED vars
  BY <1>16 DEF TypeOK, vars, provider, state, lock, calls
<1> QED
  BY <1>1, <1>2, <1>3, <1>4, <1>5, <1>6, <1>7, <1>8, <1>9, <1>10, <1>11, <1>12,
     <1>13, <1>14, <1>15, <1>16 DEF Next, Underway

(* Every variable keeps its type; in particular the background task is      *)
(* always at one of the places of its loop (spawn_refresh_task never ends). *)
THEOREM TypeCorrect == Spec => []TypeOK
BY InitType, NextType, PTL DEF Spec

------------------------------------------------------------------------------
(* The inductive invariant, in layers: each layer is preserved given the    *)
(* ones before it.                                                         *)

(* Exactly the holder of refresh_lock is fetching, and nobody calls the     *)
(* validator before it exists.                                             *)
Mutex ==
  /\ \A p \in Procs : pc[p] = "fetch" <=> holder = p
  /\ ~Serving => \A c \in Callers : pc[c] = "idle"

(* Responses belong to running exchanges, which last no longer than their  *)
(* timeout, and are newer than the cache.                                  *)
Exchanges ==
  /\ keysRev <= rev
  /\ \A p \in Procs :
       /\ Fetching(p) => timer[p] <= Timeout
       /\ resp[p] # NoResponse => /\ Fetching(p)
                                 /\ keysRev <= resp[p].rev
                                 /\ resp[p].rev <= rev

(* How old the keys in circulation are: published ones are current, those   *)
(* in a response have been gone no longer than the exchange has lasted, and *)
(* those in the cache no longer than its age plus one timeout.             *)
Freshness ==
  /\ \A jwk \in Usable : jwk \in published => gone[jwk] = 0
  /\ \A p \in Procs : resp[p] # NoResponse =>
       \A jwk \in jwk_set_to_keys(resp[p].doc) : gone[jwk] <= timer[p]
  /\ HasRemote => \A key \in keys : gone[key] <= age + Timeout

(* The cache holds a key as soon as the validator exists, and none before. *)
Filled == Serving <=> keys # {}

(* A call is answered when it is over, and not before. *)
Answered == \A c \in Callers : result[c] # None <=> pc[c] = "done"

(* What lacks a key for the token of a running call was published during   *)
(* that call: the set served now, the response c itself waits for, and,     *)
(* once c has refreshed, every later response and the cache.               *)
Witness(c) ==
  LET token == call[c].token IN
  /\ Lacks(published, token) => absent[c]
  /\ \A p \in Procs :
       /\ resp[p] # NoResponse
       /\ p = c \/ pc[c] = "retry"
       /\ Lacks(resp[p].doc, token)
       => absent[c]
  /\ pc[c] = "retry" /\ matching_keys(keys, token) = {} => absent[c]

Witnessed == HasRemote => \A c \in Callers : Validating(c) => Witness(c)

(* What Goto does to the mover and to the others. *)
LEMMA GotoEffect ==
  ASSUME TypeOK, NEW p \in Procs, NEW label, Goto(p, label)
  PROVE  /\ pc'[p] = label /\ timer'[p] = 0 /\ resp'[p] = NoResponse
         /\ \A q \in Procs : q # p =>
              pc'[q] = pc[q] /\ timer'[q] = timer[q] /\ resp'[q] = resp[q]
BY DEF TypeOK, Goto

(* After a refresh its caller is out of the lock and of the exchange. *)
LEMMA RefreshedEffect ==
  ASSUME NEW p \in Procs, NEW verdict, Refreshed(p, verdict)
  PROVE  \E label \in {"sleep", "retry", "done"} :
           /\ Goto(p, label)
           /\ label = "sleep" <=> p = Task
           /\ label = "retry" => /\ call[p].op = "validate_async"
                                /\ verdict = "Ok"
                                /\ UNCHANGED result
           /\ label = "done" => result' = [result EXCEPT ![p] = verdict]
BY DEF Refreshed, Finish

LEMMA InitMutex == Init => Mutex
BY ConstantsAssumption DEF Init, Mutex, Procs, Serving

LEMMA NextMutex == TypeOK /\ Mutex /\ [Next]_vars => Mutex'
<1> SUFFICES ASSUME TypeOK, Mutex, [Next]_vars PROVE Mutex'
  OBVIOUS
<1> USE ConstantsAssumption DEF Mutex, Serving, Procs
<1>1. ASSUME UNCHANGED <<pc, holder>> PROVE Mutex'
  BY <1>1
<1>2. ASSUME NEW doc \in Docs, Rotate(doc) PROVE Mutex'
  BY <1>1, <1>2 DEF Rotate, lock
<1>3. ASSUME NEW p \in Procs, Serve(p) PROVE Mutex'
  BY <1>1, <1>3 DEF Serve, lock
<1>4. CASE Tick
  BY <1>1, <1>4 DEF Tick, lock
<1>5. ASSUME NEW c \in Callers, NEW token \in Token, Validate(c, token) PROVE Mutex'
  BY <1>5, GotoEffect DEF Validate, Begin, Finish, lock
<1>6. ASSUME NEW c \in Callers, NEW token \in Token, ValidateAsync(c, token) PROVE Mutex'
  BY <1>6, GotoEffect DEF ValidateAsync, Begin, Finish, lock
<1>7. ASSUME NEW c \in Callers, CallRefresh(c) PROVE Mutex'
  BY <1>7, GotoEffect DEF CallRefresh, Begin, lock
<1>8. ASSUME NEW c \in Callers, Retry(c) PROVE Mutex'
  BY <1>8, GotoEffect DEF Retry, Finish, lock
<1>9. CASE Wake
  BY <1>9, GotoEffect DEF Wake, lock
<1>10. ASSUME NEW p \in Procs, EnterRefresh(p) PROVE Mutex'
  BY <1>10, GotoEffect, RefreshedEffect DEF EnterRefresh
<1>11. ASSUME NEW p \in Procs, AcquireLock(p) PROVE Mutex'
  BY <1>11, GotoEffect DEF AcquireLock
<1>12. ASSUME NEW p \in Procs, RefreshOk(p) PROVE Mutex'
  BY <1>12, GotoEffect, RefreshedEffect DEF RefreshOk
<1>13. ASSUME NEW p \in Procs, NEW error \in FetchError, RefreshErr(p, error) PROVE Mutex'
  BY <1>13, GotoEffect, RefreshedEffect DEF RefreshErr
<1>14. CASE BootOk
  BY <1>14, GotoEffect DEF BootOk, lock
<1>15. ASSUME NEW error \in FetchError, BootErr(error) PROVE Mutex'
  BY <1>15, GotoEffect DEF BootErr, lock
<1>16. ASSUME NEW c \in Callers, Cancel(c) PROVE Mutex'
  <2>1. Goto(c, "done")
    BY <1>16 DEF Cancel, Finish
  <2>2. CASE pc[c] = "wait" /\ UNCHANGED holder
    BY <2>1, <2>2, GotoEffect
  <2>3. CASE pc[c] = "fetch" /\ holder' = None
    BY <2>1, <2>3, GotoEffect
  <2> QED BY <1>16, <2>2, <2>3 DEF Cancel
<1>17. CASE UNCHANGED vars
  BY <1>1, <1>17 DEF vars, lock
<1> QED
  BY <1>2, <1>3, <1>4, <1>5, <1>6, <1>7, <1>8, <1>9, <1>10, <1>11, <1>12, <1>13,
     <1>14, <1>15, <1>16, <1>17 DEF Next, Underway

(* There is at most one HTTP exchange at a time. *)
LEMMA OneExchange ==
  ASSUME TypeOK, Mutex, NEW p \in Procs, Fetching(p), NEW q \in Procs, Fetching(q)
  PROVE  q = p
<1>1. \A c \in Callers : pc[c] # "boot"
  BY DEF TypeOK, CallerLabel
<1>2. CASE pc[Task] = "boot"
  <2>1. \A c \in Callers : ~Fetching(c)
    BY <1>2 DEF Mutex, Serving, Fetching
  <2> QED BY <2>1 DEF Procs
<1>3. CASE pc[Task] # "boot"
  BY <1>1, <1>3 DEF Mutex, Fetching, Procs
<1> QED BY <1>2, <1>3

LEMMA InitExchanges == Init => Exchanges
BY ConstantsAssumption DEF Init, Exchanges, Procs

LEMMA NextExchanges ==
  TypeOK /\ Mutex /\ Exchanges /\ [Next]_vars => Exchanges'
<1> SUFFICES ASSUME TypeOK, Mutex, Exchanges, [Next]_vars PROVE Exchanges'
  OBVIOUS
<1> USE ConstantsAssumption DEF Exchanges, Fetching
<1>0. /\ rev \in Nat /\ keysRev \in Nat
      /\ timer \in [Procs -> Nat]
      /\ \A p \in Procs : resp[p] # NoResponse => resp[p].rev \in Nat
  BY DEF TypeOK, Response
(* A step that only moves one process to another place. *)
<1>1. ASSUME NEW p \in Procs, NEW label, Goto(p, label), UNCHANGED <<rev, keysRev>>
      PROVE  Exchanges'
  BY <1>0, <1>1, GotoEffect
(* A step that installs the response of the only exchange. *)
<1>2. ASSUME NEW p \in Procs, NEW label, Goto(p, label), UNCHANGED rev,
             resp[p] # NoResponse, keysRev' = resp[p].rev,
             \A q \in Procs : resp[q] # NoResponse => q = p,
             label \notin {"boot", "fetch"}
      PROVE  Exchanges'
  BY <1>0, <1>2, GotoEffect
<1>3. ASSUME NEW doc \in Docs, Rotate(doc) PROVE Exchanges'
  BY <1>0, <1>3 DEF Rotate, state
<1>4. ASSUME NEW p \in Procs, Serve(p) PROVE Exchanges'
  <2>1. resp'[p].rev = rev
    BY <1>4 DEF Serve, TypeOK
  <2>2. \A q \in Procs : q # p => resp'[q] = resp[q]
    BY <1>4 DEF Serve, TypeOK
  <2> QED BY <1>0, <1>4, <2>1, <2>2 DEF Serve, provider, state
<1>5. CASE Tick
  <2>1. \A p \in Procs : Fetching(p) => timer[p] < Timeout
    BY <1>0, <1>5 DEF Tick, Overdue
  <2>2. \A p \in Procs : Fetching(p) => timer'[p] = timer[p] + 1
    BY <1>5 DEF Tick
  <2> QED BY <1>0, <1>5, <2>1, <2>2 DEF Tick
<1>6. ASSUME NEW c \in Callers, NEW token \in Token, Validate(c, token) PROVE Exchanges'
  BY <1>1, <1>6 DEF Validate, Finish, provider, state, Procs
<1>7. ASSUME NEW c \in Callers, NEW token \in Token, ValidateAsync(c, token) PROVE Exchanges'
  BY <1>1, <1>7 DEF ValidateAsync, Finish, provider, state, Procs
<1>8. ASSUME NEW c \in Callers, CallRefresh(c) PROVE Exchanges'
  BY <1>1, <1>8 DEF CallRefresh, provider, state, Procs
<1>9. ASSUME NEW c \in Callers, Retry(c) PROVE Exchanges'
  BY <1>1, <1>9 DEF Retry, Finish, provider, state, Procs
<1>10. CASE Wake
  BY <1>1, <1>10 DEF Wake, provider, state, Procs
<1>11. ASSUME NEW p \in Procs, EnterRefresh(p) PROVE Exchanges'
  BY <1>1, <1>11, RefreshedEffect DEF EnterRefresh, provider, state
<1>12. ASSUME NEW p \in Procs, AcquireLock(p) PROVE Exchanges'
  BY <1>1, <1>12 DEF AcquireLock, provider, state
<1>13. ASSUME NEW p \in Procs, RefreshOk(p) PROVE Exchanges'
  <2>1. \A q \in Procs : resp[q] # NoResponse => q = p
    BY <1>13, OneExchange DEF RefreshOk
  <2>2. PICK label \in {"sleep", "retry", "done"} : Goto(p, label)
    BY <1>13, RefreshedEffect DEF RefreshOk
  <2> QED BY <1>2, <1>13, <2>1, <2>2 DEF RefreshOk, Install, FetchedKeys, provider
<1>14. ASSUME NEW p \in Procs, NEW error \in FetchError, RefreshErr(p, error)
       PROVE  Exchanges'
  BY <1>1, <1>14, RefreshedEffect DEF RefreshErr, provider
<1>15. CASE BootOk
  <2>1. \A q \in Procs : resp[q] # NoResponse => q = Task
    BY <1>15, OneExchange DEF BootOk, Procs
  <2> QED BY <1>2, <1>15, <2>1 DEF BootOk, Install, FetchedKeys, provider, Procs
<1>16. ASSUME NEW error \in FetchError, BootErr(error) PROVE Exchanges'
  BY <1>1, <1>16 DEF BootErr, provider, state, Procs
<1>17. ASSUME NEW c \in Callers, Cancel(c) PROVE Exchanges'
  BY <1>1, <1>17 DEF Cancel, Finish, provider, state, Procs
<1>18. CASE UNCHANGED vars
  BY <1>18 DEF vars, provider, state
<1> QED
  BY <1>3, <1>4, <1>5, <1>6, <1>7, <1>8, <1>9, <1>10, <1>11, <1>12, <1>13,
     <1>14, <1>15, <1>16, <1>17, <1>18 DEF Next, Underway

LEMMA InitFilled == Init => Filled
BY DEF Init, Filled, Serving, Procs

LEMMA NextFilled == TypeOK /\ Mutex /\ Filled /\ [Next]_vars => Filled'
<1> SUFFICES ASSUME TypeOK, Mutex, Filled, [Next]_vars PROVE Filled'
  OBVIOUS
<1> USE ConstantsAssumption DEF Filled
<1>1. CASE keys' = keys /\ Serving' = Serving
  BY <1>1
<1>2. ASSUME NEW p \in Procs, FetchedKeys(p), Install(p), Serving' PROVE Filled'
  BY <1>2 DEF FetchedKeys, Install
<1>3. ASSUME NEW c \in Callers, NEW label, Goto(c, label), UNCHANGED keys
      PROVE  Filled'
  BY <1>1, <1>3 DEF Goto, TypeOK, Serving, Procs
<1>4. ASSUME NEW p \in Procs, NEW label, label \notin {"boot", "failed"},
             Goto(p, label), UNCHANGED keys, Serving
      PROVE  Filled'
  BY <1>1, <1>4, GotoEffect DEF Serving, Procs
<1>5. ASSUME NEW c \in Callers PROVE c \in Procs
  BY <1>5 DEF Procs
<1>6. ASSUME NEW p \in Procs, pc[p] \notin {"boot", "failed", "idle"} PROVE Serving
  BY <1>6 DEF Mutex, Serving, Procs
<1>7. ASSUME NEW p \in Procs, EnterRefresh(p) PROVE Filled'
  BY <1>4, <1>6, <1>7, RefreshedEffect DEF EnterRefresh, state
<1>8. ASSUME NEW p \in Procs, AcquireLock(p) PROVE Filled'
  BY <1>4, <1>6, <1>8 DEF AcquireLock, state
<1>9. ASSUME NEW p \in Procs, NEW error \in FetchError, RefreshErr(p, error)
      PROVE  Filled'
  BY <1>4, <1>6, <1>9, RefreshedEffect DEF RefreshErr
<1>10. ASSUME NEW error \in FetchError, BootErr(error) PROVE Filled'
  BY <1>1, <1>10, GotoEffect DEF BootErr, Serving, Procs, state
<1>11. CASE Wake
  BY <1>4, <1>6, <1>11 DEF Wake, state, Procs
<1>12. ASSUME NEW doc \in Docs, Rotate(doc) PROVE Filled'
  BY <1>1, <1>12 DEF Rotate, state, Serving
<1>13. ASSUME NEW p \in Procs, Serve(p) PROVE Filled'
  BY <1>1, <1>13 DEF Serve, state, Serving
<1>14. CASE Tick
  BY <1>1, <1>14 DEF Tick, Serving
<1>15. ASSUME NEW c \in Callers, NEW token \in Token, Validate(c, token) PROVE Filled'
  BY <1>3, <1>15 DEF Validate, Finish, state
<1>16. ASSUME NEW c \in Callers, NEW token \in Token, ValidateAsync(c, token) PROVE Filled'
  BY <1>3, <1>16 DEF ValidateAsync, Finish, state
<1>17. ASSUME NEW c \in Callers, CallRefresh(c) \/ Retry(c) \/ Cancel(c) PROVE Filled'
  BY <1>3, <1>17 DEF CallRefresh, Retry, Cancel, Finish, state
<1>18. ASSUME NEW p \in Procs, RefreshOk(p) PROVE Filled'
  <2>1. Serving
    BY <1>6, <1>18 DEF RefreshOk
  <2>2. Serving'
    BY <1>18, <2>1, RefreshedEffect, GotoEffect DEF RefreshOk, Serving, Procs
  <2> QED BY <1>2, <1>18, <2>2 DEF RefreshOk
<1>19. CASE BootOk
  BY <1>2, <1>19, GotoEffect DEF BootOk, Procs, Serving
<1>20. CASE UNCHANGED vars
  BY <1>1, <1>20 DEF vars, state, Serving
<1> QED
  BY <1>7, <1>8, <1>9, <1>10, <1>11, <1>12, <1>13, <1>14, <1>15, <1>16, <1>17,
     <1>18, <1>19, <1>20 DEF Next, Underway

LEMMA InitFreshness == Init => Freshness
BY ConstantsAssumption DEF Init, Freshness, Procs, Usable

LEMMA NextFreshness ==
  TypeOK /\ Exchanges /\ Filled /\ Freshness /\ [Next]_vars => Freshness'
<1> SUFFICES ASSUME TypeOK, Exchanges, Filled, Freshness, [Next]_vars PROVE Freshness'
  OBVIOUS
<1> USE ConstantsAssumption DEF Freshness
<1>0. /\ age \in Nat /\ timer \in [Procs -> Nat]
      /\ gone \in [Usable -> 0..Horizon] /\ keys \subseteq Usable
      /\ \A p \in Procs : resp[p] # NoResponse => jwk_set_to_keys(resp[p].doc) \subseteq Usable
  BY UsableType DEF TypeOK, Response
(* A step that only moves one process to another place. *)
<1>1. ASSUME NEW p \in Procs, NEW label, Goto(p, label), UNCHANGED <<provider, keys, age>>
      PROVE  Freshness'
  BY <1>0, <1>1, GotoEffect DEF provider
(* A step that installs what p received. *)
<1>2. ASSUME NEW p \in Procs, NEW label, Goto(p, label), UNCHANGED provider,
             FetchedKeys(p), Install(p)
      PROVE  Freshness'
  <2>1. timer[p] <= Timeout
    BY <1>2 DEF Exchanges, FetchedKeys
  <2>2. \A key \in keys' : gone[key] <= timer[p] /\ gone[key] \in Nat
    BY <1>0, <1>2 DEF Install, FetchedKeys
  <2>3. \A key \in keys' : gone'[key] <= age' + Timeout
    BY <1>0, <1>2, <2>1, <2>2 DEF Install, provider
  <2>4. \A q \in Procs : resp'[q] # NoResponse =>
          resp'[q] = resp[q] /\ timer'[q] = timer[q] /\ resp[q] # NoResponse
    BY <1>2, GotoEffect
  <2> QED BY <1>2, <2>3, <2>4 DEF provider
<1>3. ASSUME NEW doc \in Docs, Rotate(doc) PROVE Freshness'
  <2>1. \A jwk \in Usable : gone'[jwk] <= gone[jwk] /\ gone'[jwk] \in Nat
    BY <1>0, <1>3 DEF Rotate
  <2>2. \A jwk \in Usable : jwk \in published' => gone'[jwk] = 0
    BY <1>3 DEF Rotate
  <2> QED BY <1>0, <1>3, <2>1, <2>2 DEF Rotate, state
<1>4. ASSUME NEW p \in Procs, Serve(p) PROVE Freshness'
  <2>1. jwk_set_to_keys(published) \subseteq published \cap Usable
    BY UsableType DEF jwk_set_to_keys, TypeOK
  <2>2. resp'[p].doc = published /\ \A q \in Procs : q # p => resp'[q] = resp[q]
    BY <1>4 DEF Serve, TypeOK
  <2> QED BY <1>0, <1>4, <2>1, <2>2 DEF Serve, provider, state
<1>5. CASE Tick
  <2>1. \A jwk \in Usable : gone'[jwk] \in 0..Horizon /\ gone'[jwk] <= gone[jwk] + 1
    BY <1>0, <1>5, LaterType DEF Tick
  <2>2. \A jwk \in Usable : jwk \in published' => gone'[jwk] = 0
    BY <1>5 DEF Tick
  <2>3. \A p \in Procs : resp[p] # NoResponse => timer'[p] = timer[p] + 1
    <3> SUFFICES ASSUME NEW p \in Procs, Fetching(p) PROVE timer'[p] = timer[p] + 1
      BY <1>0 DEF Exchanges
    <3> QED BY <1>5 DEF Tick, Fetching
  <2>4. ASSUME HasRemote, NEW key \in keys PROVE gone'[key] <= age' + Timeout
    <3>1. gone[key] <= age + Timeout /\ gone[key] \in Nat /\ gone'[key] \in 0..Horizon
      BY <1>0, <2>1, <2>4
    <3>2. gone'[key] <= gone[key] + 1
      BY <1>0, <2>1, <2>4
    <3>3. age' = Later(age)
      BY <1>5, <2>4 DEF Tick, Filled, Serving
    <3> QED BY <1>0, <3>1, <3>2, <3>3 DEF Later
  <2> QED BY <1>0, <1>5, <2>1, <2>2, <2>3, <2>4 DEF Tick
<1>6. ASSUME NEW c \in Callers, NEW token \in Token,
             Validate(c, token) \/ ValidateAsync(c, token)
      PROVE  Freshness'
  BY <1>1, <1>6 DEF Validate, ValidateAsync, Finish, state, Procs
<1>7. ASSUME NEW c \in Callers, CallRefresh(c) \/ Retry(c) \/ Cancel(c) PROVE Freshness'
  BY <1>1, <1>7 DEF CallRefresh, Retry, Cancel, Finish, state, Procs
<1>8. CASE Wake
  BY <1>1, <1>8 DEF Wake, state, Procs
<1>9. ASSUME NEW p \in Procs, EnterRefresh(p) PROVE Freshness'
  BY <1>1, <1>9, RefreshedEffect DEF EnterRefresh, state
<1>10. ASSUME NEW p \in Procs, AcquireLock(p) PROVE Freshness'
  BY <1>1, <1>10 DEF AcquireLock, state
<1>11. ASSUME NEW p \in Procs, RefreshOk(p) PROVE Freshness'
  BY <1>2, <1>11, RefreshedEffect DEF RefreshOk
<1>12. ASSUME NEW p \in Procs, NEW error \in FetchError, RefreshErr(p, error)
       PROVE  Freshness'
  BY <1>1, <1>12, RefreshedEffect DEF RefreshErr
<1>13. CASE BootOk
  BY <1>2, <1>13 DEF BootOk, Procs
<1>14. ASSUME NEW error \in FetchError, BootErr(error) PROVE Freshness'
  BY <1>1, <1>14 DEF BootErr, state, Procs
<1>15. CASE UNCHANGED vars
  BY <1>15 DEF vars, provider, state
<1> QED
  BY <1>3, <1>4, <1>5, <1>6, <1>7, <1>8, <1>9, <1>10, <1>11, <1>12, <1>13,
     <1>14, <1>15 DEF Next, Underway

LEMMA InitAnswered == Init => Answered
BY ConstantsAssumption DEF Init, Answered, Procs

LEMMA NextAnswered == TypeOK /\ Mutex /\ Answered /\ [Next]_vars => Answered'
<1> SUFFICES ASSUME TypeOK, Mutex, Answered, [Next]_vars PROVE Answered'
  OBVIOUS
<1> USE ConstantsAssumption DEF Answered
(* A step that only moves one process, or moves it and answers its call. *)
<1>1. ASSUME NEW p \in Procs, NEW label, Goto(p, label), UNCHANGED result,
             pc[p] # "done", label # "done"
      PROVE  Answered'
  BY <1>1, GotoEffect DEF Procs
<1>2. ASSUME NEW c \in Callers, NEW verdict \in Verdict, Finish(c, verdict) PROVE Answered'
  BY <1>2, GotoEffect DEF Finish, Procs, TypeOK
<1>3. ASSUME NEW p \in Procs, NEW verdict \in Verdict, Refreshed(p, verdict), pc[p] # "done"
      PROVE  Answered'
  <2>1. CASE Goto(p, "sleep") /\ UNCHANGED result
    BY <1>1, <1>3, <2>1
  <2>2. CASE Goto(p, "retry") /\ UNCHANGED result
    BY <1>1, <1>3, <2>2
  <2>3. CASE p # Task /\ Finish(p, verdict)
    BY <1>2, <2>3 DEF Procs
  <2> QED BY <1>3, <2>1, <2>2, <2>3 DEF Refreshed
<1>4. CASE UNCHANGED <<pc, result>>
  BY <1>4
<1>5. ASSUME NEW doc \in Docs, Rotate(doc) PROVE Answered'
  BY <1>4, <1>5 DEF Rotate
<1>6. ASSUME NEW p \in Procs, Serve(p) PROVE Answered'
  BY <1>4, <1>6 DEF Serve, calls
<1>7. CASE Tick
  BY <1>4, <1>7 DEF Tick, calls
<1>8. ASSUME NEW c \in Callers, NEW token \in Token, Validate(c, token) PROVE Answered'
  BY <1>2, <1>8, VerdictType DEF Validate
<1>9. ASSUME NEW c \in Callers, NEW token \in Token, ValidateAsync(c, token) PROVE Answered'
  <2>1. CASE Goto(c, "refresh") /\ UNCHANGED result
    BY <1>1, <1>9, <2>1 DEF ValidateAsync, Begin, Procs
  <2>2. CASE Finish(c, FirstVerdict(token))
    BY <1>2, <2>2, VerdictType
  <2> QED BY <1>9, <2>1, <2>2 DEF ValidateAsync
<1>10. ASSUME NEW c \in Callers, CallRefresh(c) PROVE Answered'
  BY <1>1, <1>10 DEF CallRefresh, Begin, Procs
<1>11. ASSUME NEW c \in Callers, Retry(c) PROVE Answered'
  BY <1>2, <1>11, VerdictType DEF Retry, Verdict
<1>12. CASE Wake
  BY <1>1, <1>12 DEF Wake, calls, Procs
<1>13. ASSUME NEW p \in Procs, EnterRefresh(p) PROVE Answered'
  BY <1>1, <1>3, <1>13 DEF EnterRefresh, Verdict
<1>14. ASSUME NEW p \in Procs, AcquireLock(p) PROVE Answered'
  BY <1>1, <1>14 DEF AcquireLock, calls
<1>15. ASSUME NEW p \in Procs, RefreshOk(p) PROVE Answered'
  BY <1>3, <1>15 DEF RefreshOk, Verdict
<1>16. ASSUME NEW p \in Procs, NEW error \in FetchError, RefreshErr(p, error)
       PROVE  Answered'
  BY <1>3, <1>16 DEF RefreshErr, Verdict
<1>17. CASE BootOk
  BY <1>1, <1>17 DEF BootOk, calls, Procs
<1>18. ASSUME NEW error \in FetchError, BootErr(error) PROVE Answered'
  BY <1>1, <1>18 DEF BootErr, calls, Procs
<1>19. ASSUME NEW c \in Callers, Cancel(c) PROVE Answered'
  BY <1>2, <1>19 DEF Cancel, Verdict
<1>20. CASE UNCHANGED vars
  BY <1>4, <1>20 DEF vars, calls
<1> QED
  BY <1>5, <1>6, <1>7, <1>8, <1>9, <1>10, <1>11, <1>12, <1>13, <1>14, <1>15,
     <1>16, <1>17, <1>18, <1>19, <1>20 DEF Next, Underway

LEMMA InitWitnessed == Init => Witnessed
BY ConstantsAssumption DEF Init, Witnessed, Validating, NoCall, Procs

LEMMA NextWitnessed ==
  TypeOK /\ Mutex /\ Exchanges /\ Witnessed /\ [Next]_vars => Witnessed'
<1> SUFFICES ASSUME TypeOK, Mutex, Exchanges, Witnessed, [Next]_vars PROVE Witnessed'
  OBVIOUS
<1> SUFFICES ASSUME HasRemote, NEW c \in Callers, Validating(c)' PROVE Witness(c)'
  BY DEF Witnessed
<1> USE ConstantsAssumption DEF Witness
<1>0. c \in Procs
  BY DEF Procs
(* A step that moves one process, but not c to its retry. *)
<1>1. ASSUME NEW p \in Procs, NEW label, Goto(p, label), pc[p] # "done",
             p = c => label # "retry", UNCHANGED <<provider, keys, call, absent>>
      PROVE  Witness(c)'
  <2>1. Validating(c)
    BY <1>0, <1>1, GotoEffect DEF Validating
  <2>2. Witness(c)
    BY <2>1 DEF Witnessed
  <2>3. pc'[c] = "retry" => pc[c] = "retry"
    BY <1>0, <1>1, GotoEffect
  <2>4. \A q \in Procs : resp'[q] # NoResponse => resp'[q] = resp[q]
    BY <1>1, GotoEffect
  <2> QED BY <1>1, <2>2, <2>3, <2>4 DEF provider, Lacks
(* A step that ends a call: of another caller, c being over otherwise. *)
<1>2. ASSUME NEW d \in Callers, NEW verdict, Finish(d, verdict), pc[d] # "done",
             UNCHANGED <<provider, keys>>,
             d # c => call'[c] = call[c] /\ absent'[c] = absent[c]
      PROVE  Witness(c)'
  <2>1. d # c
    BY <1>2, GotoEffect DEF Finish, Validating, Procs
  <2>2. pc'[c] = pc[c] /\ \A q \in Procs : resp'[q] # NoResponse => resp'[q] = resp[q]
    BY <1>0, <1>2, <2>1, GotoEffect DEF Finish, Procs
  <2>3. Witness(c)
    BY <1>2, <2>1, <2>2 DEF Witnessed, Validating
  <2> QED BY <1>2, <2>1, <2>2, <2>3 DEF provider, Lacks
<1>3. ASSUME NEW doc \in Docs, Rotate(doc) PROVE Witness(c)'
  <2>1. Validating(c)
    BY <1>3 DEF Rotate, Validating
  <2>2. absent'[c] = (absent[c] \/ (Validating(c) /\ Lacks(doc, call[c].token)))
    BY <1>3 DEF Rotate
  <2> QED BY <1>3, <2>1, <2>2 DEF Rotate, Witnessed, Lacks, state
<1>4. ASSUME NEW p \in Procs, Serve(p) PROVE Witness(c)'
  <2>1. Witness(c)
    BY <1>4 DEF Serve, Witnessed, Validating, calls
  <2>2. resp'[p].doc = published /\ \A q \in Procs : q # p => resp'[q] = resp[q]
    BY <1>4 DEF Serve, TypeOK
  <2> QED BY <1>4, <2>1, <2>2 DEF Serve, provider, state, calls, Lacks
<1>5. CASE Tick
  BY <1>5 DEF Tick, Witnessed, Validating, Lacks, calls
<1>6. ASSUME NEW d \in Callers, NEW token \in Token, Validate(d, token) PROVE Witness(c)'
  BY <1>2, <1>6 DEF Validate, Begin, state, TypeOK
<1>7. ASSUME NEW d \in Callers, NEW token \in Token, ValidateAsync(d, token)
      PROVE  Witness(c)'
  <2>1. /\ pc[d] = "idle" /\ UNCHANGED <<provider, keys>>
        /\ d # c => call'[c] = call[c] /\ absent'[c] = absent[c]
    BY <1>7 DEF ValidateAsync, Begin, state, TypeOK
  <2>2. CASE Finish(d, FirstVerdict(token))
    BY <1>2, <2>1, <2>2
  <2>3. CASE Goto(d, "refresh") /\ d # c
    <3>1. pc'[c] = pc[c] /\ \A q \in Procs : resp'[q] # NoResponse => resp'[q] = resp[q]
      BY <1>0, <2>3, GotoEffect DEF Procs
    <3>2. Witness(c)
      BY <2>1, <2>3, <3>1 DEF Witnessed, Validating
    <3> QED BY <2>1, <2>3, <3>1, <3>2 DEF provider, Lacks
  <2>4. CASE Goto(d, "refresh") /\ d = c
    <3>1. pc'[c] = "refresh" /\ resp'[c] = NoResponse
      BY <1>0, <2>4, GotoEffect
    <3>2. call'[c].token = token /\ absent'[c] = Lacks(published, token)
      BY <1>7, <2>4 DEF ValidateAsync, Begin, TypeOK
    <3> QED BY <2>1, <3>1, <3>2 DEF provider, Lacks
  <2> QED BY <1>7, <2>2, <2>3, <2>4 DEF ValidateAsync
<1>8. ASSUME NEW d \in Callers, CallRefresh(d) PROVE Witness(c)'
  <2>1. d # c
    BY <1>8 DEF CallRefresh, Begin, Validating, TypeOK
  <2>2. /\ call'[c] = call[c] /\ UNCHANGED <<provider, keys, absent>>
        /\ pc'[c] = pc[c] /\ \A q \in Procs : resp'[q] # NoResponse => resp'[q] = resp[q]
    BY <1>0, <1>8, <2>1, GotoEffect DEF CallRefresh, Begin, state, TypeOK, Procs
  <2>3. Witness(c)
    BY <2>2 DEF Witnessed, Validating
  <2> QED BY <2>2, <2>3 DEF provider, Lacks
<1>9. ASSUME NEW d \in Callers, Retry(d) PROVE Witness(c)'
  BY <1>2, <1>9 DEF Retry, state
<1>10. CASE Wake
  BY <1>0, <1>1, <1>10 DEF Wake, state, calls, Procs
<1>11. ASSUME NEW p \in Procs, EnterRefresh(p) PROVE Witness(c)'
  BY <1>1, <1>11 DEF EnterRefresh, state
<1>12. ASSUME NEW p \in Procs, AcquireLock(p) PROVE Witness(c)'
  BY <1>1, <1>12 DEF AcquireLock, state, calls
<1>13. ASSUME NEW p \in Procs, RefreshOk(p) PROVE Witness(c)'
  <2>1. PICK label \in {"sleep", "retry", "done"} : Goto(p, label)
    BY <1>13, RefreshedEffect DEF RefreshOk
  <2>2. Validating(c)
    BY <1>0, <1>13, <2>1, GotoEffect DEF Validating, RefreshOk
  <2>3. Witness(c)
    BY <2>2 DEF Witnessed
  <2>4. \A q \in Procs : resp'[q] = NoResponse
    BY <1>13, <2>1, GotoEffect, OneExchange DEF RefreshOk, Exchanges, Fetching
  <2>5. pc'[c] = "retry" => p = c \/ pc[c] = "retry"
    BY <1>0, <2>1, GotoEffect
  <2>6. pc'[c] = "retry" /\ matching_keys(keys', call[c].token) = {} => absent[c]
    BY <1>13, <2>3, <2>5 DEF RefreshOk, Install, FetchedKeys, Lacks
  <2> QED BY <1>13, <2>3, <2>4, <2>6 DEF RefreshOk, provider, Lacks
<1>14. ASSUME NEW p \in Procs, NEW error \in FetchError, RefreshErr(p, error)
       PROVE  Witness(c)'
  <2>1. error # "Ok"
    BY DEF FetchError
  <2> QED BY <1>1, <1>14, <2>1, RefreshedEffect DEF RefreshErr
<1>15. CASE BootOk
  <2>1. pc[c] = "idle" /\ pc'[c] = "idle" /\ \A q \in Procs : resp'[q] = NoResponse
    BY <1>0, <1>15, GotoEffect, OneExchange
       DEF BootOk, Mutex, Serving, Procs, Exchanges, Fetching
  <2> QED BY <1>15, <2>1 DEF BootOk, calls, provider, Witnessed, Validating, Lacks
<1>16. ASSUME NEW error \in FetchError, BootErr(error) PROVE Witness(c)'
  BY <1>0, <1>1, <1>16 DEF BootErr, state, calls, Procs
<1>17. ASSUME NEW d \in Callers, Cancel(d) PROVE Witness(c)'
  BY <1>2, <1>17 DEF Cancel, state
<1>18. CASE UNCHANGED vars
  BY <1>18 DEF vars, provider, state, calls, Witnessed, Validating, Lacks
<1> QED
  BY <1>3, <1>4, <1>5, <1>6, <1>7, <1>8, <1>9, <1>10, <1>11, <1>12, <1>13,
     <1>14, <1>15, <1>16, <1>17, <1>18 DEF Next, Underway

------------------------------------------------------------------------------
(* The layers together. *)

IInv ==
  TypeOK /\ Mutex /\ Exchanges /\ Filled /\ Freshness /\ Answered /\ Witnessed

THEOREM InductiveInvariant == Spec => []IInv
<1>1. Init => IInv
  BY InitType, InitMutex, InitExchanges, InitFilled, InitFreshness, InitAnswered,
     InitWitnessed DEF IInv
<1>2. IInv /\ [Next]_vars => IInv'
  BY NextType, NextMutex, NextExchanges, NextFilled, NextFreshness, NextAnswered,
     NextWitnessed DEF IInv
<1> QED BY <1>1, <1>2, PTL DEF Spec

(* No refresh, scheduled or not, ever leaves the validator without a usable *)
(* key (jwt.rs:457, jwt.rs:256).                                           *)
THEOREM NeverEmpty == Spec => []CacheNeverEmpty
<1>1. IInv => CacheNeverEmpty
  BY DEF IInv, Filled, TypeOK, CacheNeverEmpty, Usable, jwk_set_to_keys
<1> QED BY <1>1, InductiveInvariant, PTL

(* What a step can do to the cache: nothing, or install one response. *)
LEMMA CacheStep ==
  ASSUME IInv, [Next]_vars
  PROVE  \/ UNCHANGED <<keys, keysRev>>
         \/ \E p \in Procs : FetchedKeys(p) /\ Install(p)
BY DEF Next, Underway, vars, state, Rotate, Serve, Tick, Validate, ValidateAsync, CallRefresh,
       Retry, Wake, EnterRefresh, AcquireLock, RefreshOk, RefreshErr, BootOk, BootErr,
       Cancel, Procs

(* Overlapping refreshes never put an older JWK set over a newer one        *)
(* (refresh_lock, jwt.rs:234).                                             *)
THEOREM CacheNeverRegresses == Spec => NoRegression
<1>1. IInv /\ [Next]_vars => [Serving => keysRev' >= keysRev]_vars
  <2> SUFFICES ASSUME IInv, [Next]_vars PROVE keysRev' >= keysRev
    OBVIOUS
  <2>1. keysRev \in Nat
    BY DEF IInv, TypeOK
  <2>2. ASSUME NEW p \in Procs, FetchedKeys(p), Install(p) PROVE keysRev' >= keysRev
    BY <2>2 DEF FetchedKeys, Install, IInv, TypeOK, Exchanges, Response
  <2> QED BY <2>1, <2>2, CacheStep
<1> QED BY <1>1, InductiveInvariant, PTL DEF Spec, NoRegression

(* A finished call is over: no step touches what it got. *)
LEMMA AnswerIsFinal ==
  ASSUME IInv, [Next]_vars, NEW c \in Callers, pc[c] = "done"
  PROVE  call'[c] = call[c] /\ result'[c] = result[c] /\ absent'[c] = absent[c]
<1>0. /\ call \in [Callers -> [op : {"validate", "validate_async"}, token : Token]
                          \cup {[op |-> "refresh_now", token |-> None], NoCall}]
      /\ result \in [Callers -> Verdict \cup {None}]
      /\ absent \in [Callers -> BOOLEAN]
  BY DEF IInv, TypeOK
<1>1. ASSUME NEW d \in Callers, NEW verdict, Finish(d, verdict), d # c
      PROVE  result'[c] = result[c]
  BY <1>0, <1>1 DEF Finish
<1>2. ASSUME NEW p \in Procs, NEW verdict, Refreshed(p, verdict), p # c
      PROVE  result'[c] = result[c]
  BY <1>0, <1>2, ConstantsAssumption DEF Refreshed, Finish, Procs
<1>3. ASSUME NEW d \in Callers, NEW op, NEW token, Begin(d, op, token)
      PROVE  d # c /\ call'[c] = call[c]
  BY <1>0, <1>3 DEF Begin
<1>4. ASSUME NEW d \in Callers, NEW token \in Token, Validate(d, token)
      PROVE  call'[c] = call[c] /\ result'[c] = result[c] /\ absent'[c] = absent[c]
  BY <1>1, <1>3, <1>4 DEF Validate
<1>5. ASSUME NEW d \in Callers, NEW token \in Token, ValidateAsync(d, token)
      PROVE  call'[c] = call[c] /\ result'[c] = result[c] /\ absent'[c] = absent[c]
  BY <1>0, <1>1, <1>3, <1>5 DEF ValidateAsync
<1>6. ASSUME NEW d \in Callers, CallRefresh(d) \/ Retry(d) \/ Cancel(d)
      PROVE  call'[c] = call[c] /\ result'[c] = result[c] /\ absent'[c] = absent[c]
  BY <1>1, <1>3, <1>6 DEF CallRefresh, Retry, Cancel
<1>7. ASSUME NEW p \in Procs, RefreshOk(p) \/ EnterRefresh(p) \/ AcquireLock(p)
      PROVE  call'[c] = call[c] /\ result'[c] = result[c] /\ absent'[c] = absent[c]
  BY <1>2, <1>7 DEF RefreshOk, EnterRefresh, AcquireLock, calls
<1>8. ASSUME NEW p \in Procs, NEW error \in FetchError, RefreshErr(p, error)
      PROVE  call'[c] = call[c] /\ result'[c] = result[c] /\ absent'[c] = absent[c]
  BY <1>2, <1>8 DEF RefreshErr
<1>9. ASSUME NEW doc \in Docs, Rotate(doc)
      PROVE  call'[c] = call[c] /\ result'[c] = result[c] /\ absent'[c] = absent[c]
  BY <1>0, <1>9 DEF Rotate, Validating
<1>10. CASE UNCHANGED calls
  BY <1>10 DEF calls
<1>11. CASE UNCHANGED vars
  BY <1>10, <1>11 DEF vars
<1>12. ASSUME NEW p \in Procs, Serve(p)
       PROVE  UNCHANGED calls
  BY <1>12 DEF Serve
<1>13. ASSUME NEW error \in FetchError, BootErr(error)
       PROVE  UNCHANGED calls
  BY <1>13 DEF BootErr
<1>14. ASSUME Tick \/ Wake \/ BootOk
       PROVE  UNCHANGED calls
  BY <1>14 DEF Tick, Wake, BootOk
<1> QED
  BY <1>4, <1>5, <1>6, <1>7, <1>8, <1>9, <1>10, <1>11, <1>12, <1>13, <1>14 DEF Next, Underway

(* A step that answers a call for the claims of a token, and what the       *)
(* answer says of the cache in that very step.                             *)
LEMMA AnswerStep ==
  ASSUME IInv, [Next]_vars, NEW c \in Callers, result[c] = None
  PROVE  /\ result'[c] = "Ok" /\ call'[c].op # "refresh_now" =>
              ~Stale /\ validate_with_keys(keys, call'[c].token) = "Ok"
         /\ result'[c] = "JwksStale" => Stale
         /\ /\ result'[c] = "NoMatchingKey"
            /\ call'[c].op = "validate_async"
            /\ call'[c].token.kid # None
            /\ HasRemote
            => absent'[c]
<1> DEFINE Goal ==
      /\ result'[c] = "Ok" /\ call'[c].op # "refresh_now" =>
           ~Stale /\ validate_with_keys(keys, call'[c].token) = "Ok"
      /\ result'[c] = "JwksStale" => Stale
      /\ /\ result'[c] = "NoMatchingKey"
         /\ call'[c].op = "validate_async"
         /\ call'[c].token.kid # None
         /\ HasRemote
         => absent'[c]
<1> USE ConstantsAssumption
<1>0. /\ call \in [Callers -> [op : {"validate", "validate_async"}, token : Token]
                          \cup {[op |-> "refresh_now", token |-> None], NoCall}]
      /\ result \in [Callers -> Verdict \cup {None}]
      /\ absent \in [Callers -> BOOLEAN]
      /\ c \in Procs /\ None \notin Verdict
  BY DEF IInv, TypeOK, Procs
<1>1. CASE result'[c] = None
  BY <1>0, <1>1 DEF Verdict, FetchError
<1>2. ASSUME NEW d \in Callers, NEW verdict, Finish(d, verdict)
      PROVE  result'[c] = None \/ (d = c /\ result'[c] = verdict)
  BY <1>0, <1>2 DEF Finish
<1>3. ASSUME NEW p \in Procs, NEW verdict, Refreshed(p, verdict)
      PROVE  \/ result'[c] = None
             \/ /\ p = c /\ result'[c] = verdict
                /\ call[c].op = "refresh_now" \/ verdict # "Ok"
  BY <1>0, <1>3 DEF Refreshed, Finish
<1>4. ASSUME NEW d \in Callers, NEW token \in Token, Validate(d, token) PROVE Goal
  <2>1. CASE d = c /\ result'[c] = FirstVerdict(token)
    BY <1>0, <1>4, <2>1, VerdictOfKeys DEF Validate, Begin, FirstVerdict
  <2> QED BY <1>1, <1>2, <1>4, <2>1 DEF Validate
<1>5. ASSUME NEW d \in Callers, NEW token \in Token, ValidateAsync(d, token) PROVE Goal
  <2>1. CASE d = c /\ result'[c] = FirstVerdict(token) /\ ~UnknownKid(token)
    BY <1>0, <1>5, <2>1, VerdictOfKeys DEF ValidateAsync, Begin, FirstVerdict, UnknownKid
  <2>2. CASE UNCHANGED result
    BY <1>1, <2>2
  <2> QED BY <1>1, <1>2, <1>5, <2>1, <2>2 DEF ValidateAsync
<1>6. ASSUME NEW d \in Callers, Retry(d) PROVE Goal
  <2>1. CASE /\ d = c
             /\ result'[c] = IF Stale THEN "JwksStale"
                             ELSE validate_with_keys(keys, call[c].token)
    <3>1. call'[c] = call[c] /\ absent'[c] = absent[c] /\ pc[c] = "retry"
      BY <1>6, <2>1 DEF Retry
    <3>2. ASSUME HasRemote, call[c].op = "validate_async",
                 validate_with_keys(keys, call[c].token) = "NoMatchingKey"
          PROVE  absent[c]
      BY <3>1, <3>2, VerdictOfKeys DEF IInv, Witnessed, Witness, Validating
    <3> QED BY <2>1, <3>1, <3>2, VerdictOfKeys
  <2> QED BY <1>1, <1>2, <1>6, <2>1 DEF Retry
<1>7. ASSUME NEW d \in Callers, Cancel(d) PROVE Goal
  BY <1>1, <1>2, <1>7 DEF Cancel
<1>8. ASSUME NEW p \in Procs, RefreshOk(p) \/ EnterRefresh(p) PROVE Goal
  <2>1. CASE UNCHANGED result
    BY <1>1, <2>1
  <2>2. CASE Refreshed(p, "Ok") /\ UNCHANGED call
    BY <1>1, <1>3, <2>2
  <2> QED BY <1>8, <2>1, <2>2 DEF RefreshOk, EnterRefresh
<1>9. ASSUME NEW p \in Procs, NEW error \in FetchError, RefreshErr(p, error) PROVE Goal
  <2>1. CASE result'[c] # None
    <3>1. p = c /\ result'[c] = error
      BY <1>3, <1>9, <2>1 DEF RefreshErr
    <3>2. call'[c] = call[c] /\ absent'[c] = absent[c] /\ pc[c] = "fetch" /\ FetchFailed(c, error)
      BY <1>9, <3>1 DEF RefreshErr
    <3>3. ASSUME error = "NoMatchingKey", HasRemote, call[c].op = "validate_async"
          PROVE  absent[c]
      <4>1. Validating(c)
        BY <3>2, <3>3 DEF Validating
      <4>2. resp[c] # NoResponse /\ jwk_set_to_keys(resp[c].doc) = {}
        BY <3>2, <3>3 DEF FetchFailed
      <4>3. Lacks(resp[c].doc, call[c].token)
        BY <4>2 DEF Lacks, matching_keys
      <4> QED BY <1>0, <3>3, <4>1, <4>2, <4>3 DEF IInv, Witnessed, Witness
    <3> QED BY <3>1, <3>2, <3>3 DEF FetchError
  <2> QED BY <1>1, <2>1
<1>10. CASE UNCHANGED result
  BY <1>1, <1>10
<1>11. ASSUME NEW p \in Procs, Serve(p) \/ AcquireLock(p) PROVE UNCHANGED result
  BY <1>11 DEF Serve, AcquireLock, calls
<1>12. ASSUME NEW error \in FetchError, BootErr(error) PROVE UNCHANGED result
  BY <1>12 DEF BootErr, calls
<1>13. ASSUME NEW doc \in Docs, Rotate(doc) PROVE UNCHANGED result
  BY <1>13 DEF Rotate
<1>14. ASSUME NEW d \in Callers, CallRefresh(d) PROVE UNCHANGED result
  BY <1>14 DEF CallRefresh
<1>15. ASSUME Tick \/ Wake \/ BootOk \/ UNCHANGED vars PROVE UNCHANGED result
  BY <1>15 DEF Tick, Wake, BootOk, vars, calls
<1> QED
  BY <1>4, <1>5, <1>6, <1>7, <1>8, <1>9, <1>10, <1>11, <1>12, <1>13, <1>14, <1>15 DEF Next, Underway

(* A step that accepts a token has a recent key that verifies it.           *)
LEMMA AcceptedKey ==
  ASSUME IInv, [Next]_vars, NEW c \in Callers, Accepts(c)
  PROVE  \E key \in keys : /\ Verifies(key, call'[c].token)
                           /\ HasRemote => gone[key] <= MaxStale + Timeout
<1>1. ~Stale /\ validate_with_keys(keys, call'[c].token) = "Ok"
  BY AnswerStep DEF Accepts
<1>2. PICK key \in keys : Verifies(key, call'[c].token)
  BY <1>1 DEF validate_with_keys, matching_keys, Verifies
<1>3. HasRemote => gone[key] <= age + Timeout
  BY DEF IInv, Freshness
<1>4. age \in Nat /\ gone[key] \in Nat
  BY DEF IInv, TypeOK
<1>5. HasRemote => gone[key] <= MaxStale + Timeout
  BY <1>1, <1>3, <1>4, ConstantsAssumption DEF Stale
<1> QED BY <1>2, <1>5

(* Tokens are accepted on recent keys only: one the provider withdrew is    *)
(* refused once max_stale plus one request timeout has gone by, whatever    *)
(* refreshes failed in between (jwt.rs:243, jwt.rs:333).                   *)
THEOREM AcceptedKeysAreRecent == Spec => AcceptedKeyIsRecent
<1> DEFINE Recent ==
      HasRemote => \A c \in Callers : Accepts(c) =>
        \E key \in keys : /\ Verifies(key, call'[c].token)
                          /\ gone[key] <= MaxStale + Timeout
<1>1. IInv /\ [Next]_vars => [Recent]_vars
  BY AcceptedKey
<1> QED BY <1>1, InductiveInvariant, PTL DEF Spec, AcceptedKeyIsRecent

(* health() and the validation of tokens draw the same line (jwt.rs:283     *)
(* and jwt.rs:334), and its "cache is empty" case never matters.           *)
THEOREM HealthIsTruthful == Spec => HealthAgrees
<1> DEFINE Agrees ==
      \A c \in Callers :
        /\ Accepts(c) => Health = "UP"
        /\ result[c] = None /\ result'[c] = "JwksStale" => Health = "DOWN"
<1>1. IInv /\ [Next]_vars => [Agrees]_vars
  <2> SUFFICES ASSUME IInv, [Next]_vars, NEW c \in Callers
               PROVE  /\ Accepts(c) => Health = "UP"
                      /\ result[c] = None /\ result'[c] = "JwksStale" => Health = "DOWN"
    OBVIOUS
  <2>1. ASSUME Accepts(c) PROVE Health = "UP"
    <3>1. ~Stale /\ validate_with_keys(keys, call'[c].token) = "Ok"
      BY <2>1, AnswerStep DEF Accepts
    <3>2. keys # {}
      BY <3>1 DEF validate_with_keys, matching_keys
    <3> QED BY <3>1, <3>2 DEF Health, Stale
  <2>2. ASSUME result[c] = None, result'[c] = "JwksStale" PROVE Health = "DOWN"
    BY <2>2, AnswerStep DEF Health, Stale
  <2> QED BY <2>1, <2>2
<1> QED BY <1>1, InductiveInvariant, PTL DEF Spec, HealthAgrees

(* No key that was published all through a call is missed by it: the        *)
(* refresh and the single retry of validate_async look late enough          *)
(* (jwt.rs:219-227), however many refreshes are in flight.                 *)
THEOREM UnknownKidsAreUnknown == Spec => []UnknownKidIsUnknown
<1>1. Init => UnknownKidIsUnknown
  BY DEF Init, UnknownKidIsUnknown, NoCall
<1>2. IInv /\ UnknownKidIsUnknown /\ [Next]_vars => UnknownKidIsUnknown'
  <2> SUFFICES ASSUME IInv, UnknownKidIsUnknown, [Next]_vars, HasRemote,
                      NEW c \in Callers,
                      call'[c].op = "validate_async", call'[c].token.kid # None,
                      result'[c] = "NoMatchingKey"
               PROVE  absent'[c]
    BY DEF UnknownKidIsUnknown
  <2>1. CASE result[c] = None
    BY <2>1, AnswerStep
  <2>2. CASE result[c] # None
    <3>1. pc[c] = "done"
      BY <2>2 DEF IInv, Answered
    <3> QED BY <3>1, AnswerIsFinal DEF UnknownKidIsUnknown
  <2> QED BY <2>1, <2>2
<1> QED BY <1>1, <1>2, InductiveInvariant, PTL DEF Spec

------------------------------------------------------------------------------
(* A validator built from fixed keys. *)

(* It has no task, and only an explicit refresh_now gets as far as the      *)
(* first line of it.                                                       *)
FixedKeys ==
  ~HasRemote =>
    /\ pc[Task] = "none"
    /\ \A c \in Callers : /\ pc[c] \in {"idle", "refresh", "done"}
                          /\ pc[c] = "refresh" => call[c].op = "refresh_now"

(* What is left of Next without a remote. *)
LEMMA StaticNext ==
  ASSUME FixedKeys, ~HasRemote, Next
  PROVE  \/ \E doc \in Docs : Rotate(doc)
         \/ Tick
         \/ \E c \in Callers, token \in Token : Validate(c, token) \/ ValidateAsync(c, token)
         \/ \E c \in Callers : CallRefresh(c) \/ EnterRefresh(c)
<1>1. \A p \in Procs : pc[p] \in {"none", "idle", "refresh", "done"}
  BY DEF FixedKeys, Procs
<1>2. \A p \in Procs : ~Serve(p) /\ ~AcquireLock(p) /\ ~RefreshOk(p)
  BY <1>1 DEF Serve, Fetching, AcquireLock, RefreshOk
<1>3. \A p \in Procs, error \in FetchError : ~RefreshErr(p, error)
  BY <1>1 DEF RefreshErr
<1>4. \A c \in Callers : ~Retry(c) /\ ~Cancel(c)
  BY <1>1 DEF Retry, Cancel, Procs
<1>5. ~Wake /\ ~BootOk /\ ~EnterRefresh(Task) /\ \A error \in FetchError : ~BootErr(error)
  BY DEF FixedKeys, Wake, BootOk, EnterRefresh, BootErr
<1> QED BY <1>2, <1>3, <1>4, <1>5 DEF Next, Underway, Procs

(* Without a remote no call ever waits for anything. *)
LEMMA NextFixedKeys == IInv /\ FixedKeys /\ [Next]_vars => FixedKeys'
<1> SUFFICES ASSUME IInv, FixedKeys, [Next]_vars, ~HasRemote PROVE FixedKeys'
  BY DEF FixedKeys
<1> USE ConstantsAssumption
<1>0. TypeOK
  BY DEF IInv
<1>1. ASSUME NEW c \in Callers, Goto(c, "done"), \A d \in Callers : d # c => call'[d] = call[d]
      PROVE  FixedKeys'
  BY <1>0, <1>1, GotoEffect DEF FixedKeys, Procs
<1>2. CASE UNCHANGED <<pc, call>>
  BY <1>2 DEF FixedKeys
<1>3. ASSUME NEW c \in Callers, NEW token \in Token,
             Validate(c, token) \/ ValidateAsync(c, token)
      PROVE  FixedKeys'
  <2>1. Finish(c, FirstVerdict(token))
    BY <1>3 DEF Validate, ValidateAsync, UnknownKid
  <2>2. \A d \in Callers : d # c => call'[d] = call[d]
    BY <1>0, <1>3 DEF Validate, ValidateAsync, Begin, TypeOK
  <2> QED BY <1>1, <2>1, <2>2 DEF Finish
<1>4. ASSUME NEW c \in Callers, CallRefresh(c) PROVE FixedKeys'
  <2>1. call'[c].op = "refresh_now" /\ \A d \in Callers : d # c => call'[d] = call[d]
    BY <1>0, <1>4 DEF CallRefresh, Begin, TypeOK
  <2> QED BY <1>0, <1>4, <2>1, GotoEffect DEF FixedKeys, CallRefresh, Procs
<1>5. ASSUME NEW c \in Callers, EnterRefresh(c) PROVE FixedKeys'
  <2>1. Refreshed(c, "Ok") /\ UNCHANGED call /\ call[c].op = "refresh_now"
    BY <1>5 DEF EnterRefresh, FixedKeys
  <2> QED BY <1>1, <2>1 DEF Refreshed, Finish
<1> QED
  BY <1>2, <1>3, <1>4, <1>5, StaticNext DEF Rotate, Tick, vars, calls

(* Such a validator never changes its mind: whatever entry point is used,   *)
(* and whenever, the verdict is that of the keys it was built from.        *)
THEOREM StaticVerdictsHold == Spec => []StaticVerdicts
<1>1. Init => FixedKeys /\ StaticVerdicts
  BY ConstantsAssumption DEF Init, FixedKeys, StaticVerdicts, Procs
<1>2. IInv /\ FixedKeys /\ StaticVerdicts /\ [Next]_vars => StaticVerdicts'
  <2> SUFFICES ASSUME IInv, FixedKeys, StaticVerdicts, [Next]_vars, ~HasRemote
               PROVE  StaticVerdicts'
    BY DEF StaticVerdicts
  <2>0. TypeOK
    BY DEF IInv
  (* A step that answers c with the verdict of the fixed keys. *)
  <2>1. ASSUME NEW c \in Callers, UNCHANGED keys,
               \A d \in Callers : d # c => call'[d] = call[d] /\ result'[d] = result[d],
               result'[c] = IF call'[c].op = "refresh_now" THEN "Ok"
                           ELSE IF ~call'[c].token.header THEN "Header"
                           ELSE validate_with_keys(keys, call'[c].token)
        PROVE  StaticVerdicts'
    BY <2>1 DEF StaticVerdicts
  <2>2. CASE UNCHANGED <<keys, call, result>>
    BY <2>2 DEF StaticVerdicts
  <2>3. ASSUME NEW c \in Callers, NEW token \in Token,
               Validate(c, token) \/ ValidateAsync(c, token)
        PROVE  StaticVerdicts'
    <3>1. Finish(c, FirstVerdict(token)) /\ UNCHANGED keys
      BY <2>3 DEF Validate, ValidateAsync, UnknownKid, state
    <3>2. /\ call'[c].token = token /\ call'[c].op # "refresh_now"
          /\ \A d \in Callers : d # c => call'[d] = call[d]
      BY <2>0, <2>3 DEF Validate, ValidateAsync, Begin, TypeOK
    <3>3. /\ result'[c] = FirstVerdict(token)
          /\ \A d \in Callers : d # c => result'[d] = result[d]
      BY <2>0, <3>1 DEF Finish, TypeOK
    <3> QED BY <2>1, <3>1, <3>2, <3>3 DEF FirstVerdict, Stale
  <2>4. ASSUME NEW c \in Callers, CallRefresh(c) PROVE StaticVerdicts'
    <3>1. /\ call'[c].op = "refresh_now" /\ UNCHANGED <<keys, result>>
          /\ \A d \in Callers : d # c => call'[d] = call[d]
      BY <2>0, <2>4 DEF CallRefresh, Begin, state, TypeOK
    <3>2. result[c] = None
      BY <2>4 DEF CallRefresh, Begin, IInv, Answered
    <3> QED BY <3>1, <3>2 DEF StaticVerdicts
  <2>5. ASSUME NEW c \in Callers, EnterRefresh(c) PROVE StaticVerdicts'
    <3>1. call[c].op = "refresh_now" /\ UNCHANGED <<keys, call>> /\ Refreshed(c, "Ok")
      BY <2>5 DEF EnterRefresh, FixedKeys, state
    <3>2. Finish(c, "Ok")
      BY <3>1, ConstantsAssumption DEF Refreshed
    <3> QED BY <2>0, <2>1, <3>1, <3>2 DEF Finish, TypeOK
  <2> QED
    BY <2>2, <2>3, <2>4, <2>5, StaticNext DEF Rotate, Tick, vars, state, calls
<1> QED BY <1>1, <1>2, NextFixedKeys, InductiveInvariant, PTL DEF Spec

==============================================================================
