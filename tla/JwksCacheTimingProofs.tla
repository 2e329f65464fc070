------------------------ MODULE JwksCacheTimingProofs ------------------------
(* How long the queue for refresh_lock takes, and how old the cache can get  *)
(* while the provider does its part, for every number of callers and every *)
(* choice of the intervals.                                                *)
EXTENDS JwksCacheProofs, FiniteSetTheorems

(* The provider answers every request in time with a usable set. *)
PromptProvider ==
  ~Faulty /\ \A doc \in Docs : jwk_set_to_keys(doc) # {}

(* max_stale leaves room for the interval, and for a request timeout of the *)
(* task and of every caller that may stand before it in the queue.         *)
RoomEnough ==
  /\ IsFiniteSet(Callers)
  /\ MaxStale >= Interval + (Cardinality(Callers) + 1) * Timeout

------------------------------------------------------------------------------
(* Arithmetic and sequences. *)

LEMMA Multiples ==
  ASSUME NEW m \in Nat, NEW n \in Nat, NEW t \in Nat, m <= n
  PROVE  /\ m * t \in Nat
         /\ m * t <= n * t
         /\ (m + 1) * t = m * t + t
<1>1. (m + 1) * t = m * t + t
  BY Z3
<1>2. m * t \in Nat /\ n * t \in Nat /\ (n - m) * t \in Nat
  BY Z3
<1>3. n * t = m * t + (n - m) * t
  BY Z3
<1> QED BY <1>1, <1>2, <1>3

(* Fewer ahead, or the one ahead gone who has used none of a timeout less.   *)
LEMMA LessAhead ==
  ASSUME NEW m \in Nat, NEW n \in Nat, NEW t \in Nat, NEW budget \in Nat,
         NEW a \in Nat, NEW b \in Nat, b <= a,
         NEW u \in 0..t, NEW v \in Nat,
         a + n * t <= budget + u,
         \/ m <= n /\ v = u
         \/ m + 1 = n
  PROVE  b + m * t <= budget + v
<1>1. /\ m * t \in Nat /\ n * t \in Nat /\ (m + 1) * t = m * t + t
      /\ m <= n => m * t <= n * t
  BY Multiples
<1>2. PICK x \in Nat, y \in Nat : x = m * t /\ y = n * t
  BY <1>1
<1>3. CASE m <= n /\ v = u
  <2>1. x <= y /\ a + y <= budget + u
    BY <1>1, <1>2, <1>3
  <2> QED BY <1>2, <1>3, <2>1
<1>4. CASE m + 1 = n
  <2>1. y = x + t /\ a + y <= budget + u
    BY <1>1, <1>2, <1>4
  <2>2. b + x <= budget
    BY <2>1, <1>2
  <2> QED BY <1>2, <2>2
<1> QED BY <1>3, <1>4

(* What is left of a sequence after one place was dropped. *)
LEMMA DropPlaces ==
  ASSUME NEW S, NEW q \in Seq(S), NEW i \in 1..Len(q),
         NEW r, r = SubSeq(q, 1, i - 1) \o SubSeq(q, i + 1, Len(q))
  PROVE  /\ Len(r) = Len(q) - 1
         /\ \A j \in 1..Len(r) : r[j] = IF j < i THEN q[j] ELSE q[j + 1]
<1> DEFINE before == SubSeq(q, 1, i - 1)
           after == SubSeq(q, i + 1, Len(q))
<1>1. /\ Len(before) = i - 1
      /\ \A j \in 1..(i - 1) : before[j] = q[j]
  OBVIOUS
<1>2. /\ Len(after) = Len(q) - i
      /\ \A j \in 1..(Len(q) - i) : after[j] = q[i + j]
  OBVIOUS
<1>3. before \in Seq(S) /\ after \in Seq(S)
  <2>1. \A j \in 1..Len(q) : q[j] \in S
    OBVIOUS
  <2> QED BY <2>1, SubSeqProperties
<1>4. r = before \o after
  OBVIOUS
<1> HIDE DEF before, after
<1>5. /\ Len(before \o after) = Len(before) + Len(after)
      /\ \A j \in 1..(Len(before) + Len(after)) :
           (before \o after)[j] = IF j <= Len(before) THEN before[j] ELSE after[j - Len(before)]
  BY <1>3, ConcatProperties
<1>6. Len(r) = Len(q) - 1 /\ Len(q) \in Nat /\ Len(r) = Len(before) + Len(after)
  <2>1. Len(q) \in Nat
    OBVIOUS
  <2>2. Len(r) = Len(before) + Len(after)
    BY <1>4, <1>5
  <2>3. Len(before) + Len(after) = Len(q) - 1
    BY <1>1, <1>2, <2>1
  <2> QED BY <2>1, <2>2, <2>3
<1>7. ASSUME NEW j \in 1..Len(r) PROVE r[j] = IF j < i THEN q[j] ELSE q[j + 1]
  <2>0. r[j] = IF j <= Len(before) THEN before[j] ELSE after[j - Len(before)]
    BY <1>4, <1>5, <1>6
  <2>1. Len(before) = i - 1 /\ i \in 1..Len(q) /\ j \in 1..(Len(q) - 1)
    BY <1>1, <1>6
  <2>2. CASE j < i
    <3>1. j <= Len(before) /\ j \in 1..(i - 1)
      BY <1>6, <2>1, <2>2
    <3> QED BY <1>1, <2>0, <2>2, <3>1
  <2>3. CASE ~(j < i)
    <3>1. /\ ~(j <= Len(before)) /\ j - Len(before) = j - i + 1
          /\ j - i + 1 \in 1..(Len(q) - i) /\ i + (j - i + 1) = j + 1
      BY <1>6, <2>1, <2>3
    <3> QED BY <1>2, <2>0, <2>3, <3>1
  <2> QED BY <2>2, <2>3
<1> QED BY <1>6, <1>7

------------------------------------------------------------------------------
(* The queue of refresh_lock. *)

(* Who waits for the lock has one place in its queue, nobody else has one. *)
Lined ==
  /\ \A i, j \in 1..Len(queue) : queue[i] = queue[j] => i = j
  /\ \A p \in Procs : pc[p] = "wait" <=> \E i \in 1..Len(queue) : queue[i] = p

LEMMA InitLined == Init => Lined
BY DEF Init, Lined

LEMMA NextLined == TypeOK /\ Lined /\ [Next]_vars => Lined'
<1> SUFFICES ASSUME TypeOK, Lined, [Next]_vars PROVE Lined'
  OBVIOUS
<1>0. /\ queue \in Seq(Procs) /\ \A i \in 1..Len(queue) : queue[i] \in Procs
      /\ \A c \in Callers : c \in Procs
      /\ Task \in Procs
  BY DEF TypeOK, Procs
<1>1. ASSUME UNCHANGED <<pc, queue>> PROVE Lined'
  BY <1>1 DEF Lined
<1>2. ASSUME NEW p \in Procs, NEW label, Goto(p, label), UNCHANGED queue,
             pc[p] # "wait", label # "wait"
      PROVE  Lined'
  BY <1>2, GotoEffect DEF Lined
<1>3. ASSUME NEW p \in Procs, EnterRefresh(p) PROVE Lined'
  <2>1. CASE Refreshed(p, "Ok") /\ UNCHANGED queue
    BY <1>2, <1>3, <2>1, RefreshedEffect DEF EnterRefresh
  <2>2. CASE Goto(p, "wait") /\ queue' = Append(queue, p)
    <3>1. /\ Len(queue') = Len(queue) + 1 /\ queue'[Len(queue) + 1] = p
          /\ \A i \in 1..Len(queue) : queue'[i] = queue[i]
      BY <1>0, <2>2
    <3>2. \A i \in 1..Len(queue) : queue[i] # p
      BY <1>3 DEF EnterRefresh, Lined
    <3>3. 1..Len(queue') = 1..Len(queue) \cup {Len(queue) + 1}
      BY <1>0, <3>1
    <3> QED BY <1>0, <2>2, <3>1, <3>2, <3>3, GotoEffect DEF Lined
  <2> QED BY <1>3, <2>1, <2>2 DEF EnterRefresh
<1>4. ASSUME NEW p \in Procs, AcquireLock(p) PROVE Lined'
  <2>1. /\ Goto(p, "fetch") /\ queue' = Tail(queue) /\ queue # <<>> /\ queue[1] = p
    BY <1>0, <1>4 DEF AcquireLock
  <2>2. /\ Len(queue') = Len(queue) - 1 /\ Len(queue) \in Nat \ {0}
        /\ \A i \in 1..Len(queue') : queue'[i] = queue[i + 1]
    BY <1>0, <2>1
  <2>3. \A i, j \in 1..Len(queue') : queue'[i] = queue'[j] => i = j
    BY <2>2 DEF Lined
  <2>4. \A q \in Procs : q # p =>
          ((\E i \in 1..Len(queue) : queue[i] = q) <=> (\E i \in 1..Len(queue') : queue'[i] = q))
    <3> SUFFICES ASSUME NEW q \in Procs, q # p
                 PROVE  (\E i \in 1..Len(queue) : queue[i] = q)
                          <=> (\E i \in 1..Len(queue') : queue'[i] = q)
      OBVIOUS
    <3>1. ASSUME NEW i \in 1..Len(queue), queue[i] = q
          PROVE  \E k \in 1..Len(queue') : queue'[k] = q
      <4>1. i - 1 \in 1..Len(queue') /\ (i - 1) + 1 = i
        BY <2>1, <2>2, <3>1
      <4> QED BY <2>2, <3>1, <4>1
    <3> QED BY <2>2, <3>1
  <2>5. \A i \in 1..Len(queue') : queue'[i] # p
    BY <2>1, <2>2 DEF Lined
  <2> QED BY <2>1, <2>3, <2>4, <2>5, GotoEffect DEF Lined
<1>5. ASSUME NEW c \in Callers, Cancel(c) PROVE Lined'
  <2>1. CASE pc[c] = "fetch" /\ UNCHANGED queue
    BY <1>0, <1>2, <1>5, <2>1 DEF Cancel, Finish
  <2>2. ASSUME NEW i \in 1..Len(queue), queue[i] = c,
               queue' = SubSeq(queue, 1, i - 1) \o SubSeq(queue, i + 1, Len(queue))
        PROVE  Lined'
    <3> DEFINE left == SubSeq(queue, 1, i - 1) \o SubSeq(queue, i + 1, Len(queue))
    <3>0. /\ Len(left) = Len(queue) - 1
          /\ \A j \in 1..Len(left) : left[j] = IF j < i THEN queue[j] ELSE queue[j + 1]
      BY <1>0, DropPlaces
    <3>1. /\ Len(queue') = Len(queue) - 1 /\ Len(queue) \in Nat
          /\ \A j \in 1..Len(queue') : queue'[j] = IF j < i THEN queue[j] ELSE queue[j + 1]
      <4> HIDE DEF left
      <4>1. queue' = left
        BY <2>2 DEF left
      <4> QED BY <1>0, <3>0, <4>1
    <3>2. \A j, k \in 1..Len(queue') : queue'[j] = queue'[k] => j = k
      BY <3>1 DEF Lined
    <3>3. ASSUME NEW j \in 1..Len(queue') PROVE queue'[j] # c
      <4>1. PICK k \in 1..Len(queue) : k # i /\ queue'[j] = queue[k]
        <5>1. CASE j < i
          BY <3>1, <5>1
        <5>2. CASE j >= i
          <6>1. j + 1 \in 1..Len(queue) /\ j + 1 # i /\ ~(j < i)
            BY <3>1, <5>2
          <6> QED BY <3>1, <6>1
        <5> QED BY <3>1, <5>1, <5>2
      <4> QED BY <2>2, <4>1 DEF Lined
    <3>4. \A q \in Procs : q # c =>
            ((\E j \in 1..Len(queue) : queue[j] = q) <=> (\E j \in 1..Len(queue') : queue'[j] = q))
      <4> SUFFICES ASSUME NEW q \in Procs, q # c
                   PROVE  (\E j \in 1..Len(queue) : queue[j] = q)
                            <=> (\E j \in 1..Len(queue') : queue'[j] = q)
        OBVIOUS
      <4>1. ASSUME NEW j \in 1..Len(queue), queue[j] = q
            PROVE  \E k \in 1..Len(queue') : queue'[k] = q
        <5>1. CASE j < i
          <6>1. j \in 1..Len(queue')
            BY <3>1, <5>1
          <6> QED BY <3>1, <4>1, <5>1, <6>1
        <5>2. CASE j > i
          <6>1. j - 1 \in 1..Len(queue') /\ ~(j - 1 < i) /\ (j - 1) + 1 = j
            BY <3>1, <5>2
          <6> QED BY <3>1, <4>1, <6>1
        <5>3. j # i
          BY <2>2, <4>1
        <5> QED BY <5>1, <5>2, <5>3
      <4>2. ASSUME NEW j \in 1..Len(queue'), queue'[j] = q
            PROVE  \E k \in 1..Len(queue) : queue[k] = q
        BY <3>1, <4>2
      <4> QED BY <4>1, <4>2
    <3>5. Goto(c, "done")
      BY <1>5 DEF Cancel, Finish
    <3>6. pc'[c] = "done" /\ \A q \in Procs : q # c => pc'[q] = pc[q]
      BY <1>0, <3>5, GotoEffect
    <3>7. ASSUME NEW q \in Procs
          PROVE  pc'[q] = "wait" <=> \E j \in 1..Len(queue') : queue'[j] = q
      <4> HIDE DEF left
      <4>1. CASE q = c
        BY <3>3, <3>6, <4>1
      <4>2. CASE q # c
        BY <3>4, <3>6, <4>2 DEF Lined
      <4> QED BY <4>1, <4>2
    <3> HIDE DEF left
    <3> QED BY <3>2, <3>7 DEF Lined
  <2> QED BY <1>5, <2>1, <2>2 DEF Cancel
<1>6. ASSUME NEW p \in Procs, RefreshOk(p) \/ \E error \in FetchError : RefreshErr(p, error)
      PROVE  Lined'
  BY <1>2, <1>6, RefreshedEffect DEF RefreshOk, RefreshErr
<1>7. ASSUME NEW doc \in Docs, Rotate(doc) PROVE Lined'
  BY <1>1, <1>7 DEF Rotate, lock
<1>8. ASSUME NEW p \in Procs, Serve(p) PROVE Lined'
  BY <1>1, <1>8 DEF Serve, lock
<1>9. CASE Tick
  BY <1>1, <1>9 DEF Tick, lock
<1>10. ASSUME NEW c \in Callers, NEW token \in Token,
              Validate(c, token) \/ ValidateAsync(c, token)
       PROVE  Lined'
  BY <1>0, <1>2, <1>10 DEF Validate, ValidateAsync, Begin, Finish, lock
<1>11. ASSUME NEW c \in Callers, CallRefresh(c) \/ Retry(c) PROVE Lined'
  BY <1>0, <1>2, <1>11 DEF CallRefresh, Retry, Begin, Finish, lock
<1>12. CASE Wake
  BY <1>0, <1>2, <1>12 DEF Wake, lock
<1>13. CASE BootOk
  BY <1>0, <1>2, <1>13 DEF BootOk, lock
<1>14. ASSUME NEW error \in FetchError, BootErr(error) PROVE Lined'
  BY <1>0, <1>2, <1>14 DEF BootErr, lock
<1>15. CASE UNCHANGED vars
  BY <1>1, <1>15 DEF vars, lock
<1> QED
  BY <1>3, <1>4, <1>5, <1>6, <1>7, <1>8, <1>9, <1>10, <1>11, <1>12, <1>13, <1>14, <1>15
     DEF Next, Underway

------------------------------------------------------------------------------
(* Places in the queue. *)

(* Whether somebody holds the lock, and since when. *)
Held == IF holder = None THEN 0 ELSE 1
Spent == IF holder = None THEN 0 ELSE timer[holder]

LEMMA Amounts ==
  ASSUME IInv, IsFiniteSet(Callers)
  PROVE  /\ Cardinality(Callers) \in Nat /\ Timeout \in Nat
         /\ Len(queue) \in Nat /\ queue \in Seq(Procs) /\ \A p \in Procs : timer[p] \in Nat
         /\ Held \in {0, 1} /\ Spent \in 0..Timeout
         /\ Task \in Procs /\ \A c \in Callers : c \in Procs /\ c # Task
         /\ holder # None => holder \in Procs
         /\ TypeOK /\ Mutex /\ None \notin Procs
<1>1. /\ Timeout \in Nat /\ Len(queue) \in Nat /\ queue \in Seq(Procs)
      /\ \A p \in Procs : timer[p] \in Nat
      /\ Task \in Procs /\ \A c \in Callers : c \in Procs /\ c # Task
      /\ holder # None => holder \in Procs
      /\ TypeOK /\ Mutex /\ None \notin Procs
  BY ConstantsAssumption DEF IInv, TypeOK, Procs
<1>2. Cardinality(Callers) \in Nat
  BY FS_CardinalityType
<1>3. Held \in {0, 1}
  BY DEF Held
<1>4. Spent \in 0..Timeout
  BY <1>1 DEF Spent, IInv, TypeOK, Mutex, Exchanges, Fetching
<1> QED BY <1>1, <1>2, <1>3, <1>4

(* Who stands before p when it joins the queue is somebody else, and stands  *)
(* there once.                                                             *)
LEMMA FewAhead ==
  ASSUME IInv, Lined, IsFiniteSet(Callers), NEW p \in Procs, pc[p] = "refresh"
  PROVE  Len(queue) + Held <= Cardinality(Callers)
<1>0. /\ Len(queue) \in Nat /\ Held \in {0, 1} /\ queue \in Seq(Procs)
      /\ holder # None => holder \in Procs
  BY Amounts
<1> DEFINE n == Len(queue) + Held
           others == Procs \ {p}
           ahead == [i \in 1..n |-> IF i <= Len(queue) THEN queue[i] ELSE holder]
<1>1. ASSUME NEW i \in 1..Len(queue) PROVE queue[i] \in others /\ pc[queue[i]] = "wait"
  BY <1>0 DEF Lined
<1>2. ASSUME NEW i \in 1..n, i > Len(queue)
      PROVE  i = Len(queue) + 1 /\ holder \in others /\ pc[holder] = "fetch"
  <2>1. i = Len(queue) + 1 /\ Held = 1
    BY <1>0, <1>2
  <2> QED BY <1>0, <2>1 DEF Held, IInv, Mutex
<1>3. ahead \in [1..n -> others]
  BY <1>0, <1>1, <1>2
<1>4. ASSUME NEW i \in 1..n, NEW j \in 1..n, ahead[i] = ahead[j] PROVE i = j
  <2>1. CASE i <= Len(queue) /\ j <= Len(queue)
    BY <1>0, <1>4, <2>1 DEF Lined
  <2>2. CASE i > Len(queue) /\ j > Len(queue)
    BY <1>0, <1>2, <2>2
  <2>3. CASE i <= Len(queue) /\ j > Len(queue)
    BY <1>0, <1>1, <1>2, <1>4, <2>3
  <2>4. CASE i > Len(queue) /\ j <= Len(queue)
    BY <1>0, <1>1, <1>2, <1>4, <2>4
  <2> QED BY <1>0, <2>1, <2>2, <2>3, <2>4
<1>5. ahead \in Injection(1..n, others)
  BY <1>3, <1>4 DEF Injection, IsInjective
<1>6. IsFiniteSet(others) /\ Cardinality(others) = Cardinality(Callers)
  <2>1. IsFiniteSet(Procs) /\ Cardinality(Procs) = Cardinality(Callers) + 1
    BY FS_AddElement, ConstantsAssumption DEF Procs
  <2>2. Cardinality(Callers) \in Nat
    BY Amounts
  <2>3. IsFiniteSet(others) /\ Cardinality(others) = Cardinality(Procs) - 1
    BY <2>1, FS_RemoveElement
  <2> HIDE DEF others
  <2> QED BY <2>1, <2>2, <2>3
<1>7. n \in Nat
  BY <1>0
<1> HIDE DEF n, ahead, others
<1>8. Cardinality(1..n) = n
  BY <1>7, FS_Interval
<1>9. Cardinality(1..n) <= Cardinality(others)
  BY <1>5, <1>6, FS_Injection
<1> QED BY <1>6, <1>8, <1>9 DEF n

(* While p waits and the clock stands still, nobody overtakes it: what is    *)
(* before it stays the same, or is less by the holder of the lock or by    *)
(* somebody who gave up.                                                   *)
LEMMA Advances ==
  ASSUME IInv, Lined, IsFiniteSet(Callers), [Next]_vars, ~Tick,
         NEW p \in Procs, pc[p] = "wait", pc'[p] = "wait",
         NEW i \in 1..Len(queue), queue[i] = p
  PROVE  \E j \in 1..Len(queue'), h \in {0, 1}, s \in Nat :
           /\ queue'[j] = p /\ Held' = h /\ Spent' = s
           /\ timer'[p] = timer[p]
           /\ \/ j - 1 + h <= i - 1 + Held /\ s = Spent
              \/ j + h = i - 1 + Held
<1> DEFINE Goal ==
      \E j \in 1..Len(queue'), h \in {0, 1}, s \in Nat :
        /\ queue'[j] = p /\ Held' = h /\ Spent' = s
        /\ timer'[p] = timer[p]
        /\ \/ j - 1 + h <= i - 1 + Held /\ s = Spent
           \/ j + h = i - 1 + Held
<1> SUFFICES Goal
  OBVIOUS
<1>0. /\ Len(queue) \in Nat /\ queue \in Seq(Procs) /\ i \in Nat \ {0}
      /\ Held \in {0, 1} /\ Spent \in Nat
      /\ holder # None => holder \in Procs
      /\ \A c \in Callers : c \in Procs
      /\ Task \in Procs /\ TypeOK /\ Mutex /\ None \notin Procs
  BY Amounts
(* The holder goes on. *)
<1>1. ASSUME NEW j \in 1..Len(queue'), queue'[j] = p, j <= i, UNCHANGED holder,
             holder # None => timer'[holder] = timer[holder], timer'[p] = timer[p]
      PROVE  Goal
  <2>1. Held' = Held /\ Spent' = Spent
    BY <1>1 DEF Held, Spent
  <2>2. j - 1 + Held <= i - 1 + Held
    BY <1>0, <1>1
  <2> QED BY <1>0, <1>1, <2>1, <2>2
(* Somebody else moves who is not the holder, and leaves the queue alone. *)
<1>2. ASSUME NEW q \in Procs, NEW label, label # "wait", Goto(q, label), pc[q] # "fetch",
             UNCHANGED <<queue, holder>>
      PROVE  Goal
  <2>1. q # p /\ q # holder
    BY <1>0, <1>2, GotoEffect DEF Mutex
  <2>2. timer'[p] = timer[p] /\ (holder # None => timer'[holder] = timer[holder])
    BY <1>0, <1>2, <2>1, GotoEffect
  <2> QED BY <1>0, <1>1, <1>2, <2>2
(* Somebody else leaves the lock. *)
<1>3. ASSUME NEW q \in Procs, NEW label, label # "wait", Goto(q, label), pc[q] = "fetch",
             UNCHANGED queue, holder' = None
      PROVE  Goal
  <2>1. Held = 1 /\ Held' = 0 /\ Spent' = 0
    BY <1>0, <1>3 DEF Held, Spent, Mutex
  <2>2. timer'[p] = timer[p]
    BY <1>0, <1>3, GotoEffect
  <2>3. i + 0 = i - 1 + Held
    BY <1>0, <2>1
  <2> QED BY <1>3, <2>1, <2>2, <2>3
<1>4. ASSUME UNCHANGED <<timer, queue, holder>> PROVE Goal
  BY <1>0, <1>1, <1>4
<1> HIDE DEF Goal
<1>5. ASSUME NEW q \in Procs, EnterRefresh(q) PROVE Goal
  <2>1. CASE Refreshed(q, "Ok") /\ UNCHANGED queue
    BY <1>0, <1>2, <1>5, <2>1, RefreshedEffect DEF EnterRefresh
  <2>2. CASE Goto(q, "wait") /\ queue' = Append(queue, q)
    <3>1. q # p /\ q # holder /\ UNCHANGED holder
      BY <1>0, <1>5 DEF EnterRefresh, Mutex
    <3>2. timer'[p] = timer[p] /\ (holder # None => timer'[holder] = timer[holder])
      BY <1>0, <2>2, <3>1, GotoEffect
    <3>3. i \in 1..Len(queue') /\ queue'[i] = p
      BY <1>0, <2>2
    <3> QED BY <1>0, <1>1, <3>1, <3>2, <3>3
  <2> QED BY <1>5, <2>1, <2>2 DEF EnterRefresh
<1>6. ASSUME NEW q \in Procs, AcquireLock(q) PROVE Goal
  <2>1. /\ Goto(q, "fetch") /\ queue # <<>> /\ queue[1] = q /\ queue' = Tail(queue)
        /\ holder = None /\ holder' = q
    BY <1>0, <1>6 DEF AcquireLock
  <2>2. q # p /\ timer'[p] = timer[p] /\ timer'[q] = 0
    BY <1>0, <2>1, GotoEffect
  <2>3. /\ Len(queue') = Len(queue) - 1
        /\ \A k \in 1..Len(queue') : queue'[k] = queue[k + 1]
    BY <1>0, <2>1
  <2>4. Held = 0 /\ Spent = 0 /\ Held' = 1 /\ Spent' = 0
    BY <1>0, <2>1, <2>2 DEF Held, Spent
  <2>5. i # 1
    BY <2>1, <2>2
  <2>6. i - 1 \in 1..Len(queue') /\ (i - 1) + 1 = i
    BY <1>0, <2>3, <2>5
  <2>7. queue'[i - 1] = p
    BY <2>3, <2>6
  <2>8. (i - 1) - 1 + 1 <= i - 1 + 0
    BY <1>0
  <2> QED BY <2>2, <2>4, <2>6, <2>7, <2>8 DEF Goal
<1>7. ASSUME NEW q \in Procs, RefreshOk(q) \/ \E error \in FetchError : RefreshErr(q, error)
      PROVE  Goal
  BY <1>3, <1>7, RefreshedEffect DEF RefreshOk, RefreshErr
<1>8. ASSUME NEW c \in Callers, Cancel(c) PROVE Goal
  <2>1. Goto(c, "done")
    BY <1>8 DEF Cancel, Finish
  <2>2. CASE pc[c] = "fetch" /\ holder' = None /\ UNCHANGED queue
    BY <1>0, <1>3, <2>1, <2>2
  <2>3. ASSUME NEW k \in 1..Len(queue), pc[c] = "wait", queue[k] = c, UNCHANGED holder,
               queue' = SubSeq(queue, 1, k - 1) \o SubSeq(queue, k + 1, Len(queue))
        PROVE  Goal
    <3> DEFINE left == SubSeq(queue, 1, k - 1) \o SubSeq(queue, k + 1, Len(queue))
    <3>1. /\ Len(left) = Len(queue) - 1
          /\ \A j \in 1..Len(left) : left[j] = IF j < k THEN queue[j] ELSE queue[j + 1]
      BY <1>0, DropPlaces
    <3>2. queue' = left
      BY <2>3
    <3> HIDE DEF left
    <3>3. c # holder /\ c # p
      BY <1>0, <2>1, <2>3, GotoEffect DEF Mutex
    <3>4. timer'[p] = timer[p] /\ (holder # None => timer'[holder] = timer[holder])
      BY <1>0, <2>1, <3>3, GotoEffect
    <3>5. CASE i < k
      <4>1. i \in 1..Len(queue')
        BY <1>0, <3>1, <3>2, <3>5
      <4>2. queue'[i] = p
        BY <3>1, <3>2, <3>5, <4>1
      <4>3. UNCHANGED holder /\ i <= i
        BY <1>0, <2>3
      <4> QED BY <1>1, <3>4, <4>1, <4>2, <4>3
    <3>6. CASE i > k
      <4>1. i - 1 \in 1..Len(queue') /\ ~(i - 1 < k) /\ (i - 1) + 1 = i /\ i - 1 <= i
        BY <1>0, <3>1, <3>2, <3>6
      <4>2. queue'[i - 1] = p
        BY <3>1, <3>2, <4>1
      <4> QED BY <1>0, <1>1, <2>3, <3>4, <4>1, <4>2
    <3>7. i # k
      BY <2>3, <3>3
    <3> QED BY <1>0, <3>5, <3>6, <3>7
  <2> QED BY <1>8, <2>2, <2>3 DEF Cancel
<1>9. ASSUME NEW doc \in Docs, Rotate(doc) PROVE Goal
  BY <1>4, <1>9 DEF Rotate, lock
<1>10. ASSUME NEW q \in Procs, Serve(q) PROVE Goal
  BY <1>4, <1>10 DEF Serve, lock
<1>11. ASSUME NEW c \in Callers, NEW token \in Token,
              Validate(c, token) \/ ValidateAsync(c, token)
       PROVE  Goal
  BY <1>0, <1>2, <1>11 DEF Validate, ValidateAsync, Begin, Finish, lock
<1>12. ASSUME NEW c \in Callers, CallRefresh(c) \/ Retry(c) PROVE Goal
  BY <1>0, <1>2, <1>12 DEF CallRefresh, Retry, Begin, Finish, lock
<1>13. CASE Wake
  BY <1>0, <1>2, <1>13 DEF Wake, lock
<1>14. CASE BootOk
  BY <1>0, <1>2, <1>14 DEF BootOk, lock
<1>15. ASSUME NEW error \in FetchError, BootErr(error) PROVE Goal
  BY <1>0, <1>2, <1>15 DEF BootErr, lock
<1>16. CASE UNCHANGED vars
  BY <1>4, <1>16 DEF vars, lock
<1> QED
  BY <1>5, <1>6, <1>7, <1>8, <1>9, <1>10, <1>11, <1>12, <1>13, <1>14, <1>15, <1>16
     DEF Next, Underway

(* When the clock moves, it moves for the holder and for who waits. *)
LEMMA TickWaiting ==
  ASSUME IInv, IsFiniteSet(Callers), Tick, NEW p \in Procs, pc[p] = "wait", queue # <<>>
  PROVE  /\ UNCHANGED <<pc, queue, holder>>
         /\ timer'[p] \in Nat /\ timer'[p] <= timer[p] + 1
         /\ Held' = Held /\ Spent' = Spent + 1
<1>1. UNCHANGED <<pc, queue, holder>> /\ holder # None
  BY DEF Tick, Overdue, lock
<1>2. holder \in Procs /\ timer'[holder] = timer[holder] + 1
  BY <1>1 DEF IInv, TypeOK, Mutex, Tick, Fetching
<1>3. timer[p] \in Nat /\ timer'[p] = Later(timer[p])
  BY DEF IInv, TypeOK, Tick, Fetching
<1> QED BY <1>1, <1>2, <1>3, LaterNumber DEF Held, Spent

------------------------------------------------------------------------------
(* How long a process waits for the lock. *)

(* Everybody before p, the holder included, may take a timeout, and the      *)
(* holder has used some of its own.                                        *)
Patient(p, i) ==
  queue[i] = p /\ timer[p] + (i - 1 + Held) * Timeout <= Cardinality(Callers) * Timeout + Spent

Patience == \A p \in Procs : pc[p] = "wait" => \E i \in 1..Len(queue) : Patient(p, i)

LEMMA InitPatience == Init => Patience
BY DEF Init, Patience

LEMMA NextPatience ==
  ASSUME IsFiniteSet(Callers)
  PROVE  IInv /\ Lined /\ Patience /\ [Next]_vars => Patience'
<1> SUFFICES ASSUME IInv, Lined, Patience, [Next]_vars, NEW p \in Procs, pc'[p] = "wait"
             PROVE  \E j \in 1..Len(queue') : Patient(p, j)'
  BY DEF Patience
<1>0. /\ Cardinality(Callers) \in Nat /\ Timeout \in Nat /\ Len(queue) \in Nat
      /\ queue \in Seq(Procs) /\ timer[p] \in Nat /\ Held \in {0, 1} /\ Spent \in 0..Timeout
      /\ TypeOK /\ Mutex
  BY Amounts
<1> DEFINE most == Cardinality(Callers) * Timeout
<1>1. most \in Nat
  BY <1>0, Multiples
<1>2. CASE Tick
  <2>1. PICK i \in 1..Len(queue) : Patient(p, i)
    BY <1>2 DEF Tick, Patience
  <2>2. /\ queue' = queue /\ timer'[p] \in Nat /\ timer'[p] <= timer[p] + 1
        /\ Held' = Held /\ Spent' = Spent + 1
    <3>1. pc[p] = "wait" /\ queue # <<>>
      BY <1>0, <1>2, <2>1 DEF Tick
    <3> QED BY <1>2, <3>1, TickWaiting
  <2>3. PICK load \in Nat : load = (i - 1 + Held) * Timeout
    BY <1>0, Multiples
  <2>4. timer[p] + load <= most + Spent
    BY <2>1, <2>3 DEF Patient
  <2> HIDE DEF most
  <2>5. timer'[p] + load <= most + Spent'
    BY <1>0, <1>1, <2>2, <2>3, <2>4
  <2> QED BY <2>1, <2>2, <2>3, <2>5 DEF Patient, most
<1>3. CASE ~Tick /\ pc[p] = "wait"
  <2>1. PICK i \in 1..Len(queue) : Patient(p, i)
    BY <1>3 DEF Patience
  <2>2. PICK j \in 1..Len(queue'), h \in {0, 1}, s \in Nat :
          /\ queue'[j] = p /\ Held' = h /\ Spent' = s
          /\ timer'[p] = timer[p]
          /\ \/ j - 1 + h <= i - 1 + Held /\ s = Spent
             \/ j + h = i - 1 + Held
    BY <1>3, <2>1, Advances DEF Patient
  <2>3. PICK n \in Nat, m \in Nat : n = i - 1 + Held /\ m = j - 1 + h
    BY <1>0
  <2>4. (m <= n /\ s = Spent) \/ m + 1 = n
    BY <1>0, <2>2, <2>3
  <2>5. timer[p] + n * Timeout <= most + Spent
    BY <2>1, <2>3 DEF Patient
  <2> HIDE DEF most
  <2>6. timer[p] + m * Timeout <= most + s
    BY <1>0, <1>1, <2>4, <2>5, LessAhead
  <2> QED BY <2>2, <2>3, <2>6 DEF Patient, most
<1>4. CASE pc[p] # "wait"
  <2>1. PICK q \in Procs : EnterRefresh(q) /\ q = p /\ Goto(q, "wait") /\ queue' = Append(queue, q)
    <3>1. ASSUME NEW q \in Procs, NEW label, Goto(q, label), label # "wait" PROVE FALSE
      BY <1>0, <1>4, <3>1, GotoEffect
    <3>2. pc' # pc
      BY <1>4
    <3>3. ASSUME NEW q \in Procs, NEW verdict, Refreshed(q, verdict) PROVE FALSE
      BY <3>1, <3>3, RefreshedEffect
    <3>4. ASSUME NEW q \in Procs, EnterRefresh(q)
          PROVE  q = p /\ Goto(q, "wait") /\ queue' = Append(queue, q)
      <4>1. Goto(q, "wait") /\ queue' = Append(queue, q)
        BY <3>3, <3>4 DEF EnterRefresh
      <4> QED BY <1>0, <1>4, <4>1, GotoEffect
    <3>5. ASSUME NEW q \in Procs,
                 \/ AcquireLock(q) \/ RefreshOk(q) \/ \E error \in FetchError : RefreshErr(q, error)
          PROVE  FALSE
      BY <3>1, <3>3, <3>5 DEF AcquireLock, RefreshOk, RefreshErr
    <3>6. ASSUME NEW c \in Callers, NEW token \in Token,
                 \/ Validate(c, token) \/ ValidateAsync(c, token)
          PROVE  FALSE
      BY <3>1, <3>6 DEF Validate, ValidateAsync, Finish, Procs
    <3>7. ASSUME NEW c \in Callers, Retry(c) \/ Cancel(c) \/ CallRefresh(c) PROVE FALSE
      BY <3>1, <3>7 DEF Retry, Cancel, CallRefresh, Finish, Procs
    <3>8. ASSUME Wake \/ BootOk \/ \E error \in FetchError : BootErr(error) PROVE FALSE
      BY <3>1, <3>8 DEF Wake, BootOk, BootErr, Procs
    <3>9. ASSUME \/ Tick \/ UNCHANGED vars \/ \E doc \in Docs : Rotate(doc)
                 \/ \E q \in Procs : Serve(q)
          PROVE  FALSE
      BY <3>2, <3>9 DEF Tick, vars, Rotate, Serve
    <3> QED BY <3>4, <3>5, <3>6, <3>7, <3>8, <3>9 DEF Next, Underway
  <2>2. timer'[p] = 0 /\ pc[p] = "refresh" /\ UNCHANGED holder
    BY <1>0, <2>1, GotoEffect DEF EnterRefresh
  <2>3. Len(queue') = Len(queue) + 1 /\ queue'[Len(queue) + 1] = p
    BY <1>0, <2>1
  <2>4. Held' = Held /\ Spent' = Spent
    <3>1. holder # p
      BY <1>0, <2>2 DEF Mutex
    <3>2. holder # None => timer'[holder] = timer[holder]
      BY <1>0, <2>1, <3>1, GotoEffect, Amounts
    <3> QED BY <2>2, <3>2 DEF Held, Spent
  <2>5. PICK m \in Nat : m = Len(queue) + Held /\ m <= Cardinality(Callers)
    BY <1>0, <2>2, FewAhead
  <2>6. m * Timeout \in Nat /\ m * Timeout <= most
    BY <1>0, <2>5, Multiples
  <2>7. timer'[p] + m * Timeout <= most + Spent'
    <3>1. PICK x \in Nat : x = m * Timeout
      BY <2>6
    <3> HIDE DEF most
    <3> QED BY <1>0, <1>1, <2>2, <2>4, <2>6, <3>1
  <2>8. PICK j \in 1..Len(queue') : j = Len(queue) + 1
    BY <1>0, <2>3
  <2>9. m = j - 1 + Held'
    BY <1>0, <2>4, <2>5, <2>8
  <2> QED BY <2>3, <2>7, <2>8, <2>9 DEF Patient
<1> QED BY <1>2, <1>3, <1>4

(* Nobody waits for refresh_lock longer than one request timeout for each of *)
(* the others takes (jwt.rs:234), whatever the provider does and however   *)
(* many callers there are.                                                 *)
THEOREM QueueIsBounded ==
  ASSUME IsFiniteSet(Callers)
  PROVE  Spec => []WaitsAreBounded
<1>1. IInv /\ Patience => WaitsAreBounded
  <2> SUFFICES ASSUME IInv, Patience, NEW p \in Procs, pc[p] = "wait"
               PROVE  timer[p] <= Cardinality(Callers) * Timeout
    BY DEF WaitsAreBounded
  <2>0. /\ Cardinality(Callers) \in Nat /\ Timeout \in Nat /\ timer[p] \in Nat
        /\ Held \in {0, 1} /\ Spent \in 0..Timeout /\ Len(queue) \in Nat
    BY Amounts
  <2>1. PICK i \in 1..Len(queue) : Patient(p, i)
    BY DEF Patience
  <2>2. PICK most \in Nat : most = Cardinality(Callers) * Timeout
    BY <2>0, Multiples
  <2>3. PICK n \in Nat : n = i - 1 + Held
    BY <2>0
  <2>4. timer[p] + n * Timeout <= most + Spent
    BY <2>1, <2>2, <2>3 DEF Patient
  <2>5. CASE n = 0
    <3>1. Spent = 0 /\ n * Timeout = 0
      BY <2>0, <2>3, <2>5 DEF Held, Spent
    <3> QED BY <2>0, <2>2, <2>4, <3>1
  <2>6. CASE n >= 1
    <3>1. 1 * Timeout <= n * Timeout /\ n * Timeout \in Nat
      BY <2>0, <2>6, Multiples
    <3>2. PICK load \in Nat : load = n * Timeout /\ Timeout <= load
      BY <2>0, <3>1
    <3> QED BY <2>0, <2>2, <2>4, <3>2
  <2> QED BY <2>3, <2>5, <2>6
<1>2. Init => Lined /\ Patience
  BY InitLined, InitPatience
<1>3. IInv /\ Lined /\ Patience /\ [Next]_vars => (Lined /\ Patience)'
  BY NextLined, NextPatience DEF IInv
<1> QED BY <1>1, <1>2, <1>3, InductiveInvariant, PTL DEF Spec

------------------------------------------------------------------------------
(* The age of the cache at every place of the task. *)

(* When the task gets the lock at the latest. *)
Budget == Interval + Cardinality(Callers) * Timeout

(* The task is i-th in the queue: everybody before it, the holder included,  *)
(* may take a timeout, and the holder has used some of its own.            *)
InTime(i) == queue[i] = Task /\ age + (i - 1 + Held) * Timeout <= Budget + Spent

Punctual ==
  /\ pc[Task] = "none" <=> ~HasRemote
  /\ pc[Task] = "boot" => age = 0
  /\ pc[Task] = "sleep" => age <= timer[Task] /\ timer[Task] <= Interval
  /\ pc[Task] = "refresh" => age <= Interval
  /\ pc[Task] = "wait" => \E i \in 1..Len(queue) : InTime(i)
  /\ pc[Task] = "fetch" => age <= Budget + timer[Task]

LEMMA Quantities ==
  ASSUME IInv, RoomEnough
  PROVE  /\ Cardinality(Callers) \in Nat /\ Budget \in Nat /\ Budget >= Interval
         /\ Interval \in Nat /\ Timeout \in Nat /\ MaxStale >= Budget + Timeout
         /\ age \in Nat /\ Len(queue) \in Nat /\ \A p \in Procs : timer[p] \in Nat
         /\ Held \in {0, 1} /\ Spent \in 0..Timeout
         /\ Task \in Procs /\ \A c \in Callers : c \in Procs /\ c # Task
<1>1. Interval \in Nat /\ MaxStale \in Nat /\ age \in Nat
  BY ConstantsAssumption DEF IInv, TypeOK
<1>2. PICK n \in Nat : n = Cardinality(Callers)
  BY Amounts DEF RoomEnough
<1>3. n * Timeout \in Nat /\ (n + 1) * Timeout = n * Timeout + Timeout /\ Timeout \in Nat
  BY ConstantsAssumption, Multiples
<1>4. Budget \in Nat /\ Budget >= Interval /\ MaxStale >= Budget + Timeout
  BY <1>1, <1>2, <1>3 DEF Budget, RoomEnough
<1> QED BY <1>1, <1>4, Amounts DEF RoomEnough

LEMMA InitPunctual == Init => Punctual
BY ConstantsAssumption DEF Init, Punctual, Procs

(* A step by which the clock moves. *)
LEMMA TickPunctual ==
  ASSUME IInv, Punctual, RoomEnough, Tick
  PROVE  Punctual'
<1>0. /\ Budget \in Nat /\ Interval \in Nat /\ Timeout \in Nat /\ age \in Nat /\ Task \in Procs
      /\ \A p \in Procs : timer[p] \in Nat
      /\ age \in 0..Horizon
  BY Quantities DEF IInv, TypeOK
<1>1. age' \in Nat /\ age' <= age + 1
  BY <1>0, LaterType DEF Tick
<1>2. UNCHANGED <<pc, queue, holder>>
  BY DEF Tick, lock
<1>3. CASE pc[Task] \in {"none", "boot", "refresh"}
  BY <1>0, <1>2, <1>3 DEF Punctual, Tick, Overdue
<1>4. CASE pc[Task] = "sleep"
  <2>1. timer[Task] < Interval /\ timer'[Task] = timer[Task] + 1
    BY <1>0, <1>4 DEF Tick, Overdue
  <2> QED BY <1>0, <1>1, <1>2, <1>4, <2>1 DEF Punctual
<1>5. CASE pc[Task] = "fetch"
  <2>1. timer'[Task] = timer[Task] + 1
    BY <1>0, <1>5 DEF Tick, Fetching
  <2> QED BY <1>0, <1>1, <1>2, <1>5, <2>1 DEF Punctual
<1>6. CASE pc[Task] = "wait"
  <2>1. PICK i \in 1..Len(queue) : InTime(i)
    BY <1>6 DEF Punctual
  <2>2. holder # None
    BY <2>1 DEF Tick, Overdue, IInv, TypeOK
  <2>3. holder \in Procs /\ timer'[holder] = timer[holder] + 1
    BY <2>2 DEF IInv, TypeOK, Mutex, Tick, Fetching
  <2>4. Held' = Held /\ Spent' = Spent + 1 /\ Spent \in Nat
    BY <1>0, <1>2, <2>2, <2>3 DEF Held, Spent
  <2>5. PICK load \in Nat : load = (i - 1 + Held) * Timeout
    BY <1>0, Multiples DEF Held
  <2>6. age + load <= Budget + Spent
    BY <2>1, <2>5 DEF InTime
  <2>7. age' + load <= Budget + Spent'
    BY <1>0, <1>1, <2>4, <2>5, <2>6
  <2> QED BY <1>2, <1>6, <2>1, <2>4, <2>5, <2>7 DEF Punctual, InTime, Budget
<1>7. CASE pc[Task] = "failed"
  BY <1>2, <1>7 DEF Punctual
<1> QED BY <1>3, <1>4, <1>5, <1>6, <1>7 DEF IInv, TypeOK, TaskLabel

LEMMA NextPunctual ==
  ASSUME PromptProvider, RoomEnough
  PROVE  IInv /\ Lined /\ Punctual /\ [Next]_vars => Punctual'
<1> SUFFICES ASSUME IInv, Lined, Punctual, [Next]_vars, ~Tick PROVE Punctual'
  BY TickPunctual
<1>0. /\ Budget \in Nat /\ Budget >= Interval /\ Interval \in Nat /\ Timeout \in Nat
      /\ age \in Nat /\ Len(queue) \in Nat /\ \A p \in Procs : timer[p] \in Nat
      /\ Held \in {0, 1} /\ Spent \in 0..Timeout
      /\ Task \in Procs /\ \A c \in Callers : c \in Procs /\ c # Task
      /\ TypeOK /\ Mutex
  BY Quantities, Amounts DEF RoomEnough
(* The task stays where it is. *)
<1>1. ASSUME UNCHANGED <<pc[Task], timer[Task]>>, age' \in {0, age} PROVE Punctual'
  <2>1. ASSUME NEW i \in 1..Len(queue), InTime(i), pc[Task] = "wait"
        PROVE  \E j \in 1..Len(queue') : InTime(j)'
    <3>1. PICK j \in 1..Len(queue'), h \in {0, 1}, s \in Nat :
            /\ queue'[j] = Task /\ Held' = h /\ Spent' = s
            /\ \/ j - 1 + h <= i - 1 + Held /\ s = Spent
               \/ j + h = i - 1 + Held
      BY <1>0, <1>1, <2>1, Advances DEF InTime, RoomEnough
    <3>2. PICK n \in Nat, m \in Nat : n = i - 1 + Held /\ m = j - 1 + h
      BY <1>0
    <3>3. (m <= n /\ s = Spent) \/ m + 1 = n
      BY <1>0, <3>1, <3>2
    <3>4. age + n * Timeout <= Budget + Spent
      BY <2>1, <3>2 DEF InTime
    <3>5. PICK b \in Nat : b = age' /\ b <= age
      BY <1>0, <1>1
    <3>6. b + m * Timeout <= Budget + s
      BY <1>0, <3>3, <3>4, <3>5, LessAhead
    <3> QED BY <3>1, <3>2, <3>5, <3>6 DEF InTime, Budget
  <2> QED BY <1>0, <1>1, <2>1 DEF Punctual
(* Somebody else moves. *)
<1>2. ASSUME NEW c \in Callers, NEW label, Goto(c, label), age' \in {0, age} PROVE Punctual'
  BY <1>0, <1>1, <1>2, GotoEffect
<1>3. ASSUME NEW c \in Callers, NEW verdict, Refreshed(c, verdict), age' \in {0, age}
      PROVE  Punctual'
  BY <1>0, <1>2, <1>3, RefreshedEffect
<1>4. ASSUME NEW doc \in Docs, Rotate(doc) PROVE Punctual'
  BY <1>1, <1>4 DEF Rotate, state
<1>5. ASSUME NEW p \in Procs, Serve(p) PROVE Punctual'
  BY <1>1, <1>5 DEF Serve, state
<1>6. ASSUME NEW c \in Callers, NEW token \in Token, Validate(c, token) \/ ValidateAsync(c, token)
      PROVE  Punctual'
  BY <1>2, <1>6 DEF Validate, ValidateAsync, Finish, state
<1>7. ASSUME NEW c \in Callers, CallRefresh(c) \/ Retry(c) \/ Cancel(c) PROVE Punctual'
  BY <1>2, <1>7 DEF CallRefresh, Retry, Cancel, Finish, state
<1>8. ASSUME NEW c \in Callers, EnterRefresh(c) \/ AcquireLock(c) PROVE Punctual'
  BY <1>2, <1>3, <1>8 DEF EnterRefresh, AcquireLock, state
<1>9. ASSUME NEW c \in Callers, RefreshOk(c) PROVE Punctual'
  BY <1>3, <1>9 DEF RefreshOk, Install
<1>10. CASE Wake
  <2>1. pc'[Task] = "refresh" /\ age' = age
    BY <1>0, <1>10, GotoEffect DEF Wake, state
  <2> QED BY <1>0, <1>10, <2>1 DEF Punctual, Wake
<1>11. CASE EnterRefresh(Task)
  <2>1. pc[Task] = "refresh" /\ HasRemote /\ UNCHANGED <<age, holder>>
    BY <1>11 DEF EnterRefresh, Punctual, state
  <2>2. Goto(Task, "wait") /\ queue' = Append(queue, Task)
    BY <1>11, <2>1 DEF EnterRefresh
  <2>3. pc'[Task] = "wait" /\ \A c \in Callers : timer'[c] = timer[c]
    BY <1>0, <2>2, GotoEffect
  <2>4. Len(queue') = Len(queue) + 1 /\ queue'[Len(queue) + 1] = Task
    BY <1>0, <2>2 DEF TypeOK
  <2>5. holder # Task
    BY <1>0, <2>1 DEF Mutex
  <2>6. Held' = Held /\ Spent' = Spent
    BY <1>0, <2>1, <2>3, <2>5 DEF Held, Spent, Procs, TypeOK
  <2>7. PICK m \in Nat : m = Len(queue) + Held /\ m <= Cardinality(Callers)
    BY <1>0, <2>1, FewAhead DEF RoomEnough
  <2>8. m * Timeout \in Nat /\ m * Timeout <= Cardinality(Callers) * Timeout
    BY <1>0, <2>7, Multiples, Quantities
  <2>9. age' + m * Timeout <= Budget + Spent'
    <3>0. Cardinality(Callers) \in Nat /\ Cardinality(Callers) * Timeout \in Nat
      BY <1>0, Quantities, Multiples
    <3>1. PICK x \in Nat, y \in Nat : x = m * Timeout /\ y = Cardinality(Callers) * Timeout
      BY <2>8, <3>0
    <3>2. age <= Interval /\ x <= y /\ Budget = Interval + y
      BY <2>1, <2>8, <3>1 DEF Punctual, Budget
    <3>3. age + x <= Budget + Spent
      BY <1>0, <3>1, <3>2
    <3> QED BY <2>1, <2>6, <3>1, <3>3
  <2>10. PICK j \in 1..Len(queue') : j = Len(queue) + 1
    BY <1>0, <2>4
  <2>11. m = j - 1 + Held'
    BY <1>0, <2>6, <2>7, <2>10
  <2>12. InTime(j)'
    BY <2>4, <2>9, <2>10, <2>11 DEF InTime, Budget
  <2> QED BY <2>1, <2>3, <2>12 DEF Punctual
<1>12. CASE AcquireLock(Task)
  <2>1. /\ pc[Task] = "wait" /\ queue[1] = Task /\ queue # <<>> /\ holder = None
        /\ pc'[Task] = "fetch" /\ timer'[Task] = 0 /\ UNCHANGED age
    BY <1>0, <1>12, GotoEffect DEF AcquireLock, TypeOK, state
  <2>2. PICK i \in 1..Len(queue) : InTime(i)
    BY <2>1 DEF Punctual
  <2>3. i = 1
    BY <1>0, <2>1, <2>2 DEF InTime, Lined, TypeOK
  <2>4. Held = 0 /\ Spent = 0
    BY <2>1 DEF Held, Spent
  <2>5. (i - 1 + Held) * Timeout = 0
    BY <1>0, <2>3, <2>4
  <2>6. age <= Budget
    BY <1>0, <2>2, <2>4, <2>5 DEF InTime
  <2> QED BY <1>0, <2>1, <2>6 DEF Punctual, Budget
<1>13. CASE RefreshOk(Task)
  BY <1>0, <1>13, RefreshedEffect, GotoEffect DEF RefreshOk, Install, Punctual
<1>14. ASSUME NEW p \in Procs, NEW error, FetchFailed(p, error) PROVE FALSE
  BY <1>14 DEF FetchFailed, PromptProvider, IInv, TypeOK, Response
<1>15. CASE BootOk
  BY <1>0, <1>15, GotoEffect DEF BootOk, Install, Punctual
<1>16. CASE UNCHANGED vars
  BY <1>1, <1>16 DEF vars, state
<1> QED
  BY <1>4, <1>5, <1>6, <1>7, <1>8, <1>9, <1>10, <1>11, <1>12, <1>13, <1>14, <1>15, <1>16
     DEF Next, Underway, Procs, RefreshErr, BootErr

------------------------------------------------------------------------------
(* The scheduled refresh is in time (jwt.rs:316-327): with a provider that   *)
(* answers and room for the interval and one timeout each for the task and *)
(* every caller, no token is ever refused because the cache is stale,       *)
(* although callers may queue for refresh_lock ahead of the task and be     *)
(* dropped with their exchange nearly over.                                *)
THEOREM CacheNeverStale ==
  ASSUME PromptProvider, RoomEnough
  PROVE  Spec => []NeverStale
<1>1. IInv /\ Punctual => NeverStale
  <2> SUFFICES ASSUME IInv, Punctual, Serving, HasRemote PROVE age <= MaxStale
    BY ConstantsAssumption, Quantities DEF NeverStale, Stale
  <2>0. /\ Budget \in Nat /\ Budget >= Interval /\ Interval \in Nat /\ Timeout \in Nat
        /\ MaxStale >= Budget + Timeout /\ MaxStale \in Nat
        /\ age \in Nat /\ Held \in {0, 1} /\ Spent \in 0..Timeout /\ timer[Task] \in Nat
    BY Quantities, ConstantsAssumption
  <2>1. CASE pc[Task] = "sleep" \/ pc[Task] = "refresh"
    BY <2>0, <2>1 DEF Punctual
  <2>2. CASE pc[Task] = "wait"
    <3>1. PICK i \in 1..Len(queue) : InTime(i)
      BY <2>2 DEF Punctual
    <3>2. PICK load \in Nat : load = (i - 1 + Held) * Timeout
      BY <2>0, Multiples
    <3> QED BY <2>0, <3>1, <3>2 DEF InTime
  <2>3. CASE pc[Task] = "fetch"
    <3>1. timer[Task] <= Timeout
      BY <2>3, Quantities DEF IInv, Exchanges, Fetching
    <3> QED BY <2>0, <2>3, <3>1 DEF Punctual
  <2> QED BY <2>1, <2>2, <2>3 DEF Serving, Punctual, IInv, TypeOK, TaskLabel
<1>2. Init => Lined /\ Punctual
  BY InitLined, InitPunctual
<1>3. IInv /\ Lined /\ Punctual /\ [Next]_vars => (Lined /\ Punctual)'
  BY NextLined, NextPunctual DEF IInv
<1> QED BY <1>1, <1>2, <1>3, InductiveInvariant, PTL DEF Spec

==============================================================================
