------------------------------ MODULE Inductions ------------------------------
(***************************************************************************)
(* Induction, stated over sets of numbers: an invariant of a loop is the   *)
(* set of the turns after which it holds.  And what this gives for         *)
(* functions that are defined by recursion, the folds of the community     *)
(* modules among them: that there is such a function.                      *)
(***************************************************************************)
EXTENDS SequencesExt, WellFoundedInduction, SequenceTheorems, TLAPS

(* A set of numbers that is not empty has a least one. *)
LEMMA LeastNumber ==
  ASSUME NEW I \in SUBSET Nat, I # {}
  PROVE  Min(I) \in I /\ \A i \in I : Min(I) <= i
<1>1. \E i \in I : \A j \in I : ~(<<j, i>> \in OpToRel(<, Nat))
  BY NatLessThanWellFounded, WFMin
<1>2. \E i \in I : \A j \in I : ~(<<j, i>> \in {ss \in Nat \X Nat : ss[1] < ss[2]})
  BY <1>1 DEF OpToRel
<1>3. PICK i \in I : \A j \in I : ~(<<j, i>> \in {ss \in Nat \X Nat : ss[1] < ss[2]})
  BY <1>2
<1>4. ASSUME NEW j \in I PROVE i <= j
  <2>1. <<j, i>> \in Nat \X Nat /\ ~(j < i)
    BY <1>3
  <2> QED BY <2>1
<1> QED BY <1>4 DEF Min

(* Upwards from 0 to n. *)
LEMMA Upwards ==
  ASSUME NEW n \in Nat, NEW I, 0 \in I, \A k \in 1..n : k - 1 \in I => k \in I
  PROVE  \A k \in 0..n : k \in I
<1> DEFINE J == {k \in 0..n : k \notin I}
<1>1. SUFFICES ASSUME J # {} PROVE FALSE
  OBVIOUS
<1>2. PICK m \in J : \A j \in J : m <= j
  <2>1. J \in SUBSET Nat
    OBVIOUS
  <2> HIDE DEF J
  <2> QED BY <1>1, <2>1, LeastNumber
<1>3. m \in 1..n /\ m \notin I /\ m - 1 \in 0..n
  OBVIOUS
<1>4. m - 1 \notin J
  BY <1>2, <1>3
<1> QED BY <1>3, <1>4

(* Downwards from n to 0. *)
LEMMA Downwards ==
  ASSUME NEW n \in Nat, NEW I, n \in I, \A k \in 0..(n - 1) : k + 1 \in I => k \in I
  PROVE  \A k \in 0..n : k \in I
<1> DEFINE J == {k \in 0..n : n - k \in I}
<1>1. \A k \in 0..n : k \in J
  <2>1. 0 \in J
    OBVIOUS
  <2>2. ASSUME NEW k \in 1..n, k - 1 \in J PROVE k \in J
    <3>1. n - k \in 0..(n - 1) /\ (n - k) + 1 = n - (k - 1)
      OBVIOUS
    <3> QED BY <2>2, <3>1
  <2> HIDE DEF J
  <2> QED BY <2>1, <2>2, Upwards
<1>2. ASSUME NEW k \in 0..n PROVE k \in I
  <2>1. n - k \in 0..n /\ n - (n - k) = k
    OBVIOUS
  <2> QED BY <1>1, <2>1
<1> QED BY <1>2

------------------------------------------------------------------------------
(* The numbers up to k, from which a fold takes the greatest first. *)
LEMMA GreatestOfInterval ==
  ASSUME NEW k \in Nat \ {0}
  PROVE  Max(1..k) = k /\ (1..k) \ {k} = 1..(k - 1) /\ 1..k # {}
<1>1. k \in 1..k /\ \A y \in 1..k : k >= y
  OBVIOUS
<1>2. Max(1..k) \in 1..k /\ \A y \in 1..k : Max(1..k) >= y
  BY <1>1 DEF Max
<1> QED BY <1>1, <1>2

LEMMA GreatestOfSome ==
  ASSUME NEW n \in Nat, NEW s \in SUBSET (1..n), s # {}
  PROVE  Max(s) \in s /\ \A i \in s : i <= Max(s)
<1> DEFINE J == {k \in 0..n : \A i \in s : i <= k}
<1>1. J \in SUBSET Nat /\ n \in J
  OBVIOUS
<1>2. PICK m \in J : \A j \in J : m <= j
  <2> HIDE DEF J
  <2> QED BY <1>1, LeastNumber
<1>3. m \in 0..n /\ \A i \in s : i <= m
  OBVIOUS
<1>4. m \in s
  <2>1. SUFFICES ASSUME m \notin s PROVE FALSE
    OBVIOUS
  <2>2. PICK i \in s : TRUE
    OBVIOUS
  <2>3. m - 1 \in 0..n /\ \A j \in s : j <= m - 1
    BY <1>3, <2>1, <2>2
  <2> QED BY <1>2, <1>3, <2>3
<1>5. \A y \in s : m >= y
  BY <1>3
<1> QED BY <1>4, <1>5 DEF Max

(* FoldLeft of the community modules takes the elements of a sequence of n  *)
(* elements one after the other, by a recursion over sets of their numbers: *)
(* step takes what the fold has come to before an element, and its number. *)
StepOn(step, n, V) == step \in [V \X (1..n) -> V]
Folds(g, n, V, base, step) ==
  /\ g \in [SUBSET (1..n) -> V]
  /\ \A s \in SUBSET (1..n) :
       /\ s = {} => g[s] = base
       /\ s # {} => Max(s) \in s /\ g[s] = step[<<g[s \ {Max(s)}], Max(s)>>]

(* There is a function that does what the recursion says... *)
LEMMA FoldExists ==
  ASSUME NEW n \in Nat, NEW V, NEW base \in V, NEW step, StepOn(step, n, V)
  PROVE  \E g : Folds(g, n, V, base, step)
<1> DEFINE Fold(g, k) ==
             \A s \in SUBSET (1..k) :
               /\ s = {} => g[s] = base
               /\ s # {} => g[s] = step[<<g[s \ {Max(s)}], Max(s)>>]
           I == {k \in 0..n : \E g \in [SUBSET (1..k) -> V] : Fold(g, k)}
<1>0. step \in [V \X (1..n) -> V]
  BY DEF StepOn
<1>1. 0 \in I
  <2> DEFINE g == [s \in SUBSET (1..0) |-> base]
  <2>1. 1..0 = {}
    OBVIOUS
  <2>2. \A s \in SUBSET (1..0) : s = {} /\ g[s] = base
    BY <2>1
  <2>3. g \in [SUBSET (1..0) -> V]
    OBVIOUS
  <2>4. Fold(g, 0)
    <3> HIDE DEF g
    <3> QED BY <2>2
  <2>5. \E h \in [SUBSET (1..0) -> V] : Fold(h, 0)
    <3> HIDE DEF g, Fold
    <3> QED BY <2>3, <2>4
  <2>6. 0 \in 0..n
    OBVIOUS
  <2> HIDE DEF Fold
  <2> QED BY <2>5, <2>6
<1>2. ASSUME NEW k \in 1..n, k - 1 \in I PROVE k \in I
  <2>1. PICK g \in [SUBSET (1..(k - 1)) -> V] : Fold(g, k - 1)
    BY <1>2
  <2> DEFINE f == [s \in SUBSET (1..k) |-> IF k \in s THEN step[<<g[s \ {k}], k>>] ELSE g[s]]
  <2>2. \A s \in SUBSET (1..k) : /\ k \in s => s \ {k} \in SUBSET (1..(k - 1))
                                 /\ k \notin s => s \in SUBSET (1..(k - 1))
    OBVIOUS
  <2>3. f \in [SUBSET (1..k) -> V]
    BY <1>0, <2>2
  <2>4. ASSUME NEW s \in SUBSET (1..k), s # {}, k \in s
        PROVE  f[s] = step[<<f[s \ {Max(s)}], Max(s)>>]
    <3>1. Max(s) \in s /\ \A i \in s : i <= Max(s)
      <4>1. k \in Nat
        OBVIOUS
      <4> HIDE DEF f
      <4> QED BY <2>4, <4>1, GreatestOfSome
    <3>2. Max(s) = k
      <4>1. Max(s) \in 1..k /\ k <= Max(s)
        BY <2>4, <3>1
      <4> QED BY <4>1
    <3>3. f[s \ {k}] = g[s \ {k}]
      BY <2>2, <2>4
    <3> QED BY <2>4, <3>2, <3>3
  <2>5. ASSUME NEW s \in SUBSET (1..k), s # {}, k \notin s
        PROVE  f[s] = step[<<f[s \ {Max(s)}], Max(s)>>]
    <3>1. s \in SUBSET (1..(k - 1)) /\ f[s] = g[s]
      BY <2>2, <2>5
    <3>2. g[s] = step[<<g[s \ {Max(s)}], Max(s)>>]
      BY <2>1, <2>5, <3>1
    <3>3. f[s \ {Max(s)}] = g[s \ {Max(s)}]
      BY <2>5
    <3> QED BY <3>1, <3>2, <3>3
  <2>6. f[{}] = base
    <3>1. f[{}] = g[{}] /\ g[{}] = base
      BY <2>1
    <3> QED BY <3>1
  <2>7. Fold(f, k)
    <3> HIDE DEF f
    <3> QED BY <2>4, <2>5, <2>6
  <2> HIDE DEF f, Fold
  <2> QED BY <2>3, <2>7
<1>3. n \in I
  <2> HIDE DEF I
  <2> QED BY <1>1, <1>2, Upwards
<1>4. PICK g \in [SUBSET (1..n) -> V] : Fold(g, n)
  BY <1>3
<1>5. \A s \in SUBSET (1..n) : s # {} => Max(s) \in s
  BY GreatestOfSome
<1> QED BY <1>4, <1>5 DEF Folds

(* ... and one that does it takes the elements in their order. *)
Iterates(iter, n, V, base, step) ==
  \A s \in SUBSET (1..n) :
    /\ s = {} => iter[s] = base
    /\ s # {} /\ iter[s \ {Max(s)}] \in V => iter[s] = step[<<iter[s \ {Max(s)}], Max(s)>>]
Turns(iter, n, V, base, step) ==
  /\ \A k \in 0..n : iter[1..k] \in V
  /\ iter[1..0] = base
  /\ \A k \in 1..n : iter[1..k] = step[<<iter[1..(k - 1)], k>>]

LEMMA FoldInTurns ==
  ASSUME NEW n \in Nat, NEW V, NEW base \in V, NEW step, StepOn(step, n, V),
         NEW iter, Iterates(iter, n, V, base, step)
  PROVE  Turns(iter, n, V, base, step)
<1> DEFINE I == {k \in 0..n : iter[1..k] \in V}
<1>1. iter[1..0] = base
  <2>1. 1..0 = {}
    OBVIOUS
  <2> QED BY <2>1 DEF Iterates
<1>2. ASSUME NEW k \in 1..n, iter[1..(k - 1)] \in V
      PROVE  iter[1..k] = step[<<iter[1..(k - 1)], k>>]
  <2>1. k \in Nat \ {0} /\ 1..k \in SUBSET (1..n)
    OBVIOUS
  <2>2. Max(1..k) = k /\ (1..k) \ {k} = 1..(k - 1) /\ 1..k # {}
    BY <2>1, GreatestOfInterval
  <2> QED BY <1>2, <2>1, <2>2 DEF Iterates
<1>3. \A k \in 0..n : k \in I
  <2>1. 0 \in I
    BY <1>1
  <2>2. ASSUME NEW k \in 1..n, k - 1 \in I PROVE k \in I
    <3>1. iter[1..(k - 1)] \in V
      BY <2>2
    <3>2. step[<<iter[1..(k - 1)], k>>] \in V
      BY <3>1 DEF StepOn
    <3> QED BY <1>2, <3>1, <3>2
  <2> HIDE DEF I
  <2> QED BY <2>1, <2>2, Upwards
<1>4. \A k \in 0..n : iter[1..k] \in V
  BY <1>3
<1>5. ASSUME NEW k \in 1..n PROVE iter[1..(k - 1)] \in V
  <2>1. k - 1 \in 0..n
    OBVIOUS
  <2> QED BY <1>4, <2>1
<1> QED BY <1>1, <1>2, <1>4, <1>5 DEF Turns

------------------------------------------------------------------------------
(* A function on D may be defined by what step makes of its own values at   *)
(* places of a smaller rank.                                               *)
StepsBack(step, D, V, rank) ==
  /\ step \in [D \X [D -> V] -> V]
  /\ \A at \in D, f \in [D -> V], g \in [D -> V] :
       (\A b \in D : rank[b] < rank[at] => f[b] = g[b]) => step[<<at, f>>] = step[<<at, g>>]
Ranked(rank, D, n) == rank \in [D -> 0..n]
Recurs(f, D, V, step) == f \in [D -> V] /\ \A at \in D : f[at] = step[<<at, f>>]

LEMMA RecursionExists ==
  ASSUME NEW D, NEW V, NEW v \in V, NEW n \in Nat, NEW rank, Ranked(rank, D, n),
         NEW step, StepsBack(step, D, V, rank)
  PROVE  \E f : Recurs(f, D, V, step)
<1> DEFINE UpTo(f, k) == \A at \in D : rank[at] < k => f[at] = step[<<at, f>>]
           I == {k \in 0..(n + 1) : \E f \in [D -> V] : UpTo(f, k)}
<1>0. \A at \in D : rank[at] \in 0..n
  BY DEF Ranked
<1>1. 0 \in I
  <2> DEFINE g == [at \in D |-> v]
  <2>1. g \in [D -> V] /\ UpTo(g, 0)
    BY <1>0
  <2> HIDE DEF g, UpTo
  <2> QED BY <2>1
<1>2. ASSUME NEW k \in 1..(n + 1), k - 1 \in I PROVE k \in I
  <2>1. PICK f \in [D -> V] : UpTo(f, k - 1)
    BY <1>2
  <2> DEFINE g == [at \in D |-> IF rank[at] < k - 1 THEN f[at] ELSE step[<<at, f>>]]
  <2>2. g \in [D -> V]
    BY DEF StepsBack
  <2>3. ASSUME NEW at \in D, rank[at] < k PROVE g[at] = step[<<at, g>>]
    <3>1. \A b \in D : rank[b] < rank[at] => f[b] = g[b]
      BY <1>0, <2>3
    <3>2. step[<<at, f>>] = step[<<at, g>>]
      <4> HIDE DEF g
      <4> QED BY <2>2, <3>1 DEF StepsBack
    <3>3. g[at] = step[<<at, f>>]
      BY <2>1
    <3> HIDE DEF g
    <3> QED BY <3>2, <3>3
  <2>4. UpTo(g, k)
    <3> HIDE DEF g
    <3> QED BY <2>3
  <2> HIDE DEF g, UpTo
  <2> QED BY <2>2, <2>4
<1>3. n + 1 \in I
  <2>1. n + 1 \in Nat /\ n + 1 \in 0..(n + 1)
    OBVIOUS
  <2> HIDE DEF I
  <2> QED BY <1>1, <1>2, <2>1, Upwards
<1>4. PICK f \in [D -> V] : UpTo(f, n + 1)
  BY <1>3
<1> QED BY <1>0, <1>4 DEF Recurs

(* What holds at a place as soon as it holds at all places of a smaller rank *)
(* holds everywhere.                                                        *)
LEMMA RankInduction ==
  ASSUME NEW D, NEW n \in Nat, NEW rank, Ranked(rank, D, n), NEW J,
         \A at \in D : (\A b \in D : rank[b] < rank[at] => b \in J) => at \in J
  PROVE  \A at \in D : at \in J
<1> DEFINE I == {k \in 0..(n + 1) : \A at \in D : rank[at] < k => at \in J}
<1>0. \A at \in D : rank[at] \in 0..n
  BY DEF Ranked
<1>1. 0 \in I
  BY <1>0
<1>2. ASSUME NEW k \in 1..(n + 1), k - 1 \in I PROVE k \in I
  BY <1>0, <1>2
<1>3. n + 1 \in I
  <2>1. n + 1 \in Nat /\ n + 1 \in 0..(n + 1)
    OBVIOUS
  <2> HIDE DEF I
  <2> QED BY <1>1, <1>2, <2>1, Upwards
<1> QED BY <1>0, <1>3

==============================================================================
