-------------------------- MODULE PathMatchingProofs --------------------------
(* What TLAPS proves of path_matches, for every pattern and path.            *)
EXTENDS MCPathMatching, Inductions, FiniteSetTheorems

------------------------------------------------------------------------------
(* Glob is defined by a recursion over the characters of the pattern; this   *)
(* is what the recursion says.                                             *)
Globs(glob, p, s) ==
  \A i \in 1..(Len(p) + 1), j \in 1..(Len(s) + 1) :
    /\ i = Len(p) + 1 => (glob[<<i, j>>] <=> j = Len(s) + 1)
    /\ i <= Len(p) /\ p[i] = Star =>
         (glob[<<i, j>>] <=> \E k \in j..(Len(s) + 1) : glob[<<i + 1, k>>])
    /\ i <= Len(p) /\ p[i] # Star =>
         (glob[<<i, j>>] <=> j <= Len(s) /\ p[i] = s[j] /\ glob[<<i + 1, j + 1>>])

LEMMA GlobMeaning ==
  ASSUME NEW p \in Seq(Characters), NEW s \in Seq(Characters)
  PROVE  \E glob : Globs(glob, p, s) /\ (Glob(p, s) <=> glob[<<1, 1>>])
<1> DEFINE n == Len(p)
           m == Len(s)
           D == (1..(n + 1)) \X (1..(m + 1))
           Body(f, at) ==
             IF at[1] > n THEN at[2] > m
             ELSE IF p[at[1]] = Star THEN \E k \in at[2]..(m + 1) : f[<<at[1] + 1, k>>]
             ELSE at[2] <= m /\ p[at[1]] = s[at[2]] /\ f[<<at[1] + 1, at[2] + 1>>]
           step == [x \in D \X [D -> BOOLEAN] |-> Body(x[2], x[1])]
           rank == [at \in D |-> n + 1 - at[1]]
           Fill(f) == [at \in D |-> Body(f, at)]
           glob == CHOOSE f : f = Fill(f)
<1>0. n \in Nat /\ m \in Nat
  OBVIOUS
<1>1. Ranked(rank, D, n)
  <2>1. ASSUME NEW at \in D PROVE n + 1 - at[1] \in 0..n
    BY <1>0
  <2> QED BY <2>1 DEF Ranked
<1>2. ASSUME NEW at \in D, NEW f, NEW g, \A c \in D : rank[c] < rank[at] => f[c] = g[c]
      PROVE  Body(f, at) <=> Body(g, at)
  <2>1. at[1] \in 1..(n + 1) /\ at[2] \in 1..(m + 1)
    OBVIOUS
  <2>2. ASSUME NEW k \in 1..(m + 1), at[1] <= n PROVE f[<<at[1] + 1, k>>] = g[<<at[1] + 1, k>>]
    <3>1. <<at[1] + 1, k>> \in D
      BY <1>0, <2>1, <2>2
    <3>2. rank[<<at[1] + 1, k>>] < rank[at]
      BY <1>0, <2>1, <2>2, <3>1
    <3> QED BY <1>2, <3>1, <3>2
  <2>3. \A k \in at[2]..(m + 1) : k \in 1..(m + 1)
    BY <1>0, <2>1
  <2>4. at[2] <= m => at[2] + 1 \in 1..(m + 1)
    BY <1>0, <2>1
  <2>5. at[1] > n \/ at[1] <= n
    BY <1>0, <2>1
  <2> HIDE DEF D, rank
  <2> QED BY <2>2, <2>3, <2>4, <2>5
<1>10. ASSUME NEW at \in D, NEW f PROVE Body(f, at) \in BOOLEAN
  <2>1. CASE at[1] > n
    <3>1. at[2] \in Int
      BY <1>0
    <3> QED BY <1>0, <2>1, <3>1
  <2>2. CASE ~(at[1] > n) /\ p[at[1]] = Star
    BY <2>2
  <2>3. CASE ~(at[1] > n) /\ p[at[1]] # Star
    BY <2>3
  <2> HIDE DEF Body
  <2> QED BY <2>1, <2>2, <2>3
<1>3. StepsBack(step, D, BOOLEAN, rank)
  <2>1. \A x \in D \X [D -> BOOLEAN] : Body(x[2], x[1]) \in BOOLEAN
    <3> HIDE DEF Body, D
    <3> QED BY <1>10
  <2>2. step \in [D \X [D -> BOOLEAN] -> BOOLEAN]
    <3> HIDE DEF Body, D
    <3> QED BY <2>1
  <2>3. ASSUME NEW at \in D, NEW f \in [D -> BOOLEAN], NEW g \in [D -> BOOLEAN],
               \A c \in D : rank[c] < rank[at] => f[c] = g[c]
        PROVE  step[<<at, f>>] = step[<<at, g>>]
    <3>1. Body(f, at) <=> Body(g, at)
      BY <1>2, <2>3
    <3>2. Body(f, at) \in BOOLEAN /\ Body(g, at) \in BOOLEAN
      <4> HIDE DEF Body, D
      <4> QED BY <1>10
    <3>3. step[<<at, f>>] = Body(f, at) /\ step[<<at, g>>] = Body(g, at)
      <4> HIDE DEF Body, D
      <4> QED OBVIOUS
    <3> HIDE DEF Body, step, D
    <3> QED BY <3>1, <3>2, <3>3
  <2> HIDE DEF step, D, rank
  <2> QED BY <2>2, <2>3 DEF StepsBack
<1>4. PICK g : Recurs(g, D, BOOLEAN, step)
  <2>1. TRUE \in BOOLEAN
    OBVIOUS
  <2> HIDE DEF step, D, rank
  <2> QED BY <1>0, <1>1, <1>3, <2>1, RecursionExists
<1>5. g = Fill(g)
  <2>1. g \in [D -> BOOLEAN] /\ \A at \in D : g[at] = step[<<at, g>>]
    BY <1>4 DEF Recurs
  <2>2. \A at \in D : step[<<at, g>>] = Body(g, at)
    <3> HIDE DEF Body, D
    <3> QED BY <2>1
  <2>3. g = [at \in D |-> g[at]]
    BY <2>1
  <2> HIDE DEF Body, D, step
  <2> QED BY <2>1, <2>2, <2>3
<1>6. glob = Fill(glob)
  <2> HIDE DEF Fill
  <2> QED BY <1>5
<1>7. \A at \in D : glob[at] = Body(glob, at)
  <2> HIDE DEF glob, Body, D
  <2> QED BY <1>6
<1>8. Globs(glob, p, s)
  <2> SUFFICES ASSUME NEW i \in 1..(n + 1), NEW j \in 1..(m + 1)
               PROVE  /\ i = n + 1 => (glob[<<i, j>>] <=> j = m + 1)
                      /\ i <= n /\ p[i] = Star =>
                           (glob[<<i, j>>] <=> \E k \in j..(m + 1) : glob[<<i + 1, k>>])
                      /\ i <= n /\ p[i] # Star =>
                           (glob[<<i, j>>] <=> j <= m /\ p[i] = s[j] /\ glob[<<i + 1, j + 1>>])
    BY DEF Globs
  <2>1. <<i, j>> \in D
    OBVIOUS
  <2>2. (i > n <=> i = n + 1) /\ (i <= n <=> i # n + 1) /\ (j > m <=> j = m + 1)
    BY <1>0
  <2>3. glob[<<i, j>>] = Body(glob, <<i, j>>)
    BY <1>7, <2>1
  <2> HIDE DEF glob, D
  <2> QED BY <2>2, <2>3
<1>9. Glob(p, s) <=> glob[<<1, 1>>]
  BY DEF Glob
<1> HIDE DEF glob
<1> QED BY <1>8, <1>9

(* A text stands for itself, also with stars in it. *)
LEMMA GlobsItself ==
  ASSUME NEW s \in Seq(Characters)
  PROVE  Glob(s, s)
<1>1. PICK glob : Globs(glob, s, s) /\ (Glob(s, s) <=> glob[<<1, 1>>])
  BY GlobMeaning
<1> DEFINE n == Len(s)
           I == {k \in 0..n : glob[<<k + 1, k + 1>>]}
<1>2. n \in Nat
  OBVIOUS
<1>3. n \in I
  <2>1. n + 1 \in 1..(n + 1) /\ n \in 0..n
    BY <1>2
  <2>2. glob[<<n + 1, n + 1>>]
    <3> DEFINE i == n + 1
    <3>1. i \in 1..(n + 1) /\ i = n + 1
      BY <2>1
    <3> HIDE DEF i
    <3>2. i = n + 1 => (glob[<<i, i>>] <=> i = n + 1)
      <4>1. i \in 1..(n + 1)
        BY <3>1
      <4> QED BY <1>1, <4>1 DEF Globs
    <3>3. glob[<<i, i>>]
      BY <3>1, <3>2
    <3> QED BY <3>3 DEF i
  <2> QED BY <2>1, <2>2
<1>4. ASSUME NEW k \in 0..(n - 1), k + 1 \in I PROVE k \in I
  <2>1. /\ k + 1 \in 1..(n + 1) /\ k + 1 <= n /\ k \in 0..n /\ (k + 1) + 1 = k + 2
        /\ k + 2 \in (k + 1)..(n + 1)
    BY <1>2
  <2>2. glob[<<k + 2, k + 2>>]
    BY <1>4, <2>1
  <2> DEFINE i == k + 1
  <2>3. /\ s[i] = Star => (glob[<<i, i>>] <=> \E x \in i..(n + 1) : glob[<<i + 1, x>>])
        /\ s[i] # Star => (glob[<<i, i>>] <=> i <= n /\ s[i] = s[i] /\ glob[<<i + 1, i + 1>>])
    <3>1. i \in 1..(n + 1) /\ i <= n
      BY <2>1
    <3> HIDE DEF i
    <3> QED BY <1>1, <3>1 DEF Globs
  <2>4. i + 1 = k + 2
    BY <1>2
  <2>5. glob[<<k + 1, k + 1>>]
    <3> HIDE DEF n
    <3> QED BY <2>1, <2>2, <2>3, <2>4
  <2> HIDE DEF n
  <2> QED BY <2>1, <2>5
<1>5. 0 \in I
  <2>1. \A k \in 0..n : k \in I
    <3> HIDE DEF I, n
    <3> QED BY <1>2, <1>3, <1>4, Downwards
  <2>2. 0 \in 0..n
    BY <1>2
  <2> HIDE DEF I
  <2> QED BY <2>1, <2>2
<1> QED BY <1>1, <1>5

(* A place within a stretch is a place of the text. *)
LEMMA WithinStretch ==
  ASSUME NEW n \in Nat, NEW length \in Nat, NEW i \in 1..(n + 1), i + length <= n + 1,
         NEW l \in 0..(length - 1)
  PROVE  /\ i + l \in 1..(n + 1) /\ i + l <= n /\ l \in 0..length
         /\ (i + l) + 1 = i + (l + 1)
OBVIOUS

(* Characters of the pattern that are no stars stand for themselves. *)
LEMMA GlobsLiterally ==
  ASSUME NEW p \in Seq(Characters), NEW s \in Seq(Characters), NEW glob, Globs(glob, p, s),
         NEW length \in Nat, NEW i \in 1..(Len(p) + 1), NEW j \in 1..(Len(s) + 1),
         i + length <= Len(p) + 1, j + length <= Len(s) + 1,
         \A l \in 0..(length - 1) : p[i + l] # Star /\ p[i + l] = s[j + l]
  PROVE  glob[<<i, j>>] <=> glob[<<i + length, j + length>>]
<1> DEFINE n == Len(p)
           m == Len(s)
           I == {l \in 0..length : glob[<<i + l, j + l>>] <=> glob[<<i + length, j + length>>]}
<1>1. n \in Nat /\ m \in Nat
  OBVIOUS
<1>2. length \in I
  OBVIOUS
<1>3. ASSUME NEW l \in 0..(length - 1), l + 1 \in I PROVE l \in I
  <2>1. /\ i + l \in 1..(n + 1) /\ j + l \in 1..(m + 1) /\ i + l <= n /\ j + l <= m /\ l \in 0..length
        /\ (i + l) + 1 = i + (l + 1) /\ (j + l) + 1 = j + (l + 1)
    <3>1. /\ i \in 1..(n + 1) /\ j \in 1..(m + 1) /\ i + length <= n + 1 /\ j + length <= m + 1
          /\ l \in 0..(length - 1) /\ length \in Nat
      OBVIOUS
    <3> HIDE DEF n, m, I
    <3>2. /\ i + l \in 1..(n + 1) /\ i + l <= n /\ l \in 0..length /\ (i + l) + 1 = i + (l + 1)
      BY <1>1, <3>1, WithinStretch
    <3>3. /\ j + l \in 1..(m + 1) /\ j + l <= m /\ (j + l) + 1 = j + (l + 1)
      BY <1>1, <3>1, WithinStretch
    <3> QED BY <3>2, <3>3
  <2> DEFINE i1 == i + l
             j1 == j + l
  <2>2. p[i1] # Star /\ p[i1] = s[j1]
    OBVIOUS
  <2>3. glob[<<i1, j1>>] <=> glob[<<i1 + 1, j1 + 1>>]
    <3>1. i1 \in 1..(n + 1) /\ j1 \in 1..(m + 1) /\ i1 <= n /\ j1 <= m
      BY <2>1
    <3> HIDE DEF i1, j1
    <3> QED BY <2>2, <3>1 DEF Globs
  <2>4. glob[<<i + (l + 1), j + (l + 1)>>] <=> glob[<<i + length, j + length>>]
    BY <1>3
  <2>5. glob[<<i + l, j + l>>] <=> glob[<<i + length, j + length>>]
    BY <2>1, <2>3, <2>4
  <2> QED BY <2>1, <2>5
<1>4. 0 \in I
  <2>1. \A l \in 0..length : l \in I
    <3> HIDE DEF I
    <3> QED BY <1>2, <1>3, Downwards
  <2>2. 0 \in 0..length
    OBVIOUS
  <2> HIDE DEF I
  <2> QED BY <2>1, <2>2
<1>5. i + 0 = i /\ j + 0 = j
  OBVIOUS
<1> QED BY <1>4, <1>5

------------------------------------------------------------------------------
(* split takes the characters one after the other. *)
Extended(parts, ch) ==
  IF ch = Star THEN Append(parts, <<>>) ELSE Front(parts) \o << Append(Last(parts), ch) >>

Stretches == {parts \in Seq(Seq(Characters)) : Len(parts) > 0}

LEMMA ExtendedMeaning ==
  ASSUME NEW parts \in Stretches, NEW ch \in Characters
  PROVE  LET new == Extended(parts, ch)
             k == Len(parts)
         IN /\ new \in Stretches
            /\ ch = Star => /\ Len(new) = k + 1 /\ new[k + 1] = <<>>
                            /\ \A i \in 1..k : new[i] = parts[i]
            /\ ch # Star => /\ Len(new) = k /\ new[k] = Append(parts[k], ch)
                            /\ \A i \in 1..(k - 1) : new[i] = parts[i]
<1> DEFINE k == Len(parts)
<1>1. parts \in Seq(Seq(Characters)) /\ k \in Nat \ {0}
  BY DEF Stretches
<1>2. CASE ch = Star
  <2>1. Append(parts, <<>>) \in Seq(Seq(Characters))
    BY <1>1
  <2> QED BY <1>1, <1>2, <2>1 DEF Extended, Stretches
<1>3. CASE ch # Star
  <2> DEFINE front == Front(parts)
             last == << Append(Last(parts), ch) >>
  <2>1. front \in Seq(Seq(Characters)) /\ Len(front) = k - 1 /\ \A i \in 1..(k - 1) : front[i] = parts[i]
    <3>1. \A i \in 1..(k - 1) : parts[i] \in Seq(Characters)
      BY <1>1
    <3>2. k - 1 \in Int /\ 1 \in Int /\ (k - 1) - 1 + 1 = k - 1 /\ (1 <= k - 1 \/ k - 1 = 0)
          /\ \A i \in 1..(k - 1) : 1 + i - 1 = i
      <4>1. k \in Nat \ {0}
        BY <1>1
      <4> HIDE DEF k
      <4> QED BY <4>1
    <3> DEFINE end == k - 1
    <3>3. /\ SubSeq(parts, 1, end) \in Seq(Seq(Characters))
          /\ Len(SubSeq(parts, 1, end)) = IF 1 <= end THEN end - 1 + 1 ELSE 0
          /\ \A i \in 1..(end - 1 + 1) : SubSeq(parts, 1, end)[i] = parts[1 + i - 1]
      <4>1. end \in Int /\ 1 \in Int /\ \A i \in 1..end : parts[i] \in Seq(Characters)
        BY <3>1, <3>2
      <4> HIDE DEF end
      <4> QED BY <4>1, SubSeqProperties
    <3> QED BY <1>1, <3>2, <3>3 DEF Front
  <2>2. last \in Seq(Seq(Characters)) /\ Len(last) = 1 /\ last[1] = Append(parts[k], ch)
    BY <1>1 DEF Last
  <2> HIDE DEF front, last
  <2>3. /\ front \o last \in Seq(Seq(Characters)) /\ Len(front \o last) = k
        /\ (front \o last)[k] = last[1] /\ \A i \in 1..(k - 1) : (front \o last)[i] = front[i]
    <3>1. /\ front \o last \in Seq(Seq(Characters)) /\ Len(front \o last) = Len(front) + Len(last)
          /\ \A i \in 1..(Len(front) + Len(last)) :
               (front \o last)[i] = IF i <= Len(front) THEN front[i] ELSE last[i - Len(front)]
      BY <2>1, <2>2, ConcatProperties
    <3>2. (k - 1) + 1 = k /\ k \in 1..k /\ ~(k <= k - 1) /\ k - (k - 1) = 1
          /\ \A i \in 1..(k - 1) : i \in 1..k /\ i <= k - 1
      BY <1>1
    <3> HIDE DEF k
    <3> QED BY <2>1, <2>2, <3>1, <3>2
  <2>4. Extended(parts, ch) = front \o last
    BY <1>3 DEF Extended, front, last
  <2> QED BY <1>1, <1>3, <2>1, <2>2, <2>3, <2>4 DEF Stretches
<1> QED BY <1>2, <1>3

LEMMA SplitInTurns ==
  ASSUME NEW p \in Seq(Characters)
  PROVE  \E parts \in [0..Len(p) -> Stretches] :
           /\ parts[0] = << <<>> >>
           /\ \A k \in 1..Len(p) : parts[k] = Extended(parts[k - 1], p[k])
           /\ split(p) = parts[Len(p)]
<1> DEFINE n == Len(p)
           V == Stretches
           base == << <<>> >>
           step == [at \in V \X (1..n) |-> Extended(at[1], p[at[2]])]
           iter == CHOOSE f : f = [s \in SUBSET DOMAIN p |->
                     IF s = {} THEN << <<>> >> ELSE Extended(f[s \ {Max(s)}], p[Max(s)])]
           parts == [k \in 0..n |-> iter[1..k]]
<1>1. n \in Nat /\ DOMAIN p = 1..n /\ \A k \in 1..n : p[k] \in Characters
  OBVIOUS
<1>2. base \in V
  BY DEF Stretches
<1>3. StepOn(step, n, V)
  BY <1>1, ExtendedMeaning DEF StepOn
<1>4. PICK g : Folds(g, n, V, base, step)
  <2> HIDE DEF n, V, base, step
  <2> QED BY <1>1, <1>2, <1>3, FoldExists
<1>5. \A v \in V, k \in 1..n : step[<<v, k>>] = Extended(v, p[k])
  OBVIOUS
<1>6. g = [s \in SUBSET DOMAIN p |->
             IF s = {} THEN << <<>> >> ELSE Extended(g[s \ {Max(s)}], p[Max(s)])]
  <2>1. ASSUME NEW s \in SUBSET (1..n), s # {}
        PROVE  g[s] = Extended(g[s \ {Max(s)}], p[Max(s)])
    <3>1. g[s \ {Max(s)}] \in V /\ Max(s) \in 1..n
      BY <1>4, <2>1 DEF Folds
    <3> HIDE DEF step, V, n
    <3> QED BY <1>4, <1>5, <2>1, <3>1 DEF Folds
  <2> HIDE DEF step, V
  <2> QED BY <1>1, <1>4, <2>1 DEF Folds
<1>7. iter = [s \in SUBSET DOMAIN p |->
                IF s = {} THEN << <<>> >> ELSE Extended(iter[s \ {Max(s)}], p[Max(s)])]
  BY <1>6
<1>8. Iterates(iter, n, V, base, step)
  <2>1. ASSUME NEW s \in SUBSET (1..n), s # {}, iter[s \ {Max(s)}] \in V
        PROVE  iter[s] = step[<<iter[s \ {Max(s)}], Max(s)>>]
    <3>1. Max(s) \in 1..n
      BY <1>4, <2>1 DEF Folds
    <3>2. iter[s] = Extended(iter[s \ {Max(s)}], p[Max(s)])
      <4> HIDE DEF iter
      <4> QED BY <1>1, <1>7, <2>1
    <3> HIDE DEF iter, step, V, n
    <3> QED BY <1>5, <2>1, <3>1, <3>2
  <2>2. iter[{}] = base
    <3> HIDE DEF iter
    <3> QED BY <1>7
  <2> HIDE DEF iter, step, V, n, base
  <2> QED BY <2>1, <2>2 DEF Iterates
<1>9. Turns(iter, n, V, base, step)
  <2> HIDE DEF iter, n, V, base, step
  <2> QED BY <1>1, <1>2, <1>3, <1>8, FoldInTurns
<1>10. split(p) = iter[1..n]
  BY <1>1 DEF split, FoldLeft, MapThenFoldSet, Extended
<1>11. parts \in [0..n -> V] /\ parts[0] = base /\ parts[n] = iter[1..n]
  <2> HIDE DEF iter, V, n, step, base
  <2> QED BY <1>1, <1>9 DEF Turns
<1>12. ASSUME NEW k \in 1..n PROVE parts[k] = Extended(parts[k - 1], p[k])
  <2>1. k - 1 \in 0..n /\ k \in 0..n
    BY <1>1
  <2>2. iter[1..k] = step[<<iter[1..(k - 1)], k>>] /\ iter[1..(k - 1)] \in V
    <3> HIDE DEF iter, V, n, step, base
    <3> QED BY <1>9, <2>1 DEF Turns
  <2> HIDE DEF iter, V, n, step
  <2> QED BY <1>5, <2>1, <2>2
<1> HIDE DEF iter, parts
<1> QED BY <1>10, <1>11, <1>12

(* The k-th stretch of the first c characters starts at starts[k]: there is a *)
(* star before each but the first, and none in any.                         *)
StartsAt(starts, parts, p, c) ==
  LET count == Len(parts) IN
  /\ starts \in [1..(count + 1) -> 1..(c + 2)]
  /\ starts[1] = 1 /\ starts[count + 1] = c + 2
  /\ \A k \in 1..count :
       /\ starts[k + 1] = starts[k] + Len(parts[k]) + 1
       /\ k > 1 => p[starts[k] - 1] = Star
       /\ \A l \in 1..Len(parts[k]) : parts[k][l] # Star /\ p[starts[k] - 1 + l] = parts[k][l]

LEMMA OneMoreCharacter ==
  ASSUME NEW p \in Seq(Characters), NEW c \in 1..Len(p), NEW parts \in Stretches,
         NEW starts, StartsAt(starts, parts, p, c - 1)
  PROVE  \E new : StartsAt(new, Extended(parts, p[c]), p, c)
<1> DEFINE count == Len(parts)
           ch == p[c]
           longer == Extended(parts, ch)
<1>1. count \in Nat \ {0} /\ c \in Nat \ {0} /\ ch \in Characters /\ parts \in Seq(Seq(Characters))
  BY DEF Stretches
<1>2. /\ longer \in Stretches
      /\ ch = Star => /\ Len(longer) = count + 1 /\ longer[count + 1] = <<>>
                      /\ \A i \in 1..count : longer[i] = parts[i]
      /\ ch # Star => /\ Len(longer) = count /\ longer[count] = Append(parts[count], ch)
                      /\ \A i \in 1..(count - 1) : longer[i] = parts[i]
  <2> HIDE DEF ch
  <2> QED BY <1>1, ExtendedMeaning
<1>3. /\ starts \in [1..(count + 1) -> 1..((c - 1) + 2)]
      /\ starts[1] = 1 /\ starts[count + 1] = (c - 1) + 2
      /\ \A k \in 1..count :
           /\ starts[k + 1] = starts[k] + Len(parts[k]) + 1
           /\ k > 1 => p[starts[k] - 1] = Star
           /\ \A l \in 1..Len(parts[k]) : parts[k][l] # Star /\ p[starts[k] - 1 + l] = parts[k][l]
  BY DEF StartsAt
<1>4. \A k \in 1..count : parts[k] \in Seq(Characters) /\ Len(parts[k]) \in Nat
  BY <1>1
<1> HIDE DEF longer, ch, count
<1>5. CASE ch = Star
  <2> DEFINE new == [k \in 1..(count + 2) |-> IF k = count + 2 THEN c + 2 ELSE starts[k]]
  <2>1. /\ Len(longer) = count + 1 /\ longer[count + 1] = <<>>
        /\ \A i \in 1..count : longer[i] = parts[i]
    BY <1>2, <1>5
  <2>2. /\ \A k \in 1..(count + 1) : new[k] = starts[k]
        /\ new[count + 2] = c + 2
        /\ new \in [1..(count + 2) -> 1..(c + 2)]
    BY <1>1, <1>3
  <2> HIDE DEF new
  <2>3. ASSUME NEW k \in 1..count
        PROVE  /\ new[k + 1] = new[k] + Len(longer[k]) + 1
               /\ k > 1 => p[new[k] - 1] = Star
               /\ \A l \in 1..Len(longer[k]) :
                    longer[k][l] # Star /\ p[new[k] - 1 + l] = longer[k][l]
    <3>1. k \in 1..(count + 1) /\ k + 1 \in 1..(count + 1)
      BY <1>1
    <3>2. new[k] = starts[k] /\ new[k + 1] = starts[k + 1] /\ longer[k] = parts[k]
      BY <2>1, <2>2, <3>1
    <3> QED BY <1>3, <3>2
  <2>4. /\ new[count + 2] = new[count + 1] + Len(longer[count + 1]) + 1
        /\ p[new[count + 1] - 1] = Star
        /\ Len(longer[count + 1]) = 0
    <3>1. new[count + 1] = c + 1 /\ Len(longer[count + 1]) = 0 /\ new[count + 1] - 1 = c
      BY <1>1, <1>3, <2>1, <2>2
    <3> QED BY <1>1, <1>5, <2>2, <3>1 DEF ch
  <2>5. new[1] = 1
    BY <1>1, <1>3, <2>2
  <2>6. \A k \in 1..(count + 1) :
          /\ new[k + 1] = new[k] + Len(longer[k]) + 1
          /\ k > 1 => p[new[k] - 1] = Star
          /\ \A l \in 1..Len(longer[k]) : longer[k][l] # Star /\ p[new[k] - 1 + l] = longer[k][l]
    <3>1. \A k \in 1..(count + 1) : k \in 1..count \/ k = count + 1
      BY <1>1
    <3>2. (count + 1) + 1 = count + 2 /\ 1..0 = {}
      BY <1>1
    <3> QED BY <2>3, <2>4, <3>1, <3>2
  <2>7. (count + 1) + 1 = count + 2
    BY <1>1
  <2>8. StartsAt(new, longer, p, c)
    BY <2>1, <2>2, <2>5, <2>6, <2>7 DEF StartsAt
  <2> QED BY <2>8 DEF longer, ch
<1>6. CASE ch # Star
  <2> DEFINE new == [k \in 1..(count + 1) |-> IF k = count + 1 THEN c + 2 ELSE starts[k]]
  <2>1. /\ Len(longer) = count /\ longer[count] = Append(parts[count], ch)
        /\ \A i \in 1..(count - 1) : longer[i] = parts[i]
    BY <1>2, <1>6
  <2>2. /\ \A k \in 1..count : new[k] = starts[k]
        /\ new[count + 1] = c + 2
        /\ new \in [1..(count + 1) -> 1..(c + 2)]
    BY <1>1, <1>3
  <2> HIDE DEF new
  <2>3. ASSUME NEW k \in 1..(count - 1)
        PROVE  /\ new[k + 1] = new[k] + Len(longer[k]) + 1
               /\ k > 1 => p[new[k] - 1] = Star
               /\ \A l \in 1..Len(longer[k]) :
                    longer[k][l] # Star /\ p[new[k] - 1 + l] = longer[k][l]
    <3>1. k \in 1..count /\ k + 1 \in 1..count
      BY <1>1
    <3>2. new[k] = starts[k] /\ new[k + 1] = starts[k + 1] /\ longer[k] = parts[k]
      BY <2>1, <2>2, <3>1
    <3> QED BY <1>3, <3>1, <3>2
  <2> DEFINE was == Len(parts[count])
  <2>4. count \in 1..count /\ was \in Nat /\ parts[count] \in Seq(Characters)
    BY <1>1, <1>4
  <2>5. /\ Len(longer[count]) = was + 1 /\ longer[count][was + 1] = ch
        /\ \A l \in 1..was : longer[count][l] = parts[count][l]
    BY <1>1, <2>1, <2>4
  <2>6. starts[count] + was + 1 = c + 1 /\ starts[count] \in Nat /\ new[count] = starts[count]
    BY <1>1, <1>3, <2>2, <2>4
  <2> HIDE DEF was
  <2>7. new[count + 1] = new[count] + Len(longer[count]) + 1
    <3>1. /\ new[count + 1] = c + 2 /\ new[count] = starts[count] /\ Len(longer[count]) = was + 1
          /\ starts[count] \in Int /\ was \in Int /\ c \in Int /\ starts[count] + was + 1 = c + 1
      BY <1>1, <2>2, <2>4, <2>5, <2>6
    <3> HIDE DEF new, was
    <3> QED BY <3>1
  <2>8. \A l \in 1..Len(longer[count]) :
          longer[count][l] # Star /\ p[new[count] - 1 + l] = longer[count][l]
    <3> SUFFICES ASSUME NEW l \in 1..(was + 1)
                 PROVE  longer[count][l] # Star /\ p[new[count] - 1 + l] = longer[count][l]
      BY <2>5
    <3>1. CASE l = was + 1
      <4>1. starts[count] - 1 + l = c
        <5>1. /\ starts[count] \in Int /\ was \in Int /\ c \in Int /\ l = was + 1
              /\ starts[count] + was + 1 = c + 1
          BY <1>1, <2>4, <2>6, <3>1
        <5> QED BY <5>1
      <4> QED BY <1>6, <2>5, <2>6, <3>1, <4>1 DEF ch
    <3>2. CASE l # was + 1
      <4>1. l \in 1..was
        BY <2>4, <3>2
      <4> QED BY <1>3, <2>4, <2>5, <2>6, <4>1 DEF was
    <3> QED BY <3>1, <3>2
  <2>9. count > 1 => p[new[count] - 1] = Star
    BY <1>3, <2>4, <2>6
  <2>10. new[1] = 1
    BY <1>1, <1>3, <2>2
  <2>11. \A k \in 1..count :
          /\ new[k + 1] = new[k] + Len(longer[k]) + 1
          /\ k > 1 => p[new[k] - 1] = Star
          /\ \A l \in 1..Len(longer[k]) : longer[k][l] # Star /\ p[new[k] - 1 + l] = longer[k][l]
    <3>1. \A k \in 1..count : k \in 1..(count - 1) \/ k = count
      BY <1>1
    <3> QED BY <2>3, <2>7, <2>8, <2>9, <3>1
  <2>12. StartsAt(new, longer, p, c)
    BY <2>1, <2>2, <2>10, <2>11 DEF StartsAt
  <2> QED BY <2>12 DEF longer, ch
<1> QED BY <1>5, <1>6

LEMMA SplitMeaning ==
  ASSUME NEW p \in Seq(Characters)
  PROVE  split(p) \in Stretches /\ \E starts : StartsAt(starts, split(p), p, Len(p))
<1> DEFINE n == Len(p)
<1>1. PICK parts \in [0..n -> Stretches] :
        /\ parts[0] = << <<>> >>
        /\ \A k \in 1..n : parts[k] = Extended(parts[k - 1], p[k])
        /\ split(p) = parts[n]
  BY SplitInTurns
<1>2. n \in Nat
  OBVIOUS
<1> DEFINE I == {c \in 0..n : \E starts : StartsAt(starts, parts[c], p, c)}
<1>3. 0 \in I
  <2> DEFINE starts == [k \in 1..2 |-> k]
  <2>1. /\ Len(parts[0]) = 1 /\ parts[0][1] = <<>> /\ Len(parts[0][1]) = 0
        /\ \A k \in 1..1 : k = 1
    BY <1>1
  <2>2. starts \in [1..2 -> 1..2] /\ starts[1] = 1 /\ starts[2] = 2
    OBVIOUS
  <2> HIDE DEF starts
  <2>3. StartsAt(starts, parts[0], p, 0)
    <3>1. 1 + 1 = 2 /\ 1 + 0 + 1 = 2 /\ 0 + 2 = 2 /\ 1..0 = {} /\ ~(1 > 1)
      OBVIOUS
    <3> QED BY <2>1, <2>2, <3>1 DEF StartsAt
  <2> QED BY <1>2, <2>3
<1>4. ASSUME NEW c \in 1..n, c - 1 \in I PROVE c \in I
  <2>1. PICK starts : StartsAt(starts, parts[c - 1], p, c - 1)
    BY <1>4
  <2>2. parts[c - 1] \in Stretches /\ parts[c] = Extended(parts[c - 1], p[c]) /\ c \in 0..n
    BY <1>1, <1>2
  <2>3. \E new : StartsAt(new, Extended(parts[c - 1], p[c]), p, c)
    BY <2>1, <2>2, OneMoreCharacter
  <2> QED BY <2>2, <2>3
<1>5. n \in I
  <2>1. n \in 0..n
    BY <1>2
  <2> HIDE DEF I, n
  <2> QED BY <1>2, <1>3, <1>4, <2>1, Upwards
<1>6. split(p) \in Stretches
  BY <1>1, <1>2
<1> QED BY <1>1, <1>5, <1>6

------------------------------------------------------------------------------
(* What the loop of segment_matches finds. *)
OccursAt(part, text, i) ==
  /\ i \in 0..(Len(text) - Len(part))
  /\ \A l \in 1..Len(part) : text[i + l] = part[l]

LEMMA OccurrenceMeaning ==
  ASSUME NEW part \in Seq(Characters), NEW text \in Seq(Characters), NEW i
  PROVE  i \in Occurrences(part, text) <=> OccursAt(part, text, i)
<1> DEFINE n == Len(part)
           m == Len(text)
<1>1. n \in Nat /\ m \in Nat
  OBVIOUS
<1>2. SUFFICES ASSUME i \in 0..(m - n)
               PROVE  SubSeq(text, i + 1, i + n) = part <=> \A l \in 1..n : text[i + l] = part[l]
  BY DEF Occurrences, OccursAt
<1> DEFINE cut == SubSeq(text, i + 1, i + n)
<1>3. cut \in Seq(Characters) /\ Len(cut) = n /\ \A l \in 1..n : cut[l] = text[i + l]
  <2> DEFINE from == i + 1
             to == i + n
  <2>1. /\ from \in Int /\ to \in Int /\ \A l \in from..to : l \in 1..m
        /\ to - from + 1 = n /\ (~(from <= to) => n = 0) /\ \A l \in 1..n : from + l - 1 = i + l
    BY <1>1, <1>2
  <2>2. \A l \in from..to : text[l] \in Characters
    BY <2>1
  <2> HIDE DEF from, to
  <2>3. /\ SubSeq(text, from, to) \in Seq(Characters)
        /\ Len(SubSeq(text, from, to)) = IF from <= to THEN to - from + 1 ELSE 0
        /\ \A l \in 1..(to - from + 1) : SubSeq(text, from, to)[l] = text[from + l - 1]
    BY <2>1, <2>2, SubSeqProperties
  <2>4. /\ SubSeq(text, from, to) \in Seq(Characters) /\ Len(SubSeq(text, from, to)) = n
        /\ \A l \in 1..n : SubSeq(text, from, to)[l] = text[i + l]
    <3> HIDE DEF n
    <3> QED BY <2>1, <2>3
  <2> QED BY <2>4 DEF from, to
<1>4. cut = part <=> \A l \in 1..n : cut[l] = part[l]
  <2> HIDE DEF cut
  <2> QED BY <1>3, SeqEqual
<1> HIDE DEF cut, n
<1> QED BY <1>3, <1>4 DEF cut

Accs == [ok : BOOLEAN, first : BOOLEAN, remainder : Seq(Characters)]

(* A stretch that is not empty is taken at the first place it is allowed at. *)
TakenAt(p, acc, part, new, o) ==
  /\ OccursAt(part, acc.remainder, o) /\ may_start(p, acc, o)
  /\ \A i : OccursAt(part, acc.remainder, i) /\ may_start(p, acc, i) => o <= i
  /\ ~new.first
  /\ Len(new.remainder) = Len(acc.remainder) - (o + Len(part))
  /\ \A l \in 1..Len(new.remainder) : new.remainder[l] = acc.remainder[o + Len(part) + l]

LEMMA TakeMeaning ==
  ASSUME NEW p \in Seq(Characters), NEW acc \in Accs, NEW part \in Seq(Characters)
  PROVE  LET new == take(p, acc, part) IN
         /\ new \in Accs
         /\ part = <<>> \/ ~acc.ok => new = acc
         /\ part # <<>> /\ acc.ok =>
              \/ new.ok /\ \E o \in Nat : TakenAt(p, acc, part, new, o)
              \/ ~new.ok /\ \A i : OccursAt(part, acc.remainder, i) => ~may_start(p, acc, i)
<1> DEFINE new == take(p, acc, part)
           text == acc.remainder
           places == {i \in Occurrences(part, text) : may_start(p, acc, i)}
<1>1. /\ acc.ok \in BOOLEAN /\ acc.first \in BOOLEAN /\ text \in Seq(Characters)
      /\ acc = [ok |-> acc.ok, first |-> acc.first, remainder |-> text]
  BY DEF Accs
<1>2. \A i : i \in places <=> OccursAt(part, text, i) /\ may_start(p, acc, i)
  BY <1>1, OccurrenceMeaning
<1>3. CASE part = <<>> \/ ~acc.ok
  <2>1. new = acc
    BY <1>3 DEF take
  <2> QED BY <1>3, <2>1
<1>4. CASE part # <<>> /\ acc.ok /\ places = {}
  <2>1. new = [acc EXCEPT !.ok = FALSE]
    BY <1>4 DEF take
  <2>2. new \in Accs /\ new.ok = FALSE
    BY <2>1 DEF Accs
  <2> QED BY <1>2, <1>4, <2>2
<1>5. CASE part # <<>> /\ acc.ok /\ places # {}
  <2> DEFINE o == Min(places)
             length == Len(part)
             from == o + length + 1
  <2>1. length \in Nat /\ Len(text) \in Nat
    BY <1>1
  <2>2. o \in places /\ \A i \in places : o <= i
    <3>1. places \in SUBSET Nat
      BY <2>1 DEF Occurrences
    <3> HIDE DEF places
    <3> QED BY <1>5, <3>1, LeastNumber
  <2>3. new = [ok |-> TRUE, first |-> FALSE, remainder |-> SubSeq(text, from, Len(text))]
    BY <1>5 DEF take, find
  <2>4. OccursAt(part, text, o) /\ may_start(p, acc, o)
        /\ \A i : OccursAt(part, text, i) /\ may_start(p, acc, i) => o <= i
    <3> HIDE DEF places, o
    <3> QED BY <1>2, <2>2
  <2> HIDE DEF o
  <2>5. o \in Nat /\ o + length <= Len(text)
    <3>1. o \in 0..(Len(text) - length)
      BY <2>4 DEF OccursAt
    <3> HIDE DEF length
    <3> QED BY <2>1, <3>1
  <2>6. /\ SubSeq(text, from, Len(text)) \in Seq(Characters)
        /\ Len(SubSeq(text, from, Len(text))) = Len(text) - (o + length)
        /\ \A l \in 1..(Len(text) - (o + length)) :
             SubSeq(text, from, Len(text))[l] = text[o + length + l]
    <3>1. /\ from \in Int /\ Len(text) \in Int /\ \A l \in from..Len(text) : l \in 1..Len(text)
          /\ Len(text) - from + 1 = Len(text) - (o + length)
          /\ (~(from <= Len(text)) => 0 = Len(text) - (o + length))
          /\ \A l \in Int : from + l - 1 = o + length + l
      BY <2>1, <2>5
    <3>2. \A l \in from..Len(text) : text[l] \in Characters
      BY <1>1, <3>1
    <3> DEFINE to == Len(text)
               rest == SubSeq(text, from, to)
    <3>3. /\ rest \in Seq(Characters)
          /\ Len(rest) = IF from <= to THEN to - from + 1 ELSE 0
          /\ \A l \in 1..(to - from + 1) : rest[l] = text[from + l - 1]
      <4>1. from \in Int /\ to \in Int /\ \A l \in from..to : text[l] \in Characters
        BY <3>1, <3>2
      <4> HIDE DEF from, to, text
      <4> QED BY <4>1, SubSeqProperties
    <3>4. Len(rest) = to - (o + length)
      <4> HIDE DEF rest, from, length
      <4> QED BY <3>1, <3>3
    <3>5. \A l \in 1..(to - (o + length)) : rest[l] = text[o + length + l]
      <4> SUFFICES ASSUME NEW l \in 1..(to - (o + length)) PROVE rest[l] = text[o + length + l]
        OBVIOUS
      <4>1. l \in 1..(to - from + 1) /\ l \in Int
        BY <3>1
      <4>2. rest[l] = text[from + l - 1] /\ from + l - 1 = o + length + l
        <5> HIDE DEF rest, from, length, text, to
        <5> QED BY <3>1, <3>3, <4>1
      <4> QED BY <4>2
    <3> QED BY <3>3, <3>4, <3>5
  <2>7. new \in Accs /\ new.ok /\ ~new.first /\ new.remainder = SubSeq(text, from, Len(text))
    BY <2>3, <2>6 DEF Accs
  <2>8. TakenAt(p, acc, part, new, o)
    <3> HIDE DEF new, from
    <3> QED BY <2>4, <2>6, <2>7 DEF TakenAt
  <2> QED BY <1>5, <2>5, <2>7, <2>8
<1> QED BY <1>3, <1>4, <1>5

(* The loop of segment_matches, turn by turn. *)
Loop(acc, p, s) ==
  LET parts == split(p) IN
  /\ acc \in [0..Len(parts) -> Accs]
  /\ acc[0] = [ok |-> TRUE, first |-> TRUE, remainder |-> s]
  /\ \A k \in 1..Len(parts) : acc[k] = take(p, acc[k - 1], parts[k])

Accepted(acc, p, s) ==
  LET end == acc[Len(split(p))] IN end.ok /\ (Last(p) = Star \/ end.remainder = <<>>)

LEMMA LoopInTurns ==
  ASSUME NEW p \in Seq(Characters), NEW s \in Seq(Characters)
  PROVE  \E acc :
           /\ Loop(acc, p, s)
           /\ segment_matches(p, s) <=>
                p = ANY \/ p = s \/ (Contains(p, Star) /\ Accepted(acc, p, s))
<1> DEFINE parts == split(p)
           n == Len(parts)
           V == Accs
           base == [ok |-> TRUE, first |-> TRUE, remainder |-> s]
           step == [at \in V \X (1..n) |-> take(p, at[1], parts[at[2]])]
           iter == CHOOSE f : f = [x \in SUBSET DOMAIN parts |->
                     IF x = {} THEN base ELSE take(p, f[x \ {Max(x)}], parts[Max(x)])]
           acc == [k \in 0..n |-> iter[1..k]]
<1>1. n \in Nat /\ DOMAIN parts = 1..n /\ \A k \in 1..n : parts[k] \in Seq(Characters)
  <2>1. parts \in Seq(Seq(Characters))
    BY SplitMeaning DEF Stretches
  <2> HIDE DEF parts
  <2> QED BY <2>1
<1> HIDE DEF parts
<1>2. base \in V
  BY DEF Accs
<1>3. StepOn(step, n, V)
  <2>1. \A at \in V \X (1..n) : take(p, at[1], parts[at[2]]) \in V
    BY <1>1, TakeMeaning
  <2> HIDE DEF V, n
  <2> QED BY <2>1 DEF StepOn
<1>4. PICK g : Folds(g, n, V, base, step)
  <2> HIDE DEF n, V, base, step
  <2> QED BY <1>1, <1>2, <1>3, FoldExists
<1>5. \A v \in V, k \in 1..n : step[<<v, k>>] = take(p, v, parts[k])
  OBVIOUS
<1>6. g = [x \in SUBSET DOMAIN parts |->
             IF x = {} THEN base ELSE take(p, g[x \ {Max(x)}], parts[Max(x)])]
  <2>1. ASSUME NEW x \in SUBSET (1..n), x # {}
        PROVE  g[x] = take(p, g[x \ {Max(x)}], parts[Max(x)])
    <3>1. g[x \ {Max(x)}] \in V /\ Max(x) \in 1..n
      BY <1>4, <2>1 DEF Folds
    <3> HIDE DEF step, V, n, base
    <3> QED BY <1>4, <1>5, <2>1, <3>1 DEF Folds
  <2> HIDE DEF step, V, base
  <2> QED BY <1>1, <1>4, <2>1 DEF Folds
<1>7. iter = [x \in SUBSET DOMAIN parts |->
                IF x = {} THEN base ELSE take(p, iter[x \ {Max(x)}], parts[Max(x)])]
  <2> HIDE DEF base
  <2> QED BY <1>6
<1>8. Iterates(iter, n, V, base, step)
  <2>1. ASSUME NEW x \in SUBSET (1..n), x # {}, iter[x \ {Max(x)}] \in V
        PROVE  iter[x] = step[<<iter[x \ {Max(x)}], Max(x)>>]
    <3>1. Max(x) \in 1..n
      BY <1>4, <2>1 DEF Folds
    <3>2. iter[x] = take(p, iter[x \ {Max(x)}], parts[Max(x)])
      <4> HIDE DEF iter, base
      <4> QED BY <1>1, <1>7, <2>1
    <3> HIDE DEF iter, step, V, n
    <3> QED BY <1>5, <2>1, <3>1, <3>2
  <2>2. iter[{}] = base
    <3> HIDE DEF iter, base
    <3> QED BY <1>7
  <2> HIDE DEF iter, step, V, n, base
  <2> QED BY <2>1, <2>2 DEF Iterates
<1>9. Turns(iter, n, V, base, step)
  <2> HIDE DEF iter, n, V, base, step
  <2> QED BY <1>1, <1>2, <1>3, <1>8, FoldInTurns
<1>10. segment_matches(p, s) <=>
         p = ANY \/ p = s
           \/ (Contains(p, Star) /\ iter[1..n].ok /\ (Last(p) = Star \/ iter[1..n].remainder = <<>>))
  BY <1>1 DEF segment_matches, FoldLeft, MapThenFoldSet, parts
<1>11. acc \in [0..n -> V] /\ acc[0] = base /\ acc[n] = iter[1..n]
  <2> HIDE DEF iter, V, n, step, base
  <2> QED BY <1>1, <1>9 DEF Turns
<1>12. ASSUME NEW k \in 1..n PROVE acc[k] = take(p, acc[k - 1], parts[k])
  <2>1. k - 1 \in 0..n /\ k \in 0..n
    BY <1>1
  <2>2. iter[1..k] = step[<<iter[1..(k - 1)], k>>] /\ iter[1..(k - 1)] \in V
    <3> HIDE DEF iter, V, n, step, base
    <3> QED BY <1>9, <2>1 DEF Turns
  <2> HIDE DEF iter, V, n, step
  <2> QED BY <1>5, <2>1, <2>2
<1> HIDE DEF iter, acc
<1>13. Loop(acc, p, s)
  BY <1>11, <1>12 DEF Loop, parts
<1>14. Accepted(acc, p, s) <=> iter[1..n].ok /\ (Last(p) = Star \/ iter[1..n].remainder = <<>>)
  BY <1>11 DEF Accepted, parts
<1> QED BY <1>10, <1>13, <1>14

(* The texts and what the loop, the split and the glob are at: what the next *)
(* lemmas are about.                                                        *)
Setting(p, s, glob, starts, acc) ==
  /\ p \in Seq(Characters) /\ s \in Seq(Characters)
  /\ Globs(glob, p, s)
  /\ split(p) \in Stretches /\ StartsAt(starts, split(p), p, Len(p))
  /\ Loop(acc, p, s)

(* Where the remainder begins in the segment. *)
At(acc, k, s) == Len(s) + 1 - Len(acc[k].remainder)

(* What there is to know of the k-th stretch. *)
LEMMA StretchMeaning ==
  ASSUME NEW p, NEW s, NEW glob, NEW starts, NEW acc, Setting(p, s, glob, starts, acc),
         NEW k \in 1..Len(split(p))
  PROVE  LET part == split(p)[k] IN
         /\ part \in Seq(Characters) /\ Len(part) \in Nat
         /\ starts[k] \in 1..(Len(p) + 1) /\ starts[k] + Len(part) \in 1..(Len(p) + 1)
         /\ starts[k + 1] - 1 = starts[k] + Len(part)
         /\ k > 1 => starts[k] > 1 /\ p[starts[k] - 1] = Star
         /\ k = 1 => starts[k] = 1
         /\ k = Len(split(p)) => starts[k] + Len(part) = Len(p) + 1
         /\ \A l \in 1..Len(part) : part[l] # Star /\ p[starts[k] - 1 + l] = part[l]
<1> DEFINE parts == split(p)
           K == Len(parts)
           n == Len(p)
<1>1. /\ n \in Nat /\ K \in Nat \ {0}
      /\ parts \in Seq(Seq(Characters)) /\ parts[k] \in Seq(Characters) /\ Len(parts[k]) \in Nat
  BY DEF Setting, Stretches
<1>2. /\ starts \in [1..(K + 1) -> 1..(n + 2)]
      /\ starts[1] = 1 /\ starts[K + 1] = n + 2
      /\ \A i \in 1..K :
           /\ starts[i + 1] = starts[i] + Len(parts[i]) + 1
           /\ i > 1 => p[starts[i] - 1] = Star
           /\ \A l \in 1..Len(parts[i]) : parts[i][l] # Star /\ p[starts[i] - 1 + l] = parts[i][l]
  BY DEF Setting, StartsAt
<1> HIDE DEF n, K, parts
<1>3. k \in 1..K /\ k \in 1..(K + 1) /\ k + 1 \in 1..(K + 1) /\ (k = K => k + 1 = K + 1)
  BY <1>1 DEF K, parts
<1>4. /\ starts[k] \in 1..(n + 2) /\ starts[k + 1] \in 1..(n + 2)
      /\ starts[k + 1] = starts[k] + Len(parts[k]) + 1
      /\ k = K => starts[k + 1] = n + 2
      /\ k = 1 => starts[k] = 1
  BY <1>2, <1>3
<1>5. k > 1 => starts[k] > 1
  <2>1. SUFFICES ASSUME k > 1 PROVE starts[k] > 1
    OBVIOUS
  <2>2. k - 1 \in 1..K /\ k - 1 \in 1..(K + 1) /\ (k - 1) + 1 = k
    BY <1>1, <1>3, <2>1
  <2>3. /\ starts[k - 1] \in 1..(n + 2) /\ Len(parts[k - 1]) \in Nat
        /\ starts[k] = starts[k - 1] + Len(parts[k - 1]) + 1
    BY <1>1, <1>2, <2>2 DEF K
  <2> QED BY <1>1, <2>3
<1>6. /\ starts[k] \in 1..(n + 1) /\ starts[k] + Len(parts[k]) \in 1..(n + 1)
      /\ starts[k + 1] - 1 = starts[k] + Len(parts[k])
      /\ k = K => starts[k] + Len(parts[k]) = n + 1
  <2> DEFINE start == starts[k]
             next == starts[k + 1]
             length == Len(parts[k])
  <2>1. /\ start \in 1..(n + 2) /\ next \in 1..(n + 2) /\ length \in Nat /\ n \in Nat
        /\ next = start + length + 1 /\ (k = K => next = n + 2)
    BY <1>1, <1>4
  <2> HIDE DEF start, next, length
  <2>2. /\ start \in 1..(n + 1) /\ start + length \in 1..(n + 1) /\ next - 1 = start + length
        /\ k = K => start + length = n + 1
    BY <2>1
  <2> QED BY <2>2 DEF start, next, length
<1>7. /\ k > 1 => p[starts[k] - 1] = Star
      /\ \A l \in 1..Len(parts[k]) : parts[k][l] # Star /\ p[starts[k] - 1 + l] = parts[k][l]
  BY <1>2, <1>3
<1> QED BY <1>1, <1>4, <1>5, <1>6, <1>7 DEF n, K, parts

(* A star takes what is between j and k. *)
LEMMA StarTakes ==
  ASSUME NEW p \in Seq(Characters), NEW s \in Seq(Characters), NEW glob, Globs(glob, p, s),
         NEW i \in 1..Len(p), p[i] = Star, NEW j \in 1..(Len(s) + 1), NEW k \in j..(Len(s) + 1),
         glob[<<i + 1, k>>]
  PROVE  glob[<<i, j>>]
<1>1. i \in 1..(Len(p) + 1) /\ i <= Len(p)
  OBVIOUS
<1> QED BY <1>1 DEF Globs

(* The characters of the k-th stretch are where the loop finds them. *)
LEMMA StretchTaken ==
  ASSUME NEW p, NEW s, NEW glob, NEW starts, NEW acc, Setting(p, s, glob, starts, acc),
         NEW k \in 1..Len(split(p)), NEW text \in Seq(Characters), Len(text) <= Len(s),
         \A l \in 1..Len(text) : text[l] = s[Len(s) - Len(text) + l],
         NEW o, OccursAt(split(p)[k], text, o)
  PROVE  LET j == Len(s) + 1 - Len(text) + o
             length == Len(split(p)[k])
         IN /\ j \in 1..(Len(s) + 1) /\ j + length \in 1..(Len(s) + 1)
            /\ glob[<<starts[k], j>>] <=> glob[<<starts[k + 1] - 1, j + length>>]
<1> DEFINE part == split(p)[k]
           length == Len(part)
           i == starts[k]
           j == Len(s) + 1 - Len(text) + o
<1>1. p \in Seq(Characters) /\ s \in Seq(Characters) /\ Globs(glob, p, s)
  BY DEF Setting
<1>2. /\ length \in Nat /\ i \in 1..(Len(p) + 1) /\ i + length \in 1..(Len(p) + 1)
      /\ starts[k + 1] - 1 = i + length
      /\ \A l \in 1..length : part[l] # Star /\ p[i - 1 + l] = part[l]
  BY StretchMeaning
<1>3. /\ o \in 0..(Len(text) - length)
      /\ \A l \in 1..length : text[o + l] = part[l]
  BY DEF OccursAt
<1> HIDE DEF part, length, i
<1>4. Len(s) \in Nat /\ Len(text) \in Nat /\ o \in Nat /\ o + length <= Len(text)
  BY <1>1, <1>2, <1>3
<1>5. j \in 1..(Len(s) + 1) /\ j + length \in 1..(Len(s) + 1)
  BY <1>2, <1>4
<1>6. ASSUME NEW l \in 0..(length - 1) PROVE p[i + l] # Star /\ p[i + l] = s[j + l]
  <2>1. /\ l + 1 \in 1..length /\ i - 1 + (l + 1) = i + l
        /\ o + (l + 1) \in 1..Len(text) /\ Len(s) - Len(text) + (o + (l + 1)) = j + l
    BY <1>2, <1>4
  <2>2. p[i + l] # Star /\ p[i + l] = part[l + 1] /\ text[o + (l + 1)] = part[l + 1]
    BY <1>2, <1>3, <2>1
  <2>3. text[o + (l + 1)] = s[j + l]
    BY <2>1
  <2> QED BY <2>2, <2>3
<1>7. glob[<<i, j>>] <=> glob[<<i + length, j + length>>]
  <2> HIDE DEF j
  <2>1. i + length <= Len(p) + 1 /\ j + length <= Len(s) + 1
    BY <1>1, <1>2, <1>5
  <2>2. \A l \in 0..(length - 1) : p[i + l] # Star /\ p[i + l] = s[j + l]
    BY <1>6
  <2>3. length \in Nat /\ i \in 1..(Len(p) + 1) /\ j \in 1..(Len(s) + 1)
    BY <1>2, <1>5
  <2> QED BY <1>1, <2>1, <2>2, <2>3, GlobsLiterally
<1> QED BY <1>2, <1>5, <1>7 DEF part, length, i

(* What remains of the segment is its end. *)
IsRest(text, s) ==
  /\ Len(text) <= Len(s)
  /\ \A l \in 1..Len(text) : text[l] = s[Len(s) - Len(text) + l]

(* One turn of the loop that does not fail: it leaves everything as it is,  *)
(* or takes the stretch at o.                                              *)
LEMMA TurnMeaning ==
  ASSUME NEW p, NEW s, NEW glob, NEW starts, NEW acc, Setting(p, s, glob, starts, acc),
         NEW k \in 1..Len(split(p)), acc[k].ok
  PROVE  LET part == split(p)[k] IN
         /\ acc[k - 1].ok /\ acc[k - 1] \in Accs /\ acc[k] \in Accs
         /\ part = <<>> => acc[k] = acc[k - 1]
         /\ part # <<>> => \E o \in Nat : TakenAt(p, acc[k - 1], part, acc[k], o)
<1> DEFINE part == split(p)[k]
<1>1. part \in Seq(Characters) /\ p \in Seq(Characters)
  BY StretchMeaning DEF Setting
<1>2. acc[k] = take(p, acc[k - 1], part) /\ acc[k - 1] \in Accs /\ acc[k] \in Accs
  <2>1. Len(split(p)) \in Nat
    BY DEF Setting, Stretches
  <2>2. k - 1 \in 0..Len(split(p)) /\ k \in 0..Len(split(p))
    BY <2>1
  <2> QED BY <2>2 DEF Setting, Loop
<1> HIDE DEF part
<1>3. /\ part = <<>> \/ ~acc[k - 1].ok => acc[k] = acc[k - 1]
      /\ part # <<>> /\ acc[k - 1].ok =>
              \/ acc[k].ok /\ \E o \in Nat : TakenAt(p, acc[k - 1], part, acc[k], o)
              \/ ~acc[k].ok
  BY <1>1, <1>2, TakeMeaning
<1>4. acc[k - 1].ok
  BY <1>3
<1> QED BY <1>2, <1>3, <1>4 DEF part

LEMMA RestAlways ==
  ASSUME NEW p, NEW s, NEW glob, NEW starts, NEW acc, Setting(p, s, glob, starts, acc)
  PROVE  \A k \in 0..Len(split(p)) : acc[k].ok => IsRest(acc[k].remainder, s)
<1> DEFINE K == Len(split(p))
           I == {k \in 0..K : acc[k].ok => IsRest(acc[k].remainder, s)}
<1>1. K \in Nat /\ s \in Seq(Characters)
  BY DEF Setting, Stretches
<1>2. 0 \in I
  <2>1. acc[0].remainder = s
    BY DEF Setting, Loop
  <2>2. \A l \in 1..Len(s) : Len(s) - Len(s) + l = l
    BY <1>1
  <2>3. IsRest(s, s)
    BY <1>1, <2>2 DEF IsRest
  <2> QED BY <1>1, <2>1, <2>3
<1>3. ASSUME NEW k \in 1..K, k - 1 \in I PROVE k \in I
  <2>1. SUFFICES ASSUME acc[k].ok PROVE IsRest(acc[k].remainder, s)
    BY <1>1
  <2> DEFINE part == split(p)[k]
             text == acc[k - 1].remainder
             rest == acc[k].remainder
  <2>2. /\ acc[k - 1].ok /\ acc[k - 1] \in Accs /\ acc[k] \in Accs
        /\ part = <<>> => acc[k] = acc[k - 1]
        /\ part # <<>> => \E o \in Nat : TakenAt(p, acc[k - 1], part, acc[k], o)
    BY <2>1, TurnMeaning
  <2>3. IsRest(text, s) /\ text \in Seq(Characters) /\ rest \in Seq(Characters)
    BY <1>3, <2>2 DEF Accs
  <2>4. CASE part = <<>>
    BY <2>2, <2>3, <2>4
  <2>5. CASE part # <<>>
    <3>1. PICK o \in Nat : TakenAt(p, acc[k - 1], part, acc[k], o)
      BY <2>2, <2>5
    <3>2. part \in Seq(Characters)
      BY StretchMeaning
    <3> DEFINE gone == o + Len(part)
    <3>3. /\ Len(rest) = Len(text) - gone
          /\ \A l \in 1..Len(rest) : rest[l] = text[gone + l]
      BY <3>1 DEF TakenAt
    <3>4. gone \in Nat /\ Len(rest) \in Nat /\ Len(text) \in Nat /\ Len(s) \in Nat
      BY <1>1, <2>3, <3>2
    <3> HIDE DEF gone, text, rest, part
    <3>5. Len(text) <= Len(s) /\ \A l \in 1..Len(text) : text[l] = s[Len(s) - Len(text) + l]
      BY <2>3 DEF IsRest
    <3>6. \A l \in 1..Len(rest) : gone + l \in 1..Len(text)
                                  /\ Len(s) - Len(text) + (gone + l) = Len(s) - Len(rest) + l
      BY <3>3, <3>4
    <3>7. Len(rest) <= Len(s)
      BY <3>3, <3>4, <3>5
    <3>8. IsRest(rest, s)
      BY <3>3, <3>5, <3>6, <3>7 DEF IsRest
    <3> QED BY <3>8 DEF rest
  <2> QED BY <2>4, <2>5
<1>4. \A k \in 0..K : k \in I
  <2> HIDE DEF I, K
  <2> QED BY <1>1, <1>2, <1>3, Upwards
<1> QED BY <1>4

(* After k turns, what the pattern after its k-th stretch globs from where  *)
(* the remainder begins makes the pattern glob the segment.                *)
SoundAt(k, p, s, glob, starts, acc) ==
  acc[k].ok =>
    /\ k >= 1 => (glob[<<starts[k + 1] - 1, At(acc, k, s)>>] => glob[<<1, 1>>])
    /\ k >= 2 /\ split(p)[k] = <<>> =>
         (glob[<<starts[k] - 1, At(acc, k, s)>>] => glob[<<1, 1>>])

LEMMA TurnIsSound ==
  ASSUME NEW p, NEW s, NEW glob, NEW starts, NEW acc, Setting(p, s, glob, starts, acc),
         NEW k \in 1..Len(split(p)), SoundAt(k - 1, p, s, glob, starts, acc)
  PROVE  SoundAt(k, p, s, glob, starts, acc)
<1> SUFFICES ASSUME acc[k].ok
             PROVE  /\ glob[<<starts[k + 1] - 1, At(acc, k, s)>>] => glob[<<1, 1>>]
                    /\ k >= 2 /\ split(p)[k] = <<>> =>
                         (glob[<<starts[k] - 1, At(acc, k, s)>>] => glob[<<1, 1>>])
  BY DEF SoundAt
<1> DEFINE part == split(p)[k]
           text == acc[k - 1].remainder
           rest == acc[k].remainder
           length == Len(part)
           i == starts[k]
           r == At(acc, k - 1, s)
<1>1. /\ acc[k - 1].ok /\ acc[k - 1] \in Accs /\ acc[k] \in Accs
      /\ part = <<>> => acc[k] = acc[k - 1]
      /\ part # <<>> => \E o \in Nat : TakenAt(p, acc[k - 1], part, acc[k], o)
  BY TurnMeaning
<1>2. /\ p \in Seq(Characters) /\ s \in Seq(Characters) /\ Globs(glob, p, s)
      /\ Len(p) \in Nat /\ Len(s) \in Nat
  BY DEF Setting
<1>3. Len(split(p)) \in Nat
  BY DEF Setting, Stretches
<1>4. /\ part \in Seq(Characters) /\ length \in Nat
      /\ i \in 1..(Len(p) + 1) /\ i + length \in 1..(Len(p) + 1)
      /\ starts[k + 1] - 1 = i + length
      /\ k > 1 => i > 1 /\ p[i - 1] = Star
      /\ k = 1 => i = 1
      /\ \A l \in 1..length : part[l] # Star /\ p[i - 1 + l] = part[l]
  BY StretchMeaning
<1>5. /\ text \in Seq(Characters) /\ Len(text) \in Nat /\ Len(text) <= Len(s)
      /\ \A l \in 1..Len(text) : text[l] = s[Len(s) - Len(text) + l]
  <2>1. k - 1 \in 0..Len(split(p))
    BY <1>3
  <2>2. IsRest(text, s)
    BY <1>1, <2>1, RestAlways
  <2>3. text \in Seq(Characters)
    BY <1>1 DEF Accs
  <2> HIDE DEF text
  <2> QED BY <2>2, <2>3 DEF IsRest
<1>6. k = 1 => text = s /\ acc[k - 1].first
  BY DEF Setting, Loop
<1>7. r = Len(s) + 1 - Len(text) /\ r \in 1..(Len(s) + 1) /\ (k = 1 => r = 1)
  <2>1. r = Len(s) + 1 - Len(text)
    BY DEF At
  <2>2. k = 1 => Len(text) = Len(s)
    BY <1>6
  <2> HIDE DEF r, text
  <2> QED BY <1>2, <1>5, <2>1, <2>2
<1>8. k >= 2 => (glob[<<i - 1, r>>] => glob[<<1, 1>>])
  <2>1. k >= 2 => k - 1 >= 1 /\ (k - 1) + 1 = k
    BY <1>3
  <2> QED BY <1>1, <2>1 DEF SoundAt
<1>9. ASSUME k >= 2, NEW j \in r..(Len(s) + 1), glob[<<i, j>>] PROVE glob[<<1, 1>>]
  <2>1. i - 1 \in 1..Len(p) /\ p[i - 1] = Star /\ (i - 1) + 1 = i
    <3>1. k > 1
      BY <1>3, <1>9
    <3> HIDE DEF i, part, length
    <3> QED BY <1>2, <1>4, <3>1
  <2>2. glob[<<i - 1, r>>]
    <3> DEFINE star == i - 1
    <3>1. star \in 1..Len(p) /\ p[star] = Star /\ glob[<<star + 1, j>>]
      BY <1>9, <2>1
    <3> HIDE DEF i, r, star
    <3>2. glob[<<star, r>>]
      BY <1>2, <1>7, <1>9, <3>1, StarTakes
    <3> QED BY <3>2 DEF star
  <2> QED BY <1>8, <1>9, <2>2
<1>10. CASE part = <<>>
  <2>1. length = 0 /\ At(acc, k, s) = r /\ starts[k + 1] - 1 = i
    <3>1. length = 0
      BY <1>10
    <3>2. At(acc, k, s) = r
      BY <1>1, <1>10 DEF At
    <3> HIDE DEF i, part, length
    <3> QED BY <1>2, <1>4, <3>1, <3>2
  <2>2. CASE k = 1
    BY <1>4, <1>7, <2>1, <2>2
  <2>3. CASE k >= 2
    <3>1. r \in r..(Len(s) + 1)
      BY <1>2, <1>7
    <3> HIDE DEF r, i
    <3> QED BY <1>8, <1>9, <2>1, <2>3, <3>1 DEF i
  <2> QED BY <1>3, <2>2, <2>3
<1>11. CASE part # <<>>
  <2>1. PICK o \in Nat : TakenAt(p, acc[k - 1], part, acc[k], o)
    BY <1>1, <1>11
  <2>2. OccursAt(part, text, o) /\ may_start(p, acc[k - 1], o)
        /\ Len(rest) = Len(text) - (o + length)
    BY <2>1 DEF TakenAt
  <2>3. /\ r + o \in 1..(Len(s) + 1) /\ r + o + length \in 1..(Len(s) + 1)
        /\ glob[<<i, r + o>>] <=> glob[<<i + length, r + o + length>>]
    <3>1. LET j == Len(s) + 1 - Len(text) + o IN
          /\ j \in 1..(Len(s) + 1) /\ j + length \in 1..(Len(s) + 1)
          /\ glob[<<i, j>>] <=> glob[<<starts[k + 1] - 1, j + length>>]
      <4> HIDE DEF text, r
      <4> QED BY <1>5, <2>2, StretchTaken
    <3> HIDE DEF r, i, text, length, part
    <3> QED BY <1>4, <1>7, <3>1
  <2>4. At(acc, k, s) = r + o + length
    <3>1. At(acc, k, s) = Len(s) + 1 - Len(rest)
      BY DEF At
    <3> HIDE DEF r, rest, text, length, part
    <3> QED BY <1>2, <1>4, <1>5, <1>7, <2>2, <3>1
  <2>5. CASE k = 1
    <3>1. 1 \in 1..length
      <4> HIDE DEF i
      <4> QED BY <1>4, <1>11, EmptySeq
    <3>2. part[1] # Star /\ p[i - 1 + 1] = part[1] /\ i = 1
      BY <1>4, <2>5, <3>1
    <3>3. Head(p) # Star
      <4>1. p[1] # Star
        <5> HIDE DEF i
        <5> QED BY <3>2
      <4> QED BY <1>2, <4>1
    <3>4. o = 0
      BY <1>6, <2>2, <2>5, <3>3 DEF may_start
    <3>5. r + o = 1
      <4> HIDE DEF r
      <4> QED BY <1>7, <2>5, <3>4
    <3> HIDE DEF r, i, part
    <3> QED BY <1>4, <1>11, <2>3, <2>4, <2>5, <3>5 DEF part, i
  <2>6. CASE k >= 2
    <3>1. r + o \in r..(Len(s) + 1)
      <4>1. o \in Nat /\ r \in Int /\ Len(s) \in Int /\ r + o \in 1..(Len(s) + 1)
        BY <1>2, <1>7, <2>3
      <4> HIDE DEF r
      <4> QED BY <4>1
    <3> HIDE DEF r, i, part
    <3> QED BY <1>4, <1>9, <1>11, <2>3, <2>4, <2>6, <3>1 DEF part, i
  <2> QED BY <1>3, <2>5, <2>6
<1> QED BY <1>10, <1>11

(* The pattern globs every segment the loop accepts. *)
LEMMA SegmentSound ==
  ASSUME NEW p \in Seq(Characters), NEW s \in Seq(Characters), segment_matches(p, s)
  PROVE  Glob(p, s)
<1>1. PICK acc : Loop(acc, p, s) /\ (p = ANY \/ p = s \/ (Contains(p, Star) /\ Accepted(acc, p, s)))
  BY LoopInTurns
<1>2. PICK starts : split(p) \in Stretches /\ StartsAt(starts, split(p), p, Len(p))
  BY SplitMeaning
<1>3. PICK glob : Globs(glob, p, s) /\ (Glob(p, s) <=> glob[<<1, 1>>])
  BY GlobMeaning
<1>4. Setting(p, s, glob, starts, acc)
  BY <1>1, <1>2, <1>3 DEF Setting
<1> DEFINE n == Len(p)
           m == Len(s)
           K == Len(split(p))
<1>5. n \in Nat /\ m \in Nat /\ K \in Nat \ {0}
  BY <1>2 DEF Stretches
<1>6. glob[<<n + 1, m + 1>>]
  <2> DEFINE i == n + 1
             j == m + 1
  <2>1. i \in 1..(n + 1) /\ j \in 1..(m + 1) /\ i = n + 1 /\ j = m + 1
    BY <1>5
  <2> HIDE DEF i, j
  <2>2. i = n + 1 => (glob[<<i, j>>] <=> j = m + 1)
    <3>1. i \in 1..(n + 1) /\ j \in 1..(m + 1)
      BY <2>1
    <3> QED BY <1>3, <3>1 DEF Globs
  <2>3. glob[<<i, j>>]
    BY <2>1, <2>2
  <2> QED BY <2>3 DEF i, j
<1>7. CASE p = s
  BY <1>7, GlobsItself
<1>8. CASE p = ANY
  <2>1. n = 1 /\ p[1] = Star /\ 1 \in 1..n /\ 1 \in 1..(m + 1) /\ m + 1 \in 1..(m + 1) /\ n + 1 = 1 + 1
    BY <1>5, <1>8 DEF ANY
  <2>2. glob[<<1 + 1, m + 1>>]
    BY <1>6, <2>1
  <2> DEFINE j == m + 1
  <2> HIDE DEF j, n
  <2>3. glob[<<1, 1>>]
    BY <1>3, <2>1, <2>2, StarTakes DEF j, n
  <2> QED BY <1>3, <2>3
<1>9. CASE Contains(p, Star) /\ Accepted(acc, p, s)
  <2>1. \A k \in 0..K : SoundAt(k, p, s, glob, starts, acc)
    <3> DEFINE I == {k \in 0..K : SoundAt(k, p, s, glob, starts, acc)}
    <3>1. 0 \in I
      BY <1>5 DEF SoundAt
    <3>2. ASSUME NEW k \in 1..K, k - 1 \in I PROVE k \in I
      <4>1. SoundAt(k - 1, p, s, glob, starts, acc)
        BY <3>2
      <4>2. SoundAt(k, p, s, glob, starts, acc)
        BY <1>4, <4>1, TurnIsSound
      <4> QED BY <1>5, <4>2
    <3>3. \A k \in 0..K : k \in I
      <4> HIDE DEF I, K
      <4> QED BY <1>5, <3>1, <3>2, Upwards
    <3> QED BY <3>3
  <2>2. /\ acc[K].ok /\ (Last(p) = Star \/ acc[K].remainder = <<>>)
        /\ K \in 1..K /\ K \in 0..K /\ K >= 1
    BY <1>5, <1>9 DEF Accepted
  <2> DEFINE part == split(p)[K]
             length == Len(part)
             i == starts[K]
             r == At(acc, K, s)
  <2>3. /\ glob[<<starts[K + 1] - 1, r>>] => glob[<<1, 1>>]
        /\ K >= 2 /\ part = <<>> => (glob[<<i - 1, r>>] => glob[<<1, 1>>])
    BY <2>1, <2>2 DEF SoundAt
  <2>4. /\ part \in Seq(Characters) /\ length \in Nat
        /\ i \in 1..(n + 1)
        /\ starts[K + 1] - 1 = i + length /\ i + length = n + 1
        /\ K > 1 => i > 1 /\ p[i - 1] = Star
        /\ K = 1 => i = 1
        /\ \A l \in 1..length : part[l] # Star /\ p[i - 1 + l] = part[l]
    BY <1>4, <2>2, StretchMeaning
  <2>5. CASE acc[K].remainder = <<>>
    <3>1. r = m + 1
      BY <1>5, <2>5 DEF At
    <3> HIDE DEF r, i, K, part, length, n, m
    <3> QED BY <1>3, <1>6, <2>3, <2>4, <3>1
  <2>6. CASE Last(p) = Star
    <3>1. n >= 1 /\ p[n] = Star
      <4>1. PICK x \in 1..n : p[x] = Star
        BY <1>9 DEF Contains
      <4> QED BY <1>5, <2>6, <4>1 DEF Last
    <3>2. length = 0
      <4>1. SUFFICES ASSUME length \in Nat \ {0} PROVE FALSE
        BY <2>4
      <4>2. length \in 1..length /\ i - 1 + length = n
        <5> HIDE DEF i, length, part, n
        <5> QED BY <1>5, <2>4, <4>1
      <4>3. part[length] # Star /\ p[i - 1 + length] = part[length]
        BY <2>4, <4>2
      <4> QED BY <3>1, <4>2, <4>3
    <3>3. part = <<>>
      BY <2>4, <3>2, EmptySeq
    <3>4. K >= 2 /\ i - 1 = n
      <4> HIDE DEF i, K, part, length, n
      <4> QED BY <1>5, <2>4, <3>1, <3>2
    <3>5. glob[<<n, r>>]
      <4>1. n \in 1..n /\ r \in 1..(m + 1) /\ m + 1 \in r..(m + 1)
        <5>1. acc[K].remainder \in Seq(Characters)
          BY <1>4, <2>2, TurnMeaning DEF Accs
        <5>2. Len(acc[K].remainder) \in Nat /\ Len(acc[K].remainder) <= m
          <6>1. IsRest(acc[K].remainder, s)
            BY <1>4, <2>2, RestAlways
          <6> HIDE DEF K
          <6> QED BY <5>1, <6>1 DEF IsRest
        <5>3. r = m + 1 - Len(acc[K].remainder)
          BY DEF At
        <5> DEFINE left == Len(acc[K].remainder)
        <5>4. n \in Nat /\ m \in Nat /\ left \in Nat /\ left <= m /\ r = m + 1 - left /\ n >= 1
          BY <1>5, <3>1, <5>2, <5>3
        <5> HIDE DEF K, r, n, m, left
        <5> QED BY <5>4
      <4> DEFINE j == m + 1
      <4>2. j \in r..(m + 1) /\ glob[<<n + 1, j>>]
        BY <1>6, <4>1
      <4> HIDE DEF r, j
      <4> QED BY <1>3, <3>1, <4>1, <4>2, StarTakes
    <3> HIDE DEF r, i, K, part, length, n
    <3> QED BY <1>3, <2>3, <3>3, <3>4, <3>5
  <2> QED BY <2>2, <2>5, <2>6
<1> QED BY <1>1, <1>7, <1>8, <1>9

------------------------------------------------------------------------------
(* What the loop accepts. *)

(* Characters of the pattern that are no stars stand for nothing but         *)
(* themselves.                                                              *)
LEMMA GlobsOnlyLiterally ==
  ASSUME NEW p \in Seq(Characters), NEW s \in Seq(Characters), NEW glob, Globs(glob, p, s),
         NEW length \in Nat, NEW i \in 1..(Len(p) + 1), NEW j \in 1..(Len(s) + 1),
         i + length <= Len(p) + 1,
         \A l \in 0..(length - 1) : p[i + l] # Star,
         glob[<<i, j>>]
  PROVE  /\ j + length <= Len(s) + 1 /\ glob[<<i + length, j + length>>]
         /\ \A l \in 0..(length - 1) : p[i + l] = s[j + l]
<1> DEFINE n == Len(p)
           m == Len(s)
           Done(l) == /\ j + l <= m + 1 /\ glob[<<i + l, j + l>>]
                      /\ \A h \in 0..(l - 1) : p[i + h] = s[j + h]
           I == {l \in 0..length : Done(l)}
<1>1. n \in Nat /\ m \in Nat
  OBVIOUS
<1>2. 0 \in I
  <2>1. 0 \in 0..length /\ i + 0 = i /\ j + 0 = j /\ 0..(0 - 1) = {} /\ j <= m + 1
    OBVIOUS
  <2> HIDE DEF n, m
  <2> QED BY <2>1
<1>3. ASSUME NEW k \in 1..length, k - 1 \in I PROVE k \in I
  <2> DEFINE l == k - 1
             i1 == i + l
             j1 == j + l
  <2>1. l \in 0..(length - 1) /\ l + 1 = k /\ k \in 0..length
    OBVIOUS
  <2>2. i1 \in 1..(n + 1) /\ i1 <= n /\ i1 + 1 = i + k
    <3>1. length \in Nat /\ i \in 1..(n + 1) /\ i + length <= n + 1
      OBVIOUS
    <3>2. i + l \in 1..(n + 1) /\ i + l <= n /\ (i + l) + 1 = i + (l + 1)
      <4> HIDE DEF n, l
      <4> QED BY <1>1, <2>1, <3>1, WithinStretch
    <3> HIDE DEF n, l
    <3> QED BY <2>1, <3>2
  <2>3. Done(l)
    BY <1>3
  <2>4. j1 \in 1..(m + 1) /\ j1 + 1 = j + k /\ glob[<<i1, j1>>]
    <3>1. j \in 1..(m + 1) /\ length \in Nat
      OBVIOUS
    <3>2. j + l <= m + 1 /\ glob[<<i + l, j + l>>]
      BY <2>3
    <3> HIDE DEF m, l, n
    <3> QED BY <1>1, <2>1, <3>1, <3>2
  <2>5. p[i1] # Star
    <3> HIDE DEF l, n
    <3> QED BY <2>1
  <2>6. j1 <= m /\ p[i1] = s[j1] /\ glob[<<i1 + 1, j1 + 1>>]
    <3> HIDE DEF i1, j1
    <3> QED BY <2>2, <2>4, <2>5 DEF Globs, n, m
  <2>7. \A h \in 0..(k - 1) : p[i + h] = s[j + h]
    <3>1. \A h \in 0..(k - 1) : h = l \/ h \in 0..(l - 1)
      OBVIOUS
    <3>2. \A h \in 0..(l - 1) : p[i + h] = s[j + h]
      BY <2>3
    <3> HIDE DEF l
    <3> QED BY <2>6, <3>1, <3>2 DEF i1, j1
  <2>8. j + k <= m + 1 /\ glob[<<i + k, j + k>>]
    <3>1. j1 + 1 <= m + 1
      <4> HIDE DEF j1, m
      <4> QED BY <1>1, <2>4, <2>6
    <3> HIDE DEF i1, j1, m
    <3> QED BY <2>2, <2>4, <2>6, <3>1
  <2> QED BY <2>1, <2>7, <2>8
<1>4. length \in I
  <2>1. \A k \in 0..length : k \in I
    <3> HIDE DEF I
    <3> QED BY <1>2, <1>3, Upwards
  <2>2. length \in 0..length
    OBVIOUS
  <2> HIDE DEF I
  <2> QED BY <2>1, <2>2
<1> QED BY <1>4

(* A pattern without a star globs only itself. *)
LEMMA LiteralGlobsItself ==
  ASSUME NEW p \in Seq(Characters), NEW s \in Seq(Characters), ~Contains(p, Star), Glob(p, s)
  PROVE  p = s
<1> DEFINE n == Len(p)
           m == Len(s)
<1>1. PICK glob : Globs(glob, p, s) /\ glob[<<1, 1>>]
  BY GlobMeaning
<1>2. \A l \in 1..n : p[l] # Star
  BY DEF Contains
<1>3. n \in Nat /\ m \in Nat /\ 1 \in 1..(n + 1) /\ 1 \in 1..(m + 1) /\ 1 + n <= n + 1
  OBVIOUS
<1>4. \A l \in 0..(n - 1) : p[1 + l] # Star
  <2>1. \A l \in 0..(n - 1) : 1 + l \in 1..n
    BY <1>3
  <2> HIDE DEF n
  <2> QED BY <1>2, <2>1
<1>5. /\ 1 + n <= m + 1 /\ glob[<<1 + n, 1 + n>>]
      /\ \A l \in 0..(n - 1) : p[1 + l] = s[1 + l]
  <2> DEFINE first == 1
  <2>1. /\ n \in Nat /\ first \in 1..(Len(p) + 1) /\ first \in 1..(Len(s) + 1)
        /\ first + n <= Len(p) + 1 /\ glob[<<first, first>>]
        /\ \A l \in 0..(n - 1) : p[first + l] # Star
    BY <1>1, <1>3, <1>4
  <2> HIDE DEF n, first
  <2>2. /\ first + n <= Len(s) + 1 /\ glob[<<first + n, first + n>>]
        /\ \A l \in 0..(n - 1) : p[first + l] = s[first + l]
    BY <1>1, <2>1, GlobsOnlyLiterally
  <2> QED BY <2>2 DEF first
<1> DEFINE i == 1 + n
<1>6. i \in 1..(n + 1) /\ i \in 1..(m + 1) /\ i = n + 1 /\ glob[<<i, i>>]
  BY <1>3, <1>5
<1>7. i = m + 1
  <2> DEFINE j == i
  <2>1. j \in 1..(Len(s) + 1) /\ i \in 1..(Len(p) + 1) /\ i = Len(p) + 1 /\ glob[<<i, j>>]
    BY <1>6
  <2> HIDE DEF i, j
  <2>2. j = Len(s) + 1
    BY <1>1, <2>1 DEF Globs
  <2> QED BY <2>2 DEF j
<1>8. n = m
  BY <1>3, <1>7
<1>9. \A l \in 1..n : p[l] = s[l]
  <2>1. \A l \in 1..n : l - 1 \in 0..(n - 1) /\ 1 + (l - 1) = l
    BY <1>3
  <2>2. \A l \in 1..n : p[1 + (l - 1)] = s[1 + (l - 1)]
    <3> HIDE DEF n
    <3> QED BY <1>5, <2>1
  <2> HIDE DEF n
  <2> QED BY <2>1, <2>2
<1> QED BY <1>8, <1>9, SeqEqual

(* A stretch occurs in what remains where it occurs in the segment.          *)
LEMMA OccursInRest ==
  ASSUME NEW part \in Seq(Characters), NEW s \in Seq(Characters), NEW text \in Seq(Characters),
         IsRest(text, s), NEW o \in Nat
  PROVE  OccursAt(part, text, o) <=> OccursAt(part, s, Len(s) - Len(text) + o)
<1> DEFINE m == Len(s)
           t == Len(text)
           length == Len(part)
           at == m - t + o
<1>1. m \in Nat /\ t \in Nat /\ length \in Nat /\ t <= m
  BY DEF IsRest
<1>2. \A l \in 1..t : text[l] = s[m - t + l]
  BY DEF IsRest
<1> HIDE DEF m, t, length
<1>3. o \in 0..(t - length) <=> at \in 0..(m - length)
  <2>1. at \in Int /\ at >= 0 /\ o >= 0 /\ o \in Int
    BY <1>1
  <2>2. o <= t - length <=> at <= m - length
    BY <1>1
  <2>3. t - length \in Int /\ m - length \in Int
    BY <1>1
  <2> HIDE DEF at
  <2> QED BY <2>1, <2>2, <2>3
<1>4. ASSUME o \in 0..(t - length), NEW l \in 1..length PROVE text[o + l] = s[at + l]
  <2>1. o + l \in 1..t /\ m - t + (o + l) = at + l
    BY <1>1, <1>4
  <2>2. text[o + l] = s[m - t + (o + l)]
    <3> DEFINE x == o + l
    <3> HIDE DEF x
    <3> QED BY <1>2, <2>1 DEF x
  <2> QED BY <2>1, <2>2
<1> HIDE DEF at
<1>5. OccursAt(part, text, o) <=> OccursAt(part, s, at)
  BY <1>3, <1>4 DEF OccursAt, t, m, length
<1> QED BY <1>5 DEF at, m, t

(* A stretch that may be empty for a start is taken at the first star.       *)
LEMMA FirstIsStar ==
  ASSUME NEW p, NEW s, NEW glob, NEW starts, NEW acc, Setting(p, s, glob, starts, acc),
         Contains(p, Star), split(p)[1] = <<>>
  PROVE  Head(p) = Star
<1> DEFINE K == Len(split(p))
           n == Len(p)
<1>1. n \in Nat /\ K \in Nat \ {0} /\ p \in Seq(Characters)
  BY DEF Setting, Stretches
<1>2. 1 \in 1..K /\ (K = 1 \/ 2 \in 1..K)
  <2> HIDE DEF K
  <2> QED BY <1>1
<1>3. Len(split(p)[1]) = 0
  OBVIOUS
<1>4. starts[1] = 1 /\ starts[1 + 1] - 1 = starts[1] + 0 /\ (1 = K => starts[1] + 0 = n + 1)
  BY <1>2, <1>3, StretchMeaning
<1>5. n # 0
  BY DEF Contains
<1>6. K # 1
  <2> HIDE DEF K, n
  <2> QED BY <1>1, <1>4, <1>5
<1>7. 2 \in 1..K /\ 2 > 1
  BY <1>2, <1>6
<1>8. p[starts[2] - 1] = Star
  BY <1>7, StretchMeaning
<1>9. starts[2] - 1 = 1
  BY <1>4
<1> QED BY <1>1, <1>5, <1>8, <1>9

(* After k turns, what is left of the pattern globs from some place that is *)
(* still to come: the loop has left it at least as much as any other choice *)
(* of places for the stretches.  Both have just passed the k-th stretch.    *)
CompleteAt(k, p, s, glob, starts, acc) ==
  /\ acc[k].ok
  /\ k >= 1 =>
       /\ acc[k].first => Head(p) = Star
       /\ \E j \in At(acc, k, s)..(Len(s) + 1) :
            /\ glob[<<starts[k + 1] - 1, j>>]
            /\ OccursAt(split(p)[k], s, j - 1 - Len(split(p)[k]))
       /\ split(p)[k] # <<>> =>
            OccursAt(split(p)[k], s, At(acc, k, s) - 1 - Len(split(p)[k]))

LEMMA TurnIsComplete ==
  ASSUME NEW p, NEW s, NEW glob, NEW starts, NEW acc, Setting(p, s, glob, starts, acc),
         NEW k \in 1..Len(split(p)), Contains(p, Star), glob[<<1, 1>>],
         CompleteAt(k - 1, p, s, glob, starts, acc)
  PROVE  CompleteAt(k, p, s, glob, starts, acc)
<1> DEFINE part == split(p)[k]
           text == acc[k - 1].remainder
           rest == acc[k].remainder
           length == Len(part)
           n == Len(p)
           m == Len(s)
           t == Len(text)
           i == starts[k]
           r == At(acc, k - 1, s)
<1>1. p \in Seq(Characters) /\ s \in Seq(Characters) /\ Globs(glob, p, s) /\ n \in Nat /\ m \in Nat
  BY DEF Setting
<1>2. acc[k] = take(p, acc[k - 1], part) /\ acc[k - 1] \in Accs /\ acc[k] \in Accs /\ acc[k - 1].ok
  <2>1. Len(split(p)) \in Nat
    BY DEF Setting, Stretches
  <2>2. k - 1 \in 0..Len(split(p)) /\ k \in 0..Len(split(p))
    BY <2>1
  <2> QED BY <2>2 DEF Setting, Loop, CompleteAt
<1>3. /\ part \in Seq(Characters) /\ length \in Nat
      /\ i \in 1..(n + 1) /\ i + length \in 1..(n + 1)
      /\ starts[k + 1] - 1 = i + length
      /\ k > 1 => i > 1 /\ p[i - 1] = Star
      /\ k = 1 => i = 1
      /\ \A l \in 1..length : part[l] # Star /\ p[i - 1 + l] = part[l]
  BY StretchMeaning
<1>15. /\ part = <<>> => acc[k] = acc[k - 1]
       /\ part # <<>> =>
            \/ acc[k].ok /\ \E o \in Nat : TakenAt(p, acc[k - 1], part, acc[k], o)
            \/ ~acc[k].ok /\ \A o : OccursAt(part, text, o) => ~may_start(p, acc[k - 1], o)
  <2> DEFINE old == acc[k - 1]
             new == take(p, old, part)
  <2>1. part \in Seq(Characters) /\ p \in Seq(Characters) /\ old \in Accs /\ old.ok
    BY <1>1, <1>2, <1>3
  <2>2. acc[k] = new
    BY <1>2
  <2>3. /\ part = <<>> \/ ~old.ok => new = old
        /\ part # <<>> /\ old.ok =>
             \/ new.ok /\ \E o \in Nat : TakenAt(p, old, part, new, o)
             \/ ~new.ok /\ \A o : OccursAt(part, old.remainder, o) => ~may_start(p, old, o)
    <3> HIDE DEF part, old
    <3> QED BY <2>1, TakeMeaning
  <2> HIDE DEF part, old, new
  <2>4. /\ part = <<>> => acc[k] = old
        /\ part # <<>> =>
             \/ acc[k].ok /\ \E o \in Nat : TakenAt(p, old, part, acc[k], o)
             \/ ~acc[k].ok /\ \A o : OccursAt(part, old.remainder, o) => ~may_start(p, old, o)
    BY <2>1, <2>2, <2>3
  <2> QED BY <2>4 DEF old
<1>4. k \in Nat /\ k >= 1 /\ (k = 1 \/ k >= 2) /\ (k >= 2 => k - 1 >= 1 /\ k > 1 /\ (k - 1) + 1 = k)
  <2>1. Len(split(p)) \in Nat
    BY DEF Setting, Stretches
  <2> QED BY <2>1
<1>5. text \in Seq(Characters) /\ t \in Nat /\ IsRest(text, s) /\ t <= m
  <2>1. k - 1 \in 0..Len(split(p))
    <3>1. Len(split(p)) \in Nat
      BY DEF Setting, Stretches
    <3> QED BY <3>1
  <2>2. IsRest(text, s)
    BY <1>2, <2>1, RestAlways
  <2>3. text \in Seq(Characters)
    BY <1>2 DEF Accs
  <2> HIDE DEF text
  <2> QED BY <2>2, <2>3 DEF IsRest
<1>6. k = 1 => text = s
  BY DEF Setting, Loop
<1>7. r = m + 1 - t /\ r \in 1..(m + 1) /\ (k = 1 => r = 1)
  <2>1. r = m + 1 - t
    BY DEF At
  <2>2. k = 1 => t = m
    BY <1>6
  <2> HIDE DEF r, t, m
  <2> QED BY <1>1, <1>5, <2>1, <2>2
<1>8. \E j \in r..(m + 1) : glob[<<i, j>>] /\ (k = 1 => j = 1)
  <2>1. CASE k = 1
    <3>1. 1 \in r..(m + 1)
      BY <1>1, <1>7, <2>1
    <3> HIDE DEF r, i
    <3> QED BY <1>3, <2>1, <3>1
  <2>2. CASE k >= 2
    <3>1. PICK j \in r..(m + 1) : glob[<<i - 1, j>>]
      BY <1>4, <2>2 DEF CompleteAt
    <3> DEFINE star == i - 1
    <3>2. star \in 1..(n + 1) /\ star <= n /\ p[star] = Star /\ star + 1 = i
      <4> HIDE DEF i, n, length
      <4> QED BY <1>1, <1>3, <1>4, <2>2
    <3>3. j \in 1..(m + 1)
      <4> HIDE DEF r, m
      <4> QED BY <1>1, <1>7
    <3>4. \E h \in j..(m + 1) : glob[<<star + 1, h>>]
      <4> HIDE DEF star
      <4> QED BY <1>1, <3>1, <3>2, <3>3 DEF Globs, star
    <3>5. PICK h \in j..(m + 1) : glob[<<i, h>>]
      <4> HIDE DEF i, m
      <4> QED BY <3>2, <3>4
    <3>6. h \in r..(m + 1)
      <4> HIDE DEF r, m
      <4> QED BY <1>1, <1>7, <3>3
    <3> HIDE DEF r, i, m
    <3> QED BY <1>4, <2>2, <3>5, <3>6
  <2> QED BY <1>4, <2>1, <2>2
<1>9. PICK j \in r..(m + 1) : glob[<<i, j>>] /\ (k = 1 => j = 1)
  BY <1>8
<1>10. j \in 1..(m + 1) /\ j - r \in Nat /\ m - t + (j - r) = j - 1 /\ (k = 1 => j - r = 0)
  <2> HIDE DEF r, m, t
  <2> QED BY <1>1, <1>5, <1>7, <1>9
<1>11. /\ j + length <= m + 1 /\ glob[<<i + length, j + length>>]
       /\ \A l \in 0..(length - 1) : p[i + l] = s[j + l]
  <2>1. \A l \in 0..(length - 1) : p[i + l] # Star
    <3>1. SUFFICES ASSUME NEW l \in 0..(length - 1) PROVE p[i + l] # Star
      OBVIOUS
    <3> DEFINE h == l + 1
    <3>2. h \in 1..length /\ i - 1 + h = i + l
      <4>1. i \in Int /\ length \in Nat
        <5> HIDE DEF i, length, n
        <5> QED BY <1>1, <1>3
      <4> HIDE DEF i, length
      <4> QED BY <4>1
    <3>3. p[i - 1 + h] # Star
      <4> HIDE DEF h, i, length, part
      <4> QED BY <1>3, <3>2 DEF part, length
    <3> HIDE DEF h, i
    <3> QED BY <3>2, <3>3
  <2>2. i + length <= Len(p) + 1 /\ length \in Nat /\ i \in 1..(Len(p) + 1)
    <3> HIDE DEF i, length
    <3> QED BY <1>1, <1>3
  <2>3. j \in 1..(Len(s) + 1) /\ glob[<<i, j>>]
    BY <1>9, <1>10
  <2> HIDE DEF i, length
  <2> QED BY <1>1, <2>1, <2>2, <2>3, GlobsOnlyLiterally
<1>12. OccursAt(part, s, j - 1)
  <2>1. j - 1 \in 0..(m - length)
    <3> HIDE DEF m, length
    <3> QED BY <1>1, <1>3, <1>10, <1>11
  <2>2. ASSUME NEW l \in 1..length PROVE s[j - 1 + l] = part[l]
    <3> DEFINE h == l - 1
    <3>1. h \in 0..(length - 1) /\ i + h = i - 1 + l /\ j + h = j - 1 + l
      <4> HIDE DEF length, i, m, n
      <4> QED BY <1>1, <1>3, <1>10
    <3>2. p[i + h] = s[j + h]
      <4> HIDE DEF length, i, h
      <4> QED BY <1>11, <3>1
    <3> HIDE DEF i, h
    <3> QED BY <1>3, <3>1, <3>2
  <2> HIDE DEF part
  <2> QED BY <2>1, <2>2 DEF OccursAt, part
<1>13. CASE part = <<>>
  <2>1. length = 0 /\ acc[k] = acc[k - 1]
    BY <1>13, <1>15
  <2>2. At(acc, k, s) = r /\ starts[k + 1] - 1 = i
    <3>1. At(acc, k, s) = r
      BY <2>1 DEF At
    <3>2. starts[k + 1] - 1 = i
      <4> HIDE DEF i, length, n
      <4> QED BY <1>1, <1>3, <2>1
    <3> QED BY <3>1, <3>2
  <2>3. acc[k].first => Head(p) = Star
    <3>1. CASE k = 1
      BY <1>13, <3>1, FirstIsStar
    <3>2. CASE k >= 2
      BY <1>4, <2>1, <3>2 DEF CompleteAt
    <3> QED BY <1>4, <3>1, <3>2
  <2>4. OccursAt(part, s, j - 1 - length)
    <3>1. j - 1 - length = j - 1
      <4> HIDE DEF length
      <4> QED BY <1>10, <2>1
    <3> HIDE DEF length, part
    <3> QED BY <1>12, <3>1
  <2> HIDE DEF i, r
  <2> QED BY <1>2, <1>9, <1>13, <2>1, <2>2, <2>3, <2>4 DEF CompleteAt
<1>14. CASE part # <<>>
  <2>1. OccursAt(part, text, j - r)
    <3> DEFINE o == j - r
    <3>1. o \in Nat /\ m - t + o = j - 1
      BY <1>10
    <3> HIDE DEF o
    <3>2. OccursAt(part, text, o) <=> OccursAt(part, s, m - t + o)
      <4> HIDE DEF part, text
      <4> QED BY <1>1, <1>3, <1>5, <3>1, OccursInRest DEF text
    <3>3. OccursAt(part, text, o)
      <4> HIDE DEF part, text, m, t
      <4> QED BY <1>12, <3>1, <3>2
    <3> QED BY <3>3 DEF o
  <2>2. may_start(p, acc[k - 1], j - r)
    <3>1. CASE k = 1
      <4> HIDE DEF r
      <4> QED BY <1>10, <3>1 DEF may_start
    <3>2. CASE k >= 2
      BY <1>4, <3>2 DEF CompleteAt, may_start
    <3> QED BY <1>4, <3>1, <3>2
  <2>3. /\ acc[k].ok /\ \E o \in Nat : TakenAt(p, acc[k - 1], part, acc[k], o)
    <3>1. \/ acc[k].ok /\ \E o \in Nat : TakenAt(p, acc[k - 1], part, acc[k], o)
          \/ ~acc[k].ok /\ \A o : OccursAt(part, text, o) => ~may_start(p, acc[k - 1], o)
      BY <1>14, <1>15
    <3> HIDE DEF part, r, text
    <3> QED BY <2>1, <2>2, <3>1
  <2>4. PICK o \in Nat : TakenAt(p, acc[k - 1], part, acc[k], o)
    BY <2>3
  <2>5. o <= j - r /\ OccursAt(part, text, o) /\ ~acc[k].first /\ Len(rest) = t - (o + length)
    <3> DEFINE x == j - r
    <3>1. OccursAt(part, text, x) /\ may_start(p, acc[k - 1], x)
      BY <2>1, <2>2
    <3> HIDE DEF x
    <3>2. o <= x
      BY <2>4, <3>1 DEF TakenAt
    <3> QED BY <2>4, <3>2 DEF TakenAt, x
  <2>6. At(acc, k, s) = r + o + length
    <3>1. At(acc, k, s) = m + 1 - Len(rest)
      BY DEF At
    <3> HIDE DEF r, rest, t, length, m
    <3> QED BY <1>1, <1>3, <1>5, <1>7, <2>5, <3>1
  <2>7. OccursAt(part, s, At(acc, k, s) - 1 - length)
    <3>1. OccursAt(part, s, m - t + o)
      <4> HIDE DEF part, text
      <4> QED BY <1>1, <1>3, <1>5, <2>5, OccursInRest DEF text
    <3>2. At(acc, k, s) - 1 - length = m - t + o
      <4> DEFINE to == At(acc, k, s)
      <4>1. to = r + o + length
        BY <2>6
      <4>2. m \in Int /\ t \in Int
        BY <1>1, <1>5
      <4>3. length \in Int
        BY <1>3
      <4>4. r = m + 1 - t
        BY <1>7
      <4> HIDE DEF r, t, length, m, to
      <4>5. to - 1 - length = m - t + o
        BY <4>1, <4>2, <4>3, <4>4
      <4> QED BY <4>5 DEF to
    <3> HIDE DEF part, r, length, m, t
    <3> QED BY <3>1, <3>2
  <2> DEFINE last == j + length
  <2>8. last \in (r + o + length)..(m + 1) /\ last - 1 - length = j - 1
    <3>1. /\ j \in Int /\ r \in Int /\ length \in Nat /\ m \in Nat
          /\ o <= j - r /\ j + length <= m + 1
      BY <1>1, <1>3, <1>7, <1>10, <1>11, <2>5
    <3> HIDE DEF r, length, m
    <3> QED BY <3>1
  <2>9. glob[<<starts[k + 1] - 1, last>>]
    <3> HIDE DEF i, length
    <3> QED BY <1>3, <1>11
  <2>10. OccursAt(part, s, last - 1 - length)
    <3> HIDE DEF last, length, part
    <3> QED BY <1>12, <2>8
  <2> HIDE DEF last, r
  <2>11. \E h \in At(acc, k, s)..(m + 1) :
           glob[<<starts[k + 1] - 1, h>>] /\ OccursAt(part, s, h - 1 - length)
    <3> HIDE DEF length, part, m
    <3> QED BY <2>6, <2>8, <2>9, <2>10
  <2> QED BY <2>3, <2>5, <2>7, <2>11 DEF CompleteAt
<1> QED BY <1>13, <1>14

(* Where the text after the last star occurs but once, the loop accepts      *)
(* every segment the pattern globs.                                        *)
LEMMA SegmentComplete ==
  ASSUME NEW p \in Seq(Characters), NEW s \in Seq(Characters), Glob(p, s),
         Contains(p, Star) /\ Suffix(p) # <<>> =>
           \A o1, o2 \in Occurrences(Suffix(p), s) : o1 = o2
  PROVE  segment_matches(p, s)
<1>1. PICK acc : /\ Loop(acc, p, s)
                 /\ segment_matches(p, s) <=>
                      p = ANY \/ p = s \/ (Contains(p, Star) /\ Accepted(acc, p, s))
  BY LoopInTurns
<1>2. CASE ~Contains(p, Star)
  BY <1>1, <1>2, LiteralGlobsItself
<1>3. CASE Contains(p, Star)
  <2>1. PICK starts : split(p) \in Stretches /\ StartsAt(starts, split(p), p, Len(p))
    BY SplitMeaning
  <2>2. PICK glob : Globs(glob, p, s) /\ glob[<<1, 1>>]
    BY GlobMeaning
  <2>3. Setting(p, s, glob, starts, acc)
    BY <1>1, <2>1, <2>2 DEF Setting
  <2> DEFINE n == Len(p)
             m == Len(s)
             K == Len(split(p))
             part == split(p)[K]
             length == Len(part)
             i == starts[K]
             r == At(acc, K, s)
  <2>4. n \in Nat /\ m \in Nat /\ K \in Nat \ {0} /\ K \in 1..K /\ K >= 1
    BY <2>1 DEF Stretches
  <2>5. \A k \in 0..K : CompleteAt(k, p, s, glob, starts, acc)
    <3> DEFINE I == {k \in 0..K : CompleteAt(k, p, s, glob, starts, acc)}
    <3>1. 0 \in I
      <4>1. CompleteAt(0, p, s, glob, starts, acc)
        BY <1>1 DEF CompleteAt, Loop
      <4> QED BY <2>4, <4>1
    <3>2. ASSUME NEW k \in 1..K, k - 1 \in I PROVE k \in I
      <4>1. CompleteAt(k, p, s, glob, starts, acc)
        BY <1>3, <2>2, <2>3, <3>2, TurnIsComplete
      <4> QED BY <2>4, <4>1
    <3>3. \A k \in 0..K : k \in I
      <4> HIDE DEF I, K
      <4> QED BY <2>4, <3>1, <3>2, Upwards
    <3> QED BY <3>3
  <2>6. CompleteAt(K, p, s, glob, starts, acc)
    BY <2>4, <2>5
  <2>7. /\ part \in Seq(Characters) /\ length \in Nat
        /\ i \in 1..(n + 1)
        /\ starts[K + 1] - 1 = i + length /\ i + length = n + 1
        /\ K > 1 => i > 1 /\ p[i - 1] = Star
        /\ K = 1 => i = 1
    BY <2>3, <2>4, StretchMeaning
  <2>8. /\ acc[K].ok
        /\ \E j \in r..(m + 1) : glob[<<starts[K + 1] - 1, j>>] /\ OccursAt(part, s, j - 1 - length)
        /\ part # <<>> => OccursAt(part, s, r - 1 - length)
    BY <2>4, <2>6 DEF CompleteAt
  <2>9. acc[K] \in Accs
    <3>1. K \in 0..K
      BY <2>4
    <3> QED BY <1>1, <3>1 DEF Loop
  <2>10. CASE part = <<>>
    <3>1. n # 0
      BY <1>3 DEF Contains
    <3>2. length = 0
      BY <2>10
    <3>3. K > 1 /\ i - 1 = n
      <4> HIDE DEF K, i, n, length, part
      <4> QED BY <2>4, <2>7, <3>1, <3>2
    <3>4. Last(p) = Star
      <4>1. p[n] = Star
        <5> HIDE DEF K, i, n, part
        <5> QED BY <2>7, <3>3
      <4> QED BY <4>1 DEF Last
    <3> QED BY <1>1, <1>3, <2>8, <3>4 DEF Accepted
  <2>11. CASE part # <<>>
    <3>1. Suffix(p) = part
      BY DEF Suffix, Last
    <3>2. OccursAt(part, s, r - 1 - length)
      BY <2>8, <2>11
    <3>3. PICK j \in r..(m + 1) :
            glob[<<starts[K + 1] - 1, j>>] /\ OccursAt(part, s, j - 1 - length)
      BY <2>8
    <3>4. r - 1 - length \in Occurrences(part, s) /\ j - 1 - length \in Occurrences(part, s)
      <4> DEFINE o1 == r - 1 - length
                 o2 == j - 1 - length
      <4>1. OccursAt(part, s, o1) /\ OccursAt(part, s, o2)
        BY <3>2, <3>3
      <4> HIDE DEF o1, o2, part, r
      <4>2. o1 \in Occurrences(part, s) /\ o2 \in Occurrences(part, s)
        BY <2>7, <4>1, OccurrenceMeaning
      <4> QED BY <4>2 DEF o1, o2
    <3>5. r - 1 - length = j - 1 - length
      <4> DEFINE o1 == r - 1 - length
                 o2 == j - 1 - length
      <4> HIDE DEF o1, o2, part
      <4>1. o1 = o2
        BY <1>3, <2>11, <3>1, <3>4 DEF o1, o2
      <4> QED BY <4>1 DEF o1, o2
    <3>6. acc[K].remainder \in Seq(Characters) /\ r = m + 1 - Len(acc[K].remainder)
      BY <2>9 DEF Accs, At
    <3> DEFINE left == Len(acc[K].remainder)
    <3>7. left \in Nat /\ r = m + 1 - left
      BY <3>6
    <3>8. j \in 1..(m + 1)
      <4>1. r \in 1..(m + 1)
        <5>1. left <= m
          <6>1. K \in 0..K
            BY <2>4
          <6>2. IsRest(acc[K].remainder, s)
            BY <2>3, <2>8, <6>1, RestAlways
          <6> QED BY <6>2 DEF IsRest
        <5> HIDE DEF left, r, m
        <5> QED BY <2>4, <3>7, <5>1
      <4> HIDE DEF r, m
      <4> QED BY <2>4, <4>1
    <3>9. j = m + 1
      <4> DEFINE to == starts[K + 1] - 1
      <4>1. to = n + 1 /\ glob[<<to, j>>]
        <5> HIDE DEF i, length, n
        <5> QED BY <2>7, <3>3
      <4>2. to \in 1..(n + 1)
        <5> HIDE DEF to, n
        <5> QED BY <2>4, <4>1
      <4> HIDE DEF to
      <4> QED BY <2>2, <3>8, <4>1, <4>2 DEF Globs
    <3>10. left = 0
      <4> HIDE DEF left, r, m, length
      <4> QED BY <2>4, <2>7, <3>5, <3>7, <3>9
    <3>11. acc[K].remainder = <<>>
      BY <3>6, <3>10, EmptySeq
    <3> QED BY <1>1, <1>3, <2>8, <3>11 DEF Accepted
  <2> QED BY <2>10, <2>11
<1> QED BY <1>2, <1>3

------------------------------------------------------------------------------
(* matches_parts, from the i-th segment of the pattern and the j-th of the  *)
(* path on.                                                                *)
Results == [matched : BOOLEAN, calls : Nat]
Places(P, S) == (1..(Len(P) + 1)) \X (1..(Len(S) + 1))

(* What one call makes of those it makes. *)
Call(result, match, i, j, P, S) ==
  /\ result \in Results
  /\ i = Len(P) + 1 => /\ result.matched <=> j = Len(S) + 1
                       /\ result.calls = 1
  /\ i <= Len(P) /\ P[i] = ANY_DEPTH =>
       /\ result.matched <=>
            match[<<i + 1, j>>].matched \/ (j <= Len(S) /\ match[<<i, j + 1>>].matched)
       /\ j = Len(S) + 1 => result.calls = 1 + match[<<i + 1, j>>].calls
       /\ j <= Len(S) =>
            result.calls <= 1 + match[<<i + 1, j>>].calls + match[<<i, j + 1>>].calls
  /\ i <= Len(P) /\ P[i] # ANY_DEPTH =>
       /\ result.matched <=>
            j <= Len(S) /\ segment_matches(P[i], S[j]) /\ match[<<i + 1, j + 1>>].matched
       /\ j = Len(S) + 1 => result.calls = 1
       /\ j <= Len(S) => result.calls <= 1 + match[<<i + 1, j + 1>>].calls

LEMMA FurtherMeaning ==
  ASSUME NEW result \in Results, NEW calls \in Nat
  PROVE  /\ Further(result, calls) \in Results
         /\ Further(result, calls).matched = result.matched
         /\ Further(result, calls).calls = calls + result.calls
BY DEF Further, Results

LEMMA CallMeaning ==
  ASSUME NEW P \in Seq(Seq(Characters)), NEW S \in Seq(Seq(Characters)),
         NEW i \in 1..(Len(P) + 1), NEW j \in 1..(Len(S) + 1), NEW match,
         i <= Len(P) => match[<<i + 1, j>>] \in Results,
         i <= Len(P) /\ j <= Len(S) => /\ match[<<i, j + 1>>] \in Results
                                       /\ match[<<i + 1, j + 1>>] \in Results
  PROVE  Call(match_at(match, i, j, P, S), match, i, j, P, S)
<1> DEFINE n == Len(P)
           m == Len(S)
           result == match_at(match, i, j, P, S)
           past == match[<<i + 1, j>>]
           more == match[<<i, j + 1>>]
           both == match[<<i + 1, j + 1>>]
<1>1. n \in Nat /\ m \in Nat /\ (i > n <=> i = n + 1) /\ (i <= n <=> ~(i > n))
      /\ (j > m <=> j = m + 1) /\ (j <= m <=> ~(j > m))
  OBVIOUS
<1>2. CASE i = n + 1
  <2>1. result = [matched |-> j > m, calls |-> 1]
    BY <1>1, <1>2 DEF match_at
  <2> DEFINE over == j > m
  <2>2. over \in BOOLEAN /\ result = [matched |-> over, calls |-> 1]
    BY <1>1, <2>1
  <2>3. result \in Results /\ (result.matched <=> j = m + 1) /\ result.calls = 1
    <3>1. over <=> j = m + 1
      BY <1>1
    <3> HIDE DEF over, result
    <3> QED BY <2>2, <3>1 DEF Results
  <2> QED BY <1>1, <1>2, <2>3 DEF Call
<1>3. CASE i <= n /\ P[i] = ANY_DEPTH
  <2>1. result = Further(any_depth(match, i, j, m), 1)
    BY <1>1, <1>3 DEF match_at
  <2>2. past \in Results /\ (j <= m => more \in Results)
    BY <1>3
  <2>3. past.matched \in BOOLEAN /\ past.calls \in Nat
    BY <2>2 DEF Results
  <2>4. j <= m => more.matched \in BOOLEAN /\ more.calls \in Nat
    BY <2>2 DEF Results
  <2>5. any_depth(match, i, j, m) = IF past.matched \/ j > m THEN past ELSE Further(more, past.calls)
    BY DEF any_depth
  <2> HIDE DEF past, more, n, m, result
  <2>6. CASE past.matched \/ j > m
    <3>1. result = Further(past, 1)
      BY <2>1, <2>5, <2>6
    <3>2. result \in Results /\ result.matched = past.matched /\ result.calls = 1 + past.calls
      BY <2>2, <3>1, FurtherMeaning
    <3>3. j <= m => past.matched /\ result.calls <= 1 + past.calls + more.calls
      BY <1>1, <2>3, <2>4, <2>6, <3>2
    <3> QED BY <1>1, <1>3, <2>6, <3>2, <3>3 DEF Call, past, more, n, m, result
  <2>7. CASE ~past.matched /\ j <= m
    <3>1. result = Further(Further(more, past.calls), 1)
      BY <1>1, <2>1, <2>5, <2>7
    <3>2. /\ Further(more, past.calls) \in Results
          /\ Further(more, past.calls).matched = more.matched
          /\ Further(more, past.calls).calls = past.calls + more.calls
      BY <2>2, <2>3, <2>7, FurtherMeaning
    <3>3. /\ result \in Results /\ result.matched = more.matched
          /\ result.calls = 1 + (past.calls + more.calls)
      BY <3>1, <3>2, FurtherMeaning
    <3>4. result.calls <= 1 + past.calls + more.calls
      BY <2>3, <2>4, <2>7, <3>3
    <3> QED BY <1>1, <1>3, <2>7, <3>3, <3>4 DEF Call, past, more, n, m, result
  <2> QED BY <1>1, <2>6, <2>7
<1>4. CASE i <= n /\ P[i] # ANY_DEPTH /\ j <= m /\ segment_matches(P[i], S[j])
  <2>1. result = Further(both, 1) /\ both \in Results
    BY <1>1, <1>4 DEF match_at
  <2> HIDE DEF both, n, m, result
  <2>2. result \in Results /\ result.matched = both.matched /\ result.calls = 1 + both.calls
    BY <2>1, FurtherMeaning
  <2>3. result.calls <= 1 + both.calls
    BY <2>1, <2>2 DEF Results
  <2> QED BY <1>1, <1>4, <2>2, <2>3 DEF Call, both, n, m, result
<1>5. CASE i <= n /\ P[i] # ANY_DEPTH /\ ~(j <= m /\ segment_matches(P[i], S[j]))
  <2>1. result = Further(Failed, 1)
    BY <1>1, <1>5 DEF match_at
  <2>2. Failed \in Results /\ Failed.matched = FALSE /\ Failed.calls = 0
    BY DEF Failed, Results
  <2> HIDE DEF both, n, m, result
  <2>3. result \in Results /\ ~result.matched /\ result.calls = 1
    <3>1. /\ result \in Results /\ result.matched = Failed.matched
          /\ result.calls = 1 + Failed.calls
      BY <2>1, <2>2, FurtherMeaning
    <3> QED BY <2>2, <3>1
  <2>4. j <= m => 1 <= 1 + both.calls
    BY <1>5 DEF Results, both, n, m
  <2> QED BY <1>1, <1>5, <2>3, <2>4 DEF Call, both, n, m, result
<1> QED BY <1>1, <1>2, <1>3, <1>4, <1>5

Matches(match, P, S) ==
  \A i \in 1..(Len(P) + 1), j \in 1..(Len(S) + 1) : Call(match[<<i, j>>], match, i, j, P, S)

(* How many segments are still to come. *)
Ahead(P, S) == [at \in Places(P, S) |-> (Len(P) + 1 - at[1]) + (Len(S) + 1 - at[2])]

LEMMA AheadIsRank ==
  ASSUME NEW P \in Seq(Seq(Characters)), NEW S \in Seq(Seq(Characters))
  PROVE  /\ Len(P) + Len(S) \in Nat
         /\ Ranked(Ahead(P, S), Places(P, S), Len(P) + Len(S))
         /\ \A i \in 1..(Len(P) + 1), j \in 1..(Len(S) + 1) :
              /\ <<i, j>> \in Places(P, S)
              /\ i <= Len(P) => /\ <<i + 1, j>> \in Places(P, S)
                                /\ Ahead(P, S)[<<i + 1, j>>] < Ahead(P, S)[<<i, j>>]
              /\ j <= Len(S) => /\ <<i, j + 1>> \in Places(P, S)
                                /\ Ahead(P, S)[<<i, j + 1>>] < Ahead(P, S)[<<i, j>>]
              /\ i <= Len(P) /\ j <= Len(S) =>
                   /\ <<i + 1, j + 1>> \in Places(P, S)
                   /\ Ahead(P, S)[<<i + 1, j + 1>>] < Ahead(P, S)[<<i, j>>]
<1> DEFINE n == Len(P)
           m == Len(S)
           ahead == Ahead(P, S)
<1>1. n \in Nat /\ m \in Nat
  OBVIOUS
<1> HIDE DEF n, m
<1>2. \A i \in 1..(n + 1), j \in 1..(m + 1) :
        <<i, j>> \in Places(P, S) /\ ahead[<<i, j>>] = (n + 1 - i) + (m + 1 - j)
  BY DEF Ahead, Places, n, m
<1>3. ASSUME NEW at \in Places(P, S) PROVE (n + 1 - at[1]) + (m + 1 - at[2]) \in 0..(n + m)
  <2>1. at[1] \in 1..(n + 1) /\ at[2] \in 1..(m + 1)
    BY DEF Places, n, m
  <2> DEFINE i == at[1]
             j == at[2]
  <2>2. i \in 1..(n + 1) /\ j \in 1..(m + 1)
    BY <2>1
  <2> HIDE DEF i, j
  <2>3. (n + 1 - i) + (m + 1 - j) \in 0..(n + m)
    BY <1>1, <2>2
  <2> QED BY <2>3 DEF i, j
<1>4. Ranked(ahead, Places(P, S), n + m)
  BY <1>3 DEF Ranked, Ahead, n, m
<1> HIDE DEF ahead
<1>5. ASSUME NEW i \in 1..(n + 1), NEW j \in 1..(m + 1)
      PROVE  /\ i <= n => i + 1 \in 1..(n + 1) /\ ahead[<<i + 1, j>>] < ahead[<<i, j>>]
             /\ j <= m => j + 1 \in 1..(m + 1) /\ ahead[<<i, j + 1>>] < ahead[<<i, j>>]
             /\ i <= n /\ j <= m => ahead[<<i + 1, j + 1>>] < ahead[<<i, j>>]
  <2>1. (i <= n => i + 1 \in 1..(n + 1)) /\ (j <= m => j + 1 \in 1..(m + 1))
    BY <1>1
  <2> QED BY <1>1, <1>2, <2>1
<1>6. n + m \in Nat
  BY <1>1
<1> QED BY <1>2, <1>4, <1>5, <1>6 DEF n, m, ahead

(* There is one answer to every call, and search gives the first.            *)
LEMMA SearchMeaning ==
  ASSUME NEW P \in Seq(Seq(Characters)), NEW S \in Seq(Seq(Characters))
  PROVE  \E match : /\ match \in [Places(P, S) -> Results] /\ Matches(match, P, S)
                    /\ search(P, S) = match[<<1, 1>>]
<1> DEFINE n == Len(P)
           m == Len(S)
           D == Places(P, S)
           V == Results
           rank == Ahead(P, S)
           step == [x \in D \X [D -> V] |-> match_at(x[2], x[1][1], x[1][2], P, S)]
           Fill(f) == [at \in D |-> match_at(f, at[1], at[2], P, S)]
           match == CHOOSE f : f = Fill(f)
<1>1. /\ n \in Nat /\ m \in Nat /\ n + m \in Nat /\ Ranked(rank, D, n + m)
      /\ \A i \in 1..(n + 1), j \in 1..(m + 1) :
           /\ <<i, j>> \in D
           /\ i <= n => <<i + 1, j>> \in D /\ rank[<<i + 1, j>>] < rank[<<i, j>>]
           /\ j <= m => <<i, j + 1>> \in D /\ rank[<<i, j + 1>>] < rank[<<i, j>>]
           /\ i <= n /\ j <= m =>
                <<i + 1, j + 1>> \in D /\ rank[<<i + 1, j + 1>>] < rank[<<i, j>>]
  BY AheadIsRank
<1>2. \A at \in D : at[1] \in 1..(n + 1) /\ at[2] \in 1..(m + 1) /\ at = <<at[1], at[2]>>
  BY DEF Places
<1> HIDE DEF D, V, rank
<1>3. ASSUME NEW i \in 1..(n + 1), NEW j \in 1..(m + 1), NEW f,
             \A c \in D : rank[c] < rank[<<i, j>>] => f[c] \in Results
      PROVE  Call(match_at(f, i, j, P, S), f, i, j, P, S)
  <2>1. /\ i <= n => f[<<i + 1, j>>] \in Results
        /\ i <= n /\ j <= m => f[<<i, j + 1>>] \in Results /\ f[<<i + 1, j + 1>>] \in Results
    BY <1>1, <1>3
  <2> QED BY <2>1, CallMeaning
<1>4. ASSUME NEW at \in D, NEW f, NEW g, \A c \in D : rank[c] < rank[at] => f[c] = g[c]
      PROVE  match_at(f, at[1], at[2], P, S) = match_at(g, at[1], at[2], P, S)
  <2> DEFINE i == at[1]
             j == at[2]
  <2>1. i \in 1..(n + 1) /\ j \in 1..(m + 1) /\ at = <<i, j>>
    BY <1>2
  <2> HIDE DEF i, j
  <2>2. /\ i <= n => f[<<i + 1, j>>] = g[<<i + 1, j>>]
        /\ j <= m => f[<<i, j + 1>>] = g[<<i, j + 1>>]
        /\ i <= n /\ j <= m => f[<<i + 1, j + 1>>] = g[<<i + 1, j + 1>>]
    BY <1>1, <1>4, <2>1
  <2>3. (i > n \/ i <= n) /\ (j > m \/ j <= m)
    BY <1>1, <2>1
  <2>4. i <= n => any_depth(f, i, j, m) = any_depth(g, i, j, m)
    BY <2>2, <2>3 DEF any_depth
  <2>5. match_at(f, i, j, P, S) = match_at(g, i, j, P, S)
    BY <2>2, <2>3, <2>4 DEF match_at
  <2> QED BY <2>5 DEF i, j
<1>5. StepsBack(step, D, V, rank)
  <2>1. ASSUME NEW at \in D, NEW f \in [D -> V] PROVE match_at(f, at[1], at[2], P, S) \in V
    <3>1. at[1] \in 1..(n + 1) /\ at[2] \in 1..(m + 1) /\ \A c \in D : f[c] \in Results
      BY <1>2 DEF V
    <3>2. Call(match_at(f, at[1], at[2], P, S), f, at[1], at[2], P, S)
      BY <1>3, <3>1
    <3> QED BY <3>2 DEF Call, V
  <2>2. step \in [D \X [D -> V] -> V]
    BY <2>1
  <2>3. ASSUME NEW at \in D, NEW f \in [D -> V], NEW g \in [D -> V],
               \A c \in D : rank[c] < rank[at] => f[c] = g[c]
        PROVE  step[<<at, f>>] = step[<<at, g>>]
    BY <1>4, <2>3
  <2> HIDE DEF step
  <2> QED BY <2>2, <2>3 DEF StepsBack
<1>6. PICK g : Recurs(g, D, V, step)
  <2>1. [matched |-> TRUE, calls |-> 0] \in V
    BY DEF V, Results
  <2> HIDE DEF step
  <2> QED BY <1>1, <1>5, <2>1, RecursionExists
<1>7. g = Fill(g)
  <2>1. g \in [D -> V] /\ \A at \in D : g[at] = step[<<at, g>>]
    BY <1>6 DEF Recurs
  <2>2. \A at \in D : step[<<at, g>>] = match_at(g, at[1], at[2], P, S)
    BY <2>1
  <2>3. g = [at \in D |-> g[at]]
    BY <2>1
  <2> HIDE DEF step
  <2> QED BY <2>1, <2>2, <2>3
<1>8. match = Fill(match)
  <2> HIDE DEF Fill
  <2> QED BY <1>7
<1>9. \A at \in D : match[at] = match_at(match, at[1], at[2], P, S)
  <2> HIDE DEF match
  <2> QED BY <1>8
<1>10. search(P, S) = match[<<1, 1>>]
  BY DEF search, D, Places
<1> HIDE DEF match
<1>11. ASSUME NEW at \in D, \A c \in D : rank[c] < rank[at] => match[c] \in Results
       PROVE  Call(match[at], match, at[1], at[2], P, S)
  <2>1. at[1] \in 1..(n + 1) /\ at[2] \in 1..(m + 1) /\ at = <<at[1], at[2]>>
    BY <1>2
  <2> QED BY <1>3, <1>9, <1>11, <2>1
<1>12. \A at \in D : match[at] \in Results
  <2> DEFINE J == {at \in D : match[at] \in Results}
  <2>1. ASSUME NEW at \in D, \A c \in D : rank[c] < rank[at] => c \in J
        PROVE  at \in J
    BY <1>11, <2>1 DEF Call
  <2>2. \A at \in D : at \in J
    <3> HIDE DEF J, n, m
    <3> QED BY <1>1, <2>1, RankInduction
  <2> QED BY <2>2
<1>13. Matches(match, P, S)
  <2> SUFFICES ASSUME NEW i \in 1..(n + 1), NEW j \in 1..(m + 1)
               PROVE  Call(match[<<i, j>>], match, i, j, P, S)
    BY DEF Matches
  <2> DEFINE at == <<i, j>>
  <2>1. at \in D /\ at[1] = i /\ at[2] = j
    BY <1>1
  <2> HIDE DEF at
  <2>2. Call(match[at], match, at[1], at[2], P, S)
    BY <1>11, <1>12, <2>1
  <2> QED BY <2>1, <2>2 DEF at
<1>14. match \in [D -> Results]
  BY <1>8, <1>12
<1> QED BY <1>10, <1>13, <1>14 DEF D

------------------------------------------------------------------------------
(* The segments of the path from the j-th on given to those of the pattern   *)
(* from the i-th on.                                                       *)
Owns(owner, i, j, P, S) ==
  /\ owner \in [j..Len(S) -> i..Len(P)]
  /\ \A x, y \in j..Len(S) : x <= y => owner[x] <= owner[y]
  /\ \A x \in i..Len(P) : P[x] # ANY_DEPTH =>
       \E y \in j..Len(S) :
         /\ Glob(P[x], S[y])
         /\ \A z \in j..Len(S) : owner[z] = x <=> z = y

(* The j-th segment is given to the i-th of the pattern, the ones after it  *)
(* to that one or, if it stands for a single segment, to those after it.   *)
LEMMA OneMoreOwned ==
  ASSUME NEW P \in Seq(Seq(Characters)), NEW S \in Seq(Seq(Characters)),
         NEW i \in 1..Len(P), NEW j \in 1..Len(S), NEW next \in {i, i + 1}, NEW owner,
         Owns(owner, next, j + 1, P, S),
         (P[i] = ANY_DEPTH /\ next = i) \/ (P[i] # ANY_DEPTH /\ next = i + 1 /\ Glob(P[i], S[j]))
  PROVE  \E new : Owns(new, i, j, P, S)
<1> DEFINE n == Len(P)
           m == Len(S)
           new == [x \in j..m |-> IF x = j THEN i ELSE owner[x]]
<1>1. n \in Nat /\ m \in Nat
  OBVIOUS
<1>2. /\ owner \in [(j + 1)..m -> next..n]
      /\ \A x, y \in (j + 1)..m : x <= y => owner[x] <= owner[y]
      /\ \A x \in next..n : P[x] # ANY_DEPTH =>
           \E y \in (j + 1)..m : Glob(P[x], S[y]) /\ \A z \in (j + 1)..m : owner[z] = x <=> z = y
  BY DEF Owns
<1>3. /\ \A x \in j..m : x = j \/ x \in (j + 1)..m
      /\ \A x \in (j + 1)..m : x \in j..m /\ x # j /\ ~(x <= j)
      /\ j \in j..m /\ i \in i..n
      /\ \A x \in next..n : x \in i..n /\ i <= x
      /\ \A x \in i..n : x = i \/ x \in (i + 1)..n
  BY <1>1
<1>4. new[j] = i /\ \A x \in (j + 1)..m : new[x] = owner[x] /\ owner[x] \in next..n
  BY <1>2, <1>3
<1>5. new \in [j..m -> i..n]
  BY <1>2, <1>3
<1> HIDE DEF new, n, m
<1>6. ASSUME NEW x \in j..m, NEW y \in j..m, x <= y PROVE new[x] <= new[y]
  <2>1. CASE x = j /\ y = j
    BY <1>1, <1>4, <2>1
  <2>2. CASE x = j /\ y \in (j + 1)..m
    BY <1>3, <1>4, <2>2
  <2>3. CASE x \in (j + 1)..m /\ y \in (j + 1)..m
    BY <1>2, <1>4, <1>6, <2>3
  <2>4. CASE x \in (j + 1)..m /\ y = j
    BY <1>3, <1>6, <2>4
  <2> QED BY <1>3, <2>1, <2>2, <2>3, <2>4
<1>7. ASSUME NEW x \in i..n, P[x] # ANY_DEPTH
      PROVE  \E y \in j..m : Glob(P[x], S[y]) /\ \A z \in j..m : new[z] = x <=> z = y
  <2>1. CASE x = i
    <3>1. next = i + 1 /\ Glob(P[i], S[j])
      BY <1>7, <2>1
    <3>2. \A z \in (j + 1)..m : new[z] # i
      BY <1>1, <1>4, <3>1
    <3>3. \A z \in j..m : new[z] = i <=> z = j
      BY <1>3, <1>4, <3>2
    <3> QED BY <1>3, <2>1, <3>1, <3>3
  <2>2. CASE x \in (i + 1)..n
    <3>1. x \in next..n /\ x # i
      BY <1>1, <2>2
    <3>2. PICK y \in (j + 1)..m : Glob(P[x], S[y]) /\ \A z \in (j + 1)..m : owner[z] = x <=> z = y
      BY <1>2, <1>7, <3>1
    <3>3. \A z \in j..m : new[z] = x <=> z = y
      BY <1>3, <1>4, <3>1, <3>2
    <3> QED BY <1>3, <3>2, <3>3
  <2> QED BY <1>3, <2>1, <2>2
<1> QED BY <1>5, <1>6, <1>7 DEF Owns, n, m

(* Nothing is given to the i-th segment of the pattern, a "**".              *)
LEMMA NoneOwned ==
  ASSUME NEW P \in Seq(Seq(Characters)), NEW S \in Seq(Seq(Characters)),
         NEW i \in 1..Len(P), NEW j \in 1..(Len(S) + 1), NEW owner,
         Owns(owner, i + 1, j, P, S), P[i] = ANY_DEPTH
  PROVE  Owns(owner, i, j, P, S)
<1>1. /\ \A x \in (i + 1)..Len(P) : x \in i..Len(P)
      /\ \A x \in i..Len(P) : x = i \/ x \in (i + 1)..Len(P)
  OBVIOUS
<1>2. owner \in [j..Len(S) -> i..Len(P)]
  BY <1>1 DEF Owns
<1> QED BY <1>1, <1>2 DEF Owns

(* Where matches_parts succeeds the segments can be given away. *)
LEMMA SearchSound ==
  ASSUME NEW P \in Seq(Seq(Characters)), NEW S \in Seq(Seq(Characters)), search(P, S).matched
  PROVE  \E owner : Owns(owner, 1, 1, P, S)
<1> DEFINE n == Len(P)
           m == Len(S)
           D == Places(P, S)
           rank == Ahead(P, S)
           Good(i, j) == \E owner : Owns(owner, i, j, P, S)
<1>1. PICK match : /\ match \in [D -> Results] /\ Matches(match, P, S)
                   /\ search(P, S) = match[<<1, 1>>]
  BY SearchMeaning
<1> DEFINE J == {at \in D : match[at].matched => Good(at[1], at[2])}
<1>2. /\ n \in Nat /\ m \in Nat /\ n + m \in Nat /\ Ranked(rank, D, n + m)
      /\ \A i \in 1..(n + 1), j \in 1..(m + 1) :
           /\ <<i, j>> \in D
           /\ i <= n => <<i + 1, j>> \in D /\ rank[<<i + 1, j>>] < rank[<<i, j>>]
           /\ j <= m => <<i, j + 1>> \in D /\ rank[<<i, j + 1>>] < rank[<<i, j>>]
           /\ i <= n /\ j <= m =>
                <<i + 1, j + 1>> \in D /\ rank[<<i + 1, j + 1>>] < rank[<<i, j>>]
  BY AheadIsRank
<1>3. ASSUME NEW i \in 1..(n + 1), NEW j \in 1..(m + 1), match[<<i, j>>].matched,
             i <= n => (match[<<i + 1, j>>].matched => Good(i + 1, j)),
             j <= m => (match[<<i, j + 1>>].matched => Good(i, j + 1)),
             i <= n /\ j <= m => (match[<<i + 1, j + 1>>].matched => Good(i + 1, j + 1))
      PROVE  Good(i, j)
  <2>1. Call(match[<<i, j>>], match, i, j, P, S)
    BY <1>1 DEF Matches
  <2>2. CASE i = n + 1
    <3>1. j = m + 1
      BY <1>3, <2>1, <2>2 DEF Call
    <3> DEFINE owner == [x \in {} |-> x]
    <3>2. j..m = {} /\ i..n = {} /\ owner \in [{} -> {}]
      BY <1>2, <2>2, <3>1
    <3> HIDE DEF owner
    <3>3. Owns(owner, i, j, P, S)
      BY <3>2 DEF Owns
    <3> QED BY <3>3
  <2>3. CASE i <= n /\ P[i] = ANY_DEPTH
    <3>1. match[<<i + 1, j>>].matched \/ (j <= m /\ match[<<i, j + 1>>].matched)
      BY <1>3, <2>1, <2>3 DEF Call
    <3>2. i \in 1..n
      BY <1>2, <2>3
    <3>3. CASE match[<<i + 1, j>>].matched
      <4>1. PICK owner : Owns(owner, i + 1, j, P, S)
        BY <1>3, <2>3, <3>3
      <4>2. Owns(owner, i, j, P, S)
        BY <2>3, <3>2, <4>1, NoneOwned
      <4> QED BY <4>2
    <3>4. CASE j <= m /\ match[<<i, j + 1>>].matched
      <4>1. PICK owner : Owns(owner, i, j + 1, P, S)
        BY <1>3, <3>4
      <4>2. j \in 1..m /\ i \in {i, i + 1}
        BY <1>2, <3>4
      <4> HIDE DEF n, m
      <4> QED BY <2>3, <3>2, <4>1, <4>2, OneMoreOwned DEF n, m
    <3> QED BY <3>1, <3>3, <3>4
  <2>4. CASE i <= n /\ P[i] # ANY_DEPTH
    <3>1. j <= m /\ segment_matches(P[i], S[j]) /\ match[<<i + 1, j + 1>>].matched
      BY <1>3, <2>1, <2>4 DEF Call
    <3>2. i \in 1..n /\ j \in 1..m /\ i + 1 \in {i, i + 1}
      BY <1>2, <2>4, <3>1
    <3>3. Glob(P[i], S[j])
      BY <3>1, <3>2, SegmentSound
    <3>4. PICK owner : Owns(owner, i + 1, j + 1, P, S)
      BY <1>3, <2>4, <3>1
    <3> HIDE DEF n, m
    <3> QED BY <2>4, <3>2, <3>3, <3>4, OneMoreOwned DEF n, m
  <2> QED BY <1>2, <2>2, <2>3, <2>4
<1>4. ASSUME NEW at \in D, \A c \in D : rank[c] < rank[at] => c \in J PROVE at \in J
  <2>1. PICK i \in 1..(n + 1), j \in 1..(m + 1) : at = <<i, j>>
    BY DEF Places
  <2>2. /\ i <= n => <<i + 1, j>> \in J
        /\ j <= m => <<i, j + 1>> \in J
        /\ i <= n /\ j <= m => <<i + 1, j + 1>> \in J
    <3> HIDE DEF D, rank, J, n, m
    <3> QED BY <1>2, <1>4, <2>1
  <2>3. match[<<i, j>>].matched => Good(i, j)
    <3> HIDE DEF D, Good, n, m
    <3> QED BY <1>3, <2>2
  <2> HIDE DEF D, Good
  <2> QED BY <2>1, <2>3
<1>5. <<1, 1>> \in J
  <2>1. \A at \in D : at \in J
    <3> HIDE DEF D, J, rank, n, m
    <3> QED BY <1>2, <1>4, RankInduction
  <2>2. <<1, 1>> \in D
    <3>1. 1 \in 1..(n + 1) /\ 1 \in 1..(m + 1)
      BY <1>2
    <3> QED BY <3>1 DEF Places
  <2> HIDE DEF J, D
  <2> QED BY <2>1, <2>2
<1> QED BY <1>1, <1>5

(* The owner of the first segment left is a "**", which keeps on owning or    *)
(* does not, or it is another and owns only this one.                      *)
LEMMA OneLessOwned ==
  ASSUME NEW P \in Seq(Seq(Characters)), NEW S \in Seq(Seq(Characters)),
         NEW i \in 1..Len(P), NEW j \in 1..(Len(S) + 1), NEW owner, Owns(owner, i, j, P, S)
  PROVE  /\ P[i] = ANY_DEPTH =>
              \/ Owns(owner, i + 1, j, P, S)
              \/ j <= Len(S) /\ \E new : Owns(new, i, j + 1, P, S)
         /\ P[i] # ANY_DEPTH =>
              /\ j <= Len(S) /\ Glob(P[i], S[j])
              /\ \E new : Owns(new, i + 1, j + 1, P, S)
<1> DEFINE n == Len(P)
           m == Len(S)
           new == [x \in (j + 1)..m |-> owner[x]]
<1>1. n \in Nat /\ m \in Nat
  OBVIOUS
<1>2. /\ owner \in [j..m -> i..n]
      /\ \A x, y \in j..m : x <= y => owner[x] <= owner[y]
      /\ \A x \in i..n : P[x] # ANY_DEPTH =>
           \E y \in j..m : Glob(P[x], S[y]) /\ \A z \in j..m : owner[z] = x <=> z = y
  BY DEF Owns
<1> HIDE DEF n, m
<1>3. /\ \A x \in (j + 1)..m : x \in j..m /\ x # j /\ j <= x
      /\ \A x \in j..m : x = j \/ x \in (j + 1)..m
      /\ j <= m <=> j \in j..m
      /\ \A x \in (i + 1)..n : x \in i..n /\ x # i
      /\ \A x \in i..n : x = i \/ x \in (i + 1)..n
      /\ i \in i..n
  BY <1>1 DEF n, m
<1>4. /\ \A x \in (j + 1)..m : new[x] = owner[x]
      /\ \A x, y \in (j + 1)..m : x <= y => new[x] <= new[y]
      /\ new \in [(j + 1)..m -> i..n]
  BY <1>2, <1>3
<1> HIDE DEF new
<1>5. CASE P[i] = ANY_DEPTH
  <2>1. CASE \E x \in j..m : owner[x] = i
    <3>1. PICK x \in j..m : owner[x] = i
      BY <2>1
    <3>2. j \in j..m /\ j <= x /\ j <= m
      BY <1>1, <1>3
    <3>3. owner[j] = i
      <4>1. owner[j] <= i /\ owner[j] \in i..n
        BY <1>2, <3>1, <3>2
      <4> QED BY <1>1, <4>1
    <3>4. ASSUME NEW y \in i..n, P[y] # ANY_DEPTH
          PROVE  \E h \in (j + 1)..m :
                   Glob(P[y], S[h]) /\ \A z \in (j + 1)..m : new[z] = y <=> z = h
      <4>1. PICK h \in j..m : Glob(P[y], S[h]) /\ \A z \in j..m : owner[z] = y <=> z = h
        BY <1>2, <3>4
      <4>2. h # j
        BY <1>5, <3>2, <3>3, <3>4, <4>1
      <4>3. h \in (j + 1)..m
        BY <1>3, <4>2
      <4>4. \A z \in (j + 1)..m : new[z] = y <=> z = h
        BY <1>3, <1>4, <4>1
      <4> QED BY <4>1, <4>3, <4>4
    <3>5. Owns(new, i, j + 1, P, S)
      BY <1>4, <3>4 DEF Owns, n, m
    <3> QED BY <1>5, <3>2, <3>5 DEF m
  <2>2. CASE \A x \in j..m : owner[x] # i
    <3>1. owner \in [j..m -> (i + 1)..n]
      BY <1>2, <1>3, <2>2
    <3>2. Owns(owner, i + 1, j, P, S)
      BY <1>2, <1>3, <3>1 DEF Owns, n, m
    <3> QED BY <1>5, <3>2
  <2> QED BY <2>1, <2>2
<1>6. CASE P[i] # ANY_DEPTH
  <2>1. PICK y \in j..m : Glob(P[i], S[y]) /\ \A z \in j..m : owner[z] = i <=> z = y
    BY <1>2, <1>3, <1>6
  <2>2. j \in j..m /\ j <= y /\ j <= m
    BY <1>1, <1>3
  <2>3. owner[j] = i
    <3>1. owner[y] = i
      BY <2>1
    <3>2. owner[j] <= i /\ owner[j] \in i..n
      BY <1>2, <2>2, <3>1
    <3> QED BY <1>1, <3>2
  <2>4. y = j
    BY <2>1, <2>2, <2>3
  <2>5. \A x \in (j + 1)..m : owner[x] # i
    BY <1>3, <2>1, <2>4
  <2>6. new \in [(j + 1)..m -> (i + 1)..n]
    <3>1. \A x \in (j + 1)..m : new[x] \in (i + 1)..n
      BY <1>2, <1>3, <1>4, <2>5
    <3> QED BY <1>4, <3>1
  <2>7. ASSUME NEW x \in (i + 1)..n, P[x] # ANY_DEPTH
        PROVE  \E h \in (j + 1)..m :
                 Glob(P[x], S[h]) /\ \A z \in (j + 1)..m : new[z] = x <=> z = h
    <3>1. x \in i..n /\ x # i
      BY <1>3
    <3>2. PICK h \in j..m : Glob(P[x], S[h]) /\ \A z \in j..m : owner[z] = x <=> z = h
      BY <1>2, <2>7, <3>1
    <3>3. h # j
      BY <2>2, <2>3, <3>1, <3>2
    <3>4. h \in (j + 1)..m
      BY <1>3, <3>3
    <3>5. \A z \in (j + 1)..m : new[z] = x <=> z = h
      BY <1>3, <1>4, <3>2
    <3> QED BY <3>2, <3>4, <3>5
  <2>8. Owns(new, i + 1, j + 1, P, S)
    BY <1>4, <2>6, <2>7 DEF Owns, n, m
  <2> QED BY <1>6, <2>1, <2>2, <2>4, <2>8 DEF m
<1> QED BY <1>5, <1>6

(* Where the segments can be given away matches_parts succeeds, if the loop   *)
(* accepts what its patterns glob.                                         *)
LEMMA SearchComplete ==
  ASSUME NEW P \in Seq(Seq(Characters)), NEW S \in Seq(Seq(Characters)),
         \A i \in 1..Len(P), j \in 1..Len(S) : Glob(P[i], S[j]) => segment_matches(P[i], S[j]),
         NEW first, Owns(first, 1, 1, P, S)
  PROVE  search(P, S).matched
<1> DEFINE n == Len(P)
           m == Len(S)
           D == Places(P, S)
           rank == Ahead(P, S)
           Good(i, j) == \E owner : Owns(owner, i, j, P, S)
<1>1. PICK match : /\ match \in [D -> Results] /\ Matches(match, P, S)
                   /\ search(P, S) = match[<<1, 1>>]
  BY SearchMeaning
<1> DEFINE J == {at \in D : Good(at[1], at[2]) => match[at].matched}
<1>2. /\ n \in Nat /\ m \in Nat /\ n + m \in Nat /\ Ranked(rank, D, n + m)
      /\ \A i \in 1..(n + 1), j \in 1..(m + 1) :
           /\ <<i, j>> \in D
           /\ i <= n => <<i + 1, j>> \in D /\ rank[<<i + 1, j>>] < rank[<<i, j>>]
           /\ j <= m => <<i, j + 1>> \in D /\ rank[<<i, j + 1>>] < rank[<<i, j>>]
           /\ i <= n /\ j <= m =>
                <<i + 1, j + 1>> \in D /\ rank[<<i + 1, j + 1>>] < rank[<<i, j>>]
  BY AheadIsRank
<1>3. ASSUME NEW i \in 1..(n + 1), NEW j \in 1..(m + 1), Good(i, j),
             i <= n => (Good(i + 1, j) => match[<<i + 1, j>>].matched),
             j <= m => (Good(i, j + 1) => match[<<i, j + 1>>].matched),
             i <= n /\ j <= m => (Good(i + 1, j + 1) => match[<<i + 1, j + 1>>].matched)
      PROVE  match[<<i, j>>].matched
  <2>1. Call(match[<<i, j>>], match, i, j, P, S)
    BY <1>1 DEF Matches
  <2>2. PICK owner : Owns(owner, i, j, P, S)
    BY <1>3
  <2>3. CASE i = n + 1
    <3>1. j = m + 1
      <4>1. SUFFICES ASSUME j \in j..m PROVE FALSE
        <5> HIDE DEF m, n
        <5> QED BY <1>2
      <4>2. owner[j] \in i..n
        BY <2>2, <4>1 DEF Owns
      <4> HIDE DEF n, m
      <4> QED BY <1>2, <2>3, <4>2
    <3> QED BY <2>1, <2>3, <3>1 DEF Call
  <2>4. CASE i <= n
    <3>1. i \in 1..n
      <4> HIDE DEF n, m
      <4> QED BY <1>2, <2>4
    <3>2. /\ P[i] = ANY_DEPTH => Good(i + 1, j) \/ (j <= m /\ Good(i, j + 1))
          /\ P[i] # ANY_DEPTH => j <= m /\ Glob(P[i], S[j]) /\ Good(i + 1, j + 1)
      BY <2>2, <3>1, OneLessOwned
    <3> HIDE DEF Good
    <3>3. CASE P[i] = ANY_DEPTH
      <4>1. match[<<i + 1, j>>].matched \/ (j <= m /\ match[<<i, j + 1>>].matched)
        BY <1>3, <2>4, <3>2, <3>3
      <4> QED BY <2>1, <2>4, <3>3, <4>1 DEF Call
    <3>4. CASE P[i] # ANY_DEPTH
      <4>1. j <= m /\ Glob(P[i], S[j]) /\ match[<<i + 1, j + 1>>].matched
        BY <1>3, <2>4, <3>2, <3>4
      <4>2. j \in 1..m
        <5> HIDE DEF n, m
        <5> QED BY <1>2, <4>1
      <4>3. segment_matches(P[i], S[j])
        BY <3>1, <4>1, <4>2
      <4> QED BY <2>1, <2>4, <3>4, <4>1, <4>3 DEF Call
    <3> QED BY <3>3, <3>4
  <2> QED BY <1>2, <2>3, <2>4
<1>4. ASSUME NEW at \in D, \A c \in D : rank[c] < rank[at] => c \in J PROVE at \in J
  <2>1. PICK i \in 1..(n + 1), j \in 1..(m + 1) : at = <<i, j>>
    BY DEF Places
  <2>2. /\ i <= n => <<i + 1, j>> \in J
        /\ j <= m => <<i, j + 1>> \in J
        /\ i <= n /\ j <= m => <<i + 1, j + 1>> \in J
    <3> HIDE DEF D, rank, J, n, m
    <3> QED BY <1>2, <1>4, <2>1
  <2>3. Good(i, j) => match[<<i, j>>].matched
    <3> HIDE DEF D, Good, n, m
    <3> QED BY <1>3, <2>2
  <2> HIDE DEF D, Good
  <2> QED BY <2>1, <2>3
<1>5. <<1, 1>> \in J
  <2>1. \A at \in D : at \in J
    <3> HIDE DEF D, J, rank, n, m
    <3> QED BY <1>2, <1>4, RankInduction
  <2>2. <<1, 1>> \in D
    <3>1. 1 \in 1..(n + 1) /\ 1 \in 1..(m + 1)
      BY <1>2
    <3> QED BY <3>1 DEF Places
  <2> HIDE DEF J, D
  <2> QED BY <2>1, <2>2
<1>6. Good(1, 1)
  OBVIOUS
<1> QED BY <1>1, <1>5, <1>6

------------------------------------------------------------------------------
(* Binomial coefficients: choose(r + k, k) counts the ways to put r things    *)
(* and k others in a row.                                                   *)
LEMMA FactorialMeaning ==
  /\ factorial \in [Nat -> Nat \ {0}] /\ factorial[0] = 1
  /\ \A k \in Nat \ {0} : factorial[k] = k * factorial[k - 1]
<1> DEFINE Good(f, k) == /\ f \in [0..k -> Nat \ {0}] /\ f[0] = 1
                         /\ \A i \in 1..k : f[i] = i * f[i - 1]
<1>1. ASSUME NEW k \in Nat PROVE \E f : Good(f, k)
  <2> DEFINE I == {i \in 0..k : \E f : Good(f, i)}
  <2>1. 0 \in I
    <3> DEFINE f == [i \in 0..0 |-> 1]
    <3>1. Good(f, 0)
      OBVIOUS
    <3> HIDE DEF f, Good
    <3> QED BY <3>1
  <2>2. ASSUME NEW i \in 1..k, i - 1 \in I PROVE i \in I
    <3>1. PICK f : Good(f, i - 1)
      BY <2>2
    <3> DEFINE g == [h \in 0..i |-> IF h = i THEN i * f[i - 1] ELSE f[h]]
    <3>2. i - 1 \in 0..(i - 1) /\ i \in Nat \ {0} /\ i \in 0..k
      OBVIOUS
    <3>3. f[i - 1] \in Nat \ {0}
      BY <3>1, <3>2
    <3>4. i * f[i - 1] \in Nat \ {0}
      <4> DEFINE x == f[i - 1]
      <4> HIDE DEF x
      <4>1. i * x \in Nat \ {0}
        BY <3>2, <3>3 DEF x
      <4> QED BY <4>1 DEF x
    <3>5. \A h \in 0..i : h = i \/ h \in 0..(i - 1)
      BY <3>2
    <3>6. g \in [0..i -> Nat \ {0}]
      BY <3>1, <3>4, <3>5
    <3>7. g[0] = 1
      BY <3>1, <3>2
    <3>8. ASSUME NEW h \in 1..i PROVE g[h] = h * g[h - 1]
      <4>1. CASE h = i
        <5>1. h - 1 \in 0..i /\ h - 1 # i /\ h \in 0..i
          BY <4>1
        <5>2. g[h] = i * f[i - 1] /\ g[h - 1] = f[i - 1]
          BY <4>1, <5>1
        <5> QED BY <4>1, <5>2
      <4>2. CASE h # i
        <5>1. h \in 1..(i - 1) /\ h \in 0..i /\ h - 1 \in 0..i /\ h - 1 # i
          BY <4>2
        <5>2. g[h] = f[h] /\ g[h - 1] = f[h - 1]
          BY <4>2, <5>1
        <5>3. f[h] = h * f[h - 1]
          BY <3>1, <5>1
        <5> QED BY <5>2, <5>3
      <4> QED BY <4>1, <4>2
    <3>9. Good(g, i)
      <4> HIDE DEF g
      <4> QED BY <3>6, <3>7, <3>8
    <3> HIDE DEF g, Good
    <3> QED BY <3>2, <3>9
  <2>3. \A i \in 0..k : i \in I
    <3> HIDE DEF I
    <3> QED BY <2>1, <2>2, Upwards
  <2> HIDE DEF Good
  <2> QED BY <2>3
<1>2. ASSUME NEW k \in Nat, NEW l \in Nat, k <= l, NEW f, Good(f, k), NEW g, Good(g, l)
      PROVE  f[k] = g[k]
  <2> DEFINE I == {i \in 0..k : f[i] = g[i]}
  <2>1. 0 \in I
    BY <1>2
  <2>2. ASSUME NEW i \in 1..k, i - 1 \in I PROVE i \in I
    <3>1. i \in 1..l /\ i \in 0..k
      BY <1>2
    <3>2. f[i] = i * f[i - 1] /\ g[i] = i * g[i - 1] /\ f[i - 1] = g[i - 1]
      BY <1>2, <2>2, <3>1
    <3> QED BY <3>1, <3>2
  <2>3. \A i \in 0..k : i \in I
    <3> HIDE DEF I
    <3> QED BY <2>1, <2>2, Upwards
  <2>4. k \in 0..k
    OBVIOUS
  <2> QED BY <2>3, <2>4
<1> DEFINE upto(k) == CHOOSE f : Good(f, k)
           value == [k \in Nat |-> upto(k)[k]]
<1>3. ASSUME NEW k \in Nat PROVE Good(upto(k), k)
  <2> HIDE DEF Good
  <2> QED BY <1>1
<1>4. value[0] = 1
  <2>1. Good(upto(0), 0)
    <3> HIDE DEF upto, Good
    <3> QED BY <1>3
  <2> HIDE DEF upto
  <2> QED BY <2>1
<1>5. ASSUME NEW k \in Nat \ {0} PROVE value[k] = k * value[k - 1]
  <2> DEFINE l == k - 1
             f == upto(k)
             g == upto(l)
  <2>1. l \in Nat /\ k \in Nat /\ k \in 1..k /\ l <= k
    OBVIOUS
  <2>2. Good(f, k) /\ Good(g, l)
    <3> HIDE DEF upto, Good, l
    <3> QED BY <1>3, <2>1
  <2>3. f[k] = k * f[l]
    <3> HIDE DEF f
    <3> QED BY <2>1, <2>2
  <2>4. g[l] = f[l]
    <3> HIDE DEF f, g, l, Good
    <3> QED BY <1>2, <2>1, <2>2
  <2>5. value[k] = f[k] /\ value[l] = g[l]
    <3> HIDE DEF upto
    <3> QED BY <2>1
  <2> HIDE DEF value, f, g
  <2> QED BY <2>3, <2>4, <2>5
<1>6. value \in [Nat -> Nat \ {0}]
  <2>1. ASSUME NEW k \in Nat PROVE upto(k)[k] \in Nat \ {0}
    <3>1. Good(upto(k), k)
      <4> HIDE DEF upto, Good
      <4> QED BY <1>3
    <3>2. k \in 0..k
      OBVIOUS
    <3> HIDE DEF upto
    <3> QED BY <3>1, <3>2
  <2> HIDE DEF upto
  <2> QED BY <2>1
<1> DEFINE Fill(f) == [k \in Nat |-> IF k = 0 THEN 1 ELSE k * f[k - 1]]
<1>7. value = Fill(value)
  <2>1. \A k \in Nat : value[k] = IF k = 0 THEN 1 ELSE k * value[k - 1]
    <3> HIDE DEF value
    <3> QED BY <1>4, <1>5
  <2>2. value = [k \in Nat |-> value[k]]
    <3> HIDE DEF upto
    <3> QED OBVIOUS
  <2> HIDE DEF value
  <2> QED BY <2>1, <2>2
<1>8. factorial = Fill(factorial)
  <2> HIDE DEF value
  <2> QED BY <1>7 DEF factorial
<1>9. factorial[0] = 1 /\ \A k \in Nat \ {0} : factorial[k] = k * factorial[k - 1]
  <2>1. \A k \in Nat : factorial[k] = IF k = 0 THEN 1 ELSE k * factorial[k - 1]
    BY <1>8
  <2> QED BY <2>1
<1>10. \A k \in Nat : factorial[k] \in Nat \ {0}
  <2> SUFFICES ASSUME NEW n \in Nat PROVE factorial[n] \in Nat \ {0}
    OBVIOUS
  <2> DEFINE I == {k \in 0..n : factorial[k] \in Nat \ {0}}
  <2>1. 0 \in I
    BY <1>9
  <2>2. ASSUME NEW k \in 1..n, k - 1 \in I PROVE k \in I
    <3>1. factorial[k] = k * factorial[k - 1] /\ k \in Nat \ {0} /\ factorial[k - 1] \in Nat \ {0}
      BY <1>9, <2>2
    <3> DEFINE x == factorial[k - 1]
    <3> HIDE DEF x
    <3>2. k * x \in Nat \ {0}
      BY <3>1 DEF x
    <3> QED BY <3>1, <3>2 DEF x
  <2>3. \A k \in 0..n : k \in I
    <3> HIDE DEF I
    <3> QED BY <2>1, <2>2, Upwards
  <2>4. n \in 0..n
    OBVIOUS
  <2> QED BY <2>3, <2>4
<1>11. factorial \in [Nat -> Nat \ {0}]
  <2>1. factorial = [k \in Nat |-> factorial[k]]
    BY <1>8
  <2> QED BY <1>10, <2>1
<1> QED BY <1>9, <1>11

LEMMA Distributes ==
  ASSUME NEW x \in Nat, NEW y \in Nat, NEW d \in Nat
  PROVE  d * (x + y) = d * x + d * y /\ (x + y) * d = x * d + y * d
OBVIOUS

LEMMA Regroups ==
  ASSUME NEW x \in Nat, NEW y \in Nat, NEW d \in Nat
  PROVE  x * (y * d) = (x * y) * d /\ x * y = y * x /\ x * y \in Nat
OBVIOUS

LEMMA Grows ==
  ASSUME NEW x \in Nat, NEW y \in Nat, x <= y, NEW d \in Nat
  PROVE  d * x <= d * y
OBVIOUS

LEMMA Divides ==
  ASSUME NEW d \in Nat \ {0}, NEW x \in Nat
  PROVE  (d * x) \div d = x
OBVIOUS

LEMMA Positive ==
  ASSUME NEW d \in Nat \ {0}, NEW x \in Nat \ {0}
  PROVE  d * x \in Nat \ {0}
OBVIOUS

(* Pascal's rule, before the division.                                      *)
LEMMA OneMoreInRow ==
  ASSUME NEW r \in Nat, NEW k \in Nat, NEW f1 \in Nat, NEW f \in Nat, f = r * f1,
         NEW g1 \in Nat, NEW g \in Nat, g = k * g1, NEW x \in Nat, NEW b1 \in Nat, NEW b2 \in Nat,
         x = (f1 * g) * b1, x = (f * g1) * b2
  PROVE  (r + k) * x = (f * g) * (b1 + b2)
<1>1. (r + k) * x = r * x + k * x
  BY Distributes
<1>2. r * x = (f * g) * b1
  <2>1. f1 * g \in Nat
    BY Regroups
  <2>2. r * x = (r * (f1 * g)) * b1
    BY <2>1, Regroups
  <2>3. r * (f1 * g) = f * g
    BY Regroups
  <2> QED BY <2>2, <2>3
<1>3. k * x = (f * g) * b2
  <2>1. f * g1 \in Nat /\ f * g1 = g1 * f
    BY Regroups
  <2>2. k * x = (k * (f * g1)) * b2
    BY <2>1, Regroups
  <2>3. k * (g1 * f) = g * f /\ g * f = f * g
    BY Regroups
  <2> QED BY <2>1, <2>2, <2>3
<1>4. f * g \in Nat
  BY Regroups
<1>5. (f * g) * (b1 + b2) = (f * g) * b1 + (f * g) * b2
  BY <1>4, Distributes
<1> QED BY <1>1, <1>2, <1>3, <1>5

Rows(r, k) == choose(r + k, k)

LEMMA RowsMeaning ==
  \A r, k \in Nat : /\ Rows(r, k) \in Nat \ {0}
                    /\ factorial[r + k] = (factorial[r] * factorial[k]) * Rows(r, k)
                    /\ r = 0 \/ k = 0 => Rows(r, k) = 1
                    /\ r # 0 /\ k # 0 => Rows(r, k) = Rows(r - 1, k) + Rows(r, k - 1)
<1> DEFINE F(k) == factorial[k]
           Row(r, k, x) == F(r + k) = (F(r) * F(k)) * x
<1>1. /\ \A k \in Nat : F(k) \in Nat \ {0}
      /\ F(0) = 1 /\ \A k \in Nat \ {0} : F(k) = k * F(k - 1)
  BY FactorialMeaning
<1> HIDE DEF F
<1>2. ASSUME NEW r \in Nat, NEW k \in Nat, r = 0 \/ k = 0 PROVE Row(r, k, 1)
  <2>1. CASE r = 0
    <3>1. r + k = k /\ F(r) = 1 /\ F(k) \in Nat
      BY <1>1, <2>1
    <3> DEFINE f == F(k)
    <3> HIDE DEF f
    <3>2. f = (1 * f) * 1
      BY <3>1 DEF f
    <3> QED BY <3>1, <3>2 DEF f
  <2>2. CASE k = 0
    <3>1. r + k = r /\ F(k) = 1 /\ F(r) \in Nat
      BY <1>1, <2>2
    <3> DEFINE f == F(r)
    <3> HIDE DEF f
    <3>2. f = (f * 1) * 1
      BY <3>1 DEF f
    <3> QED BY <3>1, <3>2 DEF f
  <2> QED BY <1>2, <2>1, <2>2
<1>3. ASSUME NEW r \in Nat \ {0}, NEW k \in Nat \ {0}, NEW b1 \in Nat, NEW b2 \in Nat,
             Row(r - 1, k, b1), Row(r, k - 1, b2)
      PROVE  Row(r, k, b1 + b2)
  <2>1. /\ r - 1 \in Nat /\ k - 1 \in Nat /\ r + k \in Nat \ {0} /\ r \in Nat /\ k \in Nat
        /\ (r - 1) + k = (r + k) - 1 /\ r + (k - 1) = (r + k) - 1 /\ (r + k) - 1 \in Nat
    OBVIOUS
  <2> DEFINE f1 == F(r - 1)
             f == F(r)
             g1 == F(k - 1)
             g == F(k)
             x == F((r + k) - 1)
  <2>2. /\ f1 \in Nat /\ f \in Nat /\ g1 \in Nat /\ g \in Nat /\ x \in Nat
        /\ f = r * f1 /\ g = k * g1 /\ F(r + k) = (r + k) * x
    BY <1>1, <2>1
  <2>3. x = (f1 * g) * b1 /\ x = (f * g1) * b2
    BY <1>3, <2>1
  <2> HIDE DEF f1, f, g1, g, x
  <2>4. (r + k) * x = (f * g) * (b1 + b2)
    BY <2>1, <2>2, <2>3, OneMoreInRow
  <2> QED BY <2>2, <2>4 DEF f, g
<1>4. ASSUME NEW r \in Nat, NEW k \in Nat PROVE \E x \in Nat \ {0} : Row(r, k, x)
  <2> DEFINE I == {n \in 0..(r + k) : \A i, j \in Nat :
                     i + j = n => \E x \in Nat \ {0} : Row(i, j, x)}
  <2>1. 0 \in I
    <3>1. ASSUME NEW i \in Nat, NEW j \in Nat, i + j = 0 PROVE \E x \in Nat \ {0} : Row(i, j, x)
      <4>1. i = 0
        BY <3>1
      <4>2. Row(i, j, 1)
        BY <1>2, <4>1
      <4> HIDE DEF Row
      <4> QED BY <4>2
    <3>2. 0 \in 0..(r + k)
      OBVIOUS
    <3> HIDE DEF Row
    <3> QED BY <3>1, <3>2
  <2>2. ASSUME NEW n \in 1..(r + k), n - 1 \in I PROVE n \in I
    <3>1. ASSUME NEW i \in Nat, NEW j \in Nat, i + j = n PROVE \E x \in Nat \ {0} : Row(i, j, x)
      <4>1. CASE i = 0 \/ j = 0
        <5>1. Row(i, j, 1)
          BY <1>2, <4>1
        <5> HIDE DEF Row
        <5> QED BY <5>1
      <4>2. CASE i # 0 /\ j # 0
        <5> DEFINE i1 == i - 1
                   j1 == j - 1
        <5>1. i1 \in Nat /\ j1 \in Nat /\ i1 + j = n - 1 /\ i + j1 = n - 1
              /\ i \in Nat \ {0} /\ j \in Nat \ {0}
          BY <3>1, <4>2
        <5>2. \A h, l \in Nat : h + l = n - 1 => \E x \in Nat \ {0} : Row(h, l, x)
          BY <2>2
        <5> HIDE DEF Row, i1, j1
        <5>3. PICK x \in Nat \ {0} : Row(i1, j, x)
          BY <5>1, <5>2
        <5>4. PICK y \in Nat \ {0} : Row(i, j1, y)
          BY <5>1, <5>2
        <5>5. x \in Nat /\ y \in Nat
          OBVIOUS
        <5>6. Row(i, j, x + y)
          BY <1>3, <5>1, <5>3, <5>4, <5>5 DEF i1, j1
        <5>7. x + y \in Nat \ {0}
          OBVIOUS
        <5> QED BY <5>6, <5>7
      <4> QED BY <4>1, <4>2
    <3>2. n \in 0..(r + k)
      OBVIOUS
    <3> HIDE DEF Row
    <3> QED BY <3>1, <3>2
  <2>3. r + k \in Nat
    OBVIOUS
  <2>4. r + k \in I
    <3> DEFINE n == r + k
    <3>1. n \in 0..n
      BY <2>3
    <3>2. \A h \in 0..n : h \in I
      <4> HIDE DEF I, n
      <4> QED BY <2>1, <2>2, <2>3, Upwards DEF n
    <3> HIDE DEF I
    <3> QED BY <3>1, <3>2
  <2> HIDE DEF Row
  <2> QED BY <2>4
<1>5. ASSUME NEW r \in Nat, NEW k \in Nat, NEW x \in Nat, Row(r, k, x) PROVE Rows(r, k) = x
  <2>1. (r + k) - k = r
    OBVIOUS
  <2>2. choose(r + k, k) = F(r + k) \div (F(k) * F(r))
    BY <2>1 DEF choose, F
  <2> DEFINE f == F(r)
             g == F(k)
             d == f * g
  <2>3. f \in Nat \ {0} /\ g \in Nat \ {0}
    BY <1>1
  <2>4. d \in Nat \ {0} /\ f * g = g * f
    <3> HIDE DEF f, g
    <3> QED BY <2>3, Positive, Regroups
  <2>5. F(r + k) = d * x
    BY <1>5
  <2>6. choose(r + k, k) = F(r + k) \div (g * f)
    BY <2>2
  <2> HIDE DEF f, g
  <2>7. choose(r + k, k) = F(r + k) \div d
    BY <2>4, <2>6
  <2> HIDE DEF d
  <2>8. (d * x) \div d = x
    BY <2>4, Divides
  <2> QED BY <2>5, <2>7, <2>8 DEF Rows
<1>6. ASSUME NEW r \in Nat, NEW k \in Nat PROVE Rows(r, k) \in Nat \ {0} /\ Row(r, k, Rows(r, k))
  <2>1. PICK x \in Nat \ {0} : Row(r, k, x)
    BY <1>4
  <2>2. x \in Nat
    OBVIOUS
  <2> HIDE DEF Row
  <2>3. Rows(r, k) = x
    BY <1>5, <2>1, <2>2
  <2> QED BY <2>1, <2>3
<1>7. ASSUME NEW r \in Nat, NEW k \in Nat, r = 0 \/ k = 0 PROVE Rows(r, k) = 1
  BY <1>2, <1>5, <1>7
<1>8. ASSUME NEW r \in Nat, NEW k \in Nat, r # 0, k # 0
      PROVE  Rows(r, k) = Rows(r - 1, k) + Rows(r, k - 1)
  <2> DEFINE r1 == r - 1
             k1 == k - 1
  <2>1. r1 \in Nat /\ k1 \in Nat /\ r \in Nat \ {0} /\ k \in Nat \ {0}
    BY <1>8
  <2> HIDE DEF Row, r1, k1
  <2>2. /\ Rows(r1, k) \in Nat /\ Row(r1, k, Rows(r1, k))
        /\ Rows(r, k1) \in Nat /\ Row(r, k1, Rows(r, k1))
    BY <1>6, <2>1
  <2>3. Row(r, k, Rows(r1, k) + Rows(r, k1))
    BY <1>3, <2>1, <2>2 DEF r1, k1
  <2>4. Rows(r1, k) + Rows(r, k1) \in Nat
    BY <2>2
  <2>5. Rows(r, k) = Rows(r1, k) + Rows(r, k1)
    BY <1>5, <2>3, <2>4
  <2> QED BY <2>5 DEF r1, k1
<1> QED BY <1>6, <1>7, <1>8 DEF F

------------------------------------------------------------------------------
(* How long matches_parts takes. *)

(* The "**" from the i-th segment of the pattern on. *)
Stars(P, i) == Cardinality({x \in i..Len(P) : P[x] = ANY_DEPTH})

LEMMA StarsMeaning ==
  ASSUME NEW P \in Seq(Seq(Characters)), NEW i \in 1..(Len(P) + 1)
  PROVE  /\ Stars(P, i) \in Nat
         /\ i = Len(P) + 1 => Stars(P, i) = 0
         /\ i <= Len(P) =>
              Stars(P, i) = IF P[i] = ANY_DEPTH THEN Stars(P, i + 1) + 1 ELSE Stars(P, i + 1)
<1> DEFINE n == Len(P)
           these == {x \in i..n : P[x] = ANY_DEPTH}
           others == {x \in (i + 1)..n : P[x] = ANY_DEPTH}
<1>1. n \in Nat /\ i \in Int /\ i + 1 \in Int
  OBVIOUS
<1> HIDE DEF n
<1>2. IsFiniteSet(these) /\ IsFiniteSet(others)
  <2>1. IsFiniteSet(i..n) /\ IsFiniteSet((i + 1)..n)
    <3>1. \A x, y \in Int : IsFiniteSet(x..y)
      BY FS_Interval
    <3> DEFINE next == i + 1
    <3>2. next \in Int /\ n \in Int
      BY <1>1
    <3> HIDE DEF next
    <3>3. IsFiniteSet(i..n) /\ IsFiniteSet(next..n)
      BY <1>1, <3>1, <3>2
    <3> QED BY <3>3 DEF next
  <2>2. these \in SUBSET (i..n) /\ others \in SUBSET ((i + 1)..n)
    OBVIOUS
  <2> HIDE DEF these, others
  <2> QED BY <2>1, <2>2, FS_Subset
<1>3. i = n + 1 => these = {}
  BY <1>1
<1>4. i <= n => these = IF P[i] = ANY_DEPTH THEN others \cup {i} ELSE others
  <2>1. SUFFICES ASSUME i <= n
                 PROVE  these = IF P[i] = ANY_DEPTH THEN others \cup {i} ELSE others
    OBVIOUS
  <2>2. i..n = {i} \cup ((i + 1)..n)
    BY <1>1, <2>1
  <2> QED BY <2>2
<1>5. i \notin others
  BY <1>1
<1>6. Stars(P, i) = Cardinality(these) /\ Stars(P, i + 1) = Cardinality(others)
  BY DEF Stars, n
<1> HIDE DEF these, others
<1>7. Cardinality(these) \in Nat
  BY <1>2, FS_CardinalityType
<1>8. these = {} => Cardinality(these) = 0
  BY FS_EmptySet
<1>9. Cardinality(others \cup {i}) = Cardinality(others) + 1
  BY <1>2, <1>5, FS_AddElement
<1> QED BY <1>3, <1>4, <1>6, <1>7, <1>8, <1>9 DEF n

(* A call at a "**" makes two, which share the bound as Pascal's rule says.  *)
LEMMA TwoCalls ==
  ASSUME NEW rest \in Nat, NEW past \in Nat \ {0}, NEW more \in Nat,
         NEW c1 \in Nat, c1 <= rest * past, NEW c2 \in Nat, c2 <= (rest + 1) * more,
         NEW calls \in Nat, calls <= 1 + c1 + c2
  PROVE  calls <= (rest + 1) * (past + more)
<1>1. (rest + 1) * (past + more) = (rest + 1) * past + (rest + 1) * more
  BY Distributes
<1>2. (rest + 1) * past = rest * past + past
  BY Distributes
<1>3. rest * past \in Nat /\ (rest + 1) * more \in Nat
  BY Regroups
<1> DEFINE x == rest * past
           y == (rest + 1) * more
           z == (rest + 1) * past
           w == (rest + 1) * (past + more)
<1>4. w = z + y /\ z = x + past /\ x \in Nat /\ y \in Nat /\ c1 <= x /\ c2 <= y
  BY <1>1, <1>2, <1>3
<1> HIDE DEF x, y, z, w
<1>5. calls <= w
  BY <1>4
<1> QED BY <1>5 DEF w

(* Any other makes at most one. *)
LEMMA OneCall ==
  ASSUME NEW rest \in Nat, NEW less \in Nat, NEW bound \in Nat \ {0}, less <= bound,
         NEW c \in Nat, c <= rest * less, NEW calls \in Nat, calls <= 1 + c
  PROVE  calls <= (rest + 1) * bound
<1>1. rest * less <= rest * bound
  BY Grows
<1>2. (rest + 1) * bound = rest * bound + bound
  BY Distributes
<1>3. rest * less \in Nat /\ rest * bound \in Nat
  BY Regroups
<1> DEFINE x == rest * less
           y == rest * bound
           w == (rest + 1) * bound
<1>4. w = y + bound /\ x <= y /\ c <= x /\ x \in Nat /\ y \in Nat
  BY <1>1, <1>2, <1>3
<1> HIDE DEF x, y, w
<1>5. calls <= w
  BY <1>4
<1> QED BY <1>5 DEF w

(* What one call costs if those it makes keep within the bound. *)
Within(match, i, j, P, S) ==
  match[<<i, j>>].calls <= (Len(P) + 2 - i) * Rows(Len(S) + 1 - j, Stars(P, i))

LEMMA CallIsBounded ==
  ASSUME NEW P \in Seq(Seq(Characters)), NEW S \in Seq(Seq(Characters)),
         NEW match \in [Places(P, S) -> Results], Matches(match, P, S),
         NEW i \in 1..(Len(P) + 1), NEW j \in 1..(Len(S) + 1),
         i <= Len(P) => Within(match, i + 1, j, P, S),
         i <= Len(P) /\ j <= Len(S) => /\ Within(match, i, j + 1, P, S)
                                       /\ Within(match, i + 1, j + 1, P, S)
  PROVE  Within(match, i, j, P, S)
<1> DEFINE n == Len(P)
           m == Len(S)
           k == Stars(P, i)
           r == m + 1 - j
           rest == n + 1 - i
           calls == match[<<i, j>>].calls
           bound == Rows(r, k)
<1>1. n \in Nat /\ m \in Nat
  OBVIOUS
<1>2. Call(match[<<i, j>>], match, i, j, P, S)
  BY DEF Matches
<1>3. /\ k \in Nat
      /\ i = n + 1 => k = 0
      /\ i <= n => k = IF P[i] = ANY_DEPTH THEN Stars(P, i + 1) + 1 ELSE Stars(P, i + 1)
  BY StarsMeaning
<1>4. i <= n => Stars(P, i + 1) \in Nat
  <2> DEFINE next == i + 1
  <2>1. i <= n => next \in 1..(Len(P) + 1)
    BY <1>1
  <2> HIDE DEF next
  <2>2. i <= n => Stars(P, next) \in Nat
    BY <2>1, StarsMeaning
  <2> QED BY <2>2 DEF next
<1>5. calls \in Nat
  <2>1. <<i, j>> \in Places(P, S)
    BY DEF Places
  <2> QED BY <2>1 DEF Results
<1>6. /\ i <= n => match[<<i + 1, j>>].calls \in Nat
      /\ i <= n /\ j <= m => match[<<i, j + 1>>].calls \in Nat /\ match[<<i + 1, j + 1>>].calls \in Nat
  <2>1. /\ i <= n => <<i + 1, j>> \in Places(P, S)
        /\ i <= n /\ j <= m => <<i, j + 1>> \in Places(P, S) /\ <<i + 1, j + 1>> \in Places(P, S)
    BY AheadIsRank
  <2> QED BY <2>1 DEF Results
<1> HIDE DEF n, m
<1>7. /\ r \in Nat /\ (j = m + 1 <=> r = 0) /\ (j = m + 1 \/ j <= m) /\ (i = n + 1 \/ i <= n)
      /\ rest \in Nat /\ n + 2 - i = rest + 1 /\ n + 2 - (i + 1) = rest /\ m + 1 - (j + 1) = r - 1
      /\ (j <= m => r # 0 /\ r - 1 \in Nat)
  BY <1>1 DEF n, m
<1> HIDE DEF r, rest, k, calls
<1>8. bound \in Nat \ {0}
  BY <1>3, <1>7, RowsMeaning
<1>9. (rest + 1) * bound \in Nat \ {0}
  <2> HIDE DEF bound
  <2> QED BY <1>7, <1>8, Positive
<1>10. SUFFICES calls <= (rest + 1) * bound
  BY <1>7 DEF Within, n, m, r, k, calls
<1>11. CASE i = n + 1
  <2>1. calls = 1
    BY <1>2, <1>11 DEF Call, n, calls
  <2> DEFINE w == (rest + 1) * bound
  <2> HIDE DEF w
  <2>2. w \in Nat \ {0}
    BY <1>9 DEF w
  <2> QED BY <2>1, <2>2 DEF w
<1>12. CASE i <= n /\ P[i] = ANY_DEPTH
  <2> DEFINE k1 == Stars(P, i + 1)
             c1 == match[<<i + 1, j>>].calls
             past == Rows(r, k1)
  <2>1. k1 \in Nat /\ k = k1 + 1 /\ c1 \in Nat
    BY <1>3, <1>4, <1>6, <1>12
  <2>2. c1 <= rest * past
    BY <1>7, <1>12 DEF Within, n, m, r
  <2>3. past \in Nat \ {0}
    <3> HIDE DEF k1
    <3> QED BY <1>7, <2>1, RowsMeaning
  <2>4. CASE j = m + 1
    <3>1. calls = 1 + c1
      BY <1>2, <1>12, <2>4 DEF Call, n, m, calls
    <3>2. past = 1 /\ bound = 1
      <4> HIDE DEF k1
      <4> QED BY <1>3, <1>7, <2>1, <2>4, RowsMeaning
    <3>3. past \in Nat /\ past <= bound /\ calls <= 1 + c1
      <4> HIDE DEF past, bound, c1
      <4> QED BY <2>1, <3>1, <3>2
    <3> HIDE DEF past, bound, c1, k1
    <3> QED BY <1>5, <1>7, <1>8, <2>1, <2>2, <3>3, OneCall
  <2>5. CASE j <= m
    <3> DEFINE r1 == r - 1
               c2 == match[<<i, j + 1>>].calls
               more == Rows(r1, k)
    <3>1. c2 \in Nat /\ r1 \in Nat /\ r # 0
      BY <1>6, <1>7, <1>12, <2>5
    <3>2. c2 <= (rest + 1) * more
      BY <1>7, <1>12, <2>5 DEF Within, n, m, r, k
    <3>3. calls <= 1 + c1 + c2
      BY <1>2, <1>12, <2>5 DEF Call, n, m, calls
    <3>4. k # 0 /\ k - 1 = k1
      <4> HIDE DEF k1
      <4> QED BY <2>1
    <3>5. bound = more + past
      <4>1. bound = Rows(r - 1, k) + Rows(r, k - 1)
        BY <1>3, <1>7, <3>1, <3>4, RowsMeaning
      <4> HIDE DEF k1
      <4> QED BY <3>4, <4>1
    <3>6. more \in Nat
      <4> HIDE DEF r1
      <4> QED BY <1>3, <3>1, RowsMeaning
    <3> HIDE DEF past, bound, more, c1, c2, k1, r1
    <3>7. calls <= (rest + 1) * (past + more)
      BY <1>5, <1>7, <2>1, <2>2, <2>3, <3>1, <3>2, <3>3, <3>6, TwoCalls
    <3>8. bound = past + more
      BY <2>3, <3>5, <3>6
    <3> QED BY <3>7, <3>8
  <2> QED BY <1>7, <2>4, <2>5
<1>13. CASE i <= n /\ P[i] # ANY_DEPTH
  <2>1. Stars(P, i + 1) = k
    BY <1>3, <1>13
  <2>2. CASE j = m + 1
    <3>1. calls = 1
      BY <1>2, <1>13, <2>2 DEF Call, n, m, calls
    <3> DEFINE w == (rest + 1) * bound
    <3> HIDE DEF w
    <3>2. w \in Nat \ {0}
      BY <1>9 DEF w
    <3> QED BY <3>1, <3>2 DEF w
  <2>3. CASE j <= m
    <3> DEFINE r1 == r - 1
               c == match[<<i + 1, j + 1>>].calls
               less == Rows(r1, k)
    <3>1. c \in Nat /\ r1 \in Nat /\ r # 0
      BY <1>6, <1>7, <1>13, <2>3
    <3>2. c <= rest * less
      BY <1>7, <1>13, <2>1, <2>3 DEF Within, n, m, r
    <3>3. calls <= 1 + c
      BY <1>2, <1>13, <2>3 DEF Call, n, m, calls
    <3>4. less \in Nat /\ less <= bound
      <4>1. less \in Nat \ {0}
        <5> HIDE DEF r1
        <5> QED BY <1>3, <3>1, RowsMeaning
      <4>2. CASE k = 0
        <5>1. less = 1 /\ bound = 1
          <6> HIDE DEF r1
          <6> QED BY <1>3, <1>7, <3>1, <4>2, RowsMeaning
        <5> HIDE DEF less, bound
        <5> QED BY <5>1
      <4>3. CASE k # 0
        <5> DEFINE k1 == k - 1
                   past == Rows(r, k1)
        <5>1. k1 \in Nat
          BY <1>3, <4>3
        <5>2. past \in Nat
          <6> HIDE DEF k1
          <6> QED BY <1>7, <5>1, RowsMeaning
        <5>3. bound = less + past
          BY <1>3, <1>7, <3>1, <4>3, RowsMeaning
        <5> HIDE DEF less, bound, past
        <5> QED BY <4>1, <5>2, <5>3
      <4> QED BY <4>2, <4>3
    <3> HIDE DEF less, bound, c, r1
    <3> QED BY <1>5, <1>7, <1>8, <3>1, <3>2, <3>3, <3>4, OneCall
  <2> QED BY <1>7, <2>2, <2>3
<1> QED BY <1>7, <1>11, <1>12, <1>13

LEMMA SearchBounded ==
  ASSUME NEW P \in Seq(Seq(Characters)), NEW S \in Seq(Seq(Characters))
  PROVE  search(P, S).calls <= (Len(P) + 1) * Rows(Len(S), Stars(P, 1))
<1> DEFINE n == Len(P)
           m == Len(S)
           D == Places(P, S)
           rank == Ahead(P, S)
<1>1. PICK match : /\ match \in [D -> Results] /\ Matches(match, P, S)
                   /\ search(P, S) = match[<<1, 1>>]
  BY SearchMeaning
<1> DEFINE J == {at \in D : Within(match, at[1], at[2], P, S)}
<1>2. /\ n \in Nat /\ m \in Nat /\ n + m \in Nat /\ Ranked(rank, D, n + m)
      /\ \A i \in 1..(n + 1), j \in 1..(m + 1) :
           /\ <<i, j>> \in D
           /\ i <= n => <<i + 1, j>> \in D /\ rank[<<i + 1, j>>] < rank[<<i, j>>]
           /\ j <= m => <<i, j + 1>> \in D /\ rank[<<i, j + 1>>] < rank[<<i, j>>]
           /\ i <= n /\ j <= m =>
                <<i + 1, j + 1>> \in D /\ rank[<<i + 1, j + 1>>] < rank[<<i, j>>]
  BY AheadIsRank
<1>3. ASSUME NEW at \in D, \A c \in D : rank[c] < rank[at] => c \in J PROVE at \in J
  <2>1. PICK i \in 1..(n + 1), j \in 1..(m + 1) : at = <<i, j>>
    BY DEF Places
  <2>2. /\ i <= n => <<i + 1, j>> \in J
        /\ j <= m => <<i, j + 1>> \in J
        /\ i <= n /\ j <= m => <<i + 1, j + 1>> \in J
    <3> HIDE DEF D, rank, J, n, m
    <3> QED BY <1>2, <1>3, <2>1
  <2>3. Within(match, i, j, P, S)
    <3> HIDE DEF D
    <3> QED BY <1>1, <2>2, CallIsBounded DEF D
  <2> HIDE DEF D
  <2> QED BY <2>1, <2>3
<1>4. <<1, 1>> \in J
  <2>1. \A at \in D : at \in J
    <3> HIDE DEF D, J, rank, n, m
    <3> QED BY <1>2, <1>3, RankInduction
  <2>2. <<1, 1>> \in D
    <3>1. 1 \in 1..(n + 1) /\ 1 \in 1..(m + 1)
      BY <1>2
    <3> QED BY <3>1 DEF Places
  <2> HIDE DEF J, D
  <2> QED BY <2>1, <2>2
<1>5. Within(match, 1, 1, P, S)
  BY <1>4
<1>6. n + 2 - 1 = n + 1 /\ m + 1 - 1 = m
  <2> HIDE DEF n, m
  <2> QED BY <1>2
<1> QED BY <1>1, <1>5, <1>6 DEF Within

------------------------------------------------------------------------------
(* split_path. *)
Kept(parts, part) == IF part = <<>> THEN parts ELSE Append(parts, part)

Segments(P) ==
  {parts \in Seq(Seq(Characters)) :
     \A i \in 1..Len(parts) : parts[i] # <<>> /\ \E k \in 1..Len(P) : parts[i] = P[k]}

LEMMA SplitPathInTurns ==
  ASSUME NEW P \in Seq(Seq(Characters))
  PROVE  \E parts \in [0..Len(P) -> Segments(P)] :
           /\ parts[0] = <<>>
           /\ \A k \in 1..Len(P) : parts[k] = Kept(parts[k - 1], P[k])
           /\ split_path(P) = parts[Len(P)]
<1> DEFINE n == Len(P)
           V == Segments(P)
           base == <<>>
           step == [at \in V \X (1..n) |-> Kept(at[1], P[at[2]])]
           iter == CHOOSE f : f = [s \in SUBSET DOMAIN P |->
                     IF s = {} THEN <<>> ELSE Kept(f[s \ {Max(s)}], P[Max(s)])]
           parts == [k \in 0..n |-> iter[1..k]]
<1>1. n \in Nat /\ DOMAIN P = 1..n /\ \A k \in 1..n : P[k] \in Seq(Characters)
  OBVIOUS
<1>2. base \in V
  BY DEF Segments
<1>3. StepOn(step, n, V)
  <2>1. ASSUME NEW v \in V, NEW k \in 1..n PROVE Kept(v, P[k]) \in V
    <3>1. v \in Seq(Seq(Characters)) /\ P[k] \in Seq(Characters)
      BY <1>1 DEF Segments
    <3>2. CASE P[k] # <<>>
      <4> DEFINE new == Append(v, P[k])
      <4>1. /\ new \in Seq(Seq(Characters)) /\ Len(new) = Len(v) + 1 /\ new[Len(v) + 1] = P[k]
            /\ \A i \in 1..Len(v) : new[i] = v[i]
            /\ \A i \in 1..Len(new) : i \in 1..Len(v) \/ i = Len(v) + 1
        BY <3>1
      <4> HIDE DEF new
      <4>2. new \in Segments(P)
        BY <3>2, <4>1 DEF Segments
      <4> QED BY <3>2, <4>2 DEF Kept, new
    <3>3. CASE P[k] = <<>>
      BY <3>3 DEF Kept
    <3> QED BY <3>2, <3>3
  <2> HIDE DEF V, n
  <2> QED BY <2>1 DEF StepOn
<1>4. PICK g : Folds(g, n, V, base, step)
  <2> HIDE DEF n, V, base, step
  <2> QED BY <1>1, <1>2, <1>3, FoldExists
<1>5. \A v \in V, k \in 1..n : step[<<v, k>>] = Kept(v, P[k])
  OBVIOUS
<1>6. g = [s \in SUBSET DOMAIN P |-> IF s = {} THEN <<>> ELSE Kept(g[s \ {Max(s)}], P[Max(s)])]
  <2>1. ASSUME NEW s \in SUBSET (1..n), s # {}
        PROVE  g[s] = Kept(g[s \ {Max(s)}], P[Max(s)])
    <3>1. g[s \ {Max(s)}] \in V /\ Max(s) \in 1..n
      BY <1>4, <2>1 DEF Folds
    <3> HIDE DEF step, V, n
    <3> QED BY <1>4, <1>5, <2>1, <3>1 DEF Folds
  <2> HIDE DEF step, V
  <2> QED BY <1>1, <1>4, <2>1 DEF Folds
<1>7. iter = [s \in SUBSET DOMAIN P |->
                IF s = {} THEN <<>> ELSE Kept(iter[s \ {Max(s)}], P[Max(s)])]
  BY <1>6
<1>8. Iterates(iter, n, V, base, step)
  <2>1. ASSUME NEW s \in SUBSET (1..n), s # {}, iter[s \ {Max(s)}] \in V
        PROVE  iter[s] = step[<<iter[s \ {Max(s)}], Max(s)>>]
    <3>1. Max(s) \in 1..n
      BY <1>4, <2>1 DEF Folds
    <3>2. iter[s] = Kept(iter[s \ {Max(s)}], P[Max(s)])
      <4> HIDE DEF iter
      <4> QED BY <1>1, <1>7, <2>1
    <3> HIDE DEF iter, step, V, n
    <3> QED BY <1>5, <2>1, <3>1, <3>2
  <2>2. iter[{}] = base
    <3> HIDE DEF iter
    <3> QED BY <1>7
  <2> HIDE DEF iter, step, V, n, base
  <2> QED BY <2>1, <2>2 DEF Iterates
<1>9. Turns(iter, n, V, base, step)
  <2> HIDE DEF iter, n, V, base, step
  <2> QED BY <1>1, <1>2, <1>3, <1>8, FoldInTurns
<1>10. split_path(P) = iter[1..n]
  BY <1>1 DEF split_path, FoldLeft, MapThenFoldSet, Kept
<1>11. parts \in [0..n -> V] /\ parts[0] = base /\ parts[n] = iter[1..n]
  <2> HIDE DEF iter, V, n, step, base
  <2> QED BY <1>1, <1>9 DEF Turns
<1>12. ASSUME NEW k \in 1..n PROVE parts[k] = Kept(parts[k - 1], P[k])
  <2>1. k - 1 \in 0..n /\ k \in 0..n
    BY <1>1
  <2>2. iter[1..k] = step[<<iter[1..(k - 1)], k>>] /\ iter[1..(k - 1)] \in V
    <3> HIDE DEF iter, V, n, step, base
    <3> QED BY <1>9, <2>1 DEF Turns
  <2> HIDE DEF iter, V, n, step
  <2> QED BY <1>5, <2>1, <2>2
<1> HIDE DEF iter, parts
<1> QED BY <1>10, <1>11, <1>12

LEMMA SplitPathMeaning ==
  ASSUME NEW P \in Seq(Seq(Characters))
  PROVE  /\ split_path(P) \in Seq(Seq(Characters))
         /\ \A i \in 1..Len(split_path(P)) : \E k \in 1..Len(P) : split_path(P)[i] = P[k]
         /\ P \in {<< <<>>, ANY_DEPTH >>, << ANY_DEPTH >>} => split_path(P) = << ANY_DEPTH >>
<1> DEFINE n == Len(P)
<1>1. PICK parts \in [0..n -> Segments(P)] :
        /\ parts[0] = <<>>
        /\ \A k \in 1..n : parts[k] = Kept(parts[k - 1], P[k])
        /\ split_path(P) = parts[n]
  BY SplitPathInTurns
<1>2. split_path(P) \in Segments(P)
  BY <1>1
<1>3. ANY_DEPTH # <<>>
  <2>1. Len(ANY_DEPTH) = 2
    BY DEF ANY_DEPTH
  <2> QED BY <2>1
<1>4. Append(<<>>, ANY_DEPTH) = << ANY_DEPTH >>
  OBVIOUS
<1>5. CASE P = << <<>>, ANY_DEPTH >>
  <2>1. n = 2 /\ P[1] = <<>> /\ P[2] = ANY_DEPTH
    BY <1>5
  <2>2. parts[1] = Kept(parts[0], P[1]) /\ parts[2] = Kept(parts[1], P[2])
    <3>1. 1 \in 1..2 /\ 2 \in 1..2 /\ 1 - 1 = 0 /\ 2 - 1 = 1
      OBVIOUS
    <3> HIDE DEF n
    <3> QED BY <1>1, <2>1, <3>1
  <2>3. parts[1] = <<>> /\ parts[2] = << ANY_DEPTH >>
    BY <1>1, <1>3, <1>4, <2>1, <2>2 DEF Kept
  <2> QED BY <1>1, <1>2, <2>1, <2>3 DEF Segments
<1>6. CASE P = << ANY_DEPTH >>
  <2>1. n = 1 /\ P[1] = ANY_DEPTH
    BY <1>6
  <2>2. parts[1] = Kept(parts[0], P[1])
    <3>1. 1 \in 1..1 /\ 1 - 1 = 0
      OBVIOUS
    <3> HIDE DEF n
    <3> QED BY <1>1, <2>1, <3>1
  <2>3. parts[1] = << ANY_DEPTH >>
    BY <1>1, <1>3, <1>4, <2>1, <2>2 DEF Kept
  <2> QED BY <1>1, <1>2, <2>1, <2>3 DEF Segments
<1> QED BY <1>2, <1>5, <1>6 DEF Segments

------------------------------------------------------------------------------
(* The shortcuts. *)

(* Equal paths match by the general rules. *)
LEMMA SearchSame ==
  ASSUME NEW S \in Seq(Seq(Characters))
  PROVE  search(S, S).matched
<1> DEFINE n == Len(S)
<1>1. PICK match : /\ match \in [Places(S, S) -> Results] /\ Matches(match, S, S)
                   /\ search(S, S) = match[<<1, 1>>]
  BY SearchMeaning
<1>2. n \in Nat
  OBVIOUS
<1> DEFINE I == {k \in 0..n : match[<<k + 1, k + 1>>].matched}
<1>3. \A i \in 1..(n + 1), j \in 1..(n + 1) : Call(match[<<i, j>>], match, i, j, S, S)
  BY <1>1 DEF Matches
<1>4. n \in I
  <2> DEFINE i == n + 1
  <2>1. i \in 1..(n + 1) /\ i = n + 1 /\ n \in 0..n
    BY <1>2
  <2> HIDE DEF i
  <2>2. match[<<i, i>>].matched
    BY <1>3, <2>1 DEF Call
  <2> QED BY <2>1, <2>2 DEF i
<1>5. ASSUME NEW k \in 0..(n - 1), k + 1 \in I PROVE k \in I
  <2> DEFINE i == k + 1
  <2>1. i \in 1..(n + 1) /\ i \in 1..n /\ i <= n /\ i + 1 \in 1..(n + 1) /\ k \in 0..n
    BY <1>2
  <2>2. match[<<i + 1, i + 1>>].matched
    BY <1>5
  <2> HIDE DEF i, n
  <2>3. Call(match[<<i, i>>], match, i, i, S, S) /\ Call(match[<<i, i + 1>>], match, i, i + 1, S, S)
    BY <1>3, <2>1
  <2>4. match[<<i, i>>].matched
    <3>1. CASE S[i] = ANY_DEPTH
      <4>1. match[<<i, i + 1>>].matched
        BY <2>1, <2>2, <2>3, <3>1 DEF Call, n
      <4> QED BY <2>1, <2>3, <3>1, <4>1 DEF Call, n
    <3>2. CASE S[i] # ANY_DEPTH
      <4>1. segment_matches(S[i], S[i])
        BY DEF segment_matches
      <4> QED BY <2>1, <2>2, <2>3, <3>2, <4>1 DEF Call, n
    <3> QED BY <3>1, <3>2
  <2> QED BY <2>1, <2>4 DEF i
<1>6. 0 \in I
  <2>1. \A k \in 0..n : k \in I
    <3> HIDE DEF I, n
    <3> QED BY <1>2, <1>4, <1>5, Downwards
  <2>2. 0 \in 0..n
    BY <1>2
  <2> HIDE DEF I
  <2> QED BY <2>1, <2>2
<1> QED BY <1>1, <1>6

(* A single "**" matches every path by the general rules. *)
LEMMA SearchAnyDepth ==
  ASSUME NEW P \in Seq(Seq(Characters)), P = << ANY_DEPTH >>, NEW S \in Seq(Seq(Characters))
  PROVE  search(P, S).matched
<1> DEFINE m == Len(S)
<1>1. PICK match : /\ match \in [Places(P, S) -> Results] /\ Matches(match, P, S)
                   /\ search(P, S) = match[<<1, 1>>]
  BY SearchMeaning
<1>2. m \in Nat /\ Len(P) = 1 /\ P[1] = ANY_DEPTH
  OBVIOUS
<1> DEFINE I == {k \in 0..m : match[<<1, k + 1>>].matched}
<1>3. \A i \in 1..2, j \in 1..(m + 1) : Call(match[<<i, j>>], match, i, j, P, S)
  <2>1. 1..(Len(P) + 1) = 1..2
    BY <1>2
  <2> QED BY <1>1, <2>1 DEF Matches
<1>4. m \in I
  <2> DEFINE j == m + 1
  <2>1. j \in 1..(m + 1) /\ j = m + 1 /\ m \in 0..m
    BY <1>2
  <2> HIDE DEF j
  <2>2. match[<<2, j>>].matched
    <3>1. 2 \in 1..2 /\ 2 = Len(P) + 1
      BY <1>2
    <3> QED BY <1>3, <2>1, <3>1 DEF Call
  <2>3. match[<<1, j>>].matched
    <3> DEFINE i == 1
    <3>1. i \in 1..2 /\ i <= Len(P) /\ i + 1 = 2 /\ P[i] = ANY_DEPTH
      BY <1>2
    <3> HIDE DEF i
    <3>2. match[<<i + 1, j>>].matched
      BY <2>2, <3>1
    <3>3. match[<<i, j>>].matched
      BY <1>3, <2>1, <3>1, <3>2 DEF Call
    <3> QED BY <3>3 DEF i
  <2> QED BY <2>1, <2>3 DEF j
<1>5. ASSUME NEW k \in 0..(m - 1), k + 1 \in I PROVE k \in I
  <2> DEFINE j == k + 1
  <2>1. j \in 1..(m + 1) /\ j <= m /\ k \in 0..m
    BY <1>2
  <2>2. match[<<1, j + 1>>].matched
    BY <1>5
  <2> HIDE DEF j
  <2>3. match[<<1, j>>].matched
    <3>1. 1 \in 1..2 /\ 1 <= Len(P)
      BY <1>2
    <3> QED BY <1>2, <1>3, <2>1, <2>2, <3>1 DEF Call
  <2> QED BY <2>1, <2>3 DEF j
<1>6. 0 \in I
  <2>1. \A k \in 0..m : k \in I
    <3> HIDE DEF I, m
    <3> QED BY <1>2, <1>4, <1>5, Downwards
  <2>2. 0 \in 0..m
    BY <1>2
  <2> HIDE DEF I
  <2> QED BY <2>1, <2>2
<1> QED BY <1>1, <1>6

------------------------------------------------------------------------------
(* The theorems. *)

Evaluated ==
  /\ pattern \in Seq(Seq(Characters)) /\ path \in Seq(Seq(Characters))
  /\ matched = Pending \/ matched = path_matches(pattern, path)

LEMMA EvaluatedAlways == Spec => []Evaluated
<1>1. Init => Evaluated
  BY CasesAssumption DEF Init, Evaluated
<1>2. Evaluated /\ [Evaluate]_vars => Evaluated'
  <2>1. ASSUME Evaluated, UNCHANGED vars PROVE Evaluated'
    BY <2>1 DEF Evaluated, vars
  <2>2. ASSUME Evaluated, Evaluate PROVE Evaluated'
    BY <2>2 DEF Evaluated, Evaluate
  <2> QED BY <2>1, <2>2
<1> QED BY <1>1, <1>2, PTL DEF Spec

(* The shortcuts give what the general rules give. *)
LEMMA ShortcutsMeaning ==
  ASSUME NEW P \in Seq(Seq(Characters)), NEW S \in Seq(Seq(Characters))
  PROVE  /\ path_matches(P, S) <=> search(split_path(P), split_path(S)).matched
         /\ search(split_path(P), split_path(S)).matched \in BOOLEAN
<1>1. split_path(P) \in Seq(Seq(Characters)) /\ split_path(S) \in Seq(Seq(Characters))
  BY SplitPathMeaning
<1>2. P = S => search(split_path(P), split_path(S)).matched
  BY <1>1, SearchSame
<1>3. P \in {<< <<>>, ANY_DEPTH >>, << ANY_DEPTH >>} => search(split_path(P), split_path(S)).matched
  BY <1>1, SearchAnyDepth, SplitPathMeaning
<1>4. search(split_path(P), split_path(S)).matched \in BOOLEAN
  <2>1. PICK match \in [Places(split_path(P), split_path(S)) -> Results] :
          search(split_path(P), split_path(S)) = match[<<1, 1>>]
    BY <1>1, SearchMeaning
  <2>2. <<1, 1>> \in Places(split_path(P), split_path(S))
    <3>1. Len(split_path(P)) \in Nat /\ Len(split_path(S)) \in Nat
      BY <1>1
    <3> QED BY <3>1 DEF Places
  <2> QED BY <2>1, <2>2 DEF Results
<1>5. path_matches(P, S) <=> \/ P \in {S, << <<>>, ANY_DEPTH >>, << ANY_DEPTH >>}
                             \/ search(split_path(P), split_path(S)).matched
  BY DEF path_matches, matches_parts
<1> QED BY <1>2, <1>3, <1>4, <1>5

(* The shortcuts of path_matches (policy.rs:117) only save work.             *)
THEOREM ShortcutsOnlySaveWork == Spec => []ShortcutsAgree
<1>1. Evaluated => ShortcutsAgree
  <2> SUFFICES ASSUME Evaluated, matched # Pending
               PROVE  matched = matches_parts(split_path(pattern), split_path(path))
    BY DEF ShortcutsAgree
  <2>1. pattern \in Seq(Seq(Characters)) /\ path \in Seq(Seq(Characters))
        /\ matched = path_matches(pattern, path)
    BY DEF Evaluated
  <2> DEFINE found == search(split_path(pattern), split_path(path)).matched
  <2>2. (path_matches(pattern, path) <=> found) /\ found \in BOOLEAN
    BY <2>1, ShortcutsMeaning
  <2>3. path_matches(pattern, path) \in BOOLEAN
    BY DEF path_matches
  <2>4. path_matches(pattern, path) = found
    <3> HIDE DEF found
    <3> QED BY <2>2, <2>3
  <2> QED BY <2>1, <2>4 DEF matches_parts
<1> QED BY <1>1, EvaluatedAlways, PTL

(* A path is taken for a match only if the wildcards can be filled in to     *)
(* give it (policy.rs:116-185): whatever stretches the loop takes first,   *)
(* and however often matches_parts goes back at a "**".                    *)
THEOREM MatchesAreSound == Spec => []MatchIsSound
<1>1. Evaluated => MatchIsSound
  <2> SUFFICES ASSUME Evaluated, matched = TRUE PROVE Denotes(pattern, path)
    BY DEF MatchIsSound
  <2> DEFINE P == split_path(pattern)
             S == split_path(path)
  <2>1. pattern \in Seq(Seq(Characters)) /\ path \in Seq(Seq(Characters))
        /\ path_matches(pattern, path)
    BY PendingAssumption DEF Evaluated
  <2>2. search(P, S).matched
    BY <2>1, ShortcutsMeaning
  <2>3. P \in Seq(Seq(Characters)) /\ S \in Seq(Seq(Characters))
    BY <2>1, SplitPathMeaning
  <2> HIDE DEF P, S
  <2>4. PICK owner : Owns(owner, 1, 1, P, S)
    BY <2>2, <2>3, SearchSound
  <2>5. DOMAIN P = 1..Len(P) /\ DOMAIN S = 1..Len(S)
    BY <2>3
  <2>6. /\ owner \in [DOMAIN S -> DOMAIN P]
        /\ \A j, k \in DOMAIN S : j <= k => owner[j] <= owner[k]
        /\ \A i \in DOMAIN P : P[i] # ANY_DEPTH =>
             \E j \in DOMAIN S : Glob(P[i], S[j]) /\ \A k \in DOMAIN S : owner[k] = i <=> k = j
    BY <2>4, <2>5 DEF Owns
  <2> QED BY <2>6 DEF Denotes, P, S
<1> QED BY <1>1, EvaluatedAlways, PTL


(* A path the wildcards can be filled in to give is only missed where text   *)
(* after the last star of a segment occurs more than once (policy.rs:161-  *)
(* 185): taking a stretch where it occurs first never spoils a match but   *)
(* there, and matches_parts leaves no way to give the segments untried.    *)
THEOREM MatchesAreComplete == Spec => []MatchIsComplete
<1>1. Evaluated => MatchIsComplete
  <2> DEFINE P == split_path(pattern)
             S == split_path(path)
             Once(p, s) == Contains(p, Star) /\ Suffix(p) # <<>> =>
                             \A o1, o2 \in Occurrences(Suffix(p), s) : o1 = o2
  <2> SUFFICES ASSUME Evaluated, matched # Pending, Denotes(pattern, path),
                      \A i \in DOMAIN pattern, j \in DOMAIN path : Once(pattern[i], path[j])
               PROVE  matched
    BY DEF MatchIsComplete
  <2>1. pattern \in Seq(Seq(Characters)) /\ path \in Seq(Seq(Characters))
        /\ matched = path_matches(pattern, path)
    BY DEF Evaluated
  <2>2. /\ P \in Seq(Seq(Characters)) /\ S \in Seq(Seq(Characters))
        /\ \A i \in 1..Len(P) : \E k \in 1..Len(pattern) : P[i] = pattern[k]
        /\ \A j \in 1..Len(S) : \E k \in 1..Len(path) : S[j] = path[k]
    BY <2>1, SplitPathMeaning
  <2>3. PICK owner \in [DOMAIN S -> DOMAIN P] :
          /\ \A j, k \in DOMAIN S : j <= k => owner[j] <= owner[k]
          /\ \A i \in DOMAIN P : P[i] # ANY_DEPTH =>
               \E j \in DOMAIN S : Glob(P[i], S[j]) /\ \A k \in DOMAIN S : owner[k] = i <=> k = j
    BY DEF Denotes
  <2> HIDE DEF P, S, Once
  <2>4. Owns(owner, 1, 1, P, S)
    <3>1. DOMAIN P = 1..Len(P) /\ DOMAIN S = 1..Len(S)
      BY <2>2
    <3> QED BY <2>3, <3>1 DEF Owns
  <2>5. ASSUME NEW i \in 1..Len(P), NEW j \in 1..Len(S), Glob(P[i], S[j])
        PROVE  segment_matches(P[i], S[j])
    <3>1. Once(P[i], S[j])
      <4>1. DOMAIN pattern = 1..Len(pattern) /\ DOMAIN path = 1..Len(path)
        BY <2>1
      <4>2. PICK x \in 1..Len(pattern) : P[i] = pattern[x]
        BY <2>2
      <4>3. PICK y \in 1..Len(path) : S[j] = path[y]
        BY <2>2
      <4>4. Once(pattern[x], path[y])
        BY <4>1
      <4> QED BY <4>2, <4>3, <4>4
    <3>2. P[i] \in Seq(Characters) /\ S[j] \in Seq(Characters)
      BY <2>2
    <3> QED BY <2>5, <3>1, <3>2, SegmentComplete DEF Once
  <2>6. search(P, S).matched
    BY <2>2, <2>4, <2>5, SearchComplete
  <2> QED BY <2>1, <2>6, ShortcutsMeaning DEF P, S
<1> QED BY <1>1, EvaluatedAlways, PTL


(* The calls of matches_parts are at most one more than the segments of the   *)
(* pattern times the ways to put the "**" among the segments of the path    *)
(* (policy.rs:137-143): with one "**" this is the product of the lengths,   *)
(* as ARCHITECTURE.md:475 has it, with more of them it is not.             *)
THEOREM SearchesAreBounded == Spec => []SearchIsBounded
<1>1. Evaluated => SearchIsBounded
  <2> DEFINE P == split_path(pattern)
             S == split_path(path)
             k == Cardinality({i \in DOMAIN P : P[i] = ANY_DEPTH})
  <2> SUFFICES ASSUME Evaluated
               PROVE  search(P, S).calls <= (Len(P) + 1) * choose(Len(S) + k, k)
    BY DEF SearchIsBounded
  <2>1. P \in Seq(Seq(Characters)) /\ S \in Seq(Seq(Characters))
    BY SplitPathMeaning DEF Evaluated
  <2>2. k = Stars(P, 1)
    <3>1. DOMAIN P = 1..Len(P)
      BY <2>1
    <3> HIDE DEF P
    <3> QED BY <3>1 DEF Stars
  <2> HIDE DEF P, S, k
  <2> QED BY <2>1, <2>2, SearchBounded DEF Rows
<1> QED BY <1>1, EvaluatedAlways, PTL

==============================================================================
