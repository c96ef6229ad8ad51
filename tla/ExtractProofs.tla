----------------------------- MODULE ExtractProofs -----------------------------
(***************************************************************************)
(* What Extract's pipeline keeps of a conversation, for any words, texts,  *)
(* arrays of the model and replies of the embedder.                        *)
(***************************************************************************)
EXTENDS Extract, SequenceTheorems, FiniteSetTheorems, WellFoundedInduction, TLAPS

-----------------------------------------------------------------------------
(* Induction on the natural numbers, from the least one outside a set.      *)

LEMMA LeastOf == ASSUME NEW T \in SUBSET Nat, T # {} PROVE \E x \in T : \A y \in T : x <= y
<1>1. PICK x \in T : \A y \in T : <<y, x>> \notin OpToRel(<, Nat)
  BY WFMin, NatLessThanWellFounded
<1>2. \A y \in T : ~(y < x)
  BY <1>1 DEF OpToRel
<1>3. x \in Nat /\ \A y \in T : y \in Nat
  OBVIOUS
<1>4. \A y \in T : x <= y
  BY <1>2, <1>3
<1> QED BY <1>4

LEMMA NatAll ==
    ASSUME NEW T, 0 \in T, \A n \in Nat : n \in T => n + 1 \in T
    PROVE  \A n \in Nat : n \in T
<1> SUFFICES ASSUME Nat \ T # {} PROVE FALSE
  OBVIOUS
<1>1. PICK x \in Nat \ T : \A y \in Nat \ T : x <= y
  BY LeastOf
<1>2. x # 0 /\ x - 1 \in Nat /\ ~(x <= x - 1)
  BY <1>1
<1>3. x - 1 \in T
  BY <1>1, <1>2
<1> QED BY <1>1, <1>2, <1>3

-----------------------------------------------------------------------------
(* The one pass of isOrderedSubsequence finds places for the words.  FoldLeft *)
(* is unfolded into the recursive function its definition chooses.            *)

Match(inner, i, word) == IF i < Len(inner) /\ inner[i + 1] = word THEN i + 1 ELSE i
IsPass(inner, outer, it) ==
    it = [s \in SUBSET DOMAIN outer |->
             IF s = {} THEN 0 ELSE Match(inner, it[s \ {Max(s)}], outer[Max(s)])]
Pass(inner, outer) == CHOOSE it : IsPass(inner, outer, it)

LEMMA OnePass ==
    ASSUME NEW inner, NEW outer
    PROVE  IsOrderedSubsequence(inner, outer) <=> Pass(inner, outer)[DOMAIN outer] = Len(inner)
BY DEF IsOrderedSubsequence, FoldLeft, MapThenFoldSet, Pass, IsPass, Match

LEMMA MaxOf ==
    ASSUME NEW n \in Nat, NEW s \in SUBSET (1..n), s # {}
    PROVE  Max(s) \in s /\ \A x \in s : x <= Max(s)
<1> DEFINE T == {n - x : x \in s}
<1>1. T \in SUBSET Nat /\ T # {}
  <2>1. \A x \in s : x \in 1..n
    OBVIOUS
  <2> QED BY <2>1
<1>2. PICK y \in T : \A z \in T : y <= z
  <2> HIDE DEF T
  <2> QED BY <1>1, LeastOf
<1>3. PICK x \in s : y = n - x
  OBVIOUS
<1>4. ASSUME NEW z \in s PROVE x >= z
  <2>1. n - x <= n - z
    BY <1>2, <1>3
  <2>2. x \in Int /\ z \in Int
    OBVIOUS
  <2> QED BY <2>1, <2>2
<1> QED BY <1>4 DEF Max

LEMMA WithoutMax ==
    ASSUME NEW n \in Nat, NEW s \in SUBSET (1..(n + 1)), s # {}
    PROVE  s \ {Max(s)} \in SUBSET (1..n)
<1>1. n + 1 \in Nat
  OBVIOUS
<1>2. Max(s) \in s /\ \A x \in s : x <= Max(s)
  BY <1>1, MaxOf
<1>3. ASSUME NEW x \in s \ {Max(s)} PROVE x \in 1..n
  <2>1. x \in 1..(n + 1) /\ Max(s) \in 1..(n + 1) /\ x <= Max(s) /\ x # Max(s)
    BY <1>2
  <2> QED BY <2>1
<1> QED BY <1>3

LEMMA PassExists ==
    ASSUME NEW inner, NEW outer, NEW n \in Nat, DOMAIN outer = 1..n
    PROVE  IsPass(inner, outer, Pass(inner, outer))
<1> DEFINE Step(f, s) == IF s = {} THEN 0 ELSE Match(inner, f[s \ {Max(s)}], outer[Max(s)])
           T == {k \in Nat : \E f : f = [s \in SUBSET (1..k) |-> Step(f, s)]}
<1>1. 0 \in T
  <2> DEFINE f == [s \in SUBSET (1..0) |-> 0]
  <2>1. f = [s \in SUBSET (1..0) |-> Step(f, s)]
    OBVIOUS
  <2> QED BY <2>1
<1>2. ASSUME NEW k \in Nat, k \in T PROVE k + 1 \in T
  <2>1. PICK f : f = [s \in SUBSET (1..k) |-> Step(f, s)]
    BY <1>2
  <2> DEFINE h == [s \in SUBSET (1..(k + 1)) |-> Step(f, s)]
  <2>2. ASSUME NEW s \in SUBSET (1..k) PROVE s \in SUBSET (1..(k + 1)) /\ h[s] = f[s]
    <3>1. s \in SUBSET (1..(k + 1))
      OBVIOUS
    <3>2. h[s] = Step(f, s)
      BY <3>1
    <3>3. f[s] = Step(f, s)
      <4> HIDE DEF Step
      <4> QED BY <2>1
    <3> QED BY <3>1, <3>2, <3>3
  <2>3. \A s \in SUBSET (1..(k + 1)) : Step(f, s) = Step(h, s)
    <3> HIDE DEF h
    <3> QED BY <2>2, WithoutMax
  <2>4. h = [s \in SUBSET (1..(k + 1)) |-> Step(h, s)]
    <3> HIDE DEF Step
    <3> QED BY <2>3
  <2> HIDE DEF Step, h
  <2> QED BY <2>4
<1>3. n \in T
  <2> HIDE DEF T
  <2> QED BY <1>1, <1>2, NatAll
<1>4. \E it : IsPass(inner, outer, it)
  BY <1>3 DEF IsPass
<1> QED BY <1>4 DEF Pass

LEMMA PassSteps ==
    ASSUME NEW inner, NEW outer, NEW n \in Nat, DOMAIN outer = 1..n
    PROVE  /\ Pass(inner, outer)[1..0] = 0
           /\ \A k \in 0..(n - 1) :
                Pass(inner, outer)[1..(k + 1)] = Match(inner, Pass(inner, outer)[1..k], outer[k + 1])
<1> DEFINE it == Pass(inner, outer)
<1>1. it = [s \in SUBSET (1..n) |-> IF s = {} THEN 0 ELSE Match(inner, it[s \ {Max(s)}], outer[Max(s)])]
  <2>1. IsPass(inner, outer, it)
    BY PassExists
  <2> HIDE DEF it
  <2> QED BY <2>1 DEF IsPass
<1> HIDE DEF it
<1>2. it[{}] = 0
  BY <1>1
<1>3. ASSUME NEW k \in 0..(n - 1) PROVE it[1..(k + 1)] = Match(inner, it[1..k], outer[k + 1])
  <2>1. Max(1..(k + 1)) \in 1..(k + 1) /\ \A x \in 1..(k + 1) : x <= Max(1..(k + 1))
    <3>1. k + 1 \in Nat /\ k + 1 \in 1..(k + 1)
      OBVIOUS
    <3> QED BY <3>1, MaxOf
  <2>2. Max(1..(k + 1)) = k + 1
    BY <2>1
  <2>3. (1..(k + 1)) \ {k + 1} = 1..k /\ 1..(k + 1) # {} /\ 1..(k + 1) \in SUBSET (1..n)
    OBVIOUS
  <2> QED BY <1>1, <2>2, <2>3
<1> QED BY <1>2, <1>3 DEF it

\* Places among the first k words of outer for the first n of inner.
Placed(n, k, inner, outer) ==
    \E place \in [1..n -> 1..k] :
        /\ \A i \in 1..n : outer[place[i]] = inner[i]
        /\ \A i, j \in 1..n : i < j => place[i] < place[j]

LEMMA PlacedStep ==
    ASSUME NEW inner, NEW outer, NEW n \in Nat, NEW k \in Nat, Placed(n, k, inner, outer)
    PROVE  /\ Placed(n, k + 1, inner, outer)
           /\ inner[n + 1] = outer[k + 1] => Placed(n + 1, k + 1, inner, outer)
<1>1. PICK place \in [1..n -> 1..k] :
        /\ \A i \in 1..n : outer[place[i]] = inner[i]
        /\ \A i, j \in 1..n : i < j => place[i] < place[j]
  BY DEF Placed
<1>2. place \in [1..n -> 1..(k + 1)]
  BY <1>1
<1>3. ASSUME inner[n + 1] = outer[k + 1] PROVE Placed(n + 1, k + 1, inner, outer)
  <2> DEFINE more == [i \in 1..(n + 1) |-> IF i = n + 1 THEN k + 1 ELSE place[i]]
  <2>1. more \in [1..(n + 1) -> 1..(k + 1)]
    BY <1>1
  <2>2. \A i \in 1..(n + 1) : outer[more[i]] = inner[i]
    BY <1>1, <1>3
  <2>3. \A i, j \in 1..(n + 1) : i < j => more[i] < more[j]
    BY <1>1
  <2> HIDE DEF more
  <2> QED BY <2>1, <2>2, <2>3 DEF Placed
<1> QED BY <1>1, <1>2, <1>3 DEF Placed

LEMMA OrderedIsPlaced ==
    ASSUME NEW inner \in Seq(Words), NEW outer \in Seq(Words), IsOrderedSubsequence(inner, outer)
    PROVE  Placed(Len(inner), Len(outer), inner, outer)
<1> DEFINE n == Len(outer)
           m(k) == Pass(inner, outer)[1..k]
           T == {k \in Nat : k <= n => m(k) \in 0..Len(inner) /\ Placed(m(k), k, inner, outer)}
<1>1. n \in Nat /\ DOMAIN outer = 1..n /\ Len(inner) \in Nat
  BY LenProperties
<1>2. m(0) = 0 /\ \A k \in 0..(n - 1) : m(k + 1) = Match(inner, m(k), outer[k + 1])
  BY <1>1, PassSteps
<1> HIDE DEF m, n
<1>3. 0 \in T
  <2>1. Placed(0, 0, inner, outer)
    <3> DEFINE none == [i \in 1..0 |-> 1]
    <3>1. 1..0 = {}
      OBVIOUS
    <3>2. none \in [1..0 -> 1..0]
      BY <3>1
    <3> QED BY <3>1, <3>2 DEF Placed
  <2> QED BY <1>1, <1>2, <2>1
<1>4. ASSUME NEW k \in Nat, k \in T PROVE k + 1 \in T
  <2>1. SUFFICES ASSUME k + 1 <= n
                 PROVE  m(k + 1) \in 0..Len(inner) /\ Placed(m(k + 1), k + 1, inner, outer)
    OBVIOUS
  <2>2. m(k) \in 0..Len(inner) /\ Placed(m(k), k, inner, outer) /\ k \in 0..(n - 1)
    BY <1>1, <1>4, <2>1
  <2>3. m(k + 1) = Match(inner, m(k), outer[k + 1])
    BY <1>2, <2>2
  <2>4. /\ Placed(m(k), k + 1, inner, outer)
        /\ inner[m(k) + 1] = outer[k + 1] => Placed(m(k) + 1, k + 1, inner, outer)
    BY <1>1, <2>2, PlacedStep
  <2> QED BY <1>1, <2>2, <2>3, <2>4 DEF Match
<1>5. n \in T
  <2> HIDE DEF T
  <2> QED BY <1>1, <1>3, <1>4, NatAll
<1>6. m(n) = Len(inner)
  BY <1>1, OnePass DEF m
<1> QED BY <1>1, <1>5, <1>6 DEF n

\* ... and misses no choice of places: it has matched a word once it is past the
\* word's place in any of them.
LEMMA PlacedIsOrdered ==
    ASSUME NEW inner \in Seq(Words), NEW outer \in Seq(Words),
           Placed(Len(inner), Len(outer), inner, outer)
    PROVE  IsOrderedSubsequence(inner, outer)
<1> DEFINE n == Len(outer)
           l == Len(inner)
           m(k) == Pass(inner, outer)[1..k]
<1>1. n \in Nat /\ l \in Nat /\ DOMAIN outer = 1..n
  BY LenProperties
<1>2. m(0) = 0 /\ \A k \in 0..(n - 1) : m(k + 1) = Match(inner, m(k), outer[k + 1])
  BY <1>1, PassSteps
<1>3. PICK place \in [1..l -> 1..n] :
         /\ \A i \in 1..l : outer[place[i]] = inner[i]
         /\ \A i, j \in 1..l : i < j => place[i] < place[j]
  BY DEF Placed
<1> DEFINE T == {k \in Nat : k <= n => m(k) \in 0..l /\ \A i \in 1..l : place[i] <= k => i <= m(k)}
<1> HIDE DEF m, n, l
<1>4. 0 \in T
  BY <1>1, <1>2, <1>3
<1>5. ASSUME NEW k \in Nat, k \in T PROVE k + 1 \in T
  <2>1. SUFFICES ASSUME k + 1 <= n
                 PROVE  m(k + 1) \in 0..l /\ \A i \in 1..l : place[i] <= k + 1 => i <= m(k + 1)
    OBVIOUS
  <2>2. m(k) \in 0..l /\ (\A i \in 1..l : place[i] <= k => i <= m(k)) /\ k \in 0..(n - 1)
    BY <1>1, <1>5, <2>1
  <2>3. m(k + 1) = IF m(k) < l /\ inner[m(k) + 1] = outer[k + 1] THEN m(k) + 1 ELSE m(k)
    BY <1>2, <2>2 DEF Match, l
  <2>4. ASSUME NEW i \in 1..l, place[i] <= k + 1 PROVE i <= m(k + 1)
    <3>1. CASE place[i] <= k
      BY <1>1, <2>2, <2>3, <3>1
    <3>2. CASE place[i] = k + 1 /\ i <= m(k)
      BY <1>1, <2>2, <2>3, <3>2
    <3>3. CASE place[i] = k + 1 /\ ~(i <= m(k))
      <4>1. i - 1 <= m(k)
        <5>1. CASE i = 1
          BY <2>2, <5>1
        <5>2. CASE i # 1
          <6>1. i - 1 \in 1..l /\ i - 1 < i
            BY <1>1, <5>2
          <6>2. place[i - 1] < place[i] /\ place[i - 1] \in 1..n
            BY <1>3, <6>1
          <6>3. place[i - 1] <= k
            BY <1>1, <3>3, <6>2
          <6> QED BY <2>2, <6>1, <6>3
        <5> QED BY <5>1, <5>2
      <4>2. m(k) = i - 1
        <5>1. m(k) \in Int /\ i \in Int
          BY <1>1, <2>2
        <5> QED BY <3>3, <4>1, <5>1
      <4>3. inner[i] = outer[k + 1]
        BY <1>3, <3>3
      <4> QED BY <1>1, <2>3, <4>2, <4>3
    <3>4. place[i] \in 1..n
      BY <1>3
    <3> QED BY <1>1, <2>4, <3>1, <3>2, <3>3, <3>4
  <2>5. m(k + 1) \in 0..l
    BY <1>1, <2>2, <2>3
  <2> QED BY <2>4, <2>5
<1>6. n \in T
  <2> HIDE DEF T
  <2> QED BY <1>1, <1>4, <1>5, NatAll
<1>7. m(n) = l
  <2>1. m(n) \in 0..l /\ \A i \in 1..l : place[i] <= n => i <= m(n)
    BY <1>1, <1>6
  <2>2. l # 0 => l <= m(n)
    <3>1. l # 0 => l \in 1..l /\ place[l] \in 1..n
      BY <1>1, <1>3
    <3> QED BY <1>1, <2>1, <3>1
  <2> QED BY <1>1, <2>1, <2>2
<1> QED BY <1>1, <1>7, OnePass DEF m, l

-----------------------------------------------------------------------------
(* What folding keeps.  Says is a partial order, Subsumes finds only what it *)
(* holds of, and Merge of two memories says what both say.                   *)

LEMMA SaysItself == ASSUME NEW a \in Seq(Words) PROVE Says(a, a)
<1> DEFINE place == [i \in 1..Len(a) |-> i]
<1>1. place \in [1..Len(a) -> 1..Len(a)]
  OBVIOUS
<1>2. \A i \in 1..Len(a) : a[place[i]] = a[i]
  OBVIOUS
<1>3. \A i, j \in 1..Len(a) : i < j => place[i] < place[j]
  OBVIOUS
<1> HIDE DEF place
<1> QED BY <1>1, <1>2, <1>3 DEF Says

LEMMA SaysThrough ==
    ASSUME NEW a \in Seq(Words), NEW b \in Seq(Words), NEW c \in Seq(Words), Says(a, b), Says(b, c)
    PROVE  Says(a, c)
<1>1. PICK p \in [1..Len(b) -> 1..Len(a)] :
         (\A i \in 1..Len(b) : a[p[i]] = b[i]) /\ \A i, j \in 1..Len(b) : i < j => p[i] < p[j]
  BY DEF Says
<1>2. PICK q \in [1..Len(c) -> 1..Len(b)] :
         (\A i \in 1..Len(c) : b[q[i]] = c[i]) /\ \A i, j \in 1..Len(c) : i < j => q[i] < q[j]
  BY DEF Says
<1> DEFINE place == [i \in 1..Len(c) |-> p[q[i]]]
<1>3. place \in [1..Len(c) -> 1..Len(a)]
  BY <1>1, <1>2
<1>4. \A i \in 1..Len(c) : a[place[i]] = c[i]
  BY <1>1, <1>2
<1>5. \A i, j \in 1..Len(c) : i < j => place[i] < place[j]
  BY <1>1, <1>2
<1>6. (WordsOf(a) \cap Polar = {}) <=> (WordsOf(c) \cap Polar = {})
  BY DEF Says
<1> HIDE DEF place
<1> QED BY <1>3, <1>4, <1>5, <1>6 DEF Says

LEMMA SubsumesSays ==
    ASSUME NEW newer \in Seq(Words), NEW older \in Seq(Words)
    PROVE  /\ Subsumes(newer, older) \in {"NewSubsumesOld", "Equivalent"} => Says(newer, older)
           /\ Subsumes(newer, older) \in {"OldSubsumesNew", "Equivalent"} => Says(older, newer)
           /\ Subsumes(newer, older) \in {"NewSubsumesOld", "OldSubsumesNew", "Equivalent", "Distinct"}
<1>1. ASSUME NEW a \in Seq(Words), NEW b \in Seq(Words), IsOrderedSubsequence(b, a),
             HasPolarityMarker(a) = HasPolarityMarker(b)
      PROVE  Says(a, b)
  <2>1. Placed(Len(b), Len(a), b, a)
    BY <1>1, OrderedIsPlaced
  <2> QED BY <1>1, <2>1 DEF Says, Placed, HasPolarityMarker
<1> QED BY <1>1 DEF Subsumes

\* Increasing places go up at least as fast as the words they are for.
LEMMA PlacesClimb ==
    ASSUME NEW n \in Nat, NEW k \in Nat, NEW place \in [1..n -> 1..k],
           \A i, j \in 1..n : i < j => place[i] < place[j]
    PROVE  n <= k /\ (n = k => \A i \in 1..n : place[i] = i)
<1> DEFINE Up == {i \in Nat : i \in 1..n => i <= place[i]}
           Down == {d \in Nat : n - d \in 1..n => place[n - d] <= k - d}
<1>1. \A i \in 1..n : place[i] \in 1..k
  OBVIOUS
<1>2. \A i \in Nat : i \in Up
  <2>1. 0 \in Up
    OBVIOUS
  <2>2. ASSUME NEW i \in Nat, i \in Up PROVE i + 1 \in Up
    <3>1. SUFFICES ASSUME i + 1 \in 1..n PROVE i + 1 <= place[i + 1]
      OBVIOUS
    <3>2. CASE i = 0
      BY <1>1, <3>1, <3>2
    <3>3. CASE i # 0
      <4>1. i \in 1..n /\ i < i + 1
        BY <3>1, <3>3
      <4>2. i <= place[i] /\ place[i] < place[i + 1]
        BY <2>2, <3>1, <4>1
      <4> QED BY <1>1, <3>1, <4>1, <4>2
    <3> QED BY <3>2, <3>3
  <2> HIDE DEF Up
  <2> QED BY <2>1, <2>2, NatAll
<1>3. \A d \in Nat : d \in Down
  <2>1. 0 \in Down
    BY <1>1
  <2>2. ASSUME NEW d \in Nat, d \in Down PROVE d + 1 \in Down
    <3>1. SUFFICES ASSUME n - (d + 1) \in 1..n PROVE place[n - (d + 1)] <= k - (d + 1)
      OBVIOUS
    <3>2. n - d \in 1..n /\ n - (d + 1) < n - d
      BY <3>1
    <3>3. place[n - d] <= k - d /\ place[n - (d + 1)] < place[n - d]
      BY <2>2, <3>1, <3>2
    <3> QED BY <1>1, <3>1, <3>2, <3>3
  <2> HIDE DEF Down
  <2> QED BY <2>1, <2>2, NatAll
<1>4. n <= k
  <2>1. n # 0 => n \in 1..n
    OBVIOUS
  <2>2. n # 0 => n <= place[n]
    BY <1>2, <2>1
  <2> QED BY <1>1, <2>1, <2>2
<1>5. ASSUME n = k, NEW i \in 1..n PROVE place[i] = i
  <2>1. i <= place[i]
    BY <1>2
  <2>2. place[i] <= i
    <3>1. n - i \in Nat /\ n - (n - i) = i /\ k - (n - i) = i
      BY <1>5
    <3>2. n - i \in Down
      BY <1>3, <3>1
    <3> QED BY <3>1, <3>2
  <2> QED BY <1>1, <2>1, <2>2
<1> QED BY <1>4, <1>5

\* Two texts that say each other are the same, word for word.
LEMMA SaysEachOther ==
    ASSUME NEW a \in Seq(Words), NEW b \in Seq(Words), Says(a, b), Says(b, a)
    PROVE  a = b
<1> DEFINE l == Len(a)
           n == Len(b)
<1>1. l \in Nat /\ n \in Nat /\ a \in [1..l -> Words] /\ b \in [1..n -> Words]
  BY LenProperties
<1>2. PICK p \in [1..n -> 1..l] :
         (\A i \in 1..n : a[p[i]] = b[i]) /\ \A i, j \in 1..n : i < j => p[i] < p[j]
  BY DEF Says
<1>3. PICK r \in [1..l -> 1..n] : \A i, j \in 1..l : i < j => r[i] < r[j]
  BY DEF Says
<1> HIDE DEF l, n
<1>4. n <= l /\ l <= n
  BY <1>1, <1>2, <1>3, PlacesClimb
<1>5. l = n
  BY <1>1, <1>4
<1>6. \A i \in 1..n : p[i] = i
  BY <1>1, <1>2, <1>5, PlacesClimb
<1>7. \A i \in 1..n : a[i] = b[i]
  BY <1>2, <1>6
<1> QED BY <1>1, <1>5, <1>7

\* Of texts long enough to compare, Subsumes says exactly which carries which:
\* the one pass of isOrderedSubsequence misses nothing and finds nothing that is
\* not there, and texts are Equivalent only if they are the same tokens.
THEOREM SubsumesIsSaying ==
    ASSUME NEW newer \in Seq(Words), NEW older \in Seq(Words), ~TooShort(newer), ~TooShort(older)
    PROVE  /\ Subsumes(newer, older) \in {"NewSubsumesOld", "Equivalent"} <=> Says(newer, older)
           /\ Subsumes(newer, older) \in {"OldSubsumesNew", "Equivalent"} <=> Says(older, newer)
           /\ Subsumes(newer, older) = "Equivalent" <=> newer = older
<1>1. ASSUME NEW a \in Seq(Words), NEW b \in Seq(Words), Says(a, b)
      PROVE  IsOrderedSubsequence(b, a) /\ HasPolarityMarker(a) = HasPolarityMarker(b)
  <2>1. Placed(Len(b), Len(a), b, a)
    BY <1>1 DEF Says, Placed
  <2> QED BY <1>1, <2>1, PlacedIsOrdered DEF Says, HasPolarityMarker
<1>2. /\ Says(newer, older) =>
            IsOrderedSubsequence(older, newer) /\ HasPolarityMarker(newer) = HasPolarityMarker(older)
      /\ Says(older, newer) =>
            IsOrderedSubsequence(newer, older) /\ HasPolarityMarker(newer) = HasPolarityMarker(older)
  <2>1. Says(older, newer) => HasPolarityMarker(older) = HasPolarityMarker(newer)
    BY <1>1
  <2> QED BY <1>1, <2>1
<1>3. /\ Subsumes(newer, older) \in {"NewSubsumesOld", "Equivalent"} <=> Says(newer, older)
      /\ Subsumes(newer, older) \in {"OldSubsumesNew", "Equivalent"} <=> Says(older, newer)
  <2>1. Says(newer, older) => Subsumes(newer, older) \in {"NewSubsumesOld", "Equivalent"}
    BY <1>2 DEF Subsumes
  <2>2. Says(older, newer) => Subsumes(newer, older) \in {"OldSubsumesNew", "Equivalent"}
    BY <1>2 DEF Subsumes
  <2> QED BY <2>1, <2>2, SubsumesSays
<1>4. Subsumes(newer, older) = "Equivalent" <=> Says(newer, older) /\ Says(older, newer)
  BY <1>3, SubsumesSays
<1>5. Says(newer, older) /\ Says(older, newer) <=> newer = older
  BY SaysItself, SaysEachOther
<1> QED BY <1>3, <1>4, <1>5

\* What MemoryRepo assumes of Carries, which stands for it: a text carries
\* itself, and what is carried by what it carries.
THEOREM SayingIsAnOrder ==
    ASSUME Texts \subseteq Seq(Words)
    PROVE  /\ \A a \in Texts : Says(a, a)
           /\ \A a, b, c \in Texts : Says(a, b) /\ Says(b, c) => Says(a, c)
           /\ \A a, b \in Texts : Says(a, b) /\ Says(b, a) => a = b
<1>1. \A a \in Texts : a \in Seq(Words)
  OBVIOUS
<1> QED BY <1>1, SaysItself, SaysThrough, SaysEachOther

LEMMA MergeKeeps ==
    ASSUME FoldAssumption, NEW m \in Extracted, NEW k \in Extracted, FoldsInto(m, k)
    PROVE  /\ Merge(m, k) \in Extracted
           /\ Merge(m, k).tags = k.tags \cup m.tags
           /\ Stands(Merge(m, k), m) /\ Stands(Merge(m, k), k)
<1>1. m.content \in Seq(Words) /\ k.content \in Seq(Words) /\ m.content \in Texts /\ k.content \in Texts
  BY DEF FoldAssumption, Extracted
<1>2. k.type = m.type /\ Subsumes(m.content, k.content) # "Distinct"
  BY DEF FoldsInto
<1>3. CASE Subsumes(m.content, k.content) = "OldSubsumesNew"
  <2>1. Merge(m, k).content = k.content /\ Merge(m, k).type = k.type
    BY <1>3 DEF Merge, Extracted
  <2>2. Says(k.content, m.content) /\ Says(k.content, k.content)
    BY <1>1, <1>3, SubsumesSays, SaysItself
  <2> QED BY <1>1, <1>2, <2>1, <2>2 DEF Merge, Extracted, Stands
<1>4. CASE Subsumes(m.content, k.content) # "OldSubsumesNew"
  <2>1. Merge(m, k).content = m.content /\ Merge(m, k).type = k.type
    BY <1>4 DEF Merge, Extracted
  <2>2. Says(m.content, k.content) /\ Says(m.content, m.content)
    BY <1>1, <1>2, <1>4, SubsumesSays, SaysItself
  <2> QED BY <1>1, <1>2, <2>1, <2>2 DEF Merge, Extracted, Stands
<1> QED BY <1>3, <1>4

LEMMA StandsThrough ==
    ASSUME FoldAssumption, NEW a \in Extracted, NEW b \in Extracted, NEW c \in Extracted,
           Stands(a, b), Stands(b, c)
    PROVE  Stands(a, c)
<1>1. a.content \in Seq(Words) /\ b.content \in Seq(Words) /\ c.content \in Seq(Words)
  BY DEF FoldAssumption, Extracted
<1> QED BY <1>1, SaysThrough DEF Stands

LEMMA StandsForItself == ASSUME FoldAssumption, NEW a \in Extracted PROVE Stands(a, a)
BY SaysItself DEF FoldAssumption, Extracted, Stands
\* result is memories with m folded in.
Folded(m, memories, result) ==
    /\ result \in Seq(Extracted) /\ Len(result) <= Len(memories) + 1
    /\ \A i \in DOMAIN memories :
          i \in DOMAIN result /\ Stands(result[i], memories[i]) /\ memories[i].tags \subseteq result[i].tags
    /\ \E i \in DOMAIN result : Stands(result[i], m) /\ m.tags \subseteq result[i].tags
    /\ \A i \in DOMAIN result : \A tag \in result[i].tags :
          \/ i \in DOMAIN memories /\ tag \in memories[i].tags
          \/ tag \in m.tags /\ Stands(result[i], m)

LEMMA FoldInKeeps ==
    ASSUME FoldAssumption, NEW m \in Extracted, NEW memories \in Seq(Extracted)
    PROVE  Folded(m, memories, FoldIn(m, memories))
<1> USE DEF Folded
<1> DEFINE result == FoldIn(m, memories)
<1> DEFINE matches == {i \in DOMAIN memories : FoldsInto(m, memories[i])}
<1>1. Len(memories) \in Nat /\ DOMAIN memories = 1..Len(memories) /\ \A i \in 1..Len(memories) : memories[i] \in Extracted
  BY LenProperties, ElementOfSeq
<1>2. Stands(m, m) /\ \A i \in DOMAIN memories : Stands(memories[i], memories[i])
  BY <1>1, StandsForItself
<1>3. CASE matches = {}
  <2>1. result = Append(memories, m)
    BY <1>3 DEF FoldIn
  <2> HIDE DEF result
  <2>2. /\ result \in Seq(Extracted) /\ Len(result) = Len(memories) + 1
        /\ \A i \in 1..Len(memories) : result[i] = memories[i]
        /\ result[Len(memories) + 1] = m
    BY <2>1, AppendProperties
  <2>3. DOMAIN result = 1..(Len(memories) + 1)
    BY <2>2, LenProperties
  <2>4. Folded(m, memories, result)
    BY <1>1, <1>2, <2>2, <2>3
  <2> QED BY <2>4 DEF result
<1>4. CASE matches # {}
  <2> DEFINE first == CHOOSE i \in matches : \A j \in matches : i <= j
  <2>1. first \in matches
    <3>1. matches \in SUBSET Nat
      BY <1>1
    <3>2. \E i \in matches : \A j \in matches : i <= j
      <4> HIDE DEF matches
      <4> QED BY <1>4, <3>1, LeastOf
    <3> HIDE DEF matches
    <3> QED BY <3>2
  <2>2. result = [memories EXCEPT ![first] = Merge(m, memories[first])]
    BY <1>4 DEF FoldIn
  <2> HIDE DEF result
  <2> DEFINE merged == Merge(m, memories[first])
  <2>3. first \in 1..Len(memories) /\ memories[first] \in Extracted /\ FoldsInto(m, memories[first])
    BY <1>1, <2>1
  <2> HIDE DEF first, matches
  <2>4. /\ merged \in Extracted /\ merged.tags = memories[first].tags \cup m.tags
        /\ Stands(merged, m) /\ Stands(merged, memories[first])
    BY <2>3, MergeKeeps
  <2> HIDE DEF merged
  <2>5. result = [memories EXCEPT ![first] = merged]
    BY <2>2 DEF merged
  <2>6. /\ result \in Seq(Extracted) /\ Len(result) = Len(memories)
        /\ \A j \in 1..Len(memories) : result[j] = IF j = first THEN merged ELSE memories[j]
    BY <2>3, <2>4, <2>5, ExceptSeq
  <2>7. DOMAIN result = 1..Len(memories)
    BY <2>6, LenProperties
  <2>8. Folded(m, memories, result)
    BY <1>1, <1>2, <2>3, <2>4, <2>6, <2>7
  <2> QED BY <2>8 DEF result
<1> QED BY <1>3, <1>4

FoldInv ==
    /\ left \in Seq(Extracted) /\ kept \in Seq(Extracted) /\ taken \subseteq Extracted
    /\ NothingLost /\ TagsEarned

LEMMA TakeKeeps ==
    ASSUME FoldAssumption, FoldInv, Take
    PROVE  FoldInv' /\ Len(left') = Len(left) - 1 /\ Len(kept') <= Len(kept) + 1
<1> DEFINE m == Head(left)
<1>1. /\ left # <<>> /\ m \in Extracted /\ left' \in Seq(Extracted) /\ Len(left') = Len(left) - 1
      /\ taken' = taken \cup {m} /\ kept' = FoldIn(m, kept)
  BY HeadTailProperties DEF FoldInv, Take
<1> HIDE DEF m
<1>2. Folded(m, kept, kept')
  BY <1>1, FoldInKeeps DEF FoldInv
<1> USE DEF Folded
<1>3. /\ \A i \in DOMAIN kept : kept[i] \in Extracted
      /\ \A i \in DOMAIN kept' : kept'[i] \in Extracted
  BY <1>2, LenProperties, ElementOfSeq DEF FoldInv
<1>4. NothingLost'
  <2>1. ASSUME NEW o \in taken
        PROVE  \E i \in DOMAIN kept' : Stands(kept'[i], o) /\ o.tags \subseteq kept'[i].tags
    <3>1. PICK i \in DOMAIN kept : Stands(kept[i], o) /\ o.tags \subseteq kept[i].tags
      BY DEF FoldInv, NothingLost
    <3>2. o \in Extracted
      BY DEF FoldInv
    <3>3. Stands(kept'[i], o)
      BY <1>2, <1>3, <3>1, <3>2, StandsThrough
    <3> QED BY <1>2, <3>1, <3>3
  <2> QED BY <1>1, <1>2, <2>1 DEF NothingLost
<1>5. TagsEarned'
  <2>1. ASSUME NEW i \in DOMAIN kept', NEW tag \in kept'[i].tags
        PROVE  \E o \in taken' : tag \in o.tags /\ Stands(kept'[i], o)
    <3>1. CASE i \in DOMAIN kept /\ tag \in kept[i].tags
      <4>1. PICK o \in taken : tag \in o.tags /\ Stands(kept[i], o)
        BY <3>1 DEF FoldInv, TagsEarned
      <4>2. o \in Extracted
        BY DEF FoldInv
      <4>3. Stands(kept'[i], o)
        BY <1>2, <1>3, <3>1, <4>1, <4>2, StandsThrough
      <4> QED BY <1>1, <4>1, <4>3
    <3>2. CASE tag \in m.tags /\ Stands(kept'[i], m)
      BY <1>1, <3>2
    <3> QED BY <1>2, <3>1, <3>2
  <2> QED BY <2>1 DEF TagsEarned
<1> QED BY <1>1, <1>2, <1>4, <1>5 DEF FoldInv
-----------------------------------------------------------------------------
(* What the extractors give: parts of at most one memory each, joined.       *)

Joined(parts) ==
    CHOOSE f : f = [i \in 1..Len(parts) |-> IF i = 1 THEN parts[i] ELSE f[i - 1] \o parts[i]]

LEMMA JoinedSteps ==
    ASSUME NEW S, NEW parts \in Seq(S), Len(parts) # 0
    PROVE  /\ Joined(parts)[1] = parts[1]
           /\ \A i \in 1..(Len(parts) - 1) : Joined(parts)[i + 1] = Joined(parts)[i] \o parts[i + 1]
<1> DEFINE Step(f, i) == IF i = 1 THEN parts[i] ELSE f[i - 1] \o parts[i]
           T == {n \in Nat : \E f : f = [i \in 1..n |-> Step(f, i)]}
<1>1. 0 \in T
  <2> DEFINE f == [i \in 1..0 |-> 0]
  <2>1. f = [i \in 1..0 |-> Step(f, i)]
    OBVIOUS
  <2> QED BY <2>1
<1>2. ASSUME NEW n \in Nat, n \in T PROVE n + 1 \in T
  <2>1. PICK f : f = [i \in 1..n |-> Step(f, i)]
    BY <1>2
  <2> DEFINE h == [i \in 1..(n + 1) |-> Step(f, i)]
  <2>2. ASSUME NEW i \in 1..n PROVE h[i] = f[i]
    <3>1. h[i] = Step(f, i)
      OBVIOUS
    <3>2. f[i] = Step(f, i)
      <4> HIDE DEF Step
      <4> QED BY <2>1
    <3> QED BY <3>1, <3>2
  <2>3. ASSUME NEW i \in 1..(n + 1) PROVE Step(f, i) = Step(h, i)
    <3> HIDE DEF h
    <3>1. i = 1 \/ i - 1 \in 1..n
      OBVIOUS
    <3> QED BY <2>2, <3>1
  <2>4. h = [i \in 1..(n + 1) |-> Step(h, i)]
    <3> HIDE DEF Step
    <3> QED BY <2>3
  <2> HIDE DEF Step, h
  <2> QED BY <2>4
<1>3. Len(parts) \in Nat
  BY LenProperties
<1>4. Len(parts) \in T
  <2> HIDE DEF T
  <2> QED BY <1>1, <1>2, <1>3, NatAll
<1> DEFINE it == Joined(parts)
<1>5. it = [i \in 1..Len(parts) |-> Step(it, i)]
  BY <1>4 DEF Joined
<1> HIDE DEF it
<1>6. it[1] = parts[1]
  BY <1>3, <1>5
<1>7. ASSUME NEW i \in 1..(Len(parts) - 1) PROVE it[i + 1] = it[i] \o parts[i + 1]
  <2>1. i + 1 \in 1..Len(parts) /\ i + 1 # 1 /\ (i + 1) - 1 = i
    BY <1>3
  <2> QED BY <1>5, <2>1
<1> QED BY <1>6, <1>7 DEF it

\* A sequence of at most n elements of S that has them all from the first n parts.
Gathers(S, parts, n, seq) ==
    /\ seq \in Seq(S) /\ Len(seq) <= n
    /\ \A i \in 1..n : \A j \in 1..Len(parts[i]) : \E k \in 1..Len(seq) : seq[k] = parts[i][j]

LEMMA GathersMore ==
    ASSUME NEW S, NEW parts, NEW n \in Nat, NEW a, Gathers(S, parts, n, a),
           parts[n + 1] \in Seq(S), Len(parts[n + 1]) <= 1
    PROVE  Gathers(S, parts, n + 1, a \o parts[n + 1])
<1>1. PICK b \in Seq(S) : b = parts[n + 1]
  OBVIOUS
<1>2. a \in Seq(S) /\ Len(a) \in Nat /\ Len(b) \in Nat /\ Len(b) <= 1 /\ Len(a) <= n
  BY <1>1, LenProperties DEF Gathers
<1>3. PICK c \in Seq(S) :
         /\ c = a \o b /\ Len(c) = Len(a) + Len(b)
         /\ \A i \in 1..(Len(a) + Len(b)) : c[i] = IF i <= Len(a) THEN a[i] ELSE b[i - Len(a)]
  <2> DEFINE c == a \o b
  <2>1. /\ c \in Seq(S) /\ Len(c) = Len(a) + Len(b)
        /\ \A i \in 1..(Len(a) + Len(b)) : c[i] = IF i <= Len(a) THEN a[i] ELSE b[i - Len(a)]
    BY <1>2, ConcatProperties
  <2>2. c = a \o b
    OBVIOUS
  <2> HIDE DEF c
  <2> QED BY <2>1, <2>2
<1>4. ASSUME NEW j \in 1..Len(b) PROVE \E k \in 1..Len(c) : c[k] = b[j]
  <2>1. Len(a) + j \in 1..(Len(a) + Len(b)) /\ (Len(a) + j) - Len(a) = j /\ ~(Len(a) + j <= Len(a))
    BY <1>2
  <2>2. c[Len(a) + j] = b[j]
    BY <1>3, <2>1
  <2> QED BY <1>3, <2>1, <2>2
<1>5. ASSUME NEW i \in 1..n, NEW j \in 1..Len(parts[i]) PROVE \E k \in 1..Len(c) : c[k] = parts[i][j]
  <2>1. PICK k \in 1..Len(a) : a[k] = parts[i][j]
    BY DEF Gathers
  <2>2. k \in 1..(Len(a) + Len(b)) /\ k <= Len(a)
    BY <1>2
  <2> QED BY <1>3, <2>1, <2>2
<1>6. Len(c) <= n + 1
  BY <1>2, <1>3
<1>7. \A i \in 1..(n + 1) : i \in 1..n \/ i = n + 1
  OBVIOUS
<1>8. c = a \o parts[n + 1]
  BY <1>1, <1>3
<1>9. \A i \in 1..(n + 1) : \A j \in 1..Len(parts[i]) : \E k \in 1..Len(c) : c[k] = parts[i][j]
  BY <1>1, <1>4, <1>5, <1>7
<1>10. Gathers(S, parts, n + 1, c)
  BY <1>6, <1>9 DEF Gathers
<1> QED BY <1>8, <1>10

LEMMA Flattened ==
    ASSUME NEW S, NEW parts \in Seq(Seq(S)), \A i \in 1..Len(parts) : Len(parts[i]) <= 1
    PROVE  Gathers(S, parts, Len(parts), FlattenSeq(parts))
<1>1. Len(parts) \in Nat /\ \A i \in 1..Len(parts) : parts[i] \in Seq(S) /\ Len(parts[i]) \in Nat
  BY LenProperties, ElementOfSeq
<1>2. FlattenSeq(parts) = IF Len(parts) = 0 THEN parts ELSE Joined(parts)[Len(parts)]
  BY DEF FlattenSeq, Joined
<1>3. CASE Len(parts) = 0
  <2>1. FlattenSeq(parts) = <<>>
    BY <1>2, <1>3, EmptySeq
  <2> QED BY <1>3, <2>1, EmptySeq DEF Gathers
<1>4. CASE Len(parts) # 0
  <2> DEFINE it == Joined(parts)
             T == {n \in Nat : n + 1 <= Len(parts) => Gathers(S, parts, n + 1, it[n + 1])}
  <2>1. it[1] = parts[1] /\ \A i \in 1..(Len(parts) - 1) : it[i + 1] = it[i] \o parts[i + 1]
    BY <1>4, JoinedSteps
  <2> HIDE DEF it
  <2>2. 0 \in T
    BY <1>1, <1>4, <2>1 DEF Gathers
  <2>3. ASSUME NEW n \in Nat, n \in T PROVE n + 1 \in T
    <3> SUFFICES ASSUME n + 2 <= Len(parts) PROVE Gathers(S, parts, n + 2, it[n + 2])
      OBVIOUS
    <3>1. /\ Gathers(S, parts, n + 1, it[n + 1]) /\ n + 1 \in Nat /\ n + 1 \in 1..(Len(parts) - 1)
          /\ (n + 1) + 1 = n + 2 /\ n + 2 \in 1..Len(parts)
      BY <1>1, <2>3
    <3>2. it[(n + 1) + 1] = it[n + 1] \o parts[(n + 1) + 1]
      BY <2>1, <3>1
    <3>3. Gathers(S, parts, (n + 1) + 1, it[n + 1] \o parts[(n + 1) + 1])
      BY <1>1, <3>1, GathersMore
    <3> QED BY <3>1, <3>2, <3>3
  <2>4. Len(parts) - 1 \in T
    <3> HIDE DEF T
    <3>1. Len(parts) - 1 \in Nat
      BY <1>1, <1>4
    <3> QED BY <2>2, <2>3, <3>1, NatAll
  <2>5. Gathers(S, parts, Len(parts), it[Len(parts)])
    BY <1>1, <2>4
  <2> QED BY <1>2, <1>4, <2>5 DEF it
<1> QED BY <1>3, <1>4
\* A turn gives one memory or none.
LEMMA ClassifiedTyped ==
    ASSUME FoldAssumption, ExtractAssumption, NEW text \in Texts
    PROVE  Classified(text) \in Seq(Extracted) /\ Len(Classified(text)) <= 1
<1> DEFINE cued == {k \in 1..Len(Kinds) : WordsOf(text) \cap Cues[Kinds[k]] # {}}
           kind == Kinds[CHOOSE k \in cued : \A j \in cued : k <= j]
           memory == [content |-> text,
                      type |-> IF cued = {} THEN "episodic" ELSE TypeOfKind[kind],
                      tags |-> (WordsOf(text) \cap Topics)
                                   \cup (IF cued = {} \/ kind = "fact" THEN {} ELSE {kind}),
                      entities |-> NamesIn(text)]
<1>1. Classified(text) = <<>> \/ Classified(text) = <<memory>>
  BY DEF Classified
<1>2. cued # {} => kind \in {"preference", "workflow", "event", "fact"}
  <2>1. cued \in SUBSET Nat
    OBVIOUS
  <2>2. cued # {} => \E k \in cued : \A j \in cued : k <= j
    <3> HIDE DEF cued
    <3> QED BY <2>1, LeastOf
  <2>3. \A k \in cued : Kinds[k] \in {"preference", "workflow", "event", "fact"}
    BY DEF Kinds
  <2> HIDE DEF cued
  <2> QED BY <2>2, <2>3
<1>3. memory \in Extracted
  <2> HIDE DEF cued, kind
  <2>1. (IF cued = {} THEN "episodic" ELSE TypeOfKind[kind]) \in Types
    BY <1>2 DEF ExtractAssumption, TypeOfKind
  <2>2. (IF cued = {} \/ kind = "fact" THEN {} ELSE {kind}) \subseteq Tags
    BY <1>2 DEF ExtractAssumption
  <2>3. NamesIn(text) \subseteq Names
    BY DEF NamesIn
  <2>4. WordsOf(text) \cap Topics \subseteq Tags
    BY DEF ExtractAssumption
  <2> QED BY <2>1, <2>2, <2>3, <2>4 DEF Extracted
<1> HIDE DEF memory
<1>4. <<memory>> \in Seq(Extracted) /\ Len(<<memory>>) = 1
  BY <1>3
<1> HIDE DEF cued, kind
<1>5. CASE Classified(text) = <<>>
  BY <1>5, EmptySeq
<1>6. CASE Classified(text) = <<memory>>
  BY <1>4, <1>6
<1> QED BY <1>1, <1>5, <1>6

\* The rules give at most a memory a turn, and every one they recognise.
LEMMA RulesGive ==
    ASSUME FoldAssumption, ExtractAssumption, NEW conversation \in Seq(Turns)
    PROVE  /\ RuleExtract(conversation) \in Seq(Extracted)
           /\ Len(RuleExtract(conversation)) <= Len(conversation)
           /\ \A i \in DOMAIN conversation : \A j \in DOMAIN Classified(conversation[i].words) :
                 \E k \in DOMAIN RuleExtract(conversation) :
                    RuleExtract(conversation)[k] = Classified(conversation[i].words)[j]
<1> DEFINE n == Len(conversation)
           repeats(i) == \E j \in 1..(i - 1) : conversation[j] = conversation[i]
           said(i) == Classified(conversation[i].words)
           part(i) == IF repeats(i) THEN <<>> ELSE said(i)
           parts == [i \in 1..n |-> part(i)]
<1>1. n \in Nat /\ DOMAIN conversation = 1..n
  BY LenProperties
<1>2. RuleExtract(conversation) = FlattenSeq(parts)
  BY <1>1 DEF RuleExtract
<1>3. ASSUME NEW i \in 1..n PROVE said(i) \in Seq(Extracted) /\ Len(said(i)) <= 1
  <2>1. conversation[i].words \in Texts
    <3>1. conversation[i] \in Turns
      BY ElementOfSeq
    <3> QED BY <3>1 DEF Turns
  <2> QED BY <2>1, ClassifiedTyped
<1> HIDE DEF n, repeats, said
<1>4. ASSUME NEW i \in 1..n PROVE part(i) \in Seq(Extracted) /\ Len(part(i)) <= 1
  BY <1>3, EmptySeq
<1>5. parts \in Seq(Seq(Extracted)) /\ Len(parts) = n /\ \A i \in 1..n : parts[i] = part(i)
  <2> HIDE DEF part
  <2>1. parts \in [1..n -> Seq(Extracted)]
    BY <1>4
  <2> QED BY <1>1, <2>1, SeqDef
<1> DEFINE result == RuleExtract(conversation)
<1>6. Gathers(Extracted, parts, n, result)
  <2> HIDE DEF parts, part
  <2> QED BY <1>2, <1>4, <1>5, Flattened
<1> HIDE DEF result, parts
<1>7. DOMAIN result = 1..Len(result)
  BY <1>6, LenProperties DEF Gathers
<1>8. ASSUME NEW i \in 1..n, NEW j \in DOMAIN said(i)
      PROVE  \E k \in DOMAIN result : result[k] = said(i)[j]
  <2> DEFINE same == {h \in 1..n : conversation[h] = conversation[i]}
  <2>1. PICK h \in same : \A g \in same : h <= g
    <3>1. same \in SUBSET Nat /\ i \in same
      OBVIOUS
    <3> HIDE DEF same
    <3> QED BY <3>1, LeastOf
  <2>2. h \in 1..n /\ conversation[h] = conversation[i] /\ ~repeats(h)
    <3>1. h \in 1..n /\ conversation[h] = conversation[i]
      OBVIOUS
    <3>2. \A g \in 1..(h - 1) : g \in 1..n /\ ~(h <= g)
      BY <1>1, <3>1
    <3> QED BY <2>1, <3>1, <3>2 DEF repeats
  <2>3. parts[h] = said(i)
    BY <1>5, <2>2 DEF said
  <2>4. j \in 1..Len(said(i))
    BY <1>3, LenProperties
  <2> QED BY <1>6, <1>7, <2>2, <2>3, <2>4 DEF Gathers
<1> QED BY <1>1, <1>6, <1>8 DEF result, said, Gathers, n

\* An array with entries the model may give.
Readable(array) ==
    /\ array \in Seq(Range(array))
    /\ \A i \in DOMAIN array :
          /\ array[i].content \in Texts \cup {<<>>}
          /\ array[i].tags \subseteq Tags /\ array[i].named \subseteq Words

LEMMA ParsedTyped ==
    ASSUME FoldAssumption, ExtractAssumption, NEW array, Readable(array)
    PROVE  Parsed(array) \in Seq(Extracted) /\ Len(Parsed(array)) <= Len(array)
<1> DEFINE n == Len(array)
           part(i) == Told(array[i], ParsedType(array[i].type))
           parts == [i \in 1..n |-> part(i)]
<1>1. n \in Nat /\ DOMAIN array = 1..n
  BY LenProperties DEF Readable
<1>2. Parsed(array) = FlattenSeq(parts)
  BY <1>1 DEF Parsed
<1>3. ASSUME NEW i \in 1..n PROVE part(i) \in Seq(Extracted) /\ Len(part(i)) <= 1
  <2>1. CASE array[i].content = <<>>
    BY <2>1, EmptySeq DEF Told
  <2>2. CASE array[i].content # <<>>
    <3> DEFINE memory == [content |-> array[i].content, type |-> ParsedType(array[i].type),
                          tags |-> array[i].tags, entities |-> Reconciled(array[i].named, array[i].content)]
    <3>1. part(i) = <<memory>>
      BY <2>2 DEF Told
    <3>2. array[i].content \in Texts /\ array[i].tags \subseteq Tags
      BY <1>1, <2>2 DEF Readable
    <3>3. ParsedType(array[i].type) \in Types
      BY DEF ParsedType, ExtractAssumption
    <3>4. Reconciled(array[i].named, array[i].content) \subseteq Names
      BY DEF Reconciled, NamesIn
    <3>5. memory \in Extracted
      BY <3>2, <3>3, <3>4 DEF Extracted
    <3> HIDE DEF memory
    <3> QED BY <3>1, <3>5
  <2> QED BY <2>1, <2>2
<1> HIDE DEF part, n
<1>4. parts \in Seq(Seq(Extracted)) /\ Len(parts) = n /\ \A i \in 1..n : parts[i] = part(i)
  <2>1. parts \in [1..n -> Seq(Extracted)]
    BY <1>3
  <2> QED BY <1>1, <2>1, SeqDef
<1>5. Gathers(Extracted, parts, n, Parsed(array))
  <2> HIDE DEF parts
  <2> QED BY <1>2, <1>3, <1>4, Flattened
<1> QED BY <1>5 DEF Gathers, n

\* What is set aside leaves no more, each a memory kept.
LEMMA AsideTyped ==
    ASSUME NEW memories \in Seq(Extracted), NEW stored
    PROVE  FlattenSeq([i \in DOMAIN memories |->
              IF KeyOf(memories[i]) \in stored THEN <<>> ELSE <<memories[i]>>]) \in Seq(Extracted)
<1> DEFINE n == Len(memories)
           part(i) == IF KeyOf(memories[i]) \in stored THEN <<>> ELSE <<memories[i]>>
           parts == [i \in 1..n |-> part(i)]
<1>1. n \in Nat /\ DOMAIN memories = 1..n
  BY LenProperties
<1>2. ASSUME NEW i \in 1..n PROVE part(i) \in Seq(Extracted) /\ Len(part(i)) <= 1
  <2>1. memories[i] \in Extracted
    BY ElementOfSeq
  <2> QED BY <2>1, EmptySeq
<1>3. parts \in Seq(Seq(Extracted)) /\ Len(parts) = n /\ \A i \in 1..n : parts[i] = part(i)
  <2> HIDE DEF part, n
  <2>1. parts \in [1..n -> Seq(Extracted)]
    BY <1>2
  <2> QED BY <1>1, <2>1, SeqDef
<1>4. Gathers(Extracted, parts, n, FlattenSeq(parts))
  <2> HIDE DEF parts, part, n
  <2> QED BY <1>2, <1>3, Flattened
<1> QED BY <1>1, <1>4 DEF Gathers
-----------------------------------------------------------------------------
(* The chunks *)

LEMMA ModuloNext == ASSUME NEW x \in Nat, NEW c \in Nat \ {0}, x % c = 0 PROVE (x + c) % c = 0
<1> DEFINE q == x \div c
           r == (x + c) \div c
           m == (x + c) % c
<1>1. q \in Int /\ r \in Int /\ m \in 0..(c - 1)
  OBVIOUS
<1>2. x = c * q
  OBVIOUS
<1>3. x + c = c * r + m
  OBVIOUS
<1> HIDE DEF q, r, m
<1>4. m = c * (q + 1 - r) /\ q + 1 - r \in Int
  BY <1>1, <1>2, <1>3
<1>5. ASSUME NEW k \in Int, m = c * k PROVE m = 0
  <2>1. k >= 1 => c * k >= c
    OBVIOUS
  <2>2. k <= -1 => c * k <= -c
    OBVIOUS
  <2> QED BY <1>1, <1>5, <2>1, <2>2
<1>6. m = 0
  BY <1>4, <1>5
<1> QED BY <1>6 DEF m

\* Every place is in a chunk.
LEMMA InChunk ==
    ASSUME NEW c \in Nat \ {0}, NEW p \in Nat \ {0}
    PROVE  \E s \in 1..p : (s - 1) % c = 0 /\ p < s + c
<1> DEFINE T == {n \in Nat : \E s \in 1..(n + 1) : (s - 1) % c = 0 /\ n + 1 < s + c}
<1>1. 0 \in T
  <2>1. 1 \in 1..(0 + 1) /\ (1 - 1) % c = 0 /\ 0 + 1 < 1 + c
    OBVIOUS
  <2> QED BY <2>1
<1>2. ASSUME NEW n \in Nat, n \in T PROVE n + 1 \in T
  <2>1. PICK s \in 1..(n + 1) : (s - 1) % c = 0 /\ n + 1 < s + c
    BY <1>2
  <2>2. s \in Nat \ {0} /\ s - 1 \in Nat
    OBVIOUS
  <2>3. CASE (n + 1) + 1 < s + c
    <3>1. s \in 1..((n + 1) + 1)
      BY <2>2
    <3> QED BY <2>1, <2>3, <3>1
  <2>4. CASE ~((n + 1) + 1 < s + c)
    <3>1. ((s - 1) + c) % c = 0
      BY <2>1, <2>2, ModuloNext
    <3>2. s + c = (n + 1) + 1 /\ (s + c) - 1 = (s - 1) + c
      BY <2>1, <2>2, <2>4
    <3>3. ((n + 1) + 1) - 1 = (s - 1) + c
      BY <3>2
    <3>4. (n + 1) + 1 \in 1..((n + 1) + 1) /\ (n + 1) + 1 < ((n + 1) + 1) + c
      OBVIOUS
    <3>5. (((n + 1) + 1) - 1) % c = 0
      BY <3>1, <3>3
    <3> QED BY <3>4, <3>5
  <2> QED BY <2>3, <2>4
<1>3. p - 1 \in T
  <2> HIDE DEF T
  <2>1. p - 1 \in Nat
    OBVIOUS
  <2> QED BY <1>1, <1>2, <2>1, NatAll
<1>4. (p - 1) + 1 = p
  OBVIOUS
<1> QED BY <1>3, <1>4

LEMMA ChunkOf ==
    ASSUME ExtractAssumption, pending \in Seq(Extracted), NEW s \in 1..Len(pending)
    PROVE  \E n \in Nat :
              /\ n = Len(Chunk(s)) /\ s + n - 1 <= Len(pending)
              /\ \A p \in s..(s + ChunkLength - 1) : p <= Len(pending) => p \in s..(s + n - 1)
              /\ \A i \in 1..n : Chunk(s)[i] = pending[s + i - 1]
<1>1. ChunkLength \in Nat \ {0} /\ Len(pending) \in Nat
  BY LenProperties DEF ChunkLength, ExtractAssumption
<1> DEFINE last == s + ChunkLength - 1
           end == IF last > Len(pending) THEN Len(pending) ELSE last
<1>2. /\ end \in Int /\ s <= end /\ end <= Len(pending)
      /\ \A p \in s..last : p <= Len(pending) => p \in s..end
  BY <1>1
<1>3. Chunk(s) = SubSeq(pending, s, end)
  BY DEF Chunk
<1> HIDE DEF end
<1>4. \A i \in s..end : pending[i] \in Extracted
  BY <1>1, <1>2, ElementOfSeq
<1>5. Len(Chunk(s)) = end - s + 1 /\ \A i \in 1..(end - s + 1) : Chunk(s)[i] = pending[s + i - 1]
  BY <1>2, <1>3, <1>4, SubSeqProperties
<1>6. end - s + 1 \in Nat /\ s + (end - s + 1) - 1 = end
  BY <1>2
<1> QED BY <1>2, <1>5, <1>6

\* The places of an accepted reply are those of the chunk, in order.
LEMMA AcceptedInOrder ==
    ASSUME NEW n \in Nat, NEW reply \in Replies(n), Accepted(reply, n)
    PROVE  Decoded(reply)[1] = [i \in 1..n |-> i]
<1>1. Len(reply) \in Nat
  <2>1. ASSUME NEW k \in Nat, reply \in [1..k -> Nat] PROVE Len(reply) \in Nat
    BY <2>1, SeqDef, LenProperties
  <2>2. CASE embedder = "openai"
    <3>1. PICK k \in 0..(n + 1) : reply \in [1..k -> 1..n]
      BY <2>2 DEF Replies
    <3> QED BY <2>1, <3>1
  <2>3. CASE embedder = "google"
    <3>1. PICK k \in 0..(n + 1) : reply = [i \in 1..k |-> i]
      BY <2>3 DEF Replies
    <3>2. reply \in [1..k -> Nat] /\ k \in Nat
      BY <3>1
    <3> QED BY <2>1, <3>2
  <2>4. CASE embedder \notin {"openai", "google"}
    BY <2>4 DEF Replies
  <2> QED BY <2>2, <2>3, <2>4
<1> DEFINE places == [i \in 1..Len(reply) |-> i]
<1>2. Decoded(reply) \in {<<places>>, <<>>}
  BY DEF Decoded
<1>3. Decoded(reply) # <<>> /\ Len(Decoded(reply)[1]) = n
  BY DEF Accepted
<1>4. places \in Seq(Nat) /\ Len(places) = Len(reply)
  <2>1. places \in [1..Len(reply) -> Nat]
    BY <1>1
  <2> QED BY <1>1, <2>1, SeqDef
<1> HIDE DEF places
<1>5. Decoded(reply)[1] = places
  BY <1>2, <1>3
<1>6. Len(reply) = n
  BY <1>3, <1>4, <1>5
<1> QED BY <1>5, <1>6 DEF places
-----------------------------------------------------------------------------
(* The inductive invariant *)

Unread == {"model", "rules"}

CallInv ==
    /\ stage \in Stages /\ embedder \in {"none", "single", "openai", "google"}
    /\ turns \in Seq(Turns) /\ Len(turns) <= MaxMemories
    /\ stage = "model" => Readable(answer) /\ Len(answer) <= MaxMemories
    /\ stage \in Unread => left = <<>> /\ kept = <<>> /\ taken = {}
    /\ Len(left) + Len(kept) <= MaxMemories

\* What the rules recognise in the turns is read, or about to be.
Heard ==
    stage \notin Unread =>
        \A i \in DOMAIN turns : \A j \in DOMAIN Classified(turns[i].words) :
            \/ Classified(turns[i].words)[j] \in taken
            \/ \E k \in DOMAIN left : left[k] = Classified(turns[i].words)[j]

\* The chunks cover what is to be written, and an answered one has its vectors.
EmbedInv ==
    /\ pending \in Seq(Extracted)
    /\ stage \in Unread \cup {"fold"} => request = <<>> /\ vectors = <<>>
    /\ stage \notin Unread \cup {"fold"} =>
          DOMAIN request = IF embedder = "none" THEN {} ELSE ChunkStarts(Len(pending))
    /\ request \in [DOMAIN request -> {"waiting", "sent", "answered", "failed"}]
    /\ stage = "done" => \A s \in DOMAIN request : request[s] \in {"answered", "failed"}
    /\ DOMAIN request \subseteq 1..Len(pending) /\ Cardinality(Held) <= Concurrency
    /\ DOMAIN vectors \subseteq 1..Len(pending) /\ VectorsOfTheirTexts
    /\ \A s \in DOMAIN request : request[s] = "answered" =>
          \A p \in s..(s + ChunkLength - 1) : p <= Len(pending) => p \in DOMAIN vectors

PipelineInv == CallInv /\ FoldInv /\ Heard /\ EmbedInv
LEMMA InitPipeline == ASSUME Init PROVE PipelineInv
<1>1. CallInv
  <2>1. PICK call \in Calls :
           turns = call.turns /\ ((stage = "model" /\ answer = call.answer) \/ stage = "rules")
    BY DEF Init
  <2>2. call.turns \in Seq(Turns) /\ Len(call.turns) <= MaxMemories
    BY CallsAssumption
  <2>3. Readable(call.answer) /\ Len(call.answer) <= MaxMemories
    BY CallsAssumption DEF Readable
  <2>4. left = <<>> /\ kept = <<>> /\ taken = {} /\ Len(left) + Len(kept) <= MaxMemories
    BY ExtractAssumption DEF Init
  <2> QED BY <2>1, <2>2, <2>3, <2>4 DEF Init, CallInv, Stages, Unread
<1>2. FoldInv
  BY EmptySeq DEF Init, FoldInv, NothingLost, TagsEarned
<1>3. Heard
  BY DEF Init, Heard, Unread
<1>4. EmbedInv
  <2>1. Held = {} /\ DOMAIN request = {} /\ DOMAIN vectors = {} /\ stage \in Unread
    BY DEF Held, Init, Unread
  <2>2. Cardinality(Held) <= Concurrency
    BY <2>1, FS_EmptySet, ExtractAssumption
  <2>3. pending \in Seq(Extracted) /\ request = <<>> /\ vectors = <<>> /\ stage # "done"
    BY EmptySeq DEF Init
  <2>4. request \in [DOMAIN request -> {"waiting", "sent", "answered", "failed"}]
    BY <2>1, <2>3
  <2> QED BY <2>1, <2>2, <2>3, <2>4 DEF EmbedInv, VectorsOfTheirTexts
<1> QED BY <1>1, <1>2, <1>3, <1>4 DEF PipelineInv

embedVars == <<embedder, pending, request, vectors>>

\* The reading of a conversation leaves the embedding alone.
LEMMA ReadingLeaves ==
    ASSUME EmbedInv, UNCHANGED embedVars, stage \in Unread \cup {"fold"}, stage' \in Unread \cup {"fold"}
    PROVE  EmbedInv'
BY DEF EmbedInv, embedVars, Held, ChunkStarts, ChunkLength, VectorsOfTheirTexts, Unread

LEMMA FoldInvSame == ASSUME FoldInv, UNCHANGED <<left, kept, taken>> PROVE FoldInv'
BY DEF FoldInv, NothingLost, TagsEarned

\* Memories to read, with nothing read yet.
LEMMA FoldInvStarts ==
    ASSUME kept = <<>>, taken = {}, left' \in Seq(Extracted), UNCHANGED <<kept, taken>> PROVE FoldInv'
BY EmptySeq DEF FoldInv, NothingLost, TagsEarned

LEMMA ModelStep == ASSUME PipelineInv, ModelFails \/ ModelAnswers \/ RulesAnswer PROVE PipelineInv'
<1> USE FoldAssumption, ExtractAssumption DEF PipelineInv
<1>1. stage \in Unread /\ stage' \in Unread \cup {"fold"} /\ UNCHANGED <<kept, taken, embedVars>>
  BY DEF ModelFails, ModelAnswers, RulesAnswer, Unread, embedVars
<1>2. left = <<>> /\ kept = <<>> /\ taken = {} /\ Len(kept) = 0
  BY <1>1 DEF CallInv
<1>3. EmbedInv'
  BY <1>1, ReadingLeaves
<1>4. CASE ModelFails
  <2>1. CallInv'
    BY <1>1, <1>2, <1>4 DEF CallInv, ModelFails, Stages, Unread, embedVars
  <2> QED BY <1>3, <1>4, <2>1, FoldInvSame DEF ModelFails, Heard, Unread
<1>5. CASE ModelAnswers
  <2> DEFINE memories == Parsed(answer)
  <2>1. memories \in Seq(Extracted) /\ Len(memories) <= MaxMemories /\ Len(memories) \in Nat
    <3>1. Readable(answer) /\ Len(answer) <= MaxMemories /\ Len(answer) \in Nat
      BY <1>5, LenProperties DEF ModelAnswers, CallInv, Readable
    <3>2. memories \in Seq(Extracted) /\ Len(memories) <= Len(answer)
      BY <3>1, ParsedTyped
    <3> QED BY <3>1, <3>2, LenProperties
  <2>2. CASE FallsBack(memories)
    <3>1. stage' = "rules" /\ UNCHANGED <<left, kept, taken, turns, embedder>>
      BY <1>5, <2>2 DEF ModelAnswers
    <3>2. CallInv'
      BY <1>2, <3>1 DEF CallInv, Stages, Unread
    <3> QED BY <1>3, <3>1, <3>2, FoldInvSame DEF Heard, Unread
  <2>3. CASE ~FallsBack(memories)
    <3>1. stage' = "fold" /\ left' = memories /\ turns' = <<>> /\ UNCHANGED <<kept, taken, embedder>>
      BY <1>5, <2>3 DEF ModelAnswers, FallsBack
    <3> HIDE DEF memories
    <3>2. CallInv'
      BY <1>2, <2>1, <3>1, EmptySeq DEF CallInv, Stages, Unread
    <3>3. Heard'
      BY <3>1 DEF Heard
    <3> QED BY <1>2, <1>3, <2>1, <3>1, <3>2, <3>3, FoldInvStarts
  <2> QED BY <2>2, <2>3
<1>6. CASE RulesAnswer
  <2> DEFINE memories == RuleExtract(turns)
  <2>1. /\ memories \in Seq(Extracted) /\ Len(memories) <= MaxMemories /\ Len(memories) \in Nat
        /\ \A i \in DOMAIN turns : \A j \in DOMAIN Classified(turns[i].words) :
              \E k \in DOMAIN memories : memories[k] = Classified(turns[i].words)[j]
    <3>1. turns \in Seq(Turns) /\ Len(turns) <= MaxMemories /\ Len(turns) \in Nat
      BY LenProperties DEF CallInv
    <3>2. /\ memories \in Seq(Extracted) /\ Len(memories) <= Len(turns)
          /\ \A i \in DOMAIN turns : \A j \in DOMAIN Classified(turns[i].words) :
                \E k \in DOMAIN memories : memories[k] = Classified(turns[i].words)[j]
      BY <3>1, RulesGive
    <3>3. Len(memories) \in Nat
      BY <3>2, LenProperties
    <3> QED BY <3>1, <3>2, <3>3
  <2>2. stage' = "fold" /\ left' = memories /\ UNCHANGED <<kept, taken, turns, embedder>>
    BY <1>6 DEF RulesAnswer
  <2> HIDE DEF memories
  <2>3. CallInv'
    BY <1>2, <2>1, <2>2 DEF CallInv, Stages, Unread
  <2>4. Heard'
    BY <2>1, <2>2 DEF Heard
  <2> QED BY <1>2, <1>3, <2>1, <2>2, <2>3, <2>4, FoldInvStarts
<1> QED BY <1>4, <1>5, <1>6

LEMMA FoldingStep == ASSUME PipelineInv, Fold PROVE PipelineInv'
<1> USE FoldAssumption, ExtractAssumption DEF PipelineInv
<1>1. FoldInv' /\ Len(left') = Len(left) - 1 /\ Len(kept') <= Len(kept) + 1
  BY TakeKeeps DEF Fold
<1>2. stage = "fold" /\ UNCHANGED <<stage, turns, answer, embedVars>>
  BY DEF Fold, embedVars
<1>3. CallInv'
  <2>1. Len(left) \in Nat /\ Len(kept) \in Nat /\ Len(left') \in Nat /\ Len(kept') \in Nat
    BY <1>1, LenProperties DEF FoldInv
  <2>2. Len(left') + Len(kept') <= MaxMemories
    BY <1>1, <2>1 DEF CallInv
  <2> QED BY <1>2, <2>2 DEF CallInv, Unread, embedVars
<1>4. EmbedInv'
  BY <1>2, ReadingLeaves
<1>5. Heard'
  <2>1. ASSUME NEW i \in DOMAIN turns, NEW j \in DOMAIN Classified(turns[i].words)
        PROVE  \/ Classified(turns[i].words)[j] \in taken'
               \/ \E k \in DOMAIN left' : left'[k] = Classified(turns[i].words)[j]
    <3> DEFINE m == Classified(turns[i].words)[j]
    <3>1. /\ left \in Seq(Extracted) /\ left # <<>> /\ left' = Tail(left)
          /\ taken' = taken \cup {Head(left)}
      BY DEF Fold, Take, FoldInv
    <3>2. /\ left' \in Seq(Extracted) /\ Len(left') = Len(left) - 1
          /\ \A k \in 1..Len(left') : left'[k] = left[k + 1]
      BY <3>1, HeadTailProperties
    <3>3. m \in taken \/ \E k \in DOMAIN left : left[k] = m
      BY <1>2 DEF Heard, Unread
    <3> HIDE DEF m
    <3>4. ASSUME NEW k \in DOMAIN left, left[k] = m
          PROVE  m \in taken' \/ \E h \in DOMAIN left' : left'[h] = m
      <4>1. Len(left) \in Nat /\ DOMAIN left = 1..Len(left) /\ DOMAIN left' = 1..Len(left')
        BY <3>1, <3>2, LenProperties
      <4>2. CASE k = 1
        BY <3>1, <3>4, <4>2
      <4>3. CASE k # 1
        <5>1. k - 1 \in DOMAIN left' /\ (k - 1) + 1 = k
          BY <3>2, <4>1, <4>3
        <5>2. left'[k - 1] = m
          BY <3>2, <3>4, <4>1, <5>1
        <5> QED BY <5>1, <5>2
      <4> QED BY <4>2, <4>3
    <3>5. m \in taken' \/ \E k \in DOMAIN left' : left'[k] = m
      BY <3>1, <3>3, <3>4
    <3> QED BY <3>5 DEF m
  <2> QED BY <1>2, <2>1 DEF Heard
<1> QED BY <1>1, <1>3, <1>4, <1>5

\* Once what was said is folded, only the embedding moves.
LEMMA EmbeddingLeaves ==
    ASSUME PipelineInv, stage = "embed", stage' \in {"embed", "done"},
           UNCHANGED <<left, kept, taken, turns, embedder>>
    PROVE  CallInv' /\ FoldInv' /\ Heard'
<1>1. CallInv'
  BY DEF PipelineInv, CallInv, Stages, Unread
<1>2. FoldInv'
  BY FoldInvSame DEF PipelineInv
<1>3. Heard'
  BY DEF PipelineInv, Heard, Unread
<1> QED BY <1>1, <1>2, <1>3

LEMMA AsideStep == ASSUME PipelineInv, NEW stored, SetAside(stored) PROVE PipelineInv'
<1>1. /\ stage = "fold" /\ stage' = "embed"
      /\ UNCHANGED <<left, kept, taken, turns, answer, embedder, vectors>>
  BY DEF SetAside
<1>2. CallInv' /\ Heard'
  BY <1>1 DEF PipelineInv, CallInv, Heard, Stages, Unread
<1>3. FoldInv'
  BY <1>1, FoldInvSame DEF PipelineInv
<1>4. pending' \in Seq(Extracted)
  <2>1. kept \in Seq(Extracted)
    BY DEF PipelineInv, FoldInv
  <2> QED BY <2>1, AsideTyped DEF SetAside
<1>5. /\ DOMAIN request' = (IF embedder = "none" THEN {} ELSE ChunkStarts(Len(pending)))'
      /\ \A s \in DOMAIN request' : request'[s] = "waiting"
      /\ request' \in [DOMAIN request' -> {"waiting", "sent", "answered", "failed"}]
  <2>1. ChunkStarts(Len(pending))' = ChunkStarts(Len(pending'))
    BY <1>1 DEF ChunkStarts, ChunkLength
  <2>2. CASE embedder = "none"
    <3>1. request' = <<>> /\ DOMAIN request' = {}
      BY <2>2 DEF SetAside
    <3> QED BY <1>1, <2>2, <3>1
  <2>3. CASE embedder # "none"
    BY <1>1, <2>1, <2>3 DEF SetAside
  <2> QED BY <2>2, <2>3
<1>6. DOMAIN request' \subseteq 1..Len(pending')
  BY <1>5 DEF ChunkStarts
<1>7. Held' = {} /\ Cardinality(Held') <= Concurrency
  <2>1. Held' = {}
    BY <1>5 DEF Held
  <2> QED BY <2>1, FS_EmptySet, ExtractAssumption
<1>8. DOMAIN vectors' = {}
  <2>1. vectors = <<>>
    BY <1>1 DEF PipelineInv, EmbedInv
  <2> QED BY <1>1, <2>1
<1>9. EmbedInv'
  BY <1>1, <1>4, <1>5, <1>6, <1>7, <1>8 DEF EmbedInv, VectorsOfTheirTexts, Unread
<1> QED BY <1>2, <1>3, <1>9 DEF PipelineInv

\* What the goroutines do not touch of EmbedInv.
LEMMA RequestMoves ==
    ASSUME EmbedInv, NEW s \in DOMAIN request,
           NEW state \in {"waiting", "sent", "answered", "failed"}, stage = "embed",
           request' = [request EXCEPT ![s] = state], UNCHANGED <<stage, embedder, pending>>
    PROVE  /\ pending' \in Seq(Extracted) /\ stage' = "embed"
           /\ DOMAIN request' = DOMAIN request
           /\ DOMAIN request' = (IF embedder = "none" THEN {} ELSE ChunkStarts(Len(pending)))'
           /\ request' \in [DOMAIN request' -> {"waiting", "sent", "answered", "failed"}]
           /\ DOMAIN request' \subseteq 1..Len(pending')
BY DEF EmbedInv, Unread, ChunkStarts, ChunkLength

LEMMA HeldFinite == ASSUME EmbedInv PROVE IsFiniteSet(Held) /\ Cardinality(Held) \in Nat
<1>1. Len(pending) \in Nat /\ Held \subseteq 1..Len(pending)
  BY LenProperties DEF EmbedInv, Held
<1>2. IsFiniteSet(1..Len(pending))
  BY <1>1, FS_Interval
<1> QED BY <1>1, <1>2, FS_Subset, FS_CardinalityType

LEMMA SendStep == ASSUME PipelineInv, NEW s \in DOMAIN request, Send(s) PROVE PipelineInv'
<1> USE DEF PipelineInv
<1>1. /\ stage = "embed" /\ request[s] = "waiting" /\ Cardinality(Held) < Concurrency
      /\ request' = [request EXCEPT ![s] = "sent"]
      /\ UNCHANGED <<left, kept, taken, stage, turns, answer, embedder, pending, vectors>>
  BY DEF Send
<1>2. CallInv' /\ FoldInv' /\ Heard'
  BY <1>1, EmbeddingLeaves
<1>3. Cardinality(Held') <= Concurrency
  <2>1. Held' = Held \cup {s} /\ s \notin Held
    BY <1>1 DEF Held, EmbedInv
  <2>2. IsFiniteSet(Held) /\ Cardinality(Held) \in Nat
    BY HeldFinite
  <2>3. Cardinality(Held') = Cardinality(Held) + 1
    BY <2>1, <2>2, FS_AddElement
  <2> QED BY <1>1, <2>2, <2>3, ExtractAssumption
<1>4. EmbedInv'
  <2>1. /\ pending' \in Seq(Extracted) /\ stage' = "embed"
        /\ DOMAIN request' = DOMAIN request
        /\ DOMAIN request' = (IF embedder = "none" THEN {} ELSE ChunkStarts(Len(pending)))'
        /\ request' \in [DOMAIN request' -> {"waiting", "sent", "answered", "failed"}]
        /\ DOMAIN request' \subseteq 1..Len(pending')
    BY <1>1, RequestMoves
  <2>2. DOMAIN vectors' \subseteq 1..Len(pending') /\ VectorsOfTheirTexts'
    BY <1>1 DEF EmbedInv, VectorsOfTheirTexts
  <2>3. ASSUME NEW t \in DOMAIN request', request'[t] = "answered"
        PROVE  \A p \in t..(t + ChunkLength' - 1) : p <= Len(pending') => p \in DOMAIN vectors'
    <3>1. t \in DOMAIN request /\ request[t] = "answered" /\ ChunkLength' = ChunkLength
      BY <1>1, <2>1, <2>3 DEF EmbedInv, ChunkLength
    <3> QED BY <1>1, <3>1 DEF EmbedInv
  <2> QED BY <1>3, <2>1, <2>2, <2>3 DEF EmbedInv, Unread
<1> QED BY <1>2, <1>4

LEMMA FailsStep == ASSUME PipelineInv, NEW s \in DOMAIN request, SendFails(s) PROVE PipelineInv'
<1> USE DEF PipelineInv
<1>1. /\ stage = "embed" /\ request[s] = "sent"
      /\ request' = [request EXCEPT ![s] = "failed"]
      /\ UNCHANGED <<left, kept, taken, stage, turns, answer, embedder, pending, vectors>>
  BY DEF SendFails
<1>2. CallInv' /\ FoldInv' /\ Heard'
  BY <1>1, EmbeddingLeaves
<1>3. Cardinality(Held') <= Concurrency
  <2>1. Held' \subseteq Held
    BY <1>1 DEF Held, EmbedInv
  <2>2. IsFiniteSet(Held) /\ Cardinality(Held) \in Nat /\ Cardinality(Held) <= Concurrency
    BY HeldFinite DEF EmbedInv
  <2>3. Cardinality(Held') <= Cardinality(Held) /\ Cardinality(Held') \in Nat
    BY <2>1, <2>2, FS_Subset, FS_CardinalityType
  <2> QED BY <2>2, <2>3, ExtractAssumption
<1>4. EmbedInv'
  <2>1. /\ pending' \in Seq(Extracted) /\ stage' = "embed"
        /\ DOMAIN request' = DOMAIN request
        /\ DOMAIN request' = (IF embedder = "none" THEN {} ELSE ChunkStarts(Len(pending)))'
        /\ request' \in [DOMAIN request' -> {"waiting", "sent", "answered", "failed"}]
        /\ DOMAIN request' \subseteq 1..Len(pending')
    BY <1>1, RequestMoves
  <2>2. DOMAIN vectors' \subseteq 1..Len(pending') /\ VectorsOfTheirTexts'
    BY <1>1 DEF EmbedInv, VectorsOfTheirTexts
  <2>3. ASSUME NEW t \in DOMAIN request', request'[t] = "answered"
        PROVE  \A p \in t..(t + ChunkLength' - 1) : p <= Len(pending') => p \in DOMAIN vectors'
    <3>1. t \in DOMAIN request /\ request[t] = "answered" /\ ChunkLength' = ChunkLength
      BY <1>1, <2>1, <2>3 DEF EmbedInv, ChunkLength
    <3> QED BY <1>1, <3>1 DEF EmbedInv
  <2> QED BY <1>3, <2>1, <2>2, <2>3 DEF EmbedInv, Unread
<1> QED BY <1>2, <1>4

\* A reply fills the places of its chunk with the vectors of its own texts.
LEMMA AnsweredStep ==
    ASSUME PipelineInv, NEW s \in DOMAIN request, NEW reply, Answered(s, reply) PROVE PipelineInv'
<1> USE DEF PipelineInv
<1>1. /\ stage = "embed" /\ request[s] = "sent"
      /\ request' = [request EXCEPT ![s] = "answered"]
      /\ UNCHANGED <<left, kept, taken, stage, turns, answer, embedder, pending>>
  BY DEF Answered
<1>2. CallInv' /\ FoldInv' /\ Heard'
  BY <1>1, EmbeddingLeaves
<1>3. Cardinality(Held') <= Concurrency
  <2>1. Held' \subseteq Held
    BY <1>1 DEF Held, EmbedInv
  <2>2. IsFiniteSet(Held) /\ Cardinality(Held) \in Nat /\ Cardinality(Held) <= Concurrency
    BY HeldFinite DEF EmbedInv
  <2>3. Cardinality(Held') <= Cardinality(Held) /\ Cardinality(Held') \in Nat
    BY <2>1, <2>2, FS_Subset, FS_CardinalityType
  <2> QED BY <2>2, <2>3, ExtractAssumption
<1>4. s \in 1..Len(pending) /\ pending \in Seq(Extracted) /\ Len(pending) \in Nat
  BY LenProperties DEF EmbedInv
<1>5. PICK n \in Nat :
        /\ n = Len(Chunk(s)) /\ s + n - 1 <= Len(pending)
        /\ \A p \in s..(s + ChunkLength - 1) : p <= Len(pending) => p \in s..(s + n - 1)
        /\ \A i \in 1..n : Chunk(s)[i] = pending[s + i - 1]
  BY <1>4, ChunkOf, ExtractAssumption
<1>6. /\ DOMAIN vectors' = s..(s + n - 1) \cup DOMAIN vectors
      /\ \A p \in s..(s + n - 1) : vectors'[p] = pending[p].content
      /\ \A p \in DOMAIN vectors \ s..(s + n - 1) : vectors'[p] = vectors[p]
  <2> DEFINE texts == Decoded(reply)[1]
  <2>1. texts = [i \in 1..n |-> i] /\ Len(texts) = n
    <3>1. reply \in Replies(n) /\ Accepted(reply, n)
      BY <1>5 DEF Answered
    <3>2. texts = [i \in 1..n |-> i]
      BY <3>1, AcceptedInOrder
    <3> QED BY <3>1, <3>2 DEF Accepted
  <2> DEFINE places == s..(s + n - 1)
  <2>2. ASSUME NEW p \in places PROVE Chunk(s)[texts[p - s + 1]].content = pending[p].content
    <3>1. p - s + 1 \in 1..n /\ s + (p - s + 1) - 1 = p
      BY <1>4
    <3>2. texts[p - s + 1] = p - s + 1
      BY <2>1, <3>1
    <3> QED BY <1>5, <3>1, <3>2
  <2>3. vectors' = [p \in places \cup DOMAIN vectors |->
                       IF p \in places THEN Chunk(s)[texts[p - s + 1]].content ELSE vectors[p]]
    <3>1. Len(texts) = n
      BY <2>1
    <3> QED BY <3>1 DEF Answered
  <2> HIDE DEF texts, places
  <2>4. /\ DOMAIN vectors' = places \cup DOMAIN vectors
        /\ \A p \in places : vectors'[p] = pending[p].content
        /\ \A p \in DOMAIN vectors \ places : vectors'[p] = vectors[p]
    BY <2>2, <2>3
  <2> QED BY <2>4 DEF places
<1>7. DOMAIN vectors' \subseteq 1..Len(pending') /\ VectorsOfTheirTexts'
  <2>1. s..(s + n - 1) \subseteq 1..Len(pending)
    BY <1>4, <1>5
  <2>2. DOMAIN vectors \subseteq 1..Len(pending) /\ VectorsOfTheirTexts
    BY DEF EmbedInv
  <2> QED BY <1>1, <1>6, <2>1, <2>2 DEF VectorsOfTheirTexts
<1>8. EmbedInv'
  <2>1. /\ pending' \in Seq(Extracted) /\ stage' = "embed"
        /\ DOMAIN request' = DOMAIN request
        /\ DOMAIN request' = (IF embedder = "none" THEN {} ELSE ChunkStarts(Len(pending)))'
        /\ request' \in [DOMAIN request' -> {"waiting", "sent", "answered", "failed"}]
        /\ DOMAIN request' \subseteq 1..Len(pending')
    BY <1>1, RequestMoves
  <2>2. ASSUME NEW t \in DOMAIN request', request'[t] = "answered"
        PROVE  \A p \in t..(t + ChunkLength' - 1) : p <= Len(pending') => p \in DOMAIN vectors'
    <3>1. ChunkLength' = ChunkLength /\ pending' = pending
      BY <1>1 DEF ChunkLength
    <3>2. CASE t = s
      BY <1>5, <1>6, <3>1, <3>2
    <3>3. CASE t # s
      <4>1. t \in DOMAIN request /\ request[t] = "answered"
        BY <1>1, <2>1, <2>2, <3>3 DEF EmbedInv
      <4> QED BY <1>6, <3>1, <4>1 DEF EmbedInv
    <3> QED BY <3>2, <3>3
  <2> QED BY <1>3, <1>7, <2>1, <2>2 DEF EmbedInv, Unread
<1> QED BY <1>2, <1>8

LEMMA EndStep == ASSUME PipelineInv, EmbedEnds PROVE PipelineInv'
<1>1. /\ stage = "embed" /\ stage' = "done"
      /\ \A s \in DOMAIN request : request[s] \in {"answered", "failed"}
      /\ UNCHANGED <<left, kept, taken, turns, answer, embedder, pending, request, vectors>>
  BY DEF EmbedEnds
<1>2. CallInv' /\ FoldInv' /\ Heard'
  BY <1>1, EmbeddingLeaves
<1>3. EmbedInv'
  BY <1>1 DEF PipelineInv, EmbedInv, Unread, ChunkStarts, ChunkLength, Held, VectorsOfTheirTexts
<1> QED BY <1>2, <1>3 DEF PipelineInv

LEMMA StutterStep == ASSUME PipelineInv, UNCHANGED vars PROVE PipelineInv'
<1>1. CallInv' /\ FoldInv' /\ Heard'
  BY DEF PipelineInv, CallInv, FoldInv, NothingLost, TagsEarned, Heard, vars
<1>2. EmbedInv'
  BY DEF PipelineInv, EmbedInv, ChunkStarts, ChunkLength, Held, VectorsOfTheirTexts, vars
<1> QED BY <1>1, <1>2 DEF PipelineInv

LEMMA Inductive == Spec => []PipelineInv
<1>1. Init => PipelineInv
  BY InitPipeline
<1>2. PipelineInv /\ [Next]_vars => PipelineInv'
  <2> SUFFICES ASSUME PipelineInv, [Next]_vars PROVE PipelineInv'
    OBVIOUS
  <2>1. CASE ModelFails \/ ModelAnswers \/ RulesAnswer
    BY <2>1, ModelStep
  <2>2. CASE FoldStep
    BY <2>2, FoldingStep, AsideStep DEF FoldStep
  <2>3. CASE EmbedEnds
    BY <2>3, EndStep
  <2>4. CASE \E s \in DOMAIN request : Goroutine(s)
    <3>1. PICK s \in DOMAIN request : Goroutine(s)
      BY <2>4
    <3>2. CASE \E reply \in Replies(Len(Chunk(s))) : Answered(s, reply)
      BY <3>2, AnsweredStep
    <3> QED BY <3>1, <3>2, SendStep, FailsStep DEF Goroutine
  <2>5. CASE UNCHANGED vars
    BY <2>5, StutterStep
  <2> QED BY <2>1, <2>2, <2>3, <2>4, <2>5 DEF Next
<1> QED BY <1>1, <1>2, PTL DEF Spec

-----------------------------------------------------------------------------
(* What the pipeline keeps *)

\* Extract, FoldRedundant and embedExtracted keep every variable in its type:
\* there are never more memories than entries, and never more requests under way
\* than embedExtractedConcurrency.
THEOREM TypeCorrect == Spec => []TypeOK
<1>1. PipelineInv => TypeOK
  <2> SUFFICES ASSUME PipelineInv PROVE TypeOK
    OBVIOUS
  <2>1. /\ left \in Seq(Extracted) /\ kept \in Seq(Extracted) /\ pending \in Seq(Extracted)
        /\ taken \subseteq Extracted
    BY DEF PipelineInv, FoldInv, EmbedInv
  <2>2. \A memories \in {left, kept, pending} :
           \A i \in 1..Len(memories) : memories[i] \in Extracted
    BY <2>1, ElementOfSeq
  <2>3. \A s \in DOMAIN request : request[s] \in {"waiting", "sent", "answered", "failed"}
    BY DEF PipelineInv, EmbedInv
  <2> QED BY <2>1, <2>2, <2>3 DEF PipelineInv, CallInv, EmbedInv, TypeOK, Held
<1> QED BY <1>1, Inductive, PTL

\* FoldRedundant never loses a fact, a type or a tag, whatever the order the
\* wordings of one conversation come in and however long they are.
THEOREM FoldingLosesNothing == Spec => []NothingLost
<1>1. PipelineInv => NothingLost
  BY DEF PipelineInv, FoldInv
<1> QED BY <1>1, Inductive, PTL

\* unionTags never leaves a tag on a memory that does not say what was tagged.
THEOREM FoldedTagsAreEarned == Spec => []TagsEarned
<1>1. PipelineInv => TagsEarned
  BY DEF PipelineInv, FoldInv
<1> QED BY <1>1, Inductive, PTL

\* Whatever becomes of the model, Extract goes on with its memories or with one
\* for each thing the rules recognise in the turns.
THEOREM RulesSettleIt == Spec => []ConversationKept
<1>1. PipelineInv => ConversationKept
  <2> SUFFICES ASSUME PipelineInv, stage \notin {"model", "rules"}, left = <<>>,
                      NEW i \in DOMAIN turns, NEW j \in DOMAIN Classified(turns[i].words)
               PROVE  \E k \in DOMAIN kept : Stands(kept[k], Classified(turns[i].words)[j])
    BY DEF ConversationKept
  <2>1. Classified(turns[i].words)[j] \in taken
    BY DEF PipelineInv, Heard, Unread
  <2> QED BY <2>1 DEF PipelineInv, FoldInv, NothingLost
<1> QED BY <1>1, Inductive, PTL

\* embedExtracted never attaches a vector to another memory, for any number of
\* memories, size of chunk, order of chunks and reply of the provider.
THEOREM VectorsAreAligned == Spec => []VectorsOfTheirTexts
<1>1. PipelineInv => VectorsOfTheirTexts
  BY DEF PipelineInv, EmbedInv
<1> QED BY <1>1, Inductive, PTL

\* "One failing chunk costs only its own memories", for any number of memories
\* and size of chunk.
THEOREM AFailureCostsItsChunk == Spec => []OnlyFailedChunksCost
<1>1. PipelineInv => OnlyFailedChunksCost
  <2> SUFFICES ASSUME PipelineInv, stage = "done", embedder # "none",
                      NEW p \in 1..Len(pending), p \notin DOMAIN vectors
               PROVE  \E s \in DOMAIN request :
                         request[s] = "failed" /\ s <= p /\ p < s + ChunkLength
    BY DEF OnlyFailedChunksCost
  <2>1. Len(pending) \in Nat /\ ChunkLength \in Nat \ {0} /\ p \in Nat \ {0}
    BY LenProperties, ExtractAssumption DEF PipelineInv, EmbedInv, ChunkLength
  <2>2. PICK s \in 1..p : (s - 1) % ChunkLength = 0 /\ p < s + ChunkLength
    BY <2>1, InChunk
  <2>3. s \in DOMAIN request
    BY <2>1, <2>2 DEF PipelineInv, EmbedInv, Unread, ChunkStarts
  <2>4. p \in s..(s + ChunkLength - 1)
    BY <2>1, <2>2
  <2>5. request[s] # "answered"
    BY <2>3, <2>4 DEF PipelineInv, EmbedInv
  <2>6. request[s] = "failed"
    BY <2>3, <2>5 DEF PipelineInv, EmbedInv
  <2> QED BY <2>2, <2>3, <2>6
<1> QED BY <1>1, Inductive, PTL
=============================================================================
