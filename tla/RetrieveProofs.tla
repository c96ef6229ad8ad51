----------------------------- MODULE RetrieveProofs -----------------------------
(***************************************************************************)
(* What a Query answers with, for any store, query, weights of the texts   *)
(* and limits, whatever else happens to the store and fails meanwhile.     *)
(***************************************************************************)
EXTENDS Retrieve, FiniteSetTheorems, SequenceTheorems, WellFoundedInduction, TLAPS

-----------------------------------------------------------------------------
(* Greatest and least elements *)

LEMMA LeastOf == ASSUME NEW T \in SUBSET Nat, T # {} PROVE \E x \in T : \A y \in T : x <= y
<1>1. PICK x \in T : \A y \in T : <<y, x>> \notin OpToRel(<, Nat)
  BY WFMin, NatLessThanWellFounded
<1>2. \A y \in T : ~(y < x)
  BY <1>1 DEF OpToRel
<1>3. x \in Nat /\ \A y \in T : y \in Nat
  OBVIOUS
<1>4. \A y \in T : x <= y
  BY <1>2, <1>3
<1> QED BY <1>4

LEMMA MinOf ==
    ASSUME NEW T \in SUBSET Nat, T # {}
    PROVE  Min(T) \in T /\ \A y \in T : Min(T) <= y
BY LeastOf DEF Min

\* Below a bound there is a greatest, the one farthest from it the least.
LEMMA MaxOf ==
    ASSUME NEW n \in Nat, NEW T \in SUBSET (0..n), T # {}
    PROVE  Max(T) \in T /\ \A y \in T : y <= Max(T)
<1> DEFINE D == {n - x : x \in T}
<1>1. D \in SUBSET Nat /\ D # {}
  <2>1. \A x \in T : x \in 0..n
    OBVIOUS
  <2> QED BY <2>1
<1>2. PICK d \in D : \A y \in D : d <= y
  <2> HIDE DEF D
  <2> QED BY <1>1, LeastOf
<1>3. PICK m \in T : d = n - m
  BY <1>2
<1>4. \A y \in T : m >= y
  <2>1. \A y \in T : n - m <= n - y /\ y \in 0..n
    BY <1>2, <1>3
  <2> QED BY <2>1, <1>3
<1>5. Max(T) \in T /\ \A y \in T : Max(T) >= y
  BY <1>3, <1>4 DEF Max
<1> QED BY <1>5

LEMMA MinOfTwo ==
    ASSUME NEW a \in Nat, NEW b \in Nat PROVE Min({a, b}) = IF a <= b THEN a ELSE b
<1>1. Min({a, b}) \in {a, b} /\ \A y \in {a, b} : Min({a, b}) <= y
  BY MinOf
<1> QED BY <1>1

\* Naturals that are not all zero, of a finite set, are bounded.
Bounded(n) == \A S \in SUBSET Nat : IsFiniteSet(S) /\ Cardinality(S) = n => \E b \in Nat : S \subseteq 0..b

LEMMA FiniteBounded == ASSUME NEW S \in SUBSET Nat, IsFiniteSet(S) PROVE \E b \in Nat : S \subseteq 0..b
<1> DEFINE N == {n \in Nat : ~Bounded(n)}
<1>1. ASSUME N # {} PROVE FALSE
  <2>1. PICK n \in N : \A m \in N : n <= m
    <3> HIDE DEF N
    <3>1. N \subseteq Nat
      BY DEF N
    <3> QED BY <1>1, <3>1, LeastOf
  <2>2. PICK R \in SUBSET Nat : IsFiniteSet(R) /\ Cardinality(R) = n /\ ~\E b \in Nat : R \subseteq 0..b
    BY <2>1 DEF Bounded
  <2>3. R # {}
    <3>1. R = {} => R \subseteq 0..0
      OBVIOUS
    <3> QED BY <2>2, <3>1
  <2>4. PICK x \in R : TRUE
    BY <2>3
  <2>5. IsFiniteSet(R \ {x}) /\ Cardinality(R \ {x}) = n - 1 /\ n - 1 \in Nat
    <3>1. IsFiniteSet(R \ {x}) /\ Cardinality(R \ {x}) = Cardinality(R) - 1
      BY <2>2, <2>4, FS_RemoveElement
    <3>2. Cardinality(R \ {x}) \in Nat
      BY <3>1, FS_CardinalityType
    <3> QED BY <2>2, <3>1, <3>2
  <2>6. Bounded(n - 1)
    <3>1. n - 1 \notin N
      BY <2>1, <2>5
    <3> QED BY <2>5, <3>1
  <2>7. PICK b \in Nat : R \ {x} \subseteq 0..b
    BY <2>5, <2>6 DEF Bounded
  <2>8. R \subseteq 0..(b + x)
    <3>1. ASSUME NEW y \in R PROVE y \in 0..(b + x)
      <4>1. y = x \/ y \in 0..b
        BY <2>7
      <4> QED BY <2>4, <2>7, <4>1
    <3> QED BY <3>1
  <2>9. b + x \in Nat
    BY <2>4, <2>7
  <2> QED BY <2>2, <2>8, <2>9
<1>2. Cardinality(S) \in Nat
  BY FS_CardinalityType
<1>3. Bounded(Cardinality(S))
  BY <1>1, <1>2
<1> QED BY <1>3 DEF Bounded

-----------------------------------------------------------------------------
(* A LIMIT cuts only what is graded no higher than what it leaves. *)

LEMMA CutOff ==
    ASSUME NEW S, IsFiniteSet(S), NEW n \in Nat, NEW grade, NEW T \in Top(S, n, grade)
    PROVE  /\ T \subseteq S
           /\ \A x \in S \ T : Cardinality(T) = n /\ \A t \in T : grade[t] >= grade[x]
<1>1. T \subseteq S /\ Cardinality(T) = Min({n, Cardinality(S)})
  BY DEF Top
<1>2. Cardinality(S) \in Nat
  BY FS_CardinalityType
<1>3. Cardinality(T) = n \/ Cardinality(T) = Cardinality(S)
  BY <1>1, <1>2, MinOfTwo
<1>4. Cardinality(T) = Cardinality(S) => T = S
  BY <1>1, FS_Subset
<1> QED BY <1>1, <1>3, <1>4 DEF Top

-----------------------------------------------------------------------------
(* Places by score, ties by id *)

Above(score, a, b) == score[a] > score[b] \/ (score[a] = score[b] /\ a < b)
AboveIn(S, score, id) == {o \in S : Above(score, o, id)}

LEMMA AboveCounts ==
    ASSUME NEW S \in SUBSET Nat, IsFiniteSet(S), NEW score \in [S -> Int]
    PROVE  /\ \A id \in S : IsFiniteSet(AboveIn(S, score, id))
                            /\ Cardinality(AboveIn(S, score, id)) \in 0..(Cardinality(S) - 1)
           /\ \A a, b \in S : Above(score, a, b) =>
                 Cardinality(AboveIn(S, score, a)) < Cardinality(AboveIn(S, score, b))
<1>1. \A id \in S : score[id] \in Int /\ id \in Int
  OBVIOUS
<1>2. \A id \in S : ~Above(score, id, id)
  BY <1>1 DEF Above
<1>3. Cardinality(S) \in Nat
  BY FS_CardinalityType
<1>4. ASSUME NEW id \in S
      PROVE  IsFiniteSet(AboveIn(S, score, id))
             /\ Cardinality(AboveIn(S, score, id)) \in 0..(Cardinality(S) - 1)
  <2>1. IsFiniteSet(S \ {id}) /\ Cardinality(S \ {id}) = Cardinality(S) - 1
    BY FS_RemoveElement
  <2>2. AboveIn(S, score, id) \subseteq S \ {id}
    BY <1>2 DEF AboveIn
  <2>3. IsFiniteSet(AboveIn(S, score, id))
        /\ Cardinality(AboveIn(S, score, id)) <= Cardinality(S \ {id})
    BY <2>1, <2>2, FS_Subset
  <2>4. Cardinality(AboveIn(S, score, id)) \in Nat
    BY <2>3, FS_CardinalityType
  <2> QED BY <1>3, <2>1, <2>3, <2>4
<1>5. ASSUME NEW a \in S, NEW b \in S, Above(score, a, b)
      PROVE  Cardinality(AboveIn(S, score, a)) < Cardinality(AboveIn(S, score, b))
  <2>1. \A o \in S : Above(score, o, a) => Above(score, o, b)
    <3>1. ASSUME NEW o \in S, Above(score, o, a) PROVE Above(score, o, b)
      <4>1. score[o] \in Int /\ score[a] \in Int /\ score[b] \in Int /\ o \in Int /\ a \in Int /\ b \in Int
        BY <1>1
      <4> QED BY <1>5, <3>1, <4>1 DEF Above
    <3> QED BY <3>1
  <2>2. AboveIn(S, score, a) \subseteq AboveIn(S, score, b)
    BY <2>1 DEF AboveIn
  <2>3. a \in AboveIn(S, score, b) /\ a \notin AboveIn(S, score, a)
    BY <1>2, <1>5 DEF AboveIn
  <2>4. /\ Cardinality(AboveIn(S, score, a)) <= Cardinality(AboveIn(S, score, b))
        /\ Cardinality(AboveIn(S, score, a)) # Cardinality(AboveIn(S, score, b))
    BY <1>4, <2>2, <2>3, FS_Subset
  <2>5. /\ Cardinality(AboveIn(S, score, a)) \in Nat
        /\ Cardinality(AboveIn(S, score, b)) \in Nat
    BY <1>4
  <2> QED BY <2>4, <2>5
<1> QED BY <1>4, <1>5

\* Every place is taken, by one.
LEMMA PlacesTaken ==
    ASSUME NEW S \in SUBSET Nat, IsFiniteSet(S), NEW score \in [S -> Int]
    PROVE  /\ \A k \in 0..(Cardinality(S) - 1) :
                 \E id \in S : Cardinality(AboveIn(S, score, id)) = k
           /\ \A a, b \in S :
                 Cardinality(AboveIn(S, score, a)) = Cardinality(AboveIn(S, score, b)) => a = b
<1> DEFINE n == Cardinality(S)
           above == [id \in S |-> Cardinality(AboveIn(S, score, id))]
<1>1. n \in Nat
  BY FS_CardinalityType
<1>2. above \in [S -> 0..(n - 1)]
  BY AboveCounts
<1>3. \A a, b \in S : above[a] = above[b] => a = b
  <2>1. ASSUME NEW a \in S, NEW b \in S, a # b PROVE above[a] # above[b]
    <3>1. score[a] \in Int /\ score[b] \in Int /\ a \in Int /\ b \in Int
      OBVIOUS
    <3>2. Above(score, a, b) \/ Above(score, b, a)
      BY <2>1, <3>1 DEF Above
    <3>3. above[a] \in Nat /\ above[b] \in Nat
      BY <1>1, <1>2
    <3>4. above[a] < above[b] \/ above[b] < above[a]
      BY <3>2, AboveCounts
    <3> QED BY <3>3, <3>4
  <2> QED BY <2>1
<1>4. IsFiniteSet(0..(n - 1)) /\ Cardinality(0..(n - 1)) = n
  BY <1>1, FS_Interval
<1>5. \A k \in 0..(n - 1) : \E id \in S : above[id] = k
  <2> HIDE DEF above, n
  <2>1. above \in Injection(S, 0..(n - 1))
    BY <1>2, <1>3 DEF Injection, IsInjective
  <2>2. Cardinality(S) = Cardinality(0..(n - 1))
    BY <1>4 DEF n
  <2>3. above \in Surjection(S, 0..(n - 1))
    BY <1>4, <2>1, <2>2, FS_Injection
  <2> QED BY <2>3 DEF Surjection
<1> QED BY <1>3, <1>5

LEMMA ListOf ==
    ASSUME NEW S, NEW n \in Nat, NEW s \in [1..n -> S] PROVE s \in Seq(S) /\ Len(s) = n
BY SeqDef

\* What a page must be: of the merged memories, each once, at most top_k, all of
\* them if fewer, and from the top.
IsPage(page, superseded) ==
    /\ page \in Seq(Ids) /\ Len(page) <= q.topK /\ IsInjective(page) /\ Range(page) \subseteq Merged
    /\ Len(page) < q.topK => Merged \subseteq Range(page)
    /\ \A x, y \in Merged :
          /\ \/ Score(x, superseded) > Score(y, superseded)
             \/ Score(x, superseded) = Score(y, superseded) /\ x < y
          /\ y \in Range(page)
          => /\ x \in Range(page)
             /\ \A i, j \in DOMAIN page : page[i] = x /\ page[j] = y => i < j

LEMMA RankedPage ==
    ASSUME RetrieveAssumption, q \in Queries, Merged \subseteq Ids, NEW superseded,
           \A id \in Merged : Score(id, superseded) \in Int
    PROVE  IsPage(RankResults(superseded), superseded)
<1> DEFINE score == [id \in Merged |-> Score(id, superseded)]
           count(id) == Cardinality(AboveIn(Merged, score, id))
           n == Cardinality(Merged)
           page == RankResults(superseded)
<1>1. Merged \in SUBSET Nat /\ IsFiniteSet(Merged) /\ n \in Nat
  BY FS_Subset, FS_CardinalityType DEF RetrieveAssumption
<1>2. score \in [Merged -> Int]
  OBVIOUS
<1>3. /\ \A id \in Merged : count(id) \in 0..(n - 1)
      /\ \A a, b \in Merged : Above(score, a, b) => count(a) < count(b)
      /\ \A k \in 0..(n - 1) : \E id \in Merged : count(id) = k
      /\ \A a, b \in Merged : count(a) = count(b) => a = b
  <2> HIDE DEF score
  <2> QED BY <1>1, <1>2, AboveCounts, PlacesTaken
<1>4. q.topK \in Nat \ {0}
  BY DEF RetrieveAssumption
<1>5. Length \in Nat /\ Length = IF q.topK <= n THEN q.topK ELSE n
  BY <1>1, <1>4, MinOfTwo DEF Length
<1>6. page = [i \in 1..Length |-> CHOOSE id \in Merged : count(id) = i - 1]
  BY DEF RankResults, AboveIn, Above
<1>7. \A i \in 1..Length : page[i] \in Merged /\ count(page[i]) = i - 1
  <2> HIDE DEF count, n, page
  <2>1. ASSUME NEW i \in 1..Length PROVE page[i] \in Merged /\ count(page[i]) = i - 1
    <3>1. i - 1 \in 0..(n - 1)
      BY <1>1, <1>4, <1>5
    <3>2. \E id \in Merged : count(id) = i - 1
      BY <1>3, <3>1
    <3> QED BY <1>6, <3>2
  <2> QED BY <2>1
<1>8. DOMAIN page = 1..Length
  BY <1>6
<1> HIDE DEF page, count, n
<1>9. page \in Seq(Ids) /\ Len(page) = Length
  <2>1. page \in [1..Length -> Ids]
    BY <1>6, <1>7
  <2> QED BY <1>5, <2>1, ListOf
<1>10. IsInjective(page)
  <2>1. ASSUME NEW i \in 1..Length, NEW j \in 1..Length, page[i] = page[j] PROVE i = j
    <3>1. i - 1 = j - 1
      BY <1>7, <2>1
    <3> QED BY <1>5, <3>1
  <2> QED BY <1>8, <2>1 DEF IsInjective
<1>11. Range(page) \subseteq Merged
  BY <1>7, <1>8 DEF Range
\* A memory is on the page when fewer than its length are above it.
<1>12. ASSUME NEW id \in Merged, count(id) < Length
       PROVE  count(id) + 1 \in 1..Length /\ page[count(id) + 1] = id
  <2>1. count(id) \in Nat
    BY <1>1, <1>3
  <2>2. count(id) + 1 \in 1..Length /\ (count(id) + 1) - 1 = count(id)
    BY <1>5, <1>12, <2>1
  <2>3. count(page[count(id) + 1]) = count(id) /\ page[count(id) + 1] \in Merged
    BY <1>7, <2>2
  <2> QED BY <1>3, <2>2, <2>3
<1>13. Len(page) < q.topK => Merged \subseteq Range(page)
  <2>1. SUFFICES ASSUME Length < q.topK, NEW id \in Merged PROVE id \in Range(page)
    BY <1>9
  <2>2. count(id) < Length
    BY <1>1, <1>3, <1>4, <1>5, <2>1
  <2> QED BY <1>8, <1>12, <2>2 DEF Range
<1>14. ASSUME NEW x \in Merged, NEW y \in Merged, Above(score, x, y), y \in Range(page)
       PROVE  /\ x \in Range(page)
              /\ \A i, j \in DOMAIN page : page[i] = x /\ page[j] = y => i < j
  <2>1. count(x) < count(y) /\ count(x) \in Nat /\ count(y) \in Nat
    BY <1>1, <1>3, <1>14
  <2>2. PICK k \in 1..Length : page[k] = y
    BY <1>8, <1>14 DEF Range
  <2>3. count(y) = k - 1
    BY <1>7, <2>2
  <2>4. count(x) < Length
    BY <1>5, <2>1, <2>3
  <2>5. x \in Range(page)
    BY <1>8, <1>12, <2>4 DEF Range
  <2>6. ASSUME NEW i \in 1..Length, NEW j \in 1..Length, page[i] = x, page[j] = y PROVE i < j
    <3>1. count(x) = i - 1 /\ count(y) = j - 1
      BY <1>7, <2>6
    <3> QED BY <1>5, <2>1, <3>1
  <2> QED BY <1>8, <2>5, <2>6
<1>15. \A x, y \in Merged :
          \/ Score(x, superseded) > Score(y, superseded)
          \/ Score(x, superseded) = Score(y, superseded) /\ x < y
          => Above(score, x, y)
  BY DEF Above
<1>16. Len(page) <= q.topK
  BY <1>1, <1>4, <1>5, <1>9
<1> HIDE DEF score
<1>17. IsPage(page, superseded)
  BY <1>9, <1>10, <1>11, <1>13, <1>14, <1>15, <1>16 DEF IsPage
<1> QED BY <1>17 DEF page

-----------------------------------------------------------------------------
(* More evidence, more relevance *)

LEMMA QuotientGrows ==
    ASSUME NEW a \in Nat, NEW b \in Nat, a <= b, NEW d \in Nat \ {0}
    PROVE  a \div d \in Nat /\ b \div d \in Nat /\ a \div d <= b \div d
<1> DEFINE x == a \div d
           y == b \div d
           r == a % d
           s == b % d
<1>1. x \in Int /\ y \in Int /\ r \in 0..(d - 1) /\ s \in 0..(d - 1)
  OBVIOUS
<1>2. a = d * x + r /\ b = d * y + s
  OBVIOUS
<1> HIDE DEF x, y, r, s
<1>3. ASSUME NEW z \in Int, z <= -1 PROVE d * z <= -d
  BY <1>3
<1>4. x \in Nat /\ y \in Nat
  <2>1. ~(x <= -1)
    BY <1>1, <1>2, <1>3
  <2>2. ~(y <= -1)
    BY <1>1, <1>2, <1>3
  <2> QED BY <1>1, <2>1, <2>2
<1>5. x <= y
  <2>1. d * (y - x) = b - s - (a - r)
    BY <1>1, <1>2
  <2>2. ~(y - x <= -1)
    <3>1. y - x <= -1 => d * (y - x) <= -d
      BY <1>1, <1>3
    <3> QED BY <1>1, <2>1, <3>1
  <2> QED BY <1>1, <2>2
<1> QED BY <1>4, <1>5 DEF x, y

LEMMA ProductGrows ==
    ASSUME NEW a \in Nat, NEW b \in Nat, NEW c \in Nat, NEW d \in Nat, a <= b, c <= d
    PROVE  a * c \in Nat /\ b * d \in Nat /\ a * c <= b * d
<1>1. a * c <= b * c
  OBVIOUS
<1>2. b * c <= b * d
  OBVIOUS
<1> QED BY <1>1, <1>2

LEMMA FourthGrows ==
    ASSUME NEW a \in Nat, NEW b \in Nat, a <= b
    PROVE  a * a * a * a \in Nat /\ b * b * b * b \in Nat /\ a * a * a * a <= b * b * b * b
<1>1. a * a \in Nat /\ b * b \in Nat /\ a * a <= b * b
  BY ProductGrows
<1>2. a * a * a \in Nat /\ b * b * b \in Nat /\ a * a * a <= b * b * b
  <2> DEFINE m == a * a
             n == b * b
  <2> HIDE DEF m, n
  <2>1. m * a \in Nat /\ n * b \in Nat /\ m * a <= n * b
    BY <1>1, ProductGrows DEF m, n
  <2> QED BY <2>1 DEF m, n
<1> DEFINE m == a * a * a
           n == b * b * b
<1> HIDE DEF m, n
<1>3. m * a \in Nat /\ n * b \in Nat /\ m * a <= n * b
  BY <1>2, ProductGrows DEF m, n
<1> QED BY <1>3 DEF m, n

LEMMA KeywordGradeGrows ==
    ASSUME FullMatch \in Nat, NEW best \in Nat, NEW a \in Nat, NEW b \in Nat, a <= b
    PROVE  /\ KeywordGrade(a, best) \in Nat /\ KeywordGrade(b, best) \in Nat
           /\ KeywordGrade(a, best) <= KeywordGrade(b, best)
<1> DEFINE c == best * best * best * FullMatch
           power(x) == x * x * x * x
           within(raw) == {g \in Grades : power(g) * c <= power(Unit * raw)}
<1>1. \A raw : KeywordGrade(raw, best) = Max(within(raw))
  BY DEF KeywordGrade
<1>2. c \in Nat
  <2>1. best * best \in Nat
    OBVIOUS
  <2>2. best * best * best \in Nat
    BY <2>1, ProductGrows
  <2> QED BY <2>2, ProductGrows
<1> HIDE DEF c
<1>3. Unit * a \in Nat /\ Unit * b \in Nat /\ Unit * a <= Unit * b /\ Grades = 0..20
  BY DEF Unit, Grades
<1>4. power(Unit * a) \in Nat /\ power(Unit * b) \in Nat /\ power(Unit * a) <= power(Unit * b)
  BY <1>3, FourthGrows
<1>5. 0 \in within(a) /\ 0 \in within(b)
  <2>1. power(0) * c = 0
    BY <1>2
  <2> HIDE DEF power
  <2> QED BY <1>3, <1>4, <2>1
<1>6. within(a) \subseteq within(b)
  <2>1. \A g \in Grades : power(g) * c \in Int
    <3>1. \A g \in Grades : power(g) \in Nat
      BY <1>3, FourthGrows
    <3> HIDE DEF power
    <3> QED BY <1>2, <3>1
  <2> HIDE DEF power
  <2> QED BY <1>4, <2>1
<1>7. within(a) \in SUBSET (0..20) /\ within(b) \in SUBSET (0..20)
  BY <1>3
<1> HIDE DEF within
<1>8. /\ Max(within(a)) \in within(a)
      /\ Max(within(b)) \in within(b) /\ \A y \in within(b) : y <= Max(within(b))
  BY <1>5, <1>7, MaxOf
<1> QED BY <1>1, <1>6, <1>7, <1>8

LEMMA MinMaxGrows ==
    ASSUME NEW v \in Nat, NEW w \in Nat, NEW lo \in Nat, NEW hi \in Nat, lo <= v, v <= w
    PROVE  MinMax(v, lo, hi) \in Nat /\ MinMax(w, lo, hi) \in Nat
           /\ MinMax(v, lo, hi) <= MinMax(w, lo, hi)
<1>1. CASE hi <= lo
  BY <1>1 DEF MinMax, Unit
<1>2. CASE ~(hi <= lo)
  <2>1. hi - lo \in Nat \ {0} /\ (v - lo) * 20 \in Nat /\ (w - lo) * 20 \in Nat
        /\ (v - lo) * 20 <= (w - lo) * 20
    BY <1>2
  <2>2. MinMax(v, lo, hi) = ((v - lo) * 20) \div (hi - lo)
        /\ MinMax(w, lo, hi) = ((w - lo) * 20) \div (hi - lo)
    BY <1>2 DEF MinMax, Unit
  <2> QED BY <2>1, <2>2, QuotientGrows
<1> QED BY <1>1, <1>2

\* The retrievers' results are of their types.
Graded ==
    /\ q \in Queries /\ kw \subseteq Ids /\ recent \in BOOLEAN
    /\ vec \in [DOMAIN vec -> Grades] /\ DOMAIN vec \subseteq Ids
    /\ overlap \in [Ids -> 0..Entities]

Best == Max({0} \cup {ScoreOf(k) : k \in kw})
KeywordPart(id) == IF Best = 0 THEN 0 ELSE KeywordGrade(KeywordScore(id), Best)
SemanticPart(id) ==
    IF id \notin DOMAIN vec THEN 0 ELSE MinMax(vec[id], Min(Range(vec)), Max(Range(vec)))
EntityPart(id) == (overlap[id] * Unit) \div Entities

LEMMA RelevanceParts ==
    ASSUME NEW id
    PROVE  Relevance(id) = 45 * KeywordPart(id) + 40 * SemanticPart(id) + 15 * EntityPart(id)
BY DEF Relevance, Best, KeywordPart, SemanticPart, EntityPart

LEMMA ScoreOfTyped ==
    ASSUME RetrieveAssumption, Graded, NEW id \in Ids PROVE ScoreOf(id) \in Nat /\ KeywordScore(id) \in Nat
<1>1. Rank[id] \in Nat
  BY DEF Rank, RetrieveAssumption
<1>2. id \in DOMAIN vec => vec[id] \in Nat
  BY DEF Graded, Grades, Unit
<1> QED BY <1>1, <1>2 DEF ScoreOf, KeywordScore

LEMMA BestTyped == ASSUME RetrieveAssumption, Graded PROVE Best \in Nat
<1> DEFINE f == [k \in kw |-> ScoreOf(k)]
           S == {ScoreOf(k) : k \in kw}
<1>1. kw \subseteq Ids /\ IsFiniteSet(kw)
  BY FS_Subset DEF Graded, RetrieveAssumption
<1>2. f \in Surjection(kw, S)
  BY DEF Surjection
<1>3. IsFiniteSet(S)
  <2> HIDE DEF f, S
  <2> QED BY <1>1, <1>2, FS_Surjection
<1>4. S \subseteq Nat
  BY <1>1, ScoreOfTyped
<1> HIDE DEF S
<1>5. PICK b \in Nat : S \subseteq 0..b
  BY <1>3, <1>4, FiniteBounded
<1>6. {0} \cup S \in SUBSET (0..b)
  BY <1>5
<1>7. Max({0} \cup S) \in {0} \cup S
  BY <1>6, MaxOf
<1>8. Max({0} \cup S) \in Nat
  <2> DEFINE E == {0} \cup S
  <2>1. E \subseteq Nat /\ Max(E) \in E
    BY <1>4, <1>7
  <2> HIDE DEF E
  <2>2. Max(E) \in Nat
    BY <2>1
  <2> QED BY <2>2 DEF E
<1>9. Best = Max({0} \cup S)
  BY DEF Best, S
<1> QED BY <1>8, <1>9

LEMMA SimilaritiesBounded ==
    ASSUME Graded, NEW id \in DOMAIN vec
    PROVE  /\ vec[id] \in Nat /\ Min(Range(vec)) \in Nat /\ Max(Range(vec)) \in Nat
           /\ Min(Range(vec)) <= vec[id]
<1>1. Range(vec) \subseteq 0..20 /\ vec[id] \in Range(vec)
  BY DEF Graded, Range, Grades, Unit
<1>2. Min(Range(vec)) \in Range(vec) /\ \A y \in Range(vec) : Min(Range(vec)) <= y
  <2>1. Range(vec) \in SUBSET Nat /\ Range(vec) # {}
    BY <1>1
  <2> QED BY <2>1, MinOf
<1>3. Max(Range(vec)) \in Range(vec)
  <2>1. Range(vec) \in SUBSET (0..20) /\ Range(vec) # {}
    BY <1>1
  <2> QED BY <2>1, MaxOf
<1> QED BY <1>1, <1>2, <1>3

\* Each part grows with its evidence.
LEMMA PartsGrow ==
    ASSUME RetrieveAssumption, Graded, NEW x \in Ids, NEW y \in Ids,
           KeywordScore(y) <= KeywordScore(x),
           y \in DOMAIN vec => x \in DOMAIN vec /\ vec[y] <= vec[x],
           overlap[y] <= overlap[x]
    PROVE  Relevance(x) \in Nat /\ Relevance(y) \in Nat /\ Relevance(y) <= Relevance(x)
<1>1. /\ KeywordPart(x) \in Nat /\ KeywordPart(y) \in Nat
      /\ KeywordPart(y) <= KeywordPart(x)
  <2>1. KeywordScore(x) \in Nat /\ KeywordScore(y) \in Nat /\ Best \in Nat /\ FullMatch \in Nat
    BY ScoreOfTyped, BestTyped DEF RetrieveAssumption
  <2> DEFINE a == KeywordScore(y)
             b == KeywordScore(x)
  <2>2. /\ KeywordGrade(a, Best) \in Nat /\ KeywordGrade(b, Best) \in Nat
        /\ KeywordGrade(a, Best) <= KeywordGrade(b, Best)
    <3>1. a <= b
      OBVIOUS
    <3> HIDE DEF a, b
    <3> QED BY <2>1, <3>1, KeywordGradeGrows DEF a, b
  <2>3. /\ KeywordPart(x) = IF Best = 0 THEN 0 ELSE KeywordGrade(b, Best)
        /\ KeywordPart(y) = IF Best = 0 THEN 0 ELSE KeywordGrade(a, Best)
    BY DEF KeywordPart
  <2> HIDE DEF a, b
  <2> QED BY <2>2, <2>3
<1>2. /\ SemanticPart(x) \in Nat /\ SemanticPart(y) \in Nat
      /\ SemanticPart(y) <= SemanticPart(x)
  <2>1. ASSUME NEW id \in DOMAIN vec PROVE SemanticPart(id) \in Nat
    <3>1. /\ vec[id] \in Nat /\ Min(Range(vec)) \in Nat /\ Max(Range(vec)) \in Nat
          /\ Min(Range(vec)) <= vec[id]
      BY SimilaritiesBounded
    <3> QED BY <3>1, MinMaxGrows DEF SemanticPart
  <2>2. CASE y \notin DOMAIN vec
    <3>1. SemanticPart(y) = 0
      BY <2>2 DEF SemanticPart
    <3>2. SemanticPart(x) \in Nat
      BY <2>1 DEF SemanticPart
    <3> QED BY <3>1, <3>2
  <2>3. CASE y \in DOMAIN vec
    <3>1. /\ vec[y] \in Nat /\ vec[x] \in Nat /\ vec[y] <= vec[x]
          /\ Min(Range(vec)) \in Nat /\ Max(Range(vec)) \in Nat /\ Min(Range(vec)) <= vec[y]
      BY <2>3, SimilaritiesBounded
    <3> QED BY <2>3, <3>1, MinMaxGrows DEF SemanticPart
  <2> QED BY <2>2, <2>3
<1>3. /\ EntityPart(x) \in Nat /\ EntityPart(y) \in Nat
      /\ EntityPart(y) <= EntityPart(x)
  <2>1. overlap[x] \in Nat /\ overlap[y] \in Nat /\ Entities \in Nat \ {0}
    BY DEF Graded, RetrieveAssumption
  <2>2. overlap[x] * 20 \in Nat /\ overlap[y] * 20 \in Nat /\ overlap[y] * 20 <= overlap[x] * 20
    BY <2>1
  <2> QED BY <2>1, <2>2, QuotientGrows DEF EntityPart, Unit
<1>4. /\ Relevance(x) = 45 * KeywordPart(x) + 40 * SemanticPart(x) + 15 * EntityPart(x)
      /\ Relevance(y) = 45 * KeywordPart(y) + 40 * SemanticPart(y) + 15 * EntityPart(y)
  BY RelevanceParts
<1> QED BY <1>1, <1>2, <1>3, <1>4

LEMMA ScoresGrow ==
    ASSUME RetrieveAssumption, Graded, NEW x \in Ids, NEW y \in Ids,
           KeywordScore(y) <= KeywordScore(x),
           y \in DOMAIN vec => x \in DOMAIN vec /\ vec[y] <= vec[x],
           overlap[y] <= overlap[x],
           Recency[y] <= Recency[x], y \in Popular => x \in Popular,
           TypePriority[TypeOf[y]] <= TypePriority[TypeOf[x]]
    PROVE  /\ Undemoted(x) \in Nat /\ Undemoted(y) \in Nat /\ 0 < Undemoted(y)
           /\ Undemoted(y) <= Undemoted(x)
           /\ Recency[y] < Recency[x] => Undemoted(y) < Undemoted(x)
<1>1. Relevance(x) \in Nat /\ Relevance(y) \in Nat /\ Relevance(y) <= Relevance(x)
  BY PartsGrow
<1>2. Recency[x] \in Nat /\ Recency[y] \in Nat
  BY DEF RetrieveAssumption, Grades, Unit
<1>3. /\ TypePriority[TypeOf[x]] \in Nat \ {0} /\ TypePriority[TypeOf[y]] \in Nat \ {0}
  <2>1. TypeOf[x] \in Types /\ TypeOf[y] \in Types
    BY DEF RetrieveAssumption
  <2> QED BY <2>1 DEF RetrieveAssumption, Unit
<1>4. Frequency(x) \in {0, 5} /\ Frequency(y) \in {0, 5} /\ Frequency(y) <= Frequency(x)
  BY DEF Frequency
<1> QED BY <1>1, <1>2, <1>3, <1>4 DEF Undemoted

LEMMA ScoreDemoted ==
    ASSUME NEW id, NEW superseded
    PROVE  Score(id, superseded) = (IF id \in superseded THEN 6 ELSE 10) * Undemoted(id)
BY DEF Score

LEMMA ScoreTyped ==
    ASSUME RetrieveAssumption, Graded, NEW id \in Ids, NEW superseded PROVE Score(id, superseded) \in Int
<1>1. KeywordScore(id) \in Nat /\ overlap[id] \in Nat /\ Recency[id] \in Nat
  BY ScoreOfTyped DEF Graded, RetrieveAssumption, Grades, Unit
<1>2. id \in DOMAIN vec => vec[id] \in Nat
  BY DEF Graded, Grades, Unit
<1>3. TypePriority[TypeOf[id]] \in Nat
  BY DEF RetrieveAssumption, Unit
<1>4. Undemoted(id) \in Nat
  BY <1>1, <1>2, <1>3, ScoresGrow
<1> QED BY <1>4, ScoreDemoted

-----------------------------------------------------------------------------
(* The inductive invariant *)

StoreInv ==
    /\ RepoTypeOK
    /\ edges \subseteq Replaces /\ \A e \in edges : Live(e[1]) /\ Live(e[2])
    /\ deleting \subseteq Ids /\ changes \in 0..MaxChanges
    /\ \A id \in LiveIds : memory[id].content = ContentOf[id] /\ memory[id].type = TypeOf[id]
    /\ LiveIds \subseteq seen /\ seen \subseteq Ids /\ steady \subseteq LiveIds

QueryInv ==
    /\ q \in Queries /\ pc \in Statements \cup {"answered", "failed"}
    /\ failed \subseteq Statements /\ full \subseteq Statements \cup {"scan"}

ForKeywords == {"keyword", "hydrateKeyword", "searchable", "fallback"}

\* What the keyword retriever missed, its LIMIT cut off; what the fallback
\* missed is not of the types, or less recent.
KeywordInv ==
    /\ kw \subseteq seen /\ recent \in BOOLEAN
    /\ pc = "keyword" => kw = {}
    /\ pc \in ForKeywords => ~recent
    /\ pc = "fallback" => ~Lexes
    /\ ~recent => \A id \in kw : Lexes /\ Rank[id] > 0
    /\ ~recent /\ Lexes /\ pc \notin {"keyword", "failed"} =>
          \A x \in steady \ kw : Rank[x] > 0 =>
              "keyword" \in full /\ \A y \in kw : Rank[y] >= Rank[x]
    /\ recent => /\ ~Lexes
                 /\ \A x \in steady \ kw : (q.types = {} \/ TypeOf[x] \in q.types) =>
                       \A y \in kw : Recency[y] >= Recency[x]

BeforeVectors == ForKeywords \cup {"embed", "vector"}
VectorAsked == HasEmbedder /\ HasText /\ {"embed", "vector", "hydrateVector"} \cap failed = {}

VectorInv ==
    /\ vec \in [DOMAIN vec -> Grades] /\ DOMAIN vec \subseteq Ids
    /\ pc # "hydrateVector" => DOMAIN vec \subseteq seen
    /\ pc \in BeforeVectors => DOMAIN vec = {}
    /\ \A id \in DOMAIN vec \cap steady : embedding[id] # NoVector /\ vec[id] = Similarity[id]
    /\ pc \notin BeforeVectors \cup {"failed"} =>
          \A x \in steady \ DOMAIN vec : embedding[x] # NoVector =>
              \/ DOMAIN vec = {} /\ ~VectorAsked
              \/ "scan" \in full
              \/ "vector" \in full /\ \A y \in DOMAIN vec : vec[y] >= Similarity[x]

BeforeEntities == BeforeVectors \cup {"hydrateVector", "entity"}
BeforeOverlap == BeforeEntities \cup {"overlap"}
EntityAsked == LooksForEntities /\ Asked("entity")

EntityInv ==
    /\ ent \subseteq seen
    /\ pc \in BeforeEntities => ent = {}
    /\ \A id \in ent : Named[ContentOf[id]] > 0
    /\ pc \notin BeforeEntities \cup {"failed"} =>
          \A x \in steady \ ent : Named[ContentOf[x]] > 0 =>
              \/ ent = {} /\ ~EntityAsked
              \/ "entity" \in full /\ \A y \in ent : Recency[y] >= Recency[x]
    /\ overlap \in [Ids -> 0..Entities]
    /\ \A id \in Ids : overlap[id] <= Named[ContentOf[id]]
    /\ pc \in BeforeOverlap => \A id \in Ids : overlap[id] = 0
    /\ \/ \A id \in Ids : overlap[id] = 0
       \/ \A id \in Candidates \cap steady : overlap[id] = Named[ContentOf[id]]

AnswerInv ==
    /\ answer \in Seq(Ids) /\ Len(answer) <= q.topK /\ IsInjective(answer)
    /\ AnsweredWasLive /\ NothingLost /\ BetterRanksHigher /\ ReplacementFirst

RetrieveInv == StoreInv /\ QueryInv /\ KeywordInv /\ VectorInv /\ EntityInv /\ AnswerInv

-----------------------------------------------------------------------------
(* What the steps of others may change *)

\* The store's history only grows one way, and nothing happens to a memory that
\* stays steady: not to its vector, nor, once it is ranked, to the edges at it.
StoreStep ==
    /\ seen \subseteq seen' /\ steady' \subseteq steady
    /\ \A id \in steady' : embedding'[id] = embedding[id]
    /\ Answered => \A e \in Replaces :
          e[1] \in steady' \/ e[2] \in steady' => (e \in edges <=> e \in edges')

\* The part of StoreInv that a statement on one vertex disturbs.
LEMMA OneVertex ==
    ASSUME RetrieveAssumption, RepoAssumption, StoreInv, NEW id \in Ids, NEW row \in Rows \cup {Deleted},
           memory' = [memory EXCEPT ![id] = row]
    PROVE  /\ memory' \in [Ids -> Rows \cup {Unborn, Deleted}]
           /\ \A other \in Ids : other # id => memory'[other] = memory[other]
           /\ memory'[id] = row /\ Deleted \notin Rows
BY DEF StoreInv, RepoTypeOK, RepoAssumption

LEMMA CreateStep ==
    ASSUME RetrieveAssumption, RepoAssumption, StoreInv, NEW id \in Ids, Create(id),
           changes' \in 0..MaxChanges
    PROVE  StoreInv' /\ StoreStep
<1> DEFINE row == [content |-> ContentOf[id], type |-> TypeOf[id],
                   content_hash |-> ContentOf[id], used |-> FALSE]
<1>1. row \in Rows
  BY DEF Rows, RetrieveAssumption
<1>2. memory' = [memory EXCEPT ![id] = row]
  BY DEF Create, CreateMemory
<1>3. row.content = ContentOf[id] /\ row.type = TypeOf[id]
  OBVIOUS
<1> HIDE DEF row
<1>4. /\ memory' \in [Ids -> Rows \cup {Unborn, Deleted}]
      /\ \A other \in Ids : other # id => memory'[other] = memory[other]
      /\ memory'[id] = row
  BY <1>1, <1>2, OneVertex
<1>5. LiveIds' = LiveIds \cup {id}
  BY <1>1, <1>4 DEF LiveIds, Live
<1>6. /\ embedding' = embedding /\ edges' = edges /\ deleting' = deleting /\ steady' = steady
      /\ seen' = seen \cup {id}
  BY DEF Create
<1>7. StoreStep
  BY <1>6 DEF StoreStep
<1>8. RepoTypeOK'
  BY <1>4, <1>6 DEF StoreInv, RepoTypeOK
<1>9. edges' \subseteq Replaces /\ \A e \in edges' : Live(e[1])' /\ Live(e[2])'
  <2>1. \A e \in edges : e[1] \in Ids /\ e[2] \in Ids /\ Live(e[1]) /\ Live(e[2])
    BY DEF StoreInv, RetrieveAssumption
  <2>2. \A other \in Ids : Live(other) => Live(other)'
    BY <1>1, <1>4 DEF Live
  <2> QED BY <1>6, <2>1, <2>2 DEF StoreInv
<1>10. \A other \in LiveIds' :
          memory'[other].content = ContentOf[other] /\ memory'[other].type = TypeOf[other]
  BY <1>3, <1>4, <1>5 DEF StoreInv, LiveIds
<1>11. LiveIds' \subseteq seen' /\ seen' \subseteq Ids /\ steady' \subseteq LiveIds'
  BY <1>5, <1>6 DEF StoreInv
<1> QED BY <1>6, <1>7, <1>8, <1>9, <1>10, <1>11 DEF StoreInv

\* A statement that leaves the vertices alone.
LEMMA VerticesKept ==
    ASSUME StoreInv, memory' = memory, seen' = seen, steady' \subseteq steady,
           embedding' \in [Ids -> Contents \cup {NoVector}],
           edges' \subseteq Replaces, \A e \in edges' : Live(e[1]) /\ Live(e[2]),
           deleting' \subseteq Ids, changes' \in 0..MaxChanges
    PROVE  StoreInv'
<1>1. \A id : Live(id)' <=> Live(id)
  BY DEF Live
<1>2. LiveIds' = LiveIds
  BY <1>1 DEF LiveIds
<1>3. RepoTypeOK'
  BY DEF StoreInv, RepoTypeOK
<1>4. \A e \in edges' : Live(e[1])' /\ Live(e[2])'
  BY <1>1
<1> QED BY <1>2, <1>3, <1>4 DEF StoreInv

LEMMA EmbedStep ==
    ASSUME RetrieveAssumption, StoreInv, NEW id \in Ids, Embed(id), changes' \in 0..MaxChanges
    PROVE  StoreInv' /\ StoreStep
<1>1. ContentOf[id] \in Contents
  BY DEF RetrieveAssumption
<1>2. /\ embedding' \in [Ids -> Contents \cup {NoVector}]
      /\ \A other \in Ids : other # id => embedding'[other] = embedding[other]
  BY <1>1 DEF Embed, StoreEmbedding, StoreInv, RepoTypeOK
<1>3. /\ memory' = memory /\ edges' = edges /\ deleting' = deleting /\ seen' = seen
      /\ steady' = steady \ {id}
  BY DEF Embed
<1>4. StoreInv'
  BY <1>2, <1>3, VerticesKept DEF StoreInv
<1>5. StoreStep
  <2>1. steady \subseteq Ids
    BY DEF StoreInv, LiveIds
  <2> QED BY <1>2, <1>3, <2>1 DEF StoreStep
<1> QED BY <1>4, <1>5

LEMMA BeginDeleteStep ==
    ASSUME StoreInv, NEW id \in Ids, BeginDelete(id), changes' \in 0..MaxChanges
    PROVE  StoreInv' /\ StoreStep
<1>1. /\ embedding' \in [Ids -> Contents \cup {NoVector}]
      /\ \A other \in Ids : other # id => embedding'[other] = embedding[other]
  BY DEF BeginDelete, DeleteEmbedding, StoreInv, RepoTypeOK
<1>2. /\ memory' = memory /\ edges' = edges /\ deleting' = deleting \cup {id} /\ seen' = seen
      /\ steady' = steady \ {id}
  BY DEF BeginDelete
<1>3. StoreInv'
  BY <1>1, <1>2, VerticesKept DEF StoreInv
<1>4. StoreStep
  <2>1. steady \subseteq Ids
    BY DEF StoreInv, LiveIds
  <2> QED BY <1>1, <1>2, <2>1 DEF StoreStep
<1> QED BY <1>3, <1>4

LEMMA SupersedeStep ==
    ASSUME RetrieveAssumption, StoreInv, NEW e \in Replaces, Supersede(e[1], e[2]),
           changes' \in 0..MaxChanges
    PROVE  StoreInv' /\ StoreStep
<1>1. e = <<e[1], e[2]>>
  BY DEF RetrieveAssumption
<1>2. /\ memory' = memory /\ embedding' = embedding /\ deleting' = deleting /\ seen' = seen
      /\ edges' = edges \cup {e} /\ Live(e[1]) /\ Live(e[2])
      /\ steady' = IF Answered THEN steady \ {e[1], e[2]} ELSE steady
  BY <1>1 DEF Supersede
<1>3. StoreInv'
  BY <1>2, VerticesKept DEF StoreInv, RepoTypeOK
<1>4. StoreStep
  BY <1>2 DEF StoreStep
<1> QED BY <1>3, <1>4

LEMMA EndDeleteStep ==
    ASSUME RetrieveAssumption, RepoAssumption, StoreInv, NEW id \in Ids, EndDelete(id),
           changes' \in 0..MaxChanges
    PROVE  StoreInv' /\ StoreStep
<1>1. /\ embedding' = embedding /\ seen' = seen /\ deleting' = deleting \ {id}
      /\ edges' = {e \in edges : id \notin {e[1], e[2]}}
      /\ steady' = {s \in steady : {<<s, id>>, <<id, s>>} \cap edges = {}} \ {id}
  BY DEF EndDelete
<1>2. /\ memory' \in [Ids -> Rows \cup {Unborn, Deleted}]
      /\ \A other \in Ids : other # id => memory'[other] = memory[other]
      /\ memory'[id] \notin Rows
  BY DEF EndDelete, DetachDelete, Live, StoreInv, RepoTypeOK, RepoAssumption
<1>3. LiveIds' = LiveIds \ {id}
  BY <1>2 DEF LiveIds, Live
<1>4. \A e \in Replaces : e = <<e[1], e[2]>> /\ e[1] \in Ids /\ e[2] \in Ids
  BY DEF RetrieveAssumption
<1>5. StoreStep
  <2>1. \A e \in Replaces :
           e[1] \in steady' \/ e[2] \in steady' => (e \in edges <=> e \in edges')
    <3>1. ASSUME NEW e \in Replaces, e[1] \in steady' \/ e[2] \in steady', e \in edges
          PROVE  id \notin {e[1], e[2]}
      BY <1>1, <1>4, <3>1
    <3> QED BY <1>1, <3>1
  <2> QED BY <1>1, <2>1 DEF StoreStep
<1>6. RepoTypeOK'
  BY <1>1, <1>2 DEF StoreInv, RepoTypeOK
<1>7. edges' \subseteq Replaces /\ \A e \in edges' : Live(e[1])' /\ Live(e[2])'
  BY <1>1, <1>2, <1>4 DEF StoreInv, Live
<1>8. \A other \in LiveIds' :
          memory'[other].content = ContentOf[other] /\ memory'[other].type = TypeOf[other]
  BY <1>2, <1>3 DEF StoreInv, LiveIds
<1>9. LiveIds' \subseteq seen' /\ seen' \subseteq Ids /\ steady' \subseteq LiveIds'
  BY <1>1, <1>3 DEF StoreInv
<1>10. deleting' \subseteq Ids
  BY <1>1 DEF StoreInv
<1> QED BY <1>5, <1>6, <1>7, <1>8, <1>9, <1>10 DEF StoreInv

LEMMA MeanwhileStep ==
    ASSUME RetrieveAssumption, RepoAssumption, StoreInv, Meanwhile
    PROVE  StoreInv' /\ StoreStep /\ UNCHANGED queryVars
<1>1. changes' \in 0..MaxChanges
  BY DEF Meanwhile, StoreInv, RetrieveAssumption
<1>2. ASSUME \E id \in Ids : Create(id) \/ Embed(id) \/ BeginDelete(id) \/ EndDelete(id)
      PROVE  StoreInv' /\ StoreStep
  BY <1>1, <1>2, CreateStep, EmbedStep, BeginDeleteStep, EndDeleteStep
<1>3. ASSUME \E e \in Replaces : Supersede(e[1], e[2])
      PROVE  StoreInv' /\ StoreStep
  BY <1>1, <1>3, SupersedeStep
<1> QED BY <1>2, <1>3 DEF Meanwhile

\* The statement that counts the accesses leaves what a memory says.
LEMMA CountStep ==
    ASSUME RetrieveAssumption, StoreInv, CountAccess PROVE StoreInv' /\ StoreStep
<1>1. CASE memory' = memory
  <2>1. UNCHANGED <<embedding, edges, deleting, changes, seen, steady>>
    BY DEF CountAccess
  <2>2. StoreInv'
    BY <1>1, <2>1, VerticesKept DEF StoreInv, RepoTypeOK
  <2> QED BY <2>1, <2>2 DEF StoreStep
<1>2. CASE IncrementAccessCounts(Range(answer))
  <2>1. UNCHANGED <<embedding, edges, deleting, changes, seen, steady>>
    BY DEF CountAccess
  <2>2. \A id \in Ids : /\ Live(id) => memory'[id] \in Rows /\ memory'[id].content = memory[id].content
                                       /\ memory'[id].type = memory[id].type
                        /\ ~Live(id) => memory'[id] = memory[id]
    BY <1>2 DEF IncrementAccessCounts, Live, Rows
  <2>3. memory' \in [Ids -> Rows \cup {Unborn, Deleted}]
    BY <1>2, <2>2 DEF IncrementAccessCounts, StoreInv, RepoTypeOK, Live
  <2>4. \A id \in Ids : Live(id)' <=> Live(id)
    BY <2>2 DEF Live
  <2>5. LiveIds' = LiveIds
    BY <2>4 DEF LiveIds
  <2>6. RepoTypeOK'
    BY <2>1, <2>3 DEF StoreInv, RepoTypeOK
  <2>7. \A e \in edges' : Live(e[1])' /\ Live(e[2])'
    <3>1. \A e \in edges : e[1] \in Ids /\ e[2] \in Ids /\ Live(e[1]) /\ Live(e[2])
      BY DEF StoreInv, RetrieveAssumption
    <3> QED BY <2>1, <2>4, <3>1
  <2>8. \A id \in LiveIds' : memory'[id].content = ContentOf[id] /\ memory'[id].type = TypeOf[id]
    BY <2>2, <2>5 DEF StoreInv, LiveIds
  <2>9. StoreInv'
    BY <2>1, <2>5, <2>6, <2>7, <2>8 DEF StoreInv
  <2> QED BY <2>1, <2>9 DEF StoreStep
<1> QED BY <1>1, <1>2 DEF CountAccess

-----------------------------------------------------------------------------
(* A retriever's results say the same when other steps are taken. *)

LEMMA KeywordKept ==
    ASSUME KeywordInv, StoreStep, UNCHANGED <<kw, recent, q>>, full \subseteq full',
           pc' = pc \/ (pc \notin ForKeywords \cup {"failed"} /\ pc' \notin ForKeywords)
    PROVE  KeywordInv'
<1>1. Rank' = Rank /\ Lexes' = Lexes
  BY DEF Rank, Lexes
<1>2. pc \notin ForKeywords => pc # "keyword" /\ pc # "fallback"
  BY DEF ForKeywords
<1>3. pc' \notin ForKeywords => pc' # "keyword" /\ pc' # "fallback"
  BY DEF ForKeywords
<1>4. kw' \subseteq seen' /\ recent' \in BOOLEAN
  BY DEF KeywordInv, StoreStep
<1>5. (pc' = "keyword" => kw' = {}) /\ (pc' \in ForKeywords => ~recent') /\ (pc' = "fallback" => ~Lexes')
  BY <1>1, <1>2, <1>3 DEF KeywordInv
<1>6. ~recent' => \A id \in kw' : Lexes' /\ Rank'[id] > 0
  BY <1>1 DEF KeywordInv
<1>7. ~recent' /\ Lexes' /\ pc' \notin {"keyword", "failed"} =>
          \A x \in steady' \ kw' : Rank'[x] > 0 =>
              "keyword" \in full' /\ \A y \in kw' : Rank'[y] >= Rank'[x]
  BY <1>1, <1>2, <1>3 DEF KeywordInv, StoreStep
<1>8. recent' => /\ ~Lexes'
                 /\ \A x \in steady' \ kw' : (q'.types = {} \/ TypeOf[x] \in q'.types) =>
                       \A y \in kw' : Recency[y] >= Recency[x]
  BY <1>1 DEF KeywordInv, StoreStep
<1> QED BY <1>4, <1>5, <1>6, <1>7, <1>8 DEF KeywordInv

LEMMA SimilarityKept ==
    ASSUME StoreStep, steady' \subseteq Ids
    PROVE  \A id \in steady' : Similarity'[id] = Similarity[id] /\ embedding'[id] = embedding[id]
BY DEF Similarity, StoreStep

LEMMA VectorKept ==
    ASSUME VectorInv, StoreInv, StoreInv', StoreStep, UNCHANGED <<vec, q>>,
           failed \subseteq failed', full \subseteq full',
           \/ pc' = pc
           \/ pc \in BeforeVectors /\ pc' \in BeforeVectors \cup {"failed"}
           \/ pc \notin BeforeVectors \cup {"failed", "hydrateVector"}
              /\ pc' \notin BeforeVectors \cup {"hydrateVector"}
    PROVE  VectorInv'
<1>1. steady' \subseteq steady /\ seen \subseteq seen' /\ steady' \subseteq Ids
  BY DEF StoreStep, StoreInv, LiveIds
<1>2. \A id \in steady' : Similarity'[id] = Similarity[id] /\ embedding'[id] = embedding[id]
  BY <1>1, SimilarityKept
<1>3. VectorAsked' => VectorAsked
  BY DEF VectorAsked, HasText
<1>4. vec' \in [DOMAIN vec' -> Grades] /\ DOMAIN vec' \subseteq Ids
  BY DEF VectorInv
<1>5. pc' # "hydrateVector" => DOMAIN vec' \subseteq seen'
  BY <1>1 DEF VectorInv
<1>6. pc' \in BeforeVectors => DOMAIN vec' = {}
  BY DEF VectorInv
<1>7. \A id \in DOMAIN vec' \cap steady' : embedding'[id] # NoVector /\ vec'[id] = Similarity'[id]
  BY <1>1, <1>2 DEF VectorInv
<1>8. pc' \notin BeforeVectors \cup {"failed"} =>
          \A x \in steady' \ DOMAIN vec' : embedding'[x] # NoVector =>
              \/ DOMAIN vec' = {} /\ ~VectorAsked'
              \/ "scan" \in full'
              \/ "vector" \in full' /\ \A y \in DOMAIN vec' : vec'[y] >= Similarity'[x]
  <2>1. pc' \notin BeforeVectors \cup {"failed"} => pc \notin BeforeVectors \cup {"failed"}
    OBVIOUS
  <2> QED BY <1>1, <1>2, <1>3, <2>1 DEF VectorInv
<1> QED BY <1>4, <1>5, <1>6, <1>7, <1>8 DEF VectorInv

LEMMA EntityKept ==
    ASSUME EntityInv, StoreStep, UNCHANGED <<ent, overlap, q>>,
           failed \subseteq failed', full \subseteq full',
           pc \in BeforeOverlap \/ UNCHANGED <<kw, vec>>,
           \/ pc' = pc
           \/ pc \in BeforeEntities /\ pc' \in BeforeEntities \cup {"failed"}
           \/ pc \notin BeforeEntities \cup {"failed"} /\ pc' \notin BeforeOverlap
    PROVE  EntityInv'
<1>1. BeforeEntities \subseteq BeforeOverlap
  BY DEF BeforeOverlap
<1>2. EntityAsked' => EntityAsked
  BY DEF EntityAsked, Asked, LooksForEntities, NamesEntities
<1>3. ent' \subseteq seen' /\ steady' \subseteq steady
  BY DEF EntityInv, StoreStep
<1>4. pc' \in BeforeEntities => ent' = {}
  BY <1>1 DEF EntityInv
<1>5. \A id \in ent' : Named[ContentOf[id]] > 0
  BY DEF EntityInv
<1>6. pc' \notin BeforeEntities \cup {"failed"} =>
          \A x \in steady' \ ent' : Named[ContentOf[x]] > 0 =>
              \/ ent' = {} /\ ~EntityAsked'
              \/ "entity" \in full' /\ \A y \in ent' : Recency[y] >= Recency[x]
  <2>1. pc' \notin BeforeEntities \cup {"failed"} => pc \notin BeforeEntities \cup {"failed"}
    OBVIOUS
  <2> QED BY <1>2, <1>3, <2>1 DEF EntityInv
<1>7. overlap' \in [Ids -> 0..Entities] /\ \A id \in Ids : overlap'[id] <= Named[ContentOf[id]]
  BY DEF EntityInv
<1>8. pc' \in BeforeOverlap => \A id \in Ids : overlap'[id] = 0
  BY <1>1 DEF EntityInv, BeforeOverlap
<1>9. \/ \A id \in Ids : overlap'[id] = 0
      \/ \A id \in Candidates' \cap steady' : overlap'[id] = Named[ContentOf[id]]
  <2>1. CASE pc \in BeforeOverlap
    BY <2>1 DEF EntityInv
  <2>2. CASE UNCHANGED <<kw, vec>>
    <3>1. Candidates' = Candidates
      BY <2>2 DEF Candidates
    <3> QED BY <1>3, <3>1 DEF EntityInv
  <2> QED BY <2>1, <2>2
<1> QED BY <1>3, <1>4, <1>5, <1>6, <1>7, <1>8, <1>9 DEF EntityInv

LEMMA AnswerKept ==
    ASSUME AnswerInv, StoreInv, StoreInv', StoreStep, RetrieveAssumption, UNCHANGED <<answer, q>>,
           failed \subseteq failed', Answered' => Answered /\ full' = full /\ vec' = vec
    PROVE  AnswerInv'
<1>1. steady' \subseteq steady /\ seen \subseteq seen' /\ steady' \subseteq Ids
  BY DEF StoreStep, StoreInv, LiveIds
<1>2. \A id \in steady' : Similarity'[id] = Similarity[id] /\ embedding'[id] = embedding[id]
  BY <1>1, SimilarityKept
<1>3. Rank' = Rank
  BY DEF Rank
<1>4. \A id : InAnswer(id)' <=> InAnswer(id)
  BY DEF InAnswer
<1>5. \A id : Place(id)' = Place(id)
  BY DEF Place
<1>6. AnsweredWasLive'
  BY <1>1 DEF AnswerInv, AnsweredWasLive
<1>7. NothingLost'
  <2>1. SUFFICES ASSUME Answered', Len(answer) < q.topK, NEW id \in steady', Evidence(id)'
                 PROVE  InAnswer(id)
    BY <1>4 DEF NothingLost
  <2>2. full' = full /\ vec' = vec /\ Answered
    BY <2>1
  <2>3. Evidence(id)
    BY <1>2, <1>3, <2>1, <2>2 DEF Evidence, Lexes, HasText, LooksForEntities, NamesEntities, Asked
  <2> QED BY <1>1, <2>1, <2>2, <2>3 DEF AnswerInv, NothingLost
\* No edge of a steady memory came or went since.
<1>8. Answered' => \A id \in steady' : id \in {e[2] : e \in edges'} <=> id \in {e[2] : e \in edges}
  BY DEF StoreStep, StoreInv
<1>9. BetterRanksHigher'
  <2>1. SUFFICES ASSUME Answered', NEW x \in steady', NEW y \in steady', Beats(x, y)', InAnswer(y)
                 PROVE  InAnswer(x) /\ Place(x) < Place(y)
    BY <1>4, <1>5 DEF BetterRanksHigher
  <2>2. Beats(x, y)
    <3>1. /\ Ahead(Rank[x], Rank[y]) /\ Ahead(Named[ContentOf[x]], Named[ContentOf[y]])
          /\ Recency[x] > Recency[y] /\ (y \in Popular => x \in Popular)
          /\ TypePriority[TypeOf[x]] >= TypePriority[TypeOf[y]]
          /\ q.types = {} \/ TypeOf[x] \in q.types
      BY <1>3, <2>1 DEF Beats, Ahead
    <3>2. embedding[y] = NoVector \/ (embedding[x] # NoVector /\ Similarity[x] > Similarity[y])
      BY <1>2, <2>1 DEF Beats
    <3>3. x \notin {e[2] : e \in edges}
      BY <1>8, <2>1 DEF Beats
    <3>4. SeenToo(x, y)
      BY <2>1 DEF Beats, SeenToo
    <3> QED BY <3>1, <3>2, <3>3, <3>4 DEF Beats
  <2> QED BY <1>1, <2>1, <2>2 DEF AnswerInv, BetterRanksHigher
<1>10. ReplacementFirst'
  <2>1. Answered' /\ Asked("rank")' /\ full' \subseteq {"scan"}
        => Answered /\ Asked("rank") /\ full \subseteq {"scan"}
    BY DEF Asked
  <2>2. ASSUME Answered', NEW e \in edges', {e[1], e[2]} \subseteq steady'
        PROVE  /\ e \in edges /\ {e[1], e[2]} \subseteq steady
               /\ \A id \in {e[1], e[2]} : /\ Similarity'[id] = Similarity[id]
                                           /\ embedding'[id] = embedding[id]
               /\ e[1] \notin {f[2] : f \in edges'} <=> e[1] \notin {f[2] : f \in edges}
    BY <1>1, <1>2, <1>8, <2>2 DEF StoreStep, StoreInv
  <2>3. SUFFICES ASSUME Answered', GraphSignals, Asked("rank")', full' \subseteq {"scan"}, NEW e \in edges',
                        {e[1], e[2]} \subseteq steady', InAnswer(e[1]), InAnswer(e[2]),
                        Rank[e[1]] = Rank[e[2]], Similarity'[e[1]] = Similarity'[e[2]],
                        embedding'[e[1]] = NoVector <=> embedding'[e[2]] = NoVector,
                        SeenToo(e[1], e[2])', Named[ContentOf[e[1]]] = Named[ContentOf[e[2]]],
                        TypeOf[e[1]] = TypeOf[e[2]], Recency[e[1]] >= Recency[e[2]],
                        e[2] \in Popular => e[1] \in Popular,
                        e[1] \notin {f[2] : f \in edges'}
                 PROVE  Place(e[1]) < Place(e[2])
    BY <1>3, <1>4, <1>5 DEF ReplacementFirst
  <2>4. /\ e \in edges /\ {e[1], e[2]} \subseteq steady
        /\ Similarity[e[1]] = Similarity[e[2]]
        /\ embedding[e[1]] = NoVector <=> embedding[e[2]] = NoVector
        /\ e[1] \notin {f[2] : f \in edges}
    BY <2>2, <2>3
  <2>5. SeenToo(e[1], e[2])
    BY <2>3 DEF SeenToo
  <2> QED BY <2>1, <2>3, <2>4, <2>5 DEF AnswerInv, ReplacementFirst
<1> QED BY <1>6, <1>7, <1>9, <1>10 DEF AnswerInv

-----------------------------------------------------------------------------
(* Each statement of the query *)

LEMMA PoolTyped == ASSUME RetrieveAssumption, q \in Queries PROVE Pool \in Nat
<1>1. q.topK \in Nat \ {0} /\ PoolFactor \in Nat /\ MaxPool \in Nat
  BY DEF RetrieveAssumption
<1>2. q.topK * PoolFactor \in Nat
  BY <1>1
<1> QED BY <1>1, <1>2, MinOfTwo DEF Pool

\* A search for the best of S finds only these, and what it leaves its LIMIT cut
\* off.
LEMMA Searched ==
    ASSUME RetrieveAssumption, q \in Queries, NEW S \in SUBSET Ids, NEW grade,
           NEW hits \in Top(S, Pool, grade)
    PROVE  /\ hits \subseteq S
           /\ \A x \in S \ hits : Cardinality(hits) = Pool /\ \A y \in hits : grade[y] >= grade[x]
<1>1. IsFiniteSet(S)
  BY FS_Subset DEF RetrieveAssumption
<1>2. Pool \in Nat
  BY PoolTyped
<1> QED BY <1>1, <1>2, CutOff

\* Of a statement the store does not see.
LEMMA StoreUnseen ==
    ASSUME StoreInv, UNCHANGED storeVars PROVE StoreInv' /\ StoreStep
BY DEF StoreInv, StoreStep, storeVars, RepoTypeOK, LiveIds, Live

\* ... and that does not answer.
LEMMA NotYetAnswered ==
    ASSUME RetrieveAssumption, RetrieveInv, UNCHANGED storeVars, UNCHANGED <<answer, q>>,
           failed \subseteq failed', pc' \notin {"count", "answered"}
    PROVE  StoreInv' /\ StoreStep /\ AnswerInv'
<1>1. StoreInv' /\ StoreStep
  BY StoreUnseen DEF RetrieveInv
<1>2. ~Answered'
  BY DEF Answered
<1> QED BY <1>1, <1>2, AnswerKept DEF RetrieveInv

LEMMA SearchByKeywordsStep ==
    ASSUME RetrieveAssumption, RetrieveInv, SearchByKeywords PROVE RetrieveInv'
<1>1. /\ pc = "keyword" /\ UNCHANGED storeVars /\ UNCHANGED <<q, recent, vec, ent, overlap, answer>>
      /\ pc' \in {"fallback", "failed", "hydrateKeyword"}
      /\ failed \subseteq failed' /\ failed' \subseteq failed \cup {"keyword"}
  BY DEF SearchByKeywords, Goto, Fails
<1>2. \/ ~HasKeywords /\ pc' = "fallback" /\ kw' = kw /\ full' = full
      \/ pc' = "failed" /\ kw' = kw /\ full' = full
      \/ /\ pc' = "hydrateKeyword" /\ kw' \in Top(Matching, Pool, Rank)
         /\ Limited(kw', "keyword")
  BY DEF SearchByKeywords, Goto, Fails
<1>3. Matching \subseteq Ids /\ Matching \subseteq LiveIds
  BY DEF Matching, LiveIds
<1>4. q \in Queries
  BY DEF RetrieveInv, QueryInv
<1>5. full \subseteq full' /\ full' \subseteq full \cup {"keyword"}
  BY <1>2 DEF Limited
<1>6. StoreInv' /\ StoreStep /\ AnswerInv'
  BY <1>1, NotYetAnswered
<1>7. QueryInv'
  BY <1>1, <1>5 DEF RetrieveInv, QueryInv, Statements
<1>8. VectorInv'
  BY <1>1, <1>5, <1>6, VectorKept DEF RetrieveInv, BeforeVectors, ForKeywords
<1>9. EntityInv'
  BY <1>1, <1>5, <1>6, EntityKept
     DEF RetrieveInv, BeforeOverlap, BeforeEntities, BeforeVectors, ForKeywords
<1>10. Rank' = Rank /\ Lexes' = Lexes
  BY <1>1 DEF Rank, Lexes
<1>11. kw = {} /\ recent = FALSE /\ LiveIds \subseteq seen
  BY <1>1 DEF RetrieveInv, KeywordInv, StoreInv, ForKeywords
<1>12. KeywordInv'
  <2>1. CASE ~HasKeywords /\ pc' = "fallback" /\ kw' = kw /\ full' = full
    <3>1. ~Lexes'
      BY <1>10, <2>1 DEF HasKeywords, Lexes
    <3> QED BY <1>1, <1>11, <2>1, <3>1 DEF KeywordInv
  <2>2. CASE pc' = "failed" /\ kw' = kw /\ full' = full
    BY <1>1, <1>11, <2>2 DEF KeywordInv
  <2>3. CASE /\ pc' = "hydrateKeyword" /\ kw' \in Top(Matching, Pool, Rank)
             /\ Limited(kw', "keyword")
    <3>1. /\ kw' \subseteq Matching
          /\ \A x \in Matching \ kw' : "keyword" \in full' /\ \A y \in kw' : Rank[y] >= Rank[x]
      <4> DEFINE hits == kw'
      <4>1. /\ hits \in Top(Matching, Pool, Rank)
            /\ full' = IF Cardinality(hits) = Pool THEN full \cup {"keyword"} ELSE full
        BY <2>3 DEF Limited
      <4> HIDE DEF hits
      <4>2. /\ hits \subseteq Matching
            /\ \A x \in Matching \ hits : Cardinality(hits) = Pool /\ \A y \in hits : Rank[y] >= Rank[x]
        BY <1>3, <1>4, <4>1, Searched
      <4>3. \A x \in Matching \ hits : "keyword" \in full'
        BY <4>1, <4>2
      <4> QED BY <4>2, <4>3 DEF hits
    <3>2. kw' \subseteq seen' /\ \A id \in kw' : Lexes' /\ Rank'[id] > 0
      BY <1>1, <1>3, <1>10, <1>11, <3>1 DEF Matching, storeVars
    <3>3. Lexes' => \A x \in steady' \ kw' : Rank'[x] > 0 =>
              "keyword" \in full' /\ \A y \in kw' : Rank'[y] >= Rank'[x]
      <4>1. steady' \subseteq LiveIds
        BY <1>1 DEF RetrieveInv, StoreInv, storeVars
      <4> QED BY <1>10, <3>1, <4>1 DEF Matching
    <3> QED BY <1>1, <1>11, <2>3, <3>2, <3>3 DEF KeywordInv
  <2> QED BY <1>2, <2>1, <2>2, <2>3
<1> QED BY <1>6, <1>7, <1>8, <1>9, <1>12 DEF RetrieveInv

LEMMA HydrateKeywordHitsStep ==
    ASSUME RetrieveAssumption, RetrieveInv, hydrateKeywordHits PROVE RetrieveInv'
<1>1. /\ pc = "hydrateKeyword" /\ UNCHANGED storeVars
      /\ UNCHANGED <<q, recent, vec, ent, overlap, answer, full>>
      /\ pc' \in {"failed", "searchable", "embed"}
      /\ failed \subseteq failed' /\ failed' \subseteq failed \cup {"hydrateKeyword"}
  BY DEF hydrateKeywordHits, Goto, Fails
<1>2. \/ kw' = kw /\ pc' = "failed"
      \/ kw' = kw \cap LiveIds /\ pc' \in {"searchable", "embed"}
  BY DEF hydrateKeywordHits, Goto, Fails, Hydrated
<1>3. StoreInv' /\ StoreStep /\ AnswerInv'
  BY <1>1, NotYetAnswered
<1>4. QueryInv'
  BY <1>1 DEF RetrieveInv, QueryInv, Statements
<1>5. VectorInv'
  BY <1>1, <1>3, VectorKept DEF RetrieveInv, BeforeVectors, ForKeywords
<1>6. EntityInv'
  BY <1>1, <1>3, EntityKept DEF RetrieveInv, BeforeOverlap, BeforeEntities, BeforeVectors, ForKeywords
<1>7. Rank' = Rank /\ Lexes' = Lexes
  BY <1>1 DEF Rank, Lexes
<1>8. ~recent /\ LiveIds \subseteq seen /\ steady \subseteq LiveIds /\ seen' = seen /\ steady' = steady
  BY <1>1 DEF RetrieveInv, KeywordInv, StoreInv, ForKeywords, storeVars
<1>9. KeywordInv'
  BY <1>1, <1>2, <1>7, <1>8 DEF RetrieveInv, KeywordInv
<1> QED BY <1>3, <1>4, <1>5, <1>6, <1>9 DEF RetrieveInv

LEMMA KeywordsAreSearchableStep ==
    ASSUME RetrieveAssumption, RetrieveInv, KeywordsAreSearchable PROVE RetrieveInv'
<1>1. /\ pc = "searchable" /\ UNCHANGED storeVars
      /\ UNCHANGED <<q, kw, recent, vec, ent, overlap, answer, full>>
      /\ pc' = "embed" \/ (~Lexes /\ pc' = "fallback")
      /\ failed \subseteq failed' /\ failed' \subseteq failed \cup {"searchable"}
  BY DEF KeywordsAreSearchable, Goto, Fails
<1>2. StoreInv' /\ StoreStep /\ AnswerInv'
  BY <1>1, NotYetAnswered
<1>3. QueryInv'
  BY <1>1 DEF RetrieveInv, QueryInv, Statements
<1>4. VectorInv'
  BY <1>1, <1>2, VectorKept DEF RetrieveInv, BeforeVectors, ForKeywords
<1>5. EntityInv'
  BY <1>1, <1>2, EntityKept DEF RetrieveInv, BeforeOverlap, BeforeEntities, BeforeVectors, ForKeywords
<1>6. Rank' = Rank /\ Lexes' = Lexes /\ seen' = seen /\ steady' = steady
  BY <1>1 DEF Rank, Lexes, storeVars
<1>7. KeywordInv'
  BY <1>1, <1>6 DEF RetrieveInv, KeywordInv, ForKeywords
<1> QED BY <1>2, <1>3, <1>4, <1>5, <1>7 DEF RetrieveInv

LEMMA QueryMemoriesStep ==
    ASSUME RetrieveAssumption, RetrieveInv, QueryMemories PROVE RetrieveInv'
<1>1. /\ pc = "fallback" /\ UNCHANGED storeVars /\ UNCHANGED <<q, vec, ent, overlap, answer>>
      /\ pc' \in {"failed", "embed"}
      /\ failed \subseteq failed' /\ failed' \subseteq failed \cup {"fallback"}
  BY DEF QueryMemories, Goto, Fails
<1>2. \/ pc' = "failed" /\ kw' = kw /\ recent' = recent /\ full' = full
      \/ /\ pc' = "embed" /\ recent' = TRUE
         /\ kw' \in Top(OfTypes, Pool, Recency) /\ Limited(kw', "fallback")
  BY DEF QueryMemories, Goto, Fails
<1>3. OfTypes \subseteq Ids /\ OfTypes \subseteq LiveIds
  BY DEF OfTypes, LiveIds
<1>4. q \in Queries
  BY DEF RetrieveInv, QueryInv
<1>5. full \subseteq full' /\ full' \subseteq full \cup {"fallback"}
  BY <1>2 DEF Limited
<1>6. StoreInv' /\ StoreStep /\ AnswerInv'
  BY <1>1, NotYetAnswered
<1>7. QueryInv'
  BY <1>1, <1>5 DEF RetrieveInv, QueryInv, Statements
<1>8. VectorInv'
  BY <1>1, <1>5, <1>6, VectorKept DEF RetrieveInv, BeforeVectors, ForKeywords
<1>9. EntityInv'
  BY <1>1, <1>5, <1>6, EntityKept
     DEF RetrieveInv, BeforeOverlap, BeforeEntities, BeforeVectors, ForKeywords
<1>10. Rank' = Rank /\ Lexes' = Lexes /\ ~Lexes /\ seen' = seen /\ steady' = steady
  BY <1>1 DEF Rank, Lexes, RetrieveInv, KeywordInv, storeVars
<1>11. KeywordInv'
  <2>1. CASE pc' = "failed" /\ kw' = kw /\ recent' = recent /\ full' = full
    BY <1>1, <1>10, <2>1 DEF RetrieveInv, KeywordInv, ForKeywords
  <2>2. CASE /\ pc' = "embed" /\ recent' = TRUE
             /\ kw' \in Top(OfTypes, Pool, Recency) /\ Limited(kw', "fallback")
    <3>1. /\ kw' \subseteq OfTypes
          /\ \A x \in OfTypes \ kw' : \A y \in kw' : Recency[y] >= Recency[x]
      <4> DEFINE hits == kw'
      <4>1. /\ hits \in Top(OfTypes, Pool, Recency)
            /\ full' = IF Cardinality(hits) = Pool THEN full \cup {"fallback"} ELSE full
        BY <2>2 DEF Limited
      <4> HIDE DEF hits
      <4>2. /\ hits \subseteq OfTypes
            /\ \A x \in OfTypes \ hits : Cardinality(hits) = Pool /\ \A y \in hits : Recency[y] >= Recency[x]
        BY <1>3, <1>4, <4>1, Searched
      <4>3. \A x \in OfTypes \ hits : "fallback" \in full'
        BY <4>1, <4>2
      <4> QED BY <4>2, <4>3 DEF hits
    <3>2. kw' \subseteq seen'
      BY <1>3, <1>10, <3>1 DEF RetrieveInv, StoreInv
    <3>3. \A x \in steady : (q.types = {} \/ TypeOf[x] \in q.types) => x \in OfTypes
      BY DEF RetrieveInv, StoreInv, OfTypes
    <3>4. \A x \in steady' \ kw' : (q'.types = {} \/ TypeOf[x] \in q'.types) =>
             \A y \in kw' : Recency[y] >= Recency[x]
      BY <1>1, <1>10, <3>1, <3>3
    <3> QED BY <1>10, <2>2, <3>2, <3>4 DEF KeywordInv, ForKeywords
  <2> QED BY <1>2, <2>1, <2>2
<1> QED BY <1>6, <1>7, <1>8, <1>9, <1>11 DEF RetrieveInv

LEMMA EmbedQueryStep ==
    ASSUME RetrieveAssumption, RetrieveInv, EmbedQuery PROVE RetrieveInv'
<1>1. /\ pc = "embed" /\ UNCHANGED storeVars
      /\ UNCHANGED <<q, kw, recent, vec, ent, overlap, answer, full>>
      /\ pc' \in {"entity", "vector"}
      /\ failed \subseteq failed' /\ failed' \subseteq failed \cup {"embed"}
  BY DEF EmbedQuery, Goto, Fails
\* Who goes past the vector retriever does not ask it.
<1>2. pc' = "entity" => ~VectorAsked'
  <2>1. HasText' = HasText
    BY <1>1 DEF HasText
  <2>2. pc' = "entity" => ~(HasEmbedder /\ HasText) \/ "embed" \in failed'
    BY DEF EmbedQuery, Goto, Fails
  <2> QED BY <2>1, <2>2 DEF VectorAsked
<1>3. StoreInv' /\ StoreStep /\ AnswerInv'
  BY <1>1, NotYetAnswered
<1>4. QueryInv'
  BY <1>1 DEF RetrieveInv, QueryInv, Statements
<1>5. KeywordInv'
  BY <1>1, <1>3, KeywordKept DEF RetrieveInv, ForKeywords
<1>6. EntityInv'
  BY <1>1, <1>3, EntityKept DEF RetrieveInv, BeforeOverlap, BeforeEntities, BeforeVectors, ForKeywords
<1>7. DOMAIN vec' = {} /\ vec' = vec
  BY <1>1 DEF RetrieveInv, VectorInv, BeforeVectors
<1>8. VectorInv'
  <2>1. pc' \notin BeforeVectors => pc' = "entity"
    BY <1>1 DEF BeforeVectors
  <2> QED BY <1>2, <1>7, <2>1 DEF RetrieveInv, VectorInv
<1> QED BY <1>3, <1>4, <1>5, <1>6, <1>8 DEF RetrieveInv

\* The vector search finds rows that have a vector and, if exact, misses only
\* what its LIMIT cut off.
LEMMA NeighboursFound ==
    ASSUME RetrieveAssumption, q \in Queries, NEW hits \in Neighbours
    PROVE  /\ hits \subseteq Embedded
           /\ Exact => \A x \in Embedded \ hits :
                 Cardinality(hits) = Pool /\ \A y \in hits : Similarity[y] >= Similarity[x]
<1>1. Embedded \in SUBSET Ids
  BY DEF Embedded
<1>2. IsFiniteSet(Embedded) /\ Cardinality(Embedded) \in Nat
  BY <1>1, FS_Subset, FS_CardinalityType DEF RetrieveAssumption
<1>3. CASE q.scoped
  <2>1. PICK S \in Materialized : hits \in Top(S, Pool, Similarity)
    BY <1>3 DEF Neighbours
  <2>2. S \subseteq Embedded /\ Cardinality(S) = Min({ScopedCandidates, Cardinality(Embedded)})
    BY <2>1 DEF Materialized
  <2>3. /\ hits \subseteq S
        /\ \A x \in S \ hits :
              Cardinality(hits) = Pool /\ \A y \in hits : Similarity[y] >= Similarity[x]
    <3>1. S \in SUBSET Ids
      BY <1>1, <2>2
    <3> QED BY <2>1, <3>1, Searched
  <2>4. Exact => S = Embedded
    <3>1. Exact => Cardinality(S) = Cardinality(Embedded)
      <4>1. Cardinality(Embedded) <= ScopedCandidates =>
               Min({ScopedCandidates, Cardinality(Embedded)}) = Cardinality(Embedded)
        BY <1>2, MinOfTwo DEF RetrieveAssumption
      <4> QED BY <2>2, <4>1 DEF Exact
    <3> QED BY <1>2, <2>2, <3>1, FS_Subset
  <2> QED BY <2>2, <2>3, <2>4
<1>4. CASE ~q.scoped
  BY <1>4 DEF Neighbours, Exact
<1> QED BY <1>3, <1>4

LEMMA NearestNeighboursStep ==
    ASSUME RetrieveAssumption, RetrieveInv, nearestNeighbours PROVE RetrieveInv'
<1>1. /\ pc = "vector" /\ UNCHANGED storeVars
      /\ UNCHANGED <<q, kw, recent, ent, overlap, answer>>
      /\ pc' \in {"entity", "hydrateVector"}
      /\ failed \subseteq failed' /\ failed' \subseteq failed \cup {"vector"}
      /\ full \subseteq full' /\ full' \subseteq full \cup {"vector", "scan"}
  BY DEF nearestNeighbours, Goto, Fails, Limited
<1>2. StoreInv' /\ StoreStep /\ AnswerInv'
  BY <1>1, NotYetAnswered
<1>3. QueryInv'
  BY <1>1 DEF RetrieveInv, QueryInv, Statements
<1>4. KeywordInv'
  BY <1>1, <1>2, KeywordKept DEF RetrieveInv, ForKeywords
<1>5. EntityInv'
  BY <1>1, <1>2, EntityKept DEF RetrieveInv, BeforeOverlap, BeforeEntities, BeforeVectors, ForKeywords
<1>6. Similarity' = Similarity /\ embedding' = embedding /\ steady' = steady /\ steady \subseteq Ids
  BY <1>1 DEF Similarity, storeVars, RetrieveInv, StoreInv, LiveIds
<1>7. CASE pc' = "entity" /\ "vector" \in failed' /\ vec' = vec
  <2>1. DOMAIN vec = {}
    BY <1>1 DEF RetrieveInv, VectorInv, BeforeVectors
  <2>2. ~VectorAsked'
    BY <1>7 DEF VectorAsked
  <2> QED BY <1>2, <1>3, <1>4, <1>5, <1>7, <2>1, <2>2 DEF RetrieveInv, VectorInv, BeforeVectors, ForKeywords
<1>8. CASE pc' = "hydrateVector" /\ \E hits \in Neighbours :
              /\ vec' = Restrict(Similarity, hits)
              /\ full' = full \cup (IF Cardinality(hits) = Pool THEN {"vector"} ELSE {})
                            \cup (IF Exact THEN {} ELSE {"scan"})
  <2>1. PICK hits \in Neighbours :
           /\ vec' = [id \in hits |-> Similarity[id]]
           /\ full' = full \cup (IF Cardinality(hits) = Pool THEN {"vector"} ELSE {})
                         \cup (IF Exact THEN {} ELSE {"scan"})
    BY <1>8 DEF Restrict
  <2>2. /\ hits \subseteq Embedded
        /\ Exact => \A x \in Embedded \ hits :
              Cardinality(hits) = Pool /\ \A y \in hits : Similarity[y] >= Similarity[x]
    BY <2>1, NeighboursFound DEF RetrieveInv, QueryInv
  <2>3. DOMAIN vec' = hits /\ hits \subseteq Ids
    BY <2>1, <2>2 DEF Embedded
  <2>4. \A id \in hits : vec'[id] = Similarity[id] /\ vec'[id] \in Grades
    <3>1. ASSUME NEW id \in hits PROVE Similarity[id] \in Grades
      <4>1. embedding[id] \in Contents /\ id \in Ids /\ embedding[id] # NoVector
        BY <2>2, <2>3 DEF Embedded, RetrieveInv, StoreInv, RepoTypeOK
      <4>2. Similarity[id] = Cosine[embedding[id]]
        BY <4>1 DEF Similarity
      <4> QED BY <4>1, <4>2 DEF RetrieveAssumption
    <3> QED BY <2>1, <3>1
  <2>5. vec' \in [DOMAIN vec' -> Grades]
    BY <2>1, <2>3, <2>4
  <2>6. \A id \in DOMAIN vec' \cap steady' : embedding'[id] # NoVector /\ vec'[id] = Similarity'[id]
    BY <1>6, <2>2, <2>3, <2>4 DEF Embedded
  <2>7. \A x \in steady' \ DOMAIN vec' : embedding'[x] # NoVector =>
           \/ "scan" \in full'
           \/ "vector" \in full' /\ \A y \in DOMAIN vec' : vec'[y] >= Similarity'[x]
    BY <1>1, <1>6, <2>1, <2>2, <2>3, <2>4 DEF Embedded
  <2>8. VectorInv'
    BY <1>8, <2>3, <2>5, <2>6, <2>7 DEF VectorInv, BeforeVectors, ForKeywords
  <2> QED BY <1>2, <1>3, <1>4, <1>5, <2>8 DEF RetrieveInv
<1> QED BY <1>1, <1>7, <1>8 DEF nearestNeighbours, Goto, Fails

LEMMA HydrateStep ==
    ASSUME RetrieveAssumption, RetrieveInv, hydrate PROVE RetrieveInv'
<1>1. /\ pc = "hydrateVector" /\ UNCHANGED storeVars
      /\ UNCHANGED <<q, kw, recent, ent, overlap, answer, full>> /\ pc' = "entity"
      /\ failed \subseteq failed' /\ failed' \subseteq failed \cup {"hydrateVector"}
  BY DEF hydrate, Goto, Fails
<1>2. StoreInv' /\ StoreStep /\ AnswerInv'
  BY <1>1, NotYetAnswered
<1>3. QueryInv'
  BY <1>1 DEF RetrieveInv, QueryInv, Statements
<1>4. KeywordInv'
  BY <1>1, <1>2, KeywordKept DEF RetrieveInv, ForKeywords
<1>5. EntityInv'
  BY <1>1, <1>2, EntityKept DEF RetrieveInv, BeforeOverlap, BeforeEntities, BeforeVectors, ForKeywords
<1>6. Similarity' = Similarity /\ embedding' = embedding /\ steady' = steady /\ seen' = seen
      /\ steady \subseteq LiveIds /\ LiveIds \subseteq seen
  BY <1>1 DEF Similarity, storeVars, RetrieveInv, StoreInv
<1>7. VectorInv'
  <2>1. CASE vec' = <<>> /\ "hydrateVector" \in failed'
    <3>1. DOMAIN vec' = {} /\ vec' \in [DOMAIN vec' -> Grades]
      BY <2>1
    <3>2. ~VectorAsked'
      BY <2>1 DEF VectorAsked
    <3> QED BY <1>1, <3>1, <3>2 DEF VectorInv
  <2>2. CASE vec' = [id \in DOMAIN vec \cap LiveIds |-> vec[id]] /\ failed' = failed
    <3>1. DOMAIN vec' = DOMAIN vec \cap LiveIds /\ vec' \in [DOMAIN vec' -> Grades]
          /\ \A id \in DOMAIN vec' : vec'[id] = vec[id]
      BY <2>2 DEF RetrieveInv, VectorInv
    <3>2. DOMAIN vec' \subseteq seen' /\ DOMAIN vec' \subseteq Ids
      BY <1>6, <3>1 DEF LiveIds
    <3>3. \A id \in DOMAIN vec' \cap steady' : embedding'[id] # NoVector /\ vec'[id] = Similarity'[id]
      BY <1>6, <3>1 DEF RetrieveInv, VectorInv
    <3>4. VectorAsked' <=> VectorAsked
      BY <1>1, <2>2 DEF VectorAsked, HasText
    <3>5. \A x \in steady' \ DOMAIN vec' : embedding'[x] # NoVector =>
             \/ DOMAIN vec' = {} /\ ~VectorAsked'
             \/ "scan" \in full'
             \/ "vector" \in full' /\ \A y \in DOMAIN vec' : vec'[y] >= Similarity'[x]
      <4>1. pc \notin BeforeVectors \cup {"failed"}
        BY <1>1 DEF BeforeVectors, ForKeywords
      <4>2. \A x \in steady \ DOMAIN vec : embedding[x] # NoVector =>
               \/ DOMAIN vec = {} /\ ~VectorAsked
               \/ "scan" \in full
               \/ "vector" \in full /\ \A y \in DOMAIN vec : vec[y] >= Similarity[x]
        BY <4>1 DEF RetrieveInv, VectorInv
      <4>3. steady' \ DOMAIN vec' \subseteq steady \ DOMAIN vec
        BY <1>6, <3>1
      <4> QED BY <1>1, <1>6, <3>1, <3>4, <4>2, <4>3
    <3> QED BY <1>1, <3>1, <3>2, <3>3, <3>5 DEF VectorInv, BeforeVectors, ForKeywords
  <2>3. hydrate => \/ vec' = <<>> /\ "hydrateVector" \in failed'
                   \/ vec' = [id \in DOMAIN vec \cap LiveIds |-> vec[id]] /\ failed' = failed
    BY <1>1 DEF hydrate, Fails, Restrict, Hydrated
  <2> QED BY <2>1, <2>2, <2>3
<1> QED BY <1>2, <1>3, <1>4, <1>5, <1>7 DEF RetrieveInv

LEMMA FindMemoriesByEntitiesStep ==
    ASSUME RetrieveAssumption, RetrieveInv, FindMemoriesByEntities PROVE RetrieveInv'
<1>1. /\ pc = "entity" /\ UNCHANGED storeVars
      /\ UNCHANGED <<q, kw, recent, vec, overlap, answer>> /\ pc' \in {"rank", "overlap"}
      /\ failed \subseteq failed' /\ failed' \subseteq failed \cup {"entity"}
      /\ full \subseteq full' /\ full' \subseteq full \cup {"entity"}
  BY DEF FindMemoriesByEntities, Goto, Fails, Limited
<1>2. StoreInv' /\ StoreStep /\ AnswerInv'
  BY <1>1, NotYetAnswered
<1>3. QueryInv'
  BY <1>1 DEF RetrieveInv, QueryInv, Statements
<1>4. KeywordInv'
  BY <1>1, <1>2, KeywordKept DEF RetrieveInv, ForKeywords
<1>5. VectorInv'
  BY <1>1, <1>2, VectorKept DEF RetrieveInv, BeforeVectors, ForKeywords
<1>6. /\ ent = {} /\ overlap' = overlap /\ overlap \in [Ids -> 0..Entities]
      /\ \A id \in Ids : overlap[id] = 0 /\ overlap[id] <= Named[ContentOf[id]]
  BY <1>1 DEF RetrieveInv, EntityInv, BeforeEntities, BeforeOverlap
<1>7. steady' = steady /\ seen' = seen /\ steady \subseteq LiveIds /\ LiveIds \subseteq seen
  BY <1>1 DEF RetrieveInv, StoreInv, storeVars
<1>8. pc' \notin BeforeEntities /\ (LooksForEntities' <=> LooksForEntities)
  BY <1>1 DEF BeforeEntities, BeforeVectors, ForKeywords, LooksForEntities, NamesEntities
<1>9. CASE ent' = ent /\ ~EntityAsked'
  BY <1>2, <1>3, <1>4, <1>5, <1>6, <1>7, <1>8, <1>9 DEF RetrieveInv, EntityInv
<1>10. CASE pc' = "overlap" /\ ent' \in Top(Mentioning, Pool, Recency) /\ Limited(ent', "entity")
  <2>1. Mentioning \subseteq Ids /\ Mentioning \subseteq LiveIds
    BY DEF Mentioning, LiveIds
  <2>2. /\ ent' \subseteq Mentioning
        /\ \A x \in Mentioning \ ent' : "entity" \in full' /\ \A y \in ent' : Recency[y] >= Recency[x]
    <3> DEFINE hits == ent'
    <3>1. /\ hits \in Top(Mentioning, Pool, Recency)
          /\ full' = IF Cardinality(hits) = Pool THEN full \cup {"entity"} ELSE full
      BY <1>10 DEF Limited
    <3> HIDE DEF hits
    <3>2. /\ hits \subseteq Mentioning
          /\ \A x \in Mentioning \ hits :
                Cardinality(hits) = Pool /\ \A y \in hits : Recency[y] >= Recency[x]
      BY <2>1, <3>1, Searched DEF RetrieveInv, QueryInv
    <3>3. \A x \in Mentioning \ hits : "entity" \in full'
      BY <3>1, <3>2
    <3> QED BY <3>2, <3>3 DEF hits
  <2>3. ent' \subseteq seen' /\ \A id \in ent' : Named[ContentOf[id]] > 0
    BY <1>7, <2>1, <2>2 DEF Mentioning
  <2>4. \A x \in steady' \ ent' : Named[ContentOf[x]] > 0 =>
           "entity" \in full' /\ \A y \in ent' : Recency[y] >= Recency[x]
    BY <1>7, <2>2 DEF Mentioning
  <2>5. EntityInv'
    BY <1>6, <1>8, <2>3, <2>4 DEF EntityInv
  <2> QED BY <1>2, <1>3, <1>4, <1>5, <2>5 DEF RetrieveInv
<1>11. \/ ent' = ent /\ ~EntityAsked'
       \/ pc' = "overlap" /\ ent' \in Top(Mentioning, Pool, Recency) /\ Limited(ent', "entity")
  <2>1. \/ ~LooksForEntities /\ ent' = ent
        \/ "entity" \in failed' /\ ent' = ent
        \/ pc' = "overlap" /\ ent' \in Top(Mentioning, Pool, Recency) /\ Limited(ent', "entity")
    BY DEF FindMemoriesByEntities, Goto, Fails
  <2> QED BY <1>8, <2>1 DEF EntityAsked, Asked
<1> QED BY <1>9, <1>10, <1>11

LEMMA CountEntityMatchesStep ==
    ASSUME RetrieveAssumption, RetrieveInv, CountEntityMatches PROVE RetrieveInv'
<1>1. /\ pc = "overlap" /\ UNCHANGED storeVars
      /\ UNCHANGED <<q, kw, recent, vec, ent, answer, full>> /\ pc' = "rank"
      /\ failed \subseteq failed' /\ failed' \subseteq failed \cup {"overlap"}
  BY DEF CountEntityMatches, Goto, Fails
<1>2. StoreInv' /\ StoreStep /\ AnswerInv'
  BY <1>1, NotYetAnswered
<1>3. QueryInv'
  BY <1>1 DEF RetrieveInv, QueryInv, Statements
<1>4. KeywordInv'
  BY <1>1, <1>2, KeywordKept DEF RetrieveInv, ForKeywords
<1>5. VectorInv'
  BY <1>1, <1>2, VectorKept DEF RetrieveInv, BeforeVectors, ForKeywords
<1>6. CASE overlap' = overlap
  <2>1. EntityInv'
    BY <1>1, <1>2, <1>6, EntityKept
       DEF RetrieveInv, BeforeOverlap, BeforeEntities, BeforeVectors, ForKeywords
  <2> QED BY <1>2, <1>3, <1>4, <1>5, <2>1 DEF RetrieveInv
<1>7. CASE overlap' = [id \in Ids |-> IF id \in Candidates \cap LiveIds
                                      THEN Named[ContentOf[id]] ELSE 0]
  <2>1. \A id \in Ids : Named[ContentOf[id]] \in 0..Entities
    BY DEF RetrieveAssumption
  <2>2. /\ overlap' \in [Ids -> 0..Entities]
        /\ \A id \in Ids : overlap'[id] <= Named[ContentOf[id]]
    BY <1>7, <2>1 DEF RetrieveAssumption
  <2>3. \A id \in Candidates' \cap steady' : overlap'[id] = Named[ContentOf[id]]
    <3>1. Candidates' = Candidates /\ steady' = steady /\ steady \subseteq LiveIds
          /\ LiveIds \subseteq Ids
      BY <1>1 DEF Candidates, storeVars, RetrieveInv, StoreInv, LiveIds
    <3> QED BY <1>7, <3>1
  <2>4. pc \notin BeforeEntities \cup {"failed"} /\ pc' \notin BeforeOverlap
    BY <1>1 DEF BeforeOverlap, BeforeEntities, BeforeVectors, ForKeywords
  <2>5. pc' \notin BeforeEntities /\ (EntityAsked' => EntityAsked)
    BY <1>1, <2>4 DEF BeforeOverlap, EntityAsked, Asked, LooksForEntities, NamesEntities
  <2>6. steady' = steady /\ seen' = seen
    BY <1>1 DEF storeVars
  <2>7. EntityInv'
    BY <1>1, <2>2, <2>3, <2>4, <2>5, <2>6 DEF RetrieveInv, EntityInv
  <2> QED BY <1>2, <1>3, <1>4, <1>5, <2>7 DEF RetrieveInv
<1> QED BY <1>6, <1>7 DEF CountEntityMatches

LEMMA CountAccessStep ==
    ASSUME RetrieveAssumption, RetrieveInv, CountAccess PROVE RetrieveInv'
<1>1. /\ pc = "count" /\ pc' = "answered"
      /\ UNCHANGED <<q, kw, recent, vec, ent, overlap, answer, full>>
      /\ failed \subseteq failed' /\ failed' \subseteq failed \cup {"count"}
  BY DEF CountAccess, Goto, Fails
<1>2. StoreInv' /\ StoreStep
  BY CountStep DEF RetrieveInv
<1>3. QueryInv'
  BY <1>1 DEF RetrieveInv, QueryInv, Statements
<1>4. KeywordInv'
  BY <1>1, <1>2, KeywordKept DEF RetrieveInv, ForKeywords
<1>5. VectorInv'
  BY <1>1, <1>2, VectorKept DEF RetrieveInv, BeforeVectors, ForKeywords
<1>6. EntityInv'
  BY <1>1, <1>2, EntityKept DEF RetrieveInv, BeforeOverlap, BeforeEntities, BeforeVectors, ForKeywords
<1>7. AnswerInv'
  BY <1>1, <1>2, AnswerKept DEF RetrieveInv, Answered
<1> QED BY <1>2, <1>3, <1>4, <1>5, <1>6, <1>7 DEF RetrieveInv

LEMMA OthersStep ==
    ASSUME RetrieveAssumption, RepoAssumption, RetrieveInv, Meanwhile PROVE RetrieveInv'
<1>1. StoreInv' /\ StoreStep
  BY MeanwhileStep DEF RetrieveInv
<1>2. UNCHANGED <<pc, q, kw, recent, vec, ent, overlap, answer, failed, full>>
  BY DEF Meanwhile, queryVars
<1>3. QueryInv'
  BY <1>2 DEF RetrieveInv, QueryInv
<1>4. KeywordInv'
  BY <1>1, <1>2, KeywordKept DEF RetrieveInv
<1>5. VectorInv'
  BY <1>1, <1>2, VectorKept DEF RetrieveInv
<1>6. EntityInv'
  BY <1>1, <1>2, EntityKept DEF RetrieveInv
<1>7. Answered' => Answered
  BY <1>2 DEF Answered
<1>8. AnswerInv'
  BY <1>1, <1>2, <1>7, AnswerKept DEF RetrieveInv
<1> QED BY <1>1, <1>3, <1>4, <1>5, <1>6, <1>8 DEF RetrieveInv

-----------------------------------------------------------------------------
(* The merge and the ranking *)

\* What the retrievers left when the query comes to rank.
LEMMA AtRank ==
    ASSUME RetrieveAssumption, RetrieveInv, pc = "rank"
    PROVE  /\ Graded /\ Merged \subseteq Ids /\ Merged \subseteq seen
           /\ steady \subseteq Ids
           /\ ~recent => \A id \in kw : Lexes /\ Rank[id] > 0
           /\ ~recent /\ Lexes => \A x \in steady \ kw : Rank[x] > 0 =>
                 "keyword" \in full /\ \A y \in kw : Rank[y] >= Rank[x]
           /\ recent => ~Lexes /\ \A x \in steady \ kw : (q.types = {} \/ TypeOf[x] \in q.types) =>
                 \A y \in kw : Recency[y] >= Recency[x]
           /\ \A x \in steady \ DOMAIN vec : embedding[x] # NoVector =>
                 \/ DOMAIN vec = {} /\ ~VectorAsked
                 \/ "scan" \in full
                 \/ "vector" \in full /\ \A y \in DOMAIN vec : vec[y] >= Similarity[x]
           /\ \A x \in DOMAIN vec \cap steady : vec[x] = Similarity[x]
           /\ \A x \in steady \ ent : Named[ContentOf[x]] > 0 =>
                 \/ ent = {} /\ ~EntityAsked
                 \/ "entity" \in full /\ \A y \in ent : Recency[y] >= Recency[x]
<1>1. kw \subseteq seen /\ DOMAIN vec \subseteq seen /\ ent \subseteq seen /\ seen \subseteq Ids
      /\ steady \subseteq Ids
  BY DEF RetrieveInv, KeywordInv, VectorInv, EntityInv, StoreInv, LiveIds
<1>2. Merged \subseteq seen
  BY <1>1 DEF Merged, Candidates
<1>3. Graded
  BY <1>1 DEF Graded, RetrieveInv, QueryInv, KeywordInv, VectorInv, EntityInv
<1>4. pc \notin BeforeVectors \cup {"failed"} /\ pc \notin BeforeEntities \cup {"failed"}
  BY DEF BeforeEntities, BeforeVectors, ForKeywords
<1>5. /\ ~recent => \A id \in kw : Lexes /\ Rank[id] > 0
      /\ ~recent /\ Lexes => \A x \in steady \ kw : Rank[x] > 0 =>
            "keyword" \in full /\ \A y \in kw : Rank[y] >= Rank[x]
      /\ recent => ~Lexes /\ \A x \in steady \ kw : (q.types = {} \/ TypeOf[x] \in q.types) =>
            \A y \in kw : Recency[y] >= Recency[x]
  BY DEF RetrieveInv, KeywordInv
<1>6. \A x \in steady \ DOMAIN vec : embedding[x] # NoVector =>
         \/ DOMAIN vec = {} /\ ~VectorAsked
         \/ "scan" \in full
         \/ "vector" \in full /\ \A y \in DOMAIN vec : vec[y] >= Similarity[x]
  BY <1>4 DEF RetrieveInv, VectorInv
<1>7. \A x \in steady \ ent : Named[ContentOf[x]] > 0 =>
         \/ ent = {} /\ ~EntityAsked
         \/ "entity" \in full /\ \A y \in ent : Recency[y] >= Recency[x]
  BY <1>4 DEF RetrieveInv, EntityInv
<1>8. \A x \in DOMAIN vec \cap steady : vec[x] = Similarity[x]
  BY DEF RetrieveInv, VectorInv
<1> QED BY <1>1, <1>2, <1>3, <1>5, <1>6, <1>7, <1>8

\* Evidence of a steady memory is a candidate the gate lets pass.
LEMMA EvidenceMerges ==
    ASSUME RetrieveAssumption, RetrieveInv, pc = "rank", NEW id \in steady, Evidence(id)
    PROVE  id \in Merged
<1>1. CASE "keyword" \notin full /\ Lexes /\ Rank[id] > 0
  <2>1. id \in kw
    BY <1>1, AtRank
  <2> QED BY <2>1 DEF Merged, Candidates, PassesSemanticGate
<1>2. CASE /\ VectorAsked /\ ({"vector", "scan"} \cap full = {} \/ id \in DOMAIN vec)
           /\ embedding[id] # NoVector /\ Similarity[id] >= semanticGate
  <2>1. id \in DOMAIN vec
    BY <1>2, AtRank
  <2>2. vec[id] = Similarity[id]
    BY <2>1 DEF RetrieveInv, VectorInv
  <2> QED BY <1>2, <2>1, <2>2 DEF Merged, Candidates, PassesSemanticGate
<1>3. CASE EntityAsked /\ "entity" \notin full /\ Named[ContentOf[id]] > 0
  <2>1. id \in ent
    BY <1>3, AtRank
  <2> QED BY <2>1 DEF Merged, Candidates, PassesSemanticGate
<1> QED BY <1>1, <1>2, <1>3 DEF Evidence, VectorAsked, EntityAsked

\* Everything that is ahead is found where the other is.
LEMMA FoundAlike ==
    ASSUME RetrieveAssumption, RetrieveInv, pc = "rank",
           NEW x \in steady, NEW y \in steady, Beats(x, y), y \in Candidates
    PROVE  /\ y \in kw => x \in kw
           /\ y \in DOMAIN vec => x \in DOMAIN vec /\ vec[y] < vec[x]
           /\ y \in ent => x \in ent
<1>1. /\ Rank[x] \in Nat /\ Rank[y] \in Nat /\ Recency[x] \in Nat /\ Recency[y] \in Nat
      /\ Named[ContentOf[x]] \in Nat /\ Named[ContentOf[y]] \in Nat
      /\ Similarity[x] \in Nat /\ Similarity[y] \in Nat
  <2>1. ASSUME NEW id \in Ids
        PROVE  /\ Rank[id] \in Nat /\ Recency[id] \in Nat /\ Named[ContentOf[id]] \in Nat
               /\ Similarity[id] \in Nat
    <3>1. ContentOf[id] \in Contents /\ Rank[id] = Lexical[ContentOf[id]]
      BY DEF RetrieveAssumption, Rank
    <3>2. embedding[id] \in Contents \cup {NoVector}
      BY DEF RetrieveInv, StoreInv, RepoTypeOK
    <3>3. Similarity[id] = IF embedding[id] = NoVector THEN 0 ELSE Cosine[embedding[id]]
      BY DEF Similarity
    <3> QED BY <3>1, <3>2, <3>3 DEF RetrieveAssumption, Grades, Unit
  <2> QED BY <2>1, AtRank
<1>2. Recency[x] > Recency[y] /\ Ahead(Rank[x], Rank[y])
      /\ Ahead(Named[ContentOf[x]], Named[ContentOf[y]])
      /\ (q.types = {} \/ TypeOf[x] \in q.types)
      /\ (embedding[y] = NoVector \/ (embedding[x] # NoVector /\ Similarity[x] > Similarity[y]))
  BY DEF Beats
<1>3. ASSUME y \in kw PROVE x \in kw
  <2>1. SUFFICES ASSUME x \notin kw PROVE FALSE
    OBVIOUS
  <2>2. CASE recent
    <3>1. Recency[y] >= Recency[x]
      BY <1>2, <1>3, <2>1, <2>2, AtRank
    <3> QED BY <1>1, <1>2, <3>1
  <2>3. CASE ~recent
    <3>1. Lexes /\ Rank[y] > 0
      BY <1>3, <2>3, AtRank
    <3>2. Rank[x] > Rank[y]
      BY <1>1, <1>2, <3>1 DEF Ahead
    <3>3. Rank[x] > 0
      BY <1>1, <3>1, <3>2
    <3>4. Rank[y] >= Rank[x]
      BY <1>3, <2>1, <2>3, <3>1, <3>3, AtRank
    <3> QED BY <1>1, <3>2, <3>4
  <2> QED BY <2>2, <2>3
<1>4. ASSUME y \in DOMAIN vec PROVE x \in DOMAIN vec /\ vec[y] < vec[x]
  <2>1. embedding[y] # NoVector /\ vec[y] = Similarity[y]
    BY <1>4 DEF RetrieveInv, VectorInv
  <2>2. embedding[x] # NoVector /\ Similarity[x] > Similarity[y]
    BY <1>2, <2>1
  <2>3. x \in DOMAIN vec
    <3>1. SUFFICES ASSUME x \notin DOMAIN vec PROVE FALSE
      OBVIOUS
    <3>2. "scan" \notin full
      BY <1>4, <3>1 DEF Beats, SeenToo
    <3>3. vec[y] >= Similarity[x]
      BY <1>4, <2>2, <3>1, <3>2, AtRank
    <3> QED BY <1>1, <2>1, <2>2, <3>3
  <2>4. vec[x] = Similarity[x]
    BY <2>3 DEF RetrieveInv, VectorInv
  <2> QED BY <1>1, <2>1, <2>2, <2>3, <2>4
<1>5. ASSUME y \in ent PROVE x \in ent
  <2>1. SUFFICES ASSUME x \notin ent PROVE FALSE
    OBVIOUS
  <2>2. Named[ContentOf[y]] > 0
    BY <1>5 DEF RetrieveInv, EntityInv
  <2>3. Named[ContentOf[x]] > 0
    BY <1>1, <1>2, <2>2 DEF Ahead
  <2>4. Recency[y] >= Recency[x]
    BY <1>5, <2>1, <2>3, AtRank
  <2> QED BY <1>1, <1>2, <2>4
<1> QED BY <1>3, <1>4, <1>5

\* ... passes the gate, and has the higher score.
LEMMA ScoredHigher ==
    ASSUME RetrieveAssumption, RetrieveInv, pc = "rank",
           NEW x \in steady, NEW y \in steady, Beats(x, y), y \in Merged,
           NEW superseded, x \notin superseded
    PROVE  x \in Merged /\ Score(x, superseded) > Score(y, superseded)
<1>1. y \in Candidates /\ PassesSemanticGate(y)
  BY DEF Merged
<1>2. /\ y \in kw => x \in kw
      /\ y \in DOMAIN vec => x \in DOMAIN vec /\ vec[y] < vec[x]
      /\ y \in ent => x \in ent
  BY <1>1, FoundAlike
<1>3. Graded /\ x \in Ids /\ y \in Ids
  BY AtRank
<1>4. \A id \in DOMAIN vec : vec[id] \in Nat
  BY <1>3 DEF Graded, Grades, Unit
<1>5. x \in Merged
  <2>1. x \in Candidates
    BY <1>1, <1>2 DEF Candidates
  <2>2. PassesSemanticGate(x)
    BY <1>1, <1>2, <1>4 DEF PassesSemanticGate, Candidates, semanticGate
  <2> QED BY <2>1, <2>2 DEF Merged
<1>6. Rank[x] \in Nat /\ Rank[y] \in Nat
  BY <1>3 DEF Rank, RetrieveAssumption
<1>7. KeywordScore(y) <= KeywordScore(x)
  <2>1. CASE y \notin kw
    BY <1>3, <2>1, ScoreOfTyped DEF KeywordScore
  <2>2. CASE y \in kw
    <3>1. KeywordScore(y) = (IF recent THEN 0 ELSE Rank[y])
          /\ KeywordScore(x) = (IF recent THEN 0 ELSE Rank[x])
      BY <1>2, <2>2 DEF KeywordScore, ScoreOf
    <3>2. ~recent => Rank[y] > 0
      BY <2>2, AtRank
    <3>3. Ahead(Rank[x], Rank[y])
      BY DEF Beats
    <3> QED BY <1>6, <3>1, <3>2, <3>3 DEF Ahead
  <2> QED BY <2>1, <2>2
<1>8. overlap[y] <= overlap[x]
  <2>1. CASE \A id \in Ids : overlap[id] = 0
    BY <1>3, <2>1
  <2>2. CASE \A id \in Candidates \cap steady : overlap[id] = Named[ContentOf[id]]
    <3>1. overlap[x] = Named[ContentOf[x]] /\ overlap[y] = Named[ContentOf[y]]
      BY <1>1, <1>5, <2>2 DEF Merged
    <3>2. overlap[x] \in Nat /\ overlap[y] \in Nat
      BY <1>3 DEF Graded, RetrieveAssumption
    <3>3. Ahead(Named[ContentOf[x]], Named[ContentOf[y]])
      BY DEF Beats
    <3> QED BY <3>1, <3>2, <3>3 DEF Ahead
  <2> QED BY <2>1, <2>2 DEF RetrieveInv, EntityInv
<1>9. y \in DOMAIN vec => x \in DOMAIN vec /\ vec[y] <= vec[x]
  BY <1>2, <1>4
<1>10. /\ Recency[y] < Recency[x] /\ Recency[y] <= Recency[x]
       /\ y \in Popular => x \in Popular
       /\ TypePriority[TypeOf[y]] <= TypePriority[TypeOf[x]]
  <2>1. Recency[x] \in Nat /\ Recency[y] \in Nat
    BY <1>3 DEF RetrieveAssumption, Grades, Unit
  <2>2. TypePriority[TypeOf[x]] \in Nat /\ TypePriority[TypeOf[y]] \in Nat
    <3>1. TypeOf[x] \in Types /\ TypeOf[y] \in Types
      BY <1>3 DEF RetrieveAssumption
    <3> QED BY <3>1 DEF RetrieveAssumption, Unit
  <2> QED BY <2>1, <2>2 DEF Beats
<1>11. Undemoted(x) \in Nat /\ Undemoted(y) \in Nat /\ Undemoted(y) < Undemoted(x)
  BY <1>3, <1>7, <1>8, <1>9, <1>10, ScoresGrow
<1>12. Score(x, superseded) = 10 * Undemoted(x)
       /\ Score(y, superseded) \in {6 * Undemoted(y), 10 * Undemoted(y)}
  BY ScoreDemoted
<1> QED BY <1>5, <1>11, <1>12

\* Of a superseding memory with the same evidence as the superseded.
LEMMA ScoredAfterReplacement ==
    ASSUME RetrieveAssumption, RetrieveInv, pc = "rank", full \subseteq {"scan"},
           NEW new \in steady, NEW old \in steady, new \in Merged, old \in Merged,
           Rank[new] = Rank[old], Similarity[new] = Similarity[old],
           embedding[new] = NoVector <=> embedding[old] = NoVector, SeenToo(new, old),
           Named[ContentOf[new]] = Named[ContentOf[old]],
           TypeOf[new] = TypeOf[old], Recency[new] >= Recency[old],
           old \in Popular => new \in Popular,
           NEW superseded, old \in superseded, new \notin superseded
    PROVE  Score(new, superseded) > Score(old, superseded)
<1>1. Graded /\ new \in Ids /\ old \in Ids
  BY AtRank
<1>2. KeywordScore(old) <= KeywordScore(new)
  <2>1. CASE old \notin kw
    BY <1>1, <2>1, ScoreOfTyped DEF KeywordScore
  <2>2. CASE old \in kw /\ recent
    <3>1. KeywordScore(old) = 0
      BY <2>2 DEF KeywordScore, ScoreOf
    <3> QED BY <1>1, <3>1, ScoreOfTyped
  <2>3. CASE old \in kw /\ ~recent
    <3>1. Lexes /\ Rank[old] > 0
      BY <2>3, AtRank
    <3>2. new \in kw
      BY <2>3, <3>1, AtRank
    <3>3. KeywordScore(old) = Rank[old] /\ KeywordScore(new) = Rank[old]
      BY <2>3, <3>2 DEF KeywordScore, ScoreOf
    <3>4. Rank[old] \in Nat
      BY <1>1 DEF Rank, RetrieveAssumption
    <3> QED BY <3>3, <3>4
  <2> QED BY <2>1, <2>2, <2>3
<1>3. old \in DOMAIN vec => new \in DOMAIN vec /\ vec[old] <= vec[new]
  <2>1. SUFFICES ASSUME old \in DOMAIN vec PROVE new \in DOMAIN vec /\ vec[old] <= vec[new]
    OBVIOUS
  <2>2. embedding[old] # NoVector /\ vec[old] = Similarity[old]
    BY <2>1 DEF RetrieveInv, VectorInv
  <2>3. new \in DOMAIN vec
    BY <2>1, <2>2, AtRank DEF SeenToo
  <2>4. vec[new] = Similarity[new]
    BY <2>3 DEF RetrieveInv, VectorInv
  <2>5. vec[old] \in Nat
    BY <1>1, <2>1 DEF Graded, Grades, Unit
  <2> QED BY <2>2, <2>3, <2>4, <2>5
<1>4. overlap[old] <= overlap[new]
  <2>1. overlap[old] = overlap[new]
    <3>1. new \in Candidates /\ old \in Candidates
      BY DEF Merged
    <3> QED BY <1>1, <3>1 DEF RetrieveInv, EntityInv
  <2>2. overlap[old] \in Nat
    BY <1>1 DEF Graded, RetrieveAssumption
  <2> QED BY <2>1, <2>2
<1>5. Recency[old] <= Recency[new] /\ TypePriority[TypeOf[old]] <= TypePriority[TypeOf[new]]
  <2>1. Recency[old] \in Nat /\ Recency[new] \in Nat
    BY <1>1 DEF RetrieveAssumption, Grades, Unit
  <2>2. TypePriority[TypeOf[old]] \in Nat
    <3>1. TypeOf[old] \in Types
      BY <1>1 DEF RetrieveAssumption
    <3> QED BY <3>1 DEF RetrieveAssumption, Unit
  <2> QED BY <2>1, <2>2
<1>6. /\ Undemoted(new) \in Nat /\ Undemoted(old) \in Nat /\ 0 < Undemoted(old)
      /\ Undemoted(old) <= Undemoted(new)
  BY <1>1, <1>2, <1>3, <1>4, <1>5, ScoresGrow
<1>7. Score(new, superseded) = 10 * Undemoted(new) /\ Score(old, superseded) = 6 * Undemoted(old)
  BY ScoreDemoted
<1> QED BY <1>6, <1>7

LEMMA MergeAndRankStep ==
    ASSUME RetrieveAssumption, RetrieveInv, MergeAndRank PROVE RetrieveInv'
<1>1. /\ pc = "rank" /\ pc' = "count" /\ UNCHANGED storeVars
      /\ UNCHANGED <<q, kw, recent, vec, ent, overlap, full>>
      /\ failed \subseteq failed' /\ failed' \subseteq failed \cup {"rank"}
  BY DEF MergeAndRank, Goto, Fails
<1>2. PICK superseded \in {{}, SupersededCandidates} :
         /\ answer' = RankResults(superseded)
         /\ GraphSignals /\ "rank" \notin failed' => superseded = SupersededCandidates
  <2>1. \/ "rank" \in failed' /\ answer' = RankResults({})
        \/ answer' = RankResults(IF GraphSignals THEN SupersededCandidates ELSE {})
    BY <1>1 DEF MergeAndRank, Fails
  <2> QED BY <2>1
<1>3. StoreInv' /\ StoreStep
  BY <1>1, StoreUnseen DEF RetrieveInv
<1>4. QueryInv'
  BY <1>1 DEF RetrieveInv, QueryInv, Statements
<1>5. KeywordInv'
  BY <1>1, <1>3, KeywordKept DEF RetrieveInv, ForKeywords
<1>6. VectorInv'
  BY <1>1, <1>3, VectorKept DEF RetrieveInv, BeforeVectors, ForKeywords
<1>7. EntityInv'
  BY <1>1, <1>3, EntityKept DEF RetrieveInv, BeforeOverlap, BeforeEntities, BeforeVectors, ForKeywords
<1>8. IsPage(answer', superseded)
  <2>1. Graded /\ Merged \subseteq Ids /\ q \in Queries
    BY <1>1, AtRank DEF Graded
  <2>2. \A id \in Merged : Score(id, superseded) \in Int
    BY <2>1, ScoreTyped
  <2> QED BY <1>2, <2>1, <2>2, RankedPage
<1>9. /\ steady' = steady /\ seen' = seen /\ embedding' = embedding /\ edges' = edges /\ q' = q
      /\ full' = full
  BY <1>1 DEF storeVars
<1>10. Similarity' = Similarity /\ Rank' = Rank
  BY <1>9 DEF Similarity, Rank
<1>11. \A id : InAnswer(id)' <=> id \in Range(answer')
  BY DEF InAnswer
\* Who is on the page has one place on it.
<1>12. \A id \in Range(answer') : Place(id)' \in DOMAIN answer' /\ answer'[Place(id)'] = id
  <2>1. ASSUME NEW id \in Range(answer') PROVE Place(id)' \in DOMAIN answer' /\ answer'[Place(id)'] = id
    <3>1. Place(id)' = CHOOSE i \in DOMAIN answer' : answer'[i] = id
      BY DEF Place
    <3>2. \E i \in DOMAIN answer' : answer'[i] = id
      BY DEF Range
    <3> QED BY <3>1, <3>2
  <2> QED BY <2>1
<1>13. ASSUME NEW x \in Merged, NEW y \in Merged, Score(x, superseded) > Score(y, superseded),
              y \in Range(answer')
       PROVE  x \in Range(answer') /\ Place(x)' < Place(y)'
  <2>1. /\ x \in Range(answer')
        /\ \A i, j \in DOMAIN answer' : answer'[i] = x /\ answer'[j] = y => i < j
    BY <1>8, <1>13 DEF IsPage
  <2> QED BY <1>12, <1>13, <2>1
<1>14. AnsweredWasLive'
  BY <1>1, <1>8, <1>9, AtRank DEF AnsweredWasLive, IsPage
<1>15. NothingLost'
  <2>1. SUFFICES ASSUME Len(answer') < q.topK, NEW id \in steady, Evidence(id)'
                 PROVE  id \in Range(answer')
    BY <1>9, <1>11 DEF NothingLost
  <2>2. Evidence(id)
    BY <1>1, <1>9, <1>10, <2>1 DEF Evidence, Lexes, HasText, LooksForEntities, NamesEntities, Asked
  <2> QED BY <1>1, <1>8, <2>1, <2>2, EvidenceMerges DEF IsPage
<1>16. BetterRanksHigher'
  <2>1. SUFFICES ASSUME NEW x \in steady, NEW y \in steady, Beats(x, y)', y \in Range(answer')
                 PROVE  x \in Range(answer') /\ Place(x)' < Place(y)'
    BY <1>9, <1>11 DEF BetterRanksHigher
  <2>2. Beats(x, y)
    BY <1>1, <1>9, <1>10, <2>1 DEF Beats, Ahead, SeenToo
  <2>3. y \in Merged
    BY <1>8, <2>1 DEF IsPage
  <2>4. x \notin superseded
    <3>1. x \notin {e[2] : e \in edges}
      BY <2>2 DEF Beats
    <3> QED BY <1>2, <3>1 DEF SupersededCandidates
  <2> QED BY <1>1, <1>13, <2>1, <2>2, <2>3, <2>4, ScoredHigher
<1>17. ReplacementFirst'
  <2>1. SUFFICES ASSUME GraphSignals, Asked("rank")', full \subseteq {"scan"}, NEW e \in edges,
                        {e[1], e[2]} \subseteq steady, e[1] \in Range(answer'), e[2] \in Range(answer'),
                        Rank[e[1]] = Rank[e[2]], Similarity[e[1]] = Similarity[e[2]],
                        embedding[e[1]] = NoVector <=> embedding[e[2]] = NoVector,
                        SeenToo(e[1], e[2]), Named[ContentOf[e[1]]] = Named[ContentOf[e[2]]],
                        TypeOf[e[1]] = TypeOf[e[2]], Recency[e[1]] >= Recency[e[2]],
                        e[2] \in Popular => e[1] \in Popular,
                        e[1] \notin {f[2] : f \in edges}
                 PROVE  Place(e[1])' < Place(e[2])'
    BY <1>1, <1>9, <1>10, <1>11 DEF ReplacementFirst, SeenToo
  <2>2. superseded = SupersededCandidates
    BY <1>2, <2>1 DEF Asked
  <2>3. e[1] \in Merged /\ e[2] \in Merged
    BY <1>8, <2>1 DEF IsPage
  <2>4. e[2] \in superseded /\ e[1] \notin superseded
    BY <2>1, <2>2, <2>3 DEF SupersededCandidates
  <2>5. Score(e[1], superseded) > Score(e[2], superseded)
    <3> DEFINE new == e[1]
               old == e[2]
    <3>1. new \in steady /\ old \in steady
      BY <2>1
    <3> HIDE DEF new, old
    <3> QED BY <1>1, <2>1, <2>3, <2>4, <3>1, ScoredAfterReplacement DEF new, old
  <2> QED BY <1>13, <2>1, <2>3, <2>5
<1>18. answer' \in Seq(Ids) /\ Len(answer') <= q'.topK /\ IsInjective(answer')
  BY <1>8, <1>9 DEF IsPage
<1>19. AnswerInv'
  BY <1>14, <1>15, <1>16, <1>17, <1>18 DEF AnswerInv
<1> QED BY <1>3, <1>4, <1>5, <1>6, <1>7, <1>19 DEF RetrieveInv

-----------------------------------------------------------------------------
(* The theorems *)

LEMMA RetrieveInit == ASSUME RetrieveAssumption, RepoAssumption, Init PROVE RetrieveInv
<1>1. PICK there \in SUBSET Ids, gone \in SUBSET Ids :
         memory = [id \in Ids |-> IF id \in there
                       THEN [content |-> ContentOf[id], type |-> TypeOf[id],
                             content_hash |-> ContentOf[id], used |-> id \in Popular]
                       ELSE IF id \in gone THEN Deleted ELSE Unborn]
  BY DEF Init
<1>2. \A id \in Ids : ContentOf[id] \in Contents /\ TypeOf[id] \in Types
  BY DEF RetrieveAssumption
<1>3. \A id \in there : /\ memory[id] \in Rows /\ memory[id].content = ContentOf[id]
                        /\ memory[id].type = TypeOf[id]
  BY <1>1, <1>2 DEF Rows
<1>4. memory \in [Ids -> Rows \cup {Unborn, Deleted}]
  BY <1>1, <1>3
<1>5. LiveIds = there
  BY <1>1, <1>3 DEF LiveIds, Live, RepoAssumption
<1>6. StoreInv
  <2>1. RepoTypeOK
    BY <1>4 DEF Init, RepoTypeOK
  <2>2. edges \subseteq Replaces /\ \A e \in edges : Live(e[1]) /\ Live(e[2])
    BY DEF Init
  <2>3. seen = LiveIds /\ steady = LiveIds /\ deleting = {} /\ changes = 0
    BY DEF Init, LiveIds
  <2> QED BY <1>3, <1>5, <2>1, <2>2, <2>3 DEF StoreInv, RetrieveAssumption
<1>7. QueryInv
  BY DEF Init, QueryInv, Statements
<1>8. KeywordInv
  BY DEF Init, KeywordInv
<1>9. VectorInv
  <2>1. DOMAIN vec = {} /\ vec \in [DOMAIN vec -> Grades]
    BY DEF Init
  <2>2. pc \in BeforeVectors
    BY DEF Init, BeforeVectors, ForKeywords
  <2> QED BY <2>1, <2>2 DEF VectorInv
<1>10. EntityInv
  <2>1. ent = {} /\ pc \in BeforeEntities /\ overlap = [id \in Ids |-> 0]
    BY DEF Init, BeforeEntities, BeforeVectors, ForKeywords
  <2>2. \A id \in Ids : Named[ContentOf[id]] \in 0..Entities /\ Entities \in Nat
    BY <1>2 DEF RetrieveAssumption
  <2>3. overlap \in [Ids -> 0..Entities] /\ \A id \in Ids : overlap[id] = 0 /\ overlap[id] <= Named[ContentOf[id]]
    BY <2>1, <2>2 DEF RetrieveAssumption
  <2> QED BY <2>1, <2>3 DEF EntityInv
<1>11. AnswerInv
  <2>1. ~Answered /\ answer = <<>> /\ q \in Queries
    BY DEF Init, Answered
  <2>2. q.topK \in Nat
    BY <2>1 DEF RetrieveAssumption
  <2>3. answer \in Seq(Ids) /\ Len(answer) <= q.topK /\ IsInjective(answer) /\ Range(answer) = {}
    BY <2>1, <2>2 DEF IsInjective, Range
  <2> QED BY <2>1, <2>3 DEF AnswerInv, AnsweredWasLive, NothingLost, BetterRanksHigher, ReplacementFirst
<1> QED BY <1>6, <1>7, <1>8, <1>9, <1>10, <1>11 DEF RetrieveInv

LEMMA RetrieveStutters == ASSUME RetrieveAssumption, RetrieveInv, UNCHANGED vars PROVE RetrieveInv'
<1>1. StoreInv' /\ StoreStep
  BY StoreUnseen DEF vars, RetrieveInv
<1>2. UNCHANGED <<pc, q, kw, recent, vec, ent, overlap, answer, failed, full>>
  BY DEF vars, queryVars
<1>3. QueryInv' /\ KeywordInv' /\ VectorInv' /\ EntityInv'
  BY <1>1, <1>2, KeywordKept, VectorKept, EntityKept DEF RetrieveInv, QueryInv
<1>4. AnswerInv'
  BY <1>1, <1>2, AnswerKept DEF RetrieveInv, Answered
<1> QED BY <1>1, <1>3, <1>4 DEF RetrieveInv

\* The inductive invariant: one step of the proof per statement.
LEMMA RetrieveInvariant == Spec => []RetrieveInv
<1>1. Init => RetrieveInv
  BY RetrieveInit, RetrieveAssumption, RepoAssumption
<1>2. RetrieveInv /\ [Next]_vars => RetrieveInv'
  <2>1. SUFFICES ASSUME RetrieveInv, [Next]_vars PROVE RetrieveInv'
    OBVIOUS
  <2> USE RetrieveAssumption, RepoAssumption
  <2>2. CASE SearchByKeywords
    BY <2>1, <2>2, SearchByKeywordsStep
  <2>3. CASE hydrateKeywordHits
    BY <2>1, <2>3, HydrateKeywordHitsStep
  <2>4. CASE KeywordsAreSearchable
    BY <2>1, <2>4, KeywordsAreSearchableStep
  <2>5. CASE QueryMemories
    BY <2>1, <2>5, QueryMemoriesStep
  <2>6. CASE EmbedQuery
    BY <2>1, <2>6, EmbedQueryStep
  <2>7. CASE nearestNeighbours
    BY <2>1, <2>7, NearestNeighboursStep
  <2>8. CASE hydrate
    BY <2>1, <2>8, HydrateStep
  <2>9. CASE FindMemoriesByEntities
    BY <2>1, <2>9, FindMemoriesByEntitiesStep
  <2>10. CASE CountEntityMatches
    BY <2>1, <2>10, CountEntityMatchesStep
  <2>11. CASE MergeAndRank
    BY <2>1, <2>11, MergeAndRankStep
  <2>12. CASE CountAccess
    BY <2>1, <2>12, CountAccessStep
  <2>13. CASE Meanwhile
    BY <2>1, <2>13, OthersStep
  <2>14. CASE UNCHANGED vars
    BY <2>1, <2>14, RetrieveStutters
  <2> QED BY <2>1, <2>2, <2>3, <2>4, <2>5, <2>6, <2>7, <2>8, <2>9, <2>10, <2>11, <2>12, <2>13,
             <2>14 DEF Next, Query
<1> QED BY <1>1, <1>2, PTL DEF Spec

\* The retrievers' results, the overlap and the page are what they are said to
\* be: the page has no memory twice and is no longer than top_k.
THEOREM TypeCorrect == Spec => []TypeOK
<1>1. RetrieveInv => TypeOK
  <2>1. SUFFICES ASSUME RetrieveInv PROVE TypeOK
    OBVIOUS
  <2>2. {kw, ent, DOMAIN vec} \subseteq SUBSET Ids /\ steady \subseteq Ids
    BY <2>1 DEF RetrieveInv, KeywordInv, VectorInv, EntityInv, StoreInv, LiveIds
  <2> QED BY <2>1, <2>2 DEF TypeOK, RetrieveInv, StoreInv, QueryInv, KeywordInv, VectorInv, EntityInv, AnswerInv
<1> QED BY <1>1, RetrieveInvariant, PTL

\* Whatever the indexes still list, a query answers only with memories that
\* existed while it ran: each retriever hydrates its hits from the graph.
THEOREM AnswersWereLive == Spec => []AnsweredWasLive
<1>1. RetrieveInv => AnsweredWasLive
  BY DEF RetrieveInv, AnswerInv
<1> QED BY <1>1, RetrieveInvariant, PTL

\* An answer shorter than top_k leaves out no memory that stayed as it was and
\* of which a retriever that was asked, and not cut, has evidence.  A vector
\* search over all projects may miss any row: only what it returns counts.
THEOREM NothingIsLost == Spec => []NothingLost
<1>1. RetrieveInv => NothingLost
  BY DEF RetrieveInv, AnswerInv
<1> QED BY <1>1, RetrieveInvariant, PTL

\* Through the LIMITs, the three scales and the rescaling to the pool, whichever
\* statements fail: who is ahead on every signal is answered first, unless a
\* vector search over all projects passed it over and found the other.
THEOREM BetterRanks == Spec => []BetterRanksHigher
<1>1. RetrieveInv => BetterRanksHigher
  BY DEF RetrieveInv, AnswerInv
<1> QED BY <1>1, RetrieveInvariant, PTL

\* With the same evidence, found alike, the demotion puts the superseding fact
\* first, even one recorded only while the query was searching.
THEOREM ReplacementsFirst == Spec => []ReplacementFirst
<1>1. RetrieveInv => ReplacementFirst
  BY DEF RetrieveInv, AnswerInv
<1> QED BY <1>1, RetrieveInvariant, PTL
=============================================================================
