----------------------------- MODULE ConsolidateProofs -----------------------------
(***************************************************************************)
(* What the nightly job keeps, for any number of memories, facts and       *)
(* nights and any limits, with failures and kills anywhere.                *)
(***************************************************************************)
EXTENDS Consolidate, FiniteSetTheorems, WellFoundedInduction, TLAPS

USE ConsolidateAssumption

-----------------------------------------------------------------------------
(* One copy current *)

\* A set of memories that is not empty has one that none is created after.
LEMMA NewestExists ==
    ASSUME NEW S \in SUBSET Memories, S # {}, \A m \in S : created[m] \in 0..MaxDay
    PROVE  \E n \in S : \A m \in S : created[m] <= created[n]
<1> DEFINE Age(m) == MaxDay - created[m]
           Ages == {Age(m) : m \in S}
<1>1. Ages \subseteq Nat /\ Ages # {}
  OBVIOUS
<1>2. \E x \in Ages : \A y \in Ages : <<y, x>> \notin OpToRel(<, Nat)
  <2> HIDE DEF Ages
  <2> QED BY <1>1, WFMin, NatLessThanWellFounded
<1>3. PICK x \in Ages : \A y \in Ages : ~(y < x)
  BY <1>1, <1>2 DEF OpToRel
<1>4. PICK n \in S : x = MaxDay - created[n]
  OBVIOUS
<1>5. ASSUME NEW m \in S PROVE created[m] <= created[n]
  <2>1. ~(Age(m) < x)
    BY <1>3
  <2>2. created[m] \in Int /\ created[n] \in Int /\ MaxDay \in Int
    OBVIOUS
  <2> QED BY <1>4, <2>1, <2>2
<1> QED BY <1>5

Types ==
    /\ today \in 0..MaxDay
    /\ live \subseteq Memories
    /\ created \in [Memories -> -1..MaxDay]
    /\ \A m \in live : created[m] # -1

\* Copies of a fact are stored at different times.
Apart ==
    \A m, o \in Memories :
        m # o /\ FactOf[m] = FactOf[o] /\ created[m] # -1 => created[m] # created[o]

\* From a copy to an older one: such edges make no cycle.
Older ==
    {p \in Memories \X Memories :
        /\ FactOf[p[1]] = FactOf[p[2]]
        /\ p[1] \in Semantic
        /\ created[p[2]] # -1 /\ created[p[2]] < created[p[1]]}

CopyInv ==
    Types /\ Apart /\ pairs \subseteq Older /\ edges \subseteq Older /\ edges \subseteq live \X live

LEMMA NewestOf == ASSUME NEW S, NEW n, NEW T \in Newest(S, n) PROVE T \subseteq S
BY DEF Newest

LEMMA TypesNext == ASSUME Types, Next PROVE Types'
<1> USE DEF Types
<1>1. ASSUME NEW m \in Memories, Store(m) PROVE Types'
  BY <1>1 DEF Store
<1>2. ASSUME NEW m \in Memories, Read(m) \/ Delete(m) PROVE Types'
  BY <1>2 DEF Read, Delete, Deleted
<1>3. CASE NextDay
  BY <1>3 DEF NextDay, storeVars
<1>4. CASE Start \/ ReadFails \/ Killed
  BY <1>4 DEF Start, ReadFails, Killed, storeVars
<1>5. CASE phaseMerge \/ MergeOne \/ MergeEnds
  BY <1>5 DEF phaseMerge, MergeOne, MergeEnds, storeVars
<1>6. CASE phaseDecay \/ DecayOne \/ DecayEnds
  BY <1>6 DEF phaseDecay, DecayOne, DecayEnds, storeVars
<1>7. CASE phasePrune \/ PruneOne \/ Exits
  BY <1>7 DEF phasePrune, PruneOne, Exits, Deleted, storeVars
<1> QED BY <1>1, <1>2, <1>3, <1>4, <1>5, <1>6, <1>7 DEF Next, Job

\* A copy is created after the others of its fact that there are; nothing that
\* is created changes its time.
LEMMA CreatedStep ==
    ASSUME Types, Next
    PROVE  \/ UNCHANGED created
           \/ \E m \in Memories : Store(m) /\ UNCHANGED <<pairs, edges>>
<1>1. CASE \E m \in Memories : Store(m)
  BY <1>1 DEF Store, jobVars
<1>2. CASE \E m \in Memories : Read(m) \/ Delete(m)
  BY <1>2 DEF Read, Delete
<1>3. CASE NextDay \/ Start \/ ReadFails \/ Killed
  BY <1>3 DEF NextDay, Start, ReadFails, Killed, storeVars
<1>4. CASE Job
  BY <1>4 DEF Job, phaseMerge, MergeOne, MergeEnds, phaseDecay, DecayOne, DecayEnds,
              phasePrune, PruneOne, Exits, storeVars
<1> QED BY <1>1, <1>2, <1>3, <1>4 DEF Next

LEMMA ApartNext == ASSUME ~SameTime, Types, Apart, Next PROVE Apart'
<1>1. CASE UNCHANGED created
  BY <1>1 DEF Apart
<1>2. ASSUME NEW n \in Memories, Store(n) PROVE Apart'
  <2>1. /\ created[n] = -1 /\ created' = [created EXCEPT ![n] = today]
        /\ \A o \in Memories : FactOf[o] = FactOf[n] => created[o] # today
    BY <1>2 DEF Store
  <2> QED BY <2>1 DEF Types, Apart
<1> QED BY <1>1, <1>2, CreatedStep

\* Where an edge, or one to be made, comes from.
LEMMA EdgesStep ==
    ASSUME CopyInv, Next
    PROVE  /\ pairs' \subseteq Older
           /\ edges' \subseteq edges \cup (pairs \cap (live \X live))
           /\ edges' \subseteq live' \X live'
<1> USE DEF CopyInv, Types
<1>1. ASSUME NEW m \in Memories, Deleted(m)
      PROVE  edges' \subseteq edges /\ edges' \subseteq live' \X live'
  BY <1>1 DEF Deleted
<1>2. CASE \E m \in Memories : Store(m) \/ Read(m) \/ Delete(m)
  BY <1>1, <1>2 DEF Store, Read, Delete, jobVars
<1>3. CASE NextDay \/ Start \/ ReadFails \/ Killed
  BY <1>3 DEF NextDay, Start, ReadFails, Killed, storeVars, jobVars
<1>4. CASE phaseMerge
  <2>1. PICK read \in Newest(live \cap Semantic, MergeLimit) :
           \E K \in Keepers(read) : pairs' = OlderCopies(K, read)
    BY <1>4 DEF phaseMerge
  <2>K. PICK K \in Keepers(read) : pairs' = OlderCopies(K, read)
    BY <2>1
  <2>2. read \subseteq live \cap Semantic /\ K \subseteq read
    BY NewestOf DEF Keepers
  <2>3. ASSUME NEW p \in pairs' PROVE p \in Older
    <3>1. /\ p \in K \X (read \ K) /\ FactOf[p[1]] = FactOf[p[2]]
          /\ p[1] \in Memories /\ p[2] \in Memories /\ p[1] # p[2]
      BY <2>K, <2>2, <2>3 DEF OlderCopies
    <3>2. created[p[2]] <= created[p[1]]
      BY <3>1 DEF Keepers
    <3>3. created[p[1]] # created[p[2]] /\ created[p[2]] # -1
      BY <2>2, <3>1 DEF Apart
    <3> QED BY <2>2, <3>1, <3>2, <3>3 DEF Older
  <2> QED BY <1>4, <2>3 DEF phaseMerge, storeVars
<1>5. CASE MergeOne
  BY <1>5 DEF MergeOne, Endpoints, Older
<1>6. CASE MergeEnds \/ phaseDecay \/ DecayOne \/ DecayEnds \/ phasePrune \/ Exits
  BY <1>6 DEF MergeEnds, phaseDecay, DecayOne, DecayEnds, phasePrune, Exits, storeVars
<1>7. CASE PruneOne
  <2>1. UNCHANGED pairs
    BY <1>7 DEF PruneOne
  <2>2. (\E m \in doomed : Deleted(m)) \/ UNCHANGED <<live, edges>>
    BY <1>7 DEF PruneOne
  <2> QED BY <2>1, <2>2 DEF Deleted
<1> QED BY <1>2, <1>3, <1>4, <1>5, <1>6, <1>7 DEF Next, Job

LEMMA CopyInvNext == ~SameTime /\ CopyInv /\ [Next]_vars => CopyInv'
<1> SUFFICES ASSUME ~SameTime, CopyInv, [Next]_vars PROVE CopyInv'
  OBVIOUS
<1>1. CASE UNCHANGED vars
  BY <1>1 DEF vars, storeVars, jobVars, CopyInv, Types, Apart, Older
<1>2. CASE Next
  <2>1. Types' /\ Apart'
    BY <1>2, TypesNext, ApartNext DEF CopyInv
  <2>2. pairs' \subseteq Older /\ edges' \subseteq Older /\ edges' \subseteq live' \X live'
    BY <1>2, EdgesStep DEF CopyInv
  <2>3. Older \subseteq Older'
    <3>1. CASE UNCHANGED created
      BY <3>1 DEF Older
    <3>2. ASSUME NEW n \in Memories, Store(n) PROVE Older \subseteq Older'
      <4>1. created[n] = -1 /\ created' = [created EXCEPT ![n] = today]
        BY <3>2 DEF Store
      <4>2. ASSUME NEW p \in Older PROVE p \in Older'
        <5>1. p[1] \in Memories /\ p[2] \in Memories /\ p[1] # n /\ p[2] # n
          BY <4>1 DEF Older, CopyInv, Types
        <5> QED BY <4>1, <5>1 DEF Older, CopyInv, Types
      <4> QED BY <4>2
    <3> QED BY <1>2, <3>1, <3>2, CreatedStep DEF CopyInv
  <2> QED BY <2>1, <2>2, <2>3 DEF CopyInv
<1> QED BY <1>1, <1>2

\* The newest of the copies that are there: an edge to it would come from a
\* newer one.
LEMMA NewestIsCurrent == CopyInv => OneCopyCurrent
<1> SUFFICES ASSUME CopyInv, NEW m \in live \cap Semantic
             PROVE  \E o \in Copies(m) : \A e \in edges : e[2] # o
  BY DEF OneCopyCurrent
<1>1. /\ Copies(m) \in SUBSET Memories /\ Copies(m) # {}
      /\ \A c \in Copies(m) : created[c] \in 0..MaxDay
  BY DEF Copies, CopyInv, Types
<1>2. PICK o \in Copies(m) : \A c \in Copies(m) : created[c] <= created[o]
  BY <1>1, NewestExists
<1>3. ASSUME NEW e \in edges, e[2] = o PROVE FALSE
  <2>1. e \in Older /\ e[1] \in live
    BY DEF CopyInv
  <2>2. e[1] \in Copies(m) /\ created[o] < created[e[1]]
    BY <1>3, <2>1 DEF Older, Copies
  <2>3. created[o] \in Int /\ created[e[1]] \in Int
    BY <1>1, <2>2
  <2> QED BY <1>2, <2>2, <2>3
<1> QED BY <1>3

\* phaseMerge never demotes every copy of a fact, when no two were created at
\* the same time.
THEOREM OneCopyStays == ASSUME ~SameTime PROVE Spec => []OneCopyCurrent
<1>1. Init => CopyInv
  BY DEF Init, CopyInv, Types, Apart
<1>2. CopyInv /\ [Next]_vars => CopyInv'
  BY CopyInvNext
<1> QED BY <1>1, <1>2, NewestIsCurrent, PTL DEF Spec

-----------------------------------------------------------------------------
(* What the prune spares *)

PruneInv ==
    /\ Types
    /\ pc = "pruning" =>
          \A m \in doomed :
              m \in Memories /\ m \notin spared /\ created[m] # -1 /\ today - created[m] > PruneAge

\* While the prune is at work the day, its list and what it spares stay.
LEMMA PruningStep ==
    ASSUME Next, pc' = "pruning"
    PROVE  phasePrune \/ (pc = "pruning" /\ doomed' \subseteq doomed /\ UNCHANGED <<today, spared>>)
<1> USE DEF Goto, Exited, storeVars, jobVars, historyVars
<1>1. CASE \E m \in Memories : Store(m) \/ Read(m) \/ Delete(m)
  BY <1>1 DEF Store, Read, Delete
<1>2. CASE NextDay \/ Start \/ ReadFails \/ Killed
  BY <1>2 DEF NextDay, Start, ReadFails, Killed
<1>3. CASE phaseMerge \/ MergeOne \/ MergeEnds \/ phaseDecay \/ DecayOne \/ DecayEnds
  BY <1>3 DEF phaseMerge, MergeOne, MergeEnds, phaseDecay, DecayOne, DecayEnds
<1>4. CASE PruneOne \/ Exits
  BY <1>4 DEF PruneOne, Exits
<1> QED BY <1>1, <1>2, <1>3, <1>4 DEF Next, Job

LEMMA PruneInvNext == PruneInv /\ [Next]_vars => PruneInv'
<1> SUFFICES ASSUME PruneInv, [Next]_vars PROVE PruneInv'
  OBVIOUS
<1>1. CASE UNCHANGED vars
  BY <1>1 DEF vars, storeVars, jobVars, historyVars, PruneInv, Types
<1>2. CASE Next
  <2>1. Types'
    BY <1>2, TypesNext DEF PruneInv
  <2> SUFFICES ASSUME pc' = "pruning", NEW m \in doomed'
               PROVE  /\ m \in Memories /\ m \notin spared' /\ created'[m] # -1
                      /\ today' - created'[m] > PruneAge
    BY <2>1 DEF PruneInv
  <2>2. CASE phasePrune
    <3>1. PICK read \in Newest(live, PassLimit) : doomed' = {n \in read : Abandoned(n)}
      BY <2>2 DEF phasePrune
    <3>2. m \in live /\ Abandoned(m)
      BY <3>1, NewestOf
    <3>3. spared' = used /\ UNCHANGED <<today, created>>
      BY <2>2 DEF phasePrune, storeVars
    <3> QED BY <3>2, <3>3 DEF Abandoned, Stale, PruneInv, Types
  <2>3. CASE pc = "pruning" /\ doomed' \subseteq doomed /\ UNCHANGED <<today, spared>>
    <3>1. /\ m \in Memories /\ m \notin spared /\ created[m] # -1
          /\ today - created[m] > PruneAge
      BY <2>3 DEF PruneInv
    <3>2. created'[m] = created[m]
      BY <1>2, <3>1, CreatedStep DEF Store, PruneInv, Types
    <3> QED BY <2>3, <3>1, <3>2
  <2> QED BY <1>2, <2>2, <2>3, PruningStep
<1> QED BY <1>1, <1>2

\* A statement of the prune deletes no memory that had been read when the prune
\* looked, and none that is not past the age.
THEOREM PruneSparesRead == Spec => PruneSpares
<1>1. Init => PruneInv
  BY DEF Init, PruneInv, Types
<1>2. ASSUME PruneInv, [Next]_vars
      PROVE  [pc = "pruning" /\ pc' = "pruning" /\ doomed' # doomed =>
                \A m \in live \ live' : m \notin spared /\ today - created[m] > PruneAge]_vars
  <2> SUFFICES ASSUME Next, pc = "pruning", doomed' # doomed, NEW m \in live \ live'
               PROVE  m \notin spared /\ today - created[m] > PruneAge
    BY <1>2
  <2> USE DEF Goto, Exited, storeVars, jobVars, historyVars
  <2>1. PruneOne
    BY DEF Next, Job, Store, Read, Delete, NextDay, Start, ReadFails, Killed, phaseMerge,
           MergeOne, MergeEnds, phaseDecay, DecayOne, DecayEnds, phasePrune, Exits
  <2>2. m \in doomed
    BY <2>1 DEF PruneOne, Deleted
  <2> QED BY <1>2, <2>2 DEF PruneInv
<1> QED BY <1>1, <1>2, PruneInvNext, PTL DEF Spec, PruneSpares

-----------------------------------------------------------------------------
(* What a complete run has done *)

\* Without a failure, the decay goes through everything it read.
DoneInv ==
    /\ done \in Nat /\ failures \in Nat
    /\ pc = "decaying" /\ failures = 0 => readable \subseteq rescored \cup {r.id : r \in rows}
    /\ pc \in {"prune", "pruning", "complete"} /\ failures = 0 => readable \subseteq rescored
    /\ pc = "complete" => ~Degraded

LEMMA DoneInvNext == DoneInv /\ [Next]_vars => DoneInv'
<1> SUFFICES ASSUME DoneInv, [Next]_vars PROVE DoneInv'
  OBVIOUS
<1> USE DEF DoneInv, Goto, Count, Degraded, storeVars, jobVars, historyVars
<1>1. CASE \E m \in Memories : Store(m) \/ Read(m) \/ Delete(m)
  BY <1>1 DEF Store, Read, Delete
<1>2. CASE NextDay \/ ReadFails \/ Killed
  BY <1>2 DEF NextDay, ReadFails, Killed
<1>3. CASE Start
  BY <1>3 DEF Start
<1>4. CASE phaseMerge \/ MergeEnds \/ phasePrune
  BY <1>4 DEF phaseMerge, MergeEnds, phasePrune
<1>5. CASE MergeOne
  BY <1>5 DEF MergeOne
<1>6. CASE phaseDecay
  <2>1. PICK read \in Newest(live, PassLimit) :
          rows' = {[id |-> m, used |-> m \in used] : m \in read} /\ readable' = read
    BY <1>6 DEF phaseDecay
  <2>2. \A m \in read : [id |-> m, used |-> m \in used] \in rows'
    BY <2>1
  <2>3. ASSUME NEW m \in read PROVE \E r \in rows' : r.id = m
    <3>1. [id |-> m, used |-> m \in used].id = m
      OBVIOUS
    <3> QED BY <2>2, <3>1
  <2>4. pc' = "decaying" /\ UNCHANGED <<done, failures>>
    BY <1>6 DEF phaseDecay
  <2> QED BY <2>1, <2>3, <2>4
<1>7. CASE DecayOne
  <2>1. PICK row \in rows :
          /\ rows' = rows \ {row}
          /\ \/ rescored' = rescored \cup {row.id} /\ done' = done + 1 /\ UNCHANGED failures
             \/ failures' = failures + 1 /\ done' = done + 0
    BY <1>7 DEF DecayOne, FailedDecay
  <2>2. pc = "decaying" /\ pc' = "decaying" /\ readable' = readable
    BY <1>7 DEF DecayOne
  <2>3. failures' = 0 => readable \subseteq rescored' \cup {r.id : r \in rows'}
    BY <2>1, <2>2
  <2> QED BY <2>1, <2>2, <2>3
<1>8. CASE DecayEnds
  BY <1>8 DEF DecayEnds
<1>9. CASE PruneOne
  BY <1>9 DEF PruneOne
<1>10. CASE Exits
  BY <1>10 DEF Exits
<1>11. CASE UNCHANGED vars
  BY <1>11 DEF vars
<1> QED BY <1>1, <1>2, <1>3, <1>4, <1>5, <1>6, <1>7, <1>8, <1>9, <1>10, <1>11 DEF Next, Job

\* A short run that exits zero has given every memory it read a score.
THEOREM CompleteRunsDone == Spec => []CompleteMeansDone
<1>1. Init => DoneInv
  BY DEF Init, DoneInv, Degraded
<1>2. DoneInv => CompleteMeansDone
  BY DEF DoneInv, Degraded, CompleteMeansDone
<1> QED BY <1>1, <1>2, DoneInvNext, PTL DEF Spec

-----------------------------------------------------------------------------
(* The types, and how much one run may attempt *)

\* Lengths of reads: a LIMIT cuts them off.
LEMMA NewestBounded ==
    ASSUME NEW S \in SUBSET Memories, NEW n \in Nat, NEW read \in Newest(S, n)
    PROVE  read \subseteq S /\ IsFiniteSet(read) /\ Cardinality(read) \in 0..n
<1>1. read \subseteq S /\ Cardinality(read) = Min({n, Cardinality(S)})
  BY DEF Newest
<1>2. IsFiniteSet(S) /\ IsFiniteSet(read)
  BY <1>1, FS_Subset
<1>3. Cardinality(S) \in Nat /\ Cardinality(read) \in Nat
  BY <1>2, FS_CardinalityType
<1>4. Cardinality(read) <= n
  <2> DEFINE c == Cardinality(S)
  <2>1. (n <= c => Min({n, c}) = n) /\ (c <= n => Min({n, c}) = c)
    <3> HIDE DEF c
    <3>1. c \in Nat
      BY <1>3 DEF c
    <3> QED BY <3>1 DEF Min
  <2> QED BY <1>1, <1>3, <2>1
<1> QED BY <1>1, <1>2, <1>3, <1>4

\* Every older copy has one keeper, so there are no more edges than rows read.
LEMMA CopiesBounded ==
    ASSUME NEW read, IsFiniteSet(read), NEW K \in Keepers(read)
    PROVE  /\ IsFiniteSet(OlderCopies(K, read))
           /\ Cardinality(OlderCopies(K, read)) <= Cardinality(read)
<1> DEFINE P == OlderCopies(K, read)
           f == [p \in P |-> p[2]]
<1>1. \A p \in P : p = <<p[1], p[2]>> /\ p[1] \in K /\ p[2] \in read /\ FactOf[p[1]] = FactOf[p[2]]
  BY DEF OlderCopies
<1>2. \A k, m \in K : FactOf[k] = FactOf[m] => k = m
  BY DEF Keepers
<1>3. \A p, o \in P : f[p] = f[o] => p = o
  <2>1. ASSUME NEW p \in P, NEW o \in P, p[2] = o[2] PROVE p = o
    <3>1. p[1] = o[1]
      BY <1>1, <1>2, <2>1
    <3> QED BY <1>1, <2>1, <3>1
  <2> QED BY <2>1
<1>4. f \in [P -> read]
  BY <1>1
<1> HIDE DEF f, P
<1>5. f \in Injection(P, read)
  BY <1>3, <1>4 DEF Injection, IsInjective
<1> QED BY <1>5, FS_Injection DEF P

\* The rows read, one per memory.
LEMMA RowsBounded ==
    ASSUME NEW read, IsFiniteSet(read), NEW R, R = {[id |-> m, used |-> m \in used] : m \in read}
    PROVE  IsFiniteSet(R) /\ Cardinality(R) <= Cardinality(read)
<1> DEFINE f == [m \in read |-> [id |-> m, used |-> m \in used]]
<1>1. f \in Surjection(read, R)
  BY DEF Surjection
<1> HIDE DEF f
<1> QED BY <1>1, FS_Surjection

\* What is taken off a list is counted.
LEMMA OneLess ==
    ASSUME NEW S, IsFiniteSet(S), NEW x \in S
    PROVE  /\ IsFiniteSet(S \ {x}) /\ Cardinality(S \ {x}) = Cardinality(S) - 1
           /\ Cardinality(S) \in Nat /\ Cardinality(S \ {x}) \in Nat
BY FS_RemoveElement, FS_CardinalityType

LEMMA ScoreTyped ==
    ASSUME NEW age \in Nat, NEW boosted \in BOOLEAN
    PROVE  LET base == Remaining(age)
           IN  Min({Full, IF boosted THEN (base * 8) \div 7 ELSE base}) \in 0..Full
<1>1. Remaining(age) \in 0..8
  BY DEF Remaining, Full
<1> DEFINE b == Remaining(age)
           v == IF boosted THEN (b * 8) \div 7 ELSE b
<1>2. v \in Nat
  <2> HIDE DEF b
  <2>1. b \in 0..8
    BY <1>1 DEF b
  <2>2. (b * 8) \div 7 \in Nat
    BY <2>1
  <2> QED BY <2>1, <2>2
<1> HIDE DEF v
<1>3. Min({8, v}) \in 0..8
  <2>1. (8 <= v => Min({8, v}) = 8) /\ (v <= 8 => Min({8, v}) = v)
    BY <1>2 DEF Min
  <2> QED BY <1>2, <2>1
<1> QED BY <1>3 DEF v, Full

StoreTypes ==
    /\ today \in 0..MaxDay
    /\ live \subseteq Memories /\ used \subseteq Memories
    /\ created \in [Memories -> -1..MaxDay] /\ \A m \in Memories : created[m] <= today
    /\ score \in [Memories -> 0..Full]
    /\ edges \subseteq live \X live

JobTypes ==
    /\ pc \in Running \cup Exited
    /\ pairs \subseteq Memories \X Memories
    /\ rows \subseteq [id : Memories, used : BOOLEAN]
    /\ doomed \subseteq Memories
    /\ {rescored, readable, spared} \subseteq SUBSET Memories

\* A phase counts each item of its list once, and its list is no longer than its
\* read.
WorkInv ==
    /\ done \in Nat /\ failures \in Nat
    /\ IsFiniteSet(pairs) /\ IsFiniteSet(rows) /\ IsFiniteSet(doomed)
    /\ pc = "merge" => done + failures = 0
    /\ pc = "merging" => done + failures + Cardinality(pairs) <= MergeLimit
    /\ pc = "decay" => done + failures <= MergeLimit
    /\ pc = "decaying" => done + failures + Cardinality(rows) <= MergeLimit + PassLimit
    /\ pc = "prune" => done + failures <= MergeLimit + PassLimit
    /\ pc = "pruning" => done + failures + Cardinality(doomed) <= MergeLimit + 2 * PassLimit
    /\ done + failures <= MergeLimit + 2 * PassLimit

ConsolidateInv == StoreTypes /\ JobTypes /\ WorkInv

LEMMA ClientsKeepTypes ==
    ASSUME ConsolidateInv, NEW m \in Memories, Store(m) \/ Read(m) \/ Delete(m) PROVE ConsolidateInv'
<1>1. UNCHANGED <<today, pc, pairs, rows, doomed, done, failures, rescored, readable, spared>>
  BY DEF Store, Read, Delete, jobVars, historyVars
<1>2. StoreTypes'
  BY DEF ConsolidateInv, StoreTypes, Store, Read, Delete, Deleted
<1>3. JobTypes' /\ WorkInv'
  BY <1>1 DEF ConsolidateInv, JobTypes, WorkInv
<1> QED BY <1>2, <1>3 DEF ConsolidateInv

LEMMA LimitsTyped == MergeLimit \in Nat /\ PassLimit \in Nat
OBVIOUS

LEMMA BetweenPhasesKeepsTypes ==
    ASSUME ConsolidateInv,
           NextDay \/ Start \/ ReadFails \/ Killed \/ MergeEnds \/ DecayEnds \/ Exits
    PROVE  ConsolidateInv'
<1>1. StoreTypes'
  <2>1. UNCHANGED storeVars /\ (UNCHANGED today \/ (today' = today + 1 /\ today < MaxDay))
    BY DEF NextDay, Start, ReadFails, Killed, MergeEnds, DecayEnds, Exits
  <2> QED BY <2>1 DEF ConsolidateInv, StoreTypes, storeVars
<1>2. CASE NextDay
  BY <1>1, <1>2 DEF NextDay, ConsolidateInv, JobTypes, WorkInv, jobVars, historyVars
<1>3. CASE Start
  <2>1. pc' = "merge" /\ pairs' = {} /\ rows' = {} /\ doomed' = {} /\ done' = 0 /\ failures' = 0
        /\ rescored' = {} /\ readable' = {} /\ spared' = {}
    BY <1>3 DEF Start, Goto
  <2>2. IsFiniteSet({})
    BY FS_EmptySet
  <2>3. WorkInv'
    BY <2>1, <2>2, LimitsTyped DEF WorkInv
  <2> QED BY <1>1, <2>1, <2>3 DEF ConsolidateInv, JobTypes, Running
<1>4. CASE ReadFails \/ Killed
  <2>1. pc' \in {"failed", "killed"} /\ UNCHANGED <<pairs, rows, doomed, done, failures, rescored, readable, spared>>
    BY <1>4 DEF ReadFails, Killed, Goto, historyVars
  <2> QED BY <1>1, <2>1 DEF ConsolidateInv, JobTypes, WorkInv, Exited
<1>5. CASE MergeEnds \/ DecayEnds \/ Exits
  <2>1. /\ UNCHANGED <<pairs, rows, doomed, done, failures, rescored, readable, spared>>
        /\ \/ pc = "merging" /\ pairs = {} /\ pc' = "decay"
           \/ pc = "decaying" /\ rows = {} /\ pc' = "prune"
           \/ pc = "pruning" /\ doomed = {} /\ pc' \in {"complete", "failed"}
    BY <1>5 DEF MergeEnds, DecayEnds, Exits, Goto, historyVars
  <2>2. Cardinality({}) = 0
    BY FS_EmptySet
  <2>3. WorkInv'
    <3>1. CASE pc = "merging" /\ pairs = {} /\ pc' = "decay"
      <4>1. done + failures <= MergeLimit
        BY <2>2, <3>1 DEF ConsolidateInv, WorkInv
      <4> QED BY <2>1, <3>1, <4>1 DEF ConsolidateInv, WorkInv
    <3>2. CASE pc = "decaying" /\ rows = {} /\ pc' = "prune"
      <4>1. done + failures <= MergeLimit + PassLimit
        BY <2>2, <3>2, LimitsTyped DEF ConsolidateInv, WorkInv
      <4> QED BY <2>1, <3>2, <4>1 DEF ConsolidateInv, WorkInv
    <3>3. CASE pc = "pruning" /\ doomed = {} /\ pc' \in {"complete", "failed"}
      BY <2>1, <3>3 DEF ConsolidateInv, WorkInv
    <3> QED BY <2>1, <3>1, <3>2, <3>3
  <2> QED BY <1>1, <2>1, <2>3 DEF ConsolidateInv, JobTypes, Running, Exited
<1> QED BY <1>2, <1>3, <1>4, <1>5

LEMMA MergeKeepsTypes ==
    ASSUME ConsolidateInv, phaseMerge \/ MergeOne PROVE ConsolidateInv'
<1>1. CASE phaseMerge
  <2>1. PICK read \in Newest(live \cap Semantic, MergeLimit) :
           \E K \in Keepers(read) : pairs' = OlderCopies(K, read)
    BY <1>1 DEF phaseMerge
  <2>2. PICK K \in Keepers(read) : pairs' = OlderCopies(K, read)
    BY <2>1
  <2>3. live \cap Semantic \in SUBSET Memories
    BY DEF ConsolidateInv, StoreTypes
  <2>4. read \subseteq Memories /\ IsFiniteSet(read) /\ Cardinality(read) \in 0..MergeLimit
    BY <2>3, NewestBounded, LimitsTyped
  <2>5. IsFiniteSet(pairs') /\ Cardinality(pairs') <= Cardinality(read)
    BY <2>2, <2>4, CopiesBounded
  <2>6. Cardinality(pairs') \in Nat
    BY <2>5, FS_CardinalityType
  <2>7. pc = "merge" /\ pc' = "merging" /\ UNCHANGED <<today, storeVars, rows, doomed, done, failures, historyVars>>
    BY <1>1 DEF phaseMerge, Goto
  <2>8. pairs' \subseteq Memories \X Memories
    BY <2>2, <2>4 DEF OlderCopies, Keepers
  <2>9. WorkInv'
    BY <2>4, <2>5, <2>6, <2>7, LimitsTyped DEF ConsolidateInv, WorkInv
  <2> QED BY <2>7, <2>8, <2>9 DEF ConsolidateInv, StoreTypes, JobTypes, storeVars, historyVars, Running
<1>2. CASE MergeOne
  <2>1. PICK p \in pairs :
           /\ pairs' = pairs \ {p}
           /\ \/ Endpoints(p) /\ edges' = edges \cup {p} /\ done' = done + 1 /\ failures' = failures
              \/ failures' = failures + 1 /\ done' = done /\ edges' = edges
    BY <1>2 DEF MergeOne, Count
  <2>2. pc = "merging" /\ UNCHANGED <<today, live, created, used, score, pc, rows, doomed, historyVars>>
    BY <1>2 DEF MergeOne
  <2>3. p = <<p[1], p[2]>>
    BY DEF ConsolidateInv, JobTypes
  <2>4. StoreTypes'
    BY <2>1, <2>2, <2>3 DEF ConsolidateInv, StoreTypes, Endpoints
  <2>5. IsFiniteSet(pairs') /\ Cardinality(pairs') = Cardinality(pairs) - 1
        /\ Cardinality(pairs) \in Nat /\ Cardinality(pairs') \in Nat
    BY <2>1, OneLess DEF ConsolidateInv, WorkInv
  <2>6. WorkInv'
    BY <2>1, <2>2, <2>5, LimitsTyped DEF ConsolidateInv, WorkInv
  <2>7. JobTypes'
    BY <2>1, <2>2 DEF ConsolidateInv, JobTypes, historyVars
  <2> QED BY <2>4, <2>6, <2>7 DEF ConsolidateInv
<1> QED BY <1>1, <1>2

LEMMA DecayKeepsTypes ==
    ASSUME ConsolidateInv, phaseDecay \/ DecayOne PROVE ConsolidateInv'
<1>1. CASE phaseDecay
  <2>1. PICK read \in Newest(live, PassLimit) :
           rows' = {[id |-> m, used |-> m \in used] : m \in read} /\ readable' = read
    BY <1>1 DEF phaseDecay
  <2>2. live \in SUBSET Memories
    BY DEF ConsolidateInv, StoreTypes
  <2>3. read \subseteq Memories /\ IsFiniteSet(read) /\ Cardinality(read) \in 0..PassLimit
    BY <2>2, NewestBounded, LimitsTyped
  <2>4. IsFiniteSet(rows') /\ Cardinality(rows') <= Cardinality(read)
    BY <2>1, <2>3, RowsBounded
  <2>5. Cardinality(rows') \in Nat
    BY <2>4, FS_CardinalityType
  <2>6. pc = "decay" /\ pc' = "decaying"
        /\ UNCHANGED <<today, storeVars, pairs, doomed, done, failures, rescored, spared>>
    BY <1>1 DEF phaseDecay, Goto
  <2>7. WorkInv'
    BY <2>3, <2>4, <2>5, <2>6, LimitsTyped DEF ConsolidateInv, WorkInv
  <2>8. rows' \subseteq [id : Memories, used : BOOLEAN]
    <3>1. \A m \in read : [id |-> m, used |-> m \in used] \in [id : Memories, used : BOOLEAN]
      BY <2>3
    <3> QED BY <2>1, <3>1
  <2> QED BY <2>1, <2>3, <2>6, <2>7, <2>8 DEF ConsolidateInv, StoreTypes, JobTypes, storeVars, Running
<1>2. CASE DecayOne
  <2>1. PICK row \in rows :
           /\ rows' = rows \ {row}
           /\ \/ /\ score' = [score EXCEPT ![row.id] = IF row.id \in live THEN NewScore(row) ELSE @]
                 /\ rescored' = rescored \cup {row.id} /\ done' = done + 1 /\ failures' = failures
              \/ failures' = failures + 1 /\ done' = done + 0 /\ UNCHANGED <<score, rescored>>
    BY <1>2 DEF DecayOne, Count, FailedDecay
  <2>2. pc = "decaying" /\ UNCHANGED <<today, live, created, used, edges, pc, pairs, doomed, readable, spared>>
    BY <1>2 DEF DecayOne
  <2>3. row.id \in Memories /\ row.used \in BOOLEAN
    BY DEF ConsolidateInv, JobTypes
  <2>4. NewScore(row) \in 0..Full
    <3>1. today - created[row.id] \in Nat
      BY <2>3 DEF ConsolidateInv, StoreTypes
    <3> QED BY <2>3, <3>1, ScoreTyped DEF NewScore
  <2>5. StoreTypes'
    BY <2>1, <2>2, <2>3, <2>4 DEF ConsolidateInv, StoreTypes
  <2>6. IsFiniteSet(rows') /\ Cardinality(rows') = Cardinality(rows) - 1
        /\ Cardinality(rows) \in Nat /\ Cardinality(rows') \in Nat
    BY <2>1, OneLess DEF ConsolidateInv, WorkInv
  <2>7. WorkInv'
    BY <2>1, <2>2, <2>6, LimitsTyped DEF ConsolidateInv, WorkInv
  <2>8. JobTypes'
    BY <2>1, <2>2, <2>3 DEF ConsolidateInv, JobTypes
  <2> QED BY <2>5, <2>7, <2>8 DEF ConsolidateInv
<1> QED BY <1>1, <1>2

LEMMA PruneKeepsTypes ==
    ASSUME ConsolidateInv, phasePrune \/ PruneOne PROVE ConsolidateInv'
<1>1. CASE phasePrune
  <2>1. PICK read \in Newest(live, PassLimit) : doomed' = {m \in read : Abandoned(m)}
    BY <1>1 DEF phasePrune
  <2>2. live \in SUBSET Memories
    BY DEF ConsolidateInv, StoreTypes
  <2>3. read \subseteq Memories /\ IsFiniteSet(read) /\ Cardinality(read) \in 0..PassLimit
    BY <2>2, NewestBounded, LimitsTyped
  <2>4. IsFiniteSet(doomed') /\ Cardinality(doomed') <= Cardinality(read) /\ doomed' \subseteq Memories
    BY <2>1, <2>3, FS_Subset
  <2>5. Cardinality(doomed') \in Nat
    BY <2>4, FS_CardinalityType
  <2>6. pc = "prune" /\ pc' = "pruning" /\ spared' = used
        /\ UNCHANGED <<today, storeVars, pairs, rows, done, failures, rescored, readable>>
    BY <1>1 DEF phasePrune, Goto
  <2>7. WorkInv'
    BY <2>3, <2>4, <2>5, <2>6, LimitsTyped DEF ConsolidateInv, WorkInv
  <2> QED BY <2>4, <2>6, <2>7 DEF ConsolidateInv, StoreTypes, JobTypes, storeVars, Running
<1>2. CASE PruneOne
  <2>1. PICK m \in doomed :
           /\ doomed' = doomed \ {m}
           /\ \/ Deleted(m) /\ done' = done + 1 /\ failures' = failures
              \/ failures' = failures + 1 /\ UNCHANGED <<live, edges, done>>
    BY <1>2 DEF PruneOne, Count
  <2>2. pc = "pruning" /\ UNCHANGED <<today, created, used, score, pc, pairs, rows, historyVars>>
    BY <1>2 DEF PruneOne
  <2>3. StoreTypes'
    BY <2>1, <2>2 DEF ConsolidateInv, StoreTypes, Deleted
  <2>4. IsFiniteSet(doomed') /\ Cardinality(doomed') = Cardinality(doomed) - 1
        /\ Cardinality(doomed) \in Nat /\ Cardinality(doomed') \in Nat
    BY <2>1, OneLess DEF ConsolidateInv, WorkInv
  <2>5. WorkInv'
    BY <2>1, <2>2, <2>4, LimitsTyped DEF ConsolidateInv, WorkInv
  <2>6. JobTypes'
    BY <2>1, <2>2 DEF ConsolidateInv, JobTypes, historyVars
  <2> QED BY <2>3, <2>5, <2>6 DEF ConsolidateInv
<1> QED BY <1>1, <1>2

\* A run attempts, and so reports, no more than its three reads return.
THEOREM TypeCorrect == Spec => []TypeOK
<1>1. Init => ConsolidateInv
  <2>1. SUFFICES ASSUME Init PROVE ConsolidateInv
    OBVIOUS
  <2>2. IsFiniteSet({}) /\ Full = 8
    BY FS_EmptySet DEF Full
  <2>3. StoreTypes
    BY <2>1, <2>2 DEF Init, StoreTypes
  <2> QED BY <2>1, <2>2, <2>3, LimitsTyped DEF Init, ConsolidateInv, JobTypes, WorkInv, Exited
<1>2. ConsolidateInv /\ [Next]_vars => ConsolidateInv'
  <2>1. SUFFICES ASSUME ConsolidateInv, [Next]_vars PROVE ConsolidateInv'
    OBVIOUS
  <2>2. CASE \E m \in Memories : Store(m) \/ Read(m) \/ Delete(m)
    BY <2>1, <2>2, ClientsKeepTypes
  <2>3. CASE NextDay \/ Start \/ ReadFails \/ Killed \/ MergeEnds \/ DecayEnds \/ Exits
    BY <2>1, <2>3, BetweenPhasesKeepsTypes
  <2>4. CASE phaseMerge \/ MergeOne
    BY <2>1, <2>4, MergeKeepsTypes
  <2>5. CASE phaseDecay \/ DecayOne
    BY <2>1, <2>5, DecayKeepsTypes
  <2>6. CASE phasePrune \/ PruneOne
    BY <2>1, <2>6, PruneKeepsTypes
  <2>7. CASE UNCHANGED vars
    BY <2>1, <2>7 DEF vars, storeVars, jobVars, historyVars, ConsolidateInv, StoreTypes, JobTypes, WorkInv
  <2> QED BY <2>1, <2>2, <2>3, <2>4, <2>5, <2>6, <2>7 DEF Next, Job
<1>3. ConsolidateInv => TypeOK
  BY DEF ConsolidateInv, StoreTypes, JobTypes, WorkInv, TypeOK
<1> QED BY <1>1, <1>2, <1>3, PTL DEF Spec
=============================================================================
