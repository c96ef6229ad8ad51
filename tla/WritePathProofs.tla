--------------------------- MODULE WritePathProofs ---------------------------
(***************************************************************************)
(* That no interleaving of Extract, Store and DeleteMemory makes a memory  *)
(* named in a response stop saying what its caller said, for any number of *)
(* requests, deletes, memories and texts; that Extract and Store implement *)
(* the abstract fact store of FactStore as long as nobody deletes; and     *)
(* that the nightly prune beside them spares what was stated twice.        *)
(***************************************************************************)
EXTENDS Prune, TLAPS

\* content_hash is rewritten whenever content is: what makes the hash a sound
\* guard for the compare-and-set.
HashInSync == \A id \in Ids : Live(id) => memory[id].content_hash = memory[id].content

\* While a request folds, the row it folds into may only have grown since it was
\* read; once the fold or the create has happened, the row says the memory.
TargetSays(r) ==
    LET id == target[r].id IN
    /\ target[r] \in Targets
    /\ slot[r] \in 1..Len(job[r])
    /\ memory[id] # Unborn
    /\ Live(id) => memory[id].type = Current(r).type
    /\ pc[r] = "fold" => <<Current(r).content, target[r].content>> \in Carries
    /\ pc[r] # "fold" /\ Live(id) => <<memory[id].content, Current(r).content>> \in Carries

RequestInv(r) ==
    /\ pc[r] \in {"start", "lookup"} => reported[r] = {}
    /\ pc[r] \in {"search", "create"} => slot[r] \in 1..Len(job[r])
    /\ pc[r] \in {"fold", "reembed", "bump", "vector"} => TargetSays(r)

\* No embedding is stored before the memory is created.
UnbornBare == \A id \in Ids : memory[id] = Unborn => embedding[id] = NoVector

IInv ==
    /\ TypeOK
    /\ HashInSync
    /\ UnbornBare
    /\ VectorWithinContent
    /\ ReportedFactKept
    /\ \A r \in Requests : RequestInv(r)

\* What any step may do to the :Memory vertices.
MemoryStep ==
    \A id \in Ids :
        /\ memory[id] = Deleted => memory'[id] = Deleted
        /\ memory[id] \in Rows =>
               \/ memory'[id] = Deleted
               \/ /\ memory'[id] \in Rows
                  /\ memory'[id].type = memory[id].type
                  /\ <<memory'[id].content, memory[id].content>> \in Carries

MemoryTypeOK == memory \in [Ids -> Rows \cup {Unborn, Deleted}]

-------------------------------------------------------------------------------
(* Each statement on the :Memory vertices is a MemoryStep *)

USE DEF Live

LEMMA UnchangedStep ==
    ASSUME MemoryTypeOK, HashInSync, UNCHANGED memory
    PROVE  MemoryTypeOK' /\ HashInSync' /\ MemoryStep
BY RepoAssumption DEF MemoryTypeOK, HashInSync, MemoryStep, Rows

LEMMA CreateStep ==
    ASSUME MemoryTypeOK, HashInSync, NEW id \in Ids, NEW f \in Facts,
           memory[id] = Unborn, CreateMemory(id, f)
    PROVE  MemoryTypeOK' /\ HashInSync' /\ MemoryStep
           /\ memory'[id] \in Rows /\ memory'[id].type = f.type /\ memory'[id].content = f.content
<1>1. memory'[id] \in Rows /\ memory'[id].type = f.type /\ memory'[id].content = f.content
      /\ memory'[id].content_hash = f.content
  BY DEF MemoryTypeOK, CreateMemory, Rows, Facts
<1>2. \A other \in Ids : other # id => memory'[other] = memory[other]
  BY DEF MemoryTypeOK, CreateMemory
<1> QED BY <1>1, <1>2, RepoAssumption DEF MemoryTypeOK, HashInSync, MemoryStep, CreateMemory, Rows

LEMMA UpdateStep ==
    ASSUME MemoryTypeOK, HashInSync, NEW id \in Ids, NEW old \in Contents,
           NEW content \in Contents, <<content, old>> \in Carries,
           HashMatches(id, old), UpdateMemoryContent(id, content)
    PROVE  MemoryTypeOK' /\ HashInSync' /\ MemoryStep
           /\ memory'[id] \in Rows /\ memory'[id].type = memory[id].type
           /\ memory'[id].content = content
<1>1. memory[id] \in Rows /\ memory[id].content = old
  BY DEF HashMatches, HashInSync
<1>2. /\ memory'[id] \in Rows
      /\ memory'[id].type = memory[id].type
      /\ memory'[id].content = content
      /\ memory'[id].content_hash = content
  BY <1>1 DEF MemoryTypeOK, UpdateMemoryContent, Rows
<1>3. \A other \in Ids : other # id => memory'[other] = memory[other]
  BY DEF MemoryTypeOK, UpdateMemoryContent
<1>4. MemoryTypeOK'
  BY <1>2, <1>3 DEF MemoryTypeOK, UpdateMemoryContent
<1>5. HashInSync'
  BY <1>2, <1>3 DEF HashInSync
<1>6. MemoryStep
  BY <1>1, <1>2, <1>3, RepoAssumption DEF MemoryStep, MemoryTypeOK, Rows
<1> QED BY <1>2, <1>4, <1>5, <1>6

LEMMA IncrementStep ==
    ASSUME MemoryTypeOK, HashInSync, NEW ids, IncrementAccessCounts(ids)
    PROVE  MemoryTypeOK' /\ HashInSync' /\ MemoryStep
<1>1. ASSUME NEW id \in Ids
      PROVE  \/ memory'[id] = memory[id]
             \/ /\ memory[id] \in Rows /\ memory'[id] \in Rows
                /\ memory'[id].type = memory[id].type
                /\ memory'[id].content = memory[id].content
                /\ memory'[id].content_hash = memory[id].content_hash
  BY DEF IncrementAccessCounts, MemoryTypeOK, Rows
<1>2. MemoryTypeOK'
  BY <1>1 DEF MemoryTypeOK, IncrementAccessCounts
<1>3. HashInSync'
  BY <1>1 DEF HashInSync
<1>4. MemoryStep
  BY <1>1, RepoAssumption DEF MemoryStep, MemoryTypeOK, Rows
<1> QED BY <1>2, <1>3, <1>4

LEMMA DetachStep ==
    ASSUME MemoryTypeOK, HashInSync, NEW id \in Ids, DetachDelete(id)
    PROVE  MemoryTypeOK' /\ HashInSync' /\ MemoryStep
<1>1. memory'[id] = IF memory[id] \in Rows THEN Deleted ELSE memory[id]
  BY DEF DetachDelete, MemoryTypeOK
<1>2. \A other \in Ids : other # id => memory'[other] = memory[other]
  BY DEF DetachDelete, MemoryTypeOK
<1>3. MemoryTypeOK'
  BY <1>1, <1>2 DEF MemoryTypeOK, DetachDelete
<1>4. HashInSync' /\ MemoryStep
  BY <1>1, <1>2, RepoAssumption DEF MemoryTypeOK, HashInSync, MemoryStep, Rows
<1> QED BY <1>3, <1>4

-------------------------------------------------------------------------------
(* What a MemoryStep leaves standing *)

\* The answer a of request r is still true.
Says(r, a) ==
    \/ memory[a.id] = Deleted
    \/ Live(a.id) /\ Covers(FactOf(memory[a.id]), job[r][a.slot])

SameRequest(s) ==
    /\ pc'[s] = pc[s] /\ job'[s] = job[s] /\ slot'[s] = slot[s]
    /\ target'[s] = target[s] /\ reported'[s] = reported[s]

LEMMA VectorFrame ==
    ASSUME IInv, MemoryStep, MemoryTypeOK', UNCHANGED embedding
    PROVE  VectorWithinContent' /\ UnbornBare'
<1> USE DEF IInv, TypeOK, RepoTypeOK
<1>1. ASSUME NEW id \in Ids, memory'[id] \in Rows, embedding'[id] # NoVector
      PROVE  <<memory'[id].content, embedding'[id]>> \in Carries
  <2>1. memory[id] \in Rows
    BY <1>1, RepoAssumption DEF UnbornBare, MemoryStep
  <2>2. <<memory[id].content, embedding[id]>> \in Carries
    BY <1>1, <2>1 DEF VectorWithinContent
  <2>3. <<memory'[id].content, memory[id].content>> \in Carries
    BY <1>1, <2>1, RepoAssumption DEF MemoryStep
  <2> QED BY <2>1, <2>2, <2>3, <1>1, RepoAssumption DEF Rows
<1>2. UnbornBare'
  BY RepoAssumption DEF UnbornBare, MemoryStep
<1> QED BY <1>1, <1>2 DEF VectorWithinContent

LEMMA SaysFrame ==
    ASSUME TypeOK, MemoryStep, NEW r \in Requests, NEW a \in Answers,
           Says(r, a), job'[r] = job[r]
    PROVE  Says(r, a)'
<1> USE DEF TypeOK, RepoTypeOK, Answers
<1>1. a.id \in Ids
  OBVIOUS
<1>2. CASE memory[a.id] = Deleted
  BY <1>1, <1>2 DEF MemoryStep, Says
<1>3. CASE memory[a.id] \in Rows /\ Covers(FactOf(memory[a.id]), job[r][a.slot])
  <2> DEFINE f == job[r][a.slot]
  <2>1. memory[a.id].type = f.type /\ <<memory[a.id].content, f.content>> \in Carries
    BY <1>3 DEF Covers, FactOf
  <2>2. f.content \in Contents
    BY <2>1, RepoAssumption
  <2>3. CASE memory'[a.id] = Deleted
    BY <2>3 DEF Says
  <2>4. CASE /\ memory'[a.id] \in Rows
             /\ memory'[a.id].type = memory[a.id].type
             /\ <<memory'[a.id].content, memory[a.id].content>> \in Carries
    <3>1. <<memory'[a.id].content, f.content>> \in Carries
      BY <1>3, <2>1, <2>2, <2>4, RepoAssumption DEF Rows
    <3>2. memory'[a.id].type = f.type
      BY <2>1, <2>4
    <3> QED BY <2>4, <3>1, <3>2 DEF Says, Covers, FactOf
  <2> QED BY <1>1, <1>3, <2>3, <2>4 DEF MemoryStep
<1> QED BY <1>2, <1>3 DEF Says

\* A request that only waits keeps true answers.
LEMMA AnswersKept ==
    ASSUME IInv, MemoryStep, NEW r \in Requests, job'[r] = job[r], reported'[r] = reported[r]
    PROVE  \A a \in reported'[r] : Says(r, a)'
<1>1. \A a \in reported[r] : a \in Answers /\ Says(r, a)
  BY DEF IInv, TypeOK, ReportedFactKept, Says
<1>2. \A a \in Answers : Says(r, a) => Says(r, a)'
  BY SaysFrame DEF IInv
<1> QED BY <1>1, <1>2

LEMMA RequestFrame ==
    ASSUME TypeOK, MemoryStep, NEW s \in Requests, RequestInv(s), SameRequest(s)
    PROVE  RequestInv(s)'
<1> USE DEF SameRequest
<1>1. CASE pc[s] \in {"fold", "reembed", "bump", "vector"}
  <2> DEFINE id == target[s].id
  <2>1. TargetSays(s)
    BY <1>1 DEF RequestInv
  <2>2. id \in Ids /\ Current(s)' = Current(s)
    BY <2>1 DEF TargetSays, Targets, Current
  <2>3. memory'[id] # Unborn
    BY <2>1, <2>2, RepoAssumption DEF TargetSays, MemoryStep, TypeOK, RepoTypeOK
  <2>4. memory'[id] \in Rows => memory[id] \in Rows
    BY <2>1, <2>2, RepoAssumption DEF TargetSays, MemoryStep, TypeOK, RepoTypeOK
  <2>5. memory'[id] \in Rows => memory'[id].type = Current(s).type
    BY <2>1, <2>2, <2>4, RepoAssumption DEF TargetSays, MemoryStep
  <2>6. pc[s] # "fold" /\ memory'[id] \in Rows => <<memory'[id].content, Current(s).content>> \in Carries
    BY <2>1, <2>2, <2>4, RepoAssumption DEF TargetSays, MemoryStep, Rows
  <2>7. TargetSays(s)'
    BY <2>1, <2>2, <2>3, <2>5, <2>6 DEF TargetSays
  <2> QED BY <1>1, <2>7 DEF RequestInv
<1>2. CASE pc[s] \notin {"fold", "reembed", "bump", "vector"}
  BY <1>2 DEF RequestInv
<1> QED BY <1>1, <1>2

\* What is left to show of a step of request r.
LEMMA Assemble ==
    ASSUME IInv, MemoryStep, HashInSync', TypeOK', UnbornBare', VectorWithinContent',
           NEW r \in Requests, \A s \in Requests : s # r => SameRequest(s),
           RequestInv(r)', \A a \in reported'[r] : Says(r, a)'
    PROVE  IInv'
<1>1. \A s \in Requests : RequestInv(s)'
  BY RequestFrame DEF IInv
<1>2. \A s \in Requests : \A a \in reported'[s] : Says(s, a)'
  BY AnswersKept DEF SameRequest
<1>3. ReportedFactKept'
  BY <1>2 DEF ReportedFactKept, Says
<1> QED BY <1>1, <1>3 DEF IInv

LEMMA AdvanceMoves ==
    ASSUME TypeOK, NEW r \in Requests, NEW first \in Nat \ {0}, NEW answers,
           Advance(r, first, answers)
    PROVE  /\ pc' \in [Requests -> Steps] /\ slot' \in [Requests -> Nat]
           /\ pc'[r] = "done" \/ (pc'[r] = "search" /\ slot'[r] \in 1..Len(job[r]))
           /\ \A s \in Requests : s # r => pc'[s] = pc[s] /\ slot'[s] = slot[s]
<1>1. job[r] \in Seq(Facts) /\ Len(job[r]) \in Nat
  BY DEF TypeOK
<1>2. Pending(r, first, answers) \subseteq 1..Len(job[r])
  BY <1>1 DEF Pending
<1>3. CASE Goto(r, "done") /\ UNCHANGED slot
  BY <1>3 DEF Goto, TypeOK, Steps
<1>4. CASE \E i \in Pending(r, first, answers) :
               slot' = [slot EXCEPT ![r] = i] /\ Goto(r, "search")
  BY <1>1, <1>2, <1>4 DEF Goto, TypeOK, Steps
<1> QED BY <1>3, <1>4 DEF Advance

-------------------------------------------------------------------------------
(* One lemma per action of a request *)

LEMMA MemoryTyped == ASSUME TypeOK PROVE MemoryTypeOK
BY DEF TypeOK, RepoTypeOK, MemoryTypeOK

LEMMA BeginExtractInv ==
    ASSUME IInv, NEW r \in Requests, BeginExtract(r)
    PROVE  IInv' /\ MemoryStep
<1> USE DEF BeginExtract, Goto
<1>1. MemoryTypeOK' /\ HashInSync' /\ MemoryStep
  BY UnchangedStep, MemoryTyped DEF IInv
<1>2. VectorWithinContent' /\ UnbornBare'
  BY <1>1, VectorFrame
<1>3. TypeOK'
  BY WritePathAssumption DEF IInv, TypeOK, RepoTypeOK, deleteVars, Steps
<1>4. \A s \in Requests : s # r => SameRequest(s)
  BY DEF SameRequest, IInv, TypeOK
<1>5. reported'[r] = {} /\ pc'[r] = "lookup"
  BY DEF IInv, TypeOK, RequestInv
<1>6. RequestInv(r)'
  BY <1>5 DEF RequestInv
<1> QED BY <1>1, <1>2, <1>3, <1>4, <1>5, <1>6, Assemble

LEMMA BeginStoreInv ==
    ASSUME IInv, NEW r \in Requests, BeginStore(r)
    PROVE  IInv' /\ MemoryStep
<1> USE DEF BeginStore, Goto
<1>1. MemoryTypeOK' /\ HashInSync' /\ MemoryStep
  BY UnchangedStep, MemoryTyped DEF IInv
<1>2. VectorWithinContent' /\ UnbornBare'
  BY <1>1, VectorFrame
<1>3. TypeOK'
  BY DEF IInv, TypeOK, RepoTypeOK, deleteVars, Steps
<1>4. \A s \in Requests : s # r => SameRequest(s)
  BY DEF SameRequest, IInv, TypeOK
<1>5. /\ reported'[r] = {} /\ pc'[r] = "create" /\ slot'[r] = 1
      /\ \E f \in Facts : job'[r] = <<f>>
  BY DEF IInv, TypeOK, RequestInv
<1>6. RequestInv(r)'
  BY <1>5 DEF RequestInv
<1> QED BY <1>1, <1>2, <1>3, <1>4, <1>5, <1>6, Assemble

LEMMA FindExistingInv ==
    ASSUME IInv, NEW r \in Requests, FindExisting(r)
    PROVE  IInv' /\ MemoryStep
<1> USE DEF FindExisting, Goto
<1>1. MemoryTypeOK' /\ HashInSync' /\ MemoryStep
  BY UnchangedStep, MemoryTyped DEF IInv
<1>2. VectorWithinContent' /\ UnbornBare'
  BY <1>1, VectorFrame
<1>3. \A s \in Requests : s # r => SameRequest(s)
  BY DEF SameRequest, IInv, TypeOK
<1>4. /\ pc'[r] = "restate" /\ job' = job /\ memory' = memory
      /\ pc' \in [Requests -> Steps]
  BY DEF IInv, TypeOK, Steps
<1>5. RequestInv(r)'
  BY <1>4 DEF RequestInv
<1>6. /\ reported' \in [Requests -> SUBSET Answers]
      /\ \A a \in reported'[r] : Says(r, a)'
  <2> DEFINE slots == 1..Len(job[r])
             held  == {f \in Facts : Twins(f) # {} /\ \E i \in slots : job[r][i] = f}
  <2>1. CASE reported' = reported
    BY <2>1, <1>4 DEF IInv, TypeOK, RequestInv
  <2>2. ASSUME NEW row \in [held -> Ids], \A f \in held : row[f] \in Twins(f),
               reported' = [reported EXCEPT ![r] =
                   {[slot |-> i, id |-> row[job[r][i]]] : i \in {j \in slots : job[r][j] \in held}}]
        PROVE  reported' \in [Requests -> SUBSET Answers] /\ \A a \in reported'[r] : Says(r, a)'
    <3>1. reported'[r] = {[slot |-> i, id |-> row[job[r][i]]] : i \in {j \in slots : job[r][j] \in held}}
      BY <2>2 DEF IInv, TypeOK
    <3>2. ASSUME NEW i \in slots, job[r][i] \in held
          PROVE  LET a == [slot |-> i, id |-> row[job[r][i]]]
                 IN  a \in Answers /\ Says(r, a)'
      <4> DEFINE id == row[job[r][i]]
      <4>1. id \in Ids /\ memory[id] \in Rows /\ FactOf(memory[id]) = job[r][i]
        BY <2>2, <3>2 DEF Twins
      <4>2. Covers(FactOf(memory[id]), job[r][i])
        BY <4>1, <3>2, RepoAssumption DEF Covers, Facts
      <4>3. i \in Nat
        BY DEF IInv, TypeOK
      <4> QED BY <4>1, <4>2, <4>3, <1>4 DEF Says, Answers
    <3>3. \A a \in reported'[r] : a \in Answers /\ Says(r, a)'
      BY <3>1, <3>2
    <3>4. \A s \in Requests : s # r => reported'[s] = reported[s]
      BY <2>2 DEF IInv, TypeOK
    <3>5. reported' = [s \in Requests |-> reported'[s]]
      BY <2>2 DEF IInv, TypeOK
    <3>6. \A s \in Requests : reported'[s] \subseteq Answers
      BY <3>3, <3>4 DEF IInv, TypeOK
    <3> QED BY <3>3, <3>5, <3>6
  <2> QED BY <2>1, <2>2
<1>7. TypeOK'
  BY <1>1, <1>4, <1>6 DEF IInv, TypeOK, RepoTypeOK, MemoryTypeOK, deleteVars
<1> QED BY <1>1, <1>2, <1>3, <1>5, <1>6, <1>7, Assemble

LEMMA RestateAndEmbedInv ==
    ASSUME IInv, NEW r \in Requests, RestateAndEmbed(r)
    PROVE  IInv' /\ MemoryStep
<1> USE DEF RestateAndEmbed
<1>1. MemoryTypeOK' /\ HashInSync' /\ MemoryStep
  BY UnchangedStep, IncrementStep, MemoryTyped DEF IInv
<1>2. VectorWithinContent' /\ UnbornBare'
  BY <1>1, VectorFrame
<1>3. /\ pc' \in [Requests -> Steps] /\ slot' \in [Requests -> Nat]
      /\ pc'[r] = "done" \/ (pc'[r] = "search" /\ slot'[r] \in 1..Len(job[r]))
      /\ \A s \in Requests : s # r => pc'[s] = pc[s] /\ slot'[s] = slot[s]
  BY AdvanceMoves DEF IInv
<1>4. vectors' \in [Requests -> SUBSET Nat]
  <2>1. Pending(r, 1, reported[r]) \subseteq Nat
    BY DEF Pending, IInv, TypeOK
  <2> QED BY <2>1 DEF IInv, TypeOK
<1>5. TypeOK'
  BY <1>1, <1>3, <1>4 DEF IInv, TypeOK, RepoTypeOK, MemoryTypeOK, deleteVars
<1>6. \A s \in Requests : s # r => SameRequest(s)
  BY <1>3 DEF SameRequest
<1>7. RequestInv(r)'
  BY <1>3 DEF RequestInv
<1>8. \A a \in reported'[r] : Says(r, a)'
  BY <1>1, AnswersKept
<1> QED BY <1>1, <1>2, <1>5, <1>6, <1>7, <1>8, Assemble

LEMMA SearchNeighboursInv ==
    ASSUME IInv, NEW r \in Requests, SearchNeighbours(r)
    PROVE  IInv' /\ MemoryStep
<1> USE DEF SearchNeighbours, Goto
<1>1. MemoryTypeOK' /\ HashInSync' /\ MemoryStep
  BY UnchangedStep, MemoryTyped DEF IInv
<1>2. VectorWithinContent' /\ UnbornBare'
  BY <1>1, VectorFrame
<1>3. slot[r] \in 1..Len(job[r]) /\ job[r] \in Seq(Facts) /\ Current(r) \in Facts
  BY DEF IInv, TypeOK, RequestInv, Current
<1>4. TypeOK' /\ RequestInv(r)'
  <2>1. CASE UNCHANGED target /\ pc' = [pc EXCEPT ![r] = "create"]
    BY <2>1, <1>3 DEF IInv, TypeOK, RepoTypeOK, deleteVars, Steps, RequestInv
  <2>2. ASSUME NEW id \in Searchable,
               FoldsInto(Current(r), memory[id]),
               target' = [target EXCEPT ![r] = [id |-> id, content |-> memory[id].content]],
               pc' = [pc EXCEPT ![r] =
                   IF Subsumes(Current(r).content, memory[id].content) = "NewSubsumesOld"
                   THEN "fold" ELSE "bump"]
        PROVE  TypeOK' /\ RequestInv(r)'
    <3>1. /\ id \in Ids /\ memory[id] \in Rows /\ memory[id].content \in Contents
          /\ memory[id].type = Current(r).type
      BY <2>2 DEF Searchable, FoldsInto, Rows
    <3>2. TypeOK'
      BY <2>2, <3>1 DEF IInv, TypeOK, RepoTypeOK, deleteVars, Steps, Targets
    <3>3. target'[r] = [id |-> id, content |-> memory[id].content] /\ Current(r)' = Current(r)
      BY <2>2 DEF IInv, TypeOK, Current
    <3>4. \/ /\ pc'[r] = "fold"
             /\ <<Current(r).content, memory[id].content>> \in Carries
          \/ /\ pc'[r] = "bump"
             /\ <<memory[id].content, Current(r).content>> \in Carries
      BY <2>2 DEF Subsumes, FoldsInto, IInv, TypeOK
    <3>5. TargetSays(r)'
      BY <1>3, <3>1, <3>3, <3>4, RepoAssumption DEF TargetSays, Targets
    <3> QED BY <3>2, <3>4, <3>5 DEF RequestInv
  <2> QED BY <2>1, <2>2
<1>5. \A s \in Requests : s # r => SameRequest(s)
  BY DEF SameRequest, IInv, TypeOK
<1>6. \A a \in reported'[r] : Says(r, a)'
  BY DEF IInv, ReportedFactKept, Says
<1> QED BY <1>1, <1>2, <1>4, <1>5, <1>6, Assemble

\* Between the neighbour read and the answer a request has a well-typed target.
LEMMA TargetFacts ==
    ASSUME IInv, NEW r \in Requests, pc[r] \in {"fold", "reembed", "bump", "vector"}
    PROVE  /\ TargetSays(r) /\ target[r].id \in Ids /\ target[r].content \in Contents
           /\ slot[r] \in 1..Len(job[r]) /\ Current(r) \in Facts
<1>1. TargetSays(r)
  BY DEF IInv, RequestInv
<1>2. target[r].id \in Ids /\ target[r].content \in Contents
  BY <1>1 DEF TargetSays, Targets
<1>3. slot[r] \in 1..Len(job[r])
  BY <1>1 DEF TargetSays
<1>4. Current(r) \in Facts
  BY <1>3 DEF IInv, TypeOK, Current
<1> QED BY <1>1, <1>2, <1>3, <1>4

LEMMA FoldInv ==
    ASSUME IInv, NEW r \in Requests, Fold(r)
    PROVE  IInv' /\ MemoryStep
<1> USE DEF Fold, Goto
<1> DEFINE id == target[r].id
           new == Current(r).content
<1>1. /\ TargetSays(r) /\ id \in Ids /\ new \in Contents /\ target[r].content \in Contents
      /\ <<new, target[r].content>> \in Carries
      /\ slot[r] \in 1..Len(job[r]) /\ Current(r)' = Current(r)
  <2>1. TargetSays(r) /\ id \in Ids /\ target[r].content \in Contents
        /\ slot[r] \in 1..Len(job[r]) /\ new \in Contents
    BY TargetFacts DEF Facts
  <2>2. <<new, target[r].content>> \in Carries
    BY <2>1 DEF TargetSays
  <2> QED BY <2>1, <2>2 DEF Current
<1>2. \/ /\ HashMatches(id, target[r].content) /\ UpdateMemoryContent(id, new)
      \/ UNCHANGED memory
  OBVIOUS
<1>3. MemoryTypeOK' /\ HashInSync' /\ MemoryStep
  BY <1>1, <1>2, UnchangedStep, UpdateStep, MemoryTyped DEF IInv
<1>4. VectorWithinContent' /\ UnbornBare'
  BY <1>3, VectorFrame
<1>5. TypeOK'
  BY <1>3 DEF IInv, TypeOK, RepoTypeOK, MemoryTypeOK, deleteVars, Steps
<1>6. RequestInv(r)'
  <2>1. CASE pc'[r] = "create"
    BY <2>1, <1>1 DEF RequestInv
  <2>2. CASE pc'[r] # "create"
    <3>1. pc'[r] = "reembed" /\ HashMatches(id, target[r].content) /\ UpdateMemoryContent(id, new)
      BY <2>2 DEF IInv, TypeOK
    <3>2. /\ memory'[id] \in Rows /\ memory'[id].type = memory[id].type
          /\ memory'[id].content = new
      BY <1>1, <3>1, UpdateStep, MemoryTyped DEF IInv
    <3>3. memory[id].type = Current(r).type
      BY <1>1, <3>1 DEF HashMatches, TargetSays
    <3>4. TargetSays(r)'
      BY <1>1, <3>1, <3>2, <3>3, RepoAssumption DEF TargetSays
    <3> QED BY <3>1, <3>4 DEF RequestInv
  <2> QED BY <2>1, <2>2
<1>7. \A s \in Requests : s # r => SameRequest(s)
  BY DEF SameRequest, IInv, TypeOK
<1>8. \A a \in reported'[r] : Says(r, a)'
  BY <1>3, AnswersKept
<1> QED BY <1>3, <1>4, <1>5, <1>6, <1>7, <1>8, Assemble

\* Storing the vector of the text the target row says, where it may still be live.
LEMMA StoreTargetVector ==
    ASSUME IInv, NEW r \in Requests, pc[r] \in {"reembed", "vector"}, UNCHANGED memory,
           StoreEmbedding(target[r].id, Current(r).content) \/ UNCHANGED embedding
    PROVE  /\ embedding' \in [Ids -> Contents \cup {NoVector}]
           /\ VectorWithinContent' /\ UnbornBare'
<1> DEFINE id == target[r].id
<1>1. /\ TargetSays(r) /\ id \in Ids /\ Current(r).content \in Contents
  BY TargetFacts DEF Facts
<1>2. memory[id] # Unborn
  BY <1>1 DEF TargetSays
<1>3. memory[id] \in Rows => <<memory[id].content, Current(r).content>> \in Carries
  BY <1>1 DEF TargetSays
<1>4. CASE UNCHANGED embedding
  BY <1>4 DEF IInv, TypeOK, RepoTypeOK, VectorWithinContent, UnbornBare
<1>5. CASE StoreEmbedding(id, Current(r).content)
  <2>1. embedding'[id] = Current(r).content
        /\ \A other \in Ids : other # id => embedding'[other] = embedding[other]
    BY <1>1, <1>5 DEF StoreEmbedding, IInv, TypeOK, RepoTypeOK
  <2>2. embedding' \in [Ids -> Contents \cup {NoVector}]
    BY <1>1, <1>5 DEF StoreEmbedding, IInv, TypeOK, RepoTypeOK
  <2> QED BY <1>1, <1>2, <1>3, <2>1, <2>2 DEF IInv, VectorWithinContent, UnbornBare
<1> QED BY <1>4, <1>5

\* Answering the current slot with the target row, which says the memory.
LEMMA ReportTarget ==
    ASSUME IInv, NEW r \in Requests, pc[r] \in {"bump", "vector"}, MemoryStep,
           job' = job, Report(r, target[r].id)
    PROVE  /\ pc' \in [Requests -> Steps] /\ slot' \in [Requests -> Nat]
           /\ reported' \in [Requests -> SUBSET Answers]
           /\ RequestInv(r)'
           /\ \A a \in reported'[r] : Says(r, a)'
           /\ \A s \in Requests : s # r =>
                  pc'[s] = pc[s] /\ slot'[s] = slot[s] /\ reported'[s] = reported[s]
<1> DEFINE new     == [slot |-> slot[r], id |-> target[r].id]
           answers == reported[r] \cup {new}
<1>1. /\ TargetSays(r) /\ target[r].id \in Ids /\ Current(r) \in Facts
      /\ slot[r] \in 1..Len(job[r]) /\ slot[r] \in Nat
  BY TargetFacts DEF IInv, TypeOK
<1>2. new \in Answers
  BY <1>1 DEF Answers
<1>3. /\ reported' \in [Requests -> SUBSET Answers]
      /\ reported'[r] = answers
      /\ \A s \in Requests : s # r => reported'[s] = reported[s]
  <2>1. reported' = [reported EXCEPT ![r] = answers]
    BY DEF Report
  <2>2. answers \subseteq Answers
    BY <1>2 DEF IInv, TypeOK
  <2> QED BY <2>1, <2>2 DEF IInv, TypeOK
<1>4. Says(r, new)
  <2>1. CASE memory[target[r].id] = Deleted
    BY <2>1 DEF Says
  <2>2. CASE memory[target[r].id] \in Rows
    BY <2>2, <1>1 DEF TargetSays, Says, Covers, FactOf, Current
  <2> QED BY <1>1, <2>1, <2>2 DEF TargetSays, IInv, TypeOK, RepoTypeOK
<1>5. \A a \in reported'[r] : Says(r, a)'
  <2>1. \A a \in answers : a \in Answers /\ Says(r, a)
    BY <1>2, <1>4 DEF IInv, TypeOK, ReportedFactKept, Says
  <2>2. \A a \in Answers : Says(r, a) => Says(r, a)'
    BY SaysFrame DEF IInv
  <2>3. \A a \in reported'[r] : a \in Answers /\ Says(r, a)
    BY <1>3, <2>1
  <2> QED BY <2>2, <2>3
<1>6. /\ pc' \in [Requests -> Steps] /\ slot' \in [Requests -> Nat]
      /\ pc'[r] = "done" \/ (pc'[r] = "search" /\ slot'[r] \in 1..Len(job[r]))
      /\ \A s \in Requests : s # r => pc'[s] = pc[s] /\ slot'[s] = slot[s]
  <2>1. Advance(r, slot[r] + 1, answers) /\ slot[r] + 1 \in Nat \ {0}
    BY <1>1 DEF Report
  <2> QED BY <2>1, AdvanceMoves DEF IInv
<1>7. RequestInv(r)'
  BY <1>6 DEF RequestInv
<1> QED BY <1>3, <1>5, <1>6, <1>7

LEMMA ReembedInv ==
    ASSUME IInv, NEW r \in Requests, Reembed(r)
    PROVE  IInv' /\ MemoryStep
<1> USE DEF Reembed, Goto
<1>1. MemoryTypeOK' /\ HashInSync' /\ MemoryStep
  BY UnchangedStep, MemoryTyped DEF IInv
<1>2. /\ embedding' \in [Ids -> Contents \cup {NoVector}]
      /\ VectorWithinContent' /\ UnbornBare'
  BY StoreTargetVector
<1>3. TypeOK'
  BY <1>2 DEF IInv, TypeOK, RepoTypeOK, deleteVars, Steps
<1>4. \A s \in Requests : s # r => SameRequest(s)
  BY DEF SameRequest, IInv, TypeOK
<1>5. RequestInv(r)'
  BY TargetFacts DEF IInv, TypeOK, RequestInv, TargetSays, Current
<1>6. \A a \in reported'[r] : Says(r, a)'
  BY DEF IInv, ReportedFactKept, Says
<1> QED BY <1>1, <1>2, <1>3, <1>4, <1>5, <1>6, Assemble

LEMMA BumpInv ==
    ASSUME IInv, NEW r \in Requests, Bump(r)
    PROVE  IInv' /\ MemoryStep
<1> USE DEF Bump
<1>1. MemoryTypeOK' /\ HashInSync' /\ MemoryStep
  BY UnchangedStep, IncrementStep, MemoryTyped DEF IInv
<1>2. VectorWithinContent' /\ UnbornBare'
  BY <1>1, VectorFrame
<1>3. /\ pc' \in [Requests -> Steps] /\ slot' \in [Requests -> Nat]
      /\ reported' \in [Requests -> SUBSET Answers]
      /\ RequestInv(r)'
      /\ \A a \in reported'[r] : Says(r, a)'
      /\ \A s \in Requests : s # r => SameRequest(s)
  BY <1>1, ReportTarget DEF SameRequest
<1>4. TypeOK'
  BY <1>1, <1>3 DEF IInv, TypeOK, RepoTypeOK, MemoryTypeOK, deleteVars
<1> QED BY <1>1, <1>2, <1>3, <1>4, Assemble

LEMMA StoreVectorInv ==
    ASSUME IInv, NEW r \in Requests, StoreVector(r)
    PROVE  IInv' /\ MemoryStep
<1> USE DEF StoreVector
<1>1. MemoryTypeOK' /\ HashInSync' /\ MemoryStep
  BY UnchangedStep, MemoryTyped DEF IInv
<1>2. /\ embedding' \in [Ids -> Contents \cup {NoVector}]
      /\ VectorWithinContent' /\ UnbornBare'
  BY StoreTargetVector
<1>3. /\ pc' \in [Requests -> Steps] /\ slot' \in [Requests -> Nat]
      /\ reported' \in [Requests -> SUBSET Answers]
      /\ RequestInv(r)'
      /\ \A a \in reported'[r] : Says(r, a)'
      /\ \A s \in Requests : s # r => SameRequest(s)
  BY <1>1, ReportTarget DEF SameRequest
<1>4. TypeOK'
  BY <1>1, <1>2, <1>3 DEF IInv, TypeOK, RepoTypeOK, MemoryTypeOK, deleteVars
<1> QED BY <1>1, <1>2, <1>3, <1>4, Assemble

LEMMA CreateInv ==
    ASSUME IInv, NEW r \in Requests, Create(r)
    PROVE  IInv' /\ MemoryStep
<1> USE DEF Create, CreateFailed, Goto
<1>1. /\ slot[r] \in 1..Len(job[r]) /\ slot[r] + 1 \in Nat \ {0}
      /\ Current(r) \in Facts
  BY DEF IInv, TypeOK, RequestInv, Current
<1>2. \/ UNCHANGED memory
      \/ \E id \in Ids : memory[id] = Unborn /\ CreateMemory(id, Current(r))
  OBVIOUS
<1>3. MemoryTypeOK' /\ HashInSync' /\ MemoryStep
  BY <1>1, <1>2, UnchangedStep, CreateStep, MemoryTyped DEF IInv
<1>4. VectorWithinContent' /\ UnbornBare'
  BY <1>3, VectorFrame
<1>5. \A a \in reported'[r] : Says(r, a)'
  BY <1>3, AnswersKept
<1>6. CASE Advance(r, slot[r] + 1, reported[r]) /\ UNCHANGED target
  <2>1. /\ pc' \in [Requests -> Steps] /\ slot' \in [Requests -> Nat]
        /\ pc'[r] = "done" \/ (pc'[r] = "search" /\ slot'[r] \in 1..Len(job[r]))
        /\ \A s \in Requests : s # r => pc'[s] = pc[s] /\ slot'[s] = slot[s]
    BY <1>1, <1>6, AdvanceMoves DEF IInv
  <2>2. TypeOK'
    BY <1>3, <1>6, <2>1 DEF IInv, TypeOK, RepoTypeOK, MemoryTypeOK, deleteVars
  <2>3. RequestInv(r)'
    BY <2>1 DEF RequestInv
  <2>4. \A s \in Requests : s # r => SameRequest(s)
    BY <1>6, <2>1 DEF SameRequest
  <2> QED BY <1>3, <1>4, <1>5, <2>2, <2>3, <2>4, Assemble
<1>7. ASSUME NEW id \in Ids, memory[id] = Unborn, CreateMemory(id, Current(r)),
             target' = [target EXCEPT ![r] = [id |-> id, content |-> Current(r).content]],
             Goto(r, "vector"), UNCHANGED slot
      PROVE  IInv'
  <2>1. /\ memory'[id] \in Rows /\ memory'[id].type = Current(r).type
        /\ memory'[id].content = Current(r).content
    BY <1>1, <1>7, CreateStep, MemoryTyped DEF IInv
  <2>2. TypeOK'
    BY <1>1, <1>3, <1>7 DEF IInv, TypeOK, RepoTypeOK, MemoryTypeOK, deleteVars, Steps, Targets, Facts
  <2>3. target'[r] = [id |-> id, content |-> Current(r).content] /\ pc'[r] = "vector"
    BY <1>7 DEF IInv, TypeOK
  <2>4. /\ Current(r).content \in Contents
        /\ Current(r)' = Current(r) /\ slot'[r] \in 1..Len(job'[r])
    BY <1>1, <1>7 DEF Facts, Current
  <2>5. TargetSays(r)'
    BY <2>1, <2>3, <2>4, RepoAssumption DEF TargetSays, Targets
  <2>6. RequestInv(r)'
    BY <2>3, <2>5 DEF RequestInv
  <2>7. \A s \in Requests : s # r => SameRequest(s)
    BY <1>7 DEF SameRequest, IInv, TypeOK
  <2> QED BY <1>3, <1>4, <1>5, <2>2, <2>6, <2>7, Assemble
<1> QED BY <1>3, <1>6, <1>7

-------------------------------------------------------------------------------
(* The actions of a delete, and the rest *)

\* What is left to show of a step of no request.
LEMMA AssembleQuiet ==
    ASSUME IInv, MemoryStep, HashInSync', TypeOK', UnbornBare', VectorWithinContent',
           \A s \in Requests : SameRequest(s)
    PROVE  IInv'
<1>1. \A s \in Requests : RequestInv(s)'
  BY RequestFrame DEF IInv
<1>2. \A s \in Requests : \A a \in reported'[s] : Says(s, a)'
  BY AnswersKept DEF SameRequest
<1>3. ReportedFactKept'
  BY <1>2 DEF ReportedFactKept, Says
<1> QED BY <1>1, <1>3 DEF IInv

LEMMA BeginDeleteInv ==
    ASSUME IInv, NEW d \in Deletes, BeginDelete(d)
    PROVE  IInv' /\ MemoryStep
<1> USE DEF BeginDelete
<1>1. MemoryTypeOK' /\ HashInSync' /\ MemoryStep
  BY UnchangedStep, MemoryTyped DEF IInv
<1>2. /\ embedding' \in [Ids -> Contents \cup {NoVector}]
      /\ \A id \in Ids : embedding'[id] = embedding[id] \/ embedding'[id] = NoVector
  BY DEF DeleteEmbedding, IInv, TypeOK, RepoTypeOK
<1>3. VectorWithinContent' /\ UnbornBare'
  BY <1>2 DEF IInv, VectorWithinContent, UnbornBare
<1>4. TypeOK'
  <2>1. doomed' \in [Deletes -> Ids \cup {NoTarget}] /\ dpc' \in [Deletes -> {"start", "vertex", "done"}]
    BY DEF IInv, TypeOK
  <2> QED BY <1>2, <2>1 DEF IInv, TypeOK, RepoTypeOK, requestVars
<1>5. \A s \in Requests : SameRequest(s)
  BY DEF SameRequest, requestVars
<1> QED BY <1>1, <1>3, <1>4, <1>5, AssembleQuiet

LEMMA DeleteVertexInv ==
    ASSUME IInv, NEW d \in Deletes, DeleteVertex(d)
    PROVE  IInv' /\ MemoryStep
<1> USE DEF DeleteVertex
<1>1. MemoryTypeOK' /\ HashInSync' /\ MemoryStep
  <2>1. CASE UNCHANGED memory
    BY <2>1, UnchangedStep, MemoryTyped DEF IInv
  <2>2. CASE DetachDelete(doomed[d])
    <3>1. CASE doomed[d] \in Ids
      BY <2>2, <3>1, DetachStep, MemoryTyped DEF IInv
    <3>2. CASE doomed[d] \notin Ids
      <4>1. memory' = memory
        BY <2>2, <3>2 DEF DetachDelete, IInv, TypeOK, RepoTypeOK
      <4> QED BY <4>1, UnchangedStep, MemoryTyped DEF IInv
    <3> QED BY <3>1, <3>2
  <2> QED BY <2>1, <2>2
<1>2. VectorWithinContent' /\ UnbornBare'
  BY <1>1, VectorFrame
<1>3. TypeOK'
  BY <1>1 DEF IInv, TypeOK, RepoTypeOK, MemoryTypeOK, requestVars
<1>4. \A s \in Requests : SameRequest(s)
  BY DEF SameRequest, requestVars
<1> QED BY <1>1, <1>2, <1>3, <1>4, AssembleQuiet

LEMMA StutterInv ==
    ASSUME IInv, UNCHANGED vars
    PROVE  IInv' /\ MemoryStep
<1> USE DEF vars
<1>1. MemoryTypeOK' /\ HashInSync' /\ MemoryStep
  BY UnchangedStep, MemoryTyped DEF IInv
<1>2. VectorWithinContent' /\ UnbornBare'
  BY <1>1, VectorFrame
<1>3. TypeOK'
  BY DEF IInv, TypeOK, RepoTypeOK
<1>4. \A s \in Requests : SameRequest(s)
  BY DEF SameRequest
<1> QED BY <1>1, <1>2, <1>3, <1>4, AssembleQuiet

-------------------------------------------------------------------------------
(* The inductive invariant *)

LEMMA InitInv == Init => IInv
<1> SUFFICES ASSUME Init PROVE IInv
  OBVIOUS
<1> USE DEF Init, RepoInit
<1>1. TypeOK
  <2>1. <<>> \in Seq(Facts) /\ {} \in SUBSET Nat /\ {} \in SUBSET Answers
    OBVIOUS
  <2> QED BY <2>1 DEF TypeOK, RepoTypeOK, Steps
<1>2. \A id \in Ids : memory[id] = Unborn /\ embedding[id] = NoVector
  OBVIOUS
<1>3. HashInSync /\ UnbornBare /\ VectorWithinContent
  BY <1>2, RepoAssumption DEF HashInSync, UnbornBare, VectorWithinContent
<1>4. ReportedFactKept /\ \A r \in Requests : RequestInv(r)
  BY DEF ReportedFactKept, RequestInv
<1> QED BY <1>1, <1>3, <1>4 DEF IInv

LEMMA NextInv == IInv /\ [Next]_vars => IInv' /\ MemoryStep
<1> SUFFICES ASSUME IInv, [Next]_vars PROVE IInv' /\ MemoryStep
  OBVIOUS
<1>1. ASSUME NEW r \in Requests, RequestStep(r) PROVE IInv' /\ MemoryStep
  BY <1>1, BeginExtractInv, FindExistingInv, RestateAndEmbedInv, SearchNeighboursInv,
     FoldInv, ReembedInv, BumpInv, BeginStoreInv, CreateInv, StoreVectorInv DEF RequestStep
<1>2. ASSUME NEW d \in Deletes, DeleteStep(d) PROVE IInv' /\ MemoryStep
  BY <1>2, BeginDeleteInv, DeleteVertexInv DEF DeleteStep
<1>3. CASE UNCHANGED vars
  BY <1>3, StutterInv
<1> QED BY <1>1, <1>2, <1>3 DEF Next, Rest

LEMMA Inductive == Spec => []IInv
BY InitInv, NextInv, PTL DEF Spec

\* Every variable of the write path keeps its type.
THEOREM TypeCorrect == Spec => []TypeOK
<1>1. IInv => TypeOK
  BY DEF IInv
<1> QED BY <1>1, Inductive, PTL

\* No interleaving of folds, creates, failures and deletes makes a memory named
\* in a response stop saying what its caller said.
THEOREM FactsKept == Spec => []ReportedFactKept
<1>1. IInv => ReportedFactKept
  BY DEF IInv
<1> QED BY <1>1, Inductive, PTL

\* A stored vector is never ahead of the text of its live row, nor another's.
THEOREM VectorsWithin == Spec => []VectorWithinContent
<1>1. IInv => VectorWithinContent
  BY DEF IInv
<1> QED BY <1>1, Inductive, PTL

\* Whatever step is taken, the text of a live memory is only replaced by one
\* that says all of it, of the same type.
THEOREM ContentGrows == Spec => ContentOnlyGrows
<1>1. ASSUME IInv, [Next]_vars
      PROVE  \A id \in Ids : Live(id) /\ Live(id)' =>
                 Covers(FactOf(memory[id])', FactOf(memory[id]))
  <2>1. MemoryStep
    BY <1>1, NextInv
  <2> QED BY <2>1, RepoAssumption DEF MemoryStep, Covers, FactOf
<1> QED BY <1>1, Inductive, PTL DEF Spec, ContentOnlyGrows

-------------------------------------------------------------------------------
(* The promise: every step learns, tells or is a stutter. *)

NoneDeleted == \A id \in Ids : memory[id] # Deleted

\* An answer is for a memory of the conversation.
AnswersInJob == \A r \in Requests : \A a \in reported[r] : a.slot \in 1..Len(job[r])

PInv == IInv /\ NoneDeleted /\ AnswersInJob

\* A step that tells nobody anything.
Untold ==
    \A r \in Requests :
        /\ reported'[r] = reported[r]
        /\ job'[r] = job[r] \/ reported[r] = {}

\* A step that tells, and leaves what the memories say alone.
MoreTold ==
    /\ job' = job
    /\ \A r \in Requests : reported[r] \subseteq reported'[r]
    /\ \A id \in Ids :
           /\ Live(id)' <=> Live(id)
           /\ Live(id) => FactOf(memory[id])' = FactOf(memory[id])

LEMMA IncrementSays ==
    ASSUME MemoryTypeOK, NEW ids, IncrementAccessCounts(ids)
    PROVE  \A id \in Ids :
               \/ memory'[id] = memory[id]
               \/ /\ memory[id] \in Rows /\ memory'[id] \in Rows
                  /\ FactOf(memory'[id]) = FactOf(memory[id])
BY DEF IncrementAccessCounts, MemoryTypeOK, Rows, FactOf

\* No statement of a request deletes a memory.
LEMMA NothingDeleted ==
    ASSUME PInv, NEW r \in Requests, RequestStep(r)
    PROVE  NoneDeleted'
<1> USE DEF PInv, NoneDeleted
<1>1. MemoryTypeOK
  BY MemoryTyped DEF IInv
<1>2. CASE UNCHANGED memory
  BY <1>2
<1>3. ASSUME NEW ids, IncrementAccessCounts(ids) PROVE NoneDeleted'
  BY <1>1, <1>3, IncrementSays, RepoAssumption
<1>4. ASSUME NEW id \in Ids, CreateMemory(id, Current(r)), Current(r) \in Facts PROVE NoneDeleted'
  <2>1. memory'[id] \in Rows /\ \A other \in Ids : other # id => memory'[other] = memory[other]
    BY <1>1, <1>4 DEF CreateMemory, MemoryTypeOK, Rows, Facts
  <2> QED BY <2>1, RepoAssumption
<1>5. ASSUME NEW id \in Ids, memory[id] \in Rows, UpdateMemoryContent(id, Current(r).content),
             Current(r) \in Facts
      PROVE  NoneDeleted'
  <2>1. memory'[id] \in Rows /\ \A other \in Ids : other # id => memory'[other] = memory[other]
    BY <1>1, <1>5 DEF UpdateMemoryContent, MemoryTypeOK, Rows, Facts
  <2> QED BY <2>1, RepoAssumption
<1>6. CASE Create(r)
  <2>1. Current(r) \in Facts
    BY <1>6 DEF Create, IInv, RequestInv, TypeOK, Current
  <2> QED BY <1>2, <1>4, <1>6, <2>1 DEF Create
<1>7. CASE Fold(r)
  <2>1. Current(r) \in Facts /\ target[r].id \in Ids
    BY <1>7, TargetFacts DEF Fold
  <2> QED BY <1>2, <1>5, <1>7, <2>1 DEF Fold, HashMatches
<1> QED BY <1>2, <1>3, <1>6, <1>7
        DEF RequestStep, BeginExtract, FindExisting, RestateAndEmbed, SearchNeighbours,
            Reembed, Bump, BeginStore, StoreVector

LEMMA FindExistingTells ==
    ASSUME PInv, NEW r \in Requests, FindExisting(r)
    PROVE  MoreTold /\ AnswersInJob'
<1> USE DEF PInv, FindExisting
<1>1. reported[r] = {} /\ job' = job /\ memory' = memory
  BY DEF IInv, RequestInv
<1>2. \A s \in Requests : s # r => reported'[s] = reported[s]
  BY DEF IInv, TypeOK
<1>3. \A a \in reported'[r] : a.slot \in 1..Len(job[r])
  <2> DEFINE slots == 1..Len(job[r])
             held  == {f \in Facts : Twins(f) # {} /\ \E i \in slots : job[r][i] = f}
  <2>1. ASSUME NEW row \in [held -> Ids],
               reported' = [reported EXCEPT ![r] =
                   {[slot |-> i, id |-> row[job[r][i]]] : i \in {j \in slots : job[r][j] \in held}}]
        PROVE  \A a \in reported'[r] : a.slot \in slots
    <3>1. reported'[r] = {[slot |-> i, id |-> row[job[r][i]]] : i \in {j \in slots : job[r][j] \in held}}
      BY <2>1 DEF IInv, TypeOK
    <3> QED BY <3>1
  <2>2. CASE reported' = reported
    BY <1>1, <2>2
  <2> QED BY <2>1, <2>2
<1>4. MoreTold
  BY <1>1, <1>2 DEF MoreTold, FactOf
<1> QED BY <1>1, <1>2, <1>3, <1>4 DEF AnswersInJob

LEMMA ReportTells ==
    ASSUME PInv, NEW r \in Requests, pc[r] \in {"bump", "vector"}, job' = job,
           Report(r, target[r].id)
    PROVE  AnswersInJob' /\ \A s \in Requests : reported[s] \subseteq reported'[s]
<1> DEFINE answers == reported[r] \cup {[slot |-> slot[r], id |-> target[r].id]}
<1>1. slot[r] \in 1..Len(job[r])
  BY TargetFacts DEF PInv
<1>2. reported' = [reported EXCEPT ![r] = answers]
  BY DEF Report
<1>3. reported'[r] = answers /\ \A s \in Requests : s # r => reported'[s] = reported[s]
  BY <1>2 DEF PInv, IInv, TypeOK
<1> QED BY <1>1, <1>3 DEF PInv, AnswersInJob

\* Every step of a request either tells or does not.
LEMMA StepTells ==
    ASSUME PInv, NEW r \in Requests, RequestStep(r)
    PROVE  AnswersInJob' /\ (Untold \/ MoreTold)
<1>1. CASE FindExisting(r)
  BY <1>1, FindExistingTells
<1>2. CASE Bump(r)
  <2>1. AnswersInJob' /\ \A s \in Requests : reported[s] \subseteq reported'[s]
    BY <1>2, ReportTells DEF Bump
  <2>2. CASE UNCHANGED memory
    BY <1>2, <2>1, <2>2 DEF MoreTold, FactOf, Bump
  <2>3. CASE IncrementAccessCounts({target[r].id})
    <3>1. \A id \in Ids :
               \/ memory'[id] = memory[id]
               \/ /\ memory[id] \in Rows /\ memory'[id] \in Rows
                  /\ FactOf(memory'[id]) = FactOf(memory[id])
      BY <2>3, IncrementSays, MemoryTyped DEF PInv, IInv
    <3> QED BY <1>2, <2>1, <3>1 DEF MoreTold, FactOf, Bump
  <2> QED BY <1>2, <2>2, <2>3 DEF Bump
<1>3. CASE StoreVector(r)
  <2>1. AnswersInJob' /\ \A s \in Requests : reported[s] \subseteq reported'[s]
    BY <1>3, ReportTells DEF StoreVector
  <2> QED BY <1>3, <2>1 DEF MoreTold, FactOf, StoreVector
<1>4. CASE BeginExtract(r) \/ BeginStore(r)
  <2>1. reported[r] = {} /\ reported' = reported
        /\ \A s \in Requests : s # r => job'[s] = job[s]
    BY <1>4 DEF BeginExtract, BeginStore, PInv, IInv, RequestInv, TypeOK
  <2> QED BY <2>1 DEF Untold, AnswersInJob, PInv
<1>5. CASE UNCHANGED <<reported, job>>
  BY <1>5 DEF Untold, AnswersInJob, PInv
<1> QED BY <1>1, <1>2, <1>3, <1>4, <1>5
        DEF RequestStep, RestateAndEmbed, SearchNeighbours, Fold, Reembed, Create

\* What callers were told, the store holds.
LEMMA ToldIsKnown ==
    ASSUME PInv
    PROVE  Told \in SUBSET Known
<1>1. ASSUME NEW r \in Requests, NEW a \in reported[r]
      PROVE  job[r][a.slot] \in Known
  <2>1. job[r][a.slot] \in Facts
    BY DEF PInv, AnswersInJob, IInv, TypeOK
  <2>2. a.id \in Ids
    BY DEF PInv, IInv, TypeOK, Answers
  <2> QED BY <2>1, <2>2 DEF PInv, NoneDeleted, IInv, ReportedFactKept, Known
<1> QED BY <1>1 DEF Told

\* What the store holds, it keeps.
LEMMA KnownGrows ==
    ASSUME PInv, MemoryStep, NoneDeleted'
    PROVE  Known \subseteq Known'
<1>1. ASSUME NEW f \in Facts, NEW id \in Ids, memory[id] \in Rows,
             Covers(FactOf(memory[id]), f)
      PROVE  memory'[id] \in Rows /\ Covers(FactOf(memory'[id]), f)
  <2>1. /\ memory'[id] \in Rows
        /\ memory'[id].type = memory[id].type
        /\ <<memory'[id].content, memory[id].content>> \in Carries
    BY <1>1 DEF MemoryStep, NoneDeleted
  <2>2. <<memory[id].content, f.content>> \in Carries /\ memory[id].type = f.type
    BY <1>1 DEF Covers, FactOf
  <2>3. <<memory'[id].content, f.content>> \in Carries
    BY <1>1, <2>1, <2>2, RepoAssumption DEF Rows, Facts
  <2> QED BY <2>1, <2>2, <2>3 DEF Covers, FactOf
<1> QED BY <1>1 DEF Known

LEMMA PInitInv == Init => PInv
<1> SUFFICES ASSUME Init PROVE PInv
  OBVIOUS
<1>1. NoneDeleted /\ AnswersInJob
  BY RepoAssumption DEF Init, RepoInit, NoneDeleted, AnswersInJob
<1> QED BY <1>1, InitInv DEF PInv

\* The step of the write path is a step of the fact store, or a stutter.
LEMMA PNextInv ==
    ASSUME Deletes = {}, PInv, [Next]_vars
    PROVE  PInv' /\ [Promise!Next]_(Promise!vars)
<1>1. IInv' /\ MemoryStep
  BY NextInv DEF PInv
<1>2. NoneDeleted' /\ AnswersInJob' /\ (Untold \/ MoreTold)
  <2>1. CASE UNCHANGED vars
    BY <2>1 DEF vars, PInv, NoneDeleted, AnswersInJob, Untold
  <2>2. ASSUME NEW r \in Requests, RequestStep(r)
        PROVE  NoneDeleted' /\ AnswersInJob' /\ (Untold \/ MoreTold)
    BY <2>2, NothingDeleted, StepTells
  <2> QED BY <2>1, <2>2 DEF Next, Rest
<1>3. PInv'
  BY <1>1, <1>2 DEF PInv
<1>4. CASE Untold
  <2>1. Told' = Told
    BY <1>4 DEF Told, Untold
  <2>2. Known' \in SUBSET Facts /\ Known \subseteq Known'
    BY <1>1, <1>2, KnownGrows DEF Known
  <2> QED BY <1>3, <2>1, <2>2 DEF Promise!Next, Promise!Learn
<1>5. CASE MoreTold
  <2>1. Known' = Known
    BY <1>5 DEF MoreTold, FactOf, Known
  <2>2. Told \subseteq Told'
    BY <1>5 DEF MoreTold, Told
  <2>3. (Told \in SUBSET Known)'
    BY <1>3, ToldIsKnown, PTL
  <2> QED BY <1>3, <2>1, <2>2, <2>3 DEF Promise!Next, Promise!Tell
<1> QED BY <1>2, <1>4, <1>5

\* With nothing deleted, whatever the number of requests and however their
\* statements interleave or fail, Extract and Store never forget a fact and name
\* a memory for what a caller said only when it says so.
THEOREM PromiseKept == Deletes = {} => (Spec => KeepsPromise)
<1> SUFFICES ASSUME Deletes = {} PROVE Spec => KeepsPromise
  OBVIOUS
<1>1. Init => Promise!Init
  BY RepoAssumption DEF Init, RepoInit, Promise!Init, Known, Told
<1>2. PInv /\ [Next]_vars => PInv' /\ [Promise!Next]_(Promise!vars)
  BY PNextInv
<1> QED BY <1>1, <1>2, PInitInv, PTL DEF Spec, KeepsPromise, Promise!Spec

-------------------------------------------------------------------------------
(* The nightly prune beside the write path *)

\* Request r names memory id for the statement in slot i, the restatement of it
\* counted, or is about to: it created it for that.
Names(r, i, id) ==
    \/ pc[r] # "restate" /\ \E a \in reported[r] : a.slot = i /\ a.id = id
    \/ pc[r] = "vector" /\ slot[r] = i /\ target[r].id = id

\* A memory that was never restated is named for one statement, the one it was
\* created for.
NamedOnce ==
    \A id \in Ids : \A r, s \in Requests : \A i, j \in Nat :
        Abandoned(id) /\ Names(r, i, id) /\ Names(s, j, id) => r = s /\ i = j

\* A step after which no memory is fresh, and none is named, that was not before.
LEMMA NamedNoMore ==
    ASSUME NamedOnce,
           \A id \in Ids : Abandoned(id)' =>
               /\ Abandoned(id)
               /\ \A r \in Requests : \A i \in Nat : Names(r, i, id)' => Names(r, i, id)
    PROVE  NamedOnce'
BY DEF NamedOnce

\* No request names a memory that was not created.
LEMMA NamedIsBorn ==
    ASSUME IInv, NEW r \in Requests, NEW i \in Nat, NEW id \in Ids, Names(r, i, id)
    PROVE  memory[id] # Unborn
BY RepoAssumption DEF IInv, Names, ReportedFactKept, RequestInv, TargetSays

\* The other requests, and the memories, of a step of r.
Waiting(r) ==
    \A s \in Requests \ {r} : /\ pc'[s] = pc[s] /\ slot'[s] = slot[s]
                              /\ target'[s] = target[s] /\ reported'[s] = reported[s]
NoneFreshened == \A id \in Ids : Abandoned(id)' => Abandoned(id)

LEMMA IncrementUses ==
    ASSUME MemoryTypeOK, NEW ids, IncrementAccessCounts(ids)
    PROVE  NoneFreshened /\ \A id \in ids \cap Ids : ~Abandoned(id)'
<1>1. ASSUME NEW id \in Ids PROVE Abandoned(id)' => Abandoned(id) /\ id \notin ids
  BY DEF IncrementAccessCounts, MemoryTypeOK, Rows, Abandoned
<1> QED BY <1>1 DEF NoneFreshened

LEMMA UpdateUses ==
    ASSUME MemoryTypeOK, NEW id \in Ids, NEW content \in Contents, Live(id),
           UpdateMemoryContent(id, content)
    PROVE  NoneFreshened
<1>1. memory'[id].used = memory[id].used
  BY DEF UpdateMemoryContent, MemoryTypeOK
<1>2. \A other \in Ids : other # id => memory'[other] = memory[other]
  BY DEF UpdateMemoryContent, MemoryTypeOK
<1> QED BY <1>1, <1>2 DEF NoneFreshened, Abandoned

\* A step of r that leaves the answers to others alone.
LEMMA QuietNames ==
    ASSUME NamedOnce, NEW r \in Requests, Waiting(r), NoneFreshened,
           \A id \in Ids : Abandoned(id)' => \A i \in Nat : Names(r, i, id)' => Names(r, i, id)
    PROVE  NamedOnce'
<1>1. \A s \in Requests \ {r} : \A i \in Nat : \A id \in Ids :
         Names(s, i, id)' => Names(s, i, id)
  BY DEF Waiting, Names
<1> QED BY <1>1, NamedNoMore DEF NoneFreshened

\* The statements that write no memory, and answer nothing.
LEMMA ReadNames ==
    ASSUME IInv, NamedOnce, NEW r \in Requests, UNCHANGED memory, Waiting(r),
           pc'[r] # "vector", pc[r] \in {"start", "lookup"} \/ reported'[r] = reported[r],
           pc[r] \in {"start", "lookup"} => pc'[r] = "restate" \/ reported'[r] = {},
           pc[r] # "restate"
    PROVE  NamedOnce'
<1>1. NoneFreshened
  BY DEF NoneFreshened, Abandoned
<1>2. \A id \in Ids : \A i \in Nat : Names(r, i, id)' => Names(r, i, id)
  BY DEF Names
<1> QED BY <1>1, <1>2, QuietNames

LEMMA ReadingNames ==
    ASSUME IInv, NamedOnce, NEW r \in Requests,
           \/ BeginExtract(r) \/ FindExisting(r) \/ SearchNeighbours(r) \/ Reembed(r) \/ BeginStore(r)
    PROVE  NamedOnce'
<1> USE DEF Goto
<1>1. UNCHANGED memory /\ Waiting(r) /\ pc'[r] # "vector" /\ pc[r] # "restate"
  BY DEF BeginExtract, FindExisting, SearchNeighbours, Reembed, BeginStore, Waiting, IInv, TypeOK
<1>2. pc[r] \in {"start", "lookup"} \/ reported'[r] = reported[r]
  BY DEF BeginExtract, FindExisting, SearchNeighbours, Reembed, BeginStore
<1>3. pc[r] \in {"start", "lookup"} => pc'[r] = "restate" \/ reported'[r] = {}
  <2>1. pc[r] \in {"start", "lookup"} => reported[r] = {}
    BY DEF IInv, RequestInv
  <2> QED BY <2>1 DEF BeginExtract, FindExisting, SearchNeighbours, Reembed, BeginStore, IInv, TypeOK
<1> QED BY <1>1, <1>2, <1>3, ReadNames

\* The restatements of a conversation are counted before they count as answers.
LEMMA RestateNames ==
    ASSUME ~MayFail, IInv, NamedOnce, NEW r \in Requests, RestateAndEmbed(r) PROVE NamedOnce'
<1>1. MemoryTypeOK
  BY MemoryTyped DEF IInv
<1>2. IncrementAccessCounts({a.id : a \in reported[r]})
  BY DEF RestateAndEmbed
<1>3. NoneFreshened /\ \A id \in {a.id : a \in reported[r]} \cap Ids : ~Abandoned(id)'
  BY <1>1, <1>2, IncrementUses
<1>4. Waiting(r) /\ pc'[r] # "vector" /\ reported'[r] = reported[r]
  BY DEF RestateAndEmbed, Advance, Goto, Waiting, IInv, TypeOK
<1>5. \A id \in Ids : Abandoned(id)' => \A i \in Nat : ~Names(r, i, id)'
  BY <1>3, <1>4 DEF Names
<1> QED BY <1>3, <1>4, <1>5, QuietNames

LEMMA FoldNames ==
    ASSUME IInv, NamedOnce, NEW r \in Requests, Fold(r) PROVE NamedOnce'
<1>1. MemoryTypeOK /\ TargetSays(r)
  BY MemoryTyped DEF IInv, Fold, RequestInv
<1>2. Waiting(r) /\ pc[r] = "fold" /\ pc'[r] \in {"reembed", "create"} /\ reported'[r] = reported[r]
  BY DEF Fold, Goto, Waiting, IInv, TypeOK
<1>3. target[r].id \in Ids /\ Current(r).content \in Contents
  <2>1. job[r] \in Seq(Facts) /\ slot[r] \in 1..Len(job[r])
    BY <1>1 DEF TargetSays, IInv, TypeOK
  <2>2. Current(r) \in Facts
    BY <2>1 DEF Current
  <2> QED BY <1>1, <2>2 DEF TargetSays, Targets, Facts
<1>4. NoneFreshened
  <2>1. CASE UNCHANGED memory
    BY <2>1 DEF NoneFreshened, Abandoned
  <2>2. CASE /\ HashMatches(target[r].id, target[r].content)
             /\ UpdateMemoryContent(target[r].id, Current(r).content)
    BY <1>1, <1>3, <2>2, UpdateUses DEF HashMatches
  <2> QED BY <2>1, <2>2 DEF Fold
<1>5. \A id \in Ids : \A i \in Nat : Names(r, i, id)' => Names(r, i, id)
  BY <1>2 DEF Names
<1> QED BY <1>2, <1>4, <1>5, QuietNames

\* foldInto counts the restatement before it answers the slot.
LEMMA BumpNames ==
    ASSUME ~MayFail, IInv, NamedOnce, NEW r \in Requests, Bump(r) PROVE NamedOnce'
<1>1. MemoryTypeOK /\ target[r].id \in Ids
  BY MemoryTyped DEF IInv, Bump, RequestInv, TargetSays, Targets
<1>2. IncrementAccessCounts({target[r].id})
  BY DEF Bump
<1>3. NoneFreshened /\ \A id \in Ids : id = target[r].id => ~Abandoned(id)'
  BY <1>1, <1>2, IncrementUses
<1>4. Waiting(r) /\ pc[r] = "bump" /\ pc'[r] # "vector"
  BY DEF Bump, Report, Advance, Goto, Waiting, IInv, TypeOK
<1>5. reported'[r] = reported[r] \cup {[slot |-> slot[r], id |-> target[r].id]}
  BY DEF Bump, Report, IInv, TypeOK
<1>6. \A id \in Ids : id # target[r].id => \A i \in Nat : Names(r, i, id)' => Names(r, i, id)
  BY <1>4, <1>5 DEF Names
<1> QED BY <1>3, <1>4, <1>6, QuietNames

LEMMA VectorNames ==
    ASSUME IInv, NamedOnce, NEW r \in Requests, StoreVector(r) PROVE NamedOnce'
<1>1. Waiting(r) /\ pc[r] = "vector" /\ pc'[r] # "vector" /\ NoneFreshened
  BY DEF StoreVector, Report, Advance, Goto, Waiting, IInv, TypeOK, NoneFreshened, Abandoned
<1>2. reported'[r] = reported[r] \cup {[slot |-> slot[r], id |-> target[r].id]}
  BY DEF StoreVector, Report, IInv, TypeOK
<1>3. \A id \in Ids : \A i \in Nat : Names(r, i, id)' => Names(r, i, id)
  BY <1>1, <1>2 DEF Names
<1> QED BY <1>1, <1>3, QuietNames

\* A created memory was named for nothing before.
LEMMA CreateNames ==
    ASSUME ~MayFail, IInv, NamedOnce, NEW r \in Requests, Create(r) PROVE NamedOnce'
<1>1. PICK new \in Ids :
        /\ memory[new] = Unborn
        /\ CreateMemory(new, Current(r))
        /\ target' = [target EXCEPT ![r] = [id |-> new, content |-> Current(r).content]]
        /\ Goto(r, "vector") /\ UNCHANGED slot
  BY DEF Create, CreateFailed
<1>2. /\ Waiting(r) /\ pc[r] = "create" /\ pc'[r] = "vector" /\ target'[r].id = new
      /\ slot'[r] = slot[r] /\ reported'[r] = reported[r]
  BY <1>1 DEF Create, Goto, Waiting, IInv, TypeOK
<1>3. \A id \in Ids : id # new /\ Abandoned(id)' => Abandoned(id)
  BY <1>1 DEF CreateMemory, Abandoned, IInv, TypeOK, RepoTypeOK
<1>4. \A s \in Requests \ {r} : \A i \in Nat : \A id \in Ids :
         Names(s, i, id)' => Names(s, i, id)
  BY <1>2 DEF Waiting, Names
<1>5. \A i \in Nat : \A id \in Ids :
         Names(r, i, id)' => Names(r, i, id) \/ (id = new /\ i = slot[r])
  BY <1>2 DEF Names
<1>6. \A s \in Requests : \A i \in Nat : ~Names(s, i, new)
  BY <1>1, NamedIsBorn
<1> QED BY <1>3, <1>4, <1>5, <1>6 DEF NamedOnce

LEMMA DeleteNames ==
    ASSUME IInv, NamedOnce, NEW d \in Deletes, DeleteStep(d) PROVE NamedOnce'
<1>1. \A id \in Ids : Abandoned(id)' => Abandoned(id)
  BY RepoAssumption
  DEF DeleteStep, BeginDelete, DeleteVertex, DetachDelete, Abandoned, IInv, TypeOK, RepoTypeOK
<1>2. UNCHANGED <<pc, slot, target, reported>>
  BY DEF DeleteStep, BeginDelete, DeleteVertex, requestVars
<1> QED BY <1>1, <1>2, NamedNoMore DEF Names

LEMMA NamedOnceNext == ASSUME ~MayFail, IInv, NamedOnce, [Next]_vars PROVE NamedOnce'
<1>1. ASSUME NEW r \in Requests, RequestStep(r) PROVE NamedOnce'
  BY <1>1, ReadingNames, RestateNames, FoldNames, BumpNames, CreateNames, VectorNames
  DEF RequestStep
<1>2. CASE UNCHANGED vars
  BY <1>2 DEF vars, NamedOnce, Names, Abandoned
<1> QED BY <1>1, <1>2, DeleteNames DEF Next, Rest

\* What was read to be pruned, and what was pruned, was not stated twice.
PruneInv ==
    /\ IInv /\ NamedOnce
    /\ phase = "before" => pruned = {}
    /\ restated \cap (abandoned \cup pruned) = {}

\* A memory whose restatement was counted does not meet the criteria.
LEMMA RestatedIsUsed == ASSUME NamedOnce, IInv, NEW id \in Restated PROVE ~Abandoned(id)
<1>1. PICK r \in Requests, s \in Requests : \E a \in reported[r], b \in reported[s] :
        /\ a.id = id /\ b.id = id /\ <<r, a.slot>> # <<s, b.slot>>
        /\ pc[r] # "restate" /\ pc[s] # "restate"
  BY DEF Restated
<1>2. PICK a \in reported[r], b \in reported[s] :
        a.id = id /\ b.id = id /\ <<r, a.slot>> # <<s, b.slot>>
  BY <1>1
<1>3. a.slot \in Nat /\ b.slot \in Nat /\ id \in Ids
  BY DEF IInv, TypeOK, Answers, Restated
<1>4. Names(r, a.slot, id) /\ Names(s, b.slot, id)
  BY <1>1, <1>2 DEF Names
<1> QED BY <1>2, <1>3, <1>4 DEF NamedOnce

\* The nightly prune is made of steps of DeleteMemory.
LEMMA PruneIsDelete == ASSUME NextWithPrune \/ UNCHANGED jobVars PROVE [Next]_vars
BY DEF NextWithPrune, ReadMemories, PruneNext, Next, DeleteStep, jobVars

LEMMA PruneNextInv == ASSUME ~MayFail, PruneInv, [NextWithPrune]_jobVars PROVE PruneInv'
<1>1. IInv' /\ NamedOnce'
  BY PruneIsDelete, NextInv, NamedOnceNext DEF PruneInv
<1>2. CASE ReadMemories
  <2>1. /\ phase' = "prune" /\ restated' = Restated /\ pruned' = {}
        /\ \A id \in abandoned' : Abandoned(id)
    BY <1>2 DEF ReadMemories, PruneInv
  <2>2. \A id \in Restated : id \notin abandoned'
    BY <2>1, RestatedIsUsed DEF PruneInv
  <2> QED BY <1>1, <2>1, <2>2 DEF PruneInv
<1>3. ASSUME NEW d \in Deletes, PruneNext(d) PROVE PruneInv'
  <2>1. /\ phase' = "prune" /\ restated' = restated
        /\ abandoned' \cup pruned' = abandoned \cup pruned
    BY <1>3 DEF PruneNext
  <2> QED BY <1>1, <2>1 DEF PruneInv
<1>4. CASE UNCHANGED pruneVars
  BY <1>1, <1>4 DEF pruneVars, PruneInv
<1> QED BY <1>2, <1>3, <1>4 DEF NextWithPrune, jobVars

\* phasePrune deletes no memory that was stated again before it read the
\* memories, whatever else the job and the clients are deleting, as long as no
\* statement fails.
THEOREM PruneSparesRestated == ~MayFail => (PruneSpec => []RestatedKept)
<1> SUFFICES ASSUME ~MayFail PROVE PruneSpec => []RestatedKept
  OBVIOUS
<1>1. PruneInit => PruneInv
  <2> SUFFICES ASSUME PruneInit PROVE PruneInv
    OBVIOUS
  <2>1. IInv
    BY InitInv DEF PruneInit
  <2>2. NamedOnce
    BY DEF PruneInit, Init, NamedOnce, Names
  <2> QED BY <2>1, <2>2 DEF PruneInv, PruneInit
<1>2. PruneInv /\ [NextWithPrune]_jobVars => PruneInv'
  BY PruneNextInv
<1>3. PruneInv => RestatedKept
  BY DEF PruneInv, RestatedKept
<1> QED BY <1>1, <1>2, <1>3, PTL DEF PruneSpec

\* The nightly prune beside the write path, failures and all, leaves a memory
\* named in a response saying what its caller said, until it is deleted.
THEOREM FactsKeptBesidePrune == PruneSpec => []ReportedFactKept
<1>1. PruneInit => IInv
  BY InitInv DEF PruneInit
<1>2. IInv /\ [NextWithPrune]_jobVars => IInv'
  BY PruneIsDelete, NextInv
<1>3. IInv => ReportedFactKept
  BY DEF IInv
<1> QED BY <1>1, <1>2, <1>3, PTL DEF PruneSpec
===============================================================================
