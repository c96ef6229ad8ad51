------------------------------- MODULE WritePath -------------------------------
(***************************************************************************)
(* The write path of internal/ingest: concurrent Extract and Store         *)
(* requests against one project, with memories being deleted under them.   *)
(* One action per database statement, because no transaction spans two.    *)
(*                                                                         *)
(* The statements that write edges only (session link, supersedes,         *)
(* relates_to, mentions) leave these tables alone and are stuttering steps *)
(* here.  So is a crash: a request that never takes another step.          *)
(***************************************************************************)
EXTENDS MemoryRepo

CONSTANTS
    Requests,       \* one Extract or Store call each
    Deletes,        \* one DeleteMemory call each
    Conversations,  \* what FoldRedundant returns for a conversation: Seq(Facts)
    MayFail,        \* statements and the embedding provider may fail
    NoTarget

ASSUME WritePathAssumption ==
    /\ Conversations \subseteq Seq(Facts)
    /\ MayFail \in BOOLEAN
    /\ NoTarget \notin [id : Ids, content : Contents]

VARIABLES
    pc,        \* the statement a request issues next
    job,       \* the memories of the request, in the order the conversation states them
    slot,      \* the response slot of the memory being written
    vectors,   \* the slots the embedder returned a vector for
    target,    \* the row being folded into, as read; then the row just created
    reported,  \* the response so far: which row stands for which slot
    dpc,       \* the statement a DeleteMemory issues next
    doomed     \* the memory it deletes

requestVars == <<pc, job, slot, vectors, target, reported>>
deleteVars == <<dpc, doomed>>
vars == <<memory, embedding, pc, job, slot, vectors, target, reported, dpc, doomed>>

Targets == [id : Ids, content : Contents]
Answers == [slot : Nat, id : Ids]

Steps == {"start", "lookup", "restate", "search", "fold", "reembed", "bump",
          "create", "vector", "done"}

TypeOK ==
    /\ RepoTypeOK
    /\ pc \in [Requests -> Steps]
    /\ job \in [Requests -> Seq(Facts)]
    /\ slot \in [Requests -> Nat]
    /\ vectors \in [Requests -> SUBSET Nat]
    /\ target \in [Requests -> Targets \cup {NoTarget}]
    /\ reported \in [Requests -> SUBSET Answers]
    /\ dpc \in [Deletes -> {"start", "vertex", "done"}]
    /\ doomed \in [Deletes -> Ids \cup {NoTarget}]

Init ==
    /\ RepoInit
    /\ pc = [r \in Requests |-> "start"]
    /\ job = [r \in Requests |-> <<>>]
    /\ slot = [r \in Requests |-> 0]
    /\ vectors = [r \in Requests |-> {}]
    /\ target = [r \in Requests |-> NoTarget]
    /\ reported = [r \in Requests |-> {}]
    /\ dpc = [d \in Deletes |-> "start"]
    /\ doomed = [d \in Deletes |-> NoTarget]

-------------------------------------------------------------------------------

\* The same without regard to which of the two texts is the stored one.
SubsumesSwapped(new, old) ==
    IF new \in Short \/ old \in Short THEN "Distinct"
    ELSE IF new = old THEN "Equivalent"
    ELSE IF <<old, new>> \in Carries THEN "NewSubsumesOld"
    ELSE IF <<new, old>> \in Carries THEN "OldSubsumesNew"
    ELSE "Distinct"

\* extraction.Subsumes: what a new text makes of a stored one.
Subsumes(new, old) ==
    IF new \in Short \/ old \in Short THEN "Distinct"
    ELSE IF <<new, old>> \in Carries /\ <<old, new>> \in Carries THEN "Equivalent"
    ELSE IF <<new, old>> \in Carries THEN "NewSubsumesOld"
    ELSE IF <<old, new>> \in Carries THEN "OldSubsumesNew"
    ELSE "Distinct"

\* The memory a request is writing.
Current(r) == job[r][slot[r]]

Goto(r, step) == pc' = [pc EXCEPT ![r] = step]

\* Slots from `first' on that the response does not answer yet.
Pending(r, first, answers) ==
    {i \in first..Len(job[r]) : \A a \in answers : a.slot # i}

\* On to the first pending slot at or after `first', or the response is complete.
Advance(r, first, answers) ==
    \/ /\ Pending(r, first, answers) = {}
       /\ Goto(r, "done")
       /\ UNCHANGED slot
    \/ \E i \in Pending(r, first, answers) :
           /\ \A j \in Pending(r, first, answers) : i <= j
           /\ slot' = [slot EXCEPT ![r] = i]
           /\ Goto(r, "search")

\* The memory in the current slot is answered by row id.
Report(r, id) ==
    LET answers == reported[r] \cup {[slot |-> slot[r], id |-> id]} IN
    /\ reported' = [reported EXCEPT ![r] = answers]
    /\ Advance(r, slot[r] + 1, answers)

-------------------------------------------------------------------------------
(* Extract, stages 1 and 2, over the whole conversation *)

BeginExtract(r) ==
    /\ pc[r] = "start"
    /\ \E c \in Conversations : job' = [job EXCEPT ![r] = c]
    /\ Goto(r, "lookup")
    /\ UNCHANGED <<memory, embedding, slot, vectors, target, reported, deleteVars>>

\* existingByContent.  One row answers every slot of the same key; a failed
\* lookup finds nothing.
FindExisting(r) ==
    /\ pc[r] = "lookup"
    /\ LET slots == 1..Len(job[r])
           held  == {f \in Facts : Twins(f) # {} /\ \E i \in slots : job[r][i] = f}
       IN  \/ \E row \in [held -> Ids] :
                  /\ \A f \in held : row[f] \in Twins(f)
                  /\ reported' = [reported EXCEPT ![r] =
                         {[slot |-> i, id |-> row[job[r][i]]] :
                              i \in {j \in slots : job[r][j] \in held}}]
           \/ MayFail /\ UNCHANGED reported
    /\ Goto(r, "restate")
    /\ UNCHANGED <<memory, embedding, job, slot, vectors, target, deleteVars>>

\* Every restated row is bumped in one statement, then what is left is embedded.
RestateAndEmbed(r) ==
    /\ pc[r] = "restate"
    /\ \/ IncrementAccessCounts({a.id : a \in reported[r]})
       \/ MayFail /\ UNCHANGED memory
    /\ \E S \in SUBSET Pending(r, 1, reported[r]) :
           /\ MayFail \/ S = Pending(r, 1, reported[r])
           /\ vectors' = [vectors EXCEPT ![r] = S]
    /\ Advance(r, 1, reported[r])
    /\ UNCHANGED <<embedding, job, target, reported, deleteVars>>

-------------------------------------------------------------------------------
(* Extract, stage 3 and the write, one memory at a time *)

\* The same without the guard on the type.
FoldsIntoAnyType(f, row) == Subsumes(f.content, row.content) # "Distinct"

\* consolidateAgainst on one neighbour: a different type is a different claim.
FoldsInto(f, row) == row.type = f.type /\ Subsumes(f.content, row.content) # "Distinct"

\* semanticNeighbours and consolidateAgainst: any searchable row may be the
\* first among the nearest that the memory folds into, or none of them is.
SearchNeighbours(r) ==
    /\ pc[r] = "search"
    /\ \/ /\ slot[r] \in vectors[r]
          /\ \E id \in Searchable :
                 LET row == memory[id] IN
                 /\ FoldsInto(Current(r), row)
                 /\ target' = [target EXCEPT ![r] = [id |-> id, content |-> row.content]]
                 /\ Goto(r, IF Subsumes(Current(r).content, row.content) = "NewSubsumesOld"
                            THEN "fold" ELSE "bump")
       \/ UNCHANGED target /\ Goto(r, "create")
    /\ UNCHANGED <<memory, embedding, job, slot, vectors, reported, deleteVars>>

\* foldInto, NewSubsumesOld: UpdateMemoryContent on the text that was read.  An
\* error does not say whether the statement was applied.
Fold(r) ==
    /\ pc[r] = "fold"
    /\ \/ /\ HashMatches(target[r].id, target[r].content)
          /\ UpdateMemoryContent(target[r].id, Current(r).content)
          /\ Goto(r, "reembed") \/ (MayFail /\ Goto(r, "create"))
       \/ /\ MayFail \/ ~HashMatches(target[r].id, target[r].content)
          /\ UNCHANGED memory
          /\ Goto(r, "create")
    /\ UNCHANGED <<embedding, job, slot, vectors, target, reported, deleteVars>>

\* foldInto: the vector of the upgraded row is refreshed, if that succeeds.
Reembed(r) ==
    /\ pc[r] = "reembed"
    /\ \/ StoreEmbedding(target[r].id, Current(r).content)
       \/ MayFail /\ UNCHANGED embedding
    /\ Goto(r, "bump")
    /\ UNCHANGED <<memory, job, slot, vectors, target, reported, deleteVars>>

\* foldInto: the restatement is counted and the slot answered, whether or not
\* the row still exists.
Bump(r) ==
    /\ pc[r] = "bump"
    /\ \/ IncrementAccessCounts({target[r].id})
       \/ MayFail /\ UNCHANGED memory
    /\ Report(r, target[r].id)
    /\ UNCHANGED <<embedding, job, vectors, target, deleteVars>>

\* Store: validated input goes straight to CreateMemory; its one vector is
\* computed after the row is committed.
BeginStore(r) ==
    /\ pc[r] = "start"
    /\ \E f \in Facts : job' = [job EXCEPT ![r] = <<f>>]
    /\ slot' = [slot EXCEPT ![r] = 1]
    /\ \E S \in SUBSET {1} : /\ MayFail \/ S = {1}
                             /\ vectors' = [vectors EXCEPT ![r] = S]
    /\ Goto(r, "create")
    /\ UNCHANGED <<memory, embedding, target, reported, deleteVars>>

\* CreateMemory returned an error, applied or not: the slot stays unanswered.
CreateFailed(r) ==
    /\ MayFail
    /\ Advance(r, slot[r] + 1, reported[r])
    /\ UNCHANGED target

Create(r) ==
    /\ pc[r] = "create"
    /\ \/ \E id \in Ids :
              /\ memory[id] = Unborn
              /\ CreateMemory(id, Current(r))
              /\ \/ /\ target' = [target EXCEPT ![r] =
                                  [id |-> id, content |-> Current(r).content]]
                    /\ Goto(r, "vector")
                    /\ UNCHANGED slot
                 \/ CreateFailed(r)
       \/ CreateFailed(r) /\ UNCHANGED memory
    /\ UNCHANGED <<embedding, job, vectors, reported, deleteVars>>

StoreVector(r) ==
    /\ pc[r] = "vector"
    /\ \/ slot[r] \in vectors[r] /\ StoreEmbedding(target[r].id, Current(r).content)
       \/ (MayFail \/ slot[r] \notin vectors[r]) /\ UNCHANGED embedding
    /\ Report(r, target[r].id)
    /\ UNCHANGED <<memory, job, vectors, target, deleteVars>>

-------------------------------------------------------------------------------
(* DeleteMemory: the embedding row goes first, then the vertex.  The entity  *)
(* read between them and the entity clean-up after leave these tables alone. *)

BeginDelete(d) ==
    /\ dpc[d] = "start"
    /\ \E id \in Ids :
           /\ memory[id] # Unborn
           /\ doomed' = [doomed EXCEPT ![d] = id]
           /\ \/ /\ DeleteEmbedding(id)
                 /\ dpc' = [dpc EXCEPT ![d] = "vertex"]
              \/ /\ MayFail
                 /\ UNCHANGED embedding
                 /\ dpc' = [dpc EXCEPT ![d] = "done"]
    /\ UNCHANGED <<memory, requestVars>>

DeleteVertex(d) ==
    /\ dpc[d] = "vertex"
    /\ DetachDelete(doomed[d]) \/ (MayFail /\ UNCHANGED memory)
    /\ dpc' = [dpc EXCEPT ![d] = "done"]
    /\ UNCHANGED <<embedding, doomed, requestVars>>

-------------------------------------------------------------------------------

Answered == \A r \in Requests : pc[r] = "done"
Quiet == Answered /\ \A d \in Deletes : dpc[d] # "vertex"

\* Every request is answered: the system may rest.
Rest == Quiet /\ UNCHANGED vars

RequestStep(r) ==
    \/ BeginExtract(r) \/ FindExisting(r) \/ RestateAndEmbed(r)
    \/ SearchNeighbours(r) \/ Fold(r) \/ Reembed(r) \/ Bump(r)
    \/ BeginStore(r) \/ Create(r) \/ StoreVector(r)

DeleteStep(d) == BeginDelete(d) \/ DeleteVertex(d)

Next ==
    \/ \E r \in Requests : RequestStep(r)
    \/ \E d \in Deletes : DeleteStep(d)
    \/ Rest

Spec == Init /\ [][Next]_vars

-------------------------------------------------------------------------------
(* What the write path must get right *)

\* A memory named in a response keeps saying what the caller said, however many
\* other requests fold into the same row, until it is deleted.  This is what
\* the compare-and-set of UpdateMemoryContent and the type guards are for.
ReportedFactKept ==
    \A r \in Requests : \A a \in reported[r] :
        \/ memory[a.id] = Deleted
        \/ Live(a.id) /\ Covers(FactOf(memory[a.id]), job[r][a.slot])

\* A stored memory's text is only ever replaced by one that says all of it.
\* UpdateMemoryContent and its content_hash are what several steps of several
\* requests have to agree on for this to hold.
ContentOnlyGrows ==
    [][\A id \in Ids : Live(id) /\ Live(id)' =>
           Covers(FactOf(memory[id])', FactOf(memory[id]))]_vars

\* Vector search never ranks a live row by something the row does not say: a
\* vector may lag behind the text of its row (foldInto accepts that), but it is
\* never ahead of it nor of another memory.
VectorWithinContent ==
    \A id \in Ids : Live(id) /\ embedding[id] # NoVector =>
        <<memory[id].content, embedding[id]>> \in Carries

\* What the store holds and what callers were told, as the abstract store sees it.
Known == {f \in Facts : \E id \in Ids : Live(id) /\ Covers(FactOf(memory[id]), f)}
Told == UNION {{job[r][a.slot] : a \in reported[r]} : r \in Requests}

Promise == INSTANCE FactStore WITH known <- Known, told <- Told

\* With nothing deleted, Extract and Store implement the abstract fact store.
KeepsPromise == Promise!Spec

-------------------------------------------------------------------------------
(* What a comment of the source says and an interleaving with DeleteMemory    *)
(* contradicts; a run finds the violation.                                    *)

\* foldInto: "the difference between a redundant row and a lost fact": a memory
\* is folded only into a row that is still there.
FoldedIntoLiveRow ==
    [][\A r \in Requests :
           pc[r] = "bump" /\ pc'[r] # "bump" => Live(target[r].id)]_vars
===============================================================================
