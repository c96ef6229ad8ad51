--------------------------------- MODULE Prune ---------------------------------
(***************************************************************************)
(* service.phasePrune, the last phase of the nightly consolidation job,    *)
(* beside the write path it does not wait for: it reads the memories once, *)
(* then deletes the abandoned ones one by one, each with the DeleteMemory  *)
(* of module WritePath, which clients call as well.                        *)
(*                                                                         *)
(* The merge phase writes edges only and the decay phase decay_score only. *)
(* A score and an age are not kept here: any memory may be stale and old.  *)
(***************************************************************************)
EXTENDS WritePath

VARIABLES
    phase,      \* of the job: "before" and "prune"
    abandoned,  \* the memories it read that meet the criteria, not yet deleted
    restated,   \* history: memories named for two statements when it read
    pruned      \* history: memories it deleted

pruneVars == <<phase, abandoned, restated, pruned>>
jobVars == <<vars, pruneVars>>

PruneInit ==
    /\ Init
    /\ phase = "before"
    /\ abandoned = {}
    /\ restated = {} /\ pruned = {}

\* Memories that answer two statements whose bump is done.
Restated ==
    {id \in Ids : \E r, s \in Requests : \E a \in reported[r], b \in reported[s] :
        /\ a.id = id /\ b.id = id /\ <<r, a.slot>> # <<s, b.slot>>
        /\ pc[r] # "restate" /\ pc[s] # "restate"}

\* decay_score below the threshold, access_count zero, older than PruneAgeDays.
Abandoned(id) == Live(id) /\ ~memory[id].used

\* QueryMemories with TopK 1000, and the criteria on what it returned.
ReadMemories ==
    /\ phase = "before"
    /\ phase' = "prune"
    /\ \E S \in SUBSET Ids : (\A id \in S : Abandoned(id)) /\ abandoned' = S
    /\ restated' = Restated
    /\ UNCHANGED <<vars, pruned>>

\* The body of the loop; a failed DeleteMemory is counted and passed over.
PruneNext(d) ==
    /\ phase = "prune"
    /\ \A e \in Deletes : dpc[e] = "vertex" => doomed[e] \notin pruned
    /\ BeginDelete(d)
    /\ doomed'[d] \in abandoned
    /\ abandoned' = abandoned \ {doomed'[d]}
    /\ pruned' = pruned \cup {doomed'[d]}
    /\ UNCHANGED <<phase, restated>>

NextWithPrune == (Next /\ UNCHANGED pruneVars) \/ ReadMemories \/ \E d \in Deletes : PruneNext(d)

PruneSpec == PruneInit /\ [][NextWithPrune]_jobVars

-------------------------------------------------------------------------------

\* A memory that was stated again before the job read it is not pruned by it:
\* a statement of its own counts the restatement, for a row read before, and
\* whatever upgrades that row in between keeps access_count.  The write path's
\* bumps, the fold and the criteria agree.  (Only when no statement fails.)
RestatedKept == restated \cap pruned = {}
===============================================================================
