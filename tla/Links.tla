--------------------------------- MODULE Links ---------------------------------
(***************************************************************************)
(* The memory-to-memory edges: what every write adds after CreateMemory    *)
(* (ingest.detectAndSupersede, then autoLinkByTags), what the nightly      *)
(* merge adds (service.phaseMerge), and what DeleteMemory takes away.  One *)
(* action per statement.  A write stores one memory and is named after it; *)
(* it belongs to a Store, or to one turn of Extract's loop.                *)
(***************************************************************************)
EXTENDS Integers, FiniteSets

CONSTANTS
    Writes,       \* one memory each
    Contents,
    Types,
    Contradicts,  \* <<new, old>>: DetectContradictions at confidence 0.5 or more
    Cap,          \* maxSupersedesPerStore and maxRelatesPerStore
    MayFail,      \* statements may fail, applied or not
    Times,        \* milliseconds of the servers' clocks
    MaxNights,    \* bound: runs of the merge phase
    MaxDeletes    \* bound: DeleteMemory calls

ASSUME LinksAssumption ==
    /\ Contradicts \subseteq Contents \X Contents
    /\ Cap \in Nat /\ Times \subseteq Nat /\ MaxNights \in Nat /\ MaxDeletes \in Nat
    /\ MayFail \in BOOLEAN

VARIABLES
    pc,         \* the statement a write issues next
    row,        \* the memory as the write made it up: content, type, created_at
    live,       \* memories whose vertex exists
    plan,       \* targets of the edges a write has yet to assert
    connected,  \* the targets detectAndSupersede reported to auto-linking
    edges,      \* <<from, relationship, to>>
    before,     \* history: the writes that were over when a write began
    night,      \* merge phases begun
    merges,     \* <<newest, duplicate>> pairs the merge phase has yet to assert
    deletes     \* DeleteMemory calls made

writeVars == <<pc, row, plan, connected>>
mergeVars == <<night, merges>>
vars == <<pc, row, live, plan, connected, edges, before, night, merges, deletes>>

Rows == [content : Contents, type : Types, created_at : Times]
Relationships == {"supersedes", "relates_to"}

TypeOK ==
    /\ pc \in [Writes -> {"start", "create", "detect", "supersede", "link", "relate", "done"}]
    /\ row \in [Writes -> Rows]
    /\ live \subseteq {w \in Writes : pc[w] \notin {"start", "create"}}
    /\ plan \in [Writes -> SUBSET Writes]
    /\ connected \in [Writes -> SUBSET Writes]
    /\ edges \subseteq Writes \X Relationships \X Writes
    /\ before \in [Writes -> SUBSET Writes]
    /\ night \in 0..MaxNights
    /\ merges \subseteq Writes \X Writes
    /\ deletes \in 0..MaxDeletes

Init ==
    /\ pc = [w \in Writes |-> "start"]
    /\ row \in [Writes -> Rows]
    /\ live = {}
    /\ plan = [w \in Writes |-> {}]
    /\ connected = [w \in Writes |-> {}]
    /\ edges = {}
    /\ before = [w \in Writes |-> {}]
    /\ night = 0 /\ merges = {}
    /\ deletes = 0

Goto(w, step) == pc' = [pc EXCEPT ![w] = step]

-------------------------------------------------------------------------------
(* Store, or one turn of Extract *)

\* The memory is made up.  Its created_at is the clock of the server that has the
\* request, read once for all the memories of a conversation: stamps may be shared,
\* or in another order than the writes.
Begin(w) ==
    /\ pc[w] = "start"
    /\ before' = [before EXCEPT ![w] = {v \in Writes : pc[v] = "done"}]
    /\ Goto(w, "create")
    /\ UNCHANGED <<row, live, plan, connected, edges, mergeVars, deletes>>

CreateMemory(w) ==
    /\ pc[w] = "create"
    /\ live' = live \cup {w}
    /\ Goto(w, "detect")
    /\ UNCHANGED <<row, plan, connected, edges, before, mergeVars, deletes>>

\* DetectContradictions: the stored semantic memories a new one contradicts.
Contradicted(w) ==
    {v \in live \ {w} : /\ row[w].type = "semantic" /\ row[v].type = "semantic"
                        /\ <<row[w].content, row[v].content>> \in Contradicts}

\* The strongest Cap of a set, whichever they are.
Strongest(S) == {T \in SUBSET S : Cardinality(T) = Cap \/ (T = S /\ Cardinality(S) < Cap)}

\* detectAndSupersede's read.
Detect(w) ==
    /\ pc[w] = "detect"
    /\ \E T \in Strongest(Contradicted(w)) \cup (IF MayFail THEN {{}} ELSE {}) :
           /\ plan' = [plan EXCEPT ![w] = T]
           /\ connected' = [connected EXCEPT ![w] = T]
    /\ Goto(w, IF plan'[w] = {} THEN "link" ELSE "supersede")
    /\ UNCHANGED <<row, live, edges, before, mergeVars, deletes>>

\* The same without the MATCH of both endpoints.
AssertUnmatched(from, rel, to) == edges' = edges \cup {<<from, rel, to>>}

\* The same with the relationship passed in the place of the target.
AssertMixedUp(from, rel, to) == edges' = edges \cup {<<from, to, rel>>}

\* CreateEdge, and one statement of CreateEdges: MATCH both endpoints, MERGE.
AssertEdge(from, rel, to) ==
    edges' = IF {from, to} \subseteq live THEN edges \cup {<<from, rel, to>>} ELSE edges

\* CreateEdges asserts its edges, if there are any, in turn and returns at the
\* first error.
AssertNext(w, rel) ==
    \E to \in plan[w] :
        /\ AssertEdge(w, rel, to)
        /\ plan' = [plan EXCEPT ![w] = @ \ {to}]

AssertFailed(w, rel) ==
    /\ MayFail
    /\ \E to \in plan[w] : AssertEdge(w, rel, to) \/ UNCHANGED edges
    /\ plan' = [plan EXCEPT ![w] = {}]

\* detectAndSupersede's write: after an error nothing is reported as connected.
Supersede(w) ==
    /\ pc[w] = "supersede"
    /\ \/ AssertNext(w, "supersedes") /\ UNCHANGED connected
       \/ AssertFailed(w, "supersedes") /\ connected' = [connected EXCEPT ![w] = {}]
    /\ Goto(w, IF plan'[w] = {} THEN "link" ELSE "supersede")
    /\ UNCHANGED <<row, live, before, mergeVars, deletes>>

\* The same without the skip of connected memories.
LinkableToAny(w) == live \ {w}

\* What auto-linking may link w to.
Linkable(w) == live \ ({w} \cup connected[w])

\* autoLinkByTags' reads: any of the linkable memories may share a tag or be
\* near in meaning.
Link(w) ==
    /\ pc[w] = "link"
    /\ \E T \in SUBSET Linkable(w) :
           /\ Cardinality(T) <= Cap
           /\ plan' = [plan EXCEPT ![w] = T]
    /\ Goto(w, IF plan'[w] = {} THEN "done" ELSE "relate")
    /\ UNCHANGED <<row, live, connected, edges, before, mergeVars, deletes>>

Relate(w) ==
    /\ pc[w] = "relate"
    /\ AssertNext(w, "relates_to") \/ AssertFailed(w, "relates_to")
    /\ Goto(w, IF plan'[w] = {} THEN "done" ELSE "relate")
    /\ UNCHANGED <<row, live, connected, before, mergeVars, deletes>>

-------------------------------------------------------------------------------
(* DeleteMemory and the merge phase *)

\* DETACH DELETE takes the edges with the vertex.
Delete(w) ==
    /\ deletes < MaxDeletes
    /\ w \in live
    /\ live' = live \ {w}
    /\ edges' = {e \in edges : e[1] # w /\ e[3] # w}
    /\ deletes' = deletes + 1
    /\ UNCHANGED <<writeVars, before, mergeVars>>

\* Live semantic memories with the text of w.
Duplicates(w) ==
    {v \in live : /\ row[w].type = "semantic" /\ row[v].type = "semantic"
                  /\ row[v].content = row[w].content}

\* The same keeping the oldest.
SurvivorsOldest(group) ==
    {v \in group : \A u \in group : row[v].created_at <= row[u].created_at}

\* The most recently created of a group; of a tie, the one returned first.
Survivors(group) ==
    {v \in group : \A u \in group : row[u].created_at <= row[v].created_at}

\* phaseMerge's read: one survivor per group, and an edge to each of the others.
MergeRead ==
    /\ night < MaxNights /\ merges = {}
    /\ \E newest \in [live -> live] :
           /\ \A w \in live : /\ newest[w] \in Survivors(Duplicates(w) \cup {w})
                              /\ \A v \in Duplicates(w) : newest[v] = newest[w]
           /\ merges' = {<<newest[w], w>> : w \in {v \in live : newest[v] # v}}
    /\ night' = night + 1
    /\ UNCHANGED <<writeVars, live, edges, before, deletes>>

\* One CreateEdge of phaseMerge; a failure is counted and passed over.
MergeNext ==
    /\ \E m \in merges :
           /\ merges' = merges \ {m}
           /\ AssertEdge(m[1], "supersedes", m[2]) \/ (MayFail /\ UNCHANGED edges)
    /\ UNCHANGED <<writeVars, live, before, night, deletes>>

-------------------------------------------------------------------------------

Next ==
    \/ \E w \in Writes :
           \/ Begin(w) \/ CreateMemory(w) \/ Detect(w) \/ Supersede(w)
           \/ Link(w) \/ Relate(w) \/ Delete(w)
    \/ MergeRead \/ MergeNext

Spec == Init /\ [][Next]_vars

Supersedes(a, b) == <<a, "supersedes", b>> \in edges

-------------------------------------------------------------------------------
(* What the edges must get right *)

\* No edge outlives a memory, whatever was read before it was deleted: traversal
\* and SupersededCandidates rely on it.
EdgesBetweenLive == \A e \in edges : {e[1], e[3]} \subseteq live

\* A memory is not superseded by one whose write was over when its own began,
\* however writes overlap, fail and their stamps are shared or out of order; but
\* for the merge, which goes by the stamps, and only among copies.
Copies(a, b) == row[a].content = row[b].content
PointsBack ==
    \A a, b \in Writes : Supersedes(a, b) =>
        a \notin before[b] \/ (Copies(a, b) /\ row[b].created_at <= row[a].created_at)

\* autoLinkByTags adds a generic edge over a supersedes edge only where its write
\* reported no connected memory (CreateEdges failed, having added some of its
\* edges), or where the merge found a copy.
RelatesOnlyElsewhere ==
    \A a, b \in Writes : Supersedes(a, b) /\ <<a, "relates_to", b>> \in edges =>
        connected[a] = {} \/ Copies(a, b)
===============================================================================
