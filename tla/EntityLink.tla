------------------------------- MODULE EntityLink -------------------------------
(***************************************************************************)
(* The entity graph under concurrency: LinkEntities transactions, and      *)
(* DeleteMemory with its clean-up of orphaned entities, over one pool of   *)
(* connections.                                                            *)
(*                                                                         *)
(* PostgreSQL and AGE are external and modelled from what the code relies  *)
(* on and what its comments measured: a statement reads what is committed  *)
(* when it starts; a transaction's writes appear at its commit; a          *)
(* statement that updates a vertex changed since it read it fails with     *)
(* "failed to be updated"; MERGE creates what its snapshot does not hold.  *)
(***************************************************************************)
EXTENDS Integers, Sequences, FiniteSets

CONSTANTS
    Linkers,     \* one LinkEntities call each
    Deleters,    \* one DeleteMemory call each
    Memories,
    Projects,
    ProjectOf,   \* [Memories -> Projects]
    Names,       \* normalized entity names
    Blank,       \* what NormalizeEntity makes of nothing
    Mentions,    \* the name lists a call may be given: Seq(Names \cup {Blank})
    Vertices,    \* graph ids of :Entity vertices; one is never reused
    Attempts,    \* entityLinkAttempts
    MaxConns,    \* of pgxpool
    MayFail,     \* a deadline may end a link, a read may fail
    None

ASSUME EntityLinkAssumption ==
    /\ Attempts \in Nat \ {0} /\ MaxConns \in Nat \ {0}
    /\ ProjectOf \in [Memories -> Projects]
    /\ Blank \notin Names
    /\ Mentions \subseteq Seq(Names \cup {Blank})
    /\ MayFail \in BOOLEAN
    /\ Linkers \cap Deleters = {}
    /\ None \notin Linkers
    /\ None \notin [vid : Vertices, key : [project : Projects, name : Names], version : Nat]

VARIABLES
    live,      \* the :Memory vertices
    entity,    \* [vid, key, version]: the committed :Entity vertices
    mention,   \* <<memory, vid>>: the committed mentions edges
    used,      \* vids given out
    lock,      \* key -> the linker whose transaction holds its advisory lock
    conns,     \* the processes that hold a pooled connection
    pc,
    mem,       \* the memory a call is about
    names,     \* linker: the names it was given
    at,        \* linker: index of the name being linked
    tries,
    tx,        \* linker: the vertex its MERGE matched or created
    snap,      \* deleter: the vertices its clean-up statement matched
    linked     \* linker: the names counted as linked

vars == <<live, entity, mention, used, lock, conns, pc, mem, names, at, tries,
          tx, snap, linked>>

Processes == Linkers \cup Deleters
Keys == [project : Projects, name : Names]  \* the identity of an entity
Entities == [vid : Vertices, key : Keys, version : Nat]
Steps == {"next", "begin", "lock", "match", "update", "commit",
          "embedding", "names", "detach", "orphans", "clean", "done", "failed"}

TypeOK ==
    /\ live \subseteq Memories
    /\ entity \subseteq Entities
    /\ mention \subseteq Memories \X Vertices
    /\ used \subseteq Vertices
    /\ lock \in [Keys -> Linkers \cup {None}]
    /\ conns \subseteq Processes
    /\ pc \in [Processes -> Steps]
    /\ mem \in [Processes -> Memories]
    /\ at \in [Linkers -> Nat]
    /\ tries \in [Linkers -> 0..Attempts]
    /\ tx \in [Linkers -> Entities \cup {None}]
    /\ snap \in [Deleters -> SUBSET Entities]
    /\ linked \in [Linkers -> SUBSET Names]
    /\ \A l \in Linkers : pc[l] \notin {"next", "done", "failed"} => names[l][at[l]] \in Names

Init ==
    /\ live = Memories
    /\ entity = {} /\ mention = {} /\ used = {}
    /\ lock = [k \in Keys |-> None]
    /\ conns = {}
    /\ pc = [p \in Processes |-> IF p \in Linkers THEN "next" ELSE "embedding"]
    /\ mem \in [Processes -> Memories]
    /\ names \in [Linkers -> Mentions]
    /\ at = [l \in Linkers |-> 1]
    /\ tries = [l \in Linkers |-> 0]
    /\ tx = [l \in Linkers |-> None]
    /\ snap = [d \in Deleters |-> {}]
    /\ linked = [l \in Linkers |-> {}]

-----------------------------------------------------------------------------

Name(l) == names[l][at[l]]
Key(l) == [project |-> ProjectOf[mem[l]], name |-> Name(l)]
Goto(p, step) == pc' = [pc EXCEPT ![p] = step]

Committed(key) == {e \in entity : e.key = key}
Vids == {e.vid : e \in entity}

\* Vertices an open transaction has written: a statement that updates one waits.
Pending == {tx[l].vid : l \in {k \in Linkers : tx[k] # None /\ pc[k] = "commit"}}

HasRoom == Cardinality(conns) < MaxConns

\* A statement of a transaction runs on the connection the transaction holds.
OnPool(p) == HasRoom  \* a bug: it asks the pool for another one
OnTx(p) == p \in conns

-----------------------------------------------------------------------------
(* LinkEntities *)

SkippedRepeat(l) == \E i \in 1..(at[l] - 1) : names[l][i] = Name(l)  \* a bug: not the blank
Skipped(l) == Name(l) = Blank \/ \E i \in 1..(at[l] - 1) : names[l][i] = Name(l)

\* The loop: past a blank or a repeated name, to the next transaction or out.
NextName(l) ==
    /\ pc[l] = "next"
    /\ \/ /\ at[l] > Len(names[l]) /\ Goto(l, "done")
          /\ UNCHANGED <<at, tries>>
       \/ /\ at[l] <= Len(names[l])
          /\ IF Skipped(l)
             THEN at' = [at EXCEPT ![l] = @ + 1] /\ UNCHANGED <<pc, tries>>
             ELSE Goto(l, "begin") /\ tries' = [tries EXCEPT ![l] = 0] /\ UNCHANGED at
    /\ UNCHANGED <<live, entity, mention, used, lock, conns, mem, names, tx, snap, linked>>

BeginTx(l) ==
    /\ pc[l] = "begin"
    /\ HasRoom
    /\ conns' = conns \cup {l}
    /\ Goto(l, "lock")
    /\ UNCHANGED <<live, entity, mention, used, lock, mem, names, at, tries, tx, snap, linked>>

\* pg_advisory_xact_lock(project, name); hash collisions are left out.
LockUnheeded(l) ==  \* a bug: the lock is not waited for
    /\ pc[l] = "lock"
    /\ lock' = [lock EXCEPT ![Key(l)] = IF @ = None THEN l ELSE @]
    /\ Goto(l, "match")
    /\ UNCHANGED <<live, entity, mention, used, conns, mem, names, at, tries, tx, snap, linked>>
Lock(l) ==
    /\ pc[l] = "lock"
    /\ lock[Key(l)] = None
    /\ lock' = [lock EXCEPT ![Key(l)] = l]
    /\ Goto(l, "match")
    /\ UNCHANGED <<live, entity, mention, used, conns, mem, names, at, tries, tx, snap, linked>>

\* The MERGE statement reads: the memory, and the entity or a new vertex for it.
\* A memory that is gone matches nothing, and nothing is merged.
Match(l) ==
    /\ pc[l] = "match"
    /\ OnTx(l)
    /\ \/ /\ mem[l] \notin live
          /\ Goto(l, "commit") /\ UNCHANGED <<tx, used>>
       \/ /\ mem[l] \in live /\ Committed(Key(l)) # {}
          /\ \E e \in Committed(Key(l)) : tx' = [tx EXCEPT ![l] = e]
          /\ Goto(l, "update") /\ UNCHANGED used
       \/ /\ mem[l] \in live /\ Committed(Key(l)) = {}
          /\ \E v \in Vertices \ used :
                /\ \A w \in Vertices \ used : w >= v  \* which id is immaterial
                /\ tx' = [tx EXCEPT ![l] = [vid |-> v, key |-> Key(l), version |-> 0]]
                /\ used' = used \cup {v}
          /\ Goto(l, "commit")
    /\ UNCHANGED <<live, entity, mention, lock, conns, mem, names, at, tries, snap, linked>>

\* A transaction ends: its locks and its connection are given back.
Release(l) ==
    /\ lock' = [k \in Keys |-> IF lock[k] = l THEN None ELSE lock[k]]
    /\ conns' = conns \ {l}
    /\ tx' = [tx EXCEPT ![l] = None]

\* The SET of the matched vertex, once no open transaction has it: it goes
\* through, or the vertex changed and isConcurrentUpdate has linkOneEntity
\* retry with a transaction of its own.
Update(l) ==
    /\ pc[l] = "update"
    /\ tx[l].vid \notin Pending
    /\ IF tx[l] \in entity
       THEN Goto(l, "commit") /\ UNCHANGED <<lock, conns, tx, tries>>
       ELSE /\ Release(l)
            /\ tries' = [tries EXCEPT ![l] = @ + 1]
            /\ Goto(l, IF tries[l] + 1 = Attempts THEN "failed" ELSE "begin")
    /\ UNCHANGED <<live, entity, mention, used, mem, names, at, snap, linked>>

Newer(e) == [e EXCEPT !.version = @ + 1]

\* What the transaction wrote becomes visible.
Apply(l) ==
    IF tx[l] = None
    THEN UNCHANGED <<entity, mention>>
    ELSE /\ entity' = {e \in entity : e.vid # tx[l].vid} \cup {Newer(tx[l])}
         /\ mention' = mention \cup {<<mem[l], tx[l].vid>>}

Commit(l) ==
    /\ pc[l] = "commit"
    /\ Release(l)
    /\ Apply(l)
    /\ linked' = [linked EXCEPT ![l] = @ \cup {Name(l)}]
    /\ at' = [at EXCEPT ![l] = @ + 1]
    /\ Goto(l, "next")
    /\ UNCHANGED <<live, used, mem, names, tries, snap>>

\* The context ends, a statement fails or the process dies: a rollback, or a
\* commit whose answer is lost, and an error that ends the whole call.
Fail(l) ==
    /\ MayFail
    /\ pc[l] \in {"begin", "lock", "match", "update", "commit"}
    /\ Release(l)
    /\ Goto(l, "failed")
    /\ \/ UNCHANGED <<entity, mention>>
       \/ pc[l] = "commit" /\ Apply(l)
    /\ UNCHANGED <<live, used, mem, names, at, tries, snap, linked>>

-----------------------------------------------------------------------------
(* DeleteMemory: each statement takes a connection from the pool and gives  *)
(* it back.                                                                 *)

DeleteEmbedding(d) ==
    /\ pc[d] = "embedding" /\ HasRoom
    /\ \/ Goto(d, "names")
       \/ MayFail /\ Goto(d, "failed")
    /\ UNCHANGED <<live, entity, mention, used, lock, conns, mem, names, at, tries, tx, snap, linked>>

EntitiesOf(m) == {e \in entity : m \in live /\ <<m, e.vid>> \in mention}

\* GetMemoryEntities; its failure is logged and leaves nothing to clean up.
ReadEntities(d) ==
    /\ pc[d] = "names" /\ HasRoom
    /\ \/ snap' = [snap EXCEPT ![d] = EntitiesOf(mem[d])]
       \/ MayFail /\ UNCHANGED snap
    /\ Goto(d, "detach")
    /\ UNCHANGED <<live, entity, mention, used, lock, conns, mem, names, at, tries, tx, linked>>

\* DETACH DELETE m: the vertex, and the edges committed by now.
DetachDelete(d) ==
    /\ pc[d] = "detach" /\ HasRoom
    /\ \/ /\ live' = live \ {mem[d]}
          /\ mention' = {x \in mention : x[1] # mem[d]}
          /\ Goto(d, IF snap[d] = {} THEN "done" ELSE "orphans")
       \/ MayFail /\ Goto(d, "failed") /\ UNCHANGED <<live, mention>>
    /\ UNCHANGED <<entity, used, lock, conns, mem, names, at, tries, tx, snap, linked>>

Mentioned == {x[2] : x \in mention}

\* deleteOrphanedEntities, the statement's read: the vertices of the names just
\* orphaned that nothing mentions.
MatchOrphansAny(d) ==  \* a bug: the degree test is missing
    /\ pc[d] = "orphans" /\ HasRoom
    /\ snap' = [snap EXCEPT ![d] = {e \in entity : \E s \in @ : s.key.name = e.key.name}]
    /\ conns' = conns \cup {d}
    /\ Goto(d, "clean")
    /\ UNCHANGED <<live, entity, mention, used, lock, mem, names, at, tries, tx, linked>>
MatchOrphans(d) ==
    /\ pc[d] = "orphans" /\ HasRoom
    /\ snap' = [snap EXCEPT ![d] =
         {e \in entity : e.vid \notin Mentioned /\ \E s \in @ : s.key.name = e.key.name}]
    /\ conns' = conns \cup {d}
    /\ Goto(d, "clean")
    /\ UNCHANGED <<live, entity, mention, used, lock, mem, names, at, tries, tx, linked>>

\* ... and its DELETE, once no open transaction has written them.  Failures are
\* logged; the connection goes back.
DeleteOrphans(d) ==
    /\ pc[d] = "clean"
    /\ \A e \in snap[d] : e.vid \notin Pending
    /\ entity' = IF snap[d] \subseteq entity THEN entity \ snap[d] ELSE entity
    /\ conns' = conns \ {d}
    /\ Goto(d, "done")
    /\ UNCHANGED <<live, mention, used, lock, mem, names, at, tries, tx, snap, linked>>

-----------------------------------------------------------------------------

LinkStep(l) == NextName(l) \/ BeginTx(l) \/ Lock(l) \/ Match(l) \/ Update(l) \/ Commit(l)
DeleteStep(d) == \/ DeleteEmbedding(d) \/ ReadEntities(d) \/ DetachDelete(d)
                 \/ MatchOrphans(d) \/ DeleteOrphans(d)

Next ==
    \/ \E l \in Linkers : LinkStep(l) \/ Fail(l)
    \/ \E d \in Deleters : DeleteStep(d)

(* A goroutine runs, the database answers, pgxpool and PostgreSQL serve     *)
(* waiters in turn: weak fairness per call is enough, since the calls that  *)
(* can be ahead of it in a queue are finitely many.                         *)
Fairness ==
    /\ \A l \in Linkers : WF_vars(LinkStep(l))
    /\ \A d \in Deleters : WF_vars(DeleteStep(d))

Spec == Init /\ [][Next]_vars /\ Fairness

-----------------------------------------------------------------------------

(* Two memories that name one thing reach one vertex: what the advisory     *)
(* lock on (project, name) exists for, AGE's MERGE being unsafe.            *)
OneVertexPerName == \A e, f \in entity : e.key = f.key => e = f

(* A link LinkEntities counted is there as long as the memory is: neither   *)
(* the clean-up of another memory's entities nor a racing writer takes the  *)
(* vertex or the edge away.                                                 *)
LinksKept ==
    \A l \in Linkers : \A n \in linked[l] :
        mem[l] \in live =>
            \E e \in EntitiesOf(mem[l]) : e.key = [project |-> ProjectOf[mem[l]], name |-> n]

(* Nobody waits on everybody: with any number of calls over MaxConns        *)
(* connections, the lock, the row locks and the pool never form a cycle.    *)
EveryCallEnds == \A p \in Processes : <>(pc[p] \in {"done", "failed"})
=============================================================================
