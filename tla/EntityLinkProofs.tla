---------------------------- MODULE EntityLinkProofs ----------------------------
(***************************************************************************)
(* One vertex per name, and links that stay, for any number of link calls, *)
(* deletes, names, projects, connections and attempts.  Nothing is assumed *)
(* of fairness: these are safety properties of every behaviour.            *)
(***************************************************************************)
EXTENDS EntityLink, TLAPS

USE EntityLinkAssumption

Typed ==
    /\ TypeOK
    /\ names \in [Linkers -> Mentions]
    /\ \A l \in Linkers : at[l] # 0
    /\ \A l \in Linkers : pc[l] \notin {"next", "done", "failed"} => tries[l] < Attempts

InTx == {"match", "update", "commit"}

\* The advisory lock is held from its statement to the end of the transaction.
LockHeld == \A l \in Linkers : pc[l] \in InTx => lock[Key(l)] = l

\* What a transaction has matched or created is its name's; before the match and
\* of a memory that is gone it has nothing.
TxOfName ==
    \A l \in Linkers :
        /\ pc[l] = "update" => tx[l] # None
        /\ pc[l] = "commit" /\ tx[l] = None => mem[l] \notin live
        /\ tx[l] # None => pc[l] \in {"update", "commit"} /\ tx[l].key = Key(l)

\* A transaction about to commit writes the only vertex of its name.
Single ==
    \A l \in Linkers :
        pc[l] = "commit" /\ tx[l] # None =>
            \A e \in entity : e.key = tx[l].key => e.vid = tx[l].vid

NameInv == Typed /\ LockHeld /\ TxOfName /\ Single /\ OneVertexPerName

-----------------------------------------------------------------------------
(* Types *)

LEMMA KeyTyped ==
    ASSUME Typed, NEW l \in Linkers, pc[l] \notin {"next", "done", "failed"}
    PROVE  Key(l) \in Keys /\ Name(l) \in Names
BY DEF Typed, TypeOK, Key, Name, Keys, Processes

LEMMA NewerIs ==
    ASSUME NEW e \in Entities
    PROVE  /\ Newer(e) \in Entities /\ e.vid \in Vertices
           /\ Newer(e).vid = e.vid /\ Newer(e).key = e.key
           /\ Newer(e).version = e.version + 1 /\ e.version \in Nat
BY DEF Newer, Entities

LEMMA TypedInit == Init => Typed
<1> SUFFICES ASSUME Init PROVE Typed
  OBVIOUS
<1>1. pc \in [Processes -> Steps]
  BY DEF Init, Steps
<1>2. \A l \in Linkers : pc[l] = "next"
  BY DEF Init, Processes
<1> QED BY <1>1, <1>2 DEF Init, Typed, TypeOK, Keys, Entities

LEMMA TypedNext == Typed /\ [Next]_vars => Typed'
<1> SUFFICES ASSUME Typed, [Next]_vars PROVE Typed'
  OBVIOUS
<1> USE DEF Typed, TypeOK, Processes, Goto
<1>1. ASSUME NEW l \in Linkers, NextName(l) PROVE Typed'
  <2>1. names[l] \in Seq(Names \cup {Blank}) /\ at[l] \in Nat \ {0} /\ Len(names[l]) \in Nat
    OBVIOUS
  <2>2. \/ pc' = [pc EXCEPT ![l] = "done"] /\ UNCHANGED <<at, tries>>
        \/ at' = [at EXCEPT ![l] = @ + 1] /\ UNCHANGED <<pc, tries>>
        \/ /\ pc' = [pc EXCEPT ![l] = "begin"] /\ tries' = [tries EXCEPT ![l] = 0]
           /\ UNCHANGED at /\ at[l] <= Len(names[l]) /\ Name(l) # Blank
    BY <1>1 DEF NextName, Skipped
  <2>3. /\ UNCHANGED <<live, entity, mention, used, lock, conns, mem, names, tx, snap, linked>>
        /\ pc[l] = "next"
    BY <1>1 DEF NextName
  <2>4. CASE pc' = [pc EXCEPT ![l] = "done"] /\ UNCHANGED <<at, tries>>
    <3>1. pc' \in [Linkers \cup Deleters -> Steps]
      BY <2>4 DEF Steps
    <3> QED BY <2>3, <2>4, <3>1
  <2>5. CASE at' = [at EXCEPT ![l] = @ + 1] /\ UNCHANGED <<pc, tries>>
    <3>1. at' \in [Linkers -> Nat] /\ \A k \in Linkers : at'[k] # 0
      BY <2>1, <2>5
    <3>2. \A k \in Linkers \ {l} : at'[k] = at[k]
      BY <2>5
    <3> QED BY <2>3, <2>5, <3>1, <3>2
  <2>6. CASE /\ pc' = [pc EXCEPT ![l] = "begin"] /\ tries' = [tries EXCEPT ![l] = 0]
             /\ UNCHANGED at /\ at[l] <= Len(names[l]) /\ Name(l) # Blank
    <3>1. pc' \in [Linkers \cup Deleters -> Steps]
      BY <2>6 DEF Steps
    <3>2. names[l][at[l]] \in Names
      BY <2>1, <2>6 DEF Name
    <3>3. tries' \in [Linkers -> 0..Attempts] /\ tries'[l] < Attempts
      BY <2>6
    <3>4. \A k \in Linkers \ {l} : pc'[k] = pc[k] /\ tries'[k] = tries[k]
      BY <2>6
    <3> QED BY <2>3, <2>6, <3>1, <3>2, <3>3, <3>4
  <2> QED BY <2>2, <2>4, <2>5, <2>6
<1>2. ASSUME NEW l \in Linkers, BeginTx(l) PROVE Typed'
  BY <1>2 DEF BeginTx, Steps
<1>3. ASSUME NEW l \in Linkers, Lock(l) PROVE Typed'
  <2>1. Key(l) \in Keys
    BY <1>3, KeyTyped DEF Lock
  <2> QED BY <1>3, <2>1 DEF Lock, Steps
<1>4. ASSUME NEW l \in Linkers, Match(l) PROVE Typed'
  <2>1. Key(l) \in Keys
    BY <1>4, KeyTyped DEF Match
  <2>2. tx' \in [Linkers -> Entities \cup {None}] /\ used' \subseteq Vertices
    <3>1. \A v \in Vertices : [vid |-> v, key |-> Key(l), version |-> 0] \in Entities
      BY <2>1 DEF Entities
    <3>2. Committed(Key(l)) \subseteq Entities
      BY DEF Committed
    <3>3. CASE UNCHANGED <<tx, used>>
      BY <3>3
    <3>4. CASE \E e \in Committed(Key(l)) : tx' = [tx EXCEPT ![l] = e] /\ UNCHANGED used
      BY <3>2, <3>4
    <3>5. CASE \E v \in Vertices \ used :
                 /\ tx' = [tx EXCEPT ![l] = [vid |-> v, key |-> Key(l), version |-> 0]]
                 /\ used' = used \cup {v}
      BY <3>1, <3>5
    <3> QED BY <1>4, <3>3, <3>4, <3>5 DEF Match
  <2>3. pc' \in [Linkers \cup Deleters -> Steps] /\ pc[l] = "match"
        /\ \A k \in Linkers \ {l} : pc'[k] = pc[k]
    BY <1>4 DEF Match, Steps
  <2> QED BY <1>4, <2>2, <2>3 DEF Match
<1>5. ASSUME NEW l \in Linkers, Release(l)
      PROVE  /\ lock' \in [Keys -> Linkers \cup {None}]
             /\ conns' \subseteq Linkers \cup Deleters
             /\ tx' \in [Linkers -> Entities \cup {None}]
  BY <1>5 DEF Release
<1>6. ASSUME NEW l \in Linkers, Update(l) PROVE Typed'
  <2>1. CASE tx[l] \in entity
    BY <1>6, <2>1 DEF Update, Steps
  <2>2. CASE tx[l] \notin entity
    <3>1. tries[l] \in 0..Attempts /\ tries' = [tries EXCEPT ![l] = @ + 1]
          /\ pc' = [pc EXCEPT ![l] = IF tries[l] + 1 = Attempts THEN "failed" ELSE "begin"]
      BY <1>6, <2>2 DEF Update
    <3>2. pc' \in [Linkers \cup Deleters -> Steps]
      BY <3>1 DEF Steps
    <3>3. tries[l] < Attempts
      BY <1>6 DEF Update
    <3>4. tries[l] + 1 \in 0..Attempts /\ tries' \in [Linkers -> 0..Attempts]
      BY <3>1, <3>3
    <3>5. \A k \in Linkers : pc'[k] \notin {"next", "done", "failed"} => tries'[k] < Attempts
      BY <3>1, <3>4
    <3> QED BY <1>5, <1>6, <2>2, <3>1, <3>2, <3>4, <3>5 DEF Update
  <2> QED BY <2>1, <2>2
<1>7. ASSUME NEW l \in Linkers, Apply(l), pc[l] = "commit"
      PROVE  entity' \subseteq Entities /\ mention' \subseteq Memories \X Vertices
  <2>1. CASE tx[l] = None
    BY <1>7, <2>1 DEF Apply
  <2>2. CASE tx[l] # None
    <3>1. tx[l] \in Entities
      BY <2>2
    <3>2. tx[l].vid \in Vertices /\ Newer(tx[l]) \in Entities
      BY <3>1, NewerIs
    <3> QED BY <1>7, <2>2, <3>2 DEF Apply
  <2> QED BY <2>1, <2>2
<1>8. ASSUME NEW l \in Linkers, Commit(l) PROVE Typed'
  <2>1. Name(l) \in Names
    BY <1>8, KeyTyped DEF Commit
  <2>2. pc' \in [Linkers \cup Deleters -> Steps] /\ linked' \in [Linkers -> SUBSET Names]
        /\ at' \in [Linkers -> Nat] /\ \A k \in Linkers : at'[k] # 0
    BY <1>8, <2>1 DEF Commit, Steps
  <2> QED BY <1>5, <1>7, <1>8, <2>2 DEF Commit
<1>9. ASSUME NEW l \in Linkers, Fail(l) PROVE Typed'
  <2>1. pc' \in [Linkers \cup Deleters -> Steps]
    BY <1>9 DEF Fail, Steps
  <2> QED BY <1>5, <1>7, <1>9, <2>1 DEF Fail
<1>10. ASSUME NEW d \in Deleters, DeleteStep(d) PROVE Typed'
  <2>1. pc' \in [Linkers \cup Deleters -> Steps] /\ \A l \in Linkers : pc'[l] = pc[l]
    BY <1>10 DEF DeleteStep, DeleteEmbedding, ReadEntities, DetachDelete, MatchOrphans, DeleteOrphans, Steps
  <2>2. CASE DeleteEmbedding(d)
    BY <2>1, <2>2 DEF DeleteEmbedding
  <2>3. CASE ReadEntities(d)
    <3>1. snap' \in [Deleters -> SUBSET Entities]
      <4>1. EntitiesOf(mem[d]) \subseteq Entities
        BY DEF EntitiesOf
      <4>2. snap' = [snap EXCEPT ![d] = EntitiesOf(mem[d])] \/ snap' = snap
        BY <2>3 DEF ReadEntities
      <4> QED BY <4>1, <4>2
    <3> QED BY <2>1, <2>3, <3>1 DEF ReadEntities
  <2>4. CASE DetachDelete(d)
    BY <2>1, <2>4 DEF DetachDelete
  <2>5. CASE MatchOrphans(d)
    BY <2>1, <2>5 DEF MatchOrphans
  <2>6. CASE DeleteOrphans(d)
    BY <2>1, <2>6 DEF DeleteOrphans
  <2> QED BY <1>10, <2>2, <2>3, <2>4, <2>5, <2>6 DEF DeleteStep
<1>11. CASE UNCHANGED vars
  BY <1>11 DEF vars
<1> QED BY <1>1, <1>2, <1>3, <1>4, <1>6, <1>8, <1>9, <1>10, <1>11 DEF Next, LinkStep

-----------------------------------------------------------------------------
(* One vertex per name *)

Step(p) == (p \in Linkers /\ (LinkStep(p) \/ Fail(p))) \/ (p \in Deleters /\ DeleteStep(p))

LEMMA NextIsStep == ASSUME Next PROVE \E p \in Processes : Step(p)
BY DEF Next, Step, Processes

\* A step of one call leaves another's transaction alone: its place, what it
\* matched and its locks.
LEMMA OthersKeep ==
    ASSUME Typed, NEW p \in Processes, Step(p), NEW l \in Linkers, l # p
    PROVE  /\ pc'[l] = pc[l] /\ tx'[l] = tx[l] /\ at'[l] = at[l] /\ linked'[l] = linked[l]
           /\ UNCHANGED <<mem, names>> /\ Key(l)' = Key(l)
           /\ Key(l) \in Keys /\ lock[Key(l)] = l => lock'[Key(l)] = l
<1>1. mem' = mem /\ names' = names
  BY DEF Step, LinkStep, DeleteStep, NextName, BeginTx, Lock, Match, Update, Commit, Fail,
         DeleteEmbedding, ReadEntities, DetachDelete, MatchOrphans, DeleteOrphans
<1>2. ASSUME Release(p)
      PROVE tx'[l] = tx[l] /\ (Key(l) \in Keys /\ lock[Key(l)] = l => lock'[Key(l)] = l)
  BY <1>2 DEF Release, Typed, TypeOK
<1> USE DEF Typed, TypeOK, Processes, Goto
<1>3. ASSUME p \in Linkers
      PROVE  /\ pc'[l] = pc[l] /\ tx'[l] = tx[l] /\ at'[l] = at[l] /\ linked'[l] = linked[l]
             /\ Key(l) \in Keys /\ lock[Key(l)] = l => lock'[Key(l)] = l
  <2>1. CASE NextName(p)
    BY <1>3, <2>1 DEF NextName
  <2>2. CASE BeginTx(p)
    BY <1>3, <2>2 DEF BeginTx
  <2>3. CASE Lock(p)
    <3>1. lock[Key(p)] = None /\ lock' = [lock EXCEPT ![Key(p)] = p]
      BY <2>3 DEF Lock
    <3>2. lock[Key(l)] = l => Key(l) # Key(p)
      BY <3>1
    <3> QED BY <1>3, <2>3, <3>1, <3>2 DEF Lock
  <2>4. CASE Match(p)
    BY <1>3, <2>4 DEF Match
  <2>5. CASE Update(p)
    BY <1>2, <1>3, <2>5 DEF Update
  <2>6. CASE Commit(p)
    BY <1>2, <1>3, <2>6 DEF Commit
  <2>7. CASE Fail(p)
    BY <1>2, <1>3, <2>7 DEF Fail
  <2> QED BY <1>3, <2>1, <2>2, <2>3, <2>4, <2>5, <2>6, <2>7 DEF Step, LinkStep
<1>4. ASSUME p \in Deleters
      PROVE  /\ pc'[l] = pc[l] /\ tx'[l] = tx[l] /\ at'[l] = at[l] /\ linked'[l] = linked[l]
             /\ lock' = lock
  BY <1>4 DEF Step, DeleteStep, DeleteEmbedding, ReadEntities, DetachDelete, MatchOrphans, DeleteOrphans
<1>5. Key(l)' = Key(l)
  BY <1>1, <1>3, <1>4 DEF Key, Name
<1> QED BY <1>1, <1>3, <1>4, <1>5

LEMMA LockHeldNext ==
    ASSUME Typed, LockHeld, NEW p \in Processes, Step(p)
    PROVE  LockHeld'
<1> SUFFICES ASSUME NEW l \in Linkers, pc'[l] \in InTx PROVE lock'[Key(l)'] = l
  BY DEF LockHeld
<1>1. CASE l # p
  BY <1>1, OthersKeep, KeyTyped DEF LockHeld, InTx
<1>2. CASE l = p
  <2> USE DEF Typed, TypeOK, Processes, Goto, InTx
  <2>1. /\ Key(l)' = Key(l)
        /\ \/ Lock(l)
           \/ pc[l] \in {"match", "update"} /\ lock' = lock
    BY <1>2 DEF Step, LinkStep, NextName, BeginTx, Lock, Match, Update, Commit, Fail, Key, Name
  <2>2. ASSUME Lock(l) PROVE lock'[Key(l)] = l
    BY <2>2, KeyTyped DEF Lock
  <2> QED BY <2>1, <2>2 DEF LockHeld
<1> QED BY <1>1, <1>2

LEMMA TxOfNameNext ==
    ASSUME Typed, TxOfName, NEW p \in Processes, Step(p)
    PROVE  TxOfName'
<1>1. live' \subseteq live
  BY DEF Step, LinkStep, DeleteStep, NextName, BeginTx, Lock, Match, Update, Commit, Fail,
         DeleteEmbedding, ReadEntities, DetachDelete, MatchOrphans, DeleteOrphans
<1> SUFFICES ASSUME NEW l \in Linkers
             PROVE  /\ pc'[l] = "update" => tx'[l] # None
                    /\ pc'[l] = "commit" /\ tx'[l] = None => mem'[l] \notin live'
                    /\ tx'[l] # None => pc'[l] \in {"update", "commit"} /\ tx'[l].key = Key(l)'
  BY DEF TxOfName
<1>2. CASE l # p
  BY <1>1, <1>2, OthersKeep DEF TxOfName
<1>3. CASE l = p
  <2> USE DEF Typed, TypeOK, Processes, Goto
  <2>1. ASSUME Release(l) PROVE tx'[l] = None
    BY <2>1 DEF Release
  <2>2. CASE NextName(l)
    BY <1>3, <2>2 DEF NextName, TxOfName
  <2>3. CASE BeginTx(l) \/ Lock(l)
    BY <1>3, <2>3 DEF BeginTx, Lock, TxOfName
  <2>4. CASE Match(l)
    <3>1. pc[l] = "match" /\ tx[l] = None /\ Key(l)' = Key(l) /\ mem' = mem /\ live' = live
      BY <2>4 DEF Match, TxOfName, Key, Name
    <3>2. CASE mem[l] \notin live
      BY <2>4, <3>1, <3>2 DEF Match
    <3>3. CASE mem[l] \in live /\ Committed(Key(l)) # {}
      <4>1. PICK e \in Committed(Key(l)) : tx' = [tx EXCEPT ![l] = e]
        BY <2>4, <3>3 DEF Match
      <4>2. e \in Entities /\ e.key = Key(l) /\ e # None
        BY DEF Committed, Entities, Keys
      <4> QED BY <2>4, <3>1, <3>3, <4>1, <4>2 DEF Match
    <3>4. CASE mem[l] \in live /\ Committed(Key(l)) = {}
      <4>1. PICK v \in Vertices : tx' = [tx EXCEPT ![l] = [vid |-> v, key |-> Key(l), version |-> 0]]
        BY <2>4, <3>4 DEF Match
      <4>2. [vid |-> v, key |-> Key(l), version |-> 0] \in Entities
        BY <3>1, KeyTyped DEF Entities
      <4>3. tx'[l] # None /\ tx'[l].key = Key(l)
        BY <4>1, <4>2 DEF Entities, Keys
      <4> QED BY <2>4, <3>1, <3>4, <4>3 DEF Match
    <3> QED BY <3>2, <3>3, <3>4
  <2>5. CASE Update(l)
    <3>1. CASE tx[l] \in entity
      BY <1>3, <2>5, <3>1 DEF Update, TxOfName, Key, Name
    <3>2. CASE tx[l] \notin entity
      BY <1>3, <2>1, <2>5, <3>2 DEF Update
    <3> QED BY <3>1, <3>2
  <2>6. CASE Commit(l) \/ Fail(l)
    BY <1>3, <2>1, <2>6 DEF Commit, Fail
  <2> QED BY <1>3, <2>2, <2>3, <2>4, <2>5, <2>6 DEF Step, LinkStep
<1> QED BY <1>2, <1>3

\* What a step may do to the committed graph.
Writes(p) ==
    /\ p \in Linkers /\ pc[p] = "commit" /\ tx[p] # None
    /\ entity' = {e \in entity : e.vid # tx[p].vid} \cup {Newer(tx[p])}
    /\ mention' = mention \cup {<<mem[p], tx[p].vid>>}
    /\ UNCHANGED <<live, snap>>
    /\ tx'[p] = None /\ pc'[p] \in {"next", "failed"}
Detaches(p) ==
    /\ p \in Deleters /\ pc[p] = "detach"
    /\ live' = live \ {mem[p]}
    /\ mention' = {x \in mention : x[1] # mem[p]}
    /\ pc'[p] \in {"done", "orphans"} /\ UNCHANGED <<entity, snap>>
Cleans(p) ==
    /\ p \in Deleters /\ pc[p] = "clean" /\ pc'[p] = "done"
    /\ \A e \in snap[p] : e.vid \notin Pending
    /\ entity' = entity \ snap[p] /\ snap[p] \subseteq entity
    /\ UNCHANGED <<mention, live, snap>>

LEMMA StoreStep ==
    ASSUME Typed, NEW p \in Processes, Step(p)
    PROVE  Writes(p) \/ Detaches(p) \/ Cleans(p) \/ UNCHANGED <<entity, mention, live>>
<1> USE DEF Typed, TypeOK, Processes, Goto
<1>1. ASSUME p \in Linkers, Apply(p), Release(p), pc[p] = "commit",
             pc'[p] \in {"next", "failed"}, UNCHANGED <<live, snap>>
      PROVE  Writes(p) \/ UNCHANGED <<entity, mention, live>>
  <2>1. tx'[p] = None
    BY <1>1 DEF Release
  <2> QED BY <1>1, <2>1 DEF Apply, Writes
<1>2. CASE p \in Linkers /\ Commit(p)
  <2>1. pc'[p] = "next"
    BY <1>2 DEF Commit
  <2> QED BY <1>1, <1>2, <2>1 DEF Commit
<1>3. CASE p \in Linkers /\ Fail(p)
  <2>1. pc'[p] = "failed"
    BY <1>3 DEF Fail
  <2> QED BY <1>1, <1>3, <2>1 DEF Fail
<1>4. CASE p \in Linkers /\ LinkStep(p) /\ ~Commit(p)
  BY <1>4 DEF LinkStep, NextName, BeginTx, Lock, Match, Update
<1>5. CASE p \in Deleters /\ DetachDelete(p)
  BY <1>5 DEF DetachDelete, Detaches
<1>6. CASE p \in Deleters /\ DeleteOrphans(p)
  BY <1>6 DEF DeleteOrphans, Cleans
<1>7. CASE p \in Deleters /\ (DeleteEmbedding(p) \/ ReadEntities(p) \/ MatchOrphans(p))
  BY <1>7 DEF DeleteEmbedding, ReadEntities, MatchOrphans
<1> QED BY <1>2, <1>3, <1>4, <1>5, <1>6, <1>7 DEF Step, DeleteStep

\* Two transactions that are to commit a vertex of one name are one: the lock.
LEMMA CommitsApart ==
    ASSUME Typed, LockHeld, TxOfName, NEW l \in Linkers, NEW k \in Linkers,
           pc[l] = "commit", pc[k] = "commit", tx[l] # None, tx[k] # None,
           tx[l].key = tx[k].key
    PROVE  l = k
BY DEF LockHeld, TxOfName, InTx

LEMMA TxTyped == ASSUME Typed, NEW l \in Linkers, tx[l] # None PROVE tx[l] \in Entities
BY DEF Typed, TypeOK

\* How a transaction comes to its commit.
LEMMA ReadyToCommit ==
    ASSUME Typed, TxOfName, NEW p \in Processes, Step(p), NEW l \in Linkers,
           pc'[l] = "commit", tx'[l] # None
    PROVE  \/ pc[l] = "commit" /\ tx'[l] = tx[l] /\ l # p
           \/ /\ l = p /\ tx'[l] = tx[l] /\ tx[l] \in entity /\ pc[l] = "update"
              /\ UNCHANGED <<entity, mention, used, snap>>
           \/ /\ l = p /\ pc[l] = "match" /\ Committed(Key(l)) = {} /\ tx'[l].key = Key(l)
              /\ tx'[l].vid \notin used /\ used' = used \cup {tx'[l].vid}
              /\ UNCHANGED <<entity, mention, snap>>
<1>1. CASE l # p
  BY <1>1, OthersKeep
<1>2. CASE l = p
  <2> USE DEF Typed, TypeOK, Processes, Goto
  <2>1. pc'[l] \in {"next", "begin", "lock", "match", "update", "done", "failed"}
          \/ Match(l) \/ (Update(l) /\ tx[l] \in entity)
    BY <1>2 DEF Step, LinkStep, NextName, BeginTx, Lock, Update, Commit, Fail
  <2>2. CASE Match(l)
    <3>1. tx[l] = None /\ pc[l] = "match"
      BY <2>2 DEF Match, TxOfName
    <3>2. PICK v \in Vertices \ used :
             /\ tx' = [tx EXCEPT ![l] = [vid |-> v, key |-> Key(l), version |-> 0]]
             /\ used' = used \cup {v} /\ Committed(Key(l)) = {}
      BY <2>2, <3>1 DEF Match
    <3>3. tx'[l] = [vid |-> v, key |-> Key(l), version |-> 0]
      BY <3>2
    <3> QED BY <1>2, <2>2, <3>1, <3>2, <3>3 DEF Match
  <2>3. CASE Update(l) /\ tx[l] \in entity
    BY <1>2, <2>3 DEF Update
  <2> QED BY <2>1, <2>2, <2>3
<1> QED BY <1>1, <1>2

LEMMA NameNext ==
    ASSUME NameInv, NEW p \in Processes, Step(p)
    PROVE  Single' /\ OneVertexPerName'
<1> USE DEF NameInv
<1>1. ASSUME NEW l \in Linkers, pc'[l] = "commit", tx'[l] # None,
             NEW e \in entity', e.key = tx'[l].key
      PROVE  e.vid = tx'[l].vid
  <2>1. CASE pc[l] = "commit" /\ tx'[l] = tx[l] /\ l # p
    <3>1. CASE Writes(p)
      <4>1. Newer(tx[p]).key = tx[p].key
        BY <3>1, TxTyped, NewerIs DEF Writes
      <4>2. e # Newer(tx[p])
        BY <1>1, <2>1, <3>1, <4>1, CommitsApart DEF Writes
      <4> QED BY <1>1, <2>1, <3>1, <4>2 DEF Writes, Single
    <3>2. CASE ~Writes(p)
      <4>1. e \in entity
        BY <1>1, <3>2, StoreStep DEF Detaches, Cleans
      <4> QED BY <1>1, <2>1, <4>1 DEF Single
    <3> QED BY <3>1, <3>2
  <2>2. CASE tx'[l] = tx[l] /\ tx[l] \in entity /\ UNCHANGED entity
    BY <1>1, <2>2 DEF OneVertexPerName
  <2>3. CASE Committed(Key(l)) = {} /\ tx'[l].key = Key(l) /\ UNCHANGED entity
    BY <1>1, <2>3 DEF Committed
  <2> QED BY <1>1, <2>1, <2>2, <2>3, ReadyToCommit
<1>2. Single'
  BY <1>1 DEF Single
<1>3. ASSUME NEW e \in entity', NEW f \in entity', e.key = f.key PROVE e = f
  <2>1. CASE Writes(p)
    <3>1. Newer(tx[p]).key = tx[p].key
      BY <2>1, TxTyped, NewerIs DEF Writes
    <3>2. \A g \in entity : g.key = tx[p].key => g.vid = tx[p].vid
      BY <2>1 DEF Writes, Single
    <3> QED BY <1>3, <2>1, <3>1, <3>2 DEF Writes, OneVertexPerName
  <2>2. CASE ~Writes(p)
    BY <1>3, <2>2, StoreStep DEF Detaches, Cleans, OneVertexPerName
  <2> QED BY <2>1, <2>2
<1> QED BY <1>2, <1>3 DEF OneVertexPerName

LEMMA NameInvInit == Init => NameInv
<1> SUFFICES ASSUME Init PROVE NameInv
  OBVIOUS
<1>1. \A l \in Linkers : pc[l] = "next" /\ tx[l] = None
  BY DEF Init, Processes
<1>2. entity = {}
  BY DEF Init
<1> QED BY <1>1, <1>2, TypedInit DEF NameInv, LockHeld, InTx, TxOfName, Single, OneVertexPerName

LEMMA NameInvNext == NameInv /\ [Next]_vars => NameInv'
<1>1. CASE UNCHANGED vars
  BY <1>1 DEF vars, NameInv, Typed, TypeOK, LockHeld, TxOfName, Single, OneVertexPerName, Key, Name
<1>2. ASSUME NameInv, NEW p \in Processes, Step(p) PROVE LockHeld' /\ TxOfName' /\ Single' /\ OneVertexPerName'
  BY <1>2, LockHeldNext, TxOfNameNext, NameNext DEF NameInv
<1> QED BY <1>1, <1>2, TypedNext, NextIsStep DEF NameInv

LEMMA NameInvAlways == Spec => []NameInv
BY NameInvInit, NameInvNext, PTL DEF Spec

\* Types, over any number of calls, names and connections.
THEOREM TypeCorrect == Spec => []TypeOK
<1>1. NameInv => TypeOK
  BY DEF NameInv, Typed
<1> QED BY <1>1, NameInvAlways, PTL

\* The advisory lock of linkOneEntity keeps MERGE from creating a second vertex
\* for a name of a project.
THEOREM NamesUnique == Spec => []OneVertexPerName
<1>1. NameInv => OneVertexPerName
  BY DEF NameInv
<1> QED BY <1>1, NameInvAlways, PTL

-----------------------------------------------------------------------------
(* Links stay *)

UniqueVids == \A e, f \in entity : e.vid = f.vid => e = f

VidsUsed ==
    /\ \A e \in entity : e.vid \in used
    /\ \A l \in Linkers : tx[l] # None => tx[l].vid \in used
    /\ \A d \in Deleters : \A e \in snap[d] : e.vid \in used

\* A vertex a transaction created, which nobody else has seen.
Fresh(l) ==
    /\ \A e \in entity : e.vid # tx[l].vid
    /\ \A d \in Deleters : \A e \in snap[d] : e.vid # tx[l].vid
    /\ \A k \in Linkers \ {l} : tx[k] # None => tx[k].vid # tx[l].vid

\* What a transaction is about to commit is new, or still as it matched it.
TxCurrent ==
    \A l \in Linkers : pc[l] = "commit" /\ tx[l] # None => tx[l] \in entity \/ Fresh(l)

\* A clean-up has read no version that is yet to come, ...
SnapOld ==
    \A d \in Deleters : \A e \in snap[d] : \A f \in entity :
        e.vid = f.vid => e.version <= f.version

\* ... and what it is about to delete is changed since or still an orphan.
OrphansStay ==
    \A d \in Deleters : pc[d] = "clean" =>
        \A e \in snap[d] : e \in entity => e.vid \notin Mentioned

LinkInv ==
    NameInv /\ UniqueVids /\ VidsUsed /\ TxCurrent /\ SnapOld /\ OrphansStay /\ LinksKept

LEMMA SnapStep ==
    ASSUME Typed, NEW p \in Processes, Step(p), NEW d \in Deleters
    PROVE  \/ snap'[d] = snap[d] /\ (pc'[d] = "clean" => pc[d] = "clean")
           \/ /\ d = p /\ UNCHANGED <<entity, mention, live>> /\ snap'[d] \subseteq entity
              /\ pc'[d] = "clean" => \A e \in snap'[d] : e.vid \notin Mentioned
<1> USE DEF Typed, TypeOK, Processes, Goto
<1>1. CASE p \in Linkers
  <2>1. snap' = snap
    BY <1>1 DEF Step, LinkStep, NextName, BeginTx, Lock, Match, Update, Commit, Fail
  <2>2. pc'[d] = pc[d]
    BY <1>1 DEF Step, LinkStep, NextName, BeginTx, Lock, Match, Update, Commit, Fail
  <2> QED BY <2>1, <2>2
<1>2. CASE p \in Deleters
  <2>1. CASE DeleteEmbedding(p)
    BY <1>2, <2>1 DEF DeleteEmbedding
  <2>2. CASE ReadEntities(p)
    <3>1. snap' = [snap EXCEPT ![p] = EntitiesOf(mem[p])] \/ snap' = snap
      BY <2>2 DEF ReadEntities
    <3>2. EntitiesOf(mem[p]) \subseteq entity
      BY DEF EntitiesOf
    <3> QED BY <1>2, <2>2, <3>1, <3>2 DEF ReadEntities
  <2>3. CASE DetachDelete(p)
    BY <1>2, <2>3 DEF DetachDelete
  <2>4. CASE MatchOrphans(p)
    <3>1. snap' = [snap EXCEPT ![p] =
            {e \in entity : e.vid \notin Mentioned /\ \E s \in @ : s.key.name = e.key.name}]
      BY <2>4 DEF MatchOrphans
    <3>2. d # p => snap'[d] = snap[d]
      BY <3>1
    <3>3. \A e \in snap'[p] : e \in entity /\ e.vid \notin Mentioned
      BY <1>2, <3>1
    <3> QED BY <1>2, <2>4, <3>2, <3>3 DEF MatchOrphans
  <2>5. CASE DeleteOrphans(p)
    BY <1>2, <2>5 DEF DeleteOrphans
  <2> QED BY <1>2, <2>1, <2>2, <2>3, <2>4, <2>5 DEF Step, DeleteStep
<1> QED BY <1>1, <1>2

\* Where what a transaction has comes from.
LEMMA TxStep ==
    ASSUME Typed, NEW p \in Processes, Step(p), NEW l \in Linkers, tx'[l] # None
    PROVE  \/ tx'[l] = tx[l]
           \/ tx'[l] \in entity /\ pc'[l] = "update" /\ UNCHANGED <<entity, snap, used>>
           \/ /\ tx'[l].vid \notin used /\ used' = used \cup {tx'[l].vid}
              /\ UNCHANGED <<entity, snap>>
<1>1. CASE l # p
  BY <1>1, OthersKeep
<1>2. CASE l = p
  <2> USE DEF Typed, TypeOK, Processes, Goto
  <2>1. tx'[l] = tx[l] \/ tx'[l] = None \/ Match(l)
    BY <1>2 DEF Step, LinkStep, NextName, BeginTx, Lock, Update, Commit, Fail, Release
  <2>2. CASE Match(l)
    <3>1. CASE UNCHANGED tx
      BY <3>1
    <3>2. ASSUME NEW e \in Committed(Key(l)), tx' = [tx EXCEPT ![l] = e], Goto(l, "update"), UNCHANGED used
          PROVE  tx'[l] \in entity /\ pc'[l] = "update" /\ UNCHANGED <<entity, snap, used>>
      BY <2>2, <3>2 DEF Match, Committed
    <3>3. ASSUME NEW v \in Vertices \ used, used' = used \cup {v},
                 tx' = [tx EXCEPT ![l] = [vid |-> v, key |-> Key(l), version |-> 0]]
          PROVE  tx'[l].vid \notin used /\ used' = used \cup {tx'[l].vid} /\ UNCHANGED <<entity, snap>>
      <4>1. tx'[l] = [vid |-> v, key |-> Key(l), version |-> 0]
        BY <3>3
      <4> QED BY <2>2, <3>3, <4>1 DEF Match
    <3> QED BY <2>2, <3>1, <3>2, <3>3 DEF Match
  <2> QED BY <2>1, <2>2
<1> QED BY <1>1, <1>2

LEMMA UsedGrows == ASSUME NEW p \in Processes, Step(p) PROVE used \subseteq used'
BY DEF Step, LinkStep, DeleteStep, NextName, BeginTx, Lock, Match, Update, Commit, Fail,
       DeleteEmbedding, ReadEntities, DetachDelete, MatchOrphans, DeleteOrphans

\* A transaction that writes replaces the one version there is of its vertex, or
\* adds a vertex nobody has.
LEMMA WritesIs ==
    ASSUME LinkInv, NEW p \in Processes, Writes(p)
    PROVE  /\ p \in Linkers /\ tx[p] \in Entities /\ Newer(tx[p]) \in entity'
           /\ Newer(tx[p]).vid = tx[p].vid /\ Newer(tx[p]).key = tx[p].key
           /\ tx[p].key = Key(p)
           /\ \A e \in entity : e.vid = tx[p].vid => e = tx[p]
           /\ \A e \in entity' : e = Newer(tx[p]) \/ (e \in entity /\ e.vid # tx[p].vid)
           /\ \A d \in Deleters : \A e \in snap[d] :
                 e.vid = tx[p].vid => e.version <= tx[p].version
<1>1. Typed /\ TxOfName /\ p \in Linkers /\ pc[p] = "commit" /\ tx[p] # None
  BY DEF LinkInv, NameInv, Writes
<1>2. tx[p] \in Entities /\ Newer(tx[p]).vid = tx[p].vid /\ Newer(tx[p]).key = tx[p].key
  BY <1>1, TxTyped, NewerIs
<1>3. tx[p] \in entity \/ Fresh(p)
  BY <1>1 DEF LinkInv, TxCurrent
<1>4. \A e \in entity : e.vid = tx[p].vid => e = tx[p]
  BY <1>3 DEF LinkInv, UniqueVids, Fresh
<1>5. \A d \in Deleters : \A e \in snap[d] : e.vid = tx[p].vid => e.version <= tx[p].version
  BY <1>3 DEF LinkInv, SnapOld, Fresh
<1>6. tx[p].key = Key(p)
  BY <1>1 DEF TxOfName
<1> QED BY <1>1, <1>2, <1>4, <1>5, <1>6 DEF Writes

\* The committed vertices only change by a step that is one of these.
LEMMA EntityStep ==
    ASSUME LinkInv, NEW p \in Processes, Step(p)
    PROVE  Writes(p) \/ (entity' \subseteq entity /\ mention' \subseteq mention)
<1>1. Typed
  BY DEF LinkInv, NameInv
<1> QED BY <1>1, StoreStep DEF Detaches, Cleans

LEMMA VidsNext ==
    ASSUME LinkInv, NEW p \in Processes, Step(p)
    PROVE  UniqueVids' /\ VidsUsed' /\ SnapOld'
<1>1. Typed /\ UniqueVids /\ VidsUsed /\ SnapOld /\ used \subseteq used'
  BY UsedGrows DEF LinkInv, NameInv
<1>2. UniqueVids'
  BY <1>1, EntityStep, WritesIs DEF UniqueVids
<1>3. \A e \in entity' : e.vid \in used'
  BY <1>1, EntityStep, WritesIs DEF VidsUsed, Writes
<1>4. ASSUME NEW l \in Linkers, tx'[l] # None PROVE tx'[l].vid \in used'
  BY <1>1, <1>4, TxStep DEF VidsUsed
<1>5. ASSUME NEW d \in Deleters, NEW e \in snap'[d] PROVE e.vid \in used'
  BY <1>1, <1>5, SnapStep DEF VidsUsed
<1>6. ASSUME NEW d \in Deleters, NEW e \in snap'[d], NEW f \in entity', e.vid = f.vid
      PROVE  e.version <= f.version
  <2>1. CASE Writes(p)
    <3>1. e \in snap[d]
      BY <1>6, <2>1 DEF Writes
    <3>2. CASE f = Newer(tx[p])
      <4>1. e.version <= tx[p].version /\ f.version = tx[p].version + 1 /\ tx[p].version \in Nat
        BY <1>6, <2>1, <3>1, <3>2, WritesIs, NewerIs
      <4>2. e.version \in Nat
        BY <1>1, <3>1 DEF Typed, TypeOK, Entities
      <4> QED BY <4>1, <4>2
    <3> QED BY <1>1, <1>6, <2>1, <3>1, <3>2, WritesIs DEF SnapOld
  <2>2. CASE ~Writes(p)
    <3>1. f \in entity
      BY <1>6, <2>2, EntityStep
    <3>2. e \in snap[d] \/ e \in entity
      BY <1>1, <1>6, SnapStep
    <3>3. f.version \in Nat
      BY <1>1, <3>1 DEF Typed, TypeOK, Entities
    <3> QED BY <1>1, <1>6, <3>1, <3>2, <3>3 DEF SnapOld, UniqueVids
  <2> QED BY <2>1, <2>2
<1> QED BY <1>2, <1>3, <1>4, <1>5, <1>6 DEF VidsUsed, SnapOld

\* While a transaction is about to commit, another neither writes its vertex nor
\* cleans it up.
LEMMA TxCurrentNext ==
    ASSUME LinkInv, NEW p \in Processes, Step(p)
    PROVE  TxCurrent'
<1>1. Typed /\ LockHeld /\ TxOfName /\ UniqueVids /\ VidsUsed /\ TxCurrent
  BY DEF LinkInv, NameInv
<1> SUFFICES ASSUME NEW l \in Linkers, pc'[l] = "commit", tx'[l] # None
             PROVE  tx'[l] \in entity' \/ Fresh(l)'
  BY DEF TxCurrent
<1>2. CASE pc[l] = "commit" /\ tx'[l] = tx[l] /\ l # p
  <2>1. Writes(p) => tx[p].vid # tx[l].vid
    <3> SUFFICES ASSUME Writes(p), tx[p].vid = tx[l].vid PROVE FALSE
      OBVIOUS
    <3>1. pc[p] = "commit" /\ tx[p] # None /\ p \in Linkers
      BY DEF Writes
    <3>2. tx[l] \in entity
      BY <1>1, <1>2, <3>1 DEF TxCurrent, Fresh
    <3>3. tx[p] = tx[l]
      BY <3>2, WritesIs
    <3> QED BY <1>1, <1>2, <3>1, <3>3, CommitsApart
  <2>2. CASE tx[l] \in entity
    <3>1. Cleans(p) => tx[l] \notin snap[p]
      BY <1>2 DEF Cleans, Pending
    <3>2. Writes(p) => tx[l] \in entity'
      BY <2>1, <2>2 DEF Writes
    <3>3. tx[l] \in entity'
      BY <1>1, <2>2, <3>1, <3>2, StoreStep DEF Cleans, Detaches
    <3> QED BY <1>2, <3>3
  <2>3. CASE Fresh(l) /\ tx[l] \notin entity
    <3>1. ASSUME NEW e \in entity' PROVE e.vid # tx[l].vid
      BY <2>1, <2>3, <3>1, EntityStep, WritesIs DEF Fresh
    <3>2. ASSUME NEW d \in Deleters, NEW e \in snap'[d] PROVE e.vid # tx[l].vid
      BY <1>1, <2>3, <3>2, SnapStep DEF Fresh
    <3>3. ASSUME NEW k \in Linkers \ {l}, tx'[k] # None PROVE tx'[k].vid # tx[l].vid
      <4>1. tx[l].vid \in used
        BY <1>1, <1>2 DEF VidsUsed
      <4> QED BY <1>1, <2>3, <3>3, <4>1, TxStep DEF Fresh
    <3> QED BY <1>2, <3>1, <3>2, <3>3 DEF Fresh
  <2> QED BY <1>1, <1>2, <2>2, <2>3 DEF TxCurrent
<1>3. CASE tx'[l] = tx[l] /\ tx[l] \in entity /\ UNCHANGED entity
  BY <1>3
<1>4. CASE l = p /\ tx'[l].vid \notin used /\ UNCHANGED <<entity, snap>>
  <2>1. ASSUME NEW k \in Linkers \ {l}, tx'[k] # None PROVE tx'[k].vid # tx'[l].vid
    <3>1. tx'[k] = tx[k]
      BY <1>1, <1>4, <2>1, OthersKeep
    <3> QED BY <1>1, <1>4, <2>1, <3>1 DEF VidsUsed
  <2> QED BY <1>1, <1>4, <2>1 DEF VidsUsed, Fresh
<1> QED BY <1>1, <1>2, <1>3, <1>4, ReadyToCommit

LEMMA OrphansStayNext ==
    ASSUME LinkInv, NEW p \in Processes, Step(p)
    PROVE  OrphansStay'
<1>1. Typed /\ OrphansStay
  BY DEF LinkInv, NameInv
<1> SUFFICES ASSUME NEW d \in Deleters, pc'[d] = "clean", NEW e \in snap'[d], e \in entity'
             PROVE  e.vid \notin Mentioned'
  BY DEF OrphansStay
<1>2. CASE snap'[d] = snap[d] /\ pc[d] = "clean"
  <2>1. CASE Writes(p)
    <3>1. e # Newer(tx[p])
      <4> SUFFICES ASSUME e = Newer(tx[p]) PROVE FALSE
        OBVIOUS
      <4>1. e.vid = tx[p].vid /\ e.version = tx[p].version + 1 /\ tx[p].version \in Nat
        BY <2>1, WritesIs, NewerIs
      <4>2. e.version <= tx[p].version
        BY <1>2, <2>1, <4>1, WritesIs
      <4> QED BY <4>1, <4>2
    <3>2. e \in entity /\ e.vid # tx[p].vid
      BY <2>1, <3>1, WritesIs
    <3> QED BY <1>1, <1>2, <2>1, <3>2 DEF OrphansStay, Mentioned, Writes
  <2>2. CASE ~Writes(p)
    BY <1>1, <1>2, <2>2, EntityStep DEF OrphansStay, Mentioned
  <2> QED BY <2>1, <2>2
<1>3. CASE UNCHANGED mention /\ e.vid \notin Mentioned
  BY <1>3 DEF Mentioned
<1> QED BY <1>1, <1>2, <1>3, SnapStep

\* A name is counted by the commit that writes its link, or that found the
\* memory gone.
LEMMA LinkedStep ==
    ASSUME Typed, NEW p \in Processes, Step(p), NEW l \in Linkers, NEW n \in linked'[l]
    PROVE  \/ n \in linked[l]
           \/ l = p /\ pc[l] = "commit" /\ n = Name(l) /\ (tx[l] = None \/ Writes(l))
<1>1. CASE l # p
  BY <1>1, OthersKeep
<1>2. CASE l = p
  <2> USE DEF Typed, TypeOK, Processes, Goto
  <2>1. linked' = linked \/ Commit(l)
    BY <1>2 DEF Step, LinkStep, NextName, BeginTx, Lock, Match, Update, Fail
  <2>2. CASE Commit(l)
    <3>1. pc[l] = "commit" /\ n \in linked[l] \cup {Name(l)}
      BY <2>2 DEF Commit
    <3>2. tx[l] # None => Writes(l)
      BY <2>2 DEF Commit, Apply, Release, Writes
    <3> QED BY <1>2, <3>1, <3>2
  <2> QED BY <2>1, <2>2
<1> QED BY <1>1, <1>2

LEMMA MemoriesStep ==
    ASSUME NEW p \in Processes, Step(p)
    PROVE  mem' = mem /\ live' \subseteq live
BY DEF Step, LinkStep, DeleteStep, NextName, BeginTx, Lock, Match, Update, Commit, Fail,
       DeleteEmbedding, ReadEntities, DetachDelete, MatchOrphans, DeleteOrphans

LEMMA LinksKeptNext ==
    ASSUME LinkInv, NEW p \in Processes, Step(p)
    PROVE  LinksKept'
<1>1. Typed /\ TxOfName /\ LinksKept /\ OrphansStay /\ mem' = mem /\ live' \subseteq live
  BY MemoriesStep DEF LinkInv, NameInv
<1> DEFINE Of(l, n) == [project |-> ProjectOf[mem[l]], name |-> n]
<1> SUFFICES ASSUME NEW l \in Linkers, NEW n \in linked'[l], mem[l] \in live'
             PROVE  \E e \in entity' : <<mem[l], e.vid>> \in mention' /\ e.key = Of(l, n)
  BY <1>1 DEF LinksKept, EntitiesOf
<1>2. CASE l = p /\ pc[l] = "commit" /\ n = Name(l) /\ (tx[l] = None \/ Writes(l))
  <2>1. Writes(l)
    BY <1>1, <1>2 DEF TxOfName
  <2>2. <<mem[l], tx[l].vid>> \in mention'
    BY <2>1 DEF Writes
  <2>3. Newer(tx[l]).key = Of(l, n)
    BY <1>2, <2>1, WritesIs DEF Key
  <2> QED BY <1>2, <2>1, <2>2, <2>3, WritesIs
<1>3. CASE n \in linked[l]
  <2>1. PICK e \in entity : <<mem[l], e.vid>> \in mention /\ e.key = Of(l, n)
    BY <1>1, <1>3 DEF LinksKept, EntitiesOf
  <2>2. CASE Writes(p)
    <3>1. CASE e.vid = tx[p].vid
      <4>1. e = tx[p]
        BY <2>2, <3>1, WritesIs
      <4>2. <<mem[l], Newer(tx[p]).vid>> \in mention' /\ Newer(tx[p]).key = Of(l, n)
        BY <2>1, <2>2, <4>1, WritesIs DEF Writes
      <4> QED BY <2>2, <4>2, WritesIs
    <3>2. CASE e.vid # tx[p].vid
      BY <2>1, <2>2, <3>2 DEF Writes
    <3> QED BY <3>1, <3>2
  <2>3. CASE Detaches(p)
    <3>1. mem[l] # mem[p]
      BY <2>3 DEF Detaches
    <3> QED BY <2>1, <2>3, <3>1 DEF Detaches
  <2>4. CASE Cleans(p)
    <3>1. e.vid \in Mentioned
      BY <2>1 DEF Mentioned
    <3>2. e \notin snap[p]
      BY <1>1, <2>4, <3>1 DEF Cleans, OrphansStay
    <3> QED BY <2>1, <2>4, <3>2 DEF Cleans
  <2> QED BY <1>1, <2>1, <2>2, <2>3, <2>4, StoreStep
<1> QED BY <1>1, <1>2, <1>3, LinkedStep

LEMMA LinkInvInit == Init => LinkInv
<1> SUFFICES ASSUME Init PROVE LinkInv
  OBVIOUS
<1>1. entity = {} /\ \A l \in Linkers : tx[l] = None /\ linked[l] = {} /\ pc[l] = "next"
  BY DEF Init, Processes
<1>2. \A d \in Deleters : snap[d] = {}
  BY DEF Init
<1> QED BY <1>1, <1>2, NameInvInit
        DEF LinkInv, UniqueVids, VidsUsed, TxCurrent, SnapOld, OrphansStay, LinksKept

LEMMA LinkInvNext == LinkInv /\ [Next]_vars => LinkInv'
<1>1. CASE UNCHANGED vars
  <2> SUFFICES ASSUME LinkInv, UNCHANGED vars PROVE LinkInv'
    BY <1>1
  <2>1. NameInv'
    BY NameInvNext DEF LinkInv
  <2>2. UniqueVids' /\ VidsUsed' /\ SnapOld'
    BY DEF LinkInv, vars, UniqueVids, VidsUsed, SnapOld
  <2>3. TxCurrent' /\ OrphansStay'
    BY DEF LinkInv, vars, TxCurrent, Fresh, OrphansStay, Mentioned
  <2>4. LinksKept'
    BY DEF LinkInv, vars, LinksKept, EntitiesOf
  <2> QED BY <2>1, <2>2, <2>3, <2>4 DEF LinkInv
<1>2. ASSUME LinkInv, NEW p \in Processes, Step(p)
      PROVE  UniqueVids' /\ VidsUsed' /\ SnapOld' /\ TxCurrent' /\ OrphansStay' /\ LinksKept'
  BY <1>2, VidsNext, TxCurrentNext, OrphansStayNext, LinksKeptNext
<1> QED BY <1>1, <1>2, NameInvNext, NextIsStep DEF LinkInv

\* What LinkEntities counted stays linked while the memory is there: the version
\* check of a row that changed turns a clean-up away, and the row lock keeps it
\* from a vertex a transaction has written and not yet committed.
THEOREM LinksStay == Spec => []LinksKept
<1>1. LinkInv => LinksKept
  BY DEF LinkInv
<1> QED BY <1>1, LinkInvInit, LinkInvNext, PTL DEF Spec
=============================================================================
