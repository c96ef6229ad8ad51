------------------------------ MODULE LinksProofs ------------------------------
(***************************************************************************)
(* That no edge outlives its memories, that what was written later is not  *)
(* superseded by what was there before it, and that auto-linking stays     *)
(* clear of the supersedes edges, for any number of writes, deletes and    *)
(* nights, and whatever fails.                                             *)
(***************************************************************************)
EXTENDS Links, TLAPS

USE LinksAssumption

LEMMA TypeInit == Init => TypeOK
BY DEF Init, TypeOK, Rows

LEMMA AssertedType ==
    ASSUME TypeOK, NEW from \in Writes, NEW rel \in Relationships, NEW to \in Writes,
           AssertEdge(from, rel, to) \/ UNCHANGED edges
    PROVE  edges' \subseteq Writes \X Relationships \X Writes
BY DEF TypeOK, AssertEdge

LEMMA TypeNext == TypeOK /\ [Next]_vars => TypeOK'
<1> SUFFICES ASSUME TypeOK, [Next]_vars PROVE TypeOK'
  OBVIOUS
<1> USE DEF Goto, writeVars, mergeVars
<1>1. ASSUME NEW w \in Writes, Begin(w) PROVE TypeOK'
  BY <1>1 DEF Begin, TypeOK
<1>2. ASSUME NEW w \in Writes, CreateMemory(w) PROVE TypeOK'
  BY <1>2 DEF CreateMemory, TypeOK
<1>3. ASSUME NEW w \in Writes, Detect(w) PROVE TypeOK'
  <2>1. \A T \in Strongest(Contradicted(w)) \cup {{}} : T \subseteq Writes
    BY DEF Strongest, Contradicted, TypeOK
  <2>2. plan' \in [Writes -> SUBSET Writes] /\ connected' \in [Writes -> SUBSET Writes]
    BY <1>3, <2>1 DEF Detect, TypeOK
  <2> QED BY <1>3, <2>2 DEF Detect, TypeOK
<1>4. ASSUME NEW w \in Writes, Supersede(w) PROVE TypeOK'
  <2>1. edges' \subseteq Writes \X Relationships \X Writes
    BY <1>4, AssertedType DEF Supersede, AssertNext, AssertFailed, TypeOK, Relationships
  <2>2. plan' \in [Writes -> SUBSET Writes]
    BY <1>4 DEF Supersede, AssertNext, AssertFailed, TypeOK
  <2>3. pc' \in [Writes -> {"start", "create", "detect", "supersede", "link", "relate", "done"}]
        /\ live' \subseteq {v \in Writes : pc'[v] \notin {"start", "create"}}
    BY <1>4 DEF Supersede, TypeOK
  <2> QED BY <1>4, <2>1, <2>2, <2>3 DEF Supersede, TypeOK
<1>5. ASSUME NEW w \in Writes, Link(w) PROVE TypeOK'
  BY <1>5 DEF Link, Linkable, TypeOK
<1>6. ASSUME NEW w \in Writes, Relate(w) PROVE TypeOK'
  <2>1. edges' \subseteq Writes \X Relationships \X Writes
    BY <1>6, AssertedType DEF Relate, AssertNext, AssertFailed, TypeOK, Relationships
  <2>2. plan' \in [Writes -> SUBSET Writes]
    BY <1>6 DEF Relate, AssertNext, AssertFailed, TypeOK
  <2>3. pc' \in [Writes -> {"start", "create", "detect", "supersede", "link", "relate", "done"}]
        /\ live' \subseteq {v \in Writes : pc'[v] \notin {"start", "create"}}
    BY <1>6 DEF Relate, TypeOK
  <2> QED BY <1>6, <2>1, <2>2, <2>3 DEF Relate, TypeOK
<1>7. ASSUME NEW w \in Writes, Delete(w) PROVE TypeOK'
  BY <1>7 DEF Delete, TypeOK
<1>8. CASE MergeRead
  <2>1. merges' \subseteq Writes \X Writes
    BY <1>8 DEF MergeRead, TypeOK
  <2> QED BY <1>8, <2>1 DEF MergeRead, TypeOK
<1>9. CASE MergeNext
  <2>1. PICK m \in merges : merges' = merges \ {m}
                            /\ (AssertEdge(m[1], "supersedes", m[2]) \/ UNCHANGED edges)
    BY <1>9 DEF MergeNext
  <2>2. m[1] \in Writes /\ m[2] \in Writes
    BY <2>1 DEF TypeOK
  <2>3. edges' \subseteq Writes \X Relationships \X Writes
    BY <2>1, <2>2, AssertedType DEF Relationships
  <2> QED BY <1>9, <2>1, <2>3 DEF MergeNext, TypeOK
<1>10. CASE UNCHANGED vars
  BY <1>10 DEF vars, TypeOK
<1> QED BY <1>1, <1>2, <1>3, <1>4, <1>5, <1>6, <1>7, <1>8, <1>9, <1>10 DEF Next

\* Every variable of the link machinery keeps its type, whatever fails.
THEOREM LinksTyped == Spec => []TypeOK
BY TypeInit, TypeNext, PTL DEF Spec

\* Assertions and deletes in any order leave no edge behind a deleted memory.
THEOREM NoDanglingEdge == Spec => []EdgesBetweenLive
<1>1. Init => EdgesBetweenLive
  BY DEF Init, EdgesBetweenLive
<1>2. TypeOK /\ EdgesBetweenLive /\ [Next]_vars => EdgesBetweenLive'
  <2> SUFFICES ASSUME TypeOK, EdgesBetweenLive, [Next]_vars PROVE EdgesBetweenLive'
    OBVIOUS
  <2>1. ASSUME NEW from, NEW rel, NEW to, AssertEdge(from, rel, to), live' = live
        PROVE  EdgesBetweenLive'
    BY <2>1 DEF AssertEdge, EdgesBetweenLive
  <2>2. ASSUME edges' = edges, live \subseteq live' PROVE EdgesBetweenLive'
    BY <2>2 DEF EdgesBetweenLive
  <2>3. ASSUME NEW w \in Writes, Supersede(w) \/ Relate(w) PROVE EdgesBetweenLive'
    BY <2>1, <2>2, <2>3 DEF Supersede, Relate, AssertNext, AssertFailed
  <2>4. CASE MergeNext
    BY <2>1, <2>2, <2>4 DEF MergeNext
  <2>5. ASSUME NEW w \in Writes, Delete(w) PROVE EdgesBetweenLive'
    BY <2>5 DEF Delete, EdgesBetweenLive, TypeOK
  <2> QED BY <2>2, <2>3, <2>4, <2>5
          DEF Next, vars, Begin, CreateMemory, Detect, Link, MergeRead
<1> QED BY <1>1, <1>2, LinksTyped, PTL DEF Spec

-------------------------------------------------------------------------------
(* What supersedes what *)

Begun(w) == pc[w] # "start"

\* A write that was not over when the other began, and a copy stamped no earlier.
NotOver(a, b) == Begun(b) /\ a \notin before[b]
NewerCopy(a, b) == Begun(b) /\ Copies(a, b) /\ row[b].created_at <= row[a].created_at

\* What a write is about to supersede began before the write is over; what the
\* merge phase has read goes by the stamps.
OrderKept ==
    /\ \A w \in Writes : \A v \in before[w] : pc[v] = "done"
    /\ \A w \in Writes : pc[w] = "supersede" => \A v \in plan[w] : NotOver(w, v)
    /\ \A m \in merges : NewerCopy(m[1], m[2])
    /\ \A a, b \in Writes : Supersedes(a, b) => NotOver(a, b) \/ NewerCopy(a, b)

OInv == TypeOK /\ OrderKept

\* What a write began with stays, and a write that is over stays over.
LEMMA WritesGoOn ==
    ASSUME TypeOK, [Next]_vars
    PROVE  /\ UNCHANGED row
           /\ \A w \in Writes : Begun(w) => Begun(w)' /\ before'[w] = before[w]
           /\ \A w \in Writes : pc[w] = "done" => pc'[w] = "done"
<1> USE DEF Goto, Begun, writeVars, mergeVars
<1>1. ASSUME NEW w \in Writes, Begin(w) \/ CreateMemory(w)
      PROVE  /\ UNCHANGED row
             /\ \A v \in Writes : Begun(v) => Begun(v)' /\ before'[v] = before[v]
             /\ \A v \in Writes : pc[v] = "done" => pc'[v] = "done"
  BY <1>1 DEF TypeOK, Begin, CreateMemory
<1>2. ASSUME NEW w \in Writes, Detect(w) \/ Supersede(w) \/ Link(w) \/ Relate(w)
      PROVE  /\ UNCHANGED row
             /\ \A v \in Writes : Begun(v) => Begun(v)' /\ before'[v] = before[v]
             /\ \A v \in Writes : pc[v] = "done" => pc'[v] = "done"
  <2>1. UNCHANGED <<row, before>> /\ pc[w] \in {"detect", "supersede", "link", "relate"}
    BY <1>2 DEF Detect, Supersede, Link, Relate
  <2>2. \E next \in {"supersede", "link", "relate", "done"} : pc' = [pc EXCEPT ![w] = next]
    BY <1>2 DEF Detect, Supersede, Link, Relate
  <2> QED BY <2>1, <2>2 DEF TypeOK
<1>3. ASSUME UNCHANGED <<pc, row, before>>
      PROVE  /\ UNCHANGED row
             /\ \A v \in Writes : Begun(v) => Begun(v)' /\ before'[v] = before[v]
             /\ \A v \in Writes : pc[v] = "done" => pc'[v] = "done"
  BY <1>3
<1> QED BY <1>1, <1>2, <1>3 DEF Next, Delete, MergeRead, MergeNext, vars

LEMMA OrderFrame ==
    ASSUME TypeOK, [Next]_vars, NEW a, NEW b \in Writes
    PROVE  (NotOver(a, b) => NotOver(a, b)') /\ (NewerCopy(a, b) => NewerCopy(a, b)')
BY WritesGoOn DEF NotOver, NewerCopy, Copies

LEMMA OrderNext == OInv /\ [Next]_vars => OInv'
<1> SUFFICES ASSUME OInv, [Next]_vars PROVE OInv'
  OBVIOUS
<1> USE DEF Goto, writeVars, mergeVars
<1>1. TypeOK /\ TypeOK'
  BY TypeNext DEF OInv
<1>2. \A w \in Writes : \A v \in before'[w] : pc'[v] = "done"
  <2>1. ASSUME NEW w \in Writes, Begin(w) PROVE \A u \in Writes : \A v \in before'[u] : pc'[v] = "done"
    <3>1. before'[w] = {v \in Writes : pc[v] = "done"} /\ \A u \in Writes \ {w} : before'[u] = before[u]
      BY <1>1, <2>1 DEF Begin, TypeOK
    <3>2. \A u \in Writes : before[u] \subseteq Writes
      BY <1>1 DEF TypeOK
    <3> QED BY <1>1, <3>1, <3>2, WritesGoOn DEF OInv, OrderKept
  <2>2. CASE UNCHANGED before
    <3>1. \A u \in Writes : before[u] \subseteq Writes
      BY <1>1 DEF TypeOK
    <3> QED BY <1>1, <2>2, <3>1, WritesGoOn DEF OInv, OrderKept
  <2> QED BY <2>1, <2>2 DEF Next, CreateMemory, Detect, Supersede, Link, Relate, Delete, MergeRead,
             MergeNext, vars
<1>3. \A w \in Writes : pc'[w] = "supersede" => \A v \in plan'[w] : NotOver(w, v)'
  <2>1. SUFFICES ASSUME NEW w \in Writes, pc'[w] = "supersede", NEW v \in plan'[w]
                 PROVE  NotOver(w, v)'
    OBVIOUS
  <2>2. v \in Writes
    BY <1>1, <2>1 DEF TypeOK
  <2>3. CASE pc[w] = "supersede" /\ v \in plan[w]
    BY <1>1, <2>2, <2>3, OrderFrame DEF OInv, OrderKept
  <2>4. CASE Detect(w)
    <3>1. v \in live
      <4>1. \A T \in Strongest(Contradicted(w)) \cup {{}} : T \subseteq live
        BY DEF Strongest, Contradicted
      <4>2. PICK T \in Strongest(Contradicted(w)) \cup {{}} : plan' = [plan EXCEPT ![w] = T]
        BY <2>4 DEF Detect
      <4>3. plan'[w] = T
        BY <1>1, <4>2 DEF TypeOK
      <4> QED BY <2>1, <4>1, <4>3
    <3>2. Begun(v) /\ pc[w] = "detect"
      BY <1>1, <2>4, <3>1 DEF Detect, Begun, TypeOK
    <3>3. NotOver(w, v)
      BY <2>2, <3>2 DEF NotOver, OInv, OrderKept
    <3> QED BY <1>1, <2>2, <3>3, OrderFrame
  <2>5. ASSUME NEW u \in Writes, \/ Begin(u) \/ CreateMemory(u) \/ Supersede(u) \/ Link(u) \/ Relate(u)
                                 \/ (u # w /\ Detect(u))
        PROVE  pc[w] = "supersede" /\ v \in plan[w]
    <3>1. CASE Begin(u) \/ CreateMemory(u) \/ Link(u) \/ (u # w /\ Detect(u))
      BY <1>1, <2>1, <3>1 DEF Begin, CreateMemory, Link, Detect, TypeOK
    <3>2. CASE Supersede(u) \/ Relate(u)
      <4>1. \A x \in Writes : plan'[x] \subseteq plan[x]
        BY <1>1, <3>2 DEF Supersede, Relate, AssertNext, AssertFailed, TypeOK
      <4>2. pc[w] = "supersede"
        BY <1>1, <2>1, <3>2 DEF Supersede, Relate, TypeOK
      <4> QED BY <2>1, <4>1, <4>2
    <3> QED BY <2>5, <3>1, <3>2
  <2> QED BY <2>1, <2>3, <2>4, <2>5 DEF Next, Delete, MergeRead, MergeNext, vars
<1>4. \A m \in merges' : NewerCopy(m[1], m[2])'
  <2>1. \A m \in merges : m[1] \in Writes /\ m[2] \in Writes
    BY <1>1 DEF TypeOK
  <2>2. CASE merges' \subseteq merges
    BY <1>1, <2>1, <2>2, OrderFrame DEF OInv, OrderKept
  <2>3. CASE MergeRead
    <3>1. SUFFICES ASSUME NEW m \in merges' PROVE NewerCopy(m[1], m[2])'
      OBVIOUS
    <3>2. PICK newest \in [live -> live] :
               /\ \A w \in live : newest[w] \in Survivors(Duplicates(w) \cup {w})
               /\ merges' = {<<newest[w], w>> : w \in {v \in live : newest[v] # v}}
      BY <2>3 DEF MergeRead
    <3>3. PICK w \in live : newest[w] # w /\ m = <<newest[w], w>>
      BY <3>1, <3>2
    <3>4. /\ w \in Writes /\ newest[w] \in Duplicates(w)
          /\ row[w].created_at <= row[newest[w]].created_at
      BY <1>1, <3>2, <3>3 DEF Survivors, TypeOK
    <3>5. NewerCopy(newest[w], w)
      BY <1>1, <3>3, <3>4 DEF NewerCopy, Begun, Copies, Duplicates, TypeOK
    <3> QED BY <1>1, <3>3, <3>4, <3>5, OrderFrame
  <2> QED BY <2>2, <2>3 DEF Next, Begin, CreateMemory, Detect, Supersede, Link, Relate, Delete, MergeNext, vars
<1>5. \A a, b \in Writes : Supersedes(a, b)' => NotOver(a, b)' \/ NewerCopy(a, b)'
  <2>1. SUFFICES ASSUME NEW a \in Writes, NEW b \in Writes, Supersedes(a, b)', ~Supersedes(a, b)
                 PROVE  NotOver(a, b) \/ NewerCopy(a, b)
    BY <1>1, OrderFrame DEF OInv, OrderKept
  <2>2. CASE Supersede(a)
    <3>1. pc[a] = "supersede" /\ b \in plan[a]
      BY <2>1, <2>2 DEF Supersede, AssertNext, AssertFailed, AssertEdge, Supersedes
    <3> QED BY <2>1, <3>1 DEF OInv, OrderKept
  <2>3. CASE MergeNext
    <3>1. PICK m \in merges : AssertEdge(m[1], "supersedes", m[2]) \/ UNCHANGED edges
      BY <2>3 DEF MergeNext
    <3>2. m[1] = a /\ m[2] = b
      BY <2>1, <3>1 DEF AssertEdge, Supersedes
    <3> QED BY <3>1, <3>2 DEF OInv, OrderKept
  <2>4. ASSUME NEW w \in Writes, Supersede(w) \/ Relate(w) PROVE w = a /\ Supersede(a)
    <3>1. CASE Supersede(w)
      <4>1. w = a
        BY <2>1, <3>1 DEF Supersede, AssertNext, AssertFailed, AssertEdge, Supersedes
      <4> QED BY <3>1, <4>1
    <3>2. CASE Relate(w)
      BY <2>1, <3>2 DEF Relate, AssertNext, AssertFailed, AssertEdge, Supersedes
    <3> QED BY <2>4, <3>1, <3>2
  <2>5. ~(edges' \subseteq edges)
    BY <2>1 DEF Supersedes
  <2> QED BY <2>2, <2>3, <2>4, <2>5
          DEF Next, Begin, CreateMemory, Detect, Link, Delete, MergeRead, vars
<1> QED BY <1>1, <1>2, <1>3, <1>4, <1>5 DEF OInv, OrderKept

LEMMA OrderInductive == Spec => []OInv
<1>1. Init => OInv
  <2> SUFFICES ASSUME Init PROVE OInv
    OBVIOUS
  <2>1. /\ merges = {} /\ edges = {}
        /\ \A w \in Writes : pc[w] = "start" /\ before[w] = {}
    BY DEF Init
  <2> QED BY <2>1, TypeInit DEF OInv, OrderKept, Supersedes
<1> QED BY <1>1, OrderNext, PTL DEF Spec

\* However writes overlap, fail and share or swap their stamps, detectAndSupersede
\* supersedes no memory whose write began when its own was over; and phaseMerge
\* only copies, by their stamps.
THEOREM LaterIsNotSuperseded == Spec => []PointsBack
<1>1. OInv => PointsBack
  BY DEF OInv, OrderKept, NotOver, NewerCopy, PointsBack
<1> QED BY <1>1, OrderInductive, PTL

-------------------------------------------------------------------------------
(* Auto-linking stays clear of the supersedes edges *)

\* What a write superseded, or is about to, it reported as connected, unless it
\* reports nothing; what it linked, or is about to, it did not report.
ReportedBefore ==
    /\ \A w \in Writes : pc[w] = "supersede" => plan[w] \subseteq connected[w]
    /\ \A a, b \in Writes : Supersedes(a, b) =>
          \/ Copies(a, b)
          \/ /\ pc[a] \in {"supersede", "link", "relate", "done"}
             /\ connected[a] = {} \/ b \in connected[a]
LinkedElsewhere ==
    /\ \A w \in Writes : pc[w] = "relate" => plan[w] \cap connected[w] = {}
    /\ \A a, b \in Writes : <<a, "relates_to", b>> \in edges =>
          pc[a] \in {"relate", "done"} /\ b \notin connected[a]

LInv == OInv /\ ReportedBefore /\ LinkedElsewhere

\* A step of w that asserts no edge.
LEMMA NothingAsserted ==
    ASSUME LInv, OInv', NEW w \in Writes, edges' \subseteq edges, UNCHANGED row,
           \A v \in Writes \ {w} :
               pc'[v] = pc[v] /\ plan'[v] = plan[v] /\ connected'[v] = connected[v],
           pc'[w] = "supersede" => plan'[w] \subseteq connected'[w],
           pc'[w] = "relate" => plan'[w] \cap connected'[w] = {},
           \A b \in Writes : Supersedes(w, b) /\ ~Copies(w, b) =>
               /\ pc'[w] \in {"supersede", "link", "relate", "done"}
               /\ connected'[w] = {} \/ b \in connected'[w],
           \A b \in Writes : <<w, "relates_to", b>> \in edges =>
               pc'[w] \in {"relate", "done"} /\ b \notin connected'[w]
    PROVE  LInv'
<1>1. ReportedBefore'
  BY DEF LInv, ReportedBefore, Supersedes, Copies
<1>2. LinkedElsewhere'
  BY DEF LInv, LinkedElsewhere
<1> QED BY <1>1, <1>2 DEF LInv

LEMMA SupersedeClear == ASSUME LInv, OInv', NEW w \in Writes, Supersede(w) PROVE LInv'
<1> USE DEF Goto
<1>1. /\ pc[w] = "supersede" /\ UNCHANGED row
      /\ plan[w] \subseteq Writes /\ plan[w] \subseteq connected[w]
      /\ \A b \in Writes : <<w, "relates_to", b>> \notin edges
      /\ pc'[w] \in {"supersede", "link"}
      /\ \A v \in Writes \ {w} :
            pc'[v] = pc[v] /\ plan'[v] = plan[v] /\ connected'[v] = connected[v]
  BY DEF Supersede, AssertNext, AssertFailed, LInv, OInv, TypeOK, ReportedBefore, LinkedElsewhere
<1>2. PICK to \in plan[w] : edges' \subseteq edges \cup {<<w, "supersedes", to>>}
  BY DEF Supersede, AssertNext, AssertFailed, AssertEdge
<1>3. /\ pc'[w] = "supersede" => plan'[w] \subseteq connected'[w]
      /\ connected'[w] = {} \/ connected'[w] = connected[w]
  <2>1. CASE AssertNext(w, "supersedes") /\ UNCHANGED connected
    BY <1>1, <2>1 DEF AssertNext, LInv, OInv, TypeOK
  <2>2. CASE AssertFailed(w, "supersedes") /\ connected' = [connected EXCEPT ![w] = {}]
    BY <1>1, <2>2 DEF AssertFailed, LInv, OInv, TypeOK
  <2> QED BY <2>1, <2>2 DEF Supersede
<1>4. ReportedBefore'
  <2>1. ASSUME NEW b \in Writes, Supersedes(w, b)'
        PROVE  Copies(w, b)' \/ connected'[w] = {} \/ b \in connected'[w]
    BY <1>1, <1>2, <1>3, <2>1 DEF LInv, ReportedBefore, Supersedes, Copies
  <2>2. ASSUME NEW a \in Writes \ {w}, NEW b \in Writes, Supersedes(a, b)' PROVE Supersedes(a, b)
    BY <1>2, <2>2 DEF Supersedes
  <2> QED BY <1>1, <1>3, <2>1, <2>2 DEF LInv, ReportedBefore, Copies
<1>5. LinkedElsewhere'
  BY <1>1, <1>2 DEF LInv, LinkedElsewhere
<1> QED BY <1>4, <1>5 DEF LInv

LEMMA RelateClear == ASSUME LInv, OInv', NEW w \in Writes, Relate(w) PROVE LInv'
<1> USE DEF Goto
<1>1. /\ pc[w] = "relate" /\ UNCHANGED <<row, connected>>
      /\ plan[w] \subseteq Writes /\ plan[w] \cap connected[w] = {}
      /\ plan'[w] \subseteq plan[w] /\ pc'[w] \in {"relate", "done"}
      /\ \A v \in Writes \ {w} : pc'[v] = pc[v] /\ plan'[v] = plan[v]
  BY DEF Relate, AssertNext, AssertFailed, LInv, OInv, TypeOK, LinkedElsewhere
<1>2. PICK to \in plan[w] : edges' \subseteq edges \cup {<<w, "relates_to", to>>}
  BY DEF Relate, AssertNext, AssertFailed, AssertEdge
<1>3. ReportedBefore'
  BY <1>1, <1>2 DEF LInv, ReportedBefore, Supersedes, Copies
<1>4. LinkedElsewhere'
  BY <1>1, <1>2 DEF LInv, LinkedElsewhere
<1> QED BY <1>3, <1>4 DEF LInv

LEMMA LinksClearNext == ASSUME LInv, [Next]_vars PROVE LInv'
<1> USE DEF Goto, writeVars, mergeVars
<1>1. TypeOK /\ OInv' /\ UNCHANGED row
  BY OrderNext, WritesGoOn DEF LInv, OInv
<1>2. ASSUME NEW w \in Writes, Begin(w) \/ CreateMemory(w) PROVE LInv'
  <2>1. /\ pc[w] \in {"start", "create"} /\ pc'[w] \in {"create", "detect"}
        /\ UNCHANGED <<plan, connected, edges>>
        /\ \A v \in Writes \ {w} : pc'[v] = pc[v]
    BY <1>1, <1>2 DEF Begin, CreateMemory, TypeOK
  <2>2. \A b \in Writes : (Supersedes(w, b) => Copies(w, b)) /\ <<w, "relates_to", b>> \notin edges
    BY <2>1 DEF LInv, ReportedBefore, LinkedElsewhere
  <2> QED BY <1>1, <2>1, <2>2, NothingAsserted
<1>3. ASSUME NEW w \in Writes, Detect(w) PROVE LInv'
  <2>1. PICK T : plan' = [plan EXCEPT ![w] = T] /\ connected' = [connected EXCEPT ![w] = T]
    BY <1>3 DEF Detect
  <2>2. /\ pc[w] = "detect" /\ pc'[w] \in {"supersede", "link"} /\ plan'[w] = connected'[w]
        /\ UNCHANGED edges
        /\ \A v \in Writes \ {w} :
              pc'[v] = pc[v] /\ plan'[v] = plan[v] /\ connected'[v] = connected[v]
    BY <1>1, <1>3, <2>1 DEF Detect, TypeOK
  <2>3. \A b \in Writes : (Supersedes(w, b) => Copies(w, b)) /\ <<w, "relates_to", b>> \notin edges
    BY <2>2 DEF LInv, ReportedBefore, LinkedElsewhere
  <2> QED BY <1>1, <2>2, <2>3, NothingAsserted
<1>4. ASSUME NEW w \in Writes, Link(w) PROVE LInv'
  <2>1. PICK T \in SUBSET Linkable(w) : plan' = [plan EXCEPT ![w] = T]
    BY <1>4 DEF Link
  <2>2. /\ pc[w] = "link" /\ pc'[w] \in {"relate", "done"} /\ plan'[w] = T
        /\ UNCHANGED <<edges, connected>>
        /\ \A v \in Writes \ {w} : pc'[v] = pc[v] /\ plan'[v] = plan[v]
    BY <1>1, <1>4, <2>1 DEF Link, TypeOK
  <2>3. plan'[w] \cap connected'[w] = {}
    BY <2>1, <2>2 DEF Linkable
  <2>4. \A b \in Writes :
          /\ <<w, "relates_to", b>> \notin edges
          /\ Supersedes(w, b) => Copies(w, b) \/ connected[w] = {} \/ b \in connected[w]
    BY <2>2 DEF LInv, ReportedBefore, LinkedElsewhere
  <2> QED BY <1>1, <2>2, <2>3, <2>4, NothingAsserted
<1>5. ASSUME NEW w \in Writes, Delete(w) PROVE LInv'
  <2>1. edges' \subseteq edges /\ UNCHANGED <<pc, plan, connected>>
    BY <1>5 DEF Delete
  <2> QED BY <1>1, <2>1 DEF LInv, ReportedBefore, LinkedElsewhere, Supersedes, Copies
<1>6. CASE MergeRead
  BY <1>1, <1>6 DEF MergeRead, LInv, ReportedBefore, LinkedElsewhere, Supersedes, Copies
<1>7. CASE MergeNext
  <2>1. PICK m \in merges : AssertEdge(m[1], "supersedes", m[2]) \/ UNCHANGED edges
    BY <1>7 DEF MergeNext
  <2>2. edges' \subseteq edges \cup {<<m[1], "supersedes", m[2]>>} /\ Copies(m[1], m[2])
    BY <2>1 DEF AssertEdge, LInv, OInv, OrderKept, NewerCopy
  <2>3. UNCHANGED <<pc, plan, connected>>
    BY <1>7 DEF MergeNext
  <2>4. ReportedBefore'
    BY <1>1, <2>2, <2>3 DEF LInv, ReportedBefore, Supersedes, Copies
  <2>5. LinkedElsewhere'
    BY <2>2, <2>3 DEF LInv, LinkedElsewhere
  <2> QED BY <1>1, <2>4, <2>5 DEF LInv
<1>8. CASE UNCHANGED vars
  BY <1>1, <1>8 DEF vars, LInv, ReportedBefore, LinkedElsewhere, Supersedes, Copies
<1> QED BY <1>1, <1>2, <1>3, <1>4, <1>5, <1>6, <1>7, <1>8, SupersedeClear, RelateClear DEF Next

\* autoLinkByTags adds no generic edge over a supersedes edge, unless CreateEdges
\* failed and its write reported nothing, or the merge phase found a copy: for any
\* number of concurrent writes and deletes, any caps, and whatever fails.
THEOREM LinksElsewhere == Spec => []RelatesOnlyElsewhere
<1>1. Init => LInv
  <2> SUFFICES ASSUME Init PROVE LInv
    OBVIOUS
  <2>1. merges = {} /\ edges = {} /\ \A w \in Writes : pc[w] = "start" /\ before[w] = {}
    BY DEF Init
  <2> QED BY <2>1, TypeInit DEF LInv, OInv, OrderKept, ReportedBefore, LinkedElsewhere, Supersedes
<1>2. LInv /\ [Next]_vars => LInv'
  BY LinksClearNext
<1>3. LInv => RelatesOnlyElsewhere
  BY DEF LInv, ReportedBefore, LinkedElsewhere, RelatesOnlyElsewhere
<1> QED BY <1>1, <1>2, <1>3, PTL DEF Spec
===============================================================================
