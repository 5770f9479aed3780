-------------------------- MODULE TagFilterProofs ---------------------------
(***************************************************************************)
(* For any number of lookups, writers, tags and nodes: no lookup of the    *)
(* tag filter compares a string that a writer frees, the list is what was  *)
(* configured whenever nobody holds the port lock, and a lookup returns a  *)
(* level its tag had while it ran.                                         *)
(***************************************************************************)
EXTENDS TagFilter, FiniteSetTheorems, TLAPS

Inv == TypeOK /\ FilterInv /\ NoUseAfterFree

-----------------------------------------------------------------------------
\* The sets the counters count are finite.
LEMMA WithinFinite ==
    ASSUME NEW n PROVE IsFiniteSet(Within(n)) /\ Cardinality(Within(n)) \in Nat
  <1>1. Within(n) \in SUBSET Reader
    BY DEF Within
  <1>2. IsFiniteSet(Within(n))
    BY <1>1, FS_Subset, TagFilterAssumption
  <1>3. QED
    BY <1>2, FS_CardinalityType

LEMMA ActiveFinite ==
    IsFiniteSet(ActiveNodes) /\ Cardinality(ActiveNodes) \in Nat
  <1>1. IsFiniteSet(Node)
    BY FS_Interval, TagFilterAssumption DEF Node
  <1>2. ActiveNodes \in SUBSET Node
    BY DEF ActiveNodes
  <1>3. IsFiniteSet(ActiveNodes)
    BY <1>1, <1>2, FS_Subset
  <1>4. QED
    BY <1>3, FS_CardinalityType

LEMMA ConfiguredType ==
    ASSUME NEW c PROVE Configured(c) \in Nat
  <1> DEFINE S == {g \in Tag : c[g] # Unset}
  <1>1. S \in SUBSET Tag
    OBVIOUS
  <1>2. IsFiniteSet(S)
    BY <1>1, FS_Subset, TagFilterAssumption
  <1>3. QED
    BY <1>2, FS_CardinalityType DEF Configured

-----------------------------------------------------------------------------
(***************************************************************************)
(* What the two kinds of thread leave alone.                               *)
(***************************************************************************)
LEMMA LookupFrame ==
    ASSUME TypeOK, NEW r \in Reader,
           LookupStep(r) \/ \E g \in Tag : BeginLookup(r, g)
    PROVE  /\ UNCHANGED <<portLock, linked, head, tag, level, active, count, default, writing,
                          config, peak>>
           /\ \A q \in Reader \ {r} :
                 rpc'[q] = rpc[q] /\ rnode'[q] = rnode[q] /\ held'[q] = held[q]
  <1>1. /\ rpc \in [Reader -> ReaderPC]
        /\ rnode \in [Reader -> Node \cup {NULL}] /\ held \in [Reader -> Tag \cup {Freed}]
    BY DEF TypeOK
  <1>2. CASE \E g \in Tag : BeginLookup(r, g)
    BY <1>1, <1>2 DEF BeginLookup, GotoR, store, writing
  <1>3. CASE LoadCount(r) \/ LoadHead(r) \/ EndOfList(r) \/ SkipInactive(r) \/ SeeActive(r)
    BY <1>1, <1>3 DEF LoadCount, LoadHead, EndOfList, SkipInactive, SeeActive, GotoR, store,
       writing, history
  <1>4. CASE EnterNode(r) \/ LeaveNode(r)
    BY <1>1, <1>4 DEF EnterNode, LeaveNode, GotoR, writing, history
  <1>5. CASE RecheckActive(r) \/ RecheckInactive(r) \/ Compare(r) \/ LoadLevel(r)
    BY <1>1, <1>5 DEF RecheckActive, RecheckInactive, Compare, LoadLevel, GotoR, store, writing,
       history
  <1>6. CASE LoadDefault(r) \/ EndLookup(r)
    BY <1>1, <1>6 DEF LoadDefault, EndLookup, GotoR, store, writing, history
  <1>7. QED
    BY <1>2, <1>3, <1>4, <1>5, <1>6 DEF LookupStep

LEMMA WriterFrame ==
    ASSUME TypeOK, NEW w \in Writer, BeginWriter(w) \/ WriterStep(w)
    PROVE  /\ UNCHANGED <<reading, readers>>
           /\ \A v \in Writer \ {w} :
                 wpc'[v] = wpc[v] /\ wtag'[v] = wtag[v] /\ wnode'[v] = wnode[v]
           /\ linked' = linked \/ LinkNode(w)
  <1>1. /\ wpc \in [Writer -> WriterPC]
        /\ wtag \in [Writer -> Tag \cup {Freed}] /\ wnode \in [Writer -> Node \cup {NULL}]
    BY DEF TypeOK
  <1>2. CASE BeginWriter(w)
    BY <1>1, <1>2 DEF BeginWriter, SetDefault, BeginSet, BeginClear, GotoW, store, writing
  <1>3. CASE PortLock(w) \/ SetUnmatched(w) \/ CopyTag(w) \/ ReadersGone(w)
    BY <1>1, <1>3 DEF PortLock, SetUnmatched, CopyTag, ReadersGone, GotoW, store
  <1>4. CASE CopyFails(w) \/ NodeFails(w) \/ ClearUnmatched(w) \/ PortUnlock(w)
    BY <1>1, <1>4 DEF CopyFails, NodeFails, ClearUnmatched, PortUnlock, ReturnW, store
  <1>5. CASE \E n \in Node : SetMatched(w, n) \/ PickReusable(w, n) \/ ClearMatched(w, n)
    BY <1>1, <1>5 DEF SetMatched, PickReusable, ClearMatched, GotoW, store
  <1>6. CASE FreeTag(w) \/ AssignTag(w) \/ StoreLevel(w)
    BY <1>1, <1>6 DEF FreeTag, AssignTag, StoreLevel, GotoW
  <1>7. CASE Activate(w) \/ CountActive(w) \/ CountNew(w) \/ PublishHead(w) \/ Uncount(w)
    BY <1>1, <1>7 DEF Activate, CountActive, CountNew, PublishHead, Uncount, GotoW
  <1>8. CASE LinkNode(w)
    BY <1>1, <1>8 DEF LinkNode, Link, GotoW
  <1>9. QED
    BY <1>2, <1>3, <1>4, <1>5, <1>6, <1>7, <1>8 DEF WriterStep

-----------------------------------------------------------------------------
(***************************************************************************)
(* One lemma per conjunct of the invariant: what each step does to it.     *)
(***************************************************************************)

\* Where a writer's step takes it, and who holds the lock afterwards.
LEMMA WriterMoves ==
    ASSUME TypeOK, NEW w \in Writer, BeginWriter(w) \/ WriterStep(w)
    PROVE  \/ wpc[w] = "lock" /\ wpc'[w] = "scan" /\ portLock = NoTask /\ portLock' = w
           \/ /\ wpc[w] = "scan" \/ Changing(w)
              /\ wpc'[w] \in {"idle", "malloc"} /\ portLock' = NoTask
           \/ /\ ~(wpc[w] = "scan" \/ Changing(w))
              /\ wpc'[w] \in {"idle", "lock", "malloc"} /\ portLock' = portLock
           \/ /\ wpc[w] = "scan" \/ Changing(w)
              /\ wpc'[w] \in WriterPC \ {"idle", "lock", "scan", "malloc"} /\ portLock' = portLock
  <1>1. wpc \in [Writer -> WriterPC]
    BY DEF TypeOK
  <1> USE DEF Changing, WriterPC
  <1>2. CASE BeginWriter(w)
    BY <1>1, <1>2 DEF BeginWriter, SetDefault, BeginSet, BeginClear, GotoW, writing
  <1>3. CASE PortLock(w) \/ SetUnmatched(w) \/ CopyTag(w) \/ ReadersGone(w)
    BY <1>1, <1>3 DEF PortLock, SetUnmatched, CopyTag, ReadersGone, GotoW
  <1>4. CASE CopyFails(w) \/ NodeFails(w) \/ ClearUnmatched(w) \/ PortUnlock(w)
    BY <1>1, <1>4 DEF CopyFails, NodeFails, ClearUnmatched, PortUnlock, ReturnW
  <1>5. CASE \E n \in Node : SetMatched(w, n) \/ PickReusable(w, n) \/ ClearMatched(w, n)
    BY <1>1, <1>5 DEF SetMatched, PickReusable, ClearMatched, GotoW
  <1>6. CASE FreeTag(w) \/ AssignTag(w) \/ StoreLevel(w)
    BY <1>1, <1>6 DEF FreeTag, AssignTag, StoreLevel, GotoW
  <1>7. CASE Activate(w) \/ CountActive(w) \/ CountNew(w) \/ PublishHead(w) \/ Uncount(w)
    BY <1>1, <1>7 DEF Activate, CountActive, CountNew, PublishHead, Uncount, GotoW
  <1>8. CASE LinkNode(w)
    BY <1>1, <1>8 DEF LinkNode, Link, GotoW
  <1>9. QED
    BY <1>2, <1>3, <1>4, <1>5, <1>6, <1>7, <1>8 DEF WriterStep

LEMMA LockStep ==
    ASSUME TypeOK, LockInv, NEW w \in Writer, BeginWriter(w) \/ WriterStep(w)
    PROVE  LockInv'
  <1>1. wpc \in [Writer -> WriterPC] /\ NoTask \notin Writer
    BY TagFilterAssumption DEF TypeOK
  <1>2. \A v \in Writer \ {w} : wpc'[v] = wpc[v]
    BY WriterFrame
  <1>3. QED
    BY <1>1, <1>2, WriterMoves DEF LockInv, Changing, WriterPC

\* There is never a second writer inside the lock.
LEMMA OneWriter ==
    ASSUME LockInv, NEW v \in Writer, NEW w \in Writer,
           wpc[v] = "scan" \/ Changing(v), wpc[w] = "scan" \/ Changing(w)
    PROVE  v = w
  BY DEF LockInv

\* Which lookups are within a node changes only when one enters or leaves it.
LEMMA ReadersStep ==
    ASSUME TypeOK, ReadersInv, NEW r \in Reader,
           LookupStep(r) \/ \E g \in Tag : BeginLookup(r, g)
    PROVE  ReadersInv' /\ readers' \in [Node -> Nat]
  <1>1. /\ rpc \in [Reader -> ReaderPC] /\ rnode \in [Reader -> Node \cup {NULL}]
        /\ readers \in [Node -> Nat] /\ linked \in 0 .. MaxNodes /\ head \in 0 .. linked
        /\ MaxNodes \in Nat
    BY TagFilterAssumption DEF TypeOK
  <1>2. /\ linked' = linked
        /\ \A q \in Reader \ {r} : rpc'[q] = rpc[q] /\ rnode'[q] = rnode[q]
    BY LookupFrame
  <1>3. CASE EnterNode(r)
    <2>1. /\ rpc[r] = "enter" /\ rpc'[r] = "recheck" /\ rnode' = rnode
          /\ readers' = [readers EXCEPT ![rnode[r]] = @ + 1]
      BY <1>1, <1>3 DEF EnterNode, GotoR
    <2>2. rnode[r] \in Node
      BY <1>1, <2>1 DEF ReadersInv
    <2>3. r \notin Within(rnode[r]) /\ Within(rnode[r])' = Within(rnode[r]) \cup {r}
      BY <1>2, <2>1 DEF Within
    <2>4. \A n \in Node \ {rnode[r]} : Within(n)' = Within(n)
      BY <1>2, <2>1 DEF Within
    <2>5. Cardinality(Within(rnode[r])') = Cardinality(Within(rnode[r])) + 1
      BY <2>3, WithinFinite, FS_AddElement
    <2>6. \A n \in Node : readers'[n] = Cardinality(Within(n)')
      BY <1>1, <2>1, <2>2, <2>4, <2>5 DEF ReadersInv
    <2>7. readers' \in [Node -> Nat]
      BY <1>1, <2>1, <2>2
    <2>8. /\ \A q \in Reader : rnode'[q] <= linked'
          /\ \A q \in Reader :
               rpc'[q] \in {"enter", "recheck", "compare", "load", "leave"} => rnode'[q] # NULL
      BY <1>1, <1>2, <2>1, <2>2 DEF ReadersInv
    <2>9. QED
      BY <2>6, <2>7, <2>8 DEF ReadersInv, NULL
  <1>4. CASE LeaveNode(r)
    <2>1. /\ rpc[r] = "leave" /\ rpc'[r] \in {"done", "visit"}
          /\ rnode'[r] = rnode[r] \/ rnode'[r] = rnode[r] - 1
          /\ readers' = [readers EXCEPT ![rnode[r]] = @ - 1]
      BY <1>1, <1>4 DEF LeaveNode, GotoR
    <2>2. rnode[r] \in Node
      BY <1>1, <2>1 DEF ReadersInv
    <2>3. r \in Within(rnode[r])
      BY <2>1 DEF Within
    <2>a. {q \in Reader : rnode'[q] = rnode[r]
                         /\ rpc'[q] \in {"recheck", "compare", "load", "leave"}}
             = Within(rnode[r]) \ {r}
      BY <1>2, <2>1 DEF Within
    <2>4. \A n \in Node \ {rnode[r]} : Within(n)' = Within(n)
      BY <1>2, <2>1 DEF Within
    <2>5. /\ Cardinality(Within(rnode[r]) \ {r}) = Cardinality(Within(rnode[r])) - 1
          /\ Cardinality(Within(rnode[r]) \ {r}) \in Nat
      <3>1. IsFiniteSet(Within(rnode[r]) \ {r})
        BY WithinFinite, FS_RemoveElement
      <3>2. QED
        BY <2>3, <3>1, WithinFinite, FS_RemoveElement, FS_CardinalityType
    <2>6. \A n \in Node : readers'[n] = Cardinality(Within(n)') /\ readers'[n] \in Nat
      <3>1. ASSUME NEW n \in Node \ {rnode[r]} PROVE readers'[n] = Cardinality(Within(n)')
        BY <1>1, <2>1, <2>2, <2>4 DEF ReadersInv
      <3>2. ASSUME NEW n \in Node, n = rnode[r]
            PROVE  readers'[n] = Cardinality(Within(n)') /\ readers'[n] \in Nat
        <4>1. Within(n)' = Within(rnode[r]) \ {r}
          BY <3>2, <2>a DEF Within
        <4>2. readers'[n] = readers[n] - 1 /\ readers[n] = Cardinality(Within(rnode[r]))
          BY <1>1, <2>1, <3>2 DEF ReadersInv
        <4>3. QED
          BY <4>1, <4>2, <2>5
      <3>3. QED
        BY <1>1, <2>1, <3>1, <3>2
    <2>7. readers' \in [Node -> Nat]
      BY <1>1, <2>1, <2>6
    <2>8. /\ \A q \in Reader : rnode'[q] <= linked'
          /\ \A q \in Reader :
               rpc'[q] \in {"enter", "recheck", "compare", "load", "leave"} => rnode'[q] # NULL
      BY <1>1, <1>2, <2>1, <2>2, SMTT(40) DEF ReadersInv, Node
    <2>9. QED
      BY <2>6, <2>7, <2>8 DEF ReadersInv, NULL
  <1>5. CASE LoadHead(r) \/ SkipInactive(r) \/ SeeActive(r) \/ EndOfList(r) \/ LoadCount(r)
             \/ LoadDefault(r) \/ EndLookup(r) \/ RecheckActive(r) \/ RecheckInactive(r)
             \/ Compare(r) \/ LoadLevel(r) \/ \E g \in Tag : BeginLookup(r, g)
    <2>1. /\ readers' = readers
          /\ \/ /\ {rpc[r], rpc'[r]} \subseteq {"recheck", "compare", "load", "leave"}
                /\ rnode'[r] = rnode[r]
             \/ /\ {rpc[r], rpc'[r]} \cap {"recheck", "compare", "load", "leave"} = {}
                /\ rpc'[r] = "enter" => rnode'[r] # NULL
                /\ rnode'[r] \in {0, head, rnode[r], rnode[r] - 1}
                /\ rnode'[r] \in Node \cup {NULL}
      <3>1. CASE LoadHead(r)
        BY <1>1, <3>1 DEF LoadHead, GotoR, store, Node, NULL
      <3>2. CASE SkipInactive(r)
        BY <1>1, <3>2 DEF SkipInactive, store, Node, NULL
      <3>3. CASE SeeActive(r) \/ EndOfList(r) \/ LoadCount(r) \/ LoadDefault(r)
        BY <1>1, <3>3 DEF SeeActive, EndOfList, LoadCount, LoadDefault, GotoR, store
      <3>4. CASE EndLookup(r) \/ \E g \in Tag : BeginLookup(r, g)
        BY <1>1, <3>4 DEF EndLookup, BeginLookup, GotoR, store, NULL
      <3>5. CASE RecheckActive(r) \/ RecheckInactive(r) \/ Compare(r) \/ LoadLevel(r)
        BY <1>1, <3>5 DEF RecheckActive, RecheckInactive, Compare, LoadLevel, GotoR, store
      <3>6. QED
        BY <1>5, <3>1, <3>2, <3>3, <3>4, <3>5
    <2>2. \A n \in Node : Within(n)' = Within(n)
      BY <1>2, <2>1 DEF Within
    <2>3. /\ \A q \in Reader : rnode'[q] <= linked'
          /\ \A q \in Reader :
               rpc'[q] \in {"enter", "recheck", "compare", "load", "leave"} => rnode'[q] # NULL
      <3>1. rnode[r] \in Int /\ head \in Int /\ head <= linked /\ rnode[r] <= linked
            /\ linked \in Nat
        BY <1>1 DEF ReadersInv, Node, NULL
      <3>2. rnode'[r] <= linked
        BY <2>1, <3>1
      <3>3. rpc'[r] \in {"enter", "recheck", "compare", "load", "leave"} => rnode'[r] # NULL
        BY <2>1 DEF ReadersInv
      <3>4. QED
        BY <1>2, <3>2, <3>3 DEF ReadersInv
    <2>4. QED
      BY <1>1, <2>1, <2>2, <2>3 DEF ReadersInv, NULL
  <1>6. QED
    BY <1>3, <1>4, <1>5 DEF LookupStep

LEMMA ReadersKept ==
    ASSUME TypeOK, ReadersInv, NEW w \in Writer, BeginWriter(w) \/ WriterStep(w)
    PROVE  ReadersInv'
  <1>1. /\ UNCHANGED <<rpc, rnode, readers>>
        /\ linked' = linked \/ linked' = linked + 1
    BY WriterFrame DEF reading, LinkNode, Link
  <1>2. rnode \in [Reader -> Node \cup {NULL}] /\ linked \in Nat
    BY TagFilterAssumption DEF TypeOK
  <1>3. \A r \in Reader : rnode[r] \in Int
    BY <1>2, TagFilterAssumption DEF Node, NULL
  <1>4. \A n \in Node : Within(n)' = Within(n)
    BY <1>1 DEF Within
  <1>5. \A r \in Reader : rnode'[r] <= linked'
    BY <1>1, <1>2, <1>3 DEF ReadersInv
  <1>6. QED
    BY <1>1, <1>4, <1>5 DEF ReadersInv, NULL

\* While w is inside the lock, no other writer is.
LEMMA Others ==
    ASSUME TypeOK, LockInv, NEW w \in Writer, wpc[w] = "scan" \/ Changing(w)
    PROVE  \A v \in Writer \ {w} : wpc[v] \in {"idle", "lock", "malloc"}
  BY OneWriter DEF TypeOK, WriterPC, Changing

\* A writer outside the lock changes nothing a lookup or another writer reads.
LEMMA OutsideStep ==
    ASSUME TypeOK, NEW w \in Writer, BeginWriter(w) \/ WriterStep(w),
           wpc[w] \in {"idle", "lock", "malloc"}
    PROVE  /\ UNCHANGED <<linked, head, tag, level, active, readers, count>>
           /\ wpc'[w] \in {"idle", "lock", "malloc", "scan"}
           /\ wpc'[w] # "idle" => wtag'[w] \in Tag \/ (wtag'[w] = wtag[w] /\ wpc[w] # "idle")
  <1>1. wpc \in [Writer -> WriterPC] /\ wtag \in [Writer -> Tag \cup {Freed}]
    BY DEF TypeOK
  <1>2. CASE BeginWriter(w)
    <2>1. CASE \E l \in Level : SetDefault(w, l)
      BY <1>1, <2>1 DEF SetDefault, writing
    <2>2. CASE \E g \in Tag, l \in Level : BeginSet(w, g, l)
      <3>1. PICK g \in Tag, l \in Level : BeginSet(w, g, l)
        BY <2>2
      <3>2. wpc'[w] = "lock" /\ wtag'[w] = g
        BY <1>1, <3>1 DEF BeginSet, GotoW
      <3>3. UNCHANGED store
        BY <3>1 DEF BeginSet
      <3>4. QED
        BY <3>1, <3>2, <3>3 DEF store
    <2>3. CASE \E g \in Tag : BeginClear(w, g)
      <3>1. PICK g \in Tag : BeginClear(w, g)
        BY <2>3
      <3>2. wpc'[w] = "lock" /\ wtag'[w] = g
        BY <1>1, <3>1 DEF BeginClear, GotoW
      <3>3. UNCHANGED store
        BY <3>1 DEF BeginClear
      <3>4. QED
        BY <3>1, <3>2, <3>3 DEF store
    <2>4. QED
      BY <1>2, <2>1, <2>2, <2>3 DEF BeginWriter
  <1>3. CASE PortLock(w) \/ CopyTag(w) \/ CopyFails(w)
    BY <1>1, <1>3 DEF PortLock, CopyTag, CopyFails, ReturnW, GotoW, store
  <1>4. CASE WriterStep(w) /\ ~(PortLock(w) \/ CopyTag(w) \/ CopyFails(w))
    BY <1>4 DEF WriterStep, SetUnmatched, SetMatched, PickReusable, ClearMatched, ReadersGone,
       FreeTag, AssignTag, StoreLevel, Activate, CountActive, LinkNode, Link, NodeFails, CountNew,
       PublishHead, ClearUnmatched, Uncount, PortUnlock
  <1>5. QED
    BY <1>2, <1>3, <1>4

\* The steps inside the lock, by what they do to the nodes.
LEMMA InsideStep ==
    ASSUME TypeOK, NEW w \in Writer, BeginWriter(w) \/ WriterStep(w),
           wpc[w] = "scan" \/ Changing(w)
    PROVE  \/ SetUnmatched(w) \/ NodeFails(w) \/ ClearUnmatched(w) \/ PortUnlock(w)
           \/ \E n \in Node : SetMatched(w, n) \/ PickReusable(w, n) \/ ClearMatched(w, n)
           \/ ReadersGone(w) \/ FreeTag(w) \/ AssignTag(w) \/ StoreLevel(w)
           \/ Activate(w) \/ CountActive(w) \/ LinkNode(w) \/ CountNew(w) \/ PublishHead(w)
           \/ Uncount(w)
  BY DEF BeginWriter, SetDefault, BeginSet, BeginClear, WriterStep, PortLock, CopyTag, CopyFails,
     Changing

\* Only w's own part of the invariant is at stake when w is inside the lock.
LEMMA WriterInvStep ==
    ASSUME TypeOK, LockInv, WriterInv, NEW w \in Writer, BeginWriter(w) \/ WriterStep(w)
    PROVE  WriterInv'
  <1>a. /\ wpc \in [Writer -> WriterPC] /\ wtag \in [Writer -> Tag \cup {Freed}]
        /\ wnode \in [Writer -> Node \cup {NULL}] /\ active \in [Node -> BOOLEAN]
        /\ linked \in 0 .. MaxNodes /\ MaxNodes \in Nat
    BY TagFilterAssumption DEF TypeOK
  <1>b. \A v \in Writer \ {w} : wpc'[v] = wpc[v] /\ wtag'[v] = wtag[v] /\ wnode'[v] = wnode[v]
    BY WriterFrame
  <1>1. CASE wpc[w] \in {"idle", "lock", "malloc"}
    <2>1. /\ UNCHANGED <<linked, active>>
          /\ wpc'[w] \in {"idle", "lock", "malloc", "scan"}
          /\ wpc'[w] # "idle" => wtag'[w] \in Tag \/ (wtag'[w] = wtag[w] /\ wpc[w] # "idle")
      BY <1>1, OutsideStep
    <2>2. QED
      BY <1>b, <2>1 DEF WriterInv
  <1>2. CASE wpc[w] = "scan" \/ Changing(w)
    <2>1. \A v \in Writer \ {w} : wpc'[v] \in {"idle", "lock", "malloc"} /\ wtag'[v] = wtag[v]
                                  /\ wpc'[v] = wpc[v]
      BY <1>2, <1>b, Others
    <2>2. wpc[w] # "idle" /\ wtag[w] \in Tag
      BY <1>2 DEF WriterInv, Changing
    <2>3. /\ wpc'[w] # "idle" => wtag'[w] \in Tag
          /\ wpc'[w] \in {"wait", "free", "assign", "level", "activate"} =>
                wnode'[w] \in 1 .. linked' /\ ~active'[wnode'[w]]
      <3>1. CASE SetUnmatched(w) \/ NodeFails(w) \/ ClearUnmatched(w) \/ PortUnlock(w)
        BY <1>a, <2>2, <3>1 DEF SetUnmatched, NodeFails, ClearUnmatched, PortUnlock, ReturnW, GotoW
      <3>2. ASSUME NEW n \in Node, SetMatched(w, n)
            PROVE  <2>3!1 /\ <2>3!2
        BY <1>a, <2>2, <3>2 DEF SetMatched, FirstOf, Matching, GotoW
      <3>3. ASSUME NEW n \in Node, PickReusable(w, n)
            PROVE  <2>3!1 /\ <2>3!2
        BY <1>a, <2>2, <3>3 DEF PickReusable, FirstOf, Inactive, GotoW, store
      <3>4. ASSUME NEW n \in Node, ClearMatched(w, n)
            PROVE  <2>3!1 /\ <2>3!2
        BY <1>a, <2>2, <3>4 DEF ClearMatched, GotoW
      <3>5. CASE ReadersGone(w) \/ FreeTag(w) \/ AssignTag(w) \/ StoreLevel(w)
        BY <1>a, <2>2, <3>5 DEF ReadersGone, FreeTag, AssignTag, StoreLevel, GotoW, WriterInv, store
      <3>6. CASE Activate(w) \/ CountActive(w) \/ LinkNode(w) \/ CountNew(w) \/ PublishHead(w)
                 \/ Uncount(w)
        BY <1>a, <2>2, <3>6
           DEF Activate, CountActive, LinkNode, Link, CountNew, PublishHead, Uncount, GotoW
      <3>7. QED
        BY <1>2, <3>1, <3>2, <3>3, <3>4, <3>5, <3>6, InsideStep
    <2>4. QED
      BY <2>1, <2>3 DEF WriterInv
  <1>3. QED
    BY <1>1, <1>2, <1>a DEF WriterPC, Changing

\* A lookup starts to compare only a node it saw active after entering it.
LEMMA LookupMoves ==
    ASSUME TypeOK, NEW r \in Reader, LookupStep(r) \/ \E g \in Tag : BeginLookup(r, g)
    PROVE  /\ rpc'[r] = "compare" =>
                /\ rpc[r] = "recheck" /\ active[rnode[r]] /\ rnode'[r] = rnode[r]
                /\ held'[r] = tag[rnode[r]]
           /\ rpc'[r] = "load" => rpc[r] = "compare" /\ rnode'[r] = rnode[r]
  <1>1. /\ rpc \in [Reader -> ReaderPC] /\ rnode \in [Reader -> Node \cup {NULL}]
        /\ held \in [Reader -> Tag \cup {Freed}]
    BY DEF TypeOK
  <1>2. CASE RecheckActive(r)
    BY <1>1, <1>2 DEF RecheckActive, GotoR
  <1>3. CASE Compare(r)
    BY <1>1, <1>3 DEF Compare, GotoR
  <1>4. CASE LoadCount(r) \/ LoadHead(r) \/ EndOfList(r) \/ SkipInactive(r) \/ SeeActive(r)
             \/ EnterNode(r) \/ RecheckInactive(r)
    BY <1>1, <1>4 DEF LoadCount, LoadHead, EndOfList, SkipInactive, SeeActive, EnterNode,
       RecheckInactive, GotoR
  <1>5. CASE LoadLevel(r) \/ LeaveNode(r) \/ LoadDefault(r) \/ EndLookup(r)
             \/ \E g \in Tag : BeginLookup(r, g)
    BY <1>1, <1>5 DEF LoadLevel, LeaveNode, LoadDefault, EndLookup, BeginLookup, GotoR
  <1>6. QED
    BY <1>2, <1>3, <1>4, <1>5 DEF LookupStep

\* A node whose flag is set owns a string.
LEMMA ActiveHasString ==
    ASSUME TypeOK, WriterInv, StringInv, NEW n \in 1 .. linked, active[n]
    PROVE  tag[n] # Freed
  BY DEF StringInv, WriterInv

\* A lookup's step keeps what the invariant says of the strings.
LEMMA LookupSafe ==
    ASSUME TypeOK, ReadersInv, WriterInv, RetagInv, StringInv, NoUseAfterFree, NEW r \in Reader,
           LookupStep(r) \/ \E g \in Tag : BeginLookup(r, g)
    PROVE  RetagInv' /\ NoUseAfterFree'
  <1>a. /\ rpc \in [Reader -> ReaderPC] /\ rnode \in [Reader -> Node \cup {NULL}]
        /\ linked \in 0 .. MaxNodes /\ MaxNodes \in Nat
    BY TagFilterAssumption DEF TypeOK
  <1>b. /\ UNCHANGED <<linked, tag, active, wpc, wtag, wnode>>
        /\ \A q \in Reader \ {r} : rpc'[q] = rpc[q] /\ rnode'[q] = rnode[q] /\ held'[q] = held[q]
    BY LookupFrame DEF writing
  <1>c. /\ rpc'[r] = "compare" =>
             /\ rpc[r] = "recheck" /\ active[rnode[r]] /\ rnode'[r] = rnode[r]
             /\ held'[r] = tag[rnode[r]]
        /\ rpc'[r] = "load" => rpc[r] = "compare" /\ rnode'[r] = rnode[r]
    BY LookupMoves
  <1>1. ASSUME NEW w \in Writer, wpc[w] \in {"free", "assign", "level"}, rnode'[r] = wnode[w]
        PROVE  rpc'[r] \notin {"compare", "load"}
    <2>1. ~active[wnode[w]]
      BY <1>1 DEF WriterInv
    <2>2. rpc'[r] # "compare"
      BY <1>1, <1>c, <2>1
    <2>3. rpc'[r] # "load"
      BY <1>1, <1>c DEF RetagInv
    <2>4. QED
      BY <2>2, <2>3
  <1>2. RetagInv'
    BY <1>1, <1>b DEF RetagInv
  <1>3. rpc'[r] = "compare" => held'[r] # Freed /\ tag'[rnode'[r]] = held'[r]
    <2>1. SUFFICES ASSUME rpc'[r] = "compare"
                   PROVE  held'[r] # Freed /\ tag'[rnode'[r]] = held'[r]
      OBVIOUS
    <2>2. rnode[r] \in 1 .. linked /\ active[rnode[r]]
      BY <2>1, <1>a, <1>c DEF ReadersInv, Node, NULL
    <2>3. tag[rnode[r]] # Freed
      BY <2>2, ActiveHasString
    <2>4. QED
      BY <2>1, <2>3, <1>b, <1>c
  <1>4. NoUseAfterFree'
    BY <1>3, <1>b DEF NoUseAfterFree
  <1>5. QED
    BY <1>2, <1>4

\* A writer that saw a count of zero saw a node without lookups.
LEMMA NobodyWithin ==
    ASSUME TypeOK, ReadersInv, NEW n \in Node, readers[n] = 0
    PROVE  \A r \in Reader : rnode[r] = n => rpc[r] \notin {"compare", "load"}
  <1>1. Within(n) = {}
    BY WithinFinite, FS_EmptySet DEF ReadersInv
  <1>2. QED
    BY <1>1 DEF Within

LEMMA RetagStep ==
    ASSUME TypeOK, LockInv, ReadersInv, WriterInv, RetagInv,
           NEW w \in Writer, BeginWriter(w) \/ WriterStep(w)
    PROVE  RetagInv'
  <1>a. /\ wpc \in [Writer -> WriterPC] /\ wnode \in [Writer -> Node \cup {NULL}]
        /\ linked \in 0 .. MaxNodes /\ MaxNodes \in Nat
    BY TagFilterAssumption DEF TypeOK
  <1>b. /\ UNCHANGED <<rpc, rnode>>
        /\ \A v \in Writer \ {w} : wpc'[v] = wpc[v] /\ wnode'[v] = wnode[v]
    BY WriterFrame DEF reading
  <1>1. CASE wpc[w] \in {"idle", "lock", "malloc"}
    <2>1. wpc'[w] \in {"idle", "lock", "malloc", "scan"}
      BY <1>1, OutsideStep
    <2>2. QED
      BY <1>b, <2>1 DEF RetagInv
  <1>2. CASE wpc[w] = "scan" \/ Changing(w)
    <2>1. CASE ReadersGone(w)
      <3>1. /\ wpc[w] = "wait" /\ readers[wnode[w]] = 0 /\ wnode' = wnode
        BY <2>1 DEF ReadersGone
      <3>2. wnode[w] \in Node
        BY <1>a, <3>1 DEF WriterInv, Node
      <3>3. \A r \in Reader : rnode[r] = wnode[w] => rpc[r] \notin {"compare", "load"}
        BY <3>1, <3>2, NobodyWithin
      <3>4. QED
        BY <1>b, <3>1, <3>3 DEF RetagInv
    <2>2. CASE FreeTag(w) \/ AssignTag(w)
      <3>1. wpc[w] \in {"free", "assign"} /\ wnode' = wnode
        BY <2>2 DEF FreeTag, AssignTag
      <3>2. QED
        BY <1>b, <3>1 DEF RetagInv
    <2>3. CASE ~ReadersGone(w) /\ ~FreeTag(w) /\ ~AssignTag(w)
      <3>1. wpc'[w] \notin {"free", "assign", "level"}
        <4>1. CASE SetUnmatched(w) \/ NodeFails(w) \/ ClearUnmatched(w) \/ PortUnlock(w)
          BY <1>a, <4>1 DEF SetUnmatched, NodeFails, ClearUnmatched, PortUnlock, ReturnW, GotoW
        <4>2. CASE \E n \in Node : SetMatched(w, n) \/ PickReusable(w, n) \/ ClearMatched(w, n)
          BY <1>a, <4>2 DEF SetMatched, PickReusable, ClearMatched, GotoW
        <4>3. CASE StoreLevel(w) \/ Activate(w) \/ CountActive(w) \/ LinkNode(w) \/ CountNew(w)
                   \/ PublishHead(w) \/ Uncount(w)
          BY <1>a, <4>3 DEF StoreLevel, Activate, CountActive, LinkNode, Link, CountNew, PublishHead,
             Uncount, GotoW
        <4>4. QED
          BY <1>2, <2>3, <4>1, <4>2, <4>3, InsideStep
      <3>2. QED
        BY <1>b, <3>1 DEF RetagInv
    <2>4. QED
      BY <2>1, <2>2, <2>3
  <1>3. QED
    BY <1>1, <1>2, <1>a DEF WriterPC, Changing

\* A writer's step changes a string only where the invariant allows it.
LEMMA StringStep ==
    ASSUME TypeOK, LockInv, WriterInv, RetagInv, ReadersInv, StringInv, NoUseAfterFree,
           NEW w \in Writer, BeginWriter(w) \/ WriterStep(w)
    PROVE  StringInv' /\ NoUseAfterFree'
  <1>a. /\ wpc \in [Writer -> WriterPC] /\ wnode \in [Writer -> Node \cup {NULL}]
        /\ wtag \in [Writer -> Tag \cup {Freed}] /\ tag \in [Node -> Tag \cup {Freed}]
        /\ linked \in 0 .. MaxNodes /\ MaxNodes \in Nat /\ Freed \notin Tag
        /\ rnode \in [Reader -> Node \cup {NULL}]
    BY TagFilterAssumption DEF TypeOK
  <1>b. /\ UNCHANGED <<rpc, rnode, held>>
        /\ \A v \in Writer \ {w} : wpc'[v] = wpc[v] /\ wnode'[v] = wnode[v]
    BY WriterFrame DEF reading
  <1>1. CASE FreeTag(w)
    <2>1. /\ wpc[w] = "free" /\ wpc'[w] = "assign" /\ wnode' = wnode /\ linked' = linked
          /\ tag' = [tag EXCEPT ![wnode[w]] = Freed]
      BY <1>1, <1>a DEF FreeTag, GotoW
    <2>2. StringInv'
      BY <1>a, <1>b, <2>1 DEF StringInv
    <2>3. \A r \in Reader : rpc[r] = "compare" => rnode[r] # wnode[w]
      BY <2>1 DEF RetagInv
    <2>4. NoUseAfterFree'
      BY <1>a, <1>b, <2>1, <2>3 DEF NoUseAfterFree
    <2>5. QED
      BY <2>2, <2>4
  <1>2. CASE AssignTag(w)
    <2>1. /\ wpc[w] = "assign" /\ wpc'[w] = "level" /\ wnode' = wnode /\ linked' = linked
          /\ tag' = [tag EXCEPT ![wnode[w]] = wtag[w]]
      BY <1>2, <1>a DEF AssignTag, GotoW
    <2>2. wtag[w] # Freed /\ wnode[w] \in Node
      BY <2>1, <1>a DEF WriterInv, Node
    <2>3. StringInv'
      <3>1. SUFFICES ASSUME NEW n \in 1 .. linked, tag'[n] = Freed
                     PROVE  \E v \in Writer : wpc'[v] = "assign" /\ wnode'[v] = n
        BY <2>1 DEF StringInv
      <3>2. n # wnode[w] /\ tag[n] = Freed
        BY <1>a, <2>1, <2>2, <3>1 DEF Node
      <3>3. PICK v \in Writer : wpc[v] = "assign" /\ wnode[v] = n
        BY <3>2 DEF StringInv
      <3>4. v # w
        BY <3>2, <3>3
      <3>5. QED
        BY <1>b, <3>3, <3>4
    <2>4. \A r \in Reader : rpc[r] = "compare" => rnode[r] # wnode[w]
      BY <2>1 DEF RetagInv
    <2>5. NoUseAfterFree'
      BY <1>a, <1>b, <2>1, <2>4 DEF NoUseAfterFree
    <2>6. QED
      BY <2>3, <2>5
  <1>3. CASE LinkNode(w)
    <2>1. /\ wpc[w] = "scan" /\ wnode' = wnode /\ linked' = linked + 1 /\ linked + 1 \in Node
          /\ tag' = [tag EXCEPT ![linked + 1] = wtag[w]]
      BY <1>3 DEF LinkNode, Link
    <2>2. wtag[w] # Freed
      BY <2>1, <1>a DEF WriterInv
    <2>3. StringInv'
      <3>1. SUFFICES ASSUME NEW n \in 1 .. linked + 1, tag'[n] = Freed
                     PROVE  \E v \in Writer : wpc'[v] = "assign" /\ wnode'[v] = n
        BY <2>1 DEF StringInv
      <3>2. n \in 1 .. linked /\ tag[n] = Freed
        BY <1>a, <2>1, <2>2, <3>1 DEF Node
      <3>3. PICK v \in Writer : wpc[v] = "assign" /\ wnode[v] = n
        BY <3>2 DEF StringInv
      <3>4. v # w
        BY <2>1, <3>3
      <3>5. QED
        BY <1>b, <3>3, <3>4
    <2>4. \A r \in Reader : rnode[r] # linked + 1
      BY <1>a DEF ReadersInv, Node, NULL
    <2>5. NoUseAfterFree'
      BY <1>a, <1>b, <2>1, <2>4 DEF NoUseAfterFree
    <2>6. QED
      BY <2>3, <2>5
  <1>4. CASE ~FreeTag(w) /\ ~AssignTag(w) /\ ~LinkNode(w)
    <2>1. UNCHANGED <<tag, linked>> /\ wpc[w] # "assign"
      <3>1. CASE wpc[w] \in {"idle", "lock", "malloc"}
        BY <3>1, OutsideStep
      <3>2. CASE wpc[w] = "scan" \/ Changing(w)
        <4>1. CASE SetUnmatched(w) \/ NodeFails(w) \/ ClearUnmatched(w) \/ PortUnlock(w)
                   \/ ReadersGone(w)
          BY <4>1 DEF SetUnmatched, NodeFails, ClearUnmatched, PortUnlock, ReadersGone, store
        <4>2. CASE \E n \in Node : SetMatched(w, n) \/ PickReusable(w, n) \/ ClearMatched(w, n)
          BY <4>2 DEF SetMatched, PickReusable, ClearMatched, store
        <4>3. CASE StoreLevel(w) \/ Activate(w) \/ CountActive(w) \/ CountNew(w)
                   \/ PublishHead(w) \/ Uncount(w)
          BY <4>3 DEF StoreLevel, Activate, CountActive, CountNew, PublishHead, Uncount
        <4>4. QED
          BY <1>4, <3>2, <4>1, <4>2, <4>3, InsideStep
      <3>3. QED
        BY <3>1, <3>2, <1>a DEF WriterPC, Changing
    <2>2. StringInv'
      <3>1. SUFFICES ASSUME NEW n \in 1 .. linked, tag[n] = Freed
                     PROVE  \E v \in Writer : wpc'[v] = "assign" /\ wnode'[v] = n
        BY <2>1 DEF StringInv
      <3>2. PICK v \in Writer : wpc[v] = "assign" /\ wnode[v] = n
        BY <3>1 DEF StringInv
      <3>3. QED
        BY <1>b, <2>1, <3>2
    <2>3. NoUseAfterFree'
      BY <1>b, <2>1 DEF NoUseAfterFree
    <2>4. QED
      BY <2>2, <2>3
  <1>5. QED
    BY <1>1, <1>2, <1>3, <1>4

\* With every other writer outside the lock, Uncounted is w's business alone.
LEMMA UncountedNow ==
    ASSUME NEW w \in Writer,
           \A v \in Writer \ {w} : wpc[v] \in {"idle", "lock", "malloc"}
    PROVE  Uncounted = IF wpc[w] \in {"count", "countNew"} THEN 1
                       ELSE IF wpc[w] = "uncount" THEN -1 ELSE 0
  BY DEF Uncounted

LEMMA UncountedNext ==
    ASSUME NEW w \in Writer,
           \A v \in Writer \ {w} : wpc'[v] \in {"idle", "lock", "malloc"}
    PROVE  Uncounted' = IF wpc'[w] \in {"count", "countNew"} THEN 1
                        ELSE IF wpc'[w] = "uncount" THEN -1 ELSE 0
  BY DEF Uncounted

LEMMA CountStep ==
    ASSUME TypeOK, LockInv, WriterInv, CountInv, NEW w \in Writer, BeginWriter(w) \/ WriterStep(w)
    PROVE  CountInv' /\ count' \in Nat
  <1>a. /\ wpc \in [Writer -> WriterPC] /\ wnode \in [Writer -> Node \cup {NULL}]
        /\ active \in [Node -> BOOLEAN] /\ count \in Nat
        /\ linked \in 0 .. MaxNodes /\ MaxNodes \in Nat
    BY TagFilterAssumption DEF TypeOK
  <1>b. \A v \in Writer \ {w} : wpc'[v] = wpc[v]
    BY WriterFrame
  <1>c. ActiveNodes \subseteq 1 .. linked /\ count + Uncounted = Cardinality(ActiveNodes)
    BY DEF CountInv
  <1>d. IsFiniteSet(ActiveNodes) /\ Cardinality(ActiveNodes) \in Nat
    BY ActiveFinite
  <1>1. CASE wpc[w] \in {"idle", "lock", "malloc"}
    <2>1. /\ UNCHANGED <<linked, active, count>>
          /\ wpc'[w] \in {"idle", "lock", "malloc", "scan"}
      BY <1>1, OutsideStep
    <2>2. Uncounted' = Uncounted
      BY <1>1, <1>b, <2>1 DEF Uncounted
    <2>3. ActiveNodes' = ActiveNodes
      BY <2>1 DEF ActiveNodes
    <2>4. QED
      BY <1>a, <1>c, <2>1, <2>2, <2>3 DEF CountInv
  <1>2. CASE wpc[w] = "scan" \/ Changing(w)
    <2>a. /\ \A v \in Writer \ {w} : wpc[v] \in {"idle", "lock", "malloc"}
          /\ \A v \in Writer \ {w} : wpc'[v] \in {"idle", "lock", "malloc"}
      BY <1>2, <1>b, Others
    <2>b. Uncounted = IF wpc[w] \in {"count", "countNew"} THEN 1
                      ELSE IF wpc[w] = "uncount" THEN -1 ELSE 0
      BY <2>a, UncountedNow
    <2>c. Uncounted' = IF wpc'[w] \in {"count", "countNew"} THEN 1
                       ELSE IF wpc'[w] = "uncount" THEN -1 ELSE 0
      BY <2>a, UncountedNext
    <2>1. CASE Activate(w)
      <3>1. /\ wpc[w] = "activate" /\ wpc'[w] = "count" /\ UNCHANGED <<linked, count>>
            /\ active' = [active EXCEPT ![wnode[w]] = TRUE]
        BY <1>a, <2>1 DEF Activate, GotoW
      <3>2. wnode[w] \in 1 .. linked /\ wnode[w] \in Node /\ ~active[wnode[w]]
        BY <1>a, <3>1 DEF WriterInv, Node
      <3>3. ActiveNodes' = ActiveNodes \cup {wnode[w]} /\ wnode[w] \notin ActiveNodes
        BY <1>a, <3>1, <3>2 DEF ActiveNodes
      <3>4. Cardinality(ActiveNodes') = Cardinality(ActiveNodes) + 1
        BY <1>d, <3>3, FS_AddElement
      <3>5. ActiveNodes' \subseteq 1 .. linked'
        BY <1>c, <3>1, <3>2, <3>3
      <3>6. Uncounted = 0 /\ Uncounted' = 1
        BY <2>b, <2>c, <3>1
      <3>7. QED
        BY <1>a, <1>c, <1>d, <3>1, <3>4, <3>5, <3>6 DEF CountInv
    <2>2. CASE LinkNode(w)
      <3>1. /\ wpc[w] = "scan" /\ wpc'[w] = "countNew" /\ count' = count
            /\ linked' = linked + 1 /\ linked + 1 \in Node
            /\ active' = [active EXCEPT ![linked + 1] = TRUE]
        BY <1>a, <2>2 DEF LinkNode, Link, GotoW
      <3>2. linked + 1 \notin ActiveNodes
        BY <1>a, <1>c
      <3>3. ActiveNodes' = ActiveNodes \cup {linked + 1}
        BY <1>a, <3>1 DEF ActiveNodes
      <3>4. Cardinality(ActiveNodes') = Cardinality(ActiveNodes) + 1
        BY <1>d, <3>2, <3>3, FS_AddElement
      <3>5. ActiveNodes' \subseteq 1 .. linked'
        BY <1>a, <1>c, <3>1, <3>3
      <3>6. QED
        BY <1>a, <1>c, <1>d, <2>b, <2>c, <3>1, <3>4, <3>5 DEF CountInv
    <2>3. ASSUME NEW n \in Node, ClearMatched(w, n)
          PROVE  CountInv' /\ count' \in Nat
      <3>1. /\ wpc[w] = "scan" /\ wpc'[w] = (IF active[n] THEN "uncount" ELSE "unlock")
            /\ UNCHANGED <<linked, count>> /\ active' = [active EXCEPT ![n] = FALSE]
        BY <1>a, <2>3 DEF ClearMatched, GotoW
      <3>2. ActiveNodes' = ActiveNodes \ {n} /\ (n \in ActiveNodes <=> active[n])
        BY <1>a, <3>1 DEF ActiveNodes
      <3>3. Cardinality(ActiveNodes') =
               IF n \in ActiveNodes THEN Cardinality(ActiveNodes) - 1 ELSE Cardinality(ActiveNodes)
        BY <1>d, <3>2, FS_RemoveElement
      <3>4. ActiveNodes' \subseteq 1 .. linked'
        BY <1>c, <3>1, <3>2
      <3>5. CASE active[n]
        <4>1. Uncounted = 0 /\ Uncounted' = -1
          BY <2>b, <2>c, <3>1, <3>5
        <4>2. QED
          BY <1>a, <1>c, <1>d, <3>1, <3>2, <3>3, <3>4, <3>5, <4>1 DEF CountInv
      <3>6. CASE ~active[n]
        <4>1. Uncounted = 0 /\ Uncounted' = 0
          BY <2>b, <2>c, <3>1, <3>6
        <4>2. QED
          BY <1>a, <1>c, <1>d, <3>1, <3>2, <3>3, <3>4, <3>6, <4>1 DEF CountInv
      <3>7. QED
        BY <3>5, <3>6
    <2>4. CASE CountActive(w) \/ CountNew(w)
      <3>1. /\ wpc[w] \in {"count", "countNew"} /\ wpc'[w] \in {"unlock", "publish"}
            /\ count' = count + 1 /\ UNCHANGED <<linked, active>>
        BY <1>a, <2>4 DEF CountActive, CountNew, GotoW
      <3>2. ActiveNodes' = ActiveNodes
        BY <3>1 DEF ActiveNodes
      <3>3. QED
        BY <1>a, <1>c, <1>d, <2>b, <2>c, <3>1, <3>2 DEF CountInv
    <2>5. CASE Uncount(w)
      <3>1. /\ wpc[w] = "uncount" /\ wpc'[w] = "unlock"
            /\ count' = count - 1 /\ UNCHANGED <<linked, active>>
        BY <1>a, <2>5 DEF Uncount, GotoW
      <3>2. ActiveNodes' = ActiveNodes
        BY <3>1 DEF ActiveNodes
      <3>3. QED
        BY <1>a, <1>c, <1>d, <2>b, <2>c, <3>1, <3>2 DEF CountInv
    <2>6. CASE /\ ~Activate(w) /\ ~LinkNode(w) /\ ~CountActive(w) /\ ~CountNew(w) /\ ~Uncount(w)
               /\ \A n \in Node : ~ClearMatched(w, n)
      <3>1. /\ UNCHANGED <<linked, active, count>>
            /\ wpc[w] \notin {"count", "countNew", "uncount"}
            /\ wpc'[w] \notin {"count", "countNew", "uncount"}
        <4>1. CASE SetUnmatched(w) \/ NodeFails(w) \/ ClearUnmatched(w) \/ PortUnlock(w)
                   \/ ReadersGone(w)
          BY <1>a, <4>1 DEF SetUnmatched, NodeFails, ClearUnmatched, PortUnlock, ReadersGone,
             ReturnW, GotoW, store
        <4>2. CASE \E n \in Node : SetMatched(w, n) \/ PickReusable(w, n)
          BY <1>a, <4>2 DEF SetMatched, PickReusable, GotoW, store
        <4>3. CASE FreeTag(w) \/ AssignTag(w) \/ StoreLevel(w) \/ PublishHead(w)
          BY <1>a, <4>3 DEF FreeTag, AssignTag, StoreLevel, PublishHead, GotoW
        <4>4. QED
          BY <1>2, <2>6, <4>1, <4>2, <4>3, InsideStep
      <3>2. ActiveNodes' = ActiveNodes
        BY <3>1 DEF ActiveNodes
      <3>3. QED
        BY <1>a, <1>c, <2>b, <2>c, <3>1, <3>2 DEF CountInv
    <2>7. QED
      BY <2>1, <2>2, <2>3, <2>4, <2>5, <2>6
  <1>3. QED
    BY <1>1, <1>2, <1>a DEF WriterPC, Changing

-----------------------------------------------------------------------------
LEMMA InitInv == Init => Inv
  <1> SUFFICES ASSUME Init PROVE Inv
    OBVIOUS
  <1>1. TypeOK
    BY TagFilterAssumption DEF Init, TypeOK, Node, NULL, WriterPC, ReaderPC
  <1>2. LockInv /\ WriterInv /\ RetagInv /\ StringInv /\ NoUseAfterFree
    BY TagFilterAssumption DEF Init, LockInv, Changing, WriterInv, RetagInv, StringInv,
       NoUseAfterFree
  <1>3. ReadersInv
    <2>1. \A n \in Node : Within(n) = {}
      BY DEF Init, Within
    <2>2. \A n \in Node : readers[n] = Cardinality(Within(n))
      BY <2>1, FS_EmptySet DEF Init
    <2>3. QED
      BY <2>2 DEF Init, ReadersInv, NULL
  <1>4. CountInv
    <2>1. ActiveNodes = {} /\ Uncounted = 0
      BY DEF Init, ActiveNodes, Uncounted
    <2>2. QED
      BY <2>1, FS_EmptySet DEF Init, CountInv
  <1>5. QED
    BY <1>1, <1>2, <1>3, <1>4 DEF Inv, FilterInv

\* Types are kept by the writers' steps ...
LEMMA WriterTyped ==
    ASSUME Inv, NEW w \in Writer, BeginWriter(w) \/ WriterStep(w) PROVE TypeOK'
  <1>t. TypeOK /\ LockInv /\ WriterInv /\ CountInv
    BY DEF Inv, FilterInv
  <1> USE TagFilterAssumption
  <1>a. /\ UNCHANGED <<reading, readers>> /\ count' \in Nat
    BY <1>t, WriterFrame, CountStep
  <1>b. allowed \in [Reader -> SUBSET (Level \cup {Unset})] /\ defaults \in [Reader -> SUBSET Level]
    BY <1>t DEF TypeOK
  <1>c. Target(w) \in Level \cup {Unset}
    BY <1>t DEF Target, TypeOK
  <1>d. Announce(w) => allowed' \in [Reader -> SUBSET (Level \cup {Unset})]
    BY <1>b, <1>c DEF Announce
  <1>1. ASSUME NEW l \in Level, SetDefault(w, l) PROVE TypeOK'
    <2>1. defaults' \in [Reader -> SUBSET Level]
      BY <1>b, <1>1 DEF SetDefault
    <2>2. QED
      BY <1>t, <1>1, <2>1 DEF SetDefault, TypeOK, writing, reading
  <1>2. ASSUME NEW g \in Tag, NEW l \in Level, BeginSet(w, g, l) PROVE TypeOK'
    BY <1>t, <1>2 DEF BeginSet, TypeOK, WriterPC, GotoW, store, reading, history
  <1>3. ASSUME NEW g \in Tag, BeginClear(w, g) PROVE TypeOK'
    BY <1>t, <1>3 DEF BeginClear, TypeOK, WriterPC, GotoW, store, reading, history
  <1>4. CASE PortLock(w)
    BY <1>t, <1>4 DEF PortLock, TypeOK, WriterPC, GotoW, store, reading, history
  <1>5. CASE SetUnmatched(w)
    BY <1>t, <1>5 DEF SetUnmatched, TypeOK, WriterPC, GotoW, store, reading, history
  <1>6. CASE CopyTag(w)
    BY <1>t, <1>6 DEF CopyTag, TypeOK, WriterPC, GotoW, store, reading, history
  <1>7. CASE CopyFails(w)
    BY <1>t, <1>7 DEF CopyFails, ReturnW, TypeOK, WriterPC, NULL, store, reading, history
  <1>8. CASE NodeFails(w) \/ ClearUnmatched(w)
    <2>1. ReturnW(w) /\ portLock' = NoTask /\ UNCHANGED <<store, reading, history>>
      BY <1>8 DEF NodeFails, ClearUnmatched
    <2>2. QED
      BY <1>t, <2>1 DEF ReturnW, TypeOK, WriterPC, NULL, store, reading, history
  <1>9. ASSUME NEW n \in Node, SetMatched(w, n) PROVE TypeOK'
    BY <1>t, <1>d, <1>9 DEF SetMatched, TypeOK, WriterPC, GotoW, reading
  <1>10. ASSUME NEW n \in Node, PickReusable(w, n) PROVE TypeOK'
    BY <1>t, <1>d, <1>10 DEF PickReusable, TypeOK, WriterPC, GotoW, store, reading
  <1>11. ASSUME NEW n \in Node, ClearMatched(w, n) PROVE TypeOK'
    BY <1>t, <1>d, <1>11 DEF ClearMatched, TypeOK, WriterPC, GotoW, reading
  <1>12. CASE ReadersGone(w)
    BY <1>t, <1>12 DEF ReadersGone, TypeOK, WriterPC, GotoW, store, reading, history
  <1>13. CASE FreeTag(w) \/ AssignTag(w) \/ StoreLevel(w)
    BY <1>t, <1>13 DEF FreeTag, AssignTag, StoreLevel, TypeOK, WriterPC, GotoW, reading, history
  <1>14. CASE Activate(w)
    BY <1>t, <1>14 DEF Activate, TypeOK, WriterPC, GotoW, reading, history
  <1>15. CASE CountActive(w) \/ CountNew(w) \/ Uncount(w)
    BY <1>t, <1>a, <1>15 DEF CountActive, CountNew, Uncount, TypeOK, WriterPC, GotoW, reading, history
  <1>16. CASE LinkNode(w)
    <2>1. linked' \in 0 .. MaxNodes /\ head' \in 0 .. linked'
      BY <1>t, <1>16 DEF LinkNode, Link, TypeOK, Node
    <2>2. QED
      BY <1>t, <1>d, <1>16, <2>1 DEF LinkNode, Link, TypeOK, WriterPC, GotoW, reading
  <1>17. CASE PublishHead(w)
    BY <1>t, <1>17 DEF PublishHead, TypeOK, WriterPC, GotoW, reading, history
  <1>18. CASE PortUnlock(w)
    <2>1. peak' \in Nat
      BY <1>t, <1>18, ConfiguredType DEF PortUnlock, TypeOK
    <2>2. config' \in [Tag -> Level \cup {Unset}]
      BY <1>t, <1>c, <1>18 DEF PortUnlock, TypeOK
    <2>3. QED
      BY <1>t, <1>18, <2>1, <2>2 DEF PortUnlock, ReturnW, TypeOK, WriterPC, NULL, store, reading
  <1>19. QED
    BY <1>1, <1>2, <1>3, <1>4, <1>5, <1>6, <1>7, <1>8, <1>9, <1>10, <1>11, <1>12, <1>13, <1>14,
       <1>15, <1>16, <1>17, <1>18 DEF BeginWriter, WriterStep

\* ... and by the lookups' steps.
LEMMA LookupTyped ==
    ASSUME Inv, NEW r \in Reader, LookupStep(r) \/ \E g \in Tag : BeginLookup(r, g)
    PROVE  TypeOK'
  <1>t. TypeOK /\ ReadersInv
    BY DEF Inv, FilterInv
  <1>a. readers' \in [Node -> Nat]
    BY <1>t, ReadersStep
  <1>b. /\ rpc \in [Reader -> ReaderPC] /\ rnode \in [Reader -> Node \cup {NULL}]
        /\ head \in Node \cup {NULL} /\ MaxNodes \in Nat
    BY <1>t, TagFilterAssumption DEF TypeOK, Node, NULL
  <1>c. /\ UNCHANGED <<portLock, linked, head, tag, level, active, count, default, writing,
                       config, peak>>
    BY <1>t, LookupFrame
  <1>d. rnode[r] # NULL => rnode[r] - 1 \in Node \cup {NULL}
    BY <1>b DEF Node, NULL
  <1> DEFINE Rest == /\ held' \in [Reader -> Tag \cup {Freed}]
                     /\ matches' \in [Reader -> BOOLEAN]
                     /\ result' \in [Reader -> Level]
                     /\ allowed' \in [Reader -> SUBSET (Level \cup {Unset})]
                     /\ defaults' \in [Reader -> SUBSET Level]
                     /\ rtag' \in [Reader -> Tag \cup {Freed}]
             Walk == rpc' \in [Reader -> ReaderPC] /\ rnode' \in [Reader -> Node \cup {NULL}]
  <1>1. SUFFICES Rest /\ Walk
    BY <1>t, <1>a, <1>c DEF TypeOK, writing
  <1>e. /\ held \in [Reader -> Tag \cup {Freed}] /\ matches \in [Reader -> BOOLEAN]
        /\ result \in [Reader -> Level] /\ rtag \in [Reader -> Tag \cup {Freed}]
        /\ allowed \in [Reader -> SUBSET (Level \cup {Unset})]
        /\ defaults \in [Reader -> SUBSET Level]
        /\ tag \in [Node -> Tag \cup {Freed}] /\ level \in [Node -> Level] /\ default \in Level
    BY <1>t DEF TypeOK
  <1>2. ASSUME NEW g \in Tag, BeginLookup(r, g) PROVE Rest /\ Walk
    <2>1. \A w \in Writer : Target(w) \in Level \cup {Unset}
      BY <1>t DEF Target, TypeOK
    <2>2. config[g] \in Level \cup {Unset}
      BY <1>t DEF TypeOK
    <2>3. allowed' \in [Reader -> SUBSET (Level \cup {Unset})]
      BY <1>2, <1>e, <2>1, <2>2 DEF BeginLookup
    <2>4. QED
      BY <1>2, <1>b, <1>e, <2>3 DEF BeginLookup, GotoR, ReaderPC
  <1>3. CASE LoadCount(r) \/ EndOfList(r) \/ SeeActive(r) \/ RecheckInactive(r)
    BY <1>3, <1>b, <1>e DEF LoadCount, EndOfList, SeeActive, RecheckInactive, GotoR, ReaderPC, history
  <1>4. CASE LoadHead(r)
    BY <1>4, <1>b, <1>e DEF LoadHead, GotoR, ReaderPC, history
  <1>5. CASE SkipInactive(r)
    BY <1>5, <1>b, <1>d, <1>e DEF SkipInactive, history
  <1>6. CASE EnterNode(r)
    BY <1>6, <1>b, <1>e DEF EnterNode, GotoR, ReaderPC, history
  <1>7. CASE RecheckActive(r)
    <2>1. rnode[r] \in Node
      BY <1>7, <1>t, <1>b DEF RecheckActive, ReadersInv
    <2>2. QED
      BY <1>7, <1>b, <1>e, <2>1 DEF RecheckActive, GotoR, ReaderPC, history
  <1>8. CASE Compare(r)
    <2>1. matches' \in [Reader -> BOOLEAN]
      BY <1>8, <1>e DEF Compare
    <2>2. QED
      BY <1>8, <1>b, <1>e, <2>1 DEF Compare, GotoR, ReaderPC, history
  <1>9. CASE LoadLevel(r)
    <2>1. rnode[r] \in Node
      BY <1>9, <1>t, <1>b DEF LoadLevel, ReadersInv
    <2>2. QED
      BY <1>9, <1>b, <1>e, <2>1 DEF LoadLevel, GotoR, ReaderPC, history
  <1>10. CASE LeaveNode(r)
    <2>1. rnode[r] # NULL
      BY <1>10, <1>t DEF LeaveNode, ReadersInv
    <2>2. Rest
      BY <1>10, <1>e DEF LeaveNode, history
    <2>3. Walk
      <3>1. CASE matches[r]
        BY <1>10, <1>b, <3>1 DEF LeaveNode, GotoR, ReaderPC
      <3>2. CASE ~matches[r]
        BY <1>10, <1>b, <1>d, <2>1, <3>2 DEF LeaveNode, GotoR, ReaderPC
      <3>3. QED
        BY <3>1, <3>2
    <2>4. QED
      BY <2>2, <2>3
  <1>11. CASE LoadDefault(r)
    BY <1>11, <1>b, <1>e DEF LoadDefault, GotoR, ReaderPC, history
  <1>12. CASE EndLookup(r)
    BY <1>12, <1>b, <1>e, TagFilterAssumption DEF EndLookup, GotoR, ReaderPC, NULL
  <1>13. QED
    BY <1>2, <1>3, <1>4, <1>5, <1>6, <1>7, <1>8, <1>9, <1>10, <1>11, <1>12 DEF LookupStep

LEMMA StepInv == Inv /\ [Next]_vars => Inv'
  <1> SUFFICES ASSUME Inv, [Next]_vars PROVE Inv'
    OBVIOUS
  <1>a. /\ TypeOK /\ LockInv /\ ReadersInv /\ WriterInv /\ RetagInv /\ StringInv /\ CountInv
        /\ NoUseAfterFree
    BY DEF Inv, FilterInv
  <1>1. ASSUME NEW w \in Writer, BeginWriter(w) \/ WriterStep(w) PROVE Inv'
    <2>1. TypeOK'
      BY <1>1, WriterTyped
    <2>2. LockInv' /\ ReadersInv' /\ WriterInv'
      BY <1>a, <1>1, LockStep, ReadersKept, WriterInvStep
    <2>3. RetagInv' /\ StringInv' /\ NoUseAfterFree'
      BY <1>a, <1>1, RetagStep, StringStep
    <2>4. CountInv'
      BY <1>a, <1>1, CountStep
    <2>5. QED
      BY <2>1, <2>2, <2>3, <2>4 DEF Inv, FilterInv
  <1>2. ASSUME NEW r \in Reader, LookupStep(r) \/ \E g \in Tag : BeginLookup(r, g) PROVE Inv'
    <2>1. TypeOK'
      BY <1>2, LookupTyped
    <2>2. UNCHANGED <<portLock, linked, tag, active, count, wpc, wop, wtag, wnode>>
      BY <1>a, <1>2, LookupFrame DEF writing
    <2>3. LockInv' /\ WriterInv' /\ StringInv'
      BY <1>a, <2>2 DEF LockInv, Changing, WriterInv, StringInv
    <2>4. CountInv'
      BY <1>a, <2>2 DEF CountInv, ActiveNodes, Uncounted
    <2>5. ReadersInv'
      BY <1>a, <1>2, ReadersStep
    <2>6. RetagInv' /\ NoUseAfterFree'
      BY <1>a, <1>2, LookupSafe
    <2>7. QED
      BY <2>1, <2>3, <2>4, <2>5, <2>6 DEF Inv, FilterInv
  <1>3. CASE UNCHANGED vars
    <2>1. UNCHANGED <<portLock, linked, head, tag, level, active, readers, count, default>>
          /\ UNCHANGED <<wpc, wop, wtag, wlevel, wnode, copied>>
          /\ UNCHANGED <<rpc, rtag, rnode, held, matches, result>>
          /\ UNCHANGED <<config, allowed, defaults, peak>>
      BY <1>3 DEF vars, store, writing, reading, history
    <2>2. TypeOK' /\ LockInv' /\ WriterInv' /\ RetagInv' /\ StringInv' /\ NoUseAfterFree'
      BY <1>a, <2>1 DEF TypeOK, LockInv, Changing, WriterInv, RetagInv, StringInv, NoUseAfterFree
    <2>3. ReadersInv' /\ CountInv'
      BY <1>a, <2>1 DEF ReadersInv, Within, CountInv, ActiveNodes, Uncounted
    <2>4. QED
      BY <2>2, <2>3 DEF Inv, FilterInv
  <1>4. QED
    BY <1>1, <1>2, <1>3 DEF Next

LEMMA Inductive == Spec => []Inv
  <1>1. Init => Inv
    BY InitInv
  <1>2. Inv /\ [Next]_vars => Inv'
    BY StepInv
  <1>3. QED
    BY <1>1, <1>2, PTL DEF Spec

-----------------------------------------------------------------------------
(***************************************************************************)
(* Type correctness of the tag filter; in particular neither node->readers *)
(* nor s_active_tag_filter_count, both unsigned, is decremented below zero *)
(* by any interleaving.                                                    *)
(***************************************************************************)
THEOREM FilterTypeCorrect == Spec => []TypeOK
  <1>1. Inv => TypeOK
    BY DEF Inv
  <1>2. QED
    BY <1>1, Inductive, PTL

(***************************************************************************)
(* The invariant of the filter list holds for any number of threads and    *)
(* nodes: reader counts are exact, one writer at a time owns a string it   *)
(* replaces, and the counter of active nodes is exact but for the flag     *)
(* change in progress.                                                     *)
(***************************************************************************)
THEOREM FilterCorrect == Spec => []FilterInv
  <1>1. Inv => FilterInv
    BY DEF Inv
  <1>2. QED
    BY <1>1, Inductive, PTL

(***************************************************************************)
(* No lookup reads a tag string after on9log_set_tag_level freed it or     *)
(* gave its node to another tag.                                           *)
(***************************************************************************)
THEOREM StringsAreSafe == Spec => []NoUseAfterFree
  <1>1. Inv => NoUseAfterFree
    BY DEF Inv
  <1>2. QED
    BY <1>1, Inductive, PTL

-----------------------------------------------------------------------------
(***************************************************************************)
(* What the list says, and what the writer inside the lock has made of it. *)
(***************************************************************************)

\* What the list says about tag g is v.
Says(g, v) ==
    /\ \A n \in 1 .. linked : tag[n] = g /\ active[n] => level[n] = v
    /\ v # Unset => \E n \in 1 .. linked : tag[n] = g /\ active[n]

\* A tag has one node at most.
UniqueInv == \A m, n \in 1 .. linked : tag[m] = tag[n] => m = n

\* For a tag no writer is changing, the list says what was configured.
SettledInv ==
    \A g \in Tag : (\A w \in Writer : Changing(w) => wtag[w] # g) => Says(g, config[g])

\* The writer gives its tag a node that was inactive or did not exist.
Reviving(w) == wpc[w] \in {"wait", "free", "assign", "level", "activate", "count"}
Linking(w)  == wpc[w] \in {"countNew", "publish"}

\* How far the writer inside the lock has come with its tag's node.
Progress(w) ==
    /\ wpc[w] \in {"idle", "lock", "scan", "malloc"} \/ Linking(w) => wnode[w] = NULL
    /\ Reviving(w) \/ wpc[w] = "uncount" => wnode[w] # NULL
    /\ Reviving(w) \/ Linking(w) => wop[w] = "set" /\ config[wtag[w]] = Unset
    /\ wpc[w] = "uncount" => wop[w] = "clear"
    /\ wpc[w] \in {"wait", "free", "assign"} => \A n \in 1 .. linked : tag[n] # wtag[w]
    /\ wpc[w] \in {"level", "activate", "count"} => tag[wnode[w]] = wtag[w]
    /\ wpc[w] \in {"activate", "count"} => level[wnode[w]] = wlevel[w]
    /\ wpc[w] = "count" => wnode[w] \in ActiveNodes
    /\ Linking(w) => linked \in ActiveNodes /\ tag[linked] = wtag[w]
    /\ wpc[w] \in {"count", "countNew", "publish", "uncount", "unlock"} => Says(wtag[w], Target(w))
    /\ Changing(w) /\ wnode[w] = NULL => \A n \in 1 .. linked : active[n]

ProgressInv == \A w \in Writer : Progress(w)

\* s_tag_filter_head is behind by the node that is not published yet.
HeadInv == head = IF \E w \in Writer : Linking(w) THEN linked - 1 ELSE linked

\* Only the writer that linked a node may have made the list longer than peak, until it unlocks.
PeakInv ==
    \/ linked <= peak
    \/ \E w \in Writer : Changing(w) /\ wnode[w] = NULL /\ linked <= peak + 1

ListInv == UniqueInv /\ SettledInv /\ ProgressInv /\ HeadInv /\ PeakInv

(***************************************************************************)
(* What a lookup may still find.                                           *)
(***************************************************************************)
\* What tag g is set to, or is being set to.
Current(g) == {config[g]} \cup {Target(w) : w \in {v \in Writer : wtag[v] = g /\ Changing(v)}}

\* The histories of a running lookup contain what is true now.
HistoryInv ==
    \A r \in Reader : rpc[r] # "idle" =>
       rtag[r] \in Tag /\ Current(rtag[r]) \subseteq allowed[r] /\ default \in defaults[r]

\* The node of lookup r's tag is among nodes 1 .. n, unless the tag was without one.
Ahead(r, n) == Unset \in allowed[r] \/ \E m \in 1 .. n : tag[m] = rtag[r] /\ active[m]

\* What a lookup has read, and that it has not passed its tag's node.
WalkInv ==
    \A r \in Reader :
       /\ rpc[r] \in {"idle", "count", "head", "visit", "enter", "recheck", "compare"} => ~matches[r]
       /\ rpc[r] \in {"visit", "enter", "recheck", "compare", "load"} => Ahead(r, rnode[r])
       /\ rpc[r] \in {"compare", "load"} =>
             /\ tag[rnode[r]] = held[r]
             /\ held[r] = rtag[r] => level[rnode[r]] \in allowed[r]
       /\ rpc[r] = "load" => matches[r] = (held[r] = rtag[r])
       /\ rpc[r] = "leave" => IF matches[r] THEN result[r] \in allowed[r] ELSE Ahead(r, rnode[r] - 1)
       /\ rpc[r] = "default" => Unset \in allowed[r]

LookupInv == HistoryInv /\ WalkInv /\ LookupRegular

-----------------------------------------------------------------------------
(***************************************************************************)
(* The list under its writers.  Inside the lock a writer is alone, so what *)
(* is to be shown of the list can be said of that writer only.             *)
(***************************************************************************)
Alone(w) ==
    \A v \in Writer \ {w} : wpc[v] \in {"idle", "lock", "malloc"} /\ wnode[v] = NULL

\* ListInv as the only writer that may be inside the lock sees it.
Own(w) ==
    /\ UniqueInv
    /\ \A g \in Tag : (Changing(w) => wtag[w] # g) => Says(g, config[g])
    /\ Progress(w)
    /\ head = IF Linking(w) THEN linked - 1 ELSE linked
    /\ linked <= peak \/ (Changing(w) /\ wnode[w] = NULL /\ linked <= peak + 1)

LEMMA Solo == ASSUME NEW w \in Writer PROVE Alone(w) => (ListInv <=> Own(w))
  <1> SUFFICES ASSUME Alone(w) PROVE ListInv <=> Own(w)
    OBVIOUS
  <1>1. \A v \in Writer \ {w} : ~Changing(v) /\ ~Linking(v)
    BY DEF Alone, Changing, Linking
  <1>2. \A v \in Writer \ {w} : Progress(v)
    BY DEF Alone, Progress, Reviving, Linking, Changing
  <1>3. SettledInv <=> \A g \in Tag : (Changing(w) => wtag[w] # g) => Says(g, config[g])
    BY <1>1 DEF SettledInv
  <1>4. HeadInv <=> head = IF Linking(w) THEN linked - 1 ELSE linked
    BY <1>1 DEF HeadInv
  <1>5. PeakInv <=> linked <= peak \/ (Changing(w) /\ wnode[w] = NULL /\ linked <= peak + 1)
    BY <1>1 DEF PeakInv
  <1>6. QED
    BY <1>2, <1>3, <1>4, <1>5 DEF ListInv, Own, ProgressInv

LEMMA SoloNext == ASSUME NEW w \in Writer PROVE (Alone(w) => (ListInv <=> Own(w)))'
  BY Solo, PTL

\* What a writer's step leaves to the other writers.
LEMMA OtherWriters ==
    ASSUME TypeOK, NEW w \in Writer, BeginWriter(w) \/ WriterStep(w)
    PROVE  /\ \A v \in Writer \ {w} : wop'[v] = wop[v] /\ wlevel'[v] = wlevel[v]
           /\ UNCHANGED <<config, peak>> \/ PortUnlock(w)
  <1>1. wop \in [Writer -> {"set", "clear"}] /\ wlevel \in [Writer -> Level]
    BY DEF TypeOK
  <1>2. CASE BeginWriter(w)
    BY <1>1, <1>2 DEF BeginWriter, SetDefault, BeginSet, BeginClear, writing, history
  <1>3. CASE PortLock(w) \/ SetUnmatched(w) \/ CopyTag(w) \/ ReadersGone(w)
    BY <1>1, <1>3 DEF PortLock, SetUnmatched, CopyTag, ReadersGone, history
  <1>4. CASE CopyFails(w) \/ NodeFails(w) \/ ClearUnmatched(w) \/ PortUnlock(w)
    BY <1>1, <1>4 DEF CopyFails, NodeFails, ClearUnmatched, PortUnlock, ReturnW, history
  <1>5. CASE \E n \in Node : SetMatched(w, n) \/ PickReusable(w, n) \/ ClearMatched(w, n)
    BY <1>1, <1>5 DEF SetMatched, PickReusable, ClearMatched
  <1>6. CASE FreeTag(w) \/ AssignTag(w) \/ StoreLevel(w)
    BY <1>1, <1>6 DEF FreeTag, AssignTag, StoreLevel, history
  <1>7. CASE Activate(w) \/ CountActive(w) \/ CountNew(w) \/ PublishHead(w) \/ Uncount(w)
    BY <1>1, <1>7 DEF Activate, CountActive, CountNew, PublishHead, Uncount, history
  <1>8. CASE LinkNode(w)
    BY <1>1, <1>8 DEF LinkNode, Link
  <1>9. QED
    BY <1>2, <1>3, <1>4, <1>5, <1>6, <1>7, <1>8 DEF WriterStep

\* A writer outside the lock has no node yet, and its step concerns nobody else.
LEMMA ListOutside ==
    ASSUME TypeOK, ListInv, NEW w \in Writer, BeginWriter(w) \/ WriterStep(w),
           wpc[w] \in {"idle", "lock", "malloc"}
    PROVE  ListInv'
  <1>a. /\ UNCHANGED <<linked, head, tag, level, active>>
        /\ wpc'[w] \in {"idle", "lock", "malloc", "scan"}
    BY OutsideStep
  <1>b. /\ UNCHANGED <<config, peak>>
        /\ \A v \in Writer \ {w} : /\ wpc'[v] = wpc[v] /\ wtag'[v] = wtag[v] /\ wnode'[v] = wnode[v]
                                   /\ wop'[v] = wop[v] /\ wlevel'[v] = wlevel[v]
    BY OtherWriters, WriterFrame DEF PortUnlock
  <1>c. wnode[w] = NULL /\ wnode'[w] = NULL
    <2>1. wnode[w] = NULL /\ wnode \in [Writer -> Node \cup {NULL}]
      BY DEF ListInv, ProgressInv, Progress, TypeOK
    <2>2. CASE BeginWriter(w)
      BY <2>1, <2>2 DEF BeginWriter, SetDefault, BeginSet, BeginClear, writing
    <2>3. CASE PortLock(w) \/ CopyTag(w) \/ CopyFails(w)
      BY <2>1, <2>3 DEF PortLock, CopyTag, CopyFails, ReturnW
    <2>4. CASE WriterStep(w) /\ ~(PortLock(w) \/ CopyTag(w) \/ CopyFails(w))
      BY <2>4 DEF WriterStep, SetUnmatched, SetMatched, PickReusable, ClearMatched, ReadersGone,
         FreeTag, AssignTag, StoreLevel, Activate, CountActive, LinkNode, Link, NodeFails, CountNew,
         PublishHead, ClearUnmatched, Uncount, PortUnlock
    <2>5. QED
      BY <2>1, <2>2, <2>3, <2>4
  <1>d. \A g, v : Says(g, v)' <=> Says(g, v)
    BY <1>a DEF Says
  <1>e. ~Changing(w) /\ ~Changing(w)' /\ ~Linking(w) /\ ~Linking(w)'
    BY <1>a DEF Changing, Linking
  <1>f. \A v \in Writer \ {w} : /\ Changing(v)' <=> Changing(v)
                                /\ Linking(v)' <=> Linking(v)
                                /\ Target(v)' = Target(v)
    BY <1>b DEF Changing, Linking, Target
  <1>1. UniqueInv'
    BY <1>a DEF ListInv, UniqueInv
  <1>2. SettledInv'
    <2> SUFFICES ASSUME NEW g \in Tag, \A v \in Writer : Changing(v)' => wtag'[v] # g
                 PROVE  Says(g, config[g])'
      BY DEF SettledInv
    <2>1. \A v \in Writer : Changing(v) => wtag[v] # g
      BY <1>b, <1>e, <1>f
    <2>2. Says(g, config[g])
      BY <2>1 DEF ListInv, SettledInv
    <2>3. QED
      BY <1>a, <1>b, <2>2 DEF Says
  <1>3. Progress(w)'
    BY <1>a, <1>c DEF Progress, Reviving, Linking, Changing
  <1>4. ASSUME NEW v \in Writer \ {w} PROVE Progress(v)'
    <2>1. Progress(v)
      BY DEF ListInv, ProgressInv
    <2>2. ActiveNodes' = ActiveNodes /\ (Says(wtag[v], Target(v))' <=> Says(wtag[v], Target(v)))
      BY <1>a, <1>b, <1>f DEF ActiveNodes, Says
    <2>3. QED
      BY <2>1, <2>2, <1>a, <1>b DEF Progress, Reviving, Linking, Changing
  <1>5. HeadInv' /\ PeakInv'
    BY <1>a, <1>b, <1>e, <1>f DEF ListInv, HeadInv, PeakInv
  <1>6. QED
    BY <1>1, <1>2, <1>3, <1>4, <1>5 DEF ListInv, ProgressInv

\* What the invariants of the list leave to show, once the writer is alone.
LEMMA AloneInside ==
    ASSUME TypeOK, LockInv, ListInv, NEW w \in Writer, BeginWriter(w) \/ WriterStep(w),
           wpc[w] = "scan" \/ Changing(w)
    PROVE  Alone(w) /\ Alone(w)'
  <1>1. \A v \in Writer \ {w} : wpc[v] \in {"idle", "lock", "malloc"}
    BY Others
  <1>2. \A v \in Writer \ {w} : wpc'[v] = wpc[v] /\ wnode'[v] = wnode[v]
    BY WriterFrame
  <1>3. QED
    BY <1>1, <1>2 DEF Alone, ListInv, ProgressInv, Progress

\* A tag no active node has is configured to nothing.
LEMMA SaysUnset ==
    ASSUME NEW g, NEW v, Says(g, v), \A n \in 1 .. linked : tag[n] = g => ~active[n]
    PROVE  v = Unset
  BY DEF Says

\* The call returns without effect, or waits no longer.
LEMMA OwnNothing ==
    ASSUME TypeOK, NEW w \in Writer, Own(w),
           \/ SetUnmatched(w) \/ NodeFails(w) \/ ClearUnmatched(w) \/ ReadersGone(w)
    PROVE  Own(w)'
  <1>a. wpc \in [Writer -> WriterPC] /\ wnode \in [Writer -> Node \cup {NULL}]
    BY DEF TypeOK
  <1>b. UNCHANGED <<linked, head, tag, level, active, config, peak>>
    BY DEF SetUnmatched, NodeFails, ClearUnmatched, ReadersGone, store, history
  <1>c. \A g, v : Says(g, v)' <=> Says(g, v)
    BY <1>b DEF Says
  <1>d. UniqueInv' /\ ActiveNodes' = ActiveNodes
    BY <1>b DEF Own, UniqueInv, ActiveNodes
  <1>e. \A g \in Tag : Says(g, config[g]) => Says(g, config[g])'
    BY <1>b DEF Says
  <1>1. CASE ReadersGone(w)
    <2>1. /\ wpc[w] = "wait" /\ wpc'[w] = "free"
          /\ UNCHANGED <<wop, wtag, wlevel, wnode>>
      BY <1>1, <1>a DEF ReadersGone, GotoW
    <2>2. Progress(w)'
      BY <2>1, <1>b DEF Own, Progress, Reviving, Linking, Changing
    <2>3. QED
      BY <2>1, <2>2, <1>b, <1>d, <1>e DEF Own, Linking, Changing
  <1>2. CASE SetUnmatched(w) \/ NodeFails(w) \/ ClearUnmatched(w)
    <2>1. wpc[w] = "scan" /\ wpc'[w] \in {"idle", "malloc"}
      BY <1>2, <1>a DEF SetUnmatched, NodeFails, ClearUnmatched, ReturnW, GotoW
    <2>2. wnode'[w] = NULL
      <3>1. wnode[w] = NULL
        BY <2>1 DEF Own, Progress
      <3>2. QED
        BY <1>2, <1>a, <3>1 DEF SetUnmatched, NodeFails, ClearUnmatched, ReturnW
    <2>3. Progress(w)'
      BY <2>1, <2>2 DEF Progress, Reviving, Linking, Changing
    <2>4. QED
      BY <2>1, <2>3, <1>b, <1>d, <1>e DEF Own, Linking, Changing
  <1>3. QED
    BY <1>1, <1>2

\* The counter follows, and the new node is published.
LEMMA OwnCount ==
    ASSUME TypeOK, NEW w \in Writer, Own(w),
           \/ CountActive(w) \/ CountNew(w) \/ Uncount(w) \/ PublishHead(w)
    PROVE  Own(w)'
  <1>a. wpc \in [Writer -> WriterPC] /\ linked \in Nat
    BY TagFilterAssumption DEF TypeOK
  <1>b. UNCHANGED <<linked, tag, level, active, config, peak, wop, wtag, wlevel, wnode>>
    BY DEF CountActive, CountNew, Uncount, PublishHead, history
  <1>c. Says(wtag[w], Target(w)) => Says(wtag[w], Target(w))'
    BY <1>b DEF Says, Target
  <1>d. UniqueInv' /\ ActiveNodes' = ActiveNodes
    BY <1>b DEF Own, UniqueInv, ActiveNodes
  <1>e. \A g \in Tag : Says(g, config[g]) => Says(g, config[g])'
    BY <1>b DEF Says
  <1>1. \/ wpc[w] \in {"count", "uncount"} /\ wpc'[w] = "unlock" /\ head' = head
        \/ wpc[w] = "countNew" /\ wpc'[w] = "publish" /\ head' = head
        \/ wpc[w] = "publish" /\ wpc'[w] = "unlock" /\ head' = linked
    BY <1>a DEF CountActive, CountNew, Uncount, PublishHead, GotoW
  <1>2. Progress(w)'
    BY <1>b, <1>c, <1>d, <1>1 DEF Own, Progress, Reviving, Linking, Changing
  <1>3. QED
    BY <1>b, <1>d, <1>e, <1>1, <1>2 DEF Own, Linking, Changing

\* The tag has a node, whose level is stored.
LEMMA OwnSetMatched ==
    ASSUME TypeOK, NEW w \in Writer, NEW n \in Node, Own(w), wtag[w] \in Tag, SetMatched(w, n)
    PROVE  Own(w)'
  <1>a. /\ wpc \in [Writer -> WriterPC] /\ wnode \in [Writer -> Node \cup {NULL}]
        /\ level \in [Node -> Level] /\ linked \in 0 .. MaxNodes /\ MaxNodes \in Nat
        /\ wlevel \in [Writer -> Level]
    BY TagFilterAssumption DEF TypeOK
  <1>b. /\ UNCHANGED <<linked, head, tag, active, config, peak, wop, wtag, wlevel>>
        /\ wpc[w] = "scan" /\ wop[w] = "set"
        /\ n \in 1 .. linked /\ tag[n] = wtag[w]
        /\ level' = [level EXCEPT ![n] = wlevel[w]]
        /\ wnode'[w] = n
        /\ wpc'[w] = IF active[n] THEN "unlock" ELSE "activate"
    BY <1>a DEF SetMatched, FirstOf, Matching, GotoW
  <1>c. UniqueInv' /\ \A m \in 1 .. linked : tag[m] = wtag[w] => m = n
    BY <1>b DEF Own, UniqueInv
  <1>d. ~Changing(w) /\ Changing(w)' /\ ~Linking(w) /\ ~Linking(w)' /\ n # NULL
    BY <1>a, <1>b DEF Changing, Linking, Node, NULL
  <1>e. level'[n] = wlevel[w] /\ \A m \in Node \ {n} : level'[m] = level[m]
    BY <1>a, <1>b
  <1>f. 1 .. linked \subseteq Node
    BY <1>a DEF Node
  <1>1. ASSUME NEW g \in Tag, wtag[w] # g PROVE Says(g, config[g])'
    <2>1. Says(g, config[g])
      BY <1>d DEF Own
    <2>2. QED
      BY <1>1, <1>b, <1>e, <1>f, <2>1 DEF Says
  <1>2. Progress(w)'
    <2>1. CASE active[n]
      <3>1. Says(wtag[w], Target(w))'
        BY <2>1, <1>b, <1>c, <1>e DEF Says, Target
      <3>2. QED
        BY <2>1, <1>b, <1>d, <3>1 DEF Progress, Reviving, Linking
    <2>2. CASE ~active[n]
      <3>1. Says(wtag[w], config[wtag[w]])
        BY <1>d DEF Own
      <3>2. config[wtag[w]] = Unset
        BY <3>1, <2>2, <1>c, SaysUnset
      <3>3. QED
        BY <2>2, <3>2, <1>b, <1>d, <1>e DEF Progress, Reviving, Linking
    <2>3. QED
      BY <2>1, <2>2
  <1>3. linked <= peak
    BY <1>d DEF Own
  <1>4. QED
    BY <1>b, <1>c, <1>d, <1>1, <1>2, <1>3 DEF Own

\* An inactive node is chosen for a tag that has none.
LEMMA OwnPick ==
    ASSUME TypeOK, NEW w \in Writer, NEW n \in Node, Own(w), wtag[w] \in Tag, PickReusable(w, n)
    PROVE  Own(w)'
  <1>a. /\ wpc \in [Writer -> WriterPC] /\ wnode \in [Writer -> Node \cup {NULL}]
        /\ MaxNodes \in Nat
    BY TagFilterAssumption DEF TypeOK
  <1>b. /\ UNCHANGED <<linked, head, tag, level, active, config, peak, wop, wtag, wlevel>>
        /\ wpc[w] = "scan" /\ wop[w] = "set" /\ wpc'[w] = "wait" /\ wnode'[w] = n
        /\ \A m \in 1 .. linked : tag[m] # wtag[w]
    BY <1>a DEF PickReusable, Matching, GotoW, store
  <1>c. UniqueInv'
    BY <1>b DEF Own, UniqueInv
  <1>d. ~Changing(w) /\ Changing(w)' /\ ~Linking(w) /\ ~Linking(w)' /\ n # NULL
    BY <1>a, <1>b DEF Changing, Linking, Node, NULL
  <1>1. \A g \in Tag : Says(g, config[g]) /\ Says(g, config[g])'
    BY <1>b, <1>d DEF Own, Says
  <1>2. config[wtag[w]] = Unset
    BY <1>1, <1>b, SaysUnset
  <1>3. Progress(w)'
    BY <1>2, <1>b, <1>d DEF Progress, Reviving, Linking
  <1>4. QED
    BY <1>b, <1>c, <1>d, <1>1, <1>3 DEF Own

\* The inactive node loses its string, is given the new one, and its level.
LEMMA OwnRetag ==
    ASSUME TypeOK, WriterInv, StringInv, NEW w \in Writer, Alone(w), Own(w),
           FreeTag(w) \/ AssignTag(w) \/ StoreLevel(w)
    PROVE  Own(w)'
  <1> DEFINE n == wnode[w]
  <1>a. /\ wpc \in [Writer -> WriterPC] /\ linked \in 0 .. MaxNodes /\ MaxNodes \in Nat
        /\ tag \in [Node -> Tag \cup {Freed}] /\ level \in [Node -> Level]
    BY TagFilterAssumption DEF TypeOK
  <1>b. /\ UNCHANGED <<linked, head, active, config, peak, wop, wtag, wlevel, wnode>>
        /\ \/ /\ wpc[w] = "free" /\ wpc'[w] = "assign"
              /\ tag' = [tag EXCEPT ![n] = Freed] /\ level' = level
           \/ /\ wpc[w] = "assign" /\ wpc'[w] = "level"
              /\ tag' = [tag EXCEPT ![n] = wtag[w]] /\ level' = level
           \/ /\ wpc[w] = "level" /\ wpc'[w] = "activate"
              /\ level' = [level EXCEPT ![n] = wlevel[w]] /\ tag' = tag
    BY <1>a DEF FreeTag, AssignTag, StoreLevel, GotoW, history
  <1>c. n \in 1 .. linked /\ ~active[n] /\ wtag[w] \in Tag
    BY <1>b DEF WriterInv
  <1>d. Changing(w) /\ Changing(w)' /\ ~Linking(w) /\ ~Linking(w)'
    BY <1>b DEF Changing, Linking
  <1>e. 1 .. linked \subseteq Node
    BY <1>a DEF Node
  <1>f. \A m \in 1 .. linked : m # n => tag'[m] = tag[m] /\ level'[m] = level[m]
    BY <1>a, <1>b, <1>e
  <1>1. \A g \in Tag : Says(g, config[g]) => Says(g, config[g])'
    BY <1>b, <1>c, <1>f DEF Says
  <1>2. UniqueInv'
    <2>1. \A m \in 1 .. linked : m # n => tag'[m] # tag'[n]
      <3>1. CASE wpc[w] = "free"
        <4>1. \A m \in 1 .. linked : tag[m] # Freed
          BY <3>1 DEF StringInv, Alone
        <4>2. QED
          BY <3>1, <4>1, <1>a, <1>b, <1>c, <1>e, <1>f
      <3>2. CASE wpc[w] = "assign"
        <4>1. \A m \in 1 .. linked : tag[m] # wtag[w]
          BY <3>2 DEF Own, Progress
        <4>2. QED
          BY <3>2, <4>1, <1>a, <1>b, <1>c, <1>e, <1>f
      <3>3. CASE wpc[w] = "level"
        BY <3>3, <1>b, <1>c DEF Own, UniqueInv
      <3>4. QED
        BY <1>b, <3>1, <3>2, <3>3
    <2>2. \A l, m \in 1 .. linked : l # n /\ m # n /\ tag'[l] = tag'[m] => l = m
      BY <1>f DEF Own, UniqueInv
    <2>3. QED
      BY <1>b, <2>1, <2>2 DEF UniqueInv
  <1>3. Progress(w)'
    <2>1. config[wtag[w]] = Unset /\ wop[w] = "set" /\ n # NULL
      BY <1>b DEF Own, Progress, Reviving
    <2>2. wpc'[w] = "assign" => \A m \in 1 .. linked : tag'[m] # wtag[w]
      <3>1. CASE wpc[w] = "free"
        <4>1. \A m \in 1 .. linked : tag[m] # wtag[w]
          BY <3>1 DEF Own, Progress
        <4>2. tag'[n] = Freed /\ Freed # wtag[w]
          BY <3>1, <1>a, <1>b, <1>c, <1>e, TagFilterAssumption
        <4>3. QED
          BY <4>1, <4>2, <1>f
      <3>2. QED
        BY <3>1, <1>b
    <2>3. wpc'[w] \in {"level", "activate"} => tag'[n] = wtag[w]
      BY <1>a, <1>b, <1>c, <1>e DEF Own, Progress
    <2>4. wpc'[w] = "activate" => level'[n] = wlevel[w]
      BY <1>a, <1>b, <1>c, <1>e
    <2>5. QED
      BY <1>b, <2>1, <2>2, <2>3, <2>4 DEF Progress, Reviving, Linking
  <1>4. QED
    BY <1>b, <1>d, <1>1, <1>2, <1>3 DEF Own, Progress, Reviving

\* The node of the writer's tag becomes active.
LEMMA OwnActivate ==
    ASSUME TypeOK, WriterInv, NEW w \in Writer, Own(w), Activate(w)
    PROVE  Own(w)'
  <1> DEFINE n == wnode[w]
  <1>a. /\ wpc \in [Writer -> WriterPC] /\ linked \in 0 .. MaxNodes /\ MaxNodes \in Nat
        /\ active \in [Node -> BOOLEAN]
    BY TagFilterAssumption DEF TypeOK
  <1>b. /\ UNCHANGED <<linked, head, tag, level, config, peak, wop, wtag, wlevel, wnode>>
        /\ wpc[w] = "activate" /\ wpc'[w] = "count"
        /\ active' = [active EXCEPT ![n] = TRUE]
    BY <1>a DEF Activate, GotoW, history
  <1>c. /\ n \in 1 .. linked /\ n \in Node /\ n # NULL
        /\ config[wtag[w]] = Unset /\ wop[w] = "set" /\ wlevel[w] = level[n] /\ tag[n] = wtag[w]
    BY <1>a, <1>b DEF WriterInv, Own, Progress, Reviving, Node
  <1>d. Changing(w) /\ Changing(w)' /\ ~Linking(w) /\ ~Linking(w)'
    BY <1>b DEF Changing, Linking
  <1>e. UniqueInv' /\ \A m \in 1 .. linked : tag[m] = wtag[w] => m = n
    BY <1>b, <1>c DEF Own, UniqueInv
  <1>f. active'[n] /\ \A m \in 1 .. linked : m # n => active'[m] = active[m]
    BY <1>a, <1>b, <1>c DEF Node
  <1>1. ASSUME NEW g \in Tag, wtag[w] # g PROVE Says(g, config[g])'
    <2>1. Says(g, config[g])
      BY <1>1, <1>d DEF Own
    <2>2. QED
      BY <1>1, <1>b, <1>c, <1>f, <2>1 DEF Says
  <1>2. Says(wtag[w], Target(w))'
    BY <1>b, <1>c, <1>e, <1>f DEF Says, Target
  <1>3. Progress(w)'
    BY <1>b, <1>c, <1>f, <1>2 DEF Progress, Reviving, Linking, ActiveNodes
  <1>4. QED
    BY <1>b, <1>c, <1>d, <1>e, <1>1, <1>3 DEF Own

\* A node is linked for a tag that has none, when every other node is active.
LEMMA OwnLink ==
    ASSUME TypeOK, NEW w \in Writer, Own(w), wtag[w] \in Tag, LinkNode(w)
    PROVE  Own(w)'
  <1> DEFINE n == linked + 1
  <1>a. /\ wpc \in [Writer -> WriterPC] /\ linked \in 0 .. MaxNodes /\ MaxNodes \in Nat
        /\ tag \in [Node -> Tag \cup {Freed}] /\ level \in [Node -> Level]
        /\ active \in [Node -> BOOLEAN] /\ peak \in Nat /\ head \in Int
    BY TagFilterAssumption DEF TypeOK
  <1>b. /\ UNCHANGED <<head, config, peak, wop, wtag, wlevel, wnode>>
        /\ wpc[w] = "scan" /\ wop[w] = "set" /\ wpc'[w] = "countNew"
        /\ n \in Node /\ linked' = n
        /\ tag' = [tag EXCEPT ![n] = wtag[w]]
        /\ level' = [level EXCEPT ![n] = wlevel[w]]
        /\ active' = [active EXCEPT ![n] = TRUE]
        /\ \A m \in 1 .. linked : tag[m] # wtag[w]
        /\ \A m \in 1 .. linked : active[m]
    BY <1>a DEF LinkNode, Link, Matching, Inactive, GotoW
  <1>c. 1 .. linked \subseteq Node /\ 1 .. linked' = (1 .. linked) \cup {n}
        /\ n \notin 1 .. linked
    BY <1>a, <1>b DEF Node
  <1>d. ~Changing(w) /\ Changing(w)' /\ ~Linking(w) /\ Linking(w)' /\ wnode[w] = NULL
    BY <1>b DEF Changing, Linking, Own, Progress
  <1>e. /\ tag'[n] = wtag[w] /\ level'[n] = wlevel[w] /\ active'[n]
        /\ \A m \in 1 .. linked : /\ tag'[m] = tag[m] /\ level'[m] = level[m]
                                  /\ active'[m] = active[m]
    BY <1>a, <1>b, <1>c
  <1>1. UniqueInv'
    BY <1>b, <1>c, <1>e DEF Own, UniqueInv
  <1>2. \A g \in Tag : Says(g, config[g])
    BY <1>d DEF Own
  <1>3. ASSUME NEW g \in Tag, wtag[w] # g PROVE Says(g, config[g])'
    <2>1. Says(g, config[g])
      BY <1>2
    <2>2. QED
      BY <1>3, <1>b, <1>c, <1>e, <2>1 DEF Says
  <1>4. config[wtag[w]] = Unset
    BY <1>2, <1>b, SaysUnset
  <1>5. Says(wtag[w], Target(w))'
    BY <1>b, <1>c, <1>e DEF Says, Target
  <1>6. Progress(w)'
    BY <1>b, <1>c, <1>d, <1>e, <1>4, <1>5 DEF Progress, Reviving, Linking, ActiveNodes, NULL
  <1>7. head' = linked' - 1 /\ linked' <= peak' + 1
    BY <1>a, <1>b, <1>d DEF Own
  <1>8. QED
    BY <1>b, <1>d, <1>1, <1>3, <1>6, <1>7 DEF Own

\* The node of the tag is cleared.
LEMMA OwnClear ==
    ASSUME TypeOK, NEW w \in Writer, NEW n \in Node, Own(w), ClearMatched(w, n)
    PROVE  Own(w)'
  <1>a. /\ wpc \in [Writer -> WriterPC] /\ wnode \in [Writer -> Node \cup {NULL}]
        /\ active \in [Node -> BOOLEAN] /\ linked \in 0 .. MaxNodes /\ MaxNodes \in Nat
    BY TagFilterAssumption DEF TypeOK
  <1>b. /\ UNCHANGED <<linked, head, tag, level, config, peak, wop, wtag, wlevel>>
        /\ wpc[w] = "scan" /\ wop[w] = "clear"
        /\ n \in 1 .. linked /\ tag[n] = wtag[w]
        /\ active' = [active EXCEPT ![n] = FALSE]
        /\ wnode'[w] = n
        /\ wpc'[w] \in {"uncount", "unlock"}
    BY <1>a DEF ClearMatched, FirstOf, Matching, GotoW
  <1>c. UniqueInv' /\ \A m \in 1 .. linked : tag[m] = wtag[w] => m = n
    BY <1>b DEF Own, UniqueInv
  <1>d. ~Changing(w) /\ Changing(w)' /\ ~Linking(w) /\ ~Linking(w)' /\ n # NULL
    BY <1>a, <1>b DEF Changing, Linking, Node, NULL
  <1>e. ~active'[n] /\ \A m \in 1 .. linked : m # n => active'[m] = active[m]
    BY <1>a, <1>b DEF Node
  <1>1. ASSUME NEW g \in Tag, wtag[w] # g PROVE Says(g, config[g])'
    <2>1. Says(g, config[g])
      BY <1>d DEF Own
    <2>2. QED
      BY <1>1, <1>b, <1>e, <2>1 DEF Says
  <1>2. Says(wtag[w], Target(w))'
    BY <1>b, <1>c, <1>e DEF Says, Target
  <1>3. Progress(w)'
    BY <1>b, <1>d, <1>2 DEF Progress, Reviving, Linking
  <1>4. linked <= peak
    BY <1>d DEF Own
  <1>5. QED
    BY <1>b, <1>c, <1>d, <1>1, <1>3, <1>4 DEF Own

\* If every node is active and the list says what c holds, c has a tag for every node.
LEMMA EnoughTags ==
    ASSUME TypeOK, UniqueInv, NEW c, \A g \in Tag : Says(g, c[g]),
           \A n \in 1 .. linked : active[n] /\ tag[n] \in Tag
    PROVE  linked <= Configured(c)
  <1> DEFINE S == {g \in Tag : c[g] # Unset}
             f == [n \in 1 .. linked |-> tag[n]]
  <1>a. /\ linked \in 0 .. MaxNodes /\ MaxNodes \in Nat /\ level \in [Node -> Level]
        /\ Unset \notin Level
    BY TagFilterAssumption DEF TypeOK
  <1>1. ASSUME NEW n \in 1 .. linked PROVE tag[n] \in S
    <2>1. Says(tag[n], c[tag[n]]) /\ level[n] \in Level
      BY <1>a DEF Node
    <2>2. c[tag[n]] = level[n]
      BY <2>1 DEF Says
    <2>3. QED
      BY <1>a, <2>1, <2>2
  <1>2. f \in Injection(1 .. linked, S)
    BY <1>1 DEF UniqueInv, Injection, IsInjective
  <1>3. IsFiniteSet(S)
    BY FS_Subset, TagFilterAssumption
  <1>4. Cardinality(1 .. linked) <= Cardinality(S)
    BY <1>2, <1>3, FS_Injection
  <1>5. Cardinality(1 .. linked) = linked
    BY <1>a, FS_Interval
  <1>6. QED
    BY <1>4, <1>5 DEF Configured

\* The call has taken effect, and what it was about is configured.
LEMMA OwnUnlock ==
    ASSUME TypeOK, StringInv, WriterInv, NEW w \in Writer, Alone(w), Own(w), PortUnlock(w)
    PROVE  Own(w)'
  <1>a. /\ wpc \in [Writer -> WriterPC] /\ wnode \in [Writer -> Node \cup {NULL}]
        /\ config \in [Tag -> Level \cup {Unset}] /\ linked \in 0 .. MaxNodes /\ MaxNodes \in Nat
        /\ peak \in Nat /\ tag \in [Node -> Tag \cup {Freed}]
    BY TagFilterAssumption DEF TypeOK
  <1>b. /\ UNCHANGED <<linked, head, tag, level, active>>
        /\ wpc[w] = "unlock" /\ wpc'[w] = "idle" /\ wnode'[w] = NULL
        /\ config' = [config EXCEPT ![wtag[w]] = Target(w)]
        /\ peak' = IF Configured(config') > peak THEN Configured(config') ELSE peak
    BY <1>a DEF PortUnlock, ReturnW, store
  <1>c. wtag[w] \in Tag /\ Says(wtag[w], Target(w))
    BY <1>b DEF WriterInv, Own, Progress
  <1>d. Changing(w) /\ ~Changing(w)' /\ ~Linking(w) /\ ~Linking(w)'
    BY <1>b DEF Changing, Linking
  <1>1. \A g \in Tag : Says(g, config'[g])
    <2> TAKE g \in Tag
    <2>1. CASE g = wtag[w]
      BY <2>1, <1>a, <1>b, <1>c
    <2>2. CASE g # wtag[w]
      BY <2>2, <1>a, <1>b, <1>d DEF Own
    <2>3. QED
      BY <2>1, <2>2
  <1>2. \A g \in Tag : Says(g, config[g])'
    BY <1>1, <1>b DEF Says
  <1>3. UniqueInv'
    BY <1>b DEF Own, UniqueInv
  <1>4. Progress(w)'
    BY <1>b, <1>d DEF Progress, Reviving, Linking
  <1>5. linked' <= peak'
    <2>a. Configured(config') \in Nat
      BY ConfiguredType
    <2>1. CASE linked <= peak
      BY <2>1, <2>a, <1>a, <1>b
    <2>2. CASE wnode[w] = NULL
      <3>1. \A n \in 1 .. linked : active[n]
        BY <2>2, <1>d DEF Own, Progress
      <3>2. \A n \in 1 .. linked : tag[n] \in Tag
        <4>1. \A n \in 1 .. linked : tag[n] # Freed
          BY <1>b DEF StringInv, Alone
        <4>2. QED
          BY <4>1, <1>a DEF Node
      <3>3. linked <= Configured(config')
        BY <3>1, <3>2, <1>1, EnoughTags DEF Own
      <3>4. QED
        BY <3>3, <2>a, <1>a, <1>b
    <2>3. QED
      BY <2>1, <2>2 DEF Own
  <1>6. QED
    BY <1>b, <1>d, <1>2, <1>3, <1>4, <1>5 DEF Own

LEMMA ListStep ==
    ASSUME Inv, ListInv, NEW w \in Writer, BeginWriter(w) \/ WriterStep(w)
    PROVE  ListInv'
  <1>a. TypeOK /\ LockInv /\ WriterInv /\ StringInv
    BY DEF Inv, FilterInv
  <1>1. CASE wpc[w] \in {"idle", "lock", "malloc"}
    BY <1>a, <1>1, ListOutside
  <1>2. CASE wpc[w] = "scan" \/ Changing(w)
    <2>1. Alone(w) /\ Alone(w)'
      BY <1>a, <1>2, AloneInside
    <2>2. Own(w) /\ wtag[w] \in Tag
      BY <1>a, <1>2, <2>1, Solo DEF WriterInv, Changing
    <2>3. Own(w)'
      <3>1. CASE SetUnmatched(w) \/ NodeFails(w) \/ ClearUnmatched(w) \/ ReadersGone(w)
        BY <1>a, <2>2, <3>1, OwnNothing
      <3>2. CASE CountActive(w) \/ CountNew(w) \/ Uncount(w) \/ PublishHead(w)
        BY <1>a, <2>2, <3>2, OwnCount
      <3>3. ASSUME NEW n \in Node, SetMatched(w, n) \/ PickReusable(w, n) \/ ClearMatched(w, n)
            PROVE  Own(w)'
        BY <1>a, <2>2, <3>3, OwnSetMatched, OwnPick, OwnClear
      <3>4. CASE FreeTag(w) \/ AssignTag(w) \/ StoreLevel(w)
        BY <1>a, <2>1, <2>2, <3>4, OwnRetag
      <3>5. CASE Activate(w)
        BY <1>a, <2>2, <3>5, OwnActivate
      <3>6. CASE LinkNode(w)
        BY <1>a, <2>2, <3>6, OwnLink
      <3>7. CASE PortUnlock(w)
        BY <1>a, <2>1, <2>2, <3>7, OwnUnlock
      <3>8. QED
        BY <1>a, <1>2, <3>1, <3>2, <3>3, <3>4, <3>5, <3>6, <3>7, InsideStep
    <2>4. QED
      BY <2>1, <2>3, SoloNext
  <1>3. QED
    BY <1>a, <1>1, <1>2 DEF TypeOK, WriterPC, Changing

\* A step that leaves the list, the writers and the configuration alone keeps it.
LEMMA ListKept ==
    ASSUME ListInv, UNCHANGED <<linked, head, tag, level, active, writing, config, peak>>
    PROVE  ListInv'
  <1>1. UNCHANGED <<linked, head, tag, level, active, wpc, wop, wtag, wlevel, wnode, config, peak>>
    BY DEF writing
  <1>2. UniqueInv' /\ SettledInv'
    BY <1>1 DEF ListInv, UniqueInv, SettledInv, Says, Changing
  <1>3. ProgressInv'
    BY <1>1 DEF ListInv, ProgressInv, Progress, Says, Changing, Reviving, Linking, Target, ActiveNodes
  <1>4. HeadInv' /\ PeakInv'
    BY <1>1 DEF ListInv, HeadInv, PeakInv, Linking, Changing
  <1>5. QED
    BY <1>2, <1>3, <1>4 DEF ListInv

LEMMA InitList == Init => ListInv
  <1> SUFFICES ASSUME Init PROVE ListInv
    OBVIOUS
  <1>1. UniqueInv /\ SettledInv
    BY DEF Init, UniqueInv, SettledInv, Says
  <1>2. ProgressInv
    BY DEF Init, ProgressInv, Progress, Reviving, Linking, Changing
  <1>3. HeadInv /\ PeakInv
    BY DEF Init, HeadInv, PeakInv, Linking, NULL
  <1>4. QED
    BY <1>1, <1>2, <1>3 DEF ListInv

\* With nobody inside the lock, the invariant is what the list promises.
LEMMA ListWhenUnlocked == Inv /\ ListInv => ListIsConfiguration
  <1> SUFFICES ASSUME Inv, ListInv, portLock = NoTask PROVE ListIsConfiguration
    BY DEF ListIsConfiguration
  <1>a. /\ NoTask \notin Writer /\ MaxNodes \in Nat /\ linked \in 0 .. MaxNodes
        /\ level \in [Node -> Level] /\ Unset \notin Level
    BY TagFilterAssumption DEF Inv, TypeOK
  <1>b. \A w \in Writer : ~Changing(w) /\ ~Linking(w)
    BY <1>a DEF Inv, FilterInv, LockInv, Changing, Linking
  <1>1. head = linked /\ linked <= peak
    BY <1>b DEF ListInv, HeadInv, PeakInv
  <1>2. \A m, n \in 1 .. linked : tag[m] = tag[n] => m = n
    BY DEF ListInv, UniqueInv
  <1>3. ASSUME NEW g \in Tag
        PROVE  config[g] = IF \E n \in 1 .. linked : tag[n] = g /\ active[n]
                           THEN level[CHOOSE n \in 1 .. linked : tag[n] = g] ELSE Unset
    <2>1. Says(g, config[g])
      BY <1>b DEF ListInv, SettledInv
    <2>2. CASE \E n \in 1 .. linked : tag[n] = g /\ active[n]
      <3>1. PICK n \in 1 .. linked : tag[n] = g /\ active[n]
        BY <2>2
      <3>2. (CHOOSE m \in 1 .. linked : tag[m] = g) = n
        BY <3>1, <1>2
      <3>3. config[g] = level[n]
        BY <2>1, <3>1 DEF Says
      <3>4. QED
        BY <2>2, <3>2, <3>3
    <2>3. CASE ~\E n \in 1 .. linked : tag[n] = g /\ active[n]
      BY <2>1, <2>3 DEF Says
    <2>4. QED
      BY <2>2, <2>3
  <1>4. count = Cardinality({n \in 1 .. linked : active[n]})
    <2>1. {n \in 1 .. linked : active[n]} = ActiveNodes
      BY <1>a DEF Inv, FilterInv, CountInv, ActiveNodes, Node
    <2>2. Uncounted = 0
      BY <1>b DEF Uncounted, Changing
    <2>3. count \in Nat
      BY DEF Inv, TypeOK
    <2>4. count + Uncounted = Cardinality(ActiveNodes)
      BY DEF Inv, FilterInv, CountInv
    <2>5. QED
      BY <2>1, <2>2, <2>3, <2>4
  <1>5. QED
    BY <1>1, <1>2, <1>3, <1>4 DEF ListIsConfiguration

-----------------------------------------------------------------------------
(***************************************************************************)
(* What a lookup finds in the list, at any moment of a writer's work.      *)
(***************************************************************************)

\* A writer that changes its tag has a node in work, or has finished.
LEMMA ChangingCases ==
    ASSUME NEW w \in Writer, Changing(w)
    PROVE  Reviving(w) \/ Linking(w) \/ wpc[w] = "uncount" \/ wpc[w] = "unlock"
  BY DEF Changing, Reviving, Linking

\* A tag that has been set all the time has an active node ...
LEMMA CurrentHasNode ==
    ASSUME ListInv, NEW g \in Tag, Unset \notin Current(g)
    PROVE  \E n \in 1 .. linked : tag[n] = g /\ active[n]
  <1>1. config[g] # Unset
    BY DEF Current
  <1>2. CASE \A w \in Writer : Changing(w) => wtag[w] # g
    <2>1. Says(g, config[g])
      BY <1>2 DEF ListInv, SettledInv
    <2>2. QED
      BY <1>1, <2>1 DEF Says
  <1>3. ASSUME NEW w \in Writer, Changing(w), wtag[w] = g
        PROVE  \E n \in 1 .. linked : tag[n] = g /\ active[n]
    <2>1. Target(w) # Unset
      BY <1>3 DEF Current
    <2>2. Progress(w)
      BY DEF ListInv, ProgressInv
    <2>3. ~Reviving(w) /\ ~Linking(w)
      BY <1>1, <1>3, <2>2 DEF Progress
    <2>4. wpc[w] # "uncount"
      BY <2>1, <2>2 DEF Progress, Target
    <2>5. Says(g, Target(w))
      BY <1>3, <2>2, <2>3, <2>4, ChangingCases DEF Progress
    <2>6. QED
      BY <2>1, <2>5 DEF Says
  <1>4. QED
    BY <1>2, <1>3

\* ... that lookups can reach from the head, and that is counted.
LEMMA CurrentIsFound ==
    ASSUME Inv, ListInv, NEW g \in Tag, Unset \notin Current(g)
    PROVE  count # 0 /\ \E n \in 1 .. head : tag[n] = g /\ active[n]
  <1>a. /\ linked \in 0 .. MaxNodes /\ MaxNodes \in Nat /\ count \in Nat
        /\ count + Uncounted = Cardinality(ActiveNodes)
    BY TagFilterAssumption DEF Inv, FilterInv, TypeOK, CountInv
  <1>b. PICK n \in 1 .. linked : tag[n] = g /\ active[n]
    BY CurrentHasNode
  <1>c. config[g] # Unset
    BY DEF Current
  <1>d. \A w \in Writer : Reviving(w) \/ Linking(w) => wtag[w] # g
    BY <1>c DEF ListInv, ProgressInv, Progress
  <1>1. n \in 1 .. head
    <2>1. CASE \E w \in Writer : Linking(w)
      <3>1. PICK w \in Writer : Linking(w)
        BY <2>1
      <3>2. tag[linked] # g
        BY <3>1, <1>d DEF ListInv, ProgressInv, Progress
      <3>3. head = linked - 1
        BY <2>1 DEF ListInv, HeadInv
      <3>4. QED
        BY <1>a, <1>b, <3>2, <3>3
    <2>2. CASE ~\E w \in Writer : Linking(w)
      BY <2>2 DEF ListInv, HeadInv
    <2>3. QED
      BY <2>1, <2>2
  <1>2. count # 0
    <2>1. n \in ActiveNodes
      BY <1>a, <1>b DEF ActiveNodes, Node
    <2>2. Cardinality(ActiveNodes) \in Nat /\ Cardinality(ActiveNodes) # 0
      BY <2>1, ActiveFinite, FS_EmptySet
    <2>3. CASE Uncounted = 1
      <3>1. PICK w \in Writer : wpc[w] \in {"count", "countNew"}
        BY <2>3 DEF Uncounted
      <3>2. PICK m \in ActiveNodes : tag[m] = wtag[w]
        BY <3>1 DEF ListInv, ProgressInv, Progress, Linking
      <3>3. m # n
        BY <3>1, <3>2, <1>b, <1>d DEF Reviving, Linking
      <3>4. /\ IsFiniteSet(ActiveNodes \ {m})
            /\ Cardinality(ActiveNodes \ {m}) = Cardinality(ActiveNodes) - 1
        BY <3>2, ActiveFinite, FS_RemoveElement
      <3>5. Cardinality(ActiveNodes \ {m}) # 0
        BY <2>1, <3>3, <3>4, FS_EmptySet
      <3>6. QED
        BY <1>a, <2>2, <2>3, <3>4, <3>5
    <2>4. CASE Uncounted \in {0, -1}
      BY <1>a, <2>2, <2>4
    <2>5. QED
      BY <2>3, <2>4 DEF Uncounted
  <1>3. QED
    BY <1>b, <1>1, <1>2

\* The level of an active node is one its tag is set to, or is being set to.
LEMMA CurrentLevel ==
    ASSUME Inv, ListInv, NEW n \in 1 .. linked, active[n], tag[n] \in Tag
    PROVE  level[n] \in Current(tag[n])
  <1>1. CASE \A w \in Writer : Changing(w) => wtag[w] # tag[n]
    <2>1. Says(tag[n], config[tag[n]])
      BY <1>1 DEF ListInv, SettledInv
    <2>2. QED
      BY <2>1 DEF Says, Current
  <1>2. ASSUME NEW w \in Writer, Changing(w), wtag[w] = tag[n]
        PROVE  level[n] \in Current(tag[n])
    <2>1. Progress(w)
      BY DEF ListInv, ProgressInv
    <2>2. wpc[w] \notin {"wait", "free", "assign"}
      BY <1>2, <2>1 DEF Progress
    <2>3. wpc[w] \notin {"level", "activate"}
      <3>1. SUFFICES ASSUME wpc[w] \in {"level", "activate"} PROVE FALSE
        OBVIOUS
      <3>2. wnode[w] \in 1 .. linked /\ ~active[wnode[w]]
        BY <3>1 DEF Inv, FilterInv, WriterInv
      <3>3. tag[wnode[w]] = tag[n]
        BY <1>2, <2>1, <3>1 DEF Progress
      <3>4. QED
        BY <3>2, <3>3 DEF ListInv, UniqueInv
    <2>4. Says(tag[n], Target(w))
      BY <1>2, <2>1, <2>2, <2>3 DEF Progress, Changing
    <2>5. QED
      BY <1>2, <2>4 DEF Says, Current
  <1>3. QED
    BY <1>1, <1>2

-----------------------------------------------------------------------------
(***************************************************************************)
(* Writers and the histories of the lookups that run.                      *)
(***************************************************************************)

\* The steps that begin a change announce it; no other step touches what lookups may return.
LEMMA WriterAnnounces ==
    ASSUME TypeOK, LockInv, NEW w \in Writer, BeginWriter(w) \/ WriterStep(w), NEW g \in Tag
    PROVE  Current(g)' \subseteq Current(g) \cup
              (IF Announce(w) /\ wtag[w] = g THEN {Target(w)} ELSE {})
  <1>a. /\ wpc \in [Writer -> WriterPC] /\ wtag \in [Writer -> Tag \cup {Freed}]
        /\ config \in [Tag -> Level \cup {Unset}]
    BY DEF TypeOK
  <1>b. \A v \in Writer \ {w} : /\ wpc'[v] = wpc[v] /\ wtag'[v] = wtag[v]
                                /\ wop'[v] = wop[v] /\ wlevel'[v] = wlevel[v]
    BY WriterFrame, OtherWriters
  <1>c. \A v \in Writer \ {w} : (Changing(v)' <=> Changing(v)) /\ Target(v)' = Target(v)
    BY <1>b DEF Changing, Target
  <1>d. ASSUME NEW x, x \in Current(g)'
        PROVE  \/ x = config'[g]
               \/ Changing(w)' /\ wtag'[w] = g /\ x = Target(w)'
               \/ \E v \in Writer \ {w} : Changing(v) /\ wtag[v] = g /\ x = Target(v)
    BY <1>b, <1>c, <1>d DEF Current
  <1>e. \A v \in Writer : Changing(v) /\ wtag[v] = g => Target(v) \in Current(g)
    BY DEF Current
  <1>f. config[g] \in Current(g)
    BY DEF Current
  <1>1. CASE wpc[w] \in {"idle", "lock", "malloc"}
    <2>1. ~Changing(w)' /\ config' = config
      BY <1>1, OutsideStep, OtherWriters DEF Changing, PortUnlock
    <2>2. QED
      BY <1>d, <1>e, <1>f, <2>1
  <1>2. CASE SetUnmatched(w) \/ NodeFails(w) \/ ClearUnmatched(w)
    <2>1. ~Changing(w)' /\ config' = config
      BY <1>2, <1>a DEF SetUnmatched, NodeFails, ClearUnmatched, ReturnW, GotoW, history, Changing
    <2>2. QED
      BY <1>d, <1>e, <1>f, <2>1
  <1>3. CASE \/ LinkNode(w)
             \/ \E n \in Node : SetMatched(w, n) \/ PickReusable(w, n) \/ ClearMatched(w, n)
    <2>1. Announce(w) /\ UNCHANGED <<config, wop, wtag, wlevel>>
      BY <1>3 DEF LinkNode, Link, SetMatched, PickReusable, ClearMatched
    <2>2. Target(w)' = Target(w)
      BY <2>1 DEF Target
    <2>3. QED
      BY <1>d, <1>e, <1>f, <2>1, <2>2
  <1>4. CASE \/ ReadersGone(w) \/ FreeTag(w) \/ AssignTag(w) \/ StoreLevel(w) \/ Activate(w)
             \/ CountActive(w) \/ CountNew(w) \/ PublishHead(w) \/ Uncount(w)
    <2>1. Changing(w) /\ UNCHANGED <<config, wop, wtag, wlevel>>
      BY <1>4 DEF ReadersGone, FreeTag, AssignTag, StoreLevel, Activate, CountActive, CountNew,
         PublishHead, Uncount, history, Changing
    <2>2. Target(w)' = Target(w)
      BY <2>1 DEF Target
    <2>3. QED
      BY <1>d, <1>e, <1>f, <2>1, <2>2
  <1>5. CASE PortUnlock(w)
    <2>1. /\ Changing(w) /\ ~Changing(w)'
          /\ config' = [config EXCEPT ![wtag[w]] = Target(w)]
      BY <1>5, <1>a DEF PortUnlock, ReturnW, Changing
    <2>2. config'[g] = config[g] \/ (wtag[w] = g /\ config'[g] = Target(w))
      BY <1>a, <2>1
    <2>3. QED
      BY <1>d, <1>e, <1>f, <2>1, <2>2
  <1>6. QED
    BY <1>1, <1>2, <1>3, <1>4, <1>5, InsideStep, <1>a DEF WriterPC, Changing

\* A running lookup's histories keep up with a writer's step, and only grow.
LEMMA HistoryGrows ==
    ASSUME TypeOK, HistoryInv, NEW w \in Writer, BeginWriter(w) \/ WriterStep(w),
           NEW r \in Reader, rpc[r] # "idle"
    PROVE  /\ allowed[r] \subseteq allowed'[r] /\ defaults[r] \subseteq defaults'[r]
           /\ Announce(w) /\ wtag[w] = rtag[r] => Target(w) \in allowed'[r]
           /\ default' \in defaults'[r]
  <1>a. /\ allowed \in [Reader -> SUBSET (Level \cup {Unset})]
        /\ defaults \in [Reader -> SUBSET Level] /\ default \in defaults[r]
    BY DEF TypeOK, HistoryInv
  <1>1. Announce(w) => /\ allowed[r] \subseteq allowed'[r]
                       /\ wtag[w] = rtag[r] => Target(w) \in allowed'[r]
    BY <1>a DEF Announce
  <1>2. \/ \E l \in Level : SetDefault(w, l)
        \/ UNCHANGED <<default, defaults>>
    BY DEF BeginWriter, BeginSet, BeginClear, WriterStep, PortLock, SetUnmatched, CopyTag, CopyFails,
       SetMatched, PickReusable, ClearMatched, ReadersGone, FreeTag, AssignTag, StoreLevel, Activate,
       CountActive, LinkNode, Link, NodeFails, CountNew, PublishHead, ClearUnmatched, Uncount,
       PortUnlock, store, history
  <1>3. allowed' = allowed \/ Announce(w)
    BY DEF BeginWriter, SetDefault, BeginSet, BeginClear, WriterStep, PortLock, SetUnmatched, CopyTag,
       CopyFails, SetMatched, PickReusable, ClearMatched, ReadersGone, FreeTag, AssignTag, StoreLevel,
       Activate, CountActive, LinkNode, Link, NodeFails, CountNew, PublishHead, ClearUnmatched,
       Uncount, PortUnlock, history
  <1>4. defaults[r] \subseteq defaults'[r] /\ default' \in defaults'[r]
    BY <1>a, <1>2 DEF SetDefault
  <1>5. QED
    BY <1>1, <1>3, <1>4

\* An active node keeps its string, and stays active unless its tag is being cleared.
LEMMA ActiveKept ==
    ASSUME TypeOK, WriterInv, NEW w \in Writer, BeginWriter(w) \/ WriterStep(w),
           NEW n \in 1 .. linked, active[n]
    PROVE  /\ tag'[n] = tag[n]
           /\ active'[n] \/ (Announce(w) /\ wtag[w] = tag[n] /\ Target(w) = Unset)
  <1>a. /\ linked \in 0 .. MaxNodes /\ MaxNodes \in Nat /\ n \in Node
        /\ tag \in [Node -> Tag \cup {Freed}] /\ active \in [Node -> BOOLEAN]
        /\ n # linked + 1
    BY TagFilterAssumption DEF TypeOK, Node
  <1>1. CASE wpc[w] \in {"idle", "lock", "malloc"}
    BY <1>1, OutsideStep
  <1>2. CASE wpc[w] = "scan" \/ Changing(w)
    <2>1. CASE SetUnmatched(w) \/ NodeFails(w) \/ ClearUnmatched(w) \/ PortUnlock(w) \/ ReadersGone(w)
      BY <2>1 DEF SetUnmatched, NodeFails, ClearUnmatched, PortUnlock, ReadersGone, store
    <2>2. ASSUME NEW m \in Node, SetMatched(w, m) \/ PickReusable(w, m)
          PROVE  tag'[n] = tag[n] /\ active'[n]
      BY <2>2 DEF SetMatched, PickReusable, store
    <2>3. ASSUME NEW m \in Node, ClearMatched(w, m)
          PROVE  /\ tag'[n] = tag[n]
                 /\ active'[n] \/ (Announce(w) /\ wtag[w] = tag[n] /\ Target(w) = Unset)
      BY <2>3, <1>a DEF ClearMatched, FirstOf, Matching, Target
    <2>4. CASE FreeTag(w) \/ AssignTag(w)
      <3>1. ~active[wnode[w]] /\ active' = active
        BY <2>4 DEF WriterInv, FreeTag, AssignTag
      <3>2. QED
        BY <1>a, <2>4, <3>1 DEF FreeTag, AssignTag
    <2>5. CASE Activate(w)
      BY <1>a, <2>5 DEF Activate
    <2>6. CASE StoreLevel(w) \/ CountActive(w) \/ CountNew(w) \/ PublishHead(w) \/ Uncount(w)
      BY <2>6 DEF StoreLevel, CountActive, CountNew, PublishHead, Uncount
    <2>7. CASE LinkNode(w)
      BY <1>a, <2>7 DEF LinkNode, Link
    <2>8. QED
      BY <1>2, <2>1, <2>2, <2>3, <2>4, <2>5, <2>6, <2>7, InsideStep
  <1>3. QED
    BY <1>1, <1>2 DEF TypeOK, WriterPC, Changing

\* A node that a lookup compares or loads keeps its string, and its level unless its tag is being set.
LEMMA HeldKept ==
    ASSUME TypeOK, ReadersInv, RetagInv, NEW w \in Writer, BeginWriter(w) \/ WriterStep(w),
           NEW r \in Reader, rpc[r] \in {"compare", "load"}
    PROVE  /\ tag'[rnode[r]] = tag[rnode[r]]
           /\ \/ level'[rnode[r]] = level[rnode[r]]
              \/ Announce(w) /\ wtag[w] = tag[rnode[r]] /\ level'[rnode[r]] = Target(w)
  <1> DEFINE n == rnode[r]
  <1>a. /\ linked \in 0 .. MaxNodes /\ MaxNodes \in Nat /\ n \in Node /\ n <= linked
        /\ tag \in [Node -> Tag \cup {Freed}] /\ level \in [Node -> Level]
        /\ n # linked + 1
    BY TagFilterAssumption DEF TypeOK, ReadersInv, Node, NULL
  <1>b. wpc[w] \in {"free", "assign", "level"} => n # wnode[w]
    BY DEF RetagInv
  <1>1. CASE wpc[w] \in {"idle", "lock", "malloc"}
    BY <1>1, OutsideStep
  <1>2. CASE wpc[w] = "scan" \/ Changing(w)
    <2>1. CASE SetUnmatched(w) \/ NodeFails(w) \/ ClearUnmatched(w) \/ PortUnlock(w) \/ ReadersGone(w)
      BY <2>1 DEF SetUnmatched, NodeFails, ClearUnmatched, PortUnlock, ReadersGone, store
    <2>2. ASSUME NEW m \in Node, ClearMatched(w, m) \/ PickReusable(w, m)
          PROVE  tag'[n] = tag[n] /\ level'[n] = level[n]
      BY <2>2 DEF ClearMatched, PickReusable, store
    <2>3. ASSUME NEW m \in Node, SetMatched(w, m)
          PROVE  /\ tag'[n] = tag[n]
                 /\ \/ level'[n] = level[n]
                    \/ Announce(w) /\ wtag[w] = tag[n] /\ level'[n] = Target(w)
      BY <2>3, <1>a DEF SetMatched, FirstOf, Matching, Target
    <2>4. CASE FreeTag(w) \/ AssignTag(w) \/ StoreLevel(w)
      BY <1>a, <1>b, <2>4 DEF FreeTag, AssignTag, StoreLevel
    <2>5. CASE Activate(w) \/ CountActive(w) \/ CountNew(w) \/ PublishHead(w) \/ Uncount(w)
      BY <2>5 DEF Activate, CountActive, CountNew, PublishHead, Uncount
    <2>6. CASE LinkNode(w)
      BY <1>a, <2>6 DEF LinkNode, Link
    <2>7. QED
      BY <1>2, <2>1, <2>2, <2>3, <2>4, <2>5, <2>6, InsideStep
  <1>3. QED
    BY <1>1, <1>2 DEF TypeOK, WriterPC, Changing

\* A lookup does not lose its tag's node to a writer.
LEMMA AheadKept ==
    ASSUME TypeOK, WriterInv, HistoryInv, NEW w \in Writer, BeginWriter(w) \/ WriterStep(w),
           NEW r \in Reader, rpc[r] # "idle", NEW n \in Int, n <= linked, Ahead(r, n)
    PROVE  Unset \in allowed'[r] \/ \E m \in 1 .. n : tag'[m] = rtag[r] /\ active'[m]
  <1>1. CASE Unset \in allowed[r]
    BY <1>1, HistoryGrows
  <1>2. ASSUME NEW m \in 1 .. n, tag[m] = rtag[r], active[m]
        PROVE  Unset \in allowed'[r] \/ \E k \in 1 .. n : tag'[k] = rtag[r] /\ active'[k]
    <2>1. m \in 1 .. linked
      BY DEF TypeOK
    <2>2. /\ tag'[m] = tag[m]
          /\ active'[m] \/ (Announce(w) /\ wtag[w] = tag[m] /\ Target(w) = Unset)
      BY <1>2, <2>1, ActiveKept
    <2>3. QED
      BY <1>2, <2>2, HistoryGrows
  <1>3. QED
    BY <1>1, <1>2 DEF Ahead

LEMMA LookupKept ==
    ASSUME Inv, LookupInv, NEW w \in Writer, BeginWriter(w) \/ WriterStep(w)
    PROVE  LookupInv'
  <1>a. /\ TypeOK /\ LockInv /\ ReadersInv /\ WriterInv /\ RetagInv
        /\ HistoryInv /\ WalkInv /\ LookupRegular
    BY DEF Inv, FilterInv, LookupInv
  <1>b. UNCHANGED <<rpc, rtag, rnode, held, matches, result>>
    BY <1>a, WriterFrame DEF reading
  <1>c. \A r \in Reader : rpc[r] # "idle" =>
           /\ allowed[r] \subseteq allowed'[r] /\ defaults[r] \subseteq defaults'[r]
           /\ Announce(w) /\ wtag[w] = rtag[r] => Target(w) \in allowed'[r]
           /\ default' \in defaults'[r]
    BY <1>a, HistoryGrows
  <1>1. HistoryInv'
    <2> SUFFICES ASSUME NEW r \in Reader, rpc[r] # "idle"
                 PROVE  rtag[r] \in Tag /\ Current(rtag[r])' \subseteq allowed'[r]
      BY <1>b, <1>c DEF HistoryInv
    <2>1. rtag[r] \in Tag /\ Current(rtag[r]) \subseteq allowed[r]
      BY <1>a DEF HistoryInv
    <2>2. PICK g \in Tag : g = rtag[r]
      BY <2>1
    <2>3. Current(g)' \subseteq Current(g) \cup
                 (IF Announce(w) /\ wtag[w] = g THEN {Target(w)} ELSE {})
      BY <1>a, WriterAnnounces
    <2>4. Current(rtag[r])' = Current(g)'
      BY <1>b, <2>2 DEF Current
    <2>5. QED
      BY <1>c, <2>1, <2>2, <2>3, <2>4
  <1>2. WalkInv'
    <2> SUFFICES ASSUME NEW r \in Reader, rpc[r] # "idle"
                 PROVE  /\ rpc[r] \in {"visit", "enter", "recheck", "compare", "load"} =>
                             Ahead(r, rnode[r])'
                        /\ rpc[r] \in {"compare", "load"} =>
                             /\ tag'[rnode[r]] = held[r]
                             /\ held[r] = rtag[r] => level'[rnode[r]] \in allowed'[r]
                        /\ rpc[r] = "leave" =>
                             IF matches[r] THEN result[r] \in allowed'[r] ELSE Ahead(r, rnode[r] - 1)'
                        /\ rpc[r] = "default" => Unset \in allowed'[r]
      BY <1>a, <1>b DEF WalkInv
    <2>a. rnode[r] \in Int /\ rnode[r] <= linked /\ rnode[r] - 1 \in Int /\ rnode[r] - 1 <= linked
      BY <1>a, TagFilterAssumption DEF ReadersInv, TypeOK, Node, NULL
    <2>1. Ahead(r, rnode[r]) => Ahead(r, rnode[r])'
      BY <1>a, <1>b, <2>a, AheadKept DEF Ahead
    <2>2. Ahead(r, rnode[r] - 1) => Ahead(r, rnode[r] - 1)'
      BY <1>a, <1>b, <2>a, AheadKept DEF Ahead
    <2>3. ASSUME rpc[r] \in {"compare", "load"}
          PROVE  /\ tag'[rnode[r]] = held[r]
                 /\ held[r] = rtag[r] => level'[rnode[r]] \in allowed'[r]
      <3>1. /\ tag[rnode[r]] = held[r]
            /\ held[r] = rtag[r] => level[rnode[r]] \in allowed[r]
        BY <1>a, <2>3 DEF WalkInv
      <3>2. /\ tag'[rnode[r]] = tag[rnode[r]]
            /\ \/ level'[rnode[r]] = level[rnode[r]]
               \/ Announce(w) /\ wtag[w] = tag[rnode[r]] /\ level'[rnode[r]] = Target(w)
        BY <1>a, <2>3, HeldKept
      <3>3. QED
        BY <1>c, <3>1, <3>2
    <2>4. QED
      BY <1>a, <1>c, <2>1, <2>2, <2>3 DEF WalkInv
  <1>3. LookupRegular'
    BY <1>a, <1>b, <1>c DEF LookupRegular
  <1>4. QED
    BY <1>1, <1>2, <1>3 DEF LookupInv

-----------------------------------------------------------------------------
(***************************************************************************)
(* The lookups' own steps.                                                 *)
(***************************************************************************)
LEMMA OtherLookups ==
    ASSUME TypeOK, NEW r \in Reader, LookupStep(r) \/ \E g \in Tag : BeginLookup(r, g)
    PROVE  \A q \in Reader \ {r} :
              /\ rtag'[q] = rtag[q] /\ matches'[q] = matches[q] /\ result'[q] = result[q]
              /\ allowed'[q] = allowed[q] /\ defaults'[q] = defaults[q]
  <1>1. /\ rtag \in [Reader -> Tag \cup {Freed}] /\ matches \in [Reader -> BOOLEAN]
        /\ result \in [Reader -> Level] /\ allowed \in [Reader -> SUBSET (Level \cup {Unset})]
        /\ defaults \in [Reader -> SUBSET Level]
    BY DEF TypeOK
  <1>2. CASE \E g \in Tag : BeginLookup(r, g)
    BY <1>1, <1>2 DEF BeginLookup
  <1>3. CASE LoadCount(r) \/ LoadHead(r) \/ EndOfList(r) \/ SkipInactive(r) \/ SeeActive(r)
             \/ EnterNode(r) \/ LeaveNode(r) \/ RecheckActive(r) \/ RecheckInactive(r)
    BY <1>1, <1>3 DEF LoadCount, LoadHead, EndOfList, SkipInactive, SeeActive, EnterNode, LeaveNode,
       RecheckActive, RecheckInactive, history
  <1>4. CASE Compare(r) \/ LoadLevel(r) \/ LoadDefault(r) \/ EndLookup(r)
    BY <1>1, <1>4 DEF Compare, LoadLevel, LoadDefault, EndLookup, history
  <1>5. QED
    BY <1>2, <1>3, <1>4 DEF LookupStep

\* What LookupInv says of one lookup.
Regular(r) ==
    /\ rpc[r] # "idle" =>
          rtag[r] \in Tag /\ Current(rtag[r]) \subseteq allowed[r] /\ default \in defaults[r]
    /\ rpc[r] \in {"idle", "count", "head", "visit", "enter", "recheck", "compare"} => ~matches[r]
    /\ rpc[r] \in {"visit", "enter", "recheck", "compare", "load"} => Ahead(r, rnode[r])
    /\ rpc[r] \in {"compare", "load"} =>
          /\ tag[rnode[r]] = held[r]
          /\ held[r] = rtag[r] => level[rnode[r]] \in allowed[r]
    /\ rpc[r] = "load" => matches[r] = (held[r] = rtag[r])
    /\ rpc[r] = "leave" => IF matches[r] THEN result[r] \in allowed[r] ELSE Ahead(r, rnode[r] - 1)
    /\ rpc[r] = "default" => Unset \in allowed[r]
    /\ rpc[r] = "done" => \/ result[r] \in allowed[r]
                          \/ Unset \in allowed[r] /\ result[r] \in defaults[r]

AllRegular == \A r \in Reader : Regular(r)

LEMMA EachRegular == LookupInv <=> AllRegular
  BY DEF LookupInv, HistoryInv, WalkInv, LookupRegular, Regular, AllRegular

\* A lookup finds the head, or sees that there is no active node.
LEMMA RegularStart ==
    ASSUME Inv, ListInv, NEW r \in Reader, Regular(r), LoadCount(r) \/ LoadHead(r)
    PROVE  Regular(r)'
  <1>a. /\ rpc \in [Reader -> ReaderPC] /\ rnode \in [Reader -> Node \cup {NULL}]
    BY DEF Inv, TypeOK
  <1>b. /\ UNCHANGED <<tag, active, config, default, rtag, matches, allowed, defaults>>
         /\ UNCHANGED <<wpc, wop, wtag, wlevel>>
        /\ rpc[r] \in {"count", "head"}
    BY DEF LoadCount, LoadHead, store, writing, history
  <1>c. rtag[r] \in Tag /\ Current(rtag[r]) \subseteq allowed[r] /\ default \in defaults[r] /\ ~matches[r]
    BY <1>b DEF Regular
  <1>d. Current(rtag[r])' = Current(rtag[r])
    BY <1>b DEF Current, Target, Changing
  <1>1. CASE Unset \in allowed[r]
    <2>1. rpc'[r] \in {"default", "head", "visit"}
      BY <1>a DEF LoadCount, LoadHead, GotoR
    <2>2. QED
      BY <1>1, <1>b, <1>c, <1>d, <2>1 DEF Regular, Ahead
  <1>2. CASE Unset \notin allowed[r]
    <2>1. count # 0 /\ \E n \in 1 .. head : tag[n] = rtag[r] /\ active[n]
      BY <1>2, <1>c, CurrentIsFound
    <2>2. CASE LoadCount(r)
      <3>1. rpc'[r] = "head"
        BY <2>1, <2>2, <1>a DEF LoadCount, GotoR
      <3>2. QED
        BY <1>b, <1>c, <1>d, <3>1 DEF Regular
    <2>3. CASE LoadHead(r)
      <3>1. rpc'[r] = "visit" /\ rnode'[r] = head
        BY <2>3, <1>a DEF LoadHead, GotoR
      <3>2. Ahead(r, rnode[r])'
        BY <1>b, <2>1, <3>1 DEF Ahead
      <3>3. QED
        BY <1>b, <1>c, <1>d, <3>1, <3>2 DEF Regular
    <2>4. QED
      BY <2>2, <2>3
  <1>3. QED
    BY <1>1, <1>2

\* It walks: past inactive nodes and nodes of other tags.
LEMMA RegularWalk ==
    ASSUME Inv, NEW r \in Reader, Regular(r),
           \/ EndOfList(r) \/ SkipInactive(r) \/ SeeActive(r) \/ EnterNode(r) \/ RecheckInactive(r)
           \/ LeaveNode(r)
    PROVE  Regular(r)'
  <1>a. /\ rpc \in [Reader -> ReaderPC] /\ rnode \in [Reader -> Node \cup {NULL}]
        /\ rnode[r] \in Int
    BY TagFilterAssumption DEF Inv, TypeOK, Node, NULL
  <1>b. /\ UNCHANGED <<tag, level, active, config, default, rtag, held, matches, result, allowed,
                       defaults, wpc, wop, wtag, wlevel>>
        /\ rpc[r] \in {"visit", "enter", "recheck", "leave"}
    BY DEF EndOfList, SkipInactive, SeeActive, EnterNode, RecheckInactive, LeaveNode, store, writing,
       history
  <1>c. rtag[r] \in Tag /\ Current(rtag[r]) \subseteq allowed[r] /\ default \in defaults[r]
    BY <1>b DEF Regular
  <1>d. Current(rtag[r])' = Current(rtag[r])
    BY <1>b DEF Current, Target, Changing
  <1>e. \A n : Ahead(r, n)' <=> Ahead(r, n)
    BY <1>b DEF Ahead
  <1>f. ~active[rnode[r]] /\ Ahead(r, rnode[r]) => Ahead(r, rnode[r] - 1)
    BY <1>a DEF Ahead
  <1>1. CASE EndOfList(r)
    <2>1. rpc[r] = "visit" /\ rnode[r] = NULL /\ rpc'[r] = "default"
      BY <1>1, <1>a DEF EndOfList, GotoR
    <2>2. Unset \in allowed[r]
      BY <2>1 DEF Regular, Ahead, NULL
    <2>3. QED
      BY <1>b, <1>c, <1>d, <2>1, <2>2 DEF Regular
  <1>2. CASE SkipInactive(r)
    <2>1. /\ rpc[r] = "visit" /\ rpc'[r] = "visit" /\ rnode'[r] = rnode[r] - 1
          /\ ~active[rnode[r]]
      BY <1>2, <1>a DEF SkipInactive
    <2>2. Ahead(r, rnode[r] - 1) /\ ~matches[r]
      BY <1>f, <2>1 DEF Regular
    <2>3. Ahead(r, rnode[r])'
      BY <1>b, <2>1, <2>2 DEF Ahead
    <2>4. QED
      BY <1>b, <1>c, <1>d, <2>1, <2>2, <2>3 DEF Regular
  <1>3. CASE SeeActive(r) \/ EnterNode(r)
    <2>1. /\ rpc[r] \in {"visit", "enter"} /\ rpc'[r] \in {"enter", "recheck"}
          /\ rnode' = rnode
      BY <1>3, <1>a DEF SeeActive, EnterNode, GotoR
    <2>2. Ahead(r, rnode[r])' /\ ~matches[r]
      BY <1>b, <2>1 DEF Regular, Ahead
    <2>3. QED
      BY <1>b, <1>c, <1>d, <2>1, <2>2 DEF Regular
  <1>4. CASE RecheckInactive(r)
    <2>1. /\ rpc[r] = "recheck" /\ rpc'[r] = "leave" /\ ~active[rnode[r]]
          /\ rnode' = rnode
      BY <1>4, <1>a DEF RecheckInactive, GotoR
    <2>2. Ahead(r, rnode[r] - 1) /\ ~matches[r]
      BY <1>f, <2>1 DEF Regular
    <2>3. Ahead(r, rnode[r] - 1)'
      BY <1>b, <2>1, <2>2 DEF Ahead
    <2>4. QED
      BY <1>b, <1>c, <1>d, <2>1, <2>2, <2>3 DEF Regular
  <1>5. CASE LeaveNode(r) /\ matches[r]
    <2>1. rpc[r] = "leave" /\ rpc'[r] = "done"
      BY <1>5, <1>a DEF LeaveNode, GotoR
    <2>2. result[r] \in allowed[r]
      BY <1>5, <2>1 DEF Regular
    <2>3. QED
      BY <1>b, <1>c, <1>d, <2>1, <2>2 DEF Regular
  <1>6. CASE LeaveNode(r) /\ ~matches[r]
    <2>1. rpc[r] = "leave" /\ rpc'[r] = "visit" /\ rnode'[r] = rnode[r] - 1
      BY <1>6, <1>a DEF LeaveNode, GotoR
    <2>2. Ahead(r, rnode[r] - 1)
      BY <1>6, <2>1 DEF Regular
    <2>3. Ahead(r, rnode[r])'
      BY <1>b, <2>1, <2>2 DEF Ahead
    <2>4. QED
      BY <1>6, <1>b, <1>c, <1>d, <2>1, <2>3 DEF Regular
  <1>7. QED
    BY <1>1, <1>2, <1>3, <1>4, <1>5, <1>6

\* It compares a node's string and loads its level.
LEMMA RegularCompare ==
    ASSUME Inv, ListInv, NEW r \in Reader, Regular(r),
           RecheckActive(r) \/ Compare(r) \/ LoadLevel(r)
    PROVE  Regular(r)'
  <1>a. /\ rpc \in [Reader -> ReaderPC] /\ rnode \in [Reader -> Node \cup {NULL}]
        /\ held \in [Reader -> Tag \cup {Freed}] /\ matches \in [Reader -> BOOLEAN]
        /\ result \in [Reader -> Level]
        /\ linked \in 0 .. MaxNodes /\ MaxNodes \in Nat
    BY TagFilterAssumption DEF Inv, TypeOK
  <1>b. /\ UNCHANGED <<tag, level, active, config, default, rtag, rnode, allowed,
                       defaults, wpc, wop, wtag, wlevel>>
        /\ rpc[r] \in {"recheck", "compare", "load"}
    BY DEF RecheckActive, Compare, LoadLevel, store, writing, history
  <1>c. /\ rtag[r] \in Tag /\ Current(rtag[r]) \subseteq allowed[r] /\ default \in defaults[r]
        /\ Ahead(r, rnode[r])
    BY <1>b DEF Regular
  <1>d. Current(rtag[r])' = Current(rtag[r])
    BY <1>b DEF Current, Target, Changing
  <1>e. Ahead(r, rnode[r])' /\ rnode[r] \in Int
    BY <1>a, <1>b, <1>c, TagFilterAssumption DEF Ahead, Node, NULL
  <1>1. CASE RecheckActive(r)
    <2>1. /\ rpc[r] = "recheck" /\ rpc'[r] = "compare" /\ active[rnode[r]]
          /\ held'[r] = tag[rnode[r]] /\ matches' = matches
      BY <1>1, <1>a DEF RecheckActive, GotoR
    <2>2. rnode[r] \in 1 .. linked
      BY <2>1, <1>a DEF Inv, FilterInv, ReadersInv, Node, NULL
    <2>3. tag[rnode[r]] = rtag[r] => level[rnode[r]] \in allowed[r]
      BY <2>1, <2>2, <1>c, CurrentLevel
    <2>4. ~matches[r]
      BY <2>1 DEF Regular
    <2>5. QED
      BY <1>b, <1>c, <1>d, <1>e, <2>1, <2>3, <2>4 DEF Regular
  <1>2. CASE Compare(r)
    <2>1. /\ rpc[r] = "compare" /\ rpc'[r] = "load"
          /\ matches'[r] = (held[r] = rtag[r]) /\ held' = held
      BY <1>2, <1>a DEF Compare, GotoR
    <2>2. tag[rnode[r]] = held[r] /\ (held[r] = rtag[r] => level[rnode[r]] \in allowed[r])
      BY <2>1 DEF Regular
    <2>3. QED
      BY <1>b, <1>c, <1>d, <1>e, <2>1, <2>2 DEF Regular
  <1>3. CASE LoadLevel(r)
    <2>1. /\ rpc[r] = "load" /\ rpc'[r] = "leave"
          /\ result'[r] = level[rnode[r]] /\ matches' = matches
      BY <1>3, <1>a DEF LoadLevel, GotoR
    <2>2. /\ tag[rnode[r]] = held[r] /\ (held[r] = rtag[r] => level[rnode[r]] \in allowed[r])
          /\ matches[r] = (held[r] = rtag[r])
      BY <2>1 DEF Regular
    <2>3. ASSUME ~matches[r] PROVE Ahead(r, rnode[r] - 1)'
      <3>1. tag[rnode[r]] # rtag[r]
        BY <2>2, <2>3
      <3>2. QED
        BY <1>b, <1>c, <1>e, <3>1 DEF Ahead
    <2>4. QED
      BY <1>b, <1>c, <1>d, <2>1, <2>2, <2>3 DEF Regular
  <1>4. QED
    BY <1>1, <1>2, <1>3

\* It begins, takes the default, or returns.
LEMMA RegularEnds ==
    ASSUME Inv, NEW r \in Reader, Regular(r),
           LoadDefault(r) \/ EndLookup(r) \/ \E g \in Tag : BeginLookup(r, g)
    PROVE  Regular(r)'
  <1>a. /\ rpc \in [Reader -> ReaderPC] /\ rtag \in [Reader -> Tag \cup {Freed}]
        /\ matches \in [Reader -> BOOLEAN] /\ result \in [Reader -> Level]
        /\ allowed \in [Reader -> SUBSET (Level \cup {Unset})]
        /\ defaults \in [Reader -> SUBSET Level]
    BY DEF Inv, TypeOK
  <1>1. CASE LoadDefault(r)
    <2>1. /\ UNCHANGED <<config, default, rtag, allowed, defaults, wpc, wop, wtag, wlevel>>
          /\ rpc[r] = "default" /\ rpc'[r] = "done" /\ result'[r] = default
      BY <1>1, <1>a DEF LoadDefault, GotoR, store, writing, history
    <2>2. /\ rtag[r] \in Tag /\ Current(rtag[r]) \subseteq allowed[r] /\ default \in defaults[r]
          /\ Unset \in allowed[r]
      BY <2>1 DEF Regular
    <2>3. Current(rtag[r])' = Current(rtag[r])
      BY <2>1 DEF Current, Target, Changing
    <2>4. QED
      BY <2>1, <2>2, <2>3 DEF Regular
  <1>2. CASE EndLookup(r)
    <2>1. rpc'[r] = "idle" /\ ~matches'[r]
      BY <1>2, <1>a DEF EndLookup, GotoR
    <2>2. QED
      BY <2>1 DEF Regular
  <1>3. ASSUME NEW g \in Tag, BeginLookup(r, g) PROVE Regular(r)'
    <2>1. /\ UNCHANGED <<config, default, matches, wpc, wop, wtag, wlevel>>
          /\ rpc[r] = "idle" /\ rpc'[r] = "count" /\ rtag'[r] = g
          /\ allowed'[r] = Current(g) /\ defaults'[r] = {default}
      BY <1>3, <1>a DEF BeginLookup, GotoR, store, writing, Current
    <2>2. Current(rtag[r])' = Current(g)
      BY <2>1 DEF Current, Target, Changing
    <2>3. ~matches[r]
      BY <2>1 DEF Regular
    <2>4. QED
      BY <2>1, <2>2, <2>3 DEF Regular
  <1>4. QED
    BY <1>1, <1>2, <1>3

LEMMA RegularStep ==
    ASSUME Inv, ListInv, LookupInv, NEW r \in Reader,
           LookupStep(r) \/ \E g \in Tag : BeginLookup(r, g)
    PROVE  LookupInv'
  <1>1. Regular(r)'
    <2>1. Regular(r)
      BY EachRegular DEF AllRegular
    <2>2. QED
      BY <2>1, RegularStart, RegularWalk, RegularCompare, RegularEnds DEF LookupStep
  <1>2. ASSUME NEW q \in Reader \ {r} PROVE Regular(q)'
    <2>1. /\ UNCHANGED <<tag, level, active, default, config, wpc, wop, wtag, wlevel>>
          /\ rpc'[q] = rpc[q] /\ rnode'[q] = rnode[q] /\ held'[q] = held[q]
      BY LookupFrame DEF Inv, writing
    <2>2. /\ rtag'[q] = rtag[q] /\ matches'[q] = matches[q] /\ result'[q] = result[q]
          /\ allowed'[q] = allowed[q] /\ defaults'[q] = defaults[q]
      BY OtherLookups DEF Inv
    <2>3. Current(rtag[q])' = Current(rtag[q])
      BY <2>1, <2>2 DEF Current, Target, Changing
    <2>4. /\ Ahead(q, rnode[q])' <=> Ahead(q, rnode[q])
          /\ Ahead(q, rnode[q] - 1)' <=> Ahead(q, rnode[q] - 1)
      BY <2>1, <2>2 DEF Ahead
    <2>5. Regular(q)
      BY EachRegular DEF AllRegular
    <2>6. QED
      BY <2>1, <2>2, <2>3, <2>4, <2>5 DEF Regular
  <1>3. (LookupInv <=> AllRegular)'
    BY EachRegular, PTL
  <1>4. QED
    BY <1>1, <1>2, <1>3 DEF AllRegular

-----------------------------------------------------------------------------
FullInv == Inv /\ ListInv /\ LookupInv

LEMMA FullStep == FullInv /\ [Next]_vars => FullInv'
  <1> SUFFICES ASSUME Inv, ListInv, LookupInv, [Next]_vars PROVE FullInv'
    BY DEF FullInv
  <1>a. Inv'
    BY StepInv
  <1>1. ASSUME NEW w \in Writer, BeginWriter(w) \/ WriterStep(w) PROVE ListInv' /\ LookupInv'
    BY <1>1, ListStep, LookupKept
  <1>2. ASSUME NEW r \in Reader, LookupStep(r) \/ \E g \in Tag : BeginLookup(r, g)
        PROVE  ListInv' /\ LookupInv'
    <2>1. UNCHANGED <<linked, head, tag, level, active, writing, config, peak>>
      BY <1>2, LookupFrame DEF Inv
    <2>2. QED
      BY <1>2, <2>1, ListKept, RegularStep
  <1>3. CASE UNCHANGED vars
    <2>1. UNCHANGED <<linked, head, tag, level, active, default, writing, config, peak>>
          /\ UNCHANGED <<rpc, rtag, rnode, held, matches, result, allowed, defaults>>
      BY <1>3 DEF vars, store, reading, history
    <2>2. ListInv'
      BY <2>1, ListKept
    <2>3. ASSUME NEW r \in Reader PROVE Regular(r)'
      <3>1. Regular(r)
        BY EachRegular DEF AllRegular
      <3>2. Current(rtag[r])' = Current(rtag[r])
        BY <2>1 DEF Current, Target, Changing, writing
      <3>3. /\ Ahead(r, rnode[r])' <=> Ahead(r, rnode[r])
            /\ Ahead(r, rnode[r] - 1)' <=> Ahead(r, rnode[r] - 1)
        BY <2>1 DEF Ahead
      <3>4. QED
        BY <2>1, <3>1, <3>2, <3>3 DEF Regular
    <2>4. (LookupInv <=> AllRegular)'
      BY EachRegular, PTL
    <2>5. QED
      BY <1>a, <2>2, <2>3, <2>4 DEF AllRegular, FullInv
  <1>4. QED
    BY <1>a, <1>1, <1>2, <1>3 DEF Next, FullInv

LEMMA FullInductive == Spec => []FullInv
  <1>1. Init => LookupInv
    BY DEF Init, LookupInv, HistoryInv, WalkInv, LookupRegular
  <1>2. Init => FullInv
    BY <1>1, InitInv, InitList DEF FullInv
  <1>3. QED
    BY <1>2, FullStep, PTL DEF Spec

(***************************************************************************)
(* Whenever nobody holds the port lock, s_tag_filters is exactly what the  *)
(* calls of on9log_set_tag_level and on9log_clear_tag_level that returned  *)
(* have configured: one node per tag, its level, the exact count, and no   *)
(* more nodes than tags were ever configured at once, for any number of    *)
(* writers between whose two looks at the list others come by.             *)
(***************************************************************************)
THEOREM ListIsRight == Spec => []ListIsConfiguration
  <1>1. FullInv => ListIsConfiguration
    BY ListWhenUnlocked DEF FullInv
  <1>2. QED
    BY <1>1, FullInductive, PTL

(***************************************************************************)
(* on9log_filter_level_for_tag is a regular read although it takes no      *)
(* lock: it returns a level its tag had during the call, or a default      *)
(* level of that time if the tag was without a filter at some moment of    *)
(* it, for any number of lookups, writers, tags and nodes.                 *)
(***************************************************************************)
THEOREM LookupsAreRegular == Spec => []LookupRegular
  <1>1. FullInv => LookupRegular
    BY DEF FullInv, LookupInv
  <1>2. QED
    BY <1>1, FullInductive, PTL

=============================================================================
