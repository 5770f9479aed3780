----------------------------- MODULE TagFilter ------------------------------
(***************************************************************************)
(* The per-tag level filter of on9log.c.  Every log call looks its tag up  *)
(* in a singly linked list without taking a lock; on9log_set_tag_level and *)
(* on9log_clear_tag_level change the list under the port lock while        *)
(* lookups walk it.  Nodes are never unlinked: a cleared node is marked    *)
(* inactive and given to another tag later, and the string it owns is      *)
(* freed then, which is safe only when no lookup is comparing it.          *)
(*                                                                         *)
(* SLIST_INSERT_HEAD is the only change of the list, so nodes are numbered *)
(* in the order of their insertion: the list is linked, linked - 1, .. 1,  *)
(* the successor of node n is n - 1, and 0 is NULL.                        *)
(*                                                                         *)
(* Each atomic operation of the code is a step of its own.  The steps of a *)
(* writer's list scan are one step: only the holder of the port lock       *)
(* changes what the scan reads.  Memory is sequentially consistent here.   *)
(***************************************************************************)
EXTENDS Integers, FiniteSets

CONSTANTS
    Reader,    \* threads (or interrupt handlers) inside a log call's lookup
    Writer,    \* tasks that configure levels
    Tag,       \* tag strings
    Level,     \* valid levels
    MaxNodes,  \* bound: nodes calloc can provide
    FirstLevel,            \* the initial default level (VERBOSE)
    Freed, Unset, NoTask

ASSUME TagFilterAssumption ==
    /\ IsFiniteSet(Reader)
    /\ IsFiniteSet(Tag)
    /\ Freed \notin Tag
    /\ Unset \notin Level
    /\ NoTask \notin Writer
    /\ MaxNodes \in Nat
    /\ FirstLevel \in Level

Node == 1 .. MaxNodes
NULL == 0

VARIABLES
    portLock,  \* holder of on9log_port_lock, or NoTask
    linked,    \* length of s_tag_filters
    head,      \* s_tag_filter_head, the list as lookups find it
    tag, level, active, readers,  \* the fields of each node
    count,     \* s_active_tag_filter_count
    default,   \* s_default_level
    wpc, wop, wtag, wlevel, wnode, copied,  \* a writer's position and locals
    rpc, rtag, rnode, held, matches, result,  \* a lookup's position and locals
    config,    \* history: what set and clear calls have established for each tag
    allowed,   \* history: what a lookup's tag was set to while the lookup ran
    defaults,  \* history: default levels while the lookup ran
    peak       \* history: most tags ever configured at once

store   == <<linked, head, tag, level, active, readers, count, default>>
writing == <<wpc, wop, wtag, wlevel, wnode, copied>>
reading == <<rpc, rtag, rnode, held, matches, result>>
history == <<config, allowed, defaults, peak>>
vars    == <<portLock, store, writing, reading, history>>

Init ==
    /\ portLock = NoTask
    /\ linked = 0
    /\ head = NULL
    /\ tag = [n \in Node |-> Freed]
    /\ level = [n \in Node |-> FirstLevel]
    /\ active = [n \in Node |-> FALSE]
    /\ readers = [n \in Node |-> 0]
    /\ count = 0
    /\ default = FirstLevel
    /\ wpc = [w \in Writer |-> "idle"]
    /\ wop = [w \in Writer |-> "set"]
    /\ wtag = [w \in Writer |-> Freed]
    /\ wlevel = [w \in Writer |-> FirstLevel]
    /\ wnode = [w \in Writer |-> NULL]
    /\ copied = [w \in Writer |-> FALSE]
    /\ rpc = [r \in Reader |-> "idle"]
    /\ rtag = [r \in Reader |-> Freed]
    /\ rnode = [r \in Reader |-> NULL]
    /\ held = [r \in Reader |-> Freed]
    /\ matches = [r \in Reader |-> FALSE]
    /\ result = [r \in Reader |-> FirstLevel]
    /\ config = [g \in Tag |-> Unset]
    /\ allowed = [r \in Reader |-> {}]
    /\ defaults = [r \in Reader |-> {}]
    /\ peak = 0

-----------------------------------------------------------------------------
(***************************************************************************)
(* History: the value writer w's call establishes, and the lookups that    *)
(* run while it does so.                                                   *)
(***************************************************************************)
Target(w) == IF wop[w] = "set" THEN wlevel[w] ELSE Unset

\* Writer w has begun to change what the list says about its tag.
Changing(w) ==
    wpc[w] \in {"wait", "free", "assign", "level", "activate", "count",
                "countNew", "publish", "uncount", "unlock"}

\* The change begins: a lookup of the tag that runs now may notice it or not.
Announce(w) ==
    allowed' = [r \in Reader |-> IF rpc[r] # "idle" /\ rtag[r] = wtag[w]
                                 THEN allowed[r] \cup {Target(w)}
                                 ELSE allowed[r]]

\* How many tags have a level of their own.
Configured(c) == Cardinality({g \in Tag : c[g] # Unset})

-----------------------------------------------------------------------------
(***************************************************************************)
(* Writers.                                                                *)
(***************************************************************************)
GotoW(w, label) == wpc' = [wpc EXCEPT ![w] = label]

\* The call returns and its locals are gone.
ReturnW(w) ==
    /\ wpc' = [wpc EXCEPT ![w] = "idle"]
    /\ wop' = [wop EXCEPT ![w] = "set"]
    /\ wtag' = [wtag EXCEPT ![w] = Freed]
    /\ wlevel' = [wlevel EXCEPT ![w] = FirstLevel]
    /\ wnode' = [wnode EXCEPT ![w] = NULL]
    /\ copied' = [copied EXCEPT ![w] = FALSE]

\* on9log_set_level: one atomic store.
SetDefault(w, l) ==
    /\ wpc[w] = "idle"
    /\ default' = l
    /\ defaults' = [r \in Reader |-> IF rpc[r] # "idle" THEN defaults[r] \cup {l}
                                     ELSE defaults[r]]
    /\ UNCHANGED <<portLock, linked, head, tag, level, active, readers, count,
                   writing, reading, config, allowed, peak>>

BeginSet(w, g, l) ==
    /\ wpc[w] = "idle"
    /\ wop' = [wop EXCEPT ![w] = "set"]
    /\ wtag' = [wtag EXCEPT ![w] = g]
    /\ wlevel' = [wlevel EXCEPT ![w] = l]
    /\ GotoW(w, "lock")
    /\ UNCHANGED <<portLock, store, wnode, copied, reading, history>>

BeginClear(w, g) ==
    /\ wpc[w] = "idle"
    /\ wop' = [wop EXCEPT ![w] = "clear"]
    /\ wtag' = [wtag EXCEPT ![w] = g]
    /\ GotoW(w, "lock")
    /\ UNCHANGED <<portLock, store, wlevel, wnode, copied, reading, history>>

PortLock(w) ==
    /\ wpc[w] = "lock"
    /\ portLock = NoTask
    /\ portLock' = w
    /\ GotoW(w, "scan")
    /\ UNCHANGED <<store, wop, wtag, wlevel, wnode, copied, reading, history>>

\* Node n is the first of the list that satisfies what Set holds the nodes of.
FirstOf(n, Set) == n \in Set /\ \A m \in Set : m <= n

Matching(w) == {n \in 1 .. linked : tag[n] = wtag[w]}
Inactive    == {n \in 1 .. linked : ~active[n]}

\* The tag has a node: store its level and, if it was cleared, revive it.
SetMatched(w, n) ==
    /\ wpc[w] = "scan" /\ wop[w] = "set"
    /\ FirstOf(n, Matching(w))
    /\ level' = [level EXCEPT ![n] = wlevel[w]]
    /\ wnode' = [wnode EXCEPT ![w] = n]
    /\ Announce(w)
    /\ GotoW(w, IF active[n] THEN "unlock" ELSE "activate")
    /\ UNCHANGED <<portLock, linked, head, tag, active, readers, count, default,
                   wop, wtag, wlevel, copied, reading, config, defaults, peak>>

\* It has none: the copy of the tag is allocated with the lock released ...
SetUnmatched(w) ==
    /\ wpc[w] = "scan" /\ wop[w] = "set" /\ ~copied[w]
    /\ Matching(w) = {}
    /\ portLock' = NoTask
    /\ GotoW(w, "malloc")
    /\ UNCHANGED <<store, wop, wtag, wlevel, wnode, copied, reading, history>>

\* ... and the list is scanned again, because another writer may have come by.
CopyTag(w) ==
    /\ wpc[w] = "malloc"
    /\ copied' = [copied EXCEPT ![w] = TRUE]
    /\ GotoW(w, "lock")
    /\ UNCHANGED <<portLock, store, wop, wtag, wlevel, wnode, reading, history>>

CopyFails(w) ==
    /\ wpc[w] = "malloc"
    /\ ReturnW(w)
    /\ UNCHANGED <<portLock, store, reading, history>>

\* A cleared node can be given to the tag ...
PickReusable(w, n) ==
    /\ wpc[w] = "scan" /\ wop[w] = "set" /\ copied[w]
    /\ Matching(w) = {}
    /\ FirstOf(n, Inactive)
    /\ wnode' = [wnode EXCEPT ![w] = n]
    /\ Announce(w)
    /\ GotoW(w, "wait")
    /\ UNCHANGED <<portLock, store, wop, wtag, wlevel, copied, reading, config, defaults, peak>>

\* ... once every lookup that entered it before the clear has left.
ReadersGone(w) ==
    /\ wpc[w] = "wait"
    /\ readers[wnode[w]] = 0
    /\ GotoW(w, "free")
    /\ UNCHANGED <<portLock, store, wop, wtag, wlevel, wnode, copied, reading, history>>

FreeTag(w) ==
    /\ wpc[w] = "free"
    /\ tag' = [tag EXCEPT ![wnode[w]] = Freed]
    /\ GotoW(w, "assign")
    /\ UNCHANGED <<portLock, linked, head, level, active, readers, count, default,
                   wop, wtag, wlevel, wnode, copied, reading, history>>

\* Mutant of AssignTag: the node is activated with the level of its former tag.
AssignTagOldLevel(w) ==
    /\ wpc[w] = "assign"
    /\ tag' = [tag EXCEPT ![wnode[w]] = wtag[w]]
    /\ GotoW(w, "activate")
    /\ UNCHANGED <<portLock, linked, head, level, active, readers, count, default,
                   wop, wtag, wlevel, wnode, copied, reading, history>>

AssignTag(w) ==
    /\ wpc[w] = "assign"
    /\ tag' = [tag EXCEPT ![wnode[w]] = wtag[w]]
    /\ GotoW(w, "level")
    /\ UNCHANGED <<portLock, linked, head, level, active, readers, count, default,
                   wop, wtag, wlevel, wnode, copied, reading, history>>

StoreLevel(w) ==
    /\ wpc[w] = "level"
    /\ level' = [level EXCEPT ![wnode[w]] = wlevel[w]]
    /\ GotoW(w, "activate")
    /\ UNCHANGED <<portLock, linked, head, tag, active, readers, count, default,
                   wop, wtag, wlevel, wnode, copied, reading, history>>

Activate(w) ==
    /\ wpc[w] = "activate"
    /\ active' = [active EXCEPT ![wnode[w]] = TRUE]
    /\ GotoW(w, "count")
    /\ UNCHANGED <<portLock, linked, head, tag, level, readers, count, default,
                   wop, wtag, wlevel, wnode, copied, reading, history>>

CountActive(w) ==
    /\ wpc[w] = "count"
    /\ count' = count + 1
    /\ GotoW(w, "unlock")
    /\ UNCHANGED <<portLock, linked, head, tag, level, active, readers, default,
                   wop, wtag, wlevel, wnode, copied, reading, history>>

\* SLIST_INSERT_HEAD of a node that is filled in before it is published.
Link(w) ==
    /\ linked + 1 \in Node
    /\ linked' = linked + 1
    /\ tag' = [tag EXCEPT ![linked + 1] = wtag[w]]
    /\ level' = [level EXCEPT ![linked + 1] = wlevel[w]]
    /\ active' = [active EXCEPT ![linked + 1] = TRUE]
    /\ Announce(w)
    /\ GotoW(w, "countNew")
    /\ UNCHANGED <<portLock, head, readers, count, default, wop, wtag, wlevel, wnode, copied,
                   reading, config, defaults, peak>>

\* Mutant of LinkNode: no second look for the tag after the allocation.
LinkNodeUnchecked(w) ==
    /\ wpc[w] = "scan" /\ wop[w] = "set" /\ copied[w]
    /\ Inactive = {}
    /\ Link(w)

\* Every node is in use: link a new one.
LinkNode(w) ==
    /\ wpc[w] = "scan" /\ wop[w] = "set" /\ copied[w]
    /\ Matching(w) = {} /\ Inactive = {}
    /\ Link(w)

\* Mutant of NodeFails: the error path of calloc returns with the lock held.
NodeFailsLocked(w) ==
    /\ wpc[w] = "scan" /\ wop[w] = "set" /\ copied[w]
    /\ Matching(w) = {} /\ Inactive = {}
    /\ ReturnW(w)
    /\ UNCHANGED <<portLock, store, reading, history>>

NodeFails(w) ==
    /\ wpc[w] = "scan" /\ wop[w] = "set" /\ copied[w]
    /\ Matching(w) = {} /\ Inactive = {}
    /\ portLock' = NoTask
    /\ ReturnW(w)
    /\ UNCHANGED <<store, reading, history>>

CountNew(w) ==
    /\ wpc[w] = "countNew"
    /\ count' = count + 1
    /\ GotoW(w, "publish")
    /\ UNCHANGED <<portLock, linked, head, tag, level, active, readers, default,
                   wop, wtag, wlevel, wnode, copied, reading, history>>

PublishHead(w) ==
    /\ wpc[w] = "publish"
    /\ head' = linked
    /\ GotoW(w, "unlock")
    /\ UNCHANGED <<portLock, linked, tag, level, active, readers, count, default,
                   wop, wtag, wlevel, wnode, copied, reading, history>>

\* on9log_clear_tag_level found the node: exchange its flag with false.
ClearMatched(w, n) ==
    /\ wpc[w] = "scan" /\ wop[w] = "clear"
    /\ FirstOf(n, Matching(w))
    /\ active' = [active EXCEPT ![n] = FALSE]
    /\ wnode' = [wnode EXCEPT ![w] = n]
    /\ Announce(w)
    /\ GotoW(w, IF active[n] THEN "uncount" ELSE "unlock")
    /\ UNCHANGED <<portLock, linked, head, tag, level, readers, count, default,
                   wop, wtag, wlevel, copied, reading, config, defaults, peak>>

ClearUnmatched(w) ==
    /\ wpc[w] = "scan" /\ wop[w] = "clear"
    /\ Matching(w) = {}
    /\ portLock' = NoTask
    /\ ReturnW(w)
    /\ UNCHANGED <<store, reading, history>>

Uncount(w) ==
    /\ wpc[w] = "uncount"
    /\ count' = count - 1
    /\ GotoW(w, "unlock")
    /\ UNCHANGED <<portLock, linked, head, tag, level, active, readers, default,
                   wop, wtag, wlevel, wnode, copied, reading, history>>

\* on9log_port_unlock and return ON9LOG_OK: the call has taken effect.
PortUnlock(w) ==
    /\ wpc[w] = "unlock"
    /\ portLock' = NoTask
    /\ config' = [config EXCEPT ![wtag[w]] = Target(w)]
    /\ peak' = IF Configured(config') > peak THEN Configured(config') ELSE peak
    /\ ReturnW(w)
    /\ UNCHANGED <<store, reading, allowed, defaults>>

-----------------------------------------------------------------------------
(***************************************************************************)
(* Lookups: on9log_filter_level_for_tag.                                   *)
(***************************************************************************)
GotoR(r, label) == rpc' = [rpc EXCEPT ![r] = label]

BeginLookup(r, g) ==
    /\ rpc[r] = "idle"
    /\ rtag' = [rtag EXCEPT ![r] = g]
    /\ allowed' = [allowed EXCEPT ![r] =
                     {config[g]} \cup {Target(w) : w \in {v \in Writer : wtag[v] = g /\ Changing(v)}}]
    /\ defaults' = [defaults EXCEPT ![r] = {default}]
    /\ GotoR(r, "count")
    /\ UNCHANGED <<portLock, store, writing, rnode, held, matches, result, config, peak>>

\* With no active filter the list is not looked at.
LoadCount(r) ==
    /\ rpc[r] = "count"
    /\ GotoR(r, IF count = 0 THEN "default" ELSE "head")
    /\ UNCHANGED <<portLock, store, writing, rtag, rnode, held, matches, result, history>>

LoadHead(r) ==
    /\ rpc[r] = "head"
    /\ rnode' = [rnode EXCEPT ![r] = head]
    /\ GotoR(r, "visit")
    /\ UNCHANGED <<portLock, store, writing, rtag, held, matches, result, history>>

EndOfList(r) ==
    /\ rpc[r] = "visit" /\ rnode[r] = NULL
    /\ GotoR(r, "default")
    /\ UNCHANGED <<portLock, store, writing, rtag, rnode, held, matches, result, history>>

SkipInactive(r) ==
    /\ rpc[r] = "visit" /\ rnode[r] # NULL
    /\ ~active[rnode[r]]
    /\ rnode' = [rnode EXCEPT ![r] = @ - 1]
    /\ UNCHANGED <<portLock, store, writing, rpc, rtag, held, matches, result, history>>

SeeActive(r) ==
    /\ rpc[r] = "visit" /\ rnode[r] # NULL
    /\ active[rnode[r]]
    /\ GotoR(r, "enter")
    /\ UNCHANGED <<portLock, store, writing, rtag, rnode, held, matches, result, history>>

EnterNode(r) ==
    /\ rpc[r] = "enter"
    /\ readers' = [readers EXCEPT ![rnode[r]] = @ + 1]
    /\ GotoR(r, "recheck")
    /\ UNCHANGED <<portLock, linked, head, tag, level, active, count, default,
                   writing, rtag, rnode, held, matches, result, history>>

\* Mutant of RecheckActive: the flag is not loaded again after the node was entered.
RecheckNothing(r) ==
    /\ rpc[r] = "recheck"
    /\ held' = [held EXCEPT ![r] = tag[rnode[r]]]
    /\ GotoR(r, "compare")
    /\ UNCHANGED <<portLock, store, writing, rtag, rnode, matches, result, history>>

\* Still active: the comparison begins with the string the node owns now.
RecheckActive(r) ==
    /\ rpc[r] = "recheck"
    /\ active[rnode[r]]
    /\ held' = [held EXCEPT ![r] = tag[rnode[r]]]
    /\ GotoR(r, "compare")
    /\ UNCHANGED <<portLock, store, writing, rtag, rnode, matches, result, history>>

\* Mutant of RecheckInactive: goes on without leaving the node.
RecheckInactiveStays(r) ==
    /\ rpc[r] = "recheck"
    /\ ~active[rnode[r]]
    /\ rnode' = [rnode EXCEPT ![r] = @ - 1]
    /\ GotoR(r, "visit")
    /\ UNCHANGED <<portLock, store, writing, rtag, held, matches, result, history>>

RecheckInactive(r) ==
    /\ rpc[r] = "recheck"
    /\ ~active[rnode[r]]
    /\ GotoR(r, "leave")
    /\ UNCHANGED <<portLock, store, writing, rtag, rnode, held, matches, result, history>>

\* strcmp has read the last byte of the string.
Compare(r) ==
    /\ rpc[r] = "compare"
    /\ matches' = [matches EXCEPT ![r] = held[r] = rtag[r]]
    /\ GotoR(r, "load")
    /\ UNCHANGED <<portLock, store, writing, rtag, rnode, held, result, history>>

LoadLevel(r) ==
    /\ rpc[r] = "load"
    /\ result' = [result EXCEPT ![r] = level[rnode[r]]]
    /\ held' = [held EXCEPT ![r] = Freed]
    /\ GotoR(r, "leave")
    /\ UNCHANGED <<portLock, store, writing, rtag, rnode, matches, history>>

\* Mutant of LeaveNode: the walk does not go on to the next node.
LeaveNodeAgain(r) ==
    /\ rpc[r] = "leave"
    /\ readers' = [readers EXCEPT ![rnode[r]] = @ - 1]
    /\ GotoR(r, IF matches[r] THEN "done" ELSE "visit")
    /\ UNCHANGED <<portLock, linked, head, tag, level, active, count, default,
                   writing, rtag, rnode, held, matches, result, history>>

LeaveNode(r) ==
    /\ rpc[r] = "leave"
    /\ readers' = [readers EXCEPT ![rnode[r]] = @ - 1]
    /\ IF matches[r]
       THEN GotoR(r, "done") /\ UNCHANGED rnode
       ELSE GotoR(r, "visit") /\ rnode' = [rnode EXCEPT ![r] = @ - 1]
    /\ UNCHANGED <<portLock, linked, head, tag, level, active, count, default,
                   writing, rtag, held, matches, result, history>>

LoadDefault(r) ==
    /\ rpc[r] = "default"
    /\ result' = [result EXCEPT ![r] = default]
    /\ GotoR(r, "done")
    /\ UNCHANGED <<portLock, store, writing, rtag, rnode, held, matches, history>>

EndLookup(r) ==
    /\ rpc[r] = "done"
    /\ rtag' = [rtag EXCEPT ![r] = Freed]
    /\ rnode' = [rnode EXCEPT ![r] = NULL]
    /\ matches' = [matches EXCEPT ![r] = FALSE]
    /\ result' = [result EXCEPT ![r] = FirstLevel]
    /\ allowed' = [allowed EXCEPT ![r] = {}]
    /\ defaults' = [defaults EXCEPT ![r] = {}]
    /\ GotoR(r, "idle")
    /\ UNCHANGED <<portLock, store, writing, held, config, peak>>

-----------------------------------------------------------------------------
\* The steps of a call that began, writers and lookups.
WriterStep(w) ==
    \/ PortLock(w) \/ SetUnmatched(w) \/ CopyTag(w) \/ CopyFails(w)
    \/ \E n \in Node : SetMatched(w, n) \/ PickReusable(w, n) \/ ClearMatched(w, n)
    \/ ReadersGone(w) \/ FreeTag(w) \/ AssignTag(w) \/ StoreLevel(w)
    \/ Activate(w) \/ CountActive(w)
    \/ LinkNode(w) \/ NodeFails(w) \/ CountNew(w) \/ PublishHead(w)
    \/ ClearUnmatched(w) \/ Uncount(w) \/ PortUnlock(w)

LookupStep(r) ==
    \/ LoadCount(r) \/ LoadHead(r) \/ EndOfList(r) \/ SkipInactive(r) \/ SeeActive(r)
    \/ EnterNode(r) \/ RecheckActive(r) \/ RecheckInactive(r) \/ Compare(r)
    \/ LoadLevel(r) \/ LeaveNode(r) \/ LoadDefault(r) \/ EndLookup(r)

BeginWriter(w) ==
    \/ \E l \in Level : SetDefault(w, l)
    \/ \E g \in Tag, l \in Level : BeginSet(w, g, l)
    \/ \E g \in Tag : BeginClear(w, g)

Next ==
    \/ \E w \in Writer : BeginWriter(w) \/ WriterStep(w)
    \/ \E r \in Reader : LookupStep(r) \/ \E g \in Tag : BeginLookup(r, g)

Spec == Init /\ [][Next]_vars

(***************************************************************************)
(* Fairness.  A thread inside a call keeps being scheduled: the waiting    *)
(* writer yields (on9log_port_yield) so that the lookup it waits for runs. *)
(***************************************************************************)
LiveSpec ==
    Spec /\ (\A w \in Writer : WF_vars(WriterStep(w))) /\ (\A r \in Reader : WF_vars(LookupStep(r)))

-----------------------------------------------------------------------------
WriterPC == {"idle", "lock", "scan", "malloc", "wait", "free", "assign", "level", "activate",
             "count", "countNew", "publish", "uncount", "unlock"}

ReaderPC == {"idle", "count", "head", "visit", "enter", "recheck", "compare", "load", "leave",
             "default", "done"}

\* Every variable holds a value of its kind.
TypeOK ==
    /\ portLock \in Writer \cup {NoTask}
    /\ linked \in 0 .. MaxNodes
    /\ head \in 0 .. linked
    /\ tag \in [Node -> Tag \cup {Freed}]
    /\ level \in [Node -> Level]
    /\ active \in [Node -> BOOLEAN]
    /\ readers \in [Node -> Nat]
    /\ count \in Nat
    /\ default \in Level
    /\ wpc \in [Writer -> WriterPC]
    /\ wop \in [Writer -> {"set", "clear"}]
    /\ wtag \in [Writer -> Tag \cup {Freed}]
    /\ wlevel \in [Writer -> Level]
    /\ wnode \in [Writer -> Node \cup {NULL}]
    /\ copied \in [Writer -> BOOLEAN]
    /\ rpc \in [Reader -> ReaderPC]
    /\ rtag \in [Reader -> Tag \cup {Freed}]
    /\ rnode \in [Reader -> Node \cup {NULL}]
    /\ held \in [Reader -> Tag \cup {Freed}]
    /\ matches \in [Reader -> BOOLEAN]
    /\ result \in [Reader -> Level]
    /\ config \in [Tag -> Level \cup {Unset}]
    /\ allowed \in [Reader -> SUBSET (Level \cup {Unset})]
    /\ defaults \in [Reader -> SUBSET Level]
    /\ peak \in Nat

(***************************************************************************)
(* While a lookup compares a node's string, the node keeps that string: no *)
(* writer frees it or gives the node to another tag, although the lookup   *)
(* holds no lock and the node may be cleared in the meantime.              *)
(***************************************************************************)
NoUseAfterFree ==
    \A r \in Reader : rpc[r] = "compare" => held[r] # Freed /\ tag[rnode[r]] = held[r]

(***************************************************************************)
(* A lookup returns a level its tag was set to at some time during the     *)
(* lookup; it returns a default level only if the tag was without a filter *)
(* at some time during the lookup, and then one that was the default       *)
(* during it.  In particular a set that returned before the lookup began,  *)
(* and was not undone, is always seen: neither the count shortcut, nor the *)
(* head loaded once, nor the reuse of nodes hides it.                      *)
(***************************************************************************)
LookupRegular ==
    \A r \in Reader : rpc[r] = "done" =>
       \/ result[r] \in allowed[r]
       \/ Unset \in allowed[r] /\ result[r] \in defaults[r]

(***************************************************************************)
(* With no writer at work, the list says what was configured: one node per *)
(* tag at most, a tag is set exactly if it has an active node, with that   *)
(* node's level, and the counter is the number of active nodes.  The list  *)
(* is never longer than the largest number of tags that were configured at *)
(* one time, because cleared nodes are reused.                             *)
(***************************************************************************)
ListIsConfiguration ==
    portLock = NoTask =>
       /\ head = linked
       /\ \A m, n \in 1 .. linked : tag[m] = tag[n] => m = n
       /\ \A g \in Tag : config[g] =
             IF \E n \in 1 .. linked : tag[n] = g /\ active[n]
             THEN level[CHOOSE n \in 1 .. linked : tag[n] = g]
             ELSE Unset
       /\ count = Cardinality({n \in 1 .. linked : active[n]})
       /\ linked <= peak

(***************************************************************************)
(* A writer lets go of the port lock: its spin on a node's reader count    *)
(* ends, because no new lookup enters a cleared node.                      *)
(***************************************************************************)
PortLockIsReleased == \A w \in Writer : portLock = w ~> portLock # w

(***************************************************************************)
(* A lookup always returns, whatever the writers do: it waits for nobody   *)
(* and the nodes it may still visit only get fewer.                        *)
(***************************************************************************)
LookupReturns == \A r \in Reader : rpc[r] # "idle" ~> rpc[r] = "idle"

-----------------------------------------------------------------------------
(***************************************************************************)
(* Why a comparison is safe: the invariant behind it.                      *)
(***************************************************************************)

\* The lookups that are counted in node n's readers.
Within(n) == {r \in Reader : rnode[r] = n /\ rpc[r] \in {"recheck", "compare", "load", "leave"}}

\* The port lock is held exactly by the writer between its lock and its unlock.
LockInv == \A w \in Writer : (wpc[w] = "scan" \/ Changing(w)) <=> portLock = w

\* A lookup stays on linked nodes, and node->readers counts the lookups within.
ReadersInv ==
    /\ \A r \in Reader : rnode[r] <= linked
    /\ \A r \in Reader :
          rpc[r] \in {"enter", "recheck", "compare", "load", "leave"} => rnode[r] # NULL
    /\ \A n \in Node : readers[n] = Cardinality(Within(n))

\* A writer has a tag, and the node it revives or retags is linked and inactive.
WriterInv ==
    \A w \in Writer :
       /\ wpc[w] # "idle" => wtag[w] \in Tag
       /\ wpc[w] \in {"wait", "free", "assign", "level", "activate"} =>
             wnode[w] \in 1 .. linked /\ ~active[wnode[w]]

\* The writer that saw no reader is alone with the string, until it reactivates the node.
RetagInv ==
    \A w \in Writer, r \in Reader :
       wpc[w] \in {"free", "assign", "level"} /\ rnode[r] = wnode[w] =>
          rpc[r] \notin {"compare", "load"}

\* Only the node between free and the assignment after it is without a string.
StringInv ==
    \A n \in 1 .. linked : tag[n] = Freed => \E w \in Writer : wpc[w] = "assign" /\ wnode[w] = n

\* s_active_tag_filter_count is the number of active nodes, but for the writer
\* that changed a flag and has not yet changed the counter.
Uncounted ==
    IF \E w \in Writer : wpc[w] \in {"count", "countNew"} THEN 1
    ELSE IF \E w \in Writer : wpc[w] = "uncount" THEN -1
    ELSE 0

ActiveNodes == {n \in Node : active[n]}

CountInv ==
    /\ ActiveNodes \subseteq 1 .. linked
    /\ count + Uncounted = Cardinality(ActiveNodes)

(***************************************************************************)
(* The invariant of the filter list: the port lock, the reader counts, the *)
(* owner of every string and the counter of active nodes agree at every    *)
(* step of every interleaving of writers and lookups.                      *)
(***************************************************************************)
FilterInv == LockInv /\ ReadersInv /\ WriterInv /\ RetagInv /\ StringInv /\ CountInv

=============================================================================
