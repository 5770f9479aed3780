------------------------- MODULE IsrPipelineProofs --------------------------
(***************************************************************************)
(* The ISR pipeline, for any number of handlers, starters, rings, tasks    *)
(* and sinks: it uses the emission path as On9logCore describes it, no     *)
(* handler writes to a ring nobody drains, and the packets of a ring reach *)
(* every sink once and in order.                                           *)
(***************************************************************************)
EXTENDS IsrPipeline, On9logCoreProofs

\* Every variable of the pipeline holds a value of its kind.
PipelineTyped ==
    /\ handle \in Drain \cup {NoTask} /\ created \subseteq Drain /\ running \subseteq Drain
    /\ ipc \in [Starter -> {"idle", "create", "task", "publish", "flag"}]
    /\ mine \in [Starter -> Drain \cup {NoTask}]
    /\ hpc \in [Isr -> {"idle", "ready", "send", "count"}]
    /\ ring \in [Drain -> Seq(Nat)] /\ sent \in [Drain -> Nat]
    /\ item \in [Drain -> Nat \cup {None}]
    /\ seen \in [Sink -> [Drain -> Nat \cup {None}]]

(***************************************************************************)
(* A starter has its ring to itself until the drain task runs, and then    *)
(* neither ever goes away; a handler that is about to send saw a ring.     *)
(***************************************************************************)
SetupInv ==
    /\ RingsAreDrained
    /\ \A i \in Starter :
          /\ ipc[i] = "task" => mine[i] \in created \ running
          /\ ipc[i] \in {"publish", "flag"} => mine[i] \in created \cap running
          /\ ipc[i] = "flag" => handle # NoTask
    /\ \A i, j \in Starter : ipc[i] = "task" /\ ipc[j] = "task" /\ mine[i] = mine[j] => i = j
    /\ \A h \in Isr : hpc[h] = "send" => handle # NoTask

\* How many packets of ring d have been dispatched and returned.
Done(d) == sent[d] - Len(ring[d])

\* The ring holds the packets that follow those, and the first is the one being dispatched.
InSequence(d) ==
    /\ Done(d) >= 0
    /\ \A k \in 1 .. Len(ring[d]) : ring[d][k] = Done(d) + k
    /\ item[d] # None => ring[d] # <<>> /\ item[d] = Done(d) + 1

RingInv == \A d \in Drain : InSequence(d)

\* A drain task that is in a call dispatches the LOG packet it has received.
DispatchInv ==
    \A d \in Drain :
       /\ pc[d] # "idle" => /\ item[d] # None
                            /\ call[d].fn = "dispatch" /\ call[d].type = "LOG"
       /\ pc[d] \in {"take", "body", "open", "number", "start", "payload", "end", "idle"}
       /\ pc[d] \in {"open", "number", "start", "payload", "end"} =>
             cur[d].type \in {"LOG", "DROPPED"}

\* The sink in slot i has been shown the start of the packet d has received.
Shown(d, i) ==
    /\ item[d] # None
    /\ \/ pc[d] = "idle"
       \/ cur[d].type = "LOG" /\ pc[d] \in {"payload", "end"}
       \/ cur[d].type = "LOG" /\ pc[d] = "start" /\ i \notin todo[d]

\* What a sink has seen of a ring is what was dispatched, as far as the sink has been there.
SeenInv ==
    /\ \A s \in Sink, d \in Drain : ~Registered(s) => seen[s][d] = None
    /\ \A i \in Occupied(sinks), d \in Drain :
          \/ seen[sinks[i]][d] = None
          \/ seen[sinks[i]][d] = IF Shown(d, i) THEN Done(d) + 1 ELSE Done(d)

PipelineInv ==
    /\ Typed /\ EmissionInv
    /\ PipelineTyped /\ SetupInv /\ RingInv /\ DispatchInv /\ SeenInv

USE DEF coreVars, ringVars, initVars, isrVars, GotoI, GotoH, ReturnH, globals, locals, history

-----------------------------------------------------------------------------
(***************************************************************************)
(* The pipeline uses the emission path and changes nothing else of it.     *)
(***************************************************************************)
LEMMA CoreStep == ASSUME [PipelineNext]_allVars PROVE [Next]_vars
<1>1. CASE \E t \in Task : AppBegin(t) \/ EmissionStep(t)
  BY <1>1 DEF AppBegin, EmissionStep, Next
<1>2. CASE \E i \in Starter : StarterStep(i)
  BY <1>2 DEF StarterStep, InitBegin, CreateFails, CreateTask, TaskFails, Publish, SetInstalled,
     CreateRing, vars
<1>3. CASE \E h \in Isr : HandlerStep(h)
  BY <1>3 DEF HandlerStep, IsrBegin, IsrNotReady, IsrEncode, IsrEncodeFails, IsrSend, IsrFull,
     IsrCount, Next, vars
<1>4. CASE \E d \in Drain : Receive(d) \/ ReturnItem(d)
  <2>1. ASSUME NEW d \in Drain, Receive(d) PROVE Next
    BY <2>1, PipelineAssumption DEF Receive, Begin, Next
  <2>2. ASSUME NEW d \in Drain, ReturnItem(d) PROVE UNCHANGED vars
    BY <2>2 DEF ReturnItem, vars
  <2> QED
    BY <1>4, <2>1, <2>2
<1>5. CASE UNCHANGED allVars
  BY <1>5 DEF allVars, vars
<1> QED
  BY <1>1, <1>2, <1>3, <1>4, <1>5 DEF PipelineNext

(***************************************************************************)
(* Every behaviour of the pipeline is one of the emission path: drain      *)
(* tasks are callers like any other and handlers only count drops, so all  *)
(* that is proved of Spec holds with interrupts logging as well.           *)
(***************************************************************************)
THEOREM PipelineUsesCore == PipelineSpec => Spec
<1>1. PipelineInit => Init
  BY DEF PipelineInit
<1> QED
  BY <1>1, CoreStep, PTL DEF PipelineSpec, Spec

-----------------------------------------------------------------------------
\* A step of the emission path leaves the locals of other tasks alone.
LEMMA OtherTasks ==
    ASSUME Typed, NEW t \in Task, InCall(t) \/ Begin(t), NEW u \in Task \ {t}
    PROVE  pc'[u] = pc[u] /\ call'[u] = call[u] /\ cur'[u] = cur[u] /\ todo'[u] = todo[u]
<1>1. /\ pc \in [Task -> PC] /\ call \in [Task -> Call] /\ cur \in [Task -> Packet]
      /\ todo \in [Task -> SUBSET Slot]
  BY DEF Typed, TypeOK
<1>2. CASE Begin(t)
  BY <1>1, <1>2 DEF Begin, BeginWrite, BeginBuffer, RejectBuffer, BeginBoot, BeginDispatch,
     BeginTableEdit, Goto
<1>3. CASE TakeNone(t) \/ TakeDropped(t) \/ WriteFits(t) \/ PacketTooLong(t)
  BY <1>1, <1>3 DEF TakeNone, TakeDropped, WriteFits, PacketTooLong, Goto, Return
<1>4. CASE EmitChunk(t) \/ EmitDispatched(t) \/ StreamOpen(t) \/ NumberPacket(t)
  BY <1>1, <1>4 DEF EmitChunk, EmitDispatched, StreamOpen, NumberPacket, Goto
<1>5. CASE NextChunk(t) \/ LastChunkSent(t) \/ EndNotice(t) \/ EndChunk(t) \/ EndPacket(t)
  BY <1>1, <1>5 DEF NextChunk, LastChunkSent, EndNotice, EndChunk, EndPacket, StreamEnd, Goto,
     Return
<1>6. CASE \E i \in Slot : StartCb(t, i) \/ PayloadCb(t, i) \/ EndCb(t, i)
  BY <1>1, <1>6 DEF StartCb, PayloadCb, EndCb, VisitSlot
<1>7. CASE TableLock(t) \/ AddSink(t) \/ RemoveSink(t) \/ TableUnchanged(t) \/ TableUnlock(t)
  BY <1>1, <1>7 DEF TableLock, AddSink, RemoveSink, TableUnchanged, TableUnlock, Goto, Return
<1> QED
  BY <1>2, <1>3, <1>4, <1>5, <1>6, <1>7 DEF InCall

-----------------------------------------------------------------------------
(***************************************************************************)
(* Types, and the setup of the rings.                                      *)
(***************************************************************************)

\* Each step leaves the variables of the pipeline in their sets.
LEMMA TypedStep ==
    ASSUME PipelineTyped, SetupInv, RingInv, [PipelineNext]_allVars PROVE PipelineTyped'
<1> USE PipelineAssumption, CoreAssumption DEF PipelineTyped
<1>1. ASSUME NEW t \in Task, AppBegin(t) PROVE PipelineTyped'
  BY <1>1 DEF AppBegin
<1>2. ASSUME NEW t \in Task, EmissionStep(t) PROVE PipelineTyped'
  <2>1. UNCHANGED <<ringVars, initVars, isrVars, item>>
    BY <1>2 DEF EmissionStep
  <2>2. seen' \in [Sink -> [Drain -> Nat \cup {None}]]
    BY <1>2 DEF EmissionStep, Shows
  <2> QED
    BY <2>1, <2>2
<1>3. ASSUME NEW i \in Starter, StarterStep(i) PROVE PipelineTyped'
  <2>1. CASE InitBegin(i) \/ CreateFails(i)
    BY <2>1 DEF InitBegin, CreateFails
  <2>4. CASE \E d \in Drain : CreateRing(i, d)
    BY <2>4 DEF CreateRing
  <2>2. CASE CreateTask(i) \/ TaskFails(i)
    BY <2>2 DEF CreateTask, TaskFails, SetupInv
  <2>3. CASE Publish(i) \/ SetInstalled(i)
    BY <2>3 DEF Publish, SetInstalled, SetupInv
  <2> QED
    BY <1>3, <2>1, <2>2, <2>3, <2>4 DEF StarterStep
<1>4. ASSUME NEW h \in Isr, HandlerStep(h) PROVE PipelineTyped'
  <2>1. CASE IsrSend(h)
    <3>1. handle \in Drain
      BY <2>1 DEF IsrSend, SetupInv
    <3>2. Append(ring[handle], sent[handle] + 1) \in Seq(Nat) /\ sent[handle] + 1 \in Nat
      BY <3>1
    <3>3. ring' \in [Drain -> Seq(Nat)] /\ sent' \in [Drain -> Nat]
      BY <2>1, <3>1, <3>2 DEF IsrSend
    <3> QED
      BY <2>1, <3>3 DEF IsrSend
  <2>2. CASE IsrBegin(h) \/ IsrNotReady(h) \/ IsrEncode(h) \/ IsrEncodeFails(h) \/ IsrFull(h)
    BY <2>2 DEF IsrBegin, IsrNotReady, IsrEncode, IsrEncodeFails, IsrFull
  <2>3. CASE IsrCount(h)
    BY <2>3 DEF IsrCount
  <2> QED
    BY <1>4, <2>1, <2>2, <2>3 DEF HandlerStep
<1>5. ASSUME NEW d \in Drain, Receive(d) PROVE PipelineTyped'
  <2>1. Head(ring[d]) \in Nat
    BY <1>5 DEF Receive
  <2> QED
    BY <1>5, <2>1 DEF Receive
<1>6. ASSUME NEW d \in Drain, ReturnItem(d) PROVE PipelineTyped'
  <2>1. Tail(ring[d]) \in Seq(Nat)
    BY <1>6 DEF ReturnItem, RingInv, InSequence
  <2> QED
    BY <1>6, <2>1 DEF ReturnItem
<1>7. CASE UNCHANGED allVars
  BY <1>7 DEF allVars
<1> QED
  BY <1>1, <1>2, <1>3, <1>4, <1>5, <1>6, <1>7 DEF PipelineNext

\* A ring is published only with its drain task, and deleted only without one.
LEMMA SetupStep ==
    ASSUME PipelineTyped, SetupInv, RingInv, [PipelineNext]_allVars PROVE SetupInv'
<1> USE PipelineAssumption, CoreAssumption DEF PipelineTyped, SetupInv, RingsAreDrained
<1>1. ASSUME NEW t \in Task, AppBegin(t) \/ EmissionStep(t) PROVE SetupInv'
  BY <1>1 DEF AppBegin, EmissionStep
<1>2. ASSUME NEW i \in Starter, InitBegin(i) PROVE SetupInv'
  BY <1>2 DEF InitBegin
<1>12. ASSUME NEW i \in Starter, CreateFails(i) PROVE SetupInv'
  BY <1>12 DEF CreateFails
<1>3. ASSUME NEW i \in Starter, NEW d \in Drain, CreateRing(i, d) PROVE SetupInv'
  BY <1>3 DEF CreateRing
<1>4. ASSUME NEW i \in Starter, CreateTask(i) PROVE SetupInv'
  BY <1>4 DEF CreateTask
<1>5. ASSUME NEW i \in Starter, TaskFails(i) PROVE SetupInv'
  BY <1>5 DEF TaskFails
<1>6. ASSUME NEW i \in Starter, Publish(i) PROVE SetupInv'
  BY <1>6 DEF Publish
<1>13. ASSUME NEW i \in Starter, SetInstalled(i) PROVE SetupInv'
  BY <1>13 DEF SetInstalled
<1>7. ASSUME NEW h \in Isr, IsrSend(h) PROVE SetupInv'
  BY <1>7 DEF IsrSend
<1>8. ASSUME NEW h \in Isr, HandlerStep(h), ~IsrSend(h) PROVE SetupInv'
  BY <1>8 DEF HandlerStep, IsrBegin, IsrNotReady, IsrEncode, IsrEncodeFails, IsrFull, IsrCount,
     IsrReady
<1>9. ASSUME NEW d \in Drain, Receive(d) PROVE SetupInv'
  BY <1>9 DEF Receive
<1>10. ASSUME NEW d \in Drain, ReturnItem(d) PROVE SetupInv'
  BY <1>10 DEF ReturnItem, RingInv, InSequence
<1>11. CASE UNCHANGED allVars
  BY <1>11 DEF allVars
<1> QED
  BY <1>1, <1>2, <1>3, <1>4, <1>5, <1>6, <1>7, <1>8, <1>9, <1>10, <1>11,
     <1>12, <1>13
     DEF PipelineNext, StarterStep

-----------------------------------------------------------------------------
(***************************************************************************)
(* The contents of the rings, and the calls of the drain tasks.            *)
(***************************************************************************)
\* What is done to the rings: a handler puts a packet in, a drain task takes one out.
LEMMA RingChanges ==
    ASSUME [PipelineNext]_allVars
    PROVE  \/ UNCHANGED <<ring, sent, item>>
           \/ \E h \in Isr : IsrSend(h)
           \/ \E d \in Drain : Receive(d) \/ ReturnItem(d)
<1>1. CASE \E t \in Task : AppBegin(t) \/ EmissionStep(t)
  BY <1>1 DEF AppBegin, EmissionStep
<1>2. CASE \E i \in Starter : StarterStep(i)
  BY <1>2 DEF StarterStep, InitBegin, CreateFails, CreateTask, TaskFails, Publish, SetInstalled,
     CreateRing
<1>3. CASE \E h \in Isr : HandlerStep(h)
  BY <1>3 DEF HandlerStep, IsrBegin, IsrNotReady, IsrEncode, IsrEncodeFails, IsrFull, IsrCount
<1>4. CASE UNCHANGED allVars
  BY <1>4 DEF allVars
<1> QED
  BY <1>1, <1>2, <1>3, <1>4 DEF PipelineNext

\* A ring's packets are taken out in the order they were put in.
LEMMA RingStep ==
    ASSUME PipelineTyped, SetupInv, RingInv, [PipelineNext]_allVars PROVE RingInv'
<1> USE PipelineAssumption, CoreAssumption DEF PipelineTyped, InSequence, Done
<1>1. CASE UNCHANGED <<ring, sent, item>>
  BY <1>1 DEF RingInv
<1>2. ASSUME NEW h \in Isr, IsrSend(h) PROVE RingInv'
  <2>1. PICK d \in Drain : d = handle
    BY <1>2 DEF IsrSend, SetupInv
  <2>2. /\ ring'[d] = Append(ring[d], sent[d] + 1)
        /\ sent'[d] = sent[d] + 1 /\ item' = item
        /\ \A e \in Drain \ {d} : ring'[e] = ring[e] /\ sent'[e] = sent[e]
    BY <1>2, <2>1 DEF IsrSend
  <2>3. ring[d] \in Seq(Nat) /\ sent[d] \in Nat /\ Len(ring[d]) \in Nat
    OBVIOUS
  <2>4. Len(ring'[d]) = Len(ring[d]) + 1
    BY <2>2, <2>3
  <2>5. Done(d)' = Done(d)
    BY <2>2, <2>3, <2>4
  <2>6. ASSUME NEW k \in 1 .. Len(ring'[d]) PROVE ring'[d][k] = Done(d)' + k
    <3>1. CASE k = Len(ring[d]) + 1
      BY <2>2, <2>3, <2>5, <3>1
    <3>2. CASE k \in 1 .. Len(ring[d])
      BY <2>2, <2>3, <2>5, <3>2 DEF RingInv
    <3> QED
      BY <2>3, <2>4, <3>1, <3>2
  <2>7. item'[d] # None => ring'[d] # <<>> /\ item'[d] = Done(d)' + 1
    <3>1. ring'[d] # <<>>
      BY <2>3, <2>4
    <3> QED
      BY <2>2, <2>5, <3>1 DEF RingInv
  <2>8. Done(d)' >= 0
    BY <2>5 DEF RingInv
  <2>9. ASSUME NEW e \in Drain \ {d} PROVE InSequence(e)'
    <3>1. sent'[e] = sent[e] /\ ring'[e] = ring[e] /\ item'[e] = item[e]
      BY <2>2
    <3>2. InSequence(e)
      BY DEF RingInv
    <3> QED
      BY <3>1, <3>2, Zenon
  <2>10. InSequence(d)'
    BY <2>6, <2>7, <2>8
  <2> QED
    BY <2>9, <2>10 DEF RingInv
<1>3. ASSUME NEW d \in Drain, Receive(d) PROVE RingInv'
  <2>1. ring[d] \in Seq(Nat) /\ ring[d] # <<>> /\ UNCHANGED <<ring, sent>>
    BY <1>3 DEF Receive
  <2>2. 1 \in 1 .. Len(ring[d]) /\ Head(ring[d]) = ring[d][1]
    BY <2>1
  <2>3. item'[d] = Done(d) + 1 /\ \A e \in Drain \ {d} : item'[e] = item[e]
    BY <1>3, <2>2 DEF Receive, RingInv
  <2> QED
    BY <2>1, <2>3, ZenonT(40) DEF RingInv
<1>4. ASSUME NEW d \in Drain, ReturnItem(d) PROVE RingInv'
  <2>1. ring[d] \in Seq(Nat) /\ ring[d] # <<>> /\ sent[d] \in Nat
    BY <1>4 DEF ReturnItem, RingInv, InSequence
  <2>2. /\ ring'[d] = Tail(ring[d]) /\ sent' = sent /\ item'[d] = None
        /\ \A e \in Drain \ {d} : ring'[e] = ring[e] /\ item'[e] = item[e]
    BY <1>4 DEF ReturnItem
  <2>6. Len(ring'[d]) = Len(ring[d]) - 1 /\ Len(ring[d]) \in Nat
    BY <2>1, <2>2
  <2>3. Done(d)' = Done(d) + 1
    BY <2>1, <2>2, <2>6
  <2>4. ASSUME NEW k \in 1 .. Len(ring'[d]) PROVE ring'[d][k] = Done(d)' + k
    <3>1. k + 1 \in 1 .. Len(ring[d]) /\ ring'[d][k] = ring[d][k + 1]
      BY <2>1, <2>2, <2>6
    <3>2. ring[d][k + 1] = Done(d) + (k + 1)
      BY <3>1 DEF RingInv
    <3> QED
      BY <2>1, <2>3, <3>1, <3>2
  <2>5. Done(d)' >= 0
    BY <2>1, <2>3 DEF RingInv
  <2>7. ASSUME NEW e \in Drain \ {d} PROVE InSequence(e)'
    <3>1. ring'[e] = ring[e] /\ item'[e] = item[e] /\ sent'[e] = sent[e] /\ InSequence(e)
      BY <2>2 DEF RingInv
    <3> QED
      BY <3>1
  <2>8. InSequence(d)'
    BY <2>2, <2>4, <2>5
  <2> QED
    BY <2>7, <2>8 DEF RingInv
<1> QED
  BY <1>1, <1>2, <1>3, <1>4, RingChanges

\* Apart from their own tasks nobody moves in the emission path but AppBegin and EmissionStep.
LEMMA TaskChanges ==
    ASSUME [PipelineNext]_allVars
    PROVE  \/ \E t \in Task : AppBegin(t) \/ EmissionStep(t)
           \/ \E d \in Drain : Receive(d)
           \/ UNCHANGED <<pc, call, cur, todo, sinks, seen, view>>
<1>1. CASE \E i \in Starter : StarterStep(i)
  BY <1>1 DEF StarterStep, InitBegin, CreateFails, CreateTask, TaskFails, Publish, SetInstalled,
     CreateRing
<1>2. CASE \E h \in Isr : HandlerStep(h)
  BY <1>2 DEF HandlerStep, IsrBegin, IsrNotReady, IsrEncode, IsrEncodeFails, IsrSend, IsrFull,
     IsrCount, IsrDrop
<1>3. CASE \E d \in Drain : ReturnItem(d)
  BY <1>3 DEF ReturnItem
<1>4. CASE UNCHANGED allVars
  BY <1>4 DEF allVars
<1> QED
  BY <1>1, <1>2, <1>3, <1>4 DEF PipelineNext

\* A drain task dispatches what it received, and nothing else.
LEMMA DispatchStep ==
    ASSUME Typed, PipelineTyped, RingInv, DispatchInv, [PipelineNext]_allVars
    PROVE  DispatchInv'
<1>a. /\ pc \in [Task -> PC] /\ call \in [Task -> Call] /\ cur \in [Task -> Packet]
      /\ item \in [Drain -> Nat \cup {None}] /\ Drain \subseteq Task
  BY PipelineAssumption DEF Typed, TypeOK, PipelineTyped
<1>1. ASSUME NEW t \in Task, AppBegin(t) PROVE DispatchInv'
  BY <1>a, <1>1, OtherTasks DEF AppBegin, DispatchInv
<1>2. ASSUME NEW t \in Task \ Drain, EmissionStep(t) PROVE DispatchInv'
  BY <1>a, <1>2, OtherTasks DEF EmissionStep, DispatchInv
<1>3. ASSUME NEW d \in Drain, EmissionStep(d) PROVE DispatchInv'
  <2>1. InCall(d) /\ item' = item
    BY <1>3 DEF EmissionStep
  <2>2. \A e \in Drain \ {d} : pc'[e] = pc[e] /\ call'[e] = call[e] /\ cur'[e] = cur[e]
    BY <1>a, <2>1, OtherTasks
  <2>3. /\ pc'[d] # "idle" => /\ item[d] # None
                              /\ call'[d].fn = "dispatch" /\ call'[d].type = "LOG"
        /\ pc'[d] \in {"take", "body", "open", "number", "start", "payload", "end", "idle"}
        /\ pc'[d] \in {"open", "number", "start", "payload", "end"} =>
              cur'[d].type \in {"LOG", "DROPPED"}
    <3> USE <1>a DEF DispatchInv
    <3>1. CASE TakeNone(d) \/ TakeDropped(d) \/ EmitDispatched(d)
      BY <3>1 DEF TakeNone, TakeDropped, EmitDispatched, Goto, Template
    <3>2. CASE WriteFits(d) \/ PacketTooLong(d) \/ EmitChunk(d)
      BY <3>2 DEF WriteFits, PacketTooLong, EmitChunk
    <3>3. CASE StreamOpen(d) \/ NextChunk(d) \/ LastChunkSent(d)
      BY <3>3 DEF StreamOpen, NextChunk, LastChunkSent, Goto
    <3>4. CASE NumberPacket(d)
      BY <3>4 DEF NumberPacket, Goto, Stamped
    <3>5. CASE EndNotice(d) \/ EndPacket(d)
      BY <3>5 DEF EndNotice, EndPacket, StreamEnd, Goto, Return
    <3>6. CASE EndChunk(d)
      BY <3>6 DEF EndChunk, StreamEnd
    <3>7. CASE \E i \in Slot : StartCb(d, i) \/ PayloadCb(d, i) \/ EndCb(d, i)
      BY <3>7 DEF StartCb, PayloadCb, EndCb
    <3>8. CASE TableLock(d) \/ AddSink(d) \/ RemoveSink(d) \/ TableUnchanged(d) \/ TableUnlock(d)
      BY <3>8 DEF TableLock, AddSink, RemoveSink, TableUnchanged, TableUnlock
    <3> QED
      BY <2>1, <3>1, <3>2, <3>3, <3>4, <3>5, <3>6, <3>7, <3>8 DEF InCall
  <2> QED
    BY <2>1, <2>2, <2>3 DEF DispatchInv
<1>4. ASSUME NEW d \in Drain, Receive(d) PROVE DispatchInv'
  <2>1. /\ pc'[d] = "take" /\ call'[d] = ApiCall("dispatch", NoSink, 0, "LOG") /\ cur' = cur
        /\ \A e \in Drain \ {d} : pc'[e] = pc[e] /\ call'[e] = call[e] /\ item'[e] = item[e]
    BY <1>a, <1>4 DEF Receive, BeginDispatch, Goto
  <2>2. item'[d] # None
    <3>1. ring[d] \in Seq(Nat) /\ ring[d] # <<>>
      BY <1>4 DEF Receive, PipelineTyped
    <3>2. Head(ring[d]) \in Nat
      BY <3>1
    <3> QED
      BY <1>a, <1>4, <3>2, CoreAssumption DEF Receive
  <2> QED
    BY <2>1, <2>2 DEF DispatchInv, ApiCall
<1>5. ASSUME UNCHANGED <<pc, call, cur, todo, sinks, seen, view>> PROVE DispatchInv'
  <2>1. CASE UNCHANGED item
    BY <1>5, <2>1 DEF DispatchInv
  <2>2. CASE \E d \in Drain : ReturnItem(d)
    BY <1>a, <1>5, <2>2 DEF ReturnItem, DispatchInv
  <2>3. CASE \E h \in Isr : IsrSend(h)
    BY <1>5, <2>3 DEF IsrSend, DispatchInv
  <2> QED
    BY <1>4, <2>1, <2>2, <2>3, RingChanges
<1> QED
  BY <1>1, <1>2, <1>3, <1>4, <1>5, TaskChanges

-----------------------------------------------------------------------------
(***************************************************************************)
(* What the sinks have seen of the rings.                                  *)
(***************************************************************************)
\* A sink that is in the table is not "removed".
TableIsLive == \A i \in Occupied(sinks) : view[sinks[i]].cb # "removed"

LEMMA RegisteredLive == EmissionInv => TableIsLive
<1> SUFFICES ASSUME EmissionInv, NEW i \in Occupied(sinks) PROVE view[sinks[i]].cb # "removed"
  BY DEF TableIsLive
<1>1. CASE \A t \in Task : ~Delivering(t)
  BY <1>1 DEF EmissionInv, RegisteredInv, AtRest
<1>2. ASSUME NEW t \in Task, Delivering(t) PROVE view[sinks[i]].cb # "removed"
  BY <1>2 DEF Delivering, EmissionInv, RegisteredInv, AtRest, Inside
<1> QED
  BY <1>1, <1>2

\* The same after a step.
LEMMA RegisteredLiveNext == EmissionInv' => TableIsLive'
  BY RegisteredLive, PTL

\* A sink stays in its slot, or was not in the table before.
LEMMA SlotsStay ==
    ASSUME Typed, NEW t \in Task, InCall(t), NEW i \in Occupied(sinks)'
    PROVE  sinks'[i] = sinks[i] \/ ~Registered(sinks'[i])
<1>1. sinks \in [Slot -> Sink \cup {NoSink}] /\ i \in Slot /\ sinks'[i] # NoSink
  BY DEF Typed, TypeOK, Occupied
<1>2. CASE AddSink(t)
  BY <1>1, <1>2 DEF AddSink, Free
<1>3. CASE RemoveSink(t)
  BY <1>1, <1>3 DEF RemoveSink
<1>4. CASE TakeNone(t) \/ TakeDropped(t) \/ WriteFits(t) \/ PacketTooLong(t)
  BY <1>4 DEF TakeNone, TakeDropped, WriteFits, PacketTooLong
<1>5. CASE EmitChunk(t) \/ EmitDispatched(t) \/ StreamOpen(t) \/ NumberPacket(t)
  BY <1>5 DEF EmitChunk, EmitDispatched, StreamOpen, NumberPacket
<1>6. CASE NextChunk(t) \/ LastChunkSent(t) \/ EndNotice(t) \/ EndChunk(t) \/ EndPacket(t)
  BY <1>6 DEF NextChunk, LastChunkSent, EndNotice, EndChunk, EndPacket, StreamEnd
<1>7. CASE \E j \in Slot : StartCb(t, j) \/ PayloadCb(t, j) \/ EndCb(t, j)
  BY <1>7 DEF StartCb, PayloadCb, EndCb
<1>8. CASE TableLock(t) \/ TableUnchanged(t) \/ TableUnlock(t)
  BY <1>8 DEF TableLock, TableUnchanged, TableUnlock
<1> QED
  BY <1>2, <1>3, <1>4, <1>5, <1>6, <1>7, <1>8 DEF InCall

\* start_cb of a LOG packet is what shows a packet from a ring.
LEMMA StartShows ==
    ASSUME Typed, EmissionInv, NEW d \in Drain, NEW i \in Slot, StartCb(d, i), d \in Task,
           cur[d].type = "LOG"
    PROVE  sinks[i] \in Sink /\ Shows(d, sinks[i])
<1>1. pc[d] = "start" /\ VisitSlot(d, i) /\ Sees(snap[d][i], "start", cur[d])
  BY DEF StartCb
<1>2. /\ sinks[i] \in Sink /\ snap[d][i] = sinks[i]
      /\ view'[sinks[i]].cb = "start" /\ SamePacket(view'[sinks[i]], cur[d])
  BY <1>1, CallbackFacts
<1>3. i \in todo[d] /\ i \in Occupied(sinks) /\ cur[d].by = d
  BY <1>1 DEF VisitSlot, EmissionInv, SnapInv, Delivering
<1>4. view[sinks[i]].cb # "start"
  BY <1>1, <1>3 DEF EmissionInv, RegisteredInv, AtRest
<1> QED
  BY <1>2, <1>3, <1>4 DEF Shows, Starts, SamePacket

\* ... and nothing else shows one.
LEMMA ShowsStarts ==
    ASSUME Typed, EmissionInv, [Next]_vars, NEW d \in Drain, NEW s \in Sink, Shows(d, s)
    PROVE  d \in Task /\ cur[d].type = "LOG" /\ \E i \in Slot : StartCb(d, i) /\ s = sinks[i]
<1>1. view'[s] # view[s] /\ view'[s].cb = "start" /\ view'[s].type = "LOG" /\ view'[s].by = d
  BY DEF Shows, Starts
<1>2. PICK t \in Task, i \in Slot :
         StartCb(t, i) /\ s = sinks[i] /\ SamePacket(view'[s], cur[t])
  BY <1>1, OnlyStartStarts
<1>3. t = d
  BY <1>1, <1>2 DEF SamePacket, EmissionInv, SnapInv
<1> QED
  BY <1>1, <1>2, <1>3 DEF SamePacket

\* Whether a registered sink has been shown the packet changes at start_cb only.
LEMMA ShownStays ==
    ASSUME Typed, EmissionInv, PipelineTyped, DispatchInv, NEW t \in Task, EmissionStep(t),
           NEW d \in Drain, NEW i \in Occupied(sinks)
    PROVE  \/ Shown(d, i)' <=> Shown(d, i)
           \/ d = t /\ StartCb(d, i) /\ cur[d].type = "LOG"
<1>a. /\ pc \in [Task -> PC] /\ call \in [Task -> Call] /\ cur \in [Task -> Packet]
      /\ todo \in [Task -> SUBSET Slot] /\ d \in Task
  BY PipelineAssumption DEF Typed, TypeOK
<1>b. InCall(t) /\ item' = item
  BY DEF EmissionStep
<1>1. CASE d # t
  BY <1>a, <1>b, <1>1, OtherTasks DEF Shown
<1>2. CASE d = t
  <2> USE <1>a, <1>b DEF Shown
  <2>1. pc[d] # "idle" => item[d] # None
    BY DEF DispatchInv
  <2>2. CASE TakeNone(d) \/ TakeDropped(d) \/ EmitDispatched(d) \/ StreamOpen(d)
    BY <2>2 DEF TakeNone, TakeDropped, EmitDispatched, StreamOpen, Goto
  <2>3. CASE WriteFits(d) \/ PacketTooLong(d) \/ EmitChunk(d) \/ EndChunk(d)
    BY <2>3 DEF WriteFits, PacketTooLong, EmitChunk, EndChunk, StreamEnd, DispatchInv
  <2>4. CASE NumberPacket(d)
    <3>1. pc[d] = "number" /\ pc'[d] = "start" /\ todo'[d] = Occupied(snap[d])
      BY <2>4 DEF NumberPacket, Goto
    <3>2. snap[d] = sinks
      BY <3>1 DEF EmissionInv, SnapInv
    <3> QED
      BY <3>1, <3>2
  <2>5. CASE NextChunk(d) \/ LastChunkSent(d)
    BY <2>1, <2>5 DEF NextChunk, LastChunkSent, Goto
  <2>6. CASE EndNotice(d)
    BY <2>6 DEF EndNotice, StreamEnd, Goto
  <2>7. CASE EndPacket(d)
    BY <2>1, <2>7 DEF EndPacket, StreamEnd, Return, DispatchInv
  <2>8. ASSUME NEW j \in Slot, StartCb(d, j)
        PROVE  \/ Shown(d, i)' <=> Shown(d, i)
               \/ StartCb(d, i) /\ cur[d].type = "LOG"
    BY <2>8 DEF StartCb, VisitSlot
  <2>9. CASE \E j \in Slot : PayloadCb(d, j) \/ EndCb(d, j)
    BY <2>9 DEF PayloadCb, EndCb, VisitSlot
  <2>10. CASE TableLock(d) \/ AddSink(d) \/ RemoveSink(d) \/ TableUnchanged(d) \/ TableUnlock(d)
    BY <2>10 DEF TableLock, AddSink, RemoveSink, TableUnchanged, TableUnlock, DispatchInv
  <2> QED
    BY <1>2, <2>2, <2>3, <2>4, <2>5, <2>6, <2>7, <2>8, <2>9, <2>10 DEF InCall
<1> QED
  BY <1>1, <1>2

\* A step of the emission path shows a sink the next packet of a ring, or none.
LEMMA SeenEmission ==
    ASSUME PipelineInv, EmissionInv', NEW t \in Task, EmissionStep(t), [Next]_vars
    PROVE  SeenInv'
<1>a. /\ Typed /\ EmissionInv /\ PipelineTyped /\ RingInv /\ DispatchInv /\ SeenInv
      /\ seen \in [Sink -> [Drain -> Nat \cup {None}]] /\ Drain \subseteq Task
  BY PipelineAssumption DEF PipelineInv, PipelineTyped
<1>b. InCall(t) /\ UNCHANGED <<ring, sent, item>>
  BY DEF EmissionStep
<1>c. ASSUME NEW s \in Sink
      PROVE  seen'[s] = IF Shows(t, s) THEN [seen[s] EXCEPT ![t] = item[t]]
                        ELSE IF view'[s].cb = "removed" THEN [d \in Drain |-> None]
                        ELSE seen[s]
  BY DEF EmissionStep
<1>1. ASSUME NEW s \in Sink, NEW d \in Drain, ~Registered(s)' PROVE seen'[s][d] = None
  <2>1. view'[s].cb = "removed"
    BY <1>1 DEF EmissionInv, UnregisteredInv
  <2> QED
    BY <1>c, <2>1 DEF Shows, Starts
<1>2. ASSUME NEW i \in Occupied(sinks)', NEW d \in Drain, seen'[sinks'[i]][d] # None
      PROVE  seen'[sinks'[i]][d] = IF Shown(d, i)' THEN Done(d)' + 1 ELSE Done(d)'
  <2>1. PICK s \in Sink : s = sinks'[i]
    <3>1. sinks' \in [Slot -> Sink \cup {NoSink}] /\ i \in Slot /\ sinks'[i] # NoSink
      BY <1>a, StepTyped DEF Typed, TypeOK, Occupied
    <3> QED
      BY <3>1
  <2>2. view'[s].cb # "removed"
    BY <2>1, RegisteredLiveNext DEF TableIsLive
  <2>3. Done(d)' = Done(d)
    BY <1>b DEF Done
  <2>4. CASE Shows(t, s) /\ d = t
    <3>1. PICK j \in Slot : StartCb(d, j) /\ s = sinks[j] /\ cur[d].type = "LOG"
      BY <1>a, <2>4, ShowsStarts
    <3>2. sinks' = sinks /\ pc'[d] = "start" /\ pc[d] = "start" /\ cur' = cur /\ j \notin todo'[d]
      BY <1>a, <3>1 DEF StartCb, VisitSlot, Typed, TypeOK
    <3>3. i = j
      BY <1>2, <2>1, <3>1, <3>2 DEF EmissionInv, NoSinkTwice, Occupied
    <3>4. seen'[s][d] = item[d]
      BY <1>a, <1>c, <2>4
    <3>5. item[d] # None /\ item[d] = Done(d) + 1
      BY <1>a, <3>2 DEF DispatchInv, RingInv, InSequence
    <3>6. Shown(d, i)'
      BY <1>b, <3>1, <3>2, <3>3, <3>5 DEF Shown
    <3> QED
      BY <2>1, <2>3, <3>4, <3>5, <3>6
  <2>5. CASE ~(Shows(t, s) /\ d = t)
    <3>1. seen'[s][d] = seen[s][d]
      BY <1>a, <1>c, <2>2, <2>5
    <3>2. Registered(s)
      BY <1>2, <1>a, <2>1, <3>1 DEF SeenInv
    <3>3. sinks[i] = s
      BY <1>a, <1>b, <2>1, <3>2, SlotsStay
    <3>4. i \in Occupied(sinks)
      BY <1>2, <2>1, <3>3, CoreAssumption DEF Occupied
    <3>5. seen[s][d] = IF Shown(d, i) THEN Done(d) + 1 ELSE Done(d)
      BY <1>a, <1>2, <2>1, <3>1, <3>3, <3>4 DEF SeenInv
    <3>6. Shown(d, i)' <=> Shown(d, i)
      <4>1. ~(d = t /\ StartCb(d, i) /\ cur[d].type = "LOG")
        BY <1>a, <2>5, <3>3, <3>4, StartShows DEF Occupied
      <4> QED
        BY <1>a, <3>4, <4>1, ShownStays
    <3> QED
      BY <2>1, <2>3, <3>1, <3>5, <3>6
  <2> QED
    BY <2>4, <2>5
<1> QED
  BY <1>1, <1>2 DEF SeenInv

\* The other steps show nothing, and agree on what has been shown.
LEMMA SeenStep ==
    ASSUME PipelineInv, EmissionInv', [PipelineNext]_allVars PROVE SeenInv'
<1>a. /\ Typed /\ EmissionInv /\ PipelineTyped /\ SetupInv /\ RingInv /\ DispatchInv /\ SeenInv
      /\ pc \in [Task -> PC] /\ call \in [Task -> Call] /\ cur \in [Task -> Packet]
      /\ todo \in [Task -> SUBSET Slot] /\ Drain \subseteq Task
  BY PipelineAssumption DEF PipelineInv, Typed, TypeOK
<1>b. /\ item \in [Drain -> Nat \cup {None}] /\ sent \in [Drain -> Nat]
      /\ ring \in [Drain -> Seq(Nat)]
  BY <1>a DEF PipelineTyped
\* Nothing a sink has seen, and no sink's slot, changes; what is left is the packet.
<1>c. ASSUME UNCHANGED <<sinks, seen>>,
             \A d \in Drain, i \in Occupied(sinks) :
                (IF Shown(d, i)' THEN Done(d)' + 1 ELSE Done(d)') =
                   IF Shown(d, i) THEN Done(d) + 1 ELSE Done(d)
      PROVE  SeenInv'
  BY <1>a, <1>c DEF SeenInv, Occupied, Registered
<1>1. ASSUME NEW t \in Task, AppBegin(t) PROVE SeenInv'
  <2>1. /\ \A d \in Drain : pc'[d] = pc[d] /\ cur'[d] = cur[d] /\ todo'[d] = todo[d]
        /\ UNCHANGED <<sinks, seen, ring, sent, item>>
    <3>1. UNCHANGED sinks
      BY <1>1 DEF AppBegin, Begin, BeginWrite, BeginBuffer, RejectBuffer, BeginBoot,
         BeginDispatch, BeginTableEdit
    <3> QED
      BY <1>a, <1>1, <3>1, OtherTasks DEF AppBegin
  <2> QED
    BY <1>c, <2>1 DEF Shown, Done
<1>2. ASSUME NEW t \in Task, EmissionStep(t) PROVE SeenInv'
  BY <1>2, CoreStep, SeenEmission
<1>3. ASSUME NEW d \in Drain, Receive(d) PROVE SeenInv'
  <2>1. /\ item[d] = None /\ pc'[d] = "take" /\ UNCHANGED <<sinks, seen, ring, sent, cur, todo>>
        /\ \A e \in Drain \ {d} : pc'[e] = pc[e] /\ item'[e] = item[e]
    BY <1>a, <1>b, <1>3 DEF Receive, BeginDispatch, Goto
  <2>2. \A i \in Occupied(sinks) : ~Shown(d, i) /\ ~Shown(d, i)'
    BY <2>1 DEF Shown
  <2>3. \A e \in Drain \ {d}, i \in Occupied(sinks) : Shown(e, i)' <=> Shown(e, i)
    BY <2>1 DEF Shown
  <2>4. \A e \in Drain : Done(e)' = Done(e)
    BY <2>1 DEF Done
  <2> QED
    BY <1>c, <2>1, <2>2, <2>3, <2>4
<1>4. ASSUME NEW d \in Drain, ReturnItem(d) PROVE SeenInv'
  <2>1. /\ item[d] # None /\ item'[d] = None /\ pc[d] = "idle" /\ ring'[d] = Tail(ring[d])
        /\ UNCHANGED <<sinks, seen, sent, pc, cur, todo>>
        /\ \A e \in Drain \ {d} : ring'[e] = ring[e] /\ item'[e] = item[e]
    BY <1>b, <1>4 DEF ReturnItem
  <2>2. \A i \in Occupied(sinks) : Shown(d, i) /\ ~Shown(d, i)'
    BY <2>1 DEF Shown
  <2>3. Done(d)' = Done(d) + 1
    <3>1. ring[d] \in Seq(Nat) /\ ring[d] # <<>> /\ sent[d] \in Nat
      BY <1>a, <1>b, <2>1 DEF RingInv, InSequence
    <3>2. Len(Tail(ring[d])) = Len(ring[d]) - 1 /\ Len(ring[d]) \in Nat
      BY <3>1
    <3> QED
      BY <2>1, <3>1, <3>2 DEF Done
  <2>4. \A e \in Drain \ {d}, i \in Occupied(sinks) : Shown(e, i)' <=> Shown(e, i)
    BY <2>1 DEF Shown
  <2>5. \A e \in Drain \ {d} : Done(e)' = Done(e)
    BY <2>1 DEF Done
  <2> QED
    BY <1>c, <2>1, <2>2, <2>3, <2>4, <2>5
<1>5. ASSUME UNCHANGED <<pc, call, cur, todo, sinks, seen, view>> PROVE SeenInv'
  <2>1. CASE UNCHANGED <<ring, sent, item>>
    BY <1>c, <1>5, <2>1 DEF Shown, Done
  <2>2. ASSUME NEW h \in Isr, IsrSend(h) PROVE SeenInv'
    <3>1. PICK d \in Drain : d = handle
      BY <1>a, <2>2 DEF IsrSend, SetupInv, PipelineTyped
    <3>2. /\ ring'[d] = Append(ring[d], sent[d] + 1) /\ sent'[d] = sent[d] + 1 /\ item' = item
          /\ \A e \in Drain \ {d} : ring'[e] = ring[e] /\ sent'[e] = sent[e]
      BY <1>b, <2>2, <3>1 DEF IsrSend
    <3>3. Done(d)' = Done(d)
      <4>1. ring[d] \in Seq(Nat) /\ sent[d] \in Nat /\ Len(ring[d]) \in Nat
        BY <1>b
      <4>2. Len(ring'[d]) = Len(ring[d]) + 1
        BY <3>2, <4>1
      <4>3. sent'[d] = sent[d] + 1
        BY <3>2
      <4> QED
        BY <4>1, <4>2, <4>3, SMTT(40) DEF Done
    <3>4. \A e \in Drain \ {d} : Done(e)' = Done(e)
      BY <3>2 DEF Done
    <3>5. \A e \in Drain, i \in Occupied(sinks) : Shown(e, i)' <=> Shown(e, i)
      BY <1>5, <3>2 DEF Shown
    <3> QED
      BY <1>c, <1>5, <3>3, <3>4, <3>5
  <2> QED
    BY <1>3, <1>4, <2>1, <2>2, RingChanges
<1> QED
  BY <1>1, <1>2, <1>3, <1>5, TaskChanges

-----------------------------------------------------------------------------
\* No ring exists and nothing has been seen at first.
LEMMA PipelineInitially == PipelineInit => PipelineInv
<1> SUFFICES ASSUME PipelineInit PROVE PipelineInv
  OBVIOUS
<1>1. Typed /\ EmissionInv
  BY InitTyped, InitEmission DEF PipelineInit
<1>2. PipelineTyped
  BY DEF PipelineInit, PipelineTyped
<1>3. SetupInv
  BY PipelineAssumption, CoreAssumption DEF PipelineInit, SetupInv, RingsAreDrained
<1>4. RingInv
  BY DEF PipelineInit, RingInv, InSequence, Done
<1>5. DispatchInv
  BY PipelineAssumption DEF PipelineInit, Init, DispatchInv
<1>6. SeenInv
  BY CoreAssumption DEF PipelineInit, Init, SeenInv, Occupied, NoTable
<1> QED
  BY <1>1, <1>2, <1>3, <1>4, <1>5, <1>6 DEF PipelineInv

\* The invariant is inductive.
LEMMA PipelineInductive == PipelineInv /\ [PipelineNext]_allVars => PipelineInv'
<1> SUFFICES ASSUME PipelineInv, [PipelineNext]_allVars PROVE PipelineInv'
  OBVIOUS
<1>1. Typed' /\ EmissionInv'
  BY CoreStep, StepTyped, StepKinds DEF PipelineInv
<1>2. PipelineTyped' /\ SetupInv' /\ RingInv' /\ DispatchInv'
  BY TypedStep, SetupStep, RingStep, DispatchStep DEF PipelineInv
<1>3. SeenInv'
  BY <1>1, SeenStep
<1> QED
  BY <1>1, <1>2, <1>3 DEF PipelineInv

\* So it holds in every reachable state.
LEMMA PipelineInvariant == PipelineSpec => []PipelineInv
  BY PipelineInitially, PipelineInductive, PTL DEF PipelineSpec

-----------------------------------------------------------------------------
(***************************************************************************)
(* However the calls of on9log_esp_isr_init overlap and fail, the ring     *)
(* that on9log_port_isr_enqueue_packet finds exists and is drained.        *)
(***************************************************************************)
THEOREM NoRingIsAbandoned == PipelineSpec => []RingsAreDrained
<1>1. PipelineInv => RingsAreDrained
  BY DEF PipelineInv, SetupInv
<1> QED
  BY <1>1, PipelineInvariant, PTL

(***************************************************************************)
(* Every sink is shown the packets of a ring once each and in the order    *)
(* they were queued, and a packet's memory goes back to the ring only when *)
(* all registered sinks have had it.                                       *)
(***************************************************************************)
THEOREM RingsDrainInOrder == PipelineSpec => DrainedInOrder
<1> DEFINE InOrder == \A d \in Drain, s \in Sink :
                 /\ Shows(d, s) => seen[s][d] = None \/ item[d] = seen[s][d] + 1
                 /\ item[d] # None /\ item'[d] = None /\ Registered(s) =>
                       seen[s][d] \in {item[d], None}
<1>1. ASSUME PipelineInv, [PipelineNext]_allVars, NEW d \in Drain, NEW s \in Sink, Shows(d, s)
      PROVE  seen[s][d] = None \/ item[d] = seen[s][d] + 1
  <2>1. PICK i \in Slot : StartCb(d, i) /\ s = sinks[i] /\ d \in Task
    BY <1>1, CoreStep, ShowsStarts DEF PipelineInv
  <2>2. pc[d] = "start" /\ i \in todo[d] /\ i \in Occupied(sinks)
    BY <1>1, <2>1 DEF StartCb, VisitSlot, PipelineInv, EmissionInv, SnapInv, Delivering
  <2>3. item[d] # None /\ item[d] = Done(d) + 1 /\ ~Shown(d, i)
    BY <1>1, <2>2 DEF PipelineInv, DispatchInv, RingInv, InSequence, Shown
  <2> QED
    BY <1>1, <2>1, <2>2, <2>3 DEF PipelineInv, SeenInv
<1>2. ASSUME PipelineInv, [PipelineNext]_allVars, NEW d \in Drain, NEW s \in Sink,
             item[d] # None, item'[d] = None, Registered(s)
      PROVE  seen[s][d] \in {item[d], None}
  <2>1. item \in [Drain -> Nat \cup {None}] /\ ring \in [Drain -> Seq(Nat)]
    BY <1>2 DEF PipelineInv, PipelineTyped
  <2>2. pc[d] = "idle"
    <3>1. CASE \E h \in Isr : IsrSend(h)
      BY <1>2, <3>1 DEF IsrSend
    <3>2. ASSUME NEW e \in Drain, Receive(e) \/ ReturnItem(e) PROVE pc[d] = "idle"
      BY <1>2, <2>1, <3>2 DEF Receive, ReturnItem, BeginDispatch
    <3> QED
      BY <1>2, <3>1, <3>2, RingChanges
  <2>3. PICK i \in Slot : sinks[i] = s
    BY <1>2 DEF Registered
  <2>4. i \in Occupied(sinks) /\ Shown(d, i)
    BY <1>2, <2>2, <2>3, CoreAssumption DEF Occupied, Shown
  <2>5. item[d] = Done(d) + 1
    BY <1>2 DEF PipelineInv, RingInv, InSequence
  <2> QED
    BY <1>2, <2>3, <2>4, <2>5 DEF PipelineInv, SeenInv
<1>3. PipelineInv /\ [PipelineNext]_allVars => [InOrder]_<<view, item>>
  BY <1>1, <1>2
<1> QED
  BY <1>3, PipelineInvariant, PTL DEF PipelineSpec, DrainedInOrder

=============================================================================
