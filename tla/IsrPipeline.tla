---------------------------- MODULE IsrPipeline -----------------------------
(***************************************************************************)
(* Logging from interrupt handlers on ESP-IDF, composed with the emission  *)
(* path.  A handler serialises its packet and puts it into a FreeRTOS ring *)
(* buffer; a drain task takes packets out and sends each through           *)
(* on9log_dispatch_packet, which is the "dispatch" call of On9logCore.     *)
(* on9log_esp_isr_init creates the ring and its drain task while handlers  *)
(* already run.                                                            *)
(*                                                                         *)
(* Every call of on9log_esp_isr_init that gets that far creates a ring and *)
(* a task of its own, so a ring is named by the task that drains it.  A    *)
(* packet is named by its place in the order in which its ring took it.    *)
(***************************************************************************)
EXTENDS On9logCore, Sequences

CONSTANTS
    Isr,       \* interrupt contexts (one per core and nesting level)
    Starter,   \* tasks that call on9log_esp_isr_init
    Drain,     \* drain tasks xTaskCreate can start, and the rings they drain
    Capacity,  \* packets a ring has room for
    MaxCalls   \* bound: ISR log calls

ASSUME PipelineAssumption ==
    /\ Drain \subseteq Task
    /\ \A d \in Drain : "dispatch" \in MayCall[d]
    /\ Capacity \in Nat \ {0}
    /\ MaxCalls \in Nat

VARIABLES
    handle,     \* s_on9log_esp_isr.ringbuf: the ring handlers write to, or NoTask
    installed,  \* s_on9log_esp_isr.installed
    created,    \* rings xRingbufferCreate has made and nobody deleted
    running,    \* drain tasks that run
    ring,       \* contents of each ring, the packet being dispatched included
    item,       \* the packet a drain task has received and not returned, or None
    ipc, mine,  \* where each starter is in on9log_esp_isr_init, and its ring
    hpc,        \* where each interrupt handler is in on9log_write_isr
    answer,     \* history: what on9log_write_isr last returned, and whether it queued
    calls,      \* history: ISR log calls so far
    sent,       \* history: packets each ring has taken
    seen        \* history: the last packet of each ring a sink was shown, or None

ringVars == <<created, ring, sent>>
initVars == <<handle, installed, running, ipc, mine>>
isrVars  == <<hpc, answer, calls>>
coreVars == <<globals, locals, history>>
allVars  == <<coreVars, ringVars, initVars, isrVars, item, seen>>

PipelineInit ==
    /\ Init
    /\ handle = NoTask
    /\ installed = FALSE
    /\ created = {}
    /\ running = {}
    /\ ring = [d \in Drain |-> <<>>]
    /\ item = [d \in Drain |-> None]
    /\ ipc = [i \in Starter |-> "idle"]
    /\ mine = [i \in Starter |-> NoTask]
    /\ hpc = [h \in Isr |-> "idle"]
    /\ answer = [h \in Isr |-> [ret |-> FALSE, queued |-> FALSE]]
    /\ calls = 0
    /\ sent = [d \in Drain |-> 0]
    /\ seen = [s \in Sink |-> [d \in Drain |-> None]]

-----------------------------------------------------------------------------
(***************************************************************************)
(* on9log_esp_isr_init.  The installed flag is read and written without a  *)
(* lock.                                                                   *)
(***************************************************************************)
GotoI(i, label) == ipc' = [ipc EXCEPT ![i] = label]

\* Not installed yet, and the configured size is large enough.
InitBegin(i) ==
    /\ ipc[i] = "idle"
    /\ ~installed
    /\ GotoI(i, "create")
    /\ UNCHANGED <<coreVars, ringVars, handle, installed, running, mine, isrVars, item, seen>>

\* Mutant of CreateRing: the ring is published before it has a drain task.
CreateRingPublished(i, d) ==
    /\ ipc[i] = "create"
    /\ d \notin created /\ d \notin running
    /\ created' = created \cup {d}
    /\ mine' = [mine EXCEPT ![i] = d]
    /\ handle' = d
    /\ GotoI(i, "task")
    /\ UNCHANGED <<coreVars, ring, sent, installed, running, isrVars, item, seen>>

CreateRing(i, d) ==
    /\ ipc[i] = "create"
    /\ d \notin created /\ d \notin running
    /\ created' = created \cup {d}
    /\ mine' = [mine EXCEPT ![i] = d]
    /\ GotoI(i, "task")
    /\ UNCHANGED <<coreVars, ring, sent, handle, installed, running, isrVars, item, seen>>

\* xRingbufferCreate returned NULL.
CreateFails(i) ==
    /\ ipc[i] = "create"
    /\ GotoI(i, "idle")
    /\ UNCHANGED <<coreVars, ringVars, handle, installed, running, mine, isrVars, item, seen>>

CreateTask(i) ==
    /\ ipc[i] = "task"
    /\ running' = running \cup {mine[i]}
    /\ GotoI(i, "publish")
    /\ UNCHANGED <<coreVars, ringVars, handle, installed, mine, isrVars, item, seen>>

\* xTaskCreate failed: vRingbufferDelete.
TaskFails(i) ==
    /\ ipc[i] = "task"
    /\ created' = created \ {mine[i]}
    /\ mine' = [mine EXCEPT ![i] = NoTask]
    /\ GotoI(i, "idle")
    /\ UNCHANGED <<coreVars, ring, sent, handle, installed, running, isrVars, item, seen>>

Publish(i) ==
    /\ ipc[i] = "publish"
    /\ handle' = mine[i]
    /\ GotoI(i, "flag")
    /\ UNCHANGED <<coreVars, ringVars, installed, running, mine, isrVars, item, seen>>

SetInstalled(i) ==
    /\ ipc[i] = "flag"
    /\ installed' = TRUE
    /\ mine' = [mine EXCEPT ![i] = NoTask]
    /\ GotoI(i, "idle")
    /\ UNCHANGED <<coreVars, ringVars, handle, running, isrVars, item, seen>>

-----------------------------------------------------------------------------
(***************************************************************************)
(* on9log_write_isr and on9log_port_isr_enqueue_packet.  A call that the   *)
(* level filter suppresses changes nothing.                                *)
(***************************************************************************)
GotoH(h, label) == hpc' = [hpc EXCEPT ![h] = label]

ReturnH(h, ret, queued) ==
    /\ GotoH(h, "idle")
    /\ answer' = [answer EXCEPT ![h] = [ret |-> ret, queued |-> queued]]

IsrReady == handle # NoTask

IsrBegin(h) ==
    /\ hpc[h] = "idle"
    /\ calls < MaxCalls
    /\ calls' = calls + 1
    /\ GotoH(h, "ready")
    /\ UNCHANGED <<coreVars, ringVars, initVars, answer, item, seen>>

\* on9log_esp_isr_init has not been called: nothing to do, and nothing counted.
IsrNotReady(h) ==
    /\ hpc[h] = "ready"
    /\ ~IsrReady
    /\ ReturnH(h, TRUE, FALSE)
    /\ UNCHANGED <<coreVars, ringVars, initVars, calls, item, seen>>

\* The packet is serialised with the time of the event and without a number.
IsrEncode(h) ==
    /\ hpc[h] = "ready"
    /\ IsrReady
    /\ GotoH(h, "send")
    /\ UNCHANGED <<coreVars, ringVars, initVars, answer, calls, item, seen>>

\* An argument is not ISR safe, or the packet is longer than ON9LOG_ISR_PACKET_MAX.
IsrEncodeFails(h) ==
    /\ hpc[h] = "ready"
    /\ IsrReady
    /\ GotoH(h, "count")
    /\ UNCHANGED <<coreVars, ringVars, initVars, answer, calls, item, seen>>

HasRoom(d) == Len(ring[d]) < Capacity

\* Mutant of IsrSend: the task-context call follows the one from the handler.
IsrSendTwice(h) ==
    /\ hpc[h] = "send"
    /\ HasRoom(handle)
    /\ ring' = [ring EXCEPT ![handle] = IF Len(@) + 1 < Capacity
                                        THEN @ \o <<sent[handle] + 1, sent[handle] + 1>>
                                        ELSE Append(@, sent[handle] + 1)]
    /\ sent' = [sent EXCEPT ![handle] = @ + 1]
    /\ ReturnH(h, TRUE, TRUE)
    /\ UNCHANGED <<coreVars, created, initVars, calls, item, seen>>

\* The handle is loaded again; a NOSPLIT ring takes the packet whole or not at all.
IsrSend(h) ==
    /\ hpc[h] = "send"
    /\ HasRoom(handle)
    /\ ring' = [ring EXCEPT ![handle] = Append(@, sent[handle] + 1)]
    /\ sent' = [sent EXCEPT ![handle] = @ + 1]
    /\ ReturnH(h, TRUE, TRUE)
    /\ UNCHANGED <<coreVars, created, initVars, calls, item, seen>>

IsrFull(h) ==
    /\ hpc[h] = "send"
    /\ ~HasRoom(handle)
    /\ GotoH(h, "count")
    /\ UNCHANGED <<coreVars, ringVars, initVars, answer, calls, item, seen>>

IsrCount(h) ==
    /\ hpc[h] = "count"
    /\ IsrDrop
    /\ ReturnH(h, FALSE, FALSE)
    /\ UNCHANGED <<ringVars, initVars, calls, item, seen>>

-----------------------------------------------------------------------------
(***************************************************************************)
(* on9log_esp_isr_drain_task.                                              *)
(***************************************************************************)
\* Mutant of Receive: the task leaves its loop after one packet.
ReceiveFirst(d) ==
    /\ d \in running
    /\ item[d] = None
    /\ sent[d] = Len(ring[d])
    /\ ring[d] # <<>>
    /\ item' = [item EXCEPT ![d] = Head(ring[d])]
    /\ BeginDispatch(d, "LOG")
    /\ UNCHANGED <<ringVars, initVars, isrVars, seen>>

\* xRingbufferReceive returns the oldest packet, which stays in the ring's memory.
Receive(d) ==
    /\ d \in running
    /\ item[d] = None
    /\ ring[d] # <<>>
    /\ item' = [item EXCEPT ![d] = Head(ring[d])]
    /\ BeginDispatch(d, "LOG")
    /\ UNCHANGED <<ringVars, initVars, isrVars, seen>>

\* on9log_dispatch_packet has returned: vRingbufferReturnItem frees the space.
ReturnItem(d) ==
    /\ item[d] # None
    /\ pc[d] = "idle"
    /\ ring' = [ring EXCEPT ![d] = Tail(@)]
    /\ item' = [item EXCEPT ![d] = None]
    /\ UNCHANGED <<coreVars, created, sent, initVars, isrVars, seen>>

\* In this step task t shows sink s the start of the packet it drained.
Shows(t, s) == t \in Drain /\ Starts(s, {"LOG"}) /\ view'[s].by = t

\* A step of a task inside the emission path.
EmissionStep(t) ==
    /\ InCall(t)
    /\ seen' = [s \in Sink |->
                  IF Shows(t, s) THEN [seen[s] EXCEPT ![t] = item[t]]
                  ELSE IF view'[s].cb = "removed" THEN [d \in Drain |-> None]
                  ELSE seen[s]]
    /\ UNCHANGED <<ringVars, initVars, isrVars, item>>

\* The application's own calls.
AppBegin(t) ==
    /\ t \notin Drain
    /\ Begin(t)
    /\ UNCHANGED <<ringVars, initVars, isrVars, item, seen>>

StarterStep(i) ==
    \/ InitBegin(i) \/ CreateFails(i) \/ CreateTask(i) \/ TaskFails(i)
    \/ Publish(i) \/ SetInstalled(i)
    \/ \E d \in Drain : CreateRing(i, d)

HandlerStep(h) ==
    \/ IsrBegin(h) \/ IsrNotReady(h) \/ IsrEncode(h) \/ IsrEncodeFails(h)
    \/ IsrSend(h) \/ IsrFull(h) \/ IsrCount(h)

\* The clock stands still: a packet from a ring carries the time its handler
\* read, and no step of the pipeline depends on the time.
PipelineNext ==
    \/ \E t \in Task : AppBegin(t) \/ EmissionStep(t)
    \/ \E i \in Starter : StarterStep(i)
    \/ \E h \in Isr : HandlerStep(h)
    \/ \E d \in Drain : Receive(d) \/ ReturnItem(d)

PipelineSpec == PipelineInit /\ [][PipelineNext]_allVars

(***************************************************************************)
(* Fairness: the drain task and the tasks inside a log call are run.       *)
(* Handlers and starters owe nothing.                                      *)
(***************************************************************************)
PipelineLiveSpec ==
    /\ PipelineSpec
    /\ \A t \in Task : WF_allVars(EmissionStep(t))
    /\ \A d \in Drain : WF_allVars(Receive(d) \/ ReturnItem(d))

-----------------------------------------------------------------------------
(***************************************************************************)
(* Whatever a handler can put a packet into is drained: the ring it finds  *)
(* published exists and has a running drain task, however the calls of     *)
(* on9log_esp_isr_init overlapped and whichever of their steps failed.     *)
(***************************************************************************)
RingsAreDrained ==
    /\ handle # NoTask => handle \in created \cap running
    /\ installed => handle # NoTask
    /\ \A d \in Drain : ring[d] # <<>> => d \in created \cap running

(***************************************************************************)
(* A registered sink is shown every packet of a ring exactly once, in the  *)
(* order in which the ring took them, although other tasks' packets and    *)
(* DROPPED notices come in between, and before the packet's memory goes    *)
(* back to the ring.                                                       *)
(***************************************************************************)
DrainedInOrder ==
    [][\A d \in Drain, s \in Sink :
          /\ Shows(d, s) => seen[s][d] = None \/ item[d] = seen[s][d] + 1
          /\ item[d] # None /\ item'[d] = None /\ Registered(s) =>
                seen[s][d] \in {item[d], None}]_<<view, item>>

(***************************************************************************)
(* Every queued packet is eventually dispatched and its space freed,       *)
(* provided the application's tasks pause: nothing else keeps the drain    *)
(* task from the emit lock.  Handlers stop after MaxCalls calls, so the    *)
(* rings run empty.                                                        *)
(***************************************************************************)
AppPauses == <>[](\A t \in Task \ Drain : pc[t] = "idle")

QueuedIsDispatched ==
    AppPauses => ((\E d \in Drain : ring[d] # <<>>) ~> (\A d \in Drain : ring[d] = <<>>))

(***************************************************************************)
(* What the interface promises and the code does not do.                   *)
(***************************************************************************)
\* on9log_write_isr: true if the packet was successfully enqueued.
TrueMeansQueued == \A h \in Isr : answer[h].ret => answer[h].queued

=============================================================================
