-------------------------- MODULE TransportProofs ---------------------------
(***************************************************************************)
(* The ESP-IDF transport, for any number of tasks, outputs and batches:    *)
(* the accumulation buffer belongs to one packet, no task waits for the    *)
(* mutex it holds, and frames are whole on every output.                   *)
(***************************************************************************)
EXTENDS Transport, TLAPS

\* The places where a task holds the transport mutex.
InMutex == {"own", "flush", "unlock", "open", "sync"}

(***************************************************************************)
(* Who holds what.  A task whose console driver prints is on its way       *)
(* through stdio a second time, with the mutex and as the owner.           *)
(***************************************************************************)
Holds(t) ==
    /\ mutex = t <=> pc[t] \in InMutex \/ nested[t]
    /\ owner = t <=> pc[t] = "flush" \/ nested[t]
    /\ emitLock = t <=> op[t] = "packet" /\ pc[t] \notin {"idle", "emit"}
    /\ nested[t] => pc[t] \in {"stdio", "check"}

\* Which call a task is in, by the place it is at.
InCall(t) ==
    /\ pc[t] \in {"stdio", "check", "own", "flush"} => op[t] \in {"print", "packet"}
    /\ pc[t] = "stdio" /\ ~nested[t] => op[t] = "print"
    /\ pc[t] \in {"emit", "payload"} => op[t] = "packet"
    /\ pc[t] = "open" => op[t] \in {"add", "init"}
    /\ pc[t] = "sync" => op[t] = "sync"
    /\ pc[t] \in {"register", "reopen", "stderr", "attach"} => op[t] = "init"
    /\ pc[t] \in {"lock", "unlock"} => op[t] # "none"
    /\ pc[t] \in {"lock", "open", "unlock"} /\ op[t] = "init" => left[t] \in 1 .. Len(Consoles)

Control == \A t \in Task : Holds(t) /\ InCall(t)

\* The accumulation buffer is of the packet that has the emit lock.
Accumulates == ~plain => \A t \in Task : emitLock = t => acc.by = t

\* The batch number n of the frame t is writing.
Batch(t, n) == [by |-> t, op |-> op[t], at |-> n, size |-> size[t]]

\* The last frame on output i has its last batch.
Complete(i) == wire[i].at = wire[i].size

(***************************************************************************)
(* How far the owner has come: an output it has served shows this batch,   *)
(* one it has still to serve the batch before, or no open frame at all if  *)
(* this is the first.  Nobody else leaves an open frame.                   *)
(***************************************************************************)
Progressing(t) ==
    /\ batch[t] \in 1 .. size[t]
    /\ out[t] \subseteq Present
    /\ \A i \in Present \ out[t] : wire[i] = Batch(t, batch[t])
    /\ \A i \in out[t] : IF batch[t] = 1 THEN Complete(i) ELSE wire[i] = Batch(t, batch[t] - 1)
    /\ \A i \in Slot \ Present : Complete(i)

FrameInv ==
    /\ owner = NoTask => \A i \in Slot : Complete(i)
    /\ \A t \in Task : owner = t => Progressing(t)

TransportInv == TypeOK /\ Control /\ Accumulates /\ FrameInv

(***************************************************************************)
(* What a step of task t leaves alone: the locals of the others, and locks *)
(* that are neither free nor its own.                                      *)
(***************************************************************************)
Moved(t) ==
    /\ \A u \in Task \ {t} :
          /\ pc'[u] = pc[u] /\ op'[u] = op[u] /\ left'[u] = left[u] /\ nested'[u] = nested[u]
          /\ size'[u] = size[u] /\ batch'[u] = batch[u] /\ out'[u] = out[u]
    /\ mutex' # mutex => {mutex, mutex'} \subseteq {t, NoTask}
    /\ owner' # owner => {owner, owner'} \subseteq {t, NoTask}
    /\ emitLock' # emitLock => {emitLock, emitLock'} \subseteq {t, NoTask}

\* Few steps change the buffer, the outputs and what is on the wire.
Changed(t) ==
    /\ wire' = wire \/ \E i \in Slot : WriteBatch(t, i)
    /\ acc' = acc \/ EmitLock(t) \/ PayloadCb(t)
    /\ outputs' = outputs \/ OpenOutput(t)
    /\ adds' = adds \/ BeginAdd(t)
    /\ stdio' \in {stdio, t, NoTask}
    /\ plain' = plain
    /\ emitLock' \in {emitLock, NoTask} \/ EmitLock(t) \/ EmitLockPlain(t)
    /\ owner' = owner \/ SetOwner(t) \/ ClearOwner(t)
    /\ UNCHANGED <<size, batch>> \/ SetOwner(t) \/ NextBatch(t) \/ ClearOwner(t)
    /\ out' = out \/ SetOwner(t) \/ NextBatch(t) \/ \E i \in Slot : WriteBatch(t, i)
    /\ owner = t => op'[t] = op[t]

\* What a task may do next.
Step(t) == Call(t) \/ Progress(t) \/ DriverPrints(t)

\* The variables that say where the tasks are.
Places ==
    /\ mutex \in Task \cup {NoTask} /\ owner \in Task \cup {NoTask}
    /\ emitLock \in Task \cup {NoTask}
    /\ pc \in [Task -> PC] /\ left \in [Task -> Nat] /\ nested \in [Task -> BOOLEAN]
    /\ op \in [Task -> {"none", "print", "packet", "add", "sync", "init"}]
    /\ size \in [Task -> 0 .. MaxBatches] /\ batch \in [Task -> 0 .. MaxBatches]
    /\ out \in [Task -> SUBSET Slot]

\* The Boolean ones apart.
Flags ==
    /\ ok \in [Task -> BOOLEAN]
    /\ {plain, installed, redirected, attached} \subseteq BOOLEAN

\* Both are parts of TypeOK.
LEMMA PlacesTyped == ASSUME TypeOK PROVE Places
  BY DEF TypeOK, Places

\* The bounds are numbers.
LEMMA Bounds ==
    /\ MaxOutputs \in Nat /\ MaxPayload \in Nat /\ MaxPayload > 0
    /\ MaxBatches \in Nat /\ MaxBatches > 0 /\ MaxAdds \in Nat
  BY TransportAssumption

\* NoTask is no task.
LEMMA NoTaskIsNone == NoTask \notin Task
  BY TransportAssumption

USE NoTaskIsNone DEF locks, setup, locals, history, Goto, Return, Begin

-----------------------------------------------------------------------------
\* A step moves its own task only, and takes or gives back locks for it alone.
LEMMA Moves ==
    ASSUME NEW t \in Task, Places, Control, Step(t) PROVE Moved(t)
<1>1. CASE \E i \in Slot : WriteBatch(t, i)
  BY <1>1 DEF WriteBatch, Places, Control, Moved, Holds, InCall, InMutex, FrameDone
<1>2. CASE BeginPrint(t) \/ BeginPacket(t) \/ BeginAdd(t)
  BY <1>2 DEF BeginPrint, BeginPacket, BeginAdd, Places, Control, Moved, Holds, InCall, InMutex,
     FrameDone
<1>3. CASE BeginSync(t) \/ BeginInit(t) \/ BeginAttach(t)
  BY <1>3 DEF BeginSync, BeginInit, BeginAttach, Places, Control, Moved, Holds, InCall, InMutex,
     FrameDone
<1>4. CASE StdioLock(t)
  BY <1>4 DEF StdioLock, Places, Control, Moved, Holds, InCall, InMutex, FrameDone
<1>5. CASE EmitLock(t)
  BY <1>5 DEF EmitLock, Places, Control, Moved, Holds, InCall, InMutex, FrameDone
<1>6. CASE EmitLockPlain(t)
  BY <1>6 DEF EmitLockPlain, Places, Control, Moved, Holds, InCall, InMutex, FrameDone
<1>7. CASE PayloadCb(t)
  BY <1>7 DEF PayloadCb, Places, Control, Moved, Holds, InCall, InMutex, FrameDone
<1>8. CASE EndCb(t) \/ EndCbOverflow(t)
  BY <1>8, ZenonT(40)
     DEF EndCb, EndCbOverflow, Places, Control, Moved, Holds, InCall, InMutex, FrameDone
<1>9. CASE Reentrant(t) \/ NotOwner(t)
  BY <1>9 DEF Reentrant, NotOwner, Places, Control, Moved, Holds, InCall, InMutex, FrameDone
<1>10. CASE TransportLock(t)
  BY <1>10 DEF TransportLock, Places, Control, Moved, Holds, InCall, InMutex, FrameDone
<1>11. CASE SetOwner(t)
  BY <1>11 DEF SetOwner, Places, Control, Moved, Holds, InCall, InMutex, FrameDone
<1>12. CASE NextBatch(t)
  BY <1>12 DEF NextBatch, Places, Control, Moved, Holds, InCall, InMutex, FrameDone
<1>13. CASE ClearOwner(t)
  BY <1>13 DEF ClearOwner, Places, Control, Moved, Holds, InCall, InMutex, FrameDone
<1>14. CASE FrameUnlock(t)
  BY <1>14, ZenonT(40)
     DEF FrameUnlock, Places, Control, Moved, Holds, InCall, InMutex, FrameDone
<1>15. CASE OpenOutput(t)
  BY <1>15 DEF OpenOutput, Places, Control, Moved, Holds, InCall, InMutex, FrameDone
<1>16. CASE OpenFails(t) \/ OutputsFull(t) \/ Fsync(t)
  BY <1>16 DEF OpenFails, OutputsFull, Fsync, Places, Control, Moved, Holds, InCall, InMutex,
     FrameDone
<1>17. CASE SetupUnlock(t)
  BY <1>17 DEF SetupUnlock, Places, Control, Moved, Holds, InCall, InMutex, FrameDone
<1>18. CASE Register(t) \/ RegisterFails(t) \/ ReopenStdout(t)
  BY <1>18 DEF Register, RegisterFails, ReopenStdout, Places, Control, Moved, Holds, InCall,
     InMutex, FrameDone
<1>19. CASE ReopenStderr(t) \/ ReopenStderrFails(t)
  BY <1>19 DEF ReopenStderr, ReopenStderrFails, Places, Control, Moved, Holds, InCall, InMutex,
     FrameDone
<1>20. CASE AttachSink(t) \/ AttachFails(t)
  BY <1>20 DEF AttachSink, AttachFails, Places, Control, Moved, Holds, InCall, InMutex, FrameDone
<1>21. CASE DriverPrints(t)
  BY <1>21 DEF DriverPrints, Places, Control, Moved, Holds, InCall, InMutex, FrameDone
<1> QED
  BY <1>1, <1>2, <1>3, <1>4, <1>5, <1>6, <1>7, <1>8, <1>9, <1>10, <1>11, <1>12, <1>13, <1>14,
     <1>15, <1>16, <1>17, <1>18, <1>19, <1>20, <1>21 DEF Step, Call, Progress

\* The place a step leads to has the locks it needs.
LEMMA HoldsStep ==
    ASSUME NEW t \in Task, Places, Control, Step(t) PROVE Holds(t)'
<1>1. CASE \E i \in Slot : WriteBatch(t, i)
  BY <1>1 DEF WriteBatch, Places, Control, PC, Holds, InCall, InMutex, Inside, FrameDone
<1>2. CASE BeginPrint(t)
  <2>1. op'[t] = "print" /\ pc'[t] = "stdio" /\ pc[t] = "idle"
    BY <1>2 DEF BeginPrint, Places
  <2>2. UNCHANGED <<mutex, owner, emitLock, nested>>
    BY <1>2 DEF BeginPrint
  <2> QED
    BY <2>1, <2>2 DEF Control, Holds, InCall, InMutex
<1>3. CASE BeginPacket(t) \/ BeginAdd(t)
  BY <1>3 DEF BeginPacket, BeginAdd, Places, Control, PC, Holds, InCall, InMutex, Inside,
     FrameDone
<1>4. CASE BeginSync(t) \/ BeginInit(t) \/ BeginAttach(t)
  BY <1>4 DEF BeginSync, BeginInit, BeginAttach, Places, Control, PC, Holds, InCall, InMutex,
     Inside, FrameDone
<1>5. CASE StdioLock(t)
  BY <1>5 DEF StdioLock, Places, Control, PC, Holds, InCall, InMutex, Inside, FrameDone
<1>6. CASE EmitLock(t)
  BY <1>6 DEF EmitLock, Places, Control, PC, Holds, InCall, InMutex, Inside, FrameDone
<1>7. CASE EmitLockPlain(t)
  BY <1>7 DEF EmitLockPlain, Places, Control, PC, Holds, InCall, InMutex, Inside, FrameDone
<1>8. CASE PayloadCb(t)
  BY <1>8 DEF PayloadCb, Places, Control, PC, Holds, InCall, InMutex, Inside, FrameDone
<1>9. CASE Reentrant(t) \/ NotOwner(t)
  BY <1>9, ZenonT(40)
     DEF Reentrant, NotOwner, Places, Control, PC, Holds, InCall, InMutex, Inside, FrameDone
<1>10. CASE TransportLock(t)
  BY <1>10 DEF TransportLock, Places, Control, PC, Holds, InCall, InMutex, Inside, FrameDone
<1>11. CASE SetOwner(t)
  BY <1>11 DEF SetOwner, Places, Control, PC, Holds, InCall, InMutex, Inside, FrameDone
<1>12. CASE NextBatch(t)
  BY <1>12 DEF NextBatch, Places, Control, PC, Holds, InCall, InMutex, Inside, FrameDone
<1>13. CASE ClearOwner(t)
  BY <1>13 DEF ClearOwner, Places, Control, PC, Holds, InCall, InMutex, Inside, FrameDone
<1>14. CASE FrameUnlock(t)
  BY <1>14 DEF FrameUnlock, Places, Control, PC, Holds, InCall, InMutex, Inside, FrameDone
<1>15. CASE OpenOutput(t)
  BY <1>15 DEF OpenOutput, Places, Control, PC, Holds, InCall, InMutex, Inside, FrameDone
<1>16. CASE OpenFails(t) \/ OutputsFull(t) \/ Fsync(t)
  BY <1>16 DEF OpenFails, OutputsFull, Fsync, Places, Control, PC, Holds, InCall, InMutex,
     Inside, FrameDone
<1>17. CASE SetupUnlock(t)
  BY <1>17 DEF SetupUnlock, Places, Control, PC, Holds, InCall, InMutex, Inside, FrameDone
<1>18. CASE Register(t) \/ RegisterFails(t) \/ ReopenStdout(t)
  BY <1>18 DEF Register, RegisterFails, ReopenStdout, Places, Control, PC, Holds, InCall,
     InMutex, Inside, FrameDone
<1>19. CASE ReopenStderr(t) \/ ReopenStderrFails(t)
  BY <1>19 DEF ReopenStderr, ReopenStderrFails, Places, Control, PC, Holds, InCall, InMutex,
     Inside, FrameDone
<1>20. CASE AttachSink(t) \/ AttachFails(t)
  BY <1>20 DEF AttachSink, AttachFails, Places, Control, PC, Holds, InCall, InMutex, Inside,
     FrameDone
<1>21. CASE DriverPrints(t)
  BY <1>21 DEF DriverPrints, Places, Control, PC, Holds, InCall, InMutex, Inside, FrameDone
<1>22. CASE EndCb(t)
  BY <1>22 DEF EndCb, Places, Control, PC, Holds, InCall, InMutex, Inside, FrameDone
<1>23. CASE EndCbOverflow(t)
  BY <1>23 DEF EndCbOverflow, Places, Control, PC, Holds, InCall, InMutex, Inside, FrameDone
<1> QED
  BY <1>1, <1>2, <1>3, <1>4, <1>5, <1>6, <1>7, <1>8, <1>9, <1>10, <1>11, <1>12, <1>13, <1>14,
     <1>15, <1>16, <1>17, <1>18, <1>19, <1>20, <1>21, <1>22, <1>23 DEF Step, Call, Progress

\* ... and is a place of the call that is under way.
LEMMA CallStep ==
    ASSUME NEW t \in Task, Places, Control, Step(t) PROVE InCall(t)'
<1>1. CASE \E i \in Slot : WriteBatch(t, i)
  BY <1>1 DEF WriteBatch, Places, Control, PC, Holds, InCall, InMutex, Inside, FrameDone
<1>2. CASE BeginPrint(t) \/ BeginPacket(t) \/ BeginAdd(t)
  BY <1>2, SMTT(40)
     DEF BeginPrint, BeginPacket, BeginAdd, Places, Control, PC, Holds, InCall, InMutex,
     Inside, FrameDone
<1>3. CASE BeginSync(t) \/ BeginInit(t) \/ BeginAttach(t)
  BY <1>3, SMTT(40)
     DEF BeginSync, BeginInit, BeginAttach, Places, Control, PC, Holds, InCall, InMutex,
     Inside, FrameDone
<1>4. CASE StdioLock(t)
  BY <1>4 DEF StdioLock, Places, Control, PC, Holds, InCall, InMutex, Inside, FrameDone
<1>5. CASE EmitLock(t)
  BY <1>5 DEF EmitLock, Places, Control, PC, Holds, InCall, InMutex, Inside, FrameDone
<1>6. CASE EmitLockPlain(t)
  BY <1>6 DEF EmitLockPlain, Places, Control, PC, Holds, InCall, InMutex, Inside, FrameDone
<1>7. CASE PayloadCb(t)
  BY <1>7 DEF PayloadCb, Places, Control, PC, Holds, InCall, InMutex, Inside, FrameDone
<1>8. CASE EndCb(t) \/ EndCbOverflow(t)
  BY <1>8, SMTT(40)
     DEF EndCb, EndCbOverflow, Places, Control, PC, Holds, InCall, InMutex, Inside,
     FrameDone
<1>9. CASE Reentrant(t) \/ NotOwner(t)
  BY <1>9, SMTT(40)
     DEF Reentrant, NotOwner, Places, Control, PC, Holds, InCall, InMutex, Inside, FrameDone
<1>10. CASE TransportLock(t)
  BY <1>10 DEF TransportLock, Places, Control, PC, Holds, InCall, InMutex, Inside, FrameDone
<1>11. CASE SetOwner(t)
  BY <1>11 DEF SetOwner, Places, Control, PC, Holds, InCall, InMutex, Inside, FrameDone
<1>12. CASE NextBatch(t)
  BY <1>12 DEF NextBatch, Places, Control, PC, Holds, InCall, InMutex, Inside, FrameDone
<1>13. CASE ClearOwner(t)
  BY <1>13 DEF ClearOwner, Places, Control, PC, Holds, InCall, InMutex, Inside, FrameDone
<1>14. CASE FrameUnlock(t)
  BY <1>14 DEF FrameUnlock, Places, Control, PC, Holds, InCall, InMutex, Inside, FrameDone
<1>15. CASE OpenOutput(t)
  BY <1>15 DEF OpenOutput, Places, Control, PC, Holds, InCall, InMutex, Inside, FrameDone
<1>16. CASE OpenFails(t) \/ OutputsFull(t) \/ Fsync(t)
  BY <1>16 DEF OpenFails, OutputsFull, Fsync, Places, Control, PC, Holds, InCall, InMutex,
     Inside, FrameDone
<1>17. CASE SetupUnlock(t)
  BY <1>17, SMTT(40) DEF SetupUnlock, Places, Control, PC, Holds, InCall, InMutex, Inside, FrameDone
<1>18. CASE Register(t) \/ RegisterFails(t) \/ ReopenStdout(t)
  BY <1>18, SMTT(40)
     DEF Register, RegisterFails, ReopenStdout, Places, Control, PC, Holds, InCall,
     InMutex, Inside, FrameDone
<1>19. CASE ReopenStderr(t) \/ ReopenStderrFails(t)
  BY <1>19, SMTT(40)
     DEF ReopenStderr, ReopenStderrFails, Places, Control, PC, Holds, InCall, InMutex,
     Inside, FrameDone
<1>20. CASE AttachSink(t) \/ AttachFails(t)
  BY <1>20 DEF AttachSink, AttachFails, Places, Control, PC, Holds, InCall, InMutex, Inside,
     FrameDone
<1>21. CASE DriverPrints(t)
  BY <1>21 DEF DriverPrints, Places, Control, PC, Holds, InCall, InMutex, Inside, FrameDone
<1> QED
  BY <1>1, <1>2, <1>3, <1>4, <1>5, <1>6, <1>7, <1>8, <1>9, <1>10, <1>11, <1>12, <1>13, <1>14,
     <1>15, <1>16, <1>17, <1>18, <1>19, <1>20, <1>21 DEF Step, Call, Progress

\* So every task is where its locks and its call say.
LEMMA ControlStep ==
    ASSUME NEW t \in Task, Places, Control, Step(t) PROVE Control'
<1>1. Moved(t) /\ Holds(t)' /\ InCall(t)'
  BY Moves, HoldsStep, CallStep
<1>2. ASSUME NEW u \in Task \ {t} PROVE Holds(u)' /\ InCall(u)'
  <2>1. Holds(u) /\ InCall(u)
    BY DEF Control
  <2>2. Holds(u)'
    BY <1>1, <2>1 DEF Moved, Holds
  <2>3. InCall(u)'
    BY <1>1, <2>1 DEF Moved, InCall
  <2> QED
    BY <2>2, <2>3
<1> QED
  BY <1>1, <1>2 DEF Control

\* A look at every step shows it.
LEMMA Changes ==
    ASSUME NEW t \in Task, Places, Control, Step(t) PROVE Changed(t)
<1>1. CASE \E i \in Slot : WriteBatch(t, i)
  BY <1>1 DEF WriteBatch, Places, Control, Holds, InCall, Changed, FrameDone
<1>2. CASE BeginPrint(t) \/ BeginPacket(t) \/ BeginAdd(t) \/ BeginSync(t) \/ BeginInit(t) \/
     BeginAttach(t)
  BY <1>2 DEF BeginPrint, BeginPacket, BeginAdd, BeginSync, BeginInit, BeginAttach, Places,
     Control, Holds, InCall, Changed, FrameDone
<1>3. CASE StdioLock(t) \/ EmitLock(t) \/ EmitLockPlain(t) \/ PayloadCb(t) \/ EndCb(t) \/
     EndCbOverflow(t)
  BY <1>3 DEF StdioLock, EmitLock, EmitLockPlain, PayloadCb, EndCb, EndCbOverflow, Places,
     Control, Holds, InCall, Changed, FrameDone
<1>4. CASE Reentrant(t) \/ NotOwner(t) \/ TransportLock(t) \/ SetOwner(t) \/ NextBatch(t) \/
     ClearOwner(t)
  BY <1>4 DEF Reentrant, NotOwner, TransportLock, SetOwner, NextBatch, ClearOwner, Places,
     Control, Holds, InCall, Changed, FrameDone
<1>5. CASE FrameUnlock(t) \/ OpenOutput(t) \/ OpenFails(t) \/ OutputsFull(t) \/ Fsync(t) \/
     SetupUnlock(t)
  BY <1>5 DEF FrameUnlock, OpenOutput, OpenFails, OutputsFull, Fsync, SetupUnlock, Places,
     Control, Holds, InCall, Changed, FrameDone
<1>6. CASE Register(t) \/ RegisterFails(t) \/ ReopenStdout(t) \/ ReopenStderr(t) \/
     ReopenStderrFails(t)
  BY <1>6 DEF Register, RegisterFails, ReopenStdout, ReopenStderr, ReopenStderrFails, Places,
     Control, Holds, InCall, Changed, FrameDone
<1>7. CASE AttachSink(t) \/ AttachFails(t) \/ DriverPrints(t)
  BY <1>7 DEF AttachSink, AttachFails, DriverPrints, Places, Control, Holds, InCall, Changed,
     FrameDone
<1> QED
  BY <1>1, <1>2, <1>3, <1>4, <1>5, <1>6, <1>7 DEF Step, Call, Progress

\* Each step leaves the variables of the tasks in their sets ...
LEMMA PlacesStep ==
    ASSUME NEW t \in Task, Places, Control, Present \subseteq Slot, Step(t) PROVE Places'
<1>1. CASE \E i \in Slot : WriteBatch(t, i)
  BY <1>1, SMTT(40) DEF WriteBatch, Places, Control, InCall, PC, Inside, FrameDone
<1>2. CASE BeginPrint(t)
  BY <1>2, SMTT(40) DEF BeginPrint, Places, Control, InCall, PC, Inside, FrameDone
<1>3. CASE BeginPacket(t)
  BY <1>3 DEF BeginPacket, Places, Control, InCall, PC, Inside, FrameDone
<1>4. CASE BeginAdd(t)
  BY <1>4 DEF BeginAdd, Places, Control, InCall, PC, Inside, FrameDone
<1>5. CASE BeginSync(t)
  BY <1>5 DEF BeginSync, Places, Control, InCall, PC, Inside, FrameDone
<1>6. CASE BeginInit(t)
  BY <1>6 DEF BeginInit, Places, Control, InCall, PC, Inside, FrameDone
<1>7. CASE BeginAttach(t)
  BY <1>7 DEF BeginAttach, Places, Control, InCall, PC, Inside, FrameDone
<1>8. CASE StdioLock(t)
  BY <1>8 DEF StdioLock, Places, Control, InCall, PC, Inside, FrameDone
<1>9. CASE EmitLock(t)
  BY <1>9 DEF EmitLock, Places, Control, InCall, PC, Inside, FrameDone
<1>10. CASE EmitLockPlain(t)
  BY <1>10 DEF EmitLockPlain, Places, Control, InCall, PC, Inside, FrameDone
<1>11. CASE PayloadCb(t)
  BY <1>11, SMTT(40) DEF PayloadCb, Places, Control, InCall, PC, Inside, FrameDone
<1>12. CASE EndCb(t)
  BY <1>12 DEF EndCb, Places, Control, InCall, PC, Inside, FrameDone
<1>13. CASE EndCbOverflow(t)
  BY <1>13 DEF EndCbOverflow, Places, Control, InCall, PC, Inside, FrameDone
<1>14. CASE Reentrant(t)
  BY <1>14 DEF Reentrant, Places, Control, InCall, PC, Inside, FrameDone
<1>15. CASE NotOwner(t)
  BY <1>15 DEF NotOwner, Places, Control, InCall, PC, Inside, FrameDone
<1>16. CASE TransportLock(t)
  BY <1>16 DEF TransportLock, Places, Control, InCall, PC, Inside, FrameDone
<1>17. CASE SetOwner(t)
  <2>1. \A n \in 1 .. MaxBatches : n \in 0 .. MaxBatches
    BY Bounds
  <2>2. 1 \in 0 .. MaxBatches
    BY Bounds
  <2>3. size' \in [Task -> 0 .. MaxBatches] /\ batch' \in [Task -> 0 .. MaxBatches]
    BY <1>17, <2>1, <2>2 DEF SetOwner, Places
  <2>4. out' \in [Task -> SUBSET Slot]
    BY <1>17 DEF SetOwner, Places
  <2> QED
    BY <1>17, <2>3, <2>4 DEF SetOwner, Places, PC
<1>18. CASE NextBatch(t)
  <2>1. batch[t] + 1 \in 0 .. MaxBatches
    BY <1>18, Bounds DEF NextBatch, Places
  <2>2. batch' \in [Task -> 0 .. MaxBatches]
    BY <1>18, <2>1 DEF NextBatch, Places
  <2>3. out' \in [Task -> SUBSET Slot]
    BY <1>18 DEF NextBatch, Places
  <2> QED
    BY <1>18, <2>2, <2>3 DEF NextBatch, Places
<1>19. CASE ClearOwner(t)
  <2>1. 0 \in 0 .. MaxBatches
    BY Bounds
  <2> QED
    BY <1>19, <2>1 DEF ClearOwner, Places, PC
<1>20. CASE FrameUnlock(t)
  <2>1. left' \in [Task -> Nat]
    BY <1>20 DEF FrameUnlock, FrameDone, Places
  <2> QED
    BY <1>20, <2>1 DEF FrameUnlock, FrameDone, Places, PC
<1>21. CASE OpenOutput(t)
  BY <1>21 DEF OpenOutput, Places, Control, InCall, PC, Inside, FrameDone
<1>22. CASE OpenFails(t)
  BY <1>22 DEF OpenFails, Places, Control, InCall, PC, Inside, FrameDone
<1>23. CASE OutputsFull(t)
  BY <1>23 DEF OutputsFull, Places, Control, InCall, PC, Inside, FrameDone
<1>24. CASE Fsync(t)
  BY <1>24 DEF Fsync, Places, Control, InCall, PC, Inside, FrameDone
<1>25. CASE SetupUnlock(t)
  <2>1. op[t] = "init" => left[t] - 1 \in Nat
    BY <1>25 DEF SetupUnlock, Places, Control, InCall
  <2>2. left' \in [Task -> Nat]
    BY <1>25, <2>1 DEF SetupUnlock, Places
  <2> QED
    BY <1>25, <2>2 DEF SetupUnlock, Places, PC
<1>26. CASE Register(t)
  BY <1>26 DEF Register, Places, Control, InCall, PC, Inside, FrameDone
<1>27. CASE RegisterFails(t)
  BY <1>27 DEF RegisterFails, Places, Control, InCall, PC, Inside, FrameDone
<1>28. CASE ReopenStdout(t)
  BY <1>28 DEF ReopenStdout, Places, Control, InCall, PC, Inside, FrameDone
<1>29. CASE ReopenStderr(t)
  BY <1>29 DEF ReopenStderr, Places, Control, InCall, PC, Inside, FrameDone
<1>30. CASE ReopenStderrFails(t)
  BY <1>30 DEF ReopenStderrFails, Places, Control, InCall, PC, Inside, FrameDone
<1>31. CASE AttachSink(t)
  BY <1>31 DEF AttachSink, Places, Control, InCall, PC, Inside, FrameDone
<1>32. CASE AttachFails(t)
  BY <1>32 DEF AttachFails, Places, Control, InCall, PC, Inside, FrameDone
<1>33. CASE DriverPrints(t)
  BY <1>33 DEF DriverPrints, Places, Control, InCall, PC, Inside, FrameDone
<1> QED
  BY <1>1, <1>2, <1>3, <1>4, <1>5, <1>6, <1>7, <1>8, <1>9, <1>10, <1>11, <1>12, <1>13, <1>14,
     <1>15, <1>16, <1>17, <1>18, <1>19, <1>20, <1>21, <1>22, <1>23, <1>24, <1>25, <1>26, <1>27,
     <1>28, <1>29, <1>30, <1>31, <1>32, <1>33 DEF Step, Call, Progress

\* ... and so the flags of the tasks and of the transport.
LEMMA FlagsStep ==
    ASSUME NEW t \in Task, Flags, Step(t) PROVE Flags'
<1>1. CASE \E i \in Slot : WriteBatch(t, i)
  BY <1>1 DEF WriteBatch, Flags, FrameDone
<1>2. CASE BeginPrint(t)
  BY <1>2 DEF BeginPrint, Flags, FrameDone
<1>3. CASE BeginPacket(t)
  BY <1>3 DEF BeginPacket, Flags, FrameDone
<1>4. CASE BeginAdd(t)
  BY <1>4 DEF BeginAdd, Flags, FrameDone
<1>5. CASE BeginSync(t)
  BY <1>5 DEF BeginSync, Flags, FrameDone
<1>6. CASE BeginInit(t)
  BY <1>6 DEF BeginInit, Flags, FrameDone
<1>7. CASE BeginAttach(t)
  BY <1>7 DEF BeginAttach, Flags, FrameDone
<1>8. CASE StdioLock(t)
  BY <1>8 DEF StdioLock, Flags, FrameDone
<1>9. CASE EmitLock(t)
  BY <1>9 DEF EmitLock, Flags, FrameDone
<1>10. CASE EmitLockPlain(t)
  BY <1>10 DEF EmitLockPlain, Flags, FrameDone
<1>11. CASE PayloadCb(t)
  BY <1>11 DEF PayloadCb, Flags, FrameDone
<1>12. CASE EndCb(t)
  BY <1>12 DEF EndCb, Flags, FrameDone
<1>13. CASE EndCbOverflow(t)
  BY <1>13 DEF EndCbOverflow, Flags, FrameDone
<1>14. CASE Reentrant(t)
  BY <1>14 DEF Reentrant, Flags, FrameDone
<1>15. CASE NotOwner(t)
  BY <1>15 DEF NotOwner, Flags, FrameDone
<1>16. CASE TransportLock(t)
  BY <1>16 DEF TransportLock, Flags, FrameDone
<1>17. CASE SetOwner(t)
  BY <1>17 DEF SetOwner, Flags, FrameDone
<1>18. CASE NextBatch(t)
  BY <1>18 DEF NextBatch, Flags, FrameDone
<1>19. CASE ClearOwner(t)
  BY <1>19 DEF ClearOwner, Flags, FrameDone
<1>20. CASE FrameUnlock(t)
  BY <1>20 DEF FrameUnlock, Flags, FrameDone
<1>21. CASE OpenOutput(t)
  BY <1>21 DEF OpenOutput, Flags, FrameDone
<1>22. CASE OpenFails(t)
  BY <1>22 DEF OpenFails, Flags, FrameDone
<1>23. CASE OutputsFull(t)
  BY <1>23 DEF OutputsFull, Flags, FrameDone
<1>24. CASE Fsync(t)
  BY <1>24 DEF Fsync, Flags, FrameDone
<1>25. CASE SetupUnlock(t)
  BY <1>25 DEF SetupUnlock, Flags, FrameDone
<1>26. CASE Register(t)
  BY <1>26 DEF Register, Flags, FrameDone
<1>27. CASE RegisterFails(t)
  BY <1>27 DEF RegisterFails, Flags, FrameDone
<1>28. CASE ReopenStdout(t)
  BY <1>28 DEF ReopenStdout, Flags, FrameDone
<1>29. CASE ReopenStderr(t)
  BY <1>29 DEF ReopenStderr, Flags, FrameDone
<1>30. CASE ReopenStderrFails(t)
  BY <1>30 DEF ReopenStderrFails, Flags, FrameDone
<1>31. CASE AttachSink(t)
  BY <1>31 DEF AttachSink, Flags, FrameDone
<1>32. CASE AttachFails(t)
  BY <1>32 DEF AttachFails, Flags, FrameDone
<1>33. CASE DriverPrints(t)
  BY <1>33 DEF DriverPrints, Flags, FrameDone
<1> QED
  BY <1>1, <1>2, <1>3, <1>4, <1>5, <1>6, <1>7, <1>8, <1>9, <1>10, <1>11, <1>12, <1>13, <1>14,
     <1>15, <1>16, <1>17, <1>18, <1>19, <1>20, <1>21, <1>22, <1>23, <1>24, <1>25, <1>26, <1>27,
     <1>28, <1>29, <1>30, <1>31, <1>32, <1>33 DEF Step, Call, Progress

\* Every path add_output opens is a device.
LEMMA PathIsDevice ==
    ASSUME NEW t \in Task, Places, Control, pc[t] = "open" PROVE Path(t) \subseteq Device
<1>1. Consoles \in Seq(Device)
  BY TransportAssumption
<1>2. CASE op[t] = "init"
  <2>1. left[t] \in 1 .. Len(Consoles)
    BY <1>2 DEF Control, InCall
  <2>2. Len(Consoles) - left[t] + 1 \in 1 .. Len(Consoles)
    BY <1>1, <2>1
  <2> QED
    BY <1>1, <1>2, <2>2 DEF Path
<1>3. CASE op[t] # "init"
  BY <1>3 DEF Path
<1> QED
  BY <1>2, <1>3

\* Each step leaves every variable in its set.
LEMMA TypeStep ==
    ASSUME NEW t \in Task, TypeOK, Control, Step(t) PROVE TypeOK'
<1>1. Places /\ Flags /\ outputs \in Seq(Device) /\ Len(outputs) <= MaxOutputs
  BY PlacesTyped DEF TypeOK, Flags
<1>2. Present \subseteq Slot
  BY <1>1, Bounds DEF Present, Slot
<1>3. Places' /\ Flags' /\ Changed(t)
  BY <1>1, <1>2, PlacesStep, FlagsStep, Changes
<1>4. stdio' \in Task \cup {NoTask}
  BY <1>3 DEF TypeOK, Changed
<1>5. outputs' \in Seq(Device) /\ Len(outputs') <= MaxOutputs
  <2>1. CASE outputs' = outputs
    BY <1>1, <2>1
  <2>2. CASE OpenOutput(t)
    <3>1. PICK path \in Path(t) : outputs' = Append(outputs, path)
      BY <2>2 DEF OpenOutput
    <3>2. path \in Device
      BY <1>1, <2>2, <3>1, PathIsDevice DEF OpenOutput
    <3> QED
      BY <1>1, <2>2, <3>1, <3>2, Bounds DEF OpenOutput
  <2> QED
    BY <1>3, <2>1, <2>2 DEF Changed
<1>6. acc' \in [by : Task \cup {NoTask}, len : 0 .. MaxPayload, overflow : BOOLEAN]
  <2> DEFINE Acc == [by : Task \cup {NoTask}, len : 0 .. MaxPayload, overflow : BOOLEAN]
  <2>1. ASSUME NEW a \in Acc PROVE Appended(a) \in Acc /\ [Appended(a) EXCEPT !.by = t] \in Acc
    <3>1. a.len \in 0 .. MaxPayload /\ a.overflow \in BOOLEAN /\ a.by \in Task \cup {NoTask}
      OBVIOUS
    <3>2. CASE a.overflow \/ a.len = MaxPayload
      BY <3>2 DEF Appended
    <3>3. CASE ~(a.overflow \/ a.len = MaxPayload)
      <4>1. a.len + 1 \in 0 .. MaxPayload
        BY <3>1, <3>3, Bounds
      <4> QED
        BY <3>3, <4>1 DEF Appended
    <3> QED
      BY <3>2, <3>3
  <2>2. acc \in Acc /\ [by |-> t, len |-> 0, overflow |-> FALSE] \in Acc
    BY Bounds DEF TypeOK
  <2>3. CASE EmitLock(t)
    BY <2>1, <2>2, <2>3 DEF EmitLock
  <2>4. CASE PayloadCb(t)
    BY <2>1, <2>2, <2>4 DEF PayloadCb
  <2> QED
    BY <1>3, <2>2, <2>3, <2>4 DEF Changed
<1>7. adds' \in 0 .. MaxAdds
  <2>1. adds \in 0 .. MaxAdds
    BY DEF TypeOK
  <2>2. CASE BeginAdd(t)
    BY <2>1, <2>2, Bounds DEF BeginAdd
  <2> QED
    BY <1>3, <2>1, <2>2 DEF Changed
<1>8. wire' \in [Slot -> [by : Task \cup {NoTask}, op : {"none", "print", "packet"},
                           at : 0 .. MaxBatches, size : 0 .. MaxBatches]]
  <2>1. CASE wire' = wire
    BY <2>1 DEF TypeOK
  <2>2. CASE \E i \in Slot : WriteBatch(t, i)
    <3>1. PICK i \in Slot : WriteBatch(t, i)
      BY <2>2
    <3>2. /\ op[t] \in {"print", "packet"}
          /\ batch[t] \in 0 .. MaxBatches /\ size[t] \in 0 .. MaxBatches
      BY <1>1, <3>1 DEF WriteBatch, Places, Control, InCall
    <3> QED
      BY <3>1, <3>2 DEF WriteBatch, TypeOK
  <2> QED
    BY <1>3, <2>1, <2>2 DEF Changed
<1> QED
  BY <1>3, <1>4, <1>5, <1>6, <1>7, <1>8 DEF TypeOK, Places, Flags

-----------------------------------------------------------------------------
\* The buffer is reset and extended only by the task that has the emit lock.
LEMMA AccStep ==
    ASSUME NEW t \in Task, TypeOK, Control, Accumulates, Step(t) PROVE Accumulates'
<1>1. Places /\ Moved(t) /\ Changed(t)
  BY PlacesTyped, Moves, Changes
<1> SUFFICES ASSUME ~plain', NEW u \in Task, emitLock' = u PROVE acc'.by = u
  BY DEF Accumulates
<1>2. ~plain
  BY <1>1 DEF Changed
<1>3. CASE EmitLock(t)
  BY <1>3, Bounds DEF EmitLock, Appended
<1>4. CASE PayloadCb(t)
  <2>1. emitLock = t /\ emitLock' = emitLock
    BY <1>4 DEF PayloadCb, Control, Holds, InCall
  <2>2. acc'.by = t
    BY <1>4 DEF PayloadCb, Appended, TypeOK
  <2> QED
    BY <2>1, <2>2
<1>5. CASE acc' = acc /\ ~EmitLock(t)
  <2>1. emitLock' = emitLock \/ emitLock' = NoTask
    BY <1>1, <1>2, <1>5 DEF Changed, EmitLockPlain
  <2> QED
    BY <1>2, <1>5, <2>1 DEF Accumulates
<1> QED
  BY <1>1, <1>3, <1>4, <1>5 DEF Changed

-----------------------------------------------------------------------------
\* Only the owner writes, and outputs are added only while there is none.
LEMMA FrameStep ==
    ASSUME NEW t \in Task, TypeOK, Control, FrameInv, Step(t) PROVE FrameInv'
<1>1. Places /\ Moved(t) /\ Changed(t)
  BY PlacesTyped, Moves, Changes
<1>2. Len(outputs) \in Nat /\ Len(outputs) <= MaxOutputs /\ MaxOutputs \in Nat
  BY Bounds DEF TypeOK
<1>3. pc[t] \in {"own", "open"} => owner = NoTask
  BY <1>1 DEF Places, Control, Holds, InMutex
<1>4. pc[t] = "flush" => owner = t
  BY DEF Control, Holds
<1>5. CASE SetOwner(t)
  <2>1. /\ owner = NoTask /\ owner' = t /\ batch'[t] = 1 /\ size'[t] \in 1 .. MaxBatches
        /\ out'[t] = Present /\ UNCHANGED <<wire, outputs>>
    BY <1>1, <1>3, <1>5 DEF SetOwner, Places
  <2>2. Progressing(t)'
    BY <1>2, <2>1, Bounds DEF FrameInv, Progressing, Complete, Present, Slot
  <2> QED
    BY <2>1, <2>2 DEF FrameInv
<1>6. CASE NextBatch(t)
  <2>1. /\ owner = t /\ owner' = t /\ batch'[t] = batch[t] + 1 /\ batch[t] < size[t]
        /\ out[t] = {} /\ out'[t] = Present /\ UNCHANGED <<wire, outputs, op, size>>
    BY <1>1, <1>4, <1>6 DEF NextBatch, Places
  <2>2. Progressing(t)
    BY <2>1 DEF FrameInv
  <2>3. batch[t] \in 1 .. MaxBatches /\ size[t] \in 0 .. MaxBatches
    BY <1>1, <2>2, Bounds DEF Places, Progressing
  <2>4. Progressing(t)'
    BY <1>2, <2>1, <2>2, <2>3, Bounds DEF Progressing, Complete, Batch, Present, Slot
  <2> QED
    BY <2>1, <2>4 DEF FrameInv
<1>7. CASE ClearOwner(t)
  <2>1. /\ owner = t /\ owner' = NoTask /\ batch[t] = size[t] /\ out[t] = {}
        /\ UNCHANGED <<wire, outputs>>
    BY <1>1, <1>4, <1>7 DEF ClearOwner, Places
  <2>2. \A i \in Slot : Complete(i)
    <3>1. Progressing(t)
      BY <2>1 DEF FrameInv
    <3>2. ASSUME NEW i \in Present PROVE Complete(i)
      <4>1. wire[i] = Batch(t, batch[t])
        BY <2>1, <3>1 DEF Progressing
      <4> QED
        BY <2>1, <4>1 DEF Batch, Complete
    <3> QED
      BY <3>1, <3>2 DEF Progressing
  <2> QED
    BY <2>1, <2>2 DEF FrameInv, Complete
<1>8. CASE OpenOutput(t)
  <2>1. owner = NoTask /\ owner' = NoTask /\ wire' = wire
    BY <1>3, <1>8 DEF OpenOutput
  <2> QED
    BY <2>1 DEF FrameInv, Complete
<1>9. ASSUME NEW i \in Slot, WriteBatch(t, i) PROVE FrameInv'
  <2>1. /\ owner = t /\ owner' = t /\ i \in out[t] /\ out'[t] = out[t] \ {i}
        /\ UNCHANGED <<outputs, op, batch, size>>
    BY <1>1, <1>4, <1>9 DEF WriteBatch, Places
  <2>2. wire'[i] = Batch(t, batch[t]) /\ \A j \in Slot \ {i} : wire'[j] = wire[j]
    BY <1>9 DEF WriteBatch, TypeOK, Batch
  <2>3. Progressing(t)
    BY <2>1 DEF FrameInv
  <2>4. Progressing(t)'
    BY <1>2, <2>1, <2>2, <2>3, SMTT(40) DEF Progressing, Complete, Batch, Present, Slot
  <2> QED
    BY <2>1, <2>4 DEF FrameInv
<1>10. CASE UNCHANGED <<wire, outputs, owner, size, batch, out>>
  <2>1. ASSUME NEW u \in Task, owner = u PROVE Progressing(u)'
    <3>1. op'[u] = op[u] /\ Progressing(u)
      BY <1>1, <2>1 DEF Moved, Changed, FrameInv
    <3> QED
      BY <1>10, <3>1 DEF Progressing, Complete, Batch, Present
  <2> QED
    BY <1>10, <2>1 DEF FrameInv, Complete
<1> QED
  BY <1>1, <1>5, <1>6, <1>7, <1>8, <1>9, <1>10 DEF Changed

-----------------------------------------------------------------------------
\* Nothing is held, collected or written at first.
LEMMA TransportInitially == ASSUME Init PROVE TransportInv
<1>1. TypeOK
  <2>1. outputs \in Seq(Device) /\ Len(outputs) <= MaxOutputs
    BY Bounds DEF Init
  <2>2. /\ acc \in [by : Task \cup {NoTask}, len : 0 .. MaxPayload, overflow : BOOLEAN]
        /\ wire \in [Slot -> [by : Task \cup {NoTask}, op : {"none", "print", "packet"},
                               at : 0 .. MaxBatches, size : 0 .. MaxBatches]]
    BY Bounds DEF Init, Silent
  <2>3. /\ size \in [Task -> 0 .. MaxBatches] /\ batch \in [Task -> 0 .. MaxBatches]
        /\ adds \in 0 .. MaxAdds
    BY Bounds DEF Init
  <2> QED
    BY <2>1, <2>2, <2>3 DEF Init, TypeOK, PC
<1>2. Control /\ Accumulates
  BY DEF Init, Control, Holds, InCall, Accumulates, InMutex
<1>3. FrameInv
  BY DEF Init, FrameInv, Complete, Silent
<1> QED
  BY <1>1, <1>2, <1>3 DEF TransportInv

\* The invariant is inductive.
LEMMA TransportInductive == ASSUME TransportInv, [Next]_vars PROVE TransportInv'
<1>1. CASE Next
  <2>1. PICK t \in Task : Step(t)
    BY <1>1 DEF Next, Step
  <2>2. TypeOK' /\ Control'
    BY <2>1, PlacesTyped, TypeStep, ControlStep DEF TransportInv
  <2>3. Accumulates' /\ FrameInv'
    BY <2>1, AccStep, FrameStep DEF TransportInv
  <2> QED
    BY <2>2, <2>3 DEF TransportInv
<1>2. CASE UNCHANGED vars
  <2>1. TypeOK'
    BY <1>2 DEF TransportInv, vars, TypeOK
  <2>2. Control' /\ Accumulates'
    BY <1>2 DEF TransportInv, vars, Control, Holds, InCall, Accumulates
  <2>3. FrameInv'
    BY <1>2 DEF TransportInv, vars, FrameInv, Progressing, Complete, Batch, Present
  <2> QED
    BY <2>1, <2>2, <2>3 DEF TransportInv
<1> QED
  BY <1>1, <1>2

\* So it holds in every reachable state.
LEMMA TransportInvariant == Spec => []TransportInv
  BY TransportInitially, TransportInductive, PTL DEF Spec

-----------------------------------------------------------------------------
\* Every variable keeps a value of its kind: no table and no buffer is overrun.
THEOREM TransportTypes == Spec => []TypeOK
<1>1. TransportInv => TypeOK
  BY DEF TransportInv
<1> QED
  BY <1>1, TransportInvariant, PTL

(***************************************************************************)
(* From start_cb to the last byte of its frame the sink's one accumulation *)
(* buffer holds the callbacks of one packet.                               *)
(***************************************************************************)
THEOREM BufferHasOnePacket == Spec => []FrameHoldsOnePacket
<1>1. TransportInv => FrameHoldsOnePacket
  BY DEF TransportInv, FrameHoldsOnePacket, Control, Holds, Accumulates
<1> QED
  BY <1>1, TransportInvariant, PTL

(***************************************************************************)
(* No task waits for the transport mutex while it holds it, console        *)
(* drivers that print from inside write() included.                        *)
(***************************************************************************)
THEOREM MutexIsNotReentered == Spec => []NoSelfDeadlock
<1>1. TransportInv => NoSelfDeadlock
  BY DEF TransportInv, NoSelfDeadlock, Control, Holds, InMutex
<1> QED
  BY <1>1, TransportInvariant, PTL

(***************************************************************************)
(* On every output a frame or raw line is followed batch by batch to its   *)
(* end before another begins, whatever fails, prints or is added meanwhile.*)
(***************************************************************************)
THEOREM FramesStayWhole == Spec => FramesAreWhole
<1> DEFINE Whole ==
      \A i \in Slot :
         wire'[i] # wire[i] =>
            IF wire[i].at < wire[i].size THEN wire'[i] = [wire[i] EXCEPT !.at = @ + 1]
                                         ELSE wire'[i].at = 1
<1>1. ASSUME TransportInv, NEW t \in Task, NEW i \in Slot, WriteBatch(t, i) PROVE Whole
  <2>1. TypeOK /\ Places /\ Control
    BY <1>1, PlacesTyped DEF TransportInv
  <2>2. owner = t /\ i \in out[t]
    BY <1>1, <2>1 DEF WriteBatch, Control, Holds
  <2>3. Progressing(t)
    BY <1>1, <2>2 DEF TransportInv, FrameInv
  <2>4. wire'[i] = Batch(t, batch[t]) /\ \A j \in Slot \ {i} : wire'[j] = wire[j]
    BY <1>1, <2>1 DEF WriteBatch, TypeOK, Batch
  <2>5. batch[t] \in Nat /\ size[t] \in Nat /\ 1 <= batch[t] /\ batch[t] <= size[t]
    BY <2>1, <2>3, Bounds DEF Places, Progressing
  <2>6. CASE batch[t] = 1
    <3>1. wire[i].at = wire[i].size /\ wire[i].at \in Int
      BY <2>1, <2>2, <2>3, <2>6, Bounds DEF Progressing, Complete, TypeOK
    <3>2. wire'[i].at = 1
      BY <2>4, <2>6 DEF Batch
    <3> QED
      BY <2>4, <3>1, <3>2
  <2>7. CASE batch[t] # 1
    <3>1. wire[i] = Batch(t, batch[t] - 1)
      BY <2>2, <2>3, <2>7 DEF Progressing
    <3>2. wire[i].at < wire[i].size
      BY <2>5, <3>1 DEF Batch
    <3>3. [wire[i] EXCEPT !.at = @ + 1] = Batch(t, batch[t])
      BY <2>5, <3>1 DEF Batch
    <3> QED
      BY <2>4, <3>2, <3>3
  <2> QED
    BY <2>6, <2>7
<1>2. ASSUME TransportInv, [Next]_vars PROVE [Whole]_wire
  <2>1. CASE Next
    <3>1. PICK t \in Task : Step(t)
      BY <2>1 DEF Next, Step
    <3>2. Changed(t)
      BY <1>2, <3>1, PlacesTyped, Changes DEF TransportInv
    <3> QED
      BY <1>1, <1>2, <3>2 DEF Changed
  <2>2. CASE UNCHANGED vars
    BY <2>2 DEF vars
  <2> QED
    BY <1>2, <2>1, <2>2
<1> QED
  BY <1>2, TransportInvariant, PTL DEF Spec, FramesAreWhole

=============================================================================
