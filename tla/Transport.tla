----------------------------- MODULE Transport ------------------------------
(***************************************************************************)
(* The ESP-IDF transport.  esp_stdio_log_vfs.c writes to several outputs   *)
(* under the transport mutex, and on9log_esp_vfs.c is the core's sink.  In *)
(* the binary build it collects a packet's callbacks into one frame, whose *)
(* bytes leave in batches; batch 1 begins with the START byte and the last *)
(* one ends with END.  In the plain-text build a line is a raw stream: it  *)
(* holds the mutex from start_cb to end_cb, each callback is a batch.      *)
(*                                                                         *)
(* stdout and stderr are redirected to the transport, so what tasks print, *)
(* and what a console driver prints from inside write(), comes back here   *)
(* through the lock of the C library's stdout, as TEXT frames or raw.  The *)
(* emission path is represented by its emit lock, which a task holds from  *)
(* start_cb to the return of end_cb.                                       *)
(***************************************************************************)
EXTENDS Integers, Sequences, FiniteSets

CONSTANTS
    Task,        \* tasks that log, print, or configure the transport
    Device,      \* paths of console devices
    Consoles,    \* the devices esp_stdio_log_vfs_init adds, in order
    MaxOutputs,  \* ESP_STDIO_LOG_VFS_MAX_OUTPUTS
    MaxPayload,  \* ESP_STDIO_LOG_VFS_FRAME_MAX_PAYLOAD, in units of one callback's bytes
    MaxParts,    \* bound: callbacks of one packet
    MaxChunks,   \* bound: frames one print needs
    MaxBatches,  \* bound: batches of one frame
    MaxAdds,     \* bound: calls of add_output by the application
    DriverMayPrint, \* console drivers print from inside write()
    NoTask

ASSUME TransportAssumption ==
    /\ NoTask \notin Task
    /\ Consoles \in Seq(Device)
    /\ {MaxOutputs, MaxPayload, MaxChunks, MaxBatches} \subseteq Nat \ {0}
    /\ {MaxParts, MaxAdds} \subseteq Nat
    /\ DriverMayPrint \in BOOLEAN

Slot == 1 .. MaxOutputs

VARIABLES
    plain,       \* ON9LOG_PLAIN_TEXT
    stdio,       \* holder of the C library's lock of stdout, or NoTask
    mutex,       \* holder of s_transport_mutex, or NoTask
    owner,       \* s_transport_owner
    emitLock,    \* holder of the core's emit lock, or NoTask
    outputs,     \* s_esp_stdio_log_vfs.outputs, up to output_count
    installed,   \* s_esp_stdio_log_vfs.installed
    redirected,  \* stdout goes to /dev/logger
    attached,    \* the sink is in the core's table
    acc,         \* s_on9log_esp_vfs: [by, len, overflow], by being a history field
    pc, op,      \* where each task is, and in which call
    left,        \* chunks of a print, or callbacks of a packet, or consoles to add
    size, batch, \* batches of the frame the task is writing, and which one is being flushed
    out,         \* outputs the current batch has still to be written to
    ok,          \* writer.ok
    nested,      \* the console driver prints from inside this task's write()
    adds,        \* history: calls of add_output by the application
    wire         \* history: per output, the last batch written: [by, op, at, size]

locks   == <<stdio, mutex, owner, emitLock>>
setup   == <<plain, outputs, installed, redirected, attached>>
locals  == <<pc, op, left, size, batch, out, ok, nested>>
history == <<adds, wire>>
vars    == <<locks, setup, acc, locals, history>>

Silent == [by |-> NoTask, op |-> "none", at |-> 0, size |-> 0]

Init ==
    /\ plain \in BOOLEAN
    /\ stdio = NoTask /\ mutex = NoTask /\ owner = NoTask /\ emitLock = NoTask
    /\ outputs = <<>>
    /\ installed = FALSE /\ redirected = FALSE /\ attached = FALSE
    /\ acc = [by |-> NoTask, len |-> 0, overflow |-> FALSE]
    /\ pc = [t \in Task |-> "idle"]
    /\ op = [t \in Task |-> "none"]
    /\ left = [t \in Task |-> 0]
    /\ size = [t \in Task |-> 0]
    /\ batch = [t \in Task |-> 0]
    /\ out = [t \in Task |-> {}]
    /\ ok = [t \in Task |-> TRUE]
    /\ nested = [t \in Task |-> FALSE]
    /\ adds = 0
    /\ wire = [i \in Slot |-> Silent]

Goto(t, label) == pc' = [pc EXCEPT ![t] = label]

\* The call returns and its locals are gone.
Return(t) ==
    /\ Goto(t, "idle")
    /\ op' = [op EXCEPT ![t] = "none"]
    /\ left' = [left EXCEPT ![t] = 0]
    /\ ok' = [ok EXCEPT ![t] = TRUE]

-----------------------------------------------------------------------------
(***************************************************************************)
(* Calls.                                                                  *)
(***************************************************************************)
Begin(t, call, n, label) ==
    /\ pc[t] = "idle"
    /\ op' = [op EXCEPT ![t] = call]
    /\ left' = [left EXCEPT ![t] = n]
    /\ Goto(t, label)
    /\ UNCHANGED <<locks, setup, acc, size, batch, out, ok, nested, wire>>

\* Text printed to stdout, which esp_stdio_log_vfs_write makes n frames or one raw stream of.
BeginPrint(t) ==
    /\ redirected
    /\ \E n \in 1 .. (IF plain THEN 1 ELSE MaxChunks) : Begin(t, "print", n, "stdio")
    /\ UNCHANGED adds

\* A log call of the core that reaches the sink: the emit lock first.
BeginPacket(t) ==
    /\ attached
    /\ \E n \in 0 .. MaxParts : Begin(t, "packet", n, "emit")
    /\ UNCHANGED adds

BeginAdd(t) ==
    /\ adds < MaxAdds
    /\ adds' = adds + 1
    /\ Begin(t, "add", 1, "lock")

BeginSync(t) == redirected /\ Begin(t, "sync", 0, "lock") /\ UNCHANGED adds

\* on9log_esp_vfs_init calls esp_stdio_log_vfs_init, which is installed or not.
BeginInit(t) ==
    /\ ~installed
    /\ Begin(t, "init", Len(Consoles), IF Consoles = <<>> THEN "register" ELSE "lock")
    /\ UNCHANGED adds

BeginAttach(t) == installed /\ Begin(t, "init", 0, "attach") /\ UNCHANGED adds

-----------------------------------------------------------------------------
\* The C library locks stdout for the time of the print; a task may lock it again.
StdioLock(t) ==
    /\ pc[t] = "stdio"
    /\ stdio \in {t, NoTask}
    /\ stdio' = t
    /\ Goto(t, "check")
    /\ UNCHANGED <<mutex, owner, emitLock, setup, acc, op, left, size, batch, out, ok, nested,
                   history>>

-----------------------------------------------------------------------------
(***************************************************************************)
(* The sink's callbacks, under the emit lock.                              *)
(***************************************************************************)
\* on9log_esp_vfs_append of one callback's bytes.
Appended(a) ==
    IF a.overflow \/ a.len = MaxPayload THEN [a EXCEPT !.overflow = TRUE]
    ELSE [a EXCEPT !.len = @ + 1]

\* Mutant of EmitLock: the accumulator is used without the emit lock.
EmitLockNot(t) ==
    /\ pc[t] = "emit" /\ ~plain
    /\ emitLock' = t
    /\ acc' = Appended([by |-> t, len |-> 0, overflow |-> FALSE])
    /\ Goto(t, "payload")
    /\ UNCHANGED <<stdio, mutex, owner, setup, op, left, size, batch, out, ok, nested, history>>

\* The core takes its lock and calls start_cb, which begins a new frame.
EmitLock(t) ==
    /\ pc[t] = "emit" /\ ~plain
    /\ emitLock = NoTask
    /\ emitLock' = t
    /\ acc' = Appended([by |-> t, len |-> 0, overflow |-> FALSE])
    /\ Goto(t, "payload")
    /\ UNCHANGED <<stdio, mutex, owner, setup, op, left, size, batch, out, ok, nested, history>>

\* In plain text start_cb begins a raw stream instead.
EmitLockPlain(t) ==
    /\ pc[t] = "emit" /\ plain
    /\ emitLock = NoTask
    /\ emitLock' = t
    /\ Goto(t, "check")
    /\ UNCHANGED <<stdio, mutex, owner, setup, acc, op, left, size, batch, out, ok, nested, history>>

PayloadCb(t) ==
    /\ pc[t] = "payload"
    /\ left[t] > 0
    /\ left' = [left EXCEPT ![t] = @ - 1]
    /\ acc' = [Appended(acc) EXCEPT !.by = t]
    /\ UNCHANGED <<locks, setup, pc, op, size, batch, out, ok, nested, history>>

\* end_cb writes the frame ...
EndCb(t) ==
    /\ pc[t] = "payload"
    /\ left[t] = 0
    /\ ~acc.overflow
    /\ Goto(t, "check")
    /\ UNCHANGED <<locks, setup, acc, op, left, size, batch, out, ok, nested, history>>

\* ... unless the packet did not fit.
EndCbOverflow(t) ==
    /\ pc[t] = "payload"
    /\ left[t] = 0
    /\ acc.overflow
    /\ emitLock' = NoTask
    /\ Return(t)
    /\ UNCHANGED <<stdio, mutex, owner, setup, acc, size, batch, out, nested, history>>

-----------------------------------------------------------------------------
(***************************************************************************)
(* esp_stdio_log_vfs_write_frame and the raw stream.                       *)
(***************************************************************************)
\* Mutant of Reentrant: no look at the owner, straight to the lock.
ReentrantBlocks(t) ==
    /\ pc[t] = "check"
    /\ owner = t
    /\ Goto(t, "lock")
    /\ UNCHANGED <<locks, setup, acc, op, left, size, batch, out, ok, nested, history>>

\* The task is inside already: ESP_FAIL, the text is dropped and the driver's print returns.
Reentrant(t) ==
    /\ pc[t] = "check"
    /\ owner = t
    /\ nested' = [nested EXCEPT ![t] = FALSE]
    /\ stdio' = IF op[t] = "print" THEN t ELSE NoTask
    /\ Goto(t, "flush")
    /\ UNCHANGED <<mutex, owner, emitLock, setup, acc, op, left, size, batch, out, ok, history>>

NotOwner(t) ==
    /\ pc[t] = "check"
    /\ owner # t
    /\ Goto(t, "lock")
    /\ UNCHANGED <<locks, setup, acc, op, left, size, batch, out, ok, nested, history>>

\* The label after the transport lock, by call.
Inside(call) == CASE call \in {"print", "packet"} -> "own"
                  [] call \in {"add", "init"} -> "open"
                  [] call = "sync" -> "sync"

\* Mutant of TransportLock: the mutex is not taken.
TransportLockNot(t) ==
    /\ pc[t] = "lock"
    /\ mutex' = t
    /\ Goto(t, Inside(op[t]))
    /\ UNCHANGED <<stdio, owner, emitLock, setup, acc, op, left, size, batch, out, ok, nested, history>>

TransportLock(t) ==
    /\ pc[t] = "lock"
    /\ mutex = NoTask
    /\ mutex' = t
    /\ Goto(t, Inside(op[t]))
    /\ UNCHANGED <<stdio, owner, emitLock, setup, acc, op, left, size, batch, out, ok, nested, history>>

Present == 1 .. Len(outputs)

\* A frame of any length is put into batches that are flushed in turn; raw writes are made.
SetOwner(t) ==
    /\ pc[t] = "own"
    /\ owner' = t
    /\ \E n \in 1 .. MaxBatches : size' = [size EXCEPT ![t] = n]
    /\ batch' = [batch EXCEPT ![t] = 1]
    /\ out' = [out EXCEPT ![t] = Present]
    /\ Goto(t, "flush")
    /\ UNCHANGED <<stdio, mutex, emitLock, setup, acc, op, left, ok, nested, history>>

\* write_all to one output; a failure is remembered and the others go on.
WriteBatch(t, i) ==
    /\ pc[t] = "flush" /\ ~nested[t]
    /\ i \in out[t] /\ \A j \in out[t] : i <= j
    /\ out' = [out EXCEPT ![t] = @ \ {i}]
    /\ wire' = [wire EXCEPT ![i] = [by |-> t, op |-> op[t], at |-> batch[t], size |-> size[t]]]
    /\ \E good \in BOOLEAN : ok' = [ok EXCEPT ![t] = @ /\ good]
    /\ UNCHANGED <<locks, setup, acc, pc, op, left, size, batch, nested, adds>>

\* The console driver prints with ESP_LOG* while it is in write().
DriverPrints(t) ==
    /\ pc[t] = "flush" /\ ~nested[t]
    /\ out[t] # {} /\ redirected /\ DriverMayPrint
    /\ nested' = [nested EXCEPT ![t] = TRUE]
    /\ Goto(t, "stdio")
    /\ UNCHANGED <<locks, setup, acc, op, left, size, batch, out, ok, history>>

NextBatch(t) ==
    /\ pc[t] = "flush" /\ ~nested[t]
    /\ out[t] = {} /\ batch[t] < size[t]
    /\ batch' = [batch EXCEPT ![t] = @ + 1]
    /\ out' = [out EXCEPT ![t] = Present]
    /\ UNCHANGED <<locks, setup, acc, pc, op, left, size, ok, nested, history>>

\* The END byte is out: the owner is cleared and then the mutex given back.
ClearOwner(t) ==
    /\ pc[t] = "flush" /\ ~nested[t]
    /\ out[t] = {} /\ batch[t] = size[t]
    /\ size' = [size EXCEPT ![t] = 0]
    /\ batch' = [batch EXCEPT ![t] = 0]
    /\ owner' = NoTask
    /\ Goto(t, "unlock")
    /\ UNCHANGED <<stdio, mutex, emitLock, setup, acc, op, left, out, ok, nested, history>>

\* The end of a packet's frame is the end of end_cb, and the core releases its lock.
FrameDone(t) ==
    /\ Return(t)
    /\ emitLock' = IF op[t] = "packet" THEN NoTask ELSE emitLock
    /\ stdio' = IF op[t] = "print" THEN NoTask ELSE stdio

\* Mutant of FrameUnlock: a frame that could not be written is tried again.
FrameUnlockRetries(t) ==
    /\ pc[t] = "unlock" /\ op[t] \in {"print", "packet"}
    /\ mutex' = NoTask
    /\ IF op[t] = "print" /\ ~ok[t]
       THEN /\ Goto(t, "check")
            /\ ok' = [ok EXCEPT ![t] = TRUE]
            /\ UNCHANGED <<op, left, emitLock, stdio>>
       ELSE FrameDone(t)
    /\ UNCHANGED <<owner, setup, acc, size, batch, out, nested, history>>

(***************************************************************************)
(* The mutex is given back.  A print goes on with its next frame unless a  *)
(* write failed.                                                           *)
(***************************************************************************)
FrameUnlock(t) ==
    /\ pc[t] = "unlock" /\ op[t] \in {"print", "packet"}
    /\ mutex' = NoTask
    /\ IF op[t] = "print" /\ left[t] > 1 /\ ok[t]
       THEN /\ Goto(t, "check")
            /\ left' = [left EXCEPT ![t] = @ - 1]
            /\ UNCHANGED <<op, ok, emitLock, stdio>>
       ELSE FrameDone(t)
    /\ UNCHANGED <<owner, setup, acc, size, batch, out, nested, history>>

-----------------------------------------------------------------------------
(***************************************************************************)
(* esp_stdio_log_vfs_add_output, fsync and the initialisation.             *)
(***************************************************************************)
Path(t) == IF op[t] = "init" THEN {Consoles[Len(Consoles) - left[t] + 1]} ELSE Device

\* Mutant of OpenOutput: the bound of the table is off by one.
OpenOutputBeyond(t) ==
    /\ pc[t] = "open"
    /\ Len(outputs) <= MaxOutputs
    /\ \E path \in Path(t) : outputs' = Append(outputs, path)
    /\ Goto(t, "unlock")
    /\ UNCHANGED <<locks, plain, installed, redirected, attached, acc, op, left, size, batch, out, ok,
                   nested, history>>

OpenOutput(t) ==
    /\ pc[t] = "open"
    /\ Len(outputs) < MaxOutputs
    /\ \E path \in Path(t) : outputs' = Append(outputs, path)
    /\ Goto(t, "unlock")
    /\ UNCHANGED <<locks, plain, installed, redirected, attached, acc, op, left, size, batch, out, ok,
                   nested, history>>

\* open() returned -1: no output, and ESP_OK all the same.
OpenFails(t) ==
    /\ pc[t] = "open"
    /\ Len(outputs) < MaxOutputs
    /\ Goto(t, "unlock")
    /\ UNCHANGED <<locks, setup, acc, op, left, size, batch, out, ok, nested, history>>

OutputsFull(t) ==
    /\ pc[t] = "open"
    /\ Len(outputs) = MaxOutputs
    /\ Goto(t, "unlock")
    /\ UNCHANGED <<locks, setup, acc, op, left, size, batch, out, ok, nested, history>>

Fsync(t) ==
    /\ pc[t] = "sync"
    /\ Goto(t, "unlock")
    /\ UNCHANGED <<locks, setup, acc, op, left, size, batch, out, ok, nested, history>>

\* The initialisation ignores what add_output returned and adds the next console.
SetupUnlock(t) ==
    /\ pc[t] = "unlock" /\ op[t] \in {"add", "sync", "init"}
    /\ mutex' = NoTask
    /\ IF op[t] = "init"
       THEN /\ left' = [left EXCEPT ![t] = @ - 1]
            /\ Goto(t, IF left[t] = 1 THEN "register" ELSE "lock")
            /\ UNCHANGED <<op, ok>>
       ELSE Return(t)
    /\ UNCHANGED <<stdio, owner, emitLock, setup, acc, size, batch, out, nested, history>>

Register(t) ==
    /\ pc[t] = "register"
    /\ Goto(t, "reopen")
    /\ UNCHANGED <<locks, setup, acc, op, left, size, batch, out, ok, nested, history>>

\* esp_vfs_register failed, or freopen of stdout did.
RegisterFails(t) ==
    /\ pc[t] \in {"register", "reopen"}
    /\ Return(t)
    /\ UNCHANGED <<locks, setup, acc, size, batch, out, nested, history>>

ReopenStdout(t) ==
    /\ pc[t] = "reopen"
    /\ stdio = NoTask
    /\ redirected' = TRUE
    /\ Goto(t, "stderr")
    /\ UNCHANGED <<locks, plain, outputs, installed, attached, acc, op, left, size, batch, out, ok, nested,
                   history>>

ReopenStderr(t) ==
    /\ pc[t] = "stderr"
    /\ installed' = TRUE
    /\ Goto(t, "attach")
    /\ UNCHANGED <<locks, plain, outputs, redirected, attached, acc, op, left, size, batch, out, ok, nested,
                   history>>

ReopenStderrFails(t) ==
    /\ pc[t] = "stderr"
    /\ Return(t)
    /\ UNCHANGED <<locks, setup, acc, size, batch, out, nested, history>>

\* on9log_add_sink, which waits for the emit lock and accepts a sink it knows.
AttachSink(t) ==
    /\ pc[t] = "attach"
    /\ emitLock = NoTask
    /\ attached' = TRUE
    /\ Return(t)
    /\ UNCHANGED <<locks, plain, outputs, installed, redirected, acc, size, batch, out, nested, history>>

\* Other sinks fill the table.
AttachFails(t) ==
    /\ pc[t] = "attach"
    /\ emitLock = NoTask /\ ~attached
    /\ Return(t)
    /\ UNCHANGED <<locks, setup, acc, size, batch, out, nested, history>>

-----------------------------------------------------------------------------
Call(t) ==
    \/ BeginPrint(t) \/ BeginPacket(t) \/ BeginAdd(t) \/ BeginSync(t)
    \/ BeginInit(t) \/ BeginAttach(t)

\* Steps a task that is in a call takes by itself.
Progress(t) ==
    \/ StdioLock(t) \/ EmitLock(t) \/ EmitLockPlain(t) \/ PayloadCb(t) \/ EndCb(t) \/ EndCbOverflow(t)
    \/ Reentrant(t) \/ NotOwner(t) \/ TransportLock(t) \/ SetOwner(t)
    \/ \E i \in Slot : WriteBatch(t, i)
    \/ NextBatch(t) \/ ClearOwner(t) \/ FrameUnlock(t)
    \/ OpenOutput(t) \/ OpenFails(t) \/ OutputsFull(t) \/ Fsync(t) \/ SetupUnlock(t)
    \/ Register(t) \/ RegisterFails(t) \/ ReopenStdout(t) \/ ReopenStderr(t)
    \/ ReopenStderrFails(t) \/ AttachSink(t) \/ AttachFails(t)

Next == \E t \in Task : Call(t) \/ Progress(t) \/ DriverPrints(t)

Spec == Init /\ [][Next]_vars

(***************************************************************************)
(* Fairness: a task that can take a step of its call is run again, and     *)
(* write() returns.  Nothing is assumed about who gets a lock: FreeRTOS    *)
(* only readies a waiter when a mutex is given back, and the giver, or a   *)
(* task of higher priority, may have it again before the waiter runs.      *)
(***************************************************************************)
LiveSpec == Spec /\ \A t \in Task : WF_vars(Progress(t))

-----------------------------------------------------------------------------
PC == {"idle", "stdio", "emit", "payload", "check", "lock", "own", "flush", "unlock", "open", "sync",
       "register", "reopen", "stderr", "attach"}

\* Every variable holds a value of its kind.
TypeOK ==
    /\ {stdio, mutex, owner, emitLock} \subseteq Task \cup {NoTask}
    /\ outputs \in Seq(Device) /\ Len(outputs) <= MaxOutputs
    /\ {plain, installed, redirected, attached} \subseteq BOOLEAN
    /\ acc \in [by : Task \cup {NoTask}, len : 0 .. MaxPayload, overflow : BOOLEAN]
    /\ pc \in [Task -> PC]
    /\ op \in [Task -> {"none", "print", "packet", "add", "sync", "init"}]
    /\ left \in [Task -> Nat]
    /\ size \in [Task -> 0 .. MaxBatches]
    /\ batch \in [Task -> 0 .. MaxBatches]
    /\ out \in [Task -> SUBSET Slot]
    /\ ok \in [Task -> BOOLEAN]
    /\ nested \in [Task -> BOOLEAN]
    /\ adds \in 0 .. MaxAdds
    /\ wire \in [Slot -> [by : Task \cup {NoTask}, op : {"none", "print", "packet"},
                          at : 0 .. MaxBatches, size : 0 .. MaxBatches]]

(***************************************************************************)
(* Frames and lines are whole on every output: from the first batch to the *)
(* last every batch is of one frame, or one raw stream, of one task; text  *)
(* that other tasks or the driver itself print comes before or after it,   *)
(* and an output added while frames are written begins with a first batch. *)
(***************************************************************************)
FramesAreWhole ==
    [][\A i \in Slot :
          wire'[i] # wire[i] =>
             IF wire[i].at < wire[i].size THEN wire'[i] = [wire[i] EXCEPT !.at = @ + 1]
                                          ELSE wire'[i].at = 1]_wire

(***************************************************************************)
(* The one accumulation buffer of the sink belongs to the packet whose     *)
(* callbacks or whose frame is in progress: no other packet resets or      *)
(* extends it before the last byte of the frame is written.                *)
(***************************************************************************)
FrameHoldsOnePacket ==
    \A t \in Task :
       op[t] = "packet" /\ pc[t] \notin {"idle", "emit"} => (plain \/ acc.by = t) /\ emitLock = t

(***************************************************************************)
(* A task that waits for the transport mutex never holds it: the owner     *)
(* test sends re-entrant calls back before they block, although owner is   *)
(* read without the mutex.                                                 *)
(***************************************************************************)
NoSelfDeadlock ==
    \A t \in Task :
       /\ pc[t] = "lock" => mutex # t
       /\ owner = t => mutex = t

\* From some time on no task begins another call and no driver prints.
CallsEnd ==
    <>[][\A t \in Task : /\ pc[t] = "idle" => pc'[t] = "idle"
                         /\ nested'[t] => nested[t]]_<<pc, nested>>

(***************************************************************************)
(* The circle a printing driver can close: u is in write() with the        *)
(* transport mutex and waits for stdout, which v holds while it waits for  *)
(* the mutex.                                                              *)
(***************************************************************************)
DriverDeadlock ==
    \E u, v \in Task :
       /\ mutex = u /\ nested[u] /\ pc[u] = "stdio"
       /\ stdio = v /\ v # u /\ pc[v] = "lock"

(***************************************************************************)
(* No early return, failed write or failed initialisation keeps a lock,    *)
(* and the locks of stdout, of the core and of the transport are waited    *)
(* for in a circle in one way only: when tasks stop making new calls and   *)
(* drivers stop printing, every call that is under way returns, unless a   *)
(* driver's print from inside write() met another task's print.            *)
(***************************************************************************)
CallsReturn ==
    CallsEnd => \A t \in Task : pc[t] # "idle" ~> (pc[t] = "idle" \/ DriverDeadlock)

(***************************************************************************)
(* What a comment promises and the code does not do.                       *)
(***************************************************************************)
\* esp_stdio_log_vfs_init: safe to call multiple times.
NoOutputTwice ==
    adds = 0 => \A i, j \in Present : outputs[i] = outputs[j] => i = j

=============================================================================
