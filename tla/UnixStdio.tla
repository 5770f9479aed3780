----------------------------- MODULE UnixStdio ------------------------------
(***************************************************************************)
(* Logging on Linux and macOS: threads that initialise the library and its *)
(* stdio sink, log, and print to the same FILE with stdio's own functions, *)
(* all at once.                                                            *)
(*                                                                         *)
(* Four kinds of lock meet here: the port lock (on9log_init), s_init_mutex *)
(* (on9log_unix_stdio_init_file), the emit lock (every line or packet, and *)
(* the sink table) and the lock inside each FILE, which start_cb takes and *)
(* end_cb gives back.  The plain-text build also formats through a stream  *)
(* of its own, whose write function finds its destination in one global    *)
(* cookie.                                                                 *)
(*                                                                         *)
(* A line goes out in pieces.  What stands last on a FILE is its tail, a   *)
(* history variable.                                                       *)
(***************************************************************************)
EXTENDS Integers

CONSTANTS
    Task,        \* threads
    File,        \* FILEs the application passes to init_file
    Shared,      \* ... and the ones among them it prints to itself
    MaxParts,    \* bound: payload pieces of a line or packet
    FrameMax,    \* pieces the frame buffer holds, the header being one
                 \* (ON9LOG_TRANSPORT_MAX_PAYLOAD)
    MaxDropped,  \* bound: drops waiting to be reported
    MaxOpens,    \* bound: printf streams fopencookie opens
    NoTask, NoFile

ASSUME UnixStdioAssumption ==
    /\ NoTask \notin Task
    /\ NoFile \notin File
    /\ Shared \subseteq File
    /\ {MaxParts, MaxDropped, MaxOpens} \subseteq Nat
    /\ FrameMax \in Nat \ {0}

VARIABLES
    build,       \* "text", or binary for "linux" or "macos"
    portLock, initMutex, emitLock,  \* owner of each, or NoTask
    fileLock,    \* FILE -> who locked it
    printf,      \* s_on9log_printf_stream: the number of a stream, 0 for NULL
    opened,      \* printf streams that are open
    cookie,      \* whose output s_on9log_printf_cookie leads to, or NoTask
    stream,      \* s_stdio.stream
    sink,        \* is s_stdio_sink in the sink table?
    failed, frame, dropFrame,  \* the rest of s_stdio
    dropped,     \* s_dropped_count
    pc, call, file, mine, notice, left,  \* where each task is, and its locals
    tail,        \* history: FILE -> the piece written last
    described,   \* history: FILEs that got the image-slide line
    granted      \* history: task -> the FILE init_file last returned ON9LOG_OK for

locks  == <<portLock, initMutex, emitLock, fileLock>>
text   == <<printf, opened, cookie>>
stdio  == <<stream, sink, failed, frame, dropFrame>>
locals == <<call, file, mine, notice, left>>
seen   == <<tail, described, granted>>
vars   == <<build, locks, text, stdio, dropped, pc, locals, seen>>

Piece(by, at) == [by |-> by, at |-> at]

Init ==
    /\ build \in {"text", "linux", "macos"}
    /\ portLock = NoTask /\ initMutex = NoTask /\ emitLock = NoTask
    /\ fileLock = [f \in File |-> NoTask]
    /\ printf = 0 /\ opened = {} /\ cookie = NoTask
    /\ stream = NoFile /\ sink = FALSE
    /\ failed = FALSE /\ frame = 0 /\ dropFrame = FALSE
    /\ dropped = 0
    /\ pc = [t \in Task |-> "idle"]
    /\ call = [t \in Task |-> "none"]
    /\ file = [t \in Task |-> NoFile]
    /\ mine = [t \in Task |-> 0]
    /\ notice = [t \in Task |-> FALSE]
    /\ left = [t \in Task |-> 0]
    /\ tail = [f \in File |-> Piece(NoTask, "none")]
    /\ described = {}
    /\ granted = [t \in Task |-> NoFile]

Goto(t, label) == pc' = [pc EXCEPT ![t] = label]

Return(t) ==
    /\ Goto(t, "idle")
    /\ call' = [call EXCEPT ![t] = "none"]
    /\ file' = [file EXCEPT ![t] = NoFile]

-----------------------------------------------------------------------------
(***************************************************************************)
(* on9log_init, on its own or at the head of on9log_unix_stdio_init_file.  *)
(***************************************************************************)
BeginInit(t) ==
    /\ pc[t] = "idle"
    /\ call' = [call EXCEPT ![t] = "init"]
    /\ Goto(t, "init")
    /\ UNCHANGED <<build, locks, text, stdio, dropped, file, mine, notice, left, seen>>

BeginStdio(t, f) ==
    /\ pc[t] = "idle"
    /\ call' = [call EXCEPT ![t] = "stdio"]
    /\ file' = [file EXCEPT ![t] = f]
    /\ Goto(t, "init")
    /\ UNCHANGED <<build, locks, text, stdio, dropped, mine, notice, left, seen>>

\* on9log_init returns ON9LOG_OK.
InitDone(t) ==
    IF call[t] = "init" THEN Return(t)
    ELSE Goto(t, "mutex") /\ UNCHANGED <<call, file>>

\* Binary build, or the stream is there already.
InitReady(t) ==
    /\ pc[t] = "init"
    /\ build = "text" => printf # 0
    /\ InitDone(t)
    /\ UNCHANGED <<build, locks, text, stdio, dropped, mine, notice, left, seen>>

InitLock(t) ==
    /\ pc[t] = "init"
    /\ build = "text" /\ printf = 0
    /\ Goto(t, "port")
    /\ UNCHANGED <<build, locks, text, stdio, dropped, locals, seen>>

\* The second look, under the lock: another thread was faster.
InitLost(t) ==
    /\ pc[t] = "port"
    /\ portLock = NoTask
    /\ printf # 0
    /\ InitDone(t)
    /\ UNCHANGED <<build, locks, text, stdio, dropped, mine, notice, left, seen>>

\* Mutant of OpenStream: there is no second look.
OpenStreamUnchecked(t) ==
    /\ pc[t] = "port"
    /\ portLock = NoTask
    /\ portLock' = t
    /\ \E n \in 1 .. MaxOpens :
          /\ n \notin opened
          /\ opened' = opened \cup {n}
          /\ mine' = [mine EXCEPT ![t] = n]
    /\ Goto(t, "unbuffer")
    /\ UNCHANGED <<build, initMutex, emitLock, fileLock, printf, cookie, stdio, dropped,
                   call, file, notice, left, seen>>

OpenStream(t) ==
    /\ pc[t] = "port"
    /\ portLock = NoTask
    /\ printf = 0
    /\ portLock' = t
    /\ \E n \in 1 .. MaxOpens :
          /\ n \notin opened
          /\ opened' = opened \cup {n}
          /\ mine' = [mine EXCEPT ![t] = n]
    /\ Goto(t, "unbuffer")
    /\ UNCHANGED <<build, initMutex, emitLock, fileLock, printf, cookie, stdio, dropped,
                   call, file, notice, left, seen>>

\* fopencookie or funopen returned NULL: ON9LOG_ERR_NO_MEM.
OpenFails(t) ==
    /\ pc[t] = "port"
    /\ portLock = NoTask
    /\ printf = 0
    /\ Return(t)
    /\ UNCHANGED <<build, locks, text, stdio, dropped, mine, notice, left, seen>>

\* setvbuf failed: the stream is closed again.
UnbufferFails(t) ==
    /\ pc[t] = "unbuffer"
    /\ opened' = opened \ {mine[t]}
    /\ mine' = [mine EXCEPT ![t] = 0]
    /\ portLock' = NoTask
    /\ Return(t)
    /\ UNCHANGED <<build, initMutex, emitLock, fileLock, printf, cookie, stdio, dropped,
                   notice, left, seen>>

PublishStream(t) ==
    /\ pc[t] = "unbuffer"
    /\ printf' = mine[t]
    /\ mine' = [mine EXCEPT ![t] = 0]
    /\ Goto(t, "published")
    /\ UNCHANGED <<build, locks, opened, cookie, stdio, dropped, call, file, notice, left, seen>>

InitUnlock(t) ==
    /\ pc[t] = "published"
    /\ portLock' = NoTask
    /\ InitDone(t)
    /\ UNCHANGED <<build, initMutex, emitLock, fileLock, text, stdio, dropped,
                   mine, notice, left, seen>>

-----------------------------------------------------------------------------
(***************************************************************************)
(* The rest of on9log_unix_stdio_init_file.                                *)
(***************************************************************************)
MutexLock(t) ==
    /\ pc[t] = "mutex"
    /\ initMutex = NoTask
    /\ initMutex' = t
    /\ Goto(t, "claim")
    /\ UNCHANGED <<build, portLock, emitLock, fileLock, text, stdio, dropped, locals, seen>>

\* The sink has a FILE: fine if it is the same one, an error if not.
StdioAgain(t) ==
    /\ pc[t] = "claim"
    /\ stream # NoFile
    /\ initMutex' = NoTask
    /\ granted' = [granted EXCEPT ![t] = IF stream = file[t] THEN stream ELSE @]
    /\ Return(t)
    /\ UNCHANGED <<build, portLock, emitLock, fileLock, text, stdio, dropped,
                   mine, notice, left, tail, described>>

\* Mutant of StdioClaim: the mutex guards the pointer only.
StdioClaimUnlocks(t) ==
    /\ pc[t] = "claim"
    /\ stream = NoFile
    /\ stream' = file[t]
    /\ initMutex' = NoTask
    /\ Goto(t, "add")
    /\ UNCHANGED <<build, portLock, emitLock, fileLock, text, sink, failed, frame, dropFrame,
                   dropped, locals, seen>>

StdioClaim(t) ==
    /\ pc[t] = "claim"
    /\ stream = NoFile
    /\ stream' = file[t]
    /\ Goto(t, "add")
    /\ UNCHANGED <<build, locks, text, sink, failed, frame, dropFrame, dropped, locals, seen>>

\* on9log_add_sink, which takes the emit lock and gives it back.
AddSink(t) ==
    /\ pc[t] = "add"
    /\ emitLock = NoTask
    /\ sink' = TRUE
    /\ Goto(t, IF build = "macos" THEN "slide" ELSE "installed")
    /\ UNCHANGED <<build, locks, text, stream, failed, frame, dropFrame, dropped, locals, seen>>

\* Mutant of AddSinkFails: the early return keeps the mutex.
AddSinkFailsLocked(t) ==
    /\ pc[t] = "add"
    /\ emitLock = NoTask
    /\ stream' = NoFile
    /\ Return(t)
    /\ UNCHANGED <<build, locks, text, sink, failed, frame, dropFrame,
                   dropped, mine, notice, left, seen>>

\* Other sinks fill the table.
AddSinkFails(t) ==
    /\ pc[t] = "add"
    /\ emitLock = NoTask
    /\ stream' = NoFile
    /\ initMutex' = NoTask
    /\ Return(t)
    /\ UNCHANGED <<build, portLock, emitLock, fileLock, text, sink, failed, frame, dropFrame,
                   dropped, mine, notice, left, seen>>

\* on9log_unix_write_image_metadata: one fprintf with the FILE locked around it.
WriteImageMetadata(t) ==
    /\ pc[t] = "slide"
    /\ fileLock[file[t]] = NoTask
    /\ tail' = [tail EXCEPT ![file[t]] = Piece(t, "slide")]
    /\ described' = described \cup {file[t]}
    /\ Goto(t, "installed")
    /\ UNCHANGED <<build, locks, text, stdio, dropped, locals, granted>>

StdioInstalled(t) ==
    /\ pc[t] = "installed"
    /\ initMutex' = NoTask
    /\ granted' = [granted EXCEPT ![t] = file[t]]
    /\ Return(t)
    /\ UNCHANGED <<build, portLock, emitLock, fileLock, text, stdio, dropped,
                   mine, notice, left, tail, described>>

-----------------------------------------------------------------------------
(***************************************************************************)
(* Log calls: "printf" is ON9_LOGx, which the plain-text build formats     *)
(* with vfprintf; "direct" is every call whose text or bytes need no       *)
(* printf stream ({} formats, buffers, packets); "boot" announces no drop. *)
(***************************************************************************)
BeginLog(t, fn) ==
    /\ pc[t] = "idle"
    /\ build = "text" /\ fn = "printf" => printf # 0
    /\ call' = [call EXCEPT ![t] = fn]
    /\ Goto(t, IF fn = "boot" THEN "open" ELSE "take")
    /\ UNCHANGED <<build, locks, text, stdio, dropped, file, mine, notice, left, seen>>

\* on9log_vwrite before on9log_init: the message is lost and counted.
LogTooEarly(t) ==
    /\ pc[t] = "idle"
    /\ build = "text" /\ printf = 0
    /\ dropped < MaxDropped
    /\ dropped' = dropped + 1
    /\ UNCHANGED <<build, locks, text, stdio, pc, locals, seen>>

TakeDropped(t) ==
    /\ pc[t] = "take"
    /\ notice' = [notice EXCEPT ![t] = dropped # 0]
    /\ dropped' = 0
    /\ Goto(t, "open")
    /\ UNCHANGED <<build, locks, text, stdio, call, file, mine, left, seen>>

\* on9log_stream_open
StreamOpen(t) ==
    /\ pc[t] = "open"
    /\ emitLock = NoTask
    /\ emitLock' = t
    /\ Goto(t, "start")
    /\ UNCHANGED <<build, portLock, initMutex, fileLock, text, stdio, dropped, locals, seen>>

Numbers == 0 .. MaxParts

\* Mutant of StartCb: the emit lock is taken to be enough.
StartCbUnlocked(t) ==
    /\ pc[t] = "start"
    /\ failed' = (failed /\ ~sink)
    /\ frame' = IF sink /\ build # "text" THEN 1 ELSE frame
    /\ dropFrame' = (dropFrame /\ ~(sink /\ build # "text"))
    /\ \E n \in Numbers : left' = [left EXCEPT ![t] = n]
    /\ Goto(t, IF build = "text" THEN "prefix" ELSE "payload")
    /\ UNCHANGED <<build, locks, text, stream, sink, dropped,
                   call, file, mine, notice, seen>>

\* on9log_unix_stdio_start, if the sink is registered; then the first bytes.
StartCb(t) ==
    /\ pc[t] = "start"
    /\ sink => fileLock[stream] = NoTask
    /\ fileLock' = IF sink THEN [fileLock EXCEPT ![stream] = t] ELSE fileLock
    /\ failed' = (failed /\ ~sink)
    /\ frame' = IF sink /\ build # "text" THEN 1 ELSE frame
    /\ dropFrame' = (dropFrame /\ ~(sink /\ build # "text"))
    /\ \E n \in Numbers : left' = [left EXCEPT ![t] = n]
    /\ Goto(t, IF build = "text" THEN "prefix" ELSE "payload")
    /\ UNCHANGED <<build, portLock, initMutex, emitLock, text, stream, sink, dropped,
                   call, file, mine, notice, seen>>

\* A piece of by's line reaches the FILE, unless a piece before it did not.
Put(by, at) ==
    tail' = IF sink /\ ~failed THEN [tail EXCEPT ![stream] = Piece(by, at)] ELSE tail

\* fwrite or fputc fails: the rest of the line is not written.
WriteFails(t) ==
    /\ pc[t] \in {"prefix", "print", "direct", "suffix", "frame", "tailbyte"}
    /\ sink /\ ~failed
    /\ failed' = TRUE
    /\ tail' = [tail EXCEPT ![stream] = Piece(t, "cut")]
    /\ UNCHANGED <<build, locks, text, stream, sink, frame, dropFrame, dropped, pc, locals,
                   described, granted>>

-----------------------------------------------------------------------------
(***************************************************************************)
(* Plain text: on9log_dispatch_text_line.                                  *)
(***************************************************************************)
WritePrefix(t) ==
    /\ pc[t] = "prefix"
    /\ Put(t, "begin")
    /\ Goto(t, IF call[t] = "printf" /\ ~notice[t] THEN "format" ELSE "direct")
    /\ UNCHANGED <<build, locks, text, stdio, dropped, locals, described, granted>>

(***************************************************************************)
(* on9log_printf_formatter.  The lock of the printf stream is not modelled *)
(* apart: only the holder of the emit lock comes here.                     *)
(***************************************************************************)
SetCookie(t) ==
    /\ pc[t] = "format"
    /\ cookie' = t
    /\ Goto(t, "print")
    /\ UNCHANGED <<build, locks, printf, opened, stdio, dropped, locals, seen>>

\* vfprintf calls on9log_printf_cookie_write, which writes where the cookie says.
PrintPart(t) ==
    /\ pc[t] = "print"
    /\ left[t] > 0
    /\ Put(cookie, "middle")
    /\ left' = [left EXCEPT ![t] = @ - 1]
    /\ UNCHANGED <<build, locks, text, stdio, dropped, pc, call, file, mine, notice,
                   described, granted>>

ClearCookie(t) ==
    /\ pc[t] = "print"
    /\ left[t] = 0
    /\ cookie' = NoTask
    /\ Goto(t, "suffix")
    /\ UNCHANGED <<build, locks, printf, opened, stdio, dropped, locals, seen>>

\* Any other formatter, a piece at a time.
DirectPart(t) ==
    /\ pc[t] = "direct"
    /\ left[t] > 0
    /\ Put(t, "middle")
    /\ left' = [left EXCEPT ![t] = @ - 1]
    /\ UNCHANGED <<build, locks, text, stdio, dropped, pc, call, file, mine, notice,
                   described, granted>>

DirectDone(t) ==
    /\ pc[t] = "direct"
    /\ left[t] = 0
    /\ Goto(t, "suffix")
    /\ UNCHANGED <<build, locks, text, stdio, dropped, locals, seen>>

WriteSuffix(t) ==
    /\ pc[t] = "suffix"
    /\ Put(t, "end")
    /\ Goto(t, "flush")
    /\ UNCHANGED <<build, locks, text, stdio, dropped, locals, described, granted>>

-----------------------------------------------------------------------------
(***************************************************************************)
(* Binary: the packet is collected and written as one frame by end_cb.     *)
(***************************************************************************)
\* Mutant of PayloadCb: the copy is not bounded by the buffer.
PayloadCbUnbounded(t) ==
    /\ pc[t] = "payload"
    /\ left[t] > 0
    /\ left' = [left EXCEPT ![t] = @ - 1]
    /\ frame' = IF sink THEN frame + 1 ELSE frame
    /\ UNCHANGED <<build, locks, text, stream, sink, failed, dropFrame, dropped, pc, call, file, mine,
                   notice, seen>>

PayloadCb(t) ==
    /\ pc[t] = "payload"
    /\ left[t] > 0
    /\ left' = [left EXCEPT ![t] = @ - 1]
    /\ dropFrame' = (dropFrame \/ (sink /\ frame = FrameMax))
    /\ frame' = IF ~sink \/ dropFrame THEN frame ELSE IF frame = FrameMax THEN 0 ELSE frame + 1
    /\ UNCHANGED <<build, locks, text, stream, sink, failed, dropped, pc, call, file, mine,
                   notice, seen>>

EndCb(t) ==
    /\ pc[t] = "payload"
    /\ left[t] = 0
    /\ Goto(t, IF sink /\ ~dropFrame THEN "frame" ELSE "flush")
    /\ UNCHANGED <<build, locks, text, stdio, dropped, locals, seen>>

WriteFrame(t) ==
    /\ pc[t] = "frame"
    /\ Put(t, "begin")
    /\ Goto(t, "tailbyte")
    /\ UNCHANGED <<build, locks, text, stdio, dropped, locals, described, granted>>

\* The checksum and FRAME_END.
WriteFrameEnd(t) ==
    /\ pc[t] = "tailbyte"
    /\ Put(t, "end")
    /\ Goto(t, "flush")
    /\ UNCHANGED <<build, locks, text, stdio, dropped, locals, described, granted>>

-----------------------------------------------------------------------------
\* fflush and funlockfile.
Flush(t) ==
    /\ pc[t] = "flush"
    /\ fileLock' = IF sink THEN [fileLock EXCEPT ![stream] = NoTask] ELSE fileLock
    /\ Goto(t, "unlock")
    /\ UNCHANGED <<build, portLock, initMutex, emitLock, text, stdio, dropped, locals, seen>>

\* The emit lock is released; after the notice comes the line itself.
StreamEnd(t) ==
    /\ pc[t] = "unlock"
    /\ emitLock' = NoTask
    /\ notice' = [notice EXCEPT ![t] = FALSE]
    /\ IF notice[t] THEN Goto(t, "open") /\ UNCHANGED <<call, file>> ELSE Return(t)
    /\ UNCHANGED <<build, portLock, initMutex, fileLock, text, stdio, dropped, mine, left, seen>>

\* A thread prints with stdio, which locks the FILE for the length of the call.
AppPrints(t, f) ==
    /\ pc[t] = "idle"
    /\ fileLock[f] = NoTask
    /\ tail' = [tail EXCEPT ![f] = Piece(t, "app")]
    /\ UNCHANGED <<build, locks, text, stdio, dropped, pc, locals, described, granted>>

Begin(t) ==
    \/ BeginInit(t)
    \/ \E f \in File : BeginStdio(t, f)
    \/ \E fn \in {"printf", "direct", "boot"} : BeginLog(t, fn)

Initialising(t) ==
    \/ InitReady(t) \/ InitLock(t) \/ InitLost(t) \/ OpenStream(t) \/ OpenFails(t)
    \/ UnbufferFails(t) \/ PublishStream(t) \/ InitUnlock(t)
    \/ MutexLock(t) \/ StdioAgain(t) \/ StdioClaim(t) \/ AddSink(t) \/ AddSinkFails(t)
    \/ WriteImageMetadata(t) \/ StdioInstalled(t)

Logging(t) ==
    \/ TakeDropped(t) \/ StreamOpen(t) \/ StartCb(t)
    \/ WritePrefix(t) \/ SetCookie(t) \/ PrintPart(t) \/ ClearCookie(t)
    \/ DirectPart(t) \/ DirectDone(t) \/ WriteSuffix(t)
    \/ PayloadCb(t) \/ EndCb(t) \/ WriteFrame(t) \/ WriteFrameEnd(t)
    \/ Flush(t) \/ StreamEnd(t)

InCall(t) == Initialising(t) \/ Logging(t)

Next ==
    \E t \in Task :
       \/ Begin(t) \/ InCall(t)
       \/ LogTooEarly(t) \/ WriteFails(t)
       \/ \E f \in Shared : AppPrints(t, f)

Spec == Init /\ [][Next]_vars

\* A thread inside a call is run again: pthreads, and FILE locks nobody keeps.
LiveSpec == Spec /\ \A t \in Task : WF_vars(InCall(t))

-----------------------------------------------------------------------------
PC == {"idle", "init", "port", "unbuffer", "published", "mutex", "claim", "add", "slide",
       "installed", "take", "open", "start", "prefix", "format", "print", "direct", "suffix",
       "payload", "frame", "tailbyte", "flush", "unlock"}

\* Every variable holds a value of its kind.
TypeOK ==
    /\ build \in {"text", "linux", "macos"}
    /\ {portLock, initMutex, emitLock, cookie} \subseteq Task \cup {NoTask}
    /\ fileLock \in [File -> Task \cup {NoTask}]
    /\ printf \in 0 .. MaxOpens /\ opened \subseteq 1 .. MaxOpens
    /\ stream \in File \cup {NoFile}
    /\ {sink, failed, dropFrame} \subseteq BOOLEAN
    /\ frame \in 0 .. FrameMax
    /\ dropped \in 0 .. MaxDropped
    /\ pc \in [Task -> PC]
    /\ call \in [Task -> {"none", "init", "stdio", "printf", "direct", "boot"}]
    /\ file \in [Task -> File \cup {NoFile}]
    /\ mine \in [Task -> 0 .. MaxOpens]
    /\ notice \in [Task -> BOOLEAN]
    /\ left \in [Task -> 0 .. MaxParts]
    /\ tail \in [File -> [by : Task \cup {NoTask},
                         at : {"none", "app", "slide", "begin", "middle", "end", "cut"}]]
    /\ described \subseteq File
    /\ granted \in [Task -> File \cup {NoFile}]

-----------------------------------------------------------------------------
\* Piece b may be written right after piece a.
MayFollow(a, b) ==
    IF b.at \in {"middle", "end"} THEN a.at \in {"begin", "middle"} /\ a.by = b.by
    ELSE IF b.at = "cut" THEN a.at \in {"begin", "middle"} => a.by = b.by
    ELSE a.at \notin {"begin", "middle"}

(***************************************************************************)
(* A log line or frame stands on its FILE in one piece: nothing another    *)
(* thread logs or prints, no image-slide line and no second copy of the    *)
(* line comes between its parts, and after a write that failed the rest of *)
(* the line is left out instead of leaving a hole in it.                   *)
(***************************************************************************)
LinesAreWhole ==
    [][\A f \in File : tail'[f] # tail[f] => MayFollow(tail[f], tail'[f])]_tail

(***************************************************************************)
(* on9log_unix_stdio_init_file returns ON9LOG_OK only when the sink is in  *)
(* the table and writes to the FILE that was passed, and it stays so:      *)
(* also for the thread that came second and found the FILE set, and        *)
(* whatever failed for others before or after.                             *)
(***************************************************************************)
OkMeansInstalled ==
    \A t \in Task : granted[t] # NoFile => sink /\ stream = granted[t]

\* Task t has opened a printf stream and has not published it yet.
Opening == {mine[t] : t \in Task} \ {0}

(***************************************************************************)
(* However calls of on9log_init overlap and fail, no printf stream is left *)
(* open but the published one and the one an unfinished call is working    *)
(* on, and the published one is never closed.                              *)
(***************************************************************************)
NoStreamLeaks ==
    /\ opened = Opening \cup ({printf} \ {0})
    /\ printf # 0 => Opening = {}

\* From some time on no thread begins another call.
CallsEnd == <>[][\A t \in Task : pc[t] = "idle" => pc'[t] = "idle"]_pc

(***************************************************************************)
(* The four kinds of lock are never waited for in a circle, and no early   *)
(* return keeps one: when threads stop making new calls, every call that   *)
(* is under way returns.                                                   *)
(***************************************************************************)
CallsReturn ==
    CallsEnd => \A t \in Task : pc[t] # "idle" ~> pc[t] = "idle"

(***************************************************************************)
(* What the README says and the code does not do: on macOS the image-slide *)
(* line comes before the frames whose IDs it explains.                     *)
(***************************************************************************)
MetadataLeads ==
    \A f \in File :
       build = "macos" /\ tail[f].at \in {"begin", "end"} => f \in described

=============================================================================
