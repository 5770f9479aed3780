-------------------------- MODULE UnixStdioProofs ---------------------------
(***************************************************************************)
(* The stdio sink for Unix, for any number of threads and FILEs: a line    *)
(* stands on its FILE in one piece, init_file says ON9LOG_OK only for the  *)
(* FILE that is installed, and no printf stream leaks.                     *)
(***************************************************************************)
EXTENDS UnixStdio, TLAPS

\* The places where a thread holds each lock.
InPort    == {"unbuffer", "published"}
InMutex   == {"claim", "add", "slide", "installed"}
InLine    == {"format", "print", "direct", "suffix", "tailbyte"}
InFile    == InLine \cup {"prefix", "payload", "frame", "flush"}
InEmit    == InFile \cup {"start", "unlock"}

(***************************************************************************)
(* Each of the three global locks is held exactly where the code is        *)
(* between taking it and giving it back.                                   *)
(***************************************************************************)
LocksHeld ==
    \A t \in Task :
       /\ portLock = t <=> pc[t] \in InPort
       /\ initMutex = t <=> pc[t] \in InMutex
       /\ emitLock = t <=> pc[t] \in InEmit

\* A thread has a stream of its own only between fopencookie and the assignment.
Streams ==
    /\ \A t \in Task :
          IF pc[t] = "unbuffer" THEN printf = 0 /\ mine[t] # 0 /\ opened = {mine[t]}
                                ELSE mine[t] = 0
    /\ portLock = NoTask => opened = {printf} \ {0}
    /\ \A t \in Task : pc[t] = "published" => printf # 0 /\ opened = {printf}

\* The FILE is set before the sink is added, and taken back if that fails.
Installing ==
    /\ sink => stream # NoFile
    /\ stream # NoFile => sink \/ \E t \in Task : pc[t] = "add"
    /\ \A t \in Task :
          /\ pc[t] \in InMutex \cup {"mutex"} => file[t] \in File
          /\ pc[t] \in {"init", "port"} \cup InPort => call[t] \in {"init", "stdio"}
          /\ call[t] = "stdio" => file[t] \in File
          /\ pc[t] = "add" => ~sink /\ stream = file[t]
          /\ pc[t] \in {"slide", "installed"} => sink /\ stream = file[t]

\* The thread that holds a FILE is the one whose line is under way, if the sink is there.
FilesHeld ==
    /\ \A t \in Task : pc[t] \in InFile /\ sink => fileLock[stream] = t
    /\ \A f \in File :
          fileLock[f] # NoTask => sink /\ f = stream /\ pc[fileLock[f]] \in InFile
    /\ \A t \in Task : pc[t] = "print" => cookie = t

\* Has a line begun on f and not ended?
Open(f) == tail[f].at \in {"begin", "middle"}

(***************************************************************************)
(* A line that has begun and not ended belongs to the thread that has the  *)
(* FILE locked, and that thread is between the first and the last piece.   *)
(***************************************************************************)
OpenLines ==
    /\ \A f \in File :
          Open(f) => /\ fileLock[f] \in Task /\ tail[f].by = fileLock[f]
                     /\ pc[fileLock[f]] \in InLine /\ ~failed
    /\ \A t \in Task : pc[t] \in InLine /\ sink /\ ~failed => Open(stream)

SinkInv == TypeOK /\ LocksHeld /\ Streams /\ Installing /\ FilesHeld /\ OpenLines /\ OkMeansInstalled

\* The pieces of lines that can stand last on a FILE.
Pieces == [by : Task \cup {NoTask},
           at : {"none", "app", "slide", "begin", "middle", "end", "cut"}]

\* What a thread may do next.
Step(t) ==
    \/ Begin(t) \/ InCall(t) \/ LogTooEarly(t) \/ WriteFails(t)
    \/ \E f \in Shared : AppPrints(t, f)

USE UnixStdioAssumption DEF locks, text, stdio, locals, seen, Goto, Return, InitDone

-----------------------------------------------------------------------------
\* Each step leaves every variable in its set.
LEMMA TypeStep ==
    ASSUME TypeOK, Installing, NEW t \in Task, Step(t) PROVE TypeOK'
<1>1. CASE \E f \in File : BeginStdio(t, f)
  BY <1>1 DEF BeginStdio, TypeOK, PC, Put, Piece, Numbers
<1>2. CASE \E fn \in {"printf", "direct", "boot"} : BeginLog(t, fn)
  BY <1>2 DEF BeginLog, TypeOK, PC, Put, Piece, Numbers
<1>3. CASE \E f \in Shared : AppPrints(t, f)
  BY <1>3 DEF AppPrints, TypeOK, PC, Put, Piece, Numbers
<1>4. CASE BeginInit(t)
  BY <1>4 DEF BeginInit, TypeOK, PC, Put, Piece, Numbers
<1>5. CASE InitLock(t)
  BY <1>5 DEF InitLock, TypeOK, PC, Put, Piece, Numbers
<1>6. CASE InitReady(t) \/ InitLost(t)
  BY <1>6, ZenonT(40) DEF InitReady, InitLost, TypeOK, PC, Put, Piece, Numbers
<1>7. CASE OpenStream(t)
  BY <1>7 DEF OpenStream, TypeOK, PC, Put, Piece, Numbers
<1>8. CASE OpenFails(t)
  BY <1>8 DEF OpenFails, TypeOK, PC, Put, Piece, Numbers
<1>9. CASE UnbufferFails(t)
  <2>1. opened' \subseteq 1 .. MaxOpens
    BY <1>9 DEF UnbufferFails, TypeOK
  <2>2. MaxOpens \in Nat
    OBVIOUS
  <2>3. mine' \in [Task -> 0 .. MaxOpens]
    BY <1>9, <2>2 DEF UnbufferFails, TypeOK
  <2> QED
    BY <1>9, <2>1, <2>3 DEF UnbufferFails, TypeOK, PC
<1>10. CASE PublishStream(t)
  BY <1>10 DEF PublishStream, TypeOK, PC, Put, Piece, Numbers
<1>11. CASE InitUnlock(t)
  BY <1>11, SMTT(40) DEF InitUnlock, TypeOK, PC, Put, Piece, Numbers
<1>12. CASE MutexLock(t)
  BY <1>12 DEF MutexLock, TypeOK, PC, Put, Piece, Numbers
<1>13. CASE StdioAgain(t)
  BY <1>13 DEF StdioAgain, TypeOK, PC, Put, Piece, Numbers
<1>14. CASE StdioClaim(t)
  BY <1>14 DEF StdioClaim, TypeOK, PC, Put, Piece, Numbers
<1>15. CASE AddSink(t)
  BY <1>15 DEF AddSink, TypeOK, PC, Put, Piece, Numbers
<1>16. CASE AddSinkFails(t)
  BY <1>16 DEF AddSinkFails, TypeOK, PC, Put, Piece, Numbers
<1>17. CASE WriteImageMetadata(t)
  <2>1. file[t] \in File
    BY <1>17 DEF WriteImageMetadata, Installing, InMutex
  <2>2. tail' \in [File -> Pieces] /\ described' \subseteq File
    BY <1>17, <2>1 DEF WriteImageMetadata, TypeOK, Piece, Pieces
  <2> QED
    BY <1>17, <2>2 DEF WriteImageMetadata, TypeOK, PC, Pieces
<1>18. CASE StdioInstalled(t)
  BY <1>18 DEF StdioInstalled, TypeOK, PC, Put, Piece, Numbers
<1>19. CASE LogTooEarly(t)
  BY <1>19 DEF LogTooEarly, TypeOK, PC, Put, Piece, Numbers
<1>20. CASE TakeDropped(t)
  BY <1>20 DEF TakeDropped, TypeOK, PC, Put, Piece, Numbers
<1>21. CASE StreamOpen(t)
  BY <1>21 DEF StreamOpen, TypeOK, PC, Put, Piece, Numbers
<1>22. CASE StartCb(t)
  <2>1. fileLock' \in [File -> Task \cup {NoTask}]
    BY <1>22 DEF StartCb, TypeOK
  <2>3. left' \in [Task -> 0 .. MaxParts]
    BY <1>22 DEF StartCb, TypeOK, Numbers
  <2>2. {sink, failed, dropFrame}' \subseteq BOOLEAN /\ frame' \in 0 .. FrameMax
    BY <1>22 DEF StartCb, TypeOK
  <2> QED
    BY <1>22, <2>1, <2>2, <2>3 DEF StartCb, TypeOK, PC
<1>23. CASE WritePrefix(t)
  BY <1>23 DEF WritePrefix, TypeOK, PC, Put, Piece, Numbers
<1>24. CASE SetCookie(t)
  BY <1>24 DEF SetCookie, TypeOK, PC, Put, Piece, Numbers
<1>25. CASE PrintPart(t)
  <2>1. tail' \in [File -> Pieces]
    BY <1>25 DEF PrintPart, TypeOK, Put, Piece, Pieces
  <2>2. left' \in [Task -> 0 .. MaxParts]
    BY <1>25 DEF PrintPart, TypeOK
  <2> QED
    BY <1>25, <2>1, <2>2 DEF PrintPart, TypeOK, PC, Pieces
<1>26. CASE ClearCookie(t)
  BY <1>26 DEF ClearCookie, TypeOK, PC, Put, Piece, Numbers
<1>27. CASE DirectPart(t)
  <2>1. tail' \in [File -> Pieces]
    BY <1>27 DEF DirectPart, TypeOK, Put, Piece, Pieces
  <2>2. left' \in [Task -> 0 .. MaxParts]
    BY <1>27 DEF DirectPart, TypeOK
  <2> QED
    BY <1>27, <2>1, <2>2 DEF DirectPart, TypeOK, PC, Pieces
<1>28. CASE DirectDone(t)
  BY <1>28 DEF DirectDone, TypeOK, PC, Put, Piece, Numbers
<1>29. CASE WriteSuffix(t)
  BY <1>29 DEF WriteSuffix, TypeOK, PC, Put, Piece, Numbers
<1>30. CASE PayloadCb(t)
  BY <1>30 DEF PayloadCb, TypeOK, PC, Put, Piece, Numbers
<1>31. CASE EndCb(t)
  BY <1>31 DEF EndCb, TypeOK, PC, Put, Piece, Numbers
<1>32. CASE WriteFrame(t)
  BY <1>32 DEF WriteFrame, TypeOK, PC, Put, Piece, Numbers
<1>33. CASE WriteFrameEnd(t)
  BY <1>33 DEF WriteFrameEnd, TypeOK, PC, Put, Piece, Numbers
<1>34. CASE Flush(t)
  BY <1>34 DEF Flush, TypeOK, PC, Put, Piece, Numbers
<1>35. CASE StreamEnd(t)
  BY <1>35 DEF StreamEnd, TypeOK, PC, Put, Piece, Numbers
<1>36. CASE WriteFails(t)
  BY <1>36 DEF WriteFails, TypeOK, PC, Put, Piece, Numbers
<1> QED
  BY <1>1, <1>2, <1>3, <1>4, <1>5, <1>6, <1>7, <1>8, <1>9, <1>10, <1>11, <1>12, <1>13, <1>14,
     <1>15, <1>16, <1>17, <1>18, <1>19, <1>20, <1>21, <1>22, <1>23, <1>24, <1>25, <1>26, <1>27,
     <1>28, <1>29, <1>30, <1>31, <1>32, <1>33, <1>34, <1>35, <1>36 DEF Step, Begin, InCall,
     Initialising, Logging

\* Each step takes or gives back at most the lock that its place says.
LEMMA LocksStep ==
    ASSUME TypeOK, LocksHeld, NEW t \in Task, Step(t) PROVE LocksHeld'
<1>1. CASE \E f \in File : BeginStdio(t, f)
  BY <1>1 DEF BeginStdio, TypeOK, LocksHeld, InPort, InMutex, InEmit, InFile, InLine
<1>2. CASE \E fn \in {"printf", "direct", "boot"} : BeginLog(t, fn)
  BY <1>2 DEF BeginLog, TypeOK, LocksHeld, InPort, InMutex, InEmit, InFile, InLine
<1>3. CASE \E f \in Shared : AppPrints(t, f)
  BY <1>3 DEF AppPrints, TypeOK, LocksHeld, InPort, InMutex, InEmit, InFile, InLine
<1>4. CASE BeginInit(t) \/ InitLock(t) \/ InitReady(t) \/ InitLost(t) \/ OpenFails(t)
  BY <1>4 DEF BeginInit, InitLock, InitReady, InitLost, OpenFails, TypeOK, LocksHeld, InPort,
     InMutex, InEmit, InFile, InLine
<1>5. CASE OpenStream(t)
  BY <1>5 DEF OpenStream, TypeOK, LocksHeld, InPort, InMutex, InEmit, InFile, InLine
<1>6. CASE UnbufferFails(t)
  BY <1>6 DEF UnbufferFails, TypeOK, LocksHeld, InPort, InMutex, InEmit, InFile, InLine
<1>7. CASE PublishStream(t) \/ InitUnlock(t)
  BY <1>7 DEF PublishStream, InitUnlock, TypeOK, LocksHeld, InPort, InMutex, InEmit, InFile,
     InLine
<1>8. CASE MutexLock(t) \/ StdioAgain(t) \/ StdioClaim(t)
  BY <1>8 DEF MutexLock, StdioAgain, StdioClaim, TypeOK, LocksHeld, InPort, InMutex, InEmit,
     InFile, InLine
<1>9. CASE AddSink(t) \/ AddSinkFails(t)
  BY <1>9 DEF AddSink, AddSinkFails, TypeOK, LocksHeld, InPort, InMutex, InEmit, InFile, InLine
<1>10. CASE WriteImageMetadata(t) \/ StdioInstalled(t)
  BY <1>10 DEF WriteImageMetadata, StdioInstalled, TypeOK, LocksHeld, InPort, InMutex, InEmit,
     InFile, InLine
<1>11. CASE LogTooEarly(t) \/ TakeDropped(t) \/ StreamOpen(t)
  BY <1>11 DEF LogTooEarly, TakeDropped, StreamOpen, TypeOK, LocksHeld, InPort, InMutex, InEmit,
     InFile, InLine
<1>12. CASE StartCb(t)
  BY <1>12 DEF StartCb, TypeOK, LocksHeld, InPort, InMutex, InEmit, InFile, InLine
<1>13. CASE WritePrefix(t) \/ WriteSuffix(t)
  BY <1>13 DEF WritePrefix, WriteSuffix, TypeOK, LocksHeld, InPort, InMutex, InEmit, InFile,
     InLine
<1>14. CASE WriteFrame(t) \/ WriteFrameEnd(t)
  BY <1>14 DEF WriteFrame, WriteFrameEnd, TypeOK, LocksHeld, InPort, InMutex, InEmit, InFile,
     InLine
<1>15. CASE SetCookie(t) \/ ClearCookie(t) \/ DirectDone(t) \/ EndCb(t)
  BY <1>15 DEF SetCookie, ClearCookie, DirectDone, EndCb, TypeOK, LocksHeld, InPort, InMutex,
     InEmit, InFile, InLine
<1>16. CASE PrintPart(t) \/ DirectPart(t)
  BY <1>16 DEF PrintPart, DirectPart, TypeOK, LocksHeld, InPort, InMutex, InEmit, InFile, InLine
<1>17. CASE PayloadCb(t)
  BY <1>17 DEF PayloadCb, TypeOK, LocksHeld, InPort, InMutex, InEmit, InFile, InLine
<1>18. CASE Flush(t) \/ StreamEnd(t)
  BY <1>18 DEF Flush, StreamEnd, TypeOK, LocksHeld, InPort, InMutex, InEmit, InFile, InLine
<1>19. CASE WriteFails(t)
  BY <1>19 DEF WriteFails, TypeOK, LocksHeld, InPort, InMutex, InEmit, InFile, InLine
<1> QED
  BY <1>1, <1>2, <1>3, <1>4, <1>5, <1>6, <1>7, <1>8, <1>9, <1>10, <1>11, <1>12, <1>13, <1>14,
     <1>15, <1>16, <1>17, <1>18, <1>19 DEF Step, Begin, InCall, Initialising, Logging

\* Each step keeps the account of the printf streams.
LEMMA StreamsStep ==
    ASSUME TypeOK, LocksHeld, Streams, NEW t \in Task, Step(t) PROVE Streams'
<1>1. CASE \E f \in File : BeginStdio(t, f)
  BY <1>1 DEF BeginStdio, TypeOK, LocksHeld, Streams, InPort
<1>2. CASE \E fn \in {"printf", "direct", "boot"} : BeginLog(t, fn)
  BY <1>2 DEF BeginLog, TypeOK, LocksHeld, Streams, InPort
<1>3. CASE \E f \in Shared : AppPrints(t, f)
  BY <1>3 DEF AppPrints, TypeOK, LocksHeld, Streams, InPort
<1>4. CASE BeginInit(t) \/ InitLock(t) \/ InitReady(t) \/ InitLost(t) \/ OpenFails(t)
  BY <1>4 DEF BeginInit, InitLock, InitReady, InitLost, OpenFails, TypeOK, LocksHeld, Streams,
     InPort
<1>5. CASE OpenStream(t)
  BY <1>5 DEF OpenStream, TypeOK, LocksHeld, Streams, InPort
<1>6. CASE UnbufferFails(t)
  BY <1>6 DEF UnbufferFails, TypeOK, LocksHeld, Streams, InPort
<1>7. CASE PublishStream(t) \/ InitUnlock(t)
  BY <1>7 DEF PublishStream, InitUnlock, TypeOK, LocksHeld, Streams, InPort
<1>8. CASE MutexLock(t) \/ StdioAgain(t) \/ StdioClaim(t)
  BY <1>8 DEF MutexLock, StdioAgain, StdioClaim, TypeOK, LocksHeld, Streams, InPort
<1>9. CASE AddSink(t) \/ AddSinkFails(t)
  BY <1>9 DEF AddSink, AddSinkFails, TypeOK, LocksHeld, Streams, InPort
<1>10. CASE WriteImageMetadata(t) \/ StdioInstalled(t)
  BY <1>10 DEF WriteImageMetadata, StdioInstalled, TypeOK, LocksHeld, Streams, InPort
<1>11. CASE LogTooEarly(t) \/ TakeDropped(t) \/ StreamOpen(t)
  BY <1>11 DEF LogTooEarly, TakeDropped, StreamOpen, TypeOK, LocksHeld, Streams, InPort
<1>12. CASE StartCb(t)
  BY <1>12 DEF StartCb, TypeOK, LocksHeld, Streams, InPort
<1>13. CASE WritePrefix(t) \/ WriteSuffix(t)
  BY <1>13 DEF WritePrefix, WriteSuffix, TypeOK, LocksHeld, Streams, InPort
<1>14. CASE WriteFrame(t) \/ WriteFrameEnd(t)
  BY <1>14 DEF WriteFrame, WriteFrameEnd, TypeOK, LocksHeld, Streams, InPort
<1>15. CASE SetCookie(t) \/ ClearCookie(t) \/ DirectDone(t) \/ EndCb(t)
  BY <1>15 DEF SetCookie, ClearCookie, DirectDone, EndCb, TypeOK, LocksHeld, Streams, InPort
<1>16. CASE PrintPart(t) \/ DirectPart(t)
  BY <1>16 DEF PrintPart, DirectPart, TypeOK, LocksHeld, Streams, InPort
<1>17. CASE PayloadCb(t)
  BY <1>17 DEF PayloadCb, TypeOK, LocksHeld, Streams, InPort
<1>18. CASE Flush(t) \/ StreamEnd(t)
  BY <1>18 DEF Flush, StreamEnd, TypeOK, LocksHeld, Streams, InPort
<1>19. CASE WriteFails(t)
  BY <1>19 DEF WriteFails, TypeOK, LocksHeld, Streams, InPort
<1> QED
  BY <1>1, <1>2, <1>3, <1>4, <1>5, <1>6, <1>7, <1>8, <1>9, <1>10, <1>11, <1>12, <1>13, <1>14,
     <1>15, <1>16, <1>17, <1>18, <1>19 DEF Step, Begin, InCall, Initialising, Logging

\* Only the holder of s_init_mutex sets, keeps or takes back the FILE of the sink.
LEMMA InstallingStep ==
    ASSUME TypeOK, LocksHeld, Installing, NEW t \in Task, Step(t) PROVE Installing'
<1>1. CASE \E f \in File : BeginStdio(t, f)
  BY <1>1 DEF BeginStdio, TypeOK, LocksHeld, Installing, InMutex, InPort
<1>2. CASE \E fn \in {"printf", "direct", "boot"} : BeginLog(t, fn)
  BY <1>2 DEF BeginLog, TypeOK, LocksHeld, Installing, InMutex, InPort
<1>3. CASE \E f \in Shared : AppPrints(t, f)
  BY <1>3 DEF AppPrints, TypeOK, LocksHeld, Installing, InMutex, InPort
<1>4. CASE BeginInit(t) \/ InitLock(t) \/ InitReady(t) \/ InitLost(t) \/ OpenFails(t)
  BY <1>4 DEF BeginInit, InitLock, InitReady, InitLost, OpenFails, TypeOK, LocksHeld,
     Installing, InMutex, InPort
<1>5. CASE OpenStream(t)
  BY <1>5 DEF OpenStream, TypeOK, LocksHeld, Installing, InMutex, InPort
<1>6. CASE UnbufferFails(t)
  BY <1>6 DEF UnbufferFails, TypeOK, LocksHeld, Installing, InMutex, InPort
<1>7. CASE PublishStream(t) \/ InitUnlock(t)
  BY <1>7 DEF PublishStream, InitUnlock, TypeOK, LocksHeld, Installing, InMutex, InPort
<1>8. CASE MutexLock(t) \/ StdioAgain(t) \/ StdioClaim(t)
  BY <1>8 DEF MutexLock, StdioAgain, StdioClaim, TypeOK, LocksHeld, Installing, InMutex, InPort
<1>9. CASE AddSink(t) \/ AddSinkFails(t)
  BY <1>9 DEF AddSink, AddSinkFails, TypeOK, LocksHeld, Installing, InMutex, InPort
<1>10. CASE WriteImageMetadata(t) \/ StdioInstalled(t)
  BY <1>10 DEF WriteImageMetadata, StdioInstalled, TypeOK, LocksHeld, Installing, InMutex, InPort
<1>11. CASE LogTooEarly(t) \/ TakeDropped(t) \/ StreamOpen(t)
  BY <1>11 DEF LogTooEarly, TakeDropped, StreamOpen, TypeOK, LocksHeld, Installing, InMutex,
     InPort
<1>12. CASE StartCb(t)
  BY <1>12 DEF StartCb, TypeOK, LocksHeld, Installing, InMutex, InPort
<1>13. CASE WritePrefix(t) \/ WriteSuffix(t)
  BY <1>13 DEF WritePrefix, WriteSuffix, TypeOK, LocksHeld, Installing, InMutex, InPort
<1>14. CASE WriteFrame(t) \/ WriteFrameEnd(t)
  BY <1>14 DEF WriteFrame, WriteFrameEnd, TypeOK, LocksHeld, Installing, InMutex, InPort
<1>15. CASE SetCookie(t) \/ ClearCookie(t) \/ DirectDone(t) \/ EndCb(t)
  BY <1>15 DEF SetCookie, ClearCookie, DirectDone, EndCb, TypeOK, LocksHeld, Installing,
     InMutex, InPort
<1>16. CASE PrintPart(t) \/ DirectPart(t)
  BY <1>16 DEF PrintPart, DirectPart, TypeOK, LocksHeld, Installing, InMutex, InPort
<1>17. CASE PayloadCb(t)
  BY <1>17 DEF PayloadCb, TypeOK, LocksHeld, Installing, InMutex, InPort
<1>18. CASE Flush(t) \/ StreamEnd(t)
  BY <1>18 DEF Flush, StreamEnd, TypeOK, LocksHeld, Installing, InMutex, InPort
<1>19. CASE WriteFails(t)
  BY <1>19 DEF WriteFails, TypeOK, LocksHeld, Installing, InMutex, InPort
<1> QED
  BY <1>1, <1>2, <1>3, <1>4, <1>5, <1>6, <1>7, <1>8, <1>9, <1>10, <1>11, <1>12, <1>13, <1>14,
     <1>15, <1>16, <1>17, <1>18, <1>19 DEF Step, Begin, InCall, Initialising, Logging

\* The sink is added between lines only, so a FILE locked by start_cb is unlocked by end_cb.
LEMMA FilesStep ==
    ASSUME TypeOK, LocksHeld, Installing, FilesHeld, NEW t \in Task, Step(t) PROVE FilesHeld'
<1>1. CASE \E f \in File : BeginStdio(t, f)
  BY <1>1 DEF BeginStdio, TypeOK, LocksHeld, Installing, FilesHeld, InEmit, InFile, InLine,
     InMutex
<1>2. CASE \E fn \in {"printf", "direct", "boot"} : BeginLog(t, fn)
  BY <1>2 DEF BeginLog, TypeOK, LocksHeld, Installing, FilesHeld, InEmit, InFile, InLine, InMutex
<1>3. CASE \E f \in Shared : AppPrints(t, f)
  BY <1>3 DEF AppPrints, TypeOK, LocksHeld, Installing, FilesHeld, InEmit, InFile, InLine,
     InMutex
<1>4. CASE BeginInit(t) \/ InitLock(t) \/ InitReady(t) \/ InitLost(t) \/ OpenFails(t)
  BY <1>4 DEF BeginInit, InitLock, InitReady, InitLost, OpenFails, TypeOK, LocksHeld,
     Installing, FilesHeld, InEmit, InFile, InLine, InMutex
<1>5. CASE OpenStream(t)
  BY <1>5 DEF OpenStream, TypeOK, LocksHeld, Installing, FilesHeld, InEmit, InFile, InLine,
     InMutex
<1>6. CASE UnbufferFails(t)
  BY <1>6 DEF UnbufferFails, TypeOK, LocksHeld, Installing, FilesHeld, InEmit, InFile, InLine,
     InMutex
<1>7. CASE PublishStream(t) \/ InitUnlock(t)
  BY <1>7 DEF PublishStream, InitUnlock, TypeOK, LocksHeld, Installing, FilesHeld, InEmit,
     InFile, InLine, InMutex
<1>8. CASE MutexLock(t) \/ StdioAgain(t) \/ StdioClaim(t)
  BY <1>8 DEF MutexLock, StdioAgain, StdioClaim, TypeOK, LocksHeld, Installing, FilesHeld,
     InEmit, InFile, InLine, InMutex
<1>9. CASE AddSink(t) \/ AddSinkFails(t)
  BY <1>9 DEF AddSink, AddSinkFails, TypeOK, LocksHeld, Installing, FilesHeld, InEmit, InFile,
     InLine, InMutex
<1>10. CASE WriteImageMetadata(t) \/ StdioInstalled(t)
  BY <1>10 DEF WriteImageMetadata, StdioInstalled, TypeOK, LocksHeld, Installing, FilesHeld,
     InEmit, InFile, InLine, InMutex
<1>11. CASE LogTooEarly(t) \/ TakeDropped(t) \/ StreamOpen(t)
  BY <1>11 DEF LogTooEarly, TakeDropped, StreamOpen, TypeOK, LocksHeld, Installing, FilesHeld,
     InEmit, InFile, InLine, InMutex
<1>12. CASE StartCb(t)
  BY <1>12 DEF StartCb, TypeOK, LocksHeld, Installing, FilesHeld, InEmit, InFile, InLine, InMutex
<1>13. CASE WritePrefix(t) \/ WriteSuffix(t)
  BY <1>13 DEF WritePrefix, WriteSuffix, TypeOK, LocksHeld, Installing, FilesHeld, InEmit,
     InFile, InLine, InMutex
<1>14. CASE WriteFrame(t) \/ WriteFrameEnd(t)
  BY <1>14 DEF WriteFrame, WriteFrameEnd, TypeOK, LocksHeld, Installing, FilesHeld, InEmit,
     InFile, InLine, InMutex
<1>15. CASE SetCookie(t) \/ ClearCookie(t) \/ DirectDone(t) \/ EndCb(t)
  BY <1>15 DEF SetCookie, ClearCookie, DirectDone, EndCb, TypeOK, LocksHeld, Installing,
     FilesHeld, InEmit, InFile, InLine, InMutex
<1>16. CASE PrintPart(t) \/ DirectPart(t)
  BY <1>16 DEF PrintPart, DirectPart, TypeOK, LocksHeld, Installing, FilesHeld, InEmit, InFile,
     InLine, InMutex
<1>17. CASE PayloadCb(t)
  BY <1>17 DEF PayloadCb, TypeOK, LocksHeld, Installing, FilesHeld, InEmit, InFile, InLine,
     InMutex
<1>18. CASE Flush(t) \/ StreamEnd(t)
  BY <1>18 DEF Flush, StreamEnd, TypeOK, LocksHeld, Installing, FilesHeld, InEmit, InFile,
     InLine, InMutex
<1>19. CASE WriteFails(t)
  BY <1>19 DEF WriteFails, TypeOK, LocksHeld, Installing, FilesHeld, InEmit, InFile, InLine,
     InMutex
<1> QED
  BY <1>1, <1>2, <1>3, <1>4, <1>5, <1>6, <1>7, <1>8, <1>9, <1>10, <1>11, <1>12, <1>13, <1>14,
     <1>15, <1>16, <1>17, <1>18, <1>19 DEF Step, Begin, InCall, Initialising, Logging

\* A piece is written by the thread that holds the FILE, in the order of the line.
LEMMA LinesStep ==
    ASSUME TypeOK, LocksHeld, Installing, FilesHeld, OpenLines, NEW t \in Task, Step(t) PROVE OpenLines'
<1>1. CASE \E f \in File : BeginStdio(t, f)
  BY <1>1 DEF BeginStdio, TypeOK, LocksHeld, Installing, FilesHeld, OpenLines, Open, Put, Piece,
     InEmit, InFile, InLine, InMutex
<1>2. CASE \E fn \in {"printf", "direct", "boot"} : BeginLog(t, fn)
  BY <1>2 DEF BeginLog, TypeOK, LocksHeld, Installing, FilesHeld, OpenLines, Open, Put, Piece,
     InEmit, InFile, InLine, InMutex
<1>3. CASE \E f \in Shared : AppPrints(t, f)
  BY <1>3 DEF AppPrints, TypeOK, LocksHeld, Installing, FilesHeld, OpenLines, Open, Put, Piece,
     InEmit, InFile, InLine, InMutex
<1>4. CASE BeginInit(t) \/ InitLock(t) \/ InitReady(t) \/ InitLost(t) \/ OpenFails(t)
  BY <1>4 DEF BeginInit, InitLock, InitReady, InitLost, OpenFails, TypeOK, LocksHeld,
     Installing, FilesHeld, OpenLines, Open, Put, Piece, InEmit, InFile, InLine, InMutex
<1>5. CASE OpenStream(t)
  BY <1>5 DEF OpenStream, TypeOK, LocksHeld, Installing, FilesHeld, OpenLines, Open, Put, Piece,
     InEmit, InFile, InLine, InMutex
<1>6. CASE UnbufferFails(t)
  BY <1>6 DEF UnbufferFails, TypeOK, LocksHeld, Installing, FilesHeld, OpenLines, Open, Put,
     Piece, InEmit, InFile, InLine, InMutex
<1>7. CASE PublishStream(t) \/ InitUnlock(t)
  BY <1>7 DEF PublishStream, InitUnlock, TypeOK, LocksHeld, Installing, FilesHeld, OpenLines,
     Open, Put, Piece, InEmit, InFile, InLine, InMutex
<1>8. CASE MutexLock(t) \/ StdioAgain(t) \/ StdioClaim(t)
  BY <1>8 DEF MutexLock, StdioAgain, StdioClaim, TypeOK, LocksHeld, Installing, FilesHeld,
     OpenLines, Open, Put, Piece, InEmit, InFile, InLine, InMutex
<1>9. CASE AddSink(t) \/ AddSinkFails(t)
  BY <1>9 DEF AddSink, AddSinkFails, TypeOK, LocksHeld, Installing, FilesHeld, OpenLines, Open,
     Put, Piece, InEmit, InFile, InLine, InMutex
<1>10. CASE WriteImageMetadata(t) \/ StdioInstalled(t)
  BY <1>10 DEF WriteImageMetadata, StdioInstalled, TypeOK, LocksHeld, Installing, FilesHeld,
     OpenLines, Open, Put, Piece, InEmit, InFile, InLine, InMutex
<1>11. CASE LogTooEarly(t) \/ TakeDropped(t) \/ StreamOpen(t)
  BY <1>11 DEF LogTooEarly, TakeDropped, StreamOpen, TypeOK, LocksHeld, Installing, FilesHeld,
     OpenLines, Open, Put, Piece, InEmit, InFile, InLine, InMutex
<1>12. CASE StartCb(t)
  BY <1>12 DEF StartCb, TypeOK, LocksHeld, Installing, FilesHeld, OpenLines, Open, Put, Piece,
     InEmit, InFile, InLine, InMutex
<1>13. CASE WriteFrame(t) \/ WriteFrameEnd(t)
  BY <1>13, SMTT(40)
     DEF WriteFrame, WriteFrameEnd, TypeOK, LocksHeld, Installing, FilesHeld, OpenLines,
     Open, Put, Piece, InEmit, InFile, InLine, InMutex
<1>14. CASE SetCookie(t) \/ ClearCookie(t) \/ DirectDone(t) \/ EndCb(t)
  BY <1>14 DEF SetCookie, ClearCookie, DirectDone, EndCb, TypeOK, LocksHeld, Installing,
     FilesHeld, OpenLines, Open, Put, Piece, InEmit, InFile, InLine, InMutex
<1>15. CASE PrintPart(t) \/ DirectPart(t)
  BY <1>15 DEF PrintPart, DirectPart, TypeOK, LocksHeld, Installing, FilesHeld, OpenLines, Open,
     Put, Piece, InEmit, InFile, InLine, InMutex
<1>16. CASE PayloadCb(t)
  BY <1>16 DEF PayloadCb, TypeOK, LocksHeld, Installing, FilesHeld, OpenLines, Open, Put, Piece,
     InEmit, InFile, InLine, InMutex
<1>17. CASE Flush(t) \/ StreamEnd(t)
  BY <1>17 DEF Flush, StreamEnd, TypeOK, LocksHeld, Installing, FilesHeld, OpenLines, Open, Put,
     Piece, InEmit, InFile, InLine, InMutex
<1>18. CASE WriteFails(t)
  BY <1>18 DEF WriteFails, TypeOK, LocksHeld, Installing, FilesHeld, OpenLines, Open, Put,
     Piece, InEmit, InFile, InLine, InMutex
<1>19. CASE WritePrefix(t)
  BY <1>19 DEF WritePrefix, TypeOK, LocksHeld, Installing, FilesHeld, OpenLines, Open, Put,
     Piece, InEmit, InFile, InLine, InMutex
<1>20. CASE WriteSuffix(t)
  BY <1>20 DEF WriteSuffix, TypeOK, LocksHeld, Installing, FilesHeld, OpenLines, Open, Put,
     Piece, InEmit, InFile, InLine, InMutex
<1> QED
  BY <1>1, <1>2, <1>3, <1>4, <1>5, <1>6, <1>7, <1>8, <1>9, <1>10, <1>11, <1>12, <1>13, <1>14,
     <1>15, <1>16, <1>17, <1>18, <1>19, <1>20 DEF Step, Begin, InCall, Initialising, Logging

\* What was granted stays: a sink in the table is never removed, nor its FILE changed.
LEMMA OkStep ==
    ASSUME TypeOK, LocksHeld, Installing, OkMeansInstalled, NEW t \in Task, Step(t) PROVE OkMeansInstalled'
<1>1. CASE \E f \in File : BeginStdio(t, f)
  BY <1>1 DEF BeginStdio, TypeOK, LocksHeld, Installing, OkMeansInstalled, InMutex
<1>2. CASE \E fn \in {"printf", "direct", "boot"} : BeginLog(t, fn)
  BY <1>2 DEF BeginLog, TypeOK, LocksHeld, Installing, OkMeansInstalled, InMutex
<1>3. CASE \E f \in Shared : AppPrints(t, f)
  BY <1>3 DEF AppPrints, TypeOK, LocksHeld, Installing, OkMeansInstalled, InMutex
<1>4. CASE BeginInit(t) \/ InitLock(t) \/ InitReady(t) \/ InitLost(t) \/ OpenFails(t)
  BY <1>4 DEF BeginInit, InitLock, InitReady, InitLost, OpenFails, TypeOK, LocksHeld,
     Installing, OkMeansInstalled, InMutex
<1>5. CASE OpenStream(t)
  BY <1>5 DEF OpenStream, TypeOK, LocksHeld, Installing, OkMeansInstalled, InMutex
<1>6. CASE UnbufferFails(t)
  BY <1>6 DEF UnbufferFails, TypeOK, LocksHeld, Installing, OkMeansInstalled, InMutex
<1>7. CASE PublishStream(t) \/ InitUnlock(t)
  BY <1>7 DEF PublishStream, InitUnlock, TypeOK, LocksHeld, Installing, OkMeansInstalled, InMutex
<1>8. CASE MutexLock(t) \/ StdioAgain(t) \/ StdioClaim(t)
  BY <1>8 DEF MutexLock, StdioAgain, StdioClaim, TypeOK, LocksHeld, Installing,
     OkMeansInstalled, InMutex
<1>9. CASE AddSink(t) \/ AddSinkFails(t)
  BY <1>9 DEF AddSink, AddSinkFails, TypeOK, LocksHeld, Installing, OkMeansInstalled, InMutex
<1>10. CASE WriteImageMetadata(t) \/ StdioInstalled(t)
  BY <1>10 DEF WriteImageMetadata, StdioInstalled, TypeOK, LocksHeld, Installing,
     OkMeansInstalled, InMutex
<1>11. CASE LogTooEarly(t) \/ TakeDropped(t) \/ StreamOpen(t)
  BY <1>11 DEF LogTooEarly, TakeDropped, StreamOpen, TypeOK, LocksHeld, Installing,
     OkMeansInstalled, InMutex
<1>12. CASE StartCb(t)
  BY <1>12 DEF StartCb, TypeOK, LocksHeld, Installing, OkMeansInstalled, InMutex
<1>13. CASE WritePrefix(t) \/ WriteSuffix(t)
  BY <1>13 DEF WritePrefix, WriteSuffix, TypeOK, LocksHeld, Installing, OkMeansInstalled, InMutex
<1>14. CASE WriteFrame(t) \/ WriteFrameEnd(t)
  BY <1>14 DEF WriteFrame, WriteFrameEnd, TypeOK, LocksHeld, Installing, OkMeansInstalled,
     InMutex
<1>15. CASE SetCookie(t) \/ ClearCookie(t) \/ DirectDone(t) \/ EndCb(t)
  BY <1>15 DEF SetCookie, ClearCookie, DirectDone, EndCb, TypeOK, LocksHeld, Installing,
     OkMeansInstalled, InMutex
<1>16. CASE PrintPart(t) \/ DirectPart(t)
  BY <1>16 DEF PrintPart, DirectPart, TypeOK, LocksHeld, Installing, OkMeansInstalled, InMutex
<1>17. CASE PayloadCb(t)
  BY <1>17 DEF PayloadCb, TypeOK, LocksHeld, Installing, OkMeansInstalled, InMutex
<1>18. CASE Flush(t) \/ StreamEnd(t)
  BY <1>18 DEF Flush, StreamEnd, TypeOK, LocksHeld, Installing, OkMeansInstalled, InMutex
<1>19. CASE WriteFails(t)
  BY <1>19 DEF WriteFails, TypeOK, LocksHeld, Installing, OkMeansInstalled, InMutex
<1> QED
  BY <1>1, <1>2, <1>3, <1>4, <1>5, <1>6, <1>7, <1>8, <1>9, <1>10, <1>11, <1>12, <1>13, <1>14,
     <1>15, <1>16, <1>17, <1>18, <1>19 DEF Step, Begin, InCall, Initialising, Logging

-----------------------------------------------------------------------------
\* Nothing is installed, locked or written at first.
LEMMA SinkInitially == ASSUME Init PROVE SinkInv
<1>1. TypeOK
  <2>1. tail \in [File -> Pieces] /\ described \subseteq File
    BY DEF Init, Piece, Pieces
  <2>2. /\ printf \in 0 .. MaxOpens /\ opened \subseteq 1 .. MaxOpens
        /\ frame \in 0 .. FrameMax /\ dropped \in 0 .. MaxDropped
        /\ mine \in [Task -> 0 .. MaxOpens] /\ left \in [Task -> 0 .. MaxParts]
    BY DEF Init
  <2>3. /\ {portLock, initMutex, emitLock, cookie} \subseteq Task \cup {NoTask}
        /\ fileLock \in [File -> Task \cup {NoTask}] /\ stream \in File \cup {NoFile}
        /\ pc \in [Task -> PC]
    BY DEF Init, PC
  <2>4. {sink, failed, dropFrame} \subseteq BOOLEAN /\ notice \in [Task -> BOOLEAN]
    BY DEF Init
  <2> QED
    BY <2>1, <2>2, <2>3, <2>4 DEF Init, TypeOK, Pieces
<1>2. LocksHeld /\ Streams
  BY DEF Init, LocksHeld, Streams, InPort, InMutex, InEmit, InFile, InLine
<1>3. Installing /\ OkMeansInstalled
  BY DEF Init, Installing, OkMeansInstalled, InMutex, InPort
<1>4. FilesHeld /\ OpenLines
  BY DEF Init, FilesHeld, OpenLines, Open, Piece, InFile, InLine
<1> QED
  BY <1>1, <1>2, <1>3, <1>4 DEF SinkInv

\* The invariant is inductive.
LEMMA SinkInductive == ASSUME SinkInv, [Next]_vars PROVE SinkInv'
<1>1. CASE Next
  <2>1. PICK t \in Task : Step(t)
    BY <1>1 DEF Next, Step
  <2>2. TypeOK' /\ LocksHeld' /\ Streams' /\ Installing'
    BY <2>1, TypeStep, LocksStep, StreamsStep, InstallingStep DEF SinkInv
  <2>3. FilesHeld' /\ OpenLines' /\ OkMeansInstalled'
    BY <2>1, FilesStep, LinesStep, OkStep DEF SinkInv
  <2> QED
    BY <2>2, <2>3 DEF SinkInv
<1>2. CASE UNCHANGED vars
  <2>1. TypeOK' /\ LocksHeld' /\ Streams' /\ Installing' /\ OkMeansInstalled'
    BY <1>2 DEF SinkInv, vars, TypeOK, LocksHeld, Streams, Installing, OkMeansInstalled
  <2>2. FilesHeld' /\ OpenLines'
    BY <1>2 DEF SinkInv, vars, FilesHeld, OpenLines, Open
  <2> QED
    BY <2>1, <2>2 DEF SinkInv
<1> QED
  BY <1>1, <1>2

\* So it holds in every reachable state.
LEMMA SinkInvariant == Spec => []SinkInv
  BY SinkInitially, SinkInductive, PTL DEF Spec

-----------------------------------------------------------------------------
\* Every variable keeps a value of its kind, in the buffers at their limits too.
THEOREM SinkTypes == Spec => []TypeOK
<1>1. SinkInv => TypeOK
  BY DEF SinkInv
<1> QED
  BY <1>1, SinkInvariant, PTL

(***************************************************************************)
(* on9log_unix_stdio_init_file says ON9LOG_OK only for the FILE the sink   *)
(* writes to, and for good, however many threads call it with however many *)
(* FILEs, and whichever of them fail.                                      *)
(***************************************************************************)
THEOREM OkIsTrue == Spec => []OkMeansInstalled
<1>1. SinkInv => OkMeansInstalled
  BY DEF SinkInv
<1> QED
  BY <1>1, SinkInvariant, PTL

(***************************************************************************)
(* Calls of on9log_init that overlap and fail leave no printf stream open  *)
(* but the published one, which nobody closes.                             *)
(***************************************************************************)
THEOREM StreamsAreKept == Spec => []NoStreamLeaks
<1>1. ASSUME SinkInv PROVE NoStreamLeaks
  <2>1. TypeOK /\ LocksHeld /\ Streams
    BY <1>1 DEF SinkInv
  <2>2. CASE \E t \in Task : pc[t] = "unbuffer"
    <3>1. PICK t \in Task : pc[t] = "unbuffer"
      BY <2>2
    <3>2. \A u \in Task : u # t => pc[u] # "unbuffer"
      BY <2>1, <3>1 DEF LocksHeld, InPort
    <3>3. Opening = {mine[t]}
      BY <2>1, <3>1, <3>2 DEF Streams, Opening
    <3> QED
      BY <2>1, <3>1, <3>3 DEF Streams, NoStreamLeaks
  <2>3. CASE \A t \in Task : pc[t] # "unbuffer"
    <3>1. Opening = {}
      BY <2>1, <2>3 DEF Streams, Opening
    <3>2. opened = {printf} \ {0}
      <4>1. portLock = NoTask \/ \E t \in Task : pc[t] = "published"
        BY <2>1, <2>3 DEF TypeOK, LocksHeld, InPort
      <4> QED
        BY <2>1, <4>1 DEF Streams
    <3> QED
      BY <3>1, <3>2 DEF NoStreamLeaks
  <2> QED
    BY <2>2, <2>3
<1> QED
  BY <1>1, SinkInvariant, PTL

(***************************************************************************)
(* Nothing comes between the pieces of a line or frame on its FILE: no     *)
(* piece of another thread's line, no text the application prints, no      *)
(* image-slide line, and no rest of a line whose write failed.             *)
(***************************************************************************)
THEOREM LinesStayWhole == Spec => LinesAreWhole
<1> DEFINE Whole == \A f \in File : tail'[f] # tail[f] => MayFollow(tail[f], tail'[f])
<1>1. ASSUME SinkInv, NEW t \in Task, Step(t) PROVE [Whole]_tail
  <2> USE DEF MayFollow, Piece, Put
  <2> SUFFICES ASSUME tail' # tail PROVE Whole
    OBVIOUS
  <2>1. TypeOK /\ Installing /\ FilesHeld /\ OpenLines
    BY <1>1 DEF SinkInv
  <2>2. CASE (\E f \in Shared : AppPrints(t, f)) \/ WriteImageMetadata(t)
    BY <2>1, <2>2 DEF AppPrints, WriteImageMetadata, TypeOK, OpenLines, Open
  <2>3. CASE WritePrefix(t) \/ WriteFrame(t)
    BY <2>1, <2>3 DEF WritePrefix, WriteFrame, TypeOK, Installing, FilesHeld, OpenLines, Open,
       InFile, InLine
  <2>4. CASE PrintPart(t) \/ DirectPart(t)
    BY <2>1, <2>4 DEF PrintPart, DirectPart, TypeOK, Installing, FilesHeld, OpenLines, Open,
       InFile, InLine
  <2>5. CASE WriteSuffix(t) \/ WriteFrameEnd(t)
    BY <2>1, <2>5 DEF WriteSuffix, WriteFrameEnd, TypeOK, Installing, FilesHeld, OpenLines,
       Open, InFile, InLine
  <2>6. CASE WriteFails(t)
    BY <2>1, <2>6 DEF WriteFails, TypeOK, Installing, FilesHeld, OpenLines, Open, InFile, InLine
  <2>7. CASE Begin(t) \/ LogTooEarly(t)
    BY <2>7 DEF Begin, BeginInit, BeginStdio, BeginLog, LogTooEarly
  <2>8. CASE Initialising(t) /\ ~WriteImageMetadata(t)
    BY <2>8 DEF Initialising, InitReady, InitLock, InitLost, OpenStream, OpenFails,
       UnbufferFails, PublishStream, InitUnlock, MutexLock, StdioAgain, StdioClaim, AddSink,
       AddSinkFails, StdioInstalled
  <2>9. CASE TakeDropped(t) \/ StreamOpen(t) \/ StartCb(t) \/ SetCookie(t) \/ ClearCookie(t)
    BY <2>9 DEF TakeDropped, StreamOpen, StartCb, SetCookie, ClearCookie
  <2>10. CASE DirectDone(t) \/ PayloadCb(t) \/ EndCb(t) \/ Flush(t) \/ StreamEnd(t)
    BY <2>10 DEF DirectDone, PayloadCb, EndCb, Flush, StreamEnd
  <2> QED
    BY <1>1, <2>2, <2>3, <2>4, <2>5, <2>6, <2>7, <2>8, <2>9, <2>10 DEF Step, InCall, Logging
<1>2. ASSUME SinkInv, [Next]_vars PROVE [Whole]_tail
  <2>1. CASE Next
    BY <1>1, <1>2, <2>1 DEF Next, Step
  <2>2. CASE UNCHANGED vars
    BY <2>2 DEF vars
  <2> QED
    BY <1>2, <2>1, <2>2
<1> QED
  BY <1>2, SinkInvariant, PTL DEF Spec, LinesAreWhole

=============================================================================
