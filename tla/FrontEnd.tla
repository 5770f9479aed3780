------------------------------ MODULE FrontEnd ------------------------------
(***************************************************************************)
(* What becomes of a log statement.  It is written with a C macro or with  *)
(* a method of the C++ Logger, for a task, for an interrupt handler or for *)
(* a buffer; the build is binary or plain text; and the message is sent,   *)
(* filtered, or lost.  A loss has to be counted, because the DROPPED       *)
(* notice made of the count is all that tells the reader of the log.       *)
(***************************************************************************)
EXTENDS Wire, TextFormat

CONSTANT IsrMax    \* ON9LOG_ISR_PACKET_MAX

ASSUME IsrMaxAssumption == IsrMax \in Nat \ {0}

(***************************************************************************)
(* A statement carries                                                     *)
(*   style    what its format is written for: "printf", "fmt", or neither, *)
(*   objects  it passes an argument printf does not take, as std::string,  *)
(*   strings  it passes a string,                                          *)
(*   fits     its packet is no longer than it may be, its buffer is valid, *)
(*   text     the length of its formatted text, and                        *)
(*   extra    what prefix, suffix and inserted returns add to a text line. *)
(* A build is plain text or not, and has a compiled maximum level in the   *)
(* unit the statement is in and in the library.  At run time the tag has a *)
(* level, the printf stream of the plain-text build is open, the ISR rings *)
(* exist, and the one of this core has room, or not.                       *)
(***************************************************************************)
Style == {"printf", "fmt", "none"}

-----------------------------------------------------------------------------
(***************************************************************************)
(* The ways to write a statement, each with the levels of its names.       *)
(***************************************************************************)
Macros(to) == [by |-> "macro", to |-> to,
               level |-> [E |-> 1, W |-> 2, I |-> 3, D |-> 4, V |-> 5]]

LogMacros     == Macros("task")
RuntimeMacros == Macros("task")
IsrMacros     == Macros("isr")
BufMacros     == Macros("buffer")

Methods == [by |-> "logger", to |-> "task",
            level |-> [error |-> 1, warn |-> 2, info |-> 3, debug |-> 4, verbose |-> 5]]

ShortMethods == [by |-> "logger", to |-> "task",
                 level |-> [e |-> 1, w |-> 2, i |-> 3, d |-> 4, v |-> 5]]

LevelMethod == [by |-> "logger", to |-> "task", level |-> [level \in 0 .. 5 |-> level]]

IsrMethods == [by |-> "logger", to |-> "isr",
               level |-> [isr_error |-> 1, isr_warn |-> 2, isr_info |-> 3, isr_debug |-> 4,
                          isr_verbose |-> 5]]

IsrLevelMethod == [by |-> "logger", to |-> "isr", level |-> [level \in 0 .. 5 |-> level]]

BufferMethods == [by |-> "logger", to |-> "buffer",
                  level |-> [buffer_error |-> 1, buffer_warn |-> 2, buffer_info |-> 3,
                             buffer_debug |-> 4, buffer_verbose |-> 5]]

Road == {LogMacros, RuntimeMacros, IsrMacros, BufMacros, Methods, ShortMethods, LevelMethod,
         IsrMethods, IsrLevelMethod, BufferMethods}

-----------------------------------------------------------------------------
(***************************************************************************)
(* What can become of it: whether it is sent, what s_dropped_count gains,  *)
(* and what a function that answers answers.                               *)
(***************************************************************************)
Quiet   == [sent |-> FALSE, counted |-> 0, ok |-> TRUE]
Sent    == [sent |-> TRUE,  counted |-> 0, ok |-> TRUE]
Dropped == [sent |-> FALSE, counted |-> 1, ok |-> FALSE]
Refused == [sent |-> FALSE, counted |-> 0, ok |-> FALSE]

\* ON9_LOG_ENABLED and detail::level_enabled, in the unit of the statement.
CompiledIn(level, b) == level # 0 /\ level <= b.local

\* on9log_level_enabled, in the library, with the level on9log_filter_level_for_tag found.
LevelEnabled(level, b, w) ==
    /\ level # 0 /\ level <= 5 /\ level <= b.library
    /\ w.level \in 1 .. 5
    /\ level <= w.level

\* on9log_write_text_with_flags
WriteText(level, b, w) == IF LevelEnabled(level, b, w) THEN Sent ELSE Quiet

\* on9log_vwrite
Vwrite(level, s, b, w) ==
    IF b.plain
    THEN IF w.stream THEN WriteText(level, b, w)
         ELSE IF LevelEnabled(level, b, w) THEN Dropped ELSE Quiet
    ELSE IF ~LevelEnabled(level, b, w) THEN Quiet
         ELSE IF s.fits THEN Sent ELSE Dropped

\* on9log_write_text_isr_with_flags, its text of a length or null and not empty
WriteTextIsr(level, text, extra, b, w) ==
    IF ~LevelEnabled(level, b, w) \/ ~w.ready THEN Quiet
    ELSE IF text # Null /\ text + extra <= IsrMax /\ w.room THEN Sent ELSE Dropped

\* Mutant of VwriteIsr: a text that vsnprintf cut off is not counted.
VwriteIsrUncounted(level, s, b, w) ==
    IF ~LevelEnabled(level, b, w) \/ ~w.ready THEN Quiet
    ELSE IF s.strings THEN Dropped
    ELSE IF ~b.plain THEN IF s.fits /\ w.room THEN Sent ELSE Dropped
    ELSE IF s.text >= IsrMax THEN Refused
    ELSE WriteTextIsr(level, s.text, s.extra, b, w)

\* on9log_vwrite_isr; vsnprintf needs room for a terminator
VwriteIsr(level, s, b, w) ==
    IF ~LevelEnabled(level, b, w) \/ ~w.ready THEN Quiet
    ELSE IF s.strings THEN Dropped
    ELSE IF ~b.plain THEN IF s.fits /\ w.room THEN Sent ELSE Dropped
    ELSE IF s.text >= IsrMax THEN Dropped
    ELSE WriteTextIsr(level, s.text, s.extra, b, w)

\* on9log_write_buffer_with_text_flags
WriteBuffer(level, s, b, w) ==
    IF ~LevelEnabled(level, b, w) THEN Quiet
    ELSE IF ~s.fits THEN Dropped
    ELSE IF b.plain THEN WriteText(level, b, w) ELSE Sent

-----------------------------------------------------------------------------
\* ON9_LOG_LEVEL, ON9_LOG_RUNTIME_LEVEL, ON9_ISR_LOG_LEVEL, ON9_LOG_BUF_LEVEL
Macro(to, level, s, b, w) ==
    IF ~CompiledIn(level, b) THEN Quiet
    ELSE CASE to = "task"   -> Vwrite(level, s, b, w)
           [] to = "isr"    -> VwriteIsr(level, s, b, w)
           [] to = "buffer" -> WriteBuffer(level, s, b, w)

\* printf or fmt is to make the text: the arguments and the format decide.
ByPrintf(s) == ~s.objects /\ s.style = "printf"

\* detail::write_log
WriteLog(level, s, b, w) ==
    IF b.plain /\ ~ByPrintf(s) THEN WriteText(level, b, w) ELSE Vwrite(level, s, b, w)

\* detail::write_log_isr; a string does not compile
WriteLogIsr(level, s, b, w) ==
    IF ~b.plain \/ ByPrintf(s) THEN VwriteIsr(level, [s EXCEPT !.strings = FALSE], b, w)
    ELSE IF s.text > IsrMax THEN Refused
    ELSE WriteTextIsr(level, s.text, s.extra, b, w)

\* A method of the Logger; detail::write_buffer.
Method(to, level, s, b, w) ==
    IF ~CompiledIn(level, b) THEN Quiet
    ELSE CASE to = "task"   -> WriteLog(level, s, b, w)
           [] to = "isr"    -> WriteLogIsr(level, s, b, w)
           [] to = "buffer" -> WriteBuffer(level, s, b, w)

Fate(road, name, s, b, w) ==
    IF road.by = "macro" THEN Macro(road.to, road.level[name], s, b, w)
                         ELSE Method(road.to, road.level[name], s, b, w)

-----------------------------------------------------------------------------
Statement == [style : Style, objects : BOOLEAN, strings : BOOLEAN, fits : BOOLEAN,
              text : {0} \cup (IsrMax - 2 .. IsrMax + 1), extra : {1, 2}]

AnyBuild == [plain : BOOLEAN, local : {0, 3, 5}, library : {3, 5}]

Situation == [level : {0, 3, 5}, stream : BOOLEAN, ready : BOOLEAN, room : BOOLEAN]

(***************************************************************************)
(* A statement above any of the three levels leaves no trace, however it   *)
(* is written.  Any other one is sent or counted, never both and never     *)
(* neither, and the answer to a handler says which; with two exceptions.   *)
(* While the rings do not exist, a handler's message is lost and the       *)
(* answer is true; and in plain text a {}-style message of a handler that  *)
(* is longer than the buffer is refused without being counted.             *)
(***************************************************************************)
LossIsCounted ==
    Startup => \A road \in Road, b \in AnyBuild, w \in Situation, s \in Statement :
       \A name \in DOMAIN road.level :
          LET level  == road.level[name]
              wanted == level # 0 /\ level <= b.local /\ level <= b.library /\ level <= w.level
              early  == road.to = "isr" /\ ~w.ready
              long   == /\ road.by = "logger" /\ road.to = "isr" /\ b.plain
                        /\ (s.style # "printf" \/ s.objects) /\ s.text > IsrMax
              fate   == Fate(road, name, s, b, w)
          IN  IF ~wanted THEN fate = Quiet \/ (long /\ level # 0 /\ level <= b.local)
              ELSE IF long THEN fate = Refused
              ELSE IF early THEN fate = Quiet
              ELSE /\ fate.sent <=> fate.counted = 0
                   /\ road.to = "isr" => (fate.ok <=> fate.sent)

-----------------------------------------------------------------------------
\* The line on9log_write_text_isr_with_flags puts into a packet of cap bytes, or none.
TextLineIsr(flags, level, ms, tag, text, cap) ==
    LET line == Filtered(flags, TextLine(flags, level, ms, tag, <<text>>))
        enc  == Read(LAMBDA e, char : PutBytes(e, <<char>>, cap), [overflow : BOOLEAN, data : Text],
                     [overflow |-> FALSE, data |-> <<>>], line)
    IN  IF enc.overflow THEN <<>> ELSE enc.data

SomeText == UNION {[1 .. n -> {Newline, Return, "a"}] : n \in 0 .. 4}

SomeTime == {0, 999, 1000, 59999, 60000, 3599999, 3600000, 359999999, 360000000, 2147483647}

\* A minute, a second and a millisecond.
LineTime == 61001

SomeCount == {0, 9, 10, 100, 2147483647}

(***************************************************************************)
(* A plain-text line is what was meant.  Each line feed gets its carriage  *)
(* return, once, however a formatter cuts the text into pieces; the time   *)
(* reads back, also after a hundred hours; no colour outlasts the line,    *)
(* whatever the flags; an interrupt handler sends the same line as a task, *)
(* or none; a dump holds every byte, whether or not its last group is      *)
(* full, a BOOT line every byte of the image ID, a DROPPED line the count. *)
(***************************************************************************)
TextIsRight ==
    Startup =>
       /\ \A text \in SomeText : \A i \in 0 .. Len(text) : \A j \in i .. Len(text) :
             LET pieces == <<SubSeq(text, 1, i), SubSeq(text, i + 1, j),
                             SubSeq(text, j + 1, Len(text))>>
             IN  /\ Filtered({"CR"}, pieces) = WithReturns(text)
                 /\ Filtered(TextFlag \ {"CR"}, pieces) = text
       /\ \A ms \in SomeTime : TimeOf(Timestamp(ms)) = ms
       /\ \A flags \in SUBSET TextFlag, level \in 1 .. 5, text \in {<<>>, <<"a", Newline>>} :
             LET line == Filtered(flags, TextLine(flags, level, LineTime, <<"d">>, <<text>>))
             IN  /\ ColorIsOff(line)
                 /\ \A cap \in {0, Len(line) - 1, Len(line), Len(line) + 1} :
                       TextLineIsr(flags, level, LineTime, <<"d">>, text, cap) =
                          IF Len(line) <= cap THEN line ELSE <<>>
       /\ \A len \in 0 .. 7 :
             LET bytes == [i \in 1 .. len |-> 36 * i]
                 dump  == BufferText(bytes, 3)
                 boot  == BootText(7, 1, 2, bytes)
             IN  /\ Concat(SubSeq(dump, 4, Len(dump))) =
                       Concat([i \in 1 .. len |-> <<" ">> \o Hex(bytes[i])])
                 /\ SubSeq(boot, 8, Len(boot)) = [i \in 1 .. len |-> Hex(bytes[i])]
       /\ \A count \in SomeCount : ValueOf(DroppedText(count)[1]) = count
=============================================================================
