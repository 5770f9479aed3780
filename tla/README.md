# A TLA+ verification of on9log

on9log is a logger for ESP-IDF firmware and Unix hosts. A log call does not
format text: it sends a binary packet (header, argument types, raw arguments)
to one or more sinks, and a host tool prints it later with the help of the ELF
file. This directory holds a model of the logger in TLA+, the properties that
make it correct, model-checking configurations and machine-checked proofs.
Source paths below are relative to `src/`.

## 1. The system

| part | state | operations | talks to |
|---|---|---|---|
| emission path, `on9log.c` | `s_sinks`, `s_seq`, `s_dropped_count`, the emit lock | `on9log_write`, `_write_buffer`, `_emit_boot`, `_dispatch_packet`, `_add_sink`, `_remove_sink` | calls each sink's start/payload/end callbacks under the emit lock |
| tag filter, `on9log.c` | `s_tag_filters`, `s_tag_filter_head`, `s_active_tag_filter_count`, `s_default_level` | `on9log_set_level`, `_set_tag_level`, `_clear_tag_level`; the lookup in every log call | the port lock for writers, atomics only for lookups |
| ISR pipeline, `on9log_esp_isr.c` | ring handle, `installed`, the FreeRTOS ring, the drain task | `on9log_esp_isr_init`, `on9log_write_isr`, the drain loop | drain task calls `on9log_dispatch_packet` |
| ESP transport and sink, `esp_stdio_log_vfs.c`, `on9log_esp_vfs.c` | transport mutex and owner, output table, redirected stdio, one accumulation buffer | `write_frame`, `add_output`, `fsync`, `init`, the sink's callbacks | console drivers, which may print and so come back in |
| payload encoding, `on9log.c` | string lengths recorded by a first pass | `on9log_measure_payload`, `on9log_emit_payload_args`, `on9log_encode_isr_log_packet` | strings other tasks may change |
| framing, both transports | frame writer's batch | SLIP escaping, CRC-16, batches | the receiver |
| Unix sink, `on9log_unix_stdio.c` | `s_stdio`, `s_init_mutex` | callbacks, `init_file` | the `FILE` lock, which application threads take too |
| front ends, `on9log.h`, `on9log.hpp` | none | macros and methods, compile-time filter, argument classification, format scanning | variadic calls of `on9log.c` |
| ports | two locks, clock, image ID, image addresses | | |
| plain-text build | printf stream and its cookie, raw streams | `on9log_init`, text lines and their filter | the emission path |

Hard to test: several tasks inside the emission path at once; a list that is
read without a lock while nodes and strings are reused; interrupt handlers that
log while the ring is being created or is full; a console driver that prints
from inside `write()`; initialisation that fails half way; a string that
changes while it is logged; a write that fails in the middle of a frame;
four kinds of lock on Unix and three on ESP that are taken inside each other.
`PROJECT.json` lists each at its line, with the properties that watch it.

What makes the parts correct: sinks see whole packets, numbered without gaps
and in clock order; no drop is lost or announced twice; a lookup never reads
freed memory and returns a level its tag really had; a queued ISR packet
reaches the sinks, once, in order; frames are whole on every output; nobody
waits for itself or for ever; what a receiver decodes is what was sent; a
statement is sent, filtered or counted as dropped, however it was written.

## 2. Modules

* **On9logCore** is the emission path. `pc[t]` is a task's place in a call:
  *take* (exchange the drop counter), *body*/*chunk* (can it be encoded),
  *open* (emit lock, sink snapshot), *number*, one step per callback and sink
  (*start*, *payload*, *end*), *unlock*. A call that took a non-zero count goes
  through *open .. unlock* twice, first for the DROPPED packet. Payloads are a
  number of callbacks, packets the fields the properties need. `view`,
  `lastSeq`, `lastTs`, `asm`, `mixed`, `owed` are history variables. `asm` is what
  a sink can know of buffers, so it is kept by tag: a BUFFER packet carries no
  task and no number of the buffer. `mixed[g]` says that calls writing buffers
  of tag `g` overlapped.
* **TagFilter** is the lock-free list, one atomic operation per step. Nodes
  are numbered in insertion order, so the list is `linked .. 1`. A writer's
  scan under the port lock is one step, because only the holder of that lock
  changes what it reads. Memory is sequentially consistent: the code uses
  `seq_cst` for the handshake between `active` and `readers`, and the weaker
  orders elsewhere are not examined.
* **IsrPipeline** EXTENDS On9logCore with handlers, ring, drain tasks and
  `on9log_esp_isr_init`; a drain task's dispatch *is* the core's "dispatch"
  call. The FreeRTOS ring is external: a bounded queue whose items occupy space
  until they are returned.
* **AtomicLog** is what the emission path promises, without how: a packet is
  numbered, stamped and shown to all registered sinks in one step. On9logCore
  implements it (`DeliveryIsAtomic`). A packet is delivered at the moment its
  numbering step is taken, so the mapping shows a sink that is still to be
  visited (`Approaching`) the packet it is about to get; that this is well
  defined rests on the sink table being frozen while a stream is open.
* **Transport** has both ESP locks and the C library's lock of stdout, the owner
  test, batches to several outputs, nested prints of the driver, `add_output`,
  `fsync`, `init` with its failures, and the sink's buffer. `plain` is the build:
  frames, or raw streams that hold the mutex from `start_cb` to `end_cb`. The
  core appears as its emit lock. A batch whose write fails counts as written
  here; what a loss does to the receiver is Wire's business.
* **UnixStdio** has `on9log_init`, `on9log_unix_stdio_init_file`, the sink's
  callbacks and the printf stream, against threads that print to the same
  `FILE`. `build` is text, Linux or macOS. A line goes out in pieces; `tail`
  remembers the last piece on each `FILE`. The lock inside the printf stream is
  not a variable: only the holder of the emit lock gets there.
* **Framing** (bytes of a frame, both CRCs, the decoder of the tests),
  **FormatScan** (the printf scanners), **ArgTypes** (classification, promotion
  and `va_arg`), **ImageId** (build-id search in `size_t` of fixed width, image
  ID of each port, strings sent by address), **TextFormat** (plain-text lines
  and the carriage-return filter; an escape sequence or a fixed word counts as
  one character, and TLC's messages are made of the library's own characters)
  are operators. **Wire** uses the first four in
  a state machine: measure, strings change, emit, write fails, packet too long,
  decode. **FrontEnd** adds what becomes of a statement, by macro or method.
* **MC...** modules hold instances.
* **On9logCoreProofs** (with the refinement of AtomicLog), **IsrPipelineProofs**,
  **TagFilterProofs**, **TransportProofs** and **UnixStdioProofs** hold the
  theorems about the modules they extend, **CodecProofs** those about Framing and
  FormatScan, **WireProofs** those about Wire, FrontEnd, ImageId and TextFormat;
  **SumLemmas** has what several of them need of sums, of induction and of
  counting to a limit.

Loops over the bytes of a buffer, over arguments or over text are written with
`Run`, `Read` and `Repeat` of **Loops**: a recursive function of position and
state, which TLC evaluates step by step and the provers can unfold. Each loop
names the set of its states for that purpose.

An operator whose comment begins with "Mutant of" is a plausible wrong version
of the definition below it. Replacing the definition by it makes TLC report the
property it is listed with in `PROJECT.json`, which shows that the property
notices such a mistake.

## 3. Runs

| run | asks | bounds and why |
|---|---|---|
| core_emit | whole packets, sequence, time order, drops, sink table, implementation of AtomicLog | 2 tasks that log, dispatch, add, remove; 2 sinks in 2 slots; counter modulo 3, so it wraps within three packets; 2 owed drops |
| core_live | every path releases the lock; a buffer that overlaps no other of its tag can be reassembled from tag and offset | 2 tasks that send buffers under 2 tags, one of which also boots and edits the table; empty buffers, and 5 bytes in chunks of 2, which gives a first, a middle and a short last chunk; no payload callbacks, which change nothing the two properties look at. Log calls and dispatched packets take the same steps from open to unlock (core_emit has them) |
| tag_race | no use after free; list = configuration, with no more nodes than tags were ever set at once | 2 lookups, 2 writers, 2 tags, 2 nodes, 1 level: the smallest instance in which one writer waits for a reader while another is between unlock and relock |
| tag_live | lookups are regular; writers and lookups finish | 1 lookup, 1 writer, 2 tags over 2 nodes, so nodes change hands, 2 levels |
| isr_live | no ring without a drain task; order, memory, eventual dispatch | 2 overlapping initialisations, each step of which may fail, 3 handler calls against rings of 2, an application that registers its sink meanwhile; the clock stands still, since no step of the pipeline depends on it |
| isr_true | *violation*, see findings | |
| esp_frames | whole frames and lines, buffer ownership, no self-deadlock | 2 tasks, 2 outputs, frames of 2 batches, packets that fit and that overflow, drivers that print, both builds |
| esp_live | every call returns, or two tasks are in the driver's circle | 2 tasks, 2 outputs, frames of 2 batches, 1 device, drivers that print, both builds |
| esp_init_twice | *violation*, see findings | |
| unix_stdio | whole lines, OK means installed, no stream leaks, every call returns | 2 threads, 2 `FILE`s of which the application prints to one, 2 printf streams, packets that fit and that overflow, every failure, three builds |
| unix_metadata | *violation*, see findings | |
| wire | lengths, precision, local loss, CRCs, scanners, `va_arg`, ISR encoding, image ID, lost statements, text lines | 2 shapes of call, 1 lost write at every byte, both transports; strings made of reserved bytes; limits placed so that packets fit, exceed the transport, and exceed the header |

esp_frames and esp_live do not check for deadlock, because the code has one: a
task that prints holds stdout and waits for the transport mutex, and a driver
that prints from inside `write()` holds the mutex and waits for stdout, before
`write_frame` could see that it is the owner. `DriverDeadlock` is this circle of
two tasks, and `CallsReturn` says that a call returns unless it closed: there is
no other. The run reaches it: without that disjunct `CallsReturn` is violated.

`BufferChunksContiguous` speaks of tags whose buffer calls do not overlap, and
needs to: without its premise TLC finds two calls of one tag whose chunks
alternate. The property holds again from the first buffer that begins after
such an overlap.

`ScanIsRight` is about `on9log_mark_precision_string_args` with its early return:
a format is looked at if `%.*s` occurs in it.

`Startup =>` in some of Wire's properties restricts a fact about operators to
the initial states, where TLC evaluates it once: CRC table against division for
every value of the high register byte and selected low bytes and inputs; all
formats of two pieces; all types on both ABIs; all calls of up to two arguments
into every buffer size; note sizes around 0, around the end of a region and
around the end of `size_t`; one or two notes in every padding, cut or whole; all
macros and methods in every build and situation; all texts of up to four
characters in every split into three pieces. Their quantifiers, not the
behaviours, are their bounds. The theorems of section 4 have none of these bounds. Times stop at 2^31 - 1, TLC's largest integer.

No run reduces what the proofs assume: constants get values, no definition is
replaced. Symmetry is used only in runs without liveness.

### Fairness

*core_live*: weak fairness per task inside a call. A mutex holder is run until
it releases (priority inheritance, or pthreads), callbacks return; who gets a
lock next is left open, as LockIsReleased is about the holder only.
*tag_live*: the same for writers and lookups; the spinning writer calls
`on9log_port_yield`. With strict priorities on one core `taskYIELD` does not
run a lower-priority reader, so this assumption excludes a known hazard, which
is listed.
*isr_live*: weak fairness for tasks; the property itself assumes that the
application pauses from some time on, because nothing promises the drain task
the lock against tasks that never stop calling.
*esp_live*: weak fairness per task inside a call: `write()` returns. FreeRTOS
does not promise a waiter the mutex either. Giving it back only readies the
waiter; the giver may take it again before the waiter runs, and a task of higher
priority may come first. `CallsReturn` therefore says what happens when tasks
stop making new calls and drivers stop printing (`CallsEnd`).
*unix_stdio*: weak fairness per thread inside a call. pthreads do not promise a
waiter the mutex while others keep taking it, so here too `CallsReturn` says what
happens when threads stop making new calls (`CallsEnd`): nothing is left waiting.

## 4. Proofs

Everything here holds for any sets of tasks, sinks, outputs, files, lookups,
writers, tags and calls, and for any sizes and limits. The assumptions are the
named ones of the modules: constants are of their kind, model values lie outside
the sets they stand beside, `Task`, `Reader` and `Tag` are finite (a sum or a
count ranges over each), the types of a call's arguments agree with what is
passed and a call's format is written from two pieces, the shape the runs use
(`WireAssumption`), `size_t` holds two notes with the longest ID and a region of
notes ends before the end of the address space (`ImageIdAssumption`), the mask of
a scanner has 6 to 255 bits (32 in the code, whose argument count is one byte;
`MaskAssumption`), texts may hold the characters the library itself writes
(`TextAssumption`). TLC evaluates them in the runs of the modules that state them.

**Emission path**, On9logCoreProofs: `TypeCorrect`, `EmissionCorrect`,
`SinkTableUnique`, `PacketsAreWhole`, `SequenceHasNoGap`, `TimestampsOrdered`.
What a sink may see next is not inductive. `EmissionInv` adds why: exactly the
task in a locked region holds the lock (`LockInv`); the snapshot of an open
stream equals the table (`SnapInv`); a registered sink is at rest or inside the
current packet according to the stream's phase and whether its slot is still to
be visited (`RegisteredInv`); an unregistered one is silent (`UnregisteredInv`);
a sink is one number behind the next packet, be that the counter or the packet
just numbered (`SequenceInv`); nobody is ahead of the clock (`TimeInv`). One
lemma per kind of step shows that it is preserved, and the action properties
follow from it step by step.

Also in On9logCoreProofs: `NoDropIsLost`, `BuffersReassemble`, `DeliveryRefines`. They need
`DeliveryInv`, which adds which packet a task at each place is about to show, its
own or the notice of the count it took (`CallInv`), and how what a sink saw of a
tag last fits the calls that write buffers of that tag. The argument for buffers:
a chunk that is under way has been shown to the slots already visited and to no
other (`Due`), so each call has a `Position` from which it will go on for each
sink. What a sink saw last of a tag is the end of a buffer, or some call is
`Waiting` to go on exactly there (`ChunkInv`, which holds of overlapping calls
too); and if the calls do not overlap there is one at most (`MixedInv`), so that
the next chunk is that call's, or the first of a new buffer (`Alone`).
Conservation of drops
compares a sum over all tasks before and after a step; a step changes one term
(`SumUpdate` in SumLemmas). The refinement is the standard argument: initial
states map to initial states; the numbering step is the delivery, because from
then on exactly the sinks of the snapshot are approaching (`MappingInv` says what
the mapping shows for a sink on either side of its visit); registration maps to
registration; any other step maps to a stutter.

**ISR pipeline**, IsrPipelineProofs: `NoRingIsAbandoned`, `RingsDrainInOrder`,
and `PipelineUsesCore`, that a behaviour of the pipeline is one of the emission
path, so that all of the above holds of drain tasks too. `PipelineInv` says: two
initialisations never own the same ring (`SetupInv`); a ring holds the numbers
that follow the last one dispatched, and an item stays in it until it is returned
(`RingInv`); a drain task in a call dispatches the packet it has received
(`DispatchInv`); a sink has seen a ring up to there, or one further if its slot
has been visited (`SeenInv`).

**Tag filter**, TagFilterProofs: `FilterTypeCorrect`, `FilterCorrect`,
`StringsAreSafe`, `ListIsRight`, `LookupsAreRegular`. `FilterInv` says: the port
lock belongs to the writer between lock and unlock; `readers` is the number of
lookups between entry and leave; the node a writer waits for or retags is linked
and inactive; once it saw no reader, nobody is comparing until it reactivates
(`RetagInv`, the heart: a lookup that enters later rechecks `active` and finds it
false); a node without a string is between free and assignment; the counter
equals the number of active nodes up to the writer between flag and counter.
`ListInv` adds that a tag has one node at most, that the list says what was
configured for every tag no writer is changing, how far the writer has come with
the tag it is changing, and that nodes are made only when all are in use. All of
it can be said of the one writer inside the lock (`Solo`), which leaves one
obligation per step. `LookupInv` adds that a running lookup has not passed its
tag's node unless the tag was unset meanwhile (`Ahead`): nodes are only added in
front of it, and none that carries its tag changes hands unseen.

**ESP transport**, TransportProofs: `TransportTypes`, `BufferHasOnePacket`,
`MutexIsNotReentered`, `FramesStayWhole`, for both builds and with drivers that
print. `TransportInv` ties mutex, owner and emit lock to the places where they
are held (`Control`); the owner test works because `owner` is set exactly while a
task that could come back in writes. `FrameInv`: with no owner all outputs stand
at the end of a frame; with one, each stands at its current batch or the one
before, as it was visited or not.

**Unix sink**, UnixStdioProofs: `SinkTypes`, `OkIsTrue`, `StreamsAreKept`,
`LinesStayWhole`, for the three builds and every failure. `SinkInv`: each lock is
held exactly in its region (`LocksHeld`); a printf stream exists only as the
published one or in the hands of the thread that opened it (`Streams`); the
`FILE` is set before the sink is added and taken back if that fails
(`Installing`); the `FILE` lock is held from the first piece of a line to the
last, so the piece before a middle one is the same thread's (`OpenLines`).

**Loops and induction**. A recursive definition is a `CHOOSE`, and to use it one
must show that there is such a function. `UnfoldingExists` (CodecProofs) builds
it backwards from the last round of a loop and `FixedPointRuns` turns any
solution into the sequence of states the loop goes through; `JumpsExist` does the
same for a recursion that goes down in steps of any size, as the build-id search
and the digits of a number do. Induction principles are lemmas about a set of
numbers rather than an operator (`SetInduction` in SumLemmas, by the least
counterexample; `SeqInduction` for sequences that grow at the end). With these,
statements about all inputs of any length are within reach.

**Bytes**, CodecProofs and WireProofs:

* `CrcsAgree`: a word is the sum of its 16 bits and the division step is linear
  in them, so eight steps on any byte are determined by the powers of two, where
  the table is compared. `CrcAlwaysAgrees` is the property of the run.
* `FramesAreTheSame`: the ESP writer's batches put together are the Unix frame,
  by induction over the packet, for any size of a batch.
* `WholeFramesArrive`: on either transport, a packet of which every byte gets
  through is received as sent if the frame before it got through, and otherwise
  received or lost, never changed. `DecodeFrame` says what the decoder makes of
  an escaped frame after anything; `LineInv` ties the decoder to the line.
* `UnixLossIsLocal`: a writer that stops at the first failed write leaves a
  prefix of a frame, so no frame nobody sent is received and at most one more is
  lost (`TopRank`, `EveryRank` order what was sent and what arrived).
* `HeadersAreRight`: the pass that measures and the pass that emits agree
  (`PassesAgree`) on any arguments and any recorded lengths, so the header is
  right although strings change in between.
* `HandlersSendTheSame`: a bounded encoder that has been given some bytes holds
  them all, or has overflowed (`Holds`); each `put` preserves that, a string
  breaks it for good, and what comes out is the packet a task sends, or nothing.
  `HandlerEncodes` says so of any arguments up to 255, the property of the calls
  TLC enumerates.

**Formats and arguments**, CodecProofs and WireProofs:

* `MarksWhatIsMeant`: for a format of any number of pieces the C scanner marks no
  argument that is not the string of a bounded conversion; if `%.*s` occurs in
  the format it marks all of them, however the others are written; and `%.*s`
  occurs if one conversion is written so (`GuardSeesPlain`). One lemma says what
  the state of the scanner's loop is after a piece, whatever came before
  (`MarksPiece`), and `LoopMarksWhatIsMeant` what it is in the end.
* `TellsFormatsApart`: the C++ scanner takes a format of any number of pieces for
  printf's exactly if it has a conversion or a `%%` and no replacement field.
  `ScanIsRightAlways` is the property of the run, from both.
* `CopiesAreBounded`: with `BoundInv`, each length recorded by the first pass is
  within the precision of its argument as the format meant it, and the second
  pass copies no more than was recorded.
* `ArgumentsAreReadAsPassed`: by cases over types and ABIs.
* `LossesAreCounted`: by cases over the ways of writing a statement
  (`FateIsKnown`), for every level and every length of text.

**Images**, WireProofs:

* `RoundStaysInside` and `ScanStaysInsideAlways`: a round of the build-id search
  reads only its region and moves on. Without wrap-around rounding up adds less
  than the alignment (`RoundUpBounds`), and each test of the loop bounds the next
  sum (`DescriptorInside`).
* `BuildIdIsFound`: in a segment of any number of notes, cut off anywhere, the
  search finds the first build-id or says there is none; from the end of the
  segment backwards. `ImageIsNamed` is the property of the run: the segments of
  an image one after the other (`FirstSegment`), each port's own place, and
  strings by address. It holds for every width of `size_t` and of IDs.

**Plain text**, WireProofs: `TextsAreRight`, from five theorems about any texts.
Filters and readers of text are automata that read a sequence; reading on after
a piece is reading the joined text (`ReadsOn`).

* `ReturnsAreRight`: a text in any pieces comes out of the filter as the joined
  text with a return before each line feed that lacks one. `last` is the last
  character that came in, across pieces.
* `TimeIsRight`: digits written are digits read (`Spells`, by induction on the
  digits for hours beyond 99), and the four fields add up again.
* `NoColorOutlastsTheLine`: the terminal's state is decided by the last colour
  or reset; the filter's returns are neither, and the end of a line restores what
  its prefix changed.
* `HandlerTakesTheLine`: a packet of a handler holds the pieces so far or has
  overflowed, like the bounded encoder above.
* `DumpHoldsTheBytes`: the groups shown so far are a prefix of the bytes
  (`PrefixGrows`), the last group is what is left.

Only model-checked, and why:

* Liveness (`LockIsReleased`, `PortLockIsReleased`, `LookupReturns`,
  `QueuedIsDispatched`, `CallsReturn`): it needs fairness and ENABLED, which this
  prover does not handle.
* `LossIsLocal` for the ESP transport. Its writer goes on after a failed write, so
  a frame may arrive with a batch missing from its middle, and what is left can
  have a right CRC-16: "never a frame nobody sent" is true of the packets of the
  run and not of all. What holds for all is `WholeFramesArrive`.
* The three properties of the violation runs, which the code does not have.

## 5. Findings

* **isr_true**: `on9log_write_isr` returns true when the ring does not exist;
  the packet is neither queued nor counted. `on9log.h` says true means queued.
* **esp_init_twice**: `esp_stdio_log_vfs_init` adds its consoles before the
  steps that can fail; after a failure the retry adds them again and every frame
  is written twice. The comment says it is safe to call several times.
* **unix_metadata**: on macOS `on9log_unix_stdio_init_file` registers the sink
  before it writes the image-slide line; a thread that logs in between gets its
  frame out first. The README calls the line a leading one.

Seen while reading, without a run: `on9log_port_isr_ready` is documented to
test capacity but tests only that the ring exists; `add_output` returns
`ESP_OK` when `open()` failed; nothing in a BUFFER packet tells two overlapping
`on9log_write_buffer` calls of one tag and level apart, so a receiver cannot put
these together (tags are the caller's to choose, and `BufferChunksContiguous`
excludes the case); a format whose bounded strings are all written with a flag, a
width or a length (`%5.*s`, `%-.*s`, `%.*ls`) is not scanned, as
`on9log_mark_precision_string_args` first looks for `%.*s` (on9log.c:1865), and
its strings are sent up to their terminator (ScanIsRight says of such formats
only that nothing is marked wrongly); a console driver that prints from inside
`write()` can deadlock with another task's print (`DriverDeadlock`, reached in
esp_live); the terminator of a `%.*s` string is searched up to
`ON9LOG_MAX_DYNAMIC_STRING_LEN` before the precision is applied; a DROPPED
notice with no sink registered uses up the count and reaches nobody; in the
plain-text build a printf-style format with a `std::string` argument goes to
fmt, which prints the `%s`; a 32-bit position-independent Linux program sends
strings by addresses the host cannot resolve (ImageIsIdentified takes images to
be loaded where they were linked, slid (Mach-O), or above 4 GiB). `LossIsCounted` states two
exceptions: before the ring exists a handler's message is lost and true is
returned, and in plain text a `{}`-style message of a handler that exceeds
`ON9LOG_ISR_PACKET_MAX` returns false and is not counted, even where its level is
filtered. A thread that holds `flockfile` on the sink's stream while it logs
takes the `FILE` lock and the emit lock in the wrong order; UnixStdio has
threads that print with single calls only. Two
overlapping `on9log_esp_isr_init` make two rings; RingsAreDrained holds even so.
That the C macros mishandle `long` and floating point on 64-bit hosts is
documented; ReadAsPassed allows these two exceptions and shows there is no third.

## 6. Not modelled

* The time before the FreeRTOS scheduler starts: the locks do nothing and there
  is one context. The owner test compares with `xTaskGetCurrentTaskHandle()`,
  which is NULL then, as is a cleared owner.
* Weak memory effects beyond sequential consistency, and task priorities.
* What vfprintf and fmt make of a message (any text), the placement of literals
  in ELF sections, `source_location` and reflection.
* The table of reset reasons, `open`/`close`/`fstat` of `/dev/logger`,
  conversion of error codes: no state, one line each.
* Payloads of BUFFER, BOOT and DROPPED packets byte by byte: fixed layouts,
  written by the same `put` functions that Wire checks for LOG and TIME_SYNC.
* Configuration constants (they are the modules' CONSTANTS), examples, CI, the
  host tools of another repository.

## 7. State of the plan

All components above are modelled. Every invariant and every action property of
the passing runs is proved for all values of the constants, `LossIsLocal` for the
Unix transport only, and the refinement of AtomicLog with them. What could
be added:

1. A weaker promise of the ESP transport after a loss: whatever is received is
   part of what was sent, with whole batches missing. It would replace the
   CRC's share in `LossIsLocal` by a statement without probability.
2. The C11 orders of the tag filter that are weaker than `seq_cst`.
3. Liveness proofs, once the prover handles ENABLED.
