----------------------------- MODULE On9logCore -----------------------------
(***************************************************************************)
(* The emission path of on9log.c (binary build): several tasks call the    *)
(* public API at once, and every packet they produce is streamed, one sink *)
(* callback at a time, to the sinks registered in s_sinks while the emit   *)
(* lock is held.                                                           *)
(*                                                                         *)
(* A task's position inside an API call is pc[t].  A call that writes a    *)
(* packet goes through                                                     *)
(*   take   - exchange s_dropped_count with 0 (lock free)                  *)
(*   body   - decide whether the packet itself can be encoded              *)
(*   open   - wait for the emit lock, snapshot the sink table              *)
(*   number - take the sequence number and the timestamp                   *)
(*   start, payload, end - one callback per sink and per chunk             *)
(*   unlock - release the emit lock                                        *)
(* and a call whose exchange returned a non-zero count goes through open   *)
(* .. unlock twice, first for the DROPPED packet.                          *)
(*                                                                         *)
(* What a sink has seen is kept in the view variables.  They are history   *)
(* variables: no action reads them to decide anything.                     *)
(***************************************************************************)
EXTENDS Integers, FiniteSets, FiniteSetsExt

CONSTANTS
    Task,       \* threads of control in task context, the ISR drain task included
    Sink,       \* (descriptor, context) pairs a task may register
    Tag,        \* tags (with a level) that buffers are written under
    MaxSinks,   \* ON9LOG_MAX_SINKS
    SeqMod,     \* sequence numbers are 0 .. SeqMod-1 (65536 in the code)
    ChunkMax,   \* data bytes one BUFFER packet carries at most
    MaxParts,   \* bound: payload callbacks per sink and packet
    BufferLen,  \* bound: the lengths buffers have
    MaxTime,    \* bound: last clock value
    MaxOwed,    \* bound: drops counted and not yet reported
    MayCall,    \* which API functions each task calls: [Task -> SUBSET Fn]
    NoTask, NoSink, None

Fn == {"write", "buffer", "boot", "dispatch", "add", "remove"}

ASSUME CoreAssumption ==
    /\ IsFiniteSet(Task)
    /\ NoTask \notin Task
    /\ NoSink \notin Sink
    /\ None \notin Nat
    /\ MaxSinks \in Nat \ {0}
    /\ SeqMod \in Nat \ {0, 1}
    /\ ChunkMax \in Nat \ {0}
    /\ MaxParts \in Nat
    /\ BufferLen \subseteq Nat
    /\ MaxTime \in Nat
    /\ MaxOwed \in Nat
    /\ MayCall \in [Task -> SUBSET Fn]

Slot == 1 .. MaxSinks

PacketType == {"LOG", "BUFFER", "DROPPED", "BOOT", "TIME_SYNC"}

(***************************************************************************)
(* A packet as far as the properties tell packets apart.  val is the count *)
(* of a DROPPED packet and the offset of a BUFFER packet; total and tag    *)
(* are the length of the whole buffer and its tag; ts is None when the     *)
(* packet carries its own (ISR) timestamp.  Which task sent it (by) is not *)
(* on the wire: the properties use it to tell packets apart.               *)
(***************************************************************************)
Packet == [type  : PacketType,
           by    : Task,
           seq   : 0 .. SeqMod - 1,
           ts    : Nat \cup {None},
           val   : Nat,
           total : Nat,
           tag   : Tag \cup {None}]

Template(t, type, val) ==
    [type |-> type, by |-> t, seq |-> 0, ts |-> None, val |-> val, total |-> 0, tag |-> None]

ChunkTemplate(t, at, total, tag) ==
    [type |-> "BUFFER", by |-> t, seq |-> 0, ts |-> None, val |-> at, total |-> total, tag |-> tag]

Stamped(p, n, time) == [p EXCEPT !.seq = n, !.ts = time]

\* Mutant of NextSeq: the 16-bit counter does not wrap.
NextSeqUnwrapped(n) == n + 1

NextSeq(n) == IF n = SeqMod - 1 THEN 0 ELSE n + 1

Numbered(p) == p.type # "TIME_SYNC"

\* Bytes the chunk of a buffer that begins at off carries.
ChunkLen(total, off) == IF total - off > ChunkMax THEN ChunkMax ELSE total - off

VARIABLES
    emitLock,  \* owner of the emit lock, or NoTask
    sinks,     \* s_sinks: slot -> registered sink, or NoSink
    seq,       \* s_seq, as the 16-bit value the next numbered packet gets
    dropped,   \* s_dropped_count
    now,       \* on9log_port_timestamp_ms
    pc,        \* where each task is
    call,      \* the API call each task is in: [fn, sink, total, type, tag]
    taken,     \* local dropped_count of each task
    off,       \* local offset of a buffer call
    cur,       \* the packet each task is emitting
    snap,      \* stream->sinks: the table as stream_open saw it
    todo,      \* slots of snap the current round of callbacks has still to visit
    parts,     \* payload chunks still to send
    view,      \* sink -> the last thing that happened to it: [cb, type, by, seq, tag]
    lastSeq,   \* sink -> sequence number of the last numbered packet it got
    lastTs,    \* sink -> timestamp of the last packet stamped at emission
    asm,       \* sink -> tag -> the last chunk of a buffer of that tag it was shown
    mixed,     \* tag -> the calls writing buffers of that tag now, or last, overlapped
    owed       \* drops counted so far minus drops reported so far

globals == <<emitLock, sinks, seq, dropped, now>>
locals  == <<pc, call, taken, off, cur, snap, todo, parts>>
history == <<view, lastSeq, lastTs, asm, mixed, owed>>
vars    == <<globals, locals, history>>

-----------------------------------------------------------------------------
NoTable == [i \in Slot |-> NoSink]

ApiCall(fn, sink, total, type) ==
    [fn |-> fn, sink |-> sink, total |-> total, type |-> type, tag |-> None]

BufferCall(total, tag) ==
    [fn |-> "buffer", sink |-> NoSink, total |-> total, type |-> "LOG", tag |-> tag]

NoCall == ApiCall("none", NoSink, 0, "LOG")

\* What a sink has seen of the buffers of a tag: nothing since it was registered.
NothingSeen == [at |-> None, next |-> None, total |-> None]

\* ... or the chunk that packet p carries.
ChunkSeen(p) ==
    [at |-> p.val, next |-> p.val + ChunkLen(p.total, p.val), total |-> p.total]

\* The sink was registered or removed: no packet.
Quiet(cb) == [cb |-> cb, type |-> "LOG", by |-> NoTask, seq |-> 0, tag |-> None]

Registered(s) == \E i \in Slot : sinks[i] = s

\* Task t is inside a call that writes a buffer of tag g.
InBuffer(t, g) == call[t].fn = "buffer" /\ call[t].tag = g

Init ==
    /\ emitLock = NoTask
    /\ sinks = NoTable
    /\ seq = 0
    /\ dropped = 0
    /\ now = 0
    /\ pc = [t \in Task |-> "idle"]
    /\ call = [t \in Task |-> NoCall]
    /\ taken = [t \in Task |-> 0]
    /\ off = [t \in Task |-> 0]
    /\ cur = [t \in Task |-> Template(t, "LOG", 0)]
    /\ snap = [t \in Task |-> NoTable]
    /\ todo = [t \in Task |-> {}]
    /\ parts = [t \in Task |-> 0]
    /\ view = [s \in Sink |-> Quiet("removed")]
    /\ lastSeq = [s \in Sink |-> None]
    /\ lastTs = [s \in Sink |-> 0]
    /\ asm = [s \in Sink |-> [g \in Tag |-> NothingSeen]]
    /\ mixed = [g \in Tag |-> FALSE]
    /\ owed = 0

\* atomic_fetch_add(&s_dropped_count, 1): a message is lost here.
CountDrop ==
    /\ owed < MaxOwed
    /\ dropped' = dropped + 1
    /\ owed' = owed + 1

\* The locals of the call are gone.
Return(t) ==
    /\ pc' = [pc EXCEPT ![t] = "idle"]
    /\ call' = [call EXCEPT ![t] = NoCall]
    /\ off' = [off EXCEPT ![t] = 0]

Goto(t, label) == pc' = [pc EXCEPT ![t] = label]

-----------------------------------------------------------------------------
(***************************************************************************)
(* The API calls.  A call whose level is filtered out, or whose arguments  *)
(* the function rejects without counting a drop, changes nothing and is    *)
(* a stuttering step.                                                      *)
(***************************************************************************)

BeginWrite(t) ==
    /\ pc[t] = "idle" /\ "write" \in MayCall[t]
    /\ call' = [call EXCEPT ![t] = ApiCall("write", NoSink, 0, "LOG")]
    /\ Goto(t, "take")
    /\ UNCHANGED <<globals, taken, off, cur, snap, todo, parts, history>>

BeginBuffer(t) ==
    /\ pc[t] = "idle" /\ "buffer" \in MayCall[t]
    /\ \E n \in BufferLen, g \in Tag :
          /\ call' = [call EXCEPT ![t] = BufferCall(n, g)]
          /\ mixed' = [mixed EXCEPT ![g] = \E u \in Task \ {t} : InBuffer(u, g)]
    /\ Goto(t, "take")
    /\ UNCHANGED <<globals, taken, off, cur, snap, todo, parts,
                   view, lastSeq, lastTs, asm, owed>>

\* A NULL buffer of non-zero length, or one longer than 32 bits can say.
RejectBuffer(t) ==
    /\ pc[t] = "idle" /\ "buffer" \in MayCall[t]
    /\ CountDrop
    /\ UNCHANGED <<emitLock, sinks, seq, now, locals, view, lastSeq, lastTs, asm, mixed>>

\* BOOT is emitted at once: it looks at neither the level nor s_dropped_count.
BeginBoot(t) ==
    /\ pc[t] = "idle" /\ "boot" \in MayCall[t]
    /\ call' = [call EXCEPT ![t] = ApiCall("boot", NoSink, 0, "LOG")]
    /\ cur' = [cur EXCEPT ![t] = Template(t, "BOOT", 0)]
    /\ Goto(t, "open")
    /\ UNCHANGED <<globals, taken, off, snap, todo, parts, history>>

\* A packet serialised earlier: an ISR log or a TIME_SYNC.
BeginDispatch(t, type) ==
    /\ pc[t] = "idle" /\ "dispatch" \in MayCall[t]
    /\ call' = [call EXCEPT ![t] = ApiCall("dispatch", NoSink, 0, type)]
    /\ Goto(t, "take")
    /\ UNCHANGED <<globals, taken, off, cur, snap, todo, parts, history>>

BeginTableEdit(t, fn, s) ==
    /\ pc[t] = "idle" /\ fn \in MayCall[t]
    /\ call' = [call EXCEPT ![t] = ApiCall(fn, s, 0, "LOG")]
    /\ Goto(t, "table")
    /\ UNCHANGED <<globals, taken, off, cur, snap, todo, parts, history>>

-----------------------------------------------------------------------------
\* The exchange of s_dropped_count with zero finds nothing to report ...
TakeNone(t) ==
    /\ pc[t] = "take"
    /\ dropped = 0
    /\ Goto(t, "body")
    /\ UNCHANGED <<globals, call, taken, off, cur, snap, todo, parts, history>>

\* Mutant of TakeDropped: a load where the code exchanges with zero.
TakeDroppedLoad(t) ==
    /\ pc[t] = "take"
    /\ dropped # 0
    /\ taken' = [taken EXCEPT ![t] = dropped]
    /\ cur' = [cur EXCEPT ![t] = Template(t, "DROPPED", dropped)]
    /\ Goto(t, "open")
    /\ UNCHANGED <<globals, call, off, snap, todo, parts, history>>

\* ... or drops, which a DROPPED packet announces before anything else is sent.
TakeDropped(t) ==
    /\ pc[t] = "take"
    /\ dropped # 0
    /\ taken' = [taken EXCEPT ![t] = dropped]
    /\ dropped' = 0
    /\ cur' = [cur EXCEPT ![t] = Template(t, "DROPPED", dropped)]
    /\ Goto(t, "open")
    /\ UNCHANGED <<emitLock, sinks, seq, now, call, off, snap, todo, parts, history>>

\* The arguments fit the 16-bit payload length: emit the LOG packet.
WriteFits(t) ==
    /\ pc[t] = "body" /\ call[t].fn = "write"
    /\ cur' = [cur EXCEPT ![t] = Template(t, "LOG", 0)]
    /\ Goto(t, "open")
    /\ UNCHANGED <<globals, call, taken, off, snap, todo, parts, history>>

\* The arguments (or an inline tag) do not fit: count the drop and return.
PacketTooLong(t) ==
    /\ pc[t] = "body" /\ call[t].fn \in {"write", "buffer"}
    /\ CountDrop
    /\ Return(t)
    /\ UNCHANGED <<emitLock, sinks, seq, now, taken, cur, snap, todo, parts,
                   view, lastSeq, lastTs, asm, mixed>>

\* Mutant of EmitChunk: every chunk's header says offset 0.
EmitChunkAtZero(t) ==
    /\ pc[t] \in {"body", "chunk"} /\ call[t].fn = "buffer"
    /\ cur' = [cur EXCEPT ![t] = ChunkTemplate(t, 0, call[t].total, call[t].tag)]
    /\ off' = [off EXCEPT ![t] = @ + ChunkLen(call[t].total, @)]
    /\ Goto(t, "open")
    /\ UNCHANGED <<globals, call, taken, snap, todo, parts, history>>

\* One round of the chunk loop; an empty buffer takes it exactly once.
EmitChunk(t) ==
    /\ pc[t] \in {"body", "chunk"} /\ call[t].fn = "buffer"
    /\ cur' = [cur EXCEPT ![t] = ChunkTemplate(t, off[t], call[t].total, call[t].tag)]
    /\ off' = [off EXCEPT ![t] = @ + ChunkLen(call[t].total, @)]
    /\ Goto(t, "open")
    /\ UNCHANGED <<globals, call, taken, snap, todo, parts, history>>

EmitDispatched(t) ==
    /\ pc[t] = "body" /\ call[t].fn = "dispatch"
    /\ cur' = [cur EXCEPT ![t] = Template(t, call[t].type, 0)]
    /\ Goto(t, "open")
    /\ UNCHANGED <<globals, call, taken, off, snap, todo, parts, history>>

-----------------------------------------------------------------------------
(***************************************************************************)
(* A packet's stream.                                                      *)
(***************************************************************************)
\* Mutant of StreamOpen: the stream is opened without waiting for the lock.
StreamOpenUnlocked(t) ==
    /\ pc[t] = "open"
    /\ emitLock' = t
    /\ snap' = [snap EXCEPT ![t] = sinks]
    /\ Goto(t, "number")
    /\ UNCHANGED <<sinks, seq, dropped, now, call, taken, off, cur, todo, parts, history>>

StreamOpen(t) ==
    /\ pc[t] = "open"
    /\ emitLock = NoTask
    /\ emitLock' = t
    /\ snap' = [snap EXCEPT ![t] = sinks]
    /\ Goto(t, "number")
    /\ UNCHANGED <<sinks, seq, dropped, now, call, taken, off, cur, todo, parts, history>>

\* Every slot the snapshot holds a sink in.
Occupied(table) == {i \in Slot : table[i] # NoSink}

\* Mutant of NumberPacket: TIME_SYNC uses up a sequence number too.
NumberEveryPacket(t) ==
    /\ pc[t] = "number"
    /\ cur' = [cur EXCEPT ![t] = Stamped(@, seq, now)]
    /\ seq' = NextSeq(seq)
    /\ \E n \in 0 .. MaxParts : parts' = [parts EXCEPT ![t] = n]
    /\ todo' = [todo EXCEPT ![t] = Occupied(snap[t])]
    /\ Goto(t, "start")
    /\ UNCHANGED <<emitLock, sinks, dropped, now, call, taken, off, snap, history>>

(***************************************************************************)
(* The header gets its number and, unless the packet was serialised        *)
(* earlier, its timestamp.  The number of payload chunks that follow       *)
(* depends on the arguments: any number up to the bound.                   *)
(***************************************************************************)
NumberPacket(t) ==
    /\ pc[t] = "number"
    /\ LET stamped == call[t].fn # "dispatch" \/ cur[t].type = "DROPPED"
       IN  cur' = [cur EXCEPT ![t] = Stamped(@, IF Numbered(@) THEN seq ELSE 0,
                                                IF stamped THEN now ELSE None)]
    /\ seq' = IF Numbered(cur[t]) THEN NextSeq(seq) ELSE seq
    /\ \E n \in 0 .. MaxParts : parts' = [parts EXCEPT ![t] = n]
    /\ todo' = [todo EXCEPT ![t] = Occupied(snap[t])]
    /\ Goto(t, "start")
    /\ UNCHANGED <<emitLock, sinks, dropped, now, call, taken, off, snap, history>>

\* The callbacks of a round visit the snapshot in slot order.
VisitSlot(t, i) ==
    /\ i \in todo[t]
    /\ \A j \in todo[t] : i <= j
    /\ todo' = [todo EXCEPT ![t] = @ \ {i}]

\* What sink s remembers after the call cb about packet p.
Sees(s, cb, p) ==
    view' = [view EXCEPT ![s] = [cb |-> cb, type |-> p.type, by |-> p.by, seq |-> p.seq,
                                 tag |-> p.tag]]

StartCb(t, i) ==
    /\ pc[t] = "start"
    /\ VisitSlot(t, i)
    /\ LET s == snap[t][i]
           p == cur[t]
       IN  /\ Sees(s, "start", p)
           /\ lastSeq' = [lastSeq EXCEPT ![s] = IF Numbered(p) THEN p.seq ELSE @]
           /\ lastTs' = [lastTs EXCEPT ![s] = IF p.ts # None THEN p.ts ELSE @]
           /\ asm' = IF p.type = "BUFFER"
                     THEN [asm EXCEPT ![s] = [@ EXCEPT ![p.tag] = ChunkSeen(p)]]
                     ELSE asm
    /\ UNCHANGED <<globals, pc, call, taken, off, cur, snap, parts, mixed, owed>>

PayloadCb(t, i) ==
    /\ pc[t] = "payload"
    /\ VisitSlot(t, i)
    /\ Sees(snap[t][i], "payload", cur[t])
    /\ UNCHANGED <<globals, pc, call, taken, off, cur, snap, parts,
                   lastSeq, lastTs, asm, mixed, owed>>

EndCb(t, i) ==
    /\ pc[t] = "end"
    /\ VisitSlot(t, i)
    /\ Sees(snap[t][i], "end", cur[t])
    /\ UNCHANGED <<globals, pc, call, taken, off, cur, snap, parts,
                   lastSeq, lastTs, asm, mixed, owed>>

\* Every sink had its call: go on with the next payload chunk ...
NextChunk(t) ==
    /\ pc[t] \in {"start", "payload"}
    /\ todo[t] = {}
    /\ parts[t] > 0
    /\ parts' = [parts EXCEPT ![t] = @ - 1]
    /\ todo' = [todo EXCEPT ![t] = Occupied(snap[t])]
    /\ Goto(t, "payload")
    /\ UNCHANGED <<globals, call, taken, off, cur, snap, history>>

\* ... or, when there is none, with the end callbacks.
LastChunkSent(t) ==
    /\ pc[t] \in {"start", "payload"}
    /\ todo[t] = {}
    /\ parts[t] = 0
    /\ todo' = [todo EXCEPT ![t] = Occupied(snap[t])]
    /\ Goto(t, "end")
    /\ UNCHANGED <<globals, call, taken, off, cur, snap, parts, history>>

\* Every sink saw the end: on9log_stream_end releases the lock.
StreamEnd(t) ==
    /\ pc[t] = "end"
    /\ todo[t] = {}
    /\ emitLock' = NoTask
    /\ cur' = [cur EXCEPT ![t] = Template(t, "LOG", 0)]
    /\ snap' = [snap EXCEPT ![t] = NoTable]
    /\ UNCHANGED <<sinks, seq, dropped, now, todo, parts, view, lastSeq, lastTs, asm, mixed>>

\* After the DROPPED packet comes the packet the call is about.
EndNotice(t) ==
    /\ cur[t].type = "DROPPED"
    /\ StreamEnd(t)
    /\ taken' = [taken EXCEPT ![t] = 0]
    /\ owed' = owed - cur[t].val
    /\ Goto(t, "body")
    /\ UNCHANGED <<call, off>>

\* After a chunk comes the rest of the buffer.
EndChunk(t) ==
    /\ cur[t].type = "BUFFER"
    /\ off[t] < call[t].total
    /\ StreamEnd(t)
    /\ Goto(t, "chunk")
    /\ UNCHANGED <<call, taken, off, owed>>

EndPacket(t) ==
    /\ cur[t].type # "DROPPED"
    /\ cur[t].type = "BUFFER" => off[t] = call[t].total
    /\ StreamEnd(t)
    /\ Return(t)
    /\ UNCHANGED <<taken, owed>>

-----------------------------------------------------------------------------
(***************************************************************************)
(* The sink table.                                                         *)
(***************************************************************************)
\* Mutant of TableLock: the table is edited under another lock than the emit lock.
TableOtherLock(t) ==
    /\ pc[t] = "table"
    /\ Goto(t, "edit")
    /\ UNCHANGED <<globals, call, taken, off, cur, snap, todo, parts, history>>

TableLock(t) ==
    /\ pc[t] = "table"
    /\ emitLock = NoTask
    /\ emitLock' = t
    /\ Goto(t, "edit")
    /\ UNCHANGED <<sinks, seq, dropped, now, call, taken, off, cur, snap, todo, parts, history>>

Free == {i \in Slot : sinks[i] = NoSink}

\* Mutant of AddSink: no search for the sink before it is entered.
AddSinkAgain(t) ==
    /\ pc[t] = "edit" /\ call[t].fn = "add"
    /\ \E i \in Free :
          /\ \A j \in Free : i <= j
          /\ sinks' = [sinks EXCEPT ![i] = call[t].sink]
    /\ view' = [view EXCEPT ![call[t].sink] = Quiet("added")]
    /\ Goto(t, "unlock")
    /\ UNCHANGED <<emitLock, seq, dropped, now, call, taken, off, cur, snap, todo, parts,
                   lastSeq, lastTs, asm, mixed, owed>>

AddSink(t) ==
    /\ pc[t] = "edit" /\ call[t].fn = "add"
    /\ ~Registered(call[t].sink)
    /\ \E i \in Free :
          /\ \A j \in Free : i <= j
          /\ sinks' = [sinks EXCEPT ![i] = call[t].sink]
    /\ view' = [view EXCEPT ![call[t].sink] = Quiet("added")]
    /\ Goto(t, "unlock")
    /\ UNCHANGED <<emitLock, seq, dropped, now, call, taken, off, cur, snap, todo, parts,
                   lastSeq, lastTs, asm, mixed, owed>>

\* A sink registered again later starts over: what it saw is forgotten.
RemoveSink(t) ==
    /\ pc[t] = "edit" /\ call[t].fn = "remove"
    /\ \E i \in Slot :
          /\ sinks[i] = call[t].sink
          /\ \A j \in Slot : sinks[j] = call[t].sink => i <= j
          /\ sinks' = [sinks EXCEPT ![i] = NoSink]
    /\ view' = [view EXCEPT ![call[t].sink] = Quiet("removed")]
    /\ lastSeq' = [lastSeq EXCEPT ![call[t].sink] = None]
    /\ lastTs' = [lastTs EXCEPT ![call[t].sink] = 0]
    /\ asm' = [asm EXCEPT ![call[t].sink] = [g \in Tag |-> NothingSeen]]
    /\ Goto(t, "unlock")
    /\ UNCHANGED <<emitLock, seq, dropped, now, call, taken, off, cur, snap, todo, parts, mixed, owed>>

\* Mutant of TableUnchanged: an early return that forgets the unlock.
TableReturnLocked(t) ==
    /\ pc[t] = "edit"
    /\ \/ call[t].fn = "add" /\ (Registered(call[t].sink) \/ Free = {})
       \/ call[t].fn = "remove" /\ ~Registered(call[t].sink)
    /\ Return(t)
    /\ UNCHANGED <<globals, taken, cur, snap, todo, parts, history>>

\* Already there (ON9LOG_OK), no free slot (NO_MEM), or nothing to remove (NOT_FOUND).
TableUnchanged(t) ==
    /\ pc[t] = "edit"
    /\ \/ call[t].fn = "add" /\ (Registered(call[t].sink) \/ Free = {})
       \/ call[t].fn = "remove" /\ ~Registered(call[t].sink)
    /\ Goto(t, "unlock")
    /\ UNCHANGED <<globals, call, taken, off, cur, snap, todo, parts, history>>

TableUnlock(t) ==
    /\ pc[t] = "unlock"
    /\ emitLock' = NoTask
    /\ Return(t)
    /\ UNCHANGED <<sinks, seq, dropped, now, taken, cur, snap, todo, parts, history>>

-----------------------------------------------------------------------------
\* An interrupt handler lost a packet: it could not be encoded or queued.
IsrDrop ==
    /\ CountDrop
    /\ UNCHANGED <<emitLock, sinks, seq, now, locals, view, lastSeq, lastTs, asm, mixed>>

Tick ==
    /\ now < MaxTime
    /\ now' = now + 1
    /\ UNCHANGED <<emitLock, sinks, seq, dropped, locals, history>>

\* The steps of a call once it has begun.
InCall(t) ==
    \/ TakeNone(t) \/ TakeDropped(t)
    \/ WriteFits(t) \/ PacketTooLong(t) \/ EmitChunk(t) \/ EmitDispatched(t)
    \/ StreamOpen(t) \/ NumberPacket(t) \/ NextChunk(t) \/ LastChunkSent(t)
    \/ EndNotice(t) \/ EndChunk(t) \/ EndPacket(t)
    \/ \E i \in Slot : StartCb(t, i) \/ PayloadCb(t, i) \/ EndCb(t, i)
    \/ TableLock(t) \/ AddSink(t) \/ RemoveSink(t) \/ TableUnchanged(t) \/ TableUnlock(t)

Begin(t) ==
    \/ BeginWrite(t) \/ BeginBuffer(t) \/ RejectBuffer(t) \/ BeginBoot(t)
    \/ \E type \in {"LOG", "TIME_SYNC"} : BeginDispatch(t, type)
    \/ \E fn \in {"add", "remove"}, s \in Sink : BeginTableEdit(t, fn, s)

Next ==
    \/ \E t \in Task : Begin(t) \/ InCall(t)
    \/ IsrDrop
    \/ Tick

Spec == Init /\ [][Next]_vars

(***************************************************************************)
(* Fairness.  A task that can take a step of its call is eventually run:   *)
(* the emit lock is a mutex with priority inheritance (pthread mutex on    *)
(* hosts) and sink callbacks return.  Nothing is assumed about which       *)
(* waiting task gets the lock next.                                        *)
(***************************************************************************)
LiveSpec == Spec /\ \A t \in Task : WF_vars(InCall(t))

-----------------------------------------------------------------------------
PC == {"idle", "take", "body", "chunk", "open", "number", "start", "payload", "end",
       "table", "edit", "unlock"}

Call == [fn    : Fn \cup {"none"},
         sink  : Sink \cup {NoSink},
         total : Nat,
         type  : {"LOG", "TIME_SYNC"},
         tag   : Tag \cup {None}]

View == [cb   : {"added", "removed", "start", "payload", "end"},
         type : PacketType,
         by   : Task \cup {NoTask},
         seq  : 0 .. SeqMod - 1,
         tag  : Tag \cup {None}]

Offset == Nat \cup {None}

\* Every variable holds a value of its kind.
TypeOK ==
    /\ emitLock \in Task \cup {NoTask}
    /\ sinks \in [Slot -> Sink \cup {NoSink}]
    /\ seq \in 0 .. SeqMod - 1
    /\ dropped \in Nat
    /\ now \in Nat
    /\ pc \in [Task -> PC]
    /\ call \in [Task -> Call]
    /\ taken \in [Task -> Nat]
    /\ off \in [Task -> Nat]
    /\ cur \in [Task -> Packet]
    /\ snap \in [Task -> [Slot -> Sink \cup {NoSink}]]
    /\ todo \in [Task -> SUBSET Slot]
    /\ parts \in [Task -> Nat]
    /\ view \in [Sink -> View]
    /\ lastSeq \in [Sink -> (0 .. SeqMod - 1) \cup {None}]
    /\ lastTs \in [Sink -> Nat]
    /\ asm \in [Sink -> [Tag -> [at : Offset, next : Offset, total : Offset]]]
    /\ mixed \in [Tag -> BOOLEAN]
    /\ owed \in Int

-----------------------------------------------------------------------------
(***************************************************************************)
(* Properties.                                                             *)
(***************************************************************************)
SamePacket(a, b) == a.by = b.by /\ a.seq = b.seq /\ a.type = b.type

\* b may be the next thing that happens to a sink after a.
MayFollow(a, b) ==
    \/ b.cb = "added"   /\ a.cb = "removed"
    \/ b.cb = "removed" /\ a.cb \in {"added", "end"}
    \/ b.cb = "start"   /\ a.cb \in {"added", "end"}
    \/ b.cb \in {"payload", "end"} /\ a.cb \in {"start", "payload"} /\ SamePacket(a, b)

(***************************************************************************)
(* A sink sees whole packets only: start_cb, payload_cb ..., end_cb of one *)
(* packet before start_cb of the next, never a mixture of two tasks'       *)
(* packets; registration and removal fall between packets; and after       *)
(* on9log_remove_sink took effect no callback comes until the sink is      *)
(* registered again ("once it returns, the sink is never called again").   *)
(***************************************************************************)
WholePackets ==
    [][\A s \in Sink : view'[s] # view[s] => MayFollow(view[s], view'[s])]_view

\* In this step start_cb of sink s is called for a packet of one of these types.
Starts(s, types) ==
    /\ view[s].cb # "start" /\ view'[s].cb = "start"
    /\ view'[s].type \in types

(***************************************************************************)
(* The sequence numbers a sink sees are consecutive (modulo the counter's  *)
(* width) for as long as it stays registered, whichever tasks wrote the    *)
(* packets and whether they came through emit_header or dispatch_packet;   *)
(* TIME_SYNC is not part of the sequence.                                  *)
(***************************************************************************)
NoGapInSequence ==
    [][\A s \in Sink :
          Starts(s, PacketType \ {"TIME_SYNC"}) =>
             \/ lastSeq[s] = None
             \/ view'[s].seq = NextSeq(lastSeq[s])]_view

(***************************************************************************)
(* Packets stamped at emission reach every sink in the order of their      *)
(* timestamps: the clock is read under the emit lock.                      *)
(***************************************************************************)
TimestampsInWireOrder ==
    [][\A s \in Sink : view'[s].cb = "start" => lastTs[s] <= lastTs'[s]]_lastTs

(***************************************************************************)
(* A sink can put a buffer together again from what the packets carry, the *)
(* tag and the offsets: of a tag whose buffer calls do not overlap, it is  *)
(* shown each buffer from offset 0 to its end, no byte missing or repeated *)
(* (on9log_write_buffer), although every chunk is a packet of its own and  *)
(* the chunks of other tags, other packets, DROPPED notices and table      *)
(* edits come in between.  Nothing in a BUFFER packet tells the chunks of  *)
(* two overlapping calls of one tag apart; once those calls are over, the  *)
(* next buffer of the tag can be put together again.                       *)
(***************************************************************************)
BufferChunksContiguous ==
    [][\A s \in Sink :
          LET g == view'[s].tag
              a == asm[s][g]
              b == asm'[s][g]
          IN  Starts(s, {"BUFFER"}) /\ ~mixed[g] =>
                 \/ a = NothingSeen
                 \/ b.at = 0 /\ a.next = a.total
                 \/ b.at = a.next /\ a.next < a.total /\ b.total = a.total]_view

\* A sink is in the table at most once, so it gets each callback once.
NoSinkTwice ==
    \A i, j \in Slot : sinks[i] = sinks[j] /\ sinks[i] # NoSink => i = j

(***************************************************************************)
(* No drop is forgotten or reported twice: what was counted and not yet    *)
(* announced in a DROPPED packet is in s_dropped_count or in the hands of  *)
(* a task that exchanged it and has not finished its DROPPED packet.       *)
(***************************************************************************)
DropsConserved ==
    owed = dropped + MapThenSumSet(LAMBDA t : taken[t], Task)

\* Whoever holds the emit lock lets go of it, on every path out of a call.
LockIsReleased ==
    \A t \in Task : emitLock = t ~> emitLock # t

-----------------------------------------------------------------------------
(***************************************************************************)
(* Why the properties hold: the invariant behind them.                     *)
(***************************************************************************)
Delivering(t) == pc[t] \in {"start", "payload", "end"}

Holding(t) == Delivering(t) \/ pc[t] \in {"number", "edit", "unlock"}

\* The sink is between two packets, or inside packet p.
AtRest(s) == view[s].cb \in {"added", "end"}
Inside(s, p) == view[s].cb \in {"start", "payload"} /\ SamePacket(view[s], p)

\* The emit lock is held exactly by the task inside a locked region.
LockInv == \A t \in Task : Holding(t) <=> emitLock = t

\* The snapshot of a stream stays equal to the table while the stream is open.
SnapInv ==
    \A t \in Task :
       /\ pc[t] \in {"table", "edit"} => call[t].sink \in Sink
       /\ Delivering(t) \/ pc[t] = "number" => snap[t] = sinks
       /\ Delivering(t) => todo[t] \subseteq Occupied(sinks)
       /\ cur[t].by = t

\* A sink outside the table is silent and has forgotten everything.
UnregisteredInv ==
    \A s \in Sink : ~Registered(s) => view[s].cb = "removed" /\ lastSeq[s] = None /\ lastTs[s] = 0

\* Where a registered sink stands, by how far the stream in progress has come.
RegisteredInv ==
    \A i \in Occupied(sinks) :
       LET s == sinks[i]
       IN  /\ (\A t \in Task : ~Delivering(t)) => AtRest(s)
           /\ \A t \in Task :
                 /\ pc[t] = "start" => IF i \in todo[t] THEN AtRest(s) ELSE Inside(s, cur[t])
                 /\ pc[t] = "payload" => Inside(s, cur[t])
                 /\ pc[t] = "end" => IF i \in todo[t] THEN Inside(s, cur[t]) ELSE AtRest(s)

\* Task t has yet to show the sink in slot i the numbered packet it is starting.
Announcing(t, i) == pc[t] = "start" /\ i \in todo[t] /\ Numbered(cur[t])

\* Each registered sink is exactly one number behind the next packet it will see.
SequenceInv ==
    /\ \A t \in Task : pc[t] = "start" /\ Numbered(cur[t]) => seq = NextSeq(cur[t].seq)
    /\ \A i \in Occupied(sinks) :
          lastSeq[sinks[i]] # None =>
             /\ \A t \in Task : Announcing(t, i) => cur[t].seq = NextSeq(lastSeq[sinks[i]])
             /\ (\A t \in Task : ~Announcing(t, i)) => seq = NextSeq(lastSeq[sinks[i]])

\* No sink is ahead of the clock, nor of the packet being started.
TimeInv ==
    /\ \A s \in Sink : lastTs[s] <= now
    /\ \A t \in Task : pc[t] = "start" /\ cur[t].ts # None =>
          /\ cur[t].ts <= now
          /\ \A i \in todo[t] : lastTs[sinks[i]] <= cur[t].ts

(***************************************************************************)
(* The invariant of the emission path: the lock, the snapshot, what each   *)
(* sink has seen and the sequence counter agree at every step of every     *)
(* interleaving.                                                           *)
(***************************************************************************)
EmissionInv ==
    /\ LockInv /\ SnapInv /\ NoSinkTwice
    /\ UnregisteredInv /\ RegisteredInv /\ SequenceInv /\ TimeInv

-----------------------------------------------------------------------------
(***************************************************************************)
(* The emission path implements AtomicLog.  A packet is delivered, as far  *)
(* as AtomicLog can tell, when it gets its number: a sink whose start_cb   *)
(* is still to come counts as having been shown the packet.                *)
(***************************************************************************)
\* Task t is on its way to sink s with the start of its packet.
Approaching(t, s) == pc[t] = "start" /\ \E i \in todo[t] : snap[t][i] = s

\* The packet sink s was shown last, or is about to be shown.
LastShown(s) ==
    IF \E t \in Task : Approaching(t, s)
    THEN LET p == cur[CHOOSE t \in Task : Approaching(t, s)]
         IN  [type |-> p.type, by |-> p.by, seq |-> p.seq]
    ELSE [type |-> view[s].type, by |-> view[s].by, seq |-> view[s].seq]

\* ... and the latest time of emission that goes with it.
LastStamp(s) ==
    IF \E t \in Task : Approaching(t, s) /\ cur[t].ts # None
    THEN cur[CHOOSE t \in Task : Approaching(t, s)].ts
    ELSE lastTs[s]

Atomic == INSTANCE AtomicLog WITH
    registered <- {s \in Sink : Registered(s)},
    next       <- seq,
    clock      <- now,
    last       <- [s \in Sink |-> LastShown(s)],
    stamp      <- [s \in Sink |-> LastStamp(s)]

(***************************************************************************)
(* Whatever the tasks' steps interleave with, the sinks cannot tell the    *)
(* code from one that numbers, stamps and shows each packet to all of them *)
(* at once: no sink is left out of a packet or shown one in another order, *)
(* and a sink registered or removed while a packet is on its way sees all  *)
(* of it or nothing (on9log_stream_open .. on9log_stream_end against       *)
(* on9log_add_sink and on9log_remove_sink).                                *)
(***************************************************************************)
DeliveryIsAtomic == Atomic!Spec

=============================================================================
