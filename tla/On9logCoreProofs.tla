-------------------------- MODULE On9logCoreProofs --------------------------
EXTENDS On9logCore, SumLemmas

-----------------------------------------------------------------------------
\* The buffer loop's offset never passes the end of the buffer.
OffsetInv ==
    \A t \in Task : /\ off[t] <= call[t].total
                    /\ pc[t] = "idle" => off[t] = 0
                    /\ cur[t].type = "BUFFER" => cur[t].val <= cur[t].total

Typed == TypeOK /\ OffsetInv

LEMMA InitTyped == Init => Typed
  BY CoreAssumption DEF Init, Typed, TypeOK, OffsetInv, Slot, NoTable, NoCall, ApiCall, NothingSeen,
     Quiet, Template, Packet, PacketType, Call, Fn, View, Offset, PC

LEMMA NextSeqType ==
    ASSUME NEW n \in 0 .. SeqMod - 1 PROVE NextSeq(n) \in 0 .. SeqMod - 1
  BY CoreAssumption DEF NextSeq

LEMMA StepTyped == Typed /\ [Next]_vars => Typed'
  <1> SUFFICES ASSUME Typed, [Next]_vars PROVE Typed'
    OBVIOUS
  <1> USE CoreAssumption
  <1>a. /\ pc \in [Task -> PC] /\ cur \in [Task -> Packet] /\ call \in [Task -> Call]
        /\ taken \in [Task -> Nat] /\ off \in [Task -> Nat] /\ parts \in [Task -> Nat]
    BY DEF Typed, TypeOK
  <1>b. /\ sinks \in [Slot -> Sink \cup {NoSink}] /\ seq \in 0 .. SeqMod - 1
        /\ dropped \in Nat /\ now \in Nat /\ owed \in Int
        /\ snap \in [Task -> [Slot -> Sink \cup {NoSink}]] /\ todo \in [Task -> SUBSET Slot]
    BY DEF Typed, TypeOK
  <1>c. /\ view \in [Sink -> View] /\ mixed \in [Tag -> BOOLEAN]
        /\ lastSeq \in [Sink -> (0 .. SeqMod - 1) \cup {None}]
        /\ lastTs \in [Sink -> Nat]
        /\ asm \in [Sink -> [Tag -> [at : Offset, next : Offset, total : Offset]]]
    BY DEF Typed, TypeOK
  <1>d. \A t \in Task :
           /\ off[t] <= call[t].total
           /\ (pc[t] = "idle" => off[t] = 0)
           /\ (cur[t].type = "BUFFER" => cur[t].val <= cur[t].total)
    BY DEF Typed, OffsetInv
  <1>1. CASE UNCHANGED vars
    BY <1>1 DEF Typed, TypeOK, OffsetInv, vars, globals, locals, history
  <1>2. ASSUME NEW t \in Task, BeginWrite(t) PROVE Typed'
    BY <1>2 DEF Typed, TypeOK, OffsetInv, BeginWrite, Goto, NoCall, ApiCall, Call, Fn, PC, globals, history
  <1>3. ASSUME NEW t \in Task, BeginBuffer(t) PROVE Typed'
    <2>1. PICK n \in BufferLen, g \in Tag :
             /\ call' = [call EXCEPT ![t] = BufferCall(n, g)]
             /\ mixed' = [mixed EXCEPT ![g] = \E u \in Task \ {t} : InBuffer(u, g)]
      BY <1>3 DEF BeginBuffer
    <2>2. BufferCall(n, g) \in Call
      BY DEF BufferCall, Call, Fn
    <2>3. call' \in [Task -> Call] /\ mixed' \in [Tag -> BOOLEAN]
      BY <1>a, <1>c, <2>1, <2>2
    <2>4. \A u \in Task : off[u] <= call'[u].total
      BY <1>3, <1>a, <1>d, <2>1 DEF BeginBuffer, BufferCall
    <2>5. QED
      BY <1>3, <1>a, <1>d, <2>3, <2>4 DEF Typed, TypeOK, OffsetInv, BeginBuffer, Goto, PC, globals
  <1>4. ASSUME NEW t \in Task, RejectBuffer(t) PROVE Typed'
    BY <1>4 DEF Typed, TypeOK, OffsetInv, RejectBuffer, CountDrop, locals
  <1>5. ASSUME NEW t \in Task, BeginBoot(t) PROVE Typed'
    BY <1>5 DEF Typed, TypeOK, OffsetInv, BeginBoot, Goto, NoCall, ApiCall, Call, Fn, PC, globals, history, Template, Packet,
       PacketType
  <1>6. ASSUME NEW t \in Task, NEW type \in {"LOG", "TIME_SYNC"}, BeginDispatch(t, type)
        PROVE  Typed'
    BY <1>6 DEF Typed, TypeOK, OffsetInv, BeginDispatch, Goto, NoCall, ApiCall, Call, Fn, PC, globals, history
  <1>7. ASSUME NEW t \in Task, NEW fn \in {"add", "remove"}, NEW s \in Sink,
               BeginTableEdit(t, fn, s)
        PROVE  Typed'
    BY <1>7 DEF Typed, TypeOK, OffsetInv, BeginTableEdit, Goto, NoCall, ApiCall, Call, Fn, PC, globals, history
  <1>8. ASSUME NEW t \in Task, TakeNone(t) PROVE Typed'
    BY <1>8 DEF Typed, TypeOK, OffsetInv, TakeNone, Goto, PC, globals, history
  <1>27. ASSUME NEW t \in Task, TakeDropped(t) PROVE Typed'
    BY <1>27 DEF Typed, TypeOK, OffsetInv, TakeDropped, Goto, PC, history, Template, Packet,
       PacketType
  <1>9. ASSUME NEW t \in Task, WriteFits(t) PROVE Typed'
    BY <1>9 DEF Typed, TypeOK, OffsetInv, WriteFits, Goto, PC, globals, history, Template, Packet, PacketType
  <1>10. ASSUME NEW t \in Task, PacketTooLong(t) PROVE Typed'
    BY <1>10 DEF Typed, TypeOK, OffsetInv, PacketTooLong, CountDrop, Return, NoCall, ApiCall, Call, Fn, PC
  <1>11. ASSUME NEW t \in Task, EmitChunk(t) PROVE Typed'
    BY <1>11 DEF Typed, TypeOK, OffsetInv, EmitChunk, Goto, PC, globals, history, ChunkTemplate, Packet, PacketType,
       ChunkLen, Call
  <1>12. ASSUME NEW t \in Task, EmitDispatched(t) PROVE Typed'
    BY <1>12 DEF Typed, TypeOK, OffsetInv, EmitDispatched, Goto, PC, globals, history, Template, Packet, PacketType,
       Call
  <1>13. ASSUME NEW t \in Task, StreamOpen(t) PROVE Typed'
    BY <1>13 DEF Typed, TypeOK, OffsetInv, StreamOpen, Goto, PC, history
  <1>14. ASSUME NEW t \in Task, NumberPacket(t) PROVE Typed'
    <2>1. seq' \in 0 .. SeqMod - 1
      BY <1>14, <1>b, NextSeqType DEF NumberPacket
    <2>2. cur' \in [Task -> Packet]
      <3> DEFINE n == IF Numbered(cur[t]) THEN seq ELSE 0
                 time == IF call[t].fn # "dispatch" \/ cur[t].type = "DROPPED" THEN now ELSE None
      <3>1. n \in 0 .. SeqMod - 1 /\ time \in Nat \cup {None}
        BY <1>b
      <3>2. cur[t] \in Packet
        BY <1>a
      <3> HIDE DEF n, time
      <3>3. Stamped(cur[t], n, time) \in Packet
        BY <3>1, <3>2 DEF Stamped, Packet
      <3>4. cur' = [cur EXCEPT ![t] = Stamped(cur[t], n, time)]
        BY <1>14 DEF NumberPacket, n, time
      <3>5. QED
        BY <1>a, <3>3, <3>4
    <2>5. \A u \in Task : /\ cur'[u].type = cur[u].type
                          /\ cur'[u].val = cur[u].val
                          /\ cur'[u].total = cur[u].total
      BY <1>14, <1>a DEF NumberPacket, Stamped
    <2>3. parts' \in [Task -> Nat] /\ todo' \in [Task -> SUBSET Slot]
      BY <1>14, <1>a, <1>b DEF NumberPacket, Occupied
    <2>4. QED
      BY <1>14, <2>1, <2>2, <2>3, <2>5 DEF Typed, TypeOK, OffsetInv, NumberPacket, Goto, PC, history
  <1>15. ASSUME NEW t \in Task, NEW i \in Slot, StartCb(t, i) PROVE Typed'
    <2> DEFINE s == snap[t][i]
               p == cur[t]
    <2>1. p \in Packet
      BY <1>a
    <2>2. view' \in [Sink -> View]
      BY <1>15, <1>c, <2>1 DEF StartCb, Sees, View, Packet
    <2>3. lastSeq' \in [Sink -> (0 .. SeqMod - 1) \cup {None}]
      BY <1>15, <1>c, <2>1 DEF StartCb, Packet
    <2>4. lastTs' \in [Sink -> Nat]
      BY <1>15, <1>c, <2>1 DEF StartCb, Packet
    <2>5. asm' \in [Sink -> [Tag -> [at : Offset, next : Offset, total : Offset]]]
      <3>1. CASE p.type = "BUFFER"
        <4>1. ChunkSeen(p) \in [at : Offset, next : Offset, total : Offset]
          BY <1>d, <2>1, <3>1 DEF ChunkSeen, ChunkLen, Packet, Offset
        <4>2. asm' = [asm EXCEPT ![s] = [@ EXCEPT ![p.tag] = ChunkSeen(p)]]
          BY <1>15, <3>1 DEF StartCb
        <4> HIDE DEF s, p
        <4>3. QED
          BY <1>c, <4>1, <4>2
      <3>2. CASE p.type # "BUFFER"
        BY <1>15, <1>c, <3>2 DEF StartCb
      <3>3. QED
        BY <3>1, <3>2
    <2>6. QED
      BY <1>15, <2>2, <2>3, <2>4, <2>5 DEF Typed, TypeOK, OffsetInv, StartCb, VisitSlot, globals
  <1>16. ASSUME NEW t \in Task, NEW i \in Slot, PayloadCb(t, i) PROVE Typed'
    BY <1>16 DEF Typed, TypeOK, OffsetInv, PayloadCb, VisitSlot, Sees, globals, View, Packet
  <1>17. ASSUME NEW t \in Task, NEW i \in Slot, EndCb(t, i) PROVE Typed'
    BY <1>17 DEF Typed, TypeOK, OffsetInv, EndCb, VisitSlot, Sees, globals, View, Packet
  <1>18. ASSUME NEW t \in Task, NextChunk(t) PROVE Typed'
    BY <1>18 DEF Typed, TypeOK, OffsetInv, NextChunk, Goto, PC, globals, history, Occupied
  <1>28. ASSUME NEW t \in Task, LastChunkSent(t) PROVE Typed'
    BY <1>28 DEF Typed, TypeOK, OffsetInv, LastChunkSent, Goto, PC, globals, history, Occupied
  <1>19. ASSUME NEW t \in Task, EndNotice(t) PROVE Typed'
    BY <1>19 DEF Typed, TypeOK, OffsetInv, EndNotice, StreamEnd, Goto, PC, Template, Packet,
       PacketType, NoTable
  <1>29. ASSUME NEW t \in Task, EndChunk(t) PROVE Typed'
    BY <1>29 DEF Typed, TypeOK, OffsetInv, EndChunk, StreamEnd, Goto, PC, Template, Packet,
       PacketType, NoTable
  <1>30. ASSUME NEW t \in Task, EndPacket(t) PROVE Typed'
    BY <1>30 DEF Typed, TypeOK, OffsetInv, EndPacket, StreamEnd, Return, PC, Template, Packet,
       PacketType, NoTable, NoCall, ApiCall, Call, Fn
  <1>20. ASSUME NEW t \in Task, TableLock(t) PROVE Typed'
    BY <1>20 DEF Typed, TypeOK, OffsetInv, TableLock, Goto, PC, history
  <1>21. ASSUME NEW t \in Task, AddSink(t) PROVE Typed'
    <2>1. call[t].sink \in Sink \cup {NoSink} /\ Quiet("added") \in View
      BY <1>a DEF Call, Quiet, View, PacketType
    <2>2. sinks' \in [Slot -> Sink \cup {NoSink}] /\ view' \in [Sink -> View]
      BY <1>21, <1>b, <1>c, <2>1 DEF AddSink
    <2>3. QED
      BY <1>21, <2>2 DEF Typed, TypeOK, OffsetInv, AddSink, Goto, PC
  <1>22. ASSUME NEW t \in Task, RemoveSink(t) PROVE Typed'
    <2>1. /\ NothingSeen \in [at : Offset, next : Offset, total : Offset]
          /\ Quiet("removed") \in View
      BY DEF NothingSeen, Offset, Quiet, View, PacketType
    <2>2. /\ sinks' \in [Slot -> Sink \cup {NoSink}]
          /\ view' \in [Sink -> View]
          /\ lastTs' \in [Sink -> Nat]
      BY <1>22, <1>b, <1>c, <2>1 DEF RemoveSink
    <2>3. lastSeq' \in [Sink -> (0 .. SeqMod - 1) \cup {None}]
      BY <1>22, <1>c DEF RemoveSink
    <2>4. asm' \in [Sink -> [Tag -> [at : Offset, next : Offset, total : Offset]]]
      BY <1>22, <1>c, <2>1 DEF RemoveSink
    <2>5. QED
      BY <1>22, <2>2, <2>3, <2>4 DEF Typed, TypeOK, OffsetInv, RemoveSink, Goto, PC
  <1>31. ASSUME NEW t \in Task, TableUnchanged(t) PROVE Typed'
    BY <1>31 DEF Typed, TypeOK, OffsetInv, TableUnchanged, Goto, PC, globals, history
  <1>23. ASSUME NEW t \in Task, TableUnlock(t) PROVE Typed'
    BY <1>23 DEF Typed, TypeOK, OffsetInv, TableUnlock, Return, PC, NoCall, ApiCall, Call, Fn, history
  <1>24. CASE IsrDrop
    BY <1>24 DEF Typed, TypeOK, OffsetInv, IsrDrop, CountDrop, locals
  <1>25. CASE Tick
    BY <1>25 DEF Typed, TypeOK, OffsetInv, Tick, locals, history
  <1>26. QED
    BY <1>1, <1>2, <1>3, <1>4, <1>5, <1>6, <1>7, <1>8, <1>9, <1>10, <1>11, <1>12, <1>13,
       <1>14, <1>15, <1>16, <1>17, <1>18, <1>19, <1>20, <1>21, <1>22, <1>23, <1>24, <1>25,
       <1>27, <1>28, <1>29, <1>30, <1>31
       DEF Next, Begin, InCall

-----------------------------------------------------------------------------
LEMMA InitEmission == Init => EmissionInv
  BY CoreAssumption DEF Init, EmissionInv, LockInv, SnapInv, NoSinkTwice, UnregisteredInv,
     RegisteredInv, SequenceInv, TimeInv, Holding, Delivering, Occupied, NoTable, Registered,
     Quiet, Template, Announcing

(***************************************************************************)
(* A step of a task outside the locked region that only moves the task and *)
(* its own locals.                                                         *)
(***************************************************************************)
LEMMA QuietStep ==
    ASSUME Typed, EmissionInv, NEW t \in Task, NEW label \in PC,
           ~Holding(t),
           label \notin {"start", "payload", "end", "number", "edit", "unlock"},
           pc' = [pc EXCEPT ![t] = label],
           label = "table" => call'[t].sink \in Sink,
           \A u \in Task \ {t} : call'[u] = call[u] /\ cur'[u] = cur[u],
           cur'[t].by = t,
           UNCHANGED <<emitLock, sinks, seq, now, snap, todo, view, lastSeq, lastTs>>
    PROVE  EmissionInv'
  <1> USE DEF Typed, TypeOK, Holding, Delivering
  <1>1. LockInv'
    BY DEF EmissionInv, LockInv
  <1>2. SnapInv'
    BY DEF EmissionInv, SnapInv, Occupied
  <1>3. NoSinkTwice'
    BY DEF EmissionInv, NoSinkTwice
  <1>4. UnregisteredInv'
    BY DEF EmissionInv, UnregisteredInv, Registered
  <1>5. RegisteredInv'
    <2>1. /\ \A u \in Task : Delivering(u)' <=> Delivering(u)
          /\ \A u \in Task : Delivering(u) => pc'[u] = pc[u] /\ cur'[u] = cur[u]
      OBVIOUS
    <2>2. \A s \in Sink \cup {NoSink} :
             /\ AtRest(s)' <=> AtRest(s)
             /\ \A u \in Task : Delivering(u) => (Inside(s, cur[u])' <=> Inside(s, cur[u]))
      BY <2>1 DEF AtRest, Inside, SamePacket
    <2>3. QED
      BY <2>1, <2>2 DEF EmissionInv, RegisteredInv, Occupied
  <1>6. SequenceInv'
    <2>1. \A u \in Task : pc'[u] = "start" => u # t /\ pc[u] = "start" /\ cur'[u] = cur[u]
      OBVIOUS
    <2>2. \A u \in Task, i \in Slot : Announcing(u, i)' <=> Announcing(u, i)
      BY <2>1 DEF Announcing, Numbered
    <2>3. QED
      BY <2>1, <2>2 DEF EmissionInv, SequenceInv, Occupied, Announcing, Numbered
  <1>7. TimeInv'
    BY DEF EmissionInv, TimeInv
  <1>8. QED
    BY <1>1, <1>2, <1>3, <1>4, <1>5, <1>6, <1>7 DEF EmissionInv

\* Only the task inside the locked region is inside it.
LEMMA OneHolder ==
    ASSUME LockInv, NEW t \in Task, NEW u \in Task, Holding(t), Holding(u)
    PROVE  t = u
  BY DEF LockInv

LEMMA OpenStep ==
    ASSUME Typed, EmissionInv, NEW t \in Task, StreamOpen(t) PROVE EmissionInv'
  <1> USE CoreAssumption DEF Typed, TypeOK, StreamOpen, Goto, history
  <1>1. LockInv'
    BY DEF EmissionInv, LockInv, Holding, Delivering
  <1>2. SnapInv'
    BY DEF EmissionInv, SnapInv, Delivering, Occupied
  <1>3. NoSinkTwice'
    BY DEF EmissionInv, NoSinkTwice
  <1>4. UnregisteredInv'
    BY DEF EmissionInv, UnregisteredInv, Registered
  <1>5. RegisteredInv'
    <2>1. \A u \in Task : /\ Delivering(u)' <=> Delivering(u)
                          /\ Delivering(u) => pc'[u] = pc[u]
      BY DEF Delivering
    <2>2. \A s \in Sink \cup {NoSink} :
             /\ AtRest(s)' <=> AtRest(s)
             /\ \A u \in Task : Inside(s, cur[u])' <=> Inside(s, cur[u])
      BY DEF AtRest, Inside, SamePacket
    <2>3. QED
      BY <2>1, <2>2 DEF EmissionInv, RegisteredInv, Occupied, Delivering
  <1>6. SequenceInv'
    BY DEF EmissionInv, SequenceInv, Occupied, Announcing, Numbered
  <1>7. TimeInv'
    BY DEF EmissionInv, TimeInv
  <1>8. QED
    BY <1>1, <1>2, <1>3, <1>4, <1>5, <1>6, <1>7 DEF EmissionInv

LEMMA NumberStep ==
    ASSUME Typed, EmissionInv, NEW t \in Task, NumberPacket(t) PROVE EmissionInv'
  <1> USE CoreAssumption
  <1>a. /\ pc \in [Task -> PC] /\ cur \in [Task -> Packet] /\ todo \in [Task -> SUBSET Slot]
        /\ sinks \in [Slot -> Sink \cup {NoSink}] /\ snap \in [Task -> [Slot -> Sink \cup {NoSink}]]
        /\ now \in Nat /\ lastTs \in [Sink -> Nat] /\ seq \in 0 .. SeqMod - 1
    BY DEF Typed, TypeOK
  <1>b. /\ pc[t] = "number" /\ pc' = [pc EXCEPT ![t] = "start"]
        /\ todo' = [todo EXCEPT ![t] = Occupied(snap[t])]
        /\ UNCHANGED <<emitLock, sinks, now, call, snap, view, lastSeq, lastTs>>
    BY DEF NumberPacket, Goto, history
  <1>c. /\ \A u \in Task \ {t} : cur'[u] = cur[u]
        /\ cur'[t].by = cur[t].by /\ cur'[t].type = cur[t].type
        /\ Numbered(cur[t]) => cur'[t].seq = seq /\ seq' = NextSeq(seq)
        /\ ~Numbered(cur[t]) => seq' = seq
        /\ cur'[t].ts \in {now, None}
    BY <1>a DEF NumberPacket, Stamped
  <1>d. \A u \in Task : Holding(u) => u = t
    BY <1>b, OneHolder DEF EmissionInv, Holding
  <1>e. snap[t] = sinks
    BY <1>b DEF EmissionInv, SnapInv
  <1>f. Numbered(cur'[t]) <=> Numbered(cur[t])
    BY <1>c DEF Numbered
  <1>g. \A u \in Task : pc'[u] \in {"start", "payload", "end"} => u = t
    BY <1>a, <1>b, <1>d DEF Holding, Delivering
  <1>1. LockInv'
    BY <1>a, <1>b DEF EmissionInv, LockInv, Holding, Delivering
  <1>2. SnapInv'
    BY <1>a, <1>b, <1>c, <1>e DEF EmissionInv, SnapInv, Delivering, Occupied
  <1>3. NoSinkTwice'
    BY <1>b DEF EmissionInv, NoSinkTwice
  <1>4. UnregisteredInv'
    BY <1>b DEF EmissionInv, UnregisteredInv, Registered
  <1>5. RegisteredInv'
    <2>1. \A u \in Task : ~Delivering(u)
      BY <1>b, <1>d DEF Holding, Delivering
    <2>2. \A i \in Occupied(sinks) : AtRest(sinks[i])
      BY <2>1 DEF EmissionInv, RegisteredInv
    <2>3. Occupied(sinks)' = Occupied(sinks) /\ \A s : AtRest(s)' <=> AtRest(s)
      BY <1>b DEF Occupied, AtRest
    <2>4. pc'[t] = "start" /\ todo'[t] = Occupied(sinks)
      BY <1>a, <1>b, <1>e
    <2>5. QED
      BY <1>b, <1>g, <2>2, <2>3, <2>4 DEF RegisteredInv, Delivering
  <1>6. SequenceInv'
    <2>1. \A i \in Occupied(sinks) : lastSeq[sinks[i]] # None => seq = NextSeq(lastSeq[sinks[i]])
      BY <1>b, <1>d DEF EmissionInv, SequenceInv, Announcing, Holding, Delivering
    <2>2. \A i \in Slot, u \in Task :
             Announcing(u, i)' <=> u = t /\ i \in Occupied(sinks) /\ Numbered(cur[t])
      BY <1>a, <1>b, <1>e, <1>f, <1>g DEF Announcing, Occupied
    <2>3. QED
      BY <1>b, <1>c, <1>f, <1>g, <2>1, <2>2 DEF SequenceInv, Occupied
  <1>7. TimeInv'
    <2>1. \A i \in todo'[t] : sinks[i] \in Sink
      BY <1>a, <1>b, <1>e DEF Occupied
    <2>2. \A s \in Sink : lastTs[s] <= now
      BY DEF EmissionInv, TimeInv
    <2>3. QED
      BY <1>a, <1>b, <1>c, <1>g, <2>1, <2>2 DEF TimeInv
  <1>8. QED
    BY <1>1, <1>2, <1>3, <1>4, <1>5, <1>6, <1>7 DEF EmissionInv

(***************************************************************************)
(* What the three kinds of callback have in common: the task that delivers *)
(* holds the lock, and the sink it calls is the one in slot i of the       *)
(* table.                                                                  *)
(***************************************************************************)
LEMMA VisitFacts ==
    ASSUME Typed, EmissionInv, NEW t \in Task, NEW i \in Slot, Delivering(t), VisitSlot(t, i)
    PROVE  /\ \A u \in Task : Holding(u) => u = t
           /\ snap[t] = sinks
           /\ sinks[i] \in Sink
           /\ cur[t].by = t
           /\ \A j \in Slot : j # i => sinks[j] # sinks[i]
           /\ todo[t] \subseteq Occupied(sinks)
  <1>1. \A u \in Task : Holding(u) => u = t
    BY OneHolder DEF EmissionInv, Holding
  <1>2. snap[t] = sinks /\ todo[t] \subseteq Occupied(sinks) /\ cur[t].by = t
    BY DEF EmissionInv, SnapInv
  <1>3. sinks[i] # NoSink
    BY <1>2 DEF VisitSlot, Occupied
  <1>4. sinks[i] \in Sink
    BY <1>3 DEF Typed, TypeOK
  <1>5. \A j \in Slot : j # i => sinks[j] # sinks[i]
    BY <1>3 DEF EmissionInv, NoSinkTwice
  <1>6. QED
    BY <1>1, <1>2, <1>4, <1>5

LEMMA StartStep ==
    ASSUME Typed, EmissionInv, NEW t \in Task, NEW i \in Slot, StartCb(t, i)
    PROVE  /\ EmissionInv'
           /\ AtRest(sinks[i])
           /\ Numbered(cur[t]) /\ lastSeq[sinks[i]] # None => cur[t].seq = NextSeq(lastSeq[sinks[i]])
           /\ lastTs[sinks[i]] <= lastTs'[sinks[i]]
  <1> DEFINE s == sinks[i]
             p == cur[t]
  <1> USE CoreAssumption
  <1>a. /\ pc \in [Task -> PC] /\ p \in Packet /\ todo \in [Task -> SUBSET Slot]
        /\ sinks \in [Slot -> Sink \cup {NoSink}] /\ view \in [Sink -> View]
        /\ lastSeq \in [Sink -> (0 .. SeqMod - 1) \cup {None}] /\ lastTs \in [Sink -> Nat]
        /\ now \in Nat
    BY DEF Typed, TypeOK
  <1>b. /\ pc[t] = "start" /\ i \in todo[t] /\ todo' = [todo EXCEPT ![t] = @ \ {i}]
        /\ UNCHANGED <<emitLock, sinks, seq, now, pc, call, cur, snap>>
    BY DEF StartCb, VisitSlot, globals
  <1>c. /\ \A u \in Task : Holding(u) => u = t
        /\ snap[t] = sinks /\ s \in Sink /\ p.by = t
        /\ \A j \in Slot : j # i => sinks[j] # s
        /\ todo[t] \subseteq Occupied(sinks)
    BY <1>b, VisitFacts DEF StartCb, Delivering
  <1>d. /\ view' = [view EXCEPT ![s] = [cb |-> "start", type |-> p.type, by |-> p.by, seq |-> p.seq,
                                 tag |-> p.tag]]
        /\ lastSeq' = [lastSeq EXCEPT ![s] = IF Numbered(p) THEN p.seq ELSE @]
        /\ lastTs' = [lastTs EXCEPT ![s] = IF p.ts # None THEN p.ts ELSE @]
    BY <1>c DEF StartCb, Sees
  <1>e. \A u \in Task : pc[u] \in {"start", "payload", "end"} => u = t
    BY <1>c DEF Holding, Delivering
  <1>f. i \in Occupied(sinks) /\ Occupied(sinks)' = Occupied(sinks)
    BY <1>b, <1>c DEF Occupied
  <1> HIDE DEF s, p
  <1>1. LockInv'
    BY <1>b DEF EmissionInv, LockInv, Holding, Delivering
  <1>2. SnapInv'
    BY <1>a, <1>b, <1>c, <1>f DEF EmissionInv, SnapInv, Delivering, p, s
  <1>3. NoSinkTwice'
    BY <1>b DEF EmissionInv, NoSinkTwice
  <1>4. UnregisteredInv'
    <2>1. \A r \in Sink : ~Registered(r)' => r # s
      BY <1>b DEF Registered, s
    <2>2. QED
      BY <1>a, <1>b, <1>d, <2>1 DEF EmissionInv, UnregisteredInv, Registered
  <1>g. AtRest(s)
    BY <1>b, <1>f DEF EmissionInv, RegisteredInv, s
  <1>5. RegisteredInv'
    <2>1. Inside(s, p)'
      BY <1>a, <1>b, <1>c, <1>d DEF Inside, SamePacket, p, s, View
    <2>2. \A j \in Occupied(sinks) : j # i =>
             /\ AtRest(sinks[j])' <=> AtRest(sinks[j])
             /\ Inside(sinks[j], p)' <=> Inside(sinks[j], p)
      BY <1>a, <1>b, <1>c, <1>d DEF AtRest, Inside, SamePacket, Occupied, p
    <2>3. \A j \in Occupied(sinks) : j # i =>
             IF j \in todo[t] THEN AtRest(sinks[j]) ELSE Inside(sinks[j], p)
      BY <1>b DEF EmissionInv, RegisteredInv, p
    <2>4. \A j \in Occupied(sinks) :
             (IF j \in todo[t] THEN AtRest(sinks[j]) ELSE Inside(sinks[j], p))'
      BY <1>a, <1>b, <2>1, <2>2, <2>3 DEF s
    <2>5. QED
      BY <1>b, <1>e, <1>f, <2>4 DEF RegisteredInv, Delivering, p
  <1>h. Numbered(p) => seq = NextSeq(p.seq)
    BY <1>b DEF EmissionInv, SequenceInv, p
  <1>i. Numbered(p) /\ lastSeq[s] # None => p.seq = NextSeq(lastSeq[s])
    BY <1>b, <1>f DEF EmissionInv, SequenceInv, Announcing, p, s
  <1>6. SequenceInv'
    <2>1. \A u \in Task, j \in Slot : Announcing(u, j) <=> u = t /\ j \in todo[t] /\ Numbered(p)
      BY <1>b, <1>e DEF Announcing, p
    <2>2. \A u \in Task, j \in Slot :
             Announcing(u, j)' <=> u = t /\ j \in todo[t] \ {i} /\ Numbered(p)
      BY <1>a, <1>b, <1>e DEF Announcing, p
    <2>3. ASSUME NEW j \in Occupied(sinks), j # i, lastSeq'[sinks[j]] # None
          PROVE  /\ \A u \in Task : Announcing(u, j)' => cur'[u].seq = NextSeq(lastSeq'[sinks[j]])
                 /\ (\A u \in Task : ~Announcing(u, j)') => seq' = NextSeq(lastSeq'[sinks[j]])
      <3>1. lastSeq'[sinks[j]] = lastSeq[sinks[j]]
        BY <1>a, <1>c, <1>d, <2>3 DEF Occupied
      <3>2. QED
        BY <1>b, <2>1, <2>2, <2>3, <3>1 DEF EmissionInv, SequenceInv, Occupied, p
    <2>4. lastSeq'[s] # None => seq' = NextSeq(lastSeq'[s])
      <3>1. CASE Numbered(p)
        BY <1>a, <1>b, <1>c, <1>d, <1>h, <3>1
      <3>2. CASE ~Numbered(p)
        <4>1. lastSeq'[s] = lastSeq[s]
          BY <1>a, <1>c, <1>d, <3>2
        <4>2. QED
          BY <1>b, <1>f, <2>1, <3>2, <4>1 DEF EmissionInv, SequenceInv, Occupied, s
      <3>3. QED
        BY <3>1, <3>2
    <2>5. \A u \in Task : ~Announcing(u, i)'
      BY <2>2
    <2>6. \A u \in Task : pc'[u] = "start" /\ Numbered(cur'[u]) => seq' = NextSeq(cur'[u].seq)
      BY <1>b DEF EmissionInv, SequenceInv
    <2>7. QED
      BY <1>b, <1>f, <2>3, <2>4, <2>5, <2>6 DEF SequenceInv, s
  <1>j. p.ts # None => p.ts \in Nat /\ p.ts <= now /\ \A j \in todo[t] : lastTs[sinks[j]] <= p.ts
    BY <1>a, <1>b DEF EmissionInv, TimeInv, p, Packet
  <1>7. TimeInv'
    <2>1. \A r \in Sink : lastTs'[r] <= now'
      BY <1>a, <1>b, <1>c, <1>d, <1>j DEF EmissionInv, TimeInv
    <2>2. \A j \in todo'[t] : j # i /\ j \in todo[t] /\ j \in Slot /\ sinks[j] # s /\ sinks[j] \in Sink
      BY <1>a, <1>b, <1>c DEF Occupied
    <2>3. \A j \in todo'[t] : lastTs'[sinks[j]] = lastTs[sinks[j]]
      BY <1>a, <1>d, <2>2
    <2>4. QED
      BY <1>b, <1>e, <1>j, <2>1, <2>2, <2>3 DEF TimeInv, p
  <1>k. lastTs[s] <= lastTs'[s]
    BY <1>a, <1>b, <1>c, <1>d, <1>j DEF s
  <1>8. QED
    BY <1>1, <1>2, <1>3, <1>4, <1>5, <1>6, <1>7, <1>g, <1>i, <1>k DEF EmissionInv, p, s

LEMMA PayloadStep ==
    ASSUME Typed, EmissionInv, NEW t \in Task, NEW i \in Slot, PayloadCb(t, i)
    PROVE  EmissionInv' /\ Inside(sinks[i], cur[t])
  <1> DEFINE s == sinks[i]
             p == cur[t]
  <1> USE CoreAssumption
  <1>a. /\ pc \in [Task -> PC] /\ p \in Packet /\ todo \in [Task -> SUBSET Slot]
        /\ sinks \in [Slot -> Sink \cup {NoSink}] /\ view \in [Sink -> View]
    BY DEF Typed, TypeOK
  <1>b. /\ pc[t] = "payload" /\ i \in todo[t] /\ todo' = [todo EXCEPT ![t] = @ \ {i}]
        /\ UNCHANGED <<emitLock, sinks, seq, now, pc, call, cur, snap, lastSeq, lastTs>>
    BY DEF PayloadCb, VisitSlot, globals
  <1>c. /\ \A u \in Task : Holding(u) => u = t
        /\ snap[t] = sinks /\ s \in Sink /\ p.by = t
        /\ \A j \in Slot : j # i => sinks[j] # s
        /\ todo[t] \subseteq Occupied(sinks)
    BY <1>b, VisitFacts DEF PayloadCb, Delivering
  <1>d. view' = [view EXCEPT ![s] = [cb |-> "payload", type |-> p.type, by |-> p.by, seq |-> p.seq,
                                 tag |-> p.tag]]
    BY <1>c DEF PayloadCb, Sees
  <1>e. \A u \in Task : pc[u] \in {"start", "payload", "end"} => u = t
    BY <1>c DEF Holding, Delivering
  <1>f. i \in Occupied(sinks) /\ Occupied(sinks)' = Occupied(sinks)
    BY <1>b, <1>c DEF Occupied
  <1> HIDE DEF s, p
  <1>1. LockInv'
    BY <1>b DEF EmissionInv, LockInv, Holding, Delivering
  <1>2. SnapInv'
    BY <1>a, <1>b, <1>c, <1>f DEF EmissionInv, SnapInv, Delivering, p, s
  <1>3. NoSinkTwice'
    BY <1>b DEF EmissionInv, NoSinkTwice
  <1>4. UnregisteredInv'
    <2>1. \A r \in Sink : ~Registered(r)' => r # s
      BY <1>b DEF Registered, s
    <2>2. QED
      BY <1>a, <1>b, <1>d, <2>1 DEF EmissionInv, UnregisteredInv, Registered
  <1>g. Inside(s, p)
    BY <1>b, <1>f DEF EmissionInv, RegisteredInv, s, p
  <1>5. RegisteredInv'
    <2>1. Inside(s, p)'
      BY <1>a, <1>b, <1>c, <1>d DEF Inside, SamePacket, p, s, View
    <2>2. \A j \in Occupied(sinks) : j # i => (Inside(sinks[j], p)' <=> Inside(sinks[j], p))
      BY <1>a, <1>b, <1>c, <1>d DEF Inside, SamePacket, Occupied, p
    <2>3. \A j \in Occupied(sinks) : Inside(sinks[j], p)
      BY <1>b DEF EmissionInv, RegisteredInv, p
    <2>4. \A j \in Occupied(sinks) : Inside(sinks[j], p)'
      BY <1>b, <2>1, <2>2, <2>3 DEF s
    <2>5. QED
      BY <1>b, <1>e, <1>f, <2>4 DEF RegisteredInv, Delivering, p
  <1>6. SequenceInv'
    <2>1. \A u \in Task, j \in Slot : ~Announcing(u, j) /\ ~Announcing(u, j)'
      BY <1>b, <1>e DEF Announcing
    <2>2. QED
      BY <1>b, <1>f, <2>1 DEF EmissionInv, SequenceInv, Occupied
  <1>7. TimeInv'
    BY <1>b, <1>e DEF EmissionInv, TimeInv
  <1>8. QED
    BY <1>1, <1>2, <1>3, <1>4, <1>5, <1>6, <1>7, <1>g DEF EmissionInv, p, s

LEMMA EndCbStep ==
    ASSUME Typed, EmissionInv, NEW t \in Task, NEW i \in Slot, EndCb(t, i)
    PROVE  EmissionInv' /\ Inside(sinks[i], cur[t])
  <1> DEFINE s == sinks[i]
             p == cur[t]
  <1> USE CoreAssumption
  <1>a. /\ pc \in [Task -> PC] /\ p \in Packet /\ todo \in [Task -> SUBSET Slot]
        /\ sinks \in [Slot -> Sink \cup {NoSink}] /\ view \in [Sink -> View]
    BY DEF Typed, TypeOK
  <1>b. /\ pc[t] = "end" /\ i \in todo[t] /\ todo' = [todo EXCEPT ![t] = @ \ {i}]
        /\ UNCHANGED <<emitLock, sinks, seq, now, pc, call, cur, snap, lastSeq, lastTs>>
    BY DEF EndCb, VisitSlot, globals
  <1>c. /\ \A u \in Task : Holding(u) => u = t
        /\ snap[t] = sinks /\ s \in Sink /\ p.by = t
        /\ \A j \in Slot : j # i => sinks[j] # s
        /\ todo[t] \subseteq Occupied(sinks)
    BY <1>b, VisitFacts DEF EndCb, Delivering
  <1>d. view' = [view EXCEPT ![s] = [cb |-> "end", type |-> p.type, by |-> p.by, seq |-> p.seq,
                                 tag |-> p.tag]]
    BY <1>c DEF EndCb, Sees
  <1>e. \A u \in Task : pc[u] \in {"start", "payload", "end"} => u = t
    BY <1>c DEF Holding, Delivering
  <1>f. i \in Occupied(sinks) /\ Occupied(sinks)' = Occupied(sinks)
    BY <1>b, <1>c DEF Occupied
  <1> HIDE DEF s, p
  <1>1. LockInv'
    BY <1>b DEF EmissionInv, LockInv, Holding, Delivering
  <1>2. SnapInv'
    BY <1>a, <1>b, <1>c, <1>f DEF EmissionInv, SnapInv, Delivering, p, s
  <1>3. NoSinkTwice'
    BY <1>b DEF EmissionInv, NoSinkTwice
  <1>4. UnregisteredInv'
    <2>1. \A r \in Sink : ~Registered(r)' => r # s
      BY <1>b DEF Registered, s
    <2>2. QED
      BY <1>a, <1>b, <1>d, <2>1 DEF EmissionInv, UnregisteredInv, Registered
  <1>g. Inside(s, p)
    BY <1>b, <1>f DEF EmissionInv, RegisteredInv, s, p
  <1>5. RegisteredInv'
    <2>1. AtRest(s)'
      BY <1>a, <1>b, <1>c, <1>d DEF AtRest, s, View
    <2>2. \A j \in Occupied(sinks) : j # i =>
             /\ AtRest(sinks[j])' <=> AtRest(sinks[j])
             /\ Inside(sinks[j], p)' <=> Inside(sinks[j], p)
      BY <1>a, <1>b, <1>c, <1>d DEF AtRest, Inside, SamePacket, Occupied, p
    <2>3. \A j \in Occupied(sinks) : j # i =>
             IF j \in todo[t] THEN Inside(sinks[j], p) ELSE AtRest(sinks[j])
      BY <1>b DEF EmissionInv, RegisteredInv, p
    <2>4. \A j \in Occupied(sinks) :
             (IF j \in todo[t] THEN Inside(sinks[j], p) ELSE AtRest(sinks[j]))'
      BY <1>a, <1>b, <2>1, <2>2, <2>3 DEF s
    <2>5. QED
      BY <1>b, <1>e, <1>f, <2>4 DEF RegisteredInv, Delivering, p
  <1>6. SequenceInv'
    <2>1. \A u \in Task, j \in Slot : ~Announcing(u, j) /\ ~Announcing(u, j)'
      BY <1>b, <1>e DEF Announcing
    <2>2. QED
      BY <1>b, <1>f, <2>1 DEF EmissionInv, SequenceInv, Occupied
  <1>7. TimeInv'
    BY <1>b, <1>e DEF EmissionInv, TimeInv
  <1>8. QED
    BY <1>1, <1>2, <1>3, <1>4, <1>5, <1>6, <1>7, <1>g DEF EmissionInv, p, s

\* Between two rounds: every sink in the table has seen the previous one.
LEMMA RoundStep ==
    ASSUME Typed, EmissionInv, NEW t \in Task, NextChunk(t) \/ LastChunkSent(t)
    PROVE  EmissionInv'
  <1>a. /\ pc \in [Task -> PC] /\ todo \in [Task -> SUBSET Slot]
        /\ sinks \in [Slot -> Sink \cup {NoSink}]
    BY DEF Typed, TypeOK
  <1>b. /\ pc[t] \in {"start", "payload"} /\ todo[t] = {}
        /\ todo' = [todo EXCEPT ![t] = Occupied(snap[t])]
        /\ UNCHANGED <<emitLock, sinks, seq, now, call, cur, snap, view, lastSeq, lastTs>>
    BY DEF NextChunk, LastChunkSent, globals, history
  <1>c. /\ pc'[t] \in {"payload", "end"}
        /\ \A u \in Task \ {t} : pc'[u] = pc[u]
    BY <1>a DEF NextChunk, LastChunkSent, Goto
  <1>d. \A u \in Task : Holding(u) => u = t
    BY <1>b, OneHolder DEF EmissionInv, Holding, Delivering
  <1>e. snap[t] = sinks /\ todo'[t] = Occupied(sinks) /\ Occupied(sinks)' = Occupied(sinks)
    BY <1>a, <1>b DEF EmissionInv, SnapInv, Delivering, Occupied
  <1>f. /\ \A u \in Task : pc[u] \in {"start", "payload", "end"} => u = t
        /\ \A u \in Task : pc'[u] \in {"start", "payload", "end"} => u = t
    BY <1>c, <1>d DEF Holding, Delivering
  <1>1. LockInv'
    BY <1>b, <1>c DEF EmissionInv, LockInv, Holding, Delivering
  <1>2. SnapInv'
    BY <1>a, <1>b, <1>c, <1>e DEF EmissionInv, SnapInv, Delivering
  <1>3. NoSinkTwice'
    BY <1>b DEF EmissionInv, NoSinkTwice
  <1>4. UnregisteredInv'
    BY <1>b DEF EmissionInv, UnregisteredInv, Registered
  <1>5. RegisteredInv'
    <2>1. \A j \in Occupied(sinks) : Inside(sinks[j], cur[t])
      BY <1>b DEF EmissionInv, RegisteredInv
    <2>2. \A j \in Occupied(sinks) : Inside(sinks[j], cur[t])'
      BY <1>b, <2>1 DEF Inside, SamePacket
    <2>3. QED
      BY <1>b, <1>c, <1>e, <1>f, <2>2 DEF RegisteredInv, Delivering
  <1>6. SequenceInv'
    <2>1. \A u \in Task, j \in Slot : ~Announcing(u, j) /\ ~Announcing(u, j)'
      BY <1>b, <1>c, <1>f DEF Announcing
    <2>2. QED
      BY <1>b, <1>c, <1>e, <1>f, <2>1 DEF EmissionInv, SequenceInv, Occupied
  <1>7. TimeInv'
    BY <1>b, <1>c, <1>f DEF EmissionInv, TimeInv
  <1>8. QED
    BY <1>1, <1>2, <1>3, <1>4, <1>5, <1>6, <1>7 DEF EmissionInv

\* The end of a packet, wherever the task goes next.
LEMMA CloseStep ==
    ASSUME Typed, EmissionInv, NEW t \in Task, StreamEnd(t),
           NEW label \in {"body", "chunk", "idle"}, pc' = [pc EXCEPT ![t] = label],
           \A u \in Task \ {t} : call'[u] = call[u]
    PROVE  EmissionInv'
  <1> USE CoreAssumption
  <1>a. /\ pc \in [Task -> PC] /\ todo \in [Task -> SUBSET Slot] /\ cur \in [Task -> Packet]
        /\ sinks \in [Slot -> Sink \cup {NoSink}] /\ emitLock \in Task \cup {NoTask}
    BY DEF Typed, TypeOK
  <1>b. /\ pc[t] = "end" /\ todo[t] = {} /\ emitLock' = NoTask
        /\ UNCHANGED <<sinks, seq, now, todo, view, lastSeq, lastTs>>
        /\ pc'[t] = label /\ \A u \in Task \ {t} : pc'[u] = pc[u]
        /\ cur'[t].by = t /\ \A u \in Task \ {t} : cur'[u] = cur[u] /\ snap'[u] = snap[u]
    BY <1>a DEF StreamEnd, Template
  <1>d. \A u \in Task : Holding(u) => u = t
    BY <1>b, OneHolder DEF EmissionInv, Holding, Delivering
  <1>f. /\ \A u \in Task : pc[u] \in {"start", "payload", "end"} => u = t
        /\ \A u \in Task : pc'[u] \notin {"start", "payload", "end", "number", "edit", "unlock"}
    BY <1>b, <1>d DEF Holding, Delivering
  <1>1. LockInv'
    BY <1>b, <1>f DEF LockInv, Holding, Delivering
  <1>2. SnapInv'
    <2>1. \A u \in Task : pc'[u] \in {"table", "edit"} => u # t /\ pc[u] = "table"
      BY <1>b, <1>f
    <2>2. \A u \in Task : u # t => call'[u] = call[u]
      OBVIOUS
    <2>3. QED
      BY <1>b, <1>f, <2>1, <2>2 DEF EmissionInv, SnapInv, Delivering
  <1>3. NoSinkTwice'
    BY <1>b DEF EmissionInv, NoSinkTwice
  <1>4. UnregisteredInv'
    BY <1>b DEF EmissionInv, UnregisteredInv, Registered
  <1>5. RegisteredInv'
    <2>1. \A j \in Occupied(sinks) : AtRest(sinks[j])
      BY <1>b DEF EmissionInv, RegisteredInv
    <2>2. Occupied(sinks)' = Occupied(sinks) /\ \A j \in Occupied(sinks) : AtRest(sinks[j])'
      BY <1>b, <2>1 DEF AtRest, Occupied
    <2>3. QED
      BY <1>b, <1>f, <2>2 DEF RegisteredInv, Delivering
  <1>6. SequenceInv'
    <2>1. \A u \in Task, j \in Slot : ~Announcing(u, j) /\ ~Announcing(u, j)'
      BY <1>b, <1>f DEF Announcing
    <2>2. QED
      BY <1>b, <1>f, <2>1 DEF EmissionInv, SequenceInv, Occupied
  <1>7. TimeInv'
    BY <1>b, <1>f DEF EmissionInv, TimeInv
  <1>8. QED
    BY <1>1, <1>2, <1>3, <1>4, <1>5, <1>6, <1>7 DEF EmissionInv

LEMMA TableLockStep ==
    ASSUME Typed, EmissionInv, NEW t \in Task, TableLock(t) PROVE EmissionInv'
  <1> USE CoreAssumption
  <1>a. pc \in [Task -> PC]
    BY DEF Typed, TypeOK
  <1>b. /\ pc[t] = "table" /\ emitLock = NoTask /\ emitLock' = t
        /\ pc'[t] = "edit" /\ \A u \in Task \ {t} : pc'[u] = pc[u]
        /\ UNCHANGED <<sinks, seq, now, call, cur, snap, todo, view, lastSeq, lastTs>>
    BY <1>a DEF TableLock, Goto, history
  <1>c. \A u \in Task : ~Holding(u)
    BY <1>b DEF EmissionInv, LockInv
  <1>d. \A u \in Task : /\ pc[u] \notin {"start", "payload", "end", "number"}
                        /\ pc'[u] \notin {"start", "payload", "end", "number"}
    BY <1>b, <1>c DEF Holding, Delivering
  <1>1. LockInv'
    BY <1>b, <1>c DEF LockInv, Holding, Delivering
  <1>2. SnapInv'
    BY <1>b, <1>d DEF EmissionInv, SnapInv, Delivering
  <1>3. NoSinkTwice'
    BY <1>b DEF EmissionInv, NoSinkTwice
  <1>4. UnregisteredInv'
    BY <1>b DEF EmissionInv, UnregisteredInv, Registered
  <1>5. RegisteredInv'
    BY <1>b, <1>d DEF EmissionInv, RegisteredInv, Delivering, AtRest, Occupied
  <1>6. SequenceInv'
    BY <1>b, <1>d DEF EmissionInv, SequenceInv, Announcing, Occupied
  <1>7. TimeInv'
    BY <1>b, <1>d DEF EmissionInv, TimeInv
  <1>8. QED
    BY <1>1, <1>2, <1>3, <1>4, <1>5, <1>6, <1>7 DEF EmissionInv

(***************************************************************************)
(* The steps of a task that holds the lock to edit the table: the table    *)
(* edit itself, and the release.                                           *)
(***************************************************************************)
LEMMA EditFacts ==
    ASSUME Typed, EmissionInv, NEW t \in Task, pc[t] \in {"edit", "unlock"}
    PROVE  /\ emitLock = t
           /\ \A u \in Task : u # t => ~Holding(u)
           /\ \A u \in Task : pc[u] \notin {"start", "payload", "end", "number"}
           /\ \A i \in Occupied(sinks) : AtRest(sinks[i])
           /\ \A i \in Occupied(sinks) :
                 lastSeq[sinks[i]] # None => seq = NextSeq(lastSeq[sinks[i]])
  <1>1. Holding(t)
    BY DEF Holding
  <1>2. emitLock = t /\ \A u \in Task : u # t => ~Holding(u)
    BY <1>1, OneHolder DEF EmissionInv, LockInv
  <1>3. \A u \in Task : pc[u] \notin {"start", "payload", "end", "number"}
    BY <1>2 DEF Holding, Delivering
  <1>4. \A i \in Occupied(sinks) : AtRest(sinks[i])
    BY <1>3 DEF EmissionInv, RegisteredInv, Delivering
  <1>5. \A i \in Occupied(sinks) : lastSeq[sinks[i]] # None => seq = NextSeq(lastSeq[sinks[i]])
    BY <1>3 DEF EmissionInv, SequenceInv, Announcing
  <1>6. QED
    BY <1>2, <1>3, <1>4, <1>5

LEMMA UnchangedStep ==
    ASSUME Typed, EmissionInv, NEW t \in Task, TableUnchanged(t) \/ TableUnlock(t)
    PROVE  EmissionInv'
  <1> USE CoreAssumption
  <1>a. pc \in [Task -> PC] /\ call \in [Task -> Call]
    BY DEF Typed, TypeOK
  <1>b. /\ \/ pc[t] = "edit" /\ pc'[t] = "unlock" /\ emitLock' = emitLock
           \/ pc[t] = "unlock" /\ pc'[t] = "idle" /\ emitLock' = NoTask
        /\ \A u \in Task \ {t} : pc'[u] = pc[u] /\ call'[u] = call[u]
        /\ UNCHANGED <<sinks, seq, now, cur, snap, todo, view, lastSeq, lastTs>>
    BY <1>a DEF TableUnchanged, TableUnlock, Return, Goto, globals, history
  <1>c. /\ emitLock = t
        /\ \A u \in Task : u # t => ~Holding(u)
        /\ \A u \in Task : pc[u] \notin {"start", "payload", "end", "number"}
        /\ \A i \in Occupied(sinks) : AtRest(sinks[i])
        /\ \A i \in Occupied(sinks) :
              lastSeq[sinks[i]] # None => seq = NextSeq(lastSeq[sinks[i]])
    BY <1>b, EditFacts
  <1>d. \A u \in Task : pc'[u] \notin {"start", "payload", "end", "number"}
    BY <1>b, <1>c
  <1>1. LockInv'
    BY <1>b, <1>c DEF LockInv, Holding, Delivering
  <1>2. SnapInv'
    BY <1>b, <1>d DEF EmissionInv, SnapInv, Delivering
  <1>3. NoSinkTwice'
    BY <1>b DEF EmissionInv, NoSinkTwice
  <1>4. UnregisteredInv'
    BY <1>b DEF EmissionInv, UnregisteredInv, Registered
  <1>5. RegisteredInv'
    BY <1>b, <1>c, <1>d DEF RegisteredInv, AtRest, Occupied
  <1>6. SequenceInv'
    BY <1>b, <1>c, <1>d DEF SequenceInv, Announcing, Occupied
  <1>7. TimeInv'
    BY <1>b, <1>d DEF EmissionInv, TimeInv
  <1>8. QED
    BY <1>1, <1>2, <1>3, <1>4, <1>5, <1>6, <1>7 DEF EmissionInv

LEMMA AddStep ==
    ASSUME Typed, EmissionInv, NEW t \in Task, AddSink(t)
    PROVE  EmissionInv' /\ call[t].sink \in Sink /\ view[call[t].sink].cb = "removed"
  <1> DEFINE s == call[t].sink
  <1> USE CoreAssumption
  <1>a. /\ pc \in [Task -> PC] /\ sinks \in [Slot -> Sink \cup {NoSink}]
        /\ view \in [Sink -> View] /\ lastTs \in [Sink -> Nat]
    BY DEF Typed, TypeOK
  <1>b. PICK i \in Slot : sinks[i] = NoSink /\ sinks' = [sinks EXCEPT ![i] = s]
    BY DEF AddSink, Free
  <1>c. /\ pc[t] = "edit" /\ ~Registered(s) /\ view' = [view EXCEPT ![s] = Quiet("added")]
        /\ pc'[t] = "unlock" /\ \A u \in Task \ {t} : pc'[u] = pc[u]
        /\ UNCHANGED <<emitLock, seq, now, call, cur, snap, todo, lastSeq, lastTs>>
    BY <1>a DEF AddSink, Goto
  <1>d. s \in Sink
    BY <1>c DEF EmissionInv, SnapInv
  <1>e. /\ emitLock = t
        /\ \A u \in Task : u # t => ~Holding(u)
        /\ \A u \in Task : pc[u] \notin {"start", "payload", "end", "number"}
        /\ \A j \in Occupied(sinks) : AtRest(sinks[j])
        /\ \A j \in Occupied(sinks) :
              lastSeq[sinks[j]] # None => seq = NextSeq(lastSeq[sinks[j]])
    BY <1>c, EditFacts
  <1>f. \A u \in Task : pc'[u] \notin {"start", "payload", "end", "number"}
    BY <1>c, <1>e
  <1>g. view[s].cb = "removed" /\ lastSeq[s] = None
    BY <1>c, <1>d DEF EmissionInv, UnregisteredInv
  <1>h. \A j \in Slot : sinks[j] # s /\ (j # i => sinks'[j] = sinks[j])
    BY <1>a, <1>b, <1>c DEF Registered
  <1>i. sinks'[i] = s
    BY <1>a, <1>b
  <1> HIDE DEF s
  <1>1. LockInv'
    BY <1>c, <1>e DEF EmissionInv, LockInv, Holding, Delivering
  <1>2. SnapInv'
    BY <1>c, <1>f DEF EmissionInv, SnapInv, Delivering
  <1>3. NoSinkTwice'
    BY <1>b, <1>d, <1>h, <1>i DEF EmissionInv, NoSinkTwice
  <1>4. UnregisteredInv'
    <2>1. \A r \in Sink : ~Registered(r)' => r # s /\ ~Registered(r)
      BY <1>b, <1>d, <1>h, <1>i DEF Registered
    <2>2. QED
      BY <1>a, <1>c, <2>1 DEF EmissionInv, UnregisteredInv
  <1>5. RegisteredInv'
    <2>1. view'[s].cb = "added"
      BY <1>a, <1>c, <1>d DEF Quiet
    <2>2. ASSUME NEW j \in Occupied(sinks)'
          PROVE  AtRest(sinks[j])'
      <3>1. CASE j = i
        BY <3>1, <1>i, <2>1 DEF AtRest
      <3>2. CASE j # i
        <4>1. j \in Slot /\ sinks'[j] = sinks[j] /\ sinks[j] # s /\ sinks[j] # NoSink
          BY <3>2, <1>h DEF Occupied
        <4>2. AtRest(sinks[j])
          BY <4>1, <1>e DEF Occupied
        <4>3. sinks[j] \in Sink
          BY <1>a, <4>1
        <4>4. view'[sinks[j]] = view[sinks[j]]
          BY <1>a, <1>c, <4>1, <4>3
        <4>5. QED
          BY <4>1, <4>2, <4>4 DEF AtRest
      <3>3. QED
        BY <3>1, <3>2
    <2>3. QED
      BY <1>f, <2>2 DEF RegisteredInv
  <1>6. SequenceInv'
    <2>1. \A j \in Occupied(sinks)' :
             lastSeq'[sinks'[j]] # None => seq' = NextSeq(lastSeq'[sinks'[j]])
      BY <1>c, <1>e, <1>g, <1>h, <1>i DEF Occupied
    <2>2. QED
      BY <1>f, <2>1 DEF SequenceInv, Announcing
  <1>7. TimeInv'
    BY <1>c, <1>f DEF EmissionInv, TimeInv
  <1>8. QED
    BY <1>1, <1>2, <1>3, <1>4, <1>5, <1>6, <1>7, <1>d, <1>g DEF EmissionInv, s

LEMMA RemoveStep ==
    ASSUME Typed, EmissionInv, NEW t \in Task, RemoveSink(t)
    PROVE  EmissionInv' /\ call[t].sink \in Sink /\ AtRest(call[t].sink)
  <1> DEFINE s == call[t].sink
  <1> USE CoreAssumption
  <1>a. /\ pc \in [Task -> PC] /\ sinks \in [Slot -> Sink \cup {NoSink}]
        /\ view \in [Sink -> View] /\ lastTs \in [Sink -> Nat] /\ now \in Nat
        /\ lastSeq \in [Sink -> (0 .. SeqMod - 1) \cup {None}]
    BY DEF Typed, TypeOK
  <1>b. PICK i \in Slot : sinks[i] = s /\ sinks' = [sinks EXCEPT ![i] = NoSink]
    BY DEF RemoveSink
  <1>c. /\ pc[t] = "edit" /\ view' = [view EXCEPT ![s] = Quiet("removed")]
        /\ lastSeq' = [lastSeq EXCEPT ![s] = None] /\ lastTs' = [lastTs EXCEPT ![s] = 0]
        /\ pc'[t] = "unlock" /\ \A u \in Task \ {t} : pc'[u] = pc[u]
        /\ UNCHANGED <<emitLock, seq, now, call, cur, snap, todo>>
    BY <1>a DEF RemoveSink, Goto
  <1>d. s \in Sink
    BY <1>c DEF EmissionInv, SnapInv
  <1>e. /\ emitLock = t
        /\ \A u \in Task : u # t => ~Holding(u)
        /\ \A u \in Task : pc[u] \notin {"start", "payload", "end", "number"}
        /\ \A j \in Occupied(sinks) : AtRest(sinks[j])
        /\ \A j \in Occupied(sinks) :
              lastSeq[sinks[j]] # None => seq = NextSeq(lastSeq[sinks[j]])
    BY <1>c, EditFacts
  <1>f. \A u \in Task : pc'[u] \notin {"start", "payload", "end", "number"}
    BY <1>c, <1>e
  <1>g. AtRest(s)
    BY <1>b, <1>d, <1>e DEF Occupied
  <1>h. \A j \in Slot : j # i => sinks[j] # s /\ sinks'[j] = sinks[j]
    BY <1>a, <1>b, <1>d DEF EmissionInv, NoSinkTwice
  <1>i. sinks'[i] = NoSink
    BY <1>a, <1>b
  <1>j. \A j \in Occupied(sinks)' : j \in Occupied(sinks) /\ j # i /\ sinks'[j] = sinks[j]
                                    /\ sinks[j] # s /\ sinks[j] \in Sink
    BY <1>a, <1>h, <1>i DEF Occupied
  <1> HIDE DEF s
  <1>1. LockInv'
    BY <1>c, <1>e DEF EmissionInv, LockInv, Holding, Delivering
  <1>2. SnapInv'
    BY <1>c, <1>f DEF EmissionInv, SnapInv, Delivering
  <1>3. NoSinkTwice'
    BY <1>h, <1>i DEF EmissionInv, NoSinkTwice
  <1>4. UnregisteredInv'
    <2>1. \A r \in Sink : ~Registered(r)' => r = s \/ ~Registered(r)
      BY <1>b, <1>h DEF Registered
    <2>2. view'[s].cb = "removed" /\ lastSeq'[s] = None /\ lastTs'[s] = 0
      BY <1>a, <1>c, <1>d DEF Quiet
    <2>3. QED
      BY <1>a, <1>c, <2>1, <2>2 DEF EmissionInv, UnregisteredInv
  <1>5. RegisteredInv'
    <2>1. \A j \in Occupied(sinks)' : AtRest(sinks[j])'
      BY <1>a, <1>c, <1>e, <1>j DEF AtRest
    <2>2. QED
      BY <1>f, <2>1 DEF RegisteredInv
  <1>6. SequenceInv'
    <2>1. \A j \in Occupied(sinks)' :
             lastSeq'[sinks'[j]] # None => seq' = NextSeq(lastSeq'[sinks'[j]])
      BY <1>a, <1>c, <1>e, <1>j
    <2>2. QED
      BY <1>f, <2>1 DEF SequenceInv, Announcing
  <1>7. TimeInv'
    BY <1>a, <1>c, <1>f DEF EmissionInv, TimeInv
  <1>8. QED
    BY <1>1, <1>2, <1>3, <1>4, <1>5, <1>6, <1>7, <1>d, <1>g DEF EmissionInv, s

LEMMA TickStep ==
    ASSUME Typed, EmissionInv, Tick PROVE EmissionInv'
  <1>a. /\ now \in Nat /\ now' = now + 1 /\ lastTs \in [Sink -> Nat] /\ cur \in [Task -> Packet]
        /\ UNCHANGED <<emitLock, sinks, seq, pc, call, cur, snap, todo, view, lastSeq, lastTs>>
    BY DEF Typed, TypeOK, Tick, locals, history
  <1>1. TimeInv'
    BY <1>a DEF EmissionInv, TimeInv, Packet
  <1>2. LockInv' /\ SnapInv' /\ NoSinkTwice' /\ UnregisteredInv'
    BY <1>a DEF EmissionInv, LockInv, SnapInv, NoSinkTwice, UnregisteredInv, Holding, Delivering,
       Occupied, Registered
  <1>3. RegisteredInv' /\ SequenceInv'
    BY <1>a DEF EmissionInv, RegisteredInv, SequenceInv, Occupied, Delivering, AtRest, Inside,
       SamePacket, Announcing, Numbered
  <1>4. QED
    BY <1>1, <1>2, <1>3 DEF EmissionInv

-----------------------------------------------------------------------------
\* The steps of a call that touch neither the lock, the table nor a sink.
Unnoticed(t) ==
    \/ BeginWrite(t) \/ BeginBuffer(t) \/ BeginBoot(t)
    \/ \E type \in {"LOG", "TIME_SYNC"} : BeginDispatch(t, type)
    \/ \E fn \in {"add", "remove"}, s \in Sink : BeginTableEdit(t, fn, s)
    \/ TakeNone(t) \/ TakeDropped(t)
    \/ WriteFits(t) \/ PacketTooLong(t) \/ EmitChunk(t) \/ EmitDispatched(t)

\* What every unnoticed step has in common.
LEMMA UnnoticedFacts ==
    ASSUME Typed, EmissionInv, NEW t \in Task, Unnoticed(t)
    PROVE  /\ pc[t] \in {"idle", "take", "body", "chunk"}
           /\ \E label \in {"take", "table", "open", "body", "idle"} :
                 /\ pc' = [pc EXCEPT ![t] = label]
                 /\ label = "table" => call'[t].sink \in Sink
           /\ \A u \in Task \ {t} : call'[u] = call[u] /\ cur'[u] = cur[u]
           /\ cur'[t].by = t
           /\ UNCHANGED <<emitLock, sinks, seq, now, snap, todo, view, lastSeq, lastTs>>
  <1>a. cur \in [Task -> Packet] /\ call \in [Task -> Call] /\ cur[t].by = t
    BY DEF Typed, TypeOK, EmissionInv, SnapInv
  <1>1. CASE BeginWrite(t) \/ BeginBuffer(t)
    BY <1>a, <1>1 DEF BeginWrite, BeginBuffer, Goto, globals, history
  <1>2. CASE BeginBoot(t)
    BY <1>a, <1>2 DEF BeginBoot, Goto, globals, history, Template
  <1>3. CASE \E type \in {"LOG", "TIME_SYNC"} : BeginDispatch(t, type)
    BY <1>a, <1>3 DEF BeginDispatch, Goto, globals, history
  <1>4. CASE \E fn \in {"add", "remove"}, s \in Sink : BeginTableEdit(t, fn, s)
    BY <1>a, <1>4 DEF BeginTableEdit, ApiCall, Goto, globals, history
  <1>5. CASE TakeNone(t)
    BY <1>a, <1>5 DEF TakeNone, Goto, globals, history
  <1>6. CASE TakeDropped(t)
    BY <1>a, <1>6 DEF TakeDropped, Goto, history, Template
  <1>7. CASE WriteFits(t) \/ EmitDispatched(t)
    BY <1>a, <1>7 DEF WriteFits, EmitDispatched, Goto, globals, history, Template
  <1>8. CASE PacketTooLong(t)
    BY <1>a, <1>8 DEF PacketTooLong, Return, CountDrop
  <1>9. CASE EmitChunk(t)
    BY <1>a, <1>9 DEF EmitChunk, Goto, globals, history, ChunkTemplate
  <1>10. QED
    BY <1>1, <1>2, <1>3, <1>4, <1>5, <1>6, <1>7, <1>8, <1>9 DEF Unnoticed

LEMMA UnnoticedStep ==
    ASSUME Typed, EmissionInv, NEW t \in Task, Unnoticed(t) PROVE EmissionInv'
  <1>1. ~Holding(t)
    BY UnnoticedFacts DEF Holding, Delivering
  <1>2. PICK label \in {"take", "table", "open", "body", "idle"} :
           /\ pc' = [pc EXCEPT ![t] = label]
           /\ label = "table" => call'[t].sink \in Sink
    BY UnnoticedFacts
  <1>3. label \in PC
    BY DEF PC
  <1>4. /\ \A u \in Task \ {t} : call'[u] = call[u] /\ cur'[u] = cur[u]
        /\ cur'[t].by = t
        /\ UNCHANGED <<emitLock, sinks, seq, now, snap, todo, view, lastSeq, lastTs>>
    BY UnnoticedFacts
  <1>5. QED
    BY <1>1, <1>2, <1>3, <1>4, QuietStep

\* A step in which nothing the invariant speaks of changes.
LEMMA StutterStep ==
    ASSUME EmissionInv,
           UNCHANGED <<emitLock, sinks, seq, now, pc, call, cur, snap, todo, view, lastSeq, lastTs>>
    PROVE  EmissionInv'
  BY DEF EmissionInv, LockInv, SnapInv, NoSinkTwice, UnregisteredInv, RegisteredInv, SequenceInv,
     TimeInv, Holding, Delivering, Occupied, Registered, AtRest, Inside, SamePacket, Announcing,
     Numbered

\* The three ways a stream ends release the lock and clear the packet.
LEMMA EndStep ==
    ASSUME Typed, EmissionInv, NEW t \in Task, EndNotice(t) \/ EndChunk(t) \/ EndPacket(t)
    PROVE  EmissionInv'
  <1>a. call \in [Task -> Call]
    BY DEF Typed, TypeOK
  <1>1. /\ StreamEnd(t)
        /\ \E label \in {"body", "chunk", "idle"} : pc' = [pc EXCEPT ![t] = label]
        /\ \A u \in Task \ {t} : call'[u] = call[u]
    BY <1>a DEF EndNotice, EndChunk, EndPacket, Goto, Return
  <1>2. QED
    BY <1>1, CloseStep

\* The steps that change what a sink has seen.
Noticed ==
    \/ \E t \in Task, i \in Slot : StartCb(t, i) \/ PayloadCb(t, i) \/ EndCb(t, i)
    \/ \E t \in Task : AddSink(t) \/ RemoveSink(t)

\* Every step is a noticed one or leaves the sinks' views alone.
LEMMA StepKinds ==
    ASSUME Typed, EmissionInv, [Next]_vars
    PROVE  EmissionInv' /\ (Noticed \/ UNCHANGED <<view, lastSeq, lastTs>>)
  <1>1. CASE UNCHANGED vars
    BY <1>1, StutterStep DEF vars, globals, locals, history
  <1>2. CASE IsrDrop
    BY <1>2, StutterStep DEF IsrDrop, CountDrop, locals
  <1>3. CASE Tick
    BY <1>3, TickStep DEF Tick, history
  <1>4. ASSUME NEW t \in Task, Begin(t) \/ InCall(t)
        PROVE  EmissionInv' /\ (Noticed \/ UNCHANGED <<view, lastSeq, lastTs>>)
    <2>1. CASE Unnoticed(t)
      BY <2>1, UnnoticedStep, UnnoticedFacts
    <2>2. CASE RejectBuffer(t)
      BY <2>2, StutterStep DEF RejectBuffer, CountDrop, locals
    <2>3. CASE StreamOpen(t)
      BY <2>3, OpenStep DEF StreamOpen, history
    <2>4. CASE NumberPacket(t)
      BY <2>4, NumberStep DEF NumberPacket, history
    <2>5. CASE NextChunk(t) \/ LastChunkSent(t)
      BY <2>5, RoundStep DEF NextChunk, LastChunkSent, history
    <2>6. CASE EndNotice(t) \/ EndChunk(t) \/ EndPacket(t)
      BY <2>6, EndStep DEF EndNotice, EndChunk, EndPacket, StreamEnd
    <2>7. ASSUME NEW i \in Slot, StartCb(t, i) \/ PayloadCb(t, i) \/ EndCb(t, i)
          PROVE  EmissionInv' /\ Noticed
      BY <2>7, StartStep, PayloadStep, EndCbStep DEF Noticed
    <2>8. CASE TableLock(t)
      BY <2>8, TableLockStep DEF TableLock, history
    <2>9. CASE AddSink(t)
      BY <2>9, AddStep DEF Noticed
    <2>10. CASE RemoveSink(t)
      BY <2>10, RemoveStep DEF Noticed
    <2>11. CASE TableUnchanged(t) \/ TableUnlock(t)
      BY <2>11, UnchangedStep DEF TableUnchanged, TableUnlock, history
    <2>12. QED
      BY <1>4, <2>1, <2>2, <2>3, <2>4, <2>5, <2>6, <2>7, <2>8, <2>9, <2>10, <2>11
         DEF Begin, InCall, Unnoticed
  <1>5. QED
    BY <1>1, <1>2, <1>3, <1>4 DEF Next

-----------------------------------------------------------------------------
(***************************************************************************)
(* What one step does to what a sink has seen.                             *)
(***************************************************************************)

\* A callback step shows one registered sink one packet.
LEMMA CallbackFacts ==
    ASSUME Typed, EmissionInv, NEW t \in Task, NEW i \in Slot,
           NEW cb \in {"start", "payload", "end"}, pc[t] = cb, VisitSlot(t, i),
           Sees(snap[t][i], cb, cur[t])
    PROVE  /\ sinks[i] \in Sink /\ snap[t][i] = sinks[i] /\ cur[t] \in Packet
           /\ \A s \in Sink : s # sinks[i] => view'[s] = view[s]
           /\ view'[sinks[i]].cb = cb /\ SamePacket(view'[sinks[i]], cur[t])
  <1>1. /\ sinks \in [Slot -> Sink \cup {NoSink}] /\ view \in [Sink -> View]
        /\ cur \in [Task -> Packet]
    BY DEF Typed, TypeOK
  <1>2. snap[t] = sinks /\ i \in Occupied(sinks)
    BY DEF EmissionInv, SnapInv, Delivering, VisitSlot
  <1>3. sinks[i] \in Sink
    BY <1>1, <1>2 DEF Occupied
  <1>4. QED
    BY <1>1, <1>2, <1>3 DEF Sees, SamePacket

LEMMA StepWhole ==
    ASSUME Typed, EmissionInv, [Next]_vars, NEW s \in Sink, view'[s] # view[s]
    PROVE  MayFollow(view[s], view'[s])
  <1>a. view \in [Sink -> View]
    BY DEF Typed, TypeOK
  <1>1. ASSUME NEW t \in Task, NEW i \in Slot, StartCb(t, i)
        PROVE  MayFollow(view[s], view'[s])
    <2>1. pc[t] = "start" /\ VisitSlot(t, i) /\ Sees(snap[t][i], "start", cur[t])
      BY <1>1 DEF StartCb
    <2>2. s = sinks[i] /\ view'[s].cb = "start"
      BY <2>1, CallbackFacts
    <2>3. view[s].cb \in {"added", "end"}
      BY <1>1, <2>2, StartStep DEF AtRest
    <2>4. QED
      BY <2>2, <2>3 DEF MayFollow
  <1>2. ASSUME NEW t \in Task, NEW i \in Slot, PayloadCb(t, i)
        PROVE  MayFollow(view[s], view'[s])
    <2>1. pc[t] = "payload" /\ VisitSlot(t, i) /\ Sees(snap[t][i], "payload", cur[t])
      BY <1>2 DEF PayloadCb
    <2>2. s = sinks[i] /\ view'[s].cb = "payload" /\ SamePacket(view'[s], cur[t])
      BY <2>1, CallbackFacts
    <2>3. view[s].cb \in {"start", "payload"} /\ SamePacket(view[s], cur[t])
      BY <1>2, <2>2, PayloadStep DEF Inside
    <2>4. QED
      BY <2>2, <2>3 DEF MayFollow, SamePacket
  <1>3. ASSUME NEW t \in Task, NEW i \in Slot, EndCb(t, i)
        PROVE  MayFollow(view[s], view'[s])
    <2>1. pc[t] = "end" /\ VisitSlot(t, i) /\ Sees(snap[t][i], "end", cur[t])
      BY <1>3 DEF EndCb
    <2>2. s = sinks[i] /\ view'[s].cb = "end" /\ SamePacket(view'[s], cur[t])
      BY <2>1, CallbackFacts
    <2>3. view[s].cb \in {"start", "payload"} /\ SamePacket(view[s], cur[t])
      BY <1>3, <2>2, EndCbStep DEF Inside
    <2>4. QED
      BY <2>2, <2>3 DEF MayFollow, SamePacket
  <1>4. ASSUME NEW t \in Task, AddSink(t)
        PROVE  MayFollow(view[s], view'[s])
    <2>1. view' = [view EXCEPT ![call[t].sink] = Quiet("added")]
      BY <1>4 DEF AddSink
    <2>2. s = call[t].sink /\ view'[s].cb = "added"
      BY <1>a, <2>1 DEF Quiet
    <2>3. QED
      BY <1>4, <2>2, AddStep DEF MayFollow
  <1>5. ASSUME NEW t \in Task, RemoveSink(t)
        PROVE  MayFollow(view[s], view'[s])
    <2>1. view' = [view EXCEPT ![call[t].sink] = Quiet("removed")]
      BY <1>5 DEF RemoveSink
    <2>2. s = call[t].sink /\ view'[s].cb = "removed"
      BY <1>a, <2>1 DEF Quiet
    <2>3. QED
      BY <1>5, <2>2, RemoveStep DEF MayFollow, AtRest
  <1>6. Noticed
    BY StepKinds
  <1>7. QED
    BY <1>1, <1>2, <1>3, <1>4, <1>5, <1>6 DEF Noticed

\* Only start_cb can make a sink's view a "start".
LEMMA OnlyStartStarts ==
    ASSUME Typed, EmissionInv, [Next]_vars, NEW s \in Sink, view'[s] # view[s],
           view'[s].cb = "start"
    PROVE  \E t \in Task, i \in Slot :
              /\ StartCb(t, i) /\ s = sinks[i]
              /\ SamePacket(view'[s], cur[t])
  <1>a. view \in [Sink -> View]
    BY DEF Typed, TypeOK
  <1>1. ASSUME NEW t \in Task, NEW i \in Slot, StartCb(t, i)
        PROVE  s = sinks[i] /\ SamePacket(view'[s], cur[t])
    <2>1. pc[t] = "start" /\ VisitSlot(t, i) /\ Sees(snap[t][i], "start", cur[t])
      BY <1>1 DEF StartCb
    <2>2. QED
      BY <2>1, CallbackFacts
  <1>2. ASSUME NEW t \in Task, NEW i \in Slot, PayloadCb(t, i) PROVE FALSE
    <2>1. pc[t] = "payload" /\ VisitSlot(t, i) /\ Sees(snap[t][i], "payload", cur[t])
      BY <1>2 DEF PayloadCb
    <2>2. QED
      BY <2>1, CallbackFacts
  <1>3. ASSUME NEW t \in Task, NEW i \in Slot, EndCb(t, i) PROVE FALSE
    <2>1. pc[t] = "end" /\ VisitSlot(t, i) /\ Sees(snap[t][i], "end", cur[t])
      BY <1>3 DEF EndCb
    <2>2. QED
      BY <2>1, CallbackFacts
  <1>4. ASSUME NEW t \in Task, AddSink(t) \/ RemoveSink(t) PROVE FALSE
    <2>1. \/ view' = [view EXCEPT ![call[t].sink] = Quiet("added")]
          \/ view' = [view EXCEPT ![call[t].sink] = Quiet("removed")]
      BY <1>4 DEF AddSink, RemoveSink
    <2>2. QED
      BY <1>a, <2>1 DEF Quiet
  <1>5. Noticed
    BY StepKinds
  <1>6. QED
    BY <1>1, <1>2, <1>3, <1>4, <1>5 DEF Noticed

LEMMA StepSequence ==
    ASSUME Typed, EmissionInv, [Next]_vars, NEW s \in Sink,
           Starts(s, PacketType \ {"TIME_SYNC"})
    PROVE  lastSeq[s] = None \/ view'[s].seq = NextSeq(lastSeq[s])
  <1>1. view'[s] # view[s] /\ view'[s].cb = "start" /\ view'[s].type # "TIME_SYNC"
    BY DEF Starts
  <1>2. PICK t \in Task, i \in Slot :
           StartCb(t, i) /\ s = sinks[i] /\ SamePacket(view'[s], cur[t])
    BY <1>1, OnlyStartStarts
  <1>3. Numbered(cur[t]) /\ view'[s].seq = cur[t].seq
    BY <1>1, <1>2 DEF SamePacket, Numbered
  <1>4. QED
    BY <1>2, <1>3, StartStep

LEMMA StepTime ==
    ASSUME Typed, EmissionInv, [Next]_vars, NEW s \in Sink, view'[s].cb = "start"
    PROVE  lastTs[s] <= lastTs'[s]
  <1>a. lastTs \in [Sink -> Nat] /\ view \in [Sink -> View]
    BY DEF Typed, TypeOK
  <1>1. CASE view'[s] # view[s]
    BY <1>1, OnlyStartStarts, StartStep
  <1>2. CASE view'[s] = view[s]
    <2>1. CASE lastTs'[s] = lastTs[s]
      BY <1>a, <2>1
    <2>2. CASE lastTs'[s] # lastTs[s]
      <3>1. Noticed
        BY <2>2, StepKinds
      <3>2. ASSUME NEW t \in Task, NEW i \in Slot, StartCb(t, i)
            PROVE  s = sinks[i]
        <4>1. /\ pc[t] = "start" /\ VisitSlot(t, i) /\ Sees(snap[t][i], "start", cur[t])
              /\ lastTs' = [lastTs EXCEPT ![snap[t][i]] =
                              IF cur[t].ts # None THEN cur[t].ts ELSE @]
          BY <3>2 DEF StartCb
        <4>2. snap[t][i] = sinks[i]
          BY <4>1, CallbackFacts
        <4>3. QED
          BY <1>a, <2>2, <4>1, <4>2
      <3>3. ASSUME NEW t \in Task, RemoveSink(t)
            PROVE  FALSE
        <4>1. /\ lastTs' = [lastTs EXCEPT ![call[t].sink] = 0]
              /\ view' = [view EXCEPT ![call[t].sink] = Quiet("removed")]
          BY <3>3 DEF RemoveSink
        <4>2. s = call[t].sink
          BY <1>a, <2>2, <4>1
        <4>3. QED
          BY <1>a, <4>1, <4>2 DEF Quiet
      <3>4. ASSUME NEW t \in Task, NEW i \in Slot, PayloadCb(t, i) \/ EndCb(t, i) \/ AddSink(t)
            PROVE  FALSE
        BY <2>2, <3>4 DEF PayloadCb, EndCb, AddSink
      <3>5. PICK t \in Task, i \in Slot : StartCb(t, i)
        BY <3>1, <3>3, <3>4, CoreAssumption DEF Noticed, Slot
      <3>6. QED
        BY <3>2, <3>5, StartStep
    <2>3. QED
      BY <2>1, <2>2
  <1>3. QED
    BY <1>1, <1>2

-----------------------------------------------------------------------------
(***************************************************************************)
(* Type correctness: whatever the tasks, the sinks and the bounds, every   *)
(* variable of the emission path keeps a value of its kind; in particular  *)
(* s_seq stays within its width and every callback is for a real sink.     *)
(***************************************************************************)
THEOREM TypeCorrect == Spec => []TypeOK
  <1>1. Init => Typed
    BY InitTyped
  <1>2. Typed /\ [Next]_vars => Typed'
    BY StepTyped
  <1>3. Typed => TypeOK
    BY DEF Typed
  <1>4. QED
    BY <1>1, <1>2, <1>3, PTL DEF Spec

LEMMA Inductive == Spec => [](Typed /\ EmissionInv)
  <1>1. Init => Typed /\ EmissionInv
    BY InitTyped, InitEmission
  <1>2. Typed /\ EmissionInv /\ [Next]_vars => (Typed /\ EmissionInv)'
    BY StepTyped, StepKinds
  <1>3. QED
    BY <1>1, <1>2, PTL DEF Spec

(***************************************************************************)
(* The lock, the snapshots, the sinks' views, the sequence counter and the *)
(* clock agree in every reachable state of every instance.                 *)
(***************************************************************************)
THEOREM EmissionCorrect == Spec => []EmissionInv
  BY Inductive, PTL

(***************************************************************************)
(* on9log_add_sink never enters a (descriptor, context) pair twice, so no  *)
(* sink gets a callback twice, however many tasks register it at once.     *)
(***************************************************************************)
THEOREM SinkTableUnique == Spec => []NoSinkTwice
  <1>1. EmissionInv => NoSinkTwice
    BY DEF EmissionInv
  <1>2. QED
    BY <1>1, Inductive, PTL

(***************************************************************************)
(* The callbacks of two packets never mix at a sink, table changes fall    *)
(* between packets, and a removed sink is not called again.                *)
(***************************************************************************)
THEOREM PacketsAreWhole == Spec => WholePackets
  <1>1. Typed /\ EmissionInv /\ [Next]_vars =>
           [\A s \in Sink : view'[s] # view[s] => MayFollow(view[s], view'[s])]_view
    BY StepWhole
  <1>2. QED
    BY <1>1, Inductive, PTL DEF Spec, WholePackets

(***************************************************************************)
(* Every sink sees consecutive sequence numbers while it is registered.    *)
(***************************************************************************)
THEOREM SequenceHasNoGap == Spec => NoGapInSequence
  <1>1. Typed /\ EmissionInv /\ [Next]_vars =>
           [\A s \in Sink :
              Starts(s, PacketType \ {"TIME_SYNC"}) =>
                 \/ lastSeq[s] = None
                 \/ view'[s].seq = NextSeq(lastSeq[s])]_view
    BY StepSequence
  <1>2. QED
    BY <1>1, Inductive, PTL DEF Spec, NoGapInSequence

(***************************************************************************)
(* Packets stamped at emission reach every sink in timestamp order.        *)
(***************************************************************************)
THEOREM TimestampsOrdered == Spec => TimestampsInWireOrder
  <1>1. Typed /\ EmissionInv /\ [Next]_vars =>
           [\A s \in Sink : view'[s].cb = "start" => lastTs[s] <= lastTs'[s]]_lastTs
    BY StepTime
  <1>2. QED
    BY <1>1, Inductive, PTL DEF Spec, TimestampsInWireOrder

-----------------------------------------------------------------------------
(***************************************************************************)
(* What the emission path makes of its calls: the refinement of AtomicLog, *)
(* the chunks of a buffer, and the account of dropped messages.  The proof *)
(* rests on EmissionInv and on CallInv, which says what packet a task in a *)
(* given call is emitting.                                                 *)
(***************************************************************************)
(***************************************************************************)
(* A task's packet belongs to its call.                                    *)
(***************************************************************************)
Emitting(t) == Delivering(t) \/ pc[t] \in {"open", "number"}

\* Calls that report earlier drops before their own packet.
Reporting == {"write", "buffer", "dispatch"}

\* The packet in hand is the call's own one (for a buffer, the chunk before off).
OwnPacket(t) ==
    \/ call[t].fn = "write" /\ cur[t].type = "LOG"
    \/ call[t].fn = "boot" /\ cur[t].type = "BOOT"
    \/ call[t].fn = "dispatch" /\ cur[t].type = call[t].type
    \/ /\ call[t].fn = "buffer" /\ cur[t].type = "BUFFER"
       /\ cur[t].total = call[t].total /\ cur[t].tag = call[t].tag
       /\ off[t] = cur[t].val + ChunkLen(call[t].total, cur[t].val)
       /\ cur[t].val = 0 \/ cur[t].val < call[t].total

\* ... or the DROPPED notice that precedes it.
Notice(t) ==
    /\ call[t].fn \in Reporting
    /\ cur[t].type = "DROPPED"
    /\ cur[t].val = taken[t]
    /\ off[t] = 0

\* One task's part of the invariant.
OnCourse(t) ==
    /\ pc[t] \in {"take", "body"} => call[t].fn \in Reporting /\ off[t] = 0
    /\ pc[t] = "chunk" => call[t].fn = "buffer" /\ off[t] < call[t].total
    /\ pc[t] \in {"table", "edit", "unlock"} => call[t].fn \in {"add", "remove"}
    /\ pc[t] = "idle" => call[t].fn = "none"
    /\ call[t].fn = "buffer" => call[t].tag \in Tag
    /\ Emitting(t) => (OwnPacket(t) /\ taken[t] = 0) \/ Notice(t)
    /\ ~Emitting(t) => taken[t] = 0

CallInv == \A t \in Task : OnCourse(t)

LEMMA InitCall == Init => CallInv
  BY DEF Init, CallInv, OnCourse, Emitting, Delivering, NoCall, ApiCall

\* A step of task t leaves the other tasks' locals alone.
LEMMA OthersOnCourse ==
    ASSUME CallInv, NEW t \in Task, OnCourse(t)',
           \A u \in Task \ {t} : /\ pc'[u] = pc[u] /\ call'[u] = call[u] /\ off'[u] = off[u]
                                 /\ cur'[u] = cur[u] /\ taken'[u] = taken[u]
    PROVE  CallInv'
  BY DEF CallInv, OnCourse, Emitting, Delivering, OwnPacket, Notice

LEMMA StepCall == Typed /\ CallInv /\ [Next]_vars => CallInv'
  <1> SUFFICES ASSUME Typed, CallInv, [Next]_vars PROVE CallInv'
    OBVIOUS
  <1> USE CoreAssumption
  <1>a. /\ pc \in [Task -> PC] /\ cur \in [Task -> Packet] /\ call \in [Task -> Call]
        /\ taken \in [Task -> Nat] /\ off \in [Task -> Nat] /\ dropped \in Nat
    BY DEF Typed, TypeOK
  <1>1. CASE UNCHANGED <<pc, call, off, cur, taken>>
    BY <1>1 DEF CallInv, OnCourse, Emitting, Delivering, OwnPacket, Notice
  <1>2. ASSUME NEW t \in Task, Begin(t) \/ InCall(t)
        PROVE  CallInv'
    <2> DEFINE Rest == \A u \in Task \ {t} :
                          /\ pc'[u] = pc[u] /\ call'[u] = call[u] /\ off'[u] = off[u]
                          /\ cur'[u] = cur[u] /\ taken'[u] = taken[u]
    <2>a. OnCourse(t) /\ off[t] \in Nat /\ off[t] <= call[t].total /\ (pc[t] = "idle" => off[t] = 0)
      BY <1>a DEF CallInv, Typed, OffsetInv
    <2>1. CASE BeginWrite(t) \/ BeginBuffer(t)
      BY <1>a, <2>a, <2>1, OthersOnCourse
         DEF BeginWrite, BeginBuffer, Goto, ApiCall, BufferCall, OnCourse, Emitting, Delivering, Reporting
    <2>2. CASE BeginBoot(t)
      BY <1>a, <2>a, <2>2, OthersOnCourse
         DEF BeginBoot, Goto, ApiCall, OnCourse, Emitting, Delivering, OwnPacket, Template
    <2>3. CASE \E type \in {"LOG", "TIME_SYNC"} : BeginDispatch(t, type)
      BY <1>a, <2>a, <2>3, OthersOnCourse
         DEF BeginDispatch, Goto, ApiCall, OnCourse, Emitting, Delivering, Reporting
    <2>4. CASE \E fn \in {"add", "remove"}, s \in Sink : BeginTableEdit(t, fn, s)
      BY <1>a, <2>a, <2>4, OthersOnCourse
         DEF BeginTableEdit, Goto, ApiCall, OnCourse, Emitting, Delivering
    <2>5. CASE RejectBuffer(t)
      BY <1>1, <2>5 DEF RejectBuffer, locals
    <2>6. CASE TakeNone(t)
      BY <1>a, <2>a, <2>6, OthersOnCourse DEF TakeNone, Goto, OnCourse, Emitting, Delivering
    <2>7. CASE TakeDropped(t)
      BY <1>a, <2>a, <2>7, OthersOnCourse
         DEF TakeDropped, Goto, OnCourse, Emitting, Delivering, Notice, Template
    <2>8. CASE WriteFits(t)
      BY <1>a, <2>a, <2>8, OthersOnCourse
         DEF WriteFits, Goto, OnCourse, Emitting, Delivering, OwnPacket, Template
    <2>9. CASE PacketTooLong(t)
      BY <1>a, <2>a, <2>9, OthersOnCourse
         DEF PacketTooLong, Return, NoCall, ApiCall, OnCourse, Emitting, Delivering
    <2>10. CASE EmitChunk(t)
      BY <1>a, <2>a, <2>10, OthersOnCourse
         DEF EmitChunk, Goto, OnCourse, Emitting, Delivering, OwnPacket, ChunkTemplate
    <2>11. CASE EmitDispatched(t)
      BY <1>a, <2>a, <2>11, OthersOnCourse
         DEF EmitDispatched, Goto, OnCourse, Emitting, Delivering, OwnPacket, Template
    <2>12. CASE StreamOpen(t)
      BY <1>a, <2>a, <2>12, OthersOnCourse
         DEF StreamOpen, Goto, OnCourse, Emitting, Delivering, OwnPacket, Notice
    <2>13. CASE NumberPacket(t)
      <3>1. /\ cur'[t].type = cur[t].type /\ cur'[t].val = cur[t].val /\ cur'[t].tag = cur[t].tag
            /\ cur'[t].total = cur[t].total /\ \A u \in Task \ {t} : cur'[u] = cur[u]
        BY <1>a, <2>13 DEF NumberPacket, Stamped
      <3>2. /\ pc[t] = "number" /\ pc'[t] = "start" /\ UNCHANGED <<call, off, taken>>
            /\ \A u \in Task \ {t} : pc'[u] = pc[u]
        BY <1>a, <2>13 DEF NumberPacket, Goto
      <3>3. (OwnPacket(t) <=> OwnPacket(t)') /\ (Notice(t) <=> Notice(t)')
        BY <3>1, <3>2 DEF OwnPacket, Notice
      <3>4. OnCourse(t)'
        BY <2>a, <3>2, <3>3 DEF OnCourse, Emitting, Delivering
      <3>5. QED
        BY <3>1, <3>2, <3>4, OthersOnCourse
    <2>14. CASE NextChunk(t) \/ LastChunkSent(t)
      BY <1>a, <2>a, <2>14, OthersOnCourse
         DEF NextChunk, LastChunkSent, Goto, OnCourse, Emitting, Delivering, OwnPacket, Notice
    <2>15. CASE EndNotice(t)
      BY <1>a, <2>a, <2>15, OthersOnCourse
         DEF EndNotice, StreamEnd, Goto, OnCourse, Emitting, Delivering, OwnPacket, Notice, Call, Reporting
    <2>16. CASE EndChunk(t)
      BY <1>a, <2>a, <2>16, OthersOnCourse
         DEF EndChunk, StreamEnd, Goto, OnCourse, Emitting, Delivering, OwnPacket, Notice, Call
    <2>17. CASE EndPacket(t)
      BY <1>a, <2>a, <2>17, OthersOnCourse
         DEF EndPacket, StreamEnd, Return, NoCall, ApiCall, OnCourse, Emitting, Delivering,
             OwnPacket, Notice
    <2>18. CASE \E i \in Slot : StartCb(t, i) \/ PayloadCb(t, i) \/ EndCb(t, i)
      BY <1>1, <2>18 DEF StartCb, PayloadCb, EndCb
    <2>19. CASE TableLock(t) \/ AddSink(t) \/ RemoveSink(t) \/ TableUnchanged(t)
      BY <1>a, <2>a, <2>19, OthersOnCourse
         DEF TableLock, AddSink, RemoveSink, TableUnchanged, Goto, OnCourse, Emitting, Delivering
    <2>20. CASE TableUnlock(t)
      BY <1>a, <2>a, <2>20, OthersOnCourse
         DEF TableUnlock, Return, NoCall, ApiCall, OnCourse, Emitting, Delivering
    <2>21. QED
      BY <1>2, <2>1, <2>2, <2>3, <2>4, <2>5, <2>6, <2>7, <2>8, <2>9, <2>10, <2>11, <2>12, <2>13,
         <2>14, <2>15, <2>16, <2>17, <2>18, <2>19, <2>20 DEF Begin, InCall
  <1>3. CASE IsrDrop \/ Tick \/ UNCHANGED vars
    BY <1>1, <1>3 DEF IsrDrop, Tick, vars, locals
  <1>4. QED
    BY <1>2, <1>3 DEF Next

-----------------------------------------------------------------------------
(***************************************************************************)
(* What a sink has seen of the buffers of a tag.                           *)
(***************************************************************************)
\* Task t holds a chunk that sink s, if it is registered, has yet to see.
Due(t, s) ==
    /\ cur[t].type = "BUFFER"
    /\ pc[t] \in {"open", "number"} \/ Approaching(t, s)

\* Where the next chunk that t will show to s begins.
Position(t, s) == IF Due(t, s) THEN cur[t].val ELSE off[t]

\* Task t goes on where the last chunk of tag g that s saw ends.
Waiting(t, s, g) ==
    /\ InBuffer(t, g)
    /\ Position(t, s) > 0
    /\ asm[s][g].next = Position(t, s)
    /\ asm[s][g].total = call[t].total

\* The last chunk of tag g that s saw is the last one of its buffer.
Whole(s, g) == asm[s][g].next = asm[s][g].total

\* Of a tag whose calls do not overlap, a sink saw all that was sent.
Alone(s, g) ==
    ~mixed[g] => \A t \in Task : InBuffer(t, g) =>
                    IF Position(t, s) > 0 THEN Waiting(t, s, g) ELSE Whole(s, g)

\* A sink that saw anything of tag g was not left in the middle of a buffer.
SeenRight(s, g) ==
    \/ asm[s][g] = NothingSeen
    \/ /\ Registered(s)
       /\ Whole(s, g) \/ \E t \in Task : Waiting(t, s, g)
       /\ Alone(s, g)

ChunkInv == \A s \in Sink, g \in Tag : SeenRight(s, g)

\* Calls that do not overlap: at most one of them is in progress.
MixedInv ==
    \A g \in Tag : ~mixed[g] =>
       \A t, u \in Task : InBuffer(t, g) /\ InBuffer(u, g) => t = u

LEMMA InitChunk == Init => ChunkInv /\ MixedInv
  BY DEF Init, ChunkInv, SeenRight, MixedInv, InBuffer, NoCall, ApiCall

\* The locals of every task but t stay as they are.
Rest(t) ==
    \A u \in Task \ {t} : /\ pc'[u] = pc[u] /\ call'[u] = call[u] /\ off'[u] = off[u]
                          /\ cur'[u] = cur[u] /\ snap'[u] = snap[u] /\ todo'[u] = todo[u]

\* What a step of t means for the other tasks.
LEMMA RestFrame ==
    ASSUME NEW t \in Task, Rest(t), NEW u \in Task \ {t}, NEW s \in Sink, NEW g \in Tag
    PROVE  /\ Position(u, s)' = Position(u, s)
           /\ InBuffer(u, g)' <=> InBuffer(u, g)
           /\ asm'[s][g] = asm[s][g] => (Waiting(u, s, g)' <=> Waiting(u, s, g))
  <1>1. Position(u, s)' = Position(u, s) /\ (InBuffer(u, g)' <=> InBuffer(u, g))
    BY DEF Rest, Position, Due, Approaching, InBuffer
  <1>2. call'[u] = call[u]
    BY DEF Rest
  <1>3. QED
    BY <1>1, <1>2 DEF Waiting

\* A step of t that does not move the place of its next chunk of a tag.
LEMMA ChunkKept ==
    ASSUME NEW s \in Sink, NEW g \in Tag, SeenRight(s, g), NEW t \in Task, Rest(t),
           asm'[s][g] = asm[s][g], mixed' = mixed,
           Registered(s) => Registered(s)',
           call'[t] = call[t],
           InBuffer(t, g) /\ Registered(s) => Position(t, s)' = Position(t, s)
    PROVE  SeenRight(s, g)'
  <1>1. CASE asm[s][g] = NothingSeen
    BY <1>1 DEF SeenRight
  <1>2. CASE asm[s][g] # NothingSeen
    <2>1. /\ Registered(s) /\ Registered(s)'
          /\ Whole(s, g) \/ \E u \in Task : Waiting(u, s, g)
          /\ Alone(s, g)
      BY <1>2 DEF SeenRight
    <2>2. (Whole(s, g)' <=> Whole(s, g)) /\ (InBuffer(t, g)' <=> InBuffer(t, g))
      BY DEF Whole, InBuffer
    <2>3. Waiting(t, s, g)' <=> Waiting(t, s, g)
      BY <2>1, <2>2 DEF Waiting
    <2>4. \A u \in Task : /\ Waiting(u, s, g)' <=> Waiting(u, s, g)
                          /\ InBuffer(u, g)' <=> InBuffer(u, g)
                          /\ InBuffer(u, g) => Position(u, s)' = Position(u, s)
      BY <2>1, <2>2, <2>3, RestFrame
    <2>5. Alone(s, g)'
      BY <2>1, <2>2, <2>4 DEF Alone
    <2>6. QED
      BY <2>1, <2>2, <2>4, <2>5 DEF SeenRight
  <1>3. QED
    BY <1>1, <1>2

LEMMA ChunksKept ==
    ASSUME ChunkInv, NEW t \in Task, Rest(t),
           UNCHANGED <<sinks, asm, mixed>>, call'[t] = call[t],
           \A s \in Sink : call[t].fn = "buffer" /\ Registered(s) => Position(t, s)' = Position(t, s)
    PROVE  ChunkInv'
  <1> SUFFICES ASSUME NEW s \in Sink, NEW g \in Tag PROVE SeenRight(s, g)'
    BY DEF ChunkInv
  <1>1. SeenRight(s, g) /\ (Registered(s)' <=> Registered(s))
    BY DEF ChunkInv, Registered
  <1>2. InBuffer(t, g) /\ Registered(s) => Position(t, s)' = Position(t, s)
    BY DEF InBuffer
  <1>3. QED
    BY <1>1, <1>2, ChunkKept

\* A step of t that ends its call, or does not concern buffers at all.
LEMMA ChunkOutside ==
    ASSUME ChunkInv, NEW t \in Task, Rest(t),
           UNCHANGED <<sinks, asm, mixed>>,
           \A s \in Sink : call[t].fn = "buffer" => Position(t, s) \in {0, call[t].total},
           call'[t].fn # "buffer"
    PROVE  ChunkInv'
  <1> SUFFICES ASSUME NEW s \in Sink, NEW g \in Tag, asm[s][g] # NothingSeen PROVE SeenRight(s, g)'
    BY DEF ChunkInv, SeenRight
  <1>1. /\ Registered(s) /\ Registered(s)'
        /\ Whole(s, g) \/ \E u \in Task : Waiting(u, s, g)
        /\ Alone(s, g)
    BY DEF ChunkInv, SeenRight, Registered
  <1>2. (Whole(s, g)' <=> Whole(s, g)) /\ ~InBuffer(t, g)'
    BY DEF Whole, InBuffer
  <1>3. Waiting(t, s, g) => Whole(s, g)
    BY DEF Waiting, Whole, InBuffer
  <1>4. \A u \in Task \ {t} : /\ Waiting(u, s, g)' <=> Waiting(u, s, g)
                              /\ InBuffer(u, g)' <=> InBuffer(u, g)
                              /\ Position(u, s)' = Position(u, s)
    BY RestFrame
  <1>5. Whole(s, g)' \/ \E u \in Task : Waiting(u, s, g)'
    <2>1. CASE Whole(s, g)
      BY <1>2, <2>1
    <2>2. ASSUME NEW u \in Task, Waiting(u, s, g) PROVE Whole(s, g)' \/ Waiting(u, s, g)'
      <3>1. CASE u = t
        BY <1>2, <1>3, <2>2, <3>1
      <3>2. CASE u # t
        BY <1>4, <2>2, <3>2
      <3>3. QED
        BY <3>1, <3>2
    <2>3. QED
      BY <1>1, <2>1, <2>2
  <1>6. Alone(s, g)'
    BY <1>1, <1>2, <1>4 DEF Alone
  <1>7. QED
    BY <1>1, <1>5, <1>6 DEF SeenRight

\* A buffer call begins: with nobody else at the tag, the sinks have whole buffers of it.
LEMMA ChunkBegin ==
    ASSUME Typed, CallInv, ChunkInv, MixedInv, NEW t \in Task, BeginBuffer(t)
    PROVE  ChunkInv' /\ MixedInv'
  <1>a. /\ pc[t] = "idle" /\ pc'[t] = "take" /\ UNCHANGED <<sinks, asm, off>> /\ Rest(t)
        /\ call[t].fn = "none" /\ off[t] = 0 /\ mixed \in [Tag -> BOOLEAN]
        /\ call \in [Task -> Call]
    BY DEF BeginBuffer, Goto, globals, Typed, TypeOK, OffsetInv, CallInv, OnCourse, Rest
  <1>b. PICK n \in BufferLen, h \in Tag :
           /\ call' = [call EXCEPT ![t] = BufferCall(n, h)]
           /\ mixed' = [mixed EXCEPT ![h] = \E u \in Task \ {t} : InBuffer(u, h)]
    BY DEF BeginBuffer
  <1>c. \A g \in Tag : ~InBuffer(t, g) /\ (InBuffer(t, g)' <=> g = h)
    BY <1>a, <1>b DEF InBuffer, BufferCall
  <1>d. /\ \A g \in Tag : g # h => mixed'[g] = mixed[g]
        /\ mixed'[h] <=> \E u \in Task \ {t} : InBuffer(u, h)
    BY <1>a, <1>b
  <1>e. \A u \in Task \ {t}, g \in Tag : InBuffer(u, g)' <=> InBuffer(u, g)
    BY <1>a DEF Rest, InBuffer
  <1>1. MixedInv'
    BY <1>c, <1>d, <1>e DEF MixedInv
  <1>2. ASSUME NEW s \in Sink, NEW g \in Tag, asm[s][g] # NothingSeen PROVE SeenRight(s, g)'
    <2>1. /\ Registered(s) /\ Registered(s)'
          /\ Whole(s, g) \/ \E u \in Task : Waiting(u, s, g)
          /\ Alone(s, g)
      BY <1>a, <1>2 DEF ChunkInv, SeenRight, Registered
    <2>2. (Whole(s, g)' <=> Whole(s, g)) /\ ~Waiting(t, s, g)
      BY <1>a, <1>c DEF Whole, Waiting
    <2>3. \A u \in Task \ {t} : /\ Waiting(u, s, g)' <=> Waiting(u, s, g)
                                /\ Position(u, s)' = Position(u, s)
      BY <1>a, RestFrame
    <2>4. Whole(s, g)' \/ \E u \in Task : Waiting(u, s, g)'
      BY <2>1, <2>2, <2>3
    <2>5. CASE g = h
      <3>1. ~mixed'[h] => \A u \in Task \ {t} : ~InBuffer(u, h)
        BY <1>d
      <3>2. ~mixed'[h] => Whole(s, g)'
        BY <2>1, <2>2, <2>5, <3>1 DEF Waiting
      <3>3. Position(t, s)' = 0
        BY <1>a DEF Position, Due, Approaching
      <3>4. Alone(s, g)'
        BY <1>e, <2>5, <3>1, <3>2, <3>3 DEF Alone
      <3>5. QED
        BY <2>1, <2>4, <3>4 DEF SeenRight
    <2>6. CASE g # h
      <3>1. Alone(s, g)'
        BY <1>c, <1>d, <1>e, <2>1, <2>2, <2>3, <2>6 DEF Alone
      <3>2. QED
        BY <2>1, <2>4, <3>1 DEF SeenRight
    <2>7. QED
      BY <2>5, <2>6
  <1>3. QED
    BY <1>a, <1>1, <1>2 DEF ChunkInv, SeenRight

\* No other step starts a buffer call or changes the tag of one.
LEMMA StepMixed ==
    ASSUME MixedInv, NEW t \in Task, Rest(t), mixed' = mixed,
           call'[t] = call[t] \/ call'[t].fn # "buffer"
    PROVE  MixedInv'
  <1>1. \A u \in Task, g \in Tag : InBuffer(u, g)' => InBuffer(u, g)
    BY DEF Rest, InBuffer
  <1>2. QED
    BY <1>1 DEF MixedInv

\* start_cb of one sink: it has now seen the chunk, the others are where they were.
LEMMA ChunkStart ==
    ASSUME Typed, EmissionInv, CallInv, ChunkInv, MixedInv, NEW t \in Task, NEW i \in Slot,
           StartCb(t, i)
    PROVE  ChunkInv'
  <1> SUFFICES ASSUME NEW s \in Sink, NEW g \in Tag PROVE SeenRight(s, g)'
    BY DEF ChunkInv
  <1>a. /\ cur \in [Task -> Packet] /\ call \in [Task -> Call] /\ off \in [Task -> Nat]
        /\ todo \in [Task -> SUBSET Slot]
        /\ asm \in [Sink -> [Tag -> [at : Offset, next : Offset, total : Offset]]]
    BY DEF Typed, TypeOK
  <1>b. /\ pc[t] = "start" /\ i \in todo[t] /\ VisitSlot(t, i)
        /\ todo' = [todo EXCEPT ![t] = @ \ {i}]
        /\ UNCHANGED <<sinks, pc, call, off, cur, snap, mixed>>
        /\ asm' = IF cur[t].type = "BUFFER"
                  THEN [asm EXCEPT ![snap[t][i]] = [@ EXCEPT ![cur[t].tag] = ChunkSeen(cur[t])]]
                  ELSE asm
    BY DEF StartCb, VisitSlot, globals
  <1>c. /\ snap[t] = sinks /\ sinks[i] \in Sink
        /\ \A j \in Slot : j # i => sinks[j] # sinks[i]
        /\ todo[t] \subseteq Occupied(sinks)
    BY <1>b, VisitFacts DEF Delivering
  <1>d. SeenRight(s, g) /\ (Registered(s) <=> Registered(s)')
    BY <1>b DEF ChunkInv, Registered
  <1>e. Rest(t)
    BY <1>a, <1>b DEF Rest
  <1>1. CASE s # sinks[i]
    <2>1. Approaching(t, s)' <=> Approaching(t, s)
      BY <1>a, <1>b, <1>c, <1>1 DEF Approaching
    <2>2. asm'[s][g] = asm[s][g] /\ Position(t, s)' = Position(t, s)
      BY <1>a, <1>b, <1>c, <1>1, <2>1 DEF Position, Due
    <2>3. QED
      BY <1>b, <1>d, <1>e, <2>2, ChunkKept
  <1>2. CASE s = sinks[i] /\ cur[t].type # "BUFFER"
    <2>1. asm' = asm /\ Position(t, s)' = Position(t, s)
      BY <1>b, <1>2 DEF Position, Due
    <2>2. QED
      BY <1>b, <1>d, <1>e, <2>1, ChunkKept
  <1>3. CASE s = sinks[i] /\ cur[t].type = "BUFFER"
    <2>1. /\ call[t].fn = "buffer" /\ cur[t].total = call[t].total
          /\ cur[t].tag = call[t].tag /\ call[t].tag \in Tag
          /\ off[t] = cur[t].val + ChunkLen(call[t].total, cur[t].val)
          /\ cur[t].val = 0 \/ cur[t].val < call[t].total
      BY <1>a, <1>b, <1>3 DEF CallInv, OnCourse, Emitting, Delivering, OwnPacket, Notice, Call
    <2>2. CASE g # cur[t].tag
      <3>1. asm'[s][g] = asm[s][g] /\ ~InBuffer(t, g)
        BY <1>a, <1>b, <1>c, <1>3, <2>1, <2>2 DEF InBuffer
      <3>2. QED
        BY <1>b, <1>d, <1>e, <3>1, ChunkKept
    <2>3. CASE g = cur[t].tag
      <3>1. asm'[s][g] = ChunkSeen(cur[t])
        BY <1>a, <1>b, <1>c, <1>3, <2>3
      <3>2. ~Approaching(t, s)'
        BY <1>a, <1>b, <1>c, <1>3 DEF Approaching
      <3>3. Position(t, s)' = off[t] /\ InBuffer(t, g) /\ InBuffer(t, g)'
        BY <1>b, <2>1, <2>3, <3>2 DEF Position, Due, InBuffer
      <3>4. asm'[s][g].next = off[t] /\ asm'[s][g].total = call[t].total
        BY <2>1, <3>1 DEF ChunkSeen
      <3>5. off[t] = 0 => call[t].total = 0
        BY <1>a, <2>1, CoreAssumption DEF ChunkLen, Packet, Call
      <3>6. IF off[t] > 0 THEN Waiting(t, s, g)' ELSE Whole(s, g)'
        BY <1>a, <1>b, <3>3, <3>4, <3>5 DEF Waiting, Whole
      <3>7. ~mixed[g] => \A u \in Task : InBuffer(u, g)' => u = t
        BY <1>b, <3>3 DEF MixedInv, InBuffer
      <3>8. Alone(s, g)'
        BY <1>b, <3>3, <3>6, <3>7 DEF Alone
      <3>9. Registered(s)'
        BY <1>b, <1>3 DEF Registered
      <3>10. QED
        BY <3>6, <3>8, <3>9 DEF SeenRight
    <2>4. QED
      BY <2>2, <2>3
  <1>4. QED
    BY <1>1, <1>2, <1>3

\* The sink table changes while no packet is on its way.
LEMMA ChunkTable ==
    ASSUME Typed, EmissionInv, CallInv, ChunkInv, NEW t \in Task, AddSink(t) \/ RemoveSink(t)
    PROVE  ChunkInv'
  <1> SUFFICES ASSUME NEW s \in Sink, NEW g \in Tag PROVE SeenRight(s, g)'
    BY DEF ChunkInv
  <1>a. /\ pc \in [Task -> PC] /\ sinks \in [Slot -> Sink \cup {NoSink}]
        /\ asm \in [Sink -> [Tag -> [at : Offset, next : Offset, total : Offset]]]
    BY DEF Typed, TypeOK
  <1>b. /\ pc[t] = "edit" /\ pc' = [pc EXCEPT ![t] = "unlock"]
        /\ UNCHANGED <<call, off, cur, snap, todo, mixed>>
    BY DEF AddSink, RemoveSink, Goto
  <1>c. call[t].sink \in Sink
    BY <1>b DEF EmissionInv, SnapInv
  <1>d. /\ asm'[s][g] = asm[s][g] \/ asm'[s][g] = NothingSeen
        /\ Registered(s) => Registered(s)' \/ asm'[s][g] = NothingSeen
    <2>1. CASE AddSink(t)
      <3>1. PICK i \in Slot : sinks[i] = NoSink /\ sinks' = [sinks EXCEPT ![i] = call[t].sink]
        BY <2>1 DEF AddSink, Free
      <3>2. QED
        BY <1>a, <2>1, <3>1, CoreAssumption DEF AddSink, Registered
    <2>2. CASE RemoveSink(t)
      <3>1. PICK i \in Slot : sinks[i] = call[t].sink /\ sinks' = [sinks EXCEPT ![i] = NoSink]
        BY <2>2 DEF RemoveSink
      <3>2. asm' = [asm EXCEPT ![call[t].sink] = [h \in Tag |-> NothingSeen]]
        BY <2>2 DEF RemoveSink
      <3>3. QED
        BY <1>a, <1>c, <3>1, <3>2 DEF Registered
    <2>3. QED
      BY <2>1, <2>2
  <1>e. SeenRight(s, g) /\ Rest(t)
    BY <1>a, <1>b DEF ChunkInv, Rest
  <1>1. CASE asm'[s][g] = NothingSeen
    BY <1>1 DEF SeenRight
  <1>2. CASE asm'[s][g] # NothingSeen
    <2>1. asm'[s][g] = asm[s][g] /\ (Registered(s) => Registered(s)')
      BY <1>d, <1>2
    <2>2. Position(t, s)' = Position(t, s)
      BY <1>a, <1>b DEF Position, Due, Approaching
    <2>3. QED
      BY <1>b, <1>e, <2>1, <2>2, ChunkKept
  <1>3. QED
    BY <1>1, <1>2

LEMMA StepChunk ==
    Typed /\ EmissionInv /\ CallInv /\ ChunkInv /\ MixedInv /\ [Next]_vars => ChunkInv' /\ MixedInv'
  <1> SUFFICES ASSUME Typed, EmissionInv, CallInv, ChunkInv, MixedInv, [Next]_vars
               PROVE  ChunkInv' /\ MixedInv'
    OBVIOUS
  <1>a. /\ pc \in [Task -> PC] /\ cur \in [Task -> Packet] /\ call \in [Task -> Call]
        /\ off \in [Task -> Nat] /\ todo \in [Task -> SUBSET Slot]
        /\ snap \in [Task -> [Slot -> Sink \cup {NoSink}]]
    BY DEF Typed, TypeOK
  <1>1. CASE UNCHANGED <<sinks, asm, mixed, pc, call, off, cur, snap, todo>>
    BY <1>1 DEF ChunkInv, SeenRight, Whole, Waiting, Alone, MixedInv, InBuffer, Registered,
       Position, Due, Approaching
  <1>2. ASSUME NEW t \in Task, Begin(t) \/ InCall(t)
        PROVE  ChunkInv' /\ MixedInv'
    <2>a. OnCourse(t) /\ (pc[t] = "idle" => off[t] = 0)
      BY DEF CallInv, Typed, OffsetInv
    <2>b. pc[t] \notin {"open", "number", "start"} => \A s \in Sink : Position(t, s) = off[t]
      BY DEF Position, Due, Approaching
    <2>c. pc'[t] \notin {"open", "number", "start"} => \A s \in Sink : Position(t, s)' = off'[t]
      BY DEF Position, Due, Approaching
    <2>1. CASE \/ BeginWrite(t)
               \/ \E type \in {"LOG", "TIME_SYNC"} : BeginDispatch(t, type)
               \/ \E fn \in {"add", "remove"}, s \in Sink : BeginTableEdit(t, fn, s)
      <3>1. /\ pc[t] = "idle" /\ call'[t].fn # "buffer" /\ UNCHANGED <<sinks, asm, mixed>>
            /\ Rest(t)
        BY <1>a, <2>1
           DEF Rest, BeginWrite, BeginDispatch, BeginTableEdit, Goto, ApiCall, globals, history
      <3>2. QED
        BY <2>a, <2>b, <3>1, ChunkOutside, StepMixed
    <2>22. CASE BeginBuffer(t)
      BY <2>22, ChunkBegin
    <2>2. CASE BeginBoot(t)
      <3>1. /\ pc[t] = "idle" /\ call'[t].fn = "boot" /\ UNCHANGED <<sinks, asm, mixed>> /\ Rest(t)
        BY <1>a, <2>2 DEF Rest, BeginBoot, Goto, globals, history, ApiCall
      <3>2. QED
        BY <2>a, <2>b, <3>1, ChunkOutside, StepMixed
    <2>3. CASE RejectBuffer(t)
      BY <1>1, <2>3 DEF RejectBuffer, locals
    <2>4. CASE TakeNone(t)
      <3>1. /\ pc[t] = "take" /\ pc'[t] = "body" /\ UNCHANGED <<sinks, asm, mixed, call, off>> /\ Rest(t)
        BY <1>a, <2>4 DEF Rest, TakeNone, Goto, globals, history
      <3>2. QED
        BY <2>b, <2>c, <3>1, ChunksKept, StepMixed
    <2>5. CASE TakeDropped(t)
      <3>1. /\ pc[t] = "take" /\ cur'[t].type = "DROPPED" /\ UNCHANGED <<sinks, asm, mixed, call, off>> /\ Rest(t)
        BY <1>a, <2>5 DEF Rest, TakeDropped, Goto, history, Template
      <3>2. \A s \in Sink : Position(t, s)' = off[t]
        BY <3>1 DEF Position, Due
      <3>3. QED
        BY <2>b, <3>1, <3>2, ChunksKept, StepMixed
    <2>6. CASE WriteFits(t) \/ EmitDispatched(t)
      <3>1. /\ call[t].fn # "buffer" /\ UNCHANGED <<sinks, asm, mixed, call>> /\ Rest(t)
        BY <1>a, <2>6 DEF Rest, WriteFits, EmitDispatched, Goto, globals, history
      <3>2. QED
        BY <3>1, ChunkOutside, StepMixed
    <2>7. CASE PacketTooLong(t)
      <3>1. /\ pc[t] = "body" /\ call'[t].fn # "buffer" /\ UNCHANGED <<sinks, asm, mixed>> /\ Rest(t)
        BY <1>a, <2>7 DEF Rest, PacketTooLong, Return, NoCall, ApiCall
      <3>2. off[t] = 0
        BY <2>a, <3>1 DEF OnCourse
      <3>3. QED
        BY <2>b, <3>1, <3>2, ChunkOutside, StepMixed
    <2>8. CASE EmitChunk(t)
      <3>1. /\ pc[t] \in {"body", "chunk"} /\ pc'[t] = "open" /\ UNCHANGED <<sinks, asm, mixed, call>> /\ Rest(t)
            /\ cur'[t].type = "BUFFER" /\ cur'[t].val = off[t]
        BY <1>a, <2>8 DEF Rest, EmitChunk, Goto, globals, history, ChunkTemplate
      <3>2. \A s \in Sink : Position(t, s)' = off[t]
        BY <3>1 DEF Position, Due
      <3>3. QED
        BY <2>b, <3>1, <3>2, ChunksKept, StepMixed
    <2>9. CASE StreamOpen(t)
      <3>1. /\ pc[t] = "open" /\ pc'[t] = "number" /\ UNCHANGED <<sinks, asm, mixed, call, off, cur>> /\ Rest(t)
        BY <1>a, <2>9 DEF Rest, StreamOpen, Goto, history
      <3>2. \A s \in Sink : Position(t, s)' = Position(t, s)
        BY <3>1 DEF Position, Due
      <3>3. QED
        BY <3>1, <3>2, ChunksKept, StepMixed
    <2>10. CASE NumberPacket(t)
      <3>1. /\ pc[t] = "number" /\ pc'[t] = "start" /\ UNCHANGED <<sinks, asm, mixed, call, off, snap>> /\ Rest(t)
            /\ todo'[t] = Occupied(snap[t])
            /\ cur'[t].type = cur[t].type /\ cur'[t].val = cur[t].val
        BY <1>a, <2>10 DEF Rest, NumberPacket, Goto, history, Stamped
      <3>2. snap[t] = sinks
        BY <3>1 DEF EmissionInv, SnapInv
      <3>3. ASSUME NEW s \in Sink, Registered(s) PROVE Approaching(t, s)'
        BY <1>a, <3>1, <3>2, <3>3, CoreAssumption DEF Registered, Approaching, Occupied
      <3>4. \A s \in Sink : Registered(s) => Position(t, s)' = Position(t, s)
        BY <3>1, <3>3 DEF Position, Due
      <3>5. QED
        BY <3>1, <3>4, ChunksKept, StepMixed
    <2>11. CASE NextChunk(t) \/ LastChunkSent(t)
      <3>1. /\ pc[t] \in {"start", "payload"} /\ todo[t] = {} /\ pc'[t] \in {"payload", "end"}
            /\ UNCHANGED <<sinks, asm, mixed, call, off>> /\ Rest(t)
        BY <1>a, <2>11 DEF Rest, NextChunk, LastChunkSent, Goto, globals, history
      <3>2. \A s \in Sink : Position(t, s) = off[t]
        BY <3>1 DEF Position, Due, Approaching
      <3>3. QED
        BY <2>c, <3>1, <3>2, ChunksKept, StepMixed
    <2>12. CASE EndNotice(t) \/ EndChunk(t)
      <3>1. /\ pc[t] = "end" /\ pc'[t] \in {"body", "chunk"} /\ UNCHANGED <<sinks, asm, mixed, call, off>> /\ Rest(t)
        BY <1>a, <2>12 DEF Rest, EndNotice, EndChunk, StreamEnd, Goto
      <3>2. QED
        BY <2>b, <2>c, <3>1, ChunksKept, StepMixed
    <2>13. CASE EndPacket(t)
      <3>1. /\ pc[t] = "end" /\ UNCHANGED <<sinks, asm, mixed>> /\ Rest(t)
            /\ cur[t].type # "DROPPED" /\ (cur[t].type = "BUFFER" => off[t] = call[t].total)
            /\ call'[t].fn # "buffer"
        BY <1>a, <2>13 DEF Rest, EndPacket, StreamEnd, Return, NoCall, ApiCall
      <3>2. call[t].fn = "buffer" => off[t] = call[t].total
        BY <2>a, <3>1 DEF OnCourse, Emitting, Delivering, OwnPacket, Notice
      <3>3. QED
        BY <2>b, <3>1, <3>2, ChunkOutside, StepMixed
    <2>14. CASE \E i \in Slot : StartCb(t, i)
      <3>1. UNCHANGED <<call, mixed>> /\ Rest(t)
        BY <1>a, <2>14 DEF Rest, StartCb, VisitSlot, globals
      <3>2. QED
        BY <2>14, <3>1, ChunkStart, StepMixed
    <2>15. CASE \E i \in Slot : PayloadCb(t, i) \/ EndCb(t, i)
      <3>1. /\ pc[t] \in {"payload", "end"} /\ UNCHANGED <<sinks, asm, mixed, pc, call, off>> /\ Rest(t)
        BY <1>a, <2>15 DEF Rest, PayloadCb, EndCb, VisitSlot, globals
      <3>2. QED
        BY <2>b, <2>c, <3>1, ChunksKept, StepMixed
    <2>16. CASE AddSink(t) \/ RemoveSink(t)
      <3>1. UNCHANGED <<call, mixed>> /\ Rest(t)
        BY <1>a, <2>16 DEF Rest, AddSink, RemoveSink, Goto
      <3>2. QED
        BY <2>16, <3>1, ChunkTable, StepMixed
    <2>17. CASE TableLock(t) \/ TableUnchanged(t)
      <3>1. /\ pc[t] \in {"table", "edit"} /\ UNCHANGED <<sinks, asm, mixed, call>> /\ Rest(t)
        BY <1>a, <2>17 DEF Rest, TableLock, TableUnchanged, Goto, globals, history
      <3>2. call[t].fn # "buffer"
        BY <2>a, <3>1 DEF OnCourse
      <3>3. QED
        BY <3>1, <3>2, ChunkOutside, StepMixed
    <2>18. CASE TableUnlock(t)
      <3>1. /\ pc[t] = "unlock" /\ call'[t].fn # "buffer" /\ UNCHANGED <<sinks, asm, mixed>> /\ Rest(t)
        BY <1>a, <2>18 DEF Rest, TableUnlock, Return, NoCall, ApiCall, history
      <3>2. call[t].fn # "buffer"
        BY <2>a, <3>1 DEF OnCourse
      <3>3. QED
        BY <3>1, <3>2, ChunkOutside, StepMixed
    <2>19. QED
      BY <1>2, <2>1, <2>2, <2>3, <2>4, <2>5, <2>6, <2>7, <2>8, <2>9, <2>10, <2>11, <2>12, <2>13,
         <2>14, <2>15, <2>16, <2>17, <2>18, <2>22 DEF Begin, InCall
  <1>3. CASE IsrDrop \/ Tick \/ UNCHANGED vars
    BY <1>1, <1>3 DEF IsrDrop, Tick, vars, globals, locals, history
  <1>4. QED
    BY <1>2, <1>3 DEF Next

\* What start_cb shows a sink of a buffer continues what the sink saw of its tag.
LEMMA StepContiguous ==
    ASSUME Typed, EmissionInv, CallInv, ChunkInv, [Next]_vars, NEW s \in Sink,
           Starts(s, {"BUFFER"}), ~mixed[view'[s].tag]
    PROVE  LET g == view'[s].tag
               a == asm[s][g]
               b == asm'[s][g]
           IN  \/ a = NothingSeen
               \/ b.at = 0 /\ a.next = a.total
               \/ b.at = a.next /\ a.next < a.total /\ b.total = a.total
  <1>1. view'[s] # view[s] /\ view'[s].cb = "start" /\ view'[s].type = "BUFFER"
    BY DEF Starts
  <1>2. PICK t \in Task, i \in Slot :
           StartCb(t, i) /\ s = sinks[i] /\ SamePacket(view'[s], cur[t])
    BY <1>1, OnlyStartStarts
  <1>a. view \in [Sink -> View] /\ cur \in [Task -> Packet] /\ call \in [Task -> Call]
    BY DEF Typed, TypeOK
  <1>3. /\ pc[t] = "start" /\ i \in todo[t] /\ snap[t] = sinks
        /\ cur[t].type = "BUFFER" /\ view'[s].tag = cur[t].tag
    BY <1>1, <1>2, <1>a DEF StartCb, VisitSlot, Sees, EmissionInv, SnapInv, Delivering, SamePacket
  <1>4. asm \in [Sink -> [Tag -> [at : Offset, next : Offset, total : Offset]]]
    BY DEF Typed, TypeOK
  <1>6. /\ call[t].fn = "buffer" /\ cur[t].total = call[t].total
        /\ cur[t].tag = call[t].tag /\ call[t].tag \in Tag
        /\ cur[t].val = 0 \/ cur[t].val < call[t].total
        /\ cur[t].val \in Nat
    <2>1. call[t] \in Call /\ cur[t] \in Packet
      BY <1>a
    <2>2. OnCourse(t) /\ Emitting(t)
      BY <1>3 DEF CallInv, Emitting, Delivering
    <2>3. QED
      BY <1>3, <2>1, <2>2 DEF OnCourse, OwnPacket, Notice, Call, Packet
  <1> DEFINE g == cur[t].tag
  <1>5. asm'[s][g] = ChunkSeen(cur[t])
    BY <1>2, <1>3, <1>4, <1>6 DEF StartCb
  <1>7. Position(t, s) = cur[t].val /\ InBuffer(t, g)
    BY <1>2, <1>3, <1>6 DEF Position, Due, Approaching, InBuffer
  <1>8. SeenRight(s, g)
    BY <1>6 DEF ChunkInv
  <1>9. \/ asm[s][g] = NothingSeen
        \/ IF cur[t].val > 0
           THEN asm[s][g].next = cur[t].val /\ asm[s][g].total = call[t].total
           ELSE asm[s][g].next = asm[s][g].total
    BY <1>3, <1>7, <1>8 DEF SeenRight, Alone, Waiting, Whole
  <1>10. QED
    BY <1>3, <1>5, <1>6, <1>9 DEF ChunkSeen

-----------------------------------------------------------------------------
(***************************************************************************)
(* The refinement: what the sinks are shown, as AtomicLog sees it.         *)
(***************************************************************************)
Brief(p) == [type |-> p.type, by |-> p.by, seq |-> p.seq]

\* A sink outside the table has forgotten the last packet as well.
SilentInv == \A s \in Sink : view[s].cb = "removed" => view[s] = Quiet("removed")

LEMMA StepSilent == Typed /\ EmissionInv /\ SilentInv /\ [Next]_vars => SilentInv'
  <1> SUFFICES ASSUME Typed, EmissionInv, SilentInv, [Next]_vars, NEW s \in Sink,
                      view'[s].cb = "removed"
               PROVE  view'[s] = Quiet("removed")
    BY DEF SilentInv
  <1>a. view \in [Sink -> View]
    BY DEF Typed, TypeOK
  <1>1. CASE view'[s] = view[s]
    BY <1>1 DEF SilentInv
  <1>2. CASE view'[s] # view[s]
    <2>1. ASSUME NEW t \in Task, NEW i \in Slot, StartCb(t, i) \/ PayloadCb(t, i) \/ EndCb(t, i)
          PROVE  FALSE
      <3>1. \E cb \in {"start", "payload", "end"} : Sees(snap[t][i], cb, cur[t])
        BY <2>1 DEF StartCb, PayloadCb, EndCb
      <3>2. QED
        BY <1>a, <1>2, <3>1 DEF Sees
    <2>2. ASSUME NEW t \in Task, AddSink(t) \/ RemoveSink(t)
          PROVE  view'[s] = Quiet("removed")
      BY <1>a, <1>2, <2>2 DEF AddSink, RemoveSink, Quiet
    <2>3. QED
      BY <1>2, <2>1, <2>2, StepKinds DEF Noticed
  <1>3. QED
    BY <1>1, <1>2

\* The mapping without CHOOSE: at most one task approaches a sink.
MappedTo(s) ==
    /\ \A t \in Task : Approaching(t, s) =>
          /\ LastShown(s) = Brief(cur[t])
          /\ LastStamp(s) = IF cur[t].ts # None THEN cur[t].ts ELSE lastTs[s]
    /\ (\A t \in Task : ~Approaching(t, s)) =>
          LastShown(s) = Brief(view[s]) /\ LastStamp(s) = lastTs[s]

MappingInv == \A s \in Sink : MappedTo(s)

LEMMA ShownFacts == EmissionInv => MappingInv
  <1> SUFFICES ASSUME EmissionInv, NEW s \in Sink PROVE MappedTo(s)
    BY DEF MappingInv
  <1>1. ASSUME NEW t \in Task, NEW u \in Task, Approaching(t, s), Approaching(u, s)
        PROVE  t = u
    BY <1>1, OneHolder DEF EmissionInv, Approaching, Holding, Delivering
  <1>2. ASSUME NEW t \in Task, Approaching(t, s)
        PROVE  /\ LastShown(s) = Brief(cur[t])
               /\ LastStamp(s) = IF cur[t].ts # None THEN cur[t].ts ELSE lastTs[s]
    <2>1. (CHOOSE u \in Task : Approaching(u, s)) = t
      BY <1>1, <1>2
    <2>2. QED
      BY <1>1, <1>2, <2>1 DEF LastShown, LastStamp, Brief
  <1>3. ASSUME \A t \in Task : ~Approaching(t, s)
        PROVE  LastShown(s) = Brief(view[s]) /\ LastStamp(s) = lastTs[s]
    BY <1>3 DEF LastShown, LastStamp, Brief
  <1>4. QED
    BY <1>2, <1>3 DEF MappedTo

LEMMA ShownFactsNext == EmissionInv' => MappingInv'
  BY ShownFacts, PTL

\* A step that brings no packet to a sink is invisible.
LEMMA Invisible ==
    ASSUME EmissionInv, EmissionInv', NEW s \in Sink,
           view'[s] = view[s], lastTs'[s] = lastTs[s],
           \A t \in Task : /\ Approaching(t, s)' <=> Approaching(t, s)
                           /\ Approaching(t, s) => cur'[t] = cur[t]
    PROVE  LastShown(s)' = LastShown(s) /\ LastStamp(s)' = LastStamp(s)
  <1>1. MappedTo(s) /\ MappedTo(s)'
    BY ShownFacts, ShownFactsNext DEF MappingInv
  <1>2. CASE \A t \in Task : ~Approaching(t, s)
    <2>1. (\A t \in Task : ~Approaching(t, s))'
      BY <1>2
    <2>2. LastShown(s) = Brief(view[s]) /\ LastStamp(s) = lastTs[s]
      BY <1>1, <1>2 DEF MappedTo
    <2>3. (LastShown(s) = Brief(view[s]) /\ LastStamp(s) = lastTs[s])'
      BY <1>1, <2>1 DEF MappedTo
    <2>4. QED
      BY <2>2, <2>3 DEF Brief
  <1>3. ASSUME NEW t \in Task, Approaching(t, s)
        PROVE  LastShown(s)' = LastShown(s) /\ LastStamp(s)' = LastStamp(s)
    <2>1. Approaching(t, s)' /\ cur'[t] = cur[t]
      BY <1>3
    <2>2. /\ LastShown(s) = Brief(cur[t])
          /\ LastStamp(s) = IF cur[t].ts # None THEN cur[t].ts ELSE lastTs[s]
      BY <1>1, <1>3 DEF MappedTo
    <2>3. (/\ LastShown(s) = Brief(cur[t])
           /\ LastStamp(s) = IF cur[t].ts # None THEN cur[t].ts ELSE lastTs[s])'
      BY <1>1, <2>1 DEF MappedTo
    <2>4. QED
      BY <2>1, <2>2, <2>3 DEF Brief
  <1>4. QED
    BY <1>2, <1>3

\* AtomicLog's variables, as functions of this module's state.
RegisteredSet == {s \in Sink : Registered(s)}
LastMap == [s \in Sink |-> LastShown(s)]
StampMap == [s \in Sink |-> LastStamp(s)]

\* A step in which AtomicLog stutters.
Hidden == UNCHANGED <<RegisteredSet, seq, now, LastMap, StampMap>>

LEMMA HiddenFacts ==
    ASSUME UNCHANGED <<sinks, seq, now>>,
           \A s \in Sink : LastShown(s)' = LastShown(s) /\ LastStamp(s)' = LastStamp(s)
    PROVE  Hidden
  <1>1. RegisteredSet' = RegisteredSet
    BY DEF RegisteredSet, Registered
  <1>2. LastMap' = LastMap /\ StampMap' = StampMap
    BY DEF LastMap, StampMap
  <1>3. QED
    BY <1>1, <1>2 DEF Hidden

\* A step of t that shows no sink anything, and does not begin to.
LEMMA LocalHidden ==
    ASSUME EmissionInv, EmissionInv', NEW t \in Task,
           UNCHANGED <<sinks, seq, now, view, lastTs>>,
           \A u \in Task \ {t} : /\ pc'[u] = pc[u] /\ cur'[u] = cur[u]
                                 /\ snap'[u] = snap[u] /\ todo'[u] = todo[u],
           pc[t] # "start" \/ todo[t] = {},
           pc'[t] # "start"
    PROVE  Hidden
  <1>1. ASSUME NEW s \in Sink, NEW u \in Task
        PROVE  /\ Approaching(u, s)' <=> Approaching(u, s)
               /\ Approaching(u, s) => cur'[u] = cur[u]
    BY DEF Approaching
  <1>2. ASSUME NEW s \in Sink
        PROVE  LastShown(s)' = LastShown(s) /\ LastStamp(s)' = LastStamp(s)
    BY <1>1, Invisible
  <1>3. QED
    BY <1>2, HiddenFacts

\* The packet is shown to the sinks when it gets its number.
LEMMA NumberDelivers ==
    ASSUME Typed, EmissionInv, EmissionInv', CallInv, NEW t \in Task, NumberPacket(t)
    PROVE  Atomic!DeliverNumbered(t) \/ Atomic!DeliverTimeSync(t)
  <1> DEFINE timed == call[t].fn # "dispatch" \/ cur[t].type = "DROPPED"
             n == IF Numbered(cur[t]) THEN seq ELSE 0
             packet == [type |-> cur[t].type, by |-> t, seq |-> n]
  <1>a. /\ pc \in [Task -> PC] /\ cur \in [Task -> Packet] /\ call \in [Task -> Call]
        /\ sinks \in [Slot -> Sink \cup {NoSink}] /\ seq \in 0 .. SeqMod - 1 /\ now \in Nat
        /\ todo \in [Task -> SUBSET Slot]
    BY DEF Typed, TypeOK
  <1>b. /\ pc[t] = "number" /\ pc' = [pc EXCEPT ![t] = "start"]
        /\ todo' = [todo EXCEPT ![t] = Occupied(snap[t])]
        /\ cur' = [cur EXCEPT ![t] = Stamped(cur[t], n, IF timed THEN now ELSE None)]
        /\ seq' = IF Numbered(cur[t]) THEN NextSeq(seq) ELSE seq
        /\ UNCHANGED <<sinks, now, snap, view, lastTs>>
    BY DEF NumberPacket, Goto, history
  <1>c. snap[t] = sinks /\ cur[t].by = t
    BY <1>b DEF EmissionInv, SnapInv
  <1>d. \A u \in Task : u # t => pc[u] # "start"
    BY <1>b, OneHolder DEF EmissionInv, Holding, Delivering
  <1>e. \A s \in Sink, u \in Task : ~Approaching(u, s)
    BY <1>b, <1>d DEF Approaching
  <1>f. /\ Brief(cur[t])' = packet
        /\ cur'[t].ts = IF timed THEN now ELSE None
    BY <1>a, <1>b, <1>c DEF Stamped, Brief
  <1>1. ASSUME NEW s \in Sink, Registered(s)
        PROVE  LastShown(s)' = packet /\ LastStamp(s)' = IF timed THEN now ELSE LastStamp(s)
    <2>1. Approaching(t, s)'
      BY <1>a, <1>b, <1>c, <1>1, CoreAssumption DEF Registered, Approaching, Occupied
    <2>2. /\ LastShown(s)' = Brief(cur[t])'
          /\ LastStamp(s)' = IF cur'[t].ts # None THEN cur'[t].ts ELSE lastTs'[s]
      BY <2>1, ShownFactsNext DEF MappingInv, MappedTo
    <2>3. LastStamp(s) = lastTs[s]
      BY <1>e, ShownFacts DEF MappingInv, MappedTo
    <2>4. QED
      BY <1>a, <1>b, <1>f, <2>2, <2>3, CoreAssumption
  <1>2. ASSUME NEW s \in Sink, ~Registered(s)
        PROVE  LastShown(s)' = LastShown(s) /\ LastStamp(s)' = LastStamp(s)
    <2>1. ASSUME NEW u \in Task PROVE ~Approaching(u, s)'
      BY <1>a, <1>b, <1>c, <1>d, <1>2 DEF Registered, Approaching, Occupied
    <2>2. QED
      BY <1>b, <1>e, <2>1, Invisible
  <1>3. RegisteredSet' = RegisteredSet
    BY <1>b DEF RegisteredSet, Registered
  <1> HIDE DEF timed, n, packet
  <1>4. LastMap' = [s \in Sink |-> IF s \in RegisteredSet THEN packet ELSE LastMap[s]]
    BY <1>1, <1>2 DEF LastMap, RegisteredSet
  <1>5. StampMap' = [s \in Sink |-> IF timed /\ s \in RegisteredSet THEN now ELSE StampMap[s]]
    BY <1>1, <1>2 DEF StampMap, RegisteredSet
  <1>6. Atomic!Show(packet, timed)
    BY <1>b, <1>3, <1>4, <1>5 DEF Atomic!Show, RegisteredSet, LastMap, StampMap
  <1>7. OwnPacket(t) \/ Notice(t)
    BY <1>b DEF CallInv, OnCourse, Emitting
  <1>8. CASE cur[t].type = "TIME_SYNC"
    <2>1. timed = FALSE
      BY <1>a, <1>7, <1>8 DEF timed, OwnPacket, Notice
    <2>2. packet = Atomic!Shown("TIME_SYNC", t, 0) /\ seq' = seq
      BY <1>b, <1>8 DEF packet, n, Numbered, Atomic!Shown
    <2>3. QED
      BY <1>6, <2>1, <2>2 DEF Atomic!DeliverTimeSync
  <1>9. CASE cur[t].type # "TIME_SYNC"
    <2>1. cur[t].type \in {"LOG", "BUFFER", "DROPPED", "BOOT"}
      BY <1>a, <1>9 DEF Packet, PacketType
    <2>2. cur[t].type # "LOG" => timed
      BY <1>a, <1>7, <1>9 DEF timed, OwnPacket, Notice, Call
    <2>3. packet = Atomic!Shown(cur[t].type, t, seq)
      BY <1>9 DEF packet, n, Numbered, Atomic!Shown
    <2>4. seq' = (seq + 1) % SeqMod
      BY <1>a, <1>b, <1>9, CoreAssumption DEF Numbered, NextSeq
    <2>5. timed \in BOOLEAN
      BY DEF timed
    <2>6. QED
      BY <1>6, <2>1, <2>2, <2>3, <2>4, <2>5 DEF Atomic!DeliverNumbered
  <1>10. QED
    BY <1>8, <1>9

\* start_cb tells a sink what AtomicLog has told it already.
LEMMA StartHidden ==
    ASSUME Typed, EmissionInv, EmissionInv', NEW t \in Task, NEW i \in Slot, StartCb(t, i)
    PROVE  Hidden
  <1>a. /\ pc[t] = "start" /\ VisitSlot(t, i) /\ Sees(snap[t][i], "start", cur[t])
        /\ i \in todo[t] /\ todo' = [todo EXCEPT ![t] = @ \ {i}]
        /\ lastTs' = [lastTs EXCEPT ![snap[t][i]] = IF cur[t].ts # None THEN cur[t].ts ELSE @]
        /\ UNCHANGED <<sinks, seq, now, pc, cur, snap>>
    BY DEF StartCb, VisitSlot, globals
  <1>b. /\ todo \in [Task -> SUBSET Slot] /\ lastTs \in [Sink -> Nat]
        /\ \A u \in Task : Holding(u) => u = t
        /\ snap[t] = sinks /\ sinks[i] \in Sink
        /\ \A j \in Slot : j # i => sinks[j] # sinks[i]
    BY <1>a, VisitFacts DEF Typed, TypeOK, Delivering
  <1>c. /\ \A s \in Sink : s # sinks[i] => view'[s] = view[s] /\ lastTs'[s] = lastTs[s]
        /\ SamePacket(view'[sinks[i]], cur[t])
        /\ lastTs'[sinks[i]] = IF cur[t].ts # None THEN cur[t].ts ELSE lastTs[sinks[i]]
    BY <1>a, <1>b, CallbackFacts
  <1>1. ASSUME NEW s \in Sink, s # sinks[i]
        PROVE  LastShown(s)' = LastShown(s) /\ LastStamp(s)' = LastStamp(s)
    <2>1. ASSUME NEW u \in Task
          PROVE  (Approaching(u, s)' <=> Approaching(u, s)) /\ cur'[u] = cur[u]
      BY <1>a, <1>b, <1>1 DEF Approaching
    <2>2. QED
      BY <1>c, <1>1, <2>1, Invisible
  <1>2. ASSUME NEW s \in Sink, s = sinks[i]
        PROVE  LastShown(s)' = LastShown(s) /\ LastStamp(s)' = LastStamp(s)
    <2>1. Approaching(t, s)
      BY <1>a, <1>b, <1>2 DEF Approaching
    <2>2. /\ LastShown(s) = Brief(cur[t])
          /\ LastStamp(s) = IF cur[t].ts # None THEN cur[t].ts ELSE lastTs[s]
      BY <2>1, ShownFacts DEF MappingInv, MappedTo
    <2>3. ASSUME NEW u \in Task PROVE ~Approaching(u, s)'
      BY <1>a, <1>b, <1>2 DEF Approaching, Holding, Delivering
    <2>4. MappedTo(s)'
      BY ShownFactsNext DEF MappingInv
    <2>5. (LastShown(s) = Brief(view[s]) /\ LastStamp(s) = lastTs[s])'
      BY <2>3, <2>4 DEF MappedTo
    <2>6. QED
      BY <1>c, <1>2, <2>2, <2>5 DEF Brief, SamePacket
  <1>3. \A s \in Sink : LastShown(s)' = LastShown(s) /\ LastStamp(s)' = LastStamp(s)
    BY <1>1, <1>2
  <1>4. QED
    BY <1>a, <1>3, HiddenFacts

\* payload_cb and end_cb are for the packet the sink is inside of.
LEMMA CallbackHidden ==
    ASSUME Typed, EmissionInv, EmissionInv', NEW t \in Task, NEW i \in Slot,
           PayloadCb(t, i) \/ EndCb(t, i)
    PROVE  Hidden
  <1>1. PICK cb \in {"payload", "end"} :
           /\ pc[t] = cb /\ VisitSlot(t, i) /\ Sees(snap[t][i], cb, cur[t])
    BY DEF PayloadCb, EndCb
  <1>a. UNCHANGED <<sinks, seq, now, pc, cur, snap, lastTs>>
    BY DEF PayloadCb, EndCb, globals
  <1>b. \A u \in Task : Holding(u) => u = t
    BY <1>1, VisitFacts DEF Delivering
  <1>c. /\ \A s \in Sink : s # sinks[i] => view'[s] = view[s]
        /\ SamePacket(view'[sinks[i]], cur[t])
    BY <1>1, CallbackFacts
  <1>d. SamePacket(view[sinks[i]], cur[t])
    BY PayloadStep, EndCbStep DEF Inside
  <1>2. ASSUME NEW s \in Sink
        PROVE  LastShown(s)' = LastShown(s) /\ LastStamp(s)' = LastStamp(s)
    <2>1. ASSUME NEW u \in Task PROVE ~Approaching(u, s) /\ ~Approaching(u, s)'
      BY <1>1, <1>a, <1>b DEF Approaching, Holding, Delivering
    <2>2. MappedTo(s) /\ MappedTo(s)'
      BY ShownFacts, ShownFactsNext DEF MappingInv
    <2>3. LastShown(s) = Brief(view[s]) /\ LastStamp(s) = lastTs[s]
      BY <2>1, <2>2 DEF MappedTo
    <2>4. (LastShown(s) = Brief(view[s]) /\ LastStamp(s) = lastTs[s])'
      BY <2>1, <2>2 DEF MappedTo
    <2>5. Brief(view'[s]) = Brief(view[s])
      BY <1>c, <1>d DEF Brief, SamePacket
    <2>6. QED
      BY <1>a, <2>3, <2>4, <2>5 DEF Brief
  <1>3. QED
    BY <1>a, <1>2, HiddenFacts

\* Nobody is shown a packet while the table is edited.
LEMMA EditMapped ==
    ASSUME Typed, EmissionInv, EmissionInv', NEW t \in Task, AddSink(t) \/ RemoveSink(t),
           NEW s \in Sink
    PROVE  /\ LastShown(s) = Brief(view[s]) /\ LastStamp(s) = lastTs[s]
           /\ LastShown(s)' = Brief(view'[s]) /\ LastStamp(s)' = lastTs'[s]
  <1>a. pc \in [Task -> PC] /\ pc[t] = "edit" /\ pc' = [pc EXCEPT ![t] = "unlock"]
    BY DEF AddSink, RemoveSink, Goto, Typed, TypeOK
  <1>b. \A u \in Task : pc[u] # "start" /\ pc'[u] # "start"
    BY <1>a, EditFacts
  <1>1. ASSUME NEW u \in Task PROVE ~Approaching(u, s) /\ ~Approaching(u, s)'
    BY <1>b DEF Approaching
  <1>2. MappedTo(s) /\ MappedTo(s)'
    BY ShownFacts, ShownFactsNext DEF MappingInv
  <1>3. LastShown(s) = Brief(view[s]) /\ LastStamp(s) = lastTs[s]
    BY <1>1, <1>2 DEF MappedTo
  <1>4. (LastShown(s) = Brief(view[s]) /\ LastStamp(s) = lastTs[s])'
    BY <1>1, <1>2 DEF MappedTo
  <1>5. QED
    BY <1>3, <1>4 DEF Brief

LEMMA AddRegisters ==
    ASSUME Typed, EmissionInv, EmissionInv', SilentInv, NEW t \in Task, AddSink(t)
    PROVE  \E s \in Sink : Atomic!Register(s)
  <1> DEFINE r == call[t].sink
  <1>a. /\ sinks \in [Slot -> Sink \cup {NoSink}] /\ view \in [Sink -> View]
    BY DEF Typed, TypeOK
  <1>b. r \in Sink /\ view[r].cb = "removed"
    BY AddStep
  <1>c. PICK i \in Slot : sinks[i] = NoSink /\ sinks' = [sinks EXCEPT ![i] = r]
    BY DEF AddSink, Free
  <1>d. /\ ~Registered(r) /\ view' = [view EXCEPT ![r] = Quiet("added")]
        /\ UNCHANGED <<seq, now, lastTs>>
    BY DEF AddSink
  <1>e. view[r] = Quiet("removed")
    BY <1>b DEF SilentInv
  <1>1. r \notin RegisteredSet /\ RegisteredSet' = RegisteredSet \cup {r}
    BY <1>a, <1>b, <1>c, <1>d, CoreAssumption DEF RegisteredSet, Registered
  <1>2. ASSUME NEW s \in Sink
        PROVE  LastShown(s)' = LastShown(s) /\ LastStamp(s)' = LastStamp(s)
    <2>1. Brief(view'[s]) = Brief(view[s])
      BY <1>a, <1>b, <1>d, <1>e DEF Brief, Quiet
    <2>2. QED
      BY <1>d, <2>1, EditMapped
  <1>3. LastMap' = LastMap /\ StampMap' = StampMap
    BY <1>2 DEF LastMap, StampMap
  <1> HIDE DEF r
  <1>4. Atomic!Register(r)
    BY <1>d, <1>1, <1>3 DEF Atomic!Register, RegisteredSet, LastMap, StampMap
  <1>5. QED
    BY <1>b, <1>4

LEMMA RemoveUnregisters ==
    ASSUME Typed, EmissionInv, EmissionInv', NEW t \in Task, RemoveSink(t)
    PROVE  \E s \in Sink : Atomic!Unregister(s)
  <1> DEFINE r == call[t].sink
  <1>a. /\ sinks \in [Slot -> Sink \cup {NoSink}] /\ view \in [Sink -> View]
        /\ lastTs \in [Sink -> Nat]
    BY DEF Typed, TypeOK
  <1>b. r \in Sink
    BY RemoveStep
  <1>c. PICK i \in Slot : sinks[i] = r /\ sinks' = [sinks EXCEPT ![i] = NoSink]
    BY DEF RemoveSink
  <1>d. /\ view' = [view EXCEPT ![r] = Quiet("removed")] /\ lastTs' = [lastTs EXCEPT ![r] = 0]
        /\ UNCHANGED <<seq, now>>
    BY DEF RemoveSink
  <1>e. \A j \in Slot : sinks[j] = r => j = i
    BY <1>b, <1>c, CoreAssumption DEF EmissionInv, NoSinkTwice
  <1>1. r \in RegisteredSet /\ RegisteredSet' = RegisteredSet \ {r}
    BY <1>a, <1>b, <1>c, <1>e, CoreAssumption DEF RegisteredSet, Registered
  <1>2. ASSUME NEW s \in Sink
        PROVE  /\ LastShown(s)' = IF s = r THEN Atomic!Nothing ELSE LastShown(s)
               /\ LastStamp(s)' = IF s = r THEN 0 ELSE LastStamp(s)
    <2>1. Brief(view'[s]) = IF s = r THEN Atomic!Nothing ELSE Brief(view[s])
      BY <1>a, <1>b, <1>d DEF Brief, Quiet, Atomic!Nothing, Atomic!Shown
    <2>2. QED
      BY <1>a, <1>d, <2>1, EditMapped
  <1> HIDE DEF r
  <1>3. /\ LastMap' = [LastMap EXCEPT ![r] = Atomic!Nothing]
        /\ StampMap' = [StampMap EXCEPT ![r] = 0]
    BY <1>2 DEF LastMap, StampMap
  <1>4. Atomic!Unregister(r)
    BY <1>d, <1>1, <1>3 DEF Atomic!Unregister, RegisteredSet, LastMap, StampMap
  <1>5. QED
    BY <1>b, <1>4

LEMMA TickTicks ==
    ASSUME EmissionInv, EmissionInv', Tick PROVE Atomic!Tick
  <1>a. /\ now < MaxTime /\ now' = now + 1
        /\ UNCHANGED <<sinks, seq, pc, cur, snap, todo, view, lastTs>>
    BY DEF Tick, locals, history
  <1>1. ASSUME NEW s \in Sink
        PROVE  LastShown(s)' = LastShown(s) /\ LastStamp(s)' = LastStamp(s)
    <2>1. ASSUME NEW u \in Task
          PROVE  (Approaching(u, s)' <=> Approaching(u, s)) /\ cur'[u] = cur[u]
      BY <1>a DEF Approaching
    <2>2. QED
      BY <1>a, <2>1, Invisible
  <1>2. RegisteredSet' = RegisteredSet /\ LastMap' = LastMap /\ StampMap' = StampMap
    BY <1>a, <1>1 DEF RegisteredSet, Registered, LastMap, StampMap
  <1>3. QED
    BY <1>a, <1>2 DEF Atomic!Tick, RegisteredSet, LastMap, StampMap

\* Every step of the emission path is a step of AtomicLog or invisible to it.
LEMMA StepAtomic ==
    ASSUME Typed, EmissionInv, CallInv, SilentInv, [Next]_vars
    PROVE  Atomic!Next \/ Hidden
  <1>a. EmissionInv'
    BY StepKinds
  <1>b. /\ pc \in [Task -> PC] /\ cur \in [Task -> Packet] /\ todo \in [Task -> SUBSET Slot]
        /\ snap \in [Task -> [Slot -> Sink \cup {NoSink}]]
    BY DEF Typed, TypeOK
  <1>1. ASSUME UNCHANGED <<sinks, seq, now, pc, cur, snap, todo, view, lastTs>>
        PROVE  Hidden
    <2>1. ASSUME NEW s \in Sink
          PROVE  LastShown(s)' = LastShown(s) /\ LastStamp(s)' = LastStamp(s)
      <3>1. ASSUME NEW u \in Task
            PROVE  (Approaching(u, s)' <=> Approaching(u, s)) /\ cur'[u] = cur[u]
        BY <1>1 DEF Approaching
      <3>2. QED
        BY <1>a, <1>1, <3>1, Invisible
    <2>2. QED
      BY <1>1, <2>1, HiddenFacts
  <1>2. CASE IsrDrop \/ UNCHANGED vars
    BY <1>1, <1>2 DEF IsrDrop, vars, globals, locals, history
  <1>3. CASE Tick
    BY <1>a, <1>3, TickTicks DEF Atomic!Next
  <1>4. ASSUME NEW t \in Task, Begin(t) \/ InCall(t)
        PROVE  Atomic!Next \/ Hidden
    <2>1. CASE Unnoticed(t)
      <3>1. /\ pc[t] \in {"idle", "take", "body", "chunk"} /\ pc'[t] # "start"
            /\ \A u \in Task \ {t} : pc'[u] = pc[u] /\ cur'[u] = cur[u]
            /\ UNCHANGED <<sinks, seq, now, snap, todo, view, lastTs>>
        BY <1>b, <2>1, UnnoticedFacts
      <3>2. QED
        BY <1>a, <3>1, LocalHidden
    <2>2. CASE RejectBuffer(t)
      BY <1>1, <2>2 DEF RejectBuffer, locals
    <2>3. CASE StreamOpen(t)
      BY <1>a, <1>b, <2>3, LocalHidden DEF StreamOpen, Goto, history
    <2>4. CASE NumberPacket(t)
      BY <1>a, <2>4, NumberDelivers DEF Atomic!Next
    <2>5. CASE NextChunk(t) \/ LastChunkSent(t)
      BY <1>a, <1>b, <2>5, LocalHidden DEF NextChunk, LastChunkSent, Goto, globals, history
    <2>6. CASE EndNotice(t) \/ EndChunk(t) \/ EndPacket(t)
      <3>1. /\ pc[t] = "end" /\ pc'[t] # "start"
            /\ \A u \in Task \ {t} : pc'[u] = pc[u] /\ cur'[u] = cur[u] /\ snap'[u] = snap[u]
            /\ UNCHANGED <<sinks, seq, now, todo, view, lastTs>>
        BY <1>b, <2>6 DEF EndNotice, EndChunk, EndPacket, StreamEnd, Goto, Return
      <3>2. QED
        BY <1>a, <3>1, LocalHidden
    <2>7. CASE \E i \in Slot : StartCb(t, i)
      BY <1>a, <2>7, StartHidden
    <2>8. CASE \E i \in Slot : PayloadCb(t, i) \/ EndCb(t, i)
      BY <1>a, <2>8, CallbackHidden
    <2>9. CASE TableLock(t) \/ TableUnchanged(t) \/ TableUnlock(t)
      <3>1. /\ pc[t] # "start" /\ pc'[t] # "start"
            /\ \A u \in Task \ {t} : pc'[u] = pc[u]
            /\ UNCHANGED <<sinks, seq, now, cur, snap, todo, view, lastTs>>
        BY <1>b, <2>9 DEF TableLock, TableUnchanged, TableUnlock, Goto, Return, globals, history
      <3>2. QED
        BY <1>a, <3>1, LocalHidden
    <2>10. CASE AddSink(t)
      BY <1>a, <2>10, AddRegisters DEF Atomic!Next
    <2>11. CASE RemoveSink(t)
      BY <1>a, <2>11, RemoveUnregisters DEF Atomic!Next
    <2>12. QED
      BY <1>4, <2>1, <2>2, <2>3, <2>4, <2>5, <2>6, <2>7, <2>8, <2>9, <2>10, <2>11
         DEF Begin, InCall, Unnoticed
  <1>5. QED
    BY <1>2, <1>3, <1>4 DEF Next

LEMMA InitAtomic == Init => Atomic!Init
  <1> SUFFICES ASSUME Init PROVE Atomic!Init
    OBVIOUS
  <1>1. \A s \in Sink, t \in Task : ~Approaching(t, s)
    BY DEF Init, Approaching
  <1>2. RegisteredSet = {}
    BY CoreAssumption DEF Init, RegisteredSet, Registered, NoTable
  <1>3. ASSUME NEW s \in Sink
        PROVE  LastShown(s) = Atomic!Nothing /\ LastStamp(s) = 0
    BY <1>1 DEF Init, LastShown, LastStamp, Quiet, Atomic!Nothing, Atomic!Shown
  <1>4. LastMap = [s \in Sink |-> Atomic!Nothing] /\ StampMap = [s \in Sink |-> 0]
    BY <1>3 DEF LastMap, StampMap
  <1>5. QED
    BY <1>2, <1>4 DEF Init, Atomic!Init, RegisteredSet, LastMap, StampMap

-----------------------------------------------------------------------------
(***************************************************************************)
(* The account of dropped messages.                                        *)
(***************************************************************************)
\* DropsConserved, with the sum the lemmas speak of.
Account == owed = dropped + Sum(taken, Task)

LEMMA AccountIsDrops == DropsConserved <=> Account
  BY SumIsMapThenSum DEF DropsConserved, Account

LEMMA InitAccount == Init => Account
  <1> SUFFICES ASSUME Init PROVE Account
    OBVIOUS
  <1>1. taken \in [Task -> {0}] /\ owed = 0 /\ dropped = 0
    BY DEF Init
  <1>2. Sum(taken, Task) = 0
    BY <1>1, SumZero, CoreAssumption
  <1>3. QED
    BY <1>1, <1>2 DEF Account

LEMMA StepAccount == Typed /\ CallInv /\ Account /\ [Next]_vars => Account'
  <1> SUFFICES ASSUME Typed, CallInv, Account, [Next]_vars PROVE Account'
    OBVIOUS
  <1>a. /\ taken \in [Task -> Nat] /\ dropped \in Nat /\ owed \in Int
        /\ cur \in [Task -> Packet] /\ call \in [Task -> Call]
    BY DEF Typed, TypeOK
  <1>b. IsFiniteSet(Task) /\ taken \in [Task -> Int]
    BY <1>a, CoreAssumption
  <1>1. CASE UNCHANGED <<taken, dropped, owed>>
    BY <1>1 DEF Account
  <1>2. CASE CountDrop /\ taken' = taken
    <2>1. dropped' = dropped + 1 /\ owed' = owed + 1 /\ taken' = taken
      BY <1>2 DEF CountDrop
    <2>2. Task = {} \/ Sum(taken, Task) \in Int
      <3>1. ASSUME NEW x \in Task PROVE Sum(taken, Task) \in Int
        BY <1>b, SumUpdate
      <3>2. QED
        BY <3>1
    <2>3. Task = {} => Sum(taken, Task) = 0
      BY <1>b, SumZero
    <2>4. QED
      BY <1>a, <2>1, <2>2, <2>3 DEF Account
  <1>3. ASSUME NEW t \in Task, Begin(t) \/ InCall(t)
        PROVE  Account'
    <2>a. OnCourse(t) /\ taken[t] \in Nat
      BY <1>a DEF CallInv
    <2>b. ASSUME NEW n \in Nat, taken' = [taken EXCEPT ![t] = n]
          PROVE  Sum(taken, Task) \in Int /\ Sum(taken, Task)' = Sum(taken, Task) + (n - taken[t])
      <3>1. taken' \in [Task -> Int] /\ taken'[t] = n /\ \A y \in Task : y # t => taken'[y] = taken[y]
        BY <1>b, <2>b
      <3>2. Sum(taken, Task) \in Int /\ Sum(taken', Task) = Sum(taken, Task) + (taken'[t] - taken[t])
        BY <1>b, <3>1, SumUpdate
      <3>3. QED
        BY <3>1, <3>2
    <2>1. CASE TakeDropped(t)
      <3>1. pc[t] = "take" /\ dropped' = 0 /\ taken' = [taken EXCEPT ![t] = dropped] /\ owed' = owed
        BY <2>1 DEF TakeDropped, history
      <3>2. taken[t] = 0
        BY <2>a, <3>1 DEF OnCourse, Emitting, Delivering
      <3>3. /\ Sum(taken, Task) \in Int
            /\ Sum(taken, Task)' = Sum(taken, Task) + (dropped - taken[t])
        BY <1>a, <2>b, <3>1
      <3>4. QED
        BY <1>a, <3>1, <3>2, <3>3 DEF Account
    <2>2. CASE EndNotice(t)
      <3>1. /\ pc[t] = "end" /\ cur[t].type = "DROPPED" /\ taken' = [taken EXCEPT ![t] = 0]
            /\ owed' = owed - cur[t].val /\ dropped' = dropped
        BY <2>2 DEF EndNotice, StreamEnd
      <3>2. cur[t].val = taken[t]
        BY <1>a, <2>a, <3>1 DEF OnCourse, Emitting, Delivering, OwnPacket, Notice, Call
      <3>3. Sum(taken, Task) \in Int /\ Sum(taken, Task)' = Sum(taken, Task) + (0 - taken[t])
        BY <2>b, <3>1
      <3>4. QED
        BY <1>a, <2>a, <3>1, <3>2, <3>3 DEF Account
    <2>3. CASE PacketTooLong(t) \/ RejectBuffer(t)
      BY <1>2, <2>3 DEF PacketTooLong, RejectBuffer, locals
    <2>4. CASE \/ BeginWrite(t) \/ BeginBuffer(t) \/ BeginBoot(t)
               \/ \E type \in {"LOG", "TIME_SYNC"} : BeginDispatch(t, type)
               \/ \E fn \in {"add", "remove"}, s \in Sink : BeginTableEdit(t, fn, s)
      BY <1>1, <2>4
         DEF BeginWrite, BeginBuffer, BeginBoot, BeginDispatch, BeginTableEdit, globals, history
    <2>5. CASE \/ TakeNone(t) \/ WriteFits(t) \/ EmitChunk(t) \/ EmitDispatched(t)
               \/ StreamOpen(t) \/ NumberPacket(t) \/ NextChunk(t) \/ LastChunkSent(t)
      BY <1>1, <2>5
         DEF TakeNone, WriteFits, EmitChunk, EmitDispatched, StreamOpen, NumberPacket, NextChunk,
             LastChunkSent, globals, history
    <2>6. CASE EndChunk(t) \/ EndPacket(t)
      BY <1>1, <2>6 DEF EndChunk, EndPacket, StreamEnd
    <2>7. CASE \E i \in Slot : StartCb(t, i) \/ PayloadCb(t, i) \/ EndCb(t, i)
      BY <1>1, <2>7 DEF StartCb, PayloadCb, EndCb, globals
    <2>8. CASE \/ TableLock(t) \/ AddSink(t) \/ RemoveSink(t) \/ TableUnchanged(t)
               \/ TableUnlock(t)
      BY <1>1, <2>8
         DEF TableLock, AddSink, RemoveSink, TableUnchanged, TableUnlock, globals, history
    <2>9. QED
      BY <1>3, <2>1, <2>2, <2>3, <2>4, <2>5, <2>6, <2>7, <2>8 DEF Begin, InCall
  <1>4. CASE IsrDrop
    BY <1>2, <1>4 DEF IsrDrop, locals
  <1>5. CASE Tick \/ UNCHANGED vars
    BY <1>1, <1>5 DEF Tick, vars, globals, locals, history
  <1>6. QED
    BY <1>3, <1>4, <1>5 DEF Next

-----------------------------------------------------------------------------
\* The inductive invariant of this module.
DeliveryInv == Typed /\ EmissionInv /\ CallInv /\ ChunkInv /\ MixedInv /\ SilentInv

LEMMA DeliveryInductive == Spec => []DeliveryInv
  <1>1. Init => DeliveryInv
    <2>1. Init => SilentInv
      BY DEF Init, SilentInv
    <2>2. QED
      BY <2>1, InitTyped, InitEmission, InitCall, InitChunk DEF DeliveryInv
  <1>2. DeliveryInv /\ [Next]_vars => DeliveryInv'
    BY StepTyped, StepKinds, StepCall, StepChunk, StepSilent DEF DeliveryInv
  <1>3. QED
    BY <1>1, <1>2, PTL DEF Spec

(***************************************************************************)
(* The lock, the snapshot and the rounds of callbacks amount to delivering *)
(* each packet to all registered sinks at once: on9log_stream_open ..      *)
(* on9log_stream_end and the table functions implement AtomicLog, for any  *)
(* number of tasks, sinks and slots.                                       *)
(***************************************************************************)
THEOREM DeliveryRefines == Spec => DeliveryIsAtomic
  <1>1. DeliveryInv /\ [Next]_vars => [Atomic!Next]_(Atomic!vars)
    <2> SUFFICES ASSUME DeliveryInv, [Next]_vars PROVE [Atomic!Next]_(Atomic!vars)
      OBVIOUS
    <2>1. Atomic!Next \/ Hidden
      BY StepAtomic DEF DeliveryInv
    <2>2. Hidden => UNCHANGED Atomic!vars
      BY DEF Hidden, Atomic!vars, RegisteredSet, LastMap, StampMap
    <2>3. QED
      BY <2>1, <2>2
  <1>2. QED
    BY <1>1, InitAtomic, DeliveryInductive, PTL DEF Spec, DeliveryIsAtomic, Atomic!Spec

(***************************************************************************)
(* From the tag and the offsets that BUFFER packets carry, every sink can  *)
(* put together again each buffer whose call overlapped no other call      *)
(* writing a buffer of the same tag: on9log_write_buffer leaves out no     *)
(* byte and sends none twice, whatever else is sent or registered between  *)
(* two chunks, for any number of tasks, tags and lengths.  A sink is never *)
(* left in the middle of a buffer by calls that have all returned, so      *)
(* overlapping calls of one tag spoil their own buffers and no later one.  *)
(***************************************************************************)
THEOREM BuffersReassemble == Spec => BufferChunksContiguous
  <1>1. DeliveryInv /\ [Next]_vars =>
           [\A s \in Sink :
              LET g == view'[s].tag
                  a == asm[s][g]
                  b == asm'[s][g]
              IN  Starts(s, {"BUFFER"}) /\ ~mixed[g] =>
                     \/ a = NothingSeen
                     \/ b.at = 0 /\ a.next = a.total
                     \/ b.at = a.next /\ a.next < a.total /\ b.total = a.total]_view
    BY StepContiguous DEF DeliveryInv
  <1>2. QED
    BY <1>1, DeliveryInductive, PTL DEF Spec, BufferChunksContiguous

(***************************************************************************)
(* Every drop counted by a task or a handler is announced exactly once:    *)
(* until its DROPPED packet is out it is in s_dropped_count or in the      *)
(* hands of one task, however the lock-free exchanges interleave.          *)
(***************************************************************************)
THEOREM NoDropIsLost == Spec => []DropsConserved
  <1>1. Init => Account
    BY InitAccount
  <1>2. DeliveryInv /\ Account /\ [Next]_vars => Account'
    BY StepAccount DEF DeliveryInv
  <1>3. QED
    BY <1>1, <1>2, AccountIsDrops, DeliveryInductive, PTL DEF Spec

=============================================================================
