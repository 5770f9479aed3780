----------------------------- MODULE WireProofs -----------------------------
(***************************************************************************)
(* What can be proved of the bytes on the wire and of the statements they  *)
(* come from: of module Wire and of module FrontEnd.                       *)
(***************************************************************************)
EXTENDS FrontEnd, CodecProofs

-----------------------------------------------------------------------------
(***************************************************************************)
(* The search for the build-id stays inside the notes it was given, for    *)
(* every width of size_t and whatever the notes say.                       *)
(***************************************************************************)
\* Below the width of size_t nothing wraps, and rounding up adds less than the alignment.
LEMMA RoundUpBounds ==
    ASSUME NEW n \in Nat, NEW align \in {4, 8}, n + align - 1 < Word
    PROVE  /\ RoundUp(n, align) \in n .. n + align - 1
           /\ RoundUp(n, align) % align = 0
<1>1. Word \in Nat
  BY ImageIdAssumption
<1>2. (n + align - 1) % Word = n + align - 1
  BY <1>1
<1>3. RoundUp(n, align) = (n + align - 1) - ((n + align - 1) % align)
  BY <1>2 DEF RoundUp
<1>4. CASE align = 4
  BY <1>3, <1>4
<1>5. CASE align = 8
  BY <1>3, <1>5
<1> QED
  BY <1>4, <1>5

(***************************************************************************)
(* A note whose name and descriptor pass the tests of the loop: its        *)
(* descriptor begins behind the header and ends inside the region.         *)
(***************************************************************************)
LEMMA DescriptorInside ==
    ASSUME NEW note \in Note, NEW left \in RegionLen, NEW align \in {4, 8},
           left >= HeaderLen, ~Malformed(note, left, align)
    PROVE  /\ HeaderLen + note.namesz <= left
           /\ DescOff(note, align) \in HeaderLen + note.namesz .. left
           /\ DescOff(note, align) + note.descsz <= left
<1>1. Word \in Nat /\ left \in Nat /\ left + 2 * HeaderLen <= Word /\ HeaderLen = 12
  BY ImageIdAssumption DEF RegionLen, HeaderLen
<1>2. note.namesz \in Nat /\ note.descsz \in Nat
  BY <1>1 DEF Note, SizeT
<1>3. HeaderLen + note.namesz <= left
  BY <1>1, <1>2 DEF Malformed
<1>4. DescOff(note, align) \in HeaderLen + note.namesz .. HeaderLen + note.namesz + align - 1
  BY <1>1, <1>2, <1>3, RoundUpBounds DEF DescOff
<1> QED
  BY <1>1, <1>2, <1>3, <1>4 DEF Malformed

(***************************************************************************)
(* Whatever sizes, type and name a note has, one round of                  *)
(* on9log_find_gnu_build_id reads only bytes of the region, and a next     *)
(* round begins at a later, aligned place inside it: the comparisons by    *)
(* subtraction never wrap.                                                 *)
(***************************************************************************)
THEOREM RoundStaysInside ==
    ASSUME NEW note \in Note, NEW left \in RegionLen, NEW align \in {4, 8}, NEW cap \in Nat,
           left >= HeaderLen
    PROVE  StaysInside(note, left, align, cap)
<1>1. Word \in Nat /\ left \in Nat /\ left + 2 * HeaderLen <= Word /\ HeaderLen = 12
  BY ImageIdAssumption DEF RegionLen, HeaderLen
<1>2. note.namesz \in Nat /\ note.descsz \in Nat
  BY <1>1 DEF Note, SizeT
<1>3. ASSUME NEW read \in Reads(note, left, align, cap)
      PROVE  0 <= read[1] /\ read[1] <= read[2] /\ read[2] <= left
  <2>1. CASE read = <<0, HeaderLen>>
    BY <1>1, <2>1
  <2>2. CASE ~Malformed(note, left, align) /\ note.namesz = 4 /\ read = <<HeaderLen, HeaderLen + 4>>
    BY <1>1, <2>2, DescriptorInside
  <2>3. CASE /\ ~Malformed(note, left, align)
             /\ read = <<DescOff(note, align), DescOff(note, align) + note.descsz>>
    BY <1>1, <1>2, <2>3, DescriptorInside
  <2> QED
    BY <1>3, <2>1, <2>2, <2>3 DEF Reads
<1>4. ASSUME GoesOn(note, left, align)
      PROVE  /\ NextOff(note, align) \in 1 .. left - 1
             /\ NextOff(note, align) % align = 0
  <2>1. /\ DescOff(note, align) \in HeaderLen + note.namesz .. left
        /\ DescOff(note, align) + note.descsz <= left
    BY <1>4, DescriptorInside DEF GoesOn
  <2> DEFINE end == DescOff(note, align) + note.descsz
  <2>2. end \in Nat /\ end + align - 1 < Word /\ end >= 12
    BY <1>1, <1>2, <2>1
  <2>3. NextOff(note, align) \in end .. end + align - 1 /\ NextOff(note, align) % align = 0
    BY <2>2, RoundUpBounds DEF NextOff
  <2>4. NextOff(note, align) < left
    BY <1>1, <1>4, <2>2, <2>3 DEF GoesOn, IsLast
  <2> QED
    BY <1>1, <2>2, <2>3, <2>4
<1> QED
  BY <1>3, <1>4 DEF StaysInside


(***************************************************************************)
(* ScanStaysInside, whatever sizes are in NoteSize and in the region.      *)
(***************************************************************************)
THEOREM ScanStaysInsideAlways == Spec => []ScanStaysInside
<1>1. ScanStaysInside
  <2>1. SUFFICES ASSUME NEW namesz \in NoteSize, NEW descsz \in NoteSize,
                        NEW type \in {1, BuildIdNote}, NEW gnu \in BOOLEAN,
                        NEW left \in NoteSize \cap RegionLen, NEW align \in {4, 8},
                        left >= HeaderLen
                 PROVE  StaysInside([namesz |-> namesz, descsz |-> descsz, type |-> type,
                                     gnu |-> gnu], left, align, IdMax)
    BY DEF ScanStaysInside
  <2>2. [namesz |-> namesz, descsz |-> descsz, type |-> type, gnu |-> gnu] \in Note
    BY WireAssumption DEF Note, BuildIdNote
  <2>3. IdMax \in Nat
    BY ImageIdAssumption
  <2> QED
    BY <2>1, <2>2, <2>3, RoundStaysInside
<1> QED
  BY <1>1, PTL

-----------------------------------------------------------------------------
(***************************************************************************)
(* The fate of a statement.  The lemmas say it of every level a build or a *)
(* tag can have and of texts of any length, of which LossIsCounted names a *)
(* few that TLC can go through.                                            *)
(***************************************************************************)
BuildOf == [plain : BOOLEAN, local : Int, library : Int]

SituationOf == [level : 0 .. 5, stream : BOOLEAN, ready : BOOLEAN, room : BOOLEAN]

StatementOf == [style : Style, objects : BOOLEAN, strings : BOOLEAN, fits : BOOLEAN,
                text : Int, extra : Nat]

\* The four outcomes are different.
LEMMA Outcomes ==
    /\ Quiet # Refused /\ Sent # Refused /\ Dropped # Refused
    /\ Quiet # Sent /\ Quiet # Dropped /\ Sent # Dropped
    /\ Sent.sent = TRUE /\ Sent.counted = 0 /\ Sent.ok = TRUE
    /\ Dropped.sent = FALSE /\ Dropped.counted = 1 /\ Dropped.ok = FALSE
  BY DEF Quiet, Sent, Dropped, Refused

\* Every way to write a statement gives it one of six levels.
LEMMA RoadLevels ==
    ASSUME NEW road \in Road, NEW name \in DOMAIN road.level
    PROVE  /\ road.level[name] \in 0 .. 5
           /\ road.to \in {"task", "isr", "buffer"}
           /\ road.by \in {"macro", "logger"}
  BY DEF Road, LogMacros, RuntimeMacros, IsrMacros, BufMacros, Macros, Methods, ShortMethods,
         LevelMethod, IsrMethods, IsrLevelMethod, BufferMethods

\* The functions of the library, of a statement that is not filtered.
LEMMA LibraryAccounts ==
    ASSUME NEW level \in 0 .. 5, NEW s \in StatementOf, NEW b \in BuildOf, NEW w \in SituationOf
    PROVE  /\ ~LevelEnabled(level, b, w) =>
                 /\ Vwrite(level, s, b, w) = Quiet
                 /\ WriteText(level, b, w) = Quiet
                 /\ VwriteIsr(level, s, b, w) = Quiet
                 /\ WriteTextIsr(level, s.text, s.extra, b, w) = Quiet
                 /\ WriteBuffer(level, s, b, w) = Quiet
           /\ LevelEnabled(level, b, w) =>
                 /\ Vwrite(level, s, b, w) \in {Sent, Dropped}
                 /\ WriteText(level, b, w) \in {Sent, Dropped}
                 /\ WriteBuffer(level, s, b, w) \in {Sent, Dropped}
           /\ LevelEnabled(level, b, w) /\ w.ready =>
                 /\ VwriteIsr(level, s, b, w) \in {Sent, Dropped}
                 /\ WriteTextIsr(level, s.text, s.extra, b, w) \in {Sent, Dropped}
           /\ ~w.ready =>
                 /\ VwriteIsr(level, s, b, w) = Quiet
                 /\ WriteTextIsr(level, s.text, s.extra, b, w) = Quiet
  BY DEF Vwrite, WriteText, VwriteIsr, WriteTextIsr, WriteBuffer

LEMMA FateIsKnown ==
    ASSUME NEW road \in Road, NEW name \in DOMAIN road.level,
           NEW b \in BuildOf, NEW w \in SituationOf, NEW s \in StatementOf
    PROVE  LET level  == road.level[name]
               wanted == level # 0 /\ level <= b.local /\ level <= b.library /\ level <= w.level
               early  == road.to = "isr" /\ ~w.ready
               long   == /\ road.by = "logger" /\ road.to = "isr" /\ b.plain
                         /\ (s.style # "printf" \/ s.objects) /\ s.text > IsrMax
               fate   == Fate(road, name, s, b, w)
           IN  IF ~wanted THEN fate = Quiet \/ (long /\ level # 0 /\ level <= b.local)
               ELSE IF long THEN fate = Refused
               ELSE IF early THEN fate = Quiet
               ELSE fate \in {Sent, Dropped}
<1> DEFINE level  == road.level[name]
           wanted == level # 0 /\ level <= b.local /\ level <= b.library /\ level <= w.level
           early  == road.to = "isr" /\ ~w.ready
           long   == /\ road.by = "logger" /\ road.to = "isr" /\ b.plain
                     /\ (s.style # "printf" \/ s.objects) /\ s.text > IsrMax
           fate   == Fate(road, name, s, b, w)
<1>1. /\ level \in 0 .. 5
      /\ road.to \in {"task", "isr", "buffer"}
      /\ road.by \in {"macro", "logger"}
  BY RoadLevels
<1>2. wanted <=> CompiledIn(level, b) /\ LevelEnabled(level, b, w)
  BY <1>1 DEF CompiledIn, LevelEnabled, BuildOf, SituationOf
<1>3. [s EXCEPT !.strings = FALSE] \in StatementOf
  BY DEF StatementOf
<1>4. CASE ~CompiledIn(level, b)
  <2>1. fate = Quiet
    BY <1>4 DEF Fate, Macro, Method
  <2> QED
    BY <1>2, <1>4, <2>1
<1>5. CASE CompiledIn(level, b) /\ road.by = "macro"
  <2>1. fate = Macro(road.to, level, s, b, w) /\ ~long
    BY <1>5 DEF Fate
  <2> QED
    BY <1>1, <1>2, <1>5, <2>1, LibraryAccounts DEF Macro
<1>6. CASE CompiledIn(level, b) /\ road.by = "logger"
  <2>1. fate = Method(road.to, level, s, b, w)
    BY <1>6 DEF Fate
  <2>2. CASE road.to = "task"
    BY <1>1, <1>2, <1>6, <2>1, <2>2, LibraryAccounts DEF Method, WriteLog
  <2>3. CASE road.to = "buffer"
    BY <1>1, <1>2, <1>6, <2>1, <2>3, LibraryAccounts DEF Method
  <2>4. CASE road.to = "isr"
    <3>1. fate = WriteLogIsr(level, s, b, w)
      BY <1>6, <2>1, <2>4 DEF Method
    <3>2. CASE ~b.plain \/ ByPrintf(s)
      <4>1. fate = VwriteIsr(level, [s EXCEPT !.strings = FALSE], b, w)
        BY <3>1, <3>2 DEF WriteLogIsr
      <4>2. ~long
        BY <3>2 DEF ByPrintf, BuildOf, StatementOf
      <4> QED
        BY <1>1, <1>2, <1>3, <1>6, <2>4, <4>1, <4>2, LibraryAccounts
    <3>3. CASE b.plain /\ ~ByPrintf(s) /\ s.text > IsrMax
      <4>1. fate = Refused
        BY <3>1, <3>3 DEF WriteLogIsr
      <4>2. long
        BY <1>6, <2>4, <3>3 DEF ByPrintf
      <4>3. level # 0 /\ level <= b.local
        BY <1>6 DEF CompiledIn
      <4> QED
        BY <4>1, <4>2, <4>3
    <3>4. CASE b.plain /\ ~ByPrintf(s) /\ ~(s.text > IsrMax)
      <4>1. fate = WriteTextIsr(level, s.text, s.extra, b, w) /\ ~long
        BY <3>1, <3>4 DEF WriteLogIsr
      <4> QED
        BY <1>1, <1>2, <1>6, <2>4, <4>1, LibraryAccounts
    <3> QED
      BY <3>2, <3>3, <3>4
  <2> QED
    BY <1>1, <2>2, <2>3, <2>4
<1> QED
  BY <1>1, <1>4, <1>5, <1>6

(***************************************************************************)
(* LossIsCounted, for every size of the handlers' buffer.                  *)
(***************************************************************************)
THEOREM LossesAreCounted == Spec => []LossIsCounted
<1>1. LossIsCounted
  <2>1. AnyBuild \subseteq BuildOf
    BY DEF AnyBuild, BuildOf
  <2>2. Situation \subseteq SituationOf
    BY DEF Situation, SituationOf
  <2>3. Statement \subseteq StatementOf
    BY IsrMaxAssumption DEF Statement, StatementOf
  <2> QED
    BY <2>1, <2>2, <2>3, FateIsKnown, Outcomes DEF LossIsCounted
<1> QED
  BY <1>1, PTL

-----------------------------------------------------------------------------
(***************************************************************************)
(* Arguments are read as they were passed.  Slots and sizes are those of   *)
(* two ABIs, so every case is a computation.                               *)
(***************************************************************************)
ABI == {Ilp32, Lp64}

LEMMA AbiSizes ==
    ASSUME NEW abi \in ABI
    PROVE  \/ abi = Ilp32 /\ abi.long = 4 /\ abi.pointer = 4 /\ abi.slot = 4 /\ abi.fpregs = FALSE
           \/ abi = Lp64 /\ abi.long = 8 /\ abi.pointer = 8 /\ abi.slot = 8 /\ abi.fpregs = TRUE
  BY DEF ABI, Ilp32, Lp64

\* The kinds there are, with what tells the types of a kind apart.
LEMMA ScalarShape ==
    ASSUME NEW type \in Scalars
    PROVE  /\ type.to = "none"
           /\ \/ type.kind = "int" /\ type.size \in {1, 2, 4, 8}
              \/ type.kind = "enum" /\ type.size = 4
              \/ type.kind = "long" /\ type.size = 0
              \/ type.kind = "float" /\ type.size \in {4, 8}
  BY DEF Scalars, Integers8to64, Long, Floats, Number

LEMMA AddressShape ==
    ASSUME NEW type \in Addresses
    PROVE  /\ type.kind \in {"pointer", "array"} /\ type.size = 0
           /\ type.to \in {"char", "uint8_t", "void", "other"}
           /\ type.kind = "array" => type.to # "void"
           /\ type \notin Scalars
  BY ScalarShape DEF Addresses

\* The C macro, and its form for C++.
LEMMA MacroReads ==
    ASSUME NEW abi \in ABI, NEW type \in Scalars \cup Addresses,
           ~(abi = Lp64 /\ type.kind \in {"long", "float"})
    PROVE  LET read == VaArg(DetectType(type), abi)
           IN  /\ InStep(Promoted(type, abi), read, abi)
               /\ Whole(type, Promoted(type, abi), read)
<1> DEFINE read   == VaArg(DetectType(type), abi)
           passed == Promoted(type, abi)
<1>1. CASE type \in Scalars
  <2>1. CASE type.kind \in {"int", "enum"}
    <3>1. \/ DetectType(type) = "dword" /\ type.size = 8
          \/ DetectType(type) = "word" /\ type.size \in {1, 2, 4}
      BY <1>1, <2>1, ScalarShape DEF DetectType
    <3>2. passed = General(IF type.size < 4 THEN 4 ELSE type.size)
      BY <2>1 DEF Promoted, SizeOf
    <3>3. passed = read
      BY <3>1, <3>2 DEF VaArg
    <3> QED
      BY <3>3 DEF InStep, Whole
  <2>2. CASE type.kind = "long"
    <3>1. abi = Ilp32 /\ abi.long = 4
      BY <2>2, AbiSizes
    <3>2. DetectType(type) = "word"
      BY <2>2 DEF DetectType
    <3>3. passed = General(4)
      BY <2>2, <3>1 DEF Promoted, SizeOf
    <3>4. passed = read
      BY <3>2, <3>3 DEF VaArg
    <3> QED
      BY <3>4 DEF InStep, Whole
  <2>3. CASE type.kind = "float"
    <3>1. abi = Ilp32 /\ abi.fpregs = FALSE
      BY <2>3, AbiSizes
    <3>2. DetectType(type) = "dword"
      BY <2>3 DEF DetectType
    <3>3. passed = General(8)
      BY <2>3, <3>1 DEF Promoted, General
    <3>4. passed = read
      BY <3>2, <3>3 DEF VaArg
    <3> QED
      BY <3>4 DEF InStep, Whole
  <2> QED
    BY <1>1, <2>1, <2>2, <2>3, ScalarShape
<1>2. CASE type \in Addresses
  <2>1. passed = General(abi.pointer)
    BY <1>2, AddressShape DEF Promoted
  <2>2. read \in {General(abi.pointer), General(4)}
    BY <1>2, AddressShape DEF VaArg, DetectType
  <2>3. Slots(General(4), abi) = Slots(General(abi.pointer), abi)
    <3>1. General(4).size = 4 /\ General(abi.pointer).size = abi.pointer
      BY DEF General
    <3>2. \/ abi.pointer = 4
          \/ abi.pointer = 8 /\ abi.slot = 8
      BY AbiSizes
    <3>3. CASE abi.pointer = 4
      BY <3>1, <3>3 DEF Slots
    <3>4. CASE abi.pointer = 8 /\ abi.slot = 8
      BY <3>1, <3>4, (4 + 8 - 1) \div 8 = 1, (8 + 8 - 1) \div 8 = 1 DEF Slots
    <3> QED
      BY <3>2, <3>3, <3>4
  <2>4. General(abi.pointer).file = General(4).file
    BY DEF General
  <2>5. Whole(type, passed, read)
    BY <1>2, AddressShape DEF Whole
  <2> QED
    BY <2>1, <2>2, <2>3, <2>4, <2>5 DEF InStep
<1> QED
  BY <1>1, <1>2

LEMMA MacrosAgree ==
    ASSUME NEW type \in Scalars \cup Addresses
    PROVE  On9LogArgType(type) = DetectType(type)
<1>1. CASE type \in Scalars
  BY <1>1, ScalarShape
     DEF On9LogArgType, DetectType, Scalars, Integers8to64, Long, Floats, Number
<1>2. CASE type \in Addresses
  BY <1>2, AddressShape DEF On9LogArgType, DetectType, Floats, Number
<1> QED
  BY <1>1, <1>2

LEMMA WrapperReads ==
    ASSUME NEW abi \in ABI, NEW type \in Scalars \cup Addresses \cup Classes \cup {Nullptr}
    PROVE  LET read == VaArg(ArgTypeCode(type, abi), abi)
           IN  /\ InStep(WireArg(type, abi), read, abi)
               /\ Whole(type, WireArg(type, abi), read)
<1>1. CASE type \in Scalars
  BY <1>1, AbiSizes, ScalarShape
     DEF VaArg, ArgTypeCode, WireArg, InStep, Slots, Whole, SizeOf, General
<1>2. CASE type \in Addresses
  BY <1>2, AbiSizes, AddressShape
     DEF VaArg, ArgTypeCode, WireArg, InStep, Slots, Whole, SizeOf, General
<1>3. CASE type \in Classes \cup {Nullptr}
  <2>1. type.kind \in {"string", "string_view", "nullptr"} /\ type \notin Scalars
    BY <1>3, ScalarShape DEF Classes, Nullptr, Number
  <2> QED
    BY <2>1, AbiSizes
       DEF VaArg, ArgTypeCode, WireArg, InStep, Slots, Whole, SizeOf, General
<1> QED
  BY <1>1, <1>2, <1>3

(***************************************************************************)
(* ReadAsPassed: no type of either language is read out of step.           *)
(***************************************************************************)
THEOREM ArgumentsAreReadAsPassed == Spec => []ReadAsPassed
<1>1. ReadAsPassed
  BY MacroReads, MacrosAgree, WrapperReads DEF ReadAsPassed, ABI
<1> QED
  BY <1>1, PTL

-----------------------------------------------------------------------------
(***************************************************************************)
(* The two passes agree: what on9log_measure_payload adds up is what       *)
(* on9log_emit_payload_args writes, whatever became of the strings in      *)
(* between, because the second pass goes by the lengths the first one      *)
(* recorded.                                                               *)
(***************************************************************************)
\* Lengths as on9log_string_lens_t records them.
Recorded == {Null} \cup 0 .. Len(Content)

\* What the two passes are given.
Passed(c, v, l) ==
    /\ c.types \in Seq(WireType)
    /\ c.inline \in Recorded
    /\ v \in [1 .. Len(c.types) -> Int \cup {Null}]
    /\ \A i \in 1 .. Len(c.types) : c.types[i] \notin String => v[i] \in Int
    /\ l \in [1 .. Len(c.types) -> Recorded]

LEMMA ContentFacts ==
    /\ Content \in Seq(Byte) /\ Len(Content) \in Nat /\ Null \notin Int
    /\ MaxStr \in Nat /\ PayloadMax \in Nat /\ PayloadMax < 65536
  BY WireAssumption

LEMMA Le32Bytes ==
    ASSUME NEW n \in Int \cup {Null}
    PROVE  Le32(n) \in Seq(Byte) /\ Len(Le32(n)) = 4
<1>1. CASE n = Null
  BY <1>1 DEF Le32, Byte
<1>2. CASE n \in Int /\ n # Null
  <2>1. /\ n % 256 \in Byte /\ (n \div 256) % 256 \in Byte
        /\ (n \div 65536) % 256 \in Byte /\ (n \div 16777216) % 256 \in Byte
    BY <1>2 DEF Byte
  <2> QED
    BY <1>2, <2>1 DEF Le32
<1> QED
  BY <1>1, <1>2

LEMMA Le64Bytes ==
    ASSUME NEW n \in Int
    PROVE  Le64(n) \in Seq(Byte) /\ Len(Le64(n)) = 8
<1> DEFINE high == IF n < 0 THEN -1 ELSE 0
<1>1. high \in Int
  OBVIOUS
<1> HIDE DEF high
<1>2. /\ Le32(n) \in Seq(Byte) /\ Len(Le32(n)) = 4
      /\ Le32(high) \in Seq(Byte) /\ Len(Le32(high)) = 4
  BY <1>1, Le32Bytes
<1>3. Le64(n) = Le32(n) \o Le32(high)
  BY DEF Le64, high
<1>4. Le64(n) \in Seq(Byte) /\ Len(Le64(n)) = Len(Le32(n)) + Len(Le32(high))
  BY <1>2, <1>3, ConcatLen, Zenon
<1> QED
  BY <1>2, <1>4

\* A string is its length and as many bytes, a null string only its length.
LEMMA StringBytesLen ==
    ASSUME NEW len \in Recorded
    PROVE  /\ StringBytes(len) \in Seq(Byte)
           /\ Len(StringBytes(len)) = 4 + IF len = Null THEN 0 ELSE len
<1> DEFINE n == IF len = Null THEN 0 ELSE len
<1>1. n \in 0 .. Len(Content) /\ len \in Int \cup {Null}
  BY ContentFacts DEF Recorded
<1>2. StringBytes(len) = Le32(len) \o SubSeq(Content, 1, n)
  BY DEF StringBytes
<1> HIDE DEF n
<1>3. SubSeq(Content, 1, n) \in Seq(Byte) /\ Len(SubSeq(Content, 1, n)) = n
  BY <1>1, ContentFacts
<1>4. Le32(len) \in Seq(Byte) /\ Len(Le32(len)) = 4
  BY <1>1, Le32Bytes
<1>5. StringBytes(len) \in Seq(Byte) /\ Len(StringBytes(len)) = 4 + n
  BY <1>2, <1>3, <1>4, ConcatLen, Zenon
<1> QED
  BY <1>5 DEF n

LEMMA ArgBytesLen ==
    ASSUME NEW type \in WireType, NEW v, type \notin String => v \in Int, NEW len \in Recorded
    PROVE  /\ ArgBytes(type, v, len) \in Seq(Byte)
           /\ Len(ArgBytes(type, v, len)) = Size(type, len)
           /\ Size(type, len) \in Nat
<1>1. CASE type \in {"word", "pointer"}
  <2>1. ArgBytes(type, v, len) = Le32(v) /\ Size(type, len) = 4
    BY <1>1 DEF ArgBytes, Size, String
  <2>2. v \in Int \cup {Null}
    BY <1>1 DEF String
  <2> QED
    BY <2>1, <2>2, Le32Bytes
<1>2. CASE type = "dword"
  <2>1. ArgBytes(type, v, len) = Le64(v) /\ Size(type, len) = 8
    BY <1>2 DEF ArgBytes, Size, String
  <2>2. v \in Int
    BY <1>2 DEF String
  <2> QED
    BY <2>1, <2>2, Le64Bytes
<1>3. CASE type \in String
  <2>1. /\ ArgBytes(type, v, len) = StringBytes(len)
        /\ Size(type, len) = 4 + IF len = Null THEN 0 ELSE len
    BY <1>3 DEF ArgBytes, Size, String
  <2>2. Size(type, len) \in Nat
    BY <2>1, ContentFacts DEF Recorded
  <2> QED
    BY <2>1, <2>2, StringBytesLen
<1> QED
  BY <1>1, <1>2, <1>3 DEF WireType, String

LEMMA InlineBytesLen ==
    ASSUME NEW c, c.inline \in Recorded
    PROVE  /\ InlineBytes(c) \in Seq(Byte)
           /\ Len(InlineBytes(c)) = InlineSize(c)
           /\ InlineSize(c) \in Nat
<1>1. CASE c.inline = Null
  BY <1>1 DEF InlineBytes, InlineSize
<1>2. CASE c.inline # Null
  <2> DEFINE n == InlineLen(c, MaxStr)
  <2>1. n \in 0 .. Len(Content) /\ n # Null
    BY <1>2, ContentFacts DEF InlineLen, Smaller, Recorded
  <2>2. InlineBytes(c) = StringBytes(n) /\ InlineSize(c) = 4 + n
    BY <1>2 DEF InlineBytes, InlineSize
  <2> HIDE DEF n
  <2>3. StringBytes(n) \in Seq(Byte) /\ Len(StringBytes(n)) = 4 + n
    BY <2>1, StringBytesLen DEF Recorded
  <2> QED
    BY <2>1, <2>2, <2>3
<1> QED
  BY <1>1, <1>2

\* on9log_measure_payload, one argument after the other.
Indices(l) == [i \in DOMAIN l |-> i]

MeasureStep(c, l) ==
    [at \in (1 .. Len(Indices(l))) \X Nat |->
       at[2] + Size(c.types[Indices(l)[at[1]]], l[Indices(l)[at[1]]])]

MeasureRun(t, c, l, N) ==
    /\ t \in [1 .. N + 1 -> Nat]
    /\ t[1] = InlineSize(c) + 1 + N
    /\ \A n \in 1 .. N : t[n + 1] = t[n] + Size(c.types[n], l[n])
    /\ Measured(c, l) = t[N + 1]

LEMMA MeasureRuns ==
    ASSUME NEW c, NEW N \in Nat, NEW l \in [1 .. N -> Recorded],
           \A i \in 1 .. N : Size(c.types[i], l[i]) \in Nat, InlineSize(c) \in Nat
    PROVE  \E t : MeasureRun(t, c, l, N)
<1> DEFINE step == MeasureStep(c, l)
           start == InlineSize(c) + 1 + N
<1>0. start \in Nat /\ Len(l) = N /\ DOMAIN l = 1 .. N
  BY FunctionIsSeq
<1>a. Len(Indices(l)) = N /\ \A n \in 1 .. N : Indices(l)[n] = n
  <2>1. Indices(l) \in [1 .. N -> Nat] /\ \A n \in 1 .. N : Indices(l)[n] = n
    BY <1>0 DEF Indices
  <2> QED
    BY <2>1, FunctionIsSeq
<1>1. step = [at \in (1 .. N) \X Nat |->
                  at[2] + Size(c.types[Indices(l)[at[1]]], l[Indices(l)[at[1]]])]
  BY <1>a DEF MeasureStep
<1>2. ASSUME NEW n \in 1 .. N, NEW total \in Nat
      PROVE  step[<<n, total>>] = total + Size(c.types[n], l[n])
  <2>1. step[<<n, total>>] = total + Size(c.types[Indices(l)[n]], l[Indices(l)[n]])
    BY <1>1
  <2> QED
    BY <1>a, <2>1
<1>3. step \in [(1 .. N) \X Nat -> Nat]
  <2>1. ASSUME NEW at \in (1 .. N) \X Nat
        PROVE  at[2] + Size(c.types[Indices(l)[at[1]]], l[Indices(l)[at[1]]]) \in Nat
    <3>1. at[1] \in 1 .. N /\ at[2] \in Nat /\ Indices(l)[at[1]] = at[1]
      BY <1>a
    <3> QED
      BY <3>1
  <2> HIDE DEF step
  <2> QED
    BY <1>1, <2>1
<1>4. Measured(c, l) = Run(step, Nat, start, N)
  <2>1. Measured(c, l) = Run(MeasureStep(c, l), Nat, InlineSize(c) + 1 + Len(l), Len(Indices(l)))
    BY DEF Measured, Read, MeasureStep, Indices
  <2> QED
    BY <1>0, <1>a, <2>1
<1> HIDE DEF step, start
<1>5. PICK t : RunOf(t, step, start, N, Nat) /\ Run(step, Nat, start, N) = t[N + 1]
  <2> DEFINE S == Nat
  <2>1. start \in S /\ step \in [(1 .. N) \X S -> S]
    BY <1>0, <1>3
  <2> HIDE DEF S
  <2>2. \E t : RunOf(t, step, start, N, S) /\ Run(step, S, start, N) = t[N + 1]
    BY <2>1, RunYields DEF Yields
  <2> QED
    BY <2>2 DEF S
<1>6. ASSUME NEW n \in 1 .. N PROVE step[<<n, t[n]>>] = t[n] + Size(c.types[n], l[n])
  <2>1. n \in 1 .. N + 1
    OBVIOUS
  <2>2. t[n] \in Nat
    BY <1>5, <2>1, Zenon DEF RunOf
  <2> QED
    BY <1>2, <2>2, Zenon
<1>10. /\ t \in [1 .. N + 1 -> Nat] /\ t[1] = start /\ Measured(c, l) = t[N + 1]
       /\ \A n \in 1 .. N : t[n + 1] = t[n] + Size(c.types[n], l[n])
  BY <1>4, <1>5, <1>6, Zenon DEF RunOf
<1> QED
  BY <1>10 DEF start, MeasureRun

\* Both passes go through the arguments in step.
LEMMA PassesAgree ==
    ASSUME NEW c, NEW v, NEW l, Passed(c, v, l)
    PROVE  /\ Payload(c, v, l) \in Seq(Int)
           /\ Len(Payload(c, v, l)) = Measured(c, l)
<1> DEFINE N == Len(c.types)
           args == [i \in DOMAIN v |-> ArgBytes(c.types[i], v[i], l[i])]
           codes == [i \in DOMAIN v |-> TypeCode(c.types[i])]
<1>1. /\ N \in Nat /\ DOMAIN v = 1 .. N /\ c.inline \in Recorded
      /\ v \in [1 .. N -> Int \cup {Null}] /\ l \in [1 .. N -> Recorded]
  BY DEF Passed
<1>2. ASSUME NEW i \in 1 .. N
      PROVE  /\ ArgBytes(c.types[i], v[i], l[i]) \in Seq(Byte)
             /\ Len(ArgBytes(c.types[i], v[i], l[i])) = Size(c.types[i], l[i])
             /\ Size(c.types[i], l[i]) \in Nat
  <2>1. c.types[i] \in WireType /\ l[i] \in Recorded /\ (c.types[i] \notin String => v[i] \in Int)
    BY DEF Passed
  <2> QED
    BY <2>1, ArgBytesLen
<1>3. args \in Seq(Seq(Byte)) /\ Len(args) = N
  <2>1. args \in [1 .. N -> Seq(Byte)]
    BY <1>1, <1>2
  <2> HIDE DEF args
  <2> QED
    BY <1>1, <2>1, FunctionIsSeq
<1>4. codes \in Seq(Int) /\ Len(codes) = N
  <2>1. \A i \in 1 .. N : c.types[i] \in WireType
    BY DEF Passed
  <2>2. \A i \in 1 .. N : TypeCode(c.types[i]) \in Int
    BY <2>1 DEF TypeCode, WireType
  <2>3. codes \in [1 .. N -> Int]
    BY <1>1, <2>2
  <2> HIDE DEF codes
  <2> QED
    BY <1>1, <2>3, FunctionIsSeq
<1>5. \A i \in 1 .. N : args[i] = ArgBytes(c.types[i], v[i], l[i])
  BY <1>1
<1>6. InlineBytes(c) \in Seq(Byte) /\ Len(InlineBytes(c)) = InlineSize(c) /\ InlineSize(c) \in Nat
  BY <1>1, InlineBytesLen
<1>7. Payload(c, v, l) = InlineBytes(c) \o <<Len(v)>> \o codes \o Join(args)
  BY DEF Payload
<1>8. Len(v) = N
  BY <1>1, FunctionIsSeq
<1> HIDE DEF args, codes, N
<1>9. PICK j \in [1 .. N + 1 -> Seq(Byte)] :
         j[1] = <<>> /\ (\A n \in 1 .. N : j[n + 1] = j[n] \o args[n]) /\ Join(args) = j[N + 1]
  BY <1>3, JoinRuns
<1>a. PICK m : MeasureRun(m, c, l, N)
  <2>1. \A i \in 1 .. N : Size(c.types[i], l[i]) \in Nat
    BY <1>2
  <2> QED
    BY <1>1, <1>6, <2>1, MeasureRuns
<1>10. /\ m \in [1 .. N + 1 -> Nat]
       /\ m[1] = InlineSize(c) + 1 + N
       /\ \A n \in 1 .. N : m[n + 1] = m[n] + Size(c.types[n], l[n])
       /\ Measured(c, l) = m[N + 1]
  BY <1>a DEF MeasureRun
<1>11. ASSUME NEW n \in 1 .. N PROVE Len(j[n + 1]) = Len(j[n]) + Size(c.types[n], l[n])
  <2>1. j[n] \in Seq(Byte)
    BY <1>1
  <2>2. args[n] \in Seq(Byte) /\ Len(args[n]) = Size(c.types[n], l[n])
    BY <1>2, <1>5
  <2>3. Len(j[n] \o args[n]) = Len(j[n]) + Len(args[n])
    BY <2>1, <2>2, ConcatLen
  <2> QED
    BY <1>9, <2>2, <2>3
<1> DEFINE T == {k \in Nat : k <= N => m[k + 1] = m[1] + Len(j[k + 1])}
<1>12. N \in T
  <2>1. 0 \in T
    <3>1. Len(j[1]) = 0 /\ m[1] \in Nat
      BY <1>1, <1>9, <1>10, SMTT(40)
    <3> QED
      BY <3>1
  <2>2. ASSUME NEW k \in Nat, k \in T PROVE k + 1 \in T
    <3>1. SUFFICES ASSUME k + 1 <= N PROVE m[(k + 1) + 1] = m[1] + Len(j[(k + 1) + 1])
      OBVIOUS
    <3>2. k + 1 \in 1 .. N
      BY <1>1, <3>1
    <3>3. m[k + 1] = m[1] + Len(j[k + 1])
      BY <1>1, <2>2, <3>1
    <3>4. /\ m[(k + 1) + 1] = m[k + 1] + Size(c.types[k + 1], l[k + 1])
          /\ Len(j[(k + 1) + 1]) = Len(j[k + 1]) + Size(c.types[k + 1], l[k + 1])
      BY <1>10, <1>11, <3>2, Zenon
    <3>5. /\ Len(j[k + 1]) \in Nat /\ m[1] \in Nat /\ Size(c.types[k + 1], l[k + 1]) \in Nat
      <4>1. k + 1 \in 1 .. N + 1 /\ 1 \in 1 .. N + 1
        BY <1>1, <3>2
      <4> QED
        BY <1>2, <1>9, <1>10, <3>2, <4>1
    <3> QED
      BY <3>3, <3>4, <3>5
  <2> HIDE DEF T
  <2> QED
    BY <1>1, <2>1, <2>2, SetInduction
<1>13. Measured(c, l) = InlineSize(c) + 1 + N + Len(Join(args))
  BY <1>1, <1>9, <1>10, <1>12
<1>14. Join(args) \in Seq(Int) /\ InlineBytes(c) \in Seq(Int) /\ <<Len(v)>> \in Seq(Int)
  <2>1. Join(args) \in Seq(Byte)
    BY <1>1, <1>9
  <2>2. ASSUME NEW s \in Seq(Byte) PROVE s \in Seq(Int)
    <3>1. Len(s) \in Nat /\ s \in [1 .. Len(s) -> Byte]
      OBVIOUS
    <3>2. \A b \in Byte : b \in Int
      BY DEF Byte
    <3>3. s \in [1 .. Len(s) -> Int]
      BY <3>1, <3>2
    <3> QED
      BY <3>1, <3>3, FunctionIsSeq
  <2> QED
    BY <1>1, <1>6, <1>8, <2>1, <2>2
<1>15. /\ InlineBytes(c) \o <<Len(v)>> \in Seq(Int)
       /\ Len(InlineBytes(c) \o <<Len(v)>>) = InlineSize(c) + 1
  BY <1>6, <1>14, ConcatLen
<1>16. /\ InlineBytes(c) \o <<Len(v)>> \o codes \in Seq(Int)
       /\ Len(InlineBytes(c) \o <<Len(v)>> \o codes) = InlineSize(c) + 1 + N
  BY <1>4, <1>15, ConcatLen, Zenon
<1>17. /\ Payload(c, v, l) \in Seq(Int)
       /\ Len(Payload(c, v, l)) = (InlineSize(c) + 1 + N) + Len(Join(args))
  BY <1>7, <1>14, <1>16, ConcatLen, Zenon
<1> QED
  BY <1>13, <1>17

-----------------------------------------------------------------------------
(***************************************************************************)
(* From there to the header of every packet.                               *)
(***************************************************************************)
\* What a call's first pass leaves behind, and its second pass finds.
MeasuredInv ==
    call # NoCall =>
       /\ Passed(call, value, lens)
       /\ length = Measured(call, lens)
       /\ length <= PayloadMax

Right(packet) ==
    packet[1] + 256 * packet[2] = Len(packet) - 2 /\ Len(packet) - 2 <= PayloadMax

SentInv ==
    /\ sent \in Seq([packet : Seq(Int), whole : BOOLEAN])
    /\ \A i \in 1 .. Len(sent) : Right(sent[i].packet)

LengthInv == MeasuredInv /\ SentInv

\* The arguments of a call are what its types say.
LEMMA ArgumentsArePassed ==
    ASSUME NEW c \in Call, NEW v \in Arguments(c)
    PROVE  Passed(c, v, Lens(c, v))
<1> DEFINE N == Len(c.types)
<1>1. /\ c.types \in Seq(WireType) /\ N \in Nat /\ c.inline \in Recorded
      /\ c.passed \in Seq(SUBSET (Int \cup {Null})) /\ Len(c.passed) = N
      /\ \A i \in DOMAIN c.types :
            c.passed[i] \subseteq IF c.types[i] \in String THEN StrLen \cup {Null} ELSE Int
  BY WireAssumption DEF Recorded
<1>2. DOMAIN c.types = 1 .. N /\ DOMAIN c.passed = 1 .. N
  BY <1>1
<1>3. /\ v = [i \in 1 .. N |-> v[i]]
      /\ \A i \in 1 .. N : v[i] \in c.passed[i]
  BY <1>2 DEF Arguments
<1>4. \A i \in 1 .. N : v[i] \in IF c.types[i] \in String THEN StrLen \cup {Null} ELSE Int
  BY <1>1, <1>2, <1>3
<1>5. \A n \in StrLen : n \in 0 .. Len(Content)
  BY WireAssumption
<1>6. v \in [1 .. N -> Int \cup {Null}]
  <2>1. \A i \in 1 .. N : v[i] \in Int \cup {Null}
    BY <1>4, <1>5
  <2> HIDE DEF N
  <2> QED
    BY <1>3, <2>1
<1>7. ASSUME NEW i \in 1 .. N
      PROVE  Lens(c, v)[i] \in Recorded
  <2>1. Lens(c, v)[i] = IF c.types[i] \in String THEN CopyLen(v[i], Precision(c, v, i)) ELSE 0
    BY <1>6 DEF Lens
  <2>2. CASE c.types[i] \notin String
    BY <2>1, <2>2, ContentFacts DEF Recorded
  <2>3. CASE c.types[i] \in String
    <3>1. v[i] = Null \/ v[i] \in 0 .. Len(Content)
      BY <1>4, <1>5, <2>3
    <3>2. Precision(c, v, i) \in Int
      <4>1. CASE i > 1 /\ c.types[i - 1] = "word"
        <5>1. i - 1 \in 1 .. N
          BY <1>1, <4>1
        <5>2. v[i - 1] \in Int
          BY <1>4, <4>1, <5>1 DEF String
        <5> QED
          BY <5>2 DEF Precision
      <4>2. CASE ~(i > 1 /\ c.types[i - 1] = "word")
        BY <4>2 DEF Precision
      <4> QED
        BY <4>1, <4>2
    <3>3. CopyLen(v[i], Precision(c, v, i)) \in Recorded
      BY <3>1, <3>2, ContentFacts DEF CopyLen, Smaller, Recorded
    <3> QED
      BY <2>1, <2>3, <3>3
  <2> QED
    BY <2>2, <2>3
<1>8. Lens(c, v) \in [1 .. N -> Recorded]
  <2>1. Lens(c, v) = [i \in 1 .. N |-> Lens(c, v)[i]]
    BY <1>6 DEF Lens
  <2> HIDE DEF N
  <2> QED
    BY <1>7, <2>1
<1>9. \A i \in 1 .. N : c.types[i] \notin String => v[i] \in Int
  BY <1>4
<1> QED
  BY <1>1, <1>6, <1>8, <1>9 DEF Passed

\* A header that says the length of what follows.
LEMMA HeaderIsRight ==
    ASSUME NEW n \in Nat, n <= PayloadMax, NEW body \in Seq(Int), Len(body) = n
    PROVE  Le16(n) \o body \in Seq(Int) /\ Right(Le16(n) \o body)
<1> DEFINE low == n % 256
           high == (n \div 256) % 256
           packet == <<low, high>> \o body
<1>1. low \in Int /\ high \in Int /\ low + 256 * high = n
  BY ContentFacts
<1> HIDE DEF low, high
<1>2. <<low, high>> \in Seq(Int) /\ Len(<<low, high>>) = 2
  BY <1>1
<1>3. packet \in Seq(Int) /\ Len(packet) = 2 + n /\ packet[1] = low /\ packet[2] = high
  BY <1>1, <1>2
<1> HIDE DEF packet
<1>4. Right(packet)
  BY <1>1, <1>3 DEF Right
<1>5. Le16(n) \o body = packet
  BY DEF Le16, packet, low, high
<1> QED
  BY <1>3, <1>4, <1>5

\* The packet that reaches the sink.
LEMMA PacketIsRight ==
    ASSUME MeasuredInv, call # NoCall
    PROVE  Packet \in Seq(Int) /\ Right(Packet)
<1>1. /\ Passed(call, value, lens) /\ length = Measured(call, lens) /\ length <= PayloadMax
  BY DEF MeasuredInv
<1>2. /\ Payload(call, value, lens) \in Seq(Int)
      /\ Len(Payload(call, value, lens)) = length
  BY <1>1, PassesAgree
<1>3. length \in Nat
  BY <1>2
<1> QED
  BY <1>1, <1>2, <1>3, HeaderIsRight DEF Packet

LEMMA EmittedKeepsLength ==
    ASSUME LengthInv, call # NoCall, NEW bytes, NEW whole \in BOOLEAN, Emitted(bytes, whole)
    PROVE  LengthInv'
<1> DEFINE item == [packet |-> Packet, whole |-> whole]
<1>1. item \in [packet : Seq(Int), whole : BOOLEAN] /\ Right(item.packet)
  BY PacketIsRight DEF LengthInv
<1>2. sent' = Append(sent, item) /\ call' = NoCall
  BY DEF Emitted
<1> HIDE DEF item
<1>3. sent \in Seq([packet : Seq(Int), whole : BOOLEAN])
  BY DEF LengthInv, SentInv
<1>4. /\ sent' \in Seq([packet : Seq(Int), whole : BOOLEAN]) /\ Len(sent') = Len(sent) + 1
      /\ sent'[Len(sent) + 1] = item
      /\ \A i \in 1 .. Len(sent) : sent'[i] = sent[i]
  BY <1>1, <1>2, <1>3
<1>5. ASSUME NEW i \in 1 .. Len(sent') PROVE Right(sent'[i].packet)
  <2>1. i \in 1 .. Len(sent) \/ i = Len(sent) + 1
    BY <1>3, <1>4
  <2> QED
    BY <1>1, <1>4, <2>1 DEF LengthInv, SentInv
<1>6. SentInv'
  BY <1>4, <1>5 DEF SentInv, Right
<1> QED
  BY <1>2, <1>6 DEF LengthInv, MeasuredInv

LEMMA LengthStep ==
    ASSUME LengthInv, [Next]_vars
    PROVE  LengthInv'
<1>1. ASSUME NEW c \in Call, NEW v \in Arguments(c), Measure(c, v)
      PROVE  LengthInv'
  <2>1. Passed(c, v, Lens(c, v)) /\ Measured(c, Lens(c, v)) <= PayloadMax
    BY <1>1, ArgumentsArePassed DEF Measure, Fits
  <2>2. /\ call' = c /\ value' = v /\ lens' = Lens(c, v) /\ length' = Measured(c, Lens(c, v))
        /\ sent' = sent
    BY <1>1 DEF Measure
  <2>3. MeasuredInv'
    BY <2>1, <2>2 DEF MeasuredInv
  <2> QED
    BY <2>2, <2>3 DEF LengthInv, SentInv, Right
<1>2. ASSUME NEW i \in DOMAIN value, NEW n \in StrLen, Change(i, n)
      PROVE  LengthInv'
  <2>1. /\ UNCHANGED <<call, lens, length, sent>> /\ value' = [value EXCEPT ![i] = n]
        /\ call.types[i] = "string"
    BY <1>2 DEF Change
  <2>2. ASSUME call # NoCall PROVE Passed(call, value', lens)
    <3>1. Passed(call, value, lens)
      BY <2>2 DEF LengthInv, MeasuredInv
    <3>2. n \in Int
      BY WireAssumption
    <3>3. value' \in [1 .. Len(call.types) -> Int \cup {Null}]
      BY <2>1, <3>1, <3>2 DEF Passed
    <3>4. ASSUME NEW k \in 1 .. Len(call.types), call.types[k] \notin String
          PROVE  value'[k] \in Int
      <4>1. k # i
        BY <2>1, <3>4 DEF String
      <4> QED
        BY <2>1, <3>1, <3>4, <4>1 DEF Passed
    <3> QED
      BY <3>1, <3>3, <3>4 DEF Passed
  <2>3. MeasuredInv'
    BY <2>1, <2>2 DEF LengthInv, MeasuredInv
  <2> QED
    BY <2>1, <2>3 DEF LengthInv, SentInv, Right
<1>3. CASE Emit
  BY <1>3, EmittedKeepsLength DEF Emit
<1>4. CASE EmitFails
  BY <1>4, EmittedKeepsLength DEF EmitFails
<1>5. CASE EmitTooLong
  BY <1>5 DEF EmitTooLong, LengthInv, MeasuredInv, SentInv, Right
<1>6. CASE UNCHANGED vars
  BY <1>6 DEF vars, LengthInv, MeasuredInv, SentInv, Right
<1> QED
  BY <1>1, <1>2, <1>3, <1>4, <1>5, <1>6 DEF Next, Finished

(***************************************************************************)
(* LengthIsRight, for any calls, arguments and limits: a string that       *)
(* another task changes while it is being logged does not make the header  *)
(* lie, because emission goes by the recorded lengths.                     *)
(***************************************************************************)
THEOREM HeadersAreRight == Spec => []LengthIsRight
<1>1. Init => LengthInv
  BY DEF Init, LengthInv, MeasuredInv, SentInv
<1>2. LengthInv /\ [Next]_vars => LengthInv'
  BY LengthStep
<1>3. LengthInv => LengthIsRight
  BY DEF LengthInv, SentInv, LengthIsRight, Right
<1> QED
  BY <1>1, <1>2, <1>3, PTL DEF Spec

-----------------------------------------------------------------------------
(***************************************************************************)
(* The line.  A frame that is written whole leaves the decoder idle, so    *)
(* the next whole one arrives; only a frame after a damaged one may find   *)
(* the decoder in the middle of another and be lost with it.               *)
(***************************************************************************)
LastWhole(packets) == packets = <<>> \/ packets[Len(packets)].whole

LineType ==
    /\ port \in {"esp", "unix"}
    /\ rx \in Decoder
    /\ sent \in Seq([packet : Seq(Byte), whole : BOOLEAN])
    /\ call # NoCall => Len(call.types) <= MaskBits

LineInv ==
    /\ LengthInv
    /\ LineType
    /\ LastWhole(sent) => rx.mode = "text"

LEMMA PayloadBytes ==
    ASSUME NEW c, NEW v, NEW l, Passed(c, v, l), Len(c.types) <= MaskBits
    PROVE  Payload(c, v, l) \in Seq(Byte)
<1> DEFINE N == Len(c.types)
           args == [i \in DOMAIN v |-> ArgBytes(c.types[i], v[i], l[i])]
           codes == [i \in DOMAIN v |-> TypeCode(c.types[i])]
           count == <<Len(v)>>
<1>1. /\ N \in Nat /\ DOMAIN v = 1 .. N /\ c.inline \in Recorded
      /\ v \in [1 .. N -> Int \cup {Null}]
  BY DEF Passed
<1>2. ASSUME NEW i \in 1 .. N
      PROVE  ArgBytes(c.types[i], v[i], l[i]) \in Seq(Byte) /\ TypeCode(c.types[i]) \in Byte
  <2>1. c.types[i] \in WireType /\ l[i] \in Recorded /\ (c.types[i] \notin String => v[i] \in Int)
    BY DEF Passed
  <2> DEFINE code == TypeCode(c.types[i])
  <2>2. code \in {1, 2, 3, 4, 5}
    BY <2>1 DEF TypeCode, WireType
  <2> HIDE DEF code
  <2>3. code \in Byte
    BY <2>2, ByteIs
  <2> QED
    BY <2>1, <2>3, ArgBytesLen DEF code
<1>3. args \in Seq(Seq(Byte))
  <2>1. args \in [1 .. N -> Seq(Byte)]
    BY <1>1, <1>2
  <2> HIDE DEF args
  <2> QED
    BY <1>1, <2>1, FunctionIsSeq
<1>4. codes \in Seq(Byte)
  <2>1. codes \in [1 .. N -> Byte]
    BY <1>1, <1>2
  <2> HIDE DEF codes
  <2> QED
    BY <1>1, <2>1, FunctionIsSeq
<1>5. count \in Seq(Byte)
  <2> DEFINE n == Len(v)
  <2>1. n = N
    BY <1>1, FunctionIsSeq
  <2> HIDE DEF n
  <2>2. n \in Byte
    BY <1>1, <2>1, ByteIs, MaskAssumption
  <2>3. <<n>> \in Seq(Byte)
    BY <2>2
  <2> QED
    BY <2>3 DEF n
<1>6. Join(args) \in Seq(Byte) /\ InlineBytes(c) \in Seq(Byte)
  BY <1>1, <1>3, JoinType, InlineBytesLen
<1>7. Payload(c, v, l) = InlineBytes(c) \o count \o codes \o Join(args)
  BY DEF Payload
<1> HIDE DEF args, codes, count
<1>8. InlineBytes(c) \o count \in Seq(Byte)
  BY <1>5, <1>6, ConcatLen
<1>9. (InlineBytes(c) \o count) \o codes \in Seq(Byte)
  BY <1>4, <1>8, ConcatLen
<1>10. ((InlineBytes(c) \o count) \o codes) \o Join(args) \in Seq(Byte)
  BY <1>6, <1>9, ConcatLen
<1> QED
  BY <1>7, <1>10

LEMMA PacketBytes ==
    ASSUME LineInv, call # NoCall
    PROVE  Packet \in Seq(Byte)
<1>1. Passed(call, value, lens) /\ Len(call.types) <= MaskBits
  BY DEF LineInv, LineType, LengthInv, MeasuredInv
<1>2. Payload(call, value, lens) \in Seq(Byte)
  BY <1>1, PayloadBytes
<1>3. length \in Nat
  BY <1>1, PassesAgree DEF LineInv, LengthInv, MeasuredInv
<1>4. Le16(length) \in Seq(Byte)
  <2> DEFINE low == length % 256
             high == (length \div 256) % 256
  <2>1. low \in Int /\ 0 <= low /\ low <= 255 /\ high \in Int /\ 0 <= high /\ high <= 255
    BY <1>3
  <2>2. Le16(length) = <<low, high>>
    BY DEF Le16
  <2> HIDE DEF low, high
  <2>3. low \in Byte /\ high \in Byte
    BY <2>1, ByteIs
  <2> QED
    BY <2>2, <2>3
<1> QED
  BY <1>2, <1>4, ConcatLen DEF Packet

\* What the writes of a packet's frame are together, on either transport.
LEMMA WritesFrame ==
    ASSUME port \in {"esp", "unix"}, NEW packet \in Seq(Byte)
    PROVE  /\ Writes(packet) \in Seq(Seq(Byte))
           /\ Join(Writes(packet)) = UnixFrame(Binary, packet)
           /\ UnixFrame(Binary, packet) \in Seq(Byte)
           /\ UnixFrame(Binary, packet) = Enclosed(<<Binary>> \o packet, Crc(<<Binary>> \o packet))
           /\ <<Binary>> \o packet \in Seq(Byte) /\ Len(<<Binary>> \o packet) >= 1
<1>1. Binary \in Byte
  BY ByteIs DEF Binary
<1> DEFINE body == <<Binary>> \o packet
           frame == UnixFrame(Binary, packet)
<1>2. body \in Seq(Byte) /\ Len(body) >= 1
  BY <1>1
<1>3. frame = Enclosed(body, Crc(body))
  BY DEF UnixFrame, Crc
<1>4. frame \in Seq(Byte)
  <2> HIDE DEF body, frame
  <2>1. Crc(body) \in Word16
    BY <1>2, CrcReads
  <2> QED
    BY <1>2, <1>3, <2>1, EnclosedType
<1> HIDE DEF body, frame
<1>5. CASE port = "esp"
  <2>1. Writes(packet) = EspFrame(Binary, packet)
    BY <1>5 DEF Writes
  <2>2. EspFrame(Binary, packet) \in Seq(Seq(Byte)) /\ Join(EspFrame(Binary, packet)) = UnixFrame(Binary, packet)
    BY <1>1, FramesAreTheSame
  <2> QED
    BY <1>2, <1>3, <1>4, <2>1, <2>2 DEF body, frame
<1>6. CASE port = "unix"
  <2>1. Writes(packet) = <<frame>>
    BY <1>6 DEF Writes, frame
  <2>2. <<>> \in Seq(Seq(Byte)) /\ <<frame>> = Append(<<>>, frame) /\ <<frame>> \in Seq(Seq(Byte))
        /\ <<>> \o frame = frame
    BY <1>4
  <2>3. Join(<<frame>>) = frame
    BY <1>4, <2>2, JoinAppend, JoinEmpty
  <2> QED
    BY <1>2, <1>3, <1>4, <2>1, <2>2, <2>3 DEF body, frame
<1> QED
  BY <1>5, <1>6

LEMMA CutBytes ==
    ASSUME NEW writes \in Seq(Seq(Byte)), NEW i \in DOMAIN writes, NEW k \in 0 .. Len(writes[i]) - 1
    PROVE  Cut(writes, i, k) \in Seq(Seq(Byte)) /\ Join(Cut(writes, i, k)) \in Seq(Byte)
<1>1. writes[i] \in Seq(Byte) /\ SubSeq(writes[i], 1, k) \in Seq(Byte)
  OBVIOUS
<1>2. Cut(writes, i, k) \in Seq(Seq(Byte))
  BY <1>1 DEF Cut
<1> QED
  BY <1>2, JoinType

\* A step of Emit, and of EmitFails.
LEMMA EmitReads ==
    ASSUME LineInv, Emit
    PROVE  /\ Packet \in Seq(Byte)
           /\ rx' \in Decoder /\ rx'.mode = "text"
           /\ rx'.frames = IF rx.mode = "text" THEN Append(rx.frames, <<Binary>> \o Packet) ELSE rx.frames
           /\ sent' = Append(sent, [packet |-> Packet, whole |-> TRUE])
           /\ call' = NoCall /\ port' = port
<1>1. Packet \in Seq(Byte)
  BY PacketBytes DEF Emit
<1>2. /\ rx' = Decode(rx, Join(Writes(Packet)))
      /\ sent' = Append(sent, [packet |-> Packet, whole |-> TRUE])
      /\ call' = NoCall /\ port' = port
  BY DEF Emit, Emitted
<1>3. port \in {"esp", "unix"} /\ rx \in Decoder
  BY DEF LineInv, LineType
<1> DEFINE packet == Packet
           body == <<Binary>> \o packet
<1> HIDE DEF packet
<1>4. /\ Join(Writes(packet)) = Enclosed(body, Crc(body)) /\ Join(Writes(packet)) \in Seq(Byte)
      /\ body \in Seq(Byte) /\ Len(body) >= 1
  BY <1>1, <1>3, WritesFrame DEF packet
<1> HIDE DEF body
<1>5. /\ Decode(rx, Enclosed(body, Crc(body))).mode = "text"
      /\ Decode(rx, Enclosed(body, Crc(body))).frames =
           IF rx.mode = "text" THEN Append(rx.frames, body) ELSE rx.frames
  BY <1>3, <1>4, DecodeFrame
<1>6. rx' \in Decoder
  BY <1>2, <1>3, <1>4, DecodeType DEF packet
<1> QED
  BY <1>1, <1>2, <1>4, <1>5, <1>6 DEF packet, body

LEMMA EmitFailsReads ==
    ASSUME LineInv, EmitFails
    PROVE  /\ Packet \in Seq(Byte)
           /\ rx' \in Decoder
           /\ port = "unix" => rx'.frames = rx.frames
           /\ sent' = Append(sent, [packet |-> Packet, whole |-> FALSE])
           /\ call' = NoCall /\ port' = port
<1>1. Packet \in Seq(Byte)
  BY PacketBytes DEF EmitFails
<1> DEFINE packet == Packet
           writes == Writes(packet)
           frame == UnixFrame(Binary, packet)
           body == <<Binary>> \o packet
<1>a. PICK i \in DOMAIN writes :
         \E k \in 0 .. Len(writes[i]) - 1 : Emitted(Join(Cut(writes, i, k)), FALSE)
  BY DEF EmitFails
<1>2. PICK k \in 0 .. Len(writes[i]) - 1 : Emitted(Join(Cut(writes, i, k)), FALSE)
  BY <1>a
<1> DEFINE bytes == Join(Cut(writes, i, k))
<1>3. /\ rx' = Decode(rx, bytes)
      /\ sent' = Append(sent, [packet |-> Packet, whole |-> FALSE])
      /\ call' = NoCall /\ port' = port
  BY <1>2 DEF Emitted
<1>4. port \in {"esp", "unix"} /\ rx \in Decoder
  BY DEF LineInv, LineType
<1> HIDE DEF packet
<1>5. /\ writes \in Seq(Seq(Byte)) /\ frame \in Seq(Byte) /\ frame = Enclosed(body, Crc(body))
      /\ body \in Seq(Byte)
  BY <1>1, <1>4, WritesFrame DEF packet
<1>6. port = "unix" => writes = <<frame>>
  BY DEF Writes
<1> HIDE DEF writes, frame, body
<1>7. bytes \in Seq(Byte)
  BY <1>5, CutBytes
<1>8. rx' \in Decoder
  BY <1>3, <1>4, <1>7, DecodeType
<1>9. ASSUME port = "unix" PROVE rx'.frames = rx.frames
  <2>1. writes = <<frame>> /\ i = 1 /\ k \in 0 .. Len(frame) - 1
    BY <1>6, <1>9
  <2> DEFINE part == SubSeq(frame, 1, k)
  <2>2. /\ part \in Seq(Byte) /\ Len(part) = k
        /\ \A j \in 1 .. k : part[j] = frame[j] /\ j \in 1 .. Len(frame) - 1
    BY <1>5, <2>1
  <2>3. Cut(writes, i, k) = <<part>>
    BY <2>1 DEF Cut
  <2> HIDE DEF part
  <2>4. <<>> \in Seq(Seq(Byte)) /\ <<part>> = Append(<<>>, part) /\ <<>> \o part = part
    BY <2>2
  <2>5. bytes = part
    BY <2>2, <2>3, <2>4, JoinAppend, JoinEmpty
  <2>6. Crc(body) \in Word16
    BY <1>5, CrcReads
  <2>7. \A j \in 1 .. Len(frame) - 1 : frame[j] # END
    BY <1>5, <2>6, OneEnd
  <2>8. \A j \in 1 .. Len(part) : part[j] # END
    BY <2>2, <2>7
  <2>9. Decode(rx, part).frames = rx.frames
    BY <1>4, <2>2, <2>8, DecodeWithoutEnd
  <2> QED
    BY <1>3, <2>5, <2>9
<1> QED
  BY <1>1, <1>3, <1>8, <1>9

\* The packets after one more.
LEMMA OneMoreSent ==
    ASSUME NEW T, NEW packets \in Seq(T), NEW item \in T, NEW more, more = Append(packets, item)
    PROVE  /\ more \in Seq(T) /\ Len(more) = Len(packets) + 1 /\ Len(packets) \in Nat
           /\ more[Len(packets) + 1] = item
           /\ \A i \in 1 .. Len(packets) : more[i] = packets[i]
           /\ more # <<>>
  OBVIOUS

LEMMA LineStep ==
    ASSUME LineInv, [Next]_vars
    PROVE  LineInv'
<1> DEFINE T == [packet : Seq(Byte), whole : BOOLEAN]
<1>0. LengthInv'
  BY LengthStep DEF LineInv
<1>1. ASSUME NEW whole \in BOOLEAN, Packet \in Seq(Byte), rx' \in Decoder, call' = NoCall, port' = port,
             sent' = Append(sent, [packet |-> Packet, whole |-> whole]), whole => rx'.mode = "text"
      PROVE  LineInv'
  <2> DEFINE item == [packet |-> Packet, whole |-> whole]
  <2>1. item \in T /\ item.whole = whole
    BY <1>1
  <2> HIDE DEF item
  <2>2. sent \in Seq(T) /\ port \in {"esp", "unix"}
    BY DEF LineInv, LineType
  <2>3. sent' = Append(sent, item)
    BY <1>1 DEF item
  <2> HIDE DEF T
  <2>4. sent' \in Seq(T) /\ sent'[Len(sent')] = item /\ sent' # <<>>
    BY <2>1, <2>2, <2>3, OneMoreSent
  <2>5. LastWhole(sent') => rx'.mode = "text"
    BY <1>1, <2>1, <2>4 DEF LastWhole
  <2>6. LineType'
    BY <1>1, <2>2, <2>4 DEF LineType, T
  <2> QED
    BY <1>0, <2>5, <2>6 DEF LineInv
<1>2. CASE Emit
  BY <1>1, <1>2, EmitReads
<1>3. CASE EmitFails
  BY <1>1, <1>3, EmitFailsReads
<1>4. ASSUME NEW c \in Call, NEW v \in Arguments(c), Measure(c, v) PROVE LineInv'
  BY <1>0, <1>4 DEF Measure, Fits, LineInv, LineType
<1>5. ASSUME NEW i \in DOMAIN value, NEW n \in StrLen, Change(i, n) PROVE LineInv'
  BY <1>0, <1>5 DEF Change, LineInv, LineType
<1>6. CASE EmitTooLong
  BY <1>0, <1>6 DEF EmitTooLong, LineInv, LineType
<1>7. CASE UNCHANGED vars
  BY <1>0, <1>7 DEF vars, LineInv, LineType
<1> QED
  BY <1>2, <1>3, <1>4, <1>5, <1>6, <1>7 DEF Next, Finished

LEMMA LineInit ==
    ASSUME Init
    PROVE  LineInv
<1>1. LengthInv
  BY DEF Init, LengthInv, MeasuredInv, SentInv
<1>2. DecodeInit \in Decoder /\ DecodeInit.mode = "text"
  BY DEF DecodeInit, Decoder
<1> QED
  BY <1>1, <1>2 DEF Init, LineInv, LineType

(***************************************************************************)
(* What the decoder makes of a frame that is written whole, by either      *)
(* transport, for any packet, strings and size of batches: the frame       *)
(* arrives with its type and packet if nothing was damaged before it, and  *)
(* if its predecessor was, it arrives or it does not, but nothing else     *)
(* arrives in its place.  After it the decoder waits for the next one.     *)
(***************************************************************************)
FrameArrives ==
    Emit => LET body == <<Binary>> \o Packet
            IN  /\ LastWhole(sent) => rx'.frames = Append(rx.frames, body)
                /\ rx'.frames \in {rx.frames, Append(rx.frames, body)}
                /\ rx'.mode = "text"

THEOREM WholeFramesArrive == Spec => [][FrameArrives]_vars
<1>1. Init => LineInv
  BY LineInit
<1>2. LineInv /\ [Next]_vars => LineInv'
  BY LineStep
<1>3. LineInv /\ [Next]_vars => [FrameArrives]_vars
  <2>1. SUFFICES ASSUME LineInv, Emit PROVE FrameArrives
    BY DEF FrameArrives
  <2>2. /\ rx'.mode = "text"
        /\ rx'.frames = IF rx.mode = "text" THEN Append(rx.frames, <<Binary>> \o Packet) ELSE rx.frames
    BY <2>1, EmitReads
  <2>3. LastWhole(sent) => rx.mode = "text"
    BY <2>1 DEF LineInv
  <2> QED
    BY <2>2, <2>3 DEF FrameArrives
<1> QED
  BY <1>1, <1>2, <1>3, PTL DEF Spec

-----------------------------------------------------------------------------
(***************************************************************************)
(* LossIsLocal on the stream of the Unix transport, where a damaged frame  *)
(* is one that was cut short.  (A frame of batches may lose one from its   *)
(* middle; whether the decoder then refuses it is up to the CRC.)          *)
(* The definitions are repeated for any sequence of packets, to speak of   *)
(* the ones before and after a step.                                       *)
(***************************************************************************)
WholeOf(packets) == {i \in DOMAIN packets : packets[i].whole}

AfterOf(packets) == {i \in WholeOf(packets) : i > 1 /\ ~packets[i - 1].whole}

Rank(S, i) == Cardinality({j \in S : j <= i})

Nth(S, n) == CHOOSE i \in S : Rank(S, i) = n

BodiesOf(packets, S) == [n \in 1 .. Cardinality(S) |-> <<Binary>> \o packets[Nth(S, n)].packet]

LocalLoss(packets, frames) ==
    \E lost \in SUBSET AfterOf(packets) : frames = BodiesOf(packets, WholeOf(packets) \ lost)

LEMMA LossIs == LossIsLocal <=> LocalLoss(sent, rx.frames)
  BY DEF LossIsLocal, LocalLoss, Bodies, BodiesOf, Nth, Rank, WholeOf, AfterOf

LEMMA LossIsNext == LossIsLocal' <=> LocalLoss(sent', rx'.frames)
  BY DEF LossIsLocal, LocalLoss, Bodies, BodiesOf, Nth, Rank, WholeOf, AfterOf

\* A largest member has the highest rank and leaves the others theirs.
LEMMA TopRank ==
    ASSUME NEW N \in Nat, NEW S \in SUBSET (1 .. N), NEW top, top = S \cup {N + 1}
    PROVE  /\ IsFiniteSet(S) /\ Cardinality(S) \in Nat /\ Cardinality(top) = Cardinality(S) + 1
           /\ \A i \in S : Rank(top, i) = Rank(S, i) /\ Rank(S, i) \in Nat /\ Rank(S, i) <= Cardinality(S)
           /\ Rank(top, N + 1) = Cardinality(S) + 1
<1>1. IsFiniteSet(1 .. N)
  BY FS_Interval
<1>2. IsFiniteSet(S) /\ Cardinality(S) \in Nat
  BY <1>1, FS_Subset, FS_CardinalityType
<1>3. N + 1 \notin S
  OBVIOUS
<1>4. Cardinality(top) = Cardinality(S) + 1
  BY <1>2, <1>3, FS_AddElement
<1>5. ASSUME NEW i \in S
      PROVE  Rank(top, i) = Rank(S, i) /\ Rank(S, i) \in Nat /\ Rank(S, i) <= Cardinality(S)
  <2>1. {j \in top : j <= i} = {j \in S : j <= i}
    OBVIOUS
  <2>2. {j \in S : j <= i} \in SUBSET S
    OBVIOUS
  <2>3. Cardinality({j \in S : j <= i}) <= Cardinality(S) /\ IsFiniteSet({j \in S : j <= i})
    BY <1>2, <2>2, FS_Subset
  <2>4. Cardinality({j \in S : j <= i}) \in Nat
    BY <2>3, FS_CardinalityType
  <2> QED
    BY <2>1, <2>3, <2>4 DEF Rank
<1>6. {j \in top : j <= N + 1} = top
  <2>1. \A j \in top : j <= N + 1
    OBVIOUS
  <2> QED
    BY <2>1
<1>7. Rank(top, N + 1) = Cardinality(S) + 1
  BY <1>4, <1>6 DEF Rank
<1> QED
  BY <1>2, <1>4, <1>5, <1>7

\* Every rank up to the number of members is that of one.
LEMMA EveryRank ==
    ASSUME NEW N \in Nat, NEW S \in SUBSET (1 .. N)
    PROVE  \A n \in 1 .. Cardinality(S) : \E i \in S : Rank(S, i) = n
<1> DEFINE Ranked(R) == \A n \in 1 .. Cardinality(R) : \E i \in R : Rank(R, i) = n
           T == {m \in Nat : \A R \in SUBSET (1 .. m) : Ranked(R)}
<1>1. 0 \in T
  <2>1. \A R \in SUBSET (1 .. 0) : R = {}
    OBVIOUS
  <2>2. Cardinality({}) = 0
    BY FS_EmptySet
  <2> QED
    BY <2>1, <2>2
<1>2. ASSUME NEW m \in Nat, m \in T PROVE m + 1 \in T
  <2>1. ASSUME NEW R \in SUBSET (1 .. m + 1) PROVE Ranked(R)
    <3>1. CASE m + 1 \notin R
      <4>1. R \in SUBSET (1 .. m)
        BY <3>1
      <4> QED
        BY <1>2, <4>1
    <3>2. CASE m + 1 \in R
      <4> DEFINE U == R \ {m + 1}
      <4>1. U \in SUBSET (1 .. m) /\ R = U \cup {m + 1}
        BY <3>2
      <4> HIDE DEF U
      <4>2. Ranked(U)
        BY <1>2, <4>1
      <4>3. /\ Cardinality(U) \in Nat /\ Cardinality(R) = Cardinality(U) + 1
            /\ \A i \in U : Rank(R, i) = Rank(U, i)
            /\ Rank(R, m + 1) = Cardinality(U) + 1
        BY <4>1, TopRank
      <4>4. ASSUME NEW n \in 1 .. Cardinality(R) PROVE \E i \in R : Rank(R, i) = n
        <5>1. CASE n = Cardinality(U) + 1
          BY <3>2, <4>3, <5>1
        <5>2. CASE n \in 1 .. Cardinality(U)
          <6>1. PICK i \in U : Rank(U, i) = n
            BY <4>2, <5>2
          <6> QED
            BY <4>1, <4>3, <6>1
        <5> QED
          BY <4>3, <5>1, <5>2
      <4> QED
        BY <4>4
    <3> QED
      BY <3>1, <3>2
  <2> HIDE DEF Ranked
  <2> QED
    BY <2>1
<1>3. N \in T
  <2> HIDE DEF T
  <2> QED
    BY <1>1, <1>2, SetInduction
<1> QED
  BY <1>3

LEMMA NthFacts ==
    ASSUME NEW N \in Nat, NEW S \in SUBSET (1 .. N), NEW top, top = S \cup {N + 1}
    PROVE  /\ \A n \in 1 .. Cardinality(S) : Nth(S, n) \in 1 .. N /\ Nth(top, n) = Nth(S, n)
           /\ Nth(top, Cardinality(S) + 1) = N + 1
<1> DEFINE M == Cardinality(S)
<1>1. /\ M \in Nat /\ \A i \in S : Rank(top, i) = Rank(S, i) /\ Rank(S, i) \in Nat /\ Rank(S, i) <= M
      /\ Rank(top, N + 1) = M + 1
  BY TopRank
<1>2. \A n \in 1 .. M : \E i \in S : Rank(S, i) = n
  BY EveryRank
<1> HIDE DEF M
<1>3. ASSUME NEW n \in 1 .. M PROVE Nth(S, n) \in 1 .. N /\ Nth(top, n) = Nth(S, n)
  <2>1. Nth(S, n) \in S
    BY <1>2, Zenon DEF Nth
  <2>2. \A i : (i \in S /\ Rank(S, i) = n) <=> (i \in top /\ Rank(top, i) = n)
    <3>1. n # M + 1
      BY <1>1
    <3> QED
      BY <1>1, <3>1
  <2>3. Nth(top, n) = Nth(S, n)
    BY <2>2 DEF Nth
  <2> QED
    BY <2>1, <2>3
<1>4. Nth(top, M + 1) = N + 1
  <2>1. \A i \in top : Rank(top, i) = M + 1 => i = N + 1
    BY <1>1
  <2>2. N + 1 \in top /\ Rank(top, N + 1) = M + 1
    BY <1>1
  <2> DEFINE x == Nth(top, M + 1)
  <2>3. x \in top /\ Rank(top, x) = M + 1
    BY <2>2, Zenon DEF Nth
  <2> HIDE DEF x
  <2>4. x = N + 1
    BY <2>1, <2>3
  <2> QED
    BY <2>4 DEF x
<1> QED
  BY <1>3, <1>4 DEF M

\* Another packet changes nothing about the bodies of the ones before it.
LEMMA MoreBodies ==
    ASSUME NEW packets \in Seq([packet : Seq(Byte), whole : BOOLEAN]), NEW item,
           NEW S \in SUBSET (1 .. Len(packets))
    PROVE  /\ BodiesOf(Append(packets, item), S) = BodiesOf(packets, S)
           /\ BodiesOf(Append(packets, item), S \cup {Len(packets) + 1}) =
                Append(BodiesOf(packets, S), <<Binary>> \o item.packet)
<1> DEFINE more == Append(packets, item)
           top == S \cup {Len(packets) + 1}
           N == Len(packets)
           M == Cardinality(S)
           Body(i) == <<Binary>> \o more[i].packet
<1>1. /\ N \in Nat /\ more[N + 1] = item
      /\ \A i \in 1 .. N : more[i] = packets[i]
  OBVIOUS
<1>2. M \in Nat /\ Cardinality(top) = M + 1
  BY <1>1, TopRank
<1>3. /\ \A n \in 1 .. M : Nth(S, n) \in 1 .. N /\ Nth(top, n) = Nth(S, n)
      /\ Nth(top, M + 1) = N + 1
  BY <1>1, NthFacts
<1>4. /\ BodiesOf(more, S) = [n \in 1 .. M |-> <<Binary>> \o more[Nth(S, n)].packet]
      /\ BodiesOf(packets, S) = [n \in 1 .. M |-> <<Binary>> \o packets[Nth(S, n)].packet]
      /\ BodiesOf(more, top) = [n \in 1 .. M + 1 |-> <<Binary>> \o more[Nth(top, n)].packet]
  BY <1>2 DEF BodiesOf
<1> HIDE DEF M, N, more, top
<1>5. \A n \in 1 .. M : more[Nth(S, n)] = packets[Nth(S, n)]
  BY <1>1, <1>3
<1>6. BodiesOf(more, S) = BodiesOf(packets, S)
  BY <1>4, <1>5, Zenon
<1> DEFINE one == BodiesOf(packets, S)
           two == BodiesOf(more, top)
           last == <<Binary>> \o item.packet
<1>7. two[M + 1] = last
  <2>1. M + 1 \in 1 .. M + 1
    BY <1>2
  <2>2. two[M + 1] = <<Binary>> \o more[Nth(top, M + 1)].packet
    BY <1>4, <2>1
  <2> QED
    BY <1>1, <1>3, <2>2
<1>8. \A n \in 1 .. M : two[n] = one[n]
  <2>1. ASSUME NEW n \in 1 .. M PROVE two[n] = one[n]
    <3>1. n \in 1 .. M + 1
      BY <1>2
    <3>2. two[n] = <<Binary>> \o more[Nth(top, n)].packet
      BY <1>4, <3>1
    <3>3. one[n] = <<Binary>> \o packets[Nth(S, n)].packet
      BY <1>4
    <3> QED
      BY <1>3, <1>5, <3>2, <3>3
  <2> QED
    BY <2>1
<1>9. /\ one = [n \in 1 .. M |-> one[n]]
      /\ two = [n \in 1 .. M + 1 |-> two[n]]
  BY <1>4
<1> HIDE DEF one, two, last
<1>10. two = Append(one, last)
  <2> DEFINE X == {two[n] : n \in 1 .. M + 1}
  <2>2. \A n \in 1 .. M + 1 : two[n] \in X
    OBVIOUS
  <2> HIDE DEF X
  <2>0. M + 1 \in 1 .. M + 1 /\ \A n \in 1 .. M : n \in 1 .. M + 1
    BY <1>2
  <2>1. last \in X /\ \A n \in 1 .. M : one[n] \in X
    BY <1>7, <1>8, <2>0, <2>2, Zenon
  <2>3. one \in [1 .. M -> X] /\ two \in [1 .. M + 1 -> X]
    BY <1>9, <2>1, <2>2
  <2>4. one \in Seq(X) /\ Len(one) = M
    BY <1>2, <2>3, FunctionIsSeq
  <2>5. two \in Seq(X) /\ Len(two) = M + 1
    BY <1>2, <2>3, FunctionIsSeq
  <2>6. \A n \in 1 .. M + 1 : two[n] = Append(one, last)[n]
    BY <1>2, <1>7, <1>8, <2>1, <2>4
  <2> QED
    BY <1>2, <2>1, <2>4, <2>5, <2>6
<1> QED
  BY <1>6, <1>10 DEF one, two, last, more, top

\* The three cases of a step: a damaged packet, one that arrives, one that is lost.
LEMMA LossStaysLocal ==
    ASSUME NEW packets \in Seq([packet : Seq(Byte), whole : BOOLEAN]), NEW frames, NEW later,
           NEW item \in [packet : Seq(Byte), whole : BOOLEAN],
           NEW more, more = Append(packets, item),
           LocalLoss(packets, frames),
           IF item.whole
           THEN \/ later = Append(frames, <<Binary>> \o item.packet)
                \/ later = frames /\ ~LastWhole(packets)
           ELSE later = frames
    PROVE  LocalLoss(more, later)
<1> DEFINE N == Len(packets)
           whole == WholeOf(packets)
<1>1. /\ N \in Nat /\ DOMAIN packets = 1 .. N /\ DOMAIN more = 1 .. N + 1
      /\ more[N + 1] = item /\ \A i \in 1 .. N : more[i] = packets[i]
      /\ (packets = <<>>) <=> (N = 0)
  OBVIOUS
<1>2. PICK lost \in SUBSET AfterOf(packets) : frames = BodiesOf(packets, whole \ lost)
  BY DEF LocalLoss
<1> DEFINE S == whole \ lost
           top == S \cup {N + 1}
<1>3. whole \in SUBSET (1 .. N) /\ S \in SUBSET (1 .. N) /\ lost \in SUBSET whole
  BY <1>1, <1>2 DEF WholeOf, AfterOf
<1>4. WholeOf(more) = IF item.whole THEN whole \cup {N + 1} ELSE whole
  BY <1>1 DEF WholeOf
<1>5. AfterOf(packets) \subseteq AfterOf(more)
  <2>1. ASSUME NEW i \in AfterOf(packets) PROVE i \in AfterOf(more)
    <3>1. i \in 1 .. N /\ i - 1 \in 1 .. N /\ packets[i].whole /\ i > 1 /\ ~packets[i - 1].whole
      BY <1>1, SMTT(40) DEF AfterOf, WholeOf
    <3>2. i \in 1 .. N + 1 /\ more[i] = packets[i] /\ more[i - 1] = packets[i - 1]
      BY <1>1, <3>1
    <3> QED
      BY <1>1, <3>1, <3>2 DEF AfterOf, WholeOf
  <2> QED
    BY <2>1
<1>6. BodiesOf(more, S) = frames /\ BodiesOf(more, top) = Append(frames, <<Binary>> \o item.packet)
  <2>1. S \in SUBSET (1 .. Len(packets)) /\ top = S \cup {Len(packets) + 1} /\ frames = BodiesOf(packets, S)
    BY <1>2, <1>3
  <2> HIDE DEF S, top
  <2>2. /\ BodiesOf(more, S) = BodiesOf(packets, S)
        /\ BodiesOf(more, top) = Append(BodiesOf(packets, S), <<Binary>> \o item.packet)
    <3>1. /\ BodiesOf(Append(packets, item), S) = BodiesOf(packets, S)
          /\ BodiesOf(Append(packets, item), S \cup {Len(packets) + 1}) =
               Append(BodiesOf(packets, S), <<Binary>> \o item.packet)
      BY <2>1, MoreBodies
    <3> QED
      BY <2>1, <3>1
  <2> QED
    BY <2>1, <2>2
<1> HIDE DEF N, whole
<1>7. CASE ~item.whole
  <2>1. WholeOf(more) \ lost = S /\ lost \in SUBSET AfterOf(more) /\ later = frames
    BY <1>2, <1>4, <1>5, <1>7
  <2> QED
    BY <1>6, <2>1 DEF LocalLoss
<1>8. CASE item.whole /\ later = Append(frames, <<Binary>> \o item.packet)
  <2>1. N + 1 \notin lost
    BY <1>1, <1>3
  <2>2. WholeOf(more) \ lost = top /\ lost \in SUBSET AfterOf(more)
    BY <1>2, <1>4, <1>5, <1>8, <2>1
  <2> QED
    BY <1>6, <1>8, <2>2 DEF LocalLoss
<1>9. CASE item.whole /\ later = frames /\ ~LastWhole(packets)
  <2>1. N # 0 /\ ~packets[N].whole
    BY <1>1, <1>9 DEF LastWhole, N
  <2>2. more[(N + 1) - 1] = packets[N] /\ N + 1 > 1
    BY <1>1, <2>1
  <2>3. N + 1 \in AfterOf(more)
    BY <1>1, <1>9, <2>1, <2>2 DEF AfterOf, WholeOf
  <2> DEFINE gone == lost \cup {N + 1}
  <2>4. gone \in SUBSET AfterOf(more)
    BY <1>2, <1>5, <2>3
  <2>5. N + 1 \notin whole
    BY <1>1, <1>3
  <2>6. WholeOf(more) \ gone = S
    BY <1>4, <1>9, <2>5
  <2> HIDE DEF gone
  <2> QED
    BY <1>6, <1>9, <2>4, <2>6 DEF LocalLoss
<1> QED
  BY <1>7, <1>8, <1>9

(***************************************************************************)
(* LossIsLocal, for any packets, limits and number of faults, on the       *)
(* stream the Unix transport writes.                                       *)
(***************************************************************************)
THEOREM UnixLossIsLocal == Spec => [](port = "unix" => LossIsLocal)
<1> DEFINE Inv == LineInv /\ (port = "unix" => LossIsLocal)
<1>1. Init => Inv
  <2>1. SUFFICES ASSUME Init PROVE LossIsLocal
    BY LineInit
  <2>2. sent = <<>> /\ rx.frames = <<>>
    BY <2>1 DEF Init, DecodeInit
  <2>3. WholeOf(<<>>) = {} /\ AfterOf(<<>>) = {}
    BY DEF WholeOf, AfterOf
  <2>4. BodiesOf(<<>>, {}) = <<>>
    <3>1. Cardinality({}) = 0
      BY FS_EmptySet
    <3>2. BodiesOf(<<>>, {}) = [n \in 1 .. 0 |-> <<Binary>> \o (<<>>)[Nth({}, n)].packet]
      BY <3>1 DEF BodiesOf
    <3> QED
      BY <3>2
  <2>5. {} \ {} = {} /\ {} \in SUBSET {}
    OBVIOUS
  <2>6. LocalLoss(<<>>, <<>>)
    BY <2>3, <2>4, <2>5 DEF LocalLoss
  <2> QED
    BY <2>2, <2>6, LossIs
<1>2. Inv /\ [Next]_vars => Inv'
  <2>1. SUFFICES ASSUME Inv, [Next]_vars, port' = "unix" PROVE LossIsLocal'
    BY LineStep
  <2>2. SUFFICES LocalLoss(sent', rx'.frames)
    BY LossIsNext
  <2>3. port = "unix"
    BY <2>1 DEF Next, Measure, Change, Emit, EmitFails, EmitTooLong, Emitted, Finished, vars
  <2>4. LocalLoss(sent, rx.frames) /\ LineInv
    BY <2>1, <2>3, LossIs
  <2>5. sent \in Seq([packet : Seq(Byte), whole : BOOLEAN]) /\ (LastWhole(sent) => rx.mode = "text")
    BY <2>4 DEF LineInv, LineType
  <2>6. CASE Emit
    <3> DEFINE item == [packet |-> Packet, whole |-> TRUE]
    <3>1. /\ Packet \in Seq(Byte) /\ sent' = Append(sent, item)
          /\ rx'.frames = IF rx.mode = "text" THEN Append(rx.frames, <<Binary>> \o Packet) ELSE rx.frames
      BY <2>4, <2>6, EmitReads
    <3>2. item \in [packet : Seq(Byte), whole : BOOLEAN] /\ item.whole = TRUE /\ item.packet = Packet
      BY <3>1
    <3> HIDE DEF item
    <3>3. \/ rx'.frames = Append(rx.frames, <<Binary>> \o item.packet)
          \/ rx'.frames = rx.frames /\ ~LastWhole(sent)
      BY <2>5, <3>1, <3>2
    <3> QED
      BY <2>4, <2>5, <3>1, <3>2, <3>3, LossStaysLocal
  <2>7. CASE EmitFails
    <3> DEFINE item == [packet |-> Packet, whole |-> FALSE]
    <3>1. Packet \in Seq(Byte) /\ sent' = Append(sent, item) /\ rx'.frames = rx.frames
      BY <2>3, <2>4, <2>7, EmitFailsReads
    <3>2. item \in [packet : Seq(Byte), whole : BOOLEAN] /\ item.whole = FALSE
      BY <3>1
    <3> HIDE DEF item
    <3> QED
      BY <2>4, <2>5, <3>1, <3>2, LossStaysLocal
  <2>8. CASE UNCHANGED <<rx, sent>>
    BY <2>4, <2>8
  <2> QED
    BY <2>1, <2>6, <2>7, <2>8 DEF Next, Measure, Change, EmitTooLong, Finished, vars
<1>3. Inv => (port = "unix" => LossIsLocal)
  OBVIOUS
<1> HIDE DEF Inv
<1> QED
  BY <1>1, <1>2, <1>3, PTL DEF Spec

(***************************************************************************)
(* CrcAgrees, which CrcsAgree proves of every register and every byte: the *)
(* receiver may check the frames of both transports in one way.            *)
(***************************************************************************)
THEOREM CrcAlwaysAgrees == Spec => []CrcAgrees
<1>1. ASSUME NEW high \in 0 .. 255, NEW low \in {0, 165}, NEW byte \in {0, 90}
      PROVE  CrcEsp(high * 256 + low, byte) = CrcUnix(high * 256 + low, byte)
  <2> DEFINE crc == high * 256 + low
  <2>1. crc \in Int /\ 0 <= crc /\ crc <= 65535
    OBVIOUS
  <2>2. byte \in Int /\ 0 <= byte /\ byte <= 255
    OBVIOUS
  <2> HIDE DEF crc
  <2>3. crc \in Word16
    BY <2>1, WordIs
  <2>4. byte \in Byte
    BY <2>2, ByteIs
  <2>5. CrcEsp(crc, byte) = CrcUnix(crc, byte)
    BY <2>3, <2>4, CrcsAgree
  <2> QED
    BY <2>5 DEF crc
<1>2. CrcAgrees
  BY <1>1 DEF CrcAgrees
<1> QED
  BY <1>2, PTL

-----------------------------------------------------------------------------
(***************************************************************************)
(* The encoder of the interrupt handlers.  An encoder that was given some  *)
(* bytes holds them all, or has overflowed if they are more than its       *)
(* buffer; once it has overflowed it stays so.                             *)
(***************************************************************************)
Holds(enc, bytes, cap) ==
    /\ enc \in Encoder /\ Len(enc.data) <= cap
    /\ IF Len(bytes) <= cap THEN enc.overflow = FALSE /\ enc.data = bytes
                            ELSE enc.overflow = TRUE

LEMMA EncoderFacts ==
    ASSUME NEW enc \in Encoder
    PROVE  /\ enc.overflow \in BOOLEAN /\ enc.data \in Seq(Byte) /\ Len(enc.data) \in Nat
           /\ [enc EXCEPT !.overflow = TRUE] \in Encoder
           /\ [enc EXCEPT !.overflow = TRUE].overflow = TRUE
           /\ [enc EXCEPT !.overflow = TRUE].data = enc.data
<1>1. enc.overflow \in BOOLEAN /\ enc.data \in Seq(Byte)
  BY DEF Encoder
<1>2. Len(enc.data) \in Nat
  BY <1>1
<1>3. [enc EXCEPT !.overflow = TRUE] \in Encoder
  BY DEF Encoder
<1>4. /\ [enc EXCEPT !.overflow = TRUE].overflow = TRUE
      /\ [enc EXCEPT !.overflow = TRUE].data = enc.data
  BY DEF Encoder
<1> QED
  BY <1>1, <1>2, <1>3, <1>4

LEMMA EncoderTakes ==
    ASSUME NEW enc \in Encoder, NEW s \in Seq(Byte)
    PROVE  /\ [enc EXCEPT !.data = s] \in Encoder
           /\ [enc EXCEPT !.data = s].overflow = enc.overflow
           /\ [enc EXCEPT !.data = s].data = s
  BY DEF Encoder

LEMMA PutU8Holds ==
    ASSUME NEW cap \in Nat, NEW enc, NEW bytes \in Seq(Byte), Holds(enc, bytes, cap),
           NEW byte \in Byte
    PROVE  Holds(PutU8(enc, byte, cap), bytes \o <<byte>>, cap)
<1>1. /\ enc \in Encoder /\ enc.data \in Seq(Byte) /\ Len(enc.data) <= cap
      /\ Len(enc.data) \in Nat /\ Len(bytes) \in Nat
  <2>1. enc \in Encoder /\ Len(enc.data) <= cap
    BY DEF Holds
  <2>2. Len(bytes) \in Nat
    OBVIOUS
  <2> QED
    BY <2>1, <2>2, EncoderFacts, Zenon
<1>2. Len(bytes \o <<byte>>) = Len(bytes) + 1
  BY ConcatLen
<1>3. CASE Len(enc.data) >= cap
  <2>1. PutU8(enc, byte, cap) = [enc EXCEPT !.overflow = TRUE]
    BY <1>3 DEF PutU8
  <2>2. Len(bytes) >= cap
    BY <1>1, <1>3 DEF Holds
  <2> QED
    BY <1>1, <1>2, <2>1, <2>2, EncoderFacts DEF Holds
<1>4. CASE ~(Len(enc.data) >= cap)
  <2> DEFINE data == enc.data \o <<byte>>
  <2>1. Append(enc.data, byte) = data /\ data \in Seq(Byte) /\ Len(data) = Len(enc.data) + 1
    BY <1>1
  <2>2. PutU8(enc, byte, cap) = [enc EXCEPT !.data = data]
    BY <1>4, <2>1 DEF PutU8
  <2>3. Len(data) <= cap
    BY <1>1, <1>4, <2>1
  <2>4. CASE Len(bytes) <= cap
    <3>1. enc.data = bytes /\ enc.overflow = FALSE
      BY <2>4 DEF Holds
    <3>2. data = bytes \o <<byte>> /\ Len(bytes \o <<byte>>) <= cap
      BY <2>3, <3>1
    <3> HIDE DEF data
    <3>3. /\ [enc EXCEPT !.data = data] \in Encoder
          /\ [enc EXCEPT !.data = data].overflow = FALSE
          /\ [enc EXCEPT !.data = data].data = data
      BY <1>1, <2>1, <3>1, EncoderTakes
    <3> QED
      BY <2>2, <2>3, <3>2, <3>3, Zenon DEF Holds
  <2>5. CASE ~(Len(bytes) <= cap)
    <3>1. enc.overflow = TRUE /\ ~(Len(bytes \o <<byte>>) <= cap)
      BY <1>1, <1>2, <2>5 DEF Holds
    <3> HIDE DEF data
    <3> QED
      BY <1>1, <2>1, <2>2, <2>3, <3>1, EncoderTakes DEF Holds
  <2> QED
    BY <2>4, <2>5
<1> QED
  BY <1>3, <1>4

LEMMA PutBytesHolds ==
    ASSUME NEW cap \in Nat, NEW enc, NEW bytes \in Seq(Byte), Holds(enc, bytes, cap),
           NEW more \in Seq(Byte)
    PROVE  Holds(PutBytes(enc, more, cap), bytes \o more, cap)
<1>1. /\ enc \in Encoder /\ enc.data \in Seq(Byte) /\ Len(enc.data) <= cap
      /\ Len(enc.data) \in Nat /\ Len(bytes) \in Nat /\ Len(more) \in Nat
  <2>1. enc \in Encoder /\ Len(enc.data) <= cap
    BY DEF Holds
  <2>2. Len(bytes) \in Nat /\ Len(more) \in Nat
    OBVIOUS
  <2> QED
    BY <2>1, <2>2, EncoderFacts, Zenon
<1>2. Len(bytes \o more) = Len(bytes) + Len(more)
  BY ConcatLen
<1>3. CASE Len(more) > cap - Len(enc.data)
  <2>1. PutBytes(enc, more, cap) = [enc EXCEPT !.overflow = TRUE]
    BY <1>3 DEF PutBytes
  <2>2. ~(Len(bytes \o more) <= cap)
    BY <1>1, <1>2, <1>3 DEF Holds
  <2> QED
    BY <1>1, <2>1, <2>2, EncoderFacts DEF Holds
<1>4. CASE ~(Len(more) > cap - Len(enc.data))
  <2> DEFINE data == enc.data \o more
  <2>1. data \in Seq(Byte) /\ Len(data) = Len(enc.data) + Len(more)
    BY <1>1, ConcatLen
  <2>2. PutBytes(enc, more, cap) = [enc EXCEPT !.data = data]
    BY <1>4 DEF PutBytes
  <2>3. Len(data) <= cap
    BY <1>1, <1>4, <2>1
  <2>4. CASE Len(bytes) <= cap
    <3>1. enc.data = bytes /\ enc.overflow = FALSE
      BY <2>4 DEF Holds
    <3>2. data = bytes \o more /\ Len(bytes \o more) <= cap
      BY <2>3, <3>1
    <3> HIDE DEF data
    <3>3. /\ [enc EXCEPT !.data = data] \in Encoder
          /\ [enc EXCEPT !.data = data].overflow = FALSE
          /\ [enc EXCEPT !.data = data].data = data
      BY <1>1, <2>1, <3>1, EncoderTakes
    <3> QED
      BY <2>2, <2>3, <3>2, <3>3, Zenon DEF Holds
  <2>5. CASE ~(Len(bytes) <= cap)
    <3>1. enc.overflow = TRUE /\ ~(Len(bytes \o more) <= cap)
      BY <1>1, <1>2, <2>5 DEF Holds
    <3> HIDE DEF data
    <3> QED
      BY <1>1, <2>1, <2>2, <2>3, <3>1, EncoderTakes DEF Holds
  <2> QED
    BY <2>4, <2>5
<1> QED
  BY <1>3, <1>4

LEMMA PutU8Encodes ==
    ASSUME NEW cap \in Nat, NEW enc \in Encoder, NEW byte \in Byte
    PROVE  PutU8(enc, byte, cap) \in Encoder
<1>1. enc.data \in Seq(Byte)
  BY EncoderFacts
<1>2. Append(enc.data, byte) \in Seq(Byte)
  BY <1>1
<1> QED
  BY <1>2, EncoderFacts, EncoderTakes DEF PutU8

\* Byte by byte, or none.
PutWordStep(bytes, cap) ==
    [x \in (1 .. Len(bytes)) \X Encoder |-> PutU8(x[2], bytes[x[1]], cap)]

PutWordRun(t, enc, bytes, cap) ==
    /\ t \in [1 .. Len(bytes) + 1 -> Encoder]
    /\ t[1] = enc
    /\ \A n \in 1 .. Len(bytes) : t[n + 1] = PutU8(t[n], bytes[n], cap)
    /\ PutWord(enc, bytes, cap) = t[Len(bytes) + 1]

LEMMA PutWordRuns ==
    ASSUME NEW cap \in Nat, NEW enc \in Encoder, NEW bytes \in Seq(Byte)
    PROVE  \E t : PutWordRun(t, enc, bytes, cap)
<1> DEFINE last == Len(bytes)
           step == PutWordStep(bytes, cap)
<1>0. last \in Nat /\ \A n \in 1 .. last : bytes[n] \in Byte
  OBVIOUS
<1>1. step \in [(1 .. last) \X Encoder -> Encoder]
  <2>1. \A n \in 1 .. last, e \in Encoder : PutU8(e, bytes[n], cap) \in Encoder
    BY <1>0, PutU8Encodes
  <2> QED
    BY <2>1 DEF PutWordStep
<1>2. \A n \in 1 .. last, e \in Encoder : step[<<n, e>>] = PutU8(e, bytes[n], cap)
  BY DEF PutWordStep
<1>3. PutWord(enc, bytes, cap) = Run(step, Encoder, enc, last)
  BY DEF PutWord, Read, PutWordStep
<1> HIDE DEF last, step
<1>8. PICK t : RunOf(t, step, enc, last, Encoder) /\ Run(step, Encoder, enc, last) = t[last + 1]
  BY <1>0, <1>1, RunYields DEF Yields
<1>9. ASSUME NEW n \in 1 .. last PROVE step[<<n, t[n]>>] = PutU8(t[n], bytes[n], cap)
  <2>1. n \in 1 .. last + 1
    BY <1>0
  <2>2. t[n] \in Encoder
    BY <1>8, <2>1, Zenon DEF RunOf
  <2> QED
    BY <1>2, <2>2, Zenon
<1>10. PutWordRun(t, enc, bytes, cap)
  BY <1>3, <1>8, <1>9, Zenon DEF RunOf, PutWordRun, last
<1> QED
  BY <1>10

LEMMA PutWordHolds ==
    ASSUME NEW cap \in Nat, NEW enc, NEW bytes \in Seq(Byte), Holds(enc, bytes, cap),
           NEW word \in Seq(Byte)
    PROVE  Holds(PutWord(enc, word, cap), bytes \o word, cap)
<1> DEFINE last == Len(word)
<1>1. last \in Nat /\ enc \in Encoder
  BY DEF Holds
<1>2. PICK t : PutWordRun(t, enc, word, cap)
  BY <1>1, PutWordRuns
<1> DEFINE T == {k \in Nat : k <= last => Holds(t[k + 1], bytes \o SubSeq(word, 1, k), cap)}
<1>3. 0 \in T
  <2>1. bytes \o SubSeq(word, 1, 0) = bytes
    OBVIOUS
  <2>2. t[0 + 1] = enc
    BY <1>2 DEF PutWordRun
  <2>3. Holds(t[0 + 1], bytes \o SubSeq(word, 1, 0), cap)
    BY <2>1, <2>2, Zenon
  <2> QED
    BY <2>3
<1>4. ASSUME NEW k \in Nat, k \in T PROVE k + 1 \in T
  <2>1. SUFFICES ASSUME k + 1 <= last
                 PROVE  Holds(t[(k + 1) + 1], bytes \o SubSeq(word, 1, k + 1), cap)
    OBVIOUS
  <2> DEFINE done == bytes \o SubSeq(word, 1, k)
  <2>2. Holds(t[k + 1], done, cap)
    BY <1>1, <1>4, <2>1
  <2>3. k + 1 \in 1 .. last
    BY <1>1, <2>1
  <2>4. t[(k + 1) + 1] = PutU8(t[k + 1], word[k + 1], cap)
    BY <1>2, <2>3, Zenon DEF PutWordRun
  <2>5. /\ SubSeq(word, 1, k) \in Seq(Byte) /\ word[k + 1] \in Byte
        /\ SubSeq(word, 1, k + 1) = SubSeq(word, 1, k) \o <<word[k + 1]>>
    BY <2>3
  <2>6. bytes \o SubSeq(word, 1, k + 1) = done \o <<word[k + 1]>> /\ done \in Seq(Byte)
    BY <2>5
  <2> HIDE DEF done
  <2> QED
    BY <2>2, <2>4, <2>5, <2>6, PutU8Holds
<1>5. last \in T
  <2> HIDE DEF T
  <2> QED
    BY <1>1, <1>3, <1>4, SetInduction
<1>6. SubSeq(word, 1, last) = word
  OBVIOUS
<1>7. PutWord(enc, word, cap) = t[last + 1]
  BY <1>2 DEF PutWordRun
<1>8. Holds(t[last + 1], bytes \o SubSeq(word, 1, last), cap)
  BY <1>1, <1>5
<1> QED
  BY <1>6, <1>7, <1>8, Zenon

Assoc(s, t, u) == (s \o t) \o u = s \o (t \o u)

LEMMA ConcatAssoc ==
    ASSUME NEW S, NEW s \in Seq(S), NEW t \in Seq(S), NEW u \in Seq(S)
    PROVE  Assoc(s, t, u)
  BY DEF Assoc

LEMMA ConcatEmpty ==
    ASSUME NEW S, NEW s \in Seq(S)
    PROVE  s \o <<>> = s
  OBVIOUS

\* Behind two bytes of header.
LEMMA AfterHeader ==
    ASSUME NEW S, NEW a \in S, NEW b \in S, NEW s \in Seq(S)
    PROVE  /\ Len(<<a, b>> \o s) = 2 + Len(s)
           /\ SubSeq(<<a, b>> \o s, 3, Len(<<a, b>> \o s)) = s
<1> DEFINE all == <<a, b>> \o s
<1>1. all \in Seq(S) /\ Len(all) = 2 + Len(s) /\ \A i \in 1 .. Len(s) : all[2 + i] = s[i]
  OBVIOUS
<1> HIDE DEF all
<1>2. SubSeq(all, 3, Len(all)) = s
  BY <1>1
<1> QED
  BY <1>1, <1>2 DEF all

LEMMA PutWordEncodes ==
    ASSUME NEW cap \in Nat, NEW enc \in Encoder, NEW word \in Seq(Byte)
    PROVE  PutWord(enc, word, cap) \in Encoder
<1>1. PICK t : PutWordRun(t, enc, word, cap)
  BY PutWordRuns
<1>2. Len(word) + 1 \in 1 .. Len(word) + 1
  OBVIOUS
<1> QED
  BY <1>1, <1>2, Zenon DEF PutWordRun

(***************************************************************************)
(* The tag, which a handler cuts to the size of its buffer: if that makes  *)
(* a difference, it does not fit anyway.                                   *)
(***************************************************************************)
LEMMA PutWireStrHolds ==
    ASSUME NEW cap \in Nat, NEW enc, NEW bytes \in Seq(Byte), Holds(enc, bytes, cap),
           NEW c, c.inline \in Recorded
    PROVE  Holds(PutWireStr(enc, InlineLen(c, Smaller(cap, MaxStr)), cap),
                 bytes \o InlineBytes(c), cap)
<1> DEFINE mine == InlineLen(c, Smaller(cap, MaxStr))
           full == InlineLen(c, MaxStr)
<1>1. CASE c.inline = Null
  <2>1. PutWireStr(enc, mine, cap) = enc /\ InlineBytes(c) = <<>>
    BY <1>1 DEF InlineLen, PutWireStr, InlineBytes
  <2> QED
    BY <2>1, ConcatEmpty
<1>2. CASE c.inline # Null
  <2>1. /\ mine \in 0 .. Len(Content) /\ full \in 0 .. Len(Content)
        /\ mine = full \/ (mine = cap /\ full > cap)
    BY <1>2, ContentFacts DEF InlineLen, Smaller, Recorded
  <2>2. /\ PutWireStr(enc, mine, cap) =
             PutBytes(PutWord(enc, Le32(mine), cap), SubSeq(Content, 1, mine), cap)
        /\ InlineBytes(c) = StringBytes(full)
    <3>1. mine # Null /\ full # Null
      BY <2>1, ContentFacts
    <3> QED
      BY <1>2, <3>1 DEF PutWireStr, InlineBytes
  <2>0. SUFFICES Holds(PutWireStr(enc, mine, cap), bytes \o InlineBytes(c), cap)
    OBVIOUS
  <2> HIDE DEF mine, full
  <2>3. /\ Le32(mine) \in Seq(Byte) /\ Len(Le32(mine)) = 4
        /\ SubSeq(Content, 1, mine) \in Seq(Byte) /\ Len(SubSeq(Content, 1, mine)) = mine
    <3>1. mine \in Int \cup {Null}
      BY <2>1
    <3>2. Le32(mine) \in Seq(Byte) /\ Len(Le32(mine)) = 4
      BY <3>1, Le32Bytes
    <3> QED
      BY <2>1, <3>2, ContentFacts
  <2> DEFINE word == Le32(mine)
             rest == SubSeq(Content, 1, mine)
             first == bytes \o word
             put == first \o rest
  <2> HIDE DEF word, rest, first, put
  <2>a. /\ word \in Seq(Byte) /\ Len(word) = 4 /\ rest \in Seq(Byte) /\ Len(rest) = mine
        /\ first \in Seq(Byte) /\ Len(first) = Len(bytes) + 4
        /\ put \in Seq(Byte) /\ Len(put) = Len(first) + mine
    <3>1. word \in Seq(Byte) /\ Len(word) = 4 /\ rest \in Seq(Byte) /\ Len(rest) = mine
      BY <2>3 DEF word, rest
    <3>2. first \in Seq(Byte) /\ Len(first) = Len(bytes) + 4
      BY <3>1, ConcatLen, Zenon DEF first
    <3>3. put \in Seq(Byte) /\ Len(put) = Len(first) + mine
      BY <3>1, <3>2, ConcatLen, Zenon DEF put
    <3> QED
      BY <3>1, <3>2, <3>3
  <2>4. Holds(PutWireStr(enc, mine, cap), put, cap)
    <3>1. Holds(PutWord(enc, word, cap), first, cap)
      BY <2>a, PutWordHolds DEF first
    <3>2. Holds(PutBytes(PutWord(enc, word, cap), rest, cap), put, cap)
      BY <2>a, <3>1, PutBytesHolds DEF put
    <3> QED
      BY <2>2, <3>2, Zenon DEF word, rest
  <2>5. CASE mine = full
    <3>1. StringBytes(mine) = word \o rest
      BY <2>1, ContentFacts DEF StringBytes, word, rest
    <3>2. put = bytes \o (word \o rest)
      <4>1. word \in Seq(Byte) /\ rest \in Seq(Byte)
        BY <2>a
      <4>2. (bytes \o word) \o rest = bytes \o (word \o rest)
        <5>1. Assoc(bytes, word, rest)
          BY <4>1, ConcatAssoc, Zenon
        <5> QED
          BY <5>1, Zenon DEF Assoc
      <4> QED
        BY <4>2 DEF put, first
    <3> QED
      BY <2>2, <2>4, <2>5, <3>1, <3>2, Zenon
  <2>6. CASE mine = cap /\ full > cap
    <3>1. Len(put) > cap
      BY <2>6, <2>a
    <3>2. Len(bytes \o InlineBytes(c)) > cap
      <4>1. StringBytes(full) \in Seq(Byte) /\ Len(StringBytes(full)) = 4 + full
        <5>1. full \in Recorded /\ full # Null
          BY <2>1, ContentFacts DEF Recorded
        <5> QED
          BY <5>1, StringBytesLen
      <4>2. Len(bytes \o StringBytes(full)) = Len(bytes) + (4 + full)
        BY <4>1, ConcatLen, Zenon
      <4> QED
        BY <2>1, <2>2, <2>6, <4>2
    <3>3. ~(Len(put) <= cap) /\ ~(Len(bytes \o InlineBytes(c)) <= cap)
      <4>1. Len(put) \in Nat /\ Len(bytes \o InlineBytes(c)) \in Nat
        <5>1. put \in Seq(Byte) /\ bytes \o InlineBytes(c) \in Seq(Byte)
          BY <2>a, ConcatLen, InlineBytesLen, Zenon
        <5> QED
          BY <5>1
      <4> QED
        BY <3>1, <3>2, <4>1
    <3> QED
      BY <2>4, <3>3, Zenon DEF Holds
  <2> QED
    BY <2>1, <2>5, <2>6
<1> QED
  BY <1>1, <1>2

\* The arguments, one after the other.
EncodeArgs(c, v, cap, enc) ==
    Read(LAMBDA e, i : PutArg(e, c.types[i], v[i], cap), Encoder, enc, [i \in DOMAIN v |-> i])

ArgsStep(c, v, cap) ==
    [at \in (1 .. Len(Indices(v))) \X Encoder |->
       PutArg(at[2], c.types[Indices(v)[at[1]]], v[Indices(v)[at[1]]], cap)]

ArgsRun(t, c, v, cap, enc, N) ==
    /\ t \in [1 .. N + 1 -> Encoder]
    /\ t[1] = enc
    /\ \A n \in 1 .. N : t[n + 1] = PutArg(t[n], c.types[n], v[n], cap)
    /\ EncodeArgs(c, v, cap, enc) = t[N + 1]

LEMMA PutArgEncodes ==
    ASSUME NEW cap \in Nat, NEW enc \in Encoder, NEW type \in WireType, NEW v,
           type \notin String => v \in Int
    PROVE  PutArg(enc, type, v, cap) \in Encoder
<1>1. CASE type \in String
  BY <1>1, EncoderFacts DEF PutArg
<1>2. CASE type \notin String
  <2>1. 0 \in Recorded
    BY ContentFacts DEF Recorded
  <2>2. ArgBytes(type, v, 0) \in Seq(Byte)
    BY <1>2, <2>1, ArgBytesLen
  <2> QED
    BY <1>2, <2>2, PutWordEncodes DEF PutArg
<1> QED
  BY <1>1, <1>2

LEMMA ArgsRuns ==
    ASSUME NEW cap \in Nat, NEW enc \in Encoder, NEW c, NEW v, NEW l, Passed(c, v, l)
    PROVE  \E t : ArgsRun(t, c, v, cap, enc, Len(c.types))
<1> DEFINE N == Len(c.types)
           step == ArgsStep(c, v, cap)
<1>b. N \in Nat /\ v \in [1 .. N -> Int \cup {Null}]
  BY DEF Passed
<1>c. \A i \in 1 .. N : c.types[i] \in WireType /\ (c.types[i] \notin String => v[i] \in Int)
  BY DEF Passed
<1> HIDE DEF N
<1>0. Len(v) = N /\ DOMAIN v = 1 .. N
  BY <1>b, FunctionIsSeq
<1>a. Len(Indices(v)) = N /\ \A n \in 1 .. N : Indices(v)[n] = n
  <2>1. Indices(v) \in [1 .. N -> Nat] /\ \A n \in 1 .. N : Indices(v)[n] = n
    BY <1>0 DEF Indices
  <2> QED
    BY <1>b, <2>1, FunctionIsSeq
<1>1. step = [at \in (1 .. N) \X Encoder |->
                  PutArg(at[2], c.types[Indices(v)[at[1]]], v[Indices(v)[at[1]]], cap)]
  BY <1>a DEF ArgsStep
<1>2. ASSUME NEW n \in 1 .. N, NEW e \in Encoder
      PROVE  step[<<n, e>>] = PutArg(e, c.types[n], v[n], cap)
  <2>1. step[<<n, e>>] = PutArg(e, c.types[Indices(v)[n]], v[Indices(v)[n]], cap)
    BY <1>1
  <2> QED
    BY <1>a, <2>1
<1>3. step \in [(1 .. N) \X Encoder -> Encoder]
  <2>1. ASSUME NEW at \in (1 .. N) \X Encoder
        PROVE  PutArg(at[2], c.types[Indices(v)[at[1]]], v[Indices(v)[at[1]]], cap) \in Encoder
    <3>1. at[1] \in 1 .. N /\ at[2] \in Encoder /\ Indices(v)[at[1]] = at[1]
      BY <1>a
    <3>2. PutArg(at[2], c.types[at[1]], v[at[1]], cap) \in Encoder
      BY <1>c, <3>1, PutArgEncodes
    <3> QED
      BY <3>1, <3>2
  <2> HIDE DEF step
  <2> QED
    BY <1>1, <2>1
<1>4. EncodeArgs(c, v, cap, enc) = Run(step, Encoder, enc, N)
  <2>1. EncodeArgs(c, v, cap, enc) = Run(ArgsStep(c, v, cap), Encoder, enc, Len(Indices(v)))
    BY DEF EncodeArgs, Read, ArgsStep, Indices
  <2> QED
    BY <1>a, <2>1
<1> HIDE DEF step
<1>8. PICK t : RunOf(t, step, enc, N, Encoder) /\ Run(step, Encoder, enc, N) = t[N + 1]
  BY <1>b, <1>3, RunYields DEF Yields
<1>9. ASSUME NEW n \in 1 .. N PROVE step[<<n, t[n]>>] = PutArg(t[n], c.types[n], v[n], cap)
  <2>1. n \in 1 .. N + 1
    BY <1>b
  <2>2. t[n] \in Encoder
    BY <1>8, <2>1, Zenon DEF RunOf
  <2> QED
    BY <1>2, <2>2, Zenon
<1>10. ArgsRun(t, c, v, cap, enc, N)
  BY <1>4, <1>8, <1>9, Zenon DEF RunOf, ArgsRun
<1> QED
  BY <1>10 DEF N

(***************************************************************************)
(* An encoder that holds what comes before the arguments holds them too,   *)
(* or has overflowed: there is a string, or they do not fit.               *)
(***************************************************************************)
ArgList(c, v, l) == [i \in DOMAIN v |-> ArgBytes(c.types[i], v[i], l[i])]

\* More than cap bytes.
TooMany(cap) == [i \in 1 .. cap + 1 |-> 0]

LEMMA EncodeArgsHolds ==
    ASSUME NEW cap \in Nat, NEW enc, NEW bytes \in Seq(Byte), Holds(enc, bytes, cap),
           NEW c, NEW v, NEW l, Passed(c, v, l)
    PROVE  \E all \in Seq(Byte) :
              /\ Holds(EncodeArgs(c, v, cap, enc), all, cap)
              /\ IF \E i \in 1 .. Len(c.types) : c.types[i] \in String THEN Len(all) > cap
                 ELSE all = bytes \o Join(ArgList(c, v, l))
<1> DEFINE N == Len(c.types)
           args == ArgList(c, v, l)
           HasString(k) == \E i \in 1 .. k : c.types[i] \in String
<1>1. N \in Nat /\ DOMAIN v = 1 .. N
  BY DEF Passed
<1>2. ASSUME NEW i \in 1 .. N
      PROVE  /\ c.types[i] \in WireType
             /\ args[i] = ArgBytes(c.types[i], v[i], l[i])
             /\ args[i] \in Seq(Byte)
  <2>1. c.types[i] \in WireType /\ l[i] \in Recorded /\ (c.types[i] \notin String => v[i] \in Int)
    BY DEF Passed
  <2>2. ArgBytes(c.types[i], v[i], l[i]) \in Seq(Byte)
    BY <2>1, ArgBytesLen
  <2> QED
    BY <1>1, <2>1, <2>2 DEF ArgList
<1>3. args \in Seq(Seq(Byte)) /\ Len(args) = N
  <2>1. args \in [1 .. N -> Seq(Byte)]
    <3>1. args = [i \in 1 .. N |-> args[i]]
      BY <1>1 DEF ArgList
    <3> HIDE DEF args, N
    <3> QED
      BY <1>2, <3>1
  <2> HIDE DEF args, N
  <2> QED
    BY <1>1, <2>1, FunctionIsSeq
<1>4. enc \in Encoder
  BY DEF Holds
<1>5. PICK t : ArgsRun(t, c, v, cap, enc, N)
  BY <1>4, ArgsRuns
<1> HIDE DEF args, N
<1>6. PICK j \in [1 .. N + 1 -> Seq(Byte)] :
         j[1] = <<>> /\ (\A n \in 1 .. N : j[n + 1] = j[n] \o args[n]) /\ Join(args) = j[N + 1]
  BY <1>3, JoinRuns
<1>7. TooMany(cap) \in Seq(Byte) /\ Len(TooMany(cap)) = cap + 1
  <2>1. TooMany(cap) \in [1 .. cap + 1 -> Byte]
    BY DEF TooMany, Byte
  <2> QED
    BY <2>1, FunctionIsSeq
<1> DEFINE Done(all, k) ==
             /\ Holds(t[k + 1], all, cap)
             /\ IF HasString(k) THEN Len(all) > cap ELSE all = bytes \o j[k + 1]
           T == {k \in Nat : k <= N => \E all \in Seq(Byte) : Done(all, k)}
<1>8. 0 \in T
  <2>1. bytes \o j[0 + 1] = bytes /\ t[0 + 1] = enc
    <3>1. j[0 + 1] = <<>> /\ t[0 + 1] = enc
      BY <1>5, <1>6 DEF ArgsRun
    <3> QED
      BY <3>1, ConcatEmpty
  <2>2. ~HasString(0)
    OBVIOUS
  <2> HIDE DEF HasString
  <2>3. Done(bytes, 0)
    BY <2>1, <2>2, Zenon
  <2> HIDE DEF Done
  <2> QED
    BY <2>3
<1>9. ASSUME NEW k \in Nat, k \in T PROVE k + 1 \in T
  <2>1. SUFFICES ASSUME k + 1 <= N PROVE \E all \in Seq(Byte) : Done(all, k + 1)
    OBVIOUS
  <2> DEFINE m == k + 1
  <2>2. m \in 1 .. N /\ m \in 1 .. N + 1
    BY <1>1, <2>1
  <2>3. PICK all \in Seq(Byte) : Done(all, k)
    <3> HIDE DEF Done
    <3> QED
      BY <1>1, <1>9, <2>1
  <2>4. t[m + 1] = PutArg(t[m], c.types[m], v[m], cap) /\ Holds(t[m], all, cap)
    <3>1. t[m + 1] = PutArg(t[m], c.types[m], v[m], cap)
      BY <1>5, <2>2, Zenon DEF ArgsRun
    <3> QED
      BY <2>3, <3>1, Zenon
  <2>5. HasString(m) <=> HasString(k) \/ c.types[m] \in String
    BY <2>2
  <2>6. CASE c.types[m] \in String
    <3>1. t[m + 1] = [t[m] EXCEPT !.overflow = TRUE] /\ t[m] \in Encoder /\ Len(t[m].data) <= cap
      BY <2>4, <2>6 DEF PutArg, Holds
    <3>2. ~(Len(TooMany(cap)) <= cap) /\ Len(TooMany(cap)) > cap
      BY <1>7
    <3>3. Holds(t[m + 1], TooMany(cap), cap)
      <4> HIDE DEF m
      <4>1. t[m + 1] \in Encoder /\ t[m + 1].overflow = TRUE /\ t[m + 1].data = t[m].data
        BY <3>1, EncoderFacts
      <4>2. Len(t[m + 1].data) <= cap
        BY <3>1, <4>1
      <4> QED
        BY <3>2, <4>1, <4>2, Zenon DEF Holds
    <3>4. Done(TooMany(cap), m)
      <4> HIDE DEF HasString, m
      <4> QED
        BY <2>5, <2>6, <3>2, <3>3, Zenon
    <3> QED
      BY <1>7, <3>4, Zenon
  <2>7. CASE c.types[m] \notin String
    <3> DEFINE word == args[m]
               more == all \o word
    <3>1. word \in Seq(Byte) /\ more \in Seq(Byte) /\ Len(more) = Len(all) + Len(word)
      BY <1>2, <2>2, ConcatLen
    <3>2. t[m + 1] = PutWord(t[m], word, cap)
      <4>1. ArgBytes(c.types[m], v[m], 0) = word
        BY <1>2, <2>2, <2>7 DEF ArgBytes, WireType, String
      <4> QED
        BY <2>4, <2>7, <4>1 DEF PutArg
    <3> HIDE DEF word
    <3>3. Holds(t[m + 1], more, cap)
      BY <2>4, <3>1, <3>2, PutWordHolds
    <3>4. CASE HasString(k)
      <4>1. Len(all) > cap
        BY <2>3, <3>4, Zenon
      <4>2. Len(more) > cap
        BY <3>1, <4>1
      <4>3. Done(more, m)
        <5> HIDE DEF HasString, m, more
        <5> QED
          BY <2>5, <3>3, <3>4, <4>2, Zenon
      <4> QED
        BY <3>1, <4>3, Zenon
    <3>5. CASE ~HasString(k)
      <4>1. all = bytes \o j[m]
        BY <2>3, <3>5, Zenon
      <4>2. j[m] \in Seq(Byte) /\ j[m + 1] = j[m] \o word
        BY <1>6, <2>2 DEF word
      <4>3. more = bytes \o j[m + 1]
        <5> DEFINE prefix == j[m]
        <5>1. word \in Seq(Byte) /\ prefix \in Seq(Byte)
          BY <3>1, <4>2
        <5> HIDE DEF prefix
        <5>2. (bytes \o prefix) \o word = bytes \o (prefix \o word)
          <6>1. Assoc(bytes, prefix, word)
            BY <5>1, ConcatAssoc, Zenon
          <6> QED
            BY <6>1, Zenon DEF Assoc
        <5> QED
          BY <4>1, <4>2, <5>2 DEF prefix
      <4>4. Done(more, m)
        <5> HIDE DEF HasString, m, more
        <5> QED
          BY <2>5, <2>7, <3>3, <3>5, <4>3, Zenon
      <4> QED
        BY <3>1, <4>4, Zenon
    <3> QED
      BY <3>4, <3>5
  <2> QED
    BY <2>6, <2>7
<1>10. \E all \in Seq(Byte) : Done(all, N)
  <2>1. N \in T
    <3> HIDE DEF T
    <3> QED
      BY <1>1, <1>8, <1>9, SetInduction
  <2> HIDE DEF Done
  <2> QED
    BY <1>1, <2>1
<1>11. EncodeArgs(c, v, cap, enc) = t[N + 1]
  BY <1>5 DEF ArgsRun
<1> QED
  BY <1>6, <1>10, <1>11, Zenon DEF args, N

LEMMA Le16Bytes ==
    ASSUME NEW n \in Nat
    PROVE  Le16(n) \in Seq(Byte) /\ Len(Le16(n)) = 2
<1>1. n % 256 \in Byte /\ (n \div 256) % 256 \in Byte
  BY DEF Byte
<1> QED
  BY <1>1 DEF Le16

\* An encoder that was given nothing.
LEMMA EmptyHolds ==
    ASSUME NEW cap \in Nat
    PROVE  Holds([overflow |-> FALSE, data |-> <<>>], <<>>, cap)
  BY DEF Holds, Encoder

(***************************************************************************)
(* What a handler sends: the packet of a task with the same arguments, or  *)
(* nothing if there is a string among them or the packet is too long.      *)
(***************************************************************************)
LEMMA HandlerEncodes ==
    ASSUME NEW cap \in Nat, NEW c, NEW v, NEW l, Passed(c, v, l), Len(c.types) <= 255
    PROVE  EncodeIsr(c, v, cap) =
             IF /\ 2 + Len(Payload(c, v, l)) <= cap
                /\ \A i \in 1 .. Len(c.types) : c.types[i] \notin String
             THEN Le16(Measured(c, l)) \o Payload(c, v, l) ELSE <<>>
<1> DEFINE N == Len(c.types)
           empty == [overflow |-> FALSE, data |-> <<>>]
           codes == [i \in DOMAIN v |-> TypeCode(c.types[i])]
           kinds == <<Len(v)>> \o codes
           args == Join(ArgList(c, v, l))
           payload == Payload(c, v, l)
           header == PutWord(empty, <<0, 0>>, cap)
           inline == PutWireStr(header, InlineLen(c, Smaller(cap, MaxStr)), cap)
           types == PutWord(inline, kinds, cap)
           enc == EncodeArgs(c, v, cap, types)
<1>1. EncodeIsr(c, v, cap) = IF enc.overflow THEN <<>>
                             ELSE Le16(Len(enc.data) - 2) \o SubSeq(enc.data, 3, Len(enc.data))
  BY DEF EncodeIsr, EncodeArgs
<1>2. /\ N \in Nat /\ N <= 255 /\ DOMAIN v = 1 .. N /\ Len(v) = N /\ c.inline \in Recorded
      /\ \A i \in 1 .. N : c.types[i] \in WireType
  <2>1. N \in Nat /\ v \in [1 .. N -> Int \cup {Null}] /\ c.inline \in Recorded
    BY DEF Passed
  <2>2. \A i \in 1 .. N : c.types[i] \in WireType
    BY DEF Passed
  <2>3. Len(v) = N
    <3> HIDE DEF N
    <3> QED
      BY <2>1, FunctionIsSeq
  <2> QED
    BY <2>1, <2>2, <2>3
<1>3. codes \in Seq(Byte) /\ <<Len(v)>> \in Seq(Byte) /\ kinds \in Seq(Byte)
  <2>1. \A i \in 1 .. N : TypeCode(c.types[i]) \in Byte
    <3>1. ASSUME NEW t \in WireType PROVE TypeCode(t) \in Byte
      <4>1. t \in {"word", "dword", "pointer", "string", "view"}
        BY <3>1 DEF WireType
      <4>2. 1 \in Byte /\ 2 \in Byte /\ 3 \in Byte /\ 4 \in Byte /\ 5 \in Byte
        BY DEF Byte
      <4>3. CASE t = "word"
        BY <4>2, <4>3 DEF TypeCode
      <4>4. CASE t = "dword"
        BY <4>2, <4>4 DEF TypeCode
      <4>5. CASE t = "pointer"
        BY <4>2, <4>5 DEF TypeCode
      <4>6. CASE t = "string"
        BY <4>2, <4>6 DEF TypeCode
      <4>7. CASE t = "view"
        BY <4>2, <4>7 DEF TypeCode
      <4> QED
        BY <4>1, <4>3, <4>4, <4>5, <4>6, <4>7, Zenon
    <3> QED
      BY <1>2, <3>1, Zenon
  <2>2. codes \in [1 .. N -> Byte]
    BY <1>2, <2>1
  <2>3. codes \in Seq(Byte)
    <3> HIDE DEF codes, N
    <3> QED
      BY <1>2, <2>2, FunctionIsSeq
  <2>4. <<Len(v)>> \in Seq(Byte)
    <3>1. Len(v) \in Byte
      <4> HIDE DEF N
      <4> QED
        BY <1>2 DEF Byte
    <3> QED
      BY <3>1
  <2> HIDE DEF codes
  <2> QED
    BY <2>3, <2>4, ConcatLen
<1>4. InlineBytes(c) \in Seq(Byte)
  BY <1>2, InlineBytesLen
<1>5. payload = ((InlineBytes(c) \o <<Len(v)>>) \o codes) \o args
  BY DEF Payload, ArgList
<1>6. /\ payload \in Seq(Int) /\ Len(payload) = Measured(c, l)
  BY PassesAgree
<1> HIDE DEF N, codes, kinds, args, payload, header, inline, types, enc, empty
<1>7. Holds(header, <<0, 0>>, cap)
  <2>1. <<0, 0>> \in Seq(Byte) /\ <<>> \o <<0, 0>> = <<0, 0>> /\ <<>> \in Seq(Byte)
    BY DEF Byte
  <2>2. Holds(empty, <<>>, cap)
    BY EmptyHolds DEF empty
  <2>3. Holds(header, <<>> \o <<0, 0>>, cap)
    BY <2>1, <2>2, PutWordHolds, Zenon DEF header
  <2> QED
    BY <2>1, <2>3, Zenon
<1> DEFINE zero == <<0, 0>>
           one == zero \o InlineBytes(c)
           two == one \o kinds
<1>8. zero \in Seq(Byte) /\ one \in Seq(Byte) /\ two \in Seq(Byte)
  <2>1. zero \in Seq(Byte)
    BY DEF Byte
  <2> HIDE DEF zero
  <2>2. one \in Seq(Byte)
    BY <1>4, <2>1, ConcatLen
  <2> HIDE DEF one
  <2> QED
    BY <1>3, <2>1, <2>2, ConcatLen
<1> HIDE DEF zero, one, two
<1>9. Holds(inline, one, cap)
  BY <1>2, <1>7, <1>8, PutWireStrHolds DEF inline, zero, one
<1>10. Holds(types, two, cap)
  BY <1>3, <1>8, <1>9, PutWordHolds DEF types, two
<1>11. PICK all \in Seq(Byte) :
          /\ Holds(enc, all, cap)
          /\ IF \E i \in 1 .. N : c.types[i] \in String THEN Len(all) > cap ELSE all = two \o args
  <2>1. two \in Seq(Byte) /\ Holds(types, two, cap)
    BY <1>8, <1>10
  <2>2. \E all \in Seq(Byte) :
           /\ Holds(EncodeArgs(c, v, cap, types), all, cap)
           /\ IF \E i \in 1 .. Len(c.types) : c.types[i] \in String THEN Len(all) > cap
              ELSE all = two \o Join(ArgList(c, v, l))
    BY <2>1, EncodeArgsHolds
  <2> QED
    BY <2>2 DEF enc, args, N
<1>12. args \in Seq(Byte)
  <2>1. ArgList(c, v, l) \in Seq(Seq(Byte))
    <3>1. ASSUME NEW i \in 1 .. N PROVE ArgBytes(c.types[i], v[i], l[i]) \in Seq(Byte)
      <4>1. c.types[i] \in WireType /\ l[i] \in Recorded /\ (c.types[i] \notin String => v[i] \in Int)
        BY DEF Passed, N
      <4> QED
        BY <4>1, ArgBytesLen
    <3>2. ArgList(c, v, l) \in [1 .. N -> Seq(Byte)]
      BY <1>2, <3>1 DEF ArgList
    <3> QED
      BY <1>2, <3>2, FunctionIsSeq
  <2>2. PICK j \in [1 .. Len(ArgList(c, v, l)) + 1 -> Seq(Byte)] :
           args = j[Len(ArgList(c, v, l)) + 1]
    BY <2>1, JoinRuns DEF args
  <2>3. Len(ArgList(c, v, l)) \in Nat
    BY <2>1
  <2> QED
    BY <2>2, <2>3
<1>13. two \o args = zero \o payload /\ payload \in Seq(Byte)
  <2> DEFINE I == InlineBytes(c)
             C == <<Len(v)>>
             IC == I \o C
             ICK == IC \o codes
  <2>1. I \in Seq(Byte) /\ C \in Seq(Byte)
    BY <1>3, <1>4
  <2>2. payload = ICK \o args /\ kinds = C \o codes /\ one = zero \o I
    BY <1>5 DEF kinds, one
  <2> HIDE DEF I, C
  <2>3. IC \in Seq(Byte)
    BY <2>1, ConcatLen
  <2> HIDE DEF IC, ICK
  <2>4. (I \o C) \o codes = I \o (C \o codes)
    <3>1. I \in Seq(Byte) /\ C \in Seq(Byte) /\ codes \in Seq(Byte)
      BY <1>3, <2>1
    <3>2. Assoc(I, C, codes)
      BY <3>1, ConcatAssoc, Zenon
    <3> QED
      BY <3>2, Zenon DEF Assoc
  <2>5. ICK \in Seq(Byte)
    BY <1>3, <2>3, ConcatLen DEF ICK
  <2>6. ICK = I \o kinds
    BY <2>2, <2>4, Zenon DEF IC, ICK
  <2>7. (zero \o I) \o kinds = zero \o (I \o kinds)
    <3>1. zero \in Seq(Byte) /\ I \in Seq(Byte) /\ kinds \in Seq(Byte)
      BY <1>3, <1>8, <2>1
    <3>2. Assoc(zero, I, kinds)
      BY <3>1, ConcatAssoc, Zenon
    <3> QED
      BY <3>2, Zenon DEF Assoc
  <2>8. two = zero \o ICK
    BY <2>2, <2>6, <2>7 DEF two
  <2>9. (zero \o ICK) \o args = zero \o (ICK \o args) /\ ICK \o args \in Seq(Byte)
    <3>1. zero \in Seq(Byte) /\ ICK \in Seq(Byte) /\ args \in Seq(Byte)
      BY <1>8, <1>12, <2>5
    <3>2. (zero \o ICK) \o args = zero \o (ICK \o args)
      <4>1. Assoc(zero, ICK, args)
        BY <3>1, ConcatAssoc, Zenon
      <4> QED
        BY <4>1, Zenon DEF Assoc
    <3>3. ICK \o args \in Seq(Byte)
      BY <3>1, ConcatLen
    <3> QED
      BY <3>2, <3>3
  <2> QED
    BY <2>2, <2>8, <2>9
<1>14. /\ Len(zero \o payload) = 2 + Len(payload)
       /\ SubSeq(zero \o payload, 3, Len(zero \o payload)) = payload
       /\ Len(payload) \in Nat
  BY <1>13, AfterHeader DEF zero, Byte
<1>15. CASE \E i \in 1 .. N : c.types[i] \in String
  <2>1. enc.overflow = TRUE
    <3>1. ~(Len(all) <= cap)
      BY <1>11, <1>15
    <3> QED
      BY <1>11, <3>1, Zenon DEF Holds
  <2> QED
    BY <1>1, <1>15, <2>1, Zenon DEF N
<1>16. CASE (\A i \in 1 .. N : c.types[i] \notin String) /\ ~(2 + Len(payload) <= cap)
  <2>1. ~(Len(all) <= cap)
    BY <1>11, <1>13, <1>14, <1>16
  <2>2. enc.overflow = TRUE
    BY <1>11, <2>1, Zenon DEF Holds
  <2> QED
    BY <1>1, <1>16, <2>2, Zenon DEF N, payload
<1>17. CASE (\A i \in 1 .. N : c.types[i] \notin String) /\ 2 + Len(payload) <= cap
  <2>1. all = zero \o payload
    BY <1>11, <1>13, <1>17, Zenon
  <2>2. Len(all) <= cap
    BY <1>14, <1>17, <2>1
  <2>3. enc.overflow = FALSE /\ enc.data = zero \o payload
    BY <1>11, <2>1, <2>2, Zenon DEF Holds
  <2>4. (2 + Len(payload)) - 2 = Measured(c, l)
    BY <1>6, <1>14
  <2>5. EncodeIsr(c, v, cap) = Le16(Measured(c, l)) \o payload
    BY <1>1, <1>14, <2>3, <2>4, Zenon
  <2> QED
    BY <1>17, <2>5, Zenon DEF N, payload
<1> QED
  BY <1>15, <1>16, <1>17, Zenon

LEMMA TimeSyncEncodes ==
    ASSUME NEW cap \in Nat, NEW boot \in Nat
    PROVE  EncodeTimeSync(boot, cap) = IF cap >= 6 THEN Le16(4) \o Le32(boot) ELSE <<>>
<1> DEFINE empty == [overflow |-> FALSE, data |-> <<>>]
           word == Le16(4) \o Le32(boot)
           enc == PutWord(empty, word, cap)
<1>1. EncodeTimeSync(boot, cap) = IF enc.overflow THEN <<>> ELSE enc.data
  BY DEF EncodeTimeSync
<1>2. word \in Seq(Byte) /\ Len(word) = 6
  <2> DEFINE a == Le16(4)
             b == Le32(boot)
  <2>1. a \in Seq(Byte) /\ Len(a) = 2 /\ b \in Seq(Byte) /\ Len(b) = 4
    BY Le16Bytes, Le32Bytes
  <2> HIDE DEF a, b
  <2>2. a \o b \in Seq(Byte) /\ Len(a \o b) = 6
    <3>1. a \in Seq(Byte) /\ b \in Seq(Byte)
      BY <2>1
    <3>2. a \o b \in Seq(Byte) /\ Len(a \o b) = Len(a) + Len(b)
      BY <3>1, ConcatLen
    <3> QED
      BY <2>1, <3>2
  <2> QED
    BY <2>2 DEF a, b
<1> HIDE DEF empty, word, enc
<1>3. Holds(enc, <<>> \o word, cap)
  <2>1. Holds(empty, <<>>, cap) /\ <<>> \in Seq(Byte)
    BY EmptyHolds DEF empty
  <2> QED
    BY <1>2, <2>1, PutWordHolds, Zenon DEF enc
<1>4. <<>> \o word = word
  BY <1>2
<1>5. CASE cap >= 6
  <2>1. Len(word) <= cap
    BY <1>2, <1>5
  <2>2. enc.overflow = FALSE /\ enc.data = word
    BY <1>3, <1>4, <2>1, Zenon DEF Holds
  <2> QED
    BY <1>1, <1>5, <2>2, Zenon DEF word
<1>6. CASE ~(cap >= 6)
  <2>1. ~(Len(word) <= cap)
    BY <1>2, <1>6
  <2>2. enc.overflow = TRUE
    BY <1>3, <1>4, <2>1, Zenon DEF Holds
  <2> QED
    BY <1>1, <1>6, <2>2, Zenon
<1> QED
  BY <1>5, <1>6

\* Calls of handlers, with lengths for strings they do not send.
LEMMA HandlerPassed ==
    ASSUME NEW c \in HandlerCall
    PROVE  /\ c.types \in Seq(WireType) /\ Len(c.types) \in 0 .. 2
           /\ \A i \in 1 .. Len(c.types) : c.types[i] \in String <=> c.types[i] = "string"
           /\ Passed(c, [i \in DOMAIN c.types |-> 1], [i \in DOMAIN c.types |-> 0])
<1> DEFINE Kinds == {"word", "dword", "pointer", "string"}
<1>1. PICK n \in 0 .. 2 : c.types \in [1 .. n -> Kinds]
  BY DEF HandlerCall
<1>2. c.inline \in Recorded
  BY DEF HandlerCall, Recorded
<1>3. Len(c.types) = n /\ c.types \in Seq(WireType)
  <2>1. c.types \in [1 .. n -> WireType] /\ n \in Nat
    BY <1>1 DEF WireType
  <2> QED
    BY <2>1, FunctionIsSeq
<1>4. \A i \in 1 .. n : c.types[i] \in Kinds
  BY <1>1
<1>5. DOMAIN c.types = 1 .. n
  BY <1>1
<1>6. Passed(c, [i \in DOMAIN c.types |-> 1], [i \in DOMAIN c.types |-> 0])
  BY <1>2, <1>3, <1>5, ContentFacts DEF Passed, Recorded
<1> QED
  BY <1>3, <1>4, <1>6 DEF String

(***************************************************************************)
(* HandlerSendsTheSame, for every size of the buffer and of what it copies *)
(* of a tag.  HandlerEncodes says the same of any arguments.               *)
(***************************************************************************)
THEOREM HandlersSendTheSame == Spec => []HandlerSendsTheSame
<1>1. HandlerSendsTheSame
  <2>1. ASSUME NEW cap \in 0 .. PayloadMax, NEW c \in HandlerCall
        PROVE  LET v      == [i \in DOMAIN c.types |-> 1]
                   l      == Lens(c, v)
                   packet == Le16(Measured(c, l)) \o Payload(c, v, l)
               IN  EncodeIsr(c, v, cap) =
                     IF Len(packet) <= cap /\ (\A i \in DOMAIN v : c.types[i] # "string")
                     THEN packet ELSE <<>>
    <3> DEFINE v == [i \in DOMAIN c.types |-> 1]
               l == Lens(c, v)
               none == [i \in DOMAIN c.types |-> 0]
               packet == Le16(Measured(c, l)) \o Payload(c, v, l)
               N == Len(c.types)
    <3>1. /\ cap \in Nat /\ N <= 255 /\ DOMAIN c.types = 1 .. N /\ DOMAIN v = 1 .. N
          /\ \A i \in 1 .. N : c.types[i] \in String <=> c.types[i] = "string"
          /\ Passed(c, v, none)
      <4>1. cap \in Nat
        BY ContentFacts
      <4>2. /\ c.types \in Seq(WireType) /\ N \in 0 .. 2 /\ Passed(c, v, none)
            /\ \A i \in 1 .. N : c.types[i] \in String <=> c.types[i] = "string"
        BY HandlerPassed, Zenon
      <4>3. DOMAIN c.types = 1 .. N
        BY <4>2
      <4>4. N <= 255
        <5> HIDE DEF N
        <5> QED
          BY <4>2
      <4> QED
        BY <4>1, <4>2, <4>3, <4>4, Zenon
    <3>2. CASE \E i \in 1 .. N : c.types[i] = "string"
      <4>1. EncodeIsr(c, v, cap) = <<>>
        <5> HIDE DEF v, none
        <5> QED
          BY <3>1, <3>2, HandlerEncodes
      <4> QED
        BY <3>1, <3>2, <4>1
    <3>3. CASE \A i \in 1 .. N : c.types[i] # "string"
      <4>1. l = none
        BY <3>1, <3>3 DEF Lens
      <4> HIDE DEF v, l, none
      <4>2. Passed(c, v, l)
        BY <3>1, <4>1
      <4>3. EncodeIsr(c, v, cap) =
              IF 2 + Len(Payload(c, v, l)) <= cap THEN packet ELSE <<>>
        BY <3>1, <3>3, <4>2, HandlerEncodes
      <4>4. Len(packet) = 2 + Len(Payload(c, v, l))
        <5>1. Payload(c, v, l) \in Seq(Int) /\ Len(Payload(c, v, l)) = Measured(c, l)
          BY <4>2, PassesAgree
        <5>2. Measured(c, l) \in Nat
          BY <5>1
        <5>3. Le16(Measured(c, l)) \in Seq(Int) /\ Len(Le16(Measured(c, l))) = 2
          BY <5>2 DEF Le16
        <5> QED
          BY <5>1, <5>3, ConcatLen
      <4> HIDE DEF packet
      <4>5. EncodeIsr(c, v, cap) =
              IF Len(packet) <= cap /\ (\A i \in DOMAIN v : c.types[i] # "string")
              THEN packet ELSE <<>>
        BY <3>1, <3>3, <4>3, <4>4
      <4> QED
        BY <4>5 DEF v, l, packet
    <3> QED
      BY <3>2, <3>3
  <2>2. ASSUME NEW cap \in 0 .. PayloadMax
        PROVE  EncodeTimeSync(7, cap) = IF cap >= 6 THEN Le16(4) \o Le32(7) ELSE <<>>
    <3>1. cap \in Nat /\ 7 \in Nat
      BY ContentFacts
    <3> QED
      BY <3>1, TimeSyncEncodes
  <2> QED
    BY <2>1, <2>2, Zenon DEF HandlerSendsTheSame
<1> QED
  BY <1>1, PTL

-----------------------------------------------------------------------------
(***************************************************************************)
(* The bounded strings.  Two pieces hold at most six arguments, fewer than *)
(* the mask has bits, so that the scanner marks all that are meant; and a  *)
(* call whose format it scanned keeps its bounds while it is in progress,  *)
(* because only strings change under it.                                   *)
(***************************************************************************)
\* Every argument that is meant and exists is marked.
LEMMA MeantIsMarked ==
    ASSUME NEW c \in Call, HasPlainConversion(Format(c)), NEW k \in Nat,
           k \in Meant(c.format[1], c.format[2]), k < Len(c.types), Len(c.types) <= MaskBits
    PROVE  k \in MarkPrecision(Format(c), Len(c.types))
<1>1. c.format \in Piece \X Piece /\ Len(c.types) \in Nat
  BY WireAssumption
<1> DEFINE one == c.format[1]
           two == c.format[2]
           count == Len(c.types)
<1>2. one \in Piece /\ two \in Piece /\ k \in Meant(one, two)
  BY <1>1
<1>3. Format(c) = Written(one) \o Written(two)
  BY DEF Format
<1>4. count \in Nat /\ count # 0 /\ k < count /\ k < MaskBits
  BY <1>1, MaskAssumption
<1> HIDE DEF one, two, count
<1>5. MarkPrecision(Format(c), count) = {v \in Meant(one, two) : v < count /\ v < MaskBits}
  BY <1>2, <1>3, <1>4, TwoPieces DEF MeantOfTwo
<1> QED
  BY <1>2, <1>4, <1>5 DEF count

\* What the measuring pass records of a call is bounded.
LEMMA LensAreBounded ==
    ASSUME NEW c \in Call, NEW v \in Arguments(c), Fits(c, Lens(c, v)),
           c.scan, HasPlainConversion(Format(c)),
           NEW i \in 2 .. Len(v), i - 1 \in Meant(c.format[1], c.format[2]),
           c.types[i] = "string", c.types[i - 1] = "word",
           v[i - 1] >= 0, Lens(c, v)[i] # Null
    PROVE  Lens(c, v)[i] <= v[i - 1]
<1> DEFINE N == Len(c.types)
           bound == v[i - 1]
           len == v[i]
<1>1. /\ N \in Nat /\ v \in [1 .. N -> Int \cup {Null}]
      /\ \A j \in 1 .. N : c.types[j] \notin String => v[j] \in Int
  BY ArgumentsArePassed DEF Passed
<1>2. v \in Seq(Int \cup {Null}) /\ Len(v) = N
  <2> HIDE DEF N
  <2> QED
    BY <1>1, FunctionIsSeq
<1>3. i \in 1 .. N /\ i - 1 \in 1 .. N /\ i > 1 /\ i - 1 \in Nat /\ i - 1 < N
  BY <1>2
<1>4. bound \in Int /\ bound >= 0
  BY <1>1, <1>3 DEF String
<1>5. len \in Int \cup {Null}
  BY <1>1, <1>3
<1>6. i - 1 \in MarkPrecision(Format(c), N)
  BY <1>3, MeantIsMarked DEF Fits
<1>7. Precision(c, v, i) = bound
  BY <1>3, <1>6 DEF Precision
<1>8. Lens(c, v)[i] = CopyLen(len, Precision(c, v, i))
  BY <1>1, <1>3 DEF Lens, String
<1> HIDE DEF bound, len
<1>9. Lens(c, v)[i] = CopyLen(len, bound)
  BY <1>7, <1>8
<1>10. len # Null => len \in Int
  BY <1>5
<1>11. CopyLen(len, bound) = Null \/ CopyLen(len, bound) <= bound
  BY <1>4, <1>10, WireAssumption DEF CopyLen, Smaller
<1> QED
  BY <1>9, <1>11 DEF bound

BoundInv ==
    /\ LengthInv
    /\ call # NoCall => call \in Call
    /\ CopyIsBounded

LEMMA BoundStep ==
    ASSUME BoundInv, [Next]_vars
    PROVE  BoundInv'
<1>1. LengthInv'
  BY LengthStep DEF BoundInv
<1>2. ASSUME NEW c \in Call, NEW v \in Arguments(c), Measure(c, v)
      PROVE  (call # NoCall => call \in Call)' /\ CopyIsBounded'
  <2>1. call' = c /\ value' = v /\ lens' = Lens(c, v) /\ Fits(c, Lens(c, v))
    BY <1>2 DEF Measure
  <2>2. ASSUME call'.scan, HasPlainConversion(Format(call')), NEW i \in 2 .. Len(value'),
               i - 1 \in Meant(call'.format[1], call'.format[2]),
               call'.types[i] = "string", call'.types[i - 1] = "word",
               value'[i - 1] >= 0, lens'[i] # Null
        PROVE  lens'[i] <= value'[i - 1]
    BY <2>1, <2>2, LensAreBounded
  <2> QED
    BY <2>1, <2>2 DEF CopyIsBounded, Format, HasPlainConversion
<1>3. ASSUME NEW i \in DOMAIN value, NEW n \in StrLen, Change(i, n)
      PROVE  (call # NoCall => call \in Call)' /\ CopyIsBounded'
  <2>1. /\ call' = call /\ lens' = lens /\ value' = [value EXCEPT ![i] = n]
        /\ call.types[i] = "string"
    BY <1>3 DEF Change
  <2>2. ASSUME call # NoCall, NEW j \in 2 .. Len(value'), call.types[j - 1] = "word"
        PROVE  j \in 2 .. Len(value) /\ value'[j - 1] = value[j - 1]
    <3> DEFINE N == Len(call.types)
    <3>1. N \in Nat /\ value \in [1 .. N -> Int \cup {Null}]
      BY <2>2 DEF BoundInv, LengthInv, MeasuredInv, Passed
    <3>2. n \in Int
      BY WireAssumption
    <3> HIDE DEF N
    <3>3. value' \in [1 .. N -> Int \cup {Null}]
      BY <2>1, <3>1, <3>2
    <3>4. Len(value) = N /\ Len(value') = N
      BY <3>1, <3>3, FunctionIsSeq
    <3>5. j \in 2 .. N /\ j - 1 \in 1 .. N
      BY <3>1, <3>4
    <3>6. j - 1 # i
      BY <2>1, <2>2
    <3> QED
      BY <2>1, <3>1, <3>4, <3>5, <3>6
  <2> QED
    BY <2>1, <2>2 DEF BoundInv, CopyIsBounded
<1>4. ASSUME call' = NoCall
      PROVE  (call # NoCall => call \in Call)' /\ CopyIsBounded'
  BY <1>4 DEF CopyIsBounded
<1>5. ASSUME UNCHANGED vars
      PROVE  (call # NoCall => call \in Call)' /\ CopyIsBounded'
  <2>1. call' = call /\ value' = value /\ lens' = lens
    BY <1>5 DEF vars
  <2>2. (call # NoCall => call \in Call) /\ CopyIsBounded
    BY DEF BoundInv
  <2> QED
    BY <2>1, <2>2 DEF CopyIsBounded
<1>6. Emit \/ EmitFails \/ EmitTooLong => call' = NoCall
  BY DEF Emit, EmitFails, EmitTooLong, Emitted
<1> QED
  BY <1>1, <1>2, <1>3, <1>4, <1>5, <1>6 DEF Next, Finished, BoundInv

(***************************************************************************)
(* CopyIsBounded, for any calls, arguments and lengths: with the format    *)
(* scanned, a %.*s string is copied up to its precision and no further,    *)
(* whatever another task makes of the string after it was measured.        *)
(***************************************************************************)
THEOREM CopiesAreBounded == Spec => []CopyIsBounded
<1>1. Init => BoundInv
  <2>1. ASSUME Init PROVE BoundInv
    <3>1. LengthInv /\ call = NoCall
      BY <2>1 DEF Init, LengthInv, MeasuredInv, SentInv
    <3> QED
      BY <3>1 DEF BoundInv, CopyIsBounded
  <2> QED
    BY <2>1
<1>2. BoundInv /\ [Next]_vars => BoundInv'
  BY BoundStep
<1>3. BoundInv => CopyIsBounded
  BY DEF BoundInv
<1> QED
  BY <1>1, <1>2, <1>3, PTL DEF Spec

(***************************************************************************)
(* ScanIsRight, which MarksWhatIsMeant and TellsFormatsApart prove of      *)
(* formats of any number of pieces: the C scanner marks nothing that is    *)
(* not a bounded string, and all of them when one is written plainly; the  *)
(* C++ scanner tells printf formats from {} formats.                       *)
(***************************************************************************)
THEOREM ScanIsRightAlways == Spec => []ScanIsRight
<1>1. ASSUME NEW one \in Piece, NEW two \in Piece
      PROVE  LET format == Written(one) \o Written(two)
                 marked == MarkPrecision(format, MaskBits)
             IN  /\ marked \subseteq Meant(one, two)
                 /\ WrittenPlainly(one) \/ WrittenPlainly(two) => marked = Meant(one, two)
                 /\ UsesPrintfFormat(format) = /\ {one, two} \cap Replacement = {}
                                               /\ {one, two} \cap (Percent \cup Convert) # {}
  <2> DEFINE format == Written(one) \o Written(two)
             marked == MarkPrecision(format, MaskBits)
             meant == MeantOfTwo(one, two, MaskBits)
             prints == /\ {one, two} \cap Replacement = {}
                       /\ {one, two} \cap (Percent \cup Convert) # {}
             plain == WrittenPlainly(one) \/ WrittenPlainly(two)
  <2>1. MaskBits \in Nat /\ MaskBits > 5
    BY MaskAssumption
  <2>2. /\ marked \subseteq meant
        /\ HasPlainConversion(format) => marked = meant
        /\ plain => HasPlainConversion(format)
        /\ UsesPrintfFormat(format) <=> prints
    BY <2>1, TwoPieces
  <2>3. \A v \in Meant(one, two) : v < MaskBits
    <3>1. \A v \in 0 .. 5 : v < MaskBits
      BY <2>1
    <3> QED
      BY <3>1, MeantIsSmall
  <2>4. UsesPrintfFormat(format) \in BOOLEAN /\ prints \in BOOLEAN
    BY DEF UsesPrintfFormat
  <2>5. meant = Meant(one, two)
    BY <2>3 DEF MeantOfTwo
  <2> HIDE DEF format, marked, meant, prints, plain
  <2>6. marked \subseteq Meant(one, two) /\ (plain => marked = Meant(one, two))
    BY <2>2, <2>5, Zenon
  <2>7. UsesPrintfFormat(format) = prints
    BY <2>2, <2>4
  <2> QED
    BY <2>6, <2>7, Zenon DEF format, marked, prints, plain
<1>2. ScanIsRight
  BY <1>1 DEF ScanIsRight
<1> QED
  BY <1>2, PTL

-----------------------------------------------------------------------------
(***************************************************************************)
(* The search for the build-id finds it.  The loop is a recursive function *)
(* of what is left of the region; there is one, because every round leaves *)
(* less.  Then round after round stands at the beginning of a note of      *)
(* those the linker laid out, up to the first build-id.                    *)
(***************************************************************************)
Jumps(f, stop, result, next, n) ==
    /\ f = [i \in 0 .. n |-> f[i]]
    /\ \A i \in 0 .. n : f[i] = IF i \in stop THEN result[i] ELSE f[next[i]]

\* A recursion that goes down ends.
LEMMA JumpsExist ==
    ASSUME NEW n \in Nat, NEW stop, NEW result, NEW next,
           \A i \in 0 .. n : i \notin stop => next[i] \in 0 .. i - 1
    PROVE  \E f : Jumps(f, stop, result, next, n)
<1> DEFINE T == {k \in Nat : k <= n => \E f : Jumps(f, stop, result, next, k)}
<1>1. 0 \in T
  <2> DEFINE f == [i \in 0 .. 0 |-> result[i]]
  <2>1. 0 \in stop
    OBVIOUS
  <2>2. f = [i \in 0 .. 0 |-> f[i]] /\ \A i \in 0 .. 0 : i = 0 /\ f[i] = result[i]
    OBVIOUS
  <2> HIDE DEF f
  <2>3. Jumps(f, stop, result, next, 0)
    BY <2>1, <2>2 DEF Jumps
  <2> QED
    BY <2>3
<1>2. ASSUME NEW k \in Nat, k \in T PROVE k + 1 \in T
  <2>1. SUFFICES ASSUME k + 1 <= n PROVE \E f : Jumps(f, stop, result, next, k + 1)
    OBVIOUS
  <2>2. PICK f : Jumps(f, stop, result, next, k)
    BY <1>2, <2>1
  <2> DEFINE m == k + 1
             last == IF m \in stop THEN result[m] ELSE f[next[m]]
             g == [i \in 0 .. m |-> IF i = m THEN last ELSE f[i]]
  <2>3. m \in 0 .. n /\ m \notin 0 .. k /\ \A i \in 0 .. m : i = m \/ i \in 0 .. k
    BY <2>1
  <2>4. m \notin stop => next[m] \in 0 .. k
    BY <2>3
  <2>5. \A i \in 0 .. k : i \in 0 .. n /\ (i \notin stop => next[i] \in 0 .. k)
    BY <2>1
  <2>6. m \in 0 .. m /\ \A i \in 0 .. k : i \in 0 .. m /\ i # m
    OBVIOUS
  <2> HIDE DEF m
  <2>7. g[m] = last /\ \A i \in 0 .. k : g[i] = f[i]
    BY <2>6
  <2>8. g = [i \in 0 .. m |-> g[i]]
    OBVIOUS
  <2> HIDE DEF g
  <2>9. ASSUME NEW i \in 0 .. m
        PROVE  g[i] = IF i \in stop THEN result[i] ELSE g[next[i]]
    <3>1. CASE i = m
      BY <2>4, <2>7, <3>1
    <3>2. CASE i \in 0 .. k
      <4>1. f[i] = IF i \in stop THEN result[i] ELSE f[next[i]]
        BY <2>2, <3>2 DEF Jumps
      <4> QED
        BY <2>5, <2>7, <3>2, <4>1
    <3> QED
      BY <2>3, <3>1, <3>2
  <2>10. Jumps(g, stop, result, next, m)
    BY <2>8, <2>9 DEF Jumps
  <2> QED
    BY <2>10 DEF m
<1>3. n \in T
  <2> HIDE DEF T
  <2> QED
    BY <1>1, <1>2, SetInduction
<1> QED
  BY <1>3

\* Where a round of the loop ends the search, and with what.
Ends(note, left, align) == left < HeaderLen \/ ~GoesOn(note, left, align)

EndsWith(note, left, at, align, cap) ==
    IF /\ left >= HeaderLen /\ ~Malformed(note, left, align) /\ IsBuildId(note)
       /\ Copied(note, cap)
    THEN Found(at + DescOff(note, align), note.descsz) ELSE NoId

ScanRound(f, mem, len, align, cap) ==
    [left \in 0 .. len |->
       LET note == mem[len - left]
       IN  IF left < HeaderLen \/ Malformed(note, left, align) THEN NoId
           ELSE IF IsBuildId(note)
                THEN IF Copied(note, cap)
                     THEN Found(len - left + DescOff(note, align), note.descsz) ELSE NoId
           ELSE IF IsLast(note, left, align) THEN NoId
           ELSE f[left - NextOff(note, align)]]

\* The search, a round at a time.
LEMMA ScanUnfolds ==
    ASSUME NEW len \in RegionLen, NEW mem \in [0 .. len -> Note], NEW align \in {4, 8},
           NEW cap \in Nat
    PROVE  \E f :
             /\ FindGnuBuildId(mem, len, align, cap) = f[len]
             /\ \A left \in 0 .. len :
                  f[left] = IF Ends(mem[len - left], left, align)
                            THEN EndsWith(mem[len - left], left, len - left, align, cap)
                            ELSE f[left - NextOff(mem[len - left], align)]
<1>1. len \in Nat /\ Word \in Nat /\ len <= Word - 24
  BY ImageIdAssumption DEF RegionLen, HeaderLen
<1> DEFINE stop == {left \in 0 .. len : Ends(mem[len - left], left, align)}
           result == [left \in 0 .. len |->
                       EndsWith(mem[len - left], left, len - left, align, cap)]
           next == [left \in 0 .. len |-> left - NextOff(mem[len - left], align)]
<1>2. ASSUME NEW left \in 0 .. len
      PROVE  mem[len - left] \in Note /\ left \in RegionLen
  BY <1>1 DEF RegionLen, HeaderLen
<1>3. ASSUME NEW left \in 0 .. len, left \notin stop
      PROVE  next[left] \in 0 .. left - 1
  <2> DEFINE note == mem[len - left]
  <2>1. left >= HeaderLen /\ GoesOn(note, left, align) /\ next[left] = left - NextOff(note, align)
    BY <1>3 DEF Ends, HeaderLen
  <2>2. note \in Note /\ left \in RegionLen
    BY <1>2
  <2> HIDE DEF note, next
  <2>3. NextOff(note, align) \in 1 .. left - 1
    BY <2>1, <2>2, RoundStaysInside DEF StaysInside
  <2> QED
    BY <2>1, <2>3
<1> HIDE DEF stop, result, next
<1>4. PICK f : Jumps(f, stop, result, next, len)
  BY <1>1, <1>3, JumpsExist
<1>5. ASSUME NEW f1, NEW left \in 0 .. len
      PROVE  ScanRound(f1, mem, len, align, cap)[left] =
                IF left \in stop THEN result[left] ELSE f1[next[left]]
  <2> DEFINE note == mem[len - left]
             at == len - left
  <2>1. /\ left \in stop <=> Ends(note, left, align)
        /\ result[left] = EndsWith(note, left, at, align, cap)
        /\ next[left] = left - NextOff(note, align)
    BY DEF stop, result, next
  <2>2. ScanRound(f1, mem, len, align, cap)[left] =
           IF left < HeaderLen \/ Malformed(note, left, align) THEN NoId
           ELSE IF IsBuildId(note)
                THEN IF Copied(note, cap)
                     THEN Found(at + DescOff(note, align), note.descsz) ELSE NoId
           ELSE IF IsLast(note, left, align) THEN NoId
           ELSE f1[left - NextOff(note, align)]
    BY DEF ScanRound
  <2>3. ~(left < HeaderLen) <=> left >= HeaderLen
    BY <1>1 DEF HeaderLen
  <2> HIDE DEF note, at
  <2> QED
    BY <2>1, <2>2, <2>3 DEF Ends, EndsWith, GoesOn
<1>6. f = ScanRound(f, mem, len, align, cap)
  <2> DEFINE g == ScanRound(f, mem, len, align, cap)
  <2>1. g = [left \in 0 .. len |-> g[left]]
    BY DEF ScanRound
  <2> HIDE DEF g
  <2>2. \A left \in 0 .. len : g[left] = f[left]
    BY <1>4, <1>5 DEF Jumps, g
  <2>3. f = [left \in 0 .. len |-> f[left]]
    BY <1>4 DEF Jumps
  <2> QED
    BY <2>1, <2>2, <2>3 DEF g
<1> DEFINE scan == CHOOSE g : g = ScanRound(g, mem, len, align, cap)
<1>7. scan = ScanRound(scan, mem, len, align, cap)
  BY <1>6
<1>8. FindGnuBuildId(mem, len, align, cap) = scan[len]
  BY DEF FindGnuBuildId, ScanRound
<1> HIDE DEF scan
<1>9. ASSUME NEW left \in 0 .. len
      PROVE  scan[left] = IF left \in stop THEN result[left] ELSE scan[next[left]]
  BY <1>5, <1>7
<1>10. ASSUME NEW left \in 0 .. len
       PROVE  scan[left] = IF Ends(mem[len - left], left, align)
                           THEN EndsWith(mem[len - left], left, len - left, align, cap)
                           ELSE scan[left - NextOff(mem[len - left], align)]
  BY <1>9 DEF stop, result, next
<1> QED
  BY <1>8, <1>10

-----------------------------------------------------------------------------
\* What a note takes in the region, with its padding.
Extent(note, align) == Padded(HeaderLen + note.namesz, align) + Padded(note.descsz, align)

LEMMA PaddedIs ==
    ASSUME NEW n \in Nat, NEW align \in {4, 8}
    PROVE  Padded(n, align) \in n .. n + align - 1 /\ Padded(n, align) % align = 0
<1>1. CASE align = 4
  BY <1>1 DEF Padded
<1>2. CASE align = 8
  BY <1>2 DEF Padded
<1> QED
  BY <1>1, <1>2

\* Below the width of size_t the code rounds up to the same.
LEMMA RoundUpPads ==
    ASSUME NEW n \in Nat, NEW align \in {4, 8}, n + align - 1 < Word
    PROVE  RoundUp(n, align) = Padded(n, align)
<1>1. /\ RoundUp(n, align) \in n .. n + align - 1 /\ RoundUp(n, align) % align = 0
      /\ Padded(n, align) \in n .. n + align - 1 /\ Padded(n, align) % align = 0
  BY RoundUpBounds, PaddedIs
<1>2. CASE align = 4
  BY <1>1, <1>2
<1>3. CASE align = 8
  BY <1>1, <1>3
<1> QED
  BY <1>2, <1>3

LEMMA PaddedAdds ==
    ASSUME NEW a \in Nat, NEW b \in Nat, NEW align \in {4, 8}, a % align = 0
    PROVE  Padded(a + b, align) = a + Padded(b, align)
<1>1. CASE align = 4
  BY <1>1 DEF Padded
<1>2. CASE align = 8
  BY <1>2 DEF Padded
<1> QED
  BY <1>1, <1>2

\* A note that ends below the width of size_t takes what the code thinks it takes.
LEMMA ExtentIs ==
    ASSUME NEW note \in Note, NEW align \in {4, 8}, Extent(note, align) + 2 * HeaderLen <= Word
    PROVE  /\ DescOff(note, align) = Padded(HeaderLen + note.namesz, align)
           /\ DescOff(note, align) \in Nat /\ DescOff(note, align) >= HeaderLen + note.namesz
           /\ NextOff(note, align) = Extent(note, align)
           /\ Extent(note, align) \in Nat
           /\ Extent(note, align) >= DescOff(note, align) + note.descsz
<1>1. note.namesz \in Nat /\ note.descsz \in Nat /\ Word \in Nat /\ HeaderLen = 12
  BY ImageIdAssumption DEF Note, SizeT, HeaderLen
<1> DEFINE head == HeaderLen + note.namesz
           first == Padded(head, align)
           rest == Padded(note.descsz, align)
<1>2. head \in Nat /\ head >= 12
  BY <1>1
<1> HIDE DEF head
<1>3. /\ first \in head .. head + align - 1 /\ first % align = 0
      /\ rest \in note.descsz .. note.descsz + align - 1
  BY <1>1, <1>2, PaddedIs
<1>4. Padded(first + note.descsz, align) = first + rest
  <2> DEFINE size == note.descsz
  <2>1. first \in Nat /\ size \in Nat
    BY <1>1, <1>2, <1>3
  <2> HIDE DEF size, first, rest
  <2>2. Padded(first + size, align) = first + Padded(size, align)
    BY <1>3, <2>1, PaddedAdds
  <2> QED
    BY <2>2 DEF size, rest
<1>5. Extent(note, align) = first + rest
  BY DEF Extent, head
<1> HIDE DEF first, rest
<1>6. head + align - 1 < Word /\ first + note.descsz + align - 1 < Word
  BY <1>1, <1>2, <1>3, <1>5
<1>7. DescOff(note, align) = first
  BY <1>2, <1>6, RoundUpPads DEF DescOff, head, first
<1>8. first + note.descsz \in Nat
  BY <1>1, <1>2, <1>3
<1>9. NextOff(note, align) = first + rest
  BY <1>4, <1>6, <1>7, <1>8, RoundUpPads DEF NextOff
<1> QED
  BY <1>1, <1>2, <1>3, <1>5, <1>7, <1>9 DEF first, head

StartsRound(f, notes, align) ==
    [k \in 1 .. Len(notes) + 1 |->
       IF k = 1 THEN 0
       ELSE f[k - 1] + Padded(HeaderLen + notes[k - 1].namesz, align)
                     + Padded(notes[k - 1].descsz, align)]

Lays(f, notes, align, n) ==
    /\ f \in [1 .. n -> Nat] /\ f[1] = 0
    /\ \A i \in 1 .. n - 1 : f[i + 1] = f[i] + Extent(notes[i], align)

\* The notes follow each other.
LEMMA StartFollows ==
    ASSUME NEW notes \in Seq(Note), NEW align \in {4, 8}
    PROVE  /\ Start(notes, align, 1) = 0
           /\ \A i \in 1 .. Len(notes) :
                /\ Start(notes, align, i) \in Nat
                /\ Extent(notes[i], align) \in Nat /\ Extent(notes[i], align) >= HeaderLen
                /\ Start(notes, align, i + 1) = Start(notes, align, i) + Extent(notes[i], align)
<1> DEFINE k == Len(notes)
<1>1. k \in Nat
  OBVIOUS
<1>2. ASSUME NEW i \in 1 .. k
      PROVE  /\ Extent(notes[i], align) \in Nat /\ Extent(notes[i], align) >= HeaderLen
             /\ Padded(HeaderLen + notes[i].namesz, align) \in Nat
             /\ Padded(notes[i].descsz, align) \in Nat
  <2>1. notes[i] \in Note
    OBVIOUS
  <2>2. notes[i].namesz \in Nat /\ notes[i].descsz \in Nat /\ HeaderLen = 12
    BY <2>1, ImageIdAssumption DEF Note, SizeT, HeaderLen
  <2>3. HeaderLen + notes[i].namesz \in Nat /\ HeaderLen + notes[i].namesz >= HeaderLen
    BY <2>2
  <2>4. /\ Padded(HeaderLen + notes[i].namesz, align) \in Nat
        /\ Padded(HeaderLen + notes[i].namesz, align) >= HeaderLen
        /\ Padded(notes[i].descsz, align) \in Nat
    <3> DEFINE head == HeaderLen + notes[i].namesz
               size == notes[i].descsz
    <3>1. head \in Nat /\ size \in Nat /\ head >= HeaderLen /\ HeaderLen \in Nat
      BY <2>2, <2>3
    <3> HIDE DEF head, size
    <3>2. Padded(head, align) \in head .. head + align - 1 /\ Padded(size, align) \in size .. size + align - 1
      BY <3>1, PaddedIs
    <3> QED
      BY <3>1, <3>2 DEF head, size
  <2> QED
    BY <2>2, <2>4 DEF Extent
<1> DEFINE T == {n \in Nat : n <= k => \E f : Lays(f, notes, align, n + 1)}
<1> HIDE DEF k
<1>3. 0 \in T
  <2>1. Lays([i \in 1 .. 1 |-> 0], notes, align, 1)
    BY DEF Lays
  <2>2. 0 + 1 = 1
    OBVIOUS
  <2> QED
    BY <2>1, <2>2
<1>4. ASSUME NEW n \in Nat, n \in T PROVE n + 1 \in T
  <2>1. SUFFICES ASSUME n + 1 <= k PROVE \E f : Lays(f, notes, align, (n + 1) + 1)
    OBVIOUS
  <2>2. PICK f : Lays(f, notes, align, n + 1)
    BY <1>1, <1>4, <2>1
  <2> DEFINE last == f[n + 1] + Extent(notes[n + 1], align)
             g == [i \in 1 .. (n + 1) + 1 |-> IF i = n + 2 THEN last ELSE f[i]]
  <2>3. /\ f \in [1 .. n + 1 -> Nat] /\ f[1] = 0
        /\ \A i \in 1 .. n : f[i + 1] = f[i] + Extent(notes[i], align)
    BY <2>2 DEF Lays
  <2>4. last \in Nat
    <3>1. n + 1 \in 1 .. k /\ n + 1 \in 1 .. n + 1
      BY <1>1, <2>1
    <3> QED
      BY <1>2, <2>3, <3>1
  <2>5. /\ g \in [1 .. (n + 1) + 1 -> Nat] /\ g[(n + 1) + 1] = last
        /\ \A i \in 1 .. n + 1 : g[i] = f[i]
    <3> HIDE DEF last
    <3> QED
      BY <2>3, <2>4
  <2> HIDE DEF g
  <2>6. ASSUME NEW i \in 1 .. n + 1 PROVE g[i + 1] = g[i] + Extent(notes[i], align)
    <3>1. CASE i = n + 1
      BY <2>5, <3>1 DEF last
    <3>2. CASE i \in 1 .. n
      <4>1. i + 1 \in 1 .. n + 1
        BY <3>2
      <4> QED
        BY <2>3, <2>5, <3>2, <4>1
    <3> QED
      BY <3>1, <3>2
  <2>7. Lays(g, notes, align, (n + 1) + 1)
    BY <2>3, <2>5, <2>6 DEF Lays
  <2> QED
    BY <2>7
<1>5. k \in T
  <2> HIDE DEF T
  <2> QED
    BY <1>1, <1>3, <1>4, SetInduction
<1>6. PICK f : Lays(f, notes, align, k + 1)
  BY <1>1, <1>5
<1>7. ASSUME NEW g, NEW i \in 1 .. k + 1
      PROVE  StartsRound(g, notes, align)[i] =
                IF i = 1 THEN 0
                ELSE g[i - 1] + Padded(HeaderLen + notes[i - 1].namesz, align)
                              + Padded(notes[i - 1].descsz, align)
  BY DEF StartsRound, k
<1>8. ASSUME NEW i \in 1 .. k, NEW g, g[i] \in Nat
      PROVE  StartsRound(g, notes, align)[i + 1] = g[i] + Extent(notes[i], align)
  <2>1. i + 1 \in 1 .. k + 1 /\ i + 1 # 1 /\ (i + 1) - 1 = i
    BY <1>1
  <2>2. StartsRound(g, notes, align)[i + 1] =
           g[i] + Padded(HeaderLen + notes[i].namesz, align) + Padded(notes[i].descsz, align)
    BY <1>7, <2>1
  <2> QED
    BY <1>2, <1>8, <2>2 DEF Extent
<1>9. f = StartsRound(f, notes, align)
  <2> DEFINE g == StartsRound(f, notes, align)
  <2>1. g = [i \in 1 .. k + 1 |-> g[i]]
    BY DEF StartsRound, k
  <2>2. f = [i \in 1 .. k + 1 |-> f[i]] /\ f[1] = 0 /\ \A i \in 1 .. k + 1 : f[i] \in Nat
    BY <1>6 DEF Lays
  <2>3. \A i \in 1 .. k : f[i + 1] = f[i] + Extent(notes[i], align)
    BY <1>1, <1>6 DEF Lays
  <2>4. ASSUME NEW i \in 1 .. k + 1 PROVE g[i] = f[i]
    <3>1. CASE i = 1
      BY <1>7, <2>2, <3>1
    <3>2. CASE i # 1
      <4>1. i - 1 \in 1 .. k /\ (i - 1) + 1 = i /\ f[i - 1] \in Nat
        BY <1>1, <2>2, <3>2
      <4>2. f[(i - 1) + 1] = f[i - 1] + Extent(notes[i - 1], align)
        BY <2>3, <4>1, Zenon
      <4>3. g[(i - 1) + 1] = f[i - 1] + Extent(notes[i - 1], align)
        BY <1>8, <4>1, Zenon
      <4> QED
        BY <4>1, <4>2, <4>3
    <3> QED
      BY <3>1, <3>2
  <2> HIDE DEF g
  <2> QED
    BY <2>1, <2>2, <2>4 DEF g
<1> DEFINE starts == CHOOSE g : g = StartsRound(g, notes, align)
<1>10. starts = StartsRound(starts, notes, align)
  BY <1>9
<1>11. \A i : Start(notes, align, i) = starts[i]
  BY DEF Start, StartsRound
<1> HIDE DEF starts
<1>12. starts[1] = 0
  <2>1. 1 \in 1 .. k + 1
    BY <1>1
  <2> QED
    BY <1>7, <1>10, <2>1
<1> DEFINE U == {n \in Nat : n <= k => starts[n + 1] \in Nat}
<1>13. \A n \in Nat : n \in U => n + 1 \in U
  <2>1. ASSUME NEW n \in Nat, n \in U, n + 1 <= k PROVE starts[(n + 1) + 1] \in Nat
    <3>1. n + 1 \in 1 .. k /\ starts[n + 1] \in Nat
      BY <1>1, <2>1
    <3>2. starts[(n + 1) + 1] = starts[n + 1] + Extent(notes[n + 1], align)
      BY <1>8, <1>10, <3>1
    <3> QED
      BY <1>2, <3>1, <3>2
  <2> QED
    BY <2>1
<1>14. 0 \in U
  BY <1>12
<1>15. Nat \subseteq U
  <2> HIDE DEF U
  <2> QED
    BY <1>13, <1>14, SetInduction
<1>16. ASSUME NEW i \in 1 .. k
       PROVE  starts[i] \in Nat /\ starts[i + 1] = starts[i] + Extent(notes[i], align)
  <2>1. i - 1 \in Nat /\ i - 1 <= k /\ (i - 1) + 1 = i
    BY <1>1
  <2>2. starts[i] \in Nat
    BY <1>15, <2>1
  <2> QED
    BY <1>8, <1>10, <2>2
<1> QED
  BY <1>2, <1>11, <1>12, <1>16 DEF k

LEMMA StartsIncrease ==
    ASSUME NEW notes \in Seq(Note), NEW align \in {4, 8},
           NEW i \in 1 .. Len(notes) + 1, NEW j \in 1 .. Len(notes) + 1, i < j
    PROVE  Start(notes, align, i) + HeaderLen <= Start(notes, align, j)
<1> DEFINE k == Len(notes)
           s(n) == Start(notes, align, n)
           T == {d \in Nat : i + d + 1 <= k + 1 => s(i) + HeaderLen <= s(i + d + 1)}
<1>1. k \in Nat /\ HeaderLen = 12
  BY DEF HeaderLen
<1>2. \A n \in 1 .. k : /\ s(n) \in Nat /\ s(n + 1) \in Nat /\ s(n) + HeaderLen <= s(n + 1)
  <2>1. ASSUME NEW n \in 1 .. k
        PROVE  /\ s(n) \in Nat /\ s(n + 1) \in Nat /\ s(n) + HeaderLen <= s(n + 1)
    <3> DEFINE size == Extent(notes[n], align)
    <3>1. s(n) \in Nat /\ size \in Nat /\ size >= HeaderLen /\ s(n + 1) = s(n) + size
      BY StartFollows
    <3> HIDE DEF s, size
    <3> QED
      BY <1>1, <3>1
  <2> QED
    BY <2>1
<1> HIDE DEF s, k
<1>3. 0 \in T
  <2>1. i + 0 + 1 = i + 1 /\ (i + 1 <= k + 1 => i \in 1 .. k)
    BY <1>1 DEF k
  <2> QED
    BY <1>2, <2>1
<1>4. ASSUME NEW d \in Nat, d \in T PROVE d + 1 \in T
  <2>1. SUFFICES ASSUME i + (d + 1) + 1 <= k + 1
                 PROVE  s(i) + HeaderLen <= s(i + (d + 1) + 1)
    OBVIOUS
  <2> DEFINE n == i + d + 1
  <2>2. n \in 1 .. k /\ i \in 1 .. k /\ i + (d + 1) + 1 = n + 1
    BY <1>1, <2>1 DEF k
  <2>3. s(i) + HeaderLen <= s(n)
    BY <1>1, <1>4, <2>2
  <2> HIDE DEF n
  <2>4. s(n) \in Nat /\ s(n + 1) \in Nat /\ s(n) + HeaderLen <= s(n + 1) /\ s(i) \in Nat
    BY <1>2, <2>2
  <2>5. s(i) + HeaderLen <= s(n + 1)
    BY <1>1, <2>3, <2>4
  <2> QED
    BY <2>2, <2>5, Zenon
<1>5. j - i - 1 \in T
  <2>1. j - i - 1 \in Nat
    BY DEF k
  <2> HIDE DEF T
  <2> QED
    BY <1>3, <1>4, <2>1, SetInduction
<1>6. i + (j - i - 1) + 1 = j /\ j <= k + 1
  BY DEF k
<1> QED
  BY <1>5, <1>6 DEF s

(***************************************************************************)
(* A region as the linker leaves it: notes one behind the other, padded,   *)
(* as many as fit the address space, perhaps without the last bytes.       *)
(***************************************************************************)
Laid(notes, align, p_align, cut) ==
    /\ notes \in Seq(Note) /\ align \in {4, 8} /\ Alignment(p_align) = align
    /\ Start(notes, align, Len(notes) + 1) \in RegionLen
    /\ cut \in 0 .. Start(notes, align, Len(notes) + 1)

LEMMA TotalIs ==
    ASSUME NEW notes \in Seq(Note), NEW align \in {4, 8}
    PROVE  /\ \A i \in 1 .. Len(notes) + 1 : Start(notes, align, i) \in Nat
           /\ \A i \in 1 .. Len(notes) :
                Start(notes, align, i + 1) <= Start(notes, align, Len(notes) + 1)
<1> DEFINE k == Len(notes)
           s(n) == Start(notes, align, n)
<1>1. k \in Nat
  OBVIOUS
<1>2. ASSUME NEW i \in 1 .. k + 1 PROVE s(i) \in Nat
  <2>1. CASE i = 1
    BY <2>1, StartFollows
  <2>2. CASE i # 1
    <3>1. i - 1 \in 1 .. k /\ (i - 1) + 1 = i
      BY <1>1, <2>2
    <3>2. s(i - 1) \in Nat /\ Extent(notes[i - 1], align) \in Nat
          /\ s((i - 1) + 1) = s(i - 1) + Extent(notes[i - 1], align)
      BY <3>1, StartFollows
    <3> HIDE DEF s
    <3> QED
      BY <3>1, <3>2
  <2> QED
    BY <2>1, <2>2
<1>3. ASSUME NEW i \in 1 .. k PROVE s(i + 1) <= s(k + 1)
  <2>1. CASE i = k
    <3>1. s(k + 1) \in Nat
      BY <1>1, <1>2
    <3> HIDE DEF s
    <3> QED
      BY <2>1, <3>1
  <2>2. CASE i # k
    <3>1. i + 1 \in 1 .. k + 1 /\ k + 1 \in 1 .. k + 1 /\ i + 1 < k + 1
      BY <1>1, <2>2
    <3>2. s(i + 1) + HeaderLen <= s(k + 1) /\ s(i + 1) \in Nat /\ s(k + 1) \in Nat
      BY <1>2, <3>1, StartsIncrease
    <3> HIDE DEF s
    <3> QED
      BY <3>2 DEF HeaderLen
  <2> QED
    BY <2>1, <2>2
<1> QED
  BY <1>2, <1>3

\* What a reader of the region finds at the beginning of a note.
LEMMA MemoryIs ==
    ASSUME NEW notes, NEW align, NEW p_align, NEW cut, Laid(notes, align, p_align, cut)
    PROVE  LET segment == Segment(notes, align, p_align, cut)
           IN  /\ segment.len = Start(notes, align, Len(notes) + 1) - cut
               /\ segment.len \in RegionLen /\ segment.align = p_align
               /\ segment.mem \in [0 .. segment.len -> Note]
               /\ \A i \in 1 .. Len(notes) :
                    Start(notes, align, i) <= segment.len =>
                       segment.mem[Start(notes, align, i)] = notes[i]
<1> DEFINE k == Len(notes)
           s(n) == Start(notes, align, n)
           len == s(k + 1) - cut
           here(o) == \E i \in DOMAIN notes : s(i) = o
           which(o) == CHOOSE i \in DOMAIN notes : s(i) = o
           mem == [o \in 0 .. len |-> IF here(o) THEN notes[which(o)] ELSE Trap]
<1>1. /\ notes \in Seq(Note) /\ align \in {4, 8} /\ k \in Nat /\ DOMAIN notes = 1 .. k
      /\ s(k + 1) \in RegionLen /\ cut \in 0 .. s(k + 1)
  BY DEF Laid
<1>2. /\ Segment(notes, align, p_align, cut).len = len
      /\ Segment(notes, align, p_align, cut).align = p_align
      /\ Segment(notes, align, p_align, cut).mem = mem
  BY DEF Segment
<1>3. Word \in Nat /\ Word > 64
  BY ImageIdAssumption
<1>4. len \in RegionLen
  <2> HIDE DEF s
  <2> QED
    BY <1>1, <1>3 DEF RegionLen, HeaderLen
<1>5. Trap \in Note
  BY <1>3 DEF Trap, Note, SizeT, BuildIdNote
<1> HIDE DEF len
<1>6. ASSUME NEW o \in 0 .. len
      PROVE  (IF here(o) THEN notes[which(o)] ELSE Trap) \in Note
  <2>1. CASE here(o)
    <3>1. which(o) \in DOMAIN notes
      BY <2>1
    <3> HIDE DEF which
    <3>2. notes[which(o)] \in Note
      BY <1>1, <3>1
    <3> QED
      BY <2>1, <3>2
  <2>2. CASE ~here(o)
    BY <1>5, <2>2
  <2> QED
    BY <2>1, <2>2
<1>7. mem \in [0 .. len -> Note]
  <2> HIDE DEF here, which
  <2> QED
    BY <1>6
<1>8. ASSUME NEW i \in 1 .. k, s(i) <= len
      PROVE  mem[s(i)] = notes[i]
  <2>1. s(i) \in 0 .. len
    <3>1. s(i) \in Nat
      BY <1>1, StartFollows
    <3>2. len \in Int
      BY <1>4 DEF RegionLen
    <3> HIDE DEF s
    <3> QED
      BY <1>8, <3>1, <3>2
  <2>2. ASSUME NEW j \in 1 .. k, s(j) = s(i) PROVE j = i
    <3>1. i \in 1 .. k + 1 /\ j \in 1 .. k + 1 /\ (j = i \/ j < i \/ i < j)
      BY <1>1
    <3>2. s(i) \in Nat /\ s(j) \in Nat
      BY <1>1, StartFollows
    <3>3. (i < j => s(i) + HeaderLen <= s(j)) /\ (j < i => s(j) + HeaderLen <= s(i))
      BY <1>1, <3>1, StartsIncrease
    <3> HIDE DEF s
    <3> QED
      BY <2>2, <3>1, <3>2, <3>3 DEF HeaderLen
  <2>3. here(s(i)) /\ which(s(i)) = i
    BY <1>1, <2>2
  <2> HIDE DEF here, which, s
  <2> QED
    BY <2>1, <2>3
<1> QED
  BY <1>1, <1>2, <1>4, <1>7, <1>8 DEF len

\* Where note i begins to be an ID, and how long it is.
IdAt(notes, align, i) == Start(notes, align, i) + Padded(HeaderLen + notes[i].namesz, align)

\* The reference: no build-id, or the first one, if the region holds it.
LEMMA MeantIdIs ==
    ASSUME NEW notes \in Seq(Note), NEW align, NEW len
    PROVE  /\ (\A i \in 1 .. Len(notes) : ~IsBuildId(notes[i])) => MeantId(notes, align, len) = NoId
           /\ \A i \in 1 .. Len(notes) :
                IsBuildId(notes[i]) /\ (\A j \in 1 .. i - 1 : ~IsBuildId(notes[j])) =>
                   MeantId(notes, align, len) =
                      IF /\ notes[i].descsz \in 1 .. IdMax
                         /\ IdAt(notes, align, i) + notes[i].descsz <= len
                      THEN Found(IdAt(notes, align, i), notes[i].descsz) ELSE NoId
<1> DEFINE k == Len(notes)
           ids == {i \in DOMAIN notes : IsBuildId(notes[i])}
           first == CHOOSE i \in ids : \A j \in ids : i <= j
           at == Start(notes, align, first) + Padded(HeaderLen + notes[first].namesz, align)
<1>1. k \in Nat /\ DOMAIN notes = 1 .. k
  OBVIOUS
<1>2. MeantId(notes, align, len) =
         IF ids = {} THEN NoId
         ELSE IF notes[first].descsz \in 1 .. IdMax /\ at + notes[first].descsz <= len
              THEN Found(at, notes[first].descsz) ELSE NoId
  BY DEF MeantId
<1>3. ASSUME \A i \in 1 .. k : ~IsBuildId(notes[i]) PROVE ids = {}
  BY <1>1, <1>3
<1>4. ASSUME NEW i \in 1 .. k, IsBuildId(notes[i]), \A j \in 1 .. i - 1 : ~IsBuildId(notes[j])
      PROVE  ids # {} /\ first = i
  <2>1. i \in ids
    BY <1>1, <1>4
  <2>2. \A j \in ids : i <= j
    BY <1>1, <1>4
  <2>3. \A j \in ids : j \in Nat
    BY <1>1
  <2> HIDE DEF ids
  <2>4. \A m \in ids : (\A j \in ids : m <= j) => m = i
    BY <2>1, <2>2, <2>3
  <2> QED
    BY <2>1, <2>2, <2>4
<1> HIDE DEF ids, first
<1> QED
  BY <1>2, <1>3, <1>4 DEF IdAt

(***************************************************************************)
(* on9log_find_gnu_build_id returns the first build-id of the notes it is  *)
(* given, if it is whole and fits the caller's array, and nothing else:    *)
(* for any number of notes of any sizes, however p_align pads them and     *)
(* wherever the region was cut short.                                      *)
(***************************************************************************)
THEOREM BuildIdIsFound ==
    ASSUME NEW notes, NEW align, NEW p_align, NEW cut, Laid(notes, align, p_align, cut)
    PROVE  LET segment == Segment(notes, align, p_align, cut)
           IN  FindGnuBuildId(segment.mem, segment.len, Alignment(segment.align), IdMax)
                  = MeantId(notes, align, segment.len)
<1> DEFINE k == Len(notes)
           s(n) == Start(notes, align, n)
           len == Segment(notes, align, p_align, cut).len
           mem == Segment(notes, align, p_align, cut).mem
           meant == MeantId(notes, align, len)
<1>1. /\ notes \in Seq(Note) /\ align \in {4, 8} /\ k \in Nat
      /\ s(k + 1) \in RegionLen /\ cut \in 0 .. s(k + 1)
  BY DEF Laid
<1>2. /\ Alignment(Segment(notes, align, p_align, cut).align) = align
      /\ len = s(k + 1) - cut /\ len \in RegionLen
      /\ mem \in [0 .. len -> Note]
      /\ \A i \in 1 .. k : s(i) <= len => mem[s(i)] = notes[i]
  BY MemoryIs DEF Laid
<1>3. /\ s(1) = 0
      /\ \A i \in 1 .. k + 1 : s(i) \in Nat
      /\ \A i \in 1 .. k : /\ s(i + 1) <= s(k + 1)
                           /\ s(i + 1) = s(i) + Extent(notes[i], align)
  BY <1>1, StartFollows, TotalIs
<1>4. \A i, j \in 1 .. k + 1 : i < j => s(i) + HeaderLen <= s(j)
  BY <1>1, StartsIncrease
<1>5. /\ (\A i \in 1 .. k : ~IsBuildId(notes[i])) => meant = NoId
      /\ \A i \in 1 .. k :
           IsBuildId(notes[i]) /\ (\A j \in 1 .. i - 1 : ~IsBuildId(notes[j])) =>
              meant = IF /\ notes[i].descsz \in 1 .. IdMax
                         /\ IdAt(notes, align, i) + notes[i].descsz <= len
                      THEN Found(IdAt(notes, align, i), notes[i].descsz) ELSE NoId
  BY <1>1, MeantIdIs
<1>6. HeaderLen = 12 /\ Word \in Nat /\ IdMax \in Nat /\ len \in Nat /\ len + 24 <= Word
      /\ s(k + 1) \in Nat /\ s(k + 1) + 24 <= Word
  BY <1>1, <1>2, ImageIdAssumption DEF HeaderLen, RegionLen
<1>7. \A i \in 1 .. k : IdAt(notes, align, i) = s(i) + Padded(HeaderLen + notes[i].namesz, align)
  BY DEF IdAt
<1> HIDE DEF s, len, mem, meant
<1>8. PICK f :
         /\ FindGnuBuildId(mem, len, align, IdMax) = f[len]
         /\ \A left \in 0 .. len :
              f[left] = IF Ends(mem[len - left], left, align)
                        THEN EndsWith(mem[len - left], left, len - left, align, IdMax)
                        ELSE f[left - NextOff(mem[len - left], align)]
  <2>1. len \in RegionLen /\ mem \in [0 .. len -> Note] /\ align \in {4, 8} /\ IdMax \in Nat
    BY <1>1, <1>2, <1>6, Zenon
  <2> QED
    BY <2>1, ScanUnfolds, ZenonT(40)
\* A note, where it ends, and what the code makes of its sizes.
<1>9. ASSUME NEW i \in 1 .. k
      PROVE  /\ notes[i].namesz \in Nat /\ notes[i].descsz \in Nat
             /\ DescOff(notes[i], align) \in Nat
             /\ IdAt(notes, align, i) = s(i) + DescOff(notes[i], align)
             /\ DescOff(notes[i], align) >= HeaderLen + notes[i].namesz
             /\ NextOff(notes[i], align) \in Nat
             /\ NextOff(notes[i], align) >= DescOff(notes[i], align) + notes[i].descsz
             /\ s(i + 1) = s(i) + NextOff(notes[i], align)
             /\ s(i) \in Nat /\ s(i + 1) \in Nat
  <2> DEFINE size == Extent(notes[i], align)
  <2>1. notes[i] \in Note
    BY <1>1
  <2>2. notes[i].namesz \in Nat /\ notes[i].descsz \in Nat
    BY <1>6, <2>1 DEF Note, SizeT
  <2>3. i + 1 \in 1 .. k + 1 /\ i \in 1 .. k + 1
    BY <1>1
  <2>4. /\ s(i) \in Nat /\ s(i + 1) \in Nat /\ s(i + 1) <= s(k + 1) /\ s(i + 1) = s(i) + size
        /\ size \in Nat
    BY <1>1, <1>3, <2>3, StartFollows
  <2> HIDE DEF size
  <2>5. size + 2 * HeaderLen <= Word
    BY <1>6, <2>4
  <2> QED
    BY <1>1, <1>7, <2>1, <2>2, <2>4, <2>5, ExtentIs DEF size
\* Past the end of the region there is no ID.
<1>10. ASSUME NEW i \in 1 .. k + 1, \A j \in 1 .. i - 1 : ~IsBuildId(notes[j]), s(i) >= len
       PROVE  meant = NoId
  <2>1. CASE \A j \in 1 .. k : ~IsBuildId(notes[j])
    BY <1>5, <2>1
  <2>2. CASE \E j \in 1 .. k : IsBuildId(notes[j])
    <3> DEFINE ids == {j \in 1 .. k : IsBuildId(notes[j])}
    <3>1. ids \subseteq Nat /\ ids # {}
      BY <2>2
    <3>2. PICK m \in ids : \A j \in ids : m <= j
      BY <3>1, Smallest
    <3>3. m \in 1 .. k /\ IsBuildId(notes[m]) /\ \A j \in 1 .. m - 1 : ~IsBuildId(notes[j])
      BY <1>1, <3>2
    <3>4. i <= m
      BY <1>1, <1>10, <3>3
    <3>5. s(i) <= s(m) /\ s(i) \in Nat /\ s(m) \in Nat
      <4>1. m \in 1 .. k + 1 /\ s(i) \in Nat /\ s(m) \in Nat
        BY <1>1, <1>3, <3>3
      <4>2. i < m => s(i) + HeaderLen <= s(m)
        BY <1>4, <4>1
      <4> QED
        BY <1>6, <3>4, <4>1, <4>2
    <3>6. IdAt(notes, align, m) > len /\ IdAt(notes, align, m) \in Nat /\ notes[m].descsz \in Nat
      <4> DEFINE off == DescOff(notes[m], align)
      <4>1. /\ IdAt(notes, align, m) = s(m) + off /\ off \in Nat /\ notes[m].descsz \in Nat
            /\ notes[m].namesz \in Nat /\ off >= HeaderLen + notes[m].namesz
        BY <1>9, <3>3
      <4> HIDE DEF off
      <4>2. s(m) + off \in Nat /\ s(m) + off > len
        <5> DEFINE here == s(m)
                   limit == s(i)
                   name == notes[m].namesz
        <5>1. /\ here \in Nat /\ limit \in Nat /\ limit <= here /\ limit >= len /\ name \in Nat
              /\ off >= HeaderLen + name /\ off \in Nat /\ len \in Nat /\ HeaderLen = 12
          BY <1>6, <1>10, <3>5, <4>1, Zenon
        <5> HIDE DEF here, limit, name
        <5>2. here + off \in Nat /\ here + off > len
          BY <5>1
        <5> QED
          BY <5>2 DEF here
      <4> QED
        BY <4>1, <4>2, Zenon
    <3>7. ~(IdAt(notes, align, m) + notes[m].descsz <= len)
      BY <1>6, <3>6, SMTT(40)
    <3> QED
      BY <1>5, <3>3, <3>7
  <2> QED
    BY <2>1, <2>2
<1> DEFINE Stands(i) == /\ s(i) <= len /\ f[len] = f[len - s(i)]
                        /\ \A j \in 1 .. i - 1 : ~IsBuildId(notes[j])
           T == {i \in Nat : i <= k => f[len] = meant \/ Stands(i + 1)}
<1>11. 0 \in T
  BY <1>3, <1>6
<1>12. ASSUME NEW i \in 1 .. k, Stands(i)
       PROVE  f[len] = meant \/ Stands(i + 1)
  <2> DEFINE note == notes[i]
             here == s(i)
             there == s(i + 1)
             left == len - here
             off == DescOff(note, align)
             next == NextOff(note, align)
             name == note.namesz
             size == note.descsz
  <2>1. /\ name \in Nat /\ size \in Nat /\ off \in Nat
        /\ IdAt(notes, align, i) = here + off /\ off >= HeaderLen + name
        /\ next \in Nat /\ next >= off + size
        /\ there = here + next /\ here \in Nat /\ there \in Nat
    BY <1>9, Zenon
  <2>2. here <= len /\ f[len] = f[left] /\ mem[here] = note
    BY <1>2, <1>12
  <2>3. note.namesz = name /\ note.descsz = size /\ DescOff(note, align) = off
        /\ NextOff(note, align) = next
    OBVIOUS
  <2> HIDE DEF note, here, there, off, next, name, size
  <2>4. left \in 0 .. len /\ len - left = here
    BY <1>6, <2>1, <2>2
  <2>5. f[len] = IF Ends(note, left, align)
                 THEN EndsWith(note, left, here, align, IdMax)
                 ELSE f[left - next]
    BY <1>8, <2>2, <2>3, <2>4
  <2>6. left = len - here
    OBVIOUS
  <2> HIDE DEF left
  <2>7. Malformed(note, left, align) \/ left < HeaderLen <=> off + size > left
    <3>1. Malformed(note, left, align) <=> name > left - HeaderLen \/ off > left \/ size > left - off
      BY <2>3 DEF Malformed
    <3>2. left \in Nat
      BY <1>6, <2>4
    <3>3. name > left - HeaderLen \/ off > left \/ size > left - off \/ left < HeaderLen
             <=> off + size > left
      BY <1>6, <2>1, <3>2
    <3> QED
      BY <3>1, <3>3
  <2>8. i \in 1 .. k + 1 /\ i + 1 \in 1 .. k + 1
    BY <1>1
  <2>9. CASE IsBuildId(note)
    <3>1. meant = IF size \in 1 .. IdMax /\ here + off + size <= len
                  THEN Found(here + off, size) ELSE NoId
      BY <1>5, <1>12, <2>1, <2>3, <2>9 DEF note
    <3>2. Ends(note, left, align)
      BY <2>9 DEF Ends, GoesOn
    <3>3. here + off + size <= len <=> ~(off + size > left)
      BY <1>6, <2>1, <2>4, <2>6
    <3>4. size \in 1 .. IdMax <=> Copied(note, IdMax)
      <4>1. size \in 1 .. IdMax <=> size # 0 /\ size <= IdMax
        BY <1>6, <2>1
      <4> QED
        BY <2>3, <4>1 DEF Copied
    <3>5. left >= HeaderLen <=> ~(left < HeaderLen)
      BY <1>6, <2>4
    <3>6. EndsWith(note, left, here, align, IdMax) =
             IF ~(off + size > left) /\ Copied(note, IdMax) THEN Found(here + off, size) ELSE NoId
      BY <2>3, <2>7, <2>9, <3>5 DEF EndsWith
    <3>7. meant = IF ~(off + size > left) /\ Copied(note, IdMax)
                  THEN Found(here + off, size) ELSE NoId
      BY <3>1, <3>3, <3>4
    <3> QED
      BY <2>5, <3>2, <3>6, <3>7
  <2>10. CASE ~IsBuildId(note)
    <3>1. EndsWith(note, left, here, align, IdMax) = NoId
      BY <2>10 DEF EndsWith
    <3>2. \A j \in 1 .. (i + 1) - 1 : ~IsBuildId(notes[j])
      BY <1>1, <1>12, <2>10 DEF note
    <3>3. CASE Ends(note, left, align)
      <4>1. off + size > left \/ next >= left
        BY <2>3, <2>7, <2>10, <3>3 DEF Ends, GoesOn, IsLast
      <4>2. there >= len
        BY <1>6, <2>1, <2>4, <2>6, <4>1
      <4>3. meant = NoId
        BY <1>10, <2>8, <3>2, <4>2 DEF there
      <4> QED
        BY <2>5, <3>1, <3>3, <4>3
    <3>4. CASE ~Ends(note, left, align)
      <4>1. ~(next >= left)
        BY <2>3, <3>4 DEF Ends, GoesOn, IsLast
      <4>2. there <= len /\ left - next = len - there
        BY <1>6, <2>1, <2>4, <2>6, <4>1
      <4> QED
        BY <2>5, <3>2, <3>4, <4>2 DEF there
    <3> QED
      BY <3>3, <3>4
  <2> QED
    BY <2>9, <2>10
<1>13. ASSUME NEW i \in Nat, i \in T PROVE i + 1 \in T
  <2>1. ASSUME i + 1 <= k PROVE f[len] = meant \/ Stands((i + 1) + 1)
    <3>1. i + 1 \in 1 .. k
      BY <1>1, <2>1
    <3>2. f[len] = meant \/ Stands(i + 1)
      BY <1>1, <1>13, <2>1
    <3> HIDE DEF Stands
    <3> QED
      BY <1>12, <3>1, <3>2
  <2> QED
    BY <2>1
<1>14. f[len] = meant \/ Stands(k + 1)
  <2>1. k \in T
    <3> HIDE DEF T
    <3> QED
      BY <1>1, <1>11, <1>13, SetInduction
  <2> QED
    BY <1>1, <2>1
<1>15. ASSUME Stands(k + 1) PROVE f[len] = meant
  <2>1. s(k + 1) = len
    BY <1>1, <1>2, <1>6, <1>15, SMTT(40)
  <2>2. f[len] = f[0]
    BY <1>6, <1>15, <2>1
  <2>3. 0 \in 0 .. len /\ Ends(mem[len - 0], 0, align) /\ ~(0 >= HeaderLen)
    BY <1>6 DEF Ends
  <2>4. f[0] = NoId
    BY <1>8, <2>3 DEF EndsWith
  <2>5. k + 1 \in 1 .. k + 1 /\ s(k + 1) >= len
    BY <1>1, <1>6, <2>1
  <2>6. meant = NoId
    BY <1>10, <1>15, <2>5
  <2> QED
    BY <2>2, <2>4, <2>6
<1>16. FindGnuBuildId(mem, len, align, IdMax) = meant
  BY <1>8, <1>14, <1>15
<1> QED
  BY <1>2, <1>16 DEF len, mem, meant

\* The ID a segment holds, as FromElf asks for it.
IdOf(segment, cap) ==
    FindGnuBuildId(segment.mem, segment.len, Alignment(segment.align), cap)

SegmentRound(f, segments, cap) ==
    [i \in 1 .. Len(segments) + 1 |->
       IF i > Len(segments) THEN <<0, NoId>>
       ELSE LET s  == segments[i]
                id == FindGnuBuildId(s.mem, s.len, Alignment(s.align), cap)
            IN  IF id.len # 0 THEN <<i, id>> ELSE f[i + 1]]

\* The first segment with an ID names the image.
LEMMA FirstSegment ==
    ASSUME NEW S, NEW segments \in Seq(S), NEW cap
    PROVE  /\ (\A i \in 1 .. Len(segments) : IdOf(segments[i], cap).len = 0) =>
                 FromElf(segments, cap) = <<0, NoId>>
           /\ \A i \in 1 .. Len(segments) :
                /\ IdOf(segments[i], cap).len # 0
                /\ \A j \in 1 .. i - 1 : IdOf(segments[j], cap).len = 0
                => FromElf(segments, cap) = <<i, IdOf(segments[i], cap)>>
<1> DEFINE n == Len(segments)
           id(i) == IdOf(segments[i], cap)
           has(i) == id(i).len # 0
           none == <<0, NoId>>
<1>1. n \in Nat
  OBVIOUS
<1>2. ASSUME NEW f, NEW i \in 1 .. n + 1
      PROVE  SegmentRound(f, segments, cap)[i] =
                IF i > n THEN none ELSE IF has(i) THEN <<i, id(i)>> ELSE f[i + 1]
  BY DEF SegmentRound, IdOf
<1> DEFINE first(i) == CHOOSE j \in i .. n : has(j) /\ \A m \in i .. n : has(m) => j <= m
           f == [i \in 1 .. n + 1 |-> IF \E j \in i .. n : has(j) THEN <<first(i), id(first(i))>>
                                                                ELSE none]
<1> HIDE DEF id, n
<1>3. ASSUME NEW i \in 1 .. n, has(i) PROVE (\E j \in i .. n : has(j)) /\ first(i) = i
  <2>1. i \in i .. n /\ \A m \in i .. n : i <= m
    BY <1>1
  <2>2. \A j \in i .. n : (\A m \in i .. n : has(m) => j <= m) => j = i
    BY <1>1, <1>3, <2>1
  <2> QED
    BY <1>3, <2>1, <2>2
<1>4. ASSUME NEW i \in 1 .. n, ~has(i)
      PROVE  /\ (\E j \in i .. n : has(j)) <=> (\E j \in i + 1 .. n : has(j))
             /\ first(i) = first(i + 1)
  <2>1. \A j : j \in i .. n <=> j = i \/ j \in i + 1 .. n
    BY <1>1
  <2>2. \A j : (j \in i .. n /\ has(j)) <=> (j \in i + 1 .. n /\ has(j))
    BY <1>4, <2>1
  <2>3. \A j : (j \in i .. n /\ has(j) /\ \A m \in i .. n : has(m) => j <= m)
                 <=> (j \in i + 1 .. n /\ has(j) /\ \A m \in i + 1 .. n : has(m) => j <= m)
    BY <2>2
  <2> HIDE DEF has
  <2>4. first(i) = first(i + 1)
    BY <2>3
  <2> QED
    BY <2>2, <2>4
<1>5. ASSUME NEW i \in 1 .. n + 1
      PROVE  f[i] = IF i > n THEN none ELSE IF has(i) THEN <<i, id(i)>> ELSE f[i + 1]
  <2>1. f[i] = IF \E j \in i .. n : has(j) THEN <<first(i), id(first(i))>> ELSE none
    OBVIOUS
  <2>2. CASE i > n
    <3>1. ~\E j \in i .. n : has(j)
      BY <1>1, <2>2
    <3> QED
      BY <2>1, <2>2, <3>1
  <2>3. CASE i \in 1 .. n
    <3>1. ~(i > n) /\ i + 1 \in 1 .. n + 1
      BY <1>1, <2>3
    <3>2. f[i + 1] = IF \E j \in i + 1 .. n : has(j) THEN <<first(i + 1), id(first(i + 1))>> ELSE none
      BY <3>1
    <3> HIDE DEF f, first, has
    <3> QED
      BY <1>3, <1>4, <2>1, <2>3, <3>1, <3>2
  <2> QED
    BY <1>1, <2>2, <2>3
<1>6. f = SegmentRound(f, segments, cap)
  <2> DEFINE g == SegmentRound(f, segments, cap)
  <2>1. f = [i \in 1 .. n + 1 |-> f[i]]
    OBVIOUS
  <2>2. g = [i \in 1 .. n + 1 |-> g[i]]
    BY DEF SegmentRound, n
  <2> HIDE DEF f
  <2>3. \A i \in 1 .. n + 1 : g[i] = f[i]
    BY <1>2, <1>5
  <2> HIDE DEF g
  <2> QED
    BY <2>1, <2>2, <2>3 DEF g
<1> DEFINE seg == CHOOSE g : g = SegmentRound(g, segments, cap)
<1>7. seg = SegmentRound(seg, segments, cap)
  BY <1>6
<1>8. FromElf(segments, cap) = seg[1]
  BY DEF FromElf, SegmentRound
<1> HIDE DEF seg, f, first
<1>9. \A i \in 1 .. n + 1 : seg[i] = IF i > n THEN none ELSE IF has(i) THEN <<i, id(i)>> ELSE seg[i + 1]
  BY <1>2, <1>7
<1>10. ASSUME NEW i \in 1 .. n + 1, \A j \in 1 .. i - 1 : ~has(j)
       PROVE  seg[1] = seg[i]
  <2> DEFINE T == {j \in Nat : j <= i - 1 => seg[1] = seg[j + 1]}
  <2>1. 0 \in T
    OBVIOUS
  <2>2. ASSUME NEW j \in Nat, j \in T PROVE j + 1 \in T
    <3>1. ASSUME j + 1 <= i - 1 PROVE seg[1] = seg[(j + 1) + 1]
      <4>1. j + 1 \in 1 .. n + 1 /\ ~(j + 1 > n) /\ ~has(j + 1) /\ seg[1] = seg[j + 1]
        BY <1>1, <1>10, <2>2, <3>1
      <4> HIDE DEF has
      <4> QED
        BY <1>9, <4>1
    <3> QED
      BY <3>1
  <2>3. i - 1 \in T
    <3>1. i - 1 \in Nat
      BY <1>1
    <3> HIDE DEF T
    <3> QED
      BY <2>1, <2>2, <3>1, SetInduction
  <2>4. i - 1 <= i - 1 /\ (i - 1) + 1 = i
    BY <1>1
  <2> QED
    BY <2>3, <2>4
<1>11. ASSUME \A i \in 1 .. n : ~has(i) PROVE seg[1] = none
  <2>1. n + 1 \in 1 .. n + 1 /\ n + 1 > n /\ \A j \in 1 .. (n + 1) - 1 : ~has(j)
    BY <1>1, <1>11
  <2> HIDE DEF has
  <2> QED
    BY <1>9, <1>10, <2>1
<1>12. ASSUME NEW i \in 1 .. n, has(i), \A j \in 1 .. i - 1 : ~has(j)
       PROVE  seg[1] = <<i, id(i)>>
  <2>1. i \in 1 .. n + 1 /\ ~(i > n)
    BY <1>1
  <2> HIDE DEF has
  <2> QED
    BY <1>9, <1>10, <1>12, <2>1
<1> QED
  BY <1>8, <1>11, <1>12 DEF n, id

\* The ID of the reference has a length, or is none.
LEMMA MeantIdLen ==
    ASSUME NEW notes \in Seq(Note), NEW align, NEW len
    PROVE  \/ MeantId(notes, align, len) = NoId /\ MeantId(notes, align, len).len = 0
           \/ MeantId(notes, align, len).len \in 1 .. IdMax
<1>1. ASSUME NEW at, NEW size PROVE Found(at, size).len = size
  BY DEF Found
<1>2. NoId.len = 0
  BY DEF NoId, Found
<1> QED
  BY <1>1, <1>2 DEF MeantId

\* Two segments, as the run has them.
LEMMA TwoSegments ==
    ASSUME NEW notes, NEW align, NEW p_align, NEW cut, Laid(notes, align, p_align, cut),
           NEW notes2, NEW align2, NEW p_align2, NEW cut2, Laid(notes2, align2, p_align2, cut2)
    PROVE  LET one    == Segment(notes, align, p_align, cut)
               two    == Segment(notes2, align2, p_align2, cut2)
               first  == MeantId(notes, align, one.len)
               second == MeantId(notes2, align2, two.len)
           IN  BootImageId([port |-> "elf", segments |-> <<one, two>>]) =
                  IF first.len # 0 THEN Named("GNU_BUILD_ID", 1, first)
                                   ELSE Named("GNU_BUILD_ID", 2, second)
<1> DEFINE one == Segment(notes, align, p_align, cut)
           two == Segment(notes2, align2, p_align2, cut2)
           first == MeantId(notes, align, one.len)
           second == MeantId(notes2, align2, two.len)
           segments == <<one, two>>
           answer == FromElf(segments, IdMax)
           image == [port |-> "elf", segments |-> segments]
<1>1. IdOf(one, IdMax) = first /\ IdOf(two, IdMax) = second
  BY BuildIdIsFound DEF IdOf
<1>2. /\ (first = NoId /\ first.len = 0) \/ first.len \in 1 .. IdMax
      /\ (second = NoId /\ second.len = 0) \/ second.len \in 1 .. IdMax
  BY MeantIdLen DEF Laid
<1> HIDE DEF one, two, first, second
<1>3. /\ segments \in Seq({one, two}) /\ Len(segments) = 2
      /\ segments[1] = one /\ segments[2] = two
  OBVIOUS
<1> HIDE DEF segments
<1>4. answer = IF first.len # 0 THEN <<1, first>> ELSE IF second.len # 0 THEN <<2, second>>
               ELSE <<0, NoId>>
  <2>1. 1 .. 2 = {1, 2} /\ 1 .. 1 - 1 = {} /\ 1 .. 2 - 1 = {1} /\ 1 \in 1 .. 2 /\ 2 \in 1 .. 2
    OBVIOUS
  <2>2. (IdOf(segments[1], IdMax).len = 0 /\ IdOf(segments[2], IdMax).len = 0) =>
           answer = <<0, NoId>>
    BY <1>3, <2>1, FirstSegment
  <2>3. IdOf(segments[1], IdMax).len # 0 => answer = <<1, IdOf(segments[1], IdMax)>>
    BY <1>3, <2>1, FirstSegment
  <2>4. IdOf(segments[2], IdMax).len # 0 /\ IdOf(segments[1], IdMax).len = 0 =>
           answer = <<2, IdOf(segments[2], IdMax)>>
    BY <1>3, <2>1, FirstSegment
  <2> HIDE DEF answer
  <2> QED
    BY <1>1, <1>3, <2>2, <2>3, <2>4
<1>5. image.port = "elf" /\ image.segments = segments
  OBVIOUS
<1> HIDE DEF image, answer
<1>6. PortImageId(image, IdMax) = Answer(IF answer[2].len # 0 THEN "GNU_BUILD_ID" ELSE "NONE", answer)
  BY <1>5 DEF PortImageId, answer
<1>7. BootImageId(image) =
         IF answer[2].len \in 1 .. IdMax /\ answer[2].len # 0
         THEN Answer("GNU_BUILD_ID", answer) ELSE Answer("NONE", <<0, NoId>>)
  BY <1>6 DEF BootImageId, Answer
<1>8. NoId.len = 0 /\ \A x \in 1 .. IdMax : x # 0
  BY ImageIdAssumption DEF NoId, Found
<1>9. CASE first.len # 0
  <2>1. answer = <<1, first>> /\ answer[2] = first /\ first.len \in 1 .. IdMax
    BY <1>2, <1>4, <1>9
  <2> QED
    BY <1>7, <1>9, <2>1 DEF Named, image, segments, one, two, first
<1>10. CASE first.len = 0 /\ second.len # 0
  <2>1. answer = <<2, second>> /\ answer[2] = second /\ second.len \in 1 .. IdMax
    BY <1>2, <1>4, <1>10
  <2> QED
    BY <1>7, <1>10, <2>1 DEF Named, image, segments, one, two, first, second
<1>11. CASE first.len = 0 /\ second.len = 0
  <2>1. answer = <<0, NoId>> /\ answer[2] = NoId
    BY <1>4, <1>11
  <2> QED
    BY <1>7, <1>8, <1>11, <2>1 DEF Named, image, segments, one, two, first, second
<1> QED
  BY <1>9, <1>10, <1>11

\* The layouts of the run are some a linker makes.
LEMMA NotesAreSmall ==
    ASSUME NEW n \in SomeNote, NEW align \in {4, 8}
    PROVE  n \in Note /\ Extent(n, align) \in 5 .. IdMax + 32
<1>1. Word \in Nat /\ Word > 2 * IdMax + 100 /\ IdMax \in Nat /\ IdMax >= 1
  BY ImageIdAssumption
<1>2. /\ n.namesz \in {4, 5} /\ n.descsz \in {0, 1, 5, IdMax, IdMax + 1}
      /\ n.type \in {1, 3} /\ n.gnu \in BOOLEAN
      /\ n = [namesz |-> n.namesz, descsz |-> n.descsz, type |-> n.type, gnu |-> n.gnu]
  BY DEF SomeNote, BuildIdNote
<1> DEFINE name == n.namesz
           size == n.descsz
<1>3. /\ name \in Nat /\ size \in Nat /\ name <= 5 /\ size <= IdMax + 5 /\ HeaderLen = 12
      /\ name \in SizeT /\ size \in SizeT
  BY <1>1, <1>2 DEF SizeT, HeaderLen
<1>4. n \in Note
  BY <1>2, <1>3 DEF Note
<1>5. size <= IdMax + 1 \/ size = 5
  BY <1>1, <1>2
<1> HIDE DEF name, size
<1>6. /\ Padded(HeaderLen + name, align) \in HeaderLen + name .. HeaderLen + name + align - 1
      /\ Padded(size, align) \in size .. size + align - 1
  <2>1. HeaderLen + name \in Nat
    BY <1>3
  <2> QED
    BY <1>3, <2>1, PaddedIs
<1>7. Padded(size, align) <= IdMax + 8
  <2>1. CASE size <= IdMax + 1
    BY <1>1, <1>3, <1>6, <2>1
  <2>2. CASE size = 5
    <3>1. Padded(5, 4) = 8 /\ Padded(5, 8) = 8
      BY DEF Padded
    <3> QED
      BY <1>1, <2>2, <3>1
  <2> QED
    BY <1>5, <2>1, <2>2
<1>8. Extent(n, align) = Padded(HeaderLen + name, align) + Padded(size, align)
  BY DEF Extent, name, size
<1>9. Extent(n, align) \in 5 .. IdMax + 32
  BY <1>1, <1>3, <1>6, <1>7, <1>8
<1> QED
  BY <1>4, <1>9

LEMMA LayoutsAreLaid ==
    ASSUME NEW notes \in Seq(SomeNote), Len(notes) \in 1 .. 2, NEW align \in {4, 8}, NEW p_align,
           Alignment(p_align) = align, NEW cut \in 0 .. 5
    PROVE  Laid(notes, align, p_align, cut)
<1> DEFINE k == Len(notes)
           s(n) == Start(notes, align, n)
<1>1. Word \in Nat /\ Word > 2 * IdMax + 100 /\ IdMax \in Nat /\ HeaderLen = 12
  BY ImageIdAssumption DEF HeaderLen
<1>2. ASSUME NEW i \in 1 .. k
      PROVE  notes[i] \in Note /\ Extent(notes[i], align) \in 5 .. IdMax + 32
  BY NotesAreSmall
<1>3. notes \in Seq(Note)
  <2>1. notes = [i \in 1 .. k |-> notes[i]] /\ k \in Nat
    OBVIOUS
  <2> QED
    BY <1>2, <2>1
<1>4. s(1) = 0 /\ \A i \in 1 .. k : s(i + 1) = s(i) + Extent(notes[i], align)
  BY <1>3, StartFollows
<1> DEFINE first == Extent(notes[1], align)
           second == Extent(notes[2], align)
<1>5. first \in 5 .. IdMax + 32 /\ (k = 2 => second \in 5 .. IdMax + 32)
  BY <1>2
<1>6. s(1 + 1) = s(1) + first /\ (k = 2 => s(2 + 1) = s(2) + second)
  BY <1>4
<1> HIDE DEF s, first, second
<1>7. 1 + 1 = 2 /\ 2 + 1 = 3 /\ 0 + first = first
  BY <1>1, <1>5
<1>8. s(2) = first /\ (k = 2 => s(3) = first + second)
  BY <1>4, <1>6, <1>7, Zenon
<1>9. s(k + 1) \in 5 .. 2 * IdMax + 64
  <2>1. CASE k = 1
    BY <1>1, <1>5, <1>8, <2>1
  <2>2. CASE k = 2
    BY <1>1, <1>5, <1>8, <2>2
  <2> QED
    BY <2>1, <2>2
<1>10. s(k + 1) \in RegionLen /\ cut \in 0 .. s(k + 1)
  BY <1>1, <1>9 DEF RegionLen
<1> QED
  BY <1>3, <1>10 DEF Laid, s

\* The first part of ImageIsIdentified.
LEMMA ElfIsIdentified ==
    ASSUME NEW l \in SomeLayout, NEW n \in SomeNote
    PROVE  LET one   == InMemory(l)
               two   == Segment(<<n>>, 4, 4, 0)
               first == MeantId(l.notes, l.pad[1], one.len)
           IN  BootImageId([port |-> "elf", segments |-> <<one, two>>]) =
                  IF first.len # 0 THEN Named("GNU_BUILD_ID", 1, first)
                  ELSE Named("GNU_BUILD_ID", 2, MeantId(<<n>>, 4, two.len))
<1> DEFINE notes == l.notes
           align == l.pad[1]
           p_align == l.pad[2]
           cut == l.cut
<1>1. /\ notes \in {<<m>> : m \in SomeNote} \cup (SomeNote \X SomeNote)
      /\ l.pad \in {<<4, 1>>, <<4, 4>>, <<8, 8>>} /\ cut \in {0, 3, 5}
  BY DEF SomeLayout
<1>2. align \in {4, 8} /\ Alignment(p_align) = align
  BY <1>1 DEF Alignment
<1>3. notes \in Seq(SomeNote) /\ Len(notes) \in 1 .. 2
  <2>1. CASE notes \in {<<m>> : m \in SomeNote}
    <3>1. PICK m \in SomeNote : notes = <<m>>
      BY <2>1
    <3> HIDE DEF notes
    <3> QED
      BY <3>1
  <2>2. CASE notes \in SomeNote \X SomeNote
    <3>1. PICK m \in SomeNote, o \in SomeNote : notes = <<m, o>>
      BY <2>2
    <3> HIDE DEF notes
    <3> QED
      BY <3>1
  <2> QED
    BY <1>1, <2>1, <2>2
<1>4. cut \in 0 .. 5
  BY <1>1
<1>5. InMemory(l) = Segment(notes, align, p_align, cut)
  BY DEF InMemory
<1> HIDE DEF notes, align, p_align, cut
<1>6. Laid(notes, align, p_align, cut)
  BY <1>2, <1>3, <1>4, LayoutsAreLaid
<1>7. Laid(<<n>>, 4, 4, 0)
  <2>1. /\ <<n>> \in Seq(SomeNote) /\ Len(<<n>>) \in 1 .. 2 /\ Alignment(4) = 4
        /\ 4 \in {4, 8} /\ 0 \in 0 .. 5
    BY DEF Alignment
  <2> QED
    BY <2>1, LayoutsAreLaid
<1> DEFINE one == Segment(notes, align, p_align, cut)
           two == Segment(<<n>>, 4, 4, 0)
           first == MeantId(notes, align, one.len)
<1>8. BootImageId([port |-> "elf", segments |-> <<one, two>>]) =
         IF first.len # 0 THEN Named("GNU_BUILD_ID", 1, first)
         ELSE Named("GNU_BUILD_ID", 2, MeantId(<<n>>, 4, two.len))
  BY <1>6, <1>7, TwoSegments
<1>9. InMemory(l) = one /\ l.notes = notes /\ l.pad[1] = align
  BY <1>5 DEF notes, align
<1> HIDE DEF one, two
<1> QED
  BY <1>8, <1>9 DEF two

\* The parts about the other ports.
LEMMA OthersAreIdentified ==
    /\ \A commands \in [1 .. 3 -> {"LC_UUID", "LC_OTHER"}] :
          BootImageId([port |-> "macho", commands |-> commands]).kind =
             IF \A i \in 1 .. 3 : commands[i] = "LC_OTHER" THEN "NONE" ELSE "MACHO_UUID"
    /\ \A hashed \in BOOLEAN :
          BootImageId([port |-> "esp", hashed |-> hashed]).kind =
             IF hashed THEN "ELF_SHA256" ELSE "NONE"
    /\ BootImageId([port |-> "weak"]) = Answer("NONE", <<0, NoId>>)
<1>1. /\ IdMax \in Nat /\ UuidLen \in 1 .. IdMax /\ ShaLen \in 1 .. IdMax
      /\ IdMax >= UuidLen /\ IdMax >= ShaLen /\ UuidLen # 0 /\ ShaLen # 0 /\ 0 \notin 1 .. IdMax
  BY ImageIdAssumption
<1>2. ASSUME NEW commands \in [1 .. 3 -> {"LC_UUID", "LC_OTHER"}]
      PROVE  BootImageId([port |-> "macho", commands |-> commands]).kind =
                IF \A i \in 1 .. 3 : commands[i] = "LC_OTHER" THEN "NONE" ELSE "MACHO_UUID"
  <2> DEFINE image == [port |-> "macho", commands |-> commands]
             answer == FromMachO(commands, IdMax)
  <2>1. image.port = "macho" /\ image.commands = commands
    OBVIOUS
  <2>2. (\A i \in 1 .. 3 : commands[i] = "LC_OTHER") <=> ~\E i \in DOMAIN commands : commands[i] = "LC_UUID"
    OBVIOUS
  <2>3. answer[2].len = IF \A i \in 1 .. 3 : commands[i] = "LC_OTHER" THEN 0 ELSE UuidLen
    BY <1>1, <2>2 DEF FromMachO, Found, NoId
  <2> HIDE DEF image, answer
  <2>4. PortImageId(image, IdMax) = Answer(IF answer[2].len # 0 THEN "MACHO_UUID" ELSE "NONE", answer)
    BY <2>1 DEF PortImageId, answer
  <2>5. BootImageId(image).kind =
           IF answer[2].len \in 1 .. IdMax /\ answer[2].len # 0 THEN "MACHO_UUID" ELSE "NONE"
    BY <2>4 DEF BootImageId, Answer
  <2>6. BootImageId(image).kind = IF \A i \in 1 .. 3 : commands[i] = "LC_OTHER" THEN "NONE" ELSE "MACHO_UUID"
    BY <1>1, <2>3, <2>5
  <2> QED
    BY <2>6 DEF image
<1>3. ASSUME NEW hashed \in BOOLEAN
      PROVE  BootImageId([port |-> "esp", hashed |-> hashed]).kind =
                IF hashed THEN "ELF_SHA256" ELSE "NONE"
  <2> DEFINE image == [port |-> "esp", hashed |-> hashed]
             answer == FromApp(hashed, IdMax)
  <2>1. image.port = "esp" /\ image.hashed = hashed
    OBVIOUS
  <2>2. answer[2].len = IF hashed THEN ShaLen ELSE 0
    BY <1>1 DEF FromApp, Found, NoId
  <2> HIDE DEF image, answer
  <2>3. PortImageId(image, IdMax) = Answer(IF answer[2].len # 0 THEN "ELF_SHA256" ELSE "NONE", answer)
    BY <2>1 DEF PortImageId, answer
  <2>4. BootImageId(image).kind =
           IF answer[2].len \in 1 .. IdMax /\ answer[2].len # 0 THEN "ELF_SHA256" ELSE "NONE"
    BY <2>3 DEF BootImageId, Answer
  <2>5. BootImageId(image).kind = IF hashed THEN "ELF_SHA256" ELSE "NONE"
    BY <1>1, <2>2, <2>4
  <2> QED
    BY <2>5 DEF image
<1>4. BootImageId([port |-> "weak"]) = Answer("NONE", <<0, NoId>>)
  <2> DEFINE image == [port |-> "weak"]
  <2>1. image.port = "weak"
    OBVIOUS
  <2> HIDE DEF image
  <2>2. PortImageId(image, IdMax) = Answer("NONE", <<0, NoId>>)
    BY <2>1 DEF PortImageId, NoId, Found
  <2>3. BootImageId(image) = Answer("NONE", <<0, NoId>>)
    BY <2>2 DEF BootImageId, Answer
  <2> QED
    BY <2>3 DEF image
<1> QED
  BY <1>2, <1>3, <1>4

-----------------------------------------------------------------------------
(***************************************************************************)
(* Strings sent by their address.  The SMT solver knows a remainder only   *)
(* by a constant; the rest follows from its being unique.                  *)
(***************************************************************************)

LEMMA DivMod == ASSUME NEW m \in Nat \ {0}, NEW a \in Int 
  PROVE /\ a % m \in 0 .. m - 1 /\ a \div m \in Int /\ a = m * (a \div m) + (a % m)
  OBVIOUS

LEMMA Times == ASSUME NEW m \in Nat, NEW d \in Int, d >= 1 PROVE m * d >= m
  OBVIOUS

LEMMA ModUnique == 
  ASSUME NEW m \in Nat \ {0}, NEW a \in Int, NEW q \in Int, NEW r \in 0 .. m - 1, a = m * q + r PROVE a % m = r
<1> DEFINE p == a \div m
           s == a % m
<1>1. p \in Int /\ s \in 0 .. m - 1 /\ a = m * p + s
  BY DivMod
<1> HIDE DEF p, s
<1>2. m * q + r = m * p + s /\ m * q \in Int /\ m * p \in Int /\ m * (q - p) \in Int /\ m * (p - q) \in Int
  BY <1>1
<1>6. m * (q - p) = m * q - m * p /\ m * (p - q) = m * p - m * q
  BY <1>1
<1>3. CASE q - p >= 1
  <2>1. m * (q - p) >= m
    BY <1>1, <1>3, Times
  <2> QED
    BY <1>1, <1>2, <1>6, <2>1
<1>4. CASE p - q >= 1
  <2>1. m * (p - q) >= m
    BY <1>1, <1>4, Times
  <2> QED
    BY <1>1, <1>2, <1>6, <2>1
<1>5. CASE p = q
  BY <1>1, <1>2, <1>5 DEF s
<1> QED
  BY <1>1, <1>3, <1>4, <1>5

\* What the ranges a port knows are made of, and where the images of the run lie.
LEMMA PartsAre ==
    ASSUME NEW image \in SomeImage
    PROVE  /\ image.port \in {"elf", "esp", "macho"}
           /\ image.port = "elf" => image.by \in {0, IdMod, 3 * IdMod + 1}
           /\ image.port = "esp" => image.by = 0
           /\ image.port = "macho" => image.by \in Nat
           /\ \A i \in DOMAIN image.parts :
                LET part == image.parts[i]
                IN  /\ part.first \in Nat /\ part.past \in Nat
                    /\ IF image.port = "macho"
                       THEN part.first = IdMod + 2 /\ part.past = 2 * IdMod - 1
                       ELSE part.first >= 2 /\ part.past <= IdMod
<1> DEFINE m == MaxRanges
           some == {<<Part(3, 6, w), Part(9, 12, ~w)>> : w \in BOOLEAN}
                   \cup {[i \in 1 .. m + 1 |-> Part(2 * i, 2 * i + 1, FALSE)]}
           slid == <<Part(IdMod + 2, 2 * IdMod - 1, FALSE)>>
<1>1. m \in Nat \ {0} /\ IdMod \in Nat /\ IdMod >= 12 /\ IdMod > 2 * m + 2
  BY ImageIdAssumption
<1>2. ASSUME NEW first, NEW past, NEW writable
      PROVE  Part(first, past, writable).first = first /\ Part(first, past, writable).past = past
  BY DEF Part
<1>3. ASSUME NEW parts \in some, NEW i \in DOMAIN parts
      PROVE  /\ parts[i].first \in Nat /\ parts[i].past \in Nat
             /\ parts[i].first >= 2 /\ parts[i].past <= IdMod
  <2>1. CASE parts \in {<<Part(3, 6, w), Part(9, 12, ~w)>> : w \in BOOLEAN}
    <3>1. PICK w \in BOOLEAN : parts = <<Part(3, 6, w), Part(9, 12, ~w)>>
      BY <2>1
    <3> DEFINE one == Part(3, 6, w)
               two == Part(9, 12, ~w)
    <3>2. parts = <<one, two>>
      BY <3>1
    <3> HIDE DEF one, two
    <3>3. DOMAIN parts = 1 .. 2 /\ parts[1] = one /\ parts[2] = two
      BY <3>2
    <3>4. i = 1 \/ i = 2
      BY <3>3
    <3>5. one.first = 3 /\ one.past = 6 /\ two.first = 9 /\ two.past = 12
      BY DEF one, two, Part
    <3>6. parts[i] = one \/ parts[i] = two
      BY <3>3, <3>4
    <3>7. CASE parts[i] = one
      BY <1>1, <3>5, <3>7
    <3>8. CASE parts[i] = two
      BY <1>1, <3>5, <3>8
    <3> QED
      BY <3>6, <3>7, <3>8
  <2>2. CASE parts = [n \in 1 .. m + 1 |-> Part(2 * n, 2 * n + 1, FALSE)]
    <3>1. i \in 1 .. m + 1 /\ parts[i] = Part(2 * i, 2 * i + 1, FALSE)
      BY <1>3, <2>2
    <3>2. parts[i].first = 2 * i /\ parts[i].past = 2 * i + 1
      BY <3>1 DEF Part
    <3>3. 2 * i \in Nat /\ 2 * i + 1 \in Nat /\ 2 * i >= 2 /\ 2 * i + 1 <= IdMod
      BY <1>1, <3>1
    <3> QED
      BY <3>2, <3>3
  <2> QED
    BY <2>1, <2>2
<1>4. ASSUME NEW i \in DOMAIN slid
      PROVE  /\ slid[i].first = IdMod + 2 /\ slid[i].past = 2 * IdMod - 1
             /\ slid[i].first \in Nat /\ slid[i].past \in Nat
  <2>1. slid[i] = Part(IdMod + 2, 2 * IdMod - 1, FALSE)
    <3> DEFINE one == Part(IdMod + 2, 2 * IdMod - 1, FALSE)
    <3>1. slid = <<one>>
      OBVIOUS
    <3> HIDE DEF one, slid
    <3>2. DOMAIN slid = {1} /\ slid[1] = one
      BY <3>1
    <3> QED
      BY <3>2 DEF one
  <2> HIDE DEF slid
  <2>2. slid[i].first = IdMod + 2 /\ slid[i].past = 2 * IdMod - 1
    BY <2>1 DEF Part
  <2>3. IdMod + 2 \in Nat /\ 2 * IdMod - 1 \in Nat
    BY <1>1
  <2> QED
    BY <2>2, <2>3
<1>5. image \in [port : {"elf"}, by : {0, IdMod, 3 * IdMod + 1}, parts : some]
               \cup [port : {"esp"}, by : {0}, parts : some]
               \cup [port : {"macho"}, by : {0, 5, IdMod + 5}, parts : {slid}]
  BY DEF SomeImage
<1> HIDE DEF some, slid, m
<1>6. CASE image \in [port : {"elf"}, by : {0, IdMod, 3 * IdMod + 1}, parts : some]
  BY <1>3, <1>6
<1>7. CASE image \in [port : {"esp"}, by : {0}, parts : some]
  BY <1>3, <1>7
<1>8. CASE image \in [port : {"macho"}, by : {0, 5, IdMod + 5}, parts : {slid}]
  <2>1. image.port = "macho" /\ image.by \in {0, 5, IdMod + 5} /\ image.parts = slid
    BY <1>8
  <2> QED
    BY <1>1, <1>4, <2>1
<1> QED
  BY <1>5, <1>6, <1>7, <1>8

\* The last part of ImageIsIdentified.
LEMMA AddressesResolve ==
    ASSUME NEW image \in SomeImage, NEW addr \in 0 .. 5 * IdMod, AddrInImage(image, addr)
    PROVE  Resolved(image, addr % IdMod) = {addr - image.by}
<1> DEFINE m == IdMod
           x == addr - image.by
           id == addr % m
           all == UNION {image.parts[i].first .. image.parts[i].past - 1 : i \in DOMAIN image.parts}
<1>1. m \in Nat \ {0} /\ m >= 12 /\ addr \in Nat
  BY ImageIdAssumption
<1>2. /\ image.port \in {"elf", "esp", "macho"}
      /\ image.port = "elf" => image.by \in {0, m, 3 * m + 1}
      /\ image.port = "esp" => image.by = 0
      /\ image.port = "macho" => image.by \in Nat
      /\ \A i \in DOMAIN image.parts :
           /\ image.parts[i].first \in Nat /\ image.parts[i].past \in Nat
           /\ IF image.port = "macho"
              THEN image.parts[i].first = m + 2 /\ image.parts[i].past = 2 * m - 1
              ELSE image.parts[i].first >= 2 /\ image.parts[i].past <= m
  BY PartsAre
<1>3. /\ image.port = "elf" => addr < m
      /\ \E i \in DOMAIN image.parts : Within(image.parts[i], x)
  BY <1>2 DEF AddrInImage, Ranges
<1>4. Resolved(image, id) = {y \in all : IF image.port = "macho" THEN y % m = (id - image.by) % m
                                                                ELSE y = id}
  BY DEF Resolved
<1> HIDE DEF m, all
<1>5. image.by \in Nat
  BY <1>1, <1>2
<1>6. x \in Int
  BY <1>1, <1>5
<1>7. PICK i \in DOMAIN image.parts : image.parts[i].first <= x /\ x < image.parts[i].past
  BY <1>3 DEF Within
<1>8. x \in all
  <2> DEFINE first == image.parts[i].first
             past == image.parts[i].past
  <2>1. first \in Nat /\ past \in Nat /\ first <= x /\ x < past
    BY <1>2, <1>7
  <2> HIDE DEF first, past, x
  <2>2. x \in first .. past - 1
    BY <1>6, <2>1
  <2> QED
    BY <2>2 DEF all, first, past
<1>9. CASE image.port # "macho"
  <2>1. x >= 2 /\ x < m
    <3> DEFINE first == image.parts[i].first
               past == image.parts[i].past
    <3>1. first \in Nat /\ past \in Nat /\ first <= x /\ x < past /\ first >= 2 /\ past <= m
      BY <1>2, <1>7, <1>9
    <3> HIDE DEF first, past, x
    <3> QED
      BY <1>1, <1>6, <3>1
  <2>2. image.by = 0
    BY <1>1, <1>2, <1>3, <1>9, <2>1
  <2>3. x = addr /\ addr \in 0 .. m - 1
    BY <1>1, <2>1, <2>2
  <2>4. m * 0 + addr = addr /\ 0 \in Int
    BY <1>1
  <2>5. id = addr
    BY <1>1, <2>3, <2>4, ModUnique
  <2>6. Resolved(image, id) = {y \in all : y = id}
    BY <1>4, <1>9
  <2> HIDE DEF x, id
  <2>7. Resolved(image, id) = {x}
    BY <1>8, <2>3, <2>5, <2>6
  <2> QED
    BY <2>7 DEF x, id, m
<1>10. CASE image.port = "macho"
  <2>1. \A y \in all : y \in m + 2 .. 2 * m - 2
    <3>1. ASSUME NEW j \in DOMAIN image.parts
          PROVE  image.parts[j].first = m + 2 /\ image.parts[j].past - 1 = 2 * m - 2
      <4>1. image.parts[j].first = m + 2 /\ image.parts[j].past = 2 * m - 1
        BY <1>2, <1>10
      <4>2. (2 * m - 1) - 1 = 2 * m - 2
        BY <1>1
      <4> QED
        BY <4>1, <4>2
    <3> QED
      BY <3>1 DEF all
  <2>2. ASSUME NEW y \in all PROVE y % m = y - m
    <3>1. y \in m + 2 .. 2 * m - 2
      BY <2>1
    <3>2. y - m \in 0 .. m - 1 /\ y = m * 1 + (y - m) /\ y \in Int /\ 1 \in Int
      BY <1>1, <3>1
    <3> QED
      BY <1>1, <3>2, ModUnique
  <2>3. (id - image.by) % m = x - m
    <3> DEFINE q == addr \div m
               b == image.by
    <3>1. q \in Int /\ id \in 0 .. m - 1 /\ addr = m * q + id
      <4>1. m \in Nat \ {0} /\ addr \in Int
        BY <1>1
      <4>2. addr % m \in 0 .. m - 1 /\ addr \div m \in Int /\ addr = m * (addr \div m) + (addr % m)
        BY <4>1, DivMod, Zenon
      <4> QED
        BY <4>2
    <3>2. x = addr - b /\ b \in Nat /\ x \in m + 2 .. 2 * m - 2
      BY <1>5, <1>8, <2>1
    <3> HIDE DEF q, b, id, x
    <3>3. m * (1 - q) = m - m * q /\ m * q \in Int /\ 1 - q \in Int
      BY <1>1, <3>1
    <3>4. id - b = m * (1 - q) + (x - m) /\ x - m \in 0 .. m - 1 /\ id - b \in Int
      BY <1>1, <3>1, <3>2, <3>3
    <3>5. (id - b) % m = x - m
      BY <1>1, <3>3, <3>4, ModUnique
    <3> QED
      BY <3>5 DEF b
  <2>4. Resolved(image, id) = {y \in all : y % m = (id - image.by) % m}
    BY <1>4, <1>10
  <2> HIDE DEF x, id
  <2>5. \A y \in all : y % m = (id - image.by) % m <=> y = x
    <3>1. ASSUME NEW y \in all PROVE y % m = (id - image.by) % m <=> y = x
      <4>1. y \in Int /\ y % m = y - m
        BY <1>1, <2>1, <2>2
      <4> QED
        BY <1>1, <1>6, <2>3, <4>1
    <3> QED
      BY <3>1
  <2>6. Resolved(image, id) = {x}
    BY <1>8, <2>4, <2>5
  <2> QED
    BY <2>6 DEF x, id, m
<1> QED
  BY <1>9, <1>10

(***************************************************************************)
(* ImageIsIdentified, whatever the widths and limits: the BOOT packet      *)
(* names the image by the ID that is in it, and a string sent by its       *)
(* address is the one its ID resolves to, for the images SomeImage has.    *)
(***************************************************************************)
THEOREM ImageIsNamed == Spec => []ImageIsIdentified
<1>1. ImageIsIdentified
  BY ElfIsIdentified, OthersAreIdentified, AddressesResolve DEF ImageIsIdentified
<1> QED
  BY <1>1, PTL

-----------------------------------------------------------------------------
(***************************************************************************)
(* Text.  The loops over characters and pieces are loops of an automaton,  *)
(* whose step is given as a function here.                                 *)
(***************************************************************************)
Steps(op, States, Items) == op \in [States \X Items -> States]

After(op, s, x) == op[<<s, x>>]

ReadStep(op, States, input) ==
    [at \in (1 .. Len(input)) \X States |-> After(op, at[2], input[at[1]])]

Reading(op, States, start, input) == Run(ReadStep(op, States, input), States, start, Len(input))

ReadsStep(op, States, input) ==
    \A n \in 1 .. Len(input), s \in States :
       ReadStep(op, States, input)[<<n, s>>] = After(op, s, input[n])

LEMMA ReadStepType ==
    ASSUME NEW States, NEW Items, NEW op, Steps(op, States, Items), NEW input \in Seq(Items)
    PROVE  /\ Len(input) \in Nat /\ \A n \in 1 .. Len(input) : input[n] \in Items
           /\ ReadStep(op, States, input) \in [(1 .. Len(input)) \X States -> States]
           /\ ReadsStep(op, States, input)
<1>1. Len(input) \in Nat /\ \A n \in 1 .. Len(input) : input[n] \in Items
  OBVIOUS
<1> DEFINE m == Len(input)
<1> HIDE DEF m
<1>2. ASSUME NEW at \in (1 .. m) \X States PROVE After(op, at[2], input[at[1]]) \in States
  <2>1. at[1] \in 1 .. m /\ at[2] \in States
    OBVIOUS
  <2>2. input[at[1]] \in Items
    BY <1>1, <2>1 DEF m
  <2>3. <<at[2], input[at[1]]>> \in States \X Items
    BY <2>1, <2>2
  <2> QED
    BY <2>3 DEF Steps, After
<1>3. [at \in (1 .. m) \X States |-> After(op, at[2], input[at[1]])] \in [(1 .. m) \X States -> States]
  BY <1>2
<1>4. \A n \in 1 .. m, s \in States :
         [at \in (1 .. m) \X States |-> After(op, at[2], input[at[1]])][<<n, s>>] = After(op, s, input[n])
  OBVIOUS
<1> QED
  BY <1>1, <1>3, <1>4 DEF ReadStep, ReadsStep, m

LEMMA ReadingNone ==
    ASSUME NEW States, NEW Items, NEW op, Steps(op, States, Items), NEW start \in States
    PROVE  Reading(op, States, start, <<>>) = start
<1>1. <<>> \in Seq(Items) /\ Len(<<>>) = 0
  OBVIOUS
<1>2. ReadStep(op, States, <<>>) \in [(1 .. Len(<<>>)) \X States -> States]
  BY <1>1, ReadStepType
<1> QED
  BY <1>1, <1>2, RunNone DEF Reading

LEMMA ReadingType ==
    ASSUME NEW States, NEW Items, NEW op, Steps(op, States, Items), NEW start \in States,
           NEW input \in Seq(Items)
    PROVE  Reading(op, States, start, input) \in States
<1> DEFINE m == Len(input)
           step == ReadStep(op, States, input)
<1>1. m \in Nat /\ step \in [(1 .. m) \X States -> States]
  BY ReadStepType
<1>2. Reading(op, States, start, input) = Run(step, States, start, m)
  BY DEF Reading
<1> HIDE DEF m, step
<1>3. Run(step, States, start, m) \in States
  BY <1>1, RunType
<1> QED
  BY <1>2, <1>3

OneMore(op, States, start, input, x) ==
    Reading(op, States, start, Append(input, x)) = After(op, Reading(op, States, start, input), x)

LEMMA ReadingAppend ==
    ASSUME NEW States, NEW Items, NEW op, Steps(op, States, Items), NEW start \in States,
           NEW input \in Seq(Items), NEW x \in Items
    PROVE  OneMore(op, States, start, input, x)
<1> DEFINE all == Append(input, x)
           m == Len(input)
           one == ReadStep(op, States, input)
           next == ReadStep(op, States, all)
           before == Reading(op, States, start, input)
<1>1. /\ all \in Seq(Items) /\ m \in Nat /\ Len(all) = m + 1 /\ all[m + 1] = x
      /\ \A i \in 1 .. m : all[i] = input[i]
  OBVIOUS
<1> HIDE DEF all
<1>2. /\ one \in [(1 .. m) \X States -> States]
      /\ \A n \in 1 .. m, s \in States : one[<<n, s>>] = After(op, s, input[n])
      /\ before = Run(one, States, start, m)
  <2>1. before = Run(one, States, start, m)
    BY DEF Reading
  <2>2. one \in [(1 .. m) \X States -> States]
    BY ReadStepType, Zenon
  <2>3. ReadsStep(op, States, input)
    BY ReadStepType, Zenon
  <2> QED
    BY <2>1, <2>2, <2>3, Zenon DEF ReadsStep
<1>3. /\ next \in [(1 .. m + 1) \X States -> States]
      /\ \A n \in 1 .. m + 1, s \in States : next[<<n, s>>] = After(op, s, all[n])
      /\ Reading(op, States, start, all) = Run(next, States, start, m + 1)
  <2>1. Reading(op, States, start, all) = Run(next, States, start, Len(all))
    BY DEF Reading
  <2>2. /\ next \in [(1 .. Len(all)) \X States -> States]
        /\ \A n \in 1 .. Len(all), s \in States : next[<<n, s>>] = After(op, s, all[n])
    <3>1. all \in Seq(Items)
      BY <1>1
    <3>2. next \in [(1 .. Len(all)) \X States -> States]
      BY <3>1, ReadStepType, Zenon
    <3>3. ReadsStep(op, States, all)
      BY <3>1, ReadStepType, Zenon
    <3> QED
      BY <3>2, <3>3, Zenon DEF ReadsStep
  <2> QED
    BY <1>1, <2>1, <2>2
<1>4. before \in States
  BY ReadingType
<1>5. m + 1 \in 1 .. m + 1
  BY <1>1
<1> HIDE DEF one, next, m, before
<1>6. \A n \in 1 .. m, s \in States : next[<<n, s>>] = one[<<n, s>>]
  <2>1. ASSUME NEW n \in 1 .. m, NEW s \in States PROVE next[<<n, s>>] = one[<<n, s>>]
    <3>1. n \in 1 .. m + 1 /\ all[n] = input[n]
      BY <1>1
    <3>2. one[<<n, s>>] = After(op, s, input[n]) /\ next[<<n, s>>] = After(op, s, all[n])
      BY <1>2, <1>3, <3>1, Zenon
    <3> QED
      BY <3>1, <3>2
  <2> QED
    BY <2>1, Zenon
<1>7. Run(next, States, start, m + 1) = next[<<m + 1, before>>]
  <2>1. /\ one \in [(1 .. m) \X States -> States] /\ next \in [(1 .. m + 1) \X States -> States]
        /\ m \in Nat
    BY <1>1, <1>2, <1>3
  <2>2. Run(next, States, start, m + 1) = next[<<m + 1, Run(one, States, start, m)>>]
    BY <1>6, <2>1, RunLast
  <2> QED
    BY <1>2, <2>2
<1>8. next[<<m + 1, before>>] = After(op, before, all[m + 1])
  BY <1>3, <1>4, <1>5, Zenon
<1> QED
  BY <1>1, <1>3, <1>7, <1>8 DEF all, before, OneMore

\* Two parts of the input are read one after the other.
LEMMA ReadingConcat ==
    ASSUME NEW States, NEW Items, NEW op, Steps(op, States, Items), NEW start \in States,
           NEW first \in Seq(Items), NEW second \in Seq(Items)
    PROVE  Reading(op, States, start, first \o second) =
              Reading(op, States, Reading(op, States, start, first), second)
<1> DEFINE middle == Reading(op, States, start, first)
           T == {s \in Seq(Items) :
                   Reading(op, States, start, first \o s) = Reading(op, States, middle, s)}
<1>1. middle \in States
  BY ReadingType
<1> HIDE DEF middle
<1>2. <<>> \in T
  <2>1. first \o <<>> = first /\ <<>> \in Seq(Items)
    OBVIOUS
  <2>2. Reading(op, States, middle, <<>>) = middle
    BY <1>1, ReadingNone
  <2> QED
    BY <2>1, <2>2 DEF middle
<1>3. \A s \in Seq(Items), x \in Items : s \in T => Append(s, x) \in T
  <2>1. SUFFICES ASSUME NEW s \in Seq(Items), NEW x \in Items, s \in T PROVE Append(s, x) \in T
    OBVIOUS
  <2> DEFINE both == first \o s
  <2>2. first \o Append(s, x) = Append(both, x) /\ both \in Seq(Items) /\ Append(s, x) \in Seq(Items)
    OBVIOUS
  <2>3. Reading(op, States, start, both) = Reading(op, States, middle, s)
    BY <2>1
  <2> HIDE DEF both
  <2>4. OneMore(op, States, start, both, x)
    BY <2>2, ReadingAppend, Zenon
  <2>5. OneMore(op, States, middle, s, x)
    BY <1>1, ReadingAppend, Zenon
  <2> QED
    BY <2>2, <2>3, <2>4, <2>5 DEF OneMore
<1>4. second \in T
  <2> HIDE DEF T
  <2> QED
    BY <1>2, <1>3, SeqInduction
<1> QED
  BY <1>4 DEF middle

\* All this of one automaton, to be unfolded where its step is known.
ReadsOn(op, States, Items) ==
    \A start \in States :
       /\ Reading(op, States, start, <<>>) = start
       /\ \A input \in Seq(Items) :
             /\ Reading(op, States, start, input) \in States
             /\ \A x \in Items :
                   Reading(op, States, start, Append(input, x)) =
                      op[<<Reading(op, States, start, input), x>>]
             /\ \A more \in Seq(Items) :
                   Reading(op, States, start, input \o more) =
                      Reading(op, States, Reading(op, States, start, input), more)

LEMMA ReadsAll ==
    ASSUME NEW States, NEW Items, NEW op, Steps(op, States, Items)
    PROVE  ReadsOn(op, States, Items)
<1>1. SUFFICES ASSUME NEW start \in States
      PROVE  /\ Reading(op, States, start, <<>>) = start
             /\ \A input \in Seq(Items) :
                   /\ Reading(op, States, start, input) \in States
                   /\ \A x \in Items :
                         Reading(op, States, start, Append(input, x)) =
                            op[<<Reading(op, States, start, input), x>>]
                   /\ \A more \in Seq(Items) :
                         Reading(op, States, start, input \o more) =
                            Reading(op, States, Reading(op, States, start, input), more)
  BY Zenon DEF ReadsOn
<1>2. Reading(op, States, start, <<>>) = start
  BY ReadingNone
<1>3. ASSUME NEW input \in Seq(Items)
      PROVE  /\ Reading(op, States, start, input) \in States
             /\ \A x \in Items :
                   Reading(op, States, start, Append(input, x)) =
                      op[<<Reading(op, States, start, input), x>>]
             /\ \A more \in Seq(Items) :
                   Reading(op, States, start, input \o more) =
                      Reading(op, States, Reading(op, States, start, input), more)
  <2>1. Reading(op, States, start, input) \in States
    BY ReadingType
  <2>2. ASSUME NEW x \in Items
        PROVE  Reading(op, States, start, Append(input, x)) =
                  op[<<Reading(op, States, start, input), x>>]
    <3>1. OneMore(op, States, start, input, x)
      BY ReadingAppend, Zenon
    <3> QED
      BY <3>1, Zenon DEF OneMore, After
  <2>3. ASSUME NEW more \in Seq(Items)
        PROVE  Reading(op, States, start, input \o more) =
                  Reading(op, States, Reading(op, States, start, input), more)
    BY ReadingConcat
  <2> QED
    BY <2>1, <2>2, <2>3, Zenon
<1> QED
  BY <1>2, <1>3, Zenon

-----------------------------------------------------------------------------
(***************************************************************************)
(* The filter.  How a text is cut into pieces does not matter, and what    *)
(* comes out is the text with its carriage returns.                        *)
(***************************************************************************)
LEMMA OwnChars == OwnChar \subseteq TextChar
  BY TextAssumption

LEMMA SomeOwnChars ==
    /\ Newline \in TextChar /\ Return \in TextChar /\ "none" \in TextChar
    /\ Newline # Return /\ Return # "none"
  BY OwnChars DEF OwnChar, Newline, Return

LEMMA TextFacts ==
    /\ <<>> \in Text
    /\ \A c \in TextChar : <<c>> \in Text /\ \A d \in TextChar : <<c, d>> \in Text
    /\ \A a \in Text, b \in Text : a \o b \in Text
  BY DEF Text

ConcatOp == [x \in Text \X Text |-> x[1] \o x[2]]

LEMMA ConcatOpIs == Steps(ConcatOp, Text, Text) /\ \A a \in Text, b \in Text : ConcatOp[<<a, b>>] = a \o b
<1>1. \A x \in Text \X Text : x[1] \o x[2] \in Text
  BY TextFacts
<1> QED
  BY <1>1 DEF ConcatOp, Steps

LEMMA ConcatReads ==
    ASSUME NEW texts \in Seq(Text)
    PROVE  Concat(texts) = Reading(ConcatOp, Text, <<>>, texts)
<1> DEFINE m == Len(texts)
<1>1. \A n \in 1 .. m : texts[n] \in Text
  OBVIOUS
<1>2. Concat(texts) = Run([at \in (1 .. m) \X Text |-> at[2] \o texts[at[1]]], Text, <<>>, m)
  BY DEF Concat, Read
<1>3. ReadStep(ConcatOp, Text, texts) = [at \in (1 .. m) \X Text |-> After(ConcatOp, at[2], texts[at[1]])]
  BY DEF ReadStep
<1> HIDE DEF m
<1>4. ASSUME NEW at \in (1 .. m) \X Text
      PROVE  After(ConcatOp, at[2], texts[at[1]]) = at[2] \o texts[at[1]]
  BY <1>1, ConcatOpIs DEF After
<1>5. ReadStep(ConcatOp, Text, texts) = [at \in (1 .. m) \X Text |-> at[2] \o texts[at[1]]]
  BY <1>3, <1>4
<1> QED
  BY <1>2, <1>5 DEF Reading, m

LEMMA Concats ==
    /\ Concat(<<>>) = <<>>
    /\ \A texts \in Seq(Text) :
         /\ Concat(texts) \in Text
         /\ \A text \in Text : Concat(Append(texts, text)) = Concat(texts) \o text
<1>1. ReadsOn(ConcatOp, Text, Text)
  BY ConcatOpIs, ReadsAll
<1>2. <<>> \in Text /\ <<>> \in Seq(Text)
  BY TextFacts
<1>3. Concat(<<>>) = <<>>
  BY <1>1, <1>2, ConcatReads DEF ReadsOn
<1>4. ASSUME NEW texts \in Seq(Text)
      PROVE  /\ Concat(texts) \in Text
             /\ \A text \in Text : Concat(Append(texts, text)) = Concat(texts) \o text
  <2>1. Concat(texts) \in Text
    BY <1>1, <1>2, ConcatReads DEF ReadsOn
  <2>2. ASSUME NEW text \in Text PROVE Concat(Append(texts, text)) = Concat(texts) \o text
    <3>1. Append(texts, text) \in Seq(Text)
      OBVIOUS
    <3>2. Reading(ConcatOp, Text, <<>>, Append(texts, text)) = ConcatOp[<<Concat(texts), text>>]
      BY <1>1, <1>2, ConcatReads DEF ReadsOn
    <3> QED
      BY <2>1, <3>1, <3>2, ConcatReads, ConcatOpIs
  <2> QED
    BY <2>1, <2>2
<1> QED
  BY <1>3, <1>4

LEMMA ConcatTwo ==
    ASSUME NEW first \in Seq(Text), NEW second \in Seq(Text)
    PROVE  Concat(first \o second) = Concat(first) \o Concat(second)
<1> DEFINE T == {s \in Seq(Text) : Concat(first \o s) = Concat(first) \o Concat(s)}
<1>1. <<>> \in T
  <2>1. first \o <<>> = first /\ <<>> \in Seq(Text)
    OBVIOUS
  <2>2. Concat(first) \in Text /\ Concat(<<>>) = <<>>
    BY Concats
  <2>3. Concat(first) \o <<>> = Concat(first)
    BY <2>2 DEF Text
  <2> QED
    BY <2>1, <2>2, <2>3
<1>2. \A s \in Seq(Text), x \in Text : s \in T => Append(s, x) \in T
  <2>1. SUFFICES ASSUME NEW s \in Seq(Text), NEW x \in Text, s \in T PROVE Append(s, x) \in T
    OBVIOUS
  <2>2. first \o Append(s, x) = Append(first \o s, x) /\ first \o s \in Seq(Text)
        /\ Append(s, x) \in Seq(Text)
    OBVIOUS
  <2>3. Concat(Append(first \o s, x)) = Concat(first \o s) \o x
    BY <2>2, Concats
  <2>4. Concat(Append(s, x)) = Concat(s) \o x /\ Concat(s) \in Text /\ Concat(first) \in Text
    BY Concats
  <2>5. (Concat(first) \o Concat(s)) \o x = Concat(first) \o (Concat(s) \o x)
    BY <2>4, ConcatAssoc, SMTT(40) DEF Text, Assoc
  <2>6. Concat(first \o s) = Concat(first) \o Concat(s)
    BY <2>1
  <2> QED
    BY <2>2, <2>3, <2>4, <2>5, <2>6
<1>3. second \in T
  <2> HIDE DEF T
  <2> QED
    BY <1>1, <1>2, SeqInduction
<1> QED
  BY <1>3

LEMMA ConcatOne == ASSUME NEW text \in Text PROVE Concat(<<text>>) = text
<1>1. <<>> \in Seq(Text) /\ <<text>> = Append(<<>>, text)
  OBVIOUS
<1>2. Concat(<<text>>) = <<>> \o text
  BY <1>1, Concats
<1> QED
  BY <1>2 DEF Text

CharOp(flags) == [x \in FilterState \X TextChar |-> FilterChar(flags, x[1], x[2])]

LEMMA FilterFields ==
    /\ \A f \in FilterState : f.out \in Text /\ f.last \in TextChar
    /\ \A out \in Text, last \in TextChar :
          /\ Filter(out, last) \in FilterState
          /\ Filter(out, last).out = out /\ Filter(out, last).last = last
  BY DEF FilterState, Filter

LEMMA FilterCharType ==
    ASSUME NEW flags, NEW f \in FilterState, NEW c \in TextChar
    PROVE  FilterChar(flags, f, c) \in FilterState
<1>1. <<Return, c>> \in Text /\ <<c>> \in Text /\ f.out \in Text
  BY SomeOwnChars, TextFacts, FilterFields
<1>2. f.out \o <<Return, c>> \in Text /\ f.out \o <<c>> \in Text
  BY <1>1, TextFacts
<1> QED
  BY <1>2, FilterFields DEF FilterChar

LEMMA CharOpIs ==
    ASSUME NEW flags
    PROVE  /\ Steps(CharOp(flags), FilterState, TextChar)
           /\ \A f \in FilterState, c \in TextChar : CharOp(flags)[<<f, c>>] = FilterChar(flags, f, c)
<1>1. \A x \in FilterState \X TextChar : FilterChar(flags, x[1], x[2]) \in FilterState
  BY FilterCharType
<1> QED
  BY <1>1 DEF CharOp, Steps

Piecewise(flags, f, piece) == Reading(CharOp(flags), FilterState, f, piece)

LEMMA OutputReads ==
    ASSUME NEW flags, NEW f \in FilterState, NEW piece \in Text
    PROVE  FilteredOutput(flags, f, piece) = Piecewise(flags, f, piece)
<1> DEFINE m == Len(piece)
           op == CharOp(flags)
<1>1. \A n \in 1 .. m : piece[n] \in TextChar
  BY DEF Text
<1>2. FilteredOutput(flags, f, piece) =
         Run([at \in (1 .. m) \X FilterState |-> FilterChar(flags, at[2], piece[at[1]])], FilterState, f, m)
  BY DEF FilteredOutput, Read
<1>3. ReadStep(op, FilterState, piece) = [at \in (1 .. m) \X FilterState |-> After(op, at[2], piece[at[1]])]
  BY DEF ReadStep
<1>4. \A s \in FilterState, c \in TextChar : op[<<s, c>>] = FilterChar(flags, s, c)
  BY CharOpIs
<1> HIDE DEF m, op
<1>5. ASSUME NEW at \in (1 .. m) \X FilterState
      PROVE  After(op, at[2], piece[at[1]]) = FilterChar(flags, at[2], piece[at[1]])
  BY <1>1, <1>4 DEF After
<1>6. ReadStep(op, FilterState, piece) =
         [at \in (1 .. m) \X FilterState |-> FilterChar(flags, at[2], piece[at[1]])]
  BY <1>3, <1>5
<1> QED
  BY <1>2, <1>6 DEF Reading, Piecewise, m, op

Follows(flags, f, piece) ==
    /\ \A c \in TextChar :
         Piecewise(flags, f, Append(piece, c)) = FilterChar(flags, Piecewise(flags, f, piece), c)
    /\ \A more \in Text :
         Piecewise(flags, f, piece \o more) = Piecewise(flags, Piecewise(flags, f, piece), more)

LEMMA PiecewiseReads ==
    ASSUME NEW flags, NEW f \in FilterState
    PROVE  /\ Piecewise(flags, f, <<>>) = f
           /\ \A piece \in Text :
                /\ Piecewise(flags, f, piece) \in FilterState
                /\ Follows(flags, f, piece)
<1> DEFINE op == CharOp(flags)
<1>1. ReadsOn(op, FilterState, TextChar) /\ \A s \in FilterState, c \in TextChar : op[<<s, c>>] = FilterChar(flags, s, c)
  BY CharOpIs, ReadsAll
<1>2. \A s, p : Piecewise(flags, s, p) = Reading(op, FilterState, s, p)
  BY DEF Piecewise
<1> HIDE DEF op
<1>3. Piecewise(flags, f, <<>>) = f
  BY <1>1, <1>2 DEF ReadsOn
<1>4. ASSUME NEW piece \in Text
      PROVE  /\ Piecewise(flags, f, piece) \in FilterState
             /\ Follows(flags, f, piece)
  <2>1. piece \in Seq(TextChar) /\ Text = Seq(TextChar)
    BY DEF Text
  <2>2. Piecewise(flags, f, piece) \in FilterState
    BY <1>1, <1>2, <2>1 DEF ReadsOn
  <2>3. ASSUME NEW c \in TextChar
        PROVE  Piecewise(flags, f, Append(piece, c)) = FilterChar(flags, Piecewise(flags, f, piece), c)
    <3>1. Reading(op, FilterState, f, Append(piece, c)) = op[<<Reading(op, FilterState, f, piece), c>>]
      BY <1>1, <2>1 DEF ReadsOn
    <3> QED
      BY <1>1, <1>2, <2>2, <3>1
  <2>4. ASSUME NEW more \in Text
        PROVE  Piecewise(flags, f, piece \o more) = Piecewise(flags, Piecewise(flags, f, piece), more)
    <3>1. Reading(op, FilterState, f, piece \o more) =
             Reading(op, FilterState, Reading(op, FilterState, f, piece), more)
      BY <1>1, <2>1 DEF ReadsOn
    <3> QED
      BY <1>2, <3>1
  <2> QED
    BY <2>2, <2>3, <2>4, Zenon DEF Follows
<1> QED
  BY <1>3, <1>4

FeedOp(flags) == [x \in FilterState \X Text |-> FilteredOutput(flags, x[1], x[2])]

Feed(flags, f, pieces) == Reading(FeedOp(flags), FilterState, f, pieces)

LEMMA FeedOpIs ==
    ASSUME NEW flags
    PROVE  /\ Steps(FeedOp(flags), FilterState, Text)
           /\ \A f \in FilterState, piece \in Text : FeedOp(flags)[<<f, piece>>] = Piecewise(flags, f, piece)
<1>1. \A f \in FilterState, piece \in Text :
         /\ FilteredOutput(flags, f, piece) = Piecewise(flags, f, piece)
         /\ Piecewise(flags, f, piece) \in FilterState
  BY OutputReads, PiecewiseReads
<1>2. \A x \in FilterState \X Text : FilteredOutput(flags, x[1], x[2]) \in FilterState
  BY <1>1
<1> QED
  BY <1>1, <1>2 DEF FeedOp, Steps

\* The pieces of a text do to the filter what the text does.
LEMMA FeedsWhole ==
    ASSUME NEW flags, NEW f \in FilterState, NEW pieces \in Seq(Text)
    PROVE  Feed(flags, f, pieces) = Piecewise(flags, f, Concat(pieces))
<1> DEFINE op == FeedOp(flags)
           T == {s \in Seq(Text) : Feed(flags, f, s) = Piecewise(flags, f, Concat(s))}
<1>1. ReadsOn(op, FilterState, Text) /\ \A s \in FilterState, p \in Text : op[<<s, p>>] = Piecewise(flags, s, p)
  BY FeedOpIs, ReadsAll
<1>2. \A s : Feed(flags, f, s) = Reading(op, FilterState, f, s)
  BY DEF Feed
<1> HIDE DEF op
<1>3. <<>> \in T
  <2>1. <<>> \in Seq(Text) /\ Concat(<<>>) = <<>>
    BY Concats
  <2>2. Feed(flags, f, <<>>) = f
    BY <1>1, <1>2 DEF ReadsOn
  <2>3. Piecewise(flags, f, <<>>) = f
    BY PiecewiseReads
  <2> QED
    BY <2>1, <2>2, <2>3
<1>4. \A s \in Seq(Text), x \in Text : s \in T => Append(s, x) \in T
  <2>1. SUFFICES ASSUME NEW s \in Seq(Text), NEW x \in Text, s \in T PROVE Append(s, x) \in T
    OBVIOUS
  <2>2. Concat(s) \in Text /\ Concat(Append(s, x)) = Concat(s) \o x
    BY Concats
  <2>3. Reading(op, FilterState, f, Append(s, x)) = op[<<Reading(op, FilterState, f, s), x>>]
    BY <1>1 DEF ReadsOn
  <2>4. Feed(flags, f, s) = Piecewise(flags, f, Concat(s)) /\ Piecewise(flags, f, Concat(s)) \in FilterState
    BY <2>1, <2>2, PiecewiseReads
  <2>5. Feed(flags, f, Append(s, x)) = Piecewise(flags, Piecewise(flags, f, Concat(s)), x)
    BY <1>1, <1>2, <2>3, <2>4
  <2>6. Piecewise(flags, f, Concat(s) \o x) = Piecewise(flags, Piecewise(flags, f, Concat(s)), x)
    <3> DEFINE all == Concat(s)
    <3>1. all \in Text /\ Follows(flags, f, all)
      BY <2>2, PiecewiseReads
    <3> HIDE DEF all
    <3>2. Piecewise(flags, f, all \o x) = Piecewise(flags, Piecewise(flags, f, all), x)
      BY <3>1, Zenon DEF Follows
    <3> QED
      BY <3>2 DEF all
  <2>7. Append(s, x) \in Seq(Text)
    OBVIOUS
  <2> QED
    BY <2>2, <2>5, <2>6, <2>7
<1>5. pieces \in T
  <2> HIDE DEF T
  <2> QED
    BY <1>3, <1>4, SeqInduction
<1> QED
  BY <1>5

Fresh == Filter(<<>>, "none")

LEMMA FilteredIs ==
    ASSUME NEW flags, NEW pieces \in Seq(Text)
    PROVE  Filtered(flags, pieces) = Piecewise(flags, Fresh, Concat(pieces)).out
<1> DEFINE m == Len(pieces)
           op == FeedOp(flags)
<1>0. Fresh \in FilterState
  BY SomeOwnChars, TextFacts, FilterFields DEF Fresh
<1>1. \A n \in 1 .. m : pieces[n] \in Text
  OBVIOUS
<1>2. Filtered(flags, pieces) =
         Run([at \in (1 .. m) \X FilterState |-> FilteredOutput(flags, at[2], pieces[at[1]])],
             FilterState, Fresh, m).out
  BY DEF Filtered, Read, Fresh
<1>3. ReadStep(op, FilterState, pieces) = [at \in (1 .. m) \X FilterState |-> After(op, at[2], pieces[at[1]])]
  BY DEF ReadStep
<1>4. \A s \in FilterState, p \in Text : op[<<s, p>>] = FilteredOutput(flags, s, p)
  BY DEF FeedOp
<1> HIDE DEF m, op
<1>5. ASSUME NEW at \in (1 .. m) \X FilterState
      PROVE  After(op, at[2], pieces[at[1]]) = FilteredOutput(flags, at[2], pieces[at[1]])
  BY <1>1, <1>4 DEF After
<1>6. ReadStep(op, FilterState, pieces) =
         [at \in (1 .. m) \X FilterState |-> FilteredOutput(flags, at[2], pieces[at[1]])]
  BY <1>3, <1>5
<1>7. Filtered(flags, pieces) = Feed(flags, Fresh, pieces).out
  BY <1>2, <1>6 DEF Feed, Reading, m, op
<1> QED
  BY <1>0, <1>7, FeedsWhole

\* A text is marked where a carriage return is missing.
WithMarks(chars) ==
    [i \in DOMAIN chars |->
       IF chars[i] = Newline /\ (i = 1 \/ chars[i - 1] # Return) THEN <<Return, Newline>>
                                                       ELSE <<chars[i]>>]

LastOf(chars) == IF chars = <<>> THEN "none" ELSE chars[Len(chars)]

LEMMA WithMarksType ==
    ASSUME NEW chars \in Text
    PROVE  WithMarks(chars) \in Seq(Text) /\ Len(WithMarks(chars)) = Len(chars)
<1>1. /\ DOMAIN chars = 1 .. Len(chars) /\ Len(chars) \in Nat
      /\ \A i \in 1 .. Len(chars) : chars[i] \in TextChar
  BY DEF Text
<1>2. WithMarks(chars) \in [1 .. Len(chars) -> Text]
  BY <1>1, SomeOwnChars, TextFacts DEF WithMarks
<1> QED
  BY <1>1, <1>2, FunctionIsSeq

LEMMA WithMarksAppend ==
    ASSUME NEW chars \in Text, NEW c \in TextChar
    PROVE  WithMarks(Append(chars, c)) =
              Append(WithMarks(chars),
                     IF c = Newline /\ LastOf(chars) # Return THEN <<Return, c>> ELSE <<c>>)
<1> DEFINE all == Append(chars, c)
           m == Len(chars)
           mark == IF c = Newline /\ LastOf(chars) # Return THEN <<Return, c>> ELSE <<c>>
           more == Append(WithMarks(chars), mark)
<1>1. /\ all \in Text /\ m \in Nat /\ Len(all) = m + 1 /\ all[m + 1] = c
      /\ DOMAIN all = 1 .. m + 1 /\ DOMAIN chars = 1 .. m
      /\ \A i \in 1 .. m : all[i] = chars[i]
  BY DEF Text
<1>2. mark \in Text
  BY SomeOwnChars, TextFacts
<1>3. chars = <<>> <=> m = 0
  BY DEF Text
<1> HIDE DEF all, mark
<1>4. WithMarks(all) \in Seq(Text) /\ Len(WithMarks(all)) = m + 1
  BY <1>1, WithMarksType
<1>5. WithMarks(chars) \in Seq(Text) /\ Len(WithMarks(chars)) = m
  BY WithMarksType
<1>6. /\ more \in Seq(Text) /\ Len(more) = m + 1 /\ more[m + 1] = mark
      /\ \A i \in 1 .. m : more[i] = WithMarks(chars)[i]
  BY <1>1, <1>2, <1>5
<1> HIDE DEF more
<1>7. ASSUME NEW i \in 1 .. m PROVE WithMarks(all)[i] = WithMarks(chars)[i]
  <2>1. all[i] = chars[i] /\ (i # 1 => all[i - 1] = chars[i - 1]) /\ i \in 1 .. m + 1
    BY <1>1
  <2> QED
    BY <1>1, <2>1 DEF WithMarks
<1>8. WithMarks(all)[m + 1] = mark
  <2>1. WithMarks(all)[m + 1] = IF c = Newline /\ (m + 1 = 1 \/ all[m] # Return) THEN <<Return, Newline>> ELSE <<c>>
    BY <1>1 DEF WithMarks
  <2>2. (m + 1 = 1 \/ all[m] # Return) <=> LastOf(chars) # Return
    <3>1. CASE m = 0
      BY <1>3, <3>1, SomeOwnChars DEF LastOf
    <3>2. CASE m # 0
      <4>1. all[m] = chars[m] /\ m + 1 # 1 /\ chars # <<>>
        BY <1>1, <1>3, <3>2
      <4> QED
        BY <4>1 DEF LastOf
    <3> QED
      BY <3>1, <3>2
  <2> QED
    BY <2>1, <2>2 DEF mark
<1>9. \A i \in 1 .. m + 1 : WithMarks(all)[i] = more[i]
  BY <1>1, <1>6, <1>7, <1>8
<1>10. WithMarks(all) = more
  BY <1>4, <1>6, <1>9, SequenceEquality
<1> QED
  BY <1>10 DEF all, more, mark

LEMMA FilterMeans ==
    ASSUME NEW flags, NEW text \in Text
    PROVE  Piecewise(flags, Fresh, text) =
              Filter(IF "CR" \in flags THEN WithReturns(text) ELSE text, LastOf(text))
<1> DEFINE ComesOut(s) == IF "CR" \in flags THEN WithReturns(s) ELSE s
           T == {s \in Text : Piecewise(flags, Fresh, s) = Filter(ComesOut(s), LastOf(s))}
<1>0. Fresh \in FilterState
  BY SomeOwnChars, TextFacts, FilterFields DEF Fresh
<1>1. \A s \in Text : WithReturns(s) = Concat(WithMarks(s)) /\ Concat(WithMarks(s)) \in Text
  BY WithMarksType, Concats DEF WithReturns, WithMarks
<1>2. \A s \in Text : ComesOut(s) \in Text /\ LastOf(s) \in TextChar
  <2>1. \A s \in Text : LastOf(s) \in TextChar
    BY SomeOwnChars DEF LastOf, Text
  <2> QED
    BY <1>1, <2>1
<1>3. <<>> \in T
  <2>1. WithMarks(<<>>) = <<>>
    BY DEF WithMarks
  <2>2. ComesOut(<<>>) = <<>> /\ LastOf(<<>>) = "none" /\ <<>> \in Text
    BY <1>1, <2>1, Concats, TextFacts DEF LastOf
  <2> HIDE DEF ComesOut
  <2> QED
    BY <1>0, <2>2, PiecewiseReads DEF Fresh
<1>4. \A s \in Text, x \in TextChar : s \in T => Append(s, x) \in T
  <2>1. SUFFICES ASSUME NEW s \in Text, NEW x \in TextChar, s \in T PROVE Append(s, x) \in T
    OBVIOUS
  <2>2. Append(s, x) \in Text /\ LastOf(Append(s, x)) = x
    BY DEF Text, LastOf
  <2> DEFINE mark == IF x = Newline /\ LastOf(s) # Return THEN <<Return, x>> ELSE <<x>>
  <2>3. WithMarks(Append(s, x)) = Append(WithMarks(s), mark)
    BY WithMarksAppend
  <2>4. mark \in Text /\ <<x>> \in Text
    BY SomeOwnChars, TextFacts
  <2>5. WithReturns(Append(s, x)) = WithReturns(s) \o mark
    <3>1. WithMarks(s) \in Seq(Text)
      BY WithMarksType
    <3>2. Concat(Append(WithMarks(s), mark)) = Concat(WithMarks(s)) \o mark
      BY <2>4, <3>1, Concats
    <3> QED
      BY <1>1, <2>2, <2>3, <3>2
  <2>6. Append(s, x) = s \o <<x>>
    BY DEF Text
  <2>7. ComesOut(Append(s, x)) = ComesOut(s) \o IF "CR" \in flags THEN mark ELSE <<x>>
    BY <2>5, <2>6
  <2>8. Piecewise(flags, Fresh, s) = Filter(ComesOut(s), LastOf(s))
    BY <2>1
  <2>9. Piecewise(flags, Fresh, Append(s, x)) = FilterChar(flags, Filter(ComesOut(s), LastOf(s)), x)
    <3>1. Follows(flags, Fresh, s)
      BY <1>0, PiecewiseReads
    <3>2. Piecewise(flags, Fresh, Append(s, x)) = FilterChar(flags, Piecewise(flags, Fresh, s), x)
      BY <3>1, Zenon DEF Follows
    <3> QED
      BY <2>8, <3>2
  <2>10. FilterChar(flags, Filter(ComesOut(s), LastOf(s)), x) =
            Filter(ComesOut(s) \o IF "CR" \in flags /\ x = Newline /\ LastOf(s) # Return THEN <<Return, x>> ELSE <<x>>, x)
    BY DEF FilterChar, Filter
  <2>11. (IF "CR" \in flags /\ x = Newline /\ LastOf(s) # Return THEN <<Return, x>> ELSE <<x>>)
            = IF "CR" \in flags THEN mark ELSE <<x>>
    OBVIOUS
  <2> HIDE DEF ComesOut, mark
  <2> QED
    BY <2>2, <2>7, <2>9, <2>10, <2>11
<1>5. text \in T
  <2> HIDE DEF T
  <2> QED
    BY <1>3, <1>4, SeqInduction DEF Text
<1> QED
  BY <1>5

(***************************************************************************)
(* The text that comes out, for any pieces: each line feed has its         *)
(* carriage return, once, or with the filter off the text is unchanged.    *)
(***************************************************************************)
THEOREM ReturnsAreRight ==
    ASSUME NEW flags, NEW pieces \in Seq(Text)
    PROVE  Filtered(flags, pieces) =
              IF "CR" \in flags THEN WithReturns(Concat(pieces)) ELSE Concat(pieces)
<1>1. Concat(pieces) \in Text
  BY Concats
<1> QED
  BY <1>1, FilteredIs, FilterMeans DEF Filter

-----------------------------------------------------------------------------
(***************************************************************************)
(* Numbers.  The digits of a number are read back as the number.           *)
(***************************************************************************)
Numerals == {Numeral(d) : d \in 0 .. 9}

DigitOf(char) == CHOOSE d \in 0 .. 9 : Numeral(d) = char

LEMMA NumeralsDiffer == \A d \in 0 .. 9 : \A e \in 0 .. 9 : Numeral(d) = Numeral(e) => d = e
  BY DEF Numeral

LEMMA DigitIs ==
    ASSUME NEW d \in 0 .. 9
    PROVE  Numeral(d) \in Numerals /\ DigitOf(Numeral(d)) = d
<1>1. Numeral(d) \in Numerals
  BY DEF Numerals
<1>2. DigitOf(Numeral(d)) \in 0 .. 9 /\ Numeral(DigitOf(Numeral(d))) = Numeral(d)
  BY Zenon DEF DigitOf
<1> QED
  BY <1>1, <1>2, NumeralsDiffer

LEMMA NumeralIs == ASSUME NEW c \in Numerals PROVE DigitOf(c) \in 0 .. 9
<1>1. PICK d \in 0 .. 9 : c = Numeral(d)
  BY DEF Numerals
<1> QED
  BY <1>1, DigitIs

ValueOp == [x \in Nat \X Numerals |-> 10 * x[1] + DigitOf(x[2])]

LEMMA ValueOpIs ==
    Steps(ValueOp, Nat, Numerals) /\ \A n \in Nat, c \in Numerals : ValueOp[<<n, c>>] = 10 * n + DigitOf(c)
<1>1. ASSUME NEW x \in Nat \X Numerals PROVE 10 * x[1] + DigitOf(x[2]) \in Nat
  <2>1. x[1] \in Nat /\ DigitOf(x[2]) \in 0 .. 9
    BY NumeralIs
  <2> QED
    BY <2>1
<1> QED
  BY <1>1 DEF ValueOp, Steps

LEMMA ValueReads ==
    ASSUME NEW digits \in Seq(Numerals)
    PROVE  ValueOf(digits) = Reading(ValueOp, Nat, 0, digits)
<1> DEFINE m == Len(digits)
<1>1. \A n \in 1 .. m : digits[n] \in Numerals
  OBVIOUS
<1>2. ValueOf(digits) = Run([at \in (1 .. m) \X Nat |-> 10 * at[2] + DigitOf(digits[at[1]])], Nat, 0, m)
  BY DEF ValueOf, Read, DigitOf
<1>3. ReadStep(ValueOp, Nat, digits) = [at \in (1 .. m) \X Nat |-> After(ValueOp, at[2], digits[at[1]])]
  BY DEF ReadStep
<1> HIDE DEF m
<1>4. ASSUME NEW at \in (1 .. m) \X Nat
      PROVE  After(ValueOp, at[2], digits[at[1]]) = 10 * at[2] + DigitOf(digits[at[1]])
  BY <1>1, ValueOpIs DEF After
<1>5. ReadStep(ValueOp, Nat, digits) = [at \in (1 .. m) \X Nat |-> 10 * at[2] + DigitOf(digits[at[1]])]
  BY <1>3, <1>4
<1> QED
  BY <1>2, <1>5 DEF Reading, m

\* Digits that read as a number.
Spells(digits, n) == digits \in Seq(Numerals) /\ digits # <<>> /\ ValueOf(digits) = n

\* A number with one digit more.
Grow(n, d) == 10 * n + d

LEMMA SpellsDigit ==
    ASSUME NEW d \in 0 .. 9
    PROVE  /\ Spells(<<Numeral(d)>>, d)
           /\ \A n \in Nat : \A digits : Spells(digits, n) => Spells(Append(digits, Numeral(d)), Grow(n, d))
<1>1. ReadsOn(ValueOp, Nat, Numerals)
  BY ValueOpIs, ReadsAll
<1>2. Numeral(d) \in Numerals /\ DigitOf(Numeral(d)) = d
  BY DigitIs
<1>3. ASSUME NEW digits \in Seq(Numerals)
      PROVE  ValueOf(digits) \in Nat /\ ValueOf(Append(digits, Numeral(d))) = 10 * ValueOf(digits) + d
  <2>1. 0 \in Nat /\ Append(digits, Numeral(d)) \in Seq(Numerals)
    BY <1>2
  <2>2. /\ Reading(ValueOp, Nat, 0, digits) \in Nat
        /\ Reading(ValueOp, Nat, 0, Append(digits, Numeral(d))) =
              ValueOp[<<Reading(ValueOp, Nat, 0, digits), Numeral(d)>>]
    BY <1>1, <1>2, <2>1 DEF ReadsOn
  <2>3. /\ ValueOf(digits) = Reading(ValueOp, Nat, 0, digits)
        /\ ValueOf(Append(digits, Numeral(d))) = Reading(ValueOp, Nat, 0, Append(digits, Numeral(d)))
    BY <2>1, ValueReads
  <2> QED
    BY <1>2, <2>2, <2>3, ValueOpIs
<1>4. Spells(<<Numeral(d)>>, d)
  <2>1. <<>> \in Seq(Numerals) /\ <<Numeral(d)>> = Append(<<>>, Numeral(d)) /\ 0 \in Nat
    OBVIOUS
  <2>2. ValueOf(<<>>) = 0
    <3>1. Reading(ValueOp, Nat, 0, <<>>) = 0
      BY <1>1, <2>1 DEF ReadsOn
    <3> QED
      BY <2>1, <3>1, ValueReads
  <2>3. ValueOf(Append(<<>>, Numeral(d))) = 10 * ValueOf(<<>>) + d
    BY <1>3, <2>1
  <2>4. ValueOf(<<Numeral(d)>>) = d
    BY <2>1, <2>2, <2>3
  <2>5. <<Numeral(d)>> \in Seq(Numerals) /\ <<Numeral(d)>> # <<>>
    BY <1>2
  <2> QED
    BY <2>4, <2>5 DEF Spells
<1>5. ASSUME NEW n \in Nat, NEW digits, Spells(digits, n) PROVE Spells(Append(digits, Numeral(d)), Grow(n, d))
  <2>1. digits \in Seq(Numerals) /\ ValueOf(digits) = n
    BY <1>5 DEF Spells
  <2>2. Append(digits, Numeral(d)) \in Seq(Numerals) /\ Append(digits, Numeral(d)) # <<>>
    BY <1>2, <2>1
  <2> QED
    BY <1>3, <2>1, <2>2 DEF Spells, Grow
<1> QED
  BY <1>4, <1>5

LEMMA SpellsOne == ASSUME NEW d \in 0 .. 9 PROVE Spells(<<Numeral(d)>>, d)
  BY SpellsDigit, Zenon

LEMMA SpellsMore ==
    ASSUME NEW d \in 0 .. 9, NEW n \in Nat, NEW digits, Spells(digits, n)
    PROVE  Spells(Append(digits, Numeral(d)), Grow(n, d))
  BY SpellsDigit, Zenon

\* The recursion of U32 up to a number.
DigitsRound(f, n) ==
    [k \in 0 .. n |-> IF k < 10 THEN <<Numeral(k)>> ELSE Append(f[k \div 10], Numeral(k % 10))]

LEMMA Tenth ==
    ASSUME NEW k \in Nat, k >= 10
    PROVE  k \div 10 \in 0 .. k - 1 /\ k % 10 \in 0 .. 9 /\ k = 10 * (k \div 10) + (k % 10)
  OBVIOUS

LEMMA DigitsExist ==
    ASSUME NEW n \in Nat
    PROVE  \E f : f = DigitsRound(f, n)
<1> DEFINE T == {k \in Nat : \E f : f = DigitsRound(f, k)}
<1>1. 0 \in T
  <2> DEFINE f == [k \in 0 .. 0 |-> <<Numeral(k)>>]
  <2>1. f = DigitsRound(f, 0)
    BY DEF DigitsRound
  <2> QED
    BY <2>1
<1>2. ASSUME NEW m \in Nat, m \in T PROVE m + 1 \in T
  <2>1. PICK f : f = DigitsRound(f, m)
    BY <1>2
  <2> DEFINE j == m + 1
             last == IF j < 10 THEN <<Numeral(j)>> ELSE Append(f[j \div 10], Numeral(j % 10))
             g == [k \in 0 .. j |-> IF k = j THEN last ELSE f[k]]
  <2>2. ASSUME NEW k \in 0 .. j
        PROVE  g[k] = IF k < 10 THEN <<Numeral(k)>> ELSE Append(g[k \div 10], Numeral(k % 10))
    <3>1. k >= 10 => k \div 10 \in 0 .. k - 1
      BY Tenth
    <3>2. k >= 10 => g[k \div 10] = f[k \div 10]
      BY <3>1
    <3>3. CASE k = j
      BY <3>2, <3>3
    <3>4. CASE k # j
      <4>1. k \in 0 .. m
        BY <3>4
      <4>2. f[k] = IF k < 10 THEN <<Numeral(k)>> ELSE Append(f[k \div 10], Numeral(k % 10))
        BY <2>1, <4>1 DEF DigitsRound
      <4>3. g[k] = f[k]
        BY <3>4
      <4> HIDE DEF g
      <4> QED
        BY <3>2, <4>2, <4>3
    <3> QED
      BY <3>3, <3>4
  <2>3. g = [k \in 0 .. j |-> g[k]]
    OBVIOUS
  <2> HIDE DEF g
  <2>4. g = DigitsRound(g, j)
    <3>1. DigitsRound(g, j) = [k \in 0 .. j |-> g[k]]
      BY <2>2 DEF DigitsRound
    <3> QED
      BY <2>3, <3>1
  <2> QED
    BY <2>4
<1>3. n \in T
  <2> HIDE DEF T
  <2> QED
    BY <1>1, <1>2, SetInduction
<1> QED
  BY <1>3

LEMMA U32Spells ==
    ASSUME NEW n \in Nat
    PROVE  Spells(U32(n), n)
<1> DEFINE f == CHOOSE g : g = DigitsRound(g, n)
           T == {k \in Nat : \A i \in 0 .. k : i <= n => Spells(f[i], i)}
<1>1. f = DigitsRound(f, n)
  BY DigitsExist, Zenon
<1>2. U32(n) = f[n]
  BY DEF U32, DigitsRound
<1> HIDE DEF f
<1>3. ASSUME NEW i \in 0 .. n PROVE f[i] = IF i < 10 THEN <<Numeral(i)>> ELSE Append(f[i \div 10], Numeral(i % 10))
  BY <1>1 DEF DigitsRound
<1>4. 0 \in T
  <2>0. 0 \in 0 .. n /\ 0 < 10 /\ 0 \in 0 .. 9
    OBVIOUS
  <2>1. f[0] = <<Numeral(0)>>
    BY <1>3, <2>0
  <2>2. Spells(f[0], 0)
    BY <2>0, <2>1, SpellsOne
  <2> QED
    BY <2>2
<1>5. ASSUME NEW k \in Nat, k \in T PROVE k + 1 \in T
  <2>1. SUFFICES ASSUME k + 1 <= n PROVE Spells(f[k + 1], k + 1)
    BY <1>5
  <2> DEFINE j == k + 1
  <2>2. j \in 0 .. n /\ j \in Nat
    BY <2>1
  <2>3. CASE j < 10
    <3> HIDE DEF j
    <3>0. f[j] = IF j < 10 THEN <<Numeral(j)>> ELSE Append(f[j \div 10], Numeral(j % 10))
      BY <1>3, <2>2, Zenon
    <3>1. f[j] = <<Numeral(j)>> /\ j \in 0 .. 9
      BY <2>2, <2>3, <3>0
    <3>2. Spells(<<Numeral(j)>>, j)
      BY <3>1, SpellsOne, Zenon
    <3>3. Spells(f[j], j)
      BY <3>1, <3>2
    <3> QED
      BY <3>3 DEF j
  <2>4. CASE j >= 10
    <3>1. j \div 10 \in 0 .. k /\ j % 10 \in 0 .. 9 /\ j = 10 * (j \div 10) + (j % 10)
      BY <2>2, <2>4, Tenth
    <3>2. f[j] = Append(f[j \div 10], Numeral(j % 10))
      <4> HIDE DEF j
      <4>1. ~(j < 10)
        BY <2>2, <2>4
      <4>2. f[j] = IF j < 10 THEN <<Numeral(j)>> ELSE Append(f[j \div 10], Numeral(j % 10))
        BY <1>3, <2>2, Zenon
      <4> QED
        BY <4>1, <4>2
    <3>3. Spells(f[j \div 10], j \div 10) /\ j \div 10 \in Nat
      BY <1>5, <2>1, <3>1
    <3> DEFINE q == j \div 10
               r == j % 10
    <3>4. q \in Nat /\ r \in 0 .. 9 /\ Spells(f[q], q) /\ f[j] = Append(f[q], Numeral(r)) /\ j = 10 * q + r
      BY <3>1, <3>2, <3>3
    <3> HIDE DEF q, r, j
    <3>5. Spells(Append(f[q], Numeral(r)), Grow(q, r))
      BY <3>4, SpellsMore, Zenon
    <3>6. Spells(f[j], j)
      BY <3>4, <3>5 DEF Grow
    <3> QED
      BY <3>6 DEF j
  <2> QED
    BY <2>2, <2>3, <2>4
<1>6. n \in T
  <2> HIDE DEF T
  <2> QED
    BY <1>4, <1>5, SetInduction
<1> QED
  BY <1>2, <1>6

LEMMA PaddedTwoSpells == ASSUME NEW n \in 0 .. 99 PROVE Spells(PaddedTo(2, n), n)
<1> DEFINE tens == n \div 10
           ones == n % 10
<1>1. tens \in 0 .. 9 /\ ones \in 0 .. 9 /\ n = 10 * tens + ones /\ tens % 10 = tens
  OBVIOUS
<1>2. PaddedTo(2, n) = <<Numeral((n \div 10) % 10), Numeral((n \div 1) % 10)>>
  <2>1. 2 - 1 = 1 /\ 2 - 2 = 0 /\ 10 ^ 1 = 10 /\ 10 ^ 0 = 1
    OBVIOUS
  <2>2. PaddedTo(2, n) = [i \in 1 .. 2 |-> Numeral((n \div 10 ^ (2 - i)) % 10)]
    BY DEF PaddedTo
  <2> QED
    BY <2>1, <2>2
<1>3. n \div 1 = n
  OBVIOUS
<1>4. PaddedTo(2, n) = Append(<<Numeral(tens)>>, Numeral(ones))
  BY <1>1, <1>2, <1>3
<1> HIDE DEF tens, ones
<1>5. Spells(<<Numeral(tens)>>, tens)
  <2>1. tens \in 0 .. 9
    BY <1>1
  <2> QED
    BY <2>1, SpellsOne
<1>6. Spells(Append(<<Numeral(tens)>>, Numeral(ones)), Grow(tens, ones))
  <2>1. tens \in Nat /\ ones \in 0 .. 9
    BY <1>1
  <2> QED
    BY <1>5, <2>1, SpellsMore, Zenon
<1>7. Grow(tens, ones) = n
  BY <1>1 DEF Grow
<1> QED
  BY <1>4, <1>6, <1>7

LEMMA PaddedThreeSpells == ASSUME NEW n \in 0 .. 999 PROVE Spells(PaddedTo(3, n), n)
<1> DEFINE hundreds == n \div 100
           tens == (n \div 10) % 10
           ones == n % 10
<1>1. /\ hundreds \in 0 .. 9 /\ tens \in 0 .. 9 /\ ones \in 0 .. 9 /\ hundreds % 10 = hundreds
      /\ n = 10 * (10 * hundreds + tens) + ones
  OBVIOUS
<1>2. PaddedTo(3, n) = <<Numeral((n \div 100) % 10), Numeral((n \div 10) % 10), Numeral((n \div 1) % 10)>>
  <2>1. 3 - 1 = 2 /\ 3 - 2 = 1 /\ 3 - 3 = 0 /\ 10 ^ 2 = 100 /\ 10 ^ 1 = 10 /\ 10 ^ 0 = 1
    OBVIOUS
  <2>2. PaddedTo(3, n) = [i \in 1 .. 3 |-> Numeral((n \div 10 ^ (3 - i)) % 10)]
    BY DEF PaddedTo
  <2> QED
    BY <2>1, <2>2
<1>3. n \div 1 = n
  OBVIOUS
<1>4. PaddedTo(3, n) = Append(Append(<<Numeral(hundreds)>>, Numeral(tens)), Numeral(ones))
  BY <1>1, <1>2, <1>3
<1> HIDE DEF hundreds, tens, ones
<1>5. Spells(<<Numeral(hundreds)>>, hundreds)
  <2>1. hundreds \in 0 .. 9
    BY <1>1
  <2> QED
    BY <2>1, SpellsOne
<1> DEFINE front == Append(<<Numeral(hundreds)>>, Numeral(tens))
           most == 10 * hundreds + tens
<1>6. Spells(front, most) /\ most \in Nat
  <2>1. hundreds \in Nat /\ tens \in 0 .. 9
    BY <1>1
  <2>2. Spells(Append(<<Numeral(hundreds)>>, Numeral(tens)), Grow(hundreds, tens))
    BY <1>5, <2>1, SpellsMore, ZenonT(40)
  <2> QED
    BY <2>1, <2>2 DEF Grow
<1>7. PaddedTo(3, n) = Append(front, Numeral(ones)) /\ n = 10 * most + ones
  BY <1>1, <1>4
<1> HIDE DEF front, most
<1>8. Spells(Append(front, Numeral(ones)), Grow(most, ones))
  BY <1>1, <1>6, SpellsMore, ZenonT(40)
<1> QED
  BY <1>7, <1>8, ZenonT(40) DEF Grow

\* Milliseconds in hours, minutes, seconds and the rest.
LEMMA TimeFields ==
    ASSUME NEW ms \in Nat
    PROVE  /\ ms \div 3600000 \in Nat /\ (ms % 3600000) \div 60000 \in 0 .. 59
           /\ (ms % 60000) \div 1000 \in 0 .. 59 /\ ms % 1000 \in 0 .. 999
           /\ ms = 3600000 * (ms \div 3600000) + 60000 * ((ms % 3600000) \div 60000)
                   + 1000 * ((ms % 60000) \div 1000) + (ms % 1000)
<1>1. ms \div 3600000 \in Nat
  BY SMTT(60)
<1>2. (ms % 3600000) \div 60000 \in 0 .. 59
  BY SMTT(60)
<1>3. (ms % 60000) \div 1000 \in 0 .. 59 /\ ms % 1000 \in 0 .. 999
  BY SMTT(60)
<1>4. ms = 3600000 * (ms \div 3600000) + (ms % 3600000)
  BY SMTT(60)
<1>5. ms % 3600000 = 60000 * ((ms % 3600000) \div 60000) + (ms % 60000)
  BY SMTT(60)
<1>6. ms % 60000 = 1000 * ((ms % 60000) \div 1000) + (ms % 1000)
  BY SMTT(60)
<1> QED
  BY <1>1, <1>2, <1>3, <1>4, <1>5, <1>6, SMTT(60)

\* The time of a line is read back, for every number of milliseconds.
THEOREM TimeIsRight ==
    ASSUME NEW ms \in Nat
    PROVE  TimeOf(Timestamp(ms)) = ms
<1> DEFINE hours == ms \div 3600000
           minutes == (ms % 3600000) \div 60000
           seconds == (ms % 60000) \div 1000
           millis == ms % 1000
           first == IF hours < 100 THEN PaddedTo(2, hours) ELSE U32(hours)
           stamp == <<first, <<":">>, PaddedTo(2, minutes), <<":">>, PaddedTo(2, seconds), <<".">>,
                      PaddedTo(3, millis)>>
<1>1. Timestamp(ms) = stamp
  BY DEF Timestamp
<1>2. hours \in Nat /\ minutes \in 0 .. 99 /\ seconds \in 0 .. 99 /\ millis \in 0 .. 999
  BY TimeFields, SMTT(60)
<1>7. ms = 3600000 * hours + 60000 * minutes + 1000 * seconds + millis
  BY TimeFields, SMTT(60)
<1> HIDE DEF hours, minutes, seconds, millis
<1>3. ValueOf(first) = hours
  <2>1. CASE hours < 100
    <3>1. hours \in 0 .. 99
      BY <1>2, <2>1
    <3> QED
      <4>1. Spells(PaddedTo(2, hours), hours)
        BY <3>1, PaddedTwoSpells
      <4> QED
        BY <2>1, <4>1 DEF Spells
  <2>2. CASE ~(hours < 100)
    <3>1. Spells(U32(hours), hours)
      BY <1>2, U32Spells
    <3> QED
      BY <2>2, <3>1 DEF Spells
  <2> QED
    BY <2>1, <2>2
<1>4. /\ ValueOf(PaddedTo(2, minutes)) = minutes /\ ValueOf(PaddedTo(2, seconds)) = seconds
      /\ ValueOf(PaddedTo(3, millis)) = millis
  <2>1. ValueOf(PaddedTo(2, minutes)) = minutes /\ ValueOf(PaddedTo(2, seconds)) = seconds
    <3>1. Spells(PaddedTo(2, minutes), minutes) /\ Spells(PaddedTo(2, seconds), seconds)
      BY <1>2, PaddedTwoSpells
    <3> QED
      BY <3>1, Zenon DEF Spells
  <2>2. ValueOf(PaddedTo(3, millis)) = millis
    <3>0. millis \in 0 .. 999
      BY <1>2
    <3>1. Spells(PaddedTo(3, millis), millis)
      BY <3>0, PaddedThreeSpells, ZenonT(40)
    <3> QED
      BY <3>1, Zenon DEF Spells
  <2> QED
    BY <2>1, <2>2
<1> HIDE DEF first
<1>5. /\ stamp[1] = first /\ stamp[3] = PaddedTo(2, minutes) /\ stamp[5] = PaddedTo(2, seconds)
      /\ stamp[7] = PaddedTo(3, millis)
  OBVIOUS
<1> HIDE DEF stamp
<1>6. TimeOf(stamp) = 3600000 * hours + 60000 * minutes + 1000 * seconds + millis
  BY <1>3, <1>4, <1>5, SMTT(60) DEF TimeOf
<1> QED
  BY <1>1, <1>6, <1>7, SMTT(60)

-----------------------------------------------------------------------------
(***************************************************************************)
(* Lines.  What is not a colour is a plain character; the last colour or   *)
(* reset of a text decides.                                                *)
(***************************************************************************)
PlainChar == TextChar \ Colors

Plain == Seq(PlainChar)

LEMMA PlainIsText ==
    /\ Plain \subseteq Text /\ Seq(Plain) \subseteq Seq(Text)
    /\ <<>> \in Plain
    /\ \A c \in PlainChar : <<c>> \in Plain /\ \A d \in PlainChar : <<c, d>> \in Plain
  BY DEF Plain, Text, PlainChar

LEMMA PlainChars ==
    /\ {Newline, Return, ":", ".", " ", "[", "]", "normal", "reset", "?", "E", "W", "I", "D", "V"}
          \subseteq PlainChar
    /\ Numerals \subseteq PlainChar
<1>1. {Newline, Return, ":", ".", " ", "[", "]", "normal", "reset", "?", "E", "W", "I", "D", "V"}
          \subseteq PlainChar
  BY OwnChars, ZenonT(40) DEF PlainChar, Colors, OwnChar, Newline, Return
<1>2. ASSUME NEW d \in 0 .. 9 PROVE Numeral(d) \in PlainChar
  <2>1. Numeral(d) \in {"0", "1", "2", "3", "4", "5", "6", "7", "8", "9"}
    BY DEF Numeral
  <2>2. {"0", "1", "2", "3", "4", "5", "6", "7", "8", "9"} \subseteq PlainChar
    BY OwnChars DEF PlainChar, Colors, OwnChar
  <2> QED
    BY <2>1, <2>2
<1> QED
  BY <1>1, <1>2 DEF Numerals

LEMMA ColorStep ==
    ASSUME NEW text \in Text, NEW c \in TextChar
    PROVE  ColorIsOff(Append(text, c)) <=> (c = "reset" \/ (c \notin Colors /\ ColorIsOff(text)))
<1> DEFINE all == Append(text, c)
           m == Len(text)
<1>1. /\ m \in Nat /\ Len(all) = m + 1 /\ all[m + 1] = c /\ DOMAIN all = 1 .. m + 1
      /\ DOMAIN text = 1 .. m /\ \A i \in 1 .. m : all[i] = text[i]
  BY DEF Text
<1>2. "reset" \notin Colors
  BY DEF Colors
<1> HIDE DEF all, m
<1>3. CASE c = "reset"
  <2>1. ASSUME NEW i \in DOMAIN all, all[i] \in Colors
        PROVE  \E j \in i + 1 .. Len(all) : all[j] = "reset"
    <3>1. i # m + 1
      BY <1>1, <1>2, <1>3, <2>1
    <3>2. m + 1 \in i + 1 .. Len(all)
      BY <1>1, <3>1
    <3> QED
      BY <1>1, <1>3, <3>2
  <2>2. ColorIsOff(all)
    BY <2>1 DEF ColorIsOff
  <2> QED
    BY <1>3, <2>2 DEF all
<1>4. CASE c # "reset" /\ c \in Colors
  <2>1. m + 1 \in DOMAIN all /\ all[m + 1] \in Colors /\ ~ \E j \in m + 1 + 1 .. Len(all) : all[j] = "reset"
    BY <1>1, <1>4
  <2>2. ~ColorIsOff(all)
    BY <2>1 DEF ColorIsOff
  <2> QED
    BY <1>4, <2>2 DEF all
<1>5. CASE c # "reset" /\ c \notin Colors
  <2>1. ASSUME NEW i \in 1 .. m
        PROVE  (\E j \in i + 1 .. m + 1 : all[j] = "reset") <=> \E j \in i + 1 .. m : text[j] = "reset"
    <3>1. ASSUME NEW j \in i + 1 .. m + 1, all[j] = "reset" PROVE j \in i + 1 .. m /\ text[j] = "reset"
      BY <1>1, <1>5, <3>1
    <3>2. ASSUME NEW j \in i + 1 .. m, text[j] = "reset" PROVE j \in i + 1 .. m + 1 /\ all[j] = "reset"
      BY <1>1, <3>2
    <3> QED
      BY <3>1, <3>2
  <2>2. (\A i \in 1 .. m + 1 : all[i] \in Colors => \E j \in i + 1 .. m + 1 : all[j] = "reset")
        <=> \A i \in 1 .. m : all[i] \in Colors => \E j \in i + 1 .. m + 1 : all[j] = "reset"
    BY <1>1, <1>5
  <2>3. (\A i \in 1 .. m : all[i] \in Colors => \E j \in i + 1 .. m + 1 : all[j] = "reset")
        <=> \A i \in 1 .. m : text[i] \in Colors => \E j \in i + 1 .. m : text[j] = "reset"
    BY <1>1, <2>1
  <2>4. ColorIsOff(all) <=> ColorIsOff(text)
    BY <1>1, <2>2, <2>3 DEF ColorIsOff, m
  <2> QED
    BY <1>5, <2>4 DEF all
<1> QED
  BY <1>3, <1>4, <1>5

LEMMA ColorEnds ==
    ASSUME NEW text \in Text
    PROVE  /\ ColorIsOff(text \o <<"reset">>)
           /\ ColorIsOff(text) => \A more \in Plain : ColorIsOff(text \o more)
<1>1. "reset" \in TextChar
  BY PlainChars DEF PlainChar
<1>2. ColorIsOff(text \o <<"reset">>)
  <2>1. text \o <<"reset">> = Append(text, "reset")
    BY DEF Text
  <2> QED
    BY <1>1, <2>1, ColorStep
<1>3. ASSUME ColorIsOff(text), NEW more \in Plain PROVE ColorIsOff(text \o more)
  <2> DEFINE T == {s \in Plain : ColorIsOff(text \o s)}
  <2>1. <<>> \in T
    <3>1. text \o <<>> = text
      BY DEF Text
    <3> QED
      BY <1>3, <3>1, PlainIsText
  <2>2. \A s \in Seq(PlainChar), x \in PlainChar : s \in T => Append(s, x) \in T
    <3>1. SUFFICES ASSUME NEW s \in Plain, NEW x \in PlainChar, s \in T PROVE Append(s, x) \in T
      BY DEF Plain
    <3>2. /\ text \o s \in Text /\ text \o Append(s, x) = Append(text \o s, x) /\ Append(s, x) \in Plain
      BY PlainIsText DEF Plain, PlainChar, Text
    <3>3. x \in TextChar /\ x \notin Colors
      BY DEF PlainChar
    <3>4. ColorIsOff(text \o s)
      BY <3>1
    <3>5. ColorIsOff(Append(text \o s, x))
      BY <3>2, <3>3, <3>4, ColorStep
    <3> QED
      BY <3>2, <3>5
  <2>3. more \in T
    <3> HIDE DEF T
    <3> QED
      BY <2>1, <2>2, SeqInduction DEF Plain
  <2> QED
    BY <2>3
<1> QED
  BY <1>2, <1>3

\* The filter adds no colour.
LEMMA ReturnsKeepColor ==
    ASSUME NEW text \in Text
    PROVE  WithReturns(text) \in Text /\ (ColorIsOff(WithReturns(text)) <=> ColorIsOff(text))
<1> DEFINE T == {s \in Text : ColorIsOff(WithReturns(s)) <=> ColorIsOff(s)}
<1>1. \A s \in Text : WithReturns(s) = Concat(WithMarks(s)) /\ WithReturns(s) \in Text
  BY WithMarksType, Concats DEF WithReturns, WithMarks
<1>2. <<>> \in T
  <2>1. WithMarks(<<>>) = <<>>
    BY DEF WithMarks
  <2>2. WithReturns(<<>>) = <<>>
    BY <1>1, <2>1, Concats, TextFacts
  <2> QED
    BY <2>2, TextFacts
<1>3. \A s \in Seq(TextChar), x \in TextChar : s \in T => Append(s, x) \in T
  <2>1. SUFFICES ASSUME NEW s \in Text, NEW x \in TextChar, s \in T PROVE Append(s, x) \in T
    BY DEF Text
  <2> DEFINE mark == IF x = Newline /\ LastOf(s) # Return THEN <<Return, x>> ELSE <<x>>
  <2>2. Append(s, x) \in Text /\ WithReturns(s) \in Text
    BY <1>1 DEF Text
  <2>3. mark \in Text
    BY SomeOwnChars, TextFacts
  <2>4. WithMarks(Append(s, x)) = Append(WithMarks(s), mark) /\ WithMarks(s) \in Seq(Text)
    BY WithMarksAppend, WithMarksType
  <2>5. WithReturns(Append(s, x)) = WithReturns(s) \o mark
    BY <1>1, <2>2, <2>3, <2>4, Concats
  <2> DEFINE before == WithReturns(s)
  <2>6. before \in Text /\ (ColorIsOff(before) <=> ColorIsOff(s))
    BY <2>1, <2>2
  <2>7. ColorIsOff(Append(s, x)) <=> (x = "reset" \/ (x \notin Colors /\ ColorIsOff(s)))
    BY ColorStep
  <2> HIDE DEF before
  <2>8. ColorIsOff(before \o mark) <=> (x = "reset" \/ (x \notin Colors /\ ColorIsOff(before)))
    <3>1. CASE x = Newline /\ LastOf(s) # Return
      <4>1. before \o mark = Append(Append(before, Return), x) /\ Append(before, Return) \in Text
        BY <2>6, <3>1, SomeOwnChars DEF Text
      <4>2. Return # "reset" /\ Return \notin Colors /\ Return \in TextChar
        BY SomeOwnChars DEF Return, Colors
      <4>3. ColorIsOff(Append(before, Return)) <=> ColorIsOff(before)
        BY <2>6, <4>2, ColorStep
      <4>4. ColorIsOff(before \o mark) <=> (x = "reset" \/ (x \notin Colors /\ ColorIsOff(Append(before, Return))))
        BY <4>1, ColorStep, ZenonT(40)
      <4> QED
        BY <4>3, <4>4
    <3>2. CASE ~(x = Newline /\ LastOf(s) # Return)
      <4>1. before \o mark = Append(before, x)
        BY <2>6, <3>2 DEF Text
      <4> QED
        BY <2>6, <4>1, ColorStep, ZenonT(40)
    <3> QED
      BY <3>1, <3>2
  <2>9. ColorIsOff(WithReturns(Append(s, x))) <=> ColorIsOff(Append(s, x))
    BY <2>5, <2>6, <2>7, <2>8 DEF before
  <2> QED
    BY <2>2, <2>9
<1>4. text \in T
  <2> HIDE DEF T
  <2> QED
    BY <1>2, <1>3, SeqInduction DEF Text
<1> QED
  BY <1>1, <1>4

LEMMA ConcatPlain == ASSUME NEW pieces \in Seq(Plain) PROVE Concat(pieces) \in Plain
<1> DEFINE T == {s \in Seq(Plain) : Concat(s) \in Plain}
<1>1. <<>> \in T
  BY Concats, PlainIsText
<1>2. \A s \in Seq(Plain), x \in Plain : s \in T => Append(s, x) \in T
  <2>1. SUFFICES ASSUME NEW s \in Seq(Plain), NEW x \in Plain, s \in T PROVE Append(s, x) \in T
    OBVIOUS
  <2>2. Append(s, x) \in Seq(Plain) /\ s \in Seq(Text) /\ x \in Text /\ Concat(s) \in Plain
    BY <2>1, PlainIsText
  <2>3. Concat(Append(s, x)) = Concat(s) \o x
    BY <2>2, Concats
  <2>4. Concat(s) \o x \in Plain
    BY <2>2 DEF Plain
  <2> QED
    BY <2>2, <2>3, <2>4
<1>3. pieces \in T
  <2> HIDE DEF T
  <2> QED
    BY <1>1, <1>2, SeqInduction
<1> QED
  BY <1>3

LEMMA NumeralsArePlain == Seq(Numerals) \subseteq Plain
<1>1. Numerals \subseteq PlainChar
  BY PlainChars
<1> QED
  BY <1>1 DEF Plain

LEMMA SpellsPlain == ASSUME NEW digits, NEW n, Spells(digits, n) PROVE digits \in Plain
<1>1. digits \in Seq(Numerals) /\ Numerals \subseteq PlainChar
  BY PlainChars DEF Spells
<1>2. digits \in Seq(PlainChar)
  BY <1>1
<1> QED
  BY <1>2 DEF Plain

LEMMA PaddedTwo == ASSUME NEW n \in 0 .. 99 PROVE PaddedTo(2, n) \in Plain
<1>1. Spells(PaddedTo(2, n), n)
  BY PaddedTwoSpells
<1> QED
  BY <1>1, SpellsPlain

LEMMA PaddedThree == ASSUME NEW n \in 0 .. 999 PROVE PaddedTo(3, n) \in Plain
<1>1. Spells(PaddedTo(3, n), n)
  BY PaddedThreeSpells, ZenonT(40)
<1> QED
  BY <1>1, SpellsPlain

LEMMA TimeIsPlain == ASSUME NEW ms \in Nat PROVE Timestamp(ms) \in Seq(Plain)
<1> DEFINE hours == ms \div 3600000
           minutes == (ms % 3600000) \div 60000
           seconds == (ms % 60000) \div 1000
           millis == ms % 1000
           first == IF hours < 100 THEN PaddedTo(2, hours) ELSE U32(hours)
           second == PaddedTo(2, minutes)
           third == PaddedTo(2, seconds)
           fourth == PaddedTo(3, millis)
<1>1. Timestamp(ms) = <<first, <<":">>, second, <<":">>, third, <<".">>, fourth>>
  BY DEF Timestamp
<1>2. hours \in Nat /\ minutes \in 0 .. 99 /\ seconds \in 0 .. 99 /\ millis \in 0 .. 999
  BY TimeFields, SMTT(60)
<1> HIDE DEF hours, minutes, seconds, millis
<1>3. first \in Plain
  <2>1. CASE hours < 100
    <3>1. hours \in 0 .. 99
      BY <1>2, <2>1
    <3> QED
      BY <2>1, <3>1, PaddedTwo
  <2>2. CASE ~(hours < 100)
    <3>1. Spells(U32(hours), hours)
      BY <1>2, U32Spells
    <3>2. U32(hours) \in Plain
      BY <3>1, SpellsPlain
    <3> QED
      BY <2>2, <3>2
  <2> QED
    BY <2>1, <2>2
<1>6. first \in Plain /\ second \in Plain /\ third \in Plain /\ fourth \in Plain
  BY <1>2, <1>3, PaddedTwo, PaddedThree
<1>7. <<":">> \in Plain /\ <<".">> \in Plain
  BY PlainChars, PlainIsText
<1> HIDE DEF first, second, third, fourth
<1> QED
  BY <1>1, <1>6, <1>7

\* The fields of a prefix: no colour among them.
FieldsOf(flags, level, ms, tag) ==
    LET time   == IF "SHOWTIMESTAMP" \in flags THEN Timestamp(ms) ELSE <<>>
        blank1 == IF time # <<>> THEN <<<<" ">>>> ELSE <<>>
        letter == IF "SHOWLEVEL" \in flags THEN blank1 \o <<<<Letter(level)>>>> ELSE <<>>
        blank2 == IF time # <<>> \/ letter # <<>> THEN <<<<" ">>>> ELSE <<>>
        topic  == IF "SHOWTOPIC" \in flags THEN blank2 \o <<<<"[">>, tag, <<"]">>>> ELSE <<>>
    IN  time \o letter \o topic

PlainPart(fields) == fields \o (IF fields # <<>> THEN <<<<":", " ">>>> ELSE <<>>)

LEMMA Pieces ==
    ASSUME NEW S
    PROVE  /\ <<>> \in Seq(S) /\ \A p \in S : <<p>> \in Seq(S) /\ Len(<<p>>) = 1
           /\ \A p \in S, q \in S, r \in S : <<p, q, r>> \in Seq(S)
           /\ \A p \in S, q \in S : <<p, q>> \in Seq(S)
           /\ \A a \in Seq(S), b \in Seq(S) : a \o b \in Seq(S)
  OBVIOUS

LEMMA FieldsArePlain ==
    ASSUME NEW flags, NEW level, NEW ms \in Nat, NEW tag \in Plain
    PROVE  /\ FieldsOf(flags, level, ms, tag) \in Seq(Plain)
           /\ PlainPart(FieldsOf(flags, level, ms, tag)) \in Seq(Plain)
<1> DEFINE time   == IF "SHOWTIMESTAMP" \in flags THEN Timestamp(ms) ELSE <<>>
           blank1 == IF time # <<>> THEN <<<<" ">>>> ELSE <<>>
           letter == IF "SHOWLEVEL" \in flags THEN blank1 \o <<<<Letter(level)>>>> ELSE <<>>
           blank2 == IF time # <<>> \/ letter # <<>> THEN <<<<" ">>>> ELSE <<>>
           topic  == IF "SHOWTOPIC" \in flags THEN blank2 \o <<<<"[">>, tag, <<"]">>>> ELSE <<>>
           fields == FieldsOf(flags, level, ms, tag)
<1>1. fields = time \o letter \o topic
  BY DEF FieldsOf
<1>2. /\ <<" ">> \in Plain /\ <<"[">> \in Plain /\ <<"]">> \in Plain /\ <<":", " ">> \in Plain
      /\ <<Letter(level)>> \in Plain
  <2>1. Letter(level) \in {"E", "W", "I", "D", "V", "?"}
    BY DEF Letter
  <2>2. Letter(level) \in PlainChar
    BY <2>1, PlainChars
  <2> QED
    BY <2>2, PlainChars, PlainIsText
<1>3. time \in Seq(Plain)
  BY TimeIsPlain, Pieces
<1> HIDE DEF time
<1>4. blank1 \in Seq(Plain)
  BY <1>2, Pieces
<1> HIDE DEF blank1
<1>5. letter \in Seq(Plain)
  BY <1>2, <1>4, Pieces
<1> HIDE DEF letter
<1>6. blank2 \in Seq(Plain)
  BY <1>2, Pieces
<1> HIDE DEF blank2
<1>7. topic \in Seq(Plain)
  BY <1>2, <1>6, Pieces
<1> HIDE DEF topic
<1>8. fields \in Seq(Plain)
  BY <1>1, <1>3, <1>5, <1>7
<1> HIDE DEF fields
<1>9. PlainPart(fields) \in Seq(Plain)
  BY <1>2, <1>8, Pieces DEF PlainPart
<1> QED
  BY <1>8, <1>9 DEF fields

PrefixParts(flags, level, ms, tag) ==
    Prefix(flags, level, ms, tag) =
       (IF {"PRETTY", "PRETTYLINE"} \cap flags # {} THEN <<<<"bold">>, <<Color(level)>>>> ELSE <<>>)
       \o PlainPart(FieldsOf(flags, level, ms, tag))
       \o (IF "PRETTYLINE" \in flags THEN <<<<"normal">>>>
           ELSE IF "PRETTY" \in flags THEN <<<<"reset">>>> ELSE <<>>)

LEMMA PrefixIs ==
    ASSUME NEW flags, NEW level, NEW ms \in Nat, NEW tag \in Plain
    PROVE  PrefixParts(flags, level, ms, tag)
<1> DEFINE start == IF {"PRETTY", "PRETTYLINE"} \cap flags # {} THEN <<<<"bold">>, <<Color(level)>>>> ELSE <<>>
           fields == FieldsOf(flags, level, ms, tag)
           colon == IF fields # <<>> THEN <<<<":", " ">>>> ELSE <<>>
           end == IF "PRETTYLINE" \in flags THEN <<<<"normal">>>>
                  ELSE IF "PRETTY" \in flags THEN <<<<"reset">>>> ELSE <<>>
<1>1. Prefix(flags, level, ms, tag) = start \o fields \o colon \o end
  BY Zenon DEF Prefix, FieldsOf
<1>2. PlainPart(fields) = fields \o colon
  BY Zenon DEF PlainPart
<1>3. fields \in Seq(Text) /\ colon \in Seq(Text)
  <2>1. fields \in Seq(Plain)
    BY FieldsArePlain
  <2>2. colon \in Seq(Plain)
    <3>1. <<":", " ">> \in Plain
      BY PlainChars, PlainIsText
    <3> QED
      BY <3>1, Pieces
  <2> QED
    BY <2>1, <2>2, PlainIsText
<1>4. start \in Seq(Text)
  <2>1. "bold" \in TextChar /\ Color(level) \in TextChar
    BY OwnChars DEF Color, OwnChar
  <2>2. <<"bold">> \in Text /\ <<Color(level)>> \in Text
    BY <2>1, TextFacts
  <2> QED
    BY <2>2, Pieces
<1>5. Assoc(start, fields, colon)
  BY <1>3, <1>4, ConcatAssoc, Zenon
<1> HIDE DEF start, fields, colon, end
<1>6. Prefix(flags, level, ms, tag) = start \o PlainPart(fields) \o end
  BY <1>1, <1>2, <1>5 DEF Assoc
<1> QED
  BY <1>6 DEF start, fields, end, PrefixParts

LEMMA LineIsText ==
    ASSUME NEW flags, NEW level, NEW ms \in Nat, NEW tag \in Plain, NEW message \in Seq(Plain)
    PROVE  TextLine(flags, level, ms, tag, message) \in Seq(Text)
<1> DEFINE start == IF {"PRETTY", "PRETTYLINE"} \cap flags # {} THEN <<<<"bold">>, <<Color(level)>>>> ELSE <<>>
           middle == PlainPart(FieldsOf(flags, level, ms, tag))
           end == IF "PRETTYLINE" \in flags THEN <<<<"normal">>>>
                  ELSE IF "PRETTY" \in flags THEN <<<<"reset">>>> ELSE <<>>
<1>1. start \in Seq(Text) /\ end \in Seq(Text)
  <2>1. "bold" \in TextChar /\ Color(level) \in TextChar /\ "normal" \in TextChar /\ "reset" \in TextChar
    BY OwnChars DEF Color, OwnChar
  <2>2. <<"bold">> \in Text /\ <<Color(level)>> \in Text /\ <<"normal">> \in Text /\ <<"reset">> \in Text
    BY <2>1, TextFacts
  <2> QED
    BY <2>2, Pieces
<1>2. middle \in Seq(Text)
  BY FieldsArePlain, PlainIsText
<1>3. Prefix(flags, level, ms, tag) = start \o middle \o end
  <2>1. PrefixParts(flags, level, ms, tag)
    BY PrefixIs
  <2> QED
    BY <2>1, Zenon DEF PrefixParts
<1> HIDE DEF start, middle, end
<1>4. Prefix(flags, level, ms, tag) \in Seq(Text)
  BY <1>1, <1>2, <1>3
<1>5. Suffix(flags) \in Seq(Text)
  <2>1. <<Newline>> \in Text /\ <<"reset">> \in Text
    BY PlainChars, PlainIsText
  <2> QED
    BY <2>1, Pieces DEF Suffix
<1> QED
  BY <1>4, <1>5, PlainIsText DEF TextLine

\* The text before the filter.
LEMMA LineColor ==
    ASSUME NEW flags, NEW level, NEW ms \in Nat, NEW tag \in Plain, NEW message \in Seq(Plain)
    PROVE  ColorIsOff(Concat(TextLine(flags, level, ms, tag, message)))
<1> DEFINE prefix == Prefix(flags, level, ms, tag)
           pretty == IF {"PRETTY", "PRETTYLINE"} \cap flags # {} THEN <<<<"bold">>, <<Color(level)>>>> ELSE <<>>
           middle == PlainPart(FieldsOf(flags, level, ms, tag))
           off == <<<<"reset">>>>
           line == TextLine(flags, level, ms, tag, message)
<1>1. line = (prefix \o message) \o Suffix(flags) /\ line \in Seq(Text)
  BY LineIsText DEF TextLine
<1>2. middle \in Seq(Plain)
  BY FieldsArePlain
<1>3. <<"reset">> \in Plain /\ <<Newline>> \in Plain /\ <<"reset">> \in Text /\ <<Newline>> \in Text
  BY PlainChars, PlainIsText
<1>4. pretty \in Seq(Text)
  <2>1. "bold" \in TextChar /\ Color(level) \in TextChar
    BY OwnChars DEF Color, OwnChar
  <2>2. <<"bold">> \in Text /\ <<Color(level)>> \in Text
    BY <2>1, TextFacts
  <2> QED
    BY <2>2, Pieces
<1>5. off \in Seq(Text) /\ <<<<Newline>>>> \in Seq(Plain) /\ Concat(off) = <<"reset">>
  BY <1>3, Pieces, ConcatOne
<1>6. ASSUME NEW front \in Seq(Text) PROVE ColorIsOff(Concat(front \o off))
  <2>1. Concat(front \o off) = Concat(front) \o <<"reset">>
    BY <1>5, ConcatTwo
  <2>2. Concat(front) \in Text
    BY Concats
  <2> QED
    BY <2>1, <2>2, ColorEnds
<1>7. ASSUME NEW front \in Seq(Text), NEW back \in Seq(Plain), ColorIsOff(Concat(front))
      PROVE  ColorIsOff(Concat(front \o back))
  <2>1. Concat(front \o back) = Concat(front) \o Concat(back)
    BY ConcatTwo, PlainIsText
  <2>2. Concat(front) \in Text /\ Concat(back) \in Plain
    BY Concats, ConcatPlain
  <2> QED
    BY <1>7, <2>1, <2>2, ColorEnds
<1>8. prefix = (pretty \o middle) \o (IF "PRETTYLINE" \in flags THEN <<<<"normal">>>>
                                      ELSE IF "PRETTY" \in flags THEN off ELSE <<>>)
  <2>1. PrefixParts(flags, level, ms, tag)
    BY PrefixIs
  <2> QED
    BY <2>1, Zenon DEF PrefixParts
<1>9. prefix \in Seq(Text)
  <2>1. "normal" \in PlainChar
    BY PlainChars
  <2>2. <<"normal">> \in Text
    BY <2>1, PlainIsText
  <2>3. middle \in Seq(Text)
    BY <1>2, PlainIsText
  <2> HIDE DEF pretty, middle, prefix, off
  <2> QED
    BY <1>4, <1>5, <1>8, <2>2, <2>3, Pieces
<1> HIDE DEF pretty, middle, line, prefix, off
<1>10. CASE "PRETTYLINE" \in flags
  <2>1. Suffix(flags) = <<<<Newline>>>> \o off
    BY <1>10 DEF Suffix, off
  <2> DEFINE front == (prefix \o message) \o <<<<Newline>>>>
  <2>2. message \in Seq(Text) /\ <<<<Newline>>>> \in Seq(Text)
    BY <1>5, PlainIsText
  <2>3. prefix \o message \in Seq(Text)
    BY <1>9, <2>2
  <2>4. Assoc(prefix \o message, <<<<Newline>>>>, off)
    BY <1>5, <2>2, <2>3, ConcatAssoc, Zenon
  <2>5. line = front \o off /\ front \in Seq(Text)
    BY <1>1, <2>1, <2>2, <2>3, <2>4, SMTT(40) DEF Assoc
  <2> HIDE DEF front
  <2>6. ColorIsOff(Concat(front \o off))
    BY <1>6, <2>5
  <2> QED
    BY <2>5, <2>6 DEF line
<1>11. CASE "PRETTYLINE" \notin flags
  <2>1. Suffix(flags) = <<<<Newline>>>>
    <3>1. Suffix(flags) = <<<<Newline>>>> \o <<>>
      BY <1>11 DEF Suffix
    <3> QED
      BY <3>1
  <2>2. ColorIsOff(Concat(prefix))
    <3>1. CASE "PRETTY" \in flags
      <4>1. prefix = (pretty \o middle) \o off /\ pretty \o middle \in Seq(Text)
        BY <1>2, <1>4, <1>8, <1>11, <3>1, PlainIsText, Pieces
      <4> QED
        BY <1>6, <4>1
    <3>2. CASE "PRETTY" \notin flags
      <4>1. pretty = <<>>
        BY <1>11, <3>2 DEF pretty
      <4>2. prefix = (<<>> \o middle) \o <<>>
        BY <1>8, <1>11, <3>2, <4>1
      <4>3. prefix = middle
        BY <1>2, <4>2
      <4>4. Concat(middle) \in Plain
        BY <1>2, ConcatPlain
      <4>5. ColorIsOff(Concat(middle))
        BY <4>4 DEF ColorIsOff, Plain, PlainChar
      <4> QED
        BY <4>3, <4>5
    <3> QED
      BY <3>1, <3>2
  <2>3. ColorIsOff(Concat(prefix \o message))
    BY <1>7, <1>9, <2>2
  <2>4. prefix \o message \in Seq(Text)
    BY <1>9, PlainIsText, Pieces
  <2>5. ColorIsOff(Concat((prefix \o message) \o <<<<Newline>>>>))
    BY <1>5, <1>7, <2>3, <2>4
  <2> QED
    BY <1>1, <2>1, <2>5 DEF line
<1> QED
  BY <1>10, <1>11

(***************************************************************************)
(* After any line the terminal is as it was before, whatever the flags,    *)
(* the level, the time and the pieces of a message without colours.        *)
(***************************************************************************)
THEOREM NoColorOutlastsTheLine ==
    ASSUME NEW flags, NEW level, NEW ms \in Nat, NEW tag \in Plain, NEW message \in Seq(Plain)
    PROVE  /\ Filtered(flags, TextLine(flags, level, ms, tag, message)) \in Text
           /\ ColorIsOff(Filtered(flags, TextLine(flags, level, ms, tag, message)))
<1> DEFINE line == TextLine(flags, level, ms, tag, message)
<1>1. line \in Seq(Text) /\ ColorIsOff(Concat(line))
  BY LineIsText, LineColor
<1> HIDE DEF line
<1>2. Concat(line) \in Text
  BY <1>1, Concats
<1>3. Filtered(flags, line) = IF "CR" \in flags THEN WithReturns(Concat(line)) ELSE Concat(line)
  BY <1>1, ReturnsAreRight
<1>4. WithReturns(Concat(line)) \in Text /\ ColorIsOff(WithReturns(Concat(line)))
  BY <1>1, <1>2, ReturnsKeepColor
<1> QED
  BY <1>1, <1>2, <1>3, <1>4 DEF line

-----------------------------------------------------------------------------
(***************************************************************************)
(* An interrupt handler's line.  The packet takes the line or overflows.   *)
(***************************************************************************)
LineState == [overflow : BOOLEAN, data : Text]

PutOp(cap) == [x \in LineState \X TextChar |-> PutBytes(x[1], <<x[2]>>, cap)]

LEMMA PutOneIs ==
    ASSUME NEW cap \in Int, NEW e \in LineState, NEW c \in TextChar
    PROVE  /\ PutBytes(e, <<c>>, cap) \in LineState
           /\ e.data \in Text /\ Len(e.data) \in Nat
           /\ 1 > cap - Len(e.data) => PutBytes(e, <<c>>, cap) = [e EXCEPT !.overflow = TRUE]
           /\ ~(1 > cap - Len(e.data)) => PutBytes(e, <<c>>, cap) = [e EXCEPT !.data = e.data \o <<c>>]
<1>1. e.data \in Text /\ Len(e.data) \in Nat /\ Len(<<c>>) = 1
  BY DEF LineState, Text
<1>2. e.data \o <<c>> \in Text
  BY <1>1, TextFacts
<1>3. [e EXCEPT !.overflow = TRUE] \in LineState /\ [e EXCEPT !.data = e.data \o <<c>>] \in LineState
  BY <1>2 DEF LineState
<1> QED
  BY <1>1, <1>3 DEF PutBytes

LEMMA PutOpIs ==
    ASSUME NEW cap \in Int
    PROVE  /\ Steps(PutOp(cap), LineState, TextChar)
           /\ \A e \in LineState, c \in TextChar : PutOp(cap)[<<e, c>>] = PutBytes(e, <<c>>, cap)
<1>1. \A x \in LineState \X TextChar : PutBytes(x[1], <<x[2]>>, cap) \in LineState
  BY PutOneIs
<1> QED
  BY <1>1 DEF PutOp, Steps

Nothing == [overflow |-> FALSE, data |-> <<>>]

\* What the packet holds after a text.
Taken(e, text, cap) ==
    /\ e \in LineState
    /\ e.overflow => Len(text) > cap
    /\ ~e.overflow => e.data = text /\ (Len(text) <= cap \/ text = <<>>)

LEMMA TakenMore ==
    ASSUME NEW cap \in Int, NEW e, NEW text \in Text, NEW c \in TextChar, Taken(e, text, cap)
    PROVE  Taken(PutBytes(e, <<c>>, cap), Append(text, c), cap)
<1> DEFINE put == PutBytes(e, <<c>>, cap)
<1>1. /\ e \in LineState /\ e.overflow \in BOOLEAN /\ Len(text) \in Nat
      /\ Len(Append(text, c)) = Len(text) + 1 /\ Append(text, c) = text \o <<c>>
  BY DEF Taken, LineState, Text
<1>2. /\ put \in LineState /\ Len(e.data) \in Nat
      /\ 1 > cap - Len(e.data) => put = [e EXCEPT !.overflow = TRUE]
      /\ ~(1 > cap - Len(e.data)) => put = [e EXCEPT !.data = e.data \o <<c>>]
  BY <1>1, PutOneIs
<1> HIDE DEF put
<1>3. CASE e.overflow
  <2>1. Len(text) > cap
    BY <1>3 DEF Taken
  <2>2. put.overflow
    <3>1. put.overflow = TRUE
      BY <1>1, <1>2, <1>3 DEF LineState
    <3> QED
      BY <3>1
  <2>3. Len(Append(text, c)) > cap
    BY <1>1, <2>1
  <2> QED
    BY <1>2, <2>2, <2>3 DEF Taken, put
<1>4. CASE ~e.overflow
  <2>1. e.data = text
    BY <1>4 DEF Taken
  <2>2. CASE 1 > cap - Len(text)
    <3>1. put.overflow = TRUE
      BY <1>1, <1>2, <2>1, <2>2 DEF LineState
    <3>2. Len(Append(text, c)) > cap
      BY <1>1, <2>2
    <3> QED
      BY <1>2, <3>1, <3>2 DEF Taken, put
  <2>3. CASE ~(1 > cap - Len(text))
    <3>1. put = [e EXCEPT !.data = text \o <<c>>]
      BY <1>2, <2>1, <2>3
    <3>2. put.data = Append(text, c) /\ put.overflow = e.overflow
      BY <1>1, <3>1 DEF LineState
    <3>3. Len(Append(text, c)) <= cap
      BY <1>1, <2>3
    <3> QED
      BY <1>2, <1>4, <3>2, <3>3 DEF Taken, put
  <2> QED
    BY <2>2, <2>3
<1> QED
  BY <1>3, <1>4

LEMMA TakenAll ==
    ASSUME NEW cap \in Int, NEW text \in Text
    PROVE  Taken(Reading(PutOp(cap), LineState, Nothing, text), text, cap)
<1> DEFINE op == PutOp(cap)
           T == {s \in Text : Taken(Reading(op, LineState, Nothing, s), s, cap)}
<1>1. ReadsOn(op, LineState, TextChar) /\ \A e \in LineState, c \in TextChar : op[<<e, c>>] = PutBytes(e, <<c>>, cap)
  BY PutOpIs, ReadsAll
<1>2. Nothing \in LineState /\ Nothing.overflow = FALSE /\ Nothing.data = <<>>
  BY TextFacts DEF Nothing, LineState
<1> HIDE DEF op
<1>3. <<>> \in T
  <2>1. Reading(op, LineState, Nothing, <<>>) = Nothing
    BY <1>1, <1>2 DEF ReadsOn
  <2> QED
    BY <1>2, <2>1, TextFacts DEF Taken
<1>4. \A s \in Seq(TextChar), x \in TextChar : s \in T => Append(s, x) \in T
  <2>1. SUFFICES ASSUME NEW s \in Text, NEW x \in TextChar, s \in T PROVE Append(s, x) \in T
    BY DEF Text
  <2> DEFINE e == Reading(op, LineState, Nothing, s)
  <2>2. Taken(e, s, cap) /\ e \in LineState /\ Append(s, x) \in Text
    BY <2>1 DEF Taken, Text
  <2>3. Reading(op, LineState, Nothing, Append(s, x)) = op[<<e, x>>]
    BY <1>1, <1>2 DEF ReadsOn, Text
  <2> HIDE DEF e
  <2>4. op[<<e, x>>] = PutBytes(e, <<x>>, cap)
    BY <1>1, <2>2
  <2>5. Taken(PutBytes(e, <<x>>, cap), Append(s, x), cap)
    BY <2>2, TakenMore
  <2> QED
    BY <2>2, <2>3, <2>4, <2>5
<1>5. text \in T
  <2> HIDE DEF T
  <2> QED
    BY <1>3, <1>4, SeqInduction DEF Text
<1> QED
  BY <1>5 DEF op

(***************************************************************************)
(* on9log_write_text_isr_with_flags: a handler's packet has the line of a  *)
(* task, or none when there is no room for all of it.                      *)
(***************************************************************************)
THEOREM HandlerTakesTheLine ==
    ASSUME NEW flags, NEW level, NEW ms \in Nat, NEW tag \in Plain, NEW text \in Plain, NEW cap \in Int
    PROVE  LET line == Filtered(flags, TextLine(flags, level, ms, tag, <<text>>))
           IN  TextLineIsr(flags, level, ms, tag, text, cap) = IF Len(line) <= cap THEN line ELSE <<>>
<1> DEFINE line == Filtered(flags, TextLine(flags, level, ms, tag, <<text>>))
           m == Len(line)
           op == PutOp(cap)
           e == Reading(op, LineState, Nothing, line)
<1>1. line \in Text
  <2>1. <<text>> \in Seq(Plain)
    BY Pieces
  <2> QED
    BY <2>1, NoColorOutlastsTheLine
<1> HIDE DEF line
<1>2. \A n \in 1 .. m : line[n] \in TextChar
  BY <1>1 DEF Text
<1>3. TextLineIsr(flags, level, ms, tag, text, cap) =
         LET enc == Run([at \in (1 .. m) \X LineState |-> PutBytes(at[2], <<line[at[1]]>>, cap)],
                        LineState, Nothing, m)
         IN  IF enc.overflow THEN <<>> ELSE enc.data
  BY DEF TextLineIsr, Read, LineState, Nothing, line
<1>4. ReadStep(op, LineState, line) = [at \in (1 .. m) \X LineState |-> After(op, at[2], line[at[1]])]
  BY DEF ReadStep
<1>5. \A s \in LineState, c \in TextChar : op[<<s, c>>] = PutBytes(s, <<c>>, cap)
  BY PutOpIs
<1> HIDE DEF m, op
<1>6. ASSUME NEW at \in (1 .. m) \X LineState
      PROVE  After(op, at[2], line[at[1]]) = PutBytes(at[2], <<line[at[1]]>>, cap)
  BY <1>2, <1>5 DEF After
<1>7. ReadStep(op, LineState, line) =
         [at \in (1 .. m) \X LineState |-> PutBytes(at[2], <<line[at[1]]>>, cap)]
  BY <1>4, <1>6
<1>8. TextLineIsr(flags, level, ms, tag, text, cap) = IF e.overflow THEN <<>> ELSE e.data
  BY <1>3, <1>7 DEF Reading, m
<1>9. Taken(e, line, cap)
  BY <1>1, TakenAll DEF op
<1> HIDE DEF e
<1>10. TextLineIsr(flags, level, ms, tag, text, cap) = IF Len(line) <= cap THEN line ELSE <<>>
  <2>1. Len(line) \in Nat
    BY <1>1 DEF Text
  <2>2. CASE e.overflow
    <3>1. ~(Len(line) <= cap)
      BY <1>9, <2>1, <2>2 DEF Taken
    <3> QED
      BY <1>8, <2>2, <3>1
  <2>3. CASE ~e.overflow
    <3>1. e.data = line /\ (Len(line) <= cap \/ line = <<>>)
      BY <1>9, <2>3 DEF Taken
    <3> QED
      BY <1>8, <2>3, <3>1
  <2> QED
    BY <2>2, <2>3
<1> QED
  BY <1>10 DEF line

-----------------------------------------------------------------------------
(***************************************************************************)
(* The library's own lines.                                                *)
(***************************************************************************)
LEMMA HexIsText == ASSUME NEW byte \in Byte PROVE Hex(byte) \in Text /\ <<" ">> \o Hex(byte) \in Text
<1>1. ASSUME NEW n \in 0 .. 15 PROVE Nibble(n) \in TextChar
  <2>1. Nibble(n) \in {"0", "1", "2", "3", "4", "5", "6", "7", "8", "9", "a", "b", "c", "d", "e", "f"}
    BY DEF Nibble
  <2> QED
    BY <2>1, OwnChars, ZenonT(40) DEF OwnChar
<1>2. byte \div 16 \in 0 .. 15 /\ byte % 16 \in 0 .. 15
  BY DEF Byte
<1>3. Hex(byte) \in Text
  BY <1>1, <1>2, TextFacts DEF Hex
<1>4. <<" ">> \in Text
  BY PlainChars, PlainIsText
<1> QED
  BY <1>3, <1>4, TextFacts

LEMMA SeqWider == ASSUME NEW S, NEW T PROVE \A s \in Seq(S) : s \in Seq(S \cup T)
  OBVIOUS

\* A part of a sequence, and two sequences joined.
IsPart(part, S, s, a, n) ==
    part \in Seq(S) /\ Len(part) = n /\ \A i \in 1 .. n : part[i] = s[a + i]

LEMMA PartOf ==
    ASSUME NEW S, NEW s \in Seq(S), NEW a \in Nat, NEW n \in Nat, a + n <= Len(s)
    PROVE  IsPart(SubSeq(s, a + 1, a + n), S, s, a, n)
  BY DEF IsPart

IsJoin(join, S, s, t) ==
    /\ join \in Seq(S) /\ Len(join) = Len(s) + Len(t) /\ Len(s) \in Nat /\ Len(t) \in Nat
    /\ \A i \in 1 .. Len(s) : join[i] = s[i]
    /\ \A i \in 1 .. Len(t) : join[Len(s) + i] = t[i]

LEMMA JoinAt ==
    ASSUME NEW S, NEW s \in Seq(S), NEW t \in Seq(S)
    PROVE  IsJoin(s \o t, S, s, t)
  BY DEF IsJoin

LEMMA Glue ==
    ASSUME NEW S, NEW a \in S, NEW b \in S, NEW c \in S, NEW d \in S, NEW e \in S, NEW f \in S, NEW g \in S
    PROVE  /\ <<a, b, c, d, e>> \in Seq(S) /\ Len(<<a, b, c, d, e>>) = 5
           /\ <<a, b, c, d, e, f, g>> \in Seq(S) /\ Len(<<a, b, c, d, e, f, g>>) = 7
           /\ <<f, g>> \in Seq(S)
           /\ <<a, b, c, d, e>> \o <<f, g>> = <<a, b, c, d, e, f, g>>
<1> DEFINE x == <<a, b, c, d, e>>
           y == <<f, g>>
           z == <<a, b, c, d, e, f, g>>
<1>1. x \in Seq(S) /\ Len(x) = 5
  OBVIOUS
<1>2. y \in Seq(S) /\ Len(y) = 2
  OBVIOUS
<1>3. z \in Seq(S) /\ Len(z) = 7
  OBVIOUS
<1>4. z[1] = x[1] /\ z[2] = x[2] /\ z[3] = x[3] /\ z[4] = x[4] /\ z[5] = x[5] /\ z[6] = y[1] /\ z[7] = y[2]
  OBVIOUS
<1> HIDE DEF x, y, z
<1>5. IsJoin(x \o y, S, x, y)
  BY <1>1, <1>2, JoinAt, Zenon
<1>6. /\ x \o y \in Seq(S) /\ Len(x \o y) = 7
      /\ \A i \in 1 .. 5 : (x \o y)[i] = x[i]
      /\ \A i \in 1 .. 2 : (x \o y)[5 + i] = y[i]
  BY <1>1, <1>2, <1>5 DEF IsJoin
<1>7. ASSUME NEW i \in 1 .. 7 PROVE (x \o y)[i] = z[i]
  <2>1. (x \o y)[6] = z[6] /\ (x \o y)[7] = z[7]
    <3>1. 5 + 1 = 6 /\ 5 + 2 = 7 /\ 1 \in 1 .. 2 /\ 2 \in 1 .. 2
      OBVIOUS
    <3> QED
      BY <1>4, <1>6, <3>1
  <2>2. CASE i \in 1 .. 5
    <3>1. i = 1 \/ i = 2 \/ i = 3 \/ i = 4 \/ i = 5
      BY <2>2
    <3> QED
      BY <1>4, <1>6, <2>2, <3>1
  <2>3. CASE i = 6 \/ i = 7
    BY <2>1, <2>3
  <2>4. i \in 1 .. 5 \/ i = 6 \/ i = 7
    OBVIOUS
  <2> QED
    BY <2>2, <2>3, <2>4, Zenon
<1>8. x \o y = z
  BY <1>3, <1>6, <1>7, SequenceEquality
<1> QED
  BY <1>1, <1>2, <1>3, <1>8 DEF x, y, z

\* What comes behind the first part.
Behind(s, t) == SubSeq(s \o t, Len(s) + 1, Len(s \o t)) = t

LEMMA BehindIs ==
    ASSUME NEW S, NEW s \in Seq(S), NEW t \in Seq(S)
    PROVE  Behind(s, t)
<1> DEFINE all == s \o t
           a == Len(s)
           n == Len(t)
           back == SubSeq(all, a + 1, a + n)
<1>1. /\ all \in Seq(S) /\ Len(all) = a + n /\ a \in Nat /\ n \in Nat
      /\ \A i \in 1 .. n : all[a + i] = t[i]
  BY JoinAt DEF IsJoin
<1> HIDE DEF all, a, n
<1>2. back \in Seq(S) /\ Len(back) = n /\ \A i \in 1 .. n : back[i] = all[a + i]
  <2>1. a + n <= Len(all)
    BY <1>1
  <2>2. IsPart(back, S, all, a, n)
    BY <1>1, <2>1, PartOf, Zenon
  <2> QED
    BY <2>2 DEF IsPart
<1> HIDE DEF back
<1>3. back = t
  BY <1>1, <1>2, SequenceEquality DEF n
<1>4. SubSeq(all, a + 1, Len(all)) = t
  BY <1>1, <1>3 DEF back
<1> QED
  BY <1>4 DEF Behind, all, a

HoldsTheId(boot, id) == SubSeq(boot, 8, Len(boot)) = [i \in 1 .. Len(id) |-> Hex(id[i])]

\* A BOOT line has every byte of the image ID, a DROPPED line the count.
LEMMA BootHoldsTheId ==
    ASSUME NEW bootId, NEW reason, NEW kind \in Nat, NEW id \in Seq(Byte)
    PROVE  HoldsTheId(BootText(bootId, reason, kind, id), id)
<1> DEFINE head == <<<<"boot id=">>, U32(bootId), <<"reset reason=">>, U32(reason), <<"image id=">>>>
           boot == BootText(bootId, reason, kind, id)
           hexes == [i \in 1 .. Len(id) |-> Hex(id[i])]
           m == Len(id)
<1>1. DOMAIN id = 1 .. m /\ m \in Nat /\ \A i \in 1 .. m : id[i] \in Byte
  OBVIOUS
<1>2. hexes \in [1 .. m -> Text]
  BY <1>1, HexIsText
<1>3. hexes \in Seq(Text) /\ Len(hexes) = m
  BY <1>1, <1>2, FunctionIsSeq
<1> DEFINE front == <<<<"boot id=">>, U32(bootId), <<"reset reason=">>, U32(reason), <<"image id=">>,
                      U32(kind), <<":">>>>
           S == Text \cup {U32(bootId), U32(reason), U32(kind), <<"boot id=">>, <<"reset reason=">>,
                           <<"image id=">>, <<":">>, <<"none">>}
           kindOf == <<U32(kind), <<":">>>>
<1>4. /\ head \in Seq(S) /\ Len(head) = 5 /\ kindOf \in Seq(S) /\ front \in Seq(S) /\ Len(front) = 7
      /\ front = head \o kindOf /\ <<<<"none">>>> \in Seq(S) /\ Len(<<<<"none">>>>) = 1
  <2> DEFINE a == <<"boot id=">>
             b == U32(bootId)
             c == <<"reset reason=">>
             d == U32(reason)
             e == <<"image id=">>
             f == U32(kind)
             g == <<":">>
  <2>1. a \in S /\ b \in S /\ c \in S /\ d \in S /\ e \in S /\ f \in S /\ g \in S /\ <<"none">> \in S
    OBVIOUS
  <2>2. head = <<a, b, c, d, e>> /\ kindOf = <<f, g>> /\ front = <<a, b, c, d, e, f, g>>
    OBVIOUS
  <2> HIDE DEF a, b, c, d, e, f, g, S, head, kindOf, front
  <2>3. /\ <<a, b, c, d, e>> \in Seq(S) /\ Len(<<a, b, c, d, e>>) = 5
        /\ <<a, b, c, d, e, f, g>> \in Seq(S) /\ Len(<<a, b, c, d, e, f, g>>) = 7
        /\ <<f, g>> \in Seq(S)
        /\ <<a, b, c, d, e>> \o <<f, g>> = <<a, b, c, d, e, f, g>>
    BY <2>1, Glue, SMTT(40)
  <2>8. <<<<"none">>>> \in Seq(S) /\ Len(<<<<"none">>>>) = 1
    BY <2>1, Pieces
  <2> QED
    BY <2>2, <2>3, <2>8
<1>5. hexes \in Seq(S)
  <2>1. \A s \in Seq(Text) : s \in Seq(Text \cup S)
    BY SeqWider
  <2>2. Text \cup S = S
    OBVIOUS
  <2> QED
    BY <1>3, <2>1, <2>2
<1>6. boot = head \o (IF id = <<>> THEN <<<<"none">>>> ELSE kindOf \o hexes)
  BY <1>1 DEF BootText
<1> HIDE DEF head, hexes, front, S, boot, kindOf, m
<1>7. CASE id = <<>>
  <2>1. m = 0 /\ boot = head \o <<<<"none">>>>
    BY <1>6, <1>7 DEF m
  <2>2. boot \in Seq(S) /\ Len(boot) = 6
    <3> DEFINE none == <<<<"none">>>>
    <3>0. none \in Seq(S) /\ Len(none) = 1 /\ boot = head \o none
      BY <1>4, <2>1
    <3> HIDE DEF none
    <3>1. IsJoin(head \o none, S, head, none)
      BY <1>4, <3>0, JoinAt, Zenon
    <3> QED
      BY <1>4, <3>0, <3>1 DEF IsJoin
  <2>3. SubSeq(boot, 8, Len(boot)) = <<>>
    BY <2>2
  <2>4. hexes = <<>>
    <3>1. Len(hexes) = 0 /\ hexes \in Seq(S)
      BY <1>3, <1>5, <2>1
    <3> QED
      BY <3>1
  <2> QED
    BY <2>3, <2>4 DEF boot, hexes, HoldsTheId
<1>8. CASE id # <<>>
  <2>1. boot = head \o (kindOf \o hexes)
    BY <1>6, <1>8
  <2>2. Assoc(head, kindOf, hexes)
    BY <1>4, <1>5, ConcatAssoc, Zenon
  <2>3. boot = front \o hexes
    BY <1>4, <2>1, <2>2 DEF Assoc
  <2>4. Len(boot) = 7 + m /\ boot \in Seq(S)
    <3>1. Len(front \o hexes) = Len(front) + Len(hexes) /\ front \o hexes \in Seq(S)
      BY <1>4, <1>5, ConcatLen
    <3> QED
      BY <1>3, <1>4, <2>3, <3>1
  <2>5. Behind(front, hexes)
    BY <1>4, <1>5, BehindIs, Zenon
  <2>6. SubSeq(boot, 8, Len(boot)) = hexes
    <3>1. Len(front) + 1 = 8
      BY <1>4
    <3> QED
      BY <2>3, <2>5, <3>1 DEF Behind
  <2> QED
    BY <2>6 DEF boot, hexes, HoldsTheId
<1> QED
  BY <1>7, <1>8

LEMMA DroppedHoldsTheCount == ASSUME NEW count \in Nat PROVE ValueOf(DroppedText(count)[1]) = count
<1>1. DroppedText(count)[1] = U32(count)
  BY DEF DroppedText
<1> QED
  BY <1>1, U32Spells DEF Spells

\* What a dump has to show.
Shown(bytes) == [i \in 1 .. Len(bytes) |-> <<" ">> \o Hex(bytes[i])]

LEMMA ShownType ==
    ASSUME NEW bytes \in Seq(Byte)
    PROVE  Shown(bytes) \in Seq(Text) /\ Len(Shown(bytes)) = Len(bytes) /\ Len(bytes) \in Nat
           /\ \A i \in 1 .. Len(bytes) : Shown(bytes)[i] = <<" ">> \o Hex(bytes[i])
<1>1. Len(bytes) \in Nat /\ \A i \in 1 .. Len(bytes) : bytes[i] \in Byte
  OBVIOUS
<1>2. Shown(bytes) \in [1 .. Len(bytes) -> Text]
  BY <1>1, HexIsText DEF Shown
<1>3. Shown(bytes) \in Seq(Text) /\ Len(Shown(bytes)) = Len(bytes)
  BY <1>1, <1>2, FunctionIsSeq
<1> QED
  BY <1>1, <1>3 DEF Shown

\* The bytes in group g, and those before it.
Before(group, g) == (g - 1) * group

GroupSize(len, group, g) == IF g * group <= len THEN group ELSE len % group

GroupCount(len, group) == (len + group - 1) \div group

LEMMA NextGroup == ASSUME NEW group \in Int, NEW g \in Int PROVE g * group = Before(group, g) + group /\ Before(group, g) \in Int
  BY DEF Before

LEMMA NoFurther ==
    ASSUME NEW group \in Nat, NEW g \in Int, NEW n \in Int, g <= n
    PROVE  g * group <= n * group
<1>1. n * group = g * group + (n - g) * group
  OBVIOUS
<1>2. (n - g) * group >= 0
  OBVIOUS
<1>3. g * group \in Int /\ (n - g) * group \in Int
  OBVIOUS
<1> QED
  BY <1>1, <1>2, <1>3

GroupFits(len, group, g) ==
    /\ Before(group, g) \in Nat /\ Before(group, g) < len
    /\ GroupSize(len, group, g) \in Nat
    /\ g * group <= len => GroupSize(len, group, g) = group /\ g * group = Before(group, g) + group
    /\ ~(g * group <= len) => Before(group, g) + GroupSize(len, group, g) = len

LEMMA GroupBounds ==
    ASSUME NEW len \in Nat, NEW group \in Nat \ {0}
    PROVE  /\ GroupCount(len, group) \in Nat /\ GroupCount(len, group) * group >= len
           /\ \A g \in 1 .. GroupCount(len, group) : GroupFits(len, group, g)
<1> DEFINE n == GroupCount(len, group)
           a == len + group - 1
           r == a % group
<1>1. a \in Int /\ a >= 0
  OBVIOUS
<1>2. r \in 0 .. group - 1 /\ n \in Int /\ a = group * n + r
  BY <1>1, DivMod DEF GroupCount
<1>3. group * n = n * group /\ n * group \in Int
  BY <1>2
<1> HIDE DEF n, r
<1>4. n * group >= len /\ n * group <= len + group - 1
  BY <1>2, <1>3
<1>5. n \in Nat
  <2>1. SUFFICES ASSUME n <= -1 PROVE FALSE
    BY <1>2
  <2>2. n * group <= (-1) * group
    BY <1>2, <2>1, NoFurther
  <2>3. (-1) * group = -group
    OBVIOUS
  <2> QED
    BY <1>2, <1>3, <1>4, <2>2, <2>3
<1>6. ASSUME NEW g \in 1 .. n
      PROVE  /\ Before(group, g) \in Nat /\ Before(group, g) < len
             /\ GroupSize(len, group, g) \in Nat
             /\ g * group <= len => GroupSize(len, group, g) = group /\ g * group = Before(group, g) + group
             /\ ~(g * group <= len) => Before(group, g) + GroupSize(len, group, g) = len
  <2> DEFINE before == Before(group, g)
             upto == g * group
  <2>1. upto = before + group /\ before \in Int
    BY NextGroup, <1>2
  <2>2. upto <= n * group
    BY <1>2, NoFurther
  <2>3. before >= 0
    <3>1. 0 * group <= (g - 1) * group
      BY <1>2, NoFurther
    <3> QED
      BY <3>1 DEF Before
  <2>4. before = group * (g - 1)
    BY DEF Before
  <2>5. GroupSize(len, group, g) = IF upto <= len THEN group ELSE len % group
    BY DEF GroupSize
  <2> HIDE DEF before, upto
  <2>6. before < len
    BY <1>3, <1>4, <2>1, <2>2
  <2>7. ASSUME ~(upto <= len) PROVE len % group = len - before
    <3>1. len - before \in 0 .. group - 1
      BY <2>1, <2>6, <2>7
    <3>2. len = group * (g - 1) + (len - before)
      BY <2>1, <2>4
    <3> DEFINE q == g - 1
               rest == len - before
    <3>3. q \in Int /\ rest \in 0 .. group - 1 /\ len = group * q + rest /\ len \in Int
      BY <3>1, <3>2
    <3> HIDE DEF q, rest
    <3>4. len % group = rest
      BY <3>3, ModUnique
    <3> QED
      BY <3>4 DEF rest
  <2>8. GroupSize(len, group, g) \in Nat
    <3>1. CASE upto <= len
      BY <2>5, <3>1
    <3>2. CASE ~(upto <= len)
      BY <2>1, <2>5, <2>6, <2>7, <3>2
    <3> QED
      BY <3>1, <3>2
  <2>9. upto <= len => GroupSize(len, group, g) = group /\ upto = before + group
    BY <2>1, <2>5
  <2>10. ~(upto <= len) => before + GroupSize(len, group, g) = len
    BY <2>1, <2>5, <2>7
  <2> QED
    BY <2>3, <2>1, <2>6, <2>8, <2>9, <2>10 DEF before, upto
<1> QED
  BY <1>2, <1>3, <1>4, <1>5, <1>6 DEF n, GroupFits

Groups(bytes, group) ==
    [g \in 1 .. GroupCount(Len(bytes), group) |->
       Concat([i \in 1 .. GroupSize(Len(bytes), group, g) |-> <<" ">> \o Hex(bytes[Before(group, g) + i])])]

LEMMA BufferTextIs ==
    ASSUME NEW bytes, NEW group
    PROVE  BufferText(bytes, group) =
              <<<<"buffer[">>, U32(Len(bytes)), <<"]:">>>> \o Groups(bytes, group)
  BY DEF BufferText, Groups, GroupCount, GroupSize, Before

\* A group is its part of what has to be shown.
LEMMA GroupIs ==
    ASSUME NEW bytes \in Seq(Byte), NEW group \in Nat \ {0},
           NEW g \in 1 .. GroupCount(Len(bytes), group)
    PROVE  /\ Before(group, g) + GroupSize(Len(bytes), group, g) <= Len(bytes)
           /\ Groups(bytes, group)[g] =
                 Concat(SubSeq(Shown(bytes), Before(group, g) + 1,
                               Before(group, g) + GroupSize(Len(bytes), group, g)))
           /\ Groups(bytes, group)[g] \in Text
<1> DEFINE m == Len(bytes)
           before == Before(group, g)
           size == GroupSize(m, group, g)
           shown == Shown(bytes)
           part == SubSeq(shown, before + 1, before + size)
           here == [i \in 1 .. size |-> <<" ">> \o Hex(bytes[before + i])]
<1>1. /\ shown \in Seq(Text) /\ Len(shown) = m /\ m \in Nat
      /\ \A i \in 1 .. m : shown[i] = <<" ">> \o Hex(bytes[i])
  BY ShownType
<1>2. before \in Nat /\ size \in Nat /\ before + size <= m
  <2>1. GroupFits(m, group, g)
    BY <1>1, GroupBounds
  <2>2. /\ before \in Nat /\ before < m /\ size \in Nat
        /\ g * group <= m => size = group /\ g * group = before + group
        /\ ~(g * group <= m) => before + size = m
    BY <2>1 DEF GroupFits
  <2>3. m \in Nat
    BY <1>1
  <2> DEFINE upto == g * group
  <2>4. /\ before \in Nat /\ before < m /\ size \in Nat
        /\ upto <= m => size = group /\ upto = before + group
        /\ ~(upto <= m) => before + size = m
    BY <2>2
  <2> HIDE DEF before, size, m, upto
  <2>5. before + size <= m
    BY <2>3, <2>4
  <2> QED
    BY <2>4, <2>5
<1>3. Groups(bytes, group)[g] = Concat(here)
  BY DEF Groups
<1> HIDE DEF m, before, size, shown
<1>4. part \in Seq(Text) /\ Len(part) = size /\ \A i \in 1 .. size : part[i] = shown[before + i]
  <2>1. before + size <= Len(shown)
    BY <1>1, <1>2
  <2>2. IsPart(part, Text, shown, before, size)
    BY <1>1, <1>2, <2>1, PartOf, Zenon
  <2> QED
    BY <2>2 DEF IsPart
<1> HIDE DEF part
<1>5. \A i \in 1 .. size : here[i] = part[i] /\ here[i] \in Text
  <2>1. ASSUME NEW i \in 1 .. size PROVE here[i] = part[i] /\ here[i] \in Text
    <3>1. before + i \in 1 .. m
      <4>1. m \in Nat
        BY <1>1
      <4> QED
        BY <1>2, <4>1
    <3>2. here[i] = shown[before + i]
      BY <1>1, <3>1
    <3>3. part[i] = shown[before + i] /\ part[i] \in Text
      BY <1>4
    <3> QED
      BY <3>2, <3>3
  <2> QED
    BY <2>1
<1>6. here \in [1 .. size -> Text]
  BY <1>5
<1>7. here \in Seq(Text) /\ Len(here) = size
  BY <1>2, <1>6, FunctionIsSeq
<1>8. here = part
  <2> HIDE DEF here
  <2> QED
    BY <1>4, <1>5, <1>7, SequenceEquality
<1>9. Concat(part) \in Text
  BY <1>4, Concats
<1> HIDE DEF here
<1> QED
  BY <1>2, <1>3, <1>8, <1>9 DEF m, before, size, shown, part

\* A prefix that grows by a part.
Extends(S, all, k, n) ==
    /\ SubSeq(all, 1, k + n) = SubSeq(all, 1, k) \o SubSeq(all, k + 1, k + n)
    /\ SubSeq(all, 1, k) \in Seq(S) /\ SubSeq(all, k + 1, k + n) \in Seq(S)

LEMMA PrefixGrows ==
    ASSUME NEW S, NEW all \in Seq(S), NEW k \in Nat, NEW n \in Nat, k + n <= Len(all)
    PROVE  Extends(S, all, k, n)
<1> DEFINE more == SubSeq(all, k + 1, k + n)
           s == SubSeq(all, 1, k + n)
           a == SubSeq(all, 1, k)
           t == a \o more
<1>1. a \in Seq(S) /\ Len(a) = k /\ \A i \in 1 .. k : a[i] = all[i]
  OBVIOUS
<1>2. more \in Seq(S) /\ Len(more) = n /\ \A i \in 1 .. n : more[i] = all[k + i]
  <2>1. IsPart(more, S, all, k, n)
    BY PartOf, Zenon
  <2> QED
    BY <2>1 DEF IsPart
<1>3. s \in Seq(S) /\ Len(s) = k + n /\ \A i \in 1 .. k + n : s[i] = all[i]
  OBVIOUS
<1> HIDE DEF a, s, more
<1>4. /\ t \in Seq(S) /\ Len(t) = k + n
      /\ \A i \in 1 .. k : t[i] = a[i]
      /\ \A i \in 1 .. n : t[k + i] = more[i]
  <2>1. IsJoin(t, S, a, more)
    BY <1>1, <1>2, JoinAt, Zenon
  <2> QED
    BY <1>1, <1>2, <2>1 DEF IsJoin
<1> HIDE DEF t
<1>5. ASSUME NEW i \in 1 .. k + n PROVE t[i] = all[i]
  <2>1. CASE i <= k
    BY <1>1, <1>4, <2>1
  <2>2. CASE i > k
    <3>1. i - k \in 1 .. n /\ k + (i - k) = i
      BY <2>2
    <3>2. t[k + (i - k)] = more[i - k] /\ more[i - k] = all[k + (i - k)]
      BY <1>2, <1>4, <3>1, Zenon
    <3> QED
      BY <3>1, <3>2
  <2> QED
    BY <2>1, <2>2
<1>6. s = t
  BY <1>3, <1>4, <1>5, SequenceEquality
<1> QED
  BY <1>1, <1>2, <1>6 DEF s, t, a, more, Extends

\* The first groups show the first bytes.
LEMMA DumpGrows ==
    ASSUME NEW bytes \in Seq(Byte), NEW group \in Nat \ {0}
    PROVE  Concat(Groups(bytes, group)) = Concat(Shown(bytes))
<1> DEFINE len == Len(bytes)
           n == GroupCount(len, group)
           shown == Shown(bytes)
           groups == Groups(bytes, group)
           Upto(k) == IF k * group <= len THEN k * group ELSE len
           T == {k \in Nat : k <= n => Concat(SubSeq(groups, 1, k)) = Concat(SubSeq(shown, 1, Upto(k)))}
<1>1. shown \in Seq(Text) /\ Len(shown) = len /\ len \in Nat
  BY ShownType
<1>2. n \in Nat /\ n * group >= len
  BY <1>1, GroupBounds
<1>3. groups \in Seq(Text) /\ Len(groups) = n
  <2>1. \A g \in 1 .. n : groups[g] \in Text
    BY GroupIs
  <2>2. groups \in [1 .. n -> Text]
    BY <2>1 DEF Groups
  <2> HIDE DEF groups, n
  <2> QED
    BY <1>2, <2>2, FunctionIsSeq
<1>4. 0 \in T
  <2>1. Upto(0) = 0
    BY <1>1
  <2>2. SubSeq(groups, 1, 0) = <<>> /\ SubSeq(shown, 1, 0) = <<>>
    BY <1>1, <1>3
  <2> QED
    BY <2>1, <2>2
<1>5. ASSUME NEW k \in Nat, k \in T PROVE k + 1 \in T
  <2>1. SUFFICES ASSUME k + 1 <= n
                 PROVE  Concat(SubSeq(groups, 1, k + 1)) = Concat(SubSeq(shown, 1, Upto(k + 1)))
    BY <1>5
  <2> DEFINE g == k + 1
             before == Before(group, g)
             size == GroupSize(len, group, g)
             one == SubSeq(shown, before + 1, before + size)
  <2>2. g \in 1 .. n /\ k <= n
    <3> HIDE DEF n
    <3> QED
      BY <1>2, <2>1
  <2>3. /\ before \in Nat /\ before < len /\ size \in Nat
        /\ (g * group <= len => size = group /\ g * group = before + group)
        /\ (~(g * group <= len) => before + size = len)
    <3>1. GroupFits(len, group, g)
      BY <1>1, <2>2, GroupBounds
    <3> QED
      BY <3>1 DEF GroupFits
  <2>4. before + size <= len /\ groups[g] = Concat(one) /\ groups[g] \in Text
    BY <2>2, GroupIs
  <2>5. Upto(k) = before
    <3>1. before = k * group
      BY DEF Before
    <3> QED
      BY <2>3, <3>1
  <2>6. Upto(g) = before + size
    BY <2>3
  <2>7. Concat(SubSeq(groups, 1, k)) = Concat(SubSeq(shown, 1, before))
    BY <1>5, <2>2, <2>5
  <2> HIDE DEF Upto, before, size, groups, shown, n, len
  <2>8. SubSeq(groups, 1, k + 1) = Append(SubSeq(groups, 1, k), groups[k + 1])
        /\ SubSeq(groups, 1, k) \in Seq(Text)
    <3> DEFINE s == SubSeq(groups, 1, k + 1)
               t == Append(SubSeq(groups, 1, k), groups[k + 1])
    <3>1. SubSeq(groups, 1, k) \in Seq(Text) /\ Len(SubSeq(groups, 1, k)) = k
          /\ \A i \in 1 .. k : SubSeq(groups, 1, k)[i] = groups[i]
      BY <1>2, <1>3, <2>2
    <3>2. s \in Seq(Text) /\ Len(s) = k + 1 /\ \A i \in 1 .. k + 1 : s[i] = groups[i]
      BY <1>2, <1>3, <2>2
    <3>3. t \in Seq(Text) /\ Len(t) = k + 1 /\ \A i \in 1 .. k + 1 : t[i] = groups[i]
      BY <2>4, <3>1
    <3> HIDE DEF s, t
    <3>4. s = t
      BY <3>2, <3>3, SequenceEquality
    <3> QED
      BY <3>1, <3>4 DEF s, t
  <2>9. SubSeq(shown, 1, before + size) = SubSeq(shown, 1, before) \o one
        /\ SubSeq(shown, 1, before) \in Seq(Text) /\ one \in Seq(Text)
    <3>1. before \in Nat /\ size \in Nat /\ before + size <= Len(shown) /\ shown \in Seq(Text)
      BY <1>1, <2>3, <2>4
    <3>2. Extends(Text, shown, before, size)
      BY <3>1, PrefixGrows, Zenon
    <3> QED
      BY <3>2 DEF Extends, one
  <2> HIDE DEF one
  <2>10. Concat(SubSeq(groups, 1, k + 1)) = Concat(SubSeq(groups, 1, k)) \o Concat(one)
    BY <2>4, <2>8, Concats
  <2>11. Concat(SubSeq(shown, 1, before + size)) = Concat(SubSeq(shown, 1, before)) \o Concat(one)
    BY <2>9, ConcatTwo
  <2> QED
    BY <2>6, <2>7, <2>10, <2>11
<1>6. n \in T
  <2> HIDE DEF T
  <2> QED
    BY <1>2, <1>4, <1>5, SetInduction
<1>7. Upto(n) = len
  <2> HIDE DEF n, len
  <2>1. n * group \in Int
    BY <1>2
  <2> QED
    BY <1>1, <1>2, <2>1
<1>8. SubSeq(groups, 1, n) = groups /\ SubSeq(shown, 1, len) = shown
  <2> HIDE DEF groups, shown, n, len
  <2> QED
    BY <1>1, <1>2, <1>3
<1>9. Concat(SubSeq(groups, 1, n)) = Concat(SubSeq(shown, 1, Upto(n)))
  <2>1. n <= n
    BY <1>2
  <2> QED
    BY <1>6, <2>1, Zenon
<1> QED
  BY <1>7, <1>8, <1>9, Zenon

(***************************************************************************)
(* The groups of a dump, one after the other, show every byte in order,    *)
(* for any bytes and any size of the group, the last one full or not.      *)
(***************************************************************************)
THEOREM DumpHoldsTheBytes ==
    ASSUME NEW bytes \in Seq(Byte), NEW group \in Nat \ {0}
    PROVE  LET dump == BufferText(bytes, group)
           IN  Concat(SubSeq(dump, 4, Len(dump))) = Concat(Shown(bytes))
<1> DEFINE head == <<<<"buffer[">>, U32(Len(bytes)), <<"]:">>>>
           groups == Groups(bytes, group)
           n == GroupCount(Len(bytes), group)
           S == Text \cup {<<"buffer[">>, U32(Len(bytes)), <<"]:">>}
           dump == BufferText(bytes, group)
<1>1. n \in Nat /\ Len(bytes) \in Nat
  <2>1. Len(bytes) \in Nat
    OBVIOUS
  <2> QED
    BY <2>1, GroupBounds
<1>2. dump = head \o groups
  BY BufferTextIs
<1>3. groups \in Seq(Text) /\ groups \in Seq(S) /\ Len(groups) = n
  <2>1. \A g \in 1 .. n : groups[g] \in Text
    BY GroupIs
  <2>2. groups \in [1 .. n -> Text]
    BY <2>1 DEF Groups
  <2> HIDE DEF groups, n
  <2>3. groups \in Seq(Text) /\ Len(groups) = n
    BY <1>1, <2>2, FunctionIsSeq
  <2> QED
    BY <2>3
<1>4. head \in Seq(S) /\ Len(head) = 3
  OBVIOUS
<1> HIDE DEF head, groups, n, S
<1>5. Behind(head, groups)
  BY <1>3, <1>4, BehindIs, Zenon
<1>9. SubSeq(dump, 4, Len(dump)) = groups
  <2>1. Len(head) + 1 = 4
    BY <1>4
  <2> QED
    BY <1>2, <1>5, <2>1 DEF Behind
<1> QED
  BY <1>9, DumpGrows DEF groups

-----------------------------------------------------------------------------
(***************************************************************************)
(* TextIsRight, part by part.                                              *)
(***************************************************************************)
LEMMA SomeTextIsText == SomeText \subseteq Text
<1>1. {Newline, Return, "a"} \subseteq TextChar
  BY OwnChars DEF OwnChar, Newline, Return
<1>2. ASSUME NEW n \in 0 .. 4 PROVE [1 .. n -> {Newline, Return, "a"}] \subseteq Text
  <2>1. ASSUME NEW f \in [1 .. n -> {Newline, Return, "a"}] PROVE f \in Text
    <3>1. f \in [1 .. n -> TextChar]
      BY <1>1
    <3> QED
      BY <3>1, FunctionIsSeq DEF Text
  <2> QED
    BY <2>1
<1> QED
  BY <1>2 DEF SomeText

\* A text in three pieces.
LEMMA PiecesOfText ==
    ASSUME NEW text \in Text, NEW i \in 0 .. Len(text), NEW j \in i .. Len(text)
    PROVE  LET pieces == <<SubSeq(text, 1, i), SubSeq(text, i + 1, j), SubSeq(text, j + 1, Len(text))>>
           IN  /\ Filtered({"CR"}, pieces) = WithReturns(text)
               /\ Filtered(TextFlag \ {"CR"}, pieces) = text
<1> DEFINE m == Len(text)
           a == SubSeq(text, 1, i)
           b == SubSeq(text, i + 1, j)
           c == SubSeq(text, j + 1, m)
           pieces == <<a, b, c>>
<1>1. text \in Seq(TextChar) /\ m \in Nat /\ i \in Nat /\ j \in Nat /\ i <= j /\ j <= m
  BY DEF Text
<1>2. SubSeq(text, 1, j) = a \o b /\ a \in Text /\ b \in Text
  <2>1. j - i \in Nat /\ i + (j - i) = j
    BY <1>1
  <2>2. Extends(TextChar, text, i, j - i)
    BY <1>1, <2>1, PrefixGrows
  <2> QED
    BY <2>1, <2>2 DEF Extends, Text
<1>3. SubSeq(text, 1, m) = SubSeq(text, 1, j) \o c /\ c \in Text
  <2>1. m - j \in Nat /\ j + (m - j) = m
    BY <1>1
  <2>2. Extends(TextChar, text, j, m - j)
    BY <1>1, <2>1, PrefixGrows
  <2> QED
    BY <2>1, <2>2 DEF Extends, Text
<1>4. SubSeq(text, 1, m) = text
  BY <1>1
<1> HIDE DEF a, b, c, m
<1>5. text = (a \o b) \o c
  BY <1>2, <1>3, <1>4
<1>6. Concat(<<a, b, c>>) = text /\ <<a, b, c>> \in Seq(Text)
  <2>1. <<a>> \in Seq(Text) /\ <<a, b>> \in Seq(Text) /\ <<a, b, c>> \in Seq(Text)
    BY <1>2, <1>3
  <2>2. <<a, b>> = Append(<<a>>, b) /\ <<a, b, c>> = Append(<<a, b>>, c)
    OBVIOUS
  <2>3. Concat(<<a>>) = a
    BY <1>2, ConcatOne
  <2>4. Concat(<<a, b>>) = a \o b
    BY <1>2, <2>1, <2>2, <2>3, Concats
  <2>5. Concat(<<a, b, c>>) = (a \o b) \o c
    BY <1>3, <2>1, <2>2, <2>4, Concats
  <2> QED
    BY <1>5, <2>1, <2>5
<1> HIDE DEF pieces
<1>7. pieces \in Seq(Text) /\ Concat(pieces) = text
  BY <1>6 DEF pieces
<1>8. "CR" \in {"CR"} /\ "CR" \notin TextFlag \ {"CR"}
  OBVIOUS
<1>9. Filtered({"CR"}, pieces) = WithReturns(text) /\ Filtered(TextFlag \ {"CR"}, pieces) = text
  <2>1. Filtered({"CR"}, pieces) = IF "CR" \in {"CR"} THEN WithReturns(Concat(pieces)) ELSE Concat(pieces)
    BY <1>7, ReturnsAreRight
  <2>2. Filtered(TextFlag \ {"CR"}, pieces) =
           IF "CR" \in TextFlag \ {"CR"} THEN WithReturns(Concat(pieces)) ELSE Concat(pieces)
    BY <1>7, ReturnsAreRight
  <2> QED
    BY <1>7, <1>8, <2>1, <2>2
<1> QED
  BY <1>9 DEF pieces, a, b, c, m

LEMMA PiecesAreRight ==
    \A text \in SomeText : \A i \in 0 .. Len(text) : \A j \in i .. Len(text) :
       LET pieces == <<SubSeq(text, 1, i), SubSeq(text, i + 1, j), SubSeq(text, j + 1, Len(text))>>
       IN  /\ Filtered({"CR"}, pieces) = WithReturns(text)
           /\ Filtered(TextFlag \ {"CR"}, pieces) = text
  BY SomeTextIsText, PiecesOfText, Zenon

LEMMA LineTimeIs == LineTime \in Nat
  BY SMT DEF LineTime

LEMMA LinesAreRight ==
    \A flags \in SUBSET TextFlag, level \in 1 .. 5, text \in {<<>>, <<"a", Newline>>} :
       LET line == Filtered(flags, TextLine(flags, level, LineTime, <<"d">>, <<text>>))
       IN  /\ ColorIsOff(line)
           /\ \A cap \in {0, Len(line) - 1, Len(line), Len(line) + 1} :
                 TextLineIsr(flags, level, LineTime, <<"d">>, text, cap) =
                    IF Len(line) <= cap THEN line ELSE <<>>
<1>1. {"a", "d", Newline} \subseteq PlainChar
  BY OwnChars DEF PlainChar, Colors, OwnChar, Newline
<1>2. <<"d">> \in Plain /\ <<>> \in Plain /\ <<"a", Newline>> \in Plain
  BY <1>1, PlainIsText
<1>3. SUFFICES ASSUME NEW flags \in SUBSET TextFlag, NEW level \in 1 .. 5,
                      NEW text \in {<<>>, <<"a", Newline>>}
      PROVE  LET line == Filtered(flags, TextLine(flags, level, LineTime, <<"d">>, <<text>>))
             IN  /\ ColorIsOff(line)
                 /\ \A cap \in {0, Len(line) - 1, Len(line), Len(line) + 1} :
                       TextLineIsr(flags, level, LineTime, <<"d">>, text, cap) =
                          IF Len(line) <= cap THEN line ELSE <<>>
  BY Zenon
<1> DEFINE tag == <<"d">>
           line == Filtered(flags, TextLine(flags, level, LineTime, tag, <<text>>))
<1>4. tag \in Plain /\ text \in Plain /\ <<text>> \in Seq(Plain) /\ LineTime \in Nat
  BY <1>2, Pieces, LineTimeIs
<1> HIDE DEF tag
<1>5. line \in Text /\ ColorIsOff(line)
  BY <1>4, NoColorOutlastsTheLine
<1>6. Len(line) \in Nat
  <2> HIDE DEF line
  <2> QED
    BY <1>5 DEF Text
<1>7. ASSUME NEW cap \in Int
      PROVE  TextLineIsr(flags, level, LineTime, tag, text, cap) = IF Len(line) <= cap THEN line ELSE <<>>
  BY <1>4, HandlerTakesTheLine, Zenon
<1> HIDE DEF line
<1>8. \A cap \in {0, Len(line) - 1, Len(line), Len(line) + 1} :
         TextLineIsr(flags, level, LineTime, tag, text, cap) = IF Len(line) <= cap THEN line ELSE <<>>
  <2>1. {0, Len(line) - 1, Len(line), Len(line) + 1} \subseteq Int
    BY <1>6
  <2> QED
    BY <1>7, <2>1
<1> QED
  BY <1>5, <1>8 DEF line, tag

LEMMA DumpsAreRight ==
    \A len \in 0 .. 7 :
       LET bytes == [i \in 1 .. len |-> 36 * i]
           dump  == BufferText(bytes, 3)
           boot  == BootText(7, 1, 2, bytes)
       IN  /\ Concat(SubSeq(dump, 4, Len(dump))) =
                 Concat([i \in 1 .. len |-> <<" ">> \o Hex(bytes[i])])
           /\ SubSeq(boot, 8, Len(boot)) = [i \in 1 .. len |-> Hex(bytes[i])]
<1>1. SUFFICES ASSUME NEW len \in 0 .. 7
      PROVE  LET bytes == [i \in 1 .. len |-> 36 * i]
                 dump  == BufferText(bytes, 3)
                 boot  == BootText(7, 1, 2, bytes)
             IN  /\ Concat(SubSeq(dump, 4, Len(dump))) =
                       Concat([i \in 1 .. len |-> <<" ">> \o Hex(bytes[i])])
                 /\ SubSeq(boot, 8, Len(boot)) = [i \in 1 .. len |-> Hex(bytes[i])]
  BY Zenon
<1> DEFINE bytes == [i \in 1 .. len |-> 36 * i]
           dump  == BufferText(bytes, 3)
           boot  == BootText(7, 1, 2, bytes)
<1>2. bytes \in [1 .. len -> Byte] /\ len \in Nat
  <2>1. \A i \in 1 .. len : 36 * i \in Byte
    BY DEF Byte
  <2> QED
    BY <2>1
<1>3. bytes \in Seq(Byte) /\ Len(bytes) = len
  <2> HIDE DEF bytes
  <2> QED
    BY <1>2, FunctionIsSeq
<1> HIDE DEF bytes
<1>4. Concat(SubSeq(dump, 4, Len(dump))) = Concat(Shown(bytes))
  <2>1. 3 \in Nat \ {0}
    OBVIOUS
  <2> QED
    BY <1>3, <2>1, DumpHoldsTheBytes, Zenon
<1>5. Shown(bytes) = [i \in 1 .. len |-> <<" ">> \o Hex(bytes[i])]
  BY <1>3 DEF Shown
<1>6. SubSeq(boot, 8, Len(boot)) = [i \in 1 .. Len(bytes) |-> Hex(bytes[i])]
  <2>1. 2 \in Nat
    OBVIOUS
  <2>2. HoldsTheId(BootText(7, 1, 2, bytes), bytes)
    BY <1>3, <2>1, BootHoldsTheId, Zenon
  <2>3. HoldsTheId(boot, bytes)
    BY <2>2
  <2> HIDE DEF boot
  <2> QED
    BY <2>3, Zenon DEF HoldsTheId
<1> HIDE DEF dump, boot
<1>7. /\ Concat(SubSeq(dump, 4, Len(dump))) = Concat([i \in 1 .. len |-> <<" ">> \o Hex(bytes[i])])
      /\ SubSeq(boot, 8, Len(boot)) = [i \in 1 .. len |-> Hex(bytes[i])]
  BY <1>3, <1>4, <1>5, <1>6
<1> QED
  BY <1>7 DEF dump, boot, bytes

(***************************************************************************)
(* TextIsRight: each line feed gets its carriage return, the time reads    *)
(* back, no colour outlasts its line, a handler's line is the task's or    *)
(* none, a dump and a BOOT line have every byte, DROPPED the count.        *)
(***************************************************************************)
THEOREM TextsAreRight == Spec => []TextIsRight
<1>1. \A ms \in SomeTime : TimeOf(Timestamp(ms)) = ms
  <2>1. SomeTime \subseteq Nat
    BY SMT DEF SomeTime
  <2> QED
    BY <2>1, TimeIsRight
<1>2. \A count \in SomeCount : ValueOf(DroppedText(count)[1]) = count
  <2>1. SomeCount \subseteq Nat
    BY SMT DEF SomeCount
  <2> QED
    BY <2>1, DroppedHoldsTheCount
<1>3. TextIsRight
  BY <1>1, <1>2, PiecesAreRight, LinesAreRight, DumpsAreRight, Zenon DEF TextIsRight
<1> QED
  BY <1>3, PTL

=============================================================================
