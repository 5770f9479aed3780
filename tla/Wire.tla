-------------------------------- MODULE Wire --------------------------------
(***************************************************************************)
(* A log call from its arguments to the other end of the line.  The call   *)
(* measures its payload, because the header carries the length, and then   *)
(* emits it; in between other tasks may change the strings it logs.  The   *)
(* sink makes one frame of the packet, and a write may lose a part of it.  *)
(*                                                                         *)
(* Locks and the order of packets are the business of On9logCore and       *)
(* Transport; here there is one caller and it is the bytes that matter.    *)
(* Of the header only the payload length is kept.                          *)
(***************************************************************************)
EXTENDS Framing, FormatScan, ArgTypes, ImageId

CONSTANTS
    Call,          \* log calls, see below
    MaxStr,        \* ON9LOG_MAX_DYNAMIC_STRING_LEN
    StrLen,        \* lengths a string in memory may have
    Content,       \* the bytes strings in memory begin with
    PayloadMax,    \* ON9LOG_PAYLOAD_LEN_MAX
    TransportMax,  \* ON9LOG_TRANSPORT_MAX_PAYLOAD
    MaxFrames,     \* bound: calls
    MaxFaults,     \* bound: writes that fail
    Null,          \* a null string
    NoteSize       \* sizes the header of an ELF note may claim

WireType == {"word", "dword", "pointer", "string", "view"}
String == {"string", "view"}

(***************************************************************************)
(* A call: the two pieces its format is written from, the types of its     *)
(* arguments and what each of them may be (an integer, or the length of a  *)
(* string in memory), whether it passes the format to be scanned, and the  *)
(* length of a tag that is not part of the image, or Null if it is.        *)
(***************************************************************************)
ASSUME WireAssumption ==
    /\ \A c \in Call :
          /\ {"format", "types", "passed", "scan", "inline"} = DOMAIN c
          /\ c.format \in Piece \X Piece
          /\ c.types \in Seq(WireType)
          /\ c.passed \in Seq(SUBSET (Int \cup {Null}))
          /\ Len(c.passed) = Len(c.types)
          /\ \A i \in DOMAIN c.types :
                c.passed[i] \subseteq IF c.types[i] \in String THEN StrLen \cup {Null} ELSE Int
          /\ c.inline \in {Null} \cup 0 .. Len(Content)
    /\ {MaxStr, PayloadMax, TransportMax, MaxFrames, MaxFaults} \subseteq Nat
    /\ PayloadMax < 65535
    /\ Content \in Seq(Byte)
    /\ StrLen \subseteq 0 .. Len(Content)
    /\ Null \notin Int
    /\ NoteSize \subseteq SizeT

VARIABLES
    port,    \* which transport this build has
    call,    \* the call in progress, or NoCall
    value,   \* its arguments: integers, or lengths of strings in memory
    lens,    \* lens->len of on9log_measure_payload
    length,  \* the payload length that goes into the header
    rx,      \* the decoder at the other end of the line
    sent     \* history: the packets that reached the sink, see Emit

vars == <<port, call, value, lens, length, rx, sent>>

NoCall == [types |-> <<>>]

Init ==
    /\ port \in {"esp", "unix"}
    /\ call = NoCall /\ value = <<>> /\ lens = <<>>
    /\ length = 0
    /\ rx = DecodeInit /\ sent = <<>>

Format(c) == Written(c.format[1]) \o Written(c.format[2])

-----------------------------------------------------------------------------
(***************************************************************************)
(* on9log_measure_payload.                                                 *)
(***************************************************************************)
Smaller(a, b) == IF a < b THEN a ELSE b

\* Mutant of CopyLen: the precision leaves room for a terminator.
CopyLenTerminated(len, precision) ==
    IF len = Null THEN Null
    ELSE IF precision >= 0 THEN Smaller(precision + 1, Smaller(len, MaxStr))
    ELSE Smaller(len, MaxStr)

\* on9log_cstr_len and on9log_view_len; a negative precision is none.
CopyLen(len, precision) ==
    IF len = Null THEN Null
    ELSE IF precision >= 0 THEN Smaller(precision, Smaller(len, MaxStr))
    ELSE Smaller(len, MaxStr)

\* The bound of argument i: the integer before it, if the mask says so.
Precision(c, v, i) ==
    IF /\ c.scan /\ c.types[i] = "string"
       /\ i > 1 /\ c.types[i - 1] = "word"
       /\ i - 1 \in MarkPrecision(Format(c), Len(c.types))
    THEN v[i - 1] ELSE -1

Lens(c, v) ==
    [i \in DOMAIN v |-> IF c.types[i] \in String THEN CopyLen(v[i], Precision(c, v, i)) ELSE 0]

Size(type, len) == CASE type \in {"word", "pointer"} -> 4
                     [] type = "dword" -> 8
                     [] type \in String -> 4 + IF len = Null THEN 0 ELSE len

\* on9log_wire_str: as much of the tag as may be copied.
InlineLen(c, max) == IF c.inline = Null THEN Null ELSE Smaller(c.inline, max)

\* on9log_wire_str_size
InlineSize(c) == IF c.inline = Null THEN 0 ELSE 4 + InlineLen(c, MaxStr)

Measured(c, l) ==
    Read(LAMBDA total, i : total + Size(c.types[i], l[i]),
         Nat, InlineSize(c) + 1 + Len(l), [i \in DOMAIN l |-> i])

Fits(c, l) == Len(c.types) <= MaskBits /\ Measured(c, l) <= PayloadMax

\* The call begins and measures; a call that does not fit is dropped.
Measure(c, v) ==
    /\ call = NoCall
    /\ Len(sent) < MaxFrames
    /\ Fits(c, Lens(c, v))
    /\ call' = c
    /\ value' = v
    /\ lens' = Lens(c, v)
    /\ length' = Measured(c, Lens(c, v))
    /\ UNCHANGED <<port, rx, sent>>

\* Another task changes a string that is being logged.
Change(i, n) ==
    /\ i \in DOMAIN value
    /\ call.types[i] = "string" /\ value[i] # Null
    /\ value' = [value EXCEPT ![i] = n]
    /\ UNCHANGED <<port, call, lens, length, rx, sent>>

-----------------------------------------------------------------------------
(***************************************************************************)
(* on9log_emit_payload_args and the frame.                                 *)
(***************************************************************************)
Le16(n) == <<n % 256, (n \div 256) % 256>>
Le32(n) == IF n = Null THEN <<255, 255, 255, 255>>
           ELSE <<n % 256, (n \div 256) % 256, (n \div 65536) % 256, (n \div 16777216) % 256>>

\* Numbers have at most 31 bits here; the upper word is their sign.
Le64(n) == Le32(n) \o Le32(IF n < 0 THEN -1 ELSE 0)

TypeCode(type) == CASE type = "word" -> 1 [] type = "dword" -> 2 [] type = "pointer" -> 3
                    [] type = "string" -> 4 [] type = "view" -> 5

StringBytes(len) == Le32(len) \o SubSeq(Content, 1, IF len = Null THEN 0 ELSE len)

ArgBytes(type, v, len) == CASE type \in {"word", "pointer"} -> Le32(v)
                            [] type = "dword" -> Le64(v)
                            [] type \in String -> StringBytes(len)

InlineBytes(c) == IF c.inline = Null THEN <<>> ELSE StringBytes(InlineLen(c, MaxStr))

\* Mutant of Payload: the strings are measured again.
PayloadAgain(c, v, l) ==
    LET again == Lens(c, v)
    IN  InlineBytes(c) \o <<Len(v)>> \o [i \in DOMAIN v |-> TypeCode(c.types[i])]
        \o Join([i \in DOMAIN v |-> ArgBytes(c.types[i], v[i], again[i])])

\* The payload callbacks' bytes, one after the other, with the recorded lengths.
Payload(c, v, l) ==
    InlineBytes(c) \o <<Len(v)>> \o [i \in DOMAIN v |-> TypeCode(c.types[i])]
    \o Join([i \in DOMAIN v |-> ArgBytes(c.types[i], v[i], l[i])])

-----------------------------------------------------------------------------
(***************************************************************************)
(* on9log_encode_isr_log_packet: an interrupt handler encodes the whole    *)
(* packet into a buffer of cap bytes in one pass and patches the length.   *)
(***************************************************************************)
Encoder == [overflow : BOOLEAN, data : Seq(Byte)]

\* Mutant of PutU8: the test comes one byte late.
PutU8Late(enc, byte, cap) ==
    IF Len(enc.data) > cap THEN [enc EXCEPT !.overflow = TRUE]
                           ELSE [enc EXCEPT !.data = Append(@, byte)]

PutU8(enc, byte, cap) ==
    IF Len(enc.data) >= cap THEN [enc EXCEPT !.overflow = TRUE]
                            ELSE [enc EXCEPT !.data = Append(@, byte)]

\* on9log_put_u16, on9log_put_u32, on9log_put_u64: byte by byte.
PutWord(enc, bytes, cap) == Read(LAMBDA e, byte : PutU8(e, byte, cap), Encoder, enc, bytes)

\* All or nothing.
PutBytes(enc, bytes, cap) ==
    IF Len(bytes) > cap - Len(enc.data) THEN [enc EXCEPT !.overflow = TRUE]
                                        ELSE [enc EXCEPT !.data = @ \o bytes]

PutWireStr(enc, len, cap) ==
    IF len = Null THEN enc
    ELSE PutBytes(PutWord(enc, Le32(len), cap), SubSeq(Content, 1, len), cap)

\* A string overflows the encoder, whatever its length.
PutArg(enc, type, v, cap) ==
    IF type \in String THEN [enc EXCEPT !.overflow = TRUE]
                       ELSE PutWord(enc, ArgBytes(type, v, 0), cap)

\* The packet, or none.
EncodeIsr(c, v, cap) ==
    LET header == PutWord([overflow |-> FALSE, data |-> <<>>], <<0, 0>>, cap)
        inline == PutWireStr(header, InlineLen(c, Smaller(cap, MaxStr)), cap)
        types  == PutWord(inline, <<Len(v)>> \o [i \in DOMAIN v |-> TypeCode(c.types[i])], cap)
        enc    == Read(LAMBDA e, i : PutArg(e, c.types[i], v[i], cap), Encoder, types,
                       [i \in DOMAIN v |-> i])
    IN  IF enc.overflow THEN <<>>
        ELSE Le16(Len(enc.data) - 2) \o SubSeq(enc.data, 3, Len(enc.data))

\* on9log_encode_time_sync: the packet in a buffer of cap bytes, or none.
EncodeTimeSync(boot, cap) ==
    LET enc == PutWord([overflow |-> FALSE, data |-> <<>>], Le16(4) \o Le32(boot), cap)
    IN  IF enc.overflow THEN <<>> ELSE enc.data

-----------------------------------------------------------------------------
Binary == 1

\* What is left of a sequence of writes when write i stops after k bytes.
Cut(writes, i, k) == [writes EXCEPT ![i] = SubSeq(@, 1, k)]

\* The write() calls of a frame: batches, or one stream whose rest is not written.
Writes(packet) == IF port = "esp" THEN EspFrame(Binary, packet)
                                  ELSE <<UnixFrame(Binary, packet)>>

Packet == Le16(length) \o Payload(call, value, lens)

Faults == Cardinality({i \in DOMAIN sent : ~sent[i].whole})

Emitted(bytes, whole) ==
    /\ rx' = Decode(rx, bytes)
    /\ sent' = Append(sent, [packet |-> Packet, whole |-> whole])
    /\ call' = NoCall /\ value' = <<>> /\ lens' = <<>> /\ length' = 0
    /\ UNCHANGED port

\* The sink takes the packet and writes its frame.
Emit ==
    /\ call # NoCall
    /\ Len(Packet) <= TransportMax
    /\ Emitted(Join(Writes(Packet)), TRUE)

\* A write fails somewhere; the ones after it go on.
EmitFails ==
    /\ call # NoCall
    /\ Len(Packet) <= TransportMax
    /\ Faults < MaxFaults
    /\ LET writes == Writes(Packet)
       IN  \E i \in DOMAIN writes : \E k \in 0 .. Len(writes[i]) - 1 :
              Emitted(Join(Cut(writes, i, k)), FALSE)

\* The packet is longer than a frame may be: the sink drops it.
EmitTooLong ==
    /\ call # NoCall
    /\ Len(Packet) > TransportMax
    /\ call' = NoCall /\ value' = <<>> /\ lens' = <<>> /\ length' = 0
    /\ UNCHANGED <<port, rx, sent>>

\* All calls are made.
Finished ==
    /\ call = NoCall /\ Len(sent) = MaxFrames
    /\ UNCHANGED vars

Arguments(c) == {v \in [DOMAIN c.passed -> UNION {c.passed[i] : i \in DOMAIN c.passed}] :
                    \A i \in DOMAIN v : v[i] \in c.passed[i]}

Next ==
    \/ \E c \in Call : \E v \in Arguments(c) : Measure(c, v)
    \/ \E i \in DOMAIN value : \E n \in StrLen : Change(i, n)
    \/ Emit \/ EmitFails \/ EmitTooLong \/ Finished

Spec == Init /\ [][Next]_vars

-----------------------------------------------------------------------------
(***************************************************************************)
(* The header tells the receiver how long the payload is, and is right     *)
(* although strings change between the pass that measures and the pass     *)
(* that emits, and although a null string has no bytes.                    *)
(***************************************************************************)
LengthIsRight ==
    \A i \in DOMAIN sent :
       LET packet == sent[i].packet
       IN  packet[1] + 256 * packet[2] = Len(packet) - 2 /\ Len(packet) - 2 <= PayloadMax

(***************************************************************************)
(* With the format scanned, the string of a %.*s is copied up to its       *)
(* precision and no further.  Which arguments these are is taken from the  *)
(* pieces the format was written from, not from the scanner.               *)
(***************************************************************************)
CopyIsBounded ==
    call # NoCall /\ call.scan /\ HasPlainConversion(Format(call)) =>
       \A i \in 2 .. Len(value) :
          /\ i - 1 \in Meant(call.format[1], call.format[2])
          /\ call.types[i] = "string" /\ call.types[i - 1] = "word"
          /\ value[i - 1] >= 0 /\ lens[i] # Null
          => lens[i] <= value[i - 1]

(***************************************************************************)
(* A lost part of a frame costs that frame and at most the next one: the   *)
(* receiver gets every whole frame that does not follow a damaged one, in  *)
(* order, and never a frame nobody sent.                                   *)
(***************************************************************************)
Bodies(S) ==
    [n \in 1 .. Cardinality(S) |->
       <<Binary>> \o sent[CHOOSE i \in S : Cardinality({j \in S : j <= i}) = n].packet]

LossIsLocal ==
    LET whole == {i \in DOMAIN sent : sent[i].whole}
        after == {i \in whole : i > 1 /\ ~sent[i - 1].whole}
    IN  \E lost \in SUBSET after : rx.frames = Bodies(whole \ lost)

(***************************************************************************)
(* The rest are facts about the operators; they are stated of the          *)
(* initial states, so that they are evaluated once and not in every state. *)
(***************************************************************************)
Startup == call = NoCall /\ sent = <<>>

\* The two transports compute the same CRC, the one with its table, the other by division.
CrcAgrees ==
    Startup => \A high \in 0 .. 255, low \in {0, 165}, byte \in {0, 90} :
       CrcEsp(high * 256 + low, byte) = CrcUnix(high * 256 + low, byte)

(***************************************************************************)
(* The C scanner never takes an argument for a bounded string that is not  *)
(* one, and finds them all, with any flags, widths and lengths, when one   *)
(* conversion of the format is written plainly, as %.*s; it does not look  *)
(* at a format whose bounded strings are all written otherwise (%5.*s).    *)
(* The C++ scanner tells printf formats from {} formats.                   *)
(***************************************************************************)
ScanIsRight ==
    Startup => \A one \in Piece, two \in Piece :
       LET format == Written(one) \o Written(two)
           marked == MarkPrecision(format, MaskBits)
       IN  /\ marked \subseteq Meant(one, two)
           /\ WrittenPlainly(one) \/ WrittenPlainly(two) => marked = Meant(one, two)
           /\ UsesPrintfFormat(format) = /\ {one, two} \cap Replacement = {}
                                         /\ {one, two} \cap (Percent \cup Convert) # {}

(***************************************************************************)
(* Every argument is read as it was passed: from the same register file,   *)
(* as many slots, a number with all of its bits.  The C macro is allowed   *)
(* the two exceptions the README of the repository documents for 64-bit    *)
(* hosts, long and floating point, and no third one; the C++ wrapper none. *)
(***************************************************************************)
ReadAsPassed ==
    Startup => \A abi \in {Ilp32, Lp64} :
       /\ \A type \in Scalars \cup Addresses :
             LET read == VaArg(DetectType(type), abi)
             IN  \/ abi = Lp64 /\ type.kind \in {"long", "float"}
                 \/ /\ InStep(Promoted(type, abi), read, abi)
                    /\ Whole(type, Promoted(type, abi), read)
       /\ \A type \in Scalars \cup Addresses : On9LogArgType(type) = DetectType(type)
       /\ \A type \in Scalars \cup Addresses \cup Classes \cup {Nullptr} :
             LET read == VaArg(ArgTypeCode(type, abi), abi)
             IN  /\ InStep(WireArg(type, abi), read, abi)
                 /\ Whole(type, WireArg(type, abi), read)

(***************************************************************************)
(* An interrupt handler sends the same bytes as a task, or, if the packet  *)
(* holds a string or does not fit, nothing: no size of the buffer lets a   *)
(* part of a packet through.  Nor of a TIME_SYNC packet.                   *)
(***************************************************************************)
HandlerCall ==
    [types : UNION {[1 .. n -> {"word", "dword", "pointer", "string"}] : n \in 0 .. 2},
     inline : {Null} \cup 0 .. Len(Content), scan : {FALSE}]

HandlerSendsTheSame ==
    Startup => \A cap \in 0 .. PayloadMax :
     /\ EncodeTimeSync(7, cap) = IF cap >= 6 THEN Le16(4) \o Le32(7) ELSE <<>>
     /\ \A c \in HandlerCall :
       LET v      == [i \in DOMAIN c.types |-> 1]
           l      == Lens(c, v)
           packet == Le16(Measured(c, l)) \o Payload(c, v, l)
       IN  EncodeIsr(c, v, cap) =
             IF Len(packet) <= cap /\ (\A i \in DOMAIN v : c.types[i] # "string")
             THEN packet ELSE <<>>

-----------------------------------------------------------------------------
(***************************************************************************)
(* Whatever the sizes in the notes say, on9log_find_gnu_build_id reads     *)
(* nothing outside the region it was given, and each round begins at a     *)
(* later note: no size near the width of size_t wraps past its tests.      *)
(***************************************************************************)
ScanStaysInside ==
    Startup => \A namesz, descsz \in NoteSize, type \in {1, BuildIdNote}, gnu \in BOOLEAN :
       \A left \in NoteSize \cap RegionLen, align \in {4, 8} :
          left >= HeaderLen =>
             StaysInside([namesz |-> namesz, descsz |-> descsz, type |-> type, gnu |-> gnu],
                         left, align, IdMax)

SomeNote ==
    [namesz : {4}, descsz : {0, 5, IdMax, IdMax + 1}, type : {BuildIdNote}, gnu : {TRUE}]
    \cup [namesz : {4, 5}, descsz : {0, 1}, type : {1, BuildIdNote}, gnu : {FALSE}]

SomeLayout ==
    [notes : {<<n>> : n \in SomeNote} \cup (SomeNote \X SomeNote),
     pad : {<<4, 1>>, <<4, 4>>, <<8, 8>>}, cut : {0, 3, 5}]

InMemory(l) == Segment(l.notes, l.pad[1], l.pad[2], l.cut)

Named(kind, place, id) == IF id.len = 0 THEN Answer("NONE", <<0, NoId>>)
                                        ELSE Answer(kind, <<place, id>>)

\* Images of two parts, where they were linked, or loaded out of the reach of an ID, or slid.
Part(first, past, writable) == [first |-> first, past |-> past, writable |-> writable]

SomeImage ==
    LET parts == {<<Part(3, 6, w), Part(9, 12, ~w)>> : w \in BOOLEAN}
                 \cup {[i \in 1 .. MaxRanges + 1 |-> Part(2 * i, 2 * i + 1, FALSE)]}
        slid  == <<Part(IdMod + 2, 2 * IdMod - 1, FALSE)>>
    IN  [port : {"elf"}, by : {0, IdMod, 3 * IdMod + 1}, parts : parts]
        \cup [port : {"esp"}, by : {0}, parts : parts]
        \cup [port : {"macho"}, by : {0, 5, IdMod + 5}, parts : {slid}]

(***************************************************************************)
(* The BOOT packet names the image by the ID that is in it: the first      *)
(* build-id of the first segment that has a usable one, wherever it stands *)
(* among other notes, however they are padded, and however the region is   *)
(* cut short; the first UUID; a hash that was filled in.  An image without *)
(* one is said to have none, with length 0.  A string sent by its address  *)
(* is the one string of the image its ID resolves to, for an image loaded  *)
(* where it was linked, or out of the reach of an ID, or (Mach-O) slid: a  *)
(* 32-bit program loaded elsewhere below 4 GiB is not among them.          *)
(***************************************************************************)
ImageIsIdentified ==
    Startup =>
       /\ \A l \in SomeLayout, n \in SomeNote :
             LET one   == InMemory(l)
                 two   == Segment(<<n>>, 4, 4, 0)
                 first == MeantId(l.notes, l.pad[1], one.len)
             IN  BootImageId([port |-> "elf", segments |-> <<one, two>>]) =
                    IF first.len # 0 THEN Named("GNU_BUILD_ID", 1, first)
                    ELSE Named("GNU_BUILD_ID", 2, MeantId(<<n>>, 4, two.len))
       /\ \A commands \in [1 .. 3 -> {"LC_UUID", "LC_OTHER"}] :
             BootImageId([port |-> "macho", commands |-> commands]).kind =
                IF \A i \in 1 .. 3 : commands[i] = "LC_OTHER" THEN "NONE" ELSE "MACHO_UUID"
       /\ \A hashed \in BOOLEAN :
             BootImageId([port |-> "esp", hashed |-> hashed]).kind =
                IF hashed THEN "ELF_SHA256" ELSE "NONE"
       /\ BootImageId([port |-> "weak"]) = Answer("NONE", <<0, NoId>>)
       /\ \A image \in SomeImage, addr \in 0 .. 5 * IdMod :
             AddrInImage(image, addr) => Resolved(image, addr % IdMod) = {addr - image.by}

=============================================================================
