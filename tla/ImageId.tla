------------------------------ MODULE ImageId -------------------------------
(***************************************************************************)
(* Which firmware image a BOOT packet names.  Each port looks for an ID in *)
(* its own place: the GNU build-id among the ELF notes (Linux, and bare    *)
(* metal through on9log_find_gnu_build_id), the UUID among the Mach-O load *)
(* commands (macOS), the hash in the app descriptor (ESP-IDF), or nowhere  *)
(* (the weak default).                                                     *)
(*                                                                         *)
(* Of a note only its sizes matter, what type it has and whether its name  *)
(* reads "GNU"; of an ID, where it was found and how long it is.  The      *)
(* sizes come out of memory and may be anything.                           *)
(***************************************************************************)
EXTENDS Integers, Sequences, FiniteSets

CONSTANTS
    Word,      \* size_t holds 0 .. Word-1
    IdMax,     \* ON9LOG_IMAGE_ID_MAX_LEN
    UuidLen,   \* bytes of a Mach-O UUID
    ShaLen,    \* bytes of app_elf_sha256
    IdMod,     \* the ID of a string on the wire is its address modulo IdMod
    MaxRanges  \* ON9LOG_UNIX_MAX_IMAGE_RANGES

HeaderLen == 12

\* Notes in memory leave room for the code's own additions to their length, and two of them
\* with the longest ID fit into memory.  The addresses of an image that is not ELF are IDs.
ASSUME ImageIdAssumption ==
    /\ IdMax \in Nat \ {0}
    /\ Word \in Nat /\ Word > 2 * IdMax + 100
    /\ UuidLen \in 1 .. IdMax
    /\ ShaLen \in 1 .. IdMax
    /\ MaxRanges \in Nat \ {0}
    /\ IdMod \in Nat /\ IdMod >= 12 /\ IdMod > 2 * MaxRanges + 2

SizeT == 0 .. Word - 1

\* A region of notes, or what is left of it, is shorter than the address space.
RegionLen == 0 .. Word - 2 * HeaderLen

Note == [namesz : SizeT, descsz : SizeT, type : Nat, gnu : BOOLEAN]

-----------------------------------------------------------------------------
(***************************************************************************)
(* on9log_find_gnu_build_id: one round of its loop, with left bytes from   *)
(* the note's first one to the end of the region.                          *)
(***************************************************************************)
BuildIdNote == 3

\* Mutant of Alignment: every segment is taken to be 4-aligned.
AlignmentFour(align) == 4

Alignment(align) == IF align = 8 THEN 8 ELSE 4

\* (n + align - 1) & ~(align - 1), in size_t
RoundUp(n, align) ==
    LET sum == (n + align - 1) % Word
    IN  sum - (sum % align)

DescOff(note, align) == RoundUp(HeaderLen + note.namesz, align)

NextOff(note, align) == RoundUp(DescOff(note, align) + note.descsz, align)

\* Mutant of Malformed: the test the subtraction avoids, which can wrap.
MalformedBySum(note, left, align) ==
    \/ (HeaderLen + note.namesz) % Word > left
    \/ (DescOff(note, align) + note.descsz) % Word > left

\* The name or the descriptor does not end inside the region.
Malformed(note, left, align) ==
    \/ note.namesz > left - HeaderLen
    \/ DescOff(note, align) > left
    \/ note.descsz > left - DescOff(note, align)

IsBuildId(note) == note.type = BuildIdNote /\ note.namesz = 4 /\ note.gnu

Copied(note, cap) == note.descsz # 0 /\ note.descsz <= cap

IsLast(note, left, align) == NextOff(note, align) >= left

(***************************************************************************)
(* The bytes a round reads, as <<first, past the end>> from the note's     *)
(* start: the header, the name when its length is right, and the           *)
(* descriptor when it is copied.                                           *)
(***************************************************************************)
Reads(note, left, align, cap) ==
    {<<0, HeaderLen>>}
    \cup (IF ~Malformed(note, left, align) /\ note.type = BuildIdNote /\ note.namesz = 4
          THEN {<<HeaderLen, HeaderLen + 4>>} ELSE {})
    \cup (IF ~Malformed(note, left, align) /\ IsBuildId(note) /\ Copied(note, cap)
          THEN {<<DescOff(note, align), DescOff(note, align) + note.descsz>>} ELSE {})

\* The loop goes on to the note that follows.
GoesOn(note, left, align) ==
    /\ ~Malformed(note, left, align)
    /\ ~IsBuildId(note)
    /\ ~IsLast(note, left, align)

Found(at, len) == [at |-> at, len |-> len]
NoId == Found(0, 0)

\* The whole loop; mem gives the note that begins at an offset of the region.
FindGnuBuildId(mem, len, align, cap) ==
    LET Scan[left \in 0 .. len] ==
          LET note == mem[len - left]
          IN  IF left < HeaderLen \/ Malformed(note, left, align) THEN NoId
              ELSE IF IsBuildId(note)
                   THEN IF Copied(note, cap)
                        THEN Found(len - left + DescOff(note, align), note.descsz) ELSE NoId
              ELSE IF IsLast(note, left, align) THEN NoId
              ELSE Scan[left - NextOff(note, align)]
    IN  Scan[len]

-----------------------------------------------------------------------------
(***************************************************************************)
(* on9log_port_image_id of each port, and what on9log_image_id makes of    *)
(* its answer.                                                             *)
(***************************************************************************)
Answer(kind, id) == [kind |-> kind, id |-> id]

\* The first of the PT_NOTE segments that has one; it is named with its segment.
FromElf(segments, cap) ==
    LET Seg[i \in 1 .. Len(segments) + 1] ==
          IF i > Len(segments) THEN <<0, NoId>>
          ELSE LET s  == segments[i]
                   id == FindGnuBuildId(s.mem, s.len, Alignment(s.align), cap)
               IN  IF id.len # 0 THEN <<i, id>> ELSE Seg[i + 1]
    IN  Seg[1]

\* The first LC_UUID of the load commands, if it fits.
FromMachO(commands, cap) ==
    IF (\E i \in DOMAIN commands : commands[i] = "LC_UUID") /\ cap >= UuidLen
    THEN <<CHOOSE i \in DOMAIN commands :
              commands[i] = "LC_UUID" /\ \A j \in 1 .. i - 1 : commands[j] # "LC_UUID",
           Found(0, UuidLen)>>
    ELSE <<0, NoId>>

\* An app descriptor nobody patched has all zeros in it.
FromApp(hashed, cap) == IF hashed /\ cap >= ShaLen THEN <<1, Found(0, ShaLen)>> ELSE <<0, NoId>>

PortImageId(image, cap) ==
    LET answer == CASE image.port = "elf"   -> FromElf(image.segments, cap)
                    [] image.port = "macho" -> FromMachO(image.commands, cap)
                    [] image.port = "esp"   -> FromApp(image.hashed, cap)
                    [] image.port = "weak"  -> <<0, NoId>>
        kind   == CASE image.port = "elf"   -> "GNU_BUILD_ID"
                    [] image.port = "macho" -> "MACHO_UUID"
                    [] image.port = "esp"   -> "ELF_SHA256"
                    [] image.port = "weak"  -> "NONE"
    IN  Answer(IF answer[2].len # 0 THEN kind ELSE "NONE", answer)

\* on9log_image_id: what goes into the BOOT packet.
BootImageId(image) ==
    LET answer == PortImageId(image, IdMax)
    IN  IF answer.id[2].len \in 1 .. IdMax /\ answer.kind # "NONE" THEN answer
        ELSE Answer("NONE", <<0, NoId>>)

-----------------------------------------------------------------------------
(***************************************************************************)
(* on9log_port_addr_in_image: is a string sent by its address, or with its *)
(* characters?  An image has parts, [first, past, writable] at link time,  *)
(* and lies in memory by bytes further.                                    *)
(***************************************************************************)
Within(part, addr) == part.first <= addr /\ addr < part.past

\* The ranges the port knows: of a program on Linux, read-only ones and not too many.
Ranges(image) ==
    LET all      == DOMAIN image.parts
        readOnly == {i \in all : ~image.parts[i].writable}
        known    == {i \in readOnly : Cardinality({j \in readOnly : j < i}) < MaxRanges}
    IN  {image.parts[i] : i \in IF image.port = "elf" THEN known ELSE all}

AddrInImage(image, addr) ==
    \/ image.port = "weak"
    \/ /\ image.port = "elf" => addr < IdMod
       /\ \E range \in Ranges(image) : Within(range, addr - image.by)

-----------------------------------------------------------------------------
(***************************************************************************)
(* What is meant: notes as a linker lays them out, and the ID in them.     *)
(***************************************************************************)
\* A round stays inside the region, and the next one begins at a later, aligned place.
StaysInside(note, left, align, cap) ==
    /\ \A read \in Reads(note, left, align, cap) :
          0 <= read[1] /\ read[1] <= read[2] /\ read[2] <= left
    /\ GoesOn(note, left, align) =>
          /\ NextOff(note, align) \in 1 .. left - 1
          /\ NextOff(note, align) % align = 0

Padded(n, align) == align * ((n + align - 1) \div align)

\* Where note i begins; for the one after the last, the length of them all.
Start(notes, align, i) ==
    LET At[k \in 1 .. Len(notes) + 1] ==
          IF k = 1 THEN 0
          ELSE At[k - 1] + Padded(HeaderLen + notes[k - 1].namesz, align)
                         + Padded(notes[k - 1].descsz, align)
    IN  At[i]

\* Whoever reads a header where no note begins finds a build-id.
Trap == [namesz |-> 4, descsz |-> 1, type |-> BuildIdNote, gnu |-> TRUE]

\* The notes in memory, padded to align in a segment that says p_align, the last bytes cut off.
Segment(notes, align, p_align, cut) ==
    LET len == Start(notes, align, Len(notes) + 1) - cut
    IN  [len |-> len, align |-> p_align,
         mem |-> [o \in 0 .. len |->
                    IF \E i \in DOMAIN notes : Start(notes, align, i) = o
                    THEN notes[CHOOSE i \in DOMAIN notes : Start(notes, align, i) = o]
                    ELSE Trap]]

\* The first build-id among the notes, if it is whole and fits.
MeantId(notes, align, len) ==
    LET ids == {i \in DOMAIN notes : IsBuildId(notes[i])}
    IN  IF ids = {} THEN NoId
        ELSE LET i  == CHOOSE i \in ids : \A j \in ids : i <= j
                 at == Start(notes, align, i) + Padded(HeaderLen + notes[i].namesz, align)
             IN  IF notes[i].descsz \in 1 .. IdMax /\ at + notes[i].descsz <= len
                 THEN Found(at, notes[i].descsz) ELSE NoId

\* The link-time addresses a decoder takes an ID for; it knows by how much a Mach-O image slid.
Resolved(image, id) ==
    {addr \in UNION {image.parts[i].first .. image.parts[i].past - 1 : i \in DOMAIN image.parts} :
       IF image.port = "macho" THEN addr % IdMod = (id - image.by) % IdMod ELSE addr = id}
=============================================================================
