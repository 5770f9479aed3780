------------------------------ MODULE Framing -------------------------------
(***************************************************************************)
(* How a packet becomes bytes on a serial line: START, the escaped frame   *)
(* type, packet and CRC, END.  esp_stdio_log_vfs.c collects the bytes in   *)
(* batches and computes the CRC with a table; on9log_unix_stdio.c writes   *)
(* byte by byte and computes the CRC bit by bit.  Decode is the decoder of *)
(* the repository's tests, the other end of the line.                      *)
(*                                                                         *)
(* These are operators on sequences of bytes; module Wire uses them.       *)
(***************************************************************************)
EXTENDS Integers, Sequences, Loops

CONSTANT Batch  \* ESP_STDIO_LOG_VFS_WRITE_BATCH

ASSUME BatchAssumption == Batch \in Nat \ {0}

Byte == 0 .. 255
Word16 == 0 .. 65535

Join(seqs) == Read(LAMBDA all, seq : all \o seq, Seq(Byte), <<>>, seqs)

START == 165
END == 192
ESC == 219
CR == 13
LF == 10
CrcInit == 65535

\* s_crc16_ccitt_table, the entry of byte b at b + 1.
CrcTable == <<
       0,  4129,  8258, 12387, 16516, 20645, 24774, 28903, 33032, 37161, 41290, 45419, 49548, 53677, 57806, 61935,
    4657,   528, 12915,  8786, 21173, 17044, 29431, 25302, 37689, 33560, 45947, 41818, 54205, 50076, 62463, 58334,
    9314, 13379,  1056,  5121, 25830, 29895, 17572, 21637, 42346, 46411, 34088, 38153, 58862, 62927, 50604, 54669,
   13907,  9842,  5649,  1584, 30423, 26358, 22165, 18100, 46939, 42874, 38681, 34616, 63455, 59390, 55197, 51132,
   18628, 22757, 26758, 30887,  2112,  6241, 10242, 14371, 51660, 55789, 59790, 63919, 35144, 39273, 43274, 47403,
   23285, 19156, 31415, 27286,  6769,  2640, 14899, 10770, 56317, 52188, 64447, 60318, 39801, 35672, 47931, 43802,
   27814, 31879, 19684, 23749, 11298, 15363,  3168,  7233, 60846, 64911, 52716, 56781, 44330, 48395, 36200, 40265,
   32407, 28342, 24277, 20212, 15891, 11826,  7761,  3696, 65439, 61374, 57309, 53244, 48923, 44858, 40793, 36728,
   37256, 33193, 45514, 41451, 53516, 49453, 61774, 57711,  4224,   161, 12482,  8419, 20484, 16421, 28742, 24679,
   33721, 37784, 41979, 46042, 49981, 54044, 58239, 62302,   689,  4752,  8947, 13010, 16949, 21012, 25207, 29270,
   46570, 42443, 38312, 34185, 62830, 58703, 54572, 50445, 13538,  9411,  5280,  1153, 29798, 25671, 21540, 17413,
   42971, 47098, 34713, 38840, 59231, 63358, 50973, 55100,  9939, 14066,  1681,  5808, 26199, 30326, 17941, 22068,
   55628, 51565, 63758, 59695, 39368, 35305, 47498, 43435, 22596, 18533, 30726, 26663,  6336,  2273, 14466, 10403,
   52093, 56156, 60223, 64286, 35833, 39896, 43963, 48026, 19061, 23124, 27191, 31254,  2801,  6864, 10931, 14994,
   64814, 60687, 56684, 52557, 48554, 44427, 40424, 36297, 31782, 27655, 23652, 19525, 15522, 11395,  7392,  3265,
   61215, 65342, 53085, 57212, 44955, 49082, 36825, 40952, 28183, 32310, 20053, 24180, 11923, 16050,  3793,  7920>>

-----------------------------------------------------------------------------
(***************************************************************************)
(* CRC-16/CCITT, one byte.                                                 *)
(***************************************************************************)
XorByte ==
    [a \in Byte |-> [b \in Byte |->
       LET Differ(bit) == bit * (((a \div bit) + (b \div bit)) % 2)
       IN  Differ(1) + Differ(2) + Differ(4) + Differ(8)
           + Differ(16) + Differ(32) + Differ(64) + Differ(128)]]

\* Exclusive or of 16-bit words.
Xor16(x, y) == 256 * XorByte[x \div 256][y \div 256] + XorByte[x % 256][y % 256]

\* Mutant of CrcEsp: the byte meets the wrong half of the register.
CrcEspLow(crc, byte) ==
    Xor16((crc * 256) % 65536, CrcTable[Xor16(crc % 256, byte) + 1])

CrcEsp(crc, byte) ==
    Xor16((crc * 256) % 65536, CrcTable[Xor16(crc \div 256, byte) + 1])

CrcBit(crc) ==
    IF crc >= 32768 THEN Xor16((crc * 2) % 65536, 4129) ELSE crc * 2

CrcUnix(crc, byte) ==
    Read(LAMBDA c, bit : CrcBit(c), Word16, Xor16(crc, byte * 256), [bit \in 1 .. 8 |-> bit])

-----------------------------------------------------------------------------
(***************************************************************************)
(* Escaping.                                                               *)
(***************************************************************************)
Code(byte) == CASE byte = START -> 222
                [] byte = END -> 220
                [] byte = ESC -> 221
                [] byte = CR -> 208
                [] byte = LF -> 209

Reserved == {START, END, ESC, CR, LF}

\* Mutant of Escape: the escape byte itself goes out as it is.
EscapeNotEsc(byte) == IF byte \in Reserved \ {ESC} THEN <<ESC, Code(byte)>> ELSE <<byte>>

Escape(byte) == IF byte \in Reserved THEN <<ESC, Code(byte)>> ELSE <<byte>>

EscapeAll(bytes) == Join([i \in DOMAIN bytes |-> Escape(bytes[i])])

Low(crc) == crc % 256
High(crc) == crc \div 256

\* The bytes between START and END, given the CRC of body.
Enclosed(body, crc) == <<START>> \o EscapeAll(body \o <<Low(crc), High(crc)>>) \o <<END>>

(***************************************************************************)
(* esp_stdio_log_vfs_write_frame: the batches it flushes.  A full batch is *)
(* flushed when the next byte comes.                                       *)
(***************************************************************************)
Writer == [flushed : Seq(Seq(Byte)), bytes : Seq(Byte)]

PutRaw(writer, byte) ==
    IF Len(writer.bytes) = Batch
    THEN [flushed |-> Append(writer.flushed, writer.bytes), bytes |-> <<byte>>]
    ELSE [writer EXCEPT !.bytes = Append(@, byte)]

EspFrame(type, packet) ==
    LET body   == <<type>> \o packet
        writer == Read(PutRaw, Writer, [flushed |-> <<>>, bytes |-> <<>>],
                       Enclosed(body, Read(CrcEsp, Word16, CrcInit, body)))
    IN  Append(writer.flushed, writer.bytes)

\* on9log_unix_stdio_end: the same bytes, one by one.
UnixFrame(type, packet) ==
    LET body == <<type>> \o packet
    IN  Enclosed(body, Read(CrcUnix, Word16, CrcInit, body))

-----------------------------------------------------------------------------
(***************************************************************************)
(* decode_frames: everything outside a frame is text; a frame is valid if  *)
(* it has no reserved byte inside, every escape is known and the CRC is    *)
(* right.                                                                  *)
(***************************************************************************)
Unescaped(code) == {byte \in Reserved : Code(byte) = code}

ValidFrame(body, clean) ==
    /\ clean
    /\ Len(body) >= 3
    /\ LET data == SubSeq(body, 1, Len(body) - 2)
           crc  == Read(CrcUnix, Word16, CrcInit, data)
       IN  SubSeq(body, Len(body) - 1, Len(body)) = <<Low(crc), High(crc)>>

DecodeByte(state, byte) ==
    CASE state.mode = "text" ->
           IF byte = START THEN [state EXCEPT !.mode = "frame", !.body = <<>>, !.clean = TRUE]
                           ELSE state
      [] state.mode = "frame" /\ byte = END ->
           [state EXCEPT !.mode = "text",
                         !.frames = IF ValidFrame(state.body, state.clean)
                                    THEN Append(@, SubSeq(state.body, 1, Len(state.body) - 2))
                                    ELSE @]
      [] state.mode = "frame" /\ byte = ESC -> [state EXCEPT !.mode = "escape"]
      [] state.mode = "frame" /\ byte \notin {END, ESC} ->
           [state EXCEPT !.body = Append(@, byte), !.clean = @ /\ byte \notin Reserved]
      [] state.mode = "escape" ->
           [state EXCEPT !.mode = "frame",
                         !.body = IF Unescaped(byte) = {} THEN @
                                  ELSE Append(@, CHOOSE b \in Unescaped(byte) : TRUE),
                         !.clean = @ /\ Unescaped(byte) # {}]

\* The decoder between two bytes; frames are the valid ones, each as its type and packet.
DecodeInit == [mode |-> "text", body |-> <<>>, clean |-> TRUE, frames |-> <<>>]

Decoder == [mode : {"text", "frame", "escape"}, body : Seq(Byte), clean : BOOLEAN,
            frames : Seq(Seq(Byte))]

Decode(state, bytes) == Read(DecodeByte, Decoder, state, bytes)

=============================================================================
