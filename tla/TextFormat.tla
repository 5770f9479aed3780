----------------------------- MODULE TextFormat -----------------------------
(***************************************************************************)
(* The lines of the plain-text build.  A formatter hands its text to an    *)
(* output callback in pieces of any size; a filter in front of the sink    *)
(* puts a carriage return before each line feed that has none, also when   *)
(* the two arrive in different pieces.                                     *)
(*                                                                         *)
(* Text is a sequence of characters; an escape sequence or a fixed word is *)
(* one character here.  What vfprintf or fmt makes of a message is left    *)
(* out: a message is any text.                                             *)
(***************************************************************************)
EXTENDS Loops

CONSTANT TextChar  \* the characters of messages and tags, and the library's own

Newline == "\n"
Return  == "\r"

\* What the library itself writes.
OwnChar ==
    {Newline, Return, "0", "1", "2", "3", "4", "5", "6", "7", "8", "9", "a", "b", "c", "d", "e", "f",
     ":", ".", " ", "[", "]", "]:", "?", "E", "W", "I", "D", "V",
     "bold", "red", "yellow", "green", "cyan", "white", "normal", "reset",
     "log message(s) dropped", "boot id=", "reset reason=", "image id=", "none", "buffer["}

ASSUME TextAssumption == OwnChar \subseteq TextChar

Text == Seq(TextChar)

\* Texts written one after the other.
Concat(texts) == Read(LAMBDA all, text : all \o text, Text, <<>>, texts)

\* on9log_text_flag_t
TextFlag == {"PRETTY", "PRETTYLINE", "SHOWLEVEL", "SHOWTOPIC", "SHOWTIMESTAMP", "CR"}

-----------------------------------------------------------------------------
(***************************************************************************)
(* on9log_text_filtered_output: what goes out, and the last_char that is   *)
(* kept for the next piece.                                                *)
(***************************************************************************)
FilterState == [out : Text, last : TextChar]

Filter(out, last) == [out |-> out, last |-> last]

FilterChar(flags, filter, char) ==
    Filter(filter.out \o (IF "CR" \in flags /\ char = Newline /\ filter.last # Return
                          THEN <<Return, char>> ELSE <<char>>), char)

\* Mutant of FilteredOutput: last_char is a local of the call.
FilteredOutputAfresh(flags, filter, piece) ==
    Read(LAMBDA f, char : FilterChar(flags, f, char), FilterState, Filter(filter.out, "none"), piece)

FilteredOutput(flags, filter, piece) ==
    Read(LAMBDA f, char : FilterChar(flags, f, char), FilterState, filter, piece)

\* The text that comes out of a filter of its own, the pieces fed in order.
Filtered(flags, pieces) ==
    Read(LAMBDA f, piece : FilteredOutput(flags, f, piece), FilterState, Filter(<<>>, "none"),
         pieces).out

-----------------------------------------------------------------------------
Numeral(n) == <<"0", "1", "2", "3", "4", "5", "6", "7", "8", "9">>[n + 1]

\* on9log_text_output_u32
U32(value) ==
    LET Digits[n \in 0 .. value] == IF n < 10 THEN <<Numeral(n)>>
                                    ELSE Append(Digits[n \div 10], Numeral(n % 10))
    IN  Digits[value]

\* on9log_text_output_padded: the last digits, as many as there is room for.
PaddedTo(width, value) == [i \in 1 .. width |-> Numeral((value \div 10 ^ (width - i)) % 10)]

\* The time of on9log_text_output_prefix.
Timestamp(ms) ==
    LET hours == ms \div 3600000
    IN  <<IF hours < 100 THEN PaddedTo(2, hours) ELSE U32(hours), <<":">>,
          PaddedTo(2, (ms % 3600000) \div 60000), <<":">>,
          PaddedTo(2, (ms % 60000) \div 1000), <<".">>,
          PaddedTo(3, ms % 1000)>>

\* on9log_text_level_color
Color(level) == CASE level = 1 -> "red" [] level = 2 -> "yellow" [] level = 3 -> "green"
                  [] level = 4 -> "cyan" [] OTHER -> "white"

\* on9log_text_level_letter
Letter(level) == IF level \in 1 .. 5 THEN <<"E", "W", "I", "D", "V">>[level] ELSE "?"

\* on9log_text_output_prefix: the fields asked for, a blank between two, and a colon.
Prefix(flags, level, ms, tag) ==
    LET pretty == {"PRETTY", "PRETTYLINE"} \cap flags
        time   == IF "SHOWTIMESTAMP" \in flags THEN Timestamp(ms) ELSE <<>>
        blank1 == IF time # <<>> THEN <<<<" ">>>> ELSE <<>>
        letter == IF "SHOWLEVEL" \in flags THEN blank1 \o <<<<Letter(level)>>>> ELSE <<>>
        blank2 == IF time # <<>> \/ letter # <<>> THEN <<<<" ">>>> ELSE <<>>
        topic  == IF "SHOWTOPIC" \in flags THEN blank2 \o <<<<"[">>, tag, <<"]">>>> ELSE <<>>
        fields == time \o letter \o topic
    IN  (IF pretty # {} THEN <<<<"bold">>, <<Color(level)>>>> ELSE <<>>)
        \o fields
        \o (IF fields # <<>> THEN <<<<":", " ">>>> ELSE <<>>)
        \o (IF "PRETTYLINE" \in flags THEN <<<<"normal">>>>
            ELSE IF "PRETTY" \in flags THEN <<<<"reset">>>> ELSE <<>>)

\* on9log_text_output_suffix
Suffix(flags) == <<<<Newline>>>> \o (IF "PRETTYLINE" \in flags THEN <<<<"reset">>>> ELSE <<>>)

\* on9log_dispatch_text_line: the pieces of a line, before the filter.
TextLine(flags, level, ms, tag, message) ==
    Prefix(flags, level, ms, tag) \o message \o Suffix(flags)

-----------------------------------------------------------------------------
(***************************************************************************)
(* The library's own messages.                                             *)
(***************************************************************************)
\* on9log_dropped_text_formatter
DroppedText(count) == <<U32(count), <<"log message(s) dropped">>>>

Nibble(n) == <<"0", "1", "2", "3", "4", "5", "6", "7", "8", "9",
               "a", "b", "c", "d", "e", "f">>[n + 1]

Hex(byte) == <<Nibble(byte \div 16), Nibble(byte % 16)>>

\* on9log_boot_text_formatter
BootText(bootId, reason, kind, id) ==
    <<<<"boot id=">>, U32(bootId), <<"reset reason=">>, U32(reason), <<"image id=">>>>
    \o (IF id = <<>> THEN <<<<"none">>>>
        ELSE <<U32(kind), <<":">>>> \o [i \in DOMAIN id |-> Hex(id[i])])

\* on9log_buffer_text_formatter: group bytes fill its array, which is flushed then and at the end.
BufferText(bytes, group) ==
    <<<<"buffer[">>, U32(Len(bytes)), <<"]:">>>>
    \o [g \in 1 .. (Len(bytes) + group - 1) \div group |->
          Concat([i \in 1 .. (IF g * group <= Len(bytes) THEN group ELSE Len(bytes) % group) |->
                    <<" ">> \o Hex(bytes[(g - 1) * group + i])])]

-----------------------------------------------------------------------------
(***************************************************************************)
(* What is meant.                                                          *)
(***************************************************************************)
\* The text with a carriage return before each line feed that lacks one.
WithReturns(chars) ==
    Concat([i \in DOMAIN chars |->
              IF chars[i] = Newline /\ (i = 1 \/ chars[i - 1] # Return) THEN <<Return, Newline>>
                                                              ELSE <<chars[i]>>])

\* The number a text of digits stands for.
ValueOf(chars) ==
    Read(LAMBDA n, char : 10 * n + (CHOOSE d \in 0 .. 9 : Numeral(d) = char), Nat, 0, chars)

\* The time a reader takes from the fields hours, minutes, seconds and milliseconds.
TimeOf(stamp) ==
    3600000 * ValueOf(stamp[1]) + 60000 * ValueOf(stamp[3]) + 1000 * ValueOf(stamp[5])
    + ValueOf(stamp[7])

Colors == {"bold", "red", "yellow", "green", "cyan", "white"}

\* After the line the terminal is as it was before.
ColorIsOff(chars) ==
    \A i \in DOMAIN chars : chars[i] \in Colors =>
       \E j \in i + 1 .. Len(chars) : chars[j] = "reset"
=============================================================================
