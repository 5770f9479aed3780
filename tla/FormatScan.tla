----------------------------- MODULE FormatScan -----------------------------
(***************************************************************************)
(* The scanners of printf formats: on9log_mark_precision_string_args of    *)
(* on9log.c, which finds the arguments of %.*s conversions, and the        *)
(* has_printf_conversion of on9log.hpp, which tells printf formats from    *)
(* {} formats.  A format is a sequence of characters; characters that the  *)
(* scanners treat alike are one character here.                            *)
(***************************************************************************)
EXTENDS Integers, Sequences, FiniteSets, FiniteSetsExt, Loops

CONSTANT MaskBits  \* ON9LOG_ARG_MASK_BITS

\* 32 in the code; one byte counts the arguments, and the formats here have up to six.
ASSUME MaskAssumption == MaskBits \in 6 .. 255

NUL == "nul"

At(format, p) == IF p \in DOMAIN format THEN format[p] ELSE NUL

\* The first position from p on whose character is not in set: a C loop over *p.
SkipWhile(format, p, set) ==
    Min({q \in p .. Len(format) + 1 : At(format, q) \notin set})

Digit == {"0", "5"}
Flag == {"-", "0"}
Conversion == {"s", "d"}
Alpha == {"s", "d", "h", "l", "z"}

\* on9log_skip_printf_length
SkipLength(format, p) ==
    CASE At(format, p) \in {"h", "l"} ->
           IF At(format, p + 1) = At(format, p) THEN p + 2 ELSE p + 1
      [] At(format, p) = "z" -> p + 1
      [] OTHER -> p

(***************************************************************************)
(* One conversion, p being the position after its %: the position of its   *)
(* conversion character, how many * arguments it takes, and whether the    *)
(* precision is one of them.                                               *)
(***************************************************************************)
Scanned(format, p) ==
    LET flags == SkipWhile(format, p, Flag)
        wstar == At(format, flags) = "*"
        width == IF wstar THEN flags + 1 ELSE SkipWhile(format, flags, Digit)
        dot   == At(format, width) = "."
        pstar == dot /\ At(format, width + 1) = "*"
        prec  == CASE pstar -> width + 2
                   [] dot /\ ~pstar -> SkipWhile(format, width + 1, Digit)
                   [] ~dot -> width
    IN  [at    |-> SkipLength(format, prec),
         stars |-> (IF wstar THEN 1 ELSE 0) + (IF pstar THEN 1 ELSE 0),
         pstar |-> pstar]

\* strstr(format, "%.*s")
HasPlainConversion(format) ==
    \E p \in 1 .. Len(format) - 3 : SubSeq(format, p, p + 3) = <<"%", ".", "*", "s">>

(***************************************************************************)
(* The loop over the format, a character or a conversion in a round: where *)
(* it stands, the index from 0 of the next argument, and the indices of    *)
(* the value arguments of %.*s conversions so far.                         *)
(***************************************************************************)
MarkState == [at : Nat, arg : Nat, mask : SUBSET Nat]

\* Mutant of MarkRound: a * of the width is not counted as an argument.
MarkRoundWidth(format, count, s) ==
    LET c     == Scanned(format, s.at + 1)
        value == s.arg + IF c.pstar THEN 1 ELSE 0
    IN  IF s.at > Len(format) THEN s
        ELSE IF format[s.at] # "%" THEN [s EXCEPT !.at = @ + 1]
        ELSE IF At(format, s.at + 1) = "%" THEN [s EXCEPT !.at = @ + 2]
        ELSE IF At(format, c.at) = NUL THEN [s EXCEPT !.at = c.at]
        ELSE [at |-> c.at + 1, arg |-> value + 1,
              mask |-> IF /\ At(format, c.at) = "s" /\ c.pstar
                          /\ value < count /\ value < MaskBits
                       THEN s.mask \cup {value} ELSE s.mask]

MarkRound(format, count, s) ==
    LET c     == Scanned(format, s.at + 1)
        value == s.arg + c.stars
    IN  IF s.at > Len(format) THEN s
        ELSE IF format[s.at] # "%" THEN [s EXCEPT !.at = @ + 1]
        ELSE IF At(format, s.at + 1) = "%" THEN [s EXCEPT !.at = @ + 2]
        ELSE IF At(format, c.at) = NUL THEN [s EXCEPT !.at = c.at]
        ELSE [at |-> c.at + 1, arg |-> value + 1,
              mask |-> IF /\ At(format, c.at) = "s" /\ c.pstar
                          /\ value < count /\ value < MaskBits
                       THEN s.mask \cup {value} ELSE s.mask]

MarkFrom(format, count) ==
    Repeat([s \in MarkState |-> MarkRound(format, count, s)],
           [at |-> 1, arg |-> 0, mask |-> {}], Len(format)).mask

\* on9log_mark_precision_string_args, as a set of argument indices.
MarkPrecision(format, count) ==
    IF count = 0 \/ ~HasPlainConversion(format) THEN {} ELSE MarkFrom(format, count)

\* The C++ scanners, which stop at what they look for.
FindState == [at : Nat, found : BOOLEAN]

\* has_printf_conversion; an unknown conversion character ends its conversion.
PrintfRound(format, s) ==
    LET c == Scanned(format, s.at + 1)
    IN  IF s.found \/ s.at > Len(format) THEN s
        ELSE IF format[s.at] # "%" THEN [s EXCEPT !.at = @ + 1]
        ELSE [at |-> c.at + 1,
              found |-> At(format, s.at + 1) = "%" \/ At(format, c.at) \in Conversion]

HasPrintfConversion(format) ==
    Repeat([s \in FindState |-> PrintfRound(format, s)],
           [at |-> 1, found |-> FALSE], Len(format)).found

\* has_fmt_replacement and uses_printf_format; {{ is a literal brace.
FmtRound(format, s) ==
    LET next == At(format, s.at + 1)
    IN  IF s.found \/ s.at > Len(format) THEN s
        ELSE IF format[s.at] # "{" THEN [s EXCEPT !.at = @ + 1]
        ELSE IF next = "{" THEN [s EXCEPT !.at = @ + 2]
        ELSE [at |-> s.at + 1, found |-> next \in {"}"} \cup Digit \cup Alpha]

HasFmtReplacement(format) ==
    Repeat([s \in FindState |-> FmtRound(format, s)],
           [at |-> 1, found |-> FALSE], Len(format)).found

UsesPrintfFormat(format) == ~HasFmtReplacement(format) /\ HasPrintfConversion(format)

-----------------------------------------------------------------------------
(***************************************************************************)
(* The reference: a format is written as a sequence of pieces, literal     *)
(* characters, {}, %% and conversions, of which one knows what they mean.  *)
(***************************************************************************)
Literal == [text : {<<"s">>, <<".">>, <<"*">>, <<"{", "{">>, <<"}", "}">>}]
Replacement == [text : {<<"{", "}">>, <<"{", "0", "}">>}]
Percent == [text : {<<"%", "%">>}]
Convert == [flags : {<<>>, <<"-">>, <<"0">>}, width : {<<>>, <<"5">>, <<"*">>},
            prec : {<<>>, <<".">>, <<".", "5">>, <<".", "*">>},
            length : {<<>>, <<"l">>, <<"h", "h">>}, conv : {"s", "d"}]

Piece == Literal \cup Replacement \cup Percent \cup Convert

IsConvert(piece) == "conv" \in DOMAIN piece

Written(piece) ==
    IF IsConvert(piece)
    THEN <<"%">> \o piece.flags \o piece.width \o piece.prec \o piece.length \o <<piece.conv>>
    ELSE piece.text

\* Arguments a piece consumes, its value being the last.
Consumes(piece) ==
    IF ~IsConvert(piece) THEN 0
    ELSE 1 + Cardinality({part \in {"width", "prec"} :
                             piece[part] \in {<<"*">>, <<".", "*">>}})

\* A conversion that the guard of the C scanner looks for: no flag, no width, no length.
WrittenPlainly(piece) == Written(piece) = <<"%", ".", "*", "s">>

\* A string that its caller bounds.
Bounded(piece) == IsConvert(piece) /\ piece.prec = <<".", "*">> /\ piece.conv = "s"

\* The value arguments of the %.*s among two pieces.
Meant(one, two) ==
    (IF Bounded(one) THEN {Consumes(one) - 1} ELSE {})
    \cup (IF Bounded(two) THEN {Consumes(one) + Consumes(two) - 1} ELSE {})

=============================================================================
