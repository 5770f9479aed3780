------------------------------- MODULE MCWire -------------------------------
(***************************************************************************)
(* Instances of Wire and FrontEnd for TLC.                                 *)
(***************************************************************************)
EXTENDS FrontEnd

Plain(width, prec, conv) ==
    [flags |-> <<>>, width |-> width, prec |-> prec, length |-> <<>>, conv |-> conv]
Stop == [text |-> <<".">>]

\* "%*d%.*s" in the image, and ".." with a view and a tag that is not.
MCCall ==
    {[format |-> <<Plain(<<"*">>, <<>>, "d"), Plain(<<>>, <<".", "*">>, "s")>>,
      types |-> <<"word", "word", "word", "string">>,
      passed |-> <<{5}, {192}, {-1, 1, 2}, {4, Null}>>, scan |-> TRUE, inline |-> Null],
     [format |-> <<Stop, Stop>>, types |-> <<"view">>, passed |-> <<{4, Null}>>,
      scan |-> FALSE, inline |-> 2]}

\* Strings of reserved bytes.
MCContent == <<165, 219, 13, 10>>

\* Small sizes, ones around the end of a small region, and ones around the end of size_t.
MCNoteSize == {0, 1, 3, 4, 5, 8, 12, 13, 16, 17, 20, 24, 28, 31}
              \cup (Word - 25 .. Word - 1)

\* No other letters: messages and tags are written in the library's own.
MCTextChar == OwnChar
=============================================================================
