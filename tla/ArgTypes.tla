------------------------------ MODULE ArgTypes ------------------------------
(***************************************************************************)
(* How an argument of a log call is classified, passed through "..." and   *)
(* read back.  The macros of on9log.h and the templates of on9log.hpp      *)
(* choose a type code at compile time; on9log.c reads the argument with    *)
(* the va_arg the code stands for.  If the two disagree, this argument and *)
(* all after it are garbage.                                               *)
(*                                                                         *)
(* A type is [kind, to, size]: its kind, what a pointer or an array is to, *)
(* and the size of a number.  An ABI is [long, pointer, slot, fpregs]: the *)
(* sizes of long and of pointers, of a slot of the argument list, and      *)
(* whether variadic doubles travel in registers of their own.              *)
(***************************************************************************)
EXTENDS Integers

Ilp32 == [long |-> 4, pointer |-> 4, slot |-> 4, fpregs |-> FALSE]
Lp64  == [long |-> 8, pointer |-> 8, slot |-> 8, fpregs |-> TRUE]

Number(kind, size) == [kind |-> kind, to |-> "none", size |-> size]

\* long is an integer type of its own: its size is the ABI's, here 0.
Integers8to64 == {Number("int", size) : size \in {1, 2, 4, 8}} \cup {Number("enum", 4)}
Long == Number("long", 0)
Floats == {Number("float", 4), Number("float", 8)}
Addresses == [kind : {"pointer", "array"}, to : {"char", "uint8_t", "void", "other"}, size : {0}]
             \ [kind : {"array"}, to : {"void"}, size : {0}]
Classes == {Number("string", 0), Number("string_view", 0)}
Nullptr == Number("nullptr", 0)

Scalars == Integers8to64 \cup {Long} \cup Floats

SizeOf(type, abi) == IF type.kind = "long" THEN abi.long ELSE type.size

-----------------------------------------------------------------------------
(***************************************************************************)
(* The classifications.                                                    *)
(***************************************************************************)
\* Mutant of DetectType: float is not promoted.
DetectTypeFloat(type) ==
    CASE type.kind \in {"pointer", "array"} /\ type.to = "char" -> "string"
      [] type.kind \in {"pointer", "array"} /\ type.to \in {"void", "uint8_t"} -> "pointer"
      [] type.kind \in {"int", "float"} /\ type.size = 8 -> "dword"
      [] OTHER -> "word"

\* ON9_LOG_DETECT_TYPE of C: an array decays before _Generic sees it.
DetectType(type) ==
    CASE type.kind \in {"pointer", "array"} /\ type.to = "char" -> "string"
      [] type.kind \in {"pointer", "array"} /\ type.to \in {"void", "uint8_t"} -> "pointer"
      [] type.kind = "int" /\ type.size = 8 -> "dword"  \* long long
      [] type.kind = "float" -> "dword"
      [] OTHER -> "word"

\* On9LogArgType, the macro's form for C++: one specialisation per array type.
On9LogArgType(type) ==
    CASE <<type.kind, type.to>> \in {"pointer", "array"} \X {"char"} -> "string"
      [] <<type.kind, type.to>> \in {"pointer", "array"} \X {"uint8_t"} -> "pointer"
      [] <<type.kind, type.to>> = <<"pointer", "void">> -> "pointer"
      [] type \in {Number("int", 8)} \cup Floats -> "dword"
      [] OTHER -> "word"

\* arg_type_code of on9log.hpp
ArgTypeCode(type, abi) ==
    CASE type.kind \in {"string", "string_view"} -> "view"
      [] type.kind \in {"pointer", "array"} -> IF type.to = "char" THEN "string" ELSE "pointer"
      [] type.kind = "nullptr" -> "pointer"
      [] type.kind = "float" -> "dword"
      [] type.kind \in {"int", "long", "enum"} -> IF SizeOf(type, abi) > 4 THEN "dword" ELSE "word"

-----------------------------------------------------------------------------
(***************************************************************************)
(* What stands in the argument list: the register file and the size.       *)
(***************************************************************************)
General(size) == [file |-> "general", size |-> size]

\* The default promotions of the language.
Promoted(type, abi) ==
    CASE type.kind \in {"pointer", "array", "nullptr"} -> General(abi.pointer)
      [] type.kind = "float" -> [file |-> IF abi.fpregs THEN "float" ELSE "general", size |-> 8]
      [] type.kind \in {"int", "long", "enum"} ->
           General(IF SizeOf(type, abi) < 4 THEN 4 ELSE SizeOf(type, abi))

\* wire_arg and vararg_value: floats and integers go as unsigned words, a view by its address.
WireArg(type, abi) ==
    CASE type.kind \in {"string", "string_view", "pointer", "array", "nullptr"} -> General(abi.pointer)
      [] type.kind = "float" -> General(8)
      [] type.kind \in {"int", "long", "enum"} -> General(IF SizeOf(type, abi) > 4 THEN 8 ELSE 4)

\* The va_arg of on9log_emit_payload_args.
VaArg(code, abi) ==
    CASE code = "word" -> General(4)
      [] code = "dword" -> General(8)
      [] code \in {"pointer", "string", "view"} -> General(abi.pointer)

\* Slots an argument takes.
Slots(arg, abi) == (arg.size + abi.slot - 1) \div abi.slot

\* It is read from where it stands, and the next one as well.
InStep(passed, read, abi) ==
    passed.file = read.file /\ Slots(passed, abi) = Slots(read, abi)

\* Addresses are sent as 32 bits on purpose; a number is sent with all of its bits.
Whole(type, passed, read) == type \in Scalars => passed.size = read.size

=============================================================================
