---------------------------- MODULE MCTransport -----------------------------
(***************************************************************************)
(* Instances of Transport for TLC.                                         *)
(***************************************************************************)
EXTENDS Transport, TLC

CONSTANTS uart, usb

MCOneConsole == <<uart>>

MCSymmetry == Permutations(Task)
=============================================================================
