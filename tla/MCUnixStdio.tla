---------------------------- MODULE MCUnixStdio -----------------------------
(***************************************************************************)
(* Instances of UnixStdio for TLC.                                         *)
(***************************************************************************)
EXTENDS UnixStdio
=============================================================================
