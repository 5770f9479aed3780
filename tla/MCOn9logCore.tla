---------------------------- MODULE MCOn9logCore ----------------------------
(***************************************************************************)
(* Instances of On9logCore for TLC: which task calls which API function.   *)
(***************************************************************************)
EXTENDS On9logCore, TLC

CONSTANTS t1, t2

\* Two tasks that both log, dispatch queued packets and edit the sink table.
MCAnyCall == [t \in Task |-> {"write", "dispatch", "add", "remove"}]

\* Two tasks that send buffers; one of them also boots and edits the sink table.
MCLiveCall == (t1 :> {"buffer"}) @@ (t2 :> {"boot", "buffer", "add", "remove"})

MCSymmetry == Permutations(Task) \cup Permutations(Sink)
=============================================================================
