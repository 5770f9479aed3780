--------------------------- MODULE MCIsrPipeline ----------------------------
(***************************************************************************)
(* Instances of IsrPipeline for TLC.                                       *)
(***************************************************************************)
EXTENDS IsrPipeline, TLC

\* The application registers its sink and is quiet; drain tasks only dispatch.
MCQuietCall == [t \in Task |-> IF t \in Drain THEN {"dispatch"} ELSE {"add"}]

\* The application registers a sink and goes on logging while the ring is drained.
MCLogCall == [t \in Task |-> IF t \in Drain THEN {"dispatch"} ELSE {"write", "add"}]

MCSymmetry == Permutations(Drain) \cup Permutations(Starter)
=============================================================================
