------------------------------- MODULE Loops --------------------------------
(***************************************************************************)
(* The loops of this code over the bytes of a buffer, the arguments of a   *)
(* call or the characters of a format.  Each is given with the set of its  *)
(* states, which a proof about it needs.                                   *)
(***************************************************************************)
EXTENDS Integers, Sequences

\* The state in which a loop of n rounds ends, next[<<i, s>>] being the state after round i.
Run(next, States, start, n) ==
    LET from[at \in (1 .. n + 1) \X States] ==
          IF at[1] > n THEN at[2] ELSE from[<<at[1] + 1, next[at]>>]
    IN  from[<<1, start>>]

\* The loop in which an automaton reads input: FoldLeft.
Read(step(_, _), States, start, input) ==
    Run([at \in (1 .. Len(input)) \X States |-> step(at[2], input[at[1]])],
        States, start, Len(input))

\* The loop of which all n rounds are the same.  One that ends earlier stands still then.
Repeat(round, start, n) ==
    Run([at \in (1 .. n) \X DOMAIN round |-> round[at[2]]], DOMAIN round, start, n)
=============================================================================
