---------------------------- MODULE MCRecoverySweep ----------------------------
(* A small instance of RecoverySweep for TLC. *)
EXTENDS RecoverySweep

CONSTANTS r1, r2, d1

\* Two revisions, the second on top of the first.
Line == {[rev |-> r1, expected |-> None, digest |-> d1],
         [rev |-> r2, expected |-> r1, digest |-> d1]}

\* The scan meets the row of the second revision first.
Order == [r \in Revision |-> IF r = r1 THEN 2 ELSE 1]
===============================================================================
