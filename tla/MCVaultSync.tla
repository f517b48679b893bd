------------------------------ MODULE MCVaultSync ------------------------------
(* Small instances of VaultSync for TLC. *)
EXTENDS VaultSync

\* At most so many answers of S3 were lost, and so many intents are left behind.
Failures(lost, left) == Cardinality(unheard) <= lost /\ Cardinality(pending) <= left

\* The bound of the run: failures and reconciliation passes are free in the first
\* tick. In the second, one lost answer and one intent left behind go on; in the
\* third, which the third mutation needs, no lost answer and only passes at rest.
Mild ==
  /\ clock >= 2 => Failures(1, 1)
  /\ clock >= 3 => Failures(0, 1) /\ \A k \in Reconciler : reconciling[k] = Resting
===============================================================================
