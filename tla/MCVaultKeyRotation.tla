--------------------------- MODULE MCVaultKeyRotation ---------------------------
(* Symmetry of VaultKeyRotation for TLC. *)
EXTENDS VaultKeyRotation, TLC

Symmetry ==
  Permutations(File) \union Permutations(Job) \union Permutations(Rotator)
===============================================================================
