------------------------- MODULE MCWorkspaceRevisions -------------------------
(* Small instances of WorkspaceRevisions for TLC. *)
EXTENDS WorkspaceRevisions, TLC

CONSTANTS r1, r2, r3, d1, d2

\* r1 opens the workspace; r2 and r3 compete to follow it.
Rivals ==
  {[rev |-> r1, expected |-> None, digest |-> d1],
   [rev |-> r2, expected |-> r1, digest |-> d1],
   [rev |-> r3, expected |-> r1, digest |-> d1]}

\* r2 follows r1; two clients prepare r2, with different content.
Chain ==
  {[rev |-> r1, expected |-> None, digest |-> d1],
   [rev |-> r2, expected |-> r1, digest |-> d1],
   [rev |-> r2, expected |-> r1, digest |-> d2]}

PublisherSymmetry == Permutations(Publisher)
===============================================================================
