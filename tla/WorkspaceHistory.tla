--------------------------- MODULE WorkspaceHistory ---------------------------
(***************************************************************************)
(* What the server promises of the revisions of one workspace, whatever    *)
(* happens to the requests that publish them: the published revisions form *)
(* one line, a revision that has been abandoned is never published, and    *)
(* nothing that was published is ever taken back or moved.                 *)
(***************************************************************************)
EXTENDS Naturals

CONSTANT Revision

VARIABLES
  length,     \* how many revisions have been published
  position,   \* the place of each revision in the line, 0 when it has none
  abandoned   \* revisions that were declared "not published"

hvars == <<length, position, abandoned>>

HInit ==
  /\ length = 0
  /\ position = [r \in Revision |-> 0]
  /\ abandoned = {}

Append(r) ==
  /\ position[r] = 0
  /\ r \notin abandoned
  /\ length' = length + 1
  /\ position' = [position EXCEPT ![r] = length + 1]
  /\ UNCHANGED abandoned

Abandon(r) ==
  /\ position[r] = 0
  /\ abandoned' = abandoned \union {r}
  /\ UNCHANGED <<length, position>>

HNext == \E r \in Revision : Append(r) \/ Abandon(r)

HSpec == HInit /\ [][HNext]_hvars
===============================================================================
