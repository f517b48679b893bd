----------------------------- MODULE RecoverySweep -----------------------------
(***************************************************************************)
(* The recovery worker (lambda/workspace-recovery/worker.ts): an EventBridge *)
(* rule invokes it once a minute; each invocation reads a checkpoint row,  *)
(* scans one page of the revisions table from the checkpoint's cursor,     *)
(* settles the pending RECOVERY rows of the page one after the other, and  *)
(* moves the cursor under the checkpoint's generation.  A settling that    *)
(* throws ends the invocation before the cursor moves.                     *)
(***************************************************************************)
EXTENDS WorkspaceRevisions

CONSTANTS
  Place,      \* the place of each revision's RECOVERY row in the table's scan
  TableEnd    \* the last place of the table

ASSUME PlaceAssumption ==
  /\ TableEnd \in Nat
  /\ Place \in [Revision -> 1..TableEnd]

VARIABLES
  cursor,  \* the checkpoint's cursor: the last place examined, 0 when removed
  sweep,   \* the local state of each invocation of the worker
  owed     \* the rows that were due when the cursor was last removed (history)

sweepVars == <<cursor, sweep, owed>>
allSweepVars == <<vars, sweepVars>>

\* fresh: the checkpoint's generation is still the one this invocation has read.
SweepState ==
  [stage : {"idle", "started", "page"}, from : 0..TableEnd, to : 0..TableEnd,
   last : BOOLEAN, rows : SUBSET Revision, fresh : BOOLEAN]

Asleep == [stage |-> "idle", from |-> 0, to |-> 0, last |-> FALSE, rows |-> {},
           fresh |-> FALSE]

SweepTypeOK ==
  /\ cursor \in 0..TableEnd
  /\ sweep \in [Settler -> SweepState]
  /\ owed \subseteq Revision

SweepInit ==
  /\ Init
  /\ cursor = 0
  /\ sweep = [w \in Settler |-> Asleep]
  /\ owed = {}

Due == {r \in Revision : Settleable(r)}

Pending(r) == RecoveryIs(r, {"pending"})

Ends(w) == sweep' = [sweep EXCEPT ![w] = Asleep]

ReadCheckpoint(w) ==
  /\ sweep[w].stage = "idle"
  /\ sweep' = [sweep EXCEPT ![w] =
       [Asleep EXCEPT !.stage = "started", !.from = cursor, !.fresh = TRUE]]
  /\ UNCHANGED <<vars, cursor, owed>>

\* The pending rows among those the scan examines after place i, up to place j.
PendingBetween(i, j) ==
  {r \in Revision : i < Place[r] /\ Place[r] <= j /\ Pending(r)}

\* The scan examines at least one row, or it meets the end of the table.  A page
\* that stops at the very end of the table may not know that it is the last.
ScanPage(w, to, last) ==
  /\ sweep[w].stage = "started"
  /\ sweep[w].from <= to
  /\ last => to = TableEnd
  /\ ~last => sweep[w].from < to
  /\ sweep' = [sweep EXCEPT ![w].stage = "page", ![w].to = to, ![w].last = last,
                            ![w].rows = PendingBetween(sweep[w].from, to)]
  /\ UNCHANGED <<vars, cursor, owed>>

\* The rows of a page are handled in the order of the scan.
IsNext(w, r) ==
  /\ sweep[w].stage = "page"
  /\ settling[w] = None
  /\ r \in sweep[w].rows
  /\ \A s \in sweep[w].rows : Place[r] <= Place[s]

Handled(w, r) == sweep' = [sweep EXCEPT ![w].rows = @ \ {r}]

\* settlePending answers the row as it is: settled meanwhile, or too young.
SkipRow(w, r) ==
  /\ IsNext(w, r)
  /\ ~Settleable(r)
  /\ Handled(w, r)
  /\ UNCHANGED <<vars, cursor, owed>>

TakeRow(w, r) ==
  /\ IsNext(w, r)
  /\ SettleRead(w, r)
  /\ UNCHANGED sweepVars

SettleRow(w) ==
  /\ SettleWrite(w)
  /\ Handled(w, settling[w])
  /\ UNCHANGED <<cursor, owed>>

\* The fencing transaction was carried out, but its answer and the read that
\* should replace it are lost.
SettleRowUnheard(w) ==
  /\ SettleWrite(w)
  /\ Ends(w)
  /\ UNCHANGED <<cursor, owed>>

\* A mutant: the worker logs the error and goes on with the page.
FailRowOn(w) ==
  /\ SettleFail(w)
  /\ Handled(w, settling[w])
  /\ UNCHANGED <<cursor, owed>>

FailRow(w) ==
  /\ SettleFail(w)
  /\ Ends(w)
  /\ UNCHANGED <<cursor, owed>>

\* The generation of the checkpoint grows, so that no other invocation that has
\* read it can move the cursor.
MoveCursor(w, c) ==
  /\ cursor' = c
  /\ sweep' = [x \in Settler |->
       IF x = w THEN Asleep ELSE [sweep[x] EXCEPT !.fresh = FALSE]]

PageIsDone(w) ==
  /\ sweep[w].stage = "page"
  /\ sweep[w].rows = {}
  /\ settling[w] = None

\* A mutant: the cursor stays at the end of the table.
FinishAtEnd(w) ==
  /\ PageIsDone(w)
  /\ sweep[w].fresh
  /\ MoveCursor(w, sweep[w].to)
  /\ IF sweep[w].last THEN owed' = Due ELSE UNCHANGED owed
  /\ UNCHANGED vars

\* After the whole page: the cursor moves to its end, and is removed by the page
\* that met the end of the table.
FinishPage(w) ==
  /\ PageIsDone(w)
  /\ sweep[w].fresh
  /\ IF sweep[w].last
       THEN MoveCursor(w, 0) /\ owed' = Due
       ELSE MoveCursor(w, sweep[w].to) /\ UNCHANGED owed
  /\ UNCHANGED vars

\* Another invocation moved the cursor meanwhile, a request fails, or the
\* invocation dies.  One that dies while its transaction is on its way is
\* FailRow or SettleRowUnheard.
EndSweep(w) ==
  /\ sweep[w].stage # "idle"
  /\ settling[w] = None
  /\ Ends(w)
  /\ UNCHANGED <<vars, cursor, owed>>

Handles(w) == \E r \in Revision : SkipRow(w, r) \/ TakeRow(w, r)

Scans(w) == \E to \in 0..TableEnd, last \in BOOLEAN : ScanPage(w, to, last)

Sweeping(w) ==
  \/ ReadCheckpoint(w)
  \/ Scans(w)
  \/ Handles(w)
  \/ SettleRow(w)
  \/ SettleRowUnheard(w)
  \/ FailRow(w)
  \/ FinishPage(w)
  \/ EndSweep(w)

\* The steps of WorkspaceRevisions that are not the worker's.
Clients ==
  \/ \E s \in Submissions : Prepare(s)
  \/ \E p \in Publisher : Publishing(p)
  \/ \E t \in inflight : Travelling(t)
  \/ \E q \in Reader : ReadCurrentHead(q) \/ ReadCurrentRow(q)
  \/ Tick

SweepNext ==
  \/ Clients /\ UNCHANGED sweepVars
  \/ \E w \in Settler : Sweeping(w)

SweepSpec == SweepInit /\ [][SweepNext]_allSweepVars

(***************************************************************************)
(* The rule fires every minute, whatever became of the invocation before;  *)
(* no failure is permanent: a step tried again and again succeeds again    *)
(* and again.  Time passes.  Publishers owe nothing.                       *)
(***************************************************************************)
SweepFairness ==
  /\ WF_allSweepVars(Tick /\ UNCHANGED sweepVars)
  /\ \A w \in Settler :
       /\ SF_allSweepVars(ReadCheckpoint(w))
       /\ SF_allSweepVars(Scans(w))
       /\ SF_allSweepVars(Handles(w))
       /\ SF_allSweepVars(SettleRow(w))
       /\ SF_allSweepVars(FinishPage(w))

FairSweepSpec == SweepSpec /\ SweepFairness

\* No sweep of the table passes over a row: what was due when the cursor was last
\* removed is settled once the cursor is behind it, and before an invocation that
\* may still move the cursor moves it behind (worker.ts: "never drops pending
\* rows"), although invocations overlap, die and come late.
SweepIsWhole ==
  /\ \A r \in owed : Place[r] <= cursor => ~Pending(r)
  /\ \A w \in Settler, r \in owed :
       PageIsDone(w) /\ sweep[w].fresh /\ Place[r] <= sweep[w].to => ~Pending(r)

(***************************************************************************)
(* Why: an invocation that may move the cursor started where it is.        *)
(***************************************************************************)
SweepInv ==
  /\ SweepTypeOK
  /\ \A r \in owed : Pending(r) => Settleable(r)
  /\ \A r \in owed : Place[r] <= cursor => ~Pending(r)
  /\ \A w \in Settler :
       /\ settling[w] # None => /\ sweep[w].stage = "page"
                                /\ settling[w] \in sweep[w].rows
       /\ sweep[w].stage # "idle" /\ sweep[w].fresh => sweep[w].from = cursor
       /\ sweep[w].stage = "page" /\ sweep[w].fresh =>
            \A r \in owed \ sweep[w].rows :
              Place[r] <= sweep[w].to => ~Pending(r)
===============================================================================
