------------------------------- MODULE VaultSync -------------------------------
(***************************************************************************)
(* Devices that follow a vault: handleSync (lambda/files/handler.ts) and   *)
(* performSync (plugin/sync-runtime.ts) on top of VaultWrites.  A device   *)
(* keeps the timestamp and the revision of its last complete sync; the     *)
(* server answers with the activity rows after that timestamp (warm), or   *)
(* with a listing of S3 compared to what the device holds (cold).          *)
(*                                                                         *)
(* The devices here only read: what they upload themselves is the work of  *)
(* VaultWrites' writers.  Permissions and excluded paths are left out.     *)
(***************************************************************************)
EXTENDS VaultWrites

CONSTANTS
  Client,  \* devices, each with at most one sync at a time
  Second   \* the resolution of S3's LastModified, in ticks

ASSUME SyncAssumption == Second \in Nat \ {0}

VARIABLES
  fresh,   \* activity rows an eventually consistent query may not see yet
  local,   \* the state of each path each device holds
  cursor,  \* lastSync and lastSeenRevision of each device
  sync,    \* the sync of each device: request, server invocation, answer
  missed   \* pairs <<device, intent>> its syncs passed over (history)

cvars == <<local, cursor, sync>>
svars == <<clock, object, pending, log, revision, permit, writer, reconciling,
           unheard, fresh, local, cursor, sync, missed>>

Copy == [by : Instant, present : BOOLEAN]

\* Not syncing; request sent; pending intents listed; high-water mark taken;
\* cursor read; log queried or scan begun, until every delta is built and applied.
SyncStage == {"idle", "requested", "listed", "stamped", "cursored", "answered"}

\* A delta: a deletion carries the state it tells of, a download fetches what
\* the path holds when it is applied.
Delta == [path : Path, kind : {"download", "delete"}, by : Instant]

Sync ==
  [stage : SyncStage, manifest : SUBSET Path, mode : {"warm", "cold"},
   stamp : Instant, revision : Nat, events : SUBSET Intent,
   todo : SUBSET Path, deltas : SUBSET Delta, failed : BOOLEAN,
   late : SUBSET Instant]

NoSync ==
  [stage |-> "idle", manifest |-> {}, mode |-> "cold", stamp |-> 0,
   revision |-> 0, events |-> {}, todo |-> {}, deltas |-> {}, failed |-> FALSE,
   late |-> {}]

SyncTypeOK ==
  /\ WritesTypeOK
  /\ fresh \subseteq log
  /\ local \in [Client -> [Path -> Copy]]
  /\ cursor \in [Client -> [at : Instant, revision : Nat]]
  /\ sync \in [Client -> Sync]
  /\ missed \subseteq Client \X Instant

SyncInit ==
  /\ WritesInit
  /\ fresh = {}
  /\ local = [c \in Client |-> [p \in Path |-> [by |-> 0, present |-> FALSE]]]
  /\ cursor = [c \in Client |-> [at |-> 0, revision |-> 0]]
  /\ sync = [c \in Client |-> NoSync]
  /\ missed = {}

SyncGoes(c, stage) == sync' = [sync EXCEPT ![c].stage = stage]

\* performSync: the request carries the paths the device holds.
RequestSync(c) ==
  /\ sync[c].stage = "idle"
  /\ sync' = [sync EXCEPT ![c].stage = "requested",
                          ![c].manifest = {p \in Path : local[c][p].present}]
  /\ UNCHANGED <<wvars, fresh, local, cursor, missed>>

\* The second listing of reconcilePendingMutationIntents.  Anything pending, and
\* a first sync, take the cold path; so does a cursor older than the log, more
\* rows than the cap, or a permission change (any sync may meet these).
ListPending(c) ==
  /\ sync[c].stage = "requested"
  /\ \E mode \in IF pending # {} \/ cursor[c].at = 0
                   THEN {"cold"} ELSE {"warm", "cold"} :
       sync' = [sync EXCEPT ![c].stage = "listed", ![c].mode = mode]
  /\ UNCHANGED <<wvars, fresh, local, cursor, missed>>

\* syncStartedAt
TakeStamp(c) ==
  /\ sync[c].stage = "listed"
  /\ sync' = [sync EXCEPT ![c].stage = "stamped", ![c].stamp = clock]
  /\ UNCHANGED <<wvars, fresh, local, cursor, missed>>

\* getVaultCursor, a consistent read
ReadCursor(c) ==
  /\ sync[c].stage = "stamped"
  /\ sync' = [sync EXCEPT ![c].stage = "cursored", ![c].revision = revision]
  /\ UNCHANGED <<wvars, fresh, local, cursor, missed>>

\* queryVaultActivity: strictly after the cursor, and eventually consistent;
\* of each path only the last row counts.
Since(c) == {i \in log : i.at > cursor[c].at}

\* A mutant: the first row of each path counts.
FirstOfPath(rows) ==
  {i \in rows : \A j \in rows : j.path = i.path => i.at <= j.at}

LastOfPath(rows) ==
  {i \in rows : \A j \in rows : j.path = i.path => j.at <= i.at}

\* The intents of the rows that a query for "after this mark" leaves out.
Below(rows, mark) == {i.at : i \in {j \in rows : j.at <= mark}}

QueryLog(c) ==
  /\ sync[c].stage = "cursored"
  /\ sync[c].mode = "warm"
  /\ \E unseen \in SUBSET (fresh \intersect Since(c)) :
       LET events == LastOfPath(Since(c) \ unseen) IN
       sync' = [sync EXCEPT ![c].stage = "answered", ![c].events = events,
                            ![c].todo = {i.path : i \in events},
                            ![c].late = {i.at : i \in unseen}]
  /\ UNCHANGED <<wvars, fresh, local, cursor, missed>>

StartScan(c) ==
  /\ sync[c].stage = "cursored"
  /\ sync[c].mode = "cold"
  /\ sync' = [sync EXCEPT ![c].stage = "answered", ![c].todo = Path]
  /\ UNCHANGED <<wvars, fresh, local, cursor, missed>>

Download(p) == {[path |-> p, kind |-> "download", by |-> 0]}
Remove(p, at) == {[path |-> p, kind |-> "delete", by |-> at]}

\* buildSyncDeltasFromActivityLog, path by path: a deletion is told as logged, of
\* anything else the object is looked at again, and skipped when it is gone.
WarmDelta(c, p) ==
  LET e == CHOOSE i \in sync[c].events : i.path = p IN
  IF e.kind = "delete"
    THEN Remove(p, e.at)
    ELSE IF object[p].present THEN Download(p) ELSE {}

\* S3 reports when an object changed in whole seconds, the cursor has milliseconds.
LastModified(p) == (object[p].modified \div Second) * Second

\* The S3 listing, page by page: what the device lacks or what changed after its
\* cursor; what it holds and S3 does not is inferred to be deleted.
ColdDelta(c, p) ==
  IF object[p].present
    THEN IF p \notin sync[c].manifest \/ LastModified(p) > cursor[c].at
           THEN Download(p) ELSE {}
    ELSE IF p \in sync[c].manifest THEN Remove(p, object[p].by) ELSE {}

\* A change in the second of the cursor looks older than the cursor.
RoundedAway(c, p) ==
  IF /\ sync[c].mode = "cold"
     /\ object[p].present
     /\ p \in sync[c].manifest
     /\ LastModified(p) <= cursor[c].at
     /\ cursor[c].at < object[p].modified
    THEN {object[p].by}
    ELSE {}

BuildDelta(c, p) ==
  /\ sync[c].stage = "answered"
  /\ p \in sync[c].todo
  /\ sync' = [sync EXCEPT
       ![c].todo = @ \ {p},
       ![c].late = @ \union RoundedAway(c, p),
       ![c].deltas = @ \union
         IF sync[c].mode = "warm" THEN WarmDelta(c, p) ELSE ColdDelta(c, p)]
  /\ UNCHANGED <<wvars, fresh, local, cursor, missed>>

\* What a device passes over that keeps a file it was told to remove: the deletion
\* it was told of and the earlier changes of the path, which it did not apply.
PassedOver(d) ==
  {d.by} \union {i.at : i \in {j \in log : j.path = d.path /\ j.at <= d.by}}

\* performSync applies the deltas one by one.  A failed one (an object gone in
\* the meantime, a network error) is remembered; the failure to remove a local
\* file, or the lack of a trash for it, is not.
ApplyDelta(c, d) ==
  /\ sync[c].todo = {}
  /\ d \in sync[c].deltas
  /\ \/ /\ d.kind = "delete"
        /\ local' = [local EXCEPT ![c][d.path] = [by |-> d.by, present |-> FALSE]]
        /\ sync' = [sync EXCEPT ![c].deltas = @ \ {d}]
        /\ missed' = missed \union
             ({c} \X ({local[c][d.path].by} \intersect sync[c].late))
     \/ /\ d.kind = "download"
        /\ object[d.path].present
        /\ local' = [local EXCEPT ![c][d.path] =
                       [by |-> object[d.path].by, present |-> TRUE]]
        /\ sync' = [sync EXCEPT ![c].deltas = @ \ {d}]
        /\ UNCHANGED missed
     \/ /\ UNCHANGED <<local, missed>>
        /\ sync' = [sync EXCEPT ![c].deltas = @ \ {d}, ![c].failed = TRUE]
     \/ /\ d.kind = "delete"
        /\ UNCHANGED <<local, missed>>
        /\ sync' = [sync EXCEPT ![c].deltas = @ \ {d},
                                ![c].late = @ \union PassedOver(d)]
  /\ UNCHANGED <<wvars, fresh, cursor>>

\* Mutants: the cursor advances past a failed delta; it takes the revision of
\* the moment instead of the one the answer carries.
FinishSyncAnyway(c) ==
  /\ sync[c].stage = "answered"
  /\ sync[c].todo = {}
  /\ sync[c].deltas = {}
  /\ cursor' = [cursor EXCEPT ![c] =
       [at |-> sync[c].stamp, revision |-> sync[c].revision]]
  /\ missed' = missed \union ({c} \X sync[c].late)
  /\ sync' = [sync EXCEPT ![c] = NoSync]
  /\ UNCHANGED <<wvars, fresh, local>>

FinishSyncFresh(c) ==
  /\ sync[c].stage = "answered"
  /\ sync[c].todo = {}
  /\ sync[c].deltas = {}
  /\ ~sync[c].failed
  /\ cursor' = [cursor EXCEPT ![c] = [at |-> sync[c].stamp, revision |-> revision]]
  /\ missed' = missed \union ({c} \X sync[c].late)
  /\ sync' = [sync EXCEPT ![c] = NoSync]
  /\ UNCHANGED <<wvars, fresh, local>>

\* The cursor advances only when every delta was applied.
FinishSync(c) ==
  /\ sync[c].stage = "answered"
  /\ sync[c].todo = {}
  /\ sync[c].deltas = {}
  /\ IF sync[c].failed
       THEN UNCHANGED <<cursor, missed>>
       ELSE /\ cursor' = [cursor EXCEPT ![c] =
                  [at |-> sync[c].stamp, revision |-> sync[c].revision]]
            /\ missed' = missed \union ({c} \X sync[c].late)
  /\ sync' = [sync EXCEPT ![c] = NoSync]
  /\ UNCHANGED <<wvars, fresh, local>>

\* The request fails, the operation is cancelled or Obsidian is closed.
AbandonSync(c) ==
  /\ sync[c].stage # "idle"
  /\ sync' = [sync EXCEPT ![c] = NoSync]
  /\ UNCHANGED <<wvars, fresh, local, cursor, missed>>

\* The activity table's replicas catch up.
Replicate ==
  /\ fresh # {}
  /\ fresh' = {}
  /\ UNCHANGED <<wvars, cvars, missed>>

\* A step of the server's writers.  A row that enters the log below a device's
\* cursor, or below the one its running sync has read for, escapes its queries.
Mutate ==
  LET rows == log' \ log IN
  /\ WritesNext
  /\ fresh' = fresh \union rows
  /\ sync' = [c \in Client |->
       IF sync[c].stage = "answered"
         THEN [sync[c] EXCEPT !.late = @ \union Below(rows, sync[c].stamp)]
         ELSE sync[c]]
  /\ missed' = missed \union
       UNION {{c} \X Below(rows, cursor[c].at) : c \in Client}
  /\ UNCHANGED <<local, cursor>>

Syncing(c) ==
  \/ RequestSync(c)
  \/ ListPending(c)
  \/ TakeStamp(c)
  \/ ReadCursor(c)
  \/ QueryLog(c)
  \/ StartScan(c)
  \/ \E p \in Path : BuildDelta(c, p)
  \/ \E d \in sync[c].deltas : ApplyDelta(c, d)
  \/ FinishSync(c)
  \/ AbandonSync(c)

SyncNext ==
  \/ Mutate
  \/ \E c \in Client : Syncing(c)
  \/ Replicate

SyncSpec == SyncInit /\ [][SyncNext]_svars

(***************************************************************************)
(* Safety.                                                                 *)
(***************************************************************************)
Logged(at) == \E i \in log : i.at = at

\* The device holds what the path holds; of two absent files none is older.
Has(c, p) ==
  \/ local[c][p].by = object[p].by
  \/ ~local[c][p].present /\ ~object[p].present

\* The cursor is never ahead of the data: a device whose last sync was taken
\* after the change that left a path as it is, and whose log held that change,
\* has it, whatever writers, crashes and failed deltas came in between.  The
\* rows in missed are the exceptions, and the only ones.
CursorIsCovered ==
  \A c \in Client, p \in Path :
    LET b == object[p].by IN
    sync[c].stage = "idle" /\ Logged(b) /\ b <= cursor[c].at /\ <<c, b>> \notin missed
      => Has(c, p)

\* The cursor short-circuit ("Sync skipped - cursor unchanged"): a device that
\* would skip, because nothing is pending and the revision is the one it saw,
\* has every published change outside missed.
WouldSkip(c) ==
  /\ sync[c].stage = "idle"
  /\ cursor[c].at > 0
  /\ pending = {}
  /\ revision = cursor[c].revision

SkipIsSafe ==
  \A c \in Client, p \in Path :
    LET b == object[p].by IN
    WouldSkip(c) /\ Logged(b) /\ <<c, b>> \notin missed => Has(c, p)

\* handleSync's comment LF5: "Capturing before the read gives at-least-once
\* delivery - a boundary write is simply re-included next sync".
AtLeastOnce ==
  \A c \in Client, p \in Path :
    LET b == object[p].by IN
    WouldSkip(c) /\ Logged(b) => Has(c, p)

\* A device never exchanges what it holds for something older, above all not a
\* file for the deletion of its predecessor (a warm deletion is permanent), unless
\* what it holds is a mutation whose intent the server withdrew (its answer was an
\* error, or it was overwritten before a reconciler looked), or one whose row the
\* query of this sync did not show.
NeverGoesBack ==
  [][\A c \in Client, p \in Path :
       \/ local'[c][p].by >= local[c][p].by
       \/ ~Announced(local[c][p].by)
       \/ local[c][p].by \in sync[c].late]_local

===============================================================================
