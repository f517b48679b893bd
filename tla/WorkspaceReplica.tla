--------------------------- MODULE WorkspaceReplica ---------------------------
(***************************************************************************)
(* The revision replica of the plugin (workspace-sync-runtime.ts): a       *)
(* journal of pending local changes, encrypted and persisted, and a        *)
(* checkpoint of the revision the local files were reconciled with.        *)
(*                                                                         *)
(* Writes, deletions, sync passes and recovery choices are serialized      *)
(* ("serial"), so that the steps of two of them never interleave; what     *)
(* interleaves with a pass are the server, other clients, an editor that   *)
(* changes files behind the plugin's back, and crashes.  A step ends where *)
(* the code awaits a request, the disk or the journal.                     *)
(*                                                                         *)
(* The server side (proposals, first-party intents) is not in this         *)
(* repository: it is modelled from what the runtime relies on, namely that *)
(* an intent is carried out at most once under its idempotency key, only   *)
(* on the exact base it names, and never after it was retired or refused.  *)
(***************************************************************************)
EXTENDS Naturals, FiniteSets
LOCAL INSTANCE Sequences

CONSTANTS
  Path,         \* files; one stable identity per path
  Content,      \* byte images; every edit makes a new one
  MaxRevision,  \* bound on the revisions of the workspace
  MaxId,        \* bound on the ids of pending changes
  None          \* no file, no value



VARIABLES
  line,      \* server: the files of each revision, the last one is current
  intents,   \* server: the first-party intents, by idempotency key
  disk,      \* the local files
  removing,  \* files that a deletion, already recorded, is about to remove
  mem,       \* the runtime's state: pending, files, rev, listed
  journal,   \* what of it was persisted last
  sync,      \* where the running pass is
  ids,       \* how many ids have been drawn
  made,      \* contents made so far (history)
  tainted,   \* contents a local agent wrote or that replaced them (history)
  latest,    \* the last content the user saw saved, per path (history)
  raced      \* contents saved in a file about to be replaced or removed (history)

workspace == <<line, intents>>
history == <<made, tainted, latest, raced>>
rvars == <<line, intents, disk, removing, mem, journal, sync, ids, history>>

Image == Content \union {None}
Id == 1..MaxId
Rev == 1..MaxRevision

\* A pending change; content None is a deletion, key 0 is not submitted.
\* root is the change it was first made as (history).
Item ==
  [id : Id, root : Id, path : Path, content : Image, origin : {"human", "agent", "unknown"},
   base : Image, baseRev : Rev \union {0}, key : Id \union {0},
   status : {"pending", "publishing", "review", "conflict", "held"},
   proposed : BOOLEAN, attempted : BOOLEAN,
   outcome : {"none", "open", "applied", "retired", "refused"}]

\* version and local are the contents of the server's and of the local file when
\* they were last reconciled.
FileRow == [version : Image, local : Image, rev : Rev]

Replica ==
  [pending : SUBSET Item, files : [Path -> FileRow \union {None}],
   rev : Rev \union {0}, listed : Rev \union {0}]

Change == [root : Id, path : Path, content : Image, base : Image]

Intent ==
  [state : {"ready", "pending", "applied", "retired", "refused"},
   changes : SUBSET Change]

ASSUME ReplicaAssumption ==
  /\ None \notin Content \union FileRow \union Intent
  /\ MaxRevision \in Nat \ {0}
  /\ MaxId \in Nat

Stages == {"rest", "recover", "attempt", "submit", "reconcile", "download",
           "write", "trash", "settle", "propose", "dispatch"}

\* ids, paths: what the running loop has not come to yet.  rev is 0 in a recovery
\* choice.  moved: a publication may have advanced the workspace.  back: the loop
\* that key is submitted from; "rest" when a failure there ends the pass.
Pass ==
  [stage : Stages, rev : Rev \union {0}, moved : BOOLEAN, ids : SUBSET Id,
   paths : SUBSET Path, key : Id \union {0}, back : Stages,
   path : Path \union {None}, found : Image]

AtRest ==
  [stage |-> "rest", rev |-> 0, moved |-> FALSE, ids |-> {}, paths |-> {}, key |-> 0,
   back |-> "rest", path |-> None, found |-> None]

Blank == [pending |-> {}, files |-> [p \in Path |-> None], rev |-> 0, listed |-> 0]

ReplicaTypeOK ==
  /\ line \in Seq([Path -> Image]) /\ Len(line) \in Rev
  /\ intents \in [Id -> Intent \union {None}]
  /\ disk \in [Path -> Image]
  /\ removing \subseteq Path
  /\ mem \in Replica
  /\ journal \in Replica
  /\ sync \in Pass
  /\ ids \in 0..MaxId
  /\ made \subseteq Content
  /\ tainted \subseteq Content
  /\ latest \in [Path -> Image]
  /\ raced \subseteq Content

ReplicaInit ==
  /\ line = <<[p \in Path |-> None]>>
  /\ intents = [k \in Id |-> None]
  /\ disk = [p \in Path |-> None]
  /\ removing = {}
  /\ mem = Blank
  /\ journal = Blank
  /\ sync = AtRest
  /\ ids = 0
  /\ made = {}
  /\ tainted = {}
  /\ latest = [p \in Path |-> None]
  /\ raced = {}

Newest == Len(line)

\* Contents of some revision.
Stored == {line[n][p] : n \in 1..Newest, p \in Path} \ {None}

(***************************************************************************)
(* The journal.  A step that changes the state persists it; when that      *)
(* fails, what runs ends in an error and the change stays in memory.       *)
(***************************************************************************)
Records(m, next) ==
  /\ mem' = m
  /\ \/ journal' = m /\ sync' = next
     \/ UNCHANGED journal /\ sync' = AtRest

Touched(p) == \E x \in mem.pending : x.path = p

Put(m, x) == [m EXCEPT !.pending = @ \union {x}]

Swap(m, old, new) == [m EXCEPT !.pending = (@ \ old) \union new]

ItemOf(i) == CHOOSE x \in mem.pending : x.id = i

\* The items published together under key k.
Batch(k) == {x \in mem.pending : x.key = k}

Leads(x) == x.key = x.id

BaseOf(p) == IF mem.files[p] = None THEN None ELSE mem.files[p].version

BaseRevOf(p) == IF mem.files[p] = None THEN mem.rev ELSE mem.files[p].rev

NewItem(p, c, origin, status) ==
  [id |-> ids + 1, root |-> ids + 1, path |-> p, content |-> c, origin |-> origin,
   base |-> BaseOf(p), baseRev |-> BaseRevOf(p), key |-> 0, status |-> status,
   proposed |-> FALSE, attempted |-> FALSE, outcome |-> "none"]

DrawsId == ids < MaxId /\ ids' = ids + 1

(***************************************************************************)
(* Local changes.                                                          *)
(***************************************************************************)
\* The unsubmitted write of p, which a new write replaces.
Unsubmitted(p) ==
  {x \in mem.pending : /\ x.path = p /\ x.content # None
                       /\ x.key = 0 /\ ~x.proposed}

\* The change a new one replaces, if there is one.
Previous(p) ==
  IF Unsubmitted(p) = {} THEN {{}} ELSE {{x} : x \in Unsubmitted(p)}

\* A mutant: the last writer's origin.
OriginOfLast(previous, origin) == origin

\* A human's change to what an agent wrote stays the agent's.
OriginOf(previous, origin) ==
  LET before == {x.origin : x \in previous} IN
  IF "agent" \in before \union {origin} THEN "agent"
  ELSE IF "unknown" \in before THEN "unknown"
  ELSE origin

\* write: one item per unsubmitted change, on the base of the first; it is held
\* when a human could not have it published as it stands.
WriteItem(p, c, origin, previous) ==
  LET new == NewItem(p, c, OriginOf(previous, origin), "pending")
      old == CHOOSE x \in previous : TRUE
      based == IF previous = {} THEN new
               ELSE [new EXCEPT !.base = old.base, !.baseRev = old.baseRev]
      free == /\ based.origin = "human"
              /\ based.baseRev # 0
              /\ \A x \in mem.pending \ previous : x.path # p
  IN IF free THEN based ELSE [based EXCEPT !.status = "held"]

Made(c) == c \notin made /\ made' = made \union {c}

\* A change carries an agent's work on: that of the change it replaces or, when it
\* replaces none, of the file.
CarriesOn(p, previous) ==
  IF previous = {} THEN disk[p] \in tainted
                   ELSE \E x \in previous : x.content \in tainted

\* Nobody will look at the file again before it is replaced or removed.
Exposed(p) ==
  p \in removing \/ (sync.stage \in {"write", "trash"} /\ sync.path = p)

Saved(p, c) ==
  /\ disk' = [disk EXCEPT ![p] = c]
  /\ latest' = [latest EXCEPT ![p] = c]
  /\ raced' = IF Exposed(p) THEN raced \union {c} ELSE raced

\* The journal first, the file afterwards; either may fail.
UserWrite(p, c, origin) ==
  \E previous \in Previous(p) :
    LET m == Swap(mem, previous, {WriteItem(p, c, origin, previous)}) IN
    /\ sync.stage = "rest"
    /\ Made(c)
    /\ DrawsId
    /\ tainted' = IF origin = "agent" \/ CarriesOn(p, previous)
                    THEN tainted \union {c} ELSE tainted
    /\ Records(m, AtRest)
    /\ \/ journal' = m /\ Saved(p, c)
       \/ UNCHANGED <<disk, latest, raced>>
    /\ UNCHANGED <<workspace, removing>>

\* remove: mutation("delete") records the deletion, unless it is recorded already,
\* and then the adapter removes the file; the mutation may fail.  (One removal of a
\* file at a time.)
UserDelete(p) ==
  LET held == Touched(p) \/ mem.rev = 0 \/ mem.files[p] = None
      m == Put(mem, NewItem(p, None, "human",
                            IF held THEN "held" ELSE "pending"))
      removes == /\ removing' = removing \union {p}
                 /\ latest' = [latest EXCEPT ![p] = None]
  IN
  /\ sync.stage = "rest"
  /\ disk[p] # None /\ p \notin removing
  /\ IF \E x \in mem.pending : x.path = p /\ x.content = None
       THEN removes /\ UNCHANGED <<mem, journal, sync, ids>>
       ELSE /\ DrawsId
            /\ Records(m, AtRest)
            /\ (journal' = m /\ removes) \/ UNCHANGED <<removing, latest>>
  /\ UNCHANGED <<workspace, disk, made, tainted, raced>>

\* The adapter's own removal is outside the serialization: whatever the file is by
\* then, it is removed, or that fails.
RemoveFile(p) ==
  /\ p \in removing
  /\ removing' = removing \ {p}
  /\ disk' \in {disk, [disk EXCEPT ![p] = None]}
  /\ UNCHANGED <<workspace, mem, journal, sync, ids, history>>

\* An editor outside the adapter, at any time.
ExternalEdit(p, c) ==
  /\ Made(c)
  /\ Saved(p, c)
  /\ UNCHANGED <<workspace, removing, mem, journal, sync, ids, tainted>>

(***************************************************************************)
(* The server.                                                             *)
(***************************************************************************)
OtherClient(p, c) ==
  /\ Newest < MaxRevision
  /\ line[Newest][p] # c
  /\ IF c = None THEN UNCHANGED made ELSE Made(c)
  /\ line' = Append(line, [line[Newest] EXCEPT ![p] = c])
  /\ UNCHANGED <<intents, disk, removing, mem, journal, sync, ids, tainted, latest, raced>>

\* It is for this base, and names no file twice.
Fits(k) ==
  LET changes == intents[k].changes IN
  /\ \A x \in changes : line[Newest][x.path] = x.base
  /\ \A x, y \in changes : x.path = y.path => x = y

After(k) ==
  [p \in Path |->
     IF \E x \in intents[k].changes : x.path = p
       THEN (CHOOSE x \in intents[k].changes : x.path = p).content
       ELSE line[Newest][p]]

IntentIs(k, states) == intents[k] # None /\ intents[k].state \in states

DecideIntent(k) ==
  /\ IntentIs(k, {"pending"})
  /\ \/ /\ Fits(k)
        /\ Newest < MaxRevision
        /\ line' = Append(line, After(k))
        /\ intents' = [intents EXCEPT ![k].state = "applied"]
     \/ /\ ~Fits(k)
        /\ intents' = [intents EXCEPT ![k].state = "refused"]
        /\ UNCHANGED line
  /\ UNCHANGED <<disk, removing, mem, journal, sync, ids, history>>

RetireIntent(k) ==
  /\ IntentIs(k, {"ready", "pending"})
  /\ intents' = [intents EXCEPT ![k].state = "retired"]
  /\ UNCHANGED <<line, disk, removing, mem, journal, sync, ids, history>>


(***************************************************************************)
(* A pass: recoverProposals.                                               *)
(***************************************************************************)
StartSync ==
  /\ sync.stage = "rest"
  /\ sync' = [AtRest EXCEPT !.stage = "recover", !.rev = Newest,
                             !.ids = {x.id : x \in {y \in mem.pending : y.proposed}}]
  /\ UNCHANGED <<workspace, disk, removing, mem, journal, ids, history>>

\* acceptIntent: what the answer says of the whole batch.
Accepted(k, state) ==
  LET record(x) ==
        CASE state = "retired" -> [x EXCEPT !.outcome = "retired", !.status = "held"]
          [] state = "refused" -> [x EXCEPT !.outcome = "refused", !.status = "conflict"]
          [] state = "applied" -> [x EXCEPT !.outcome = "applied", !.status = "publishing"]
          [] OTHER -> [x EXCEPT !.outcome = "open", !.status = "publishing"]
  IN Swap(mem, Batch(k), {record(x) : x \in Batch(k)})

Marked(x, status) == Swap(mem, {x}, {[x EXCEPT !.status = status]})

Done(i) == [sync EXCEPT !.ids = @ \ {i}]

\* The status request of a publication that may have been carried out, and its
\* answer; the leader of a batch asks for all of it.
AskStatus(x) ==
  LET state == intents[x.key].state
      again == [Done(x.id) EXCEPT !.moved = TRUE]
  IN
  /\ x.attempted /\ x.outcome # "applied"
  /\ \/ ~Leads(x) /\ sync' = again /\ UNCHANGED <<mem, journal>>
     \/ /\ Leads(x)
        /\ Records(Accepted(x.key, state),
                   IF state = "ready"
                     THEN [again EXCEPT !.stage = "attempt", !.key = x.key,
                                        !.back = "recover"]
                   ELSE IF state = "applied" THEN [sync EXCEPT !.moved = TRUE]
                   ELSE again)
     \/ Leads(x) /\ Records(Marked(x, "publishing"), again)
  /\ UNCHANGED <<workspace, disk, removing, ids, history>>

\* The receipt is inspected: the local file is known to be what was published.
ConfirmApplied(x) ==
  LET row == IF mem.files[x.path] # None
               THEN [mem.files[x.path] EXCEPT !.local = x.content]
               ELSE [version |-> None, local |-> x.content, rev |-> x.baseRev]
      known == IF x.content = None THEN mem
               ELSE [mem EXCEPT !.files[x.path] = row]
  IN
  /\ x.outcome = "applied"
  /\ Records(Swap(known, {x}, {}), Done(x.id))
  /\ UNCHANGED <<workspace, disk, removing, ids, history>>

\* A proposal that was recorded, and its submission not attempted.
ResumeProposal(x) ==
  /\ ~x.attempted
  /\ \/ /\ x.status = "review"
        /\ sync' = IF Leads(x)
                     THEN [Done(x.id) EXCEPT !.stage = "attempt", !.key = x.key,
                                             !.moved = TRUE]
                     ELSE Done(x.id)
        /\ UNCHANGED <<mem, journal>>
     \/ /\ x.status # "review"
        /\ Records(Marked(x, "review"), Done(x.id))
  /\ UNCHANGED <<workspace, disk, removing, ids, history>>

\* Neither the proposal nor its closed form can be inspected.
InspectionFails(x) ==
  /\ ~x.attempted \/ x.outcome = "applied"
  /\ Records(Marked(x, "held"), Done(x.id))
  /\ UNCHANGED <<workspace, disk, removing, ids, history>>

RecoverItem ==
  /\ sync.stage = "recover"
  /\ \E i \in sync.ids : LET x == ItemOf(i) IN
       AskStatus(x) \/ ConfirmApplied(x) \/ ResumeProposal(x) \/ InspectionFails(x)

(***************************************************************************)
(* submitIntent: the attempt is recorded, then requested.                  *)
(***************************************************************************)
RecordAttempt ==
  /\ sync.stage = "attempt"
  /\ Records(Swap(mem, Batch(sync.key),
                  {[x EXCEPT !.attempted = TRUE, !.status = "publishing"] :
                     x \in Batch(sync.key)}),
             [sync EXCEPT !.stage = "submit"])
  /\ UNCHANGED <<workspace, disk, removing, ids, history>>

Requested(k) ==
  IF IntentIs(k, {"ready"}) THEN [intents EXCEPT ![k].state = "pending"] ELSE intents

GoesBack == [sync EXCEPT !.stage = IF sync.back = "rest" THEN "recover" ELSE sync.back,
                         !.key = 0, !.back = "rest"]

SubmitIntent ==
  /\ sync.stage = "submit"
  /\ \/ /\ intents' = Requested(sync.key)
        /\ Records(Accepted(sync.key, intents'[sync.key].state), GoesBack)
     \/ /\ intents' \in {intents, Requested(sync.key)}
        /\ sync' = IF sync.back = "rest" THEN AtRest ELSE GoesBack
        /\ UNCHANGED <<mem, journal>>
  /\ UNCHANGED <<line, disk, removing, ids, history>>

\* A mutant: the revision negotiated before the recovery is kept.
RevisionBefore == sync.rev

\* It is negotiated again when a publication may have advanced the workspace.
RevisionToList == IF sync.moved THEN Newest ELSE sync.rev

\* The complete inventory of one revision.
ListInventory ==
  /\ sync.stage = "recover" /\ sync.ids = {}
  /\ mem' = [mem EXCEPT !.listed = RevisionToList]
  /\ sync' = [AtRest EXCEPT !.stage = "reconcile", !.rev = RevisionToList,
                             !.paths = Path]
  /\ UNCHANGED <<workspace, disk, removing, journal, ids, history>>

(***************************************************************************)
(* reconcile, one file of the inventory after the other.                   *)
(***************************************************************************)
Passed(p) == [sync EXCEPT !.stage = "reconcile", !.paths = @ \ {p}, !.path = None,
                          !.found = None]

LocalOf(p) == IF mem.files[p] = None THEN None ELSE mem.files[p].local

\* The local file is kept as a conflict.
Conflict(p, c) ==
  LET row == mem.files[p] IN
  [NewItem(p, c, "unknown", IF c = None THEN "held" ELSE "conflict") EXCEPT
     !.baseRev = IF row = None THEN 0 ELSE row.rev]

HoldLocal(p, next) ==
  /\ DrawsId
  /\ Records(Put(mem, Conflict(p, disk[p])), next)
  /\ UNCHANGED <<workspace, disk, removing, history>>

Known(p) == [mem EXCEPT !.files[p] =
               [version |-> line[sync.rev][p], local |-> line[sync.rev][p],
                rev |-> sync.rev]]

Forgotten(p) == [mem EXCEPT !.files[p] = None]

\* Of what the revision does not have, a file that was not touched goes to the trash.
ReconcileDeleted(p) ==
  /\ line[sync.rev][p] = None
  /\ ~Touched(p)
  /\ \/ LocalOf(p) # None /\ disk[p] \notin {None, LocalOf(p)} /\ HoldLocal(p, Passed(p))
     \/ /\ LocalOf(p) # None /\ disk[p] = LocalOf(p)
        /\ sync' = [sync EXCEPT !.stage = "trash", !.path = p, !.found = disk[p]]
        /\ UNCHANGED <<workspace, disk, removing, mem, journal, ids, history>>
     \/ /\ LocalOf(p) = None \/ disk[p] = None
        /\ mem' = Forgotten(p)
        /\ sync' = Passed(p)
        /\ UNCHANGED <<workspace, disk, removing, journal, ids, history>>

ReconcileActive(p) ==
  LET entry == line[sync.rev][p] IN
  /\ entry # None
  /\ ~Touched(p)
  /\ \/ disk[p] \notin {None, LocalOf(p), entry} /\ HoldLocal(p, Passed(p))
     \/ /\ disk[p] = entry
        /\ Records(Known(p), Passed(p))
        /\ UNCHANGED <<workspace, disk, removing, ids, history>>
     \/ /\ disk[p] # entry /\ disk[p] \in {None, LocalOf(p)}
        /\ sync' = [sync EXCEPT !.stage = "download", !.path = p, !.found = disk[p]]
        /\ UNCHANGED <<workspace, disk, removing, mem, journal, ids, history>>

SkipTouched(p) ==
  /\ Touched(p)
  /\ sync' = Passed(p)
  /\ UNCHANGED <<workspace, disk, removing, mem, journal, ids, history>>

ReconcilePath ==
  /\ sync.stage = "reconcile"
  /\ \E p \in sync.paths : ReconcileDeleted(p) \/ ReconcileActive(p) \/ SkipTouched(p)

\* A mutant: the file is not read again.
DownloadBlind ==
  /\ sync.stage = "download"
  /\ sync' = [sync EXCEPT !.stage = "write"]
  /\ UNCHANGED <<workspace, disk, removing, mem, journal, ids, history>>

\* The bytes have arrived; the file is read again before it is replaced.
RecheckLocal ==
  /\ sync.stage = "download"
  /\ IF disk[sync.path] = sync.found
       THEN /\ sync' = [sync EXCEPT !.stage = "write"]
            /\ UNCHANGED <<workspace, disk, removing, mem, journal, ids, history>>
       ELSE HoldLocal(sync.path, Passed(sync.path))

\* The bytes are written; when the session has changed meanwhile, the pass ends
\* before that is known of the file.
WriteFile ==
  LET p == sync.path IN
  /\ sync.stage = "write"
  /\ disk' = [disk EXCEPT ![p] = line[sync.rev][p]]
  /\ \/ Records(Known(p), Passed(p))
     \/ sync' = AtRest /\ UNCHANGED <<mem, journal>>
  /\ UNCHANGED <<workspace, removing, ids, history>>

\* The file is in the local trash; it was read and hashed before, not again.
TrashFile ==
  LET p == sync.path IN
  /\ sync.stage = "trash"
  /\ disk' = [disk EXCEPT ![p] = None]
  /\ mem' = Forgotten(p)
  /\ sync' = Passed(p)
  /\ UNCHANGED <<workspace, removing, journal, ids, history>>

Retired == {x \in mem.pending : x.outcome = "retired"}

EndReconcile ==
  /\ sync.stage = "reconcile" /\ sync.paths = {}
  /\ mem' = [mem EXCEPT !.rev = sync.rev]
  /\ sync' = [sync EXCEPT !.stage = "settle", !.paths = Path,
                          !.ids = {x.id : x \in Retired}]
  /\ UNCHANGED <<workspace, disk, removing, journal, ids, history>>

(***************************************************************************)
(* captureUntracked, continueRetired.                                      *)
(***************************************************************************)
\* No revision up to the listed one names the path, nor does the checkpoint.
Untracked(p) ==
  /\ disk[p] # None
  /\ mem.files[p] = None
  /\ \A n \in 1..sync.rev : line[n][p] = None
  /\ ~Touched(p)

CapturePath ==
  /\ sync.stage = "settle"
  /\ \E p \in sync.paths :
       LET next == [sync EXCEPT !.paths = @ \ {p}] IN
       IF Untracked(p)
         THEN HoldLocal(p, next)
         ELSE sync' = next /\ UNCHANGED <<workspace, disk, removing, mem, journal, ids, history>>

\* The change without its submission, as a new change.
Fresh(x) == [x EXCEPT !.id = ids + 1, !.key = 0, !.proposed = FALSE,
                      !.attempted = FALSE, !.outcome = "none", !.status = "pending"]

OnSameBase(x) ==
  x.baseRev = sync.rev /\ (x.base = None \/ line[sync.rev][x.path] = x.base)

\* A retired publication is continued on an unchanged base only.
ContinueRetired ==
  /\ sync.stage = "settle" /\ sync.paths = {}
  /\ \E i \in sync.ids : LET x == ItemOf(i) IN
       IF OnSameBase(x)
         THEN DrawsId /\ Records(Swap(mem, {x}, {Fresh(x)}), Done(i))
         ELSE /\ mem' = Marked(x, "conflict")
              /\ sync' = Done(i)
              /\ UNCHANGED <<journal, ids>>
  /\ UNCHANGED <<workspace, disk, removing, history>>

EndSettle ==
  /\ sync.stage = "settle" /\ sync.paths = {} /\ sync.ids = {}
  /\ Records(mem, [sync EXCEPT !.stage = "propose",
                     !.ids = {x.id : x \in {y \in mem.pending : y.status = "pending"}}])
  /\ UNCHANGED <<workspace, disk, removing, ids, history>>

(***************************************************************************)
(* propose: the changes on one base become one proposal; its key is        *)
(* recorded before it is requested.                                        *)
(***************************************************************************)
BatchWith(x) ==
  IF x.content = None THEN {x}
  ELSE {y \in mem.pending : /\ y.content # None /\ y.origin = "human"
                            /\ y.status = "pending" /\ y.key = 0
                            /\ y.baseRev = x.baseRev}

ProposeItem(x) ==
  LET next == Done(x.id)
      dispatch == [next EXCEPT !.stage = "dispatch", !.key = x.id]
      keyed == {[y EXCEPT !.key = x.id] : y \in BatchWith(x)}
  IN
  /\ \/ /\ x.status # "pending" \/ x.key \notin {0, x.id}
        /\ sync' = next /\ UNCHANGED <<mem, journal>>
     \/ /\ x.status = "pending" /\ x.key = 0
        /\ sync.rev \notin {0, x.baseRev}
        /\ Records(Marked(x, "conflict"), next)
     \/ /\ x.status = "pending" /\ x.key = 0
        /\ sync.rev \in {0, x.baseRev}
        /\ Records(Swap(mem, BatchWith(x), keyed), dispatch)
     \/ /\ x.status = "pending" /\ x.key = x.id
        /\ sync' = dispatch /\ UNCHANGED <<mem, journal>>
  /\ UNCHANGED <<workspace, disk, removing, ids, history>>

Propose ==
  /\ sync.stage = "propose"
  /\ \E i \in sync.ids : ProposeItem(ItemOf(i))

ChangesOf(batch) ==
  {[root |-> x.root, path |-> x.path, content |-> x.content, base |-> x.base] : x \in batch}

Proposed(k) ==
  IF intents[k] # None THEN intents
  ELSE [intents EXCEPT ![k] = [state |-> "ready", changes |-> ChangesOf(Batch(k))]]

\* The transfer and the proposal under one idempotency key: recorded, refused, or
\* no answer is heard, and they will be requested again.  What the server has under
\* the key must be the batch as it is.
DispatchProposal ==
  LET k == sync.key
      next == [sync EXCEPT !.stage = "propose", !.key = 0]
  IN
  /\ sync.stage = "dispatch"
  /\ \/ /\ intents[k] # None => intents[k].changes = ChangesOf(Batch(k))
        /\ intents' = Proposed(k)
        /\ Records(Swap(mem, Batch(k), {[x EXCEPT !.proposed = TRUE, !.status = "review"] :
                                          x \in Batch(k)}),
                   [next EXCEPT !.stage = "attempt", !.key = k, !.back = "propose"])
     \/ /\ intents' \in {intents, Proposed(k)}
        /\ sync' = next /\ UNCHANGED <<mem, journal>>
     \/ /\ sync.rev # 0
        /\ UNCHANGED intents
        /\ \E status \in {"conflict", "held"} : Records(Marked(ItemOf(k), status), next)
  /\ UNCHANGED <<line, disk, removing, ids, history>>

EndSync ==
  /\ sync.stage = "propose" /\ sync.ids = {}
  /\ sync' = AtRest
  /\ UNCHANGED <<workspace, disk, removing, mem, journal, ids, history>>

(***************************************************************************)
(* prepareRecovery: a person chooses to publish a kept change on the base  *)
(* that was listed last.                                                   *)
(***************************************************************************)
Undecided(x) == x.attempted /\ x.outcome \in {"none", "open", "applied"}

\* A mutant: only what the server has applied is refused.
RecoverableAnyway(x) ==
  /\ x.outcome # "applied"
  /\ x.origin # "agent"
  /\ mem.rev # 0

Recoverable(x) ==
  /\ ~Undecided(x)
  /\ x.proposed => x.outcome # "none"
  /\ x.origin # "agent"
  /\ mem.rev # 0

PrepareRecovery(x) ==
  LET observed == line[mem.listed][x.path]
      copy == [Fresh(x) EXCEPT !.origin = "human", !.base = observed,
                               !.baseRev = mem.rev]
  IN
  /\ sync.stage = "rest"
  /\ Recoverable(x)
  /\ x.content # None \/ observed # None
  /\ DrawsId
  /\ Records(Swap(mem, {x}, {copy}),
             [AtRest EXCEPT !.stage = "propose", !.ids = {copy.id}])
  /\ UNCHANGED <<workspace, disk, removing, history>>

\* A request fails, the vault locks, or the session changes.
EndEarly ==
  /\ sync.stage # "rest"
  /\ sync' = AtRest
  /\ UNCHANGED <<workspace, disk, removing, mem, journal, ids, history>>

\* The plugin stops and starts again: the journal is restored.
Restart ==
  /\ mem' = journal
  /\ sync' = AtRest
  /\ removing' = {}
  /\ UNCHANGED <<workspace, disk, journal, ids, history>>

Syncing ==
  \/ StartSync \/ RecoverItem \/ RecordAttempt \/ SubmitIntent
  \/ ListInventory \/ ReconcilePath \/ RecheckLocal \/ WriteFile
  \/ TrashFile \/ EndReconcile
  \/ CapturePath \/ ContinueRetired \/ EndSettle
  \/ Propose \/ DispatchProposal \/ EndSync
  \/ EndEarly \/ Restart

Editing ==
  \/ \E p \in Path, c \in Content :
       ExternalEdit(p, c) \/ \E o \in {"human", "agent"} : UserWrite(p, c, o)
  \/ \E p \in Path : UserDelete(p) \/ RemoveFile(p)
  \/ \E x \in mem.pending : PrepareRecovery(x)

Serving ==
  \/ \E p \in Path, c \in Image : OtherClient(p, c)
  \/ \E k \in Id : DecideIntent(k) \/ RetireIntent(k)

ReplicaNext == Syncing \/ Editing \/ Serving

ReplicaSpec == ReplicaInit /\ [][ReplicaNext]_rvars

(***************************************************************************)
(* Properties.                                                             *)
(***************************************************************************)
\* What the user saved last in a file is never lost: it stays in the file until it
\* is in a revision, whatever the server and other clients do and wherever a pass
\* ends.  (Not so what is saved between the last look at a file and its replacement,
\* its removal to the trash or, once a deletion is recorded, its removal: nothing
\* looks again.)
EditsAreKept ==
  \A p \in Path :
    latest[p] = None \/ disk[p] = latest[p] \/ latest[p] \in Stored \/ latest[p] \in raced

\* A change is carried out once at most, although its requests are repeated, its
\* answers lost and the change itself proposed again under another key.
PublishedOnce ==
  \A j, k \in Id :
    j # k /\ IntentIs(j, {"applied"}) /\ IntentIs(k, {"applied"}) =>
      \A x \in intents[j].changes, y \in intents[k].changes : x.root # y.root

\* The work of a local agent is never proposed as a person's: not after a restart
\* and not when a person changes it further.  (A person's change of the file that
\* replaces another pending change than the agent's is taken for the person's.)
AgentWorkIsHeld ==
  \A k \in Id : intents[k] # None =>
    \A x \in intents[k].changes : x.content \notin tainted

\* A pass never replaces a local file by an older revision of it, and never removes
\* one that a later revision has.
NeverRollsBack ==
  [][LET p == sync.path IN
     sync.stage \in {"write", "trash"} /\ disk'[p] # disk[p] /\ disk[p] \in Stored =>
       \E n \in 1..sync.rev : line[n][p] = disk[p]]_<<disk, sync>>
===============================================================================
