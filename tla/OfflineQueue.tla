------------------------------ MODULE OfflineQueue ------------------------------
(***************************************************************************)
(* One device's changes of vault files on their way to the server: saves   *)
(* and deletions are requested at once when the device is online, and      *)
(* queued when they cannot be; a sync flushes the queue, then requests the *)
(* deletions that are still remembered by a tombstone.  Saves go on while  *)
(* a flush waits for the server, and any answer may be lost.               *)
(* (at-rest-adapter-runtime.ts: interceptedWrite, interceptedRemove;       *)
(* sync-runtime.ts: the queue, its flush and the tombstones.)              *)
(*                                                                         *)
(* The conflict strategy is the default one, ASK_USER.  The server and the *)
(* other devices are modelled by what the device relies on: a request      *)
(* that names a version is refused (409) when the file has another one.    *)
(***************************************************************************)
EXTENDS Naturals, FiniteSets

LOCAL INSTANCE Sequences

CONSTANTS
  File,         \* paths
  MaxSaves,     \* bound on the saves of the device
  MaxVersion,   \* bound on the versions the server gives
  Empty,        \* the saves that leave their file empty
  Foreign,      \* what another device wrote
  Nothing       \* no content, no operation

ASSUME QueueAssumption ==
  /\ MaxSaves \in Nat /\ MaxVersion \in Nat
  /\ Foreign # Nothing
  /\ {Foreign, Nothing} \cap Nat = {}

VARIABLES
  server,      \* the current version and content of each file
  versions,    \* how many versions the server has given
  local,       \* the local files
  known,       \* RemoteFileStateStore: the version of each file, 0 when absent
  queue,       \* operations to be flushed
  batch,       \* operations of the running flush, the first is requested
  tombstones,  \* deletionTombstones
  retrying,    \* tombstones the running sync has not requested yet
  conflicts,   \* syncState.conflicts
  user,        \* the save or deletion that waits for the server
  saves,       \* how many saves were made
  excluded,    \* files the user has excluded from the sync
  answered,    \* saves the server accepted, or the user was told about (history)
  forsaken     \* saves given up, at most with a line in the log (history)

remote == <<server, versions>>
fates == <<answered, forsaken>>
qvars == <<remote, local, known, queue, batch, tombstones, retrying, conflicts,
           user, saves, excluded, answered, forsaken>>

\* The n-th save makes content n.
Save == 1..MaxSaves

Version == 0..MaxVersion

\* guard is the version the request names; 0 is a declared create, and in a
\* deletion no guard at all.
Operation ==
  [kind : {"write", "delete"}, file : File, content : Save \union {Nothing},
   guard : Version]

QueueTypeOK ==
  /\ server \in [File -> [version : Version, content : Save \union {Foreign, Nothing}]]
  /\ versions \in Version
  /\ local \in [File -> Save \union {Nothing}]
  /\ known \in [File -> Version]
  /\ queue \in Seq(Operation)
  /\ batch \in Seq(Operation)
  /\ tombstones \subseteq File
  /\ retrying \subseteq File
  /\ conflicts \subseteq File
  /\ user \in Operation \union {Nothing}
  /\ saves \in 0..MaxSaves
  /\ excluded \subseteq File
  /\ answered \subseteq Save
  /\ forsaken \subseteq Save

QueueInit ==
  /\ server = [f \in File |-> [version |-> 0, content |-> Nothing]]
  /\ versions = 0
  /\ local = [f \in File |-> Nothing]
  /\ known = [f \in File |-> 0]
  /\ queue = <<>>
  /\ batch = <<>>
  /\ tombstones = {}
  /\ retrying = {}
  /\ conflicts = {}
  /\ user = Nothing
  /\ saves = 0
  /\ excluded = {}
  /\ answered = {}
  /\ forsaken = {}

(***************************************************************************)
(* The server.                                                             *)
(***************************************************************************)
\* The file is what the request says it is; a deletion that names no version is
\* carried out in any case, and one of an absent file is answered 404.
Meets(op) ==
  IF op.kind = "write" THEN server[op.file].version = op.guard
  ELSE server[op.file].version \in {0, op.guard} \/ op.guard = 0

NewVersion(f, c) ==
  /\ versions < MaxVersion
  /\ versions' = versions + 1
  /\ server' = [server EXCEPT ![f] = [version |-> versions + 1, content |-> c]]

Gone(f) ==
  /\ server' = [server EXCEPT ![f] = [version |-> 0, content |-> Nothing]]
  /\ UNCHANGED versions

CarriedOut(op) ==
  /\ Meets(op)
  /\ IF op.kind = "write" THEN NewVersion(op.file, op.content) ELSE Gone(op.file)

\* No answer is heard, or a transient failure is answered.
Unheard(op) == CarriedOut(op) \/ UNCHANGED remote

OtherDevice(f) ==
  /\ NewVersion(f, Foreign) \/ (server[f].version # 0 /\ Gone(f))
  /\ UNCHANGED <<local, known, queue, batch, tombstones, retrying, conflicts,
                 user, saves, excluded, fates>>

(***************************************************************************)
(* queueOfflineOperation: one operation per file; the version it will name *)
(* is the one that is known when it is queued.                             *)
(***************************************************************************)
\* filter: the operations of the other files, in their order.
Others(q, f) ==
  LET others[n \in 0..Len(q)] ==
        IF n = 0 THEN <<>>
        ELSE IF q[n].file = f THEN others[n - 1] ELSE Append(others[n - 1], q[n])
  IN  others[Len(q)]

Enqueued(op) == Append(Others(queue, op.file), [op EXCEPT !.guard = known[op.file]])

Knows(f, v) == known' = [known EXCEPT ![f] = v]

Contents(op) == IF op.kind = "write" THEN {op.content} ELSE {}

Answers(op) == answered' = answered \union Contents(op) /\ UNCHANGED forsaken

GivesUp(op) == forsaken' = forsaken \union Contents(op) /\ UNCHANGED answered

Kept(op) == local' = [local EXCEPT ![op.file] = op.content]

(***************************************************************************)
(* interceptedWrite and interceptedDelete.                                 *)
(***************************************************************************)
StartSave(f) ==
  /\ user = Nothing
  /\ f \notin excluded
  /\ saves < MaxSaves
  /\ saves' = saves + 1
  /\ user' = [kind |-> "write", file |-> f, content |-> saves + 1, guard |-> known[f]]
  /\ UNCHANGED <<remote, local, known, queue, batch, tombstones, retrying,
                 conflicts, excluded, fates>>

\* The tombstone is recorded before anything is requested.
StartRemove(f) ==
  /\ user = Nothing
  /\ f \notin excluded
  /\ local[f] # Nothing
  /\ user' = [kind |-> "delete", file |-> f, content |-> Nothing, guard |-> known[f]]
  /\ tombstones' = tombstones \union {f}
  /\ UNCHANGED <<remote, local, known, queue, batch, retrying, conflicts, saves,
                 excluded, fates>>

\* The user excludes a file from the sync (isPathExcluded); not taken back here.
Exclude(f) ==
  /\ f \notin excluded
  /\ excluded' = excluded \union {f}
  /\ UNCHANGED <<remote, local, known, queue, batch, tombstones, retrying,
                 conflicts, user, saves, fates>>

UserDone == user # Nothing /\ user' = Nothing

\* Success, or 404 to a deletion; then the local file.
UserAccepted ==
  /\ UserDone
  /\ CarriedOut(user)
  /\ Knows(user.file, server'[user.file].version)
  /\ Kept(user)
  /\ tombstones' = IF user.kind = "delete" THEN tombstones \ {user.file} ELSE tombstones
  /\ Answers(user)
  /\ UNCHANGED <<queue, batch, retrying, conflicts, saves, excluded>>

\* Offline, or a transient failure.
UserQueued ==
  /\ UserDone
  /\ Unheard(user)
  /\ queue' = Enqueued(user)
  /\ Kept(user)
  /\ UNCHANGED <<known, batch, tombstones, retrying, conflicts, saves, excluded, fates>>

\* handleRemoteWriteConflict: the current version is read and recorded, and the
\* conflict with it.
Recorded(f) ==
  /\ Knows(f, server[f].version)
  /\ conflicts' = conflicts \union {f}

\* 409 to a save: a create is written to the disk first; when the current version
\* cannot be read, the save ends in an error.
SaveConflicts ==
  /\ UserDone
  /\ user.kind = "write"
  /\ ~Meets(user)
  /\ IF user.guard = 0 THEN Kept(user) ELSE UNCHANGED local
  /\ Recorded(user.file) \/ UNCHANGED <<known, conflicts>>
  /\ Answers(user)
  /\ UNCHANGED <<remote, queue, batch, tombstones, retrying, saves, excluded>>

\* 409 to a deletion, or any other refusal: an error, nothing changes locally.
UserRefused ==
  /\ UserDone
  /\ UNCHANGED <<remote, local, known, queue, batch, tombstones, retrying,
                 conflicts, saves, excluded, fates>>

(***************************************************************************)
(* runOfflineQueueFlush, one flush at a time.                              *)
(***************************************************************************)
Flushing == batch # <<>>

StartFlush ==
  /\ ~Flushing /\ retrying = {}
  /\ queue # <<>>
  /\ batch' = queue
  /\ queue' = <<>>
  /\ UNCHANGED <<remote, local, known, tombstones, retrying, conflicts, user,
                 saves, excluded, fates>>

\* A mutant: the version that is known now.
GuardKnown(op) == known[op.file]

\* What the request of a queued operation names; a deletion that was queued
\* without a version takes the known one.
Guard(op) ==
  IF op.kind = "delete" /\ op.guard = 0 THEN known[op.file] ELSE op.guard

First == [Head(batch) EXCEPT !.guard = Guard(Head(batch))]

\* A mutant: what was queued meanwhile is replaced.
RequeueOver == batch

\* The operation and everything after it go back, behind what was queued
\* meanwhile.
Requeue == queue \o batch

Drops == batch' = Tail(batch) /\ UNCHANGED queue

Throws == queue' = Requeue /\ batch' = <<>>

\* What is dropped without a request: an operation on a file that was excluded
\* meanwhile, and a write that has no data.  (An exclusion while the request is on its
\* way comes too late for it, and is as if it came after.)
Skipped ==
  First.file \in excluded \/ (First.kind = "write" /\ First.content \in Empty)

FlushSkipped ==
  /\ Flushing
  /\ Skipped
  /\ GivesUp(First)
  /\ Drops
  /\ UNCHANGED <<remote, local, known, tombstones, retrying, conflicts, user, saves,
                 excluded>>

Replaying == Flushing /\ ~Skipped

FlushAccepted ==
  /\ Replaying
  /\ CarriedOut(First)
  /\ Knows(First.file, server'[First.file].version)
  /\ tombstones' = IF First.kind = "delete" THEN tombstones \ {First.file}
                   ELSE tombstones
  /\ Answers(First)
  /\ Drops
  /\ UNCHANGED <<local, retrying, conflicts, user, saves, excluded>>

FlushUnheard ==
  /\ Replaying
  /\ Unheard(First)
  /\ Throws
  /\ UNCHANGED <<local, known, tombstones, retrying, conflicts, user, saves, excluded, fates>>

\* 409 to a create: it is this device's own content (its answer was lost), or a
\* conflict is recorded; in both cases the operation is done with.
CreateConflicts ==
  /\ Replaying
  /\ First.kind = "write" /\ First.guard = 0
  /\ ~Meets(First)
  /\ IF server[First.file].content = First.content
       THEN Knows(First.file, server[First.file].version) /\ UNCHANGED conflicts
       ELSE Recorded(First.file)
  /\ Answers(First)
  /\ Drops
  /\ UNCHANGED <<remote, local, tombstones, retrying, user, saves, excluded>>

\* 409 to an update or a deletion: it is requeued.
UpdateConflicts ==
  /\ Replaying
  /\ ~Meets(First)
  /\ First.guard # 0
  /\ IF First.kind = "write" THEN Recorded(First.file) ELSE UNCHANGED <<known, conflicts>>
  /\ Answers(First)
  /\ Throws
  /\ UNCHANGED <<remote, local, tombstones, retrying, user, saves, excluded>>

\* 401, 403 or another permanent refusal: only logged (of a text), and never
\* requested again.
FlushRefused ==
  /\ Replaying
  /\ tombstones' = IF First.kind = "delete" THEN tombstones \ {First.file}
                   ELSE tombstones
  /\ GivesUp(First)
  /\ Drops
  /\ UNCHANGED <<remote, local, known, retrying, conflicts, user, saves, excluded>>

(***************************************************************************)
(* retryOutstandingDeletions, after the flush.                             *)
(***************************************************************************)
StartRetry ==
  /\ ~Flushing
  /\ retrying = {}
  /\ tombstones # {}
  /\ retrying' = tombstones
  /\ UNCHANGED <<remote, local, known, queue, batch, tombstones, conflicts, user,
                 saves, excluded, fates>>

\* Success, 404 or a refusal: the tombstone is cleared; so is that of an excluded
\* file, which is not requested.
RetrySettled(f) ==
  /\ f \in retrying
  /\ (f \notin excluded /\ Gone(f)) \/ UNCHANGED remote
  /\ tombstones' = tombstones \ {f}
  /\ retrying' = retrying \ {f}
  /\ UNCHANGED <<local, known, queue, batch, conflicts, user, saves, excluded, fates>>

\* No answer ends the loop, another failure leaves the tombstone.
RetryUnheard(f) ==
  /\ f \in retrying
  /\ f \notin excluded
  /\ \/ retrying' = {} /\ (Gone(f) \/ UNCHANGED remote)
     \/ retrying' = retrying \ {f} /\ UNCHANGED remote
  /\ UNCHANGED <<local, known, queue, batch, tombstones, conflicts, user, saves,
                 excluded, fates>>

QueueNext ==
  \/ \E f \in File : OtherDevice(f) \/ StartSave(f) \/ StartRemove(f) \/ Exclude(f)
  \/ UserAccepted \/ UserQueued \/ SaveConflicts \/ UserRefused
  \/ StartFlush \/ FlushSkipped \/ FlushAccepted \/ FlushUnheard
  \/ CreateConflicts \/ UpdateConflicts \/ FlushRefused
  \/ StartRetry
  \/ \E f \in File : RetrySettled(f) \/ RetryUnheard(f)

QueueSpec == QueueInit /\ [][QueueNext]_qvars

\* A save that is in a local file, and that the server has neither accepted nor the
\* device told the user about or given up, is on its way: it is queued, or in the
\* running flush, although saves and failing flushes overlap.  (Given up, without a
\* word to the user, are three kinds of queued saves: those that left the file empty,
\* those of a file excluded since, and those the server refuses for good.)
NothingIsForgotten ==
  \A f \in File :
    local[f] \in Save \ (answered \union forsaken) =>
      \/ \E i \in 1..Len(queue) : queue[i].content = local[f]
      \/ \E i \in 1..Len(batch) : batch[i].content = local[f]

\* A replay never undoes a later save of the same device, although a failed flush
\* puts older operations behind newer ones.
OldNeverReplacesNew ==
  [][\A f \in File :
       server[f].content \in Save /\ server'[f].content \in Save =>
         server[f].content <= server'[f].content]_server

\* A conflict that waits for the user is held: what the other device wrote is not
\* replaced by a save of this one (handleRemoteWriteConflict: "Both copies are HELD
\* ... the remote copy is untouched").
ConflictIsHeld ==
  [][\A f \in conflicts :
       server[f].content = Foreign => server'[f].content \notin Save]_<<server, conflicts>>
===============================================================================
