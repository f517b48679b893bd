---------------------------- MODULE VaultKeyRotation ----------------------------
(***************************************************************************)
(* The rotation of a vault's key (lambda/reencryption/handler.ts): a job   *)
(* takes the rotation lease, prepares a new key, re-encrypts every file    *)
(* one by one, and makes the new key the active one; when a step fails it  *)
(* re-encrypts what it has done back to the old key.  Clients write with   *)
(* the key of a lease they took earlier, under the writer side of the same *)
(* fence (shared/rotation-fence.ts).                                       *)
(*                                                                         *)
(* A job is delivered at least once, possibly twice at a time, and a       *)
(* delivery may throw or die between any two steps.                        *)
(***************************************************************************)
EXTENDS Naturals

CONSTANTS
  File,
  Job,      \* re-encryption job ids
  Rotator,  \* deliveries of jobs at work at a time
  Client,   \* clients that write
  MaxKey,   \* bound on the keys made
  None      \* no one, nothing

ASSUME RotationAssumption == MaxKey \in Nat /\ None \notin Job \union Client \union Nat

VARIABLES
  dek,     \* the key each file is encrypted with
  stamp,   \* vaultguard-key-id of each file
  keyRow,  \* status of the KEY# rows
  active,  \* keyId of the ACTIVE row
  made,    \* the newest key KMS has made
  lessee,  \* rotationOwner
  permit,  \* writerOwner
  run,     \* the local state of each delivery
  lease,   \* the key of each client's lease
  put,     \* the local state of each client's write
  twins,   \* jobs that two deliveries have worked on at a time (history)
  retired, \* keys that a job reported as completed has replaced (history)
  stale    \* files last written with a key that was not active (history)

files == <<dek, stamp, stale>>
keys == <<keyRow, active, made>>
clients == <<permit, lease, put>>
rvars == <<dek, stamp, keyRow, active, made, lessee, permit, run, lease, put,
           twins, retired, stale>>

\* Key 0 is active from the start; keys are numbered as they are made.
Key == 0..MaxKey

\* Waiting for a job; job begun; lease held; old key resolved; new key stored and
\* files being re-encrypted; every file done; key committed; undoing; giving back
\* the lease.
Stage == {"idle", "started", "leased", "resolved", "rewriting", "rewritten",
          "committed", "undoing", "releasing"}

\* The stages in which a delivery relies on the lease.
Leased == Stage \ {"idle", "started", "releasing"}

Delivery ==
  [stage : Stage, job : Job \union {None}, old : Key, new : Key, previous : Key,
   todo : SUBSET File, done : SUBSET File, failed : BOOLEAN]

Resting ==
  [stage |-> "idle", job |-> None, old |-> 0, new |-> 0, previous |-> 0,
   todo |-> {}, done |-> {}, failed |-> FALSE]

Put == [stage : {"idle", "permitted", "keyed"}, file : File \union {None},
        stamp : Key \union {None}]

NoPut == [stage |-> "idle", file |-> None, stamp |-> None]

RotationTypeOK ==
  /\ dek \in [File -> Key]
  /\ stamp \in [File -> Key \union {None}]
  /\ keyRow \in [Key -> {"none", "prepared", "active-key-record", "rotated"}]
  /\ active \in Key
  /\ made \in Key
  /\ lessee \in Job \union {None}
  /\ permit \in Client \union {None}
  /\ run \in [Rotator -> Delivery]
  /\ lease \in [Client -> Key]
  /\ put \in [Client -> Put]
  /\ twins \subseteq Job
  /\ retired \subseteq Key
  /\ stale \subseteq File

RotationInit ==
  /\ dek = [f \in File |-> 0]
  /\ stamp = [f \in File |-> 0]
  /\ keyRow = [k \in Key |-> "none"]
  /\ active = 0
  /\ made = 0
  /\ lessee = None
  /\ permit = None
  /\ run = [v \in Rotator |-> Resting]
  /\ lease = [c \in Client |-> 0]
  /\ put = [c \in Client |-> NoPut]
  /\ twins = {}
  /\ retired = {}
  /\ stale = {}

At(v, stage) == run[v].stage = stage

Goes(v, stage) == run' = [run EXCEPT ![v].stage = stage]

\* The delivery is over but for its finally block.
Leaves(v) ==
  run' = [run EXCEPT ![v] = [Resting EXCEPT !.stage = "releasing", !.job = run[v].job]]

(***************************************************************************)
(* executeReEncryptionJob                                                  *)
(***************************************************************************)
Deliver(v, j) ==
  /\ At(v, "idle")
  /\ run' = [run EXCEPT ![v] = [Resting EXCEPT !.stage = "started", !.job = j]]
  /\ twins' = IF \E u \in Rotator : run[u].job = j THEN twins \union {j} ELSE twins
  /\ UNCHANGED <<files, keys, lessee, clients, retired>>

\* A mutant: the writer side is not looked at.
AcquireOverWriter(v) ==
  /\ At(v, "started")
  /\ lessee \in {None, run[v].job}
  /\ lessee' = run[v].job
  /\ Goes(v, "leased")
  /\ UNCHANGED <<files, keys, clients, twins, retired>>

\* acquireRotationLease: free or its own, and no writer.  Busy is an error.
AcquireLease(v) ==
  /\ At(v, "started")
  /\ lessee \in {None, run[v].job}
  /\ permit = None
  /\ lessee' = run[v].job
  /\ Goes(v, "leased")
  /\ UNCHANGED <<files, keys, clients, twins, retired>>

\* resolveOldScopeKey: the active key
ResolveOldKey(v) ==
  /\ At(v, "leased")
  /\ run' = [run EXCEPT ![v].stage = "resolved", ![v].old = active]
  /\ UNCHANGED <<files, keys, lessee, clients, twins, retired>>

\* A mutant: the key is stored when it is committed.
PrepareUnstored(v) ==
  /\ At(v, "resolved")
  /\ made < MaxKey
  /\ made' = made + 1
  /\ run' = [run EXCEPT ![v].stage = "rewriting", ![v].new = made + 1,
                        ![v].previous = active, ![v].todo = File]
  /\ UNCHANGED <<files, keyRow, active, lessee, clients, twins, retired>>

\* prepareRotatedScopeDataKey: ACTIVE is read again, and the new key is stored
\* before any file is encrypted with it.  Then the files are listed.
PrepareKey(v) ==
  /\ At(v, "resolved")
  /\ made < MaxKey
  /\ made' = made + 1
  /\ keyRow' = [keyRow EXCEPT ![made + 1] = "prepared"]
  /\ run' = [run EXCEPT ![v].stage = "rewriting", ![v].new = made + 1,
                        ![v].previous = active, ![v].todo = File]
  /\ UNCHANGED <<files, active, lessee, clients, twins, retired>>

\* A mutant: the old metadata is spread last.
RewriteSpread(f, from, to) ==
  /\ dek[f] = from
  /\ dek' = [dek EXCEPT ![f] = to]
  /\ stale' = stale \ {f}
  /\ UNCHANGED stamp

\* reEncryptFileWithRetry: f goes from one key to another, in one step because
\* the PUT is conditional on the ETag of the GET.  What cannot be decrypted with
\* the first key fails; so does a PUT whose answer was lost, because the attempt
\* after it meets the new content.
Rewrite(f, from, to) ==
  /\ dek[f] = from
  /\ dek' = [dek EXCEPT ![f] = to]
  /\ stamp' = [stamp EXCEPT ![f] = to]
  /\ stale' = stale \ {f}

ReEncryptFile(v, f) ==
  LET r == run[v] IN
  /\ At(v, "rewriting")
  /\ f \in r.todo
  /\ \/ /\ Rewrite(f, r.old, r.new)
        /\ run' = [run EXCEPT ![v].todo = @ \ {f}, ![v].done = @ \union {f}]
     \/ /\ Rewrite(f, r.old, r.new) \/ UNCHANGED files
        /\ run' = [run EXCEPT ![v].todo = @ \ {f}, ![v].failed = TRUE]
  /\ UNCHANGED <<keys, lessee, clients, twins, retired>>

\* A mutant: a failed file is left for the next job.
FinishAnyway(v) ==
  /\ At(v, "rewriting")
  /\ run[v].todo = {}
  /\ Goes(v, "rewritten")
  /\ UNCHANGED <<files, keys, lessee, clients, twins, retired>>

\* One failed file undoes the others.
FinishFiles(v) ==
  /\ At(v, "rewriting")
  /\ run[v].todo = {}
  /\ Goes(v, IF run[v].failed THEN "undoing" ELSE "rewritten")
  /\ UNCHANGED <<files, keys, lessee, clients, twins, retired>>

\* The conditions of commitRotatedScopeDataKey's transaction.
Committable(v) ==
  /\ lessee = run[v].job
  /\ active = run[v].previous
  /\ keyRow[run[v].new] # "none"

\* Any error of the transaction, also one after it landed (its client token lets
\* the SDK repeat it, not a later delivery that has other parameters), undoes the
\* files.
CommitKey(v) ==
  /\ At(v, "rewritten")
  /\ \/ /\ Committable(v)
        /\ active' = run[v].new
        /\ keyRow' = [keyRow EXCEPT ![run[v].previous] = "rotated",
                                    ![run[v].new] = "active-key-record"]
        /\ Goes(v, "committed") \/ Goes(v, "undoing")
     \/ UNCHANGED <<active, keyRow>> /\ Goes(v, "undoing")
  /\ UNCHANGED <<files, made, lessee, clients, twins, retired>>

\* The roll-back of the files done; one that fails is left to recovery.
UndoFile(v, f) ==
  LET r == run[v] IN
  /\ At(v, "undoing")
  /\ f \in r.done
  /\ Rewrite(f, r.new, r.old) \/ UNCHANGED files
  /\ run' = [run EXCEPT ![v].done = @ \ {f}]
  /\ UNCHANGED <<keys, lessee, clients, twins, retired>>

\* finalizeReEncryptionStatus for one scope
Report(v) ==
  /\ \/ /\ At(v, "committed")
        /\ retired' = retired \union {run[v].old}
     \/ /\ At(v, "undoing")
        /\ run[v].done = {}
        /\ UNCHANGED retired
  /\ Leaves(v)
  /\ UNCHANGED <<files, keys, lessee, clients, twins>>

\* Any await outside a file's own try may throw, the progress update between two
\* files included: no file is undone.  The delivery is repeated later.
Throw(v) ==
  /\ run[v].stage \in Stage \ {"idle", "rewritten", "releasing"}
  /\ Leaves(v)
  /\ UNCHANGED <<files, keys, lessee, clients, twins, retired>>

\* The finally block; releaseRotationLease is conditional on the owner.
ReleaseLease(v) ==
  /\ At(v, "releasing")
  /\ lessee' = IF lessee = run[v].job THEN None ELSE lessee
  /\ run' = [run EXCEPT ![v] = Resting]
  /\ UNCHANGED <<files, keys, clients, twins, retired>>

Die(v) ==
  /\ ~At(v, "idle")
  /\ run' = [run EXCEPT ![v] = Resting]
  /\ UNCHANGED <<files, keys, lessee, clients, twins, retired>>

\* A lease lasts longer than a delivery: its deliveries are over.
ExpireLease ==
  /\ lessee # None
  /\ \A v \in Rotator : run[v].job # lessee
  /\ lessee' = None
  /\ UNCHANGED <<files, keys, clients, run, twins, retired>>

(***************************************************************************)
(* Clients: issueKeyLease, and handleWriteFile as far as keys go.          *)
(***************************************************************************)
\* readScopeDataKey asks for no consistent read: it may return an ACTIVE row that a
\* rotation has replaced since.
TakeLease(c) ==
  /\ \E k \in Key :
       /\ k = active \/ keyRow[k] = "rotated"
       /\ k # lease[c]
       /\ lease' = [lease EXCEPT ![c] = k]
  /\ UNCHANGED <<files, keys, lessee, permit, run, put, twins, retired>>

\* acquireVaultMutationPermit
BeginWrite(c, f) ==
  /\ put[c].stage = "idle"
  /\ permit = None
  /\ lessee = None
  /\ permit' = c
  /\ put' = [put EXCEPT ![c] = [stage |-> "permitted", file |-> f, stamp |-> None]]
  /\ UNCHANGED <<files, keys, lessee, lease, run, twins, retired>>

\* getActiveKeyIdForVault, or no stamp when it fails
ReadActiveKeyId(c) ==
  /\ put[c].stage = "permitted"
  /\ \E s \in {active, None} :
       put' = [put EXCEPT ![c].stage = "keyed", ![c].stamp = s]
  /\ UNCHANGED <<files, keys, lessee, permit, lease, run, twins, retired>>

\* The body the client encrypted goes to S3 under the stamp of the server.
WriteFile(c) ==
  LET f == put[c].file IN
  /\ put[c].stage = "keyed"
  /\ dek' = [dek EXCEPT ![f] = lease[c]]
  /\ stamp' = [stamp EXCEPT ![f] = put[c].stamp]
  /\ stale' = IF lease[c] = active THEN stale \ {f} ELSE stale \union {f}
  /\ put' = [put EXCEPT ![c] = NoPut]
  /\ permit' \in {permit, None}
  /\ UNCHANGED <<keys, lessee, lease, run, twins, retired>>

\* The write fails before S3; the permit is given back unless the request died.
FailWrite(c) ==
  /\ put[c].stage # "idle"
  /\ put' = [put EXCEPT ![c] = NoPut]
  /\ permit' \in {permit, None}
  /\ UNCHANGED <<files, keys, lessee, lease, run, twins, retired>>

ExpirePermit ==
  /\ permit # None
  /\ put[permit].stage = "idle"
  /\ permit' = None
  /\ UNCHANGED <<files, keys, lessee, lease, run, put, twins, retired>>

Rotating(v) ==
  \/ \E j \in Job : Deliver(v, j)
  \/ AcquireLease(v)
  \/ ResolveOldKey(v)
  \/ PrepareKey(v)
  \/ \E f \in File : ReEncryptFile(v, f)
  \/ FinishFiles(v)
  \/ CommitKey(v)
  \/ \E f \in File : UndoFile(v, f)
  \/ Report(v)
  \/ Throw(v)
  \/ ReleaseLease(v)
  \/ Die(v)

Writing(c) ==
  \/ TakeLease(c)
  \/ \E f \in File : BeginWrite(c, f)
  \/ ReadActiveKeyId(c)
  \/ WriteFile(c)
  \/ FailWrite(c)

RotationNext ==
  \/ \E v \in Rotator : Rotating(v)
  \/ \E c \in Client : Writing(c)
  \/ ExpireLease
  \/ ExpirePermit

RotationSpec == RotationInit /\ [][RotationNext]_rvars

(***************************************************************************)
(* Safety.                                                                 *)
(***************************************************************************)
\* Where lookupExactDekForVault and getActiveScopeDataKey find a key.
Stored(k) == k = active \/ keyRow[k] # "none"

\* RE1: key material is never lost.  Whatever crash, roll-back or lost answer a
\* rotation went through, the key of every file, of its stamp and of every
\* client's lease is stored.
KeysAreStored ==
  /\ \A f \in File : Stored(dek[f]) /\ (stamp[f] # None => Stored(stamp[f]))
  /\ \A c \in Client : Stored(lease[c])

\* acquireRotationLease: "a normal write can never pass the writer condition after
\* this returns", until it is released.  Two deliveries of one job, which share
\* the owner and so release each other's lease, are the exception.
FenceExcludes ==
  \A v \in Rotator, c \in Client :
    run[v].stage \in Leased /\ run[v].job \notin twins => put[c].stage = "idle"

\* A rotation reported as completed has retired its key: no file is under it again,
\* whatever later jobs, roll-backs and repeated deliveries do, except a file whose
\* writer still used a lease of an older key; nor when two deliveries of a job
\* overlapped, one of which may lose the lease to the end of the other.
RetiredIsUnused ==
  twins = {} => \A f \in File \ stale : dek[f] \notin retired

\* handleWriteFile: "annotate the object with the DEK keyId", so that the key of
\* every version can be found again.
StampsTellTheKey == \A f \in File : stamp[f] \in {dek[f], None}

\* A file a job rewrote tells the key it is encrypted with, so that it can be read
\* after the rotation: every stamp is true but those of writers with an old lease.
StampsAreTrue ==
  \A f \in File \ stale : stamp[f] \in {dek[f], None}

(***************************************************************************)
(* Why they hold: the parts of the inductive invariant.                    *)
(***************************************************************************)
\* The stages in which a delivery knows the old key, and the new one too.
KnowsOld == {"resolved", "rewriting", "rewritten", "committed", "undoing"}
KnowsNew == KnowsOld \ {"resolved"}

\* Every key a delivery works with is stored.
WorkKeysAreStored ==
  \A v \in Rotator :
    /\ run[v].stage \in KnowsOld => Stored(run[v].old)
    /\ run[v].stage \in KnowsNew => Stored(run[v].new)

\* The fence has one side, and whoever relies on it has it.
WritersHold ==
  \A c \in Client : put[c].stage # "idle" => put[c].file \in File /\ permit = c
OneSide == lessee = None \/ permit = None
RotatorsHold ==
  \A v \in Rotator :
    /\ run[v].stage # "idle" => run[v].job # None
    /\ run[v].stage \in Leased /\ run[v].job \notin twins => lessee = run[v].job
TwinsAreKnown ==
  \A u, v \in Rotator :
    u # v /\ run[u].job = run[v].job /\ run[u].job # None => run[u].job \in twins

\* A write at its last step has the stamp of the active key.
PutsAreStamped ==
  \A c \in Client : put[c].stage = "keyed" => put[c].stamp \in {active, None}

\* No key is active before it is made, and none comes back once retired; a
\* delivery in possession of the lease has not been overtaken.
KeysAreFresh ==
  /\ active <= made /\ active \notin retired
  /\ \A k \in retired : k <= made
  /\ \A v \in Rotator :
       /\ run[v].stage \in KnowsOld => run[v].old <= made /\ run[v].old \notin retired
       /\ run[v].stage \in KnowsNew =>
            /\ run[v].new <= made /\ run[v].new \notin retired
            /\ run[v].new # run[v].old

\* What a delivery has re-encrypted stays under its key to the end.
WorkIsKept ==
  \A v \in Rotator :
    /\ run[v].stage = "rewriting" /\ ~run[v].failed =>
         \A f \in File : f \in run[v].todo \/ dek[f] = run[v].new
    /\ run[v].stage \in {"rewritten", "committed"} =>
         \A f \in File : dek[f] = run[v].new
    /\ run[v].stage = "committed" => active = run[v].new

FenceInv == WritersHold /\ OneSide /\ RotatorsHold /\ TwinsAreKnown
===============================================================================
