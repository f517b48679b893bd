# VaultGuard: the revision store and the vault file protocol in TLA+

VaultGuard keeps an Obsidian vault in S3 and DynamoDB behind AWS Lambda
handlers, and on each device as a plugin.  This directory models the parts of it
where several actors change shared state: Lambda invocations that interleave at
every `await`, requests whose answer is lost, scheduled workers that clean up
after invocations that died, and devices that follow the vault by polling.  The
modules are checked by TLC on small instances; for the revision store with its worker
and its outbox, the writes, the key rotation and the three admissions (sign-ins, the
authorization lease, the cohort route) TLAPS proves safety properties for every instance.

Paths below are relative to `src/packages/`; `lambda/` is
`server/infrastructure/lambda/`.

## 1. The system

### Server components

| component | state it keeps | operations | hard behaviour | what makes it correct |
|---|---|---|---|---|
| **Workspace revision store** `lambda/workspace-revisions/` (service, repository, s3-manifest-store) | per workspace: `HEAD`, `REVISION#…#PREPARED`, `REVISION#…#COMMITTED`, `EVENT#<n>`, `RECOVERY#<id>` rows; manifests in S3 | `prepare`, `publish`, `readCurrent`, `readCommitted` | the transaction that moves HEAD can land after its sender gave up; its answer can be lost; two publishers race on one base; recovery fences a publication that is still on its way | one line of revisions, outbox = the line, a settled row tells what happened, a conflict answered after a refused compare-and-set is final |
| **Recovery worker** `workspace-recovery/worker.ts`, `workspace-revisions/recovery.ts` | one cursor with a generation | page through the table, `settlePending` each row | races publishers; one failing row ends the page; overlapping or late invocations move the cursor | no due row is passed over; every pending row is settled |
| **Outbox delivery** `recovery.ts` `deliverNext` | a checkpoint per consumer | deliver next event | at-least-once after a crash between apply and checkpoint | events applied in order, none skipped |
| **File writes** `lambda/files/handler.ts`, `shared/utils.ts` | S3 object per path; `!INTENT#` rows, activity rows, vault `revision`; the permit row | `handleWriteFile`, `handleDeleteFile`, `reconcilePendingMutationIntents`, direct upload | S3 and DynamoDB share no transaction; a crash between the two; a lost S3 answer; concurrent reconcilers | no change without an activity row or a pending intent; the log in the order of S3; the counter counts the log |
| **Sync** `handleSync` | none of its own: log, listing, cursor of the vault | warm (log) and cold (listing) answers | a high-water mark taken between steps of a writer; eventually consistent queries; second-granular `LastModified` | a device's cursor never runs ahead of its data |
| **Rotation fence** `shared/rotation-fence.ts` | one row per vault: writer permit or rotation lease, with expiry | acquire and release of both | permit held by a dead owner; re-entrant lease | one writer at a time; no writer during a rotation |
| **Key rotation** `lambda/reencryption/handler.ts`, `shared/vault-crypto.ts` | ACTIVE and `KEY#` rows, job row, the key stamp of each object | plan, re-encrypt each file, roll back, commit | crash in the middle of a vault; lost PUT answer; two deliveries of one job | every stamped key is stored; a job reported complete left no file under the old key |
| **Cohort routing** `shared/workspace-cohort-control.ts`, `workspace-routing.ts` | one control row per workspace and one record per transition | admit a writer, transition under the rotation fence | the route is read before the permit is published; a transition's answer is lost or late | no file is written under a contract the vault has left; an operator is told the truth |
| **Authorization lease** `shared/authorization-mutation-lease.ts` | a lease row | acquire (then look for pending intents, page by page), release | a writer admitted before the lease announces its intent after it; expiry under a slow holder | one authorization change at a time |
| **Login permits** `shared/login-permit.ts`, `auth/human-verification.ts`, `auth/cognito-pre-authentication.ts` | budget, attempt and permit rows | count, open, verify, exchange, consume | retries after lost answers; counting and opening are separate writes | one verification admits one sign-in; the budget holds |
| **Revocation, connector OAuth, shares, audit, e-mail, metrics, direct sign-up and CRUD handlers** | single rows | create, update, delete | mostly single-item conditional updates | - |

### Plugin components

| component | state it keeps | hard behaviour |
|---|---|---|
| **Sync runtime** `plugin/sync-runtime.ts` | `lastSync`, `lastSeenRevision`, local files | failed deltas must hold the cursor back; the skip when the revision is unchanged |
| **Workspace sync runtime** `plugin/workspace-sync-runtime.ts` | a journal of pending changes, the known files, the checkpointed revision | lost publication answers, restarts in the middle of a pass, editors outside the adapter, an agent's edits |
| **Offline queue** `plugin/sync-runtime.ts`, `plugin/at-rest-adapter-runtime.ts` | a list of operations, deletion tombstones, the known versions | saves while a flush runs, a flush that fails half way, guards from before |
| **PIN lock, at-rest encryption** `crypto/pin-lock-manager.ts`, `plugin/main.ts` | two wrapped copies of the local key, the PIN's settings (attempts, back-off, pepper, posture), the key in memory | several files and one data.json that are changed one after the other, any save in between, dialogues and a curtain that overlap, the end of the application |
| **Recovery capsule** `plugin/local-recovery-capsule.ts` | capsules, manifests and an index in two homes | a dozen steps from the first file to the index, interrupted anywhere; callers that join a queued run |
| **Wipe suppression** | a registry of running destructive operations | a stale entry taken over while its owner lives |
| **Agent bridge, chat, settings, views, API client** | user interface and I/O | - |

Every component, with its sources and its status, is in `PROJECT.json`; the
hazards at their lines are listed there too.

### How they interact

* A write request takes the **permit** of the rotation fence, stores an
  **intent**, changes **S3**, then commits the intent: one DynamoDB transaction
  removes the pending row, adds the activity row and counts the revision.
* A sync request first **reconciles** intents older than two minutes, then lists
  the pending ones (any of them forces the cold path), takes its high-water mark,
  reads the vault cursor and queries the log or scans S3.
* The device applies the deltas one by one and stores mark and revision only when
  none failed; with nothing pending and its revision unchanged it skips.
* A publish invocation stores the manifest, a `RECOVERY` row, then one
  transaction over HEAD, COMMITTED, EVENT and RECOVERY.  The recovery worker
  fences every row still pending after 120 s in a transaction on the same rows.

## 2. Modules

| module | what it is |
|---|---|
| `WorkspaceRevisions` | the revision store with publishers, transactions on their way, recovery workers and readers |
| `WorkspaceHistory` | what the store promises: a history that only grows |
| `MCWorkspaceRevisions` | the instances `Chain` and `Rivals`, symmetry |
| `MCServer` | `Chain` and the three admissions, for one run |
| `WorkspaceRevisionsProofs` | TLAPS proofs about the store and `RecoverySweep`: both refinements (of `WorkspaceHistory`, of `WorkspaceRevisions`) included |
| `VaultWrites` | writers, reconcilers, permit, intents, log, S3 objects |
| `VaultSync` | extends `VaultWrites` with devices, cursors and syncs |
| `MCVaultSync` | the bound of its run |
| `VaultSyncProofs` | TLAPS proofs about `VaultWrites` and `VaultSync` |
| `VaultKeyRotation` | jobs, deliveries, the rotation lease, key rows, files under keys, clients with key leases |
| `MCVaultKeyRotation` | its symmetry |
| `VaultKeyRotationProofs` | TLAPS proofs |
| `RecoverySweep` | extends `WorkspaceRevisions`: its settlers are invocations that page through the table |
| `MCRecoverySweep` | its instance (its proofs are in `WorkspaceRevisionsProofs`) |
| `OutboxDelivery` | extends `WorkspaceHistory`: consumers that follow the outbox |
| `OutboxDeliveryProofs` | TLAPS proofs |
| `LoginPermits`, `AuthorizationLease`, `CohortRouting` | the three admissions of the server |
| `AdmissionProofs` | TLAPS proofs about those three |
| `WorkspaceReplica` | one device's replica of a workspace, with the server and other clients as its environment |
| `WorkspaceReplicaProofs` | TLAPS proofs |
| `OfflineQueue` | one device's saves, queue, flush and tombstones |
| `RecoveryCapsule` | one device's recovery capsule: callers, chain, persist, clear, restore |
| `PinLock` | one device's PIN: who can open the local key and when |
| `PinLockProofs` | TLAPS proofs |
| `PluginProofs` | TLAPS proofs about queue and capsule |
| `MCComponents` | the outbox, the replica and the offline queue, for one run |
| `MCKeys` | the rotation, the capsule and the PIN, for one run |

A definition marked "A mutant" stands just before the definition it is a broken
variant of; no specification uses it.  It is there to show that the property
named in `PROJECT.json` notices that mistake.

### WorkspaceRevisions and the code

`prepared`, `committed`, `head`, `outbox`, `recovery` are the DynamoDB rows of
the same names (repository.ts); `manifests` is the S3 store; `inflight` holds the
publication transactions on their way.  Every `await` of `publish`
(service.ts 145-281) ends one action and begins the next:

| stage of an invocation | action that leaves it | code |
|---|---|---|
| idle | `BeginPublish` | `getPrepared` |
| loaded | `CheckCommitted` | `getCommitted`: already published → resolve the answer |
| uncommitted | `ReadHead` | `getHead`, compared with the expected base |
| based | `StageManifest` | the committed manifest is put, write once |
| staged | `PutRecovery` | the `RECOVERY` row, or the existing one |
| armed | `SendTransaction` | the `TransactWrite` leaves |
| sent | `LandTransaction`, `RefuseTransaction`, `LoseTransaction`, `TimeOut` | it lands (with or without its answer), is refused, disappears, or the client gives up while it travels |
| failed | `RecheckCommitted` | `getCommitted` after an error |
| rechecked | `RecheckHead` | `getHead` after an error: conflict or rethrow |
| resolving | `ResolveAnswer` | the rows the answer is built from |
| any | `Stop` | crash, Lambda timeout, capability gate, an error of an `await` |

The check of `preparePublication` that the two records and the head belong together
(head-store.ts 282-294) is left out: `publish` builds the committed record from the prepared one
and the head it has just compared, so the check always passes.

A refusal (`TransactionCanceledException`) and an ambiguous error are different
`cause`s, because the code treats them alike and the outcomes differ.  The
worker's `settlePending` is `SettleRead`, then `SettleWrite`, whose condition is
checked again by the transaction.  Times are reduced to the age of a pending
row, capped at `SettleAge`.  The content of a manifest is its digest.

### VaultWrites and the code

`object` is what S3 holds at a path with the intent that left it so; `pending`,
`log`, `revision`, `permit` are rows of DynamoDB.  Timestamps are handed out one at
a time by `clock`, so `at` identifies an intent and the version its mutation
makes.  `StartRequest` … `ReleasePermit` follow `handleWriteFile` and
`handleDeleteFile`; `Crash` may come between any two; `Observe`/`Resolve` are one
intent's turn in `reconcilePendingMutationIntents`.  `Abandoned` states the two
minutes after which a reconciler looks at an intent as the fact they guarantee
(an invocation lives one minute): the request that stored it is over.
`ExpirePermit` likewise states the permit's twenty minutes.  `unheard` is a
history variable: mutations S3 carried out while the handler saw an error.

### VaultSync and the code

`local`, `cursor`, `sync` are the device and its running sync; `fresh` holds log
rows an eventually consistent query may still miss.  `RequestSync` and
`ApplyDelta`, `FinishSync`, `AbandonSync` are the plugin (sync-runtime.ts);
`ListPending`, `TakeStamp`, `ReadCursor`, `QueryLog`, `StartScan`, `BuildDelta` are
`handleSync`, one action for each read of shared state.  The plugin may prefetch
downloads: a prefetch reads an object earlier than it applies it but still after
the deltas are known, and is folded into `ApplyDelta`.  `Second` is the resolution
of S3's `LastModified` (seconds) in ticks of the cursor (milliseconds).
`missed` is a history variable: rows that entered the log below a device's mark,
that a query did not show or that rounding hid, and deletions that silently failed.

### VaultKeyRotation and the code

`keyRow`, `active` are the KEY# and ACTIVE rows of a vault, `lessee`, `permit` its fence
row, `dek` and `stamp` what S3 holds (the key of the body and `vaultguard-key-id`).
`run` is the local state of one delivery of `executeReEncryptionJob`:

| stage of a delivery | action that leaves it | code (`reencryption/handler.ts`) |
|---|---|---|
| idle | `Deliver` | 332: the job begins, possibly a second time |
| started | `AcquireLease` | `acquireRotationLease`: re-entrant for one job id |
| leased | `ResolveOldKey` | the active key |
| resolved | `PrepareKey` | the new key is stored before it is used |
| rewriting | `ReEncryptFile`, `FinishFiles` | one file: GET, decrypt, PUT with If-Match; a failure counts |
| rewritten | `CommitKey` | the transaction over fence, ACTIVE and both KEY# rows |
| undoing | `UndoFile`, `Report` | files done go back; one that does not is left for recovery |
| committed | `Report` | the job is completed |
| any | `Throw`, `Die` | an `await` outside the per-file try, or Lambda's end |
| releasing | `ReleaseLease` | the `finally` block |

`ExpireLease` states the twenty minutes of a lease as the fact they guarantee: an
invocation lives fifteen, so the deliveries of the lessee are over.  `TakeLease` is
`issueKeyLease`, whose read of the ACTIVE row is not consistent: it may still see the key that
a rotation has replaced; `BeginWrite` … `WriteFile`, `FailWrite` are `handleWriteFile` as far
as keys go.  An answer of S3 that is lost is in `ReEncryptFile`, whose failing
disjunct may have changed the file, and in `UndoFile`; a commit whose answer is lost
is in `CommitKey`.  A commit that lands while its caller, having given
up, undoes the files is one whose answer was an error: the roll-back reads none of the
rows the commit changes.  One delayed beyond the release of the lease is not modelled;
its conditions, on the lease among others, would have to hold again.  Three history variables name what the properties except: `twins`
(jobs two deliveries worked on at a time), `stale` (files last written with a key no
longer active), `retired` (keys replaced by a job reported as completed).

### RecoverySweep and the code

`cursor` is the row the checkpoint names (0 when it has none) and the generation is in `fresh`:
whether no one has written the checkpoint since an invocation read it.  One
invocation of `recoverWorkspacePage` is `ReadCheckpoint`, `ScanPage` (a page of at most so many
rows, which may end the table), then for each pending row in order `SkipRow` (too young)
or `TakeRow` and `SettleRow`, then `FinishPage`, which moves or removes
the cursor under the condition on the generation.  `SettleRowUnheard` is a
settlement whose answer is lost, `FailRow` an error, which ends the page before the
cursor is written, `EndSweep` a death anywhere.  `owed` is a history variable: the rows due when the
cursor was last removed.

### OutboxDelivery and the code

`checkpoint` is the `CHECKPOINT#` row of a consumer; `projection` and `newest` are
what its sink has taken.  `ReadConsumer`, `FetchEvent`, `HandEvent`, `MoveCheckpoint` are the four
awaits of `deliverNext`; `StopDelivery` may come between any two, after the sink included.  The
sink is external: `Take` does what the comment at recovery.ts 107-110 demands of it.

### LoginPermits, AuthorizationLease, CohortRouting and the code

A sign-in request counts against the budget (`CountAttempt`) and opens an attempt
(`OpenAttempt`); a poll reads it, marks it verified (`ReadPending`, `MarkVerified`), polls again
(`PollVerified`, `ReadVerified`) and exchanges it for a permit (`Exchange`, one transaction); the
Cognito trigger consumes the permit (`ConsumePermit`, one transaction).  Each may have its
answer lost (`RequestFails`), and rows disappear after they expire.

`AuthorizationLease`: an authority writer reads the lease of its context (`PrepareChange`), then
stores its intent under the condition `Admits` (`Announce`), and resolves it.
`acquire` is `Ask`, `TakeLease`, `ReadPage` for each page of intents and `Finish`; `GiveUp` is the
busy error, which tries to release.  `Place` is where an intent's key sorts, so that one may
appear on a page already read.

`CohortRouting`: `BeginMutation`, `ReadRoute`, `TakePermit`, `EndMutation` are the writer's
permit with its route condition; `BeginFence`, `TakeFence`, `ReadExpected`, `BeginTransition`,
`ReadRecord`, `SendTransition`, `Confirm`, `Repeat`, `ReturnFence` are an operator's
transition.  `flying` holds transactions whose sender no longer waits; `LandLate` lands
them.  A call that is told "changed" is not claimed to be final: only "applied" is.

### WorkspaceReplica and the code

`disk` is the device's folder, `mem` the state of `WorkspaceSyncRuntime`, `journal` what was persisted,
`line` the workspace's revisions, `intents` the server's publications by idempotency key.  All
operations of the runtime are serialized, so a pass (`sync`) and a user's write do not
interleave; editors outside the adapter and the server do, at every await:

| stage of a pass | actions that leave it | code (`workspace-sync-runtime.ts`) |
|---|---|---|
| recover | `RecoverItem` (status, receipt, resume, failure), `ListInventory` | `recoverProposals` 543-618, 255-287 |
| attempt, submit | `RecordAttempt`, `SubmitIntent` | `submitIntent` 520-527 |
| reconcile | `ReconcilePath`, `EndReconcile` | `reconcile` 353-413 |
| download, write | `RecheckLocal`, `WriteFile` | 394-412 |
| trash | `TrashFile` | 371-373: a file the revision has deleted, read and hashed before, goes to the local trash |
| settle | `CapturePath`, `ContinueRetired`, `EndSettle` | 422-429, 502-519, 295-299 |
| propose, dispatch | `ProposeItem`, `DispatchProposal`, `EndSync` | 298-313, 430-498, 314-340 |
| any | `EndEarly`, `Restart` | a request fails, the vault locks, the plugin restarts |

`UserWrite`, `UserDelete` and `PrepareRecovery` are the calls of the editor and of the person who
resolves a conflict.  `Records` is `persist`, which may fail.  `UserDelete` records a deletion
(`mutation`); the adapter removes the file afterwards, outside the serialization
(at-rest-adapter-runtime.ts 4562-4564), so `RemoveFile` is an action of its own and `removing` the
files it is still to remove; a restart forgets them.  `made`, `tainted`, `latest`
and `raced` are history variables: the contents used, those that an agent wrote or that carry its
work on (`CarriesOn`: the change that is replaced, or else the file, has such a content), the
last save of each file, and what was saved in a file after the last look at it (`Exposed`): it is about to
be replaced by a download, moved to the trash by a pass or removed by the adapter, and no code
looks again.  `DispatchProposal` goes on only if what the server has under the key is the batch
as it is ("Pending transfer identity mismatch", 466-467).

### OfflineQueue and the code

`server` holds each file's version and content, `local` the disk, `known` the recorded version,
`queue`, `batch` the offline queue and the rest of a running flush, `tombstones` and
`retrying` the deletions to retry.  A save is `StartSave` and one of `UserAccepted`,
`UserQueued`, `SaveConflicts`, `UserRefused` (`interceptedWrite`); a deletion likewise
(`interceptedDelete`).  The flush takes the queue at once (`StartFlush`) and carries out one
operation after the other: accepted, unheard (requeued with all behind it), in conflict as a
create (dropped) or as an update (requeued), refused (dropped), or not requested at all
(`FlushSkipped`): an operation on a file excluded since (`Exclude`), and a save that left its file
empty (`Empty`; `if (op.data)`, sync-runtime.ts 4787).  Two history variables tell the ends apart:
`answered` are the saves the server accepted or whose conflict or error the user was told of,
`forsaken` those given up with a line in the log at most (a skipped or refused text; only a binary
gets a notice, 5011-5015).  `recordSuccessfulWrite` is called after a refusal too (4918), but does
nothing for a response that is not a success (449), so `known` stays.

### RecoveryCapsule and the code

`vault` and `profile` are the capsules of the two homes by identifier and slot, `manifest` the
three manifest files, `index` this vault's entry in the profile index.  `chain` is
`localRecoveryCapsuleOpChain` with the running operation first, `slot` the place of
`queuedLocalRecoveryCapsulePersist` in it.  `StartPersist` … `SaveIndex` are the steps of
`persist` (local-recovery-capsule.ts 453-558), one action for each file operation; the profile is
synchronous, so its two saves are one action.  `StartClear` … `RemoveEntry` are `clear`.  `Fail`
is an error of any of them (the run answers FALSE, main.ts 10665), `Kill` the end of the
application, `EvictProfile` the loss of the profile's storage.  `Restored` is what
`restore` would pick: what the current and the previous manifest accept in the vault, then what the index accepts in the profile;
the newest generation, and the first of those.  A capsule's content is the number of the change
it was captured at and whether it is PIN-only.  `torn`, `promised` and `settled` are history
variables.

### PinLock and the code

`wrap` and `envelope` are `lak.envelope` and `lak-pin.envelope`, `saved` the part of data.json that
matters and `settings` the same in memory, `capsule` what a restore would bring back (the detail
is `RecoveryCapsule`).  Each party (a tab of the settings, the curtain, its "Log in again") runs
one operation at a time, `op`; an operation's step is the `await` it has reached:

| operation | actions | code |
|---|---|---|
| enroll | `DrawPepper`, `WriteEnvelope`, `MarkEnrolled`, `SaveEnrolled`, `KeepPinOnly`, `ClearWrap`, `Recapture` | pin-lock-manager.ts 170-201, main.ts 8897-8946 |
| toggle | `CheckReady`, `RecordOnly`; `KeepPinOnly`, `ClearWrap` or `RestoreWrap`, `KeepPasskey`, `Unwrap`; `SaveToggle`; `Revert`, `RevertWrap`, `SaveReverted` | main.ts 8968-9024 |
| unlock | `ReadEnvelope`, `Derive`, `Decide`, `SaveFailure`, `AnswerFailure` or `SaveSuccess`, `Adopt`, `KeepPinOnly`, `ClearWrap` or `Migrate`, `Lift` | pin-lock-manager.ts 211-296, main.ts 8596-8677 |
| disable | those of an unlock up to `Adopt`, `Rewrap`, `ClearEnvelope`, `ClearPepper`, `MarkDisabled`, `SaveDisabled`, `Recapture` | main.ts 9032-9063 |
| forgot | `ClearEnvelope` … `SaveDisabled`, `Logout` | main.ts 9073-9078 |

`Start`, `RestoreFiles`, `RestoreSettings` and `Land` are a start:
`restoreLocalRecoveryBeforeCipherInit` (its writes and its save are two actions, with an end of the application
between) and the landing decision of `initAtRestCipher`.  `BackgroundSave` and
`BackgroundCapsule` stand for every other caller of `savePluginData` and
`persistLocalRecoveryCapsule`.  `told`, `forgotten`, `crossed`, `dropped`, `posture` are history
variables.  Two of them speak of operations of the settings that overlap (`Overlaps`: the toggle is not
modal, settings.ts 2967-2970): `crossed` is then set, and the posture is "mixed", because it cannot be said which
of the two answers was the last word.  `TabAnswers` is the answer of an operation that was alone.

## 3. Properties and runs

| run | instance | what it shows |
|---|---|---|
| `Server` | the store with `Chain` (r1, then r2 prepared twice with different content; 2 publishers, 1 worker, 1 reader); the admissions (below) | `RecoveryTellsTheTruth`, `NothingUntracked`, `ReadsAreWhole`, `AnswersAreTrue`; a polling reader never goes back (`ReadsAdvance`); `OneSignInPerAttempt`, `AttemptsWithinBudget` (login); `LeaseExcludesWriters` (lease); `WritersKeepTheirRoute`, `RouteIsRecorded` (cohort) |
| `WorkspaceRevisionsRivals` | `Rivals`: r2 and r3 compete to follow r1 | `OneLine` (no lost update), `OutboxIsTheLine`, `RefusalIsFinal`; the rows implement `WorkspaceHistory` (`HistorySpec`) |
| `RecoverySweep` | 2 chained revisions whose rows lie in the opposite order, 1 publisher, 1 worker, pages of any size | `SweepIsWhole`: the cursor passes settled rows only; `PendingIsSettled`: no publication stays undecided |
| `VaultWrites` | 1 path, 2 writers, 2 reconcilers, 2 time stamps | `EveryChangeIsAnnounced`, `RevisionCountsLog`, `MutationsInOrder`, and `IntentsAreResolved` under fairness |
| `VaultWritesAbort` | same | violation, finding 1 |
| `VaultSync` | 1 path, writer, reconciler, device; 3 stamps, constraint `Mild` | `CursorIsCovered`, `SkipIsSafe`, `NeverGoesBack` |
| `VaultSyncAtLeastOnce` | same, 2 stamps | violation, finding 2 |
| `Keys` | rotation, capsule, PIN (below) | `KeysAreStored`, `FenceExcludes`, `RetiredIsUnused`, `StampsAreTrue` (rotation); `AnsweredIsRestored`: what a caller was told is kept is restored, or something newer, and `SettledIsAll`: a PIN-only capsule stands alone (capsule); `KeyIsKept`: the key can be had again after any restart, `PostureHolds`: what the settings answered about the posture is so on disk and in the capsule, `FailuresCount`: an answered failure is in the count (PIN) |
| `VaultKeyRotationStamp` | the rotation alone | violation, finding 3 |
| `Components` | outbox, replica, queue (below) | `ProjectionIsWhole`, `CheckpointAdvances` (outbox); `EditsAreKept`, `PublishedOnce`, `AgentWorkIsHeld`, `NeverRollsBack` (replica); `NothingIsForgotten`, `OldNeverReplacesNew` (queue) |
| `OfflineQueueConflict` | 1 file, 3 saves, 4 versions | violation, finding 4 |
| `PinLockForgotten` | 1 operation of the settings, no PIN check | violation, finding 5 |

`Server`, `Components` and `Keys` are sums of state spaces, not products: the initial state picks a
part and only that one moves, which is all there is to explore because the parts
share no variable.  Alone they have about 454 thousand (store), 34 thousand (login), 162
thousand (lease) and 530 thousand (cohort) states; 3 thousand (outbox), 1.36 million
(replica) and 480 thousand (queue); and 817 thousand (rotation), 154 thousand (capsule) and 332
thousand (PIN).

The runs list no type invariants.  Those of `WorkspaceRevisions`, `VaultWrites` and
`VaultKeyRotation` are theorems (`TypesHold`, `WritesTypesHold`, `RotationTypesHold`), as are
`SyncTypesHold`, `ReplicaTypesHold`, `QueueTypesHold`, `CapsuleTypesHold`, `PinTypesHold` and those inside the
inductive invariants of the sweep, the outbox and the admissions.

Each property of a passing run has a mutant in `PROJECT.json`: a change of one
mapped definition, the kind of mistake an edit of that code could make, that
violates it in that run.

### Bounds and why they are enough

* **Two publishers, at most two transactions on their way** (`MaxInflight`).  The
  races of `publish` are between a transaction and one other actor (a rival, a late
  transaction of a dead invocation, the worker).  Both publishers may work on one
  revision or on different ones, and a publisher that stopped and began
  again leaves its old transaction behind.
* **Two or three revisions.**  `Chain` has a revision on top of another, and an
  identifier submitted twice; `Rivals` has a fork that must not happen.
* **`SettleAge = 1`**: a row is young, then old.  Nothing depends on how long the
  120 s are; that a *live* publisher can be fenced is allowed by the model.
* **One path** in the vault models: no step of the code relates two paths except the
  counter and the permit, which two writers on one path contend for as well.
* **`MaxTime`** bounds stamps.  Two allow a write and the deletion or overwrite of
  its object, with a tick in between.  `NeverGoesBack` needs three (write, delete,
  write again, while a device is in between).  `VaultSync` has three under the
  constraint `Mild`: failures and reconciliation passes are free in the first tick;
  in the second at most one lost answer and one intent left behind go on; in the
  third no lost answer, one intent left behind, and passes only at rest.
* **Two files, two new keys, two deliveries.**  A rotation that fails in the middle needs
  a file done and one not; a second key is needed for a rotation after one that was
  rolled back or completed; two deliveries are the same job twice or two jobs in a
  race.  `OneTwin`: at most one of the two jobs is at work twice at a time (without this
  constraint the run passes too, with 2.1 million states).  One client has every relation to a
  rotation a second one would have: clients
  exclude each other by the permit.
* **`Second = 2`** makes two stamps share a second.
* **The sweep**: the row of the later revision sorts first, so that a row appears
  behind the cursor of a sweep that is under way; a page ends anywhere.  One worker in
  the run, because its liveness needs the exclusion the deployment gives (below); the
  theorem about `SweepIsWhole` is for any number of overlapping ones.
* **The outbox**: three events, one consumer, two overlapping deliverers: a replay can
  meet an event that another deliverer has already moved past.  Consumers share nothing.
* **The replica**: one path, two contents, two identities of changes, three revisions.  A second
  identity is what a change gets when it is proposed again under another key, the case
  `PublishedOnce` is about; three revisions let another client publish before and
  after.  Contents are symmetric.
* **The queue**: one file, three saves, three versions of the server: a save in the
  flush, one queued behind it and one under way.  The second save leaves the file empty.
  The order of two files' operations
  does not matter to any property: each operation names one file.
* **Login**: two attempts and permits of one account, two concurrent requests, a budget of
  one per window, three ticks: an attempt outlives its window, a permit expires, a
  request is repeated while its first copy is under way.
* **The lease**: two acquisitions, one authorization writer and one file writer on different pages, a
  lease of two ticks in four: it can expire under its holder.
* **Cohorts**: one writer, two rival operators, two generations: a rival can take the generation a lost
  answer was about.  A lease of one tick in a clock of two, so that a fence or a permit lapses
  while a transaction that named it is still on its way.
* **The capsule**: three changes and two faults: an accepted generation, an interrupted
  persist and one after it; a third change joins or follows.  One clear and one eviction of the
  profile, three calls waiting.  `AnsweredIsRestored` claims
  nothing after two persists were begun without a commit (section 5 says what happens then).
* **The PIN**: two operations of the settings, two PIN checks that may overlap, one end of the
  application while it runs and any number while a restore is half done, one removal of the plugin.
  The device starts without a PIN, with one beside the keychain or with the PIN alone, so that two
  operations reach every order of setting a PIN, changing its posture and disabling it.  Settings operations
  exclude each other in this run (`Tabs` has one member); the theorems are for any set of tabs, and with
  two tabs, which is more than the run's time allows (2.9 million states), TLC finds no error
  either.  `ForgottenFirst` explores a
  forgotten PIN only before the settings were used: the key is given up with it.

### Fairness

* `SweepFairness`: the recovery worker is invoked on a schedule (an EventBridge rule of one
  minute) and retries forever; any of its steps can fail, but not every
  time (a row that throws whenever it is settled is thereby assumed away: it would end every page
  before the cursor is written): strong fairness of reading the checkpoint, scanning, handling the next
  row, settling it and
  writing the cursor, weak fairness of time.  The function has a reserved concurrency of one and a
  timeout of a minute (`server/terraform`, workspace-recovery), so invocations follow each
  other.  `PendingIsSettled` is therefore derived from the paging worker; in
  `WorkspaceRevisions` it was assumed that every row is visited again and again.
  Publishers have no fairness: they may stop anywhere and need not be called again.
* The modules of `Components` and `Keys` and the admissions of `Server` state safety only:
  nothing there is assumed to go on.
* In `VaultWrites` an invocation ends (Lambda's timeout: weak fairness of
  `ReleasePermit` or `Crash`), a begun reconciliation ends, devices keep polling
  (every sync request reconciles), and not every resolution fails.

## 4. Proofs

The proofs assume only the named `ASSUME`s of the modules (bounds are naturals, `None`
is none of the values it stands beside); the sets of revisions, publishers, paths,
writers, reconcilers, files, jobs, deliveries and clients may be of any size, finite
or not.

**Revision store.**  `OneLine` is not inductive: the transaction that lands was built from
what its sender read several steps ago.  `LineInv` adds what every invocation and
every transaction remembers, and that it stays true:

* `InvocationsKnowTheirBase`: from "based" on, `base` is what the revision was
  prepared on and is a published revision at `baseSequence` (published rows are
  immutable, so that cannot become false); from "armed" on a `RECOVERY` row exists;
* `TransactionsKnowTheirBase`: the same of transactions on their way, and that a
  transaction still owned by an invocation is that invocation's only one;
* `RowsAgree`: committed rows are as prepared, and HEAD agrees with its row.

A transaction lands only if HEAD is still its base; the base is published at
`baseSequence`, HEAD has that number, all others are lower: the new number is
unique and the line grows by one.

`AnswersInv` on top of it gives what answers rely on.  `Dead(r)`, not published and
either fenced or superseded (HEAD has moved past its base), is stable: once
true no transaction for `r` can land.  A refused compare-and-set implies
published-or-dead, so a conflict answered for it is final.

**Writes.**  `WritesInv` says that the permit makes requests at work exclusive
(`PermitIsHeld`), that stamps are taken and unique, that an object names the
intent that left it so, that a writer at work knows whether its intent is pending, and
that a reconciler only looks at intents whose request is over.  `EveryChangeIsAnnounced`
and `RevisionCountsLog` follow by one more step each.

**The sweep.**  Each step is a step of `WorkspaceRevisions` or leaves it alone
(`SweepRefines`), so all that is proved of the store holds with the paging worker.
`SweepInv` explains `SweepIsWhole`: an invocation whose cursor write would still be
accepted (its generation is current) started where the cursor is, and the rows of its
range that were due and that it has not in hand any more are settled.  A row that is due stays
due until it is settled.

**The outbox.**  `DeliveryInv`: what an invocation remembers is not ahead of its
consumer; a sink that rejects what is older makes a replay harmless, and the
condition on the previous sequence makes a late checkpoint fail.

**Admissions.**  `LoginInv`: an attempt has at most one permit, none before it is
exchanged, and an admitted one has none left to consume.  `LeaseInv`: a writer that was admitted
without the lease is on the pages not read yet, or was seen; pages are read in
order, and a writer's key is fixed when it announces itself.  `CohortInv`: a transition needs the
fence free of writers *now*, a permit needs it free of operators, and both are conditions of the
same row; a transaction under way carries the route it replaces.  `RecordInv` adds the history:
what an operator has decided, and a transaction carries, follows by one generation the route it
was read from, so the one that lands extends the records by one.  `BudgetCounts`: an attempt is
counted in its window before it is opened, so the count covers the open attempts and the requests
that have still to open one; a refused count opens nothing.

**Sync.**  The devices read what the writers leave, so `SyncInv` stands on `WritesInv` and on what the
writes mean to a device (`HistoryInv`): the writer at work on a path has its newest stamp; an object
is as its row says; a log row is an object's or older than it; an object was modified no earlier than its
intent was stamped.  Every step of a writer or a reconciler is then one of a few effects
(`WritesEffect`): it publishes an intent, withdraws one, or changes an object under the
permit.  On that rest, for each device:

* `LocalTells`, `Marks`, `ManifestTells`: what it holds is a version of the path; the marks of the
  device and of its sync follow each other; the manifest is of what it held when it asked;
* what its *cursor* stands for: a logged change up to it that still is its path's last is held or
  `missed`;
* what an answer's *stamp* stands for: such a change is held, on a path of the answer still to be
  gone through, in the deltas, or passed over (`late`, `missed`);
* `Shown`, `DeltasHold`: the rows of a warm answer are the last of their paths it stands for, and a
  removal among the deltas is of what is gone.

A sync that finishes moves the third into the second, which is `CursorIsCovered`; `SkipIsSafe` reads it
off the revision instead of the time.  `NeverGoesBack` needs that an event of a warm answer is its
path's last row above the cursor (`LastRow`, the maximum of a finite set of stamps), and that what
the cursor stands for is not above it.

The attempt to prove this changed two exceptions, both too narrow beyond the bounds of the run.
A device that is told of a deletion and silently fails to carry it out passes over the earlier
changes of that path as well (`PassedOver`), since nothing will tell it of them again.  And what a
device gives up may be a version whose intent was overwritten before a reconciler looked, so that it
was never announced; `NeverGoesBack` had named only those whose answer was an error.

**Key rotation.**  Four invariants, each relying on the one before.  `FenceInv`: a
writer at work has the permit, a delivery in a leased stage has the lease unless its job has
twins, and one of the two is free.  `StampsInv`: a write about to reach S3 has the
stamp of the active key, because the active key changes only under the lease.
`KeysInv`: the keys a delivery works with are stored; no step makes a stored key
unknown.  `RetiredInv` (while no job has twins): no key is active before it is made,
keys a delivery works with are not retired, and what a delivery has re-encrypted
stays under its new key until it reports.  The last part is what makes a completed
job's claim true: the lease keeps writers and other jobs away from the files done.

**Replica.**  `ReplicaInv` speaks of the server, of both copies of the replica's state (in memory and in
the journal, since a restart may return to either), of the pass and of the files.

* `WorldKept`: what revisions and proposals contain was made, and by no agent; of the publications
  submitted and not refused or retired, no two have a change in common (`NoneTwice`, which gives `PublishedOnce`).
* `CopyKept`: a pending change is what the server has under its key (`Stands`), no change is pending
  twice (`Distinct`), a batch is proposed and attempted as a whole (`Together`) and stays whole while
  the server may still carry it out (`Whole`).  The changes of a submitted publication wait under its
  key (`Waits`): that is why `prepareRecovery` and `continueRetired`, which give a change a new key, cannot
  submit it a second time before the first is over.  A content of an agent is in a change whose
  origin is the agent (`Owned`), and a file with one has such a change (`AgentKept`).
* `ReachKept`: what the replica knows of a file, and what it was told is applied, is in a revision;
  while a pass compares, in one up to the pass's own.  This needs the second negotiation when a
  recovered publication may have moved the workspace.  `FoundKept` is about the file being downloaded or trashed:
  what was found there is what the replica knows, and a different content is an edit made since.
  Together they give `NeverRollsBack`, and with `DiskKept` `EditsAreKept`.

The proof needed three things said precisely in the module: the check of a batch against
the transfer under its key, that the server refuses a publication that names a file twice, and
what carries an agent's work on.  It showed that `EditsAreKept` needed no exception for held copies.

**Offline queue.**  `QueueInv` says of every operation that waits, in the queue, in the running
flush or with the user (`Fresh`): a write carries a save that was made, names a version that was
given out, and where the server still has that version it has nothing newer than the write.  A
version is given once, so what happens to the server later cannot make that false, and an
operation that is requeued keeps the version it named.  An accepted write is therefore never older than
what it replaces (`OldNeverReplacesNew`), wherever a failed flush has put it.  `Remembered` is
`NothingIsForgotten` with the file of the operation (what is answered or given up stays so: `Grows`),
which the filter of `queueOfflineOperation`
needs: it may drop only what the new operation of the file replaces.  What that filter keeps is a fact
about sequences of any length (`OthersKeep`); its induction goes over the least counterexample
(`LeastOf`), since the provers cannot instantiate the library's induction rules.

**Recovery capsule.**  A restart restores the best of what two manifests and the index name in two
homes.  `CapsuleInv` says which one that is.  `PromiseKept`, while at most one persist was torn: the committed
pointer is the newest (`HeadKept`), its generation is in the vault and holds what callers were promised, and
what is found beside it is refused, so the profile, which may be evicted, is never
needed.  `NewerKept` and `PlacedKept`: the running persist writes a newer generation with a state no
older than any promise, and has placed it as far as its step says.  `CallsKept`: a clear in the
chain has taken the promises back, and the persist others join is behind it.  `SettledKept`: what the last answer
TRUE said is what the committed pointer names, until the next operation begins.

**PIN lock.**  `PinInv` counts.  An attempt is in one of three places: still to be decided (`Checking`),
decided wrong and not answered (`Failing`), or in the count; `TriesCount` bounds the count in
memory, on disk and in the capsule by the attempts, so it stays in its type, and `AnswersCount` says that
the answered failures and those about to be answered are at most the count, in memory and on disk.
Since each party has at most one operation, a step of one changes each of these finite sets by at most one element.

`OrderInv` says which operation can be where (`OpsInPlace`), that the settings have one operation at a
time while none overlapped, and that the flag is then what a toggle set until the toggle puts it back
(`ToggleStands`).  On it rest the two invariants of the key:

* `PostureInv` gives `PostureHolds`.  An answer is about disk, memory and capsule at once
  (`Answered`), but it is given after the last of three writes; `EnrollAnswers` and `ToggleAnswers`
  say at each step before it which of them are already what will be answered.  Meanwhile the
  curtain may unlock with the PIN and clear or restore the wrapper by the flag: `PinAlone` and
  `KeychainToo` say it can only do what the answer said.
* `KeyInv` gives `KeyIsKept`.  The device's envelopes (`DiskOpens`) and the capsule (`CapsuleKept`) must open
  the key at every moment, since the application may end at any, and in the middle of a restore too
  (`StoppedKept`).  While it runs, memory and disk differ only for an operation that is about to
  save (`RunningKept`), what the curtain has read is still there (`CurtainKept`), and each operation of the
  settings has secured something before it takes something else away (`TabKept`): the PIN's envelope and its
  pepper are on disk before the wrapper goes (`EnrollKept`), a toggle has an envelope to put its wrapper
  beside or instead of (`ToggleKept`), the wrapper is back before envelope and pepper go (`DisableKept`).
  `crossed` is needed: `KeyIsKept` is false without it, with one tab and with two (section 5).

| theorem | property |
|---|---|
| `TypesHold`, `LineHolds`, `RecoveryHolds` | `TypeOK` (types), `OneLine`, `RecoveryTellsTheTruth` |
| `ReadsHold`, `AnswersHold`, `RefusalsHold` | `ReadsAreWhole`, `AnswersAreTrue`, `RefusalIsFinal` |
| `ImmutableHolds`, `ReadsAdvanceHolds` | `Immutable`, `ReadsAdvance` |
| `WritesTypesHold`, `AnnouncedHolds` | `WritesTypeOK`, `EveryChangeIsAnnounced` |
| `RevisionHolds`, `OrderHolds` | `RevisionCountsLog`, `MutationsInOrder` |
| `RotationTypesHold`, `FenceHolds` | `RotationTypeOK`, `FenceExcludes` |
| `StampsHold`, `KeysHold`, `RetiredHolds` | `StampsAreTrue`, `KeysAreStored`, `RetiredIsUnused` |
| `OutboxHolds`, `UntrackedHolds` | `OutboxIsTheLine`, `NothingUntracked` |
| `SweepTypesHold`, `SweepHolds` | `SweepTypeOK` (types), `SweepIsWhole` |
| `SweepRefines` | `Spec`: every step of `RecoverySweep` is one of `WorkspaceRevisions` or a stutter |
| `SyncRefines` | `WritesSpec`: every step of `VaultSync` is one of `VaultWrites` or a stutter |
| `DeliveryTypesHold`, `ProjectionHolds`, `CheckpointHolds` | `DeliveryTypeOK` (types), `ProjectionIsWhole`, `CheckpointAdvances` |
| `LoginTypesHold`, `LeaseTypesHold`, `CohortTypesHold` | `LoginTypeOK`, `LeaseTypeOK`, `CohortTypeOK` (types) |
| `SignInsHold`, `LeaseHolds`, `RouteHolds` | `OneSignInPerAttempt`, `LeaseExcludesWriters`, `WritersKeepTheirRoute` |
| `BudgetHolds`, `RouteIsOnRecord` | `AttemptsWithinBudget`, `RouteIsRecorded` |
| `SyncTypesHold`, `CursorHolds` | `SyncTypeOK` (types), `CursorIsCovered` |
| `SkipHolds`, `NoStepBackHolds` | `SkipIsSafe`, `NeverGoesBack` |
| `ReplicaTypesHold`, `EditsHold`, `OnceHolds` | `ReplicaTypeOK` (types), `EditsAreKept`, `PublishedOnce` |
| `AgentWorkHolds`, `NoRollBackHolds` | `AgentWorkIsHeld`, `NeverRollsBack` |
| `QueueTypesHold`, `ForgottenHolds`, `ReplacementHolds` | `QueueTypeOK` (types), `NothingIsForgotten`, `OldNeverReplacesNew` |
| `CapsuleTypesHold`, `AnsweredHolds`, `SettledHolds` | `CapsuleTypeOK` (types), `AnsweredIsRestored`, `SettledIsAll` |
| `PinTypesHold`, `FailuresHold` | `PinTypeOK` (types), `FailuresCount` |
| `KeyHolds`, `PostureStands` | `KeyIsKept`, `PostureHolds` |
| `HistoryRefined` | `HistorySpec`: every step of the store is a step of `WorkspaceHistory` or a stutter |

**Only model-checked.**  `PendingIsSettled` and `IntentsAreResolved`: liveness under
fairness is outside the prover's reach.  Every safety invariant and action property of the passing
runs is a theorem.

## 5. Findings

1. **An intent is withdrawn although its mutation ran** (`VaultWritesAbort`).  Any
   error of the S3 request, a timeout included, aborts the intent
   (files/handler.ts 2970 and 3213); shared/utils.ts 3445 says only when the
   mutation definitely did not run.  The change is then in S3 and nowhere else.
   `EveryChangeIsAnnounced` holds with exactly this exception.
2. **A row can enter the log below a mark already taken** (`VaultSyncAtLeastOnce`).
   An activity row has the time of its intent, stamped before the S3 request; a sync
   that takes its mark after that and queries before the row is committed never
   sees it again, and the comment at files/handler.ts 4637-4638 promises
   at-least-once.  `CursorIsCovered` and `SkipIsSafe` hold with `missed` as the only
   exceptions.
3. **A file's stamp may name a key it is not encrypted with** (`VaultKeyRotationStamp`).
   `handleWriteFile` stamps the key that is active when the request is served
   (files/handler.ts 2893); the client encrypted the body with the key of its lease,
   which may be from before a rotation, and the request does not name it (only direct
   uploads compare the two, 2061-2062).  The comment at 2886-2887 relies on the stamp to
   find the key of an old version.  `StampsAreTrue` holds with exactly those files
   (`stale`) as the exception, and `RetiredIsUnused` shows no other file returns to an
   old key.

4. **A conflict left to the user does not hold the other device's copy**
   (`OfflineQueueConflict`).  `handleRemoteWriteConflict` fetches the other device's
   version and records it as the known one (sync-runtime.ts 3994), then, under the default
   ASK_USER, leaves the conflict "pending".  Comment and notice (4113-4115, 4121) say both
   copies are held.  The next save of the same file names the recorded version, is
   accepted, and replaces the other device's copy while the conflict still waits.  (The bucket's
   version history keeps it; the file does not.)

5. **A forgotten PIN comes back** (`PinLockForgotten`).  `forgotPin` (main.ts 9073) disables the PIN
   and logs out but leaves the recovery capsule.  With "Require PIN on startup" no envelope is left,
   so the next start restores the capsule, the PIN with it, and lands locked: the loop the comment at 9067
   says it prevents.

Seven more cases were met while modelling.  No run is about them; where a property would
meet them, it names them as an exception.

* **A publication may be answered with a conflict although it happened.**  After an ambiguous error
  `publish` reads the committed row, then HEAD.  A transaction that lands between the two reads makes
  HEAD the revision itself, which differs from the expected base: the caller gets
  `WorkspaceHeadConflictError` (service.ts 252), while the comment at 179-180 says an
  ambiguous result is reconciled.  `RefusalIsFinal` is about conflicts after a refusal only.
* **Two interrupted persists lose the accepted capsule.**  `persist`
  draws the next generation from the committed manifest and index.  A persist that stops between
  the profile's saves and the manifest leaves capsules of a generation nobody accepts; the next one draws
  the same generation, removes the previous slot, where the last accepted capsule is, and rotates the
  unaccepted one over it, in both homes.  If it stops before its manifest too, nothing can be
  restored.  The comment at local-recovery-capsule.ts 489-491 says a crash anywhere before the
  commit can still recover the earlier state; with one interruption it can (`AnsweredIsRestored`,
  whose `torn` counts them).
* **A PIN being disabled can take the wrapper with it.**  While `disablePinLock` is at work
  the vault is locked and unlocked at the curtain; that unlock, in maximum security, removes
  the wrapper `disablePinLock` has just put back, or marks as enrolled a PIN whose material is gone.
  Only the recovery capsule can open the key then, and not even it once a capsule was captured in that
  state, although main.ts 9028-9030 says the device always retains a way to load it.  Two operations of
  the settings that overlap end the same way: a toggle begun before the PIN is disabled removes the wrapper
  just restored, and of two toggles that cross one removes what the other relies on.
  `KeyIsKept` excepts exactly these (`crossed`).
* **The flag is ahead of the wrapper.**  `setRequirePinOnStartup` sets the flag in
  memory first (main.ts 8970); any save while the capsule is kept writes it, and the comment at 8960-8962
  says it is committed only after its wrapper posture is durable.  The landing decision reads the
  flag too, so such a start asks for the PIN, and that unlock removes the wrapper; `PostureHolds` is
  about what was answered.
* **An agent's work can become a person's.**  Two changes of a file may be pending: a person's, whose
  publication was retired and which `continueRetired` offers again, and an agent's later one, held.
  The person's comes first, so the next `write` takes it for the change it replaces
  (workspace-sync-runtime.ts 180) and keeps the origin human (182), although what is edited is the agent's file;
  `prepareRecovery` can then propose it.  The comment at 190 says a crash cannot
  relabel it human, the one at 620 that a recovery never relabels a delegated edit.  `AgentWorkIsHeld` is
  about the change that is replaced (`CarriesOn`).
* **A save that comes just before a removal is removed.**  `reconcile` reads and hashes a local file
  whose deletion it has found, and then awaits the trash (workspace-sync-runtime.ts 369-371); a save by
  another program in between goes to the vault's local trash (main.ts 1725), where a person can find
  it by hand, and is in no revision and no pending change.  The same window is open between the second read
  of a downloaded file and its replacement (397-409), where the save is overwritten, and between the
  recorded deletion of a file and the adapter's removal (at-rest-adapter-runtime.ts 4562-4564), where it
  is deleted.  The comment at 395-396 promises a second look after network waits, and there is one, but
  the disk is waited for after it.  `EditsAreKept` excepts exactly these saves (`raced`).
* **A queued save may be dropped without a word.**  A save made offline that leaves its file empty is
  queued with the data `""`, which the flush takes for none (`if (op.data)`, sync-runtime.ts 4787): it is
  never requested, and the server keeps the old text.  An operation on a file excluded since is skipped
  (4782), as the comment there intends.  A text save refused for good is logged to the console only; the
  comment at 5004-5006 says catch-up will surface it as local-only.  `NothingIsForgotten` counts all three
  as given up (`forsaken`), and says so.

## 6. Not modelled, and the plan

Left out of the modules above, and why:

* **Revision store**: reads of old revisions and the manifest cache (immutable rows); the optional
  cohort conditions of a publication (no caller supplies them).
* **Sync**: permission filtering, excluded paths, uploads of the device, moves, and a restart of the
  plugin (which resumes from the persisted, older cursor).
* **Key rotation**: restores, keys from before the KEY# rows, jobs over several vaults, the
  discovery of the vaults a job is for, the progress rows of a job.
* **Replica**: renames and folders (a path has one identity), the import of the legacy queue, the
  reviewed model (`reviewed_exact_base`), size limits and exclusions.  The server is external: it
  decides a submitted publication once, against the newest revision.  Not covered by a
  property: a batch leader refused by a 4xx leaves the members of its batch pending with its key;
  nobody proposes them again until the leader is resolved by hand.
* **Queue**: pulls, the persistence of the queue and restarts, files of unknown remote state,
  binary files, KEEP_LOCAL, KEEP_REMOTE and DUPLICATE, two user operations at a time.  Seen while
  reading and not covered by a property: a file written again at a path with a tombstone is
  deleted on the server by the retry, which names no version (`tombstones` are not cleared by a
  write); an update that keeps conflicting stays at its place in the queue and is retried for ever.
* **Admissions**: for sign-ins, the captcha answer and the bindings other than the account; for
  the lease, generations and guest rows, and skewed clocks (the hosts' clocks are taken to agree),
  and nothing in the repository constructs a lease yet; for cohorts, canary evidence and calls
  without a contract, and transitions are an operator's, with no caller in the repository.
* **Capsule and PIN**: sealing, validation and the cipher (a capsule that is written can be opened,
  a PIN opens its envelope if the pepper is the same), a vault with no ciphertext yet, the fallback
  key store, the recovery code, errors of `saveData`, and the session beyond a curtain that goes away.
* **Wipe suppression**: a reset whose lease goes stale may still be removing files when another instance takes
  over.  How long a removal takes is bounded by nothing in the code; a model would assume the answer.
* **Server**: access revocation, connector OAuth, direct upload and history restore, the CRUD
  handlers, audit, e-mail, shares and metrics: mostly single conditional updates.

Ciphers, S3, DynamoDB and SES themselves are modelled only by what the code
relies on.  User interface, deployment and vendored code are not modelled.

What could come next, in this order: direct upload and history restore on top of `VaultWrites`
(they share its intents); restarts and the tombstones' stale retry in `OfflineQueue`; access
revocation against sessions already issued; renames and folders
in `WorkspaceReplica`.
