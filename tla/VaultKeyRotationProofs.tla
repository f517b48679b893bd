------------------------- MODULE VaultKeyRotationProofs -------------------------
(***************************************************************************)
(* Proofs about VaultKeyRotation for any number of files, jobs, deliveries,*)
(* clients and keys: no key is lost, the fence excludes, stamps are true   *)
(* and a retired key is not used again.                                    *)
(***************************************************************************)
EXTENDS VaultKeyRotation, TLAPS

USE RotationAssumption

(***************************************************************************)
(* Types.                                                                  *)
(***************************************************************************)
LEMMA InitTypes == RotationInit => RotationTypeOK
  BY DEF RotationInit, RotationTypeOK, Key, Resting, Delivery, Stage, Put, NoPut

LEMMA RestingTyped ==
  /\ Resting \in Delivery
  /\ \A j \in Job \union {None}, s \in Stage :
       [Resting EXCEPT !.stage = s, !.job = j] \in Delivery
<1>1. 0 \in Key /\ {} \subseteq File /\ "idle" \in Stage
  BY DEF Key, Stage
<1>2. Resting \in Delivery
  BY <1>1 DEF Resting, Delivery
<1>3. ASSUME NEW j \in Job \union {None}, NEW s \in Stage
      PROVE  [Resting EXCEPT !.stage = s, !.job = j] \in Delivery
  BY <1>1, <1>3 DEF Resting, Delivery
<1> QED
  BY <1>2, <1>3

\* Every step of a delivery leaves its record typed.
LEMMA DeliveriesKept ==
  ASSUME RotationTypeOK, NEW v \in Rotator, Rotating(v)
  PROVE  run' \in [Rotator -> Delivery]
<1>0. run \in [Rotator -> Delivery] /\ active \in Key /\ made \in Key
  BY DEF RotationTypeOK
<1>1. run[v] \in Delivery
  BY <1>0
<1>2. ASSUME NEW s \in Stage, Goes(v, s)
      PROVE  run' \in [Rotator -> Delivery]
  BY <1>0, <1>1, <1>2 DEF Goes, Delivery
<1>3. ASSUME Leaves(v)
      PROVE  run' \in [Rotator -> Delivery]
  <2>1. run[v].job \in Job \union {None} /\ "releasing" \in Stage
    BY <1>1 DEF Delivery, Stage
  <2>2. [Resting EXCEPT !.stage = "releasing", !.job = run[v].job] \in Delivery
    BY <2>1, RestingTyped
  <2> QED
    BY <1>0, <1>3, <2>2 DEF Leaves
<1>4. ASSUME NEW j \in Job, Deliver(v, j)
      PROVE  run' \in [Rotator -> Delivery]
  <2>1. [Resting EXCEPT !.stage = "started", !.job = j] \in Delivery
    BY RestingTyped DEF Stage
  <2> QED
    BY <1>0, <1>4, <2>1 DEF Deliver
<1>5. CASE AcquireLease(v)
  BY <1>2, <1>5 DEF AcquireLease, Stage
<1>6. CASE ResolveOldKey(v)
  BY <1>0, <1>1, <1>6 DEF ResolveOldKey, Delivery, Stage
<1>7. CASE PrepareKey(v)
  <2>1. made + 1 \in Key
    BY <1>0, <1>7 DEF PrepareKey, Key
  <2> QED
    BY <1>0, <1>1, <1>7, <2>1 DEF PrepareKey, Delivery, Stage
<1>8. ASSUME NEW f \in File, ReEncryptFile(v, f)
      PROVE  run' \in [Rotator -> Delivery]
  BY <1>0, <1>1, <1>8 DEF ReEncryptFile, Delivery
<1>9. CASE FinishFiles(v)
  BY <1>2, <1>9 DEF FinishFiles, Stage
<1>10. CASE CommitKey(v)
  BY <1>2, <1>10 DEF CommitKey, Stage
<1>11. ASSUME NEW f \in File, UndoFile(v, f)
       PROVE  run' \in [Rotator -> Delivery]
  BY <1>0, <1>1, <1>11 DEF UndoFile, Delivery
<1>12. CASE Report(v) \/ Throw(v)
  BY <1>3, <1>12 DEF Report, Throw
<1>13. CASE ReleaseLease(v) \/ Die(v)
  BY <1>0, <1>13, RestingTyped DEF ReleaseLease, Die
<1> QED
  BY <1>4, <1>5, <1>6, <1>7, <1>8, <1>9, <1>10, <1>11, <1>12, <1>13 DEF Rotating

LEMMA RotatingTyped ==
  ASSUME RotationTypeOK, NEW v \in Rotator, Rotating(v)
  PROVE  RotationTypeOK'
<1>0. run' \in [Rotator -> Delivery] /\ run[v] \in Delivery
  BY DeliveriesKept DEF RotationTypeOK
<1>00. /\ run[v].job \in Job \union {None} /\ run[v].old \in Key
       /\ run[v].new \in Key /\ run[v].previous \in Key
  BY <1>0 DEF Delivery
<1> USE DEF RotationTypeOK
<1>1. ASSUME NEW j \in Job, Deliver(v, j)
      PROVE  RotationTypeOK'
  BY <1>0, <1>1 DEF Deliver, files, keys, clients
<1>2. CASE AcquireLease(v) \/ ReleaseLease(v)
  BY <1>0, <1>00, <1>2 DEF AcquireLease, ReleaseLease, files, keys, clients
<1>3. CASE ResolveOldKey(v) \/ FinishFiles(v) \/ Throw(v) \/ Die(v)
  BY <1>0, <1>3 DEF ResolveOldKey, FinishFiles, Throw, Die, files, keys, clients
<1>4. CASE PrepareKey(v)
  <2>1. made + 1 \in Key
    BY <1>4 DEF PrepareKey, Key
  <2> QED
    BY <1>0, <1>4, <2>1 DEF PrepareKey, files, clients
<1>5. ASSUME NEW f \in File, ReEncryptFile(v, f)
      PROVE  RotationTypeOK'
  BY <1>0, <1>00, <1>5 DEF ReEncryptFile, Rewrite, files, keys, clients
<1>6. ASSUME NEW f \in File, UndoFile(v, f)
      PROVE  RotationTypeOK'
  BY <1>0, <1>00, <1>6 DEF UndoFile, Rewrite, files, keys, clients
<1>7. CASE CommitKey(v)
  BY <1>0, <1>00, <1>7 DEF CommitKey, files, clients
<1>8. CASE Report(v)
  BY <1>0, <1>00, <1>8 DEF Report, files, keys, clients
<1> QED
  BY <1>1, <1>2, <1>3, <1>4, <1>5, <1>6, <1>7, <1>8 DEF Rotating

LEMMA WritingTyped ==
  ASSUME RotationTypeOK, WritersHold, NEW c \in Client, Writing(c)
  PROVE  RotationTypeOK'
<1>0. put[c] \in Put
  BY DEF RotationTypeOK
<1> USE DEF RotationTypeOK
<1>1. CASE TakeLease(c)
  BY <1>1 DEF TakeLease, files, keys
<1>2. ASSUME NEW f \in File, BeginWrite(c, f)
      PROVE  RotationTypeOK'
  <2>1. [stage |-> "permitted", file |-> f, stamp |-> None] \in Put
    BY DEF Put
  <2> QED
    BY <1>2, <2>1 DEF BeginWrite, files, keys
<1>3. CASE ReadActiveKeyId(c)
  <2>1. PICK s \in {active, None} :
          put' = [put EXCEPT ![c].stage = "keyed", ![c].stamp = s]
    BY <1>3 DEF ReadActiveKeyId
  <2>2. [put[c] EXCEPT !.stage = "keyed", !.stamp = s] \in Put
    BY <1>0, <2>1 DEF Put
  <2>3. put' \in [Client -> Put]
    BY <2>1, <2>2
  <2> QED
    BY <1>3, <2>3 DEF ReadActiveKeyId, files, keys
<1>4. CASE WriteFile(c) \/ FailWrite(c)
  <2>1. NoPut \in Put
    BY DEF NoPut, Put
  <2>2. put[c].stamp \in Key \union {None} /\ put[c].stage \in {"idle", "permitted", "keyed"}
    BY <1>0 DEF Put
  <2>3. put[c].stage # "idle" => put[c].file \in File
    BY DEF WritersHold
  <2> QED
    BY <1>4, <2>1, <2>2, <2>3 DEF WriteFile, FailWrite, files, keys
<1> QED
  BY <1>1, <1>2, <1>3, <1>4 DEF Writing

LEMMA TypesKept ==
  ASSUME RotationTypeOK, WritersHold, [RotationNext]_rvars
  PROVE  RotationTypeOK'
<1>1. CASE UNCHANGED rvars
  BY <1>1 DEF RotationTypeOK, rvars
<1>2. CASE ExpireLease \/ ExpirePermit
  BY <1>2 DEF RotationTypeOK, ExpireLease, ExpirePermit, files, keys, clients
<1> QED
  BY <1>1, <1>2, RotatingTyped, WritingTyped DEF RotationNext

(***************************************************************************)
(* The fence.                                                              *)
(***************************************************************************)
OthersStay(v) == \A u \in Rotator \ {v} : run'[u] = run[u]

\* What a step of v means for the fence: it takes a job, the lease, a step that
\* relies on the lease, leaves for the finally block, or ends.
TakesJob(v) ==
  /\ run'[v].stage = "started"
  /\ run'[v].job \in Job
  /\ twins' = IF \E u \in Rotator : run[u].job = run'[v].job
              THEN twins \union {run'[v].job} ELSE twins
  /\ lessee' = lessee
TakesLease(v) ==
  /\ run[v].stage = "started" /\ run'[v].stage = "leased"
  /\ run'[v].job = run[v].job
  /\ lessee \in {None, run[v].job} /\ permit = None
  /\ lessee' = run[v].job /\ twins' = twins
Works(v) ==
  /\ run[v].stage \in Leased /\ run'[v].stage \in Leased
  /\ run'[v].job = run[v].job
  /\ lessee' = lessee /\ twins' = twins
Retreats(v) ==
  /\ run[v].stage # "idle" /\ run'[v].stage = "releasing"
  /\ run'[v].job = run[v].job
  /\ lessee' = lessee /\ twins' = twins
Stops(v) ==
  /\ run[v].stage # "idle" /\ run'[v].stage = "idle"
  /\ run'[v].job = None
  /\ lessee' = lessee \/ (lessee = run[v].job /\ lessee' = None)
  /\ twins' = twins

LEMMA RotatorSteps ==
  ASSUME RotationTypeOK, NEW v \in Rotator, Rotating(v)
  PROVE  /\ OthersStay(v) /\ permit' = permit /\ put' = put
         /\ TakesJob(v) \/ TakesLease(v) \/ Works(v) \/ Retreats(v) \/ Stops(v)
<1>0. run \in [Rotator -> Delivery] /\ run[v] \in Delivery
  BY DEF RotationTypeOK
<1>1. run[v] = [run[v] EXCEPT !.job = run[v].job] /\ DOMAIN run = Rotator
  BY <1>0 DEF Delivery
<1> USE DEF OthersStay, clients, At
<1>2. ASSUME NEW j \in Job, Deliver(v, j)
      PROVE  OthersStay(v) /\ permit' = permit /\ put' = put /\ TakesJob(v)
  BY <1>0, <1>2 DEF Deliver, TakesJob, Resting
<1>3. CASE AcquireLease(v)
  <2>1. OthersStay(v) /\ permit' = permit /\ put' = put /\ TakesLease(v)
    BY <1>0, <1>3 DEF AcquireLease, Goes, TakesLease, Delivery
  <2> QED
    BY <2>1
<1>4. ASSUME \/ ResolveOldKey(v) \/ PrepareKey(v)
             \/ \E f \in File : ReEncryptFile(v, f) \/ UndoFile(v, f)
             \/ FinishFiles(v) \/ CommitKey(v)
      PROVE  OthersStay(v) /\ permit' = permit /\ put' = put /\ Works(v)
  <2>1. ASSUME NEW s \in Leased, run[v].stage \in Leased, Goes(v, s)
        PROVE  run'[v].stage \in Leased /\ run'[v].job = run[v].job /\ OthersStay(v)
    BY <1>0, <2>1 DEF Goes, Delivery
  <2>2. CASE ResolveOldKey(v)
    BY <1>0, <1>4, <2>2 DEF ResolveOldKey, Works, Leased, Stage, Delivery
  <2>3. CASE PrepareKey(v)
    BY <1>0, <1>4, <2>3 DEF PrepareKey, Works, Leased, Stage, Delivery
  <2>4. ASSUME NEW f \in File, ReEncryptFile(v, f)
        PROVE  OthersStay(v) /\ permit' = permit /\ put' = put /\ Works(v)
    BY <1>0, <2>4 DEF ReEncryptFile, Works, Leased, Stage, Delivery
  <2>5. ASSUME NEW f \in File, UndoFile(v, f)
        PROVE  OthersStay(v) /\ permit' = permit /\ put' = put /\ Works(v)
    BY <1>0, <2>5 DEF UndoFile, Works, Leased, Stage, Delivery
  <2>6. CASE FinishFiles(v) \/ CommitKey(v)
    BY <2>1, <2>6 DEF FinishFiles, CommitKey, Works, Leased, Stage
  <2> QED
    BY <1>4, <2>2, <2>3, <2>4, <2>5, <2>6
<1>5. ASSUME Report(v) \/ Throw(v)
      PROVE  OthersStay(v) /\ permit' = permit /\ put' = put /\ Retreats(v)
  BY <1>0, <1>5 DEF Report, Throw, Leaves, Retreats, Resting, Stage
<1>6. ASSUME ReleaseLease(v) \/ Die(v)
      PROVE  OthersStay(v) /\ permit' = permit /\ put' = put /\ Stops(v)
  BY <1>0, <1>6 DEF ReleaseLease, Die, Stops, Resting
<1> QED
  BY <1>2, <1>3, <1>4, <1>5, <1>6 DEF Rotating

LEMMA InitFence == RotationInit => FenceInv
  BY DEF RotationInit, FenceInv, WritersHold, OneSide, RotatorsHold, TwinsAreKnown,
         Resting, NoPut, Leased, Stage

LEMMA RotatingFenced ==
  ASSUME RotationTypeOK, FenceInv, NEW v \in Rotator, Rotating(v)
  PROVE  FenceInv'
<1>1. /\ OthersStay(v) /\ permit' = permit /\ put' = put
      /\ TakesJob(v) \/ TakesLease(v) \/ Works(v) \/ Retreats(v) \/ Stops(v)
  BY RotatorSteps
<1>2. WritersHold'
  BY <1>1 DEF FenceInv, WritersHold
<1>3. OneSide'
  BY <1>1 DEF FenceInv, OneSide, TakesJob, TakesLease, Works, Retreats, Stops
<1>4. TwinsAreKnown'
  BY <1>1 DEF FenceInv, TwinsAreKnown, OthersStay, TakesJob, TakesLease, Works,
              Retreats, Stops
<1>5. RotatorsHold'
  <2>1. ASSUME NEW u \in Rotator, run'[u].stage # "idle"
        PROVE  run'[u].job # None
    BY <1>1, <2>1 DEF FenceInv, RotatorsHold, OthersStay, TakesJob, TakesLease, Works,
                      Retreats, Stops, Leased
  <2>2. ASSUME NEW u \in Rotator, run'[u].stage \in Leased, run'[u].job \notin twins'
        PROVE  lessee' = run'[u].job
    <3>1. CASE TakesJob(v)
      BY <1>1, <2>2, <3>1 DEF FenceInv, RotatorsHold, OthersStay, TakesJob, Leased
    <3>2. CASE Works(v) \/ Retreats(v)
      BY <1>1, <2>2, <3>2 DEF FenceInv, RotatorsHold, OthersStay, Works, Retreats, Leased
    <3>3. CASE TakesLease(v) \/ Stops(v)
      <4>1. CASE u = v
        BY <2>2, <3>3, <4>1 DEF TakesLease, Stops, Leased
      <4>2. CASE u # v
        <5>1. run'[u] = run[u] /\ twins' = twins
          BY <1>1, <3>3, <4>2 DEF OthersStay, TakesLease, Stops
        <5>2. lessee = run[u].job /\ run[u].job # None
          BY <2>2, <5>1 DEF FenceInv, RotatorsHold, Leased
        <5>3. run[v].job # run[u].job
          BY <2>2, <4>2, <5>1, <5>2 DEF FenceInv, TwinsAreKnown
        <5> QED
          BY <3>3, <5>1, <5>2, <5>3 DEF TakesLease, Stops
      <4> QED
        BY <4>1, <4>2
    <3> QED
      BY <1>1, <3>1, <3>2, <3>3
  <2> QED
    BY <2>1, <2>2 DEF RotatorsHold
<1> QED
  BY <1>2, <1>3, <1>4, <1>5 DEF FenceInv

\* What a step of c means for the fence.
LEMMA WriterSteps ==
  ASSUME RotationTypeOK, FenceInv, NEW c \in Client, Writing(c)
  PROVE  /\ UNCHANGED <<run, lessee, twins, keys, retired>>
         /\ \A d \in Client \ {c} : put'[d] = put[d]
         /\ \/ put'[c] = put[c] /\ permit' = permit
            \/ /\ permit = None /\ lessee = None /\ permit' = c
               /\ put'[c].file \in File
            \/ /\ put[c].stage # "idle" /\ put'[c].file = put[c].file
               /\ permit' = permit
            \/ /\ put[c].stage # "idle" /\ put'[c].stage = "idle"
               /\ permit' \in {permit, None}
<1>0. put \in [Client -> Put] /\ put[c] \in Put
  BY DEF RotationTypeOK
<1>1. CASE TakeLease(c)
  BY <1>1 DEF TakeLease, keys
<1>2. ASSUME NEW f \in File, BeginWrite(c, f)
      PROVE  /\ UNCHANGED <<run, lessee, twins, keys, retired>>
             /\ \A d \in Client \ {c} : put'[d] = put[d]
             /\ permit = None /\ lessee = None /\ permit' = c
             /\ put'[c].file \in File
  BY <1>0, <1>2 DEF BeginWrite, keys
<1>3. CASE ReadActiveKeyId(c)
  <2>1. PICK s \in {active, None} :
          put' = [put EXCEPT ![c].stage = "keyed", ![c].stamp = s]
    BY <1>3 DEF ReadActiveKeyId
  <2>2. put'[c].file = put[c].file /\ \A d \in Client \ {c} : put'[d] = put[d]
    BY <1>0, <2>1 DEF Put
  <2> QED
    BY <1>3, <2>2 DEF ReadActiveKeyId, keys
<1>4. CASE WriteFile(c) \/ FailWrite(c)
  BY <1>0, <1>4 DEF WriteFile, FailWrite, NoPut, keys
<1> QED
  BY <1>1, <1>2, <1>3, <1>4 DEF Writing

LEMMA WritingFenced ==
  ASSUME RotationTypeOK, FenceInv, NEW c \in Client, Writing(c)
  PROVE  FenceInv'
<1>1. RotatorsHold' /\ TwinsAreKnown'
  BY WriterSteps DEF FenceInv, RotatorsHold, TwinsAreKnown
<1>2. OneSide'
  BY WriterSteps DEF FenceInv, OneSide
<1>3. WritersHold'
  BY WriterSteps DEF FenceInv, WritersHold
<1> QED
  BY <1>1, <1>2, <1>3 DEF FenceInv

LEMMA FenceKept ==
  ASSUME RotationTypeOK, FenceInv, [RotationNext]_rvars
  PROVE  FenceInv'
<1>1. CASE UNCHANGED rvars
  BY <1>1 DEF rvars, FenceInv, WritersHold, OneSide, RotatorsHold, TwinsAreKnown
<1>2. CASE ExpireLease
  <2>1. ASSUME NEW v \in Rotator, run[v].stage \in Leased, run[v].job \notin twins
        PROVE  FALSE
    BY <1>2, <2>1 DEF ExpireLease, FenceInv, RotatorsHold
  <2> QED
    BY <1>2, <2>1 DEF ExpireLease, clients, FenceInv, WritersHold, OneSide,
                      RotatorsHold, TwinsAreKnown
<1>3. CASE ExpirePermit
  BY <1>3 DEF ExpirePermit, FenceInv, WritersHold, OneSide, RotatorsHold, TwinsAreKnown
<1> QED
  BY <1>1, <1>2, <1>3, RotatingFenced, WritingFenced DEF RotationNext

\* While a delivery relies on the lease no client writes.
LEMMA Excluded ==
  ASSUME FenceInv, NEW v \in Rotator, run[v].stage \in Leased, run[v].job \notin twins
  PROVE  \A c \in Client : put[c].stage = "idle"
<1>1. lessee = run[v].job /\ lessee # None
  BY DEF FenceInv, RotatorsHold, Leased
<1>2. permit = None
  BY <1>1 DEF FenceInv, OneSide
<1> QED
  BY <1>2 DEF FenceInv, WritersHold

(***************************************************************************)
(* The types hold, and the fence excludes.                                 *)
(***************************************************************************)
\* Every file, key row, delivery and write keeps its type.
THEOREM RotationTypesHold == RotationSpec => [](RotationTypeOK /\ FenceInv)
<1>1. RotationInit => RotationTypeOK /\ FenceInv
  BY InitTypes, InitFence
<1>2. RotationTypeOK /\ FenceInv /\ [RotationNext]_rvars => (RotationTypeOK /\ FenceInv)'
  BY TypesKept, FenceKept DEF FenceInv
<1> QED
  BY <1>1, <1>2, PTL DEF RotationSpec

\* acquireRotationLease's promise: from its return to the release no write is at
\* work, for any number of deliveries and clients.
THEOREM FenceHolds == RotationSpec => []FenceExcludes
<1>1. FenceInv => FenceExcludes
  BY Excluded DEF FenceExcludes
<1> QED
  BY <1>1, RotationTypesHold, PTL

(***************************************************************************)
(* No key is lost.                                                         *)
(***************************************************************************)
LEMMA StoredStays ==
  ASSUME RotationTypeOK, [RotationNext]_rvars
  PROVE  /\ \A k \in Key : Stored(k) => Stored(k)'
         /\ Stored(active)'
<1>1. CASE UNCHANGED keys
  BY <1>1 DEF keys, Stored
<1>2. ASSUME NEW v \in Rotator, PrepareKey(v)
      PROVE  \A k \in Key : Stored(k) => Stored(k)'
  BY <1>2 DEF PrepareKey, Stored, RotationTypeOK
<1>3. ASSUME NEW v \in Rotator, CommitKey(v)
      PROVE  \A k \in Key : Stored(k) => Stored(k)'
  BY <1>3 DEF CommitKey, Committable, Stored, RotationTypeOK
<1>4. \/ UNCHANGED keys
      \/ \E v \in Rotator : PrepareKey(v) \/ CommitKey(v)
  <2>1. ASSUME NEW v \in Rotator, Rotating(v)
        PROVE  UNCHANGED keys \/ PrepareKey(v) \/ CommitKey(v)
    BY <2>1 DEF Rotating, Deliver, AcquireLease, ResolveOldKey, ReEncryptFile,
                FinishFiles, UndoFile, Report, Throw, ReleaseLease, Die
  <2>2. ASSUME NEW c \in Client, Writing(c)
        PROVE  UNCHANGED keys
    BY <2>2 DEF Writing, TakeLease, BeginWrite, ReadActiveKeyId, WriteFile, FailWrite
  <2>3. CASE UNCHANGED rvars \/ ExpireLease \/ ExpirePermit
    BY <2>3 DEF rvars, keys, ExpireLease, ExpirePermit
  <2> QED
    BY <2>1, <2>2, <2>3 DEF RotationNext
<1>5. Stored(active)'
  BY DEF Stored
<1> QED
  BY <1>1, <1>2, <1>3, <1>4, <1>5

\* What a step of v does to the keys it works with.
KeepsKeys(v) ==
  /\ run[v].stage \in KnowsNew /\ run'[v].stage \in KnowsNew
  /\ run'[v].old = run[v].old /\ run'[v].new = run[v].new
LearnsOld(v) ==
  run'[v].stage = "resolved" /\ run'[v].old = active /\ active' = active
LearnsNew(v) ==
  /\ run[v].stage = "resolved" /\ run'[v].stage = "rewriting"
  /\ run'[v].old = run[v].old /\ run'[v].new = made + 1
  /\ made' = made + 1 /\ active' = active
  /\ keyRow' = [keyRow EXCEPT ![made + 1] = "prepared"]
  /\ made + 1 \in Key

LEMMA KeyWorkSteps ==
  ASSUME RotationTypeOK, NEW v \in Rotator, Rotating(v)
  PROVE  /\ \/ run'[v].stage \notin KnowsOld
            \/ LearnsOld(v) \/ LearnsNew(v) \/ KeepsKeys(v)
         /\ \/ UNCHANGED files
            \/ /\ run[v].stage = "rewriting" /\ UNCHANGED <<keys, retired, twins>>
               /\ \E f \in File : Rewrite(f, run[v].old, run[v].new)
            \/ /\ run[v].stage = "undoing" /\ UNCHANGED <<keys, retired, twins>>
               /\ \E f \in File : Rewrite(f, run[v].new, run[v].old)
         /\ UNCHANGED <<lease, put>>
<1>0. run \in [Rotator -> Delivery] /\ run[v] \in Delivery /\ made \in Key
  BY DEF RotationTypeOK
<1> USE DEF KnowsOld, KnowsNew, At, clients
<1>1. ASSUME NEW s \in KnowsNew, run[v].stage \in KnowsNew, Goes(v, s)
      PROVE  KeepsKeys(v)
  BY <1>0, <1>1 DEF Goes, KeepsKeys, Delivery
<1>2. ASSUME NEW j \in Job, Deliver(v, j)
      PROVE  run'[v].stage \notin KnowsOld /\ UNCHANGED <<files, lease, put>>
  BY <1>0, <1>2 DEF Deliver, Resting
<1>3. CASE AcquireLease(v)
  BY <1>0, <1>3 DEF AcquireLease, Goes, Delivery
<1>4. CASE ResolveOldKey(v)
  <2>1. LearnsOld(v)
    BY <1>0, <1>4 DEF ResolveOldKey, LearnsOld, Delivery, keys
  <2> QED
    BY <1>4, <2>1 DEF ResolveOldKey
<1>5. CASE PrepareKey(v)
  <2>1. made + 1 \in Key
    BY <1>0, <1>5 DEF PrepareKey, Key
  <2>2. LearnsNew(v)
    BY <1>0, <1>5, <2>1 DEF PrepareKey, LearnsNew, Delivery
  <2> QED
    BY <1>5, <2>2 DEF PrepareKey
<1>6. ASSUME NEW f \in File, ReEncryptFile(v, f)
      PROVE  /\ KeepsKeys(v) /\ UNCHANGED <<lease, put>>
             /\ run[v].stage = "rewriting" /\ UNCHANGED <<keys, retired, twins>>
             /\ UNCHANGED files \/ Rewrite(f, run[v].old, run[v].new)
  <2>1. KeepsKeys(v)
    BY <1>0, <1>6 DEF ReEncryptFile, KeepsKeys, Delivery
  <2> QED
    BY <1>6, <2>1 DEF ReEncryptFile
<1>7. ASSUME NEW f \in File, UndoFile(v, f)
      PROVE  /\ KeepsKeys(v) /\ UNCHANGED <<lease, put>>
             /\ run[v].stage = "undoing" /\ UNCHANGED <<keys, retired, twins>>
             /\ UNCHANGED files \/ Rewrite(f, run[v].new, run[v].old)
  <2>1. KeepsKeys(v)
    BY <1>0, <1>7 DEF UndoFile, KeepsKeys, Delivery
  <2> QED
    BY <1>7, <2>1 DEF UndoFile
<1>8. CASE FinishFiles(v) \/ CommitKey(v)
  <2>1. KeepsKeys(v)
    BY <1>1, <1>8 DEF FinishFiles, CommitKey
  <2> QED
    BY <1>8, <2>1 DEF FinishFiles, CommitKey
<1>9. CASE Report(v) \/ Throw(v)
  BY <1>0, <1>9 DEF Report, Throw, Leaves, Resting
<1>10. CASE ReleaseLease(v) \/ Die(v)
  BY <1>0, <1>10 DEF ReleaseLease, Die, Resting
<1> QED
  BY <1>2, <1>3, <1>4, <1>5, <1>6, <1>7, <1>8, <1>9, <1>10 DEF Rotating

KeysInv == KeysAreStored /\ WorkKeysAreStored

LEMMA InitKeys == RotationInit => KeysInv
  BY DEF RotationInit, KeysInv, KeysAreStored, WorkKeysAreStored, Stored, Resting,
         KnowsOld, KnowsNew

LEMMA RotatingKeepsKeys ==
  ASSUME RotationTypeOK, KeysInv, NEW v \in Rotator, Rotating(v), [RotationNext]_rvars
  PROVE  KeysInv'
<1>0. /\ dek \in [File -> Key] /\ stamp \in [File -> Key \union {None}]
      /\ lease \in [Client -> Key] /\ active \in Key
      /\ \A u \in Rotator : run[u] \in Delivery
      /\ \A u \in Rotator : run[u].old \in Key /\ run[u].new \in Key
  <2>1. ASSUME NEW u \in Rotator
        PROVE  run[u] \in Delivery
    BY DEF RotationTypeOK
  <2> QED
    BY <2>1 DEF RotationTypeOK, Delivery
<1>1. \A k \in Key : Stored(k) => Stored(k)'
  BY StoredStays
<1>2. OthersStay(v)
  BY RotatorSteps
<1>3. /\ run[v].stage \in KnowsOld => Stored(run[v].old)
      /\ run[v].stage \in KnowsNew => Stored(run[v].new)
  BY DEF KeysInv, WorkKeysAreStored
<1>4. WorkKeysAreStored'
  <2>1. ASSUME NEW u \in Rotator, u # v
        PROVE  /\ run'[u].stage \in KnowsOld => Stored(run[u].old)'
               /\ run'[u].stage \in KnowsNew => Stored(run[u].new)'
    <3>1. run'[u] = run[u]
      BY <1>2, <2>1 DEF OthersStay
    <3>2. /\ run[u].stage \in KnowsOld => Stored(run[u].old)
          /\ run[u].stage \in KnowsNew => Stored(run[u].new)
      BY DEF KeysInv, WorkKeysAreStored
    <3> QED
      BY <1>0, <1>1, <3>1, <3>2 DEF Stored
  <2>2. /\ run'[v].stage \in KnowsOld => Stored(run[v].old)'
        /\ run'[v].stage \in KnowsNew => Stored(run[v].new)'
    <3>1. CASE run'[v].stage \notin KnowsOld
      BY <3>1 DEF KnowsNew
    <3>2. CASE LearnsOld(v)
      BY <3>2 DEF LearnsOld, KnowsNew, Stored
    <3>3. CASE LearnsNew(v)
      <4>1. Stored(run[v].new)'
        BY <3>3 DEF LearnsNew, Stored, RotationTypeOK
      <4> QED
        BY <1>0, <1>1, <1>3, <3>3, <4>1 DEF LearnsNew, KnowsOld, Stored
    <3>4. CASE KeepsKeys(v)
      BY <1>0, <1>1, <1>3, <3>4 DEF KeepsKeys, KnowsNew, Stored
    <3> QED
      BY <3>1, <3>2, <3>3, <3>4, KeyWorkSteps
  <2> QED
    BY <2>1, <2>2 DEF WorkKeysAreStored
<1>5. KeysAreStored'
  <2>1. lease' = lease
    BY KeyWorkSteps
  <2>2. ASSUME NEW f \in File
        PROVE  Stored(dek[f])' /\ (stamp'[f] # None => Stored(stamp[f])')
    <3>1. Stored(dek[f]) /\ (stamp[f] # None => Stored(stamp[f]))
      BY DEF KeysInv, KeysAreStored
    <3>2. CASE UNCHANGED files
      BY <1>0, <1>1, <3>1, <3>2 DEF files, Stored
    <3>3. ASSUME NEW k \in Key, Stored(k), NEW g \in File,
                 dek' = [dek EXCEPT ![g] = k], stamp' = [stamp EXCEPT ![g] = k]
          PROVE  Stored(dek[f])' /\ (stamp'[f] # None => Stored(stamp[f])')
      BY <1>0, <1>1, <3>1, <3>3 DEF Stored
    <3> QED
      BY <1>0, <1>3, <3>2, <3>3, KeyWorkSteps DEF Rewrite, KnowsOld, KnowsNew
  <2>3. ASSUME NEW c \in Client
        PROVE  Stored(lease[c])'
    BY <1>0, <1>1, <2>1 DEF KeysInv, KeysAreStored, Stored
  <2> QED
    BY <2>2, <2>3 DEF KeysAreStored
<1> QED
  BY <1>4, <1>5 DEF KeysInv

LEMMA WritingKeepsKeys ==
  ASSUME RotationTypeOK, KeysInv, FenceInv, PutsAreStamped,
         NEW c \in Client, Writing(c)
  PROVE  KeysInv'
<1>0. /\ dek \in [File -> Key] /\ stamp \in [File -> Key \union {None}]
      /\ lease \in [Client -> Key] /\ active \in Key
  BY DEF RotationTypeOK
<1>1. run' = run /\ keyRow' = keyRow /\ active' = active
  BY WriterSteps DEF keys
<1>2. WorkKeysAreStored'
  BY <1>1 DEF KeysInv, WorkKeysAreStored, Stored
<1>3. KeysAreStored'
  <2>1. CASE TakeLease(c)
    BY <1>0, <1>1, <2>1 DEF TakeLease, files, KeysInv, KeysAreStored, Stored
  <2>2. ASSUME UNCHANGED <<files, lease>>
        PROVE  KeysAreStored'
    BY <1>1, <2>2 DEF files, KeysInv, KeysAreStored, Stored
  <2>3. CASE WriteFile(c)
    <3>1. put[c].stamp \in {active, None} /\ Stored(lease[c])
      BY <2>3 DEF WriteFile, PutsAreStamped, KeysInv, KeysAreStored
    <3> QED
      BY <1>0, <1>1, <2>3, <3>1 DEF WriteFile, KeysInv, KeysAreStored, Stored
  <2> QED
    BY <2>1, <2>2, <2>3 DEF Writing, BeginWrite, ReadActiveKeyId, FailWrite
<1> QED
  BY <1>2, <1>3 DEF KeysInv

(***************************************************************************)
(* Stamps are true.                                                        *)
(***************************************************************************)
StampsInv == PutsAreStamped /\ StampsAreTrue

LEMMA InitStamps == RotationInit => StampsInv
  BY DEF RotationInit, StampsInv, PutsAreStamped, StampsAreTrue, NoPut

\* The active key changes only while the rotator has the fence.
LEMMA CommitExcludes ==
  ASSUME RotationTypeOK, FenceInv, NEW v \in Rotator, Rotating(v), active' # active
  PROVE  \A c \in Client : put[c].stage = "idle"
<1>1. CommitKey(v)
  BY DEF Rotating, keys, Deliver, AcquireLease, ResolveOldKey, PrepareKey,
         ReEncryptFile, FinishFiles, UndoFile, Report, Throw, ReleaseLease, Die
<1>2. lessee = run[v].job /\ run[v].job # None
  BY <1>1 DEF CommitKey, Committable, At, FenceInv, RotatorsHold
<1>3. permit = None
  BY <1>2 DEF FenceInv, OneSide
<1> QED
  BY <1>3 DEF FenceInv, WritersHold

LEMMA StampsKept ==
  ASSUME RotationTypeOK, FenceInv, StampsInv, [RotationNext]_rvars
  PROVE  StampsInv'
<1>0. /\ dek \in [File -> Key] /\ stamp \in [File -> Key \union {None}]
      /\ put \in [Client -> Put]
  BY DEF RotationTypeOK
<1>1. CASE UNCHANGED rvars \/ ExpireLease \/ ExpirePermit
  BY <1>1 DEF rvars, ExpireLease, ExpirePermit, files, keys, clients, StampsInv,
              PutsAreStamped, StampsAreTrue
<1>2. ASSUME NEW v \in Rotator, Rotating(v)
      PROVE  StampsInv'
  <2>1. put' = put
    BY <1>2, RotatorSteps
  <2>2. PutsAreStamped'
    BY <1>2, <2>1, CommitExcludes DEF StampsInv, PutsAreStamped
  <2>3. ASSUME NEW g \in File, NEW k, NEW j, Rewrite(g, j, k)
        PROVE  StampsAreTrue'
    BY <1>0, <2>3 DEF Rewrite, StampsInv, StampsAreTrue
  <2>4. StampsAreTrue'
    BY <1>2, <2>3, KeyWorkSteps DEF files, StampsInv, StampsAreTrue
  <2> QED
    BY <2>2, <2>4 DEF StampsInv
<1>3. ASSUME NEW c \in Client, Writing(c)
      PROVE  StampsInv'
  <2>0. active' = active /\ \A d \in Client \ {c} : put'[d] = put[d]
    BY <1>3, WriterSteps DEF keys
  <2>1. put'[c].stage = "keyed" => put'[c].stamp \in {active, None}
    <3>1. CASE ReadActiveKeyId(c)
      <4>1. PICK s \in {active, None} :
              put' = [put EXCEPT ![c].stage = "keyed", ![c].stamp = s]
        BY <3>1 DEF ReadActiveKeyId
      <4>2. put'[c].stamp = s
        BY <1>0, <4>1 DEF Put
      <4> QED
        BY <4>2
    <3>2. CASE TakeLease(c)
      BY <3>2 DEF TakeLease, StampsInv, PutsAreStamped
    <3>3. CASE (\E f \in File : BeginWrite(c, f)) \/ WriteFile(c) \/ FailWrite(c)
      BY <1>0, <3>3 DEF BeginWrite, WriteFile, FailWrite, NoPut
    <3> QED
      BY <1>3, <3>1, <3>2, <3>3 DEF Writing
  <2>2. PutsAreStamped'
    BY <2>0, <2>1 DEF StampsInv, PutsAreStamped
  <2>3. StampsAreTrue'
    <3>1. CASE WriteFile(c)
      <4>1. put[c].stamp \in {active, None}
        BY <3>1 DEF WriteFile, StampsInv, PutsAreStamped
      <4> QED
        BY <1>0, <3>1, <4>1 DEF WriteFile, StampsInv, StampsAreTrue
    <3>2. CASE UNCHANGED files
      BY <3>2 DEF files, StampsInv, StampsAreTrue
    <3> QED
      BY <1>3, <3>1, <3>2 DEF Writing, TakeLease, BeginWrite, ReadActiveKeyId, FailWrite
  <2> QED
    BY <2>2, <2>3 DEF StampsInv
<1> QED
  BY <1>1, <1>2, <1>3 DEF RotationNext

\* A stamp that is not true belongs to a file whose last writer used a lease of an
\* older key (handleWriteFile); rotations never leave one.
THEOREM StampsHold == RotationSpec => [](PutsAreStamped /\ StampsAreTrue)
<1>1. RotationTypeOK /\ FenceInv /\ StampsInv /\ [RotationNext]_rvars => StampsInv'
  BY StampsKept
<1>2. StampsInv <=> PutsAreStamped /\ StampsAreTrue
  BY DEF StampsInv
<1> QED
  BY <1>1, <1>2, InitStamps, RotationTypesHold, PTL DEF RotationSpec

LEMMA KeysKept ==
  ASSUME RotationTypeOK, FenceInv, StampsInv, KeysInv, [RotationNext]_rvars
  PROVE  KeysInv'
<1>1. CASE UNCHANGED rvars \/ ExpireLease \/ ExpirePermit
  BY <1>1 DEF rvars, ExpireLease, ExpirePermit, files, keys, clients, KeysInv,
              KeysAreStored, WorkKeysAreStored, Stored
<1> QED
  BY <1>1, RotatingKeepsKeys, WritingKeepsKeys DEF RotationNext, StampsInv

\* Key material is never lost: the keys of all files, stamps and leases are stored
\* through every crash, roll-back and lost answer of executeReEncryptionJob.
THEOREM KeysHold == RotationSpec => []KeysAreStored
<1>1. RotationTypeOK /\ FenceInv /\ StampsInv /\ KeysInv /\ [RotationNext]_rvars
      => KeysInv'
  BY KeysKept
<1>2. /\ KeysInv => KeysAreStored
      /\ PutsAreStamped /\ StampsAreTrue => StampsInv
  BY DEF KeysInv, StampsInv
<1> QED
  BY <1>1, <1>2, InitKeys, RotationTypesHold, StampsHold, PTL DEF RotationSpec

(***************************************************************************)
(* A retired key is not used again.                                        *)
(***************************************************************************)
RetiredInv == twins = {} => KeysAreFresh /\ WorkIsKept /\ RetiredIsUnused

LEMMA InitRetired == RotationInit => RetiredInv
  BY DEF RotationInit, RetiredInv, KeysAreFresh, WorkIsKept, RetiredIsUnused,
         Resting, KnowsOld, KnowsNew

\* Where no two deliveries shared a job, one at most relies on the lease.
LEMMA OneLeased ==
  ASSUME FenceInv, twins = {}, NEW u \in Rotator, NEW v \in Rotator,
         run[u].stage \in Leased, run[v].stage \in Leased
  PROVE  u = v
<1>1. run[u].job = lessee /\ run[v].job = lessee /\ run[u].job # None
  BY DEF FenceInv, RotatorsHold, Leased
<1> QED
  BY <1>1 DEF FenceInv, TwinsAreKnown

LEMMA TwinsRemain ==
  ASSUME RotationTypeOK, NEW v \in Rotator, Rotating(v)
  PROVE  twins \subseteq twins'
  BY RotatorSteps DEF TakesJob, TakesLease, Works, Retreats, Stops

\* What a step of v does to the active key and to those retired.
LEMMA RetiringSteps ==
  ASSUME RotationTypeOK, NEW v \in Rotator, Rotating(v)
  PROVE  /\ made' \in Nat /\ made <= made'
         /\ \/ UNCHANGED <<active, retired>>
            \/ /\ run[v].stage = "rewritten" /\ active' = run[v].new
               /\ UNCHANGED <<retired, files>>
            \/ /\ run[v].stage = "committed" /\ run'[v].stage = "releasing"
               /\ retired' = retired \union {run[v].old}
               /\ UNCHANGED <<active, files>>
<1>0. run \in [Rotator -> Delivery] /\ made \in Nat
  BY DEF RotationTypeOK, Key
<1>1. CASE CommitKey(v)
  BY <1>0, <1>1 DEF CommitKey, At
<1>2. CASE Report(v)
  BY <1>0, <1>2 DEF Report, Leaves, At, Resting, keys
<1>3. CASE PrepareKey(v)
  BY <1>0, <1>3 DEF PrepareKey
<1>4. CommitKey(v) \/ Report(v) \/ PrepareKey(v) \/ UNCHANGED <<keys, retired>>
  BY DEF Rotating, Deliver, AcquireLease, ResolveOldKey, ReEncryptFile,
         FinishFiles, UndoFile, Throw, ReleaseLease, Die
<1> QED
  BY <1>0, <1>1, <1>2, <1>3, <1>4 DEF keys

\* The numbers compared by KeysAreFresh.
LEMMA KeyNumbers ==
  ASSUME RotationTypeOK
  PROVE  /\ made \in Nat /\ active \in Nat
         /\ \A v \in Rotator : run[v].old \in Nat /\ run[v].new \in Nat
         /\ \A k \in retired : k \in Nat
<1>1. made \in Key /\ active \in Key /\ retired \subseteq Key
  BY DEF RotationTypeOK
<1>2. ASSUME NEW v \in Rotator
      PROVE  run[v].old \in Key /\ run[v].new \in Key
  <2>1. run[v] \in Delivery
    BY DEF RotationTypeOK
  <2> QED
    BY <2>1 DEF Delivery
<1>3. \A k \in Key : k \in Nat
  BY DEF Key
<1> QED
  BY <1>1, <1>2, <1>3

LEMMA FreshKept ==
  ASSUME RotationTypeOK, FenceInv, twins = {}, KeysAreFresh, WorkIsKept,
         NEW v \in Rotator, Rotating(v)
  PROVE  KeysAreFresh'
<1>0. /\ made \in Nat /\ active \in Nat /\ made' \in Nat /\ made <= made'
      /\ \A u \in Rotator : run[u].old \in Nat /\ run[u].new \in Nat
      /\ \A k \in retired : k \in Nat
  BY KeyNumbers, RetiringSteps
<1>1. OthersStay(v)
  BY RotatorSteps
<1>2. /\ run[v].stage \in KnowsOld => run[v].old <= made /\ run[v].old \notin retired
      /\ run[v].stage \in KnowsNew =>
           run[v].new <= made /\ run[v].new \notin retired /\ run[v].new # run[v].old
  BY DEF KeysAreFresh
<1>3. CASE run[v].stage = "committed" /\ run'[v].stage = "releasing"
  <2>1. /\ retired' \subseteq retired \union {run[v].old} /\ active' = active
        /\ active = run[v].new
    BY <1>3, RetiringSteps DEF WorkIsKept
  <2>2. \A u \in Rotator : run'[u].stage \notin KnowsOld
    BY <1>1, <1>3, OneLeased DEF OthersStay, KnowsOld, Leased, Stage
  <2> QED
    BY <1>0, <1>2, <1>3, <2>1, <2>2 DEF KeysAreFresh, KnowsOld, KnowsNew
<1>4. CASE ~(run[v].stage = "committed" /\ run'[v].stage = "releasing")
  <2>1. retired' = retired
    BY <1>4, RetiringSteps
  <2>2. active' <= made' /\ active' \notin retired'
    BY <1>0, <1>2, <1>4, <2>1, RetiringSteps DEF KeysAreFresh, KnowsOld, KnowsNew
  <2>3. \A k \in retired' : k <= made'
    BY <1>0, <2>1 DEF KeysAreFresh
  <2>4. ASSUME NEW u \in Rotator, u # v
        PROVE  /\ run'[u].stage \in KnowsOld =>
                    run'[u].old <= made' /\ run'[u].old \notin retired'
               /\ run'[u].stage \in KnowsNew =>
                    /\ run'[u].new <= made' /\ run'[u].new \notin retired'
                    /\ run'[u].new # run'[u].old
    BY <1>0, <1>1, <2>1, <2>4 DEF KeysAreFresh, OthersStay
  <2>5. /\ run'[v].stage \in KnowsOld =>
             run'[v].old <= made' /\ run'[v].old \notin retired'
        /\ run'[v].stage \in KnowsNew =>
             /\ run'[v].new <= made' /\ run'[v].new \notin retired'
             /\ run'[v].new # run'[v].old
    <3>1. CASE run'[v].stage \notin KnowsOld
      BY <3>1 DEF KnowsNew
    <3>2. CASE LearnsOld(v)
      BY <1>0, <2>1, <3>2 DEF LearnsOld, KnowsNew, KeysAreFresh
    <3>3. CASE LearnsNew(v)
      <4>1. \A k \in retired : k # made + 1
        BY <1>0 DEF KeysAreFresh
      <4> QED
        BY <1>0, <1>2, <2>1, <3>3, <4>1 DEF LearnsNew, KnowsOld
    <3>4. CASE KeepsKeys(v)
      BY <1>0, <1>2, <2>1, <3>4 DEF KeepsKeys, KnowsNew
    <3> QED
      BY <3>1, <3>2, <3>3, <3>4, KeyWorkSteps
  <2> QED
    BY <2>2, <2>3, <2>4, <2>5 DEF KeysAreFresh
<1> QED
  BY <1>3, <1>4

LEMMA WorkKept ==
  ASSUME RotationTypeOK, FenceInv, twins = {}, KeysAreFresh, WorkIsKept,
         NEW v \in Rotator, Rotating(v)
  PROVE  WorkIsKept'
<1>0. /\ run \in [Rotator -> Delivery] /\ run[v] \in Delivery
      /\ dek \in [File -> Key]
  BY DEF RotationTypeOK
<1>1. OthersStay(v)
  BY RotatorSteps
<1>2. ASSUME NEW u \in Rotator, u # v,
             run[u].stage \in {"rewriting", "rewritten", "committed"}
      PROVE  dek' = dek /\ active' = active
  <2>1. run[v].stage \notin Leased
    BY <1>2, OneLeased DEF Leased, Stage
  <2> QED
    BY <2>1, KeyWorkSteps, RetiringSteps DEF Leased, Stage, files
<1>3. ASSUME NEW u \in Rotator, u # v
      PROVE  /\ run'[u].stage = "rewriting" /\ ~run'[u].failed =>
                  \A f \in File : f \in run'[u].todo \/ dek'[f] = run'[u].new
             /\ run'[u].stage \in {"rewritten", "committed"} =>
                  \A f \in File : dek'[f] = run'[u].new
             /\ run'[u].stage = "committed" => active' = run'[u].new
  BY <1>1, <1>2, <1>3 DEF OthersStay, WorkIsKept
<1>4. /\ run'[v].stage = "rewriting" /\ ~run'[v].failed =>
           \A f \in File : f \in run'[v].todo \/ dek'[f] = run'[v].new
      /\ run'[v].stage \in {"rewritten", "committed"} =>
           \A f \in File : dek'[f] = run'[v].new
      /\ run'[v].stage = "committed" => active' = run'[v].new
  <2>1. CASE run'[v].stage \notin {"rewriting", "rewritten", "committed"}
    BY <2>1
  <2>2. CASE PrepareKey(v)
    BY <1>0, <2>2 DEF PrepareKey, Delivery
  <2>3. ASSUME NEW f \in File, ReEncryptFile(v, f), ~run'[v].failed
        PROVE  \A g \in File : g \in run'[v].todo \/ dek'[g] = run'[v].new
    <3>1. /\ run' = [run EXCEPT ![v].todo = @ \ {f}, ![v].done = @ \union {f}]
          /\ Rewrite(f, run[v].old, run[v].new)
      <4>1. ~(run' = [run EXCEPT ![v].todo = @ \ {f}, ![v].failed = TRUE])
        BY <1>0, <2>3 DEF Delivery
      <4> QED
        BY <2>3, <4>1 DEF ReEncryptFile
    <3>2. /\ run'[v].todo = run[v].todo \ {f} /\ run'[v].new = run[v].new
          /\ run'[v].failed = run[v].failed /\ run[v].stage = "rewriting"
      BY <1>0, <2>3, <3>1 DEF ReEncryptFile, At, Delivery
    <3>3. dek' = [dek EXCEPT ![f] = run[v].new]
      BY <3>1 DEF Rewrite
    <3>4. \A g \in File : g \in run[v].todo \/ dek[g] = run[v].new
      BY <2>3, <3>2 DEF WorkIsKept
    <3> QED
      BY <1>0, <3>2, <3>3, <3>4
  <2>4. ASSUME NEW f \in File, ReEncryptFile(v, f)
        PROVE  run'[v].stage = "rewriting"
    BY <1>0, <2>4 DEF ReEncryptFile, At, Delivery
  <2>5. CASE FinishFiles(v)
    <3>1. /\ run[v].stage = "rewriting" /\ run[v].todo = {} /\ dek' = dek
          /\ run'[v].new = run[v].new
          /\ run'[v].stage = IF run[v].failed THEN "undoing" ELSE "rewritten"
      BY <1>0, <2>5 DEF FinishFiles, Goes, At, files, Delivery
    <3> QED
      BY <3>1 DEF WorkIsKept
  <2>6. CASE CommitKey(v)
    <3>1. /\ run[v].stage = "rewritten" /\ dek' = dek /\ run'[v].new = run[v].new
          /\ \/ run'[v].stage = "undoing"
             \/ run'[v].stage = "committed" /\ active' = run[v].new
      BY <1>0, <2>6 DEF CommitKey, Goes, At, files, Delivery
    <3> QED
      BY <3>1 DEF WorkIsKept
  <2>7. \/ run'[v].stage \notin {"rewriting", "rewritten", "committed"}
        \/ PrepareKey(v) \/ FinishFiles(v) \/ CommitKey(v)
        \/ \E f \in File : ReEncryptFile(v, f)
    <3>1. ASSUME NEW f \in File, UndoFile(v, f)
          PROVE  run'[v].stage = "undoing"
      BY <1>0, <3>1 DEF UndoFile, At, Delivery
    <3>2. ASSUME NEW j \in Job, Deliver(v, j)
          PROVE  run'[v].stage = "started"
      BY <1>0, <3>2 DEF Deliver, Resting
    <3>3. CASE AcquireLease(v)
      BY <1>0, <3>3 DEF AcquireLease, Goes, Delivery
    <3>4. CASE ResolveOldKey(v)
      BY <1>0, <3>4 DEF ResolveOldKey, Delivery
    <3>5. CASE Report(v) \/ Throw(v)
      BY <1>0, <3>5 DEF Report, Throw, Leaves, Resting
    <3>6. CASE ReleaseLease(v) \/ Die(v)
      BY <1>0, <3>6 DEF ReleaseLease, Die, Resting
    <3> QED
      BY <3>1, <3>2, <3>3, <3>4, <3>5, <3>6 DEF Rotating
  <2> QED
    BY <2>1, <2>2, <2>3, <2>4, <2>5, <2>6, <2>7
<1> QED
  BY <1>3, <1>4 DEF WorkIsKept

LEMMA RotatingRetires ==
  ASSUME RotationTypeOK, FenceInv, RetiredInv, NEW v \in Rotator, Rotating(v)
  PROVE  RetiredInv'
<1> SUFFICES ASSUME twins' = {}
             PROVE  KeysAreFresh' /\ WorkIsKept' /\ RetiredIsUnused'
  BY DEF RetiredInv
<1>1. twins = {} /\ KeysAreFresh /\ WorkIsKept /\ RetiredIsUnused
  BY TwinsRemain DEF RetiredInv
<1>2. dek \in [File -> Key]
  BY DEF RotationTypeOK
<1>3. ASSUME UNCHANGED files, NEW f \in File \ stale
      PROVE  dek[f] \notin retired'
  <2>1. CASE run[v].stage = "committed" /\ retired' = retired \union {run[v].old}
    <3>1. dek[f] = run[v].new /\ run[v].new # run[v].old
      BY <1>1, <2>1 DEF WorkIsKept, KeysAreFresh, KnowsNew, KnowsOld
    <3> QED
      BY <1>1, <1>3, <2>1, <3>1 DEF RetiredIsUnused
  <2> QED
    BY <1>1, <1>3, <2>1, RetiringSteps DEF RetiredIsUnused
<1>4. ASSUME NEW g \in File, NEW j, NEW k, Rewrite(g, j, k), k \notin retired,
             retired' = retired
      PROVE  RetiredIsUnused'
  BY <1>1, <1>2, <1>4 DEF Rewrite, RetiredIsUnused
<1>5. RetiredIsUnused'
  <2>1. CASE UNCHANGED files
    BY <1>3, <2>1 DEF files, RetiredIsUnused
  <2>2. CASE ~UNCHANGED files
    <3>1. /\ run[v].stage \in {"rewriting", "undoing"} /\ retired' = retired
          /\ \E g \in File : \/ Rewrite(g, run[v].old, run[v].new)
                             \/ Rewrite(g, run[v].new, run[v].old)
      BY <2>2, KeyWorkSteps
    <3>2. run[v].old \notin retired /\ run[v].new \notin retired
      BY <1>1, <3>1 DEF KeysAreFresh, KnowsOld, KnowsNew
    <3> QED
      BY <1>4, <3>1, <3>2
  <2> QED
    BY <2>1, <2>2
<1> QED
  BY <1>1, <1>5, FreshKept, WorkKept

LEMMA WritingRetires ==
  ASSUME RotationTypeOK, FenceInv, RetiredInv, NEW c \in Client, Writing(c)
  PROVE  RetiredInv'
<1> SUFFICES ASSUME twins' = {}
             PROVE  KeysAreFresh' /\ WorkIsKept' /\ RetiredIsUnused'
  BY DEF RetiredInv
<1>0. /\ run' = run /\ twins = {} /\ active' = active /\ made' = made
      /\ retired' = retired
  BY WriterSteps DEF keys
<1>1. KeysAreFresh /\ WorkIsKept /\ RetiredIsUnused
  BY <1>0 DEF RetiredInv
<1>2. KeysAreFresh'
  BY <1>0, <1>1 DEF KeysAreFresh
<1>3. CASE WriteFile(c)
  <2>1. \A v \in Rotator : run[v].stage \notin Leased
    BY <1>0, <1>3, Excluded DEF WriteFile
  <2>2. WorkIsKept'
    BY <1>0, <2>1 DEF WorkIsKept, Leased, Stage
  <2>3. active \notin retired /\ dek \in [File -> Key]
    BY <1>1 DEF KeysAreFresh, RotationTypeOK
  <2>4. RetiredIsUnused'
    BY <1>0, <1>1, <1>3, <2>3 DEF WriteFile, RetiredIsUnused
  <2> QED
    BY <1>2, <2>2, <2>4
<1>4. CASE UNCHANGED files
  BY <1>0, <1>1, <1>2, <1>4 DEF files, WorkIsKept, RetiredIsUnused
<1> QED
  BY <1>3, <1>4 DEF Writing, TakeLease, BeginWrite, ReadActiveKeyId, FailWrite

\* A job reported as completed has retired its key: whatever jobs, roll-backs and
\* deaths follow, no file is under it again, but for late writers' files.
THEOREM RetiredHolds == RotationSpec => []RetiredIsUnused
<1>1. RotationTypeOK /\ FenceInv /\ RetiredInv /\ [RotationNext]_rvars => RetiredInv'
  <2> SUFFICES ASSUME RotationTypeOK, FenceInv, RetiredInv, [RotationNext]_rvars
               PROVE  RetiredInv'
    OBVIOUS
  <2>1. CASE UNCHANGED rvars \/ ExpireLease \/ ExpirePermit
    BY <2>1 DEF rvars, ExpireLease, ExpirePermit, files, keys, clients, RetiredInv,
                KeysAreFresh, WorkIsKept, RetiredIsUnused
  <2> QED
    BY <2>1, RotatingRetires, WritingRetires DEF RotationNext
<1>2. RetiredInv => RetiredIsUnused
  BY DEF RetiredInv, RetiredIsUnused
<1> QED
  BY <1>1, <1>2, InitRetired, RotationTypesHold, PTL DEF RotationSpec
===============================================================================
