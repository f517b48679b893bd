----------------------------- MODULE PinLockProofs -----------------------------
(***************************************************************************)
(* Proofs about PinLock for every set of PINs, every number of operations  *)
(* of the settings tab and every bound: the types hold, an answered        *)
(* failure is counted, the key is kept and the posture that was answered   *)
(* holds.                                                                  *)
(***************************************************************************)
EXTENDS PinLock, FiniteSetTheorems, TLAPS

(***************************************************************************)
(* PinLock: an answered failure is counted.                                *)
(***************************************************************************)
\* Attempts that are still to be decided, and failures of which the count in
\* memory, or the one on disk, knows already and the user does not.
Checking == {p \in Party : op[p] # Nil /\ op[p].step \in {"read", "derive", "decide"}}
Failing == {p \in Party : op[p] # Nil /\ op[p].step \in {"failed", "answer"} /\ op[p].counts}
Answering == {p \in Party : op[p] # Nil /\ op[p].step = "answer" /\ op[p].counts}

\* Every failure in the count was an attempt, and a new PIN is one the user set.
TriesCount ==
  /\ IsFiniteSet(Checking)
  /\ settings.failures + Cardinality(Checking) <= tries
  /\ saved.failures <= tries
  /\ capsule # Nil => capsule.settings.failures <= tries

EnrollsSecret ==
  \A p \in Party : op[p] # Nil /\ op[p].step \in {"pepper", "envelope"} => op[p].secret \in Secrets

AnswersCount ==
  /\ IsFiniteSet(Failing)
  /\ phase = "running" => told + Cardinality(Failing) <= settings.failures
  /\ told + Cardinality(Answering) <= saved.failures

\* The parts of PinTypeOK.
KeptTyped ==
  wrap \in BOOLEAN /\ envelope \in Envelope /\ saved \in Settings /\ capsule \in KeptState
LiveTyped ==
  /\ settings \in Settings /\ peppers \in Pepper
  /\ phase \in {"off", "restored", "running"}
  /\ cipher \in {"none", "ready", "locked", "recovery"} /\ curtain \in BOOLEAN
OpsTyped ==
  /\ op \in [Party -> PinOperation \union {Nil}]
  /\ phase # "running" => cipher = "none" /\ ~curtain /\ \A p \in Party : op[p] = Nil
  /\ phase = "restored" => capsule # Nil
PastTyped ==
  /\ forgotten \in BOOLEAN /\ crossed \in BOOLEAN /\ dropped \in BOOLEAN
  /\ posture \in {"none", "mixed", "pin", "keychain"}
CountersTyped ==
  /\ told \in Nat /\ settings.failures <= tries /\ saved.failures <= tries
  /\ tries \in 0..MaxTries /\ changes \in 0..MaxChanges
  /\ crashes \in 0..MaxCrashes /\ removals \in 0..MaxRemovals

LEMMA PinTypeParts ==
  PinTypeOK <=> KeptTyped /\ LiveTyped /\ OpsTyped /\ PastTyped /\ CountersTyped
  BY DEF PinTypeOK, KeptTyped, LiveTyped, OpsTyped, PastTyped, CountersTyped

LEMMA PinTypeNext ==
  (KeptTyped /\ LiveTyped /\ OpsTyped /\ PastTyped /\ CountersTyped)' => PinTypeOK'
  BY DEF PinTypeOK, KeptTyped, LiveTyped, OpsTyped, PastTyped, CountersTyped

PinInv == PinTypeOK /\ EnrollsSecret /\ TriesCount /\ AnswersCount

\* A set that shrinks is no larger.
LEMMA Shrinks ==
  ASSUME NEW S, NEW T, IsFiniteSet(S), T \subseteq S
  PROVE  /\ IsFiniteSet(T) /\ Cardinality(T) \in Nat /\ Cardinality(S) \in Nat
         /\ Cardinality(T) <= Cardinality(S)
  BY FS_Subset, FS_CardinalityType

LEMMA AnsweringFails == Answering \subseteq Failing
  BY DEF Answering, Failing

LEMMA PinBounds ==
  /\ MaxAttempts \in Nat /\ MaxTries \in Nat /\ MaxChanges \in Nat /\ MaxPeppers \in Nat
  /\ MaxCrashes \in Nat /\ MaxRemovals \in Nat /\ 0 \in Pepper /\ 1 \in Pepper
  BY PinLockAssumption DEF Pepper

LEMMA DefaultsTyped == Defaults \in Settings /\ Defaults.failures = 0
  BY PinBounds DEF Defaults, Settings

LEMMA InitPin == PinInit => PinInv
<1> SUFFICES ASSUME PinInit PROVE PinInv
  OBVIOUS
<1>1. /\ saved \in Settings /\ wrap \in BOOLEAN /\ envelope \in Envelope /\ peppers \in Pepper
      /\ saved.failures = 0
  <2>2. CASE wrap = TRUE /\ envelope = Nil /\ saved = Defaults /\ peppers = 0
    BY <2>2, DefaultsTyped, PinBounds DEF Envelope, SealedKey
  <2>3. ASSUME NEW secret \in Secrets, NEW require \in BOOLEAN,
               wrap = ~require, envelope = [secret |-> secret, pepper |-> 1], peppers = 1,
               saved = [Defaults EXCEPT !.enrolled = TRUE, !.pepper = 1, !.require = require]
        PROVE  /\ saved \in Settings /\ wrap \in BOOLEAN /\ envelope \in Envelope
               /\ peppers \in Pepper /\ saved.failures = 0
    <3>1. saved = [enrolled |-> TRUE, failures |-> 0, held |-> FALSE, pepper |-> 1,
                   require |-> require]
      BY <2>3 DEF Defaults
    <3>2. saved \in Settings /\ saved.failures = 0
      BY <3>1, PinBounds DEF Settings
    <3> QED
      BY <2>3, <3>2, PinBounds DEF Envelope, SealedKey
  <2> QED
    BY <2>2, <2>3 DEF PinInit
<1>2. capsule \in KeptState /\ capsule.settings = saved
  BY <1>1 DEF PinInit, KeptState, Copies
<1>3. /\ settings = saved /\ phase = "running" /\ cipher = "ready" /\ curtain = FALSE
      /\ op = [p \in Party |-> Nil] /\ told = 0 /\ forgotten = FALSE /\ crossed = FALSE
      /\ dropped = FALSE /\ posture = "none"
      /\ tries = 0 /\ changes = 0 /\ crashes = 0 /\ removals = 0
  BY DEF PinInit
<1>4. PinTypeOK
  <2>1. KeptTyped /\ LiveTyped
    BY <1>1, <1>2, <1>3 DEF KeptTyped, LiveTyped
  <2>2. OpsTyped /\ PastTyped
    BY <1>3 DEF OpsTyped, PastTyped
  <2>3. CountersTyped
    BY <1>1, <1>3, PinBounds DEF CountersTyped
  <2> QED
    BY <2>1, <2>2, <2>3, PinTypeParts
<1>5. Checking = {} /\ Failing = {} /\ Answering = {} /\ EnrollsSecret
  BY <1>3 DEF Checking, Failing, Answering, EnrollsSecret
<1>6. IsFiniteSet({}) /\ Cardinality({}) = 0
  BY FS_EmptySet
<1>7. TriesCount /\ AnswersCount
  BY <1>1, <1>2, <1>3, <1>5, <1>6 DEF TriesCount, AnswersCount
<1> QED
  BY <1>4, <1>5, <1>7 DEF PinInv

\* What the counts say when no attempt is made or decided and no failure answered.
LEMMA CountsStay ==
  ASSUME PinInv, Checking' \subseteq Checking, Failing' \subseteq Failing,
         Answering' \subseteq Answering, UNCHANGED <<told, tries, phase>>,
         settings'.failures = settings.failures,
         saved'.failures = saved.failures \/ (phase = "running" /\ saved' = settings'),
         capsule' = capsule \/ capsule'.settings = settings
  PROVE  TriesCount' /\ AnswersCount'
<1> USE DEF PinInv
<1>a. /\ settings.failures \in Nat /\ saved.failures \in Nat /\ told \in Nat /\ tries \in Nat
      /\ saved.failures <= tries
  BY PinBounds DEF PinTypeOK, Settings
<1>1. /\ IsFiniteSet(Checking') /\ Cardinality(Checking') \in Nat /\ Cardinality(Checking) \in Nat
      /\ Cardinality(Checking') <= Cardinality(Checking)
  BY Shrinks DEF TriesCount
<1>2. /\ IsFiniteSet(Failing') /\ Cardinality(Failing') \in Nat /\ Cardinality(Failing) \in Nat
      /\ Cardinality(Failing') <= Cardinality(Failing)
  BY Shrinks DEF AnswersCount
<1>3. /\ IsFiniteSet(Answering) /\ Cardinality(Answering) \in Nat
      /\ Cardinality(Answering) <= Cardinality(Failing)
  BY Shrinks, AnsweringFails DEF AnswersCount
<1>4. Cardinality(Answering') \in Nat /\ Cardinality(Answering') <= Cardinality(Answering)
  BY <1>3, Shrinks
<1>5. TriesCount'
  BY <1>a, <1>1 DEF TriesCount
<1>6. AnswersCount'
  BY <1>a, <1>2, <1>3, <1>4 DEF AnswersCount
<1> QED
  BY <1>5, <1>6

\* An operation goes on, or ends, with a step that neither attempts nor answers.
LEMMA MovesOn ==
  ASSUME PinInv, NEW p \in Party, NEW o, op' = [op EXCEPT ![p] = o],
         o # Nil => /\ o.step \notin {"failed", "answer"}
                    /\ o.step \in {"read", "derive", "decide"} => p \in Checking
                    /\ o.step \in {"pepper", "envelope"} => o.secret \in Secrets
  PROVE  /\ Checking' \subseteq Checking /\ Failing' \subseteq Failing
         /\ Answering' \subseteq Answering /\ EnrollsSecret'
<1>1. op \in [Party -> PinOperation \union {Nil}]
  BY DEF PinInv, PinTypeOK
<1>2. op'[p] = o /\ \A q \in Party : q # p => op'[q] = op[q]
  BY <1>1
<1> QED
  BY <1>2 DEF Checking, Failing, Answering, EnrollsSecret, PinInv

LEMMA Runs ==
  ASSUME PinInv, NEW p \in Party, op[p] # Nil
  PROVE  phase = "running" /\ op[p] \in PinOperation /\ op \in [Party -> PinOperation \union {Nil}]
  BY DEF PinInv, PinTypeOK

\* The operation of a party goes on, or ends, with a step that neither attempts nor answers.
Onward(p) ==
  \E o \in PinOperation \union {Nil} :
    /\ op' = [op EXCEPT ![p] = o]
    /\ o # Nil => /\ o.step \notin {"failed", "answer"}
                  /\ o.step \in {"read", "derive", "decide"} => p \in Checking
                  /\ o.step \in {"pepper", "envelope"} => o.secret \in Secrets

LEMMA GotoOnward ==
  ASSUME PinInv, NEW p \in Party, op[p] # Nil, NEW into \in Step, Goto(p, into),
         into \notin {"pepper", "envelope", "read", "derive", "decide", "failed", "answer"}
  PROVE  Onward(p)
<1>1. op[p] \in PinOperation
  BY Runs
<1>2. PICK o : o = [op[p] EXCEPT !.step = into]
  OBVIOUS
<1>3. o \in PinOperation /\ o.step = into
  BY <1>1, <1>2 DEF PinOperation
<1>4. op' = [op EXCEPT ![p] = o]
  BY <1>2, Runs DEF Goto
<1> QED
  BY <1>3, <1>4 DEF Onward

LEMMA FinishOnward ==
  ASSUME NEW p, Finish(p)
  PROVE  Onward(p)
  BY DEF Finish, Onward

\* Such a step changes no count, but may save it.
LEMMA OnwardKeeps ==
  ASSUME PinInv, NEW p \in Party, op[p] # Nil, Onward(p), UNCHANGED <<phase, told, pinBounds>>,
         KeptTyped', LiveTyped', PastTyped', settings'.failures = settings.failures,
         saved' = saved \/ saved' = settings', capsule' = capsule \/ capsule'.settings = settings
  PROVE  PinInv'
<1>1. PICK o \in PinOperation \union {Nil} :
         /\ op' = [op EXCEPT ![p] = o]
         /\ o # Nil => /\ o.step \notin {"failed", "answer"}
                       /\ o.step \in {"read", "derive", "decide"} => p \in Checking
                       /\ o.step \in {"pepper", "envelope"} => o.secret \in Secrets
  BY DEF Onward
<1>2. phase = "running"
  BY Runs
<1>3. OpsTyped'
  BY <1>1, <1>2, Runs DEF OpsTyped
<1>4. /\ Checking' \subseteq Checking /\ Failing' \subseteq Failing
      /\ Answering' \subseteq Answering /\ EnrollsSecret'
  BY <1>1, MovesOn
<1>5. TriesCount' /\ AnswersCount'
  BY <1>2, <1>4, CountsStay DEF pinBounds
<1>6. CountersTyped'
  BY PinTypeParts DEF PinInv, CountersTyped, pinBounds
<1> QED
  BY <1>3, <1>4, <1>5, <1>6, PinTypeNext DEF PinInv

\* Steps of operations that leave the settings alone.
LEMMA KeptSettingsTyped ==
  ASSUME PinInv, KeepCapsule \/ TryCapsule
  PROVE  capsule' \in KeptState /\ (capsule' = capsule \/ capsule'.settings = settings)
<1>1. KeptTyped /\ LiveTyped
  BY PinTypeParts DEF PinInv
<1>2. CASE KeepCapsule
  <2>1. PICK w : w = (wrap /\ ~settings.require)
    OBVIOUS
  <2>2. w \in BOOLEAN
    BY <1>1, <2>1 DEF KeptTyped, LiveTyped, Settings
  <2>3. capsule' = [settings |-> settings, wrap |-> w, envelope |-> envelope]
    BY <1>2, <2>1 DEF KeepCapsule, Captured
  <2> QED
    BY <1>1, <2>2, <2>3 DEF KeptTyped, LiveTyped, KeptState, Copies
<1>3. CASE UNCHANGED capsule
  BY <1>1, <1>3 DEF KeptTyped
<1> QED
  BY <1>2, <1>3 DEF TryCapsule

LEMMA PartsHold ==
  ASSUME PinInv
  PROVE  KeptTyped /\ LiveTyped /\ OpsTyped /\ PastTyped /\ CountersTyped
  BY PinTypeParts DEF PinInv

\* A pepper that is read may be drawn and saved first.
LEMMA ReadsPepper ==
  ASSUME PinInv, phase = "running", ReadPepper
  PROVE  /\ settings' \in Settings /\ saved' \in Settings /\ peppers' \in Pepper
         /\ settings'.failures = settings.failures /\ settings'.pepper \in Pepper
         /\ saved' = saved \/ saved' = settings'
<1>1. saved \in Settings /\ settings \in Settings /\ peppers \in Pepper
  BY PartsHold DEF KeptTyped, LiveTyped
<1>2. CASE settings.pepper # 0
  BY <1>1, <1>2 DEF ReadPepper, Settings
<1>3. CASE settings.pepper = 0
  <2>1. peppers' \in Pepper
    BY <1>1, <1>3, PinBounds DEF ReadPepper, Pepper
  <2>2. settings' = [settings EXCEPT !.pepper = peppers'] /\ saved' = settings'
    BY <1>3 DEF ReadPepper
  <2> QED
    BY <1>1, <2>1, <2>2 DEF Settings
<1> QED
  BY <1>2, <1>3

\* Steps that set a PIN, or keep it alone.
LEMMA EnrollingKeeps ==
  ASSUME PinInv, NEW p \in Party,
         WriteEnvelope(p) \/ SaveEnrolled(p) \/ KeepPinOnly(p) \/ ClearWrap(p) \/ Recapture(p)
  PROVE  PinInv'
<1>a. op[p] # Nil
  BY DEF WriteEnvelope, SaveEnrolled, KeepPinOnly, ClearWrap, Recapture, StepIs
<1> USE DEF pinHistory, past, memory, onDisk
<1>1. CASE WriteEnvelope(p)
  <2>1. op[p].secret \in Secrets /\ op[p].pepper \in Pepper
    BY <1>1, Runs DEF WriteEnvelope, StepIs, PinInv, EnrollsSecret, PinOperation
  <2>2. Onward(p)
    BY <1>a, <1>1, <2>1, GotoOnward, FinishOnward DEF WriteEnvelope, Step
  <2>3. KeptTyped' /\ LiveTyped' /\ PastTyped'
    BY <1>1, <2>1, PartsHold DEF WriteEnvelope, Envelope, SealedKey, KeptTyped, LiveTyped,
       PastTyped
  <2> QED
    BY <1>a, <1>1, <2>1, <2>2, <2>3, OnwardKeeps DEF WriteEnvelope
<1>2. CASE SaveEnrolled(p)
  <2>2. Onward(p)
    BY <1>a, <1>2, GotoOnward, FinishOnward DEF SaveEnrolled, Step
  <2>3. KeptTyped' /\ LiveTyped' /\ PastTyped'
    BY <1>2, PartsHold DEF SaveEnrolled, SaveData, KeptTyped, LiveTyped, PastTyped
  <2> QED
    BY <1>a, <1>2, <2>2, <2>3, OnwardKeeps DEF SaveEnrolled, SaveData
<1>3. CASE KeepPinOnly(p)
  <2>0. capsule' \in KeptState /\ (capsule' = capsule \/ capsule'.settings = settings)
    BY <1>3, KeptSettingsTyped DEF KeepPinOnly, TryCapsule
  <2>2. Onward(p)
    BY <1>a, <1>3, <2>0, GotoOnward, FinishOnward DEF KeepPinOnly, NotCleared, Cleared, Step
  <2>3. KeptTyped' /\ LiveTyped' /\ PastTyped'
    BY <1>3, <2>0, PartsHold DEF KeepPinOnly, KeptTyped, LiveTyped, PastTyped
  <2> QED
    BY <1>a, <1>3, <2>0, <2>2, <2>3, OnwardKeeps DEF KeepPinOnly
<1>4. CASE ClearWrap(p)
  <2>1. crossed' \in BOOLEAN
    <3>1. PICK b : b = WrapperIsBack
      OBVIOUS
    <3>2. b \in BOOLEAN
      BY <3>1 DEF WrapperIsBack
    <3> QED
      BY <1>4, PartsHold DEF ClearWrap, Crossing, PastTyped
  <2>2. Onward(p)
    BY <1>a, <1>4, <2>1, GotoOnward, FinishOnward DEF ClearWrap, NotCleared, Cleared, Step
  <2>3. KeptTyped' /\ LiveTyped' /\ PastTyped'
    BY <1>4, <2>1, PartsHold DEF ClearWrap, TabAnswers, KeptTyped, LiveTyped, PastTyped
  <2> QED
    BY <1>a, <1>4, <2>1, <2>2, <2>3, OnwardKeeps DEF ClearWrap
<1>5. CASE Recapture(p)
  <2>0. capsule' \in KeptState /\ (capsule' = capsule \/ capsule'.settings = settings)
    BY <1>5, KeptSettingsTyped DEF Recapture, TryCapsule
  <2>2. Onward(p)
    BY <1>a, <1>5, <2>0, GotoOnward, FinishOnward DEF Recapture, Step
  <2>3. KeptTyped' /\ LiveTyped' /\ PastTyped'
    BY <1>5, <2>0, PartsHold DEF Recapture, KeptTyped, LiveTyped, PastTyped
  <2> QED
    BY <1>a, <1>5, <2>0, <2>2, <2>3, OnwardKeeps DEF Recapture
<1> QED
  BY <1>1, <1>2, <1>3, <1>4, <1>5

\* Steps that change the posture.
LEMMA TogglingKeeps ==
  ASSUME PinInv, NEW p \in Party,
         \/ CheckReady(p) \/ RecordOnly(p) \/ RestoreWrap(p) \/ KeepPasskey(p) \/ Unwrap(p)
         \/ SaveToggle(p) \/ Revert(p) \/ RevertWrap(p) \/ SaveReverted(p)
  PROVE  PinInv'
<1>a. op[p] # Nil
  BY DEF CheckReady, RecordOnly, RestoreWrap, KeepPasskey, Unwrap, SaveToggle, Revert,
     RevertWrap, SaveReverted, StepIs
<1> USE DEF pinHistory, past, memory, onDisk
<1>1. CASE CheckReady(p)
  <2>1. op[p].was \in BOOLEAN
    BY <1>a, Runs DEF PinOperation
  <2>2. Onward(p)
    BY <1>a, <1>1, <2>1, GotoOnward, FinishOnward DEF CheckReady, Step
  <2>3. KeptTyped' /\ LiveTyped' /\ PastTyped'
    BY <1>1, <2>1, PartsHold DEF CheckReady, Settings, KeptTyped, LiveTyped, PastTyped
  <2> QED
    BY <1>a, <1>1, <2>1, <2>2, <2>3, OnwardKeeps DEF CheckReady, LiveTyped, Settings
<1>2. CASE RecordOnly(p)
  <2>2. Onward(p)
    BY <1>a, <1>2, GotoOnward, FinishOnward DEF RecordOnly, Step
  <2>3. KeptTyped' /\ LiveTyped' /\ PastTyped'
    BY <1>2, PartsHold DEF RecordOnly, SaveData, KeptTyped, LiveTyped, PastTyped
  <2> QED
    BY <1>a, <1>2, <2>2, <2>3, OnwardKeeps DEF RecordOnly, SaveData
<1>3. CASE RestoreWrap(p)
  <2>2. Onward(p)
    BY <1>a, <1>3, GotoOnward, FinishOnward DEF RestoreWrap, Step
  <2>3. KeptTyped' /\ LiveTyped' /\ PastTyped'
    BY <1>3, PartsHold DEF RestoreWrap, KeptTyped, LiveTyped, PastTyped
  <2> QED
    BY <1>a, <1>3, <2>2, <2>3, OnwardKeeps DEF RestoreWrap
<1>4. CASE KeepPasskey(p)
  <2>0. capsule' \in KeptState /\ (capsule' = capsule \/ capsule'.settings = settings)
    BY <1>4, KeptSettingsTyped DEF KeepPasskey, TryCapsule
  <2>2. Onward(p)
    BY <1>a, <1>4, <2>0, GotoOnward, FinishOnward DEF KeepPasskey, Step
  <2>3. KeptTyped' /\ LiveTyped' /\ PastTyped'
    BY <1>4, <2>0, PartsHold DEF KeepPasskey, KeptTyped, LiveTyped, PastTyped
  <2> QED
    BY <1>a, <1>4, <2>0, <2>2, <2>3, OnwardKeeps DEF KeepPasskey
<1>5. CASE Unwrap(p)
  <2>2. Onward(p)
    BY <1>a, <1>5, GotoOnward, FinishOnward DEF Unwrap, Step
  <2>3. KeptTyped' /\ LiveTyped' /\ PastTyped'
    BY <1>5, PartsHold DEF Unwrap, KeptTyped, LiveTyped, PastTyped
  <2> QED
    BY <1>a, <1>5, <2>2, <2>3, OnwardKeeps DEF Unwrap
<1>6. CASE SaveToggle(p)
  <2>2. Onward(p)
    BY <1>a, <1>6, GotoOnward, FinishOnward DEF SaveToggle, Step
  <2>3. KeptTyped' /\ LiveTyped' /\ PastTyped'
    BY <1>6, PartsHold DEF SaveToggle, TabAnswers, SaveData, KeptTyped, LiveTyped, PastTyped
  <2> QED
    BY <1>a, <1>6, <2>2, <2>3, OnwardKeeps DEF SaveToggle, SaveData
<1>7. CASE Revert(p)
  <2>1. op[p].was \in BOOLEAN
    BY <1>a, Runs DEF PinOperation
  <2>2. Onward(p)
    BY <1>a, <1>7, <2>1, GotoOnward, FinishOnward DEF Revert, Step
  <2>3. KeptTyped' /\ LiveTyped' /\ PastTyped'
    BY <1>7, <2>1, PartsHold DEF Revert, Settings, KeptTyped, LiveTyped, PastTyped
  <2> QED
    BY <1>a, <1>7, <2>1, <2>2, <2>3, OnwardKeeps DEF Revert, LiveTyped, Settings
<1>8. CASE RevertWrap(p)
  <2>2. Onward(p)
    BY <1>a, <1>8, GotoOnward, FinishOnward DEF RevertWrap, Step
  <2>3. KeptTyped' /\ LiveTyped' /\ PastTyped'
    BY <1>8, PartsHold DEF RevertWrap, KeptTyped, LiveTyped, PastTyped
  <2> QED
    BY <1>a, <1>8, <2>2, <2>3, OnwardKeeps DEF RevertWrap
<1>9. CASE SaveReverted(p)
  <2>2. Onward(p)
    BY <1>a, <1>9, GotoOnward, FinishOnward DEF SaveReverted, Step
  <2>3. KeptTyped' /\ LiveTyped' /\ PastTyped'
    BY <1>9, PartsHold DEF SaveReverted, SaveData, KeptTyped, LiveTyped, PastTyped
  <2> QED
    BY <1>a, <1>9, <2>2, <2>3, OnwardKeeps DEF SaveReverted, SaveData
<1> QED
  BY <1>1, <1>2, <1>3, <1>4, <1>5, <1>6, <1>7, <1>8, <1>9

\* Steps of an unlock that decide nothing.
LEMMA UnlockingKeeps ==
  ASSUME PinInv, NEW p \in Party,
         SaveSuccess(p) \/ Adopt(p) \/ Migrate(p) \/ Lift(p)
  PROVE  PinInv'
<1>a. op[p] # Nil
  BY DEF SaveSuccess, Adopt, Migrate, Lift, StepIs
<1> USE DEF pinHistory, past, memory, onDisk
<1>1. CASE SaveSuccess(p)
  <2>2. Onward(p)
    BY <1>a, <1>1, GotoOnward, FinishOnward DEF SaveSuccess, Step
  <2>3. KeptTyped' /\ LiveTyped' /\ PastTyped'
    BY <1>1, PartsHold DEF SaveSuccess, SaveData, KeptTyped, LiveTyped, PastTyped
  <2> QED
    BY <1>a, <1>1, <2>2, <2>3, OnwardKeeps DEF SaveSuccess, SaveData
<1>2. CASE Adopt(p)
  <2>2. Onward(p)
    BY <1>a, <1>2, GotoOnward, FinishOnward DEF Adopt, Step
  <2>3. KeptTyped' /\ LiveTyped' /\ PastTyped'
    BY <1>2, PartsHold DEF Adopt, KeptTyped, LiveTyped, PastTyped
  <2> QED
    BY <1>a, <1>2, <2>2, <2>3, OnwardKeeps DEF Adopt
<1>3. CASE Migrate(p)
  <2>2. Onward(p)
    BY <1>a, <1>3, GotoOnward, FinishOnward DEF Migrate, Step
  <2>3. KeptTyped' /\ LiveTyped' /\ PastTyped'
    BY <1>3, PartsHold DEF Migrate, KeptTyped, LiveTyped, PastTyped
  <2> QED
    BY <1>a, <1>3, <2>2, <2>3, OnwardKeeps DEF Migrate
<1>4. CASE Lift(p)
  <2>2. Onward(p)
    BY <1>a, <1>4, GotoOnward, FinishOnward DEF Lift, Step
  <2>3. KeptTyped' /\ LiveTyped' /\ PastTyped'
    BY <1>4, PartsHold DEF Lift, KeptTyped, LiveTyped, PastTyped
  <2> QED
    BY <1>a, <1>4, <2>2, <2>3, OnwardKeeps DEF Lift
<1> QED
  BY <1>1, <1>2, <1>3, <1>4

\* Steps that disable a PIN.
LEMMA DisablingKeeps ==
  ASSUME PinInv, NEW p \in Party,
         Rewrap(p) \/ ClearEnvelope(p) \/ ClearPepper(p) \/ SaveDisabled(p) \/ Logout(p)
  PROVE  PinInv'
<1>a. op[p] # Nil
  BY DEF Rewrap, ClearEnvelope, ClearPepper, SaveDisabled, Logout, StepIs
<1> USE DEF pinHistory, past, memory, onDisk
<1>1. CASE Rewrap(p)
  <2>2. Onward(p)
    BY <1>a, <1>1, GotoOnward, FinishOnward DEF Rewrap, Step
  <2>3. KeptTyped' /\ LiveTyped' /\ PastTyped'
    BY <1>1, PartsHold DEF Rewrap, KeptTyped, LiveTyped, PastTyped
  <2> QED
    BY <1>a, <1>1, <2>2, <2>3, OnwardKeeps DEF Rewrap
<1>2. CASE ClearEnvelope(p)
  <2>2. Onward(p)
    BY <1>a, <1>2, GotoOnward, FinishOnward DEF ClearEnvelope, Step
  <2>3. KeptTyped' /\ LiveTyped' /\ PastTyped'
    BY <1>2, PartsHold DEF ClearEnvelope, Envelope, SealedKey, KeptTyped, LiveTyped, PastTyped
  <2> QED
    BY <1>a, <1>2, <2>2, <2>3, OnwardKeeps DEF ClearEnvelope
<1>3. CASE ClearPepper(p)
  <2>1. settings' \in Settings /\ settings'.failures = settings.failures
    BY <1>3, PartsHold, PinBounds DEF ClearPepper, LiveTyped, Settings
  <2>2. Onward(p)
    BY <1>a, <1>3, <2>1, GotoOnward, FinishOnward DEF ClearPepper, Step
  <2>3. KeptTyped' /\ LiveTyped' /\ PastTyped'
    BY <1>3, <2>1, PartsHold DEF ClearPepper, KeptTyped, LiveTyped, PastTyped
  <2> QED
    BY <1>a, <1>3, <2>1, <2>2, <2>3, OnwardKeeps DEF ClearPepper
<1>4. CASE SaveDisabled(p)
  <2>2. Onward(p)
    BY <1>a, <1>4, GotoOnward, FinishOnward DEF SaveDisabled, Step
  <2>3. KeptTyped' /\ LiveTyped' /\ PastTyped'
    BY <1>4, PartsHold DEF SaveDisabled, SaveData, KeptTyped, LiveTyped, PastTyped
  <2> QED
    BY <1>a, <1>4, <2>2, <2>3, OnwardKeeps DEF SaveDisabled, SaveData
<1>5. CASE Logout(p)
  <2>2. Onward(p)
    BY <1>a, <1>5, GotoOnward, FinishOnward DEF Logout, Step
  <2>3. KeptTyped' /\ LiveTyped' /\ PastTyped'
    BY <1>5, PartsHold DEF Logout, KeptTyped, LiveTyped, PastTyped
  <2> QED
    BY <1>a, <1>5, <2>2, <2>3, OnwardKeeps DEF Logout
<1> QED
  BY <1>1, <1>2, <1>3, <1>4, <1>5

\* Steps that read what an attempt, or a new PIN, is made with.
LEMMA ReadingKeeps ==
  ASSUME PinInv, NEW p \in Party, DrawPepper(p) \/ ReadEnvelope(p) \/ Derive(p)
  PROVE  PinInv'
<1>a. op[p] # Nil /\ phase = "running" /\ op[p] \in PinOperation
      /\ op \in [Party -> PinOperation \union {Nil}]
  BY Runs DEF DrawPepper, ReadEnvelope, Derive, StepIs
<1> USE DEF pinHistory, past, memory, onDisk
<1>1. CASE DrawPepper(p)
  <2>1. /\ settings' \in Settings /\ saved' \in Settings /\ peppers' \in Pepper
        /\ settings'.failures = settings.failures /\ settings'.pepper \in Pepper
        /\ saved' = saved \/ saved' = settings'
    BY <1>1, <1>a, ReadsPepper DEF DrawPepper
  <2>2. PICK o : o = [op[p] EXCEPT !.step = "envelope", !.pepper = settings'.pepper]
    OBVIOUS
  <2>3. op[p].secret \in Secrets
    BY <1>1, <1>a DEF DrawPepper, StepIs, PinInv, EnrollsSecret
  <2>4. o \in PinOperation /\ o.step = "envelope" /\ o.secret \in Secrets
    BY <1>a, <2>1, <2>2, <2>3 DEF PinOperation, Step
  <2>5. op' = [op EXCEPT ![p] = o]
    BY <1>1, <1>a, <2>2 DEF DrawPepper
  <2>6. Onward(p)
    BY <2>4, <2>5 DEF Onward
  <2>7. KeptTyped' /\ LiveTyped' /\ PastTyped'
    BY <1>1, <2>1, PartsHold DEF DrawPepper, KeptTyped, LiveTyped, PastTyped
  <2> QED
    BY <1>a, <1>1, <2>1, <2>6, <2>7, OnwardKeeps DEF DrawPepper
<1>2. CASE ReadEnvelope(p)
  <2>1. PICK into : into = IF envelope = Nil THEN "decide" ELSE "derive"
    OBVIOUS
  <2>2. PICK o : o = [op[p] EXCEPT !.step = into, !.envelope = envelope]
    OBVIOUS
  <2>3. o \in PinOperation /\ o.step \in {"decide", "derive"}
    BY <1>a, <2>1, <2>2, PartsHold DEF PinOperation, Step, KeptTyped
  <2>4. op' = [op EXCEPT ![p] = o]
    BY <1>2, <1>a, <2>1, <2>2 DEF ReadEnvelope
  <2>5. p \in Checking
    BY <1>2 DEF ReadEnvelope, StepIs, Checking
  <2>6. Onward(p)
    BY <2>3, <2>4, <2>5 DEF Onward
  <2>7. KeptTyped' /\ LiveTyped' /\ PastTyped'
    BY <1>2, PartsHold DEF ReadEnvelope, KeptTyped, LiveTyped, PastTyped
  <2> QED
    BY <1>a, <1>2, <2>6, <2>7, OnwardKeeps DEF ReadEnvelope
<1>3. CASE Derive(p)
  <2>1. /\ settings' \in Settings /\ saved' \in Settings /\ peppers' \in Pepper
        /\ settings'.failures = settings.failures /\ settings'.pepper \in Pepper
        /\ saved' = saved \/ saved' = settings'
    BY <1>3, <1>a, ReadsPepper DEF Derive
  <2>2. PICK o : o = [op[p] EXCEPT !.step = "decide", !.pepper = settings'.pepper]
    OBVIOUS
  <2>3. o \in PinOperation /\ o.step = "decide"
    BY <1>a, <2>1, <2>2 DEF PinOperation, Step
  <2>4. op' = [op EXCEPT ![p] = o]
    BY <1>3, <1>a, <2>2 DEF Derive
  <2>5. p \in Checking
    BY <1>3 DEF Derive, StepIs, Checking
  <2>6. Onward(p)
    BY <2>3, <2>4, <2>5 DEF Onward
  <2>7. KeptTyped' /\ LiveTyped' /\ PastTyped'
    BY <1>3, <2>1, PartsHold DEF Derive, KeptTyped, LiveTyped, PastTyped
  <2> QED
    BY <1>a, <1>3, <2>1, <2>6, <2>7, OnwardKeeps DEF Derive
<1> QED
  BY <1>1, <1>2, <1>3

\* A reset of the count forgives what is not answered yet.
LEMMA ResetKeeps ==
  ASSUME PinInv, NEW p \in Party, op[p] # Nil, NEW enrolled \in BOOLEAN, NEW into \in Step,
         into \notin {"pepper", "envelope", "read", "derive", "decide", "failed", "answer"},
         ResetTo(enrolled), GotoReset(p, into),
         UNCHANGED <<onDisk, phase, cipher, curtain, peppers, pinBounds>>, PastTyped'
  PROVE  PinInv'
<1>a. phase = "running" /\ op[p] \in PinOperation /\ op \in [Party -> PinOperation \union {Nil}]
  BY Runs
<1> DEFINE next == [[op[p] EXCEPT !.counts = FALSE] EXCEPT !.step = into]
<1>1. op' = [Forgiven EXCEPT ![p] = next]
  BY <1>a DEF GotoReset, Forgiven
<1>2. next \in PinOperation /\ next.step = into /\ ~next.counts
  BY <1>a DEF PinOperation
<1> HIDE DEF next
<1>3. \A q \in Party : /\ Forgiven[q] \in PinOperation \union {Nil}
                       /\ op[q] = Nil => Forgiven[q] = Nil
                       /\ op[q] # Nil => /\ ~Forgiven[q].counts /\ Forgiven[q].step = op[q].step
                                         /\ Forgiven[q].secret = op[q].secret
  <2> SUFFICES ASSUME NEW q \in Party
               PROVE  /\ Forgiven[q] \in PinOperation \union {Nil}
                      /\ op[q] = Nil => Forgiven[q] = Nil
                      /\ op[q] # Nil => /\ ~Forgiven[q].counts /\ Forgiven[q].step = op[q].step
                                        /\ Forgiven[q].secret = op[q].secret
    OBVIOUS
  <2>1. op[q] # Nil => op[q] \in PinOperation
    BY <1>a
  <2>2. Forgiven[q] = IF op[q] = Nil THEN Nil ELSE [op[q] EXCEPT !.counts = FALSE]
    BY DEF Forgiven
  <2> QED
    BY <2>1, <2>2 DEF PinOperation
<1>4. op' \in [Party -> PinOperation \union {Nil}]
  BY <1>1, <1>2, <1>3 DEF Forgiven
<1>5. op'[p] = next /\ \A q \in Party : q # p => op'[q] = Forgiven[q]
  BY <1>1 DEF Forgiven
<1>6. Checking' \subseteq Checking
  BY <1>2, <1>3, <1>5 DEF Checking
<1>7. Failing' = {} /\ Answering' = {}
  BY <1>2, <1>3, <1>5 DEF Failing, Answering
<1>8. EnrollsSecret'
  BY <1>2, <1>3, <1>5 DEF EnrollsSecret, PinInv
<1>9. /\ settings' = [settings EXCEPT !.enrolled = enrolled, !.failures = 0, !.held = FALSE]
      /\ told' = 0 /\ UNCHANGED <<wrap, envelope, saved, capsule, tries, changes, crashes, removals>>
  BY DEF ResetTo, onDisk, pinBounds
<1>10. settings \in Settings /\ saved \in Settings /\ saved.failures \in Nat
  BY PartsHold DEF LiveTyped, KeptTyped, Settings
<1>11. settings' \in Settings /\ settings'.failures = 0
  BY <1>9, <1>10 DEF Settings
<1>12. KeptTyped' /\ LiveTyped' /\ OpsTyped'
  BY <1>4, <1>9, <1>11, <1>a, PartsHold DEF KeptTyped, LiveTyped, OpsTyped
<1>13. CountersTyped' /\ saved.failures <= tries /\ tries \in Nat
  BY <1>9, <1>11, PartsHold, PinBounds DEF CountersTyped
<1>14. TriesCount'
  <2>1. /\ IsFiniteSet(Checking') /\ Cardinality(Checking') \in Nat /\ Cardinality(Checking) \in Nat
        /\ Cardinality(Checking') <= Cardinality(Checking)
    BY <1>6, Shrinks DEF PinInv, TriesCount
  <2>2. settings.failures \in Nat
    BY <1>10 DEF Settings
  <2> QED
    BY <1>9, <1>11, <1>13, <2>1, <2>2 DEF PinInv, TriesCount
<1>15. AnswersCount'
  BY <1>7, <1>9, <1>10, <1>11, FS_EmptySet DEF AnswersCount
<1> QED
  BY <1>8, <1>12, <1>13, <1>14, <1>15, PinTypeNext DEF PinInv

LEMMA Grows ==
  ASSUME NEW S, NEW x, IsFiniteSet(S)
  PROVE  /\ IsFiniteSet(S \union {x}) /\ Cardinality(S) \in Nat
         /\ Cardinality(S \union {x}) \in Nat
         /\ Cardinality(S \union {x}) <= Cardinality(S) + 1
<1>1. /\ IsFiniteSet(S \union {x}) /\ Cardinality(S) \in Nat
      /\ Cardinality(S \union {x}) = IF x \in S THEN Cardinality(S) ELSE Cardinality(S) + 1
  BY FS_AddElement, FS_CardinalityType
<1> QED
  BY <1>1

LEMMA CrossingTyped ==
  ASSUME PinInv, NEW p \in Party, Crossing(p)
  PROVE  crossed' \in BOOLEAN
<1>1. PICK b : b = (Is(p, "unlock") /\ WrapperIsBack)
  OBVIOUS
<1>2. b \in BOOLEAN
  BY <1>1
<1> QED
  BY <1>1, <1>2, PartsHold DEF Crossing, PastTyped

LEMMA MarkingKeeps ==
  ASSUME PinInv, NEW p \in Party, MarkEnrolled(p) \/ MarkDisabled(p)
  PROVE  PinInv'
<1>a. op[p] # Nil
  BY DEF MarkEnrolled, MarkDisabled, StepIs
<1>1. CASE MarkEnrolled(p)
  <2>1. PastTyped'
    BY <1>1, PartsHold DEF MarkEnrolled, PastTyped
  <2> QED
    BY <1>a, <1>1, <2>1, ResetKeeps DEF MarkEnrolled, Step
<1>2. CASE MarkDisabled(p)
  <2>1. PastTyped'
    BY <1>2, PartsHold DEF MarkDisabled, PastTyped, past
  <2> QED
    BY <1>a, <1>2, <2>1, ResetKeeps DEF MarkDisabled, Step
<1> QED
  BY <1>1, <1>2

\* A wrong PIN: the attempt becomes a failure, in the count before it is told.
LEMMA FailingKeeps ==
  ASSUME PinInv, NEW p \in Party, StepIs(p, "decide"), NEW n, n = settings.failures + 1,
         settings' = [settings EXCEPT !.failures = n, !.held = n >= MaxAttempts - 1],
         op' = [op EXCEPT ![p].step = "failed", ![p].counts = TRUE, ![p].flag = n >= MaxAttempts],
         UNCHANGED <<onDisk, phase, cipher, curtain, peppers, told, past, posture, pinBounds>>
  PROVE  PinInv'
<1>a. /\ op[p] # Nil /\ phase = "running" /\ op[p] \in PinOperation
      /\ op \in [Party -> PinOperation \union {Nil}] /\ op[p].step = "decide"
  BY Runs DEF StepIs
<1>b. /\ settings \in Settings /\ settings.failures \in Nat /\ saved \in Settings
      /\ saved.failures \in Nat /\ told \in Nat /\ tries \in Nat /\ n \in Nat
  BY PartsHold, PinBounds DEF LiveTyped, KeptTyped, CountersTyped, Settings
<1>1. PICK held, flag : held = (n >= MaxAttempts - 1) /\ flag = (n >= MaxAttempts)
  OBVIOUS
<1>2. held \in BOOLEAN /\ flag \in BOOLEAN
  BY <1>1
<1>3. PICK o : o = [op[p] EXCEPT !.step = "failed", !.counts = TRUE, !.flag = flag]
  OBVIOUS
<1>4. o \in PinOperation /\ o.step = "failed" /\ o.counts
  BY <1>a, <1>2, <1>3 DEF PinOperation, Step
<1>5. op' = [op EXCEPT ![p] = o]
  BY <1>a, <1>1, <1>3
<1>6. op'[p] = o /\ \A q \in Party : q # p => op'[q] = op[q]
  BY <1>a, <1>5
<1>7. settings' \in Settings /\ settings'.failures = n
  <2>1. settings' = [settings EXCEPT !.failures = n, !.held = held]
    BY <1>1
  <2> QED
    BY <1>b, <1>2, <2>1 DEF Settings
<1>8. KeptTyped' /\ LiveTyped' /\ PastTyped'
  BY <1>7, PartsHold DEF KeptTyped, LiveTyped, PastTyped, onDisk, past
<1>9. OpsTyped'
  <2>1. [op EXCEPT ![p] = o] \in [Party -> PinOperation \union {Nil}]
    BY <1>a, <1>4
  <2>2. phase' = "running" /\ capsule' = capsule
    BY <1>a DEF onDisk
  <2>3. QED
    BY <1>5, <2>1, <2>2 DEF OpsTyped
<1>10. EnrollsSecret'
  BY <1>4, <1>6 DEF EnrollsSecret, PinInv
<1>11. Checking' = Checking \ {p} /\ p \in Checking
  BY <1>a, <1>4, <1>6 DEF Checking
<1>12. Failing' \subseteq Failing \union {p} /\ Answering' \subseteq Answering
  BY <1>4, <1>6 DEF Failing, Answering
<1>13. UNCHANGED <<wrap, envelope, saved, capsule, tries, changes, crashes, removals>>
  BY DEF onDisk, pinBounds
<1>14. TriesCount' /\ settings'.failures <= tries
  <2>1. IsFiniteSet(Checking) /\ settings.failures + Cardinality(Checking) <= tries
    BY DEF PinInv, TriesCount
  <2>2. /\ IsFiniteSet(Checking') /\ Cardinality(Checking) \in Nat
        /\ Cardinality(Checking') = Cardinality(Checking) - 1 /\ Cardinality(Checking') \in Nat
    BY <1>11, <2>1, FS_RemoveElement, FS_CardinalityType
  <2> QED
    BY <1>7, <1>b, <1>13, <2>1, <2>2 DEF PinInv, TriesCount
<1>15. AnswersCount'
  <2>1. /\ IsFiniteSet(Failing) /\ told + Cardinality(Failing) <= settings.failures
        /\ told + Cardinality(Answering) <= saved.failures
    BY <1>a DEF PinInv, AnswersCount
  <2>2. /\ IsFiniteSet(Failing \union {p}) /\ Cardinality(Failing) \in Nat
        /\ Cardinality(Failing \union {p}) <= Cardinality(Failing) + 1
    BY <2>1, Grows
  <2>3. /\ IsFiniteSet(Failing') /\ Cardinality(Failing') \in Nat
        /\ Cardinality(Failing \union {p}) \in Nat
        /\ Cardinality(Failing') <= Cardinality(Failing \union {p})
    BY <1>12, <2>2, Shrinks
  <2>4. IsFiniteSet(Answering)
    BY <2>1, Shrinks, AnsweringFails
  <2>5. /\ Cardinality(Answering') \in Nat /\ Cardinality(Answering) \in Nat
        /\ Cardinality(Answering') <= Cardinality(Answering)
    BY <1>12, <2>4, Shrinks
  <2> QED
    BY <1>b, <1>7, <1>13, <2>1, <2>2, <2>3, <2>5 DEF AnswersCount
<1>16. CountersTyped'
  BY <1>13, <1>14, PartsHold DEF CountersTyped
<1> QED
  BY <1>8, <1>9, <1>10, <1>14, <1>15, <1>16, PinTypeNext DEF PinInv

LEMMA DecideKeeps ==
  ASSUME PinInv, NEW p \in Party, Decide(p)
  PROVE  PinInv'
<1>a. op[p] # Nil
  BY DEF Decide, StepIs
<1>1. CASE Opens(op[p])
  <2>1. ResetTo(TRUE) /\ GotoReset(p, "opened") /\ Crossing(p)
        /\ UNCHANGED <<onDisk, phase, cipher, curtain, peppers, forgotten, dropped, posture, pinBounds>>
    BY <1>1 DEF Decide
  <2>2. PastTyped'
    BY <2>1, CrossingTyped, PartsHold DEF PastTyped
  <2> QED
    BY <1>a, <2>1, <2>2, ResetKeeps DEF Step
<1>2. CASE ~Opens(op[p])
  <2>1. PICK n : n = settings.failures + 1
    OBVIOUS
  <2>2. /\ settings' = [settings EXCEPT !.failures = n, !.held = n >= MaxAttempts - 1]
        /\ op' = [op EXCEPT ![p].step = "failed", ![p].counts = TRUE,
                            ![p].flag = n >= MaxAttempts]
        /\ UNCHANGED <<onDisk, phase, cipher, curtain, peppers, told, past, posture, pinBounds>>
    BY <1>2, <2>1 DEF Decide, Counted, past
  <2> QED
    BY <2>1, <2>2, FailingKeeps DEF Decide
<1> QED
  BY <1>1, <1>2

LEMMA SaveFailureKeeps ==
  ASSUME PinInv, NEW p \in Party, SaveFailure(p)
  PROVE  PinInv'
<1>a. /\ op[p] # Nil /\ phase = "running" /\ op[p] \in PinOperation
      /\ op \in [Party -> PinOperation \union {Nil}] /\ op[p].step = "failed"
  BY Runs DEF StepIs, SaveFailure
<1>b. /\ settings.failures \in Nat /\ saved.failures \in Nat /\ told \in Nat /\ tries \in Nat
  BY PartsHold, PinBounds DEF LiveTyped, KeptTyped, CountersTyped, Settings
<1>1. PICK o : o = [op[p] EXCEPT !.step = "answer"]
  OBVIOUS
<1>2. o \in PinOperation /\ o.step = "answer" /\ o.counts = op[p].counts
  BY <1>a, <1>1 DEF PinOperation, Step
<1>3. op' = [op EXCEPT ![p] = o]
  BY <1>a, <1>1 DEF SaveFailure, Goto
<1>4. op'[p] = o /\ \A q \in Party : q # p => op'[q] = op[q]
  BY <1>a, <1>3
<1>5. /\ saved' = settings
      /\ UNCHANGED <<wrap, envelope, capsule, phase, settings, cipher, curtain, peppers, told,
                     forgotten, crossed, dropped, posture, tries, changes, crashes, removals>>
  BY DEF SaveFailure, SaveData, memory, pinHistory, past, pinBounds
<1>6. KeptTyped' /\ LiveTyped' /\ PastTyped'
  BY <1>5, PartsHold DEF KeptTyped, LiveTyped, PastTyped
<1>7. OpsTyped'
  BY <1>a, <1>2, <1>3, <1>5 DEF OpsTyped
<1>8. EnrollsSecret' /\ Checking' \subseteq Checking
  BY <1>2, <1>4 DEF EnrollsSecret, PinInv, Checking
<1>9. Failing' \subseteq Failing /\ Answering' \subseteq Failing
  BY <1>a, <1>2, <1>4 DEF Failing, Answering
<1>10. /\ IsFiniteSet(Failing) /\ told + Cardinality(Failing) <= settings.failures
  BY <1>a DEF PinInv, AnswersCount
<1>11. /\ IsFiniteSet(Failing') /\ Cardinality(Failing') \in Nat /\ Cardinality(Failing) \in Nat
       /\ Cardinality(Failing') <= Cardinality(Failing)
       /\ Cardinality(Answering') \in Nat /\ Cardinality(Answering') <= Cardinality(Failing)
  BY <1>9, <1>10, Shrinks
<1>12. AnswersCount'
  BY <1>b, <1>5, <1>10, <1>11 DEF AnswersCount
<1>13. TriesCount'
  <2>1. /\ IsFiniteSet(Checking') /\ Cardinality(Checking') \in Nat /\ Cardinality(Checking) \in Nat
        /\ Cardinality(Checking') <= Cardinality(Checking)
    BY <1>8, Shrinks DEF PinInv, TriesCount
  <2> QED
    BY <1>b, <1>5, <2>1 DEF PinInv, TriesCount
<1>14. CountersTyped'
  BY <1>5, PartsHold DEF CountersTyped
<1> QED
  BY <1>6, <1>7, <1>8, <1>12, <1>13, <1>14, PinTypeNext DEF PinInv

LEMMA AnswerFailureKeeps ==
  ASSUME PinInv, NEW p \in Party, AnswerFailure(p)
  PROVE  PinInv'
<1>a. /\ op[p] # Nil /\ phase = "running" /\ op[p] \in PinOperation
      /\ op \in [Party -> PinOperation \union {Nil}] /\ op[p].step = "answer"
  BY Runs DEF StepIs, AnswerFailure
<1>b. /\ settings.failures \in Nat /\ saved.failures \in Nat /\ told \in Nat /\ tries \in Nat
  BY PartsHold, PinBounds DEF LiveTyped, KeptTyped, CountersTyped, Settings
<1>1. /\ op' = [op EXCEPT ![p] = Nil] /\ told' = told + (IF op[p].counts THEN 1 ELSE 0)
      /\ curtain' = (curtain /\ ~(p = "curtain" /\ op[p].flag))
      /\ UNCHANGED <<wrap, envelope, saved, capsule, phase, settings, cipher, peppers,
                     forgotten, crossed, dropped, posture, tries, changes, crashes, removals>>
  BY DEF AnswerFailure, Finish, onDisk, past, pinBounds
<1>2. op'[p] = Nil /\ \A q \in Party : q # p => op'[q] = op[q]
  BY <1>a, <1>1
<1>3. curtain' \in BOOLEAN /\ told' \in Nat
  BY <1>1, <1>b
<1>4. KeptTyped' /\ LiveTyped' /\ PastTyped'
  BY <1>1, <1>3, PartsHold DEF KeptTyped, LiveTyped, PastTyped
<1>5. OpsTyped'
  BY <1>a, <1>1 DEF OpsTyped
<1>6. EnrollsSecret' /\ Checking' \subseteq Checking
  BY <1>2 DEF EnrollsSecret, PinInv, Checking
<1>7. Failing' = Failing \ {p} /\ Answering' = Answering \ {p}
  BY <1>2 DEF Failing, Answering
<1>8. op[p].counts => p \in Failing /\ p \in Answering
  BY <1>a DEF Failing, Answering
<1>9. ~op[p].counts => p \notin Failing /\ p \notin Answering
  BY DEF Failing, Answering
<1>10. /\ IsFiniteSet(Failing) /\ told + Cardinality(Failing) <= settings.failures
       /\ told + Cardinality(Answering) <= saved.failures
  BY <1>a DEF PinInv, AnswersCount
<1>11. IsFiniteSet(Answering)
  BY <1>10, Shrinks, AnsweringFails
<1>12. /\ IsFiniteSet(Failing') /\ Cardinality(Failing) \in Nat /\ Cardinality(Answering) \in Nat
       /\ Cardinality(Failing') =
            IF p \in Failing THEN Cardinality(Failing) - 1 ELSE Cardinality(Failing)
       /\ Cardinality(Answering') = IF p \in Answering THEN Cardinality(Answering) - 1
                                    ELSE Cardinality(Answering)
  BY <1>7, <1>10, <1>11, FS_RemoveElement, FS_CardinalityType
<1>13. AnswersCount'
  <2>1. CASE op[p].counts
    BY <1>b, <1>1, <1>8, <1>10, <1>12, <2>1 DEF AnswersCount
  <2>2. CASE ~op[p].counts
    BY <1>b, <1>1, <1>9, <1>10, <1>12, <2>2 DEF AnswersCount
  <2> QED
    BY <2>1, <2>2
<1>14. TriesCount'
  <2>1. /\ IsFiniteSet(Checking') /\ Cardinality(Checking') \in Nat /\ Cardinality(Checking) \in Nat
        /\ Cardinality(Checking') <= Cardinality(Checking)
    BY <1>6, Shrinks DEF PinInv, TriesCount
  <2> QED
    BY <1>b, <1>1, <2>1 DEF PinInv, TriesCount
<1>15. CountersTyped'
  BY <1>1, <1>3, PartsHold DEF CountersTyped
<1> QED
  BY <1>4, <1>5, <1>6, <1>13, <1>14, <1>15, PinTypeNext DEF PinInv

LEMMA NewOpTyped ==
  ASSUME PinInv, NEW kind \in Kind, NEW into \in Step, NEW secret \in Secrets \union {Nil}
  PROVE  NewOp(kind, into, secret) \in PinOperation
         /\ NewOp(kind, into, secret).step = into /\ NewOp(kind, into, secret).secret = secret
<1>1. settings.require \in BOOLEAN
  BY PartsHold DEF LiveTyped, Settings
<1> QED
  BY <1>1, PinBounds DEF NewOp, PinOperation, Envelope, SealedKey

\* An operation begins; an attempt is counted among the tries.
LEMMA BeginKeeps ==
  ASSUME PinInv, NEW p \in Party, op[p] = Nil, NEW o \in PinOperation,
         op' = [op EXCEPT ![p] = o], phase = "running", o.step \notin {"failed", "answer"},
         o.step \in {"pepper", "envelope"} => o.secret \in Secrets,
         o.step \in {"read", "derive", "decide"} => tries' = tries + 1,
         tries' = tries \/ tries' = tries + 1, tries' \in 0..MaxTries, changes' \in 0..MaxChanges,
         KeptTyped', LiveTyped', PastTyped', settings'.failures = settings.failures,
         UNCHANGED <<saved, capsule, told, phase, crashes, removals>>
  PROVE  PinInv'
<1>a. op \in [Party -> PinOperation \union {Nil}]
  BY PartsHold DEF OpsTyped
<1>b. /\ settings.failures \in Nat /\ saved.failures \in Nat /\ told \in Nat /\ tries \in Nat
      /\ tries' \in Nat /\ tries <= tries'
  BY PartsHold, PinBounds DEF LiveTyped, KeptTyped, CountersTyped, Settings
<1>1. op'[p] = o /\ \A q \in Party : q # p => op'[q] = op[q]
  BY <1>a
<1>2. OpsTyped'
  BY <1>a DEF OpsTyped
<1>3. EnrollsSecret'
  BY <1>1 DEF EnrollsSecret, PinInv
<1>4. Failing' \subseteq Failing /\ Answering' \subseteq Answering
  BY <1>1 DEF Failing, Answering
<1>5. TriesCount'
  <2>1. /\ IsFiniteSet(Checking) /\ settings.failures + Cardinality(Checking) <= tries
        /\ saved.failures <= tries
        /\ capsule # Nil => capsule.settings.failures <= tries
    BY DEF PinInv, TriesCount
  <2>2. capsule' # Nil => capsule'.settings.failures <= tries'
    <3>1. SUFFICES ASSUME capsule # Nil PROVE capsule.settings.failures <= tries'
      OBVIOUS
    <3>2. capsule.settings.failures \in Nat
      BY <3>1, PartsHold DEF KeptTyped, KeptState, Copies, Settings
    <3> QED
      BY <1>b, <2>1, <3>1, <3>2
  <2>3. CASE o.step \in {"read", "derive", "decide"}
    <3>1. Checking' \subseteq Checking \union {p}
      BY <1>1 DEF Checking
    <3>2. /\ IsFiniteSet(Checking \union {p}) /\ Cardinality(Checking) \in Nat
          /\ Cardinality(Checking \union {p}) <= Cardinality(Checking) + 1
      BY <2>1, Grows
    <3>3. /\ IsFiniteSet(Checking') /\ Cardinality(Checking') \in Nat
          /\ Cardinality(Checking \union {p}) \in Nat
          /\ Cardinality(Checking') <= Cardinality(Checking \union {p})
      BY <3>1, <3>2, Shrinks
    <3> QED
      BY <1>b, <2>1, <2>2, <2>3, <3>2, <3>3 DEF TriesCount
  <2>4. CASE o.step \notin {"read", "derive", "decide"}
    <3>1. Checking' \subseteq Checking
      BY <1>1, <2>4 DEF Checking
    <3>2. /\ IsFiniteSet(Checking') /\ Cardinality(Checking') \in Nat
          /\ Cardinality(Checking) \in Nat /\ Cardinality(Checking') <= Cardinality(Checking)
      BY <2>1, <3>1, Shrinks
    <3> QED
      BY <1>b, <2>1, <2>2, <3>2 DEF TriesCount
  <2> QED
    BY <2>3, <2>4
<1>6. AnswersCount'
  <2>1. /\ IsFiniteSet(Failing) /\ told + Cardinality(Failing) <= settings.failures
        /\ told + Cardinality(Answering) <= saved.failures
    BY DEF PinInv, AnswersCount
  <2>2. /\ IsFiniteSet(Failing') /\ Cardinality(Failing') \in Nat /\ Cardinality(Failing) \in Nat
        /\ Cardinality(Failing') <= Cardinality(Failing)
    BY <1>4, <2>1, Shrinks
  <2>3. IsFiniteSet(Answering)
    BY <2>1, Shrinks, AnsweringFails
  <2>4. /\ Cardinality(Answering') \in Nat /\ Cardinality(Answering) \in Nat
        /\ Cardinality(Answering') <= Cardinality(Answering)
    BY <1>4, <2>3, Shrinks
  <2> QED
    BY <1>b, <2>1, <2>2, <2>4 DEF AnswersCount
<1>7. CountersTyped'
  <2>1. settings.failures <= tries /\ saved.failures <= tries
        /\ crashes \in 0..MaxCrashes /\ removals \in 0..MaxRemovals
    BY PartsHold DEF CountersTyped
  <2> QED
    BY <1>b, <2>1 DEF CountersTyped
<1> QED
  BY <1>2, <1>3, <1>5, <1>6, <1>7, PinTypeNext DEF PinInv

LEMMA Parties == Tabs \subseteq Party /\ "curtain" \in Party /\ "forgot" \in Party
  BY DEF Party

\* What the settings tab is asked for.
LEMMA TabKeeps ==
  ASSUME PinInv, NEW p \in Tabs, Tab(p)
  PROVE  PinInv'
<1> USE Parties
<1>a. ASSUME OpensTab(p)
      PROVE  phase = "running" /\ op[p] = Nil /\ changes' \in 0..MaxChanges /\ PastTyped'
  <2>1. PICK b : b = Overlaps
    OBVIOUS
  <2>2. b \in BOOLEAN
    BY <2>1 DEF Overlaps
  <2>3. PastTyped'
    BY <1>a, <2>1, <2>2, PartsHold DEF OpensTab, PastTyped
  <2> QED
    BY <1>a, <2>3, PartsHold, PinBounds DEF OpensTab, CountersTyped
<1>b. tries \in Nat /\ tries \in 0..MaxTries
  BY PartsHold, PinBounds DEF CountersTyped
<1>1. ASSUME NEW secret \in Secrets, StartEnroll(p, secret)
      PROVE  PinInv'
  <2>1. PICK o : o = NewOp("enroll", "pepper", secret)
    OBVIOUS
  <2>2. o \in PinOperation /\ o.step = "pepper" /\ o.secret = secret
    BY <2>1, NewOpTyped DEF Kind, Step
  <2>3. KeptTyped' /\ LiveTyped' /\ PastTyped'
    BY <1>a, <1>1, PartsHold
    DEF StartEnroll, KeptTyped, LiveTyped, onDisk, memory
  <2>4. /\ op' = [op EXCEPT ![p] = o]
        /\ UNCHANGED <<saved, capsule, told, phase, crashes, removals, tries, settings>>
    BY <1>1, <2>1 DEF StartEnroll, onDisk, memory
  <2> QED
    BY <1>a, <1>b, <1>1, <2>2, <2>3, <2>4, BeginKeeps DEF StartEnroll
<1>2. ASSUME NEW secret \in Secrets \union {Nil}, StartDisable(p, secret)
      PROVE  PinInv'
  <2>1. PICK o : o = NewOp("disable", "read", secret)
    OBVIOUS
  <2>2. o \in PinOperation /\ o.step = "read"
    BY <2>1, NewOpTyped DEF Kind, Step
  <2>3. KeptTyped' /\ LiveTyped' /\ PastTyped'
    BY <1>a, <1>2, PartsHold
    DEF StartDisable, KeptTyped, LiveTyped, onDisk, memory
  <2>4. /\ op' = [op EXCEPT ![p] = o]
        /\ UNCHANGED <<saved, capsule, told, phase, crashes, removals, settings>>
        /\ tries' = tries + 1 /\ tries' \in 0..MaxTries
    BY <1>b, <1>2, <2>1, PinBounds DEF StartDisable, onDisk, memory
  <2> QED
    BY <1>a, <1>2, <2>2, <2>3, <2>4, BeginKeeps DEF StartDisable
<1>3. ASSUME NEW on \in BOOLEAN, StartToggle(p, on)
      PROVE  PinInv'
  <2>1. PICK o : o = [NewOp("toggle", "check", Nil) EXCEPT !.flag = on]
    OBVIOUS
  <2>2. o \in PinOperation /\ o.step = "check"
    <3>1. /\ NewOp("toggle", "check", Nil) \in PinOperation
          /\ NewOp("toggle", "check", Nil).step = "check"
      BY NewOpTyped DEF Kind, Step
    <3>2. QED
      BY <2>1, <3>1 DEF PinOperation
  <2>3. settings' \in Settings /\ settings'.failures = settings.failures
    BY <1>3, PartsHold DEF StartToggle, LiveTyped, Settings
  <2>4. KeptTyped' /\ LiveTyped' /\ PastTyped'
    BY <1>a, <1>3, <2>3, PartsHold DEF StartToggle, KeptTyped, LiveTyped, onDisk
  <2>5. /\ op' = [op EXCEPT ![p] = o]
        /\ UNCHANGED <<saved, capsule, told, phase, crashes, removals, tries>>
    BY <1>3, <2>1 DEF StartToggle, onDisk
  <2>6. OpensTab(p)
    BY <1>3 DEF StartToggle
  <2> QED
    BY <1>a, <1>b, <2>2, <2>3, <2>4, <2>5, <2>6, BeginKeeps
<1> QED
  BY <1>1, <1>2, <1>3 DEF Tab

LEMMA StartUnlockKeeps ==
  ASSUME PinInv, NEW secret \in Secrets \union {Nil}, StartUnlock(secret)
  PROVE  PinInv'
<1> USE Parties
<1>1. /\ phase = "running" /\ op["curtain"] = Nil /\ tries' = tries + 1 /\ tries' \in 0..MaxTries
      /\ changes \in 0..MaxChanges /\ tries \in Nat
      /\ UNCHANGED <<wrap, envelope, saved, capsule, phase, settings, cipher, peppers, told,
                     forgotten, crossed, dropped, posture, changes, crashes, removals>>
  BY PartsHold, PinBounds DEF StartUnlock, CountersTyped, onDisk, pinHistory, past
<1>2. CASE settings.held
  <2>1. curtain' = FALSE /\ op' = op
    BY <1>2 DEF StartUnlock
  <2>2. KeptTyped' /\ LiveTyped' /\ PastTyped' /\ OpsTyped'
    BY <1>1, <2>1, PartsHold DEF KeptTyped, LiveTyped, PastTyped, OpsTyped
  <2>3. CountersTyped'
    <3>1. /\ settings.failures \in Nat /\ saved.failures \in Nat
          /\ settings.failures <= tries /\ saved.failures <= tries /\ told \in Nat
          /\ crashes \in 0..MaxCrashes /\ removals \in 0..MaxRemovals
      BY PartsHold DEF CountersTyped, LiveTyped, KeptTyped, Settings
    <3> QED
      BY <1>1, <3>1 DEF CountersTyped
  <2>4. Checking' = Checking /\ Failing' = Failing /\ Answering' = Answering /\ EnrollsSecret'
    BY <2>1 DEF Checking, Failing, Answering, EnrollsSecret, PinInv
  <2>5. TriesCount'
    <3>1. /\ IsFiniteSet(Checking) /\ settings.failures + Cardinality(Checking) <= tries
          /\ saved.failures <= tries
          /\ capsule # Nil => capsule.settings.failures <= tries
      BY DEF PinInv, TriesCount
    <3>2. /\ settings.failures \in Nat /\ saved.failures \in Nat
          /\ Cardinality(Checking) \in Nat
      BY <3>1, FS_CardinalityType, PartsHold DEF LiveTyped, KeptTyped, Settings
    <3>3. capsule # Nil => capsule.settings.failures \in Nat
      BY PartsHold DEF KeptTyped, KeptState, Copies, Settings
    <3> QED
      BY <1>1, <2>4, <3>1, <3>2, <3>3 DEF TriesCount
  <2>6. AnswersCount'
    BY <1>1, <2>4 DEF PinInv, AnswersCount
  <2> QED
    BY <2>2, <2>3, <2>4, <2>5, <2>6, PinTypeNext DEF PinInv
<1>3. CASE ~settings.held
  <2>1. PICK o : o = NewOp("unlock", "read", secret)
    OBVIOUS
  <2>2. o \in PinOperation /\ o.step = "read"
    BY <2>1, NewOpTyped DEF Kind, Step
  <2>3. op' = [op EXCEPT !["curtain"] = o] /\ curtain' = curtain
    BY <1>3, <2>1 DEF StartUnlock
  <2>4. KeptTyped' /\ LiveTyped' /\ PastTyped'
    BY <1>1, <2>3, PartsHold DEF KeptTyped, LiveTyped, PastTyped
  <2> QED
    BY <1>1, <2>2, <2>3, <2>4, BeginKeeps
<1> QED
  BY <1>2, <1>3

LEMMA StartForgotKeeps ==
  ASSUME PinInv, StartForgot
  PROVE  PinInv'
<1> USE Parties
<1>1. PICK o : o = NewOp("forgot", "clearEnvelope", Nil)
  OBVIOUS
<1>2. o \in PinOperation /\ o.step = "clearEnvelope"
  BY <1>1, NewOpTyped DEF Kind, Step
<1>3. op' = [op EXCEPT !["forgot"] = o] /\ phase = "running" /\ op["forgot"] = Nil
  BY <1>1 DEF StartForgot
<1>4. KeptTyped' /\ LiveTyped' /\ PastTyped'
  BY PartsHold DEF StartForgot, KeptTyped, LiveTyped, PastTyped, onDisk, memory
<1>5. /\ UNCHANGED <<saved, capsule, told, phase, crashes, removals, settings, tries, changes>>
      /\ tries \in 0..MaxTries /\ changes \in 0..MaxChanges
  BY PartsHold DEF StartForgot, onDisk, memory, pinBounds, CountersTyped
<1> QED
  BY <1>2, <1>3, <1>4, <1>5, BeginKeeps

\* The device itself.
LEMMA RunningKeeps ==
  ASSUME PinInv, Lock \/ BackoffEnds \/ BackgroundSave \/ BackgroundCapsule
  PROVE  PinInv'
<1>1. phase = "running" /\ UNCHANGED <<op, phase, told, pinBounds>>
  BY DEF Lock, BackoffEnds, BackgroundSave, BackgroundCapsule, pinHistory
<1>2. /\ Checking' \subseteq Checking /\ Failing' \subseteq Failing
      /\ Answering' \subseteq Answering /\ EnrollsSecret'
  BY <1>1 DEF Checking, Failing, Answering, EnrollsSecret, PinInv
<1>3. /\ KeptTyped' /\ LiveTyped' /\ PastTyped' /\ settings'.failures = settings.failures
      /\ saved' = saved \/ saved' = settings' 
      /\ capsule' = capsule \/ capsule'.settings = settings
  <2> USE PartsHold DEF onDisk, memory, pinHistory, past
  <2>1. CASE Lock
    BY <2>1 DEF Lock, KeptTyped, LiveTyped, PastTyped
  <2>2. CASE BackoffEnds
    <3>1. settings' \in Settings /\ settings'.failures = settings.failures
      BY <2>2 DEF BackoffEnds, LiveTyped, Settings
    <3> QED
      BY <2>2, <3>1 DEF BackoffEnds, KeptTyped, LiveTyped, PastTyped
  <2>3. CASE BackgroundSave
    BY <2>3 DEF BackgroundSave, SaveData, KeptTyped, LiveTyped, PastTyped
  <2>4. CASE BackgroundCapsule
    <3>1. capsule' \in KeptState /\ (capsule' = capsule \/ capsule'.settings = settings)
      BY <2>4, KeptSettingsTyped DEF BackgroundCapsule
    <3> QED
      BY <2>4, <3>1 DEF BackgroundCapsule, KeptTyped, LiveTyped, PastTyped
  <2> QED
    BY <2>1, <2>2, <2>3, <2>4
<1>4. OpsTyped'
  BY <1>1, PartsHold DEF OpsTyped
<1>5. TriesCount' /\ AnswersCount'
  BY <1>1, <1>2, <1>3, CountsStay DEF pinBounds
<1>6. CountersTyped'
  BY <1>1, <1>3, PartsHold DEF CountersTyped, pinBounds
<1> QED
  BY <1>2, <1>3, <1>4, <1>5, <1>6, PinTypeNext DEF PinInv

\* No operation is at work when the application starts or ends.
LEMMA StillKeeps ==
  ASSUME PinInv, op' = [p \in Party |-> Nil], KeptTyped', LiveTyped', PastTyped',
         phase' # "running" => cipher' = "none" /\ ~curtain',
         settings'.failures = 0 \/ settings' = saved',
         saved'.failures <= tries, told' <= saved'.failures, told' \in Nat,
         phase' = "running" => settings' = saved', phase' = "restored" => capsule # Nil,
         capsule' = capsule, tries' = tries, changes' = changes, crashes' \in 0..MaxCrashes,
         removals' \in 0..MaxRemovals
  PROVE  PinInv'
<1>1. Checking' = {} /\ Failing' = {} /\ Answering' = {} /\ EnrollsSecret' /\ OpsTyped'
  BY DEF Checking, Failing, Answering, EnrollsSecret, OpsTyped
<1>2. IsFiniteSet({}) /\ Cardinality({}) = 0
  BY FS_EmptySet
<1>3. /\ saved'.failures \in Nat /\ settings'.failures \in Nat
      /\ tries \in Nat /\ tries \in 0..MaxTries /\ changes \in 0..MaxChanges
  BY PartsHold, PinBounds DEF KeptTyped, LiveTyped, CountersTyped, Settings
<1>4. CountersTyped' /\ settings'.failures <= tries
  BY <1>3 DEF CountersTyped
<1>5. TriesCount'
  BY <1>1, <1>2, <1>3, <1>4 DEF TriesCount, PinInv
<1>6. AnswersCount'
  BY <1>1, <1>2, <1>3 DEF AnswersCount
<1> QED
  BY <1>1, <1>4, <1>5, <1>6, PinTypeNext DEF PinInv

LEMMA EmptyOps ==
  ASSUME PinInv, phase # "running"
  PROVE  op = [p \in Party |-> Nil] /\ cipher = "none" /\ ~curtain
  BY PartsHold DEF OpsTyped

LEMMA ToldCounts ==
  ASSUME PinInv
  PROVE  /\ told <= saved.failures /\ saved.failures <= tries /\ saved.failures \in Nat
         /\ told \in Nat
         /\ phase = "running" => told <= settings.failures
<1>1. /\ saved.failures \in Nat /\ told \in Nat /\ saved.failures <= tries
      /\ settings.failures \in Nat
  BY PartsHold DEF KeptTyped, LiveTyped, CountersTyped, Settings
<1>2. /\ IsFiniteSet(Failing) /\ told + Cardinality(Answering) <= saved.failures
      /\ phase = "running" => told + Cardinality(Failing) <= settings.failures
  BY DEF PinInv, AnswersCount
<1>3. Cardinality(Answering) \in Nat /\ Cardinality(Failing) \in Nat
  BY <1>2, Shrinks, AnsweringFails
<1> QED
  BY <1>1, <1>2, <1>3

LEMMA EndingKeeps ==
  ASSUME PinInv, Crash \/ Remove
  PROVE  PinInv'
<1>1. CASE Crash
  <2>1. crashes' \in 0..MaxCrashes
    BY <1>1, PartsHold, PinBounds DEF Crash, CountersTyped
  <2>2. /\ phase' = "off" /\ settings' = Defaults /\ cipher' = "none" /\ curtain' = FALSE
        /\ op' = [p \in Party |-> Nil] /\ posture' = "none"
        /\ UNCHANGED <<wrap, envelope, saved, capsule, peppers, told, forgotten, crossed,
                       dropped, tries, changes, removals>>
    BY <1>1 DEF Crash, Ended, onDisk, past
  <2>3. KeptTyped' /\ LiveTyped' /\ PastTyped'
    BY <2>2, PartsHold, DefaultsTyped DEF KeptTyped, LiveTyped, PastTyped
  <2>4. removals' \in 0..MaxRemovals
    BY <2>2, PartsHold DEF CountersTyped
  <2> QED
    BY <2>1, <2>2, <2>3, <2>4, DefaultsTyped, ToldCounts, StillKeeps
<1>2. CASE Remove
  <2>1. removals' \in 0..MaxRemovals /\ crashes \in 0..MaxCrashes /\ tries \in Nat
    BY <1>2, PartsHold, PinBounds DEF Remove, CountersTyped
  <2>2. /\ phase = "off" /\ wrap' = FALSE /\ envelope' = Nil /\ saved' = Defaults /\ told' = 0
        /\ UNCHANGED <<capsule, phase, settings, cipher, curtain, op, peppers, forgotten,
                       crossed, dropped, posture, tries, changes, crashes>>
    BY <1>2 DEF Remove, memory, past
  <2>3. KeptTyped' /\ LiveTyped' /\ PastTyped'
    BY <2>2, PartsHold, DefaultsTyped DEF KeptTyped, LiveTyped, PastTyped, Envelope, SealedKey
  <2>4. /\ op = [p \in Party |-> Nil] /\ cipher = "none" /\ ~curtain
    BY <2>2, EmptyOps
  <2>5. Checking' = {} /\ Failing' = {} /\ Answering' = {} /\ EnrollsSecret'
    BY <2>2, <2>4 DEF Checking, Failing, Answering, EnrollsSecret
  <2>6. IsFiniteSet({}) /\ Cardinality({}) = 0
    BY FS_EmptySet
  <2>7. saved'.failures = 0 /\ settings.failures <= tries /\ settings.failures \in Nat
    BY <2>2, DefaultsTyped, PartsHold DEF CountersTyped, LiveTyped, Settings
  <2>8. TriesCount'
    BY <2>1, <2>2, <2>5, <2>6, <2>7 DEF TriesCount, PinInv
  <2>9. AnswersCount'
    BY <2>2, <2>5, <2>6, <2>7 DEF AnswersCount
  <2>10. CountersTyped' /\ OpsTyped'
    BY <2>1, <2>2, <2>7, PartsHold DEF CountersTyped, OpsTyped
  <2> QED
    BY <2>3, <2>5, <2>8, <2>9, <2>10, PinTypeNext DEF PinInv
<1> QED
  BY <1>1, <1>2

LEMMA LandTyped ==
  ASSUME PinInv, NEW kept \in Settings, Land(kept), phase # "running"
  PROVE  /\ LiveTyped' /\ PastTyped' /\ op' = [p \in Party |-> Nil]
         /\ phase' = "running" /\ settings' = kept
         /\ UNCHANGED <<wrap, envelope, capsule, tries, changes, crashes, removals>>
         /\ crashes \in 0..MaxCrashes /\ removals \in 0..MaxRemovals
<1>1. PICK b : b = LandsLocked(kept)
  OBVIOUS
<1>2. wrap \in BOOLEAN /\ kept.enrolled \in BOOLEAN /\ kept.require \in BOOLEAN
  BY PartsHold DEF KeptTyped, Settings
<1>3. b \in BOOLEAN
  BY <1>1, <1>2 DEF LandsLocked
<1>4. /\ curtain' = b /\ settings' = kept /\ phase' = "running"
      /\ UNCHANGED <<wrap, envelope, capsule, op, peppers, forgotten, crossed, dropped,
                     posture, tries, changes, crashes, removals>>
  BY <1>1 DEF Land, past, pinBounds
<1>5. cipher' \in {"none", "ready", "locked", "recovery"}
  BY <1>1, <1>2, <1>3 DEF Land
<1> QED
  BY <1>3, <1>4, <1>5, EmptyOps, PartsHold DEF LiveTyped, PastTyped, CountersTyped

LEMMA StartingKeeps ==
  ASSUME PinInv, Start \/ RestoreFiles \/ RestoreSettings
  PROVE  PinInv'
<1>1. CASE Start
  <2>1. phase # "running" /\ saved \in Settings /\ Land(saved) /\ saved' = saved /\ told' = told
    BY <1>1, PartsHold DEF Start, KeptTyped
  <2>2. KeptTyped'
    BY <2>1, LandTyped, PartsHold DEF KeptTyped
  <2> QED
    BY <2>1, <2>2, LandTyped, ToldCounts, StillKeeps
<1>2. CASE RestoreFiles
  <2>1. capsule \in KeptState /\ capsule # Nil
    BY <1>2, PartsHold DEF RestoreFiles, KeptTyped
  <2>2. /\ wrap' = capsule.wrap /\ phase' = "restored" /\ phase = "off"
        /\ envelope' = IF capsule.envelope = Nil THEN envelope ELSE capsule.envelope
        /\ UNCHANGED <<saved, capsule, settings, cipher, curtain, op, peppers, told, forgotten,
                       crossed, dropped, posture, tries, changes, crashes, removals>>
    BY <1>2 DEF RestoreFiles, memory, pinHistory, past, pinBounds
  <2>3. KeptTyped' /\ LiveTyped' /\ PastTyped'
    BY <2>1, <2>2, PartsHold DEF KeptTyped, LiveTyped, PastTyped, KeptState, Copies
  <2>4. OpsTyped' /\ CountersTyped'
    <3>1. OpsTyped'
      BY <2>1, <2>2, PartsHold DEF OpsTyped
    <3>2. CountersTyped'
      BY <2>2, PartsHold DEF CountersTyped
    <3> QED
      BY <3>1, <3>2
  <2>5. Checking' = Checking /\ Failing' = Failing /\ Answering' = Answering /\ EnrollsSecret'
    BY <2>2 DEF Checking, Failing, Answering, EnrollsSecret, PinInv
  <2>6. TriesCount' /\ AnswersCount'
    BY <2>2, <2>5 DEF TriesCount, AnswersCount, PinInv
  <2> QED
    BY <2>3, <2>4, <2>5, <2>6, PinTypeNext DEF PinInv
<1>3. CASE RestoreSettings
  <2>1. phase = "restored" /\ saved' = capsule.settings /\ told' = 0 /\ Land(capsule.settings)
    BY <1>3 DEF RestoreSettings
  <2>2. capsule # Nil /\ capsule \in KeptState
    BY <2>1, PartsHold DEF OpsTyped, KeptTyped
  <2>3. capsule.settings \in Settings /\ capsule.settings.failures \in Nat
        /\ capsule.settings.failures <= tries
    BY <2>2 DEF KeptState, Copies, Settings, PinInv, TriesCount
  <2>4. KeptTyped'
    BY <2>1, <2>3, LandTyped, PartsHold DEF KeptTyped
  <2> QED
    BY <2>1, <2>3, <2>4, LandTyped, StillKeeps
<1> QED
  BY <1>1, <1>2, <1>3

LEMMA NextPin == PinInv /\ [PinNext]_pinVars => PinInv'
<1> SUFFICES ASSUME PinInv, [PinNext]_pinVars PROVE PinInv'
  OBVIOUS
<1>1. CASE UNCHANGED pinVars
  <2>1. UNCHANGED <<wrap, envelope, saved, capsule, phase, settings, cipher, curtain, op, peppers,
                    told, forgotten, crossed, dropped, posture, tries, changes, crashes, removals>>
    BY <1>1 DEF pinVars, onDisk, memory, pinHistory, past, pinBounds
  <2>2. KeptTyped' /\ LiveTyped' /\ OpsTyped' /\ PastTyped' /\ CountersTyped'
    BY <2>1, PartsHold DEF KeptTyped, LiveTyped, OpsTyped, PastTyped, CountersTyped
  <2>3. Checking' = Checking /\ Failing' = Failing /\ Answering' = Answering /\ EnrollsSecret'
    BY <2>1 DEF Checking, Failing, Answering, EnrollsSecret, PinInv
  <2>4. TriesCount' /\ AnswersCount'
    BY <2>1, <2>3 DEF TriesCount, AnswersCount, PinInv
  <2> QED
    BY <2>2, <2>3, <2>4, PinTypeNext DEF PinInv
<1>2. ASSUME NEW p \in Tabs, Tab(p) PROVE PinInv'
  BY <1>2, TabKeeps
<1>3. ASSUME NEW secret \in Secrets \union {Nil}, StartUnlock(secret) PROVE PinInv'
  BY <1>3, StartUnlockKeeps
<1>4. ASSUME NEW p \in Party,
             \/ Enrolling(p) \/ Toggling(p) \/ Unlocking(p) \/ Disabling(p)
             \/ KeepPinOnly(p) \/ ClearWrap(p) \/ Recapture(p)
      PROVE  PinInv'
  <2>1. CASE Enrolling(p) \/ KeepPinOnly(p) \/ ClearWrap(p) \/ Recapture(p)
    BY <2>1, EnrollingKeeps, ReadingKeeps, MarkingKeeps DEF Enrolling
  <2>2. CASE Toggling(p)
    BY <2>2, TogglingKeeps DEF Toggling
  <2>3. CASE Unlocking(p)
    BY <2>3, ReadingKeeps, UnlockingKeeps, DecideKeeps, SaveFailureKeeps, AnswerFailureKeeps
    DEF Unlocking
  <2>4. CASE Disabling(p)
    BY <2>4, DisablingKeeps, MarkingKeeps DEF Disabling
  <2> QED
    BY <1>4, <2>1, <2>2, <2>3, <2>4
<1>5. CASE StartForgot \/ Lock \/ BackoffEnds \/ BackgroundSave \/ BackgroundCapsule
  BY <1>5, StartForgotKeeps, RunningKeeps
<1>6. CASE Crash \/ Remove \/ Start \/ RestoreFiles \/ RestoreSettings
  BY <1>6, EndingKeeps, StartingKeeps
<1> QED
  BY <1>1, <1>2, <1>3, <1>4, <1>5, <1>6 DEF PinNext

\* Every variable of the PIN lock has its type, and the count of failures never
\* leaves the attempts that were made, on disk, in memory and in the capsule alike
\* (pin-lock-manager.ts: registerFailure).
THEOREM PinTypesHold == PinSpec => []PinTypeOK
<1>1. PinInv => PinTypeOK
  BY DEF PinInv
<1> QED
  BY <1>1, InitPin, NextPin, PTL DEF PinSpec

\* A wrong PIN whose answer the user saw is in the count, in memory and on disk,
\* whatever else was saved, restored, killed or unlocked meanwhile, until the count
\* itself is reset (pin-lock-manager.ts: registerFailure, unlock).
THEOREM FailuresHold == PinSpec => []FailuresCount
<1>1. PinInv => FailuresCount
  BY ToldCounts DEF FailuresCount
<1> QED
  BY <1>1, InitPin, NextPin, PTL DEF PinSpec

(***************************************************************************)
(* PinLock: where the operations stand.                                    *)
(***************************************************************************)
EnrollSteps == {"pepper", "envelope", "enrolled", "save", "capsule", "clear", "recapture"}
ToggleSteps == {"check", "record", "capsule", "clear", "save", "wrap", "keep", "unwrap",
                "revert", "revertWrap", "revertSave", "recapture"}
UnlockSteps == {"read", "derive", "decide", "failed", "answer", "opened", "adopt", "capsule",
                "clear", "migrate", "lift"}
DisableSteps == {"read", "derive", "decide", "failed", "answer", "opened", "adopt", "rewrap",
                 "clearEnvelope", "clearPepper", "reset", "resetSave", "recapture"}
ForgotSteps == {"clearEnvelope", "clearPepper", "reset", "resetSave", "logout"}

InPlace(p) ==
  \/ p \in Tabs /\ op[p].kind = "enroll" /\ op[p].step \in EnrollSteps
  \/ p \in Tabs /\ op[p].kind = "toggle" /\ op[p].step \in ToggleSteps
  \/ p \in Tabs /\ op[p].kind = "disable" /\ op[p].step \in DisableSteps
  \/ p = "curtain" /\ op[p].kind = "unlock" /\ op[p].step \in UnlockSteps
  \/ p = "forgot" /\ op[p].kind = "forgot" /\ op[p].step \in ForgotSteps

\* Every operation is at one of its own steps, and belongs to who may ask for it.
OpsInPlace == \A p \in Party : op[p] # Nil => InPlace(p)

LEMMA Apart ==
  /\ \A p \in Tabs : p \in Party /\ p # "curtain" /\ p # "forgot"
  /\ "curtain" \in Party /\ "forgot" \in Party
  /\ \A p \in Party : p \in Tabs \/ p = "curtain" \/ p = "forgot"
  BY PinLockAssumption DEF Party

\* An operation of the others is what it was, but perhaps forgiven.
Alike(q) ==
  /\ op[q] = Nil => op'[q] = Nil
  /\ op[q] # Nil => /\ op'[q] # Nil
                    /\ op'[q].kind = op[q].kind /\ op'[q].step = op[q].step
                    /\ op'[q].secret = op[q].secret /\ op'[q].pepper = op[q].pepper
                    /\ op'[q].envelope = op[q].envelope
                    /\ op'[q].was = op[q].was /\ op'[q].flag = op[q].flag

Others(p) == \A q \in Party : q # p => Alike(q)

\* The operation of p goes on with another step, and otherwise as it was; or it ends.
Reaches(p, into) ==
  /\ op'[p] # Nil /\ op'[p].kind = op[p].kind /\ op'[p].step = into
  /\ op'[p].secret = op[p].secret /\ op'[p].was = op[p].was
  /\ Others(p)
Becomes(p, into) ==
  /\ Reaches(p, into)
  /\ op'[p].pepper = op[p].pepper /\ op'[p].envelope = op[p].envelope
  /\ op'[p].flag = op[p].flag
Ends(p) == op'[p] = Nil /\ Others(p)

LEMMA OpRecords ==
  ASSUME PinInv
  PROVE  /\ op \in [Party -> PinOperation \union {Nil}]
         /\ \A q \in Party : op[q] # Nil => op[q] \in PinOperation
         /\ Nil \notin PinOperation
  BY PartsHold, NoRecordAssumption DEF OpsTyped

LEMMA GotoBecomes ==
  ASSUME PinInv, NEW p \in Party, op[p] # Nil, NEW into \in Step, Goto(p, into)
  PROVE  Becomes(p, into)
<1>1. [op[p] EXCEPT !.step = into] \in PinOperation
  BY OpRecords DEF PinOperation
<1> QED
  BY <1>1, OpRecords DEF Goto, Becomes, Reaches, Others, Alike, PinOperation

LEMMA FinishEnds ==
  ASSUME PinInv, NEW p \in Party, Finish(p)
  PROVE  Ends(p)
  BY OpRecords DEF Finish, Ends, Others, Alike

LEMMA ResetBecomes ==
  ASSUME PinInv, NEW p \in Party, op[p] # Nil, NEW into \in Step, GotoReset(p, into)
  PROVE  Becomes(p, into)
<1>1. ASSUME NEW q \in Party, op[q] # Nil
      PROVE  Forgiven[q] = [op[q] EXCEPT !.counts = FALSE] /\ Forgiven[q] \in PinOperation
  BY <1>1, OpRecords DEF Forgiven, PinOperation
<1>2. \A q \in Party : op[q] = Nil => Forgiven[q] = Nil
  BY DEF Forgiven
<1>3. op'[p] = [Forgiven[p] EXCEPT !.step = into] /\ \A q \in Party : q # p => op'[q] = Forgiven[q]
  BY DEF GotoReset, Forgiven
<1>4. Others(p)
  <2>1. SUFFICES ASSUME NEW q \in Party, q # p PROVE Alike(q)
    BY DEF Others
  <2>2. op'[q] = Forgiven[q]
    BY <1>3, <2>1
  <2>3. CASE op[q] = Nil
    BY <1>2, <2>2, <2>3 DEF Alike
  <2>4. CASE op[q] # Nil
    <3>1. PICK r \in PinOperation : r = op[q]
      BY <2>4, OpRecords
    <3>2. PICK s \in PinOperation : s = [r EXCEPT !.counts = FALSE]
      BY <3>1 DEF PinOperation
    <3>3. /\ s.kind = r.kind /\ s.step = r.step /\ s.secret = r.secret /\ s.pepper = r.pepper
          /\ s.envelope = r.envelope /\ s.was = r.was /\ s.flag = r.flag
      BY <3>2 DEF PinOperation
    <3>4. op'[q] = s
      BY <1>1, <2>2, <2>4, <3>1, <3>2
    <3>5. s # Nil
      BY <3>2, OpRecords
    <3> QED
      BY <2>4, <3>1, <3>3, <3>4, <3>5 DEF Alike
  <2> QED
    BY <2>3, <2>4
<1>5. op'[p] = [op[p] EXCEPT !.counts = FALSE, !.step = into] /\ op[p] \in PinOperation
  BY <1>1, <1>3, OpRecords DEF PinOperation
<1>6. op'[p] \in PinOperation
  BY <1>5 DEF PinOperation
<1> QED
  BY <1>4, <1>5, <1>6, OpRecords DEF Becomes, Reaches, PinOperation

\* What the steps of an operation make of it.
LEMMA Moves ==
  ASSUME PinInv, NEW p \in Party
  PROVE  /\ WriteEnvelope(p) => Becomes(p, "enrolled")
         /\ SaveEnrolled(p) => Becomes(p, IF settings.require THEN "capsule" ELSE "recapture")
         /\ CheckReady(p) => Becomes(p, IF cipher # "ready" THEN "record"
                                           ELSE IF op[p].flag THEN "capsule" ELSE "wrap")
         /\ RecordOnly(p) => Ends(p)
         /\ RestoreWrap(p) => Becomes(p, IF cipher = "ready" THEN "keep" ELSE "revert")
         /\ Unwrap(p) => Becomes(p, "revert")
         /\ SaveToggle(p) => Ends(p)
         /\ Revert(p) => Becomes(p, "revertWrap")
         /\ RevertWrap(p) => Becomes(p, "revertSave")
         /\ SaveReverted(p) => Becomes(p, "recapture")
         /\ Recapture(p) => Ends(p)
         /\ SaveFailure(p) => Becomes(p, "answer")
         /\ AnswerFailure(p) => Ends(p)
         /\ SaveSuccess(p) => Becomes(p, "adopt")
         /\ Migrate(p) => Becomes(p, "lift")
         /\ Lift(p) => Ends(p)
         /\ ClearEnvelope(p) => Becomes(p, "clearPepper")
         /\ ClearPepper(p) => Becomes(p, "reset")
         /\ SaveDisabled(p) => Becomes(p, IF Is(p, "forgot") THEN "logout" ELSE "recapture")
         /\ Logout(p) => Ends(p)
         /\ MarkEnrolled(p) => Becomes(p, "save")
         /\ MarkDisabled(p) => Becomes(p, "resetSave")
<1>1. WriteEnvelope(p) => Becomes(p, "enrolled")
  BY GotoBecomes DEF WriteEnvelope, StepIs, Step
<1>2. SaveEnrolled(p) => Becomes(p, IF settings.require THEN "capsule" ELSE "recapture")
  BY GotoBecomes DEF SaveEnrolled, StepIs, Step
<1>3. CheckReady(p) => Becomes(p, IF cipher # "ready" THEN "record"
                                     ELSE IF op[p].flag THEN "capsule" ELSE "wrap")
  BY GotoBecomes DEF CheckReady, StepIs, Step
<1>4. RecordOnly(p) => Ends(p)
  BY FinishEnds DEF RecordOnly
<1>5. RestoreWrap(p) => Becomes(p, IF cipher = "ready" THEN "keep" ELSE "revert")
  BY GotoBecomes DEF RestoreWrap, StepIs, Step
<1>6. Unwrap(p) => Becomes(p, "revert")
  BY GotoBecomes DEF Unwrap, StepIs, Step
<1>7. SaveToggle(p) => Ends(p)
  BY FinishEnds DEF SaveToggle
<1>8. Revert(p) => Becomes(p, "revertWrap")
  BY GotoBecomes DEF Revert, StepIs, Step
<1>9. RevertWrap(p) => Becomes(p, "revertSave")
  BY GotoBecomes DEF RevertWrap, StepIs, Step
<1>10. SaveReverted(p) => Becomes(p, "recapture")
  BY GotoBecomes DEF SaveReverted, StepIs, Step
<1>11. Recapture(p) => Ends(p)
  BY FinishEnds DEF Recapture
<1>12. SaveFailure(p) => Becomes(p, "answer")
  BY GotoBecomes DEF SaveFailure, StepIs, Step
<1>13. AnswerFailure(p) => Ends(p)
  BY FinishEnds DEF AnswerFailure
<1>14. SaveSuccess(p) => Becomes(p, "adopt")
  BY GotoBecomes DEF SaveSuccess, StepIs, Step
<1>15. Migrate(p) => Becomes(p, "lift")
  BY GotoBecomes DEF Migrate, StepIs, Step
<1>16. Lift(p) => Ends(p)
  BY FinishEnds DEF Lift
<1>17. ClearEnvelope(p) => Becomes(p, "clearPepper")
  BY GotoBecomes DEF ClearEnvelope, StepIs, Step
<1>18. ClearPepper(p) => Becomes(p, "reset")
  BY GotoBecomes DEF ClearPepper, StepIs, Step
<1>19. SaveDisabled(p) => Becomes(p, IF Is(p, "forgot") THEN "logout" ELSE "recapture")
  BY GotoBecomes DEF SaveDisabled, StepIs, Step
<1>20. Logout(p) => Ends(p)
  BY FinishEnds DEF Logout
<1>21. MarkEnrolled(p) => Becomes(p, "save")
  BY ResetBecomes DEF MarkEnrolled, StepIs, Step
<1>22. MarkDisabled(p) => Becomes(p, "resetSave")
  BY ResetBecomes DEF MarkDisabled, StepIs, Step
<1> QED
  BY <1>1, <1>2, <1>3, <1>4, <1>5, <1>6, <1>7, <1>8, <1>9, <1>10, <1>11, <1>12, <1>13, <1>14,
     <1>15, <1>16, <1>17, <1>18, <1>19, <1>20, <1>21, <1>22

\* Steps with more than one way on.
ClearedMoves(p) ==
  IF Is(p, "toggle") THEN Becomes(p, "save")
  ELSE IF Is(p, "unlock") THEN Becomes(p, "lift") ELSE Ends(p)
NotClearedMoves(p) == IF Is(p, "toggle") THEN Becomes(p, "revert") ELSE ClearedMoves(p)

LEMMA Cleans ==
  ASSUME PinInv, NEW p \in Party, op[p] # Nil
  PROVE  /\ Cleared(p) => ClearedMoves(p)
         /\ NotCleared(p) => NotClearedMoves(p)
<1>1. Cleared(p) => ClearedMoves(p)
  <2>1. CASE Is(p, "toggle")
    BY <2>1, GotoBecomes DEF Cleared, ClearedMoves, Step, Is
  <2>2. CASE Is(p, "unlock")
    BY <2>2, GotoBecomes DEF Cleared, ClearedMoves, Step, Is
  <2>3. CASE ~Is(p, "toggle") /\ ~Is(p, "unlock")
    BY <2>3, FinishEnds DEF Cleared, ClearedMoves
  <2> QED
    BY <2>1, <2>2, <2>3
<1>2. NotCleared(p) => NotClearedMoves(p)
  BY <1>1, GotoBecomes DEF NotCleared, NotClearedMoves, Step
<1> QED
  BY <1>1, <1>2

LEMMA Branches ==
  ASSUME PinInv, NEW p \in Party
  PROVE  /\ KeepPinOnly(p) => \/ KeepCapsule /\ Becomes(p, "clear")
                              \/ UNCHANGED capsule /\ NotClearedMoves(p)
         /\ ClearWrap(p) => \/ wrap' = FALSE /\ Crossing(p) /\ ClearedMoves(p)
                            \/ UNCHANGED <<wrap, posture, crossed>> /\ NotClearedMoves(p)
         /\ KeepPasskey(p) => \/ KeepCapsule /\ Becomes(p, "save")
                              \/ UNCHANGED capsule /\ Becomes(p, "unwrap")
         /\ Rewrap(p) => \/ cipher = "ready" /\ wrap' = TRUE /\ Becomes(p, "clearEnvelope")
                         \/ UNCHANGED wrap /\ Ends(p)
         /\ Adopt(p) => Becomes(p, IF Is(p, "disable") THEN "rewrap"
                                   ELSE IF settings.require THEN "capsule" ELSE "migrate")
<1>1. KeepPinOnly(p) => \/ KeepCapsule /\ Becomes(p, "clear")
                        \/ UNCHANGED capsule /\ NotClearedMoves(p)
  BY GotoBecomes, Cleans DEF KeepPinOnly, StepIs, Step
<1>2. ClearWrap(p) => \/ wrap' = FALSE /\ Crossing(p) /\ ClearedMoves(p)
                      \/ UNCHANGED <<wrap, posture, crossed>> /\ NotClearedMoves(p)
  BY Cleans DEF ClearWrap, StepIs
<1>3. KeepPasskey(p) => \/ KeepCapsule /\ Becomes(p, "save")
                        \/ UNCHANGED capsule /\ Becomes(p, "unwrap")
  BY GotoBecomes DEF KeepPasskey, StepIs, Step
<1>4. Rewrap(p) => \/ cipher = "ready" /\ wrap' = TRUE /\ Becomes(p, "clearEnvelope")
                   \/ UNCHANGED wrap /\ Ends(p)
  BY GotoBecomes, FinishEnds DEF Rewrap, StepIs, Step
<1>5. Adopt(p) => Becomes(p, IF Is(p, "disable") THEN "rewrap"
                             ELSE IF settings.require THEN "capsule" ELSE "migrate")
  BY GotoBecomes DEF Adopt, StepIs, Step
<1> QED
  BY <1>1, <1>2, <1>3, <1>4, <1>5

\* Steps that read, or decide: the operation holds something it did not.
LEMMA Turns ==
  ASSUME PinInv, NEW p \in Party
  PROVE  /\ DrawPepper(p) => Reaches(p, "envelope") /\ op'[p].pepper = settings'.pepper
         /\ Derive(p) => Reaches(p, "decide") /\ op'[p].envelope = op[p].envelope
                         /\ op'[p].pepper = settings'.pepper
         /\ ReadEnvelope(p) => /\ Reaches(p, IF envelope = Nil THEN "decide" ELSE "derive")
                               /\ op'[p].envelope = envelope
         /\ Decide(p) => \/ /\ Opens(op[p]) /\ Becomes(p, "opened") /\ Crossing(p)
                            /\ ResetTo(TRUE)
                         \/ /\ Reaches(p, "failed") /\ op'[p].envelope = op[p].envelope
                            /\ settings' \in Settings
                            /\ settings'.enrolled = settings.enrolled
                            /\ settings'.pepper = settings.pepper
                            /\ settings'.require = settings.require
<1>1. DrawPepper(p) => Reaches(p, "envelope") /\ op'[p].pepper = settings'.pepper
  <2>1. SUFFICES ASSUME DrawPepper(p)
                 PROVE  Reaches(p, "envelope") /\ op'[p].pepper = settings'.pepper
    OBVIOUS
  <2>2. op[p] \in PinOperation /\ phase = "running"
    BY <2>1, Runs DEF DrawPepper, StepIs
  <2>3. PICK k \in Pepper : k = settings'.pepper
    BY <2>1, <2>2, ReadsPepper DEF DrawPepper
  <2>4. op' = [op EXCEPT ![p].step = "envelope", ![p].pepper = k]
    BY <2>1, <2>3 DEF DrawPepper
  <2>5. op'[p] = [op[p] EXCEPT !.step = "envelope", !.pepper = k]
    BY <2>4, OpRecords
  <2>6. op'[p] \in PinOperation
    BY <2>2, <2>3, <2>5 DEF PinOperation, Step
  <2> QED
    BY <2>2, <2>3, <2>4, <2>5, <2>6, OpRecords DEF Reaches, Others, Alike, PinOperation
<1>2. Derive(p) => Reaches(p, "decide") /\ op'[p].envelope = op[p].envelope
                   /\ op'[p].pepper = settings'.pepper
  <2>1. SUFFICES ASSUME Derive(p)
                 PROVE  Reaches(p, "decide") /\ op'[p].envelope = op[p].envelope
                        /\ op'[p].pepper = settings'.pepper
    OBVIOUS
  <2>2. op[p] \in PinOperation /\ phase = "running"
    BY <2>1, Runs DEF Derive, StepIs
  <2>3. PICK k \in Pepper : k = settings'.pepper
    BY <2>1, <2>2, ReadsPepper DEF Derive
  <2>4. op' = [op EXCEPT ![p].step = "decide", ![p].pepper = k]
    BY <2>1, <2>3 DEF Derive
  <2>5. op'[p] = [op[p] EXCEPT !.step = "decide", !.pepper = k]
    BY <2>4, OpRecords
  <2>6. op'[p] \in PinOperation
    BY <2>2, <2>3, <2>5 DEF PinOperation, Step
  <2> QED
    BY <2>2, <2>3, <2>4, <2>5, <2>6, OpRecords DEF Reaches, Others, Alike, PinOperation
<1>3. ReadEnvelope(p) => /\ Reaches(p, IF envelope = Nil THEN "decide" ELSE "derive")
                         /\ op'[p].envelope = envelope
  <2>1. SUFFICES ASSUME ReadEnvelope(p)
                 PROVE  /\ Reaches(p, IF envelope = Nil THEN "decide" ELSE "derive")
                        /\ op'[p].envelope = envelope
    OBVIOUS
  <2>2. op[p] \in PinOperation /\ envelope \in Envelope
    BY <2>1, Runs, PartsHold DEF ReadEnvelope, StepIs, KeptTyped
  <2>3. PICK into : into = IF envelope = Nil THEN "decide" ELSE "derive"
    OBVIOUS
  <2>4. op' = [op EXCEPT ![p].step = into, ![p].envelope = envelope]
    BY <2>1, <2>3 DEF ReadEnvelope
  <2>5. op'[p] = [op[p] EXCEPT !.step = into, !.envelope = envelope]
    BY <2>4, OpRecords
  <2>6. op'[p] \in PinOperation
    BY <2>2, <2>3, <2>5 DEF PinOperation, Step
  <2> QED
    BY <2>2, <2>3, <2>4, <2>5, <2>6, OpRecords DEF Reaches, Others, Alike, PinOperation
<1>4. Decide(p) => \/ /\ Opens(op[p]) /\ Becomes(p, "opened") /\ Crossing(p)
                      /\ ResetTo(TRUE)
                   \/ /\ Reaches(p, "failed") /\ op'[p].envelope = op[p].envelope
                      /\ settings' \in Settings
                      /\ settings'.enrolled = settings.enrolled
                      /\ settings'.pepper = settings.pepper
                      /\ settings'.require = settings.require
  <2>1. SUFFICES ASSUME Decide(p), ~Opens(op[p])
                 PROVE  /\ Reaches(p, "failed") /\ op'[p].envelope = op[p].envelope
                        /\ settings' \in Settings
                        /\ settings'.enrolled = settings.enrolled
                        /\ settings'.pepper = settings.pepper
                        /\ settings'.require = settings.require
    BY ResetBecomes DEF Decide, StepIs, Step
  <2>2. op[p] \in PinOperation /\ settings \in Settings /\ MaxAttempts \in Nat
    BY <2>1, Runs, PartsHold, PinBounds DEF Decide, StepIs, LiveTyped
  <2>3. PICK n \in Nat : n = Counted(op[p])
    BY <2>2 DEF Counted, Settings
  <2>4. /\ settings' = [settings EXCEPT !.failures = n, !.held = n >= MaxAttempts - 1]
        /\ op' = [op EXCEPT ![p].step = "failed", ![p].counts = TRUE,
                            ![p].flag = n >= MaxAttempts]
    BY <2>1, <2>3 DEF Decide
  <2>5. PICK b, h : b = (n >= MaxAttempts) /\ h = (n >= MaxAttempts - 1)
    OBVIOUS
  <2>a. b \in BOOLEAN /\ h \in BOOLEAN
    BY <2>2, <2>5
  <2>6. /\ settings' = [settings EXCEPT !.failures = n, !.held = h]
        /\ op'[p] = [op[p] EXCEPT !.step = "failed", !.counts = TRUE, !.flag = b]
    BY <2>4, <2>5, OpRecords
  <2>7. op'[p] \in PinOperation /\ settings' \in Settings
    BY <2>2, <2>a, <2>6 DEF PinOperation, Settings, Step
  <2>8. Others(p)
    BY <2>4, OpRecords DEF Others, Alike
  <2>9. Reaches(p, "failed") /\ op'[p].envelope = op[p].envelope
    BY <2>2, <2>6, <2>7, <2>8, OpRecords DEF Reaches, PinOperation
  <2> QED
    BY <2>2, <2>6, <2>7, <2>9 DEF Settings
<1> QED
  BY <1>1, <1>2, <1>3, <1>4

\* A new operation.
Begun(p, kind, step) ==
  /\ op[p] = Nil /\ op'[p] # Nil /\ op'[p].kind = kind /\ op'[p].step = step
  /\ op'[p].envelope = Nil
  /\ Others(p)

LEMMA RecordBegins ==
  ASSUME PinInv, NEW p \in Party, op[p] = Nil, NEW o \in PinOperation, o.envelope = Nil,
         op' = [op EXCEPT ![p] = o]
  PROVE  Begun(p, o.kind, o.step) /\ op'[p] = o
  BY OpRecords DEF Begun, Others, Alike

LEMMA NewOpBegins ==
  ASSUME PinInv, NEW p \in Party, op[p] = Nil, NEW kind \in Kind, NEW step \in Step,
         NEW secret \in Secrets \union {Nil}, op' = [op EXCEPT ![p] = NewOp(kind, step, secret)]
  PROVE  Begun(p, kind, step)
<1>1. PICK o \in PinOperation : o = NewOp(kind, step, secret)
  BY NewOpTyped
<1>2. o.kind = kind /\ o.step = step /\ o.envelope = Nil
  BY <1>1 DEF NewOp
<1> QED
  BY <1>1, <1>2, RecordBegins

LEMMA ToggleBegins ==
  ASSUME PinInv, NEW p \in Tabs, NEW on \in BOOLEAN, StartToggle(p, on)
  PROVE  Begun(p, "toggle", "check") /\ op'[p].flag = on /\ op'[p].was = settings.require
<1>1. PICK r \in PinOperation : r = NewOp("toggle", "check", Nil)
  BY NewOpTyped DEF Kind, Step
<1>2. /\ r.kind = "toggle" /\ r.step = "check" /\ r.envelope = Nil
      /\ r.was = settings.require
  BY <1>1 DEF NewOp
<1>3. PICK o \in PinOperation : o = [r EXCEPT !.flag = on]
  BY <1>1 DEF PinOperation
<1>4. /\ o.kind = "toggle" /\ o.step = "check" /\ o.envelope = Nil
      /\ o.was = settings.require /\ o.flag = on
  BY <1>2, <1>3 DEF PinOperation
<1>5. op' = [op EXCEPT ![p] = o] /\ op[p] = Nil
  BY <1>1, <1>3 DEF StartToggle, OpensTab
<1>6. Begun(p, o.kind, o.step) /\ op'[p] = o
  BY <1>4, <1>5, RecordBegins, Parties
<1> QED
  BY <1>4, <1>6

LEMMA Begins ==
  ASSUME PinInv
  PROVE  /\ \A p \in Tabs, secret \in Secrets :
              StartEnroll(p, secret) => Begun(p, "enroll", "pepper")
         /\ \A p \in Tabs, secret \in Secrets \union {Nil} :
              StartDisable(p, secret) => Begun(p, "disable", "read")
         /\ \A secret \in Secrets \union {Nil} : StartUnlock(secret) =>
              UNCHANGED op \/ (Begun("curtain", "unlock", "read") /\ UNCHANGED curtain)
         /\ StartForgot => Begun("forgot", "forgot", "clearEnvelope")
<1> USE Parties
<1>1. ASSUME NEW p \in Tabs, NEW secret \in Secrets, StartEnroll(p, secret)
      PROVE  Begun(p, "enroll", "pepper")
  BY <1>1, NewOpBegins DEF StartEnroll, OpensTab, Kind, Step
<1>2. ASSUME NEW p \in Tabs, NEW secret \in Secrets \union {Nil}, StartDisable(p, secret)
      PROVE  Begun(p, "disable", "read")
  BY <1>2, NewOpBegins DEF StartDisable, OpensTab, Kind, Step
<1>3. ASSUME NEW secret \in Secrets \union {Nil}, StartUnlock(secret)
      PROVE  UNCHANGED op \/ (Begun("curtain", "unlock", "read") /\ UNCHANGED curtain)
  <2>1. "unlock" \in Kind /\ "read" \in Step /\ "curtain" \in Party
    BY DEF Kind, Step
  <2> QED
    BY <1>3, <2>1, NewOpBegins DEF StartUnlock
<1>4. ASSUME StartForgot
      PROVE  Begun("forgot", "forgot", "clearEnvelope")
  <2>1. "forgot" \in Kind /\ "clearEnvelope" \in Step /\ "forgot" \in Party
    BY DEF Kind, Step
  <2> QED
    BY <1>4, <2>1, NewOpBegins DEF StartForgot
<1> QED
  BY <1>1, <1>2, <1>3, <1>4

LEMMA CrossedStays ==
  ASSUME PinInv, NEW p \in Party, Crossing(p)
  PROVE  (crossed => crossed') /\ (~crossed' => ~(Is(p, "unlock") /\ WrapperIsBack))
<1>1. PICK b : b = (Is(p, "unlock") /\ WrapperIsBack)
  OBVIOUS
<1>2. b \in BOOLEAN /\ crossed \in BOOLEAN
  BY <1>1, PartsHold DEF Is, PastTyped
<1>3. crossed' = (crossed \/ b)
  BY <1>1 DEF Crossing
<1>4. (crossed => crossed') /\ (~crossed' => ~b)
  BY <1>2, <1>3
<1> QED
  BY <1>1, <1>4

\* What every step of an operation has in common.
LEMMA StepShape ==
  ASSUME PinInv, NEW p \in Party,
         \/ Enrolling(p) \/ Toggling(p) \/ Unlocking(p) \/ Disabling(p)
         \/ KeepPinOnly(p) \/ ClearWrap(p) \/ Recapture(p)
  PROVE  /\ op[p] # Nil /\ Others(p) /\ UNCHANGED <<phase, forgotten>>
         /\ op'[p] # Nil => op'[p].kind = op[p].kind
         /\ posture = "mixed" => posture' = "mixed"
         /\ crossed => crossed'
         /\ posture' = posture \/ op[p].step \in {"save", "clear"}
         /\ settings'.require = settings.require \/ op[p].step \in {"check", "revert"}
         /\ \/ curtain' = curtain
            \/ op'[p] = Nil /\ (p = "curtain" \/ op[p].step \in {"lift", "logout"})
<1>0. settings \in Settings /\ curtain \in BOOLEAN
  BY PartsHold DEF LiveTyped
<1> USE DEF StepIs, memory, past, pinHistory
<1>1. CASE DrawPepper(p)
  <2>1. Reaches(p, "envelope") /\ op'[p].pepper = settings'.pepper
    BY <1>1, Turns
  <2> QED
    BY <1>0, <1>1, <2>1 DEF DrawPepper, ReadPepper, Settings, Becomes, Reaches, Ends
<1>2. CASE WriteEnvelope(p)
  <2>1. Becomes(p, "enrolled")
    BY <1>2, Moves
  <2> QED
    BY <1>0, <1>2, <2>1 DEF WriteEnvelope, Becomes, Reaches, Ends
<1>3. CASE MarkEnrolled(p)
  <2>1. Becomes(p, "save")
    BY <1>3, Moves
  <2> QED
    BY <1>0, <1>3, <2>1 DEF MarkEnrolled, ResetTo, Settings, Becomes, Reaches, Ends
<1>4. CASE SaveEnrolled(p)
  <2>1. Becomes(p, IF settings.require THEN "capsule" ELSE "recapture")
    BY <1>4, Moves
  <2> QED
    BY <1>0, <1>4, <2>1 DEF SaveEnrolled, Becomes, Reaches, Ends
<1>5. CASE CheckReady(p)
  <2>1. Becomes(p, IF cipher # "ready" THEN "record"
                   ELSE IF op[p].flag THEN "capsule" ELSE "wrap")
    BY <1>5, Moves
  <2> QED
    BY <1>0, <1>5, <2>1 DEF CheckReady, Becomes, Reaches, Ends
<1>6. CASE RecordOnly(p)
  <2>1. Ends(p)
    BY <1>6, Moves
  <2> QED
    BY <1>0, <1>6, <2>1 DEF RecordOnly, Becomes, Reaches, Ends
<1>7. CASE RestoreWrap(p)
  <2>1. Becomes(p, IF cipher = "ready" THEN "keep" ELSE "revert")
    BY <1>7, Moves
  <2> QED
    BY <1>0, <1>7, <2>1 DEF RestoreWrap, Becomes, Reaches, Ends
<1>8. CASE KeepPasskey(p)
  <2>1. (KeepCapsule /\ Becomes(p, "save")) \/ (UNCHANGED capsule /\ Becomes(p, "unwrap"))
    BY <1>8, Branches
  <2> QED
    BY <1>0, <1>8, <2>1 DEF KeepPasskey, Becomes, Reaches, Ends
<1>9. CASE Unwrap(p)
  <2>1. Becomes(p, "revert")
    BY <1>9, Moves
  <2> QED
    BY <1>0, <1>9, <2>1 DEF Unwrap, Becomes, Reaches, Ends
<1>10. CASE SaveToggle(p)
  <2>1. Ends(p)
    BY <1>10, Moves
  <2> QED
    BY <1>0, <1>10, <2>1 DEF SaveToggle, TabAnswers, Becomes, Reaches, Ends
<1>11. CASE Revert(p)
  <2>1. Becomes(p, "revertWrap")
    BY <1>11, Moves
  <2> QED
    BY <1>0, <1>11, <2>1 DEF Revert, Becomes, Reaches, Ends
<1>12. CASE RevertWrap(p)
  <2>1. Becomes(p, "revertSave")
    BY <1>12, Moves
  <2> QED
    BY <1>0, <1>12, <2>1 DEF RevertWrap, Becomes, Reaches, Ends
<1>13. CASE SaveReverted(p)
  <2>1. Becomes(p, "recapture")
    BY <1>13, Moves
  <2> QED
    BY <1>0, <1>13, <2>1 DEF SaveReverted, Becomes, Reaches, Ends
<1>14. CASE ReadEnvelope(p)
  <2>1. Reaches(p, IF envelope = Nil THEN "decide" ELSE "derive") /\ op'[p].envelope = envelope
    BY <1>14, Turns
  <2> QED
    BY <1>0, <1>14, <2>1 DEF ReadEnvelope, Becomes, Reaches, Ends
<1>15. CASE Derive(p)
  <2>1. /\ Reaches(p, "decide") /\ op'[p].envelope = op[p].envelope
        /\ op'[p].pepper = settings'.pepper
    BY <1>15, Turns
  <2> QED
    BY <1>0, <1>15, <2>1 DEF Derive, ReadPepper, Settings, Becomes, Reaches, Ends
<1>16. CASE Decide(p)
  <2>1. /\ Reaches(p, "opened") \/ Reaches(p, "failed")
        /\ settings'.require = settings.require
    BY <1>0, <1>16, Turns DEF Becomes, ResetTo, Settings
  <2>2. crossed => crossed'
    BY <1>16, CrossedStays DEF Decide
  <2> QED
    BY <1>16, <2>1, <2>2 DEF Decide, Reaches
<1>17. CASE SaveFailure(p)
  <2>1. Becomes(p, "answer")
    BY <1>17, Moves
  <2> QED
    BY <1>0, <1>17, <2>1 DEF SaveFailure, Becomes, Reaches, Ends
<1>18. CASE AnswerFailure(p)
  <2>1. Ends(p)
    BY <1>18, Moves
  <2> QED
    BY <1>0, <1>18, <2>1 DEF AnswerFailure, Becomes, Reaches, Ends
<1>19. CASE SaveSuccess(p)
  <2>1. Becomes(p, "adopt")
    BY <1>19, Moves
  <2> QED
    BY <1>0, <1>19, <2>1 DEF SaveSuccess, Becomes, Reaches, Ends
<1>20. CASE Adopt(p)
  <2>1. Becomes(p, IF Is(p, "disable") THEN "rewrap"
                   ELSE IF settings.require THEN "capsule" ELSE "migrate")
    BY <1>20, Branches
  <2> QED
    BY <1>0, <1>20, <2>1 DEF Adopt, Becomes, Reaches, Ends
<1>21. CASE Migrate(p)
  <2>1. Becomes(p, "lift")
    BY <1>21, Moves
  <2> QED
    BY <1>0, <1>21, <2>1 DEF Migrate, Becomes, Reaches, Ends
<1>22. CASE Lift(p)
  <2>1. Ends(p)
    BY <1>22, Moves
  <2> QED
    BY <1>0, <1>22, <2>1 DEF Lift, Becomes, Reaches, Ends
<1>23. CASE Rewrap(p)
  <2>1. \/ cipher = "ready" /\ wrap' = TRUE /\ Becomes(p, "clearEnvelope")
        \/ UNCHANGED wrap /\ Ends(p)
    BY <1>23, Branches
  <2> QED
    BY <1>0, <1>23, <2>1 DEF Rewrap, Becomes, Reaches, Ends
<1>24. CASE ClearEnvelope(p)
  <2>1. Becomes(p, "clearPepper")
    BY <1>24, Moves
  <2> QED
    BY <1>0, <1>24, <2>1 DEF ClearEnvelope, Becomes, Reaches, Ends
<1>25. CASE ClearPepper(p)
  <2>1. Becomes(p, "reset")
    BY <1>25, Moves
  <2> QED
    BY <1>0, <1>25, <2>1 DEF ClearPepper, Settings, Becomes, Reaches, Ends
<1>26. CASE MarkDisabled(p)
  <2>1. Becomes(p, "resetSave")
    BY <1>26, Moves
  <2> QED
    BY <1>0, <1>26, <2>1 DEF MarkDisabled, ResetTo, Settings, Becomes, Reaches, Ends
<1>27. CASE SaveDisabled(p)
  <2>1. Becomes(p, IF Is(p, "forgot") THEN "logout" ELSE "recapture")
    BY <1>27, Moves
  <2> QED
    BY <1>0, <1>27, <2>1 DEF SaveDisabled, Becomes, Reaches, Ends
<1>28. CASE Logout(p)
  <2>1. Ends(p)
    BY <1>28, Moves
  <2> QED
    BY <1>0, <1>28, <2>1 DEF Logout, Becomes, Reaches, Ends
<1>29. CASE KeepPinOnly(p)
  <2>1. (KeepCapsule /\ Becomes(p, "clear")) \/ (UNCHANGED capsule /\ NotClearedMoves(p))
    BY <1>29, Branches
  <2> QED
    BY <1>0, <1>29, <2>1 DEF KeepPinOnly, Becomes, Reaches, Ends, NotClearedMoves, ClearedMoves
<1>30. CASE ClearWrap(p)
  <2>1. \/ wrap' = FALSE /\ Crossing(p) /\ ClearedMoves(p)
        \/ UNCHANGED <<wrap, posture, crossed>> /\ NotClearedMoves(p)
    BY <1>30, Branches
  <2>2. crossed => crossed'
    BY <1>30, CrossedStays DEF ClearWrap
  <2> QED
    BY <1>30, <2>1, <2>2 DEF ClearWrap, TabAnswers, Becomes, Reaches, Ends, NotClearedMoves,
       ClearedMoves
<1>31. CASE Recapture(p)
  <2>1. Ends(p)
    BY <1>31, Moves
  <2> QED
    BY <1>0, <1>31, <2>1 DEF Recapture, Becomes, Reaches, Ends
<1> QED
  BY <1>1, <1>2, <1>3, <1>4, <1>5, <1>6, <1>7, <1>8, <1>9, <1>10, <1>11, <1>12, <1>13, <1>14,
     <1>15, <1>16, <1>17, <1>18, <1>19, <1>20, <1>21, <1>22, <1>23, <1>24, <1>25, <1>26, <1>27,
     <1>28, <1>29, <1>30, <1>31
  DEF Enrolling, Toggling, Unlocking, Disabling

\* A step of one party leaves the others in place.
LEMMA OthersInPlace ==
  ASSUME OpsInPlace, NEW p \in Party, Others(p), op'[p] # Nil => InPlace(p)'
  PROVE  OpsInPlace'
  BY DEF OpsInPlace, InPlace, Others, Alike

\* Every step of an operation leads to one of its own kind.
LEMMA StepsInPlace ==
  ASSUME PinInv, OpsInPlace, NEW p \in Party,
         \/ Enrolling(p) \/ Toggling(p) \/ Unlocking(p) \/ Disabling(p)
         \/ KeepPinOnly(p) \/ ClearWrap(p) \/ Recapture(p)
  PROVE  OpsInPlace'
<1>0. InPlace(p) /\ Others(p) /\ (op'[p] # Nil => op'[p].kind = op[p].kind)
  BY StepShape DEF OpsInPlace
<1> SUFFICES op'[p] # Nil => InPlace(p)'
  BY <1>0, OthersInPlace
<1> USE DEF StepIs, Is, InPlace, Becomes, Reaches, Ends,
        EnrollSteps, ToggleSteps, UnlockSteps, DisableSteps, ForgotSteps
<1>1. CASE DrawPepper(p)
  <2>1. Reaches(p, "envelope") /\ op'[p].pepper = settings'.pepper
    BY <1>1, Turns
  <2> QED
    BY <1>0, <1>1, <2>1 DEF DrawPepper
<1>2. CASE WriteEnvelope(p)
  <2>1. Becomes(p, "enrolled")
    BY <1>2, Moves
  <2> QED
    BY <1>0, <1>2, <2>1 DEF WriteEnvelope
<1>3. CASE MarkEnrolled(p)
  <2>1. Becomes(p, "save")
    BY <1>3, Moves
  <2> QED
    BY <1>0, <1>3, <2>1 DEF MarkEnrolled
<1>4. CASE SaveEnrolled(p)
  <2>1. Becomes(p, IF settings.require THEN "capsule" ELSE "recapture")
    BY <1>4, Moves
  <2> QED
    BY <1>0, <1>4, <2>1 DEF SaveEnrolled
<1>5. CASE CheckReady(p)
  <2>1. Becomes(p, IF cipher # "ready" THEN "record"
                   ELSE IF op[p].flag THEN "capsule" ELSE "wrap")
    BY <1>5, Moves
  <2> QED
    BY <1>0, <1>5, <2>1 DEF CheckReady
<1>6. CASE RecordOnly(p)
  <2>1. Ends(p)
    BY <1>6, Moves
  <2> QED
    BY <1>0, <1>6, <2>1 DEF RecordOnly
<1>7. CASE RestoreWrap(p)
  <2>1. Becomes(p, IF cipher = "ready" THEN "keep" ELSE "revert")
    BY <1>7, Moves
  <2> QED
    BY <1>0, <1>7, <2>1 DEF RestoreWrap
<1>8. CASE KeepPasskey(p)
  <2>1. (KeepCapsule /\ Becomes(p, "save")) \/ (UNCHANGED capsule /\ Becomes(p, "unwrap"))
    BY <1>8, Branches
  <2> QED
    BY <1>0, <1>8, <2>1 DEF KeepPasskey
<1>9. CASE Unwrap(p)
  <2>1. Becomes(p, "revert")
    BY <1>9, Moves
  <2> QED
    BY <1>0, <1>9, <2>1 DEF Unwrap
<1>10. CASE SaveToggle(p)
  <2>1. Ends(p)
    BY <1>10, Moves
  <2> QED
    BY <1>0, <1>10, <2>1 DEF SaveToggle
<1>11. CASE Revert(p)
  <2>1. Becomes(p, "revertWrap")
    BY <1>11, Moves
  <2> QED
    BY <1>0, <1>11, <2>1 DEF Revert
<1>12. CASE RevertWrap(p)
  <2>1. Becomes(p, "revertSave")
    BY <1>12, Moves
  <2> QED
    BY <1>0, <1>12, <2>1 DEF RevertWrap
<1>13. CASE SaveReverted(p)
  <2>1. Becomes(p, "recapture")
    BY <1>13, Moves
  <2> QED
    BY <1>0, <1>13, <2>1 DEF SaveReverted
<1>14. CASE ReadEnvelope(p)
  <2>1. Reaches(p, IF envelope = Nil THEN "decide" ELSE "derive") /\ op'[p].envelope = envelope
    BY <1>14, Turns
  <2> QED
    BY <1>0, <1>14, <2>1 DEF ReadEnvelope
<1>15. CASE Derive(p)
  <2>1. /\ Reaches(p, "decide") /\ op'[p].envelope = op[p].envelope
        /\ op'[p].pepper = settings'.pepper
    BY <1>15, Turns
  <2> QED
    BY <1>0, <1>15, <2>1 DEF Derive
<1>16. CASE Decide(p)
  <2>1. Reaches(p, "opened") \/ Reaches(p, "failed")
    BY <1>16, Turns
  <2> QED
    BY <1>0, <1>16, <2>1 DEF Decide
<1>17. CASE SaveFailure(p)
  <2>1. Becomes(p, "answer")
    BY <1>17, Moves
  <2> QED
    BY <1>0, <1>17, <2>1 DEF SaveFailure
<1>18. CASE AnswerFailure(p)
  <2>1. Ends(p)
    BY <1>18, Moves
  <2> QED
    BY <1>0, <1>18, <2>1 DEF AnswerFailure
<1>19. CASE SaveSuccess(p)
  <2>1. Becomes(p, "adopt")
    BY <1>19, Moves
  <2> QED
    BY <1>0, <1>19, <2>1 DEF SaveSuccess
<1>20. CASE Adopt(p)
  <2>1. Becomes(p, IF Is(p, "disable") THEN "rewrap"
                   ELSE IF settings.require THEN "capsule" ELSE "migrate")
    BY <1>20, Branches
  <2> QED
    BY <1>0, <1>20, <2>1 DEF Adopt
<1>21. CASE Migrate(p)
  <2>1. Becomes(p, "lift")
    BY <1>21, Moves
  <2> QED
    BY <1>0, <1>21, <2>1 DEF Migrate
<1>22. CASE Lift(p)
  <2>1. Ends(p)
    BY <1>22, Moves
  <2> QED
    BY <1>0, <1>22, <2>1 DEF Lift
<1>23. CASE Rewrap(p)
  <2>1. \/ cipher = "ready" /\ wrap' = TRUE /\ Becomes(p, "clearEnvelope")
        \/ UNCHANGED wrap /\ Ends(p)
    BY <1>23, Branches
  <2> QED
    BY <1>0, <1>23, <2>1 DEF Rewrap
<1>24. CASE ClearEnvelope(p)
  <2>1. Becomes(p, "clearPepper")
    BY <1>24, Moves
  <2> QED
    BY <1>0, <1>24, <2>1 DEF ClearEnvelope
<1>25. CASE ClearPepper(p)
  <2>1. Becomes(p, "reset")
    BY <1>25, Moves
  <2> QED
    BY <1>0, <1>25, <2>1 DEF ClearPepper
<1>26. CASE MarkDisabled(p)
  <2>1. Becomes(p, "resetSave")
    BY <1>26, Moves
  <2> QED
    BY <1>0, <1>26, <2>1 DEF MarkDisabled
<1>27. CASE SaveDisabled(p)
  <2>1. Becomes(p, IF Is(p, "forgot") THEN "logout" ELSE "recapture")
    BY <1>27, Moves
  <2> QED
    BY <1>0, <1>27, <2>1 DEF SaveDisabled
<1>28. CASE Logout(p)
  <2>1. Ends(p)
    BY <1>28, Moves
  <2> QED
    BY <1>0, <1>28, <2>1 DEF Logout
<1>29. CASE KeepPinOnly(p)
  <2>1. (KeepCapsule /\ Becomes(p, "clear")) \/ (UNCHANGED capsule /\ NotClearedMoves(p))
    BY <1>29, Branches
  <2> QED
    BY <1>0, <1>29, <2>1 DEF KeepPinOnly, NotClearedMoves, ClearedMoves
<1>30. CASE ClearWrap(p)
  <2>1. \/ wrap' = FALSE /\ Crossing(p) /\ ClearedMoves(p)
        \/ UNCHANGED <<wrap, posture, crossed>> /\ NotClearedMoves(p)
    BY <1>30, Branches
  <2> QED
    BY <1>0, <1>30, <2>1 DEF ClearWrap, NotClearedMoves, ClearedMoves
<1>31. CASE Recapture(p)
  <2>1. Ends(p)
    BY <1>31, Moves
  <2> QED
    BY <1>0, <1>31, <2>1 DEF Recapture
<1> QED
  BY <1>1, <1>2, <1>3, <1>4, <1>5, <1>6, <1>7, <1>8, <1>9, <1>10, <1>11, <1>12, <1>13, <1>14,
     <1>15, <1>16, <1>17, <1>18, <1>19, <1>20, <1>21, <1>22, <1>23, <1>24, <1>25, <1>26, <1>27,
     <1>28, <1>29, <1>30, <1>31
  DEF Enrolling, Toggling, Unlocking, Disabling

\* What is left of the steps: an operation begins, none is touched, or all end.
LEMMA NextOps ==
  ASSUME PinInv, [PinNext]_pinVars
  PROVE  \/ \E p \in Tabs : Tab(p)
         \/ \E secret \in Secrets \union {Nil} : StartUnlock(secret)
         \/ StartForgot
         \/ \E p \in Party : \/ Enrolling(p) \/ Toggling(p) \/ Unlocking(p) \/ Disabling(p)
                             \/ KeepPinOnly(p) \/ ClearWrap(p) \/ Recapture(p)
         \/ UNCHANGED op
         \/ phase' # "running" /\ op' = [p \in Party |-> Nil]
<1>1. CASE Lock \/ BackoffEnds \/ BackgroundSave \/ BackgroundCapsule
  BY <1>1 DEF Lock, BackoffEnds, BackgroundSave, BackgroundCapsule
<1>2. CASE Crash
  BY <1>2 DEF Crash, Ended
<1>3. CASE Remove \/ Start \/ RestoreFiles \/ RestoreSettings
  BY <1>3 DEF Remove, Start, RestoreFiles, RestoreSettings, Land
<1>4. CASE UNCHANGED pinVars
  BY <1>4 DEF pinVars
<1> QED
  BY <1>1, <1>2, <1>3, <1>4 DEF PinNext

LEMMA BegunInPlace ==
  ASSUME PinInv, OpsInPlace, NEW p \in Party, NEW kind, NEW step, Begun(p, kind, step),
         \/ p \in Tabs /\ kind = "enroll" /\ step = "pepper"
         \/ p \in Tabs /\ kind = "disable" /\ step = "read"
         \/ p \in Tabs /\ kind = "toggle" /\ step = "check"
         \/ p = "curtain" /\ kind = "unlock" /\ step = "read"
         \/ p = "forgot" /\ kind = "forgot" /\ step = "clearEnvelope"
  PROVE  OpsInPlace'
<1>1. InPlace(p)'
  BY DEF Begun, InPlace, EnrollSteps, ToggleSteps, UnlockSteps, DisableSteps, ForgotSteps
<1> QED
  BY <1>1, OthersInPlace DEF Begun

LEMMA NextInPlace == PinInv /\ OpsInPlace /\ [PinNext]_pinVars => OpsInPlace'
<1> SUFFICES ASSUME PinInv, OpsInPlace, [PinNext]_pinVars PROVE OpsInPlace'
  OBVIOUS
<1> USE Parties
<1>1. ASSUME NEW p \in Tabs, Tab(p) PROVE OpsInPlace'
  <2>1. ASSUME NEW secret \in Secrets, StartEnroll(p, secret) PROVE OpsInPlace'
    BY <2>1, Begins, BegunInPlace
  <2>2. ASSUME NEW secret \in Secrets \union {Nil}, StartDisable(p, secret) PROVE OpsInPlace'
    BY <2>2, Begins, BegunInPlace
  <2>3. ASSUME NEW on \in BOOLEAN, StartToggle(p, on) PROVE OpsInPlace'
    BY <2>3, ToggleBegins, BegunInPlace
  <2> QED
    BY <1>1, <2>1, <2>2, <2>3 DEF Tab
<1>2. CASE UNCHANGED op
  BY <1>2 DEF OpsInPlace, InPlace
<1>3. ASSUME NEW secret \in Secrets \union {Nil}, StartUnlock(secret) PROVE OpsInPlace'
  BY <1>2, <1>3, Begins, BegunInPlace
<1>4. CASE StartForgot
  BY <1>4, Begins, BegunInPlace
<1>5. ASSUME NEW p \in Party, \/ Enrolling(p) \/ Toggling(p) \/ Unlocking(p) \/ Disabling(p)
                              \/ KeepPinOnly(p) \/ ClearWrap(p) \/ Recapture(p)
      PROVE  OpsInPlace'
  BY <1>5, StepsInPlace
<1>6. CASE op' = [p \in Party |-> Nil]
  BY <1>6 DEF OpsInPlace
<1> QED
  BY <1>1, <1>2, <1>3, <1>4, <1>5, <1>6, NextOps

(***************************************************************************)
(* PinLock: what two operations may do at once, and what a toggle stands   *)
(* for.                                                                    *)
(***************************************************************************)
\* While the settings tab answers one request at a time.
Lone == \A p, q \in Tabs : op[p] # Nil /\ op[q] # Nil => p = q
Alone == ~crossed \/ (~forgotten /\ posture # "mixed")

\* The flag is what was asked for until it is put back.
ToggleStands(p) ==
  Is(p, "toggle") =>
    /\ op[p].was <=> ~op[p].flag
    /\ op[p].step \in {"check", "capsule", "clear", "save", "wrap", "keep", "unwrap", "revert"}
         => (settings.require <=> op[p].flag)
    /\ op[p].step = "record" => ~settings.require
    /\ op[p].step \in {"revertWrap", "revertSave", "recapture"}
         => (settings.require <=> ~op[p].flag)
    /\ op[p].step \in {"capsule", "clear"} => op[p].flag
    /\ op[p].step \in {"wrap", "keep", "unwrap"} => ~op[p].flag

OrderInv ==
  /\ OpsInPlace
  /\ ~forgotten => op["forgot"] = Nil /\ (op["curtain"] # Nil => curtain)
  /\ Alone => Lone /\ \A p \in Tabs : ToggleStands(p)

LEMMA InitOrder == PinInit => OrderInv
  BY Apart DEF PinInit, OrderInv, OpsInPlace, Lone, ToggleStands, Is

\* A step of one operation; the other ones are alike.
LEMMA StepOrder ==
  ASSUME PinInv, OrderInv, OpsInPlace', NEW p \in Party, op[p] # Nil, Others(p),
         UNCHANGED forgotten, Alone' => Alone,
         ~forgotten => UNCHANGED curtain \/ (p = "curtain" /\ op'[p] = Nil),
         op[p].kind # "toggle" =>
           /\ op'[p] # Nil => op'[p].kind # "toggle"
           /\ settings'.require = settings.require,
         op[p].kind = "toggle" /\ Alone => ToggleStands(p)'
  PROVE  OrderInv'
<1>1. ~forgotten' => op'["forgot"] = Nil /\ (op'["curtain"] # Nil => curtain')
  BY Apart DEF OrderInv, Others, Alike
<1>2. ASSUME Alone' PROVE Lone'
  BY <1>2, Apart DEF OrderInv, Lone, Others, Alike
<1>3. ASSUME Alone', NEW q \in Tabs PROVE ToggleStands(q)'
  <2>1. Alone /\ Lone /\ ToggleStands(q)
    BY <1>3 DEF OrderInv
  <2>2. CASE q = p
    BY <2>1, <2>2 DEF ToggleStands, Is
  <2>3. CASE q # p /\ op[q] # Nil
    <3>1. op[p].kind # "toggle"
      BY <2>1, <2>3, Apart DEF Lone, OrderInv, OpsInPlace, InPlace
    <3>2. settings'.require = settings.require
      BY <3>1
    <3> QED
      BY <2>1, <2>3, <3>2, Apart DEF Others, Alike, ToggleStands, Is
  <2>4. CASE q # p /\ op[q] = Nil
    BY <2>4, Apart DEF Others, Alike, ToggleStands, Is
  <2> QED
    BY <2>2, <2>3, <2>4
<1> QED
  BY <1>1, <1>2, <1>3 DEF OrderInv

\* The steps of a toggle.
LEMMA TogglesOrder ==
  ASSUME PinInv, OrderInv, OpsInPlace', NEW p \in Party, Toggling(p)
  PROVE  OrderInv'
<1>0. /\ op[p] # Nil => InPlace(p)
      /\ Alone /\ p \in Tabs => ToggleStands(p)
      /\ settings \in Settings
  BY PartsHold DEF OrderInv, OpsInPlace, LiveTyped
<1> USE DEF StepIs, Is, memory, past, pinHistory
<1>1. CASE CheckReady(p)
  <2>1. Becomes(p, IF cipher # "ready" THEN "record"
                   ELSE IF op[p].flag THEN "capsule" ELSE "wrap")
    BY <1>1, Moves
  <2>2. p \in Tabs /\ op[p] # Nil /\ op[p].kind = "toggle"
    BY <1>0, <1>1 DEF CheckReady, InPlace, EnrollSteps, ToggleSteps, UnlockSteps, DisableSteps,
       ForgotSteps
  <2>3. Others(p) /\ UNCHANGED <<forgotten, curtain>> /\ (Alone' => Alone)
    BY <1>1, <2>1 DEF CheckReady, Alone, Becomes, Reaches, Ends
  <2>4. Alone => ToggleStands(p)'
    BY <1>0, <1>1, <2>1, <2>2 DEF CheckReady, Becomes, Reaches, Ends, Settings, ToggleStands
  <2> QED
    BY <2>2, <2>3, <2>4, StepOrder
<1>2. CASE RecordOnly(p)
  <2>1. Ends(p)
    BY <1>2, Moves
  <2>2. p \in Tabs /\ op[p] # Nil /\ op[p].kind = "toggle"
    BY <1>0, <1>2 DEF RecordOnly, InPlace, EnrollSteps, ToggleSteps, UnlockSteps, DisableSteps,
       ForgotSteps
  <2>3. Others(p) /\ UNCHANGED <<forgotten, curtain>> /\ (Alone' => Alone)
    BY <1>2, <2>1 DEF RecordOnly, Alone, Becomes, Reaches, Ends
  <2>4. Alone => ToggleStands(p)'
    BY <1>0, <1>2, <2>1, <2>2 DEF RecordOnly, Becomes, Reaches, Ends, Settings, ToggleStands
  <2> QED
    BY <2>2, <2>3, <2>4, StepOrder
<1>3. CASE RestoreWrap(p)
  <2>1. Becomes(p, IF cipher = "ready" THEN "keep" ELSE "revert")
    BY <1>3, Moves
  <2>2. p \in Tabs /\ op[p] # Nil /\ op[p].kind = "toggle"
    BY <1>0, <1>3 DEF RestoreWrap, InPlace, EnrollSteps, ToggleSteps, UnlockSteps, DisableSteps,
       ForgotSteps
  <2>3. Others(p) /\ UNCHANGED <<forgotten, curtain>> /\ (Alone' => Alone)
    BY <1>3, <2>1 DEF RestoreWrap, Alone, Becomes, Reaches, Ends
  <2>4. Alone => ToggleStands(p)'
    BY <1>0, <1>3, <2>1, <2>2 DEF RestoreWrap, Becomes, Reaches, Ends, Settings, ToggleStands
  <2> QED
    BY <2>2, <2>3, <2>4, StepOrder
<1>4. CASE KeepPasskey(p)
  <2>1. (KeepCapsule /\ Becomes(p, "save")) \/ (UNCHANGED capsule /\ Becomes(p, "unwrap"))
    BY <1>4, Branches
  <2>2. p \in Tabs /\ op[p] # Nil /\ op[p].kind = "toggle"
    BY <1>0, <1>4 DEF KeepPasskey, InPlace, EnrollSteps, ToggleSteps, UnlockSteps, DisableSteps,
       ForgotSteps
  <2>3. Others(p) /\ UNCHANGED <<forgotten, curtain>> /\ (Alone' => Alone)
    BY <1>4, <2>1 DEF KeepPasskey, Alone, Becomes, Reaches, Ends
  <2>4. Alone => ToggleStands(p)'
    BY <1>0, <1>4, <2>1, <2>2 DEF KeepPasskey, Becomes, Reaches, Ends, Settings, ToggleStands
  <2> QED
    BY <2>2, <2>3, <2>4, StepOrder
<1>5. CASE Unwrap(p)
  <2>1. Becomes(p, "revert")
    BY <1>5, Moves
  <2>2. p \in Tabs /\ op[p] # Nil /\ op[p].kind = "toggle"
    BY <1>0, <1>5 DEF Unwrap, InPlace, EnrollSteps, ToggleSteps, UnlockSteps, DisableSteps,
       ForgotSteps
  <2>3. Others(p) /\ UNCHANGED <<forgotten, curtain>> /\ (Alone' => Alone)
    BY <1>5, <2>1 DEF Unwrap, Alone, Becomes, Reaches, Ends
  <2>4. Alone => ToggleStands(p)'
    BY <1>0, <1>5, <2>1, <2>2 DEF Unwrap, Becomes, Reaches, Ends, Settings, ToggleStands
  <2> QED
    BY <2>2, <2>3, <2>4, StepOrder
<1>6. CASE SaveToggle(p)
  <2>1. Ends(p)
    BY <1>6, Moves
  <2>2. p \in Tabs /\ op[p] # Nil /\ op[p].kind = "toggle"
    BY <1>0, <1>6 DEF SaveToggle, InPlace, EnrollSteps, ToggleSteps, UnlockSteps, DisableSteps,
       ForgotSteps
  <2>3. Others(p) /\ UNCHANGED <<forgotten, curtain>> /\ (Alone' => Alone)
    BY <1>6, <2>1 DEF SaveToggle, Alone, TabAnswers, Crossing, Becomes, Reaches, Ends
  <2>4. Alone => ToggleStands(p)'
    BY <1>0, <1>6, <2>1, <2>2 DEF SaveToggle, Becomes, Reaches, Ends, Settings, ToggleStands
  <2> QED
    BY <2>2, <2>3, <2>4, StepOrder
<1>7. CASE Revert(p)
  <2>1. Becomes(p, "revertWrap")
    BY <1>7, Moves
  <2>2. p \in Tabs /\ op[p] # Nil /\ op[p].kind = "toggle"
    BY <1>0, <1>7 DEF Revert, InPlace, EnrollSteps, ToggleSteps, UnlockSteps, DisableSteps,
       ForgotSteps
  <2>3. Others(p) /\ UNCHANGED <<forgotten, curtain>> /\ (Alone' => Alone)
    BY <1>7, <2>1 DEF Revert, Alone, Becomes, Reaches, Ends
  <2>4. Alone => ToggleStands(p)'
    BY <1>0, <1>7, <2>1, <2>2 DEF Revert, Becomes, Reaches, Ends, Settings, ToggleStands
  <2> QED
    BY <2>2, <2>3, <2>4, StepOrder
<1>8. CASE RevertWrap(p)
  <2>1. Becomes(p, "revertSave")
    BY <1>8, Moves
  <2>2. p \in Tabs /\ op[p] # Nil /\ op[p].kind = "toggle"
    BY <1>0, <1>8 DEF RevertWrap, InPlace, EnrollSteps, ToggleSteps, UnlockSteps, DisableSteps,
       ForgotSteps
  <2>3. Others(p) /\ UNCHANGED <<forgotten, curtain>> /\ (Alone' => Alone)
    BY <1>8, <2>1 DEF RevertWrap, Alone, Becomes, Reaches, Ends
  <2>4. Alone => ToggleStands(p)'
    BY <1>0, <1>8, <2>1, <2>2 DEF RevertWrap, Becomes, Reaches, Ends, Settings, ToggleStands
  <2> QED
    BY <2>2, <2>3, <2>4, StepOrder
<1>9. CASE SaveReverted(p)
  <2>1. Becomes(p, "recapture")
    BY <1>9, Moves
  <2>2. p \in Tabs /\ op[p] # Nil /\ op[p].kind = "toggle"
    BY <1>0, <1>9 DEF SaveReverted, InPlace, EnrollSteps, ToggleSteps, UnlockSteps,
       DisableSteps, ForgotSteps
  <2>3. Others(p) /\ UNCHANGED <<forgotten, curtain>> /\ (Alone' => Alone)
    BY <1>9, <2>1 DEF SaveReverted, Alone, Becomes, Reaches, Ends
  <2>4. Alone => ToggleStands(p)'
    BY <1>0, <1>9, <2>1, <2>2 DEF SaveReverted, Becomes, Reaches, Ends, Settings, ToggleStands
  <2> QED
    BY <2>2, <2>3, <2>4, StepOrder
<1> QED
  BY <1>1, <1>2, <1>3, <1>4, <1>5, <1>6, <1>7, <1>8, <1>9 DEF Toggling

\* The other steps leave the flag alone.
LEMMA StepsOrder ==
  ASSUME PinInv, OrderInv, OpsInPlace', NEW p \in Party,
         \/ Enrolling(p) \/ Toggling(p) \/ Unlocking(p) \/ Disabling(p)
         \/ KeepPinOnly(p) \/ ClearWrap(p) \/ Recapture(p)
  PROVE  OrderInv'
<1>0. /\ op[p] # Nil /\ Others(p) /\ UNCHANGED forgotten /\ (Alone' => Alone)
      /\ op'[p] # Nil => op'[p].kind = op[p].kind
      /\ settings'.require = settings.require \/ op[p].step \in {"check", "revert"}
      /\ \/ curtain' = curtain
         \/ op'[p] = Nil /\ (p = "curtain" \/ op[p].step \in {"lift", "logout"})
  BY StepShape DEF Alone
<1>1. InPlace(p) /\ (~forgotten => op["forgot"] = Nil)
  BY <1>0 DEF OrderInv, OpsInPlace
<1>2. ~forgotten => UNCHANGED curtain \/ (p = "curtain" /\ op'[p] = Nil)
  BY <1>0, <1>1 DEF InPlace, EnrollSteps, ToggleSteps, UnlockSteps, DisableSteps, ForgotSteps
<1>3. CASE op[p].kind # "toggle"
  <2>1. settings'.require = settings.require
    BY <1>0, <1>1, <1>3 DEF InPlace, EnrollSteps, UnlockSteps, DisableSteps, ForgotSteps
  <2> QED
    BY <1>0, <1>2, <1>3, <2>1, StepOrder
<1>4. CASE op[p].kind = "toggle"
  <2>0. op[p].step \in ToggleSteps /\ Is(p, "toggle") /\ (Alone => ToggleStands(p))
    BY <1>0, <1>1, <1>4, Apart DEF InPlace, OrderInv, Is
  <2>a. (Alone => ToggleStands(p)') => OrderInv'
    BY <1>0, <1>2, <1>4, StepOrder
  <2>1. CASE Toggling(p)
    BY <2>1, TogglesOrder
  <2>2. CASE KeepPinOnly(p)
    <3>1. (KeepCapsule /\ Becomes(p, "clear")) \/ (UNCHANGED capsule /\ NotClearedMoves(p))
      BY <2>2, Branches
    <3> QED
      BY <2>0, <2>a, <2>2, <3>1 DEF KeepPinOnly, NotClearedMoves, Becomes, Reaches,
         ToggleStands,
         memory, StepIs, Is
  <2>3. CASE ClearWrap(p)
    <3>1. \/ wrap' = FALSE /\ Crossing(p) /\ ClearedMoves(p)
          \/ UNCHANGED <<wrap, posture, crossed>> /\ NotClearedMoves(p)
      BY <2>3, Branches
    <3> QED
      BY <2>0, <2>a, <2>3, <3>1 DEF ClearWrap, ClearedMoves, NotClearedMoves, Becomes, Reaches,
         ToggleStands, memory, StepIs, Is
  <2>4. CASE Recapture(p)
    <3>1. Ends(p)
      BY <2>4, Moves
    <3> QED
      BY <2>a, <3>1 DEF Ends, ToggleStands, Is
  <2> QED
    BY <2>0, <2>1, <2>2, <2>3, <2>4 DEF Enrolling, Unlocking, Disabling, ToggleSteps,
       DrawPepper,
       WriteEnvelope, MarkEnrolled, SaveEnrolled, ReadEnvelope, Derive, Decide, SaveFailure,
       AnswerFailure, SaveSuccess, Adopt, Migrate, Lift, Rewrap, ClearEnvelope, ClearPepper,
       MarkDisabled, SaveDisabled, Logout, StepIs, Is
<1> QED
  BY <1>3, <1>4

\* An operation begins; one of the settings tab alone, or it is noted.
LEMMA BegunOrder ==
  ASSUME PinInv, OrderInv, OpsInPlace', NEW p \in Party, NEW kind, NEW step, Begun(p, kind, step),
         UNCHANGED forgotten, Alone' => Alone \/ ~Overlaps, p \in Tabs /\ Alone' => ~Overlaps,
         kind # "toggle" => settings'.require = settings.require,
         kind = "toggle" => p \in Tabs /\ ToggleStands(p)',
         p # "forgot", UNCHANGED curtain, p = "curtain" => curtain
  PROVE  OrderInv'
<1>1. ~forgotten' => op'["forgot"] = Nil /\ (op'["curtain"] # Nil => curtain')
  BY Apart DEF OrderInv, Begun, Others, Alike
<1>2. ASSUME Alone' PROVE Lone' /\ \A q \in Tabs : ToggleStands(q)'
  <2>1. CASE p \in Tabs
    <3>1. \A q \in Tabs : q # p => op'[q] = Nil
      BY <1>2, <2>1, Apart DEF Overlaps, Begun, Others, Alike
    <3> QED
      BY <2>1, <3>1 DEF Lone, Begun, ToggleStands, Is
  <2>2. CASE p \notin Tabs
    <3>1. Lone /\ \A q \in Tabs : ToggleStands(q)
      BY <1>2 DEF OrderInv, Overlaps, Lone, ToggleStands, Is
    <3>2. \A q \in Tabs : Alike(q) /\ settings'.require = settings.require
      BY <2>2, Apart DEF Begun, Others
    <3> QED
      BY <3>1, <3>2 DEF Lone, Alike, ToggleStands, Is
  <2> QED
    BY <2>1, <2>2
<1> QED
  BY <1>1, <1>2 DEF OrderInv

LEMMA OpeningNotes ==
  ASSUME PinInv, NEW p \in Tabs, OpensTab(p)
  PROVE  /\ UNCHANGED forgotten /\ (Alone' => Alone \/ ~Overlaps) /\ (Alone' => ~Overlaps)
         /\ crossed => crossed'
         /\ op[p] = Nil /\ ~curtain /\ phase = "running"
<1>1. PICK b : b = Overlaps
  OBVIOUS
<1>2. b \in BOOLEAN /\ crossed \in BOOLEAN
  BY <1>1, PartsHold DEF Overlaps, PastTyped
<1>3. /\ crossed' = (crossed \/ b) /\ posture' = IF b THEN "mixed" ELSE "none"
      /\ UNCHANGED forgotten /\ op[p] = Nil /\ ~curtain /\ phase = "running"
  BY <1>1 DEF OpensTab
<1>4. (crossed => crossed') /\ (~crossed' => ~b)
  BY <1>2, <1>3
<1>5. Alone' => ~b
  BY <1>3, <1>4 DEF Alone
<1> QED
  BY <1>1, <1>3, <1>4, <1>5

LEMMA TabOrder ==
  ASSUME PinInv, OrderInv, OpsInPlace', NEW p \in Tabs, Tab(p)
  PROVE  OrderInv'
<1> USE Parties
<1>1. ASSUME NEW secret \in Secrets, StartEnroll(p, secret) PROVE OrderInv'
  <2>1. OpensTab(p) /\ Begun(p, "enroll", "pepper") /\ UNCHANGED <<settings, curtain>>
    BY <1>1, Begins DEF StartEnroll, memory
  <2> QED
    BY <2>1, OpeningNotes, BegunOrder, Apart
<1>2. ASSUME NEW secret \in Secrets \union {Nil}, StartDisable(p, secret) PROVE OrderInv'
  <2>1. OpensTab(p) /\ Begun(p, "disable", "read") /\ UNCHANGED <<settings, curtain>>
    BY <1>2, Begins DEF StartDisable, memory
  <2> QED
    BY <2>1, OpeningNotes, BegunOrder, Apart
<1>3. ASSUME NEW on \in BOOLEAN, StartToggle(p, on) PROVE OrderInv'
  <2>1. OpensTab(p) /\ UNCHANGED curtain
    BY <1>3 DEF StartToggle
  <2>2. Begun(p, "toggle", "check") /\ op'[p].flag = on /\ op'[p].was = settings.require
    BY <1>3, ToggleBegins
  <2>3. settings'.require = on /\ settings.require # on /\ settings.require \in BOOLEAN
    BY <1>3, PartsHold DEF StartToggle, LiveTyped, Settings
  <2>4. (op'[p].was <=> ~op'[p].flag) /\ (settings'.require <=> op'[p].flag)
    BY <2>2, <2>3
  <2>5. ToggleStands(p)'
    BY <2>2, <2>4 DEF Begun, ToggleStands, Is
  <2> QED
    BY <2>1, <2>2, <2>5, OpeningNotes, BegunOrder, Apart
<1> QED
  BY <1>1, <1>2, <1>3 DEF Tab

LEMMA NextOrder == PinInv /\ OrderInv /\ [PinNext]_pinVars => OrderInv'
<1> SUFFICES ASSUME PinInv, OrderInv, [PinNext]_pinVars PROVE OrderInv'
  OBVIOUS
<1> USE Parties
<1>0. OpsInPlace'
  BY NextInPlace DEF OrderInv
<1>1. ASSUME NEW p \in Tabs, Tab(p) PROVE OrderInv'
  BY <1>0, <1>1, TabOrder
<1>2. ASSUME UNCHANGED <<op, forgotten, crossed, posture>>,
             settings'.require = settings.require, curtain => curtain'
      PROVE  OrderInv'
  BY <1>0, <1>2 DEF OrderInv, Lone, Alone, ToggleStands, Is
<1>3. ASSUME \A q \in Party : op'[q] = Nil PROVE OrderInv'
  BY <1>0, <1>3, Apart DEF OrderInv, Lone, ToggleStands, Is
<1>4. ASSUME NEW secret \in Secrets \union {Nil}, StartUnlock(secret) PROVE OrderInv'
  <2>1. CASE Begun("curtain", "unlock", "read") /\ UNCHANGED curtain
    BY <1>0, <1>4, <2>1, BegunOrder, Apart DEF StartUnlock, pinHistory, past, Alone
  <2>2. CASE UNCHANGED op
    <3>1. op["curtain"] = Nil /\ UNCHANGED <<settings, forgotten, crossed, posture>>
      BY <1>4 DEF StartUnlock, pinHistory, past
    <3> QED
      BY <1>0, <2>2, <3>1 DEF OrderInv, Lone, Alone, ToggleStands, Is
  <2> QED
    BY <1>4, <2>1, <2>2, Begins
<1>5. CASE StartForgot
  <2>1. /\ Begun("forgot", "forgot", "clearEnvelope") /\ forgotten' = TRUE
        /\ UNCHANGED <<settings, crossed>>
    BY <1>5, Begins DEF StartForgot, memory
  <2>2. \A q \in Tabs : Alike(q)
    BY <2>1, Apart DEF Begun, Others
  <2> QED
    BY <1>0, <2>1, <2>2 DEF OrderInv, Lone, Alone, Alike, ToggleStands, Is
<1>6. ASSUME NEW p \in Party, \/ Enrolling(p) \/ Toggling(p) \/ Unlocking(p) \/ Disabling(p)
                              \/ KeepPinOnly(p) \/ ClearWrap(p) \/ Recapture(p)
      PROVE  OrderInv'
  BY <1>0, <1>6, StepsOrder
<1>7. CASE Lock \/ BackoffEnds \/ BackgroundSave \/ BackgroundCapsule
  <2>1. settings \in Settings
    BY PartsHold DEF LiveTyped
  <2> QED
    BY <1>2, <1>7, <2>1 DEF Lock, BackoffEnds, BackgroundSave, BackgroundCapsule, pinHistory,
       past, memory, Settings
<1>8. CASE Crash
  BY <1>3, <1>8 DEF Crash, Ended
<1>9. CASE Remove \/ Start \/ RestoreFiles \/ RestoreSettings
  <2>1. phase # "running" /\ UNCHANGED op
    BY <1>9 DEF Remove, Start, RestoreFiles, RestoreSettings, Land
  <2> QED
    BY <1>3, <2>1, PartsHold DEF OpsTyped
<1>10. CASE UNCHANGED pinVars
  BY <1>2, <1>10 DEF pinVars, pinHistory, past, memory
<1> QED
  BY <1>1, <1>4, <1>5, <1>6, <1>7, <1>8, <1>9, <1>10 DEF PinNext

(***************************************************************************)
(* PinLock: what the settings tab answered is so.                          *)
(***************************************************************************)
At(p, steps) == op[p] # Nil /\ op[p].step \in steps

\* No step of the curtain is on its way to undo it.
PinAlone ==
  /\ settings.require /\ saved.require /\ ~wrap /\ capsule # Nil /\ ~capsule.wrap
  /\ ~At("curtain", {"migrate"})
KeychainToo ==
  /\ ~settings.require /\ ~saved.require /\ wrap /\ capsule # Nil /\ capsule.wrap
  /\ ~At("curtain", {"capsule", "clear"})
\* After an answer, as long as nothing else is asked for.
Answered ==
  /\ posture \in {"pin", "keychain"} => phase = "running" /\ \A p \in Tabs : op[p] = Nil
  /\ posture = "pin" => PinAlone
  /\ posture = "keychain" => KeychainToo

\* What the setting of a PIN has done already of what it will answer.
EnrollAnswers(p) ==
  Is(p, "enroll") =>
    /\ settings.require => ~At("curtain", {"migrate"})
    /\ At(p, {"pepper", "envelope", "enrolled"}) =>
         ~settings.enrolled /\ op["curtain"] = Nil /\ ~curtain
    /\ At(p, {"capsule", "clear"}) => settings.require /\ saved.require
    /\ At(p, {"clear"}) => capsule # Nil /\ ~capsule.wrap

\* What a toggle has.
ToggleAnswers(p) ==
  Is(p, "toggle") =>
    /\ At(p, {"check", "capsule", "clear", "save", "wrap", "keep"}) =>
         /\ op[p].flag => ~At("curtain", {"migrate"})
         /\ ~op[p].flag => ~At("curtain", {"capsule", "clear"})
    /\ At(p, {"clear"}) => capsule # Nil /\ ~capsule.wrap
    /\ At(p, {"keep"}) => wrap
    /\ At(p, {"save"}) => /\ capsule # Nil
                          /\ (wrap <=> ~op[p].flag) /\ (capsule.wrap <=> ~op[p].flag)

Answers(p) == EnrollAnswers(p) /\ ToggleAnswers(p)

PostureInv ==
  ~forgotten => Answered /\ (posture = "none" => \A p \in Tabs : Answers(p))

LEMMA InitPosture == PinInit => PostureInv
  BY Apart DEF PinInit, PostureInv, Answered, Answers, EnrollAnswers, ToggleAnswers, Is

\* A capsule that is kept has the wrapper only beside a PIN that is not asked for.
LEMMA CapsuleFollows ==
  ASSUME PinInv, KeepCapsule
  PROVE  /\ capsule' # Nil /\ (capsule'.wrap <=> wrap /\ ~settings.require)
         /\ capsule'.envelope = envelope
<1>1. wrap \in BOOLEAN /\ envelope \in Envelope /\ settings \in Settings
  BY PartsHold DEF KeptTyped, LiveTyped
<1>2. PICK w \in BOOLEAN : w <=> wrap /\ ~settings.require
  BY <1>1
<1>3. capsule' = [settings |-> settings, wrap |-> w, envelope |-> envelope]
  BY <1>1, <1>2 DEF KeepCapsule, Captured
<1>4. capsule' \in Copies
  BY <1>1, <1>3 DEF Copies
<1> QED
  BY <1>2, <1>3, <1>4, NoRecordAssumption

\* A step of the curtain, or of no operation at all: the settings tab stands still.
Quiet ==
  /\ phase = "running" /\ UNCHANGED <<phase, posture>> /\ (~forgotten' => ~forgotten)
  /\ \A p \in Tabs : Alike(p)
  /\ settings'.require = settings.require
  /\ saved' = saved \/ saved' = settings'
  /\ capsule' = capsule \/ KeepCapsule
  /\ \/ wrap' = wrap
     \/ wrap' = TRUE /\ At("curtain", {"migrate"})
     \/ wrap' = FALSE /\ At("curtain", {"clear"})
  /\ At("curtain", {"migrate"})' => At("curtain", {"migrate"}) \/ ~settings.require
  /\ At("curtain", {"capsule", "clear"})' => At("curtain", {"capsule", "clear"}) \/ settings.require
  /\ \/ op["curtain"] # Nil \/ curtain \/ settings.enrolled
     \/ op'["curtain"] = Nil /\ ~curtain' /\ ~settings'.enrolled

LEMMA QuietAnswered ==
  ASSUME PinInv, Quiet, Answered
  PROVE  Answered'
<1>1. posture' = posture /\ phase' = "running" /\ settings'.require = settings.require
  BY DEF Quiet
<1>2. \/ capsule' = capsule
      \/ capsule' # Nil /\ (capsule'.wrap <=> wrap /\ ~settings.require)
  BY CapsuleFollows DEF Quiet
<1>3. saved' = saved \/ saved'.require = settings.require
  BY DEF Quiet
<1>4. CASE posture \in {"none", "mixed"}
  BY <1>1, <1>4 DEF Answered
<1>5. CASE posture = "pin"
  <2>1. ~wrap'
    BY <1>5 DEF Answered, PinAlone, KeychainToo, Quiet, At
  <2>2. ~At("curtain", {"migrate"})'
    BY <1>5 DEF Answered, PinAlone, KeychainToo, Quiet
  <2> QED
    BY <1>1, <1>2, <1>3, <1>5, <2>1, <2>2 DEF Answered, PinAlone, KeychainToo, Quiet, Alike
<1>6. CASE posture = "keychain"
  <2>1. wrap'
    BY <1>6 DEF Answered, PinAlone, KeychainToo, Quiet, At
  <2>2. ~At("curtain", {"capsule", "clear"})'
    BY <1>6 DEF Answered, PinAlone, KeychainToo, Quiet
  <2> QED
    BY <1>1, <1>2, <1>3, <1>6, <2>1, <2>2 DEF Answered, PinAlone, KeychainToo, Quiet, Alike
<1> QED
  BY <1>4, <1>5, <1>6, PartsHold DEF PastTyped

LEMMA QuietAnswers ==
  ASSUME PinInv, OrderInv, Quiet, ~forgotten, posture = "none", NEW p \in Tabs, Answers(p)
  PROVE  Answers(p)'
<1>1. Alike(p) /\ settings'.require = settings.require /\ ToggleStands(p)
  BY DEF Quiet, OrderInv, Alone
<1>2. \/ capsule' = capsule
      \/ capsule' # Nil /\ (capsule'.wrap <=> wrap /\ ~settings.require)
  BY CapsuleFollows DEF Quiet
<1>3. saved' = saved \/ saved'.require = settings.require
  BY DEF Quiet
<1>4. ASSUME Is(p, "enroll")' PROVE EnrollAnswers(p)'
  <2>1. EnrollAnswers(p) /\ Is(p, "enroll")
    BY <1>1, <1>4 DEF Answers, Alike, Is
  <2>2. settings.require => ~At("curtain", {"migrate"})'
    BY <2>1 DEF EnrollAnswers, Quiet
  <2>3. At(p, {"pepper", "envelope", "enrolled"})' =>
          ~settings'.enrolled /\ op'["curtain"] = Nil /\ ~curtain'
    BY <1>1, <2>1 DEF EnrollAnswers, Quiet, At, Alike
  <2>4. At(p, {"capsule", "clear"})' => settings'.require /\ saved'.require
    BY <1>1, <1>3, <2>1 DEF EnrollAnswers, At, Alike
  <2>5. At(p, {"clear"})' => capsule' # Nil /\ ~capsule'.wrap
    BY <1>1, <1>2, <2>1 DEF EnrollAnswers, At, Alike
  <2> QED
    BY <1>1, <2>2, <2>3, <2>4, <2>5 DEF EnrollAnswers
<1>5. ASSUME Is(p, "toggle")' PROVE ToggleAnswers(p)'
  <2>1. /\ ToggleAnswers(p) /\ Is(p, "toggle")
        /\ op'[p].step = op[p].step /\ op'[p].flag = op[p].flag /\ op[p] # Nil /\ op'[p] # Nil
    BY <1>1, <1>5 DEF Answers, Alike, Is
  <2>2. At(p, {"check", "capsule", "clear", "save", "wrap", "keep"})' =>
          /\ op'[p].flag => ~At("curtain", {"migrate"})'
          /\ ~op'[p].flag => ~At("curtain", {"capsule", "clear"})'
    BY <1>1, <2>1 DEF ToggleAnswers, ToggleStands, Quiet, At
  <2>3. ASSUME op[p].step \in {"save", "keep"} PROVE wrap' = wrap
    <3>1. \/ op[p].flag /\ ~At("curtain", {"migrate"})
          \/ ~op[p].flag /\ ~At("curtain", {"capsule", "clear"})
      BY <2>1, <2>3 DEF ToggleAnswers, At
    <3>2. CASE op[p].flag
      <4>1. op[p].step = "save" /\ ~wrap /\ ~At("curtain", {"migrate"}) /\ wrap \in BOOLEAN
        BY <1>1, <2>1, <2>3, <3>1, <3>2, PartsHold DEF ToggleAnswers, ToggleStands, At,
           KeptTyped
      <4> QED
        BY <4>1 DEF Quiet
    <3>3. CASE ~op[p].flag
      <4>1. wrap = TRUE /\ ~At("curtain", {"clear"})
        BY <2>1, <2>3, <3>1, <3>3, PartsHold DEF ToggleAnswers, At, KeptTyped
      <4> QED
        BY <4>1 DEF Quiet
    <3> QED
      BY <3>2, <3>3
  <2>4. At(p, {"clear"})' => capsule' # Nil /\ ~capsule'.wrap
    BY <1>1, <1>2, <2>1 DEF ToggleAnswers, ToggleStands, At
  <2>5. At(p, {"keep"})' => wrap'
    BY <2>1, <2>3 DEF ToggleAnswers, At
  <2>6. At(p, {"save"})' => /\ capsule' # Nil
                            /\ (wrap' <=> ~op'[p].flag) /\ (capsule'.wrap <=> ~op'[p].flag)
    BY <1>1, <1>2, <2>1, <2>3 DEF ToggleAnswers, ToggleStands, At
  <2> QED
    BY <2>2, <2>4, <2>5, <2>6 DEF ToggleAnswers
<1> QED
  BY <1>4, <1>5 DEF Answers, EnrollAnswers, ToggleAnswers

LEMMA QuietPosture ==
  ASSUME PinInv, OrderInv, PostureInv, Quiet
  PROVE  PostureInv'
  BY QuietAnswered, QuietAnswers DEF PostureInv, Quiet

LEMMA CurtainQuiet ==
  ASSUME PinInv, OrderInv, op["curtain"] # Nil,
         \/ Enrolling("curtain") \/ Toggling("curtain") \/ Unlocking("curtain")
         \/ Disabling("curtain") \/ KeepPinOnly("curtain") \/ ClearWrap("curtain")
         \/ Recapture("curtain")
  PROVE  Quiet
<1> DEFINE p == "curtain"
<1>0. /\ p \in Party /\ Is(p, "unlock") /\ op[p].step \in UnlockSteps /\ phase = "running"
      /\ ~Is(p, "toggle") /\ ~Is(p, "disable") /\ ~Is(p, "enroll") /\ settings \in Settings
      /\ \A q \in Tabs : q \in Party /\ q # p
  BY Apart, Runs, PartsHold DEF OrderInv, OpsInPlace, InPlace, LiveTyped, Is
<1> HIDE DEF p
<1> USE DEF StepIs, onDisk, memory, past, pinHistory
<1>1. CASE ReadEnvelope(p)
  <2>1. Reaches(p, IF envelope = Nil THEN "decide" ELSE "derive") /\ op'[p].envelope = envelope
    BY <1>0, <1>1, Turns
  <2>2. /\ UNCHANGED <<phase, posture, forgotten>>
        /\ settings'.require = settings.require
        /\ saved' = saved \/ saved' = settings'
        /\ capsule' = capsule \/ KeepCapsule
    BY <1>0, <1>1, <2>1 DEF ReadEnvelope
  <2>3. \/ wrap' = wrap
        \/ wrap' = TRUE /\ At(p, {"migrate"})
        \/ wrap' = FALSE /\ At(p, {"clear"})
    BY <1>0, <1>1, <2>1, PartsHold DEF ReadEnvelope, At, KeptTyped
  <2>4. /\ Others(p)
        /\ At(p, {"migrate"})' => ~settings.require
        /\ At(p, {"capsule", "clear"})' => At(p, {"capsule", "clear"}) \/ settings.require
    BY <1>0, <1>1, <2>1 DEF ReadEnvelope, At, Becomes, Reaches, Ends
  <2> QED
    BY <1>0, <2>2, <2>3, <2>4 DEF Quiet, Others, p
<1>2. CASE Derive(p)
  <2>1. /\ Reaches(p, "decide") /\ op'[p].envelope = op[p].envelope
        /\ op'[p].pepper = settings'.pepper
    BY <1>0, <1>2, Turns
  <2>2. /\ UNCHANGED <<phase, posture, forgotten>>
        /\ settings'.require = settings.require
        /\ saved' = saved \/ saved' = settings'
        /\ capsule' = capsule \/ KeepCapsule
    BY <1>0, <1>2, <2>1 DEF Derive, ReadPepper, Settings
  <2>3. \/ wrap' = wrap
        \/ wrap' = TRUE /\ At(p, {"migrate"})
        \/ wrap' = FALSE /\ At(p, {"clear"})
    BY <1>0, <1>2, <2>1, PartsHold DEF Derive, At, KeptTyped
  <2>4. /\ Others(p)
        /\ At(p, {"migrate"})' => ~settings.require
        /\ At(p, {"capsule", "clear"})' => At(p, {"capsule", "clear"}) \/ settings.require
    BY <1>0, <1>2, <2>1 DEF Derive, At, Becomes, Reaches, Ends
  <2> QED
    BY <1>0, <2>2, <2>3, <2>4 DEF Quiet, Others, p
<1>3. CASE Decide(p)
  <2>1. (Reaches(p, "opened") \/ Reaches(p, "failed")) /\ settings'.require = settings.require
    BY <1>0, <1>3, Turns DEF Becomes, ResetTo, Settings
  <2>2. /\ UNCHANGED <<phase, posture, forgotten>>
        /\ settings'.require = settings.require
        /\ saved' = saved \/ saved' = settings'
        /\ capsule' = capsule \/ KeepCapsule
    BY <1>0, <1>3, <2>1 DEF Decide
  <2>3. \/ wrap' = wrap
        \/ wrap' = TRUE /\ At(p, {"migrate"})
        \/ wrap' = FALSE /\ At(p, {"clear"})
    BY <1>0, <1>3, <2>1, PartsHold DEF Decide, At, KeptTyped
  <2>4. /\ Others(p)
        /\ At(p, {"migrate"})' => ~settings.require
        /\ At(p, {"capsule", "clear"})' => At(p, {"capsule", "clear"}) \/ settings.require
    BY <1>0, <1>3, <2>1 DEF Decide, At, Becomes, Reaches, Ends
  <2> QED
    BY <1>0, <2>2, <2>3, <2>4 DEF Quiet, Others, p
<1>4. CASE SaveFailure(p)
  <2>1. Becomes(p, "answer")
    BY <1>0, <1>4, Moves
  <2>2. /\ UNCHANGED <<phase, posture, forgotten>>
        /\ settings'.require = settings.require
        /\ saved' = saved \/ saved' = settings'
        /\ capsule' = capsule \/ KeepCapsule
    BY <1>0, <1>4, <2>1 DEF SaveFailure, SaveData
  <2>3. \/ wrap' = wrap
        \/ wrap' = TRUE /\ At(p, {"migrate"})
        \/ wrap' = FALSE /\ At(p, {"clear"})
    BY <1>0, <1>4, <2>1, PartsHold DEF SaveFailure, At, KeptTyped
  <2>4. /\ Others(p)
        /\ At(p, {"migrate"})' => ~settings.require
        /\ At(p, {"capsule", "clear"})' => At(p, {"capsule", "clear"}) \/ settings.require
    BY <1>0, <1>4, <2>1 DEF SaveFailure, At, Becomes, Reaches, Ends
  <2> QED
    BY <1>0, <2>2, <2>3, <2>4 DEF Quiet, Others, p
<1>5. CASE AnswerFailure(p)
  <2>1. Ends(p)
    BY <1>0, <1>5, Moves
  <2>2. /\ UNCHANGED <<phase, posture, forgotten>>
        /\ settings'.require = settings.require
        /\ saved' = saved \/ saved' = settings'
        /\ capsule' = capsule \/ KeepCapsule
    BY <1>0, <1>5, <2>1 DEF AnswerFailure
  <2>3. \/ wrap' = wrap
        \/ wrap' = TRUE /\ At(p, {"migrate"})
        \/ wrap' = FALSE /\ At(p, {"clear"})
    BY <1>0, <1>5, <2>1, PartsHold DEF AnswerFailure, At, KeptTyped
  <2>4. /\ Others(p)
        /\ At(p, {"migrate"})' => ~settings.require
        /\ At(p, {"capsule", "clear"})' => At(p, {"capsule", "clear"}) \/ settings.require
    BY <1>0, <1>5, <2>1 DEF AnswerFailure, At, Becomes, Reaches, Ends
  <2> QED
    BY <1>0, <2>2, <2>3, <2>4 DEF Quiet, Others, p
<1>6. CASE SaveSuccess(p)
  <2>1. Becomes(p, "adopt")
    BY <1>0, <1>6, Moves
  <2>2. /\ UNCHANGED <<phase, posture, forgotten>>
        /\ settings'.require = settings.require
        /\ saved' = saved \/ saved' = settings'
        /\ capsule' = capsule \/ KeepCapsule
    BY <1>0, <1>6, <2>1 DEF SaveSuccess, SaveData
  <2>3. \/ wrap' = wrap
        \/ wrap' = TRUE /\ At(p, {"migrate"})
        \/ wrap' = FALSE /\ At(p, {"clear"})
    BY <1>0, <1>6, <2>1, PartsHold DEF SaveSuccess, At, KeptTyped
  <2>4. /\ Others(p)
        /\ At(p, {"migrate"})' => ~settings.require
        /\ At(p, {"capsule", "clear"})' => At(p, {"capsule", "clear"}) \/ settings.require
    BY <1>0, <1>6, <2>1 DEF SaveSuccess, At, Becomes, Reaches, Ends
  <2> QED
    BY <1>0, <2>2, <2>3, <2>4 DEF Quiet, Others, p
<1>7. CASE Adopt(p)
  <2>1. Becomes(p, IF Is(p, "disable") THEN "rewrap"
                   ELSE IF settings.require THEN "capsule" ELSE "migrate")
    BY <1>0, <1>7, Branches
  <2>2. /\ UNCHANGED <<phase, posture, forgotten>>
        /\ settings'.require = settings.require
        /\ saved' = saved \/ saved' = settings'
        /\ capsule' = capsule \/ KeepCapsule
    BY <1>0, <1>7, <2>1 DEF Adopt
  <2>3. \/ wrap' = wrap
        \/ wrap' = TRUE /\ At(p, {"migrate"})
        \/ wrap' = FALSE /\ At(p, {"clear"})
    BY <1>0, <1>7, <2>1, PartsHold DEF Adopt, At, KeptTyped
  <2>4. /\ Others(p)
        /\ At(p, {"migrate"})' => ~settings.require
        /\ At(p, {"capsule", "clear"})' => At(p, {"capsule", "clear"}) \/ settings.require
    BY <1>0, <1>7, <2>1 DEF Adopt, At, Becomes, Reaches, Ends
  <2> QED
    BY <1>0, <2>2, <2>3, <2>4 DEF Quiet, Others, p
<1>8. CASE Migrate(p)
  <2>1. Becomes(p, "lift")
    BY <1>0, <1>8, Moves
  <2>2. /\ UNCHANGED <<phase, posture, forgotten>>
        /\ settings'.require = settings.require
        /\ saved' = saved \/ saved' = settings'
        /\ capsule' = capsule \/ KeepCapsule
    BY <1>0, <1>8, <2>1 DEF Migrate
  <2>3. \/ wrap' = wrap
        \/ wrap' = TRUE /\ At(p, {"migrate"})
        \/ wrap' = FALSE /\ At(p, {"clear"})
    BY <1>0, <1>8, <2>1, PartsHold DEF Migrate, At, KeptTyped
  <2>4. /\ Others(p)
        /\ At(p, {"migrate"})' => ~settings.require
        /\ At(p, {"capsule", "clear"})' => At(p, {"capsule", "clear"}) \/ settings.require
    BY <1>0, <1>8, <2>1 DEF Migrate, At, Becomes, Reaches, Ends
  <2> QED
    BY <1>0, <2>2, <2>3, <2>4 DEF Quiet, Others, p
<1>9. CASE Lift(p)
  <2>1. Ends(p)
    BY <1>0, <1>9, Moves
  <2>2. /\ UNCHANGED <<phase, posture, forgotten>>
        /\ settings'.require = settings.require
        /\ saved' = saved \/ saved' = settings'
        /\ capsule' = capsule \/ KeepCapsule
    BY <1>0, <1>9, <2>1 DEF Lift
  <2>3. \/ wrap' = wrap
        \/ wrap' = TRUE /\ At(p, {"migrate"})
        \/ wrap' = FALSE /\ At(p, {"clear"})
    BY <1>0, <1>9, <2>1, PartsHold DEF Lift, At, KeptTyped
  <2>4. /\ Others(p)
        /\ At(p, {"migrate"})' => ~settings.require
        /\ At(p, {"capsule", "clear"})' => At(p, {"capsule", "clear"}) \/ settings.require
    BY <1>0, <1>9, <2>1 DEF Lift, At, Becomes, Reaches, Ends
  <2> QED
    BY <1>0, <2>2, <2>3, <2>4 DEF Quiet, Others, p
<1>10. CASE KeepPinOnly(p)
  <2>1. (KeepCapsule /\ Becomes(p, "clear")) \/ (UNCHANGED capsule /\ NotClearedMoves(p))
    BY <1>0, <1>10, Branches
  <2>2. /\ UNCHANGED <<phase, posture, forgotten>>
        /\ settings'.require = settings.require
        /\ saved' = saved \/ saved' = settings'
        /\ capsule' = capsule \/ KeepCapsule
    BY <1>0, <1>10, <2>1 DEF KeepPinOnly, NotClearedMoves, ClearedMoves
  <2>3. \/ wrap' = wrap
        \/ wrap' = TRUE /\ At(p, {"migrate"})
        \/ wrap' = FALSE /\ At(p, {"clear"})
    BY <1>0, <1>10, <2>1, PartsHold DEF KeepPinOnly, At, KeptTyped
  <2>4. /\ Others(p)
        /\ At(p, {"migrate"})' => ~settings.require
        /\ At(p, {"capsule", "clear"})' => At(p, {"capsule", "clear"}) \/ settings.require
    BY <1>0, <1>10, <2>1 DEF KeepPinOnly, At, Becomes, Reaches, Ends, NotClearedMoves,
       ClearedMoves
  <2> QED
    BY <1>0, <2>2, <2>3, <2>4 DEF Quiet, Others, p
<1>11. CASE ClearWrap(p)
  <2>1. \/ wrap' = FALSE /\ Crossing(p) /\ ClearedMoves(p)
        \/ UNCHANGED <<wrap, posture, crossed>> /\ NotClearedMoves(p)
    BY <1>0, <1>11, Branches
  <2>2. /\ UNCHANGED <<phase, posture, forgotten>>
        /\ settings'.require = settings.require
        /\ saved' = saved \/ saved' = settings'
        /\ capsule' = capsule \/ KeepCapsule
    BY <1>0, <1>11, <2>1 DEF ClearWrap, NotClearedMoves, ClearedMoves
  <2>3. \/ wrap' = wrap
        \/ wrap' = TRUE /\ At(p, {"migrate"})
        \/ wrap' = FALSE /\ At(p, {"clear"})
    BY <1>0, <1>11, <2>1, PartsHold DEF ClearWrap, At, KeptTyped
  <2>4. /\ Others(p)
        /\ At(p, {"migrate"})' => ~settings.require
        /\ At(p, {"capsule", "clear"})' => At(p, {"capsule", "clear"}) \/ settings.require
    BY <1>0, <1>11, <2>1 DEF ClearWrap, At, Becomes, Reaches, Ends, NotClearedMoves,
       ClearedMoves
  <2> QED
    BY <1>0, <2>2, <2>3, <2>4 DEF Quiet, Others, p
<1>12. Unlocking(p) \/ KeepPinOnly(p) \/ ClearWrap(p)
  BY <1>0 DEF p, Enrolling, Toggling, Disabling, Recapture, UnlockSteps, DrawPepper,
     WriteEnvelope,
     MarkEnrolled, SaveEnrolled, CheckReady, RecordOnly, RestoreWrap, KeepPasskey, Unwrap,
     SaveToggle, Revert, RevertWrap, SaveReverted, Rewrap, ClearEnvelope, ClearPepper,
     MarkDisabled, SaveDisabled, Logout, Is
<1> QED
  BY <1>1, <1>2, <1>3, <1>4, <1>5, <1>6, <1>7, <1>8, <1>9, <1>10, <1>11, <1>12
  DEF Unlocking

\* A step of the settings tab: it answers, or is closer to an answer.
Closer(p) ==
  \/ posture' = "none" /\ Answers(p)'
  \/ /\ op'[p] = Nil /\ phase' = "running"
     /\ (posture' = "pin" /\ PinAlone') \/ (posture' = "keychain" /\ KeychainToo')

LEMMA TabPosture ==
  ASSUME PinInv, OrderInv, PostureInv, NEW p \in Tabs, op[p] # Nil, Others(p),
         ~forgotten' => ~forgotten, posture = "mixed" => posture' = "mixed",
         ~forgotten /\ posture = "none" /\ Answers(p) => Closer(p)
  PROVE  PostureInv'
<1>1. SUFFICES ASSUME ~forgotten'
               PROVE  Answered' /\ (posture' = "none" => \A q \in Tabs : Answers(q)')
  BY DEF PostureInv
<1>2. posture \in {"none", "mixed"}
  BY <1>1, PartsHold DEF PostureInv, Answered, PastTyped
<1>3. CASE posture = "none"
  <2>1. Closer(p) /\ Lone
    BY <1>1, <1>3 DEF PostureInv, OrderInv, Alone
  <2>2. \A q \in Tabs : q # p => op'[q] = Nil
    BY <2>1, Apart DEF Lone, Others, Alike
  <2>3. CASE posture' = "none" /\ Answers(p)'
    BY <2>2, <2>3 DEF Answered, Answers, EnrollAnswers, ToggleAnswers, Is
  <2>4. CASE posture' # "none" \/ ~Answers(p)'
    BY <2>1, <2>2, <2>4 DEF Closer, Answered
  <2> QED
    BY <2>3, <2>4
<1>4. CASE posture = "mixed"
  BY <1>4 DEF Answered
<1> QED
  BY <1>2, <1>3, <1>4

\* The setting of a PIN.
LEMMA EnrollCloser ==
  ASSUME PinInv, OrderInv, NEW p \in Tabs, Is(p, "enroll"), EnrollAnswers(p),
         posture = "none", ~forgotten,
         \/ Enrolling(p) \/ Toggling(p) \/ Unlocking(p) \/ Disabling(p)
         \/ KeepPinOnly(p) \/ ClearWrap(p) \/ Recapture(p)
  PROVE  Closer(p)
<1>0. /\ p \in Party /\ op[p] # Nil /\ op[p].step \in EnrollSteps /\ phase = "running"
      /\ ~Is(p, "toggle") /\ ~Is(p, "unlock") /\ ~Is(p, "disable")
      /\ settings \in Settings /\ wrap \in BOOLEAN /\ ToggleStands(p)
  BY Apart, Runs, PartsHold DEF OrderInv, OpsInPlace, InPlace, LiveTyped, KeptTyped, Alone, Is
<1>a. p # "curtain" /\ "curtain" \in Party
  BY Apart
<1> USE DEF StepIs, onDisk, memory, past, pinHistory
<1>1. CASE DrawPepper(p)
  <2>1. Reaches(p, "envelope") /\ op'[p].pepper = settings'.pepper
    BY <1>0, <1>1, Turns
  <2>2. /\ op'[p] # Nil => op'[p].kind = "enroll"
        /\ At("curtain", {"migrate"})' <=> At("curtain", {"migrate"})
        /\ At("curtain", {"capsule", "clear"})' <=> At("curtain", {"capsule", "clear"})
        /\ op'["curtain"] = Nil <=> op["curtain"] = Nil
    BY <1>0, <1>a, <2>1 DEF Becomes, Reaches, Ends, Others, Alike, At, Is
  <2>3. EnrollAnswers(p)'
    BY <1>0, <1>1, <2>1, <2>2 DEF DrawPepper, EnrollAnswers, At, Is, Becomes, Reaches, Ends,
       ReadPepper, Settings
  <2>4. posture' = "none"
    BY <1>0, <1>1 DEF DrawPepper
  <2> QED
    BY <2>2, <2>3, <2>4 DEF Closer, Answers, EnrollAnswers, ToggleAnswers, Is
<1>2. CASE WriteEnvelope(p)
  <2>1. Becomes(p, "enrolled")
    BY <1>0, <1>2, Moves
  <2>2. /\ op'[p] # Nil => op'[p].kind = "enroll"
        /\ At("curtain", {"migrate"})' <=> At("curtain", {"migrate"})
        /\ At("curtain", {"capsule", "clear"})' <=> At("curtain", {"capsule", "clear"})
        /\ op'["curtain"] = Nil <=> op["curtain"] = Nil
    BY <1>0, <1>a, <2>1 DEF Becomes, Reaches, Ends, Others, Alike, At, Is
  <2>3. EnrollAnswers(p)'
    BY <1>0, <1>2, <2>1, <2>2 DEF WriteEnvelope, EnrollAnswers, At, Is, Becomes, Reaches, Ends,
       Settings
  <2>4. posture' = "none"
    BY <1>0, <1>2 DEF WriteEnvelope
  <2> QED
    BY <2>2, <2>3, <2>4 DEF Closer, Answers, EnrollAnswers, ToggleAnswers, Is
<1>3. CASE MarkEnrolled(p)
  <2>1. Becomes(p, "save")
    BY <1>0, <1>3, Moves
  <2>2. /\ op'[p] # Nil => op'[p].kind = "enroll"
        /\ At("curtain", {"migrate"})' <=> At("curtain", {"migrate"})
        /\ At("curtain", {"capsule", "clear"})' <=> At("curtain", {"capsule", "clear"})
        /\ op'["curtain"] = Nil <=> op["curtain"] = Nil
    BY <1>0, <1>a, <2>1 DEF Becomes, Reaches, Ends, Others, Alike, At, Is
  <2>3. EnrollAnswers(p)'
    BY <1>0, <1>3, <2>1, <2>2 DEF MarkEnrolled, EnrollAnswers, At, Is, Becomes, Reaches, Ends,
       ResetTo, Settings
  <2>4. posture' = "none"
    BY <1>0, <1>3 DEF MarkEnrolled
  <2> QED
    BY <2>2, <2>3, <2>4 DEF Closer, Answers, EnrollAnswers, ToggleAnswers, Is
<1>4. CASE SaveEnrolled(p)
  <2>1. Becomes(p, IF settings.require THEN "capsule" ELSE "recapture")
    BY <1>0, <1>4, Moves
  <2>2. /\ op'[p] # Nil => op'[p].kind = "enroll"
        /\ At("curtain", {"migrate"})' <=> At("curtain", {"migrate"})
        /\ At("curtain", {"capsule", "clear"})' <=> At("curtain", {"capsule", "clear"})
        /\ op'["curtain"] = Nil <=> op["curtain"] = Nil
    BY <1>0, <1>a, <2>1 DEF Becomes, Reaches, Ends, Others, Alike, At, Is
  <2>3. EnrollAnswers(p)'
    BY <1>0, <1>4, <2>1, <2>2 DEF SaveEnrolled, EnrollAnswers, At, Is, Becomes, Reaches, Ends,
       SaveData, Settings
  <2>4. posture' = "none"
    BY <1>0, <1>4 DEF SaveEnrolled
  <2> QED
    BY <2>2, <2>3, <2>4 DEF Closer, Answers, EnrollAnswers, ToggleAnswers, Is
<1>5. CASE KeepPinOnly(p)
  <2>1. (KeepCapsule /\ Becomes(p, "clear")) \/ (UNCHANGED capsule /\ NotClearedMoves(p))
    BY <1>0, <1>5, Branches
  <2>2. /\ op'[p] # Nil => op'[p].kind = "enroll"
        /\ At("curtain", {"migrate"})' <=> At("curtain", {"migrate"})
        /\ At("curtain", {"capsule", "clear"})' <=> At("curtain", {"capsule", "clear"})
        /\ op'["curtain"] = Nil <=> op["curtain"] = Nil
    BY <1>0, <1>a, <2>1 DEF Becomes, Reaches, Ends, Others, Alike, At, Is, NotClearedMoves,
       ClearedMoves
  <2>c. KeepCapsule => capsule' # Nil /\ (capsule'.wrap <=> wrap /\ ~settings.require)
    BY CapsuleFollows
  <2>3. EnrollAnswers(p)'
    BY <1>0, <1>5, <2>1, <2>2, <2>c DEF KeepPinOnly, EnrollAnswers, At, Is, Becomes, Reaches,
       Ends, NotClearedMoves, ClearedMoves, Settings
  <2>4. posture' = "none"
    BY <1>0, <1>5 DEF KeepPinOnly
  <2> QED
    BY <2>2, <2>3, <2>4 DEF Closer, Answers, EnrollAnswers, ToggleAnswers, Is
<1>6. CASE ClearWrap(p)
  <2>1. \/ wrap' = FALSE /\ Crossing(p) /\ ClearedMoves(p)
        \/ UNCHANGED <<wrap, posture, crossed>> /\ NotClearedMoves(p)
    BY <1>0, <1>6, Branches
  <2>2. /\ op'[p] # Nil => op'[p].kind = "enroll"
        /\ At("curtain", {"migrate"})' <=> At("curtain", {"migrate"})
        /\ At("curtain", {"capsule", "clear"})' <=> At("curtain", {"capsule", "clear"})
        /\ op'["curtain"] = Nil <=> op["curtain"] = Nil
    BY <1>0, <1>a, <2>1 DEF Becomes, Reaches, Ends, Others, Alike, At, Is, NotClearedMoves,
       ClearedMoves
  <2>3. op'[p] = Nil /\ posture' = "pin" => PinAlone' /\ phase' = "running"
    BY <1>0, <1>6, <2>1, <2>2 DEF ClearWrap, TabAnswers, PinAlone, EnrollAnswers, At, Is,
       Becomes, Reaches, Ends, ClearedMoves, NotClearedMoves
  <2>4. posture' = "none" \/ (posture' = "pin" /\ op'[p] = Nil)
    BY <1>0, <1>6, <2>1, <2>2 DEF ClearWrap, TabAnswers, Ends, ClearedMoves, NotClearedMoves
  <2>5. op'[p] = Nil
    BY <1>0, <2>1 DEF Ends, ClearedMoves, NotClearedMoves
  <2> QED
    BY <2>3, <2>4, <2>5 DEF Closer, Answers, EnrollAnswers, ToggleAnswers, Is
<1>7. CASE Recapture(p)
  <2>1. Ends(p)
    BY <1>0, <1>7, Moves
  <2>2. /\ op'[p] # Nil => op'[p].kind = "enroll"
        /\ At("curtain", {"migrate"})' <=> At("curtain", {"migrate"})
        /\ At("curtain", {"capsule", "clear"})' <=> At("curtain", {"capsule", "clear"})
        /\ op'["curtain"] = Nil <=> op["curtain"] = Nil
    BY <1>0, <1>a, <2>1 DEF Becomes, Reaches, Ends, Others, Alike, At, Is
  <2>3. EnrollAnswers(p)'
    BY <1>0, <1>7, <2>1, <2>2 DEF Recapture, EnrollAnswers, At, Is, Becomes, Reaches, Ends,
       Settings
  <2>4. posture' = "none"
    BY <1>0, <1>7 DEF Recapture
  <2> QED
    BY <2>2, <2>3, <2>4 DEF Closer, Answers, EnrollAnswers, ToggleAnswers, Is
<1>8. DrawPepper(p) \/ WriteEnvelope(p) \/ MarkEnrolled(p) \/ SaveEnrolled(p) \/ KeepPinOnly(p)
      \/ ClearWrap(p) \/ Recapture(p)
  BY <1>0 DEF Enrolling, Toggling, Unlocking, Disabling, EnrollSteps, Is, CheckReady,
     RecordOnly, RestoreWrap, KeepPasskey, Unwrap, SaveToggle, Revert, RevertWrap, SaveReverted,
     ReadEnvelope, Derive, Decide, SaveFailure, AnswerFailure, SaveSuccess, Adopt, Migrate,
     Lift, Rewrap, ClearEnvelope, ClearPepper, MarkDisabled, SaveDisabled, Logout
<1> QED
  BY <1>1, <1>2, <1>3, <1>4, <1>5, <1>6, <1>7, <1>8

\* A toggle.
LEMMA ToggleCloser ==
  ASSUME PinInv, OrderInv, NEW p \in Tabs, Is(p, "toggle"), ToggleAnswers(p),
         posture = "none", ~forgotten,
         \/ Enrolling(p) \/ Toggling(p) \/ Unlocking(p) \/ Disabling(p)
         \/ KeepPinOnly(p) \/ ClearWrap(p) \/ Recapture(p)
  PROVE  Closer(p)
<1>0. /\ p \in Party /\ op[p] # Nil /\ op[p].step \in ToggleSteps /\ phase = "running"
      /\ ~Is(p, "enroll") /\ ~Is(p, "unlock") /\ ~Is(p, "disable")
      /\ settings \in Settings /\ wrap \in BOOLEAN /\ ToggleStands(p)
  BY Apart, Runs, PartsHold DEF OrderInv, OpsInPlace, InPlace, LiveTyped, KeptTyped, Alone, Is
<1>a. p # "curtain" /\ "curtain" \in Party
  BY Apart
<1> USE DEF StepIs, onDisk, memory, past, pinHistory
<1>1. CASE CheckReady(p)
  <2>1. Becomes(p, IF cipher # "ready" THEN "record"
                   ELSE IF op[p].flag THEN "capsule" ELSE "wrap")
    BY <1>0, <1>1, Moves
  <2>2. /\ op'[p] # Nil => op'[p].kind = "toggle"
        /\ At("curtain", {"migrate"})' <=> At("curtain", {"migrate"})
        /\ At("curtain", {"capsule", "clear"})' <=> At("curtain", {"capsule", "clear"})
        /\ op'["curtain"] = Nil <=> op["curtain"] = Nil
    BY <1>0, <1>a, <2>1 DEF Becomes, Reaches, Ends, Others, Alike, At, Is
  <2>3. ToggleAnswers(p)'
    BY <1>0, <1>1, <2>1, <2>2 DEF CheckReady, ToggleAnswers, At, Is, Becomes, Reaches, Ends,
       ToggleStands, Settings
  <2>4. posture' = "none"
    BY <1>0, <1>1 DEF CheckReady
  <2> QED
    BY <2>2, <2>3, <2>4 DEF Closer, Answers, EnrollAnswers, ToggleAnswers, Is
<1>2. CASE RecordOnly(p)
  <2>1. Ends(p)
    BY <1>0, <1>2, Moves
  <2>2. /\ op'[p] # Nil => op'[p].kind = "toggle"
        /\ At("curtain", {"migrate"})' <=> At("curtain", {"migrate"})
        /\ At("curtain", {"capsule", "clear"})' <=> At("curtain", {"capsule", "clear"})
        /\ op'["curtain"] = Nil <=> op["curtain"] = Nil
    BY <1>0, <1>a, <2>1 DEF Becomes, Reaches, Ends, Others, Alike, At, Is
  <2>3. ToggleAnswers(p)'
    BY <1>0, <1>2, <2>1, <2>2 DEF RecordOnly, ToggleAnswers, At, Is, Becomes, Reaches, Ends,
       ToggleStands, SaveData, Settings
  <2>4. posture' = "none"
    BY <1>0, <1>2 DEF RecordOnly
  <2> QED
    BY <2>2, <2>3, <2>4 DEF Closer, Answers, EnrollAnswers, ToggleAnswers, Is
<1>3. CASE RestoreWrap(p)
  <2>1. Becomes(p, IF cipher = "ready" THEN "keep" ELSE "revert")
    BY <1>0, <1>3, Moves
  <2>2. /\ op'[p] # Nil => op'[p].kind = "toggle"
        /\ At("curtain", {"migrate"})' <=> At("curtain", {"migrate"})
        /\ At("curtain", {"capsule", "clear"})' <=> At("curtain", {"capsule", "clear"})
        /\ op'["curtain"] = Nil <=> op["curtain"] = Nil
    BY <1>0, <1>a, <2>1 DEF Becomes, Reaches, Ends, Others, Alike, At, Is
  <2>3. ToggleAnswers(p)'
    BY <1>0, <1>3, <2>1, <2>2 DEF RestoreWrap, ToggleAnswers, At, Is, Becomes, Reaches, Ends,
       ToggleStands, Settings
  <2>4. posture' = "none"
    BY <1>0, <1>3 DEF RestoreWrap
  <2> QED
    BY <2>2, <2>3, <2>4 DEF Closer, Answers, EnrollAnswers, ToggleAnswers, Is
<1>4. CASE KeepPasskey(p)
  <2>1. (KeepCapsule /\ Becomes(p, "save")) \/ (UNCHANGED capsule /\ Becomes(p, "unwrap"))
    BY <1>0, <1>4, Branches
  <2>2. /\ op'[p] # Nil => op'[p].kind = "toggle"
        /\ At("curtain", {"migrate"})' <=> At("curtain", {"migrate"})
        /\ At("curtain", {"capsule", "clear"})' <=> At("curtain", {"capsule", "clear"})
        /\ op'["curtain"] = Nil <=> op["curtain"] = Nil
    BY <1>0, <1>a, <2>1 DEF Becomes, Reaches, Ends, Others, Alike, At, Is
  <2>c. KeepCapsule => capsule' # Nil /\ (capsule'.wrap <=> wrap /\ ~settings.require)
    BY CapsuleFollows
  <2>3. ToggleAnswers(p)'
    BY <1>0, <1>4, <2>1, <2>2, <2>c DEF KeepPasskey, ToggleAnswers, At, Is, Becomes, Reaches,
       Ends, ToggleStands, Settings
  <2>4. posture' = "none"
    BY <1>0, <1>4 DEF KeepPasskey
  <2> QED
    BY <2>2, <2>3, <2>4 DEF Closer, Answers, EnrollAnswers, ToggleAnswers, Is
<1>5. CASE Unwrap(p)
  <2>1. Becomes(p, "revert")
    BY <1>0, <1>5, Moves
  <2>2. /\ op'[p] # Nil => op'[p].kind = "toggle"
        /\ At("curtain", {"migrate"})' <=> At("curtain", {"migrate"})
        /\ At("curtain", {"capsule", "clear"})' <=> At("curtain", {"capsule", "clear"})
        /\ op'["curtain"] = Nil <=> op["curtain"] = Nil
    BY <1>0, <1>a, <2>1 DEF Becomes, Reaches, Ends, Others, Alike, At, Is
  <2>3. ToggleAnswers(p)'
    BY <1>0, <1>5, <2>1, <2>2 DEF Unwrap, ToggleAnswers, At, Is, Becomes, Reaches, Ends,
       ToggleStands, Settings
  <2>4. posture' = "none"
    BY <1>0, <1>5 DEF Unwrap
  <2> QED
    BY <2>2, <2>3, <2>4 DEF Closer, Answers, EnrollAnswers, ToggleAnswers, Is
<1>6. CASE SaveToggle(p)
  <2>1. Ends(p)
    BY <1>0, <1>6, Moves
  <2>2. /\ op'[p] # Nil => op'[p].kind = "toggle"
        /\ At("curtain", {"migrate"})' <=> At("curtain", {"migrate"})
        /\ At("curtain", {"capsule", "clear"})' <=> At("curtain", {"capsule", "clear"})
        /\ op'["curtain"] = Nil <=> op["curtain"] = Nil
    BY <1>0, <1>a, <2>1 DEF Becomes, Reaches, Ends, Others, Alike, At, Is
  <2>3. /\ posture' = (IF op[p].flag THEN "pin" ELSE "keychain")
        /\ UNCHANGED <<phase, settings, wrap, capsule>> /\ saved' = settings /\ op'[p] = Nil
    BY <1>6, <2>1 DEF SaveToggle, TabAnswers, SaveData, Ends
  <2>a. op[p].step = "save"
    BY <1>6 DEF SaveToggle
  <2>b. /\ (settings.require <=> op[p].flag) /\ capsule # Nil
        /\ (wrap <=> ~op[p].flag) /\ (capsule.wrap <=> ~op[p].flag)
        /\ op[p].flag => ~At("curtain", {"migrate"})
        /\ ~op[p].flag => ~At("curtain", {"capsule", "clear"})
    BY <1>0, <2>a DEF ToggleAnswers, ToggleStands, At
  <2>4. CASE op[p].flag
    <3>1. PinAlone'
      BY <2>2, <2>3, <2>4, <2>b DEF PinAlone
    <3> QED
      BY <1>0, <2>3, <2>4, <3>1 DEF Closer
  <2>5. CASE ~op[p].flag
    <3>1. KeychainToo'
      BY <2>2, <2>3, <2>5, <2>b DEF KeychainToo
    <3> QED
      BY <1>0, <2>3, <2>5, <3>1 DEF Closer
  <2> QED
    BY <2>4, <2>5
<1>7. CASE Revert(p)
  <2>1. Becomes(p, "revertWrap")
    BY <1>0, <1>7, Moves
  <2>2. /\ op'[p] # Nil => op'[p].kind = "toggle"
        /\ At("curtain", {"migrate"})' <=> At("curtain", {"migrate"})
        /\ At("curtain", {"capsule", "clear"})' <=> At("curtain", {"capsule", "clear"})
        /\ op'["curtain"] = Nil <=> op["curtain"] = Nil
    BY <1>0, <1>a, <2>1 DEF Becomes, Reaches, Ends, Others, Alike, At, Is
  <2>3. ToggleAnswers(p)'
    BY <1>0, <1>7, <2>1, <2>2 DEF Revert, ToggleAnswers, At, Is, Becomes, Reaches, Ends,
       ToggleStands, Settings
  <2>4. posture' = "none"
    BY <1>0, <1>7 DEF Revert
  <2> QED
    BY <2>2, <2>3, <2>4 DEF Closer, Answers, EnrollAnswers, ToggleAnswers, Is
<1>8. CASE RevertWrap(p)
  <2>1. Becomes(p, "revertSave")
    BY <1>0, <1>8, Moves
  <2>2. /\ op'[p] # Nil => op'[p].kind = "toggle"
        /\ At("curtain", {"migrate"})' <=> At("curtain", {"migrate"})
        /\ At("curtain", {"capsule", "clear"})' <=> At("curtain", {"capsule", "clear"})
        /\ op'["curtain"] = Nil <=> op["curtain"] = Nil
    BY <1>0, <1>a, <2>1 DEF Becomes, Reaches, Ends, Others, Alike, At, Is
  <2>3. ToggleAnswers(p)'
    BY <1>0, <1>8, <2>1, <2>2 DEF RevertWrap, ToggleAnswers, At, Is, Becomes, Reaches, Ends,
       ToggleStands, Settings
  <2>4. posture' = "none"
    BY <1>0, <1>8 DEF RevertWrap
  <2> QED
    BY <2>2, <2>3, <2>4 DEF Closer, Answers, EnrollAnswers, ToggleAnswers, Is
<1>9. CASE SaveReverted(p)
  <2>1. Becomes(p, "recapture")
    BY <1>0, <1>9, Moves
  <2>2. /\ op'[p] # Nil => op'[p].kind = "toggle"
        /\ At("curtain", {"migrate"})' <=> At("curtain", {"migrate"})
        /\ At("curtain", {"capsule", "clear"})' <=> At("curtain", {"capsule", "clear"})
        /\ op'["curtain"] = Nil <=> op["curtain"] = Nil
    BY <1>0, <1>a, <2>1 DEF Becomes, Reaches, Ends, Others, Alike, At, Is
  <2>3. ToggleAnswers(p)'
    BY <1>0, <1>9, <2>1, <2>2 DEF SaveReverted, ToggleAnswers, At, Is, Becomes, Reaches, Ends,
       ToggleStands, SaveData, Settings
  <2>4. posture' = "none"
    BY <1>0, <1>9 DEF SaveReverted
  <2> QED
    BY <2>2, <2>3, <2>4 DEF Closer, Answers, EnrollAnswers, ToggleAnswers, Is
<1>10. CASE KeepPinOnly(p)
  <2>1. (KeepCapsule /\ Becomes(p, "clear")) \/ (UNCHANGED capsule /\ NotClearedMoves(p))
    BY <1>0, <1>10, Branches
  <2>2. /\ op'[p] # Nil => op'[p].kind = "toggle"
        /\ At("curtain", {"migrate"})' <=> At("curtain", {"migrate"})
        /\ At("curtain", {"capsule", "clear"})' <=> At("curtain", {"capsule", "clear"})
        /\ op'["curtain"] = Nil <=> op["curtain"] = Nil
    BY <1>0, <1>a, <2>1 DEF Becomes, Reaches, Ends, Others, Alike, At, Is, NotClearedMoves,
       ClearedMoves
  <2>c. KeepCapsule => capsule' # Nil /\ (capsule'.wrap <=> wrap /\ ~settings.require)
    BY CapsuleFollows
  <2>3. ToggleAnswers(p)'
    BY <1>0, <1>10, <2>1, <2>2, <2>c DEF KeepPinOnly, ToggleAnswers, At, Is, Becomes, Reaches,
       Ends, NotClearedMoves, ClearedMoves, ToggleStands, Settings
  <2>4. posture' = "none"
    BY <1>0, <1>10 DEF KeepPinOnly
  <2> QED
    BY <2>2, <2>3, <2>4 DEF Closer, Answers, EnrollAnswers, ToggleAnswers, Is
<1>11. CASE ClearWrap(p)
  <2>1. \/ wrap' = FALSE /\ Crossing(p) /\ ClearedMoves(p)
        \/ UNCHANGED <<wrap, posture, crossed>> /\ NotClearedMoves(p)
    BY <1>0, <1>11, Branches
  <2>2. /\ op'[p] # Nil => op'[p].kind = "toggle"
        /\ At("curtain", {"migrate"})' <=> At("curtain", {"migrate"})
        /\ At("curtain", {"capsule", "clear"})' <=> At("curtain", {"capsule", "clear"})
        /\ op'["curtain"] = Nil <=> op["curtain"] = Nil
    BY <1>0, <1>a, <2>1 DEF Becomes, Reaches, Ends, Others, Alike, At, Is, NotClearedMoves,
       ClearedMoves
  <2>3. ToggleAnswers(p)'
    BY <1>0, <1>11, <2>1, <2>2 DEF ClearWrap, ToggleAnswers, At, Is, Becomes, Reaches, Ends,
       NotClearedMoves, ClearedMoves, ToggleStands, Settings
  <2>4. posture' = "none"
    BY <1>0, <1>11 DEF ClearWrap
  <2> QED
    BY <2>2, <2>3, <2>4 DEF Closer, Answers, EnrollAnswers, ToggleAnswers, Is
<1>12. CASE Recapture(p)
  <2>1. Ends(p)
    BY <1>0, <1>12, Moves
  <2>2. /\ op'[p] # Nil => op'[p].kind = "toggle"
        /\ At("curtain", {"migrate"})' <=> At("curtain", {"migrate"})
        /\ At("curtain", {"capsule", "clear"})' <=> At("curtain", {"capsule", "clear"})
        /\ op'["curtain"] = Nil <=> op["curtain"] = Nil
    BY <1>0, <1>a, <2>1 DEF Becomes, Reaches, Ends, Others, Alike, At, Is
  <2>3. ToggleAnswers(p)'
    BY <1>0, <1>12, <2>1, <2>2 DEF Recapture, ToggleAnswers, At, Is, Becomes, Reaches, Ends,
       ToggleStands, Settings
  <2>4. posture' = "none"
    BY <1>0, <1>12 DEF Recapture
  <2> QED
    BY <2>2, <2>3, <2>4 DEF Closer, Answers, EnrollAnswers, ToggleAnswers, Is
<1>13. CheckReady(p) \/ RecordOnly(p) \/ RestoreWrap(p) \/ KeepPasskey(p) \/ Unwrap(p)
      \/ SaveToggle(p) \/ Revert(p) \/ RevertWrap(p) \/ SaveReverted(p) \/ KeepPinOnly(p)
      \/ ClearWrap(p) \/ Recapture(p)
  BY <1>0 DEF Enrolling, Toggling, Unlocking, Disabling, ToggleSteps, Is, DrawPepper,
     WriteEnvelope, MarkEnrolled, SaveEnrolled, ReadEnvelope, Derive, Decide, SaveFailure,
     AnswerFailure, SaveSuccess, Adopt, Migrate, Lift, Rewrap, ClearEnvelope, ClearPepper,
     MarkDisabled, SaveDisabled, Logout
<1> QED
  BY <1>1, <1>2, <1>3, <1>4, <1>5, <1>6, <1>7, <1>8, <1>9, <1>10, <1>11, <1>12, <1>13

LEMMA StepsPosture ==
  ASSUME PinInv, OrderInv, PostureInv, NEW p \in Party,
         \/ Enrolling(p) \/ Toggling(p) \/ Unlocking(p) \/ Disabling(p)
         \/ KeepPinOnly(p) \/ ClearWrap(p) \/ Recapture(p)
  PROVE  PostureInv'
<1>1. /\ op[p] # Nil /\ Others(p) /\ UNCHANGED <<phase, forgotten>>
      /\ op'[p] # Nil => op'[p].kind = op[p].kind
      /\ posture = "mixed" => posture' = "mixed"
      /\ posture' = posture \/ op[p].step \in {"save", "clear"}
  BY StepShape
<1>2. CASE p = "curtain"
  BY <1>1, <1>2, CurtainQuiet, QuietPosture
<1>3. CASE p = "forgot"
  BY <1>1, <1>3 DEF OrderInv, PostureInv
<1>4. CASE p \in Tabs
  <2>1. SUFFICES ASSUME ~forgotten, posture = "none", Answers(p) PROVE Closer(p)
    BY <1>1, <1>4, TabPosture
  <2>2. InPlace(p)
    BY <1>1 DEF OrderInv, OpsInPlace
  <2>3. CASE Is(p, "enroll")
    BY <1>4, <2>1, <2>3, EnrollCloser DEF Answers
  <2>4. CASE Is(p, "toggle")
    BY <1>4, <2>1, <2>4, ToggleCloser DEF Answers
  <2>5. CASE op[p].kind = "disable"
    <3>1. posture' = "none"
      BY <1>1, <1>4, <2>1, <2>2, <2>5, Apart DEF InPlace, DisableSteps
    <3> QED
      BY <1>1, <2>5, <3>1 DEF Closer, Answers, EnrollAnswers, ToggleAnswers, Is
  <2> QED
    BY <1>1, <1>4, <2>2, <2>3, <2>4, <2>5, Apart DEF InPlace, Is
<1> QED
  BY <1>2, <1>3, <1>4, Apart

\* A request of the settings tab starts with nothing said of it.
LEMMA TabStarts ==
  ASSUME PinInv, OrderInv, NEW p \in Tabs, Tab(p)
  PROVE  PostureInv'
<1>1. ASSUME NEW kind, NEW step, OpensTab(p), Begun(p, kind, step), ~forgotten => Answers(p)'
      PROVE  PostureInv'
  <2>1. /\ posture' = (IF Overlaps THEN "mixed" ELSE "none") /\ UNCHANGED forgotten
    BY <1>1 DEF OpensTab
  <2>2. CASE Overlaps
    BY <2>1, <2>2 DEF PostureInv, Answered
  <2>3. CASE ~Overlaps
    <3>1. \A q \in Tabs : q # p => op'[q] = Nil
      BY <1>1, <2>3, Apart DEF Overlaps, Begun, Others, Alike
    <3> QED
      BY <1>1, <2>1, <2>3, <3>1 DEF PostureInv, Answered, Answers, EnrollAnswers, ToggleAnswers,
         Is
  <2> QED
    BY <2>2, <2>3
<1>2. ASSUME NEW kind, NEW step, OpensTab(p), Begun(p, kind, step), ~forgotten
      PROVE  /\ ~curtain /\ op'["curtain"] = Nil
             /\ op'[p].kind = kind /\ op'[p].step = step
  BY <1>2, Apart DEF OpensTab, OrderInv, Begun, Others, Alike
<1>3. ASSUME NEW secret \in Secrets, StartEnroll(p, secret) PROVE PostureInv'
  <2>1. OpensTab(p) /\ Begun(p, "enroll", "pepper") /\ UNCHANGED memory /\ ~settings.enrolled
    BY <1>3, Begins DEF StartEnroll
  <2>2. ~forgotten => Answers(p)'
    BY <2>1, <1>2 DEF Answers, EnrollAnswers, ToggleAnswers, At, Is, memory
  <2> QED
    BY <2>1, <2>2, <1>1
<1>4. ASSUME NEW secret \in Secrets \union {Nil}, StartDisable(p, secret) PROVE PostureInv'
  <2>1. OpensTab(p) /\ Begun(p, "disable", "read")
    BY <1>4, Begins DEF StartDisable
  <2>2. ~forgotten => Answers(p)'
    BY <2>1, <1>2 DEF Answers, EnrollAnswers, ToggleAnswers, Is
  <2> QED
    BY <2>1, <2>2, <1>1
<1>5. ASSUME NEW on \in BOOLEAN, StartToggle(p, on) PROVE PostureInv'
  <2>1. OpensTab(p) /\ Begun(p, "toggle", "check")
    BY <1>5, ToggleBegins DEF StartToggle
  <2>2. ~forgotten => Answers(p)'
    BY <2>1, <1>2 DEF Answers, EnrollAnswers, ToggleAnswers, At, Is
  <2> QED
    BY <2>1, <2>2, <1>1
<1> QED
  BY <1>3, <1>4, <1>5 DEF Tab

LEMMA NextPosture == PinInv /\ OrderInv /\ PostureInv /\ [PinNext]_pinVars => PostureInv'
<1> SUFFICES ASSUME PinInv, OrderInv, PostureInv, [PinNext]_pinVars PROVE PostureInv'
  OBVIOUS
<1> USE DEF memory, past, pinHistory, onDisk
<1>0. /\ settings \in Settings /\ "curtain" \in Party
      /\ \A p \in Tabs : p \in Party
      /\ ~forgotten => (op["curtain"] # Nil => curtain)
  BY PartsHold, Apart DEF LiveTyped, OrderInv
<1>1. ASSUME NEW p \in Tabs, Tab(p) PROVE PostureInv'
  BY <1>1, TabStarts
<1>2. ASSUME NEW secret \in Secrets \union {Nil}, StartUnlock(secret) PROVE PostureInv'
  <2>1. CASE Begun("curtain", "unlock", "read") /\ UNCHANGED curtain
    BY <1>0, <1>2, <2>1, Apart, QuietPosture DEF StartUnlock, Quiet, At, Begun, Others
  <2>2. CASE UNCHANGED op
    BY <1>0, <1>2, <2>2, QuietPosture DEF StartUnlock, Quiet, At, Alike
  <2> QED
    BY <1>2, <2>1, <2>2, Begins
<1>3. CASE StartForgot
  BY <1>3 DEF StartForgot, PostureInv
<1>4. ASSUME NEW p \in Party, \/ Enrolling(p) \/ Toggling(p) \/ Unlocking(p) \/ Disabling(p)
                              \/ KeepPinOnly(p) \/ ClearWrap(p) \/ Recapture(p)
      PROVE  PostureInv'
  BY <1>4, StepsPosture
<1>5. CASE Lock \/ BackoffEnds \/ BackgroundSave \/ BackgroundCapsule
  <2>1. UNCHANGED <<phase, op, forgotten, posture, wrap>> /\ phase = "running"
    BY <1>5 DEF Lock, BackoffEnds, BackgroundSave, BackgroundCapsule
  <2>2. /\ settings'.require = settings.require /\ settings'.enrolled = settings.enrolled
        /\ saved' = saved \/ saved' = settings'
        /\ capsule' = capsule \/ KeepCapsule
        /\ curtain' = curtain \/ settings.enrolled
    BY <1>0, <1>5 DEF Lock, BackoffEnds, BackgroundSave, BackgroundCapsule, SaveData, Settings
  <2> QED
    BY <2>1, <2>2, QuietPosture DEF Quiet, At, Alike
<1>6. CASE Crash
  BY <1>6, <1>0 DEF Crash, Ended, PostureInv, Answered, Answers, EnrollAnswers, ToggleAnswers,
     Is
<1>7. CASE Remove \/ Start \/ RestoreFiles \/ RestoreSettings
  <2>1. phase # "running" /\ UNCHANGED <<op, forgotten, posture>>
    BY <1>7 DEF Remove, Start, RestoreFiles, RestoreSettings, Land
  <2>2. \A p \in Tabs : op'[p] = Nil
    BY <1>0, <2>1, PartsHold DEF OpsTyped
  <2> QED
    BY <2>1, <2>2 DEF PostureInv, Answered, Answers, EnrollAnswers, ToggleAnswers, Is
<1>8. CASE UNCHANGED pinVars
  BY <1>8 DEF pinVars, PostureInv, Answered, PinAlone, KeychainToo, Answers, EnrollAnswers,
     ToggleAnswers, At, Is
<1> QED
  BY <1>1, <1>2, <1>3, <1>4, <1>5, <1>6, <1>7, <1>8 DEF PinNext

\* What setRequirePinOnStartup and enrollPinLock answered is so, on disk and in the
\* capsule, as long as nothing else is asked for: an unlock that is under way, a
\* save or a capsule of another part of the plugin never undoes it.
THEOREM PostureStands == PinSpec => []PostureHolds
<1>1. PostureInv => PostureHolds
  BY DEF PostureInv, Answered, PinAlone, KeychainToo, PostureHolds
<1> QED
  BY <1>1, InitPin, NextPin, InitOrder, NextOrder, InitPosture, NextPosture, PTL DEF PinSpec

(***************************************************************************)
(* PinLock: the key can be had again.                                      *)
(***************************************************************************)
\* What a start would read: a PIN that is set opens its envelope, and nothing but the
\* keychain's envelope lets it be absent.
DiskOpens ==
  /\ envelope # Nil => envelope.pepper # 0
  /\ saved.enrolled /\ envelope # Nil => envelope.pepper = saved.pepper
  /\ saved.enrolled /\ ~wrap => envelope # Nil

CapsuleKept ==
  /\ capsule # Nil
  /\ capsule.envelope # Nil => capsule.envelope.pepper # 0
  /\ capsule.settings.enrolled /\ capsule.envelope # Nil
       => capsule.envelope.pepper = capsule.settings.pepper
  /\ capsule.wrap \/ (capsule.settings.enrolled /\ capsule.envelope # Nil)

\* A restore that was cut short is done again, from the same capsule.
StoppedKept ==
  /\ phase = "restored" =>
       ~saved.enrolled /\ wrap = capsule.wrap /\ envelope = capsule.envelope
  /\ phase # "running" /\ ~wrap /\ ~saved.enrolled => envelope \in {Nil, capsule.envelope}

\* A PIN is being disabled and the wrapper is back; a toggle asks for the PIN alone;
\* the PIN is disabled in memory, or set there, and not yet on disk.
Removes(p) == Is(p, "disable") /\ At(p, {"clearEnvelope", "clearPepper", "reset"})
SwitchesOn(p) == Is(p, "toggle") /\ op[p].flag
Resets(p) == At(p, {"resetSave"})
Marks(p) == Is(p, "enroll") /\ At(p, {"save"})
Removing == \E p \in Tabs : Removes(p)
SwitchingOn == \E p \in Tabs : SwitchesOn(p)
Resetting == \E p \in Tabs : Resets(p)
Marking == \E p \in Tabs : Marks(p)

\* Without the keychain's envelope a PIN is set on disk and has its own; the settings
\* in memory and on disk differ only while an operation is about to save them.
RunningKept ==
  phase = "running" =>
    /\ saved.pepper = settings.pepper
    /\ ~settings.enrolled \/ Removing => wrap
    /\ settings.enrolled /\ envelope # Nil => envelope.pepper = settings.pepper
    /\ ~wrap => saved.enrolled /\ envelope # Nil
    /\ settings.enrolled /\ envelope = Nil /\ cipher = "ready" /\ settings.require
         => Removing \/ SwitchingOn
    /\ saved.enrolled /\ ~settings.enrolled => envelope = Nil /\ Resetting
    /\ settings.enrolled /\ ~saved.enrolled => Marking

\* What the curtain read is still there, unless the PIN is being disabled.
CurtainKept ==
  op["curtain"] # Nil =>
    /\ op["curtain"].envelope # Nil => envelope # Nil \/ Removing \/ ~settings.enrolled
    /\ At("curtain", {"opened", "adopt", "capsule", "clear", "migrate", "lift"})
         => op["curtain"].envelope # Nil
    /\ At("curtain", {"adopt", "capsule", "clear"}) => saved.enrolled \/ ~settings.enrolled

EnrollKept(p) ==
  Is(p, "enroll") =>
    /\ At(p, {"pepper", "envelope", "enrolled"})
         => ~settings.enrolled /\ ~saved.enrolled /\ ~curtain
    /\ At(p, {"envelope"}) => op[p].pepper = settings.pepper /\ settings.pepper # 0
    /\ At(p, {"enrolled", "save", "capsule", "clear", "recapture"})
         => envelope # Nil /\ envelope.pepper = settings.pepper
    /\ At(p, {"save", "capsule", "clear", "recapture"}) => settings.enrolled
    /\ At(p, {"capsule", "clear"}) => saved.enrolled

ToggleKept(p) ==
  Is(p, "toggle") =>
    /\ settings.enrolled /\ saved.enrolled
    /\ ~op[p].flag
         /\ At(p, {"wrap", "keep", "unwrap", "revert", "revertWrap", "revertSave", "recapture"})
         => envelope # Nil
    /\ ~op[p].flag /\ At(p, {"check"}) /\ envelope = Nil => cipher # "ready"
    /\ op[p].flag /\ At(p, {"clear", "save"}) => envelope # Nil

DisableKept(p) ==
  Is(p, "disable") =>
    /\ op[p].envelope # Nil
         /\ At(p, {"read", "derive", "decide", "failed", "answer", "opened", "adopt", "rewrap",
                   "clearEnvelope"})
         => envelope # Nil
    /\ ~At(p, {"resetSave", "recapture"}) => settings.enrolled
    /\ At(p, {"opened", "adopt", "rewrap"}) => op[p].envelope # Nil
    /\ At(p, {"clearPepper", "reset", "resetSave"}) => envelope = Nil
    /\ At(p, {"resetSave"}) => ~settings.enrolled

TabKept(p) == EnrollKept(p) /\ ToggleKept(p) /\ DisableKept(p)

KeyParts ==
  /\ DiskOpens /\ CapsuleKept /\ StoppedKept /\ RunningKept /\ CurtainKept
  /\ \A p \in Tabs : TabKept(p)
KeyInv == ~forgotten /\ ~crossed => KeyParts

LEMMA InitKey == PinInit => KeyInv
<1> SUFFICES ASSUME PinInit PROVE KeyParts
  BY DEF KeyInv
<1>1. /\ \A p \in Party : op[p] = Nil
      /\ Nil \notin Copies /\ Nil \notin SealedKey
      /\ saved \in Settings /\ wrap \in BOOLEAN /\ envelope \in Envelope /\ capsule \in KeptState
  BY InitPin, PartsHold, NoRecordAssumption DEF PinInit, KeptTyped
<1>2. capsule # Nil /\ capsule.settings = saved /\ capsule.wrap = wrap /\ capsule.envelope = envelope
  <2>1. capsule = [settings |-> saved, wrap |-> wrap, envelope |-> envelope]
    BY DEF PinInit
  <2> QED
    BY <1>1, <2>1 DEF Copies
<1>3. \/ wrap = TRUE /\ envelope = Nil /\ ~saved.enrolled
      \/ /\ envelope # Nil /\ envelope.pepper = 1
         /\ saved.enrolled /\ saved.pepper = 1 /\ (wrap <=> ~saved.require)
  <2>1. CASE wrap = TRUE /\ envelope = Nil /\ saved = Defaults
    BY <2>1 DEF Defaults
  <2>2. ASSUME NEW secret \in Secrets, NEW require \in BOOLEAN, wrap = ~require,
               envelope = [secret |-> secret, pepper |-> 1],
               saved = [Defaults EXCEPT !.enrolled = TRUE, !.pepper = 1, !.require = require]
        PROVE  /\ envelope # Nil /\ envelope.pepper = 1
               /\ saved.enrolled /\ saved.pepper = 1 /\ (wrap <=> ~saved.require)
    <3>1. envelope \in SealedKey /\ envelope.pepper = 1
      BY <2>2, PinBounds DEF SealedKey
    <3>2. saved.enrolled /\ saved.pepper = 1 /\ saved.require = require
      BY <2>2 DEF Defaults
    <3> QED
      BY <1>1, <2>2, <3>1, <3>2
  <2> QED
    BY <2>1, <2>2 DEF PinInit
<1>4. phase = "running" /\ settings = saved /\ cipher = "ready"
  BY DEF PinInit
<1>5. ~Removing /\ ~SwitchingOn /\ op["curtain"] = Nil /\ \A p \in Tabs : op[p] = Nil
  BY <1>1, Apart DEF Removing, SwitchingOn, Removes, SwitchesOn, Is
<1>6. DiskOpens /\ CapsuleKept /\ StoppedKept
  BY <1>1, <1>2, <1>3, <1>4 DEF DiskOpens, CapsuleKept, StoppedKept
<1>7. RunningKept
  BY <1>3, <1>4, <1>5 DEF RunningKept
<1>8. CurtainKept /\ \A p \in Tabs : TabKept(p)
  BY <1>5 DEF CurtainKept, TabKept, EnrollKept, ToggleKept, DisableKept, Is
<1> QED
  BY <1>6, <1>7, <1>8 DEF KeyParts

\* A capsule that is captured opens.
LEMMA CaptureKept ==
  ASSUME PinInv, DiskOpens, RunningKept, phase = "running", KeepCapsule
  PROVE  CapsuleKept'
<1>1. wrap \in BOOLEAN /\ envelope \in Envelope /\ settings \in Settings
  BY PartsHold DEF KeptTyped, LiveTyped
<1>2. PICK w \in BOOLEAN : w <=> wrap /\ ~settings.require
  BY <1>1
<1>3. Captured = [settings |-> settings, wrap |-> w, envelope |-> envelope] /\ capsule' = Captured
  BY <1>1, <1>2 DEF KeepCapsule, Captured
<1>4. /\ capsule' # Nil /\ capsule'.settings = settings /\ capsule'.wrap = w
      /\ capsule'.envelope = envelope /\ Captured.wrap = w
  BY <1>1, <1>3, NoRecordAssumption DEF Copies
<1>5. (w \/ envelope # Nil) /\ (settings.require => settings.enrolled)
  BY <1>4 DEF KeepCapsule, CanCapture
<1> QED
  BY <1>2, <1>4, <1>5 DEF CapsuleKept, DiskOpens, RunningKept

\* A step of the curtain, or of no operation at all, that leaves the key to be had.
TabsAlike == \A p \in Tabs : Alike(p)

LEMMA TabsStand ==
  ASSUME TabsAlike
  PROVE  /\ Removing' <=> Removing
         /\ SwitchingOn' <=> SwitchingOn
         /\ Resetting' <=> Resetting
         /\ Marking' <=> Marking
<1>1. ASSUME NEW p \in Tabs
      PROVE  /\ Removes(p)' <=> Removes(p)
             /\ SwitchesOn(p)' <=> SwitchesOn(p)
             /\ Resets(p)' <=> Resets(p)
             /\ Marks(p)' <=> Marks(p)
  BY DEF TabsAlike, Alike, Removes, SwitchesOn, Resets, Marks, At, Is
<1> QED
  BY <1>1 DEF Removing, SwitchingOn, Resetting, Marking

Harmless ==
  /\ phase = "running" /\ UNCHANGED <<phase, envelope>> /\ TabsAlike
  /\ settings'.enrolled = settings.enrolled /\ settings'.require = settings.require
  /\ settings'.pepper = settings.pepper \/ (settings.pepper = 0 /\ saved' = settings')
  /\ saved' = saved \/ saved' = settings'
  /\ capsule' = capsule \/ KeepCapsule
  /\ wrap' = wrap \/ wrap' = TRUE \/ (saved.enrolled /\ envelope # Nil /\ ~Removing)
  /\ \/ cipher' = cipher \/ cipher' # "ready"
     \/ envelope # Nil \/ Removing \/ ~settings.enrolled
  /\ curtain \/ settings.enrolled \/ ~curtain'
  /\ CurtainKept'

\* The part of it about the disk and the settings.
LEMMA HarmlessRuns ==
  ASSUME PinInv, KeyParts, Harmless
  PROVE  DiskOpens' /\ CapsuleKept' /\ StoppedKept' /\ RunningKept'
<1>1. /\ Removing' <=> Removing
      /\ SwitchingOn' <=> SwitchingOn
      /\ Resetting' <=> Resetting
      /\ Marking' <=> Marking
  BY TabsStand DEF Harmless
<1>2. /\ phase = "running" /\ phase' = "running" /\ envelope' = envelope
      /\ settings'.enrolled = settings.enrolled /\ settings'.require = settings.require
      /\ settings'.pepper = settings.pepper \/ (settings.pepper = 0 /\ saved' = settings')
      /\ saved' = saved \/ saved' = settings'
      /\ wrap' = wrap \/ wrap' = TRUE \/ (saved.enrolled /\ envelope # Nil /\ ~Removing)
      /\ \/ cipher' = cipher \/ cipher' # "ready"
         \/ envelope # Nil \/ Removing \/ ~settings.enrolled
  BY DEF Harmless
<1>3. DiskOpens /\ CapsuleKept /\ RunningKept
  BY DEF KeyParts
<1>4. CapsuleKept' /\ StoppedKept'
  BY <1>2, <1>3, CaptureKept DEF Harmless, CapsuleKept, StoppedKept
<1>5. settings.enrolled /\ envelope # Nil => settings'.pepper = settings.pepper
  BY <1>2, <1>3 DEF DiskOpens, RunningKept
<1>6. wrap' \/ (saved.enrolled /\ envelope # Nil /\ settings.enrolled)
  BY <1>2, <1>3 DEF RunningKept
<1>7. RunningKept'
  <2>1. saved'.pepper = settings'.pepper
    BY <1>2, <1>3 DEF RunningKept
  <2>2. ~settings'.enrolled \/ Removing' => wrap'
    BY <1>1, <1>2, <1>3 DEF RunningKept
  <2>3. settings'.enrolled /\ envelope' # Nil => envelope'.pepper = settings'.pepper
    BY <1>2, <1>3, <1>5 DEF RunningKept
  <2>4. ~wrap' => saved'.enrolled /\ envelope' # Nil
    BY <1>2, <1>6
  <2>5. settings'.enrolled /\ envelope' = Nil /\ cipher' = "ready" /\ settings'.require
          => Removing' \/ SwitchingOn'
    BY <1>1, <1>2, <1>3 DEF RunningKept
  <2>6. saved'.enrolled /\ ~settings'.enrolled => envelope' = Nil /\ Resetting'
    BY <1>1, <1>2, <1>3 DEF RunningKept
  <2>7. settings'.enrolled /\ ~saved'.enrolled => Marking'
    BY <1>1, <1>2, <1>3 DEF RunningKept
  <2> QED
    BY <2>1, <2>2, <2>3, <2>4, <2>5, <2>6, <2>7 DEF RunningKept
<1>8. DiskOpens'
  <2>1. saved' = saved => settings'.pepper = settings.pepper \/ saved' = settings'
    BY <1>2
  <2> QED
    BY <1>2, <1>3, <1>5, <1>6, <1>7, <2>1 DEF DiskOpens, RunningKept
<1> QED
  BY <1>4, <1>7, <1>8

LEMMA HarmlessKept ==
  ASSUME PinInv, OrderInv, ~crossed, KeyParts, Harmless, NEW p \in Tabs
  PROVE  TabKept(p)'
<1>1. /\ envelope' = envelope /\ Alike(p) /\ Lone
      /\ settings'.enrolled = settings.enrolled
      /\ settings'.pepper = settings.pepper \/ settings.pepper = 0
      /\ saved' = saved \/ saved'.enrolled = settings.enrolled
      /\ \/ cipher' = cipher \/ cipher' # "ready"
         \/ envelope # Nil \/ Removing \/ ~settings.enrolled
      /\ curtain \/ settings.enrolled \/ ~curtain'
      /\ envelope # Nil => envelope.pepper # 0
  BY DEF Harmless, TabsAlike, OrderInv, Alone, KeyParts, DiskOpens
<1>2. EnrollKept(p) /\ ToggleKept(p) /\ DisableKept(p)
  BY DEF KeyParts, TabKept
<1>3. EnrollKept(p)'
  BY <1>1, <1>2 DEF EnrollKept, Alike, At, Is
<1>4. ASSUME Is(p, "toggle") PROVE ToggleKept(p)'
  <2>1. ~Removing
    BY <1>1, <1>4 DEF Removing, Removes, Lone, Is
  <2> QED
    BY <1>1, <1>2, <1>4, <2>1 DEF ToggleKept, Alike, At, Is
<1>5. DisableKept(p)'
  BY <1>1, <1>2 DEF DisableKept, Alike, At, Is
<1> QED
  BY <1>1, <1>3, <1>4, <1>5 DEF TabKept, ToggleKept, Alike, Is

LEMMA HarmlessKey ==
  ASSUME PinInv, OrderInv, ~crossed, KeyParts, Harmless
  PROVE  KeyParts'
  BY HarmlessRuns, HarmlessKept DEF KeyParts, Harmless

LEMMA NotBack == ~WrapperIsBack => settings.enrolled /\ ~Removing
  BY DEF WrapperIsBack, Removing, Removes, StepIs, At

\* The curtain takes the wrapper, or sets the PIN again, only while the PIN is not being
\* disabled.
LEMMA CurtainHarmless ==
  ASSUME PinInv, OrderInv, KeyParts, ~forgotten, ~crossed', op["curtain"] # Nil,
         Unlocking("curtain") \/ KeepPinOnly("curtain") \/ ClearWrap("curtain")
  PROVE  Harmless
<1> DEFINE p == "curtain"
<1>0. /\ p \in Party /\ Is(p, "unlock") /\ op[p] # Nil /\ phase = "running" /\ curtain
      /\ ~Is(p, "toggle") /\ ~Is(p, "disable") /\ ~Is(p, "enroll") /\ settings \in Settings
      /\ \A q \in Tabs : q \in Party /\ q # p
  BY Apart, Runs, PartsHold DEF OrderInv, OpsInPlace, InPlace, LiveTyped, Is
<1>a. /\ op[p].envelope # Nil => envelope # Nil \/ Removing \/ ~settings.enrolled
      /\ At(p, {"opened", "adopt", "capsule", "clear", "migrate", "lift"}) => op[p].envelope # Nil
      /\ At(p, {"adopt", "capsule", "clear"}) => saved.enrolled \/ ~settings.enrolled
  BY <1>0 DEF KeyParts, CurtainKept
<1>b. ASSUME Others(p) PROVE TabsAlike /\ (Removing' <=> Removing)
  BY <1>0, <1>b, TabsStand DEF Others, TabsAlike
<1>c. ASSUME op'[p] # Nil =>
               /\ op'[p].envelope # Nil => envelope' # Nil \/ Removing' \/ ~settings'.enrolled
               /\ At(p, {"opened", "adopt", "capsule", "clear", "migrate", "lift"})'
                    => op'[p].envelope # Nil
               /\ At(p, {"adopt", "capsule", "clear"})' => saved'.enrolled \/ ~settings'.enrolled
      PROVE  CurtainKept'
  BY <1>c DEF CurtainKept
<1> HIDE DEF p
<1> USE DEF StepIs, onDisk, memory, past, pinHistory
<1>1. CASE ReadEnvelope(p)
  <2>1. Reaches(p, IF envelope = Nil THEN "decide" ELSE "derive") /\ op'[p].envelope = envelope
    BY <1>0, <1>1, Turns
  <2>2. /\ Others(p)
        /\ UNCHANGED <<phase, envelope>>
        /\ settings'.enrolled = settings.enrolled /\ settings'.require = settings.require
        /\ settings'.pepper = settings.pepper \/ (settings.pepper = 0 /\ saved' = settings')
        /\ saved' = saved
        /\ capsule' = capsule \/ KeepCapsule
        /\ wrap' = wrap
        /\ cipher' = cipher
    BY <1>0, <1>1, <2>1 DEF ReadEnvelope, Becomes, Reaches, Ends
  <2>3. TabsAlike /\ (Removing' <=> Removing)
    BY <2>2, <1>b
  <2>4. op[p].step = "read" /\ (op'[p] # Nil => op'[p].envelope = envelope)
    BY <1>0, <1>1, <2>1 DEF ReadEnvelope, Becomes, Reaches, Ends
  <2>5. CurtainKept'
    BY <1>0, <1>a, <1>c, <2>1, <2>2, <2>3, <2>4 DEF At, Becomes, Reaches, Ends
  <2> QED
    BY <1>0, <2>2, <2>3, <2>5 DEF Harmless
<1>2. CASE Derive(p)
  <2>1. /\ Reaches(p, "decide") /\ op'[p].envelope = op[p].envelope
        /\ op'[p].pepper = settings'.pepper
    BY <1>0, <1>2, Turns
  <2>2. /\ Others(p)
        /\ UNCHANGED <<phase, envelope>>
        /\ settings'.enrolled = settings.enrolled /\ settings'.require = settings.require
        /\ settings'.pepper = settings.pepper \/ (settings.pepper = 0 /\ saved' = settings')
        /\ saved' = saved \/ saved' = settings'
        /\ capsule' = capsule \/ KeepCapsule
        /\ wrap' = wrap
        /\ cipher' = cipher
    BY <1>0, <1>2, <2>1 DEF Derive, Becomes, Reaches, Ends, ReadPepper, Settings
  <2>3. TabsAlike /\ (Removing' <=> Removing)
    BY <2>2, <1>b
  <2>4. op[p].step = "derive" /\ (op'[p] # Nil => op'[p].envelope = op[p].envelope)
    BY <1>0, <1>2, <2>1 DEF Derive, Becomes, Reaches, Ends
  <2>5. CurtainKept'
    BY <1>0, <1>a, <1>c, <2>1, <2>2, <2>3, <2>4 DEF At, Becomes, Reaches, Ends
  <2> QED
    BY <1>0, <2>2, <2>3, <2>5 DEF Harmless
<1>3. CASE Decide(p)
  <2>1. /\ (Reaches(p, "opened") \/ Reaches(p, "failed")) /\ op'[p].envelope = op[p].envelope
        /\ op'[p].step = "opened" => op[p].envelope # Nil
        /\ settings'.require = settings.require /\ settings'.pepper = settings.pepper
        /\ settings'.enrolled = settings.enrolled
    <3>1. CASE /\ Opens(op[p]) /\ Becomes(p, "opened") /\ Crossing(p) /\ ResetTo(TRUE)
      <4>1. settings.enrolled = TRUE
        BY <1>0, <3>1, CrossedStays, NotBack DEF Settings
      <4> QED
        BY <1>0, <3>1, <4>1 DEF Becomes, Reaches, ResetTo, Settings, Opens
    <3>2. CASE /\ Reaches(p, "failed") /\ op'[p].envelope = op[p].envelope
               /\ settings'.enrolled = settings.enrolled /\ settings'.pepper = settings.pepper
               /\ settings'.require = settings.require
      BY <3>2 DEF Reaches
    <3> QED
      BY <1>0, <1>3, <3>1, <3>2, Turns
  <2>2. /\ Others(p)
        /\ UNCHANGED <<phase, envelope>>
        /\ settings'.enrolled = settings.enrolled /\ settings'.require = settings.require
        /\ settings'.pepper = settings.pepper \/ (settings.pepper = 0 /\ saved' = settings')
        /\ saved' = saved
        /\ capsule' = capsule \/ KeepCapsule
        /\ wrap' = wrap
        /\ cipher' = cipher
    BY <1>0, <1>3, <2>1 DEF Decide, Becomes, Reaches, Ends
  <2>3. TabsAlike /\ (Removing' <=> Removing)
    BY <2>2, <1>b
  <2>4. op[p].step = "decide" /\ (op'[p] # Nil => op'[p].envelope = op[p].envelope)
    BY <1>0, <1>3, <2>1 DEF Decide, Becomes, Reaches, Ends
  <2>5. CurtainKept'
    BY <1>0, <1>a, <1>c, <2>1, <2>2, <2>3, <2>4 DEF At, Becomes, Reaches, Ends
  <2> QED
    BY <1>0, <2>2, <2>3, <2>5 DEF Harmless
<1>4. CASE SaveFailure(p)
  <2>1. Becomes(p, "answer")
    BY <1>0, <1>4, Moves
  <2>2. /\ Others(p)
        /\ UNCHANGED <<phase, envelope>>
        /\ settings'.enrolled = settings.enrolled /\ settings'.require = settings.require
        /\ settings'.pepper = settings.pepper \/ (settings.pepper = 0 /\ saved' = settings')
        /\ saved' = settings /\ settings' = settings
        /\ capsule' = capsule \/ KeepCapsule
        /\ wrap' = wrap
        /\ cipher' = cipher
    BY <1>0, <1>4, <2>1 DEF SaveFailure, Becomes, Reaches, Ends, SaveData
  <2>3. TabsAlike /\ (Removing' <=> Removing)
    BY <2>2, <1>b
  <2>4. op[p].step = "failed" /\ (op'[p] # Nil => op'[p].envelope = op[p].envelope)
    BY <1>0, <1>4, <2>1 DEF SaveFailure, Becomes, Reaches, Ends
  <2>5. CurtainKept'
    BY <1>0, <1>a, <1>c, <2>1, <2>2, <2>3, <2>4 DEF At, Becomes, Reaches, Ends
  <2> QED
    BY <1>0, <2>2, <2>3, <2>5 DEF Harmless
<1>5. CASE AnswerFailure(p)
  <2>1. Ends(p)
    BY <1>0, <1>5, Moves
  <2>2. /\ Others(p)
        /\ UNCHANGED <<phase, envelope>>
        /\ settings'.enrolled = settings.enrolled /\ settings'.require = settings.require
        /\ settings'.pepper = settings.pepper \/ (settings.pepper = 0 /\ saved' = settings')
        /\ saved' = saved
        /\ capsule' = capsule \/ KeepCapsule
        /\ wrap' = wrap
        /\ cipher' = cipher
    BY <1>0, <1>5, <2>1 DEF AnswerFailure, Becomes, Reaches, Ends
  <2>3. TabsAlike /\ (Removing' <=> Removing)
    BY <2>2, <1>b
  <2>4. op[p].step = "answer" /\ (op'[p] # Nil => op'[p].envelope = op[p].envelope)
    BY <1>0, <1>5, <2>1 DEF AnswerFailure, Becomes, Reaches, Ends
  <2>5. CurtainKept'
    BY <1>0, <1>a, <1>c, <2>1, <2>2, <2>3, <2>4 DEF At, Becomes, Reaches, Ends
  <2> QED
    BY <1>0, <2>2, <2>3, <2>5 DEF Harmless
<1>6. CASE SaveSuccess(p)
  <2>1. Becomes(p, "adopt")
    BY <1>0, <1>6, Moves
  <2>2. /\ Others(p)
        /\ UNCHANGED <<phase, envelope>>
        /\ settings'.enrolled = settings.enrolled /\ settings'.require = settings.require
        /\ settings'.pepper = settings.pepper \/ (settings.pepper = 0 /\ saved' = settings')
        /\ saved' = settings /\ settings' = settings
        /\ capsule' = capsule \/ KeepCapsule
        /\ wrap' = wrap
        /\ cipher' = cipher
    BY <1>0, <1>6, <2>1 DEF SaveSuccess, Becomes, Reaches, Ends, SaveData
  <2>3. TabsAlike /\ (Removing' <=> Removing)
    BY <2>2, <1>b
  <2>4. op[p].step = "opened" /\ (op'[p] # Nil => op'[p].envelope = op[p].envelope)
    BY <1>0, <1>6, <2>1 DEF SaveSuccess, Becomes, Reaches, Ends
  <2>5. CurtainKept'
    BY <1>0, <1>a, <1>c, <2>1, <2>2, <2>3, <2>4 DEF At, Becomes, Reaches, Ends
  <2> QED
    BY <1>0, <2>2, <2>3, <2>5 DEF Harmless
<1>7. CASE Adopt(p)
  <2>1. Becomes(p, IF Is(p, "disable") THEN "rewrap"
                   ELSE IF settings.require THEN "capsule" ELSE "migrate")
    BY <1>0, <1>7, Branches
  <2>2. /\ Others(p)
        /\ UNCHANGED <<phase, envelope>>
        /\ settings'.enrolled = settings.enrolled /\ settings'.require = settings.require
        /\ settings'.pepper = settings.pepper \/ (settings.pepper = 0 /\ saved' = settings')
        /\ saved' = saved
        /\ capsule' = capsule \/ KeepCapsule
        /\ wrap' = wrap
    BY <1>0, <1>7, <2>1 DEF Adopt, Becomes, Reaches, Ends
  <2>3. TabsAlike /\ (Removing' <=> Removing)
    BY <2>2, <1>b
  <2>4. op[p].step = "adopt" /\ (op'[p] # Nil => op'[p].envelope = op[p].envelope)
    BY <1>0, <1>7, <2>1 DEF Adopt, Becomes, Reaches, Ends
  <2>5. CurtainKept'
    BY <1>0, <1>a, <1>c, <2>1, <2>2, <2>3, <2>4 DEF At, Becomes, Reaches, Ends
  <2>6. envelope # Nil \/ Removing \/ ~settings.enrolled
    BY <1>0, <1>a, <2>4 DEF At
  <2> QED
    BY <1>0, <2>2, <2>3, <2>5, <2>6 DEF Harmless
<1>8. CASE Migrate(p)
  <2>1. Becomes(p, "lift")
    BY <1>0, <1>8, Moves
  <2>2. /\ Others(p)
        /\ UNCHANGED <<phase, envelope>>
        /\ settings'.enrolled = settings.enrolled /\ settings'.require = settings.require
        /\ settings'.pepper = settings.pepper \/ (settings.pepper = 0 /\ saved' = settings')
        /\ saved' = saved
        /\ capsule' = capsule \/ KeepCapsule
        /\ wrap' = wrap \/ wrap' = TRUE
        /\ cipher' = cipher
    BY <1>0, <1>8, <2>1, PartsHold DEF Migrate, Becomes, Reaches, Ends, KeptTyped
  <2>3. TabsAlike /\ (Removing' <=> Removing)
    BY <2>2, <1>b
  <2>4. op[p].step = "migrate" /\ (op'[p] # Nil => op'[p].envelope = op[p].envelope)
    BY <1>0, <1>8, <2>1 DEF Migrate, Becomes, Reaches, Ends
  <2>5. CurtainKept'
    BY <1>0, <1>a, <1>c, <2>1, <2>2, <2>3, <2>4 DEF At, Becomes, Reaches, Ends
  <2> QED
    BY <1>0, <2>2, <2>3, <2>5 DEF Harmless
<1>9. CASE Lift(p)
  <2>1. Ends(p)
    BY <1>0, <1>9, Moves
  <2>2. /\ Others(p)
        /\ UNCHANGED <<phase, envelope>>
        /\ settings'.enrolled = settings.enrolled /\ settings'.require = settings.require
        /\ settings'.pepper = settings.pepper \/ (settings.pepper = 0 /\ saved' = settings')
        /\ saved' = saved
        /\ capsule' = capsule \/ KeepCapsule
        /\ wrap' = wrap
        /\ cipher' = cipher
    BY <1>0, <1>9, <2>1 DEF Lift, Becomes, Reaches, Ends
  <2>3. TabsAlike /\ (Removing' <=> Removing)
    BY <2>2, <1>b
  <2>4. op[p].step = "lift" /\ (op'[p] # Nil => op'[p].envelope = op[p].envelope)
    BY <1>0, <1>9, <2>1 DEF Lift, Becomes, Reaches, Ends
  <2>5. CurtainKept'
    BY <1>0, <1>a, <1>c, <2>1, <2>2, <2>3, <2>4 DEF At, Becomes, Reaches, Ends
  <2> QED
    BY <1>0, <2>2, <2>3, <2>5 DEF Harmless
<1>10. CASE KeepPinOnly(p)
  <2>1. (KeepCapsule /\ Becomes(p, "clear")) \/ (UNCHANGED capsule /\ NotClearedMoves(p))
    BY <1>0, <1>10, Branches
  <2>2. /\ Others(p)
        /\ UNCHANGED <<phase, envelope>>
        /\ settings'.enrolled = settings.enrolled /\ settings'.require = settings.require
        /\ settings'.pepper = settings.pepper \/ (settings.pepper = 0 /\ saved' = settings')
        /\ saved' = saved
        /\ capsule' = capsule \/ KeepCapsule
        /\ wrap' = wrap
        /\ cipher' = cipher
    BY <1>0, <1>10, <2>1 DEF KeepPinOnly, Becomes, Reaches, Ends, NotClearedMoves, ClearedMoves
  <2>3. TabsAlike /\ (Removing' <=> Removing)
    BY <2>2, <1>b
  <2>4. op[p].step = "capsule" /\ (op'[p] # Nil => op'[p].envelope = op[p].envelope)
    BY <1>0, <1>10, <2>1 DEF KeepPinOnly, Becomes, Reaches, Ends, NotClearedMoves, ClearedMoves
  <2>5. CurtainKept'
    BY <1>0, <1>a, <1>c, <2>1, <2>2, <2>3, <2>4 DEF At, Becomes, Reaches, Ends, NotClearedMoves,
       ClearedMoves
  <2> QED
    BY <1>0, <2>2, <2>3, <2>5 DEF Harmless
<1>11. CASE ClearWrap(p)
  <2>1. \/ wrap' = FALSE /\ Crossing(p) /\ ClearedMoves(p)
        \/ UNCHANGED <<wrap, posture, crossed>> /\ NotClearedMoves(p)
    BY <1>0, <1>11, Branches
  <2>a. wrap' = wrap \/ (wrap' = FALSE /\ saved.enrolled /\ envelope # Nil /\ ~Removing)
    <3>1. ASSUME wrap' = FALSE, Crossing(p) PROVE settings.enrolled /\ ~Removing
      BY <1>0, <3>1, CrossedStays, NotBack
    <3> QED
      BY <1>0, <1>a, <1>11, <2>1, <3>1 DEF ClearWrap, At
  <2>2. /\ Others(p)
        /\ UNCHANGED <<phase, envelope>>
        /\ settings'.enrolled = settings.enrolled /\ settings'.require = settings.require
        /\ settings'.pepper = settings.pepper \/ (settings.pepper = 0 /\ saved' = settings')
        /\ saved' = saved
        /\ capsule' = capsule \/ KeepCapsule
        /\ cipher' = cipher
    BY <1>0, <1>11, <2>1 DEF ClearWrap, Becomes, Reaches, Ends, NotClearedMoves, ClearedMoves
  <2>3. TabsAlike /\ (Removing' <=> Removing)
    BY <2>2, <1>b
  <2>4. op[p].step = "clear" /\ (op'[p] # Nil => op'[p].envelope = op[p].envelope)
    BY <1>0, <1>11, <2>1 DEF ClearWrap, Becomes, Reaches, Ends, NotClearedMoves, ClearedMoves
  <2>5. CurtainKept'
    BY <1>0, <1>a, <1>c, <2>1, <2>2, <2>3, <2>4 DEF At, Becomes, Reaches, Ends, NotClearedMoves,
       ClearedMoves
  <2> QED
    BY <1>0, <2>2, <2>3, <2>5, <2>a DEF Harmless
<1> QED
  BY <1>1, <1>2, <1>3, <1>4, <1>5, <1>6, <1>7, <1>8, <1>9, <1>10, <1>11 DEF Unlocking, p

\* A step of the settings tab, which has one operation at a time.
LEMMA OnlyTab ==
  ASSUME PinInv, OrderInv, ~crossed, NEW p \in Tabs, op[p] # Nil, Others(p)
  PROVE  /\ Removing <=> Removes(p)
         /\ SwitchingOn <=> SwitchesOn(p)
         /\ Resetting <=> Resets(p)
         /\ Marking <=> Marks(p)
         /\ Removing' <=> Removes(p)'
         /\ SwitchingOn' <=> SwitchesOn(p)'
         /\ Resetting' <=> Resets(p)'
         /\ Marking' <=> Marks(p)'
         /\ \A q \in Tabs : q # p => op'[q] = Nil
         /\ Alike("curtain")
<1>1. \A q \in Tabs : q # p => op[q] = Nil /\ op'[q] = Nil
  BY Apart DEF OrderInv, Alone, Lone, Others, Alike
<1>2. ASSUME NEW q \in Tabs, q # p
      PROVE  /\ ~Removes(q) /\ ~SwitchesOn(q) /\ ~Resets(q) /\ ~Marks(q)
             /\ ~Removes(q)' /\ ~SwitchesOn(q)' /\ ~Resets(q)' /\ ~Marks(q)'
  BY <1>1, <1>2 DEF Removes, SwitchesOn, Resets, Marks, At, Is
<1> QED
  BY <1>1, <1>2, Apart DEF Removing, SwitchingOn, Resetting, Marking, Others

LEMMA TabKey ==
  ASSUME PinInv, OrderInv, ~crossed, KeyParts, NEW p \in Tabs, op[p] # Nil, Others(p),
         phase = "running", phase' = "running", capsule' = capsule \/ KeepCapsule,
         DiskOpens', RunningKept', CurtainKept', TabKept(p)'
  PROVE  KeyParts'
<1>1. CapsuleKept' /\ StoppedKept'
  BY CaptureKept DEF KeyParts, CapsuleKept, StoppedKept
<1>2. ASSUME NEW q \in Tabs PROVE TabKept(q)'
  <2>1. CASE q = p
    BY <2>1
  <2>2. CASE q # p
    BY <2>2, OnlyTab DEF TabKept, EnrollKept, ToggleKept, DisableKept, Is
  <2> QED
    BY <2>1, <2>2
<1> QED
  BY <1>1, <1>2 DEF KeyParts

\* The setting of a PIN.
LEMMA EnrollKey ==
  ASSUME PinInv, OrderInv, KeyParts, ~forgotten, ~crossed, ~crossed',
         NEW p \in Tabs, Is(p, "enroll"),
         \/ Enrolling(p) \/ Toggling(p) \/ Unlocking(p) \/ Disabling(p)
         \/ KeepPinOnly(p) \/ ClearWrap(p) \/ Recapture(p)
  PROVE  KeyParts'
<1>0. /\ p \in Party /\ op[p] # Nil /\ op[p].step \in EnrollSteps /\ op[p].kind = "enroll"
      /\ ~Is(p, "toggle") /\ ~Is(p, "disable") /\ ~Is(p, "unlock") /\ ~Is(p, "forgot")
      /\ settings \in Settings /\ wrap \in BOOLEAN /\ envelope \in Envelope
      /\ ToggleStands(p) /\ (op["curtain"] # Nil => curtain) /\ p # "curtain"
  BY Apart, PartsHold DEF OrderInv, OpsInPlace, InPlace, LiveTyped, KeptTyped, Alone, Is
<1>s. /\ Others(p) /\ phase = "running" /\ phase' = "running"
      /\ op'[p] # Nil => op'[p].kind = "enroll"
  BY <1>0, StepShape, Runs
<1>o. /\ Removing <=> Removes(p)
      /\ SwitchingOn <=> SwitchesOn(p)
      /\ Resetting <=> Resets(p)
      /\ Marking <=> Marks(p)
      /\ Removing' <=> Removes(p)'
      /\ SwitchingOn' <=> SwitchesOn(p)'
      /\ Resetting' <=> Resets(p)'
      /\ Marking' <=> Marks(p)'
      /\ Alike("curtain")
  BY <1>0, <1>s, OnlyTab
<1>k. DiskOpens /\ RunningKept /\ CurtainKept /\ EnrollKept(p)
  BY DEF KeyParts, TabKept
<1>q. ASSUME capsule' = capsule \/ KeepCapsule,
             DiskOpens', RunningKept', CurtainKept', EnrollKept(p)'
      PROVE  KeyParts'
  <2>1. TabKept(p)'
    BY <1>s, <1>q DEF TabKept, EnrollKept, ToggleKept, DisableKept, Is
  <2> QED
    BY <1>0, <1>s, <1>q, <2>1, TabKey
<1> USE DEF StepIs, onDisk, memory, past, pinHistory
<1>1. CASE DrawPepper(p)
  <2>1. Reaches(p, "envelope") /\ op'[p].pepper = settings'.pepper
    BY <1>0, <1>1, Turns
  <2>p. peppers \in Nat /\ peppers + 1 # 0
    BY PartsHold DEF LiveTyped, Pepper
  <2>2. /\ op[p].step = "pepper"
        /\ UNCHANGED <<wrap, envelope, cipher, curtain, capsule>>
        /\ settings'.enrolled = settings.enrolled /\ settings'.require = settings.require
        /\ \/ settings'.pepper = settings.pepper /\ settings.pepper # 0 /\ saved' = saved
           \/ settings.pepper = 0 /\ settings'.pepper # 0 /\ saved' = settings'
    BY <1>0, <1>1, <2>p DEF DrawPepper, ReadPepper, Settings
  <2>3. DiskOpens'
    BY <1>0, <1>s, <1>k, <1>o, <2>2 DEF DiskOpens, RunningKept, EnrollKept, Removes, Resets,
       Marks, At, Is
  <2>4. RunningKept'
    BY <1>0, <1>s, <1>k, <1>o, <2>1, <2>2 DEF DiskOpens, RunningKept, EnrollKept, Removes,
       SwitchesOn,
       Resets, Marks, At, Is, Becomes, Reaches, Ends
  <2>5. CurtainKept'
    BY <1>0, <1>s, <1>k, <1>o, <2>1, <2>2 DEF CurtainKept, RunningKept, EnrollKept, Removes, At,
       Is, Alike, Becomes, Reaches, Ends
  <2>6. EnrollKept(p)'
    BY <1>0, <1>s, <1>k, <1>o, <2>1, <2>2 DEF DiskOpens, RunningKept, EnrollKept, Removes,
       SwitchesOn, At, Is, Becomes, Reaches, Ends
  <2> QED
    BY <1>q, <2>2, <2>3, <2>4, <2>5, <2>6
<1>2. CASE WriteEnvelope(p)
  <2>1. Becomes(p, "enrolled")
    BY <1>0, <1>2, Moves
  <2>w. op[p] \in PinOperation /\ op[p].secret \in Secrets
    BY <1>0, <1>2, OpRecords DEF WriteEnvelope, PinInv, EnrollsSecret
  <2>v. [secret |-> op[p].secret, pepper |-> op[p].pepper] \in SealedKey
    BY <2>w DEF SealedKey, PinOperation
  <2>2. /\ op[p].step = "envelope"
        /\ UNCHANGED <<wrap, saved, settings, cipher, curtain, capsule>>
        /\ envelope' # Nil /\ envelope'.pepper = op[p].pepper
    BY <1>0, <1>2, <2>v, NoRecordAssumption DEF WriteEnvelope
  <2>3. DiskOpens'
    BY <1>0, <1>s, <1>k, <1>o, <2>2 DEF DiskOpens, RunningKept, EnrollKept, Removes, Resets,
       Marks, At, Is
  <2>4. RunningKept'
    BY <1>0, <1>s, <1>k, <1>o, <2>1, <2>2 DEF DiskOpens, RunningKept, EnrollKept, Removes,
       SwitchesOn,
       Resets, Marks, At, Is, Becomes, Reaches, Ends
  <2>5. CurtainKept'
    BY <1>0, <1>s, <1>k, <1>o, <2>1, <2>2 DEF CurtainKept, RunningKept, EnrollKept, Removes, At,
       Is, Alike, Becomes, Reaches, Ends
  <2>6. EnrollKept(p)'
    BY <1>0, <1>s, <1>k, <1>o, <2>1, <2>2 DEF DiskOpens, RunningKept, EnrollKept, Removes,
       SwitchesOn, At, Is, Becomes, Reaches, Ends
  <2> QED
    BY <1>q, <2>2, <2>3, <2>4, <2>5, <2>6
<1>3. CASE MarkEnrolled(p)
  <2>1. Becomes(p, "save")
    BY <1>0, <1>3, Moves
  <2>2. /\ op[p].step = "enrolled"
        /\ UNCHANGED <<wrap, envelope, saved, cipher, curtain, capsule>>
        /\ settings'.enrolled = TRUE /\ settings'.require = settings.require
        /\ settings'.pepper = settings.pepper
    BY <1>0, <1>3 DEF MarkEnrolled, ResetTo, Settings
  <2>3. DiskOpens'
    BY <1>0, <1>s, <1>k, <1>o, <2>2 DEF DiskOpens, RunningKept, EnrollKept, Removes, Resets,
       Marks, At, Is
  <2>4. RunningKept'
    BY <1>0, <1>s, <1>k, <1>o, <2>1, <2>2 DEF DiskOpens, RunningKept, EnrollKept, Removes,
       SwitchesOn,
       Resets, Marks, At, Is, Becomes, Reaches, Ends
  <2>5. CurtainKept'
    BY <1>0, <1>s, <1>k, <1>o, <2>1, <2>2 DEF CurtainKept, RunningKept, EnrollKept, Removes, At,
       Is, Alike, Becomes, Reaches, Ends
  <2>6. EnrollKept(p)'
    BY <1>0, <1>s, <1>k, <1>o, <2>1, <2>2 DEF DiskOpens, RunningKept, EnrollKept, Removes,
       SwitchesOn, At, Is, Becomes, Reaches, Ends
  <2> QED
    BY <1>q, <2>2, <2>3, <2>4, <2>5, <2>6
<1>4. CASE SaveEnrolled(p)
  <2>1. Becomes(p, IF settings.require THEN "capsule" ELSE "recapture")
    BY <1>0, <1>4, Moves
  <2>2. /\ op[p].step = "save"
        /\ UNCHANGED <<wrap, envelope, settings, cipher, curtain, capsule>>
        /\ saved' = settings
    BY <1>0, <1>4 DEF SaveEnrolled, SaveData
  <2>3. DiskOpens'
    BY <1>0, <1>s, <1>k, <1>o, <2>2 DEF DiskOpens, RunningKept, EnrollKept, Removes, Resets,
       Marks, At, Is
  <2>4. RunningKept'
    BY <1>0, <1>s, <1>k, <1>o, <2>1, <2>2 DEF DiskOpens, RunningKept, EnrollKept, Removes,
       SwitchesOn,
       Resets, Marks, At, Is, Becomes, Reaches, Ends
  <2>5. CurtainKept'
    BY <1>0, <1>s, <1>k, <1>o, <2>1, <2>2 DEF CurtainKept, RunningKept, EnrollKept, Removes, At,
       Is, Alike, Becomes, Reaches, Ends
  <2>6. EnrollKept(p)'
    BY <1>0, <1>s, <1>k, <1>o, <2>1, <2>2 DEF DiskOpens, RunningKept, EnrollKept, Removes,
       SwitchesOn, At, Is, Becomes, Reaches, Ends
  <2> QED
    BY <1>q, <2>2, <2>3, <2>4, <2>5, <2>6
<1>5. CASE KeepPinOnly(p)
  <2>1. (KeepCapsule /\ Becomes(p, "clear")) \/ (UNCHANGED capsule /\ NotClearedMoves(p))
    BY <1>0, <1>5, Branches
  <2>2. /\ op[p].step = "capsule"
        /\ UNCHANGED <<wrap, envelope, saved, settings, cipher, curtain>>
        /\ capsule' = capsule \/ KeepCapsule
    BY <1>0, <1>5, <2>1 DEF KeepPinOnly, NotClearedMoves, ClearedMoves
  <2>3. DiskOpens'
    BY <1>0, <1>s, <1>k, <1>o, <2>2 DEF DiskOpens, RunningKept, EnrollKept, Removes, Resets,
       Marks, At, Is
  <2>4. RunningKept'
    BY <1>0, <1>s, <1>k, <1>o, <2>1, <2>2 DEF DiskOpens, RunningKept, EnrollKept, Removes,
       SwitchesOn,
       Resets, Marks, At, Is, Becomes, Reaches, Ends, NotClearedMoves, ClearedMoves
  <2>5. CurtainKept'
    BY <1>0, <1>s, <1>k, <1>o, <2>1, <2>2 DEF CurtainKept, RunningKept, EnrollKept, Removes, At,
       Is, Alike, Becomes, Reaches, Ends, NotClearedMoves, ClearedMoves
  <2>6. EnrollKept(p)'
    BY <1>0, <1>s, <1>k, <1>o, <2>1, <2>2 DEF DiskOpens, RunningKept, EnrollKept, Removes,
       SwitchesOn, At, Is, Becomes, Reaches, Ends, NotClearedMoves, ClearedMoves
  <2> QED
    BY <1>q, <2>2, <2>3, <2>4, <2>5, <2>6
<1>6. CASE ClearWrap(p)
  <2>1. \/ wrap' = FALSE /\ Crossing(p) /\ ClearedMoves(p)
        \/ UNCHANGED <<wrap, posture, crossed>> /\ NotClearedMoves(p)
    BY <1>0, <1>6, Branches
  <2>2. /\ op[p].step = "clear"
        /\ UNCHANGED <<envelope, saved, settings, cipher, curtain, capsule>>
        /\ wrap' \in {FALSE, wrap}
    BY <1>0, <1>6, <2>1 DEF ClearWrap, NotClearedMoves, ClearedMoves
  <2>3. DiskOpens'
    BY <1>0, <1>s, <1>k, <1>o, <2>2 DEF DiskOpens, RunningKept, EnrollKept, Removes, Resets,
       Marks, At, Is
  <2>4. RunningKept'
    BY <1>0, <1>s, <1>k, <1>o, <2>1, <2>2 DEF DiskOpens, RunningKept, EnrollKept, Removes,
       SwitchesOn,
       Resets, Marks, At, Is, Becomes, Reaches, Ends, NotClearedMoves, ClearedMoves
  <2>5. CurtainKept'
    BY <1>0, <1>s, <1>k, <1>o, <2>1, <2>2 DEF CurtainKept, RunningKept, EnrollKept, Removes, At,
       Is, Alike, Becomes, Reaches, Ends, NotClearedMoves, ClearedMoves
  <2>6. EnrollKept(p)'
    BY <1>0, <1>s, <1>k, <1>o, <2>1, <2>2 DEF DiskOpens, RunningKept, EnrollKept, Removes,
       SwitchesOn, At, Is, Becomes, Reaches, Ends, NotClearedMoves, ClearedMoves
  <2> QED
    BY <1>q, <2>2, <2>3, <2>4, <2>5, <2>6
<1>7. CASE Recapture(p)
  <2>1. Ends(p)
    BY <1>0, <1>7, Moves
  <2>2. /\ op[p].step = "recapture"
        /\ UNCHANGED <<wrap, envelope, saved, settings, cipher, curtain>>
        /\ capsule' = capsule \/ KeepCapsule
    BY <1>0, <1>7 DEF Recapture, TryCapsule
  <2>3. DiskOpens'
    BY <1>0, <1>s, <1>k, <1>o, <2>2 DEF DiskOpens, RunningKept, EnrollKept, Removes, Resets,
       Marks, At, Is
  <2>4. RunningKept'
    BY <1>0, <1>s, <1>k, <1>o, <2>1, <2>2 DEF DiskOpens, RunningKept, EnrollKept, Removes,
       SwitchesOn,
       Resets, Marks, At, Is, Becomes, Reaches, Ends
  <2>5. CurtainKept'
    BY <1>0, <1>s, <1>k, <1>o, <2>1, <2>2 DEF CurtainKept, RunningKept, EnrollKept, Removes, At,
       Is, Alike, Becomes, Reaches, Ends
  <2>6. EnrollKept(p)'
    BY <1>0, <1>s, <1>k, <1>o, <2>1, <2>2 DEF DiskOpens, RunningKept, EnrollKept, Removes,
       SwitchesOn, At, Is, Becomes, Reaches, Ends
  <2> QED
    BY <1>q, <2>2, <2>3, <2>4, <2>5, <2>6
<1>8. DrawPepper(p) \/ WriteEnvelope(p) \/ MarkEnrolled(p) \/ SaveEnrolled(p) \/ KeepPinOnly(p)
      \/ ClearWrap(p) \/ Recapture(p)
  BY <1>0 DEF Enrolling, Toggling, Unlocking, Disabling, EnrollSteps, CheckReady, RecordOnly,
     RestoreWrap, KeepPasskey, Unwrap, SaveToggle, Revert, RevertWrap, SaveReverted,
     ReadEnvelope, Derive, Decide, SaveFailure, AnswerFailure, SaveSuccess, Adopt, Rewrap,
     ClearEnvelope, ClearPepper, MarkDisabled, SaveDisabled, Migrate, Lift, Logout
<1> QED
  BY <1>1, <1>2, <1>3, <1>4, <1>5, <1>6, <1>7, <1>8

\* A toggle.
LEMMA ToggleKey ==
  ASSUME PinInv, OrderInv, KeyParts, ~forgotten, ~crossed, ~crossed',
         NEW p \in Tabs, Is(p, "toggle"),
         \/ Enrolling(p) \/ Toggling(p) \/ Unlocking(p) \/ Disabling(p)
         \/ KeepPinOnly(p) \/ ClearWrap(p) \/ Recapture(p)
  PROVE  KeyParts'
<1>0. /\ p \in Party /\ op[p] # Nil /\ op[p].step \in ToggleSteps /\ op[p].kind = "toggle"
      /\ ~Is(p, "enroll") /\ ~Is(p, "disable") /\ ~Is(p, "unlock") /\ ~Is(p, "forgot")
      /\ settings \in Settings /\ wrap \in BOOLEAN /\ envelope \in Envelope
      /\ ToggleStands(p) /\ (op["curtain"] # Nil => curtain) /\ p # "curtain"
  BY Apart, PartsHold DEF OrderInv, OpsInPlace, InPlace, LiveTyped, KeptTyped, Alone, Is
<1>s. /\ Others(p) /\ phase = "running" /\ phase' = "running"
      /\ op'[p] # Nil => op'[p].kind = "toggle"
  BY <1>0, StepShape, Runs
<1>o. /\ Removing <=> Removes(p)
      /\ SwitchingOn <=> SwitchesOn(p)
      /\ Resetting <=> Resets(p)
      /\ Marking <=> Marks(p)
      /\ Removing' <=> Removes(p)'
      /\ SwitchingOn' <=> SwitchesOn(p)'
      /\ Resetting' <=> Resets(p)'
      /\ Marking' <=> Marks(p)'
      /\ Alike("curtain")
  BY <1>0, <1>s, OnlyTab
<1>k. DiskOpens /\ RunningKept /\ CurtainKept /\ ToggleKept(p)
  BY DEF KeyParts, TabKept
<1>q. ASSUME capsule' = capsule \/ KeepCapsule,
             DiskOpens', RunningKept', CurtainKept', ToggleKept(p)'
      PROVE  KeyParts'
  <2>1. TabKept(p)'
    BY <1>s, <1>q DEF TabKept, EnrollKept, ToggleKept, DisableKept, Is
  <2> QED
    BY <1>0, <1>s, <1>q, <2>1, TabKey
<1> USE DEF StepIs, onDisk, memory, past, pinHistory
<1>1. CASE CheckReady(p)
  <2>1. Becomes(p, IF cipher # "ready" THEN "record"
                   ELSE IF op[p].flag THEN "capsule" ELSE "wrap")
    BY <1>0, <1>1, Moves
  <2>2. /\ op[p].step = "check"
        /\ UNCHANGED <<wrap, envelope, saved, cipher, curtain, capsule>>
        /\ settings'.enrolled = settings.enrolled /\ settings'.pepper = settings.pepper
        /\ cipher = "ready" => settings'.require = settings.require
    BY <1>0, <1>1 DEF CheckReady, Settings
  <2>3. DiskOpens'
    BY <1>0, <1>s, <1>k, <1>o, <2>2 DEF DiskOpens, RunningKept, ToggleKept, Removes, Resets,
       Marks, At, Is, ToggleStands
  <2>4. RunningKept'
    BY <1>0, <1>s, <1>k, <1>o, <2>1, <2>2 DEF DiskOpens, RunningKept, ToggleKept, Removes,
       SwitchesOn,
       Resets, Marks, At, Is, Becomes, Reaches, Ends, ToggleStands
  <2>5. CurtainKept'
    BY <1>0, <1>s, <1>k, <1>o, <2>1, <2>2 DEF CurtainKept, RunningKept, ToggleKept, Removes, At,
       Is, Alike, Becomes, Reaches, Ends
  <2>6. ToggleKept(p)'
    BY <1>0, <1>s, <1>k, <1>o, <2>1, <2>2 DEF DiskOpens, RunningKept, ToggleKept, Removes,
       SwitchesOn, At, Is, Becomes, Reaches, Ends, ToggleStands
  <2> QED
    BY <1>q, <2>2, <2>3, <2>4, <2>5, <2>6
<1>2. CASE RecordOnly(p)
  <2>1. Ends(p)
    BY <1>0, <1>2, Moves
  <2>2. /\ op[p].step = "record"
        /\ UNCHANGED <<wrap, envelope, settings, cipher, curtain, capsule>>
        /\ saved' = settings
    BY <1>0, <1>2 DEF RecordOnly, SaveData
  <2>3. DiskOpens'
    BY <1>0, <1>s, <1>k, <1>o, <2>2 DEF DiskOpens, RunningKept, ToggleKept, Removes, Resets,
       Marks, At, Is, ToggleStands
  <2>4. RunningKept'
    BY <1>0, <1>s, <1>k, <1>o, <2>1, <2>2 DEF DiskOpens, RunningKept, ToggleKept, Removes,
       SwitchesOn,
       Resets, Marks, At, Is, Becomes, Reaches, Ends, ToggleStands
  <2>5. CurtainKept'
    BY <1>0, <1>s, <1>k, <1>o, <2>1, <2>2 DEF CurtainKept, RunningKept, ToggleKept, Removes, At,
       Is, Alike, Becomes, Reaches, Ends
  <2>6. ToggleKept(p)'
    BY <1>0, <1>s, <1>k, <1>o, <2>1, <2>2 DEF DiskOpens, RunningKept, ToggleKept, Removes,
       SwitchesOn, At, Is, Becomes, Reaches, Ends, ToggleStands
  <2> QED
    BY <1>q, <2>2, <2>3, <2>4, <2>5, <2>6
<1>3. CASE RestoreWrap(p)
  <2>1. Becomes(p, IF cipher = "ready" THEN "keep" ELSE "revert")
    BY <1>0, <1>3, Moves
  <2>2. /\ op[p].step = "wrap"
        /\ UNCHANGED <<envelope, saved, settings, cipher, curtain, capsule>>
        /\ wrap' = wrap \/ wrap' = TRUE
    BY <1>0, <1>3 DEF RestoreWrap
  <2>3. DiskOpens'
    BY <1>0, <1>s, <1>k, <1>o, <2>2 DEF DiskOpens, RunningKept, ToggleKept, Removes, Resets,
       Marks, At, Is, ToggleStands
  <2>4. RunningKept'
    BY <1>0, <1>s, <1>k, <1>o, <2>1, <2>2 DEF DiskOpens, RunningKept, ToggleKept, Removes,
       SwitchesOn,
       Resets, Marks, At, Is, Becomes, Reaches, Ends, ToggleStands
  <2>5. CurtainKept'
    BY <1>0, <1>s, <1>k, <1>o, <2>1, <2>2 DEF CurtainKept, RunningKept, ToggleKept, Removes, At,
       Is, Alike, Becomes, Reaches, Ends
  <2>6. ToggleKept(p)'
    BY <1>0, <1>s, <1>k, <1>o, <2>1, <2>2 DEF DiskOpens, RunningKept, ToggleKept, Removes,
       SwitchesOn, At, Is, Becomes, Reaches, Ends, ToggleStands
  <2> QED
    BY <1>q, <2>2, <2>3, <2>4, <2>5, <2>6
<1>4. CASE KeepPasskey(p)
  <2>1. (KeepCapsule /\ Becomes(p, "save")) \/ (UNCHANGED capsule /\ Becomes(p, "unwrap"))
    BY <1>0, <1>4, Branches
  <2>2. /\ op[p].step = "keep"
        /\ UNCHANGED <<wrap, envelope, saved, settings, cipher, curtain>>
        /\ capsule' = capsule \/ KeepCapsule
    BY <1>0, <1>4, <2>1 DEF KeepPasskey
  <2>3. DiskOpens'
    BY <1>0, <1>s, <1>k, <1>o, <2>2 DEF DiskOpens, RunningKept, ToggleKept, Removes, Resets,
       Marks, At, Is, ToggleStands
  <2>4. RunningKept'
    BY <1>0, <1>s, <1>k, <1>o, <2>1, <2>2 DEF DiskOpens, RunningKept, ToggleKept, Removes,
       SwitchesOn,
       Resets, Marks, At, Is, Becomes, Reaches, Ends, ToggleStands
  <2>5. CurtainKept'
    BY <1>0, <1>s, <1>k, <1>o, <2>1, <2>2 DEF CurtainKept, RunningKept, ToggleKept, Removes, At,
       Is, Alike, Becomes, Reaches, Ends
  <2>6. ToggleKept(p)'
    BY <1>0, <1>s, <1>k, <1>o, <2>1, <2>2 DEF DiskOpens, RunningKept, ToggleKept, Removes,
       SwitchesOn, At, Is, Becomes, Reaches, Ends, ToggleStands
  <2> QED
    BY <1>q, <2>2, <2>3, <2>4, <2>5, <2>6
<1>5. CASE Unwrap(p)
  <2>1. Becomes(p, "revert")
    BY <1>0, <1>5, Moves
  <2>2. /\ op[p].step = "unwrap"
        /\ UNCHANGED <<envelope, saved, settings, cipher, curtain, capsule>>
        /\ wrap' = FALSE
    BY <1>0, <1>5 DEF Unwrap
  <2>3. DiskOpens'
    BY <1>0, <1>s, <1>k, <1>o, <2>2 DEF DiskOpens, RunningKept, ToggleKept, Removes, Resets,
       Marks, At, Is, ToggleStands
  <2>4. RunningKept'
    BY <1>0, <1>s, <1>k, <1>o, <2>1, <2>2 DEF DiskOpens, RunningKept, ToggleKept, Removes,
       SwitchesOn,
       Resets, Marks, At, Is, Becomes, Reaches, Ends, ToggleStands
  <2>5. CurtainKept'
    BY <1>0, <1>s, <1>k, <1>o, <2>1, <2>2 DEF CurtainKept, RunningKept, ToggleKept, Removes, At,
       Is, Alike, Becomes, Reaches, Ends
  <2>6. ToggleKept(p)'
    BY <1>0, <1>s, <1>k, <1>o, <2>1, <2>2 DEF DiskOpens, RunningKept, ToggleKept, Removes,
       SwitchesOn, At, Is, Becomes, Reaches, Ends, ToggleStands
  <2> QED
    BY <1>q, <2>2, <2>3, <2>4, <2>5, <2>6
<1>6. CASE SaveToggle(p)
  <2>1. Ends(p)
    BY <1>0, <1>6, Moves
  <2>2. /\ op[p].step = "save"
        /\ UNCHANGED <<wrap, envelope, settings, cipher, curtain, capsule>>
        /\ saved' = settings
    BY <1>0, <1>6 DEF SaveToggle, SaveData
  <2>3. DiskOpens'
    BY <1>0, <1>s, <1>k, <1>o, <2>2 DEF DiskOpens, RunningKept, ToggleKept, Removes, Resets,
       Marks, At, Is, ToggleStands
  <2>4. RunningKept'
    BY <1>0, <1>s, <1>k, <1>o, <2>1, <2>2 DEF DiskOpens, RunningKept, ToggleKept, Removes,
       SwitchesOn,
       Resets, Marks, At, Is, Becomes, Reaches, Ends, ToggleStands
  <2>5. CurtainKept'
    BY <1>0, <1>s, <1>k, <1>o, <2>1, <2>2 DEF CurtainKept, RunningKept, ToggleKept, Removes, At,
       Is, Alike, Becomes, Reaches, Ends
  <2>6. ToggleKept(p)'
    BY <1>0, <1>s, <1>k, <1>o, <2>1, <2>2 DEF DiskOpens, RunningKept, ToggleKept, Removes,
       SwitchesOn, At, Is, Becomes, Reaches, Ends, ToggleStands
  <2> QED
    BY <1>q, <2>2, <2>3, <2>4, <2>5, <2>6
<1>7. CASE Revert(p)
  <2>1. Becomes(p, "revertWrap")
    BY <1>0, <1>7, Moves
  <2>2. /\ op[p].step = "revert"
        /\ UNCHANGED <<wrap, envelope, saved, cipher, curtain, capsule>>
        /\ settings'.enrolled = settings.enrolled /\ settings'.pepper = settings.pepper
        /\ settings'.require = op[p].was
    BY <1>0, <1>7 DEF Revert, Settings
  <2>3. DiskOpens'
    BY <1>0, <1>s, <1>k, <1>o, <2>2 DEF DiskOpens, RunningKept, ToggleKept, Removes, Resets,
       Marks, At, Is, ToggleStands
  <2>4. RunningKept'
    BY <1>0, <1>s, <1>k, <1>o, <2>1, <2>2 DEF DiskOpens, RunningKept, ToggleKept, Removes,
       SwitchesOn,
       Resets, Marks, At, Is, Becomes, Reaches, Ends, ToggleStands
  <2>5. CurtainKept'
    BY <1>0, <1>s, <1>k, <1>o, <2>1, <2>2 DEF CurtainKept, RunningKept, ToggleKept, Removes, At,
       Is, Alike, Becomes, Reaches, Ends
  <2>6. ToggleKept(p)'
    BY <1>0, <1>s, <1>k, <1>o, <2>1, <2>2 DEF DiskOpens, RunningKept, ToggleKept, Removes,
       SwitchesOn, At, Is, Becomes, Reaches, Ends, ToggleStands
  <2> QED
    BY <1>q, <2>2, <2>3, <2>4, <2>5, <2>6
<1>8. CASE RevertWrap(p)
  <2>1. Becomes(p, "revertSave")
    BY <1>0, <1>8, Moves
  <2>2. /\ op[p].step = "revertWrap"
        /\ UNCHANGED <<envelope, saved, settings, cipher, curtain, capsule>>
        /\ IF op[p].was THEN wrap' = FALSE ELSE wrap' = wrap \/ wrap' = TRUE
    BY <1>0, <1>8 DEF RevertWrap
  <2>3. DiskOpens'
    BY <1>0, <1>s, <1>k, <1>o, <2>2 DEF DiskOpens, RunningKept, ToggleKept, Removes, Resets,
       Marks, At, Is, ToggleStands
  <2>4. RunningKept'
    BY <1>0, <1>s, <1>k, <1>o, <2>1, <2>2 DEF DiskOpens, RunningKept, ToggleKept, Removes,
       SwitchesOn,
       Resets, Marks, At, Is, Becomes, Reaches, Ends, ToggleStands
  <2>5. CurtainKept'
    BY <1>0, <1>s, <1>k, <1>o, <2>1, <2>2 DEF CurtainKept, RunningKept, ToggleKept, Removes, At,
       Is, Alike, Becomes, Reaches, Ends
  <2>6. ToggleKept(p)'
    BY <1>0, <1>s, <1>k, <1>o, <2>1, <2>2 DEF DiskOpens, RunningKept, ToggleKept, Removes,
       SwitchesOn, At, Is, Becomes, Reaches, Ends, ToggleStands
  <2> QED
    BY <1>q, <2>2, <2>3, <2>4, <2>5, <2>6
<1>9. CASE SaveReverted(p)
  <2>1. Becomes(p, "recapture")
    BY <1>0, <1>9, Moves
  <2>2. /\ op[p].step = "revertSave"
        /\ UNCHANGED <<wrap, envelope, settings, cipher, curtain, capsule>>
        /\ saved' = settings
    BY <1>0, <1>9 DEF SaveReverted, SaveData
  <2>3. DiskOpens'
    BY <1>0, <1>s, <1>k, <1>o, <2>2 DEF DiskOpens, RunningKept, ToggleKept, Removes, Resets,
       Marks, At, Is, ToggleStands
  <2>4. RunningKept'
    BY <1>0, <1>s, <1>k, <1>o, <2>1, <2>2 DEF DiskOpens, RunningKept, ToggleKept, Removes,
       SwitchesOn,
       Resets, Marks, At, Is, Becomes, Reaches, Ends, ToggleStands
  <2>5. CurtainKept'
    BY <1>0, <1>s, <1>k, <1>o, <2>1, <2>2 DEF CurtainKept, RunningKept, ToggleKept, Removes, At,
       Is, Alike, Becomes, Reaches, Ends
  <2>6. ToggleKept(p)'
    BY <1>0, <1>s, <1>k, <1>o, <2>1, <2>2 DEF DiskOpens, RunningKept, ToggleKept, Removes,
       SwitchesOn, At, Is, Becomes, Reaches, Ends, ToggleStands
  <2> QED
    BY <1>q, <2>2, <2>3, <2>4, <2>5, <2>6
<1>10. CASE KeepPinOnly(p)
  <2>1. (KeepCapsule /\ Becomes(p, "clear")) \/ (UNCHANGED capsule /\ NotClearedMoves(p))
    BY <1>0, <1>10, Branches
  <2>2. /\ op[p].step = "capsule"
        /\ UNCHANGED <<wrap, envelope, saved, settings, cipher, curtain>>
        /\ capsule' = capsule \/ KeepCapsule
    BY <1>0, <1>10, <2>1 DEF KeepPinOnly, NotClearedMoves, ClearedMoves
  <2>3. DiskOpens'
    BY <1>0, <1>s, <1>k, <1>o, <2>2 DEF DiskOpens, RunningKept, ToggleKept, Removes, Resets,
       Marks, At, Is, ToggleStands
  <2>4. RunningKept'
    BY <1>0, <1>s, <1>k, <1>o, <2>1, <2>2 DEF DiskOpens, RunningKept, ToggleKept, Removes,
       SwitchesOn,
       Resets, Marks, At, Is, Becomes, Reaches, Ends, NotClearedMoves, ClearedMoves,
       ToggleStands
  <2>5. CurtainKept'
    BY <1>0, <1>s, <1>k, <1>o, <2>1, <2>2 DEF CurtainKept, RunningKept, ToggleKept, Removes, At,
       Is, Alike, Becomes, Reaches, Ends, NotClearedMoves, ClearedMoves
  <2>e. ASSUME KeepCapsule, op[p].flag PROVE envelope # Nil
    <3>1. settings.require
      BY <1>0, <2>2, <2>e DEF ToggleStands
    <3> QED
      BY <1>k, <1>s, <2>e, <3>1, CapsuleFollows, CaptureKept DEF CapsuleKept
  <2>6. ToggleKept(p)'
    BY <1>0, <1>s, <1>k, <1>o, <2>1, <2>2, <2>e DEF DiskOpens, RunningKept, ToggleKept, Removes,
       SwitchesOn, At, Is, Becomes, Reaches, Ends, NotClearedMoves, ClearedMoves, ToggleStands
  <2> QED
    BY <1>q, <2>2, <2>3, <2>4, <2>5, <2>6
<1>11. CASE ClearWrap(p)
  <2>1. \/ wrap' = FALSE /\ Crossing(p) /\ ClearedMoves(p)
        \/ UNCHANGED <<wrap, posture, crossed>> /\ NotClearedMoves(p)
    BY <1>0, <1>11, Branches
  <2>2. /\ op[p].step = "clear"
        /\ UNCHANGED <<envelope, saved, settings, cipher, curtain, capsule>>
        /\ wrap' \in {FALSE, wrap}
    BY <1>0, <1>11, <2>1 DEF ClearWrap, NotClearedMoves, ClearedMoves
  <2>3. DiskOpens'
    BY <1>0, <1>s, <1>k, <1>o, <2>2 DEF DiskOpens, RunningKept, ToggleKept, Removes, Resets,
       Marks, At, Is, ToggleStands
  <2>4. RunningKept'
    BY <1>0, <1>s, <1>k, <1>o, <2>1, <2>2 DEF DiskOpens, RunningKept, ToggleKept, Removes,
       SwitchesOn,
       Resets, Marks, At, Is, Becomes, Reaches, Ends, NotClearedMoves, ClearedMoves,
       ToggleStands
  <2>5. CurtainKept'
    BY <1>0, <1>s, <1>k, <1>o, <2>1, <2>2 DEF CurtainKept, RunningKept, ToggleKept, Removes, At,
       Is, Alike, Becomes, Reaches, Ends, NotClearedMoves, ClearedMoves
  <2>6. ToggleKept(p)'
    BY <1>0, <1>s, <1>k, <1>o, <2>1, <2>2 DEF DiskOpens, RunningKept, ToggleKept, Removes,
       SwitchesOn, At, Is, Becomes, Reaches, Ends, NotClearedMoves, ClearedMoves, ToggleStands
  <2> QED
    BY <1>q, <2>2, <2>3, <2>4, <2>5, <2>6
<1>12. CASE Recapture(p)
  <2>1. Ends(p)
    BY <1>0, <1>12, Moves
  <2>2. /\ op[p].step = "recapture"
        /\ UNCHANGED <<wrap, envelope, saved, settings, cipher, curtain>>
        /\ capsule' = capsule \/ KeepCapsule
    BY <1>0, <1>12 DEF Recapture, TryCapsule
  <2>3. DiskOpens'
    BY <1>0, <1>s, <1>k, <1>o, <2>2 DEF DiskOpens, RunningKept, ToggleKept, Removes, Resets,
       Marks, At, Is, ToggleStands
  <2>4. RunningKept'
    BY <1>0, <1>s, <1>k, <1>o, <2>1, <2>2 DEF DiskOpens, RunningKept, ToggleKept, Removes,
       SwitchesOn,
       Resets, Marks, At, Is, Becomes, Reaches, Ends, ToggleStands
  <2>5. CurtainKept'
    BY <1>0, <1>s, <1>k, <1>o, <2>1, <2>2 DEF CurtainKept, RunningKept, ToggleKept, Removes, At,
       Is, Alike, Becomes, Reaches, Ends
  <2>6. ToggleKept(p)'
    BY <1>0, <1>s, <1>k, <1>o, <2>1, <2>2 DEF DiskOpens, RunningKept, ToggleKept, Removes,
       SwitchesOn, At, Is, Becomes, Reaches, Ends, ToggleStands
  <2> QED
    BY <1>q, <2>2, <2>3, <2>4, <2>5, <2>6
<1>13. CheckReady(p) \/ RecordOnly(p) \/ RestoreWrap(p) \/ KeepPasskey(p) \/ Unwrap(p)
      \/ SaveToggle(p) \/ Revert(p) \/ RevertWrap(p) \/ SaveReverted(p) \/ KeepPinOnly(p)
      \/ ClearWrap(p) \/ Recapture(p)
  BY <1>0 DEF Enrolling, Toggling, Unlocking, Disabling, ToggleSteps, DrawPepper, WriteEnvelope,
     MarkEnrolled, SaveEnrolled, ReadEnvelope, Derive, Decide, SaveFailure, AnswerFailure,
     SaveSuccess, Adopt, Rewrap, ClearEnvelope, ClearPepper, MarkDisabled, SaveDisabled,
     Migrate, Lift, Logout
<1> QED
  BY <1>1, <1>2, <1>3, <1>4, <1>5, <1>6, <1>7, <1>8, <1>9, <1>10, <1>11, <1>12, <1>13

\* The disabling of a PIN.
LEMMA DisableKey ==
  ASSUME PinInv, OrderInv, KeyParts, ~forgotten, ~crossed, ~crossed',
         NEW p \in Tabs, Is(p, "disable"),
         \/ Enrolling(p) \/ Toggling(p) \/ Unlocking(p) \/ Disabling(p)
         \/ KeepPinOnly(p) \/ ClearWrap(p) \/ Recapture(p)
  PROVE  KeyParts'
<1>0. /\ p \in Party /\ op[p] # Nil /\ op[p].step \in DisableSteps /\ op[p].kind = "disable"
      /\ ~Is(p, "enroll") /\ ~Is(p, "toggle") /\ ~Is(p, "unlock") /\ ~Is(p, "forgot")
      /\ settings \in Settings /\ wrap \in BOOLEAN /\ envelope \in Envelope
      /\ ToggleStands(p) /\ (op["curtain"] # Nil => curtain) /\ p # "curtain"
  BY Apart, PartsHold DEF OrderInv, OpsInPlace, InPlace, LiveTyped, KeptTyped, Alone, Is
<1>s. /\ Others(p) /\ phase = "running" /\ phase' = "running"
      /\ op'[p] # Nil => op'[p].kind = "disable"
  BY <1>0, StepShape, Runs
<1>o. /\ Removing <=> Removes(p)
      /\ SwitchingOn <=> SwitchesOn(p)
      /\ Resetting <=> Resets(p)
      /\ Marking <=> Marks(p)
      /\ Removing' <=> Removes(p)'
      /\ SwitchingOn' <=> SwitchesOn(p)'
      /\ Resetting' <=> Resets(p)'
      /\ Marking' <=> Marks(p)'
      /\ Alike("curtain")
  BY <1>0, <1>s, OnlyTab
<1>k. DiskOpens /\ RunningKept /\ CurtainKept /\ DisableKept(p)
  BY DEF KeyParts, TabKept
<1>q. ASSUME capsule' = capsule \/ KeepCapsule,
             DiskOpens', RunningKept', CurtainKept', DisableKept(p)'
      PROVE  KeyParts'
  <2>1. TabKept(p)'
    BY <1>s, <1>q DEF TabKept, EnrollKept, ToggleKept, DisableKept, Is
  <2> QED
    BY <1>0, <1>s, <1>q, <2>1, TabKey
<1> USE DEF StepIs, onDisk, memory, past, pinHistory
<1>1. CASE ReadEnvelope(p)
  <2>1. Reaches(p, IF envelope = Nil THEN "decide" ELSE "derive") /\ op'[p].envelope = envelope
    BY <1>0, <1>1, Turns
  <2>2. /\ op[p].step = "read"
        /\ UNCHANGED <<wrap, envelope, saved, settings, cipher, curtain, capsule>>
    BY <1>0, <1>1 DEF ReadEnvelope
  <2>3. DiskOpens'
    BY <1>0, <1>s, <1>k, <1>o, <2>2 DEF DiskOpens, RunningKept, DisableKept, Removes, Resets,
       Marks, At, Is
  <2>4. RunningKept'
    BY <1>0, <1>s, <1>k, <1>o, <2>1, <2>2 DEF DiskOpens, RunningKept, DisableKept, Removes,
       SwitchesOn,
       Resets, Marks, At, Is, Becomes, Reaches, Ends
  <2>5. CurtainKept'
    BY <1>0, <1>s, <1>k, <1>o, <2>1, <2>2 DEF CurtainKept, RunningKept, DisableKept, Removes,
       At, Is, Alike, Becomes, Reaches, Ends
  <2>6. DisableKept(p)'
    BY <1>0, <1>s, <1>k, <1>o, <2>1, <2>2 DEF DiskOpens, RunningKept, DisableKept, Removes,
       SwitchesOn, At, Is, Becomes, Reaches, Ends
  <2> QED
    BY <1>q, <2>2, <2>3, <2>4, <2>5, <2>6
<1>2. CASE Derive(p)
  <2>1. /\ Reaches(p, "decide") /\ op'[p].envelope = op[p].envelope
        /\ op'[p].pepper = settings'.pepper
    BY <1>0, <1>2, Turns
  <2>p. peppers \in Nat /\ peppers + 1 # 0
    BY PartsHold DEF LiveTyped, Pepper
  <2>2. /\ op[p].step = "derive"
        /\ UNCHANGED <<wrap, envelope, cipher, curtain, capsule>>
        /\ settings'.enrolled = settings.enrolled /\ settings'.require = settings.require
        /\ \/ settings'.pepper = settings.pepper /\ settings.pepper # 0 /\ saved' = saved
           \/ settings.pepper = 0 /\ settings'.pepper # 0 /\ saved' = settings'
    BY <1>0, <1>2, <2>p DEF Derive, ReadPepper, Settings
  <2>3. DiskOpens'
    BY <1>0, <1>s, <1>k, <1>o, <2>2 DEF DiskOpens, RunningKept, DisableKept, Removes, Resets,
       Marks, At, Is
  <2>4. RunningKept'
    BY <1>0, <1>s, <1>k, <1>o, <2>1, <2>2 DEF DiskOpens, RunningKept, DisableKept, Removes,
       SwitchesOn,
       Resets, Marks, At, Is, Becomes, Reaches, Ends
  <2>5. CurtainKept'
    BY <1>0, <1>s, <1>k, <1>o, <2>1, <2>2 DEF CurtainKept, RunningKept, DisableKept, Removes,
       At, Is, Alike, Becomes, Reaches, Ends
  <2>6. DisableKept(p)'
    BY <1>0, <1>s, <1>k, <1>o, <2>1, <2>2 DEF DiskOpens, RunningKept, DisableKept, Removes,
       SwitchesOn, At, Is, Becomes, Reaches, Ends
  <2> QED
    BY <1>q, <2>2, <2>3, <2>4, <2>5, <2>6
<1>3. CASE Decide(p)
  <2>0. op[p].step = "decide" /\ settings.enrolled = TRUE
    BY <1>0, <1>k, <1>3 DEF Decide, DisableKept, At, Settings
  <2>1. /\ (Reaches(p, "opened") \/ Reaches(p, "failed")) /\ op'[p].envelope = op[p].envelope
        /\ op'[p].step = "opened" => op[p].envelope # Nil
        /\ settings'.enrolled = settings.enrolled /\ settings'.pepper = settings.pepper
        /\ settings'.require = settings.require
    <3>1. CASE Opens(op[p]) /\ Becomes(p, "opened") /\ ResetTo(TRUE)
      BY <1>0, <2>0, <3>1 DEF Becomes, Reaches, ResetTo, Settings, Opens
    <3>2. CASE /\ Reaches(p, "failed") /\ op'[p].envelope = op[p].envelope
               /\ settings'.enrolled = settings.enrolled /\ settings'.pepper = settings.pepper
               /\ settings'.require = settings.require
      BY <3>2 DEF Reaches
    <3> QED
      BY <1>0, <1>3, <3>1, <3>2, Turns
  <2>2. /\ op[p].step = "decide"
        /\ UNCHANGED <<wrap, envelope, saved, cipher, curtain, capsule>>
        /\ settings'.enrolled = settings.enrolled /\ settings'.pepper = settings.pepper
        /\ settings'.require = settings.require
    BY <1>0, <1>3, <2>1 DEF Decide
  <2>3. DiskOpens'
    BY <1>0, <1>s, <1>k, <1>o, <2>2 DEF DiskOpens, RunningKept, DisableKept, Removes, Resets,
       Marks, At, Is
  <2>4. RunningKept'
    BY <1>0, <1>s, <1>k, <1>o, <2>1, <2>2 DEF DiskOpens, RunningKept, DisableKept, Removes,
       SwitchesOn,
       Resets, Marks, At, Is, Becomes, Reaches, Ends
  <2>5. CurtainKept'
    BY <1>0, <1>s, <1>k, <1>o, <2>1, <2>2 DEF CurtainKept, RunningKept, DisableKept, Removes,
       At, Is, Alike, Becomes, Reaches, Ends
  <2>6. DisableKept(p)'
    BY <1>0, <1>s, <1>k, <1>o, <2>1, <2>2 DEF DiskOpens, RunningKept, DisableKept, Removes,
       SwitchesOn, At, Is, Becomes, Reaches, Ends
  <2> QED
    BY <1>q, <2>2, <2>3, <2>4, <2>5, <2>6
<1>4. CASE SaveFailure(p)
  <2>1. Becomes(p, "answer")
    BY <1>0, <1>4, Moves
  <2>2. /\ op[p].step = "failed"
        /\ UNCHANGED <<wrap, envelope, settings, cipher, curtain, capsule>>
        /\ saved' = settings
    BY <1>0, <1>4 DEF SaveFailure, SaveData
  <2>3. DiskOpens'
    BY <1>0, <1>s, <1>k, <1>o, <2>2 DEF DiskOpens, RunningKept, DisableKept, Removes, Resets,
       Marks, At, Is
  <2>4. RunningKept'
    BY <1>0, <1>s, <1>k, <1>o, <2>1, <2>2 DEF DiskOpens, RunningKept, DisableKept, Removes,
       SwitchesOn,
       Resets, Marks, At, Is, Becomes, Reaches, Ends
  <2>5. CurtainKept'
    BY <1>0, <1>s, <1>k, <1>o, <2>1, <2>2 DEF CurtainKept, RunningKept, DisableKept, Removes,
       At, Is, Alike, Becomes, Reaches, Ends
  <2>6. DisableKept(p)'
    BY <1>0, <1>s, <1>k, <1>o, <2>1, <2>2 DEF DiskOpens, RunningKept, DisableKept, Removes,
       SwitchesOn, At, Is, Becomes, Reaches, Ends
  <2> QED
    BY <1>q, <2>2, <2>3, <2>4, <2>5, <2>6
<1>5. CASE AnswerFailure(p)
  <2>1. Ends(p)
    BY <1>0, <1>5, Moves
  <2>c. curtain \in BOOLEAN
    BY PartsHold DEF LiveTyped
  <2>2. /\ op[p].step = "answer"
        /\ UNCHANGED <<wrap, envelope, saved, settings, cipher, curtain, capsule>>
    BY <1>0, <1>5, <2>c DEF AnswerFailure
  <2>3. DiskOpens'
    BY <1>0, <1>s, <1>k, <1>o, <2>2 DEF DiskOpens, RunningKept, DisableKept, Removes, Resets,
       Marks, At, Is
  <2>4. RunningKept'
    BY <1>0, <1>s, <1>k, <1>o, <2>1, <2>2 DEF DiskOpens, RunningKept, DisableKept, Removes,
       SwitchesOn,
       Resets, Marks, At, Is, Becomes, Reaches, Ends
  <2>5. CurtainKept'
    BY <1>0, <1>s, <1>k, <1>o, <2>1, <2>2 DEF CurtainKept, RunningKept, DisableKept, Removes,
       At, Is, Alike, Becomes, Reaches, Ends
  <2>6. DisableKept(p)'
    BY <1>0, <1>s, <1>k, <1>o, <2>1, <2>2 DEF DiskOpens, RunningKept, DisableKept, Removes,
       SwitchesOn, At, Is, Becomes, Reaches, Ends
  <2> QED
    BY <1>q, <2>2, <2>3, <2>4, <2>5, <2>6
<1>6. CASE SaveSuccess(p)
  <2>1. Becomes(p, "adopt")
    BY <1>0, <1>6, Moves
  <2>2. /\ op[p].step = "opened"
        /\ UNCHANGED <<wrap, envelope, settings, cipher, curtain, capsule>>
        /\ saved' = settings
    BY <1>0, <1>6 DEF SaveSuccess, SaveData
  <2>3. DiskOpens'
    BY <1>0, <1>s, <1>k, <1>o, <2>2 DEF DiskOpens, RunningKept, DisableKept, Removes, Resets,
       Marks, At, Is
  <2>4. RunningKept'
    BY <1>0, <1>s, <1>k, <1>o, <2>1, <2>2 DEF DiskOpens, RunningKept, DisableKept, Removes,
       SwitchesOn,
       Resets, Marks, At, Is, Becomes, Reaches, Ends
  <2>5. CurtainKept'
    BY <1>0, <1>s, <1>k, <1>o, <2>1, <2>2 DEF CurtainKept, RunningKept, DisableKept, Removes,
       At, Is, Alike, Becomes, Reaches, Ends
  <2>6. DisableKept(p)'
    BY <1>0, <1>s, <1>k, <1>o, <2>1, <2>2 DEF DiskOpens, RunningKept, DisableKept, Removes,
       SwitchesOn, At, Is, Becomes, Reaches, Ends
  <2> QED
    BY <1>q, <2>2, <2>3, <2>4, <2>5, <2>6
<1>7. CASE Adopt(p)
  <2>1. Becomes(p, IF Is(p, "disable") THEN "rewrap"
                   ELSE IF settings.require THEN "capsule" ELSE "migrate")
    BY <1>0, <1>7, Branches
  <2>2. /\ op[p].step = "adopt"
        /\ UNCHANGED <<wrap, envelope, saved, settings, curtain, capsule>>
        /\ cipher' = "ready"
    BY <1>0, <1>7 DEF Adopt
  <2>3. DiskOpens'
    BY <1>0, <1>s, <1>k, <1>o, <2>2 DEF DiskOpens, RunningKept, DisableKept, Removes, Resets,
       Marks, At, Is
  <2>4. RunningKept'
    BY <1>0, <1>s, <1>k, <1>o, <2>1, <2>2 DEF DiskOpens, RunningKept, DisableKept, Removes,
       SwitchesOn,
       Resets, Marks, At, Is, Becomes, Reaches, Ends
  <2>5. CurtainKept'
    BY <1>0, <1>s, <1>k, <1>o, <2>1, <2>2 DEF CurtainKept, RunningKept, DisableKept, Removes,
       At, Is, Alike, Becomes, Reaches, Ends
  <2>6. DisableKept(p)'
    BY <1>0, <1>s, <1>k, <1>o, <2>1, <2>2 DEF DiskOpens, RunningKept, DisableKept, Removes,
       SwitchesOn, At, Is, Becomes, Reaches, Ends
  <2> QED
    BY <1>q, <2>2, <2>3, <2>4, <2>5, <2>6
<1>8. CASE Rewrap(p)
  <2>1. \/ cipher = "ready" /\ wrap' = TRUE /\ Becomes(p, "clearEnvelope")
        \/ UNCHANGED wrap /\ Ends(p)
    BY <1>0, <1>8, Branches
  <2>2. /\ op[p].step = "rewrap"
        /\ UNCHANGED <<envelope, saved, settings, cipher, curtain, capsule>>
        /\ wrap' = wrap \/ wrap' = TRUE
    BY <1>0, <1>8, <2>1 DEF Rewrap
  <2>3. DiskOpens'
    BY <1>0, <1>s, <1>k, <1>o, <2>2 DEF DiskOpens, RunningKept, DisableKept, Removes, Resets,
       Marks, At, Is
  <2>4. RunningKept'
    BY <1>0, <1>s, <1>k, <1>o, <2>1, <2>2 DEF DiskOpens, RunningKept, DisableKept, Removes,
       SwitchesOn,
       Resets, Marks, At, Is, Becomes, Reaches, Ends
  <2>5. CurtainKept'
    BY <1>0, <1>s, <1>k, <1>o, <2>1, <2>2 DEF CurtainKept, RunningKept, DisableKept, Removes,
       At, Is, Alike, Becomes, Reaches, Ends
  <2>6. DisableKept(p)'
    BY <1>0, <1>s, <1>k, <1>o, <2>1, <2>2 DEF DiskOpens, RunningKept, DisableKept, Removes,
       SwitchesOn, At, Is, Becomes, Reaches, Ends
  <2> QED
    BY <1>q, <2>2, <2>3, <2>4, <2>5, <2>6
<1>9. CASE ClearEnvelope(p)
  <2>1. Becomes(p, "clearPepper")
    BY <1>0, <1>9, Moves
  <2>2. /\ op[p].step = "clearEnvelope"
        /\ UNCHANGED <<wrap, saved, settings, cipher, curtain, capsule>>
        /\ envelope' = Nil
    BY <1>0, <1>9 DEF ClearEnvelope
  <2>3. DiskOpens'
    BY <1>0, <1>s, <1>k, <1>o, <2>2 DEF DiskOpens, RunningKept, DisableKept, Removes, Resets,
       Marks, At, Is
  <2>4. RunningKept'
    BY <1>0, <1>s, <1>k, <1>o, <2>1, <2>2 DEF DiskOpens, RunningKept, DisableKept, Removes,
       SwitchesOn,
       Resets, Marks, At, Is, Becomes, Reaches, Ends
  <2>5. CurtainKept'
    BY <1>0, <1>s, <1>k, <1>o, <2>1, <2>2 DEF CurtainKept, RunningKept, DisableKept, Removes,
       At, Is, Alike, Becomes, Reaches, Ends
  <2>6. DisableKept(p)'
    BY <1>0, <1>s, <1>k, <1>o, <2>1, <2>2 DEF DiskOpens, RunningKept, DisableKept, Removes,
       SwitchesOn, At, Is, Becomes, Reaches, Ends
  <2> QED
    BY <1>q, <2>2, <2>3, <2>4, <2>5, <2>6
<1>10. CASE ClearPepper(p)
  <2>1. Becomes(p, "reset")
    BY <1>0, <1>10, Moves
  <2>2. /\ op[p].step = "clearPepper"
        /\ UNCHANGED <<wrap, envelope, cipher, curtain, capsule>>
        /\ saved' = settings'
        /\ settings'.enrolled = settings.enrolled /\ settings'.require = settings.require
        /\ settings'.pepper = 0
    BY <1>0, <1>10 DEF ClearPepper, Settings
  <2>3. DiskOpens'
    BY <1>0, <1>s, <1>k, <1>o, <2>2 DEF DiskOpens, RunningKept, DisableKept, Removes, Resets,
       Marks, At, Is
  <2>4. RunningKept'
    BY <1>0, <1>s, <1>k, <1>o, <2>1, <2>2 DEF DiskOpens, RunningKept, DisableKept, Removes,
       SwitchesOn,
       Resets, Marks, At, Is, Becomes, Reaches, Ends
  <2>5. CurtainKept'
    BY <1>0, <1>s, <1>k, <1>o, <2>1, <2>2 DEF CurtainKept, RunningKept, DisableKept, Removes,
       At, Is, Alike, Becomes, Reaches, Ends
  <2>6. DisableKept(p)'
    BY <1>0, <1>s, <1>k, <1>o, <2>1, <2>2 DEF DiskOpens, RunningKept, DisableKept, Removes,
       SwitchesOn, At, Is, Becomes, Reaches, Ends
  <2> QED
    BY <1>q, <2>2, <2>3, <2>4, <2>5, <2>6
<1>11. CASE MarkDisabled(p)
  <2>1. Becomes(p, "resetSave")
    BY <1>0, <1>11, Moves
  <2>2. /\ op[p].step = "reset"
        /\ UNCHANGED <<wrap, envelope, saved, cipher, curtain, capsule>>
        /\ settings'.enrolled = FALSE /\ settings'.require = settings.require
        /\ settings'.pepper = settings.pepper
    BY <1>0, <1>11 DEF MarkDisabled, ResetTo, Settings
  <2>3. DiskOpens'
    BY <1>0, <1>s, <1>k, <1>o, <2>2 DEF DiskOpens, RunningKept, DisableKept, Removes, Resets,
       Marks, At, Is
  <2>4. RunningKept'
    BY <1>0, <1>s, <1>k, <1>o, <2>1, <2>2 DEF DiskOpens, RunningKept, DisableKept, Removes,
       SwitchesOn,
       Resets, Marks, At, Is, Becomes, Reaches, Ends
  <2>5. CurtainKept'
    BY <1>0, <1>s, <1>k, <1>o, <2>1, <2>2 DEF CurtainKept, RunningKept, DisableKept, Removes,
       At, Is, Alike, Becomes, Reaches, Ends
  <2>6. DisableKept(p)'
    BY <1>0, <1>s, <1>k, <1>o, <2>1, <2>2 DEF DiskOpens, RunningKept, DisableKept, Removes,
       SwitchesOn, At, Is, Becomes, Reaches, Ends
  <2> QED
    BY <1>q, <2>2, <2>3, <2>4, <2>5, <2>6
<1>12. CASE SaveDisabled(p)
  <2>1. Becomes(p, IF Is(p, "forgot") THEN "logout" ELSE "recapture")
    BY <1>0, <1>12, Moves
  <2>2. /\ op[p].step = "resetSave"
        /\ UNCHANGED <<wrap, envelope, settings, cipher, curtain, capsule>>
        /\ saved' = settings
    BY <1>0, <1>12 DEF SaveDisabled, SaveData
  <2>3. DiskOpens'
    BY <1>0, <1>s, <1>k, <1>o, <2>2 DEF DiskOpens, RunningKept, DisableKept, Removes, Resets,
       Marks, At, Is
  <2>4. RunningKept'
    BY <1>0, <1>s, <1>k, <1>o, <2>1, <2>2 DEF DiskOpens, RunningKept, DisableKept, Removes,
       SwitchesOn,
       Resets, Marks, At, Is, Becomes, Reaches, Ends
  <2>5. CurtainKept'
    BY <1>0, <1>s, <1>k, <1>o, <2>1, <2>2 DEF CurtainKept, RunningKept, DisableKept, Removes,
       At, Is, Alike, Becomes, Reaches, Ends
  <2>6. DisableKept(p)'
    BY <1>0, <1>s, <1>k, <1>o, <2>1, <2>2 DEF DiskOpens, RunningKept, DisableKept, Removes,
       SwitchesOn, At, Is, Becomes, Reaches, Ends
  <2> QED
    BY <1>q, <2>2, <2>3, <2>4, <2>5, <2>6
<1>13. CASE Recapture(p)
  <2>1. Ends(p)
    BY <1>0, <1>13, Moves
  <2>2. /\ op[p].step = "recapture"
        /\ UNCHANGED <<wrap, envelope, saved, settings, cipher, curtain>>
        /\ capsule' = capsule \/ KeepCapsule
    BY <1>0, <1>13 DEF Recapture, TryCapsule
  <2>3. DiskOpens'
    BY <1>0, <1>s, <1>k, <1>o, <2>2 DEF DiskOpens, RunningKept, DisableKept, Removes, Resets,
       Marks, At, Is
  <2>4. RunningKept'
    BY <1>0, <1>s, <1>k, <1>o, <2>1, <2>2 DEF DiskOpens, RunningKept, DisableKept, Removes,
       SwitchesOn,
       Resets, Marks, At, Is, Becomes, Reaches, Ends
  <2>5. CurtainKept'
    BY <1>0, <1>s, <1>k, <1>o, <2>1, <2>2 DEF CurtainKept, RunningKept, DisableKept, Removes,
       At, Is, Alike, Becomes, Reaches, Ends
  <2>6. DisableKept(p)'
    BY <1>0, <1>s, <1>k, <1>o, <2>1, <2>2 DEF DiskOpens, RunningKept, DisableKept, Removes,
       SwitchesOn, At, Is, Becomes, Reaches, Ends
  <2> QED
    BY <1>q, <2>2, <2>3, <2>4, <2>5, <2>6
<1>14. ReadEnvelope(p) \/ Derive(p) \/ Decide(p) \/ SaveFailure(p) \/ AnswerFailure(p)
      \/ SaveSuccess(p) \/ Adopt(p) \/ Rewrap(p) \/ ClearEnvelope(p) \/ ClearPepper(p)
      \/ MarkDisabled(p) \/ SaveDisabled(p) \/ Recapture(p)
  BY <1>0 DEF Enrolling, Toggling, Unlocking, Disabling, DisableSteps, DrawPepper,
     WriteEnvelope, MarkEnrolled, SaveEnrolled, KeepPinOnly, ClearWrap, CheckReady, RecordOnly,
     RestoreWrap, KeepPasskey, Unwrap, SaveToggle, Revert, RevertWrap, SaveReverted, Migrate,
     Lift, Logout
<1> QED
  BY <1>1, <1>2, <1>3, <1>4, <1>5, <1>6, <1>7, <1>8, <1>9, <1>10, <1>11, <1>12, <1>13, <1>14

LEMMA StepsKey ==
  ASSUME PinInv, OrderInv, KeyInv, NEW p \in Party,
         \/ Enrolling(p) \/ Toggling(p) \/ Unlocking(p) \/ Disabling(p)
         \/ KeepPinOnly(p) \/ ClearWrap(p) \/ Recapture(p)
  PROVE  KeyInv'
<1>1. /\ op[p] # Nil /\ UNCHANGED forgotten /\ (crossed => crossed')
      /\ crossed \in BOOLEAN
  BY StepShape, PartsHold DEF PastTyped
<1>2. SUFFICES ASSUME ~forgotten, ~crossed, ~crossed', KeyParts PROVE KeyParts'
  BY <1>1 DEF KeyInv
<1>3. InPlace(p)
  BY <1>1 DEF OrderInv, OpsInPlace
<1>4. CASE p = "curtain"
  <2>1. Unlocking(p) \/ KeepPinOnly(p) \/ ClearWrap(p)
    BY <1>3, <1>4, Apart DEF InPlace, UnlockSteps, Enrolling, Toggling, Disabling, Recapture,
       DrawPepper, WriteEnvelope, MarkEnrolled, SaveEnrolled, CheckReady, RecordOnly,
       RestoreWrap,
       KeepPasskey, Unwrap, SaveToggle, Revert, RevertWrap, SaveReverted, Rewrap, ClearEnvelope,
       ClearPepper, MarkDisabled, SaveDisabled, Logout, Is, StepIs
  <2> QED
    BY <1>1, <1>2, <1>4, <2>1, CurtainHarmless, HarmlessKey
<1>5. CASE p = "forgot"
  BY <1>1, <1>2, <1>5 DEF OrderInv
<1>6. CASE p \in Tabs
  <2>1. Is(p, "enroll") \/ Is(p, "toggle") \/ Is(p, "disable")
    BY <1>1, <1>3, <1>6, Apart DEF InPlace, Is
  <2>2. CASE Is(p, "enroll")
    BY <1>2, <1>6, <2>2, EnrollKey
  <2>3. CASE Is(p, "toggle")
    BY <1>2, <1>6, <2>3, ToggleKey
  <2>4. CASE Is(p, "disable")
    BY <1>2, <1>6, <2>4, DisableKey
  <2> QED
    BY <2>1, <2>2, <2>3, <2>4
<1> QED
  BY <1>4, <1>5, <1>6, Apart

\* A request of the settings tab that overlaps no other.
LEMMA TabStartsKey ==
  ASSUME PinInv, OrderInv, KeyInv, NEW p \in Tabs, Tab(p)
  PROVE  KeyInv'
<1>1. \A q \in Tabs : q # p => q \in Party
  BY Apart
<1>2. ASSUME NEW kind, NEW step, Begun(p, kind, step), OpensTab(p), ~forgotten', ~crossed'
      PROVE  /\ ~forgotten /\ ~crossed /\ phase = "running" /\ op["curtain"] = Nil /\ ~curtain
             /\ op'["curtain"] = Nil
             /\ ~Removing /\ ~SwitchingOn /\ ~Resetting /\ ~Marking
             /\ \A q \in Tabs : q # p => op'[q] = Nil
             /\ op'[p] # Nil /\ op'[p].kind = kind /\ op'[p].step = step /\ op'[p].envelope = Nil
  <2>1. UNCHANGED forgotten /\ ~crossed /\ ~curtain /\ phase = "running"
    BY <1>2, OpeningNotes, PartsHold DEF PastTyped
  <2>2. ~Overlaps
    BY <1>2, OpeningNotes DEF Alone
  <2>3. \A q \in Tabs : op[q] = Nil
    BY <2>2 DEF Overlaps
  <2>4. op["curtain"] = Nil /\ op'["curtain"] = Nil /\ \A q \in Tabs : q # p => op'[q] = Nil
    BY <1>2, <2>1, <2>3, Apart DEF OrderInv, Begun, Others, Alike
  <2>5. ~Removing /\ ~SwitchingOn /\ ~Resetting /\ ~Marking
    BY <2>3 DEF Removing, SwitchingOn, Resetting, Marking, Removes, SwitchesOn, Resets, Marks,
       At, Is
  <2> QED
    BY <1>2, <2>1, <2>4, <2>5 DEF Begun
<1>3. ASSUME NEW kind, NEW step, Begun(p, kind, step), OpensTab(p), ~forgotten', ~crossed',
             UNCHANGED <<wrap, envelope, saved, capsule, phase, cipher>>,
             settings'.enrolled = settings.enrolled, settings'.pepper = settings.pepper,
             step \in {"pepper", "read", "check"},
             KeyParts =>
               /\ TabKept(p)'
               /\ (settings'.require => settings.require) \/ SwitchesOn(p)'
      PROVE  KeyParts'
  <2>1. KeyParts
    BY <1>2, <1>3 DEF KeyInv
  <2>2. DiskOpens' /\ CapsuleKept' /\ StoppedKept'
    BY <1>2, <1>3, <2>1 DEF KeyParts, DiskOpens, CapsuleKept, StoppedKept
  <2>3. ~Removing' /\ ~Resetting' /\ ~Marking' /\ (SwitchingOn' <=> SwitchesOn(p)')
    BY <1>2, <1>3 DEF Removing, SwitchingOn, Resetting, Marking, Removes, SwitchesOn, Resets,
       Marks, At, Is
  <2>4. RunningKept'
    BY <1>2, <1>3, <2>1, <2>3 DEF KeyParts, RunningKept
  <2>5. CurtainKept'
    BY <1>2, <1>3 DEF CurtainKept
  <2>6. ASSUME NEW q \in Tabs, q # p PROVE TabKept(q)'
    BY <1>2, <1>3, <2>6 DEF TabKept, EnrollKept, ToggleKept, DisableKept, Is
  <2> QED
    BY <1>3, <2>1, <2>2, <2>4, <2>5, <2>6 DEF KeyParts
<1> SUFFICES ASSUME ~forgotten', ~crossed' PROVE KeyParts'
  BY DEF KeyInv
<1> USE DEF onDisk, memory, past
<1>4. ASSUME NEW secret \in Secrets, StartEnroll(p, secret) PROVE KeyParts'
  <2>1. OpensTab(p) /\ Begun(p, "enroll", "pepper") /\ ~settings.enrolled
        /\ UNCHANGED <<wrap, envelope, saved, capsule, phase, cipher, settings, curtain>>
    BY <1>4, Begins DEF StartEnroll
  <2>2. /\ ~curtain /\ ~Resetting /\ phase = "running"
        /\ op'[p] # Nil /\ op'[p].kind = "enroll" /\ op'[p].step = "pepper"
    BY <2>1, <1>2
  <2>3. ASSUME KeyParts PROVE TabKept(p)'
    <3>1. ~saved.enrolled
      BY <2>1, <2>2, <2>3 DEF KeyParts, RunningKept
    <3> QED
      BY <2>1, <2>2, <3>1 DEF TabKept, EnrollKept, ToggleKept, DisableKept, At, Is
  <2> QED
    BY <2>1, <2>3, <1>3
<1>5. ASSUME NEW secret \in Secrets \union {Nil}, StartDisable(p, secret) PROVE KeyParts'
  <2>1. OpensTab(p) /\ Begun(p, "disable", "read") /\ settings.enrolled
        /\ UNCHANGED <<wrap, envelope, saved, capsule, phase, cipher, settings, curtain>>
    BY <1>5, Begins DEF StartDisable
  <2>2. op'[p] # Nil /\ op'[p].kind = "disable" /\ op'[p].step = "read" /\ op'[p].envelope = Nil
    BY <2>1, <1>2
  <2>3. TabKept(p)'
    BY <2>1, <2>2 DEF TabKept, EnrollKept, ToggleKept, DisableKept, At, Is
  <2> QED
    BY <2>1, <2>3, <1>3
<1>6. ASSUME NEW on \in BOOLEAN, StartToggle(p, on) PROVE KeyParts'
  <2>1. OpensTab(p) /\ Begun(p, "toggle", "check") /\ settings.enrolled /\ op'[p].flag = on
        /\ settings.require # on
        /\ UNCHANGED <<wrap, envelope, saved, capsule, phase, cipher>>
    BY <1>6, ToggleBegins DEF StartToggle
  <2>2. settings'.enrolled = settings.enrolled /\ settings'.pepper = settings.pepper
        /\ settings'.require = on /\ settings.require \in BOOLEAN
    BY <1>6, PartsHold DEF StartToggle, LiveTyped, Settings
  <2>3. /\ ~Removing /\ ~SwitchingOn /\ ~Marking /\ phase = "running"
        /\ op'[p] # Nil /\ op'[p].kind = "toggle" /\ op'[p].step = "check"
    BY <2>1, <1>2
  <2>4. ASSUME KeyParts PROVE TabKept(p)'
    <3>1. saved.enrolled
      BY <2>1, <2>3, <2>4 DEF KeyParts, RunningKept
    <3>2. ~on /\ envelope = Nil => cipher # "ready"
      BY <2>1, <2>2, <2>3, <2>4 DEF KeyParts, RunningKept
    <3> QED
      BY <2>1, <2>2, <2>3, <3>1, <3>2 DEF TabKept, EnrollKept, ToggleKept, DisableKept, At, Is
  <2>5. (settings'.require => settings.require) \/ SwitchesOn(p)'
    BY <2>1, <2>2, <2>3 DEF SwitchesOn, Is
  <2> QED
    BY <2>1, <2>2, <2>4, <2>5, <1>3
<1> QED
  BY <1>4, <1>5, <1>6 DEF Tab

\* The application starts: from its own envelopes, or from those of the capsule.
LEMMA LandKept ==
  ASSUME PinInv, CapsuleKept, NEW kept \in Settings, phase # "running", Land(kept), saved' = kept,
         envelope # Nil => envelope.pepper # 0,
         kept.enrolled /\ envelope # Nil => envelope.pepper = kept.pepper,
         wrap \/ (kept.enrolled /\ envelope # Nil)
  PROVE  KeyParts'
<1>1. /\ \A p \in Party : op'[p] = Nil
      /\ phase' = "running" /\ settings' = kept /\ saved' = kept
      /\ UNCHANGED <<wrap, envelope, capsule>>
  BY PartsHold DEF Land, OpsTyped
<1>2. kept.enrolled /\ kept.require => cipher' # "ready"
  BY DEF Land, LandsLocked
<1>3. DiskOpens' /\ CapsuleKept' /\ StoppedKept' /\ RunningKept'
  <2>1. ~Removing'
    BY <1>1, Apart DEF Removing, Removes, Is
  <2> QED
    BY <1>1, <1>2, <2>1 DEF DiskOpens, CapsuleKept, StoppedKept, RunningKept
<1> QED
  BY <1>1, <1>3, Apart DEF KeyParts, CurtainKept, TabKept, EnrollKept, ToggleKept, DisableKept,
     Is

LEMMA StartsKey ==
  ASSUME PinInv, KeyParts, Crash \/ Remove \/ Start \/ RestoreFiles \/ RestoreSettings
  PROVE  KeyParts'
<1> USE DEF onDisk, memory, past
<1>0. /\ capsule # Nil /\ saved \in Settings /\ wrap \in BOOLEAN
      /\ CapsuleKept /\ DiskOpens /\ StoppedKept
  BY PartsHold DEF KeyParts, CapsuleKept, KeptTyped
<1>1. ASSUME \A p \in Party : op'[p] = Nil, phase' # "running", UNCHANGED capsule, DiskOpens',
             StoppedKept'
      PROVE  KeyParts'
  <2>1. CapsuleKept' /\ RunningKept'
    BY <1>0, <1>1 DEF CapsuleKept, RunningKept
  <2> QED
    BY <1>1, <2>1, Apart DEF KeyParts, CurtainKept, TabKept, EnrollKept, ToggleKept,
       DisableKept, Is
<1>2. CASE Crash
  <2>1. /\ \A p \in Party : op'[p] = Nil
        /\ phase' = "off" /\ UNCHANGED <<wrap, envelope, saved, capsule>>
        /\ phase = "running" \/ phase = "restored"
    BY <1>2 DEF Crash, Ended
  <2>2. DiskOpens' /\ StoppedKept'
    BY <1>0, <2>1 DEF DiskOpens, StoppedKept, KeyParts, RunningKept
  <2> QED
    BY <2>1, <2>2, <1>1
<1>3. CASE Remove
  <2>1. /\ phase = "off" /\ UNCHANGED <<op, phase, capsule>>
        /\ wrap' = FALSE /\ envelope' = Nil /\ ~saved'.enrolled
    BY <1>3 DEF Remove, Defaults
  <2>2. DiskOpens' /\ StoppedKept'
    BY <2>1 DEF DiskOpens, StoppedKept
  <2> QED
    BY <2>1, <2>2, <1>1, PartsHold DEF OpsTyped
<1>4. CASE Start
  <2>1. phase = "off" /\ PluginEnvelope /\ Land(saved) /\ saved' = saved
    BY <1>0, <1>4 DEF Start
  <2> QED
    BY <1>0, <2>1, LandKept DEF PluginEnvelope, DiskOpens
<1>5. CASE RestoreFiles
  <2>1. /\ phase = "off" /\ ~wrap /\ (envelope = Nil \/ ~saved.enrolled)
        /\ phase' = "restored" /\ UNCHANGED <<op, saved, capsule>> /\ wrap' = capsule.wrap
        /\ envelope' = IF capsule.envelope = Nil THEN envelope ELSE capsule.envelope
    BY <1>5 DEF RestoreFiles, PluginEnvelope, pinHistory
  <2>2. ~saved.enrolled /\ envelope' = capsule.envelope
    BY <1>0, <2>1 DEF DiskOpens, StoppedKept
  <2>3. DiskOpens' /\ StoppedKept'
    BY <1>0, <2>1, <2>2 DEF DiskOpens, StoppedKept, CapsuleKept
  <2> QED
    BY <2>1, <2>3, <1>1, PartsHold DEF OpsTyped
<1>6. CASE RestoreSettings
  <2>1. /\ phase = "restored" /\ saved' = capsule.settings /\ Land(capsule.settings)
        /\ wrap = capsule.wrap /\ envelope = capsule.envelope
    BY <1>0, <1>6 DEF RestoreSettings, StoppedKept
  <2>2. capsule.settings \in Settings
    BY <1>0, PartsHold DEF KeptTyped, KeptState, Copies
  <2> QED
    BY <1>0, <2>1, <2>2, LandKept DEF CapsuleKept
<1> QED
  BY <1>2, <1>3, <1>4, <1>5, <1>6

LEMMA NextKey == PinInv /\ OrderInv /\ KeyInv /\ [PinNext]_pinVars => KeyInv'
<1> SUFFICES ASSUME PinInv, OrderInv, KeyInv, [PinNext]_pinVars PROVE KeyInv'
  OBVIOUS
<1> USE DEF onDisk, memory, past, pinHistory
<1>0. /\ settings \in Settings /\ "curtain" \in Party /\ \A p \in Tabs : p \in Party /\ p # "curtain"
      /\ ~forgotten => (op["curtain"] # Nil => curtain)
  BY PartsHold, Apart DEF LiveTyped, OrderInv
<1>1. ASSUME NEW p \in Tabs, Tab(p) PROVE KeyInv'
  BY <1>1, TabStartsKey
<1>2. ASSUME UNCHANGED <<forgotten, crossed>>, ~forgotten /\ KeyParts => Harmless PROVE KeyInv'
  BY <1>2, HarmlessKey DEF KeyInv
<1>3. ASSUME NEW secret \in Secrets \union {Nil}, StartUnlock(secret) PROVE KeyInv'
  <2>1. /\ phase = "running" /\ curtain /\ op["curtain"] = Nil
        /\ UNCHANGED <<wrap, envelope, saved, capsule, phase, settings, cipher, forgotten, crossed>>
    BY <1>3 DEF StartUnlock
  <2>2. CASE Begun("curtain", "unlock", "read")
    <3>1. TabsAlike
      BY <1>0, <2>2 DEF Begun, Others, TabsAlike
    <3>2. CurtainKept'
      BY <2>2 DEF Begun, CurtainKept, At
    <3> QED
      BY <1>2, <2>1, <3>1, <3>2 DEF Harmless
  <2>3. CASE UNCHANGED op
    <3>1. TabsAlike /\ CurtainKept'
      BY <2>1, <2>3 DEF TabsAlike, Alike, CurtainKept
    <3> QED
      BY <1>2, <2>1, <3>1 DEF Harmless
  <2> QED
    BY <1>3, <2>2, <2>3, Begins
<1>4. CASE StartForgot
  BY <1>4 DEF StartForgot, KeyInv
<1>5. ASSUME NEW p \in Party, \/ Enrolling(p) \/ Toggling(p) \/ Unlocking(p) \/ Disabling(p)
                              \/ KeepPinOnly(p) \/ ClearWrap(p) \/ Recapture(p)
      PROVE  KeyInv'
  BY <1>5, StepsKey
<1>6. CASE Lock \/ BackoffEnds \/ BackgroundSave \/ BackgroundCapsule
  <2>1. /\ UNCHANGED <<phase, op, forgotten, crossed, wrap, envelope>> /\ phase = "running"
        /\ cipher' = cipher \/ cipher' # "ready"
    BY <1>6 DEF Lock, BackoffEnds, BackgroundSave, BackgroundCapsule
  <2>2. /\ settings'.require = settings.require /\ settings'.enrolled = settings.enrolled
        /\ settings'.pepper = settings.pepper
        /\ saved' = saved \/ (saved' = settings /\ settings' = settings)
        /\ capsule' = capsule \/ KeepCapsule
        /\ curtain' = curtain \/ settings.enrolled
    BY <1>0, <1>6 DEF Lock, BackoffEnds, BackgroundSave, BackgroundCapsule, SaveData, Settings
  <2>3. TabsAlike
    BY <2>1 DEF TabsAlike, Alike
  <2>4. ASSUME CurtainKept PROVE CurtainKept'
    BY <2>1, <2>2, <2>3, <2>4, TabsStand DEF CurtainKept, At
  <2> QED
    BY <1>2, <2>1, <2>2, <2>3, <2>4 DEF Harmless, KeyParts
<1>7. CASE Crash \/ Remove \/ Start \/ RestoreFiles \/ RestoreSettings
  <2>1. UNCHANGED <<forgotten, crossed>>
    BY <1>7 DEF Crash, Remove, Start, RestoreFiles, RestoreSettings, Land
  <2> QED
    BY <1>7, <2>1, StartsKey DEF KeyInv
<1>8. CASE UNCHANGED pinVars
  <2>1. /\ TabsAlike /\ UNCHANGED <<wrap, envelope, saved, capsule, phase, settings, cipher, curtain,
                                   op, forgotten, crossed>>
    BY <1>8 DEF pinVars, TabsAlike, Alike
  <2>2. KeyParts => KeyParts'
    <3>1. /\ Removing' <=> Removing
          /\ SwitchingOn' <=> SwitchingOn
          /\ Resetting' <=> Resetting
          /\ Marking' <=> Marking
      BY <2>1, TabsStand
    <3> QED
      BY <2>1, <3>1 DEF KeyParts, DiskOpens, CapsuleKept, StoppedKept, RunningKept, CurtainKept,
         TabKept, EnrollKept, ToggleKept, DisableKept, At, Is
  <2> QED
    BY <2>1, <2>2 DEF KeyInv
<1> QED
  BY <1>1, <1>3, <1>4, <1>5, <1>6, <1>7, <1>8 DEF PinNext

\* The key can be had again after any restart, wherever the application ends and
\* whatever the settings tab and the curtain do in between: the keychain's envelope is
\* removed only beside an envelope that the PIN on disk opens, and what a restore of
\* the capsule brings back opens too.  (Not when the user gives the PIN up, nor when an
\* unlock undoes the disabling of the PIN or two operations of the settings tab overlap.)
THEOREM KeyHolds == PinSpec => []KeyIsKept
<1>1. PinInv /\ KeyInv => KeyIsKept
  <2> SUFFICES ASSUME PinInv, KeyParts
               PROVE  IF phase = "restored" \/ ~PluginEnvelope THEN CapsuleOpens
                      ELSE wrap \/ envelope.pepper = saved.pepper
    BY DEF KeyInv, KeyIsKept
  <2>1. CapsuleOpens
    BY DEF KeyParts, CapsuleKept, CapsuleOpens
  <2>2. PluginEnvelope => wrap \/ envelope.pepper = saved.pepper
    BY DEF KeyParts, DiskOpens, PluginEnvelope
  <2> QED
    BY <2>1, <2>2
<1> QED
  BY <1>1, InitPin, NextPin, InitOrder, NextOrder, InitKey, NextKey, PTL DEF PinSpec
================================================================================
