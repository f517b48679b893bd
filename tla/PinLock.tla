-------------------------------- MODULE PinLock --------------------------------
(***************************************************************************)
(* The PIN lock of one device: who can open the local at-rest key (LAK),   *)
(* and when.  The key is wrapped for the OS keychain in lak.envelope, and  *)
(* under a PIN and a pepper in lak-pin.envelope; data.json keeps the       *)
(* pepper, the count of failures and "Require PIN on startup"; a recovery  *)
(* capsule (RecoveryCapsule) keeps copies of it all.  The settings tab,    *)
(* the lock curtain and its "Log in again" run at the same time, each one  *)
(* await after the other, any save of the plugin's data writes what the    *)
(* settings are then, and the application may be killed between any two    *)
(* steps.  (pin-lock-manager.ts; main.ts: enrollPinLock,                   *)
(* setRequirePinOnStartup, disablePinLock, unlockWithPin, forgotPin,       *)
(* restoreLocalRecoveryBeforeCipherInit; at-rest-adapter-runtime.ts:       *)
(* initAtRestCipher.)                                                      *)
(*                                                                         *)
(* Abstracted: a PIN is a value of Secrets and a pepper a number; the      *)
(* vault holds ciphertext, so that no start makes a new key; the time of   *)
(* the back-off is a flag that lapses; a capsule is captured and kept in   *)
(* one step, or not at all.                                                *)
(***************************************************************************)
EXTENDS Naturals

CONSTANTS
  Secrets,       \* the PINs that are set; Nil stands for any other that is typed
  Tabs,          \* operations of the settings tab that may overlap
  MaxAttempts,   \* MAX_FAILED_ATTEMPTS
  MaxTries,      \* bound on the attempts to unlock
  MaxChanges,    \* bound on the operations of the settings tab
  MaxPeppers,    \* bound on the peppers drawn
  MaxCrashes,    \* bound on the times the application ends while it runs
  MaxRemovals,   \* bound on the removals of the plugin's folder
  Nil

ASSUME PinLockAssumption ==
  /\ {MaxAttempts, MaxTries, MaxChanges, MaxPeppers, MaxCrashes, MaxRemovals} \subseteq Nat
  /\ MaxAttempts > 0 /\ MaxPeppers > 0
  /\ Nil \notin Secrets /\ {"curtain", "forgot"} \intersect Tabs = {}

VARIABLES
  wrap,       \* lak.envelope is there
  envelope,   \* lak-pin.envelope
  saved,      \* data.json
  capsule,    \* what a restore of the recovery capsule would bring back
  phase,      \* "off", "restored" (the capsule's files are written) or "running"
  settings,   \* the settings in memory; PinLockManager.state is a part of them
  cipher,     \* AtRestCipher: "none", "ready", "locked" or "recovery"
  curtain,    \* isVaultLocked
  op,         \* the operation each party runs
  peppers,    \* peppers drawn so far
  told,       \* failures answered since the last reset of the count (history)
  forgotten,  \* the user gave the PIN up (history)
  dropped,    \* and that was carried out: no PIN was set since (history)
  crossed,    \* an unlock succeeded, or removed the wrapper, after disabling the PIN
              \* had put the wrapper back; or two operations of the settings tab
              \* overlapped (history)
  posture,    \* what the last change of the settings tab said; "mixed": it overlapped
              \* another one (history)
  tries, changes, crashes, removals

onDisk == <<wrap, envelope, saved, capsule>>
memory == <<settings, cipher, curtain>>
past == <<forgotten, crossed, dropped>>
pinHistory == <<told, past, posture>>
pinBounds == <<tries, changes, crashes, removals>>
pinVars == <<onDisk, phase, memory, op, peppers, pinHistory, pinBounds>>

Party == Tabs \union {"curtain", "forgot"}
Pepper == 0..MaxPeppers            \* 0: there is none
Settings == [enrolled : BOOLEAN, failures : Nat, held : BOOLEAN, pepper : Pepper,
             require : BOOLEAN]
SealedKey == [secret : Secrets, pepper : Pepper]
Envelope == SealedKey \union {Nil}
Copies == [settings : Settings, wrap : BOOLEAN, envelope : Envelope]
KeptState == Copies \union {Nil}
Kind == {"enroll", "toggle", "disable", "unlock", "forgot"}
Step == {"pepper", "envelope", "enrolled", "save", "capsule", "clear",         \* enroll
         "check", "record", "wrap", "keep", "unwrap",                          \* toggle
         "revert", "revertWrap", "revertSave",
         "read", "derive", "decide", "failed", "answer", "opened",             \* unlock
         "adopt", "migrate", "lift",
         "rewrap", "clearEnvelope", "clearPepper", "reset", "resetSave",       \* disable
         "recapture", "logout"}
PinOperation == [kind : Kind, step : Step, secret : Secrets \union {Nil}, pepper : Pepper,
              envelope : Envelope, was : BOOLEAN, flag : BOOLEAN, counts : BOOLEAN]

ASSUME NoRecordAssumption == Nil \notin SealedKey \union Copies \union PinOperation

Defaults == [enrolled |-> FALSE, failures |-> 0, held |-> FALSE, pepper |-> 0,
             require |-> FALSE]

\* Every variable has its type: no step of an operation runs after the
\* application has ended, and the count never leaves the tries made.
PinTypeOK ==
  /\ wrap \in BOOLEAN /\ envelope \in Envelope
  /\ saved \in Settings /\ settings \in Settings /\ capsule \in KeptState
  /\ phase \in {"off", "restored", "running"}
  /\ cipher \in {"none", "ready", "locked", "recovery"} /\ curtain \in BOOLEAN
  /\ op \in [Party -> PinOperation \union {Nil}]
  /\ phase # "running" => cipher = "none" /\ ~curtain /\ \A p \in Party : op[p] = Nil
  /\ phase = "restored" => capsule # Nil
  /\ peppers \in Pepper
  /\ told \in Nat /\ settings.failures <= tries /\ saved.failures <= tries
  /\ forgotten \in BOOLEAN /\ crossed \in BOOLEAN /\ dropped \in BOOLEAN
  /\ posture \in {"none", "mixed", "pin", "keychain"}
  /\ tries \in 0..MaxTries /\ changes \in 0..MaxChanges
  /\ crashes \in 0..MaxCrashes /\ removals \in 0..MaxRemovals

\* A device whose key is unlocked: with no PIN, with one beside the keychain, or
\* with the PIN alone.
PinInit ==
  /\ \/ wrap = TRUE /\ envelope = Nil /\ saved = Defaults /\ peppers = 0
     \/ \E secret \in Secrets, require \in BOOLEAN :
          /\ wrap = ~require
          /\ envelope = [secret |-> secret, pepper |-> 1] /\ peppers = 1
          /\ saved = [Defaults EXCEPT !.enrolled = TRUE, !.pepper = 1, !.require = require]
  /\ capsule = [settings |-> saved, wrap |-> wrap, envelope |-> envelope]
  /\ phase = "running" /\ settings = saved /\ cipher = "ready" /\ curtain = FALSE
  /\ op = [p \in Party |-> Nil]
  /\ told = 0 /\ forgotten = FALSE /\ crossed = FALSE /\ dropped = FALSE /\ posture = "none"
  /\ tries = 0 /\ changes = 0 /\ crashes = 0 /\ removals = 0

-------------------------------------------------------------------------------
(* Operations. *)

NewOp(kind, step, secret) ==
  [kind |-> kind, step |-> step, secret |-> secret, pepper |-> 0, envelope |-> Nil,
   was |-> settings.require, flag |-> FALSE, counts |-> TRUE]

StepIs(p, step) == op[p] # Nil /\ op[p].step = step
Is(p, kind) == op[p] # Nil /\ op[p].kind = kind

Goto(p, step) == op' = [op EXCEPT ![p].step = step]
Finish(p) == op' = [op EXCEPT ![p] = Nil]

\* Any save builds the plugin's data when it runs.
SaveData == saved' = settings

\* getOrCreatePepper, and the save of a pepper that was drawn.
ReadPepper ==
  IF settings.pepper # 0
  THEN UNCHANGED <<settings, saved, peppers>>
  ELSE /\ peppers < MaxPeppers
       /\ peppers' = peppers + 1
       /\ settings' = [settings EXCEPT !.pepper = peppers']
       /\ saved' = settings'

\* The count is reset: a failure still on its way is not told of the new count.
ResetTo(enrolled) ==
  /\ settings' = [settings EXCEPT !.enrolled = enrolled, !.failures = 0, !.held = FALSE]
  /\ told' = 0

Forgiven == [q \in Party |-> IF op[q] = Nil THEN Nil ELSE [op[q] EXCEPT !.counts = FALSE]]
GotoReset(p, step) == op' = [Forgiven EXCEPT ![p].step = step]

-------------------------------------------------------------------------------
(* persistLocalRecoveryCapsule. *)

\* A mutant: the transparent wrapper is copied whatever the posture is.
CapturedWithWrap == [settings |-> settings, wrap |-> wrap, envelope |-> envelope]

Captured ==
  [settings |-> settings, wrap |-> wrap /\ ~settings.require, envelope |-> envelope]

\* It is healthy, there is something to keep, and validateDeviceState takes it.
CanCapture ==
  /\ \/ cipher \in {"ready", "locked"}
     \/ cipher = "none" /\ settings.require /\ settings.enrolled
  /\ Captured.wrap \/ envelope # Nil
  /\ settings.require => settings.enrolled

KeepCapsule == CanCapture /\ capsule' = Captured

\* A caller that goes on whatever the answer is.
TryCapsule == KeepCapsule \/ UNCHANGED capsule

-------------------------------------------------------------------------------
(* The settings tab. *)

Overlaps == \E q \in Tabs : op[q] # Nil

OpensTab(p) ==
  /\ phase = "running" /\ ~curtain /\ op[p] = Nil
  /\ changes < MaxChanges /\ changes' = changes + 1
  /\ posture' = IF Overlaps THEN "mixed" ELSE "none"
  /\ crossed' = (crossed \/ Overlaps)
  /\ UNCHANGED <<forgotten, dropped>>

TabAnswers(said) == posture' = IF posture = "mixed" THEN "mixed" ELSE said

\* The dialogs that set and disable a PIN are modal.
NoDialog == \A q \in Tabs : op[q] # Nil => Is(q, "toggle")

\* enrollPinLock, with the key already exported.
StartEnroll(p, secret) ==
  /\ OpensTab(p) /\ NoDialog /\ ~settings.enrolled /\ cipher = "ready"
  /\ op' = [op EXCEPT ![p] = NewOp("enroll", "pepper", secret)]
  /\ UNCHANGED <<onDisk, phase, memory, peppers, told, tries, crashes, removals>>

DrawPepper(p) ==
  /\ StepIs(p, "pepper")
  /\ ReadPepper
  /\ op' = [op EXCEPT ![p].step = "envelope", ![p].pepper = settings'.pepper]
  /\ UNCHANGED <<wrap, envelope, capsule, phase, cipher, curtain, pinHistory, pinBounds>>

WriteEnvelope(p) ==
  /\ StepIs(p, "envelope")
  /\ envelope' = [secret |-> op[p].secret, pepper |-> op[p].pepper]
  /\ Goto(p, "enrolled")
  /\ UNCHANGED <<wrap, saved, capsule, phase, memory, peppers, pinHistory, pinBounds>>

MarkEnrolled(p) ==
  /\ StepIs(p, "enrolled")
  /\ ResetTo(TRUE)
  /\ GotoReset(p, "save")
  /\ dropped' = FALSE
  /\ UNCHANGED <<onDisk, phase, cipher, curtain, peppers, forgotten, crossed, posture, pinBounds>>

\* The passkey posture keeps lak.envelope; the other one goes on to remove it.
SaveEnrolled(p) ==
  /\ StepIs(p, "save") /\ Is(p, "enroll")
  /\ SaveData
  /\ Goto(p, IF settings.require THEN "capsule" ELSE "recapture")
  /\ UNCHANGED <<wrap, envelope, capsule, phase, memory, peppers, pinHistory, pinBounds>>

\* What follows the removal of the transparent wrapper, and what its failure.
Cleared(p) == CASE Is(p, "toggle") -> Goto(p, "save")
                [] Is(p, "unlock") -> Goto(p, "lift")
                [] OTHER -> Finish(p)

NotCleared(p) == IF Is(p, "toggle") THEN Goto(p, "revert") ELSE Cleared(p)

\* Only a capsule that is kept allows the transparent wrapper to go.
KeepPinOnly(p) ==
  /\ StepIs(p, "capsule")
  /\ \/ KeepCapsule /\ Goto(p, "clear")
     \/ UNCHANGED capsule /\ NotCleared(p)
  /\ UNCHANGED <<wrap, envelope, saved, phase, memory, peppers, pinHistory, pinBounds>>

\* The PIN is disabled, or is being so and the wrapper is back.
WrapperIsBack ==
  \/ ~settings.enrolled
  \/ \E q \in Tabs : \E next \in {"clearEnvelope", "clearPepper", "reset"} :
       Is(q, "disable") /\ StepIs(q, next)

Crossing(p) == crossed' = (crossed \/ (Is(p, "unlock") /\ WrapperIsBack))

ClearWrap(p) ==
  /\ StepIs(p, "clear")
  /\ \/ /\ wrap' = FALSE
        /\ Cleared(p)
        /\ IF Is(p, "enroll") THEN TabAnswers("pin") ELSE UNCHANGED posture
        /\ Crossing(p)
     \/ UNCHANGED <<wrap, posture, crossed>> /\ NotCleared(p)
  /\ UNCHANGED <<envelope, saved, capsule, phase, memory, peppers, told, forgotten, dropped,
                 pinBounds>>

\* setRequirePinOnStartup sets the flag first; with no PIN there is nothing to do.
StartToggle(p, on) ==
  /\ OpensTab(p) /\ settings.enrolled /\ settings.require # on
  /\ settings' = [settings EXCEPT !.require = on]
  /\ op' = [op EXCEPT ![p] = [NewOp("toggle", "check", Nil) EXCEPT !.flag = on]]
  /\ UNCHANGED <<onDisk, phase, cipher, curtain, peppers, told, tries, crashes, removals>>

\* A key that is not there: only switching it off is recorded.
CheckReady(p) ==
  /\ StepIs(p, "check")
  /\ IF cipher = "ready"
     THEN UNCHANGED settings /\ Goto(p, IF op[p].flag THEN "capsule" ELSE "wrap")
     ELSE /\ settings' = IF op[p].flag THEN [settings EXCEPT !.require = op[p].was] ELSE settings
          /\ Goto(p, "record")
  /\ UNCHANGED <<onDisk, phase, cipher, curtain, peppers, pinHistory, pinBounds>>

RecordOnly(p) ==
  /\ StepIs(p, "record")
  /\ SaveData
  /\ Finish(p)
  /\ UNCHANGED <<wrap, envelope, capsule, phase, memory, peppers, pinHistory, pinBounds>>

RestoreWrap(p) ==
  /\ StepIs(p, "wrap")
  /\ IF cipher = "ready" THEN wrap' = TRUE /\ Goto(p, "keep")
     ELSE UNCHANGED wrap /\ Goto(p, "revert")
  /\ UNCHANGED <<envelope, saved, capsule, phase, memory, peppers, pinHistory, pinBounds>>

KeepPasskey(p) ==
  /\ StepIs(p, "keep")
  /\ \/ KeepCapsule /\ Goto(p, "save")
     \/ UNCHANGED capsule /\ Goto(p, "unwrap")
  /\ UNCHANGED <<wrap, envelope, saved, phase, memory, peppers, pinHistory, pinBounds>>

Unwrap(p) ==
  /\ StepIs(p, "unwrap")
  /\ wrap' = FALSE
  /\ Goto(p, "revert")
  /\ UNCHANGED <<envelope, saved, capsule, phase, memory, peppers, pinHistory, pinBounds>>

SaveToggle(p) ==
  /\ StepIs(p, "save") /\ Is(p, "toggle")
  /\ SaveData
  /\ TabAnswers(IF op[p].flag THEN "pin" ELSE "keychain")
  /\ Finish(p)
  /\ UNCHANGED <<wrap, envelope, capsule, phase, memory, peppers, told, past,
                 pinBounds>>

\* A toggle that failed puts back the flag, then the wrapper, then saves.
Revert(p) ==
  /\ StepIs(p, "revert")
  /\ settings' = [settings EXCEPT !.require = op[p].was]
  /\ Goto(p, "revertWrap")
  /\ UNCHANGED <<onDisk, phase, cipher, curtain, peppers, pinHistory, pinBounds>>

RevertWrap(p) ==
  /\ StepIs(p, "revertWrap")
  /\ wrap' = IF op[p].was THEN FALSE ELSE wrap \/ cipher = "ready"
  /\ Goto(p, "revertSave")
  /\ UNCHANGED <<envelope, saved, capsule, phase, memory, peppers, pinHistory, pinBounds>>

SaveReverted(p) ==
  /\ StepIs(p, "revertSave")
  /\ SaveData
  /\ Goto(p, "recapture")
  /\ UNCHANGED <<wrap, envelope, capsule, phase, memory, peppers, pinHistory, pinBounds>>

\* The last call of an operation asks for a capsule and ignores the answer.
Recapture(p) ==
  /\ StepIs(p, "recapture")
  /\ TryCapsule
  /\ Finish(p)
  /\ UNCHANGED <<wrap, envelope, saved, phase, memory, peppers, pinHistory, pinBounds>>

-------------------------------------------------------------------------------
(* PinLockManager.unlock, for the curtain and before a PIN is disabled. *)

\* A new attempt is refused while the back-off lasts; the curtain then logs out.
StartUnlock(secret) ==
  /\ phase = "running" /\ curtain /\ op["curtain"] = Nil
  /\ tries < MaxTries /\ tries' = tries + 1
  /\ IF settings.held THEN curtain' = FALSE /\ UNCHANGED op
     ELSE /\ op' = [op EXCEPT !["curtain"] = NewOp("unlock", "read", secret)]
          /\ UNCHANGED curtain
  /\ UNCHANGED <<onDisk, phase, settings, cipher, peppers, pinHistory, changes, crashes, removals>>

StartDisable(p, secret) ==
  /\ OpensTab(p) /\ NoDialog /\ settings.enrolled /\ ~settings.held
  /\ tries < MaxTries /\ tries' = tries + 1
  /\ op' = [op EXCEPT ![p] = NewOp("disable", "read", secret)]
  /\ UNCHANGED <<onDisk, phase, memory, peppers, told, crashes, removals>>

ReadEnvelope(p) ==
  /\ StepIs(p, "read")
  /\ op' = [op EXCEPT ![p].step = IF envelope = Nil THEN "decide" ELSE "derive",
                      ![p].envelope = envelope]
  /\ UNCHANGED <<onDisk, phase, memory, peppers, pinHistory, pinBounds>>

Derive(p) ==
  /\ StepIs(p, "derive")
  /\ ReadPepper
  /\ op' = [op EXCEPT ![p].step = "decide", ![p].pepper = settings'.pepper]
  /\ UNCHANGED <<wrap, envelope, capsule, phase, cipher, curtain, pinHistory, pinBounds>>

\* The authentication tag holds only for the PIN and the pepper of the envelope.
Opens(o) ==
  /\ o.envelope # Nil
  /\ o.envelope.secret = o.secret /\ o.envelope.pepper = o.pepper

\* A mutant: the count is taken from data.json.
CountedFromDisk(o) == saved.failures + 1

\* registerFailure reads the count and writes it without an await in between.
Counted(o) == settings.failures + 1

Decide(p) ==
  /\ StepIs(p, "decide")
  /\ IF Opens(op[p])
     THEN /\ ResetTo(TRUE)
          /\ GotoReset(p, "opened")
          /\ Crossing(p)
     ELSE LET failures == Counted(op[p])
          IN  /\ settings' = [settings EXCEPT !.failures = failures,
                                              !.held = failures >= MaxAttempts - 1]
              /\ op' = [op EXCEPT ![p].step = "failed", ![p].counts = TRUE,
                                  ![p].flag = failures >= MaxAttempts]
              /\ UNCHANGED <<told, crossed>>
  /\ UNCHANGED <<onDisk, phase, cipher, curtain, peppers, forgotten, dropped, posture, pinBounds>>

SaveFailure(p) ==
  /\ StepIs(p, "failed")
  /\ SaveData
  /\ Goto(p, "answer")
  /\ UNCHANGED <<wrap, envelope, capsule, phase, memory, peppers, pinHistory, pinBounds>>

\* The curtain stays for a wrong PIN, and gives way to a logout at the cap.
AnswerFailure(p) ==
  /\ StepIs(p, "answer")
  /\ told' = told + (IF op[p].counts THEN 1 ELSE 0)
  /\ curtain' = (curtain /\ ~(p = "curtain" /\ op[p].flag))
  /\ Finish(p)
  /\ UNCHANGED <<onDisk, phase, settings, cipher, peppers, past, posture, pinBounds>>

SaveSuccess(p) ==
  /\ StepIs(p, "opened")
  /\ SaveData
  /\ Goto(p, "adopt")
  /\ UNCHANGED <<wrap, envelope, capsule, phase, memory, peppers, pinHistory, pinBounds>>

\* unlockCipherWithLak.
Adopt(p) ==
  /\ StepIs(p, "adopt")
  /\ cipher' = "ready"
  /\ Goto(p, IF Is(p, "disable") THEN "rewrap"
             ELSE IF settings.require THEN "capsule" ELSE "migrate")
  /\ UNCHANGED <<onDisk, phase, settings, curtain, peppers, pinHistory, pinBounds>>

\* The passkey posture gets its transparent wrapper back.
Migrate(p) ==
  /\ StepIs(p, "migrate")
  /\ wrap' = (wrap \/ cipher = "ready")
  /\ Goto(p, "lift")
  /\ UNCHANGED <<envelope, saved, capsule, phase, memory, peppers, pinHistory, pinBounds>>

Lift(p) ==
  /\ StepIs(p, "lift")
  /\ curtain' = FALSE
  /\ Finish(p)
  /\ UNCHANGED <<onDisk, phase, settings, cipher, peppers, pinHistory, pinBounds>>

-------------------------------------------------------------------------------
(* disablePinLock and forgotPin: PinLockManager.disable. *)

\* The key is wrapped for the keychain before the PIN's material is removed.
Rewrap(p) ==
  /\ StepIs(p, "rewrap")
  /\ IF cipher = "ready" THEN wrap' = TRUE /\ Goto(p, "clearEnvelope")
     ELSE UNCHANGED wrap /\ Finish(p)
  /\ UNCHANGED <<envelope, saved, capsule, phase, memory, peppers, pinHistory, pinBounds>>

\* "Log in again" works while an attempt is being checked.
StartForgot ==
  /\ phase = "running" /\ curtain /\ op["forgot"] = Nil
  /\ op' = [op EXCEPT !["forgot"] = NewOp("forgot", "clearEnvelope", Nil)]
  /\ forgotten' = TRUE /\ posture' = "none"
  /\ UNCHANGED <<onDisk, phase, memory, peppers, told, crossed, dropped, pinBounds>>

ClearEnvelope(p) ==
  /\ StepIs(p, "clearEnvelope")
  /\ envelope' = Nil
  /\ Goto(p, "clearPepper")
  /\ UNCHANGED <<wrap, saved, capsule, phase, memory, peppers, pinHistory, pinBounds>>

ClearPepper(p) ==
  /\ StepIs(p, "clearPepper")
  /\ settings' = [settings EXCEPT !.pepper = 0]
  /\ saved' = settings'
  /\ Goto(p, "reset")
  /\ UNCHANGED <<wrap, envelope, capsule, phase, cipher, curtain, peppers, pinHistory, pinBounds>>

MarkDisabled(p) ==
  /\ StepIs(p, "reset")
  /\ ResetTo(FALSE)
  /\ GotoReset(p, "resetSave")
  /\ UNCHANGED <<onDisk, phase, cipher, curtain, peppers, past, posture, pinBounds>>

SaveDisabled(p) ==
  /\ StepIs(p, "resetSave")
  /\ SaveData
  /\ Goto(p, IF Is(p, "forgot") THEN "logout" ELSE "recapture")
  /\ UNCHANGED <<wrap, envelope, capsule, phase, memory, peppers, pinHistory, pinBounds>>

Logout(p) ==
  /\ StepIs(p, "logout")
  /\ curtain' = FALSE
  /\ dropped' = TRUE
  /\ Finish(p)
  /\ UNCHANGED <<onDisk, phase, settings, cipher, peppers, told, forgotten, crossed, posture, pinBounds>>

-------------------------------------------------------------------------------
(* The device. *)

\* The idle timer, the command that locks, or a sign-in of a device whose key
\* is not there or that asks for its PIN.
Lock ==
  /\ phase = "running" /\ ~curtain /\ settings.enrolled
  /\ cipher' = IF cipher = "ready" THEN "locked" ELSE cipher
  /\ curtain' = TRUE
  /\ UNCHANGED <<onDisk, phase, settings, op, peppers, pinHistory, pinBounds>>

BackoffEnds ==
  /\ phase = "running" /\ settings.held
  /\ settings' = [settings EXCEPT !.held = FALSE]
  /\ UNCHANGED <<onDisk, phase, cipher, curtain, op, peppers, pinHistory, pinBounds>>

\* Another part of the plugin saves its data, or asks for a capsule.
BackgroundSave ==
  /\ phase = "running" /\ saved # settings
  /\ SaveData
  /\ UNCHANGED <<wrap, envelope, capsule, phase, memory, op, peppers, pinHistory, pinBounds>>

BackgroundCapsule ==
  /\ phase = "running" /\ KeepCapsule
  /\ UNCHANGED <<wrap, envelope, saved, phase, memory, op, peppers, pinHistory, pinBounds>>

\* The application ends; the next start reads data.json.
Ended ==
  /\ phase' = "off"
  /\ settings' = Defaults /\ cipher' = "none" /\ curtain' = FALSE
  /\ op' = [p \in Party |-> Nil]
  /\ posture' = "none"

Crash ==
  /\ \/ phase = "running" /\ crashes < MaxCrashes /\ crashes' = crashes + 1
     \/ phase = "restored" /\ UNCHANGED crashes
  /\ Ended
  /\ UNCHANGED <<onDisk, peppers, told, past, tries, changes, removals>>

\* The plugin is removed with its folder, which holds both envelopes and data.json.
Remove ==
  /\ phase = "off" /\ removals < MaxRemovals /\ capsule # Nil
  /\ removals' = removals + 1
  /\ wrap' = FALSE /\ envelope' = Nil /\ saved' = Defaults
  /\ told' = 0
  /\ UNCHANGED <<capsule, phase, memory, op, peppers, past, posture, tries,
                 changes, crashes>>

\* A mutant: any envelope counts, whatever the settings say of the PIN.
AnyEnvelope == wrap \/ envelope # Nil

PluginEnvelope == wrap \/ (envelope # Nil /\ saved.enrolled)

\* initAtRestCipher: the landing decision.
LandsLocked(kept) == kept.enrolled /\ (~wrap \/ kept.require)

Land(kept) ==
  /\ settings' = kept
  /\ phase' = "running"
  /\ curtain' = LandsLocked(kept)
  /\ cipher' = CASE LandsLocked(kept) -> "none"
                 [] ~LandsLocked(kept) /\ wrap -> "ready"
                 [] OTHER -> "recovery"
  /\ UNCHANGED <<wrap, envelope, capsule, op, peppers, past, posture, pinBounds>>

\* The start of a device whose own envelopes are there, or that has no capsule.
Start ==
  /\ phase = "off" /\ (PluginEnvelope \/ capsule = Nil)
  /\ Land(saved)
  /\ UNCHANGED <<saved, told>>

\* restoreLocalRecoveryBeforeCipherInit: the envelopes of the capsule are written,
RestoreFiles ==
  /\ phase = "off" /\ ~PluginEnvelope /\ capsule # Nil
  /\ wrap' = capsule.wrap
  /\ envelope' = IF capsule.envelope = Nil THEN envelope ELSE capsule.envelope
  /\ phase' = "restored"
  /\ UNCHANGED <<saved, capsule, memory, op, peppers, pinHistory, pinBounds>>

\* then its settings, and with them the count of its time.
RestoreSettings ==
  /\ phase = "restored"
  /\ saved' = capsule.settings
  /\ told' = 0
  /\ Land(saved')

-------------------------------------------------------------------------------
Tab(p) ==
  \/ \E secret \in Secrets : StartEnroll(p, secret)
  \/ \E secret \in Secrets \union {Nil} : StartDisable(p, secret)
  \/ \E on \in BOOLEAN : StartToggle(p, on)

Enrolling(p) ==
  DrawPepper(p) \/ WriteEnvelope(p) \/ MarkEnrolled(p) \/ SaveEnrolled(p)

Toggling(p) ==
  \/ CheckReady(p) \/ RecordOnly(p) \/ RestoreWrap(p) \/ KeepPasskey(p) \/ Unwrap(p)
  \/ SaveToggle(p) \/ Revert(p) \/ RevertWrap(p) \/ SaveReverted(p)

Unlocking(p) ==
  \/ ReadEnvelope(p) \/ Derive(p) \/ Decide(p) \/ SaveFailure(p) \/ AnswerFailure(p)
  \/ SaveSuccess(p) \/ Adopt(p) \/ Migrate(p) \/ Lift(p)

Disabling(p) ==
  \/ Rewrap(p) \/ ClearEnvelope(p) \/ ClearPepper(p) \/ MarkDisabled(p)
  \/ SaveDisabled(p) \/ Logout(p)

PinNext ==
  \/ \E p \in Tabs : Tab(p)
  \/ \E secret \in Secrets \union {Nil} : StartUnlock(secret)
  \/ StartForgot
  \/ \E p \in Party :
       \/ Enrolling(p) \/ Toggling(p) \/ Unlocking(p) \/ Disabling(p)
       \/ KeepPinOnly(p) \/ ClearWrap(p) \/ Recapture(p)
  \/ Lock \/ BackoffEnds \/ BackgroundSave \/ BackgroundCapsule
  \/ Crash \/ Remove \/ Start \/ RestoreFiles \/ RestoreSettings

PinSpec == PinInit /\ [][PinNext]_pinVars

-------------------------------------------------------------------------------
CapsuleOpens ==
  capsule # Nil /\ (capsule.wrap \/ (capsule.envelope # Nil
                                     /\ capsule.envelope.pepper = capsule.settings.pepper))

\* The key can be had again after any restart: its own envelopes are opened by
\* the keychain or by a PIN the user set, or else those of the capsule are.
KeyIsKept ==
  forgotten \/ crossed \/
    IF phase = "restored" \/ ~PluginEnvelope THEN CapsuleOpens
    ELSE wrap \/ envelope.pepper = saved.pepper

\* What the settings tab answered is so, on disk and in the capsule, until something
\* else is asked of it or the PIN is given up.
PostureHolds ==
  ~forgotten =>
    /\ posture = "pin" => saved.require /\ ~wrap /\ ~capsule.wrap
    /\ posture = "keychain" => ~saved.require /\ wrap /\ capsule.wrap

\* A failure that was answered is in the count, on disk as well.
FailuresCount == told <= saved.failures /\ (phase = "running" => told <= settings.failures)

\* forgotPin says it sets "enrolled->false so the next cold start does NOT re-enter
\* the lock loop".
ForgottenStaysForgotten ==
  [][dropped /\ phase # "running" /\ phase' = "running" => ~curtain']_pinVars
===============================================================================
