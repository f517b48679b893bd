---------------------------- MODULE RecoveryCapsule ----------------------------
(***************************************************************************)
(* The recovery capsule of one device: a copy of the wrapped local key and *)
(* of the PIN settings that survives the removal of the plugin.  It is     *)
(* kept in two homes, hidden files of the vault and the profile of the     *)
(* application, each with a current and a previous capsule; the manifest   *)
(* (vault) and the index (profile) name the generations a restore accepts. *)
(* Persisting and clearing run one at a time on a chain of operations;     *)
(* they may stop between any two of their steps, by a crash or an error of *)
(* the file system, and the profile may be evicted at any time.            *)
(* (local-recovery-capsule.ts; main.ts: persistLocalRecoveryCapsule,       *)
(* clearLocalRecoveryCapsule.)                                             *)
(*                                                                         *)
(* Abstracted: what a capsule holds is the number of the change it was     *)
(* captured at and whether it is PIN-only; sealing and validation succeed. *)
(***************************************************************************)
EXTENDS Naturals

LOCAL INSTANCE Sequences

CONSTANTS
  MaxChange,     \* bound on the changes of what is to be kept
  MaxRepeats,    \* bound on the calls that ask for the same state again
  MaxIds,        \* bound on the capsule identifiers drawn
  MaxCalls,      \* bound on the operations that wait
  MaxFaults,     \* bound on the crashes and the errors
  MaxEvictions,  \* bound on the evictions of the profile
  MaxClears,     \* bound on the calls that clear
  Absent

ASSUME CapsuleAssumption ==
  /\ {MaxChange, MaxRepeats, MaxIds, MaxCalls, MaxFaults, MaxEvictions, MaxClears} \subseteq Nat
  /\ Absent \notin Nat

VARIABLES
  device,     \* what is to be kept now: its change number, and whether PIN-only
  vault,      \* the capsules in the vault
  manifest,   \* the manifests in the vault
  profile,    \* the capsules in the profile
  index,      \* the index entry in the profile
  minted,     \* identifiers drawn so far
  chain,      \* localRecoveryCapsuleOpChain, the running operation first
  slot,       \* queuedLocalRecoveryCapsulePersist: its place in the chain, or 0
  step,       \* what the running operation does next, or "idle"
  writing,    \* the capsule and the pointer of the running persist
  torn,       \* persists begun since the last manifest was committed (history)
  promised,   \* newest change a caller was told is kept, since the last clear (history)
  settled,    \* what the last operation kept, when it was answered TRUE (history)
  repeats, faults, evictions, clears

homes == <<vault, manifest, profile, index>>
calls == <<chain, slot>>
capsuleBounds == <<repeats, faults, evictions, clears>>
capsuleVars == <<device, homes, minted, calls, step, writing, torn, promised, settled,
                 capsuleBounds>>

Identifier == 1..MaxIds
State == [change : 0..MaxChange, pinOnly : BOOLEAN]
Generation == Nat \ {0}
Capsule == [generation : Generation, state : State]
\* previous is 0 when no previous generation is accepted.
Pointer == [id : Identifier, generation : Generation, previous : Nat]
QueuedCall == [kind : {"persist", "clear"}, floor : 0..MaxChange]

PersistStep == {"next", "drop", "rotate", "promote", "profile", "manifestNext",
                "manifestDrop", "manifestRotate", "manifestPromote", "purge",
                "manifestPurge", "index"}
ClearStep == {"capsules", "profiles", "manifestsNext", "manifests", "manifestsPrevious",
              "entry"}

ASSUME AbsentAssumption ==
  Absent \notin State \union Capsule \union Pointer \union [capsule : Capsule, pointer : Pointer]

\* Every variable has its type: in particular the slot that callers join is a
\* place of the chain, whatever left the chain or was queued after it.
CapsuleTypeOK ==
  /\ device \in State
  /\ vault \in [Identifier -> [{"current", "previous", "next"} -> Capsule \union {Absent}]]
  /\ manifest \in [{"current", "previous", "next"} -> Pointer \union {Absent}]
  /\ profile \in [Identifier -> [{"current", "previous"} -> Capsule \union {Absent}]]
  /\ index \in Pointer \union {Absent}
  /\ minted \in 0..MaxIds
  /\ chain \in Seq(QueuedCall)
  /\ slot \in 0..Len(chain)
  /\ step \in {"idle"} \union PersistStep \union ClearStep
  /\ writing \in [capsule : Capsule, pointer : Pointer] \union {Absent}
  /\ torn \in Nat /\ promised \in 0..MaxChange
  /\ settled \in State \union {Absent}
  /\ repeats \in 0..MaxRepeats /\ faults \in 0..MaxFaults /\ evictions \in 0..MaxEvictions /\ clears \in 0..MaxClears

NoCapsules(slots) == [i \in Identifier |-> [s \in slots |-> Absent]]
NoManifest == [s \in {"current", "previous", "next"} |-> Absent]

CapsuleInit ==
  /\ device = [change |-> 0, pinOnly |-> FALSE]
  /\ vault = NoCapsules({"current", "previous", "next"})
  /\ manifest = NoManifest
  /\ profile = NoCapsules({"current", "previous"})
  /\ index = Absent
  /\ minted = 0
  /\ chain = <<>> /\ slot = 0 /\ step = "idle" /\ writing = Absent
  /\ torn = 0 /\ promised = 0 /\ settled = Absent
  /\ repeats = 0 /\ faults = 0 /\ evictions = 0 /\ clears = 0

-------------------------------------------------------------------------------
(* What a restart would restore. *)

Acceptable(pointer, capsule) ==
  capsule # Absent /\ capsule.generation \in {pointer.generation, pointer.previous}

Usable(pointer, capsule) == IF Acceptable(pointer, capsule) THEN <<capsule>> ELSE <<>>

\* The capsules a pointer names in one home, the current one first.
NamedIn(home, pointer) ==
  IF pointer = Absent THEN <<>>
  ELSE Usable(pointer, home[pointer.id]["current"])
         \o Usable(pointer, home[pointer.id]["previous"])

\* restore: the vault before the profile.
Candidates ==
  NamedIn(vault, manifest["current"]) \o NamedIn(vault, manifest["previous"])
    \o NamedIn(profile, index)

\* The newest generation, and among those the first: the sort is stable.
Best(candidates, i) ==
  /\ i \in DOMAIN candidates
  /\ \A j \in DOMAIN candidates :
       \/ candidates[j].generation < candidates[i].generation
       \/ candidates[j].generation = candidates[i].generation /\ i <= j

Restorable == Candidates # <<>>
Restored == LET candidates == Candidates
            IN  candidates[CHOOSE i \in DOMAIN candidates : Best(candidates, i)].state

-------------------------------------------------------------------------------
(* Callers. *)

Queued(kind, floor) == Append(chain, [kind |-> kind, floor |-> floor])

\* persistLocalRecoveryCapsule: a caller joins the run that has not started.
Persist ==
  IF slot # 0
  THEN chain' = [chain EXCEPT ![slot].floor = device'.change] /\ UNCHANGED slot
  ELSE chain' = Queued("persist", device'.change) /\ slot' = Len(chain')

\* A setting is changed or the key re-wrapped, then a capsule is asked for.
ChangeAndPersist ==
  /\ device.change < MaxChange /\ Len(chain) < MaxCalls
  /\ \E pinOnly \in BOOLEAN :
       device' = [change |-> device.change + 1, pinOnly |-> pinOnly]
  /\ Persist
  /\ UNCHANGED <<homes, minted, step, writing, torn, promised, settled, capsuleBounds>>

\* A start, a sign-in: the capsule is asked for again.
PersistAgain ==
  /\ device.change > 0 /\ repeats < MaxRepeats /\ Len(chain) < MaxCalls
  /\ repeats' = repeats + 1
  /\ UNCHANGED device
  /\ Persist
  /\ UNCHANGED <<homes, minted, step, writing, torn, promised, settled, faults, evictions,
                 clears>>

\* clearLocalRecoveryCapsule: later callers must not join a run queued before it.
CallClear ==
  /\ clears < MaxClears /\ Len(chain) < MaxCalls
  /\ slot' = 0
  /\ chain' = Append([i \in DOMAIN chain |-> [chain[i] EXCEPT !.floor = 0]],
                     [kind |-> "clear", floor |-> 0])
  /\ promised' = 0
  /\ clears' = clears + 1
  /\ UNCHANGED <<device, homes, minted, step, writing, torn, settled,
                 repeats, faults, evictions>>

-------------------------------------------------------------------------------
(* LocalRecoveryCapsuleStore.persist, one action per step. *)

GenerationOf(pointer) == IF pointer = Absent THEN 0 ELSE pointer.generation

\* previousGeneration: the newer of what the two homes name.
Before ==
  LET inVault == GenerationOf(manifest["current"])
      inProfile == GenerationOf(index)
  IN  IF inVault > inProfile THEN inVault ELSE inProfile

CapsuleId ==
  CASE manifest["current"] # Absent -> manifest["current"].id
    [] manifest["current"] = Absent /\ index # Absent -> index.id
    [] OTHER -> minted + 1

Running(kind) == chain # <<>> /\ Head(chain).kind = kind

\* A mutant: callers still join the run that has started.
KeptAtStart == slot

\* The run that starts takes no more callers.
Released == IF slot = 1 THEN 0 ELSE slot

\* The run starts and captures the state.
StartPersist ==
  /\ step = "idle" /\ Running("persist")
  /\ CapsuleId \in Identifier
  /\ slot' = Released
  /\ step' = "next"
  /\ writing' = [capsule |-> [generation |-> Before + 1, state |-> device],
                 pointer |-> [id |-> CapsuleId, generation |-> Before + 1,
                              previous |-> IF device.pinOnly THEN 0 ELSE Before]]
  /\ minted' = IF CapsuleId > minted THEN CapsuleId ELSE minted
  /\ torn' = torn + 1
  /\ settled' = Absent
  /\ UNCHANGED <<device, homes, chain, promised, capsuleBounds>>

Advance(from, to) ==
  /\ step = from /\ step' = to
  /\ UNCHANGED <<device, minted, calls, writing, promised, settled, capsuleBounds>>

InVault(from, to, files) ==
  /\ Advance(from, to)
  /\ vault' = files
  /\ UNCHANGED <<manifest, profile, index, torn>>

InManifest(from, to, files) ==
  /\ Advance(from, to)
  /\ manifest' = files
  /\ UNCHANGED <<vault, profile, index>>

Named == writing.pointer.id

WriteNext ==
  InVault("next", "drop", [vault EXCEPT ![Named]["next"] = writing.capsule])

DropPrevious ==
  InVault("drop", "rotate", [vault EXCEPT ![Named]["previous"] = Absent])

RotateCapsule ==
  InVault("rotate", "promote",
          IF vault[Named]["current"] = Absent THEN vault
          ELSE [vault EXCEPT ![Named]["previous"] = vault[Named]["current"],
                             ![Named]["current"] = Absent])

PromoteCapsule ==
  InVault("promote", "profile",
          [vault EXCEPT ![Named]["current"] = vault[Named]["next"],
                        ![Named]["next"] = Absent])

\* Both saves of the profile are in one stretch of code without an await.
SaveProfile ==
  /\ Advance("profile", "manifestNext")
  /\ profile' = [profile EXCEPT
                   ![Named]["previous"] = IF profile[Named]["current"] = Absent
                                          THEN @ ELSE profile[Named]["current"],
                   ![Named]["current"] = writing.capsule]
  /\ UNCHANGED <<vault, manifest, index, torn>>

WriteManifestNext ==
  /\ InManifest("manifestNext", "manifestDrop",
                [manifest EXCEPT !["next"] = writing.pointer])
  /\ UNCHANGED torn

DropManifestPrevious ==
  /\ InManifest("manifestDrop", "manifestRotate", [manifest EXCEPT !["previous"] = Absent])
  /\ UNCHANGED torn

RotateManifest ==
  /\ InManifest("manifestRotate", "manifestPromote",
                IF manifest["current"] = Absent THEN manifest
                ELSE [manifest EXCEPT !["previous"] = manifest["current"],
                                      !["current"] = Absent])
  /\ UNCHANGED torn

\* The manifest commits the generation; only a PIN-only one destroys the old.
PromoteManifest ==
  /\ InManifest("manifestPromote",
                IF writing.capsule.state.pinOnly THEN "purge" ELSE "index",
                [manifest EXCEPT !["current"] = manifest["next"], !["next"] = Absent])
  /\ torn' = 0

PurgePrevious ==
  InVault("purge", "manifestPurge", [vault EXCEPT ![Named]["previous"] = Absent])

PurgeManifest ==
  /\ InManifest("manifestPurge", "index", [manifest EXCEPT !["previous"] = Absent])
  /\ UNCHANGED torn

\* The chain moves up, and the slot with it.
SlotAfter == IF slot = 0 THEN 0 ELSE slot - 1

Leave ==
  /\ chain' = Tail(chain)
  /\ slot' = SlotAfter
  /\ step' = "idle"
  /\ writing' = Absent

\* A mutant: the profile keeps the previous capsule.
ProfileKept == profile

\* The profile's capsules once the index is saved: a PIN-only one stands alone.
ProfilePurged ==
  IF writing.capsule.state.pinOnly
  THEN [profile EXCEPT ![Named]["previous"] = Absent] ELSE profile

\* The index follows, and the callers are answered TRUE.
SaveIndex ==
  /\ step = "index"
  /\ index' = writing.pointer
  /\ profile' = ProfilePurged
  /\ promised' = IF Head(chain).floor > promised THEN Head(chain).floor ELSE promised
  /\ settled' = writing.capsule.state
  /\ Leave
  /\ UNCHANGED <<device, vault, manifest, minted, torn, capsuleBounds>>

-------------------------------------------------------------------------------
(* LocalRecoveryCapsuleStore.clear. *)

StartClear ==
  /\ step = "idle" /\ Running("clear")
  /\ step' = "capsules"
  /\ settled' = Absent
  /\ UNCHANGED <<device, homes, minted, calls, writing, torn, promised, capsuleBounds>>

\* The files of the directory, one by one and in any order.
RemoveCapsule ==
  \/ \E i \in Identifier, s \in {"current", "previous", "next"} :
       /\ vault[i][s] # Absent
       /\ InVault("capsules", "capsules", [vault EXCEPT ![i][s] = Absent])
  \/ /\ vault = NoCapsules({"current", "previous", "next"})
     /\ InVault("capsules", "profiles", vault)

\* Only the profile's capsules that a manifest or the index names.
RemoveProfiles ==
  /\ Advance("profiles", "manifestsNext")
  /\ profile' =
       LET known == {manifest["current"], manifest["previous"], index} \ {Absent}
       IN  [i \in Identifier |-> IF \E pointer \in known : pointer.id = i
                         THEN [s \in {"current", "previous"} |-> Absent] ELSE profile[i]]
  /\ UNCHANGED <<vault, manifest, index, torn>>

RemoveManifest ==
  \E at \in {<<"manifestsNext", "next", "manifests">>,
             <<"manifests", "current", "manifestsPrevious">>,
             <<"manifestsPrevious", "previous", "entry">>} :
    /\ InManifest(at[1], at[3], [manifest EXCEPT ![at[2]] = Absent])
    /\ UNCHANGED torn

RemoveEntry ==
  /\ step = "entry"
  /\ index' = Absent
  /\ torn' = 0
  /\ Leave
  /\ UNCHANGED <<device, vault, manifest, profile, minted, promised, settled, capsuleBounds>>

-------------------------------------------------------------------------------
(* Faults. *)

\* A file operation fails: the run answers FALSE and the chain goes on.
Fail ==
  /\ step # "idle" /\ faults < MaxFaults
  /\ faults' = faults + 1
  /\ Leave
  /\ UNCHANGED <<device, homes, minted, torn, promised, settled, repeats,
                 evictions, clears>>

\* The application is killed: the chain and its callers are gone.
Kill ==
  /\ chain # <<>> /\ faults < MaxFaults
  /\ faults' = faults + 1
  /\ chain' = <<>> /\ slot' = 0 /\ step' = "idle" /\ writing' = Absent
  /\ UNCHANGED <<device, homes, minted, torn, promised, settled, repeats,
                 evictions, clears>>

EvictProfile ==
  /\ evictions < MaxEvictions
  /\ evictions' = evictions + 1
  /\ profile' = NoCapsules({"current", "previous"})
  /\ index' = Absent
  /\ UNCHANGED <<device, vault, manifest, minted, calls, step, writing, torn, promised,
                 settled, repeats, faults, clears>>

-------------------------------------------------------------------------------
PersistSteps ==
  \/ StartPersist \/ WriteNext \/ DropPrevious \/ RotateCapsule \/ PromoteCapsule
  \/ SaveProfile \/ WriteManifestNext \/ DropManifestPrevious \/ RotateManifest
  \/ PromoteManifest \/ PurgePrevious \/ PurgeManifest \/ SaveIndex

ClearSteps ==
  StartClear \/ RemoveCapsule \/ RemoveProfiles \/ RemoveManifest \/ RemoveEntry

CapsuleNext ==
  \/ ChangeAndPersist \/ PersistAgain \/ CallClear
  \/ PersistSteps \/ ClearSteps
  \/ Fail \/ Kill \/ EvictProfile

CapsuleSpec == CapsuleInit /\ [][CapsuleNext]_capsuleVars

-------------------------------------------------------------------------------
\* What a caller was told is kept is what a restart restores, or something
\* newer, whatever happens to the profile and wherever a persist is interrupted.
\* Not more: the persist after an interrupted one draws the same generation, and
\* a second interruption can leave no accepted capsule in either home.
AnsweredIsRestored ==
  promised > 0 /\ torn <= 1 => Restorable /\ Restored.change >= promised

\* Once a persist was answered TRUE, a restart restores exactly that, and when
\* it is PIN-only no other capsule is left under its identifier in either home.
SettledIsAll ==
  settled # Absent =>
    /\ Restorable /\ Restored = settled
    /\ settled.pinOnly =>
         \A home \in {vault[manifest["current"].id], profile[manifest["current"].id]} :
           \A s \in DOMAIN home : home[s] # Absent => home[s].state.pinOnly
===============================================================================
