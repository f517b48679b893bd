--------------------------------- MODULE MCKeys ---------------------------------
(***************************************************************************)
(* Small instances of the three parts that keep keys, checked in one run:  *)
(* the rotation of a vault's key on the server, and on a device the        *)
(* capsule of its recovery secret and the PIN that wraps its local key.    *)
(* They share no state: a behaviour picks one of them at the start and     *)
(* only that one moves.                                                    *)
(***************************************************************************)
EXTENDS MCVaultKeyRotation, RecoveryCapsule, PinLock

VARIABLE keeper

KeysInit ==
  /\ keeper \in {"rotation", "capsule", "pin"}
  /\ RotationInit /\ CapsuleInit /\ PinInit
  \* Only the PIN's part starts in more than one state.
  /\ keeper # "pin" => settings = Defaults

Works(name, next) == keeper = name /\ next /\ keeper' = keeper

KeysNext ==
  \/ Works("rotation", RotationNext) /\ UNCHANGED <<capsuleVars, pinVars>>
  \/ Works("capsule", CapsuleNext) /\ UNCHANGED <<rvars, pinVars>>
  \/ Works("pin", PinNext) /\ UNCHANGED <<rvars, capsuleVars>>

KeysSpec == KeysInit /\ [][KeysNext]_<<keeper, rvars, capsuleVars, pinVars>>

\* Bounds of the run: a PIN is forgotten before the settings tab was used, and after
\* one attempt at most; one job at most is at work in two deliveries at a time.
ForgottenFirst == forgotten => changes = 0 /\ tries <= 1
OneTwin == twins # Job
===============================================================================
