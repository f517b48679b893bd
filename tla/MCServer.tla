-------------------------------- MODULE MCServer --------------------------------
(***************************************************************************)
(* Small instances of four parts of the server that share no state with    *)
(* each other, the revision store and what admits requests (logins, the    *)
(* lease of authorization changes, the cohort's route), checked in one     *)
(* run: a behaviour picks one part at the start and only that one moves.   *)
(***************************************************************************)
EXTENDS MCWorkspaceRevisions, LoginPermits, AuthorizationLease, CohortRouting

VARIABLE part

\* The places of the intents: the file write's sorts before the permission's.
CONSTANTS grant, save
PlaceOfIntent == save :> 1 @@ grant :> 2

\* What an operator may decide: the vault is moved to the revision contract.
ToRevisions == {[mode |-> "revision-read", enforced |-> TRUE, disabled |-> FALSE]}

ServerInit ==
  /\ part \in {"revisions", "login", "lease", "cohort"}
  /\ Init /\ LoginInit /\ LeaseInit /\ CohortInit

Takes(name, next) == part = name /\ next /\ part' = part

ServerNext ==
  \/ Takes("revisions", Next) /\ UNCHANGED <<loginVars, leaseVars, cohortVars>>
  \/ Takes("login", LoginNext) /\ UNCHANGED <<vars, leaseVars, cohortVars>>
  \/ Takes("lease", LeaseNext) /\ UNCHANGED <<vars, loginVars, cohortVars>>
  \/ Takes("cohort", CohortNext) /\ UNCHANGED <<vars, loginVars, leaseVars>>

ServerSpec ==
  ServerInit /\ [][ServerNext]_<<part, vars, loginVars, leaseVars, cohortVars>>
===============================================================================
