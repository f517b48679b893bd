------------------------------ MODULE VaultWrites ------------------------------
(***************************************************************************)
(* Mutations of the files of one vault (lambda/files/handler.ts): an S3    *)
(* object per path, and beside it in DynamoDB the mutation intents, the    *)
(* activity log, the revision counter of the vault row and the writer      *)
(* permit.  S3 and DynamoDB share no transaction, so a write is announced  *)
(* by a durable intent before it happens and published after it; what a    *)
(* crash or an error leaves pending is reconciled by later sync requests.  *)
(*                                                                         *)
(* Writers are invocations of handleWriteFile and handleDeleteFile,        *)
(* reconcilers are invocations of reconcilePendingMutationIntents; every   *)
(* await is a step boundary.                                               *)
(***************************************************************************)
EXTENDS Naturals, FiniteSets

CONSTANTS
  Path,
  Writer,      \* concurrent write and delete requests
  Reconciler,  \* concurrent reconciliation passes
  MaxTime,     \* bound on the clock
  None,        \* nobody, nothing
  Unguarded,   \* the expectation of a request that states none (force, legacy)
  Expectations \* what requests may state of the object they change

ASSUME WritesAssumption ==
  /\ MaxTime \in Nat
  /\ None \notin Writer \union Path
  /\ Unguarded \notin Nat
  /\ Expectations \subseteq 0..MaxTime \union {Unguarded}

VARIABLES
  clock,        \* wall time
  object,       \* the S3 object of each path, with the intent that left it so
  pending,      \* !INTENT# rows
  log,          \* activity rows
  revision,     \* revision of the vault row
  permit,       \* the writer side of the rotation-control row
  writer,       \* the local state of each write or delete request
  reconciling,  \* the local state of each reconciliation pass
  unheard       \* mutations S3 made whose answer was an error (history)

table == <<pending, log, revision>>
wvars == <<clock, object, pending, log, revision, permit, writer, reconciling,
           unheard>>

(***************************************************************************)
(* Intents get their timestamp one at a time, so the timestamp stands for  *)
(* the intent and for the object version its mutation makes; 0 stands for  *)
(* "never written".                                                        *)
(***************************************************************************)
Instant == 0..MaxTime

Object == [by : Instant, present : BOOLEAN, modified : Instant]

Intent == [at : 1..MaxTime, path : Path, kind : {"write", "delete"}]

\* No intent is no intent.
ASSUME NoIntentAssumption == None \notin Intent

\* A request waits; has passed its checks; holds the permit; has stamped its
\* intent; has stored it; has mutated S3; must withdraw the intent; must give
\* the permit back.
WriterStage == {"idle", "checked", "permitted", "stamped", "announced",
                "mutated", "aborting", "releasing"}

Holding == WriterStage \ {"idle", "checked"}

Request ==
  [stage : WriterStage, path : Path \union {None}, kind : {"write", "delete"},
   expect : Instant \union {Unguarded}, at : Instant]

Idle ==
  [stage |-> "idle", path |-> None, kind |-> "write", expect |-> Unguarded, at |-> 0]

Pass == [intent : Intent \union {None}, observed : BOOLEAN]

Resting == [intent |-> None, observed |-> FALSE]

WritesTypeOK ==
  /\ clock \in Instant
  /\ object \in [Path -> Object]
  /\ pending \subseteq Intent
  /\ log \subseteq Intent
  /\ revision \in Nat
  /\ permit \in Writer \union {None}
  /\ writer \in [Writer -> Request]
  /\ reconciling \in [Reconciler -> Pass]
  /\ unheard \subseteq Instant

WritesInit ==
  /\ clock = 0
  /\ object = [p \in Path |-> [by |-> 0, present |-> FALSE, modified |-> 0]]
  /\ pending = {}
  /\ log = {}
  /\ revision = 0
  /\ permit = None
  /\ writer = [w \in Writer |-> Idle]
  /\ reconciling = [k \in Reconciler |-> Resting]
  /\ unheard = {}

IntentOf(w) ==
  [at |-> writer[w].at, path |-> writer[w].path, kind |-> writer[w].kind]

Goes(w, stage) == writer' = [writer EXCEPT ![w].stage = stage]

Ends(w) == writer' = [writer EXCEPT ![w] = Idle]

(***************************************************************************)
(* The requests.  expect is the version the client declares: a version it  *)
(* knows, 0 for must-be-absent, Unguarded for force and the legacy lane.  A      *)
(* guarded write, and every delete, looks at the object before it takes    *)
(* the permit; when that look fails it is answered 409 or 404.             *)
(***************************************************************************)
LooksRight(p, kind, expect) ==
  /\ kind = "delete" => object[p].present /\ expect # 0
  /\ expect \notin {0, Unguarded} => object[p].present /\ object[p].by = expect

StartRequest(w, p, kind, expect) ==
  /\ writer[w].stage = "idle"
  /\ LooksRight(p, kind, expect)
  /\ writer' = [writer EXCEPT ![w] =
       [stage |-> "checked", path |-> p, kind |-> kind, expect |-> expect, at |-> 0]]
  /\ UNCHANGED <<clock, object, table, permit, reconciling, unheard>>

\* A mutant: the permit is taken whoever holds it.
AcquireAnyway(w) ==
  /\ writer[w].stage = "checked"
  /\ permit' = w
  /\ Goes(w, "permitted")
  /\ UNCHANGED <<clock, object, table, reconciling, unheard>>

\* acquireVaultMutationPermit; while another owner's is unexpired the request
\* is answered 409.
AcquirePermit(w) ==
  /\ writer[w].stage = "checked"
  /\ IF permit = None
       THEN permit' = w /\ Goes(w, "permitted")
       ELSE UNCHANGED permit /\ Ends(w)
  /\ UNCHANGED <<clock, object, table, reconciling, unheard>>

\* beginVaultMutationIntent stamps the intent first and stores it afterwards.
StampIntent(w) ==
  /\ writer[w].stage = "permitted"
  /\ clock < MaxTime
  /\ clock' = clock + 1
  /\ writer' = [writer EXCEPT ![w].stage = "stamped", ![w].at = clock + 1]
  /\ UNCHANGED <<object, table, permit, reconciling, unheard>>

StoreIntent(w) ==
  /\ writer[w].stage = "stamped"
  /\ \/ pending' = pending \union {IntentOf(w)} /\ Goes(w, "announced")
     \/ UNCHANGED pending /\ Goes(w, "releasing")
  /\ UNCHANGED <<clock, object, log, revision, permit, reconciling, unheard>>

\* The precondition S3 itself evaluates: IfMatch, IfNoneMatch '*', or none.
Precondition(w) ==
  LET o == object[writer[w].path] IN
  CASE writer[w].expect = Unguarded -> TRUE
    [] writer[w].expect = 0 -> ~o.present
    [] OTHER -> o.present /\ o.by = writer[w].expect

\* PutObject or DeleteObject.  An error after S3 has carried the request out
\* (a lost answer, a retry that meets its own result) looks like one before.
MutateObject(w) ==
  /\ writer[w].stage = "announced"
  /\ \/ /\ Precondition(w)
        /\ object' = [object EXCEPT ![writer[w].path] =
             [by |-> writer[w].at, present |-> writer[w].kind = "write",
              modified |-> clock]]
        /\ \/ Goes(w, "mutated") /\ UNCHANGED unheard
           \/ Goes(w, "aborting") /\ unheard' = unheard \union {writer[w].at}
     \/ Goes(w, "aborting") /\ UNCHANGED <<object, unheard>>
  /\ UNCHANGED <<clock, table, permit, reconciling>>

\* abortVaultMutationIntent, conditional on the row; a failure is swallowed.
Abort(i) ==
  /\ pending' = pending \ {i}
  /\ UNCHANGED <<log, revision>>

\* A mutant: the pending row is no condition of the transaction.
CommitAgain(i) ==
  /\ pending' = pending \ {i}
  /\ log' = log \union {i}
  /\ revision' = revision + 1

\* commitVaultMutationIntent: one transaction consumes the pending row, appends
\* the activity row under the time of the intent and counts it.
Commit(i) ==
  /\ i \in pending
  /\ pending' = pending \ {i}
  /\ log' = log \union {i}
  /\ revision' = revision + 1

AbortIntent(w) ==
  /\ writer[w].stage = "aborting"
  /\ Abort(IntentOf(w)) \/ UNCHANGED table
  /\ Goes(w, "releasing")
  /\ UNCHANGED <<clock, object, permit, reconciling, unheard>>

\* persistBoundFileVersion and publishMutationIntentOrThrow: when either fails
\* the intent stays pending.
PublishIntent(w) ==
  /\ writer[w].stage = "mutated"
  /\ Commit(IntentOf(w)) \/ UNCHANGED table
  /\ Goes(w, "releasing")
  /\ UNCHANGED <<clock, object, permit, reconciling, unheard>>

\* The finally block: only the owner's permit is removed.
ReleasePermit(w) ==
  /\ writer[w].stage = "releasing"
  /\ permit' = IF permit = w THEN None ELSE permit
  /\ Ends(w)
  /\ UNCHANGED <<clock, object, table, reconciling, unheard>>

\* The invocation dies (crash, Lambda timeout): no finally block runs.
Crash(w) ==
  /\ writer[w].stage # "idle"
  /\ Ends(w)
  /\ UNCHANGED <<clock, object, table, permit, reconciling, unheard>>

\* A permit lasts 20 minutes, an invocation at most one: its owner is gone.
ExpirePermit ==
  /\ permit # None
  /\ writer[permit].stage \notin Holding
  /\ permit' = None
  /\ UNCHANGED <<clock, object, table, writer, reconciling, unheard>>

(***************************************************************************)
(* reconcilePendingMutationIntents.  An intent is looked at when it is two *)
(* minutes old, longer than any invocation lives: its request is over.     *)
(***************************************************************************)
\* A mutant: an intent is looked at whatever its age.
AbandonedAtOnce(i) == i \in pending

Abandoned(i) ==
  \A w \in Writer :
    ~(writer[w].stage \in Holding \ {"permitted"} /\ writer[w].at = i.at)

\* The verification of the intent's kind: object-metadata or delete-head.
Observed(i) ==
  IF i.kind = "write"
    THEN object[i.path].present /\ object[i.path].by = i.at
    ELSE ~object[i.path].present

Observe(k, i) ==
  /\ reconciling[k].intent = None
  /\ i \in pending
  /\ Abandoned(i)
  /\ reconciling' = [reconciling EXCEPT ![k] =
                       [intent |-> i, observed |-> Observed(i)]]
  /\ UNCHANGED <<clock, object, table, permit, writer, unheard>>

\* A mutant: what was not carried out is left for later.
ResolveObserved(k) ==
  LET i == reconciling[k].intent IN
  /\ i # None
  /\ (reconciling[k].observed /\ Commit(i)) \/ UNCHANGED table
  /\ reconciling' = [reconciling EXCEPT ![k] = Resting]
  /\ UNCHANGED <<clock, object, permit, writer, unheard>>

\* Both transactions are conditional on the pending row; errors are swallowed.
Resolve(k) ==
  LET i == reconciling[k].intent IN
  /\ i # None
  /\ \/ /\ reconciling[k].observed
        /\ Commit(i)
     \/ /\ ~reconciling[k].observed
        /\ Abort(i)
     \/ UNCHANGED table
  /\ reconciling' = [reconciling EXCEPT ![k] = Resting]
  /\ UNCHANGED <<clock, object, permit, writer, unheard>>

Tick ==
  /\ clock < MaxTime
  /\ clock' = clock + 1
  /\ UNCHANGED <<object, table, permit, writer, reconciling, unheard>>

Requesting(w) ==
  \/ \E p \in Path, kind \in {"write", "delete"}, expect \in Expectations :
       StartRequest(w, p, kind, expect)
  \/ AcquirePermit(w)
  \/ StampIntent(w)
  \/ StoreIntent(w)
  \/ MutateObject(w)
  \/ AbortIntent(w)
  \/ PublishIntent(w)
  \/ ReleasePermit(w)
  \/ Crash(w)

Reconciling(k) ==
  \/ \E i \in pending : Observe(k, i)
  \/ Resolve(k)

WritesNext ==
  \/ \E w \in Writer : Requesting(w)
  \/ \E k \in Reconciler : Reconciling(k)
  \/ ExpirePermit
  \/ Tick

WritesSpec == WritesInit /\ [][WritesNext]_wvars

(***************************************************************************)
(* Lambda ends every invocation, devices keep polling, and not every       *)
(* reconciliation of an intent fails.                                      *)
(***************************************************************************)
Settles(k) == Resolve(k) /\ pending' # pending

FairWritesSpec ==
  /\ WritesSpec
  /\ \A w \in Writer : WF_wvars(ReleasePermit(w) \/ Crash(w))
  /\ \A k \in Reconciler : WF_wvars(Resolve(k))
  /\ SF_wvars(\E k \in Reconciler, i \in pending : Observe(k, i))
  /\ SF_wvars(\E k \in Reconciler : Settles(k))

(***************************************************************************)
(* Safety.                                                                 *)
(***************************************************************************)
Announced(at) == \E i \in log \union pending : i.at = at

\* No silent change: the change that left an object as it is was published, or
\* waits as a pending intent that keeps cursor clients from trusting the
\* revision, whichever of its steps failed or crashed and whatever the
\* reconcilers concluded meanwhile.  The exception is a mutation whose answer was
\* an error, which the handler takes for one that did not happen.
EveryChangeIsAnnounced ==
  \A p \in Path :
    object[p].by \notin unheard \union {0} => Announced(object[p].by)

\* The revision counts the activity rows: two requests that publish one intent,
\* or a retry after a lost answer, count it once (commitVaultMutationIntent).
RevisionCountsLog == revision = Cardinality(log)

\* abortVaultMutationIntent: "Delete an intent only when the associated mutation
\* definitely did not run."
AbortedDidNotRun ==
  \A p \in Path : object[p].by # 0 => Announced(object[p].by)

(***************************************************************************)
(* Why no change is silent: one writer holds the permit, its time is later *)
(* than any other's, and a reconciler holds intents of nobody.             *)
(***************************************************************************)
Stamped == Holding \ {"permitted"}

\* A request at work holds the permit, so there is at most one.
PermitIsHeld == \A w \in Writer : writer[w].stage \in Holding => permit = w

StampsAreTaken ==
  /\ \A w \in Writer :
       /\ writer[w].stage # "idle" => writer[w].path \in Path
       /\ writer[w].stage \in Stamped <=> writer[w].at # 0
       /\ writer[w].at <= clock
  /\ \A i \in pending \union log : i.at <= clock
  /\ \A p \in Path : object[p].by <= clock

StampsAreUnique ==
  /\ pending \intersect log = {}
  /\ \A i, j \in pending \union log : i.at = j.at => i = j
  /\ \A w \in Writer, i \in pending \union log :
       i.at = writer[w].at => i = IntentOf(w) /\ writer[w].stage # "stamped"

\* An object is left by a pending intent as that intent says.
ObjectsTellTheirIntent ==
  \A p \in Path, i \in pending :
    object[p].by = i.at => p = i.path /\ object[p].present = (i.kind = "write")

WritersKnowTheirIntent ==
  \A w \in Writer :
    /\ writer[w].stage \in {"stamped", "announced"} =>
         \A p \in Path : object[p].by < writer[w].at
    /\ writer[w].stage = "announced" => IntentOf(w) \in pending
    /\ writer[w].stage = "aborting" =>
         \A p \in Path : object[p].by = writer[w].at => writer[w].at \in unheard

ReconcilersAreLast ==
  \A k \in Reconciler :
    LET i == reconciling[k].intent IN
    i # None =>
      /\ i.at <= clock
      /\ Abandoned(i)
      /\ ~reconciling[k].observed => \A p \in Path : object[p].by # i.at

WritesInv ==
  /\ WritesTypeOK
  /\ PermitIsHeld
  /\ StampsAreTaken
  /\ StampsAreUnique
  /\ ObjectsTellTheirIntent
  /\ WritersKnowTheirIntent
  /\ ReconcilersAreLast

\* The log tells the changes of a path in the order S3 made them, which the sync
\* handler's "last action wins" relies on: an object is never left in the state
\* of an older intent (the writer permit).
MutationsInOrder ==
  [][\A p \in Path : object'[p].by >= object[p].by]_object

(***************************************************************************)
(* Liveness.                                                               *)
(***************************************************************************)
\* Every intent is published or withdrawn in the end, also when its request
\* died: "reconciliation required" does not last for ever.
IntentsAreResolved == \A i \in Intent : i \in pending ~> i \notin pending
===============================================================================
