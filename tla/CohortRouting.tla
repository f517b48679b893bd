--------------------------- MODULE CohortRouting ---------------------------
(***************************************************************************)
(* The route of a vault between the path contract and the workspace        *)
(* revision contract (shared/workspace-cohort-control.ts), and the fence   *)
(* row that writers and operators contend on (shared/rotation-fence.ts,    *)
(* with WORKSPACE_COHORT_CONTROL_TABLE set).  A writer reads the route and *)
(* takes the writer side of the fence in one transaction that is           *)
(* conditional on that route; an operator takes the rotation side and      *)
(* replaces the route, together with an immutable record of the            *)
(* transition.                                                             *)
(*                                                                         *)
(* Every request reads the clock first and sends its writes later; the     *)
(* hosts' clocks agree.  A write may take effect with its answer lost, and *)
(* the transaction of a transition may even take effect after its sender   *)
(* gave up.                                                                *)
(***************************************************************************)
EXTENDS Integers

CONSTANTS CohortWriter,    \* requests that mutate the vault
          Operator,        \* transitions: each has its job and decision
          Control,         \* what a decision may set: mode and rollout flags
          MaxGeneration,   \* bound on the generations
          FenceTtl,        \* the leases' length, in ticks
          LastInstant      \* bound: the clock stops here

ASSUME CohortAssumption ==
    /\ Control \subseteq [mode : {"path", "paused", "shadow", "revision-read"},
                          enforced : BOOLEAN, disabled : BOOLEAN]
    /\ MaxGeneration \in Nat
    /\ FenceTtl \in Nat \ {0}
    /\ LastInstant \in Nat
    /\ CohortWriter \cap Operator = {}
    /\ "none" \notin CohortWriter \cup Operator

VARIABLES instant,   \* the clock
          route,     \* the control row
          audit,     \* the TRANSITION# rows
          fence,     \* the rotation-control row
          mutation,  \* the mutating requests
          operation, \* the operators' calls
          flying     \* transactions whose senders gave up on them

cohortVars == <<instant, route, audit, fence, mutation, operation, flying>>

Ticks == 0 .. LastInstant + FenceTtl
NoOwner == "none"
FirstControl == [mode |-> "path", enforced |-> FALSE, disabled |-> FALSE]
CohortRoute == [generation : 0 .. MaxGeneration, decision : Operator \cup {NoOwner},
                control : Control \cup {FirstControl}]
FirstRoute == [generation |-> 0, decision |-> NoOwner, control |-> FirstControl]

(* The side of a fence row: its owner and when its lease ends.             *)
Side == [owner : CohortWriter \cup Operator \cup {NoOwner}, expires : Ticks]
NoSide == [owner |-> NoOwner, expires |-> 0]

(* An operator's intent; now is the clock its transaction carries.         *)
Intention == [before : CohortRoute, after : CohortRoute, owner : Operator, expires : Ticks]
NoIntention == [owner |-> NoOwner]

Contract == {"path", "workspace-revision"}

NoMutation == [at |-> "idle", contract |-> "path", now |-> 0, route |-> FirstRoute]

MutationState == [at : {"idle", "begun", "routed", "writing"}, contract : Contract,
                  now : Ticks, route : CohortRoute]
OperationState == [at : {"idle", "fencing", "fenced", "decided", "checking", "sending",
                         "confirming", "refused", "answered"},
                   now : Ticks, expires : Ticks, before : CohortRoute, after : CohortRoute,
                   told : {"nothing", "applied", "changed", "unknown"}]

CohortTypeOK ==
    /\ instant \in 0 .. LastInstant
    /\ route \in CohortRoute
    /\ audit \in [1 .. MaxGeneration -> Intention \cup {NoIntention}]
    /\ fence \in [rotation : Side, writer : Side]
    /\ mutation \in [CohortWriter -> MutationState]
    /\ operation \in [Operator -> OperationState]
    /\ flying \subseteq [intention : Intention, now : Ticks]

CohortInit ==
    /\ instant = 0
    /\ route = FirstRoute
    /\ audit = [g \in 1 .. MaxGeneration |-> NoIntention]
    /\ fence = [rotation |-> NoSide, writer |-> NoSide]
    /\ mutation = [w \in CohortWriter |-> NoMutation]
    /\ operation = [o \in Operator |->
                      [at |-> "idle", now |-> 0, expires |-> 0, before |-> FirstRoute,
                       after |-> FirstRoute, told |-> "nothing"]]
    /\ flying = {}

--------------------------------------------------------------------------
(* writerCondition: which contract a route admits.                         *)
AdmitsContract(r, contract) ==
    /\ ~r.control.disabled
    /\ IF contract = "workspace-revision"
       THEN r.control.mode \in {"shadow", "revision-read"}
       ELSE r.control.mode \in {"path", "shadow"} /\ ~r.control.enforced

(* acquireVaultMutationPermit: read the clock, read the route, then the    *)
(* transaction of condition and permit.                                    *)
BeginMutation(w, contract) ==
    /\ mutation[w].at = "idle"
    /\ mutation' = [mutation EXCEPT ![w] = [@ EXCEPT !.at = "begun", !.now = instant,
                                                     !.contract = contract]]
    /\ UNCHANGED <<instant, route, audit, fence, operation, flying>>

ReadRoute(w) ==
    /\ mutation[w].at = "begun"
    /\ AdmitsContract(route, mutation[w].contract)
    /\ mutation' = [mutation EXCEPT ![w] = [@ EXCEPT !.at = "routed", !.route = route]]
    /\ UNCHANGED <<instant, route, audit, fence, operation, flying>>

Lapsed(side, now) == side.owner = NoOwner \/ side.expires < now

(* A mutant: the permit is published without the condition on the route.   *)
AnyRoute(w) == TRUE

RouteUnchanged(w) == route = mutation[w].route

PermitEnds(w) == mutation[w].now + FenceTtl

TakePermit(w) ==
    /\ mutation[w].at = "routed"
    /\ RouteUnchanged(w)
    /\ Lapsed(fence.rotation, mutation[w].now)
    /\ Lapsed(fence.writer, mutation[w].now)
    /\ fence' = [fence EXCEPT !.writer = [owner |-> w, expires |-> PermitEnds(w)]]
    /\ \/ mutation' = [mutation EXCEPT ![w].at = "writing"]
       \/ mutation' = [mutation EXCEPT ![w] = NoMutation]
    /\ UNCHANGED <<instant, route, audit, operation, flying>>

(* The end of the mutation, and of a request that was refused: a permit it *)
(* holds is given back, unless that fails.                                 *)
EndMutation(w) ==
    /\ mutation[w].at # "idle"
    /\ mutation' = [mutation EXCEPT ![w] = NoMutation]
    /\ \/ /\ mutation[w].at = "writing"
          /\ fence.writer = [owner |-> w, expires |-> PermitEnds(w)]
          /\ fence' = [fence EXCEPT !.writer = NoSide]
       \/ fence' = fence
    /\ UNCHANGED <<instant, route, audit, operation, flying>>

--------------------------------------------------------------------------
MoveTo(o, at) == operation' = [operation EXCEPT ![o].at = at]

Tells(o, answer) == operation' = [operation EXCEPT ![o] = [@ EXCEPT !.at = "answered",
                                                                   !.told = answer]]

(* acquireWorkspaceCohortFence: the rotation side, whatever the route.     *)
BeginFence(o) ==
    /\ operation[o].at = "idle"
    /\ operation' = [operation EXCEPT ![o] = [@ EXCEPT !.at = "fencing", !.now = instant,
                                                       !.expires = instant + FenceTtl]]
    /\ UNCHANGED <<instant, route, audit, fence, mutation, flying>>

TakeFence(o) ==
    /\ operation[o].at = "fencing"
    /\ Lapsed(fence.rotation, operation[o].now) \/ fence.rotation.owner = o
    /\ Lapsed(fence.writer, operation[o].now)
    /\ fence' = [fence EXCEPT !.rotation = [owner |-> o, expires |-> operation[o].expires]]
    /\ MoveTo(o, "fenced")
    /\ UNCHANGED <<instant, route, audit, mutation, flying>>

(* The operator reads the route it is about to replace.                    *)
ReadExpected(o) ==
    /\ operation[o].at = "fenced"
    /\ route.generation < MaxGeneration
    /\ \E c \in Control :
          operation' = [operation EXCEPT ![o] = [@ EXCEPT !.at = "decided", !.before = route,
              !.after = [generation |-> route.generation + 1, decision |-> o, control |-> c]]]
    /\ UNCHANGED <<instant, route, audit, fence, mutation, flying>>

IntentionOf(o) == [before |-> operation[o].before, after |-> operation[o].after,
                   owner |-> o, expires |-> operation[o].expires]

RecordOf(o) == audit[operation[o].after.generation]

(* A mutant: any record of the generation confirms the transition.         *)
RecordExists(o) == RecordOf(o) # NoIntention

RecordMatches(o) == RecordOf(o) = IntentionOf(o)

(* transition: the clock and the lease are checked, and the record of the  *)
(* generation is read.  A call may repeat an earlier one that was told     *)
(* "unknown".                                                              *)
BeginTransition(o) ==
    /\ operation[o].at = "decided"
    /\ operation[o].expires > instant
    /\ operation' = [operation EXCEPT ![o] = [@ EXCEPT !.at = "checking", !.now = instant]]
    /\ UNCHANGED <<instant, route, audit, fence, mutation, flying>>

ReadRecord(o) ==
    /\ operation[o].at = "checking"
    /\ IF RecordOf(o) = NoIntention THEN MoveTo(o, "sending")
       ELSE Tells(o, IF RecordMatches(o) THEN "applied" ELSE "changed")
    /\ UNCHANGED <<instant, route, audit, fence, mutation, flying>>

(* The transaction: the fence is the operator's and no writer's, the route *)
(* is the expected one, and the generation has no record.                  *)
Transits(i, now) ==
    /\ fence.rotation = [owner |-> i.owner, expires |-> i.expires]
    /\ i.expires > now
    /\ Lapsed(fence.writer, now)
    /\ route = i.before
    /\ audit[i.after.generation] = NoIntention

Transit(i) ==
    /\ route' = i.after
    /\ audit' = [audit EXCEPT ![i.after.generation] = i]

SendTransition(o) ==
    /\ operation[o].at = "sending"
    /\ \/ /\ Transits(IntentionOf(o), operation[o].now)
          /\ Transit(IntentionOf(o))
          /\ Tells(o, "applied") \/ MoveTo(o, "confirming")
          /\ UNCHANGED flying
       \/ /\ ~Transits(IntentionOf(o), operation[o].now)
          /\ MoveTo(o, "refused")
          /\ UNCHANGED <<route, audit, flying>>
       \/ /\ flying' = flying \cup {[intention |-> IntentionOf(o), now |-> operation[o].now]}
          /\ MoveTo(o, "confirming")
          /\ UNCHANGED <<route, audit>>
    /\ UNCHANGED <<instant, fence, mutation>>

(* A transaction nobody waits for arrives after all, or never.             *)
LandLate ==
    /\ \E f \in flying :
          /\ flying' = flying \ {f}
          /\ IF Transits(f.intention, f.now) THEN Transit(f.intention)
                                             ELSE UNCHANGED <<route, audit>>
    /\ UNCHANGED <<instant, fence, mutation, operation>>

(* After an error the record of the generation decides what is answered.   *)
Confirm(o) ==
    /\ operation[o].at \in {"confirming", "refused"}
    /\ Tells(o, IF RecordMatches(o) THEN "applied"
                ELSE IF operation[o].at = "refused" THEN "changed" ELSE "unknown")
    /\ UNCHANGED <<instant, route, audit, fence, mutation, flying>>

(* The operator repeats a call whose outcome is unknown, or gives the      *)
(* fence back (releaseRotationLease); it may also stop at any point, and   *)
(* the fence then expires.                                                 *)
Repeat(o) ==
    /\ operation[o].at = "answered"
    /\ operation[o].told = "unknown"
    /\ MoveTo(o, "decided")
    /\ UNCHANGED <<instant, route, audit, fence, mutation, flying>>

ReturnFence(o) ==
    /\ operation[o].at \in {"answered", "decided", "fenced"}
    /\ fence.rotation = [owner |-> o, expires |-> operation[o].expires]
    /\ fence' = [fence EXCEPT !.rotation = NoSide]
    /\ UNCHANGED <<instant, route, audit, mutation, operation, flying>>

InstantPasses ==
    /\ instant < LastInstant
    /\ instant' = instant + 1
    /\ UNCHANGED <<route, audit, fence, mutation, operation, flying>>

MutationStep(w) ==
    \/ \E contract \in Contract : BeginMutation(w, contract)
    \/ ReadRoute(w) \/ TakePermit(w) \/ EndMutation(w)

OperationStep(o) ==
    \/ BeginFence(o) \/ TakeFence(o) \/ ReadExpected(o) \/ BeginTransition(o)
    \/ ReadRecord(o) \/ SendTransition(o) \/ Confirm(o) \/ Repeat(o) \/ ReturnFence(o)

CohortNext ==
    \/ \E w \in CohortWriter : MutationStep(w)
    \/ \E o \in Operator : OperationStep(o)
    \/ LandLate
    \/ InstantPasses

CohortSpec == CohortInit /\ [][CohortNext]_cohortVars

--------------------------------------------------------------------------
(* While a writer's permit lasts, the route is the one the writer was      *)
(* admitted under: no file is written under a contract the vault has left, *)
(* whatever the order of reads, fences, expiries and late transactions     *)
(* (workspace-cohort-control.ts:74-81 and 122-166).                        *)
WritersKeepTheirRoute ==
    \A w \in CohortWriter : mutation[w].at = "writing" /\ instant <= PermitEnds(w) =>
        /\ route = mutation[w].route
        /\ AdmitsContract(route, mutation[w].contract)

(* The records of the transitions are the history of the route, without a  *)
(* gap, and an operator who is told that its transition was applied finds  *)
(* its own record there, also when the answer of the transaction was lost  *)
(* or a rival took the generation (workspace-cohort-control.ts:134-165).   *)
RouteIsRecorded ==
    /\ \A g \in 1 .. MaxGeneration :
          IF g > route.generation THEN audit[g] = NoIntention
          ELSE /\ audit[g] # NoIntention
               /\ audit[g].before = IF g = 1 THEN FirstRoute ELSE audit[g - 1].after
               /\ audit[g].after.generation = g
    /\ route.generation > 0 => route = audit[route.generation].after
    /\ \A o \in Operator : operation[o].told = "applied" => RecordOf(o) = IntentionOf(o)
============================================================================
