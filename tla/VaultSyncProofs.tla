---------------------------- MODULE VaultSyncProofs ----------------------------
(***************************************************************************)
(* Proofs about VaultWrites and VaultSync for every number of paths,       *)
(* writers, reconcilers and devices and every bound on the clock: no       *)
(* change is silent, the revision counts the log, changes are made in      *)
(* order, what a device may trust after its sync, and that it never goes   *)
(* back.                                                                   *)
(***************************************************************************)
EXTENDS VaultSync, FiniteSetTheorems, TLAPS

USE WritesAssumption, NoIntentAssumption

(***************************************************************************)
(* Types.                                                                  *)
(***************************************************************************)
LEMMA InitTypes == WritesInit => WritesTypeOK
  BY DEF WritesInit, WritesTypeOK, Instant, Object, Idle, Request, WriterStage,
         Resting, Pass

\* A stamped request makes an intent.
LEMMA IntentsAreTyped ==
  ASSUME WritesTypeOK, StampsAreTaken, NEW w \in Writer, writer[w].stage \in Stamped
  PROVE  IntentOf(w) \in Intent
<1>1. writer[w] \in Request
  BY DEF WritesTypeOK
<1>2. writer[w].stage # "idle" /\ writer[w].at # 0
  BY DEF Stamped, Holding, WriterStage, StampsAreTaken
<1>3. writer[w].path \in Path /\ writer[w].at \in 1..MaxTime
  BY <1>1, <1>2 DEF StampsAreTaken, Request, Instant
<1> QED
  BY <1>1, <1>3 DEF IntentOf, Intent, Request

LEMMA TypesKept ==
  ASSUME WritesTypeOK, StampsAreTaken, [WritesNext]_wvars
  PROVE  WritesTypeOK'
<1> USE DEF WritesTypeOK
<1>0. CASE UNCHANGED wvars
  BY <1>0 DEF wvars, table
<1>1. ASSUME NEW w \in Writer, NEW p \in Path, NEW kind \in {"write", "delete"},
             NEW expect \in Expectations, StartRequest(w, p, kind, expect)
      PROVE  WritesTypeOK'
  BY <1>1 DEF StartRequest, table, Request, WriterStage, Instant
<1>2. ASSUME NEW w \in Writer, AcquirePermit(w)
      PROVE  WritesTypeOK'
  BY <1>2 DEF AcquirePermit, Goes, Ends, Idle, table, Request, WriterStage, Instant
<1>3. ASSUME NEW w \in Writer, StampIntent(w)
      PROVE  WritesTypeOK'
  <2>1. clock + 1 \in Instant /\ writer[w] \in Request
    BY <1>3 DEF StampIntent, Instant
  <2>2. [writer[w] EXCEPT !.stage = "stamped", !.at = clock + 1] \in Request
    BY <2>1 DEF Request, WriterStage
  <2> QED
    BY <1>3, <2>1, <2>2 DEF StampIntent, table
<1>4. ASSUME NEW w \in Writer, StoreIntent(w)
      PROVE  WritesTypeOK'
  <2>1. IntentOf(w) \in Intent
    BY <1>4, IntentsAreTyped DEF StoreIntent, Stamped, Holding, WriterStage
  <2> QED
    BY <1>4, <2>1 DEF StoreIntent, Goes, Request, WriterStage
<1>5. ASSUME NEW w \in Writer, MutateObject(w)
      PROVE  WritesTypeOK'
  <2>1. writer[w] \in Request
    OBVIOUS
  <2>2. writer' \in [Writer -> Request] /\ unheard' \subseteq Instant
    BY <1>5, <2>1 DEF MutateObject, Goes, Request, WriterStage
  <2>3. [by |-> writer[w].at, present |-> writer[w].kind = "write",
         modified |-> clock] \in Object
    BY <2>1 DEF Request, Object
  <2>4. object' \in [Path -> Object]
    BY <1>5, <2>3 DEF MutateObject
  <2> QED
    BY <1>5, <2>2, <2>4 DEF MutateObject, table
<1>6. ASSUME NEW w \in Writer, AbortIntent(w)
      PROVE  WritesTypeOK'
  BY <1>6 DEF AbortIntent, Abort, Goes, table, Request, WriterStage
<1>7. ASSUME NEW w \in Writer, PublishIntent(w)
      PROVE  WritesTypeOK'
  BY <1>7 DEF PublishIntent, Commit, Goes, table, Request, WriterStage
<1>8. ASSUME NEW w \in Writer, ReleasePermit(w)
      PROVE  WritesTypeOK'
  BY <1>8 DEF ReleasePermit, Ends, Idle, table, Request, WriterStage, Instant
<1>9. ASSUME NEW w \in Writer, Crash(w)
      PROVE  WritesTypeOK'
  BY <1>9 DEF Crash, Ends, Idle, table, Request, WriterStage, Instant
<1>10. ASSUME NEW k \in Reconciler, NEW i \in pending, Observe(k, i)
       PROVE  WritesTypeOK'
  <2>1. Observed(i) \in BOOLEAN
    BY DEF Observed, Intent, Object
  <2> QED
    BY <1>10, <2>1 DEF Observe, table, Pass
<1>11. ASSUME NEW k \in Reconciler, Resolve(k)
       PROVE  WritesTypeOK'
  BY <1>11 DEF Resolve, Commit, Abort, table, Resting, Pass
<1>12. CASE ExpirePermit
  BY <1>12 DEF ExpirePermit, table
<1>13. CASE Tick
  BY <1>13 DEF Tick, table, Instant
<1> QED
  BY <1>0, <1>1, <1>2, <1>3, <1>4, <1>5, <1>6, <1>7, <1>8, <1>9, <1>10, <1>11,
     <1>12, <1>13
  DEF WritesNext, Requesting, Reconciling

(***************************************************************************)
(* The invariant.                                                          *)
(***************************************************************************)
Linked ==
  /\ PermitIsHeld
  /\ StampsAreTaken
  /\ StampsAreUnique
  /\ ObjectsTellTheirIntent
  /\ WritersKnowTheirIntent
  /\ ReconcilersAreLast

LEMMA InitLinked == WritesInit => Linked
  BY DEF WritesInit, Linked, PermitIsHeld, StampsAreTaken, StampsAreUnique,
         ObjectsTellTheirIntent, WritersKnowTheirIntent, ReconcilersAreLast,
         Idle, Resting, Stamped, Holding, WriterStage

\* The permit makes requests at work exclusive.
LEMMA OneAtWork ==
  ASSUME PermitIsHeld, NEW v \in Writer, NEW w \in Writer,
         writer[v].stage \in Holding, writer[w].stage \in Holding
  PROVE  v = w
  BY DEF PermitIsHeld

\* The numbers and intents the invariant is about.
Measured ==
  /\ clock \in Nat
  /\ \A w \in Writer : writer[w].at \in Nat /\ writer[w].stage \in WriterStage
  /\ \A i \in pending \union log : i \in Intent /\ i.at \in Nat /\ i.at # 0
  /\ \A p \in Path : object[p].by \in Nat
  /\ \A k \in Reconciler :
       LET i == reconciling[k].intent IN
       i # None => i \in Intent /\ i.at \in Nat /\ i.at # 0

LEMMA Measures == ASSUME WritesTypeOK PROVE Measured
  BY DEF WritesTypeOK, Measured, Instant, Request, Intent, Object, Pass

\* Everything but the writers is as before.
Quiet == UNCHANGED <<clock, object, pending, log, reconciling, unheard>>

OthersWait(w) == \A v \in Writer \ {w} : writer'[v] = writer[v]

\* A request that has no time of its own disturbs nothing.
LEMMA AtRest ==
  ASSUME Measured, Linked, Quiet, NEW w \in Writer, OthersWait(w),
         writer'[w].at = 0, writer'[w].stage \in {"idle", "checked", "permitted"},
         writer'[w].stage # "idle" => writer'[w].path \in Path
  PROVE  /\ StampsAreTaken'
         /\ StampsAreUnique'
         /\ ObjectsTellTheirIntent'
         /\ WritersKnowTheirIntent'
         /\ ReconcilersAreLast'
<1> USE DEF Linked, Quiet, OthersWait, Measured
<1>1. StampsAreTaken'
  BY DEF StampsAreTaken, Stamped, Holding, WriterStage
<1>2. StampsAreUnique'
  <2>1. \A v \in Writer \ {w} : IntentOf(v)' = IntentOf(v)
    BY DEF IntentOf
  <2> QED
    BY <2>1 DEF StampsAreUnique
<1>3. ObjectsTellTheirIntent'
  BY DEF ObjectsTellTheirIntent
<1>4. WritersKnowTheirIntent'
  <2>1. \A v \in Writer \ {w} : IntentOf(v)' = IntentOf(v)
    BY DEF IntentOf
  <2> QED
    BY <2>1 DEF WritersKnowTheirIntent
<1>5. ReconcilersAreLast'
  BY DEF ReconcilersAreLast, Abandoned, Stamped, Holding, WriterStage
<1> QED
  BY <1>1, <1>2, <1>3, <1>4, <1>5

\* The request of w goes to another stage with the intent it has.
Advances(w, stage) ==
  /\ \A v \in Writer : writer'[v].at = writer[v].at /\ writer'[v].path = writer[v].path
  /\ \A v \in Writer : IntentOf(v)' = IntentOf(v)
  /\ writer'[w].stage = stage
  /\ \A v \in Writer \ {w} : writer'[v].stage = writer[v].stage

LEMMA Advancing ==
  ASSUME WritesTypeOK, NEW w \in Writer, NEW stage, Goes(w, stage)
  PROVE  Advances(w, stage)
  BY DEF WritesTypeOK, Goes, Advances, IntentOf, Request

\* A request at work that stays at work: its permit and its time are good.
LEMMA AtWork ==
  ASSUME Measured, Linked, NEW w \in Writer, NEW stage \in Stamped,
         writer[w].stage \in Stamped, Advances(w, stage),
         UNCHANGED <<clock, permit>>
  PROVE  /\ PermitIsHeld'
         /\ \A v \in Writer :
              /\ writer'[v].stage # "idle" => writer'[v].path \in Path
              /\ writer'[v].stage \in Stamped <=> writer'[v].at # 0
              /\ writer'[v].at <= clock'
         /\ \A i : Abandoned(i) => Abandoned(i)'
         /\ \A v \in Writer \ {w} : writer[v].stage \notin Holding
  BY DEF Linked, Advances, PermitIsHeld, StampsAreTaken, Abandoned, Stamped, Holding,
         WriterStage

LEMMA LinkedKept ==
  ASSUME WritesTypeOK, WritesTypeOK', Linked, [WritesNext]_wvars
  PROVE  Linked'
<1>a. Measured /\ Measured'
  BY Measures, PTL
<1> USE DEF Linked
<1>0. CASE UNCHANGED wvars
  BY <1>0 DEF wvars, table, PermitIsHeld, StampsAreTaken, StampsAreUnique, IntentOf,
     ObjectsTellTheirIntent, WritersKnowTheirIntent, ReconcilersAreLast, Abandoned
<1>1. ASSUME NEW w \in Writer, NEW p \in Path, NEW kind \in {"write", "delete"},
             NEW expect \in Expectations, StartRequest(w, p, kind, expect)
      PROVE  Linked'
  <2>1. /\ OthersWait(w)
        /\ writer'[w].at = 0
        /\ writer'[w].stage = "checked"
        /\ writer'[w].path = p
    BY <1>1 DEF StartRequest, OthersWait, WritesTypeOK
  <2>2. Quiet
    BY <1>1 DEF StartRequest, Quiet, table
  <2>3. PermitIsHeld'
    BY <1>1, <2>1 DEF StartRequest, PermitIsHeld, OthersWait, Holding
  <2> QED
    BY <1>a, <2>1, <2>2, <2>3, AtRest
<1>2. ASSUME NEW w \in Writer, AcquirePermit(w)
      PROVE  Linked'
  <2>1. /\ OthersWait(w)
        /\ writer'[w].at = 0
        /\ \/ writer'[w].stage = "permitted" /\ permit = None /\ permit' = w
           \/ writer'[w].stage = "idle" /\ permit' = permit
        /\ writer'[w].stage # "idle" => writer'[w].path \in Path
    BY <1>2 DEF AcquirePermit, Goes, Ends, Idle, OthersWait, WritesTypeOK, Request,
                StampsAreTaken, Stamped, Holding, WriterStage
  <2>2. Quiet
    BY <1>2 DEF AcquirePermit, Quiet, table
  <2>3. PermitIsHeld'
    BY <2>1 DEF PermitIsHeld, OthersWait, Holding
  <2> QED
    BY <1>a, <2>1, <2>2, <2>3, AtRest
<1>3. ASSUME NEW w \in Writer, StampIntent(w)
      PROVE  Linked'
  <2> DEFINE t == clock + 1
  <2>1. /\ OthersWait(w)
        /\ writer[w].stage = "permitted"
        /\ writer[w].path \in Path
        /\ writer'[w].at = t
        /\ writer'[w].stage = "stamped"
        /\ writer'[w].path = writer[w].path
        /\ clock' = t
        /\ UNCHANGED <<object, pending, log, permit, reconciling, unheard>>
    BY <1>3 DEF StampIntent, OthersWait, WritesTypeOK, Request, table, StampsAreTaken
  <2>2. \A v \in Writer \ {w} : writer[v].stage \notin Holding /\ writer[v].at = 0
    BY <1>a, <2>1 DEF PermitIsHeld, StampsAreTaken, Stamped, Holding, WriterStage,
                      Measured
  <2>3. t \in Nat /\ t # 0 /\ clock < t /\ \A n \in Nat : n <= clock => n < t
    BY <1>a DEF Measured
  <2>4. PermitIsHeld'
    BY <2>1, <2>2 DEF PermitIsHeld, OthersWait, Holding, WriterStage
  <2>5. StampsAreTaken'
    BY <1>a, <2>1, <2>2, <2>3 DEF StampsAreTaken, OthersWait, Measured, Stamped,
                                  Holding, WriterStage
  <2>6. StampsAreUnique'
    <3>1. \A i \in pending \union log : i.at < t /\ i.at # 0
      BY <1>a, <2>3 DEF StampsAreTaken, Measured
    <3>2. \A v \in Writer, i \in pending \union log : i.at # writer'[v].at
      BY <1>a, <2>1, <2>2, <2>3, <3>1 DEF OthersWait, Measured
    <3> QED
      BY <2>1, <3>2 DEF StampsAreUnique
  <2>7. ObjectsTellTheirIntent'
    BY <2>1 DEF ObjectsTellTheirIntent
  <2>8. WritersKnowTheirIntent'
    <3>1. \A p \in Path : object[p].by < t
      BY <1>a, <2>3 DEF StampsAreTaken, Measured
    <3>2. \A v \in Writer \ {w} : writer'[v].stage \notin {"stamped", "announced", "aborting"}
      BY <2>1, <2>2 DEF OthersWait, Holding, WriterStage
    <3> QED
      BY <2>1, <3>1, <3>2 DEF WritersKnowTheirIntent
  <2>9. ReconcilersAreLast'
    <3> SUFFICES ASSUME NEW k \in Reconciler, reconciling[k].intent # None
                 PROVE  LET i == reconciling[k].intent IN
                        /\ i.at <= t
                        /\ Abandoned(i)'
                        /\ ~reconciling[k].observed => \A p \in Path : object[p].by # i.at
      BY <2>1 DEF ReconcilersAreLast
    <3> DEFINE i == reconciling[k].intent
    <3>1. i.at <= clock /\ i.at < t /\ i.at \in Nat
      BY <1>a, <2>3 DEF ReconcilersAreLast, Measured
    <3>2. Abandoned(i)'
      BY <1>a, <2>1, <2>2, <3>1 DEF Abandoned, OthersWait, Holding, WriterStage
    <3> QED
      BY <1>a, <2>3, <3>1, <3>2 DEF ReconcilersAreLast, Measured
  <2> QED
    BY <2>4, <2>5, <2>6, <2>7, <2>8, <2>9
<1>4. ASSUME NEW w \in Writer, StoreIntent(w)
      PROVE  Linked'
  <2> DEFINE n == IntentOf(w)
  <2>1. PICK stage \in {"announced", "releasing"} :
          /\ Goes(w, stage)
          /\ pending' = IF stage = "announced" THEN pending \union {n} ELSE pending
    BY <1>4 DEF StoreIntent
  <2>2. /\ writer[w].stage = "stamped"
        /\ UNCHANGED <<clock, object, log, permit, reconciling, unheard>>
    BY <1>4 DEF StoreIntent
  <2>3. Advances(w, stage)
    BY <2>1, Advancing
  <2>4. /\ PermitIsHeld'
        /\ \A v \in Writer :
             /\ writer'[v].stage # "idle" => writer'[v].path \in Path
             /\ writer'[v].stage \in Stamped <=> writer'[v].at # 0
             /\ writer'[v].at <= clock'
        /\ \A i : Abandoned(i) => Abandoned(i)'
        /\ \A v \in Writer \ {w} : writer[v].stage \notin Holding
    BY <1>a, <2>2, <2>3, AtWork DEF Stamped, Holding, WriterStage
  <2>5. n.at = writer[w].at /\ \A i \in pending \union log : i.at # n.at
    BY <2>2 DEF StampsAreUnique, IntentOf
  <2>6. n.at <= clock /\ n.at # 0 /\ n.at \in Nat /\ \A p \in Path : object[p].by < n.at
    BY <1>a, <2>2, <2>5 DEF StampsAreTaken, WritersKnowTheirIntent, Stamped, Holding,
                            WriterStage, Measured
  <2>7. StampsAreTaken'
    BY <2>1, <2>2, <2>4, <2>6 DEF StampsAreTaken
  <2>8. StampsAreUnique'
    <3>1. pending' \intersect log' = {}
      BY <2>1, <2>2, <2>5 DEF StampsAreUnique
    <3>2. \A i, j \in (pending \union log)' : i.at = j.at => i = j
      BY <2>1, <2>2, <2>5 DEF StampsAreUnique
    <3>3. ASSUME NEW v \in Writer, NEW i \in (pending \union log)',
                 i.at = writer'[v].at
          PROVE  i = IntentOf(v)' /\ writer'[v].stage # "stamped"
      <4>1. CASE v = w
        BY <2>1, <2>2, <2>3, <2>5, <3>3, <4>1 DEF Advances
      <4>2. CASE v # w
        <5>1. writer[v].at = 0
          BY <2>4, <4>2, <1>a DEF StampsAreTaken, Stamped, Measured
        <5>2. i.at # 0
          BY <1>a DEF Measured
        <5> QED
          BY <2>3, <3>3, <5>1, <5>2 DEF Advances
      <4> QED
        BY <4>1, <4>2
    <3> QED
      BY <3>1, <3>2, <3>3 DEF StampsAreUnique
  <2>9. ObjectsTellTheirIntent'
    BY <1>a, <2>1, <2>2, <2>6 DEF ObjectsTellTheirIntent, Measured
  <2>10. WritersKnowTheirIntent'
    <3> SUFFICES ASSUME NEW v \in Writer
                 PROVE /\ writer'[v].stage \in {"stamped", "announced"} =>
                            \A p \in Path : object[p].by < writer[v].at
                       /\ writer'[v].stage = "announced" => IntentOf(v) \in pending'
                       /\ writer'[v].stage = "aborting" =>
                            \A p \in Path :
                              object[p].by = writer[v].at => writer[v].at \in unheard
      BY <2>2, <2>3 DEF WritersKnowTheirIntent, Advances
    <3>1. CASE v = w
      BY <2>1, <2>2, <2>3, <2>5, <2>6, <3>1 DEF Advances
    <3>2. CASE v # w
      BY <2>3, <2>4, <3>2 DEF Advances, Holding, WriterStage
    <3> QED
      BY <3>1, <3>2
  <2>11. ReconcilersAreLast'
    BY <2>2, <2>4 DEF ReconcilersAreLast
  <2> QED
    BY <2>4, <2>7, <2>8, <2>9, <2>10, <2>11
<1>5. ASSUME NEW w \in Writer, MutateObject(w)
      PROVE  Linked'
  <2>1. PICK stage \in {"mutated", "aborting"} :
          /\ Goes(w, stage)
          /\ \/ /\ UNCHANGED <<object, unheard>>
                /\ stage = "aborting"
             \/ /\ object' = [object EXCEPT ![writer[w].path] =
                     [by |-> writer[w].at, present |-> writer[w].kind = "write",
                      modified |-> clock]]
                /\ \/ stage = "mutated" /\ UNCHANGED unheard
                   \/ stage = "aborting" /\ unheard' = unheard \union {writer[w].at}
    BY <1>5 DEF MutateObject
  <2>2. /\ writer[w].stage = "announced"
        /\ UNCHANGED <<clock, pending, log, permit, reconciling>>
    BY <1>5 DEF MutateObject, table
  <2>3. Advances(w, stage)
    BY <2>1, Advancing
  <2>4. /\ PermitIsHeld'
        /\ \A v \in Writer :
             /\ writer'[v].stage # "idle" => writer'[v].path \in Path
             /\ writer'[v].stage \in Stamped <=> writer'[v].at # 0
             /\ writer'[v].at <= clock'
        /\ \A i : Abandoned(i) => Abandoned(i)'
        /\ \A v \in Writer \ {w} : writer[v].stage \notin Holding
    BY <1>a, <2>2, <2>3, AtWork DEF Stamped, Holding, WriterStage
  <2>5. /\ IntentOf(w) \in pending
        /\ \A p \in Path : object[p].by < writer[w].at
        /\ writer[w].at \in Nat /\ writer[w].at <= clock
    BY <1>a, <2>2 DEF WritersKnowTheirIntent, Measured, StampsAreTaken
  <2>6. \A p \in Path :
          \/ object'[p] = object[p]
          \/ /\ p = writer[w].path
             /\ object'[p].by = writer[w].at
             /\ object'[p].present = (writer[w].kind = "write")
             /\ stage = "aborting" => writer[w].at \in unheard'
    BY <2>1 DEF WritesTypeOK
  <2>7. StampsAreTaken'
    <3>1. \A p \in Path : object'[p].by <= clock
      BY <2>5, <2>6 DEF StampsAreTaken
    <3> QED
      BY <2>2, <2>4, <3>1 DEF StampsAreTaken
  <2>8. StampsAreUnique'
    BY <2>1, <2>2, <2>3 DEF StampsAreUnique, Advances
  <2>9. ObjectsTellTheirIntent'
    <3> SUFFICES ASSUME NEW p \in Path, NEW i \in pending, object'[p].by = i.at
                 PROVE  p = i.path /\ object'[p].present = (i.kind = "write")
      BY <2>2 DEF ObjectsTellTheirIntent
    <3>1. CASE object'[p] = object[p]
      BY <3>1 DEF ObjectsTellTheirIntent
    <3>2. CASE object'[p] # object[p]
      <4>1. i.at = writer[w].at
        BY <2>6, <3>2
      <4>2. i = IntentOf(w)
        BY <4>1 DEF StampsAreUnique
      <4> QED
        BY <2>6, <3>2, <4>2 DEF IntentOf
    <3> QED
      BY <3>1, <3>2
  <2>10. WritersKnowTheirIntent'
    <3>1. \A v \in Writer \ {w} :
            writer'[v].stage \notin {"stamped", "announced", "aborting"}
      BY <2>3, <2>4 DEF Advances, Holding, WriterStage
    <3>2. ASSUME stage = "aborting", NEW p \in Path, object'[p].by = writer[w].at
          PROVE  writer[w].at \in unheard'
      <4>1. object'[p] # object[p]
        BY <1>a, <2>5, <3>2 DEF Measured
      <4> QED
        BY <2>6, <3>2, <4>1
    <3> QED
      BY <2>1, <2>3, <3>1, <3>2 DEF WritersKnowTheirIntent, Advances
  <2>11. ReconcilersAreLast'
    <3> SUFFICES ASSUME NEW k \in Reconciler, reconciling[k].intent # None,
                        ~reconciling[k].observed, NEW p \in Path
                 PROVE  object'[p].by # reconciling[k].intent.at
      BY <2>2, <2>4 DEF ReconcilersAreLast
    <3>1. Abandoned(reconciling[k].intent) /\ object[p].by # reconciling[k].intent.at
      BY DEF ReconcilersAreLast
    <3>2. writer[w].at # reconciling[k].intent.at
      BY <2>2, <3>1 DEF Abandoned, Holding, WriterStage
    <3> QED
      BY <2>6, <3>1, <3>2
  <2> QED
    BY <2>4, <2>7, <2>8, <2>9, <2>10, <2>11
<1>6. ASSUME NEW w \in Writer, AbortIntent(w)
      PROVE  Linked'
  <2>1. /\ writer[w].stage = "aborting"
        /\ Goes(w, "releasing")
        /\ UNCHANGED <<clock, object, permit, reconciling, unheard>>
    BY <1>6 DEF AbortIntent
  <2>2. pending' \subseteq pending /\ log' = log
    BY <1>6 DEF AbortIntent, Abort, table
  <2>3. Advances(w, "releasing")
    BY <2>1, Advancing
  <2>4. /\ PermitIsHeld'
        /\ \A v \in Writer :
             /\ writer'[v].stage # "idle" => writer'[v].path \in Path
             /\ writer'[v].stage \in Stamped <=> writer'[v].at # 0
             /\ writer'[v].at <= clock'
        /\ \A i : Abandoned(i) => Abandoned(i)'
        /\ \A v \in Writer \ {w} : writer[v].stage \notin Holding
    BY <1>a, <2>1, <2>3, AtWork DEF Stamped, Holding, WriterStage
  <2>5. StampsAreTaken'
    BY <2>1, <2>2, <2>4 DEF StampsAreTaken
  <2>6. StampsAreUnique'
    <3>1. \A v \in Writer : writer'[v].stage = "stamped" => writer[v].stage = "stamped"
      BY <2>3 DEF Advances
    <3> QED
      BY <2>2, <2>3, <3>1 DEF StampsAreUnique, Advances
  <2>7. ObjectsTellTheirIntent'
    BY <2>1, <2>2 DEF ObjectsTellTheirIntent
  <2>8. WritersKnowTheirIntent'
    <3>1. \A v \in Writer :
            writer'[v].stage \notin {"stamped", "announced", "aborting"}
      BY <2>3, <2>4 DEF Advances, Holding, WriterStage
    <3> QED
      BY <3>1 DEF WritersKnowTheirIntent
  <2>9. ReconcilersAreLast'
    BY <2>1, <2>4 DEF ReconcilersAreLast
  <2> QED
    BY <2>4, <2>5, <2>6, <2>7, <2>8, <2>9
<1>7. ASSUME NEW w \in Writer, PublishIntent(w)
      PROVE  Linked'
  <2>1. /\ writer[w].stage = "mutated"
        /\ Goes(w, "releasing")
        /\ UNCHANGED <<clock, object, permit, reconciling, unheard>>
    BY <1>7 DEF PublishIntent
  <2>2. /\ pending' \subseteq pending
        /\ (pending \union log)' = pending \union log
        /\ pending' \intersect log' = {}
    BY <1>7 DEF PublishIntent, Commit, table, StampsAreUnique
  <2>3. Advances(w, "releasing")
    BY <2>1, Advancing
  <2>4. /\ PermitIsHeld'
        /\ \A v \in Writer :
             /\ writer'[v].stage # "idle" => writer'[v].path \in Path
             /\ writer'[v].stage \in Stamped <=> writer'[v].at # 0
             /\ writer'[v].at <= clock'
        /\ \A i : Abandoned(i) => Abandoned(i)'
        /\ \A v \in Writer \ {w} : writer[v].stage \notin Holding
    BY <1>a, <2>1, <2>3, AtWork DEF Stamped, Holding, WriterStage
  <2>5. StampsAreTaken'
    BY <2>1, <2>2, <2>4 DEF StampsAreTaken
  <2>6. StampsAreUnique'
    <3>1. \A v \in Writer : writer'[v].stage = "stamped" => writer[v].stage = "stamped"
      BY <2>3 DEF Advances
    <3> QED
      BY <2>2, <2>3, <3>1 DEF StampsAreUnique, Advances
  <2>7. ObjectsTellTheirIntent'
    BY <2>1, <2>2 DEF ObjectsTellTheirIntent
  <2>8. WritersKnowTheirIntent'
    <3>1. \A v \in Writer :
            writer'[v].stage \notin {"stamped", "announced", "aborting"}
      BY <2>3, <2>4 DEF Advances, Holding, WriterStage
    <3> QED
      BY <3>1 DEF WritersKnowTheirIntent
  <2>9. ReconcilersAreLast'
    BY <2>1, <2>4 DEF ReconcilersAreLast
  <2> QED
    BY <2>4, <2>5, <2>6, <2>7, <2>8, <2>9
<1>8. ASSUME NEW w \in Writer, ReleasePermit(w)
      PROVE  Linked'
  <2>1. /\ OthersWait(w)
        /\ writer'[w].at = 0
        /\ writer'[w].stage = "idle"
        /\ permit' = IF permit = w THEN None ELSE permit
        /\ writer[w].stage = "releasing"
    BY <1>8 DEF ReleasePermit, Ends, Idle, OthersWait, WritesTypeOK
  <2>2. Quiet
    BY <1>8 DEF ReleasePermit, Quiet, table
  <2>3. PermitIsHeld'
    BY <2>1 DEF PermitIsHeld, OthersWait, Holding
  <2> QED
    BY <1>a, <2>1, <2>2, <2>3, AtRest
<1>9. ASSUME NEW w \in Writer, Crash(w)
      PROVE  Linked'
  <2>1. /\ OthersWait(w)
        /\ writer'[w].at = 0
        /\ writer'[w].stage = "idle"
    BY <1>9 DEF Crash, Ends, Idle, OthersWait, WritesTypeOK
  <2>2. Quiet
    BY <1>9 DEF Crash, Quiet, table
  <2>3. PermitIsHeld'
    BY <1>9, <2>1 DEF Crash, PermitIsHeld, OthersWait, Holding
  <2> QED
    BY <1>a, <2>1, <2>2, <2>3, AtRest
<1>10. ASSUME NEW k \in Reconciler, NEW i \in pending, Observe(k, i)
       PROVE  Linked'
  <2>1. /\ Abandoned(i)
        /\ reconciling'[k] = [intent |-> i, observed |-> Observed(i)]
        /\ \A l \in Reconciler \ {k} : reconciling'[l] = reconciling[l]
        /\ UNCHANGED <<clock, object, pending, log, permit, writer, unheard>>
    BY <1>10 DEF Observe, table, WritesTypeOK
  <2>2. i \in Intent /\ i.path \in Path
    BY DEF WritesTypeOK, Intent
  <2>3. ~Observed(i) => \A p \in Path : object[p].by # i.at
    <3> SUFFICES ASSUME ~Observed(i), NEW p \in Path, object[p].by = i.at
                 PROVE  FALSE
      OBVIOUS
    <3>1. p = i.path /\ object[i.path].present = (i.kind = "write")
      BY DEF ObjectsTellTheirIntent
    <3> QED
      BY <3>1 DEF Observed
  <2>4. ReconcilersAreLast'
    <3>1. i.at <= clock
      BY DEF StampsAreTaken
    <3> QED
      BY <2>1, <2>3, <3>1 DEF ReconcilersAreLast, Abandoned
  <2> QED
    BY <2>1, <2>4 DEF PermitIsHeld, StampsAreTaken, StampsAreUnique, IntentOf,
       ObjectsTellTheirIntent, WritersKnowTheirIntent
<1>11. ASSUME NEW k \in Reconciler, Resolve(k)
       PROVE  Linked'
  <2> DEFINE i == reconciling[k].intent
  <2>1. /\ i # None
        /\ reconciling'[k] = Resting
        /\ \A l \in Reconciler \ {k} : reconciling'[l] = reconciling[l]
        /\ UNCHANGED <<clock, object, permit, writer, unheard>>
    BY <1>11 DEF Resolve, WritesTypeOK
  <2>2. /\ pending' \subseteq pending
        /\ (pending \union log)' \subseteq pending \union log
        /\ pending' \intersect log' = {}
        /\ pending \ pending' \subseteq {i}
    BY <1>11 DEF Resolve, Commit, Abort, table, StampsAreUnique
  <2>3. \A v \in Writer : writer[v].stage = "announced" => IntentOf(v) # i
    <3>1. Abandoned(i)
      BY <2>1 DEF ReconcilersAreLast
    <3> QED
      BY <3>1 DEF Abandoned, IntentOf, Holding, WriterStage
  <2>4. WritersKnowTheirIntent'
    BY <2>1, <2>2, <2>3 DEF WritersKnowTheirIntent, IntentOf
  <2>5. ReconcilersAreLast'
    BY <2>1 DEF ReconcilersAreLast, Abandoned, Resting
  <2>6. StampsAreTaken' /\ StampsAreUnique' /\ ObjectsTellTheirIntent' /\ PermitIsHeld'
    BY <2>1, <2>2 DEF StampsAreTaken, StampsAreUnique, IntentOf, ObjectsTellTheirIntent,
                      PermitIsHeld
  <2> QED
    BY <2>4, <2>5, <2>6
<1>12. CASE ExpirePermit
  BY <1>12 DEF ExpirePermit, table, PermitIsHeld, StampsAreTaken, StampsAreUnique,
     IntentOf, ObjectsTellTheirIntent, WritersKnowTheirIntent, ReconcilersAreLast,
     Abandoned
<1>13. CASE Tick
  <2>1. UNCHANGED <<object, pending, log, permit, writer, reconciling, unheard>>
    BY <1>13 DEF Tick, table
  <2>2. \A n \in Nat : n <= clock => n <= clock'
    BY <1>13, <1>a DEF Tick, Measured
  <2>3. StampsAreTaken'
    BY <1>a, <2>1, <2>2 DEF StampsAreTaken, Measured
  <2>4. ReconcilersAreLast'
    BY <1>a, <2>1, <2>2 DEF ReconcilersAreLast, Abandoned, Measured
  <2> QED
    BY <2>1, <2>3, <2>4 DEF PermitIsHeld, StampsAreUnique, IntentOf,
       ObjectsTellTheirIntent, WritersKnowTheirIntent
<1> QED
  BY <1>0, <1>1, <1>2, <1>3, <1>4, <1>5, <1>6, <1>7, <1>8, <1>9, <1>10, <1>11,
     <1>12, <1>13
  DEF WritesNext, Requesting, Reconciling

LEMMA InitWrites == WritesInit => WritesInv
  BY InitTypes, InitLinked DEF WritesInv, Linked

LEMMA NextWrites == WritesInv /\ [WritesNext]_wvars => WritesInv'
<1> SUFFICES ASSUME WritesInv, [WritesNext]_wvars PROVE WritesInv'
  OBVIOUS
<1>1. WritesTypeOK'
  BY TypesKept DEF WritesInv
<1>2. Linked'
  BY <1>1, LinkedKept DEF WritesInv, Linked
<1> QED
  BY <1>1, <1>2 DEF WritesInv, Linked

LEMMA InvHolds == WritesSpec => []WritesInv
  BY InitWrites, NextWrites, PTL DEF WritesSpec

\* Every variable keeps to its type: each stamp within the clock's bound, and
\* nothing pending or logged that no request stamped.
THEOREM WritesTypesHold == WritesSpec => []WritesTypeOK
<1>1. WritesInv => WritesTypeOK
  BY DEF WritesInv
<1> QED
  BY InvHolds, <1>1, PTL

(***************************************************************************)
(* No silent change.                                                       *)
(***************************************************************************)
LEMMA AnnouncedKept ==
  ASSUME WritesInv, WritesInv', EveryChangeIsAnnounced, [WritesNext]_wvars
  PROVE  EveryChangeIsAnnounced'
<1> USE DEF EveryChangeIsAnnounced, Announced
<1>a. Linked /\ Measured
  BY Measures DEF WritesInv, Linked
\* Steps after which the same objects are there and every announcement too.
<1>b. ASSUME UNCHANGED object, unheard \subseteq unheard',
             \A i \in pending \union log : i \in (pending \union log)'
                \/ \A p \in Path : object[p].by = i.at => i.at \in unheard'
      PROVE  EveryChangeIsAnnounced'
  BY <1>b
<1>0. CASE UNCHANGED wvars
  BY <1>0 DEF wvars, table
<1>1. ASSUME NEW w \in Writer, NEW p \in Path, NEW kind \in {"write", "delete"},
             NEW expect \in Expectations, StartRequest(w, p, kind, expect)
      PROVE  EveryChangeIsAnnounced'
  BY <1>1 DEF StartRequest, table
<1>2. ASSUME NEW w \in Writer,
             \/ AcquirePermit(w) \/ StampIntent(w) \/ ReleasePermit(w) \/ Crash(w)
      PROVE  EveryChangeIsAnnounced'
  BY <1>2 DEF AcquirePermit, StampIntent, ReleasePermit, Crash, table
<1>3. ASSUME NEW w \in Writer, StoreIntent(w)
      PROVE  EveryChangeIsAnnounced'
  BY <1>3 DEF StoreIntent
<1>4. ASSUME NEW w \in Writer, MutateObject(w)
      PROVE  EveryChangeIsAnnounced'
  <2>1. IntentOf(w) \in pending /\ IntentOf(w).at = writer[w].at
    BY <1>4, <1>a DEF MutateObject, Linked, WritersKnowTheirIntent, IntentOf
  <2>2. \A p \in Path : object'[p] = object[p] \/ object'[p].by = writer[w].at
    BY <1>4 DEF MutateObject, WritesInv, WritesTypeOK
  <2> QED
    BY <1>4, <2>1, <2>2 DEF MutateObject, table
<1>5. ASSUME NEW w \in Writer, AbortIntent(w)
      PROVE  EveryChangeIsAnnounced'
  <2>1. \A p \in Path : object[p].by = IntentOf(w).at => IntentOf(w).at \in unheard
    BY <1>5, <1>a DEF AbortIntent, Linked, WritersKnowTheirIntent, IntentOf
  <2>2. \A i \in pending \union log : i \in (pending \union log)' \/ i = IntentOf(w)
    BY <1>5 DEF AbortIntent, Abort, table
  <2>3. UNCHANGED <<object, unheard>>
    BY <1>5 DEF AbortIntent
  <2> QED
    BY <1>b, <2>1, <2>2, <2>3
<1>6. ASSUME NEW w \in Writer, PublishIntent(w)
      PROVE  EveryChangeIsAnnounced'
  BY <1>6 DEF PublishIntent, Commit, table
<1>7. ASSUME NEW k \in Reconciler, NEW i \in pending, Observe(k, i)
      PROVE  EveryChangeIsAnnounced'
  BY <1>7 DEF Observe, table
<1>8. ASSUME NEW k \in Reconciler, Resolve(k)
      PROVE  EveryChangeIsAnnounced'
  <2> DEFINE i == reconciling[k].intent
  <2>1. i # None /\ UNCHANGED <<object, unheard>>
    BY <1>8 DEF Resolve
  <2>2. CASE reconciling[k].observed
    BY <1>8, <2>2 DEF Resolve, Commit, table
  <2>3. CASE ~reconciling[k].observed
    <3>1. \A p \in Path : object[p].by # i.at
      BY <1>a, <2>1, <2>3 DEF Linked, ReconcilersAreLast
    <3>2. \A j \in pending \union log : j \in (pending \union log)' \/ j = i
      BY <1>8, <2>3 DEF Resolve, Abort, table
    <3> QED
      BY <1>b, <2>1, <3>1, <3>2
  <2> QED
    BY <2>2, <2>3
<1>9. CASE ExpirePermit \/ Tick
  BY <1>9 DEF ExpirePermit, Tick, table
<1> QED
  BY <1>0, <1>1, <1>2, <1>3, <1>4, <1>5, <1>6, <1>7, <1>8, <1>9
  DEF WritesNext, Requesting, Reconciling

\* The change that left an object as it is was logged or is pending, whatever
\* failed or crashed and however many reconcilers looked at it, except a mutation
\* whose answer was an error.
THEOREM AnnouncedHolds == WritesSpec => []EveryChangeIsAnnounced
<1>1. WritesInit => EveryChangeIsAnnounced
  BY DEF WritesInit, EveryChangeIsAnnounced
<1>2. WritesInv /\ WritesInv' /\ EveryChangeIsAnnounced /\ [WritesNext]_wvars
        => EveryChangeIsAnnounced'
  BY AnnouncedKept
<1> QED
  BY <1>1, <1>2, InvHolds, PTL DEF WritesSpec

(***************************************************************************)
(* The revision.                                                           *)
(***************************************************************************)
Counted == IsFiniteSet(log) /\ RevisionCountsLog

LEMMA CommitCounts ==
  ASSUME Counted, StampsAreUnique, NEW i, Commit(i)
  PROVE  Counted'
<1>1. i \notin log
  BY DEF Commit, StampsAreUnique
<1>2. IsFiniteSet(log') /\ Cardinality(log') = Cardinality(log) + 1
  BY <1>1, FS_AddElement DEF Commit, Counted
<1> QED
  BY <1>2 DEF Counted, RevisionCountsLog, Commit

\* One count for one activity row, also when two passes and the request itself
\* publish the same intent.
THEOREM RevisionHolds == WritesSpec => []RevisionCountsLog
<1>1. WritesInit => Counted
  BY FS_EmptySet DEF WritesInit, Counted, RevisionCountsLog
<1>2. WritesInv /\ Counted /\ [WritesNext]_wvars => Counted'
  <2> SUFFICES ASSUME WritesInv, Counted, [WritesNext]_wvars PROVE Counted'
    OBVIOUS
  <2>1. CASE UNCHANGED <<log, revision>>
    BY <2>1 DEF Counted, RevisionCountsLog
  <2>2. ASSUME NEW i, Commit(i) PROVE Counted'
    BY <2>2, CommitCounts DEF WritesInv
  <2>3. UNCHANGED <<log, revision>> \/ \E i : Commit(i)
    BY DEF WritesNext, Requesting, Reconciling, StartRequest, AcquirePermit,
       StampIntent, StoreIntent, MutateObject, AbortIntent, Abort, PublishIntent,
       ReleasePermit, Crash, Observe, Resolve, ExpirePermit, Tick, table, wvars
  <2> QED
    BY <2>1, <2>2, <2>3
<1>3. Counted => RevisionCountsLog
  BY DEF Counted
<1> QED
  BY <1>1, <1>2, <1>3, InvHolds, PTL DEF WritesSpec

(***************************************************************************)
(* Order.                                                                  *)
(***************************************************************************)
\* No object is ever left in the state of an older intent: the permit makes
\* requests stamp and mutate one after the other.
THEOREM OrderHolds == WritesSpec => MutationsInOrder
<1>1. WritesInv /\ [WritesNext]_wvars
        => [\A p \in Path : object'[p].by >= object[p].by]_object
  <2> SUFFICES ASSUME WritesInv, [WritesNext]_wvars, object' # object,
                      NEW p \in Path
               PROVE  object'[p].by >= object[p].by
    OBVIOUS
  <2>1. PICK w \in Writer : MutateObject(w)
    BY DEF WritesNext, Requesting, Reconciling, StartRequest, AcquirePermit,
       StampIntent, StoreIntent, AbortIntent, Abort, PublishIntent,
       ReleasePermit, Crash, Observe, Resolve, ExpirePermit, Tick, table, wvars
  <2>2. object'[p] = object[p] \/ object'[p].by = writer[w].at
    BY <2>1 DEF MutateObject, WritesInv, WritesTypeOK
  <2>3. object[p].by < writer[w].at
    BY <2>1 DEF MutateObject, WritesInv, WritersKnowTheirIntent
  <2>4. object[p].by \in Nat /\ writer[w].at \in Nat
    BY Measures DEF WritesInv, Measured
  <2> QED
    BY <2>2, <2>3, <2>4
<1> QED
  BY <1>1, InvHolds, PTL DEF WritesSpec, MutationsInOrder

--------------------------------------------------------------------------------
HIDE WritesAssumption

(***************************************************************************)
(* What the log and the objects tell of each other.                        *)
(***************************************************************************)
\* i was carried out and perhaps followed by others, or it is a deletion of what
\* is gone.
Reflected(i) ==
  object[i.path].by >= i.at \/ (i.kind = "delete" /\ ~object[i.path].present)

\* No row and no reconciler's intent is later than that of the request at work.
LatestAtWork ==
  \A w \in Writer : writer[w].stage \in {"stamped", "announced"} =>
    /\ \A i \in pending \union log : i.at <= writer[w].at
    /\ \A k \in Reconciler :
         reconciling[k].intent # None => reconciling[k].intent.at <= writer[w].at

MutationStands ==
  \A w \in Writer : writer[w].stage = "mutated" => object[writer[w].path].by = writer[w].at

ObservationStands ==
  \A k \in Reconciler :
    reconciling[k].intent # None /\ reconciling[k].observed => Reflected(reconciling[k].intent)

LogTells ==
  /\ \A i \in log : Reflected(i)
  /\ \A i \in log, p \in Path :
       object[p].by = i.at => p = i.path /\ object[p].present = (i.kind = "write")

ModifiedLater == \A p \in Path : object[p].by <= object[p].modified

HistoryInv ==
  LatestAtWork /\ MutationStands /\ ObservationStands /\ LogTells /\ ModifiedLater

(***************************************************************************)
(* What a device holds, and what its sync has still to bring.              *)
(***************************************************************************)
\* x is a version path p had, or a deletion of it that was logged.
Past(p, x) ==
  /\ x <= object[p].by \/ (~object[p].present /\ Logged(x))
  /\ \A i \in pending \union log : i.at = x => i.path = p
  /\ \A w \in Writer : writer[w].stage = "stamped" => x < writer[w].at

LocalTells(c) ==
  \A p \in Path :
    /\ Past(p, local[c][p].by)
    /\ local[c][p].present => local[c][p].by <= object[p].by

\* The marks of a device and of its sync follow each other.
Marks(c) ==
  /\ cursor[c].at <= clock /\ cursor[c].revision <= revision
  /\ sync[c].stage \in {"stamped", "cursored", "answered"} =>
       cursor[c].at <= sync[c].stamp /\ sync[c].stamp <= clock
  /\ sync[c].stage \in {"cursored", "answered"} =>
       cursor[c].revision <= sync[c].revision /\ sync[c].revision <= revision
  /\ sync[c].stage # "answered" =>
       /\ sync[c].todo = {} /\ sync[c].deltas = {} /\ sync[c].late = {}
       /\ ~sync[c].failed

\* The sync has not changed what the device holds.
Untouched(c) ==
  sync[c].stage \in {"requested", "listed", "stamped", "cursored"} \/ sync[c].todo # {}

ManifestTells(c) == Untouched(c) => sync[c].manifest = {p \in Path : local[c][p].present}

\* A warm sync started when nothing was pending.
WarmWasQuiet(c) ==
  sync[c].stage \in {"listed", "stamped", "cursored"} /\ sync[c].mode = "warm" =>
    \A p \in Path, i \in pending : i.at # local[c][p].by

\* A published change the device's cursor stands for, and one that the answer to
\* its sync stands for.
Held(c, b) ==
  /\ Logged(b)
  /\ b <= cursor[c].at \/ (cursor[c].at > 0 /\ revision = cursor[c].revision)
  /\ <<c, b>> \notin missed

Due(c, b) ==
  /\ Logged(b)
  /\ b <= sync[c].stamp \/ revision = sync[c].revision
  /\ b \notin sync[c].late

Covered(c) == \A p \in Path : Held(c, object[p].by) => Has(c, p)

Accounted(c) ==
  sync[c].stage = "answered" /\ ~sync[c].failed =>
    \A p \in Path : Due(c, object[p].by) /\ <<c, object[p].by>> \notin missed =>
      Has(c, p) \/ p \in sync[c].todo \/ \E d \in sync[c].deltas : d.path = p

\* To exchange what the device holds for at is no step back.
NoStepBack(c, p, at) ==
  LET x == local[c][p].by IN at >= x \/ ~Announced(x) \/ x \in sync[c].late

\* The rows of a warm answer are the last ones of their paths.
Shown(c) ==
  sync[c].stage = "answered" /\ sync[c].mode = "warm" =>
    /\ \A e \in sync[c].events :
         /\ e \in log /\ e.at > cursor[c].at
         /\ e.path \in sync[c].todo => NoStepBack(c, e.path, e.at)
         /\ \A f \in sync[c].events : f.path = e.path => f = e
    /\ \A p \in sync[c].todo : \E e \in sync[c].events : e.path = p
    /\ \A i \in log : i.at > cursor[c].at /\ Due(c, i.at) =>
         \E e \in sync[c].events : e.path = i.path /\ e.at >= i.at

\* A removal is of what is gone, or the answer does not stand for what came after.
RemovalHolds(c, d) ==
  LET b == object[d.path].by IN
  /\ object[d.path].present => ~Due(c, b)
  /\ object[d.path].present /\ Logged(b) /\ b <= cursor[c].at => <<c, b>> \in missed
  /\ b > d.by /\ Due(c, b) => b <= cursor[c].at
  /\ NoStepBack(c, d.path, d.by)
  /\ Past(d.path, d.by)

DeltasHold(c) ==
  \A d \in sync[c].deltas :
    /\ d.path \notin sync[c].todo
    /\ \A f \in sync[c].deltas : f.path = d.path => f = d
    /\ d.kind = "delete" => RemovalHolds(c, d)

DeviceInv(c) ==
  /\ LocalTells(c) /\ Marks(c) /\ ManifestTells(c) /\ WarmWasQuiet(c)
  /\ Covered(c) /\ Accounted(c) /\ Shown(c) /\ DeltasHold(c)

SyncInv ==
  SyncTypeOK /\ WritesInv /\ HistoryInv /\ \A c \in Client : DeviceInv(c)

LEMMA InitHistory == WritesInit => HistoryInv
  BY DEF WritesInit, HistoryInv, LatestAtWork, MutationStands, ObservationStands, LogTells,
         ModifiedLater, Idle, Resting

\* A step that changes no object and no row, and advances no request at work.
LEMMA HistoryStays ==
  ASSUME HistoryInv, UNCHANGED <<object, log, reconciling>>, pending' \subseteq pending,
         \A w \in Writer : writer'[w].stage \in {"stamped", "announced", "mutated"} =>
            writer'[w] = writer[w]
  PROVE  HistoryInv'
<1> USE DEF HistoryInv
<1>1. LatestAtWork'
  BY DEF LatestAtWork
<1>2. MutationStands'
  BY DEF MutationStands
<1>3. ObservationStands' /\ LogTells' /\ ModifiedLater'
  BY DEF ObservationStands, LogTells, ModifiedLater, Reflected
<1> QED
  BY <1>1, <1>2, <1>3

\* A pending intent that is reflected may be logged.
LEMMA LoggingTells ==
  ASSUME WritesInv, LogTells, UNCHANGED object, NEW i \in pending, Reflected(i),
         log' = log \union {i}
  PROVE  LogTells'
<1>1. \A p \in Path : object[p].by = i.at => p = i.path /\ object[p].present = (i.kind = "write")
  BY DEF WritesInv, ObjectsTellTheirIntent
<1> QED
  BY <1>1 DEF LogTells, Reflected

LEMMA StampingHistory ==
  ASSUME WritesInv, HistoryInv, NEW w \in Writer, StampIntent(w)
  PROVE  HistoryInv'
<1> USE DEF HistoryInv
<1>a. Measured
  BY Measures DEF WritesInv
<1>1. /\ UNCHANGED <<object, pending, log, reconciling>>
      /\ writer'[w].at = clock + 1 /\ writer'[w].stage = "stamped"
      /\ \A v \in Writer \ {w} : writer'[v] = writer[v]
  BY DEF StampIntent, table, WritesInv, WritesTypeOK, Request
<1>2. /\ \A i \in pending \union log : i.at <= clock + 1
      /\ \A k \in Reconciler :
           reconciling[k].intent # None => reconciling[k].intent.at <= clock + 1
  <2>1. /\ \A i \in pending \union log : i.at <= clock /\ i.at \in Nat
        /\ \A k \in Reconciler : reconciling[k].intent # None =>
             reconciling[k].intent.at <= clock /\ reconciling[k].intent.at \in Nat
        /\ clock \in Nat
    BY <1>a DEF WritesInv, StampsAreTaken, ReconcilersAreLast, Measured
  <2> QED
    BY <2>1
<1>3. LatestAtWork'
  BY <1>1, <1>2 DEF LatestAtWork
<1>4. MutationStands'
  BY <1>1 DEF MutationStands
<1>5. ObservationStands' /\ LogTells' /\ ModifiedLater'
  BY <1>1 DEF ObservationStands, LogTells, ModifiedLater, Reflected
<1> QED
  BY <1>3, <1>4, <1>5

LEMMA StoringHistory ==
  ASSUME WritesInv, HistoryInv, NEW w \in Writer, StoreIntent(w)
  PROVE  HistoryInv'
<1> USE DEF HistoryInv
<1>a. Measured
  BY Measures DEF WritesInv
<1>1. CASE Goes(w, "releasing") /\ UNCHANGED pending
  <2>1. /\ writer'[w].stage = "releasing" /\ \A v \in Writer \ {w} : writer'[v] = writer[v]
    BY <1>1 DEF Goes, WritesInv, WritesTypeOK, Request
  <2> QED
    BY <1>1, <2>1, HistoryStays DEF StoreIntent
<1>2. CASE pending' = pending \union {IntentOf(w)} /\ Goes(w, "announced")
  <2>1. /\ UNCHANGED <<object, log, reconciling>>
        /\ writer[w].stage = "stamped" /\ writer'[w].stage = "announced"
        /\ writer'[w].at = writer[w].at
        /\ \A v \in Writer \ {w} : writer'[v] = writer[v]
    BY <1>2 DEF StoreIntent, Goes, WritesInv, WritesTypeOK, Request
  <2>2. \A v \in Writer \ {w} : writer[v].stage \notin {"stamped", "announced"}
    BY <2>1, OneAtWork DEF WritesInv, Holding, WriterStage
  <2>3. IntentOf(w).at = writer[w].at /\ writer[w].at \in Nat
    BY <1>a DEF IntentOf, Measured
  <2>4. LatestAtWork'
    <3>1. /\ \A i \in pending \union log : i.at <= writer[w].at
          /\ \A k \in Reconciler :
               reconciling[k].intent # None => reconciling[k].intent.at <= writer[w].at
      BY <2>1 DEF LatestAtWork
    <3>2. \A i \in pending' \union log' : i.at <= writer[w].at
      BY <1>2, <2>1, <2>3, <3>1
    <3> QED
      BY <2>1, <2>2, <3>1, <3>2 DEF LatestAtWork
  <2>5. MutationStands'
    BY <2>1 DEF MutationStands
  <2>6. ObservationStands' /\ LogTells' /\ ModifiedLater'
    BY <2>1 DEF ObservationStands, LogTells, ModifiedLater, Reflected
  <2> QED
    BY <2>4, <2>5, <2>6
<1> QED
  BY <1>1, <1>2 DEF StoreIntent

\* What a mutation leaves is later than all that was logged or concluded.
LEMMA MutatingHistory ==
  ASSUME WritesInv, HistoryInv, NEW w \in Writer, MutateObject(w)
  PROVE  HistoryInv'
<1> USE DEF HistoryInv
<1>a. Measured
  BY Measures DEF WritesInv
<1>b. /\ UNCHANGED <<pending, log, reconciling>> /\ writer[w].stage = "announced"
      /\ writer[w].path \in Path /\ object \in [Path -> Object]
      /\ \A v \in Writer \ {w} : writer'[v] = writer[v]
      /\ writer'[w].at = writer[w].at /\ writer'[w].path = writer[w].path
      /\ writer'[w].stage \in {"mutated", "aborting"}
  BY DEF MutateObject, Goes, table, WritesInv, WritesTypeOK, Request, StampsAreTaken
<1>1. CASE UNCHANGED object /\ Goes(w, "aborting")
  <2>1. writer'[w].stage = "aborting"
    BY <1>1 DEF Goes, WritesInv, WritesTypeOK, Request
  <2> QED
    BY <1>b, <1>1, <2>1, HistoryStays
<1>2. CASE object' = [object EXCEPT ![writer[w].path] =
             [by |-> writer[w].at, present |-> writer[w].kind = "write", modified |-> clock]]
  <2>1. /\ object'[writer[w].path].by = writer[w].at
        /\ object'[writer[w].path].modified = clock
        /\ \A p \in Path : p # writer[w].path => object'[p] = object[p]
    BY <1>b, <1>2
  <2>2. \A v \in Writer \ {w} : writer[v].stage \notin {"stamped", "announced", "mutated"}
    BY <1>b, OneAtWork DEF WritesInv, Holding, WriterStage
  <2>3. LatestAtWork' /\ MutationStands'
    BY <1>b, <2>1, <2>2 DEF LatestAtWork, MutationStands
  <2>4. /\ \A i \in log : Reflected(i) => Reflected(i)'
        /\ \A k \in Reconciler : reconciling[k].intent # None /\ Reflected(reconciling[k].intent) =>
             Reflected(reconciling[k].intent)'
    <3>1. ASSUME NEW i \in Intent, i.at <= writer[w].at
          PROVE  Reflected(i) => Reflected(i)'
      <4>1. i.path \in Path
        BY DEF Intent
      <4> QED
        BY <2>1, <3>1, <4>1 DEF Reflected
    <3> QED
      BY <1>a, <1>b, <3>1 DEF LatestAtWork, Measured
  <2>5. ObservationStands'
    BY <1>b, <2>4 DEF ObservationStands
  <2>6. \A i \in log : i.at # writer[w].at
    <3>1. IntentOf(w) \in pending
      BY <1>b DEF WritesInv, WritersKnowTheirIntent
    <3> QED
      BY <3>1 DEF WritesInv, StampsAreUnique, IntentOf
  <2>7. LogTells'
    BY <1>b, <2>1, <2>4, <2>6 DEF LogTells
  <2>8. ModifiedLater'
    BY <2>1 DEF ModifiedLater, WritesInv, StampsAreTaken
  <2> QED
    BY <2>3, <2>5, <2>7, <2>8
<1> QED
  BY <1>1, <1>2 DEF MutateObject

LEMMA PublishingHistory ==
  ASSUME WritesInv, HistoryInv, NEW w \in Writer, PublishIntent(w)
  PROVE  HistoryInv'
<1> USE DEF HistoryInv
<1>a. /\ UNCHANGED <<object, reconciling>> /\ writer[w].stage = "mutated"
      /\ writer'[w].stage = "releasing" /\ \A v \in Writer \ {w} : writer'[v] = writer[v]
  BY DEF PublishIntent, Goes, WritesInv, WritesTypeOK, Request
<1>1. CASE UNCHANGED table
  BY <1>a, <1>1, HistoryStays DEF table
<1>2. CASE Commit(IntentOf(w))
  <2> DEFINE i == IntentOf(w)
  <2>1. /\ i \in pending /\ log' = log \union {i} /\ pending' = pending \ {i}
        /\ i.at = writer[w].at /\ i.path = writer[w].path
    BY <1>2 DEF Commit, IntentOf
  <2>2. Reflected(i)
    <3>1. object[i.path].by = i.at /\ i.at \in Nat
      BY <1>a, <2>1, Measures DEF MutationStands, WritesInv, Measured
    <3> QED
      BY <3>1 DEF Reflected
  <2> HIDE DEF i
  <2>3. LogTells'
    BY <1>a, <2>1, <2>2, LoggingTells
  <2>4. LatestAtWork' /\ MutationStands'
    BY <1>a, <2>1 DEF LatestAtWork, MutationStands
  <2>5. ObservationStands' /\ ModifiedLater'
    BY <1>a DEF ObservationStands, ModifiedLater, Reflected
  <2> QED
    BY <2>3, <2>4, <2>5
<1> QED
  BY <1>1, <1>2 DEF PublishIntent

LEMMA ReconcilingHistory ==
  ASSUME WritesInv, HistoryInv, NEW k \in Reconciler,
         Resolve(k) \/ \E i \in pending : Observe(k, i)
  PROVE  HistoryInv'
<1> USE DEF HistoryInv
<1>a. Measured
  BY Measures DEF WritesInv
<1>b. /\ UNCHANGED <<object, writer>> /\ MutationStands' /\ ModifiedLater'
      /\ \A j \in Reconciler \ {k} : reconciling'[j] = reconciling[j]
  BY DEF Resolve, Observe, MutationStands, ModifiedLater, WritesInv, WritesTypeOK
<1>1. ASSUME NEW i \in pending, Observe(k, i) PROVE HistoryInv'
  <2>1. /\ UNCHANGED <<pending, log>>
        /\ reconciling'[k] = [intent |-> i, observed |-> Observed(i)]
    BY <1>1 DEF Observe, table, WritesInv, WritesTypeOK
  <2>2. reconciling'[k].intent = i /\ reconciling'[k].observed = Observed(i)
    BY <2>1
  <2>3. Observed(i) => Reflected(i)
    BY <1>a DEF Observed, Reflected, Measured, Intent
  <2>4. LatestAtWork'
    BY <1>b, <2>1, <2>2 DEF LatestAtWork
  <2>5. ObservationStands'
    BY <1>b, <2>2, <2>3 DEF ObservationStands, Reflected
  <2>6. LogTells'
    BY <1>b, <2>1 DEF LogTells, Reflected
  <2> QED
    BY <1>b, <2>4, <2>5, <2>6
<1>2. CASE Resolve(k)
  <2> DEFINE i == reconciling[k].intent
  <2>1. reconciling'[k].intent = None
    BY <1>2 DEF Resolve, Resting, WritesInv, WritesTypeOK
  <2>2. pending' \union log' \subseteq pending \union log
    BY <1>2 DEF Resolve, Commit, Abort, table
  <2>3. LatestAtWork'
    BY <1>b, <2>1, <2>2 DEF LatestAtWork
  <2>4. ObservationStands'
    BY <1>b, <2>1 DEF ObservationStands, Reflected
  <2>5. LogTells'
    <3>1. CASE log' = log
      BY <1>b, <3>1 DEF LogTells, Reflected
    <3>2. CASE reconciling[k].observed /\ Commit(i)
      <4>1. i # None /\ i \in pending /\ log' = log \union {i}
        BY <1>2, <3>2 DEF Resolve, Commit
      <4>2. Reflected(i)
        BY <3>2, <4>1 DEF ObservationStands
      <4> QED
        BY <1>b, <4>1, <4>2, LoggingTells
    <3> QED
      BY <1>2, <3>1, <3>2 DEF Resolve, Abort, table
  <2> QED
    BY <1>b, <2>3, <2>4, <2>5
<1> QED
  BY <1>1, <1>2

LEMMA NextHistory ==
  ASSUME WritesInv, HistoryInv, [WritesNext]_wvars
  PROVE  HistoryInv'
<1>a. writer \in [Writer -> Request]
  BY DEF WritesInv, WritesTypeOK
<1>1. ASSUME NEW w \in Writer, NEW p \in Path, NEW kind \in {"write", "delete"},
             NEW expect \in Expectations, StartRequest(w, p, kind, expect)
      PROVE  HistoryInv'
  <2>1. writer'[w].stage = "checked" /\ \A v \in Writer \ {w} : writer'[v] = writer[v]
    BY <1>a, <1>1 DEF StartRequest
  <2> QED
    BY <1>1, <2>1, HistoryStays DEF StartRequest, table
<1>2. ASSUME NEW w \in Writer, AcquirePermit(w) \/ AbortIntent(w) \/ ReleasePermit(w) \/ Crash(w)
      PROVE  HistoryInv'
  <2>1. /\ writer'[w].stage \in {"permitted", "releasing", "idle"}
        /\ \A v \in Writer \ {w} : writer'[v] = writer[v]
    BY <1>a, <1>2 DEF AcquirePermit, AbortIntent, ReleasePermit, Crash, Goes, Ends, Idle, Request
  <2>2. UNCHANGED <<object, log, reconciling>> /\ pending' \subseteq pending
    BY <1>2 DEF AcquirePermit, AbortIntent, ReleasePermit, Crash, Abort, table
  <2> QED
    BY <2>1, <2>2, HistoryStays
<1>3. CASE ExpirePermit \/ Tick \/ UNCHANGED wvars
  BY <1>3, HistoryStays DEF ExpirePermit, Tick, wvars, table
<1> QED
  BY <1>1, <1>2, <1>3, StampingHistory, StoringHistory, MutatingHistory, PublishingHistory,
     ReconcilingHistory DEF WritesNext, Requesting, Reconciling

(***************************************************************************)
(* What a step of the server's writers means to the devices.               *)
(***************************************************************************)
\* Nothing is taken from the log, what enters it was pending and is counted; an
\* object changes to an intent that is later than every row and has none yet.
Effect ==
  /\ clock <= clock' /\ log \subseteq log' /\ log' \ log \subseteq pending
  /\ revision <= revision' /\ (log' # log => revision < revision')
  /\ \A i \in pending' \ pending :
       \E w \in Writer : writer[w].stage = "stamped" /\ writer[w].at = i.at
  /\ \A p \in Path :
       \/ object'[p] = object[p]
       \/ /\ object[p].by < object'[p].by /\ \A i \in log' : i.at # object'[p].by
          /\ \A i \in log : i.at <= object'[p].by
  /\ \A w \in Writer : writer'[w].stage = "stamped" =>
       (writer[w].stage = "stamped" /\ writer'[w].at = writer[w].at) \/ clock < writer'[w].at

LEMMA MutatingEffect ==
  ASSUME WritesInv, HistoryInv, NEW w \in Writer, MutateObject(w)
  PROVE  Effect
<1>a. Measured
  BY Measures DEF WritesInv
<1>1. /\ UNCHANGED <<clock, pending, log, revision>> /\ writer[w].stage = "announced"
      /\ \A v \in Writer \ {w} : writer'[v] = writer[v]
      /\ writer'[w].stage \in {"mutated", "aborting"}
  BY DEF MutateObject, Goes, table, WritesInv, WritesTypeOK, Request
<1>2. \A i \in log : i.at <= writer[w].at /\ i.at # writer[w].at
  <2>1. IntentOf(w) \in pending
    BY <1>1 DEF WritesInv, WritersKnowTheirIntent
  <2> QED
    BY <1>1, <2>1 DEF WritesInv, StampsAreUnique, IntentOf, HistoryInv, LatestAtWork
<1>3. \A p \in Path : object'[p] = object[p] \/ object'[p].by = writer[w].at
  BY DEF MutateObject, WritesInv, WritesTypeOK
<1>4. \A p \in Path : object[p].by < writer[w].at
  BY <1>1 DEF WritesInv, WritersKnowTheirIntent
<1>5. \A p \in Path :
        \/ object'[p] = object[p]
        \/ /\ object[p].by < object'[p].by /\ \A i \in log' : i.at # object'[p].by
           /\ \A i \in log : i.at <= object'[p].by
  BY <1>1, <1>2, <1>3, <1>4
<1> QED
  BY <1>a, <1>1, <1>5 DEF Effect, Measured, WritesInv, WritesTypeOK

LEMMA WritesEffect ==
  ASSUME WritesInv, HistoryInv, [WritesNext]_wvars
  PROVE  Effect
<1>a. /\ Measured /\ writer \in [Writer -> Request] /\ revision \in Nat
  BY Measures DEF WritesInv, WritesTypeOK
<1>b. clock \in Nat /\ clock <= clock /\ revision <= revision /\ clock <= clock + 1
      /\ revision < revision + 1 /\ revision <= revision + 1 /\ clock < clock + 1
  BY <1>a DEF Measured
<1>1. ASSUME NEW w \in Writer, NEW p \in Path, NEW kind \in {"write", "delete"},
             NEW expect \in Expectations, StartRequest(w, p, kind, expect)
      PROVE  Effect
  <2>1. writer'[w].stage = "checked" /\ \A v \in Writer \ {w} : writer'[v] = writer[v]
    BY <1>a, <1>1 DEF StartRequest
  <2> QED
    BY <1>1, <1>b, <2>1 DEF Effect, StartRequest, table
<1>2. ASSUME NEW w \in Writer, AcquirePermit(w) \/ AbortIntent(w) \/ ReleasePermit(w) \/ Crash(w)
      PROVE  Effect
  <2>1. /\ writer'[w].stage # "stamped"
        /\ \A v \in Writer \ {w} : writer'[v] = writer[v]
    BY <1>a, <1>2 DEF AcquirePermit, AbortIntent, ReleasePermit, Crash, Goes, Ends, Idle, Request
  <2>2. UNCHANGED <<clock, object, log, revision>> /\ pending' \subseteq pending
    BY <1>2 DEF AcquirePermit, AbortIntent, ReleasePermit, Crash, Abort, table
  <2> QED
    BY <1>b, <2>1, <2>2 DEF Effect
<1>3. ASSUME NEW w \in Writer, StampIntent(w) PROVE Effect
  <2>1. /\ UNCHANGED <<object, pending, log, revision>> /\ clock' = clock + 1
        /\ writer'[w].at = clock + 1 /\ \A v \in Writer \ {w} : writer'[v] = writer[v]
    BY <1>a, <1>3 DEF StampIntent, table, Request
  <2> QED
    BY <1>b, <2>1 DEF Effect
<1>4. ASSUME NEW w \in Writer, StoreIntent(w) PROVE Effect
  <2>1. /\ UNCHANGED <<clock, object, log, revision>> /\ writer[w].stage = "stamped"
        /\ writer'[w].stage # "stamped" /\ \A v \in Writer \ {w} : writer'[v] = writer[v]
        /\ pending' \subseteq pending \union {IntentOf(w)} /\ IntentOf(w).at = writer[w].at
    BY <1>a, <1>4 DEF StoreIntent, Goes, Request, IntentOf
  <2> QED
    BY <1>b, <2>1 DEF Effect
<1>5. ASSUME NEW w \in Writer, PublishIntent(w) PROVE Effect
  <2>1. /\ UNCHANGED <<clock, object>> /\ writer'[w].stage # "stamped"
        /\ \A v \in Writer \ {w} : writer'[v] = writer[v]
    BY <1>a, <1>5 DEF PublishIntent, Goes, Request
  <2>2. \/ UNCHANGED <<pending, log, revision>>
        \/ /\ pending' \subseteq pending /\ log' = log \union {IntentOf(w)}
           /\ IntentOf(w) \in pending /\ revision' = revision + 1
    BY <1>5 DEF PublishIntent, Commit, table
  <2> QED
    BY <1>b, <2>1, <2>2 DEF Effect
<1>6. ASSUME NEW k \in Reconciler, Resolve(k) \/ \E i \in pending : Observe(k, i)
      PROVE  Effect
  <2>1. UNCHANGED <<clock, object, writer>>
    BY <1>6 DEF Resolve, Observe
  <2>2. \/ pending' \subseteq pending /\ UNCHANGED <<log, revision>>
        \/ /\ pending' \subseteq pending /\ revision' = revision + 1
           /\ \E i \in pending : log' = log \union {i}
    BY <1>6 DEF Resolve, Observe, Commit, Abort, table
  <2> QED
    BY <1>b, <2>1, <2>2 DEF Effect
<1>7. CASE ExpirePermit \/ Tick \/ UNCHANGED wvars
  <2>1. UNCHANGED <<object, pending, log, revision, writer>> /\ clock' \in {clock, clock + 1}
    BY <1>7 DEF ExpirePermit, Tick, wvars, table
  <2> QED
    BY <1>b, <2>1 DEF Effect
<1> QED
  BY <1>1, <1>2, <1>3, <1>4, <1>5, <1>6, <1>7, MutatingEffect
     DEF WritesNext, Requesting, Reconciling

\* A version a path had stays one.
LEMMA PastStays ==
  ASSUME WritesInv, WritesInv', Effect, NEW p \in Path, NEW x \in Nat, Past(p, x)
  PROVE  Past(p, x)'
<1>a. Measured /\ Measured'
  BY Measures, PTL DEF WritesInv
<1>b. x <= clock
  <2>1. object[p].by <= clock /\ \A i \in log : i.at <= clock
    BY DEF WritesInv, StampsAreTaken
  <2> QED
    BY <1>a, <2>1 DEF Past, Logged, Measured
<1>1. (x <= object[p].by \/ (~object[p].present /\ Logged(x)))'
  <2>1. CASE object'[p] = object[p]
    BY <2>1 DEF Past, Logged, Effect
  <2>2. CASE object[p].by < object'[p].by /\ \A i \in log : i.at <= object'[p].by
    BY <1>a, <2>2 DEF Past, Logged, Measured
  <2> QED
    BY <2>1, <2>2 DEF Effect
<1>2. \A i \in pending' \union log' : i.at = x => i.path = p
  <2>1. \A i \in pending' \union log' : i \in pending \union log \/ i.at # x
    BY <1>a DEF Effect, Past, Measured
  <2> QED
    BY <2>1 DEF Past
<1>3. \A w \in Writer : writer'[w].stage = "stamped" => x < writer'[w].at
  <2> SUFFICES ASSUME NEW w \in Writer, writer'[w].stage = "stamped" PROVE x < writer'[w].at
    OBVIOUS
  <2>1. CASE writer[w].stage = "stamped" /\ writer'[w].at = writer[w].at
    BY <2>1 DEF Past
  <2>2. CASE clock < writer'[w].at
    BY <1>a, <1>b, <2>2 DEF Measured
  <2> QED
    BY <2>1, <2>2 DEF Effect
<1> QED
  BY <1>1, <1>2, <1>3 DEF Past

(***************************************************************************)
(* Types.                                                                  *)
(***************************************************************************)
\* The numbers the invariant compares.
Numbers ==
  /\ revision \in Nat /\ clock \in Nat
  /\ \A p \in Path : object[p].by \in Nat /\ object[p].modified \in Nat
  /\ \A i \in pending \union log : i.at \in Nat /\ i.path \in Path
  /\ \A c \in Client :
       /\ cursor[c].at \in Nat /\ cursor[c].revision \in Nat
       /\ sync[c].stamp \in Nat /\ sync[c].revision \in Nat
       /\ sync[c].stage \in SyncStage /\ sync[c].mode \in {"warm", "cold"}
       /\ sync[c].todo \subseteq Path /\ sync[c].failed \in BOOLEAN
       /\ \A p \in Path : local[c][p].by \in Nat /\ local[c][p].present \in BOOLEAN
       /\ \A d \in sync[c].deltas :
            d.path \in Path /\ d.by \in Nat /\ d.kind \in {"download", "delete"}

LEMMA Instants == Instant \subseteq Nat /\ 0 \in Instant /\ 1..MaxTime \subseteq Instant
  BY WritesAssumption DEF Instant

LEMMA TypesGiveNumbers == ASSUME SyncTypeOK PROVE Numbers
<1>1. Instant \subseteq Nat /\ 1..MaxTime \subseteq Nat
  BY Instants
<1>2. /\ revision \in Nat /\ clock \in Nat
      /\ \A p \in Path : object[p].by \in Nat /\ object[p].modified \in Nat
      /\ \A i \in pending \union log : i.at \in Nat /\ i.path \in Path
  BY <1>1 DEF SyncTypeOK, WritesTypeOK, Object, Intent
<1>3. ASSUME NEW c \in Client
      PROVE  /\ cursor[c].at \in Nat /\ cursor[c].revision \in Nat
             /\ sync[c].stamp \in Nat /\ sync[c].revision \in Nat
             /\ sync[c].stage \in SyncStage /\ sync[c].mode \in {"warm", "cold"}
             /\ sync[c].todo \subseteq Path /\ sync[c].failed \in BOOLEAN
             /\ sync[c].deltas \subseteq Delta
  BY <1>1 DEF SyncTypeOK, Sync
<1>4. ASSUME NEW c \in Client, NEW p \in Path
      PROVE  local[c][p].by \in Nat /\ local[c][p].present \in BOOLEAN
  <2>1. local[c][p] \in Copy
    BY DEF SyncTypeOK
  <2> QED
    BY <1>1, <2>1 DEF Copy
<1>5. \A d \in Delta : d.path \in Path /\ d.by \in Nat /\ d.kind \in {"download", "delete"}
  BY <1>1 DEF Delta
<1> QED
  BY <1>2, <1>3, <1>4, <1>5 DEF Numbers

LEMMA InitSync == SyncInit => SyncInv
<1> SUFFICES ASSUME SyncInit PROVE SyncInv
  OBVIOUS
<1>1. WritesInv /\ HistoryInv
  BY InitWrites, InitHistory DEF SyncInit
<1>2. \A c \in Client : sync[c] = NoSync /\ cursor[c] = [at |-> 0, revision |-> 0]
  BY DEF SyncInit
<1>3. \A c \in Client, p \in Path : local[c][p] = [by |-> 0, present |-> FALSE]
  BY DEF SyncInit
<1>4. /\ clock = 0 /\ revision = 0 /\ log = {} /\ pending = {}
      /\ \A p \in Path : object[p] = [by |-> 0, present |-> FALSE, modified |-> 0]
      /\ \A w \in Writer : writer[w] = Idle
  BY DEF SyncInit, WritesInit
<1>5. SyncTypeOK
  <2>1. NoSync \in Sync
    BY Instants DEF NoSync, Sync, SyncStage
  <2>2. [at |-> 0, revision |-> 0] \in [at : Instant, revision : Nat]
        /\ [by |-> 0, present |-> FALSE] \in Copy
    BY Instants DEF Copy
  <2> QED
    BY <1>1, <2>1, <2>2 DEF SyncTypeOK, SyncInit, WritesInv
<1>6. ASSUME NEW c \in Client PROVE DeviceInv(c)
  <2>1. LocalTells(c)
    BY <1>3, <1>4 DEF LocalTells, Past, Idle
  <2>2. Marks(c) /\ ManifestTells(c) /\ WarmWasQuiet(c)
    BY <1>2, <1>4 DEF Marks, ManifestTells, Untouched, WarmWasQuiet, NoSync
  <2>3. Covered(c) /\ Accounted(c) /\ Shown(c) /\ DeltasHold(c)
    BY <1>2, <1>4 DEF Covered, Held, Logged, Accounted, Shown, DeltasHold, NoSync
  <2> QED
    BY <2>1, <2>2, <2>3 DEF DeviceInv
<1> QED
  BY <1>1, <1>5, <1>6 DEF SyncInv

\* A delta of a warm answer is of a row it shows.
LEMMA ShownRow ==
  ASSUME NEW c \in Client, Shown(c), sync[c].stage = "answered", sync[c].mode = "warm",
         NEW p \in sync[c].todo
  PROVE  LET e == CHOOSE i \in sync[c].events : i.path = p IN
         e \in sync[c].events /\ e.path = p /\ e \in log
  BY DEF Shown

LEMMA BuiltDeltas ==
  ASSUME SyncTypeOK, NEW c \in Client, Shown(c), NEW p \in Path, BuildDelta(c, p)
  PROVE  /\ WarmDelta(c, p) \subseteq Delta \/ sync[c].mode # "warm"
         /\ ColdDelta(c, p) \subseteq Delta
<1>1. ASSUME NEW at \in Instant PROVE Remove(p, at) \subseteq Delta /\ Download(p) \subseteq Delta
  BY Instants DEF Remove, Download, Delta
<1>2. object[p].by \in Instant
  BY DEF SyncTypeOK, WritesTypeOK, Object
<1>3. ColdDelta(c, p) \subseteq Delta
  BY <1>1, <1>2 DEF ColdDelta
<1>4. CASE sync[c].mode = "warm"
  <2> DEFINE e == CHOOSE i \in sync[c].events : i.path = p
  <2>1. e \in Intent
    BY <1>4, ShownRow DEF BuildDelta, SyncTypeOK, WritesTypeOK
  <2>2. e.at \in Instant
    BY <2>1, Instants DEF Intent
  <2> QED
    BY <1>1, <1>2, <1>3, <2>2 DEF WarmDelta
<1> QED
  BY <1>3, <1>4

\* A step of one device leaves the types if its copy, cursor and sync have theirs.
LEMMA OwnTypes ==
  ASSUME SyncTypeOK, UNCHANGED <<wvars, fresh>>, NEW c \in Client,
         \E r \in Sync : sync' = [sync EXCEPT ![c] = r],
         \E r \in [at : Instant, revision : Nat] : cursor' = [cursor EXCEPT ![c] = r],
         \E r \in [Path -> Copy] : local' = [local EXCEPT ![c] = r],
         missed' \subseteq Client \X Instant
  PROVE  SyncTypeOK'
  BY DEF SyncTypeOK, WritesTypeOK, wvars, table

LEMMA SyncTypes ==
  ASSUME SyncTypeOK, UNCHANGED <<wvars, fresh, local, cursor, missed>>, NEW c \in Client,
         NEW r \in Sync, sync' = [sync EXCEPT ![c] = r]
  PROVE  SyncTypeOK'
  BY DEF SyncTypeOK, WritesTypeOK, wvars, table

LEMMA MutateTypes ==
  ASSUME SyncTypeOK, WritesInv', Effect, Mutate
  PROVE  SyncTypeOK'
<1>1. WritesTypeOK' /\ log \subseteq log' /\ log' \subseteq Intent
  BY DEF WritesInv, WritesTypeOK, Effect
<1>2. ASSUME NEW mark PROVE Below(log' \ log, mark) \subseteq Instant
  BY <1>1, Instants DEF Below, Intent
<1>3. sync' \in [Client -> Sync]
  <2>1. ASSUME NEW c \in Client
        PROVE  [sync[c] EXCEPT !.late = @ \union Below(log' \ log, sync[c].stamp)] \in Sync
    <3>1. sync[c] \in Sync /\ Below(log' \ log, sync[c].stamp) \subseteq Instant
      BY <1>2 DEF SyncTypeOK
    <3> QED
      BY <3>1 DEF Sync
  <2> QED
    BY <2>1 DEF Mutate, SyncTypeOK
<1>4. missed' \subseteq Client \X Instant
  <2>1. ASSUME NEW x \in UNION {{c} \X Below(log' \ log, cursor[c].at) : c \in Client}
        PROVE  x \in Client \X Instant
    <3>1. PICK c \in Client : x \in {c} \X Below(log' \ log, cursor[c].at)
      OBVIOUS
    <3> DEFINE late == Below(log' \ log, cursor[c].at)
    <3>2. late \subseteq Instant
      BY <1>2
    <3>3. x \in {c} \X late
      BY <3>1
    <3> HIDE DEF late
    <3> QED
      BY <3>2, <3>3
  <2> QED
    BY <2>1 DEF Mutate, SyncTypeOK
<1> QED
  BY <1>1, <1>3, <1>4 DEF Mutate, SyncTypeOK

LEMMA DeviceTypes ==
  ASSUME SyncTypeOK, NEW c \in Client, Shown(c), Syncing(c)
  PROVE  SyncTypeOK'
<1>a. /\ sync \in [Client -> Sync] /\ sync[c] \in Sync /\ missed \subseteq Client \X Instant
      /\ local \in [Client -> [Path -> Copy]] /\ local[c] \in [Path -> Copy]
      /\ cursor \in [Client -> [at : Instant, revision : Nat]]
      /\ cursor[c] \in [at : Instant, revision : Nat]
      /\ clock \in Instant /\ revision \in Nat /\ log \subseteq Intent /\ fresh \subseteq log
  BY DEF SyncTypeOK, WritesTypeOK
<1>b. /\ UNCHANGED local => \E r \in [Path -> Copy] : local' = [local EXCEPT ![c] = r]
      /\ UNCHANGED cursor =>
           \E r \in [at : Instant, revision : Nat] : cursor' = [cursor EXCEPT ![c] = r]
  BY <1>a
<1>c. NoSync \in Sync
  BY Instants DEF NoSync, Sync, SyncStage
<1>d. Since(c) \subseteq Intent /\ \A rows \in SUBSET Intent :
        /\ LastOfPath(rows) \subseteq Intent
        /\ {i.path : i \in rows} \subseteq Path /\ {i.at : i \in rows} \subseteq Instant
  BY <1>a, Instants DEF Since, LastOfPath, Intent
<1>1. CASE RequestSync(c)
  <2> DEFINE r == [sync[c] EXCEPT !.stage = "requested", !.manifest = {p \in Path : local[c][p].present}]
  <2>1. r \in Sync
    BY <1>a DEF Sync, SyncStage
  <2>2. sync' = [sync EXCEPT ![c] = r] /\ UNCHANGED <<wvars, fresh, local, cursor, missed>>
    BY <1>a, <1>1 DEF RequestSync
  <2> QED
    BY <2>1, <2>2, SyncTypes
<1>2. CASE ListPending(c)
  <2>1. PICK mode \in {"warm", "cold"} :
          sync' = [sync EXCEPT ![c].stage = "listed", ![c].mode = mode]
    BY <1>2 DEF ListPending
  <2> DEFINE r == [sync[c] EXCEPT !.stage = "listed", !.mode = mode]
  <2>2. r \in Sync
    BY <1>a DEF Sync, SyncStage
  <2>3. sync' = [sync EXCEPT ![c] = r] /\ UNCHANGED <<wvars, fresh, local, cursor, missed>>
    BY <1>a, <1>2, <2>1 DEF ListPending
  <2> QED
    BY <2>2, <2>3, SyncTypes
<1>3. CASE TakeStamp(c)
  <2> DEFINE r == [sync[c] EXCEPT !.stage = "stamped", !.stamp = clock]
  <2>1. r \in Sync
    BY <1>a DEF Sync, SyncStage
  <2>2. sync' = [sync EXCEPT ![c] = r] /\ UNCHANGED <<wvars, fresh, local, cursor, missed>>
    BY <1>a, <1>3 DEF TakeStamp
  <2> QED
    BY <2>1, <2>2, SyncTypes
<1>4. CASE ReadCursor(c)
  <2> DEFINE r == [sync[c] EXCEPT !.stage = "cursored", !.revision = revision]
  <2>1. r \in Sync
    BY <1>a DEF Sync, SyncStage
  <2>2. sync' = [sync EXCEPT ![c] = r] /\ UNCHANGED <<wvars, fresh, local, cursor, missed>>
    BY <1>a, <1>4 DEF ReadCursor
  <2> QED
    BY <2>1, <2>2, SyncTypes
<1>5. CASE QueryLog(c)
  <2>1. PICK unseen \in SUBSET (fresh \intersect Since(c)) :
          sync' = [sync EXCEPT ![c].stage = "answered",
                     ![c].events = LastOfPath(Since(c) \ unseen),
                     ![c].todo = {i.path : i \in LastOfPath(Since(c) \ unseen)},
                     ![c].late = {i.at : i \in unseen}]
    BY <1>5 DEF QueryLog
  <2> DEFINE events == LastOfPath(Since(c) \ unseen)
             paths == {i.path : i \in events}
             late == {i.at : i \in unseen}
  <2>2. events \subseteq Intent /\ paths \subseteq Path /\ late \subseteq Instant
    BY <1>d
  <2> HIDE DEF events, paths, late
  <2>3. [sync[c] EXCEPT !.stage = "answered", !.events = events, !.todo = paths,
                        !.late = late] \in Sync
    BY <1>a, <2>2 DEF Sync, SyncStage
  <2>4. \E r \in Sync : sync' = [sync EXCEPT ![c] = r]
    BY <1>a, <2>1, <2>3 DEF events, paths, late
  <2> QED
    BY <1>5, <2>4, SyncTypes DEF QueryLog
<1>6. CASE StartScan(c)
  <2> DEFINE r == [sync[c] EXCEPT !.stage = "answered", !.todo = Path]
  <2>1. r \in Sync
    BY <1>a DEF Sync, SyncStage
  <2>2. sync' = [sync EXCEPT ![c] = r] /\ UNCHANGED <<wvars, fresh, local, cursor, missed>>
    BY <1>a, <1>6 DEF StartScan
  <2> QED
    BY <2>1, <2>2, SyncTypes
<1>7. ASSUME NEW p \in Path, BuildDelta(c, p) PROVE SyncTypeOK'
  <2> DEFINE late == sync[c].late \union RoundedAway(c, p)
             deltas == sync[c].deltas \union
                         IF sync[c].mode = "warm" THEN WarmDelta(c, p) ELSE ColdDelta(c, p)
  <2>1. late \subseteq Instant
    BY <1>a DEF RoundedAway, SyncTypeOK, WritesTypeOK, Object, Sync
  <2>2. deltas \subseteq Delta
    BY <1>a, <1>7, BuiltDeltas DEF Sync
  <2>3. sync' = [sync EXCEPT ![c] =
                  [sync[c] EXCEPT !.todo = @ \ {p}, !.late = late, !.deltas = deltas]]
    BY <1>a, <1>7 DEF BuildDelta
  <2> HIDE DEF late, deltas
  <2>4. [sync[c] EXCEPT !.todo = @ \ {p}, !.late = late, !.deltas = deltas] \in Sync
    BY <1>a, <2>1, <2>2 DEF Sync
  <2> QED
    BY <1>7, <2>3, <2>4, SyncTypes DEF BuildDelta
<1>8. ASSUME NEW d \in sync[c].deltas, ApplyDelta(c, d) PROVE SyncTypeOK'
  <2>a. d.path \in Path /\ d.by \in Instant
    BY <1>a DEF Sync, Delta
  <2>b. object[d.path].by \in Instant
    BY <2>a DEF SyncTypeOK, WritesTypeOK, Object
  <2>1. missed' \subseteq Client \X Instant
    BY <1>a, <1>8 DEF ApplyDelta, Sync
  <2>2. \E r \in [Path -> Copy] : local' = [local EXCEPT ![c] = r]
    <3>1. /\ [local[c] EXCEPT ![d.path] = [by |-> d.by, present |-> FALSE]] \in [Path -> Copy]
          /\ [local[c] EXCEPT ![d.path] = [by |-> object[d.path].by, present |-> TRUE]]
               \in [Path -> Copy]
      BY <1>a, <2>a, <2>b DEF Copy
    <3> QED
      BY <1>b, <1>8, <3>1 DEF ApplyDelta
  <2>3. \E r \in Sync : sync' = [sync EXCEPT ![c] = r]
    <3>1. PassedOver(d) \subseteq Instant
      BY <1>a, <2>a, Instants DEF PassedOver, Intent
    <3>2. /\ [sync[c] EXCEPT !.deltas = @ \ {d}] \in Sync
          /\ [sync[c] EXCEPT !.deltas = @ \ {d}, !.failed = TRUE] \in Sync
          /\ [sync[c] EXCEPT !.deltas = @ \ {d}, !.late = @ \union PassedOver(d)] \in Sync
      BY <1>a, <3>1 DEF Sync
    <3> QED
      BY <1>8, <3>2 DEF ApplyDelta
  <2> QED
    BY <1>b, <1>8, <2>1, <2>2, <2>3, OwnTypes DEF ApplyDelta
<1>9. CASE FinishSync(c)
  <2>1. /\ missed' \subseteq Client \X Instant
        /\ \E r \in [at : Instant, revision : Nat] : cursor' = [cursor EXCEPT ![c] = r]
    BY <1>a, <1>b, <1>9 DEF FinishSync, Sync
  <2> QED
    BY <1>b, <1>c, <1>9, <2>1, OwnTypes DEF FinishSync
<1>10. CASE AbandonSync(c)
  BY <1>c, <1>10, SyncTypes DEF AbandonSync
<1> QED
  BY <1>1, <1>2, <1>3, <1>4, <1>5, <1>6, <1>7, <1>8, <1>9, <1>10 DEF Syncing

LEMMA SyncTypesKept ==
  ASSUME SyncInv, WritesInv', Mutate => Effect, [SyncNext]_svars
  PROVE  SyncTypeOK'
<1>1. CASE Replicate \/ UNCHANGED svars
  BY <1>1 DEF Replicate, cvars, svars, wvars, table, SyncInv, SyncTypeOK, WritesInv
<1> QED
  BY <1>1, MutateTypes, DeviceTypes DEF SyncNext, SyncInv, DeviceInv

(***************************************************************************)
(* Steps a device is not in.                                               *)
(***************************************************************************)
\* Of a device nothing changes that the invariant looks at.
LEMMA Aside ==
  ASSUME NEW c \in Client, DeviceInv(c), UNCHANGED wvars,
         local'[c] = local[c], cursor'[c] = cursor[c], sync'[c] = sync[c],
         \A b : <<c, b>> \in missed' <=> <<c, b>> \in missed
  PROVE  DeviceInv(c)'
<1>1. UNCHANGED <<clock, object, pending, log, revision, writer>>
  BY DEF wvars, table
<1>2. /\ \A x : Logged(x)' = Logged(x) /\ Announced(x)' = Announced(x)
      /\ \A p, x : Past(p, x)' = Past(p, x)
  BY <1>1 DEF Logged, Announced, Past
<1>3. /\ \A b : Held(c, b)' = Held(c, b) /\ Due(c, b)' = Due(c, b)
      /\ \A p : Has(c, p)' = Has(c, p)
      /\ \A p, at : NoStepBack(c, p, at)' = NoStepBack(c, p, at)
  BY <1>1, <1>2 DEF Held, Due, Has, NoStepBack
<1>4. LocalTells(c)' /\ Marks(c)' /\ ManifestTells(c)' /\ WarmWasQuiet(c)'
  BY <1>1, <1>2 DEF DeviceInv, LocalTells, Marks, ManifestTells, Untouched, WarmWasQuiet
<1>5. Covered(c)' /\ Accounted(c)' /\ Shown(c)'
  BY <1>1, <1>3 DEF DeviceInv, Covered, Accounted, Shown
<1>6. \A d : RemovalHolds(c, d)' = RemovalHolds(c, d)
  BY <1>1, <1>2, <1>3 DEF RemovalHolds
<1>7. DeltasHold(c)'
  BY <1>6 DEF DeviceInv, DeltasHold
<1> QED
  BY <1>4, <1>5, <1>7 DEF DeviceInv

\* A device whose sync has no answer keeps what it holds and stands for.
LEMMA Unanswered ==
  ASSUME NEW c \in Client, DeviceInv(c), UNCHANGED <<wvars, local, cursor, missed>>,
         sync'[c].stage # "answered", sync'[c].deltas = {}
  PROVE  LocalTells(c)' /\ Covered(c)' /\ Accounted(c)' /\ Shown(c)' /\ DeltasHold(c)'
<1>1. UNCHANGED <<clock, object, pending, log, revision, writer>>
  BY DEF wvars, table
<1>2. LocalTells(c)'
  BY <1>1 DEF DeviceInv, LocalTells, Past, Logged
<1>3. Covered(c)'
  BY <1>1 DEF DeviceInv, Covered, Held, Logged, Has
<1> QED
  BY <1>2, <1>3 DEF Accounted, Shown, DeltasHold

\* The steps up to the answer, and the end of a sync that counts for nothing.
LEMMA PreparingKeeps ==
  ASSUME SyncInv, NEW c \in Client,
         \/ RequestSync(c) \/ ListPending(c) \/ TakeStamp(c) \/ ReadCursor(c)
         \/ AbandonSync(c)
  PROVE  DeviceInv(c)'
<1>a. sync \in [Client -> Sync] /\ Numbers /\ DeviceInv(c)
  BY TypesGiveNumbers DEF SyncInv, SyncTypeOK
<1>b. UNCHANGED <<wvars, local, cursor, missed>>
  BY DEF RequestSync, ListPending, TakeStamp, ReadCursor, AbandonSync
<1>c. UNCHANGED <<clock, pending, revision>>
  BY <1>b DEF wvars, table
<1>1. CASE RequestSync(c)
  <2>1. /\ sync[c].stage = "idle" /\ sync'[c].stage = "requested"
        /\ sync'[c].manifest = {p \in Path : local[c][p].present}
        /\ sync'[c].todo = sync[c].todo /\ sync'[c].deltas = sync[c].deltas
        /\ sync'[c].late = sync[c].late /\ sync'[c].failed = sync[c].failed
    BY <1>a, <1>1 DEF RequestSync, Sync
  <2>2. Marks(c)' /\ ManifestTells(c)' /\ WarmWasQuiet(c)' /\ sync'[c].deltas = {}
    BY <1>a, <1>b, <1>c, <2>1 DEF DeviceInv, Marks, ManifestTells, WarmWasQuiet
  <2> QED
    BY <1>a, <1>b, <2>1, <2>2, Unanswered DEF DeviceInv
<1>2. CASE ListPending(c)
  <2>0. PICK mode \in {"warm", "cold"} :
                       /\ sync' = [sync EXCEPT ![c].stage = "listed", ![c].mode = mode]
                       /\ mode = "warm" => pending = {}
    BY <1>2 DEF ListPending
  <2>a. sync'[c] = [sync[c] EXCEPT !.stage = "listed", !.mode = mode] /\ sync[c] \in Sync
    BY <1>a, <2>0
  <2>b. sync[c].stage = "requested" /\ (mode = "warm" => pending = {})
    BY <1>2, <2>0 DEF ListPending
  <2>1. /\ sync[c].stage = "requested" /\ sync'[c].stage = "listed"
        /\ sync'[c].mode = "warm" => pending = {}
        /\ sync'[c].manifest = sync[c].manifest
        /\ sync'[c].todo = sync[c].todo /\ sync'[c].deltas = sync[c].deltas
        /\ sync'[c].late = sync[c].late /\ sync'[c].failed = sync[c].failed
    BY <2>a, <2>b DEF Sync
  <2>2. Marks(c)' /\ ManifestTells(c)' /\ WarmWasQuiet(c)' /\ sync'[c].deltas = {}
    BY <1>a, <1>b, <1>c, <2>1 DEF DeviceInv, Marks, ManifestTells, Untouched, WarmWasQuiet
  <2> QED
    BY <1>a, <1>b, <2>1, <2>2, Unanswered DEF DeviceInv
<1>3. CASE TakeStamp(c)
  <2>1. /\ sync[c].stage = "listed" /\ sync'[c].stage = "stamped" /\ sync'[c].stamp = clock
        /\ sync'[c].manifest = sync[c].manifest /\ sync'[c].mode = sync[c].mode
        /\ sync'[c].todo = sync[c].todo /\ sync'[c].deltas = sync[c].deltas
        /\ sync'[c].late = sync[c].late /\ sync'[c].failed = sync[c].failed
    BY <1>a, <1>3 DEF TakeStamp, Sync
  <2>2. Marks(c)' /\ ManifestTells(c)' /\ WarmWasQuiet(c)' /\ sync'[c].deltas = {}
    BY <1>a, <1>b, <1>c, <2>1
       DEF DeviceInv, Marks, ManifestTells, Untouched, WarmWasQuiet, Numbers
  <2> QED
    BY <1>a, <1>b, <2>1, <2>2, Unanswered DEF DeviceInv
<1>4. CASE ReadCursor(c)
  <2>1. /\ sync[c].stage = "stamped" /\ sync'[c].stage = "cursored"
        /\ sync'[c].revision = revision /\ sync'[c].stamp = sync[c].stamp
        /\ sync'[c].manifest = sync[c].manifest /\ sync'[c].mode = sync[c].mode
        /\ sync'[c].todo = sync[c].todo /\ sync'[c].deltas = sync[c].deltas
        /\ sync'[c].late = sync[c].late /\ sync'[c].failed = sync[c].failed
    BY <1>a, <1>4 DEF ReadCursor, Sync
  <2>2. Marks(c)' /\ ManifestTells(c)' /\ WarmWasQuiet(c)' /\ sync'[c].deltas = {}
    BY <1>a, <1>b, <1>c, <2>1
       DEF DeviceInv, Marks, ManifestTells, Untouched, WarmWasQuiet, Numbers
  <2> QED
    BY <1>a, <1>b, <2>1, <2>2, Unanswered DEF DeviceInv
<1>5. CASE AbandonSync(c)
  <2>1. sync'[c] = NoSync
    BY <1>a, <1>5 DEF AbandonSync
  <2>2. Marks(c)' /\ ManifestTells(c)' /\ WarmWasQuiet(c)'
    BY <1>a, <1>b, <1>c, <2>1
       DEF DeviceInv, Marks, ManifestTells, Untouched, WarmWasQuiet, NoSync
  <2> QED
    BY <1>a, <1>b, <2>1, <2>2, Unanswered DEF DeviceInv, NoSync
<1> QED
  BY <1>1, <1>2, <1>3, <1>4, <1>5

LEMMA FinishKeeps ==
  ASSUME SyncInv, NEW c \in Client, FinishSync(c)
  PROVE  DeviceInv(c)'
<1>a. /\ sync \in [Client -> Sync] /\ cursor \in [Client -> [at : Instant, revision : Nat]]
      /\ Numbers /\ DeviceInv(c)
  BY TypesGiveNumbers DEF SyncInv, SyncTypeOK
<1>b. UNCHANGED <<wvars, local>> /\ UNCHANGED <<clock, object, pending, log, revision, writer>>
  BY DEF FinishSync, wvars, table
<1>1. sync'[c] = NoSync /\ sync'[c].stage = "idle" /\ sync'[c].deltas = {}
  BY <1>a DEF FinishSync, NoSync
<1>2. ManifestTells(c)' /\ WarmWasQuiet(c)'
  BY <1>1 DEF ManifestTells, Untouched, WarmWasQuiet, NoSync
<1>3. CASE sync[c].failed
  <2>1. UNCHANGED <<cursor, missed>>
    BY <1>3 DEF FinishSync
  <2>2. Marks(c)'
    BY <1>a, <1>b, <1>1, <2>1 DEF DeviceInv, Marks, NoSync
  <2> QED
    BY <1>a, <1>b, <1>1, <1>2, <2>1, <2>2, Unanswered DEF DeviceInv
<1>4. CASE ~sync[c].failed
  <2>1. /\ cursor'[c].at = sync[c].stamp /\ cursor'[c].revision = sync[c].revision
        /\ \A b : <<c, b>> \in missed' <=> <<c, b>> \in missed \/ b \in sync[c].late
        /\ sync[c].stage = "answered" /\ sync[c].todo = {} /\ sync[c].deltas = {}
    BY <1>a, <1>4 DEF FinishSync
  <2>2. Marks(c)'
    BY <1>a, <1>b, <1>1, <2>1 DEF DeviceInv, Marks, NoSync
  <2>3. Covered(c)'
    <3> SUFFICES ASSUME NEW p \in Path, Held(c, object[p].by)' PROVE Has(c, p)'
      BY <1>b DEF Covered
    <3>1. Due(c, object[p].by) /\ <<c, object[p].by>> \notin missed
      BY <1>b, <2>1 DEF Held, Due, Logged
    <3>2. Has(c, p)
      BY <1>a, <1>4, <2>1, <3>1 DEF DeviceInv, Accounted
    <3> QED
      BY <1>b, <3>2 DEF Has
  <2>4. LocalTells(c)'
    BY <1>a, <1>b DEF DeviceInv, LocalTells, Past, Logged
  <2>5. Accounted(c)' /\ Shown(c)' /\ DeltasHold(c)'
    BY <1>1 DEF Accounted, Shown, DeltasHold
  <2> QED
    BY <1>2, <2>2, <2>3, <2>4, <2>5 DEF DeviceInv
<1> QED
  BY <1>3, <1>4

(***************************************************************************)
(* The steps of the server's writers.                                      *)
(***************************************************************************)
\* A change the device stands for after a step of the writers it stood for before,
\* and one that its answer stands for alike.
LEMMA MutateWithdraws ==
  ASSUME SyncInv, WritesInv', Effect, Mutate, NEW c \in Client
  PROVE  /\ cursor'[c] = cursor[c] /\ local'[c] = local[c]
         /\ sync[c].stage # "answered" => sync'[c] = sync[c]
         /\ sync'[c].stage = sync[c].stage /\ sync'[c].manifest = sync[c].manifest
         /\ sync'[c].mode = sync[c].mode /\ sync'[c].stamp = sync[c].stamp
         /\ sync'[c].revision = sync[c].revision /\ sync'[c].events = sync[c].events
         /\ sync'[c].todo = sync[c].todo /\ sync'[c].deltas = sync[c].deltas
         /\ sync'[c].failed = sync[c].failed /\ sync[c].late \subseteq sync'[c].late
         /\ missed \subseteq missed'
         /\ \A i \in log' \ log : i.at <= cursor[c].at => <<c, i.at>> \in missed'
         /\ \A b : Held(c, b)' => Held(c, b)
         /\ sync[c].stage = "answered" => \A b : Due(c, b)' => Due(c, b)
<1>a. Numbers /\ DeviceInv(c) /\ sync \in [Client -> Sync]
  BY TypesGiveNumbers DEF SyncInv, SyncTypeOK
<1>b. revision' \in Nat
  BY DEF WritesInv, WritesTypeOK
<1>1. /\ cursor'[c] = cursor[c] /\ local'[c] = local[c]
      /\ missed \subseteq missed'
      /\ \A i \in log' \ log : i.at <= cursor[c].at => <<c, i.at>> \in missed'
  <2>1. \A i \in log' \ log : i.at <= cursor[c].at => i.at \in Below(log' \ log, cursor[c].at)
    BY DEF Below
  <2>2. ASSUME NEW i \in log' \ log, i.at <= cursor[c].at
        PROVE  <<c, i.at>> \in UNION {{d} \X Below(log' \ log, cursor[d].at) : d \in Client}
    <3>1. <<c, i.at>> \in {c} \X Below(log' \ log, cursor[c].at)
      BY <2>1, <2>2
    <3> QED
      BY <3>1
  <2> QED
    BY <2>2 DEF Mutate
<1>m. /\ log \subseteq log' /\ revision <= revision' /\ (log' # log => revision < revision')
      /\ revision \in Nat /\ cursor[c].revision \in Nat /\ cursor[c].at \in Nat
      /\ cursor[c].revision <= revision
  BY <1>a DEF Effect, Numbers, DeviceInv, Marks
<1>h. ASSUME NEW b, Held(c, b)' PROVE Held(c, b)
  <2>1. PICK i \in log' : i.at = b
    BY <1>h DEF Held, Logged
  <2>2. /\ b <= cursor[c].at \/ (cursor[c].at > 0 /\ revision' = cursor[c].revision)
        /\ <<c, b>> \notin missed'
    BY <1>h, <1>1 DEF Held
  <2>3. i \in log
    <3>1. revision' = cursor[c].revision => i \in log
      BY <1>b, <1>m
    <3>2. b <= cursor[c].at => i \in log
      BY <1>1, <2>1, <2>2
    <3> QED
      BY <2>2, <3>1, <3>2
  <2>4. revision' = cursor[c].revision => revision = cursor[c].revision
    BY <1>b, <1>m
  <2> QED
    BY <1>1, <2>1, <2>2, <2>3, <2>4 DEF Held, Logged
<1>2. CASE sync[c].stage # "answered"
  <2>1. sync'[c] = sync[c]
    BY <1>2 DEF Mutate
  <2> QED
    BY <1>1, <1>2, <1>h, <2>1
<1>3. CASE sync[c].stage = "answered"
  <2>1. sync'[c] = [sync[c] EXCEPT !.late = @ \union Below(log' \ log, sync[c].stamp)]
    BY <1>3 DEF Mutate
  <2>2. /\ sync'[c].stage = sync[c].stage /\ sync'[c].manifest = sync[c].manifest
        /\ sync'[c].mode = sync[c].mode /\ sync'[c].stamp = sync[c].stamp
        /\ sync'[c].revision = sync[c].revision /\ sync'[c].events = sync[c].events
        /\ sync'[c].todo = sync[c].todo /\ sync'[c].deltas = sync[c].deltas
        /\ sync'[c].failed = sync[c].failed
        /\ sync'[c].late = sync[c].late \union Below(log' \ log, sync[c].stamp)
    BY <1>a, <2>1 DEF Sync
  <2>3. \A i \in log' \ log : i.at <= sync[c].stamp => i.at \in sync'[c].late
    BY <2>2 DEF Below
  <2>4. sync[c].revision \in Nat /\ sync[c].revision <= revision
    BY <1>a, <1>3 DEF Numbers, DeviceInv, Marks
  <2>5. ASSUME NEW b, Due(c, b)' PROVE Due(c, b)
    <3>1. PICK i \in log' : i.at = b
      BY <2>5 DEF Due, Logged
    <3>2. /\ b <= sync[c].stamp \/ revision' = sync[c].revision
          /\ b \notin sync'[c].late
      BY <2>2, <2>5 DEF Due
    <3>3. i \in log
      <4>1. revision' = sync[c].revision => i \in log
        BY <1>b, <1>m, <2>4
      <4>2. b <= sync[c].stamp => i \in log
        BY <2>3, <3>1, <3>2
      <4> QED
        BY <3>2, <4>1, <4>2
    <3>4. revision' = sync[c].revision => revision = sync[c].revision
      BY <1>b, <1>m, <2>4
    <3> QED
      BY <2>2, <3>1, <3>2, <3>3, <3>4 DEF Due, Logged
  <2> QED
    BY <1>1, <1>3, <1>h, <2>2, <2>5
<1> QED
  BY <1>2, <1>3

LEMMA MutateKeeps ==
  ASSUME SyncInv, WritesInv', HistoryInv', Effect, Mutate, NEW c \in Client
  PROVE  DeviceInv(c)'
<1>a. Numbers /\ DeviceInv(c)
  BY TypesGiveNumbers DEF SyncInv
<1>b. /\ clock' \in Nat /\ revision' \in Nat /\ \A p \in Path : object'[p].by \in Nat
      /\ clock <= clock' /\ revision <= revision'
      /\ \A i, j \in pending' \union log' : i.at = j.at => i = j
  BY Instants DEF WritesInv, WritesTypeOK, Object, Effect, StampsAreUnique
<1>c. /\ cursor'[c] = cursor[c] /\ local'[c] = local[c]
      /\ sync[c].stage # "answered" => sync'[c] = sync[c]
      /\ sync'[c].stage = sync[c].stage /\ sync'[c].manifest = sync[c].manifest
      /\ sync'[c].mode = sync[c].mode /\ sync'[c].stamp = sync[c].stamp
      /\ sync'[c].revision = sync[c].revision /\ sync'[c].events = sync[c].events
      /\ sync'[c].todo = sync[c].todo /\ sync'[c].deltas = sync[c].deltas
      /\ sync'[c].failed = sync[c].failed /\ sync[c].late \subseteq sync'[c].late
      /\ missed \subseteq missed'
      /\ \A i \in log' \ log : i.at <= cursor[c].at => <<c, i.at>> \in missed'
  BY MutateWithdraws
<1>d. \A b : Held(c, b)' => Held(c, b)
  BY MutateWithdraws
<1>e. sync[c].stage = "answered" => \A b : Due(c, b)' => Due(c, b)
  BY MutateWithdraws
<1>f. \A p \in Path : object'[p] = object[p] \/ ~\E i \in log' : i.at = object'[p].by
  BY DEF Effect
<1>g. \A p \in Path : object'[p] = object[p] => (Has(c, p)' <=> Has(c, p))
  BY <1>c DEF Has
<1>h. \A p \in Path, x \in Nat : Past(p, x) => Past(p, x)'
  BY PastStays DEF SyncInv
<1>i. \A p \in Path : object[p].by <= object'[p].by
  BY <1>a, <1>b DEF Effect, Numbers
<1>1. LocalTells(c)'
  <2> SUFFICES ASSUME NEW p \in Path
               PROVE  /\ Past(p, local[c][p].by)'
                      /\ local[c][p].present => local[c][p].by <= object'[p].by
    BY <1>c DEF LocalTells
  <2>1. PICK x \in Nat : x = local[c][p].by /\ x = local'[c][p].by /\ Past(p, x)
    BY <1>a, <1>c DEF DeviceInv, LocalTells, Numbers
  <2>2. Past(p, local[c][p].by)'
    <3>1. Past(p, x)'
      BY <1>h, <2>1
    <3> QED
      BY <2>1, <3>1 DEF Past
  <2>3. local[c][p].present => local[c][p].by <= object'[p].by
    <3>1. local[c][p].present => local[c][p].by <= object[p].by
      BY <1>a DEF DeviceInv, LocalTells
    <3>2. object[p].by <= object'[p].by /\ object[p].by \in Nat /\ object'[p].by \in Nat
      BY <1>a, <1>b, <1>i DEF Numbers
    <3> QED
      BY <2>1, <3>1, <3>2
  <2> QED
    BY <2>2, <2>3
<1>2. Marks(c)' /\ ManifestTells(c)'
  BY <1>a, <1>b, <1>c DEF DeviceInv, Marks, ManifestTells, Untouched, Numbers
<1>3. \A p \in Path, i \in pending' \union log' :
        i.at = local[c][p].by => i \in pending \union log
  <2> SUFFICES ASSUME NEW p \in Path, NEW i \in pending' \ pending, i.at = local[c][p].by
               PROVE  FALSE
    BY DEF Effect
  <2>1. PICK w \in Writer : writer[w].stage = "stamped" /\ writer[w].at = i.at
    BY DEF Effect
  <2>2. local[c][p].by < writer[w].at
    BY <1>a, <2>1 DEF DeviceInv, LocalTells, Past
  <2> QED
    BY <1>a, <2>1, <2>2 DEF Numbers
<1>4. WarmWasQuiet(c)'
  <2>1. \A i \in log : i \in log'
    BY DEF Effect
  <2>2. \A i \in pending' : i \notin log'
    BY DEF WritesInv, StampsAreUnique
  <2> QED
    BY <1>a, <1>c, <1>3, <2>1, <2>2 DEF DeviceInv, WarmWasQuiet
<1>5. Covered(c)'
  <2> SUFFICES ASSUME NEW p \in Path, Held(c, object[p].by)' PROVE Has(c, p)'
    BY DEF Covered
  <2>1. object'[p] = object[p]
    BY <1>f DEF Held, Logged
  <2>2. Held(c, object[p].by)
    BY <1>d, <2>1 DEF Held
  <2> QED
    BY <1>a, <1>g, <2>1, <2>2 DEF DeviceInv, Covered
<1>6. Accounted(c)'
  <2> SUFFICES ASSUME sync[c].stage = "answered", ~sync[c].failed, NEW p \in Path,
                      Due(c, object[p].by)', <<c, object'[p].by>> \notin missed'
               PROVE  Has(c, p)' \/ p \in sync[c].todo \/ \E d \in sync[c].deltas : d.path = p
    BY <1>c DEF Accounted
  <2>1. object'[p] = object[p]
    BY <1>f DEF Due, Logged
  <2>2. Due(c, object[p].by)
    BY <1>e, <2>1 DEF Due
  <2> QED
    BY <1>a, <1>c, <1>g, <2>1, <2>2 DEF DeviceInv, Accounted
<1>7. ASSUME NEW p \in Path, NEW at, NoStepBack(c, p, at) PROVE NoStepBack(c, p, at)'
  BY <1>c, <1>3, <1>7 DEF NoStepBack, Announced
<1>8. Shown(c)'
  <2> SUFFICES ASSUME sync[c].stage = "answered", sync[c].mode = "warm"
               PROVE  Shown(c)'
    BY <1>c DEF Shown
  <2>1. \A e \in sync[c].events :
          /\ e \in log' /\ e.at > cursor[c].at
          /\ e.path \in sync[c].todo => NoStepBack(c, e.path, e.at)'
          /\ \A f \in sync[c].events : f.path = e.path => f = e
    BY <1>a, <1>7 DEF DeviceInv, Shown, Effect, Numbers
  <2>2. \A p \in sync[c].todo : \E e \in sync[c].events : e.path = p
    BY <1>a DEF DeviceInv, Shown
  <2>3. ASSUME NEW i \in log', i.at > cursor[c].at, Due(c, i.at)'
        PROVE  \E e \in sync[c].events : e.path = i.path /\ e.at >= i.at
    <3>1. Due(c, i.at)
      BY <1>e, <2>3
    <3>2. i \in log
      BY <1>b, <3>1 DEF Due, Logged, Effect
    <3> QED
      BY <1>a, <2>3, <3>1, <3>2 DEF DeviceInv, Shown
  <2> QED
    BY <1>c, <2>1, <2>2, <2>3 DEF Shown
<1>9. ASSUME NEW d \in sync[c].deltas, sync[c].stage = "answered", RemovalHolds(c, d)
      PROVE  RemovalHolds(c, d)'
  <2>a. d.path \in Path /\ d.by \in Nat
    BY <1>a DEF Numbers
  <2>1. NoStepBack(c, d.path, d.by)' /\ Past(d.path, d.by)'
    BY <1>7, <1>9, <1>h, <2>a DEF RemovalHolds
  <2>2. CASE ~\E i \in log' : i.at = object'[d.path].by
    BY <2>1, <2>2 DEF RemovalHolds, Due, Logged
  <2>3. CASE object'[d.path] = object[d.path]
    <3>1. Due(c, object[d.path].by)' => Due(c, object[d.path].by)
      BY <1>e, <1>9, <2>3 DEF Due
    <3>2. object'[d.path].present /\ Logged(object[d.path].by)'
            /\ object'[d.path].by <= cursor[c].at => <<c, object'[d.path].by>> \in missed'
      <4> SUFFICES ASSUME object[d.path].present, NEW i \in log', i.at = object[d.path].by,
                          i.at <= cursor[c].at
                   PROVE  <<c, i.at>> \in missed'
        BY <2>3 DEF Logged
      <4> QED
        BY <1>9, <1>c DEF RemovalHolds, Logged
    <3>3. /\ object[d.path].present => ~Due(c, object[d.path].by)
          /\ object[d.path].by > d.by /\ Due(c, object[d.path].by)
               => object[d.path].by <= cursor[c].at
      BY <1>9 DEF RemovalHolds
    <3> QED
      BY <1>c, <2>1, <2>3, <3>1, <3>2, <3>3 DEF RemovalHolds
  <2> QED
    BY <1>f, <2>a, <2>2, <2>3
<1>10. DeltasHold(c)'
  <2>1. sync[c].stage # "answered" => sync[c].deltas = {}
    BY <1>a DEF DeviceInv, Marks
  <2> QED
    BY <1>a, <1>c, <1>9, <2>1 DEF DeviceInv, DeltasHold
<1> QED
  BY <1>1, <1>2, <1>4, <1>5, <1>6, <1>8, <1>10 DEF DeviceInv

(***************************************************************************)
(* The answer.                                                             *)
(***************************************************************************)
\* A set of instants that is not empty has a last one.
LEMMA HasLast ==
  ASSUME NEW T \in SUBSET Instant, T # {}
  PROVE  \E m \in T : \A n \in T : n <= m
<1> DEFINE After(m) == {n \in T : m < n}
           Afters == {After(m) : m \in T}
<1>1. Afters \subseteq FiniteSubsetsOf(Instant) /\ Afters # {}
  <2>1. IsFiniteSet(Instant)
    BY FS_Interval, WritesAssumption DEF Instant
  <2>2. FiniteSubsetsOf(Instant) = SUBSET Instant
    BY <2>1, FS_FiniteSubsetsOfFinite
  <2>3. \A m \in T : After(m) \in SUBSET Instant
    OBVIOUS
  <2> HIDE DEF After
  <2>4. \A A \in Afters : A \in SUBSET Instant
    BY <2>3
  <2> QED
    BY <2>2, <2>4
<1>2. PICK A \in Afters : \A B \in Afters : ~(<<B, A>> \in StrictSubsetOrdering(Instant))
  <2> HIDE DEF Afters
  <2> QED
    BY <1>1, FS_StrictSubsetOrderingWellFounded, WFMin
<1>3. PICK m \in T : A = After(m)
  OBVIOUS
<1>4. ASSUME NEW n \in T, m < n PROVE FALSE
  <2>a. \A k \in T : k \in Nat
    BY Instants
  <2>1. After(n) \subseteq After(m) /\ n \in After(m) /\ n \notin After(n)
    BY <1>4, <2>a
  <2>2. <<After(n), After(m)>> \in StrictSubsetOrdering(Instant)
    BY <2>1 DEF StrictSubsetOrdering
  <2> QED
    BY <1>2, <1>3, <2>2
<1> QED
  BY <1>4, Instants

\* What a path holds is a version of it, and so is a logged row.
LEMMA CurrentIsPast ==
  ASSUME WritesInv, HistoryInv, NEW p \in Path
  PROVE  Past(p, object[p].by)
<1>a. Measured
  BY Measures DEF WritesInv
<1>1. \A i \in pending \union log : i.at = object[p].by => i.path = p
  BY DEF WritesInv, ObjectsTellTheirIntent, HistoryInv, LogTells
<1>2. \A w \in Writer : writer[w].stage = "stamped" => object[p].by < writer[w].at
  BY DEF WritesInv, WritersKnowTheirIntent
<1> QED
  BY <1>a, <1>1, <1>2 DEF Past, Measured

LEMMA RowIsPast ==
  ASSUME WritesInv, HistoryInv, NEW e \in log
  PROVE  Past(e.path, e.at)
<1>a. Measured
  BY Measures DEF WritesInv
<1>b. e.path \in Path
  BY <1>a DEF Measured, Intent
<1>1. e.at <= object[e.path].by \/ (~object[e.path].present /\ Logged(e.at))
  BY <1>a, <1>b DEF HistoryInv, LogTells, Reflected, Logged, Measured
<1>2. \A i \in pending \union log : i.at = e.at => i = e
  BY DEF WritesInv, StampsAreUnique
<1>3. \A w \in Writer : writer[w].stage = "stamped" => e.at < writer[w].at
  BY <1>a DEF WritesInv, StampsAreUnique, HistoryInv, LatestAtWork, Measured
<1> QED
  BY <1>1, <1>2, <1>3 DEF Past

\* Of the rows of a path, one is last.
LEMMA LastRow ==
  ASSUME NEW rows \in SUBSET Intent, NEW i \in rows
  PROVE  \E e \in LastOfPath(rows) : e.path = i.path /\ e.at >= i.at
<1> DEFINE T == {j.at : j \in {k \in rows : k.path = i.path}}
<1>1. T \subseteq Instant /\ T # {}
  BY Instants DEF Intent
<1>2. PICK m \in T : \A n \in T : n <= m
  BY <1>1, HasLast
<1>3. PICK e \in rows : e.path = i.path /\ e.at = m
  OBVIOUS
<1>4. e \in LastOfPath(rows) /\ i.at <= e.at /\ i.at \in Nat /\ e.at \in Nat
  BY <1>1, <1>2, <1>3, Instants DEF LastOfPath
<1> QED
  BY <1>3, <1>4

LEMMA ScanKeeps ==
  ASSUME SyncInv, NEW c \in Client, StartScan(c)
  PROVE  DeviceInv(c)'
<1>a. sync \in [Client -> Sync] /\ DeviceInv(c)
  BY DEF SyncInv, SyncTypeOK
<1>b. UNCHANGED <<clock, object, pending, log, revision, writer, local, cursor, missed>>
  BY DEF StartScan, wvars, table
<1>1. /\ sync[c].stage = "cursored" /\ sync'[c].stage = "answered" /\ sync'[c].mode = "cold"
      /\ sync'[c].manifest = sync[c].manifest /\ sync'[c].stamp = sync[c].stamp
      /\ sync'[c].revision = sync[c].revision /\ sync'[c].todo = Path
      /\ sync'[c].deltas = sync[c].deltas
  BY <1>a DEF StartScan, Sync
<1>2. LocalTells(c)' /\ Marks(c)' /\ ManifestTells(c)' /\ WarmWasQuiet(c)'
  BY <1>a, <1>b, <1>1 DEF DeviceInv, LocalTells, Past, Logged, Marks, ManifestTells, Untouched,
                          WarmWasQuiet
<1>3. Covered(c)'
  BY <1>a, <1>b DEF DeviceInv, Covered, Held, Logged, Has
<1>4. Accounted(c)' /\ Shown(c)' /\ DeltasHold(c)'
  BY <1>a, <1>1 DEF DeviceInv, Marks, Accounted, Shown, DeltasHold
<1> QED
  BY <1>2, <1>3, <1>4 DEF DeviceInv

LEMMA QueryKeeps ==
  ASSUME SyncInv, NEW c \in Client, QueryLog(c)
  PROVE  DeviceInv(c)'
<1>a. /\ sync \in [Client -> Sync] /\ sync[c] \in Sync /\ DeviceInv(c) /\ Numbers
      /\ log \subseteq Intent
  BY TypesGiveNumbers DEF SyncInv, SyncTypeOK, WritesTypeOK
<1>b. UNCHANGED <<clock, object, pending, log, revision, writer, local, cursor, missed>>
  BY DEF QueryLog, wvars, table
<1>c. \A i, j \in pending \union log : i.at = j.at => i = j
  BY DEF SyncInv, WritesInv, StampsAreUnique
<1>1. PICK unseen \in SUBSET (fresh \intersect Since(c)) :
        sync' = [sync EXCEPT ![c].stage = "answered",
                   ![c].events = LastOfPath(Since(c) \ unseen),
                   ![c].todo = {i.path : i \in LastOfPath(Since(c) \ unseen)},
                   ![c].late = {i.at : i \in unseen}]
  BY DEF QueryLog
<1> DEFINE rows == Since(c) \ unseen
           events == LastOfPath(rows)
           todo == {i.path : i \in events}
           late == {i.at : i \in unseen}
<1>2. /\ sync[c].stage = "cursored" /\ sync[c].mode = "warm" /\ sync'[c].stage = "answered"
      /\ sync'[c].mode = sync[c].mode /\ sync'[c].manifest = sync[c].manifest
      /\ sync'[c].stamp = sync[c].stamp /\ sync'[c].revision = sync[c].revision
      /\ sync'[c].deltas = sync[c].deltas /\ sync'[c].events = events
      /\ sync'[c].todo = todo /\ sync'[c].late = late
  <2>1. sync'[c] = [sync[c] EXCEPT !.stage = "answered", !.events = events, !.todo = todo,
                                   !.late = late]
    BY <1>a, <1>1
  <2> HIDE DEF events, todo, late
  <2> QED
    BY <1>a, <2>1 DEF QueryLog, Sync
<1>3. LocalTells(c)' /\ Marks(c)' /\ ManifestTells(c)' /\ WarmWasQuiet(c)' /\ Covered(c)'
  <2> HIDE DEF events, todo, late
  <2>1. LocalTells(c)' /\ Covered(c)'
    BY <1>a, <1>b DEF DeviceInv, LocalTells, Past, Logged, Covered, Held, Has
  <2>2. Marks(c)' /\ ManifestTells(c)' /\ WarmWasQuiet(c)'
    BY <1>a, <1>b, <1>2 DEF DeviceInv, Marks, ManifestTells, Untouched, WarmWasQuiet
  <2> QED
    BY <2>1, <2>2
<1>4. /\ rows \subseteq log /\ \A e \in rows : e.at > cursor[c].at
      /\ \A e \in events : e \in rows /\ \A j \in rows : j.path = e.path => j.at <= e.at
      /\ \A i \in log : i.at > cursor[c].at => i \in rows \/ i.at \in late
      /\ late \subseteq {i.at : i \in log}
  BY DEF Since, LastOfPath
<1>5. \A e, f \in events : f.path = e.path => f = e
  <2> SUFFICES ASSUME NEW e \in events, NEW f \in events, f.path = e.path PROVE f = e
    OBVIOUS
  <2>1. e \in log /\ f \in log /\ e.at <= f.at /\ f.at <= e.at
    BY <1>4
  <2>2. e.at \in Nat /\ f.at \in Nat
    BY <1>a, <2>1 DEF Numbers
  <2>3. e.at = f.at
    BY <2>1, <2>2
  <2> QED
    BY <1>c, <2>1, <2>3
<1>6. \A i \in rows : \E e \in events : e.path = i.path /\ e.at >= i.at
  BY <1>a, <1>4, LastRow
<1>7. ASSUME NEW e \in events PROVE NoStepBack(c, e.path, e.at)'
  <2> DEFINE x == local[c][e.path].by
  <2>a. e \in log /\ e.at > cursor[c].at /\ e.path \in Path /\ e.at \in Nat /\ x \in Nat
        /\ cursor[c].at \in Nat
    BY <1>a, <1>4 DEF Numbers
  <2> SUFFICES ASSUME Announced(x), x \notin late PROVE e.at >= x
    BY <1>b, <1>2 DEF NoStepBack, Announced
  <2>1. PICK i \in log \union pending : i.at = x
    BY DEF Announced
  <2>2. i \in log
    BY <1>a, <1>2, <2>a, <2>1 DEF DeviceInv, WarmWasQuiet
  <2>3. i.path = e.path
    BY <1>a, <2>a, <2>1 DEF DeviceInv, LocalTells, Past
  <2>4. CASE i.at > cursor[c].at
    <3>1. i \in rows
      BY <1>4, <2>1, <2>2, <2>4
    <3> QED
      BY <1>4, <2>1, <2>3, <2>a, <3>1
  <2>5. CASE ~(i.at > cursor[c].at)
    BY <2>1, <2>5, <2>a
  <2> QED
    BY <2>4, <2>5
<1>8. ASSUME NEW i \in log, i.at > cursor[c].at, i.at \notin late
      PROVE  \E e \in events : e.path = i.path /\ e.at >= i.at
  BY <1>4, <1>6, <1>8
<1>9. Shown(c)'
  <2>1. \A p \in todo : \E e \in events : e.path = p
    OBVIOUS
  <2> HIDE DEF rows, events, todo, late
  <2>2. \A e \in events : e \in log /\ e.at > cursor[c].at
    BY <1>4
  <2> QED
    BY <1>2, <1>b, <1>5, <1>7, <1>8, <2>1, <2>2 DEF Shown, Due
<1>10. Accounted(c)'
  <2> SUFFICES ASSUME NEW p \in Path, Due(c, object[p].by)', <<c, object[p].by>> \notin missed
               PROVE  Has(c, p)' \/ p \in todo
    BY <1>2, <1>b DEF Accounted
  <2> DEFINE b == object[p].by
  <2>1. PICK i \in log : i.at = b
    BY <1>b DEF Due, Logged
  <2>2. i.path = p /\ b \in Nat /\ cursor[c].at \in Nat
    BY <1>a, <2>1 DEF SyncInv, HistoryInv, LogTells, Numbers
  <2>3. CASE b > cursor[c].at
    <3>1. b \notin late
      <4> HIDE DEF late
      <4> QED
        BY <1>b, <1>2 DEF Due
    <3> QED
      BY <1>8, <2>1, <2>2, <2>3, <3>1
  <2>4. CASE ~(b > cursor[c].at)
    <3>1. Held(c, b)
      BY <2>1, <2>2, <2>4 DEF Held, Logged
    <3>2. Has(c, p)
      BY <1>a, <3>1 DEF DeviceInv, Covered
    <3> QED
      BY <1>b, <3>2 DEF Has
  <2> QED
    BY <2>3, <2>4
<1>11. DeltasHold(c)'
  <2> HIDE DEF rows, events, todo, late
  <2> QED
    BY <1>a, <1>2 DEF DeviceInv, Marks, DeltasHold
<1> QED
  BY <1>3, <1>9, <1>10, <1>11 DEF DeviceInv

(***************************************************************************)
(* The deltas.                                                             *)
(***************************************************************************)
\* The deltas a path gets.
NewDeltas(c, p) == IF sync[c].mode = "warm" THEN WarmDelta(c, p) ELSE ColdDelta(c, p)

LEMMA BuildEffect ==
  ASSUME SyncInv, NEW c \in Client, NEW p \in Path, BuildDelta(c, p)
  PROVE  /\ UNCHANGED <<clock, object, pending, log, revision, writer, local, cursor, missed>>
         /\ sync[c].stage = "answered" /\ p \in sync[c].todo
         /\ sync'[c].stage = sync[c].stage /\ sync'[c].mode = sync[c].mode
         /\ sync'[c].manifest = sync[c].manifest /\ sync'[c].stamp = sync[c].stamp
         /\ sync'[c].revision = sync[c].revision /\ sync'[c].events = sync[c].events
         /\ sync'[c].failed = sync[c].failed /\ sync'[c].todo = sync[c].todo \ {p}
         /\ sync'[c].late = sync[c].late \union RoundedAway(c, p)
         /\ sync'[c].deltas = sync[c].deltas \union NewDeltas(c, p)
<1>1. sync \in [Client -> Sync] /\ sync[c] \in Sync
  BY DEF SyncInv, SyncTypeOK
<1> DEFINE late == sync[c].late \union RoundedAway(c, p)
           deltas == sync[c].deltas \union NewDeltas(c, p)
<1>2. sync'[c] = [sync[c] EXCEPT !.todo = @ \ {p}, !.late = late, !.deltas = deltas]
  BY <1>1 DEF BuildDelta, NewDeltas
<1>3. UNCHANGED <<clock, object, pending, log, revision, writer, local, cursor, missed>>
      /\ sync[c].stage = "answered" /\ p \in sync[c].todo
  BY DEF BuildDelta, wvars, table
<1> HIDE DEF late, deltas
<1>4. /\ sync'[c].stage = sync[c].stage /\ sync'[c].mode = sync[c].mode
      /\ sync'[c].manifest = sync[c].manifest /\ sync'[c].stamp = sync[c].stamp
      /\ sync'[c].revision = sync[c].revision /\ sync'[c].events = sync[c].events
      /\ sync'[c].failed = sync[c].failed /\ sync'[c].todo = sync[c].todo \ {p}
      /\ sync'[c].late = late /\ sync'[c].deltas = deltas
  BY <1>1, <1>2 DEF Sync
<1> QED
  BY <1>3, <1>4 DEF late, deltas

\* What a warm answer stands for after the cursor is no later than its row.
LEMMA WarmIsLast ==
  ASSUME SyncInv, NEW c \in Client, sync[c].stage = "answered", sync[c].mode = "warm",
         NEW e \in sync[c].events, Due(c, object[e.path].by),
         object[e.path].by > cursor[c].at
  PROVE  e.at >= object[e.path].by
<1>a. DeviceInv(c) /\ Numbers
  BY TypesGiveNumbers DEF SyncInv
<1>1. e \in log /\ e.path \in Path
  BY <1>a DEF DeviceInv, Shown, Numbers
<1>2. PICK i \in log : i.at = object[e.path].by
  BY DEF Due, Logged
<1>3. i.path = e.path
  BY <1>1, <1>2 DEF SyncInv, HistoryInv, LogTells
<1>4. PICK f \in sync[c].events : f.path = i.path /\ f.at >= i.at
  BY <1>a, <1>2 DEF DeviceInv, Shown
<1>5. f = e
  BY <1>a, <1>3, <1>4 DEF DeviceInv, Shown
<1> QED
  BY <1>2, <1>4, <1>5

\* A path that gets no delta needs none.
LEMMA NothingToTell ==
  ASSUME SyncInv, NEW c \in Client, NEW p \in sync[c].todo, sync[c].stage = "answered",
         NewDeltas(c, p) = {}, Due(c, object[p].by), object[p].by \notin RoundedAway(c, p),
         <<c, object[p].by>> \notin missed
  PROVE  Has(c, p)
<1>a. DeviceInv(c) /\ Numbers /\ p \in Path
  BY TypesGiveNumbers DEF SyncInv, Numbers
<1>b. object[p].by <= cursor[c].at => Has(c, p)
  BY <1>a DEF DeviceInv, Covered, Held, Due
<1>c. Download(p) # {} /\ \A at : Remove(p, at) # {}
  BY DEF Download, Remove
<1>d. object[p].by \in Nat /\ object[p].modified \in Nat /\ cursor[c].at \in Nat
  BY <1>a DEF Numbers
<1>1. CASE sync[c].mode = "warm"
  <2> DEFINE e == CHOOSE i \in sync[c].events : i.path = p
  <2>1. e \in sync[c].events /\ e.path = p /\ e \in log
    BY <1>1, <1>a, ShownRow DEF DeviceInv
  <2>2. e.kind # "delete" /\ ~object[p].present
    BY <1>1, <1>c DEF NewDeltas, WarmDelta
  <2> HIDE DEF e
  <2>3. object[p].by >= e.at /\ (object[p].by = e.at => object[p].present = (e.kind = "write"))
    BY <1>a, <2>1, <2>2 DEF SyncInv, HistoryInv, LogTells, Reflected
  <2>4. e.kind \in {"write", "delete"} /\ e.at \in Nat
    BY <1>a, <2>1 DEF SyncInv, SyncTypeOK, WritesTypeOK, Intent, Numbers
  <2>5. object[p].by > cursor[c].at => e.at >= object[p].by
    BY <1>1, <2>1, WarmIsLast
  <2>6. e.kind = "write" /\ object[p].by # e.at
    BY <2>2, <2>3, <2>4
  <2>7. ~(object[p].by > cursor[c].at)
    BY <1>d, <2>3, <2>4, <2>5, <2>6
  <2> QED
    BY <1>b, <1>d, <2>7
<1>2. CASE sync[c].mode # "warm"
  <2>0. sync[c].mode = "cold"
    BY <1>a, <1>2 DEF Numbers
  <2>1. ColdDelta(c, p) = {}
    BY <1>2 DEF NewDeltas
  <2>2. CASE object[p].present
    <3>1. p \in sync[c].manifest /\ ~(LastModified(p) > cursor[c].at)
      BY <1>c, <2>1, <2>2 DEF ColdDelta
    <3>2. LastModified(p) \in Int
      BY <1>d, SyncAssumption DEF LastModified
    <3>3. LastModified(p) <= cursor[c].at
      BY <1>d, <3>1, <3>2
    <3>4. ~(cursor[c].at < object[p].modified)
      BY <2>0, <2>2, <3>1, <3>3 DEF RoundedAway
    <3>5. object[p].by <= object[p].modified
      BY <1>a DEF SyncInv, HistoryInv, ModifiedLater
    <3> QED
      BY <1>b, <1>d, <3>4, <3>5
  <2>3. CASE ~object[p].present
    <3>1. p \notin sync[c].manifest
      BY <1>c, <2>1, <2>3 DEF ColdDelta
    <3>2. ~local[c][p].present
      BY <1>a, <3>1 DEF DeviceInv, ManifestTells, Untouched
    <3> QED
      BY <2>3, <3>2 DEF Has
  <2> QED
    BY <2>2, <2>3
<1> QED
  BY <1>1, <1>2

\* A removal is of what is gone, and no step back.
LEMMA RemovalIsRight ==
  ASSUME SyncInv, NEW c \in Client, NEW p \in sync[c].todo, sync[c].stage = "answered",
         NEW d \in NewDeltas(c, p)
  PROVE  d.path = p /\ (d.kind = "delete" => RemovalHolds(c, d))
<1>a. DeviceInv(c) /\ Numbers /\ p \in Path
  BY TypesGiveNumbers DEF SyncInv, Numbers
<1>d. object[p].by \in Nat /\ cursor[c].at \in Nat /\ local[c][p].by \in Nat
  BY <1>a DEF Numbers
<1>c. /\ \A x \in Download(p) : x.path = p /\ x.kind = "download"
      /\ \A at : \A x \in Remove(p, at) : x.path = p /\ x.kind = "delete" /\ x.by = at
  BY DEF Download, Remove
<1>1. CASE sync[c].mode = "warm"
  <2> DEFINE e == CHOOSE i \in sync[c].events : i.path = p
  <2>1. e \in sync[c].events /\ e.path = p /\ e \in log
    BY <1>1, <1>a, ShownRow DEF DeviceInv
  <2>2. d \in Download(p) \/ (d \in Remove(p, e.at) /\ e.kind = "delete")
    BY <1>1 DEF NewDeltas, WarmDelta
  <2> HIDE DEF e
  <2>3. CASE d \in Download(p)
    BY <1>c, <2>3
  <2>4. CASE d \in Remove(p, e.at) /\ e.kind = "delete"
    <3>1. d.path = p /\ d.by = e.at
      BY <1>c, <2>4
    <3>2. e.at \in Nat /\ e.at > cursor[c].at
      BY <1>1, <1>a, <2>1 DEF DeviceInv, Shown, Numbers
    <3>3. object[p].by > cursor[c].at /\ Due(c, object[p].by) => e.at >= object[p].by
      BY <1>1, <2>1, WarmIsLast
    <3>4. object[p].present => object[p].by > e.at
      <4>1. object[p].present => object[p].by >= e.at /\ object[p].by # e.at
        BY <1>a, <2>1, <2>4 DEF SyncInv, HistoryInv, LogTells, Reflected
      <4> QED
        BY <1>d, <3>2, <4>1
    <3>5. NoStepBack(c, p, e.at) /\ Past(p, e.at)
      BY <1>1, <1>a, <2>1, RowIsPast DEF DeviceInv, Shown, SyncInv
    <3>6. object[p].present => ~Due(c, object[p].by)
      BY <1>d, <3>2, <3>3, <3>4
    <3>7. object[p].present => ~(object[p].by <= cursor[c].at)
      BY <1>d, <3>2, <3>4
    <3>8. object[p].by > e.at /\ Due(c, object[p].by) => object[p].by <= cursor[c].at
      BY <1>d, <3>2, <3>3
    <3> QED
      BY <3>1, <3>5, <3>6, <3>7, <3>8 DEF RemovalHolds
  <2> QED
    BY <2>2, <2>3, <2>4
<1>2. CASE sync[c].mode # "warm"
  <2>1. \/ d \in Download(p)
        \/ d \in Remove(p, object[p].by) /\ ~object[p].present /\ p \in sync[c].manifest
    BY <1>2 DEF NewDeltas, ColdDelta
  <2>2. CASE d \in Download(p)
    BY <1>c, <2>2
  <2>3. CASE d \in Remove(p, object[p].by) /\ ~object[p].present /\ p \in sync[c].manifest
    <3>1. d.path = p /\ d.by = object[p].by
      BY <1>c, <2>3
    <3>2. local[c][p].present
      BY <1>a, <2>3 DEF DeviceInv, ManifestTells, Untouched
    <3>3. NoStepBack(c, p, object[p].by)
      BY <1>a, <1>d, <3>2 DEF DeviceInv, LocalTells, NoStepBack
    <3>4. Past(p, object[p].by)
      BY <1>a, CurrentIsPast DEF SyncInv
    <3> QED
      BY <1>d, <2>3, <3>1, <3>3, <3>4 DEF RemovalHolds
  <2> QED
    BY <2>1, <2>2, <2>3
<1> QED
  BY <1>1, <1>2

\* A path gets one delta at most.
LEMMA OneDelta ==
  ASSUME NEW c \in Client, NEW p \in Path, NEW d \in NewDeltas(c, p), NEW f \in NewDeltas(c, p)
  PROVE  f = d
  BY DEF NewDeltas, WarmDelta, ColdDelta, Download, Remove

LEMMA BuildKeeps ==
  ASSUME SyncInv, NEW c \in Client, NEW p \in Path, BuildDelta(c, p)
  PROVE  DeviceInv(c)'
<1>a. DeviceInv(c) /\ Numbers
  BY TypesGiveNumbers DEF SyncInv
<1>b. /\ UNCHANGED <<clock, object, pending, log, revision, writer, local, cursor, missed>>
      /\ sync[c].stage = "answered" /\ p \in sync[c].todo
      /\ sync'[c].stage = sync[c].stage /\ sync'[c].mode = sync[c].mode
      /\ sync'[c].manifest = sync[c].manifest /\ sync'[c].stamp = sync[c].stamp
      /\ sync'[c].revision = sync[c].revision /\ sync'[c].events = sync[c].events
      /\ sync'[c].failed = sync[c].failed /\ sync'[c].todo = sync[c].todo \ {p}
      /\ sync'[c].late = sync[c].late \union RoundedAway(c, p)
      /\ sync'[c].deltas = sync[c].deltas \union NewDeltas(c, p)
  BY BuildEffect
<1>1. /\ \A b : Due(c, b)' => Due(c, b) /\ b \notin RoundedAway(c, p)
      /\ \A q : Has(c, q)' <=> Has(c, q)
      /\ \A q, at : NoStepBack(c, q, at) => NoStepBack(c, q, at)'
      /\ \A q, x : Past(q, x)' <=> Past(q, x)
      /\ \A x : Logged(x)' <=> Logged(x)
  BY <1>b DEF Due, Logged, Has, NoStepBack, Announced, Past
<1>2. LocalTells(c)' /\ Covered(c)'
  BY <1>a, <1>b DEF DeviceInv, LocalTells, Past, Logged, Covered, Held, Has
<1>3. Marks(c)' /\ ManifestTells(c)' /\ WarmWasQuiet(c)'
  BY <1>a, <1>b DEF DeviceInv, Marks, ManifestTells, Untouched, WarmWasQuiet
<1>4. Accounted(c)'
  <2> SUFFICES ASSUME ~sync[c].failed, NEW q \in Path, Due(c, object[q].by)',
                      <<c, object[q].by>> \notin missed
               PROVE  Has(c, q) \/ q \in sync[c].todo \ {p}
                      \/ \E d \in sync[c].deltas \union NewDeltas(c, p) : d.path = q
    BY <1>b, <1>1 DEF Accounted
  <2>1. Due(c, object[q].by) /\ object[q].by \notin RoundedAway(c, p)
    BY <1>b DEF Due, Logged
  <2>2. CASE q # p
    BY <1>a, <1>b, <2>1, <2>2 DEF DeviceInv, Accounted
  <2>3. CASE q = p /\ NewDeltas(c, p) = {}
    BY <1>b, <2>1, <2>3, NothingToTell
  <2>4. CASE q = p /\ NewDeltas(c, p) # {}
    <3>1. PICK d \in NewDeltas(c, p) : TRUE
      BY <2>4
    <3>2. d.path = p
      BY <1>b, RemovalIsRight
    <3> QED
      BY <2>4, <3>2
  <2> QED
    BY <2>2, <2>3, <2>4
<1>5. Shown(c)'
  BY <1>a, <1>b, <1>1 DEF DeviceInv, Shown
<1>6. ASSUME NEW d \in sync[c].deltas \union NewDeltas(c, p), d.kind = "delete",
             RemovalHolds(c, d)
      PROVE  RemovalHolds(c, d)'
  <2>1. /\ NoStepBack(c, d.path, d.by)' /\ Past(d.path, d.by)'
        /\ Due(c, object[d.path].by)' => Due(c, object[d.path].by)
        /\ Logged(object[d.path].by)' <=> Logged(object[d.path].by)
    BY <1>6, <1>b DEF RemovalHolds, Due, Logged, NoStepBack, Announced, Past
  <2> QED
    BY <1>6, <1>b, <2>1 DEF RemovalHolds
<1>7. DeltasHold(c)'
  <2> SUFFICES ASSUME NEW d \in sync[c].deltas \union NewDeltas(c, p)
               PROVE  /\ d.path \notin sync[c].todo \ {p}
                      /\ \A f \in sync[c].deltas \union NewDeltas(c, p) :
                           f.path = d.path => f = d
                      /\ d.kind = "delete" => RemovalHolds(c, d)'
    BY <1>b DEF DeltasHold
  <2>1. \A f \in sync[c].deltas : f.path \notin sync[c].todo /\ f.path # p
    BY <1>a, <1>b DEF DeviceInv, DeltasHold
  <2>2. \A f \in NewDeltas(c, p) : f.path = p
    BY <1>b, RemovalIsRight
  <2>3. \A f \in sync[c].deltas \union NewDeltas(c, p) : f.path = d.path => f = d
    BY <1>a, <2>1, <2>2, OneDelta DEF DeviceInv, DeltasHold
  <2>4. d.kind = "delete" => RemovalHolds(c, d)
    BY <1>a, <1>b, RemovalIsRight DEF DeviceInv, DeltasHold
  <2> QED
    BY <1>6, <2>1, <2>2, <2>3, <2>4
<1> QED
  BY <1>2, <1>3, <1>4, <1>5, <1>7 DEF DeviceInv

LEMMA ApplyEffect ==
  ASSUME SyncInv, NEW c \in Client, NEW d \in sync[c].deltas, ApplyDelta(c, d)
  PROVE  /\ UNCHANGED <<clock, object, pending, log, revision, writer, cursor>>
         /\ sync[c].stage = "answered" /\ sync[c].todo = {}
         /\ sync'[c].stage = sync[c].stage /\ sync'[c].mode = sync[c].mode
         /\ sync'[c].stamp = sync[c].stamp /\ sync'[c].todo = sync[c].todo
         /\ sync'[c].revision = sync[c].revision /\ sync'[c].events = sync[c].events
         /\ sync'[c].deltas = sync[c].deltas \ {d}
         /\ \/ /\ d.kind = "delete"
               /\ local'[c] = [local[c] EXCEPT ![d.path] = [by |-> d.by, present |-> FALSE]]
               /\ sync'[c].failed = sync[c].failed /\ sync'[c].late = sync[c].late
               /\ missed' = missed \union
                    ({c} \X ({local[c][d.path].by} \intersect sync[c].late))
            \/ /\ object[d.path].present
               /\ local'[c] = [local[c] EXCEPT ![d.path] =
                                 [by |-> object[d.path].by, present |-> TRUE]]
               /\ sync'[c].failed = sync[c].failed /\ sync'[c].late = sync[c].late
               /\ UNCHANGED missed
            \/ sync'[c].failed /\ local'[c] = local[c] /\ sync'[c].late = sync[c].late
               /\ UNCHANGED missed
            \/ /\ d.kind = "delete" /\ local'[c] = local[c] /\ UNCHANGED missed
               /\ sync'[c].failed = sync[c].failed
               /\ sync'[c].late = sync[c].late \union PassedOver(d)
<1>a. /\ sync \in [Client -> Sync] /\ sync[c] \in Sync
      /\ local \in [Client -> [Path -> Copy]]
  BY DEF SyncInv, SyncTypeOK
<1>1. sync[c].stage = "answered"
  BY DEF SyncInv, DeviceInv, Marks
<1>2. UNCHANGED <<clock, object, pending, log, revision, writer, cursor>> /\ sync[c].todo = {}
  BY DEF ApplyDelta, wvars, table
<1>3. \/ /\ d.kind = "delete"
         /\ local'[c] = [local[c] EXCEPT ![d.path] = [by |-> d.by, present |-> FALSE]]
         /\ sync'[c] = [sync[c] EXCEPT !.deltas = @ \ {d}]
         /\ missed' = missed \union ({c} \X ({local[c][d.path].by} \intersect sync[c].late))
      \/ /\ object[d.path].present
         /\ local'[c] = [local[c] EXCEPT ![d.path] =
                           [by |-> object[d.path].by, present |-> TRUE]]
         /\ sync'[c] = [sync[c] EXCEPT !.deltas = @ \ {d}] /\ UNCHANGED missed
      \/ /\ sync'[c] = [sync[c] EXCEPT !.deltas = @ \ {d}, !.failed = TRUE]
         /\ local'[c] = local[c] /\ UNCHANGED missed
      \/ /\ d.kind = "delete" /\ local'[c] = local[c] /\ UNCHANGED missed
         /\ sync'[c] = [sync[c] EXCEPT !.deltas = @ \ {d}, !.late = @ \union PassedOver(d)]
  <2>1. /\ sync' = [sync EXCEPT ![c].deltas = @ \ {d}] =>
             sync'[c] = [sync[c] EXCEPT !.deltas = @ \ {d}]
        /\ sync' = [sync EXCEPT ![c].deltas = @ \ {d}, ![c].failed = TRUE] =>
             sync'[c] = [sync[c] EXCEPT !.deltas = @ \ {d}, !.failed = TRUE]
        /\ sync' = [sync EXCEPT ![c].deltas = @ \ {d}, ![c].late = @ \union PassedOver(d)] =>
             sync'[c] = [sync[c] EXCEPT !.deltas = @ \ {d}, !.late = @ \union PassedOver(d)]
    BY <1>a
  <2>2. \A copy : local' = [local EXCEPT ![c][d.path] = copy] =>
                    local'[c] = [local[c] EXCEPT ![d.path] = copy]
    BY <1>a
  <2>3. QED
    BY <2>1, <2>2 DEF ApplyDelta
<1>4. ASSUME NEW r, r = [sync[c] EXCEPT !.deltas = @ \ {d}]
      PROVE  /\ r.stage = sync[c].stage /\ r.mode = sync[c].mode /\ r.stamp = sync[c].stamp
             /\ r.todo = sync[c].todo /\ r.revision = sync[c].revision
             /\ r.events = sync[c].events /\ r.deltas = sync[c].deltas \ {d}
             /\ r.failed = sync[c].failed /\ r.late = sync[c].late
  BY <1>a, <1>4 DEF Sync
<1>5. ASSUME NEW r, r = [sync[c] EXCEPT !.deltas = @ \ {d}, !.failed = TRUE]
      PROVE  /\ r.stage = sync[c].stage /\ r.mode = sync[c].mode /\ r.stamp = sync[c].stamp
             /\ r.todo = sync[c].todo /\ r.revision = sync[c].revision
             /\ r.events = sync[c].events /\ r.deltas = sync[c].deltas \ {d}
             /\ r.failed /\ r.late = sync[c].late
  BY <1>a, <1>5 DEF Sync
<1>6. ASSUME NEW r, r = [sync[c] EXCEPT !.deltas = @ \ {d}, !.late = @ \union PassedOver(d)]
      PROVE  /\ r.stage = sync[c].stage /\ r.mode = sync[c].mode /\ r.stamp = sync[c].stamp
             /\ r.todo = sync[c].todo /\ r.revision = sync[c].revision
             /\ r.events = sync[c].events /\ r.deltas = sync[c].deltas \ {d}
             /\ r.failed = sync[c].failed /\ r.late = sync[c].late \union PassedOver(d)
  BY <1>a, <1>6 DEF Sync
<1> QED
  BY <1>1, <1>2, <1>3, <1>4, <1>5, <1>6

\* The deltas that are left concern other paths than the one just applied.
LEMMA OthersHold ==
  ASSUME SyncInv, NEW c \in Client, NEW d \in sync[c].deltas,
         UNCHANGED <<object, pending, log, revision, writer, cursor>>,
         missed \subseteq missed', sync[c].late \subseteq sync'[c].late,
         sync'[c].stamp = sync[c].stamp, sync'[c].revision = sync[c].revision,
         sync'[c].todo = sync[c].todo, sync'[c].deltas = sync[c].deltas \ {d},
         \A p \in Path \ {d.path} : local'[c][p] = local[c][p]
  PROVE  DeltasHold(c)'
<1>a. DeviceInv(c) /\ Numbers
  BY TypesGiveNumbers DEF SyncInv
<1> SUFFICES ASSUME NEW f \in sync[c].deltas \ {d}
             PROVE  /\ f.path \notin sync[c].todo
                    /\ \A g \in sync[c].deltas \ {d} : g.path = f.path => g = f
                    /\ f.kind = "delete" => RemovalHolds(c, f)'
  BY DEF DeltasHold
<1>1. /\ f.path \notin sync[c].todo /\ f.path \in Path \ {d.path}
      /\ \A g \in sync[c].deltas : g.path = f.path => g = f
      /\ f.kind = "delete" => RemovalHolds(c, f)
  BY <1>a DEF DeviceInv, DeltasHold, Numbers
<1>2. f.kind = "delete" => RemovalHolds(c, f)'
  <2> SUFFICES ASSUME RemovalHolds(c, f) PROVE RemovalHolds(c, f)'
    BY <1>1
  <2>1. local'[c][f.path] = local[c][f.path]
    BY <1>1
  <2>2. /\ NoStepBack(c, f.path, f.by)' /\ Past(f.path, f.by)'
        /\ Due(c, object[f.path].by)' => Due(c, object[f.path].by)
        /\ Logged(object[f.path].by)' <=> Logged(object[f.path].by)
    BY <2>1 DEF RemovalHolds, Due, Logged, NoStepBack, Announced, Past
  <2> QED
    BY <2>2 DEF RemovalHolds
<1> QED
  BY <1>1, <1>2

\* A device that removes what the vault still has did not stand for it any more.
LEMMA RemovalUncovers ==
  ASSUME SyncInv, NEW c \in Client, NEW d \in sync[c].deltas, sync[c].stage = "answered",
         d.kind = "delete", Held(c, object[d.path].by), object[d.path].present
  PROVE  local[c][d.path].by = object[d.path].by /\ object[d.path].by \in sync[c].late
<1>a. DeviceInv(c) /\ Numbers /\ d.path \in Path
  BY TypesGiveNumbers DEF SyncInv, Numbers
<1>b. /\ object[d.path].by \in Nat /\ cursor[c].at \in Nat /\ revision \in Nat
      /\ sync[c].revision \in Nat /\ cursor[c].revision \in Nat
  BY <1>a DEF Numbers
<1>1. local[c][d.path].by = object[d.path].by
  BY <1>a DEF DeviceInv, Covered, Has
<1>2. RemovalHolds(c, d)
  BY <1>a DEF DeviceInv, DeltasHold
<1>3. ~(object[d.path].by <= cursor[c].at)
  BY <1>2 DEF RemovalHolds, Held
<1>4. revision = cursor[c].revision
  BY <1>3 DEF Held
<1>5. revision = sync[c].revision
  BY <1>a, <1>b, <1>4 DEF DeviceInv, Marks
<1>6. object[d.path].by \in sync[c].late
  BY <1>2, <1>5 DEF RemovalHolds, Due, Held
<1> QED
  BY <1>1, <1>6

LEMMA ApplyKeeps ==
  ASSUME SyncInv, NEW c \in Client, NEW d \in sync[c].deltas, ApplyDelta(c, d)
  PROVE  DeviceInv(c)'
<1>a. DeviceInv(c) /\ Numbers /\ d.path \in Path /\ local[c] \in [Path -> Copy]
  BY TypesGiveNumbers DEF SyncInv, SyncTypeOK, Numbers
<1>b. /\ UNCHANGED <<clock, object, pending, log, revision, writer, cursor>>
      /\ sync[c].stage = "answered" /\ sync[c].todo = {}
      /\ sync'[c].stage = sync[c].stage /\ sync'[c].mode = sync[c].mode
      /\ sync'[c].stamp = sync[c].stamp /\ sync'[c].todo = sync[c].todo
      /\ sync'[c].revision = sync[c].revision /\ sync'[c].events = sync[c].events
      /\ sync'[c].deltas = sync[c].deltas \ {d}
  BY ApplyEffect
<1>1. Marks(c)' /\ ManifestTells(c)' /\ WarmWasQuiet(c)'
  BY <1>a, <1>b DEF DeviceInv, Marks, ManifestTells, Untouched, WarmWasQuiet
<1>2. sync[c].late \subseteq sync'[c].late => Shown(c)'
  BY <1>a, <1>b DEF DeviceInv, Shown, Due, Logged
<1>3. CASE /\ d.kind = "delete"
           /\ local'[c] = [local[c] EXCEPT ![d.path] = [by |-> d.by, present |-> FALSE]]
           /\ sync'[c].failed = sync[c].failed /\ sync'[c].late = sync[c].late
           /\ missed' = missed \union
                ({c} \X ({local[c][d.path].by} \intersect sync[c].late))
  <2>1. /\ local'[c][d.path].by = d.by /\ ~local'[c][d.path].present
        /\ \A p \in Path \ {d.path} : local'[c][p] = local[c][p]
    BY <1>a, <1>3
  <2>2. missed \subseteq missed' /\ (local[c][d.path].by \in sync[c].late
                                       => <<c, local[c][d.path].by>> \in missed')
    BY <1>3
  <2>3. RemovalHolds(c, d)
    BY <1>a, <1>3 DEF DeviceInv, DeltasHold
  <2>4. LocalTells(c)'
    BY <1>a, <1>b, <2>1, <2>3 DEF DeviceInv, LocalTells, RemovalHolds, Past, Logged
  <2>5. Covered(c)'
    <3> SUFFICES ASSUME NEW p \in Path, Held(c, object[p].by)' PROVE Has(c, p)'
      BY DEF Covered
    <3>1. Held(c, object[p].by)
      BY <1>b, <2>2 DEF Held, Logged
    <3>2. CASE p # d.path
      BY <1>a, <1>b, <2>1, <3>1, <3>2 DEF DeviceInv, Covered, Has
    <3>3. CASE p = d.path /\ ~object[p].present
      BY <1>b, <2>1, <3>3 DEF Has
    <3>4. CASE p = d.path /\ object[p].present
      <4>1. local[c][p].by = object[p].by /\ object[p].by \in sync[c].late
        BY <1>b, <1>3, <3>1, <3>4, RemovalUncovers
      <4> QED
        BY <1>b, <2>2, <3>4, <4>1 DEF Held
    <3> QED
      BY <3>2, <3>3, <3>4
  <2>6. Accounted(c)'
    <3> SUFFICES ASSUME ~sync[c].failed, NEW p \in Path, Due(c, object[p].by)',
                        <<c, object[p].by>> \notin missed'
                 PROVE  Has(c, p)' \/ \E f \in sync[c].deltas \ {d} : f.path = p
      BY <1>b, <1>3 DEF Accounted
    <3>1. Due(c, object[p].by) /\ <<c, object[p].by>> \notin missed
      BY <1>b, <1>3, <2>2 DEF Due, Logged
    <3>2. CASE p # d.path
      BY <1>a, <1>b, <2>1, <3>1, <3>2 DEF DeviceInv, Accounted, Has
    <3>3. CASE p = d.path
      BY <1>b, <2>1, <2>3, <3>1, <3>3 DEF RemovalHolds, Has
    <3> QED
      BY <3>2, <3>3
  <2>7. DeltasHold(c)'
    BY <1>b, <1>3, <2>1, <2>2, OthersHold
  <2> QED
    BY <1>1, <1>2, <1>3, <2>4, <2>5, <2>6, <2>7 DEF DeviceInv
<1>4. CASE /\ object[d.path].present
           /\ local'[c] = [local[c] EXCEPT ![d.path] =
                             [by |-> object[d.path].by, present |-> TRUE]]
           /\ sync'[c].failed = sync[c].failed /\ sync'[c].late = sync[c].late
           /\ UNCHANGED missed
  <2>1. /\ local'[c][d.path].by = object[d.path].by
        /\ \A p \in Path \ {d.path} : local'[c][p] = local[c][p]
    BY <1>a, <1>4
  <2>2. LocalTells(c)'
    <3>1. Past(d.path, object[d.path].by) /\ object[d.path].by \in Nat
      BY <1>a, CurrentIsPast DEF SyncInv, Numbers
    <3> QED
      BY <1>a, <1>b, <2>1, <3>1 DEF DeviceInv, LocalTells, Past, Logged
  <2>3. Covered(c)'
    BY <1>a, <1>b, <1>4, <2>1 DEF DeviceInv, Covered, Held, Logged, Has
  <2>4. Accounted(c)'
    BY <1>a, <1>b, <1>4, <2>1 DEF DeviceInv, Accounted, Due, Logged, Has
  <2>5. DeltasHold(c)'
    BY <1>b, <1>4, <2>1, OthersHold
  <2> QED
    BY <1>1, <1>2, <1>4, <2>2, <2>3, <2>4, <2>5 DEF DeviceInv
<1>5. ASSUME local'[c] = local[c], UNCHANGED missed
      PROVE  LocalTells(c)' /\ Covered(c)'
  BY <1>a, <1>b, <1>5 DEF DeviceInv, LocalTells, Past, Covered, Held, Logged, Has
<1>6. CASE sync'[c].failed /\ local'[c] = local[c] /\ sync'[c].late = sync[c].late
           /\ UNCHANGED missed
  <2>1. Accounted(c)'
    BY <1>6 DEF Accounted
  <2>2. DeltasHold(c)'
    BY <1>b, <1>6, OthersHold
  <2> QED
    BY <1>1, <1>2, <1>5, <1>6, <2>1, <2>2 DEF DeviceInv
<1>7. CASE /\ d.kind = "delete" /\ local'[c] = local[c] /\ UNCHANGED missed
           /\ sync'[c].failed = sync[c].failed
           /\ sync'[c].late = sync[c].late \union PassedOver(d)
  <2>1. Accounted(c)'
    <3> SUFFICES ASSUME ~sync[c].failed, NEW p \in Path, Due(c, object[p].by)',
                        <<c, object[p].by>> \notin missed
                 PROVE  Has(c, p) \/ \E f \in sync[c].deltas \ {d} : f.path = p
      BY <1>b, <1>7 DEF Accounted, Has
    <3>1. Due(c, object[p].by) /\ object[p].by \notin PassedOver(d)
      BY <1>b, <1>7 DEF Due, Logged
    <3>2. CASE p # d.path
      BY <1>a, <1>b, <3>1, <3>2 DEF DeviceInv, Accounted
    <3>3. CASE p = d.path
      <4>1. PICK i \in log : i.at = object[p].by
        BY <3>1 DEF Due, Logged
      <4>2. i.path = p
        BY <4>1 DEF SyncInv, HistoryInv, LogTells
      <4>3. object[p].by \in Nat /\ d.by \in Nat /\ cursor[c].at \in Nat
        BY <1>a DEF Numbers
      <4>4. object[p].by > d.by
        BY <3>1, <3>3, <4>1, <4>2, <4>3 DEF PassedOver
      <4>5. object[p].by <= cursor[c].at
        BY <1>a, <1>7, <3>1, <3>3, <4>4 DEF DeviceInv, DeltasHold, RemovalHolds
      <4> QED
        BY <1>a, <3>1, <4>5 DEF DeviceInv, Covered, Held, Due
    <3> QED
      BY <3>2, <3>3
  <2>2. DeltasHold(c)'
    BY <1>b, <1>7, OthersHold
  <2> QED
    BY <1>1, <1>2, <1>5, <1>7, <2>1, <2>2 DEF DeviceInv
<1> QED
  BY <1>3, <1>4, <1>6, <1>7, ApplyEffect

(***************************************************************************)
(* The invariant holds, and with it what a device may trust.               *)
(***************************************************************************)
LEMMA SyncingKeeps ==
  ASSUME SyncInv, NEW c \in Client, Syncing(c)
  PROVE  \A d \in Client : DeviceInv(d)'
<1>1. DeviceInv(c)'
  BY PreparingKeeps, QueryKeeps, ScanKeeps, BuildKeeps, ApplyKeeps, FinishKeeps DEF Syncing
<1>2. ASSUME NEW d \in Client \ {c} PROVE DeviceInv(d)'
  <2>1. /\ UNCHANGED wvars
        /\ local'[d] = local[d] /\ cursor'[d] = cursor[d] /\ sync'[d] = sync[d]
    BY DEF Syncing, SyncInv, SyncTypeOK, RequestSync, ListPending, TakeStamp, ReadCursor,
           QueryLog, StartScan, BuildDelta, ApplyDelta, FinishSync, AbandonSync
  <2>2. missed' = missed \/ \E S : missed' = missed \union ({c} \X S)
    BY DEF Syncing, RequestSync, ListPending, TakeStamp, ReadCursor,
           QueryLog, StartScan, BuildDelta, ApplyDelta, FinishSync, AbandonSync
  <2>3. \A b : <<d, b>> \in missed' <=> <<d, b>> \in missed
    BY <2>2
  <2> QED
    BY <2>1, <2>3, Aside DEF SyncInv
<1> QED
  BY <1>1, <1>2

LEMMA SyncSteps == [SyncNext]_svars => [WritesNext]_wvars
<1>1. ASSUME NEW c \in Client, Syncing(c) PROVE UNCHANGED wvars
  BY <1>1 DEF Syncing, RequestSync, ListPending, TakeStamp, ReadCursor, QueryLog,
              StartScan, BuildDelta, ApplyDelta, FinishSync, AbandonSync
<1>2. CASE Replicate \/ UNCHANGED svars
  BY <1>2 DEF Replicate, svars, wvars, table
<1>3. CASE Mutate
  BY <1>3 DEF Mutate
<1> QED
  BY <1>1, <1>2, <1>3 DEF SyncNext

LEMMA NextSync == SyncInv /\ [SyncNext]_svars => SyncInv'
<1> SUFFICES ASSUME SyncInv, [SyncNext]_svars PROVE SyncInv'
  OBVIOUS
<1>1. [WritesNext]_wvars
  BY SyncSteps
<1>2. WritesInv' /\ HistoryInv' /\ Effect
  BY <1>1, NextWrites, NextHistory, WritesEffect DEF SyncInv
<1>3. SyncTypeOK'
  BY <1>2, SyncTypesKept
<1>4. CASE Mutate
  BY <1>2, <1>3, <1>4, MutateKeeps DEF SyncInv
<1>5. CASE \E c \in Client : Syncing(c)
  BY <1>2, <1>3, <1>5, SyncingKeeps DEF SyncInv
<1>6. CASE Replicate \/ UNCHANGED svars
  <2>1. UNCHANGED <<wvars, local, cursor, sync, missed>>
    BY <1>6 DEF Replicate, cvars, svars, wvars, table
  <2> QED
    BY <1>2, <1>3, <2>1, Aside DEF SyncInv
<1> QED
  BY <1>4, <1>5, <1>6 DEF SyncNext

LEMMA SyncInvHolds == SyncSpec => []SyncInv
  BY InitSync, NextSync, PTL DEF SyncSpec

\* Devices only read what the writers left: with any number of them, every step is one
\* of VaultWrites or a stutter, so that what is proved of the writers holds here too.
THEOREM SyncRefines == SyncSpec => WritesSpec
<1>1. SyncInit => WritesInit
  BY DEF SyncInit
<1> QED
  BY <1>1, SyncSteps, PTL DEF SyncSpec, WritesSpec

\* Every variable keeps to its type: above all, a device holds and is told of nothing
\* but versions the clock has reached.
THEOREM SyncTypesHold == SyncSpec => []SyncTypeOK
<1>1. SyncInv => SyncTypeOK
  BY DEF SyncInv
<1> QED
  BY SyncInvHolds, <1>1, PTL

\* A device whose sync is over has every logged change up to its cursor that is not
\* among those its syncs passed over (performSync advances the cursor last).
THEOREM CursorHolds == SyncSpec => []CursorIsCovered
<1>1. SyncInv => CursorIsCovered
  BY DEF SyncInv, DeviceInv, Covered, Held, CursorIsCovered
<1> QED
  BY SyncInvHolds, <1>1, PTL

\* A device that skips a sync because nothing is pending and the revision is the one
\* it saw has every published change outside missed (handleSync's short-circuit).
THEOREM SkipHolds == SyncSpec => []SkipIsSafe
<1>1. SyncInv => SkipIsSafe
  BY DEF SyncInv, DeviceInv, Covered, Held, SkipIsSafe, WouldSkip
<1> QED
  BY SyncInvHolds, <1>1, PTL

\* A device exchanges what it holds for something older only when that is the state of
\* a withdrawn intent, or of a row its query did not show (applying a delta).
THEOREM NoStepBackHolds == SyncSpec => NeverGoesBack
<1> DEFINE Steady == \A c \in Client, p \in Path :
             \/ local'[c][p].by >= local[c][p].by
             \/ ~Announced(local[c][p].by)
             \/ local[c][p].by \in sync[c].late
<1>1. SyncInv /\ [SyncNext]_svars => [Steady]_local
  <2> SUFFICES ASSUME SyncInv, [SyncNext]_svars, local' # local,
                      NEW c \in Client, NEW p \in Path
               PROVE  NoStepBack(c, p, local'[c][p].by)
    BY DEF NoStepBack
  <2>a. DeviceInv(c) /\ Numbers /\ local \in [Client -> [Path -> Copy]]
    BY TypesGiveNumbers DEF SyncInv, SyncTypeOK
  <2>1. PICK g \in Client : \E d \in sync[g].deltas : ApplyDelta(g, d)
    BY DEF SyncNext, Mutate, Replicate, cvars, svars, Syncing, RequestSync, ListPending,
           TakeStamp, ReadCursor, QueryLog, StartScan, BuildDelta, FinishSync, AbandonSync
  <2>2. PICK d \in sync[g].deltas : ApplyDelta(g, d)
    BY <2>1
  <2>3. CASE g = c /\ p = d.path /\ d.kind = "delete" /\ local'[c][p].by = d.by
    BY <2>a, <2>3 DEF DeviceInv, DeltasHold, RemovalHolds
  <2>4. CASE g = c /\ p = d.path /\ object[p].present /\ local'[c][p].by = object[p].by
    <3>1. local[c][p].by <= object[p].by
      BY <2>a, <2>4 DEF DeviceInv, LocalTells, Past
    <3> QED
      BY <2>a, <2>4, <3>1 DEF NoStepBack, Numbers
  <2>5. CASE local'[c][p] = local[c][p]
    BY <2>a, <2>5 DEF NoStepBack, Numbers
  <2> QED
    BY <2>a, <2>2, <2>3, <2>4, <2>5 DEF ApplyDelta
<1> QED
  BY SyncInvHolds, <1>1, PTL DEF SyncSpec, NeverGoesBack

================================================================================
