-------------------------- MODULE OutboxDeliveryProofs --------------------------
(***************************************************************************)
(* Theorems about OutboxDelivery, for every set of revisions, consumers    *)
(* and overlapping invocations: projections miss nothing, and checkpoints  *)
(* advance one event at a time.                                            *)
(***************************************************************************)
EXTENDS OutboxDelivery, TLAPS

USE DeliveryAssumption DEF dvars, hvars

LEMMA InitDelivery == DeliveryInit => DeliveryInv
  BY DEF DeliveryInit, HInit, DeliveryInv, DeliveryTypeOK, DeliveryState, Line,
         ProjectionIsWhole, Resting

\* What an invocation remembers, as one of the conjuncts of the invariant.
Remembers(d) ==
  delivering[d].stage # "idle" =>
    /\ delivering[d].consumer \in Consumer
    /\ delivering[d].previous <= checkpoint[delivering[d].consumer]
    /\ delivering[d].stage \in {"fetched", "taken"} => delivering[d].previous < length
    /\ delivering[d].stage = "taken" =>
         delivering[d].previous < newest[delivering[d].consumer]

Bounded == \A c \in Consumer : newest[c] <= length

LEMMA InvParts ==
  DeliveryInv <=> /\ DeliveryTypeOK
                  /\ Line
                  /\ ProjectionIsWhole
                  /\ Bounded
                  /\ \A d \in Deliverer : Remembers(d)
  BY DEF DeliveryInv, Bounded, Remembers

\* The line grows at its end only, so that no projection changes.
LEMMA PublicationKeeps ==
  ASSUME DeliveryInv, HNext, UNCHANGED dvars
  PROVE  DeliveryInv'
<1> USE InvParts
<1>1. PICK r \in Revision : Append(r) \/ Abandon(r)
  BY DEF HNext
<1>2. CASE Abandon(r)
  <2>1. UNCHANGED <<length, position, checkpoint, delivering, projection, newest>>
    BY <1>2 DEF Abandon
  <2>2. DeliveryTypeOK' /\ Line' /\ Bounded'
    BY <2>1 DEF DeliveryTypeOK, Line, Bounded
  <2>3. ProjectionIsWhole' /\ \A d \in Deliverer : Remembers(d)'
    BY <2>1 DEF ProjectionIsWhole, Remembers
  <2> QED
    BY <2>2, <2>3 DEF DeliveryInv, Bounded, Remembers
<1>3. CASE Append(r)
  <2>1. /\ length \in Nat /\ length' = length + 1 /\ position[r] = 0
        /\ position' = [position EXCEPT ![r] = length + 1]
        /\ position \in [Revision -> 0..length]
    BY <1>3 DEF Append, Line
  <2>2. position' \in [Revision -> 0..length']
    BY <2>1
  <2>3. \A n \in 1..length' : \E s \in Revision : position'[s] = n
    <3> TAKE n \in 1..length'
    <3>1. CASE n = length + 1
      BY <2>1, <3>1
    <3>2. CASE n \in 1..length
      <4>1. PICK s \in Revision : position[s] = n
        BY <3>2 DEF Line
      <4>2. s # r
        BY <2>1, <3>2, <4>1
      <4> QED
        BY <2>1, <4>1, <4>2
    <3> QED
      BY <2>1, <3>1, <3>2
  <2>4. \A s, t \in Revision : position'[s] = position'[t] /\ position'[s] # 0 => s = t
    <3> TAKE s, t \in Revision
    <3> HAVE position'[s] = position'[t] /\ position'[s] # 0
    <3>1. CASE s = r \/ t = r
      BY <2>1, <3>1
    <3>2. CASE s # r /\ t # r
      BY <2>1, <3>2 DEF Line
    <3> QED
      BY <3>1, <3>2
  <2>5. Line'
    BY <2>1, <2>2, <2>3, <2>4 DEF Line
  <2>6. DeliveryTypeOK' /\ Bounded'
    BY <2>1 DEF DeliveryTypeOK, Bounded
  <2>7. ProjectionIsWhole'
    <3> SUFFICES ASSUME NEW c \in Consumer
                 PROVE  /\ projection'[c] = {s \in Revision : position'[s] \in 1..newest'[c]}
                        /\ checkpoint'[c] <= newest'[c]
      BY DEF ProjectionIsWhole
    <3>1. newest[c] \in Nat /\ newest[c] <= length
      BY DEF DeliveryTypeOK, Bounded
    <3>2. \A s \in Revision : position'[s] \in 1..newest[c] <=> position[s] \in 1..newest[c]
      BY <2>1, <3>1
    <3> QED
      BY <3>2 DEF ProjectionIsWhole
  <2>8. \A d \in Deliverer : Remembers(d)'
    BY <2>1 DEF Remembers, DeliveryTypeOK, DeliveryState
  <2> QED
    BY <2>5, <2>6, <2>7, <2>8 DEF DeliveryInv, Bounded, Remembers
<1> QED
  BY <1>1, <1>2, <1>3

\* An invocation that rests remembers nothing.
LEMMA RestingKeeps ==
  ASSUME DeliveryInv, NEW d \in Deliverer, Rests(d), UNCHANGED <<hvars, checkpoint,
         projection, newest>>
  PROVE  DeliveryInv'
<1>1. delivering' = [delivering EXCEPT ![d] = Resting]
  BY DEF Rests
<1>2. DeliveryTypeOK'
  BY <1>1, InvParts DEF DeliveryTypeOK, DeliveryState, Resting
<1>3. Line' /\ ProjectionIsWhole' /\ Bounded'
  BY InvParts DEF Line, ProjectionIsWhole, Bounded
<1>4. \A e \in Deliverer : Remembers(e)'
  BY <1>1, InvParts DEF Remembers, Resting, DeliveryTypeOK
<1> QED
  BY <1>2, <1>3, <1>4 DEF DeliveryInv, Bounded, Remembers

\* Only the state of one invocation changes, and it remembers what holds.
LEMMA GoingKeeps ==
  ASSUME DeliveryInv, NEW d \in Deliverer, NEW s \in DeliveryState,
         delivering' = [delivering EXCEPT ![d] = s],
         UNCHANGED <<hvars, checkpoint, projection, newest>>, Remembers(d)'
  PROVE  DeliveryInv'
<1>1. DeliveryTypeOK'
  BY InvParts DEF DeliveryTypeOK
<1>2. Line' /\ ProjectionIsWhole' /\ Bounded'
  BY InvParts DEF Line, ProjectionIsWhole, Bounded
<1>3. ASSUME NEW e \in Deliverer, e # d PROVE Remembers(e)'
  BY <1>3, InvParts DEF Remembers, DeliveryTypeOK
<1> QED
  BY <1>1, <1>2, <1>3 DEF DeliveryInv, Bounded, Remembers

LEMMA DeliveringKeeps ==
  ASSUME DeliveryInv, NEW d \in Deliverer, Delivering(d)
  PROVE  DeliveryInv'
<1>0. DeliveryTypeOK /\ delivering[d] \in DeliveryState /\ Remembers(d)
  BY InvParts DEF DeliveryTypeOK
<1>1. ASSUME NEW c \in Consumer, ReadConsumer(d, c) PROVE DeliveryInv'
  <2> DEFINE s == [stage |-> "read", consumer |-> c, previous |-> checkpoint[c]]
  <2>1. s \in DeliveryState
    BY <1>0 DEF DeliveryTypeOK, DeliveryState
  <2>2. /\ delivering' = [delivering EXCEPT ![d] = s]
        /\ UNCHANGED <<hvars, checkpoint, projection, newest>>
    BY <1>1 DEF ReadConsumer
  <2>3. Remembers(d)'
    BY <1>0, <2>2 DEF Remembers, DeliveryTypeOK
  <2> QED
    BY <2>1, <2>2, <2>3, GoingKeeps
<1>2. CASE FetchEvent(d)
  <2>1. UNCHANGED <<hvars, checkpoint, projection, newest>>
    BY <1>2 DEF FetchEvent
  <2>2. CASE Rests(d)
    BY <2>1, <2>2, RestingKeeps
  <2>3. CASE Goes(d, "fetched") /\ delivering[d].previous < length
    <3> DEFINE s == [delivering[d] EXCEPT !.stage = "fetched"]
    <3>1. s \in DeliveryState /\ delivering' = [delivering EXCEPT ![d] = s]
      BY <1>0, <2>3 DEF Goes, DeliveryState
    <3>2. Remembers(d)'
      BY <1>0, <1>2, <2>1, <2>3, <3>1 DEF FetchEvent, Remembers, DeliveryTypeOK, DeliveryState
    <3> QED
      BY <2>1, <3>1, <3>2, GoingKeeps
  <2> QED
    BY <1>2, <2>2, <2>3 DEF FetchEvent
<1>3. CASE HandEvent(d)
  <2> DEFINE c == delivering[d].consumer
             n == delivering[d].previous + 1
  <2>0. /\ c \in Consumer /\ delivering[d].previous \in Nat /\ n \in 1..length
        /\ checkpoint[c] \in Nat /\ newest[c] \in Nat /\ delivering[d].previous <= checkpoint[c]
        /\ UNCHANGED <<hvars, checkpoint>>
    BY <1>0, <1>3, InvParts DEF HandEvent, Remembers, DeliveryTypeOK, DeliveryState, Line
  <2>1. PICK r \in Revision : position[r] = n /\ Take(c, n, r)
    BY <1>3 DEF HandEvent
  <2>2. newest[c] >= delivering[d].previous
    BY <2>0, InvParts DEF ProjectionIsWhole
  <2>3. /\ newest' = [newest EXCEPT ![c] = IF n > newest[c] THEN n ELSE @]
        /\ projection' = [projection EXCEPT ![c] = IF n > newest[c] THEN @ \union {r} ELSE @]
    BY <1>0, <2>0, <2>1 DEF Take, DeliveryTypeOK
  <2>4. newest'[c] >= n
    BY <1>0, <2>0, <2>3 DEF DeliveryTypeOK
  <2>5. Line' /\ Bounded'
    BY <1>0, <2>0, <2>3, InvParts DEF Line, Bounded, DeliveryTypeOK
  <2>6. ProjectionIsWhole'
    <3> SUFFICES ASSUME NEW e \in Consumer
                 PROVE  /\ projection'[e] = {s \in Revision : position'[s] \in 1..newest'[e]}
                        /\ checkpoint'[e] <= newest'[e]
      BY DEF ProjectionIsWhole
    <3>1. /\ projection[e] = {s \in Revision : position[s] \in 1..newest[e]}
          /\ checkpoint[e] <= newest[e]
      BY InvParts DEF ProjectionIsWhole
    <3>2. CASE e # c \/ n <= newest[c]
      BY <1>0, <2>0, <2>3, <3>1, <3>2 DEF DeliveryTypeOK
    <3>3. CASE e = c /\ n > newest[c]
      <4>1. newest'[c] = n /\ newest[c] = n - 1 /\ projection'[c] = projection[c] \union {r}
        BY <1>0, <2>0, <2>2, <2>3, <3>3 DEF DeliveryTypeOK
      <4>2. \A s \in Revision : position[s] \in Nat /\ (position[s] = n => s = r)
        BY <2>0, <2>1, InvParts DEF Line
      <4>3. \A s \in Revision : s \in projection[c] \union {r} <=> position[s] \in 1..n
        BY <2>0, <2>1, <3>1, <3>3, <4>1, <4>2
      <4>4. projection[c] \subseteq Revision /\ checkpoint[c] <= n
        BY <1>0, <2>0, <3>1, <3>3, <4>1 DEF DeliveryTypeOK
      <4> QED
        BY <2>0, <3>3, <4>1, <4>3, <4>4
    <3> QED
      BY <1>0, <2>0, <3>2, <3>3 DEF DeliveryTypeOK
  <2>7. ASSUME NEW e \in Deliverer, e # d PROVE Remembers(e)'
    <3>1. delivering'[e] = delivering[e] /\ Remembers(e) /\ delivering[e] \in DeliveryState
      BY <1>0, <1>3, <2>7, InvParts DEF HandEvent, Goes, Rests, DeliveryTypeOK
    <3>2. \A x \in Consumer : newest[x] \in Nat /\ newest'[x] \in Nat /\ newest'[x] >= newest[x]
      BY <1>0, <2>0, <2>3 DEF DeliveryTypeOK
    <3> QED
      BY <2>0, <3>1, <3>2 DEF Remembers, DeliveryState
  <2>8. Remembers(d)'
    <3>1. CASE Goes(d, "taken")
      <4>1. /\ delivering'[d].stage = "taken" /\ delivering'[d].consumer = c
            /\ delivering'[d].previous = delivering[d].previous
        BY <1>0, <3>1 DEF Goes, DeliveryTypeOK, DeliveryState
      <4>2. length \in Nat /\ length' = length /\ newest'[c] \in Nat
        BY <1>0, <2>0, <2>3, InvParts DEF DeliveryTypeOK, Line
      <4>3. delivering[d].previous < length' /\ delivering[d].previous < newest'[c]
        BY <2>0, <2>4, <4>2
      <4> QED
        BY <2>0, <4>1, <4>3 DEF Remembers
    <3>2. CASE Rests(d)
      BY <1>0, <3>2 DEF Rests, Remembers, DeliveryTypeOK, Resting
    <3> QED
      BY <1>3, <3>1, <3>2 DEF HandEvent
  <2>9. DeliveryTypeOK'
    <3>1. newest' \in [Consumer -> Nat] /\ projection' \in [Consumer -> SUBSET Revision]
      BY <1>0, <2>0, <2>1, <2>3 DEF DeliveryTypeOK
    <3>2. delivering' \in [Deliverer -> DeliveryState]
      BY <1>0, <1>3 DEF HandEvent, Goes, Rests, DeliveryTypeOK, DeliveryState, Resting
    <3> QED
      BY <1>0, <2>0, <3>1, <3>2 DEF DeliveryTypeOK
  <2> QED
    BY <2>5, <2>6, <2>7, <2>8, <2>9 DEF DeliveryInv, Bounded, Remembers
<1>4. CASE MoveCheckpoint(d)
  <2> DEFINE c == delivering[d].consumer
  <2>0. /\ c \in Consumer /\ delivering[d].previous \in Nat /\ checkpoint[c] \in Nat
        /\ delivering[d].previous < newest[c] /\ UNCHANGED <<hvars, projection, newest>>
        /\ Rests(d)
    BY <1>0, <1>4 DEF MoveCheckpoint, Remembers, DeliveryTypeOK, DeliveryState
  <2>1. checkpoint' = [checkpoint EXCEPT ![c] =
                         IF @ = delivering[d].previous THEN @ + 1 ELSE @]
    BY <1>0, <1>4, <2>0 DEF MoveCheckpoint, DeliveryTypeOK
  <2>2. /\ checkpoint' \in [Consumer -> Nat]
        /\ \A x \in Consumer : checkpoint'[x] >= checkpoint[x]
    BY <1>0, <2>0, <2>1 DEF DeliveryTypeOK
  <2>3. DeliveryTypeOK'
    BY <1>0, <2>0, <2>2 DEF DeliveryTypeOK, Rests, DeliveryState, Resting
  <2>4. Line' /\ Bounded'
    BY <2>0, InvParts DEF Line, Bounded
  <2>5. ProjectionIsWhole'
    BY <1>0, <2>0, <2>1, InvParts DEF ProjectionIsWhole, DeliveryTypeOK
  <2>6. ASSUME NEW e \in Deliverer PROVE Remembers(e)'
    <3>1. CASE e = d
      BY <1>0, <2>0, <3>1 DEF Rests, Remembers, DeliveryTypeOK, Resting
    <3>2. CASE e # d
      <4>1. delivering'[e] = delivering[e] /\ Remembers(e) /\ delivering[e] \in DeliveryState
        BY <1>0, <2>0, <3>2, InvParts DEF Rests, DeliveryTypeOK
      <4> QED
        BY <1>0, <2>0, <2>2, <4>1 DEF Remembers, DeliveryState, DeliveryTypeOK
    <3> QED
      BY <3>1, <3>2
  <2> QED
    BY <2>3, <2>4, <2>5, <2>6 DEF DeliveryInv, Bounded, Remembers
<1>5. CASE StopDelivery(d)
  BY <1>5, RestingKeeps DEF StopDelivery
<1> QED
  BY <1>1, <1>2, <1>3, <1>4, <1>5 DEF Delivering

LEMMA NextDelivery == DeliveryInv /\ [DeliveryNext]_allDeliveryVars => DeliveryInv'
<1> SUFFICES ASSUME DeliveryInv, [DeliveryNext]_allDeliveryVars PROVE DeliveryInv'
  OBVIOUS
<1>1. CASE UNCHANGED allDeliveryVars
  BY <1>1 DEF allDeliveryVars, DeliveryInv, DeliveryTypeOK, Line, ProjectionIsWhole
<1>2. CASE HNext /\ UNCHANGED dvars
  BY <1>2, PublicationKeeps
<1>3. CASE \E d \in Deliverer : Delivering(d)
  BY <1>3, DeliveringKeeps
<1> QED
  BY <1>1, <1>2, <1>3 DEF DeliveryNext

LEMMA DeliveryInvHolds == DeliverySpec => []DeliveryInv
  BY InitDelivery, NextDelivery, PTL DEF DeliverySpec

\* Checkpoints, invocations and what the sinks have taken keep their types
\* (recovery.ts: deliverNext).
THEOREM DeliveryTypesHold == DeliverySpec => []DeliveryTypeOK
<1>1. DeliveryInv => DeliveryTypeOK
  BY DEF DeliveryInv
<1> QED
  BY <1>1, DeliveryInvHolds, PTL

\* Whatever is replayed, overtaken or lost: a sink has taken exactly the events
\* up to the newest it has, and its checkpoint is not ahead of that.
THEOREM ProjectionHolds == DeliverySpec => []ProjectionIsWhole
<1>1. DeliveryInv => ProjectionIsWhole
  BY DEF DeliveryInv
<1> QED
  BY <1>1, DeliveryInvHolds, PTL

\* The conditional update makes overlapping invocations move the checkpoint one
\* event at a time and never back.
THEOREM CheckpointHolds == DeliverySpec => CheckpointAdvances
<1>1. ASSUME DeliveryInv, [DeliveryNext]_allDeliveryVars
      PROVE  [\A c \in Consumer :
                checkpoint'[c] \in {checkpoint[c], checkpoint[c] + 1}]_checkpoint
  <2>1. CASE UNCHANGED checkpoint
    BY <2>1
  <2>2. ASSUME NEW d \in Deliverer, MoveCheckpoint(d)
        PROVE  \A c \in Consumer : checkpoint'[c] \in {checkpoint[c], checkpoint[c] + 1}
    BY <1>1, <2>2 DEF MoveCheckpoint, DeliveryInv, DeliveryTypeOK
  <2> QED
    BY <1>1, <2>1, <2>2 DEF DeliveryNext, Delivering, ReadConsumer, FetchEvent, HandEvent,
       StopDelivery, allDeliveryVars
<1> QED
  BY <1>1, DeliveryInvHolds, PTL DEF DeliverySpec, CheckpointAdvances
===============================================================================
