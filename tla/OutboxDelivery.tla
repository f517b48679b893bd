----------------------------- MODULE OutboxDelivery -----------------------------
(***************************************************************************)
(* Delivery of the outbox to projections (WorkspaceRecoveryService         *)
(* .deliverNext): each consumer has one checkpoint row, the number of the  *)
(* last event it acknowledged.  An invocation reads the checkpoint, fetches *)
(* the event after it, hands it to the consumer's sink and moves the       *)
(* checkpoint under the condition that it is still the one it has read.    *)
(* Invocations for one consumer overlap, fail and stop between any two     *)
(* steps; the sink may throw after it has taken the event.                 *)
(*                                                                         *)
(* The revisions of the workspace are those of WorkspaceHistory, which     *)
(* WorkspaceRevisions implements: event n of the outbox exists when the    *)
(* line has n revisions, and names the n-th (OutboxIsTheLine).             *)
(***************************************************************************)
EXTENDS WorkspaceHistory

CONSTANTS
  Consumer,    \* the projections
  Deliverer,   \* concurrent invocations of deliverNext
  Nobody       \* an invocation that serves no consumer

ASSUME DeliveryAssumption == Nobody \notin Consumer

VARIABLES
  checkpoint,  \* the CHECKPOINT#<consumer> rows, 0 when absent
  delivering,  \* the local state of each invocation
  projection,  \* the revisions each consumer's sink has taken
  newest       \* the number of the last event each sink has taken

dvars == <<checkpoint, delivering, projection, newest>>
allDeliveryVars == <<hvars, dvars>>

Resting == [stage |-> "idle", consumer |-> Nobody, previous |-> 0]

DeliveryState ==
  [stage : {"idle", "read", "fetched", "taken"},
   consumer : Consumer \union {Nobody}, previous : Nat]

DeliveryTypeOK ==
  /\ checkpoint \in [Consumer -> Nat]
  /\ delivering \in [Deliverer -> DeliveryState]
  /\ projection \in [Consumer -> SUBSET Revision]
  /\ newest \in [Consumer -> Nat]

DeliveryInit ==
  /\ HInit
  /\ checkpoint = [c \in Consumer |-> 0]
  /\ delivering = [d \in Deliverer |-> Resting]
  /\ projection = [c \in Consumer |-> {}]
  /\ newest = [c \in Consumer |-> 0]

Goes(d, stage) == delivering' = [delivering EXCEPT ![d].stage = stage]

Rests(d) == delivering' = [delivering EXCEPT ![d] = Resting]

\* The capability gate is open and the checkpoint is read.
ReadConsumer(d, c) ==
  /\ delivering[d].stage = "idle"
  /\ delivering' = [delivering EXCEPT ![d] =
       [stage |-> "read", consumer |-> c, previous |-> checkpoint[c]]]
  /\ UNCHANGED <<hvars, checkpoint, projection, newest>>

\* A mutant: the checkpoint is moved before the sink has the event.
FetchAndMove(d) ==
  /\ delivering[d].stage = "read"
  /\ delivering[d].previous < length
  /\ checkpoint' = [checkpoint EXCEPT ![delivering[d].consumer] =
                      delivering[d].previous + 1]
  /\ Goes(d, "fetched")
  /\ UNCHANGED <<hvars, projection, newest>>

\* The next event; without one the answer is "idle".
FetchEvent(d) ==
  /\ delivering[d].stage = "read"
  /\ IF delivering[d].previous < length THEN Goes(d, "fetched") ELSE Rests(d)
  /\ UNCHANGED <<hvars, checkpoint, projection, newest>>

\* The sink of consumer c is handed event n, of revision r.  It deduplicates and
\* rejects what is older than what it has, as deliverNext requires of it.
Take(c, n, r) ==
  IF n > newest[c]
    THEN /\ projection' = [projection EXCEPT ![c] = @ \union {r}]
         /\ newest' = [newest EXCEPT ![c] = n]
    ELSE UNCHANGED <<projection, newest>>

\* The sink takes the event and answers, or its answer is lost and the
\* invocation ends in an error.
HandEvent(d) ==
  LET c == delivering[d].consumer
      n == delivering[d].previous + 1
  IN
  /\ delivering[d].stage = "fetched"
  /\ \E r \in Revision : position[r] = n /\ Take(c, n, r)
  /\ Goes(d, "taken") \/ Rests(d)
  /\ UNCHANGED <<hvars, checkpoint>>

\* A mutant: the checkpoint is moved whatever it is now.
MoveAnyCheckpoint(d) ==
  /\ delivering[d].stage = "taken"
  /\ checkpoint' = [checkpoint EXCEPT ![delivering[d].consumer] =
                      delivering[d].previous + 1]
  /\ Rests(d)
  /\ UNCHANGED <<hvars, projection, newest>>

\* The conditional update; when another invocation moved the checkpoint first,
\* it is refused and the invocation ends in an error.
MoveCheckpoint(d) ==
  /\ delivering[d].stage = "taken"
  /\ checkpoint' = IF checkpoint[delivering[d].consumer] = delivering[d].previous
                     THEN [checkpoint EXCEPT ![delivering[d].consumer] = @ + 1]
                     ELSE checkpoint
  /\ Rests(d)
  /\ UNCHANGED <<hvars, projection, newest>>

\* The gate closes, a request fails, the sink refuses, or the process dies.
StopDelivery(d) ==
  /\ delivering[d].stage # "idle"
  /\ Rests(d)
  /\ UNCHANGED <<hvars, checkpoint, projection, newest>>

Delivering(d) ==
  \/ \E c \in Consumer : ReadConsumer(d, c)
  \/ FetchEvent(d)
  \/ HandEvent(d)
  \/ MoveCheckpoint(d)
  \/ StopDelivery(d)

DeliveryNext ==
  \/ HNext /\ UNCHANGED dvars
  \/ \E d \in Deliverer : Delivering(d)

DeliverySpec == DeliveryInit /\ [][DeliveryNext]_allDeliveryVars

\* A consumer that trusts its checkpoint misses nothing: whatever is replayed,
\* overtaken or lost, its sink has taken exactly the revisions of the line up to
\* the newest it has, and its checkpoint does not run ahead of that.
ProjectionIsWhole ==
  \A c \in Consumer :
    /\ projection[c] = {r \in Revision : position[r] \in 1..newest[c]}
    /\ checkpoint[c] <= newest[c]

\* The checkpoint of a consumer "monotonically advances", one event at a time,
\* although invocations for it overlap.
CheckpointAdvances ==
  [][\A c \in Consumer :
       checkpoint'[c] \in {checkpoint[c], checkpoint[c] + 1}]_checkpoint

(***************************************************************************)
(* Why: what an invocation remembers is not ahead of its consumer.         *)
(***************************************************************************)
Line ==
  /\ length \in Nat
  /\ position \in [Revision -> 0..length]
  /\ \A n \in 1..length : \E r \in Revision : position[r] = n
  /\ \A r, s \in Revision : position[r] = position[s] /\ position[r] # 0 => r = s

DeliveryInv ==
  /\ DeliveryTypeOK
  /\ Line
  /\ ProjectionIsWhole
  /\ \A c \in Consumer : newest[c] <= length
  /\ \A d \in Deliverer :
       delivering[d].stage # "idle" =>
         /\ delivering[d].consumer \in Consumer
         /\ delivering[d].previous <= checkpoint[delivering[d].consumer]
         /\ delivering[d].stage \in {"fetched", "taken"} =>
              delivering[d].previous < length
         /\ delivering[d].stage = "taken" =>
              delivering[d].previous < newest[delivering[d].consumer]
===============================================================================
