----------------------------- MODULE MCComponents -----------------------------
(***************************************************************************)
(* Small instances of the delivery of the store's events and of two parts  *)
(* of the plugin, none of which shares state with another, checked in one  *)
(* run: a behaviour picks one component at the start and only that one     *)
(* moves.                                                                  *)
(***************************************************************************)
EXTENDS OutboxDelivery, WorkspaceReplica, OfflineQueue, TLC

VARIABLE component

ContentSymmetry == Permutations(Content)

ComponentsInit ==
  /\ component \in {"outbox", "replica", "queue"}
  /\ DeliveryInit /\ ReplicaInit /\ QueueInit

Moves(name, next) == component = name /\ next /\ component' = component

ComponentsNext ==
  \/ Moves("outbox", DeliveryNext) /\ UNCHANGED <<rvars, qvars>>
  \/ Moves("replica", ReplicaNext) /\ UNCHANGED <<allDeliveryVars, qvars>>
  \/ Moves("queue", QueueNext) /\ UNCHANGED <<allDeliveryVars, rvars>>

ComponentsSpec ==
  ComponentsInit /\ [][ComponentsNext]_<<component, allDeliveryVars, rvars, qvars>>
===============================================================================
