----------------------- MODULE WorkspaceRevisionsProofs -----------------------
(***************************************************************************)
(* Theorems about WorkspaceRevisions: its rows keep their types, the       *)
(* published revisions form one line whatever the publishers and the       *)
(* recovery worker do, the store implements WorkspaceHistory, and what it  *)
(* tells its callers stays true; and about its recovery worker             *)
(* (RecoverySweep).                                                        *)
(***************************************************************************)
EXTENDS RecoverySweep, TLAPS

LEMMA InitTypes == Init => TypeOK
  BY DEF Init, TypeOK, Idle, Invocation, Base, Stage

\* Replacing the state of one invocation keeps the type of all of them.
LEMMA BecomesTypes ==
  ASSUME pub \in [Publisher -> Invocation], NEW p \in Publisher,
         NEW i \in Invocation, Becomes(p, i)
  PROVE  pub' \in [Publisher -> Invocation]
  BY DEF Becomes

LEMMA MovesTypes ==
  ASSUME pub \in [Publisher -> Invocation], NEW p \in Publisher,
         NEW s \in Stage, Moves(p, s)
  PROVE  pub' \in [Publisher -> Invocation]
<1>1. [pub[p] EXCEPT !.stage = s] \in Invocation
  BY DEF Invocation
<1>2. QED
  BY <1>1, BecomesTypes DEF Moves

LEMMA FailsTypes ==
  ASSUME pub \in [Publisher -> Invocation], NEW p \in Publisher,
         NEW c \in {"cas", "ambiguous"}, Fails(p, c)
  PROVE  pub' \in [Publisher -> Invocation]
<1>1. [pub[p] EXCEPT !.stage = "failed", !.cause = c] \in Invocation
  BY DEF Invocation, Stage
<1>2. QED
  BY <1>1, BecomesTypes DEF Fails

LEMMA AnswersTypes ==
  ASSUME pub \in [Publisher -> Invocation], NEW p \in Publisher, Answers(p)
  PROVE  pub' \in [Publisher -> Invocation]
<1>1. Idle \in Invocation
  BY DEF Idle, Invocation, Base, Stage
<1>2. QED
  BY <1>1, BecomesTypes DEF Answers

\* Forgetting who waits for a transaction keeps the type of the transactions.
LEMMA OrphanedTypes ==
  ASSUME inflight \subseteq Transaction, NEW p \in Publisher
  PROVE  Orphaned(p) \subseteq Transaction
  BY DEF Orphaned, Transaction

\* Each step of a publish invocation keeps the types.
LEMMA PublishingTypes ==
  ASSUME TypeOK, InvocationsKnowTheirBase, NEW p \in Publisher, Publishing(p)
  PROVE  TypeOK'
<1> USE DEF TypeOK, rows, store, readers
<1>a. pub[p] \in Invocation
  OBVIOUS
<1>1. ASSUME NEW r \in Revision, BeginPublish(p, r) PROVE TypeOK'
  <2>1. [pub[p] EXCEPT !.stage = "loaded", !.rev = r] \in Invocation
    BY <1>a DEF Invocation, Stage, Base
  <2>2. pub' \in [Publisher -> Invocation]
    BY <1>1, <2>1, BecomesTypes DEF BeginPublish
  <2>3. QED
    BY <1>1, <2>2 DEF BeginPublish
<1>2. ASSUME CheckCommitted(p) PROVE TypeOK'
  <2>1. pub' \in [Publisher -> Invocation]
    BY <1>2, MovesTypes DEF CheckCommitted, Stage
  <2>2. QED
    BY <1>2, <2>1 DEF CheckCommitted
<1>3. ASSUME ReadHead(p) PROVE TypeOK'
  <2>1. HeadRevision(head) \in Base /\ HeadSequence(head) \in Nat
    BY DEF HeadRevision, HeadSequence, HeadRow, Base
  <2>2. [pub[p] EXCEPT !.stage = "based", !.base = HeadRevision(head),
                       !.baseSequence = HeadSequence(head)] \in Invocation
    BY <1>a, <2>1 DEF Invocation, Stage
  <2>3. pub' \in [Publisher -> Invocation]
    BY <1>3, <2>2, BecomesTypes, AnswersTypes DEF ReadHead
  <2>4. QED
    BY <1>3, <2>3 DEF ReadHead
<1>4. ASSUME NEW t \in Instant, StageManifest(p, t) PROVE TypeOK'
  <2>1. [pub[p] EXCEPT !.stage = "staged", !.committedAt = t] \in Invocation
    BY <1>a DEF Invocation, Stage
  <2>2. pub' \in [Publisher -> Invocation]
    BY <1>4, <2>1, BecomesTypes DEF StageManifest
  <2>3. pub[p].rev \in Revision
    BY <1>4, <1>a DEF StageManifest, InvocationsKnowTheirBase, KnowsItsBase, Invocation, Base
  <2>4. ManifestOf(p)' \in Pointer
    BY <1>4, <1>a, <2>3 DEF StageManifest, Becomes, ManifestOf, Pointer, Invocation
  <2>5. QED
    BY <1>4, <2>2, <2>4 DEF StageManifest
<1>5. ASSUME PutRecovery(p) PROVE TypeOK'
  <2>1. Moves(p, "armed") \/ Fails(p, "cas") \/ Fails(p, "ambiguous")
    BY <1>5 DEF PutRecovery
  <2>2. pub' \in [Publisher -> Invocation]
    BY <2>1, FailsTypes, MovesTypes DEF Stage
  <2>3. pub[p].rev \in Revision /\ prepared[pub[p].rev] \in PreparedRow
    BY <1>5, <1>a DEF PutRecovery, InvocationsKnowTheirBase, KnowsItsBase, Invocation, Base
  <2>4. recovery' \in [Revision -> RecoveryRow \union {None}]
    BY <1>5, <2>3, ConstantsAssumption DEF PutRecovery, RecoveryRow, PreparedRow
  <2>5. QED
    BY <1>5, <2>2, <2>4 DEF PutRecovery
<1>6. ASSUME SendTransaction(p) PROVE TypeOK'
  <2>1. pub' \in [Publisher -> Invocation]
    BY <1>6, MovesTypes DEF SendTransaction, Stage
  <2>2. /\ pub[p].rev \in Revision
        /\ pub[p].committedAt \in Instant
        /\ prepared[pub[p].rev] \in PreparedRow
    BY <1>6, <1>a DEF SendTransaction, InvocationsKnowTheirBase, KnowsItsBase, Invocation, Base
  <2>3. ManifestOf(p) \in Pointer
    BY <2>2, <1>a DEF ManifestOf, Pointer, Invocation
  <2>4. TransactionOf(p) \in Transaction
    BY <2>2, <2>3, <1>a
       DEF TransactionOf, Transaction, CommittedRow, PreparedRow, Invocation
  <2>5. QED
    BY <1>6, <2>1, <2>4 DEF SendTransaction
<1>7. ASSUME TimeOut(p) PROVE TypeOK'
  <2>1. pub' \in [Publisher -> Invocation]
    BY <1>7, FailsTypes DEF TimeOut
  <2>2. QED
    BY <1>7, <2>1, OrphanedTypes DEF TimeOut
<1>8. ASSUME RecheckCommitted(p) PROVE TypeOK'
  <2>1. pub' \in [Publisher -> Invocation]
    BY <1>8, MovesTypes, AnswersTypes DEF RecheckCommitted, Stage
  <2>2. QED
    BY <1>8, <2>1 DEF RecheckCommitted
<1>9. ASSUME RecheckHead(p) PROVE TypeOK'
  <2>1. pub' \in [Publisher -> Invocation]
    BY <1>9, AnswersTypes DEF RecheckHead
  <2>2. pub[p].rev \in Revision /\ pub[p].cause \in {"cas", "ambiguous"}
    BY <1>9, <1>a DEF RecheckHead, InvocationsKnowTheirBase, KnowsItsBase, Invocation, Base
  <2>3. QED
    BY <1>9, <2>1, <2>2 DEF RecheckHead
<1>10. ASSUME ResolveAnswer(p) PROVE TypeOK'
  BY <1>10, AnswersTypes DEF ResolveAnswer
<1>11. ASSUME Stop(p) PROVE TypeOK'
  <2>1. pub' \in [Publisher -> Invocation]
    BY <1>11, AnswersTypes DEF Stop, Answers
  <2>2. QED
    BY <1>11, <2>1, OrphanedTypes DEF Stop
<1>12. QED
  BY <1>1, <1>2, <1>3, <1>4, <1>5, <1>6, <1>7, <1>8, <1>9, <1>10, <1>11
     DEF Publishing

\* A landing, refused or lost transaction keeps the types.
LEMMA TravellingTypes ==
  ASSUME TypeOK, NEW t \in inflight, Travelling(t)
  PROVE  TypeOK'
<1> USE DEF TypeOK, rows, store, readers
<1>a. t \in Transaction
  OBVIOUS
<1>1. ASSUME NEW s \in Stage, NEW c \in {"cas", "ambiguous", None},
             Replies(t, s, c)
      PROVE  pub' \in [Publisher -> Invocation]
  <2>1. CASE t.by = None
    BY <1>1, <2>1 DEF Replies
  <2>2. CASE t.by # None
    <3>1. t.by \in Publisher /\ pub[t.by] \in Invocation
      BY <1>a, <2>2 DEF Transaction
    <3>2. [pub[t.by] EXCEPT !.stage = s, !.cause = c] \in Invocation
      BY <3>1 DEF Invocation, Stage
    <3>3. QED
      BY <1>1, <2>2, <3>1, <3>2, BecomesTypes, FailsTypes DEF Replies
  <2>3. QED
    BY <2>1, <2>2
<1>2. CASE LandTransaction(t)
  <2>1. pub' \in [Publisher -> Invocation]
    BY <1>2, <1>1 DEF LandTransaction, Stage
  <2>2. t.rev \in Revision /\ t.row \in CommittedRow
    BY <1>a DEF Transaction
  <2>3. /\ head' \in HeadRow
        /\ committed' \in [Revision -> CommittedRow \union {None}]
        /\ outbox' \subseteq EventRow
    BY <1>2, <2>2 DEF LandTransaction, Apply, HeadRow, CommittedRow, EventRow
  <2>4. recovery' \in [Revision -> RecoveryRow \union {None}]
    BY <1>2, <2>2 DEF LandTransaction, Publishable, RecoveryIs, Apply, RecoveryRow
  <2>5. QED
    BY <1>2, <2>1, <2>3, <2>4 DEF LandTransaction
<1>3. CASE RefuseTransaction(t)
  <2>1. pub' \in [Publisher -> Invocation]
    BY <1>3, <1>1 DEF RefuseTransaction, Stage
  <2>2. QED
    BY <1>3, <2>1 DEF RefuseTransaction
<1>4. CASE LoseTransaction(t)
  <2>1. pub' \in [Publisher -> Invocation]
    BY <1>4, <1>1 DEF LoseTransaction, Stage
  <2>2. QED
    BY <1>4, <2>1 DEF LoseTransaction
<1>5. QED
  BY <1>2, <1>3, <1>4 DEF Travelling

LEMMA OtherTypes ==
  ASSUME TypeOK
  PROVE  /\ \A s \in Submissions : Prepare(s) => TypeOK'
         /\ \A q \in Reader : ReadCurrentHead(q) \/ ReadCurrentRow(q) => TypeOK'
         /\ \A w \in Settler : Settling(w) => TypeOK'
         /\ Tick => TypeOK'
<1> USE DEF TypeOK, rows, store, readers
<1>1. ASSUME NEW s \in Submissions, Prepare(s) PROVE TypeOK'
  BY <1>1, ConstantsAssumption DEF Prepare, PreparedRow, Base
<1>2. ASSUME NEW q \in Reader, ReadCurrentHead(q) PROVE TypeOK'
  BY <1>2 DEF ReadCurrentHead
<1>3. ASSUME NEW q \in Reader, ReadCurrentRow(q) PROVE TypeOK'
  BY <1>3 DEF ReadCurrentRow, HeadRow
<1>4. ASSUME NEW w \in Settler, Settling(w) PROVE TypeOK'
  <2>1. ASSUME NEW r \in Revision, SettleRead(w, r) PROVE TypeOK'
    BY <2>1 DEF SettleRead, Base
  <2>2. ASSUME SettleWrite(w) PROVE TypeOK'
    BY <2>2 DEF SettleWrite, RecoveryIs, Base, RecoveryRow
  <2>3. ASSUME SettleFail(w) PROVE TypeOK'
    BY <2>3 DEF SettleFail, Base
  <2>4. QED
    BY <1>4, <2>1, <2>2, <2>3 DEF Settling
<1>5. ASSUME Tick PROVE TypeOK'
  <2>1. ASSUME NEW r \in Revision, Ageing(r)
        PROVE  [recovery[r] EXCEPT !.age = @ + 1] \in RecoveryRow
    BY <2>1, ConstantsAssumption DEF Ageing, RecoveryIs, RecoveryRow
  <2>2. QED
    BY <1>5, <2>1 DEF Tick
<1>6. QED
  BY <1>1, <1>2, <1>3, <1>4, <1>5

LEMMA NextTypes ==
  ASSUME TypeOK, InvocationsKnowTheirBase, [Next]_vars
  PROVE  TypeOK'
<1>1. CASE Next
  BY <1>1, PublishingTypes, TravellingTypes, OtherTypes DEF Next
<1>2. CASE UNCHANGED vars
  BY <1>2 DEF vars, TypeOK
<1>3. QED
  BY <1>1, <1>2

(***************************************************************************)
(* Rows only grow.                                                         *)
(***************************************************************************)
Grows ==
  /\ \A r \in Revision :
       /\ prepared[r] # None => prepared'[r] = prepared[r]
       /\ committed[r] # None => committed'[r] = committed[r]
       /\ recovery[r] # None => recovery'[r] # None
  /\ manifests \subseteq manifests'

LEMMA RowsGrow ==
  ASSUME TypeOK, TypeOK', [Next]_vars
  PROVE  Grows
<1> USE DEF Grows, rows, store, readers
<1>a. \A x : x \in RecoveryRow => x # None
  BY NoneAssumption
<1>1. ASSUME NEW s \in Submissions, Prepare(s) PROVE Grows
  BY <1>1, ConstantsAssumption DEF Prepare, TypeOK
<1>2. ASSUME NEW p \in Publisher, Publishing(p) PROVE Grows
  <2>1. CASE PutRecovery(p)
    <3>1. \A r \in Revision : recovery[r] # None => recovery'[r] = recovery[r]
      BY <2>1 DEF PutRecovery, TypeOK
    <3>2. QED
      BY <2>1, <3>1 DEF PutRecovery
  <2>2. CASE \E t \in Instant : StageManifest(p, t)
    BY <2>2 DEF StageManifest
  <2>3. CASE ~PutRecovery(p) /\ ~\E t \in Instant : StageManifest(p, t)
    <3>1. UNCHANGED rows
      BY <1>2, <2>3 DEF Publishing, BeginPublish, CheckCommitted, ReadHead,
         SendTransaction, TimeOut, RecheckCommitted, RecheckHead, ResolveAnswer, Stop
    <3>2. QED
      BY <3>1
  <2>4. QED
    BY <2>1, <2>2, <2>3
<1>3. ASSUME NEW t \in inflight, Travelling(t) PROVE Grows
  <2>1. CASE LandTransaction(t)
    <3>1. t.rev \in Revision /\ t.row \in CommittedRow
      BY DEF TypeOK, Transaction
    <3>2. \A r \in Revision : committed[r] # None => committed'[r] = committed[r]
      BY <2>1, <3>1 DEF LandTransaction, Publishable, Apply, TypeOK
    <3>3. \A r \in Revision : recovery[r] # None => recovery'[r] # None
      <4>1. recovery' = [recovery EXCEPT ![t.rev].state = "committed"]
        BY <2>1 DEF LandTransaction, Apply
      <4>2. recovery'[t.rev] \in RecoveryRow
        <5>1. recovery[t.rev] \in RecoveryRow
          BY <2>1, <3>1 DEF LandTransaction, Publishable, RecoveryIs, TypeOK
        <5>2. QED
          BY <4>1, <5>1, <3>1 DEF TypeOK, RecoveryRow
      <4>3. QED
        BY <4>1, <4>2, <1>a, <3>1 DEF TypeOK
    <3>4. QED
      BY <2>1, <3>2, <3>3 DEF LandTransaction
  <2>2. CASE RefuseTransaction(t) \/ LoseTransaction(t)
    BY <2>2 DEF RefuseTransaction, LoseTransaction
  <2>3. QED
    BY <1>3, <2>1, <2>2 DEF Travelling
<1>4. ASSUME NEW q \in Reader, ReadCurrentHead(q) \/ ReadCurrentRow(q) PROVE Grows
  BY <1>4 DEF ReadCurrentHead, ReadCurrentRow
<1>5. ASSUME NEW w \in Settler, Settling(w) PROVE Grows
  <2>1. CASE SettleWrite(w)
    <3>1. ASSUME NEW r \in Revision, recovery[r] # None PROVE recovery'[r] # None
      <4>1. CASE UNCHANGED recovery
        BY <4>1, <3>1
      <4>2. CASE recovery' = [recovery EXCEPT ![settling[w]].state = "not-published"]
        <5>1. recovery[r] \in RecoveryRow
          BY <3>1 DEF TypeOK
        <5>2. recovery'[r] \in RecoveryRow
          BY <4>2, <5>1 DEF TypeOK, RecoveryRow
        <5>3. QED
          BY <5>2, <1>a
      <4>3. QED
        BY <2>1, <4>1, <4>2 DEF SettleWrite
    <3>2. QED
      BY <2>1, <3>1 DEF SettleWrite
  <2>2. CASE SettleFail(w) \/ \E r \in Revision : SettleRead(w, r)
    BY <2>2 DEF SettleFail, SettleRead
  <2>3. QED
    BY <1>5, <2>1, <2>2 DEF Settling
<1>6. ASSUME Tick PROVE Grows
  <2>1. ASSUME NEW r \in Revision, recovery[r] # None PROVE recovery'[r] # None
    <3>1. recovery[r] \in RecoveryRow
      BY <2>1 DEF TypeOK
    <3>2. recovery'[r] \in RecoveryRow
      BY <1>6, <3>1, ConstantsAssumption DEF Tick, Ageing, RecoveryIs, RecoveryRow
    <3>3. QED
      BY <3>2, <1>a
  <2>2. QED
    BY <1>6, <2>1 DEF Tick
<1>7. CASE UNCHANGED vars
  BY <1>7 DEF vars
<1>8. QED
  BY <1>1, <1>2, <1>3, <1>4, <1>5, <1>6, <1>7 DEF Next

\* What was true of a base stays true: published revisions keep their place.
LEMMA BasesStay ==
  ASSUME TypeOK, Grows, NEW b \in Base, NEW n \in Nat, BaseIsPublished(b, n)
  PROVE  BaseIsPublished(b, n)'
  BY ConstantsAssumption DEF BaseIsPublished, Published, Grows, Base

LEMMA TransactionsStay ==
  ASSUME TypeOK, Grows, NEW t \in Transaction, BelongsToTheLine(t)
  PROVE  BelongsToTheLine(t)'
<1>1. t.rev \in Revision /\ t.base \in Base /\ t.baseSequence \in Nat
  BY DEF Transaction
<1>2. BaseIsPublished(t.base, t.baseSequence)'
  BY <1>1, BasesStay DEF BelongsToTheLine
<1>3. prepared[t.rev]' = prepared[t.rev] /\ recovery[t.rev]' # None
  BY <1>1 DEF BelongsToTheLine, Grows
<1>4. QED
  BY <1>2, <1>3 DEF BelongsToTheLine, Grows

\* An invocation that does not move keeps what it knows.
LEMMA InvocationsStay ==
  ASSUME TypeOK, Grows, NEW p \in Publisher, KnowsItsBase(p), pub'[p] = pub[p]
  PROVE  KnowsItsBase(p)'
<1>a. pub[p] \in Invocation
  BY DEF TypeOK
<1>1. /\ pub[p].base \in Base
      /\ pub[p].baseSequence \in Nat
      /\ pub[p].stage # "idle" => pub[p].rev \in Revision
  BY <1>a DEF Invocation, Base, KnowsItsBase
<1>2. pub[p].stage \in Based => BaseIsPublished(pub[p].base, pub[p].baseSequence)'
  BY <1>1, BasesStay DEF KnowsItsBase
<1>3. pub[p].stage # "idle" => prepared'[pub[p].rev] = prepared[pub[p].rev]
  BY <1>1 DEF KnowsItsBase, Grows
<1>4. pub[p].stage \in {"armed", "sent"} => recovery'[pub[p].rev] # None
  BY <1>1 DEF KnowsItsBase, Grows
<1>5. ManifestOf(p)' = ManifestOf(p)
  BY DEF ManifestOf
<1>6. pub[p].stage \in Based => pub[p].stage # "idle"
  BY DEF Based
<1>7. QED
  BY <1>2, <1>3, <1>4, <1>5, <1>6 DEF KnowsItsBase, Grows

(***************************************************************************)
(* Every invocation keeps knowing its base.                                *)
(***************************************************************************)
LEMMA PublishingKnows ==
  ASSUME TypeOK, TypeOK', Grows, InvocationsKnowTheirBase, RowsAgree,
         NEW p \in Publisher, Publishing(p)
  PROVE  InvocationsKnowTheirBase'
<1> USE DEF rows, store, readers
<1>a. pub[p] \in Invocation /\ KnowsItsBase(p) /\ pub \in [Publisher -> Invocation]
  BY DEF TypeOK, InvocationsKnowTheirBase
<1>b. SUFFICES KnowsItsBase(p)'
  <2>1. ASSUME NEW q \in Publisher, q # p PROVE pub'[q] = pub[q]
    BY <1>a, <2>1 DEF Publishing, BeginPublish, CheckCommitted, ReadHead, StageManifest,
       PutRecovery, SendTransaction, TimeOut, RecheckCommitted, RecheckHead,
       ResolveAnswer, Stop, Moves, Answers, Becomes, Fails
  <2>2. ASSUME NEW q \in Publisher, q # p PROVE KnowsItsBase(q)'
    BY <2>1, <2>2, InvocationsStay DEF InvocationsKnowTheirBase
  <2>3. QED
    BY <2>2 DEF InvocationsKnowTheirBase
<1>1. CASE pub'[p] = Idle
  BY <1>1 DEF KnowsItsBase, Idle, Based
<1>2. ASSUME NEW r \in Revision, BeginPublish(p, r) PROVE KnowsItsBase(p)'
  <2>1. pub'[p].stage = "loaded" /\ pub'[p].rev = r
    BY <1>2, <1>a DEF BeginPublish, Becomes, Invocation
  <2>2. QED
    BY <1>2, <2>1, ConstantsAssumption DEF BeginPublish, KnowsItsBase, Based
<1>3. ASSUME CheckCommitted(p) \/ RecheckCommitted(p), pub'[p] # Idle
      PROVE  KnowsItsBase(p)'
  <2>1. /\ pub'[p].stage \in {"resolving", "uncommitted", "rechecked"}
        /\ pub'[p].rev = pub[p].rev /\ pub'[p].cause = pub[p].cause
        /\ pub'[p].stage = "rechecked" => pub[p].stage = "failed"
        /\ pub[p].stage # "idle"
        /\ prepared' = prepared
    BY <1>3, <1>a DEF CheckCommitted, RecheckCommitted, Moves, Answers, Becomes, Invocation
  <2>2. QED
    BY <2>1, <1>a DEF KnowsItsBase, Based
<1>4. ASSUME ReadHead(p), pub'[p] # Idle PROVE KnowsItsBase(p)'
  <2>1. /\ pub'[p].stage = "based" /\ pub'[p].rev = pub[p].rev
        /\ pub'[p].base = HeadRevision(head)
        /\ pub'[p].baseSequence = HeadSequence(head)
        /\ HeadRevision(head) = prepared[pub[p].rev].expected
        /\ pub[p].stage # "idle"
        /\ UNCHANGED <<prepared, committed>>
    BY <1>4, <1>a DEF ReadHead, Answers, Becomes, Invocation
  <2>2. BaseIsPublished(HeadRevision(head), HeadSequence(head))
    BY ConstantsAssumption
       DEF BaseIsPublished, HeadRevision, HeadSequence, RowsAgree, Coherent, TypeOK, HeadRow
  <2>3. BaseIsPublished(pub[p].base, pub[p].baseSequence)'
    BY <2>1, <2>2 DEF BaseIsPublished, Published
  <2>4. QED
    BY <2>1, <2>3, <1>a DEF KnowsItsBase, Based
<1>5. ASSUME NEW t \in Instant, StageManifest(p, t) PROVE KnowsItsBase(p)'
  <2>1. /\ pub'[p].stage = "staged" /\ pub'[p].rev = pub[p].rev
        /\ pub'[p].base = pub[p].base /\ pub'[p].baseSequence = pub[p].baseSequence
        /\ pub'[p].committedAt = t
        /\ pub[p].stage = "based"
        /\ UNCHANGED <<prepared, committed>>
        /\ ManifestOf(p)' \in manifests'
    BY <1>5, <1>a DEF StageManifest, Becomes, Invocation
  <2>2. BaseIsPublished(pub[p].base, pub[p].baseSequence)'
    BY <2>1, <1>a DEF KnowsItsBase, Based, BaseIsPublished, Published
  <2>3. QED
    BY <2>1, <2>2, <1>a, ConstantsAssumption DEF KnowsItsBase, Based
<1>6. ASSUME PutRecovery(p) \/ SendTransaction(p) PROVE KnowsItsBase(p)'
  <2>1. /\ pub'[p].rev = pub[p].rev
        /\ pub'[p].base = pub[p].base /\ pub'[p].baseSequence = pub[p].baseSequence
        /\ pub'[p].committedAt = pub[p].committedAt
        /\ pub[p].stage \in {"staged", "armed"}
        /\ pub'[p].stage \in {"armed", "sent", "failed"}
        /\ pub'[p].stage = "failed" => pub'[p].cause \in {"cas", "ambiguous"}
        /\ UNCHANGED <<prepared, committed, manifests>>
    <3>1. \/ pub'[p] = [pub[p] EXCEPT !.stage = "armed"]
          \/ pub'[p] = [pub[p] EXCEPT !.stage = "sent"]
          \/ pub'[p] = [pub[p] EXCEPT !.stage = "failed", !.cause = "cas"]
          \/ pub'[p] = [pub[p] EXCEPT !.stage = "failed", !.cause = "ambiguous"]
      BY <1>6, <1>a DEF PutRecovery, SendTransaction, Moves, Becomes, Fails
    <3>2. /\ pub[p].stage \in {"staged", "armed"}
          /\ UNCHANGED <<prepared, committed, manifests>>
      BY <1>6 DEF PutRecovery, SendTransaction
    <3>3. QED
      BY <3>1, <3>2, <1>a DEF Invocation
  <2>2. ManifestOf(p)' = ManifestOf(p)
    BY <2>1 DEF ManifestOf
  <2>3. BaseIsPublished(pub[p].base, pub[p].baseSequence)'
    BY <2>1, <1>a DEF KnowsItsBase, Based, BaseIsPublished, Published
  <2>4. pub[p].rev \in Revision
    BY <2>1, <1>a DEF KnowsItsBase, Invocation, Base
  <2>5. pub'[p].stage \in {"armed", "sent"} => recovery'[pub[p].rev] # None
    <3>1. CASE SendTransaction(p)
      BY <3>1, <1>a DEF SendTransaction, KnowsItsBase
    <3>2. CASE PutRecovery(p) /\ recovery[pub[p].rev] # None
      BY <3>2 DEF PutRecovery
    <3>3. CASE PutRecovery(p) /\ recovery[pub[p].rev] = None
      <4>0. pub'[p].stage = "failed" \/ recovery' = [recovery EXCEPT ![pub[p].rev] =
              [state |-> "pending", digest |-> prepared[pub[p].rev].digest, age |-> 0]]
        BY ZenonT(40), <3>3, <1>a DEF PutRecovery, Fails, Becomes, Invocation
      <4>1. prepared[pub[p].rev] \in PreparedRow
        BY <2>1, <2>4, <1>a DEF KnowsItsBase, TypeOK
      <4>2. [state |-> "pending", digest |-> prepared[pub[p].rev].digest, age |-> 0]
              \in RecoveryRow
        BY <4>1, ConstantsAssumption DEF PreparedRow, RecoveryRow
      <4>3. QED
        BY <4>0, <4>2, <2>4, NoneAssumption DEF TypeOK
    <3>4. QED
      BY <1>6, <3>1, <3>2, <3>3
  <2>6. pub'[p].stage = "failed" => pub'[p].cause # None
    BY <2>1, ConstantsAssumption
  <2>7. QED
    BY <2>1, <2>2, <2>3, <2>5, <2>6, <1>a DEF KnowsItsBase, Based
<1>7. ASSUME TimeOut(p) PROVE KnowsItsBase(p)'
  <2>1. /\ pub'[p].stage = "failed" /\ pub'[p].rev = pub[p].rev
        /\ pub'[p].cause = "ambiguous" /\ pub[p].stage = "sent"
        /\ prepared' = prepared
    BY <1>7, <1>a DEF TimeOut, Becomes, Fails, Invocation
  <2>2. QED
    BY <2>1, <1>a, ConstantsAssumption DEF KnowsItsBase, Based
<1>8. ASSUME RecheckHead(p) \/ ResolveAnswer(p) \/ Stop(p) PROVE pub'[p] = Idle
  BY <1>8, <1>a DEF RecheckHead, ResolveAnswer, Stop, Answers, Becomes
<1>9. QED
  BY <1>1, <1>2, <1>3, <1>4, <1>5, <1>6, <1>7, <1>8 DEF Publishing

LEMMA TravellingKnows ==
  ASSUME TypeOK, TypeOK', Grows, InvocationsKnowTheirBase,
         TransactionsKnowTheirBase, NEW t \in inflight, Travelling(t)
  PROVE  InvocationsKnowTheirBase'
<1> USE DEF rows, store, readers
<1>1. SUFFICES ASSUME NEW q \in Publisher PROVE KnowsItsBase(q)'
  BY DEF InvocationsKnowTheirBase
<1>2. CASE pub'[q] = pub[q]
  BY <1>2, InvocationsStay DEF InvocationsKnowTheirBase
<1>3. CASE pub'[q] # pub[q]
  <2>1. /\ t.by = q /\ t.by # None
        /\ pub'[q].stage \in {"resolving", "failed"}
        /\ pub'[q].stage = "failed" => pub'[q].cause \in {"cas", "ambiguous"}
        /\ pub'[q].rev = pub[q].rev
    <3>1. pub \in [Publisher -> Invocation] /\ (t.by # None => t.by \in Publisher)
      BY DEF TypeOK, Transaction
    <3>2. t.by # None
      BY <1>3 DEF Travelling, LandTransaction, RefuseTransaction, LoseTransaction, Replies
    <3>3. t.by = q
      BY <1>3, <3>1, <3>2 DEF Travelling, LandTransaction, RefuseTransaction,
         LoseTransaction, Replies, Becomes, Fails
    <3>4. pub[q] \in Invocation
      BY <3>1
    <3>5. \/ pub'[q] = [pub[q] EXCEPT !.stage = "resolving", !.cause = None]
          \/ pub'[q] = [pub[q] EXCEPT !.stage = "failed", !.cause = "cas"]
          \/ pub'[q] = [pub[q] EXCEPT !.stage = "failed", !.cause = "ambiguous"]
      BY <3>1, <3>2, <3>3 DEF Travelling, LandTransaction, RefuseTransaction,
         LoseTransaction, Replies, Becomes, Fails
    <3>6. QED
      BY <3>2, <3>3, <3>4, <3>5 DEF Invocation
  <2>2. pub[q].stage # "idle" /\ KnowsItsBase(q)
    BY <2>1 DEF TransactionsKnowTheirBase, InvocationsKnowTheirBase
  <2>3. prepared'[pub[q].rev] = prepared[pub[q].rev]
    BY DEF Travelling, LandTransaction, RefuseTransaction, LoseTransaction
  <2>4. QED
    BY <2>1, <2>2, <2>3, ConstantsAssumption DEF KnowsItsBase, Based
<1>4. QED
  BY <1>2, <1>3

LEMMA NextKnows ==
  ASSUME TypeOK, TypeOK', Grows, InvocationsKnowTheirBase,
         TransactionsKnowTheirBase, RowsAgree, [Next]_vars
  PROVE  InvocationsKnowTheirBase'
<1>1. CASE \E p \in Publisher : Publishing(p)
  BY <1>1, PublishingKnows
<1>2. CASE \E t \in inflight : Travelling(t)
  BY <1>2, TravellingKnows
<1>3. CASE UNCHANGED pub
  BY <1>3, InvocationsStay DEF InvocationsKnowTheirBase
<1>4. QED
  BY <1>1, <1>2, <1>3 DEF Next, vars, Prepare, ReadCurrentHead, ReadCurrentRow,
     Settling, SettleRead, SettleWrite, SettleFail, Tick

(***************************************************************************)
(* Every transaction on its way keeps belonging to the line.               *)
(***************************************************************************)
LEMMA NextKeepsTransactions ==
  ASSUME TypeOK, TypeOK', Grows, InvocationsKnowTheirBase,
         TransactionsKnowTheirBase, [Next]_vars
  PROVE  TransactionsKnowTheirBase'
<1> USE DEF rows, store, readers
<1>a. pub \in [Publisher -> Invocation] /\ inflight \subseteq Transaction
  BY DEF TypeOK
<1>b. ASSUME NEW t \in inflight PROVE BelongsToTheLine(t)'
  BY <1>a, TransactionsStay DEF TransactionsKnowTheirBase
<1>1. CASE UNCHANGED <<inflight, pub>>
  BY <1>1, <1>b DEF TransactionsKnowTheirBase
<1>2. ASSUME NEW t \in inflight, Travelling(t) PROVE TransactionsKnowTheirBase'
  <2>1. inflight' = inflight \ {t}
    BY <1>2 DEF Travelling, LandTransaction, RefuseTransaction, LoseTransaction
  <2>2. ASSUME NEW q \in Publisher, q # t.by PROVE pub'[q] = pub[q]
    BY <1>2, <1>a, <2>2 DEF Travelling, LandTransaction, RefuseTransaction, LoseTransaction,
       Replies, Becomes, Fails
  <2>3. ASSUME NEW u \in inflight' PROVE u.by # t.by \/ u.by = None
    BY <2>1 DEF TransactionsKnowTheirBase
  <2>4. QED
    BY <1>a, <1>b, <2>1, <2>2, <2>3 DEF TransactionsKnowTheirBase, Transaction
<1>3. ASSUME NEW p \in Publisher, SendTransaction(p) PROVE TransactionsKnowTheirBase'
  <2>1. /\ inflight' = inflight \union {TransactionOf(p)}
        /\ pub[p].stage = "armed"
        /\ pub' = [pub EXCEPT ![p] = [pub[p] EXCEPT !.stage = "sent"]]
        /\ UNCHANGED rows
    BY <1>3 DEF SendTransaction, Moves, Becomes
  <2>2. pub'[p].stage = "sent" /\ pub'[p].rev = pub[p].rev
    BY <2>1, <1>a DEF Invocation
  <2>3. BelongsToTheLine(TransactionOf(p))
    BY <2>1 DEF InvocationsKnowTheirBase, KnowsItsBase, Based, BelongsToTheLine, TransactionOf
  <2>4. ASSUME NEW t \in inflight', t = TransactionOf(p) PROVE BelongsToTheLine(t)'
    <3>1. t \in Transaction /\ BelongsToTheLine(t)
      BY <2>3, <2>4 DEF TypeOK
    <3>2. QED
      BY <3>1, TransactionsStay
  <2>5. QED
    BY <1>a, <1>b, <2>1, <2>2, <2>4 DEF TransactionsKnowTheirBase, Transaction, TransactionOf
<1>4. ASSUME NEW p \in Publisher, TimeOut(p) \/ Stop(p) PROVE TransactionsKnowTheirBase'
  <2>1. inflight' = Orphaned(p)
    BY <1>4 DEF TimeOut, Stop
  <2>2. ASSUME NEW q \in Publisher, q # p PROVE pub'[q] = pub[q]
    BY <1>4, <1>a, <2>2 DEF TimeOut, Stop, Answers, Becomes, Fails
  <2>3. QED
    BY <1>a, <1>b, <2>1, <2>2 DEF TransactionsKnowTheirBase, Orphaned, BelongsToTheLine, Transaction
<1>5. ASSUME NEW p \in Publisher, Publishing(p),
             ~SendTransaction(p), ~TimeOut(p), ~Stop(p)
      PROVE  TransactionsKnowTheirBase'
  <2>a. pub[p].stage # "sent" /\ UNCHANGED inflight
    BY <1>5 DEF Publishing, BeginPublish, CheckCommitted, ReadHead, StageManifest,
       PutRecovery, RecheckCommitted, RecheckHead, ResolveAnswer
  <2>1. ASSUME NEW q \in Publisher, q # p PROVE pub'[q] = pub[q]
    BY <1>5, <1>a, <2>1 DEF Publishing, BeginPublish, CheckCommitted, ReadHead, StageManifest,
       PutRecovery, SendTransaction, TimeOut, RecheckCommitted, RecheckHead,
       ResolveAnswer, Stop, Moves, Answers, Becomes, Fails
  <2>2. QED
    BY <2>a, <1>a, <1>b, <2>1 DEF TransactionsKnowTheirBase, Transaction
<1>6. QED
  BY <1>1, <1>2, <1>3, <1>4, <1>5 DEF Next, vars, Publishing, Prepare, ReadCurrentHead,
     ReadCurrentRow, Settling, SettleRead, SettleWrite, SettleFail, Tick

(***************************************************************************)
(* The line itself: only a landing transaction writes it.                  *)
(***************************************************************************)
LEMMA OnlyLandingWrites ==
  ASSUME [Next]_vars
  PROVE  UNCHANGED store \/ \E t \in inflight : LandTransaction(t)
  BY DEF Next, vars, rows, store, readers, Publishing, BeginPublish, CheckCommitted,
     ReadHead, StageManifest, PutRecovery, SendTransaction, TimeOut, RecheckCommitted,
     RecheckHead, ResolveAnswer, Stop, Travelling, RefuseTransaction, LoseTransaction,
     Prepare, ReadCurrentHead, ReadCurrentRow, Settling, SettleRead, SettleWrite,
     SettleFail, Tick

\* What a landing transaction does to the published revisions.
LEMMA Landing ==
  ASSUME LineInv, NEW t \in inflight, LandTransaction(t)
  PROVE  /\ t \in Transaction /\ t.rev \in Revision
         /\ t.rev \notin Published
         /\ Published' = Published \union {t.rev}
         /\ committed'[t.rev] = t.row
         /\ \A r \in Published : committed'[r] = committed[r]
         /\ t.row.sequence = HeadSequence(head) + 1
         /\ HeadSequence(head) \in Nat
         /\ t.row.expected = HeadRevision(head)
<1>1. t \in Transaction /\ t.rev \in Revision /\ t.row \in CommittedRow
  BY DEF LineInv, TypeOK, Transaction
<1>2. t.rev \notin Published /\ committed' = [committed EXCEPT ![t.rev] = t.row]
  BY DEF LandTransaction, Publishable, Apply, Published
<1>3. committed \in [Revision -> CommittedRow \union {None}]
  BY DEF LineInv, TypeOK
<1>4. Published' = Published \union {t.rev}
  BY <1>1, <1>2, <1>3, NoneAssumption DEF Published
<1>5. committed'[t.rev] = t.row /\ \A r \in Published : committed'[r] = committed[r]
  BY <1>1, <1>2, <1>3 DEF Published
<1>6. BelongsToTheLine(t) /\ HeadMatches(t)
  BY DEF LineInv, TransactionsKnowTheirBase, LandTransaction, Publishable
<1>7. HeadSequence(head) = t.baseSequence /\ HeadRevision(head) = t.base
  BY <1>6 DEF BelongsToTheLine, HeadMatches, HeadSequence, HeadRevision, BaseIsPublished
<1>8. QED
  BY <1>1, <1>2, <1>4, <1>5, <1>6, <1>7 DEF BelongsToTheLine, Transaction

LEMMA NextKeepsTheLine ==
  ASSUME LineInv, [Next]_vars
  PROVE  OneLine' /\ OutboxIsTheLine'
<1>1. CASE UNCHANGED store
  BY <1>1 DEF LineInv, OneLine, OutboxIsTheLine, Published, store
<1>2. ASSUME NEW t \in inflight, LandTransaction(t) PROVE OneLine' /\ OutboxIsTheLine'
  <2>a. /\ t.rev \in Revision /\ t.rev \notin Published
        /\ Published' = Published \union {t.rev}
        /\ committed'[t.rev] = t.row
        /\ \A r \in Published : committed'[r] = committed[r]
        /\ t.row.sequence = HeadSequence(head) + 1
        /\ HeadSequence(head) \in Nat
        /\ t.row.expected = HeadRevision(head)
    BY <1>2, Landing
  <2>b. OneLine /\ OutboxIsTheLine /\ RowsAgree
    BY DEF LineInv
  <2>c. head' = [rev |-> t.rev, sequence |-> t.row.sequence,
                 digest |-> t.row.digest, manifest |-> t.row.manifest]
    BY <1>2 DEF LandTransaction, Apply
  <2>d. head' # None /\ head'.rev = t.rev /\ head'.sequence = t.row.sequence
    <3>1. t.row \in CommittedRow
      BY <1>2, Landing DEF Transaction
    <3>2. head' \in HeadRow
      BY <2>a, <2>c, <3>1 DEF HeadRow, CommittedRow
    <3>3. QED
      BY <2>c, <3>2, NoneAssumption
  <2>e. \A r \in Published :
          /\ committed[r].sequence \in Nat
          /\ committed[r].sequence <= HeadSequence(head)
    BY DEF LineInv, OneLine, Published, TypeOK, CommittedRow, HeadSequence
  <2>1. ASSUME NEW r \in Published', NEW s \in Published',
               committed'[r].sequence = committed'[s].sequence
        PROVE  r = s
    BY <2>a, <2>b, <2>e, <2>1 DEF OneLine
  <2>2. ASSUME NEW r \in Published'
        PROVE  IF committed'[r].expected = None
                 THEN committed'[r].sequence = 1
                 ELSE /\ committed'[r].expected \in Published'
                      /\ committed'[committed'[r].expected].sequence + 1
                           = committed'[r].sequence
    <3>1. CASE r \in Published
      BY <3>1, <2>a, <2>b DEF OneLine
    <3>2. CASE r = t.rev /\ head = None
      BY <3>2, <2>a DEF HeadRevision, HeadSequence
    <3>3. CASE r = t.rev /\ head # None
      <4>1. /\ head.rev \in Published
            /\ committed[head.rev].sequence = head.sequence
        BY <3>3, <2>b DEF RowsAgree, Coherent
      <4>2. head.rev # None
        BY <4>1, ConstantsAssumption DEF Published
      <4>3. QED
        BY <3>3, <4>1, <4>2, <2>a DEF HeadRevision, HeadSequence
    <3>4. QED
      BY <2>a, <3>1, <3>2, <3>3
  <2>3. ASSUME NEW r \in Published'
        PROVE  /\ committed'[r].sequence <= head'.sequence
               /\ committed'[r].sequence = head'.sequence => head'.rev = r
    BY <2>a, <2>d, <2>e, <2>3
  <2>4. OneLine'
    BY <2>1, <2>2, <2>3, <2>a, <2>d DEF OneLine
  <2>5. outbox' = outbox \union {[sequence |-> t.row.sequence, rev |-> t.rev]}
    BY <1>2 DEF LandTransaction, Apply
  <2>6. OutboxIsTheLine'
    BY <2>5, <2>a, <2>b DEF OutboxIsTheLine
  <2>7. QED
    BY <2>4, <2>6
<1>3. QED
  BY <1>1, <1>2, OnlyLandingWrites

LEMMA NextRowsAgree ==
  ASSUME LineInv, TypeOK', Grows, [Next]_vars
  PROVE  RowsAgree'
<1>1. CASE UNCHANGED store
  <2>1. \A r \in Published : prepared'[r] = prepared[r] /\ prepared[r] # None
    BY DEF LineInv, RowsAgree, Grows, Published
  <2>2. QED
    BY <1>1, <2>1 DEF LineInv, RowsAgree, Bound, Coherent, Published, Grows, store
<1>2. ASSUME NEW t \in inflight, LandTransaction(t) PROVE RowsAgree'
  <2>a. /\ t.rev \in Revision
        /\ Published' = Published \union {t.rev}
        /\ committed'[t.rev] = t.row
        /\ \A r \in Published : committed'[r] = committed[r]
    BY <1>2, Landing
  <2>b. prepared' = prepared /\ manifests' = manifests
    BY <1>2 DEF LandTransaction
  <2>c. head' = [rev |-> t.rev, sequence |-> t.row.sequence,
                 digest |-> t.row.digest, manifest |-> t.row.manifest]
    BY <1>2 DEF LandTransaction, Apply
  <2>d. BelongsToTheLine(t) /\ RowsAgree
    BY DEF LineInv, TransactionsKnowTheirBase
  <2>1. ASSUME NEW r \in Published'
        PROVE  prepared'[r] # None /\ Bound(r)' /\ committed'[r].manifest \in manifests'
    BY <2>a, <2>b, <2>d DEF RowsAgree, Bound, BelongsToTheLine
  <2>2. head'.rev \in Published' /\ Coherent(head.rev, head)'
    BY <2>a, <2>b, <2>c, <2>d DEF Coherent, BelongsToTheLine
  <2>3. QED
    BY <2>1, <2>2 DEF RowsAgree
<1>3. QED
  BY <1>1, <1>2, OnlyLandingWrites

LEMMA NextRecovery ==
  ASSUME LineInv, TypeOK', [Next]_vars
  PROVE  RecoveryTellsTheTruth'
<1> USE DEF rows, store, readers
<1>a. RecoveryTellsTheTruth /\ recovery \in [Revision -> RecoveryRow \union {None}]
  BY DEF LineInv, TypeOK
<1>b. \A x \in RecoveryRow : x # None
  BY NoneAssumption
<1>1. CASE UNCHANGED <<committed, recovery>>
  BY <1>1, <1>a DEF RecoveryTellsTheTruth, RecoveryIs, Published
<1>2. ASSUME NEW p \in Publisher, PutRecovery(p) PROVE RecoveryTellsTheTruth'
  <2>1. /\ committed' = committed
        /\ \A r \in Revision :
             recovery'[r] = recovery[r] \/
             (recovery[r] = None /\ ~RecoveryIs(r, {"committed", "not-published"})')
    BY <1>2, <1>a DEF PutRecovery, RecoveryIs
  <2>2. QED
    BY <2>1, <1>a DEF RecoveryTellsTheTruth, RecoveryIs, Published
<1>3. ASSUME NEW t \in inflight, LandTransaction(t) PROVE RecoveryTellsTheTruth'
  <2>1. t.rev \in Revision /\ Published' = Published \union {t.rev}
    BY <1>3, Landing
  <2>2. recovery' = [recovery EXCEPT ![t.rev].state = "committed"]
    BY <1>3 DEF LandTransaction, Apply
  <2>3. recovery[t.rev] \in RecoveryRow
    BY <1>3, <1>a, <2>1 DEF LandTransaction, Publishable, RecoveryIs
  <2>4. recovery'[t.rev] \in RecoveryRow /\ recovery'[t.rev].state = "committed"
    BY <2>1, <2>2, <2>3, <1>a DEF RecoveryRow
  <2>5. \A r \in Revision : r # t.rev => recovery'[r] = recovery[r]
    BY <2>1, <2>2, <1>a
  <2>6. QED
    BY <2>1, <2>4, <2>5, <1>a, <1>b DEF RecoveryTellsTheTruth, RecoveryIs
<1>4. ASSUME NEW w \in Settler, SettleWrite(w) PROVE RecoveryTellsTheTruth'
  <2>1. CASE UNCHANGED recovery
    BY <2>1, <1>1, <1>4 DEF SettleWrite
  <2>2. CASE /\ committed[settling[w]] = None
             /\ RecoveryIs(settling[w], {"pending"})
             /\ recovery' = [recovery EXCEPT ![settling[w]].state = "not-published"]
    <3>1. settling[w] \in Revision
      BY <1>4 DEF SettleWrite, LineInv, TypeOK, Base
    <3>2. recovery[settling[w]] \in RecoveryRow
      BY <2>2, <3>1, <1>a DEF RecoveryIs
    <3>3. recovery'[settling[w]].state = "not-published" /\ settling[w] \notin Published
      BY <2>2, <3>1, <3>2, <1>a DEF RecoveryRow, Published
    <3>4. \A r \in Revision : r # settling[w] => recovery'[r] = recovery[r]
      BY <2>2, <3>1, <1>a
    <3>5. committed' = committed
      BY <1>4 DEF SettleWrite
    <3>6. QED
      BY <3>3, <3>4, <3>5, <1>a DEF RecoveryTellsTheTruth, RecoveryIs, Published
  <2>3. QED
    BY <1>4, <2>1, <2>2 DEF SettleWrite
<1>5. CASE Tick
  <2>1. ASSUME NEW r \in Revision, Ageing(r)
        PROVE  RecoveryIs(r, {"pending"}) /\ recovery'[r].state = "pending"
    <3>1. recovery[r] \in RecoveryRow
      BY <2>1, <1>a DEF Ageing, RecoveryIs
    <3>2. QED
      BY <1>5, <2>1, <3>1 DEF Tick, Ageing, RecoveryIs, RecoveryRow
  <2>2. ASSUME NEW r \in Revision, ~Ageing(r) PROVE recovery'[r] = recovery[r]
    BY <1>5, <2>2 DEF Tick
  <2>3. committed' = committed
    BY <1>5 DEF Tick
  <2>4. QED
    BY <2>1, <2>2, <2>3, <1>a DEF RecoveryTellsTheTruth, RecoveryIs, Published
<1>6. QED
  BY <1>1, <1>2, <1>3, <1>4, <1>5 DEF Next, vars, Publishing, BeginPublish, CheckCommitted,
     ReadHead, StageManifest, SendTransaction, TimeOut, RecheckCommitted,
     RecheckHead, ResolveAnswer, Stop, Travelling, RefuseTransaction, LoseTransaction,
     Prepare, ReadCurrentHead, ReadCurrentRow, Settling, SettleRead, SettleFail

(***************************************************************************)
(* The inductive invariant.                                                *)
(***************************************************************************)
LEMMA InitLineInv == Init => LineInv
<1> SUFFICES ASSUME Init PROVE LineInv
  OBVIOUS
<1>1. TypeOK
  BY InitTypes
<1>2. Published = {}
  BY DEF Init, Published
<1>3. InvocationsKnowTheirBase /\ TransactionsKnowTheirBase
  BY DEF Init, InvocationsKnowTheirBase, KnowsItsBase, Idle, Based, TransactionsKnowTheirBase
<1>4. RowsAgree /\ OneLine /\ OutboxIsTheLine /\ RecoveryTellsTheTruth
  BY <1>2 DEF Init, RowsAgree, OneLine, OutboxIsTheLine, RecoveryTellsTheTruth, RecoveryIs
<1>5. QED
  BY <1>1, <1>3, <1>4 DEF LineInv

LEMMA NextLineInv == LineInv /\ [Next]_vars => LineInv'
<1> SUFFICES ASSUME LineInv, [Next]_vars PROVE LineInv'
  OBVIOUS
<1>1. TypeOK'
  BY NextTypes DEF LineInv
<1>2. Grows
  BY <1>1, RowsGrow DEF LineInv
<1>3. InvocationsKnowTheirBase'
  BY <1>1, <1>2, NextKnows DEF LineInv
<1>4. TransactionsKnowTheirBase'
  BY <1>1, <1>2, NextKeepsTransactions DEF LineInv
<1>5. RowsAgree' /\ OneLine' /\ OutboxIsTheLine' /\ RecoveryTellsTheTruth'
  BY <1>1, <1>2, NextRowsAgree, NextKeepsTheLine, NextRecovery
<1>6. QED
  BY <1>1, <1>3, <1>4, <1>5 DEF LineInv

LEMMA LineInvHolds == Spec => []LineInv
  BY InitLineInv, NextLineInv, PTL DEF Spec

\* The rows, messages and local states of the store keep their types.
THEOREM TypesHold == Spec => []TypeOK
<1>1. LineInv => TypeOK
  BY DEF LineInv
<1>2. QED
  BY <1>1, LineInvHolds, PTL

\* However many invocations publish at once, and whatever is lost or late, the
\* published revisions form one line that ends at HEAD, and the outbox is it.
THEOREM LineHolds == Spec => [](OneLine /\ OutboxIsTheLine)
<1>1. LineInv => OneLine /\ OutboxIsTheLine
  BY DEF LineInv
<1>2. QED
  BY <1>1, LineInvHolds, PTL

\* A revision that recovery has declared not published is never published: the
\* late transaction and the fence exclude each other.
THEOREM RecoveryHolds == Spec => [](RecoveryTellsTheTruth /\ NothingUntracked)
<1>1. LineInv => RecoveryTellsTheTruth /\ NothingUntracked
  BY DEF LineInv, NothingUntracked, TransactionsKnowTheirBase, BelongsToTheLine
<1>2. QED
  BY <1>1, LineInvHolds, PTL

\* An event stands for one published revision, at its own number: a projection
\* that reads the outbox in order reads the line.
THEOREM OutboxHolds == Spec => []OutboxIsTheLine
<1>1. LineInv => OutboxIsTheLine
  BY DEF LineInv
<1>2. QED
  BY <1>1, LineInvHolds, PTL

\* Whatever becomes of the invocation that sent it, a transaction on its way has
\* a RECOVERY row by which the worker will find its revision.
THEOREM UntrackedHolds == Spec => []NothingUntracked
<1>1. LineInv => NothingUntracked
  BY DEF LineInv, NothingUntracked, TransactionsKnowTheirBase, BelongsToTheLine
<1>2. QED
  BY <1>1, LineInvHolds, PTL

(***************************************************************************)
(* How the rows change: written once, settled once, HEAD one revision at a *)
(* time.  It follows that the store implements WorkspaceHistory and that   *)
(* no reader sees the workspace go back.  Then what the store tells its    *)
(* callers: what a publisher, a reader and a settler were told stays true. *)
(***************************************************************************)
\* The RECOVERY row of r, when there is one, keeps a state other than pending.
LEMMA SettledStays ==
  ASSUME LineInv, [Next]_vars, NEW r \in Revision, recovery[r] # None
  PROVE  /\ recovery'[r] # None
         /\ recovery[r].state # "pending" => recovery'[r].state = recovery[r].state
<1> USE DEF rows, store, readers
<1>a. /\ recovery \in [Revision -> RecoveryRow \union {None}]
      /\ recovery[r] \in RecoveryRow
      /\ TypeOK' /\ Grows
  BY NextTypes, RowsGrow DEF LineInv, TypeOK
<1>1. ASSUME NEW t \in inflight, LandTransaction(t), recovery[r].state # "pending"
      PROVE  recovery'[r].state = recovery[r].state
  BY <1>1, <1>a DEF LandTransaction, Publishable, Apply, RecoveryIs
<1>2. ASSUME NEW p \in Publisher, PutRecovery(p) PROVE recovery'[r] = recovery[r]
  BY <1>2, <1>a DEF PutRecovery
<1>3. ASSUME NEW w \in Settler, SettleWrite(w), recovery[r].state # "pending"
      PROVE  recovery'[r].state = recovery[r].state
  BY <1>3, <1>a DEF SettleWrite, RecoveryIs
<1>4. ASSUME Tick, recovery[r].state # "pending"
      PROVE  recovery'[r].state = recovery[r].state
  BY <1>4, <1>a DEF Tick, Ageing, RecoveryIs
<1>5. ASSUME UNCHANGED recovery PROVE recovery'[r].state = recovery[r].state
  BY <1>5
<1>6. recovery[r].state # "pending" => recovery'[r].state = recovery[r].state
  BY <1>1, <1>2, <1>3, <1>4, <1>5 DEF Next, vars, Publishing, BeginPublish,
     CheckCommitted, ReadHead, StageManifest, SendTransaction, TimeOut,
     RecheckCommitted, RecheckHead, ResolveAnswer, Stop, Travelling,
     RefuseTransaction, LoseTransaction, Prepare, ReadCurrentHead, ReadCurrentRow,
     Settling, SettleRead, SettleFail
<1>7. QED
  BY <1>6, <1>a DEF Grows

\* Where HEAD goes in one step.
LEMMA HeadMoves ==
  ASSUME LineInv, [Next]_vars
  PROVE  /\ HeadSequence(head') \in {HeadSequence(head), HeadSequence(head) + 1}
         /\ HeadSequence(head') = HeadSequence(head) => head' = head
         /\ HeadSequence(head) \in Nat
<1>a. HeadSequence(head) \in Nat
  BY DEF LineInv, TypeOK, HeadSequence, HeadRow
<1>1. CASE UNCHANGED store
  BY <1>1, <1>a DEF store
<1>2. ASSUME NEW t \in inflight, LandTransaction(t)
      PROVE  HeadSequence(head') = HeadSequence(head) + 1
  <2>1. /\ t \in Transaction /\ t.rev \in Revision
        /\ t.row.sequence = HeadSequence(head) + 1
    BY <1>2, Landing
  <2>2. t.row \in CommittedRow
    BY <2>1 DEF Transaction
  <2>3. head' = [rev |-> t.rev, sequence |-> t.row.sequence,
                 digest |-> t.row.digest, manifest |-> t.row.manifest]
    BY <1>2 DEF LandTransaction, Apply
  <2>4. head' \in HeadRow
    BY <2>1, <2>2, <2>3 DEF HeadRow, CommittedRow
  <2>5. QED
    BY <2>1, <2>3, <2>4, NoneAssumption DEF HeadSequence
<1>3. QED
  BY <1>1, <1>2, <1>a, OnlyLandingWrites

\* Immutable rows are written once, HEAD never skips a revision, and the verdict
\* of recovery is final.
THEOREM ImmutableHolds == Spec => Immutable
<1>1. LineInv /\ [Next]_vars =>
        /\ \A r \in Revision :
             /\ prepared[r] # None => prepared'[r] = prepared[r]
             /\ committed[r] # None => committed'[r] = committed[r]
             /\ recovery[r] # None =>
                  /\ recovery'[r] # None
                  /\ recovery[r].state # "pending" =>
                       recovery'[r].state = recovery[r].state
        /\ HeadSequence(head') \in {HeadSequence(head), HeadSequence(head) + 1}
        /\ HeadSequence(head') = HeadSequence(head) => head' = head
  <2> SUFFICES ASSUME LineInv, [Next]_vars
               PROVE  /\ \A r \in Revision :
                           /\ prepared[r] # None => prepared'[r] = prepared[r]
                           /\ committed[r] # None => committed'[r] = committed[r]
                           /\ recovery[r] # None =>
                                /\ recovery'[r] # None
                                /\ recovery[r].state # "pending" =>
                                     recovery'[r].state = recovery[r].state
                      /\ HeadSequence(head') \in
                           {HeadSequence(head), HeadSequence(head) + 1}
                      /\ HeadSequence(head') = HeadSequence(head) => head' = head
    OBVIOUS
  <2>1. Grows
    BY NextTypes, RowsGrow DEF LineInv
  <2>2. QED
    BY <2>1, SettledStays, HeadMoves DEF Grows
<1>2. QED
  BY <1>1, LineInvHolds, PTL DEF Spec, Immutable

(***************************************************************************)
(* What a reader has resolved is never ahead of what it holds, and neither *)
(* is ahead of HEAD.                                                       *)
(***************************************************************************)
ReadersInv ==
  \A q \in Reader :
    /\ seen[q] <= HeadSequence(head)
    /\ reading[q] # None =>
         seen[q] <= reading[q].sequence /\ reading[q].sequence <= HeadSequence(head)

LEMMA NextReaders ==
  ASSUME LineInv, ReadersInv, [Next]_vars
  PROVE  ReadersInv'
<1> USE DEF rows, store, readers
<1>a. /\ reading \in [Reader -> HeadRow \union {None}]
      /\ seen \in [Reader -> Nat]
      /\ HeadSequence(head) \in Nat
      /\ HeadSequence(head') \in {HeadSequence(head), HeadSequence(head) + 1}
      /\ head' = head => HeadSequence(head') = HeadSequence(head)
  BY HeadMoves DEF LineInv, TypeOK
<1>b. \A q \in Reader : reading[q] # None => reading[q].sequence \in Nat
  BY <1>a DEF HeadRow
<1>1. CASE UNCHANGED <<reading, seen>>
  BY <1>1, <1>a, <1>b DEF ReadersInv
<1>2. ASSUME NEW q \in Reader, ReadCurrentHead(q) PROVE ReadersInv'
  <2>1. /\ reading' = [reading EXCEPT ![q] = head] /\ seen' = seen /\ head' = head
        /\ head.sequence = HeadSequence(head)
    BY <1>2 DEF ReadCurrentHead, HeadSequence
  <2>2. QED
    BY <1>a, <1>b, <2>1 DEF ReadersInv
<1>3. ASSUME NEW q \in Reader, ReadCurrentRow(q) PROVE ReadersInv'
  <2>1. /\ reading' = [reading EXCEPT ![q] = None] /\ reading[q] # None
        /\ seen' = [seen EXCEPT ![q] = reading[q].sequence] /\ head' = head
    BY <1>3 DEF ReadCurrentRow
  <2>2. QED
    BY <1>a, <1>b, <2>1 DEF ReadersInv
<1>4. UNCHANGED <<reading, seen>> \/ \E q \in Reader : ReadCurrentHead(q) \/ ReadCurrentRow(q)
  BY DEF Next, vars, Publishing, BeginPublish, CheckCommitted, ReadHead,
     StageManifest, PutRecovery, SendTransaction, TimeOut, RecheckCommitted,
     RecheckHead, ResolveAnswer, Stop, Travelling, LandTransaction,
     RefuseTransaction, LoseTransaction, Prepare, Settling, SettleRead,
     SettleWrite, SettleFail, Tick
<1>5. QED
  BY <1>1, <1>2, <1>3, <1>4

\* A client that polls readCurrent never sees the workspace go back, although
\* HEAD moves between the two reads of each call.
THEOREM ReadsAdvanceHolds == Spec => ReadsAdvance
<1>1. Init => ReadersInv
  BY DEF Init, ReadersInv, HeadSequence
<1>2. LineInv /\ ReadersInv /\ [Next]_vars => [\A q \in Reader : seen'[q] >= seen[q]]_seen
  <2> SUFFICES ASSUME LineInv, ReadersInv, [Next]_vars, seen' # seen
               PROVE  \A q \in Reader : seen'[q] >= seen[q]
    OBVIOUS
  <2>1. PICK q \in Reader : ReadCurrentRow(q)
    BY DEF Next, vars, rows, store, readers, Publishing, BeginPublish, CheckCommitted,
       ReadHead, StageManifest, PutRecovery, SendTransaction, TimeOut,
       RecheckCommitted, RecheckHead, ResolveAnswer, Stop, Travelling,
       LandTransaction, RefuseTransaction, LoseTransaction, Prepare,
       ReadCurrentHead, Settling, SettleRead, SettleWrite, SettleFail, Tick
  <2>2. /\ reading[q] # None /\ seen' = [seen EXCEPT ![q] = reading[q].sequence]
        /\ reading[q].sequence \in Nat /\ seen \in [Reader -> Nat]
    BY <2>1 DEF ReadCurrentRow, LineInv, TypeOK, HeadRow
  <2>3. QED
    BY <2>2 DEF ReadersInv
<1>3. LineInv /\ ReadersInv /\ [Next]_vars => ReadersInv'
  BY NextReaders
<1>4. QED
  BY <1>1, <1>2, <1>3, LineInvHolds, PTL DEF Spec, ReadsAdvance

(***************************************************************************)
(* The refinement of WorkspaceHistory.                                     *)
(***************************************************************************)
position == [r \in Revision |->
               IF committed[r] = None THEN 0 ELSE committed[r].sequence]

abandoned == {r \in Revision : RecoveryIs(r, {"not-published"})}

LEMMA InitRefines == Init => History!HInit
<1> SUFFICES ASSUME Init PROVE History!HInit
  OBVIOUS
<1>1. HeadSequence(head) = 0
  BY DEF Init, HeadSequence
<1>2. position = [r \in Revision |-> 0]
  BY DEF Init, position
<1>3. abandoned = {}
  BY DEF Init, abandoned, RecoveryIs
<1>4. QED
  BY <1>1, <1>2, <1>3 DEF History!HInit, position, abandoned

\* A landing transaction appends its revision to the history.
LEMMA LandingAppends ==
  ASSUME LineInv, NEW t \in inflight, LandTransaction(t)
  PROVE  History!Append(t.rev)
<1>a. /\ t.rev \in Revision /\ t.rev \notin Published
      /\ committed'[t.rev] = t.row
      /\ t.row.sequence = HeadSequence(head) + 1
      /\ HeadSequence(head) \in Nat
      /\ t \in Transaction
  BY Landing
<1>b. /\ committed \in [Revision -> CommittedRow \union {None}]
      /\ recovery \in [Revision -> RecoveryRow \union {None}]
      /\ t.row \in CommittedRow
      /\ committed' = [committed EXCEPT ![t.rev] = t.row]
      /\ recovery' = [recovery EXCEPT ![t.rev].state = "committed"]
      /\ RecoveryIs(t.rev, {"pending"})
      /\ head' = [rev |-> t.rev, sequence |-> t.row.sequence,
                  digest |-> t.row.digest, manifest |-> t.row.manifest]
  BY <1>a DEF LineInv, TypeOK, Transaction, LandTransaction, Publishable, Apply
<1>1. position[t.rev] = 0 /\ t.rev \notin abandoned
  BY <1>a, <1>b DEF position, Published, abandoned, RecoveryIs
<1>2. HeadSequence(head)' = HeadSequence(head) + 1
  <2>1. head' \in HeadRow
    BY <1>a, <1>b DEF HeadRow, CommittedRow
  <2>2. QED
    BY <1>a, <1>b, <2>1, NoneAssumption DEF HeadSequence
<1>3. position' = [position EXCEPT ![t.rev] = HeadSequence(head) + 1]
  <2>1. t.row # None
    BY <1>b, NoneAssumption
  <2>2. QED
    BY <1>a, <1>b, <2>1 DEF position
<1>4. abandoned' = abandoned
  <2>1. recovery[t.rev] \in RecoveryRow
    BY <1>a, <1>b DEF RecoveryIs
  <2>2. recovery'[t.rev].state = "committed"
    BY <1>a, <1>b, <2>1 DEF RecoveryRow
  <2>3. \A r \in Revision : r # t.rev => recovery'[r] = recovery[r]
    BY <1>a, <1>b
  <2>4. \A r \in Revision : RecoveryIs(r, {"not-published"})' <=> RecoveryIs(r, {"not-published"})
    BY <1>b, <2>2, <2>3 DEF RecoveryIs
  <2>5. QED
    BY <2>4 DEF abandoned
<1>5. QED
  BY <1>1, <1>2, <1>3, <1>4 DEF History!Append, position, abandoned

\* A fencing transaction abandons its revision.
LEMMA SettlingAbandons ==
  ASSUME LineInv, NEW w \in Settler, SettleWrite(w)
  PROVE  \/ \E r \in Revision : History!Abandon(r)
         \/ UNCHANGED History!hvars
<1>a. recovery \in [Revision -> RecoveryRow \union {None}]
  BY DEF LineInv, TypeOK
<1>b. committed' = committed /\ head' = head
  BY DEF SettleWrite, store
<1>1. CASE UNCHANGED recovery
  BY <1>1, <1>b DEF History!hvars, RecoveryIs
<1>2. CASE /\ committed[settling[w]] = None
           /\ RecoveryIs(settling[w], {"pending"})
           /\ recovery' = [recovery EXCEPT ![settling[w]].state = "not-published"]
  <2> DEFINE r == settling[w]
  <2>1. r \in Revision /\ recovery[r] \in RecoveryRow
    BY <1>2, <1>a DEF SettleWrite, LineInv, TypeOK, Base, RecoveryIs
  <2>2. recovery'[r] \in RecoveryRow /\ recovery'[r].state = "not-published"
    BY <1>2, <1>a, <2>1 DEF RecoveryRow
  <2>3. \A x \in Revision : x # r => recovery'[x] = recovery[x]
    BY <1>2, <1>a, <2>1
  <2>4. \A x \in Revision :
          RecoveryIs(x, {"not-published"})' <=> x = r \/ RecoveryIs(x, {"not-published"})
    BY <2>2, <2>3, NoneAssumption DEF RecoveryIs
  <2>5. abandoned' = abandoned \union {r}
    BY <2>1, <2>4 DEF abandoned
  <2>6. position[r] = 0
    BY <1>2, <2>1 DEF position
  <2>7. position' = position /\ HeadSequence(head)' = HeadSequence(head)
    BY <1>b DEF position
  <2>8. History!Abandon(r)
    BY <2>5, <2>6, <2>7 DEF History!Abandon, position, abandoned
  <2>9. QED
    BY <2>1, <2>8
<1>3. QED
  BY <1>1, <1>2 DEF SettleWrite

\* Any other step leaves the history alone.
LEMMA OthersStutter ==
  ASSUME LineInv, [Next]_vars,
         ~\E t \in inflight : LandTransaction(t),
         ~\E w \in Settler : SettleWrite(w)
  PROVE  UNCHANGED History!hvars
<1> USE DEF rows, store, readers
<1>a. /\ recovery \in [Revision -> RecoveryRow \union {None}]
      /\ UNCHANGED store
  BY OnlyLandingWrites DEF LineInv, TypeOK
<1> DEFINE Same == \A r \in Revision :
             RecoveryIs(r, {"not-published"})' <=> RecoveryIs(r, {"not-published"})
<1>1. ASSUME NEW p \in Publisher, PutRecovery(p) PROVE Same
  <2>1. \A r \in Revision :
          \/ recovery'[r] = recovery[r]
          \/ recovery[r] = None /\ recovery'[r].state = "pending"
    BY <1>1, <1>a DEF PutRecovery
  <2>2. QED
    BY <2>1 DEF RecoveryIs
<1>2. ASSUME Tick PROVE Same
  <2>1. ASSUME NEW r \in Revision, Ageing(r)
        PROVE  RecoveryIs(r, {"pending"}) /\ recovery'[r].state = "pending"
    <3>1. recovery[r] \in RecoveryRow
      BY <2>1, <1>a DEF Ageing, RecoveryIs
    <3>2. QED
      BY <1>2, <2>1, <3>1 DEF Tick, Ageing, RecoveryIs, RecoveryRow
  <2>2. ASSUME NEW r \in Revision, ~Ageing(r) PROVE recovery'[r] = recovery[r]
    BY <1>2, <2>2 DEF Tick
  <2>3. QED
    BY <2>1, <2>2 DEF RecoveryIs
<1>3. ASSUME UNCHANGED recovery PROVE Same
  BY <1>3 DEF RecoveryIs
<1>4. Same
  BY <1>1, <1>2, <1>3 DEF Next, vars, Publishing, BeginPublish,
     CheckCommitted, ReadHead, StageManifest, SendTransaction, TimeOut,
     RecheckCommitted, RecheckHead, ResolveAnswer, Stop, Travelling,
     RefuseTransaction, LoseTransaction, Prepare, ReadCurrentHead, ReadCurrentRow,
     Settling, SettleRead, SettleFail
<1>5. QED
  BY <1>4, <1>a DEF History!hvars

\* Every step of the store, whichever invocations crash, race or give up, is one
\* append, one abandonment, or nothing the history can see.
THEOREM HistoryRefined == Spec => HistorySpec
<1>1. LineInv /\ [Next]_vars => [History!HNext]_(History!hvars)
  <2> SUFFICES ASSUME LineInv, [Next]_vars
               PROVE  History!HNext \/ UNCHANGED History!hvars
    BY DEF History!HNext
  <2>1. ASSUME NEW t \in inflight, LandTransaction(t) PROVE History!HNext
    BY <2>1, LandingAppends, Landing DEF History!HNext
  <2>2. ASSUME NEW w \in Settler, SettleWrite(w)
        PROVE  History!HNext \/ UNCHANGED History!hvars
    BY <2>2, SettlingAbandons DEF History!HNext
  <2>3. QED
    BY <2>1, <2>2, OthersStutter
<1>2. QED
  BY <1>1, InitRefines, LineInvHolds, PTL DEF Spec, HistorySpec, History!HSpec


(***************************************************************************)
(* What a step keeps.                                                      *)
(***************************************************************************)
LEMMA PublishedGrows ==
  ASSUME LineInv, [Next]_vars
  PROVE  Grows /\ Published \subseteq Published' /\ TypeOK'
<1>1. TypeOK'
  BY NextTypes DEF LineInv
<1>2. Grows
  BY <1>1, RowsGrow DEF LineInv
<1>3. QED
  BY <1>1, <1>2 DEF Grows, Published

\* A dead revision stays dead: a landing transaction found its base at HEAD.
LEMMA DeadStays ==
  ASSUME LineInv, [Next]_vars, NEW r \in Revision, Dead(r)
  PROVE  Dead(r)'
<1> USE DEF rows, store, readers
<1>a. Grows /\ Published \subseteq Published' /\ TypeOK' /\ LineInv'
  BY PublishedGrows, NextLineInv
<1>1. RecoveryIs(r, {"not-published"}) => RecoveryIs(r, {"not-published"})'
  <2> SUFFICES ASSUME RecoveryIs(r, {"not-published"}) PROVE RecoveryIs(r, {"not-published"})'
    OBVIOUS
  <2>1. recovery \in [Revision -> RecoveryRow \union {None}]
    BY DEF LineInv, TypeOK
  <2>2. ASSUME NEW t \in inflight, LandTransaction(t) PROVE recovery'[r] = recovery[r]
    BY <2>1, <2>2 DEF LandTransaction, Publishable, Apply, RecoveryIs
  <2>3. ASSUME NEW p \in Publisher, PutRecovery(p) PROVE recovery'[r] = recovery[r]
    BY <2>1, <2>3 DEF PutRecovery, RecoveryIs
  <2>4. ASSUME NEW w \in Settler, SettleWrite(w) PROVE recovery'[r] = recovery[r]
    BY <2>1, <2>4 DEF SettleWrite, RecoveryIs
  <2>5. ASSUME Tick PROVE recovery'[r] = recovery[r]
    BY <2>1, <2>5 DEF Tick, Ageing, RecoveryIs
  <2>6. recovery'[r] = recovery[r]
    BY <2>2, <2>3, <2>4, <2>5 DEF Next, vars, Publishing, BeginPublish, CheckCommitted,
       ReadHead, StageManifest, SendTransaction, TimeOut, RecheckCommitted,
       RecheckHead, ResolveAnswer, Stop, Travelling, RefuseTransaction, LoseTransaction,
       Prepare, ReadCurrentHead, ReadCurrentRow, Settling, SettleRead, SettleFail
  <2>7. QED
    BY <2>6 DEF RecoveryIs
<1>2. CASE UNCHANGED store
  <2>1. Superseded(r) => Superseded(r)'
    BY <1>2, <1>a DEF Superseded, Grows, Published
  <2>2. QED
    BY <1>1, <1>2, <2>1 DEF Dead, Published
<1>3. ASSUME NEW t \in inflight, LandTransaction(t) PROVE Dead(r)'
  <2>1. /\ t.rev \in Revision /\ t.rev \notin Published
        /\ Published' = Published \union {t.rev}
        /\ t.row.expected = HeadRevision(head)
    BY <1>3, Landing
  <2>2. /\ BelongsToTheLine(t)
        /\ RecoveryIs(t.rev, {"pending"})
        /\ head' = [rev |-> t.rev, sequence |-> t.row.sequence,
                    digest |-> t.row.digest, manifest |-> t.row.manifest]
        /\ prepared' = prepared
    BY <1>3 DEF LineInv, TransactionsKnowTheirBase, LandTransaction, Publishable, Apply
  <2>3. t.rev # r
    BY <2>1, <2>2 DEF Dead, Superseded, RecoveryIs, BelongsToTheLine, HeadRevision
  <2>4. head' # None /\ head'.rev = t.rev
    <3>1. t.row \in CommittedRow
      BY DEF LineInv, TypeOK, Transaction
    <3>2. head' \in HeadRow
      BY <2>1, <2>2, <3>1 DEF HeadRow, CommittedRow
    <3>3. QED
      BY <2>2, <3>2, NoneAssumption
  <2>5. Superseded(r) => Superseded(r)'
    BY <2>1, <2>2, <2>4, ConstantsAssumption DEF Superseded
  <2>6. QED
    BY <1>1, <2>1, <2>3, <2>5 DEF Dead
<1>4. QED
  BY <1>2, <1>3, OnlyLandingWrites

\* A refused transaction was for a revision already published or dead.
LEMMA RefusedIsDecided ==
  ASSUME LineInv, AnswersInv, NEW t \in inflight, ~Publishable(t)
  PROVE  t.rev \in Published \/ Dead(t.rev)
<1>1. t \in Transaction /\ t.rev \in Revision /\ BelongsToTheLine(t)
  BY DEF LineInv, TypeOK, Transaction, TransactionsKnowTheirBase
<1> SUFFICES ASSUME t.rev \notin Published PROVE Dead(t.rev)
  OBVIOUS
<1>2. recovery[t.rev] \in RecoveryRow
  BY <1>1 DEF LineInv, TypeOK, BelongsToTheLine
<1>3. CASE ~RecoveryIs(t.rev, {"pending"})
  BY <1>1, <1>2, <1>3 DEF LineInv, RecoveryTellsTheTruth, RecoveryIs, RecoveryRow,
     BelongsToTheLine, Dead
<1>4. CASE ~HeadMatches(t)
  <2>1. t.base \in Published \union {None} /\ (t.base = None => t.baseSequence = 0)
    BY <1>1 DEF BelongsToTheLine, BaseIsPublished
  <2>2. head # None
    BY <1>4, <2>1 DEF HeadMatches, LineInv, OneLine
  <2>3. head.rev # t.base
    <3>1. SUFFICES ASSUME head.rev = t.base PROVE FALSE
      OBVIOUS
    <3>2. head.rev \in Published /\ head.sequence = committed[head.rev].sequence
      BY <2>2 DEF LineInv, RowsAgree, Coherent
    <3>3. head.rev # None
      BY <3>2, ConstantsAssumption DEF Published
    <3>4. QED
      BY <1>1, <1>4, <2>2, <3>1, <3>2, <3>3 DEF HeadMatches, BelongsToTheLine, BaseIsPublished
  <2>4. QED
    BY <1>1, <2>1, <2>2, <2>3 DEF Dead, Superseded, BelongsToTheLine
<1>5. CASE /\ HeadMatches(t) /\ RecoveryIs(t.rev, {"pending"})
  <2>1. recovery[t.rev].digest = t.row.digest
    BY <1>1 DEF AnswersInv, RecoveryKnowsItsRow, BelongsToTheLine
  <2>2. prepared[t.rev] # None /\ prepared[t.rev].digest = t.row.digest
    BY <1>1 DEF BelongsToTheLine
  <2>3. committed[t.rev] = None
    BY <1>1 DEF Published
  <2>4. PICK e \in outbox : e.sequence = t.row.sequence
    BY <1>5, <2>1, <2>2, <2>3 DEF Publishable
  <2>5. PICK s \in Published : committed[s].sequence = t.baseSequence + 1
    BY <1>1, <2>4 DEF LineInv, OutboxIsTheLine, BelongsToTheLine
  <2>6. head # None /\ t.baseSequence + 1 <= head.sequence /\ head.sequence \in Nat
    BY <2>5 DEF LineInv, OneLine, TypeOK, HeadRow
  <2>7. head.sequence = t.baseSequence /\ t.baseSequence \in Nat
    BY <1>1, <1>5, <2>6 DEF HeadMatches, Transaction
  <2>8. QED
    BY <2>6, <2>7
<1>6. QED
  BY <1>3, <1>4, <1>5

(***************************************************************************)
(* AnswersInv is inductive once the line holds.                            *)
(***************************************************************************)
LEMMA NextRecoveryKnows ==
  ASSUME LineInv, RecoveryKnowsItsRow, [Next]_vars
  PROVE  RecoveryKnowsItsRow'
<1> USE DEF rows, store, readers
<1>a. /\ Grows
      /\ recovery \in [Revision -> RecoveryRow \union {None}]
      /\ pub \in [Publisher -> Invocation]
      /\ inflight \subseteq Transaction
      /\ settling \in [Settler -> Base]
  BY PublishedGrows DEF LineInv, TypeOK
<1> DEFINE Keeps(r, new) ==
      /\ recovery[r] # None
      /\ new.digest = recovery[r].digest
<1> SUFFICES ASSUME NEW r \in Revision
             PROVE  \/ recovery'[r] = recovery[r]
                    \/ Keeps(r, recovery'[r])
                    \/ /\ prepared[r] # None
                       /\ recovery'[r].digest = prepared[r].digest
  BY <1>a DEF RecoveryKnowsItsRow, Grows
<1>1. ASSUME NEW p \in Publisher, PutRecovery(p)
      PROVE  \/ recovery'[r] = recovery[r]
             \/ prepared[r] # None /\ recovery'[r].digest = prepared[r].digest
  <2>1. prepared[pub[p].rev] # None
    BY <1>1 DEF PutRecovery, LineInv, InvocationsKnowTheirBase, KnowsItsBase
  <2>2. QED
    BY <1>1, <1>a, <2>1 DEF PutRecovery
<1>2. ASSUME NEW t \in inflight, LandTransaction(t)
      PROVE  recovery'[r] = recovery[r] \/ Keeps(r, recovery'[r])
  <2>1. t.rev \in Revision /\ recovery[t.rev] \in RecoveryRow /\ recovery[t.rev] # None
    BY <1>2, <1>a DEF LandTransaction, Publishable, RecoveryIs, Transaction
  <2>2. QED
    BY <1>2, <1>a, <2>1 DEF LandTransaction, Apply, RecoveryRow
<1>3. ASSUME NEW w \in Settler, SettleWrite(w)
      PROVE  recovery'[r] = recovery[r] \/ Keeps(r, recovery'[r])
  <2>1. CASE RecoveryIs(settling[w], {"pending"})
    <3>1. recovery[settling[w]] \in RecoveryRow /\ recovery[settling[w]] # None
      BY <1>3, <1>a, <2>1 DEF SettleWrite, RecoveryIs, Base
    <3>2. QED
      BY <1>3, <1>a, <3>1 DEF SettleWrite, RecoveryRow
  <2>2. CASE ~RecoveryIs(settling[w], {"pending"})
    BY <1>3, <2>2 DEF SettleWrite
  <2>3. QED
    BY <2>1, <2>2
<1>4. ASSUME Tick PROVE recovery'[r] = recovery[r] \/ Keeps(r, recovery'[r])
  <2>1. CASE Ageing(r)
    <3>1. recovery[r] \in RecoveryRow /\ recovery[r] # None
      BY <2>1, <1>a DEF Ageing, RecoveryIs
    <3>2. QED
      BY <1>4, <2>1, <3>1 DEF Tick, RecoveryRow
  <2>2. CASE ~Ageing(r)
    BY <1>4, <2>2 DEF Tick
  <2>3. QED
    BY <2>1, <2>2
<1>5. QED
  BY <1>1, <1>2, <1>3, <1>4 DEF Next, vars, Publishing, BeginPublish, CheckCommitted,
     ReadHead, StageManifest, SendTransaction, TimeOut, RecheckCommitted,
     RecheckHead, ResolveAnswer, Stop, Travelling, RefuseTransaction, LoseTransaction,
     Prepare, ReadCurrentHead, ReadCurrentRow, Settling, SettleRead, SettleFail

\* An invocation that does not move keeps its conclusions.
LEMMA ConclusionsStay ==
  ASSUME LineInv, [Next]_vars, NEW p \in Publisher, Concludes(p),
         pub'[p] = pub[p]
  PROVE  Concludes(p)'
<1>1. pub[p].stage # "idle" => pub[p].rev \in Revision
  BY DEF LineInv, TypeOK, InvocationsKnowTheirBase, KnowsItsBase, Invocation, Base
<1>2. Published \subseteq Published'
  BY PublishedGrows
<1>3. ASSUME pub[p].stage # "idle", Dead(pub[p].rev) PROVE Dead(pub[p].rev)'
  <2>1. \A r \in Revision : Dead(r) => Dead(r)'
    BY DeadStays
  <2> DEFINE r == pub[p].rev
  <2>2. r \in Revision /\ Dead(r)
    BY <1>1, <1>3
  <2>3. pub'[p].rev = r
    OBVIOUS
  <2>4. QED
    BY <2>1, <2>2, <2>3
<1>4. QED
  BY <1>2, <1>3 DEF Concludes

\* What an invocation concludes by a step of its own.
LEMMA PublishingConcludes ==
  ASSUME LineInv, AnswersInv, [Next]_vars, NEW p \in Publisher, Publishing(p)
  PROVE  Concludes(p)'
<1>a. /\ pub \in [Publisher -> Invocation]
      /\ pub[p] \in Invocation
      /\ \A r \in Revision : Dead(r) => Dead(r)'
      /\ Published \subseteq Published'
      /\ Concludes(p) /\ KnowsItsBase(p)
  BY DeadStays, PublishedGrows
     DEF LineInv, TypeOK, AnswersInv, InvocationsKnowTheirBase
<1>b. pub[p].stage # "idle" => pub[p].rev \in Revision
  BY <1>a DEF KnowsItsBase, Invocation, Base
<1>1. CASE CheckCommitted(p)
  <2>1. /\ pub[p].rev \in Revision
        /\ pub'[p].rev = pub[p].rev
        /\ \/ pub'[p].stage = "resolving" /\ committed[pub[p].rev] # None
           \/ pub'[p].stage = "uncommitted"
    BY <1>a, <1>b, <1>1 DEF CheckCommitted, Moves, Becomes, Invocation
  <2>2. pub'[p].stage = "resolving" => pub[p].rev \in Published
    BY <2>1 DEF Published
  <2>3. QED
    BY <1>a, <2>1, <2>2 DEF Concludes
<1>2. CASE PutRecovery(p)
  <2> DEFINE r == pub[p].rev
  <2>1. CASE pub'[p].stage = "armed"
    BY <2>1 DEF Concludes
  <2>2. CASE pub'[p].stage = "failed" /\ pub'[p].cause = "ambiguous"
    BY <2>2, ConstantsAssumption DEF Concludes
  <2>3. CASE pub'[p].stage # "armed" /\ pub'[p].cause # "ambiguous"
    <3>1. /\ r \in Revision /\ pub'[p].rev = r /\ pub'[p].stage = "failed"
          /\ recovery[r] # None
          /\ RecoveryIs(r, {"pending"}) => recovery[r].digest # prepared[r].digest
      BY ZenonT(40), <1>a, <1>b, <1>2, <2>3 DEF PutRecovery, Moves, Becomes, Fails, Invocation
    <3>2. recovery[r] \in RecoveryRow
      BY <3>1 DEF LineInv, TypeOK
    <3>3. RecoveryIs(r, {"committed"}) \/ RecoveryIs(r, {"not-published"})
      BY <3>1, <3>2 DEF AnswersInv, RecoveryKnowsItsRow, RecoveryIs, RecoveryRow
    <3>4. r \in Published \/ Dead(r)
      BY <3>1, <3>3 DEF LineInv, RecoveryTellsTheTruth, Dead
    <3>5. r \in Published' \/ Dead(r)'
      BY <3>1, <3>4, <1>a
    <3>6. QED
      BY <3>1, <3>5 DEF Concludes
  <2>4. QED
    BY ZenonT(40), <1>a, <1>2, <2>1, <2>2, <2>3 DEF PutRecovery, Moves, Becomes, Fails, Invocation
<1>3. CASE RecheckCommitted(p)
  <2> DEFINE r == pub[p].rev
  <2>1. r \in Revision
    BY <1>3, <1>b DEF RecheckCommitted
  <2>2. CASE pub'[p].stage = "resolving"
    <3>1. committed[r] # None /\ pub'[p].rev = r
      BY <1>a, <1>3, <2>2 DEF RecheckCommitted, Moves, Becomes, Answers, Idle, Invocation
    <3>2. r \in Published'
      BY <1>a, <2>1, <3>1 DEF Published
    <3>3. QED
      BY <2>2, <3>1, <3>2 DEF Concludes
  <2>3. CASE pub'[p].stage = "rechecked"
    <3>1. /\ committed[r] = None /\ pub'[p].rev = r /\ pub'[p].cause = pub[p].cause
          /\ pub[p].stage = "failed"
      BY <1>a, <1>3, <2>3 DEF RecheckCommitted, Moves, Becomes, Answers, Idle, Invocation
    <3>2. pub[p].cause = "cas" => Dead(r)
      BY <1>a, <3>1 DEF Concludes, Published
    <3>3. pub[p].cause = "cas" => Dead(r)'
      BY <1>a, <2>1, <3>1, <3>2
    <3>4. QED
      BY <2>3, <3>1, <3>3 DEF Concludes
  <2>4. CASE pub'[p].stage = "idle"
    BY <2>4 DEF Concludes
  <2>5. QED
    BY <1>a, <1>3, <2>2, <2>3, <2>4
       DEF RecheckCommitted, Moves, Becomes, Answers, Idle, Invocation
<1>4. CASE TimeOut(p)
  <2>1. pub'[p].stage = "failed" /\ pub'[p].cause = "ambiguous"
    BY <1>a, <1>4 DEF TimeOut, Becomes, Fails, Invocation
  <2>2. QED
    BY <2>1 DEF Concludes
<1>5. CASE \/ ReadHead(p) \/ RecheckHead(p) \/ ResolveAnswer(p) \/ Stop(p)
           \/ SendTransaction(p) \/ \E r \in Revision : BeginPublish(p, r)
           \/ \E t \in Instant : StageManifest(p, t)
  <2>1. pub'[p].stage \in {"idle", "based", "sent", "loaded", "staged"}
    <3>1. CASE RecheckHead(p) \/ ResolveAnswer(p) \/ Stop(p)
      BY <1>a, <3>1 DEF RecheckHead, ResolveAnswer, Stop, Becomes, Answers, Idle
    <3>6. CASE ReadHead(p)
      <4>1. CASE Answers(p)
        BY <1>a, <4>1 DEF Becomes, Answers, Idle
      <4>2. CASE ~Answers(p)
        BY <1>a, <3>6, <4>2 DEF ReadHead, Becomes, Invocation
      <4>3. QED
        BY <4>1, <4>2
    <3>2. CASE SendTransaction(p)
      BY <1>a, <3>2 DEF SendTransaction, Moves, Becomes, Invocation
    <3>3. CASE \E r \in Revision : BeginPublish(p, r)
      BY <1>a, <3>3 DEF BeginPublish, Becomes, Invocation
    <3>4. CASE \E t \in Instant : StageManifest(p, t)
      BY <1>a, <3>4 DEF StageManifest, Becomes, Invocation
    <3>5. QED
      BY <1>5, <3>1, <3>2, <3>3, <3>4, <3>6
  <2>2. QED
    BY <2>1 DEF Concludes
<1>6. QED
  BY <1>1, <1>2, <1>3, <1>4, <1>5 DEF Publishing

\* What an invocation concludes from the fate of its transaction.
LEMMA TravellingConcludes ==
  ASSUME LineInv, AnswersInv, [Next]_vars, NEW t \in inflight, Travelling(t),
         t.by # None
  PROVE  Concludes(t.by)'
<1> DEFINE p == t.by
<1>a. /\ pub \in [Publisher -> Invocation]
      /\ t \in Transaction /\ p \in Publisher
      /\ pub[p] \in Invocation
      /\ pub[p].rev = t.rev
      /\ \A r \in Revision : Dead(r) => Dead(r)'
      /\ Published \subseteq Published'
  BY DeadStays, PublishedGrows
     DEF LineInv, TypeOK, Transaction, TransactionsKnowTheirBase
<1>b. t.rev \in Revision
  BY <1>a DEF Transaction
<1>1. CASE pub'[p].stage = "failed" /\ pub'[p].cause = "ambiguous"
  BY <1>1 DEF Concludes
<1>2. CASE LandTransaction(t) /\ ~(pub'[p].stage = "failed" /\ pub'[p].cause = "ambiguous")
  <2>1. pub'[p].stage = "resolving" /\ pub'[p].rev = t.rev
    BY <1>a, <1>2 DEF LandTransaction, Replies, Becomes, Fails, Invocation
  <2>2. t.rev \in Published'
    BY <1>2, Landing
  <2>3. QED
    BY <2>1, <2>2 DEF Concludes
<1>3. CASE RefuseTransaction(t) /\ ~(pub'[p].stage = "failed" /\ pub'[p].cause = "ambiguous")
  <2>1. pub'[p].stage = "failed" /\ pub'[p].rev = t.rev
    BY <1>a, <1>3 DEF RefuseTransaction, Replies, Becomes, Fails, Invocation
  <2>2. t.rev \in Published \/ Dead(t.rev)
    BY <1>3, RefusedIsDecided DEF RefuseTransaction
  <2>3. t.rev \in Published' \/ Dead(t.rev)'
    BY <1>a, <1>b, <2>2
  <2>4. QED
    BY <2>1, <2>3 DEF Concludes
<1>4. CASE LoseTransaction(t)
  BY <1>1, <1>4, <1>a DEF LoseTransaction, Replies, Becomes, Fails, Invocation
<1>5. QED
  BY <1>1, <1>2, <1>3, <1>4 DEF Travelling

LEMMA NextConcludes ==
  ASSUME LineInv, AnswersInv, [Next]_vars, NEW p \in Publisher
  PROVE  Concludes(p)'
<1> USE DEF rows, store, readers
<1>a. /\ pub \in [Publisher -> Invocation]
      /\ \A t \in inflight : t.by # None => t.by \in Publisher
  BY DEF LineInv, TypeOK, Transaction
<1>1. CASE pub'[p] = pub[p]
  BY <1>1, ConclusionsStay DEF AnswersInv
<1>2. CASE Publishing(p)
  BY <1>2, PublishingConcludes
<1>3. CASE \E t \in inflight : Travelling(t) /\ t.by = p /\ t.by # None
  BY <1>3, TravellingConcludes
<1>4. ASSUME NEW q \in Publisher, Publishing(q), q # p PROVE pub'[p] = pub[p]
  BY <1>4, <1>a DEF Publishing, BeginPublish, CheckCommitted, ReadHead,
     StageManifest, PutRecovery, SendTransaction, TimeOut, RecheckCommitted,
     RecheckHead, ResolveAnswer, Stop, Moves, Becomes, Fails, Answers
<1>5. ASSUME NEW t \in inflight, Travelling(t), t.by = None \/ t.by # p
      PROVE  pub'[p] = pub[p]
  BY <1>5, <1>a DEF Travelling, LandTransaction, RefuseTransaction,
     LoseTransaction, Replies, Becomes, Fails
<1>6. ASSUME Next, ~\E q \in Publisher : Publishing(q),
             ~\E t \in inflight : Travelling(t)
      PROVE  pub' = pub
  BY <1>6 DEF Next, Prepare, ReadCurrentHead, ReadCurrentRow, Settling, SettleRead,
     SettleWrite, SettleFail, Tick
<1>7. CASE UNCHANGED vars
  BY <1>1, <1>7 DEF vars
<1>8. QED
  BY <1>1, <1>2, <1>3, <1>4, <1>5, <1>6, <1>7

LEMMA NextRefused ==
  ASSUME LineInv, AnswersInv, [Next]_vars
  PROVE  RefusedAreDead'
<1> USE DEF rows, store, readers
<1>a. /\ \A r \in Revision : Dead(r) => Dead(r)'
      /\ refused \subseteq [rev : Revision, cause : {"cas", "ambiguous"}]
      /\ RefusedAreDead
  BY DeadStays DEF LineInv, TypeOK, AnswersInv
<1>1. CASE UNCHANGED refused
  BY <1>1, <1>a DEF RefusedAreDead
<1>2. ASSUME NEW p \in Publisher, RecheckHead(p), refused' # refused
      PROVE  RefusedAreDead'
  <2>1. /\ refused' = refused \union {[rev |-> pub[p].rev, cause |-> pub[p].cause]}
        /\ pub[p].stage = "rechecked"
    BY <1>2 DEF RecheckHead
  <2>2. pub[p].rev \in Revision /\ (pub[p].cause = "cas" => Dead(pub[p].rev))
    BY <2>1 DEF LineInv, TypeOK, InvocationsKnowTheirBase, KnowsItsBase, Invocation,
       Base, AnswersInv, Concludes
  <2>3. \A x \in refused' : x.rev \in Revision /\ (x.cause = "cas" => Dead(x.rev))
    BY <1>a, <2>1, <2>2 DEF RefusedAreDead
  <2>4. \A x \in refused' : x.cause = "cas" => Dead(x.rev)'
    BY <1>a, <2>3
  <2>5. QED
    BY <2>4 DEF RefusedAreDead
<1>3. UNCHANGED refused \/ \E p \in Publisher : RecheckHead(p)
  BY DEF Next, vars, Publishing, BeginPublish, CheckCommitted, ReadHead,
     StageManifest, PutRecovery, SendTransaction, TimeOut, RecheckCommitted,
     ResolveAnswer, Stop, Travelling, LandTransaction, RefuseTransaction,
     LoseTransaction, Prepare, ReadCurrentHead, ReadCurrentRow, Settling,
     SettleRead, SettleWrite, SettleFail, Tick
<1>4. QED
  BY <1>1, <1>2, <1>3

LEMMA NextReads ==
  ASSUME LineInv, ReadsAreWhole, [Next]_vars
  PROVE  ReadsAreWhole'
<1> USE DEF rows, store, readers
<1>a. /\ Grows /\ LineInv'
      /\ reading \in [Reader -> HeadRow \union {None}]
  BY PublishedGrows, NextLineInv DEF LineInv, TypeOK
<1>1. ASSUME NEW q \in Reader, ReadCurrentHead(q), NEW x \in Reader
      PROVE  reading'[x] = reading[x] \/ (reading'[x] = head' /\ head' # None)
  BY <1>1, <1>a DEF ReadCurrentHead
<1>2. ASSUME NEW q \in Reader, ReadCurrentRow(q), NEW x \in Reader
      PROVE  reading'[x] = reading[x] \/ reading'[x] = None
  BY <1>2, <1>a DEF ReadCurrentRow
<1>3. ASSUME Next, ~\E q \in Reader : ReadCurrentHead(q) \/ ReadCurrentRow(q)
      PROVE  reading' = reading
  BY <1>3 DEF Next, Publishing, BeginPublish, CheckCommitted, ReadHead,
     StageManifest, PutRecovery, SendTransaction, TimeOut, RecheckCommitted,
     RecheckHead, ResolveAnswer, Stop, Travelling, LandTransaction,
     RefuseTransaction, LoseTransaction, Prepare, Settling, SettleRead,
     SettleWrite, SettleFail, Tick
<1>4. \A x \in Reader : \/ reading'[x] \in {reading[x], None}
                        \/ reading'[x] = head' /\ head' # None
  BY <1>1, <1>2, <1>3 DEF vars
<1>5. ASSUME NEW x \in Reader, reading'[x] = reading[x], reading[x] # None
      PROVE  committed'[reading[x].rev] # None /\ Coherent(reading[x].rev, reading[x])'
  <2>1. reading[x].rev \in Revision
    BY <1>a, <1>5 DEF HeadRow
  <2>2. committed'[reading[x].rev] = committed[reading[x].rev]
        /\ committed[reading[x].rev] # None
    BY <1>a, <1>5, <2>1 DEF Grows, ReadsAreWhole
  <2>3. QED
    BY <1>a, <1>5, <2>2 DEF ReadsAreWhole, Coherent, Grows
<1>6. head' # None => committed'[head'.rev] # None /\ Coherent(head.rev, head)'
  BY <1>a DEF LineInv, RowsAgree, Published
<1>7. QED
  BY <1>4, <1>5, <1>6 DEF ReadsAreWhole, Coherent

LEMMA AnswersInvHolds == Spec => [](LineInv /\ AnswersInv)
<1>1. Init => AnswersInv
  BY DEF Init, AnswersInv, RecoveryKnowsItsRow, Concludes, Idle, RefusedAreDead,
     ReadsAreWhole
<1>2. LineInv /\ AnswersInv /\ [Next]_vars => AnswersInv'
  <2> SUFFICES ASSUME LineInv, AnswersInv, [Next]_vars PROVE AnswersInv'
    OBVIOUS
  <2>1. RecoveryKnowsItsRow' /\ RefusedAreDead' /\ ReadsAreWhole'
    BY NextRecoveryKnows, NextRefused, NextReads DEF AnswersInv
  <2>2. QED
    BY <2>1, NextConcludes DEF AnswersInv
<1>3. QED
  BY <1>1, <1>2, LineInvHolds, PTL DEF Spec

(***************************************************************************)
(* The theorems.                                                           *)
(***************************************************************************)
\* readCurrent never fails because HEAD moved between its two reads: the row and
\* the manifest of the head it holds are there and agree with it.
THEOREM ReadsHold == Spec => []ReadsAreWhole
<1>1. AnswersInv => ReadsAreWhole
  BY DEF AnswersInv
<1>2. QED
  BY <1>1, AnswersInvHolds, PTL

\* publish answers success only for what is committed as it was prepared, and
\* never meets rows that contradict each other while it does.
THEOREM AnswersHold == Spec => []AnswersAreTrue
<1>1. LineInv /\ AnswersInv => AnswersAreTrue
  <2> SUFFICES ASSUME LineInv, AnswersInv, NEW p \in Publisher,
                      pub[p].stage = "resolving"
               PROVE  /\ pub[p].rev \in Published
                      /\ Bound(pub[p].rev)
                      /\ Coherent(pub[p].rev, head)
    BY DEF AnswersAreTrue
  <2>1. pub[p].rev \in Published
    BY DEF AnswersInv, Concludes
  <2>2. QED
    BY <2>1 DEF LineInv, RowsAgree, Coherent
<1>2. QED
  BY <1>1, AnswersInvHolds, PTL

\* A conflict answered after a refused transaction is final: nothing still on its
\* way publishes the revision behind the client's back.
THEOREM RefusalsHold == Spec => []RefusalIsFinal
<1>1. AnswersInv => RefusalIsFinal
  BY DEF AnswersInv, RefusedAreDead, Dead, RefusalIsFinal
<1>2. QED
  BY <1>1, AnswersInvHolds, PTL

(***************************************************************************)
(* The recovery worker (RecoverySweep), for every table, every placement   *)
(* of its rows and every number of overlapping invocations: it only does   *)
(* what WorkspaceRevisions lets a settler do, so that every theorem about  *)
(* the store holds with it, and its sweeps pass over no row.               *)
(***************************************************************************)
USE DEF rows, store, readers

(***************************************************************************)
(* Every step of the worker is one of the store's, or a stutter.           *)
(***************************************************************************)
LEMMA SweepingSettles ==
  ASSUME NEW w \in Settler, Sweeping(w)
  PROVE  Settling(w) \/ UNCHANGED vars
<1>1. CASE ReadCheckpoint(w) \/ Scans(w) \/ FinishPage(w) \/ EndSweep(w)
  BY <1>1 DEF ReadCheckpoint, Scans, ScanPage, FinishPage, EndSweep
<1>2. CASE Handles(w)
  BY <1>2 DEF Handles, SkipRow, TakeRow, Settling
<1>3. CASE SettleRow(w) \/ SettleRowUnheard(w) \/ FailRow(w)
  BY <1>3 DEF SettleRow, SettleRowUnheard, FailRow, Settling
<1> QED
  BY <1>1, <1>2, <1>3 DEF Sweeping

LEMMA SweepSteps == [SweepNext]_allSweepVars => [Next]_vars
<1>1. CASE UNCHANGED allSweepVars
  BY <1>1 DEF allSweepVars
<1>2. CASE Clients
  BY <1>2 DEF Clients, Next
<1>3. CASE \E w \in Settler : Sweeping(w)
  BY <1>3, SweepingSettles DEF Next
<1> QED
  BY <1>1, <1>2, <1>3 DEF SweepNext

\* The worker implements the settlers of the store: what is proved of the store
\* is true of it with this worker.
THEOREM SweepRefines == SweepSpec => Spec
<1>1. SweepInit => Init
  BY DEF SweepInit
<1> QED
  BY <1>1, SweepSteps, PTL DEF SweepSpec, Spec

(***************************************************************************)
(* What was due stays due until it is settled.                             *)
(***************************************************************************)
OwedExist == \A r \in owed : recovery[r] # None

LEMMA DueStays ==
  ASSUME LineInv, [Next]_vars, NEW r \in Revision, Settleable(r), Pending(r)'
  PROVE  Settleable(r)'
<1>a. /\ recovery \in [Revision -> RecoveryRow \union {None}]
      /\ recovery[r] \in RecoveryRow
      /\ recovery[r].age >= SettleAge
  BY DEF LineInv, TypeOK, Settleable, RecoveryIs
<1>1. CASE recovery'[r] = recovery[r]
  BY <1>1 DEF Settleable, RecoveryIs
<1>2. ASSUME NEW p \in Publisher, PutRecovery(p) PROVE recovery'[r] = recovery[r]
  BY <1>2, <1>a DEF PutRecovery, Settleable, RecoveryIs
<1>3. ASSUME NEW t \in inflight, LandTransaction(t) PROVE recovery'[r] = recovery[r]
  <2>1. t.rev \in Revision /\ recovery' = [recovery EXCEPT ![t.rev].state = "committed"]
    BY <1>3 DEF LandTransaction, Apply, LineInv, TypeOK, Transaction
  <2>2. CASE r = t.rev
    <3>1. recovery'[r].state = "committed"
      BY <1>a, <2>1, <2>2 DEF RecoveryRow
    <3> QED
      BY <3>1 DEF Pending, RecoveryIs
  <2> QED
    BY <1>a, <2>1, <2>2
<1>4. ASSUME NEW w \in Settler, SettleWrite(w) PROVE recovery'[r] = recovery[r]
  <2>1. CASE settling[w] = r /\ recovery' # recovery
    <3>1. recovery'[r].state = "not-published"
      BY <1>4, <1>a, <2>1 DEF SettleWrite, RecoveryRow
    <3> QED
      BY <3>1 DEF Pending, RecoveryIs
  <2> QED
    BY <1>4, <1>a, <2>1 DEF SettleWrite
<1>5. CASE Tick
  <2>1. ~Ageing(r)
    BY <1>a, ConstantsAssumption DEF Ageing, RecoveryRow
  <2> QED
    BY <1>1, <1>5, <2>1 DEF Tick
<1>6. CASE UNCHANGED recovery
  BY <1>1, <1>6
<1> QED
  BY <1>1, <1>2, <1>3, <1>4, <1>5, <1>6 DEF Next, vars, Publishing, BeginPublish,
     CheckCommitted, ReadHead, StageManifest, SendTransaction, TimeOut, RecheckCommitted,
     RecheckHead, ResolveAnswer, Stop, Travelling, RefuseTransaction, LoseTransaction,
     Prepare, ReadCurrentHead, ReadCurrentRow, Settling, SettleRead, SettleFail

\* A row that is owed changes only by being settled, and then for good.
LEMMA OwedStays ==
  ASSUME LineInv, SweepInv, OwedExist, [Next]_vars, NEW r \in owed
  PROVE  /\ recovery'[r] # None
         /\ ~Pending(r) => ~Pending(r)'
         /\ Pending(r)' => Settleable(r)'
<1>1. r \in Revision /\ recovery[r] # None
  BY DEF SweepInv, SweepTypeOK, OwedExist
<1>2. recovery'[r] # None /\ (~Pending(r) => ~Pending(r)')
  BY <1>1, SettledStays DEF Pending, RecoveryIs
<1>3. Pending(r)' => Settleable(r)'
  BY <1>1, <1>2, DueStays DEF SweepInv
<1> QED
  BY <1>2, <1>3

(***************************************************************************)
(* The invariant of the worker, step by step.                              *)
(***************************************************************************)
\* What SweepInv says of one invocation.
Tracks(w) ==
  /\ settling[w] # None => /\ sweep[w].stage = "page"
                           /\ settling[w] \in sweep[w].rows
  /\ sweep[w].stage # "idle" /\ sweep[w].fresh => sweep[w].from = cursor
  /\ sweep[w].stage = "page" /\ sweep[w].fresh =>
       \A r \in owed \ sweep[w].rows : Place[r] <= sweep[w].to => ~Pending(r)

OwedInv ==
  /\ OwedExist
  /\ \A r \in owed : Pending(r) => Settleable(r)
  /\ \A r \in owed : Place[r] <= cursor => ~Pending(r)

LEMMA InvParts ==
  SweepInv /\ OwedExist <=> SweepTypeOK /\ OwedInv /\ \A w \in Settler : Tracks(w)
  BY DEF SweepInv, OwedInv, Tracks

LEMMA InitSweep == SweepInit => LineInv /\ SweepInv /\ OwedExist
<1> SUFFICES ASSUME SweepInit PROVE LineInv /\ SweepInv /\ OwedExist
  OBVIOUS
<1>1. LineInv
  BY InitLineInv DEF SweepInit
<1>2. SweepInv /\ OwedExist
  BY PlaceAssumption DEF SweepInit, Init, SweepInv, SweepTypeOK, SweepState, Asleep,
     OwedExist
<1> QED
  BY <1>1, <1>2

\* As long as neither the cursor nor what is owed changes, both parts of OwedInv
\* are kept by every step of the store.
LEMMA OwedInvKept ==
  ASSUME LineInv, SweepInv, OwedExist, [Next]_vars, UNCHANGED <<cursor, owed>>
  PROVE  OwedInv'
<1>1. \A r \in owed : /\ recovery'[r] # None
                      /\ ~Pending(r) => ~Pending(r)'
                      /\ Pending(r)' => Settleable(r)'
  BY OwedStays
<1>2. \A r \in owed : Place[r] <= cursor => ~Pending(r)
  BY DEF SweepInv
<1> QED
  BY <1>1, <1>2 DEF OwedInv, OwedExist

\* An invocation that takes no part in a step is still right.
LEMMA RestingTracks ==
  ASSUME LineInv, SweepInv, OwedExist, [Next]_vars, UNCHANGED <<cursor, owed>>,
         NEW x \in Settler, sweep'[x] = sweep[x], settling'[x] = settling[x]
  PROVE  Tracks(x)'
<1>1. Tracks(x)
  BY DEF SweepInv, Tracks
<1>2. \A r \in owed : ~Pending(r) => ~Pending(r)'
  BY OwedStays
<1> QED
  BY <1>1, <1>2 DEF Tracks

\* So is one that has just ended.
LEMMA EndedTracks ==
  ASSUME NEW x \in Settler, sweep'[x] = Asleep, settling'[x] = None
  PROVE  Tracks(x)'
  BY DEF Tracks, Asleep

LEMMA ClientsKeep ==
  ASSUME LineInv, SweepInv, OwedExist, [Next]_vars,
         Clients \/ UNCHANGED vars, UNCHANGED sweepVars
  PROVE  SweepInv' /\ OwedExist'
<1>1. UNCHANGED settling
  BY DEF Clients, vars, Prepare, Publishing, BeginPublish, CheckCommitted, ReadHead,
     StageManifest, PutRecovery, SendTransaction, TimeOut, RecheckCommitted,
     RecheckHead, ResolveAnswer, Stop, Travelling, LandTransaction,
     RefuseTransaction, LoseTransaction, ReadCurrentHead, ReadCurrentRow, Tick
<1>2. SweepTypeOK' /\ UNCHANGED <<cursor, owed, sweep>>
  BY DEF SweepInv, SweepTypeOK, sweepVars
<1>3. OwedInv' /\ \A w \in Settler : Tracks(w)'
  BY <1>1, <1>2, OwedInvKept, RestingTracks
<1> QED
  BY <1>2, <1>3 DEF SweepInv, OwedInv, Tracks, OwedExist, SweepTypeOK

\* One invocation moves and the others rest.
LEMMA OneMoves ==
  ASSUME LineInv, SweepInv, OwedExist, [Next]_vars, UNCHANGED <<cursor, owed>>,
         NEW w \in Settler, SweepTypeOK', Tracks(w)',
         \A x \in Settler \ {w} : sweep'[x] = sweep[x] /\ settling'[x] = settling[x]
  PROVE  SweepInv' /\ OwedExist'
<1>1. \A x \in Settler : Tracks(x)'
  BY RestingTracks
<1> QED
  BY <1>1, OwedInvKept DEF SweepInv, OwedInv, Tracks, OwedExist, SweepTypeOK

LEMMA AsleepTyped == Asleep \in SweepState
  BY PlaceAssumption DEF Asleep, SweepState

\* The invocation moves to a state of its type.
LEMMA MovesTyped ==
  ASSUME SweepTypeOK, UNCHANGED <<cursor, owed>>, NEW w \in Settler,
         NEW a \in SweepState, sweep' = [sweep EXCEPT ![w] = a]
  PROVE  /\ SweepTypeOK'
         /\ sweep'[w] = a
         /\ \A x \in Settler \ {w} : sweep'[x] = sweep[x]
  BY DEF SweepTypeOK

LEMMA ReadingKeeps ==
  ASSUME LineInv, SweepInv, OwedExist, [Next]_vars, NEW w \in Settler,
         ReadCheckpoint(w)
  PROVE  SweepInv' /\ OwedExist'
<1> DEFINE a == [Asleep EXCEPT !.stage = "started", !.from = cursor, !.fresh = TRUE]
<1>1. a \in SweepState /\ a.stage = "started" /\ a.from = cursor
  BY AsleepTyped, PlaceAssumption DEF SweepInv, SweepTypeOK, SweepState, Asleep
<1>2. /\ SweepTypeOK' /\ sweep'[w] = a
      /\ \A x \in Settler \ {w} : sweep'[x] = sweep[x]
  BY <1>1, MovesTyped DEF ReadCheckpoint, SweepInv
<1>3. UNCHANGED <<settling, cursor, owed>> /\ settling[w] = None
  BY DEF ReadCheckpoint, SweepInv, vars
<1>4. Tracks(w)'
  BY <1>1, <1>2, <1>3 DEF Tracks
<1> QED
  BY <1>2, <1>3, <1>4, OneMoves

LEMMA ScanningKeeps ==
  ASSUME LineInv, SweepInv, OwedExist, [Next]_vars, NEW w \in Settler,
         NEW to \in 0..TableEnd, NEW last \in BOOLEAN, ScanPage(w, to, last)
  PROVE  SweepInv' /\ OwedExist'
<1> DEFINE a == [sweep[w] EXCEPT !.stage = "page", !.to = to, !.last = last,
                                 !.rows = PendingBetween(sweep[w].from, to)]
<1>1. sweep[w] \in SweepState /\ sweep[w].stage = "started"
  BY DEF SweepInv, SweepTypeOK, ScanPage
<1>2. /\ a \in SweepState /\ a.to = to /\ a.fresh = sweep[w].fresh
      /\ a.rows = PendingBetween(sweep[w].from, to) /\ a.from = sweep[w].from
  BY <1>1 DEF SweepState, PendingBetween
<1>3. sweep' = [sweep EXCEPT ![w] = a]
  BY DEF ScanPage, SweepInv, SweepTypeOK
<1>4. /\ SweepTypeOK' /\ sweep'[w] = a
      /\ \A x \in Settler \ {w} : sweep'[x] = sweep[x]
  BY <1>2, <1>3, MovesTyped, ZenonT(40) DEF ScanPage, SweepInv
<1>5. UNCHANGED <<vars, settling, recovery, cursor, owed>> /\ settling[w] = None
  BY <1>1 DEF ScanPage, SweepInv, vars
<1>6. ASSUME a.fresh, NEW r \in owed \ a.rows, Place[r] <= to
      PROVE  ~Pending(r)
  <2>1. r \in Revision /\ sweep[w].from = cursor /\ cursor \in Nat /\ Place[r] \in Nat
    BY <1>1, <1>2, <1>6, PlaceAssumption DEF SweepInv, SweepTypeOK
  <2>2. CASE Place[r] <= cursor
    BY <2>2 DEF SweepInv
  <2>3. CASE cursor < Place[r]
    BY <1>2, <1>6, <2>1, <2>3 DEF PendingBetween
  <2> QED
    BY <2>1, <2>2, <2>3
<1>7. Tracks(w)'
  <2>1. a.fresh => a.from = cursor
    BY <1>1, <1>2 DEF SweepInv
  <2>2. \A r : Pending(r)' <=> Pending(r)
    BY <1>5 DEF Pending, RecoveryIs
  <2>3. owed' = owed /\ cursor' = cursor /\ settling'[w] = None
    BY <1>5
  <2> HIDE DEF a
  <2> QED
    BY <1>2, <1>4, <1>6, <2>1, <2>2, <2>3 DEF Tracks
<1> QED
  BY <1>4, <1>5, <1>7, OneMoves

LEMMA TakingKeeps ==
  ASSUME LineInv, SweepInv, OwedExist, [Next]_vars, NEW w \in Settler,
         NEW r \in Revision, TakeRow(w, r)
  PROVE  SweepInv' /\ OwedExist'
<1>1. /\ UNCHANGED <<cursor, owed, sweep, recovery>>
      /\ settling' = [settling EXCEPT ![w] = r]
      /\ sweep[w].stage = "page" /\ r \in sweep[w].rows
  BY DEF TakeRow, SettleRead, IsNext, sweepVars
<1>2. SweepTypeOK' /\ settling \in [Settler -> Base]
  BY <1>1 DEF SweepInv, SweepTypeOK, LineInv, TypeOK
<1>3. settling'[w] = r /\ \A x \in Settler \ {w} : settling'[x] = settling[x]
  BY <1>1, <1>2
<1>4. Tracks(w)'
  BY <1>1, <1>3 DEF SweepInv, Tracks, Pending, RecoveryIs
<1> QED
  BY <1>1, <1>2, <1>3, <1>4, OneMoves

\* The row an invocation has dealt with is not pending.
LEMMA HandledKeeps ==
  ASSUME LineInv, SweepInv, OwedExist, [Next]_vars, NEW w \in Settler,
         NEW r, Handled(w, r), UNCHANGED <<cursor, owed>>,
         settling'[w] = None, r \in owed => ~Pending(r)',
         \A x \in Settler \ {w} : settling'[x] = settling[x]
  PROVE  SweepInv' /\ OwedExist'
<1> DEFINE a == [sweep[w] EXCEPT !.rows = @ \ {r}]
<1>1. sweep[w] \in SweepState
  BY DEF SweepInv, SweepTypeOK
<1>2. /\ a \in SweepState /\ a.rows = sweep[w].rows \ {r} /\ a.to = sweep[w].to
      /\ a.stage = sweep[w].stage /\ a.fresh = sweep[w].fresh
      /\ a.from = sweep[w].from
  BY <1>1 DEF SweepState
<1>3. sweep' = [sweep EXCEPT ![w] = a]
  BY DEF Handled, SweepInv, SweepTypeOK
<1>4. /\ SweepTypeOK' /\ sweep'[w] = a
      /\ \A x \in Settler \ {w} : sweep'[x] = sweep[x]
  BY <1>2, <1>3, MovesTyped DEF SweepInv
<1>5. \A s \in owed : ~Pending(s) => ~Pending(s)'
  BY OwedStays
<1>6. Tracks(w)
  BY DEF SweepInv, Tracks
<1>7. Tracks(w)'
  <2> HIDE DEF a
  <2> QED
    BY <1>2, <1>4, <1>5, <1>6 DEF Tracks
<1> QED
  BY <1>4, <1>7, OneMoves

LEMMA SkippingKeeps ==
  ASSUME LineInv, SweepInv, OwedExist, [Next]_vars, NEW w \in Settler,
         NEW r \in Revision, SkipRow(w, r)
  PROVE  SweepInv' /\ OwedExist'
<1>1. UNCHANGED <<cursor, owed, recovery, settling>> /\ settling[w] = None
  BY DEF SkipRow, IsNext, vars
<1>2. r \in owed => ~Pending(r)'
  BY <1>1 DEF SkipRow, SweepInv, Pending, RecoveryIs
<1> QED
  BY <1>1, <1>2, HandledKeeps DEF SkipRow

\* A row the fencing transaction was sent for is settled, by it or before it.
LEMMA SettledNow ==
  ASSUME LineInv, NEW w \in Settler, SettleWrite(w), NEW r, r = settling[w]
  PROVE  /\ ~Pending(r)'
         /\ settling'[w] = None
         /\ \A x \in Settler \ {w} : settling'[x] = settling[x]
<1>1. /\ r \in Revision /\ settling \in [Settler -> Base]
      /\ recovery \in [Revision -> RecoveryRow \union {None}]
  BY DEF LineInv, TypeOK, SettleWrite, Base
<1>2. ~Pending(r)'
  <2>1. CASE committed[r] # None
    <3>1. ~RecoveryIs(r, {"pending"})
      BY <1>1, <2>1 DEF LineInv, RecoveryTellsTheTruth, Published, RecoveryIs
    <3> QED
      BY <3>1 DEF SettleWrite, Pending, RecoveryIs
  <2>2. CASE committed[r] = None /\ RecoveryIs(r, {"pending"})
    <3>1. recovery'[r].state = "not-published"
      BY <1>1, <2>2 DEF SettleWrite, RecoveryIs, RecoveryRow
    <3> QED
      BY <3>1 DEF Pending, RecoveryIs
  <2>3. CASE ~RecoveryIs(r, {"pending"})
    BY <2>3 DEF SettleWrite, Pending, RecoveryIs
  <2> QED
    BY <2>1, <2>2, <2>3
<1>3. settling'[w] = None /\ \A x \in Settler \ {w} : settling'[x] = settling[x]
  BY <1>1 DEF SettleWrite
<1> QED
  BY <1>2, <1>3

LEMMA SettlingKeeps ==
  ASSUME LineInv, SweepInv, OwedExist, [Next]_vars, NEW w \in Settler, SettleRow(w)
  PROVE  SweepInv' /\ OwedExist'
<1>1. PICK r : r = settling[w]
  OBVIOUS
<1>2. /\ ~Pending(r)' /\ settling'[w] = None
      /\ \A x \in Settler \ {w} : settling'[x] = settling[x]
  BY <1>1, SettledNow DEF SettleRow
<1>3. Handled(w, r) /\ UNCHANGED <<cursor, owed>>
  BY <1>1 DEF SettleRow
<1> QED
  BY <1>2, <1>3, HandledKeeps

LEMMA EndingKeeps ==
  ASSUME LineInv, SweepInv, OwedExist, [Next]_vars, NEW w \in Settler,
         SettleRowUnheard(w) \/ FailRow(w) \/ EndSweep(w)
  PROVE  SweepInv' /\ OwedExist'
<1>1. UNCHANGED <<cursor, owed>> /\ sweep' = [sweep EXCEPT ![w] = Asleep]
  BY DEF SettleRowUnheard, FailRow, EndSweep, Ends
<1>2. /\ SweepTypeOK' /\ sweep'[w] = Asleep
      /\ \A x \in Settler \ {w} : sweep'[x] = sweep[x]
  BY <1>1, AsleepTyped, MovesTyped DEF SweepInv
<1>3. settling'[w] = None /\ \A x \in Settler \ {w} : settling'[x] = settling[x]
  BY DEF SettleRowUnheard, SettleWrite, FailRow, SettleFail, EndSweep, vars, LineInv,
     TypeOK
<1> QED
  BY <1>1, <1>2, <1>3, EndedTracks, OneMoves

\* The whole page was dealt with, and only then the cursor moves behind it.
LEMMA FinishingKeeps ==
  ASSUME LineInv, SweepInv, OwedExist, NEW w \in Settler, FinishPage(w)
  PROVE  SweepInv' /\ OwedExist'
<1>1. /\ UNCHANGED <<vars, settling, recovery>> /\ settling[w] = None
      /\ sweep[w] \in SweepState /\ sweep[w].stage = "page" /\ sweep[w].fresh
      /\ sweep[w].rows = {}
  BY DEF FinishPage, PageIsDone, vars, SweepInv, SweepTypeOK
<1>2. \A r : Pending(r)' = Pending(r) /\ Settleable(r)' = Settleable(r)
  BY <1>1 DEF Pending, Settleable, RecoveryIs
<1>3. sweep' = [x \in Settler |->
        IF x = w THEN Asleep ELSE [sweep[x] EXCEPT !.fresh = FALSE]]
  BY DEF FinishPage, MoveCursor
<1>4. \A x \in Settler : /\ sweep'[x] \in SweepState
                         /\ ~sweep'[x].fresh
                         /\ x # w => /\ sweep'[x].stage = sweep[x].stage
                                     /\ sweep'[x].rows = sweep[x].rows
  BY <1>3, AsleepTyped DEF SweepInv, SweepTypeOK, SweepState, Asleep
<1>5. \A x \in Settler : Tracks(x)'
  BY <1>1, <1>4 DEF SweepInv, Tracks
<1>6. CASE sweep[w].last
  <2>1. cursor' = 0 /\ owed' = Due
    BY <1>6 DEF FinishPage, MoveCursor
  <2>2. SweepTypeOK'
    BY <1>3, <1>4, <2>1, PlaceAssumption DEF SweepTypeOK, Due
  <2>3. \A r \in Due : Settleable(r) /\ recovery'[r] # None /\ ~(Place[r] <= 0)
    BY <1>1, PlaceAssumption DEF Due, Settleable, RecoveryIs
  <2> QED
    BY <1>2, <1>5, <2>1, <2>2, <2>3 DEF SweepInv, Tracks, OwedExist, SweepTypeOK
<1>7. CASE ~sweep[w].last
  <2>1. cursor' = sweep[w].to /\ owed' = owed
    BY <1>7 DEF FinishPage, MoveCursor
  <2>2. SweepTypeOK'
    BY <1>1, <1>3, <1>4, <2>1 DEF SweepInv, SweepTypeOK, SweepState
  <2>3. \A r \in owed : Place[r] <= sweep[w].to => ~Pending(r)
    BY <1>1 DEF SweepInv
  <2>4. \A r \in owed : Pending(r) => Settleable(r)
    BY DEF SweepInv
  <2> QED
    BY <1>1, <1>2, <1>5, <2>1, <2>2, <2>3, <2>4
       DEF SweepInv, Tracks, OwedExist, SweepTypeOK
<1> QED
  BY <1>6, <1>7

LEMMA NextSweep ==
  LineInv /\ SweepInv /\ OwedExist /\ [SweepNext]_allSweepVars
    => LineInv' /\ SweepInv' /\ OwedExist'
<1> SUFFICES ASSUME LineInv, SweepInv, OwedExist, [SweepNext]_allSweepVars
             PROVE  LineInv' /\ SweepInv' /\ OwedExist'
  OBVIOUS
<1>1. [Next]_vars
  BY SweepSteps
<1>2. LineInv'
  BY <1>1, NextLineInv
<1>3. CASE (Clients \/ UNCHANGED vars) /\ UNCHANGED sweepVars
  BY <1>1, <1>2, <1>3, ClientsKeep
<1>4. ASSUME NEW w \in Settler, Sweeping(w) PROVE SweepInv' /\ OwedExist'
  BY <1>1, <1>4, ReadingKeeps, ScanningKeeps, TakingKeeps, SkippingKeeps,
     SettlingKeeps, EndingKeeps, FinishingKeeps DEF Sweeping, Scans, Handles
<1>5. \/ (Clients \/ UNCHANGED vars) /\ UNCHANGED sweepVars
      \/ \E w \in Settler : Sweeping(w)
  BY DEF SweepNext, allSweepVars
<1> QED
  BY <1>2, <1>3, <1>4, <1>5

\* The cursor is a position of the table and an invocation's page has rows of the store,
\* whatever overlaps and whatever answers are lost (worker.ts).
THEOREM SweepTypesHold == SweepSpec => []SweepTypeOK
<1>1. SweepInv => SweepTypeOK
  BY DEF SweepInv
<1> QED
  BY <1>1, InitSweep, NextSweep, PTL DEF SweepSpec

\* No sweep passes over a row that was due when it began, however many
\* invocations overlap, die or come late.
THEOREM SweepHolds == SweepSpec => []SweepIsWhole
<1>1. LineInv /\ SweepInv /\ OwedExist => SweepIsWhole
  BY DEF SweepInv, SweepIsWhole, PageIsDone
<1> QED
  BY <1>1, InitSweep, NextSweep, PTL DEF SweepSpec
===============================================================================
