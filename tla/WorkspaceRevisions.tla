-------------------------- MODULE WorkspaceRevisions --------------------------
(***************************************************************************)
(* The revision store of one workspace (lambda/workspace-revisions): rows  *)
(* of immutable prepared and committed revisions, one mutable HEAD, one    *)
(* outbox EVENT row per sequence number, one RECOVERY row per publication, *)
(* and the write-once manifests in S3.                                     *)
(*                                                                         *)
(* Publishers are concurrent invocations of WorkspaceRevisionService       *)
(* .publish; every await of the code is a step boundary.  The transaction  *)
(* that moves HEAD travels as a message: it may land after the invocation  *)
(* that sent it has given up, its answer may be lost, and the invocation   *)
(* may stop (crash, Lambda timeout, capability gate closed) between any    *)
(* two steps.  Settlers are invocations of the recovery worker.            *)
(***************************************************************************)
EXTENDS Naturals, FiniteSets

CONSTANTS
  Revision,     \* workspaceRevisionId values
  Digest,       \* sha256 values of prepared manifests
  Submissions,  \* the candidates clients prepare: [rev, expected, digest]
  Instant,      \* values of committedAt
  Publisher,    \* concurrent publish invocations
  Settler,      \* concurrent recovery invocations
  Reader,       \* clients that poll readCurrent
  SettleAge,    \* the 120 s after which a pending row may be settled, in ticks
  MaxInflight,  \* bound on transactions on their way at once
  None          \* an absent row

ASSUME ConstantsAssumption ==
  /\ None \notin Revision \union Instant \union Publisher \union {"cas", "ambiguous"}
  /\ SettleAge \in Nat
  /\ MaxInflight \in Nat
  /\ Submissions \subseteq
       [rev : Revision, expected : Revision \union {None}, digest : Digest]

VARIABLES
  prepared,   \* REVISION#<id>#PREPARED rows
  committed,  \* REVISION#<id>#COMMITTED rows
  head,       \* the HEAD row
  outbox,     \* the EVENT#<sequence> rows
  recovery,   \* the RECOVERY#<id> rows
  manifests,  \* committed manifests stored in S3, by pointer
  inflight,   \* publication transactions on their way to DynamoDB
  pub,        \* the local state of each publish invocation
  refused,    \* conflicts answered after an attempt, with its error (history)
  settling,   \* the row each recovery invocation has read
  reading,    \* the head each reader holds between its two reads
  seen        \* the sequence number each reader last resolved

rows == <<prepared, committed, head, outbox, recovery, manifests>>
store == <<committed, head, outbox>>
readers == <<reading, seen>>
vars == <<prepared, committed, head, outbox, recovery, manifests, inflight,
          pub, refused, settling, reading, seen>>

(***************************************************************************)
(* The records of types.ts, reduced to the fields the protocol reads.      *)
(***************************************************************************)
Base == Revision \union {None}

PreparedRow == [expected : Base, digest : Digest]

Pointer == [rev : Revision, sequence : Nat \ {0}, committedAt : Instant]

CommittedRow ==
  [expected : Base, digest : Digest, sequence : Nat \ {0}, manifest : Pointer]

HeadRow ==
  [rev : Revision, sequence : Nat \ {0}, digest : Digest, manifest : Pointer]

EventRow == [sequence : Nat \ {0}, rev : Revision]

RecoveryRow ==
  [state : {"pending", "committed", "not-published"},
   digest : Digest, age : 0..SettleAge]

\* The head an absent HEAD row stands for: genesis, sequence 0.
HeadRevision(h) == IF h = None THEN None ELSE h.rev
HeadSequence(h) == IF h = None THEN 0 ELSE h.sequence

\* An absent row is no row.
ASSUME NoneAssumption ==
  None \notin PreparedRow \union CommittedRow \union HeadRow \union RecoveryRow

\* The RECOVERY row of r exists, in one of these states.
RecoveryIs(r, states) == recovery[r] # None /\ recovery[r].state \in states

Transaction ==
  [rev : Revision, base : Base, baseSequence : Nat, row : CommittedRow,
   by : Publisher \union {None}]

\* Invocation states: waiting for work; prepared row read; not committed when
\* it looked; HEAD matched; committed manifest stored; recovery row pending;
\* transaction sent; transaction failed; still not committed; resolving the
\* committed revision for the answer.
Stage == {"idle", "loaded", "uncommitted", "based", "staged", "armed", "sent",
          "failed", "rechecked", "resolving"}

Invocation ==
  [stage : Stage, rev : Base, base : Base, baseSequence : Nat,
   committedAt : Instant \union {None}, cause : {"cas", "ambiguous", None}]

Idle == [stage |-> "idle", rev |-> None, base |-> None, baseSequence |-> 0,
         committedAt |-> None, cause |-> None]

TypeOK ==
  /\ prepared \in [Revision -> PreparedRow \union {None}]
  /\ committed \in [Revision -> CommittedRow \union {None}]
  /\ head \in HeadRow \union {None}
  /\ outbox \subseteq EventRow
  /\ recovery \in [Revision -> RecoveryRow \union {None}]
  /\ manifests \subseteq Pointer
  /\ inflight \subseteq Transaction
  /\ pub \in [Publisher -> Invocation]
  /\ refused \subseteq [rev : Revision, cause : {"cas", "ambiguous"}]
  /\ settling \in [Settler -> Base]
  /\ reading \in [Reader -> HeadRow \union {None}]
  /\ seen \in [Reader -> Nat]

Init ==
  /\ prepared = [r \in Revision |-> None]
  /\ committed = [r \in Revision |-> None]
  /\ head = None
  /\ outbox = {}
  /\ recovery = [r \in Revision |-> None]
  /\ manifests = {}
  /\ inflight = {}
  /\ pub = [p \in Publisher |-> Idle]
  /\ refused = {}
  /\ settling = [w \in Settler |-> None]
  /\ reading = [q \in Reader |-> None]
  /\ seen = [q \in Reader |-> 0]

\* A mutant: the row is overwritten.
PrepareAgain(s) ==
  /\ prepared' = [prepared EXCEPT ![s.rev] =
                    [expected |-> s.expected, digest |-> s.digest]]
  /\ UNCHANGED <<store, recovery, manifests, inflight, pub, refused, settling,
                 readers>>

(***************************************************************************)
(* WorkspaceRevisionService.prepare: the manifest is stored under its own  *)
(* hash, then the row is created once.  An equal row is "already-prepared" *)
(* and a different one an immutability error: neither writes.              *)
(***************************************************************************)
Prepare(s) ==
  /\ prepared[s.rev] = None
  /\ prepared' = [prepared EXCEPT ![s.rev] =
                    [expected |-> s.expected, digest |-> s.digest]]
  /\ UNCHANGED <<store, recovery, manifests, inflight, pub, refused, settling,
                 readers>>

(***************************************************************************)
(* WorkspaceRevisionService.publish.                                       *)
(***************************************************************************)
Becomes(p, invocation) == pub' = [pub EXCEPT ![p] = invocation]

Moves(p, stage) == Becomes(p, [pub[p] EXCEPT !.stage = stage])

\* The invocation answers its caller, with a result or an error.
Answers(p) == Becomes(p, Idle)

\* getPrepared; an unknown revision is answered "not found" at once.
BeginPublish(p, r) ==
  /\ pub[p].stage = "idle"
  /\ prepared[r] # None
  /\ Becomes(p, [pub[p] EXCEPT !.stage = "loaded", !.rev = r])
  /\ UNCHANGED <<rows, inflight, refused, settling, readers>>

\* getCommitted; a committed revision is answered "already-published".
CheckCommitted(p) ==
  /\ pub[p].stage = "loaded"
  /\ IF committed[pub[p].rev] # None
       THEN Moves(p, "resolving")
       ELSE Moves(p, "uncommitted")
  /\ UNCHANGED <<rows, inflight, refused, settling, readers>>

\* A mutant: the head is read and not compared.
ReadAnyHead(p) ==
  /\ pub[p].stage = "uncommitted"
  /\ Becomes(p, [pub[p] EXCEPT !.stage = "based",
                               !.base = HeadRevision(head),
                               !.baseSequence = HeadSequence(head)])
  /\ UNCHANGED <<rows, inflight, refused, settling, readers>>

\* getHead; a head other than the base the revision was prepared on is
\* answered WorkspaceHeadConflictError.
ReadHead(p) ==
  /\ pub[p].stage = "uncommitted"
  /\ IF HeadRevision(head) # prepared[pub[p].rev].expected
       THEN Answers(p)
       ELSE Becomes(p, [pub[p] EXCEPT !.stage = "based",
                                      !.base = HeadRevision(head),
                                      !.baseSequence = HeadSequence(head)])
  /\ UNCHANGED <<rows, inflight, refused, settling, readers>>

ManifestOf(p) ==
  [rev |-> pub[p].rev, sequence |-> pub[p].baseSequence + 1,
   committedAt |-> pub[p].committedAt]

\* A mutant: the manifest is left to be stored later.
StageNothing(p, t) ==
  /\ pub[p].stage = "based"
  /\ Becomes(p, [pub[p] EXCEPT !.stage = "staged", !.committedAt = t])
  /\ UNCHANGED <<rows, inflight, refused, settling, readers>>

\* manifests.put of the committed manifest
StageManifest(p, t) ==
  /\ pub[p].stage = "based"
  /\ Becomes(p, [pub[p] EXCEPT !.stage = "staged", !.committedAt = t])
  /\ manifests' = manifests \union {ManifestOf(p)'}
  /\ UNCHANGED <<prepared, store, recovery, inflight, refused, settling,
                 readers>>

Fails(p, cause) ==
  Becomes(p, [pub[p] EXCEPT !.stage = "failed", !.cause = cause])

\* A mutant: no RECOVERY row.
PutNothing(p) ==
  /\ pub[p].stage = "staged"
  /\ Moves(p, "armed")
  /\ UNCHANGED <<rows, inflight, refused, settling, readers>>

\* preparePublication: the RECOVERY row is created pending, or an existing one
\* must be pending for the same manifest.  Its age is never refreshed.  The
\* request may also fail, after it was written or before.
PutRecovery(p) ==
  LET r == pub[p].rev IN
  /\ pub[p].stage = "staged"
  /\ \/ /\ recovery[r] = None
        /\ recovery' = [recovery EXCEPT ![r] =
             [state |-> "pending", digest |-> prepared[r].digest, age |-> 0]]
        /\ Moves(p, "armed") \/ Fails(p, "ambiguous")
     \/ /\ recovery[r] # None
        /\ IF RecoveryIs(r, {"pending"}) /\ recovery[r].digest = prepared[r].digest
             THEN Moves(p, "armed")
             ELSE Fails(p, "cas")
        /\ UNCHANGED recovery
     \/ Fails(p, "ambiguous") /\ UNCHANGED recovery
  /\ UNCHANGED <<prepared, store, manifests, inflight, refused, settling,
                 readers>>

TransactionOf(p) ==
  [rev |-> pub[p].rev, base |-> pub[p].base,
   baseSequence |-> pub[p].baseSequence,
   row |-> [expected |-> prepared[pub[p].rev].expected,
            digest |-> prepared[pub[p].rev].digest,
            sequence |-> pub[p].baseSequence + 1,
            manifest |-> ManifestOf(p)],
   by |-> p]

SendTransaction(p) ==
  /\ pub[p].stage = "armed"
  /\ Cardinality(inflight) < MaxInflight
  /\ inflight' = inflight \union {TransactionOf(p)}
  /\ Moves(p, "sent")
  /\ UNCHANGED <<rows, refused, settling, readers>>

\* The conditions of the transaction, on the rows as they are when it lands.
HeadMatches(t) ==
  IF t.base = None
    THEN head = None
    ELSE /\ head # None
         /\ head.rev = t.base
         /\ head.sequence = t.baseSequence

\* Mutants: conditions dropped.
PublishableUnfenced(t) ==
  /\ \A e \in outbox : e.sequence # t.row.sequence
  /\ committed[t.rev] = None
  /\ HeadMatches(t)

PublishableBlindly(t) ==
  /\ prepared[t.rev] # None
  /\ prepared[t.rev].digest = t.row.digest

Publishable(t) ==
  /\ \A e \in outbox : e.sequence # t.row.sequence
  /\ RecoveryIs(t.rev, {"pending"})
  /\ recovery[t.rev].digest = t.row.digest
  /\ prepared[t.rev] # None
  /\ prepared[t.rev].digest = t.row.digest
  /\ committed[t.rev] = None
  /\ HeadMatches(t)

\* A mutant: no event.
ApplySilently(t) ==
  /\ committed' = [committed EXCEPT ![t.rev] = t.row]
  /\ head' = [rev |-> t.rev, sequence |-> t.row.sequence,
              digest |-> t.row.digest, manifest |-> t.row.manifest]
  /\ recovery' = [recovery EXCEPT ![t.rev].state = "committed"]
  /\ UNCHANGED outbox

\* Everything the transaction writes, in one step.
Apply(t) ==
  /\ committed' = [committed EXCEPT ![t.rev] = t.row]
  /\ head' = [rev |-> t.rev, sequence |-> t.row.sequence,
              digest |-> t.row.digest, manifest |-> t.row.manifest]
  /\ outbox' = outbox \union {[sequence |-> t.row.sequence, rev |-> t.rev]}
  /\ recovery' = [recovery EXCEPT ![t.rev].state = "committed"]

\* What the invocation that sent t (if it still waits) learns of its fate:
\* the true answer, or an error that says nothing.
Replies(t, stage, cause) ==
  IF t.by = None
    THEN UNCHANGED pub
    ELSE \/ Becomes(t.by, [pub[t.by] EXCEPT !.stage = stage, !.cause = cause])
         \/ Fails(t.by, "ambiguous")

LandTransaction(t) ==
  /\ Publishable(t)
  /\ Apply(t)
  /\ inflight' = inflight \ {t}
  /\ Replies(t, "resolving", None)
  /\ UNCHANGED <<prepared, manifests, refused, settling, readers>>

RefuseTransaction(t) ==
  /\ ~Publishable(t)
  /\ inflight' = inflight \ {t}
  /\ Replies(t, "failed", "cas")
  /\ UNCHANGED <<rows, refused, settling, readers>>

\* A mutant: a write conflict is taken for a failed condition.
LoseAsRefusal(t) ==
  /\ inflight' = inflight \ {t}
  /\ Replies(t, "failed", "cas")
  /\ UNCHANGED <<rows, refused, settling, readers>>

\* The request never reaches the table (throttled, reset, write conflict).
LoseTransaction(t) ==
  /\ inflight' = inflight \ {t}
  /\ Replies(t, "failed", "ambiguous")
  /\ UNCHANGED <<rows, refused, settling, readers>>

Orphaned(p) ==
  {IF t.by = p THEN [t EXCEPT !.by = None] ELSE t : t \in inflight}

\* The invocation stops waiting while its transaction is still on its way.
TimeOut(p) ==
  /\ pub[p].stage = "sent"
  /\ inflight' = Orphaned(p)
  /\ Fails(p, "ambiguous")
  /\ UNCHANGED <<rows, refused, settling, readers>>

\* After an error: getCommitted, where a committed revision is answered
\* "reconciled-after-ambiguous-result".  When that read fails too, the answer is
\* WorkspacePublicationOutcomeUnknownError.
RecheckCommitted(p) ==
  /\ pub[p].stage = "failed"
  /\ \/ IF committed[pub[p].rev] # None
          THEN Moves(p, "resolving")
          ELSE Moves(p, "rechecked")
     \/ Answers(p)
  /\ UNCHANGED <<rows, inflight, refused, settling, readers>>

\* Otherwise getHead decides between a conflict and an unknown outcome.
RecheckHead(p) ==
  /\ pub[p].stage = "rechecked"
  /\ \/ /\ \/ pub[p].cause = "cas"
           \/ HeadRevision(head) # prepared[pub[p].rev].expected
        /\ refused' = refused \union
             {[rev |-> pub[p].rev, cause |-> pub[p].cause]}
     \/ UNCHANGED refused
  /\ Answers(p)
  /\ UNCHANGED <<rows, inflight, settling, readers>>

\* resolveCommitted: the row, its manifest, and the head when it names the row.
Coherent(r, h) ==
  /\ committed[r].manifest \in manifests
  /\ (h # None /\ h.rev = r) =>
       /\ h.sequence = committed[r].sequence
       /\ h.digest = committed[r].digest
       /\ h.manifest = committed[r].manifest

\* assertPreparedBinding
Bound(r) ==
  /\ committed[r].digest = prepared[r].digest
  /\ committed[r].expected = prepared[r].expected

ResolveAnswer(p) ==
  /\ pub[p].stage = "resolving"
  /\ Bound(pub[p].rev)
  /\ Coherent(pub[p].rev, head)
  /\ Answers(p)
  /\ UNCHANGED <<rows, inflight, refused, settling, readers>>

\* The gate refuses, the Lambda times out or the process dies.
Stop(p) ==
  /\ pub[p].stage # "idle"
  /\ inflight' = Orphaned(p)
  /\ Becomes(p, Idle)
  /\ UNCHANGED <<rows, refused, settling, readers>>

(***************************************************************************)
(* WorkspaceRevisionService.readCurrent: HEAD first, its row afterwards.   *)
(***************************************************************************)
ReadCurrentHead(q) ==
  /\ reading[q] = None
  /\ head # None
  /\ reading' = [reading EXCEPT ![q] = head]
  /\ UNCHANGED <<rows, inflight, pub, refused, settling, seen>>

ReadCurrentRow(q) ==
  /\ reading[q] # None
  /\ committed[reading[q].rev] # None
  /\ Coherent(reading[q].rev, reading[q])
  /\ seen' = [seen EXCEPT ![q] = reading[q].sequence]
  /\ reading' = [reading EXCEPT ![q] = None]
  /\ UNCHANGED <<rows, inflight, pub, refused, settling>>

(***************************************************************************)
(* WorkspaceRecoveryService.settlePending, run by the recovery worker over *)
(* every pending row.                                                      *)
(***************************************************************************)
\* A mutant: one tick too many.
SettleableLater(r) == RecoveryIs(r, {"pending"}) /\ recovery[r].age > SettleAge

Settleable(r) == RecoveryIs(r, {"pending"}) /\ recovery[r].age >= SettleAge

SettleRead(w, r) ==
  /\ settling[w] = None
  /\ Settleable(r)
  /\ settling' = [settling EXCEPT ![w] = r]
  /\ UNCHANGED <<rows, inflight, pub, refused, readers>>

\* A mutant: what was read before is not checked again.
SettleBlindly(w) ==
  LET r == settling[w] IN
  /\ r # None
  /\ settling' = [settling EXCEPT ![w] = None]
  /\ recovery' = [recovery EXCEPT ![r].state = "not-published"]
  /\ UNCHANGED <<prepared, store, manifests, inflight, pub, refused, readers>>

\* The fencing transaction re-checks both rows; a refusal or a lost answer is
\* resolved by reading the row again, which changes nothing.
SettleWrite(w) ==
  LET r == settling[w] IN
  /\ r # None
  /\ settling' = [settling EXCEPT ![w] = None]
  /\ recovery' = IF committed[r] = None /\ RecoveryIs(r, {"pending"})
                   THEN [recovery EXCEPT ![r].state = "not-published"]
                   ELSE recovery
  /\ UNCHANGED <<prepared, store, manifests, inflight, pub, refused, readers>>

SettleFail(w) ==
  /\ settling[w] # None
  /\ settling' = [settling EXCEPT ![w] = None]
  /\ UNCHANGED <<rows, inflight, pub, refused, readers>>

\* Time passes for every pending row at once.
Ageing(r) == RecoveryIs(r, {"pending"}) /\ recovery[r].age < SettleAge

Tick ==
  /\ \E r \in Revision : Ageing(r)
  /\ recovery' = [r \in Revision |->
       IF Ageing(r) THEN [recovery[r] EXCEPT !.age = @ + 1] ELSE recovery[r]]
  /\ UNCHANGED <<prepared, store, manifests, inflight, pub, refused, settling,
                 readers>>

Publishing(p) ==
  \/ \E r \in Revision : BeginPublish(p, r)
  \/ CheckCommitted(p)
  \/ ReadHead(p)
  \/ \E t \in Instant : StageManifest(p, t)
  \/ PutRecovery(p)
  \/ SendTransaction(p)
  \/ TimeOut(p)
  \/ RecheckCommitted(p)
  \/ RecheckHead(p)
  \/ ResolveAnswer(p)
  \/ Stop(p)

Travelling(t) == LandTransaction(t) \/ RefuseTransaction(t) \/ LoseTransaction(t)

Settling(w) ==
  \/ \E r \in Revision : SettleRead(w, r)
  \/ SettleWrite(w)
  \/ SettleFail(w)

Next ==
  \/ \E s \in Submissions : Prepare(s)
  \/ \E p \in Publisher : Publishing(p)
  \/ \E t \in inflight : Travelling(t)
  \/ \E q \in Reader : ReadCurrentHead(q) \/ ReadCurrentRow(q)
  \/ \E w \in Settler : Settling(w)
  \/ Tick

Spec == Init /\ [][Next]_vars

(***************************************************************************)
(* EventBridge keeps invoking the recovery worker, and a transient failure *)
(* does not defeat every one of its invocations; time passes.  Publishers  *)
(* owe nothing: no invocation has to continue and no request to arrive.    *)
(***************************************************************************)
Fairness ==
  /\ WF_vars(Tick)
  /\ \A r \in Revision : SF_vars(\E w \in Settler : SettleRead(w, r))
  /\ \A w \in Settler : SF_vars(SettleWrite(w))

FairSpec == Spec /\ Fairness

(***************************************************************************)
(* Safety.                                                                 *)
(***************************************************************************)
Published == {r \in Revision : committed[r] # None}

\* No lost update: the published revisions form one line.  Each was prepared on
\* the revision that holds the sequence number before its own, no two hold the
\* same number, and HEAD names the last of them (the head CAS of
\* preparePublication).
OneLine ==
  /\ \A r, s \in Published :
       committed[r].sequence = committed[s].sequence => r = s
  /\ \A r \in Published :
       IF committed[r].expected = None
         THEN committed[r].sequence = 1
         ELSE /\ committed[r].expected \in Published
              /\ committed[committed[r].expected].sequence + 1
                   = committed[r].sequence
  /\ \A r \in Published :
       /\ head # None
       /\ committed[r].sequence <= head.sequence
       /\ committed[r].sequence = head.sequence => head.rev = r
  /\ head # None => head.rev \in Published

\* The outbox a projection reads is exactly the line: one event per sequence
\* number up to HEAD, each naming the revision committed at that number.
OutboxIsTheLine ==
  outbox = {[sequence |-> committed[r].sequence, rev |-> r] : r \in Published}

\* What recovery has declared is what happened: a revision recorded as not
\* published is not, and one recorded as committed is (recovery.ts, settlePending).
RecoveryTellsTheTruth ==
  \A r \in Revision :
    /\ RecoveryIs(r, {"not-published"}) => r \notin Published
    /\ RecoveryIs(r, {"committed"}) <=> r \in Published

\* A publication leaves a trace before it can happen: no transaction is on its
\* way without a RECOVERY row that outlives the invocation that sent it.
NothingUntracked == \A t \in inflight : recovery[t.rev] # None

\* A reader holding a head always finds the row and the manifest it names, and
\* they agree: readCurrent never fails because HEAD moved meanwhile.
ReadsAreWhole ==
  \A q \in Reader : reading[q] # None =>
    /\ committed[reading[q].rev] # None
    /\ Coherent(reading[q].rev, reading[q])

\* An invocation about to answer success is right, and meets no row that
\* contradicts another (WorkspaceRevisionImmutabilityError): the revision is
\* committed as it was prepared, and the head it reads agrees with the row.
AnswersAreTrue ==
  \A p \in Publisher : pub[p].stage = "resolving" =>
    LET r == pub[p].rev IN
    /\ r \in Published
    /\ Bound(r)
    /\ Coherent(r, head)

\* A conflict answered because the transaction was refused is final: the client
\* may rebase its work, because no transaction still on its way, of this
\* invocation or of another one, will publish the old revision after all.
RefusalIsFinal ==
  \A x \in refused : x.cause = "cas" => x.rev \notin Published

(***************************************************************************)
(* Why the line never forks: what every invocation and every transaction   *)
(* remembers of its base stays true of the rows.                           *)
(***************************************************************************)
\* b at sequence n is where the line began or a revision it went through.
BaseIsPublished(b, n) ==
  IF b = None THEN n = 0 ELSE b \in Published /\ committed[b].sequence = n

Based == {"based", "staged", "armed", "sent"}

KnowsItsBase(p) ==
  /\ pub[p].stage # "idle" => pub[p].rev # None /\ prepared[pub[p].rev] # None
  /\ pub[p].stage \in Based =>
       /\ pub[p].base = prepared[pub[p].rev].expected
       /\ BaseIsPublished(pub[p].base, pub[p].baseSequence)
  /\ pub[p].stage \in {"staged", "armed", "sent"} =>
       pub[p].committedAt # None /\ ManifestOf(p) \in manifests
  /\ pub[p].stage \in {"armed", "sent"} => recovery[pub[p].rev] # None
  /\ pub[p].stage \in {"failed", "rechecked"} => pub[p].cause # None

InvocationsKnowTheirBase == \A p \in Publisher : KnowsItsBase(p)

BelongsToTheLine(t) ==
  /\ prepared[t.rev] # None
  /\ recovery[t.rev] # None
  /\ t.base = prepared[t.rev].expected
  /\ t.row.expected = t.base
  /\ t.row.digest = prepared[t.rev].digest
  /\ t.row.sequence = t.baseSequence + 1
  /\ t.row.manifest \in manifests
  /\ BaseIsPublished(t.base, t.baseSequence)

TransactionsKnowTheirBase ==
  \A t \in inflight :
    /\ BelongsToTheLine(t)
    /\ t.by # None =>
         /\ pub[t.by].stage = "sent"
         /\ pub[t.by].rev = t.rev
         /\ \A u \in inflight : u.by = t.by => u = t

RowsAgree ==
  /\ \A r \in Published :
       /\ prepared[r] # None
       /\ Bound(r)
       /\ committed[r].manifest \in manifests
  /\ head # None =>
       /\ head.rev \in Published
       /\ Coherent(head.rev, head)

\* The base of r is behind HEAD: no transaction for r will find it again.
Superseded(r) ==
  /\ prepared[r] # None
  /\ head # None
  /\ prepared[r].expected # head.rev
  /\ prepared[r].expected \in Published \union {None}

\* r is not published and never will be.
Dead(r) ==
  /\ r \notin Published
  /\ RecoveryIs(r, {"not-published"}) \/ Superseded(r)

RecoveryKnowsItsRow ==
  \A r \in Revision : recovery[r] # None =>
    prepared[r] # None /\ recovery[r].digest = prepared[r].digest

\* What an invocation has concluded of its revision holds for good.
Concludes(p) ==
  /\ pub[p].stage = "resolving" => pub[p].rev \in Published
  /\ pub[p].stage = "failed" /\ pub[p].cause = "cas" =>
       pub[p].rev \in Published \/ Dead(pub[p].rev)
  /\ pub[p].stage = "rechecked" /\ pub[p].cause = "cas" => Dead(pub[p].rev)

RefusedAreDead == \A x \in refused : x.cause = "cas" => Dead(x.rev)

AnswersInv ==
  /\ RecoveryKnowsItsRow
  /\ \A p \in Publisher : Concludes(p)
  /\ RefusedAreDead
  /\ ReadsAreWhole

LineInv ==
  /\ TypeOK
  /\ InvocationsKnowTheirBase
  /\ TransactionsKnowTheirBase
  /\ RowsAgree
  /\ OneLine
  /\ OutboxIsTheLine
  /\ RecoveryTellsTheTruth

(***************************************************************************)
(* Action properties.                                                      *)
(***************************************************************************)
\* Rows the code calls immutable never change, HEAD advances one revision at a
\* time, and a settled RECOVERY row stays settled.
Immutable ==
  [][/\ \A r \in Revision :
          /\ prepared[r] # None => prepared'[r] = prepared[r]
          /\ committed[r] # None => committed'[r] = committed[r]
          /\ recovery[r] # None =>
               /\ recovery'[r] # None
               /\ recovery[r].state # "pending" =>
                    recovery'[r].state = recovery[r].state
     /\ HeadSequence(head') \in {HeadSequence(head), HeadSequence(head) + 1}
     /\ HeadSequence(head') = HeadSequence(head) => head' = head
    ]_vars

\* A client that polls readCurrent never sees the workspace go back.
ReadsAdvance == [][\A q \in Reader : seen'[q] >= seen[q]]_seen

(***************************************************************************)
(* Liveness.                                                               *)
(***************************************************************************)
\* No publication stays undecided: a pending row is eventually committed or
\* fenced, whatever happened to the invocation that wrote it.
PendingIsSettled ==
  \A r \in Revision :
    RecoveryIs(r, {"pending"}) ~> RecoveryIs(r, {"committed", "not-published"})

(***************************************************************************)
(* Refinement: the rows of the store are a history that only grows.        *)
(***************************************************************************)
History == INSTANCE WorkspaceHistory WITH
  length <- HeadSequence(head),
  position <- [r \in Revision |->
                 IF committed[r] = None THEN 0 ELSE committed[r].sequence],
  abandoned <- {r \in Revision :
                  RecoveryIs(r, {"not-published"})}

HistorySpec == History!HSpec
===============================================================================
