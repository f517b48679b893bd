------------------------ MODULE WorkspaceReplicaProofs ------------------------
(***************************************************************************)
(* Theorems about WorkspaceReplica, for every set of files and contents    *)
(* and every number of revisions and changes: what the user saved is not   *)
(* lost, a change is carried out once, an agent's work is never proposed   *)
(* as a person's, and a pass never puts an older revision in the place of  *)
(* a newer one.                                                            *)
(*                                                                         *)
(* The invariant is about the server (WorldKept), about either copy of the *)
(* replica's state, the one in memory and the one in the journal           *)
(* (CopyKept), about the running pass (PassKept, FoundKept, ReachKept) and *)
(* about the local files (DiskKept).                                       *)
(***************************************************************************)
EXTENDS WorkspaceReplica, Sequences, TLAPS

(***************************************************************************)
(* The invariant.                                                          *)
(***************************************************************************)
\* One of the first n revisions has content c in file p.
Reaches(p, c, n) == \E i \in 1..n : line[i][p] = c

\* Whatever a revision has was made by somebody, and by no agent.
LineKept == \A n \in 1..Newest, p \in Path : line[n][p] \in (made \ tainted) \union {None}

\* The same of what was proposed; what was carried out is in a revision.
IntentsKept ==
  \A k \in Id : intents[k] # None =>
    /\ k <= ids
    /\ \A c \in intents[k].changes :
         /\ c.root <= ids
         /\ c.content \in (made \ tainted) \union {None}
         /\ intents[k].state = "applied" /\ c.content # None =>
              Reaches(c.path, c.content, Newest)

Submitted(k) == IntentIs(k, {"pending", "applied"})

\* No two publications of one change were submitted, unless the first is over.
NoneTwice ==
  \A j, k \in Id : j # k /\ Submitted(j) /\ Submitted(k) =>
    \A x \in intents[j].changes, y \in intents[k].changes : x.root # y.root

WorldKept == LineKept /\ IntentsKept /\ NoneTwice

Numbered(x) == x.id <= ids /\ x.root <= ids /\ x.key <= ids

\* An agent's work is an agent's change, which is never pending or submitted; what is
\* has a base.
Owned(x) ==
  /\ x.content \in made \union {None}
  /\ x.content \in tainted => x.origin = "agent"
  /\ x.origin = "agent" => x.content # None
  /\ x.status = "pending" \/ x.key # 0 => x.origin = "human" /\ x.baseRev # 0

ChangeOf(x) == [root |-> x.root, path |-> x.path, content |-> x.content, base |-> x.base]

\* A change with a key is the one the server has under that key; a publication is
\* attempted after it was proposed, and answered after it was attempted.
Stands(x) ==
  /\ x.key = 0 => intents[x.id] = None
  /\ x.key # 0 /\ intents[x.key] # None => ChangeOf(x) \in intents[x.key].changes
  /\ x.proposed => x.key # 0 /\ intents[x.key] # None
  /\ x.attempted => x.proposed
  /\ x.outcome # "none" => x.attempted
  /\ x.outcome \in {"retired", "refused", "applied"} => intents[x.key].state = x.outcome

ItemKept(x) == Numbered(x) /\ Owned(x) /\ Stands(x)

Distinct(m) ==
  \A x, y \in m.pending :
    /\ x.id = y.id => x = y
    /\ x.root = y.root => x = y
    /\ x.key = 0 => y.key # x.id

\* A batch is proposed and attempted as a whole.
Together(m) ==
  \A x, y \in m.pending :
    /\ x.key = y.key /\ x.proposed => y.proposed
    /\ x.key = y.key /\ x.attempted => y.attempted

\* While an intent may be carried out, each of its changes is still in its batch.
Whole(m) ==
  \A x \in m.pending :
    x.proposed /\ IntentIs(x.key, {"ready", "pending"}) =>
      \A c \in intents[x.key].changes :
        \E y \in m.pending : y.key = x.key /\ ChangeOf(y) = c

\* The changes of a submitted intent wait for its answer.
Waits(m) ==
  \A k \in Id : Submitted(k) =>
    \A c \in intents[k].changes, x \in m.pending : x.root = c.root => x.key = k /\ x.attempted

\* A file with an agent's work has an agent's change.
AgentKept(m) ==
  \A p \in Path : disk[p] \in tainted => \E x \in m.pending : x.path = p /\ x.origin = "agent"

ListedKept(m) == m.listed <= Newest /\ (m.rev # 0 => m.listed # 0)

BatchesKept(m) == (\A x \in m.pending : ItemKept(x)) /\ Distinct(m) /\ Together(m) /\ Whole(m) /\ Waits(m)

CopyKept(m) == BatchesKept(m) /\ AgentKept(m) /\ ListedKept(m)

\* What the replica knows of a file is in one of the first n revisions; the same of
\* what it knows to be published.
FilesReach(m, n) ==
  \A p \in Path : m.files[p] # None /\ m.files[p].local # None =>
                    Reaches(p, m.files[p].local, n)

AnswersReach(m, n) ==
  \A x \in m.pending : x.outcome = "applied" /\ x.content # None =>
                         Reaches(x.path, x.content, n)

\* How far: up to the revision the pass is about, once it is settled which one.
Answering == sync.stage = "recover" /\ ~sync.moved
Comparing == sync.stage \in {"reconcile", "download", "write", "trash"}

ReachKept ==
  /\ FilesReach(mem, Newest) /\ FilesReach(journal, Newest)
  /\ AnswersReach(mem, Newest) /\ AnswersReach(journal, Newest)
  /\ Answering => FilesReach(mem, sync.rev) /\ AnswersReach(mem, sync.rev)
  /\ Comparing => FilesReach(mem, sync.rev)

Recovering ==
  sync.stage = "recover" \/ (sync.stage \in {"attempt", "submit"} /\ sync.back # "propose")

\* The loops are over changes of the journal.
IdsKept ==
  /\ \A i \in sync.ids : \E x \in mem.pending : x.id = i
  /\ Recovering => \A x \in mem.pending : x.id \in sync.ids => x.proposed
  /\ sync.stage = "settle" => \A x \in mem.pending : x.id \in sync.ids => x.outcome = "retired"

RevKept ==
  /\ sync.rev <= Newest
  /\ Recovering \/ Comparing \/ sync.stage = "settle" => sync.rev # 0
  /\ Comparing => mem.listed # 0

\* What is submitted is a batch that was proposed; the journal has it.
SubmitKept ==
  /\ sync.stage = "recover" => sync.back = "rest"
  /\ sync.stage \in {"attempt", "submit"} =>
       /\ sync.back \in {"rest", "recover", "propose"}
       /\ sync.back # "propose" => sync.moved
       /\ \E x \in mem.pending : x.key = sync.key /\ x.proposed
  /\ sync.stage = "submit" => \A x \in mem.pending : x.key = sync.key => x.attempted
  /\ sync.stage = "dispatch" => \E x \in mem.pending : x.id = sync.key /\ x.key = sync.key
  /\ sync.stage \in {"propose", "dispatch", "submit"} => journal = mem

PassKept == IdsKept /\ RevKept /\ SubmitKept

\* Some revision or proposal has content c.
Public(c) ==
  \/ \E n \in 1..Newest, p \in Path : line[n][p] = c
  \/ \E k \in Id : intents[k] # None /\ \E x \in intents[k].changes : x.content = c

\* The file that is downloaded or removed is as the replica knows it, until somebody
\* edits or deletes it.
FoundKept ==
  sync.stage \in {"download", "write", "trash"} =>
    LET p == sync.path IN
    /\ p \in Path
    /\ sync.stage # "trash" => line[sync.rev][p] # None
    /\ \A x \in mem.pending : x.path # p
    /\ sync.found # None => mem.files[p] # None /\ sync.found = mem.files[p].local
    /\ sync.stage # "download" /\ disk[p] \notin {sync.found, None} =>
         disk[p] \in raced /\ ~Public(disk[p])

\* What was saved last in p can be found, or is excepted, without the local file.
Spared(p) == latest[p] = None \/ latest[p] \in Stored \/ latest[p] \in raced

DiskKept ==
  /\ tainted \subseteq made /\ raced \subseteq made
  /\ \A p \in Path : disk[p] \in made \union {None}
  /\ \A p \in removing : Spared(p)
  /\ EditsAreKept

ReplicaInv ==
  /\ ReplicaTypeOK /\ WorldKept /\ CopyKept(mem) /\ CopyKept(journal)
  /\ PassKept /\ FoundKept /\ ReachKept /\ DiskKept

(***************************************************************************)
(* Types.                                                                  *)
(***************************************************************************)
ServerTyped ==
  /\ line \in Seq([Path -> Image]) /\ Len(line) \in Rev
  /\ intents \in [Id -> Intent \union {None}]

LocalTyped ==
  /\ disk \in [Path -> Image] /\ removing \subseteq Path
  /\ ids \in 0..MaxId
  /\ made \subseteq Content /\ tainted \subseteq Content /\ raced \subseteq Content
  /\ latest \in [Path -> Image]

LEMMA ReplicaTypeParts ==
  ReplicaTypeOK <=>
    ServerTyped /\ LocalTyped /\ mem \in Replica /\ journal \in Replica /\ sync \in Pass
  BY DEF ReplicaTypeOK, ServerTyped, LocalTyped

LEMMA ReplicaTypeNext ==
  (ServerTyped /\ LocalTyped /\ mem \in Replica /\ journal \in Replica /\ sync \in Pass)'
    => ReplicaTypeOK'
  BY DEF ReplicaTypeOK, ServerTyped, LocalTyped

LEMMA NoneTyped ==
  /\ None \notin Content /\ None \notin FileRow /\ None \notin Intent
  /\ MaxRevision \in Nat /\ MaxRevision > 0 /\ MaxId \in Nat
  BY ReplicaAssumption

LEMMA LineTyped ==
  ASSUME ServerTyped
  PROVE  /\ Newest \in Nat /\ Newest > 0 /\ Newest <= MaxRevision
         /\ \A n \in 1..Newest : line[n] \in [Path -> Image]
         /\ \A n \in 1..Newest, p \in Path : line[n][p] \in Image
<1>1. Newest \in Nat /\ Newest > 0 /\ Newest <= MaxRevision
  BY NoneTyped DEF ServerTyped, Newest, Rev
<1>2. \A n \in 1..Newest : line[n] \in [Path -> Image]
  BY <1>1 DEF ServerTyped, Newest
<1>3. QED
  BY <1>1, <1>2

LEMMA ItemTyped ==
  ASSUME NEW x \in Item
  PROVE  /\ x.id \in Nat /\ x.id \in Id /\ x.root \in Nat /\ x.root \in Id
         /\ x.key \in Nat /\ (x.key # 0 => x.key \in Id)
         /\ x.path \in Path /\ x.content \in Image /\ x.base \in Image
         /\ x.baseRev \in Rev \union {0}
         /\ x.proposed \in BOOLEAN /\ x.attempted \in BOOLEAN
         /\ x.origin \in {"human", "agent", "unknown"}
         /\ x.status \in {"pending", "publishing", "review", "conflict", "held"}
         /\ x.outcome \in {"none", "open", "applied", "retired", "refused"}
  BY NoneTyped DEF Item, Id

LEMMA CopyTyped ==
  ASSUME NEW m \in Replica
  PROVE  /\ m.pending \subseteq Item
         /\ m.files \in [Path -> FileRow \union {None}]
         /\ m.rev \in Rev \union {0} /\ m.listed \in Rev \union {0}
         /\ m.rev \in Nat /\ m.listed \in Nat
  BY NoneTyped DEF Replica, Rev

LEMMA PassTyped ==
  ASSUME NEW s \in Pass
  PROVE  /\ s.stage \in Stages /\ s.back \in Stages
         /\ s.rev \in Rev \union {0} /\ s.rev \in Nat
         /\ s.ids \subseteq Id /\ s.paths \subseteq Path
         /\ s.key \in Id \union {0} /\ s.moved \in BOOLEAN
         /\ s.path \in Path \union {None} /\ s.found \in Image
  BY NoneTyped DEF Pass, Rev

LEMMA SwapTyped ==
  ASSUME NEW m \in Replica, NEW old, NEW new \in SUBSET Item
  PROVE  /\ Swap(m, old, new) \in Replica
         /\ Swap(m, old, new).pending = (m.pending \ old) \union new
         /\ Swap(m, old, new).files = m.files
         /\ Swap(m, old, new).rev = m.rev /\ Swap(m, old, new).listed = m.listed
  BY DEF Swap, Replica

LEMMA AtRestTyped ==
  /\ AtRest \in Pass /\ AtRest.stage = "rest" /\ AtRest.ids = {} /\ AtRest.rev = 0
  /\ AtRest.back = "rest" /\ AtRest.key = 0 /\ AtRest.moved = FALSE
  BY DEF AtRest, Pass, Stages, Image

LEMMA RestKeeps ==
  ASSUME sync' = AtRest, Newest' \in Nat
  PROVE  PassKept' /\ FoundKept' /\ ~Answering' /\ ~Comparing'
  BY AtRestTyped DEF PassKept, IdsKept, RevKept, SubmitKept, FoundKept, Answering, Comparing,
     Recovering

\* The intent under a key that a change was proposed with.
LEMMA IntentTyped ==
  ASSUME ServerTyped, NEW k \in Id, intents[k] # None
  PROVE  /\ intents[k] \in Intent
         /\ intents[k].state \in {"ready", "pending", "applied", "retired", "refused"}
         /\ intents[k].changes \subseteq Change
         /\ \A c \in intents[k].changes :
              c.root \in Id /\ c.root \in Nat /\ c.path \in Path /\ c.content \in Image
  BY NoneTyped DEF ServerTyped, Intent, Change, Id

(***************************************************************************)
(* Changes of the journal, in memory.                                      *)
(***************************************************************************)
SameChange(x, y) ==
  /\ y.id = x.id /\ y.root = x.root /\ y.path = x.path /\ y.content = x.content
  /\ y.base = x.base /\ y.baseRev = x.baseRev /\ y.origin = x.origin /\ y.key = x.key

LEMMA SameItem ==
  ASSUME NEW x \in Item, NEW y \in Item, SameChange(x, y)
  PROVE  ChangeOf(y) = ChangeOf(x)
  BY DEF SameChange, ChangeOf

\* What a change of one server is worth to a copy of the replica's state is stated
\* first, for a copy that does not change (the lemmas named ...Stay); what a change
\* of the copy is worth then, for a server that does not (those named ...Kept).
Matched(m, k) ==
  \A c \in intents[k].changes : \E y \in m.pending : y.key = k /\ ChangeOf(y) = c

\* The pending changes of m2 are those of m, some of them further on.
LEMMA RenewedKept ==
  ASSUME NEW m \in Replica, NEW m2 \in Replica, BatchesKept(m)', ServerTyped',
         NEW f \in [m.pending -> Item], m2.pending = {f[x] : x \in m.pending},
         \A x \in m.pending : /\ SameChange(x, f[x]) /\ ItemKept(f[x])'
                              /\ f[x].proposed => x.proposed \/ Matched(m, x.key)'
                              /\ x.attempted => f[x].attempted,
         \A x, y \in m.pending : x.key = y.key =>
           /\ f[x].proposed => f[y].proposed
           /\ f[x].attempted => f[y].attempted
  PROVE  BatchesKept(m2)' /\ (AgentKept(m)' => AgentKept(m2)')
<1> USE DEF BatchesKept
<1>1. \A x \in m.pending : f[x] \in Item /\ x \in Item
  BY CopyTyped
<1>2. \A y \in m2.pending : ItemKept(y)'
  OBVIOUS
<1>3. Distinct(m2)'
  BY DEF Distinct, SameChange
<1>4. Together(m2)'
  BY DEF Together, SameChange
<1>5. Whole(m2)'
  <2> SUFFICES ASSUME NEW z \in m2.pending, z.proposed, IntentIs(z.key, {"ready", "pending"})',
                      NEW c \in intents'[z.key].changes
               PROVE  \E y \in m2.pending : y.key = z.key /\ ChangeOf(y) = c
    BY DEF Whole
  <2>0. PICK x \in m.pending : z = f[x]
    OBVIOUS
  <2>1. f[x].key = x.key /\ (x.proposed \/ Matched(m, x.key)')
    BY <2>0 DEF SameChange
  <2>2. PICK y \in m.pending : y.key = x.key /\ ChangeOf(y) = c
    BY <2>0, <2>1 DEF Whole, Matched
  <2>3. f[y] \in m2.pending /\ f[y].key = f[x].key /\ ChangeOf(f[y]) = c
    BY <1>1, <2>1, <2>2, SameItem DEF SameChange
  <2>4. QED
    BY <2>0, <2>3
<1>6. Waits(m2)'
  BY DEF Waits, SameChange
<1>7. AgentKept(m)' => AgentKept(m2)'
  BY DEF AgentKept, SameChange
<1>8. QED
  BY <1>2, <1>3, <1>4, <1>5, <1>6, <1>7

\* One change is marked with another status.
LEMMA MarkedItem ==
  ASSUME NEW x \in Item, NEW s \in {"pending", "publishing", "review", "conflict", "held"}
  PROVE  /\ [x EXCEPT !.status = s] \in Item
         /\ SameChange(x, [x EXCEPT !.status = s])
         /\ [x EXCEPT !.status = s].status = s
         /\ [x EXCEPT !.status = s].proposed = x.proposed
         /\ [x EXCEPT !.status = s].attempted = x.attempted
         /\ [x EXCEPT !.status = s].outcome = x.outcome
  BY DEF Item, SameChange

LEMMA MarkedKept ==
  ASSUME NEW m \in Replica, NEW m2 \in Replica, CopyKept(m)', ServerTyped',
         NEW x \in m.pending, NEW y \in Item, SameChange(x, y), y.status # "pending",
         y.proposed = x.proposed, y.attempted = x.attempted, y.outcome = x.outcome,
         m2.pending = (m.pending \ {x}) \union {y}, m2.rev = m.rev, m2.listed = m.listed
  PROVE  CopyKept(m2)'
<1> DEFINE f == [z \in m.pending |-> IF z = x THEN y ELSE z]
<1>1. x \in Item /\ m.pending \subseteq Item
  BY CopyTyped
<1>4. f \in [m.pending -> Item] /\ m2.pending = {f[z] : z \in m.pending}
  BY <1>1
<1>5. \A z \in m.pending : f[z] = IF z = x THEN y ELSE z
  OBVIOUS
<1> HIDE DEF f
<1>6. ItemKept(x)' /\ \A z \in m.pending : ItemKept(z)'
  BY DEF CopyKept, BatchesKept
<1>7. ItemKept(y)'
  <2>1. Numbered(y)' /\ Owned(y)'
    BY <1>6 DEF ItemKept, Numbered, Owned, SameChange
  <2>2. Stands(y)'
    BY <1>1, <1>6, SameItem DEF ItemKept, Stands, SameChange
  <2>3. QED
    BY <2>1, <2>2 DEF ItemKept
<1>8. \A z \in m.pending : /\ SameChange(z, f[z]) /\ ItemKept(f[z])'
                           /\ f[z].proposed = z.proposed /\ f[z].attempted = z.attempted
  BY <1>5, <1>6, <1>7 DEF SameChange
<1>9. \A z, w \in m.pending : z.key = w.key =>
        (f[z].proposed => f[w].proposed) /\ (f[z].attempted => f[w].attempted)
  BY <1>8 DEF CopyKept, BatchesKept, Together
<1>10. BatchesKept(m2)' /\ AgentKept(m2)'
  BY <1>4, <1>8, <1>9, RenewedKept DEF CopyKept
<1>11. CopyKept(m2)'
  BY <1>10 DEF CopyKept, ListedKept
<1>12. QED
  BY <1>11

\* A batch goes on together.
Advances(m, x, y) ==
  /\ SameChange(x, y) /\ ItemKept(y)'
  /\ y.proposed => x.proposed \/ Matched(m, x.key)'
  /\ x.attempted => y.attempted

\* m2 is m with B, the batch under key k, rewritten to new by g.
Rewrites(m, m2, k, B, g, new) ==
  /\ B \subseteq m.pending /\ \A x \in m.pending : x \in B <=> x.key = k
  /\ g \in [B -> Item] /\ \A x \in B : Advances(m, x, g[x])
  /\ \A x, y \in B : /\ g[x].proposed => g[y].proposed
                     /\ g[x].attempted => g[y].attempted
  /\ \A z : z \in new <=> \E x \in B : z = g[x]
  /\ m2.pending = (m.pending \ B) \union new /\ m2.rev = m.rev /\ m2.listed = m.listed

LEMMA BatchKept ==
  ASSUME NEW m \in Replica, NEW m2 \in Replica, CopyKept(m)', ServerTyped',
         NEW k, NEW B, NEW g, NEW new, Rewrites(m, m2, k, B, g, new)
  PROVE  CopyKept(m2)'
<1>0. /\ B \subseteq m.pending /\ \A x \in m.pending : x \in B <=> x.key = k
      /\ g \in [B -> Item] /\ \A x \in B : Advances(m, x, g[x])
      /\ \A x, y \in B : /\ g[x].proposed => g[y].proposed
                         /\ g[x].attempted => g[y].attempted
      /\ \A z : z \in new <=> \E x \in B : z = g[x]
      /\ m2.pending = (m.pending \ B) \union new /\ m2.rev = m.rev /\ m2.listed = m.listed
  BY DEF Rewrites
<1> USE <1>0
<1> DEFINE f == [z \in m.pending |-> IF z \in B THEN g[z] ELSE z]
<1>1. m.pending \subseteq Item /\ B \subseteq m.pending /\ new \in SUBSET Item
  BY CopyTyped
<1>3. f \in [m.pending -> Item] /\ \A z \in m.pending : f[z] = IF z \in B THEN g[z] ELSE z
  BY <1>1
<1> HIDE DEF f
<1>4. m2.pending = {f[z] : z \in m.pending}
  BY <1>1, <1>3
<1>5. \A z \in m.pending : /\ SameChange(z, f[z]) /\ ItemKept(f[z])'
                           /\ f[z].proposed => z.proposed \/ Matched(m, z.key)'
                           /\ z.attempted => f[z].attempted
  <2> SUFFICES ASSUME NEW z \in m.pending
               PROVE  /\ SameChange(z, f[z]) /\ ItemKept(f[z])'
                      /\ f[z].proposed => z.proposed \/ Matched(m, z.key)'
                      /\ z.attempted => f[z].attempted
    OBVIOUS
  <2>1. CASE z \in B
    BY <1>3, <2>1 DEF Advances
  <2>2. CASE z \notin B
    BY <1>3, <2>2 DEF CopyKept, BatchesKept, SameChange
  <2>3. QED
    BY <2>1, <2>2
<1>6. \A z, w \in m.pending : z.key = w.key =>
        (f[z].proposed => f[w].proposed) /\ (f[z].attempted => f[w].attempted)
  <2> SUFFICES ASSUME NEW z \in m.pending, NEW w \in m.pending, z.key = w.key
               PROVE  (f[z].proposed => f[w].proposed) /\ (f[z].attempted => f[w].attempted)
    OBVIOUS
  <2>1. CASE z \in B
    BY <1>3, <2>1
  <2>2. CASE z \notin B
    BY <1>3, <2>2 DEF CopyKept, BatchesKept, Together
  <2>3. QED
    BY <2>1, <2>2
<1>7. BatchesKept(m2)' /\ AgentKept(m2)'
  BY <1>3, <1>4, <1>5, <1>6, RenewedKept DEF CopyKept
<1>8. QED
  BY <1>7 DEF CopyKept, ListedKept

\* A change can be replaced when what was proposed of it cannot be carried out.
Loose(x) == x.proposed => intents[x.key].state \in {"retired", "refused"}

\* The next id is nobody's.
LEMMA FreshId ==
  ASSUME ServerTyped, IntentsKept, ids \in Nat, ids' = ids + 1, ids' \in 0..MaxId,
         NEW m \in Replica, \A x \in m.pending : Numbered(x)
  PROVE  /\ ids' \in Id
         /\ \A x \in m.pending : x.id # ids' /\ x.key # ids' /\ x.root # ids'
         /\ intents[ids'] = None
         /\ \A k \in Id : intents[k] # None => \A c \in intents[k].changes : c.root # ids'
<1>1. ids' \in Id /\ ids' > ids
  BY NoneTyped DEF Id
<1>2. \A x \in m.pending : x.id \in Nat /\ x.key \in Nat /\ x.root \in Nat
  BY CopyTyped, ItemTyped
<1>3. \A k \in Id : intents[k] # None => \A c \in intents[k].changes : c.root \in Nat
  BY IntentTyped
<1>4. \A k \in Id : k \in Nat
  BY DEF Id
<1>5. QED
  BY <1>1, <1>2, <1>3, <1>4 DEF Numbered, IntentsKept

LEMMA AddedKept ==
  ASSUME NEW m \in Replica, BatchesKept(m)', ServerTyped', NEW old \in SUBSET m.pending,
         NEW y \in Item, ItemKept(y)', y.key = 0, ~y.proposed, ~y.attempted,
         \A x \in m.pending : x.id # y.id /\ x.key # y.id,
         \A x \in old : Loose(x)',
         \/ \E x \in old : y.root = x.root
         \/ /\ \A x \in m.pending : x.root # y.root
            /\ \A k \in Id : intents'[k] # None => \A c \in intents'[k].changes : c.root # y.root
  PROVE  LET m2 == Swap(m, old, {y})
         IN  /\ m2 \in Replica /\ BatchesKept(m2)'
             /\ m2.pending = (m.pending \ old) \union {y}
             /\ m2.files = m.files /\ m2.rev = m.rev /\ m2.listed = m.listed
             /\ (/\ AgentKept(m)'
                 /\ \A x \in old : x.origin = "agent" => y.origin = "agent" /\ y.path = x.path)
                => AgentKept(m2)'
<1> DEFINE m2 == Swap(m, old, {y})
<1> USE DEF BatchesKept
<1>1. m.pending \subseteq Item /\ y \in Item
  BY CopyTyped
<1>2. /\ m2 \in Replica /\ m2.pending = (m.pending \ old) \union {y}
      /\ m2.files = m.files /\ m2.rev = m.rev /\ m2.listed = m.listed
  BY <1>1, SwapTyped
<1> HIDE DEF m2
<1>3. \A x \in m2.pending : ItemKept(x)'
  BY <1>2
<1>4. \A x \in m.pending : x.id \in Id /\ x.id # 0
  BY <1>1, ItemTyped DEF Id
<1>5. y.id \in Id /\ y.id # 0
  BY <1>1, ItemTyped DEF Id
<1>6. \A x \in m.pending \ old : x.root # y.root
  BY DEF Distinct
<1>7. Distinct(m2)'
  BY <1>2, <1>4, <1>5, <1>6 DEF Distinct
<1>8. \A x \in m.pending : x.attempted => x.proposed
  BY DEF ItemKept, Stands
<1>9. \A x \in m.pending : x.proposed => x.key # 0
  BY DEF ItemKept, Stands
<1>10. Together(m2)'
  <2> SUFFICES ASSUME NEW z \in m2.pending, NEW w \in m2.pending, z.key = w.key
               PROVE  (z.proposed => w.proposed) /\ (z.attempted => w.attempted)
    BY DEF Together
  <2>1. CASE z \in m.pending /\ w \in m.pending
    BY <2>1 DEF Together
  <2>2. CASE z = y
    BY <2>2
  <2>3. CASE w = y /\ z \in m.pending
    BY <1>8, <1>9, <2>3
  <2>4. QED
    BY <1>2, <2>1, <2>2, <2>3
<1>11. Whole(m2)'
  <2> SUFFICES ASSUME NEW z \in m2.pending, z.proposed, IntentIs(z.key, {"ready", "pending"})',
                      NEW c \in intents'[z.key].changes
               PROVE  \E w \in m2.pending : w.key = z.key /\ ChangeOf(w) = c
    BY DEF Whole
  <2>1. z \in m.pending
    BY <1>2
  <2>2. PICK w \in m.pending : w.key = z.key /\ ChangeOf(w) = c
    BY <2>1 DEF Whole
  <2>3. w.proposed
    BY <2>1, <2>2 DEF Together
  <2>4. w \notin old
    BY <2>2, <2>3 DEF Loose, IntentIs
  <2>5. QED
    BY <1>2, <2>2, <2>4
<1>12. Waits(m2)'
  <2> SUFFICES ASSUME NEW k \in Id, Submitted(k)', NEW c \in intents'[k].changes,
                      NEW x \in m2.pending, x.root = c.root
               PROVE  x.key = k /\ x.attempted
    BY DEF Waits
  <2>1. CASE x \in m.pending
    BY <2>1 DEF Waits
  <2>2. CASE x = y
    <3>1. intents'[k] # None
      BY DEF Submitted, IntentIs
    <3>2. PICK z \in old : y.root = z.root
      BY <2>2, <3>1
    <3>3. z.key = k /\ z.attempted
      BY <2>2, <3>2 DEF Waits
    <3>4. intents'[k].state \in {"retired", "refused"}
      BY <1>8, <3>3 DEF Loose
    <3>5. QED
      BY <3>4 DEF Submitted, IntentIs
  <2>3. QED
    BY <1>2, <2>1, <2>2
<1>13. (/\ AgentKept(m)'
        /\ \A x \in old : x.origin = "agent" => y.origin = "agent" /\ y.path = x.path)
       => AgentKept(m2)'
  BY <1>2 DEF AgentKept
<1>14. QED
  BY <1>2, <1>3, <1>7, <1>10, <1>11, <1>12, <1>13 DEF m2

\* A change that was carried out leaves the journal.
LEMMA RemovedKept ==
  ASSUME NEW m \in Replica, NEW m2 \in Replica, CopyKept(m)', NEW x \in m.pending,
         m2.pending = m.pending \ {x}, m2.rev = m.rev, m2.listed = m.listed,
         x.outcome = "applied"
  PROVE  CopyKept(m2)'
<1> USE DEF CopyKept, BatchesKept
<1>1. x.attempted /\ x.proposed /\ intents'[x.key].state = "applied" /\ x.key # 0
  BY DEF ItemKept, Stands
<1>2. x.origin = "human"
  BY <1>1 DEF ItemKept, Owned
<1>3. Whole(m2)'
  <2> SUFFICES ASSUME NEW z \in m2.pending, z.proposed, IntentIs(z.key, {"ready", "pending"})',
                      NEW c \in intents'[z.key].changes
               PROVE  \E w \in m2.pending : w.key = z.key /\ ChangeOf(w) = c
    BY DEF Whole
  <2>1. PICK w \in m.pending : w.key = z.key /\ ChangeOf(w) = c
    BY DEF Whole
  <2>2. w # x
    BY <1>1, <2>1 DEF IntentIs
  <2>3. QED
    BY <2>1, <2>2
<1>4. (\A z \in m2.pending : ItemKept(z)') /\ Distinct(m2)' /\ Together(m2)' /\ Waits(m2)'
  BY DEF Distinct, Together, Waits
<1>5. AgentKept(m2)'
  BY <1>2 DEF AgentKept
<1>6. ListedKept(m2)'
  BY DEF ListedKept
<1>7. QED
  BY <1>3, <1>4, <1>5, <1>6

\* Changes that were not submitted get their key, that of the change which leads.
LEMMA KeyedItem ==
  ASSUME NEW y \in Item, NEW k \in Id
  PROVE  LET z == [y EXCEPT !.key = k]
         IN  /\ z \in Item /\ z.key = k /\ z.id = y.id /\ z.root = y.root /\ z.path = y.path
             /\ z.content = y.content /\ z.base = y.base /\ z.origin = y.origin
             /\ z.baseRev = y.baseRev /\ z.status = y.status /\ z.proposed = y.proposed
             /\ z.attempted = y.attempted /\ z.outcome = y.outcome
  BY DEF Item

LEMMA KeyedKept ==
  ASSUME NEW m \in Replica, NEW m2 \in Replica, CopyKept(m)', ServerTyped', NEW x \in m.pending,
         NEW B \in SUBSET m.pending, x \in B, NEW new,
         \A y \in B : y.key = 0 /\ y.status = "pending",
         \A z : z \in new <=> \E y \in B : z = [y EXCEPT !.key = x.id], x.id <= ids',
         m2.pending = (m.pending \ B) \union new, m2.rev = m.rev, m2.listed = m.listed
  PROVE  CopyKept(m2)'
<1> DEFINE g == [y \in B |-> [y EXCEPT !.key = x.id]]
<1> USE DEF CopyKept, BatchesKept
<1>1. m.pending \subseteq Item /\ x.id \in Id /\ x.id # 0
  BY CopyTyped, ItemTyped DEF Id
<1>2. \A y \in B : /\ g[y] \in Item /\ g[y].key = x.id /\ g[y].id = y.id /\ g[y].root = y.root
                   /\ g[y].path = y.path /\ g[y].content = y.content /\ g[y].base = y.base
                   /\ g[y].baseRev = y.baseRev /\ g[y].origin = y.origin /\ g[y].status = y.status
                   /\ g[y].proposed = y.proposed /\ g[y].attempted = y.attempted
                   /\ g[y].outcome = y.outcome
  <2> SUFFICES ASSUME NEW y \in B
               PROVE  LET z == g[y]
                      IN  /\ z \in Item /\ z.key = x.id /\ z.id = y.id /\ z.root = y.root
                          /\ z.path = y.path /\ z.content = y.content /\ z.base = y.base
                          /\ z.baseRev = y.baseRev /\ z.origin = y.origin /\ z.status = y.status
                          /\ z.proposed = y.proposed /\ z.attempted = y.attempted
                          /\ z.outcome = y.outcome
    BY Zenon
  <2>1. g[y] = [y EXCEPT !.key = x.id] /\ y \in Item
    BY <1>1
  <2> HIDE DEF g
  <2>2. QED
    BY <1>1, <2>1, KeyedItem
<1>3. \A z : z \in new <=> \E y \in B : z = g[y]
  OBVIOUS
<1> HIDE DEF g
<1>5. intents'[x.id] = None /\ \A y \in m.pending : y.key # x.id
  BY DEF ItemKept, Stands, Distinct
<1>6. \A y \in B : ~y.proposed /\ ~y.attempted /\ y.outcome = "none"
  BY DEF ItemKept, Stands
<1>7. \A z \in m2.pending : ItemKept(z)'
  <2>1. \A y \in B : ItemKept(g[y])'
    <3> TAKE y \in B
    <3>1. ItemKept(y)'
      OBVIOUS
    <3>2. Numbered(g[y])'
      BY <1>2, <3>1 DEF ItemKept, Numbered
    <3>3. Owned(g[y])'
      BY <1>2, <3>1 DEF ItemKept, Owned
    <3>4. Stands(g[y])'
      BY <1>1, <1>2, <1>5, <1>6 DEF Stands
    <3>5. QED
      BY <3>2, <3>3, <3>4 DEF ItemKept
  <2>2. QED
    BY <1>3, <2>1
<1>8. \A z \in m2.pending : \/ z \in m.pending \ B
                            \/ \E y \in B : z = g[y]
  BY <1>3
<1>9. Distinct(m2)'
  <2> SUFFICES ASSUME NEW z \in m2.pending, NEW w \in m2.pending
               PROVE  /\ z.id = w.id => z = w
                      /\ z.root = w.root => z = w
                      /\ z.key = 0 => w.key # z.id
    BY DEF Distinct
  <2>1. CASE z \in m.pending \ B /\ w \in m.pending \ B
    BY <2>1 DEF Distinct
  <2>2. ASSUME z \in m.pending \ B, NEW y \in B, w = g[y]
        PROVE  z.id # w.id /\ z.root # w.root /\ (z.key = 0 => w.key # z.id)
    BY <1>2, <2>2 DEF Distinct
  <2>3. ASSUME w \in m.pending \ B, NEW y \in B, z = g[y]
        PROVE  z.id # w.id /\ z.root # w.root /\ z.key # 0
    BY <1>1, <1>2, <2>3 DEF Distinct
  <2>4. ASSUME NEW y \in B, z = g[y], NEW v \in B, w = g[v]
        PROVE  (z.id = w.id => z = w) /\ (z.root = w.root => z = w) /\ z.key # 0
    BY <1>1, <1>2, <2>4 DEF Distinct
  <2>5. QED
    BY <1>8, <2>1, <2>2, <2>3, <2>4
<1>10. Together(m2)'
  <2> SUFFICES ASSUME NEW z \in m2.pending, NEW w \in m2.pending, z.key = w.key
               PROVE  (z.proposed => w.proposed) /\ (z.attempted => w.attempted)
    BY DEF Together
  <2>1. CASE z \in m.pending \ B /\ w \in m.pending \ B
    BY <2>1 DEF Together
  <2>2. CASE \E y \in B : z = g[y]
    BY <1>2, <1>6, <2>2
  <2>3. ASSUME z \in m.pending \ B, NEW y \in B, w = g[y] PROVE FALSE
    BY <1>2, <1>5, <2>3
  <2>4. QED
    BY <1>8, <2>1, <2>2, <2>3
<1>11. Whole(m2)'
  <2> SUFFICES ASSUME NEW z \in m2.pending, z.proposed, IntentIs(z.key, {"ready", "pending"})',
                      NEW c \in intents'[z.key].changes
               PROVE  \E w \in m2.pending : w.key = z.key /\ ChangeOf(w) = c
    BY DEF Whole
  <2>1. z \in m.pending \ B
    BY <1>2, <1>6, <1>8
  <2>2. PICK w \in m.pending : w.key = z.key /\ ChangeOf(w) = c
    BY <2>1 DEF Whole
  <2>3. w.proposed
    BY <2>1, <2>2 DEF Together
  <2>4. QED
    BY <1>6, <2>2, <2>3
<1>12. Waits(m2)'
  <2> SUFFICES ASSUME NEW k \in Id, Submitted(k)', NEW c \in intents'[k].changes,
                      NEW z \in m2.pending, z.root = c.root
               PROVE  z.key = k /\ z.attempted
    BY DEF Waits
  <2>1. CASE z \in m.pending \ B
    BY <2>1 DEF Waits
  <2>2. ASSUME NEW y \in B, z = g[y] PROVE FALSE
    <3>1. y.root = c.root
      BY <1>2, <2>2
    <3>2. y.attempted
      BY <3>1 DEF Waits
    <3>3. QED
      BY <1>6, <3>2
  <2>3. QED
    BY <1>8, <2>1, <2>2
<1>13. AgentKept(m2)'
  <2>1. \A y \in B : y.origin = "human"
    BY DEF ItemKept, Owned
  <2>2. QED
    BY <2>1 DEF AgentKept
<1>14. ListedKept(m2)'
  BY DEF ListedKept
<1>15. QED
  BY <1>7, <1>9, <1>10, <1>11, <1>12, <1>13, <1>14

(***************************************************************************)
(* What stays when the server does nothing.                                *)
(***************************************************************************)
LEMMA BatchesStay ==
  ASSUME NEW m \in Replica, BatchesKept(m), UNCHANGED intents,
         ids \in Nat, ids' \in Nat, ids <= ids', made \subseteq made',
         tainted' \subseteq Content, tainted' \intersect made \subseteq tainted
  PROVE  BatchesKept(m)'
<1> USE DEF BatchesKept
<1>1. \A x \in m.pending : ItemKept(x)'
  <2> TAKE x \in m.pending
  <2>1. x \in Item /\ ItemKept(x)
    BY CopyTyped
  <2>2. Numbered(x)'
    BY <2>1, ItemTyped DEF ItemKept, Numbered
  <2>3. Owned(x)'
    BY <2>1, NoneTyped DEF ItemKept, Owned
  <2>4. Stands(x)'
    BY <2>1 DEF ItemKept, Stands
  <2>5. QED
    BY <2>2, <2>3, <2>4 DEF ItemKept
<1>2. Distinct(m)' /\ Together(m)'
  BY DEF Distinct, Together
<1>3. Whole(m)' /\ Waits(m)'
  BY DEF Whole, Waits, Submitted, IntentIs
<1>4. QED
  BY <1>1, <1>2, <1>3

LEMMA WorldStays ==
  ASSUME ServerTyped, LocalTyped, WorldKept, UNCHANGED <<line, intents>>,
         ids' \in Nat, ids <= ids', made \subseteq made',
         tainted' \subseteq Content, tainted' \intersect made \subseteq tainted
  PROVE  WorldKept' /\ Newest' = Newest
<1>1. Newest' = Newest
  BY DEF Newest
<1>2. ids \in Nat
  BY NoneTyped DEF LocalTyped
<1>3. (made \ tainted) \union {None} \subseteq (made' \ tainted') \union {None}
  OBVIOUS
<1>4. LineKept'
  BY <1>1, <1>3 DEF WorldKept, LineKept
<1>5. IntentsKept'
  <2> SUFFICES ASSUME NEW k \in Id, intents[k] # None
               PROVE  /\ k <= ids'
                      /\ \A c \in intents[k].changes :
                           /\ c.root <= ids'
                           /\ c.content \in (made' \ tainted') \union {None}
                           /\ intents[k].state = "applied" /\ c.content # None =>
                                Reaches(c.path, c.content, Newest)'
    BY <1>1 DEF IntentsKept
  <2>1. k <= ids'
    BY <1>2 DEF WorldKept, IntentsKept, Id
  <2>2. \A c \in intents[k].changes : c.root <= ids'
    BY <1>2, IntentTyped DEF WorldKept, IntentsKept
  <2>3. \A c \in intents[k].changes : c.content \in (made' \ tainted') \union {None}
    BY <1>3 DEF WorldKept, IntentsKept
  <2>4. \A c \in intents[k].changes :
          intents[k].state = "applied" /\ c.content # None => Reaches(c.path, c.content, Newest)'
    BY <1>1 DEF WorldKept, IntentsKept, Reaches
  <2>5. QED
    BY <2>1, <2>2, <2>3, <2>4
<1>6. NoneTwice'
  BY DEF WorldKept, NoneTwice, Submitted, IntentIs
<1>7. QED
  BY <1>1, <1>4, <1>5, <1>6 DEF WorldKept

LEMMA CopyStays ==
  ASSUME NEW m \in Replica, CopyKept(m), ServerTyped, LocalTyped,
         UNCHANGED <<workspace, disk, made, tainted>>, ids' \in Nat, ids <= ids'
  PROVE  CopyKept(m)'
<1> USE DEF CopyKept, workspace
<1>1. ids \in Nat /\ tainted \subseteq Content
  BY NoneTyped DEF LocalTyped
<1>2. BatchesKept(m)'
  BY <1>1, BatchesStay
<1>3. AgentKept(m)' /\ ListedKept(m)'
  BY DEF AgentKept, ListedKept, Newest
<1>4. QED
  BY <1>2, <1>3

LEMMA QuietStays ==
  ASSUME ReplicaInv, UNCHANGED <<workspace, disk, removing, history>>, ids' \in 0..MaxId, ids <= ids'
  PROVE  /\ ServerTyped' /\ LocalTyped' /\ WorldKept' /\ DiskKept' /\ Newest' = Newest
         /\ ServerTyped /\ LocalTyped /\ Newest \in Nat
<1> USE DEF workspace, history
<1>1. ServerTyped /\ LocalTyped
  BY ReplicaTypeParts DEF ReplicaInv
<1>2. ServerTyped' /\ LocalTyped'
  BY <1>1 DEF ServerTyped, LocalTyped
<1>3. ids' \in Nat /\ tainted \subseteq Content
  BY <1>1, NoneTyped DEF LocalTyped
<1>4. WorldKept' /\ Newest' = Newest
  BY <1>1, <1>3, WorldStays DEF ReplicaInv
<1>5. DiskKept'
  BY DEF ReplicaInv, DiskKept, EditsAreKept, Spared, Stored, Newest
<1>6. Newest \in Nat
  BY <1>1, LineTyped
<1>7. QED
  BY <1>1, <1>2, <1>4, <1>5, <1>6

LEMMA ReachWider ==
  ASSUME NEW m \in Replica, NEW n \in Nat, NEW k \in Nat, n <= k
  PROVE  (FilesReach(m, n) => FilesReach(m, k)) /\ (AnswersReach(m, n) => AnswersReach(m, k))
<1>1. \A p, c : Reaches(p, c, n) => Reaches(p, c, k)
  BY DEF Reaches
<1>2. QED
  BY <1>1 DEF FilesReach, AnswersReach

(***************************************************************************)
(* A step that changes the copy in memory and persists it, or fails to.    *)
(***************************************************************************)
LEMMA RecordsKeep ==
  ASSUME ReplicaInv, NEW m2 \in Replica, NEW next \in Pass, NEW j, j = journal,
         Records(m2, next), ServerTyped', LocalTyped', WorldKept', DiskKept',
         CopyKept(m2)', CopyKept(j)',
         FilesReach(m2, Newest)', AnswersReach(m2, Newest)',
         FilesReach(j, Newest)', AnswersReach(j, Newest)',
         mem' = m2 /\ journal' = m2 /\ sync' = next =>
           /\ PassKept' /\ FoundKept'
           /\ Answering' => FilesReach(m2, next.rev)' /\ AnswersReach(m2, next.rev)'
           /\ Comparing' => FilesReach(m2, next.rev)'
  PROVE  ReplicaInv'
<1>1. Newest' \in Nat
  BY LineTyped DEF ServerTyped, Newest, Rev, Id
<1>2. mem' = m2 /\ (\/ journal' = m2 /\ sync' = next
                    \/ journal' = j /\ sync' = AtRest)
  BY DEF Records
<1>3. j \in Replica
  BY DEF ReplicaInv, ReplicaTypeOK
<1>4. ReplicaTypeOK'
  BY <1>2, <1>3, AtRestTyped, ReplicaTypeNext
<1>5. CopyKept(mem)' /\ CopyKept(journal)'
  BY <1>2
<1>6. PassKept' /\ FoundKept'
  BY <1>1, <1>2, RestKeeps
<1>7. ReachKept'
  BY <1>1, <1>2, RestKeeps DEF ReachKept
<1>8. QED
  BY <1>4, <1>5, <1>6, <1>7 DEF ReplicaInv

\* The same when nothing else happens but that an id is drawn.
LEMMA QuietRecordsKeep ==
  ASSUME ReplicaInv, NEW m2 \in Replica, NEW next \in Pass, Records(m2, next),
         UNCHANGED <<workspace, disk, removing, history>>, ids' \in 0..MaxId, ids <= ids',
         CopyKept(m2)', FilesReach(m2, Newest), AnswersReach(m2, Newest),
         mem' = m2 /\ journal' = m2 /\ sync' = next =>
           /\ PassKept' /\ FoundKept'
           /\ Answering' => FilesReach(m2, next.rev) /\ AnswersReach(m2, next.rev)
           /\ Comparing' => FilesReach(m2, next.rev)
  PROVE  ReplicaInv'
<1> USE DEF workspace, history
<1>1. /\ ServerTyped' /\ LocalTyped' /\ WorldKept' /\ DiskKept' /\ Newest' = Newest
      /\ ServerTyped /\ LocalTyped
  BY QuietStays
<1>2. PICK j : j = journal
  OBVIOUS
<1>3. j \in Replica /\ CopyKept(j) /\ FilesReach(j, Newest) /\ AnswersReach(j, Newest)
  BY <1>2 DEF ReplicaInv, ReplicaTypeOK, ReachKept
<1>4. CopyKept(j)'
  BY <1>1, <1>3, CopyStays, NoneTyped DEF LocalTyped
<1>5. \A m : /\ FilesReach(m, Newest)' <=> FilesReach(m, Newest)
             /\ AnswersReach(m, Newest)' <=> AnswersReach(m, Newest)
             /\ FilesReach(m, next.rev)' <=> FilesReach(m, next.rev)
             /\ AnswersReach(m, next.rev)' <=> AnswersReach(m, next.rev)
  BY <1>1 DEF FilesReach, AnswersReach, Reaches
<1>6. QED
  BY <1>1, <1>2, <1>3, <1>4, <1>5, RecordsKeep

\* A step that changes the pass, and perhaps the copy in memory, and persists nothing.
LEMMA MovesKeep ==
  ASSUME ReplicaInv, NEW m2 \in Replica, NEW next \in Pass,
         mem' = m2, journal' = journal, sync' = next,
         UNCHANGED <<workspace, disk, removing, history>>, ids' = ids,
         CopyKept(m2) \/ CopyKept(m2)', FilesReach(m2, Newest), AnswersReach(m2, Newest),
         PassKept', FoundKept',
         Answering' => FilesReach(m2, next.rev) /\ AnswersReach(m2, next.rev),
         Comparing' => FilesReach(m2, next.rev)
  PROVE  ReplicaInv'
<1> USE DEF workspace, history
<1>0. ids' \in 0..MaxId /\ ids' \in Nat /\ ids <= ids'
  BY NoneTyped DEF ReplicaInv, ReplicaTypeOK
<1>1. /\ ServerTyped' /\ LocalTyped' /\ WorldKept' /\ DiskKept' /\ Newest' = Newest
      /\ ServerTyped /\ LocalTyped
  BY <1>0, QuietStays
<1>2. PICK j : j = journal
  OBVIOUS
<1>3. j \in Replica /\ CopyKept(j) /\ FilesReach(j, Newest) /\ AnswersReach(j, Newest)
  BY <1>2 DEF ReplicaInv, ReplicaTypeOK, ReachKept
<1>4. CopyKept(j)' /\ CopyKept(m2)'
  BY <1>0, <1>1, <1>3, CopyStays
<1>5. \A m : /\ FilesReach(m, Newest)' <=> FilesReach(m, Newest)
             /\ AnswersReach(m, Newest)' <=> AnswersReach(m, Newest)
             /\ FilesReach(m, next.rev)' <=> FilesReach(m, next.rev)
             /\ AnswersReach(m, next.rev)' <=> AnswersReach(m, next.rev)
  BY <1>1 DEF FilesReach, AnswersReach, Reaches
<1>6. mem' = m2 /\ journal' = j /\ sync' = next
  BY <1>2
<1>7. ReplicaTypeOK'
  BY <1>1, <1>3, <1>6, ReplicaTypeNext
<1>8. CopyKept(mem)' /\ CopyKept(journal)'
  BY <1>4, <1>6
<1>9. ReachKept'
  BY <1>3, <1>5, <1>6 DEF ReachKept
<1>10. QED
  BY <1>1, <1>7, <1>8, <1>9 DEF ReplicaInv

\* A step of the pass alone.
LEMMA PassMoves ==
  ASSUME ReplicaInv, NEW next \in Pass, sync' = next,
         UNCHANGED <<workspace, disk, removing, mem, journal, ids, history>>,
         PassKept', FoundKept',
         Answering' => FilesReach(mem, next.rev) /\ AnswersReach(mem, next.rev),
         Comparing' => FilesReach(mem, next.rev)
  PROVE  ReplicaInv'
<1>1. PICK m : m = mem
  OBVIOUS
<1>2. m \in Replica /\ CopyKept(m) /\ FilesReach(m, Newest) /\ AnswersReach(m, Newest)
  BY <1>1 DEF ReplicaInv, ReplicaTypeOK, ReachKept
<1>3. /\ Answering' => FilesReach(m, next.rev) /\ AnswersReach(m, next.rev)
      /\ Comparing' => FilesReach(m, next.rev)
  BY <1>1
<1>4. mem' = m /\ journal' = journal
  BY <1>1
<1>5. QED
  BY <1>2, <1>3, <1>4, MovesKeep

LEMMA ItemOfIs ==
  ASSUME IdsKept, NEW i \in sync.ids
  PROVE  ItemOf(i) \in mem.pending /\ ItemOf(i).id = i
  BY DEF IdsKept, ItemOf

\* A rigid name for the copy in memory (the provers lose track of primes where the
\* equation itself is in sight).
InMemory(m) == m = mem

\* What the invariant says of it.
LEMMA MemoryHolds ==
  ASSUME ReplicaInv, NEW m, InMemory(m)
  PROVE  /\ m \in Replica /\ m.pending \subseteq Item /\ CopyKept(m)
         /\ \A x \in m.pending : ItemKept(x)
         /\ \A x, y \in m.pending : x.id = y.id => x = y
         /\ FilesReach(m, Newest) /\ AnswersReach(m, Newest)
         /\ Newest \in Nat /\ Newest > 0 /\ sync \in Pass /\ ServerTyped /\ LocalTyped
<1>1. m \in Replica /\ CopyKept(m) /\ FilesReach(m, Newest) /\ AnswersReach(m, Newest)
      /\ sync \in Pass /\ ServerTyped /\ LocalTyped
  BY ReplicaTypeParts DEF ReplicaInv, ReachKept, InMemory
<1>2. QED
  BY <1>1, CopyTyped, LineTyped DEF CopyKept, BatchesKept, Distinct

\* The changes of m2 are those of m, wherever they are.
Follows(m, m2) ==
  /\ \A y \in m2.pending : \E x \in m.pending : SameChange(x, y) /\ y.proposed = x.proposed
  /\ \A x \in m.pending : \E y \in m2.pending : SameChange(x, y) /\ y.proposed = x.proposed

LEMMA StartSyncKeeps == ASSUME ReplicaInv, StartSync PROVE ReplicaInv'
<1>1. PICK next : next = sync'
  OBVIOUS
<1>2. PICK m : m = mem
  OBVIOUS
<1>3. /\ m.pending \subseteq Item /\ \A x, y \in m.pending : x.id = y.id => x = y
      /\ FilesReach(m, Newest) /\ AnswersReach(m, Newest) /\ Newest \in Nat /\ Newest > 0
      /\ ServerTyped
  BY <1>2, MemoryHolds DEF InMemory
<1>4. /\ next = [AtRest EXCEPT !.stage = "recover", !.rev = Newest,
                   !.ids = {x.id : x \in {y \in m.pending : y.proposed}}]
      /\ mem' = mem /\ journal' = journal /\ Newest' = Newest
  BY <1>1, <1>2 DEF StartSync, workspace, Newest
<1>5. /\ next.stage = "recover" /\ next.rev = Newest /\ next.moved = FALSE /\ next.back = "rest"
      /\ next.ids = {x.id : x \in {y \in m.pending : y.proposed}}
  BY <1>4 DEF AtRest
<1>6. next.ids \subseteq Id /\ Newest \in Rev
  BY <1>3, <1>5, ItemTyped DEF ServerTyped, Newest
<1>7. next \in Pass
  BY <1>4, <1>6 DEF AtRest, Pass, Stages, Image
<1>8. IdsKept'
  BY <1>1, <1>2, <1>3, <1>4, <1>5 DEF IdsKept, Recovering
<1>9. RevKept' /\ SubmitKept' /\ FoundKept'
  BY <1>1, <1>3, <1>4, <1>5 DEF RevKept, SubmitKept, FoundKept, Comparing
<1>10. ~Comparing' /\ FilesReach(mem, next.rev) /\ AnswersReach(mem, next.rev)
  BY <1>1, <1>2, <1>3, <1>5 DEF Comparing
<1>11. QED
  BY <1>1, <1>7, <1>8, <1>9, <1>10, PassMoves DEF StartSync, PassKept

(***************************************************************************)
(* recoverProposals.                                                       *)
(***************************************************************************)
LEMMA AcceptedItem ==
  ASSUME NEW x \in Item, NEW state \in {"ready", "pending", "applied", "retired", "refused"}
  PROVE  LET y == CASE state = "retired" -> [x EXCEPT !.outcome = "retired", !.status = "held"]
                    [] state = "refused" -> [x EXCEPT !.outcome = "refused", !.status = "conflict"]
                    [] state = "applied" -> [x EXCEPT !.outcome = "applied", !.status = "publishing"]
                    [] OTHER -> [x EXCEPT !.outcome = "open", !.status = "publishing"]
         IN  /\ y \in Item /\ SameChange(x, y) /\ y.proposed = x.proposed
             /\ y.attempted = x.attempted /\ y.status # "pending"
             /\ y.outcome \in {"retired", "refused", "applied"} => y.outcome = state
<1> DEFINE status == IF state = "retired" THEN "held"
                     ELSE IF state = "refused" THEN "conflict" ELSE "publishing"
           outcome == IF state \in {"retired", "refused", "applied"} THEN state ELSE "open"
           z == [x EXCEPT !.outcome = outcome, !.status = status]
<1>1. /\ outcome \in {"none", "open", "applied", "retired", "refused"}
      /\ outcome \in {"retired", "refused", "applied"} => outcome = state
      /\ status \in {"publishing", "conflict", "held"}
  OBVIOUS
<1>2. (CASE state = "retired" -> [x EXCEPT !.outcome = "retired", !.status = "held"]
         [] state = "refused" -> [x EXCEPT !.outcome = "refused", !.status = "conflict"]
         [] state = "applied" -> [x EXCEPT !.outcome = "applied", !.status = "publishing"]
         [] OTHER -> [x EXCEPT !.outcome = "open", !.status = "publishing"]) = z
  OBVIOUS
<1> HIDE DEF status, outcome
<1>3. /\ z \in Item /\ SameChange(x, z) /\ z.proposed = x.proposed /\ z.attempted = x.attempted
      /\ z.status = status /\ z.outcome = outcome
  <2>1. PICK h : h = [x EXCEPT !.outcome = outcome]
    OBVIOUS
  <2>2. h \in Item
    BY <1>1, <2>1 DEF Item
  <2>3. /\ SameChange(x, h) /\ h.proposed = x.proposed /\ h.attempted = x.attempted
        /\ h.outcome = outcome
    BY <2>1 DEF Item, SameChange
  <2>4. z = [h EXCEPT !.status = status]
    BY <2>1
  <2> HIDE DEF z
  <2>5. status \in {"pending", "publishing", "review", "conflict", "held"}
    BY <1>1
  <2>6. /\ z \in Item /\ SameChange(h, z) /\ z.status = status /\ z.proposed = h.proposed
        /\ z.attempted = h.attempted /\ z.outcome = h.outcome
    <3>1. /\ [h EXCEPT !.status = status] \in Item
          /\ SameChange(h, [h EXCEPT !.status = status])
          /\ [h EXCEPT !.status = status].status = status
          /\ [h EXCEPT !.status = status].proposed = h.proposed
          /\ [h EXCEPT !.status = status].attempted = h.attempted
          /\ [h EXCEPT !.status = status].outcome = h.outcome
      BY <2>2, <2>5, MarkedItem
    <3>2. QED
      BY <2>4, <3>1
  <2>7. QED
    BY <2>3, <2>6 DEF SameChange
<1>4. QED
  BY <1>1, <1>2, <1>3

\* An equation that is kept out of the provers' sight.
Equals(a, b) == a = b

\* The answer is recorded with the whole batch.
LEMMA AcceptedKept ==
  ASSUME NEW m \in Replica, InMemory(m), CopyKept(m)', ServerTyped', IntentsKept', NEW k \in Id,
         intents'[k] # None, NEW state, state = intents'[k].state,
         \A x \in m.pending : x.key = k => x.attempted, AnswersReach(m, Newest)',
         NEW m2, Equals(m2, Accepted(k, state))
  PROVE  /\ m2 \in Replica /\ CopyKept(m2)' /\ AnswersReach(m2, Newest)' /\ Follows(m, m2)
         /\ m2.files = m.files /\ m2.rev = m.rev /\ m2.listed = m.listed
<1> DEFINE record(x) ==
             CASE state = "retired" -> [x EXCEPT !.outcome = "retired", !.status = "held"]
               [] state = "refused" -> [x EXCEPT !.outcome = "refused", !.status = "conflict"]
               [] state = "applied" -> [x EXCEPT !.outcome = "applied", !.status = "publishing"]
               [] OTHER -> [x EXCEPT !.outcome = "open", !.status = "publishing"]
<1>0. PICK B : B = {x \in m.pending : x.key = k}
  OBVIOUS
<1>1. m.pending \subseteq Item /\ B \subseteq m.pending
  BY <1>0, CopyTyped
<1>2. state \in {"ready", "pending", "applied", "retired", "refused"}
  BY NoneTyped DEF ServerTyped, Intent
<1>3. \A x \in B : /\ record(x) \in Item /\ SameChange(x, record(x))
                   /\ record(x).proposed = x.proposed /\ record(x).attempted = x.attempted
                   /\ record(x).status # "pending"
                   /\ record(x).outcome \in {"retired", "refused", "applied"} =>
                        record(x).outcome = state
  BY <1>1, <1>2, AcceptedItem
<1>4. PICK new : new = {record(x) : x \in B} /\ m2 = Swap(m, B, new)
  BY <1>0 DEF Accepted, Batch, InMemory, Equals
<1> HIDE DEF record
<1>5. PICK g : g = [x \in B |-> record(x)]
  OBVIOUS
<1>14. g \in [B -> Item] /\ \A x \in B : g[x] = record(x)
  BY <1>3, <1>5
<1>15. g \in [B -> Item] /\ \A x : x \in B <=> x \in m.pending /\ x.key = k
  BY <1>0, <1>14
<1>10. \A z : z \in new <=> \E x \in B : z = g[x]
  BY <1>4, <1>14
<1>6. \A x \in B : ItemKept(g[x])'
  <2> TAKE x \in B
  <2>0. x \in m.pending /\ x.key = k
    BY <1>0
  <2>1. /\ ItemKept(x)' /\ x \in Item /\ g[x] \in Item /\ SameChange(x, g[x]) /\ x.attempted
        /\ g[x].proposed = x.proposed /\ g[x].attempted = x.attempted
        /\ g[x].status # "pending" /\ x.key = k
        /\ g[x].outcome \in {"retired", "refused", "applied"} => g[x].outcome = state
    BY <1>1, <1>3, <1>14, <2>0 DEF CopyKept, BatchesKept
  <2>2. Numbered(g[x])' /\ Owned(g[x])'
    BY <2>1 DEF ItemKept, Numbered, Owned, SameChange
  <2>3. Stands(g[x])'
    <3>1. ChangeOf(g[x]) = ChangeOf(x) /\ g[x].key = k /\ g[x].id = x.id
      BY <2>1, SameItem DEF SameChange
    <3>2. QED
      BY <2>1, <3>1 DEF ItemKept, Stands
  <2>4. QED
    BY <2>2, <2>3 DEF ItemKept
<1>7. \A x \in B : Advances(m, x, g[x])
  BY <1>3, <1>14, <1>6 DEF Advances
<1>8. \A x, y \in B : /\ g[x].proposed => g[y].proposed
                      /\ g[x].attempted => g[y].attempted
  <2>1. \A x, y \in B : (x.proposed => y.proposed) /\ (x.attempted => y.attempted)
    BY <1>0 DEF CopyKept, BatchesKept, Together
  <2>2. QED
    BY <1>3, <1>14, <2>1
<1>9. /\ m2 \in Replica /\ m2.pending = (m.pending \ B) \union new
      /\ m2.files = m.files /\ m2.rev = m.rev /\ m2.listed = m.listed
  <2>1. new \in SUBSET Item
    BY <1>10, <1>15
  <2>2. QED
    BY <1>4, <2>1, SwapTyped
<1>16. CopyKept(m2)'
  <2>1. B \subseteq m.pending /\ \A x \in m.pending : x \in B <=> x.key = k
    BY <1>0
  <2>2. Rewrites(m, m2, k, B, g, new)
    BY <1>15, <1>7, <1>8, <1>9, <1>10, <2>1 DEF Rewrites
  <2>3. QED
    BY <1>9, <2>2, BatchKept
<1>11. Follows(m, m2)
  <2>1. \A y \in m2.pending : y \in m.pending \/ \E x \in B : y = g[x]
    BY <1>9, <1>10
  <2>2. \A x \in m.pending : x \in m2.pending \/ (x \in B /\ g[x] \in m2.pending)
    BY <1>9, <1>10
  <2>3. \A x \in B : SameChange(x, g[x]) /\ g[x].proposed = x.proposed
    BY <1>3, <1>14
  <2>4. \A x \in m.pending : SameChange(x, x)
    BY DEF SameChange
  <2>5. QED
    BY <1>1, <2>1, <2>2, <2>3, <2>4 DEF Follows
<1>12. AnswersReach(m2, Newest)'
  <2> SUFFICES ASSUME NEW y \in m2.pending, y.outcome = "applied", y.content # None
               PROVE  Reaches(y.path, y.content, Newest)'
    BY DEF AnswersReach
  <2>1. CASE y \in m.pending
    BY <2>1 DEF AnswersReach
  <2>2. ASSUME NEW x \in B, y = g[x] PROVE Reaches(y.path, y.content, Newest)'
    <3>1. state = "applied" /\ SameChange(x, y) /\ x.key = k /\ k # 0 /\ x \in m.pending
      BY <1>0, <1>3, <1>14, <2>2 DEF Id
    <3>2. ChangeOf(x) \in intents'[k].changes
      <4>1. Stands(x)'
        BY <3>1 DEF CopyKept, BatchesKept, ItemKept
      <4>2. QED
        BY <3>1, <4>1 DEF Stands, ChangeOf
    <3>3. ChangeOf(x).path = y.path /\ ChangeOf(x).content = y.content
      BY <3>1 DEF ChangeOf, SameChange
    <3>4. QED
      BY <3>1, <3>2, <3>3 DEF IntentsKept
  <2>3. QED
    BY <1>9, <1>10, <2>1, <2>2
<1>13. QED
  BY <1>9, <1>11, <1>12, <1>16

LEMMA QuietStep ==
  ASSUME ReplicaInv, UNCHANGED <<workspace, disk, removing, ids, history>>
  PROVE  ids' \in 0..MaxId /\ ids <= ids' /\ Newest' = Newest
  BY NoneTyped DEF ReplicaInv, ReplicaTypeOK, Newest, workspace

\* What stays of the copy in memory when nothing but an id is drawn.
LEMMA QuietMemory ==
  ASSUME ReplicaInv, NEW m, InMemory(m), UNCHANGED <<workspace, disk, removing, history>>,
         ids' \in 0..MaxId, ids <= ids'
  PROVE  /\ CopyKept(m)' /\ ServerTyped' /\ IntentsKept' /\ AnswersReach(m, Newest)'
         /\ FilesReach(m, Newest)' /\ Newest' = Newest /\ intents' = intents /\ ids' \in Nat
<1> USE DEF workspace, history
<1>1. ServerTyped' /\ LocalTyped' /\ WorldKept' /\ Newest' = Newest /\ ids' \in Nat
  BY QuietStays, NoneTyped
<1>2. /\ m \in Replica /\ CopyKept(m) /\ ServerTyped /\ LocalTyped
      /\ FilesReach(m, Newest) /\ AnswersReach(m, Newest)
  BY MemoryHolds
<1>3. CopyKept(m)'
  BY <1>1, <1>2, CopyStays
<1>4. AnswersReach(m, Newest)' /\ FilesReach(m, Newest)'
  BY <1>1, <1>2 DEF AnswersReach, FilesReach, Reaches
<1>5. QED
  BY <1>1, <1>3, <1>4 DEF WorldKept

LEMMA MarkedGoes ==
  ASSUME ReplicaInv, NEW m, InMemory(m), UNCHANGED <<workspace, disk, removing, history>>, ids' = ids,
         NEW x \in m.pending, NEW s \in {"publishing", "review", "conflict", "held"},
         NEW m2, m2 = Marked(x, s)
  PROVE  /\ m2 \in Replica /\ CopyKept(m2)' /\ Follows(m, m2)
         /\ m2.files = m.files /\ m2.rev = m.rev /\ m2.listed = m.listed
         /\ m2.pending = (m.pending \ {x}) \union {[x EXCEPT !.status = s]}
         /\ \A n : /\ AnswersReach(m, n) => AnswersReach(m2, n)
                   /\ FilesReach(m, n) => FilesReach(m2, n)
<1>1. m \in Replica /\ m.pending \subseteq Item /\ ids' \in 0..MaxId /\ ids <= ids'
  BY MemoryHolds, NoneTyped DEF LocalTyped
<1>2. CopyKept(m)' /\ ServerTyped'
  BY <1>1, QuietMemory
<1>3. PICK y : y = [x EXCEPT !.status = s]
  OBVIOUS
<1>4. m2 = Swap(m, {x}, {y})
  BY <1>3 DEF Marked, InMemory
<1>5. /\ x \in Item /\ y \in Item /\ SameChange(x, y) /\ y.proposed = x.proposed
      /\ y.attempted = x.attempted /\ y.outcome = x.outcome /\ y.status # "pending"
  <2>1. s \in {"pending", "publishing", "review", "conflict", "held"} /\ s # "pending"
    OBVIOUS
  <2>2. QED
    BY <1>1, <1>3, <2>1, MarkedItem
<1>6. /\ m2 \in Replica /\ m2.pending = (m.pending \ {x}) \union {y}
      /\ m2.files = m.files /\ m2.rev = m.rev /\ m2.listed = m.listed
  BY <1>1, <1>4, <1>5, SwapTyped
<1>10. CopyKept(m2)'
  BY <1>1, <1>2, <1>5, <1>6, MarkedKept
<1>7. Follows(m, m2)
  <2>1. \A z \in m.pending : SameChange(z, z)
    BY DEF SameChange
  <2>2. QED
    BY <1>5, <1>6, <2>1 DEF Follows
<1>8. \A n : /\ AnswersReach(m, n) => AnswersReach(m2, n)
             /\ FilesReach(m, n) => FilesReach(m2, n)
  <2>1. y.path = x.path /\ y.content = x.content
    BY <1>5 DEF SameChange
  <2>2. QED
    BY <1>5, <1>6, <2>1 DEF AnswersReach, FilesReach
<1>9. QED
  BY <1>3, <1>6, <1>7, <1>8, <1>10

\* The loop over recovered proposals goes on, or submits one of them.
LEMMA RecoverGoes ==
  ASSUME ReplicaInv, sync.stage = "recover", NEW m2, NEW next, mem' = m2, sync' = next,
         Newest' = Newest, next.rev = sync.rev,
         \A j \in next.ids : \E y \in m2.pending : y.id = j,
         \A y \in m2.pending : y.id \in next.ids => y.proposed,
         \/ next.stage = "recover" /\ next.back = sync.back
         \/ /\ next.stage = "attempt" /\ next.back \in {"rest", "recover"} /\ next.moved
            /\ \E y \in m2.pending : y.key = next.key /\ y.proposed
  PROVE  PassKept' /\ FoundKept' /\ ~Comparing'
<1>1. sync.rev <= Newest /\ sync.rev # 0
  BY DEF ReplicaInv, PassKept, RevKept, Recovering
<1>2. IdsKept'
  BY DEF IdsKept
<1>3. RevKept'
  BY <1>1 DEF RevKept, Comparing
<1>4. SubmitKept'
  BY DEF SubmitKept, ReplicaInv, PassKept
<1>5. QED
  BY <1>2, <1>3, <1>4 DEF PassKept, FoundKept, Comparing

LEMMA FollowedIds ==
  ASSUME ReplicaInv, sync.stage = "recover", NEW m, InMemory(m), NEW m2, Follows(m, m2),
         NEW rest \in SUBSET sync.ids
  PROVE  /\ \A j \in rest : \E y \in m2.pending : y.id = j
         /\ \A y \in m2.pending : y.id \in rest => y.proposed
<1>1. /\ \A j \in sync.ids : \E x \in m.pending : x.id = j
      /\ \A x \in m.pending : x.id \in sync.ids => x.proposed
  BY DEF ReplicaInv, PassKept, IdsKept, Recovering, InMemory
<1>2. QED
  BY <1>1 DEF Follows, SameChange

LEMMA RecoverRecords ==
  ASSUME ReplicaInv, sync.stage = "recover", NEW m, InMemory(m), NEW m2 \in Replica,
         NEW next \in Pass, Records(m2, next), UNCHANGED <<workspace, disk, removing, ids, history>>,
         CopyKept(m2)', Follows(m, m2), m2.files = m.files, AnswersReach(m2, Newest),
         next.rev = sync.rev, next.ids \subseteq sync.ids,
         \/ next.stage = "recover" /\ next.back = sync.back
         \/ /\ next.stage = "attempt" /\ next.back \in {"rest", "recover"} /\ next.moved
            /\ \E y \in m2.pending : y.key = next.key /\ y.proposed,
         next.moved \/ (next.moved = sync.moved /\ AnswersReach(m2, sync.rev))
  PROVE  ReplicaInv'
<1> USE DEF workspace
<1>1. /\ ids' \in 0..MaxId /\ ids <= ids' /\ Newest' = Newest
      /\ \A n : FilesReach(m, n) => FilesReach(m2, n)
  BY MemoryHolds, NoneTyped DEF LocalTyped, Newest, FilesReach
<1>2. FilesReach(m2, Newest)
  BY <1>1, MemoryHolds
<1>3. mem' = m2 /\ sync' = next => PassKept' /\ FoundKept' /\ ~Comparing'
  <2>1. /\ \A j \in next.ids : \E y \in m2.pending : y.id = j
        /\ \A y \in m2.pending : y.id \in next.ids => y.proposed
    BY FollowedIds
  <2>2. QED
    BY <1>1, <2>1, RecoverGoes
<1>4. sync' = next /\ Answering' => FilesReach(m2, next.rev) /\ AnswersReach(m2, next.rev)
  <2> SUFFICES ASSUME sync' = next, Answering'
               PROVE  FilesReach(m2, next.rev) /\ AnswersReach(m2, next.rev)
    OBVIOUS
  <2>1. ~next.moved /\ ~sync.moved /\ next.rev = sync.rev /\ AnswersReach(m2, sync.rev)
    BY DEF Answering
  <2>2. FilesReach(m, sync.rev)
    BY <2>1 DEF ReplicaInv, ReachKept, Answering, InMemory
  <2>3. QED
    BY <1>1, <2>1, <2>2
<1>5. QED
  BY <1>1, <1>2, <1>3, <1>4, QuietRecordsKeep

LEMMA DoneTyped ==
  ASSUME sync \in Pass, NEW i
  PROVE  /\ Done(i) \in Pass /\ Done(i).ids = sync.ids \ {i}
         /\ Done(i).stage = sync.stage /\ Done(i).rev = sync.rev /\ Done(i).moved = sync.moved
         /\ Done(i).paths = sync.paths /\ Done(i).key = sync.key /\ Done(i).back = sync.back
         /\ Done(i).path = sync.path /\ Done(i).found = sync.found
  BY DEF Done, Pass

\* The publication that the loop has come to.
LEMMA RecoveredItem ==
  ASSUME ReplicaInv, sync.stage = "recover", NEW m, InMemory(m), NEW x \in m.pending,
         x.id \in sync.ids
  PROVE  /\ x \in Item /\ x.proposed /\ x.key \in Id /\ intents[x.key] # None
         /\ \A y \in m.pending : y.key = x.key => y.proposed /\ (x.attempted => y.attempted)
<1>1. m \in Replica /\ CopyKept(m) /\ ItemKept(x) /\ x \in Item
  BY MemoryHolds
<1>2. x.proposed
  BY DEF ReplicaInv, PassKept, IdsKept, Recovering, InMemory
<1>3. x.key # 0 /\ intents[x.key] # None
  BY <1>1, <1>2 DEF ItemKept, Stands
<1>4. \A y \in m.pending : y.key = x.key => y.proposed /\ (x.attempted => y.attempted)
  BY <1>1, <1>2 DEF CopyKept, BatchesKept, Together
<1>5. QED
  BY <1>1, <1>2, <1>3, <1>4, ItemTyped

LEMMA AskStatusKeeps ==
  ASSUME ReplicaInv, sync.stage = "recover", NEW m, InMemory(m), NEW x \in m.pending,
         x.id \in sync.ids, AskStatus(x)
  PROVE  ReplicaInv'
<1> USE DEF workspace
<1>1. /\ UNCHANGED <<workspace, disk, removing, ids, history>> /\ x.attempted
      /\ ids' \in 0..MaxId /\ ids <= ids' /\ Newest' = Newest
  BY MemoryHolds, NoneTyped DEF AskStatus, LocalTyped, Newest
<1>2. /\ m \in Replica /\ sync \in Pass /\ AnswersReach(m, Newest) /\ ServerTyped
  BY MemoryHolds
<1>3. /\ CopyKept(m)' /\ ServerTyped' /\ IntentsKept' /\ AnswersReach(m, Newest)'
      /\ intents' = intents /\ Newest' = Newest
  BY <1>1, QuietMemory
<1>4. /\ x \in Item /\ x.proposed /\ x.key \in Id /\ intents[x.key] # None
      /\ \A y \in m.pending : y.key = x.key => y.proposed /\ y.attempted
  BY <1>1, RecoveredItem
<1>5. PICK again : again = [Done(x.id) EXCEPT !.moved = TRUE]
  OBVIOUS
<1>6. /\ again \in Pass /\ again.ids = sync.ids \ {x.id} /\ again.stage = "recover"
      /\ again.rev = sync.rev /\ again.moved /\ again.back = sync.back
  BY <1>2, <1>5, DoneTyped DEF Pass
<1>7. Follows(m, m)
  BY DEF Follows, SameChange
<1>8. ASSUME sync' = again, UNCHANGED <<mem, journal>> PROVE ReplicaInv'
  <2>1. mem' = m
    BY <1>8 DEF InMemory
  <2>2. PassKept' /\ FoundKept' /\ ~Comparing'
    <3>1. /\ \A j \in again.ids : \E y \in m.pending : y.id = j
          /\ \A y \in m.pending : y.id \in again.ids => y.proposed
      BY <1>6, <1>7, FollowedIds
    <3>2. QED
      BY <1>1, <1>6, <1>8, <2>1, <3>1, RecoverGoes
  <2>3. ~Answering'
    BY <1>6, <1>8 DEF Answering
  <2>4. QED
    BY <1>1, <1>6, <1>8, <2>2, <2>3, PassMoves
<1>9. ASSUME NEW next, Leads(x),
             next = IF intents[x.key].state = "ready"
                      THEN [again EXCEPT !.stage = "attempt", !.key = x.key, !.back = "recover"]
                    ELSE IF intents[x.key].state = "applied" THEN [sync EXCEPT !.moved = TRUE]
                    ELSE again,
             Records(Accepted(x.key, intents[x.key].state), next)
      PROVE  ReplicaInv'
  <2>1. PICK m2 : m2 = Accepted(x.key, intents[x.key].state)
    OBVIOUS
  <2>2. PICK state : state = intents[x.key].state
    OBVIOUS
  <2>3. /\ m2 \in Replica /\ CopyKept(m2)' /\ AnswersReach(m2, Newest)' /\ Follows(m, m2)
        /\ m2.files = m.files
    BY <1>2, <1>3, <1>4, <2>1, <2>2, AcceptedKept DEF Equals
  <2>4. AnswersReach(m2, Newest)
    BY <1>1, <2>3 DEF AnswersReach, Reaches
  <2>5. /\ next \in Pass /\ next.rev = sync.rev /\ next.ids \subseteq sync.ids /\ next.moved
        /\ \/ next.stage = "recover" /\ next.back = sync.back
           \/ next.stage = "attempt" /\ next.back \in {"rest", "recover"} /\ next.key = x.key
    <3>1. "attempt" \in Stages /\ "recover" \in Stages
      BY DEF Stages
    <3>2. CASE next = again
      BY <1>6, <3>2
    <3>3. CASE next = [sync EXCEPT !.moved = TRUE]
      BY <1>2, <3>3 DEF Pass
    <3>4. CASE next = [again EXCEPT !.stage = "attempt", !.key = x.key, !.back = "recover"]
      BY <1>4, <1>6, <3>1, <3>4 DEF Pass
    <3>5. QED
      BY <1>9, <3>2, <3>3, <3>4
  <2>6. \E y \in m2.pending : y.key = x.key /\ y.proposed
    BY <1>4, <2>3 DEF Follows, SameChange
  <2>7. Records(m2, next)
    BY <1>9, <2>1
  <2>8. QED
    BY <1>1, <2>3, <2>4, <2>5, <2>6, <2>7, RecoverRecords
<1>10. ASSUME Records(Marked(x, "publishing"), again) PROVE ReplicaInv'
  <2>1. PICK m2 : m2 = Marked(x, "publishing")
    OBVIOUS
  <2>2. "publishing" \in {"publishing", "review", "conflict", "held"}
    OBVIOUS
  <2>3. /\ m2 \in Replica /\ CopyKept(m2)' /\ Follows(m, m2) /\ m2.files = m.files
        /\ AnswersReach(m2, Newest)
    BY <1>1, <1>2, <2>1, <2>2, MarkedGoes
  <2>4. Records(m2, again)
    BY <1>10, <2>1
  <2>5. QED
    BY <1>1, <1>6, <2>3, <2>4, RecoverRecords
<1>11. QED
  BY <1>5, <1>8, <1>9, <1>10 DEF AskStatus

LEMMA ResumeProposalKeeps ==
  ASSUME ReplicaInv, sync.stage = "recover", NEW m, InMemory(m), NEW x \in m.pending,
         x.id \in sync.ids, ResumeProposal(x)
  PROVE  ReplicaInv'
<1> USE DEF workspace
<1>1. UNCHANGED <<workspace, disk, removing, ids, history>> /\ Newest' = Newest
  BY DEF ResumeProposal, Newest
<1>2. /\ m \in Replica /\ sync \in Pass /\ AnswersReach(m, Newest)
      /\ \A n : FilesReach(m, n) => FilesReach(mem, n)
      /\ \A n : AnswersReach(m, n) => AnswersReach(mem, n)
  BY MemoryHolds DEF InMemory
<1>3. /\ x \in Item /\ x.proposed /\ x.key \in Id
  BY RecoveredItem
<1>4. Follows(m, m)
  BY DEF Follows, SameChange
<1>5. Answering => FilesReach(m, sync.rev) /\ AnswersReach(m, sync.rev)
  BY DEF ReplicaInv, ReachKept, InMemory
<1>6. PICK next : next = Done(x.id)
  OBVIOUS
<1>7. /\ next \in Pass /\ next.ids = sync.ids \ {x.id} /\ next.stage = "recover"
      /\ next.rev = sync.rev /\ next.moved = sync.moved
      /\ next.back = sync.back /\ next.back = "rest"
  BY <1>2, <1>6, DoneTyped DEF ReplicaInv, PassKept, SubmitKept
<1>8. ASSUME NEW go, sync' = go, UNCHANGED <<mem, journal>>,
             \/ go = next
             \/ go = [next EXCEPT !.stage = "attempt", !.key = x.key, !.moved = TRUE]
      PROVE  ReplicaInv'
  <2>1. mem' = m
    BY <1>8 DEF InMemory
  <2>2. /\ go \in Pass /\ go.ids = sync.ids \ {x.id} /\ go.rev = sync.rev
        /\ \/ go.stage = "recover" /\ go.moved = sync.moved /\ go.back = sync.back
           \/ go.stage = "attempt" /\ go.back \in {"rest", "recover"} /\ go.moved /\ go.key = x.key
    <3>1. "attempt" \in Stages
      BY DEF Stages
    <3>2. ASSUME go = [next EXCEPT !.stage = "attempt", !.key = x.key, !.moved = TRUE]
          PROVE  /\ go \in Pass /\ go.ids = next.ids /\ go.rev = next.rev /\ go.back = next.back
                 /\ go.stage = "attempt" /\ go.moved /\ go.key = x.key
      <4>1. PICK h : h = [next EXCEPT !.stage = "attempt", !.key = x.key]
        OBVIOUS
      <4>2. /\ h \in Pass /\ h.ids = next.ids /\ h.rev = next.rev /\ h.back = next.back
            /\ h.stage = "attempt" /\ h.key = x.key
        BY <1>3, <1>7, <3>1, <4>1 DEF Pass
      <4>3. go = [h EXCEPT !.moved = TRUE]
        BY <3>2, <4>1
      <4>4. QED
        BY <4>2, <4>3 DEF Pass
    <3>3. QED
      BY <1>7, <1>8, <3>2
  <2>3. PassKept' /\ FoundKept' /\ ~Comparing'
    <3>1. /\ \A j \in go.ids : \E y \in m.pending : y.id = j
          /\ \A y \in m.pending : y.id \in go.ids => y.proposed
      BY <1>4, <2>2, FollowedIds
    <3>2. QED
      BY <1>1, <1>3, <1>8, <2>1, <2>2, <3>1, RecoverGoes
  <2>4. Answering' => FilesReach(mem, go.rev) /\ AnswersReach(mem, go.rev)
    BY <1>2, <1>5, <1>8, <2>2 DEF Answering
  <2>5. QED
    BY <1>1, <1>8, <2>2, <2>3, <2>4, PassMoves
<1>9. ASSUME Records(Marked(x, "review"), next) PROVE ReplicaInv'
  <2>1. PICK m2 : m2 = Marked(x, "review")
    OBVIOUS
  <2>2. "review" \in {"publishing", "review", "conflict", "held"}
    OBVIOUS
  <2>3. /\ m2 \in Replica /\ CopyKept(m2)' /\ Follows(m, m2) /\ m2.files = m.files
        /\ \A n : AnswersReach(m, n) => AnswersReach(m2, n)
    BY <1>1, <2>1, <2>2, MarkedGoes
  <2>4. Records(m2, next)
    BY <1>9, <2>1
  <2>5. sync.moved \/ AnswersReach(m2, sync.rev)
    BY <1>5, <2>3 DEF Answering
  <2>6. QED
    BY <1>1, <1>2, <1>7, <2>3, <2>4, <2>5, RecoverRecords
<1>10. QED
  BY <1>6, <1>8, <1>9 DEF ResumeProposal

LEMMA InspectionFailsKeeps ==
  ASSUME ReplicaInv, sync.stage = "recover", NEW m, InMemory(m), NEW x \in m.pending,
         x.id \in sync.ids, InspectionFails(x)
  PROVE  ReplicaInv'
<1>1. UNCHANGED <<workspace, disk, removing, ids, history>>
  BY DEF InspectionFails
<1>2. sync \in Pass /\ AnswersReach(m, Newest)
  BY MemoryHolds
<1>3. PICK next : next = Done(x.id)
  OBVIOUS
<1>4. /\ next \in Pass /\ next.ids = sync.ids \ {x.id} /\ next.stage = "recover"
      /\ next.rev = sync.rev /\ next.moved = sync.moved /\ next.back = sync.back
  BY <1>2, <1>3, DoneTyped
<1>5. PICK m2 : m2 = Marked(x, "held")
  OBVIOUS
<1>6. "held" \in {"publishing", "review", "conflict", "held"}
  OBVIOUS
<1>7. /\ m2 \in Replica /\ CopyKept(m2)' /\ Follows(m, m2) /\ m2.files = m.files
      /\ \A n : AnswersReach(m, n) => AnswersReach(m2, n)
  BY <1>1, <1>5, <1>6, MarkedGoes
<1>8. Records(m2, next)
  BY <1>3, <1>5 DEF InspectionFails
<1>9. sync.moved \/ AnswersReach(m2, sync.rev)
  BY <1>7 DEF ReplicaInv, ReachKept, Answering, InMemory
<1>10. QED
  BY <1>1, <1>2, <1>4, <1>7, <1>8, <1>9, RecoverRecords

LEMMA ConfirmAppliedKeeps ==
  ASSUME ReplicaInv, sync.stage = "recover", NEW m, InMemory(m), NEW x \in m.pending,
         x.id \in sync.ids, ConfirmApplied(x)
  PROVE  ReplicaInv'
<1> USE DEF workspace
<1>1. /\ UNCHANGED <<workspace, disk, removing, ids, history>> /\ x.outcome = "applied"
      /\ ids' \in 0..MaxId /\ ids <= ids' /\ Newest' = Newest
  BY MemoryHolds, NoneTyped DEF ConfirmApplied, LocalTyped, Newest
<1>2. /\ m \in Replica /\ sync \in Pass /\ AnswersReach(m, Newest) /\ FilesReach(m, Newest)
      /\ \A y, z \in m.pending : y.id = z.id => y = z
  BY MemoryHolds
<1>3. CopyKept(m)'
  BY <1>1, QuietMemory
<1>4. x \in Item /\ x.baseRev \in Rev
  <2>1. x \in Item /\ x.key # 0 /\ ItemKept(x)
    BY RecoveredItem, MemoryHolds DEF Id
  <2>2. QED
    BY <2>1, ItemTyped DEF ItemKept, Owned
<1>5. PICK next : next = Done(x.id)
  OBVIOUS
<1>6. /\ next \in Pass /\ next.ids = sync.ids \ {x.id} /\ next.stage = "recover"
      /\ next.rev = sync.rev /\ next.moved = sync.moved /\ next.back = sync.back
  BY <1>2, <1>5, DoneTyped
<1>7. PICK row : row = IF m.files[x.path] # None
                         THEN [m.files[x.path] EXCEPT !.local = x.content]
                         ELSE [version |-> None, local |-> x.content, rev |-> x.baseRev]
  OBVIOUS
<1>8. row \in FileRow /\ row.local = x.content
  <2>1. x.path \in Path /\ x.content \in Image
    BY <1>4, ItemTyped
  <2>2. m.files[x.path] \in FileRow \union {None}
    BY <1>2, <2>1, CopyTyped
  <2>3. QED
    BY <1>4, <1>7, <2>1, <2>2 DEF FileRow, Image
<1>9. PICK known : known = IF x.content = None THEN m
                           ELSE [m EXCEPT !.files[x.path] = row]
  OBVIOUS
<1>10. /\ known \in Replica /\ known.pending = m.pending /\ known.rev = m.rev
       /\ known.listed = m.listed
       /\ \A p \in Path : known.files[p] # m.files[p] =>
            p = x.path /\ known.files[p] = row /\ x.content # None
  BY <1>2, <1>8, <1>9 DEF Replica
<1>11. PICK m2 : m2 = Swap(known, {x}, {})
  OBVIOUS
<1>12. /\ m2 \in Replica /\ m2.pending = m.pending \ {x} /\ m2.files = known.files
       /\ m2.rev = m.rev /\ m2.listed = m.listed
  BY <1>10, <1>11, SwapTyped
<1>13. CopyKept(m2)'
  BY <1>1, <1>2, <1>3, <1>12, RemovedKept
<1>14. \A n : FilesReach(m, n) /\ AnswersReach(m, n) => FilesReach(m2, n) /\ AnswersReach(m2, n)
  BY <1>1, <1>8, <1>10, <1>12 DEF FilesReach, AnswersReach
<1>15. Records(m2, next)
  <2>1. m2 = Swap(IF x.content = None THEN mem ELSE [mem EXCEPT !.files[x.path] = row], {x}, {})
    BY <1>9, <1>11 DEF InMemory
  <2>2. row = IF mem.files[x.path] # None
                THEN [mem.files[x.path] EXCEPT !.local = x.content]
                ELSE [version |-> None, local |-> x.content, rev |-> x.baseRev]
    BY <1>7 DEF InMemory
  <2>3. QED
    BY <1>5, <2>1, <2>2 DEF ConfirmApplied
<1>16. mem' = m2 /\ sync' = next => PassKept' /\ FoundKept' /\ ~Comparing'
  <2>1. Follows(m, m)
    BY DEF Follows, SameChange
  <2>2. /\ \A j \in next.ids : \E y \in m.pending : y.id = j
        /\ \A y \in m.pending : y.id \in next.ids => y.proposed
    BY <1>6, <2>1, FollowedIds
  <2>3. /\ \A j \in next.ids : \E y \in m2.pending : y.id = j
        /\ \A y \in m2.pending : y.id \in next.ids => y.proposed
    BY <1>2, <1>6, <1>12, <2>2
  <2>4. QED
    BY <1>1, <1>6, <2>3, RecoverGoes
<1>17. sync' = next /\ Answering' => FilesReach(m2, next.rev) /\ AnswersReach(m2, next.rev)
  <2> SUFFICES ASSUME sync' = next, Answering'
               PROVE  FilesReach(m2, next.rev) /\ AnswersReach(m2, next.rev)
    OBVIOUS
  <2>1. Answering /\ next.rev = sync.rev
    BY <1>6 DEF Answering
  <2>2. FilesReach(m, sync.rev) /\ AnswersReach(m, sync.rev)
    BY <2>1 DEF ReplicaInv, ReachKept, InMemory
  <2>3. QED
    BY <1>14, <2>1, <2>2
<1>18. FilesReach(m2, Newest) /\ AnswersReach(m2, Newest)
  BY <1>2, <1>14
<1>19. QED
  BY <1>1, <1>6, <1>12, <1>13, <1>15, <1>16, <1>17, <1>18, QuietRecordsKeep

LEMMA RecoverItemKeeps == ASSUME ReplicaInv, RecoverItem PROVE ReplicaInv'
<1>1. PICK m : InMemory(m)
  BY DEF InMemory
<1>2. /\ sync.stage = "recover"
      /\ \E i \in sync.ids : LET x == ItemOf(i) IN
           AskStatus(x) \/ ConfirmApplied(x) \/ ResumeProposal(x) \/ InspectionFails(x)
  BY DEF RecoverItem
<1>3. PICK i \in sync.ids : LET x == ItemOf(i) IN
        AskStatus(x) \/ ConfirmApplied(x) \/ ResumeProposal(x) \/ InspectionFails(x)
  BY <1>2
<1>4. PICK x : x = ItemOf(i)
  OBVIOUS
<1>5. x \in m.pending /\ x.id \in sync.ids
  BY <1>1, <1>4, ItemOfIs DEF ReplicaInv, PassKept, InMemory
<1>6. AskStatus(x) \/ ConfirmApplied(x) \/ ResumeProposal(x) \/ InspectionFails(x)
  BY <1>3, <1>4
<1>7. QED
  BY <1>1, <1>2, <1>5, <1>6, AskStatusKeeps, ConfirmAppliedKeeps, ResumeProposalKeeps,
     InspectionFailsKeeps

(***************************************************************************)
(* submitIntent.                                                           *)
(***************************************************************************)
\* The invariant of the next state, from its parts.
LEMMA Assembled ==
  ASSUME NEW m2 \in Replica, NEW j \in Replica, NEW next \in Pass,
         mem' = m2, journal' = j, sync' = next,
         ServerTyped', LocalTyped', WorldKept', DiskKept', CopyKept(m2)', CopyKept(j)',
         FilesReach(m2, Newest)', AnswersReach(m2, Newest)',
         FilesReach(j, Newest)', AnswersReach(j, Newest)', PassKept', FoundKept',
         Answering' => FilesReach(m2, next.rev)' /\ AnswersReach(m2, next.rev)',
         Comparing' => FilesReach(m2, next.rev)'
  PROVE  ReplicaInv'
<1>1. ReplicaTypeOK'
  BY ReplicaTypeNext
<1>2. ReachKept'
  BY DEF ReachKept
<1>3. CopyKept(mem)' /\ CopyKept(journal)'
  OBVIOUS
<1>4. QED
  BY <1>1, <1>2, <1>3 DEF ReplicaInv

LEMMA IdsFollow ==
  ASSUME ReplicaInv, NEW m, InMemory(m), NEW m2, Follows(m, m2), NEW rest \in SUBSET sync.ids
  PROVE  /\ \A j \in rest : \E y \in m2.pending : y.id = j
         /\ Recovering => \A y \in m2.pending : y.id \in rest => y.proposed
<1>1. /\ \A j \in sync.ids : \E x \in m.pending : x.id = j
      /\ Recovering => \A x \in m.pending : x.id \in sync.ids => x.proposed
  BY DEF ReplicaInv, PassKept, IdsKept, InMemory
<1>2. QED
  BY <1>1 DEF Follows, SameChange

\* The batch that is being submitted.
LEMMA SubmittedBatch ==
  ASSUME ReplicaInv, sync.stage \in {"attempt", "submit"}, NEW m, InMemory(m)
  PROVE  /\ sync.key \in Id /\ intents[sync.key] # None
         /\ \E x \in m.pending : x.key = sync.key /\ x.proposed
         /\ \A x \in m.pending : x.key = sync.key => x.proposed
         /\ sync.stage = "submit" => \A x \in m.pending : x.key = sync.key => x.attempted
         /\ sync.back \in {"rest", "recover", "propose"}
         /\ sync.back # "propose" => sync.moved /\ Recovering
<1>1. m \in Replica /\ CopyKept(m) /\ (\A x \in m.pending : ItemKept(x)) /\ m.pending \subseteq Item
  BY MemoryHolds
<1>2. SubmitKept
  BY DEF ReplicaInv, PassKept
<1>3. PICK x \in m.pending : x.key = sync.key /\ x.proposed
  BY <1>2 DEF SubmitKept, InMemory
<1>4. x.key \in Id /\ intents[x.key] # None
  BY <1>1, <1>3, ItemTyped DEF ItemKept, Stands
<1>5. \A y \in m.pending : y.key = sync.key => y.proposed
  BY <1>1, <1>3 DEF CopyKept, BatchesKept, Together
<1>6. sync.stage = "submit" => \A y \in m.pending : y.key = sync.key => y.attempted
  BY <1>2 DEF SubmitKept, InMemory
<1>7. /\ sync.back \in {"rest", "recover", "propose"}
      /\ sync.back # "propose" => sync.moved /\ Recovering
  BY <1>2 DEF SubmitKept, Recovering
<1>8. QED
  BY <1>3, <1>4, <1>5, <1>6, <1>7

LEMMA AttemptedItem ==
  ASSUME NEW x \in Item
  PROVE  LET y == [x EXCEPT !.attempted = TRUE, !.status = "publishing"]
         IN  /\ y \in Item /\ SameChange(x, y) /\ y.proposed = x.proposed
             /\ y.attempted = TRUE /\ y.outcome = x.outcome /\ y.status = "publishing"
  BY DEF Item, SameChange

LEMMA RecordAttemptKeeps == ASSUME ReplicaInv, RecordAttempt PROVE ReplicaInv'
<1> USE DEF workspace
<1>1. PICK m : InMemory(m)
  BY DEF InMemory
<1>2. /\ UNCHANGED <<workspace, disk, removing, ids, history>> /\ sync.stage = "attempt"
      /\ ids' \in 0..MaxId /\ ids <= ids' /\ Newest' = Newest
  BY QuietStep DEF RecordAttempt
<1>3. /\ m \in Replica /\ sync \in Pass /\ AnswersReach(m, Newest) /\ FilesReach(m, Newest)
      /\ m.pending \subseteq Item
  BY <1>1, MemoryHolds
<1>4. CopyKept(m)' /\ ServerTyped'
  BY <1>1, <1>2, QuietMemory
<1>5. PICK k : k = sync.key
  OBVIOUS
<1>6. /\ \E x \in m.pending : x.key = k /\ x.proposed
      /\ \A x \in m.pending : x.key = k => x.proposed
      /\ sync.back \in {"rest", "recover", "propose"}
      /\ sync.back # "propose" => sync.moved /\ Recovering
  BY <1>1, <1>2, <1>5, SubmittedBatch
<1>7. PICK B : B = {x \in m.pending : x.key = k}
  OBVIOUS
<1>8. PICK g : g = [x \in B |-> [x EXCEPT !.attempted = TRUE, !.status = "publishing"]]
  OBVIOUS
<1>9. \A x \in B : /\ x \in m.pending /\ x \in Item /\ x.key = k /\ x.proposed
                   /\ g[x] \in Item /\ SameChange(x, g[x]) /\ g[x].proposed = x.proposed
                   /\ g[x].attempted = TRUE /\ g[x].outcome = x.outcome
                   /\ g[x].status = "publishing"
  <2> SUFFICES ASSUME NEW x \in B
               PROVE  /\ x \in m.pending /\ x \in Item /\ x.key = k /\ x.proposed
                      /\ g[x] \in Item /\ SameChange(x, g[x]) /\ g[x].proposed = x.proposed
                      /\ g[x].attempted = TRUE /\ g[x].outcome = x.outcome
                      /\ g[x].status = "publishing"
    BY Zenon
  <2>1. x \in m.pending /\ x \in Item /\ x.key = k /\ x.proposed
    BY <1>3, <1>6, <1>7
  <2>2. g[x] = [x EXCEPT !.attempted = TRUE, !.status = "publishing"]
    BY <1>8
  <2>3. QED
    BY <2>1, <2>2, AttemptedItem
<1>10. PICK new : new = {[x EXCEPT !.attempted = TRUE, !.status = "publishing"] : x \in B}
  OBVIOUS
<1>11. \A z : z \in new <=> \E x \in B : z = g[x]
  BY <1>8, <1>10
<1>12. PICK m2 : m2 = Swap(m, B, new)
  OBVIOUS
<1>13. new \in SUBSET Item
  BY <1>9, <1>11
<1>14. /\ m2 \in Replica /\ m2.pending = (m.pending \ B) \union new
       /\ m2.files = m.files /\ m2.rev = m.rev /\ m2.listed = m.listed
  BY <1>3, <1>12, <1>13, SwapTyped
<1>15. \A x \in B : ItemKept(g[x])'
  <2> TAKE x \in B
  <2>1. ItemKept(x)' /\ x.proposed
    BY <1>4, <1>9 DEF CopyKept, BatchesKept
  <2>2. Numbered(g[x])' /\ Owned(g[x])'
    BY <1>9, <2>1 DEF ItemKept, Numbered, Owned, SameChange
  <2>3. Stands(g[x])'
    <3>1. ChangeOf(g[x]) = ChangeOf(x) /\ g[x].key = x.key /\ g[x].id = x.id
      BY <1>9, SameItem DEF SameChange
    <3>2. QED
      BY <1>9, <2>1, <3>1 DEF ItemKept, Stands
  <2>4. QED
    BY <2>2, <2>3 DEF ItemKept
<1>16. CopyKept(m2)'
  <2>1. /\ B \in SUBSET m.pending /\ \A x \in m.pending : x \in B <=> x.key = k
        /\ g \in [B -> Item]
    BY <1>7, <1>8, <1>9
  <2>2. \A x \in B : Advances(m, x, g[x])
    BY <1>9, <1>15 DEF Advances
  <2>3. \A x, y \in B : /\ g[x].proposed => g[y].proposed
                        /\ g[x].attempted => g[y].attempted
    BY <1>9
  <2>4. Rewrites(m, m2, k, B, g, new)
    BY <1>11, <1>14, <2>1, <2>2, <2>3 DEF Rewrites
  <2>5. QED
    BY <1>3, <1>4, <1>14, <2>4, BatchKept
<1>17. Follows(m, m2)
  <2>1. \A y \in m2.pending : y \in m.pending \/ \E x \in B : y = g[x]
    BY <1>11, <1>14
  <2>2. \A x \in m.pending : x \in m2.pending \/ (x \in B /\ g[x] \in m2.pending)
    BY <1>11, <1>14
  <2>3. \A x \in m.pending : SameChange(x, x)
    BY DEF SameChange
  <2>4. QED
    BY <1>9, <2>1, <2>2, <2>3 DEF Follows
<1>18. FilesReach(m2, Newest) /\ AnswersReach(m2, Newest)
  <2>1. FilesReach(m2, Newest)
    BY <1>3, <1>14 DEF FilesReach
  <2>2. \A y \in m2.pending : \E x \in m.pending :
          y.outcome = x.outcome /\ y.content = x.content /\ y.path = x.path
    BY <1>9, <1>11, <1>14 DEF SameChange
  <2>3. QED
    BY <1>3, <2>1, <2>2 DEF AnswersReach
<1>19. PICK next : next = [sync EXCEPT !.stage = "submit"]
  OBVIOUS
<1>20. /\ next \in Pass /\ next.stage = "submit" /\ next.rev = sync.rev /\ next.ids = sync.ids
       /\ next.key = k /\ next.back = sync.back /\ next.moved = sync.moved
  BY <1>3, <1>5, <1>19 DEF Pass, Stages
<1>21. Records(m2, next)
  BY <1>1, <1>5, <1>7, <1>10, <1>12, <1>19 DEF RecordAttempt, Batch, InMemory
<1>22. ASSUME mem' = m2, journal' = m2, sync' = next
       PROVE  PassKept' /\ FoundKept' /\ ~Answering' /\ ~Comparing'
  <2>1. IdsKept'
    <3>1. /\ \A j \in next.ids : \E y \in m2.pending : y.id = j
          /\ Recovering => \A y \in m2.pending : y.id \in next.ids => y.proposed
      BY <1>1, <1>17, <1>20, IdsFollow
    <3>2. Recovering' => Recovering
      BY <1>2, <1>20, <1>22 DEF Recovering
    <3>3. QED
      BY <1>20, <1>22, <3>1, <3>2 DEF IdsKept
  <2>2. RevKept'
    BY <1>2, <1>20, <1>22 DEF ReplicaInv, PassKept, RevKept, Recovering, Comparing
  <2>3. \E y \in m2.pending : y.key = k /\ y.proposed
    BY <1>6, <1>17 DEF Follows, SameChange
  <2>4. \A y \in m2.pending : y.key = k => y.attempted
    BY <1>7, <1>9, <1>11, <1>14
  <2>5. SubmitKept'
    BY <1>6, <1>20, <1>22, <2>3, <2>4 DEF SubmitKept
  <2>6. QED
    BY <1>20, <1>22, <2>1, <2>2, <2>5 DEF PassKept, FoundKept, Answering, Comparing
<1>23. QED
  BY <1>2, <1>14, <1>16, <1>18, <1>20, <1>21, <1>22, QuietRecordsKeep

\* The request makes a pending intent of a batch that waits for the answer.
LEMMA RequestStays ==
  ASSUME ReplicaInv, sync.stage = "submit", NEW m, InMemory(m),
         intents' \in {intents, Requested(sync.key)}, UNCHANGED <<line, disk, removing, ids, history>>
  PROVE  /\ ServerTyped' /\ LocalTyped' /\ WorldKept' /\ DiskKept' /\ CopyKept(m)'
         /\ Newest' = Newest /\ intents'[sync.key] # None
<1> USE DEF workspace, history
<1>1. /\ m \in Replica /\ m.pending \subseteq Item /\ CopyKept(m) /\ ServerTyped /\ LocalTyped
      /\ \A x \in m.pending : ItemKept(x)
  BY MemoryHolds
<1>2. PICK k : k = sync.key
  OBVIOUS
<1>3. /\ k \in Id /\ intents[k] # None
      /\ \E x \in m.pending : x.key = k /\ x.proposed
      /\ \A x \in m.pending : x.key = k => x.attempted
  BY <1>2, SubmittedBatch
<1>4. Newest' = Newest /\ ids' \in 0..MaxId /\ ids' \in Nat /\ ids <= ids'
  BY <1>1, NoneTyped DEF Newest, LocalTyped
<1>5. CASE intents' = intents
  <2>1. ServerTyped' /\ LocalTyped' /\ WorldKept' /\ DiskKept'
    BY <1>4, <1>5, QuietStays
  <2>2. CopyKept(m)'
    BY <1>1, <1>4, <1>5, CopyStays
  <2>3. QED
    BY <1>2, <1>3, <1>4, <1>5, <2>1, <2>2
<1>6. CASE intents' # intents
  <2>1. intents[k].state = "ready" /\ intents' = [intents EXCEPT ![k].state = "pending"]
    BY <1>2, <1>6 DEF Requested, IntentIs
  <2>2. /\ intents[k] \in Intent /\ intents[k].changes \subseteq Change
        /\ intents \in [Id -> Intent \union {None}]
    BY <1>1, <1>3, IntentTyped DEF ServerTyped
  <2>3. /\ intents'[k] \in Intent /\ intents'[k].state = "pending"
        /\ intents'[k].changes = intents[k].changes /\ intents'[k] # None
        /\ \A j \in Id : j # k => intents'[j] = intents[j]
        /\ intents' \in [Id -> Intent \union {None}]
    BY <1>3, <2>1, <2>2, NoneTyped DEF Intent
  <2>4. ServerTyped' /\ LocalTyped'
    BY <1>1, <2>3 DEF ServerTyped, LocalTyped
  <2>5. LineKept' /\ DiskKept'
    BY <1>4 DEF ReplicaInv, WorldKept, LineKept, DiskKept, EditsAreKept, Spared, Stored
  <2>6. IntentsKept'
    <3>1. \A p, c, n : Reaches(p, c, n)' <=> Reaches(p, c, n)
      BY DEF Reaches
    <3>2. \A j \in Id : intents'[j] # None =>
            /\ intents[j] # None /\ intents'[j].changes = intents[j].changes
            /\ intents'[j].state = "applied" => intents[j].state = "applied"
      BY <1>3, <2>3
    <3>3. QED
      BY <1>4, <3>1, <3>2 DEF ReplicaInv, WorldKept, IntentsKept
  <2>7. \A c \in intents[k].changes : \E y \in m.pending : y.key = k /\ y.root = c.root
    <3>1. \A y : ChangeOf(y).root = y.root
      BY DEF ChangeOf
    <3>2. IntentIs(k, {"ready", "pending"})
      BY <1>3, <2>1 DEF IntentIs
    <3>3. QED
      BY <1>1, <1>3, <3>1, <3>2 DEF CopyKept, BatchesKept, Whole
  <2>8. \A j \in Id : j # k /\ Submitted(j) =>
          \A x \in intents[j].changes, y \in intents[k].changes : x.root # y.root
    BY <1>1, <2>7 DEF CopyKept, BatchesKept, Waits
  <2>9. \A j \in Id : j # k => (Submitted(j)' <=> Submitted(j)) /\ intents'[j] = intents[j]
    BY <2>3 DEF Submitted, IntentIs
  <2>10. NoneTwice'
    BY <2>3, <2>8, <2>9 DEF ReplicaInv, WorldKept, NoneTwice
  <2>11. \A x \in m.pending : ItemKept(x)'
    <3> TAKE x \in m.pending
    <3>1. ItemKept(x) /\ x.key \in Nat /\ x.id \in Id /\ (x.key # 0 => x.key \in Id)
      BY <1>1, ItemTyped
    <3>2. Numbered(x)' /\ Owned(x)'
      BY <3>1 DEF ItemKept, Numbered, Owned
    <3>3. \A j \in Id : /\ intents'[j] = None <=> intents[j] = None
                        /\ intents'[j] # None => intents'[j].changes = intents[j].changes
                        /\ intents[j].state \in {"retired", "refused", "applied"} =>
                             intents'[j].state = intents[j].state
      BY <1>3, <2>1, <2>3
    <3>4. Stands(x)'
      BY <3>1, <3>3 DEF ItemKept, Stands
    <3>5. QED
      BY <3>2, <3>4 DEF ItemKept
  <2>12. Whole(m)'
    <3>1. \A j : IntentIs(j, {"ready", "pending"})' /\ j \in Id =>
            IntentIs(j, {"ready", "pending"}) /\ intents'[j].changes = intents[j].changes
      BY <1>3, <2>1, <2>3 DEF IntentIs
    <3>2. \A x \in m.pending : x.proposed => x.key \in Id
      BY <1>1, ItemTyped DEF ItemKept, Stands
    <3>3. QED
      BY <1>1, <3>1, <3>2 DEF CopyKept, BatchesKept, Whole
  <2>13. Waits(m)'
    <3>1. \A c \in intents[k].changes, x \in m.pending : x.root = c.root => x.key = k /\ x.attempted
      BY <1>1, <1>3, <2>7 DEF CopyKept, BatchesKept, Distinct
    <3>2. QED
      BY <1>1, <2>3, <2>9, <3>1 DEF CopyKept, BatchesKept, Waits
  <2>14. Distinct(m)' /\ Together(m)' /\ AgentKept(m)' /\ ListedKept(m)'
    BY <1>1, <1>4 DEF CopyKept, BatchesKept, Distinct, Together, AgentKept, ListedKept
  <2>15. CopyKept(m)'
    BY <2>11, <2>12, <2>13, <2>14 DEF CopyKept, BatchesKept
  <2>16. QED
    BY <1>2, <1>4, <2>3, <2>4, <2>5, <2>6, <2>10, <2>15 DEF WorldKept
<1>7. QED
  BY <1>5, <1>6

LEMMA SubmitIntentKeeps == ASSUME ReplicaInv, SubmitIntent PROVE ReplicaInv'
<1> USE DEF history
<1>1. PICK m : InMemory(m)
  BY DEF InMemory
<1>2. /\ UNCHANGED <<line, disk, removing, ids, history>> /\ sync.stage = "submit"
      /\ intents' \in {intents, Requested(sync.key)}
  BY DEF SubmitIntent
<1>3. /\ ServerTyped' /\ LocalTyped' /\ WorldKept' /\ DiskKept' /\ CopyKept(m)'
      /\ Newest' = Newest /\ intents'[sync.key] # None
  BY <1>1, <1>2, RequestStays
<1>4. /\ m \in Replica /\ sync \in Pass /\ AnswersReach(m, Newest) /\ FilesReach(m, Newest)
  BY <1>1, MemoryHolds
<1>5. journal = m
  BY <1>1, <1>2 DEF ReplicaInv, PassKept, SubmitKept, InMemory
<1>6. AnswersReach(m, Newest)' /\ FilesReach(m, Newest)'
  BY <1>2, <1>3, <1>4 DEF AnswersReach, FilesReach, Reaches
<1>7. PICK k : k = sync.key
  OBVIOUS
<1>8. /\ k \in Id /\ \A x \in m.pending : x.key = k => x.attempted
      /\ sync.back \in {"rest", "recover", "propose"}
      /\ sync.back # "propose" => sync.moved /\ Recovering
  BY <1>1, <1>2, <1>7, SubmittedBatch
<1>9. PICK next : next = GoesBack
  OBVIOUS
<1>10. /\ next \in Pass /\ next.stage \in {"recover", "propose"} /\ next.back = "rest"
       /\ next.rev = sync.rev /\ next.ids = sync.ids /\ next.moved = sync.moved
       /\ next.stage = "recover" => sync.moved /\ Recovering
  BY <1>4, <1>8, <1>9 DEF GoesBack, Pass, Stages
<1>11. ASSUME NEW m2 \in Replica, Follows(m, m2), mem' = m2, journal' = m2, sync' = next
       PROVE  PassKept' /\ FoundKept' /\ ~Answering' /\ ~Comparing'
  <2>1. IdsKept'
    <3>1. /\ \A j \in next.ids : \E y \in m2.pending : y.id = j
          /\ Recovering => \A y \in m2.pending : y.id \in next.ids => y.proposed
      BY <1>1, <1>10, <1>11, IdsFollow
    <3>2. Recovering' => Recovering
      BY <1>10, <1>11 DEF Recovering
    <3>3. sync'.stage # "settle"
      BY <1>10, <1>11
    <3>4. QED
      BY <1>11, <3>1, <3>2, <3>3 DEF IdsKept
  <2>2. RevKept'
    BY <1>3, <1>10, <1>11 DEF ReplicaInv, PassKept, RevKept, Recovering, Comparing
  <2>3. SubmitKept'
    BY <1>10, <1>11 DEF SubmitKept
  <2>4. QED
    BY <1>10, <1>11, <2>1, <2>2, <2>3 DEF PassKept, FoundKept, Answering, Comparing
<1>12. Newest' \in Nat
  BY <1>1, <1>3, MemoryHolds
<1>13. ASSUME sync' \in {AtRest, next}, UNCHANGED <<mem, journal>> PROVE ReplicaInv'
  <2>1. mem' = m /\ journal' = m
    BY <1>1, <1>5, <1>13 DEF InMemory
  <2>2. Follows(m, m)
    BY DEF Follows, SameChange
  <2>3. PassKept' /\ FoundKept' /\ ~Answering' /\ ~Comparing'
    BY <1>4, <1>11, <1>12, <1>13, <2>1, <2>2, RestKeeps
  <2>4. sync' \in Pass
    BY <1>10, <1>13, AtRestTyped
  <2>5. PICK s \in Pass : sync' = s
    BY <2>4
  <2>6. QED
    BY <1>3, <1>4, <1>6, <2>1, <2>3, <2>5, Assembled
<1>14. ASSUME Records(Accepted(k, intents'[k].state), next) PROVE ReplicaInv'
  <2>1. PICK m2 : Equals(m2, Accepted(k, intents'[k].state))
    BY DEF Equals
  <2>2. PICK state : state = intents'[k].state
    OBVIOUS
  <2>3. intents'[k] # None /\ IntentsKept'
    BY <1>3, <1>7 DEF WorldKept
  <2>4. Equals(m2, Accepted(k, state))
    BY <2>1, <2>2
  <2>5. /\ m2 \in Replica /\ CopyKept(m2)' /\ AnswersReach(m2, Newest)' /\ Follows(m, m2)
        /\ m2.files = m.files
    BY <1>1, <1>3, <1>4, <1>6, <1>8, <2>2, <2>3, <2>4, AcceptedKept
  <2>6. FilesReach(m2, Newest)'
    BY <1>6, <2>5 DEF FilesReach
  <2>7. Records(m2, next)
    BY <1>14, <2>1 DEF Equals
  <2>8. mem' = m2 /\ journal' = m2 /\ sync' = next =>
          PassKept' /\ FoundKept' /\ ~Answering' /\ ~Comparing'
    BY <1>11, <2>5
  <2>9. QED
    BY <1>3, <1>5, <1>6, <1>10, <2>5, <2>6, <2>7, <2>8, RecordsKeep
<1>15. QED
  BY <1>7, <1>9, <1>13, <1>14 DEF SubmitIntent

(***************************************************************************)
(* reconcile.                                                              *)
(***************************************************************************)
\* What is kept of the pending changes does not depend on the rest of a copy.
LEMMA PendingOnly ==
  ASSUME NEW m, NEW m2, m2.pending = m.pending
  PROVE  /\ BatchesKept(m) => BatchesKept(m2)
         /\ AgentKept(m) => AgentKept(m2)
  BY DEF BatchesKept, Distinct, Together, Whole, Waits, AgentKept

LEMMA PendingOnlyNext ==
  ASSUME NEW m, NEW m2, m2.pending = m.pending, m2.rev = m.rev, m2.listed = m.listed,
         CopyKept(m)'
  PROVE  CopyKept(m2)'
  BY DEF CopyKept, BatchesKept, Distinct, Together, Whole, Waits, AgentKept, ListedKept

LEMMA ListInventoryKeeps == ASSUME ReplicaInv, ListInventory PROVE ReplicaInv'
<1> USE DEF workspace
<1>1. PICK m : InMemory(m)
  BY DEF InMemory
<1>2. /\ m \in Replica /\ sync \in Pass /\ AnswersReach(m, Newest) /\ FilesReach(m, Newest)
      /\ CopyKept(m) /\ ServerTyped /\ Newest \in Nat /\ Newest > 0
  BY <1>1, MemoryHolds
<1>3. PICK n : n = RevisionToList
  OBVIOUS
<1>4. /\ n \in Rev /\ n \in Nat /\ n > 0 /\ n <= Newest
  BY <1>2, <1>3, LineTyped, PassTyped DEF RevisionToList, Rev, ListInventory, ReplicaInv, PassKept,
     RevKept, Recovering
<1>5. FilesReach(m, n)
  <2>1. CASE sync.moved
    BY <1>2, <1>3, <2>1 DEF RevisionToList
  <2>2. CASE ~sync.moved
    BY <1>1, <1>3, <2>2 DEF RevisionToList, ListInventory, Answering, ReplicaInv, ReachKept,
       InMemory
  <2>3. QED
    BY <2>1, <2>2
<1>6. PICK m2 : m2 = [m EXCEPT !.listed = n]
  OBVIOUS
<1>7. /\ m2 \in Replica /\ m2.pending = m.pending /\ m2.files = m.files /\ m2.listed = n
  BY <1>2, <1>4, <1>6 DEF Replica
<1>8. CopyKept(m2)
  BY <1>2, <1>4, <1>7, PendingOnly DEF CopyKept, ListedKept
<1>9. FilesReach(m2, Newest) /\ AnswersReach(m2, Newest) /\ FilesReach(m2, n)
  BY <1>2, <1>5, <1>7 DEF FilesReach, AnswersReach
<1>10. PICK next : next = [AtRest EXCEPT !.stage = "reconcile", !.rev = n, !.paths = Path]
  OBVIOUS
<1>11. /\ next \in Pass /\ next.stage = "reconcile" /\ next.rev = n /\ next.ids = {}
  BY <1>4, <1>10 DEF AtRest, Pass, Stages, Image
<1>12. mem' = m2 /\ sync' = next /\ UNCHANGED <<workspace, disk, removing, journal, ids, history>>
  BY <1>1, <1>3, <1>6, <1>10 DEF ListInventory, InMemory
<1>13. Newest' = Newest
  BY <1>12 DEF Newest
<1>14. PassKept' /\ FoundKept' /\ ~Answering'
  <2>1. IdsKept'
    BY <1>11, <1>12 DEF IdsKept, Recovering
  <2>2. RevKept'
    BY <1>4, <1>7, <1>11, <1>12, <1>13 DEF RevKept
  <2>3. QED
    BY <1>11, <1>12, <2>1, <2>2 DEF PassKept, SubmitKept, FoundKept, Answering
<1>15. QED
  BY <1>7, <1>8, <1>9, <1>11, <1>12, <1>14, MovesKeep

\* A file that no change is about is kept as a change of its own.
LEMMA ConflictItem ==
  ASSUME ReplicaInv, NEW m, InMemory(m), NEW p \in Path, \A x \in m.pending : x.path # p,
         DrawsId, UNCHANGED <<workspace, disk, removing, history>>, NEW y, y = Conflict(p, disk[p])
  PROVE  /\ y \in Item /\ ItemKept(y)' /\ y.key = 0 /\ ~y.proposed /\ ~y.attempted
         /\ y.id = ids' /\ y.root = ids' /\ y.outcome = "none"
<1> USE DEF workspace, history
<1>1. /\ m \in Replica /\ CopyKept(m) /\ LocalTyped /\ ServerTyped
      /\ \A x \in m.pending : ItemKept(x)
  BY MemoryHolds
<1>2. ids \in Nat /\ ids' = ids + 1 /\ ids' \in 0..MaxId
  BY <1>1, NoneTyped DEF LocalTyped, DrawsId
<1>3. ids' \in Id /\ intents[ids'] = None
  BY <1>1, <1>2, FreshId DEF ReplicaInv, WorldKept, ItemKept
<1>4. m.files[p] \in FileRow \union {None} /\ disk[p] \in Image
  BY <1>1, CopyTyped DEF LocalTyped
<1>5. BaseOf(p) \in Image
  BY <1>4 DEF BaseOf, FileRow, InMemory, Image
<1>6. PICK rev : rev = IF m.files[p] = None THEN 0 ELSE m.files[p].rev
  OBVIOUS
<1>7. rev \in Rev \union {0}
  BY <1>4, <1>6 DEF FileRow
<1>8. PICK status : status = IF disk[p] = None THEN "held" ELSE "conflict"
  OBVIOUS
<1>9. y = [id |-> ids', root |-> ids', path |-> p, content |-> disk[p], origin |-> "unknown",
           base |-> BaseOf(p), baseRev |-> rev, key |-> 0, status |-> status,
           proposed |-> FALSE, attempted |-> FALSE, outcome |-> "none"]
  <2>1. Conflict(p, disk[p]) = [NewItem(p, disk[p], "unknown", status) EXCEPT !.baseRev = rev]
    BY <1>6, <1>8 DEF Conflict, InMemory
  <2>2. QED
    BY <1>2, <2>1 DEF NewItem
<1>10. y \in Item
  BY <1>3, <1>4, <1>5, <1>7, <1>8, <1>9 DEF Item
<1>11. disk[p] \in (made \ tainted) \union {None}
  BY <1>1 DEF ReplicaInv, DiskKept, CopyKept, AgentKept
<1>12. Numbered(y)'
  BY <1>2, <1>9 DEF Numbered
<1>13. Owned(y)'
  BY <1>1, <1>8, <1>9, <1>11, NoneTyped DEF Owned, LocalTyped
<1>14. Stands(y)'
  BY <1>3, <1>9 DEF Stands
<1>15. QED
  BY <1>9, <1>10, <1>12, <1>13, <1>14 DEF ItemKept

LEMMA HoldLocalKeeps ==
  ASSUME ReplicaInv, NEW m, InMemory(m), NEW p \in Path, \A x \in m.pending : x.path # p,
         NEW next \in Pass, HoldLocal(p, next), next.ids = sync.ids, next.rev = sync.rev,
         \/ next.stage = "reconcile" /\ Comparing
         \/ next.stage = "settle" /\ sync.stage = "settle"
  PROVE  ReplicaInv'
<1> USE DEF workspace
<1>1. DrawsId /\ UNCHANGED <<workspace, disk, removing, history>>
  BY DEF HoldLocal
<1>2. /\ m \in Replica /\ AnswersReach(m, Newest) /\ FilesReach(m, Newest)
      /\ ServerTyped /\ LocalTyped /\ \A x \in m.pending : ItemKept(x)
  BY MemoryHolds
<1>3. ids \in Nat /\ ids' = ids + 1 /\ ids' \in 0..MaxId /\ ids <= ids'
  BY <1>1, <1>2, NoneTyped DEF LocalTyped, DrawsId
<1>4. PICK y : Equals(y, Conflict(p, disk[p]))
  BY DEF Equals
<1>5. /\ y \in Item /\ ItemKept(y)' /\ y.key = 0 /\ ~y.proposed /\ ~y.attempted
      /\ y.id = ids' /\ y.root = ids' /\ y.outcome = "none"
  BY <1>1, <1>4, ConflictItem DEF Equals
<1>6. /\ \A x \in m.pending : x.id # ids' /\ x.key # ids' /\ x.root # ids'
      /\ \A k \in Id : intents[k] # None => \A c \in intents[k].changes : c.root # ids'
  BY <1>2, <1>3, FreshId DEF ReplicaInv, WorldKept, ItemKept
<1>7. CopyKept(m)' /\ ServerTyped' /\ intents' = intents /\ Newest' = Newest
  BY <1>1, <1>3, QuietMemory
<1>8. PICK m2 : m2 = Swap(m, {}, {y})
  OBVIOUS
<1>9. /\ m2 \in Replica /\ m2.pending = m.pending \union {y}
      /\ m2.files = m.files /\ m2.rev = m.rev /\ m2.listed = m.listed
  BY <1>2, <1>5, <1>8, SwapTyped
<1>10. CopyKept(m2)'
  <2>1. BatchesKept(m)' /\ AgentKept(m)' /\ ListedKept(m)'
    BY <1>7 DEF CopyKept
  <2>2. BatchesKept(Swap(m, {}, {y}))' /\ AgentKept(Swap(m, {}, {y}))'
    <3>1. {} \in SUBSET m.pending /\ \A x \in {} : Loose(x)'
      OBVIOUS
    <3>2. /\ \A x \in m.pending : x.id # y.id /\ x.key # y.id
          /\ \A x \in m.pending : x.root # y.root
          /\ \A k \in Id : intents'[k] # None => \A c \in intents'[k].changes : c.root # y.root
      BY <1>5, <1>6, <1>7
    <3>4. m \in Replica /\ ServerTyped' /\ y \in Item /\ ItemKept(y)' /\ y.key = 0
      BY <1>2, <1>5, <1>7
    <3>5. ~y.proposed /\ ~y.attempted
      BY <1>5
    <3>3. QED
      BY <2>1, <3>1, <3>2, <3>4, <3>5, AddedKept
  <2>3. ListedKept(m2)'
    BY <1>9, <2>1 DEF ListedKept
  <2>4. QED
    BY <1>8, <2>2, <2>3 DEF CopyKept
<1>11. /\ FilesReach(m2, Newest) /\ AnswersReach(m2, Newest)
       /\ \A n : FilesReach(m, n) => FilesReach(m2, n)
  BY <1>2, <1>5, <1>9 DEF FilesReach, AnswersReach
<1>12. Records(m2, next)
  <2>1. m2 = Put(mem, y)
    BY <1>8 DEF Swap, Put, InMemory
  <2>2. QED
    BY <1>4, <2>1 DEF HoldLocal, Equals
<1>13. ASSUME mem' = m2, sync' = next
       PROVE  PassKept' /\ FoundKept' /\ ~Answering' /\ (Comparing' => Comparing)
  <2>1. /\ \A i \in sync.ids : \E x \in m.pending : x.id = i
        /\ sync.stage = "settle" => \A x \in m.pending : x.id \in sync.ids => x.outcome = "retired"
    BY DEF ReplicaInv, PassKept, IdsKept, InMemory
  <2>2. y.id \notin sync.ids
    BY <1>5, <1>6, <2>1
  <2>3. ~Recovering'
    BY <1>13 DEF Recovering
  <2>4. IdsKept'
    BY <1>9, <1>13, <2>1, <2>2, <2>3 DEF IdsKept
  <2>5. RevKept'
    BY <1>7, <1>9, <1>13, <2>3 DEF ReplicaInv, PassKept, RevKept, Comparing, InMemory
  <2>6. QED
    BY <1>13, <2>4, <2>5 DEF PassKept, SubmitKept, FoundKept, Answering, Comparing
<1>14. Comparing => FilesReach(m2, sync.rev)
  BY <1>11 DEF ReplicaInv, ReachKept, InMemory
<1>15. QED
  BY <1>1, <1>3, <1>9, <1>10, <1>11, <1>12, <1>13, <1>14, QuietRecordsKeep

\* A pass puts what was published, or nothing, in the place of what is kept elsewhere.
LEMMA DiskStep ==
  ASSUME ReplicaInv, UNCHANGED <<workspace, ids, history>>, disk' \in [Path -> Image],
         removing' \subseteq removing,
         \A q \in Path :
           \/ disk'[q] = disk[q]
           \/ disk'[q] \in (made \ tainted) \union {None} /\ Spared(q)
  PROVE  /\ ServerTyped' /\ LocalTyped' /\ WorldKept' /\ DiskKept' /\ Newest' = Newest
         /\ \A m \in Replica : CopyKept(m) => CopyKept(m)'
<1> USE DEF workspace, history
<1>1. ServerTyped /\ LocalTyped
  BY ReplicaTypeParts DEF ReplicaInv
<1>2. ServerTyped' /\ LocalTyped'
  BY <1>1 DEF ServerTyped, LocalTyped
<1>3. ids \in Nat /\ ids' \in Nat /\ ids <= ids' /\ tainted \subseteq Content
  BY <1>1, NoneTyped DEF LocalTyped
<1>4. WorldKept' /\ Newest' = Newest
  BY <1>1, <1>3, WorldStays DEF ReplicaInv
<1>5. DiskKept'
  BY DEF ReplicaInv, DiskKept, EditsAreKept, Spared, Stored, Newest
<1>6. ASSUME NEW m \in Replica, CopyKept(m) PROVE CopyKept(m)'
  <2>1. BatchesKept(m)'
    BY <1>3, <1>6, BatchesStay DEF CopyKept
  <2>2. AgentKept(m)'
    BY <1>3, <1>6, NoneTyped DEF CopyKept, AgentKept
  <2>3. ListedKept(m)'
    BY <1>6 DEF CopyKept, ListedKept, Newest
  <2>4. QED
    BY <2>1, <2>2, <2>3 DEF CopyKept
<1>7. QED
  BY <1>2, <1>4, <1>5, <1>6

LEMMA PassedTyped ==
  ASSUME sync \in Pass, NEW p
  PROVE  /\ Passed(p) \in Pass /\ Passed(p).stage = "reconcile" /\ Passed(p).ids = sync.ids
         /\ Passed(p).rev = sync.rev
  BY DEF Passed, Pass, Stages, Image

\* The loop over the inventory goes on.
LEMMA PassedGoes ==
  ASSUME ReplicaInv, Comparing, NEW m, InMemory(m), NEW m2, m2.pending = m.pending,
         m2.listed = m.listed, NEW next,
         next.stage \in {"reconcile", "download", "write", "trash"},
         next.ids = sync.ids, next.rev = sync.rev, mem' = m2, sync' = next, Newest' = Newest
  PROVE  PassKept' /\ ~Answering'
<1>1. IdsKept'
  BY DEF ReplicaInv, PassKept, IdsKept, Recovering, InMemory
<1>2. RevKept'
  BY DEF ReplicaInv, PassKept, RevKept, Recovering, Comparing, InMemory
<1>3. QED
  BY <1>1, <1>2 DEF PassKept, SubmitKept, Answering

\* What is known of a file that was reconciled.
LEMMA KnownIs ==
  ASSUME ReplicaInv, Comparing, NEW m, InMemory(m), NEW p \in Path, line[sync.rev][p] # None,
         NEW m2, m2 = Known(p)
  PROVE  /\ m2 \in Replica /\ m2.pending = m.pending /\ m2.rev = m.rev /\ m2.listed = m.listed
         /\ FilesReach(m2, sync.rev) /\ FilesReach(m2, Newest) /\ AnswersReach(m2, Newest)
<1>1. /\ m \in Replica /\ AnswersReach(m, Newest) /\ FilesReach(m, Newest) /\ sync \in Pass
      /\ ServerTyped /\ Newest \in Nat
  BY MemoryHolds
<1>2. sync.rev \in Rev /\ sync.rev \in Nat /\ sync.rev > 0 /\ sync.rev <= Newest
  BY <1>1, PassTyped DEF ReplicaInv, PassKept, RevKept, Rev
<1>3. line[sync.rev][p] \in Image
  BY <1>1, <1>2, LineTyped
<1>4. PICK row : row = [version |-> line[sync.rev][p], local |-> line[sync.rev][p],
                        rev |-> sync.rev]
  OBVIOUS
<1>5. row \in FileRow /\ row.local = line[sync.rev][p]
  BY <1>2, <1>3, <1>4 DEF FileRow
<1>6. m2 = [m EXCEPT !.files[p] = row]
  BY <1>4 DEF Known, InMemory
<1>7. /\ m2 \in Replica /\ m2.pending = m.pending /\ m2.rev = m.rev /\ m2.listed = m.listed
      /\ m2.files[p] = row /\ \A q \in Path : q # p => m2.files[q] = m.files[q]
  BY <1>1, <1>5, <1>6 DEF Replica
<1>8. FilesReach(m, sync.rev)
  BY DEF ReplicaInv, ReachKept, InMemory
<1>9. Reaches(p, row.local, sync.rev)
  BY <1>2, <1>5 DEF Reaches
<1>10. FilesReach(m2, sync.rev)
  BY <1>7, <1>8, <1>9 DEF FilesReach
<1>11. FilesReach(m2, Newest)
  BY <1>1, <1>2, <1>7, <1>10, ReachWider
<1>12. AnswersReach(m2, Newest)
  BY <1>1, <1>7 DEF AnswersReach
<1>13. QED
  BY <1>7, <1>10, <1>11, <1>12

\* A file is forgotten, and perhaps removed.
LEMMA ForgottenKeeps ==
  ASSUME ReplicaInv, Comparing, NEW p \in Path, mem' = Forgotten(p), sync' = Passed(p),
         UNCHANGED <<workspace, removing, journal, ids, history>>,
         disk' = disk \/ (disk' = [disk EXCEPT ![p] = None] /\ Spared(p))
  PROVE  ReplicaInv'
<1> USE DEF workspace
<1>1. PICK m : InMemory(m)
  BY DEF InMemory
<1>2. /\ m \in Replica /\ sync \in Pass /\ AnswersReach(m, Newest) /\ FilesReach(m, Newest)
      /\ CopyKept(m) /\ ServerTyped /\ LocalTyped
  BY <1>1, MemoryHolds
<1>3. PICK next : next = Passed(p)
  OBVIOUS
<1>4. next \in Pass /\ next.stage = "reconcile" /\ next.ids = sync.ids /\ next.rev = sync.rev
  BY <1>2, <1>3, PassedTyped
<1>5. disk' \in [Path -> Image]
  BY <1>2 DEF LocalTyped, Image
<1>6. ASSUME NEW q \in Path, disk'[q] # disk[q]
      PROVE  disk'[q] \in (made \ tainted) \union {None} /\ Spared(q)
  BY <1>2, <1>6 DEF LocalTyped
<1>7. /\ ServerTyped' /\ LocalTyped' /\ WorldKept' /\ DiskKept' /\ Newest' = Newest
      /\ \A c \in Replica : CopyKept(c) => CopyKept(c)'
  BY <1>5, <1>6, DiskStep
<1>8. PICK m2 : m2 = [m EXCEPT !.files[p] = None]
  OBVIOUS
<1>9. /\ m2 \in Replica /\ m2.pending = m.pending /\ m2.rev = m.rev /\ m2.listed = m.listed
      /\ m2.files[p] = None /\ \A q \in Path : q # p => m2.files[q] = m.files[q]
  BY <1>2, <1>8 DEF Replica
<1>10. CopyKept(m2)'
  BY <1>2, <1>7, <1>9, PendingOnlyNext
<1>11. PICK j : j = journal
  OBVIOUS
<1>12. j \in Replica /\ CopyKept(j) /\ FilesReach(j, Newest) /\ AnswersReach(j, Newest)
  BY <1>11 DEF ReplicaInv, ReplicaTypeOK, ReachKept
<1>13. \A c, n : FilesReach(c, n)' <=> FilesReach(c, n)
  BY DEF FilesReach, Reaches
<1>14. \A c, n : AnswersReach(c, n)' <=> AnswersReach(c, n)
  BY DEF AnswersReach, Reaches
<1>15. /\ FilesReach(m2, Newest) /\ AnswersReach(m2, Newest) /\ FilesReach(m2, sync.rev)
  <2>1. FilesReach(m, sync.rev)
    BY <1>1 DEF ReplicaInv, ReachKept, InMemory
  <2>2. QED
    BY <1>2, <1>9, <2>1 DEF FilesReach, AnswersReach
<1>16. mem' = m2 /\ journal' = j /\ sync' = next
  BY <1>1, <1>3, <1>8, <1>11 DEF InMemory, Forgotten
<1>17. PassKept' /\ ~Answering' /\ FoundKept'
  BY <1>1, <1>4, <1>7, <1>9, <1>16, PassedGoes DEF FoundKept
<1>18. /\ FilesReach(m2, Newest)' /\ AnswersReach(m2, Newest)' /\ FilesReach(m2, next.rev)'
       /\ FilesReach(j, Newest)' /\ AnswersReach(j, Newest)' /\ CopyKept(j)'
  BY <1>4, <1>7, <1>12, <1>13, <1>14, <1>15
<1>19. QED
  BY <1>4, <1>7, <1>9, <1>10, <1>12, <1>16, <1>17, <1>18, Assembled

LEMMA ReconcileDeletedKeeps ==
  ASSUME ReplicaInv, sync.stage = "reconcile", NEW p \in Path, ReconcileDeleted(p)
  PROVE  ReplicaInv'
<1> USE DEF workspace
<1>1. PICK m : InMemory(m)
  BY DEF InMemory
<1>2. m \in Replica /\ sync \in Pass /\ LocalTyped
  BY <1>1, MemoryHolds
<1>3. Comparing /\ \A x \in m.pending : x.path # p
  BY <1>1 DEF Comparing, ReconcileDeleted, Touched, InMemory
<1>4. PICK next : next = Passed(p)
  OBVIOUS
<1>5. next \in Pass /\ next.stage = "reconcile" /\ next.ids = sync.ids /\ next.rev = sync.rev
  BY <1>2, <1>4, PassedTyped
<1>6. CASE HoldLocal(p, Passed(p))
  BY <1>1, <1>3, <1>4, <1>5, <1>6, HoldLocalKeeps
<1>7. ASSUME LocalOf(p) # None, disk[p] = LocalOf(p),
             sync' = [sync EXCEPT !.stage = "trash", !.path = p, !.found = disk[p]],
             UNCHANGED <<workspace, disk, removing, mem, journal, ids, history>>
      PROVE  ReplicaInv'
  <2>1. PICK go : go = [sync EXCEPT !.stage = "trash", !.path = p, !.found = disk[p]]
    OBVIOUS
  <2>2. /\ go \in Pass /\ go.stage = "trash" /\ go.ids = sync.ids /\ go.rev = sync.rev
        /\ go.path = p /\ go.found = disk[p]
    <3>1. disk[p] \in Image
      BY <1>2 DEF LocalTyped
    <3>2. QED
      BY <1>2, <2>1, <3>1 DEF Pass, Stages
  <2>3. mem' = m /\ sync' = go /\ Newest' = Newest
    BY <1>1, <1>7, <2>1, QuietStep DEF InMemory
  <2>4. PassKept' /\ ~Answering'
    BY <1>1, <1>3, <2>2, <2>3, PassedGoes
  <2>5. FoundKept'
    <3>1. m.files[p] # None /\ disk[p] = m.files[p].local
      BY <1>1, <1>7 DEF LocalOf, InMemory
    <3>2. QED
      BY <1>3, <1>7, <2>2, <2>3, <3>1 DEF FoundKept
  <2>6. FilesReach(mem, go.rev)
    BY <1>3, <2>2 DEF ReplicaInv, ReachKept
  <2>7. QED
    BY <1>7, <2>2, <2>3, <2>4, <2>5, <2>6, PassMoves
<1>8. ASSUME mem' = Forgotten(p), sync' = Passed(p),
             UNCHANGED <<workspace, disk, removing, journal, ids, history>>
      PROVE  ReplicaInv'
  BY <1>3, <1>8, ForgottenKeeps
<1>9. QED
  BY <1>6, <1>7, <1>8 DEF ReconcileDeleted

LEMMA ReconcileActiveKeeps ==
  ASSUME ReplicaInv, sync.stage = "reconcile", NEW p \in Path, ReconcileActive(p)
  PROVE  ReplicaInv'
<1> USE DEF workspace
<1>1. PICK m : InMemory(m)
  BY DEF InMemory
<1>2. /\ m \in Replica /\ sync \in Pass /\ CopyKept(m) /\ ServerTyped /\ LocalTyped
  BY <1>1, MemoryHolds
<1>3. Comparing /\ \A x \in m.pending : x.path # p
  BY <1>1 DEF Comparing, ReconcileActive, Touched, InMemory
<1>4. PICK next : next = Passed(p)
  OBVIOUS
<1>5. next \in Pass /\ next.stage = "reconcile" /\ next.ids = sync.ids /\ next.rev = sync.rev
  BY <1>2, <1>4, PassedTyped
<1>6. line[sync.rev][p] # None
  BY DEF ReconcileActive
<1>7. CASE HoldLocal(p, Passed(p))
  BY <1>1, <1>3, <1>4, <1>5, <1>7, HoldLocalKeeps
<1>8. ASSUME Records(Known(p), Passed(p)), UNCHANGED <<workspace, disk, removing, ids, history>>
      PROVE  ReplicaInv'
  <2>1. PICK m2 : m2 = Known(p)
    OBVIOUS
  <2>2. /\ m2 \in Replica /\ m2.pending = m.pending /\ m2.rev = m.rev /\ m2.listed = m.listed
        /\ FilesReach(m2, sync.rev) /\ FilesReach(m2, Newest) /\ AnswersReach(m2, Newest)
    BY <1>1, <1>3, <1>6, <2>1, KnownIs
  <2>3. ids' \in 0..MaxId /\ ids <= ids' /\ Newest' = Newest
    BY <1>8, QuietStep
  <2>4. CopyKept(m)'
    BY <1>1, <1>8, <2>3, QuietMemory
  <2>5. CopyKept(m2)'
    BY <2>2, <2>4, PendingOnlyNext
  <2>6. Records(m2, next)
    BY <1>4, <1>8, <2>1
  <2>7. mem' = m2 /\ sync' = next => PassKept' /\ ~Answering' /\ FoundKept'
    BY <1>1, <1>3, <1>5, <2>2, <2>3, PassedGoes DEF FoundKept
  <2>8. QED
    BY <1>5, <1>8, <2>2, <2>3, <2>5, <2>6, <2>7, QuietRecordsKeep
<1>9. ASSUME disk[p] # line[sync.rev][p], disk[p] \in {None, LocalOf(p)},
             sync' = [sync EXCEPT !.stage = "download", !.path = p, !.found = disk[p]],
             UNCHANGED <<workspace, disk, removing, mem, journal, ids, history>>
      PROVE  ReplicaInv'
  <2>1. PICK go : go = [sync EXCEPT !.stage = "download", !.path = p, !.found = disk[p]]
    OBVIOUS
  <2>2. /\ go \in Pass /\ go.stage = "download" /\ go.ids = sync.ids /\ go.rev = sync.rev
        /\ go.path = p /\ go.found = disk[p]
    <3>1. disk[p] \in Image
      BY <1>2 DEF LocalTyped
    <3>2. QED
      BY <1>2, <2>1, <3>1 DEF Pass, Stages
  <2>3. mem' = m /\ sync' = go /\ Newest' = Newest
    BY <1>1, <1>9, <2>1, QuietStep DEF InMemory
  <2>4. PassKept' /\ ~Answering'
    BY <1>1, <1>3, <2>2, <2>3, PassedGoes
  <2>5. FoundKept'
    <3>1. disk[p] # None => m.files[p] # None /\ disk[p] = m.files[p].local
      BY <1>1, <1>9 DEF LocalOf, InMemory
    <3>2. QED
      BY <1>3, <1>6, <1>9, <2>2, <2>3, <3>1 DEF FoundKept
  <2>6. FilesReach(mem, go.rev)
    BY <1>3, <2>2 DEF ReplicaInv, ReachKept
  <2>7. QED
    BY <1>9, <2>2, <2>3, <2>4, <2>5, <2>6, PassMoves
<1>10. QED
  BY <1>7, <1>8, <1>9 DEF ReconcileActive

LEMMA SkipTouchedKeeps ==
  ASSUME ReplicaInv, sync.stage = "reconcile", NEW p \in Path, SkipTouched(p)
  PROVE  ReplicaInv'
<1> USE DEF workspace
<1>1. PICK m : InMemory(m)
  BY DEF InMemory
<1>2. sync \in Pass /\ Comparing
  BY <1>1, MemoryHolds DEF Comparing
<1>3. PICK next : next = Passed(p)
  OBVIOUS
<1>4. next \in Pass /\ next.stage = "reconcile" /\ next.ids = sync.ids /\ next.rev = sync.rev
  BY <1>2, <1>3, PassedTyped
<1>5. /\ UNCHANGED <<workspace, disk, removing, mem, journal, ids, history>>
      /\ mem' = m /\ sync' = next /\ Newest' = Newest
  BY <1>1, <1>3, QuietStep DEF SkipTouched, InMemory
<1>6. PassKept' /\ ~Answering' /\ FoundKept'
  BY <1>1, <1>2, <1>4, <1>5, PassedGoes DEF FoundKept
<1>7. FilesReach(mem, next.rev)
  BY <1>2, <1>4 DEF ReplicaInv, ReachKept
<1>8. QED
  BY <1>4, <1>5, <1>6, <1>7, PassMoves

LEMMA ReconcilePathKeeps == ASSUME ReplicaInv, ReconcilePath PROVE ReplicaInv'
<1>1. sync.stage = "reconcile" /\ sync.paths \subseteq Path
  BY PassTyped DEF ReconcilePath, ReplicaInv, ReplicaTypeOK
<1>2. PICK p \in sync.paths : ReconcileDeleted(p) \/ ReconcileActive(p) \/ SkipTouched(p)
  BY DEF ReconcilePath
<1>3. QED
  BY <1>1, <1>2, ReconcileDeletedKeeps, ReconcileActiveKeeps, SkipTouchedKeeps

LEMMA RecheckLocalKeeps == ASSUME ReplicaInv, RecheckLocal PROVE ReplicaInv'
<1> USE DEF workspace
<1>1. PICK m : InMemory(m)
  BY DEF InMemory
<1>2. sync \in Pass /\ sync.stage = "download" /\ Comparing
  BY <1>1, MemoryHolds DEF RecheckLocal, Comparing
<1>3. PICK p : p = sync.path
  OBVIOUS
<1>4. p \in Path /\ \A x \in m.pending : x.path # p
  BY <1>1, <1>2, <1>3 DEF ReplicaInv, FoundKept, InMemory
<1>5. ASSUME disk[p] = sync.found, sync' = [sync EXCEPT !.stage = "write"],
             UNCHANGED <<workspace, disk, removing, mem, journal, ids, history>>
      PROVE  ReplicaInv'
  <2>1. PICK next : next = [sync EXCEPT !.stage = "write"]
    OBVIOUS
  <2>2. /\ next \in Pass /\ next.stage = "write" /\ next.ids = sync.ids /\ next.rev = sync.rev
        /\ next.path = p /\ next.found = sync.found
    BY <1>2, <1>3, <2>1 DEF Pass, Stages
  <2>3. mem' = m /\ sync' = next /\ Newest' = Newest
    BY <1>1, <1>5, <2>1, QuietStep DEF InMemory
  <2>4. PassKept' /\ ~Answering'
    BY <1>1, <1>2, <2>2, <2>3, PassedGoes
  <2>5. FoundKept'
    BY <1>1, <1>2, <1>3, <1>5, <2>2, <2>3 DEF ReplicaInv, FoundKept, InMemory
  <2>6. FilesReach(mem, next.rev)
    BY <1>2, <2>2 DEF ReplicaInv, ReachKept
  <2>7. QED
    BY <1>5, <2>2, <2>3, <2>4, <2>5, <2>6, PassMoves
<1>6. ASSUME HoldLocal(p, Passed(p)) PROVE ReplicaInv'
  <2>1. PICK next : next = Passed(p)
    OBVIOUS
  <2>2. next \in Pass /\ next.stage = "reconcile" /\ next.ids = sync.ids /\ next.rev = sync.rev
    BY <1>2, <2>1, PassedTyped
  <2>3. QED
    BY <1>1, <1>2, <1>4, <1>6, <2>1, <2>2, HoldLocalKeeps
<1>7. QED
  BY <1>3, <1>5, <1>6 DEF RecheckLocal

LEMMA WriteFileKeeps == ASSUME ReplicaInv, WriteFile PROVE ReplicaInv'
<1> USE DEF workspace
<1>1. PICK m : InMemory(m)
  BY DEF InMemory
<1>2. /\ m \in Replica /\ sync \in Pass /\ CopyKept(m) /\ ServerTyped /\ LocalTyped
      /\ FilesReach(m, Newest) /\ AnswersReach(m, Newest) /\ Newest \in Nat
  BY <1>1, MemoryHolds
<1>3. PICK p : p = sync.path
  OBVIOUS
<1>4. /\ sync.stage = "write" /\ Comparing /\ p \in Path /\ line[sync.rev][p] # None
      /\ sync.found # None => m.files[p] # None /\ sync.found = m.files[p].local
      /\ disk[p] \notin {sync.found, None} => disk[p] \in raced
      /\ UNCHANGED <<workspace, removing, ids, history>>
  BY <1>1, <1>3 DEF WriteFile, Comparing, ReplicaInv, FoundKept, InMemory
<1>5. sync.rev \in 1..Newest
  BY <1>2, <1>4, PassTyped DEF ReplicaInv, PassKept, RevKept
<1>6. disk' = [disk EXCEPT ![p] = line[sync.rev][p]]
  BY <1>3 DEF WriteFile
<1>7. disk' \in [Path -> Image]
  BY <1>2, <1>4, <1>5, <1>6, LineTyped DEF LocalTyped
<1>8. ASSUME NEW q \in Path, disk'[q] # disk[q]
      PROVE  disk'[q] \in (made \ tainted) \union {None} /\ Spared(q)
  <2>1. q = p /\ disk'[q] = line[sync.rev][p]
    BY <1>2, <1>6, <1>8 DEF LocalTyped
  <2>2. disk'[q] \in (made \ tainted) \union {None}
    BY <1>4, <1>5, <2>1 DEF ReplicaInv, WorldKept, LineKept
  <2>3. sync.found # None => sync.found \in Stored
    BY <1>2, <1>4 DEF FilesReach, Reaches, Stored
  <2>4. QED
    BY <1>4, <2>1, <2>2, <2>3 DEF ReplicaInv, DiskKept, EditsAreKept, Spared
<1>9. /\ ServerTyped' /\ LocalTyped' /\ WorldKept' /\ DiskKept' /\ Newest' = Newest
      /\ \A c \in Replica : CopyKept(c) => CopyKept(c)'
  BY <1>4, <1>7, <1>8, DiskStep
<1>10. PICK j : j = journal
  OBVIOUS
<1>11. j \in Replica /\ CopyKept(j) /\ FilesReach(j, Newest) /\ AnswersReach(j, Newest)
  BY <1>10 DEF ReplicaInv, ReplicaTypeOK, ReachKept
<1>12. \A c, n : FilesReach(c, n)' <=> FilesReach(c, n)
  BY <1>4 DEF FilesReach, Reaches
<1>13. \A c, n : AnswersReach(c, n)' <=> AnswersReach(c, n)
  BY <1>4 DEF AnswersReach, Reaches
<1>14. CopyKept(j)' /\ FilesReach(j, Newest)' /\ AnswersReach(j, Newest)'
  BY <1>9, <1>11, <1>12, <1>13
<1>15. PICK next : next = Passed(p)
  OBVIOUS
<1>16. next \in Pass /\ next.stage = "reconcile" /\ next.ids = sync.ids /\ next.rev = sync.rev
  BY <1>2, <1>15, PassedTyped
<1>17. CASE Records(Known(p), Passed(p))
  <2>1. PICK m2 : m2 = Known(p)
    OBVIOUS
  <2>2. /\ m2 \in Replica /\ m2.pending = m.pending /\ m2.rev = m.rev /\ m2.listed = m.listed
        /\ FilesReach(m2, sync.rev) /\ FilesReach(m2, Newest) /\ AnswersReach(m2, Newest)
    BY <1>1, <1>4, <2>1, KnownIs
  <2>3. /\ CopyKept(m2)' /\ FilesReach(m2, Newest)' /\ AnswersReach(m2, Newest)'
        /\ FilesReach(m2, next.rev)'
    BY <1>2, <1>9, <1>12, <1>13, <1>16, <2>2, PendingOnlyNext
  <2>4. Records(m2, next)
    BY <1>15, <1>17, <2>1
  <2>5. mem' = m2 /\ sync' = next => PassKept' /\ ~Answering' /\ FoundKept'
    BY <1>1, <1>4, <1>9, <1>16, <2>2, PassedGoes DEF FoundKept
  <2>6. QED
    BY <1>9, <1>10, <1>14, <1>16, <2>2, <2>3, <2>4, <2>5, RecordsKeep
<1>18. CASE sync' = AtRest /\ UNCHANGED <<mem, journal>>
  <2>1. mem' = m /\ journal' = j /\ sync' = AtRest
    BY <1>1, <1>10, <1>18 DEF InMemory
  <2>2. CopyKept(m)' /\ FilesReach(m, Newest)' /\ AnswersReach(m, Newest)'
    BY <1>2, <1>9, <1>12, <1>13
  <2>3. PassKept' /\ FoundKept' /\ ~Answering' /\ ~Comparing'
    BY <1>2, <1>9, <2>1, RestKeeps
  <2>4. QED
    BY <1>2, <1>9, <1>11, <1>14, <2>1, <2>2, <2>3, AtRestTyped, Assembled
<1>19. QED
  BY <1>3, <1>17, <1>18 DEF WriteFile

LEMMA TrashFileKeeps == ASSUME ReplicaInv, TrashFile PROVE ReplicaInv'
<1> USE DEF workspace
<1>1. PICK m : InMemory(m)
  BY DEF InMemory
<1>2. LocalTyped /\ FilesReach(m, Newest)
  BY <1>1, MemoryHolds
<1>3. PICK p : p = sync.path
  OBVIOUS
<1>4. /\ sync.stage = "trash" /\ Comparing /\ p \in Path
      /\ sync.found # None => m.files[p] # None /\ sync.found = m.files[p].local
      /\ disk[p] \notin {sync.found, None} => disk[p] \in raced
  BY <1>1, <1>3 DEF TrashFile, Comparing, ReplicaInv, FoundKept, InMemory
<1>5. sync.found # None => sync.found \in Stored
  BY <1>2, <1>4 DEF FilesReach, Reaches, Stored
<1>6. Spared(p)
  BY <1>4, <1>5 DEF ReplicaInv, DiskKept, EditsAreKept, Spared
<1>7. /\ mem' = Forgotten(p) /\ sync' = Passed(p) /\ disk' = [disk EXCEPT ![p] = None]
      /\ UNCHANGED <<workspace, removing, journal, ids, history>>
  BY <1>3 DEF TrashFile
<1>8. QED
  BY <1>4, <1>6, <1>7, ForgottenKeeps

LEMMA EndReconcileKeeps == ASSUME ReplicaInv, EndReconcile PROVE ReplicaInv'
<1> USE DEF workspace
<1>1. PICK m : InMemory(m)
  BY DEF InMemory
<1>2. /\ m \in Replica /\ sync \in Pass /\ CopyKept(m) /\ m.pending \subseteq Item
      /\ FilesReach(m, Newest) /\ AnswersReach(m, Newest)
      /\ \A x, y \in m.pending : x.id = y.id => x = y
  BY <1>1, MemoryHolds
<1>3. /\ sync.stage = "reconcile" /\ Comparing /\ sync.rev # 0 /\ sync.rev <= Newest
      /\ m.listed # 0 /\ UNCHANGED <<workspace, disk, removing, journal, ids, history>>
  BY <1>1 DEF EndReconcile, Comparing, ReplicaInv, PassKept, RevKept, InMemory
<1>4. PICK m2 : m2 = [m EXCEPT !.rev = sync.rev]
  OBVIOUS
<1>5. /\ m2 \in Replica /\ m2.pending = m.pending /\ m2.files = m.files
      /\ m2.listed = m.listed /\ m2.rev = sync.rev
  BY <1>2, <1>4, PassTyped DEF Replica
<1>6. CopyKept(m2)
  BY <1>2, <1>3, <1>5, PendingOnly DEF CopyKept, ListedKept
<1>7. FilesReach(m2, Newest) /\ AnswersReach(m2, Newest)
  BY <1>2, <1>5 DEF FilesReach, AnswersReach
<1>8. PICK retired : retired = {x.id : x \in {y \in m.pending : y.outcome = "retired"}}
  OBVIOUS
<1>9. retired \subseteq Id
  BY <1>2, <1>8, ItemTyped
<1>10. PICK next : next = [sync EXCEPT !.stage = "settle", !.paths = Path, !.ids = retired]
  OBVIOUS
<1>11. /\ next \in Pass /\ next.stage = "settle" /\ next.ids = retired /\ next.rev = sync.rev
  BY <1>2, <1>9, <1>10 DEF Pass, Stages
<1>12. mem' = m2 /\ sync' = next
  BY <1>1, <1>4, <1>8, <1>10 DEF EndReconcile, Retired, InMemory
<1>13. Newest' = Newest
  BY <1>3 DEF Newest
<1>14. IdsKept'
  BY <1>2, <1>5, <1>8, <1>11, <1>12 DEF IdsKept, Recovering
<1>15. RevKept'
  BY <1>3, <1>11, <1>12, <1>13 DEF RevKept, Comparing
<1>16. PassKept' /\ FoundKept' /\ ~Answering' /\ ~Comparing'
  BY <1>11, <1>12, <1>14, <1>15 DEF PassKept, SubmitKept, FoundKept, Answering, Comparing
<1>17. QED
  BY <1>3, <1>5, <1>6, <1>7, <1>11, <1>12, <1>16, MovesKeep DEF EndReconcile

LEMMA CapturePathKeeps == ASSUME ReplicaInv, CapturePath PROVE ReplicaInv'
<1> USE DEF workspace
<1>1. PICK m : InMemory(m)
  BY DEF InMemory
<1>2. sync \in Pass /\ sync.stage = "settle" /\ sync.paths \subseteq Path
  BY <1>1, MemoryHolds, PassTyped DEF CapturePath
<1>3. PICK p \in sync.paths :
        LET next == [sync EXCEPT !.paths = @ \ {p}] IN
        IF Untracked(p)
          THEN HoldLocal(p, next)
          ELSE sync' = next /\ UNCHANGED <<workspace, disk, removing, mem, journal, ids, history>>
  BY DEF CapturePath
<1>4. PICK next : next = [sync EXCEPT !.paths = @ \ {p}]
  OBVIOUS
<1>5. next \in Pass /\ next.stage = "settle" /\ next.ids = sync.ids /\ next.rev = sync.rev
  BY <1>2, <1>4 DEF Pass
<1>6. CASE Untracked(p)
  <2>1. HoldLocal(p, next)
    BY <1>3, <1>4, <1>6
  <2>2. \A x \in m.pending : x.path # p
    BY <1>1, <1>6 DEF Untracked, Touched, InMemory
  <2>3. QED
    BY <1>1, <1>2, <1>5, <2>1, <2>2, HoldLocalKeeps
<1>7. CASE ~Untracked(p)
  <2>1. sync' = next /\ UNCHANGED <<workspace, disk, removing, mem, journal, ids, history>>
    BY <1>3, <1>4, <1>7
  <2>2. Newest' = Newest
    BY <2>1, QuietStep
  <2>3. PassKept'
    BY <1>2, <1>5, <2>1, <2>2 DEF ReplicaInv, PassKept, IdsKept, RevKept, SubmitKept, Recovering,
       Comparing
  <2>4. FoundKept' /\ ~Answering' /\ ~Comparing'
    BY <1>5, <2>1 DEF FoundKept, Answering, Comparing
  <2>5. QED
    BY <1>5, <2>1, <2>3, <2>4, PassMoves
<1>8. QED
  BY <1>6, <1>7

(***************************************************************************)
(* continueRetired, propose.                                               *)
(***************************************************************************)
\* A change whose publication is over becomes a new one.
Renewed(m, x, y, m2) ==
  /\ m2 \in Replica /\ CopyKept(m2)' /\ m2.pending = (m.pending \ {x}) \union {y}
  /\ m2.files = m.files /\ m2.rev = m.rev /\ m2.listed = m.listed
  /\ FilesReach(m2, Newest) /\ AnswersReach(m2, Newest)
  /\ \A z \in m.pending : z.id # y.id

LEMMA FreshKept ==
  ASSUME ReplicaInv, NEW m, InMemory(m), NEW x \in m.pending, Loose(x), x.origin # "agent",
         DrawsId, UNCHANGED <<workspace, disk, removing, history>>, NEW y \in Item, Owned(y)',
         y.id = ids', y.root = x.root, y.key = 0, ~y.proposed, ~y.attempted,
         y.outcome = "none", NEW m2, Equals(m2, Swap(m, {x}, {y}))
  PROVE  Renewed(m, x, y, m2)
<1> USE DEF workspace
<1>1. /\ m \in Replica /\ m.pending \subseteq Item /\ AnswersReach(m, Newest)
      /\ FilesReach(m, Newest) /\ ServerTyped /\ LocalTyped /\ \A z \in m.pending : ItemKept(z)
  BY MemoryHolds
<1>2. ids \in Nat /\ ids' = ids + 1 /\ ids' \in 0..MaxId /\ ids <= ids'
  BY <1>1, NoneTyped DEF LocalTyped, DrawsId
<1>3. /\ ids' \in Id /\ intents[ids'] = None
      /\ \A z \in m.pending : z.id # ids' /\ z.key # ids'
  BY <1>1, <1>2, FreshId DEF ReplicaInv, WorldKept, ItemKept
<1>4. CopyKept(m)' /\ ServerTyped' /\ intents' = intents /\ Newest' = Newest
  BY <1>2, QuietMemory
<1>5. ItemKept(y)'
  <2>1. x.root \in Nat /\ x.root <= ids
    BY <1>1, ItemTyped DEF ItemKept, Numbered
  <2>2. Numbered(y)'
    BY <1>2, <2>1 DEF Numbered
  <2>3. Stands(y)'
    BY <1>3, <1>4 DEF Stands
  <2>4. QED
    BY <2>2, <2>3 DEF ItemKept
<1>6. /\ m2 \in Replica /\ m2.pending = (m.pending \ {x}) \union {y}
      /\ m2.files = m.files /\ m2.rev = m.rev /\ m2.listed = m.listed
  BY <1>1, SwapTyped DEF Equals
<1>7. BatchesKept(m)' /\ AgentKept(m)' /\ ListedKept(m)'
  BY <1>4 DEF CopyKept
<1>8. BatchesKept(Swap(m, {x}, {y}))' /\ AgentKept(Swap(m, {x}, {y}))'
  <2>1. {x} \in SUBSET m.pending /\ \A z \in {x} : Loose(z)'
    BY <1>4 DEF Loose
  <2>2. /\ \A z \in m.pending : z.id # y.id /\ z.key # y.id
        /\ \E z \in {x} : y.root = z.root
    BY <1>3
  <2>3. \A z \in {x} : z.origin # "agent"
    OBVIOUS
  <2>4. QED
    BY <1>1, <1>4, <1>5, <1>7, <2>1, <2>2, <2>3, AddedKept
<1>9. CopyKept(m2)'
  <2>1. ListedKept(m2)'
    BY <1>6, <1>7 DEF ListedKept
  <2>2. BatchesKept(m2)' /\ AgentKept(m2)'
    BY <1>8 DEF Equals
  <2>3. QED
    BY <2>1, <2>2 DEF CopyKept
<1>10. FilesReach(m2, Newest) /\ AnswersReach(m2, Newest)
  BY <1>1, <1>6 DEF FilesReach, AnswersReach
<1>11. QED
  BY <1>3, <1>6, <1>9, <1>10 DEF Renewed

LEMMA FreshItem ==
  ASSUME NEW x \in Item, NEW i \in Id, i = ids + 1
  PROVE  /\ Fresh(x) \in Item /\ Fresh(x).id = i /\ Fresh(x).root = x.root
         /\ Fresh(x).path = x.path /\ Fresh(x).content = x.content
         /\ Fresh(x).origin = x.origin /\ Fresh(x).base = x.base
         /\ Fresh(x).baseRev = x.baseRev /\ Fresh(x).key = 0 /\ Fresh(x).status = "pending"
         /\ Fresh(x).proposed = FALSE /\ Fresh(x).attempted = FALSE /\ Fresh(x).outcome = "none"
  BY DEF Fresh, Item

LEMMA ContinueRetiredKeeps == ASSUME ReplicaInv, ContinueRetired PROVE ReplicaInv'
<1> USE DEF workspace
<1>1. PICK m : InMemory(m)
  BY DEF InMemory
<1>2. /\ m \in Replica /\ m.pending \subseteq Item /\ sync \in Pass
      /\ AnswersReach(m, Newest) /\ FilesReach(m, Newest) /\ ServerTyped /\ LocalTyped
      /\ \A x, y \in m.pending : x.id = y.id => x = y
  BY <1>1, MemoryHolds
<1>3. /\ sync.stage = "settle" /\ UNCHANGED <<workspace, disk, removing, history>>
      /\ \A x \in m.pending : x.id \in sync.ids => x.outcome = "retired"
      /\ \A i \in sync.ids : \E x \in m.pending : x.id = i
      /\ sync.rev <= Newest /\ sync.rev # 0
  BY <1>1 DEF ContinueRetired, ReplicaInv, PassKept, IdsKept, RevKept, InMemory
<1>4. PICK i \in sync.ids : LET x == ItemOf(i) IN
        IF OnSameBase(x)
          THEN DrawsId /\ Records(Swap(mem, {x}, {Fresh(x)}), Done(i))
          ELSE /\ mem' = Marked(x, "conflict")
               /\ sync' = Done(i)
               /\ UNCHANGED <<journal, ids>>
  BY DEF ContinueRetired
<1>5. PICK x : x = ItemOf(i)
  OBVIOUS
<1>6. x \in m.pending /\ x.id = i /\ x \in Item
  BY <1>1, <1>2, <1>5, ItemOfIs DEF ReplicaInv, PassKept, InMemory
<1>7. PICK next : next = Done(i)
  OBVIOUS
<1>8. /\ next \in Pass /\ next.ids = sync.ids \ {i} /\ next.stage = "settle"
      /\ next.rev = sync.rev
  BY <1>2, <1>3, <1>7, DoneTyped
<1>9. ASSUME NEW m2, NEW y, m2.pending = (m.pending \ {x}) \union {y}, y.id \notin sync.ids \ {i},
             mem' = m2, sync' = next
      PROVE  PassKept' /\ FoundKept' /\ ~Answering' /\ ~Comparing'
  <2>1. IdsKept'
    BY <1>2, <1>3, <1>6, <1>8, <1>9 DEF IdsKept, Recovering
  <2>2. RevKept'
    BY <1>3, <1>8, <1>9 DEF RevKept, Comparing, Newest
  <2>3. QED
    BY <1>8, <1>9, <2>1, <2>2 DEF PassKept, SubmitKept, FoundKept, Answering, Comparing
<1>10. CASE OnSameBase(x)
  <2>1. DrawsId /\ Records(Swap(mem, {x}, {Fresh(x)}), next)
    BY <1>4, <1>5, <1>7, <1>10
  <2>2. ids \in Nat /\ ids' = ids + 1 /\ ids' \in 0..MaxId /\ ids <= ids' /\ ids' \in Id
    BY <1>2, <2>1, NoneTyped DEF LocalTyped, DrawsId, Id
  <2>3. PICK y : y = Fresh(x)
    OBVIOUS
  <2>4. /\ y \in Item /\ y.id = ids' /\ y.root = x.root /\ y.content = x.content
        /\ y.origin = x.origin /\ y.baseRev = x.baseRev /\ y.key = 0 /\ y.status = "pending"
        /\ y.proposed = FALSE /\ y.attempted = FALSE /\ y.outcome = "none"
    BY <1>6, <2>2, <2>3, FreshItem
  <2>5. ItemKept(x) /\ x.outcome = "retired"
    BY <1>1, <1>3, <1>6, MemoryHolds
  <2>6. Loose(x) /\ x.key # 0
    BY <2>5 DEF ItemKept, Stands, Loose
  <2>7. x.origin = "human" /\ Owned(y)'
    BY <1>3, <2>4, <2>5, <2>6 DEF ItemKept, Owned, history
  <2>8. PICK m2 : Equals(m2, Swap(m, {x}, {y}))
    BY DEF Equals
  <2>13. Renewed(m, x, y, m2)
    BY <1>1, <1>3, <1>6, <2>1, <2>4, <2>6, <2>7, <2>8, FreshKept
  <2>9. /\ m2 \in Replica /\ CopyKept(m2)' /\ m2.pending = (m.pending \ {x}) \union {y}
        /\ FilesReach(m2, Newest) /\ AnswersReach(m2, Newest)
        /\ \A z \in m.pending : z.id # y.id
    BY <2>13 DEF Renewed
  <2>10. Records(m2, next)
    BY <1>1, <2>1, <2>3, <2>8 DEF InMemory, Equals
  <2>11. y.id \notin sync.ids
    BY <1>3, <2>9
  <2>12. QED
    BY <1>3, <1>8, <1>9, <2>2, <2>9, <2>10, <2>11, QuietRecordsKeep
<1>11. CASE ~OnSameBase(x)
  <2>1. mem' = Marked(x, "conflict") /\ sync' = next /\ UNCHANGED <<journal, ids>>
    BY <1>4, <1>5, <1>7, <1>11
  <2>2. PICK m2 : m2 = Marked(x, "conflict")
    OBVIOUS
  <2>3. "conflict" \in {"publishing", "review", "conflict", "held"}
    OBVIOUS
  <2>4. /\ m2 \in Replica /\ CopyKept(m2)' /\ m2.files = m.files
        /\ m2.pending = (m.pending \ {x}) \union {[x EXCEPT !.status = "conflict"]}
        /\ FilesReach(m2, Newest) /\ AnswersReach(m2, Newest)
    BY <1>1, <1>2, <1>3, <1>6, <2>1, <2>2, <2>3, MarkedGoes
  <2>5. [x EXCEPT !.status = "conflict"].id = i
    BY <1>6, <2>3, MarkedItem DEF SameChange
  <2>6. PassKept' /\ FoundKept' /\ ~Answering' /\ ~Comparing'
    BY <1>9, <2>1, <2>2, <2>4, <2>5
  <2>7. QED
    BY <1>3, <1>8, <2>1, <2>2, <2>4, <2>6, MovesKeep
<1>12. QED
  BY <1>10, <1>11

LEMMA EndSettleKeeps == ASSUME ReplicaInv, EndSettle PROVE ReplicaInv'
<1> USE DEF workspace
<1>1. PICK m : InMemory(m)
  BY DEF InMemory
<1>2. /\ m \in Replica /\ m.pending \subseteq Item /\ sync \in Pass
      /\ AnswersReach(m, Newest) /\ FilesReach(m, Newest)
  BY <1>1, MemoryHolds
<1>3. /\ UNCHANGED <<workspace, disk, removing, ids, history>>
      /\ ids' \in 0..MaxId /\ ids <= ids' /\ Newest' = Newest
  BY QuietStep DEF EndSettle
<1>4. CopyKept(m)'
  BY <1>1, <1>3, QuietMemory
<1>5. PICK next : next = [sync EXCEPT !.stage = "propose",
                            !.ids = {x.id : x \in {y \in m.pending : y.status = "pending"}}]
  OBVIOUS
<1>6. /\ next \in Pass /\ next.stage = "propose" /\ next.rev = sync.rev
      /\ next.ids = {x.id : x \in {y \in m.pending : y.status = "pending"}}
  <2>1. {x.id : x \in {y \in m.pending : y.status = "pending"}} \subseteq Id
    BY <1>2, ItemTyped
  <2>2. QED
    BY <1>2, <1>5, <2>1 DEF Pass, Stages
<1>7. Records(m, next)
  BY <1>1, <1>5 DEF EndSettle, InMemory
<1>8. ASSUME mem' = m, journal' = m, sync' = next
      PROVE  PassKept' /\ FoundKept' /\ ~Answering' /\ ~Comparing'
  <2>1. IdsKept'
    BY <1>6, <1>8 DEF IdsKept, Recovering
  <2>2. RevKept'
    BY <1>3, <1>6, <1>8 DEF ReplicaInv, PassKept, RevKept, Recovering, Comparing
  <2>3. QED
    BY <1>6, <1>8, <2>1, <2>2 DEF PassKept, SubmitKept, FoundKept, Answering, Comparing
<1>9. QED
  BY <1>2, <1>3, <1>4, <1>6, <1>7, <1>8, QuietRecordsKeep

LEMMA ProposeItemKeeps ==
  ASSUME ReplicaInv, sync.stage = "propose", NEW m, InMemory(m), NEW x \in m.pending,
         x.id \in sync.ids, ProposeItem(x)
  PROVE  ReplicaInv'
<1> USE DEF workspace
<1>1. /\ UNCHANGED <<workspace, disk, removing, ids, history>>
      /\ ids' \in 0..MaxId /\ ids <= ids' /\ Newest' = Newest
  BY QuietStep DEF ProposeItem
<1>2. /\ m \in Replica /\ m.pending \subseteq Item /\ sync \in Pass /\ ItemKept(x) /\ x \in Item
      /\ AnswersReach(m, Newest) /\ FilesReach(m, Newest)
      /\ \A y \in m.pending : ItemKept(y)
  BY MemoryHolds
<1>3. /\ journal = m /\ sync.rev <= Newest
      /\ \A i \in sync.ids : \E y \in m.pending : y.id = i
  BY DEF ReplicaInv, PassKept, SubmitKept, RevKept, IdsKept, InMemory
<1>4. CopyKept(m)' /\ ServerTyped'
  BY <1>1, QuietMemory
<1>5. PICK next : next = Done(x.id)
  OBVIOUS
<1>6. next \in Pass /\ next.ids = sync.ids \ {x.id} /\ next.stage = "propose" /\ next.rev = sync.rev
  BY <1>2, <1>5, DoneTyped
<1>7. PICK dispatch : dispatch = [next EXCEPT !.stage = "dispatch", !.key = x.id]
  OBVIOUS
<1>8. /\ dispatch \in Pass /\ dispatch.ids = next.ids /\ dispatch.stage = "dispatch"
      /\ dispatch.rev = sync.rev /\ dispatch.key = x.id
  BY <1>2, <1>6, <1>7, ItemTyped DEF Pass, Stages
<1>9. ASSUME NEW m2, NEW go \in {next, dispatch}, mem' = m2, journal' = m2, sync' = go,
             \A y \in m.pending : \E z \in m2.pending : z.id = y.id,
             go = dispatch => \E z \in m2.pending : z.id = x.id /\ z.key = x.id
      PROVE  PassKept' /\ FoundKept' /\ ~Answering' /\ ~Comparing'
  <2>1. IdsKept'
    BY <1>3, <1>6, <1>8, <1>9 DEF IdsKept, Recovering
  <2>2. RevKept'
    BY <1>1, <1>3, <1>6, <1>8, <1>9 DEF RevKept, Recovering, Comparing
  <2>3. SubmitKept'
    BY <1>6, <1>8, <1>9 DEF SubmitKept
  <2>4. QED
    BY <1>6, <1>8, <1>9, <2>1, <2>2, <2>3 DEF PassKept, FoundKept, Answering, Comparing
<1>10. ASSUME NEW go \in {next, dispatch}, go = dispatch => x.key = x.id, sync' = go,
              UNCHANGED <<mem, journal>>
       PROVE  ReplicaInv'
  <2>1. mem' = m /\ journal' = m
    BY <1>3, <1>10 DEF InMemory
  <2>2. PassKept' /\ FoundKept' /\ ~Answering' /\ ~Comparing'
    BY <1>9, <1>10, <2>1
  <2>3. go \in Pass
    BY <1>6, <1>8
  <2>4. QED
    BY <1>1, <1>10, <2>2, <2>3, PassMoves
<1>11. ASSUME Records(Marked(x, "conflict"), next) PROVE ReplicaInv'
  <2>1. PICK m2 : m2 = Marked(x, "conflict")
    OBVIOUS
  <2>2. "conflict" \in {"publishing", "review", "conflict", "held"}
    OBVIOUS
  <2>3. /\ m2 \in Replica /\ CopyKept(m2)' /\ Follows(m, m2)
        /\ FilesReach(m2, Newest) /\ AnswersReach(m2, Newest)
    BY <1>1, <1>2, <2>1, <2>2, MarkedGoes
  <2>4. \A y \in m.pending : \E z \in m2.pending : z.id = y.id
    BY <2>3 DEF Follows, SameChange
  <2>5. Records(m2, next)
    BY <1>11, <2>1
  <2>6. next # dispatch
    BY <1>6, <1>8
  <2>7. mem' = m2 /\ journal' = m2 /\ sync' = next =>
          PassKept' /\ FoundKept' /\ ~Answering' /\ ~Comparing'
    BY <1>9, <2>4, <2>6
  <2>8. QED
    BY <1>1, <1>6, <2>3, <2>5, <2>7, QuietRecordsKeep
<1>12. ASSUME x.status = "pending", x.key = 0,
              Records(Swap(mem, BatchWith(x), {[y EXCEPT !.key = x.id] : y \in BatchWith(x)}),
                      dispatch)
       PROVE  ReplicaInv'
  <2>1. PICK B : B = BatchWith(x)
    OBVIOUS
  <2>2. /\ B \in SUBSET m.pending /\ x \in B
        /\ \A y \in B : y.key = 0 /\ y.status = "pending"
    <3>1. x.origin = "human"
      BY <1>2, <1>12 DEF ItemKept, Owned
    <3>2. QED
      BY <1>12, <2>1, <3>1 DEF BatchWith, InMemory
  <2>3. PICK new : new = {[y EXCEPT !.key = x.id] : y \in B}
    OBVIOUS
  <2>4. \A z : z \in new <=> \E y \in B : z = [y EXCEPT !.key = x.id]
    BY <2>3
  <2>5. \A y \in B : /\ [y EXCEPT !.key = x.id] \in Item /\ [y EXCEPT !.key = x.id].key = x.id
                     /\ [y EXCEPT !.key = x.id].id = y.id
                     /\ [y EXCEPT !.key = x.id].path = y.path
                     /\ [y EXCEPT !.key = x.id].content = y.content
                     /\ [y EXCEPT !.key = x.id].outcome = y.outcome
    BY <1>2, <2>2, ItemTyped, KeyedItem
  <2>6. new \in SUBSET Item
    BY <2>4, <2>5
  <2>7. PICK m2 : m2 = Swap(m, B, new)
    OBVIOUS
  <2>8. /\ m2 \in Replica /\ m2.pending = (m.pending \ B) \union new
        /\ m2.files = m.files /\ m2.rev = m.rev /\ m2.listed = m.listed
    BY <1>2, <2>6, <2>7, SwapTyped
  <2>9. x.id <= ids'
    BY <1>1, <1>2 DEF ItemKept, Numbered
  <2>10. CopyKept(m2)'
    BY <1>2, <1>4, <2>2, <2>4, <2>8, <2>9, KeyedKept
  <2>11. FilesReach(m2, Newest) /\ AnswersReach(m2, Newest)
    <3>1. FilesReach(m2, Newest)
      BY <1>2, <2>8 DEF FilesReach
    <3>2. \A z \in m2.pending : \E y \in m.pending :
            z.outcome = y.outcome /\ z.content = y.content /\ z.path = y.path
      <4> TAKE z \in m2.pending
      <4>1. CASE z \in m.pending
        BY <4>1
      <4>2. CASE z \in new
        <5>1. PICK y \in B : z = [y EXCEPT !.key = x.id]
          BY <2>4, <4>2
        <5>2. QED
          BY <2>2, <2>5, <5>1
      <4>3. QED
        BY <2>8, <4>1, <4>2
    <3>3. QED
      BY <1>2, <3>1, <3>2 DEF AnswersReach
  <2>12. \A y \in m.pending : \E z \in m2.pending : z.id = y.id
    BY <2>2, <2>4, <2>5, <2>8
  <2>13. \E z \in m2.pending : z.id = x.id /\ z.key = x.id
    BY <2>2, <2>4, <2>5, <2>8
  <2>14. mem' = m2 /\ journal' = m2 /\ sync' = dispatch =>
           PassKept' /\ FoundKept' /\ ~Answering' /\ ~Comparing'
    BY <1>9, <2>12, <2>13
  <2>15. Records(m2, dispatch)
    BY <1>12, <2>1, <2>3, <2>7 DEF InMemory
  <2>16. QED
    BY <1>1, <1>8, <2>8, <2>10, <2>11, <2>14, <2>15, QuietRecordsKeep
<1>13. QED
  BY <1>5, <1>6, <1>7, <1>8, <1>10, <1>11, <1>12 DEF ProposeItem

LEMMA ProposeKeeps == ASSUME ReplicaInv, Propose PROVE ReplicaInv'
<1>1. PICK m : InMemory(m)
  BY DEF InMemory
<1>2. PICK i \in sync.ids : ProposeItem(ItemOf(i))
  BY DEF Propose
<1>3. PICK x : x = ItemOf(i)
  OBVIOUS
<1>4. x \in m.pending /\ x.id \in sync.ids
  BY <1>1, <1>3, ItemOfIs DEF ReplicaInv, PassKept, InMemory
<1>5. QED
  BY <1>1, <1>2, <1>3, <1>4, ProposeItemKeeps DEF Propose

\* The proposal of a batch is on the server, as the batch is.
LEMMA ProposedStays ==
  ASSUME ReplicaInv, sync.stage = "dispatch", NEW m, InMemory(m),
         intents' \in {intents, Proposed(sync.key)}, UNCHANGED <<line, disk, removing, ids, history>>
  PROVE  /\ ServerTyped' /\ LocalTyped' /\ WorldKept' /\ DiskKept' /\ CopyKept(m)'
         /\ Newest' = Newest
<1> USE DEF workspace, history
<1>1. /\ m \in Replica /\ m.pending \subseteq Item /\ CopyKept(m) /\ ServerTyped /\ LocalTyped
      /\ \A x \in m.pending : ItemKept(x)
  BY MemoryHolds
<1>2. PICK k : k = sync.key
  OBVIOUS
<1>3. PICK lead \in m.pending : lead.id = k /\ lead.key = k
  BY <1>2 DEF ReplicaInv, PassKept, SubmitKept, InMemory
<1>4. Newest' = Newest /\ ids' \in 0..MaxId /\ ids' \in Nat /\ ids <= ids'
  BY <1>1, NoneTyped DEF Newest, LocalTyped
<1>5. CASE intents' = intents
  <2>1. ServerTyped' /\ LocalTyped' /\ WorldKept' /\ DiskKept'
    BY <1>4, <1>5, QuietStays
  <2>2. CopyKept(m)'
    BY <1>1, <1>4, <1>5, CopyStays
  <2>3. QED
    BY <1>4, <2>1, <2>2
<1>6. CASE intents' # intents
  <2>0. PICK B : B = {x \in m.pending : x.key = k}
    OBVIOUS
  <2>1. PICK changes : changes = {ChangeOf(x) : x \in B}
    OBVIOUS
  <2>2. /\ k \in Id /\ k <= ids /\ k # 0
    BY <1>1, <1>3, ItemTyped DEF ItemKept, Numbered, Id
  <2>3. /\ intents[k] = None
        /\ intents' = [intents EXCEPT ![k] = [state |-> "ready", changes |-> changes]]
    BY <1>2, <1>6, <2>0, <2>1 DEF Proposed, ChangesOf, ChangeOf, Batch, InMemory
  <2>4. \A c \in changes : \E x \in B : c = ChangeOf(x)
    BY <2>1
  <2>5. \A x \in B : ChangeOf(x) \in changes
    BY <2>1
  <2>6. \A x \in B : /\ ChangeOf(x) \in Change /\ ChangeOf(x).root <= ids
                     /\ ChangeOf(x).content \in (made \ tainted) \union {None}
    <3> TAKE x \in B
    <3>1. x \in Item /\ ItemKept(x) /\ x.key # 0
      BY <1>1, <2>0, <2>2
    <3>2. /\ ChangeOf(x).root = x.root /\ ChangeOf(x).content = x.content
          /\ ChangeOf(x) \in Change
      BY <3>1, ItemTyped DEF ChangeOf, Change
    <3>3. x.origin = "human" /\ x.content \in made \union {None}
      BY <3>1 DEF ItemKept, Owned
    <3>4. x.content \notin tainted
      BY <3>1, <3>3 DEF ItemKept, Owned
    <3>5. x.root <= ids
      BY <3>1 DEF ItemKept, Numbered
    <3>6. QED
      BY <3>2, <3>3, <3>4, <3>5
  <2>7. changes \in SUBSET Change
    BY <2>4, <2>6
  <2>8. PICK new : new = [state |-> "ready", changes |-> changes]
    OBVIOUS
  <2>9. new \in Intent /\ new # None /\ new.state = "ready" /\ new.changes = changes
    BY <2>7, <2>8, NoneTyped DEF Intent
  <2>10. /\ intents' \in [Id -> Intent \union {None}] /\ intents'[k] = new
         /\ \A j \in Id : j # k => intents'[j] = intents[j]
    BY <1>1, <2>2, <2>3, <2>8, <2>9 DEF ServerTyped
  <2>11. ServerTyped' /\ LocalTyped'
    BY <1>1, <2>10 DEF ServerTyped, LocalTyped
  <2>12. LineKept' /\ DiskKept'
    BY <1>4 DEF ReplicaInv, WorldKept, LineKept, DiskKept, EditsAreKept, Spared, Stored
  <2>13. IntentsKept'
    <3>1. \A p, c, n : Reaches(p, c, n)' <=> Reaches(p, c, n)
      BY DEF Reaches
    <3>2. ASSUME NEW j \in Id, intents'[j] # None
          PROVE  /\ j <= ids'
                 /\ \A c \in intents'[j].changes :
                      /\ c.root <= ids'
                      /\ c.content \in (made' \ tainted') \union {None}
                      /\ intents'[j].state = "applied" /\ c.content # None =>
                           Reaches(c.path, c.content, Newest)'
      <4>1. CASE j = k
        BY <2>2, <2>4, <2>6, <2>9, <2>10, <4>1
      <4>2. CASE j # k
        BY <1>4, <2>10, <3>1, <3>2, <4>2 DEF ReplicaInv, WorldKept, IntentsKept
      <4>3. QED
        BY <4>1, <4>2
    <3>3. QED
      BY <3>2 DEF IntentsKept
  <2>14. \A j \in Id : Submitted(j)' => j # k /\ Submitted(j) /\ intents'[j] = intents[j]
    BY <2>9, <2>10 DEF Submitted, IntentIs
  <2>15. NoneTwice'
    BY <2>14 DEF ReplicaInv, WorldKept, NoneTwice
  <2>16. \A x \in m.pending : x.key = k => ~x.proposed
    BY <1>1, <2>3 DEF ItemKept, Stands
  <2>17. \A x \in m.pending : ItemKept(x)'
    <3> TAKE x \in m.pending
    <3>1. ItemKept(x) /\ x.key \in Nat /\ x.id \in Id /\ (x.key # 0 => x.key \in Id)
      BY <1>1, ItemTyped
    <3>2. Numbered(x)' /\ Owned(x)'
      BY <3>1 DEF ItemKept, Numbered, Owned
    <3>3. x.key = 0 => x.id # k
      BY <1>1, <1>3 DEF CopyKept, BatchesKept, Distinct
    <3>4. x.key = k => ChangeOf(x) \in intents'[k].changes
      BY <2>0, <2>5, <2>9, <2>10
    <3>5. QED
      <4>1. Stands(x)'
        <5>1. CASE x.key = k
          BY <2>2, <2>16, <3>1, <3>4, <5>1 DEF ItemKept, Stands
        <5>2. CASE x.key # k
          BY <2>10, <3>1, <3>3, <5>2 DEF ItemKept, Stands
        <5>3. QED
          BY <5>1, <5>2
      <4>2. QED
        BY <3>2, <4>1 DEF ItemKept
  <2>18. Whole(m)'
    <3>1. \A x \in m.pending : x.proposed => x.key \in Id /\ x.key # k
      BY <1>1, <2>16, ItemTyped DEF ItemKept, Stands
    <3>2. \A j \in Id : j # k /\ IntentIs(j, {"ready", "pending"})' =>
            IntentIs(j, {"ready", "pending"}) /\ intents'[j] = intents[j]
      BY <2>10 DEF IntentIs
    <3>3. QED
      BY <1>1, <3>1, <3>2 DEF CopyKept, BatchesKept, Whole
  <2>19. Waits(m)'
    BY <1>1, <2>14 DEF CopyKept, BatchesKept, Waits
  <2>20. Distinct(m)' /\ Together(m)' /\ AgentKept(m)' /\ ListedKept(m)'
    BY <1>1, <1>4 DEF CopyKept, BatchesKept, Distinct, Together, AgentKept, ListedKept
  <2>21. CopyKept(m)'
    BY <2>17, <2>18, <2>19, <2>20 DEF CopyKept, BatchesKept
  <2>22. QED
    BY <1>4, <2>11, <2>12, <2>13, <2>15, <2>21 DEF WorldKept
<1>7. QED
  BY <1>5, <1>6

LEMMA ReviewedItem ==
  ASSUME NEW x \in Item
  PROVE  LET y == [x EXCEPT !.proposed = TRUE, !.status = "review"]
         IN  /\ y \in Item /\ SameChange(x, y) /\ y.proposed = TRUE
             /\ y.attempted = x.attempted /\ y.outcome = x.outcome /\ y.status = "review"
  BY DEF Item, SameChange

LEMMA DispatchProposalKeeps == ASSUME ReplicaInv, DispatchProposal PROVE ReplicaInv'
<1> USE DEF history
<1>1. PICK m : InMemory(m)
  BY DEF InMemory
<1>2. PICK k : k = sync.key
  OBVIOUS
<1>3. PICK B : B = {x \in m.pending : x.key = k}
  OBVIOUS
<1>4. /\ UNCHANGED <<line, disk, removing, ids, history>> /\ sync.stage = "dispatch"
      /\ intents' \in {intents, Proposed(sync.key)}
  BY DEF DispatchProposal
<1>5. /\ ServerTyped' /\ LocalTyped' /\ WorldKept' /\ DiskKept' /\ CopyKept(m)'
      /\ Newest' = Newest
  BY <1>1, <1>4, ProposedStays
<1>6. /\ m \in Replica /\ m.pending \subseteq Item /\ sync \in Pass /\ CopyKept(m)
      /\ AnswersReach(m, Newest) /\ FilesReach(m, Newest) /\ Newest \in Nat
      /\ \A x \in m.pending : ItemKept(x)
  BY <1>1, MemoryHolds
<1>7. /\ journal = m /\ sync.rev <= Newest
      /\ \A i \in sync.ids : \E y \in m.pending : y.id = i
  BY <1>1, <1>4 DEF ReplicaInv, PassKept, SubmitKept, RevKept, IdsKept, InMemory
<1>8. AnswersReach(m, Newest)' /\ FilesReach(m, Newest)'
  BY <1>4, <1>5, <1>6 DEF AnswersReach, FilesReach, Reaches
<1>9. PICK lead \in m.pending : lead.id = k /\ lead.key = k
  BY <1>1, <1>2, <1>4 DEF ReplicaInv, PassKept, SubmitKept, InMemory
<1>10. k \in Id /\ k # 0 /\ lead \in B
  BY <1>3, <1>6, <1>9, ItemTyped DEF Id
<1>11. PICK next : next = [sync EXCEPT !.stage = "propose", !.key = 0]
  OBVIOUS
<1>12. next \in Pass /\ next.stage = "propose" /\ next.ids = sync.ids /\ next.rev = sync.rev
  BY <1>6, <1>11 DEF Pass, Stages
<1>13. PICK submit : submit = [next EXCEPT !.stage = "attempt", !.key = k, !.back = "propose"]
  OBVIOUS
<1>14. /\ submit \in Pass /\ submit.stage = "attempt" /\ submit.ids = sync.ids
       /\ submit.rev = sync.rev /\ submit.key = k /\ submit.back = "propose"
  BY <1>10, <1>12, <1>13 DEF Pass, Stages
<1>15. ASSUME NEW m2, NEW go \in {next, submit}, mem' = m2, journal' = m2, sync' = go,
              \A y \in m.pending : \E z \in m2.pending : z.id = y.id,
              go = submit => \E z \in m2.pending : z.key = k /\ z.proposed
       PROVE  PassKept' /\ FoundKept' /\ ~Answering' /\ ~Comparing'
  <2>1. IdsKept'
    BY <1>7, <1>12, <1>14, <1>15 DEF IdsKept, Recovering
  <2>2. RevKept'
    BY <1>5, <1>7, <1>12, <1>14, <1>15 DEF RevKept, Recovering, Comparing
  <2>3. SubmitKept'
    BY <1>12, <1>14, <1>15 DEF SubmitKept
  <2>4. QED
    BY <1>12, <1>14, <1>15, <2>1, <2>2, <2>3 DEF PassKept, FoundKept, Answering, Comparing
<1>16. ASSUME intents[k] # None => intents[k].changes = ChangesOf(B), intents' = Proposed(k),
              Records(Swap(mem, B, {[x EXCEPT !.proposed = TRUE, !.status = "review"] : x \in B}),
                      submit)
       PROVE  ReplicaInv'
  <2>1. PICK g : g = [x \in B |-> [x EXCEPT !.proposed = TRUE, !.status = "review"]]
    OBVIOUS
  <2>2. \A x \in B : /\ x \in m.pending /\ x \in Item /\ x.key = k
                     /\ g[x] \in Item /\ SameChange(x, g[x]) /\ g[x].proposed = TRUE
                     /\ g[x].attempted = x.attempted /\ g[x].outcome = x.outcome
                     /\ g[x].status = "review"
    <3> SUFFICES ASSUME NEW x \in B
                 PROVE  /\ x \in m.pending /\ x \in Item /\ x.key = k
                        /\ g[x] \in Item /\ SameChange(x, g[x]) /\ g[x].proposed = TRUE
                        /\ g[x].attempted = x.attempted /\ g[x].outcome = x.outcome
                        /\ g[x].status = "review"
      BY Zenon
    <3>1. x \in m.pending /\ x \in Item /\ x.key = k
      BY <1>3, <1>6
    <3>2. g[x] = [x EXCEPT !.proposed = TRUE, !.status = "review"]
      BY <2>1
    <3>3. QED
      BY <3>1, <3>2, ReviewedItem
  <2>3. PICK new : new = {[x EXCEPT !.proposed = TRUE, !.status = "review"] : x \in B}
    OBVIOUS
  <2>4. \A z : z \in new <=> \E x \in B : z = g[x]
    BY <2>1, <2>3
  <2>5. PICK m2 : m2 = Swap(m, B, new)
    OBVIOUS
  <2>6. new \in SUBSET Item
    BY <2>2, <2>4
  <2>7. /\ m2 \in Replica /\ m2.pending = (m.pending \ B) \union new
        /\ m2.files = m.files /\ m2.rev = m.rev /\ m2.listed = m.listed
    BY <1>6, <2>5, <2>6, SwapTyped
  <2>8. intents'[k] # None /\ intents'[k].changes = ChangesOf(B)
    <3>1. CASE intents[k] # None
      BY <1>16, <3>1 DEF Proposed
    <3>2. CASE intents[k] = None
      <4>1. PICK i : i = [state |-> "ready", changes |-> ChangesOf(B)]
        OBVIOUS
      <4>2. intents' = [intents EXCEPT ![k] = i]
        BY <1>1, <1>3, <1>16, <3>2, <4>1 DEF Proposed, Batch, InMemory
      <4>3. intents \in [Id -> Intent \union {None}] /\ intents' \in [Id -> Intent \union {None}]
        BY <1>5, <1>6, ReplicaTypeParts DEF ServerTyped, ReplicaInv
      <4>4. intents'[k] = i
        BY <1>10, <4>2, <4>3
      <4>5. i.changes = ChangesOf(B)
        BY <4>1
      <4>6. i # None
        <5>1. \A x \in B : ChangeOf(x) \in Change
          BY <2>2, ItemTyped DEF ChangeOf, Change
        <5>2. ChangesOf(B) \in SUBSET Change
          BY <5>1 DEF ChangesOf, ChangeOf
        <5>3. i \in Intent
          BY <4>1, <5>2 DEF Intent
        <5>4. QED
          BY <5>3, NoneTyped
      <4>7. QED
        BY <4>4, <4>5, <4>6
    <3>3. QED
      BY <3>1, <3>2
  <2>9. Matched(m, k)'
    <3>1. \A c \in ChangesOf(B) : \E x \in B : ChangeOf(x) = c
      BY DEF ChangesOf, ChangeOf
    <3>2. QED
      BY <2>2, <2>8, <3>1 DEF Matched
  <2>10. \A x \in B : ItemKept(g[x])'
    <3> TAKE x \in B
    <3>1. ItemKept(x)' /\ x.key = k
      BY <1>5, <2>2 DEF CopyKept, BatchesKept
    <3>2. Numbered(g[x])' /\ Owned(g[x])'
      BY <2>2, <3>1 DEF ItemKept, Numbered, Owned, SameChange
    <3>3. Stands(g[x])'
      <4>1. ChangeOf(g[x]) = ChangeOf(x) /\ g[x].key = x.key /\ g[x].id = x.id
        BY <2>2, SameItem DEF SameChange
      <4>2. QED
        BY <1>10, <2>2, <2>8, <3>1, <4>1 DEF ItemKept, Stands
    <3>4. QED
      BY <3>2, <3>3 DEF ItemKept
  <2>11. CopyKept(m2)'
    <3>1. /\ B \in SUBSET m.pending /\ \A x \in m.pending : x \in B <=> x.key = k
          /\ g \in [B -> Item]
      BY <1>3, <2>1, <2>2
    <3>2. \A x \in B : Advances(m, x, g[x])
      BY <2>2, <2>9, <2>10 DEF Advances
    <3>3. \A x, y \in B : (x.attempted => y.attempted)
      BY <1>5, <2>2, <2>10 DEF CopyKept, BatchesKept, Together
    <3>4. \A x, y \in B : /\ g[x].proposed => g[y].proposed
                          /\ g[x].attempted => g[y].attempted
      BY <2>2, <3>3
    <3>5. Rewrites(m, m2, k, B, g, new)
      BY <2>4, <2>7, <3>1, <3>2, <3>4 DEF Rewrites
    <3>6. QED
      BY <1>5, <1>6, <2>7, <3>5, BatchKept
  <2>12. FilesReach(m2, Newest)' /\ AnswersReach(m2, Newest)'
    <3>1. FilesReach(m2, Newest)'
      BY <1>8, <2>7 DEF FilesReach
    <3>2. \A y \in m2.pending : \E x \in m.pending :
            y.outcome = x.outcome /\ y.content = x.content /\ y.path = x.path
      BY <2>2, <2>4, <2>7 DEF SameChange
    <3>3. QED
      BY <1>8, <3>1, <3>2 DEF AnswersReach
  <2>13. /\ \A y \in m.pending : \E z \in m2.pending : z.id = y.id
         /\ \E z \in m2.pending : z.key = k /\ z.proposed
    BY <1>10, <2>2, <2>4, <2>7 DEF SameChange
  <2>14. mem' = m2 /\ journal' = m2 /\ sync' = submit =>
           PassKept' /\ FoundKept' /\ ~Answering' /\ ~Comparing'
    BY <1>15, <2>13
  <2>15. Records(m2, submit)
    BY <1>1, <1>16, <2>3, <2>5 DEF InMemory
  <2>16. QED
    BY <1>5, <1>6, <1>7, <1>8, <1>14, <2>7, <2>11, <2>12, <2>14, <2>15, RecordsKeep
<1>17. ASSUME sync' = next, UNCHANGED <<mem, journal>> PROVE ReplicaInv'
  <2>1. mem' = m /\ journal' = m
    BY <1>1, <1>7, <1>17 DEF InMemory
  <2>2. next # submit
    BY <1>12, <1>14
  <2>3. PassKept' /\ FoundKept' /\ ~Answering' /\ ~Comparing'
    BY <1>15, <1>17, <2>1, <2>2
  <2>4. QED
    BY <1>5, <1>6, <1>8, <1>12, <1>17, <2>1, <2>3, Assembled
<1>18. ASSUME NEW status \in {"conflict", "held"}, UNCHANGED intents,
              Records(Marked(ItemOf(k), status), next)
       PROVE  ReplicaInv'
  <2>1. ItemOf(k) \in m.pending
    BY <1>1, <1>9 DEF ItemOf, InMemory
  <2>2. PICK x \in m.pending : x = ItemOf(k)
    BY <2>1
  <2>3. PICK m2 : m2 = Marked(x, status)
    OBVIOUS
  <2>4. UNCHANGED <<workspace, disk, removing, ids, history>> /\ ids' \in 0..MaxId /\ ids <= ids'
    BY <1>4, <1>18, QuietStep DEF workspace
  <2>5. status \in {"publishing", "review", "conflict", "held"}
    OBVIOUS
  <2>6. /\ m2 \in Replica /\ CopyKept(m2)' /\ Follows(m, m2)
        /\ FilesReach(m2, Newest) /\ AnswersReach(m2, Newest)
    BY <1>1, <1>6, <2>3, <2>4, <2>5, MarkedGoes
  <2>7. \A y \in m.pending : \E z \in m2.pending : z.id = y.id
    BY <2>6 DEF Follows, SameChange
  <2>8. Records(m2, next) /\ next # submit
    BY <1>12, <1>14, <1>18, <2>2, <2>3
  <2>9. mem' = m2 /\ journal' = m2 /\ sync' = next =>
          PassKept' /\ FoundKept' /\ ~Answering' /\ ~Comparing'
    BY <1>15, <2>7, <2>8
  <2>10. QED
    BY <1>12, <2>4, <2>6, <2>8, <2>9, QuietRecordsKeep
<1>19. B = Batch(k)
  BY <1>1, <1>3 DEF Batch, InMemory
<1>20. QED
  BY <1>2, <1>11, <1>13, <1>16, <1>17, <1>18, <1>19 DEF DispatchProposal

LEMMA EndSyncKeeps == ASSUME ReplicaInv, EndSync \/ EndEarly PROVE ReplicaInv'
<1>1. sync' = AtRest /\ UNCHANGED <<workspace, disk, removing, mem, journal, ids, history>>
  BY DEF EndSync, EndEarly
<1>2. Newest' \in Nat
  BY <1>1, MemoryHolds DEF InMemory, Newest, workspace
<1>3. PassKept' /\ FoundKept' /\ ~Answering' /\ ~Comparing'
  BY <1>1, <1>2, RestKeeps
<1>4. QED
  BY <1>1, <1>3, AtRestTyped, PassMoves

LEMMA RestartKeeps == ASSUME ReplicaInv, Restart PROVE ReplicaInv'
<1> USE DEF workspace
<1>1. PICK j : j = journal
  OBVIOUS
<1>2. /\ j \in Replica /\ CopyKept(j) /\ FilesReach(j, Newest) /\ AnswersReach(j, Newest)
  BY <1>1 DEF ReplicaInv, ReplicaTypeOK, ReachKept
<1>3. /\ UNCHANGED <<workspace, disk, ids, history>> /\ mem' = j /\ journal' = j
      /\ sync' = AtRest /\ removing' = {}
  BY <1>1 DEF Restart
<1>4. Newest \in Nat /\ disk \in [Path -> Image]
  BY MemoryHolds DEF InMemory, LocalTyped
<1>5. /\ ServerTyped' /\ LocalTyped' /\ WorldKept' /\ DiskKept' /\ Newest' = Newest
      /\ \A m \in Replica : CopyKept(m) => CopyKept(m)'
  BY <1>3, <1>4, DiskStep
<1>6. CopyKept(j)'
  BY <1>2, <1>5
<1>7. FilesReach(j, Newest)' /\ AnswersReach(j, Newest)'
  BY <1>2, <1>3, <1>5 DEF FilesReach, AnswersReach, Reaches
<1>8. PassKept' /\ FoundKept' /\ ~Answering' /\ ~Comparing'
  BY <1>3, <1>4, <1>5, RestKeeps
<1>9. QED
  BY <1>2, <1>3, <1>5, <1>6, <1>7, <1>8, AtRestTyped, Assembled

(***************************************************************************)
(* prepareRecovery.                                                        *)
(***************************************************************************)
\* The copy that is published on the base b.
OnBase(x, b, r) == [Fresh(x) EXCEPT !.origin = "human", !.base = b, !.baseRev = r]

Copies(x, i, r, y) ==
  /\ y \in Item /\ y.id = i /\ y.root = x.root /\ y.path = x.path /\ y.content = x.content
  /\ y.origin = "human" /\ y.baseRev = r /\ y.key = 0 /\ y.status = "pending"
  /\ y.proposed = FALSE /\ y.attempted = FALSE /\ y.outcome = "none"

LEMMA CopyItem ==
  ASSUME NEW x \in Item, NEW i \in Id, i = ids + 1, NEW b \in Image, NEW r \in Rev \union {0},
         NEW y, Equals(y, OnBase(x, b, r))
  PROVE  Copies(x, i, r, y)
<1>1. PICK f : f = Fresh(x)
  OBVIOUS
<1>2. /\ f \in Item /\ f.id = i /\ f.root = x.root /\ f.path = x.path
      /\ f.content = x.content /\ f.key = 0 /\ f.status = "pending"
      /\ f.proposed = FALSE /\ f.attempted = FALSE /\ f.outcome = "none"
  BY <1>1, FreshItem
<1>3. y = [f EXCEPT !.origin = "human", !.base = b, !.baseRev = r]
  BY <1>1 DEF OnBase, Equals
<1>4. PICK f1 : f1 = [f EXCEPT !.origin = "human"]
  OBVIOUS
<1>5. /\ f1 \in Item /\ f1.id = i /\ f1.root = x.root /\ f1.path = x.path
      /\ f1.content = x.content /\ f1.key = 0 /\ f1.status = "pending" /\ f1.origin = "human"
      /\ f1.proposed = FALSE /\ f1.attempted = FALSE /\ f1.outcome = "none"
  BY <1>2, <1>4 DEF Item
<1>6. PICK f2 : f2 = [f1 EXCEPT !.base = b]
  OBVIOUS
<1>7. /\ f2 \in Item /\ f2.id = i /\ f2.root = x.root /\ f2.path = x.path
      /\ f2.content = x.content /\ f2.key = 0 /\ f2.status = "pending" /\ f2.origin = "human"
      /\ f2.proposed = FALSE /\ f2.attempted = FALSE /\ f2.outcome = "none"
  BY <1>5, <1>6 DEF Item
<1>8. y = [f2 EXCEPT !.baseRev = r]
  BY <1>3, <1>4, <1>6
<1>9. QED
  BY <1>7, <1>8 DEF Copies, Item

LEMMA PrepareRecoveryKeeps ==
  ASSUME ReplicaInv, NEW x \in mem.pending, PrepareRecovery(x)
  PROVE  ReplicaInv'
<1> USE DEF workspace
<1>1. PICK m : InMemory(m)
  BY DEF InMemory
<1>2. /\ m \in Replica /\ m.pending \subseteq Item /\ x \in m.pending /\ x \in Item
      /\ ItemKept(x) /\ CopyKept(m) /\ ServerTyped /\ LocalTyped /\ Newest \in Nat
  BY <1>1, MemoryHolds DEF InMemory
<1>3. /\ DrawsId /\ UNCHANGED <<workspace, disk, removing, history>> /\ Recoverable(x)
  BY DEF PrepareRecovery
<1>4. ids \in Nat /\ ids' = ids + 1 /\ ids' \in 0..MaxId /\ ids <= ids' /\ ids' \in Id
  BY <1>2, <1>3, NoneTyped DEF LocalTyped, DrawsId, Id
<1>5. m.rev # 0 /\ x.origin # "agent" /\ Loose(x)
  BY <1>1, <1>2, <1>3, ItemTyped DEF Recoverable, Undecided, Loose, ItemKept, Stands, InMemory
<1>6. m.rev \in Rev \union {0} /\ m.listed \in Nat /\ m.listed # 0 /\ m.listed <= Newest
  BY <1>2, <1>5, CopyTyped DEF CopyKept, ListedKept
<1>7. PICK b : b = line[m.listed][x.path]
  OBVIOUS
<1>8. b \in Image
  <2>1. m.listed \in 1..Newest /\ x.path \in Path
    BY <1>2, <1>6, ItemTyped
  <2>2. QED
    BY <1>2, <1>7, <2>1, LineTyped
<1>9. PICK y : y = OnBase(x, b, m.rev)
  OBVIOUS
<1>10. /\ y \in Item /\ y.id = ids' /\ y.root = x.root /\ y.content = x.content
       /\ y.origin = "human" /\ y.baseRev = m.rev /\ y.key = 0 /\ y.status = "pending"
       /\ y.proposed = FALSE /\ y.attempted = FALSE /\ y.outcome = "none"
  <2>1. PICK i \in Id : i = ids'
    BY <1>4
  <2>2. PICK r \in Rev \union {0} : r = m.rev
    BY <1>6
  <2>3. i = ids + 1 /\ y = OnBase(x, b, r)
    BY <1>4, <1>9, <2>1, <2>2
  <2>4. Copies(x, i, r, y)
    <3>1. x \in Item /\ b \in Image /\ Equals(y, OnBase(x, b, r))
      BY <1>2, <1>8, <2>3 DEF Equals
    <3>2. QED
      BY <2>3, <3>1, CopyItem
  <2>5. QED
    BY <2>1, <2>2, <2>4 DEF Copies
<1>11. Owned(y)'
  <2>1. x.content \in made' \union {None} /\ x.content \notin tainted'
    BY <1>2, <1>3, <1>5 DEF ItemKept, Owned, history
  <2>2. QED
    BY <1>5, <1>10, <2>1 DEF Owned
<1>12. PICK m2 : Equals(m2, Swap(m, {x}, {y}))
  BY DEF Equals
<1>13. Renewed(m, x, y, m2)
  BY <1>1, <1>2, <1>3, <1>5, <1>10, <1>11, <1>12, FreshKept
<1>14. /\ m2 \in Replica /\ CopyKept(m2)' /\ y \in m2.pending
       /\ FilesReach(m2, Newest) /\ AnswersReach(m2, Newest)
  BY <1>13 DEF Renewed
<1>15. PICK next : next = [AtRest EXCEPT !.stage = "propose", !.ids = {y.id}]
  OBVIOUS
<1>16. next \in Pass /\ next.stage = "propose" /\ next.rev = 0 /\ next.ids = {y.id}
  BY <1>4, <1>10, <1>15, AtRestTyped DEF Pass, Stages
<1>17. Records(m2, next)
  BY <1>1, <1>7, <1>9, <1>12, <1>15 DEF PrepareRecovery, OnBase, InMemory, Equals
<1>18. ASSUME mem' = m2, journal' = m2, sync' = next
       PROVE  PassKept' /\ FoundKept' /\ ~Answering' /\ ~Comparing'
  <2>1. IdsKept'
    BY <1>14, <1>16, <1>18 DEF IdsKept, Recovering
  <2>2. RevKept'
    BY <1>2, <1>3, <1>16, <1>18 DEF RevKept, Recovering, Comparing, Newest
  <2>3. QED
    BY <1>16, <1>18, <2>1, <2>2 DEF PassKept, SubmitKept, FoundKept, Answering, Comparing
<1>19. QED
  BY <1>3, <1>4, <1>14, <1>16, <1>17, <1>18, QuietRecordsKeep

(***************************************************************************)
(* Others: an editor, other clients, the server's decisions.               *)
(***************************************************************************)
\* The runtime does nothing, and the revisions only grow.
LEMMA OthersKeep ==
  ASSUME ReplicaInv, UNCHANGED <<mem, journal, sync>>, ServerTyped', LocalTyped', WorldKept',
         DiskKept', FoundKept', Newest <= Newest',
         \A n \in 1..Newest : line'[n] = line[n],
         \A m \in Replica : CopyKept(m) => CopyKept(m)'
  PROVE  ReplicaInv'
<1>1. PICK m : InMemory(m)
  BY DEF InMemory
<1>2. PICK j : Equals(j, journal)
  BY DEF Equals
<1>3. PICK s : Equals(s, sync)
  BY DEF Equals
<1>4. /\ m \in Replica /\ CopyKept(m) /\ FilesReach(m, Newest) /\ AnswersReach(m, Newest)
      /\ Newest \in Nat
  BY <1>1, MemoryHolds
<1>5. /\ j \in Replica /\ CopyKept(j) /\ FilesReach(j, Newest) /\ AnswersReach(j, Newest)
  BY <1>2 DEF ReplicaInv, ReplicaTypeOK, ReachKept, Equals
<1>6. s \in Pass /\ s.rev \in Nat /\ s.rev <= Newest /\ s.rev = sync.rev
  BY <1>3, PassTyped DEF ReplicaInv, ReplicaTypeOK, PassKept, RevKept, Equals
<1>7. Newest' \in Nat
  BY LineTyped DEF ServerTyped, Newest, Rev, Id
<1>8. \A p, c, n : n \in Nat /\ n <= Newest /\ Reaches(p, c, n) => Reaches(p, c, n)'
  BY <1>4 DEF Reaches
<1>9. \A p, c : Reaches(p, c, Newest) => Reaches(p, c, Newest)'
  BY <1>4, <1>7 DEF Reaches
<1>10. /\ FilesReach(m, Newest)' /\ AnswersReach(m, Newest)'
       /\ FilesReach(j, Newest)' /\ AnswersReach(j, Newest)'
  BY <1>4, <1>5, <1>9 DEF FilesReach, AnswersReach
<1>11. /\ FilesReach(m, s.rev) => FilesReach(m, s.rev)'
       /\ AnswersReach(m, s.rev) => AnswersReach(m, s.rev)'
  BY <1>6, <1>8 DEF FilesReach, AnswersReach
<1>12. /\ Answering' => FilesReach(m, s.rev)' /\ AnswersReach(m, s.rev)'
       /\ Comparing' => FilesReach(m, s.rev)'
  BY <1>1, <1>6, <1>11 DEF ReplicaInv, ReachKept, Answering, Comparing, InMemory
<1>13. PassKept'
  BY <1>4, <1>6, <1>7 DEF ReplicaInv, PassKept, IdsKept, RevKept, SubmitKept, Recovering, Comparing
<1>14. mem' = m /\ journal' = j /\ sync' = s
  BY <1>1, <1>2, <1>3 DEF InMemory, Equals
<1>15. CopyKept(m)' /\ CopyKept(j)'
  BY <1>4, <1>5
<1>16. QED
  BY <1>4, <1>5, <1>6, <1>10, <1>12, <1>13, <1>14, <1>15, Assembled

LEMMA RemoveFileKeeps ==
  ASSUME ReplicaInv, NEW p \in Path, RemoveFile(p)
  PROVE  ReplicaInv'
<1> USE DEF workspace
<1>1. /\ p \in removing /\ removing' = removing \ {p}
      /\ disk' \in {disk, [disk EXCEPT ![p] = None]}
      /\ UNCHANGED <<line, intents, mem, journal, sync, ids, history>>
  BY DEF RemoveFile
<1>2. /\ LocalTyped /\ ServerTyped /\ DiskKept /\ FoundKept /\ Newest \in Nat
  BY ReplicaTypeParts, LineTyped DEF ReplicaInv
<1>3. disk' \in [Path -> Image]
  BY <1>1, <1>2 DEF LocalTyped, Image
<1>4. \A q \in Path : disk'[q] = disk[q] \/ (disk'[q] = None /\ q = p)
  BY <1>1, <1>2 DEF LocalTyped
<1>5. Spared(p)
  BY <1>1, <1>2 DEF DiskKept
<1>6. /\ ServerTyped' /\ LocalTyped' /\ WorldKept' /\ DiskKept' /\ Newest' = Newest
      /\ \A m \in Replica : CopyKept(m) => CopyKept(m)'
  BY <1>1, <1>3, <1>4, <1>5, DiskStep
<1>7. \A b : Public(b)' <=> Public(b)
  BY <1>1, <1>6 DEF Public
<1>8. FoundKept'
  BY <1>1, <1>2, <1>4, <1>7 DEF FoundKept, history
<1>9. Newest <= Newest' /\ \A n \in 1..Newest : line'[n] = line[n]
  BY <1>1, <1>2, <1>6
<1>10. QED
  BY <1>1, <1>6, <1>8, <1>9, OthersKeep

LEMMA PublicMade ==
  ASSUME ReplicaInv, NEW c, Public(c)
  PROVE  c \in made \union {None}
<1>1. LineKept /\ IntentsKept
  BY DEF ReplicaInv, WorldKept
<1>2. CASE \E n \in 1..Newest, p \in Path : line[n][p] = c
  BY <1>1, <1>2 DEF LineKept
<1>3. CASE \E k \in Id : intents[k] # None /\ \E x \in intents[k].changes : x.content = c
  BY <1>1, <1>3 DEF IntentsKept
<1>4. QED
  BY <1>2, <1>3 DEF Public

LEMMA ExternalEditKeeps ==
  ASSUME ReplicaInv, NEW p \in Path, NEW c \in Content, ExternalEdit(p, c)
  PROVE  ReplicaInv'
<1> USE DEF workspace
<1>1. /\ ServerTyped /\ LocalTyped /\ WorldKept /\ DiskKept /\ FoundKept
  BY ReplicaTypeParts DEF ReplicaInv
<1>2. /\ c \notin made /\ made' = made \union {c} /\ disk' = [disk EXCEPT ![p] = c]
      /\ latest' = [latest EXCEPT ![p] = c]
      /\ UNCHANGED <<line, intents, removing, mem, journal, sync, ids, tainted>>
      /\ raced' = IF Exposed(p) THEN raced \union {c} ELSE raced
  BY DEF ExternalEdit, Made, Saved
<1>3. c \in Image /\ c # None /\ ids \in Nat /\ tainted \subseteq Content
  BY <1>1, NoneTyped DEF LocalTyped, Image
<1>4. ServerTyped' /\ LocalTyped'
  BY <1>1, <1>2, <1>3 DEF ServerTyped, LocalTyped
<1>5. WorldKept' /\ Newest' = Newest
  BY <1>1, <1>2, <1>3, WorldStays
<1>6. /\ disk'[p] = c /\ latest'[p] = c
      /\ \A q \in Path : q # p => disk'[q] = disk[q] /\ latest'[q] = latest[q]
  BY <1>1, <1>2 DEF LocalTyped
<1>7. DiskKept'
  BY <1>1, <1>2, <1>5, <1>6 DEF DiskKept, EditsAreKept, Spared, Stored, Exposed
<1>8. ASSUME NEW m \in Replica, CopyKept(m) PROVE CopyKept(m)'
  <2>1. BatchesKept(m)'
    BY <1>2, <1>3, <1>8, BatchesStay DEF CopyKept
  <2>2. AgentKept(m)'
    BY <1>1, <1>2, <1>6, <1>8 DEF CopyKept, AgentKept, DiskKept
  <2>3. ListedKept(m)'
    BY <1>5, <1>8 DEF CopyKept, ListedKept
  <2>4. QED
    BY <2>1, <2>2, <2>3 DEF CopyKept
<1>9. \A b : Public(b)' <=> Public(b)
  BY <1>2, <1>5 DEF Public
<1>10. ~Public(c)
  BY <1>2, <1>3, PublicMade
<1>11. FoundKept'
  <2>1. CASE sync.path = p
    BY <1>1, <1>2, <1>6, <1>9, <1>10, <2>1 DEF FoundKept, Exposed
  <2>2. CASE sync.path # p
    BY <1>1, <1>2, <1>6, <1>9, <2>2 DEF FoundKept
  <2>3. QED
    BY <2>1, <2>2
<1>12. Newest <= Newest' /\ \A n \in 1..Newest : line'[n] = line[n]
  BY <1>1, <1>2, <1>5, LineTyped
<1>13. QED
  BY <1>2, <1>4, <1>5, <1>7, <1>8, <1>11, <1>12, OthersKeep

\* A new revision after the others.
LEMMA Appended ==
  ASSUME ServerTyped, NEW tree \in [Path -> Image], line' = Append(line, tree),
         Newest < MaxRevision
  PROVE  /\ line' \in Seq([Path -> Image]) /\ Len(line') \in Rev /\ Newest' = Newest + 1
         /\ Newest \in Nat /\ Newest > 0 /\ Newest <= Newest'
         /\ line'[Newest'] = tree /\ \A n \in 1..Newest : line'[n] = line[n]
<1>1. line \in Seq([Path -> Image]) /\ Newest \in Nat /\ Newest > 0 /\ Newest = Len(line)
  BY LineTyped DEF ServerTyped, Newest
<1>2. line' \in Seq([Path -> Image]) /\ Len(line') = Newest + 1
  BY <1>1
<1>3. line'[Newest + 1] = tree /\ \A n \in 1..Newest : line'[n] = line[n]
  BY <1>1
<1>4. Len(line') \in Rev /\ Newest' = Newest + 1
  BY <1>1, <1>2, NoneTyped DEF Rev, Newest
<1>5. QED
  BY <1>1, <1>2, <1>3, <1>4

LEMMA OtherClientKeeps ==
  ASSUME ReplicaInv, NEW p \in Path, NEW c \in Image, OtherClient(p, c)
  PROVE  ReplicaInv'
<1>1. /\ ServerTyped /\ LocalTyped /\ WorldKept /\ DiskKept /\ FoundKept
      /\ sync \in Pass /\ sync.rev <= Newest
  BY ReplicaTypeParts DEF ReplicaInv, PassKept, RevKept
<1>2. /\ Newest < MaxRevision /\ line' = Append(line, [line[Newest] EXCEPT ![p] = c])
      /\ UNCHANGED <<intents, disk, removing, mem, journal, sync, ids, tainted, latest, raced>>
      /\ IF c = None THEN made' = made ELSE c \notin made /\ made' = made \union {c}
  BY DEF OtherClient, Made
<1>3. PICK tree : tree = [line[Newest] EXCEPT ![p] = c]
  OBVIOUS
<1>4. Newest \in Nat /\ Newest \in 1..Newest /\ line[Newest] \in [Path -> Image]
  BY <1>1, LineTyped
<1>5. /\ tree \in [Path -> Image] /\ tree[p] = c
      /\ \A q \in Path : q # p => tree[q] = line[Newest][q]
  BY <1>3, <1>4
<1>6. line' = Append(line, tree)
  BY <1>2, <1>3
<1>7. /\ line' \in Seq([Path -> Image]) /\ Len(line') \in Rev /\ Newest' = Newest + 1
      /\ Newest <= Newest' /\ line'[Newest'] = tree /\ \A n \in 1..Newest : line'[n] = line[n]
  BY <1>1, <1>2, <1>5, <1>6, Appended
<1>8. ids \in Nat /\ tainted \subseteq Content /\ made \subseteq made' /\ made' \subseteq Content
  BY <1>1, <1>2, NoneTyped DEF LocalTyped, Image
<1>9. ServerTyped' /\ LocalTyped'
  BY <1>1, <1>2, <1>7, <1>8 DEF ServerTyped, LocalTyped
<1>10. \A n \in 1..Newest' : n \in 1..Newest \/ n = Newest'
  BY <1>4, <1>7
<1>11. c # None => c \in made' /\ c \notin tainted' /\ c \notin made
  BY <1>1, <1>2 DEF DiskKept
<1>12. \A q \in Path : tree[q] \in (made' \ tainted') \union {None}
  BY <1>1, <1>2, <1>4, <1>5, <1>8, <1>11 DEF WorldKept, LineKept
<1>13. LineKept'
  BY <1>1, <1>2, <1>7, <1>8, <1>10, <1>12 DEF WorldKept, LineKept
<1>14. \A q, b : Reaches(q, b, Newest) => Reaches(q, b, Newest)'
  BY <1>4, <1>7 DEF Reaches
<1>15. IntentsKept'
  BY <1>1, <1>2, <1>8, <1>14 DEF WorldKept, IntentsKept
<1>16. NoneTwice'
  BY <1>1, <1>2 DEF WorldKept, NoneTwice, Submitted, IntentIs
<1>17. DiskKept'
  <2>1. Stored \subseteq Stored'
    BY <1>4, <1>7 DEF Stored
  <2>2. QED
    BY <1>1, <1>2, <1>8, <2>1 DEF DiskKept, EditsAreKept, Spared
<1>18. ASSUME NEW m \in Replica, CopyKept(m) PROVE CopyKept(m)'
  <2>1. BatchesKept(m)'
    BY <1>2, <1>8, <1>18, BatchesStay DEF CopyKept
  <2>2. AgentKept(m)'
    BY <1>2, <1>18 DEF CopyKept, AgentKept
  <2>3. ListedKept(m)'
    BY <1>4, <1>7, <1>18, CopyTyped DEF CopyKept, ListedKept
  <2>4. QED
    BY <2>1, <2>2, <2>3 DEF CopyKept
<1>19. \A b \in raced : ~Public(b) => ~Public(b)'
  <2> SUFFICES ASSUME NEW b \in raced, Public(b)' PROVE Public(b)
    OBVIOUS
  <2>1. b \in made /\ b # None
    BY <1>1, <1>8, NoneTyped DEF DiskKept, LocalTyped
  <2>2. CASE \E k \in Id : intents'[k] # None /\ \E x \in intents'[k].changes : x.content = b
    BY <1>2, <2>2 DEF Public
  <2>3. ASSUME NEW n \in 1..Newest', NEW q \in Path, line'[n][q] = b PROVE Public(b)
    <3>1. CASE n \in 1..Newest
      BY <1>7, <2>3, <3>1 DEF Public
    <3>2. CASE n = Newest'
      <4>1. q # p
        BY <1>5, <1>7, <1>11, <2>1, <2>3, <3>2
      <4>2. QED
        BY <1>4, <1>5, <1>7, <2>3, <3>2, <4>1 DEF Public
    <3>3. QED
      BY <1>10, <3>1, <3>2
  <2>4. QED
    BY <2>2, <2>3 DEF Public
<1>20. FoundKept'
  <2>1. sync.stage \in {"download", "write", "trash"} => sync.rev \in 1..Newest
    <3>1. sync.stage \in {"download", "write", "trash"} => sync.rev # 0
      BY DEF ReplicaInv, PassKept, RevKept, Comparing
    <3>2. QED
      BY <1>1, <1>4, <3>1, PassTyped
  <2>2. QED
    BY <1>1, <1>2, <1>7, <1>19, <2>1 DEF FoundKept
<1>21. WorldKept'
  BY <1>13, <1>15, <1>16 DEF WorldKept
<1>22. QED
  BY <1>2, <1>7, <1>9, <1>17, <1>18, <1>20, <1>21, OthersKeep

\* An intent that was not decided yet is.
LEMMA DecidedStays ==
  ASSUME ReplicaInv, NEW k \in Id, NEW state \in {"applied", "retired", "refused"},
         IntentIs(k, {"ready", "pending"}), state = "applied" => intents[k].state = "pending",
         intents' = [intents EXCEPT ![k].state = state],
         UNCHANGED <<disk, ids, made, tainted>>, Newest <= Newest', Newest' \in Nat
  PROVE  /\ intents' \in [Id -> Intent \union {None}]
         /\ \A j \in Id : j # k => intents'[j] = intents[j]
         /\ intents'[k] # None /\ intents'[k].state = state
         /\ intents'[k].changes = intents[k].changes
         /\ NoneTwice' /\ \A m \in Replica : CopyKept(m) => CopyKept(m)'
<1>1. ServerTyped /\ LocalTyped /\ NoneTwice /\ intents[k] # None
  BY ReplicaTypeParts DEF ReplicaInv, WorldKept, IntentIs
<1>2. intents \in [Id -> Intent \union {None}] /\ intents[k] \in Intent
  BY <1>1, IntentTyped DEF ServerTyped
<1>3. PICK new : new = [intents[k] EXCEPT !.state = state]
  OBVIOUS
<1>4. new \in Intent /\ new.state = state /\ new.changes = intents[k].changes /\ new # None
  BY <1>2, <1>3, NoneTyped DEF Intent
<1>5. /\ intents' \in [Id -> Intent \union {None}] /\ intents'[k] = new
      /\ \A j \in Id : j # k => intents'[j] = intents[j]
  <2>1. intents' = [intents EXCEPT ![k] = new]
    BY <1>3
  <2>2. QED
    BY <1>2, <1>4, <2>1
<1>6. \A j \in Id : /\ Submitted(j)' => Submitted(j) /\ intents'[j].changes = intents[j].changes
                    /\ intents'[j] = None <=> intents[j] = None
                    /\ intents[j] # None => intents'[j].changes = intents[j].changes
                    /\ IntentIs(j, {"ready", "pending"})' => j # k /\ IntentIs(j, {"ready", "pending"})
  BY <1>1, <1>4, <1>5 DEF Submitted, IntentIs
<1>7. NoneTwice'
  BY <1>1, <1>6 DEF NoneTwice
<1>8. ASSUME NEW m \in Replica, CopyKept(m) PROVE CopyKept(m)'
  <2>1. /\ m.pending \subseteq Item /\ \A x \in m.pending : ItemKept(x)
        /\ Newest \in Nat /\ Newest' \in Nat
    BY <1>1, <1>8, CopyTyped, LineTyped DEF CopyKept, BatchesKept
  <2>2. \A x \in m.pending : ItemKept(x)'
    <3> TAKE x \in m.pending
    <3>1. ItemKept(x) /\ x.id \in Id /\ (x.key # 0 => x.key \in Id)
      BY <2>1, ItemTyped
    <3>2. Numbered(x)' /\ Owned(x)'
      BY <3>1 DEF ItemKept, Numbered, Owned
    <3>3. Stands(x)'
      <4>1. x.outcome \in {"retired", "refused", "applied"} => x.key # k
        BY <3>1 DEF ItemKept, Stands, IntentIs
      <4>2. /\ x.key = 0 => intents'[x.id] = None
            /\ x.key # 0 /\ intents'[x.key] # None => ChangeOf(x) \in intents'[x.key].changes
            /\ x.proposed => x.key # 0 /\ intents'[x.key] # None
        BY <1>6, <3>1 DEF ItemKept, Stands
      <4>3. /\ x.attempted => x.proposed
            /\ x.outcome # "none" => x.attempted
        BY <3>1 DEF ItemKept, Stands
      <4>4. x.outcome \in {"retired", "refused", "applied"} => intents'[x.key].state = x.outcome
        BY <1>5, <3>1, <4>1 DEF ItemKept, Stands
      <4>5. QED
        BY <4>2, <4>3, <4>4 DEF Stands
    <3>4. QED
      BY <3>2, <3>3 DEF ItemKept
  <2>3. Whole(m)'
    <3>1. \A x \in m.pending : x.proposed => x.key \in Id
      BY <2>1, ItemTyped DEF ItemKept, Stands
    <3>2. QED
      BY <1>5, <1>6, <1>8, <3>1 DEF CopyKept, BatchesKept, Whole
  <2>4. Waits(m)'
    BY <1>6, <1>8 DEF CopyKept, BatchesKept, Waits
  <2>5. Distinct(m)' /\ Together(m)' /\ AgentKept(m)'
    BY <1>8 DEF CopyKept, BatchesKept, Distinct, Together, AgentKept
  <2>6. ListedKept(m)'
    BY <1>8, <2>1, CopyTyped DEF CopyKept, ListedKept
  <2>7. QED
    BY <2>2, <2>3, <2>4, <2>5, <2>6 DEF CopyKept, BatchesKept
<1>9. QED
  BY <1>4, <1>5, <1>7, <1>8

\* It is over, without being carried out.
LEMMA EndedKeeps ==
  ASSUME ReplicaInv, NEW k \in Id, NEW state \in {"retired", "refused"},
         IntentIs(k, {"ready", "pending"}), intents' = [intents EXCEPT ![k].state = state],
         UNCHANGED <<line, disk, removing, mem, journal, sync, ids, history>>
  PROVE  ReplicaInv'
<1> USE DEF history
<1>1. /\ ServerTyped /\ LocalTyped /\ WorldKept /\ DiskKept /\ FoundKept
  BY ReplicaTypeParts DEF ReplicaInv
<1>2. Newest' = Newest /\ Newest \in Nat
  BY <1>1, LineTyped DEF Newest
<1>3. /\ intents' \in [Id -> Intent \union {None}]
      /\ \A j \in Id : j # k => intents'[j] = intents[j]
      /\ intents'[k] # None /\ intents'[k].state = state /\ intents[k] # None
      /\ intents'[k].changes = intents[k].changes
      /\ NoneTwice' /\ \A m \in Replica : CopyKept(m) => CopyKept(m)'
  <2>1. state \in {"applied", "retired", "refused"} /\ state # "applied" /\ intents[k] # None
    BY DEF IntentIs
  <2>2. Newest <= Newest' /\ Newest' \in Nat
    BY <1>2
  <2>3. QED
    BY <2>1, <2>2, DecidedStays
<1>4. ServerTyped' /\ LocalTyped'
  BY <1>1, <1>3 DEF ServerTyped, LocalTyped
<1>5. LineKept' /\ DiskKept'
  BY <1>1, <1>2 DEF WorldKept, LineKept, DiskKept, EditsAreKept, Spared, Stored
<1>6. IntentsKept'
  <2>1. \A p, c, n : Reaches(p, c, n)' <=> Reaches(p, c, n)
    BY DEF Reaches
  <2>2. \A j \in Id : intents'[j] # None =>
          /\ intents[j] # None /\ intents'[j].changes = intents[j].changes
          /\ intents'[j].state = "applied" => intents[j].state = "applied"
    BY <1>3
  <2>3. QED
    BY <1>1, <1>2, <2>1, <2>2 DEF WorldKept, IntentsKept
<1>7. \A b : Public(b)' => Public(b)
  BY <1>2, <1>3 DEF Public
<1>8. FoundKept'
  BY <1>1, <1>7 DEF FoundKept
<1>9. WorldKept' /\ Newest <= Newest' /\ \A n \in 1..Newest : line'[n] = line[n]
  BY <1>2, <1>3, <1>5, <1>6 DEF WorldKept
<1>10. QED
  BY <1>3, <1>4, <1>5, <1>8, <1>9, OthersKeep

LEMMA RetireIntentKeeps ==
  ASSUME ReplicaInv, NEW k \in Id, RetireIntent(k)
  PROVE  ReplicaInv'
<1>1. "retired" \in {"retired", "refused"}
  OBVIOUS
<1>2. QED
  BY <1>1, EndedKeeps DEF RetireIntent

LEMMA DecideIntentKeeps ==
  ASSUME ReplicaInv, NEW k \in Id, DecideIntent(k)
  PROVE  ReplicaInv'
<1> USE DEF history
<1>1. /\ ServerTyped /\ LocalTyped /\ WorldKept /\ DiskKept /\ FoundKept
      /\ sync \in Pass /\ sync.rev <= Newest
  BY ReplicaTypeParts DEF ReplicaInv, PassKept, RevKept
<1>2. /\ intents[k] # None /\ intents[k].state = "pending" /\ IntentIs(k, {"ready", "pending"})
      /\ UNCHANGED <<disk, removing, mem, journal, sync, ids, history>>
  BY DEF DecideIntent, IntentIs
<1>3. CASE intents' = [intents EXCEPT ![k].state = "refused"] /\ UNCHANGED line
  <2>1. "refused" \in {"retired", "refused"}
    OBVIOUS
  <2>2. QED
    BY <1>2, <1>3, <2>1, EndedKeeps
<1>4. ASSUME Fits(k), Newest < MaxRevision, line' = Append(line, After(k)),
             intents' = [intents EXCEPT ![k].state = "applied"]
      PROVE  ReplicaInv'
  <2>1. /\ intents[k].changes \subseteq Change
        /\ \A c \in intents[k].changes :
             /\ c.path \in Path /\ c.content \in Image
             /\ c.content \in (made \ tainted) \union {None}
    BY <1>1, <1>2, IntentTyped DEF WorldKept, IntentsKept
  <2>2. Newest \in Nat /\ Newest \in 1..Newest /\ line[Newest] \in [Path -> Image]
    BY <1>1, LineTyped
  <2>3. PICK tree : tree = After(k)
    OBVIOUS
  <2>4. \A p \in Path :
          \/ tree[p] = line[Newest][p]
          \/ \E c \in intents[k].changes : c.path = p /\ tree[p] = c.content
    BY <2>3 DEF After
  <2>5. \A c \in intents[k].changes : tree[c.path] = c.content
    <3> TAKE c \in intents[k].changes
    <3>1. PICK d : d = CHOOSE x \in intents[k].changes : x.path = c.path
      OBVIOUS
    <3>2. d \in intents[k].changes /\ d.path = c.path
      BY <3>1
    <3>3. d = c
      BY <1>4, <3>2 DEF Fits
    <3>4. QED
      BY <2>1, <2>3, <3>1, <3>3 DEF After
  <2>6. tree \in [Path -> Image]
    <3>1. \A p \in Path : tree[p] \in Image
      BY <2>1, <2>2, <2>4
    <3>2. tree = [p \in Path |-> tree[p]]
      BY <2>3 DEF After
    <3>3. QED
      BY <3>1, <3>2
  <2>7. /\ line' \in Seq([Path -> Image]) /\ Len(line') \in Rev /\ Newest' = Newest + 1
        /\ Newest <= Newest' /\ line'[Newest'] = tree /\ \A n \in 1..Newest : line'[n] = line[n]
    BY <1>1, <1>4, <2>3, <2>6, Appended
  <2>8. \A n \in 1..Newest' : n \in 1..Newest \/ n = Newest'
    BY <2>2, <2>7
  <2>9. /\ intents' \in [Id -> Intent \union {None}]
        /\ \A j \in Id : j # k => intents'[j] = intents[j]
        /\ intents'[k] # None /\ intents'[k].state = "applied"
        /\ intents'[k].changes = intents[k].changes
        /\ NoneTwice' /\ \A m \in Replica : CopyKept(m) => CopyKept(m)'
    <3>1. "applied" \in {"applied", "retired", "refused"}
      OBVIOUS
    <3>2. Newest' \in Nat
      BY <2>2, <2>7
    <3>3. QED
      BY <1>2, <1>4, <2>7, <3>1, <3>2, DecidedStays
  <2>10. ServerTyped' /\ LocalTyped'
    BY <1>1, <1>2, <2>7, <2>9 DEF ServerTyped, LocalTyped
  <2>11. \A p \in Path : tree[p] \in (made \ tainted) \union {None}
    BY <1>1, <2>1, <2>2, <2>4 DEF WorldKept, LineKept
  <2>12. LineKept'
    BY <1>1, <1>2, <2>7, <2>8, <2>11 DEF WorldKept, LineKept
  <2>13. \A q, b : Reaches(q, b, Newest) => Reaches(q, b, Newest)'
    BY <2>2, <2>7 DEF Reaches
  <2>14. \A c \in intents[k].changes : Reaches(c.path, c.content, Newest)'
    BY <2>2, <2>5, <2>7 DEF Reaches
  <2>15. IntentsKept'
    <3>1. ASSUME NEW j \in Id, intents'[j] # None
          PROVE  /\ j <= ids'
                 /\ \A c \in intents'[j].changes :
                      /\ c.root <= ids'
                      /\ c.content \in (made' \ tainted') \union {None}
                      /\ intents'[j].state = "applied" /\ c.content # None =>
                           Reaches(c.path, c.content, Newest)'
      <4>1. CASE j = k
        BY <1>1, <1>2, <2>9, <2>14, <4>1 DEF WorldKept, IntentsKept
      <4>2. CASE j # k
        BY <1>1, <1>2, <2>9, <2>13, <3>1, <4>2 DEF WorldKept, IntentsKept
      <4>3. QED
        BY <4>1, <4>2
    <3>2. QED
      BY <3>1 DEF IntentsKept
  <2>16. DiskKept'
    <3>1. Stored \subseteq Stored'
      BY <2>2, <2>7 DEF Stored
    <3>2. QED
      BY <1>1, <1>2, <3>1 DEF DiskKept, EditsAreKept, Spared
  <2>17. \A b : Public(b)' => Public(b)
    <3> SUFFICES ASSUME NEW b, Public(b)' PROVE Public(b)
      OBVIOUS
    <3>1. ASSUME NEW j \in Id, intents'[j] # None, NEW c \in intents'[j].changes, c.content = b
          PROVE  Public(b)
      <4>1. intents[j] # None /\ intents'[j].changes = intents[j].changes
        BY <1>2, <2>9, <3>1
      <4>2. QED
        BY <3>1, <4>1 DEF Public
    <3>2. ASSUME NEW n \in 1..Newest', NEW p \in Path, line'[n][p] = b PROVE Public(b)
      <4>1. CASE n \in 1..Newest
        BY <2>7, <3>2, <4>1 DEF Public
      <4>2. CASE n = Newest'
        BY <1>2, <2>2, <2>4, <2>7, <3>2, <4>2 DEF Public
      <4>3. QED
        BY <2>8, <4>1, <4>2
    <3>3. QED
      BY <3>1, <3>2 DEF Public
  <2>18. FoundKept'
    <3>1. sync.stage \in {"download", "write", "trash"} => sync.rev \in 1..Newest
      <4>1. sync.stage \in {"download", "write", "trash"} => sync.rev # 0
        BY DEF ReplicaInv, PassKept, RevKept, Comparing
      <4>2. QED
        BY <1>1, <2>2, <4>1, PassTyped
    <3>2. QED
      BY <1>1, <1>2, <2>7, <2>17, <3>1 DEF FoundKept
  <2>19. WorldKept'
    BY <2>9, <2>12, <2>15 DEF WorldKept
  <2>20. QED
    BY <1>2, <2>7, <2>9, <2>10, <2>16, <2>18, <2>19, OthersKeep
<1>5. QED
  BY <1>3, <1>4 DEF DecideIntent

(***************************************************************************)
(* The user writes and deletes.                                            *)
(***************************************************************************)
\* What is known of a file gives a new change its base.
LEMMA BaseTyped ==
  ASSUME NEW m \in Replica, InMemory(m), NEW p \in Path
  PROVE  /\ BaseOf(p) \in Image /\ BaseRevOf(p) \in Rev \union {0}
         /\ m.files[p] # None => BaseRevOf(p) # 0
<1>1. m.files[p] \in FileRow \union {None} /\ m.rev \in Rev \union {0}
  BY CopyTyped
<1>2. CASE m.files[p] = None
  BY <1>1, <1>2 DEF BaseOf, BaseRevOf, Image, InMemory
<1>3. CASE m.files[p] # None
  <2>1. /\ m.files[p].version \in Image /\ m.files[p].rev \in Rev /\ m.files[p].rev # 0
    BY <1>1, <1>3 DEF FileRow, Rev
  <2>2. QED
    BY <1>3, <2>1 DEF BaseOf, BaseRevOf, InMemory
<1>4. QED
  BY <1>2, <1>3

\* A change as it is when it is new.
Begins(y, p, c) ==
  /\ y \in Item /\ y.id = ids + 1 /\ y.root = ids + 1 /\ y.path = p /\ y.content = c
  /\ y.key = 0 /\ y.proposed = FALSE /\ y.attempted = FALSE /\ y.outcome = "none"

LEMMA NewItemTyped ==
  ASSUME NEW m \in Replica, InMemory(m), NEW p \in Path, NEW c \in Image, ids + 1 \in Id,
         NEW origin \in {"human", "agent", "unknown"},
         NEW status \in {"pending", "publishing", "review", "conflict", "held"},
         NEW y, Equals(y, NewItem(p, c, origin, status))
  PROVE  /\ Begins(y, p, c) /\ y.origin = origin /\ y.status = status
         /\ y.base = BaseOf(p) /\ y.baseRev = BaseRevOf(p)
<1>1. PICK b \in Image : b = BaseOf(p)
  BY BaseTyped
<1>2. PICK r \in Rev \union {0} : r = BaseRevOf(p)
  BY BaseTyped
<1>3. PICK i \in Id : i = ids + 1
  OBVIOUS
<1>4. y = [id |-> i, root |-> i, path |-> p, content |-> c, origin |-> origin,
           base |-> b, baseRev |-> r, key |-> 0, status |-> status,
           proposed |-> FALSE, attempted |-> FALSE, outcome |-> "none"]
  BY <1>1, <1>2, <1>3 DEF NewItem, Equals
<1>5. y \in Item
  BY <1>4 DEF Item
<1>6. QED
  BY <1>1, <1>2, <1>3, <1>4, <1>5 DEF Begins

LEMMA WriteItemTyped ==
  ASSUME NEW m \in Replica, InMemory(m), NEW p \in Path, NEW c \in Content, ids + 1 \in Id,
         NEW origin \in {"human", "agent"}, NEW previous \in SUBSET m.pending,
         previous # {} => \E x \in m.pending : previous = {x},
         NEW y, Equals(y, WriteItem(p, c, origin, previous))
  PROVE  /\ Begins(y, p, c) /\ y.origin = OriginOf(previous, origin)
         /\ y.status \in {"pending", "held"}
         /\ y.status = "pending" => y.origin = "human" /\ y.baseRev # 0
<1>1. m.pending \subseteq Item /\ c \in Image
  BY CopyTyped DEF Image
<1>2. PICK o : o = OriginOf(previous, origin)
  OBVIOUS
<1>3. o \in {"human", "agent", "unknown"}
  BY <1>2 DEF OriginOf
<1>4. PICK new : Equals(new, NewItem(p, c, o, "pending"))
  BY DEF Equals
<1>5. Begins(new, p, c) /\ new.origin = o /\ new.status = "pending"
  <2>1. "pending" \in {"pending", "publishing", "review", "conflict", "held"}
    OBVIOUS
  <2>2. QED
    BY <1>1, <1>3, <1>4, <2>1, NewItemTyped
<1>6. PICK old : old = CHOOSE x \in previous : TRUE
  OBVIOUS
<1>7. previous # {} => old \in Item
  BY <1>1, <1>6
<1>8. PICK based : based = IF previous = {} THEN new
                           ELSE [new EXCEPT !.base = old.base, !.baseRev = old.baseRev]
  OBVIOUS
<1>9. Begins(based, p, c) /\ based.origin = o /\ based.status = "pending"
  <2>1. CASE previous = {}
    BY <1>5, <1>8, <2>1
  <2>2. CASE previous # {}
    <3>1. PICK b \in Image : b = old.base
      BY <1>7, <2>2, ItemTyped
    <3>2. PICK r \in Rev \union {0} : r = old.baseRev
      BY <1>7, <2>2, ItemTyped
    <3>3. PICK half : half = [new EXCEPT !.base = b]
      OBVIOUS
    <3>4. Begins(half, p, c) /\ half.origin = o /\ half.status = "pending"
      BY <1>5, <3>3 DEF Begins, Item
    <3>5. based = [half EXCEPT !.baseRev = r]
      BY <1>8, <2>2, <3>1, <3>2, <3>3
    <3>6. QED
      BY <3>4, <3>5 DEF Begins, Item
  <2>3. QED
    BY <2>1, <2>2
<1>10. y = IF /\ based.origin = "human"
              /\ based.baseRev # 0
              /\ \A x \in mem.pending \ previous : x.path # p
             THEN based ELSE [based EXCEPT !.status = "held"]
  BY <1>2, <1>4, <1>6, <1>8 DEF WriteItem, Equals
<1>11. CASE y = based /\ based.origin = "human" /\ based.baseRev # 0
  BY <1>2, <1>9, <1>11
<1>12. CASE y = [based EXCEPT !.status = "held"]
  <2>1. Begins(y, p, c) /\ y.origin = o /\ y.status = "held"
    BY <1>9, <1>12 DEF Begins, Item
  <2>2. QED
    BY <1>2, <2>1
<1>13. QED
  BY <1>10, <1>11, <1>12

\* A new change takes the place of unsubmitted ones.
Begun(m, old, y, m2) ==
  /\ m2 \in Replica /\ BatchesKept(m2)' /\ m2.pending = (m.pending \ old) \union {y}
  /\ m2.files = m.files /\ m2.rev = m.rev /\ m2.listed = m.listed
  /\ FilesReach(m2, Newest)' /\ AnswersReach(m2, Newest)'

LEMMA BegunKept ==
  ASSUME ReplicaInv, NEW m, InMemory(m), UNCHANGED workspace, DrawsId,
         made \subseteq made', tainted' \subseteq Content, tainted' \intersect made \subseteq tainted,
         NEW p, NEW c, NEW y, Begins(y, p, c), Owned(y)',
         NEW old \in SUBSET m.pending, \A x \in old : ~x.proposed,
         NEW m2, Equals(m2, Swap(m, old, {y}))
  PROVE  Begun(m, old, y, m2)
<1> USE DEF workspace
<1>1. /\ m \in Replica /\ m.pending \subseteq Item /\ CopyKept(m) /\ ServerTyped /\ LocalTyped
      /\ FilesReach(m, Newest) /\ AnswersReach(m, Newest) /\ \A x \in m.pending : ItemKept(x)
  BY MemoryHolds
<1>2. ids \in Nat /\ ids' = ids + 1 /\ ids' \in 0..MaxId /\ ids' \in Nat /\ ids <= ids'
  <2>1. ids \in 0..MaxId /\ ids < MaxId /\ ids' = ids + 1
    BY <1>1 DEF LocalTyped, DrawsId
  <2>2. QED
    BY <2>1, NoneTyped
<1>3. /\ ids' \in Id /\ intents[ids'] = None
      /\ \A x \in m.pending : x.id # ids' /\ x.key # ids' /\ x.root # ids'
      /\ \A k \in Id : intents[k] # None => \A d \in intents[k].changes : d.root # ids'
  BY <1>1, <1>2, FreshId DEF ReplicaInv, WorldKept, ItemKept
<1>4. BatchesKept(m)' /\ ServerTyped' /\ intents' = intents /\ Newest' = Newest
  BY <1>1, <1>2, BatchesStay DEF CopyKept, ServerTyped, Newest
<1>5. /\ y \in Item /\ y.id = ids' /\ y.root = ids' /\ y.key = 0 /\ ~y.proposed
      /\ ~y.attempted /\ y.outcome = "none"
  BY <1>2 DEF Begins
<1>6. ItemKept(y)'
  <2>1. Numbered(y)'
    BY <1>2, <1>5 DEF Numbered
  <2>2. Stands(y)'
    BY <1>3, <1>4, <1>5 DEF Stands
  <2>3. QED
    BY <2>1, <2>2 DEF ItemKept
<1>7. /\ m2 \in Replica /\ m2.pending = (m.pending \ old) \union {y}
      /\ m2.files = m.files /\ m2.rev = m.rev /\ m2.listed = m.listed
  BY <1>1, <1>5, SwapTyped DEF Equals
<1>8. BatchesKept(Swap(m, old, {y}))'
  <2>1. \A x \in old : Loose(x)'
    BY DEF Loose
  <2>2. /\ \A x \in m.pending : x.id # y.id /\ x.key # y.id /\ x.root # y.root
        /\ \A k \in Id : intents'[k] # None => \A d \in intents'[k].changes : d.root # y.root
    BY <1>3, <1>4, <1>5
  <2>3. QED
    BY <1>1, <1>4, <1>5, <1>6, <2>1, <2>2, AddedKept
<1>9. BatchesKept(m2)'
  BY <1>8 DEF Equals
<1>10. FilesReach(m2, Newest)' /\ AnswersReach(m2, Newest)'
  BY <1>1, <1>4, <1>5, <1>7 DEF FilesReach, AnswersReach, Reaches
<1>11. QED
  BY <1>7, <1>9, <1>10 DEF Begun

LEMMA UserWriteKeeps ==
  ASSUME ReplicaInv, NEW p \in Path, NEW c \in Content, NEW origin \in {"human", "agent"},
         UserWrite(p, c, origin)
  PROVE  ReplicaInv'
<1> USE DEF workspace
<1>1. PICK m : InMemory(m)
  BY DEF InMemory
<1>2. PICK previous \in Previous(p) :
        LET w == Swap(mem, previous, {WriteItem(p, c, origin, previous)}) IN
        /\ sync.stage = "rest"
        /\ Made(c)
        /\ DrawsId
        /\ tainted' = IF origin = "agent" \/ CarriesOn(p, previous)
                        THEN tainted \union {c} ELSE tainted
        /\ Records(w, AtRest)
        /\ \/ journal' = w /\ Saved(p, c)
           \/ UNCHANGED <<disk, latest, raced>>
        /\ UNCHANGED <<workspace, removing>>
  BY DEF UserWrite
<1>3. PICK y : Equals(y, WriteItem(p, c, origin, previous))
  BY DEF Equals
<1>4. PICK m2 : Equals(m2, Swap(m, previous, {y}))
  BY DEF Equals
<1>5. PICK j : Equals(j, journal)
  BY DEF Equals
<1>6. /\ m \in Replica /\ m.pending \subseteq Item /\ CopyKept(m) /\ ServerTyped /\ LocalTyped
      /\ \A x \in m.pending : ItemKept(x)
      /\ WorldKept /\ DiskKept
  BY <1>1, MemoryHolds DEF ReplicaInv
<1>7. /\ c \notin made /\ made' = made \union {c} /\ DrawsId
      /\ tainted' = (IF origin = "agent" \/ CarriesOn(p, previous)
                       THEN tainted \union {c} ELSE tainted)
      /\ UNCHANGED <<line, intents, removing>>
  BY <1>2 DEF Made
<1>8. /\ mem' = m2 /\ sync' = AtRest
      /\ \/ journal' = m2 /\ Saved(p, c)
         \/ (journal' = m2 \/ journal' = j) /\ UNCHANGED <<disk, latest, raced>>
  BY <1>1, <1>2, <1>3, <1>4, <1>5 DEF Records, InMemory, Equals
<1>9. /\ ids \in Nat /\ ids' = ids + 1 /\ ids' \in 0..MaxId /\ ids' \in Nat /\ ids <= ids'
      /\ ids + 1 \in Id
  <2>1. ids \in 0..MaxId /\ ids < MaxId /\ ids' = ids + 1
    BY <1>6, <1>7 DEF LocalTyped, DrawsId
  <2>2. QED
    BY <2>1, NoneTyped DEF Id
<1>10. /\ c \in Image /\ c # None /\ made \subseteq made' /\ made' \subseteq Content
       /\ tainted' \subseteq Content /\ tainted' \intersect made \subseteq tainted
       /\ tainted' \subseteq made' /\ c \notin tainted /\ None \notin tainted'
  BY <1>6, <1>7, NoneTyped DEF LocalTyped, DiskKept, Image
<1>11. /\ previous \in SUBSET m.pending
       /\ \A x \in previous : x.path = p /\ ~x.proposed /\ x.key = 0
       /\ previous # {} => \E x \in m.pending : previous = {x}
       /\ previous = {} => \A x \in m.pending : x.path = p /\ x.content # None /\ x.key = 0 => x.proposed
  BY <1>1, <1>2 DEF Previous, Unsubmitted, InMemory
<1>12. /\ Begins(y, p, c) /\ y.origin = OriginOf(previous, origin)
       /\ y.status \in {"pending", "held"}
       /\ y.status = "pending" => y.origin = "human" /\ y.baseRev # 0
  BY <1>1, <1>3, <1>6, <1>9, <1>11, WriteItemTyped
<1>13. (origin = "agent" \/ \E x \in previous : x.origin = "agent") => y.origin = "agent"
  BY <1>12 DEF OriginOf
\* The change of a file with an agent's work is one that a write replaces.
<1>14. \A x \in m.pending : x.path = p /\ x.origin = "agent" => previous # {}
  <2> SUFFICES ASSUME NEW x \in m.pending, x.path = p, x.origin = "agent"
               PROVE  previous # {}
    OBVIOUS
  <2>1. x.content # None /\ x.key = 0 /\ ~x.proposed
    BY <1>6 DEF ItemKept, Owned, Stands
  <2>2. QED
    BY <1>11, <2>1
<1>15. CarriesOn(p, previous) => \E x \in previous : x.origin = "agent"
  <2>1. CASE previous = {}
    <3>1. disk[p] \notin tainted
      BY <1>6, <1>14, <2>1 DEF CopyKept, AgentKept
    <3>2. QED
      BY <2>1, <3>1 DEF CarriesOn
  <2>2. CASE previous # {}
    BY <1>6, <1>11, <2>2 DEF CarriesOn, ItemKept, Owned
  <2>3. QED
    BY <2>1, <2>2
<1>16. c \in tainted' => y.origin = "agent"
  BY <1>7, <1>10, <1>13, <1>15
<1>17. Owned(y)'
  BY <1>7, <1>10, <1>12, <1>16 DEF Owned, Begins
<1>18. Begun(m, previous, y, m2)
  BY <1>1, <1>4, <1>7, <1>10, <1>11, <1>12, <1>17, BegunKept
<1>19. /\ m2 \in Replica /\ BatchesKept(m2)' /\ m2.pending = (m.pending \ previous) \union {y}
       /\ m2.rev = m.rev /\ m2.listed = m.listed
       /\ FilesReach(m2, Newest)' /\ AnswersReach(m2, Newest)' /\ y.path = p
  BY <1>12, <1>18 DEF Begun, Begins
<1>20. /\ disk' \in [Path -> Image] /\ latest' \in [Path -> Image]
       /\ \A q \in Path : q # p => disk'[q] = disk[q] /\ latest'[q] = latest[q]
       /\ \/ disk'[p] = c /\ latest'[p] = c /\ (p \in removing => c \in raced')
          \/ disk'[p] = disk[p] /\ latest'[p] = latest[p]
       /\ raced \subseteq raced' /\ raced' \subseteq raced \union {c}
  <2>1. CASE Saved(p, c)
    BY <1>6, <1>10, <2>1 DEF LocalTyped, Saved, Exposed
  <2>2. CASE UNCHANGED <<disk, latest, raced>>
    BY <1>6, <2>2 DEF LocalTyped
  <2>3. QED
    BY <1>8, <2>1, <2>2
<1>21. \A q \in Path : disk[q] \in tainted' => disk[q] \in tainted
  BY <1>6, <1>10 DEF DiskKept
<1>22. AgentKept(m2)'
  <2> SUFFICES ASSUME NEW q \in Path, disk'[q] \in tainted'
               PROVE  \E x \in m2.pending : x.path = q /\ x.origin = "agent"
    BY DEF AgentKept
  <2>1. CASE q = p /\ disk'[p] = c
    BY <1>16, <1>19, <2>1
  <2>2. CASE disk'[q] = disk[q]
    <3>1. PICK x \in m.pending : x.path = q /\ x.origin = "agent"
      BY <1>6, <1>21, <2>2 DEF CopyKept, AgentKept
    <3>2. CASE x \in previous
      BY <1>11, <1>13, <1>19, <3>1, <3>2
    <3>3. CASE x \notin previous
      BY <1>19, <3>1, <3>3
    <3>4. QED
      BY <3>2, <3>3
  <2>3. QED
    BY <1>20, <2>1, <2>2
<1>23. Newest' = Newest /\ WorldKept'
  BY <1>6, <1>7, <1>9, <1>10, WorldStays
<1>24. CopyKept(m2)'
  BY <1>6, <1>19, <1>22, <1>23 DEF CopyKept, ListedKept
<1>25. /\ j \in Replica /\ CopyKept(j) /\ FilesReach(j, Newest) /\ AnswersReach(j, Newest)
  BY <1>5 DEF ReplicaInv, ReplicaTypeOK, ReachKept, Equals
<1>26. disk' = disk => CopyKept(j)'
  <2>1. BatchesKept(j)'
    BY <1>7, <1>9, <1>10, <1>25, BatchesStay DEF CopyKept
  <2>2. ListedKept(j)'
    BY <1>23, <1>25 DEF CopyKept, ListedKept
  <2>3. disk' = disk => AgentKept(j)'
    BY <1>21, <1>25 DEF CopyKept, AgentKept
  <2>4. QED
    BY <2>1, <2>2, <2>3 DEF CopyKept
<1>27. FilesReach(j, Newest)' /\ AnswersReach(j, Newest)'
  BY <1>7, <1>23, <1>25 DEF FilesReach, AnswersReach, Reaches
<1>28. ServerTyped' /\ LocalTyped'
  BY <1>6, <1>7, <1>9, <1>10, <1>20 DEF ServerTyped, LocalTyped
<1>29. DiskKept'
  <2>1. Stored' = Stored
    BY <1>7, <1>23 DEF Stored
  <2>2. EditsAreKept' /\ \A q \in removing' : Spared(q)'
    BY <1>6, <1>7, <1>20, <2>1 DEF DiskKept, EditsAreKept, Spared, LocalTyped
  <2>3. \A q \in Path : disk'[q] \in made' \union {None}
    BY <1>6, <1>7, <1>20 DEF DiskKept
  <2>4. QED
    BY <1>6, <1>7, <1>10, <1>20, <2>2, <2>3 DEF DiskKept
<1>30. PassKept' /\ FoundKept' /\ ~Answering' /\ ~Comparing'
  <2>1. Newest' \in Nat
    BY <1>1, <1>23, MemoryHolds
  <2>2. QED
    BY <1>8, <2>1, RestKeeps
<1>31. CASE journal' = m2
  BY <1>8, <1>19, <1>23, <1>24, <1>28, <1>29, <1>30, <1>31, AtRestTyped, Assembled
<1>32. CASE journal' = j /\ disk' = disk
  BY <1>8, <1>19, <1>23, <1>24, <1>25, <1>26, <1>27, <1>28, <1>29, <1>30, <1>32, AtRestTyped,
     Assembled
<1>33. QED
  BY <1>8, <1>31, <1>32

LEMMA UserDeleteKeeps ==
  ASSUME ReplicaInv, NEW p \in Path, UserDelete(p)
  PROVE  ReplicaInv'
<1> USE DEF workspace
<1>1. PICK m : InMemory(m)
  BY DEF InMemory
<1>2. /\ m \in Replica /\ m.pending \subseteq Item /\ CopyKept(m) /\ ServerTyped /\ LocalTyped
      /\ WorldKept /\ DiskKept /\ FoundKept /\ Newest \in Nat
  BY <1>1, MemoryHolds DEF ReplicaInv
<1>3. /\ sync.stage = "rest"
      /\ UNCHANGED <<line, intents, disk, made, tainted, raced>>
      /\ \/ removing' = removing \union {p} /\ latest' = [latest EXCEPT ![p] = None]
         \/ UNCHANGED <<removing, latest>>
  BY DEF UserDelete
<1>4. /\ latest' \in [Path -> Image] /\ removing' \subseteq Path
      /\ \A q \in Path : latest'[q] = latest[q] \/ latest'[q] = None
      /\ \A q \in removing' : q \in removing \/ latest'[q] = None
  <2>1. None \in Image
    BY DEF Image
  <2>2. QED
    BY <1>2, <1>3, <2>1 DEF LocalTyped
<1>5. None \notin tainted /\ tainted \subseteq Content
  BY <1>2, NoneTyped DEF LocalTyped
<1>6. \A w : AgentKept(w) => AgentKept(w)'
  BY <1>3 DEF AgentKept
<1>7. Newest' = Newest
  BY <1>3 DEF Newest
<1>8. DiskKept'
  <2>1. Stored' = Stored
    BY <1>3, <1>7 DEF Stored
  <2>2. QED
    BY <1>2, <1>3, <1>4, <2>1 DEF DiskKept, EditsAreKept, Spared, LocalTyped
<1>9. CASE UNCHANGED <<mem, journal, sync, ids>>
  <2>1. ids' \in Nat /\ ids \in Nat /\ ids <= ids'
    BY <1>2, <1>9, NoneTyped DEF LocalTyped
  <2>2. ServerTyped' /\ LocalTyped'
    BY <1>2, <1>3, <1>4, <1>9 DEF ServerTyped, LocalTyped
  <2>3. WorldKept'
    BY <1>2, <1>3, <1>5, <2>1, WorldStays
  <2>4. ASSUME NEW w \in Replica, CopyKept(w) PROVE CopyKept(w)'
    <3>1. BatchesKept(w)'
      BY <1>3, <1>5, <2>1, <2>4, BatchesStay DEF CopyKept
    <3>2. QED
      BY <1>6, <1>7, <2>4, <3>1 DEF CopyKept, ListedKept
  <2>5. FoundKept'
    BY <1>3, <1>9 DEF FoundKept
  <2>6. Newest <= Newest' /\ \A n \in 1..Newest : line'[n] = line[n]
    BY <1>2, <1>3, <1>7
  <2>7. QED
    BY <1>8, <1>9, <2>2, <2>3, <2>4, <2>5, <2>6, OthersKeep
<1>10. ASSUME DrawsId,
              LET held == Touched(p) \/ mem.rev = 0 \/ mem.files[p] = None
                  w == Put(mem, NewItem(p, None, "human", IF held THEN "held" ELSE "pending"))
              IN  Records(w, AtRest)
       PROVE  ReplicaInv'
  <2>1. PICK status : status = IF Touched(p) \/ mem.rev = 0 \/ mem.files[p] = None
                                 THEN "held" ELSE "pending"
    OBVIOUS
  <2>2. status \in {"pending", "publishing", "review", "conflict", "held"}
    BY <2>1
  <2>3. PICK y : Equals(y, NewItem(p, None, "human", status))
    BY DEF Equals
  <2>4. /\ ids \in Nat /\ ids' = ids + 1 /\ ids' \in 0..MaxId /\ ids' \in Nat /\ ids <= ids'
        /\ ids + 1 \in Id
    <3>1. ids \in 0..MaxId /\ ids < MaxId /\ ids' = ids + 1
      BY <1>2, <1>10 DEF LocalTyped, DrawsId
    <3>2. QED
      BY <3>1, NoneTyped DEF Id
  <2>5. Begins(y, p, None) /\ y.origin = "human" /\ y.status = status /\ y.baseRev = BaseRevOf(p)
    <3>1. None \in Image /\ "human" \in {"human", "agent", "unknown"}
      BY DEF Image
    <3>2. QED
      BY <1>1, <1>2, <2>2, <2>3, <2>4, <3>1, NewItemTyped
  <2>6. y.status = "pending" => y.baseRev # 0
    BY <1>1, <1>2, <2>1, <2>5, BaseTyped DEF InMemory
  <2>7. Owned(y)'
    BY <1>3, <1>5, <2>5, <2>6 DEF Owned, Begins
  <2>8. PICK m2 : Equals(m2, Swap(m, {}, {y}))
    BY DEF Equals
  <2>9. Begun(m, {}, y, m2)
    <3>1. {} \in SUBSET m.pending /\ \A x \in {} : ~x.proposed
      OBVIOUS
    <3>2. /\ UNCHANGED workspace /\ made \subseteq made' /\ tainted' \subseteq Content
          /\ tainted' \intersect made \subseteq tainted
      BY <1>3, <1>5
    <3>3. QED
      BY <1>1, <1>10, <2>5, <2>7, <2>8, <3>1, <3>2, BegunKept
  <2>10. /\ m2 \in Replica /\ BatchesKept(m2)' /\ m2.pending = m.pending \union {y}
         /\ m2.rev = m.rev /\ m2.listed = m.listed
         /\ FilesReach(m2, Newest)' /\ AnswersReach(m2, Newest)'
    BY <2>9 DEF Begun
  <2>11. mem' = m2 /\ sync' = AtRest /\ (journal' = m2 \/ journal' = journal)
    <3>1. m2 = Put(mem, y)
      BY <1>1, <2>8 DEF Swap, Put, InMemory, Equals
    <3>2. QED
      BY <1>10, <2>1, <2>3, <3>1 DEF Records, Equals
  <2>12. AgentKept(m2)'
    BY <1>2, <1>6, <2>10 DEF CopyKept, AgentKept
  <2>13. CopyKept(m2)'
    BY <1>2, <1>7, <2>10, <2>12 DEF CopyKept, ListedKept
  <2>14. ServerTyped' /\ LocalTyped'
    BY <1>2, <1>3, <1>4, <2>4 DEF ServerTyped, LocalTyped
  <2>15. WorldKept'
    BY <1>2, <1>3, <1>5, <2>4, WorldStays
  <2>16. PassKept' /\ FoundKept' /\ ~Answering' /\ ~Comparing'
    BY <1>2, <1>7, <2>11, RestKeeps
  <2>17. PICK j : Equals(j, journal)
    BY DEF Equals
  <2>18. j \in Replica /\ CopyKept(j) /\ FilesReach(j, Newest) /\ AnswersReach(j, Newest)
    BY <2>17 DEF ReplicaInv, ReplicaTypeOK, ReachKept, Equals
  <2>19. CopyKept(j)'
    <3>1. BatchesKept(j)'
      BY <1>3, <1>5, <2>4, <2>18, BatchesStay DEF CopyKept
    <3>2. QED
      BY <1>6, <1>7, <2>18, <3>1 DEF CopyKept, ListedKept
  <2>20. FilesReach(j, Newest)' /\ AnswersReach(j, Newest)'
    BY <1>3, <1>7, <2>18 DEF FilesReach, AnswersReach, Reaches
  <2>21. CASE journal' = m2
    BY <1>8, <2>10, <2>11, <2>13, <2>14, <2>15, <2>16, <2>21, AtRestTyped, Assembled
  <2>22. CASE journal' = j
    BY <1>8, <2>10, <2>11, <2>13, <2>14, <2>15, <2>16, <2>18, <2>19, <2>20, <2>22,
       AtRestTyped, Assembled
  <2>23. QED
    BY <2>11, <2>17, <2>21, <2>22 DEF Equals
<1>11. QED
  BY <1>9, <1>10 DEF UserDelete

(***************************************************************************)
(* Every step keeps the invariant.                                         *)
(***************************************************************************)
LEMMA InitReplica == ReplicaInit => ReplicaInv
<1> SUFFICES ASSUME ReplicaInit PROVE ReplicaInv
  OBVIOUS
<1> USE DEF ReplicaInit
<1>1. PICK tree \in [Path -> Image] : tree = [p \in Path |-> None]
  BY DEF Image
<1>2. line = <<tree>> /\ Newest = 1 /\ line[1] = tree /\ \A p \in Path : tree[p] = None
  BY <1>1 DEF Newest
<1>3. 1 \in Rev
  BY NoneTyped DEF Rev
<1>4. Blank \in Replica /\ Blank.pending = {} /\ Blank.rev = 0 /\ Blank.listed = 0
      /\ \A p \in Path : Blank.files[p] = None
  BY DEF Blank, Replica
<1>5. ServerTyped
  <2>1. line \in Seq([Path -> Image]) /\ Len(line) = 1
    BY <1>1, <1>2
  <2>2. QED
    BY <1>3, <2>1 DEF ServerTyped
<1>6. LocalTyped
  BY NoneTyped DEF LocalTyped, Image
<1>7. ReplicaTypeOK
  BY <1>4, <1>5, <1>6, AtRestTyped, ReplicaTypeParts
<1>8. WorldKept
  BY <1>2 DEF WorldKept, LineKept, IntentsKept, NoneTwice, Submitted, IntentIs
<1>9. CopyKept(Blank)
  BY <1>2, <1>4 DEF CopyKept, BatchesKept, Distinct, Together, Whole, Waits, AgentKept,
     ListedKept, Submitted, IntentIs
<1>10. PassKept /\ FoundKept /\ ~Answering /\ ~Comparing
  BY <1>2, AtRestTyped DEF PassKept, IdsKept, RevKept, SubmitKept, FoundKept, Answering,
     Comparing, Recovering
<1>11. ReachKept
  BY <1>4, <1>10 DEF ReachKept, FilesReach, AnswersReach
<1>12. DiskKept
  BY DEF DiskKept, EditsAreKept, Spared
<1>13. QED
  BY <1>7, <1>8, <1>9, <1>10, <1>11, <1>12 DEF ReplicaInv

LEMMA StutterKeeps == ASSUME ReplicaInv, UNCHANGED rvars PROVE ReplicaInv'
<1>1. UNCHANGED <<line, intents, disk, removing, mem, journal, sync, ids, made, tainted,
                   latest, raced>>
  BY DEF rvars, history
<1>2. /\ ServerTyped /\ LocalTyped /\ Newest \in Nat /\ WorldKept /\ DiskKept /\ FoundKept
  BY ReplicaTypeParts, LineTyped DEF ReplicaInv
<1>3. Newest' = Newest /\ ids \in Nat /\ tainted \subseteq Content
  BY <1>1, <1>2, NoneTyped DEF Newest, LocalTyped
<1>4. ServerTyped' /\ LocalTyped'
  BY <1>1, <1>2 DEF ServerTyped, LocalTyped
<1>5. WorldKept'
  BY <1>1, <1>2, <1>3, WorldStays
<1>6. DiskKept'
  BY <1>1, <1>2, <1>3 DEF DiskKept, EditsAreKept, Spared, Stored
<1>7. FoundKept'
  BY <1>1, <1>2, <1>3 DEF FoundKept, Public
<1>8. \A m \in Replica : CopyKept(m) => CopyKept(m)'
  BY <1>1, <1>2, <1>3, CopyStays DEF workspace
<1>9. Newest <= Newest' /\ \A n \in 1..Newest : line'[n] = line[n]
  BY <1>1, <1>2, <1>3
<1>10. QED
  BY <1>1, <1>4, <1>5, <1>6, <1>7, <1>8, <1>9, OthersKeep

LEMMA ReplicaStep == ReplicaInv /\ [ReplicaNext]_rvars => ReplicaInv'
<1> SUFFICES ASSUME ReplicaInv, [ReplicaNext]_rvars PROVE ReplicaInv'
  OBVIOUS
<1>1. CASE Syncing
  BY <1>1, StartSyncKeeps, RecoverItemKeeps, RecordAttemptKeeps, SubmitIntentKeeps,
     ListInventoryKeeps, ReconcilePathKeeps, RecheckLocalKeeps, WriteFileKeeps,
     TrashFileKeeps, EndReconcileKeeps, CapturePathKeeps, ContinueRetiredKeeps, EndSettleKeeps, ProposeKeeps,
     DispatchProposalKeeps, EndSyncKeeps, RestartKeeps DEF Syncing
<1>2. CASE Editing
  BY <1>2, ExternalEditKeeps, UserWriteKeeps, UserDeleteKeeps, RemoveFileKeeps,
     PrepareRecoveryKeeps DEF Editing
<1>3. CASE Serving
  BY <1>3, OtherClientKeeps, DecideIntentKeeps, RetireIntentKeeps DEF Serving
<1>4. CASE UNCHANGED rvars
  BY <1>4, StutterKeeps
<1>5. QED
  BY <1>1, <1>2, <1>3, <1>4 DEF ReplicaNext

LEMMA ReplicaKept == ReplicaSpec => []ReplicaInv
  BY InitReplica, ReplicaStep, PTL DEF ReplicaSpec

(***************************************************************************)
(* The theorems.                                                           *)
(***************************************************************************)
\* Every variable keeps to its type, in memory and in the journal.
THEOREM ReplicaTypesHold == ReplicaSpec => []ReplicaTypeOK
<1>1. ReplicaInv => ReplicaTypeOK
  BY DEF ReplicaInv
<1>2. QED
  BY <1>1, ReplicaKept, PTL

\* What the user saved last in a file stays in it until it is in a revision, however a
\* pass of the runtime is interleaved with edits, deletions, other clients, failures and
\* restarts (reconcile reads a file again before it is replaced); excepted is what was
\* saved after the last look at a file that is replaced or removed.
THEOREM EditsHold == ReplicaSpec => []EditsAreKept
<1>1. ReplicaInv => EditsAreKept
  BY DEF ReplicaInv, DiskKept
<1>2. QED
  BY <1>1, ReplicaKept, PTL

\* Two publications of one change are never both carried out, although a change whose
\* publication was retired or refused is proposed again under another key (propose,
\* continueRetired, prepareRecovery).
THEOREM OnceHolds == ReplicaSpec => []PublishedOnce
<1>1. ASSUME ReplicaInv PROVE PublishedOnce
  <2>1. NoneTwice
    BY <1>1 DEF ReplicaInv, WorldKept
  <2>2. \A k : IntentIs(k, {"applied"}) => Submitted(k)
    BY DEF Submitted, IntentIs
  <2>3. QED
    BY <2>1, <2>2 DEF NoneTwice, PublishedOnce
<1>2. QED
  BY <1>1, ReplicaKept, PTL

\* No proposal has a content that an agent wrote or that carries an agent's work on
\* (the origin of a change outlives edits, restarts and submissions).
THEOREM AgentWorkHolds == ReplicaSpec => []AgentWorkIsHeld
<1>1. ASSUME ReplicaInv PROVE AgentWorkIsHeld
  <2>1. IntentsKept /\ tainted \subseteq Content
    BY <1>1, ReplicaTypeParts DEF ReplicaInv, WorldKept, LocalTyped
  <2>2. None \notin tainted
    BY <2>1, NoneTyped
  <2>3. QED
    BY <2>1, <2>2 DEF IntentsKept, AgentWorkIsHeld
<1>2. QED
  BY <1>1, ReplicaKept, PTL

\* The file a pass replaces or removes holds nothing that only a later revision has
\* (the revision is negotiated again when a recovered publication may have moved it).
THEOREM NoRollBackHolds == ReplicaSpec => NeverRollsBack
<1> DEFINE p == sync.path
           Replaced == sync.stage \in {"write", "trash"} /\ disk'[p] # disk[p] /\ disk[p] \in Stored =>
                         \E n \in 1..sync.rev : line[n][p] = disk[p]
<1>1. ASSUME ReplicaInv PROVE Replaced
  <2> SUFFICES ASSUME sync.stage \in {"write", "trash"}, disk[p] \in Stored
               PROVE  \E n \in 1..sync.rev : line[n][p] = disk[p]
    OBVIOUS
  <2>1. Public(disk[p]) /\ disk[p] # None
    BY DEF Stored, Public
  <2>2. FoundKept /\ FilesReach(mem, sync.rev)
    BY <1>1 DEF ReplicaInv, ReachKept, Comparing
  <2>3. /\ p \in Path /\ disk[p] = sync.found
        /\ mem.files[p] # None /\ disk[p] = mem.files[p].local
    BY <2>1, <2>2 DEF FoundKept
  <2>4. Reaches(p, disk[p], sync.rev)
    BY <2>1, <2>2, <2>3 DEF FilesReach
  <2>5. QED
    BY <2>4 DEF Reaches
<1>2. ReplicaInv => [Replaced]_<<disk, sync>>
  BY <1>1
<1>3. QED
  BY <1>2, ReplicaKept, PTL DEF NeverRollsBack

====
