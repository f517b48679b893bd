----------------------------- MODULE PluginProofs -----------------------------
(***************************************************************************)
(* Proofs about two parts of the plugin, for every value of their          *)
(* constants: the offline queue and the local recovery capsule.  They      *)
(* share no state, and no fact about one is used for the other.            *)
(***************************************************************************)
EXTENDS OfflineQueue, RecoveryCapsule, Sequences, FiniteSets,
        FiniteSetTheorems, WellFoundedInduction, TLAPS

(***************************************************************************)
(* OfflineQueue: what a filter of the queue keeps.                         *)
(***************************************************************************)
\* A set of naturals has a least element: the induction the proofs below use.
LEMMA LeastOf ==
  ASSUME NEW S \in SUBSET Nat, S # {}
  PROVE  \E m \in S : \A n \in S : m <= n
<1>1. IsWellFoundedOn(OpToRel(<, Nat), Nat)
  BY NatLessThanWellFounded
<1>2. PICK m \in S : \A n \in S : ~ (<<n, m>> \in OpToRel(<, Nat))
  BY <1>1, WFMin
<1>3. \A n \in S : ~ (n < m)
  BY <1>2 DEF OpToRel
<1>4. QED
  BY <1>3

Elements(q) == {q[i] : i \in 1..Len(q)}

LEMMA AppendAt ==
  ASSUME NEW S, NEW q \in Seq(S), NEW last \in S
  PROVE  /\ Append(q, last) \in Seq(S) /\ Len(Append(q, last)) = Len(q) + 1 /\ Len(q) \in Nat
         /\ \A i \in 1..Len(q) : Append(q, last)[i] = q[i]
         /\ Append(q, last)[Len(q) + 1] = last
  OBVIOUS

LEMMA ExceptAt ==
  ASSUME NEW S, NEW q \in Seq(S), NEW i \in 1..Len(q), NEW e \in S
  PROVE  /\ [q EXCEPT ![i] = e] \in Seq(S) /\ Len([q EXCEPT ![i] = e]) = Len(q)
         /\ \A j \in 1..Len(q) : [q EXCEPT ![i] = e][j] = IF j = i THEN e ELSE q[j]
<1>1. Len(q) \in Nat /\ DOMAIN q = 1..Len(q) /\ \A j \in 1..Len(q) : q[j] \in S
  OBVIOUS
<1>2. PICK r : r = [q EXCEPT ![i] = e]
  OBVIOUS
<1>3. r \in [1..Len(q) -> S] /\ \A j \in 1..Len(q) : r[j] = IF j = i THEN e ELSE q[j]
  BY <1>1, <1>2
<1>4. r \in Seq(S) /\ Len(r) = Len(q)
  BY <1>1, <1>3
<1>5. QED
  BY <1>2, <1>3, <1>4

LEMMA AppendElements ==
  ASSUME NEW S, NEW q \in Seq(S), NEW last \in S
  PROVE  Append(q, last) \in Seq(S) /\ Elements(Append(q, last)) = Elements(q) \union {last}
<1>1. /\ Append(q, last) \in Seq(S) /\ Len(Append(q, last)) = Len(q) + 1 /\ Len(q) \in Nat
      /\ \A i \in 1..Len(q) : Append(q, last)[i] = q[i]
      /\ Append(q, last)[Len(q) + 1] = last
  BY AppendAt
<1>2. \A i \in 1..(Len(q) + 1) : i \in 1..Len(q) \/ i = Len(q) + 1
  BY <1>1
<1>3. QED
  BY <1>1, <1>2 DEF Elements

LEMMA ConcatElements ==
  ASSUME NEW S, NEW q \in Seq(S), NEW t \in Seq(S)
  PROVE  q \o t \in Seq(S) /\ Elements(q \o t) = Elements(q) \union Elements(t)
<1>1. /\ q \o t \in Seq(S) /\ Len(q \o t) = Len(q) + Len(t) /\ Len(q) \in Nat /\ Len(t) \in Nat
      /\ \A i \in 1..Len(q) : (q \o t)[i] = q[i]
      /\ \A i \in 1..Len(t) : (q \o t)[Len(q) + i] = t[i]
  OBVIOUS
<1>2. \A i \in 1..(Len(q) + Len(t)) :
        i \in 1..Len(q) \/ (i - Len(q) \in 1..Len(t) /\ i = Len(q) + (i - Len(q)))
  BY <1>1
<1>3. \A i \in 1..Len(q) : i \in 1..(Len(q) + Len(t))
  BY <1>1
<1>4. \A i \in 1..Len(t) : Len(q) + i \in 1..(Len(q) + Len(t))
  BY <1>1
<1>5. ASSUME NEW x \in Elements(q \o t) PROVE x \in Elements(q) \union Elements(t)
  <2>1. PICK i \in 1..(Len(q) + Len(t)) : x = (q \o t)[i]
    BY <1>1, <1>5 DEF Elements
  <2>2. CASE i \in 1..Len(q)
    BY <1>1, <2>1, <2>2 DEF Elements
  <2>3. CASE i - Len(q) \in 1..Len(t) /\ i = Len(q) + (i - Len(q))
    BY <1>1, <2>1, <2>3 DEF Elements
  <2>4. QED
    BY <1>2, <2>2, <2>3
<1>6. Elements(q) \subseteq Elements(q \o t)
  BY <1>1, <1>3 DEF Elements
<1>7. Elements(t) \subseteq Elements(q \o t)
  <2> SUFFICES ASSUME NEW i \in 1..Len(t) PROVE t[i] \in Elements(q \o t)
    BY DEF Elements
  <2>1. (q \o t)[Len(q) + i] = t[i] /\ Len(q) + i \in 1..Len(q \o t)
    BY <1>1, <1>4
  <2>2. QED
    BY <2>1 DEF Elements
<1>8. QED
  BY <1>1, <1>5, <1>6, <1>7

LEMMA HeadElements ==
  ASSUME NEW S, NEW q \in Seq(S), q # <<>>
  PROVE  /\ Tail(q) \in Seq(S) /\ Head(q) \in Elements(q)
         /\ Elements(Tail(q)) \subseteq Elements(q)
         /\ Elements(q) \subseteq Elements(Tail(q)) \union {Head(q)}
<1>1. /\ Tail(q) \in Seq(S) /\ Len(Tail(q)) = Len(q) - 1 /\ Len(q) \in Nat /\ Len(q) > 0
      /\ \A i \in 1..Len(Tail(q)) : Tail(q)[i] = q[i + 1]
      /\ Head(q) = q[1]
  OBVIOUS
<1>2. Head(q) \in Elements(q)
  BY <1>1 DEF Elements
<1>3. Elements(Tail(q)) \subseteq Elements(q)
  <2> SUFFICES ASSUME NEW i \in 1..Len(Tail(q)) PROVE Tail(q)[i] \in Elements(q)
    BY DEF Elements
  <2>1. i + 1 \in 1..Len(q) /\ Tail(q)[i] = q[i + 1]
    BY <1>1
  <2>2. QED
    BY <2>1 DEF Elements
<1>4. Elements(q) \subseteq Elements(Tail(q)) \union {Head(q)}
  <2> SUFFICES ASSUME NEW i \in 1..Len(q), i # 1 PROVE q[i] \in Elements(Tail(q))
    BY <1>1 DEF Elements
  <2>1. i - 1 \in 1..Len(Tail(q)) /\ Tail(q)[i - 1] = q[i]
    BY <1>1
  <2>2. QED
    BY <2>1 DEF Elements
<1>5. QED
  BY <1>1, <1>2, <1>3, <1>4

LEMMA ElementsTyped ==
  ASSUME NEW S, NEW q \in Seq(S)
  PROVE  Elements(q) \subseteq S
  BY DEF Elements

\* One more operation is looked at.
Longer(kept, entry, f) == IF entry.file = f THEN kept ELSE Append(kept, entry)

\* g holds what is kept of the first m operations of q, for every m up to n.
Filters(g, q, f, n) ==
  g = [m \in 0..n |-> IF m = 0 THEN <<>>
                      ELSE IF q[m].file = f THEN g[m - 1] ELSE Append(g[m - 1], q[m])]

LEMMA FilterExists ==
  ASSUME NEW q \in Seq(Operation), NEW f
  PROVE  \E g : Filters(g, q, f, Len(q))
<1> DEFINE Missing == {n \in Nat : n <= Len(q) /\ ~ \E g : Filters(g, q, f, n)}
<1>a. Len(q) \in Nat
  OBVIOUS
<1> SUFFICES ASSUME Missing # {} PROVE FALSE
  BY <1>a
<1>1. PICK n \in Missing : \A m \in Missing : n <= m
  BY LeastOf
<1>2. CASE n = 0
  <2>1. Filters([m \in 0..0 |-> <<>>], q, f, 0)
    BY DEF Filters
  <2>2. QED
    BY <1>1, <1>2, <2>1
<1>3. CASE n # 0
  <2>1. n - 1 \in Nat /\ n - 1 \notin Missing /\ n - 1 <= Len(q) /\ n \in Nat
    BY <1>1, <1>3
  <2>2. PICK g : Filters(g, q, f, n - 1)
    BY <2>1
  <2> DEFINE h == [m \in 0..n |-> IF m = n THEN Longer(g[n - 1], q[n], f) ELSE g[m]]
  <2>3. \A m \in 0..n : h[m] = IF m = 0 THEN <<>>
                               ELSE IF q[m].file = f THEN h[m - 1] ELSE Append(h[m - 1], q[m])
    <3> SUFFICES ASSUME NEW m \in 0..n
                 PROVE  h[m] = IF m = 0 THEN <<>>
                               ELSE IF q[m].file = f THEN h[m - 1] ELSE Append(h[m - 1], q[m])
      OBVIOUS
    <3>1. CASE m = n
      <4>1. h[m] = Longer(g[n - 1], q[n], f) /\ h[m - 1] = g[n - 1] /\ m # 0
        BY <1>3, <2>1, <3>1
      <4>2. QED
        BY <3>1, <4>1 DEF Longer
    <3>2. CASE m # n
      <4>1. m \in 0..(n - 1) /\ h[m] = g[m]
        BY <2>1, <3>2
      <4>2. m # 0 => m - 1 \in 0..n /\ m - 1 # n /\ h[m - 1] = g[m - 1]
        BY <2>1, <3>2
      <4>3. g[m] = IF m = 0 THEN <<>>
                   ELSE IF q[m].file = f THEN g[m - 1] ELSE Append(g[m - 1], q[m])
        BY <2>2, <4>1 DEF Filters
      <4>4. QED
        BY <4>1, <4>2, <4>3
    <3>3. QED
      BY <3>1, <3>2
  <2>4. h = [m \in 0..n |-> h[m]]
    OBVIOUS
  <2> HIDE DEF h
  <2>5. Filters(h, q, f, n)
    BY <2>3, <2>4 DEF Filters
  <2>6. QED
    BY <1>1, <2>5
<1>4. QED
  BY <1>2, <1>3

\* The filter keeps the operations of the other files, and nothing else.
LEMMA OthersKeep ==
  ASSUME NEW q \in Seq(Operation), NEW f
  PROVE  /\ Others(q, f) \in Seq(Operation)
         /\ Elements(Others(q, f)) = {entry \in Elements(q) : entry.file # f}
<1> DEFINE g == CHOOSE others : Filters(others, q, f, Len(q))
<1>1. Others(q, f) = g[Len(q)]
  BY DEF Others, Filters
<1>2. Filters(g, q, f, Len(q))
  BY FilterExists
<1> HIDE DEF g
<1>3. \A m \in 0..Len(q) :
        g[m] = IF m = 0 THEN <<>>
               ELSE IF q[m].file = f THEN g[m - 1] ELSE Append(g[m - 1], q[m])
  BY <1>2 DEF Filters
<1> DEFINE Remaining(m) == {entry \in {q[i] : i \in 1..m} : entry.file # f}
           Right(m) == g[m] \in Seq(Operation) /\ Elements(g[m]) = Remaining(m)
           Wrong == {m \in Nat : m <= Len(q) /\ ~Right(m)}
<1>4. Len(q) \in Nat /\ \A i \in 1..Len(q) : q[i] \in Operation
  OBVIOUS
<1>5. \A n \in Nat : n <= Len(q) => Right(n)
  <2> SUFFICES ASSUME Wrong # {} PROVE FALSE
    OBVIOUS
  <2>a. Wrong \subseteq Nat
    OBVIOUS
  <2>1. PICK m \in Wrong : \A n \in Wrong : m <= n
    BY <2>a, LeastOf
  <2>b. m \in Nat /\ m <= Len(q) /\ ~Right(m)
    OBVIOUS
  <2>c. \A n \in Nat : n < m => Right(n)
    <3> SUFFICES ASSUME NEW n \in Nat, n < m, ~Right(n) PROVE FALSE
      OBVIOUS
    <3>1. n <= Len(q)
      BY <1>4, <2>b
    <3>2. n \in Wrong
      BY <3>1
    <3>3. QED
      BY <2>1, <2>b, <3>2
  <2> HIDE DEF Wrong
  <2>2. CASE m = 0
    <3>1. g[0] = <<>>
      BY <1>3, <1>4
    <3>2. g[0] \in Seq(Operation) /\ Elements(g[0]) = {} /\ Remaining(0) = {}
      BY <3>1 DEF Elements
    <3>3. QED
      BY <2>b, <2>2, <3>2
  <2>3. CASE m # 0
    <3>1. m \in 1..Len(q) /\ m - 1 \in Nat /\ m - 1 < m /\ m \in 0..Len(q)
      BY <1>4, <2>b, <2>3
    <3>2. g[m - 1] \in Seq(Operation) /\ Elements(g[m - 1]) = Remaining(m - 1)
      BY <2>c, <3>1
    <3>3. {q[i] : i \in 1..m} = {q[i] : i \in 1..(m - 1)} \union {q[m]}
      BY <3>1
    <3>4. CASE q[m].file = f
      <4>1. g[m] = g[m - 1]
        BY <1>3, <3>1, <3>4
      <4>2. Remaining(m) = Remaining(m - 1)
        BY <3>3, <3>4
      <4>3. QED
        BY <2>b, <3>2, <4>1, <4>2
    <3>5. CASE q[m].file # f
      <4>1. g[m] = Append(g[m - 1], q[m]) /\ q[m] \in Operation
        <5>1. q[m] \in Operation
          BY <1>4, <3>1
        <5>2. g[m] = Append(g[m - 1], q[m])
          BY <1>3, <2>3, <3>1, <3>5
        <5>3. QED
          BY <5>1, <5>2
      <4>2. Remaining(m) = Remaining(m - 1) \union {q[m]}
        BY <3>3, <3>5
      <4>3. g[m] \in Seq(Operation) /\ Elements(g[m]) = Elements(g[m - 1]) \union {q[m]}
        BY <3>2, <4>1, AppendElements
      <4>4. QED
        BY <2>b, <3>2, <4>2, <4>3
    <3>6. QED
      BY <3>4, <3>5
  <2>4. QED
    BY <2>2, <2>3
<1>6. g[Len(q)] \in Seq(Operation) /\ Elements(g[Len(q)]) = Remaining(Len(q))
  <2> HIDE DEF Right
  <2>1. Len(q) <= Len(q)
    BY <1>4
  <2>2. Right(Len(q))
    BY <1>4, <1>5, <2>1
  <2>3. QED
    BY <2>2 DEF Right
<1>7. QED
  BY <1>1, <1>6 DEF Elements
(***************************************************************************)
(* OfflineQueue: the invariant.                                            *)
(***************************************************************************)
Pending == Elements(queue) \union Elements(batch)

\* What is asked of an operation wherever it waits: a write carries a save that was
\* made, and where the server still has the version it names, it has nothing newer.
Fresh(entry) ==
  /\ entry.guard <= versions
  /\ entry.kind = "delete" => entry.content = Nothing
  /\ entry.kind = "write" => entry.content \in Save /\ entry.content <= saves
  /\ /\ entry.kind = "write"
     /\ server[entry.file].version = entry.guard
     /\ server[entry.file].content \in Save
     => server[entry.file].content <= entry.content

ServerKept ==
  \A f \in File :
    /\ server[f].version <= versions
    /\ server[f].content \in Save => server[f].content <= saves

KnownKept == \A f \in File : known[f] <= versions

PendingKept == \A entry \in Pending : Fresh(entry)

UserKept ==
  user # Nothing => Fresh(user) /\ (user.kind = "write" => user.content = saves)

\* Saves that nobody has to be told about any more.
Settled == answered \union forsaken

Remembered ==
  \A f \in File :
    local[f] \in Save \ Settled =>
      \E entry \in Pending : entry.file = f /\ entry.content = local[f]

QueueInv ==
  QueueTypeOK /\ ServerKept /\ KnownKept /\ PendingKept /\ UserKept /\ Remembered

\* What a step may do to the server: nothing, remove a file, or give one a new
\* version that is foreign or not older than a save it replaces.
Newer(f, c) ==
  c \in Save => c <= saves /\ (server[f].content \in Save => server[f].content <= c)

Moved ==
  \/ UNCHANGED remote
  \/ \E f \in File : Gone(f)
  \/ \E f \in File, c \in Save \union {Foreign} : NewVersion(f, c) /\ Newer(f, c)

LEMMA RemoteKeeps ==
  ASSUME QueueTypeOK, ServerKept, Moved, saves' \in 0..MaxSaves, saves <= saves'
  PROVE  /\ server' \in [File -> [version : Version, content : Save \union {Foreign, Nothing}]]
         /\ versions' \in Version /\ versions <= versions'
         /\ ServerKept'
         /\ \A entry \in Operation : Fresh(entry) => Fresh(entry)'
         /\ \A f \in File : server[f].content \in Save /\ server'[f].content \in Save =>
              server[f].content <= server'[f].content
<1> USE QueueAssumption
<1>1. /\ server \in [File -> [version : Version, content : Save \union {Foreign, Nothing}]]
      /\ versions \in Nat /\ versions <= MaxVersion
      /\ saves \in Nat /\ saves <= MaxSaves /\ saves' \in Nat
      /\ MaxVersion \in Nat /\ MaxSaves \in Nat
  BY DEF QueueTypeOK, Version
<1>2. \A f \in File : /\ server[f].version \in Nat /\ server[f].version <= versions
                      /\ server[f].content \in Save => server[f].content <= saves
  BY <1>1 DEF ServerKept, Version
<1>3. \A n \in Save : n \in Nat
  BY DEF Save
<1>4. ASSUME NEW entry \in Operation PROVE entry.guard \in Nat /\ entry.file \in File
  BY DEF Operation, Version
<1>5. CASE UNCHANGED remote
  <2>1. server' = server /\ versions' = versions
    BY <1>5 DEF remote
  <2>2. ServerKept'
    BY <1>1, <1>2, <1>3, <2>1 DEF ServerKept
  <2>3. ASSUME NEW entry \in Operation, Fresh(entry) PROVE Fresh(entry)'
    <3>1. entry.kind = "write" => entry.content \in Save /\ entry.content <= saves'
      BY <1>1, <1>3, <2>3 DEF Fresh
    <3>2. QED
      BY <2>1, <2>3, <3>1 DEF Fresh
  <2>4. \A f \in File : server[f].content \in Save => server[f].content <= server'[f].content
    BY <1>3, <2>1
  <2>5. QED
    BY <1>1, <2>1, <2>2, <2>3, <2>4 DEF QueueTypeOK
<1>6. ASSUME NEW f \in File, NEW c \in Save \union {Foreign, Nothing}, NEW v \in Version,
             server' = [server EXCEPT ![f] = [version |-> v, content |-> c]],
             versions' \in Version, versions <= versions', v <= versions',
             v # 0 => v > versions,
             c \in Save => c <= saves /\ (server[f].content \in Save => server[f].content <= c),
             v = 0 => c = Nothing
      PROVE  /\ server' \in [File -> [version : Version, content : Save \union {Foreign, Nothing}]]
             /\ ServerKept'
             /\ \A entry \in Operation : Fresh(entry) => Fresh(entry)'
             /\ \A g \in File : server[g].content \in Save /\ server'[g].content \in Save =>
                  server[g].content <= server'[g].content
  <2>1. [version |-> v, content |-> c] \in [version : Version, content : Save \union {Foreign, Nothing}]
    OBVIOUS
  <2>2. /\ server' \in [File -> [version : Version, content : Save \union {Foreign, Nothing}]]
        /\ server'[f].version = v /\ server'[f].content = c
        /\ \A g \in File \ {f} : server'[g] = server[g]
    BY <1>1, <1>6, <2>1
  <2>v. v \in Nat /\ versions' \in Nat
    BY <1>1, <1>6 DEF Version
  <2>3. ServerKept'
    <3> SUFFICES ASSUME NEW g \in File
                 PROVE  /\ server'[g].version <= versions'
                        /\ server'[g].content \in Save => server'[g].content <= saves'
      BY DEF ServerKept
    <3>1. CASE g = f
      BY <1>1, <1>3, <1>6, <2>2, <2>v, <3>1
    <3>2. CASE g # f
      BY <1>1, <1>2, <1>3, <1>6, <2>2, <2>v, <3>2
    <3>3. QED
      BY <3>1, <3>2
  <2>4. ASSUME NEW entry \in Operation, Fresh(entry) PROVE Fresh(entry)'
    <3>0. entry.guard \in Nat /\ entry.file \in File /\ entry.guard <= versions
      BY <1>4, <2>4 DEF Fresh
    <3>1. entry.guard <= versions'
      BY <1>1, <1>6, <2>v, <3>0
    <3>2. entry.kind = "write" => entry.content \in Save /\ entry.content <= saves'
      BY <1>1, <1>3, <2>4 DEF Fresh
    <3>3. ASSUME entry.kind = "write", server'[entry.file].version = entry.guard,
                 server'[entry.file].content \in Save
          PROVE  server'[entry.file].content <= entry.content
      <4>1. CASE entry.file = f
        <5>1. v = entry.guard /\ v <= versions
          BY <2>2, <3>0, <3>3, <4>1
        <5>2. v = 0
          BY <1>1, <1>6, <2>v, <5>1
        <5>3. Nothing \in Save
          BY <1>6, <2>2, <3>3, <4>1, <5>2
        <5>4. QED
          BY <1>3, <5>3
      <4>2. CASE entry.file # f
        BY <2>2, <2>4, <3>0, <3>3, <4>2 DEF Fresh
      <4>3. QED
        BY <4>1, <4>2
    <3>4. QED
      BY <2>4, <3>1, <3>2, <3>3 DEF Fresh
  <2>5. ASSUME NEW g \in File, server[g].content \in Save, server'[g].content \in Save
        PROVE  server[g].content <= server'[g].content
    <3>1. CASE g = f
      BY <1>6, <2>2, <2>5, <3>1
    <3>2. CASE g # f
      BY <1>3, <2>2, <2>5, <3>2
    <3>3. QED
      BY <3>1, <3>2
  <2>6. QED
    BY <2>2, <2>3, <2>4, <2>5
<1>7. ASSUME NEW f \in File, Gone(f) PROVE
        /\ server' \in [File -> [version : Version, content : Save \union {Foreign, Nothing}]]
        /\ versions' \in Version /\ versions <= versions'
        /\ ServerKept'
        /\ \A entry \in Operation : Fresh(entry) => Fresh(entry)'
        /\ \A g \in File : server[g].content \in Save /\ server'[g].content \in Save =>
             server[g].content <= server'[g].content
  <2>1. /\ server' = [server EXCEPT ![f] = [version |-> 0, content |-> Nothing]]
        /\ versions' = versions
    BY <1>7 DEF Gone
  <2>2. 0 \in Version /\ versions' \in Version /\ versions <= versions' /\ 0 <= versions'
    BY <1>1, <2>1 DEF Version
  <2>3. Nothing \notin Save
    BY <1>3
  <2>4. QED
    BY <1>6, <2>1, <2>2, <2>3
<1>8. ASSUME NEW f \in File, NEW c \in Save \union {Foreign}, NewVersion(f, c), Newer(f, c)
      PROVE
        /\ server' \in [File -> [version : Version, content : Save \union {Foreign, Nothing}]]
        /\ versions' \in Version /\ versions <= versions'
        /\ ServerKept'
        /\ \A entry \in Operation : Fresh(entry) => Fresh(entry)'
        /\ \A g \in File : server[g].content \in Save /\ server'[g].content \in Save =>
             server[g].content <= server'[g].content
  <2>1. /\ versions < MaxVersion /\ versions' = versions + 1
        /\ server' = [server EXCEPT ![f] = [version |-> versions + 1, content |-> c]]
    BY <1>8 DEF NewVersion
  <2>2. /\ versions' \in Version /\ versions + 1 \in Version /\ versions <= versions'
        /\ versions + 1 <= versions' /\ versions + 1 > versions /\ versions + 1 # 0
    BY <1>1, <2>1 DEF Version
  <2>3. c \in Save \union {Foreign, Nothing}
    OBVIOUS
  <2>4. c \in Save => c <= saves /\ (server[f].content \in Save => server[f].content <= c)
    BY <1>8 DEF Newer
  <2>5. QED
    BY <1>6, <2>1, <2>2, <2>3, <2>4
<1>9. QED
  BY <1>5, <1>7, <1>8 DEF Moved

\* A fresh operation moves the server as described.
LEMMA CarriedMoves ==
  ASSUME QueueTypeOK, NEW entry \in Operation, Fresh(entry), CarriedOut(entry)
  PROVE  Moved
<1>1. entry.file \in File /\ entry.kind \in {"write", "delete"}
  BY DEF Operation
<1>2. CASE entry.kind = "write"
  <2>1. /\ NewVersion(entry.file, entry.content) /\ server[entry.file].version = entry.guard
        /\ entry.content \in Save
    BY <1>2 DEF CarriedOut, Meets, Fresh
  <2>2. Newer(entry.file, entry.content)
    BY <1>2, <2>1 DEF Newer, Fresh
  <2>3. QED
    BY <1>1, <2>1, <2>2 DEF Moved
<1>3. CASE entry.kind = "delete"
  BY <1>1, <1>3 DEF CarriedOut, Moved
<1>4. QED
  BY <1>1, <1>2, <1>3

LEMMA UnheardMoves ==
  ASSUME QueueTypeOK, NEW entry \in Operation, Fresh(entry), Unheard(entry)
  PROVE  Moved
  BY CarriedMoves DEF Unheard, Moved

\* The operation whose request is out is fresh, and names what it is queued for.
LEMMA FirstFresh ==
  ASSUME QueueInv, Flushing
  PROVE  /\ First \in Operation /\ Fresh(First)
         /\ First.file = Head(batch).file /\ First.content = Head(batch).content
         /\ First.kind = Head(batch).kind
<1>1. batch \in Seq(Operation) /\ batch # <<>>
  BY DEF QueueInv, QueueTypeOK, Flushing
<1>2. Head(batch) \in Operation /\ Head(batch) \in Pending
  BY <1>1, HeadElements, ElementsTyped DEF Pending
<1> DEFINE entry == Head(batch)
<1>3. entry \in Operation /\ Fresh(entry)
  BY <1>2 DEF QueueInv, PendingKept
<1> HIDE DEF entry
<1>4. First = [entry EXCEPT !.guard = Guard(entry)]
  BY DEF First, entry
<1>5. Guard(entry) \in Version /\ Guard(entry) <= versions /\ (entry.kind = "write" => Guard(entry) = entry.guard)
  BY <1>3 DEF Guard, Operation, Fresh, QueueInv, QueueTypeOK, KnownKept
<1>6. /\ First \in Operation /\ First.file = entry.file /\ First.content = entry.content
      /\ First.kind = entry.kind /\ First.guard = Guard(entry)
  BY <1>3, <1>4, <1>5 DEF Operation
<1>7. Fresh(First)
  BY <1>3, <1>5, <1>6 DEF Fresh
<1>8. QED
  BY <1>6, <1>7 DEF entry

(***************************************************************************)
(* OfflineQueue: one lemma per action.                                     *)
(***************************************************************************)
\* No save loses its fate.
Grows ==
  /\ answered' \subseteq Save /\ forsaken' \subseteq Save /\ Settled \subseteq Settled'
  /\ excluded' \subseteq File

LEMMA FatesStay ==
  ASSUME QueueTypeOK, UNCHANGED fates, excluded' \subseteq File
  PROVE  Grows
  BY DEF QueueTypeOK, fates, Grows, Settled

\* What an action has to show besides its move of the server.
LEMMA Carries ==
  ASSUME QueueInv, Moved, saves' \in 0..MaxSaves, saves <= saves',
         local' \in [File -> Save \union {Nothing}],
         known' \in [File -> Version], KnownKept',
         queue' \in Seq(Operation), batch' \in Seq(Operation),
         tombstones' \subseteq File, retrying' \subseteq File, conflicts' \subseteq File,
         Grows,
         \A entry \in Pending' : entry \in Pending \/ Fresh(entry)',
         user' = Nothing \/ user' \in Operation, UserKept',
         Remembered'
  PROVE  QueueInv'
<1>1. QueueTypeOK /\ ServerKept
  BY DEF QueueInv
<1>2. /\ server' \in [File -> [version : Version, content : Save \union {Foreign, Nothing}]]
      /\ versions' \in Version /\ ServerKept'
      /\ \A entry \in Operation : Fresh(entry) => Fresh(entry)'
  BY <1>1, RemoteKeeps
<1>3. QueueTypeOK'
  BY <1>2 DEF QueueTypeOK, Grows
<1>4. Pending \subseteq Operation
  BY <1>1, ElementsTyped DEF Pending, QueueTypeOK
<1>5. ASSUME NEW entry \in Pending' PROVE Fresh(entry)'
  BY <1>2, <1>4, <1>5 DEF QueueInv, PendingKept
<1>6. PendingKept'
  BY <1>5 DEF PendingKept
<1>7. QED
  BY <1>2, <1>3, <1>6 DEF QueueInv

\* Nothing is forgotten when the local files stay and every operation that goes is
\* one whose save is settled.
LEMMA StaysRemembered ==
  ASSUME Remembered, UNCHANGED local, Grows,
         \A entry \in Pending :
           entry \in Pending' \/ entry.content \in Settled' \/ entry.content \notin Save
  PROVE  Remembered'
<1> SUFFICES ASSUME NEW f \in File, local'[f] \in Save \ Settled'
             PROVE  \E entry \in Pending' : entry.file = f /\ entry.content = local'[f]
  BY DEF Remembered
<1>1. PICK entry \in Pending : entry.file = f /\ entry.content = local[f]
  BY DEF Remembered, Grows
<1>2. QED
  BY <1>1

\* The user's operation, unless it is changed, stays what it was.
LEMMA UserStays ==
  ASSUME QueueInv, Moved, UNCHANGED <<user, saves>>
  PROVE  UserKept' /\ (user' = Nothing \/ user' \in Operation)
<1>1. QueueTypeOK /\ ServerKept /\ UserKept /\ saves \in 0..MaxSaves
  BY DEF QueueInv, QueueTypeOK
<1>2. saves' \in 0..MaxSaves /\ saves <= saves' /\ user' = user
  BY <1>1, QueueAssumption
<1>3. \A entry \in Operation : Fresh(entry) => Fresh(entry)'
  BY <1>1, <1>2, RemoteKeeps
<1>4. user = Nothing \/ user \in Operation
  BY <1>1 DEF QueueTypeOK
<1>5. user # Nothing => Fresh(user)'
  BY <1>1, <1>3, <1>4 DEF UserKept
<1>6. UserKept'
  <2>1. CASE user = Nothing
    BY <1>2, <2>1 DEF UserKept
  <2>2. CASE user # Nothing
    <3>1. Fresh(user)' /\ (user.kind = "write" => user'.content = saves')
      BY <1>1, <1>5, <2>2 DEF UserKept
    <3>2. QED
      BY <1>2, <3>1 DEF UserKept
  <2>3. QED
    BY <2>1, <2>2
<1>7. QED
  BY <1>2, <1>4, <1>6

\* The versions that are known stay known.
LEMMA KnownStays ==
  ASSUME QueueInv, Moved, UNCHANGED <<known, saves>>
  PROVE  known' \in [File -> Version] /\ KnownKept'
<1>1. QueueTypeOK /\ ServerKept /\ KnownKept /\ saves \in 0..MaxSaves
  BY DEF QueueInv, QueueTypeOK
<1>2. saves' \in 0..MaxSaves /\ saves <= saves'
  BY <1>1, QueueAssumption
<1>3. versions' \in Version /\ versions <= versions'
  BY <1>1, <1>2, RemoteKeeps
<1>4. versions \in Nat /\ versions' \in Nat /\ \A f \in File : known[f] \in Nat
  BY <1>1, <1>3, QueueAssumption DEF QueueTypeOK, Version
<1>5. QED
  BY <1>1, <1>3, <1>4 DEF QueueTypeOK, KnownKept

\* The version a file has once the request was answered is learnt.
LEMMA KnownLearns ==
  ASSUME QueueInv, Moved, UNCHANGED saves, NEW f \in File, Knows(f, server'[f].version)
  PROVE  known' \in [File -> Version] /\ KnownKept'
<1>1. QueueTypeOK /\ ServerKept /\ KnownKept /\ saves \in 0..MaxSaves
  BY DEF QueueInv, QueueTypeOK
<1>2. saves' \in 0..MaxSaves /\ saves <= saves'
  BY <1>1, QueueAssumption
<1>3. /\ versions' \in Version /\ versions <= versions' /\ ServerKept'
      /\ server' \in [File -> [version : Version, content : Save \union {Foreign, Nothing}]]
  BY <1>1, <1>2, RemoteKeeps
<1>4. versions \in Nat /\ versions' \in Nat /\ \A g \in File : known[g] \in Nat
  BY <1>1, <1>3, QueueAssumption DEF QueueTypeOK, Version
<1>5. server'[f].version \in Version /\ server'[f].version <= versions'
  BY <1>3 DEF ServerKept
<1>6. /\ known' = [known EXCEPT ![f] = server'[f].version]
      /\ known \in [File -> Version]
  BY <1>1 DEF QueueTypeOK, Knows
<1>7. QED
  BY <1>1, <1>3, <1>4, <1>5, <1>6 DEF KnownKept

\* An operation that is done with settles its save.
Finished(op) == (Answers(op) \/ GivesUp(op)) /\ UNCHANGED excluded

LEMMA FinishedTyped ==
  ASSUME QueueTypeOK, NEW entry \in Operation, Fresh(entry), Finished(entry)
  PROVE  Grows /\ (entry.content \in Settled' \/ entry.content \notin Save)
<1>1. CASE entry.kind = "write"
  <2>1. Contents(entry) = {entry.content} /\ entry.content \in Save
    BY <1>1 DEF Contents, Fresh
  <2>2. QED
    BY <2>1 DEF QueueTypeOK, Finished, Answers, GivesUp, Grows, Settled
<1>2. CASE entry.kind = "delete"
  <2>1. entry.content \notin Save /\ Contents(entry) = {}
    BY <1>2, QueueAssumption DEF Fresh, Save, Contents
  <2>2. QED
    BY <2>1 DEF QueueTypeOK, Finished, Answers, GivesUp, Grows, Settled
<1>3. QED
  BY <1>1, <1>2 DEF Operation

\* The first operation goes.
LEMMA DropsTyped ==
  ASSUME QueueTypeOK, Flushing, Drops
  PROVE  /\ queue' \in Seq(Operation) /\ batch' \in Seq(Operation)
         /\ Pending' \subseteq Pending
         /\ \A entry \in Pending : entry \in Pending' \/ entry = Head(batch)
<1>1. batch \in Seq(Operation) /\ batch # <<>> /\ queue \in Seq(Operation)
  BY DEF QueueTypeOK, Flushing
<1>2. batch' = Tail(batch) /\ queue' = queue
  BY DEF Drops
<1>3. QED
  BY <1>1, <1>2, HeadElements DEF Pending

\* The batch goes back.
LEMMA ThrowsTyped ==
  ASSUME QueueTypeOK, Throws
  PROVE  /\ queue' \in Seq(Operation) /\ batch' \in Seq(Operation)
         /\ Pending' = Pending
<1>1. batch \in Seq(Operation) /\ queue \in Seq(Operation)
  BY DEF QueueTypeOK
<1>2. queue' = queue \o batch /\ batch' = <<>>
  BY DEF Throws, Requeue
<1>3. Elements(batch') = {} /\ batch' \in Seq(Operation)
  BY <1>2 DEF Elements
<1>4. QED
  BY <1>1, <1>2, <1>3, ConcatElements DEF Pending

LEMMA StaysTyped ==
  ASSUME QueueTypeOK, UNCHANGED <<queue, batch>>
  PROVE  /\ queue' \in Seq(Operation) /\ batch' \in Seq(Operation)
         /\ Pending' = Pending
  BY DEF QueueTypeOK, Pending

\* How many saves there are, when none is made.
LEMMA SavesStay ==
  ASSUME QueueTypeOK, UNCHANGED saves
  PROVE  saves' \in 0..MaxSaves /\ saves <= saves'
  BY QueueAssumption DEF QueueTypeOK

LEMMA OtherDeviceKeeps ==
  ASSUME QueueInv, NEW f \in File, OtherDevice(f)
  PROVE  Moved /\ QueueInv'
<1>1. /\ UNCHANGED <<local, known, queue, batch, tombstones, retrying, conflicts, user, saves, excluded, fates>>
      /\ NewVersion(f, Foreign) \/ Gone(f)
  BY DEF OtherDevice
<1>2. Newer(f, Foreign)
  BY QueueAssumption DEF Newer, Save
<1>3. Moved
  BY <1>1, <1>2 DEF Moved
<1>4. QueueTypeOK /\ Remembered
  BY DEF QueueInv
<1>5. Pending' = Pending /\ queue' \in Seq(Operation) /\ batch' \in Seq(Operation)
  BY <1>1, <1>4, StaysTyped
<1>6. saves' \in 0..MaxSaves /\ saves <= saves'
  BY <1>1, <1>4, SavesStay
<1>7. known' \in [File -> Version] /\ KnownKept'
  BY <1>1, <1>3, KnownStays
<1>8. UserKept' /\ (user' = Nothing \/ user' \in Operation)
  BY <1>1, <1>3, UserStays
<1>9. Grows
  BY <1>1, <1>4, FatesStay DEF QueueTypeOK
<1>10. Remembered'
  BY <1>1, <1>4, <1>5, <1>9, StaysRemembered
<1>11. QED
  BY <1>1, <1>3, <1>4, <1>5, <1>6, <1>7, <1>8, <1>10, <1>9, Carries DEF QueueTypeOK

LEMMA StartSaveKeeps ==
  ASSUME QueueInv, NEW f \in File, StartSave(f)
  PROVE  Moved /\ QueueInv'
<1>1. /\ UNCHANGED <<remote, local, known, queue, batch, tombstones, retrying, conflicts, excluded, fates>>
      /\ saves < MaxSaves /\ saves' = saves + 1
      /\ user' = [kind |-> "write", file |-> f, content |-> saves + 1, guard |-> known[f]]
  BY DEF StartSave
<1>2. Moved
  BY <1>1 DEF Moved
<1>3. QueueTypeOK /\ ServerKept /\ KnownKept /\ Remembered
  BY DEF QueueInv
<1>4. /\ saves \in Nat /\ MaxSaves \in Nat /\ saves' \in 0..MaxSaves /\ saves <= saves'
      /\ saves + 1 \in Save
  BY <1>1, <1>3, QueueAssumption DEF QueueTypeOK, Save
<1>5. Pending' = Pending /\ queue' \in Seq(Operation) /\ batch' \in Seq(Operation)
  BY <1>1, <1>3, StaysTyped
<1>6. server' = server /\ versions' = versions /\ known' = known
  BY <1>1 DEF remote
<1>7. known' \in [File -> Version] /\ KnownKept'
  BY <1>3, <1>6 DEF QueueTypeOK, KnownKept
<1>8. /\ user' \in Operation /\ user'.kind = "write" /\ user'.file = f
      /\ user'.content = saves + 1 /\ user'.guard = known[f]
  BY <1>1, <1>3, <1>4 DEF Operation, QueueTypeOK
<1>9. Fresh(user)'
  <2>1. known[f] <= versions'
    BY <1>3, <1>6 DEF KnownKept
  <2>2. server'[f].content \in Save => server'[f].content <= saves + 1
    BY <1>3, <1>4, <1>6 DEF ServerKept, Save
  <2>3. saves + 1 <= saves'
    BY <1>1, <1>4
  <2>4. QED
    BY <1>4, <1>8, <2>1, <2>2, <2>3 DEF Fresh
<1>10. UserKept'
  BY <1>1, <1>8, <1>9 DEF UserKept
<1>11. Grows
  BY <1>1, <1>3, FatesStay DEF QueueTypeOK
<1>12. Remembered'
  BY <1>1, <1>3, <1>5, <1>11, StaysRemembered
<1>13. QED
  BY <1>1, <1>2, <1>3, <1>4, <1>5, <1>7, <1>8, <1>10, <1>12, <1>11, Carries DEF QueueTypeOK

LEMMA StartRemoveKeeps ==
  ASSUME QueueInv, NEW f \in File, StartRemove(f)
  PROVE  Moved /\ QueueInv'
<1>1. /\ UNCHANGED <<remote, local, known, queue, batch, retrying, conflicts, saves, excluded, fates>>
      /\ tombstones' = tombstones \union {f}
      /\ user' = [kind |-> "delete", file |-> f, content |-> Nothing, guard |-> known[f]]
  BY DEF StartRemove
<1>2. Moved
  BY <1>1 DEF Moved
<1>3. QueueTypeOK /\ KnownKept /\ Remembered
  BY DEF QueueInv
<1>4. saves' \in 0..MaxSaves /\ saves <= saves'
  BY <1>1, <1>3, SavesStay
<1>5. Pending' = Pending /\ queue' \in Seq(Operation) /\ batch' \in Seq(Operation)
  BY <1>1, <1>3, StaysTyped
<1>6. server' = server /\ versions' = versions /\ known' = known
  BY <1>1 DEF remote
<1>7. known' \in [File -> Version] /\ KnownKept'
  BY <1>3, <1>6 DEF QueueTypeOK, KnownKept
<1>8. /\ user' \in Operation /\ user'.kind = "delete" /\ user'.content = Nothing
      /\ user'.guard = known[f]
  BY <1>1, <1>3 DEF Operation, QueueTypeOK
<1>9. Fresh(user)'
  BY <1>3, <1>6, <1>8 DEF Fresh, KnownKept
<1>10. UserKept'
  BY <1>8, <1>9 DEF UserKept
<1>11. Grows
  BY <1>1, <1>3, FatesStay DEF QueueTypeOK
<1>12. Remembered'
  BY <1>1, <1>3, <1>5, <1>11, StaysRemembered
<1>13. QED
  BY <1>1, <1>2, <1>3, <1>4, <1>5, <1>7, <1>8, <1>10, <1>12, <1>11, Carries DEF QueueTypeOK

\* The user's operation, when it is over.
LEMMA UserTyped ==
  ASSUME QueueInv, UserDone
  PROVE  /\ user \in Operation /\ Fresh(user) /\ user.file \in File
         /\ user.content \in Save \union {Nothing}
         /\ user.kind = "write" => user.content = saves
         /\ user' = Nothing /\ UserKept'
<1>1. user # Nothing /\ user' = Nothing
  BY DEF UserDone
<1>2. user \in Operation /\ Fresh(user) /\ (user.kind = "write" => user.content = saves)
  BY <1>1 DEF QueueInv, QueueTypeOK, UserKept
<1>3. UserKept'
  BY <1>1 DEF UserKept
<1>4. QED
  BY <1>1, <1>2, <1>3 DEF Operation

LEMMA UserAcceptedKeeps ==
  ASSUME QueueInv, UserAccepted
  PROVE  Moved /\ QueueInv'
<1>1. /\ UNCHANGED <<queue, batch, retrying, conflicts, saves>>
      /\ UserDone /\ CarriedOut(user) /\ Finished(user) /\ Kept(user)
      /\ Knows(user.file, server'[user.file].version)
      /\ tombstones' \subseteq tombstones
  BY DEF UserAccepted, Finished
<1>2. QueueTypeOK /\ Remembered
  BY DEF QueueInv
<1>3. /\ user \in Operation /\ Fresh(user) /\ user.file \in File
      /\ user.content \in Save \union {Nothing} /\ user' = Nothing /\ UserKept'
  BY <1>1, UserTyped
<1>4. Moved
  BY <1>1, <1>2, <1>3, CarriedMoves
<1>5. Pending' = Pending /\ queue' \in Seq(Operation) /\ batch' \in Seq(Operation)
  BY <1>1, <1>2, StaysTyped
<1>6. saves' \in 0..MaxSaves /\ saves <= saves'
  BY <1>1, <1>2, SavesStay
<1>7. known' \in [File -> Version] /\ KnownKept'
  BY <1>1, <1>3, <1>4, KnownLearns
<1>8. Grows /\ (user.content \in Settled' \/ user.content \notin Save)
  BY <1>1, <1>2, <1>3, FinishedTyped
<1>9. local' = [local EXCEPT ![user.file] = user.content] /\ local \in [File -> Save \union {Nothing}]
  BY <1>1, <1>2 DEF Kept, QueueTypeOK
<1>10. Remembered'
  <2> SUFFICES ASSUME NEW f \in File, local'[f] \in Save \ Settled'
               PROVE  \E entry \in Pending' : entry.file = f /\ entry.content = local'[f]
    BY DEF Remembered
  <2>1. f # user.file /\ local'[f] = local[f]
    BY <1>3, <1>8, <1>9
  <2>2. QED
    BY <1>2, <1>5, <1>8, <2>1 DEF Remembered, Grows
<1>11. local' \in [File -> Save \union {Nothing}]
  BY <1>3, <1>9
<1>12. QED
  BY <1>1, <1>2, <1>3, <1>4, <1>5, <1>6, <1>7, <1>8, <1>10, <1>11, Carries DEF QueueTypeOK

LEMMA UserQueuedKeeps ==
  ASSUME QueueInv, UserQueued
  PROVE  Moved /\ QueueInv'
<1>1. /\ UNCHANGED <<known, batch, tombstones, retrying, conflicts, saves, excluded, fates>>
      /\ UserDone /\ Unheard(user) /\ Kept(user) /\ queue' = Enqueued(user)
  BY DEF UserQueued
<1>2. /\ QueueTypeOK /\ Remembered /\ ServerKept /\ KnownKept
      /\ queue \in Seq(Operation) /\ batch \in Seq(Operation)
  BY DEF QueueInv, QueueTypeOK
<1>3. /\ user \in Operation /\ Fresh(user) /\ user.file \in File
      /\ user.content \in Save \union {Nothing} /\ user' = Nothing /\ UserKept'
      /\ user.kind = "write" => user.content = saves
  BY <1>1, UserTyped
<1>4. Moved
  BY <1>1, <1>2, <1>3, UnheardMoves
<1>5. saves' \in 0..MaxSaves /\ saves <= saves' /\ saves' = saves /\ saves \in Nat
  BY <1>1, <1>2, SavesStay, QueueAssumption DEF QueueTypeOK
<1>6. known' \in [File -> Version] /\ KnownKept'
  BY <1>1, <1>4, KnownStays
<1>7. PICK entry \in Operation :
        /\ entry.file = user.file /\ entry.content = user.content
        /\ entry.kind = user.kind /\ entry.guard = known[user.file]
        /\ entry = [user EXCEPT !.guard = known[user.file]]
  <2> DEFINE entry == [user EXCEPT !.guard = known[user.file]]
  <2>1. /\ entry \in Operation /\ entry.file = user.file /\ entry.content = user.content
        /\ entry.kind = user.kind /\ entry.guard = known[user.file]
    BY <1>2, <1>3 DEF Operation, QueueTypeOK
  <2> HIDE DEF entry
  <2>2. QED
    BY <2>1 DEF entry
<1>8. queue' = Append(Others(queue, entry.file), entry)
  BY <1>1, <1>7 DEF Enqueued
<1>9. /\ queue' \in Seq(Operation)
      /\ Elements(queue') = {other \in Elements(queue) : other.file # entry.file} \union {entry}
  <2>1. /\ Others(queue, entry.file) \in Seq(Operation)
        /\ Elements(Others(queue, entry.file)) = {other \in Elements(queue) : other.file # entry.file}
    BY <1>2, OthersKeep
  <2>2. /\ queue' \in Seq(Operation)
        /\ Elements(queue') = Elements(Others(queue, entry.file)) \union {entry}
    BY <1>8, <2>1, AppendElements
  <2>3. QED
    BY <2>1, <2>2
<1>10. batch' \in Seq(Operation) /\ Elements(batch') = Elements(batch)
  BY <1>1, <1>2
<1>11. /\ server' \in [File -> [version : Version, content : Save \union {Foreign, Nothing}]]
       /\ ServerKept'
  BY <1>2, <1>4, <1>5, RemoteKeeps
<1>12. Fresh(entry)'
  <2>1. entry.guard <= versions'
    BY <1>1, <1>3, <1>6, <1>7 DEF KnownKept
  <2>2. entry.kind = "delete" => entry.content = Nothing
    BY <1>3, <1>7 DEF Fresh
  <2>3. entry.kind = "write" => entry.content \in Save /\ entry.content = saves /\ entry.content <= saves'
    BY <1>3, <1>5, <1>7 DEF Fresh
  <2>4. entry.kind = "write" /\ server'[entry.file].content \in Save => server'[entry.file].content <= entry.content
    BY <1>3, <1>5, <1>7, <1>11, <2>3 DEF ServerKept
  <2>5. QED
    BY <2>1, <2>2, <2>3, <2>4 DEF Fresh
<1>13. \A other \in Pending' : other \in Pending \/ Fresh(other)'
  BY <1>9, <1>10, <1>12 DEF Pending
<1>14. local' = [local EXCEPT ![entry.file] = entry.content] /\ local \in [File -> Save \union {Nothing}]
  BY <1>1, <1>2, <1>7 DEF Kept, QueueTypeOK
<1>15. Grows
  BY <1>1, <1>2, FatesStay DEF QueueTypeOK
<1>16. Remembered'
  <2> SUFFICES ASSUME NEW f \in File, local'[f] \in Save \ Settled'
               PROVE  \E other \in Pending' : other.file = f /\ other.content = local'[f]
    BY DEF Remembered
  <2>1. CASE f = entry.file
    <3>1. entry \in Pending' /\ local'[f] = entry.content
      BY <1>9, <1>14, <2>1 DEF Pending
    <3>2. QED
      BY <2>1, <3>1
  <2>2. CASE f # entry.file
    <3>1. local'[f] = local[f]
      BY <1>14, <2>2
    <3>2. PICK other \in Pending : other.file = f /\ other.content = local[f]
      BY <1>1, <1>2, <3>1 DEF Remembered, Settled, fates
    <3>3. other \in Pending'
      BY <1>9, <1>10, <2>2, <3>2 DEF Pending
    <3>4. QED
      BY <3>1, <3>2, <3>3
  <2>3. QED
    BY <2>1, <2>2
<1>17. local' \in [File -> Save \union {Nothing}]
  BY <1>3, <1>7, <1>14
<1>18. QED
  BY <1>1, <1>2, <1>3, <1>4, <1>5, <1>6, <1>9, <1>10, <1>13, <1>16, <1>17, <1>15, Carries DEF QueueTypeOK

\* What is read and recorded of a conflict.
LEMMA RecordedTyped ==
  ASSUME QueueInv, Moved, UNCHANGED <<remote, saves>>, NEW f \in File,
         Recorded(f) \/ UNCHANGED <<known, conflicts>>
  PROVE  known' \in [File -> Version] /\ KnownKept' /\ conflicts' \subseteq File
<1>1. CASE Recorded(f)
  <2>1. Knows(f, server'[f].version) /\ conflicts' = conflicts \union {f}
    BY <1>1 DEF Recorded, remote
  <2>2. QED
    BY <2>1, KnownLearns DEF QueueInv, QueueTypeOK
<1>2. CASE UNCHANGED <<known, conflicts>>
  BY <1>2, KnownStays DEF QueueInv, QueueTypeOK
<1>3. QED
  BY <1>1, <1>2

LEMMA SaveConflictsKeeps ==
  ASSUME QueueInv, SaveConflicts
  PROVE  Moved /\ QueueInv'
<1>1. /\ UNCHANGED <<remote, queue, batch, tombstones, retrying, saves>>
      /\ UserDone /\ user.kind = "write" /\ Finished(user)
      /\ Kept(user) \/ UNCHANGED local
      /\ Recorded(user.file) \/ UNCHANGED <<known, conflicts>>
  BY DEF SaveConflicts, Finished
<1>2. QueueTypeOK /\ Remembered
  BY DEF QueueInv
<1>3. /\ user \in Operation /\ Fresh(user) /\ user.file \in File
      /\ user.content \in Save \union {Nothing} /\ user' = Nothing /\ UserKept'
  BY <1>1, UserTyped
<1>4. Moved
  BY <1>1 DEF Moved
<1>5. Pending' = Pending /\ queue' \in Seq(Operation) /\ batch' \in Seq(Operation)
  BY <1>1, <1>2, StaysTyped
<1>6. saves' \in 0..MaxSaves /\ saves <= saves'
  BY <1>1, <1>2, SavesStay
<1>7. known' \in [File -> Version] /\ KnownKept' /\ conflicts' \subseteq File
  BY <1>1, <1>3, <1>4, RecordedTyped
<1>8. Grows /\ (user.content \in Settled' \/ user.content \notin Save)
  BY <1>1, <1>2, <1>3, FinishedTyped
<1>9. \/ UNCHANGED local
      \/ local' = [local EXCEPT ![user.file] = user.content]
  BY <1>1 DEF Kept
<1>10. Remembered'
  <2>1. CASE UNCHANGED local
    BY <1>2, <1>5, <1>8, <2>1, StaysRemembered
  <2>2. CASE local' = [local EXCEPT ![user.file] = user.content]
    <3> SUFFICES ASSUME NEW f \in File, local'[f] \in Save \ Settled'
                 PROVE  \E entry \in Pending' : entry.file = f /\ entry.content = local'[f]
      BY DEF Remembered
    <3>1. f # user.file /\ local'[f] = local[f]
      BY <1>2, <1>3, <1>8, <2>2 DEF QueueTypeOK
    <3>2. QED
      BY <1>2, <1>5, <1>8, <3>1 DEF Remembered, Grows
  <2>3. QED
    BY <1>9, <2>1, <2>2
<1>11. local' \in [File -> Save \union {Nothing}]
  BY <1>2, <1>3, <1>9 DEF QueueTypeOK
<1>12. QED
  BY <1>1, <1>2, <1>3, <1>4, <1>5, <1>6, <1>7, <1>8, <1>10, <1>11, Carries DEF QueueTypeOK

LEMMA UserRefusedKeeps ==
  ASSUME QueueInv, UserRefused
  PROVE  Moved /\ QueueInv'
<1>1. /\ UNCHANGED <<remote, local, known, queue, batch, tombstones, retrying, conflicts, saves, excluded, fates>>
      /\ UserDone
  BY DEF UserRefused
<1>2. QueueTypeOK /\ Remembered
  BY DEF QueueInv
<1>3. user' = Nothing /\ UserKept'
  BY <1>1, UserTyped
<1>4. Moved
  BY <1>1 DEF Moved
<1>5. Pending' = Pending /\ queue' \in Seq(Operation) /\ batch' \in Seq(Operation)
  BY <1>1, <1>2, StaysTyped
<1>6. saves' \in 0..MaxSaves /\ saves <= saves'
  BY <1>1, <1>2, SavesStay
<1>7. known' \in [File -> Version] /\ KnownKept'
  BY <1>1, <1>4, KnownStays
<1>8. Grows
  BY <1>1, <1>2, FatesStay DEF QueueTypeOK
<1>9. Remembered'
  BY <1>1, <1>2, <1>5, <1>8, StaysRemembered
<1>10. QED
  BY <1>1, <1>2, <1>3, <1>4, <1>5, <1>6, <1>7, <1>9, <1>8, Carries DEF QueueTypeOK

LEMMA StartFlushKeeps ==
  ASSUME QueueInv, StartFlush
  PROVE  Moved /\ QueueInv'
<1>1. /\ UNCHANGED <<remote, local, known, tombstones, retrying, conflicts, user, saves, excluded, fates>>
      /\ batch = <<>> /\ batch' = queue /\ queue' = <<>>
  BY DEF StartFlush, Flushing
<1>2. QueueTypeOK /\ Remembered
  BY DEF QueueInv
<1>3. Moved
  BY <1>1 DEF Moved
<1>4. /\ queue' \in Seq(Operation) /\ batch' \in Seq(Operation)
      /\ Elements(queue') = {} /\ Elements(batch) = {} /\ Elements(batch') = Elements(queue)
  BY <1>1, <1>2 DEF QueueTypeOK, Elements
<1>5. Pending' = Pending
  BY <1>4 DEF Pending
<1>6. saves' \in 0..MaxSaves /\ saves <= saves'
  BY <1>1, <1>2, SavesStay
<1>7. known' \in [File -> Version] /\ KnownKept'
  BY <1>1, <1>3, KnownStays
<1>8. UserKept' /\ (user' = Nothing \/ user' \in Operation)
  BY <1>1, <1>3, UserStays
<1>9. Grows
  BY <1>1, <1>2, FatesStay DEF QueueTypeOK
<1>10. Remembered'
  BY <1>1, <1>2, <1>5, <1>9, StaysRemembered
<1>11. QED
  BY <1>1, <1>2, <1>3, <1>4, <1>5, <1>6, <1>7, <1>8, <1>10, <1>9, Carries DEF QueueTypeOK

\* The first operation of the flush is done with and goes.
LEMMA FinishedGoes ==
  ASSUME QueueInv, Moved, Flushing, Finished(First), Drops,
         UNCHANGED <<local, retrying, user, saves>>,
         known' \in [File -> Version], KnownKept', conflicts' \subseteq File,
         tombstones' \subseteq File
  PROVE  QueueInv'
<1>1. QueueTypeOK /\ Remembered
  BY DEF QueueInv
<1>2. /\ queue' \in Seq(Operation) /\ batch' \in Seq(Operation)
      /\ Pending' \subseteq Pending
      /\ \A entry \in Pending : entry \in Pending' \/ entry = Head(batch)
  BY <1>1, DropsTyped
<1>3. First \in Operation /\ Fresh(First) /\ First.content = Head(batch).content
  BY FirstFresh
<1>4. Grows /\ (First.content \in Settled' \/ First.content \notin Save)
  BY <1>1, <1>3, FinishedTyped
<1>5. saves' \in 0..MaxSaves /\ saves <= saves'
  BY <1>1, SavesStay
<1>6. UserKept' /\ (user' = Nothing \/ user' \in Operation)
  BY UserStays
<1>7. Remembered'
  BY <1>1, <1>2, <1>3, <1>4, StaysRemembered
<1>8. QED
  BY <1>1, <1>2, <1>4, <1>5, <1>6, <1>7, Carries DEF QueueTypeOK

LEMMA FlushAcceptedKeeps ==
  ASSUME QueueInv, FlushAccepted
  PROVE  Moved /\ QueueInv'
<1>1. /\ UNCHANGED <<local, retrying, conflicts, user, saves>>
      /\ Flushing /\ CarriedOut(First) /\ Finished(First) /\ Drops
      /\ Knows(First.file, server'[First.file].version)
      /\ tombstones' \subseteq tombstones
  BY DEF FlushAccepted, Replaying, Finished
<1>2. QueueTypeOK
  BY DEF QueueInv
<1>3. First \in Operation /\ Fresh(First) /\ First.file \in File
  BY <1>1, FirstFresh DEF Operation
<1>4. Moved
  BY <1>1, <1>2, <1>3, CarriedMoves
<1>5. known' \in [File -> Version] /\ KnownKept'
  BY <1>1, <1>3, <1>4, KnownLearns
<1>6. conflicts' \subseteq File /\ tombstones' \subseteq File
  BY <1>1, <1>2 DEF QueueTypeOK
<1>7. QED
  BY <1>1, <1>4, <1>5, <1>6, FinishedGoes

\* The batch goes back behind what was queued meanwhile.
LEMMA BatchGoesBack ==
  ASSUME QueueInv, Moved, Throws,
         UNCHANGED <<local, tombstones, retrying, user, saves>>, Grows,
         known' \in [File -> Version], KnownKept', conflicts' \subseteq File
  PROVE  QueueInv'
<1>1. QueueTypeOK /\ Remembered
  BY DEF QueueInv
<1>2. queue' \in Seq(Operation) /\ batch' \in Seq(Operation) /\ Pending' = Pending
  BY <1>1, ThrowsTyped
<1>3. saves' \in 0..MaxSaves /\ saves <= saves'
  BY <1>1, SavesStay
<1>4. UserKept' /\ (user' = Nothing \/ user' \in Operation)
  BY UserStays
<1>5. Remembered'
  BY <1>1, <1>2, StaysRemembered
<1>6. QED
  BY <1>1, <1>2, <1>3, <1>4, <1>5, Carries DEF QueueTypeOK

LEMMA FlushUnheardKeeps ==
  ASSUME QueueInv, FlushUnheard
  PROVE  Moved /\ QueueInv'
<1>1. /\ UNCHANGED <<local, known, tombstones, retrying, conflicts, user, saves, excluded, fates>>
      /\ Flushing /\ Unheard(First) /\ Throws
  BY DEF FlushUnheard, Replaying
<1>2. QueueTypeOK
  BY DEF QueueInv
<1>3. First \in Operation /\ Fresh(First)
  BY <1>1, FirstFresh
<1>4. Moved
  BY <1>1, <1>2, <1>3, UnheardMoves
<1>5. known' \in [File -> Version] /\ KnownKept'
  BY <1>1, <1>4, KnownStays
<1>6. Grows /\ conflicts' \subseteq File
  BY <1>1, <1>2, FatesStay DEF QueueTypeOK
<1>7. QED
  BY <1>1, <1>4, <1>5, <1>6, BatchGoesBack

LEMMA CreateConflictsKeeps ==
  ASSUME QueueInv, CreateConflicts
  PROVE  Moved /\ QueueInv'
<1>1. /\ UNCHANGED <<remote, local, tombstones, retrying, user, saves>>
      /\ Flushing /\ Finished(First) /\ Drops
      /\ \/ Knows(First.file, server[First.file].version) /\ UNCHANGED conflicts
         \/ Recorded(First.file)
  BY DEF CreateConflicts, Replaying, Finished
<1>2. QueueTypeOK
  BY DEF QueueInv
<1>3. First.file \in File
  BY <1>1, FirstFresh DEF Operation
<1>4. Moved
  BY <1>1 DEF Moved
<1>5. Knows(First.file, server[First.file].version) => Knows(First.file, server'[First.file].version)
  BY <1>1 DEF remote
<1>6. known' \in [File -> Version] /\ KnownKept' /\ conflicts' \subseteq File
  <2>1. CASE Recorded(First.file)
    BY <1>1, <1>3, <1>4, <2>1, RecordedTyped
  <2>2. CASE Knows(First.file, server[First.file].version) /\ UNCHANGED conflicts
    BY <1>1, <1>2, <1>3, <1>4, <1>5, <2>2, KnownLearns DEF QueueTypeOK
  <2>3. QED
    BY <1>1, <2>1, <2>2
<1>7. tombstones' \subseteq File
  BY <1>1, <1>2 DEF QueueTypeOK
<1>8. QED
  BY <1>1, <1>4, <1>6, <1>7, FinishedGoes

LEMMA UpdateConflictsKeeps ==
  ASSUME QueueInv, UpdateConflicts
  PROVE  Moved /\ QueueInv'
<1>1. /\ UNCHANGED <<remote, local, tombstones, retrying, user, saves>>
      /\ Flushing /\ Finished(First) /\ Throws
      /\ Recorded(First.file) \/ UNCHANGED <<known, conflicts>>
  BY DEF UpdateConflicts, Replaying, Finished
<1>2. QueueTypeOK
  BY DEF QueueInv
<1>3. First \in Operation /\ Fresh(First) /\ First.file \in File
  BY <1>1, FirstFresh DEF Operation
<1>4. Moved
  BY <1>1 DEF Moved
<1>5. known' \in [File -> Version] /\ KnownKept' /\ conflicts' \subseteq File
  BY <1>1, <1>3, <1>4, RecordedTyped
<1>6. Grows
  BY <1>1, <1>2, <1>3, FinishedTyped
<1>7. QED
  BY <1>1, <1>4, <1>5, <1>6, BatchGoesBack

\* What is refused, or skipped, is given up.
LEMMA FlushRefusedKeeps ==
  ASSUME QueueInv, FlushRefused \/ FlushSkipped
  PROVE  Moved /\ QueueInv'
<1>1. /\ UNCHANGED <<remote, local, known, retrying, conflicts, user, saves>>
      /\ Flushing /\ Finished(First) /\ Drops /\ tombstones' \subseteq tombstones
  BY DEF FlushRefused, FlushSkipped, Replaying, Finished
<1>2. QueueTypeOK
  BY DEF QueueInv
<1>3. Moved
  BY <1>1 DEF Moved
<1>4. known' \in [File -> Version] /\ KnownKept'
  BY <1>1, <1>3, KnownStays
<1>5. conflicts' \subseteq File /\ tombstones' \subseteq File
  BY <1>1, <1>2 DEF QueueTypeOK
<1>6. QED
  BY <1>1, <1>3, <1>4, <1>5, FinishedGoes

\* A step that leaves the queue, the local files and the user alone.
LEMMA TombstonesChange ==
  ASSUME QueueInv, Moved, tombstones' \subseteq File, retrying' \subseteq File,
         excluded' \subseteq File,
         UNCHANGED <<local, known, queue, batch, conflicts, user, saves, fates>>
  PROVE  QueueInv'
<1>1. QueueTypeOK /\ Remembered
  BY DEF QueueInv
<1>2. Pending' = Pending /\ queue' \in Seq(Operation) /\ batch' \in Seq(Operation)
  BY <1>1, StaysTyped
<1>3. saves' \in 0..MaxSaves /\ saves <= saves'
  BY <1>1, SavesStay
<1>4. known' \in [File -> Version] /\ KnownKept'
  BY KnownStays
<1>5. UserKept' /\ (user' = Nothing \/ user' \in Operation)
  BY UserStays
<1>6. Grows
  BY <1>1, FatesStay
<1>7. Remembered'
  BY <1>1, <1>2, <1>6, StaysRemembered
<1>8. QED
  BY <1>1, <1>2, <1>3, <1>4, <1>5, <1>7, <1>6, Carries DEF QueueTypeOK

LEMMA RetryKeeps ==
  ASSUME QueueInv,
         \/ StartRetry \/ UNCHANGED qvars
         \/ \E f \in File : RetrySettled(f) \/ RetryUnheard(f) \/ Exclude(f)
  PROVE  Moved /\ QueueInv'
<1>1. tombstones \subseteq File /\ retrying \subseteq File /\ excluded \subseteq File
  BY DEF QueueInv, QueueTypeOK
<1>2. CASE StartRetry
  BY <1>1, <1>2, TombstonesChange DEF StartRetry, Moved
<1>3. ASSUME NEW f \in File, RetrySettled(f) PROVE Moved /\ QueueInv'
  BY <1>1, <1>3, TombstonesChange DEF RetrySettled, Moved
<1>4. ASSUME NEW f \in File, RetryUnheard(f) PROVE Moved /\ QueueInv'
  BY <1>1, <1>4, TombstonesChange DEF RetryUnheard, Moved
<1>5. CASE UNCHANGED qvars
  <2>1. Moved
    BY <1>5 DEF qvars, Moved
  <2>2. UNCHANGED <<local, known, queue, batch, conflicts, user, saves, fates>>
    BY <1>5 DEF qvars, fates
  <2>3. tombstones' \subseteq File /\ retrying' \subseteq File /\ excluded' \subseteq File
    BY <1>1, <1>5 DEF qvars
  <2>4. QED
    BY <2>1, <2>2, <2>3, TombstonesChange
<1>6. ASSUME NEW f \in File, Exclude(f) PROVE Moved /\ QueueInv'
  BY <1>1, <1>6, TombstonesChange DEF Exclude, Moved
<1>7. QED
  BY <1>2, <1>3, <1>4, <1>5, <1>6

LEMMA QueueStarts ==
  ASSUME QueueInit
  PROVE  QueueInv
<1> USE QueueAssumption
<1>1. <<>> \in Seq(Operation) /\ 0 \in Version /\ 0 \in 0..MaxSaves
  BY DEF Version
<1>2. QueueTypeOK
  BY <1>1 DEF QueueInit, QueueTypeOK
<1>3. Nothing \notin Save
  BY DEF Save
<1>4. ServerKept /\ KnownKept /\ UserKept /\ Remembered
  BY <1>3 DEF QueueInit, ServerKept, KnownKept, UserKept, Remembered, Settled
<1>5. PendingKept
  BY DEF QueueInit, PendingKept, Pending, Elements
<1>6. QED
  BY <1>2, <1>4, <1>5 DEF QueueInv

LEMMA QueueSteps ==
  ASSUME QueueInv, [QueueNext]_qvars
  PROVE  Moved /\ QueueInv'
<1>1. CASE \E f \in File : OtherDevice(f) \/ StartSave(f) \/ StartRemove(f)
  BY <1>1, OtherDeviceKeeps, StartSaveKeeps, StartRemoveKeeps
<1>2. CASE UserAccepted \/ UserQueued \/ SaveConflicts \/ UserRefused
  BY <1>2, UserAcceptedKeeps, UserQueuedKeeps, SaveConflictsKeeps, UserRefusedKeeps
<1>3. CASE StartFlush \/ FlushAccepted \/ FlushUnheard \/ FlushSkipped
  BY <1>3, StartFlushKeeps, FlushAcceptedKeeps, FlushUnheardKeeps, FlushRefusedKeeps
<1>4. CASE CreateConflicts \/ UpdateConflicts \/ FlushRefused
  BY <1>4, CreateConflictsKeeps, UpdateConflictsKeeps, FlushRefusedKeeps
<1>5. CASE \/ StartRetry \/ UNCHANGED qvars
           \/ \E f \in File : RetrySettled(f) \/ RetryUnheard(f) \/ Exclude(f)
  BY <1>5, RetryKeeps
<1>6. QED
  BY <1>1, <1>2, <1>3, <1>4, <1>5 DEF QueueNext

LEMMA QueueInvHolds == QueueSpec => []QueueInv
<1>1. QueueInit => QueueInv
  BY QueueStarts
<1>2. QueueInv /\ [QueueNext]_qvars => QueueInv'
  BY QueueSteps
<1>3. QED
  BY <1>1, <1>2, PTL DEF QueueSpec

\* The queue, its flush and the tombstones stay what their types say: a flush that
\* is given back, a filter, a dropped head keep every operation well formed
\* (queueOfflineOperation, runOfflineQueueFlush).
THEOREM QueueTypesHold == QueueSpec => []QueueTypeOK
<1>1. QueueInv => QueueTypeOK
  BY DEF QueueInv
<1>2. QED
  BY <1>1, QueueInvHolds, PTL

\* A save that is in a local file, and that was neither answered nor given up, waits
\* in the queue or in the running flush, for any number of files, saves and versions
\* (runOfflineQueueFlush gives the batch back).  Given up are only the three kinds of
\* queued saves the property names.
THEOREM ForgottenHolds == QueueSpec => []NothingIsForgotten
<1>1. QueueInv => NothingIsForgotten
  <2> SUFFICES ASSUME QueueInv, NEW f \in File, local[f] \in Save \ Settled
               PROVE  \/ \E i \in 1..Len(queue) : queue[i].content = local[f]
                      \/ \E i \in 1..Len(batch) : batch[i].content = local[f]
    BY DEF NothingIsForgotten, Settled
  <2>1. PICK entry \in Pending : entry.content = local[f]
    BY DEF QueueInv, Remembered
  <2>2. QED
    BY <2>1 DEF Pending, Elements
<1>2. QED
  BY <1>1, QueueInvHolds, PTL

\* Although a failed flush puts older operations behind newer ones, no replay of
\* the queue replaces a later save of the device on the server by an earlier one:
\* the version a queued write names is checked by the server.
THEOREM ReplacementHolds == QueueSpec => OldNeverReplacesNew
<1>1. ASSUME QueueInv, [QueueNext]_qvars
      PROVE  [\A f \in File :
               server[f].content \in Save /\ server'[f].content \in Save =>
                 server[f].content <= server'[f].content]_server
  <2>1. Moved /\ QueueInv'
    BY <1>1, QueueSteps
  <2>2. saves' \in 0..MaxSaves /\ saves <= saves'
    <3>1. CASE saves' = saves
      BY <1>1, <3>1, SavesStay DEF QueueInv
    <3>2. CASE \E f \in File : StartSave(f)
      BY <1>1, <2>1, <3>2, QueueAssumption DEF StartSave, QueueInv, QueueTypeOK
    <3>3. QED
      BY <1>1, <3>1, <3>2 DEF QueueNext, qvars, OtherDevice, StartRemove, UserAccepted,
           UserQueued, SaveConflicts, UserRefused, StartFlush, FlushAccepted,
           FlushUnheard, FlushSkipped, CreateConflicts, UpdateConflicts, FlushRefused,
           StartRetry, RetrySettled, RetryUnheard, Exclude
  <2>3. QED
    BY <1>1, <2>1, <2>2, RemoteKeeps DEF QueueInv
<1>2. QED
  BY <1>1, QueueInvHolds, PTL DEF QueueSpec, OldNeverReplacesNew

(***************************************************************************)
(* RecoveryCapsule: what was answered is what a restart restores.          *)
(***************************************************************************)
\* The pointer the last finished persist committed, wherever a rotation put it.
Committed == IF manifest["current"] # Absent THEN manifest["current"] ELSE manifest["previous"]

\* The last steps of a persist, after its manifest is committed; those before.
Committing == {"purge", "manifestPurge", "index"}
Preparing == PersistStep \ Committing

\* A clear has taken back every promise made before it was called, and nobody
\* joins a persist that was queued before it, or that has begun.
ClearsKept ==
  \A i \in 1..Len(chain) :
    /\ chain[i].floor <= device.change
    /\ chain[i].kind = "clear" =>
         /\ promised = 0
         /\ slot = 0 \/ i < slot
         /\ \A j \in 1..i : chain[j].floor = 0

\* The operation that runs is the first of the chain.
RunsFirst ==
  /\ step \in PersistStep =>
       chain # <<>> /\ chain[1].kind = "persist" /\ slot # 1 /\ writing # Absent
  /\ step \in ClearStep => chain # <<>> /\ chain[1].kind = "clear"

CallsKept == promised <= device.change /\ ClearsKept /\ RunsFirst

Ordered(pointer) == pointer # Absent => pointer.previous < pointer.generation

PointersKept ==
  /\ \A s \in {"current", "previous", "next"} : Ordered(manifest[s])
  /\ Ordered(index)
  /\ writing # Absent => Ordered(writing.pointer)

\* An older generation of what the running persist writes.
Older(pointer) ==
  pointer # Absent => pointer.id = Named /\ pointer.generation < writing.pointer.generation

\* What the running persist writes is newer than anything it was promised for.
NewerKept ==
  /\ writing.capsule.generation = writing.pointer.generation
  /\ promised <= writing.capsule.state.change
  /\ chain[1].floor <= writing.capsule.state.change
  /\ index # Absent => index.generation < writing.pointer.generation
  /\ step \in Preparing => torn > 0
  /\ step \in Committing => torn = 0

\* How far the running persist has come.
PlacedKept ==
  /\ step \in {"drop", "rotate", "promote"} => vault[Named]["next"] = writing.capsule
  /\ step = "promote" => vault[Named]["current"] = Absent
  /\ step \notin {"next", "drop", "rotate", "promote"} =>
       vault[Named]["current"] = writing.capsule /\ vault[Named]["next"] = Absent
  /\ step \in {"manifestDrop", "manifestRotate", "manifestPromote"} =>
       manifest["next"] = writing.pointer
  /\ step \in Preparing => Older(manifest["current"])
  /\ step = "manifestRotate" => manifest["previous"] = Absent
  /\ step = "manifestPromote" => manifest["current"] = Absent /\ Older(manifest["previous"])
  /\ step \in Committing => manifest["current"] = writing.pointer /\ Older(manifest["previous"])
  /\ step \notin {"next", "drop", "rotate", "promote", "profile"} =>
       profile[Named]["current"] \in {writing.capsule, Absent}
  /\ step \in {"manifestPurge", "index"} /\ writing.capsule.state.pinOnly =>
       vault[Named]["previous"] = Absent

PersistKept == step \in PersistStep => NewerKept /\ PlacedKept

Keeps(copy) ==
  copy # Absent /\ copy.generation = Committed.generation /\ promised <= copy.state.change

\* The newest accepted generation is the committed one, and it is in the vault.
HeadKept ==
  /\ Committed # Absent
  /\ index # Absent => index.generation <= Committed.generation
  /\ manifest["current"] # Absent /\ manifest["previous"] # Absent =>
       /\ manifest["previous"].id = manifest["current"].id
       /\ manifest["previous"].generation < manifest["current"].generation

PromiseKept ==
  promised > 0 /\ torn <= 1 =>
    /\ HeadKept
    /\ torn = 0 \/ step \in Preparing \ {"manifestPromote"} => manifest["current"] # Absent
    /\ LET capsules == vault[Committed.id]
       IN  /\ torn = 0 \/ step \in {"next", "drop", "rotate"} => Keeps(capsules["current"])
           /\ \/ Keeps(capsules["current"])
              \/ /\ capsules["current"] # Absent =>
                      capsules["current"].generation > Committed.generation
                 /\ Keeps(capsules["previous"])

SettledKept ==
  settled # Absent =>
    /\ step = "idle" /\ HeadKept /\ manifest["current"] # Absent
    /\ vault[Committed.id]["current"] = [generation |-> Committed.generation, state |-> settled]
    /\ settled.pinOnly =>
         /\ vault[Committed.id]["previous"] = Absent /\ vault[Committed.id]["next"] = Absent
         /\ profile[Committed.id]["previous"] = Absent
         /\ profile[Committed.id]["current"] # Absent =>
              profile[Committed.id]["current"].state.pinOnly

CapsuleInv ==
  CapsuleTypeOK /\ CallsKept /\ PointersKept /\ PersistKept /\ PromiseKept /\ SettledKept

\* The parts of CapsuleTypeOK.
HomesTyped ==
  /\ vault \in [Identifier -> [{"current", "previous", "next"} -> Capsule \union {Absent}]]
  /\ manifest \in [{"current", "previous", "next"} -> Pointer \union {Absent}]
  /\ profile \in [Identifier -> [{"current", "previous"} -> Capsule \union {Absent}]]
  /\ index \in Pointer \union {Absent}
RunTyped ==
  /\ step \in {"idle"} \union PersistStep \union ClearStep
  /\ writing \in [capsule : Capsule, pointer : Pointer] \union {Absent}
CallsTyped == chain \in Seq(QueuedCall) /\ slot \in 0..Len(chain)
PastKept ==
  /\ device \in State /\ minted \in 0..MaxIds
  /\ torn \in Nat /\ promised \in 0..MaxChange
  /\ settled \in State \union {Absent}
BoundsTyped ==
  /\ repeats \in 0..MaxRepeats /\ faults \in 0..MaxFaults
  /\ evictions \in 0..MaxEvictions /\ clears \in 0..MaxClears

LEMMA CapsuleTypeParts ==
  CapsuleTypeOK <=> HomesTyped /\ RunTyped /\ CallsTyped /\ PastKept /\ BoundsTyped
  BY DEF CapsuleTypeOK, HomesTyped, RunTyped, CallsTyped, PastKept, BoundsTyped

LEMMA CapsuleTypeNext ==
  (HomesTyped /\ RunTyped /\ CallsTyped /\ PastKept /\ BoundsTyped)' => CapsuleTypeOK'
  BY DEF CapsuleTypeOK, HomesTyped, RunTyped, CallsTyped, PastKept, BoundsTyped

LEMMA CapsuleBounds ==
  /\ MaxChange \in Nat /\ MaxRepeats \in Nat /\ MaxIds \in Nat /\ MaxCalls \in Nat
  /\ MaxFaults \in Nat /\ MaxEvictions \in Nat /\ MaxClears \in Nat
  BY CapsuleAssumption

LEMMA InitCapsule == CapsuleInit => CapsuleInv
<1> SUFFICES ASSUME CapsuleInit PROVE CapsuleInv
  OBVIOUS
<1> USE CapsuleBounds DEF CapsuleInit
<1>1. device \in State /\ device.change = 0
  <2>1. device = [change |-> 0, pinOnly |-> FALSE]
    OBVIOUS
  <2>2. QED
    BY <2>1 DEF State
<1>2. CapsuleTypeOK
  <2>1. HomesTyped
    BY DEF HomesTyped, NoCapsules, NoManifest
  <2>2. RunTyped
    BY DEF RunTyped
  <2>3. CallsTyped
    BY DEF CallsTyped
  <2>4. PastKept
    BY <1>1 DEF PastKept
  <2>5. BoundsTyped
    BY DEF BoundsTyped
  <2>6. QED
    BY <2>1, <2>2, <2>3, <2>4, <2>5, CapsuleTypeParts
<1>3. CallsKept
  BY <1>1 DEF CallsKept, ClearsKept, RunsFirst, PersistStep, ClearStep
<1>4. PointersKept
  BY DEF PointersKept, Ordered, NoManifest
<1>5. PersistKept
  BY DEF PersistKept, PersistStep
<1>6. PromiseKept /\ SettledKept
  BY DEF PromiseKept, SettledKept
<1>7. QED
  BY <1>2, <1>3, <1>4, <1>5, <1>6 DEF CapsuleInv

(***************************************************************************)
(* Callers.                                                                *)
(***************************************************************************)
\* A caller joins the queued persist or queues one of its own.
LEMMA PersistCalls ==
  ASSUME CapsuleTypeOK, CallsKept, Persist, device' \in State,
         device.change <= device'.change, step' = step, promised' = promised,
         writing' = writing
  PROVE  CallsTyped' /\ CallsKept' /\ (step \in PersistStep => chain'[1].floor = chain[1].floor)
<1> USE CapsuleBounds
<1>1. /\ chain \in Seq(QueuedCall) /\ slot \in 0..Len(chain) /\ promised \in Nat
      /\ device.change \in Nat /\ device'.change \in 0..MaxChange /\ Len(chain) \in Nat
  BY DEF CapsuleTypeOK, State
<1>2. \A i \in 1..Len(chain) : chain[i].floor \in Nat
  <2>1. \A i \in 1..Len(chain) : chain[i] \in QueuedCall
    BY <1>1
  <2>2. QED
    BY <2>1 DEF QueuedCall
<1>3. CASE slot # 0
  <2>1. /\ chain' = [chain EXCEPT ![slot].floor = device'.change] /\ slot' = slot
        /\ slot \in 1..Len(chain)
    BY <1>1, <1>3 DEF Persist
  <2>2. chain[slot] \in QueuedCall
    BY <1>1, <2>1
  <2>3. [chain[slot] EXCEPT !.floor = device'.change] \in QueuedCall
    BY <1>1, <2>2 DEF QueuedCall
  <2>4. /\ chain' \in Seq(QueuedCall) /\ Len(chain') = Len(chain)
        /\ \A i \in 1..Len(chain) : /\ chain'[i].kind = chain[i].kind
                                    /\ i # slot => chain'[i].floor = chain[i].floor
                                    /\ i = slot => chain'[i].floor = device'.change
    <3>1. PICK c : c = [chain[slot] EXCEPT !.floor = device'.change]
      OBVIOUS
    <3>2. c \in QueuedCall /\ c.kind = chain[slot].kind /\ c.floor = device'.change
      BY <2>2, <2>3, <3>1 DEF QueuedCall
    <3>3. chain' = [chain EXCEPT ![slot] = c]
      BY <2>1, <3>1
    <3>4. /\ [chain EXCEPT ![slot] = c] \in Seq(QueuedCall)
          /\ Len([chain EXCEPT ![slot] = c]) = Len(chain)
          /\ \A i \in 1..Len(chain) :
               [chain EXCEPT ![slot] = c][i] = IF i = slot THEN c ELSE chain[i]
      BY <1>1, <2>1, <3>2, ExceptAt
    <3>5. QED
      BY <3>2, <3>3, <3>4
  <2>5. ClearsKept'
    <3> SUFFICES ASSUME NEW i \in 1..Len(chain)
                 PROVE  /\ chain'[i].floor <= device'.change
                        /\ chain'[i].kind = "clear" =>
                             promised' = 0 /\ i < slot' /\ \A j \in 1..i : chain'[j].floor = 0
      BY <2>1, <2>4 DEF ClearsKept
    <3>1. chain'[i].floor <= device'.change
      <4>1. chain[i].floor <= device.change /\ chain[i].floor \in Nat
        BY <1>2 DEF CallsKept, ClearsKept
      <4>2. i # slot => chain'[i].floor = chain[i].floor
        BY <2>4
      <4>3. i = slot => chain'[i].floor = device'.change
        BY <2>4
      <4>4. QED
        BY <1>1, <4>1, <4>2, <4>3
    <3>2. ASSUME chain'[i].kind = "clear"
          PROVE  promised' = 0 /\ i < slot' /\ \A j \in 1..i : chain'[j].floor = 0
      <4>1. chain[i].kind = "clear"
        BY <2>4, <3>2
      <4>2. promised = 0 /\ (slot = 0 \/ i < slot) /\ \A j \in 1..i : chain[j].floor = 0
        BY <4>1 DEF CallsKept, ClearsKept
      <4>3. i < slot
        BY <1>3, <4>2
      <4>4. \A j \in 1..i : j \in 1..Len(chain) /\ j # slot
        BY <1>1, <2>1, <4>3
      <4>5. QED
        BY <2>1, <2>4, <4>2, <4>3, <4>4
    <3>3. QED
      BY <3>1, <3>2
  <2>5a. promised' <= device'.change
    BY <1>1 DEF CallsKept
  <2>6. chain' # <<>> /\ (chain # <<>> => chain'[1].kind = chain[1].kind)
    <3>1. Len(chain') > 0 /\ (chain' = <<>> => Len(chain') = 0)
      BY <1>1, <2>1, <2>4
    <3>2. 1 \in 1..Len(chain)
      BY <1>1, <2>1
    <3>3. QED
      BY <2>4, <3>1, <3>2
  <2>7. RunsFirst'
    BY <2>1, <2>6 DEF CallsKept, RunsFirst
  <2>8. step \in PersistStep => chain'[1].floor = chain[1].floor
    BY <1>1, <2>1, <2>4 DEF CallsKept, RunsFirst
  <2>9. QED
    BY <1>1, <2>1, <2>4, <2>5, <2>5a, <2>7, <2>8 DEF CallsTyped, CallsKept
<1>4. CASE slot = 0
  <2> DEFINE call == [kind |-> "persist", floor |-> device'.change]
  <2>1. chain' = Append(chain, call) /\ slot' = Len(chain') /\ call \in QueuedCall
    BY <1>1, <1>4 DEF Persist, Queued, QueuedCall
  <2>2. call.kind = "persist" /\ call.floor = device'.change
    OBVIOUS
  <2> HIDE DEF call
  <2>3. /\ chain' \in Seq(QueuedCall) /\ Len(chain') = Len(chain) + 1
        /\ \A i \in 1..Len(chain) : chain'[i] = chain[i]
        /\ chain'[Len(chain) + 1] = call
    BY <1>1, <2>1
  <2>3a. promised' <= device'.change
    BY <1>1 DEF CallsKept
  <2>4a. ClearsKept'
    <3> SUFFICES ASSUME NEW i \in 1..(Len(chain) + 1)
                 PROVE  /\ chain'[i].floor <= device'.change
                        /\ chain'[i].kind = "clear" =>
                             promised' = 0 /\ i < slot' /\ \A j \in 1..i : chain'[j].floor = 0
      BY <2>3 DEF ClearsKept
    <3>1. CASE i = Len(chain) + 1
      BY <1>1, <2>2, <2>3, <3>1
    <3>2. CASE i \in 1..Len(chain)
      <4>1. chain'[i] = chain[i] /\ chain[i].floor <= device.change /\ chain[i].floor \in Nat
        BY <1>2, <2>3, <3>2 DEF CallsKept, ClearsKept
      <4>2. chain[i].kind = "clear" => promised = 0 /\ \A j \in 1..i : chain[j].floor = 0
        BY <3>2 DEF CallsKept, ClearsKept
      <4>3. i < slot' /\ \A j \in 1..i : j \in 1..Len(chain)
        BY <1>1, <2>1, <2>3, <3>2
      <4>4. chain'[i].floor <= device'.change
        BY <1>1, <4>1
      <4>5. QED
        BY <2>3, <4>1, <4>2, <4>3, <4>4
    <3>3. QED
      BY <1>1, <3>1, <3>2
  <2>4b. RunsFirst'
    BY <1>1, <1>2, <1>4, <2>1, <2>2, <2>3 DEF CallsKept, RunsFirst
  <2>4. CallsKept'
    BY <2>3a, <2>4a, <2>4b DEF CallsKept
  <2>5. QED
    BY <1>1, <1>4, <2>1, <2>3, <2>4 DEF CallsTyped, CallsKept, ClearsKept, RunsFirst
<1>5. QED
  BY <1>3, <1>4

\* Whatever a caller or an eviction does, the rest of the state stays as it is kept.
LEMMA CallerKeeps ==
  ASSUME CapsuleInv, Persist, device' \in State, device.change <= device'.change,
         UNCHANGED <<homes, minted, step, writing, torn, promised, settled>>, BoundsTyped'
  PROVE  CapsuleInv'
<1> USE DEF homes
<1>1. CallsTyped' /\ CallsKept' /\ (step \in PersistStep => chain'[1].floor = chain[1].floor)
  BY PersistCalls DEF CapsuleInv
<1>2. HomesTyped' /\ RunTyped' /\ PastKept'
  BY CapsuleTypeParts DEF CapsuleInv, HomesTyped, RunTyped, PastKept
<1>3. CapsuleTypeOK'
  BY <1>1, <1>2, CapsuleTypeNext
<1>4. PointersKept' /\ PromiseKept' /\ SettledKept'
  <2>1. PointersKept'
    BY DEF CapsuleInv, PointersKept, Ordered
  <2>2. PromiseKept'
    BY DEF CapsuleInv, PromiseKept, HeadKept, Keeps, Committed
  <2>3. SettledKept'
    <3>1. HeadKept' = HeadKept /\ Committed' = Committed
      BY DEF HeadKept, Committed
    <3>2. QED
      BY <3>1 DEF CapsuleInv, SettledKept
  <2>4. QED
    BY <2>1, <2>2, <2>3
<1>5. PersistKept'
  BY <1>1 DEF CapsuleInv, PersistKept, NewerKept, PlacedKept, Older, Named
<1>6. QED
  BY <1>1, <1>3, <1>4, <1>5 DEF CapsuleInv

LEMMA CallClearKeeps == ASSUME CapsuleInv, CallClear PROVE CapsuleInv'
<1> USE CapsuleBounds DEF homes, CallClear
<1> DEFINE kept == [i \in DOMAIN chain |-> [chain[i] EXCEPT !.floor = 0]]
           call == [kind |-> "clear", floor |-> 0]
<1>1. /\ chain \in Seq(QueuedCall) /\ Len(chain) \in Nat
      /\ chain' = Append(kept, call) /\ call \in QueuedCall
  BY DEF CapsuleInv, CapsuleTypeOK, QueuedCall
<1>2. call.kind = "clear" /\ call.floor = 0
  OBVIOUS
<1>3. DOMAIN chain = 1..Len(chain) /\ \A i \in 1..Len(chain) : chain[i] \in QueuedCall
  BY <1>1
<1>4. \A i \in 1..Len(chain) : /\ [chain[i] EXCEPT !.floor = 0] \in QueuedCall
                               /\ kept[i].floor = 0 /\ kept[i].kind = chain[i].kind
  BY <1>3 DEF QueuedCall
<1>5. kept \in Seq(QueuedCall) /\ Len(kept) = Len(chain)
  BY <1>1, <1>3, <1>4
<1> HIDE DEF kept, call
<1>6. /\ chain' \in Seq(QueuedCall) /\ Len(chain') = Len(chain) + 1
      /\ \A i \in 1..Len(chain) : chain'[i] = kept[i]
      /\ chain'[Len(chain) + 1] = call
  <2>1. call \in QueuedCall /\ kept \in Seq(QueuedCall) /\ chain' = Append(kept, call)
    BY <1>1, <1>5
  <2>2. /\ Append(kept, call) \in Seq(QueuedCall) /\ Len(Append(kept, call)) = Len(kept) + 1
        /\ \A i \in 1..Len(kept) : Append(kept, call)[i] = kept[i]
        /\ Append(kept, call)[Len(kept) + 1] = call
    BY <2>1, AppendAt
  <2>3. QED
    BY <1>5, <2>1, <2>2
<1>7. \A i \in 1..Len(chain') : chain'[i].floor = 0
  BY <1>1, <1>2, <1>4, <1>6
<1>8. device \in State /\ device.change \in Nat
  BY DEF CapsuleInv, CapsuleTypeOK, State
<1>9. CallsKept'
  <2>0. promised' = 0 /\ device'.change \in Nat
    BY <1>8
  <2>1. promised' <= device'.change /\ \A i \in 1..Len(chain') : chain'[i].floor <= device'.change
    <3>1. 0 <= device'.change
      BY <2>0
    <3>2. QED
      BY <1>7, <2>0, <3>1
  <2>2. slot' = 0 /\ promised' = 0
    OBVIOUS
  <2>3. step \in PersistStep \union ClearStep => chain'[1].kind = chain[1].kind
    BY <1>1, <1>4, <1>6 DEF CapsuleInv, CallsKept, ClearsKept, RunsFirst
  <2>4. chain' # <<>>
    <3>1. chain' = <<>> => Len(chain') = 0
      OBVIOUS
    <3>2. QED
      BY <1>1, <1>6, <3>1
  <2>5. ClearsKept'
    BY <1>6, <1>7, <2>1, <2>2 DEF ClearsKept
  <2>6. RunsFirst'
    BY <2>2, <2>3, <2>4 DEF CapsuleInv, CallsKept, RunsFirst
  <2>7. QED
    BY <2>1, <2>5, <2>6 DEF CallsKept
<1>10. CapsuleTypeOK'
  <2>1. HomesTyped' /\ RunTyped' /\ PastKept'
    BY CapsuleTypeParts DEF CapsuleInv, HomesTyped, RunTyped, PastKept
  <2>2. CallsTyped'
    BY <1>1, <1>6 DEF CallsTyped
  <2>3. BoundsTyped'
    BY CapsuleTypeParts DEF CapsuleInv, BoundsTyped
  <2>4. QED
    BY <2>1, <2>2, <2>3, CapsuleTypeNext
<1>11. PointersKept' /\ PromiseKept' /\ SettledKept'
  <2>1. PointersKept'
    BY DEF CapsuleInv, PointersKept, Ordered
  <2>2. PromiseKept'
    BY DEF PromiseKept
  <2>3. SettledKept'
    BY DEF CapsuleInv, SettledKept, HeadKept, Committed
  <2>4. QED
    BY <2>1, <2>2, <2>3
<1>12. PersistKept'
  <2> SUFFICES ASSUME step \in PersistStep PROVE PersistKept'
    BY DEF PersistKept
  <2>1. writing \in [capsule : Capsule, pointer : Pointer]
    BY DEF CapsuleInv, CapsuleTypeOK, CallsKept, ClearsKept, RunsFirst
  <2>2. writing.capsule.state.change \in Nat
    BY <2>1 DEF Capsule, State
  <2>3. chain'[1].floor = 0
    BY <1>1, <1>6, <1>7
  <2>4. QED
    BY <2>2, <2>3 DEF CapsuleInv, PersistKept, NewerKept, PlacedKept, Older, Named
<1>13. QED
  BY <1>9, <1>10, <1>11, <1>12 DEF CapsuleInv

(***************************************************************************)
(* The steps of a persist.                                                 *)
(***************************************************************************)
LEMMA CapsuleTyped ==
  ASSUME NEW c \in Capsule
  PROVE  c # Absent /\ c.generation \in Nat /\ c.state \in State /\ c.state.change \in Nat
  BY AbsentAssumption DEF Capsule, Generation, State

LEMMA PointerTyped ==
  ASSUME NEW q \in Pointer
  PROVE  /\ q # Absent /\ q.id \in Identifier /\ q.generation \in Nat /\ q.generation > 0
         /\ q.previous \in Nat
  BY AbsentAssumption DEF Pointer, Generation

LEMMA StateTyped == Absent \notin State
  BY AbsentAssumption

LEMMA HomesHold ==
  ASSUME HomesTyped
  PROVE  /\ \A i \in Identifier : \A s \in {"current", "previous", "next"} :
              vault[i][s] # Absent => vault[i][s] \in Capsule
         /\ \A i \in Identifier : \A s \in {"current", "previous"} :
              profile[i][s] # Absent => profile[i][s] \in Capsule
         /\ \A s \in {"current", "previous", "next"} : manifest[s] # Absent => manifest[s] \in Pointer
         /\ index # Absent => index \in Pointer
         /\ Committed # Absent => Committed \in Pointer
  BY DEF HomesTyped, Committed

\* What is known of the running persist.
LEMMA Persisting ==
  ASSUME CapsuleInv, step \in PersistStep
  PROVE  /\ HomesTyped /\ settled = Absent /\ promised \in Nat /\ torn \in Nat
         /\ writing.capsule \in Capsule /\ writing.pointer \in Pointer /\ Named \in Identifier
<1>1. writing \in [capsule : Capsule, pointer : Pointer]
  BY DEF CapsuleInv, CapsuleTypeOK, CallsKept, ClearsKept, RunsFirst
<1>2. writing.capsule \in Capsule /\ writing.pointer \in Pointer
  BY <1>1
<1>3. settled = Absent
  BY DEF CapsuleInv, SettledKept, PersistStep
<1>4. HomesTyped /\ promised \in Nat /\ torn \in Nat
  BY CapsuleBounds DEF CapsuleInv, CapsuleTypeOK, HomesTyped
<1>5. QED
  BY <1>2, <1>3, <1>4, PointerTyped DEF Named

\* A step leaves the callers alone.
LEMMA StepKeeps ==
  ASSUME CapsuleInv, step \in PersistStep, step' \in PersistStep,
         UNCHANGED <<device, minted, calls, writing, promised, settled, capsuleBounds>>,
         torn' \in Nat, HomesTyped', PointersKept', PersistKept', PromiseKept'
  PROVE  CapsuleInv'
<1> USE DEF calls, capsuleBounds
<1>1. settled = Absent
  BY Persisting
<1>2. RunTyped' /\ CallsTyped' /\ PastKept' /\ BoundsTyped'
  BY CapsuleTypeParts DEF CapsuleInv, RunTyped, CallsTyped, PastKept, BoundsTyped
<1>3. CapsuleTypeOK'
  BY <1>2, CapsuleTypeNext
<1>4. CallsKept'
  BY DEF CapsuleInv, CallsKept, ClearsKept, RunsFirst, PersistStep, ClearStep
<1>5. SettledKept'
  BY <1>1 DEF SettledKept
<1>6. QED
  BY <1>3, <1>4, <1>5 DEF CapsuleInv

\* While the first persist since the last commit prepares, what was committed is
\* under the identifier it writes to.
LEMMA FirstTorn ==
  ASSUME CapsuleInv, step \in Preparing \ {"manifestPromote"}, promised > 0, torn <= 1
  PROVE  /\ torn = 1 /\ HeadKept /\ manifest["current"] # Absent /\ Committed = manifest["current"]
         /\ Committed \in Pointer /\ Committed.id = Named
         /\ Committed.generation < writing.pointer.generation
<1>1. step \in PersistStep /\ step \in Preparing
  BY DEF Preparing
<1>2. torn = 1
  BY <1>1, Persisting DEF CapsuleInv, PersistKept, NewerKept
<1>3. HeadKept /\ manifest["current"] # Absent
  BY DEF CapsuleInv, PromiseKept
<1>4. Older(manifest["current"])
  BY <1>1 DEF CapsuleInv, PersistKept, PlacedKept
<1>5. QED
  BY <1>1, <1>2, <1>3, <1>4, Persisting, HomesHold DEF Older, Committed

\* The steps before the manifests change.
LEMMA PreparingKeeps ==
  ASSUME CapsuleInv, step \in Preparing, step' \in Preparing,
         UNCHANGED <<manifest, index, torn, calls, writing, promised>>
  PROVE  NewerKept' /\ Older(manifest["current"])'
<1>1. step \in PersistStep
  BY DEF Preparing
<1>2. NewerKept'
  BY <1>1 DEF CapsuleInv, PersistKept, NewerKept, calls, Preparing
<1>3. Older(manifest["current"])'
  BY <1>1 DEF CapsuleInv, PersistKept, PlacedKept, Older, Named
<1>4. QED
  BY <1>2, <1>3

LEMMA WriteNextKeeps == ASSUME CapsuleInv, WriteNext PROVE CapsuleInv'
<1> USE DEF WriteNext, InVault, Advance
<1>1. step = "next" /\ step' = "drop" /\ step \in PersistStep /\ step' \in PersistStep /\ step \in Preparing
  BY DEF PersistStep, Preparing, Committing
<1>2. /\ HomesTyped /\ settled = Absent /\ promised \in Nat /\ torn \in Nat
      /\ writing.capsule \in Capsule /\ Named \in Identifier
  BY <1>1, Persisting
<1>3. HomesTyped'
  BY <1>2 DEF HomesTyped
<1>4. \A i \in Identifier : \A s \in {"current", "previous", "next"} :
        vault'[i][s] = IF i = Named /\ s = "next" THEN writing.capsule ELSE vault[i][s]
  BY <1>2 DEF HomesTyped
<1>5. Named' = Named /\ Committed' = Committed
  BY DEF Named, Committed
<1>6. PersistKept'
  BY <1>1, <1>2, <1>4, <1>5, PreparingKeeps DEF CapsuleInv, PersistKept, PlacedKept, Preparing, Committing
<1>7. PromiseKept'
  <2> SUFFICES ASSUME promised > 0, torn <= 1 PROVE PromiseKept'
    BY DEF PromiseKept
  <2>1. torn = 1 /\ HeadKept /\ manifest["current"] # Absent /\ Committed \in Pointer
    BY <1>1, FirstTorn
  <2>2. Keeps(vault[Committed.id]["current"]) /\ Committed.id \in Identifier
    BY <1>1, <2>1, PointerTyped DEF CapsuleInv, PromiseKept
  <2>3. vault'[Committed.id]["current"] = vault[Committed.id]["current"]
    BY <1>4, <2>2
  <2>4. HeadKept' /\ manifest'["current"] # Absent
    BY <1>5, <2>1 DEF HeadKept
  <2>5. Keeps(vault[Committed.id]["current"])'
    BY <1>5, <2>2, <2>3 DEF Keeps
  <2>6. QED
    BY <2>4, <2>5 DEF PromiseKept
<1>8. PointersKept'
  BY DEF CapsuleInv, PointersKept, Ordered
<1>9. QED
  BY <1>1, <1>2, <1>3, <1>6, <1>7, <1>8, StepKeeps

LEMMA DropPreviousKeeps == ASSUME CapsuleInv, DropPrevious PROVE CapsuleInv'
<1> USE DEF DropPrevious, InVault, Advance
<1>1. step = "drop" /\ step' = "rotate" /\ step \in PersistStep /\ step' \in PersistStep /\ step \in Preparing
  BY DEF PersistStep, Preparing, Committing
<1>2. /\ HomesTyped /\ settled = Absent /\ promised \in Nat /\ torn \in Nat
      /\ writing.capsule \in Capsule /\ Named \in Identifier
  BY <1>1, Persisting
<1>3. HomesTyped'
  BY <1>2 DEF HomesTyped
<1>4. \A i \in Identifier : \A s \in {"current", "previous", "next"} :
        vault'[i][s] = IF i = Named /\ s = "previous" THEN Absent ELSE vault[i][s]
  BY <1>2 DEF HomesTyped
<1>5. Named' = Named /\ Committed' = Committed
  BY DEF Named, Committed
<1>6. PersistKept'
  BY <1>1, <1>2, <1>4, <1>5, PreparingKeeps DEF CapsuleInv, PersistKept, PlacedKept, Preparing, Committing
<1>7. PromiseKept'
  <2> SUFFICES ASSUME promised > 0, torn <= 1 PROVE PromiseKept'
    BY DEF PromiseKept
  <2>1. torn = 1 /\ HeadKept /\ manifest["current"] # Absent /\ Committed \in Pointer
    BY <1>1, FirstTorn
  <2>2. Keeps(vault[Committed.id]["current"]) /\ Committed.id \in Identifier
    BY <1>1, <2>1, PointerTyped DEF CapsuleInv, PromiseKept
  <2>3. vault'[Committed.id]["current"] = vault[Committed.id]["current"]
    BY <1>4, <2>2
  <2>4. HeadKept' /\ manifest'["current"] # Absent
    BY <1>5, <2>1 DEF HeadKept
  <2>5. Keeps(vault[Committed.id]["current"])'
    BY <1>5, <2>2, <2>3 DEF Keeps
  <2>6. QED
    BY <2>4, <2>5 DEF PromiseKept
<1>8. PointersKept'
  BY DEF CapsuleInv, PointersKept, Ordered
<1>9. QED
  BY <1>1, <1>2, <1>3, <1>6, <1>7, <1>8, StepKeeps

LEMMA RotateCapsuleKeeps == ASSUME CapsuleInv, RotateCapsule PROVE CapsuleInv'
<1> USE DEF RotateCapsule, InVault, Advance
<1>1. step = "rotate" /\ step' = "promote" /\ step \in PersistStep /\ step' \in PersistStep /\ step \in Preparing
  BY DEF PersistStep, Preparing, Committing
<1>2. /\ HomesTyped /\ settled = Absent /\ promised \in Nat /\ torn \in Nat
      /\ writing.capsule \in Capsule /\ Named \in Identifier
  BY <1>1, Persisting
<1>3. HomesTyped'
  BY <1>2 DEF HomesTyped
<1>4. \A i \in Identifier : \A s \in {"current", "previous", "next"} :
        vault'[i][s] = IF i = Named /\ vault[Named]["current"] # Absent /\ s # "next"
                       THEN IF s = "current" THEN Absent ELSE vault[Named]["current"]
                       ELSE vault[i][s]
  BY <1>2 DEF HomesTyped
<1>5. Named' = Named /\ Committed' = Committed
  BY DEF Named, Committed
<1>6. PersistKept'
  BY <1>1, <1>2, <1>4, <1>5, PreparingKeeps DEF CapsuleInv, PersistKept, PlacedKept, Preparing, Committing
<1>7. PromiseKept'
  <2> SUFFICES ASSUME promised > 0, torn <= 1 PROVE PromiseKept'
    BY DEF PromiseKept
  <2>1. /\ torn = 1 /\ HeadKept /\ manifest["current"] # Absent /\ Committed \in Pointer
        /\ Committed.id = Named
    BY <1>1, FirstTorn
  <2>2. Keeps(vault[Named]["current"])
    BY <1>1, <2>1 DEF CapsuleInv, PromiseKept
  <2>3. vault'[Named]["current"] = Absent /\ vault'[Named]["previous"] = vault[Named]["current"]
    BY <1>2, <1>4, <2>2 DEF Keeps
  <2>4. HeadKept' /\ manifest'["current"] # Absent
    BY <1>5, <2>1 DEF HeadKept
  <2>5. Keeps(vault[Committed.id]["previous"])'
    BY <1>5, <2>1, <2>2, <2>3 DEF Keeps
  <2>6. vault'[Committed'.id]["current"] = Absent
    BY <1>5, <2>1, <2>3
  <2>7. torn' # 0 /\ step' \notin {"next", "drop", "rotate"}
    BY <1>1, <2>1
  <2>8. QED
    BY <2>4, <2>5, <2>6, <2>7, ZenonT(30) DEF PromiseKept
<1>8. PointersKept'
  BY DEF CapsuleInv, PointersKept, Ordered
<1>9. QED
  BY <1>1, <1>2, <1>3, <1>6, <1>7, <1>8, StepKeeps

LEMMA PromoteCapsuleKeeps == ASSUME CapsuleInv, PromoteCapsule PROVE CapsuleInv'
<1> USE DEF PromoteCapsule, InVault, Advance
<1>1. step = "promote" /\ step' = "profile" /\ step \in PersistStep /\ step' \in PersistStep /\ step \in Preparing
  BY DEF PersistStep, Preparing, Committing
<1>2. /\ HomesTyped /\ settled = Absent /\ promised \in Nat /\ torn \in Nat
      /\ writing.capsule \in Capsule /\ Named \in Identifier
  BY <1>1, Persisting
<1>a. /\ vault[Named]["next"] = writing.capsule /\ vault[Named]["current"] = Absent
      /\ writing.capsule.generation = writing.pointer.generation
  BY <1>1 DEF CapsuleInv, PersistKept, NewerKept, PlacedKept
<1>3. HomesTyped'
  BY <1>2, <1>a DEF HomesTyped
<1>4. \A i \in Identifier : \A s \in {"current", "previous", "next"} :
        vault'[i][s] = IF i = Named /\ s # "previous"
                       THEN IF s = "current" THEN writing.capsule ELSE Absent
                       ELSE vault[i][s]
  BY <1>2, <1>a DEF HomesTyped
<1>5. Named' = Named /\ Committed' = Committed
  BY DEF Named, Committed
<1>6. PersistKept'
  BY <1>1, <1>2, <1>4, <1>5, PreparingKeeps DEF CapsuleInv, PersistKept, PlacedKept, Preparing, Committing
<1>7. PromiseKept'
  <2> SUFFICES ASSUME promised > 0, torn <= 1 PROVE PromiseKept'
    BY DEF PromiseKept
  <2>1. /\ torn = 1 /\ HeadKept /\ manifest["current"] # Absent /\ Committed \in Pointer
        /\ Committed.id = Named /\ Committed.generation < writing.pointer.generation
    BY <1>1, FirstTorn
  <2>2. Keeps(vault[Named]["previous"])
    BY <1>1, <1>a, <2>1 DEF CapsuleInv, PromiseKept, Keeps
  <2>3. /\ vault'[Named]["current"] = writing.capsule
        /\ vault'[Named]["previous"] = vault[Named]["previous"]
    BY <1>2, <1>4
  <2>4. HeadKept' /\ manifest'["current"] # Absent
    BY <1>5, <2>1 DEF HeadKept
  <2>5. Keeps(vault[Committed.id]["previous"])'
    BY <1>5, <2>1, <2>2, <2>3 DEF Keeps
  <2>6. vault'[Committed'.id]["current"].generation > Committed'.generation
    BY <1>2, <1>5, <1>a, <2>1, <2>3, CapsuleTyped, PointerTyped
  <2>7. torn' # 0 /\ step' \notin {"next", "drop", "rotate"}
    BY <1>1, <2>1
  <2>8. QED
    BY <2>4, <2>5, <2>6, <2>7, ZenonT(30) DEF PromiseKept
<1>8. PointersKept'
  BY DEF CapsuleInv, PointersKept, Ordered
<1>9. QED
  BY <1>1, <1>2, <1>3, <1>6, <1>7, <1>8, StepKeeps

LEMMA SaveProfileKeeps == ASSUME CapsuleInv, SaveProfile PROVE CapsuleInv'
<1> USE DEF SaveProfile, Advance
<1>1. /\ step = "profile" /\ step' = "manifestNext" /\ step \in PersistStep /\ step' \in PersistStep
      /\ step \in Preparing /\ step' \in Preparing
  BY DEF PersistStep, Preparing, Committing
<1>2. /\ HomesTyped /\ settled = Absent /\ promised \in Nat /\ torn \in Nat
      /\ writing.capsule \in Capsule /\ Named \in Identifier
  BY <1>1, Persisting
<1>3. profile' \in [Identifier -> [{"current", "previous"} -> Capsule \union {Absent}]]
  BY <1>2 DEF HomesTyped
<1>4. HomesTyped'
  BY <1>2, <1>3 DEF HomesTyped
<1>5. profile'[Named]["current"] = writing.capsule
  BY <1>2 DEF HomesTyped
<1>6. Named' = Named /\ Committed' = Committed
  BY DEF Named, Committed
<1>7. PersistKept'
  BY <1>1, <1>2, <1>5, <1>6, PreparingKeeps DEF CapsuleInv, PersistKept, PlacedKept, Preparing, Committing
<1>8. PromiseKept' /\ PointersKept'
  BY <1>1, <1>6 DEF CapsuleInv, PromiseKept, HeadKept, Keeps, PointersKept, Ordered, Preparing, Committing
<1>9. QED
  BY <1>1, <1>2, <1>4, <1>7, <1>8, StepKeeps

LEMMA WriteManifestNextKeeps == ASSUME CapsuleInv, WriteManifestNext PROVE CapsuleInv'
<1> USE DEF WriteManifestNext, InManifest, Advance
<1>1. /\ step = "manifestNext" /\ step' = "manifestDrop" /\ step \in PersistStep
      /\ step' \in PersistStep /\ step \in Preparing /\ step' \in Preparing
  BY DEF PersistStep, Preparing, Committing
<1>2. /\ HomesTyped /\ settled = Absent /\ promised \in Nat /\ torn \in Nat
      /\ writing.capsule \in Capsule /\ Named \in Identifier /\ writing.pointer \in Pointer
  BY <1>1, Persisting
<1>3. HomesTyped'
  BY <1>2 DEF HomesTyped
<1>4. /\ manifest'["current"] = manifest["current"] /\ manifest'["previous"] = manifest["previous"]
      /\ manifest'["next"] = writing.pointer
  BY <1>2 DEF HomesTyped
<1>5. Named' = Named /\ Committed' = Committed
  BY <1>4 DEF Named, Committed
<1>6. NewerKept'
  BY <1>1 DEF CapsuleInv, PersistKept, NewerKept, calls, Preparing
<1>7. Older(manifest["current"])'
  BY <1>1, <1>4, <1>5 DEF CapsuleInv, PersistKept, PlacedKept, Older
<1>8. PersistKept'
  BY <1>1, <1>2, <1>4, <1>5, <1>6, <1>7
     DEF CapsuleInv, PersistKept, PlacedKept, Preparing, Committing
<1>9. PromiseKept'
  BY <1>1, <1>4, <1>5 DEF CapsuleInv, PromiseKept, HeadKept, Keeps, Preparing, Committing
<1>10. PointersKept'
  BY <1>1, <1>4 DEF CapsuleInv, PointersKept, Ordered, CallsKept, ClearsKept, RunsFirst
<1>11. QED
  BY <1>1, <1>2, <1>3, <1>8, <1>9, <1>10, StepKeeps

LEMMA DropManifestPreviousKeeps == ASSUME CapsuleInv, DropManifestPrevious PROVE CapsuleInv'
<1> USE DEF DropManifestPrevious, InManifest, Advance
<1>1. /\ step = "manifestDrop" /\ step' = "manifestRotate" /\ step \in PersistStep
      /\ step' \in PersistStep /\ step \in Preparing /\ step' \in Preparing
  BY DEF PersistStep, Preparing, Committing
<1>2. /\ HomesTyped /\ settled = Absent /\ promised \in Nat /\ torn \in Nat
      /\ writing.capsule \in Capsule /\ Named \in Identifier /\ writing.pointer \in Pointer
  BY <1>1, Persisting
<1>3. HomesTyped'
  BY <1>2 DEF HomesTyped
<1>4. /\ manifest'["current"] = manifest["current"] /\ manifest'["previous"] = Absent
      /\ manifest'["next"] = manifest["next"]
  BY <1>2 DEF HomesTyped
<1>5. Named' = Named
  BY DEF Named
<1>6. NewerKept'
  BY <1>1 DEF CapsuleInv, PersistKept, NewerKept, calls, Preparing
<1>7. Older(manifest["current"])'
  BY <1>1, <1>4, <1>5 DEF CapsuleInv, PersistKept, PlacedKept, Older
<1>8. PersistKept'
  BY <1>1, <1>2, <1>4, <1>5, <1>6, <1>7
     DEF CapsuleInv, PersistKept, PlacedKept, Preparing, Committing
<1>9. PromiseKept'
  <2> SUFFICES ASSUME promised > 0, torn <= 1 PROVE PromiseKept'
    BY DEF PromiseKept
  <2>1. HeadKept /\ manifest["current"] # Absent /\ Committed = manifest["current"]
    BY <1>1, FirstTorn
  <2>2. Committed' = Committed /\ manifest'["current"] # Absent
    BY <1>4, <2>1 DEF Committed
  <2>3. HeadKept'
    BY <1>4, <2>1, <2>2 DEF HeadKept
  <2>4. QED
    BY <1>1, <2>2, <2>3 DEF CapsuleInv, PromiseKept, Keeps, Preparing, Committing
<1>10. PointersKept'
  BY <1>1, <1>4 DEF CapsuleInv, PointersKept, Ordered
<1>11. QED
  BY <1>1, <1>2, <1>3, <1>8, <1>9, <1>10, StepKeeps

LEMMA RotateManifestKeeps == ASSUME CapsuleInv, RotateManifest PROVE CapsuleInv'
<1> USE DEF RotateManifest, InManifest, Advance
<1>1. /\ step = "manifestRotate" /\ step' = "manifestPromote" /\ step \in PersistStep
      /\ step' \in PersistStep /\ step \in Preparing /\ step' \in Preparing
  BY DEF PersistStep, Preparing, Committing
<1>2. /\ HomesTyped /\ settled = Absent /\ promised \in Nat /\ torn \in Nat
      /\ writing.capsule \in Capsule /\ Named \in Identifier /\ writing.pointer \in Pointer
  BY <1>1, Persisting
<1>a. manifest["previous"] = Absent /\ Older(manifest["current"])
  BY <1>1 DEF CapsuleInv, PersistKept, PlacedKept
<1>3. HomesTyped'
  BY <1>2 DEF HomesTyped
<1>4. /\ manifest'["current"] = Absent /\ manifest'["previous"] = manifest["current"]
      /\ manifest'["next"] = manifest["next"]
  BY <1>2, <1>a DEF HomesTyped
<1>5. Named' = Named /\ Committed' = Committed
  BY <1>4, <1>a DEF Named, Committed
<1>6. NewerKept'
  BY <1>1 DEF CapsuleInv, PersistKept, NewerKept, calls, Preparing
<1>7. Older(manifest["current"])' /\ Older(manifest["previous"])'
  BY <1>a, <1>4, <1>5 DEF Older
<1>8. PersistKept'
  BY <1>1, <1>2, <1>4, <1>5, <1>6, <1>7
     DEF CapsuleInv, PersistKept, PlacedKept, Preparing, Committing
<1>9. PromiseKept'
  <2> SUFFICES ASSUME promised > 0, torn <= 1 PROVE PromiseKept'
    BY DEF PromiseKept
  <2>1. HeadKept /\ torn = 1
    BY <1>1, FirstTorn
  <2>2. HeadKept'
    BY <1>4, <1>5, <2>1 DEF HeadKept
  <2>3. QED
    BY <1>1, <1>5, <2>1, <2>2 DEF CapsuleInv, PromiseKept, Keeps, Preparing, Committing
<1>10. PointersKept'
  BY <1>1, <1>4 DEF CapsuleInv, PointersKept, Ordered
<1>11. QED
  BY <1>1, <1>2, <1>3, <1>8, <1>9, <1>10, StepKeeps

\* The commit: from here on what is written is what a restart restores.
LEMMA PromoteManifestKeeps == ASSUME CapsuleInv, PromoteManifest PROVE CapsuleInv'
<1> USE DEF PromoteManifest, InManifest, Advance
<1>1. /\ step = "manifestPromote" /\ step' \in {"purge", "index"} /\ step \in PersistStep
      /\ step' \in PersistStep /\ step \in Preparing /\ step' \in Committing /\ step' \notin Preparing
      /\ step' = "index" => ~writing.capsule.state.pinOnly
  BY DEF PersistStep, Preparing, Committing
<1>2. /\ HomesTyped /\ settled = Absent /\ promised \in Nat
      /\ writing.capsule \in Capsule /\ Named \in Identifier /\ writing.pointer \in Pointer
  BY <1>1, Persisting
<1>a. /\ Older(manifest["previous"]) /\ manifest["next"] = writing.pointer
      /\ vault[Named]["current"] = writing.capsule
  BY <1>1 DEF CapsuleInv, PersistKept, PlacedKept
<1>3. HomesTyped'
  BY <1>2 DEF HomesTyped
<1>4. /\ manifest'["current"] = writing.pointer /\ manifest'["previous"] = manifest["previous"]
      /\ manifest'["next"] = Absent
  BY <1>2, <1>a DEF HomesTyped
<1>5. Named' = Named /\ Committed' = writing.pointer
  BY <1>2, <1>4, PointerTyped DEF Named, Committed
<1>6. NewerKept'
  BY <1>1 DEF CapsuleInv, PersistKept, NewerKept, calls
<1>7. Older(manifest["previous"])'
  BY <1>a, <1>4, <1>5 DEF Older
<1>8. PersistKept'
  BY <1>1, <1>2, <1>4, <1>5, <1>6, <1>7
     DEF CapsuleInv, PersistKept, PlacedKept, Preparing, Committing
<1>9. PromiseKept'
  <2>1. /\ Committed' # Absent /\ manifest'["current"] # Absent
        /\ index' # Absent => index'.generation <= Committed'.generation
    BY <1>2, <1>4, <1>5, <1>6, HomesHold, PointerTyped DEF NewerKept
  <2>2. HeadKept'
    BY <1>4, <1>5, <1>7, <2>1 DEF HeadKept, Older, Named
  <2>3. Keeps(vault[Committed.id]["current"])'
    BY <1>2, <1>5, <1>6, <1>a, CapsuleTyped DEF Keeps, Named, NewerKept
  <2>4. QED
    BY <2>1, <2>2, <2>3 DEF PromiseKept
<1>10. PointersKept'
  BY <1>1, <1>4, <1>a DEF CapsuleInv, PointersKept, Ordered
<1>11. QED
  BY <1>1, <1>2, <1>3, <1>8, <1>9, <1>10, StepKeeps

\* Nothing that is purged is what a restart restores.
LEMMA PurgePreviousKeeps == ASSUME CapsuleInv, PurgePrevious PROVE CapsuleInv'
<1> USE DEF PurgePrevious, InVault, Advance
<1>1. /\ step = "purge" /\ step' = "manifestPurge" /\ step \in PersistStep /\ step' \in PersistStep
      /\ step \in Committing /\ step' \in Committing /\ step' \notin Preparing
  BY DEF PersistStep, Preparing, Committing
<1>2. /\ HomesTyped /\ settled = Absent /\ promised \in Nat /\ torn \in Nat
      /\ writing.capsule \in Capsule /\ Named \in Identifier
  BY <1>1, Persisting
<1>3. HomesTyped'
  BY <1>2 DEF HomesTyped
<1>4. \A i \in Identifier : \A s \in {"current", "previous", "next"} :
        vault'[i][s] = IF i = Named /\ s = "previous" THEN Absent ELSE vault[i][s]
  BY <1>2 DEF HomesTyped
<1>5. Named' = Named /\ Committed' = Committed
  BY DEF Named, Committed
<1>6. NewerKept'
  BY <1>1 DEF CapsuleInv, PersistKept, NewerKept, calls
<1>7. Older(manifest["previous"])'
  BY <1>1, <1>5 DEF CapsuleInv, PersistKept, PlacedKept, Older
<1>8. PersistKept'
  BY <1>1, <1>2, <1>4, <1>5, <1>6, <1>7
     DEF CapsuleInv, PersistKept, PlacedKept, Preparing, Committing
<1>9. PromiseKept'
  <2> SUFFICES ASSUME promised > 0, torn <= 1 PROVE PromiseKept'
    BY DEF PromiseKept
  <2>1. HeadKept /\ torn = 0 /\ manifest["current"] # Absent
    BY <1>1 DEF CapsuleInv, PromiseKept, PersistKept, NewerKept
  <2>2. Keeps(vault[Committed.id]["current"]) /\ Committed.id \in Identifier
    BY <1>2, <2>1, HomesHold, PointerTyped DEF CapsuleInv, PromiseKept, HeadKept
  <2>3. Keeps(vault[Committed.id]["current"])'
    BY <1>4, <1>5, <2>2 DEF Keeps
  <2>4. QED
    BY <1>5, <2>1, <2>3 DEF PromiseKept, HeadKept
<1>10. PointersKept'
  BY DEF CapsuleInv, PointersKept, Ordered
<1>11. QED
  BY <1>1, <1>2, <1>3, <1>8, <1>9, <1>10, StepKeeps

LEMMA PurgeManifestKeeps == ASSUME CapsuleInv, PurgeManifest PROVE CapsuleInv'
<1> USE DEF PurgeManifest, InManifest, Advance
<1>1. /\ step = "manifestPurge" /\ step' = "index" /\ step \in PersistStep /\ step' \in PersistStep
      /\ step \in Committing /\ step' \in Committing /\ step' \notin Preparing
  BY DEF PersistStep, Preparing, Committing
<1>2. /\ HomesTyped /\ settled = Absent /\ promised \in Nat /\ torn \in Nat
      /\ writing.capsule \in Capsule /\ Named \in Identifier /\ writing.pointer \in Pointer
  BY <1>1, Persisting
<1>3. HomesTyped'
  BY <1>2 DEF HomesTyped
<1>4. /\ manifest'["current"] = manifest["current"] /\ manifest'["previous"] = Absent
      /\ manifest'["next"] = manifest["next"] /\ manifest["current"] = writing.pointer
  BY <1>1, <1>2 DEF HomesTyped, CapsuleInv, PersistKept, PlacedKept
<1>5. Named' = Named /\ Committed' = Committed
  BY <1>2, <1>4, PointerTyped DEF Named, Committed
<1>6. NewerKept'
  BY <1>1 DEF CapsuleInv, PersistKept, NewerKept, calls
<1>7. Older(manifest["previous"])'
  BY <1>4 DEF Older
<1>8. PersistKept'
  BY <1>1, <1>2, <1>4, <1>5, <1>6, <1>7
     DEF CapsuleInv, PersistKept, PlacedKept, Preparing, Committing
<1>9. PromiseKept'
  BY <1>1, <1>4, <1>5 DEF CapsuleInv, PromiseKept, HeadKept, Keeps, Preparing, Committing
<1>10. PointersKept'
  BY <1>4 DEF CapsuleInv, PointersKept, Ordered
<1>11. QED
  BY <1>1, <1>2, <1>3, <1>8, <1>9, <1>10, StepKeeps

(***************************************************************************)
(* The ends of an operation.                                               *)
(***************************************************************************)
LEMMA LeaveCalls ==
  ASSUME CapsuleInv, chain # <<>>, Leave, device' = device,
         promised' \in 0..device.change, promised' \in {promised, chain[1].floor}
  PROVE  CallsTyped' /\ CallsKept'
<1> USE DEF Leave
<1>1. /\ chain \in Seq(QueuedCall) /\ slot \in 0..Len(chain) /\ Len(chain) \in Nat
      /\ device.change \in Nat /\ promised \in Nat
  BY CapsuleBounds DEF CapsuleInv, CapsuleTypeOK, State
<1>2. /\ chain' \in Seq(QueuedCall) /\ Len(chain') = Len(chain) - 1
      /\ \A i \in 1..Len(chain') : chain'[i] = chain[i + 1]
  BY <1>1
<1>3. /\ slot' \in 0..Len(chain')
      /\ slot' = 0 \/ slot' = slot - 1
      /\ slot = 0 => slot' = 0
  BY <1>1, <1>2 DEF SlotAfter
<1>4. \A i \in 1..Len(chain') : chain'[i].floor <= device.change
  BY <1>1, <1>2 DEF CapsuleInv, CallsKept, ClearsKept, RunsFirst
<1>5. ASSUME NEW i \in 1..Len(chain'), chain'[i].kind = "clear"
      PROVE  /\ promised' = 0
             /\ slot' = 0 \/ i < slot'
             /\ \A j \in 1..i : chain'[j].floor = 0
  <2>1. i + 1 \in 1..Len(chain) /\ chain[i + 1].kind = "clear"
    BY <1>1, <1>2, <1>5
  <2>2. promised = 0 /\ (slot = 0 \/ i + 1 < slot) /\ \A j \in 1..(i + 1) : chain[j].floor = 0
    BY <2>1 DEF CapsuleInv, CallsKept, ClearsKept, RunsFirst
  <2>3. promised' = 0
    BY <2>2
  <2>4. slot' = 0 \/ i < slot'
    BY <1>1, <1>3, <2>2
  <2>5. \A j \in 1..i : chain'[j].floor = 0
    BY <1>1, <1>2, <2>2
  <2>6. QED
    BY <2>3, <2>4, <2>5
<1>6. step' \notin PersistStep \union ClearStep
  BY DEF PersistStep, ClearStep
<1>7. CallsKept'
  <2>1. ClearsKept'
    BY <1>1, <1>4, <1>5 DEF ClearsKept
  <2>2. RunsFirst'
    BY <1>6 DEF RunsFirst
  <2>3. promised' <= device'.change
    BY <1>1
  <2>4. QED
    BY <2>1, <2>2, <2>3 DEF CallsKept
<1>8. QED
  BY <1>2, <1>3, <1>7 DEF CallsTyped

LEMMA SaveIndexKeeps == ASSUME CapsuleInv, SaveIndex PROVE CapsuleInv'
<1> USE DEF SaveIndex, Leave
<1>1. step = "index" /\ step \in PersistStep /\ step \in Committing /\ step' = "idle" /\ step' \notin PersistStep
  BY DEF PersistStep, Committing
<1>2. /\ HomesTyped /\ settled = Absent /\ promised \in Nat /\ torn \in Nat /\ torn = 0
      /\ writing.capsule \in Capsule /\ Named \in Identifier /\ writing.pointer \in Pointer
  BY <1>1, Persisting DEF CapsuleInv, PersistKept, NewerKept
<1>3. /\ NewerKept /\ PlacedKept /\ writing.capsule.state \in State
      /\ writing.capsule.generation \in Nat /\ writing.capsule.state.change \in Nat
  BY <1>1, <1>2, CapsuleTyped DEF CapsuleInv, PersistKept
<1>4. /\ manifest["current"] = writing.pointer /\ Older(manifest["previous"])
      /\ vault[Named]["current"] = writing.capsule /\ vault[Named]["next"] = Absent
      /\ profile[Named]["current"] \in {writing.capsule, Absent}
      /\ writing.capsule.state.pinOnly => vault[Named]["previous"] = Absent
  BY <1>1, <1>3 DEF PlacedKept
<1>5. Committed = writing.pointer /\ Committed' = writing.pointer
  BY <1>2, <1>4, PointerTyped DEF Committed
<1>6. /\ chain # <<>> /\ chain \in Seq(QueuedCall) /\ device \in State /\ device.change \in Nat
      /\ promised <= device.change /\ device.change \in 0..MaxChange
  BY <1>1, CapsuleBounds DEF CapsuleInv, CapsuleTypeOK, CallsKept, ClearsKept, RunsFirst, State
<1>7. /\ chain[1] \in QueuedCall /\ chain[1].floor \in Nat /\ chain[1].floor <= device.change
      /\ Head(chain) = chain[1]
  <2>1. 1 \in 1..Len(chain)
    BY <1>6
  <2>2. chain[1] \in QueuedCall /\ Head(chain) = chain[1]
    BY <1>6, <2>1
  <2>3. QED
    BY <2>1, <2>2, CapsuleBounds DEF CapsuleInv, CallsKept, ClearsKept, RunsFirst, QueuedCall
<1>8. /\ promised' \in {promised, chain[1].floor} /\ promised' \in 0..device.change
      /\ promised' <= writing.capsule.state.change
  BY <1>2, <1>3, <1>6, <1>7 DEF NewerKept
<1>9. CallsTyped' /\ CallsKept'
  BY <1>6, <1>8, LeaveCalls
<1>10. profile' \in [Identifier -> [{"current", "previous"} -> Capsule \union {Absent}]]
  BY <1>2 DEF HomesTyped, ProfilePurged
<1>11. CapsuleTypeOK'
  <2>1. HomesTyped'
    BY <1>2, <1>10 DEF HomesTyped
  <2>2. RunTyped'
    BY DEF RunTyped
  <2>3. PastKept'
    BY <1>3, <1>6, <1>8, CapsuleBounds, CapsuleTypeParts DEF CapsuleInv, PastKept
  <2>4. BoundsTyped'
    BY CapsuleTypeParts DEF CapsuleInv, BoundsTyped, capsuleBounds
  <2>5. QED
    BY <1>9, <2>1, <2>2, <2>3, <2>4, CapsuleTypeNext
<1>12. PointersKept'
  BY <1>1 DEF CapsuleInv, PointersKept, Ordered, CallsKept, ClearsKept, RunsFirst
<1>13. HeadKept'
  <2>1. Committed' # Absent /\ index'.generation <= Committed'.generation
    BY <1>2, <1>5, PointerTyped
  <2>2. QED
    BY <1>4, <1>5, <2>1 DEF HeadKept, Older, Named
<1>14. PromiseKept'
  <2>1. Keeps(vault[Committed.id]["current"])'
    BY <1>2, <1>3, <1>4, <1>5, <1>8, CapsuleTyped DEF Keeps, Named, NewerKept
  <2>2. manifest'["current"] # Absent /\ torn' = 0
    BY <1>2, <1>4, PointerTyped
  <2>3. QED
    BY <1>13, <2>1, <2>2 DEF PromiseKept
<1>15. SettledKept'
  <2>1. /\ Committed'.id = Named /\ Committed'.generation = writing.capsule.generation
        /\ manifest'["current"] # Absent
    BY <1>2, <1>3, <1>4, <1>5, PointerTyped DEF Named, NewerKept
  <2>2. writing.capsule = [generation |-> writing.capsule.generation, state |-> writing.capsule.state]
    BY <1>2 DEF Capsule
  <2>3. vault'[Committed'.id]["current"] = [generation |-> Committed'.generation, state |-> settled']
    BY <1>4, <2>1, <2>2
  <2>4. ASSUME settled'.pinOnly
        PROVE  /\ vault'[Committed'.id]["previous"] = Absent /\ vault'[Committed'.id]["next"] = Absent
               /\ profile'[Committed'.id]["previous"] = Absent
               /\ profile'[Committed'.id]["current"] \in {writing.capsule, Absent}
    BY <1>2, <1>4, <2>1, <2>4 DEF HomesTyped, ProfilePurged
  <2>5. settled'.pinOnly =>
          (profile'[Committed'.id]["current"] # Absent =>
             profile'[Committed'.id]["current"].state.pinOnly)
    BY <2>4
  <2>6. QED
    BY <1>1, <1>13, <2>1, <2>3, <2>4, <2>5 DEF SettledKept
<1>16. QED
  BY <1>1, <1>9, <1>11, <1>12, <1>14, <1>15 DEF CapsuleInv, PersistKept

LEMMA StartPersistKeeps == ASSUME CapsuleInv, StartPersist PROVE CapsuleInv'
<1> USE DEF StartPersist, homes, capsuleBounds
<1> DEFINE copy == [generation |-> Before + 1, state |-> device]
           pointer == [id |-> CapsuleId, generation |-> Before + 1,
                       previous |-> IF device.pinOnly THEN 0 ELSE Before]
<1>1. /\ step = "idle" /\ step' = "next" /\ step' \in PersistStep /\ step' \in Preparing
      /\ step' \notin ClearStep /\ step' \notin Committing
  BY DEF PersistStep, ClearStep, Preparing, Committing
<1>2. /\ HomesTyped /\ promised \in Nat /\ torn \in Nat /\ device \in State /\ CapsuleId \in Identifier
      /\ promised <= device.change /\ device.change \in Nat /\ chain \in Seq(QueuedCall)
      /\ slot \in 0..Len(chain)
  BY CapsuleBounds DEF CapsuleInv, CapsuleTypeOK, HomesTyped, CallsKept, ClearsKept, RunsFirst, State
<1>3. /\ Before \in Nat
      /\ manifest["current"] # Absent => /\ manifest["current"].generation <= Before
                                         /\ manifest["current"].id = CapsuleId
      /\ index # Absent => index.generation <= Before
  BY <1>2, HomesHold, PointerTyped DEF Before, GenerationOf, CapsuleId
<1>4. copy \in Capsule /\ pointer \in Pointer
  BY <1>2, <1>3 DEF Capsule, Pointer, Generation
<1>5. /\ copy.generation = Before + 1 /\ copy.state = device
      /\ pointer.id = CapsuleId /\ pointer.generation = Before + 1 /\ pointer.previous <= Before
  BY <1>3
<1>6. /\ writing' = [capsule |-> copy, pointer |-> pointer]
      /\ writing'.capsule = copy /\ writing'.pointer = pointer
      /\ writing' \in [capsule : Capsule, pointer : Pointer] /\ writing' # Absent
  BY <1>4, AbsentAssumption
<1> HIDE DEF copy, pointer
<1>7. /\ chain # <<>> /\ chain[1].kind = "persist" /\ chain[1].floor <= device.change /\ 1 \in 1..Len(chain)
  BY <1>2 DEF Running, CapsuleInv, CallsKept, ClearsKept, RunsFirst
<1>8. slot' \in 0..Len(chain) /\ slot' # 1 /\ slot' \in {0, slot}
  BY <1>2 DEF Released
<1>9. CallsKept'
  BY <1>1, <1>2, <1>6, <1>7, <1>8 DEF CapsuleInv, CallsKept, ClearsKept, RunsFirst
<1>10. CapsuleTypeOK'
  <2>1. HomesTyped'
    BY <1>2 DEF HomesTyped
  <2>2. RunTyped'
    BY <1>1, <1>6 DEF RunTyped
  <2>3. CallsTyped'
    BY <1>2, <1>8 DEF CallsTyped
  <2>4. PastKept'
    <3>1. minted' \in 0..MaxIds
      BY <1>2, CapsuleBounds DEF CapsuleInv, CapsuleTypeOK, Identifier
    <3>2. QED
      BY <3>1, <1>2, CapsuleTypeParts DEF CapsuleInv, PastKept
  <2>5. BoundsTyped'
    BY CapsuleTypeParts DEF CapsuleInv, BoundsTyped
  <2>6. QED
    BY <2>1, <2>2, <2>3, <2>4, <2>5, CapsuleTypeNext
<1>11. PointersKept'
  BY <1>3, <1>5, <1>6 DEF CapsuleInv, PointersKept, Ordered
<1>12. PersistKept'
  <2>1. Named' = CapsuleId
    BY <1>5, <1>6 DEF Named
  <2>2. Older(manifest["current"])'
    BY <1>2, <1>3, <1>5, <1>6, <2>1, HomesHold, PointerTyped DEF Older
  <2>3. index' # Absent => index'.generation < writing'.pointer.generation
    BY <1>2, <1>3, <1>5, <1>6, HomesHold, PointerTyped
  <2>4. NewerKept'
    BY <1>1, <1>2, <1>5, <1>6, <1>7, <2>3 DEF NewerKept
  <2>5. PlacedKept'
    BY <1>1, <2>2 DEF PlacedKept
  <2>6. QED
    BY <2>4, <2>5 DEF PersistKept
<1>13. PromiseKept'
  <2> SUFFICES ASSUME promised > 0, torn = 0 PROVE PromiseKept'
    BY <1>2 DEF PromiseKept
  <2>1. HeadKept /\ manifest["current"] # Absent /\ Keeps(vault[Committed.id]["current"])
    BY DEF CapsuleInv, PromiseKept
  <2>2. Committed' = Committed
    BY DEF Committed
  <2>3. HeadKept' /\ Keeps(vault[Committed.id]["current"])'
    BY <2>1, <2>2 DEF HeadKept, Keeps
  <2>4. QED
    BY <2>1, <2>3 DEF PromiseKept
<1>14. SettledKept'
  BY DEF SettledKept
<1>15. QED
  BY <1>9, <1>10, <1>11, <1>12, <1>13, <1>14 DEF CapsuleInv

\* While a clear runs nothing is promised and no answer stands.
LEMMA Clearing ==
  ASSUME CapsuleInv, step \in ClearStep
  PROVE  promised = 0 /\ settled = Absent /\ step \notin PersistStep /\ chain # <<>>
<1>1. chain # <<>> /\ chain[1].kind = "clear"
  BY DEF CapsuleInv, CallsKept, ClearsKept, RunsFirst
<1>2. 1 \in 1..Len(chain)
  BY <1>1 DEF CapsuleInv, CapsuleTypeOK
<1>3. promised = 0
  BY <1>1, <1>2 DEF CapsuleInv, CallsKept, ClearsKept, RunsFirst
<1>4. settled = Absent /\ step \notin PersistStep
  BY DEF CapsuleInv, SettledKept, ClearStep, PersistStep
<1>5. QED
  BY <1>1, <1>3, <1>4

LEMMA ClearKeeps ==
  ASSUME CapsuleInv, StartClear \/ RemoveCapsule \/ RemoveProfiles \/ RemoveManifest
  PROVE  CapsuleInv'
<1> USE DEF homes, calls, capsuleBounds
<1>1. CASE StartClear
  <2> USE <1>1 DEF StartClear
  <2>1. step' = "capsules" /\ step' \in ClearStep /\ step' \notin PersistStep /\ step' \notin Preparing
    BY DEF ClearStep, PersistStep, Preparing
  <2>2. CallsKept'
    BY <2>1 DEF CapsuleInv, CallsKept, ClearsKept, RunsFirst, Running
  <2>3. PointersKept' /\ PersistKept' /\ SettledKept'
    BY <2>1 DEF CapsuleInv, PointersKept, Ordered, PersistKept, SettledKept
  <2>4. PromiseKept'
    BY <2>1 DEF CapsuleInv, PromiseKept, HeadKept, Keeps, Committed, ClearStep
  <2>5. CapsuleTypeOK'
    BY <2>1 DEF CapsuleInv, CapsuleTypeOK
  <2>6. QED
    BY <2>2, <2>3, <2>4, <2>5 DEF CapsuleInv
<1>2. CASE RemoveCapsule \/ RemoveProfiles \/ RemoveManifest
  <2>1. /\ step \in ClearStep /\ step' \in ClearStep
        /\ UNCHANGED <<device, minted, calls, writing, promised, settled, capsuleBounds, index, torn>>
    BY <1>2 DEF RemoveCapsule, RemoveProfiles, RemoveManifest, InVault, InManifest, Advance, ClearStep
  <2>2. promised = 0 /\ settled = Absent /\ HomesTyped
    BY <2>1, Clearing, CapsuleTypeParts DEF CapsuleInv
  <2>3. HomesTyped' /\ \A s \in {"current", "previous", "next"} : manifest'[s] \in {manifest[s], Absent}
    <3>1. CASE RemoveCapsule
      <4>1. UNCHANGED <<manifest, profile, index>>
        BY <3>1 DEF RemoveCapsule, InVault
      <4>2. \/ vault' = vault
            \/ \E i \in Identifier, s \in {"current", "previous", "next"} :
                 vault' = [vault EXCEPT ![i][s] = Absent]
        BY <3>1 DEF RemoveCapsule, InVault
      <4>3. vault' \in [Identifier -> [{"current", "previous", "next"} -> Capsule \union {Absent}]]
        <5>1. CASE vault' = vault
          BY <2>2, <5>1 DEF HomesTyped
        <5>2. ASSUME NEW i \in Identifier, NEW s \in {"current", "previous", "next"},
                     vault' = [vault EXCEPT ![i][s] = Absent]
              PROVE  vault' \in [Identifier -> [{"current", "previous", "next"} -> Capsule \union {Absent}]]
          <6>1. [vault[i] EXCEPT ![s] = Absent]
                  \in [{"current", "previous", "next"} -> Capsule \union {Absent}]
            BY <2>2 DEF HomesTyped
          <6>2. QED
            BY <2>2, <5>2, <6>1 DEF HomesTyped
        <5>3. QED
          BY <4>2, <5>1, <5>2
      <4>4. QED
        BY <2>2, <4>1, <4>3 DEF HomesTyped
    <3>2. CASE RemoveProfiles
      BY <2>2, <3>2 DEF RemoveProfiles, HomesTyped
    <3>3. CASE RemoveManifest
      BY <2>2, <3>3 DEF RemoveManifest, InManifest, HomesTyped
    <3>4. QED
      BY <1>2, <3>1, <3>2, <3>3
  <2>4. CallsKept'
    BY <2>1 DEF CapsuleInv, CallsKept, ClearsKept, RunsFirst, ClearStep, PersistStep
  <2>5. PointersKept'
    BY <2>1, <2>3 DEF CapsuleInv, PointersKept, Ordered
  <2>6. PersistKept' /\ PromiseKept' /\ SettledKept'
    BY <2>1, <2>2 DEF PersistKept, PromiseKept, SettledKept, ClearStep, PersistStep
  <2>7. CapsuleTypeOK'
    <3>1. RunTyped' /\ CallsTyped' /\ PastKept' /\ BoundsTyped'
      BY <2>1, CapsuleTypeParts DEF CapsuleInv, RunTyped, CallsTyped, PastKept, BoundsTyped
    <3>2. QED
      BY <2>3, <3>1, CapsuleTypeNext
  <2>8. QED
    BY <2>4, <2>5, <2>6, <2>7 DEF CapsuleInv
<1>3. QED
  BY <1>1, <1>2

LEMMA RemoveEntryKeeps == ASSUME CapsuleInv, RemoveEntry PROVE CapsuleInv'
<1> USE DEF RemoveEntry, capsuleBounds
<1>1. step \in ClearStep /\ step' = "idle" /\ step' \notin PersistStep
  BY DEF ClearStep, PersistStep, Leave
<1>2. promised = 0 /\ settled = Absent /\ chain # <<>> /\ device.change \in Nat
  BY <1>1, Clearing DEF CapsuleInv, CapsuleTypeOK, State
<1>3. CallsTyped' /\ CallsKept'
  BY <1>2, LeaveCalls
<1>4. CapsuleTypeOK'
  <2>1. HomesTyped' /\ RunTyped' /\ PastKept' /\ BoundsTyped'
    BY CapsuleTypeParts DEF CapsuleInv, HomesTyped, RunTyped, PastKept, BoundsTyped, Leave
  <2>2. QED
    BY <1>3, <2>1, CapsuleTypeNext
<1>5. PointersKept' /\ PersistKept' /\ PromiseKept' /\ SettledKept'
  BY <1>1, <1>2 DEF CapsuleInv, PointersKept, Ordered, PersistKept, PromiseKept, SettledKept, Leave
<1>6. QED
  BY <1>3, <1>4, <1>5 DEF CapsuleInv

(***************************************************************************)
(* Faults.                                                                 *)
(***************************************************************************)
\* An operation that stops leaves what it has written where it is.
LEMMA FaultKeeps ==
  ASSUME CapsuleInv, UNCHANGED <<device, homes, minted, torn, promised, settled>>,
         step' = "idle", writing' = Absent, CallsTyped', CallsKept', BoundsTyped'
  PROVE  CapsuleInv'
<1> USE DEF homes
<1>1. step' \notin PersistStep /\ step' \notin Preparing
  BY DEF PersistStep, Preparing
<1>2. CapsuleTypeOK'
  <2>1. HomesTyped' /\ RunTyped' /\ PastKept'
    BY CapsuleTypeParts DEF CapsuleInv, HomesTyped, RunTyped, PastKept
  <2>2. QED
    BY <2>1, CapsuleTypeNext
<1>3. PointersKept' /\ PersistKept' /\ SettledKept'
  BY <1>1 DEF CapsuleInv, PointersKept, Ordered, PersistKept, SettledKept, HeadKept, Committed
<1>4. PromiseKept'
  BY <1>1 DEF CapsuleInv, PromiseKept, HeadKept, Keeps, Committed
<1>5. QED
  BY <1>2, <1>3, <1>4 DEF CapsuleInv

LEMMA FailKeeps == ASSUME CapsuleInv, Fail PROVE CapsuleInv'
<1> USE DEF Fail
<1>1. chain # <<>>
  BY DEF CapsuleInv, CapsuleTypeOK, CallsKept, ClearsKept, RunsFirst
<1>2. promised \in 0..device.change
  BY CapsuleBounds DEF CapsuleInv, CapsuleTypeOK, CallsKept, ClearsKept, RunsFirst, State
<1>3. CallsTyped' /\ CallsKept'
  BY <1>1, <1>2, LeaveCalls
<1>4. BoundsTyped'
  BY CapsuleBounds, CapsuleTypeParts DEF CapsuleInv, BoundsTyped
<1>5. QED
  BY <1>3, <1>4, FaultKeeps DEF Leave

LEMMA KillKeeps == ASSUME CapsuleInv, Kill PROVE CapsuleInv'
<1> USE DEF Kill
<1>1. CallsTyped' /\ CallsKept'
  BY DEF CallsTyped, CapsuleInv, CallsKept, ClearsKept, RunsFirst, PersistStep, ClearStep
<1>2. BoundsTyped'
  BY CapsuleBounds, CapsuleTypeParts DEF CapsuleInv, BoundsTyped
<1>3. QED
  BY <1>1, <1>2, FaultKeeps

\* The profile is a second home: what was promised is in the vault.
LEMMA EvictProfileKeeps == ASSUME CapsuleInv, EvictProfile PROVE CapsuleInv'
<1> USE DEF EvictProfile, calls
<1>1. profile' \in [Identifier -> [{"current", "previous"} -> {Absent}]]
  BY DEF NoCapsules
<1>2. CapsuleTypeOK'
  <2>1. HomesTyped'
    BY <1>1, CapsuleTypeParts DEF CapsuleInv, HomesTyped
  <2>0. RunTyped /\ CallsTyped /\ PastKept /\ BoundsTyped
    BY CapsuleTypeParts DEF CapsuleInv
  <2>2. RunTyped' /\ CallsTyped' /\ PastKept'
    BY <2>0 DEF RunTyped, CallsTyped, PastKept
  <2>3. BoundsTyped'
    BY <2>0, CapsuleBounds DEF BoundsTyped
  <2>4. QED
    BY <2>1, <2>2, <2>3, CapsuleTypeNext
<1>3. CallsKept' /\ PointersKept' /\ PromiseKept'
  BY DEF CapsuleInv, CallsKept, ClearsKept, RunsFirst, PointersKept, Ordered, PromiseKept, HeadKept, Keeps, Committed
<1>4. PersistKept'
  <2> SUFFICES ASSUME step \in PersistStep PROVE PersistKept'
    BY DEF PersistKept
  <2>1. Named \in Identifier /\ NewerKept /\ PlacedKept /\ Named' = Named
    BY Persisting DEF CapsuleInv, PersistKept, Named
  <2>2. profile'[Named]["current"] = Absent
    BY <1>1, <2>1
  <2>3. NewerKept'
    BY <2>1 DEF NewerKept
  <2>4. PlacedKept'
    BY <2>1, <2>2 DEF PlacedKept, Older
  <2>5. QED
    BY <2>3, <2>4 DEF PersistKept
<1>5. SettledKept'
  <2> SUFFICES ASSUME settled # Absent PROVE SettledKept'
    BY DEF SettledKept
  <2>1. Committed' = Committed /\ HeadKept /\ HomesTyped
    BY CapsuleTypeParts DEF CapsuleInv, SettledKept, Committed
  <2>2. Committed.id \in Identifier
    BY <2>1, HomesHold, PointerTyped DEF HeadKept
  <2>3. profile'[Committed.id]["current"] = Absent /\ profile'[Committed.id]["previous"] = Absent
    BY <1>1, <2>2
  <2>4. HeadKept'
    BY <2>1 DEF HeadKept
  <2>5. QED
    BY <2>1, <2>3, <2>4 DEF CapsuleInv, SettledKept
<1>6. QED
  BY <1>2, <1>3, <1>4, <1>5 DEF CapsuleInv

LEMMA NextCapsule == CapsuleInv /\ [CapsuleNext]_capsuleVars => CapsuleInv'
<1> SUFFICES ASSUME CapsuleInv, [CapsuleNext]_capsuleVars PROVE CapsuleInv'
  OBVIOUS
<1>1. CASE ChangeAndPersist
  <2> USE <1>1 DEF ChangeAndPersist, capsuleBounds
  <2>1. device \in State /\ device.change \in 0..MaxChange
    BY DEF CapsuleInv, CapsuleTypeOK, State
  <2>2. PICK pinOnly \in BOOLEAN : device' = [change |-> device.change + 1, pinOnly |-> pinOnly]
    OBVIOUS
  <2>3. device' \in State /\ device.change <= device'.change
    BY <2>1, <2>2, CapsuleBounds DEF State
  <2>4. BoundsTyped'
    BY CapsuleTypeParts DEF CapsuleInv, BoundsTyped
  <2>5. QED
    BY <2>3, <2>4, CallerKeeps
<1>2. CASE PersistAgain
  <2> USE <1>2 DEF PersistAgain
  <2>1. device' = device /\ device \in State /\ device.change <= device'.change
    BY CapsuleBounds DEF CapsuleInv, CapsuleTypeOK, State
  <2>2. BoundsTyped'
    BY CapsuleBounds, CapsuleTypeParts DEF CapsuleInv, BoundsTyped
  <2>3. QED
    BY <2>1, <2>2, CallerKeeps
<1>3. CASE CallClear
  BY <1>3, CallClearKeeps
<1>4. CASE PersistSteps
  BY <1>4, StartPersistKeeps, WriteNextKeeps, DropPreviousKeeps, RotateCapsuleKeeps,
     PromoteCapsuleKeeps, SaveProfileKeeps, WriteManifestNextKeeps, DropManifestPreviousKeeps,
     RotateManifestKeeps, PromoteManifestKeeps, PurgePreviousKeeps, PurgeManifestKeeps,
     SaveIndexKeeps DEF PersistSteps
<1>5. CASE ClearSteps
  BY <1>5, ClearKeeps, RemoveEntryKeeps DEF ClearSteps
<1>6. CASE Fail \/ Kill \/ EvictProfile
  BY <1>6, FailKeeps, KillKeeps, EvictProfileKeeps
<1>7. CASE UNCHANGED capsuleVars
  <2> USE <1>7 DEF capsuleVars, homes, calls, capsuleBounds
  <2>1. CapsuleTypeOK' /\ CallsKept' /\ PointersKept'
    BY DEF CapsuleInv, CapsuleTypeOK, CallsKept, ClearsKept, RunsFirst, PointersKept, Ordered
  <2>2. PersistKept'
    BY DEF CapsuleInv, PersistKept, NewerKept, PlacedKept, Older, Named
  <2>3. PromiseKept' /\ SettledKept'
    BY DEF CapsuleInv, PromiseKept, SettledKept, HeadKept, Keeps, Committed
  <2>4. QED
    BY <2>1, <2>2, <2>3 DEF CapsuleInv
<1>8. QED
  BY <1>1, <1>2, <1>3, <1>4, <1>5, <1>6, <1>7 DEF CapsuleNext

(***************************************************************************)
(* What a restart restores.                                                *)
(***************************************************************************)
LEMMA JoinBounded ==
  ASSUME NEW one \in Seq(Capsule), NEW two \in Seq(Capsule), NEW bound \in Nat,
         \A i \in 1..Len(one) : one[i].generation <= bound,
         \A i \in 1..Len(two) : two[i].generation <= bound
  PROVE  /\ one \o two \in Seq(Capsule)
         /\ \A i \in 1..Len(one \o two) : (one \o two)[i].generation <= bound
<1>1. /\ one \o two \in Seq(Capsule) /\ Len(one \o two) = Len(one) + Len(two)
      /\ Len(one) \in Nat /\ Len(two) \in Nat
  OBVIOUS
<1>2. \A i \in 1..Len(one \o two) :
        (one \o two)[i] = IF i <= Len(one) THEN one[i] ELSE two[i - Len(one)]
  BY <1>1
<1>3. ASSUME NEW i \in 1..Len(one \o two)
      PROVE  (one \o two)[i].generation <= bound
  <2>1. CASE i <= Len(one)
    BY <1>1, <1>2, <2>1
  <2>2. CASE i > Len(one)
    <3>1. i - Len(one) \in 1..Len(two)
      BY <1>1, <2>2
    <3>2. QED
      BY <1>1, <1>2, <2>2, <3>1
  <2>3. QED
    BY <1>1, <2>1, <2>2
<1>4. QED
  BY <1>1, <1>3

\* A pointer accepts no generation newer than its own.
LEMMA NamedBounded ==
  ASSUME NEW home, NEW pointer, NEW bound \in Nat,
         pointer # Absent =>
           /\ pointer \in Pointer /\ pointer.previous < pointer.generation
           /\ pointer.generation <= bound
           /\ \A s \in {"current", "previous"} : home[pointer.id][s] \in Capsule \union {Absent}
  PROVE  /\ NamedIn(home, pointer) \in Seq(Capsule)
         /\ \A i \in 1..Len(NamedIn(home, pointer)) : NamedIn(home, pointer)[i].generation <= bound
<1>1. CASE pointer = Absent
  BY <1>1 DEF NamedIn
<1>2. CASE pointer # Absent
  <2> DEFINE one == Usable(pointer, home[pointer.id]["current"])
             two == Usable(pointer, home[pointer.id]["previous"])
  <2>1. \A c \in Capsule \union {Absent} :
          /\ Usable(pointer, c) \in Seq(Capsule)
          /\ \A i \in 1..Len(Usable(pointer, c)) : Usable(pointer, c)[i].generation <= bound
    <3> SUFFICES ASSUME NEW c \in Capsule \union {Absent}
                 PROVE  /\ Usable(pointer, c) \in Seq(Capsule)
                        /\ \A i \in 1..Len(Usable(pointer, c)) :
                             Usable(pointer, c)[i].generation <= bound
      OBVIOUS
    <3>1. CASE Acceptable(pointer, c)
      <4>1. c \in Capsule /\ c.generation <= bound
        BY <1>2, <3>1, CapsuleTyped, PointerTyped DEF Acceptable
      <4>2. Usable(pointer, c) = <<c>>
        BY <3>1 DEF Usable
      <4>3. QED
        BY <4>1, <4>2
    <3>2. CASE ~Acceptable(pointer, c)
      BY <3>2 DEF Usable
    <3>3. QED
      BY <3>1, <3>2
  <2>2. /\ one \in Seq(Capsule) /\ two \in Seq(Capsule)
        /\ \A i \in 1..Len(one) : one[i].generation <= bound
        /\ \A i \in 1..Len(two) : two[i].generation <= bound
    BY <1>2, <2>1
  <2>3. NamedIn(home, pointer) = one \o two
    BY <1>2 DEF NamedIn
  <2> HIDE DEF one, two
  <2>4. QED
    BY <2>2, <2>3, JoinBounded
<1>3. QED
  BY <1>1, <1>2

\* What a restart may choose from: nothing newer than the bound.
LEMMA CandidatesBounded ==
  ASSUME HomesTyped, PointersKept, NEW bound \in Nat,
         \A s \in {"current", "previous"} : manifest[s] # Absent => manifest[s].generation <= bound,
         index # Absent => index.generation <= bound
  PROVE  /\ Candidates \in Seq(Capsule)
         /\ \A i \in 1..Len(Candidates) : Candidates[i].generation <= bound
         /\ NamedIn(vault, manifest["current"]) \in Seq(Capsule)
         /\ NamedIn(vault, manifest["previous"]) \in Seq(Capsule)
         /\ NamedIn(profile, index) \in Seq(Capsule)
<1> DEFINE one == NamedIn(vault, manifest["current"])
           two == NamedIn(vault, manifest["previous"])
           three == NamedIn(profile, index)
<1>1. \A s \in {"current", "previous"} : manifest[s] # Absent =>
        /\ manifest[s] \in Pointer /\ manifest[s].previous < manifest[s].generation
        /\ manifest[s].id \in Identifier
  BY HomesHold, PointerTyped DEF PointersKept, Ordered
<1>2. index # Absent =>
        index \in Pointer /\ index.previous < index.generation /\ index.id \in Identifier
  BY HomesHold, PointerTyped DEF PointersKept, Ordered
<1>3. /\ one \in Seq(Capsule) /\ two \in Seq(Capsule)
      /\ \A i \in 1..Len(one) : one[i].generation <= bound
      /\ \A i \in 1..Len(two) : two[i].generation <= bound
  <2>1. \A s \in {"current", "previous"} : manifest[s] # Absent =>
          \A t \in {"current", "previous"} : vault[manifest[s].id][t] \in Capsule \union {Absent}
    BY <1>1 DEF HomesTyped
  <2>2. /\ one \in Seq(Capsule)
        /\ \A i \in 1..Len(one) : one[i].generation <= bound
    BY <1>1, <2>1, NamedBounded
  <2>3. /\ two \in Seq(Capsule)
        /\ \A i \in 1..Len(two) : two[i].generation <= bound
    BY <1>1, <2>1, NamedBounded
  <2>4. QED
    BY <2>2, <2>3
<1>4. three \in Seq(Capsule) /\ \A i \in 1..Len(three) : three[i].generation <= bound
  <2>1. index # Absent =>
          \A t \in {"current", "previous"} : profile[index.id][t] \in Capsule \union {Absent}
    BY <1>2 DEF HomesTyped
  <2>2. QED
    BY <1>2, <2>1, NamedBounded
<1>5. Candidates = (one \o two) \o three
  BY DEF Candidates
<1> HIDE DEF one, two, three
<1>6. one \o two \in Seq(Capsule) /\ \A i \in 1..Len(one \o two) : (one \o two)[i].generation <= bound
  BY <1>3, JoinBounded
<1>7. Candidates \in Seq(Capsule) /\ \A i \in 1..Len(Candidates) : Candidates[i].generation <= bound
  BY <1>4, <1>5, <1>6, JoinBounded
<1>8. QED
  BY <1>3, <1>4, <1>7 DEF one, two, three

\* The first candidate is restored when no other is newer.
LEMMA FirstIsRestored ==
  ASSUME Candidates \in Seq(Capsule), Candidates # <<>>,
         \A i \in 1..Len(Candidates) : Candidates[i].generation <= Candidates[1].generation
  PROVE  Restorable /\ Restored = Candidates[1].state
<1> DEFINE candidates == Candidates
           chosen == CHOOSE i \in DOMAIN candidates : Best(candidates, i)
<1>1. /\ Len(candidates) \in Nat /\ 1 \in 1..Len(candidates) /\ DOMAIN candidates = 1..Len(candidates)
      /\ \A i \in 1..Len(candidates) : candidates[i].generation \in Nat
  <2>1. Len(candidates) \in Nat /\ DOMAIN candidates = 1..Len(candidates) /\ 1 \in 1..Len(candidates)
    OBVIOUS
  <2>2. \A i \in 1..Len(candidates) : candidates[i] \in Capsule
    OBVIOUS
  <2>3. QED
    BY <2>1, <2>2, CapsuleTyped
<1>2. Best(candidates, 1)
  BY <1>1 DEF Best
<1>3. chosen \in DOMAIN candidates /\ Best(candidates, chosen)
  BY <1>1, <1>2
<1>4. chosen = 1
  <2> HIDE DEF chosen
  <2>1. candidates[chosen].generation <= candidates[1].generation /\ chosen \in 1..Len(candidates)
    BY <1>1, <1>3
  <2>2. \/ candidates[1].generation < candidates[chosen].generation
        \/ candidates[1].generation = candidates[chosen].generation /\ chosen <= 1
    BY <1>1, <1>3 DEF Best
  <2>3. QED
    BY <1>1, <2>1, <2>2
<1>5. Restored = candidates[chosen].state
  BY DEF Restored
<1>6. QED
  BY <1>4, <1>5 DEF Restorable

\* What the committed pointer names first in the vault is restored.
LEMMA CommittedIsRestored ==
  ASSUME HomesTyped, PointersKept, HeadKept, NEW c \in Capsule,
         c.generation = Committed.generation,
         \/ vault[Committed.id]["current"] = c
         \/ /\ vault[Committed.id]["previous"] = c
            /\ vault[Committed.id]["current"] # Absent =>
                 vault[Committed.id]["current"].generation > Committed.generation
  PROVE  Restorable /\ Restored = c.state
<1> DEFINE one == NamedIn(vault, manifest["current"])
           two == NamedIn(vault, manifest["previous"])
           three == NamedIn(profile, index)
           named == NamedIn(vault, Committed)
<1>1. /\ Committed \in Pointer /\ Committed # Absent /\ Committed.generation \in Nat
      /\ Committed.id \in Identifier /\ Committed.previous < Committed.generation
      /\ Committed.previous \in Nat
  BY HomesHold, PointerTyped DEF HeadKept, PointersKept, Ordered, Committed
<1>2. /\ \A s \in {"current", "previous"} :
           manifest[s] # Absent => manifest[s].generation <= Committed.generation
      /\ index # Absent => index.generation <= Committed.generation
  BY HomesHold, PointerTyped DEF HeadKept, Committed
<1>3. /\ Candidates \in Seq(Capsule)
      /\ \A i \in 1..Len(Candidates) : Candidates[i].generation <= Committed.generation
      /\ one \in Seq(Capsule) /\ two \in Seq(Capsule) /\ three \in Seq(Capsule)
  BY <1>1, <1>2, CandidatesBounded
<1>4. named # <<>> /\ named[1] = c /\ named \in Seq(Capsule)
  <2> DEFINE first == Usable(Committed, vault[Committed.id]["current"])
             second == Usable(Committed, vault[Committed.id]["previous"])
  <2>1. named = first \o second
    BY <1>1 DEF NamedIn
  <2>2. Acceptable(Committed, c) /\ Usable(Committed, c) = <<c>>
    BY CapsuleTyped DEF Acceptable, Usable
  <2>3. \A d \in Capsule \union {Absent} : Usable(Committed, d) \in Seq(Capsule)
    BY DEF Usable, Acceptable
  <2>4. /\ vault[Committed.id]["current"] \in Capsule \union {Absent}
        /\ vault[Committed.id]["previous"] \in Capsule \union {Absent}
    BY <1>1 DEF HomesTyped
  <2>5. CASE vault[Committed.id]["current"] = c
    <3>1. first = <<c>> /\ second \in Seq(Capsule)
      BY <2>2, <2>3, <2>4, <2>5
    <3> HIDE DEF first, second
    <3>2. QED
      BY <2>1, <3>1
  <2>6. CASE /\ vault[Committed.id]["previous"] = c
             /\ vault[Committed.id]["current"] # Absent =>
                  vault[Committed.id]["current"].generation > Committed.generation
    <3>1. ~Acceptable(Committed, vault[Committed.id]["current"])
      BY <1>1, <2>4, <2>6, CapsuleTyped DEF Acceptable
    <3>2. first = <<>> /\ second = <<c>>
      BY <2>2, <2>6, <3>1 DEF Usable
    <3> HIDE DEF first, second
    <3>3. QED
      BY <2>1, <3>2
  <2>7. QED
    BY <2>5, <2>6
<1>5. Candidates = (one \o two) \o three
  BY DEF Candidates
<1>6. \/ one = named
      \/ one = <<>> /\ two = named
  BY DEF Committed, NamedIn
<1> HIDE DEF one, two, three, named
<1>7. Candidates # <<>> /\ Candidates[1] = c
  <2>1. one \o two # <<>> /\ (one \o two)[1] = c /\ one \o two \in Seq(Capsule)
    <3>1. CASE one = named
      BY <1>3, <1>4, <3>1
    <3>2. CASE one = <<>> /\ two = named
      BY <1>3, <1>4, <3>2
    <3>3. QED
      BY <1>6, <3>1, <3>2
  <2> DEFINE both == one \o two
  <2> HIDE DEF both
  <2>2. both # <<>> /\ both[1] = c /\ both \in Seq(Capsule) /\ Candidates = both \o three
    BY <1>5, <2>1 DEF both
  <2>3. QED
    BY <1>3, <2>2
<1>8. \A i \in 1..Len(Candidates) : Candidates[i].generation <= Candidates[1].generation
  BY <1>3, <1>7
<1>9. QED
  BY <1>3, <1>7, <1>8, FirstIsRestored

LEMMA CapsuleInvHolds == CapsuleSpec => []CapsuleInv
<1>1. QED
  BY InitCapsule, NextCapsule, PTL DEF CapsuleSpec

\* Every variable of the capsule keeps its type: a persist that others join has a place
\* in the chain (local-recovery-capsule.ts and main.ts: queueLocalRecoveryCapsulePersist).
THEOREM CapsuleTypesHold == CapsuleSpec => []CapsuleTypeOK
<1>1. CapsuleInv => CapsuleTypeOK
  BY DEF CapsuleInv
<1>2. QED
  BY <1>1, CapsuleInvHolds, PTL

\* For any number of persists, clears, crashes, errors and evictions: while at most
\* one persist was torn since the last commit, a restart restores what the callers
\* were told is kept, or something newer.
THEOREM AnsweredHolds == CapsuleSpec => []AnsweredIsRestored
<1>1. CapsuleInv => AnsweredIsRestored
  <2> SUFFICES ASSUME CapsuleInv, promised > 0, torn <= 1
               PROVE  Restorable /\ Restored.change >= promised
    BY DEF AnsweredIsRestored
  <2>1. HomesTyped /\ PointersKept /\ HeadKept /\ promised \in Nat
    BY CapsuleBounds, CapsuleTypeParts DEF CapsuleInv, PromiseKept, PastKept
  <2>2. Committed.id \in Identifier
    BY <2>1, HomesHold, PointerTyped DEF HeadKept
  <2>3. \A s \in {"current", "previous", "next"} :
          Keeps(vault[Committed.id][s]) =>
            /\ vault[Committed.id][s] \in Capsule
            /\ vault[Committed.id][s].generation = Committed.generation
            /\ vault[Committed.id][s].state.change >= promised
    BY <2>1, <2>2, HomesHold, CapsuleTyped DEF Keeps
  <2>4. CASE Keeps(vault[Committed.id]["current"])
    BY <2>1, <2>3, <2>4, CommittedIsRestored
  <2>5. CASE /\ Keeps(vault[Committed.id]["previous"])
             /\ vault[Committed.id]["current"] # Absent =>
                  vault[Committed.id]["current"].generation > Committed.generation
    BY <2>1, <2>3, <2>5, CommittedIsRestored
  <2>6. QED
    BY <2>4, <2>5 DEF CapsuleInv, PromiseKept
<1>2. QED
  BY <1>1, CapsuleInvHolds, PTL

\* After an answer TRUE a restart restores exactly what was captured, and a
\* PIN-only capsule leaves no other beside it.
THEOREM SettledHolds == CapsuleSpec => []SettledIsAll
<1>1. CapsuleInv => SettledIsAll
  <2> SUFFICES ASSUME CapsuleInv, settled # Absent
               PROVE  /\ Restorable /\ Restored = settled
                      /\ settled.pinOnly =>
                           \A home \in {vault[manifest["current"].id], profile[manifest["current"].id]} :
                             \A s \in DOMAIN home : home[s] # Absent => home[s].state.pinOnly
    BY DEF SettledIsAll
  <2> DEFINE c == [generation |-> Committed.generation, state |-> settled]
  <2>1. /\ HomesTyped /\ PointersKept /\ HeadKept /\ Committed = manifest["current"]
        /\ vault[Committed.id]["current"] = c
    BY CapsuleTypeParts DEF CapsuleInv, SettledKept, Committed
  <2>2. Committed.id \in Identifier
    BY <2>1, HomesHold, PointerTyped DEF HeadKept
  <2>3. c.generation = Committed.generation /\ c.state = settled
    OBVIOUS
  <2>4. c # Absent /\ c \in Capsule
    <3>1. settled \in State /\ Committed.generation \in Generation
      BY <2>1, HomesHold DEF CapsuleInv, CapsuleTypeOK, HeadKept, Pointer
    <3>2. c \in Capsule
      BY <3>1 DEF Capsule
    <3>3. QED
      BY <3>2, CapsuleTyped
  <2> HIDE DEF c
  <2>5. Restorable /\ Restored = settled
    BY <2>1, <2>3, <2>4, CommittedIsRestored
  <2>6. ASSUME settled.pinOnly
        PROVE  /\ vault[Committed.id]["previous"] = Absent /\ vault[Committed.id]["next"] = Absent
               /\ profile[Committed.id]["previous"] = Absent
               /\ profile[Committed.id]["current"] # Absent =>
                    profile[Committed.id]["current"].state.pinOnly
    BY <2>6 DEF CapsuleInv, SettledKept
  <2>7. /\ DOMAIN vault[Committed.id] = {"current", "previous", "next"}
        /\ DOMAIN profile[Committed.id] = {"current", "previous"}
    BY <2>1, <2>2 DEF HomesTyped
  <2>8. ASSUME settled.pinOnly
        PROVE  /\ \A s \in DOMAIN vault[Committed.id] :
                    vault[Committed.id][s] # Absent => vault[Committed.id][s].state.pinOnly
               /\ \A s \in DOMAIN profile[Committed.id] :
                    profile[Committed.id][s] # Absent => profile[Committed.id][s].state.pinOnly
    BY <2>1, <2>3, <2>6, <2>7, <2>8
  <2>9. QED
    BY <2>1, <2>5, <2>8
<1>2. QED
  BY <1>1, CapsuleInvHolds, PTL
===============================================================================
