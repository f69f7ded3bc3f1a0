-------------------------- MODULE TimerListProofs --------------------------
(***************************************************************************)
(* For every size of the pool and value of the other constants: the pool   *)
(* of linked nodes implements the sequence of events, no node leaks, and   *)
(* VI and COMPARE keep the first two nodes.                                *)
(***************************************************************************)
EXTENDS TimerList, SequenceTheorems, FiniteSetTheorems, TLAPS

\* The proofs about the abstract list, for their lemmas on sequences
Lemmas == INSTANCE TimerEventsProofs WITH
    timer <- [events |-> Events(list), current |-> current,
              leap |-> leap, countdown |-> countdown]

\* What those proofs assume of the constants holds here.
LEMMA LemmasApply ==
    /\ Tasks \subseteq Lemmas!TaskTypes /\ Delay \in [Tasks -> Nat]
    /\ FramePeriods \subseteq Nat \ {0} /\ FramePeriods # {}
    /\ CF \in Nat \ {0} /\ VCF \in Nat \ {0}
    /\ Wrap \in Nat \ {0} /\ Far \in Nat \ {0}
    /\ Values \subseteq 0 .. Wrap - 1
    /\ Jitter \subseteq Nat /\ Slack \subseteq Nat
    /\ Costs \subseteq Nat \ {0} /\ MaxTime \in Nat
BY EventsAssumption DEF Abstract!TaskTypes, Lemmas!TaskTypes

LEMMA MinOfSet ==
    ASSUME NEW n \in Nat, NEW I \in SUBSET (1 .. n), I # {}
    PROVE  Min(I) \in I /\ \A i \in I : Min(I) <= i
<1>1. Lemmas!Min(I) \in I /\ \A i \in I : Lemmas!Min(I) <= i
  BY Lemmas!MinOfInterval, LemmasApply
<1>2. QED
  BY <1>1 DEF Min, Lemmas!Min

LEMMA RemoveAtSeq ==
    ASSUME NEW S, NEW q \in Seq(S), NEW i \in 1 .. Len(q)
    PROVE  /\ RemoveAt(q, i) \in Seq(S)
           /\ Len(RemoveAt(q, i)) = Len(q) - 1
           /\ \A j \in 1 .. Len(q) - 1 :
                RemoveAt(q, i)[j] = IF j < i THEN q[j] ELSE q[j + 1]
<1>1. Lemmas!RemoveAt(q, i) = RemoveAt(q, i)
  BY DEF Lemmas!RemoveAt, RemoveAt
<1>2. /\ Lemmas!RemoveAt(q, i) \in Seq(S)
      /\ Len(Lemmas!RemoveAt(q, i)) = Len(q) - 1
      /\ \A j \in 1 .. Len(q) - 1 :
           Lemmas!RemoveAt(q, i)[j] = IF j < i THEN q[j] ELSE q[j + 1]
  BY Lemmas!RemoveAtElements, LemmasApply
<1>3. QED
  BY <1>1, <1>2

LEMMA InsertAtSeq ==
    ASSUME NEW S, NEW q \in Seq(S), NEW i \in 1 .. Len(q) + 1, NEW e \in S
    PROVE  /\ InsertAt(q, i, e) \in Seq(S)
           /\ Len(InsertAt(q, i, e)) = Len(q) + 1
           /\ \A j \in 1 .. Len(q) + 1 :
                InsertAt(q, i, e)[j] = IF j < i THEN q[j]
                                       ELSE IF j = i THEN e ELSE q[j - 1]
<1>1. Lemmas!InsertAt(q, i, e) = InsertAt(q, i, e)
  BY DEF Lemmas!InsertAt, InsertAt
<1>2. /\ Lemmas!InsertAt(q, i, e) \in Seq(S)
      /\ Len(Lemmas!InsertAt(q, i, e)) = Len(q) + 1
      /\ \A j \in 1 .. Len(q) + 1 :
           Lemmas!InsertAt(q, i, e)[j] = IF j < i THEN q[j]
                                         ELSE IF j = i THEN e ELSE q[j - 1]
  BY Lemmas!InsertAtElements, LemmasApply
<1>3. QED
  BY <1>1, <1>2
----------------------------------------------------------------------------
(* Linked lists *)

ListType == [node : [Nodes -> Node], header : Nodes \cup {NULL}]

\* w is the sequence of the nodes the list links.
Links(l, w) ==
    /\ l \in ListType
    /\ w \in Seq(Nodes)
    /\ \A i, j \in 1 .. Len(w) : w[i] = w[j] => i = j
    /\ l.header = (IF Len(w) = 0 THEN NULL ELSE w[1])
    /\ \A i \in 1 .. Len(w) :
         /\ l.node[w[i]].next = (IF i = Len(w) THEN NULL ELSE w[i + 1])
         /\ l.node[w[i]].prev = (IF i = 1 THEN NULL ELSE w[i - 1])

Elements(w) == {w[i] : i \in 1 .. Len(w)}
InUse(l) == {n \in Nodes : l.node[n].inuse}

\* Exactly the linked nodes are in use, and each has a type of its own.
Distinct(l) == \A m, n \in InUse(l) : l.node[m].type = l.node[n].type => m = n
Chain(l, w) == Links(l, w) /\ InUse(l) = Elements(w) /\ Distinct(l)

LEMMA NodesFacts ==
    /\ NULL \notin Nodes /\ NULL \in Int /\ Nodes \subseteq Int
    /\ 0 \in Nodes /\ 1 \in Nodes /\ \A n \in Nodes : 0 <= n /\ n < PoolSize
    /\ IsFiniteSet(Nodes) /\ Cardinality(Nodes) = PoolSize
<1>1. PoolSize \in Nat /\ Cardinality(Tasks) \in Nat /\ PoolSize >= 2
  BY PoolAssumption, FS_CardinalityType
<1>2. IsFiniteSet(0 .. PoolSize - 1) /\ Cardinality(0 .. PoolSize - 1) = PoolSize
  BY <1>1, FS_Interval
<1>3. QED
  BY <1>1, <1>2 DEF Nodes, NULL

\* A sequence without repetition is no longer than the pool.
LEMMA NoLonger ==
    ASSUME NEW w \in Seq(Nodes), \A i, j \in 1 .. Len(w) : w[i] = w[j] => i = j
    PROVE  Len(w) \in Nat /\ Len(w) <= PoolSize
<1>1. Len(w) \in Nat /\ w \in [1 .. Len(w) -> Nodes]
  BY LenProperties
<1>2. IsFiniteSet(1 .. Len(w)) /\ Cardinality(1 .. Len(w)) = Len(w)
  BY <1>1, FS_Interval
<1>3. ASSUME PoolSize < Len(w) PROVE FALSE
  <2>1. \E i, j \in 1 .. Len(w) : i # j /\ w[i] = w[j]
    BY <1>1, <1>2, <1>3, NodesFacts, FS_PigeonHole
  <2>2. QED
    BY <2>1
<1>4. QED
  BY <1>1, <1>3, PoolAssumption

\* The walk visits the linked nodes in their order.
LEMMA WalkIs ==
    ASSUME NEW l, NEW w, Links(l, w)
    PROVE  Walk(l) = w
<1> DEFINE f0 == [k \in 1 .. PoolSize |-> IF k <= Len(w) THEN w[k] ELSE NULL]
           Step(f) == [k \in 1 .. PoolSize |->
                         IF k = 1 THEN l.header ELSE After(l, f[k - 1])]
           at == CHOOSE f : f = Step(f)
<1>1. /\ w \in Seq(Nodes) /\ Len(w) \in Nat /\ Len(w) <= PoolSize
      /\ PoolSize \in Nat
  BY NoLonger, PoolAssumption DEF Links
<1>2. \A i \in 1 .. Len(w) : w[i] \in Nodes /\ w[i] # NULL
  BY <1>1, NodesFacts
<1>3. f0 = Step(f0)
  <2>1. ASSUME NEW k \in 1 .. PoolSize
        PROVE  f0[k] = IF k = 1 THEN l.header ELSE After(l, f0[k - 1])
    <3>1. CASE k = 1
      BY <1>1, <3>1 DEF Links
    <3>2. CASE k > 1 /\ k - 1 <= Len(w)
      <4>1. f0[k - 1] = w[k - 1] /\ k - 1 \in 1 .. Len(w)
        BY <1>1, <3>2
      <4>2. After(l, f0[k - 1]) = IF k - 1 = Len(w) THEN NULL ELSE w[k]
        BY <1>2, <4>1, <3>2 DEF After, Links
      <4>3. QED
        BY <1>1, <3>2, <4>2
    <3>3. CASE k > 1 /\ k - 1 > Len(w)
      <4>1. f0[k - 1] = NULL /\ f0[k] = NULL
        BY <1>1, <3>3
      <4>2. QED
        BY <3>3, <4>1 DEF After
    <3>4. QED
      BY <1>1, <3>1, <3>2, <3>3
  <2>2. QED
    BY <2>1
<1>4. ASSUME NEW f, f = Step(f)
      PROVE  f = f0
  <2> DEFINE D == {k \in 1 .. PoolSize : f[k] # f0[k]}
  <2>1. CASE D = {}
    BY <1>3, <1>4, <2>1
  <2>2. CASE D # {}
    <3>1. PICK k \in D : \A j \in D : k <= j
      <4>1. D \in SUBSET (1 .. PoolSize)
        OBVIOUS
      <4> HIDE DEF D
      <4>2. Min(D) \in D /\ \A i \in D : Min(D) <= i
        BY <1>1, <2>2, <4>1, MinOfSet
      <4>3. QED
        BY <4>2
    <3>2. /\ f[k] = IF k = 1 THEN l.header ELSE After(l, f[k - 1])
          /\ f0[k] = IF k = 1 THEN l.header ELSE After(l, f0[k - 1])
      BY <1>3, <1>4
    <3>3. ASSUME k # 1 PROVE f[k - 1] = f0[k - 1]
      <4> HIDE DEF f0
      <4>1. k - 1 \in 1 .. PoolSize /\ ~ (k <= k - 1)
        BY <1>1, <3>1, <3>3
      <4>2. k - 1 \notin D
        BY <3>1, <4>1
      <4>3. QED
        BY <4>1, <4>2
    <3>4. f[k] = f0[k]
      <4> HIDE DEF f0
      <4>1. QED
        BY <3>2, <3>3
    <3>5. f[k] # f0[k]
      <4> HIDE DEF f0
      <4>1. k \in D
        BY <3>1
      <4>2. QED
        BY <4>1
    <3>6. QED
      BY <3>4, <3>5
  <2>3. QED
    BY <2>1, <2>2
<1>5. at = f0
  BY <1>3, <1>4
<1>6. Walk(l) = [k \in {j \in 1 .. PoolSize : at[j] # NULL} |-> at[k]]
  BY DEF Walk
<1> HIDE DEF at
<1>7. {j \in 1 .. PoolSize : f0[j] # NULL} = 1 .. Len(w)
  BY <1>1, <1>2
<1>8. Walk(l) = [k \in 1 .. Len(w) |-> w[k]]
  BY <1>1, <1>5, <1>6, <1>7
<1>9. QED
  BY <1>1, <1>8, LenProperties
----------------------------------------------------------------------------
(* The operations on the links *)

LEMMA NodeFields ==
    ASSUME NEW l \in ListType, NEW n \in Nodes
    PROVE  /\ l.node[n].type \in Types /\ l.node[n].inuse \in BOOLEAN
           /\ l.node[n].target \in Int
           /\ l.node[n].next \in Nodes \cup {NULL}
           /\ l.node[n].prev \in Nodes \cup {NULL}
<1>1. l.node[n] \in Node
  BY DEF ListType
<1>2. QED
  BY <1>1 DEF Node

\* What an operation on the links leaves of a node
SameNode(a, b) == a.type = b.type /\ a.target = b.target /\ a.inuse = b.inuse

\* r is l with the next of n, with the prev of n, or with the inuse of n set.
NextSet(l, r, n, m) ==
    /\ r \in ListType
    /\ r.header = (IF n = NULL THEN m ELSE l.header)
    /\ \A k \in Nodes : /\ SameNode(r.node[k], l.node[k])
                        /\ r.node[k].next = IF k = n THEN m ELSE l.node[k].next
                        /\ r.node[k].prev = l.node[k].prev
PrevSet(l, r, n, m) ==
    /\ r \in ListType
    /\ r.header = l.header
    /\ \A k \in Nodes : /\ SameNode(r.node[k], l.node[k])
                        /\ r.node[k].prev = IF k = n THEN m ELSE l.node[k].prev
                        /\ r.node[k].next = l.node[k].next
Freed(l, r, n) ==
    /\ r \in ListType
    /\ r.header = l.header
    /\ \A k \in Nodes : /\ r.node[k].type = l.node[k].type
                        /\ r.node[k].target = l.node[k].target
                        /\ r.node[k].inuse = (IF k = n THEN FALSE ELSE l.node[k].inuse)
                        /\ r.node[k].prev = l.node[k].prev
                        /\ r.node[k].next = l.node[k].next

LEMMA LinkNextFields ==
    ASSUME NEW l, l \in ListType, NEW n, n \in Nodes \cup {NULL},
           NEW m, m \in Nodes \cup {NULL}
    PROVE  NextSet(l, LinkNext(l, n, m), n, m)
<1>1. CASE n = NULL
  <2>1. LinkNext(l, n, m) = [l EXCEPT !.header = m]
    BY <1>1 DEF LinkNext
  <2>2. QED
    BY <1>1, <2>1, NodesFacts DEF ListType, SameNode, NextSet
<1>2. CASE n # NULL
  <2>1. LinkNext(l, n, m) = [l EXCEPT !.node[n].next = m] /\ n \in Nodes
    BY <1>2 DEF LinkNext
  <2> DEFINE x == [l.node[n] EXCEPT !.next = m]
             r == [l EXCEPT !.node = [l.node EXCEPT ![n] = x]]
  <2>2. LinkNext(l, n, m) = r
    BY <2>1 DEF ListType
  <2>3. l.node \in [Nodes -> Node] /\ l.node[n] \in Node
    BY <2>1 DEF ListType
  <2>4. /\ x \in Node /\ SameNode(x, l.node[n]) /\ x.next = m
        /\ x.prev = l.node[n].prev
    BY <2>3 DEF Node, SameNode
  <2> HIDE DEF x
  <2>5. /\ r \in ListType /\ r.header = l.header
        /\ r.node = [l.node EXCEPT ![n] = x]
    BY <2>3, <2>4 DEF ListType
  <2>6. \A k \in Nodes : r.node[k] = IF k = n THEN x ELSE l.node[k]
    BY <2>3, <2>5
  <2> HIDE DEF r
  <2>7. QED
    BY <1>2, <2>2, <2>4, <2>5, <2>6 DEF SameNode, NextSet
<1>3. QED
  BY <1>1, <1>2

LEMMA LinkPrevFields ==
    ASSUME NEW l, l \in ListType, NEW n, n \in Nodes \cup {NULL},
           NEW m, m \in Nodes \cup {NULL}
    PROVE  PrevSet(l, LinkPrev(l, n, m), n, m)
<1>1. CASE n = NULL
  BY <1>1, NodesFacts DEF LinkPrev, SameNode, PrevSet
<1>2. CASE n # NULL
  <2>1. LinkPrev(l, n, m) = [l EXCEPT !.node[n].prev = m] /\ n \in Nodes
    BY <1>2 DEF LinkPrev
  <2> DEFINE x == [l.node[n] EXCEPT !.prev = m]
             r == [l EXCEPT !.node = [l.node EXCEPT ![n] = x]]
  <2>2. LinkPrev(l, n, m) = r
    BY <2>1 DEF ListType
  <2>3. l.node \in [Nodes -> Node] /\ l.node[n] \in Node
    BY <2>1 DEF ListType
  <2>4. /\ x \in Node /\ SameNode(x, l.node[n]) /\ x.prev = m
        /\ x.next = l.node[n].next
    BY <2>3 DEF Node, SameNode
  <2> HIDE DEF x
  <2>5. /\ r \in ListType /\ r.header = l.header
        /\ r.node = [l.node EXCEPT ![n] = x]
    BY <2>3, <2>4 DEF ListType
  <2>6. \A k \in Nodes : r.node[k] = IF k = n THEN x ELSE l.node[k]
    BY <2>3, <2>5
  <2> HIDE DEF r
  <2>7. QED
    BY <2>2, <2>4, <2>5, <2>6 DEF SameNode, PrevSet
<1>3. QED
  BY <1>1, <1>2

LEMMA ReleaseFields ==
    ASSUME NEW l, l \in ListType, NEW n, n \in Nodes
    PROVE  Freed(l, Release(l, n), n)
<1> DEFINE x == [l.node[n] EXCEPT !.inuse = FALSE]
           r == [l EXCEPT !.node = [l.node EXCEPT ![n] = x]]
<1>1. Release(l, n) = r
  BY DEF ListType, Release
<1>2. l.node \in [Nodes -> Node] /\ l.node[n] \in Node
  BY DEF ListType
<1>3. /\ x \in Node /\ x.type = l.node[n].type /\ x.target = l.node[n].target
      /\ x.inuse = FALSE /\ x.next = l.node[n].next /\ x.prev = l.node[n].prev
  BY <1>2 DEF Node
<1> HIDE DEF x
<1>4. /\ r \in ListType /\ r.header = l.header
      /\ r.node = [l.node EXCEPT ![n] = x]
  BY <1>2, <1>3 DEF ListType
<1>5. \A k \in Nodes : r.node[k] = IF k = n THEN x ELSE l.node[k]
  BY <1>2, <1>4
<1> HIDE DEF r
<1>6. QED
  BY <1>1, <1>3, <1>4, <1>5 DEF Freed
----------------------------------------------------------------------------
(* Taking a node out of the list *)

\* u is l without node n, its neighbours linked with each other.
Unlinked(l, u, n) ==
    /\ u \in ListType
    /\ u.header = IF l.node[n].prev = NULL THEN l.node[n].next ELSE l.header
    /\ \A k \in Nodes :
         /\ u.node[k].type = l.node[k].type /\ u.node[k].target = l.node[k].target
         /\ u.node[k].inuse = (IF k = n THEN FALSE ELSE l.node[k].inuse)
         /\ u.node[k].next = IF k = l.node[n].prev THEN l.node[n].next ELSE l.node[k].next
         /\ u.node[k].prev = IF k = l.node[n].next THEN l.node[n].prev ELSE l.node[k].prev

LEMMA UnlinkedChain ==
    ASSUME NEW l, NEW w, Chain(l, w), NEW i \in 1 .. Len(w), NEW u, Unlinked(l, u, w[i])
    PROVE  /\ Chain(u, RemoveAt(w, i))
           /\ InUse(u) = InUse(l) \ {w[i]}
<1> DEFINE r == RemoveAt(w, i)
           from(j) == IF j < i THEN j ELSE j + 1
           n == w[i]
<1>1. /\ l \in ListType /\ w \in Seq(Nodes) /\ Len(w) \in Nat
      /\ \A j, k \in 1 .. Len(w) : w[j] = w[k] => j = k
      /\ \A j \in 1 .. Len(w) : w[j] \in Nodes
      /\ \A j \in 1 .. Len(w) :
           /\ l.node[w[j]].next = (IF j = Len(w) THEN NULL ELSE w[j + 1])
           /\ l.node[w[j]].prev = (IF j = 1 THEN NULL ELSE w[j - 1])
      /\ l.header = w[1]
  BY DEF Chain, Links
<1>2. /\ r \in Seq(Nodes) /\ Len(r) = Len(w) - 1
      /\ \A j \in 1 .. Len(w) - 1 : r[j] = IF j < i THEN w[j] ELSE w[j + 1]
  BY <1>1, RemoveAtSeq
<1> HIDE DEF r
<1>3. \A j \in 1 .. Len(r) : from(j) \in 1 .. Len(w) /\ r[j] = w[from(j)] /\ from(j) # i
  BY <1>1, <1>2
<1>4. \A j, k \in 1 .. Len(r) : r[j] = r[k] => j = k
  <2>1. ASSUME NEW j \in 1 .. Len(r), NEW k \in 1 .. Len(r), r[j] = r[k]
        PROVE  j = k
    <3>1. from(j) = from(k)
      <4>1. PICK a \in 1 .. Len(w) : a = from(j) /\ r[j] = w[a]
        BY <1>3
      <4>2. PICK b \in 1 .. Len(w) : b = from(k) /\ r[k] = w[b]
        BY <1>3
      <4>3. w[a] = w[b]
        BY <2>1, <4>1, <4>2
      <4>4. \A p, q \in 1 .. Len(w) : w[p] = w[q] => p = q
        BY <1>1
      <4>5. a = b
        BY <4>3, <4>4
      <4> HIDE DEF from
      <4>6. QED
        BY <4>1, <4>2, <4>5
    <3>2. QED
      BY <1>1, <1>2, <3>1
  <2>2. QED
    BY <2>1
<1>5. /\ n \in Nodes /\ n # NULL
      /\ l.node[n].next = (IF i = Len(w) THEN NULL ELSE w[i + 1])
      /\ l.node[n].prev = (IF i = 1 THEN NULL ELSE w[i - 1])
  BY <1>1, NodesFacts
<1>6. u.header = IF Len(r) = 0 THEN NULL ELSE r[1]
  <2>1. u.header = IF l.node[n].prev = NULL THEN l.node[n].next ELSE l.header
    BY DEF Unlinked
  <2>2. CASE i = 1
    BY <1>1, <1>2, <1>5, <2>1, <2>2
  <2>3. CASE i # 1
    <3>1. w[i - 1] # NULL
      BY <1>1, <2>3, NodesFacts
    <3>2. QED
      BY <1>1, <1>2, <1>5, <2>1, <2>3, <3>1
  <2>4. QED
    BY <2>2, <2>3
<1>7. ASSUME NEW j \in 1 .. Len(r)
      PROVE  u.node[r[j]].next = IF j = Len(r) THEN NULL ELSE r[j + 1]
  <2> DEFINE f == from(j)
  <2>1. f \in 1 .. Len(w) /\ r[j] = w[f] /\ f # i /\ w[f] \in Nodes
    BY <1>1, <1>3
  <2>2. u.node[w[f]].next = IF w[f] = l.node[n].prev THEN l.node[n].next ELSE l.node[w[f]].next
    BY <2>1 DEF Unlinked
  <2>3. w[f] = l.node[n].prev <=> f = i - 1
    <3> HIDE DEF f
    <3>1. CASE i = 1
      BY <1>1, <1>5, <2>1, <3>1, NodesFacts
    <3>2. CASE i # 1
      <4>1. i - 1 \in 1 .. Len(w) /\ l.node[n].prev = w[i - 1]
        BY <1>1, <1>5, <3>2
      <4>2. QED
        BY <1>1, <2>1, <4>1
    <3>3. QED
      BY <3>1, <3>2
  <2>4. CASE f = i - 1
    <3>1. j = i - 1 /\ (j = Len(r) <=> i = Len(w)) /\ (i # Len(w) => r[j + 1] = w[i + 1])
      BY <1>1, <1>2, <2>4
    <3> HIDE DEF f
    <3>2. QED
      BY <1>5, <2>1, <2>2, <2>3, <2>4, <3>1
  <2>5. CASE f # i - 1
    <3>1. /\ j = Len(r) <=> f = Len(w)
          /\ j # Len(r) => r[j + 1] = w[f + 1]
      BY <1>1, <1>2, <2>5
    <3>2. l.node[w[f]].next = (IF f = Len(w) THEN NULL ELSE w[f + 1])
      BY <1>1, <2>1
    <3> HIDE DEF f
    <3>3. QED
      BY <2>1, <2>2, <2>3, <2>5, <3>1, <3>2
  <2>6. QED
    BY <2>4, <2>5
<1>8. ASSUME NEW j \in 1 .. Len(r)
      PROVE  u.node[r[j]].prev = IF j = 1 THEN NULL ELSE r[j - 1]
  <2> DEFINE f == from(j)
  <2>1. f \in 1 .. Len(w) /\ r[j] = w[f] /\ f # i /\ w[f] \in Nodes
    BY <1>1, <1>3
  <2>2. u.node[w[f]].prev = IF w[f] = l.node[n].next THEN l.node[n].prev ELSE l.node[w[f]].prev
    BY <2>1 DEF Unlinked
  <2>3. w[f] = l.node[n].next <=> f = i + 1
    <3> HIDE DEF f
    <3>1. CASE i = Len(w)
      BY <1>1, <1>5, <2>1, <3>1, NodesFacts
    <3>2. CASE i # Len(w)
      <4>1. i + 1 \in 1 .. Len(w) /\ l.node[n].next = w[i + 1]
        BY <1>1, <1>5, <3>2
      <4>2. QED
        BY <1>1, <2>1, <4>1
    <3>3. QED
      BY <3>1, <3>2
  <2>4. CASE f = i + 1
    <3>1. j = i /\ (i # 1 => r[j - 1] = w[i - 1])
      BY <1>1, <1>2, <2>4
    <3> HIDE DEF f
    <3>2. QED
      BY <1>5, <2>1, <2>2, <2>3, <2>4, <3>1
  <2>5. CASE f # i + 1
    <3>1. /\ j = 1 <=> f = 1
          /\ j # 1 => r[j - 1] = w[f - 1]
      BY <1>1, <1>2, <2>1, <2>5
    <3>2. l.node[w[f]].prev = (IF f = 1 THEN NULL ELSE w[f - 1])
      BY <1>1, <2>1
    <3> HIDE DEF f
    <3>3. QED
      BY <2>1, <2>2, <2>3, <2>5, <3>1, <3>2
  <2>6. QED
    BY <2>4, <2>5
<1>9. Links(u, r)
  BY <1>2, <1>4, <1>6, <1>7, <1>8 DEF Links, Unlinked
<1>10. InUse(u) = InUse(l) \ {n}
  BY <1>5 DEF InUse, Unlinked
<1>11. Elements(r) = Elements(w) \ {n}
  <2>1. ASSUME NEW j \in 1 .. Len(r) PROVE r[j] \in Elements(w) \ {n}
    <3> HIDE DEF from
    <3>1. QED
      BY <1>1, <1>3 DEF Elements
  <2>2. ASSUME NEW k \in 1 .. Len(w), k # i PROVE w[k] \in Elements(r)
    <3>1. CASE k < i
      BY <1>1, <1>2, <3>1 DEF Elements
    <3>2. CASE k > i
      <4>1. k - 1 \in 1 .. Len(r) /\ r[k - 1] = w[k]
        BY <1>1, <1>2, <3>2
      <4>2. QED
        BY <4>1 DEF Elements
    <3>3. QED
      BY <2>2, <3>1, <3>2
  <2>3. QED
    BY <2>1, <2>2 DEF Elements
<1>12. Distinct(u)
  <2>1. InUse(u) \subseteq InUse(l) /\ InUse(l) \subseteq Nodes
    BY <1>10 DEF InUse
  <2>2. \A k \in Nodes : u.node[k].type = l.node[k].type
    BY DEF Unlinked
  <2>3. QED
    BY <2>1, <2>2 DEF Chain, Distinct
<1>13. QED
  BY <1>9, <1>10, <1>11, <1>12 DEF Chain, r
----------------------------------------------------------------------------
(* Putting a node into the list *)

\* u is l with node n linked between the nodes before and after.
Linked(l, u, n, before, after) ==
    /\ u \in ListType
    /\ u.header = IF before = NULL THEN n ELSE l.header
    /\ \A k \in Nodes :
         /\ SameNode(u.node[k], l.node[k])
         /\ u.node[k].next = IF k = before THEN n
                             ELSE IF k = n THEN after ELSE l.node[k].next
         /\ u.node[k].prev = IF k = after THEN n
                             ELSE IF k = n THEN before ELSE l.node[k].prev

LEMMA LinkedLinks ==
    ASSUME NEW l, NEW w, Links(l, w), NEW n \in Nodes, n \notin Elements(w),
           NEW p \in 1 .. Len(w) + 1, NEW u,
           Linked(l, u, n, IF p = 1 THEN NULL ELSE w[p - 1],
                           IF p = Len(w) + 1 THEN NULL ELSE w[p])
    PROVE  Links(u, InsertAt(w, p, n))
<1> DEFINE r == InsertAt(w, p, n)
           before == IF p = 1 THEN NULL ELSE w[p - 1]
           after == IF p = Len(w) + 1 THEN NULL ELSE w[p]
<1>0. w \in Seq(Nodes) /\ Len(w) \in Nat /\ p \in 1 .. Len(w) + 1
  BY DEF Links
<1>1. /\ l \in ListType
      /\ \A j, k \in 1 .. Len(w) : w[j] = w[k] => j = k
      /\ \A j \in 1 .. Len(w) : w[j] \in Nodes /\ w[j] # NULL /\ w[j] # n
      /\ \A j \in 1 .. Len(w) :
           /\ l.node[w[j]].next = (IF j = Len(w) THEN NULL ELSE w[j + 1])
           /\ l.node[w[j]].prev = (IF j = 1 THEN NULL ELSE w[j - 1])
      /\ l.header = IF Len(w) = 0 THEN NULL ELSE w[1]
      /\ n # NULL /\ NULL \notin Nodes
  <2>1. \A j \in 1 .. Len(w) : w[j] \in Nodes
    BY <1>0
  <2>2. \A j \in 1 .. Len(w) : w[j] # n
    BY DEF Elements
  <2>3. NULL \notin Nodes
    BY NodesFacts
  <2>4. QED
    BY <2>1, <2>2, <2>3 DEF Links
<1>2. /\ r \in Seq(Nodes) /\ Len(r) = Len(w) + 1
      /\ \A j \in 1 .. Len(w) + 1 :
           r[j] = IF j < p THEN w[j] ELSE IF j = p THEN n ELSE w[j - 1]
  BY <1>0, InsertAtSeq
<1> HIDE DEF r
<1>3. /\ \A j \in 1 .. p - 1 : j \in 1 .. Len(w) /\ r[j] = w[j]
      /\ r[p] = n
      /\ \A j \in p + 1 .. Len(w) + 1 : j - 1 \in 1 .. Len(w) /\ r[j] = w[j - 1]
  BY <1>0, <1>1, <1>2
<1>4. /\ u \in ListType
      /\ u.header = IF before = NULL THEN n ELSE l.header
      /\ \A k \in Nodes :
         /\ u.node[k].next = IF k = before THEN n
                             ELSE IF k = n THEN after ELSE l.node[k].next
         /\ u.node[k].prev = IF k = after THEN n
                             ELSE IF k = n THEN before ELSE l.node[k].prev
  BY DEF Linked
<1>5. \A j, k \in 1 .. Len(r) : r[j] = r[k] => j = k
  <2>1. ASSUME NEW j \in 1 .. Len(r), NEW k \in 1 .. Len(r), r[j] = r[k]
        PROVE  j = k
    <3>1. CASE j = p \/ k = p
      <4>1. ASSUME NEW x \in 1 .. Len(r), x # p PROVE r[x] # n
        <5>1. CASE x < p
          <6>1. x \in 1 .. p - 1
            BY <1>0, <1>2, <5>1
          <6>2. x \in 1 .. Len(w) /\ r[x] = w[x]
            BY <1>3, <6>1
          <6>3. w[x] # n
            BY <1>1, <6>2
          <6>4. QED
            BY <6>2, <6>3
        <5>2. CASE x > p
          <6>1. x \in p + 1 .. Len(w) + 1
            BY <1>0, <1>2, <5>2
          <6>2. QED
            BY <1>1, <1>3, <6>1
        <5>3. QED
          BY <1>0, <4>1, <5>1, <5>2
      <4>2. QED
        BY <1>3, <2>1, <3>1, <4>1
    <3>2. CASE j # p /\ k # p
      <4>0. ASSUME NEW x \in 1 .. Len(r), x # p
            PROVE  \E a \in 1 .. Len(w) : a = (IF x < p THEN x ELSE x - 1) /\ r[x] = w[a]
        <5>0. x \in Int /\ p \in Int /\ Len(w) \in Nat /\ x \in 1 .. Len(w) + 1
          BY <1>0, <1>2, <4>0
        <5>1. CASE x < p
          <6>1. x \in 1 .. p - 1
            BY <5>0, <5>1
          <6>2. x \in 1 .. Len(w) /\ r[x] = w[x]
            BY <1>3, <6>1
          <6>3. x = (IF x < p THEN x ELSE x - 1)
            BY <5>1
          <6>4. QED
            BY <6>2, <6>3
        <5>2. CASE ~(x < p)
          <6>1. x \in p + 1 .. Len(w) + 1
            BY <4>0, <5>0, <5>2
          <6>2. x - 1 \in 1 .. Len(w) /\ r[x] = w[x - 1]
            BY <1>3, <6>1
          <6>3. x - 1 = (IF x < p THEN x ELSE x - 1)
            BY <5>2
          <6>4. QED
            BY <6>2, <6>3
        <5>3. QED
          BY <5>1, <5>2
      <4>1. PICK a \in 1 .. Len(w) : a = (IF j < p THEN j ELSE j - 1) /\ r[j] = w[a]
        BY <3>2, <4>0
      <4>2. PICK b \in 1 .. Len(w) : b = (IF k < p THEN k ELSE k - 1) /\ r[k] = w[b]
        BY <3>2, <4>0
      <4>3. w[a] = w[b]
        BY <2>1, <4>1, <4>2
      <4>4. \A x, y \in 1 .. Len(w) : w[x] = w[y] => x = y
        BY <1>1
      <4>5. a = b
        BY <4>3, <4>4
      <4>6. QED
        BY <1>0, <1>1, <1>2, <3>2, <4>1, <4>2, <4>5
    <3>3. QED
      BY <3>1, <3>2
  <2>2. QED
    BY <2>1
<1>6. u.header = IF Len(r) = 0 THEN NULL ELSE r[1]
  <2>1. CASE p = 1
    BY <1>0, <1>1, <1>2, <1>4, <2>1
  <2>2. CASE p # 1
    <3>1. p - 1 \in 1 .. Len(w) /\ before = w[p - 1] /\ before # NULL
      BY <1>0, <1>1, <2>2
    <3>2. QED
      BY <1>0, <1>1, <1>2, <1>4, <2>2, <3>1
  <2>3. QED
    BY <2>1, <2>2
<1>7. \A j \in 1 .. Len(w) : /\ w[j] = before <=> j = p - 1
                             /\ w[j] = after <=> j = p
  <2>1. ASSUME NEW j \in 1 .. Len(w)
        PROVE  (w[j] = before <=> j = p - 1) /\ (w[j] = after <=> j = p)
    <3>1. w[j] = before <=> j = p - 1
      <4>1. CASE p = 1
        BY <1>0, <1>1, <4>1
      <4>2. CASE p # 1
        <5>1. p - 1 \in 1 .. Len(w) /\ before = w[p - 1]
          BY <1>0, <1>1, <4>2
        <5>2. \A x, y \in 1 .. Len(w) : w[x] = w[y] => x = y
          BY <1>1
        <5> HIDE DEF before
        <5>3. QED
          BY <5>1, <5>2
      <4>3. QED
        BY <4>1, <4>2
    <3>2. w[j] = after <=> j = p
      <4>1. CASE p = Len(w) + 1
        BY <1>0, <1>1, <4>1
      <4>2. CASE p # Len(w) + 1
        <5>1. p \in 1 .. Len(w) /\ after = w[p]
          BY <1>0, <4>2
        <5>2. \A x, y \in 1 .. Len(w) : w[x] = w[y] => x = y
          BY <1>1
        <5> HIDE DEF after
        <5>3. QED
          BY <5>1, <5>2
      <4>3. QED
        BY <4>1, <4>2
    <3>3. QED
      BY <3>1, <3>2
  <2>2. QED
    BY <2>1
<1>8. before # n /\ after # n
  BY <1>1
<1> HIDE DEF before, after
<1>9. ASSUME NEW j \in 1 .. Len(r)
      PROVE  /\ u.node[r[j]].next = IF j = Len(r) THEN NULL ELSE r[j + 1]
             /\ u.node[r[j]].prev = IF j = 1 THEN NULL ELSE r[j - 1]
  <2>1. CASE j < p
    <3>1. j \in 1 .. Len(w) /\ r[j] = w[j] /\ w[j] \in Nodes /\ w[j] # n
      BY <1>0, <1>1, <1>3, <2>1
    <3>2. u.node[r[j]].next = IF j = p - 1 THEN n ELSE l.node[w[j]].next
      BY <1>4, <1>7, <3>1
    <3>3. u.node[r[j]].prev = l.node[w[j]].prev
      BY <1>4, <1>7, <2>1, <3>1
    <3>4. j < Len(r) /\ r[j + 1] = IF j = p - 1 THEN n ELSE w[j + 1]
      BY <1>0, <1>1, <1>2, <2>1
    <3>5. j # 1 => r[j - 1] = w[j - 1]
      BY <1>0, <1>1, <1>2, <2>1
    <3>6. j # p - 1 => j # Len(w)
      BY <1>0, <1>1, <2>1
    <3>7. QED
      BY <1>0, <1>1, <3>1, <3>2, <3>3, <3>4, <3>5, <3>6
  <2>2. CASE j = p
    <3>1. r[j] = n
      BY <1>3, <2>2
    <3>2. u.node[n].next = after /\ u.node[n].prev = before
      BY <1>4, <1>8
    <3>3. after = IF j = Len(r) THEN NULL ELSE r[j + 1]
      BY <1>0, <1>1, <1>2, <2>2 DEF after
    <3>4. before = IF j = 1 THEN NULL ELSE r[j - 1]
      BY <1>0, <1>1, <1>2, <2>2 DEF before
    <3>5. QED
      BY <3>1, <3>2, <3>3, <3>4
  <2>3. CASE j > p
    <3> DEFINE f == j - 1
    <3>1. f \in 1 .. Len(w) /\ r[j] = w[f] /\ w[f] \in Nodes /\ w[f] # n
      BY <1>0, <1>1, <1>2, <2>3
    <3>2. u.node[r[j]].next = l.node[w[f]].next
      <4>1. f # p - 1
        BY <2>3
      <4> HIDE DEF f
      <4>2. QED
        BY <1>4, <1>7, <3>1, <4>1
    <3>3. u.node[r[j]].prev = IF j = p + 1 THEN n ELSE l.node[w[f]].prev
      <4>1. f = p <=> j = p + 1
        BY <2>3
      <4> HIDE DEF f
      <4>2. QED
        BY <1>4, <1>7, <3>1, <4>1
    <3>4. /\ f = Len(w) <=> j = Len(r)
          /\ f # Len(w) => r[j + 1] = w[f + 1]
      BY <1>0, <1>1, <1>2, <2>3
    <3>5. j # 1 /\ r[j - 1] = (IF j = p + 1 THEN n ELSE w[f - 1])
      BY <1>0, <1>1, <1>2, <2>3
    <3>6. j # p + 1 => f # 1
      BY <1>0, <1>1, <2>3
    <3>7. /\ l.node[w[f]].next = (IF f = Len(w) THEN NULL ELSE w[f + 1])
          /\ l.node[w[f]].prev = (IF f = 1 THEN NULL ELSE w[f - 1])
      BY <1>0, <1>1, <3>1
    <3> HIDE DEF f
    <3>8. QED
      BY <3>1, <3>2, <3>3, <3>4, <3>5, <3>6, <3>7
  <2>4. QED
    BY <1>0, <1>1, <1>2, <2>1, <2>2, <2>3
<1>10. QED
  BY <1>2, <1>4, <1>5, <1>6, <1>9 DEF Links, r
----------------------------------------------------------------------------
(* The sequence of events the nodes stand for *)

EventsOf(l, w) == [i \in 1 .. Len(w) |-> [type   |-> l.node[w[i]].type,
                                          target |-> l.node[w[i]].target]]

\* q is the sequence of events of the nodes w.
Stands(l, w, q) ==
    /\ q = EventsOf(l, w) /\ q \in Seq(Abstract!Event)
    /\ Len(q) = Len(w) /\ Len(w) \in Nat
    /\ \A i \in 1 .. Len(w) :
         /\ w[i] \in Nodes
         /\ q[i] = [type |-> l.node[w[i]].type, target |-> l.node[w[i]].target]
         /\ q[i].type = l.node[w[i]].type
         /\ q[i].target = l.node[w[i]].target

LEMMA EventsFacts ==
    ASSUME NEW l, NEW w, Links(l, w)
    PROVE  Events(l) = EventsOf(l, w) /\ Stands(l, w, EventsOf(l, w))
<1>1. /\ w \in Seq(Nodes) /\ Len(w) \in Nat /\ DOMAIN w = 1 .. Len(w)
      /\ l \in ListType /\ Walk(l) = w
  BY WalkIs DEF Links
<1>2. Events(l) = EventsOf(l, w)
  BY <1>1 DEF Events, EventsOf
<1>3. \A i \in 1 .. Len(w) : w[i] \in Nodes
  BY <1>1
<1>4. \A i \in 1 .. Len(w) :
        [type |-> l.node[w[i]].type, target |-> l.node[w[i]].target] \in Abstract!Event
  BY <1>1, <1>3, NodeFields DEF Abstract!Event, Abstract!Types, Types
<1>5. EventsOf(l, w) \in Seq(Abstract!Event) /\ Len(EventsOf(l, w)) = Len(w)
  <2> DEFINE e(i) == [type |-> l.node[w[i]].type, target |-> l.node[w[i]].target]
  <2>1. \A i \in 1 .. Len(w) : e(i) \in Abstract!Event
    BY <1>4
  <2>2. EventsOf(l, w) = [i \in 1 .. Len(w) |-> e(i)]
    BY DEF EventsOf
  <2> HIDE DEF e
  <2>3. QED
    BY <1>1, <2>1, <2>2
<1>6. QED
  BY <1>1, <1>2, <1>3, <1>5 DEF EventsOf, Stands

LEMMA MinOfNodes ==
    ASSUME NEW I \in SUBSET Nodes, I # {}
    PROVE  Min(I) \in I /\ \A i \in I : Min(I) <= i
<1> DEFINE J == {i + 1 : i \in I}
           m == Min(J) - 1
<1>1. PoolSize \in Nat
  BY PoolAssumption
<1>2. J \in SUBSET (1 .. PoolSize) /\ J # {}
  <2>1. \A i \in I : i \in 0 .. PoolSize - 1
    BY DEF Nodes
  <2>2. \A i \in 0 .. PoolSize - 1 : i + 1 \in 1 .. PoolSize
    BY <1>1
  <2>3. QED
    BY <2>1, <2>2
<1>3. Min(J) \in J /\ \A i \in J : Min(J) <= i
  <2> HIDE DEF J
  <2>1. QED
    BY <1>1, <1>2, MinOfSet
<1>4. m \in I /\ \A i \in I : m <= i
  <2>1. PICK k \in I : Min(J) = k + 1
    BY <1>3
  <2>2. k \in Int /\ \A i \in I : i \in Int
    BY <2>1, NodesFacts
  <2>3. \A i \in I : k + 1 <= i + 1
    BY <1>3, <2>1
  <2>4. m = k
    BY <2>1, <2>2
  <2>5. QED
    BY <2>2, <2>3, <2>4
<1>5. QED
  BY <1>4 DEF Min

\* The types outnumber no pool, so a type that is off the list finds a node.
LEMMA FreeNodeExists ==
    ASSUME NEW u \in ListType, Distinct(u), NEW type \in Types,
           \A n \in InUse(u) : u.node[n].type # type
    PROVE  /\ FreeNode(u) \in Nodes \ InUse(u)
           /\ \A n \in Nodes \ InUse(u) : FreeNode(u) <= n
<1> DEFINE I == {n \in Nodes : ~ u.node[n].inuse}
           f == [n \in Nodes |-> u.node[n].type]
           others == Types \ {type}
<1>1. I = Nodes \ InUse(u) /\ I \in SUBSET Nodes
  BY DEF InUse
<1>2. IsFiniteSet(others) /\ Cardinality(others) < PoolSize
  <2>1. /\ IsFiniteSet({"VI", "COMPARE"}) /\ Cardinality({"VI", "COMPARE"}) = 2
    <3>1. IsFiniteSet({"VI"}) /\ Cardinality({"VI"}) = 1
      BY FS_Singleton
    <3>2. {"VI", "COMPARE"} = {"VI"} \cup {"COMPARE"}
      OBVIOUS
    <3>3. QED
      BY <3>1, <3>2, FS_AddElement
  <2>2. /\ IsFiniteSet(Types)
        /\ Cardinality(Types) = 2 + Cardinality(Tasks) - Cardinality({"VI", "COMPARE"} \cap Tasks)
    BY <2>1, PoolAssumption, FS_Union DEF Types
  <2>3. Cardinality({"VI", "COMPARE"} \cap Tasks) \in Nat
    <3>1. IsFiniteSet({"VI", "COMPARE"} \cap Tasks)
      BY <2>1, FS_Subset
    <3>2. QED
      BY <3>1, FS_CardinalityType
  <2>4. /\ IsFiniteSet(others) /\ Cardinality(others) = Cardinality(Types) - 1
    BY <2>2, FS_RemoveElement
  <2>5. Cardinality(Tasks) \in Nat /\ PoolSize \in Nat /\ PoolSize >= 2 + Cardinality(Tasks)
    BY PoolAssumption, FS_CardinalityType
  <2>6. QED
    BY <2>2, <2>3, <2>4, <2>5
<1>3. I # {}
  <2>1. SUFFICES ASSUME I = {} PROVE FALSE
    OBVIOUS
  <2>2. InUse(u) = Nodes
    BY <1>1, <2>1 DEF InUse
  <2>3. f \in [Nodes -> others]
    BY <2>2, NodeFields
  <2> HIDE DEF f, others
  <2>4. \E x, y \in Nodes : x # y /\ f[x] = f[y]
    BY <1>2, <2>3, NodesFacts, FS_PigeonHole
  <2>5. QED
    BY <2>2, <2>4 DEF Distinct, f
<1>4. Min(I) \in I /\ \A i \in I : Min(I) <= i
  <2> HIDE DEF I
  <2>1. QED
    BY <1>1, <1>3, MinOfNodes
<1>5. FreeNode(u) = Min(I)
  BY DEF FreeNode
<1> HIDE DEF I
<1>6. QED
  BY <1>1, <1>4, <1>5

LEMMA UnlinkedEvents ==
    ASSUME NEW l, NEW w, Links(l, w), NEW i \in 1 .. Len(w), NEW u,
           \A k \in Nodes : u.node[k].type = l.node[k].type /\ u.node[k].target = l.node[k].target
    PROVE  EventsOf(u, RemoveAt(w, i)) = RemoveAt(EventsOf(l, w), i)
<1> DEFINE q == EventsOf(l, w)
           r == RemoveAt(w, i)
           x == RemoveAt(q, i)
<1>1. w \in Seq(Nodes) /\ Len(w) \in Nat
  BY DEF Links
<1>2. Stands(l, w, q)
  BY EventsFacts
<1> HIDE DEF q
<1>3. q \in Seq(Abstract!Event) /\ Len(q) = Len(w)
  BY <1>2 DEF Stands
<1>4. /\ x \in Seq(Abstract!Event) /\ Len(x) = Len(w) - 1
      /\ \A j \in 1 .. Len(w) - 1 : x[j] = IF j < i THEN q[j] ELSE q[j + 1]
  <2>1. i \in 1 .. Len(q)
    BY <1>3
  <2>2. QED
    BY <1>3, <2>1, RemoveAtSeq
<1>5. /\ Len(r) = Len(w) - 1
      /\ \A j \in 1 .. Len(w) - 1 : r[j] = IF j < i THEN w[j] ELSE w[j + 1]
  BY <1>1, RemoveAtSeq
<1> HIDE DEF r, x
<1>6. ASSUME NEW j \in 1 .. Len(w) - 1
      PROVE  [type |-> u.node[r[j]].type, target |-> u.node[r[j]].target] = x[j]
  <2> DEFINE f == IF j < i THEN j ELSE j + 1
  <2>1. f \in 1 .. Len(w) /\ r[j] = w[f] /\ x[j] = q[f]
    BY <1>1, <1>4, <1>5
  <2> HIDE DEF f
  <2>2. w[f] \in Nodes /\ q[f] = [type |-> l.node[w[f]].type, target |-> l.node[w[f]].target]
    BY <1>2, <2>1 DEF Stands
  <2>3. QED
    BY <2>1, <2>2
<1>7. x = [j \in 1 .. Len(w) - 1 |-> x[j]]
  BY <1>4, LenProperties
<1>8. EventsOf(u, r) = x
  BY <1>5, <1>6, <1>7 DEF EventsOf
<1>9. QED
  BY <1>8 DEF r, x, q

\* Step 1 of Add_New_Timer_Event drops the event of the type.
LEMMA UnlinkDrops ==
    ASSUME NEW l, NEW w, Chain(l, w), NEW type \in Types
    PROVE  LET u == Unlink(l, type) IN
           \E r : /\ Chain(u, r)
                  /\ EventsOf(u, r) = Abstract!Without(EventsOf(l, w), type)
                  /\ InUse(u) = {n \in InUse(l) : l.node[n].type # type}
                  /\ \A n \in Nodes : /\ u.node[n].type = l.node[n].type
                                      /\ u.node[n].target = l.node[n].target
<1> DEFINE u == Unlink(l, type)
           q == EventsOf(l, w)
           I == {i \in 1 .. Len(w) : l.node[w[i]].type = type}
           J == {i \in 1 .. Len(q) : q[i].type = type}
           m == Min(I)
           n == w[m]
<1>0. Links(l, w)
  BY DEF Chain
<1>1. /\ l \in ListType
      /\ w \in Seq(Nodes) /\ Len(w) \in Nat
      /\ Walk(l) = w /\ InUse(l) = Elements(w) /\ Distinct(l)
  BY <1>0, WalkIs DEF Chain, Links
<1>2. /\ q \in Seq(Abstract!Event) /\ Len(q) = Len(w)
      /\ \A i \in 1 .. Len(w) :
           /\ w[i] \in Nodes /\ q[i].type = l.node[w[i]].type
           /\ q[i] = [type |-> l.node[w[i]].type, target |-> l.node[w[i]].target]
  BY <1>0, EventsFacts DEF Stands
<1>3. I = J
  BY <1>2
<1>4. SelectInSeq(Walk(l), LAMBDA k : l.node[k].type = type) = IF I # {} THEN m ELSE 0
  BY <1>1 DEF SelectInSeq
<1>5. Abstract!SelectInSeq(q, LAMBDA e : e.type = type) = IF J # {} THEN Abstract!Min(J) ELSE 0
  BY DEF Abstract!SelectInSeq
<1>6. Abstract!Min(J) = m
  BY <1>3 DEF Abstract!Min, Min
<1>7. CASE I = {}
  <2>1. u = l
    BY <1>4, <1>7 DEF Unlink
  <2>2. \A i \in 1 .. Len(q) : q[i].type # type
    BY <1>3, <1>7
  <2>3. Abstract!Without(q, type) = q
    BY <2>2 DEF Abstract!Without, Abstract!RemoveFirstMatch
  <2>4. \A k \in InUse(l) : l.node[k].type # type
    BY <1>1, <1>7 DEF Elements
  <2>5. QED
    BY <2>1, <2>3, <2>4
<1>8. CASE I # {}
  <2>1. m \in I
    <3>1. I \in SUBSET (1 .. Len(w))
      OBVIOUS
    <3> HIDE DEF I
    <3>2. QED
      BY <1>1, <1>8, <3>1, MinOfSet
  <2>2. m \in 1 .. Len(w) /\ l.node[n].type = type /\ n \in Nodes /\ m # 0
    <3>1. m \in 1 .. Len(w) /\ l.node[w[m]].type = type
      BY <2>1
    <3> HIDE DEF m
    <3>2. m # 0 /\ w[m] \in Nodes
      BY <1>1, <3>1
    <3>3. QED
      BY <3>1, <3>2
  <2> DEFINE prev == l.node[n].prev
             next == l.node[n].next
             a == LinkNext(l, prev, next)
             b == LinkPrev(a, next, prev)
             r == RemoveAt(w, m)
  <2>3. u = Release(b, n)
    <3> HIDE DEF I, m
    <3>1. QED
      BY <1>1, <1>4, <1>8, <2>2 DEF Unlink
  <2>4. prev \in Nodes \cup {NULL} /\ next \in Nodes \cup {NULL} /\ n \in Nodes
    BY <1>1, <2>2, NodeFields
  <2> HIDE DEF m, n, prev, next, q, I, J, u, r
  <2>5. NextSet(l, a, prev, next)
    BY <1>1, <2>4, LinkNextFields
  <2> HIDE DEF a
  <2>6. PrevSet(a, b, next, prev)
    BY <2>4, <2>5, LinkPrevFields DEF NextSet
  <2> HIDE DEF b
  <2>7. Freed(b, u, n)
    BY <2>3, <2>4, <2>6, ReleaseFields DEF PrevSet
  <2>8. Unlinked(l, u, n)
    <3>1. u \in ListType /\ u.header = (IF prev = NULL THEN next ELSE l.header)
      BY <2>5, <2>6, <2>7 DEF NextSet, PrevSet, Freed
    <3>2. ASSUME NEW k \in Nodes
          PROVE  /\ u.node[k].type = l.node[k].type /\ u.node[k].target = l.node[k].target
                 /\ u.node[k].inuse = (IF k = n THEN FALSE ELSE l.node[k].inuse)
                 /\ u.node[k].next = IF k = prev THEN next ELSE l.node[k].next
                 /\ u.node[k].prev = IF k = next THEN prev ELSE l.node[k].prev
      BY <2>5, <2>6, <2>7 DEF SameNode, NextSet, PrevSet, Freed
    <3>3. QED
      BY <3>1, <3>2 DEF Unlinked, prev, next
  <2>9. Chain(u, r) /\ InUse(u) = InUse(l) \ {n}
    BY <2>2, <2>8, UnlinkedChain DEF n, r
  <2>10. \A k \in Nodes : u.node[k].type = l.node[k].type /\ u.node[k].target = l.node[k].target
    BY <2>8 DEF Unlinked
  <2>11. InUse(u) = {k \in InUse(l) : l.node[k].type # type}
    <3>1. n \in InUse(l)
      BY <1>1, <2>2 DEF Elements, n
    <3>2. QED
      BY <1>1, <2>2, <2>9, <3>1 DEF Distinct
  <2>12. EventsOf(u, r) = Abstract!Without(q, type)
    <3>1. Abstract!Without(q, type) = Abstract!RemoveAt(q, m)
      <4>1. Abstract!SelectInSeq(q, LAMBDA e : e.type = type) = m
        BY <1>3, <1>5, <1>6, <1>8 DEF q
      <4>2. m \in 1 .. Len(q) /\ q[m].type = type
        BY <1>2, <2>2 DEF n
      <4>3. QED
        BY <4>1, <4>2 DEF Abstract!Without, Abstract!RemoveFirstMatch
    <3>2. Abstract!RemoveAt(q, m) = RemoveAt(q, m)
      BY DEF Abstract!RemoveAt, RemoveAt
    <3>3. EventsOf(u, r) = RemoveAt(q, m)
      BY <1>0, <2>2, <2>10, UnlinkedEvents DEF q, r
    <3>4. QED
      BY <3>1, <3>2, <3>3
  <2>13. QED
    BY <2>9, <2>10, <2>11, <2>12 DEF u, q
<1>9. QED
  BY <1>7, <1>8

\* v is u with node n filled in.
Filled(u, v, n, type, target) ==
    /\ v \in ListType
    /\ v.header = u.header
    /\ \A k \in Nodes : /\ v.node[k].type = (IF k = n THEN type ELSE u.node[k].type)
                        /\ v.node[k].target = (IF k = n THEN target ELSE u.node[k].target)
                        /\ v.node[k].inuse = (IF k = n THEN TRUE ELSE u.node[k].inuse)
                        /\ v.node[k].prev = u.node[k].prev
                        /\ v.node[k].next = u.node[k].next

LEMMA FillFields ==
    ASSUME NEW u, u \in ListType, NEW n, n \in Nodes, NEW type, type \in Types,
           NEW target, target \in Int
    PROVE  Filled(u, [u EXCEPT !.node[n].type = type, !.node[n].inuse = TRUE,
                               !.node[n].target = target], n, type, target)
<1> DEFINE v == [u EXCEPT !.node[n].type = type, !.node[n].inuse = TRUE,
                          !.node[n].target = target]
           x == [u.node[n] EXCEPT !.type = type, !.inuse = TRUE, !.target = target]
           y == [u EXCEPT !.node = [u.node EXCEPT ![n] = x]]
<1>1. u.node \in [Nodes -> Node] /\ u.node[n] \in Node
  BY DEF ListType
<1>2. v = y
  BY <1>1 DEF ListType
<1>3. /\ x \in Node /\ x.type = type /\ x.target = target /\ x.inuse = TRUE
      /\ x.next = u.node[n].next /\ x.prev = u.node[n].prev
  BY <1>1 DEF Node
<1> HIDE DEF x, v
<1>4. y \in ListType /\ y.header = u.header /\ y.node = [u.node EXCEPT ![n] = x]
  BY <1>1, <1>3 DEF ListType
<1>5. \A k \in Nodes : y.node[k] = IF k = n THEN x ELSE u.node[k]
  BY <1>1, <1>4
<1> HIDE DEF y
<1>6. Filled(u, v, n, type, target)
  BY <1>2, <1>3, <1>4, <1>5 DEF Filled
<1>7. QED
  BY <1>6 DEF v

\* The two ends of the new links
LEMMA LinkFields ==
    ASSUME NEW v, v \in ListType, NEW n, n \in Nodes, NEW b, b \in Nodes \cup {NULL},
           NEW a, a \in Nodes \cup {NULL}, a # n, b # n
    PROVE  Linked(v, LinkPrev(LinkNext([v EXCEPT !.node[n].next = a,
                                                 !.node[n].prev = b], b, n), a, n), n, b, a)
<1> DEFINE z == [v EXCEPT !.node[n].next = a, !.node[n].prev = b]
           x == [v.node[n] EXCEPT !.next = a, !.prev = b]
           y == [v EXCEPT !.node = [v.node EXCEPT ![n] = x]]
           c == LinkNext(z, b, n)
           d == LinkPrev(c, a, n)
<1>1. v.node \in [Nodes -> Node] /\ v.node[n] \in Node
  BY DEF ListType
<1>2. z = y
  BY <1>1 DEF ListType
<1>3. /\ x \in Node /\ x.next = a /\ x.prev = b /\ SameNode(x, v.node[n])
  BY <1>1 DEF Node, SameNode
<1> HIDE DEF x, z
<1>4. y \in ListType /\ y.header = v.header /\ y.node = [v.node EXCEPT ![n] = x]
  BY <1>1, <1>3 DEF ListType
<1>5. \A k \in Nodes : y.node[k] = IF k = n THEN x ELSE v.node[k]
  BY <1>1, <1>4
<1> HIDE DEF y
<1>6. n \in Nodes \cup {NULL} /\ n # NULL
  BY NodesFacts
<1>7. NextSet(z, c, b, n)
  BY <1>2, <1>4, <1>6, LinkNextFields
<1> HIDE DEF c
<1>8. PrevSet(c, d, a, n)
  BY <1>6, <1>7, LinkPrevFields DEF NextSet
<1> HIDE DEF d
<1>9. d \in ListType /\ d.header = IF b = NULL THEN n ELSE v.header
  BY <1>2, <1>4, <1>7, <1>8 DEF NextSet, PrevSet
<1>10. ASSUME NEW k \in Nodes
       PROVE  /\ SameNode(d.node[k], v.node[k])
              /\ d.node[k].next = IF k = b THEN n ELSE IF k = n THEN a ELSE v.node[k].next
              /\ d.node[k].prev = IF k = a THEN n ELSE IF k = n THEN b ELSE v.node[k].prev
  <2>1. /\ SameNode(z.node[k], v.node[k])
        /\ z.node[k].next = IF k = n THEN a ELSE v.node[k].next
        /\ z.node[k].prev = IF k = n THEN b ELSE v.node[k].prev
    BY <1>2, <1>3, <1>5 DEF SameNode
  <2>2. /\ SameNode(c.node[k], z.node[k])
        /\ c.node[k].next = IF k = b THEN n ELSE z.node[k].next
        /\ c.node[k].prev = z.node[k].prev
    BY <1>7 DEF NextSet
  <2>3. /\ SameNode(d.node[k], c.node[k])
        /\ d.node[k].prev = IF k = a THEN n ELSE c.node[k].prev
        /\ d.node[k].next = c.node[k].next
    BY <1>8 DEF PrevSet
  <2>4. QED
    BY <2>1, <2>2, <2>3 DEF SameNode
<1>11. QED
  BY <1>9, <1>10 DEF Linked, c, d, z

\* x is the list u of nodes r with node n linked in the order of the targets.
Placed(u, r, x, n, type, target) ==
    LET q == EventsOf(u, r)
        p == Abstract!Place(q, target)
    IN  /\ \E w : /\ Chain(x, w)
                  /\ EventsOf(x, w) =
                       Abstract!InsertAt(q, p, [type |-> type, target |-> target])
        /\ x.header = n <=> p = 1
        /\ InUse(x) = InUse(u) \cup {n}
        /\ \A k \in Nodes : /\ x.node[k].type = IF k = n THEN type ELSE u.node[k].type
                            /\ x.node[k].target = IF k = n THEN target ELSE u.node[k].target

LEMMA LinkPlaces ==
    ASSUME NEW u, NEW r, Chain(u, r), NEW n \in Nodes, n \notin InUse(u),
           NEW type \in Types, NEW target \in Int,
           \A k \in InUse(u) : u.node[k].type # type,
           NEW v, Filled(u, v, n, type, target)
    PROVE  Placed(u, r, Link(v, n), n, type, target)
<1> DEFINE q == EventsOf(u, r)
           p == Abstract!Place(q, target)
           e == [type |-> type, target |-> target]
           I == {i \in 1 .. Len(r) : v.node[r[i]].target > v.node[n].target}
           J == {i \in 1 .. Len(q) : q[i].target > target}
           i0 == SelectInSeq(r, LAMBDA m : v.node[m].target > v.node[n].target)
           b == IF p = 1 THEN NULL ELSE r[p - 1]
           a == IF p = Len(r) + 1 THEN NULL ELSE r[p]
           x == Link(v, n)
           w == InsertAt(r, p, n)
<1>1. /\ Links(u, r) /\ u \in ListType /\ r \in Seq(Nodes) /\ Len(r) \in Nat
      /\ InUse(u) = Elements(r) /\ Distinct(u) /\ v \in ListType
      /\ \A i \in 1 .. Len(r) : r[i] \in Nodes
  BY DEF Chain, Links, Filled
<1>2. \A i \in 1 .. Len(r) : r[i] # n
  BY <1>1 DEF Elements
<1>3. n \notin Elements(r)
  BY <1>1
<1>4. /\ \A k \in Nodes \ {n} : /\ v.node[k].type = u.node[k].type
                                /\ v.node[k].target = u.node[k].target
                                /\ v.node[k].inuse = u.node[k].inuse
                                /\ v.node[k].prev = u.node[k].prev
                                /\ v.node[k].next = u.node[k].next
      /\ v.header = u.header
      /\ v.node[n].target = target /\ v.node[n].type = type /\ v.node[n].inuse
  BY DEF Filled
<1>5. Links(v, r) /\ Walk(v) = r
  <2>1. Links(v, r)
    BY <1>1, <1>2, <1>4 DEF Links
  <2>2. QED
    BY <2>1, WalkIs
<1>6. Stands(u, r, q)
  BY <1>1, EventsFacts
<1> HIDE DEF q
<1>7. I = J
  <2>1. \A i \in 1 .. Len(r) : v.node[r[i]].target = q[i].target
    BY <1>1, <1>2, <1>4, <1>6 DEF Stands
  <2>2. QED
    BY <1>4, <1>6, <2>1 DEF Stands
<1>8. i0 = IF I # {} THEN Min(I) ELSE 0
  BY DEF SelectInSeq
<1>9. Abstract!SelectInSeq(q, LAMBDA f : f.target > target) =
        IF J # {} THEN Abstract!Min(J) ELSE 0
  BY DEF Abstract!SelectInSeq
<1>10. Abstract!SelectInSeq(q, LAMBDA f : f.target > target) = i0
  BY <1>7, <1>8, <1>9 DEF Abstract!Min, Min
<1>11. i0 \in 0 .. Len(r)
  <2>1. I \in SUBSET (1 .. Len(r))
    OBVIOUS
  <2> HIDE DEF I
  <2>2. I # {} => Min(I) \in I
    BY <1>1, <2>1, MinOfSet
  <2>3. QED
    BY <1>1, <1>8, <2>1, <2>2
<1>12. p = IF i0 = 0 THEN Len(r) + 1 ELSE i0
  <2> HIDE DEF i0
  <2>1. QED
    BY <1>6, <1>10 DEF Abstract!Place, Stands
<1> HIDE DEF p, I, J
<1>13. p \in 1 .. Len(r) + 1
  <2> HIDE DEF i0
  <2>1. QED
    BY <1>1, <1>11, <1>12
<1>14. x = LinkPrev(LinkNext([v EXCEPT !.node[n].next = a, !.node[n].prev = b], b, n), a, n)
  <2> DEFINE before == IF i0 # 0 THEN v.node[r[i0]].prev
                       ELSE IF r = <<>> THEN NULL ELSE Last(r)
             after == IF i0 # 0 THEN r[i0] ELSE NULL
  <2>1. x = LinkPrev(LinkNext([v EXCEPT !.node[n].next = after, !.node[n].prev = before],
                              before, n), after, n)
    BY <1>5 DEF Link
  <2> HIDE DEF i0
  <2>2. after = a
    BY <1>1, <1>11, <1>12
  <2>3. before = b
    <3>1. CASE i0 # 0
      <4>1. v.node[r[i0]].prev = IF i0 = 1 THEN NULL ELSE r[i0 - 1]
        BY <1>5, <1>11, <3>1 DEF Links
      <4>2. QED
        BY <1>12, <3>1, <4>1
    <3>2. CASE i0 = 0 /\ r = <<>>
      BY <1>1, <1>12, <3>2
    <3>3. CASE i0 = 0 /\ r # <<>>
      <4>1. Last(r) = r[Len(r)] /\ Len(r) # 0
        BY <1>1, <3>3 DEF Last
      <4>2. QED
        BY <1>1, <1>12, <3>3, <4>1
    <3>4. QED
      BY <3>1, <3>2, <3>3
  <2> HIDE DEF x, before, after, a, b
  <2>4. QED
    BY <2>1, <2>2, <2>3
<1>15. b \in Nodes \cup {NULL} /\ b # n /\ a \in Nodes \cup {NULL} /\ a # n
  <2>1. n # NULL
    BY NodesFacts
  <2>2. b \in Nodes \cup {NULL} /\ b # n
    <3>1. p # 1 => p - 1 \in 1 .. Len(r)
      BY <1>1, <1>13
    <3>2. QED
      BY <1>1, <1>2, <2>1, <3>1
  <2>3. a \in Nodes \cup {NULL} /\ a # n
    <3>1. p # Len(r) + 1 => p \in 1 .. Len(r)
      BY <1>1, <1>13
    <3>2. QED
      BY <1>1, <1>2, <2>1, <3>1
  <2>4. QED
    BY <2>2, <2>3
<1> HIDE DEF i0, x
<1>16. Linked(v, x, n, b, a)
  <2> HIDE DEF a, b
  <2>1. QED
    BY <1>1, <1>14, <1>15, LinkFields
<1>17. Links(x, w)
  BY <1>3, <1>5, <1>13, <1>16, LinkedLinks
<1>18. \A k \in Nodes : /\ x.node[k].type = IF k = n THEN type ELSE u.node[k].type
                        /\ x.node[k].target = IF k = n THEN target ELSE u.node[k].target
                        /\ x.node[k].inuse = IF k = n THEN TRUE ELSE u.node[k].inuse
  <2> HIDE DEF a, b
  <2>1. \A k \in Nodes : SameNode(x.node[k], v.node[k])
    BY <1>16 DEF Linked
  <2>2. QED
    BY <1>4, <2>1 DEF SameNode
<1>19. InUse(x) = InUse(u) \cup {n}
  BY <1>18 DEF InUse
<1>20. /\ w \in Seq(Nodes) /\ Len(w) = Len(r) + 1
       /\ \A j \in 1 .. Len(r) + 1 :
            w[j] = IF j < p THEN r[j] ELSE IF j = p THEN n ELSE r[j - 1]
  BY <1>1, <1>13, InsertAtSeq
<1> HIDE DEF w
<1>21. Elements(w) = Elements(r) \cup {n}
  <2>1. ASSUME NEW j \in 1 .. Len(w) PROVE w[j] \in Elements(r) \cup {n}
    <3>1. CASE j < p
      <4>1. j \in 1 .. Len(r) /\ w[j] = r[j]
        BY <1>1, <1>13, <1>20, <3>1
      <4>2. QED
        BY <4>1 DEF Elements
    <3>2. CASE j = p
      BY <1>20, <3>2
    <3>3. CASE j > p
      <4>1. j - 1 \in 1 .. Len(r) /\ w[j] = r[j - 1]
        BY <1>1, <1>13, <1>20, <3>3
      <4>2. QED
        BY <4>1 DEF Elements
    <3>4. QED
      BY <1>1, <1>13, <1>20, <3>1, <3>2, <3>3
  <2>2. ASSUME NEW j \in 1 .. Len(r) PROVE r[j] \in Elements(w)
    <3>1. CASE j < p
      <4>1. j \in 1 .. Len(w) /\ w[j] = r[j]
        BY <1>1, <1>13, <1>20, <3>1
      <4>2. QED
        BY <4>1 DEF Elements
    <3>2. CASE j >= p
      <4>1. j + 1 \in 1 .. Len(w) /\ w[j + 1] = r[j]
        BY <1>1, <1>13, <1>20, <3>2
      <4>2. QED
        BY <4>1 DEF Elements
    <3>3. QED
      BY <1>1, <1>13, <3>1, <3>2
  <2>3. n \in Elements(w)
    BY <1>1, <1>13, <1>20 DEF Elements
  <2>4. QED
    BY <2>1, <2>2, <2>3 DEF Elements
<1>22. Distinct(x)
  <2>1. \A k \in InUse(u) : k \in Nodes /\ k # n /\ x.node[k].type = u.node[k].type
    BY <1>18 DEF InUse
  <2>2. x.node[n].type = type
    BY <1>18
  <2>3. QED
    BY <1>1, <1>19, <2>1, <2>2 DEF Distinct
<1>23. Chain(x, w)
  BY <1>1, <1>17, <1>19, <1>21, <1>22 DEF Chain
<1>24. EventsOf(x, w) = Abstract!InsertAt(q, p, e)
  <2>1. Abstract!InsertAt(q, p, e) = InsertAt(q, p, e)
    BY DEF Abstract!InsertAt, InsertAt
  <2>2. e \in Abstract!Event
    BY DEF Abstract!Event, Abstract!Types, Types
  <2>3. q \in Seq(Abstract!Event) /\ Len(q) = Len(r)
    BY <1>6 DEF Stands
  <2>4. /\ InsertAt(q, p, e) \in Seq(Abstract!Event)
        /\ Len(InsertAt(q, p, e)) = Len(r) + 1
        /\ \A j \in 1 .. Len(r) + 1 :
             InsertAt(q, p, e)[j] = IF j < p THEN q[j] ELSE IF j = p THEN e ELSE q[j - 1]
    <3> HIDE DEF e
    <3>1. p \in 1 .. Len(q) + 1
      BY <1>13, <2>3
    <3>2. q \in Seq(Abstract!Event)
      BY <2>3
    <3>3. /\ InsertAt(q, p, e) \in Seq(Abstract!Event)
          /\ Len(InsertAt(q, p, e)) = Len(q) + 1
          /\ \A j \in 1 .. Len(q) + 1 :
               InsertAt(q, p, e)[j] = IF j < p THEN q[j] ELSE IF j = p THEN e ELSE q[j - 1]
      BY <2>2, <3>1, <3>2, InsertAtSeq
    <3>4. QED
      BY <2>3, <3>3
  <2>5. \A j \in 1 .. Len(r) :
          [type |-> x.node[r[j]].type, target |-> x.node[r[j]].target] = q[j]
    BY <1>1, <1>2, <1>6, <1>18 DEF Stands
  <2>6. [type |-> x.node[n].type, target |-> x.node[n].target] = e
    BY <1>18
  <2> HIDE DEF e
  <2>7. ASSUME NEW j \in 1 .. Len(r) + 1
        PROVE  [type |-> x.node[w[j]].type, target |-> x.node[w[j]].target]
                 = InsertAt(q, p, e)[j]
    <3>1. CASE j < p
      <4>1. j \in 1 .. Len(r) /\ w[j] = r[j] /\ InsertAt(q, p, e)[j] = q[j]
        BY <1>1, <1>13, <1>20, <2>4, <3>1
      <4>2. QED
        BY <2>5, <4>1
    <3>2. CASE j = p
      BY <1>20, <2>4, <2>6, <3>2
    <3>3. CASE j > p
      <4>1. j - 1 \in 1 .. Len(r) /\ w[j] = r[j - 1] /\ InsertAt(q, p, e)[j] = q[j - 1]
        BY <1>1, <1>13, <1>20, <2>4, <3>3
      <4>2. QED
        BY <2>5, <4>1
    <3>4. QED
      BY <1>1, <1>13, <3>1, <3>2, <3>3
  <2>8. InsertAt(q, p, e) = [j \in 1 .. Len(r) + 1 |-> InsertAt(q, p, e)[j]]
    BY <2>4, LenProperties
  <2>9. EventsOf(x, w) = InsertAt(q, p, e)
    BY <1>20, <2>7, <2>8 DEF EventsOf
  <2>10. QED
    BY <2>1, <2>9
<1>25. x.header = n <=> p = 1
  <2>1. x.header = IF b = NULL THEN n ELSE v.header
    BY <1>16 DEF Linked
  <2>2. p # 1 => b # NULL
    <3>1. p # 1 => p - 1 \in 1 .. Len(r)
      BY <1>1, <1>13
    <3>2. QED
      BY <1>1, <3>1, NodesFacts
  <2>3. p # 1 => v.header # n
    <3>1. p # 1 => 1 \in 1 .. Len(r)
      BY <1>1, <1>13
    <3>2. p # 1 => v.header = r[1]
      BY <1>5, <3>1 DEF Links
    <3>3. QED
      BY <1>2, <3>1, <3>2
  <2>4. QED
    BY <2>1, <2>2, <2>3
<1>26. QED
  BY <1>18, <1>19, <1>23, <1>24, <1>25 DEF Placed, p, q, x

\* Node n was taken for the type in l: the least that no other type uses.
Takes(l, x, n, type, target) ==
    LET others == {k \in InUse(l) : l.node[k].type # type}
    IN  /\ n \in Nodes \ others
        /\ \A k \in Nodes \ others : n <= k
        /\ InUse(x) = others \cup {n}
        /\ \A k \in Nodes : /\ x.node[k].type = IF k = n THEN type ELSE l.node[k].type
                            /\ x.node[k].target = IF k = n THEN target ELSE l.node[k].target

\* Both steps of Add_New_Timer_Event
LEMMA InsertedMaps ==
    ASSUME NEW l, NEW w, Chain(l, w), NEW type \in Types, NEW target \in Int
    PROVE  LET new == Inserted(l, type, target)
               rest == Abstract!Without(EventsOf(l, w), type)
               p == Abstract!Place(rest, target)
           IN  /\ \E r : /\ Chain(new.list, r)
                         /\ EventsOf(new.list, r) =
                              Abstract!InsertAt(rest, p, [type |-> type, target |-> target])
               /\ new.list.header = new.node <=> p = 1
               /\ Takes(l, new.list, new.node, type, target)
<1> DEFINE u == Unlink(l, type)
           n == FreeNode(u)
           v == [u EXCEPT !.node[n].type = type, !.node[n].inuse = TRUE,
                          !.node[n].target = target]
           new == Inserted(l, type, target)
           rest == Abstract!Without(EventsOf(l, w), type)
           p == Abstract!Place(rest, target)
           others == {k \in InUse(l) : l.node[k].type # type}
<1>1. PICK r : /\ Chain(u, r)
               /\ EventsOf(u, r) = rest
               /\ InUse(u) = others
               /\ \A k \in Nodes : /\ u.node[k].type = l.node[k].type
                                   /\ u.node[k].target = l.node[k].target
  BY UnlinkDrops
<1>2. new.list = Link(v, n) /\ new.node = n
  BY DEF Inserted
<1> HIDE DEF u, new, rest, others
<1>3. u \in ListType /\ Distinct(u)
  BY <1>1 DEF Chain, Links
<1>4. \A k \in InUse(u) : k \in Nodes /\ u.node[k].type # type
  BY <1>1 DEF InUse, others
<1>5. /\ n \in Nodes \ InUse(u)
      /\ \A k \in Nodes \ InUse(u) : n <= k
  BY <1>3, <1>4, FreeNodeExists
<1> HIDE DEF n
<1>6. Filled(u, v, n, type, target)
  BY <1>3, <1>5, FillFields
<1> HIDE DEF v
<1>7. Placed(u, r, Link(v, n), n, type, target)
  BY <1>1, <1>4, <1>5, <1>6, LinkPlaces
<1>8. /\ \E s : /\ Chain(new.list, s)
                /\ EventsOf(new.list, s) =
                     Abstract!InsertAt(rest, p, [type |-> type, target |-> target])
      /\ new.list.header = new.node <=> p = 1
      /\ InUse(new.list) = InUse(u) \cup {n}
      /\ \A k \in Nodes :
           /\ new.list.node[k].type = IF k = n THEN type ELSE u.node[k].type
           /\ new.list.node[k].target = IF k = n THEN target ELSE u.node[k].target
  BY <1>1, <1>2, <1>7 DEF Placed
<1> HIDE DEF p
<1>9. Takes(l, new.list, new.node, type, target)
  <2>1. \A k \in Nodes :
          /\ new.list.node[k].type = IF k = n THEN type ELSE l.node[k].type
          /\ new.list.node[k].target = IF k = n THEN target ELSE l.node[k].target
    BY <1>1, <1>8
  <2>2. InUse(new.list) = others \cup {n}
    BY <1>1, <1>8
  <2>3. n \in Nodes \ others /\ \A k \in Nodes \ others : n <= k
    BY <1>1, <1>5
  <2>4. QED
    BY <1>2, <2>1, <2>2, <2>3 DEF Takes, others
<1>10. QED
  BY <1>8, <1>9 DEF new, rest, p
----------------------------------------------------------------------------
(* The list and the counters *)

StateType == [list : ListType, current : Int, leap : Int, countdown : Int]

\* No tick before 0: current_counter and the targets are unsigned.
Early(s) ==
    /\ 0 <= s.current /\ 0 <= s.current + s.leap /\ 0 <= Now(s)
    /\ \A k \in Nodes : 0 <= s.list.node[k].target

Good(s) == s \in StateType /\ Early(s) /\ \E w : Chain(s.list, w)

\* The state of TimerEvents that s stands for
Abs(s) == [events |-> Events(s.list), current |-> s.current, leap |-> s.leap,
           countdown |-> s.countdown]

LEMMA GoodFields ==
    ASSUME NEW s, Good(s)
    PROVE  /\ s.list \in ListType
           /\ s.current \in Int /\ s.leap \in Int /\ s.countdown \in Int
           /\ Now(s) \in Int /\ Abstract!Now(Abs(s)) = Now(s)
           /\ Abs(s) \in Abstract!TimerState
<1>1. /\ s.list \in ListType
      /\ s.current \in Int /\ s.leap \in Int /\ s.countdown \in Int
  BY DEF Good, StateType
<1>2. PICK w : Chain(s.list, w)
  BY DEF Good
<1>3. Events(s.list) = EventsOf(s.list, w) /\ Stands(s.list, w, EventsOf(s.list, w))
  BY <1>2, EventsFacts DEF Chain
<1>4. Events(s.list) \in Seq(Abstract!Event)
  BY <1>3 DEF Stands
<1>5. QED
  BY <1>1, <1>4 DEF Abs, Now, Abstract!Now, Abstract!TimerState

\* The header is the first event.
LEMMA HeaderIsHead ==
    ASSUME NEW s, Good(s)
    PROVE  LET q == Abs(s).events
               h == s.list.header
           IN  /\ q = <<>> <=> h = NULL
               /\ h # NULL => /\ h \in Nodes /\ q # <<>>
                              /\ Head(q).target = s.list.node[h].target
                              /\ Head(q).type = s.list.node[h].type
<1>1. PICK w : Chain(s.list, w)
  BY DEF Good
<1>2. Links(s.list, w)
  BY <1>1 DEF Chain
<1> DEFINE q == Events(s.list)
<1>3. Stands(s.list, w, q)
  BY <1>2, EventsFacts
<1> HIDE DEF q
<1>4. /\ s.list.header = (IF Len(w) = 0 THEN NULL ELSE w[1])
      /\ w \in Seq(Nodes)
  BY <1>2 DEF Links
<1>5. q \in Seq(Abstract!Event) /\ Len(q) = Len(w) /\ Len(w) \in Nat
  BY <1>3 DEF Stands
<1>6. CASE Len(w) = 0
  BY <1>4, <1>5, <1>6 DEF Abs, q
<1>7. CASE Len(w) # 0
  <2>1. 1 \in 1 .. Len(w) /\ q # <<>> /\ Head(q) = q[1]
    BY <1>5, <1>7
  <2>2. w[1] \in Nodes /\ q[1].target = s.list.node[w[1]].target
                       /\ q[1].type = s.list.node[w[1]].type
    BY <1>3, <2>1 DEF Stands
  <2>3. w[1] # NULL
    BY <2>2, NodesFacts
  <2>4. QED
    BY <1>4, <1>7, <2>1, <2>2, <2>3 DEF Abs, q
<1>8. QED
  BY <1>6, <1>7

\* Setting fields of an abstract state
LEMMA CountersSet ==
    ASSUME NEW s, NEW x, NEW y
    PROVE  [Abs(s) EXCEPT !.current = x, !.leap = y, !.countdown = y]
             = [events |-> Events(s.list), current |-> x, leap |-> y, countdown |-> y]
<1> DEFINE a == [Abs(s) EXCEPT !.current = x]
           b == [a EXCEPT !.leap = y]
           c == [b EXCEPT !.countdown = y]
<1>1. a = [events |-> Events(s.list), current |-> x, leap |-> s.leap,
           countdown |-> s.countdown]
  BY DEF Abs
<1>2. b = [events |-> Events(s.list), current |-> x, leap |-> y, countdown |-> s.countdown]
  <2> HIDE DEF a
  <2>1. QED
    BY <1>1
<1>3. c = [events |-> Events(s.list), current |-> x, leap |-> y, countdown |-> y]
  <2> HIDE DEF b
  <2>1. QED
    BY <1>2
<1>4. QED
  BY <1>3

LEMMA EventsSet ==
    ASSUME NEW s, NEW q
    PROVE  [Abs(s) EXCEPT !.events = q]
             = [events |-> q, current |-> s.current, leap |-> s.leap,
                countdown |-> s.countdown]
BY DEF Abs

LEMMA RefreshMaps ==
    ASSUME NEW s, Good(s)
    PROVE  LET t == Refresh(s) IN
           Good(t) /\ t.list = s.list /\ Abs(t) = Abstract!Refresh(Abs(s))
<1>1. /\ s.list \in ListType
      /\ s.current \in Int /\ s.leap \in Int /\ s.countdown \in Int
      /\ Now(s) \in Int /\ Abstract!Now(Abs(s)) = Now(s)
  BY GoodFields
<1> DEFINE q == Abs(s).events
           h == s.list.header
<1>2. /\ q = <<>> <=> h = NULL
      /\ h # NULL => /\ h \in Nodes /\ q # <<>>
                     /\ Head(q).target = s.list.node[h].target
  BY HeaderIsHead
<1>3. CASE h = NULL
  BY <1>2, <1>3 DEF Refresh, Abstract!Refresh
<1>4. CASE h # NULL
  <2> DEFINE gap == s.list.node[h].target - Now(s)
             to == IF gap > Far THEN Far ELSE gap
             t == [s EXCEPT !.current = Now(s), !.leap = to, !.countdown = to]
  <2>1. gap \in Int /\ to \in Int
    BY <1>1, <1>2, <1>4, NodeFields, EventsAssumption
  <2>2. Refresh(s) = t
    BY <1>4 DEF Refresh
  <2>3. Abstract!Refresh(Abs(s)) =
          [Abs(s) EXCEPT !.current = Now(s), !.leap = to, !.countdown = to]
    BY <1>1, <1>2, <1>4 DEF Abstract!Refresh
  <2> HIDE DEF gap, to
  <2>4. /\ t \in StateType /\ t.list = s.list /\ t.current = Now(s)
        /\ t.leap = to /\ t.countdown = to
    <3>1. s \in StateType
      BY DEF Good
    <3>2. QED
      BY <1>1, <2>1, <3>1 DEF StateType
  <2> HIDE DEF t
  <2>5. Good(t)
    <3>1. PICK w : Chain(s.list, w)
      BY DEF Good
    <3>2. Chain(t.list, w)
      BY <2>4, <3>1
    <3>3. Early(t)
      <4>1. 0 <= Now(s) /\ \A k \in Nodes : 0 <= s.list.node[k].target
        BY DEF Good, Early
      <4>2. 0 <= Now(s) + to
        <5>1. s.list.node[h].target \in Int /\ 0 <= s.list.node[h].target
              /\ Far \in Nat /\ Now(s) \in Int
          BY <1>1, <1>2, <1>4, <4>1, NodeFields, EventsAssumption
        <5>2. QED
          BY <4>1, <5>1 DEF gap, to
      <4>3. Now(t) = Now(s)
        BY <1>1, <2>1, <2>4 DEF Now
      <4>4. QED
        BY <2>4, <4>1, <4>2, <4>3 DEF Early
    <3>4. QED
      BY <2>4, <3>2, <3>3 DEF Good
  <2>6. Abs(t) = [Abs(s) EXCEPT !.current = Now(s), !.leap = to, !.countdown = to]
    <3>1. Events(t.list) = Events(s.list)
      BY <2>4
    <3>2. Abs(t) = [events |-> Events(s.list), current |-> Now(s), leap |-> to,
                    countdown |-> to]
      BY <2>4, <3>1 DEF Abs
    <3>3. QED
      BY <3>2, CountersSet
  <2>7. QED
    BY <2>2, <2>3, <2>4, <2>5, <2>6
<1>5. QED
  BY <1>3, <1>4

LEMMA AddEventMaps ==
    ASSUME NEW s, Good(s), NEW type, type \in Types, NEW delay, delay \in Nat,
           NEW slack, slack \in Nat
    PROVE  LET t == AddEvent(s, type, delay, slack) IN
           /\ Good(t)
           /\ Abs(t) = Abstract!AddEvent(Abs(s), type, delay, slack)
           /\ \E n, target : Takes(s.list, t.list, n, type, target)
<1> DEFINE target == Now(s) + delay + (IF type = "VI" THEN 0 ELSE slack)
           new == Inserted(s.list, type, target)
           t == [s EXCEPT !.list = new.list]
           rest == Abstract!Without(Abs(s).events, type)
           p == Abstract!Place(rest, target)
           e == [type |-> type, target |-> target]
<1>1. /\ Now(s) \in Int /\ Abstract!Now(Abs(s)) = Now(s) /\ s \in StateType
  BY GoodFields DEF Good
<1>2. target \in Int /\ 0 <= target
  BY <1>1 DEF Good, Early
<1>3. PICK w : Chain(s.list, w)
  BY DEF Good
<1>4. Abs(s).events = EventsOf(s.list, w)
  BY <1>3, EventsFacts DEF Abs, Chain
<1>5. AddEvent(s, type, delay, slack) = IF new.list.header = new.node THEN Refresh(t) ELSE t
  BY DEF AddEvent
<1>6. Abstract!AddEvent(Abs(s), type, delay, slack) =
        LET added == [Abs(s) EXCEPT !.events = Abstract!InsertAt(rest, p, e)]
        IN  IF p = 1 THEN Abstract!Refresh(added) ELSE added
  BY <1>1 DEF Abstract!AddEvent
<1> HIDE DEF target, new
<1>7. /\ \E r : /\ Chain(new.list, r)
                /\ EventsOf(new.list, r) = Abstract!InsertAt(rest, p, e)
      /\ new.list.header = new.node <=> p = 1
      /\ Takes(s.list, new.list, new.node, type, target)
  BY <1>2, <1>3, <1>4, InsertedMaps DEF new
<1>8. PICK r : Chain(new.list, r) /\ EventsOf(new.list, r) = Abstract!InsertAt(rest, p, e)
  BY <1>7
<1> HIDE DEF rest, p, e
<1>9. Events(new.list) = Abstract!InsertAt(rest, p, e) /\ new.list \in ListType
  BY <1>8, EventsFacts DEF Chain, Links
<1>10. /\ t \in StateType /\ t.list = new.list /\ t.current = s.current
       /\ t.leap = s.leap /\ t.countdown = s.countdown
  BY <1>1, <1>9 DEF StateType
<1> HIDE DEF t
<1>11. Good(t)
  <2>1. \A k \in Nodes : 0 <= new.list.node[k].target
    BY <1>2, <1>7 DEF Takes, Good, Early
  <2>2. Early(t)
    BY <1>10, <2>1 DEF Good, Early, Now
  <2>3. QED
    BY <1>8, <1>10, <2>2 DEF Good
<1>12. Abs(t) = [Abs(s) EXCEPT !.events = Abstract!InsertAt(rest, p, e)]
  BY <1>9, <1>10 DEF Abs
<1>13. Good(Refresh(t)) /\ Refresh(t).list = t.list /\ Abs(Refresh(t)) = Abstract!Refresh(Abs(t))
  BY <1>11, RefreshMaps
<1>14. CASE p = 1
  BY <1>5, <1>6, <1>7, <1>10, <1>12, <1>13, <1>14
<1>15. CASE p # 1
  BY <1>5, <1>6, <1>7, <1>10, <1>11, <1>12, <1>15
<1>16. QED
  BY <1>14, <1>15

\* VI and COMPARE have the first two nodes; Kept when one of them was fired.
Kept(l, type) ==
    /\ l.node[0].type = "COMPARE" /\ l.node[1].type = "VI"
    /\ type # "COMPARE" => 0 \in InUse(l)
    /\ type # "VI" => 1 \in InUse(l)
Own(l) == /\ l.node[0].type = "COMPARE" /\ 0 \in InUse(l)
          /\ l.node[1].type = "VI" /\ 1 \in InUse(l)

LEMMA TakesOwn ==
    ASSUME NEW l, NEW x, NEW n, NEW type, NEW target, Takes(l, x, n, type, target),
           Kept(l, type)
    PROVE  Own(x)
<1> DEFINE others == {k \in InUse(l) : l.node[k].type # type}
<1>1. /\ n \in Nodes \ others /\ \A k \in Nodes \ others : n <= k
      /\ InUse(x) = others \cup {n}
      /\ \A k \in Nodes : x.node[k].type = IF k = n THEN type ELSE l.node[k].type
  BY DEF Takes
<1>2. /\ 0 \in Nodes /\ 1 \in Nodes /\ \A k \in Nodes : k \in Int /\ 0 <= k
  BY NodesFacts
<1>3. /\ l.node[0].type = "COMPARE" /\ l.node[1].type = "VI"
      /\ type # "COMPARE" => 0 \in others
      /\ type # "VI" => 1 \in others
      /\ type = "COMPARE" => 0 \notin others
      /\ type = "VI" => 1 \notin others
  BY DEF Kept
<1> HIDE DEF others
<1>4. CASE type = "COMPARE"
  <2>1. n <= 0 /\ n \in Int /\ 0 <= n
    BY <1>1, <1>2, <1>3, <1>4
  <2>2. n = 0
    BY <2>1
  <2>3. 1 \in others
    BY <1>3, <1>4
  <2>4. QED
    BY <1>1, <1>2, <1>3, <1>4, <2>2, <2>3 DEF Own
<1>5. CASE type = "VI"
  <2>1. n <= 1 /\ n \in Int /\ 0 <= n /\ n # 0
    BY <1>1, <1>2, <1>3, <1>5
  <2>2. n = 1
    BY <2>1
  <2>3. 0 \in others
    BY <1>3, <1>5
  <2>4. QED
    BY <1>1, <1>2, <1>3, <1>5, <2>2, <2>3 DEF Own
<1>6. CASE type \notin {"COMPARE", "VI"}
  <2>1. 0 \in others /\ 1 \in others /\ n # 0 /\ n # 1
    BY <1>1, <1>3, <1>6
  <2>2. QED
    BY <1>1, <1>2, <1>3, <2>1 DEF Own
<1>7. QED
  BY <1>4, <1>5, <1>6

\* Remove_1st_Timer_Event
LEMMA RemoveHeadMaps ==
    ASSUME NEW s, Good(s), s.list.header # NULL
    PROVE  LET t == RemoveHead(s) IN
           /\ Good(t)
           /\ Abs(t) = Abstract!RemoveHead(Abs(s))
           /\ Own(s.list) => Kept(t.list, s.list.node[s.list.header].type)
<1> DEFINE l == s.list
           h == l.header
           next == l.node[h].next
           b == Release(l, h)
           c == [b EXCEPT !.header = next]
           u == LinkPrev(c, next, NULL)
           r == [s EXCEPT !.list = u]
<1>1. PICK w : Chain(l, w)
  BY DEF Good
<1>2. /\ Links(l, w) /\ l \in ListType /\ w \in Seq(Nodes) /\ Len(w) \in Nat
      /\ InUse(l) = Elements(w) /\ Distinct(l)
  BY <1>1 DEF Chain, Links
<1>3. Len(w) # 0 /\ 1 \in 1 .. Len(w) /\ h = w[1] /\ h \in Nodes
      /\ l.node[h].prev = NULL
  BY <1>2 DEF Links
<1>4. next \in Nodes \cup {NULL}
  BY <1>2, <1>3, NodeFields
<1>5. RemoveHead(s) = Refresh(r)
  BY DEF RemoveHead
<1> HIDE DEF h, next, l, u
<1>6. Freed(l, b, h)
  BY <1>2, <1>3, ReleaseFields
<1> HIDE DEF b
<1>7. c \in ListType /\ c.node = b.node /\ c.header = next
  <2>1. b \in ListType
    BY <1>6 DEF Freed
  <2>2. QED
    BY <1>4, <2>1 DEF ListType
<1> HIDE DEF c
<1>8. PrevSet(c, u, next, NULL)
  BY <1>4, <1>7, LinkPrevFields DEF u
<1>9. Unlinked(l, u, h)
  <2>1. u \in ListType /\ u.header = (IF l.node[h].prev = NULL THEN next ELSE l.header)
    BY <1>3, <1>7, <1>8 DEF PrevSet
  <2>2. ASSUME NEW k \in Nodes
        PROVE  /\ u.node[k].type = l.node[k].type /\ u.node[k].target = l.node[k].target
               /\ u.node[k].inuse = (IF k = h THEN FALSE ELSE l.node[k].inuse)
               /\ u.node[k].next = IF k = l.node[h].prev THEN next ELSE l.node[k].next
               /\ u.node[k].prev = IF k = next THEN l.node[h].prev ELSE l.node[k].prev
    <3>1. k # NULL
      BY NodesFacts
    <3>2. /\ SameNode(u.node[k], c.node[k])
          /\ u.node[k].prev = IF k = next THEN NULL ELSE c.node[k].prev
          /\ u.node[k].next = c.node[k].next
      BY <1>8 DEF PrevSet
    <3>3. /\ b.node[k].type = l.node[k].type /\ b.node[k].target = l.node[k].target
          /\ b.node[k].inuse = (IF k = h THEN FALSE ELSE l.node[k].inuse)
          /\ b.node[k].prev = l.node[k].prev /\ b.node[k].next = l.node[k].next
      BY <1>6 DEF Freed
    <3>4. c.node[k] = b.node[k] /\ l.node[h].prev = NULL
      BY <1>3, <1>7
    <3>5. QED
      BY <3>1, <3>2, <3>3, <3>4 DEF SameNode
  <2>3. QED
    BY <2>1, <2>2 DEF Unlinked, next
<1>10. Chain(u, RemoveAt(w, 1)) /\ InUse(u) = InUse(l) \ {h}
  BY <1>1, <1>3, <1>9, UnlinkedChain
<1>11. \A k \in Nodes : /\ u.node[k].type = l.node[k].type
                        /\ u.node[k].target = l.node[k].target
  BY <1>9 DEF Unlinked
<1> DEFINE q == EventsOf(l, w)
<1>12. EventsOf(u, RemoveAt(w, 1)) = RemoveAt(q, 1)
  BY <1>2, <1>3, <1>11, UnlinkedEvents
<1>13. Stands(l, w, q) /\ Abs(s).events = q
  BY <1>2, EventsFacts DEF Abs, l
<1>14. Events(u) = RemoveAt(q, 1)
  BY <1>10, <1>12, EventsFacts DEF Chain
<1> HIDE DEF q
<1>15. RemoveAt(q, 1) = Tail(q)
  <2>1. q \in Seq(Abstract!Event) /\ Len(q) = Len(w)
    BY <1>13 DEF Stands
  <2>2. 1 \in 1 .. Len(q)
    BY <1>3, <2>1
  <2>3. /\ RemoveAt(q, 1) \in Seq(Abstract!Event) /\ Len(RemoveAt(q, 1)) = Len(q) - 1
        /\ \A j \in 1 .. Len(q) - 1 : RemoveAt(q, 1)[j] = IF j < 1 THEN q[j] ELSE q[j + 1]
    BY <2>1, <2>2, RemoveAtSeq
  <2>4. \A j \in 1 .. Len(q) - 1 : RemoveAt(q, 1)[j] = q[j + 1]
    BY <1>2, <2>1, <2>3
  <2>5. Tail(q) \in Seq(Abstract!Event) /\ Len(Tail(q)) = Len(q) - 1
        /\ \A j \in 1 .. Len(q) - 1 : Tail(q)[j] = q[j + 1]
    BY <2>1, <2>2
  <2> DEFINE x == RemoveAt(q, 1)
             y == Tail(q)
  <2>6. x \in Seq(Abstract!Event) /\ y \in Seq(Abstract!Event) /\ Len(x) = Len(y)
        /\ \A j \in 1 .. Len(x) : x[j] = y[j]
    BY <2>3, <2>4, <2>5
  <2> HIDE DEF x, y
  <2>7. x = y
    BY <2>6, SeqEqual
  <2>8. QED
    BY <2>7 DEF x, y
<1>16. /\ r \in StateType /\ r.list = u /\ r.current = s.current
       /\ r.leap = s.leap /\ r.countdown = s.countdown
  <2>1. u \in ListType /\ s \in StateType
    BY <1>8 DEF PrevSet, Good
  <2>2. QED
    BY <2>1 DEF StateType
<1> HIDE DEF r
<1>17. Good(r)
  <2>1. \A k \in Nodes : 0 <= u.node[k].target
    BY <1>11 DEF Good, Early, l
  <2>2. Early(r)
    BY <1>16, <2>1 DEF Good, Early, Now
  <2>3. QED
    BY <1>10, <1>16, <2>2 DEF Good
<1>18. Abs(r) = [Abs(s) EXCEPT !.events = Tail(Abs(s).events)]
  <2>1. Events(r.list) = Tail(Abs(s).events)
    BY <1>13, <1>14, <1>15, <1>16
  <2>2. Abs(r) = [events |-> Tail(Abs(s).events), current |-> s.current,
                  leap |-> s.leap, countdown |-> s.countdown]
    BY <1>16, <2>1 DEF Abs
  <2>3. QED
    BY <2>2, EventsSet
<1>19. Good(Refresh(r)) /\ Refresh(r).list = u /\ Abs(Refresh(r)) = Abstract!Refresh(Abs(r))
  BY <1>16, <1>17, RefreshMaps
<1>20. Own(l) => Kept(u, l.node[h].type)
  BY <1>10, <1>11, NodesFacts DEF Own, Kept
<1>21. QED
  BY <1>5, <1>18, <1>19, <1>20 DEF Abstract!RemoveHead, l, h

LEMMA CountdownMaps ==
    ASSUME NEW s, Good(s), NEW c, c \in Int, c <= s.current + s.leap
    PROVE  LET t == [s EXCEPT !.countdown = c] IN
           Good(t) /\ t.list = s.list /\ Abs(t) = [Abs(s) EXCEPT !.countdown = c]
<1> DEFINE t == [s EXCEPT !.countdown = c]
<1>1. s \in StateType
  BY DEF Good
<1>2. /\ t \in StateType /\ t.list = s.list /\ t.current = s.current
      /\ t.leap = s.leap /\ t.countdown = c
  BY <1>1 DEF StateType
<1> HIDE DEF t
<1>3. PICK w : Chain(s.list, w)
  BY DEF Good
<1>4. Good(t)
  <2>1. s.current \in Int /\ s.leap \in Int
    BY GoodFields
  <2>2. Early(t)
    BY <1>2, <2>1 DEF Good, Early, Now
  <2>3. QED
    BY <1>2, <1>3, <2>2 DEF Good
<1>5. Abs(t) = [events |-> Events(s.list), current |-> s.current, leap |-> s.leap,
                countdown |-> c]
  BY <1>2 DEF Abs
<1>6. [Abs(s) EXCEPT !.countdown = c] =
        [events |-> Events(s.list), current |-> s.current, leap |-> s.leap, countdown |-> c]
  BY DEF Abs
<1>7. QED
  BY <1>2, <1>4, <1>5, <1>6 DEF t

\* An emptied list links no node.
LEMMA EmptiedChain ==
    ASSUME NEW l, l \in ListType
    PROVE  /\ Chain(Emptied(l), <<>>)
           /\ Events(Emptied(l)) = <<>>
           /\ InUse(Emptied(l)) = {}
           /\ \A n \in Nodes : Emptied(l).node[n].target = l.node[n].target
<1> DEFINE x(n) == [l.node[n] EXCEPT !.inuse = FALSE, !.next = NULL, !.prev = NULL]
           node == [n \in Nodes |-> x(n)]
           e == Emptied(l)
<1>1. e = [node |-> node, header |-> NULL]
  BY DEF Emptied
<1>2. \A n \in Nodes : x(n) \in Node /\ x(n).inuse = FALSE
                         /\ x(n).target = l.node[n].target
  <2>1. \A n \in Nodes : l.node[n] \in Node
    BY DEF ListType
  <2>2. QED
    BY <2>1 DEF Node
<1> HIDE DEF x, e
<1>3. node \in [Nodes -> Node] /\ \A n \in Nodes : /\ node[n].inuse = FALSE
                                                  /\ node[n].target = l.node[n].target
  BY <1>2
<1> HIDE DEF node
<1>4. e \in ListType /\ e.header = NULL 
      /\ \A n \in Nodes : e.node[n].inuse = FALSE /\ e.node[n].target = l.node[n].target
  BY <1>1, <1>3 DEF ListType
<1>5. InUse(e) = {}
  BY <1>4 DEF InUse
<1>6. <<>> \in Seq(Nodes) /\ Len(<<>>) = 0 /\ 1 .. 0 = {}
  OBVIOUS
<1>7. Links(e, <<>>)
  BY <1>4, <1>6 DEF Links
<1>8. Chain(e, <<>>)
  BY <1>5, <1>6, <1>7 DEF Chain, Distinct, Elements
<1>9. Events(e) = EventsOf(e, <<>>) /\ Stands(e, <<>>, EventsOf(e, <<>>))
  BY <1>7, EventsFacts
<1>10. Events(e) = <<>>
  <2>1. Events(e) \in Seq(Abstract!Event) /\ Len(Events(e)) = 0
    BY <1>6, <1>9 DEF Stands
  <2>2. QED
    BY <2>1
<1>11. QED
  BY <1>4, <1>5, <1>8, <1>10 DEF e

\* COMPARE, then VI, take the first two nodes of an empty pool.
LEMMA FirstTwo ==
    ASSUME NEW l, InUse(l) = {},
           NEW x, NEW n, NEW target, Takes(l, x, n, "COMPARE", target),
           NEW y, NEW m, NEW then, Takes(x, y, m, "VI", then)
    PROVE  Own(y)
<1>1. /\ 0 \in Nodes /\ 1 \in Nodes /\ \A k \in Nodes : k \in Int /\ 0 <= k
  BY NodesFacts
<1>2. /\ n \in Nodes /\ \A k \in Nodes : n <= k
      /\ InUse(x) = {n} /\ x.node[n].type = "COMPARE"
  BY DEF Takes
<1>3. n = 0
  BY <1>1, <1>2
<1>4. {k \in InUse(x) : x.node[k].type # "VI"} = {0}
  BY <1>2, <1>3
<1>5. /\ m \in Nodes \ {0} /\ \A k \in Nodes \ {0} : m <= k
      /\ InUse(y) = {0} \cup {m}
      /\ \A k \in Nodes : y.node[k].type = IF k = m THEN "VI" ELSE x.node[k].type
  BY <1>4 DEF Takes
<1>6. m = 1
  <2>1. m <= 1 /\ m \in Int /\ 0 <= m /\ m # 0
    BY <1>1, <1>5
  <2>2. QED
    BY <2>1
<1>7. QED
  BY <1>1, <1>2, <1>3, <1>5, <1>6 DEF Own

LEMMA Quotients ==
    ASSUME NEW x \in Nat, NEW c \in Nat \ {0}
    PROVE  x \div c \in Nat /\ x % c \in Nat
<1>1. x \div c \in Nat
  BY Lemmas!DivBounds, LemmasApply
<1>2. QED
  BY <1>1

\* The distances and delays of the abstract operations are natural numbers.
LEMMA DelaysAreNaturals ==
    /\ \A v, c \in 0 .. Wrap - 1 : /\ Abstract!CompareDelay(v, c) \in Nat
                                   /\ Abstract!InitialCompareDelay(v, c) \in Nat
    /\ \A type \in Tasks : Delay[type] \in Nat
    /\ Slack \subseteq Nat /\ Values \subseteq 0 .. Wrap - 1 /\ FramePeriods \subseteq Nat
    /\ Wrap \in Nat /\ 0 \in Nat
<1>1. /\ Wrap \in Nat \ {0} /\ CF \in Nat \ {0} /\ VCF \in Nat \ {0}
  BY EventsAssumption
<1>2. \A x \in Nat : x \div CF \in Nat /\ x * VCF \in Nat /\ x % Wrap \in Nat
  BY <1>1, Quotients
<1>3. ASSUME NEW v \in 0 .. Wrap - 1, NEW c \in 0 .. Wrap - 1
      PROVE  Abstract!CompareDelay(v, c) \in Nat /\ Abstract!InitialCompareDelay(v, c) \in Nat
  <2>1. Wrap + v - c \in Nat /\ (v > c => v - c \in Nat)
    BY <1>1
  <2>2. /\ ((Wrap + v - c) * VCF) \div CF \in Nat
        /\ v > c => /\ ((v - c) * VCF) \div CF \in Nat
                    /\ (((v - c) * VCF) % Wrap) \div CF \in Nat
    BY <1>2, <2>1
  <2>3. QED
    BY <2>2 DEF Abstract!CompareDelay, Abstract!InitialCompareDelay
<1>4. QED
  BY <1>1, <1>3, EventsAssumption

LEMMA RestartedMaps ==
    ASSUME NEW l, l \in ListType, \A k \in Nodes : 0 <= l.node[k].target,
           NEW count, count \in 0 .. Wrap - 1, NEW value, value \in 0 .. Wrap - 1,
           NEW frame, frame \in FramePeriods, NEW slack, slack \in Slack
    PROVE  LET t == Restarted(l, count, value, frame, slack) IN
           /\ Good(t) /\ Own(t.list)
           /\ Abs(t) = Abstract!Restarted(count, value, frame, slack)
<1> DEFINE now == ((count * VCF) % Wrap) \div CF
           empty == [list |-> Emptied(l), current |-> now, leap |-> 0, countdown |-> 0]
           abs0 == [events |-> <<>>, current |-> now, leap |-> 0, countdown |-> 0]
           delay == Abstract!InitialCompareDelay(value, count)
           a == AddEvent(empty, "COMPARE", delay, slack)
           b == AddEvent(a, "VI", now % frame, 0)
           t == Restarted(l, count, value, frame, slack)
<1>1. now \in Nat /\ now % frame \in Nat
  <2>1. /\ count * VCF \in Nat /\ Wrap \in Nat \ {0} /\ CF \in Nat \ {0}
        /\ frame \in Nat \ {0}
    BY EventsAssumption
  <2>2. \A x \in Nat : x % Wrap \in Nat /\ x \div CF \in Nat /\ x % frame \in Nat
    BY <2>1, Quotients
  <2>3. QED
    BY <2>1, <2>2
<1>2. t = b
  BY DEF Restarted
<1>3. Abstract!Restarted(count, value, frame, slack) =
        Abstract!AddEvent(Abstract!AddEvent(abs0, "COMPARE", delay, slack),
                          "VI", now % frame, 0)
  BY DEF Abstract!Restarted
<1> HIDE DEF now, t, delay
<1>4. /\ Chain(Emptied(l), <<>>) /\ Events(Emptied(l)) = <<>> /\ InUse(Emptied(l)) = {}
      /\ \A k \in Nodes : Emptied(l).node[k].target = l.node[k].target
  BY EmptiedChain
<1>5. /\ empty \in StateType /\ empty.list = Emptied(l)
      /\ empty.current = now /\ empty.leap = 0 /\ empty.countdown = 0
  BY <1>1, <1>4 DEF StateType, Chain, Links
<1>6. Abs(empty) = abs0
  BY <1>4 DEF Abs
<1> HIDE DEF empty, abs0
<1>7. Good(empty)
  <2>1. Early(empty)
    BY <1>1, <1>4, <1>5 DEF Early, Now
  <2>2. QED
    BY <1>4, <1>5, <2>1 DEF Good
<1>8. /\ "COMPARE" \in Types /\ "VI" \in Types /\ slack \in Nat /\ 0 \in Nat
      /\ delay \in Nat
  BY DelaysAreNaturals DEF Types, delay
<1>9. /\ Good(a) /\ Abs(a) = Abstract!AddEvent(Abs(empty), "COMPARE", delay, slack)
      /\ \E n, target : Takes(empty.list, a.list, n, "COMPARE", target)
  BY <1>7, <1>8, AddEventMaps
<1> HIDE DEF a
<1>10. /\ Good(b) /\ Abs(b) = Abstract!AddEvent(Abs(a), "VI", now % frame, 0)
       /\ \E n, target : Takes(a.list, b.list, n, "VI", target)
  BY <1>1, <1>8, <1>9, AddEventMaps
<1> HIDE DEF b
<1>11. Own(b.list)
  BY <1>4, <1>5, <1>9, <1>10, FirstTwo
<1>12. QED
  BY <1>2, <1>3, <1>6, <1>9, <1>10, <1>11 DEF t

\* A task takes neither of the two nodes, VI and COMPARE get theirs back.
LEMMA AddEventOwn ==
    ASSUME NEW s, Good(s), NEW type, type \in Types, Kept(s.list, type),
           NEW delay, delay \in Nat, NEW slack, slack \in Nat
    PROVE  LET t == AddEvent(s, type, delay, slack) IN
           /\ Good(t) /\ Own(t.list)
           /\ Abs(t) = Abstract!AddEvent(Abs(s), type, delay, slack)
BY AddEventMaps, TakesOwn

LEMMA OwnKept ==
    ASSUME NEW l
    PROVE  /\ \A type : Own(l) => Kept(l, type)
           /\ \A type : type \notin {"VI", "COMPARE"} /\ Kept(l, type) => Own(l)
BY DEF Own, Kept

LEMMA RearmedMaps ==
    ASSUME NEW s, Good(s), NEW type, type \in Types, Kept(s.list, type),
           NEW slack, slack \in Slack, period \in FramePeriods,
           NEW t, t \in Rearmed(s, type, slack)
    PROVE  Good(t) /\ Own(t.list) /\ Abs(t) \in Abstract!Rearmed(Abs(s), type, slack)
<1>1. /\ slack \in Nat /\ 0 \in Nat /\ period \in Nat /\ Wrap \in Nat
      /\ "VI" \in Types /\ "COMPARE" \in Types
  BY DelaysAreNaturals DEF Types
<1>2. CASE type = "VI"
  <2>1. t = AddEvent(s, "VI", period, 0)
    BY <1>2 DEF Rearmed
  <2>2. Good(t) /\ Own(t.list) /\ Abs(t) = Abstract!AddEvent(Abs(s), "VI", period, 0)
    BY <1>1, <1>2, <2>1, AddEventOwn
  <2>3. QED
    BY <1>2, <2>2 DEF Abstract!Rearmed
<1>3. CASE type = "COMPARE"
  <2>1. t = AddEvent(s, "COMPARE", Wrap, slack)
    BY <1>3 DEF Rearmed
  <2>2. Good(t) /\ Own(t.list) /\ Abs(t) = Abstract!AddEvent(Abs(s), "COMPARE", Wrap, slack)
    BY <1>1, <1>3, <2>1, AddEventOwn
  <2>3. QED
    BY <1>3, <2>2 DEF Abstract!Rearmed
<1>4. CASE type \notin {"VI", "COMPARE"}
  <2>1. Own(s.list) /\ Kept(s.list, "SI_IO")
    BY <1>4, OwnKept
  <2>2. CASE type = "SI_DMA" /\ "SI_IO" \in Tasks
    <3>1. Abstract!Rearmed(Abs(s), type, slack) =
            {Abs(s), Abstract!AddEvent(Abs(s), "SI_IO", Delay["SI_IO"], slack)}
      BY <2>2 DEF Abstract!Rearmed
    <3>2. t = s \/ t = AddEvent(s, "SI_IO", Delay["SI_IO"], slack)
      BY <2>2 DEF Rearmed
    <3>3. "SI_IO" \in Types /\ Delay["SI_IO"] \in Nat
      BY <2>2, DelaysAreNaturals DEF Types
    <3>4. CASE t = s
      BY <2>1, <3>1, <3>4
    <3>5. CASE t = AddEvent(s, "SI_IO", Delay["SI_IO"], slack)
      <4>1. /\ Good(t) /\ Own(t.list)
            /\ Abs(t) = Abstract!AddEvent(Abs(s), "SI_IO", Delay["SI_IO"], slack)
        BY <1>1, <2>1, <3>3, <3>5, AddEventOwn
      <4>2. QED
        BY <3>1, <4>1
    <3>6. QED
      BY <3>2, <3>4, <3>5
  <2>3. CASE ~ (type = "SI_DMA" /\ "SI_IO" \in Tasks)
    <3>1. t = s
      BY <1>4, <2>3 DEF Rearmed
    <3>2. Abs(s) \in Abstract!Rearmed(Abs(s), type, slack)
      BY <1>4, <2>3 DEF Abstract!Rearmed
    <3>3. QED
      BY <2>1, <3>1, <3>2
  <2>4. QED
    BY <2>2, <2>3
<1>5. QED
  BY <1>2, <1>3, <1>4

LEMMA WithCheckMaps ==
    ASSUME NEW s, Good(s), Own(s.list), NEW type, type \in Types,
           NEW slack, slack \in Slack, NEW t, t \in WithCheck(s, type, slack)
    PROVE  Good(t) /\ Own(t.list) /\ Abs(t) \in Abstract!WithCheck(Abs(s), type, slack)
<1> DEFINE delay == IF type = "CHECK_INTERRUPT" THEN 100 ELSE Delay["CHECK_INTERRUPT"]
           a == AddEvent(s, "CHECK_INTERRUPT", delay, slack)
<1>1. Checking = Abstract!Checking
  BY DEF Checking, Abstract!Checking, Types, Abstract!Types
<1>2. CASE ~ ("CHECK_INTERRUPT" \in Tasks /\ type \in Checking)
  <2>1. t = s
    BY <1>2 DEF WithCheck
  <2>2. QED
    BY <1>1, <1>2, <2>1 DEF Abstract!WithCheck
<1>3. CASE "CHECK_INTERRUPT" \in Tasks /\ type \in Checking
  <2>1. Abstract!WithCheck(Abs(s), type, slack) =
          {Abs(s), Abstract!AddEvent(Abs(s), "CHECK_INTERRUPT", delay, slack)}
    BY <1>1, <1>3 DEF Abstract!WithCheck
  <2>2. t \in {s, a}
    BY <1>3 DEF WithCheck
  <2>3. "CHECK_INTERRUPT" \in Types /\ delay \in Nat /\ slack \in Nat
    BY <1>3, DelaysAreNaturals DEF Types
  <2> HIDE DEF delay
  <2>4. /\ Good(a) /\ Own(a.list)
        /\ Abs(a) = Abstract!AddEvent(Abs(s), "CHECK_INTERRUPT", delay, slack)
    BY <2>3, OwnKept, AddEventOwn
  <2> HIDE DEF a
  <2>5. QED
    BY <2>1, <2>2, <2>4
<1>4. QED
  BY <1>2, <1>3
----------------------------------------------------------------------------
(* The steps of the program *)

\* The inductive invariant
IInv ==
    /\ Good(State) /\ Own(list)
    /\ compare \in 0 .. Wrap - 1 /\ period \in FramePeriods /\ loop \in {"run", "check"}

\* The abstract state, as the instance of TimerEvents has it
Timer == [events |-> Events(list), current |-> current, leap |-> leap,
          countdown |-> countdown]

LEMMA TimerIsAbs == Timer = Abs(State) /\ State.list = list /\ State.current = current
                    /\ State.leap = leap /\ State.countdown = countdown
BY DEF Timer, Abs, State

LEMMA BecomeMaps ==
    ASSUME NEW s, Good(s), Become(s)
    PROVE  Good(State') /\ list' = s.list /\ Timer' = Abs(s)
<1>1. /\ list' = s.list /\ current' = s.current
      /\ leap' = s.leap /\ countdown' = s.countdown
  BY DEF Become
<1>2. /\ s.list \in ListType
      /\ s.current \in Int /\ s.leap \in Int /\ s.countdown \in Int
  BY GoodFields
<1>3. State' = [list |-> s.list, current |-> s.current, leap |-> s.leap,
                countdown |-> s.countdown]
  BY <1>1 DEF State
<1>4. State' \in StateType
  BY <1>2, <1>3 DEF StateType
<1>5. Early(State')
  BY <1>3 DEF Good, Early, Now
<1>6. PICK w : Chain(s.list, w)
  BY DEF Good
<1>7. Chain(State'.list, w)
  BY <1>3, <1>6
<1>8. QED
  BY <1>1, <1>4, <1>5, <1>7 DEF Good, Timer, Abs

LEMMA CountdownStep ==
    ASSUME Good(State), NEW c, c \in Int, c <= current + leap,
           countdown' = c, UNCHANGED <<list, current, leap>>
    PROVE  Good(State') /\ Timer' = [Timer EXCEPT !.countdown = c]
<1> DEFINE t == [State EXCEPT !.countdown = c]
<1>1. /\ Good(t) /\ t.list = list /\ Abs(t) = [Timer EXCEPT !.countdown = c]
  BY TimerIsAbs, CountdownMaps
<1>2. /\ t.current = current /\ t.leap = leap /\ t.countdown = c
  BY DEF State
<1> HIDE DEF t
<1>3. Become(t)
  BY <1>1, <1>2 DEF Become
<1>4. QED
  BY <1>1, <1>3, BecomeMaps

\* Scanning the pool for tasks finds those the list holds.
LEMMA TasksInUse ==
    ASSUME Good(State), ~ DoingOtherTasks(list)
    PROVE  ~ \E type \in Tasks : Abstract!HasEvent(Timer.events, type)
<1>1. PICK w : Chain(list, w)
  BY TimerIsAbs DEF Good
<1>2. Stands(list, w, Events(list)) /\ InUse(list) = Elements(w)
  BY <1>1, EventsFacts DEF Chain
<1>3. SUFFICES ASSUME NEW type \in Tasks, Abstract!HasEvent(Events(list), type)
               PROVE  FALSE
  BY DEF Timer
<1>4. PICK i \in 1 .. Len(Events(list)) : Events(list)[i].type = type
  BY <1>3 DEF Abstract!HasEvent
<1>5. i \in 1 .. Len(w) /\ w[i] \in Nodes /\ list.node[w[i]].type = type
  BY <1>2, <1>4 DEF Stands
<1>6. w[i] \in InUse(list)
  BY <1>2, <1>5 DEF Elements
<1>7. list.node[w[i]].inuse
  BY <1>6 DEF InUse
<1>8. type \notin {"VI", "COMPARE"}
  BY <1>3, EventsAssumption DEF Abstract!TaskTypes
<1>9. QED
  BY <1>5, <1>7, <1>8 DEF DoingOtherTasks

LEMMA OwnHeader ==
    ASSUME Good(State), Own(list)
    PROVE  /\ list.header # NULL /\ list.header \in Nodes
           /\ list.node[list.header].type \in Types
           /\ Head(Timer.events).type = list.node[list.header].type
<1>1. PICK w : Chain(list, w)
  BY TimerIsAbs DEF Good
<1>2. /\ InUse(list) = Elements(w) /\ list \in ListType
      /\ list.header = (IF Len(w) = 0 THEN NULL ELSE w[1])
      /\ w \in Seq(Nodes)
  BY <1>1 DEF Chain, Links
<1>3. Len(w) # 0
  BY <1>2 DEF Own, Elements
<1>4. w[1] \in Nodes
  BY <1>2, <1>3
<1>5. list.header # NULL
  BY <1>2, <1>3, <1>4, NodesFacts
<1>6. Head(Abs(State).events).type = list.node[list.header].type
  BY <1>5, TimerIsAbs, HeaderIsHead
<1>7. QED
  BY <1>2, <1>3, <1>4, <1>5, <1>6, TimerIsAbs, NodeFields

LEMMA InitMaps == Init => IInv /\ Abstract!Init
<1> SUFFICES ASSUME Init PROVE IInv /\ Abstract!Init
  OBVIOUS
<1>1. PICK slack \in Slack :
        LET s == Restarted(ZeroedList, 0, 0, period, slack)
        IN  /\ list = s.list /\ current = s.current
            /\ leap = s.leap /\ countdown = s.countdown
  BY DEF Init
<1> DEFINE s == Restarted(ZeroedList, 0, 0, period, slack)
<1>2. /\ period \in FramePeriods /\ compare = 0 /\ loop = "run"
      /\ 0 \in 0 .. Wrap - 1
  BY EventsAssumption DEF Init
<1>3. ZeroedList \in ListType /\ \A k \in Nodes : 0 <= ZeroedList.node[k].target
  BY DEF ZeroedList, ListType, Node, Types
<1>4. /\ Good(s) /\ Own(s.list) /\ Abs(s) = Abstract!Restarted(0, 0, period, slack)
  BY <1>2, <1>3, RestartedMaps
<1>5. list = s.list /\ current = s.current /\ leap = s.leap /\ countdown = s.countdown
  BY <1>1
<1> HIDE DEF s
<1>6. State = [list |-> s.list, current |-> s.current, leap |-> s.leap,
               countdown |-> s.countdown]
  BY <1>5 DEF State
<1>7. Good(State)
  <2>1. PICK w : Chain(s.list, w)
    BY <1>4 DEF Good
  <2>2. /\ s.list \in ListType
        /\ s.current \in Int /\ s.leap \in Int /\ s.countdown \in Int
    BY <1>4, GoodFields
  <2>3. State \in StateType
    BY <1>6, <2>2 DEF StateType
  <2>4. Early(State)
    BY <1>4, <1>6 DEF Good, Early, Now
  <2>5. QED
    BY <1>6, <2>1, <2>3, <2>4 DEF Good
<1>8. Timer = Abs(s)
  BY <1>5 DEF Timer, Abs
<1>9. QED
  BY <1>2, <1>4, <1>5, <1>7, <1>8 DEF IInv, Abstract!Init, Timer

LEMMA StepMaps ==
    ASSUME IInv, [Next]_vars
    PROVE  IInv' /\ [Abstract!Next]_Abstract!vars
<1>1. /\ Good(State) /\ Own(list) /\ compare \in 0 .. Wrap - 1
      /\ period \in FramePeriods /\ loop \in {"run", "check"}
  BY DEF IInv
<1>2. /\ list \in ListType /\ current \in Int /\ leap \in Int /\ countdown \in Int
      /\ Now(State) \in Int /\ Abstract!Now(Timer) = Now(State)
      /\ Now(State) = current + leap - countdown
      /\ 0 <= current + leap /\ 0 <= Now(State)
      /\ \A k \in Nodes : 0 <= list.node[k].target
  BY <1>1, GoodFields, TimerIsAbs DEF Good, Early, Now
<1>3. /\ \A type \in Tasks : Delay[type] \in Nat
      /\ Slack \subseteq Nat /\ Values \subseteq 0 .. Wrap - 1
      /\ Wrap \in Nat \ {0} /\ CF \in Nat \ {0} /\ VCF \in Nat \ {0}
      /\ Jitter \subseteq Nat /\ Costs \subseteq Nat
  BY EventsAssumption
<1> DEFINE Goal ==
      /\ Good(State') /\ Own(list') /\ compare' \in 0 .. Wrap - 1
      /\ period' \in FramePeriods /\ loop' \in {"run", "check"}
      /\ Abstract!Next
<1>4. ASSUME NEW value \in Values, WriteCount(value) PROVE Goal
  <2>1. PICK slack \in Slack : Become(Restarted(list, value, compare, period, slack))
    BY <1>4 DEF WriteCount
  <2> DEFINE s == Restarted(list, value, compare, period, slack)
  <2>2. Good(s) /\ Own(s.list) /\ Abs(s) = Abstract!Restarted(value, compare, period, slack)
    <3>1. value \in 0 .. Wrap - 1
      BY <1>3
    <3>2. QED
      BY <1>1, <1>2, <3>1, RestartedMaps
  <2> HIDE DEF s
  <2>3. Good(State') /\ list' = s.list /\ Timer' = Abs(s)
    BY <2>1, <2>2, BecomeMaps DEF s
  <2>4. Abstract!WriteCount(value)
    BY <1>4, <2>2, <2>3 DEF WriteCount, Abstract!WriteCount, Timer
  <2>5. QED
    BY <1>1, <1>4, <2>2, <2>3, <2>4 DEF WriteCount, Abstract!Next
<1>5. ASSUME NEW value \in Values, WriteCompare(value) PROVE Goal
  <2>1. PICK jitter \in Jitter, slack \in Slack :
          LET count == (((Now(State) * CF) \div VCF) + jitter) % Wrap
          IN  Become(AddEvent(State, "COMPARE", Abstract!CompareDelay(value, count), slack))
    BY <1>5 DEF WriteCompare
  <2> DEFINE count == (((Now(State) * CF) \div VCF) + jitter) % Wrap
             delay == Abstract!CompareDelay(value, count)
             s == AddEvent(State, "COMPARE", delay, slack)
  <2>2. count \in 0 .. Wrap - 1
    <3>1. Now(State) * CF \in Int
      BY <1>2, <1>3
    <3>2. \A x \in Int : x \div VCF \in Int
      BY <1>3
    <3>3. ((Now(State) * CF) \div VCF) + jitter \in Int
      BY <1>3, <3>1, <3>2
    <3>4. QED
      BY <1>3, <3>3
  <2>3. count = Abstract!Count(Timer, jitter)
    BY <1>2 DEF Abstract!Count
  <2> HIDE DEF count
  <2>4. value \in 0 .. Wrap - 1 /\ slack \in Nat /\ delay \in Nat
    BY <1>3, <2>2, DelaysAreNaturals
  <2>5. "COMPARE" \in Types /\ Kept(State.list, "COMPARE")
    BY <1>1, OwnKept, TimerIsAbs DEF Types
  <2> HIDE DEF delay
  <2>6. /\ Good(s) /\ Own(s.list)
        /\ Abs(s) = Abstract!AddEvent(Abs(State), "COMPARE", delay, slack)
    BY <1>1, <2>4, <2>5, AddEventOwn
  <2>7. Become(s)
    BY <2>1 DEF delay, count
  <2> HIDE DEF s
  <2>8. Good(State') /\ list' = s.list /\ Timer' = Abs(s)
    BY <2>6, <2>7, BecomeMaps
  <2>9. Timer' = Abstract!AddEvent(Timer, "COMPARE",
                   Abstract!CompareDelay(value, Abstract!Count(Timer, jitter)), slack)
    BY <2>3, <2>6, <2>8, TimerIsAbs DEF delay
  <2>10. Abstract!WriteCompare(value)
    BY <1>5, <2>9 DEF WriteCompare, Abstract!WriteCompare, Timer
  <2>11. QED
    BY <1>1, <1>5, <2>4, <2>6, <2>8, <2>10 DEF WriteCompare, Abstract!Next
<1>6. ASSUME NEW frame \in FramePeriods, WriteVSync(frame) PROVE Goal
  <2>1. list' = list /\ current' = current /\ leap' = leap /\ countdown' = countdown
    BY <1>6 DEF WriteVSync, clock
  <2>2. State' = State /\ Timer' = Timer
    BY <2>1 DEF State, Timer
  <2>3. Abstract!WriteVSync(frame)
    BY <1>6, <2>2 DEF WriteVSync, Abstract!WriteVSync, Timer
  <2>4. QED
    BY <1>1, <1>6, <2>1, <2>2, <2>3 DEF WriteVSync, Abstract!Next
<1>7. ASSUME NEW type \in Tasks, Schedule(type) PROVE Goal
  <2>1. PICK slack \in Slack : Become(AddEvent(State, type, Delay[type], slack))
    BY <1>7 DEF Schedule
  <2> DEFINE s == AddEvent(State, type, Delay[type], slack)
  <2>2. type \in Types /\ Kept(State.list, type) /\ Delay[type] \in Nat /\ slack \in Nat
    BY <1>1, <1>3, OwnKept, TimerIsAbs DEF Types
  <2>3. /\ Good(s) /\ Own(s.list)
        /\ Abs(s) = Abstract!AddEvent(Abs(State), type, Delay[type], slack)
    BY <1>1, <2>2, AddEventOwn
  <2> HIDE DEF s
  <2>4. Good(State') /\ list' = s.list /\ Timer' = Abs(s)
    BY <2>1, <2>3, BecomeMaps DEF s
  <2>5. Timer' = Abstract!AddEvent(Timer, type, Delay[type], slack)
    BY <2>3, <2>4, TimerIsAbs
  <2>6. Abstract!Schedule(type)
    BY <1>7, <2>5 DEF Schedule, Abstract!Schedule, Timer
  <2>7. QED
    BY <1>1, <1>7, <2>3, <2>4, <2>6 DEF Schedule, Abstract!Next
<1>8. ASSUME SpeedHack PROVE Goal
  <2>1. /\ ~ DoingOtherTasks(list) /\ current + leap <= MaxTime /\ countdown' = 0
        /\ UNCHANGED <<list, current, leap>>
        /\ compare' = compare /\ period' = period /\ loop' = loop
    BY <1>8 DEF SpeedHack
  <2>2. Good(State') /\ Timer' = [Timer EXCEPT !.countdown = 0]
    BY <1>1, <1>2, <2>1, CountdownStep
  <2>3. ~ \E type \in Tasks : Abstract!HasEvent(Timer.events, type)
    BY <1>1, <2>1, TasksInUse
  <2>4. Abstract!SpeedHack
    BY <2>1, <2>2, <2>3 DEF Abstract!SpeedHack, Timer
  <2>5. QED
    BY <1>1, <2>1, <2>2, <2>4 DEF Abstract!Next
<1>9. ASSUME NEW cost \in Costs, Run(cost) PROVE Goal
  <2>1. /\ loop = "run" /\ Now(State) + cost <= MaxTime /\ countdown' = countdown - cost
        /\ UNCHANGED <<list, current, leap>>
        /\ compare' = compare /\ period' = period /\ loop' = "check"
    BY <1>9 DEF Run
  <2>2. countdown - cost \in Int /\ countdown - cost <= current + leap
    BY <1>2, <1>3
  <2>3. Good(State') /\ Timer' = [Timer EXCEPT !.countdown = countdown - cost]
    BY <1>1, <2>1, <2>2, CountdownStep
  <2>4. Abstract!Run(cost)
    BY <1>2, <2>1, <2>3 DEF Abstract!Run, Timer
  <2>5. QED
    BY <1>1, <2>1, <2>3, <2>4 DEF Abstract!Next
<1>10. ASSUME RunFaulting PROVE Goal
  <2>1. /\ loop = "run" /\ Now(State) + 5 * VCF <= MaxTime
        /\ countdown' = countdown - 5 * VCF
        /\ UNCHANGED <<list, current, leap>>
        /\ compare' = compare /\ period' = period /\ loop' = loop
    BY <1>10 DEF RunFaulting
  <2>2. countdown - 5 * VCF \in Int /\ countdown - 5 * VCF <= current + leap
    BY <1>2, <1>3
  <2>3. Good(State') /\ Timer' = [Timer EXCEPT !.countdown = countdown - 5 * VCF]
    BY <1>1, <2>1, <2>2, CountdownStep
  <2>4. Abstract!RunFaulting
    BY <1>2, <2>1, <2>3 DEF Abstract!RunFaulting, Timer
  <2>5. QED
    BY <1>1, <2>1, <2>3, <2>4 DEF Abstract!Next
<1>11. ASSUME NotDue PROVE Goal
  <2>1. /\ list' = list /\ current' = current /\ leap' = leap /\ countdown' = countdown
        /\ loop = "check" /\ countdown > 0 /\ loop' = "run"
        /\ compare' = compare /\ period' = period
    BY <1>11 DEF NotDue, clock
  <2>2. State' = State /\ Timer' = Timer
    BY <2>1 DEF State, Timer
  <2>3. Abstract!NotDue
    BY <2>1, <2>2 DEF Abstract!NotDue, Timer
  <2>4. QED
    BY <1>1, <2>1, <2>2, <2>3 DEF Abstract!Next
<1>12. ASSUME Trigger PROVE Goal
  <2> DEFINE type == list.node[list.header].type
             r == RemoveHead(State)
  <2>1. /\ loop = "check" /\ countdown <= 0
        /\ loop' = "run" /\ compare' = compare /\ period' = period
    BY <1>12 DEF Trigger
  <2>2. PICK slack \in Slack :
          \E s \in Rearmed(r, type, slack) : \E t \in WithCheck(s, type, slack) :
          \E cost \in IF type \in Checking THEN {0, 4 * VCF} ELSE {0} :
             Become([t EXCEPT !.countdown = @ - cost])
    BY <1>12 DEF Trigger
  <2>3. PICK s \in Rearmed(r, type, slack) : \E t \in WithCheck(s, type, slack) :
          \E cost \in IF type \in Checking THEN {0, 4 * VCF} ELSE {0} :
             Become([t EXCEPT !.countdown = @ - cost])
    BY <2>2
  <2>4. PICK t \in WithCheck(s, type, slack) :
          \E cost \in IF type \in Checking THEN {0, 4 * VCF} ELSE {0} :
             Become([t EXCEPT !.countdown = @ - cost])
    BY <2>3
  <2>5. PICK cost \in IF type \in Checking THEN {0, 4 * VCF} ELSE {0} :
             Become([t EXCEPT !.countdown = @ - cost])
    BY <2>4
  <2>6. /\ list.header # NULL /\ type \in Types
        /\ Head(Timer.events).type = type
    BY <1>1, OwnHeader
  <2>7. Good(r) /\ Abs(r) = Abstract!RemoveHead(Abs(State)) /\ Kept(r.list, type)
    BY <1>1, <2>6, RemoveHeadMaps, TimerIsAbs
  <2> HIDE DEF r, type
  <2>8. Good(s) /\ Own(s.list) /\ Abs(s) \in Abstract!Rearmed(Abs(r), type, slack)
    BY <1>1, <2>2, <2>6, <2>7, RearmedMaps
  <2>9. Good(t) /\ Own(t.list) /\ Abs(t) \in Abstract!WithCheck(Abs(s), type, slack)
    BY <2>2, <2>6, <2>8, WithCheckMaps
  <2> DEFINE c == t.countdown - cost
             u == [t EXCEPT !.countdown = c]
  <2>10. cost \in Nat
    BY <1>3, <2>5
  <2>11. c \in Int /\ c <= t.current + t.leap
    <3>1. /\ t.current \in Int /\ t.leap \in Int /\ t.countdown \in Int
      BY <2>9, GoodFields
    <3>2. 0 <= t.current + t.leap - t.countdown
      BY <2>9 DEF Good, Early, Now
    <3>3. QED
      BY <2>10, <3>1, <3>2
  <2>12. Become(u)
    BY <2>5
  <2> HIDE DEF c
  <2>13. Good(u) /\ u.list = t.list /\ Abs(u) = [Abs(t) EXCEPT !.countdown = c]
    BY <2>9, <2>11, CountdownMaps
  <2> HIDE DEF u
  <2>14. Good(State') /\ list' = u.list /\ Timer' = Abs(u)
    BY <2>12, <2>13, BecomeMaps
  <2>15. Checking = Abstract!Checking
    BY DEF Checking, Abstract!Checking, Types, Abstract!Types
  <2>16. Timer' = [Abs(t) EXCEPT !.countdown = @ - cost]
    BY <2>13, <2>14 DEF c, Abs
  <2>17. Abstract!Trigger
    <3>1. Abs(s) \in Abstract!Rearmed(Abstract!RemoveHead(Timer), Head(Timer.events).type, slack)
      BY <2>6, <2>7, <2>8, TimerIsAbs
    <3>2. Abs(t) \in Abstract!WithCheck(Abs(s), Head(Timer.events).type, slack)
      BY <2>6, <2>9
    <3>3. cost \in IF Head(Timer.events).type \in Abstract!Checking THEN {0, 4 * VCF} ELSE {0}
      BY <2>6, <2>5, <2>15
    <3>4. Timer.countdown <= 0
      BY <2>1 DEF Timer
    <3>5. QED
      BY <2>1, <2>16, <3>1, <3>2, <3>3, <3>4 DEF Abstract!Trigger, Timer
  <2>18. QED
    BY <1>1, <2>1, <2>9, <2>13, <2>14, <2>17 DEF Abstract!Next
<1>13. ASSUME UNCHANGED vars PROVE IInv' /\ UNCHANGED Abstract!vars
  <2>1. /\ list' = list /\ current' = current /\ leap' = leap /\ countdown' = countdown
        /\ compare' = compare /\ period' = period /\ loop' = loop
    BY <1>13 DEF vars
  <2>2. State' = State /\ Timer' = Timer
    BY <2>1 DEF State, Timer
  <2>3. QED
    BY <1>1, <2>1, <2>2 DEF IInv, Abstract!vars, Timer
<1>14. Goal => IInv' /\ Abstract!Next
  BY DEF IInv
<1> HIDE DEF Goal
<1>15. Next => IInv' /\ Abstract!Next
  BY <1>4, <1>5, <1>6, <1>7, <1>8, <1>9, <1>10, <1>11, <1>12, <1>14 DEF Next
<1>16. QED
  BY <1>13, <1>15
----------------------------------------------------------------------------
(* The theorems *)

\* The inductive invariant holds.
THEOREM PoolInvariant == Spec => []IInv
<1>1. Init => IInv
  BY InitMaps
<1>2. IInv /\ [Next]_vars => IInv'
  BY StepMaps
<1>3. QED
  BY <1>1, <1>2, PTL DEF Spec

\* The pool of linked nodes implements the sequence of events of TimerEvents:
\* every operation of timer.c on the links is the operation on the sequence.
THEOREM PoolImplementsSequence == Spec => Implements
<1>1. Init => Abstract!Init
  BY InitMaps
<1>2. IInv /\ [Next]_vars => [Abstract!Next]_Abstract!vars
  BY StepMaps
<1>3. QED
  BY PoolInvariant, <1>1, <1>2, PTL DEF Spec, Implements, Abstract!Spec

\* The nodes, and the counters: current_counter, which is unsigned, never
\* falls below zero.
THEOREM NodesTyped == Spec => []TypeOK
<1>1. IInv => TypeOK
  <2>1. SUFFICES ASSUME IInv PROVE TypeOK
    OBVIOUS
  <2>2. /\ list \in ListType /\ current \in Int /\ leap \in Int /\ countdown \in Int
        /\ 0 <= current
    BY <2>1, GoodFields, TimerIsAbs DEF IInv, Good, Early
  <2>3. current \in Nat
    BY <2>2
  <2>4. QED
    BY <2>1, <2>2, <2>3 DEF IInv, TypeOK, ListType
<1>2. QED
  BY PoolInvariant, <1>1, PTL

\* The forward and the backward links agree and no node leaks, so the pool
\* never runs out (timer.c:127).
THEOREM NoNodeLeaks == Spec => []WellLinked
<1>1. IInv => WellLinked
  <2>1. SUFFICES ASSUME IInv PROVE WellLinked
    OBVIOUS
  <2>2. PICK w : Chain(list, w)
    BY <2>1, TimerIsAbs DEF IInv, Good
  <2>3. /\ Walk(list) = w /\ w \in Seq(Nodes) /\ DOMAIN w = 1 .. Len(w)
        /\ InUse(list) = Elements(w)
        /\ \A i \in 1 .. Len(w) : list.node[w[i]].prev = (IF i = 1 THEN NULL ELSE w[i - 1])
    BY <2>2, WalkIs DEF Chain, Links
  <2>4. QED
    BY <2>3 DEF WellLinked, InUse, Elements
<1>2. QED
  BY PoolInvariant, <1>1, PTL

\* Get_VIcounter reads the pending VI event, never a stale node.
THEOREM VIEventFound == Spec => []VINodeLive
<1>1. IInv => VINodeLive
  <2>1. SUFFICES ASSUME IInv PROVE VINodeLive
    OBVIOUS
  <2>2. PICK w : Chain(list, w)
    BY <2>1, TimerIsAbs DEF IInv, Good
  <2>3. /\ Walk(list) = w /\ w \in Seq(Nodes) /\ DOMAIN w = 1 .. Len(w)
        /\ InUse(list) = Elements(w)
    BY <2>2, WalkIs DEF Chain, Links
  <2> DEFINE I == {n \in Nodes : list.node[n].type = "VI"}
  <2>4. 0 \notin I /\ 1 \in I /\ I \in SUBSET Nodes /\ 1 \in InUse(list)
    BY <2>1, NodesFacts DEF IInv, Own
  <2> HIDE DEF I
  <2>5. Min(I) \in I /\ \A i \in I : Min(I) <= i
    BY <2>4, MinOfNodes
  <2>6. Min(I) = 1
    <3>1. Min(I) \in Int /\ 0 <= Min(I) /\ Min(I) <= 1 /\ Min(I) # 0
      BY <2>4, <2>5, NodesFacts
    <3>2. QED
      BY <3>1
  <2>7. VINode(list) = 1
    BY <2>6 DEF VINode, I
  <2>8. QED
    BY <2>3, <2>4, <2>7 DEF VINodeLive, Elements
<1>2. QED
  BY PoolInvariant, <1>1, PTL
=============================================================================
