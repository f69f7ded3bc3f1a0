------------------------- MODULE TimerEventsProofs -------------------------
(***************************************************************************)
(* For every value of the constants: the event list is ordered and holds   *)
(* one event of a type, VI and COMPARE are always pending, the countdown   *)
(* never sleeps past an event, and time only runs backwards where the code *)
(* makes it.                                                               *)
(***************************************************************************)
EXTENDS TimerEvents, SequenceTheorems, FiniteSetTheorems, TLAPS

----------------------------------------------------------------------------
(* Lemmas about the helpers on sequences *)

\* A non-empty set of indices has a minimum.
LEMMA MinOfInterval ==
    ASSUME NEW n \in Nat, NEW I \in SUBSET (1 .. n), I # {}
    PROVE  Min(I) \in I /\ \A i \in I : Min(I) <= i
<1> DEFINE D == {j \in 1 .. n : \A i \in I : j < i}
           k == Cardinality(D)
<1>1. IsFiniteSet(D) /\ k \in 0 .. n
  <2>1. IsFiniteSet(1 .. n) /\ Cardinality(1 .. n) = n
    BY FS_Interval
  <2>2. QED
    BY <2>1, FS_Subset, FS_CardinalityType
<1>2. k + 1 \notin D
  <2>1. SUFFICES ASSUME k + 1 \in D PROVE FALSE
    OBVIOUS
  <2>2. 1 .. k + 1 \subseteq D
    BY <1>1, <2>1
  <2>3. Cardinality(1 .. k + 1) = k + 1
    BY <1>1, FS_Interval
  <2>4. Cardinality(1 .. k + 1) <= k
    BY <1>1, <2>2, FS_Subset
  <2>5. QED
    BY <1>1, <2>3, <2>4
<1>3. \A i \in I : k < i
  <2>1. SUFFICES ASSUME NEW i \in I, i <= k PROVE FALSE
    BY <1>1
  <2>2. D \subseteq 1 .. i - 1
    OBVIOUS
  <2>3. IsFiniteSet(1 .. i - 1) /\ Cardinality(1 .. i - 1) = i - 1
    BY FS_Interval
  <2>4. k <= i - 1
    BY <2>2, <2>3, FS_Subset
  <2>5. QED
    BY <1>1, <2>1, <2>4
<1>4. k + 1 \in 1 .. n
  <2>1. PICK i \in I : TRUE
    OBVIOUS
  <2>2. QED
    BY <1>1, <1>3, <2>1
<1>5. PICK i \in I : ~ (k + 1 < i)
  BY <1>2, <1>4
<1>6. i \in I /\ \A j \in I : i <= j
  BY <1>1, <1>3, <1>5
<1>7. QED
  BY <1>6 DEF Min

\* RemoveAt closes the gap.
LEMMA RemoveAtElements ==
    ASSUME NEW S, NEW q \in Seq(S), NEW i \in 1 .. Len(q)
    PROVE  /\ RemoveAt(q, i) \in Seq(S)
           /\ Len(RemoveAt(q, i)) = Len(q) - 1
           /\ \A j \in 1 .. Len(q) - 1 :
                RemoveAt(q, i)[j] = IF j < i THEN q[j] ELSE q[j + 1]
<1> DEFINE a == SubSeq(q, 1, i - 1)
           b == SubSeq(q, i + 1, Len(q))
<1>1. a \in Seq(S) /\ Len(a) = i - 1 /\ \A j \in 1 .. i - 1 : a[j] = q[j]
  <2>1. \A j \in 1 .. i - 1 : q[j] \in S
    OBVIOUS
  <2>2. QED
    BY <2>1, SubSeqProperties
<1>2. b \in Seq(S) /\ Len(b) = Len(q) - i /\ \A j \in 1 .. Len(q) - i : b[j] = q[i + j]
  <2>1. \A j \in i + 1 .. Len(q) : q[j] \in S
    OBVIOUS
  <2>2. QED
    BY <2>1, SubSeqProperties
<1>3. /\ a \o b \in Seq(S)
      /\ Len(a \o b) = Len(a) + Len(b)
      /\ \A j \in 1 .. Len(a) + Len(b) :
           (a \o b)[j] = IF j <= Len(a) THEN a[j] ELSE b[j - Len(a)]
  BY <1>1, <1>2, ConcatProperties
<1>4. RemoveAt(q, i) = a \o b
  BY DEF RemoveAt, a, b
<1> HIDE DEF a, b
<1>5. Len(a) + Len(b) = Len(q) - 1
  BY <1>1, <1>2
<1>6. ASSUME NEW j \in 1 .. Len(q) - 1
      PROVE  (a \o b)[j] = IF j < i THEN q[j] ELSE q[j + 1]
  <2>0. i \in Int /\ j \in Int
    OBVIOUS
  <2>1. CASE j < i
    BY <1>1, <1>3, <1>5, <2>1
  <2>2. CASE j >= i
    <3>1. (a \o b)[j] = b[j - (i - 1)] /\ j - (i - 1) \in 1 .. Len(q) - i
      BY <1>1, <1>3, <1>5, <2>2
    <3>2. i + (j - (i - 1)) = j + 1
      OBVIOUS
    <3>3. QED
      BY <1>2, <2>2, <3>1, <3>2
  <2>3. j < i \/ j >= i
    BY <2>0
  <2>4. QED
    BY <2>1, <2>2, <2>3, Zenon
<1>7. QED
  BY <1>3, <1>4, <1>5, <1>6

\* InsertAt opens one.
LEMMA InsertAtElements ==
    ASSUME NEW S, NEW q \in Seq(S), NEW i \in 1 .. Len(q) + 1, NEW e \in S
    PROVE  /\ InsertAt(q, i, e) \in Seq(S)
           /\ Len(InsertAt(q, i, e)) = Len(q) + 1
           /\ \A j \in 1 .. Len(q) + 1 :
                InsertAt(q, i, e)[j] = IF j < i THEN q[j]
                                       ELSE IF j = i THEN e ELSE q[j - 1]
<1> DEFINE a == SubSeq(q, 1, i - 1)
           b == SubSeq(q, i, Len(q))
           m == a \o <<e>>
<1>1. a \in Seq(S) /\ Len(a) = i - 1 /\ \A j \in 1 .. i - 1 : a[j] = q[j]
  <2>1. \A j \in 1 .. i - 1 : q[j] \in S
    OBVIOUS
  <2>2. QED
    BY <2>1, SubSeqProperties
<1>2. /\ b \in Seq(S) /\ Len(b) = Len(q) - i + 1
      /\ \A j \in 1 .. Len(q) - i + 1 : b[j] = q[i + j - 1]
  <2>1. \A j \in i .. Len(q) : q[j] \in S
    OBVIOUS
  <2>2. QED
    BY <2>1, SubSeqProperties
<1> HIDE DEF a, b
<1>3. /\ m \in Seq(S) /\ Len(m) = i
      /\ \A j \in 1 .. i : m[j] = IF j < i THEN q[j] ELSE e
  <2>1. <<e>> \in Seq(S) /\ Len(<<e>>) = 1 /\ <<e>>[1] = e
    OBVIOUS
  <2>2. QED
    BY <1>1, <2>1, ConcatProperties
<1> HIDE DEF m
<1>4. /\ m \o b \in Seq(S)
      /\ Len(m \o b) = Len(m) + Len(b)
      /\ \A j \in 1 .. Len(m) + Len(b) :
           (m \o b)[j] = IF j <= Len(m) THEN m[j] ELSE b[j - Len(m)]
  BY <1>2, <1>3, ConcatProperties
<1>5. InsertAt(q, i, e) = m \o b
  BY DEF InsertAt, a, b, m
<1>6. Len(m) + Len(b) = Len(q) + 1
  BY <1>2, <1>3
<1>7. ASSUME NEW j \in 1 .. Len(q) + 1
      PROVE  (m \o b)[j] = IF j < i THEN q[j] ELSE IF j = i THEN e ELSE q[j - 1]
  <2>0. i \in Int /\ j \in Int
    OBVIOUS
  <2>1. CASE j <= i
    BY <1>3, <1>4, <1>6, <2>1
  <2>2. CASE j > i
    <3>1. (m \o b)[j] = b[j - i] /\ j - i \in 1 .. Len(q) - i + 1
      BY <1>3, <1>4, <1>6, <2>2
    <3>2. i + (j - i) - 1 = j - 1
      OBVIOUS
    <3>3. QED
      BY <1>2, <2>2, <3>1, <3>2
  <2>3. j <= i \/ j > i
    BY <2>0
  <2>4. QED
    BY <2>1, <2>2, <2>3, Zenon
<1>8. QED
  BY <1>4, <1>5, <1>6, <1>7
----------------------------------------------------------------------------
(* Lemmas about the event list *)

LEMMA EventFields ==
    ASSUME NEW q \in Seq(Event)
    PROVE  /\ Len(q) \in Nat
           /\ \A i \in 1 .. Len(q) :
                q[i] \in Event /\ q[i].type \in Types /\ q[i].target \in Int
<1>1. \A i \in 1 .. Len(q) : q[i] \in Event
  BY ElementOfSeq
<1>2. QED
  BY <1>1 DEF Event

\* Without removes the node of the type and nothing else, and leaves the
\* first target where it was or later.
LEMMA WithoutList ==
    ASSUME NEW q \in Seq(Event), NEW type, InOrder(q), OnePerType(q)
    PROVE  LET r == Without(q, type) IN
           /\ r \in Seq(Event) /\ InOrder(r) /\ OnePerType(r)
           /\ ~ HasEvent(r, type)
           /\ \A t : t # type => (HasEvent(r, t) <=> HasEvent(q, t))
           /\ r # <<>> => q # <<>> /\ Head(q).target <= Head(r).target
<1> DEFINE I == {i \in 1 .. Len(q) : q[i].type = type}
           r == Without(q, type)
<1>0. Len(q) \in Nat /\ \A i \in 1 .. Len(q) : q[i] \in Event /\ q[i].target \in Int
  BY EventFields
<1>1. CASE I = {}
  <2>1. r = q /\ ~ HasEvent(q, type)
    BY <1>1 DEF Without, RemoveFirstMatch, HasEvent
  <2>2. QED
    BY <1>0, <2>1
<1>2. CASE I # {}
  <2> DEFINE m == Min(I)
  <2>1. m \in 1 .. Len(q) /\ q[m].type = type
    <3>1. I \in SUBSET (1 .. Len(q))
      OBVIOUS
    <3>2. m \in I
      <4> HIDE DEF I
      <4>1. QED
        BY <1>0, <1>2, <3>1, MinOfInterval
    <3>3. QED
      BY <3>2
  <2>2. SelectInSeq(q, LAMBDA e : e.type = type) = m
    BY <1>2 DEF SelectInSeq
  <2>3. \E i \in 1 .. Len(q) : q[i].type = type
    BY <2>1
  <2>4. r = RemoveAt(q, m)
    BY <2>2, <2>3 DEF Without, RemoveFirstMatch
  <2> HIDE DEF r, m
  <2>5. /\ r \in Seq(Event) /\ Len(r) = Len(q) - 1
        /\ \A j \in 1 .. Len(q) - 1 : r[j] = IF j < m THEN q[j] ELSE q[j + 1]
    BY <2>1, <2>4, RemoveAtElements
  <2> DEFINE from(j) == IF j < m THEN j ELSE j + 1
  <2>6. InOrder(r) /\ OnePerType(r)
    <3>1. \A j \in 1 .. Len(r) : from(j) \in 1 .. Len(q) /\ r[j] = q[from(j)]
      BY <1>0, <2>1, <2>5
    <3>2. \A i, j \in 1 .. Len(r) : /\ i < j => from(i) < from(j)
                                   /\ from(i) = from(j) => i = j
      BY <1>0, <2>1, <2>5
    <3> HIDE DEF from
    <3>3. InOrder(r)
      <4>1. SUFFICES ASSUME NEW i \in 1 .. Len(r), NEW j \in 1 .. Len(r), i < j
                     PROVE  r[i].target <= r[j].target
        BY DEF InOrder
      <4>2. /\ from(i) \in 1 .. Len(q) /\ from(j) \in 1 .. Len(q)
            /\ from(i) < from(j)
        BY <1>0, <2>1, <2>5, <4>1 DEF from
      <4>3. q[from(i)].target <= q[from(j)].target
        BY <4>2 DEF InOrder
      <4>4. QED
        BY <3>1, <4>3
    <3>4. OnePerType(r)
      <4>1. SUFFICES ASSUME NEW i \in 1 .. Len(r), NEW j \in 1 .. Len(r),
                            r[i].type = r[j].type
                     PROVE  i = j
        BY DEF OnePerType
      <4>2. from(i) = from(j)
        BY <3>1, <4>1 DEF OnePerType
      <4>3. QED
        BY <3>2, <4>2
    <3>5. QED
      BY <3>3, <3>4
  <2>7. ~ HasEvent(r, type)
    BY <2>1, <2>5 DEF HasEvent, OnePerType
  <2>8. ASSUME NEW t, t # type
        PROVE  HasEvent(r, t) <=> HasEvent(q, t)
    <3>1. ASSUME HasEvent(r, t) PROVE HasEvent(q, t)
      <4>1. PICK j \in 1 .. Len(q) - 1 : r[j].type = t
        BY <2>5, <3>1 DEF HasEvent
      <4>2. j \in 1 .. Len(q) /\ j + 1 \in 1 .. Len(q)
        BY <1>0
      <4>3. q[j].type = t \/ q[j + 1].type = t
        BY <2>5, <4>1
      <4>4. QED
        BY <4>2, <4>3 DEF HasEvent
    <3>2. ASSUME HasEvent(q, t) PROVE HasEvent(r, t)
      <4>1. PICK i \in 1 .. Len(q) : q[i].type = t
        BY <3>2 DEF HasEvent
      <4>2. CASE i < m
        BY <2>1, <2>5, <4>1, <4>2 DEF HasEvent
      <4>3. CASE i > m
        <5>1. i - 1 \in 1 .. Len(q) - 1 /\ r[i - 1] = q[i]
          BY <2>1, <2>5, <4>3
        <5>2. QED
          BY <2>5, <4>1, <5>1 DEF HasEvent
      <4>4. i # m
        BY <2>1, <2>8, <4>1
      <4>5. QED
        BY <2>1, <4>2, <4>3, <4>4
    <3>3. QED
      BY <3>1, <3>2
  <2>9. ASSUME r # <<>> PROVE q # <<>> /\ Head(q).target <= Head(r).target
    <3>1. Len(r) >= 1 /\ Head(r) = r[1] /\ Head(q) = q[1]
      BY <2>5, <2>9
    <3>2. r[1] = q[1] \/ (r[1] = q[2] /\ Len(q) >= 2)
      BY <2>1, <2>5, <3>1
    <3>3. q[1].target <= r[1].target
      BY <1>0, <2>5, <3>1, <3>2 DEF InOrder
    <3>4. QED
      BY <2>5, <3>1, <3>3
  <2>10. QED
    BY <2>5, <2>6, <2>7, <2>8, <2>9 DEF r
<1>3. QED
  BY <1>1, <1>2

\* Place separates the targets that are not later from the later ones.
LEMMA PlaceSplits ==
    ASSUME NEW q \in Seq(Event), NEW target \in Int, InOrder(q)
    PROVE  LET p == Place(q, target) IN
           /\ p \in 1 .. Len(q) + 1
           /\ \A j \in 1 .. Len(q) : j < p <=> q[j].target <= target
<1> DEFINE I == {i \in 1 .. Len(q) : q[i].target > target}
           p == Place(q, target)
<1>0. Len(q) \in Nat /\ \A i \in 1 .. Len(q) : q[i].target \in Int
  BY EventFields
<1>1. SelectInSeq(q, LAMBDA e : e.target > target) = IF I # {} THEN Min(I) ELSE 0
  BY DEF SelectInSeq
<1>2. CASE I = {}
  <2>1. p = Len(q) + 1
    BY <1>1, <1>2 DEF Place
  <2> HIDE DEF p
  <2>2. \A j \in 1 .. Len(q) : q[j].target <= target
    BY <1>0, <1>2
  <2>3. QED
    BY <1>0, <2>1, <2>2 DEF p
<1>3. CASE I # {}
  <2>1. Min(I) \in I /\ \A i \in I : Min(I) <= i
    <3>1. I \in SUBSET (1 .. Len(q))
      OBVIOUS
    <3> HIDE DEF I
    <3>2. QED
      BY <1>0, <1>3, <3>1, MinOfInterval
  <2>2. p = Min(I)
    BY <1>1, <1>3, <2>1 DEF Place
  <2> HIDE DEF p
  <2>3. p \in 1 .. Len(q) /\ q[p].target > target /\ \A i \in I : p <= i
    BY <2>1, <2>2
  <2>4. ASSUME NEW j \in 1 .. Len(q) PROVE j < p <=> q[j].target <= target
    BY <1>0, <2>3 DEF InOrder
  <2>5. QED
    BY <2>3, <2>4 DEF p
<1>4. QED
  BY <1>2, <1>3

\* Inserting at its place a node whose type is absent keeps the list well formed.
LEMMA InsertList ==
    ASSUME NEW q \in Seq(Event), NEW type \in Types, NEW target \in Int,
           InOrder(q), OnePerType(q), ~ HasEvent(q, type)
    PROVE  LET p == Place(q, target)
               r == InsertAt(q, p, [type |-> type, target |-> target])
           IN  /\ r \in Seq(Event) /\ r # <<>> /\ InOrder(r) /\ OnePerType(r)
               /\ HasEvent(r, type)
               /\ \A t : HasEvent(q, t) => HasEvent(r, t)
               /\ p # 1 => q # <<>> /\ Head(r) = Head(q)
<1> DEFINE p == Place(q, target)
           e == [type |-> type, target |-> target]
           r == InsertAt(q, p, e)
<1>0. Len(q) \in Nat /\ \A i \in 1 .. Len(q) : q[i] \in Event /\ q[i].target \in Int
  BY EventFields
<1>1. /\ p \in 1 .. Len(q) + 1
      /\ \A j \in 1 .. Len(q) : j < p <=> q[j].target <= target
  BY PlaceSplits
<1>2. e \in Event /\ e.type = type /\ e.target = target
  BY DEF Event
<1> HIDE DEF p, e
<1>3. /\ r \in Seq(Event) /\ Len(r) = Len(q) + 1
      /\ \A j \in 1 .. Len(q) + 1 :
           r[j] = IF j < p THEN q[j] ELSE IF j = p THEN e ELSE q[j - 1]
  BY <1>1, <1>2, InsertAtElements
<1> HIDE DEF r
<1>4. /\ Len(r) \in Nat
      /\ \A j \in 1 .. Len(r) : j < p => j \in 1 .. Len(q) /\ r[j] = q[j]
      /\ r[p] = e
      /\ \A j \in 1 .. Len(r) : j > p => j - 1 \in 1 .. Len(q) /\ r[j] = q[j - 1]
  BY <1>0, <1>1, <1>3
<1>5. p \in 1 .. Len(r)
  BY <1>1, <1>3
<1>6. InOrder(r)
  <2>1. SUFFICES ASSUME NEW i \in 1 .. Len(r), NEW j \in 1 .. Len(r), i < j
                 PROVE  r[i].target <= r[j].target
    BY DEF InOrder
  <2>2. CASE j < p
    BY <1>1, <1>3, <1>4, <2>1, <2>2 DEF InOrder
  <2>3. CASE j = p
    BY <1>0, <1>1, <1>2, <1>3, <1>4, <2>1, <2>3
  <2>4. CASE j > p
    <3>1. j - 1 \in 1 .. Len(q) /\ r[j] = q[j - 1]
      BY <1>4, <2>4
    <3>2. CASE i < p
      <4>1. i < j - 1 \/ i = j - 1
        BY <1>1, <1>3, <1>4, <2>1, <2>4, <3>2
      <4>2. i \in 1 .. Len(q) /\ r[i] = q[i]
        BY <1>4, <3>2
      <4>3. QED
        BY <1>0, <3>1, <4>1, <4>2 DEF InOrder
    <3>3. CASE i = p
      <4>1. q[j - 1].target > target
        BY <1>0, <1>1, <2>4, <3>1
      <4>2. QED
        BY <1>0, <1>2, <1>4, <3>1, <3>3, <4>1
    <3>4. CASE i > p
      <4>1. i - 1 \in 1 .. Len(q) /\ r[i] = q[i - 1] /\ i - 1 < j - 1
        BY <1>1, <1>3, <1>4, <2>1, <3>4
      <4>2. QED
        BY <3>1, <4>1 DEF InOrder
    <3>5. QED
      BY <1>1, <1>3, <3>2, <3>3, <3>4
  <2>5. QED
    BY <1>1, <1>3, <2>2, <2>3, <2>4
<1>7. OnePerType(r)
  <2>1. SUFFICES ASSUME NEW i \in 1 .. Len(r), NEW j \in 1 .. Len(r),
                        r[i].type = r[j].type, i # j
                 PROVE  FALSE
    BY DEF OnePerType
  <2>2. ASSUME NEW k \in 1 .. Len(r), k # p PROVE r[k].type # type
    <3>1. PICK h \in 1 .. Len(q) : r[k] = q[h]
      BY <1>1, <1>3, <1>4, <2>2
    <3>2. QED
      BY <3>1 DEF HasEvent
  <2>3. i # p /\ j # p
    BY <1>2, <1>4, <2>1, <2>2
  <2> DEFINE from(k) == IF k < p THEN k ELSE k - 1
  <2>4. from(i) \in 1 .. Len(q) /\ r[i] = q[from(i)]
    BY <1>1, <1>3, <1>4, <2>3
  <2>5. from(j) \in 1 .. Len(q) /\ r[j] = q[from(j)]
    BY <1>1, <1>3, <1>4, <2>3
  <2>6. from(i) # from(j)
    BY <1>1, <1>3, <2>1, <2>3
  <2> HIDE DEF from
  <2>7. QED
    BY <2>1, <2>4, <2>5, <2>6 DEF OnePerType
<1>8. HasEvent(r, type)
  BY <1>2, <1>4, <1>5 DEF HasEvent
<1>9. ASSUME NEW t, HasEvent(q, t) PROVE HasEvent(r, t)
  <2>1. PICK i \in 1 .. Len(q) : q[i].type = t
    BY <1>9 DEF HasEvent
  <2>2. CASE i < p
    BY <1>0, <1>3, <1>4, <2>1, <2>2 DEF HasEvent
  <2>3. CASE i >= p
    <3>1. i + 1 \in 1 .. Len(r) /\ i + 1 > p /\ (i + 1) - 1 = i
      BY <1>0, <1>1, <1>3, <2>3
    <3>2. QED
      BY <1>4, <2>1, <3>1 DEF HasEvent
  <2>4. QED
    BY <1>0, <1>1, <2>2, <2>3
<1>10. ASSUME p # 1 PROVE q # <<>> /\ Head(r) = Head(q)
  <2>1. Len(q) >= 1 /\ r[1] = q[1]
    BY <1>0, <1>1, <1>3, <1>10
  <2>2. QED
    BY <1>3, <2>1
<1>11. r # <<>>
  BY <1>0, <1>3
<1>12. QED
  BY <1>3, <1>6, <1>7, <1>8, <1>9, <1>10, <1>11 DEF p, e, r
----------------------------------------------------------------------------
(* Lemmas about the operations on the list and the counters *)

\* The part of the inductive invariant that every operation keeps on its own
ListInv(s) ==
    /\ s \in TimerState
    /\ InOrder(s.events) /\ OnePerType(s.events)
    /\ s.events # <<>> => s.current + s.leap <= Head(s.events).target

LEMMA HeadTarget ==
    ASSUME NEW q \in Seq(Event), q # <<>>
    PROVE  Len(q) \in Nat /\ Len(q) >= 1 /\ Head(q) = q[1] /\ Head(q).target \in Int
<1>1. Len(q) \in Nat /\ Len(q) >= 1 /\ Head(q) = q[1]
  OBVIOUS
<1>2. QED
  BY <1>1, EventFields

LEMMA NowType ==
    ASSUME NEW s \in TimerState
    PROVE  Now(s) \in Int
BY DEF TimerState, Now

\* Refresh moves the origin of the counters, never the clock.
LEMMA RefreshKeeps ==
    ASSUME NEW s \in TimerState, InOrder(s.events), OnePerType(s.events), s.events # <<>>
    PROVE  /\ ListInv(Refresh(s))
           /\ Refresh(s).events = s.events
           /\ Now(Refresh(s)) = Now(s)
<1> DEFINE gap == Head(s.events).target - Now(s)
           leap == IF gap > Far THEN Far ELSE gap
           t == [s EXCEPT !.current = Now(s), !.leap = leap, !.countdown = leap]
<1>1. s.events \in Seq(Event)
  BY DEF TimerState
<1>2. Head(s.events).target \in Int
  BY <1>1, HeadTarget
<1>3. Now(s) \in Int
  BY NowType
<1>4. leap \in Int /\ leap <= gap
  BY <1>2, <1>3, TicksAssumption
<1>5. Refresh(s) = t
  BY DEF Refresh
<1> HIDE DEF leap
<1>6. /\ t.events = s.events /\ t.current = Now(s)
      /\ t.leap = leap /\ t.countdown = leap
  BY DEF TimerState
<1>7. t \in TimerState
  BY <1>3, <1>4 DEF TimerState
<1>8. Now(t) = Now(s)
  <2>1. Now(t) = Now(s) + leap - leap
    BY <1>6 DEF Now
  <2>2. QED
    BY <1>3, <1>4, <2>1
<1>9. t.current + t.leap <= Head(t.events).target
  BY <1>2, <1>3, <1>4, <1>6
<1>10. QED
  BY <1>5, <1>6, <1>7, <1>8, <1>9 DEF ListInv

LEMMA AddEventKeeps ==
    ASSUME NEW s, ListInv(s), NEW type \in Types, NEW delay \in Int, NEW slack \in Int
    PROVE  LET t == AddEvent(s, type, delay, slack) IN
           /\ ListInv(t)
           /\ t.events # <<>>
           /\ HasEvent(t.events, type)
           /\ \A k : HasEvent(s.events, k) => HasEvent(t.events, k)
           /\ Now(t) = Now(s)
<1> DEFINE target == Now(s) + delay + (IF type = "VI" THEN 0 ELSE slack)
           rest == Without(s.events, type)
           place == Place(rest, target)
           list == InsertAt(rest, place, [type |-> type, target |-> target])
           u == [s EXCEPT !.events = list]
           t == AddEvent(s, type, delay, slack)
<1>1. /\ s \in TimerState /\ s.events \in Seq(Event)
      /\ s.current \in Int /\ s.leap \in Int /\ s.countdown \in Int
  BY DEF ListInv, TimerState
<1>2. target \in Int
  BY <1>1, NowType
<1>3. /\ rest \in Seq(Event) /\ InOrder(rest) /\ OnePerType(rest)
      /\ ~ HasEvent(rest, type)
      /\ \A k : k # type => (HasEvent(rest, k) <=> HasEvent(s.events, k))
      /\ rest # <<>> => s.events # <<>> /\ Head(s.events).target <= Head(rest).target
  BY <1>1, WithoutList DEF ListInv
<1> HIDE DEF rest, target
<1>4. /\ list \in Seq(Event) /\ list # <<>> /\ InOrder(list) /\ OnePerType(list)
      /\ HasEvent(list, type)
      /\ \A k : HasEvent(rest, k) => HasEvent(list, k)
      /\ place # 1 => rest # <<>> /\ Head(list) = Head(rest)
  BY <1>2, <1>3, InsertList
<1>5. t = IF place = 1 THEN Refresh(u) ELSE u
  BY DEF AddEvent, rest, target
<1> HIDE DEF t, list, place
<1>6. /\ u.events = list /\ u.current = s.current
      /\ u.leap = s.leap /\ u.countdown = s.countdown
  BY <1>1 DEF TimerState
<1>7. u \in TimerState /\ Now(u) = Now(s)
  BY <1>1, <1>4, <1>6 DEF TimerState, Now
<1>8. \A k : HasEvent(s.events, k) => HasEvent(list, k)
  BY <1>3, <1>4
<1> HIDE DEF u
<1>9. CASE place = 1
  <2>1. ListInv(Refresh(u)) /\ Refresh(u).events = list /\ Now(Refresh(u)) = Now(s)
    BY <1>4, <1>6, <1>7, RefreshKeeps
  <2>2. QED
    BY <1>4, <1>5, <1>8, <1>9, <2>1 DEF t
<1>10. CASE place # 1
  <2>1. /\ s.current + s.leap <= Head(s.events).target
        /\ Head(s.events).target <= Head(list).target
    BY <1>3, <1>4, <1>10 DEF ListInv
  <2>2. Head(s.events).target \in Int /\ Head(list).target \in Int
    BY <1>1, <1>3, <1>4, <1>10, HeadTarget
  <2>3. u.current + u.leap <= Head(u.events).target
    BY <1>1, <1>6, <2>1, <2>2
  <2>4. ListInv(u)
    BY <1>4, <1>6, <1>7, <2>3 DEF ListInv
  <2>5. QED
    BY <1>4, <1>5, <1>6, <1>7, <1>8, <1>10, <2>4 DEF t
<1>11. QED
  BY <1>9, <1>10

LEMMA RemoveHeadKeeps ==
    ASSUME NEW s, ListInv(s), Len(s.events) >= 2
    PROVE  LET t == RemoveHead(s) IN
           /\ ListInv(t)
           /\ \A k : k # Head(s.events).type
                    => (HasEvent(s.events, k) <=> HasEvent(t.events, k))
           /\ Now(t) = Now(s)
<1> DEFINE q == s.events
           u == [s EXCEPT !.events = Tail(q)]
<1>1. /\ q \in Seq(Event)
      /\ s \in TimerState
      /\ s.current \in Int /\ s.leap \in Int /\ s.countdown \in Int
      /\ InOrder(q) /\ OnePerType(q)
  BY DEF ListInv, TimerState
<1>2. Len(q) \in Nat /\ \A i \in 1 .. Len(q) : q[i] \in Event /\ q[i].target \in Int
  BY <1>1, EventFields
<1>3. /\ Tail(q) \in Seq(Event) /\ Len(Tail(q)) = Len(q) - 1
      /\ \A i \in 1 .. Len(q) - 1 : Tail(q)[i] = q[i + 1]
      /\ Tail(q) # <<>> /\ Head(q) = q[1]
  <2>1. q # <<>>
    BY <1>2
  <2>2. /\ Tail(q) \in Seq(Event) /\ Len(Tail(q)) = Len(q) - 1
        /\ \A i \in 1 .. Len(Tail(q)) : Tail(q)[i] = q[i + 1]
    BY <1>1, <2>1, HeadTailProperties
  <2>3. Tail(q) # <<>>
    BY <1>2, <2>2
  <2>4. QED
    BY <1>1, <2>1, <2>2, <2>3, HeadTarget
<1> DEFINE r == Tail(q)
<1> HIDE DEF r
<1>4. /\ u.events = r /\ u.current = s.current
      /\ u.leap = s.leap /\ u.countdown = s.countdown
  BY <1>1 DEF TimerState, r
<1>5. u \in TimerState /\ Now(u) = Now(s)
  BY <1>1, <1>3, <1>4 DEF TimerState, Now, r
<1>6. InOrder(r)
  <2>1. SUFFICES ASSUME NEW i \in 1 .. Len(r), NEW j \in 1 .. Len(r), i < j
                 PROVE  r[i].target <= r[j].target
    BY DEF InOrder
  <2>2. /\ r[i] = q[i + 1] /\ r[j] = q[j + 1] /\ i + 1 < j + 1
        /\ i + 1 \in 1 .. Len(q) /\ j + 1 \in 1 .. Len(q)
    BY <1>2, <1>3, <2>1 DEF r
  <2>3. QED
    BY <1>1, <2>2 DEF InOrder
<1>7. OnePerType(r)
  <2>1. SUFFICES ASSUME NEW i \in 1 .. Len(r), NEW j \in 1 .. Len(r),
                        r[i].type = r[j].type
                 PROVE  i = j
    BY DEF OnePerType
  <2>2. /\ r[i] = q[i + 1] /\ r[j] = q[j + 1]
        /\ i + 1 \in 1 .. Len(q) /\ j + 1 \in 1 .. Len(q)
    BY <1>2, <1>3 DEF r
  <2>3. i + 1 = j + 1
    BY <1>1, <2>1, <2>2 DEF OnePerType
  <2>4. QED
    BY <1>2, <1>3, <2>3 DEF r
<1>8. ASSUME NEW k, k # Head(q).type
      PROVE  HasEvent(q, k) <=> HasEvent(r, k)
  <2>1. ASSUME HasEvent(q, k) PROVE HasEvent(r, k)
    <3>1. PICK i \in 1 .. Len(q) : q[i].type = k
      BY <2>1 DEF HasEvent
    <3>2. i - 1 \in 1 .. Len(r) /\ r[i - 1] = q[i]
      BY <1>2, <1>3, <1>8, <3>1 DEF r
    <3>3. QED
      BY <3>1, <3>2 DEF HasEvent
  <2>2. ASSUME HasEvent(r, k) PROVE HasEvent(q, k)
    <3>1. PICK i \in 1 .. Len(r) : r[i].type = k
      BY <2>2 DEF HasEvent
    <3>2. i + 1 \in 1 .. Len(q) /\ r[i] = q[i + 1]
      BY <1>2, <1>3 DEF r
    <3>3. QED
      BY <3>1, <3>2 DEF HasEvent
  <2>3. QED
    BY <2>1, <2>2
<1>9. r # <<>>
  BY <1>3 DEF r
<1> HIDE DEF u
<1>10. ListInv(Refresh(u)) /\ Refresh(u).events = r /\ Now(Refresh(u)) = Now(s)
  BY <1>4, <1>5, <1>6, <1>7, <1>9, RefreshKeeps
<1>11. RemoveHead(s) = Refresh(u)
  BY DEF RemoveHead, u
<1>12. QED
  BY <1>8, <1>10, <1>11
----------------------------------------------------------------------------
(* The inductive invariant *)

\* What TimerInv says of the timer alone
LEMMA TimerInvParts ==
    TimerInv <=> /\ ListInv(timer) /\ AlwaysArmed
                 /\ compare \in 0 .. Wrap - 1
                 /\ period \in FramePeriods
                 /\ loop \in {"run", "check"}
BY DEF TimerInv, TypeOK, ListOrdered, LeapBounded, ListInv

\* Two types are pending, so the list outlives its header.
LEMMA ArmedLength ==
    ASSUME NEW q \in Seq(Event), HasEvent(q, "VI"), HasEvent(q, "COMPARE")
    PROVE  Len(q) >= 2
<1>1. PICK i \in 1 .. Len(q) : q[i].type = "VI"
  BY DEF HasEvent
<1>2. PICK j \in 1 .. Len(q) : q[j].type = "COMPARE"
  BY DEF HasEvent
<1>3. i # j
  BY <1>1, <1>2
<1>4. QED
  BY <1>3, EventFields

\* The delays are integers.
LEMMA DelayTypes ==
    /\ \A v, c \in Int : CompareDelay(v, c) \in Int /\ InitialCompareDelay(v, c) \in Int
    /\ \A type \in Tasks : Delay[type] \in Int
    /\ Slack \subseteq Int /\ 0 \in Int
    /\ \A s \in TimerState, jitter \in Jitter : Count(s, jitter) \in Int
<1>1. \A x, y \in Int : x * y \in Int
  OBVIOUS
<1>2. \A x \in Int : x \div CF \in Int /\ x \div VCF \in Int /\ x % Wrap \in Int
  BY FactorsAssumption, TicksAssumption
<1>3. QED
  BY <1>1, <1>2, NowType, FactorsAssumption, TicksAssumption, TasksAssumption
     DEF CompareDelay, InitialCompareDelay, Count

LEMMA RestartedArmed ==
    ASSUME NEW count \in Int, NEW value \in Int, NEW frame \in FramePeriods,
           NEW slack \in Slack
    PROVE  LET t == Restarted(count, value, frame, slack) IN
           /\ ListInv(t) /\ HasEvent(t.events, "VI") /\ HasEvent(t.events, "COMPARE")
           /\ Now(t) = ((count * VCF) % Wrap) \div CF
<1> DEFINE now == ((count * VCF) % Wrap) \div CF
           empty == [events |-> <<>>, current |-> now, leap |-> 0, countdown |-> 0]
           first == AddEvent(empty, "COMPARE", InitialCompareDelay(value, count), slack)
           t == AddEvent(first, "VI", now % frame, 0)
<1>1. now \in Int /\ now % frame \in Int
  <2>1. count * VCF \in Int
    BY FactorsAssumption
  <2>2. (count * VCF) % Wrap \in Int
    BY <2>1, TicksAssumption
  <2>3. now \in Int
    BY <2>2, FactorsAssumption
  <2> HIDE DEF now
  <2>4. frame \in Nat \ {0}
    BY PeriodsAssumption
  <2>5. QED
    BY <2>3, <2>4
<1>2. {"VI", "COMPARE"} \subseteq Types
  BY DEF Types
<1>3. InitialCompareDelay(value, count) \in Int /\ slack \in Int
  BY DelayTypes
<1> HIDE DEF now
<1>4. ListInv(empty) /\ Now(empty) = now
  BY <1>1 DEF ListInv, TimerState, InOrder, OnePerType, Now
<1> HIDE DEF empty
<1>5. ListInv(first) /\ HasEvent(first.events, "COMPARE") /\ Now(first) = now
  BY <1>2, <1>3, <1>4, AddEventKeeps
<1> HIDE DEF first
<1>6. /\ ListInv(t) /\ HasEvent(t.events, "VI") /\ HasEvent(t.events, "COMPARE")
      /\ Now(t) = now
  BY <1>1, <1>2, <1>5, AddEventKeeps
<1>7. QED
  BY <1>6 DEF Restarted, first, empty, now

\* The handlers only add events, and the recurring ones re-arm themselves.
LEMMA RearmedKeeps ==
    ASSUME NEW s, ListInv(s), NEW type \in Types, NEW slack \in Slack,
           period \in FramePeriods, NEW t \in Rearmed(s, type, slack)
    PROVE  /\ ListInv(t) /\ Now(t) = Now(s)
           /\ \A k : HasEvent(s.events, k) => HasEvent(t.events, k)
           /\ type \in {"VI", "COMPARE"} => HasEvent(t.events, type)
<1>1. period \in Int /\ Wrap \in Int /\ slack \in Int /\ 0 \in Int
  BY PeriodsAssumption, TicksAssumption
<1>2. CASE type = "VI"
  <2>1. t = AddEvent(s, "VI", period, 0)
    BY <1>2 DEF Rearmed
  <2>2. QED
    BY <1>1, <1>2, <2>1, AddEventKeeps
<1>3. CASE type = "COMPARE"
  <2>1. t = AddEvent(s, "COMPARE", Wrap, slack)
    BY <1>3 DEF Rearmed
  <2>2. QED
    BY <1>1, <1>3, <2>1, AddEventKeeps
<1>4. CASE type \notin {"VI", "COMPARE"}
  <2>1. CASE t = s
    BY <1>4, <2>1
  <2>2. CASE "SI_IO" \in Tasks /\ t = AddEvent(s, "SI_IO", Delay["SI_IO"], slack)
    <3>1. "SI_IO" \in Types /\ Delay["SI_IO"] \in Int
      BY <2>2, DelayTypes DEF Types
    <3>2. QED
      BY <1>1, <1>4, <2>2, <3>1, AddEventKeeps
  <2>3. QED
    BY <1>4, <2>1, <2>2 DEF Rearmed
<1>5. QED
  BY <1>2, <1>3, <1>4

LEMMA WithCheckKeeps ==
    ASSUME NEW s, ListInv(s), NEW type \in Types, NEW slack \in Slack,
           NEW t \in WithCheck(s, type, slack)
    PROVE  /\ ListInv(t) /\ Now(t) = Now(s)
           /\ \A k : HasEvent(s.events, k) => HasEvent(t.events, k)
<1> DEFINE delay == IF type = "CHECK_INTERRUPT" THEN 100 ELSE Delay["CHECK_INTERRUPT"]
<1>1. CASE t = s
  BY <1>1
<1>2. CASE /\ "CHECK_INTERRUPT" \in Tasks
           /\ t = AddEvent(s, "CHECK_INTERRUPT", delay, slack)
  <2>1. "CHECK_INTERRUPT" \in Types /\ delay \in Int /\ slack \in Int
    BY <1>2, DelayTypes DEF Types
  <2> HIDE DEF delay
  <2>2. QED
    BY <1>2, <2>1, AddEventKeeps
<1>3. QED
  BY <1>1, <1>2 DEF WithCheck

\* Zeroing or decrementing the countdown leaves the list and the leap alone.
LEMMA CountdownKeeps ==
    ASSUME NEW s, ListInv(s), NEW c \in Int
    PROVE  LET t == [s EXCEPT !.countdown = c] IN
           /\ ListInv(t) /\ t.events = s.events
           /\ Now(t) = s.current + s.leap - c
<1> DEFINE t == [s EXCEPT !.countdown = c]
<1>1. /\ s \in TimerState /\ s.current \in Int /\ s.leap \in Int
      /\ s.countdown \in Int
  BY DEF ListInv, TimerState
<1>2. /\ t.events = s.events /\ t.current = s.current /\ t.leap = s.leap
      /\ t.countdown = c /\ t \in TimerState
  BY <1>1 DEF TimerState
<1> HIDE DEF t
<1>3. QED
  BY <1>1, <1>2 DEF ListInv, Now, t

\* Firing the header: the clock moves on by the cost of an interrupt, the
\* recurring events stay armed and no other task is dropped.
LEMMA TriggerKeeps ==
    ASSUME TimerInv, Trigger
    PROVE  /\ ListInv(timer') /\ AlwaysArmed'
           /\ Now(timer') >= Now(timer)
           /\ \A k : k # Head(timer.events).type /\ HasEvent(timer.events, k)
                    => HasEvent(timer'.events, k)
<1> DEFINE head == Head(timer.events).type
           u == RemoveHead(timer)
<1>1. ListInv(timer) /\ AlwaysArmed /\ period \in FramePeriods
  BY TimerInvParts
<1>2. timer.events \in Seq(Event) /\ Len(timer.events) >= 2 /\ timer.events # <<>>
  <2>1. timer.events \in Seq(Event)
    BY <1>1 DEF ListInv, TimerState
  <2>2. Len(timer.events) >= 2
    BY <1>1, <2>1, ArmedLength DEF AlwaysArmed
  <2>3. QED
    BY <2>1, <2>2
<1>3. head \in Types
  BY <1>2, HeadTarget, EventFields
<1>4a. PICK slack \in Slack :
         \E s \in Rearmed(u, head, slack) : \E t \in WithCheck(s, head, slack) :
         \E cost \in {0, 4 * VCF} : timer' = [t EXCEPT !.countdown = @ - cost]
  BY DEF Trigger
<1>4b. PICK s \in Rearmed(u, head, slack) : \E t \in WithCheck(s, head, slack) :
         \E cost \in {0, 4 * VCF} : timer' = [t EXCEPT !.countdown = @ - cost]
  BY <1>4a
<1>4. PICK t \in WithCheck(s, head, slack), cost \in {0, 4 * VCF} :
         timer' = [t EXCEPT !.countdown = @ - cost]
  BY <1>4b
<1>5. /\ ListInv(u) /\ Now(u) = Now(timer)
      /\ \A k : k # head /\ HasEvent(timer.events, k) => HasEvent(u.events, k)
  BY <1>1, <1>2, RemoveHeadKeeps
<1> HIDE DEF head, u
<1>6. /\ ListInv(s) /\ Now(s) = Now(timer)
      /\ \A k : HasEvent(u.events, k) => HasEvent(s.events, k)
      /\ head \in {"VI", "COMPARE"} => HasEvent(s.events, head)
  BY <1>1, <1>3, <1>5, RearmedKeeps
<1>7. /\ ListInv(t) /\ Now(t) = Now(timer)
      /\ \A k : HasEvent(s.events, k) => HasEvent(t.events, k)
  BY <1>3, <1>6, WithCheckKeeps
<1>8. cost \in Nat
  BY FactorsAssumption
<1>9. t.countdown \in Int /\ t.current \in Int /\ t.leap \in Int
  BY <1>7 DEF ListInv, TimerState
<1>10. /\ ListInv(timer') /\ timer'.events = t.events
       /\ Now(timer') = t.current + t.leap - (t.countdown - cost)
  <2> DEFINE c == t.countdown - cost
  <2>1. c \in Int /\ timer' = [t EXCEPT !.countdown = c]
    BY <1>4, <1>8, <1>9
  <2> HIDE DEF c
  <2>2. ListInv(timer') /\ timer'.events = t.events /\ Now(timer') = t.current + t.leap - c
    BY <1>7, <2>1, CountdownKeeps
  <2>3. QED
    BY <2>2 DEF c
<1>11. Now(timer') >= Now(timer)
  BY <1>7, <1>8, <1>9, <1>10 DEF Now
<1>12. \A k : k # head /\ HasEvent(timer.events, k) => HasEvent(timer'.events, k)
  BY <1>5, <1>6, <1>7, <1>10
<1>13. AlwaysArmed'
  <2>1. HasEvent(timer'.events, "VI")
    BY <1>1, <1>6, <1>7, <1>10, <1>12 DEF AlwaysArmed
  <2>2. HasEvent(timer'.events, "COMPARE")
    BY <1>1, <1>6, <1>7, <1>10, <1>12 DEF AlwaysArmed
  <2>3. QED
    BY <2>1, <2>2 DEF AlwaysArmed
<1>14. QED
  BY <1>10, <1>11, <1>12, <1>13 DEF head
----------------------------------------------------------------------------
(* The theorems *)

THEOREM InitialInv == Init => TimerInv
<1> SUFFICES ASSUME Init PROVE TimerInv
  OBVIOUS
<1>1. PICK slack \in Slack : timer = Restarted(0, 0, period, slack)
  BY DEF Init
<1>2. period \in FramePeriods /\ compare \in 0 .. Wrap - 1 /\ loop \in {"run", "check"}
  BY TicksAssumption DEF Init
<1>3. ListInv(timer) /\ AlwaysArmed
  <2>1. 0 \in Int
    OBVIOUS
  <2>2. QED
    BY <1>1, <1>2, <2>1, RestartedArmed DEF AlwaysArmed
<1>4. QED
  BY <1>2, <1>3, TimerInvParts

\* Every step keeps the inductive invariant, moves the clock forward and keeps
\* the pending tasks, with the exceptions the code makes.
LEMMA StepKeeps ==
    ASSUME TimerInv, [Next]_vars
    PROVE  /\ TimerInv'
           /\ \/ Now(timer') >= Now(timer)
              \/ \E value \in Values : WriteCount(value)
              \/ SpeedHack /\ timer.countdown < 0
           /\ \A type : HasEvent(timer.events, type) =>
                \/ HasEvent(timer'.events, type)
                \/ Trigger /\ Head(timer.events).type = type
                \/ \E value \in Values : WriteCount(value)
<1> DEFINE Goal ==
      /\ ListInv(timer') /\ AlwaysArmed'
      /\ compare' \in 0 .. Wrap - 1 /\ period' \in FramePeriods
      /\ loop' \in {"run", "check"}
      /\ \/ Now(timer') >= Now(timer)
         \/ \E value \in Values : WriteCount(value)
         \/ SpeedHack /\ timer.countdown < 0
      /\ \A type : HasEvent(timer.events, type) =>
           \/ HasEvent(timer'.events, type)
           \/ Trigger /\ Head(timer.events).type = type
           \/ \E value \in Values : WriteCount(value)
<1>1. /\ ListInv(timer) /\ AlwaysArmed /\ compare \in 0 .. Wrap - 1
      /\ period \in FramePeriods /\ loop \in {"run", "check"}
  BY TimerInvParts
<1>2. /\ timer \in TimerState /\ timer.current \in Int /\ timer.leap \in Int
      /\ timer.countdown \in Int /\ Now(timer) \in Int
  BY <1>1, NowType DEF ListInv, TimerState
<1>3. "COMPARE" \in Types
  BY DEF Types
<1>4. ASSUME NEW value \in Values, WriteCount(value) PROVE Goal
  <2>1. PICK slack \in Slack : timer' = Restarted(value, compare, period, slack)
    BY <1>4 DEF WriteCount
  <2>2. value \in Int /\ compare \in Int
    BY <1>1, TicksAssumption
  <2>3. ListInv(timer') /\ AlwaysArmed'
    BY <1>1, <2>1, <2>2, RestartedArmed DEF AlwaysArmed
  <2>4. UNCHANGED <<compare, period, loop>>
    BY <1>4 DEF WriteCount
  <2>5. QED
    BY <1>1, <1>4, <2>3, <2>4
<1>5. ASSUME NEW value \in Values, WriteCompare(value) PROVE Goal
  <2>1. PICK jitter \in Jitter, slack \in Slack :
           timer' = AddEvent(timer, "COMPARE",
                      CompareDelay(value, Count(timer, jitter)), slack)
    BY <1>5 DEF WriteCompare
  <2> DEFINE count == Count(timer, jitter)
  <2>2. count \in Int
    BY <1>2, DelayTypes
  <2> HIDE DEF count
  <2>3. CompareDelay(value, count) \in Int /\ slack \in Int
    BY <2>2, DelayTypes, TicksAssumption
  <2>4. timer' = AddEvent(timer, "COMPARE", CompareDelay(value, count), slack)
    BY <2>1 DEF count
  <2>5. /\ ListInv(timer') /\ Now(timer') = Now(timer)
        /\ \A k : HasEvent(timer.events, k) => HasEvent(timer'.events, k)
    BY <1>1, <1>3, <2>3, <2>4, AddEventKeeps
  <2>6. compare' = value /\ UNCHANGED <<period, loop>> /\ value \in 0 .. Wrap - 1
    BY <1>5, TicksAssumption DEF WriteCompare
  <2>7. QED
    BY <1>1, <1>2, <2>5, <2>6 DEF AlwaysArmed
<1>6. ASSUME NEW frame \in FramePeriods, WriteVSync(frame) PROVE Goal
  BY <1>1, <1>2, <1>6 DEF WriteVSync, AlwaysArmed
<1>7. ASSUME NEW type \in Tasks, Schedule(type) PROVE Goal
  <2>1. PICK slack \in Slack : timer' = AddEvent(timer, type, Delay[type], slack)
    BY <1>7 DEF Schedule
  <2>2. Delay[type] \in Int /\ slack \in Int /\ type \in Types
    BY DelayTypes DEF Types
  <2>3. /\ ListInv(timer') /\ Now(timer') = Now(timer)
        /\ \A k : HasEvent(timer.events, k) => HasEvent(timer'.events, k)
    BY <1>1, <2>1, <2>2, AddEventKeeps
  <2>4. UNCHANGED <<compare, period, loop>>
    BY <1>7 DEF Schedule
  <2>5. QED
    BY <1>1, <1>2, <2>3, <2>4 DEF AlwaysArmed
<1>8. ASSUME SpeedHack PROVE Goal
  <2>1. timer' = [timer EXCEPT !.countdown = 0] /\ UNCHANGED <<compare, period, loop>>
    BY <1>8 DEF SpeedHack
  <2>2. /\ ListInv(timer') /\ timer'.events = timer.events
        /\ Now(timer') = timer.current + timer.leap - 0
    <3>1. 0 \in Int
      OBVIOUS
    <3>2. QED
      BY <1>1, <2>1, <3>1, CountdownKeeps
  <2>3. Now(timer') >= Now(timer) \/ timer.countdown < 0
    BY <1>2, <2>2 DEF Now
  <2>4. QED
    BY <1>1, <1>8, <2>1, <2>2, <2>3 DEF AlwaysArmed
<1>9. ASSUME NEW c \in Nat, timer' = [timer EXCEPT !.countdown = @ - c],
             loop' \in {"run", "check"}, UNCHANGED <<compare, period>>
      PROVE  Goal
  <2> DEFINE d == timer.countdown - c
  <2>1. d \in Int /\ timer' = [timer EXCEPT !.countdown = d]
    BY <1>2, <1>9
  <2> HIDE DEF d
  <2>2. /\ ListInv(timer') /\ timer'.events = timer.events
        /\ Now(timer') = timer.current + timer.leap - d
    BY <1>1, <2>1, CountdownKeeps
  <2>3. Now(timer') >= Now(timer)
    BY <1>2, <2>2 DEF Now, d
  <2>4. QED
    BY <1>1, <1>9, <2>2, <2>3 DEF AlwaysArmed
<1>10. ASSUME NEW cost \in Costs, Run(cost) PROVE Goal
  <2>1. cost \in Nat
    BY TicksAssumption
  <2>2. /\ timer' = [timer EXCEPT !.countdown = @ - cost]
        /\ loop' \in {"run", "check"} /\ UNCHANGED <<compare, period>>
    BY <1>10 DEF Run
  <2>3. QED
    BY <1>9, <2>1, <2>2
<1>11. ASSUME RunFaulting PROVE Goal
  <2>1. 5 * VCF \in Nat
    BY FactorsAssumption
  <2>2. /\ timer' = [timer EXCEPT !.countdown = @ - 5 * VCF]
        /\ loop' \in {"run", "check"} /\ UNCHANGED <<compare, period>>
    BY <1>1, <1>11 DEF RunFaulting
  <2>3. QED
    BY <1>9, <2>1, <2>2
<1>12. ASSUME NotDue PROVE Goal
  BY <1>1, <1>2, <1>12 DEF NotDue, AlwaysArmed
<1>13. ASSUME Trigger PROVE Goal
  <2>1. /\ ListInv(timer') /\ AlwaysArmed' /\ Now(timer') >= Now(timer)
        /\ \A k : k # Head(timer.events).type /\ HasEvent(timer.events, k)
                 => HasEvent(timer'.events, k)
    BY <1>13, TriggerKeeps
  <2>2. loop' = "run" /\ UNCHANGED <<compare, period>>
    BY <1>13 DEF Trigger
  <2>3. QED
    BY <1>1, <1>13, <2>1, <2>2
<1>14. ASSUME UNCHANGED vars PROVE Goal
  BY <1>1, <1>2, <1>14 DEF vars, AlwaysArmed
<1>15. Goal
  BY <1>4, <1>5, <1>6, <1>7, <1>8, <1>10, <1>11, <1>12, <1>13, <1>14 DEF Next
<1>16. (ListInv(timer') /\ AlwaysArmed' /\ compare' \in 0 .. Wrap - 1
        /\ period' \in FramePeriods /\ loop' \in {"run", "check"}) => TimerInv'
  BY DEF TimerInv, TypeOK, ListOrdered, LeapBounded, ListInv
<1>17. QED
  BY <1>15, <1>16

\* The inductive invariant holds in every reachable state: the types, the order
\* and the uniqueness of the events, VI and COMPARE pending, no leap past the
\* first target.
THEOREM TimerInvariant == Spec => []TimerInv
<1>1. TimerInv /\ [Next]_vars => TimerInv'
  BY StepKeeps
<1>2. QED
  BY InitialInv, <1>1, PTL DEF Spec

\* The event list stays in firing order, with one event of a type.
THEOREM EventListCorrect == Spec => [](TypeOK /\ ListOrdered)
<1>1. TimerInv => TypeOK /\ ListOrdered
  BY DEF TimerInv
<1>2. QED
  BY TimerInvariant, <1>1, PTL

\* The list the code says "should never" be empty (timer.c:192, 376) always
\* holds a VI and a COMPARE event.
THEOREM ListNeverEmpty == Spec => []AlwaysArmed
<1>1. TimerInv => AlwaysArmed
  BY DEF TimerInv
<1>2. QED
  BY TimerInvariant, <1>1, PTL

\* The countdown of the CPU loop never sleeps past an event.
THEOREM CountdownCorrect == Spec => []NeverOversleeps
<1>1. TimerInv => NeverOversleeps
  <2>1. SUFFICES ASSUME TimerInv, Head(timer.events).target <= Now(timer)
                 PROVE  timer.countdown <= 0
    BY DEF NeverOversleeps
  <2>2. ListInv(timer) /\ AlwaysArmed
    BY <2>1, TimerInvParts
  <2>3. /\ timer.events \in Seq(Event) /\ timer.current \in Int
        /\ timer.leap \in Int /\ timer.countdown \in Int
    BY <2>2 DEF ListInv, TimerState
  <2>4. Len(timer.events) >= 2
    BY <2>2, <2>3, ArmedLength DEF AlwaysArmed
  <2>5. timer.events # <<>> /\ Head(timer.events).target \in Int
    BY <2>3, <2>4, HeadTarget
  <2>6. timer.current + timer.leap <= Head(timer.events).target
    BY <2>2, <2>5 DEF ListInv
  <2>7. QED
    BY <2>1, <2>3, <2>5, <2>6 DEF Now
<1>2. QED
  BY TimerInvariant, <1>1, PTL

\* Emulated time runs backwards only where the code makes it.
THEOREM ClockMonotone == Spec => TimeRunsForward
<1>1. TimerInv /\ [Next]_vars =>
        [ \/ Now(timer') >= Now(timer)
          \/ \E value \in Values : WriteCount(value)
          \/ SpeedHack /\ timer.countdown < 0 ]_vars
  BY StepKeeps
<1>2. QED
  BY TimerInvariant, <1>1, PTL DEF Spec, TimeRunsForward

\* A pending task is fired or rescheduled, never dropped, except by mtc0 COUNT.
THEOREM NoTaskDropped == Spec => TasksSurvive
<1>1. TimerInv /\ [Next]_vars =>
        [ \A type \in Tasks :
            HasEvent(timer.events, type) /\ ~HasEvent(timer'.events, type) =>
               \/ Trigger /\ Head(timer.events).type = type
               \/ \E value \in Values : WriteCount(value) ]_vars
  BY StepKeeps
<1>2. QED
  BY TimerInvariant, <1>1, PTL DEF Spec, TasksSurvive
----------------------------------------------------------------------------
(* What is written to COUNT is read back *)

\* The quotient of natural numbers, and the bounds that a bound of the dividend gives.
LEMMA DivBounds ==
    ASSUME NEW x \in Nat, NEW c \in Nat \ {0}
    PROVE  /\ x \div c \in Nat
           /\ (x \div c) * c <= x
           /\ x <= (x \div c) * c + c - 1
<1>1. x % c \in 0 .. c - 1
  OBVIOUS
<1>2. x = c * (x \div c) + (x % c) /\ x \div c \in Int
  OBVIOUS
<1>3. x \div c >= 0
  <2>1. CASE x \div c <= -1
    <3>1. c * (x \div c) <= c * (-1)
      BY <1>2, <2>1
    <3> QED BY <1>1, <1>2, <3>1
  <2> QED BY <1>2, <2>1
<1>4. c * (x \div c) = (x \div c) * c
  BY <1>2
<1> QED BY <1>1, <1>2, <1>3, <1>4

LEMMA DivRange ==
    ASSUME NEW x \in Nat, NEW c \in Nat \ {0}, NEW a \in Int, NEW b \in Int, a * c <= x, x < b * c
    PROVE a <= x \div c /\ x \div c < b
<1> DEFINE q == x \div c
<1>1. q \in Nat /\ q * c <= x /\ x <= q * c + c - 1
  BY DivBounds
<1> HIDE DEF q
<1>2. CASE q <= a - 1
  <2>1. q * c <= (a - 1) * c
     BY <1>1, <1>2
  <2>2. (a - 1) * c = a * c - c
     OBVIOUS
  <2> QED BY <1>1, <2>1, <2>2
<1>3. CASE b <= q
  <2>1. b * c <= q * c
    BY <1>1, <1>3
  <2> QED BY <1>1, <2>1
<1>4. QED BY <1>1, <1>2, <1>3 DEF q

LEMMA ModSmall ==
    ASSUME NEW x \in Nat, NEW w \in Nat \ {0}, x < w
    PROVE  x % w = x
<1>1. x % w \in 0 .. w - 1
  OBVIOUS
<1>2. x = w * (x \div w) + (x % w) /\ x \div w \in Nat
  BY DivBounds
<1>3. CASE x \div w >= 1
  <2>1. w * (x \div w) >= w * 1
    BY <1>2, <1>3
  <2> QED BY <1>1, <1>2, <2>1
<1>4. CASE x \div w = 0
  BY <1>1, <1>2, <1>4
<1> QED BY <1>2, <1>3, <1>4

\* Scaled to ticks and back, a value loses less than one tick's worth of counts.
LEMMA ScaledBack ==
    ASSUME NEW v \in Values, v * VCF < Wrap
    PROVE  ((((v * VCF) % Wrap) \div CF) * CF) \div VCF \in (v - CF + 1 .. v) \cap Nat
<1> DEFINE x == v * VCF
           q == x \div CF
           y == q * CF
           c == y \div VCF
<1>1. v \in Nat /\ v < Wrap /\ Wrap \in Nat \ {0} /\ CF \in Nat \ {0} /\ VCF \in Nat \ {0}
  BY TicksAssumption, FactorsAssumption
<1>2. x \in Nat
  BY <1>1
<1>3. x % Wrap = x
  <2> HIDE DEF x
  <2>1. x < Wrap
    BY DEF x
  <2> QED BY <1>1, <1>2, <2>1, ModSmall
<1>4. q \in Nat /\ y <= x /\ x <= y + CF - 1
  <2> HIDE DEF x
  <2> QED BY <1>1, <1>2, DivBounds
<1>5. y \in Nat
  <2> HIDE DEF q
  <2> QED BY <1>1, <1>4
<1>6. y < (v + 1) * VCF
  <2>1. (v + 1) * VCF = x + VCF
    BY <1>1
  <2> HIDE DEF x, y
  <2> QED BY <1>1, <1>2, <1>4, <1>5, <2>1
<1>7. (v - CF + 1) * VCF <= y
  <2>1. (v - CF + 1) * VCF = x - (CF - 1) * VCF
    BY <1>1
  <2>2. (CF - 1) * 1 <= (CF - 1) * VCF
    BY <1>1
  <2>3. (CF - 1) * VCF \in Int
    BY <1>1
  <2> HIDE DEF x, y
  <2> QED BY <1>1, <1>2, <1>4, <1>5, <2>1, <2>2, <2>3
<1> HIDE DEF y
<1>8. v - CF + 1 <= c /\ c < v + 1
  <2>1. v - CF + 1 \in Int /\ v + 1 \in Int
    BY <1>1
  <2> QED BY <1>1, <1>5, <1>6, <1>7, <2>1, DivRange
<1>9. c \in Nat
  BY <1>1, <1>5, DivBounds
<1> HIDE DEF c
<1>10. ((((v * VCF) % Wrap) \div CF) * CF) \div VCF = c
  BY <1>3 DEF c, y
<1> QED BY <1>1, <1>8, <1>9, <1>10

\* "COUNT register is writable" (R4300i.c:1682): the next read returns what was
\* written, to the resolution of the counter factor and with the jitter that
\* Get_COUNT_Register adds to every read (timer.c:693-702), as long as the scaled
\* value fits in 32 bits, which it always does with the default factor.
THEOREM CountReadable ==
    ASSUME \A v \in Values : v * VCF < Wrap
    PROVE  Spec => CountReadsBack
<1> DEFINE Reads ==
       \A value \in Values, jitter \in Jitter :
          WriteCount(value) =>
             \E base \in (value - CF + 1 .. value) \cap Nat :
                Count(timer', jitter) = (base + jitter) % Wrap
<1>1. TimerInv /\ [Next]_vars => [Reads]_vars
  <2> SUFFICES ASSUME TimerInv, NEW value \in Values, NEW jitter \in Jitter, WriteCount(value)
               PROVE  \E base \in (value - CF + 1 .. value) \cap Nat :
                         Count(timer', jitter) = (base + jitter) % Wrap
    OBVIOUS
  <2>1. PICK slack \in Slack : timer' = Restarted(value, compare, period, slack)
    BY DEF WriteCount
  <2>2. value \in Int /\ compare \in Int /\ period \in FramePeriods
    BY TimerInvParts, TicksAssumption
  <2>3. Now(timer') = ((value * VCF) % Wrap) \div CF
    BY <2>1, <2>2, RestartedArmed
  <2> DEFINE base == ((((value * VCF) % Wrap) \div CF) * CF) \div VCF
  <2>4. base \in (value - CF + 1 .. value) \cap Nat
    BY ScaledBack
  <2>5. Count(timer', jitter) = (base + jitter) % Wrap
    BY <2>3 DEF Count
  <2> HIDE DEF base
  <2> QED BY <2>4, <2>5
<1>2. QED
  BY TimerInvariant, <1>1, PTL DEF Spec, CountReadsBack
=============================================================================
