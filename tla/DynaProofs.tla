------------------------------ MODULE DynaProofs ------------------------------
(***************************************************************************)
(* What is proved of the tables of the recompiler, for every set of        *)
(* registers and of instructions, blocks of any length and words of any    *)
(* width: they are consistent after every instruction compiled             *)
(* (TablesCoherent), and the register cache reports no error               *)
(* (NothingReported).  The first part is about RegCache, an operation at a *)
(* time, the second about the handlers of DynaCPU, DynaCOP1 and            *)
(* DynaBranch, the third about the block.  The last is about values: the   *)
(* tables stand for the registers of a machine (Follows), and the register *)
(* cache moves values about and changes none (MapRegisterFollows).         *)
(***************************************************************************)
EXTENDS Dyna, FiniteSetTheorems, TLAPS

\* The types of the tables' entries.
Marks == {Unused, HighWord, Protected}
EntryType == [mips : Reg \cup Marks, is32 : BOOLEAN, dirty : BOOLEAN,
              hi : Host \cup {None}, birth : Nat]
MapType == [Host -> EntryType]

\* The tables are of their types, and the rest of the machine of any.
Typed(s) ==
    /\ s \in [gpr : {s.gpr}, fpr : {s.fpr}, con31 : {s.con31}, rc : {s.rc}, host : {s.host},
              map : MapType, const : {s.const}, flushed : {s.flushed}, dead : SUBSET Reg,
              now : {s.now}, stack : {s.stack}, store : {s.store}, exit : {s.exit},
              year : Nat, errors : {s.errors}]
    /\ DOMAIN s.const = Reg

\* TablesAgree, without the places of the registers.
Consistent(map, const) ==
    /\ const[R0] = 0
    /\ \A j, k \in Host : map[k].mips \in Reg /\ map[j].mips = map[k].mips => j = k
    /\ \A k \in Host : map[k].mips \in Reg =>
         /\ map[k].mips # R0 => const[map[k].mips] = NoConst
         /\ map[k].hi \in Host
         /\ map[k].hi = k \/ map[map[k].hi].mips = HighWord
         /\ map[k].is32 <=> map[k].hi = k
         /\ \A j \in Host : j # k /\ map[j].mips \in Reg => map[j].hi # map[k].hi
    /\ \A k \in Host : map[k].mips = HighWord =>
         \E j \in Host : map[j].mips \in Reg /\ map[j].hi = k

\* The inductive invariant.  The host registers in p are protected.
Good(s, p) ==
    /\ Typed(s)
    /\ Consistent(s.map, s.const)
    /\ \A k \in Host : s.map[k].mips = Protected <=> k \in p
    /\ s.errors = {}

----------------------------------------------------------------------------
(* Host registers and their contents.                                      *)

\* There are six host registers.
LEMMA HostFacts ==
    /\ Host = {0, 1, 2, 3, 6, 7} /\ None \notin Host /\ Host \subseteq Int
    /\ EAX \in Host /\ ECX \in Host /\ EDX \in Host
    /\ EAX # ECX /\ EAX # EDX /\ ECX # EDX
BY DEF Host, EAX, ECX, EDX, EBX, ESI, EDI, None

\* The bound every eviction argument rests on.
LEMMA HostSize == IsFiniteSet(Host) /\ Cardinality(Host) = 6
<1>1. Host = (0 .. 3) \cup (6 .. 7) /\ (0 .. 3) \cap (6 .. 7) = {}
  BY HostFacts
<1>2. IsFiniteSet(0 .. 3) /\ Cardinality(0 .. 3) = 4
  <2>1. 0 \in Int /\ 3 \in Int
    OBVIOUS
  <2>2. IsFiniteSet(0 .. 3) /\ Cardinality(0 .. 3) = (IF 0 > 3 THEN 0 ELSE 3 - 0 + 1)
    BY <2>1, FS_Interval
  <2>3. QED
    BY <2>2
<1>3. IsFiniteSet(6 .. 7) /\ Cardinality(6 .. 7) = 2
  <2>1. 6 \in Int /\ 7 \in Int
    OBVIOUS
  <2>2. IsFiniteSet(6 .. 7) /\ Cardinality(6 .. 7) = (IF 6 > 7 THEN 0 ELSE 7 - 6 + 1)
    BY <2>1, FS_Interval
  <2>3. QED
    BY <2>2
<1>4. Cardinality({}) = 0
  BY FS_EmptySet
<1>5. /\ IsFiniteSet((0 .. 3) \cup (6 .. 7))
      /\ Cardinality((0 .. 3) \cup (6 .. 7)) =
           Cardinality(0 .. 3) + Cardinality(6 .. 7) - Cardinality((0 .. 3) \cap (6 .. 7))
  BY <1>2, <1>3, FS_Union
<1>6. QED
  BY <1>1, <1>2, <1>3, <1>4, <1>5

\* The marks are no registers.
LEMMA MarkFacts ==
    /\ Unused \notin Reg /\ HighWord \notin Reg /\ Protected \notin Reg
    /\ Unused # HighWord /\ Unused # Protected /\ HighWord # Protected
    /\ R0 \in Reg /\ HI \in Reg /\ LO \in Reg /\ Gpr \subseteq Reg
BY MarksAssumption DEF Unused, HighWord, Protected, Reg

\* An entry of the map and what is in it.
LEMMA EntryFacts ==
    ASSUME NEW mips \in Reg \cup Marks, NEW is32 \in BOOLEAN, NEW dirty \in BOOLEAN,
           NEW hi \in Host \cup {None}, NEW birth \in Nat
    PROVE  LET e == Entry(mips, is32, dirty, hi, birth)
           IN  /\ e \in EntryType /\ e.mips = mips /\ e.is32 = is32 /\ e.dirty = dirty
               /\ e.hi = hi /\ e.birth = birth
BY DEF Entry, EntryType

\* And what is read from it.
LEMMA EntryTyped ==
    ASSUME NEW map \in MapType, NEW k \in Host
    PROVE  /\ map[k] \in EntryType /\ map[k].mips \in Reg \cup Marks /\ map[k].is32 \in BOOLEAN
           /\ map[k].dirty \in BOOLEAN /\ map[k].hi \in Host \cup {None} /\ map[k].birth \in Nat
BY DEF MapType, EntryType

\* The largest of some host registers
LEMMA MaxOfHost ==
    ASSUME NEW S, S \subseteq Host, S # {}
    PROVE  Max(S) \in S /\ \A k \in S : k <= Max(S)
<1>1. S \subseteq {0, 1, 2, 3, 6, 7} /\ S \subseteq Int
  BY HostFacts
<1>2. \E m \in S : \A k \in S : m >= k
  <2>2. CASE 7 \in S
    BY <1>1, <2>2
  <2>3. CASE 7 \notin S /\ 6 \in S
    BY <1>1, <2>3
  <2>4. CASE 7 \notin S /\ 6 \notin S /\ 3 \in S
    BY <1>1, <2>4
  <2>5. CASE 7 \notin S /\ 6 \notin S /\ 3 \notin S /\ 2 \in S
    BY <1>1, <2>5
  <2>6. CASE S \subseteq {0, 1}
    <3>1. CASE 1 \in S
      BY <2>6, <3>1
    <3>2. CASE 1 \notin S
      <4>1. S = {0}
        BY <2>6, <3>2
      <4>2. QED
        BY <4>1
    <3>3. QED
      BY <3>1, <3>2
  <2>7. QED
    BY <1>1, <2>2, <2>3, <2>4, <2>5, <2>6
<1>3. Max(S) \in S /\ \A k \in S : Max(S) >= k
  BY <1>2 DEF Max
<1>4. QED
  BY <1>1, <1>3

\* and the smallest are among them.
LEMMA MinOfHost ==
    ASSUME NEW S, S \subseteq Host, S # {}
    PROVE  Min(S) \in S
<1>1. S \subseteq {0, 1, 2, 3, 6, 7} /\ S \subseteq Int
  BY HostFacts
<1>2. \E m \in S : \A k \in S : m <= k
  <2>2. CASE 0 \in S
    BY <1>1, <2>2
  <2>3. CASE 0 \notin S /\ 1 \in S
    BY <1>1, <2>3
  <2>4. CASE 0 \notin S /\ 1 \notin S /\ 2 \in S
    BY <1>1, <2>4
  <2>5. CASE 0 \notin S /\ 1 \notin S /\ 2 \notin S /\ 3 \in S
    BY <1>1, <2>5
  <2>6. CASE S \subseteq {6, 7}
    <3>1. CASE 6 \in S
      BY <2>6, <3>1
    <3>2. CASE 6 \notin S
      <4>1. S = {7}
        BY <2>6, <3>2
      <4>2. QED
        BY <4>1
    <3>3. QED
      BY <3>1, <3>2
  <2>7. QED
    BY <1>1, <2>2, <2>3, <2>4, <2>5, <2>6
<1>3. QED
  BY <1>2 DEF Min

\* The search for a host register falls back to none.
LEMMA MaxOrNone ==
    /\ \A k \in Host : Max({k} \cup {None}) = k
    /\ Max({} \cup {None}) = None
<1>1. ASSUME NEW k \in Host PROVE Max({k} \cup {None}) = k
  <2> DEFINE S == {k} \cup {None}
  <2>1. k \in S /\ \A y \in S : k >= y
    BY DEF Host, None, EAX, ECX, EDX, EBX, ESI, EDI
  <2>2. \A x \in S : (\A y \in S : x >= y) => x = k
    BY DEF Host, None, EAX, ECX, EDX, EBX, ESI, EDI
  <2> HIDE DEF S
  <2>3. Max(S) \in S /\ \A y \in S : Max(S) >= y
    BY <2>1 DEF Max
  <2>4. Max(S) = k
    BY <2>2, <2>3
  <2>5. QED
    BY <2>4 DEF S
<1>2. Max({} \cup {None}) = None
  <2>1. {} \cup {None} = {None} /\ None >= None
    BY DEF None
  <2>2. \E x \in {None} : \A y \in {None} : x >= y
    BY <2>1
  <2>3. Max({None}) \in {None}
    BY <2>2 DEF Max
  <2>4. QED
    BY <2>1, <2>3
<1>3. QED
  BY <1>1, <1>2

\* Where the search for a register ends
LEMMA WhereIs ==
    ASSUME NEW s, Consistent(s.map, s.const), NEW r \in Reg
    PROVE  /\ \A k \in Host : s.map[k].mips = r => Where(s, r) = k
           /\ (\A k \in Host : s.map[k].mips # r) => Where(s, r) = None
           /\ Where(s, r) # None => Where(s, r) \in Host /\ s.map[Where(s, r)].mips = r
           /\ Where(s, r) = None => \A k \in Host : s.map[k].mips # r
<1>1. ASSUME NEW k \in Host, s.map[k].mips = r PROVE Where(s, r) = k
  <2>1. Holding(s, r) = {k}
    BY <1>1 DEF Holding, Consistent
  <2>2. Max({k} \cup {None}) = k
    BY MaxOrNone
  <2>3. QED
    BY <2>1, <2>2 DEF Where
<1>2. ASSUME \A k \in Host : s.map[k].mips # r PROVE Where(s, r) = None
  <2>1. Holding(s, r) = {}
    BY <1>2 DEF Holding
  <2>2. QED
    BY <2>1, MaxOrNone DEF Where
<1>3. QED
  BY <1>1, <1>2, HostFacts

\* The invariant says what TablesAgree says.
LEMMA ConsistentIs ==
    ASSUME NEW s, s.map \in MapType
    PROVE  Consistent(s.map, s.const) => TablesAgree(s)
<1> SUFFICES ASSUME Consistent(s.map, s.const)
             PROVE  TablesAgree(s)
  OBVIOUS
<1>1. ASSUME NEW r \in Reg PROVE Cardinality(Holding(s, r)) <= 1
  <2>1. CASE Holding(s, r) = {}
    BY <2>1, FS_EmptySet
  <2>2. ASSUME NEW k \in Holding(s, r) PROVE Cardinality(Holding(s, r)) <= 1
    <3> DEFINE S == Holding(s, r)
    <3>1. S = {k}
      BY <2>2 DEF Holding, Consistent
    <3> HIDE DEF S
    <3>2. Cardinality({k}) = 1
      BY FS_Singleton
    <3>3. Cardinality(S) <= 1
      BY <3>1, <3>2
    <3>4. QED
      BY <3>3 DEF S
  <2>3. QED
    BY <2>1, <2>2
<1>2. ASSUME NEW r \in Reg \ {R0}, IsConst(s, r) PROVE Where(s, r) = None
  <2>1. \A k \in Host : s.map[k].mips # r
    BY <1>2 DEF Consistent, IsConst
  <2>2. QED
    BY <2>1, WhereIs
<1>3. ASSUME NEW k \in Mapped(s)
      PROVE  /\ s.map[k].hi \in Host /\ (s.map[k].hi = k \/ s.map[s.map[k].hi].mips = HighWord)
             /\ \A j \in Mapped(s) \ {k} : s.map[j].hi # s.map[k].hi
             /\ s.map[k].is32 <=> s.map[k].hi = k
  BY <1>3 DEF Consistent, Mapped
<1>4. \A k \in Host : s.map[k].mips = HighWord => \E j \in Mapped(s) : s.map[j].hi = k
  BY DEF Consistent, Mapped
<1>5. s.const[R0] = 0
  BY DEF Consistent
<1>6. QED
  BY <1>1, <1>2, <1>3, <1>4, <1>5 DEF TablesAgree

----------------------------------------------------------------------------
(* Assignments.                                                            *)

\* From s to t the constants stay and nothing is reported; the map may stay too.
Rest(s, t) == t.const = s.const /\ t.errors = s.errors
Same(s, t) == t.map = s.map /\ Rest(s, t)

\* An entry is replaced.
LEMMA SetEntry ==
    ASSUME NEW s, Typed(s), NEW k \in Host, NEW e \in EntryType
    PROVE  LET t == [s EXCEPT !.map[k] = e]
           IN  Typed(t) /\ t.map = [s.map EXCEPT ![k] = e] /\ Rest(s, t)
BY DEF Typed, Rest, MapType

\* ConstMap of one register changes.
LEMMA SetConst ==
    ASSUME NEW s, Typed(s), NEW r \in Reg, NEW v
    PROVE  LET t == [s EXCEPT !.const[r] = v]
           IN  /\ Typed(t) /\ t.map = s.map /\ t.errors = s.errors
               /\ t.const[r] = v
               /\ \A q \in Reg \ {r} : t.const[q] = s.const[q]
<1> DEFINE t == [s EXCEPT !.const[r] = v]
<1>1. t.const = [s.const EXCEPT ![r] = v]
  BY DEF Typed
<1>2. DOMAIN t.const = Reg /\ t.const[r] = v /\ \A q \in Reg \ {r} : t.const[q] = s.const[q]
  BY <1>1 DEF Typed
<1>3. t.map = s.map /\ t.errors = s.errors
  BY DEF Typed
<1>4. Typed(t)
  BY <1>2 DEF Typed
<1>5. QED
  BY <1>2, <1>3, <1>4

\* What does not touch the tables keeps the invariant.
LEMMA SameGood ==
    ASSUME NEW s, NEW p, Good(s, p), NEW t, Typed(t), Same(s, t)
    PROVE  Good(t, p)
BY DEF Good, Same, Rest

\* The assignments that do not.
LEMMA SetOther ==
    ASSUME NEW s, Typed(s), NEW v, NEW w
    PROVE  /\ LET t == [s EXCEPT !.gpr[v] = w] IN Typed(t) /\ Same(s, t)
           /\ LET t == [s EXCEPT !.fpr[v] = w] IN Typed(t) /\ Same(s, t)
           /\ LET t == [s EXCEPT !.host[v] = w] IN Typed(t) /\ Same(s, t)
           /\ LET t == [s EXCEPT !.flushed[v] = w] IN Typed(t) /\ Same(s, t)
           /\ LET t == [s EXCEPT !.stack[v] = w] IN Typed(t) /\ Same(s, t)
           /\ LET t == [s EXCEPT !.gpr = w] IN Typed(t) /\ Same(s, t)
           /\ LET t == [s EXCEPT !.host = w] IN Typed(t) /\ Same(s, t)
           /\ LET t == [s EXCEPT !.flushed = w] IN Typed(t) /\ Same(s, t)
           /\ LET t == [s EXCEPT !.stack = w] IN Typed(t) /\ Same(s, t)
           /\ LET t == [s EXCEPT !.now = w] IN Typed(t) /\ Same(s, t)
           /\ LET t == [s EXCEPT !.store = w] IN Typed(t) /\ Same(s, t)
           /\ LET t == [s EXCEPT !.exit = w] IN Typed(t) /\ Same(s, t)
           /\ LET t == [s EXCEPT !.con31 = w] IN Typed(t) /\ Same(s, t)
           /\ LET t == [s EXCEPT !.rc = w] IN Typed(t) /\ Same(s, t)
BY DEF Typed, Same, Rest

\* Such assignments in sequence.
LEMMA SameTransitive ==
    ASSUME NEW s, NEW t, NEW u, Same(s, t), Same(t, u)
    PROVE  Same(s, u)
BY DEF Same, Rest

----------------------------------------------------------------------------
(* Writing back.                                                           *)

\* From s to t only registers among those of R have left their places, or are
\* no constants any more.
Less(s, t, R) ==
    /\ \A k \in Host : t.map[k] = s.map[k] \/ t.map[k].mips = Unused
    /\ \A k \in Host : s.map[k].mips \in Reg \ R => t.map[k] = s.map[k]
    /\ \A r \in Reg : t.const[r] = s.const[r] \/ (r \in R /\ t.const[r] = NoConst)
   

\* Evictions in sequence,
LEMMA LessTransitive ==
    ASSUME NEW s, NEW t, NEW u, NEW R, NEW Q, Less(s, t, R), Less(t, u, Q)
    PROVE  Less(s, u, R \cup Q)
<1>1. \A k \in Host : u.map[k] = s.map[k] \/ u.map[k].mips = Unused
  BY DEF Less
<1>2. ASSUME NEW k \in Host, s.map[k].mips \in Reg \ (R \cup Q) PROVE u.map[k] = s.map[k]
  BY <1>2 DEF Less
<1>3. ASSUME NEW r \in Reg
      PROVE  u.const[r] = s.const[r] \/ (r \in R \cup Q /\ u.const[r] = NoConst)
  BY DEF Less
<1>4. QED
  BY <1>1, <1>2, <1>3 DEF Less

\* and those of fewer registers are evictions of more.
LEMMA LessMore ==
    ASSUME NEW s, NEW t, NEW R, NEW Q, Less(s, t, R), R \subseteq Q
    PROVE  Less(s, t, Q)
BY DEF Less

\* No eviction at all is one.
LEMMA LessSame ==
    ASSUME NEW s, NEW t, NEW R, Same(s, t)
    PROVE  Less(s, t, R)
BY DEF Less, Same, Rest

\* Delete of a host register, whatever it holds.
LEMMA DeleteEffect ==
    ASSUME NEW s, Typed(s), NEW k \in Host
    PROVE  LET t == Delete(s, k)
           IN  /\ Typed(t) /\ Rest(s, t)
               /\ t.map = [s.map EXCEPT ![k] = Entry(Unused, FALSE, FALSE, None, s.year)]
<1>1. Entry(Unused, FALSE, FALSE, None, s.year) \in EntryType
  BY EntryFacts DEF Typed, Marks
<1>2. k # None
  BY HostFacts
<1>3. QED
  BY <1>1, <1>2, SetEntry DEF Delete

\* The host registers of what is mapped at k are unused.
Vacated(map, new, k) ==
    /\ new[k].mips = Unused /\ new[map[k].hi].mips = Unused
    /\ \A j \in Host : j # k /\ j # map[k].hi => new[j] = map[j]

\* FlushRegister unmaps the register at k, written back or not.
LEMMA FlushEffect ==
    ASSUME NEW s, Typed(s), NEW k \in Host, s.map[k].hi \in Host
    PROVE  /\ Typed(FlushRegister(s, k)) /\ Rest(s, FlushRegister(s, k))
           /\ Vacated(s.map, FlushRegister(s, k).map, k)
<1> DEFINE u == IF s.map[k].dirty /\ s.map[k].mips # R0 THEN WriteBackDirty(s, k) ELSE s
           h == s.map[k].hi
           v == Delete(u, h)
           t == Delete(v, k)
<1>1. Typed(u) /\ Same(s, u)
  <2>1. Typed(WriteBackDirty(s, k)) /\ Same(s, WriteBackDirty(s, k))
    BY DEF WriteBackDirty, Typed, Same, Rest
  <2>2. Typed(s) /\ Same(s, s)
    BY DEF Same, Rest
  <2>3. QED
    BY <2>1, <2>2
<1> HIDE DEF u
<1>2. /\ Typed(v) /\ Rest(u, v)
      /\ v.map = [s.map EXCEPT ![h] = Entry(Unused, FALSE, FALSE, None, u.year)]
  BY <1>1, DeleteEffect DEF Same
<1> HIDE DEF v
<1>3. /\ Typed(t) /\ Rest(v, t)
      /\ t.map = [v.map EXCEPT ![k] = Entry(Unused, FALSE, FALSE, None, v.year)]
  BY <1>2, DeleteEffect
<1>4. t = FlushRegister(s, k)
  BY DEF FlushRegister, u, v
<1> HIDE DEF t
<1>5. s.map \in MapType /\ v.map \in MapType /\ u.year \in Nat /\ v.year \in Nat
  BY <1>1, <1>2 DEF Typed
<1>6. \A y \in Nat : Entry(Unused, FALSE, FALSE, None, y).mips = Unused
  BY DEF Entry
<1>7. /\ \A j \in Host : t.map[j] = IF j = k THEN Entry(Unused, FALSE, FALSE, None, v.year)
                                    ELSE IF j = h THEN Entry(Unused, FALSE, FALSE, None, u.year)
                                    ELSE s.map[j]
  BY <1>2, <1>3, <1>5 DEF MapType
<1>8. Rest(s, t)
  BY <1>1, <1>2, <1>3 DEF Same, Rest
<1>9. QED
  BY <1>3, <1>4, <1>5, <1>6, <1>7, <1>8 DEF Vacated

\* A mapped register gives up its host registers; it may become a constant.
LEMMA UnmapConsistent ==
    ASSUME NEW map, NEW const, Consistent(map, const), NEW k \in Host, map[k].mips \in Reg,
           NEW const2, const2[R0] = 0,
           \A q \in Reg \ {map[k].mips} : const2[q] = const[q] \/ const2[q] = NoConst,
           NEW new, new[k].mips = Unused, new[map[k].hi].mips = Unused,
           \A j \in Host \ {k, map[k].hi} : new[j] = map[j]
    PROVE  Consistent(new, const2)
<1> DEFINE h == map[k].hi
<1>0. h \in Host /\ (h = k \/ map[h].mips = HighWord) /\ map[h].mips # Protected
  BY MarkFacts DEF Consistent
<1>1. ASSUME NEW j \in Host, new[j].mips \in Reg
      PROVE  j \notin {k, h} /\ new[j] = map[j] /\ map[j].mips \in Reg
  BY <1>0, <1>1, MarkFacts
<1>2. ASSUME NEW j \in Host, new[j].mips \in Reg
      PROVE  /\ new[j].mips # R0 => const2[new[j].mips] = NoConst
             /\ new[j].hi \in Host
             /\ new[j].hi = j \/ new[new[j].hi].mips = HighWord
             /\ new[j].is32 <=> new[j].hi = j
             /\ \A i \in Host : i # j /\ new[i].mips \in Reg => new[i].hi # new[j].hi
  <2>1. j # k /\ j # h /\ new[j] = map[j] /\ map[j].mips \in Reg
    BY <1>1, <1>2
  <2>2. map[j].hi # h
    BY <2>1 DEF Consistent
  <2>3. /\ map[j].mips # R0 => const[map[j].mips] = NoConst
        /\ map[j].hi \in Host
        /\ map[j].hi = j \/ map[map[j].hi].mips = HighWord
        /\ map[j].is32 <=> map[j].hi = j
        /\ \A i \in Host : i # j /\ map[i].mips \in Reg => map[i].hi # map[j].hi
    BY <2>1 DEF Consistent
  <2>4. map[j].hi # j => map[j].hi # k
    BY <2>3, MarkFacts
  <2>5. new[j].hi = j \/ new[new[j].hi].mips = HighWord
    BY <2>1, <2>2, <2>3, <2>4
  <2>6. \A i \in Host : i # j /\ new[i].mips \in Reg => new[i].hi # new[j].hi
    BY <1>1, <2>1, <2>3
  <2>7. map[j].mips # map[k].mips
    BY <2>1 DEF Consistent
  <2>8. new[j].mips # R0 => const2[new[j].mips] = NoConst
    BY <2>1, <2>3, <2>7
  <2>9. QED
    BY <2>1, <2>3, <2>5, <2>6, <2>8
<1>3. \A i, j \in Host : new[j].mips \in Reg /\ new[i].mips = new[j].mips => i = j
  BY <1>1 DEF Consistent
<1>4. ASSUME NEW j \in Host, new[j].mips = HighWord
      PROVE  \E i \in Host : new[i].mips \in Reg /\ new[i].hi = j
  <2>1. j # k /\ j # h /\ new[j] = map[j]
    BY <1>0, <1>4, MarkFacts
  <2>2. PICK i \in Host : map[i].mips \in Reg /\ map[i].hi = j
    BY <1>4, <2>1 DEF Consistent
  <2>3. i # k
    BY <2>1, <2>2
  <2>4. i # h
    BY <1>0, <2>2, <2>3, MarkFacts
  <2>5. QED
    BY <2>2, <2>3, <2>4
<1>5. QED
  BY <1>2, <1>3, <1>4 DEF Consistent

\* FlushRegister takes one register out of the map.
LEMMA FlushGood ==
    ASSUME NEW s, NEW p, Good(s, p), NEW k \in Host, s.map[k].mips \in Reg
    PROVE  LET t == FlushRegister(s, k)
           IN  /\ Good(t, p) /\ Less(s, t, {s.map[k].mips}) /\ t.const = s.const
               /\ t.map[k].mips = Unused /\ \A j \in Host : t.map[j].mips # s.map[k].mips
<1> DEFINE t == FlushRegister(s, k)
           h == s.map[k].hi
<1>1. h \in Host /\ (h = k \/ s.map[h].mips = HighWord)
  BY DEF Good, Consistent
<1>2. /\ Typed(t) /\ Rest(s, t)
      /\ \A j \in Host \ {k, h} : t.map[j] = s.map[j]
      /\ t.map[k].mips = Unused /\ t.map[h].mips = Unused
  BY <1>1, FlushEffect DEF Good, Vacated
<1> HIDE DEF t
<1>3. Consistent(t.map, s.const)
  <2>1. Consistent(s.map, s.const) /\ s.const[R0] = 0
    BY DEF Good, Consistent
  <2>2. QED
    BY <1>2, <2>1, UnmapConsistent
<1>4. \A j \in Host : t.map[j].mips = Protected <=> j \in p
  BY <1>1, <1>2, MarkFacts DEF Good
<1>5. Good(t, p)
  BY <1>2, <1>3, <1>4 DEF Good, Rest
<1>6. ASSUME NEW j \in Host PROVE t.map[j].mips # s.map[k].mips
  <2>1. s.map[j].mips = s.map[k].mips => j = k
    BY DEF Good, Consistent
  <2>2. QED
    BY <1>2, <2>1, MarkFacts
<1>7. \A j \in Host : t.map[j] = s.map[j] \/ t.map[j].mips = Unused
  BY <1>2
<1>8. \A j \in Host : s.map[j].mips \in Reg \ {s.map[k].mips} => t.map[j] = s.map[j]
  BY <1>1, <1>2, MarkFacts
<1>9. QED
  BY <1>2, <1>5, <1>6, <1>7, <1>8 DEF Less, Rest, t

\* A register that is not mapped may become a constant; any may cease to be one.
LEMMA ConstConsistent ==
    ASSUME NEW map, NEW const, Consistent(map, const), NEW const2, const2[R0] = 0,
           \A q \in Reg : \/ const2[q] = const[q] \/ const2[q] = NoConst
                          \/ \A k \in Host : map[k].mips # q
    PROVE  Consistent(map, const2)
<1>1. ASSUME NEW k \in Host, map[k].mips \in Reg, map[k].mips # R0
      PROVE  const2[map[k].mips] = NoConst
  BY <1>1 DEF Consistent
<1>2. QED
  BY <1>1 DEF Consistent

\* A register leaves the map without being written back; u is s where it may
\* have become a constant.
LEMMA DropGood ==
    ASSUME NEW s, NEW p, Good(s, p), NEW r \in Reg,
           NEW u, Typed(u), u.map = s.map, u.errors = {}, u.const[R0] = 0,
           \A q \in Reg \ {r} : u.const[q] = s.const[q]
    PROVE  LET t == Drop(u, Where(s, r))
           IN  /\ Good(t, p) /\ t.const = u.const
               /\ \A k \in Host : t.map[k].mips # r
               /\ \A k \in Host : t.map[k] = s.map[k] \/ t.map[k].mips = Unused
               /\ \A k \in Host : s.map[k].mips \in Reg \ {r} => t.map[k] = s.map[k]
<1> DEFINE t == Drop(u, Where(s, r))
           k == Where(s, r)
<1>0. Consistent(s.map, s.const) /\ s.map \in MapType /\ s.errors = {}
  BY DEF Good, Typed
<1>1. CASE k = None
  <2>1. t = u /\ \A j \in Host : s.map[j].mips # r
    BY <1>0, <1>1, WhereIs DEF Drop
  <2>2. Consistent(s.map, u.const)
    BY <1>0, <2>1, ConstConsistent
  <2>3. QED
    BY <2>1, <2>2 DEF Good
<1>2. CASE k # None
  <2>1. k \in Host /\ s.map[k].mips = r
    BY <1>0, <1>2, WhereIs
  <2> DEFINE e == [s.map[k] EXCEPT !.dirty = FALSE]
             v == [u EXCEPT !.map[k].dirty = FALSE]
             h == s.map[k].hi
  <2>2. s.map[k] \in EntryType
    BY <1>0, <2>1 DEF MapType
  <2>3. e \in EntryType /\ e.hi = h
    BY <2>2 DEF EntryType
  <2>4. v = [u EXCEPT !.map[k] = e]
    BY <2>1, <2>2, <2>3 DEF Typed, EntryType
  <2>5. h \in Host /\ (h = k \/ s.map[h].mips = HighWord)
    BY <1>0, <2>1 DEF Consistent
  <2> HIDE DEF k, h
  <2>6. Typed(v) /\ v.map = [s.map EXCEPT ![k] = e] /\ Rest(u, v)
    <3> HIDE DEF e, v
    <3>1. QED
      BY <2>1, <2>3, <2>4, SetEntry
  <2>7. v.map[k].hi = h
    BY <1>0, <2>1, <2>3, <2>6 DEF MapType
  <2> HIDE DEF e, v
  <2>8. t = FlushRegister(v, k)
    BY <1>2 DEF Drop, k, v
  <2> HIDE DEF t
  <2>9. /\ Typed(t) /\ Rest(v, t)
        /\ \A j \in Host \ {k, h} : t.map[j] = v.map[j]
        /\ t.map[k].mips = Unused /\ t.map[h].mips = Unused
    <3>1. v.map[k].hi \in Host
      BY <2>5, <2>7
    <3>2. Typed(t) /\ Rest(v, t) /\ Vacated(v.map, t.map, k)
      BY <2>1, <2>6, <2>8, <3>1, FlushEffect
    <3>3. QED
      BY <2>7, <3>2 DEF Vacated
  <2>10. \A j \in Host \ {k, h} : t.map[j] = s.map[j]
    BY <1>0, <2>6, <2>9 DEF MapType
  <2>11. Consistent(t.map, u.const)
    BY <1>0, <2>1, <2>9, <2>10, UnmapConsistent DEF h
  <2>12. \A j \in Host : t.map[j].mips = Protected <=> j \in p
    BY <2>1, <2>5, <2>9, <2>10, MarkFacts DEF Good
  <2>13. t.const = u.const /\ t.errors = {}
    BY <2>6, <2>9 DEF Rest
  <2>14. Good(t, p)
    BY <2>9, <2>11, <2>12, <2>13 DEF Good
  <2>15. ASSUME NEW j \in Host PROVE t.map[j].mips # r
    <3>1. s.map[j].mips = r => j = k
      BY <1>0, <2>1 DEF Consistent
    <3>2. QED
      BY <2>9, <2>10, <3>1, MarkFacts
  <2>16. \A j \in Host : s.map[j].mips \in Reg \ {r} => t.map[j] = s.map[j]
    BY <2>1, <2>5, <2>10, MarkFacts
  <2>17. \A j \in Host : t.map[j] = s.map[j] \/ t.map[j].mips = Unused
    BY <2>9, <2>10
  <2>18. QED
    BY <2>13, <2>14, <2>15, <2>16, <2>17 DEF t, k
<1>3. QED
  BY <1>1, <1>2

\* FreeMipsRegister leaves r in no place and, but for r0, no constant.
LEMMA FreeMipsGood ==
    ASSUME NEW s, NEW p, Good(s, p), NEW r \in Reg
    PROVE  LET t == FreeMipsRegister(s, r)
           IN  /\ Good(t, p) /\ Less(s, t, {r}) /\ \A k \in Host : t.map[k].mips # r
               /\ r # R0 => t.const[r] = NoConst
<1> DEFINE u == IF r = R0 THEN s ELSE [s EXCEPT !.const[r] = NoConst]
           t == Drop(u, Where(s, r))
<1>1. Typed(s) /\ s.const[R0] = 0 /\ s.errors = {}
  BY DEF Good, Consistent
<1>2. /\ Typed(u) /\ u.map = s.map /\ u.errors = {}
      /\ \A q \in Reg \ {r} : u.const[q] = s.const[q]
      /\ r # R0 => u.const[r] = NoConst
      /\ r = R0 => u.const = s.const
  <2>1. CASE r = R0
    BY <1>1, <2>1
  <2>2. CASE r # R0
    BY <1>1, <2>2, SetConst
  <2>3. QED
    BY <2>1, <2>2
<1>3. u.const[R0] = 0
  BY <1>1, <1>2, MarkFacts
<1> HIDE DEF u
<1>4. /\ Good(t, p) /\ t.const = u.const
      /\ \A k \in Host : t.map[k].mips # r
      /\ \A k \in Host : t.map[k] = s.map[k] \/ t.map[k].mips = Unused
      /\ \A k \in Host : s.map[k].mips \in Reg \ {r} => t.map[k] = s.map[k]
  BY <1>2, <1>3, DropGood
<1>5. t = FreeMipsRegister(s, r)
  BY DEF FreeMipsRegister, u
<1> HIDE DEF t
<1>6. \A q \in Reg : t.const[q] = s.const[q] \/ (q \in {r} /\ t.const[q] = NoConst)
  BY <1>2, <1>4
<1>7. Less(s, t, {r})
  BY <1>2, <1>4, <1>6 DEF Less
<1>8. QED
  BY <1>2, <1>4, <1>5, <1>7

\* MapConst makes a constant of a register in no place.
LEMMA MapConstGood ==
    ASSUME NEW s, NEW p, Good(s, p), NEW r \in Reg, NEW value
    PROVE  Good(MapConst(s, r, value), p)
<1> DEFINE w == IF r = R0 THEN 0 ELSE value
           u == [s EXCEPT !.const[r] = w]
<1>1. Typed(s) /\ s.const[R0] = 0 /\ s.errors = {}
  BY DEF Good, Consistent
<1>2. /\ Typed(u) /\ u.map = s.map /\ u.errors = {} /\ u.const[r] = w
      /\ \A q \in Reg \ {r} : u.const[q] = s.const[q]
  BY <1>1, SetConst
<1>3. u.const[R0] = 0
  BY <1>1, <1>2, MarkFacts
<1>4. MapConst(s, r, value) = Drop(u, Where(s, r))
  BY DEF MapConst
<1> HIDE DEF u
<1>5. QED
  BY <1>2, <1>3, <1>4, DropGood

\* A constant is not mapped.
LEMMA ConstNowhere ==
    ASSUME NEW s, NEW p, Good(s, p), NEW r \in Reg \ {R0}, IsConst(s, r)
    PROVE  Where(s, r) = None /\ \A k \in Host : s.map[k].mips # r
<1>1. \A k \in Host : s.map[k].mips # r
  BY DEF Good, Consistent, IsConst
<1>2. QED
  BY <1>1, WhereIs DEF Good

\* FlushOneConstant never meets a mapped constant ("Odd").
LEMMA FlushOneConstantGood ==
    ASSUME NEW s, NEW p, Good(s, p), NEW r \in Reg
    PROVE  LET t == FlushOneConstant(s, r)
           IN  /\ Good(t, p) /\ Less(s, t, {r}) /\ t.map = s.map
               /\ r # R0 => ~IsConst(t, r)
<1>1. CASE r = R0 \/ ~IsConst(s, r)
  <2>1. FlushOneConstant(s, r) = s
    BY <1>1 DEF FlushOneConstant
  <2>2. QED
    BY <1>1, <2>1 DEF Less
<1>2. CASE r # R0 /\ IsConst(s, r)
  <2> DEFINE u == [s EXCEPT !.gpr[r] = Sext(s.const[r])]
             v == [u EXCEPT !.const[r] = NoConst]
             t == [v EXCEPT !.flushed[r] = TRUE]
  <2>1. Where(s, r) = None
    BY <1>2, ConstNowhere
  <2>2. FlushOneConstant(s, r) = t
    BY <1>2, <2>1 DEF FlushOneConstant, Drop
  <2>3. Typed(s)
    BY DEF Good
  <2>4. Typed(u) /\ Same(s, u)
    BY <2>3, SetOther
  <2> HIDE DEF u
  <2>5. /\ Typed(v) /\ v.map = u.map /\ v.errors = u.errors
        /\ v.const[r] = NoConst /\ \A q \in Reg \ {r} : v.const[q] = u.const[q]
    BY <2>4, SetConst
  <2> HIDE DEF v
  <2>6. Typed(t) /\ Same(v, t)
    BY <2>5, SetOther
  <2> HIDE DEF t
  <2>7. /\ t.map = s.map /\ t.errors = s.errors /\ t.const[r] = NoConst
        /\ \A q \in Reg \ {r} : t.const[q] = s.const[q]
    BY <2>4, <2>5, <2>6 DEF Same, Rest
  <2>8. t.const[R0] = 0
    BY <1>2, <2>7, MarkFacts DEF Good, Consistent
  <2>9. Consistent(t.map, t.const)
    BY <2>7, <2>8, ConstConsistent DEF Good
  <2>10. Good(t, p)
    BY <2>6, <2>7, <2>9 DEF Good
  <2>11. Less(s, t, {r})
    BY <2>7 DEF Less
  <2>12. QED
    BY <2>2, <2>7, <2>10, <2>11 DEF IsConst
<1>3. QED
  BY <1>1, <1>2

\* FlushAllRegisters leaves no register mapped and no constant but r0.
LEMMA FlushAllGood ==
    ASSUME NEW s, NEW p, Good(s, p)
    PROVE  LET t == FlushAllRegisters(s)
           IN  /\ Good(t, p) /\ \A k \in Host : t.map[k].mips \notin Reg
<1> DEFINE u == FlushConstants(s)
           t == FlushMapped(u)
           none == Entry(Unused, FALSE, FALSE, None, FirstYear)
<1>1. Typed(s) /\ s.map \in MapType /\ Consistent(s.map, s.const) /\ s.errors = {}
  BY DEF Good, Typed
<1>2. /\ Typed(u) /\ u.map = s.map /\ u.errors = s.errors
      /\ u.const = [r \in Reg |-> IF r = R0 THEN 0 ELSE NoConst]
  BY <1>1 DEF FlushConstants, Typed
<1> HIDE DEF u
<1>3. none \in EntryType /\ none.mips = Unused
  <2>1. FirstYear \in Nat
    BY DEF FirstYear
  <2>2. QED
    BY <2>1 DEF Entry, EntryType, Marks
<1> DEFINE new == [k \in Host |-> IF u.map[k].mips = Protected THEN u.map[k] ELSE none]
<1> HIDE DEF none
<1>4. new \in MapType
  BY <1>1, <1>2, <1>3 DEF MapType
<1>5. Typed(t) /\ t.map = new /\ t.const = u.const /\ t.errors = u.errors
  BY <1>2, <1>4 DEF FlushMapped, Typed, none, FirstYear
<1> HIDE DEF t
<1>6. \A k \in Host : t.map[k].mips = IF s.map[k].mips = Protected THEN Protected ELSE Unused
  BY <1>2, <1>3, <1>5
<1>7. \A k \in Host : t.map[k].mips \notin Reg /\ t.map[k].mips # HighWord
  BY <1>6, MarkFacts
<1>8. t.const[R0] = 0
  BY <1>2, <1>5, MarkFacts
<1>9. Consistent(t.map, t.const)
  BY <1>7, <1>8 DEF Consistent
<1>10. \A k \in Host : t.map[k].mips = Protected <=> k \in p
  BY <1>6, MarkFacts DEF Good
<1>11. t = FlushAllRegisters(s)
  BY DEF FlushAllRegisters, t, u
<1>12. QED
  BY <1>1, <1>2, <1>5, <1>7, <1>9, <1>10, <1>11 DEF Good

----------------------------------------------------------------------------
(* Making room.                                                            *)

\* Where keys are numbers, some host register has the smallest.
LEMMA SmallestKey ==
    ASSUME NEW S, S \subseteq Host, S # {}, NEW key \in [Host -> Int]
    PROVE  \E m \in S : \A k \in S : key[m] <= key[k]
<1> DEFINE Least(T) == T = {} \/ \E m \in T : \A k \in T : key[m] <= key[k]
<1>1. ASSUME NEW T, T \subseteq Host, Least(T), NEW x \in Host
      PROVE  Least(T \cup {x})
  <2>1. CASE T = {}
    BY <2>1
  <2>2. ASSUME NEW m \in T, \A k \in T : key[m] <= key[k]
        PROVE  Least(T \cup {x})
    <3>1. m \in Host /\ key[m] \in Int /\ key[x] \in Int /\ \A k \in T : key[k] \in Int
      BY <1>1, <2>2
    <3>2. CASE key[x] < key[m]
      <4>1. \A k \in T \cup {x} : key[x] <= key[k]
        BY <2>2, <3>1, <3>2
      <4>2. QED
        BY <4>1
    <3>3. CASE ~(key[x] < key[m])
      <4>1. \A k \in T \cup {x} : key[m] <= key[k]
        BY <2>2, <3>1, <3>3
      <4>2. QED
        BY <2>2, <4>1
    <3>4. QED
      BY <3>2, <3>3
  <2>3. QED
    BY <1>1, <2>1, <2>2
<1> HIDE DEF Least
<1>2. ASSUME NEW T, T \subseteq Host, Least(S \cap T), NEW x \in Host
      PROVE  Least(S \cap (T \cup {x}))
  <2>1. CASE x \in S
    <3>1. S \cap (T \cup {x}) = (S \cap T) \cup {x}
      BY <2>1
    <3>2. QED
      BY <1>1, <1>2, <3>1
  <2>2. CASE x \notin S
    <3>1. S \cap (T \cup {x}) = S \cap T
      BY <2>2
    <3>2. QED
      BY <1>2, <3>1
  <2>3. QED
    BY <2>1, <2>2
<1>3. Least(S \cap {})
  BY DEF Least
<1>4. Least(S \cap ({} \cup {0}))
  BY <1>2, <1>3, HostFacts
<1>5. Least(S \cap ({0} \cup {1}))
  <2>1. {} \cup {0} = {0} /\ {0} \subseteq Host /\ 1 \in Host
    BY HostFacts
  <2>2. QED
    BY <1>2, <1>4, <2>1
<1>6. Least(S \cap ({0, 1} \cup {2}))
  <2>1. {0} \cup {1} = {0, 1} /\ {0, 1} \subseteq Host /\ 2 \in Host
    BY HostFacts
  <2>2. QED
    BY <1>2, <1>5, <2>1
<1>7. Least(S \cap ({0, 1, 2} \cup {3}))
  <2>1. {0, 1} \cup {2} = {0, 1, 2} /\ {0, 1, 2} \subseteq Host /\ 3 \in Host
    BY HostFacts
  <2>2. QED
    BY <1>2, <1>6, <2>1
<1>8. Least(S \cap ({0, 1, 2, 3} \cup {6}))
  <2>1. {0, 1, 2} \cup {3} = {0, 1, 2, 3} /\ {0, 1, 2, 3} \subseteq Host /\ 6 \in Host
    BY HostFacts
  <2>2. QED
    BY <1>2, <1>7, <2>1
<1>9. Least(S \cap ({0, 1, 2, 3, 6} \cup {7}))
  <2>1. {0, 1, 2, 3} \cup {6} = {0, 1, 2, 3, 6} /\ {0, 1, 2, 3, 6} \subseteq Host /\ 7 \in Host
    BY HostFacts
  <2>2. QED
    BY <1>2, <1>8, <2>1
<1>10. S \cap ({0, 1, 2, 3, 6} \cup {7}) = S
  BY HostFacts
<1>11. QED
  BY <1>9, <1>10 DEF Least

\* The victim is one of the candidates.
LEMMA VictimChosen ==
    ASSUME NEW s, s.map \in MapType, NEW S, S \subseteq Host, S # {}
    PROVE  Victim(s, S) \in S
<1> DEFINE Above(k) == {j \in S : j > k}
           AtOnce(k) == \/ BlockAnalysis /\ s.map[k].mips \in s.dead
                        \/ s.map[k].mips = R0 /\ Above(k) # {}
           Before(j, k) == \/ s.map[j].birth < s.map[k].birth
                           \/ /\ s.map[j].birth = s.map[k].birth
                              /\ IF s.map[j].dirty = s.map[k].dirty THEN j > k
                                 ELSE s.map[k].dirty
           now == {k \in S : AtOnce(k)}
           oldest == CHOOSE k \in S : \A j \in S \ {k} : Before(k, j)
           key == [k \in Host |-> s.map[k].birth * 16 + (IF s.map[k].dirty THEN 8 ELSE 0) + (7 - k)]
<1>1. Victim(s, S) = IF \E k \in S : AtOnce(k) THEN Max(now) ELSE oldest
  BY DEF Victim
<1>2. CASE \E k \in S : AtOnce(k)
  <2>1. now \subseteq Host /\ now # {} /\ now \subseteq S
    BY <1>2
  <2> HIDE DEF now
  <2>2. QED
    BY <1>1, <1>2, <2>1, MaxOfHost
<1>3. CASE ~ \E k \in S : AtOnce(k)
  <2>1. \A k \in Host : s.map[k].birth \in Nat /\ s.map[k].dirty \in BOOLEAN /\ k \in 0 .. 7
    BY EntryTyped, HostFacts
  <2>2. key \in [Host -> Int]
    BY <2>1
  <2>3. ASSUME NEW j \in Host, NEW k \in Host, key[j] <= key[k], j # k PROVE Before(j, k)
    BY <2>1, <2>3
  <2>4. PICK m \in S : \A k \in S : key[m] <= key[k]
    <3> HIDE DEF key
    <3>1. QED
      BY <2>2, SmallestKey
  <2>5. \A j \in S \ {m} : Before(m, j)
    <3> HIDE DEF key, Before
    <3>1. QED
      BY <2>3, <2>4
  <2>6. oldest \in S
    <3> HIDE DEF Before
    <3>1. QED
      BY <2>5
  <2>7. QED
    BY <1>1, <1>3, <2>6
<1>4. QED
  BY <1>2, <1>3

\* FlushOneButNotThese3 finds no constant among the mapped registers.
LEMMA EvictGood ==
    ASSUME NEW s, NEW p, Good(s, p), NEW k \in Host, s.map[k].mips \in Reg
    PROVE  LET t == EvictOneOf(s, k)
           IN  /\ Good(t, p) /\ Less(s, t, {s.map[k].mips}) /\ t.const = s.const
               /\ t.map[k].mips = Unused /\ \A j \in Host : t.map[j].mips # s.map[k].mips
<1>1. ~(s.map[k].mips # R0 /\ IsConst(s, s.map[k].mips))
  BY DEF Good, Consistent, IsConst
<1>2. EvictOneOf(s, k) = FlushRegister(s, k)
  BY <1>1 DEF EvictOneOf, Evict
<1>3. QED
  BY <1>2, FlushGood

\* The free host registers can be counted.
LEMMA FreeSize ==
    ASSUME NEW s
    PROVE  IsFiniteSet(Free(s)) /\ Cardinality(Free(s)) \in Nat
<1>1. Free(s) \in SUBSET Host
  BY DEF Free
<1>2. IsFiniteSet(Free(s))
  BY <1>1, HostSize, FS_Subset
<1>3. QED
  BY <1>2, FS_CardinalityType

\* An eviction frees a host register.
LEMMA EvictFrees ==
    ASSUME NEW s, NEW t, NEW R, Less(s, t, R), NEW k \in Host,
           s.map[k].mips \in Reg, t.map[k].mips = Unused
    PROVE  Cardinality(Free(t)) >= Cardinality(Free(s)) + 1
<1>1. k \in Free(t) /\ k \notin Free(s) /\ Free(s) \subseteq Free(t)
  BY MarkFacts DEF Free, Less
<1>2. IsFiniteSet(Free(s)) /\ IsFiniteSet(Free(t)) /\ Cardinality(Free(s)) \in Nat
      /\ Cardinality(Free(t)) \in Nat
  BY FreeSize
<1>3. Free(s) \cup {k} \in SUBSET Free(t)
  BY <1>1
<1>4. Cardinality(Free(s) \cup {k}) <= Cardinality(Free(t))
  BY <1>2, <1>3, FS_Subset
<1>5. Cardinality(Free(s) \cup {k}) = Cardinality(Free(s)) + 1
  BY <1>1, <1>2, FS_AddElement
<1>6. QED
  BY <1>2, <1>4, <1>5

\* Few host registers are in use if they are among few.
LEMMA FewUsed ==
    ASSUME NEW s, NEW a, NEW b, NEW c, NEW d
    PROVE  /\ Host \ Free(s) \subseteq {a, b, c, d} => Cardinality(Free(s)) >= 2
           /\ \A e : Host \ Free(s) \subseteq {a, b, c, d, e} => Cardinality(Free(s)) >= 1
<1> DEFINE F == Free(s)
           U == Host \ F
<1>0. F \in SUBSET Host /\ Host = F \cup U /\ F \cap U = {}
  BY DEF Free
<1>1. IsFiniteSet(F) /\ Cardinality(F) \in Nat
  BY FreeSize
<1> HIDE DEF F
<1>2. IsFiniteSet(U) /\ Cardinality(U) \in Nat
  <2>1. U \in SUBSET Host
    OBVIOUS
  <2> HIDE DEF U
  <2>2. IsFiniteSet(U)
    BY <2>1, HostSize, FS_Subset
  <2>3. QED
    BY <2>2, FS_CardinalityType
<1> HIDE DEF U
<1>3. Cardinality(F) + Cardinality(U) = 6
  <2>1. Cardinality(F \cup U) = Cardinality(F) + Cardinality(U) - Cardinality(F \cap U)
    BY <1>1, <1>2, FS_Union
  <2>2. QED
    BY <1>0, <1>1, <1>2, <2>1, HostSize, FS_EmptySet
<1>4. IsFiniteSet({a}) /\ Cardinality({a}) = 1
  BY FS_Singleton
<1>5. IsFiniteSet({a, b}) /\ Cardinality({a, b}) <= 2
  <2>1. {a, b} = {a} \cup {b}
    OBVIOUS
  <2>2. QED
    BY <1>4, <2>1, FS_AddElement
<1>6. IsFiniteSet({a, b, c}) /\ Cardinality({a, b, c}) <= 3
  <2>1. {a, b, c} = {a, b} \cup {c}
    OBVIOUS
  <2>2. Cardinality({a, b}) \in Nat
    BY <1>5, FS_CardinalityType
  <2>3. QED
    BY <1>5, <2>1, <2>2, FS_AddElement
<1>7. IsFiniteSet({a, b, c, d}) /\ Cardinality({a, b, c, d}) <= 4
  <2>1. {a, b, c, d} = {a, b, c} \cup {d}
    OBVIOUS
  <2>2. Cardinality({a, b, c}) \in Nat
    BY <1>6, FS_CardinalityType
  <2>3. QED
    BY <1>6, <2>1, <2>2, FS_AddElement
<1>8. ASSUME NEW e PROVE IsFiniteSet({a, b, c, d, e}) /\ Cardinality({a, b, c, d, e}) <= 5
  <2>1. {a, b, c, d, e} = {a, b, c, d} \cup {e}
    OBVIOUS
  <2>2. Cardinality({a, b, c, d}) \in Nat
    BY <1>7, FS_CardinalityType
  <2>3. QED
    BY <1>7, <2>1, <2>2, FS_AddElement
<1>9. ASSUME U \subseteq {a, b, c, d} PROVE Cardinality(F) >= 2
  <2>1. Cardinality(U) <= Cardinality({a, b, c, d}) /\ Cardinality({a, b, c, d}) \in Nat
    BY <1>7, <1>9, FS_Subset, FS_CardinalityType
  <2>2. QED
    BY <1>1, <1>2, <1>3, <1>7, <2>1
<1>10. ASSUME NEW e, U \subseteq {a, b, c, d, e} PROVE Cardinality(F) >= 1
  <2>1. Cardinality(U) <= Cardinality({a, b, c, d, e}) /\ Cardinality({a, b, c, d, e}) \in Nat
    BY <1>8, <1>10, FS_Subset, FS_CardinalityType
  <2>2. Cardinality({a, b, c, d, e}) <= 5
    BY <1>8
  <2>3. Cardinality(U) <= 5
    BY <1>2, <2>1, <2>2
  <2>4. QED
    BY <1>1, <1>2, <1>3, <2>3
<1>11. QED
  BY <1>9, <1>10 DEF F, U

\* The registers that a request keeps are those of K: at most two, and a third
\* that is narrow, unless ECX is protected.
Bounded(s, p, need, K) ==
    \E a, b, c \in Reg :
      /\ K \subseteq {a, b, c}
      /\ \/ need = 2 /\ p = {} /\ c = b
         \/ need = 1 /\ p \subseteq {ECX} /\ c = b
         \/ need = 1 /\ p = {} /\ \A k \in Host : s.map[k].mips = c => s.map[k].hi = k

\* If nothing but those is mapped, there is room.
LEMMA EnoughRoom ==
    ASSUME NEW s, NEW p, Good(s, p), NEW need, NEW K, Bounded(s, p, need, K),
           \A k \in Host : s.map[k].mips \in Reg => s.map[k].mips \in K
    PROVE  Cardinality(Free(s)) >= need
<1>1. PICK a, b, c \in Reg :
        /\ K \subseteq {a, b, c}
        /\ \/ need = 2 /\ p = {} /\ c = b
           \/ need = 1 /\ p \subseteq {ECX} /\ c = b
           \/ need = 1 /\ p = {} /\ \A k \in Host : s.map[k].mips = c => s.map[k].hi = k
  BY DEF Bounded
<1> DEFINE x == Where(s, a)
           y == Where(s, b)
           z == Where(s, c)
           U == Host \ Free(s)
<1>0. s.map \in MapType /\ Consistent(s.map, s.const)
  BY DEF Good, Typed
<1>2. \A k \in Host : /\ s.map[k].mips = a => k = x
                      /\ s.map[k].mips = b => k = y
                      /\ s.map[k].mips = c => k = z
  BY <1>0, WhereIs
<1> HIDE DEF x, y, z
<1>3. ASSUME NEW k \in U PROVE k \in {x, s.map[x].hi, y, s.map[y].hi} \/ k = z \/ k \in p
                               \/ k = s.map[z].hi
  <2>1. k \in Host /\ s.map[k].mips # Unused
    BY <1>3 DEF Free
  <2>2. s.map[k].mips \in Reg \cup Marks
    BY <1>0, <2>1, EntryTyped
  <2>3. CASE s.map[k].mips \in Reg
    BY <1>1, <1>2, <2>1, <2>3
  <2>4. CASE s.map[k].mips = Protected
    BY <2>1, <2>4 DEF Good
  <2>5. CASE s.map[k].mips = HighWord
    <3>1. PICK j \in Host : s.map[j].mips \in Reg /\ s.map[j].hi = k
      BY <1>0, <2>1, <2>5 DEF Consistent
    <3>2. j \in {x, y, z}
      BY <1>1, <1>2, <3>1
    <3>3. QED
      BY <3>1, <3>2
  <2>6. QED
    BY <2>1, <2>2, <2>3, <2>4, <2>5 DEF Marks
<1>4. CASE need = 2 /\ p = {} /\ c = b
  <2>1. z = y
    BY <1>4 DEF y, z
  <2>2. U \subseteq {x, s.map[x].hi, y, s.map[y].hi}
    BY <1>3, <1>4, <2>1
  <2>3. QED
    BY <1>4, <2>2, FewUsed
<1>5. CASE need = 1 /\ p \subseteq {ECX} /\ c = b
  <2>1. z = y
    BY <1>5 DEF y, z
  <2>2. U \subseteq {x, s.map[x].hi, y, s.map[y].hi, ECX}
    BY <1>3, <1>5, <2>1
  <2>3. QED
    BY <1>5, <2>2, FewUsed
<1>6. CASE need = 1 /\ p = {} /\ \A k \in Host : s.map[k].mips = c => s.map[k].hi = k
  <2>1. ASSUME NEW k \in U PROVE k \in {x, s.map[x].hi, y, s.map[y].hi, z}
    <3>1. CASE z \in Host /\ s.map[z].mips = c
      BY <1>3, <1>6, <2>1, <3>1
    <3>2. CASE ~(z \in Host /\ s.map[z].mips = c)
      <4>1. z = None
        BY <1>0, <3>2, WhereIs DEF z
      <4>2. \A j \in Host : s.map[j].mips # c
        BY <1>2, <4>1, HostFacts
      <4>3. k \in Host /\ s.map[k].mips # Unused /\ s.map[k].mips \in Reg \cup Marks
        BY <1>0, <2>1, EntryTyped DEF Free
      <4>4. s.map[k].mips \in Reg => k = x \/ k = y
        BY <1>1, <1>2, <4>2, <4>3
      <4>5. s.map[k].mips # Protected
        BY <1>6, <4>3 DEF Good
      <4>6. ASSUME s.map[k].mips = HighWord PROVE k \in {s.map[x].hi, s.map[y].hi}
        <5>1. PICK j \in Host : s.map[j].mips \in Reg /\ s.map[j].hi = k
          BY <1>0, <4>3, <4>6 DEF Consistent
        <5>2. j = x \/ j = y
          BY <1>1, <1>2, <4>2, <5>1
        <5>3. QED
          BY <5>1, <5>2
      <4>7. QED
        BY <4>3, <4>4, <4>5, <4>6 DEF Marks
    <3>3. QED
      BY <3>1, <3>2
  <2>2. U \subseteq {x, s.map[x].hi, y, s.map[y].hi, z}
    BY <2>1
  <2>3. QED
    BY <1>6, <2>2, FewUsed
<1>7. QED
  BY <1>1, <1>4, <1>5, <1>6

\* One pass of the while loop around the scan for free registers.
LEMMA RoomForGood ==
    ASSUME NEW s, NEW p, Good(s, p), NEW need \in Nat, NEW K, Bounded(s, p, need, K)
    PROVE  LET t == RoomFor(s, need, K)
           IN  /\ Good(t, p) /\ Less(s, t, Reg \ K) /\ t.const = s.const
               /\ Cardinality(Free(t)) >= need \/ Cardinality(Free(t)) >= Cardinality(Free(s)) + 1
<1>0. Cardinality(Free(s)) \in Nat /\ s.map \in MapType
  BY FreeSize DEF Good, Typed
<1>1. CASE Cardinality(Free(s)) >= need
  <2>1. RoomFor(s, need, K) = s
    BY <1>1 DEF RoomFor
  <2>2. Less(s, s, Reg \ K)
    BY DEF Less
  <2>3. QED
    BY <1>1, <2>1, <2>2
<1>2. CASE ~(Cardinality(Free(s)) >= need)
  <2> DEFINE S == {k \in Mapped(s) : s.map[k].mips \notin K}
             v == Victim(s, S)
             t == EvictOneOf(s, v)
  <2>1. ~ \A k \in Mapped(s) : s.map[k].mips \in K
    BY <1>2, EnoughRoom DEF Mapped
  <2>2. S \subseteq Host /\ S # {}
    BY <2>1 DEF Mapped
  <2>3. RoomFor(s, need, K) = t
    BY <1>2, <2>1 DEF RoomFor, FlushOneButNotThese3
  <2>4. v \in S
    <3> HIDE DEF S
    <3>1. QED
      BY <1>0, <2>2, VictimChosen
  <2>5. v \in Host /\ s.map[v].mips \in Reg \ K
    BY <2>4 DEF Mapped
  <2> HIDE DEF v, S
  <2>6. /\ Good(t, p) /\ Less(s, t, {s.map[v].mips}) /\ t.const = s.const
        /\ t.map[v].mips = Unused
    BY <2>5, EvictGood
  <2> HIDE DEF t
  <2>7. Less(s, t, Reg \ K)
    BY <2>5, <2>6, LessMore
  <2>8. Cardinality(Free(t)) >= Cardinality(Free(s)) + 1
    BY <2>5, <2>6, EvictFrees
  <2>9. QED
    BY <2>3, <2>6, <2>7, <2>8
<1>3. QED
  BY <1>1, <1>2

\* What is done to have one or two registers free
MakeRoom(s, need, keep) == IF need = 1 THEN RoomFor(s, 1, keep) ELSE RoomForTwo(s, keep)

\* is enough.
LEMMA MakeRoomGood ==
    ASSUME NEW s, NEW p, Good(s, p), NEW need \in {1, 2}, NEW K, Bounded(s, p, need, K)
    PROVE  LET t == MakeRoom(s, need, K)
           IN  /\ Good(t, p) /\ Less(s, t, Reg \ K) /\ t.const = s.const
               /\ Cardinality(Free(t)) >= need
<1> DEFINE u == RoomFor(s, need, K)
           t == RoomFor(u, need, K)
<1>1. /\ Good(u, p) /\ Less(s, u, Reg \ K) /\ u.const = s.const
      /\ Cardinality(Free(u)) >= need \/ Cardinality(Free(u)) >= Cardinality(Free(s)) + 1
  BY RoomForGood
<1> HIDE DEF u
<1>2. Bounded(u, p, need, K)
  <2>1. PICK a, b, c \in Reg :
          /\ K \subseteq {a, b, c}
          /\ \/ need = 2 /\ p = {} /\ c = b
             \/ need = 1 /\ p \subseteq {ECX} /\ c = b
             \/ need = 1 /\ p = {} /\ \A k \in Host : s.map[k].mips = c => s.map[k].hi = k
    BY DEF Bounded
  <2>2. ASSUME NEW k \in Host, u.map[k].mips = c, \A j \in Host : s.map[j].mips = c => s.map[j].hi = j
        PROVE  u.map[k].hi = k
    <3>1. u.map[k] = s.map[k]
      BY <1>1, <2>2, MarkFacts DEF Less
    <3>2. QED
      BY <2>2, <3>1
  <2>3. QED
    BY <2>1, <2>2 DEF Bounded
<1>3. /\ Good(t, p) /\ Less(u, t, Reg \ K) /\ t.const = u.const
      /\ Cardinality(Free(t)) >= need \/ Cardinality(Free(t)) >= Cardinality(Free(u)) + 1
  BY <1>1, <1>2, RoomForGood
<1>4. MakeRoom(s, need, K) = IF need = 1 THEN u ELSE t
  BY DEF MakeRoom, RoomForTwo, u
<1> HIDE DEF t
<1>5. Less(s, t, (Reg \ K) \cup (Reg \ K))
  BY <1>1, <1>3, LessTransitive
<1>6. (Reg \ K) \cup (Reg \ K) = Reg \ K
  OBVIOUS
<1>7. Cardinality(Free(s)) \in Nat /\ Cardinality(Free(u)) \in Nat /\ Cardinality(Free(t)) \in Nat
  BY FreeSize
<1>8. Cardinality(Free(t)) >= need /\ (need = 1 => Cardinality(Free(u)) >= need)
  BY <1>1, <1>3, <1>7
<1>9. QED
  BY <1>1, <1>3, <1>4, <1>5, <1>6, <1>8

\* The scans for a free register, from the top and from the bottom,
LEMMA FreeOnes ==
    ASSUME NEW s, Cardinality(Free(s)) >= 1
    PROVE  /\ Max(Free(s)) \in Host /\ s.map[Max(Free(s))].mips = Unused
           /\ Min(Free(s)) \in Host /\ s.map[Min(Free(s))].mips = Unused
<1> DEFINE F == Free(s)
<1>1. F \subseteq Host /\ F # {} /\ \A k \in F : s.map[k].mips = Unused
  BY FS_EmptySet DEF Free
<1> HIDE DEF F
<1>2. Max(F) \in F /\ Min(F) \in F
  BY <1>1, MaxOfHost, MinOfHost
<1>3. QED
  BY <1>1, <1>2 DEF F

\* and for the second one.
LEMMA FreeTwo ==
    ASSUME NEW s, Cardinality(Free(s)) >= 2, NEW h \in Host
    PROVE  LET k == Max(Free(s) \ {h}) IN k \in Host /\ s.map[k].mips = Unused /\ k # h
<1> DEFINE F == Free(s) \ {h}
<1>1. F \subseteq Host /\ \A k \in F : s.map[k].mips = Unused /\ k # h
  BY DEF Free
<1>2. F # {}
  <2>1. ASSUME F = {} PROVE FALSE
    <3>1. Free(s) \subseteq {h} /\ IsFiniteSet({h}) /\ Cardinality({h}) = 1
      BY <2>1, FS_Singleton
    <3>2. Cardinality(Free(s)) <= 1
      BY <3>1, FS_Subset
    <3>3. QED
      BY <3>2, FreeSize
  <2>2. QED
    BY <2>1
<1> HIDE DEF F
<1>3. Max(F) \in F
  BY <1>1, <1>2, MaxOfHost
<1>4. QED
  BY <1>1, <1>3 DEF F

----------------------------------------------------------------------------
(* Mapping.                                                                *)

RequestType == [mips : Reg, is32 : BOOLEAN, dirty : BOOLEAN, noLo : BOOLEAN, noHi : BOOLEAN]

\* What a request may ask while the host registers in p are protected.
Allowed(c, p, keep) ==
    /\ c \in RequestType
    /\ \E a, b \in Reg : keep \subseteq {a, b}
    /\ p \subseteq {ECX}
    /\ ~c.is32 => p = {}

\* From s to t the registers of K are left alone, and others than r are at most
\* dropped.
Beside(s, t, r, K) ==
    /\ \A k \in Host : s.map[k].mips \in K \ {r} => t.map[k] = s.map[k]
    /\ \A k \in Host : t.map[k].mips \in Reg \ {r} => t.map[k] = s.map[k]
    /\ \A q \in Reg \ {r} : t.const[q] = s.const[q]

\* The answer m to the request c in s.
Answers(s, m, c, p, keep) ==
    /\ Good(m.s, p)
    /\ m.x \in Host /\ m.s.map[m.x].mips = c.mips /\ m.hi = m.s.map[m.x].hi
    /\ c.dirty => m.s.map[m.x].dirty
    /\ ~c.is32 => m.hi # m.x
    /\ Beside(s, m.s, c.mips, keep)

\* Preparations in sequence,
LEMMA BesideTransitive ==
    ASSUME NEW s, NEW t, NEW u, NEW r, NEW K, Beside(s, t, r, K), Beside(t, u, r, K)
    PROVE  Beside(s, u, r, K)
<1>1. ASSUME NEW k \in Host, s.map[k].mips \in K \ {r} PROVE u.map[k] = s.map[k]
  BY <1>1 DEF Beside
<1>2. ASSUME NEW k \in Host, u.map[k].mips \in Reg \ {r} PROVE u.map[k] = s.map[k]
  BY <1>2 DEF Beside
<1>3. QED
  BY <1>1, <1>2 DEF Beside

\* for fewer registers to be kept,
LEMMA BesideFewer ==
    ASSUME NEW s, NEW t, NEW r, NEW K, NEW L, Beside(s, t, r, K), L \subseteq K
    PROVE  Beside(s, t, r, L)
BY DEF Beside

\* A preparation that loses no register to be kept.
LEMMA BesideLess ==
    ASSUME NEW s, NEW t, NEW r, NEW K, Less(s, t, Reg \ K), t.const = s.const, K \subseteq Reg
    PROVE  Beside(s, t, r, K)
<1>1. ASSUME NEW k \in Host, s.map[k].mips \in K \ {r} PROVE t.map[k] = s.map[k]
  BY <1>1 DEF Less
<1>2. ASSUME NEW k \in Host, t.map[k].mips \in Reg \ {r} PROVE t.map[k] = s.map[k]
  BY <1>2, MarkFacts DEF Less
<1>3. QED
  BY <1>1, <1>2 DEF Beside

\* and those that leave the tables alone.
LEMMA BesideSame ==
    ASSUME NEW s, NEW t, NEW r, NEW K, t.map = s.map, t.const = s.const
    PROVE  Beside(s, t, r, K)
BY DEF Beside

\* Answers after a preparation, and with fewer registers to be kept.
LEMMA AnswersAfter ==
    ASSUME NEW s, NEW t, NEW m, NEW c, NEW p, NEW K, Beside(s, t, c.mips, K), Answers(t, m, c, p, K)
    PROVE  Answers(s, m, c, p, K)
<1>1. Beside(s, m.s, c.mips, K)
  BY BesideTransitive DEF Answers
<1>2. QED
  BY <1>1 DEF Answers

\* The same for the registers to be kept.
LEMMA AnswersFewer ==
    ASSUME NEW s, NEW m, NEW c, NEW p, NEW K, NEW L, Answers(s, m, c, p, K), L \subseteq K
    PROVE  Answers(s, m, c, p, L)
<1>1. Beside(s, m.s, c.mips, L)
  BY BesideFewer DEF Answers
<1>2. QED
  BY <1>1 DEF Answers

\* A register that is not mapped gets one host register or two.
LEMMA MapConsistent ==
    ASSUME NEW map, NEW const, Consistent(map, const),
           NEW r \in Reg, r # R0 => const[r] = NoConst, \A j \in Host : map[j].mips # r,
           NEW k \in Host, NEW h \in Host, map[k].mips = Unused, map[h].mips = Unused,
           NEW new, new[k].mips = r, new[k].hi = h, new[k].is32 <=> h = k,
           h # k => new[h].mips = HighWord,
           \A j \in Host : j # k /\ j # h => new[j] = map[j]
    PROVE  Consistent(new, const)
<1>1. ASSUME NEW j \in Host, new[j].mips \in Reg, j # k
      PROVE  j # h /\ new[j] = map[j] /\ map[j].mips \in Reg /\ map[j].mips # r
  BY <1>1, MarkFacts
<1>2. ASSUME NEW j \in Host, map[j].mips \in Reg
      PROVE  map[j].hi # h /\ map[j].hi # k /\ j # k /\ j # h /\ new[j] = map[j]
  BY <1>2, MarkFacts DEF Consistent
<1>3. ASSUME NEW j \in Host, new[j].mips \in Reg
      PROVE  /\ new[j].mips # R0 => const[new[j].mips] = NoConst
             /\ new[j].hi \in Host
             /\ new[j].hi = j \/ new[new[j].hi].mips = HighWord
             /\ new[j].is32 <=> new[j].hi = j
             /\ \A i \in Host : i # j /\ new[i].mips \in Reg => new[i].hi # new[j].hi
  <2>1. CASE j = k
    <3>1. \A i \in Host : i # j /\ new[i].mips \in Reg => new[i].hi # h
      BY <1>1, <1>2, <2>1
    <3>2. QED
      BY <2>1, <3>1
  <2>2. CASE j # k
    <3>1. j # h /\ new[j] = map[j] /\ map[j].mips \in Reg
      BY <1>1, <1>3, <2>2
    <3>2. /\ map[j].mips # R0 => const[map[j].mips] = NoConst
          /\ map[j].hi \in Host
          /\ map[j].hi = j \/ map[map[j].hi].mips = HighWord
          /\ map[j].is32 <=> map[j].hi = j
          /\ \A i \in Host : i # j /\ map[i].mips \in Reg => map[i].hi # map[j].hi
      BY <3>1 DEF Consistent
    <3>3. map[j].hi # h /\ map[j].hi # k
      BY <1>2, <3>1
    <3>4. new[j].hi = j \/ new[new[j].hi].mips = HighWord
      BY <3>1, <3>2, <3>3
    <3>5. \A i \in Host : i # j /\ new[i].mips \in Reg => new[i].hi # new[j].hi
      <4>1. ASSUME NEW i \in Host, i # j, new[i].mips \in Reg PROVE new[i].hi # new[j].hi
        <5>1. CASE i = k
          BY <3>1, <3>3, <5>1
        <5>2. CASE i # k
          BY <1>1, <3>1, <3>2, <4>1, <5>2
        <5>3. QED
          BY <5>1, <5>2
      <4>2. QED
        BY <4>1
    <3>6. QED
      BY <3>1, <3>2, <3>4, <3>5
  <2>3. QED
    BY <2>1, <2>2
<1>4. ASSUME NEW i \in Host, NEW j \in Host, new[j].mips \in Reg, new[i].mips = new[j].mips
      PROVE  i = j
  <2>1. CASE i = k
    BY <1>1, <1>4, <2>1
  <2>2. CASE j = k
    BY <1>1, <1>4, <2>2
  <2>3. CASE i # k /\ j # k
    BY <1>1, <1>4, <2>3 DEF Consistent
  <2>4. QED
    BY <2>1, <2>2, <2>3
<1>5. ASSUME NEW j \in Host, new[j].mips = HighWord
      PROVE  \E i \in Host : new[i].mips \in Reg /\ new[i].hi = j
  <2>1. CASE j = h
    BY <2>1
  <2>2. CASE j # h
    <3>1. j # k /\ new[j] = map[j]
      BY <1>5, <2>2, MarkFacts
    <3>2. PICK i \in Host : map[i].mips \in Reg /\ map[i].hi = j
      BY <1>5, <3>1 DEF Consistent
    <3>3. QED
      BY <1>2, <3>2
  <2>3. QED
    BY <2>1, <2>2
<1>6. const[R0] = 0
  BY DEF Consistent
<1>7. QED
  BY <1>3, <1>4, <1>5, <1>6 DEF Consistent

\* A request for a register that has no place.
Missing(s, c) ==
    /\ c \in RequestType
    /\ c.mips # R0 => s.const[c.mips] = NoConst
    /\ \A j \in Host : s.map[j].mips # c.mips

\* The fields of a request.
LEMMA RequestFacts ==
    ASSUME NEW c \in RequestType
    PROVE  c.mips \in Reg /\ c.is32 \in BOOLEAN /\ c.dirty \in BOOLEAN /\ c.mips \in Reg \cup Marks
BY DEF RequestType

\* Marking a register as used now changes nothing of the map.
LEMMA UseNowEffect ==
    ASSUME NEW s, Typed(s), NEW r \in Reg
    PROVE  LET t == UseNow(s, r)
           IN  /\ Typed(t) /\ t.map = s.map /\ t.const = s.const
               /\ t.errors = s.errors
<1> DEFINE u == [s EXCEPT !.dead = @ \cup {r}]
           t == [u EXCEPT !.now = @ \cup {r}]
<1>1. s.dead \cup {r} \in SUBSET Reg
  BY DEF Typed
<1>2. Typed(u) /\ u.map = s.map /\ u.const = s.const /\ u.errors = s.errors
  BY <1>1 DEF Typed
<1>3. t = UseNow(s, r)
  BY DEF UseNow
<1> HIDE DEF u
<1>4. Typed(t) /\ t.map = u.map /\ t.const = u.const /\ t.errors = u.errors
  BY <1>2 DEF Typed
<1>5. QED
  BY <1>2, <1>3, <1>4

\* Nor does loading the low word,
LEMMA LoadLoEffect ==
    ASSUME NEW s, Typed(s), NEW c, NEW k
    PROVE  Typed(LoadLo(s, c, k)) /\ Same(s, LoadLo(s, c, k))
<1>1. Same(s, s)
  BY DEF Same, Rest
<1>2. \A w : Typed(Mov(s, k, w)) /\ Same(s, Mov(s, k, w))
  BY SetOther DEF Mov
<1>3. QED
  BY <1>1, <1>2 DEF LoadLo

\* or both.
LEMMA LoadBothEffect ==
    ASSUME NEW s, Typed(s), NEW c, NEW k, NEW h
    PROVE  Typed(LoadBoth(s, c, k, h)) /\ Same(s, LoadBoth(s, c, k, h))
<1>1. Same(s, s)
  BY DEF Same, Rest
<1>2. \A w : Typed(Mov(s, h, w)) /\ Same(s, Mov(s, h, w))
  BY SetOther DEF Mov
<1>3. QED
  BY <1>1, <1>2 DEF LoadBoth

\* map_reg of a 32-bit register into a free host register
LEMMA TakeOneGood ==
    ASSUME NEW s, NEW p, Good(s, p), NEW c, Missing(s, c), c.is32,
           NEW k \in Host, s.map[k].mips = Unused
    PROVE  Answers(s, TakeOne(s, c, k), c, p, Reg)
<1> DEFINE u == UseNow(LoadLo(s, c, k), c.mips)
           e == Entry(c.mips, TRUE, c.dirty, k, s.year)
           t == [u EXCEPT !.map[k] = e]
           m == TakeOne(s, c, k)
<1>0. /\ c.mips \in Reg /\ c.is32 \in BOOLEAN /\ c.dirty \in BOOLEAN /\ c.mips \in Reg \cup Marks
      /\ Typed(s) /\ s.year \in Nat /\ s.map \in MapType
  BY RequestFacts DEF Missing, Good, Typed
<1>1. Typed(u) /\ u.map = s.map /\ u.const = s.const /\ u.errors = s.errors
  <2>1. Typed(LoadLo(s, c, k)) /\ Same(s, LoadLo(s, c, k))
    BY <1>0, LoadLoEffect
  <2>2. QED
    BY <1>0, <2>1, UseNowEffect DEF Same, Rest
<1> HIDE DEF u
<1>2. e \in EntryType /\ e.mips = c.mips /\ e.is32 = TRUE /\ e.dirty = c.dirty /\ e.hi = k
  BY <1>0 DEF Entry, EntryType
<1>3. m = [s |-> t, x |-> k, hi |-> k]
  BY DEF TakeOne, u
<1> HIDE DEF e
<1>4. Typed(t) /\ t.map = [s.map EXCEPT ![k] = e] /\ t.const = s.const /\ t.errors = s.errors
  BY <1>1, <1>2, SetEntry DEF Rest
<1> HIDE DEF t, m
<1>5. t.map[k] = e /\ \A j \in Host : j # k => t.map[j] = s.map[j]
  BY <1>0, <1>4 DEF MapType
<1>6. Consistent(t.map, t.const)
  <2>1. Consistent(s.map, s.const) /\ t.const = s.const
    BY <1>4 DEF Good
  <2>2. /\ t.map[k].mips = c.mips /\ t.map[k].hi = k /\ (t.map[k].is32 <=> k = k)
        /\ \A j \in Host : j # k /\ j # k => t.map[j] = s.map[j]
    BY <1>2, <1>5
  <2>3. /\ c.mips # R0 => s.const[c.mips] = NoConst
        /\ \A j \in Host : s.map[j].mips # c.mips
    BY DEF Missing
  <2>4. k # k => t.map[k].mips = HighWord
    OBVIOUS
  <2>5. QED
    BY <1>0, <2>1, <2>2, <2>3, <2>4, MapConsistent
<1>7. \A j \in Host : t.map[j].mips = Protected <=> j \in p
  BY <1>0, <1>2, <1>5, MarkFacts DEF Good
<1>8. Good(t, p)
  BY <1>4, <1>6, <1>7 DEF Good
<1>9. m.s = t /\ m.x = k /\ m.hi = k
  BY <1>3
<1>10. \A j \in Host : s.map[j].mips \in Reg => t.map[j] = s.map[j]
  BY <1>5, MarkFacts
<1>11. \A j \in Host : t.map[j].mips \in Reg \ {c.mips} => t.map[j] = s.map[j]
  BY <1>2, <1>5
<1>12. /\ Good(m.s, p) /\ m.x \in Host /\ m.s.map[m.x].mips = c.mips
       /\ m.hi = m.s.map[m.x].hi /\ (c.dirty => m.s.map[m.x].dirty)
  BY <1>2, <1>5, <1>8, <1>9
<1>13. Answers(s, m, c, p, Reg)
  BY <1>4, <1>9, <1>10, <1>11, <1>12 DEF Answers, Beside
<1>14. QED
  BY <1>13 DEF m

\* and of a 64-bit one into two.
LEMMA TakeTwoGood ==
    ASSUME NEW s, NEW p, Good(s, p), NEW c, Missing(s, c), ~c.is32,
           NEW k \in Host, s.map[k].mips = Unused,
           NEW h \in Host, s.map[h].mips = Unused, h # k
    PROVE  Answers(s, TakeTwo(s, c, k, h), c, p, Reg)
<1> DEFINE u == UseNow(LoadBoth(LoadLo(s, c, k), c, k, h), c.mips)
           e == Entry(c.mips, FALSE, c.dirty, h, s.year)
           v == [u EXCEPT !.map[k] = e]
           f == Entry(HighWord, s.map[h].is32, s.map[h].dirty, s.map[h].hi, s.year)
           w == [v EXCEPT !.map[h] = Entry(HighWord, s.map[h].is32, s.map[h].dirty, s.map[h].hi, s.year)]
           t == [w EXCEPT !.flushed[c.mips] = FALSE]
           m == TakeTwo(s, c, k, h)
<1>0. /\ c.mips \in Reg /\ c.is32 \in BOOLEAN /\ c.dirty \in BOOLEAN /\ c.mips \in Reg \cup Marks
      /\ Typed(s) /\ s.year \in Nat /\ s.map \in MapType
  BY RequestFacts DEF Missing, Good, Typed
<1>1. Typed(u) /\ u.map = s.map /\ u.const = s.const /\ u.errors = s.errors
  <2> DEFINE a == LoadLo(s, c, k)
             b == LoadBoth(a, c, k, h)
  <2>1. Typed(a) /\ Same(s, a)
    BY <1>0, LoadLoEffect
  <2> HIDE DEF a
  <2>2. Typed(b) /\ Same(a, b)
    BY <2>1, LoadBothEffect
  <2> HIDE DEF b
  <2>3. LET x == UseNow(b, c.mips)
        IN  Typed(x) /\ x.map = b.map /\ x.const = b.const /\ x.errors = b.errors
    BY <1>0, <2>2, UseNowEffect
  <2>4. u = UseNow(b, c.mips)
    BY DEF a, b
  <2>5. QED
    BY <2>1, <2>2, <2>3, <2>4 DEF Same, Rest
<1> HIDE DEF u
<1>2. e \in EntryType /\ e.mips = c.mips /\ e.is32 = FALSE /\ e.dirty = c.dirty /\ e.hi = h
  BY <1>0 DEF Entry, EntryType
<1>3. m = [s |-> t, x |-> k, hi |-> h]
  BY DEF TakeTwo, u
<1> HIDE DEF e
<1>4. Typed(v) /\ v.map = [s.map EXCEPT ![k] = e] /\ v.const = s.const /\ v.errors = s.errors
  BY <1>1, <1>2, SetEntry DEF Rest
<1> HIDE DEF v
<1>5. v.map \in MapType /\ s.map[h] \in EntryType
  BY <1>0, <1>4 DEF Typed, MapType
<1>6. f \in EntryType /\ f.mips = HighWord
  BY <1>0, <1>5 DEF Entry, EntryType, Marks
<1>7. w = [v EXCEPT !.map[h] = f]
  BY <1>4, <1>5 DEF Typed, MapType
<1> HIDE DEF f, w
<1>8. Typed(w) /\ w.map = [v.map EXCEPT ![h] = f] /\ w.const = s.const /\ w.errors = s.errors
  BY <1>4, <1>6, <1>7, SetEntry DEF Rest
<1>9. Typed(t) /\ t.map = w.map /\ t.const = s.const /\ t.errors = s.errors
  <2>1. Typed(t) /\ Same(w, t)
    BY <1>8, SetOther
  <2>2. QED
    BY <1>8, <2>1 DEF Same, Rest
<1> HIDE DEF t, m
<1>10. t.map[k] = e /\ t.map[h] = f /\ \A j \in Host : j # k /\ j # h => t.map[j] = s.map[j]
  BY <1>0, <1>4, <1>5, <1>8, <1>9 DEF MapType
<1>11. Consistent(t.map, t.const)
  <2>1. h # k /\ (e.is32 <=> h = k)
    BY <1>2
  <2>2. QED
    BY <1>0, <1>2, <1>6, <1>9, <1>10, <2>1, MapConsistent DEF Good, Missing
<1>12. \A j \in Host : t.map[j].mips = Protected <=> j \in p
  BY <1>0, <1>2, <1>6, <1>10, MarkFacts DEF Good
<1>13. Good(t, p)
  BY <1>9, <1>11, <1>12 DEF Good
<1>14. m.s = t /\ m.x = k /\ m.hi = h
  BY <1>3
<1>15. \A j \in Host : s.map[j].mips \in Reg => t.map[j] = s.map[j]
  BY <1>10, MarkFacts
<1>16. \A j \in Host : t.map[j].mips \in Reg \ {c.mips} => t.map[j] = s.map[j]
  BY <1>2, <1>6, <1>10, MarkFacts
<1>17. /\ Good(m.s, p) /\ m.x \in Host /\ m.s.map[m.x].mips = c.mips
       /\ m.hi = m.s.map[m.x].hi /\ (c.dirty => m.s.map[m.x].dirty) /\ m.hi # m.x
  BY <1>2, <1>10, <1>13, <1>14
<1>18. Answers(s, m, c, p, Reg)
  BY <1>9, <1>14, <1>15, <1>16, <1>17 DEF Answers, Beside
<1>19. QED
  BY <1>18 DEF m

\* There is room for what a request may ask.
LEMMA AllowedRoom ==
    ASSUME NEW s, NEW p, Good(s, p), NEW c, NEW keep, Allowed(c, p, keep)
    PROVE  /\ Bounded(s, p, 1, keep)
           /\ ~c.is32 => Bounded(s, p, 2, keep)
           /\ keep \subseteq Reg
           /\ ~c.is32 /\ (\A k \in Host : s.map[k].mips = c.mips => s.map[k].hi = k) =>
                Bounded(s, p, 1, keep \cup {c.mips})
<1>1. PICK a, b \in Reg : keep \subseteq {a, b}
  BY DEF Allowed
<1>2. c.mips \in Reg /\ p \subseteq {ECX} /\ (~c.is32 => p = {})
  BY RequestFacts DEF Allowed
<1>3. Bounded(s, p, 1, keep)
  <2>1. keep \subseteq {a, b, b}
    BY <1>1
  <2>2. QED
    BY <1>1, <1>2, <2>1 DEF Bounded
<1>4. ASSUME ~c.is32 PROVE Bounded(s, p, 2, keep)
  <2>1. keep \subseteq {a, b, b}
    BY <1>1
  <2>2. QED
    BY <1>1, <1>2, <1>4, <2>1 DEF Bounded
<1>5. ASSUME ~c.is32, \A k \in Host : s.map[k].mips = c.mips => s.map[k].hi = k
      PROVE  Bounded(s, p, 1, keep \cup {c.mips})
  <2>1. keep \cup {c.mips} \subseteq {a, b, c.mips}
    BY <1>1
  <2>2. QED
    BY <1>1, <1>2, <1>5, <2>1 DEF Bounded
<1>6. QED
  BY <1>1, <1>3, <1>4, <1>5

\* MakeRoom as a preparation.
LEMMA MakeRoomBeside ==
    ASSUME NEW s, NEW p, Good(s, p), NEW need \in {1, 2}, NEW K, Bounded(s, p, need, K), K \subseteq Reg,
           NEW c
    PROVE  LET t == MakeRoom(s, need, K)
           IN  /\ Good(t, p) /\ Beside(s, t, c.mips, K) /\ Cardinality(Free(t)) >= need
               /\ Missing(s, c) => Missing(t, c)
               /\ \A k \in Host : s.map[k].mips \in K => t.map[k] = s.map[k]
<1> DEFINE t == MakeRoom(s, need, K)
<1>1. /\ Good(t, p) /\ Less(s, t, Reg \ K) /\ t.const = s.const /\ Cardinality(Free(t)) >= need
  BY MakeRoomGood
<1> HIDE DEF t
<1>2. Beside(s, t, c.mips, K)
  BY <1>1, BesideLess
<1>3. ASSUME Missing(s, c) PROVE Missing(t, c)
  <2>1. c.mips \in Reg
    BY <1>3, RequestFacts DEF Missing
  <2>2. ASSUME NEW j \in Host PROVE t.map[j].mips # c.mips
    <3>1. t.map[j] = s.map[j] \/ t.map[j].mips = Unused
      BY <1>1 DEF Less
    <3>2. s.map[j].mips # c.mips
      BY <1>3 DEF Missing
    <3>3. QED
      BY <2>1, <3>1, <3>2, MarkFacts
  <2>3. QED
    BY <1>1, <1>3, <2>2 DEF Missing
<1>4. \A k \in Host : s.map[k].mips \in K => t.map[k] = s.map[k]
  BY <1>1 DEF Less
<1>5. QED
  BY <1>1, <1>2, <1>3, <1>4 DEF t

\* Map32bit, room made first,
LEMMA Map32Good ==
    ASSUME NEW s, NEW p, Good(s, p), NEW c, NEW keep, Allowed(c, p, keep), Missing(s, c), c.is32
    PROVE  Answers(s, Map32bit(s, c, keep), c, p, keep)
<1> DEFINE t == MakeRoom(s, 1, keep)
           k == Max(Free(t))
<1>1. Bounded(s, p, 1, keep) /\ keep \subseteq Reg
  BY AllowedRoom
<1>2. Good(t, p) /\ Beside(s, t, c.mips, keep) /\ Cardinality(Free(t)) >= 1 /\ Missing(t, c)
  BY <1>1, MakeRoomBeside
<1>3. Map32bit(s, c, keep) = TakeOne(t, c, k)
  BY DEF Map32bit, FirstFree, MakeRoom
<1> HIDE DEF t
<1>4. k \in Host /\ t.map[k].mips = Unused
  BY <1>2, FreeOnes
<1> HIDE DEF k
<1>5. Answers(t, TakeOne(t, c, k), c, p, Reg)
  BY <1>2, <1>4, TakeOneGood
<1>6. Answers(t, TakeOne(t, c, k), c, p, keep)
  BY <1>1, <1>5, AnswersFewer
<1>7. QED
  BY <1>2, <1>3, <1>6, AnswersAfter

\* and Map64bit.
LEMMA Map64Good ==
    ASSUME NEW s, NEW p, Good(s, p), NEW c, NEW keep, Allowed(c, p, keep), Missing(s, c), ~c.is32
    PROVE  Answers(s, Map64bit(s, c, keep), c, p, keep)
<1> DEFINE t == MakeRoom(s, 2, keep)
           h == Max(Free(t))
           k == Max(Free(t) \ {h})
<1>1. Bounded(s, p, 2, keep) /\ keep \subseteq Reg
  BY AllowedRoom
<1>2. Good(t, p) /\ Beside(s, t, c.mips, keep) /\ Cardinality(Free(t)) >= 2 /\ Missing(t, c)
  BY <1>1, MakeRoomBeside
<1>3. Map64bit(s, c, keep) = TakeTwo(t, c, k, h)
  BY DEF Map64bit, FirstTwoFree, SecondFree, MakeRoom
<1> HIDE DEF t
<1>4. h \in Host /\ t.map[h].mips = Unused
  <2>1. Cardinality(Free(t)) >= 1
    BY <1>2, FreeSize
  <2>2. QED
    BY <2>1, FreeOnes
<1> HIDE DEF h
<1>5. k \in Host /\ t.map[k].mips = Unused /\ k # h
  BY <1>2, <1>4, FreeTwo
<1> HIDE DEF k
<1>6. Answers(t, TakeTwo(t, c, k, h), c, p, Reg)
  BY <1>2, <1>4, <1>5, TakeTwoGood
<1>7. Answers(t, TakeTwo(t, c, k, h), c, p, keep)
  BY <1>1, <1>6, AnswersFewer
<1>8. QED
  BY <1>2, <1>3, <1>7, AnswersAfter

----------------------------------------------------------------------------
(* Narrowing and widening.                                                 *)

\* A register gets another high word, g, or none.
Rehoused(map, new, k, g) ==
    /\ new[k].mips = map[k].mips /\ new[k].hi = g /\ (new[k].is32 <=> g = k)
    /\ g # k => new[g].mips = HighWord
    /\ map[k].hi # k /\ map[k].hi # g => new[map[k].hi].mips = Unused
    /\ \A j \in Host : j # k /\ j # g /\ j # map[k].hi => new[j] = map[j]

\* A register whose high word goes elsewhere, or nowhere, stays consistent.
LEMMA RehousedConsistent ==
    ASSUME NEW map, NEW const, Consistent(map, const), NEW k \in Host, map[k].mips \in Reg,
           NEW g \in Host, g = k \/ map[g].mips = Unused,
           NEW new, Rehoused(map, new, k, g)
    PROVE  Consistent(new, const)
<1> DEFINE h == map[k].hi
           none == Entry(Unused, FALSE, FALSE, None, FirstYear)
           mid == [j \in Host |-> IF j = k \/ (j = g /\ j = h) THEN none
                                  ELSE IF j = h THEN new[j] ELSE map[j]]
<1>1. h \in Host /\ (h = k \/ (map[h].mips = HighWord /\ h # g))
  BY MarkFacts DEF Consistent
<1>2. none.mips = Unused
  BY DEF Entry
<1> HIDE DEF none
<1>3. mid[k].mips = Unused /\ mid[h].mips = Unused /\ \A j \in Host \ {k, h} : mid[j] = map[j]
  BY <1>1, <1>2 DEF Rehoused
<1>4. const[R0] = 0 /\ \A q \in Reg \ {map[k].mips} : const[q] = const[q] \/ const[q] = NoConst
  BY DEF Consistent
<1>5. mid[g].mips = Unused
  BY <1>1, <1>2, <1>3
<1>6. \A j \in Host : j # k /\ j # g => new[j] = mid[j]
  BY <1>1 DEF Rehoused
<1> HIDE DEF mid
<1>7. Consistent(mid, const)
  BY <1>3, <1>4, UnmapConsistent
<1>8. \A j \in Host : mid[j].mips # map[k].mips
  <2>1. ASSUME NEW j \in Host PROVE mid[j].mips # map[k].mips
    <3>1. CASE j = k \/ j = h
      BY <1>3, <3>1, MarkFacts
    <3>2. CASE j # k /\ j # h
      BY <1>3, <3>2 DEF Consistent
    <3>3. QED
      BY <3>1, <3>2
  <2>2. QED
    BY <2>1
<1>9. map[k].mips # R0 => const[map[k].mips] = NoConst
  BY DEF Consistent
<1>10. /\ new[k].mips = map[k].mips /\ new[k].hi = g /\ (new[k].is32 <=> g = k)
       /\ g # k => new[g].mips = HighWord
  BY DEF Rehoused
<1>11. QED
  BY <1>3, <1>5, <1>6, <1>7, <1>8, <1>9, <1>10, MapConsistent

\* What Rehoused means for the invariant.
LEMMA RehousedGood ==
    ASSUME NEW s, NEW p, Good(s, p), NEW k \in Host, s.map[k].mips \in Reg,
           NEW g \in Host, g = k \/ s.map[g].mips = Unused,
           NEW t, Typed(t), t.const = s.const, t.errors = s.errors, Rehoused(s.map, t.map, k, g)
    PROVE  Good(t, p) /\ Beside(s, t, s.map[k].mips, Reg)
<1>1. Consistent(t.map, t.const)
  BY RehousedConsistent DEF Good
<1>2. s.map[k].hi \in Host /\ (s.map[k].hi = k \/ s.map[s.map[k].hi].mips = HighWord)
  BY DEF Good, Consistent
<1>3. \A j \in Host : t.map[j].mips = Protected <=> j \in p
  <2>1. ASSUME NEW j \in Host PROVE t.map[j].mips = Protected <=> j \in p
    <3>1. s.map[j].mips = Protected <=> j \in p
      BY DEF Good
    <3>2. j = k \/ j = g \/ j = s.map[k].hi => t.map[j].mips # Protected /\ s.map[j].mips # Protected
      BY <1>2, MarkFacts DEF Rehoused
    <3>3. QED
      BY <3>1, <3>2 DEF Rehoused
  <2>2. QED
    BY <2>1
<1>4. Good(t, p)
  BY <1>1, <1>3 DEF Good
<1>5. ASSUME NEW j \in Host, s.map[j].mips \in Reg \ {s.map[k].mips} PROVE t.map[j] = s.map[j]
  BY <1>2, <1>5, MarkFacts DEF Rehoused
<1>6. ASSUME NEW j \in Host, t.map[j].mips \in Reg \ {s.map[k].mips} PROVE t.map[j] = s.map[j]
  BY <1>2, <1>6, MarkFacts DEF Rehoused
<1>7. QED
  BY <1>4, <1>5, <1>6 DEF Beside

\* ConvertRegTo32bit gives the high word up;
LEMMA NarrowGood ==
    ASSUME NEW s, NEW p, Good(s, p), NEW k \in Host, s.map[k].mips \in Reg, s.map[k].hi # k
    PROVE  LET t == ConvertRegTo32bit(s, k)
           IN  /\ Good(t, p) /\ Beside(s, t, s.map[k].mips, Reg)
               /\ t.map[k].mips = s.map[k].mips /\ t.map[k].hi = k
<1> DEFINE h == s.map[k].hi
           d == Delete(s, h)
           e == [s.map[k] EXCEPT !.hi = k, !.is32 = TRUE, !.birth = s.year]
           t == [d EXCEPT !.map[k] = e]
<1>0. Typed(s) /\ s.map \in MapType /\ s.map[k] \in EntryType /\ s.year \in Nat
  BY DEF Good, Typed, MapType
<1>1. h \in Host /\ h # k
  BY DEF Good, Consistent
<1>2. e \in EntryType /\ e.mips = s.map[k].mips /\ e.hi = k /\ e.is32 = TRUE
  BY <1>0 DEF EntryType
<1> HIDE DEF h, e
<1>3. Typed(d) /\ Rest(s, d) /\ d.map = [s.map EXCEPT ![h] = Entry(Unused, FALSE, FALSE, None, s.year)]
  BY <1>0, <1>1, DeleteEffect
<1>4. d.map[k] = s.map[k] /\ d.map[h].mips = Unused
  BY <1>0, <1>1, <1>3 DEF MapType, Entry
<1>5. ConvertRegTo32bit(s, k) = t
  <2>1. ConvertRegTo32bit(s, k) =
          [d EXCEPT !.map[k].hi = k, !.map[k].is32 = TRUE, !.map[k].birth = s.year]
    BY DEF ConvertRegTo32bit, h
  <2> HIDE DEF d
  <2>2. [d EXCEPT !.map[k].hi = k, !.map[k].is32 = TRUE, !.map[k].birth = s.year] = t
    BY <1>0, <1>3, <1>4 DEF e, EntryType, MapType, Typed
  <2>3. QED
    BY <2>1, <2>2
<1> HIDE DEF d
<1>6. Typed(t) /\ t.map = [d.map EXCEPT ![k] = e] /\ Rest(d, t)
  <2>1. Typed(d) /\ e \in EntryType
    BY <1>2, <1>3
  <2>2. QED
    BY <2>1, SetEntry
<1> HIDE DEF t
<1>7. t.map[k] = e /\ t.map[h].mips = Unused /\ \A j \in Host : j # k /\ j # h => t.map[j] = s.map[j]
  BY <1>0, <1>1, <1>3, <1>4, <1>6 DEF MapType
<1>8. Rehoused(s.map, t.map, k, k)
  BY <1>1, <1>2, <1>7 DEF Rehoused, h
<1>9. t.const = s.const /\ t.errors = s.errors
  BY <1>3, <1>6 DEF Rest
<1>10. Good(t, p) /\ Beside(s, t, s.map[k].mips, Reg)
  BY <1>6, <1>8, <1>9, RehousedGood
<1>11. QED
  BY <1>2, <1>5, <1>7, <1>10

\* ConvertRegTo64bit takes a free host register for it.
LEMMA WidenGood ==
    ASSUME NEW s, NEW p, Good(s, p), NEW k \in Host, s.map[k].mips \in Reg, s.map[k].hi = k,
           NEW c, NEW h \in Host, s.map[h].mips = Unused
    PROVE  LET t == Widen(s, k, c, h)
           IN  /\ Good(t, p) /\ Beside(s, t, s.map[k].mips, Reg)
               /\ t.map[k].mips = s.map[k].mips /\ t.map[k].hi = h /\ h # k
<1> DEFINE w == IF ~s.map[k].dirty THEN LoadHi(s, c.mips, s.host[k])
                ELSE IF c.noHi THEN s.host[h] ELSE SignOf(s.host[k])
           u == [s EXCEPT !.host[h] = w]
           e == [s.map[k] EXCEPT !.hi = h, !.is32 = FALSE]
           v == [u EXCEPT !.map[k] = e]
           f == Entry(HighWord, FALSE, FALSE, None, s.map[h].birth)
           x == [v EXCEPT !.map[h] = f]
           t == [x EXCEPT !.flushed[c.mips] = FALSE]
<1>0. /\ Typed(s) /\ s.map \in MapType /\ s.map[k] \in EntryType /\ s.map[h] \in EntryType
      /\ h # k
  BY MarkFacts DEF Good, Typed, MapType
<1>1. e \in EntryType /\ e.mips = s.map[k].mips /\ e.hi = h /\ e.is32 = FALSE
  BY <1>0 DEF EntryType
<1>2. f \in EntryType /\ f.mips = HighWord
  BY <1>0 DEF Entry, EntryType, Marks
<1>3. Widen(s, k, c, h) = t
  <2> DEFINE a == [[u EXCEPT !.map[k].hi = h] EXCEPT !.map[k].is32 = FALSE]
             b == [a EXCEPT !.map[h] = f]
  <2>1. u.map = s.map /\ Typed(u)
    BY <1>0 DEF Typed
  <2>2. Widen(s, k, c, h) = [b EXCEPT !.flushed[c.mips] = FALSE]
    BY DEF Widen
  <2> HIDE DEF u
  <2>3. a = v
    BY <1>0, <2>1 DEF Typed, MapType, EntryType
  <2>4. v.map[h] = s.map[h] /\ Typed(v)
    BY <1>0, <1>1, <2>1, SetEntry DEF MapType
  <2> HIDE DEF a, v
  <2>5. b = x
    BY <2>3
  <2>6. QED
    BY <2>2, <2>5
<1> HIDE DEF e, f, w
<1>4. Typed(u) /\ Same(s, u)
  BY <1>0, SetOther
<1> HIDE DEF u
<1>5. Typed(v) /\ v.map = [u.map EXCEPT ![k] = e] /\ Rest(u, v)
  BY <1>1, <1>4, SetEntry
<1> HIDE DEF v
<1>6. Typed(x) /\ x.map = [v.map EXCEPT ![h] = f] /\ Rest(v, x)
  BY <1>2, <1>5, SetEntry
<1> HIDE DEF x
<1>7. Typed(t) /\ Same(x, t)
  BY <1>6, SetOther
<1> HIDE DEF t
<1>8. t.map[k] = e /\ t.map[h] = f /\ \A j \in Host : j # k /\ j # h => t.map[j] = s.map[j]
  BY <1>0, <1>4, <1>5, <1>6, <1>7 DEF MapType, Same
<1>9. Rehoused(s.map, t.map, k, h)
  BY <1>0, <1>1, <1>2, <1>8 DEF Rehoused
<1>10. t.const = s.const /\ t.errors = s.errors
  BY <1>4, <1>5, <1>6, <1>7 DEF Rest, Same
<1>11. Good(t, p) /\ Beside(s, t, s.map[k].mips, Reg)
  BY <1>7, <1>9, <1>10, RehousedGood
<1>12. QED
  BY <1>0, <1>1, <1>3, <1>8, <1>11

\* The use of a register in the form it is in.
LEMMA UsedGood ==
    ASSUME NEW s, NEW p, Good(s, p), NEW c \in RequestType, NEW k \in Host,
           s.map[k].mips = c.mips, NEW is32 \in BOOLEAN, is32 <=> s.map[k].hi = k,
           ~c.is32 => s.map[k].hi # k
    PROVE  Answers(s, Converted(s, k, c, is32), c, p, Reg)
<1> DEFINE hi == s.map[k].hi
           new == [j \in Host |->
                     IF j = k THEN Entry(s.map[k].mips, is32, s.map[k].dirty \/ c.dirty,
                                         s.map[k].hi, s.year)
                     ELSE IF j = hi THEN [s.map[hi] EXCEPT !.birth = s.year] ELSE s.map[j]]
           t == [s EXCEPT !.map = new]
           m == [s |-> t, x |-> k, hi |-> hi]
<1>0. Typed(s) /\ s.map \in MapType /\ s.year \in Nat /\ c.dirty \in BOOLEAN /\ c.mips \in Reg
  BY RequestFacts DEF Good, Typed
<1>1. Converted(s, k, c, is32) = m
  BY <1>0 DEF Converted, Used, Typed
<1>2. hi \in Host /\ (hi = k \/ s.map[hi].mips = HighWord) /\ s.map[hi].mips # Protected
  BY <1>0, MarkFacts DEF Good, Consistent
<1> HIDE DEF hi
<1>3. ASSUME NEW j \in Host
      PROVE  /\ new[j] \in EntryType /\ new[j].mips = s.map[j].mips /\ new[j].hi = s.map[j].hi
             /\ new[j].is32 = IF j = k THEN is32 ELSE s.map[j].is32
             /\ j # k /\ j # hi => new[j] = s.map[j]
  <2>1. s.map[j] \in EntryType /\ s.map[k] \in EntryType /\ s.map[hi] \in EntryType
    BY <1>0, <1>2 DEF MapType
  <2>2. QED
    BY <1>0, <2>1 DEF EntryType, Entry
<1>4. new[k].dirty = (s.map[k].dirty \/ c.dirty)
  BY DEF Entry
<1>5. new \in MapType
  BY <1>3 DEF MapType
<1> HIDE DEF new
<1>6. Typed(t) /\ t.map = new /\ t.const = s.const /\ t.errors = s.errors
  BY <1>0, <1>5 DEF Typed
<1> HIDE DEF t
<1>7. Consistent(t.map, t.const)
  <2>1. Consistent(s.map, s.const)
    BY DEF Good
  <2>2. \A j \in Host : new[j].mips = s.map[j].mips /\ new[j].hi = s.map[j].hi
    BY <1>3
  <2>3. \A j \in Host : new[j].mips \in Reg => new[j].is32 = s.map[j].is32
    <3>1. is32 = s.map[k].is32
      <4>1. s.map[k].is32 <=> s.map[k].hi = k
        BY <1>0, <2>1 DEF Consistent
      <4>2. s.map[k].is32 \in BOOLEAN
        BY <1>0, EntryTyped
      <4>3. QED
        BY <4>1, <4>2
    <3>2. QED
      BY <1>3, <3>1
  <2>4. Consistent(new, s.const)
    BY <2>1, <2>2, <2>3 DEF Consistent
  <2>5. QED
    BY <1>6, <2>4
<1>8. Good(t, p)
  BY <1>3, <1>6, <1>7 DEF Good
<1>9. Beside(s, t, c.mips, Reg)
  <2>1. \A j \in Host : s.map[j].mips \in Reg \ {c.mips} => j # k /\ j # hi
    BY <1>2, MarkFacts
  <2>2. QED
    BY <1>3, <1>6, <2>1 DEF Beside
<1>10. /\ m.s = t /\ m.x = k /\ m.hi = hi /\ t.map[k].mips = c.mips /\ t.map[k].hi = hi
       /\ (c.dirty => t.map[k].dirty)
  BY <1>3, <1>4, <1>6 DEF hi
<1>11. ~c.is32 => hi # k
  BY DEF hi
<1> HIDE DEF m
<1>12. Answers(s, m, c, p, Reg)
  BY <1>8, <1>9, <1>10, <1>11 DEF Answers
<1>13. QED
  BY <1>1, <1>12

\* A request for a register that has a place.
LEMMA ConvertGood ==
    ASSUME NEW s, NEW p, Good(s, p), NEW c, NEW keep, Allowed(c, p, keep),
           NEW k \in Host, s.map[k].mips = c.mips
    PROVE  Answers(s, ConvertReg(s, k, c, keep), c, p, keep)
<1> DEFINE t == IF ~c.is32 THEN ConvertRegTo64bit(s, k, c, keep)
                ELSE IF s.map[k].hi # k /\ c.dirty THEN ConvertRegTo32bit(s, k) ELSE s
           is32 == c.is32 /\ (s.map[k].hi = k \/ c.dirty)
           r == c.mips
<1>0. /\ c \in RequestType /\ r \in Reg /\ c.is32 \in BOOLEAN /\ c.dirty \in BOOLEAN
      /\ keep \subseteq Reg /\ s.map[k].mips \in Reg
  BY RequestFacts, AllowedRoom DEF Allowed
<1>1. is32 \in BOOLEAN
  BY <1>0
<1>2. /\ Good(t, p) /\ Beside(s, t, r, keep) /\ t.map[k].mips = r
      /\ (is32 <=> t.map[k].hi = k)
  <2>1. CASE ~c.is32 /\ s.map[k].hi # k
    <3>1. t = s
      BY <2>1 DEF ConvertRegTo64bit
    <3>2. QED
      BY <2>1, <3>1, BesideSame
  <2>2. CASE ~c.is32 /\ s.map[k].hi = k
    <3> DEFINE u == MakeRoom(s, 1, keep \cup {r})
               h == Min(Free(u))
    <3>1. t = Widen(u, k, c, h)
      BY <2>2 DEF ConvertRegTo64bit, LastFree, MakeRoom
    <3>2. Bounded(s, p, 1, keep \cup {r})
      <4>1. \A j \in Host : s.map[j].mips = r => s.map[j].hi = j
        BY <1>0, <2>2 DEF Good, Consistent
      <4>2. QED
        BY <2>2, <4>1, AllowedRoom
    <3>3. /\ Good(u, p) /\ Beside(s, u, r, keep \cup {r}) /\ Cardinality(Free(u)) >= 1
          /\ \A j \in Host : s.map[j].mips \in keep \cup {r} => u.map[j] = s.map[j]
      <4> DEFINE K == keep \cup {r}
      <4>1. K \subseteq Reg /\ Bounded(s, p, 1, K) /\ u = MakeRoom(s, 1, K)
        BY <1>0, <3>2
      <4> HIDE DEF K, u
      <4>2. /\ Good(u, p) /\ Beside(s, u, r, K) /\ Cardinality(Free(u)) >= 1
            /\ \A j \in Host : s.map[j].mips \in K => u.map[j] = s.map[j]
        BY <4>1, MakeRoomBeside
      <4>3. QED
        BY <4>2 DEF K
    <3> HIDE DEF u, t
    <3>4. u.map[k].mips = r /\ u.map[k].mips \in Reg /\ u.map[k].hi = k
      BY <1>0, <2>2, <3>3
    <3>5. h \in Host /\ u.map[h].mips = Unused
      BY <3>3, FreeOnes
    <3> HIDE DEF h
    <3>6. /\ Good(t, p) /\ Beside(u, t, u.map[k].mips, Reg)
          /\ t.map[k].mips = u.map[k].mips /\ t.map[k].hi = h /\ h # k
      BY <3>1, <3>3, <3>4, <3>5, WidenGood
    <3>7. Beside(s, u, r, keep) /\ Beside(u, t, r, keep)
      <4>1. keep \subseteq keep \cup {r}
        OBVIOUS
      <4>2. Beside(u, t, r, Reg)
        BY <3>4, <3>6
      <4>3. QED
        BY <1>0, <3>3, <4>1, <4>2, BesideFewer
    <3>8. Beside(s, t, r, keep)
      BY <3>7, BesideTransitive
    <3>9. QED
      BY <2>2, <3>4, <3>6, <3>8
  <2>3. CASE c.is32 /\ s.map[k].hi # k /\ c.dirty
    <3>1. t = ConvertRegTo32bit(s, k)
      BY <2>3
    <3>2. /\ Good(t, p) /\ Beside(s, t, s.map[k].mips, Reg)
          /\ t.map[k].mips = s.map[k].mips /\ t.map[k].hi = k
      BY <1>0, <2>3, <3>1, NarrowGood
    <3>3. Beside(s, t, r, keep)
      BY <1>0, <3>2, BesideFewer
    <3>4. QED
      BY <2>3, <3>2, <3>3
  <2>4. CASE c.is32 /\ (s.map[k].hi = k \/ ~c.dirty)
    <3>1. t = s
      BY <2>4
    <3>2. QED
      BY <2>4, <3>1, BesideSame
  <2>5. QED
    BY <2>1, <2>2, <2>3, <2>4
<1>3. ConvertReg(s, k, c, keep) = Converted(t, k, c, is32)
  BY DEF ConvertReg
<1>4. ~c.is32 => t.map[k].hi # k
  BY <1>2
<1> HIDE DEF t, is32
<1>5. Answers(t, Converted(t, k, c, is32), c, p, Reg)
  BY <1>0, <1>1, <1>2, <1>4, UsedGood
<1>6. Answers(t, Converted(t, k, c, is32), c, p, keep)
  BY <1>0, <1>5, AnswersFewer
<1>7. QED
  BY <1>2, <1>3, <1>6, AnswersAfter

----------------------------------------------------------------------------
(* MapRegister.                                                            *)

\* map_reg once the constant has been dealt with.
LEMMA MapPlainGood ==
    ASSUME NEW s, NEW p, Good(s, p), NEW c, NEW keep, Allowed(c, p, keep)
    PROVE  Answers(s, MapPlain(s, c, keep), c, p, keep)
<1> DEFINE v == IF c.mips = R0 THEN s.const[c.mips] ELSE NoConst
           t == [s EXCEPT !.const[c.mips] = v]
           k == Where(t, c.mips)
<1>0. Typed(s) /\ c \in RequestType /\ c.mips \in Reg /\ c.is32 \in BOOLEAN
  BY RequestFacts DEF Good, Allowed
<1>1. /\ Typed(t) /\ t.map = s.map /\ t.errors = s.errors /\ t.const[c.mips] = v
      /\ \A q \in Reg \ {c.mips} : t.const[q] = s.const[q]
  <2> HIDE DEF v
  <2>1. QED
    BY <1>0, SetConst
<1>2. MapPlain(s, c, keep) = MapPlainConst(t, c, keep)
  BY <1>0 DEF MapPlain, Typed
<1> HIDE DEF t
<1>3. Good(t, p)
  <2>1. t.const[R0] = 0
    BY <1>0, <1>1, MarkFacts DEF Good, Consistent
  <2>2. \A q \in Reg : t.const[q] = s.const[q] \/ t.const[q] = NoConst
    BY <1>1
  <2>3. Consistent(t.map, t.const)
    BY <1>1, <2>1, <2>2, ConstConsistent DEF Good
  <2>4. QED
    BY <1>1, <2>3 DEF Good
<1>4. Beside(s, t, c.mips, keep)
  BY <1>1 DEF Beside
<1>5. Answers(t, MapPlainConst(t, c, keep), c, p, keep)
  <2>1. CASE k # None
    <3>1. k \in Host /\ t.map[k].mips = c.mips
      BY <1>0, <1>3, <2>1, WhereIs DEF Good
    <3>2. MapPlainConst(t, c, keep) = ConvertReg(t, k, c, keep)
      BY <2>1 DEF MapPlainConst
    <3> HIDE DEF k
    <3>3. QED
      BY <1>3, <3>1, <3>2, ConvertGood
  <2>2. CASE k = None
    <3>1. \A j \in Host : t.map[j].mips # c.mips
      BY <1>0, <1>3, <2>2, WhereIs DEF Good
    <3>2. Missing(t, c)
      BY <1>0, <1>1, <3>1 DEF Missing
    <3>3. MapPlainConst(t, c, keep) =
            IF c.is32 THEN Map32bit(t, c, keep) ELSE Map64bit(t, c, keep)
      BY <2>2 DEF MapPlainConst
    <3>4. QED
      BY <1>3, <3>2, <3>3, Map32Good, Map64Good
  <2>3. QED
    BY <2>1, <2>2
<1>6. QED
  BY <1>2, <1>4, <1>5, AnswersAfter

\* The clock of the birth dates advances.
LEMMA NextYearGood ==
    ASSUME NEW s, NEW p, Good(s, p), NEW r, NEW K
    PROVE  Good(NextYear(s), p) /\ Beside(s, NextYear(s), r, K)
<1>1. Typed(NextYear(s)) /\ Same(s, NextYear(s))
  BY DEF NextYear, Good, Typed, Same, Rest
<1>2. QED
  BY <1>1, SameGood, BesideSame DEF Same, Rest

\* What is moved to a host register of an answer leaves it an answer.
LEMMA MovSame ==
    ASSUME NEW s, Typed(s), NEW k, NEW w
    PROVE  Typed(Mov(s, k, w)) /\ Same(s, Mov(s, k, w))
BY SetOther DEF Mov

\* A constant is loaded into an answer.
LEMMA LoadConstantSame ==
    ASSUME NEW m, Typed(m.s), NEW value
    PROVE  Typed(LoadConstant(m, value)) /\ Same(m.s, LoadConstant(m, value))
<1> DEFINE u == Mov(m.s, m.x, value)
           v == Mov(u, m.hi, SignOf(value))
<1>1. Typed(u) /\ Same(m.s, u)
  BY MovSame
<1>2. LoadConstant(m, value) = u \/ LoadConstant(m, value) = v
  BY DEF LoadConstant
<1> HIDE DEF u
<1>3. Typed(v) /\ Same(u, v)
  BY <1>1, MovSame
<1> HIDE DEF v
<1>4. QED
  BY <1>1, <1>2, <1>3, SameTransitive

\* MapRegister answers every request that is allowed: it finds host registers
\* for it, and leaves those to be kept alone.
LEMMA MapRegisterGood ==
    ASSUME NEW s, NEW p, Good(s, p), NEW c, NEW keep, Allowed(c, p, keep)
    PROVE  Answers(s, MapRegister(s, c, keep), c, p, keep)
<1> DEFINE r == c.mips
           y == NextYear(s)
           c1 == Conditions(r, c.is32, r # R0, TRUE, TRUE)
           m == MapPlain(NextYear(y), c1, keep)
           o == LoadConstant(m, y.const[r])
           c2 == Conditions(r, c.is32, c.dirty \/ r # R0, TRUE, TRUE)
<1>0. c \in RequestType /\ r \in Reg /\ c.is32 \in BOOLEAN /\ c.dirty \in BOOLEAN
  BY RequestFacts DEF Allowed
<1>1. Good(y, p) /\ Beside(s, y, r, keep)
  BY NextYearGood
<1> HIDE DEF y
<1>2. CASE ~Constant(s, c)
  <2>1. MapRegister(s, c, keep) = MapPlain(y, c, keep)
    BY <1>2 DEF MapRegister, y
  <2>2. Answers(y, MapPlain(y, c, keep), c, p, keep)
    BY <1>1, MapPlainGood
  <2>3. QED
    BY <1>1, <2>1, <2>2, AnswersAfter
<1>3. CASE Constant(s, c)
  <2>1. MapRegister(s, c, keep) = MapPlain(o, c2, keep)
    BY <1>3 DEF MapRegister, MapOneConstantToRegister, y
  <2>2. /\ Allowed(c1, p, keep) /\ c1.mips = r
        /\ Allowed(c2, p, keep) /\ c2.mips = r /\ c2.is32 = c.is32
        /\ c2.dirty = (c.dirty \/ r # R0)
    BY <1>0 DEF Allowed, Conditions, RequestType
  <2>3. Good(NextYear(y), p) /\ Beside(y, NextYear(y), r, keep)
    BY <1>1, NextYearGood
  <2> HIDE DEF c1, c2
  <2>4. Answers(NextYear(y), m, c1, p, keep)
    BY <2>2, <2>3, MapPlainGood
  <2>5. Good(m.s, p) /\ Beside(NextYear(y), m.s, r, keep)
    BY <2>2, <2>4 DEF Answers
  <2> HIDE DEF m
  <2>6. Typed(o) /\ Same(m.s, o)
    BY <2>5, LoadConstantSame DEF Good
  <2> HIDE DEF o
  <2>7. Good(o, p) /\ Beside(m.s, o, r, keep)
    BY <2>5, <2>6, SameGood, BesideSame DEF Same, Rest
  <2>8. Answers(o, MapPlain(o, c2, keep), c2, p, keep)
    BY <2>2, <2>7, MapPlainGood
  <2>9. Beside(s, o, r, keep)
    <3>1. Beside(s, NextYear(y), r, keep)
      BY <1>1, <2>3, BesideTransitive
    <3>2. Beside(s, m.s, r, keep)
      BY <2>5, <3>1, BesideTransitive
    <3>3. QED
      BY <2>7, <3>2, BesideTransitive
  <2>10. Answers(s, MapPlain(o, c2, keep), c2, p, keep)
    BY <2>2, <2>8, <2>9, AnswersAfter
  <2>11. Answers(s, MapPlain(o, c2, keep), c, p, keep)
    BY <2>2, <2>10 DEF Answers
  <2>12. QED
    BY <2>1, <2>11
<1>4. QED
  BY <1>2, <1>3

----------------------------------------------------------------------------
(* Calls, and the end of an instruction.                                   *)

\* The entries of the map that stay.
Spared(s, t, k) ==
    \A j \in Host : s.map[j].mips \in Reg /\ j # k /\ s.map[j].hi # k => t.map[j] = s.map[j]

\* PUSH_RegIfMapped may unmap a clean register; no other is lost.
LEMMA PushGood ==
    ASSUME NEW s, NEW p, Good(s, p), NEW k \in Host
    PROVE  LET t == PushIfMapped(s, k)
           IN  Good(t, p) /\ Less(s, t, Reg) /\ t.const = s.const /\ Spared(s, t, k)
<1> DEFINE owner == IF s.map[k].mips = HighWord THEN CHOOSE j \in Mapped(s) : s.map[j].hi = k ELSE k
           u == FlushRegister(s, owner)
           v == [s EXCEPT !.stack[k] = s.host[k]]
           t == PushIfMapped(s, k)
<1>0. Typed(s) /\ Consistent(s.map, s.const) /\ s.dead \subseteq Reg
  BY DEF Good, Typed
<1>1. t = IF s.map[k].mips = Unused THEN s
          ELSE IF BlockAnalysis /\ s.map[owner].mips \in s.dead \ s.now /\ ~s.map[owner].dirty
          THEN u ELSE v
  BY DEF PushIfMapped
<1>2. CASE t = s
  BY <1>2 DEF Less, Spared
<1>3. CASE t = v
  <2>1. Typed(v) /\ Same(s, v)
    BY <1>0, SetOther
  <2> HIDE DEF v, t
  <2>2. Good(t, p)
    BY <1>3, <2>1, SameGood
  <2>3. t.map = s.map /\ t.const = s.const
    BY <1>3, <2>1 DEF Same, Rest
  <2>4. QED
    BY <2>2, <2>3 DEF Less, Spared, t
<1>4. CASE t = u /\ s.map[k].mips # Unused /\ s.map[owner].mips \in Reg
  <2>1. owner \in Host /\ (owner = k \/ s.map[owner].hi = k)
    <3>1. CASE s.map[k].mips = HighWord
      <4>1. \E j \in Mapped(s) : s.map[j].hi = k
        BY <1>0, <3>1 DEF Consistent, Mapped
      <4>2. owner \in Mapped(s) /\ s.map[owner].hi = k
        BY <3>1, <4>1
      <4>3. QED
        BY <4>2 DEF Mapped
    <3>2. CASE s.map[k].mips # HighWord
      BY <3>2
    <3>3. QED
      BY <3>1, <3>2
  <2> HIDE DEF owner, t
  <2>2. /\ Good(t, p) /\ Less(s, t, {s.map[owner].mips}) /\ t.const = s.const
    BY <1>4, <2>1, FlushGood
  <2>3. Less(s, t, Reg)
    <3>1. {s.map[owner].mips} \subseteq Reg
      BY <1>4
    <3>2. QED
      BY <2>2, <3>1, LessMore
  <2>4. ASSUME NEW j \in Host, s.map[j].mips \in Reg, j # k, s.map[j].hi # k
        PROVE  t.map[j] = s.map[j]
    <3>1. j # owner
      BY <2>1, <2>4
    <3>2. s.map[j].mips # s.map[owner].mips
      BY <1>0, <1>4, <2>1, <2>4, <3>1 DEF Consistent
    <3>3. QED
      BY <2>2, <2>4, <3>2 DEF Less
  <2>5. QED
    BY <2>2, <2>3, <2>4 DEF Spared, t
<1>5. QED
  <2> HIDE DEF t, u, v, owner
  <2>1. s.map[owner].mips \in s.dead \ s.now => s.map[owner].mips \in Reg
    BY <1>0
  <2>2. QED
    BY <1>1, <1>2, <1>3, <1>4, <2>1 DEF t

\* Restoring a host register leaves the tables alone,
LEMMA PopSame ==
    ASSUME NEW s, Typed(s), NEW k
    PROVE  Typed(PopIfMapped(s, k)) /\ Same(s, PopIfMapped(s, k))
<1>1. Same(s, s)
  BY DEF Same, Rest
<1>2. LET t == [s EXCEPT !.host[k] = s.stack[k]] IN Typed(t) /\ Same(s, t)
  BY SetOther
<1>3. QED
  BY <1>1, <1>2 DEF PopIfMapped

\* and so does a called function.
LEMMA ClobberSame ==
    ASSUME NEW s, Typed(s), NEW ks
    PROVE  Typed(Clobber(s, ks)) /\ Same(s, Clobber(s, ks))
BY DEF Clobber, Typed, Same, Rest

\* The birth dates are natural numbers after they have been renamed.
LEMMA SettledGood ==
    ASSUME NEW s, NEW p, Good(s, p)
    PROVE  Good(Settled(s), p)
<1> DEFINE years == {s.map[k].birth : k \in Mapped(s)}
           rank == [y \in years |-> Cardinality({z \in years : z < y})]
           Birth(k) == IF k \in Mapped(s) THEN Cardinality({z \in years : z < s.map[k].birth})
                       ELSE FirstYear
           new == [k \in Host |-> [s.map[k] EXCEPT !.birth = Birth(k)]]
           t == Settled(s)
<1>0. Typed(s) /\ s.map \in MapType /\ Consistent(s.map, s.const) /\ s.errors = {}
  BY DEF Good, Typed
<1>1. IsFiniteSet(years)
  <2> DEFINE f == [k \in Mapped(s) |-> s.map[k].birth]
  <2>1. IsFiniteSet(Mapped(s))
    <3>1. Mapped(s) \in SUBSET Host
      BY DEF Mapped
    <3>2. QED
      BY <3>1, HostSize, FS_Subset
  <2>2. f \in Surjection(Mapped(s), years)
    BY DEF Surjection
  <2>3. QED
    BY <2>1, <2>2, FS_Surjection
<1>2. Cardinality(years) \in Nat
  BY <1>1, FS_CardinalityType
<1>3. ASSUME NEW k \in Host PROVE Birth(k) \in Nat
  <2> DEFINE before == {z \in years : z < s.map[k].birth}
  <2>1. before \in SUBSET years
    OBVIOUS
  <2> HIDE DEF years
  <2>2. Cardinality(before) \in Nat
    BY <1>1, <2>1, FS_Subset, FS_CardinalityType
  <2>3. QED
    BY <2>2 DEF FirstYear
<1>4. t = [s EXCEPT !.map = new, !.year = Cardinality(years), !.now = {},
                    !.stack = [k \in Host |-> NoConst]]
  BY DEF Settled
<1> HIDE DEF years, Birth
<1>5. ASSUME NEW k \in Host
      PROVE  /\ new[k] \in EntryType /\ new[k].mips = s.map[k].mips /\ new[k].hi = s.map[k].hi
             /\ new[k].is32 = s.map[k].is32
  <2>1. s.map[k] \in EntryType
    BY <1>0 DEF MapType
  <2>2. QED
    BY <1>3, <2>1 DEF EntryType
<1>6. new \in MapType
  BY <1>5 DEF MapType
<1> HIDE DEF new, t
<1>7. Typed(t) /\ t.map = new /\ t.const = s.const /\ t.errors = s.errors
  BY <1>0, <1>2, <1>4, <1>6 DEF Typed
<1>8. Consistent(new, s.const)
  BY <1>0, <1>5 DEF Consistent
<1>9. Good(t, p)
  BY <1>0, <1>5, <1>7, <1>8 DEF Good
<1>10. QED
  BY <1>9 DEF t

----------------------------------------------------------------------------
(* The interpreter's functions leave the tables alone.                     *)

\* From s to t only the machine changes.
Plain(s, t) == Typed(t) /\ Same(s, t)

\* That keeps the invariant,
LEMMA PlainGood ==
    ASSUME NEW s, NEW p, Good(s, p), NEW t, Plain(s, t)
    PROVE  Good(t, p)
BY SameGood DEF Plain

\* changing nothing is such a step,
LEMMA PlainTyped ==
    ASSUME NEW s, NEW p, Good(s, p)
    PROVE  Typed(s) /\ Plain(s, s)
BY DEF Good, Plain, Same, Rest

\* and so are two of them.
LEMMA PlainTransitive ==
    ASSUME NEW s, NEW t, NEW u, Plain(s, t), Plain(t, u)
    PROVE  Plain(s, u)
BY SameTransitive DEF Plain

\* Its assignments.
LEMMA PlainAssignments ==
    ASSUME NEW s, Typed(s)
    PROVE  /\ Plain(s, s)
           /\ \A r, d : Plain(s, Set(s, r, d))
           /\ \A h, l : Plain(s, HiLo(s, h, l))
           /\ \A size, a, data : Plain(s, Store(s, size, a, data))
           /\ \A f, w : Plain(s, SetCell(s, f, w))
           /\ \A f, d : Plain(s, write_64bit_fpu_reg(s, f, d))
           /\ Plain(s, SET_ROUNDING(s))
           /\ \A f, w : Plain(s, SetCell(SET_ROUNDING(s), f, w))
           /\ \A f, d : Plain(s, write_64bit_fpu_reg(SET_ROUNDING(s), f, d))
           /\ \A holds : Plain(s, SetCondition(s, holds))
           /\ \A exit : Plain(s, Leave(s, exit))
<1>1. Plain(s, s)
  BY DEF Plain, Same, Rest
<1>2. \A r, d : Plain(s, Set(s, r, d))
  BY SetOther DEF Plain, Set
<1>3. \A h, l : Plain(s, HiLo(s, h, l))
  <2>1. ASSUME NEW h, NEW l PROVE Plain(s, HiLo(s, h, l))
    <3> DEFINE u == [s EXCEPT !.gpr[HI] = h]
               t == [u EXCEPT !.gpr[LO] = l]
    <3>1. Plain(s, u)
      BY SetOther DEF Plain
    <3>2. HiLo(s, h, l) = t
      BY DEF HiLo
    <3> HIDE DEF u
    <3>3. Plain(u, t)
      BY <3>1, SetOther DEF Plain
    <3>4. QED
      BY <3>1, <3>2, <3>3, PlainTransitive
  <2>2. QED
    BY <2>1
<1>4. \A size, a, data : Plain(s, Store(s, size, a, data))
  BY SetOther DEF Plain, Store
<1>5. \A u : Typed(u) => \A f, w : Plain(u, SetCell(u, f, w))
  BY SetOther DEF Plain, SetCell
<1>6. \A u : Typed(u) => \A f, d : Plain(u, write_64bit_fpu_reg(u, f, d))
  <2>1. ASSUME NEW u, Typed(u), NEW f, NEW d PROVE Plain(u, write_64bit_fpu_reg(u, f, d))
    <3> DEFINE v == SetCell(u, f, Low(d))
    <3>1. Plain(u, v)
      BY <1>5, <2>1
    <3> HIDE DEF v
    <3>2. Plain(v, SetCell(v, f + FR_reg_offset, High(d)))
      BY <1>5, <3>1 DEF Plain
    <3>3. write_64bit_fpu_reg(u, f, d) = SetCell(v, f + FR_reg_offset, High(d))
      BY DEF write_64bit_fpu_reg, v
    <3>4. QED
      BY <3>1, <3>2, <3>3, PlainTransitive
  <2>2. QED
    BY <2>1
<1>7. Plain(s, SET_ROUNDING(s))
  BY SetOther DEF Plain, SET_ROUNDING
<1>8. \A f, w : Plain(s, SetCell(SET_ROUNDING(s), f, w))
  BY <1>5, <1>7, PlainTransitive DEF Plain
<1>9. \A f, d : Plain(s, write_64bit_fpu_reg(SET_ROUNDING(s), f, d))
  BY <1>6, <1>7, PlainTransitive DEF Plain
<1>10. \A holds : Plain(s, SetCondition(s, holds))
  BY SetOther DEF Plain, SetCondition
<1>11. \A exit : Plain(s, Leave(s, exit))
  BY SetOther DEF Plain, Leave
<1>12. QED
  BY <1>1, <1>2, <1>3, <1>4, <1>5, <1>6, <1>7, <1>8, <1>9, <1>10, <1>11

\* An instruction of the interpreter's, with the fields its functions read.
Callable(i) ==
    \/ i.op \in IntegerOps \cup Variants
    \/ i.op \in FloatOps /\ i.fmt \in Formats /\ i.to \in Formats

\* The integer instructions of R4300i,
LEMMA InterpretPlain ==
    ASSUME NEW s, Typed(s), NEW i, i.op \in IntegerOps \cup Variants
    PROVE  Plain(s, Interpret(s, i))
<1>1. /\ Plain(s, r4300i_add(s, i)) /\ Plain(s, r4300i_sub(s, i))
      /\ Plain(s, r4300i_addi(s, i)) /\ Plain(s, r4300i_dadd(s, i))
      /\ Plain(s, r4300i_dsub(s, i)) /\ Plain(s, r4300i_daddi(s, i))
      /\ Plain(s, r4300i_dadd_32bit(s, i)) /\ Plain(s, r4300i_daddi_32bit(s, i))
  BY PlainAssignments DEF r4300i_add, r4300i_addi, r4300i_dadd, r4300i_dadd_32bit, r4300i_daddi,
      r4300i_daddi_32bit, r4300i_dsub, r4300i_sub
<1>2. /\ Plain(s, r4300i_and(s, i)) /\ Plain(s, r4300i_or(s, i))
      /\ Plain(s, r4300i_xor(s, i)) /\ Plain(s, r4300i_nor(s, i))
      /\ Plain(s, r4300i_andi(s, i)) /\ Plain(s, r4300i_ori(s, i))
      /\ Plain(s, r4300i_xori(s, i)) /\ Plain(s, r4300i_lui(s, i))
  BY PlainAssignments DEF r4300i_and, r4300i_andi, r4300i_lui, r4300i_nor, r4300i_or, r4300i_ori,
      r4300i_xor, r4300i_xori
<1>3. /\ Plain(s, r4300i_slt(s, i)) /\ Plain(s, r4300i_sltu(s, i))
      /\ Plain(s, r4300i_slti(s, i)) /\ Plain(s, r4300i_sltiu(s, i))
      /\ Plain(s, r4300i_sll(s, i)) /\ Plain(s, r4300i_srl(s, i))
      /\ Plain(s, r4300i_sra(s, i)) /\ Plain(s, r4300i_sllv(s, i))
  BY PlainAssignments DEF Sll, Sra, Srl, r4300i_sll, r4300i_sllv, r4300i_slt, r4300i_slti,
      r4300i_sltiu, r4300i_sltu, r4300i_sra, r4300i_srl
<1>4. /\ Plain(s, r4300i_srlv(s, i)) /\ Plain(s, r4300i_srav(s, i))
      /\ Plain(s, r4300i_dsll(s, i)) /\ Plain(s, r4300i_dsrl(s, i))
      /\ Plain(s, r4300i_dsra(s, i)) /\ Plain(s, r4300i_dsllv(s, i))
      /\ Plain(s, r4300i_dsrlv(s, i)) /\ Plain(s, r4300i_dsrav(s, i))
  BY PlainAssignments DEF Dsll, Dsra, Dsrl, Sra, Srl, r4300i_dsll, r4300i_dsllv, r4300i_dsra,
      r4300i_dsrav, r4300i_dsrl, r4300i_dsrlv, r4300i_srav, r4300i_srlv
<1>5. /\ Plain(s, r4300i_dsll32(s, i)) /\ Plain(s, r4300i_dsrl32(s, i))
      /\ Plain(s, r4300i_dsra32(s, i)) /\ Plain(s, r4300i_mfhi(s, i))
      /\ Plain(s, r4300i_mflo(s, i)) /\ Plain(s, r4300i_mthi(s, i))
      /\ Plain(s, r4300i_mtlo(s, i)) /\ Plain(s, r4300i_mult(s, i))
  BY PlainAssignments DEF Dsll, Dsra, Dsrl, Product, r4300i_dsll32, r4300i_dsra32, r4300i_dsrl32,
      r4300i_mfhi, r4300i_mflo, r4300i_mthi, r4300i_mtlo, r4300i_mult
<1>6. /\ Plain(s, r4300i_multu(s, i)) /\ Plain(s, r4300i_div(s, i))
      /\ Plain(s, r4300i_divu(s, i)) /\ Plain(s, r4300i_ddiv(s, i))
      /\ Plain(s, r4300i_ddivu(s, i)) /\ Plain(s, r4300i_dmult(s, i))
      /\ Plain(s, r4300i_dmultu(s, i)) /\ Plain(s, r4300i_lb(s, i))
  BY PlainAssignments DEF Divided, Product, r4300i_ddiv, r4300i_ddivu, r4300i_div, r4300i_divu,
      r4300i_dmult, r4300i_dmultu, r4300i_lb, r4300i_lh, r4300i_multu
<1>7. /\ Plain(s, r4300i_lbu(s, i)) /\ Plain(s, r4300i_sb(s, i))
      /\ Plain(s, r4300i_lh(s, i)) /\ Plain(s, r4300i_lhu(s, i))
      /\ Plain(s, r4300i_lw(s, i)) /\ Plain(s, r4300i_lwu(s, i))
      /\ Plain(s, r4300i_ld(s, i)) /\ Plain(s, r4300i_lwl(s, i))
  BY PlainAssignments DEF r4300i_lbu, r4300i_ld, r4300i_lh, r4300i_lhu, r4300i_lw, r4300i_lwl,
      r4300i_lwu, r4300i_sb, r4300i_sh
<1>8. /\ Plain(s, r4300i_lwr(s, i)) /\ Plain(s, r4300i_ldl(s, i))
      /\ Plain(s, r4300i_ldr(s, i)) /\ Plain(s, r4300i_sh(s, i))
      /\ Plain(s, r4300i_sw(s, i)) /\ Plain(s, r4300i_sd(s, i))
      /\ Plain(s, r4300i_swl(s, i)) /\ Plain(s, r4300i_swr(s, i))
  BY PlainAssignments DEF r4300i_ldl, r4300i_ldr, r4300i_lwr, r4300i_sd, r4300i_sh, r4300i_sw,
      r4300i_swl, r4300i_swr
<1>9. /\ Plain(s, r4300i_sdl(s, i)) /\ Plain(s, r4300i_sdr(s, i))
      /\ Plain(s, r4300i_sc(s, i))
  <2> DEFINE u == IF i.sa = 1 THEN Store(s, "word", Address(s, i), lo(RT(s, i))) ELSE s
  <2>1. Plain(s, u)
    BY PlainAssignments
  <2>2. r4300i_sc(s, i) = Set(u, i.rt, i.sa)
    BY DEF r4300i_sc
  <2> HIDE DEF u
  <2>3. Plain(u, Set(u, i.rt, i.sa))
    BY <2>1, PlainAssignments DEF Plain
  <2>4. Plain(s, r4300i_sc(s, i))
    BY <2>1, <2>2, <2>3, PlainTransitive
  <2>5. QED
    BY <2>4, PlainAssignments DEF r4300i_sdl, r4300i_sdr
<1>10. QED
  BY <1>1, <1>2, <1>3, <1>4, <1>5, <1>6, <1>7, <1>8, <1>9 DEF Interpret, IntegerOps, Variants

\* and the floating-point ones of FPU.
LEMMA FloatPlain ==
    ASSUME NEW s, Typed(s), NEW i, i.op \in FloatOps, i.fmt \in Formats, i.to \in Formats
    PROVE  Plain(s, COP1_instr(s, i))
<1>1. /\ Plain(s, r4300i_COP1_mfc1(s, i)) /\ Plain(s, r4300i_COP1_dmfc1(s, i))
      /\ Plain(s, r4300i_COP1_mtc1(s, i)) /\ Plain(s, r4300i_COP1_dmtc1(s, i))
      /\ Plain(s, r4300i_COP1_cfc1(s, i)) /\ Plain(s, r4300i_lwc1(s, i))
      /\ Plain(s, r4300i_ldc1(s, i)) /\ Plain(s, r4300i_swc1(s, i))
      /\ Plain(s, r4300i_sdc1(s, i))
  BY PlainAssignments DEF r4300i_COP1_mfc1, r4300i_COP1_dmfc1, r4300i_COP1_mtc1,
      r4300i_COP1_dmtc1, r4300i_COP1_cfc1, r4300i_lwc1, r4300i_ldc1, r4300i_swc1, r4300i_sdc1
<1>2. Plain(s, r4300i_COP1_ctc1(s, i))
  <2> DEFINE w == lo(RT(s, i))
             u == [s EXCEPT !.con31 = w]
             v == [u EXCEPT !.rc = IF RM(w) = RM(s.con31) THEN s.rc ELSE RM(w)]
  <2>1. Plain(s, u)
    BY SetOther DEF Plain
  <2>2. r4300i_COP1_ctc1(s, i) = IF i.fs # CON31 THEN s ELSE v
    BY DEF r4300i_COP1_ctc1, Typed
  <2> HIDE DEF u
  <2>3. Plain(u, v)
    BY <2>1, SetOther DEF Plain
  <2> HIDE DEF v
  <2>4. QED
    BY <2>1, <2>2, <2>3, PlainTransitive, PlainAssignments
<1>3. /\ Plain(s, r4300i_COP1_binary_s(s, i)) /\ Plain(s, r4300i_COP1_unary_s(s, i))
      /\ Plain(s, r4300i_COP1_binary_d(s, i)) /\ Plain(s, r4300i_COP1_unary_d(s, i))
      /\ Plain(s, r4300i_COP1_mov_s(s, i)) /\ Plain(s, r4300i_COP1_mov_d(s, i))
  BY PlainAssignments DEF r4300i_COP1_binary_s, r4300i_COP1_unary_s, r4300i_COP1_binary_d,
      r4300i_COP1_unary_d, r4300i_COP1_mov_s, r4300i_COP1_mov_d, Single, Dbl
<1>4. Plain(s, r4300i_COP1_div_d(s, i))
  BY <1>3, PlainAssignments DEF r4300i_COP1_div_d
<1>5. Plain(s, r4300i_C_cond_fmt_s(s, i)) /\ Plain(s, r4300i_C_cond_fmt_d(s, i))
  BY PlainAssignments DEF r4300i_C_cond_fmt_s, r4300i_C_cond_fmt_d, r4300i_C_cond_fmt
<1>6. Plain(s, r4300i_COP1_cvt(s, i)) /\ (i.op \in Methods \cup {"cvt"} => Plain(s, Convert(s, i)))
  <2>1. \A method : Plain(s, ToInteger(s, i, method))
    BY PlainAssignments DEF ToInteger
  <2>2. Plain(s, r4300i_COP1_cvts(s, i)) /\ Plain(s, r4300i_COP1_cvtd(s, i))
    BY PlainAssignments DEF r4300i_COP1_cvts, r4300i_COP1_cvtd
  <2>3. /\ Plain(s, r4300i_COP1_trunc(s, i)) /\ Plain(s, r4300i_COP1_floor(s, i))
        /\ Plain(s, r4300i_COP1_round(s, i)) /\ Plain(s, r4300i_COP1_ceil(s, i))
        /\ Plain(s, r4300i_COP1_cvtw_cvtl(s, i))
    BY <2>1 DEF r4300i_COP1_trunc, r4300i_COP1_floor, r4300i_COP1_round, r4300i_COP1_ceil,
        r4300i_COP1_cvtw_cvtl
  <2>4. Plain(s, r4300i_COP1_cvt(s, i))
    BY <2>2, <2>3 DEF r4300i_COP1_cvt, Formats
  <2>5. QED
    BY <2>3, <2>4 DEF Convert, Methods
<1>7. CASE i.op \in FloatLoads \cup FloatMoves
  BY <1>1, <1>2, <1>7 DEF COP1_instr, FloatLoads, FloatMoves
<1>8. CASE i.op \notin FloatLoads \cup FloatMoves
  <2>1. i.op \in FloatBinary \cup FloatUnary \cup Methods \cup {"fmov", "c", "cvt"}
    BY <1>8 DEF FloatOps
  <2>2. COP1_instr(s, i) = ByFormat(s, i)
    BY <1>8 DEF COP1_instr, FloatLoads, FloatMoves
  <2>3. Plain(s, COP1_S_instr(s, i))
    BY <1>3, <1>5, <1>6, <2>1 DEF COP1_S_instr
  <2>4. Plain(s, COP1_D_instr(s, i))
    BY <1>3, <1>4, <1>5, <1>6, <2>1 DEF COP1_D_instr
  <2>5. QED
    BY <1>6, <2>2, <2>3, <2>4 DEF ByFormat, COP1_W_L_instr, Formats
<1>9. QED
  BY <1>7, <1>8

\* An interpreter's function called from a block.
LEMMA CallPlain ==
    ASSUME NEW s, Typed(s), NEW i, Callable(i)
    PROVE  Plain(s, Call(s, i))
<1>1. CASE i.op \in FloatOps
  <2>1. i.fmt \in Formats /\ i.to \in Formats
    BY <1>1 DEF Callable, IntegerOps, Variants, FloatOps, FloatLoads, FloatMoves, FloatBinary,
        FloatUnary, Methods
  <2>2. QED
    BY <1>1, <2>1, FloatPlain DEF Call, InterpretAny
<1>2. CASE i.op \notin FloatOps
  BY <1>2, InterpretPlain DEF Call, InterpretAny, Callable
<1>3. QED
  BY <1>1, <1>2

----------------------------------------------------------------------------
(* Assignments, calls and requests.                                        *)

\* What the emitted code does to the machine keeps the invariant,
LEMMA AssignmentsGood ==
    ASSUME NEW p
    PROVE  /\ \A s, k, w : Good(s, p) => Good(Mov(s, k, w), p)
           /\ \A s, r, d : Good(s, p) => Good(Set(s, r, d), p)
           /\ \A s, f, w : Good(s, p) => Good(SetCell(s, f, w), p)
           /\ \A s, size, a, data : Good(s, p) => Good(Store(s, size, a, data), p)
           /\ \A s, holds : Good(s, p) => Good(SetCondition(s, holds), p)
           /\ \A s, exit : Good(s, p) => Good(Leave(s, exit), p)
           /\ \A s, ks : Good(s, p) => Good(Clobber(s, ks), p)
           /\ \A s, k : Good(s, p) => Good(PopIfMapped(s, k), p)
           /\ \A s, m, w : Good(s, p) => Good(PutLo(s, m, w), p)
           /\ \A s, m, w, h, is32 : Good(s, p) => Good(Put(s, m, w, h, is32), p)
           /\ \A s, m, k : Good(s, p) => Good(Restore(s, m, k), p)
           /\ \A s : Good(s, p) => Good(cop1_with_exception(s), p)
<1>1. \A s : Good(s, p) => Typed(s)
  BY DEF Good
<1>2. \A s, k, w : Good(s, p) => Good(Mov(s, k, w), p)
  BY <1>1, MovSame, SameGood
<1>3. \A s, k : Good(s, p) => Good(PopIfMapped(s, k), p)
  BY <1>1, PopSame, SameGood
<1>4. \A s, ks : Good(s, p) => Good(Clobber(s, ks), p)
  BY <1>1, ClobberSame, SameGood
<1>5. /\ \A s, r, d : Good(s, p) => Good(Set(s, r, d), p)
      /\ \A s, f, w : Good(s, p) => Good(SetCell(s, f, w), p)
      /\ \A s, size, a, data : Good(s, p) => Good(Store(s, size, a, data), p)
      /\ \A s, holds : Good(s, p) => Good(SetCondition(s, holds), p)
      /\ \A s, exit : Good(s, p) => Good(Leave(s, exit), p)
  BY <1>1, PlainAssignments, PlainGood
<1>6. /\ \A s, m, w : Good(s, p) => Good(PutLo(s, m, w), p)
      /\ \A s, m, w, h, is32 : Good(s, p) => Good(Put(s, m, w, h, is32), p)
  BY <1>2 DEF PutLo, Put
<1>7. \A s, m, k : Good(s, p) => Good(Restore(s, m, k), p)
  BY <1>3 DEF Restore
<1>8. ASSUME NEW s, Good(s, p) PROVE Good(cop1_with_exception(s), p)
  <2> DEFINE u == [s EXCEPT !.flushed = [r \in Reg |-> r = R0]]
             t == [u EXCEPT !.year = FirstYear]
  <2>1. Typed(u) /\ Same(s, u)
    BY <1>1, <1>8, SetOther
  <2>2. cop1_with_exception(s) = t
    BY DEF cop1_with_exception
  <2> HIDE DEF u
  <2>3. Typed(t) /\ Same(u, t)
    BY <2>1 DEF Typed, Same, Rest, FirstYear
  <2>4. QED
    BY <1>8, <2>1, <2>2, <2>3, SameTransitive, SameGood
<1>9. QED
  BY <1>2, <1>3, <1>4, <1>5, <1>6, <1>7, <1>8

\* and so do the other operations of the register cache.
LEMMA CacheGood ==
    ASSUME NEW p
    PROVE  /\ \A s : \A r \in Reg : Good(s, p) => Good(FreeMipsRegister(s, r), p)
           /\ \A s, value : \A r \in Reg : Good(s, p) => Good(MapConst(s, r, value), p)
           /\ \A s : \A r \in Reg : Good(s, p) => Good(FlushOneConstant(s, r), p)
           /\ \A s : \A r \in Reg : Good(s, p) => Good(WriteBack(s, r), p)
           /\ \A s : \A r \in Reg : Good(s, p) => Good(FlushMips(s, r), p)
           /\ \A s : Good(s, p) => Good(FlushAllRegisters(s), p)
           /\ \A s : \A k \in Host : Good(s, p) => Good(PushIfMapped(s, k), p)
           /\ \A s, m : \A k \in Host : Good(s, p) => Good(Save(s, m, k), p)
           /\ \A s : Good(s, p) => Good(PushMap(s), p)
           /\ \A s : Good(s, p) => Good(PopMap(s), p)
<1>1. \A s : \A r \in Reg : Good(s, p) => Good(FreeMipsRegister(s, r), p)
  BY FreeMipsGood
<1>2. \A s, value : \A r \in Reg : Good(s, p) => Good(MapConst(s, r, value), p)
  BY MapConstGood
<1>3. \A s : \A r \in Reg : Good(s, p) => Good(FlushOneConstant(s, r), p)
  BY FlushOneConstantGood
<1>4. ASSUME NEW s, NEW r \in Reg, Good(s, p) PROVE Good(WriteBack(s, r), p)
  <2>1. Where(s, r) # None => Where(s, r) \in Host /\ s.map[Where(s, r)].mips = r
    BY <1>4, WhereIs DEF Good
  <2>2. QED
    BY <1>4, <2>1, FlushGood DEF WriteBack
<1>5. \A s : \A r \in Reg : Good(s, p) => Good(FlushMips(s, r), p)
  BY <1>3, <1>4 DEF FlushMips
<1>6. \A s : Good(s, p) => Good(FlushAllRegisters(s), p)
  BY FlushAllGood
<1>7. \A s : \A k \in Host : Good(s, p) => Good(PushIfMapped(s, k), p)
  BY PushGood
<1>8. \A s, m : \A k \in Host : Good(s, p) => Good(Save(s, m, k), p)
  BY <1>7 DEF Save
<1>9. /\ \A s : Good(s, p) => Good(PushMap(s), p)
      /\ \A s : Good(s, p) => Good(PopMap(s), p)
  BY <1>7, HostFacts, AssignmentsGood DEF PushMap, PopMap
<1>10. QED
  BY <1>1, <1>2, <1>3, <1>4, <1>5, <1>6, <1>7, <1>8, <1>9

\* A request is allowed, whatever its operands: of words only while ECX is protected.
LEMMA RequestsGood ==
    ASSUME NEW p, p \subseteq {ECX}, NEW s, Good(s, p), NEW r \in Reg,
           NEW is32 \in BOOLEAN, is32 \/ p = {}, NEW a \in Reg, NEW b \in Reg
    PROVE  /\ LET c == Want(r, is32) IN Answers(s, MapRegister(s, c, {a, b}), c, p, {a, b})
           /\ LET c == Change(r, is32) IN Answers(s, MapRegister(s, c, {a, b}), c, p, {a, b})
           /\ LET c == Define(r, is32) IN Answers(s, MapRegister(s, c, {a, b}), c, p, {a, b})
           /\ LET c == DefineBoth(r, is32) IN Answers(s, MapRegister(s, c, {a, b}), c, p, {a, b})
           /\ LET c == Conditions(r, is32, TRUE, FALSE, TRUE)
              IN  Answers(s, MapRegister(s, c, {a, b}), c, p, {a, b})
<1>1. ASSUME NEW c \in RequestType, c.is32 = is32
      PROVE  Answers(s, MapRegister(s, c, {a, b}), c, p, {a, b})
  <2>1. Allowed(c, p, {a, b})
    BY <1>1 DEF Allowed
  <2>2. QED
    BY <2>1, MapRegisterGood
<1>2. ASSUME NEW dirty \in BOOLEAN, NEW noLo \in BOOLEAN, NEW noHi \in BOOLEAN
      PROVE  LET c == Conditions(r, is32, dirty, noLo, noHi)
             IN  c \in RequestType /\ c.is32 = is32
  BY DEF Conditions, RequestType
<1>3. QED
  BY <1>1, <1>2 DEF Want, Change, Define, DefineBoth

\* What the requests of the handlers leave.
LEMMA MapsGood ==
    ASSUME NEW p, p \subseteq {ECX}, NEW s, Good(s, p), NEW r \in Reg,
           NEW is32 \in BOOLEAN, is32 \/ p = {}, NEW a \in Reg, NEW b \in Reg
    PROVE  /\ Good(MapRegister(s, Want(r, is32), {a, b}).s, p)
           /\ Good(MapRegister(s, Change(r, is32), {a, b}).s, p)
           /\ Good(MapRegister(s, Define(r, is32), {a, b}).s, p)
           /\ Good(MapRegister(s, DefineBoth(r, is32), {a, b}).s, p)
           /\ Good(MapRegister(s, Conditions(r, is32, TRUE, FALSE, TRUE), {a, b}).s, p)
           /\ Good(MapTo(s, r, is32, {a, b}).s, p)
           /\ Good(Use(s, r, is32, {a, b}).s, p)
           /\ Good(MapIn(s, r, is32, {a, b}).s, p)
<1>1. /\ Good(MapRegister(s, Want(r, is32), {a, b}).s, p)
      /\ Good(MapRegister(s, Change(r, is32), {a, b}).s, p)
      /\ Good(MapRegister(s, Define(r, is32), {a, b}).s, p)
      /\ Good(MapRegister(s, DefineBoth(r, is32), {a, b}).s, p)
      /\ Good(MapRegister(s, Conditions(r, is32, TRUE, FALSE, TRUE), {a, b}).s, p)
  <2>1. \A m, c, keep : Answers(s, m, c, p, keep) => Good(m.s, p)
    BY DEF Answers
  <2>2. QED
    BY <2>1, RequestsGood
<1>2. Good(MapIn(s, r, is32, {a, b}).s, p)
  BY <1>1 DEF MapIn, Operand
<1>3. Good(MapTo(s, r, is32, {a, b}).s, p)
  BY <1>1 DEF MapTo, Operand
<1>4. Good(Use(s, r, is32, {a, b}).s, p)
  BY <1>3 DEF Use
<1>5. QED
  BY <1>1, <1>2, <1>3, <1>4

----------------------------------------------------------------------------
(* rd takes the host register of rt.                                       *)

\* A register leaves its host register, and the high word's too.
LEMMA DropEffect ==
    ASSUME NEW u, Typed(u), NEW k \in Host, u.map[k].hi \in Host
    PROVE  LET t == Drop(u, k)
           IN  Typed(t) /\ Rest(u, t) /\ Vacated(u.map, t.map, k)
<1> DEFINE e == [u.map[k] EXCEPT !.dirty = FALSE]
           v == [u EXCEPT !.map[k] = e]
           t == Drop(u, k)
<1>1. u.map \in MapType /\ u.map[k] \in EntryType
  BY EntryTyped DEF Typed
<1>2. e \in EntryType /\ e.hi = u.map[k].hi
  BY <1>1 DEF EntryType
<1>3. t = FlushRegister(v, k)
  BY HostFacts, <1>1 DEF Drop, Typed, EntryType
<1> HIDE DEF e
<1>4. Typed(v) /\ v.map = [u.map EXCEPT ![k] = e] /\ Rest(u, v)
  BY <1>2, SetEntry
<1> HIDE DEF v, t
<1>5. v.map[k] = e /\ \A j \in Host : j # k => v.map[j] = u.map[j]
  BY <1>1, <1>4 DEF MapType
<1>6. Typed(t) /\ Rest(v, t) /\ Vacated(v.map, t.map, k)
  BY <1>2, <1>3, <1>4, <1>5, FlushEffect
<1>7. Vacated(u.map, t.map, k)
  BY <1>2, <1>5, <1>6 DEF Vacated
<1>8. Rest(u, t)
  BY <1>4, <1>6 DEF Rest
<1>9. QED
  BY <1>6, <1>7, <1>8 DEF t

\* Map_RD_NE_RT once rt's high word is given up: r, mapped or not, is dropped,
\* and takes the host register k.
TakenOver(freed, k, r) ==
    [FreeMipsRegister(freed, r) EXCEPT
        !.map[k] = [@ EXCEPT !.mips = r, !.is32 = TRUE, !.hi = k, !.dirty = TRUE]]

\* It keeps the invariant when k holds rt alone.
LEMMA TakenOverGood ==
    ASSUME NEW s, NEW p, Good(s, p), NEW k \in Host, s.map[k].mips \in Reg,
           NEW r \in Reg, r # s.map[k].mips, r # R0,
           NEW freed, Typed(freed), Rest(s, freed),
           \A j \in Host : j # s.map[k].hi => freed.map[j] = s.map[j],
           s.map[k].hi = k => freed.map[k] = s.map[k],
           s.map[k].hi # k => freed.map[s.map[k].hi].mips = Unused
    PROVE  Good(TakenOver(freed, k, r), p)
<1> DEFINE h == s.map[k].hi
           u == [freed EXCEPT !.const[r] = NoConst]
           w == Where(s, r)
           old == FreeMipsRegister(freed, r)
           e == [old.map[k] EXCEPT !.mips = r, !.is32 = TRUE, !.hi = k, !.dirty = TRUE]
           t == TakenOver(freed, k, r)
           none == Entry(Unused, FALSE, FALSE, None, FirstYear)
           free1 == [j \in Host |-> IF j = k THEN none ELSE freed.map[j]]
           free2 == [j \in Host |-> IF j = k THEN none ELSE old.map[j]]
<1>1. Typed(s) /\ Consistent(s.map, s.const) /\ s.errors = {} /\ s.const[R0] = 0
  BY DEF Good, Consistent
<1>2. h \in Host /\ (h = k \/ s.map[h].mips = HighWord)
  BY <1>1 DEF Consistent
<1>3. /\ Typed(u) /\ u.map = freed.map /\ u.errors = {} /\ u.const[r] = NoConst
      /\ \A q \in Reg \ {r} : u.const[q] = s.const[q]
  BY <1>1, SetConst DEF Rest
<1>4. Where(freed, r) = w
  <2>1. \A j \in Host : freed.map[j].mips = r <=> s.map[j].mips = r
    BY <1>2, MarkFacts
  <2>2. QED
    BY <2>1 DEF Where, Holding
<1>5. old = Drop(u, w)
  BY <1>4 DEF FreeMipsRegister
<1>6. none.mips = Unused
  BY DEF Entry
<1> HIDE DEF h, u, w, none
<1>7. Consistent(free1, u.const)
  <2>1. free1[k].mips = Unused /\ free1[h].mips = Unused
    BY <1>2, <1>6 DEF h
  <2>2. \A j \in Host \ {k, h} : free1[j] = s.map[j]
    BY DEF h
  <2>3. \A q \in Reg : u.const[q] = s.const[q] \/ u.const[q] = NoConst
    BY <1>3
  <2>4. u.const[R0] = 0
    BY <1>1, <1>3, MarkFacts
  <2> HIDE DEF free1
  <2>5. QED
    BY <1>1, <2>1, <2>2, <2>3, <2>4, UnmapConsistent DEF h
<1>8. /\ Typed(old) /\ old.const = u.const /\ old.errors = {} /\ Consistent(free2, u.const)
      /\ \A j \in Host : free2[j].mips # r
      /\ \A j \in Host \ {k} : free2[j] = s.map[j] \/ free2[j].mips = Unused
      /\ \A j \in Host : s.map[j].mips = Protected => free2[j] = s.map[j]
  <2>0. \A j \in Host : free1[j].mips = r => s.map[j].mips = r
    BY <1>2, <1>6, MarkFacts DEF h
  <2>1. CASE w = None
    <3>1. old = u /\ free2 = free1
      BY <1>3, <1>5, <2>1 DEF Drop
    <3>2. \A j \in Host : s.map[j].mips # r
      BY <1>1, <2>1, WhereIs DEF w
    <3>3. QED
      BY <1>2, <1>3, <1>7, <2>0, <3>1, <3>2, MarkFacts DEF h
  <2>2. CASE w # None
    <3> DEFINE g == s.map[w].hi
    <3>1. w \in Host /\ s.map[w].mips = r
      BY <1>1, <2>2, WhereIs DEF w
    <3>2. w # k /\ w # h
      BY <1>2, <3>1, MarkFacts
    <3>3. g \in Host /\ (g = w \/ s.map[g].mips = HighWord) /\ g # h /\ g # k
      BY <1>1, <3>1, <3>2, MarkFacts DEF h, Consistent
    <3>4. u.map[w] = s.map[w]
      BY <1>3, <3>1, <3>2 DEF h
    <3>5. Typed(old) /\ Rest(u, old) /\ Vacated(u.map, old.map, w)
      BY <1>3, <1>5, <2>2, <3>1, <3>3, <3>4, DropEffect
    <3>6. free2[w].mips = Unused /\ free2[g].mips = Unused
      BY <3>1, <3>2, <3>3, <3>4, <3>5 DEF Vacated
    <3>7. \A j \in Host \ {w, g} : free2[j] = free1[j]
      BY <1>3, <3>4, <3>5 DEF Vacated
    <3>8. free1[w] = s.map[w]
      BY <3>1, <3>2 DEF h
    <3> HIDE DEF free1, free2, g
    <3>9. Consistent(free2, u.const)
      <4>1. free1[w].mips = r /\ free1[w].hi = g /\ u.const[R0] = 0
        BY <1>7, <3>1, <3>8 DEF g, Consistent
      <4>2. QED
        BY <1>7, <3>1, <3>6, <3>7, <4>1, UnmapConsistent
    <3>10. \A j \in Host : free2[j].mips # r
      <4>1. \A j \in Host : s.map[j].mips = r => j = w
        BY <1>1, <3>1 DEF Consistent
      <4>2. QED
        BY <2>0, <3>6, <3>7, <4>1, MarkFacts
    <3>11. \A j \in Host \ {k} : free1[j] = s.map[j] \/ free1[j].mips = Unused
      BY <1>2 DEF free1, h
    <3>12. \A j \in Host : s.map[j].mips = Protected => free1[j] = s.map[j]
      BY <1>2, MarkFacts DEF free1, h
    <3>13. QED
      BY <1>3, <3>1, <3>3, <3>5, <3>6, <3>7, <3>9, <3>10, <3>11, <3>12, MarkFacts DEF Rest
  <2>3. QED
    BY <2>1, <2>2
<1> HIDE DEF free1
<1>9. e \in EntryType /\ e.mips = r /\ e.is32 = TRUE /\ e.hi = k
  <2>1. old.map[k] \in EntryType
    BY <1>8, EntryTyped DEF Typed
  <2> HIDE DEF old
  <2>2. QED
    BY <2>1, MarkFacts DEF EntryType
<1>10. Typed(t) /\ t.map = [old.map EXCEPT ![k] = e] /\ Rest(old, t)
  <2>1. t = [old EXCEPT !.map[k] = e]
    BY DEF TakenOver
  <2> HIDE DEF e, t, old
  <2>2. QED
    BY <1>8, <1>9, <2>1, SetEntry
<1>11. t.map[k] = e /\ \A j \in Host : j # k => t.map[j] = free2[j]
  BY <1>8, <1>10 DEF Typed, MapType
<1>12. free2[k].mips = Unused
  BY <1>6
<1> HIDE DEF old, e, t, free2
<1>13. Consistent(t.map, u.const)
  <2>1. t.map[k].mips = r /\ t.map[k].hi = k /\ t.map[k].is32
    BY <1>9, <1>11
  <2>2. QED
    BY <1>3, <1>8, <1>11, <1>12, <2>1, MapConsistent
<1>14. \A j \in Host : t.map[j].mips = Protected <=> j \in p
  BY <1>8, <1>9, <1>11, MarkFacts DEF Good
<1>15. Good(t, p)
  BY <1>8, <1>10, <1>13, <1>14 DEF Good, Rest
<1>16. QED
  BY <1>15 DEF t

\* Map_RD_NE_RT keeps the invariant.
LEMMA MapRDNERTGood ==
    ASSUME NEW p, p \subseteq {ECX}, NEW s, Good(s, p), NEW i,
           i.rd \in Reg, i.rs \in Reg, i.rt \in Reg, i.rd # R0, i.rd # i.rt
    PROVE  Good(Map_RD_NE_RT(s, i).s, p)
<1> DEFINE k == Where(s, i.rt)
           h == s.map[k].hi
           e == [s.map[h] EXCEPT !.dirty = FALSE, !.mips = Unused]
           freed == IF h = k THEN s ELSE [s EXCEPT !.map[h] = e]
           m == MapRD(s, i, Define(i.rd, TRUE))
           o == MapTo(m.s, i.rt, TRUE, {i.rd, i.rs})
           takes == k # None /\ BlockAnalysis /\ ~s.map[k].dirty /\ i.rt \in s.dead
<1>1. Map_RD_NE_RT(s, i).s = IF takes THEN TakenOver(freed, k, i.rd) ELSE PutLo(o.s, m, o.lo)
  BY DEF Map_RD_NE_RT, MoveRT, RTMoved, TakenOver
<1>2. Good(PutLo(o.s, m, o.lo), p)
  <2>1. Good(m.s, p)
    BY MapsGood DEF MapRD
  <2>2. Good(o.s, p)
    BY <2>1, MapsGood
  <2>3. QED
    BY <2>2, AssignmentsGood
<1>3. ASSUME k # None PROVE Good(TakenOver(freed, k, i.rd), p)
  <2>1. Typed(s) /\ s.map \in MapType /\ Consistent(s.map, s.const)
    BY DEF Good, Typed
  <2>2. k \in Host /\ s.map[k].mips = i.rt
    BY <1>3, <2>1, WhereIs
  <2>3. h \in Host
    BY <2>1, <2>2 DEF Consistent
  <2>4. e \in EntryType /\ e.mips = Unused
    <3>1. s.map[h] \in EntryType
      BY <2>1, <2>3, EntryTyped
    <3>2. QED
      BY <3>1 DEF EntryType, Marks
  <2> HIDE DEF k, h, e
  <2>5. h # k => Typed(freed) /\ freed.map = [s.map EXCEPT ![h] = e] /\ Rest(s, freed)
    BY <2>1, <2>3, <2>4, SetEntry
  <2>6. /\ Typed(freed) /\ Rest(s, freed)
        /\ \A j \in Host : j # h => freed.map[j] = s.map[j]
        /\ h = k => freed.map[k] = s.map[k]
        /\ h # k => freed.map[h].mips = Unused
    BY <2>1, <2>3, <2>4, <2>5 DEF MapType, Rest
  <2> HIDE DEF freed
  <2>7. QED
    BY <2>2, <2>6, TakenOverGood DEF h
<1>4. QED
  BY <1>1, <1>2, <1>3

----------------------------------------------------------------------------
(* A host register is vacated, and protected.                              *)

\* Vacating a host register keeps the invariant, and it is unused afterwards.
LEMMA VacateGood ==
    ASSUME NEW s, Good(s, {}), NEW k \in Host
    PROVE  LET t == Vacate(s, k)
           IN  Good(t, {}) /\ t.map[k].mips = Unused /\ Less(s, t, Reg) /\ t.const = s.const
<1> DEFINE owners == {j \in Mapped(s) : j = k \/ s.map[j].hi = k}
           t == Vacate(s, k)
<1>1. Typed(s) /\ Consistent(s.map, s.const) /\ s.map[k].mips \in Reg \cup Marks
  BY EntryTyped DEF Good, Typed
<1>2. s.map[k].mips # Protected
  BY DEF Good
<1>3. CASE owners = {}
  <2>1. t = s
    BY <1>3 DEF Vacate
  <2>2. s.map[k].mips \notin Reg /\ \A j \in Host : s.map[j].mips \in Reg => s.map[j].hi # k
    BY <1>3 DEF Mapped
  <2>3. s.map[k].mips = Unused
    BY <1>1, <1>2, <2>2 DEF Consistent, Marks
  <2>4. QED
    BY <2>1, <2>3, LessSame DEF Same, Rest
<1>4. CASE owners # {}
  <2> DEFINE j == Max(owners)
  <2>1. owners \subseteq Host
    BY DEF Mapped
  <2>2. j \in owners
    BY <1>4, <2>1, MaxOfHost
  <2>3. t = FlushRegister(s, j)
    BY <1>4 DEF Vacate
  <2>4. j \in Host /\ s.map[j].mips \in Reg /\ (j = k \/ s.map[j].hi = k)
    BY <2>2 DEF Mapped
  <2> HIDE DEF j, owners
  <2>5. /\ Good(t, {}) /\ Less(s, t, {s.map[j].mips}) /\ t.const = s.const
        /\ t.map[j].mips = Unused
    BY <2>3, <2>4, FlushGood
  <2>6. t.map[k].mips = Unused
    <3>1. CASE j = k
      BY <2>5, <3>1
    <3>2. CASE j # k /\ t.map[k].mips # Unused
      <4>1. t.map[k] = s.map[k] /\ s.map[j].hi = k
        BY <2>4, <2>5, <3>2 DEF Less
      <4>2. t.map[k].mips = HighWord
        BY <1>1, <2>4, <3>2, <4>1 DEF Consistent
      <4>3. PICK l \in Host : t.map[l].mips \in Reg /\ t.map[l].hi = k
        BY <2>5, <4>2 DEF Good, Consistent
      <4>4. t.map[l] = s.map[l]
        BY <2>5, <4>3, MarkFacts DEF Less
      <4>5. l = j
        BY <1>1, <2>4, <4>1, <4>3, <4>4 DEF Consistent
      <4>6. QED
        BY <2>5, <4>3, <4>5, MarkFacts
    <3>3. QED
      BY <3>1, <3>2
  <2>7. Less(s, t, Reg)
    BY <2>4, <2>5, LessMore
  <2>8. QED
    BY <2>5, <2>6, <2>7
<1>5. QED
  BY <1>3, <1>4

\* An entry that is neither a register nor a high word can become any other such.
LEMMA MarkGood ==
    ASSUME NEW s, NEW p, Good(s, p), NEW k \in Host, s.map[k].mips \in {Unused, Protected},
           NEW e \in EntryType, e.mips \in {Unused, Protected},
           NEW q, q \ {k} = p \ {k}, k \in q <=> e.mips = Protected
    PROVE  Good([s EXCEPT !.map[k] = e], q)
<1> DEFINE t == [s EXCEPT !.map[k] = e]
<1>1. Typed(s) /\ s.map \in MapType /\ Consistent(s.map, s.const)
  BY DEF Good, Typed
<1>2. Typed(t) /\ t.map = [s.map EXCEPT ![k] = e] /\ Rest(s, t)
  BY <1>1, SetEntry
<1> HIDE DEF t
<1>3. t.map[k] = e /\ \A j \in Host : j # k => t.map[j] = s.map[j]
  BY <1>1, <1>2 DEF MapType
<1>4. Consistent(t.map, s.const)
  <2>0. /\ e.mips \notin Reg /\ e.mips # HighWord
        /\ s.map[k].mips \notin Reg /\ s.map[k].mips # HighWord
    BY MarkFacts
  <2>1. \A i, j \in Host : t.map[j].mips \in Reg /\ t.map[i].mips = t.map[j].mips => i = j
    BY <1>1, <1>3, <2>0 DEF Consistent
  <2>2. ASSUME NEW j \in Host, t.map[j].mips \in Reg
        PROVE  /\ t.map[j].mips # R0 => s.const[t.map[j].mips] = NoConst
               /\ t.map[j].hi \in Host
               /\ t.map[j].hi = j \/ t.map[t.map[j].hi].mips = HighWord
               /\ t.map[j].is32 <=> t.map[j].hi = j
               /\ \A i \in Host : i # j /\ t.map[i].mips \in Reg => t.map[i].hi # t.map[j].hi
    <3>1. j # k /\ t.map[j] = s.map[j] /\ s.map[j].mips \in Reg
      BY <1>3, <2>0, <2>2
    <3>2. s.map[j].hi \in Host /\ s.map[j].hi # k
      BY <1>1, <2>0, <3>1 DEF Consistent
    <3>3. QED
      BY <1>1, <1>3, <2>0, <3>1, <3>2 DEF Consistent
  <2>3. ASSUME NEW j \in Host, t.map[j].mips = HighWord
        PROVE  \E i \in Host : t.map[i].mips \in Reg /\ t.map[i].hi = j
    <3>1. s.map[j].mips = HighWord
      BY <1>3, <2>0, <2>3
    <3>2. PICK i \in Host : s.map[i].mips \in Reg /\ s.map[i].hi = j
      BY <1>1, <3>1 DEF Consistent
    <3>3. QED
      BY <1>3, <2>0, <3>2
  <2>4. QED
    BY <1>1, <2>1, <2>2, <2>3 DEF Consistent
<1>5. \A j \in Host : t.map[j].mips = Protected <=> j \in q
  BY <1>3, MarkFacts DEF Good
<1>6. QED
  BY <1>2, <1>4, <1>5 DEF Good, Rest, t

----------------------------------------------------------------------------
(* The handlers of DynaCPU.                                                *)

\* The registers of an instruction.
Fields(i) == i.rd \in Reg /\ i.rs \in Reg /\ i.rt \in Reg

\* What is asked of an operand's width has an answer.
LEMMA Truths ==
    ASSUME NEW s, NEW i, NEW r
    PROVE  Both32(s, i) \in BOOLEAN /\ CheckIs32Bit(s, r) \in BOOLEAN
BY DEF Both32, CheckIs32Bit

\* The requests of a handler, whichever of its registers stay mapped.
LEMMA HandlerMapsGood ==
    ASSUME NEW p, p \subseteq {ECX}, NEW i, Fields(i), NEW s, Good(s, p),
           NEW r \in Reg, NEW is32 \in BOOLEAN, is32 \/ p = {}
    PROVE  /\ Good(MapRD(s, i, Want(r, is32)).s, p) /\ Good(MapRD(s, i, Change(r, is32)).s, p)
           /\ Good(MapRD(s, i, Define(r, is32)).s, p) /\ Good(MapRD(s, i, DefineBoth(r, is32)).s, p)
           /\ Good(MapRD(s, i, Conditions(r, is32, TRUE, FALSE, TRUE)).s, p)
           /\ Good(MapRS(s, i, Want(r, is32)).s, p) /\ Good(MapRT(s, i, Want(r, is32)).s, p)
           /\ Good(MapRT(s, i, Change(r, is32)).s, p) /\ Good(MapRT(s, i, Define(r, is32)).s, p)
           /\ Good(MapRT(s, i, DefineBoth(r, is32)).s, p)
           /\ \A a, b \in {i.rd, i.rs, i.rt} :
                /\ Good(MapTo(s, r, is32, {a, b}).s, p)
                /\ Good(Use(s, r, is32, {a, b}).s, p)
                /\ Good(MapIn(s, r, is32, {a, b}).s, p)
<1>1. ASSUME NEW a \in {i.rd, i.rs, i.rt}, NEW b \in {i.rd, i.rs, i.rt}
      PROVE  /\ Good(MapTo(s, r, is32, {a, b}).s, p)
             /\ Good(Use(s, r, is32, {a, b}).s, p)
             /\ Good(MapIn(s, r, is32, {a, b}).s, p)
  <2>1. a \in Reg /\ b \in Reg
    BY DEF Fields
  <2>2. QED
    BY <2>1, MapsGood
<1>2. QED
  BY <1>1, MapsGood DEF Fields, MapRD, MapRS, MapRT

\* add and sub, wherever rd is an operand too.
LEMMA AdditionsGood ==
    ASSUME NEW s, Good(s, {}), NEW i, Fields(i), i.rd # R0, NEW sub
    PROVE  Good(MipsAdd(s, i, sub), {})
<1>1. Good(MipsAddOntoRT(s, i, sub), {})
  BY HandlerMapsGood, AssignmentsGood DEF MipsAddOntoRT, AddToRT, AddTo, Negated, Fields
<1>2. Good(MipsAddOntoRS(s, i, sub), {})
  BY HandlerMapsGood, AssignmentsGood DEF MipsAddOntoRS, AddToRS, AddTo, LeaRT, Lea,
      Fields
<1>3. i.rd # i.rt => Good(MipsAddFresh(s, i, sub), {})
  <2> DEFINE m == MapRD(s, i, Define(i.rd, TRUE))
             steal == Map_RD_NE_RT(m.s, i)
             a == Use(m.s, i.rs, TRUE, {i.rd, i.rt})
             a1 == PutLo(a.s, m, a.lo)
             b == Use(a1, i.rt, TRUE, {i.rd, i.rs})
  <2> SUFFICES ASSUME i.rd # i.rt PROVE Good(MipsAddFresh(s, i, sub), {})
    OBVIOUS
  <2>1. Good(m.s, {})
    BY HandlerMapsGood DEF Fields
  <2>2. Good(steal.s, {})
    BY <2>1, MapRDNERTGood DEF Fields
  <2>3. Good(a1, {})
    BY <2>1, HandlerMapsGood, AssignmentsGood DEF Fields
  <2>4. Good(b.s, {})
    BY <2>3, HandlerMapsGood DEF Fields
  <2>5. /\ \A w : Good(PutLo(m.s, m, w), {}) /\ Good(PutLo(steal.s, steal, w), {})
        /\ \A w : Good(PutLo(b.s, m, w), {})
    BY <2>1, <2>2, <2>4, AssignmentsGood
  <2>6. QED
    BY <2>3, <2>5 DEF MipsAddFresh, AddFresh, AddRS, AddRT, AddTo, FromRT, Doubled, Negated
<1>4. \A value : Good(MapConst(s, i.rd, value), {}) /\ Good(MapConst(FreeMipsRegister(s, i.rd), i.rd, value), {})
  BY CacheGood DEF Fields
<1>5. QED
  BY <1>1, <1>2, <1>3, <1>4, HandlerMapsGood, AssignmentsGood DEF MipsAdd, Doubled, Fields

\* addi and addiu.
LEMMA DoConstAddiGood ==
    ASSUME NEW s, Good(s, {}), NEW i, Fields(i)
    PROVE  Good(DoConstAddi(s, i), {})
BY HandlerMapsGood, AssignmentsGood, CacheGood DEF DoConstAddi, AddImm, LeaImm, Lea, Fields

\* slt and sltu, slti and sltiu.
LEMMA SetLessGood ==
    ASSUME NEW s, Good(s, {}), NEW i, Fields(i)
    PROVE  Good(SetLess(s, i), {}) /\ Good(SetLessI(s, i), {})
<1>1. \A less : Good(MapConst(s, i.rd, less), {}) /\ Good(MapConst(s, i.rt, less), {})
  BY CacheGood DEF Fields
<1>2. Good(SetLess(s, i), {})
  <2> DEFINE is32 == Both32(s, i)
             apart == i.rd \notin {i.rs, i.rt}
             narrow == is32 \/ apart
             m == MapRD(s, i, IF apart THEN Define(i.rd, narrow) ELSE Change(i.rd, narrow))
             x == MapRS(m.s, i, Want(i.rs, is32))
             y == MapRT(x.s, i, Want(i.rt, is32))
  <2>1. is32 \in BOOLEAN /\ narrow \in BOOLEAN
    BY Truths
  <2> HIDE DEF is32, narrow
  <2>2. Good(m.s, {})
    BY <2>1, HandlerMapsGood DEF Fields
  <2>3. Good(x.s, {})
    BY <2>1, <2>2, HandlerMapsGood DEF Fields
  <2>4. Good(y.s, {})
    BY <2>1, <2>3, HandlerMapsGood DEF Fields
  <2>5. \A w : Good(PutLo(y.s, m, w), {})
    BY <2>4, AssignmentsGood
  <2>6. \A w : Good(MapRD(PutLo(y.s, m, w), i, Change(i.rd, TRUE)).s, {})
    BY <2>5, HandlerMapsGood DEF Fields
  <2> HIDE DEF m, x, y
  <2>7. QED
    BY <1>1, <2>5, <2>6 DEF SetLess, LessM, LessX, LessXY, is32, narrow, m, x, y
<1>3. Good(SetLessI(s, i), {})
  <2> DEFINE is32 == CheckIs32Bit(s, i.rs)
             own == MapRT(s, i, Change(i.rt, is32))
             m == MapRT(s, i, Define(i.rt, TRUE))
             x == MapRS(m.s, i, Want(i.rs, is32))
  <2>1. is32 \in BOOLEAN
    BY Truths
  <2> HIDE DEF is32
  <2>2. Good(own.s, {}) /\ Good(m.s, {})
    BY <2>1, HandlerMapsGood DEF Fields
  <2>3. Good(x.s, {})
    BY <2>1, <2>2, HandlerMapsGood DEF Fields
  <2>4. \A w, h : Good(Put(own.s, own, w, h, is32), {}) /\ Good(PutLo(x.s, m, w), {})
    BY <2>2, <2>3, AssignmentsGood
  <2>5. QED
    BY <1>1, <2>4 DEF SetLessI, LessOwn, LessImm, LessImmX, is32
<1>4. QED
  BY <1>2, <1>3

\* and, or, xor and nor.
LEMMA GatesGood ==
    ASSUME NEW s, Good(s, {}), NEW i, Fields(i)
    PROVE  /\ Good(dyna4300i_special_and(s, i), {}) /\ Good(dyna4300i_special_or(s, i), {})
           /\ Good(dyna4300i_special_xor(s, i), {}) /\ Good(dyna4300i_special_nor(s, i), {})
<1> DEFINE is32 == Both32(s, i)
<1>0. is32 \in BOOLEAN
  BY Truths
<1> HIDE DEF is32
<1>1. \A w : Good(MapConst(s, i.rd, w), {})
  BY CacheGood DEF Fields
<1> DEFINE m == MapRD(s, i, Change(i.rd, is32))
           fresh == MapRD(s, i, DefineBoth(i.rd, is32))
<1>2. Good(m.s, {}) /\ Good(fresh.s, {})
  BY <1>0, HandlerMapsGood DEF Fields
<1>3. \A w, h : /\ Good(Put(m.s, m, w, h, is32), {}) /\ Good(PutLo(m.s, m, w), {})
  BY <1>2, AssignmentsGood
<1>4. \A w, h : /\ Good(Put(Use(m.s, i.rs, is32, {i.rd, i.rt}).s, m, w, h, is32), {})
                /\ Good(Put(MapIn(m.s, i.rs, is32, {i.rd, i.rt}).s, m, w, h, is32), {})
                /\ Good(Put(Use(m.s, i.rt, is32, {i.rd, i.rs}).s, m, w, h, is32), {})
                /\ Good(Put(MapIn(m.s, i.rt, is32, {i.rd, i.rs}).s, m, w, h, is32), {})
  <2>1. /\ Good(Use(m.s, i.rs, is32, {i.rd, i.rt}).s, {})
        /\ Good(MapIn(m.s, i.rs, is32, {i.rd, i.rt}).s, {})
        /\ Good(Use(m.s, i.rt, is32, {i.rd, i.rs}).s, {})
        /\ Good(MapIn(m.s, i.rt, is32, {i.rd, i.rs}).s, {})
    BY <1>0, <1>2, HandlerMapsGood DEF Fields
  <2>2. QED
    BY <2>1, AssignmentsGood
<1>5. ASSUME NEW a, Good(a.s, {}), NEW w1, NEW h1, NEW w, NEW h
      PROVE  LET t == Put(a.s, fresh, w1, h1, is32)
             IN  /\ Good(Put(Use(t, i.rt, is32, {i.rd, i.rs}).s, fresh, w, h, is32), {})
                 /\ Good(Put(MapIn(t, i.rt, is32, {i.rd, i.rs}).s, fresh, w, h, is32), {})
  <2> DEFINE t == Put(a.s, fresh, w1, h1, is32)
  <2>1. Good(t, {})
    BY <1>5, AssignmentsGood
  <2> HIDE DEF t
  <2>2. /\ Good(Use(t, i.rt, is32, {i.rd, i.rs}).s, {})
        /\ Good(MapIn(t, i.rt, is32, {i.rd, i.rs}).s, {})
    BY <1>0, <2>1, HandlerMapsGood DEF Fields
  <2>3. QED
    BY <2>2, AssignmentsGood DEF t
<1>6. /\ Good(Use(fresh.s, i.rs, is32, {i.rd, i.rt}).s, {})
      /\ Good(MapIn(fresh.s, i.rs, is32, {i.rd, i.rt}).s, {})
  BY <1>0, <1>2, HandlerMapsGood DEF Fields
<1> HIDE DEF m, fresh
<1>7. /\ Good(OntoRT(s, i, AndBits, is32, MapIn), {}) /\ Good(OntoRS(s, i, AndBits, is32, Use), {})
      /\ Good(OntoRT(s, i, OrBits, is32, MapIn), {}) /\ Good(OntoRS(s, i, OrBits, is32, Use), {})
      /\ Good(OntoRT(s, i, XorBits, is32, MapIn), {}) /\ Good(OntoRT(s, i, XorBits, is32, Use), {})
      /\ Good(OntoRS(s, i, XorBits, is32, Use), {})
      /\ Good(OntoRT(s, i, NorBits, is32, MapIn), {}) /\ Good(OntoRS(s, i, NorBits, is32, MapIn), {})
  BY <1>4 DEF OntoRT, OntoRS, Onto, GateOnto, GateInto, m
<1>8. /\ Good(Fresh(s, i, AndBits, is32, Use, MapIn), {}) /\ Good(Fresh(s, i, AndBits, is32, Use, Use), {})
      /\ Good(Fresh(s, i, OrBits, is32, Use, Use), {}) /\ Good(Fresh(s, i, XorBits, is32, Use, Use), {})
      /\ Good(Fresh(s, i, NorBits, is32, MapIn, MapIn), {})
  BY <1>5, <1>6 DEF Fresh, FreshRD, FreshRT, PutBoth, GateInto, fresh
<1>9. Good(XorConstOntoRT(s, i, is32), {})
  BY <1>3 DEF XorConstOntoRT, XorConst, m
<1>10. Good(dyna4300i_special_and(s, i), {}) /\ Good(dyna4300i_special_or(s, i), {})
  BY <1>1, <1>7, <1>8 DEF dyna4300i_special_and, dyna4300i_special_or, is32
<1>11. Good(dyna4300i_special_xor(s, i), {})
  BY <1>1, <1>7, <1>8, <1>9 DEF dyna4300i_special_xor, is32
<1>12. Good(dyna4300i_special_nor(s, i), {})
  BY <1>3, <1>7, <1>8 DEF dyna4300i_special_nor, Not, is32, m
<1>13. QED
  BY <1>10, <1>11, <1>12

\* andi, ori, xori and lui.
LEMMA GateImmGood ==
    ASSUME NEW s, Good(s, {}), NEW i, Fields(i)
    PROVE  /\ Good(dyna4300i_andi(s, i), {}) /\ Good(dyna4300i_ori(s, i), {})
           /\ Good(dyna4300i_xori(s, i), {}) /\ Good(dyna4300i_lui(s, i), {})
<1> DEFINE is32 == CheckIs32Bit(s, i.rs)
<1>0. is32 \in BOOLEAN
  BY Truths
<1> HIDE DEF is32
<1>1. \A w : Good(MapConst(s, i.rt, w), {})
  BY CacheGood DEF Fields
<1>2. Good(dyna4300i_andi(s, i), {})
  BY <1>1, HandlerMapsGood, AssignmentsGood DEF dyna4300i_andi, AndOwn, AndInto, AndRS, Fields
<1> DEFINE own == MapRT(s, i, Change(i.rt, is32))
           m == MapRT(s, i, DefineBoth(i.rt, is32))
           o == MapTo(m.s, i.rs, is32, {i.rd, i.rt})
<1>3. Good(own.s, {}) /\ Good(m.s, {})
  BY <1>0, HandlerMapsGood DEF Fields
<1>4. Good(o.s, {})
  BY <1>0, <1>3, HandlerMapsGood DEF Fields
<1>5. \A w, h : Good(PutLo(own.s, own, w), {}) /\ Good(Put(o.s, m, w, h, is32), {})
  BY <1>3, <1>4, AssignmentsGood
<1> HIDE DEF own, m, o
<1>6. Good(dyna4300i_ori(s, i), {}) /\ Good(dyna4300i_xori(s, i), {})
  BY <1>1, <1>5 DEF dyna4300i_ori, dyna4300i_xori, GateImm, GateOwn, GateRS, GateImmInto,
      is32, own, m, o
<1>7. Good(dyna4300i_lui(s, i), {})
  BY <1>1 DEF dyna4300i_lui
<1>8. QED
  BY <1>2, <1>6, <1>7

\* Calls of the interpreter keep the invariant.
LEMMA CallsGood ==
    ASSUME NEW s, Good(s, {}), NEW i, Callable(i)
    PROVE  /\ Good(INTERPRET(s, i), {})
           /\ Good(INTERPRET_NOFLUSH(s, i), {})
           /\ \A r \in Reg : Good(INTERPRET_FLUSH1(s, i, r), {})
           /\ Fields(i) => Good(INTERPRET_LOADSTORE(s, i), {})
<1>1. \A t : Good(t, {}) => Good(Call(t, i), {})
  BY CallPlain, PlainGood DEF Good
<1>2. Good(INTERPRET(s, i), {})
  BY <1>1, CacheGood, AssignmentsGood DEF INTERPRET
<1>3. \A t : Good(t, {}) => Good(PopMap(Clobber(Call(PushMap(t), i), {EAX, ECX, EDX})), {})
  BY <1>1, CacheGood, AssignmentsGood
<1>4. Good(INTERPRET_NOFLUSH(s, i), {})
  BY <1>3 DEF INTERPRET_NOFLUSH
<1>5. ASSUME NEW r \in Reg PROVE Good(INTERPRET_FLUSH1(s, i, r), {})
  BY <1>3, CacheGood DEF INTERPRET_FLUSH1, INTERPRET_NOFLUSH
<1>6. Fields(i) => Good(FlushOperands(s, i), {})
  BY CacheGood DEF FlushOperands, Fields
<1>7. Fields(i) => Good(INTERPRET_LOADSTORE(s, i), {})
  BY <1>3, <1>6 DEF INTERPRET_LOADSTORE
<1>8. QED
  BY <1>2, <1>4, <1>5, <1>7

\* The shifts by a constant.
LEMMA ShiftsGood ==
    ASSUME NEW s, Good(s, {}), NEW i, Fields(i)
    PROVE  /\ Good(dyna4300i_special_shift(s, i), {})
           /\ Good(dyna4300i_special_dsll32(s, i), {})
           /\ Good(dyna4300i_special_dsra32(s, i), {})
<1>1. Good(dyna4300i_special_shift(s, i), {})
  <2> DEFINE m == IF i.rd = i.rt THEN MapRD(s, i, Change(i.rd, TRUE)) ELSE Map_RD_NE_RT(s, i)
  <2>1. i.rd # R0 => Good(m.s, {})
    BY HandlerMapsGood, MapRDNERTGood DEF Fields
  <2>2. i.rd # R0 => \A w : Good(PutLo(m.s, m, w), {})
    BY <2>1, AssignmentsGood
  <2>3. \A w : Good(MapConst(s, i.rd, w), {})
    BY CacheGood DEF Fields
  <2> HIDE DEF m
  <2>4. QED
    BY <2>2, <2>3 DEF dyna4300i_special_shift, Shifted, m
<1>2. Good(dyna4300i_special_dsll32(s, i), {})
  <2> DEFINE own == MapRD(s, i, Conditions(i.rd, FALSE, TRUE, FALSE, TRUE))
             new == MapRD(s, i, DefineBoth(i.rd, FALSE))
             o == MapIn(new.s, i.rt, TRUE, {i.rd, i.rs})
  <2>1. Good(own.s, {}) /\ Good(new.s, {})
    BY HandlerMapsGood DEF Fields
  <2>2. Good(o.s, {})
    BY <2>1, HandlerMapsGood DEF Fields
  <2>3. \A w, h : Good(Put(own.s, own, w, h, FALSE), {}) /\ Good(Put(o.s, new, w, h, FALSE), {})
    BY <2>1, <2>2, AssignmentsGood
  <2> HIDE DEF own, new, o
  <2>4. QED
    BY <2>3 DEF dyna4300i_special_dsll32, Up, UpRT, own, new, o
<1>3. Good(dyna4300i_special_dsra32(s, i), {})
  <2> DEFINE own == MapRD(s, i, Define(i.rd, FALSE))
             new == MapRD(s, i, Define(i.rd, TRUE))
             o == MapIn(new.s, i.rt, FALSE, {i.rd, i.rs})
  <2>1. Good(own.s, {}) /\ Good(new.s, {})
    BY HandlerMapsGood DEF Fields
  <2>2. Good(o.s, {})
    BY <2>1, HandlerMapsGood DEF Fields
  <2>3. \A w, h : Good(Put(own.s, own, w, h, FALSE), {}) /\ Good(PutLo(o.s, new, w), {})
    BY <2>1, <2>2, AssignmentsGood
  <2>4. \A w, h : Good(MapRD(Put(own.s, own, w, h, FALSE), i, Define(i.rd, TRUE)).s, {})
    BY <2>3, HandlerMapsGood DEF Fields
  <2> HIDE DEF own, new, o
  <2>5. QED
    BY <2>3, <2>4 DEF dyna4300i_special_dsra32, Down, DownRT, own, new, o
<1>4. QED
  BY <1>1, <1>2, <1>3

\* The shifts by a register, while ECX is protected,
LEMMA ShiftVarProtected ==
    ASSUME NEW s, Good(s, {ECX}), NEW i, Fields(i), i.rd # R0
    PROVE  Good(ShiftVar(s, i), {ECX})
<1> DEFINE own == MapRD(s, i, Change(i.rd, TRUE))
           x == MapRS(own.s, i, Want(i.rs, TRUE))
           y == MapRT(own.s, i, Want(i.rt, TRUE))
           new == MapRD(s, i, Define(i.rd, TRUE))
           b == MapRS(new.s, i, Want(i.rs, TRUE))
           cl == Mov(b.s, ECX, b.s.host[b.x])
           q == MapRT(new.s, i, Want(i.rt, TRUE))
           steal == Map_RD_NE_RT(cl, i)
<1>1. Good(own.s, {ECX}) /\ Good(new.s, {ECX})
  BY HandlerMapsGood DEF Fields
<1>2. Good(x.s, {ECX}) /\ Good(y.s, {ECX})
  BY <1>1, HandlerMapsGood DEF Fields
<1>3. Good(b.s, {ECX}) /\ Good(q.s, {ECX})
  BY <1>1, HandlerMapsGood DEF Fields
<1>4. Good(cl, {ECX})
  BY <1>3, AssignmentsGood
<1>5. i.rd # i.rt => Good(steal.s, {ECX})
  BY <1>4, MapRDNERTGood DEF Fields
<1> HIDE DEF own, x, y, new, b, cl, q, steal
<1>6. \A t, m, a, w : Good(t, {ECX}) => Good(PutLo(Mov(t, ECX, a), m, w), {ECX})
  BY AssignmentsGood
<1>7. \A t, m, w : Good(t, {ECX}) => Good(PutLo(t, m, w), {ECX})
  BY AssignmentsGood
<1>8. CASE i.rd = i.rt
  BY <1>1, <1>2, <1>6, <1>8 DEF ShiftVar, ShiftOwn, ByRS, By, own, x
<1>9. CASE i.rd # i.rt /\ i.rd = i.rs
  BY <1>1, <1>2, <1>6, <1>9 DEF ShiftVar, ShiftRD, ByRD, By, own, y
<1>10. CASE i.rd # i.rt /\ i.rd # i.rs
  <2> DEFINE moved == IF IsConst(cl, i.rt)
                      THEN [s |-> PutLo(cl, new, cl.const[i.rt]), x |-> new.x, hi |-> new.hi]
                      ELSE steal
  <2>1. Good(moved.s, {ECX})
    BY <1>4, <1>5, <1>7, <1>10
  <2> HIDE DEF moved
  <2>2. \A a, w : /\ Good(PutLo(new.s, new, w), {ECX}) /\ Good(PutLo(q.s, new, w), {ECX})
                 /\ Good(PutLo(Mov(q.s, ECX, a), new, w), {ECX})
                 /\ Good(PutLo(Mov(moved.s, ECX, a), moved, w), {ECX})
    BY <1>1, <1>3, <1>6, <1>7, <2>1
  <2>3. QED
    BY <1>10, <2>2 DEF ShiftVar, ShiftFresh, AmountToCL, MoveToCL, ByCL, ByRT, By, Own,
      moved, new, b, cl, q, steal
<1>11. QED
  BY <1>8, <1>9, <1>10

\* which is vacated before and free after.
LEMMA ShiftVarGood ==
    ASSUME NEW s, Good(s, {}), NEW i, Fields(i)
    PROVE  Good(dyna4300i_shift_var(s, i), {})
<1> DEFINE t == Vacate(s, ECX)
           e == Entry(Protected, TRUE, FALSE, ECX, t.map[ECX].birth)
           u == [t EXCEPT !.map[ECX] = e]
           v == ShiftVar(u, i)
           f == [v.map[ECX] EXCEPT !.mips = Unused]
           w == [v EXCEPT !.map[ECX] = f]
<1> SUFFICES ASSUME i.rd # R0 PROVE Good(dyna4300i_shift_var(s, i), {})
  BY DEF dyna4300i_shift_var
<1>1. Good(t, {}) /\ t.map[ECX].mips = Unused
  BY HostFacts, VacateGood
<1> HIDE DEF t
<1>2. e \in EntryType /\ e.mips = Protected
  <2>1. t.map[ECX].birth \in Nat
    BY <1>1, HostFacts, EntryTyped DEF Good, Typed
  <2>2. QED
    BY <2>1, HostFacts DEF Entry, EntryType, Marks
<1>3. dyna4300i_shift_var(s, i) = w
  BY <1>1 DEF dyna4300i_shift_var, t, Good, Typed
<1> HIDE DEF e, v
<1>4. Good(u, {ECX})
  BY <1>1, <1>2, HostFacts, MarkGood
<1> HIDE DEF u
<1>5. Good(v, {ECX})
  BY <1>4, ShiftVarProtected DEF v
<1>6. f \in EntryType /\ f.mips = Unused /\ v.map[ECX].mips = Protected
  <2>1. v.map[ECX] \in EntryType /\ v.map[ECX].mips = Protected
    BY <1>5, HostFacts, EntryTyped DEF Good, Typed
  <2>2. QED
    BY <2>1 DEF EntryType, Marks
<1> HIDE DEF f
<1>7. Good(w, {})
  BY <1>5, <1>6, HostFacts, MarkFacts, MarkGood
<1>8. QED
  BY <1>3, <1>7

\* LO and HI are moved like any other register, always as a pair.
LEMMA MovesGood ==
    ASSUME NEW s, Good(s, {}), NEW i, Fields(i), i.op \in {"mfhi", "mflo", "mthi", "mtlo"}
    PROVE  Good(dyna4300i_mf_mt(s, i), {})
<1>1. ASSUME NEW d \in Reg, NEW r \in Reg PROVE Good(Move(s, d, r, {i.rt}), {})
  <2> DEFINE m == MapRegister(s, DefineBoth(d, FALSE), {i.rt, r})
             o == Use(m.s, r, FALSE, {i.rt, d})
  <2>1. Good(m.s, {})
    BY MapsGood DEF Fields
  <2>2. Good(o.s, {})
    BY <2>1, MapsGood DEF Fields
  <2>3. Move(s, d, r, {i.rt}) = Put(o.s, m, o.lo, o.hi, FALSE)
    <3>1. {i.rt} \cup {r} = {i.rt, r} /\ {i.rt} \cup {d} = {i.rt, d}
      OBVIOUS
    <3>2. QED
      BY <3>1 DEF Move, MoveInto, PutBoth
  <2>4. QED
    BY <2>2, <2>3, AssignmentsGood
<1>2. QED
  BY <1>1, MarkFacts DEF dyna4300i_mf_mt, Fields

\* A load keeps the invariant, wherever the address comes from.
LEMMA LoadCallsGood ==
    ASSUME NEW s, Good(s, {}), NEW i, NEW m, NEW a
    PROVE  /\ Good(LoadInto(s, i, m, a), {}) /\ Good(ReadCall(s, i, m, a), {})
           /\ Good(ReadCallEAX(s, i, m, a), {}) /\ Good(MemoryCase1(s, i, m, a), {})
<1>1. \A t : Good(t, {}) => Good(LoadInto(t, i, m, a), {})
  BY AssignmentsGood DEF LoadInto
<1>2. Good(ReadCall(s, i, m, a), {})
  BY <1>1, HostFacts, CacheGood, AssignmentsGood DEF ReadCall
<1>3. Good(ReadCallEAX(s, i, m, a), {})
  BY <1>1, HostFacts, CacheGood, AssignmentsGood DEF ReadCallEAX
<1>4. Good(MemoryCase1(s, i, m, a), {})
  <2> DEFINE called == Clobber(Save(s, m, EAX), {EAX} \cup (IF EAX \in {m.x, m.hi} THEN {} ELSE {m.x}))
             cut == IF i.op = "ld" \/ m.x = ECX THEN called
                    ELSE PopIfMapped(Clobber(PushIfMapped(called, ECX), {ECX}), ECX)
  <2>1. Good(called, {})
    BY HostFacts, CacheGood, AssignmentsGood
  <2> HIDE DEF called
  <2>2. Good(cut, {})
    BY <2>1, HostFacts, CacheGood, AssignmentsGood
  <2> HIDE DEF cut
  <2>3. Good(Restore(LoadInto(cut, i, m, a), m, EAX), {})
    BY <1>1, <2>2, AssignmentsGood
  <2>4. QED
    BY <2>3 DEF MemoryCase1, called, cut
<1>5. QED
  BY <1>1, <1>2, <1>3, <1>4

\* The loads, from a constant address and from a register.
LEMMA LoadsGood ==
    ASSUME NEW s, Good(s, {}), NEW i, Fields(i)
    PROVE  Good(Load(s, i), {})
<1> DEFINE is32 == i.op # "ld"
<1>0. is32 \in BOOLEAN
  OBVIOUS
<1> HIDE DEF is32
<1>1. Good(LoadConst(s, i), {})
  <2> DEFINE c == IF is32 THEN Define(i.rt, TRUE) ELSE DefineBoth(i.rt, FALSE)
             m == MapRT(s, i, c)
             any == MapRegister(s, c, {})
  <2>1. Good(m.s, {})
    BY HandlerMapsGood DEF Fields
  <2>2. Good(any.s, {})
    <3>1. c \in RequestType
      BY DEF Fields, Define, DefineBoth, Conditions, RequestType
    <3>2. Allowed(c, {}, {})
      BY <3>1, MarkFacts DEF Allowed
    <3> HIDE DEF c
    <3>3. QED
      BY <3>2, MapRegisterGood DEF Answers
  <2> HIDE DEF c, m, any
  <2>3. \A a : /\ Good(LoadInto(m.s, i, m, a), {}) /\ Good(LoadInto(any.s, i, any, a), {})
              /\ Good(ReadCallEAX(m.s, i, m, a), {}) /\ Good(ReadCall(m.s, i, m, a), {})
    BY <2>1, <2>2, LoadCallsGood
  <2>4. QED
    BY <2>3 DEF LoadConst, ReadConst, LoadHere, c, m, any, is32
<1>2. Good(LoadMapped(s, i), {})
  <2> DEFINE m == MapRT(s, i, IF i.rt = i.rs THEN Change(i.rt, is32)
                              ELSE IF is32 THEN Define(i.rt, TRUE) ELSE DefineBoth(i.rt, FALSE))
             o == MapTo(m.s, i.rs, TRUE, {i.rd, i.rt})
             x == MapRS(m.s, i, Want(i.rs, is32))
  <2>1. Good(m.s, {})
    BY <1>0, HandlerMapsGood DEF Fields
  <2>2. Good(o.s, {}) /\ Good(x.s, {})
    BY <1>0, <2>1, HandlerMapsGood DEF Fields
  <2> HIDE DEF m, o, x
  <2>3. \A a : /\ Good(ReadCallEAX(o.s, i, m, a), {}) /\ Good(ReadCall(o.s, i, m, a), {})
              /\ Good(ReadCall(x.s, i, m, a), {}) /\ Good(MemoryCase1(x.s, i, m, a), {})
    BY <2>2, LoadCallsGood
  <2>4. QED
    BY <2>3 DEF LoadMapped, LoadRT, ReadAt, ReadThrough, m, o, x, is32
<1>3. QED
  BY <1>1, <1>2 DEF Load

\* The stores; sw may be done in place.
LEMMA StoresGood ==
    ASSUME NEW s, Good(s, {}), NEW i, Fields(i)
    PROVE  /\ \A size : Good(StoreCall(s, i, size), {})
           /\ Good(dyna4300i_sw(s, i), {})
<1>1. ASSUME NEW size PROVE Good(StoreCall(s, i, size), {})
  <2> DEFINE t == PushIfMapped(PushIfMapped(FlushMips(s, i.rt), EAX), ECX)
  <2>1. Good(t, {})
    BY HostFacts, CacheGood DEF Fields
  <2> HIDE DEF t
  <2>2. \A z, a, data : Good(PopIfMapped(PopIfMapped(Store(Clobber(t, {EAX, ECX}), z, a, data), ECX), EAX), {})
    BY <2>1, AssignmentsGood
  <2>3. QED
    BY <2>2 DEF StoreCall, StoreFrom, t
<1>2. Good(dyna4300i_sw(s, i), {})
  <2> DEFINE m == MapRT(s, i, Want(i.rt, TRUE))
             zero == Clobber(PushIfMapped(s, EAX), {EAX})
  <2>1. Good(m.s, {}) /\ Good(zero, {})
    BY HostFacts, HandlerMapsGood, CacheGood, AssignmentsGood DEF Fields
  <2> HIDE DEF m, zero
  <2>2. \A a, w : /\ Good(PopIfMapped(Store(zero, "word", a, w), EAX), {})
                 /\ Good(Store(m.s, "word", a, w), {})
    BY <2>1, AssignmentsGood
  <2>3. QED
    BY <1>1, <2>2 DEF dyna4300i_sw, StoreHere, m, zero
<1>3. QED
  BY <1>1, <1>2

----------------------------------------------------------------------------
(* The multiplier's registers.                                             *)

\* LO and HI are in no place.
Ready(s) ==
    /\ Good(s, {})
    /\ \A r \in {LO, HI} : s.const[r] = NoConst /\ \A k \in Host : s.map[k].mips # r

\* LO and HI are registers no instruction names.
LEMMA MultiplierFacts ==
    /\ LO \in Reg /\ HI \in Reg /\ LO # HI /\ LO # R0 /\ HI # R0
    /\ \A r \in Gpr \cup {R0} : r \in Reg /\ r # LO /\ r # HI
    /\ LO \notin Marks /\ HI \notin Marks
BY HostRegsAssumption, MarkFacts DEF Marks

\* Evictions give neither LO nor HI a place.
LEMMA ReadyLess ==
    ASSUME NEW s, Ready(s), NEW t, Good(t, {}), Less(s, t, Reg)
    PROVE  Ready(t)
<1>1. ASSUME NEW r \in {LO, HI} PROVE t.const[r] = NoConst /\ \A k \in Host : t.map[k].mips # r
  <2>1. r \in Reg /\ r # Unused
    BY MarkFacts
  <2>2. t.const[r] = NoConst
    BY <2>1 DEF Ready, Less
  <2>3. QED
    BY <2>1, <2>2 DEF Ready, Less
<1>2. QED
  BY <1>1 DEF Ready

\* Both are dropped first.
LEMMA ReadyFirst ==
    ASSUME NEW s, Good(s, {})
    PROVE  Ready(FreeMipsRegister(FreeMipsRegister(s, LO), HI))
<1> DEFINE t == FreeMipsRegister(s, LO)
           u == FreeMipsRegister(t, HI)
<1>1. Good(t, {}) /\ t.const[LO] = NoConst /\ \A k \in Host : t.map[k].mips # LO
  BY MultiplierFacts, FreeMipsGood
<1> HIDE DEF t
<1>2. /\ Good(u, {}) /\ u.const[HI] = NoConst /\ \A k \in Host : u.map[k].mips # HI
      /\ Less(t, u, {HI})
  BY <1>1, MultiplierFacts, FreeMipsGood
<1> HIDE DEF u
<1>3. u.const[LO] = NoConst /\ \A k \in Host : u.map[k].mips # LO
  BY <1>1, <1>2, MultiplierFacts, MarkFacts DEF Less
<1>4. QED
  BY <1>2, <1>3 DEF Ready, t, u

\* A host register is given to r.
LEMMA OwnedEffect ==
    ASSUME NEW s, Typed(s), NEW k \in Host, NEW r \in Reg
    PROVE  LET t == OwnedBy(s, k, r)
           IN  /\ Typed(t) /\ Rest(s, t)
               /\ t.map[k].mips = r /\ t.map[k].hi = k /\ t.map[k].is32
               /\ \A j \in Host : j # k => t.map[j] = s.map[j]
<1> DEFINE e == [s.map[k] EXCEPT !.mips = r, !.is32 = TRUE, !.dirty = TRUE, !.hi = k]
           t == OwnedBy(s, k, r)
<1>1. s.map \in MapType /\ s.map[k] \in EntryType
  BY EntryTyped DEF Typed
<1>2. e \in EntryType /\ e.mips = r /\ e.is32 = TRUE /\ e.hi = k
  BY <1>1 DEF EntryType
<1>3. t = [s EXCEPT !.map[k] = e]
  BY DEF OwnedBy
<1> HIDE DEF e, t
<1>4. Typed(t) /\ t.map = [s.map EXCEPT ![k] = e] /\ Rest(s, t)
  BY <1>2, <1>3, SetEntry
<1>5. QED
  BY <1>1, <1>2, <1>4 DEF MapType, t

\* A free host register is given to a register without a place.
LEMMA OwnedGood ==
    ASSUME NEW s, NEW p, Good(s, p), NEW k \in Host, s.map[k].mips = Unused,
           NEW r \in Reg, r # R0 => s.const[r] = NoConst, \A j \in Host : s.map[j].mips # r
    PROVE  LET t == OwnedBy(s, k, r)
           IN  /\ Good(t, p) /\ t.map[k].mips = r /\ t.const = s.const
               /\ \A j \in Host : j # k => t.map[j] = s.map[j]
<1> DEFINE t == OwnedBy(s, k, r)
<1>1. /\ Typed(t) /\ Rest(s, t)
      /\ t.map[k].mips = r /\ t.map[k].hi = k /\ t.map[k].is32
      /\ \A j \in Host : j # k => t.map[j] = s.map[j]
  BY OwnedEffect DEF Good
<1> HIDE DEF t
<1>2. Consistent(t.map, s.const)
  BY <1>1, MapConsistent DEF Good
<1>3. \A j \in Host : t.map[j].mips = Protected <=> j \in p
  BY <1>1, MarkFacts DEF Good
<1>4. QED
  BY <1>1, <1>2, <1>3 DEF Good, Rest, t

\* A pair becomes two registers.
LEMMA PairGood ==
    ASSUME NEW s, NEW p, Good(s, p), NEW k \in Host, s.map[k].mips = LO,
           NEW h, h = s.map[k].hi, h # k, s.const[HI] = NoConst,
           \A j \in Host : s.map[j].mips # HI,
           NEW r \in {LO, HI}, NEW q \in {LO, HI}, r # q
    PROVE  Good(OwnedBy(OwnedBy(s, h, r), k, q), p)
<1> DEFINE u == OwnedBy(s, h, r)
           t == OwnedBy(u, k, q)
           none == Entry(Unused, FALSE, FALSE, None, FirstYear)
           free == [j \in Host |-> IF j = k \/ j = h THEN none ELSE s.map[j]]
           half == [j \in Host |-> IF j = k THEN none ELSE u.map[j]]
<1>1. Typed(s) /\ Consistent(s.map, s.const) /\ s.map[k].mips \in Reg /\ s.const[R0] = 0
  BY MultiplierFacts DEF Good, Consistent
<1>2. h \in Host /\ s.map[h].mips = HighWord /\ r \in Reg /\ q \in Reg
  BY <1>1, MultiplierFacts DEF Consistent
<1>3. none.mips = Unused
  BY DEF Entry
<1>4. s.const[r] = NoConst /\ s.const[q] = NoConst
  BY <1>1, MultiplierFacts DEF Consistent
<1>5. \A j \in Host : s.map[j].mips = LO => j = k
  BY <1>1 DEF Consistent
<1> HIDE DEF none
<1>6. Consistent(free, s.const)
  <2>1. /\ free[k].mips = Unused /\ free[s.map[k].hi].mips = Unused
        /\ \A j \in Host \ {k, s.map[k].hi} : free[j] = s.map[j]
    BY <1>2, <1>3
  <2> HIDE DEF free
  <2>2. QED
    BY <1>1, <2>1, UnmapConsistent
<1> HIDE DEF free, half
<1>7. /\ Typed(u) /\ Rest(s, u)
      /\ u.map[h].mips = r /\ u.map[h].hi = h /\ u.map[h].is32
      /\ \A j \in Host : j # h => u.map[j] = s.map[j]
  <2>1. Typed(s) /\ h \in Host /\ r \in Reg
    BY <1>1, <1>2
  <2>2. QED
    BY <2>1, OwnedEffect
<1> HIDE DEF u
<1>8. Consistent(half, s.const)
  <2>1. /\ half[h].mips = r /\ half[h].hi = h /\ half[h].is32
        /\ \A j \in Host : j # h => half[j] = free[j]
    BY <1>2, <1>7 DEF half, free
  <2>2. free[h].mips = Unused /\ \A j \in Host : free[j].mips # r
    BY <1>2, <1>3, <1>5, MultiplierFacts DEF Marks, free
  <2>3. QED
    BY <1>2, <1>4, <1>6, <2>1, <2>2, MapConsistent
<1>9. /\ Typed(t) /\ Rest(u, t)
      /\ t.map[k].mips = q /\ t.map[k].hi = k /\ t.map[k].is32
      /\ \A j \in Host : j # k => t.map[j] = u.map[j]
  BY <1>2, <1>7, OwnedEffect
<1> HIDE DEF t
<1>10. Consistent(t.map, s.const)
  <2>1. \A j \in Host : j # k => t.map[j] = half[j]
    BY <1>9 DEF half
  <2>2. half[k].mips = Unused /\ \A j \in Host : half[j].mips # q
    BY <1>2, <1>3, <1>5, <1>7, MultiplierFacts DEF Marks, half
  <2>3. QED
    BY <1>2, <1>4, <1>8, <1>9, <2>1, <2>2, MapConsistent
<1>11. \A j \in Host : t.map[j].mips = Protected <=> j \in p
  BY <1>2, <1>7, <1>9, MarkFacts DEF Good
<1>12. QED
  BY <1>7, <1>9, <1>10, <1>11 DEF Good, Rest, t, u

\* mult and multu: LO is mapped as a pair, and stays so until the pair is split.
LEMMA MulGood ==
    ASSUME NEW s, Good(s, {}), NEW i, i.rs \in Gpr \cup {R0}, i.rt \in Gpr \cup {R0}
    PROVE  Good(dyna4300i_special_mul(s, i), {})
<1> DEFINE freed == FreeMipsRegister(FreeMipsRegister(s, LO), HI)
           m == MapRegister(freed, DefineBoth(LO, FALSE), {i.rs, i.rt})
           x == MapRegister(m.s, Want(i.rs, TRUE), {LO, i.rt})
           y == MapRegister(x.s, Want(i.rt, TRUE), {LO, i.rs})
           half == Save(y.s, m, EAX)
           saved == Save(half, m, EDX)
           product == WordProduct(i.op, saved.host[x.x], saved.host[y.x])
           k == m.x
           h == m.hi
           Paired(t) == /\ Good(t, {}) /\ t.map[k].mips = LO /\ t.map[k].hi = h
                        /\ t.const[HI] = NoConst /\ \A j \in Host : t.map[j].mips # HI
<1>1. i.rs \in Reg \ {LO, HI} /\ i.rt \in Reg \ {LO, HI} /\ LO \in Reg
  BY MultiplierFacts
<1>2. Ready(freed)
  BY ReadyFirst
<1> HIDE DEF freed
<1>3. k \in Host /\ h # k /\ Paired(m.s)
  <2> DEFINE c == DefineBoth(LO, FALSE)
  <2>1. Answers(freed, m, c, {}, {i.rs, i.rt})
    BY <1>1, <1>2, RequestsGood DEF Ready
  <2>2. c.mips = LO /\ ~c.is32
    BY DEF DefineBoth, Conditions
  <2> HIDE DEF c, m
  <2>3. /\ Good(m.s, {}) /\ k \in Host /\ m.s.map[k].mips = LO /\ h = m.s.map[k].hi /\ h # k
        /\ Beside(freed, m.s, LO, {i.rs, i.rt})
    BY <2>1, <2>2 DEF Answers
  <2>4. m.s.const[HI] = NoConst /\ \A j \in Host : m.s.map[j].mips # HI
    BY <1>2, <2>3, MultiplierFacts DEF Beside, Ready
  <2>5. QED
    BY <2>3, <2>4
<1> HIDE DEF m, k, h, Paired
<1>4. ASSUME NEW t, Paired(t), NEW r \in Reg \ {LO, HI}, NEW q \in Reg
      PROVE  Paired(MapRegister(t, Want(r, TRUE), {LO, q}).s)
  <2> DEFINE c == Want(r, TRUE)
             after == MapRegister(t, c, {LO, q})
  <2>1. Answers(t, after, c, {}, {LO, q})
    BY <1>1, <1>4, RequestsGood DEF Paired
  <2>2. c.mips = r
    BY DEF Want, Conditions
  <2> HIDE DEF c, after
  <2>3. Good(after.s, {}) /\ Beside(t, after.s, r, {LO, q})
    BY <2>1, <2>2 DEF Answers
  <2>4. after.s.map[k] = t.map[k]
    BY <1>3, <1>4, <2>3 DEF Beside, Paired
  <2>5. after.s.const[HI] = NoConst /\ \A j \in Host : after.s.map[j].mips # HI
    BY <1>4, <2>3, MultiplierFacts DEF Beside, Paired
  <2>6. QED
    BY <1>4, <2>3, <2>4, <2>5 DEF after, c, Paired
<1>5. Paired(y.s)
  BY <1>1, <1>3, <1>4
<1>6. ASSUME NEW t, Paired(t), NEW l \in Host PROVE Paired(Save(t, m, l))
  <2> DEFINE u == PushIfMapped(t, l)
  <2>1. CASE l \in {k, h}
    BY <1>6, <2>1 DEF Save, k, h
  <2>2. CASE l \notin {k, h}
    <3>1. Good(u, {}) /\ Less(t, u, Reg) /\ u.const = t.const /\ Spared(t, u, l)
      BY <1>6, PushGood DEF Paired
    <3> HIDE DEF u
    <3>2. u.map[k] = t.map[k]
      BY <1>1, <1>3, <1>6, <2>2, <3>1 DEF Spared, Paired
    <3>3. \A j \in Host : u.map[j].mips # HI
      BY <1>6, <3>1, MultiplierFacts DEF Less, Marks, Paired
    <3>4. Paired(u)
      BY <1>6, <3>1, <3>2, <3>3 DEF Paired
    <3>5. QED
      BY <2>2, <3>4 DEF Save, u, k, h
  <2>3. QED
    BY <2>1, <2>2
<1>7. Paired(saved)
  BY <1>5, <1>6, HostFacts
<1>8. Good(ProductInto(saved, m, product), {})
  <2> HIDE DEF saved, product
  <2> DEFINE ran == Mov(Mov(saved, EAX, Low(product)), EDX, High(product))
             swap == h = EAX \/ k = EDX
             put == IF swap THEN MoveBoth(ran, h, k) ELSE MoveBoth(ran, k, h)
             b == Restore(Restore(put, m, EDX), m, EAX)
  <2>1. Plain(saved, ran)
    <3>1. \A t, l, w : Typed(t) => Plain(t, Mov(t, l, w))
      BY MovSame DEF Plain
    <3>2. Typed(saved)
      BY <1>7 DEF Good, Paired
    <3>3. Plain(saved, Mov(saved, EAX, Low(product)))
      BY <3>1, <3>2
    <3>4. QED
      BY <3>1, <3>3, PlainTransitive DEF Plain
  <2> HIDE DEF ran
  <2>2. Plain(saved, put)
    <3>1. \A t, l, w : Plain(saved, t) => Plain(saved, Mov(t, l, w))
      BY MovSame, PlainTransitive DEF Plain
    <3>2. QED
      BY <2>1, <3>1 DEF MoveBoth
  <2> HIDE DEF put
  <2>3. Plain(saved, b)
    <3>1. \A t, l : Plain(saved, t) => Plain(saved, PopIfMapped(t, l))
      BY PopSame, PlainTransitive DEF Plain
    <3>2. QED
      BY <2>2, <3>1 DEF Restore
  <2> HIDE DEF b
  <2>4. Paired(b)
    <3>1. Good(b, {}) /\ b.map = saved.map /\ b.const = saved.const
      BY <1>7, <2>3, PlainGood DEF Plain, Same, Rest, Paired
    <3>2. QED
      BY <1>7, <3>1 DEF Paired
  <2>5. /\ Good(OwnedBy(OwnedBy(b, h, LO), k, HI), {})
        /\ Good(OwnedBy(OwnedBy(b, h, HI), k, LO), {})
    BY <1>3, <2>4, PairGood, MultiplierFacts DEF Paired
  <2>6. QED
    BY <2>5 DEF ProductInto, b, put, ran, swap, k, h
<1>9. QED
  BY <1>8 DEF dyna4300i_special_mul, Mul, MulX, MulXY, MulSaved, freed, m

\* The years of the map do not matter.
LEMMA BirthGood ==
    ASSUME NEW s, NEW p, Good(s, p), NEW k \in Host, NEW year \in Nat
    PROVE  Good([s EXCEPT !.map[k].birth = year], p)
<1> DEFINE e == [s.map[k] EXCEPT !.birth = year]
           t == [s EXCEPT !.map[k] = e]
<1>1. s.map \in MapType /\ s.map[k] \in EntryType
  BY EntryTyped DEF Good, Typed
<1>2. /\ e \in EntryType /\ e.mips = s.map[k].mips /\ e.hi = s.map[k].hi
      /\ e.is32 = s.map[k].is32
  BY <1>1 DEF EntryType
<1>3. [s EXCEPT !.map[k].birth = year] = t
  BY DEF Good, Typed
<1> HIDE DEF e
<1>4. Typed(t) /\ t.map = [s.map EXCEPT ![k] = e] /\ Rest(s, t)
  BY <1>2, SetEntry DEF Good
<1> HIDE DEF t
<1>5. \A j \in Host : /\ t.map[j].mips = s.map[j].mips /\ t.map[j].hi = s.map[j].hi
                     /\ t.map[j].is32 = s.map[j].is32
  BY <1>1, <1>2, <1>4 DEF MapType
<1>6. Consistent(t.map, s.const)
  BY <1>5 DEF Good, Consistent
<1>7. QED
  BY <1>3, <1>4, <1>5, <1>6 DEF Good, Rest

\* Writing the operands back takes nothing but registers away.
LEMMA FlushOperandsGood ==
    ASSUME NEW s, NEW p, Good(s, p), NEW i, Fields(i)
    PROVE  LET t == FlushOperands(s, i) IN Good(t, p) /\ Less(s, t, Reg)
<1>1. ASSUME NEW u, Good(u, p), Less(s, u, Reg), NEW r \in Reg
      PROVE  LET t == FlushOneConstant(u, r) IN Good(t, p) /\ Less(s, t, Reg)
  <2> DEFINE t == FlushOneConstant(u, r)
  <2>1. Good(t, p) /\ Less(u, t, {r})
    BY <1>1, FlushOneConstantGood
  <2> HIDE DEF t
  <2>2. Less(s, t, Reg \cup {r}) /\ Reg \cup {r} = Reg
    BY <1>1, <2>1, LessTransitive
  <2>3. QED
    BY <2>1, <2>2 DEF t
<1>2. ASSUME NEW u, Good(u, p), Less(s, u, Reg), NEW r \in Reg
      PROVE  LET t == WriteBack(u, r) IN Good(t, p) /\ Less(s, t, Reg)
  <2> DEFINE k == Where(u, r)
             t == FlushRegister(u, k)
  <2>1. CASE k = None
    BY <1>2, <2>1 DEF WriteBack
  <2>2. CASE k # None
    <3>1. k \in Host /\ u.map[k].mips = r
      BY <1>2, <2>2, WhereIs DEF Good
    <3> HIDE DEF k
    <3>2. Good(t, p) /\ Less(u, t, {r})
      BY <1>2, <3>1, FlushGood
    <3> HIDE DEF t
    <3>3. Less(s, t, Reg \cup {r}) /\ Reg \cup {r} = Reg
      BY <1>2, <3>2, LessTransitive
    <3>4. WriteBack(u, r) = t
      BY <2>2 DEF WriteBack, k, t
    <3>5. QED
      BY <3>2, <3>3, <3>4
  <2>3. QED
    BY <2>1, <2>2
<1>3. Less(s, s, Reg)
  BY LessSame DEF Same, Rest
<1>4. QED
  <2> DEFINE a == FlushOneConstant(s, i.rs)
             b == FlushOneConstant(a, i.rt)
             c == WriteBack(b, i.rs)
             d == WriteBack(c, i.rt)
  <2>1. Good(a, p) /\ Less(s, a, Reg)
    BY <1>1, <1>3 DEF Fields
  <2> HIDE DEF a
  <2>2. Good(b, p) /\ Less(s, b, Reg)
    BY <1>1, <2>1 DEF Fields
  <2> HIDE DEF b
  <2>3. Good(c, p) /\ Less(s, c, Reg)
    BY <1>2, <2>2 DEF Fields
  <2> HIDE DEF c
  <2>4. Good(d, p) /\ Less(s, d, Reg)
    BY <1>2, <2>3 DEF Fields
  <2>5. QED
    BY <2>4 DEF FlushOperands, a, b, c, d

\* div and divu: EAX and EDX, vacated, become LO and HI.
LEMMA QuotientGood ==
    ASSUME NEW s, Ready(s), s.map[EAX].mips = Unused, s.map[EDX].mips = Unused,
           NEW a, NEW b, NEW divisor
    PROVE  Good(QuotientInto(s, a, b, divisor), {})
<1> DEFINE ran == IF b = 0 THEN s
                  ELSE Mov(Mov(s, EAX, WordOf(Quot(a, b))), EDX, WordOf(Rem(a, b)))
           c == Mov(ran, ECX, divisor)
           l == OwnedBy(c, EAX, LO)
           h == OwnedBy(l, EDX, HI)
           e == [h EXCEPT !.map[EAX].birth = s.year]
           f == [e EXCEPT !.map[EDX].birth = s.year]
<1>1. Plain(s, c)
  <2>1. \A t, k, w : Typed(t) => Plain(t, Mov(t, k, w))
    BY MovSame DEF Plain
  <2>2. Plain(s, s)
    BY PlainTyped DEF Ready
  <2>3. \A t, k, w : Plain(s, t) => Plain(s, Mov(t, k, w))
    BY <2>1, PlainTransitive DEF Plain
  <2>4. QED
    BY <2>2, <2>3
<1>2. s.year \in Nat
  BY DEF Ready, Good, Typed
<1> HIDE DEF ran, c
<1>3. /\ Good(c, {}) /\ c.map[EAX].mips = Unused /\ c.map[EDX].mips = Unused
      /\ \A r \in {LO, HI} : c.const[r] = NoConst /\ \A k \in Host : c.map[k].mips # r
  <2>1. Good(c, {}) /\ c.map = s.map /\ c.const = s.const
    BY <1>1, PlainGood DEF Ready, Plain, Same, Rest
  <2>2. QED
    BY <2>1 DEF Ready
<1>4. /\ Good(l, {}) /\ l.map[EAX].mips = LO /\ l.const = c.const
      /\ \A j \in Host : j # EAX => l.map[j] = c.map[j]
  BY <1>3, HostFacts, MultiplierFacts, OwnedGood
<1> HIDE DEF l
<1>5. Good(h, {})
  <2>1. l.map[EDX].mips = Unused /\ l.const[HI] = NoConst
    BY <1>3, <1>4, HostFacts
  <2>2. \A j \in Host : l.map[j].mips # HI
    BY <1>3, <1>4, MultiplierFacts
  <2>3. QED
    BY <1>4, <2>1, <2>2, HostFacts, MultiplierFacts, OwnedGood
<1> HIDE DEF h
<1>6. Good(e, {})
  BY <1>2, <1>5, HostFacts, BirthGood
<1>7. [h EXCEPT !.map[EAX].birth = s.year, !.map[EDX].birth = s.year] = f
  OBVIOUS
<1> HIDE DEF e
<1>8. Good(f, {})
  BY <1>2, <1>6, HostFacts, BirthGood
<1> HIDE DEF f
<1>9. Good(PopIfMapped(f, ECX), {})
  BY <1>8, AssignmentsGood
<1>10. QED
  BY <1>7, <1>9 DEF QuotientInto, ran, c, l, h

\* div and divu: EAX, EDX and ECX are made ready, then LO and HI get theirs.
LEMMA DivGood ==
    ASSUME NEW s, Good(s, {}), NEW i, Fields(i)
    PROVE  Good(dyna4300i_special_div(s, i), {})
<1> DEFINE freed == FreeMipsRegister(FreeMipsRegister(s, LO), HI)
           a == FlushOperands(freed, i)
           b == Vacate(a, EAX)
           c == Vacate(b, EDX)
           t == PushIfMapped(c, ECX)
<1>1. Ready(freed)
  BY ReadyFirst
<1> HIDE DEF freed
<1>2. Ready(a)
  BY <1>1, FlushOperandsGood, ReadyLess DEF Ready
<1> HIDE DEF a
<1>3. Ready(b) /\ b.map[EAX].mips = Unused
  <2>1. Good(b, {}) /\ b.map[EAX].mips = Unused /\ Less(a, b, Reg)
    BY <1>2, HostFacts, VacateGood DEF Ready
  <2> HIDE DEF b
  <2>2. QED
    BY <1>2, <2>1, ReadyLess
<1> HIDE DEF b
<1>4. Ready(c) /\ c.map[EAX].mips = Unused /\ c.map[EDX].mips = Unused
  <2>1. Good(c, {}) /\ c.map[EDX].mips = Unused /\ Less(b, c, Reg)
    BY <1>3, HostFacts, VacateGood DEF Ready
  <2> HIDE DEF c
  <2>2. c.map[EAX].mips = Unused
    BY <1>3, <2>1, HostFacts DEF Less
  <2>3. QED
    BY <1>3, <2>1, <2>2, ReadyLess
<1> HIDE DEF c
<1>5. Ready(t) /\ t.map[EAX].mips = Unused /\ t.map[EDX].mips = Unused
  <2>1. Good(t, {}) /\ Less(c, t, Reg)
    BY <1>4, HostFacts, PushGood DEF Ready
  <2> HIDE DEF t
  <2>2. t.map[EAX].mips = Unused /\ t.map[EDX].mips = Unused
    BY <1>4, <2>1, HostFacts DEF Less
  <2>3. QED
    BY <1>4, <2>1, <2>2, ReadyLess
<1> HIDE DEF t
<1>6. \A x, y, d : Good(QuotientInto(t, x, y, d), {})
  BY <1>5, QuotientGood
<1>7. QED
  BY <1>6 DEF dyna4300i_special_div, freed, a, b, c, t

----------------------------------------------------------------------------
(* The dispatch table of the integer instructions.                         *)

\* What an instruction of a block reads and calls.
Runs(i) ==
    /\ Fields(i) /\ Callable(i)
    /\ i.rs \in Gpr \cup {R0} /\ i.rt \in Gpr \cup {R0}
    /\ i.op \in IntegerOps => \A v \in IntegerOps \cup Variants :
         LET j == [i EXCEPT !.op = v] IN Fields(j) /\ Callable(j)

\* The instructions of a block are such.
LEMMA InstructionRuns ==
    ASSUME NEW i \in Instruction
    PROVE  Runs(i) /\ i.op \in IntegerOps \cup FloatOps
<1> DEFINE Shape == [op : IntegerOps, rd : Gpr \cup {R0}, rs : Gpr \cup {R0},
                     rt : Gpr \cup {R0}, imm : Immediate, sa : 0 .. W - 1]
<1>1. Gpr \cup {R0} \subseteq Reg
  BY MarkFacts
<1>2. CASE i \in Shape
  <2>1. /\ i.op \in IntegerOps /\ i.rd \in Gpr \cup {R0} /\ i.rs \in Gpr \cup {R0}
        /\ i.rt \in Gpr \cup {R0}
    BY <1>2
  <2>2. ASSUME NEW v \in IntegerOps \cup Variants
        PROVE  LET j == [i EXCEPT !.op = v] IN Fields(j) /\ Callable(j)
    <3> DEFINE j == [i EXCEPT !.op = v]
    <3>1. j.op = v /\ j.rd = i.rd /\ j.rs = i.rs /\ j.rt = i.rt
      BY <1>2
    <3> HIDE DEF j
    <3>2. QED
      BY <1>1, <2>1, <2>2, <3>1 DEF Fields, Callable, j
  <2> HIDE DEF Shape
  <2>3. QED
    BY <1>1, <2>1, <2>2 DEF Runs, Fields, Callable
<1>3. CASE i \notin Shape
  <2>1. /\ i.op \in FloatOps /\ i.rd \in Gpr \cup {R0} /\ i.rs \in Gpr \cup {R0}
        /\ i.rt \in Gpr \cup {R0} /\ i.fmt \in Formats /\ i.to \in Formats
    BY <1>3 DEF Instruction
  <2>2. i.op \notin IntegerOps
    BY <2>1 DEF IntegerOps, FloatOps, FloatLoads, FloatMoves, FloatBinary, FloatUnary, Methods
  <2> HIDE DEF Shape
  <2>3. QED
    BY <1>1, <2>1, <2>2 DEF Runs, Fields, Callable
<1>4. QED
  BY <1>2, <1>3

\* The handlers that call one of several functions.
LEMMA ChoicesGood ==
    ASSUME NEW s, Good(s, {}), NEW i, Runs(i), i.op \in IntegerOps
    PROVE  /\ Good(dyna4300i_special_dadd(s, i), {}) /\ Good(dyna4300i_daddi(s, i), {})
           /\ Good(dyna4300i_special_sub(s, i), {}) /\ Good(dyna4300i_special_dsra(s, i), {})
           /\ Good(dyna4300i_special_dsrl32(s, i), {})
           /\ i.op \in {"ddiv", "ddivu"} => Good(dyna4300i_special_ddiv(s, i), {})
<1>1. \A j : Callable(j) => Good(INTERPRET(s, j), {})
  BY CallsGood
<1>2. Good(INTERPRET(s, i), {})
  BY <1>1 DEF Runs
<1>3. \A v \in IntegerOps \cup Variants :
        /\ Good(INTERPRET(s, [i EXCEPT !.op = v]), {})
        /\ Good(dyna4300i_special_div(s, [i EXCEPT !.op = v]), {})
  BY <1>1, DivGood DEF Runs
<1>4. Good(dyna4300i_special_dadd(s, i), {}) /\ Good(dyna4300i_daddi(s, i), {})
  <2>1. \A b : (IF b THEN "dadd_32bit" ELSE "dadd") \in IntegerOps \cup Variants
    BY DEF IntegerOps, Variants
  <2>2. \A b : (IF b THEN "daddi_32bit" ELSE "daddi") \in IntegerOps \cup Variants
    BY DEF IntegerOps, Variants
  <2>3. QED
    BY <1>3, <2>1, <2>2 DEF dyna4300i_special_dadd, dyna4300i_daddi
<1>5. Good(dyna4300i_special_sub(s, i), {})
  BY <1>2, AdditionsGood DEF dyna4300i_special_sub, Runs
<1>6. Good(dyna4300i_special_dsra(s, i), {})
  BY <1>2, ShiftsGood DEF dyna4300i_special_dsra, Runs
<1>7. Good(dyna4300i_special_dsrl32(s, i), {})
  BY <1>2, CacheGood DEF dyna4300i_special_dsrl32, Runs, Fields
<1>8. Good(dyna4300i_special_ddiv(s, i), {})
  <2>1. \A b : (IF b THEN "div" ELSE "divu") \in IntegerOps \cup Variants
    BY DEF IntegerOps, Variants
  <2>2. QED
    BY <1>2, <1>3, <2>1 DEF dyna4300i_special_ddiv
<1>9. QED
  BY <1>4, <1>5, <1>6, <1>7, <1>8

\* r0 gives up its host register.
LEMMA InitGood ==
    ASSUME NEW s, NEW p, Good(s, p), NEW i
    PROVE  Good(InitRdRsRt(s, i), p)
BY MarkFacts, CacheGood DEF InitRdRsRt

\* What is compiled for an integer instruction keeps the invariant.
LEMMA CompileIntegerGood ==
    ASSUME NEW s0, Good(s0, {}), NEW i, Runs(i), i.op \in IntegerOps
    PROVE  Good(CompileInteger(s0, i), {})
<1> DEFINE s == InitRdRsRt(s0, i)
<1>1. Good(s, {}) /\ Fields(i) /\ Callable(i)
  BY InitGood DEF Runs
<1> HIDE DEF s
<1>2. Good(dyna4300i_addi(s, i), {})
  BY <1>1, DoConstAddiGood DEF dyna4300i_addi
<1>3. /\ Good(dyna4300i_special_dadd(s, i), {}) /\ Good(dyna4300i_daddi(s, i), {})
      /\ Good(dyna4300i_special_sub(s, i), {}) /\ Good(dyna4300i_special_dsra(s, i), {})
      /\ Good(dyna4300i_special_dsrl32(s, i), {})
      /\ i.op \in {"ddiv", "ddivu"} => Good(dyna4300i_special_ddiv(s, i), {})
  BY <1>1, ChoicesGood
<1>4. /\ Good(dyna4300i_special_and(s, i), {}) /\ Good(dyna4300i_special_or(s, i), {})
      /\ Good(dyna4300i_special_xor(s, i), {}) /\ Good(dyna4300i_special_nor(s, i), {})
      /\ Good(dyna4300i_andi(s, i), {}) /\ Good(dyna4300i_ori(s, i), {})
      /\ Good(dyna4300i_xori(s, i), {}) /\ Good(dyna4300i_lui(s, i), {})
  BY <1>1, GatesGood, GateImmGood
<1>5. Good(dyna4300i_special_slt(s, i), {}) /\ Good(dyna4300i_slti(s, i), {})
  BY <1>1, SetLessGood DEF dyna4300i_special_slt, dyna4300i_slti
<1>6. /\ Good(dyna4300i_special_shift(s, i), {}) /\ Good(dyna4300i_shift_var(s, i), {})
      /\ Good(dyna4300i_special_dsll32(s, i), {}) /\ Good(dyna4300i_special_dsra32(s, i), {})
      /\ i.op \in {"mfhi", "mflo", "mthi", "mtlo"} => Good(dyna4300i_mf_mt(s, i), {})
  BY <1>1, ShiftsGood, ShiftVarGood, MovesGood
<1>7. Good(dyna4300i_special_mul(s, i), {}) /\ Good(dyna4300i_special_div(s, i), {})
  BY <1>1, MulGood, DivGood DEF Runs
<1>8. Good(Load(s, i), {})
  BY <1>1, LoadsGood
<1>9. /\ Good(dyna4300i_sb(s, i), {}) /\ Good(dyna4300i_sh(s, i), {})
      /\ Good(dyna4300i_sw(s, i), {}) /\ Good(dyna4300i_sd(s, i), {})
  BY <1>1, StoresGood DEF dyna4300i_sb, dyna4300i_sh, dyna4300i_sd
<1>10. Good(INTERPRET(s, i), {}) /\ Good(INTERPRET_LOADSTORE(s, i), {})
  BY <1>1, CallsGood
<1>11. QED
  BY <1>1, <1>2, <1>3, <1>4, <1>5, <1>6, <1>7, <1>8, <1>9, <1>10 DEF CompileInteger, IntegerOps, s

----------------------------------------------------------------------------
(* The handlers of DynaCOP1.                                               *)

\* A register that is about to be defined is no constant any more.
LEMMA UnknownGood ==
    ASSUME NEW s, NEW p, Good(s, p), NEW r \in Reg, r # R0
    PROVE  Good(Unknown(s, r), p)
<1> DEFINE t == [s EXCEPT !.const[r] = NoConst]
<1>1. Typed(s) /\ Consistent(s.map, s.const)
  BY DEF Good
<1>2. s.const[R0] = 0
  BY <1>1 DEF Consistent
<1>3. /\ Typed(t) /\ t.map = s.map /\ t.errors = s.errors /\ t.const[r] = NoConst
      /\ \A q \in Reg \ {r} : t.const[q] = s.const[q]
  BY <1>1, SetConst
<1> HIDE DEF t
<1>4. Consistent(t.map, t.const)
  <2>1. t.const[R0] = 0
    BY <1>2, <1>3, MarkFacts
  <2>2. \A q \in Reg : t.const[q] = s.const[q] \/ t.const[q] = NoConst
    BY <1>3
  <2>3. QED
    BY <1>1, <1>3, <2>1, <2>2, ConstConsistent
<1>5. QED
  BY <1>3, <1>4 DEF Good, Unknown, t

\* What is compiled to x87 code,
LEMMA NativeGood ==
    ASSUME NEW s, Good(s, {}), NEW i
    PROVE  /\ Good(dyna4300i_cop1_binary_s(s, i), {}) /\ Good(dyna4300i_cop1_unary_s(s, i), {})
           /\ Good(dyna4300i_cop1_cvts_w(s, i), {}) /\ Good(dyna4300i_cop1_mov_s(s, i), {})
           /\ Good(_do_c_(s, i), {}) /\ \A w : Good(ThroughEAX(s, w), {})
<1>1. \A t, w : Good(t, {}) => Good(ThroughEAX(t, w), {})
  BY HostFacts, CacheGood, AssignmentsGood DEF ThroughEAX
<1>2. /\ Good(dyna4300i_cop1_binary_s(s, i), {}) /\ Good(dyna4300i_cop1_unary_s(s, i), {})
      /\ Good(dyna4300i_cop1_cvts_w(s, i), {})
  BY AssignmentsGood DEF dyna4300i_cop1_binary_s, dyna4300i_cop1_unary_s, dyna4300i_cop1_cvts_w,
      Native
<1>3. Good(dyna4300i_cop1_mov_s(s, i), {})
  BY <1>1, AssignmentsGood DEF dyna4300i_cop1_mov_s
<1>4. Good(_do_c_(s, i), {})
  BY <1>1, AssignmentsGood DEF _do_c_
<1>5. QED
  BY <1>1, <1>2, <1>3, <1>4

\* what moves a word to or from a general register or memory,
LEMMA FloatMovesGood ==
    ASSUME NEW s, Good(s, {}), NEW i, Fields(i)
    PROVE  /\ Good(dyna4300i_cop1_mfc1(s, i), {}) /\ Good(dyna4300i_cop1_cfc1(s, i), {})
           /\ Good(dyna4300i_cop1_mtc1(s, i), {}) /\ Good(dyna4300i_lwc1(s, i), {})
           /\ Good(dyna4300i_swc1(s, i), {})
<1>1. i.rt # R0 => Good(Unknown(s, i.rt), {})
  BY UnknownGood DEF Fields
<1>2. Good(dyna4300i_cop1_mfc1(s, i), {}) /\ Good(dyna4300i_cop1_cfc1(s, i), {})
  BY <1>1, HandlerMapsGood, AssignmentsGood DEF dyna4300i_cop1_mfc1, dyna4300i_cop1_cfc1, PutWord,
      Fields
<1>3. Good(MapRT(s, i, Want(i.rt, TRUE)).s, {}) /\ Good(MapRS(s, i, Want(i.rs, TRUE)).s, {})
  BY HandlerMapsGood DEF Fields
<1>4. Good(dyna4300i_cop1_mtc1(s, i), {})
  BY <1>3, AssignmentsGood DEF dyna4300i_cop1_mtc1, FromMapped
<1>5. \A t : Good(t, {}) => Good(Around(t), {}) /\ Good(Back(t), {})
  BY HostFacts, CacheGood, AssignmentsGood DEF Around, Back
<1>6. \A t, a : Good(t, {}) => /\ Good(LoadCell(t, i, a), {}) /\ Good(StoreCell(t, i, a), {})
                              /\ Good(ThroughEAX(t, a), {})
  BY AssignmentsGood, NativeGood DEF LoadCell, StoreCell
<1>7. Good(dyna4300i_lwc1(s, i), {})
  BY <1>3, <1>5, <1>6 DEF dyna4300i_lwc1, ReadMapped
<1>8. Good(dyna4300i_swc1(s, i), {})
  BY <1>3, <1>5, <1>6 DEF dyna4300i_swc1, WriteMapped
<1>9. QED
  BY <1>2, <1>4, <1>7, <1>8

\* and what calls the interpreter.
LEMMA FloatCallsGood ==
    ASSUME NEW s, Good(s, {}), NEW i, Fields(i), Callable(i)
    PROVE  /\ Good(dyna4300i_cop1_dmfc1(s, i), {}) /\ Good(dyna4300i_ldc1(s, i), {})
           /\ Good(dyna4300i_sdc1(s, i), {}) /\ Good(dyna4300i_cop1_ctc1(s, i), {})
           /\ Good(dyna4300i_cop1_dmtc1(s, i), {}) /\ Good(dyna4300i_cop1_convert_s(s, i), {})
           /\ Good(dyna4300i_c_s(s, i), {}) /\ Good(dyna4300i_c_d(s, i), {})
           /\ Good(dyna4300i_cop1_arithmetic_d(s, i), {})
           /\ Good(dyna4300i_cop1_convert_d(s, i), {})
           /\ Good(dyna4300i_cop1_convert_w_l(s, i), {})
<1>1. Good(INTERPRET(s, i), {}) /\ Good(INTERPRET_NOFLUSH(s, i), {})
  BY CallsGood
<1>2. Good(INTERPRET_FLUSH1(s, i, i.rs), {}) /\ Good(INTERPRET_FLUSH1(s, i, i.rt), {})
  BY CallsGood DEF Fields
<1>3. Good(INTERPRET_NOFLUSH(InitRdRsRt(s, i), i), {})
  BY InitGood, CallsGood
<1>4. QED
  BY <1>1, <1>2, <1>3 DEF dyna4300i_cop1_dmfc1, dyna4300i_ldc1, dyna4300i_sdc1,
      dyna4300i_cop1_ctc1, dyna4300i_cop1_dmtc1, dyna4300i_cop1_convert_s, dyna4300i_c_s,
      dyna4300i_c_d, dyna4300i_cop1_arithmetic_d, dyna4300i_cop1_convert_d,
      dyna4300i_cop1_convert_w_l

\* What is compiled for a floating-point instruction keeps the invariant.
LEMMA CompileFloatGood ==
    ASSUME NEW s0, Good(s0, {}), NEW i, Runs(i), i.op \in FloatOps
    PROVE  Good(CompileFloat(s0, i), {})
<1> DEFINE s == IF i.op \in Coprocessor THEN cop1_with_exception(s0) ELSE s0
           r == InitRdRsRt(s, i)
<1>1. Good(s, {}) /\ Fields(i) /\ Callable(i) /\ i.fmt \in Formats
  <2>1. i.fmt \in Formats
    BY DEF Runs, Callable, IntegerOps, Variants, FloatOps, FloatLoads, FloatMoves, FloatBinary,
        FloatUnary, Methods
  <2>2. QED
    BY <2>1, AssignmentsGood DEF Runs
<1> HIDE DEF s
<1>2. Good(r, {})
  BY <1>1, InitGood
<1> HIDE DEF r
<1>3. i.op \in (FloatMoves \cup FloatLoads) \ {"ctc1", "dmtc1"} => Good(CompileMove(r, i), {})
  <2>1. /\ Good(dyna4300i_cop1_mfc1(r, i), {}) /\ Good(dyna4300i_cop1_cfc1(r, i), {})
        /\ Good(dyna4300i_cop1_mtc1(r, i), {}) /\ Good(dyna4300i_lwc1(r, i), {})
        /\ Good(dyna4300i_swc1(r, i), {}) /\ Good(dyna4300i_cop1_dmfc1(r, i), {})
        /\ Good(dyna4300i_ldc1(r, i), {}) /\ Good(dyna4300i_sdc1(r, i), {})
    BY <1>1, <1>2, FloatMovesGood, FloatCallsGood
  <2>2. QED
    BY <2>1 DEF CompileMove, FloatMoves, FloatLoads
<1>4. i.op \notin FloatMoves \cup FloatLoads =>
        Good(CompileS(s, i), {}) /\ Good(CompileD(s, i), {}) /\ Good(CompileWL(s, i), {})
  <2> SUFFICES ASSUME i.op \notin FloatMoves \cup FloatLoads
               PROVE  Good(CompileS(s, i), {}) /\ Good(CompileD(s, i), {}) /\ Good(CompileWL(s, i), {})
    OBVIOUS
  <2>1. i.op \in FloatBinary \cup FloatUnary \cup Methods \cup {"fmov", "c", "cvt"}
    BY DEF FloatOps
  <2>2. /\ Good(dyna4300i_cop1_binary_s(s, i), {}) /\ Good(dyna4300i_cop1_unary_s(s, i), {})
        /\ Good(dyna4300i_cop1_cvts_w(s, i), {}) /\ Good(dyna4300i_cop1_mov_s(s, i), {})
        /\ Good(_do_c_(s, i), {})
    BY <1>1, NativeGood
  <2>3. /\ Good(dyna4300i_cop1_convert_s(s, i), {}) /\ Good(dyna4300i_c_s(s, i), {})
        /\ Good(dyna4300i_c_d(s, i), {}) /\ Good(dyna4300i_cop1_arithmetic_d(s, i), {})
        /\ Good(dyna4300i_cop1_convert_d(s, i), {}) /\ Good(dyna4300i_cop1_convert_w_l(s, i), {})
    BY <1>1, FloatCallsGood
  <2>4. Good(CompileS(s, i), {})
    BY <2>1, <2>2, <2>3 DEF CompileS
  <2>5. Good(CompileD(s, i), {})
    BY <2>1, <2>3 DEF CompileD
  <2>6. Good(CompileWL(s, i), {})
    BY <2>2, <2>3 DEF CompileWL
  <2>7. QED
    BY <2>4, <2>5, <2>6
<1>5. Good(dyna4300i_cop1_ctc1(s, i), {}) /\ Good(dyna4300i_cop1_dmtc1(s, i), {})
  BY <1>1, FloatCallsGood
<1>6. Good(CompileUsable(s, i), {})
  BY <1>1, <1>3, <1>4, <1>5 DEF CompileUsable, Formats, FloatMoves, r
<1>7. QED
  BY <1>6 DEF CompileFloat, s

\* The dispatch table of the compiler.
LEMMA CompileGood ==
    ASSUME NEW s, Good(s, {}), NEW i, Runs(i), i.op \in IntegerOps \cup FloatOps
    PROVE  Good(Compile(s, i), {})
BY CompileFloatGood, CompileIntegerGood DEF Compile

----------------------------------------------------------------------------
(* The branches.                                                           *)

\* The branches name registers.
LEMMA BranchFields ==
    ASSUME NEW i \in BranchInstruction
    PROVE  Fields(i) /\ i.op \in BranchOps
<1>1. Gpr \cup {R0} \subseteq Reg
  BY MarkFacts
<1>2. QED
  BY <1>1 DEF BranchInstruction, Fields

\* Block analysis only names registers.
LEMMA FinalUseGood ==
    ASSUME NEW s, NEW p, Good(s, p), NEW done, done \subseteq Reg
    PROVE  Good(FinalUse(s, done), p)
<1> DEFINE u == [s EXCEPT !.dead = @ \cup done]
           t == [u EXCEPT !.now = done]
<1>1. Typed(s)
  BY DEF Good
<1>2. Typed(u) /\ Same(s, u)
  BY <1>1 DEF Typed, Same, Rest
<1>3. FinalUse(s, done) = t
  BY DEF FinalUse
<1> HIDE DEF u
<1>4. Typed(t) /\ Same(u, t)
  BY <1>2, SetOther
<1> HIDE DEF t
<1>5. QED
  BY <1>2, <1>3, <1>4, SameTransitive, SameGood

\* AnalyzeBlock names the operands only.
LEMMA OperandsAre ==
    ASSUME NEW i, Fields(i), NEW done \in {{}, Operands(i)}
    PROVE  done \subseteq Reg
BY DEF Operands, Fields

\* The code of a test keeps the invariant.
LEMMA TestGood ==
    ASSUME NEW s, Good(s, {}), NEW i, Fields(i), i.op \in BranchOps
    PROVE  Good(Test(s, i).s, {})
<1>1. \A t, taken : Good(t, {}) => Good(Decided(t, taken).s, {})
  BY CacheGood DEF Decided
<1>2. ASSUME NEW t, Good(t, {}) PROVE Good(CompareMapped(t, i).s, {})
  <2> DEFINE is32 == Both32(t, i)
             fixedS == i.op \in {"beq", "beql"} /\ IsConst(t, i.rs)
             fixedT == i.op \in {"beq", "beql"} /\ IsConst(t, i.rt)
             x == MapRS(t, i, Want(i.rs, is32))
             s1 == IF fixedS THEN t ELSE x.s
             y == MapRT(s1, i, Want(i.rt, is32))
             s2 == IF fixedT THEN s1 ELSE y.s
  <2>1. is32 \in BOOLEAN
    BY Truths
  <2> HIDE DEF is32
  <2>2. Good(s1, {})
    BY <1>2, <2>1, HandlerMapsGood DEF Fields
  <2> HIDE DEF s1
  <2>3. Good(s2, {})
    BY <2>1, <2>2, HandlerMapsGood DEF Fields
  <2>4. CompareMapped(t, i).s = s2
    BY DEF CompareMapped, CompareRS, CompareX, CompareY, CompareSides, Fixed, is32, s1
  <2> HIDE DEF s2
  <2>5. QED
    BY <2>3, <2>4
<1>3. ASSUME NEW t, Good(t, {}) PROVE Good(TestCompare(t, i).s, {})
  BY <1>1, <1>2, <1>3 DEF TestCompare
<1>4. ASSUME NEW t, Good(t, {}) PROVE Good(TestZero(t, i).s, {})
  <2> DEFINE is32 == Both32(t, i) /\ i.op \notin AlwaysWide
             m == MapRS(t, i, Want(i.rs, is32))
  <2>1. is32 \in BOOLEAN
    OBVIOUS
  <2> HIDE DEF is32
  <2>2. Good(m.s, {})
    BY <1>4, <2>1, HandlerMapsGood DEF Fields
  <2> HIDE DEF m
  <2>3. QED
    BY <1>1, <1>4, <2>2 DEF TestZero, CompareZero, is32, m
<1>5. i.op \in Jumps => Good(TestJump(s, i).s, {})
  <2> DEFINE f == FlushAllRegisters(s)
  <2>1. Good(f, {})
    BY CacheGood
  <2> HIDE DEF f
  <2>2. \A d : Good(Set(f, i.rd, d), {})
    BY <2>1, AssignmentsGood
  <2>3. QED
    BY <2>1, <2>2 DEF TestJump, Jumps, f
<1>6. Good(TestFlag(cop1_with_exception(s), i).s, {})
  BY HostFacts, CacheGood, AssignmentsGood DEF TestFlag
<1>7. Good(InitRdRsRt(s, i), {})
  BY InitGood
<1>8. Good(TestCompare(InitRdRsRt(s, i), i).s, {}) /\ Good(TestZero(InitRdRsRt(s, i), i).s, {})
  BY <1>3, <1>4, <1>7
<1>9. CASE i.op \in Jumps
  BY <1>5, <1>9 DEF Test, Jumps, OnTrue, OnFalse, Compares
<1>10. CASE i.op \in OnTrue \cup OnFalse
  BY <1>6, <1>10 DEF Test, Jumps, OnTrue, OnFalse, Compares
<1>11. CASE i.op \in Compares
  BY <1>8, <1>11 DEF Test, Jumps, OnTrue, OnFalse, Compares
<1>12. CASE i.op \notin Jumps \cup Compares \cup OnTrue \cup OnFalse
  BY <1>8, <1>12 DEF Test
<1>13. QED
  BY <1>9, <1>10, <1>11, <1>12

\* A branch with its delay slot keeps the invariant, on both ways out.
LEMMA CompileBranchGood ==
    ASSUME NEW s, Good(s, {}), NEW i, Fields(i), i.op \in BranchOps,
           NEW slot, Runs(slot), slot.op \in IntegerOps \cup FloatOps, NEW done, done \subseteq Reg
    PROVE  Good(CompileBranch(s, i, slot, done), {})
<1> DEFINE t == Test(s, i)
           u == IF t.taken THEN Compile(FinalUse(t.s, done), slot) ELSE t.s
<1>1. Good(t.s, {})
  BY TestGood
<1> HIDE DEF t
<1>2. Good(u, {})
  BY <1>1, FinalUseGood, CompileGood
<1> HIDE DEF u
<1>3. Good(Interrupts(u, i), {})
  BY <1>2, CacheGood, AssignmentsGood DEF Interrupts
<1>4. \A exit : Good(Leave(Interrupts(u, i), exit), {})
  BY <1>3, AssignmentsGood
<1>5. QED
  BY <1>4 DEF CompileBranch, SlotAndExit, t, u

----------------------------------------------------------------------------
(* The block.                                                              *)

\* What is forgotten at the end of a block is not of the tables.
LEMMA FinishedGood ==
    ASSUME NEW s, Good(s, {})
    PROVE  Good(Finished(s), {})
<1> DEFINE t == [s EXCEPT !.dead = {}]
           u == [t EXCEPT !.now = {}]
           v == [u EXCEPT !.host = [k \in Host |-> 0]]
           w == [v EXCEPT !.gpr[R0] = 0]
<1>1. Typed(s)
  BY DEF Good
<1>2. Typed(t) /\ Same(s, t)
  BY <1>1 DEF Typed, Same, Rest
<1>3. Finished(s) = w
  BY DEF Finished
<1> HIDE DEF t
<1>4. Typed(u) /\ Same(t, u)
  BY <1>2, SetOther
<1> HIDE DEF u
<1>5. Typed(v) /\ Same(u, v)
  BY <1>4, SetOther
<1> HIDE DEF v
<1>6. Typed(w) /\ Same(v, w)
  BY <1>5, SetOther
<1> HIDE DEF w
<1>7. Good(t, {})
  BY <1>2, SameGood
<1>8. Good(u, {})
  BY <1>4, <1>7, SameGood
<1>9. Good(v, {})
  BY <1>5, <1>8, SameGood
<1>10. QED
  BY <1>3, <1>6, <1>9, SameGood

\* InitRegisterMap: nothing is mapped, only r0 is a constant.
LEMMA InitRegisterMapGood ==
    ASSUME NEW gpr, NEW fpr, NEW host
    PROVE  Good(InitRegisterMap(gpr, fpr, host), {})
<1> DEFINE s == InitRegisterMap(gpr, fpr, host)
           none == Entry(Unused, FALSE, FALSE, None, FirstYear)
<1>1. none \in EntryType /\ none.mips = Unused
  <2>1. Unused \in Reg \cup Marks /\ None \in Host \cup {None} /\ FirstYear \in Nat
    BY DEF Marks, FirstYear
  <2>2. QED
    BY <2>1 DEF Entry, EntryType
<1>2. s.map = [k \in Host |-> none]
  BY DEF InitRegisterMap
<1>3. Typed(s)
  <2>1. s.map \in MapType
    BY <1>1, <1>2 DEF MapType
  <2> HIDE DEF none
  <2>2. DOMAIN s.const = Reg
    BY DEF InitRegisterMap
  <2>3. s.dead \in SUBSET Reg /\ s.now \in SUBSET Reg /\ s.year \in Nat
    BY DEF InitRegisterMap, FirstYear
  <2>4. QED
    BY <2>1, <2>2, <2>3 DEF Typed, InitRegisterMap
<1>4. s.const[R0] = 0 /\ s.errors = {}
  BY MarkFacts DEF InitRegisterMap
<1> HIDE DEF s, none
<1>5. \A k \in Host : s.map[k].mips = Unused
  BY <1>1, <1>2
<1>6. Consistent(s.map, s.const)
  BY <1>4, <1>5, MarkFacts DEF Consistent
<1>7. QED
  BY <1>3, <1>4, <1>5, <1>6, MarkFacts DEF Good, s

\* The block's tables are consistent, and nothing has been reported.
Inv == Good(jit, {})

\* A block starts with such tables,
LEMMA InvInit == Init => Inv
<1> SUFFICES ASSUME Init PROVE Inv
  OBVIOUS
<1>1. PICK gpr \in Start : jit = InitRegisterMap(gpr, StartFloat, [k \in Host |-> 0])
  BY DEF Init
<1>2. QED
  BY <1>1, InitRegisterMapGood DEF Inv

\* every instruction compiled, branch, end of a block and exception keeps them so,
LEMMA InvNext == Inv /\ [Next]_vars => Inv'
<1> SUFFICES ASSUME Inv, [Next]_vars PROVE Inv'
  OBVIOUS
<1>1. Good(jit, {})
  BY DEF Inv
<1>2. Good(FlushAllRegisters(jit), {})
  BY <1>1, CacheGood
<1>3. Good(Finished(FlushAllRegisters(jit)), {})
  BY <1>2, FinishedGood
<1>4. CASE Emit
  <2>1. PICK i \in Opening \cup Last : Execute(i)
    BY <1>4 DEF Emit
  <2>2. Runs(i) /\ i.op \in IntegerOps \cup FloatOps
    BY DynaAssumption, InstructionRuns
  <2>3. PICK done \in {{}, Operands(i)} : jit' = Settled(Compile(FinalUse(jit, done), i))
    BY <2>1 DEF Execute
  <2>4. done \subseteq Reg
    BY <2>2, OperandsAre DEF Runs
  <2>5. Good(FinalUse(jit, done), {})
    BY <1>1, <2>4, FinalUseGood
  <2>6. Good(Compile(FinalUse(jit, done), i), {})
    BY <2>2, <2>5, CompileGood
  <2>7. QED
    BY <2>3, <2>6, SettledGood DEF Inv
<1>5. CASE Branch
  <2>1. PICK i \in Branches, slot \in Slots :
          \E done \in {{}, Operands(i)}, end \in {{}, Operands(slot)} :
            jit' = Finished(CompileBranch(FinalUse(jit, done), i, slot, end))
    BY <1>5 DEF Branch
  <2>2. PICK done \in {{}, Operands(i)}, end \in {{}, Operands(slot)} :
          jit' = Finished(CompileBranch(FinalUse(jit, done), i, slot, end))
    BY <2>1
  <2>3. Fields(i) /\ i.op \in BranchOps
    BY DynaAssumption, BranchFields
  <2>4. Runs(slot) /\ slot.op \in IntegerOps \cup FloatOps
    BY DynaAssumption, InstructionRuns
  <2>5. done \subseteq Reg /\ end \subseteq Reg
    BY <2>3, <2>4, OperandsAre DEF Runs
  <2>6. Good(FinalUse(jit, done), {})
    BY <1>1, <2>5, FinalUseGood
  <2>7. Good(CompileBranch(FinalUse(jit, done), i, slot, end), {})
    BY <2>3, <2>4, <2>5, <2>6, CompileBranchGood
  <2>8. QED
    BY <2>2, <2>7, FinishedGood DEF Inv
<1>6. CASE EndBlock
  BY <1>3, <1>6 DEF EndBlock, Inv
<1>7. CASE TriggerFPUUnusableException
  <2>1. jit' = Leave(Finished(FlushAllRegisters(jit)), Unusable)
    BY <1>7 DEF TriggerFPUUnusableException
  <2>2. QED
    BY <1>3, <2>1, AssignmentsGood DEF Inv
<1>8. CASE UNCHANGED vars
  BY <1>1, <1>8 DEF vars, Inv
<1>9. QED
  BY <1>4, <1>5, <1>6, <1>7, <1>8 DEF Next

\* and they are always so.
LEMMA InvAlways == Spec => []Inv
BY InvInit, InvNext, PTL DEF Spec

\* The tables of the register cache agree with one another after every
\* instruction, whatever the instructions and the registers of the block: a
\* register is in one place, a known constant in none but r0, and every high
\* word belongs to one 64-bit register (x86reg[] and ConstMap[], regcache.c).
THEOREM TablesCoherent == Spec => []Coherent
<1>1. Inv => Coherent
  BY ConsistentIs DEF Inv, Good, Typed, Coherent
<1>2. QED
  BY <1>1, InvAlways, PTL

\* FlushOneButNotThese3, FlushOneConstant and x86reg_Delete never find
\* something wrong: a host register can always be made free, no mapped register
\* is a constant, and no high word is missing when one is dropped.
THEOREM NothingReported == Spec => []NoDisplayError
<1>1. Inv => NoDisplayError
  BY DEF Inv, Good, NoDisplayError
<1>2. QED
  BY <1>1, InvAlways, PTL

-------------------------------------------------------------------------------
(* Powers of two and division                                                *)

\* Division, from its definition.
LEMMA Division ==
    ASSUME NEW num \in Int, NEW b \in Nat \ {0}
    PROVE  num % b \in 0 .. b - 1 /\ num \div b \in Int /\ num = b * (num \div b) + (num % b)
<1>1. num % b \in 0 .. b - 1
  OBVIOUS
<1>2. num \div b \in Int
  OBVIOUS
<1>3. num = b * (num \div b) + (num % b)
  OBVIOUS
<1>4. QED
  BY <1>1, <1>2, <1>3

\* A quotient and a remainder are the only ones.
LEMMA Quotient ==
    ASSUME NEW q \in Int, NEW b \in Nat \ {0}, NEW r \in 0 .. b - 1, NEW num \in Int, num = q * b + r
    PROVE  num % b = r /\ num \div b = q
<1>1. num = b * (num \div b) + (num % b) /\ num % b \in 0 .. b - 1 /\ num \div b \in Int
  BY Division
<1>2. CASE num \div b >= q + 1
  <2>1. PICK j \in Nat : num \div b = q + 1 + j
    <3>1. num \div b - (q + 1) \in Nat
      BY <1>1, <1>2
    <3>2. num \div b = q + 1 + (num \div b - (q + 1))
      BY <1>1
    <3>3. QED
      BY <3>1, <3>2
  <2>2. b * (q + 1 + j) = q * b + b + b * j /\ b * j >= 0
    OBVIOUS
  <2>3. QED
    BY <1>1, <2>1, <2>2
<1>3. CASE num \div b <= q - 1
  <2>1. PICK j \in Nat : num \div b = q - 1 - j
    <3>1. (q - 1) - (num \div b)  \in Nat
      BY <1>1, <1>3
    <3>2. num \div b = q - 1 - ((q - 1) - (num \div b))
      BY <1>1
    <3>3. QED
      BY <3>1, <3>2
  <2>2. b * (q - 1 - j) = q * b - b - b * j /\ b * j >= 0
    OBVIOUS
  <2>3. QED
    BY <1>1, <2>1, <2>2
<1>4. num \div b = q
  BY <1>1, <1>2, <1>3
<1>5. b * q = q * b
  OBVIOUS
<1>6. QED
  BY <1>1, <1>4, <1>5

\* Numbers a multiple apart have the same remainder,
LEMMA Congruent ==
    ASSUME NEW a \in Int, NEW c \in Int, NEW q \in Int, NEW b \in Nat \ {0}, a = c + q * b
    PROVE  a % b = c % b
<1> DEFINE d == q + (c \div b)
           r == c % b
<1>1. c = b * (c \div b) + (c % b) /\ c % b \in 0 .. b - 1 /\ c \div b \in Int
  BY Division
<1>2. q + (c \div b) \in Int
  BY <1>1
<1>3. d * b = q * b + b * (c \div b)
  BY <1>1
<1>4. a = d * b + r /\ d \in Int /\ r \in 0 .. b - 1
  BY <1>1, <1>2, <1>3
<1> HIDE DEF d, r
<1>5. d * b + r \in Int
  BY <1>4
<1>6. (d * b + r) % b = r
  BY <1>4, <1>5, Quotient
<1>7. QED
  BY <1>4, <1>6 DEF r

\* and those with the same remainder are a multiple apart.
LEMMA Apart ==
    ASSUME NEW a \in Int, NEW c \in Int, NEW b \in Nat \ {0}, a % b = c % b
    PROVE  \E q \in Int : a = c + q * b
<1>1. /\ c = b * (c \div b) + (c % b) /\ c \div b \in Int
      /\ a = b * (a \div b) + (a % b) /\ a \div b \in Int
      /\ a % b \in Int /\ c % b \in Int
  BY Division
<1>2. (a \div b) - (c \div b) \in Int /\ ((a \div b) - (c \div b)) * b = b * (a \div b) - b * (c \div b)
  BY <1>1
<1>3. a = c + ((a \div b) - (c \div b)) * b
  BY <1>1, <1>2
<1>4. QED
  BY <1>2, <1>3

\* The least number of a set of numbers.
LEMMA LeastOf ==
    ASSUME NEW S, S \subseteq Nat, S # {}
    PROVE  \E m \in S : \A k \in S : m <= k
<1> DEFINE T == {0 .. num : num \in S}
<1>1. T \subseteq FiniteSubsetsOf(Nat)
  <2>1. \A num \in S : 0 .. num \subseteq Nat /\ IsFiniteSet(0 .. num)
    BY FS_Interval
  <2>2. QED
    BY <2>1 DEF FiniteSubsetsOf
<1>2. T # {}
  OBVIOUS
<1>3. PICK x \in T : \A y \in T : <<y, x>> \notin StrictSubsetOrdering(Nat)
  BY <1>1, <1>2, FS_StrictSubsetOrderingWellFounded, WFMin
<1>4. PICK m \in S : x = 0 .. m
  OBVIOUS
<1>5. ASSUME NEW k \in S, k < m
      PROVE  FALSE
  <2>1. 0 .. k \in T
    OBVIOUS
  <2>2. 0 .. k \subseteq 0 .. m /\ m \in 0 .. m /\ m \notin 0 .. k /\ 0 .. m \subseteq Nat /\ 0 .. k \subseteq Nat
    BY <1>5
  <2>3. <<0 .. k, x>> \in StrictSubsetOrdering(Nat)
    BY <1>4, <2>2 DEF StrictSubsetOrdering
  <2>4. QED
    BY <1>3, <2>1, <2>3
<1>6. QED
  BY <1>5

\* Powers of two are positive
LEMMA PowerPositive == W \in Nat \ {0} /\ \A k \in 0 .. 2 * W : 2 ^ k \in Nat \ {0}
<1> DEFINE S == {k \in 0 .. 2 * W : 2 ^ k = 0}
<1>1. W \in Nat \ {0} /\ 2 ^ 0 = 1 /\ \A k \in 0 .. 2 * W : 2 ^ k \in Nat /\ 2 ^ (k + 1) = 2 * 2 ^ k
  BY HostRegsAssumption, WidthAssumption
<1>2. ASSUME S # {}
      PROVE  FALSE
  <2>1. S \subseteq Nat
    <3>1. S \subseteq 0 .. 2 * W
      OBVIOUS
    <3>2. 0 .. 2 * W \subseteq Nat
      BY <1>1
    <3>3. QED
      BY <3>1, <3>2
  <2>2. PICK m \in S : \A k \in S : m <= k
    BY <1>2, <2>1, LeastOf
  <2>3. m # 0 /\ m \in Nat /\ m <= 2 * W
    <3>1. m \in 0 .. 2 * W /\ 2 ^ m = 0
      OBVIOUS
    <3>2. m # 0
      <4>1. ASSUME m = 0
            PROVE  FALSE
        <5>1. 2 ^ m = 2 ^ 0
          BY <4>1
        <5>2. QED
          BY <1>1, <3>1, <5>1
      <4>2. QED
        BY <4>1
    <3>3. QED
      BY <1>1, <3>1, <3>2
  <2>4. m - 1 \in 0 .. 2 * W /\ m - 1 \notin S /\ (m - 1) + 1 = m
    BY <1>1, <2>1, <2>2, <2>3
  <2>5. 2 ^ m = 2 * 2 ^ (m - 1) /\ 2 ^ (m - 1) \in Nat /\ 2 ^ (m - 1) # 0
    BY <1>1, <2>4
  <2>6. QED
    BY <2>5
<1>3. QED
  BY <1>1, <1>2

\* and multiply as their exponents add.
LEMMA PowerSum ==
    ASSUME NEW j \in Nat, NEW i \in Nat, i + j <= 2 * W
    PROVE  2 ^ (i + j) = 2 ^ i * 2 ^ j
<1> DEFINE S == {k \in 0 .. j : 2 ^ (i + k) # 2 ^ i * 2 ^ k}
<1>1. W \in Nat \ {0} /\ 2 ^ 0 = 1 /\ \A k \in 0 .. 2 * W : 2 ^ k \in Nat /\ 2 ^ (k + 1) = 2 * 2 ^ k
  BY HostRegsAssumption, WidthAssumption
<1>2. ASSUME S # {}
      PROVE  FALSE
  <2>1. S \subseteq Nat
    <3>1. S \subseteq 0 .. j
      OBVIOUS
    <3>2. 0 .. j \subseteq Nat
      OBVIOUS
    <3>3. QED
      BY <3>1, <3>2
  <2>2. PICK m \in S : \A k \in S : m <= k
    BY <1>2, <2>1, LeastOf
  <2>3. m \in Nat /\ m <= j /\ i \in 0 .. 2 * W
    BY <1>1
  <2>4. m # 0
    <3>1. 2 ^ i \in Nat /\ i + 0 = i
      BY <1>1, <2>3
    <3>2. 2 ^ (i + 0) = 2 ^ i * 2 ^ 0
      BY <1>1, <3>1
    <3>3. QED
      BY <3>2
  <2>5. m - 1 \in 0 .. j /\ m - 1 \notin S /\ m - 1 \in 0 .. 2 * W /\ i + (m - 1) \in 0 .. 2 * W
    BY <1>1, <2>1, <2>2, <2>3, <2>4
  <2>6. (m - 1) + 1 = m /\ (i + (m - 1)) + 1 = i + m
    BY <2>3
  <2>7. /\ 2 ^ (i + (m - 1)) = 2 ^ i * 2 ^ (m - 1)
        /\ 2 ^ m = 2 * 2 ^ (m - 1) /\ 2 ^ (i + m) = 2 * 2 ^ (i + (m - 1))
        /\ 2 ^ i \in Nat /\ 2 ^ (m - 1) \in Nat /\ 2 ^ m \in Nat
    <3>1. 2 ^ (i + (m - 1)) = 2 ^ i * 2 ^ (m - 1)
      BY <2>5
    <3>2. 2 ^ ((m - 1) + 1) = 2 * 2 ^ (m - 1) /\ 2 ^ ((i + (m - 1)) + 1) = 2 * 2 ^ (i + (m - 1))
      BY <1>1, <2>5
    <3>3. 2 ^ m = 2 * 2 ^ (m - 1) /\ 2 ^ (i + m) = 2 * 2 ^ (i + (m - 1))
      BY <2>6, <3>2
    <3>4. 2 ^ i \in Nat /\ 2 ^ (m - 1) \in Nat /\ 2 ^ m \in Nat
      BY <1>1, <2>3, <2>5
    <3>5. QED
      BY <3>1, <3>3, <3>4
  <2>8. 2 ^ (i + m) = 2 ^ i * 2 ^ m
    BY <2>7
  <2>9. QED
    BY <2>8
<1>3. \A k \in 0 .. j : 2 ^ (i + k) = 2 ^ i * 2 ^ k
  BY <1>2
<1>4. j \in 0 .. j
  OBVIOUS
<1>5. QED
  BY <1>3, <1>4

\* The widths of a half, of a word and of a double word, and what lies between.
LEMMA Widths ==
    /\ W \in Nat /\ W >= 2 /\ Half \in Nat /\ Half >= 1 /\ W = Half + Half
    /\ 2 ^ W \in Nat \ {0} /\ 2 ^ (W - 1) \in Nat \ {0} /\ 2 ^ W = 2 * 2 ^ (W - 1)
    /\ 2 ^ (2 * W) = 2 ^ W * 2 ^ W /\ 2 ^ (2 * W - 1) = 2 ^ W * 2 ^ (W - 1)
    /\ 2 ^ Half \in Nat \ {0} /\ 2 ^ (Half - 1) \in Nat \ {0} /\ 2 ^ Half = 2 * 2 ^ (Half - 1)
    /\ 2 ^ W = 2 ^ Half * 2 ^ Half /\ 2 ^ (W - 1) = 2 ^ Half * 2 ^ (Half - 1)
<1>1. W \in Nat \ {0} /\ 2 ^ 0 = 1 /\ \A k \in 0 .. 2 * W : 2 ^ k \in Nat \ {0} /\ 2 ^ (k + 1) = 2 * 2 ^ k
  BY PowerPositive, WidthAssumption
<1>2. Half \in Nat /\ W = Half + Half /\ Half >= 1 /\ W >= 2
  BY <1>1, HalvesAssumption DEF Half
<1>3. /\ W \in 0 .. 2 * W /\ W - 1 \in 0 .. 2 * W /\ 2 * W \in 0 .. 2 * W /\ 2 * W - 1 \in 0 .. 2 * W
      /\ Half \in 0 .. 2 * W /\ Half - 1 \in 0 .. 2 * W
  BY <1>2
<1>4. /\ (W - 1) + 1 = W /\ (Half - 1) + 1 = Half /\ W + W = 2 * W /\ W + (W - 1) = 2 * W - 1
      /\ Half + (Half - 1) = W - 1
  BY <1>2
<1>5. 2 ^ ((W - 1) + 1) = 2 * 2 ^ (W - 1) /\ 2 ^ ((Half - 1) + 1) = 2 * 2 ^ (Half - 1)
  BY <1>1, <1>3
<1>6. /\ 2 ^ (W + W) = 2 ^ W * 2 ^ W /\ 2 ^ (W + (W - 1)) = 2 ^ W * 2 ^ (W - 1)
      /\ 2 ^ (Half + Half) = 2 ^ Half * 2 ^ Half /\ 2 ^ (Half + (Half - 1)) = 2 ^ Half * 2 ^ (Half - 1)
  <2>1. W \in Nat /\ W - 1 \in Nat /\ Half \in Nat /\ Half - 1 \in Nat /\ W + W <= 2 * W
        /\ W + (W - 1) <= 2 * W /\ Half + Half <= 2 * W /\ Half + (Half - 1) <= 2 * W
    BY <1>2
  <2>2. QED
    BY <2>1, PowerSum
<1>7. QED
  BY <1>1, <1>2, <1>3, <1>4, <1>5, <1>6

-------------------------------------------------------------------------------
(* Words and doubles                                                         *)

\* Two digits make a number
LEMMA Digits ==
    ASSUME NEW b \in Nat \ {0}, NEW l \in 0 .. b - 1, NEW h \in 0 .. b - 1
    PROVE  h * b + l \in 0 .. b * b - 1 /\ (h * b + l) % b = l /\ (h * b + l) \div b = h
<1>1. h * b >= 0 /\ (b - 1 - h) * b >= 0 /\ (b - 1 - h) * b = b * b - b - h * b
  OBVIOUS
<1>2. h * b + l \in 0 .. b * b - 1
  BY <1>1
<1>3. h * b + l \in Int /\ h \in Int
  OBVIOUS
<1>4. QED
  BY <1>2, <1>3, Quotient

\* and every number has two digits.
LEMMA DigitsOf ==
    ASSUME NEW b \in Nat \ {0}, NEW d \in 0 .. b * b - 1
    PROVE  d % b \in 0 .. b - 1 /\ d \div b \in 0 .. b - 1 /\ d = (d \div b) * b + (d % b)
<1> DEFINE q == d \div b
           r == d % b
<1>1. d \in Int /\ b * b \in Int
  OBVIOUS
<1>2. r \in 0 .. b - 1 /\ q \in Int /\ d = b * q + r
  BY <1>1, Division
<1>3. d = q * b + r /\ 0 <= d /\ d < b * b
  BY <1>2
<1> HIDE DEF q, r
<1>4. q >= 0
  <2>1. CASE q <= -1
    <3>1. q * b + b = (q + 1) * b /\ (q + 1) * b <= 0
      BY <1>2, <2>1
    <3>2. QED
      BY <1>2, <1>3, <3>1
  <2>2. QED
    BY <1>2, <2>1
<1>5. q <= b - 1
  <2>1. CASE q >= b
    <3>1. q * b - b * b = (q - b) * b /\ (q - b) * b >= 0
      BY <1>2, <2>1
    <3>2. q * b \in Int /\ b * b \in Int
      BY <1>2
    <3>3. QED
      BY <1>2, <1>3, <3>1, <3>2
  <2>2. QED
    BY <1>2, <2>1
<1>6. QED
  BY <1>2, <1>3, <1>4, <1>5 DEF q, r

\* A double word is a pair of words, and a word is sign-extended to one.
LEMMA Pairs ==
    /\ \A l, h \in Word : Pair(l, h) \in Double /\ Low(Pair(l, h)) = l /\ High(Pair(l, h)) = h
    /\ \A d \in Double : Low(d) \in Word /\ High(d) \in Word /\ d = Pair(Low(d), High(d))
<1>1. 2 ^ W \in Nat \ {0} /\ 2 ^ (2 * W) = 2 ^ W * 2 ^ W
  BY Widths
<1>2. Word = 0 .. 2 ^ W - 1 /\ Double = 0 .. 2 ^ W * 2 ^ W - 1
  BY <1>1 DEF Word, Double
<1>3. QED
  BY <1>1, <1>2, Digits, DigitsOf DEF Pair, Low, High

\* Words and their signs.
LEMMA Signs ==
    /\ 0 \in Word /\ Ones \in Word /\ 0 \in Double /\ Word \subseteq Nat /\ Double \subseteq Nat /\ Word \subseteq Double
    /\ \A w \in Word : SignOf(w) \in Word /\ Ones - w \in Word
    /\ SignOf(0) = 0 /\ Pair(0, 0) = 0
<1>1. 2 ^ W \in Nat \ {0} /\ 2 ^ (2 * W) = 2 ^ W * 2 ^ W /\ 2 ^ (W - 1) \in Nat \ {0}
  BY Widths
<1>2. 2 ^ W * 2 ^ W \in Nat \ {0} /\ 2 ^ W * 2 ^ W >= 2 ^ W
  BY <1>1
<1>3. Word = 0 .. 2 ^ W - 1 /\ Double = 0 .. 2 ^ W * 2 ^ W - 1 /\ Ones = 2 ^ W - 1
  BY <1>1 DEF Word, Double, Ones
<1>4. \A w \in Word : SignOf(w) \in {0, Ones}
  BY DEF SignOf
<1>5. SignOf(0) = 0 /\ Pair(0, 0) = 0
  BY <1>1 DEF SignOf, Negative, Pair
<1>6. 0 \in Word /\ Ones \in Word /\ 0 \in Double /\ Word \subseteq Nat /\ Double \subseteq Nat /\ Word \subseteq Double
  BY <1>1, <1>2, <1>3
<1>7. \A w \in Word : SignOf(w) \in Word /\ Ones - w \in Word
  BY <1>1, <1>3, <1>4, <1>6
<1>8. QED
  BY <1>5, <1>6, <1>7

\* A sign-extended word: its halves, and when a double is one.
LEMMA Extended ==
    /\ \A w \in Word : Sext(w) \in Double /\ Low(Sext(w)) = w /\ High(Sext(w)) = SignOf(w) /\ IsWord(Sext(w))
    /\ \A d \in Double : IsWord(d) <=> High(d) = SignOf(Low(d))
    /\ \A d \in Double : IsWord(d) => d = Sext(Low(d))
    /\ Sext(0) = 0 /\ IsWord(0) /\ Low(0) = 0 /\ High(0) = 0
<1>1. \A w \in Word : Sext(w) \in Double /\ Low(Sext(w)) = w /\ High(Sext(w)) = SignOf(w)
  BY Pairs, Signs DEF Sext
<1>2. \A w \in Word : IsWord(Sext(w))
  BY <1>1 DEF IsWord
<1>3. Sext(0) = 0
  BY Signs DEF Sext
<1>4. \A d \in Double : IsWord(d) => d = Sext(Low(d))
  BY DEF IsWord
<1>5. \A d \in Double : IsWord(d) <=> High(d) = SignOf(Low(d))
  <2>1. ASSUME NEW d \in Double
        PROVE  IsWord(d) <=> High(d) = SignOf(Low(d))
    <3>1. Low(d) \in Word /\ d = Pair(Low(d), High(d))
      BY Pairs
    <3>2. CASE IsWord(d)
      BY <1>1, <1>4, <3>1, <3>2
    <3>3. CASE High(d) = SignOf(Low(d))
      BY <3>1, <3>3 DEF IsWord, Sext
    <3>4. QED
      BY <3>2, <3>3
  <2>2. QED
    BY <2>1
<1>6. Low(0) = 0 /\ High(0) = 0 /\ IsWord(0)
  BY <1>1, <1>2, <1>3, Signs
<1>7. QED
  BY <1>1, <1>2, <1>3, <1>4, <1>5, <1>6

-------------------------------------------------------------------------------
(* Following a machine                                                       *)

\* What neither the register cache nor the shape of its tables is about.
Aside(s, t) ==
    /\ t.fpr = s.fpr /\ t.con31 = s.con31 /\ t.rc = s.rc /\ t.store = s.store /\ t.exit = s.exit

\* What is stored in the block's state is of its type; the memory image of r0 is
\* 0, and what is marked as flushed from a 32-bit register is a sign-extended
\* word, even under a dirty register or a constant.
Image(s) ==
    /\ s.host \in [Host -> Word] /\ s.stack \in [Host -> Word \cup {NoConst}]
    /\ s.gpr \in [Reg -> Double] /\ s.const \in [Reg -> Word \cup {NoConst}]
    /\ s.flushed \in [Reg -> BOOLEAN]
    /\ s.fpr \in [Cells -> Word] /\ s.con31 \in Word /\ s.rc \in Word
    /\ s.gpr[R0] = 0
    /\ \A r \in Reg : s.flushed[r] => IsWord(s.gpr[r])

\* The interpreter's machine.
Machine(m) ==
    /\ m \in [gpr : [Reg -> Double], fpr : [Cells -> Word], con31 : Word, rc : Word,
              store : {m.store}, exit : {m.exit}]
    /\ m.gpr[R0] = 0

\* The tables and what lies behind them show the value v of the register r:
\* wherever it is looked for, it is found.
Shown(s, v, r) ==
    /\ s.const[r] # NoConst => v = Sext(s.const[r])
    /\ s.const[r] = NoConst /\ (\A k \in Host : s.map[k].mips # r) => v = s.gpr[r]
    /\ \A k \in Host : s.map[k].mips = r =>
         /\ s.host[k] = Low(v)
         /\ s.map[k].hi # k => s.host[s.map[k].hi] = High(v)
         /\ ~s.map[k].dirty => v = s.gpr[r]
         /\ s.map[k].dirty /\ s.map[k].hi = k => IsWord(v)

\* The block's state stands for the machine m, but for the registers in Z: its
\* refinement mapping, as a relation.
Follows(s, m, Z) ==
    /\ Image(s) /\ Machine(m) /\ Aside(s, m)
    /\ \A r \in Reg \ Z : Shown(s, m.gpr[r], r)

\* From s to t, every register but r stays where it is, with what it holds, or
\* rests in memory.
Kept(s, t, r) ==
    /\ Aside(s, t)
    /\ \A q \in Reg \ {r} : t.const[q] = s.const[q] /\ t.gpr[q] = s.gpr[q]
    /\ \A k \in Host : s.map[k].mips \in Reg \ {r} =>
         /\ t.map[k].mips = s.map[k].mips /\ t.map[k].hi = s.map[k].hi
         /\ t.map[k].dirty = s.map[k].dirty
         /\ t.host[k] = s.host[k] /\ t.host[s.map[k].hi] = s.host[s.map[k].hi]
    /\ \A k \in Host : t.map[k].mips \in Reg \ {r} => t.map[k].mips = s.map[k].mips

\* Another value for a register of the machine.
With(m, r, u) == [m EXCEPT !.gpr[r] = u]

\* Giving a register a value changes that register alone.
LEMMA WithMachine ==
    ASSUME NEW m, Machine(m), NEW r \in Reg, NEW u \in Double, r = R0 => u = 0
    PROVE  /\ Machine(With(m, r, u)) /\ Aside(m, With(m, r, u)) /\ With(m, r, u).gpr[r] = u
           /\ \A q \in Reg \ {r} : With(m, r, u).gpr[q] = m.gpr[q]
<1> DEFINE given == With(m, r, u)
<1>1. given.gpr = [m.gpr EXCEPT ![r] = u] /\ Aside(m, given) /\ given.store = m.store /\ given.exit = m.exit
  BY DEF With, Aside, Machine
<1>2. given.gpr \in [Reg -> Double] /\ given.gpr[r] = u /\ \A q \in Reg \ {r} : given.gpr[q] = m.gpr[q]
  BY <1>1 DEF Machine
<1>3. Machine(given)
  <2>1. given.gpr[R0] = 0
    BY <1>2, MarkFacts DEF Machine
  <2>2. given \in [gpr : [Reg -> Double], fpr : [Cells -> Word], con31 : Word, rc : Word,
               store : {given.store}, exit : {given.exit}]
    BY <1>1, <1>2 DEF With, Machine
  <2>3. QED
    BY <2>1, <2>2 DEF Machine
<1>4. QED
  BY <1>1, <1>2, <1>3

\* Giving it the value it has changes nothing, and the last value counts.
LEMMA WithAgain ==
    ASSUME NEW m, Machine(m), NEW r \in Reg
    PROVE  /\ With(m, r, m.gpr[r]) = m
           /\ \A u, v \in Double : With(With(m, r, u), r, v) = With(m, r, v)
<1>1. With(m, r, m.gpr[r]) = m
  BY DEF With, Machine
<1>2. ASSUME NEW u \in Double, NEW v \in Double
      PROVE  With(With(m, r, u), r, v) = With(m, r, v)
  <2>1. [[m.gpr EXCEPT ![r] = u] EXCEPT ![r] = v] = [m.gpr EXCEPT ![r] = v]
    BY DEF Machine
  <2>2. QED
    BY <2>1 DEF With, Machine
<1>3. QED
  BY <1>1, <1>2

\* A step that may lose one register's value, and no other, follows but for that register.
LEMMA KeptFollows ==
    ASSUME NEW s, NEW p, Good(s, p), NEW m, NEW Z, Follows(s, m, Z), NEW r, NEW t, Kept(s, t, r), Image(t)
    PROVE  Follows(t, m, Z \cup {r})
<1>1. ASSUME NEW q \in Reg \ (Z \cup {r})
      PROVE  Shown(t, m.gpr[q], q)
  <2>1. Shown(s, m.gpr[q], q) /\ t.const[q] = s.const[q] /\ t.gpr[q] = s.gpr[q]
    BY <1>1 DEF Follows, Kept
  <2>2. \A k \in Host : t.map[k].mips = q <=> s.map[k].mips = q
    BY <1>1 DEF Kept
  <2>3. \A k \in Host : s.map[k].mips = q =>
          /\ t.map[k].hi = s.map[k].hi /\ t.map[k].dirty = s.map[k].dirty
          /\ t.host[k] = s.host[k] /\ t.host[s.map[k].hi] = s.host[s.map[k].hi]
    BY <1>1 DEF Kept
  <2>4. QED
    BY <2>1, <2>2, <2>3 DEF Shown
<1>2. Aside(t, m)
  BY DEF Follows, Kept, Aside
<1>3. QED
  BY <1>1, <1>2 DEF Follows

\* Once the value shows, the block follows the machine that has it.
LEMMA ShownFollows ==
    ASSUME NEW t, NEW m, NEW Z, NEW r \in Reg, Follows(t, m, Z \cup {r}),
           NEW u \in Double, r = R0 => u = 0, Shown(t, u, r)
    PROVE  Follows(t, With(m, r, u), Z)
<1>1. Machine(m) /\ Aside(t, m)
  BY DEF Follows
<1>2. /\ Machine(With(m, r, u)) /\ Aside(m, With(m, r, u)) /\ With(m, r, u).gpr[r] = u
      /\ \A q \in Reg \ {r} : With(m, r, u).gpr[q] = m.gpr[q]
  BY <1>1, WithMachine
<1>3. Aside(t, With(m, r, u))
  BY <1>1, <1>2 DEF Aside
<1>4. ASSUME NEW q \in Reg \ Z
      PROVE  Shown(t, With(m, r, u).gpr[q], q)
  <2>1. CASE q = r
    BY <1>2, <2>1
  <2>2. CASE q # r
    BY <1>2, <2>2, <1>4 DEF Follows
  <2>3. QED
    BY <2>1, <2>2
<1>5. QED
  BY <1>2, <1>3, <1>4 DEF Follows

\* the register itself unchanged
LEMMA SameFollows ==
    ASSUME NEW t, NEW m, NEW Z, NEW r \in Reg, Follows(t, m, Z \cup {r}), r \in Z \/ Shown(t, m.gpr[r], r)
    PROVE  Follows(t, m, Z)
<1>1. ASSUME NEW q \in Reg \ Z
      PROVE  Shown(t, m.gpr[q], q)
  BY <1>1 DEF Follows
<1>2. QED
  BY <1>1 DEF Follows

\* Following but for fewer registers is more.
LEMMA FewerFollows ==
    ASSUME NEW t, NEW m, NEW Z, NEW Y, Z \subseteq Y, Follows(t, m, Z)
    PROVE  Follows(t, m, Y)
BY DEF Follows

\* Where the tables say a register is, is its value.
LEMMA FoundValue ==
    ASSUME NEW s, NEW p, Good(s, p), NEW v \in Double, NEW r \in Reg, Image(s), Shown(s, v, r)
    PROVE  Value(s, r) = v
<1> DEFINE k == Where(s, r)
<1>1. /\ \A j \in Host : s.map[j].mips = r => k = j
      /\ (\A j \in Host : s.map[j].mips # r) => k = None
      /\ k # None => k \in Host /\ s.map[k].mips = r
      /\ k = None => \A j \in Host : s.map[j].mips # r
  BY WhereIs DEF Good
<1> HIDE DEF k
<1>2. CASE s.const[r] # NoConst
  BY <1>2 DEF Value, IsConst, Shown
<1>3. CASE s.const[r] = NoConst /\ k = None
  BY <1>1, <1>3 DEF Value, IsConst, Shown, k
<1>4. CASE s.const[r] = NoConst /\ k # None
  <2>1. v = Pair(Low(v), High(v)) /\ (IsWord(v) => v = Sext(Low(v)))
    BY Pairs, Extended
  <2>2. k \in Host /\ s.map[k].mips = r
    BY <1>1, <1>4
  <2>3. QED
    BY <1>4, <2>1, <2>2 DEF Value, IsConst, Shown, k
<1>5. QED
  BY <1>2, <1>3, <1>4

-------------------------------------------------------------------------------
(* Writing back                                                              *)

\* Of what holds values, only the map differs.
Contents(s, t) ==
    /\ Aside(s, t)
    /\ t.host = s.host /\ t.gpr = s.gpr /\ t.flushed = s.flushed /\ t.stack = s.stack

\* Everything is the same.
LEMMA ContentsImage ==
    ASSUME NEW s, NEW t, Contents(s, t), t.const = s.const, Image(s)
    PROVE  Image(t)
BY DEF Contents, Aside, Image

\* Two such steps.
LEMMA ContentsTransitive ==
    ASSUME NEW s, NEW t, NEW u, Contents(s, t), Contents(t, u)
    PROVE  Contents(s, u)
BY DEF Contents, Aside

\* FreeMipsRegister forgets the mapping and keeps the contents.
LEMMA DeleteContents ==
    ASSUME NEW s, Typed(s), NEW k \in Host
    PROVE  Contents(s, Delete(s, k))
<1>1. k # None
  BY HostFacts
<1>2. QED
  BY <1>1 DEF Delete, Contents, Aside, Typed

\* FlushRegister on what holds the values.
LEMMA FlushContents ==
    ASSUME NEW s, Typed(s), NEW k \in Host, s.map[k].hi \in Host
    PROVE  Contents(IF s.map[k].dirty /\ s.map[k].mips # R0 THEN WriteBackDirty(s, k) ELSE s, FlushRegister(s, k))
<1> DEFINE u == IF s.map[k].dirty /\ s.map[k].mips # R0 THEN WriteBackDirty(s, k) ELSE s
           h == s.map[k].hi
           v == Delete(u, h)
           t == Delete(v, k)
<1>1. Typed(WriteBackDirty(s, k))
  BY DEF WriteBackDirty, Typed
<1>2. Typed(u)
  BY <1>1
<1> HIDE DEF u
<1>3. Typed(v) /\ Contents(u, v)
  BY <1>2, DeleteEffect, DeleteContents
<1> HIDE DEF v
<1>4. Contents(v, t)
  BY <1>3, DeleteContents
<1>5. Contents(u, t)
  BY <1>3, <1>4, ContentsTransitive
<1>6. t = FlushRegister(s, k)
  BY DEF FlushRegister, u, v
<1>7. QED
  BY <1>5, <1>6 DEF u

\* WriteBackDirty sign-extends the host register of a 32-bit register.
LEMMA WriteBackNarrow ==
    ASSUME NEW s, Typed(s), NEW k, s.map[k].hi = k, NEW t, Contents(WriteBackDirty(s, k), t)
    PROVE  /\ Aside(s, t) /\ t.stack = s.stack
           /\ t.gpr = [s.gpr EXCEPT ![s.map[k].mips] = Sext(s.host[k])]
           /\ t.host = [s.host EXCEPT ![k] = SignOf(s.host[k])]
           /\ t.flushed = [s.flushed EXCEPT ![s.map[k].mips] = TRUE]
<1>1. WriteBackDirty(s, k) = [s EXCEPT !.gpr[s.map[k].mips] = Sext(s.host[k]), !.host[k] = SignOf(@),
                                       !.flushed[s.map[k].mips] = TRUE]
  BY DEF WriteBackDirty
<1>2. QED
  BY <1>1 DEF Contents, Aside, Typed

\* A 64-bit register is stored as it is.
LEMMA WriteBackWide ==
    ASSUME NEW s, Typed(s), NEW k, s.map[k].hi # k, NEW t, Contents(WriteBackDirty(s, k), t)
    PROVE  /\ Aside(s, t) /\ t.stack = s.stack /\ t.host = s.host
           /\ t.gpr = [s.gpr EXCEPT ![s.map[k].mips] = Pair(s.host[k], s.host[s.map[k].hi])]
           /\ t.flushed = [s.flushed EXCEPT ![s.map[k].mips] = FALSE]
<1>1. WriteBackDirty(s, k) = [s EXCEPT !.gpr[s.map[k].mips] = Pair(s.host[k], s.host[s.map[k].hi]),
                                       !.flushed[s.map[k].mips] = FALSE]
  BY DEF WriteBackDirty
<1>2. QED
  BY <1>1 DEF Contents, Aside, Typed

\* FlushRegister loses no value: what is dirty is written back, what is clean is
\* in memory.
LEMMA FlushFollows ==
    ASSUME NEW s, NEW p, Good(s, p), NEW k \in Host, s.map[k].mips \in Reg,
           NEW m, NEW Z, Follows(s, m, Z)
    PROVE  Follows(FlushRegister(s, k), m, Z)
<1> DEFINE t == FlushRegister(s, k)
           h == s.map[k].hi
           r == s.map[k].mips
           u == IF s.map[k].dirty /\ r # R0 THEN WriteBackDirty(s, k) ELSE s
<1>1. /\ Typed(s) /\ Image(s) /\ h \in Host /\ (h = k \/ s.map[h].mips = HighWord)
      /\ r # R0 => s.const[r] = NoConst
  BY DEF Good, Consistent, Follows
<1>2. t.const = s.const /\ Vacated(s.map, t.map, k)
  BY <1>1, FlushEffect DEF Rest
<1>3. Contents(u, t)
  BY <1>1, FlushContents
<1> HIDE DEF t
<1>4. s.host[k] \in Word /\ s.host[h] \in Word
  BY <1>1 DEF Image
<1>5. /\ Sext(s.host[k]) \in Double /\ IsWord(Sext(s.host[k])) /\ SignOf(s.host[k]) \in Word
      /\ Pair(s.host[k], s.host[h]) \in Double
  <2>1. \A a, b \in Word : Pair(a, b) \in Double
    BY Pairs
  <2>2. \A a \in Word : Sext(a) \in Double /\ IsWord(Sext(a)) /\ SignOf(a) \in Word
    BY Signs, Extended
  <2> HIDE DEF h, r, u
  <2>3. QED
    BY <1>4, <2>1, <2>2
<1>a. ASSUME s.map[k].dirty /\ r # R0 /\ h = k
      PROVE  /\ Image(t) /\ Aside(s, t) /\ \A q \in Reg \ {r} : t.gpr[q] = s.gpr[q]
             /\ \A j \in Host \ {k} : t.host[j] = s.host[j]
             /\ s.map[k].dirty /\ r # R0 => t.gpr[r] = IF h = k THEN Sext(s.host[k]) ELSE Pair(s.host[k], s.host[h])
             /\ ~(s.map[k].dirty /\ r # R0) => t.gpr[r] = s.gpr[r]
  <2>1. /\ t.gpr = [s.gpr EXCEPT ![r] = Sext(s.host[k])] /\ t.host = [s.host EXCEPT ![k] = SignOf(s.host[k])]
        /\ t.flushed = [s.flushed EXCEPT ![r] = TRUE] /\ t.stack = s.stack /\ Aside(s, t)
    <3>1. Contents(WriteBackDirty(s, k), t)
      BY <1>3, <1>a
    <3>2. QED
      BY <1>1, <1>a, <3>1, WriteBackNarrow
  <2>2. Image(t)
    BY <1>1, <1>2, <1>5, <1>a, <2>1 DEF Image, Aside
  <2>3. QED
    BY <1>1, <1>a, <2>1, <2>2 DEF Image
<1>b. ASSUME s.map[k].dirty /\ r # R0 /\ h # k
      PROVE  /\ Image(t) /\ Aside(s, t) /\ \A q \in Reg \ {r} : t.gpr[q] = s.gpr[q]
             /\ \A j \in Host \ {k} : t.host[j] = s.host[j]
             /\ s.map[k].dirty /\ r # R0 => t.gpr[r] = IF h = k THEN Sext(s.host[k]) ELSE Pair(s.host[k], s.host[h])
             /\ ~(s.map[k].dirty /\ r # R0) => t.gpr[r] = s.gpr[r]
  <2>1. /\ t.gpr = [s.gpr EXCEPT ![r] = Pair(s.host[k], s.host[h])] /\ t.host = s.host
        /\ t.flushed = [s.flushed EXCEPT ![r] = FALSE] /\ t.stack = s.stack /\ Aside(s, t)
    <3>1. Contents(WriteBackDirty(s, k), t)
      BY <1>3, <1>b
    <3>2. Typed(s) /\ s.map[k].hi # k
      BY <1>1, <1>b
    <3> HIDE DEF h, r, u
    <3>3. QED
      BY <3>1, <3>2, WriteBackWide DEF h, r
  <2>2. Image(t)
    BY <1>1, <1>2, <1>5, <1>b, <2>1 DEF Image, Aside
  <2>3. QED
    BY <1>1, <1>b, <2>1, <2>2 DEF Image
<1>c. ASSUME ~(s.map[k].dirty /\ r # R0)
      PROVE  /\ Image(t) /\ Aside(s, t) /\ \A q \in Reg \ {r} : t.gpr[q] = s.gpr[q]
             /\ \A j \in Host \ {k} : t.host[j] = s.host[j]
             /\ s.map[k].dirty /\ r # R0 => t.gpr[r] = IF h = k THEN Sext(s.host[k]) ELSE Pair(s.host[k], s.host[h])
             /\ ~(s.map[k].dirty /\ r # R0) => t.gpr[r] = s.gpr[r]
  <2>1. Contents(s, t)
    BY <1>3, <1>c
  <2>2. QED
    BY <1>1, <1>2, <1>c, <2>1, ContentsImage DEF Contents
<1>7. /\ Image(t) /\ Aside(s, t) /\ \A q \in Reg \ {r} : t.gpr[q] = s.gpr[q]
      /\ \A j \in Host \ {k} : t.host[j] = s.host[j]
      /\ s.map[k].dirty /\ r # R0 => t.gpr[r] = IF h = k THEN Sext(s.host[k]) ELSE Pair(s.host[k], s.host[h])
      /\ ~(s.map[k].dirty /\ r # R0) => t.gpr[r] = s.gpr[r]
  BY <1>a, <1>b, <1>c
<1>8. Kept(s, t, r)
  <2>1. ASSUME NEW j \in Host, s.map[j].mips \in Reg \ {r}
        PROVE  /\ t.map[j] = s.map[j] /\ s.map[j].hi \in Host
               /\ j # k /\ s.map[j].hi # k
    <3>1. s.map[j].hi \in Host /\ (s.map[j].hi = j \/ s.map[s.map[j].hi].mips = HighWord)
      BY <2>1 DEF Good, Consistent
    <3>2. QED
      BY <1>1, <1>2, <2>1, <3>1, MarkFacts DEF Vacated
  <2>2. ASSUME NEW j \in Host, t.map[j].mips \in Reg
        PROVE  t.map[j].mips = s.map[j].mips
    BY <1>1, <1>2, <2>2, MarkFacts DEF Vacated
  <2>3. QED
    BY <1>2, <1>7, <2>1, <2>2 DEF Kept
<1>9. Follows(t, m, Z \cup {r})
  BY <1>7, <1>8, KeptFollows
<1>10. ASSUME r \notin Z
       PROVE  Shown(t, m.gpr[r], r)
  <2>1. Shown(s, m.gpr[r], r) /\ m.gpr[r] \in Double /\ m.gpr[R0] = 0 /\ s.gpr[R0] = 0
    BY <1>10 DEF Follows, Machine, Image
  <2>2. \A j \in Host : t.map[j].mips # r
    <3>1. ASSUME NEW j \in Host, t.map[j].mips = r
          PROVE  FALSE
      <4>1. s.map[j].mips = r /\ j # k
        BY <1>1, <1>2, <3>1, MarkFacts DEF Vacated
      <4>2. QED
        BY <4>1 DEF Good, Consistent
    <3>2. QED
      BY <3>1
  <2>3. m.gpr[r] = t.gpr[r]
    <3>1. CASE ~(s.map[k].dirty /\ r # R0)
      BY <1>7, <2>1, <3>1 DEF Shown
    <3>2. CASE s.map[k].dirty /\ r # R0
      <4>1. /\ m.gpr[r] = Pair(Low(m.gpr[r]), High(m.gpr[r]))
            /\ IsWord(m.gpr[r]) => m.gpr[r] = Sext(Low(m.gpr[r]))
        BY <2>1, Pairs, Extended
      <4>2. QED
        BY <1>7, <2>1, <3>2, <4>1 DEF Shown
    <3>3. QED
      BY <3>1, <3>2
  <2>4. QED
    BY <1>2, <2>1, <2>2, <2>3 DEF Shown
<1>11. QED
  BY <1>9, <1>10, SameFollows DEF t

-------------------------------------------------------------------------------
(* What is taken away or written down                                        *)

\* From s to t only registers other than r keep their entries, and what holds
\* values changes for r alone.
LEMMA ReleasedFollows ==
    ASSUME NEW s, NEW p, Good(s, p), NEW m, NEW Z, Follows(s, m, Z), NEW r \in Reg, NEW t, Image(t),
           Aside(s, t), t.host = s.host,
           \A q \in Reg \ {r} : t.gpr[q] = s.gpr[q] /\ t.const[q] = s.const[q],
           \A k \in Host : t.map[k] = s.map[k] \/ t.map[k].mips \in {Unused, r},
           \A k \in Host : s.map[k].mips \in Reg \ {r} => t.map[k] = s.map[k]
    PROVE  Follows(t, m, Z \cup {r})
<1>1. Kept(s, t, r)
  BY MarkFacts DEF Kept
<1>2. QED
  BY <1>1, KeptFollows

\* A register that is neither a constant nor mapped is in memory.
LEMMA RestingFollows ==
    ASSUME NEW t, NEW m, NEW Z, NEW r \in Reg, Follows(t, m, Z \cup {r}),
           t.const[r] = NoConst, \A k \in Host : t.map[k].mips # r
    PROVE  t.gpr[r] \in Double /\ Follows(t, With(m, r, t.gpr[r]), Z \ {r})
<1>1. t.gpr[r] \in Double /\ (r = R0 => t.gpr[r] = 0)
  BY DEF Follows, Image
<1>2. Shown(t, t.gpr[r], r)
  BY DEF Shown
<1>3. Follows(t, m, (Z \ {r}) \cup {r})
  BY DEF Follows
<1>4. QED
  BY <1>1, <1>2, <1>3, ShownFollows

\* Drop writes nothing.
LEMMA DropContents ==
    ASSUME NEW u, Typed(u), NEW k \in Host \cup {None}, k # None => u.map[k].hi \in Host
    PROVE  Contents(u, Drop(u, k))
<1>1. CASE k = None
  BY <1>1 DEF Drop, Contents, Aside
<1>2. CASE k # None
  <2> DEFINE e == [u.map[k] EXCEPT !.dirty = FALSE]
             v == [u EXCEPT !.map[k].dirty = FALSE]
  <2>1. k \in Host /\ u.map \in MapType /\ u.map[k] \in EntryType
    BY <1>2 DEF Typed, MapType
  <2>2. e \in EntryType /\ e.hi = u.map[k].hi /\ ~e.dirty
    BY <2>1 DEF EntryType
  <2>3. v = [u EXCEPT !.map[k] = e]
    BY <2>1 DEF Typed
  <2>4. Typed(v) /\ v.map = [u.map EXCEPT ![k] = e]
    <3> HIDE DEF e, v
    <3>1. QED
      BY <2>1, <2>2, <2>3, SetEntry
  <2>5. Contents(u, v)
    BY DEF Contents, Aside, Typed
  <2>6. v.map[k].hi \in Host /\ ~v.map[k].dirty
    BY <1>2, <2>1, <2>2, <2>4 DEF MapType
  <2> HIDE DEF e, v
  <2>7. Contents(v, FlushRegister(v, k))
    BY <2>1, <2>4, <2>6, FlushContents
  <2>8. Drop(u, k) = FlushRegister(v, k)
    BY <1>2 DEF Drop, v
  <2>9. QED
    BY <2>5, <2>7, <2>8, ContentsTransitive
<1>3. QED
  BY <1>1, <1>2

\* Dropping a register leaves the others where they are.
LEMMA DropFollows ==
    ASSUME NEW s, NEW p, Good(s, p), NEW r \in Reg, NEW m, NEW Z, Follows(s, m, Z),
           NEW u, Typed(u), Contents(s, u), u.map = s.map, u.errors = {}, u.const[R0] = 0,
           \A q \in Reg \ {r} : u.const[q] = s.const[q], u.const \in [Reg -> Word \cup {NoConst}]
    PROVE  LET t == Drop(u, Where(s, r))
           IN  /\ Follows(t, m, Z \cup {r}) /\ t.const = u.const /\ t.gpr = s.gpr /\ t.host = s.host
               /\ \A k \in Host : t.map[k].mips # r
<1> DEFINE t == Drop(u, Where(s, r))
           k == Where(s, r)
<1>1. /\ t.const = u.const /\ \A j \in Host : t.map[j].mips # r
      /\ \A j \in Host : t.map[j] = s.map[j] \/ t.map[j].mips = Unused
      /\ \A j \in Host : s.map[j].mips \in Reg \ {r} => t.map[j] = s.map[j]
  BY DropGood
<1>2. k \in Host \cup {None} /\ (k # None => s.map[k].hi \in Host)
  <2>1. k # None => k \in Host /\ s.map[k].mips = r
    BY WhereIs DEF Good
  <2> HIDE DEF k
  <2>2. QED
    BY <2>1 DEF Good, Consistent
<1> HIDE DEF k
<1>3. Contents(u, t)
  BY <1>2, DropContents DEF k
<1> HIDE DEF t
<1>4. Contents(s, t)
  BY <1>3, ContentsTransitive
<1>5. Image(s) /\ t.host = s.host /\ t.gpr = s.gpr /\ t.flushed = s.flushed /\ t.stack = s.stack /\ Aside(s, t)
  BY <1>4 DEF Contents, Follows
<1>6. Image(t)
  BY <1>1, <1>5 DEF Image, Aside
<1>7. Follows(t, m, Z \cup {r})
  BY <1>1, <1>5, <1>6, ReleasedFollows
<1>8. QED
  BY <1>1, <1>5, <1>7 DEF t

\* FreeMipsRegister leaves r what its place in memory says.
LEMMA FreeMipsFollows ==
    ASSUME NEW s, NEW p, Good(s, p), NEW r \in Reg, NEW m, NEW Z, Follows(s, m, Z)
    PROVE  s.gpr[r] \in Double /\ Follows(FreeMipsRegister(s, r), With(m, r, s.gpr[r]), Z \ {r})
<1> DEFINE u == IF r = R0 THEN s ELSE [s EXCEPT !.const[r] = NoConst]
           t == Drop(u, Where(s, r))
<1>0. Typed(s) /\ s.const[R0] = 0 /\ s.errors = {} /\ Image(s)
  BY DEF Good, Consistent, Follows
<1>1. /\ Typed(u) /\ u.map = s.map /\ u.errors = {} /\ (r # R0 => u.const[r] = NoConst)
      /\ \A q \in Reg \ {r} : u.const[q] = s.const[q]
  BY <1>0, SetConst
<1>2. u.const[R0] = 0 /\ Contents(s, u) /\ u.const \in [Reg -> Word \cup {NoConst}]
  <2>1. CASE r = R0
    BY <1>0, <2>1 DEF Contents, Aside, Image
  <2>2. CASE r # R0
    <3>1. u.const = [s.const EXCEPT ![r] = NoConst] /\ Contents(s, u)
      BY <1>0, <2>2 DEF Contents, Aside, Typed
    <3>2. QED
      BY <1>0, <2>2, <3>1 DEF Image
  <2>3. QED
    BY <2>1, <2>2
<1> HIDE DEF u
<1>3. /\ Follows(t, m, Z \cup {r}) /\ t.const = u.const /\ t.gpr = s.gpr
      /\ \A k \in Host : t.map[k].mips # r
  BY <1>0, <1>1, <1>2, DropFollows
<1>4. t = FreeMipsRegister(s, r)
  BY DEF FreeMipsRegister, u
<1> HIDE DEF t
<1>5. CASE r # R0
  BY <1>1, <1>3, <1>4, <1>5, RestingFollows
<1>6. CASE r = R0
  <2>1. s.gpr[r] = 0 /\ 0 \in Double
    BY <1>0, <1>6, Signs DEF Image
  <2>2. Shown(t, 0, r)
    BY <1>2, <1>3, <1>6, <2>1, Extended DEF Shown
  <2>3. Follows(t, m, (Z \ {r}) \cup {r})
    BY <1>3 DEF Follows
  <2>4. QED
    BY <1>4, <2>1, <2>2, <2>3, ShownFollows
<1>7. QED
  BY <1>5, <1>6

\* A constant: the value a register of the machine gets.
Constants(r, value) == IF r = R0 THEN 0 ELSE Sext(value)

\* A constant that is written down is the register's value.
LEMMA MapConstFollows ==
    ASSUME NEW s, NEW p, Good(s, p), NEW r \in Reg, NEW m, NEW Z, Follows(s, m, Z), NEW value \in Word
    PROVE  Follows(MapConst(s, r, value), With(m, r, Constants(r, value)), Z \ {r})
<1> DEFINE w == IF r = R0 THEN 0 ELSE value
           u == [s EXCEPT !.const[r] = w]
           t == Drop(u, Where(s, r))
<1>0. Typed(s) /\ s.const[R0] = 0 /\ s.errors = {} /\ Image(s)
  BY DEF Good, Consistent, Follows
<1>1. /\ Typed(u) /\ u.map = s.map /\ u.errors = {} /\ u.const[r] = w
      /\ \A q \in Reg \ {r} : u.const[q] = s.const[q]
  BY <1>0, SetConst
<1>2. Contents(s, u) /\ u.const = [s.const EXCEPT ![r] = w]
  BY <1>0 DEF Contents, Aside, Typed
<1>3. w \in Word /\ u.const[R0] = 0
  BY <1>0, <1>1, MarkFacts, Signs
<1>4. u.const \in [Reg -> Word \cup {NoConst}]
  BY <1>0, <1>2, <1>3 DEF Image
<1>5. t = MapConst(s, r, value)
  BY DEF MapConst
<1> HIDE DEF u
<1>6. /\ Follows(t, m, Z \cup {r}) /\ t.const = u.const /\ t.gpr = s.gpr
      /\ \A k \in Host : t.map[k].mips # r
  <2> HIDE DEF w
  <2>1. /\ Typed(u) /\ Contents(s, u) /\ u.map = s.map /\ u.errors = {} /\ u.const[R0] = 0
        /\ u.const \in [Reg -> Word \cup {NoConst}] /\ \A q \in Reg \ {r} : u.const[q] = s.const[q]
    BY <1>1, <1>2, <1>3, <1>4
  <2>2. QED
    BY <2>1, DropFollows
<1> HIDE DEF t
<1>7. Constants(r, value) = Sext(w) /\ Sext(w) \in Double /\ (r = R0 => Sext(w) = 0)
  BY <1>3, Extended DEF Constants
<1>8. w # NoConst
  BY <1>3, MarksAssumption
<1>9. Shown(t, Sext(w), r)
  BY <1>1, <1>6, <1>8 DEF Shown
<1>10. Follows(t, m, (Z \ {r}) \cup {r})
  BY <1>6 DEF Follows
<1>11. QED
  BY <1>5, <1>7, <1>9, <1>10, ShownFollows

\* A constant is written back.
LEMMA FlushOneConstantFollows ==
    ASSUME NEW s, NEW p, Good(s, p), NEW r \in Reg, NEW m, NEW Z, Follows(s, m, Z)
    PROVE  Follows(FlushOneConstant(s, r), m, Z)
<1>1. CASE r = R0 \/ ~IsConst(s, r)
  BY <1>1 DEF FlushOneConstant
<1>2. CASE ~(r = R0 \/ ~IsConst(s, r))
  <2> DEFINE c == s.const[r]
             t == [s EXCEPT !.gpr[r] = Sext(c), !.const[r] = NoConst, !.flushed[r] = TRUE]
  <2>1. Where(s, r) = None /\ \A k \in Host : s.map[k].mips # r
    BY <1>2, ConstNowhere
  <2>2. FlushOneConstant(s, r) = t
    BY <1>2, <2>1 DEF FlushOneConstant, Drop
  <2>3. Typed(s) /\ Image(s) /\ c \in Word
    BY <1>2 DEF Good, Follows, Image, IsConst
  <2>4. Sext(c) \in Double /\ IsWord(Sext(c))
    BY <2>3, Extended
  <2>5. /\ t.gpr = [s.gpr EXCEPT ![r] = Sext(c)] /\ t.const = [s.const EXCEPT ![r] = NoConst]
        /\ t.flushed = [s.flushed EXCEPT ![r] = TRUE] /\ t.map = s.map /\ t.host = s.host
        /\ t.stack = s.stack /\ Aside(s, t)
    BY <2>3 DEF Typed, Aside
  <2> HIDE DEF t, c
  <2>6. Image(t) /\ t.gpr[r] = Sext(c) /\ t.const[r] = NoConst
    BY <1>2, <2>3, <2>4, <2>5 DEF Image, Aside
  <2>7. Follows(t, m, Z \cup {r})
    <3>1. \A q \in Reg \ {r} : t.gpr[q] = s.gpr[q] /\ t.const[q] = s.const[q]
      BY <2>3, <2>5 DEF Image
    <3>2. QED
      BY <2>5, <2>6, <3>1, ReleasedFollows
  <2>8. r \in Z \/ Shown(t, m.gpr[r], r)
    BY <1>2, <2>1, <2>5, <2>6 DEF Follows, Shown, IsConst, c
  <2>9. QED
    BY <2>2, <2>7, <2>8, SameFollows
<1>3. QED
  BY <1>1, <1>2

\* FlushConstants writes the constants back and forgets them, but for r0.
LEMMA FlushConstantsFollows ==
    ASSUME NEW s, NEW p, Good(s, p), NEW m, NEW Z, Follows(s, m, Z)
    PROVE  LET t == FlushConstants(s)
           IN  Follows(t, m, Z) /\ Good(t, p) /\ \A r \in Reg \ {R0} : t.const[r] = NoConst
<1> DEFINE t == FlushConstants(s)
<1>1. Typed(s) /\ Image(s) /\ s.errors = {} /\ Consistent(s.map, s.const) /\ s.const[R0] = 0
  BY DEF Good, Follows, Consistent
<1>2. /\ Typed(t) /\ t.map = s.map /\ t.errors = s.errors /\ t.host = s.host /\ t.stack = s.stack
      /\ t.gpr = [r \in Reg |-> IF r # R0 /\ IsConst(s, r) THEN Sext(s.const[r]) ELSE s.gpr[r]]
      /\ t.flushed = [r \in Reg |-> s.flushed[r] \/ (r # R0 /\ IsConst(s, r))]
      /\ t.const = [r \in Reg |-> IF r = R0 THEN 0 ELSE NoConst] /\ Aside(s, t)
  BY <1>1 DEF FlushConstants, Typed, Aside
<1> HIDE DEF t
<1>3. \A r \in Reg : IsConst(s, r) => s.const[r] \in Word /\ Sext(s.const[r]) \in Double /\ IsWord(Sext(s.const[r]))
  BY <1>1, Extended DEF Image, IsConst
<1>4. Image(t)
  <2>1. t.gpr \in [Reg -> Double] /\ t.gpr[R0] = 0
    BY <1>1, <1>2, <1>3, MarkFacts DEF Image
  <2>2. \A r \in Reg : t.flushed[r] => IsWord(t.gpr[r])
    BY <1>1, <1>2, <1>3 DEF Image
  <2>3. t.flushed \in [Reg -> BOOLEAN] /\ t.const \in [Reg -> Word \cup {NoConst}]
    BY <1>1, <1>2, Signs DEF Image
  <2>4. QED
    BY <1>1, <1>2, <2>1, <2>2, <2>3 DEF Image, Aside
<1>5. \A r \in Reg : t.const[r] = IF r = R0 THEN 0 ELSE NoConst
  BY <1>2
<1>6. Good(t, p)
  <2>1. t.const[R0] = 0
    BY <1>5, MarkFacts
  <2>2. \A q \in Reg : t.const[q] = s.const[q] \/ t.const[q] = NoConst
    BY <1>1, <1>5
  <2>3. Consistent(s.map, t.const)
    BY <1>1, <2>1, <2>2, ConstConsistent
  <2>4. QED
    BY <1>1, <1>2, <2>3 DEF Good
<1>7. ASSUME NEW r \in Reg \ Z PROVE Shown(t, m.gpr[r], r)
  <2>1. Shown(s, m.gpr[r], r)
    BY <1>7 DEF Follows
  <2>2. CASE r = R0 \/ ~IsConst(s, r)
    <3>1. t.const[r] = s.const[r] /\ t.gpr[r] = s.gpr[r]
      BY <1>1, <1>2, <1>5, <2>2 DEF IsConst
    <3>2. QED
      BY <1>2, <2>1, <3>1 DEF Shown
  <2>3. CASE r # R0 /\ IsConst(s, r)
    <3>1. \A k \in Host : s.map[k].mips # r
      BY <2>3, ConstNowhere
    <3>2. t.const[r] = NoConst /\ t.gpr[r] = m.gpr[r]
      BY <1>2, <1>5, <2>1, <2>3 DEF Shown, IsConst
    <3>3. QED
      BY <1>2, <3>1, <3>2 DEF Shown
  <2>4. QED
    BY <2>2, <2>3
<1>8. Aside(t, m)
  BY <1>2 DEF Follows, Aside
<1>9. QED
  BY <1>4, <1>5, <1>6, <1>7, <1>8 DEF Follows, t

\* FlushMapped stores what the host registers hold.
LEMMA FlushMappedFollows ==
    ASSUME NEW s, NEW p, Good(s, p), NEW m, NEW Z, Follows(s, m, Z),
           \A r \in Reg \ {R0} : s.const[r] = NoConst
    PROVE  LET t == FlushMapped(s)
           IN  Follows(t, m, Z) /\ \A r \in Reg \ Z : t.gpr[r] = m.gpr[r]
<1> DEFINE t == FlushMapped(s)
           none == Entry(Unused, FALSE, FALSE, None, FirstYear)
<1>1. /\ Typed(s) /\ Image(s) /\ s.errors = {} /\ Consistent(s.map, s.const) /\ s.const[R0] = 0
      /\ Machine(m) /\ Aside(s, m)
  BY DEF Good, Follows, Consistent
<1>2. /\ t.host = s.host /\ t.stack = s.stack /\ t.const = s.const
      /\ t.gpr = [r \in Reg |-> Stored(s, r, Where(s, r))]
      /\ t.map = [k \in Host |-> IF s.map[k].mips = Protected THEN s.map[k] ELSE none]
      /\ t.flushed = [r \in Reg |-> r = R0 /\ s.flushed[r]] /\ Aside(s, t)
  BY <1>1 DEF FlushMapped, Typed, Aside
<1> HIDE DEF t
<1>3. none.mips = Unused
  BY DEF Entry
<1> HIDE DEF none
<1>4. \A k \in Host : t.map[k].mips \notin Reg
  BY <1>2, <1>3, MarkFacts
<1>5. ASSUME NEW r \in Reg
      PROVE  /\ t.gpr[r] \in Double /\ (r = R0 => t.gpr[r] = 0)
             /\ r \notin Z => t.gpr[r] = m.gpr[r]
  <2> DEFINE k == Where(s, r)
  <2>1. /\ k # None => k \in Host /\ s.map[k].mips = r
        /\ k = None => \A j \in Host : s.map[j].mips # r
    BY <1>1, WhereIs
  <2>2. t.gpr[r] = Stored(s, r, k)
    BY <1>2
  <2> HIDE DEF k
  <2>3. s.gpr[r] \in Double /\ s.gpr[R0] = 0 /\ m.gpr[R0] = 0 /\ m.gpr[r] \in Double
    BY <1>1 DEF Image, Machine
  <2>4. r \notin Z => Shown(s, m.gpr[r], r)
    BY DEF Follows
  <2>5. CASE k = None \/ r = R0
    BY <1>1, <2>1, <2>2, <2>3, <2>4, <2>5 DEF Stored, Shown
  <2>6. CASE k # None /\ r # R0 /\ ~s.map[k].dirty
    BY <1>1, <2>1, <2>2, <2>3, <2>4, <2>6 DEF Stored, Shown
  <2>7. CASE k # None /\ r # R0 /\ s.map[k].dirty
    <3> DEFINE h == s.map[k].hi
    <3>1. h \in Host /\ s.host[k] \in Word /\ s.host[h] \in Word
      BY <1>1, <2>1, <2>7 DEF Consistent, Image
    <3>2. /\ m.gpr[r] = Pair(Low(m.gpr[r]), High(m.gpr[r]))
          /\ IsWord(m.gpr[r]) => m.gpr[r] = Sext(Low(m.gpr[r]))
      BY <2>3, Pairs, Extended
    <3>3. t.gpr[r] = IF h = k THEN Sext(s.host[k]) ELSE Pair(s.host[k], s.host[h])
      BY <2>2, <2>7 DEF Stored
    <3> HIDE DEF h
    <3>4. t.gpr[r] \in Double
      BY <3>1, <3>3, Pairs, Extended
    <3>5. r \notin Z => t.gpr[r] = m.gpr[r]
      BY <2>1, <2>4, <2>7, <3>2, <3>3 DEF Shown, h
    <3>6. QED
      BY <2>7, <3>4, <3>5
  <2>8. QED
    BY <2>5, <2>6, <2>7
<1>6. Image(t)
  <2>1. t.gpr \in [Reg -> Double] /\ t.gpr[R0] = 0
    BY <1>2, <1>5, MarkFacts
  <2>2. \A r \in Reg : t.flushed[r] => IsWord(t.gpr[r])
    BY <1>2, <2>1, Extended
  <2>3. t.flushed \in [Reg -> BOOLEAN]
    BY <1>1, <1>2 DEF Image
  <2>4. QED
    BY <1>1, <1>2, <2>1, <2>2, <2>3 DEF Image, Aside
<1>7. ASSUME NEW r \in Reg \ Z PROVE Shown(t, m.gpr[r], r)
  <2>1. t.const[r] # NoConst => r = R0 /\ t.const[r] = 0
    BY <1>1, <1>2
  <2>2. m.gpr[R0] = 0 /\ Sext(0) = 0
    BY <1>1, Extended DEF Machine
  <2>3. QED
    BY <1>4, <1>5, <2>1, <2>2 DEF Shown
<1>8. Aside(t, m)
  BY <1>1, <1>2 DEF Aside
<1>9. QED
  BY <1>1, <1>5, <1>6, <1>7, <1>8 DEF Follows, t

\* FlushAllRegisters writes the machine back: every register of the memory image
\* is the interpreter's.
THEOREM FlushAllFollows ==
    ASSUME NEW s, NEW p, Good(s, p), NEW m, NEW Z, Follows(s, m, Z)
    PROVE  LET t == FlushAllRegisters(s)
           IN  Follows(t, m, Z) /\ \A r \in Reg \ Z : t.gpr[r] = m.gpr[r]
<1> DEFINE u == FlushConstants(s)
<1>1. Follows(u, m, Z) /\ Good(u, p) /\ \A r \in Reg \ {R0} : u.const[r] = NoConst
  BY FlushConstantsFollows
<1> HIDE DEF u
<1>2. QED
  BY <1>1, FlushMappedFollows DEF FlushAllRegisters, u

-------------------------------------------------------------------------------
(* Room in the host registers                                                *)

\* k holds nothing of another register than r.
Spare(s, r, k) ==
    \/ s.map[k].mips \in {Unused, r}
    \/ \E j \in Host : s.map[j].mips = r /\ s.map[j].hi = k

\* What is written to spare host registers keeps the others.
LEMMA BesideKept ==
    ASSUME NEW s, NEW p, Good(s, p), NEW r \in Reg, NEW t, Beside(s, t, r, Reg), Aside(s, t),
           \A q \in Reg \ {r} : t.gpr[q] = s.gpr[q],
           \A k \in Host : t.host[k] = s.host[k] \/ Spare(s, r, k)
    PROVE  Kept(s, t, r)
<1>1. ASSUME NEW j \in Host, s.map[j].mips \in Reg \ {r}
      PROVE  t.map[j] = s.map[j] /\ t.host[j] = s.host[j] /\ t.host[s.map[j].hi] = s.host[s.map[j].hi]
  <2>1. s.map[j].hi \in Host /\ (s.map[j].hi = j \/ s.map[s.map[j].hi].mips = HighWord)
    BY <1>1 DEF Good, Consistent
  <2>2. \A i \in Host : s.map[i].mips = r => i # j /\ s.map[i].hi # s.map[j].hi
    BY <1>1 DEF Good, Consistent
  <2>3. ~Spare(s, r, s.map[j].hi)
    BY <1>1, <2>1, <2>2, MarkFacts DEF Spare
  <2>4. ~Spare(s, r, j)
    <3>1. \A i \in Host : s.map[i].mips = r => s.map[i].hi = i \/ s.map[s.map[i].hi].mips = HighWord
      BY DEF Good, Consistent
    <3>2. QED
      BY <1>1, <2>2, <3>1, MarkFacts DEF Spare
  <2>5. t.map[j] = s.map[j]
    BY <1>1 DEF Beside
  <2>6. QED
    BY <2>1, <2>3, <2>4, <2>5
<1>2. \A k \in Host : t.map[k].mips \in Reg \ {r} => t.map[k].mips = s.map[k].mips
  BY DEF Beside
<1>3. \A q \in Reg \ {r} : t.const[q] = s.const[q]
  BY DEF Beside
<1>4. QED
  BY <1>1, <1>2, <1>3 DEF Kept

\* A step that only touches spare host registers loses at most the register r.
LEMMA BesideFollows ==
    ASSUME NEW s, NEW p, Good(s, p), NEW m, NEW Z, Follows(s, m, Z), NEW r \in Reg, NEW t, Image(t),
           Beside(s, t, r, Reg), Aside(s, t), \A q \in Reg \ {r} : t.gpr[q] = s.gpr[q],
           \A k \in Host : t.host[k] = s.host[k] \/ Spare(s, r, k)
    PROVE  Follows(t, m, Z \cup {r})
BY BesideKept, KeptFollows

\* Making room.
LEMMA EvictFollows ==
    ASSUME NEW s, NEW p, Good(s, p), NEW k \in Host, s.map[k].mips \in Reg, NEW m, NEW Z, Follows(s, m, Z)
    PROVE  Follows(EvictOneOf(s, k), m, Z)
<1>1. ~(s.map[k].mips # R0 /\ IsConst(s, s.map[k].mips))
  BY DEF Good, Consistent, IsConst
<1>2. EvictOneOf(s, k) = FlushRegister(s, k)
  BY <1>1 DEF EvictOneOf, Evict
<1>3. QED
  BY <1>2, FlushFollows

\* Making room for one word,
LEMMA RoomForFollows ==
    ASSUME NEW s, NEW p, Good(s, p), NEW need, NEW K, NEW m, NEW Z, Follows(s, m, Z)
    PROVE  Follows(RoomFor(s, need, K), m, Z)
<1>1. CASE Cardinality(Free(s)) >= need
  BY <1>1 DEF RoomFor
<1>2. CASE ~(Cardinality(Free(s)) >= need)
  <2>1. CASE \A k \in Mapped(s) : s.map[k].mips \in K
    <3> DEFINE t == Report(s, "Could not flush a register!!")
    <3>1. RoomFor(s, need, K) = t
      BY <1>2, <2>1 DEF RoomFor, FlushOneButNotThese3
    <3>2. /\ t.map = s.map /\ t.const = s.const /\ t.gpr = s.gpr /\ t.host = s.host /\ t.stack = s.stack
          /\ t.flushed = s.flushed /\ Aside(s, t)
      BY DEF Report, Aside, Good, Typed
    <3> HIDE DEF t
    <3>3. Image(t)
      BY <3>2 DEF Image, Aside, Follows
    <3>4. \A r \in Reg : Shown(s, m.gpr[r], r) => Shown(t, m.gpr[r], r)
      BY <3>2 DEF Shown
    <3>5. QED
      BY <3>1, <3>2, <3>3, <3>4 DEF Follows, Aside
  <2>2. CASE ~(\A k \in Mapped(s) : s.map[k].mips \in K)
    <3> DEFINE S == {k \in Mapped(s) : s.map[k].mips \notin K}
    <3>1. S \subseteq Host /\ S # {}
      BY <2>2 DEF Mapped
    <3>2. Victim(s, S) \in S
      BY <3>1, VictimChosen DEF Good, Typed
    <3>3. Victim(s, S) \in Host /\ s.map[Victim(s, S)].mips \in Reg
      BY <3>2 DEF Mapped
    <3>4. RoomFor(s, need, K) = EvictOneOf(s, Victim(s, S))
      BY <1>2, <2>2 DEF RoomFor, FlushOneButNotThese3
    <3> HIDE DEF S
    <3>5. QED
      BY <3>3, <3>4, EvictFollows
  <2>3. QED
    BY <2>1, <2>2
<1>3. QED
  BY <1>1, <1>2

\* and for one or two, loses no register's value.
LEMMA MakeRoomFollows ==
    ASSUME NEW s, NEW p, Good(s, p), NEW need \in {1, 2}, NEW K, Bounded(s, p, need, K), NEW m, NEW Z, Follows(s, m, Z)
    PROVE  Follows(MakeRoom(s, need, K), m, Z)
<1>1. CASE need = 1
  BY <1>1, RoomForFollows DEF MakeRoom
<1>2. CASE need = 2
  <2> DEFINE u == RoomFor(s, 2, K)
  <2>1. Good(u, p) /\ Follows(u, m, Z)
    BY <1>2, RoomForGood, RoomForFollows
  <2> HIDE DEF u
  <2>2. Follows(RoomFor(u, 2, K), m, Z)
    BY <2>1, RoomForFollows
  <2>3. QED
    BY <1>2, <2>2 DEF MakeRoom, RoomForTwo, u
<1>3. QED
  BY <1>1, <1>2

-------------------------------------------------------------------------------
(* Loading a register                                                        *)

\* What a request for the register c.mips leaves: the others are as before, and
\* where atLo and atHi say so the halves of the register are there.
Loaded(m, M, c, Z, atLo, atHi) ==
    /\ Follows(m.s, M, Z \cup {c.mips})
    /\ c.is32 /\ c.dirty => m.hi = m.x
    /\ atLo /\ c.mips \notin Z => m.s.host[m.x] = Low(M.gpr[c.mips])
    /\ atLo /\ atHi /\ c.mips \notin Z =>
         /\ m.hi # m.x => m.s.host[m.hi] = High(M.gpr[c.mips])
         /\ ~c.dirty \/ ~c.is32 \/ IsWord(M.gpr[c.mips]) => Follows(m.s, M, Z)

\* A register that is where the map says shows its value.
LEMMA HeldShown ==
    ASSUME NEW t, NEW p, Good(t, p), NEW r \in Reg, NEW k \in Host, t.map[k].mips = r,
           NEW v, r = R0 => v = 0, t.host[k] = Low(v),
           t.map[k].hi # k => t.host[t.map[k].hi] = High(v),
           ~t.map[k].dirty => v = t.gpr[r], t.map[k].dirty /\ t.map[k].hi = k => IsWord(v)
    PROVE  Shown(t, v, r)
<1>1. t.const[r] # NoConst => v = Sext(t.const[r])
  <2>1. r # R0 => t.const[r] = NoConst
    BY DEF Good, Consistent
  <2>2. t.const[R0] = 0
    BY DEF Good, Consistent
  <2>3. QED
    BY <2>1, <2>2, Extended
<1>2. \A j \in Host : t.map[j].mips = r => j = k
  BY DEF Good, Consistent
<1>3. QED
  BY <1>1, <1>2 DEF Shown

\* The contents after map_reg.
LEMMA LoadLoContents ==
    ASSUME NEW s, Typed(s), Image(s), NEW c \in RequestType, NEW k \in Host
    PROVE  LET t == LoadLo(s, c, k)
               w == IF c.mips = R0 THEN 0 ELSE Low(s.gpr[c.mips])
           IN  /\ Typed(t) /\ Image(t) /\ Aside(s, t) /\ t.gpr = s.gpr /\ t.flushed = s.flushed /\ t.const = s.const
               /\ t.map = s.map
               /\ \A j \in Host \ {k} : t.host[j] = s.host[j]
               /\ ~c.noLo => t.host[k] = w
<1> DEFINE t == LoadLo(s, c, k)
           w == IF c.mips = R0 THEN 0 ELSE Low(s.gpr[c.mips])
<1>1. w \in Word
  <2>1. s.gpr[c.mips] \in Double
    BY RequestFacts DEF Image
  <2>2. QED
    BY <2>1, Pairs, Signs
<1>2. Typed(t) /\ Same(s, t)
  BY LoadLoEffect
<1>3. /\ Aside(s, t) /\ t.gpr = s.gpr /\ t.flushed = s.flushed /\ t.stack = s.stack
      /\ t.host = IF c.noLo THEN s.host ELSE [s.host EXCEPT ![k] = w]
  BY DEF LoadLo, Mov, Aside, Typed
<1> HIDE DEF t, w
<1>4. t.host \in [Host -> Word] /\ (\A j \in Host \ {k} : t.host[j] = s.host[j]) /\ (~c.noLo => t.host[k] = w)
  BY <1>1, <1>3 DEF Image
<1>5. Image(t)
  BY <1>2, <1>3, <1>4 DEF Image, Aside, Same, Rest
<1>6. QED
  BY <1>2, <1>3, <1>4, <1>5 DEF t, w, Same, Rest

\* The high word that LoadHi reads.
LEMMA LoadHiValue ==
    ASSUME NEW s, Image(s), NEW r \in Reg, NEW w \in Word
    PROVE  /\ LoadHi(s, r, w) \in Word
           /\ w = Low(s.gpr[r]) => LoadHi(s, r, w) = High(s.gpr[r])
<1>1. s.gpr[r] \in Double /\ s.gpr[R0] = 0 /\ (s.flushed[r] => IsWord(s.gpr[r]))
  BY DEF Image
<1>2. SignOf(w) \in Word /\ 0 \in Word /\ High(s.gpr[r]) \in Word
  BY <1>1, Signs, Pairs
<1>3. s.flushed[r] => High(s.gpr[r]) = SignOf(Low(s.gpr[r]))
  BY <1>1, Extended
<1>4. High(0) = 0
  BY Extended
<1>5. QED
  BY <1>1, <1>2, <1>3, <1>4 DEF LoadHi

\* Loading both words of a register changes two host registers.
LEMMA LoadBothContents ==
    ASSUME NEW s, Typed(s), Image(s), NEW c \in RequestType, NEW k \in Host, NEW h \in Host, h # k
    PROVE  LET t == LoadBoth(s, c, k, h)
           IN  /\ Typed(t) /\ Image(t) /\ Aside(s, t) /\ t.gpr = s.gpr /\ t.flushed = s.flushed /\ t.const = s.const
               /\ t.map = s.map
               /\ \A j \in Host \ {h} : t.host[j] = s.host[j]
               /\ ~c.noHi /\ s.host[k] = Low(s.gpr[c.mips]) => t.host[h] = High(s.gpr[c.mips])
<1> DEFINE t == LoadBoth(s, c, k, h)
           w == LoadHi(s, c.mips, s.host[k])
<1>1. w \in Word /\ (s.host[k] = Low(s.gpr[c.mips]) => w = High(s.gpr[c.mips]))
  <2>1. s.host[k] \in Word /\ c.mips \in Reg
    BY RequestFacts DEF Image
  <2>2. QED
    BY <2>1, LoadHiValue
<1>2. Typed(t) /\ Same(s, t)
  BY LoadBothEffect
<1>3. /\ Aside(s, t) /\ t.gpr = s.gpr /\ t.flushed = s.flushed /\ t.stack = s.stack
      /\ t.host = IF c.noHi THEN s.host ELSE [s.host EXCEPT ![h] = w]
  BY DEF LoadBoth, Mov, Aside, Typed
<1> HIDE DEF t, w
<1>4. t.host \in [Host -> Word] /\ (\A j \in Host \ {h} : t.host[j] = s.host[j]) /\ (~c.noHi => t.host[h] = w)
  BY <1>1, <1>3 DEF Image
<1>5. Image(t)
  BY <1>2, <1>3, <1>4 DEF Image, Aside, Same, Rest
<1>6. QED
  BY <1>1, <1>2, <1>3, <1>4, <1>5 DEF t, Same, Rest

\* What a missing register is worth.
LEMMA MissingValue ==
    ASSUME NEW s, NEW M, NEW Z, Follows(s, M, Z), NEW c, Missing(s, c)
    PROVE  /\ M.gpr[c.mips] \in Double /\ (c.mips = R0 => M.gpr[c.mips] = 0 /\ s.gpr[c.mips] = 0)
           /\ c.mips \notin Z => M.gpr[c.mips] = s.gpr[c.mips]
<1>1. c.mips \in Reg /\ s.gpr[R0] = 0 /\ M.gpr[R0] = 0 /\ M.gpr \in [Reg -> Double]
  BY RequestFacts DEF Missing, Follows, Image, Machine
<1>2. c.mips \notin Z /\ c.mips # R0 => M.gpr[c.mips] = s.gpr[c.mips]
  BY <1>1 DEF Missing, Follows, Shown
<1>3. QED
  BY <1>1, <1>2

\* A free host register takes a word of the register asked for,
LEMMA TakeOneFollows ==
    ASSUME NEW s, NEW p, Good(s, p), NEW c, Missing(s, c), c.is32,
           NEW k \in Host, s.map[k].mips = Unused, NEW M, NEW Z, Follows(s, M, Z)
    PROVE  Loaded(TakeOne(s, c, k), M, c, Z, ~c.noLo, ~c.noHi)
<1> DEFINE m == TakeOne(s, c, k)
           a == LoadLo(s, c, k)
           e == Entry(c.mips, TRUE, c.dirty, k, s.year)
           t == [UseNow(a, c.mips) EXCEPT !.map[k] = e]
           r == c.mips
           v == M.gpr[r]
           w == IF c.mips = R0 THEN 0 ELSE Low(s.gpr[c.mips])
<1>1. c \in RequestType /\ r \in Reg /\ Typed(s) /\ Image(s) /\ s.map \in MapType
  BY RequestFacts DEF Missing, Good, Follows, Typed
<1>2. Answers(s, m, c, p, Reg)
  BY TakeOneGood
<1>3. /\ Typed(a) /\ Image(a) /\ Aside(s, a) /\ a.gpr = s.gpr /\ a.map = s.map /\ a.flushed = s.flushed /\ a.const = s.const
      /\ \A j \in Host \ {k} : a.host[j] = s.host[j]
      /\ ~c.noLo => a.host[k] = w
  BY <1>1, LoadLoContents
<1>4. m.s = t /\ m.x = k /\ m.hi = k
  BY DEF TakeOne
<1> HIDE DEF a
<1>5. /\ t.gpr = a.gpr /\ t.host = a.host /\ t.flushed = a.flushed /\ t.stack = a.stack
      /\ t.const = a.const /\ Aside(a, t) /\ t.map[k] = e
  BY <1>1, <1>3 DEF UseNow, Typed, Aside, MapType
<1>6. e.dirty = c.dirty /\ e.hi = k
  BY DEF Entry
<1> HIDE DEF t, e, m, w
<1>7. Image(t) /\ Aside(s, t)
  BY <1>3, <1>5 DEF Image, Aside
<1>8. Follows(t, M, Z \cup {r})
  <2>1. \A j \in Host : t.host[j] = s.host[j] \/ Spare(s, r, j)
    BY <1>3, <1>5 DEF Spare
  <2>2. Beside(s, t, r, Reg)
    BY <1>2, <1>4 DEF Answers
  <2>3. QED
    BY <1>1, <1>3, <1>5, <1>7, <2>1, <2>2, BesideFollows
<1>9. /\ v \in Double /\ (r = R0 => v = 0 /\ s.gpr[r] = 0) /\ (r \notin Z => v = s.gpr[r])
  BY MissingValue
<1>10. ~c.noLo /\ r \notin Z => t.host[k] = Low(v)
  BY <1>3, <1>5, <1>9, Extended DEF w
<1>11. ASSUME ~c.noLo, r \notin Z, ~c.dirty \/ IsWord(v)
       PROVE  Follows(t, M, Z)
  <2>1. Good(t, p) /\ t.map[k].mips = r
    BY <1>2, <1>4 DEF Answers
  <2>2. Shown(t, v, r)
    BY <1>1, <1>3, <1>5, <1>6, <1>9, <1>10, <1>11, <2>1, HeldShown
  <2>3. QED
    BY <1>1, <1>8, <2>2, SameFollows
<1>12. QED
  BY <1>4, <1>8, <1>10, <1>11 DEF Loaded, m

\* and two of them both words.
LEMMA TakeTwoFollows ==
    ASSUME NEW s, NEW p, Good(s, p), NEW c, Missing(s, c), ~c.is32,
           NEW k \in Host, s.map[k].mips = Unused,
           NEW h \in Host, s.map[h].mips = Unused, h # k, NEW M, NEW Z, Follows(s, M, Z)
    PROVE  Loaded(TakeTwo(s, c, k, h), M, c, Z, ~c.noLo, ~c.noHi)
<1> DEFINE m == TakeTwo(s, c, k, h)
           a == LoadLo(s, c, k)
           b == LoadBoth(a, c, k, h)
           e == Entry(c.mips, FALSE, c.dirty, h, s.year)
           f == Entry(HighWord, s.map[h].is32, s.map[h].dirty, s.map[h].hi, s.year)
           t == [UseNow(b, c.mips) EXCEPT !.map[k] = e, !.map[h] = f, !.flushed[c.mips] = FALSE]
           r == c.mips
           v == M.gpr[r]
           w == IF c.mips = R0 THEN 0 ELSE Low(s.gpr[c.mips])
<1>1. c \in RequestType /\ r \in Reg /\ Typed(s) /\ Image(s) /\ s.map \in MapType
  BY RequestFacts DEF Missing, Good, Follows, Typed
<1>2. Answers(s, m, c, p, Reg)
  BY TakeTwoGood
<1>3. /\ Typed(a) /\ Image(a) /\ Aside(s, a) /\ a.gpr = s.gpr /\ a.map = s.map /\ a.flushed = s.flushed /\ a.const = s.const
      /\ \A j \in Host \ {k} : a.host[j] = s.host[j]
      /\ ~c.noLo => a.host[k] = w
  BY <1>1, LoadLoContents
<1>4. m.s = t /\ m.x = k /\ m.hi = h
  BY DEF TakeTwo
<1> HIDE DEF a
<1>3a. /\ Typed(b) /\ Image(b) /\ Aside(a, b) /\ b.gpr = a.gpr /\ b.map = a.map /\ b.flushed = a.flushed /\ b.const = a.const
       /\ \A j \in Host \ {h} : b.host[j] = a.host[j]
       /\ ~c.noHi /\ a.host[k] = Low(a.gpr[c.mips]) => b.host[h] = High(a.gpr[c.mips])
  BY <1>1, <1>3, LoadBothContents
<1> HIDE DEF b, e, f
<1>5. /\ t.gpr = b.gpr /\ t.host = b.host /\ t.flushed = [b.flushed EXCEPT ![r] = FALSE] /\ t.stack = b.stack
      /\ t.const = b.const /\ Aside(b, t) /\ t.map[k] = e
  BY <1>1, <1>3, <1>3a DEF UseNow, Typed, Aside, MapType
<1>6. e.dirty = c.dirty /\ e.hi = h
  BY DEF Entry, e
<1> HIDE DEF t, m, w
<1>7. Image(t) /\ Aside(s, t)
  BY <1>1, <1>3, <1>3a, <1>5 DEF Image, Aside
<1>8. Follows(t, M, Z \cup {r})
  <2>1. \A j \in Host : t.host[j] = s.host[j] \/ Spare(s, r, j)
    <3>1. Spare(s, r, k) /\ Spare(s, r, h)
      BY DEF Spare
    <3>2. \A j \in Host \ {k, h} : t.host[j] = b.host[j] /\ b.host[j] = a.host[j] /\ a.host[j] = s.host[j]
      BY <1>3, <1>3a, <1>5
    <3>3. QED
      BY <3>1, <3>2
  <2>2. Beside(s, t, r, Reg)
    BY <1>2, <1>4 DEF Answers
  <2>3. t.gpr = s.gpr
    BY <1>3, <1>3a, <1>5
  <2>4. QED
    BY <1>1, <1>7, <2>1, <2>2, <2>3, BesideFollows
<1>9. /\ v \in Double /\ (r = R0 => v = 0 /\ s.gpr[r] = 0) /\ (r \notin Z => v = s.gpr[r])
  BY MissingValue
<1>10. ~c.noLo /\ r \notin Z => a.host[k] = Low(v) /\ t.host[k] = Low(v)
  <2>1. t.host[k] = a.host[k]
    BY <1>3a, <1>5
  <2>2. r \notin Z => w = Low(v)
    BY <1>9, Extended DEF w
  <2>3. QED
    BY <1>3, <2>1, <2>2
<1>11. ASSUME ~c.noLo, ~c.noHi, r \notin Z
       PROVE  t.host[h] = High(v) /\ Follows(t, M, Z)
  <2>1. Good(t, p) /\ t.map[k].mips = r
    BY <1>2, <1>4 DEF Answers
  <2>2. t.host[h] = High(v)
    BY <1>3, <1>3a, <1>5, <1>9, <1>10, <1>11
  <2>3. t.gpr[r] = v
    BY <1>3, <1>3a, <1>5, <1>9, <1>11
  <2>4. Shown(t, v, r)
    BY <1>1, <1>5, <1>6, <1>9, <1>10, <1>11, <2>1, <2>2, <2>3, HeldShown
  <2>5. QED
    BY <1>1, <1>8, <2>2, <2>4, SameFollows
<1>12. QED
  BY <1>4, <1>8, <1>10, <1>11 DEF Loaded, m

\* Changing the map of one register changes nothing else.
LEMMA MapFollows ==
    ASSUME NEW s, NEW p, Good(s, p), NEW M, NEW Z, Follows(s, M, Z), NEW r \in Reg, NEW t,
           Beside(s, t, r, Reg), Contents(s, t), t.const = s.const
    PROVE  Follows(t, M, Z \cup {r}) /\ Image(t)
<1>1. Image(t) /\ Aside(s, t) /\ t.gpr = s.gpr /\ t.host = s.host
  BY ContentsImage DEF Contents, Follows
<1>2. QED
  BY <1>1, BesideFollows

\* Losing the high word.
LEMMA NarrowFollows ==
    ASSUME NEW s, NEW p, Good(s, p), NEW k \in Host, s.map[k].mips \in Reg, s.map[k].hi # k,
           NEW M, NEW Z, Follows(s, M, Z)
    PROVE  LET t == ConvertRegTo32bit(s, k)
           IN  /\ Follows(t, M, Z \cup {s.map[k].mips}) /\ t.host = s.host /\ t.gpr = s.gpr
               /\ t.map[k].dirty = s.map[k].dirty
<1> DEFINE t == ConvertRegTo32bit(s, k)
           h == s.map[k].hi
           r == s.map[k].mips
           u == Delete(s, h)
<1>1. Good(t, p) /\ Beside(s, t, r, Reg)
  BY NarrowGood
<1>2. h \in Host /\ Typed(s) /\ s.map \in MapType
  BY DEF Good, Consistent, Typed
<1>3. /\ Typed(u) /\ Rest(s, u) /\ u.map = [s.map EXCEPT ![h] = Entry(Unused, FALSE, FALSE, None, s.year)]
      /\ Contents(s, u)
  BY <1>2, DeleteEffect, DeleteContents
<1>4. u.map[k] = s.map[k] /\ u.map[k] \in EntryType
  BY <1>2, <1>3 DEF MapType
<1>5. t = [u EXCEPT !.map[k].hi = k, !.map[k].is32 = TRUE, !.map[k].birth = s.year]
  BY DEF ConvertRegTo32bit
<1> HIDE DEF t, u
<1>6. Contents(u, t) /\ t.const = u.const /\ t.map[k].dirty = u.map[k].dirty
  BY <1>3, <1>4, <1>5 DEF Contents, Aside, Typed, EntryType, MapType
<1>7. Contents(s, t) /\ t.const = s.const
  BY <1>3, <1>6, ContentsTransitive DEF Rest
<1>8. Follows(t, M, Z \cup {r})
  BY <1>1, <1>7, MapFollows
<1>9. QED
  BY <1>4, <1>6, <1>7, <1>8 DEF Contents, t

\* Getting one.
LEMMA WidenFollows ==
    ASSUME NEW s, NEW p, Good(s, p), NEW k \in Host, s.map[k].mips \in Reg, s.map[k].hi = k,
           NEW c, c.mips = s.map[k].mips, NEW h \in Host, s.map[h].mips = Unused,
           NEW M, NEW Z, Follows(s, M, Z)
    PROVE  LET t == Widen(s, k, c, h)
               v == M.gpr[c.mips]
           IN  /\ Follows(t, M, Z \cup {c.mips}) /\ t.gpr = s.gpr
               /\ t.host[k] = s.host[k] /\ t.map[k].dirty = s.map[k].dirty
               /\ c.mips \notin Z /\ (~c.noHi \/ ~s.map[k].dirty) => t.host[h] = High(v)
<1> DEFINE w == IF ~s.map[k].dirty THEN LoadHi(s, c.mips, s.host[k])
                ELSE IF c.noHi THEN s.host[h] ELSE SignOf(s.host[k])
           e == [s.map[k] EXCEPT !.hi = h, !.is32 = FALSE]
           t == Widen(s, k, c, h)
           r == c.mips
           v == M.gpr[r]
<1>1. /\ Good(t, p) /\ Beside(s, t, r, Reg) /\ t.map[k].mips = r /\ t.map[k].hi = h /\ h # k
  BY WidenGood
<1>2. /\ Typed(s) /\ Image(s) /\ s.map \in MapType /\ s.map[k] \in EntryType /\ r \in Reg
      /\ s.host[k] \in Word /\ s.host[h] \in Word
  BY DEF Good, Typed, Follows, Image, MapType
<1>3. w \in Word /\ (s.host[k] = Low(s.gpr[r]) /\ ~s.map[k].dirty => w = High(s.gpr[r]))
  BY <1>2, LoadHiValue, Signs
<1>4. /\ t.gpr = s.gpr /\ t.host = [s.host EXCEPT ![h] = w] /\ t.flushed = [s.flushed EXCEPT ![r] = FALSE]
      /\ t.stack = s.stack /\ t.const = s.const /\ Aside(s, t)
  BY <1>2 DEF Widen, Typed, Aside
<1>5. t.map[k].dirty = s.map[k].dirty
  BY <1>1, <1>2 DEF Widen, Typed, MapType, EntryType
<1> HIDE DEF t, w
<1>6. Image(t) /\ t.host[k] = s.host[k] /\ t.host[h] = w /\ \A j \in Host \ {h} : t.host[j] = s.host[j]
  BY <1>1, <1>2, <1>3, <1>4 DEF Image, Aside
<1>7. Follows(t, M, Z \cup {r})
  <2>1. Spare(s, r, h) /\ \A j \in Host : t.host[j] = s.host[j] \/ Spare(s, r, j)
    BY <1>6 DEF Spare
  <2>2. Image(t) /\ Aside(s, t) /\ t.gpr = s.gpr /\ r \in Reg /\ Beside(s, t, r, Reg)
    BY <1>1, <1>2, <1>4, <1>6
  <2> HIDE DEF r, v, e
  <2>3. QED
    BY <2>1, <2>2, BesideFollows
<1>8. ASSUME r \notin Z, ~c.noHi \/ ~s.map[k].dirty
      PROVE  w = High(v)
  <2>1. v \in Double /\ Shown(s, v, r)
    BY <1>2, <1>8 DEF Follows, Machine
  <2>2. s.host[k] = Low(v) /\ (~s.map[k].dirty => v = s.gpr[r]) /\ (s.map[k].dirty => IsWord(v))
    BY <2>1 DEF Shown
  <2>3. IsWord(v) => High(v) = SignOf(Low(v))
    BY <2>1, Extended
  <2>4. CASE ~s.map[k].dirty
    BY <1>3, <2>2, <2>4
  <2>5. CASE s.map[k].dirty
    BY <1>8, <2>2, <2>3, <2>5 DEF w
  <2>6. QED
    BY <2>4, <2>5
<1>9. QED
  BY <1>4, <1>5, <1>6, <1>7, <1>8 DEF t

\* Using the register in the form it is in.
LEMMA UsedFollows ==
    ASSUME NEW s, NEW p, Good(s, p), NEW c \in RequestType, NEW k \in Host,
           s.map[k].mips = c.mips, NEW is32 \in BOOLEAN, is32 <=> s.map[k].hi = k,
           ~c.is32 => s.map[k].hi # k, NEW M, NEW Z, Follows(s, M, Z)
    PROVE  LET m == Converted(s, k, c, is32)
           IN  /\ Follows(m.s, M, Z \cup {c.mips}) /\ m.s.host = s.host /\ m.s.gpr = s.gpr
               /\ m.x = k /\ m.hi = s.map[k].hi
               /\ m.s.map[k].dirty <=> s.map[k].dirty \/ c.dirty
<1> DEFINE new == [j \in Host |->
                     IF j = k THEN Entry(s.map[k].mips, is32, s.map[k].dirty \/ c.dirty,
                                         s.map[k].hi, s.year)
                     ELSE IF j = s.map[k].hi THEN [s.map[s.map[k].hi] EXCEPT !.birth = s.year] ELSE s.map[j]]
           t == [s EXCEPT !.map = new]
           m == [s |-> t, x |-> k, hi |-> s.map[k].hi]
<1>1. Answers(s, Converted(s, k, c, is32), c, p, Reg)
  BY UsedGood
<1>2. Converted(s, k, c, is32) = m
  BY DEF Converted, Used, Good, Typed
<1>3. new[k].dirty <=> s.map[k].dirty \/ c.dirty
  BY DEF Entry
<1> HIDE DEF new
<1>4. Contents(s, t) /\ t.const = s.const /\ t.map = new
  BY DEF Contents, Aside, Good, Typed
<1> HIDE DEF t
<1>5. m.s = t /\ m.x = k /\ m.hi = s.map[k].hi
  OBVIOUS
<1> HIDE DEF m
<1>6. Beside(s, t, c.mips, Reg)
  BY <1>1, <1>2, <1>5 DEF Answers
<1>7. Follows(t, M, Z \cup {c.mips})
  BY <1>4, <1>6, RequestFacts, MapFollows
<1>8. QED
  BY <1>2, <1>3, <1>4, <1>5, <1>7 DEF Contents

\* A request for a register that has a place: whatever it asks to be loaded, the
\* low word is there, and the high word unless it has been left out.
LEMMA ConvertFollows ==
    ASSUME NEW s, NEW p, Good(s, p), NEW c, NEW keep, Allowed(c, p, keep),
           NEW k \in Host, s.map[k].mips = c.mips, NEW M, NEW Z, Follows(s, M, Z)
    PROVE  Loaded(ConvertReg(s, k, c, keep), M, c, Z, TRUE, ~c.noHi \/ c.is32 \/ s.map[k].hi # k)
<1> DEFINE t == IF ~c.is32 THEN ConvertRegTo64bit(s, k, c, keep)
                ELSE IF s.map[k].hi # k /\ c.dirty THEN ConvertRegTo32bit(s, k) ELSE s
           is32 == c.is32 /\ (s.map[k].hi = k \/ c.dirty)
           r == c.mips
           v == M.gpr[r]
           all == ~c.noHi \/ c.is32 \/ s.map[k].hi # k
           m == Converted(t, k, c, is32)
<1>0. /\ c \in RequestType /\ r \in Reg /\ c.is32 \in BOOLEAN /\ c.dirty \in BOOLEAN /\ c.noHi \in BOOLEAN
      /\ keep \subseteq Reg /\ s.map[k].mips \in Reg /\ is32 \in BOOLEAN
  BY RequestFacts, AllowedRoom DEF Allowed, RequestType
<1>1. v \in Double /\ (r = R0 => v = 0)
  BY <1>0 DEF Follows, Machine
<1>2. r \notin Z => Shown(s, v, r)
  BY <1>0 DEF Follows
<1>3. r \notin Z => /\ s.host[k] = Low(v) /\ (s.map[k].hi # k => s.host[s.map[k].hi] = High(v))
                    /\ (~s.map[k].dirty => v = s.gpr[r])
                    /\ (s.map[k].dirty /\ s.map[k].hi = k => IsWord(v))
  BY <1>2 DEF Shown
<1>4. /\ Good(t, p) /\ t.map[k].mips = r /\ (is32 <=> t.map[k].hi = k) /\ Follows(t, M, Z \cup {r})
      /\ r \notin Z =>
           /\ t.host[k] = Low(v)
           /\ all /\ t.map[k].hi # k => t.host[t.map[k].hi] = High(v)
           /\ ~t.map[k].dirty => v = t.gpr[r]
           /\ ~c.dirty /\ t.map[k].dirty /\ t.map[k].hi = k => IsWord(v)
  <2>1. CASE ~c.is32 /\ s.map[k].hi # k
    <3>1. t = s
      BY <2>1 DEF ConvertRegTo64bit
    <3>2. QED
      BY <1>3, <2>1, <3>1, FewerFollows
  <2>2. CASE ~c.is32 /\ s.map[k].hi = k
    <3> DEFINE u == MakeRoom(s, 1, keep \cup {r})
               h == Min(Free(u))
    <3>1. t = Widen(u, k, c, h)
      BY <2>2 DEF ConvertRegTo64bit, LastFree, MakeRoom
    <3>2. Bounded(s, p, 1, keep \cup {r})
      <4>1. \A j \in Host : s.map[j].mips = r => s.map[j].hi = j
        BY <1>0, <2>2 DEF Good, Consistent
      <4>2. QED
        BY <2>2, <4>1, AllowedRoom
    <3>3. /\ Good(u, p) /\ Cardinality(Free(u)) >= 1 /\ u.map[k] = s.map[k] /\ Follows(u, M, Z)
      <4> DEFINE K == keep \cup {r}
      <4>1. K \subseteq Reg /\ Bounded(s, p, 1, K) /\ u = MakeRoom(s, 1, K) /\ r \in K
        BY <1>0, <3>2
      <4> HIDE DEF K, u
      <4>2. /\ Good(u, p) /\ Cardinality(Free(u)) >= 1 /\ \A j \in Host : s.map[j].mips \in K => u.map[j] = s.map[j]
        BY <4>1, MakeRoomBeside
      <4>3. Follows(u, M, Z)
        BY <4>1, MakeRoomFollows
      <4>4. QED
        BY <4>1, <4>2, <4>3
    <3> HIDE DEF u, t
    <3>4. u.map[k].mips = r /\ u.map[k].mips \in Reg /\ u.map[k].hi = k
      BY <1>0, <2>2, <3>3
    <3>5. h \in Host /\ u.map[h].mips = Unused
      BY <3>3, FreeOnes
    <3> HIDE DEF h
    <3>6. /\ Good(t, p) /\ t.map[k].mips = u.map[k].mips /\ t.map[k].hi = h /\ h # k
      BY <3>1, <3>3, <3>4, <3>5, WidenGood
    <3>7. /\ Follows(t, M, Z \cup {r}) /\ t.gpr = u.gpr
          /\ t.host[k] = u.host[k] /\ t.map[k].dirty = u.map[k].dirty
          /\ r \notin Z /\ (~c.noHi \/ ~u.map[k].dirty) => t.host[h] = High(v)
      <4> HIDE DEF v, m, is32, all
      <4>1. c.mips = u.map[k].mips
        BY <3>4
      <4>2. /\ Follows(Widen(u, k, c, h), M, Z \cup {c.mips}) /\ Widen(u, k, c, h).gpr = u.gpr
            /\ Widen(u, k, c, h).host[k] = u.host[k] /\ Widen(u, k, c, h).map[k].dirty = u.map[k].dirty
            /\ c.mips \notin Z /\ (~c.noHi \/ ~u.map[k].dirty) => Widen(u, k, c, h).host[h] = High(M.gpr[c.mips])
        <5>1. Good(u, p) /\ u.map[k].mips \in Reg /\ u.map[k].hi = k /\ h \in Host /\ u.map[h].mips = Unused /\ Follows(u, M, Z)
          BY <3>3, <3>4, <3>5
        <5> HIDE DEF r
        <5>2. QED
          BY <4>1, <5>1, WidenFollows
      <4>3. QED
        BY <3>1, <4>2 DEF v
    <3>8. r \notin Z => Shown(u, v, r)
      BY <1>0, <3>3 DEF Follows
    <3>9. r \notin Z => u.host[k] = Low(v) /\ (~u.map[k].dirty => v = u.gpr[r])
      BY <3>4, <3>8 DEF Shown
    <3>10. all => ~c.noHi
      BY <2>2
    <3>11. QED
      BY <2>2, <3>4, <3>6, <3>7, <3>9, <3>10
  <2>3. CASE c.is32 /\ s.map[k].hi # k /\ c.dirty
    <3>1. t = ConvertRegTo32bit(s, k)
      BY <2>3
    <3> HIDE DEF t
    <3>2. /\ Good(t, p) /\ t.map[k].mips = s.map[k].mips /\ t.map[k].hi = k
      BY <1>0, <2>3, <3>1, NarrowGood
    <3>3. /\ Follows(t, M, Z \cup {s.map[k].mips}) /\ t.host = s.host /\ t.gpr = s.gpr
          /\ t.map[k].dirty = s.map[k].dirty
      BY <1>0, <2>3, <3>1, NarrowFollows
    <3>4. QED
      BY <1>3, <2>3, <3>2, <3>3
  <2>4. CASE c.is32 /\ (s.map[k].hi = k \/ ~c.dirty)
    <3>1. t = s
      BY <2>4
    <3>2. QED
      BY <1>3, <2>4, <3>1, FewerFollows
  <2>5. QED
    BY <2>1, <2>2, <2>3, <2>4
<1>5. ConvertReg(s, k, c, keep) = m
  BY DEF ConvertReg
<1> HIDE DEF t, is32
<1>6. ~c.is32 => t.map[k].hi # k
  BY <1>4 DEF is32
<1>7. Good(m.s, p) /\ m.s.map[k].mips = r /\ m.s.map[k].hi = m.hi
  <2>1. Answers(t, m, c, p, Reg)
    BY <1>0, <1>4, <1>6, UsedGood
  <2>2. m.x = k
    BY DEF Converted, Used
  <2>3. QED
    BY <2>1, <2>2 DEF Answers
<1>8. /\ Follows(m.s, M, (Z \cup {r}) \cup {r}) /\ m.s.host = t.host /\ m.s.gpr = t.gpr
      /\ m.x = k /\ m.hi = t.map[k].hi
      /\ m.s.map[k].dirty <=> t.map[k].dirty \/ c.dirty
  <2> DEFINE Y == Z \cup {r}
  <2>1. Follows(t, M, Y)
    BY <1>4
  <2> HIDE DEF Y, v, all
  <2>2. /\ Follows(m.s, M, Y \cup {c.mips}) /\ m.s.host = t.host /\ m.s.gpr = t.gpr
        /\ m.x = k /\ m.hi = t.map[k].hi
        /\ m.s.map[k].dirty <=> t.map[k].dirty \/ c.dirty
    <3>1. /\ Good(t, p) /\ c \in RequestType /\ k \in Host /\ t.map[k].mips = c.mips /\ is32 \in BOOLEAN
          /\ (is32 <=> t.map[k].hi = k) /\ (~c.is32 => t.map[k].hi # k) /\ Follows(t, M, Y)
      BY <1>0, <1>4, <1>6, <2>1
    <3> HIDE DEF r
    <3>2. QED
      BY <3>1, UsedFollows
  <2>3. QED
    BY <2>2 DEF Y
<1> HIDE DEF m
<1>9. Follows(m.s, M, Z \cup {r})
  BY <1>8 DEF Follows
<1>10. c.is32 /\ c.dirty => m.hi = m.x
  BY <1>4, <1>8 DEF is32
<1>11. r \notin Z => m.s.host[m.x] = Low(v) /\ (all /\ m.hi # m.x => m.s.host[m.hi] = High(v))
  BY <1>4, <1>8
<1>12. ASSUME r \notin Z, all, ~c.dirty \/ ~c.is32 \/ IsWord(v)
       PROVE  Follows(m.s, M, Z)
  <2>1. m.s.map[k].hi # k => m.s.host[m.s.map[k].hi] = High(v)
    BY <1>4, <1>7, <1>8, <1>12
  <2>2. ~m.s.map[k].dirty => v = m.s.gpr[r]
    BY <1>4, <1>8, <1>12
  <2>3. m.s.map[k].dirty /\ m.s.map[k].hi = k => IsWord(v)
    BY <1>4, <1>6, <1>7, <1>8, <1>12
  <2>4. m.s.host[k] = Low(v)
    BY <1>8, <1>11, <1>12
  <2>5. Shown(m.s, v, r)
    BY <1>0, <1>1, <1>7, <2>1, <2>2, <2>3, <2>4, HeldShown
  <2>6. QED
    BY <1>0, <1>9, <2>5, SameFollows
<1>13. QED
  BY <1>5, <1>9, <1>10, <1>11, <1>12 DEF Loaded

\* Less is loaded, or more is exempt.
LEMMA LoadedLess ==
    ASSUME NEW m, NEW M, NEW c, NEW Z, NEW atLo, NEW atHi, Loaded(m, M, c, Z, atLo, atHi),
           NEW atLo2, atLo2 => atLo, NEW atHi2, atHi2 => atHi
    PROVE  Loaded(m, M, c, Z, atLo2, atHi2)
BY DEF Loaded

\* A load that is not asked to show its words.
LEMMA LoadedFewer ==
    ASSUME NEW m, NEW M, NEW c, NEW Z, NEW atLo, NEW atHi, Loaded(m, M, c, Z \cup {c.mips}, atLo, atHi), NEW atHi2
    PROVE  Loaded(m, M, c, Z, FALSE, atHi2)
<1>1. (Z \cup {c.mips}) \cup {c.mips} = Z \cup {c.mips}
  OBVIOUS
<1>2. QED
  BY <1>1 DEF Loaded

\* A request for a register that has none.
LEMMA MapFreshFollows ==
    ASSUME NEW s, NEW p, Good(s, p), NEW c, NEW keep, Allowed(c, p, keep), Missing(s, c),
           NEW M, NEW Z, Follows(s, M, Z)
    PROVE  Loaded(IF c.is32 THEN Map32bit(s, c, keep) ELSE Map64bit(s, c, keep), M, c, Z, ~c.noLo, ~c.noHi)
<1>1. CASE c.is32
  <2> DEFINE u == MakeRoom(s, 1, keep)
             k == Max(Free(u))
  <2>1. Map32bit(s, c, keep) = TakeOne(u, c, k)
    BY DEF Map32bit, FirstFree, MakeRoom
  <2>2. Bounded(s, p, 1, keep) /\ keep \subseteq Reg
    BY AllowedRoom
  <2>3. Good(u, p) /\ Cardinality(Free(u)) >= 1 /\ Missing(u, c) /\ Follows(u, M, Z)
    BY <2>2, MakeRoomBeside, MakeRoomFollows
  <2> HIDE DEF u
  <2>4. k \in Host /\ u.map[k].mips = Unused
    BY <2>3, FreeOnes
  <2> HIDE DEF k
  <2>5. QED
    BY <1>1, <2>1, <2>3, <2>4, TakeOneFollows
<1>2. CASE ~c.is32
  <2> DEFINE u == MakeRoom(s, 2, keep)
             h == Max(Free(u))
             k == Max(Free(u) \ {h})
  <2>1. Map64bit(s, c, keep) = TakeTwo(u, c, k, h)
    BY DEF Map64bit, FirstTwoFree, SecondFree, MakeRoom
  <2>2. Bounded(s, p, 2, keep) /\ keep \subseteq Reg
    BY <1>2, AllowedRoom
  <2>3. Good(u, p) /\ Cardinality(Free(u)) >= 2 /\ Missing(u, c) /\ Follows(u, M, Z)
    BY <2>2, MakeRoomBeside, MakeRoomFollows
  <2> HIDE DEF u
  <2>4. h \in Host /\ u.map[h].mips = Unused
    <3>1. Cardinality(Free(u)) >= 1
      BY <2>3, FreeSize
    <3>2. QED
      BY <3>1, FreeOnes
  <2> HIDE DEF h
  <2>5. k \in Host /\ u.map[k].mips = Unused /\ k # h
    BY <2>3, <2>4, FreeTwo
  <2> HIDE DEF k
  <2>6. QED
    BY <1>2, <2>1, <2>3, <2>4, <2>5, TakeTwoFollows
<1>3. QED
  BY <1>1, <1>2

-------------------------------------------------------------------------------
(* MapRegister                                                               *)

\* MapRegister after the constant has been dealt with: a constant that is still
\* known is lost.
LEMMA MapPlainFollows ==
    ASSUME NEW s, NEW p, Good(s, p), NEW c, NEW keep, Allowed(c, p, keep), NEW M, NEW Z, Follows(s, M, Z)
    PROVE  Loaded(MapPlain(s, c, keep), M, c, Z,
                  ~c.noLo /\ (c.mips = R0 \/ s.const[c.mips] = NoConst), ~c.noHi)
<1> DEFINE r == c.mips
           known == r # R0 /\ s.const[r] # NoConst
           v == IF r = R0 THEN s.const[r] ELSE NoConst
           t == [s EXCEPT !.const[r] = v]
           k == Where(t, r)
           Y == IF known THEN Z \cup {r} ELSE Z
           m == MapPlainConst(t, c, keep)
<1>0. Typed(s) /\ Image(s) /\ c \in RequestType /\ r \in Reg /\ c.is32 \in BOOLEAN
  BY RequestFacts DEF Good, Allowed, Follows
<1>1. /\ Typed(t) /\ t.map = s.map /\ t.errors = s.errors /\ t.const[r] = v
      /\ \A q \in Reg \ {r} : t.const[q] = s.const[q]
  <2> HIDE DEF v
  <2>1. QED
    BY <1>0, SetConst
<1>2. MapPlain(s, c, keep) = m
  BY <1>0 DEF MapPlain, Typed
<1>2a. Contents(s, t) /\ t.const = [s.const EXCEPT ![r] = v]
  BY <1>0 DEF Contents, Aside, Typed
<1> HIDE DEF t
<1>3. Good(t, p)
  <2>1. t.const[R0] = 0
    BY <1>0, <1>1, MarkFacts DEF Good, Consistent
  <2>2. \A q \in Reg : t.const[q] = s.const[q] \/ t.const[q] = NoConst
    BY <1>1
  <2>3. Consistent(t.map, t.const)
    BY <1>1, <2>1, <2>2, ConstConsistent DEF Good
  <2>4. QED
    BY <1>1, <2>3 DEF Good
<1>4. Follows(t, M, Y)
  <2>1. /\ t.host = s.host /\ t.gpr = s.gpr /\ t.flushed = s.flushed /\ t.stack = s.stack /\ Aside(s, t)
    BY <1>2a DEF Contents
  <2>2. t.const \in [Reg -> Word \cup {NoConst}]
    BY <1>0, <1>2a DEF Image
  <2>3. Image(t)
    BY <1>0, <2>1, <2>2 DEF Image, Aside
  <2>4. Beside(s, t, r, Reg)
    BY <1>1 DEF Beside
  <2>5. Follows(t, M, Z \cup {r})
    BY <1>0, <2>1, <2>3, <2>4, BesideFollows
  <2>6. CASE known
    BY <2>5, <2>6
  <2>7. CASE ~known
    <3>1. t.const[r] = s.const[r]
      BY <1>1, <2>7
    <3>2. r \in Z \/ Shown(t, M.gpr[r], r)
      BY <1>0, <1>1, <2>1, <3>1 DEF Follows, Shown
    <3>3. QED
      BY <1>0, <2>5, <2>7, <3>2, SameFollows
  <2>8. QED
    BY <2>6, <2>7
<1>5. Loaded(m, M, c, Y, ~c.noLo, ~c.noHi)
  <2> HIDE DEF Y
  <2>1. CASE k # None
    <3>1. k \in Host /\ t.map[k].mips = c.mips
      BY <1>0, <1>3, <2>1, WhereIs DEF Good
    <3>2. m = ConvertReg(t, k, c, keep)
      BY <2>1 DEF MapPlainConst
    <3> HIDE DEF k, m
    <3>3. Loaded(ConvertReg(t, k, c, keep), M, c, Y, TRUE, ~c.noHi \/ c.is32 \/ t.map[k].hi # k)
      BY <1>3, <1>4, <3>1, ConvertFollows
    <3>4. QED
      BY <3>2, <3>3, LoadedLess
  <2>2. CASE k = None
    <3>1. \A j \in Host : t.map[j].mips # c.mips
      BY <1>0, <1>3, <2>2, WhereIs DEF Good
    <3>2. Missing(t, c)
      BY <1>0, <1>1, <3>1 DEF Missing
    <3>3. m = IF c.is32 THEN Map32bit(t, c, keep) ELSE Map64bit(t, c, keep)
      BY <2>2 DEF MapPlainConst
    <3> HIDE DEF m
    <3>4. Loaded(IF c.is32 THEN Map32bit(t, c, keep) ELSE Map64bit(t, c, keep), M, c, Y, ~c.noLo, ~c.noHi)
      BY <1>3, <1>4, <3>2, MapFreshFollows
    <3>5. QED
      BY <3>3, <3>4
  <2>3. QED
    BY <2>1, <2>2
<1> HIDE DEF m
<1>6. CASE known
  <2>1. Loaded(m, M, c, Z \cup {c.mips}, ~c.noLo, ~c.noHi)
    BY <1>5, <1>6
  <2>2. Loaded(m, M, c, Z, FALSE, ~c.noHi)
    BY <2>1, LoadedFewer
  <2>3. QED
    BY <1>2, <1>6, <2>2, LoadedLess
<1>7. CASE ~known
  <2>1. Loaded(m, M, c, Z, ~c.noLo, ~c.noHi)
    BY <1>5, <1>7
  <2>2. QED
    BY <1>2, <2>1, LoadedLess
<1>8. QED
  BY <1>6, <1>7

\* And of a register that is mapped: it is not loaded, and need not be.
LEMMA MapAgainFollows ==
    ASSUME NEW s, NEW p, Good(s, p), NEW c, NEW keep, Allowed(c, p, keep),
           NEW k \in Host, s.map[k].mips = c.mips, NEW M, NEW Z, Follows(s, M, Z)
    PROVE  Loaded(MapPlain(s, c, keep), M, c, Z, TRUE, ~c.noHi \/ c.is32 \/ s.map[k].hi # k)
<1> DEFINE r == c.mips
<1>1. r \in Reg /\ Typed(s) /\ s.const \in [Reg -> Word \cup {NoConst}]
  BY RequestFacts DEF Allowed, Good, Follows, Image
<1>2. r # R0 => s.const[r] = NoConst
  BY <1>1 DEF Good, Consistent
<1>3. [s EXCEPT !.const[r] = IF r = R0 THEN @ ELSE NoConst] = s
  <2>1. [s.const EXCEPT ![r] = IF r = R0 THEN @ ELSE NoConst] = s.const
    BY <1>1, <1>2
  <2>2. QED
    BY <1>1, <2>1 DEF Typed
<1>4. Where(s, r) = k
  BY <1>1, WhereIs DEF Good
<1>5. k # None
  BY HostFacts
<1>6. MapPlain(s, c, keep) = ConvertReg(s, k, c, keep)
  BY <1>3, <1>4, <1>5 DEF MapPlain, MapPlainConst
<1> HIDE DEF r
<1>7. Loaded(ConvertReg(s, k, c, keep), M, c, Z, TRUE, ~c.noHi \/ c.is32 \/ s.map[k].hi # k)
  BY ConvertFollows
<1>8. QED
  BY <1>6, <1>7

\* A new year changes nothing else.
LEMMA NextYearFollows ==
    ASSUME NEW s, NEW p, Good(s, p), NEW M, NEW Z, Follows(s, M, Z)
    PROVE  Follows(NextYear(s), M, Z) /\ NextYear(s).const = s.const
<1> DEFINE t == NextYear(s)
<1>1. Contents(s, t) /\ t.const = s.const /\ t.map = s.map
  BY DEF NextYear, Good, Typed, Contents, Aside
<1> HIDE DEF t
<1>2. Image(t) /\ Aside(t, M)
  BY <1>1, ContentsImage DEF Follows, Contents, Aside
<1>3. \A r \in Reg \ Z : Shown(t, M.gpr[r], r)
  BY <1>1 DEF Follows, Shown, Contents
<1>4. QED
  BY <1>1, <1>2, <1>3 DEF Follows, t

\* From s to t, w is put into the host register k and nothing else is changed.
Puts(s, t, k, w) ==
    /\ t.map = s.map /\ t.const = s.const /\ t.gpr = s.gpr
    /\ t.host[k] = w /\ \A j \in Host \ {k} : t.host[j] = s.host[j]

PutsBoth(s, t, k, w, h, x) ==
    /\ t.map = s.map /\ t.const = s.const /\ t.gpr = s.gpr
    /\ t.host[k] = w /\ t.host[h] = x /\ \A j \in Host \ {k, h} : t.host[j] = s.host[j]

\* What is moved to a host register of a register changes that register.
LEMMA MovFollows ==
    ASSUME NEW s, NEW p, Good(s, p), NEW M, NEW Z, NEW r \in Reg, Follows(s, M, Z \cup {r}),
           NEW k \in Host, Spare(s, r, k), NEW w \in Word
    PROVE  /\ Follows(Mov(s, k, w), M, Z \cup {r}) /\ Good(Mov(s, k, w), p)
           /\ Puts(s, Mov(s, k, w), k, w)
<1>0. PICK t : t = Mov(s, k, w)
  OBVIOUS
<1>1. Typed(t) /\ Same(s, t) /\ Typed(s) /\ Image(s)
  BY <1>0, MovSame DEF Good, Follows
<1>2. /\ t.host = [s.host EXCEPT ![k] = w] /\ t.gpr = s.gpr /\ t.flushed = s.flushed /\ t.stack = s.stack
      /\ Aside(s, t)
  BY <1>0, <1>1 DEF Mov, Typed, Aside
<1>3. t.host[k] = w /\ \A j \in Host \ {k} : t.host[j] = s.host[j]
  BY <1>1, <1>2 DEF Image
<1>4. Image(t)
  BY <1>1, <1>2 DEF Image, Aside, Same, Rest
<1>5. Beside(s, t, r, Reg)
  BY <1>1, BesideSame DEF Same, Rest
<1>6. \A j \in Host : t.host[j] = s.host[j] \/ Spare(s, r, j)
  BY <1>3
<1>7. Follows(t, M, (Z \cup {r}) \cup {r})
  BY <1>2, <1>4, <1>5, <1>6, BesideFollows
<1>8. Follows(t, M, Z \cup {r})
  BY <1>7 DEF Follows
<1>9. Good(t, p)
  BY <1>1, SameGood
<1>10. Puts(s, t, k, w)
  BY <1>1, <1>2, <1>3 DEF Same, Rest, Puts
<1>11. QED
  BY <1>0, <1>8, <1>9, <1>10

\* Both halves of a mapped register.
LEMMA MovBothFollows ==
    ASSUME NEW s, NEW p, Good(s, p), NEW M, NEW Z, NEW r \in Reg, Follows(s, M, Z \cup {r}),
           NEW k \in Host, s.map[k].mips = r, NEW h, h = s.map[k].hi, h # k,
           NEW w \in Word, NEW x \in Word
    PROVE  /\ Follows(Mov(Mov(s, k, w), h, x), M, Z \cup {r}) /\ Good(Mov(Mov(s, k, w), h, x), p)
           /\ PutsBoth(s, Mov(Mov(s, k, w), h, x), k, w, h, x)
<1>1. h \in Host /\ Spare(s, r, k) /\ Spare(s, r, h)
  BY DEF Good, Consistent, Spare
<1>2. PICK u : u = Mov(s, k, w)
  OBVIOUS
<1>3. /\ Follows(u, M, Z \cup {r}) /\ Good(u, p) /\ Puts(s, u, k, w)
  BY <1>1, <1>2, MovFollows
<1>4. Spare(u, r, h)
  BY <1>1, <1>3 DEF Spare, Puts
<1>5. Follows(Mov(u, h, x), M, Z \cup {r}) /\ Good(Mov(u, h, x), p) /\ Puts(u, Mov(u, h, x), h, x)
  BY <1>1, <1>3, <1>4, MovFollows
<1>6. QED
  BY <1>2, <1>3, <1>5 DEF Puts, PutsBoth

\* A constant is loaded into the host registers that were mapped for it.
LEMMA LoadConstantFollows ==
    ASSUME NEW m, NEW p, Good(m.s, p), NEW r \in Reg, m.x \in Host, m.s.map[m.x].mips = r,
           m.hi = m.s.map[m.x].hi,
           NEW M, NEW Z, Follows(m.s, M, Z \cup {r}),
           NEW value \in Word, r \notin Z => M.gpr[r] = Sext(value),
           r = R0 \/ m.s.map[m.x].dirty
    PROVE  Follows(LoadConstant(m, value), M, Z)
<1>1. PICK t : t = LoadConstant(m, value)
  OBVIOUS
<1>2. m.s.map[m.x].is32 <=> m.hi = m.x
  BY DEF Good, Consistent
<1>3. SignOf(value) \in Word /\ Spare(m.s, r, m.x)
  BY Signs DEF Spare
<1>4. /\ Follows(t, M, Z \cup {r}) /\ Good(t, p) /\ t.map = m.s.map
      /\ t.gpr = m.s.gpr /\ t.host[m.x] = value /\ (m.hi # m.x => t.host[m.hi] = SignOf(value))
  <2>1. CASE m.hi = m.x
    <3>1. t = Mov(m.s, m.x, value)
      BY <1>1, <1>2, <2>1 DEF LoadConstant
    <3>2. Follows(t, M, Z \cup {r}) /\ Good(t, p) /\ Puts(m.s, t, m.x, value)
      BY <1>3, <3>1, MovFollows
    <3>3. QED
      BY <2>1, <3>2 DEF Puts
  <2>2. CASE m.hi # m.x
    <3>1. t = Mov(Mov(m.s, m.x, value), m.hi, SignOf(value))
      BY <1>1, <1>2, <2>2 DEF LoadConstant
    <3>2. PICK x \in Word : x = SignOf(value)
      BY <1>3
    <3>3. Follows(t, M, Z \cup {r}) /\ Good(t, p) /\ PutsBoth(m.s, t, m.x, value, m.hi, x)
      BY <2>2, <3>1, <3>2, MovBothFollows
    <3>4. QED
      BY <3>2, <3>3 DEF PutsBoth
  <2>3. QED
    BY <2>1, <2>2
<1>5. CASE r \in Z
  BY <1>1, <1>4, <1>5, SameFollows
<1>6. CASE r \notin Z
  <2>1. Low(M.gpr[r]) = value /\ High(M.gpr[r]) = SignOf(value) /\ IsWord(M.gpr[r])
    BY <1>6, Extended
  <2>2. r = R0 => M.gpr[r] = 0 /\ t.gpr[r] = 0
    BY <1>4 DEF Follows, Image, Machine
  <2>3. ~t.map[m.x].dirty => M.gpr[r] = t.gpr[r]
    BY <1>4, <2>2
  <2> DEFINE v == M.gpr[r]
  <2>4. /\ t.map[m.x].mips = r /\ (r = R0 => v = 0) /\ t.host[m.x] = Low(v)
        /\ (t.map[m.x].hi # m.x => t.host[t.map[m.x].hi] = High(v))
        /\ (~t.map[m.x].dirty => v = t.gpr[r])
        /\ (t.map[m.x].dirty /\ t.map[m.x].hi = m.x => IsWord(v))
    BY <1>4, <2>1, <2>2, <2>3
  <2> HIDE DEF v
  <2>5. Shown(t, v, r)
    BY <1>4, <2>4, HeldShown
  <2>6. QED
    BY <1>1, <1>4, <2>5, SameFollows DEF v
<1>7. QED
  BY <1>5, <1>6

\* MapRegister: the request is answered with the register's value, wherever it
\* was, and no other register is changed.
THEOREM MapRegisterFollows ==
    ASSUME NEW s, NEW p, Good(s, p), NEW c, NEW keep, Allowed(c, p, keep), NEW M, NEW Z, Follows(s, M, Z)
    PROVE  Loaded(MapRegister(s, c, keep), M, c, Z, ~c.noLo, ~c.noHi)
<1> DEFINE r == c.mips
           y == NextYear(s)
           c1 == Conditions(r, c.is32, r # R0, TRUE, TRUE)
           m == MapPlain(NextYear(y), c1, keep)
           o == LoadConstant(m, y.const[r])
           c2 == Conditions(r, c.is32, c.dirty \/ r # R0, TRUE, TRUE)
<1>0. c \in RequestType /\ r \in Reg /\ c.is32 \in BOOLEAN /\ c.dirty \in BOOLEAN
  BY RequestFacts DEF Allowed
<1>1. Good(y, p) /\ Follows(y, M, Z) /\ y.const = s.const
  BY NextYearGood, NextYearFollows
<1> HIDE DEF y
<1>2. CASE ~Constant(s, c)
  <2>1. MapRegister(s, c, keep) = MapPlain(y, c, keep)
    BY <1>2 DEF MapRegister, y
  <2>2. Loaded(MapPlain(y, c, keep), M, c, Z, ~c.noLo /\ (c.mips = R0 \/ y.const[c.mips] = NoConst), ~c.noHi)
    <3> HIDE DEF r
    <3>1. QED
      BY <1>1, MapPlainFollows
  <2>3. ~c.noLo => (c.mips = R0 \/ y.const[c.mips] = NoConst)
    BY <1>1, <1>2 DEF Constant, IsConst
  <2>4. QED
    BY <2>1, <2>2, <2>3, LoadedLess
<1>3. CASE Constant(s, c)
  <2>1. MapRegister(s, c, keep) = MapPlain(o, c2, keep)
    BY <1>3 DEF MapRegister, MapOneConstantToRegister, y
  <2>2. /\ Allowed(c1, p, keep) /\ c1.mips = r /\ (c1.dirty <=> r # R0) /\ c1.is32 = c.is32
        /\ Allowed(c2, p, keep) /\ c2.mips = r /\ c2.is32 = c.is32
        /\ c2.dirty = (c.dirty \/ r # R0)
    BY <1>0 DEF Allowed, Conditions, RequestType
  <2>3. Good(NextYear(y), p) /\ Follows(NextYear(y), M, Z)
    BY <1>1, NextYearGood, NextYearFollows
  <2> HIDE DEF c1, c2
  <2>4. Answers(NextYear(y), m, c1, p, keep)
    BY <2>2, <2>3, MapPlainGood
  <2>5. Loaded(m, M, c1, Z, ~c1.noLo /\ (c1.mips = R0 \/ NextYear(y).const[c1.mips] = NoConst), ~c1.noHi)
    BY <2>2, <2>3, MapPlainFollows
  <2> HIDE DEF m, o
  <2>6. /\ Good(m.s, p) /\ m.x \in Host /\ m.s.map[m.x].mips = r /\ m.hi = m.s.map[m.x].hi
        /\ (r # R0 => m.s.map[m.x].dirty) /\ (~c.is32 => m.hi # m.x) /\ Follows(m.s, M, Z \cup {r})
    BY <2>2, <2>4, <2>5 DEF Answers, Loaded
  <2>7. y.const[r] \in Word
    BY <1>0, <1>1, <1>3 DEF Constant, IsConst, Follows, Image
  <2>8. r \notin Z => M.gpr[r] = Sext(y.const[r]) /\ IsWord(M.gpr[r])
    BY <1>0, <1>1, <1>3, <2>7, Extended DEF Constant, IsConst, Follows, Shown
  <2>9. Good(o, p) /\ o.map = m.s.map
    <3>1. Typed(o) /\ Same(m.s, o)
      BY <2>6, LoadConstantSame DEF Good, o
    <3>2. QED
      BY <2>6, <3>1, SameGood DEF Same
  <2>10. CASE r \in Z
    <3>2. Follows(o, M, Z)
      BY <1>0, <2>6, <2>7, <2>10, LoadConstantFollows DEF o
    <3>3. Loaded(MapPlain(o, c2, keep), M, c2, Z, TRUE, ~c2.noHi \/ c2.is32 \/ o.map[m.x].hi # m.x)
      BY <2>2, <2>6, <2>9, <3>2, MapAgainFollows
    <3>4. Follows(MapPlain(o, c2, keep).s, M, Z \cup {r})
      BY <2>2, <3>3 DEF Loaded
    <3>5. c.is32 /\ c.dirty => MapPlain(o, c2, keep).hi = MapPlain(o, c2, keep).x
      BY <2>2, <3>3 DEF Loaded
    <3>6. QED
      BY <2>1, <2>10, <3>4, <3>5 DEF Loaded
  <2>11. CASE r \notin Z
    <3>1. Follows(o, M, Z)
      <4>1. r = R0 \/ m.s.map[m.x].dirty
        BY <2>6
      <4>2. QED
        BY <1>0, <2>6, <2>7, <2>8, <2>11, <4>1, LoadConstantFollows DEF o
    <3>2. Loaded(MapPlain(o, c2, keep), M, c2, Z, TRUE, ~c2.noHi \/ c2.is32 \/ o.map[m.x].hi # m.x)
      BY <2>2, <2>6, <2>9, <3>1, MapAgainFollows
    <3> DEFINE q == MapPlain(o, c2, keep)
    <3>3. /\ Follows(q.s, M, Z \cup {r}) /\ (c.is32 /\ c.dirty => q.hi = q.x)
          /\ q.s.host[q.x] = Low(M.gpr[r])
      BY <2>2, <2>11, <3>2 DEF Loaded
    <3>4. ~c2.noHi \/ c2.is32 \/ o.map[m.x].hi # m.x
      BY <2>2, <2>6, <2>9
    <3>5. (q.hi # q.x => q.s.host[q.hi] = High(M.gpr[r])) /\ Follows(q.s, M, Z)
      BY <2>2, <2>8, <2>11, <3>2, <3>4 DEF Loaded
    <3> HIDE DEF q
    <3>6. Loaded(q, M, c, Z, ~c.noLo, ~c.noHi)
      BY <3>3, <3>5 DEF Loaded
    <3>7. QED
      BY <2>1, <3>6 DEF q
  <2>12. QED
    BY <2>10, <2>11
<1>4. QED
  BY <1>2, <1>3

-------------------------------------------------------------------------------
(* Reading and writing a mapped register                                     *)

\* The block's state is consistent and stands for the machine M, but for Z.
On(s, p, M, Z) == Good(s, p) /\ Follows(s, M, Z)

\* The mapping m is the place of the register r.
Has(s, m, r) == m.x \in Host /\ s.map[m.x].mips = r /\ m.hi = s.map[m.x].hi

\* It is the place of a register that is being written: dirty, and as wide as asked.
Takes(s, m, r, is32) == Has(s, m, r) /\ s.map[m.x].dirty /\ (is32 <=> m.hi = m.x)

\* What a request for a register leaves that is only read
Reads(s, m, p, M, Z, r, is32, keep) ==
    On(m.s, p, M, Z) /\ Has(m.s, m, r) /\ (~is32 => m.hi # m.x) /\ Beside(s, m.s, r, keep)

\* and for one that is written.
Writes(s, m, p, M, Z, r, is32, keep) ==
    On(m.s, p, M, Z) /\ Takes(m.s, m, r, is32) /\ Beside(s, m.s, r, keep)

\* The registers a request keeps are at most two.
Two(keep) == \E a, b \in Reg : keep \subseteq {a, b}

\* What holds of a value read from its place.
LEMMA HasValue ==
    ASSUME NEW s, NEW p, NEW M, NEW Z, On(s, p, M, Z), NEW m, NEW r \in Reg \ Z, Has(s, m, r)
    PROVE  /\ m.x \in Host /\ m.hi \in Host
           /\ s.host[m.x] \in Word /\ s.host[m.hi] \in Word /\ M.gpr[r] \in Double
           /\ s.host[m.x] = Low(M.gpr[r])
           /\ m.hi # m.x => s.host[m.hi] = High(M.gpr[r])
           /\ s.map[m.x].dirty /\ m.hi = m.x => IsWord(M.gpr[r])
<1>1. Shown(s, M.gpr[r], r) /\ M.gpr[r] \in Double /\ s.host \in [Host -> Word]
  BY DEF On, Follows, Machine, Image
<1>2. m.x \in Host /\ m.hi \in Host
  BY DEF On, Good, Consistent, Has
<1>3. QED
  BY <1>1, <1>2 DEF Shown, Has

\* And of the words themselves, whatever they are.
LEMMA HasWords ==
    ASSUME NEW s, NEW p, NEW M, NEW Z, On(s, p, M, Z), NEW m, NEW r \in Reg, Has(s, m, r)
    PROVE  /\ m.x \in Host /\ m.hi \in Host
           /\ s.host[m.x] \in Word /\ s.host[m.hi] \in Word
<1>1. s.host \in [Host -> Word]
  BY DEF On, Follows, Image
<1>2. m.x \in Host /\ m.hi \in Host
  BY DEF On, Good, Consistent, Has
<1>3. QED
  BY <1>1, <1>2

\* A place that is kept.
LEMMA HasKept ==
    ASSUME NEW s, NEW m, NEW r \in Reg, NEW t, NEW q, r # q, NEW K, r \in K, Beside(s, t, q, K)
    PROVE  /\ Has(s, m, r) => Has(t, m, r)
           /\ \A is32 : Takes(s, m, r, is32) => Takes(t, m, r, is32)
BY DEF Has, Takes, Beside

\* A request for a register to be read,
LEMMA WantOn ==
    ASSUME NEW p, p \subseteq {ECX}, NEW s, NEW M, NEW Z, On(s, p, M, Z), NEW r \in Reg \ Z,
           NEW is32 \in BOOLEAN, is32 \/ p = {}, NEW keep, Two(keep)
    PROVE  Reads(s, MapRegister(s, Want(r, is32), keep), p, M, Z, r, is32, keep)
<1> DEFINE c == Want(r, is32)
<1>1. /\ Allowed(c, p, keep) /\ c.mips = r /\ c.is32 = is32 /\ ~c.dirty /\ ~c.noLo /\ ~c.noHi
  BY DEF Want, Conditions, Allowed, RequestType, Two
<1> HIDE DEF c
<1>2. PICK m : m = MapRegister(s, c, keep)
  OBVIOUS
<1>3. Answers(s, m, c, p, keep)
  BY <1>1, <1>2, MapRegisterGood DEF On
<1>4. Loaded(m, M, c, Z, ~c.noLo, ~c.noHi)
  BY <1>1, <1>2, MapRegisterFollows DEF On
<1>5. Reads(s, m, p, M, Z, r, is32, keep)
  BY <1>1, <1>3, <1>4 DEF Answers, Loaded, Reads, On, Has
<1>6. QED
  BY <1>2, <1>5 DEF c

\* to be changed,
LEMMA ChangeOn ==
    ASSUME NEW p, p \subseteq {ECX}, NEW s, NEW M, NEW Z, On(s, p, M, Z), NEW r \in Reg \ Z, r # R0,
           NEW is32 \in BOOLEAN, is32 \/ p = {}, NEW keep, Two(keep)
    PROVE  Writes(s, MapRegister(s, Change(r, is32), keep), p,
                  With(M, r, IF is32 THEN Sext(Low(M.gpr[r])) ELSE M.gpr[r]), Z, r, is32, keep)
<1> DEFINE c == Change(r, is32)
           v == M.gpr[r]
           u == IF is32 THEN Sext(Low(v)) ELSE v
<1>1. /\ Allowed(c, p, keep) /\ c.mips = r /\ c.is32 = is32 /\ c.dirty /\ ~c.noLo /\ ~c.noHi
  BY DEF Change, Conditions, Allowed, RequestType, Two
<1> HIDE DEF c
<1>2. PICK m : m = MapRegister(s, c, keep)
  OBVIOUS
<1>3. Answers(s, m, c, p, keep)
  BY <1>1, <1>2, MapRegisterGood DEF On
<1>4. Loaded(m, M, c, Z, ~c.noLo, ~c.noHi)
  BY <1>1, <1>2, MapRegisterFollows DEF On
<1>5. /\ Good(m.s, p) /\ Takes(m.s, m, r, is32) /\ Beside(s, m.s, r, keep)
      /\ Follows(m.s, M, Z \cup {r}) /\ m.s.host[m.x] = Low(v)
      /\ (m.hi # m.x => m.s.host[m.hi] = High(v))
  BY <1>1, <1>3, <1>4 DEF Answers, Loaded, Takes, Has
<1>6. v \in Double /\ Low(v) \in Word /\ u \in Double /\ Low(u) = Low(v)
      /\ (~is32 => u = v) /\ (is32 => IsWord(u))
  <2>1. v \in Double
    BY DEF On, Follows, Machine
  <2>2. QED
    BY <2>1, Pairs, Extended
<1> HIDE DEF u, v
<1>7. Shown(m.s, u, r)
  <2>1. /\ m.x \in Host /\ m.s.map[m.x].mips = r /\ m.s.host[m.x] = Low(u)
        /\ (m.s.map[m.x].hi # m.x => m.s.host[m.s.map[m.x].hi] = High(u))
        /\ (~m.s.map[m.x].dirty => u = m.s.gpr[r])
        /\ (m.s.map[m.x].dirty /\ m.s.map[m.x].hi = m.x => IsWord(u))
    BY <1>5, <1>6 DEF Takes, Has
  <2>2. QED
    BY <1>5, <2>1, HeldShown
<1>8. Follows(m.s, With(M, r, u), Z)
  BY <1>5, <1>6, <1>7, ShownFollows
<1>9. Writes(s, m, p, With(M, r, u), Z, r, is32, keep)
  BY <1>5, <1>8 DEF Writes, On
<1>10. QED
  BY <1>2, <1>9 DEF c, u, v

\* and to be defined.
LEMMA DefineOn ==
    ASSUME NEW p, p \subseteq {ECX}, NEW s, NEW M, NEW Z, On(s, p, M, Z), NEW r \in Reg,
           NEW is32 \in BOOLEAN, is32 \/ p = {}, NEW keep, Two(keep)
    PROVE  /\ Writes(s, MapRegister(s, Define(r, is32), keep), p, M, Z \cup {r}, r, is32, keep)
           /\ Writes(s, MapRegister(s, DefineBoth(r, is32), keep), p, M, Z \cup {r}, r, is32, keep)
<1>1. ASSUME NEW c, Allowed(c, p, keep), c.mips = r, c.is32 = is32, c.dirty
      PROVE  Writes(s, MapRegister(s, c, keep), p, M, Z \cup {r}, r, is32, keep)
  <2>1. PICK m : m = MapRegister(s, c, keep)
    OBVIOUS
  <2>2. Answers(s, m, c, p, keep)
    BY <1>1, <2>1, MapRegisterGood DEF On
  <2>3. Loaded(m, M, c, Z, ~c.noLo, ~c.noHi)
    BY <1>1, <2>1, MapRegisterFollows DEF On
  <2>4. Writes(s, m, p, M, Z \cup {r}, r, is32, keep)
    BY <1>1, <2>2, <2>3 DEF Answers, Loaded, Writes, On, Takes, Has
  <2>5. QED
    BY <2>1, <2>4
<1>2. ASSUME NEW noHi \in BOOLEAN, NEW c, c = Conditions(r, is32, TRUE, TRUE, noHi)
      PROVE  Allowed(c, p, keep) /\ c.mips = r /\ c.is32 = is32 /\ c.dirty
  BY <1>2 DEF Conditions, Allowed, RequestType, Two
<1>3. QED
  BY <1>1, <1>2 DEF Define, DefineBoth

\* What is put into its place gives the register a value: a word,
LEMMA PutLoOn ==
    ASSUME NEW s, NEW p, NEW M, NEW Z, NEW r \in Reg, On(s, p, M, Z \cup {r}), r # R0,
           NEW m, Takes(s, m, r, TRUE), NEW w \in Word
    PROVE  On(PutLo(s, m, w), p, With(M, r, Sext(w)), Z)
<1>1. PICK t : t = Mov(s, m.x, w)
  OBVIOUS
<1>2. Spare(s, r, m.x) /\ m.x \in Host
  BY DEF Takes, Has, Spare
<1>3. Follows(t, M, Z \cup {r}) /\ Good(t, p) /\ Puts(s, t, m.x, w)
  BY <1>1, <1>2, MovFollows DEF On
<1>4. Sext(w) \in Double /\ Low(Sext(w)) = w /\ IsWord(Sext(w))
  BY Extended
<1>5. PICK v : v = Sext(w)
  OBVIOUS
<1>6. /\ t.map[m.x].mips = r /\ t.host[m.x] = Low(v)
      /\ (t.map[m.x].hi # m.x => t.host[t.map[m.x].hi] = High(v))
      /\ (~t.map[m.x].dirty => v = t.gpr[r])
      /\ (t.map[m.x].dirty /\ t.map[m.x].hi = m.x => IsWord(v))
  BY <1>3, <1>4, <1>5 DEF Puts, Takes, Has
<1>7. Shown(t, v, r)
  BY <1>2, <1>3, <1>6, HeldShown
<1>8. Follows(t, With(M, r, v), Z)
  BY <1>3, <1>4, <1>5, <1>7, ShownFollows
<1>9. QED
  BY <1>1, <1>3, <1>5, <1>8 DEF On, PutLo

\* or a double word.
LEMMA PutOn ==
    ASSUME NEW s, NEW p, NEW M, NEW Z, NEW r \in Reg, On(s, p, M, Z \cup {r}), r # R0,
           NEW m, Takes(s, m, r, FALSE), NEW w \in Word, NEW h \in Word
    PROVE  On(Put(s, m, w, h, FALSE), p, With(M, r, Pair(w, h)), Z)
<1>1. PICK t : t = Mov(Mov(s, m.x, w), m.hi, h)
  OBVIOUS
<1>2. m.x \in Host /\ s.map[m.x].mips = r /\ m.hi = s.map[m.x].hi /\ m.hi # m.x
  BY DEF Takes, Has
<1>3. Follows(t, M, Z \cup {r}) /\ Good(t, p) /\ PutsBoth(s, t, m.x, w, m.hi, h)
  BY <1>1, <1>2, MovBothFollows DEF On
<1>4. Pair(w, h) \in Double /\ Low(Pair(w, h)) = w /\ High(Pair(w, h)) = h
  BY Pairs
<1>5. PICK v : v = Pair(w, h)
  OBVIOUS
<1>6. /\ t.map[m.x].mips = r /\ t.host[m.x] = Low(v)
      /\ (t.map[m.x].hi # m.x => t.host[t.map[m.x].hi] = High(v))
      /\ (~t.map[m.x].dirty => v = t.gpr[r])
      /\ (t.map[m.x].dirty /\ t.map[m.x].hi = m.x => IsWord(v))
  BY <1>3, <1>4, <1>5 DEF PutsBoth, Takes, Has
<1>7. Shown(t, v, r)
  BY <1>2, <1>3, <1>6, HeldShown
<1>8. Follows(t, With(M, r, v), Z)
  BY <1>3, <1>4, <1>5, <1>7, ShownFollows
<1>9. QED
  BY <1>1, <1>3, <1>5, <1>8 DEF On, Put

\* A machine on which a register has been given a value twice has the second.
LEMMA TwiceWith ==
    ASSUME NEW M, Machine(M), NEW r \in Reg, r # R0, NEW u \in Double, NEW v \in Double
    PROVE  /\ With(With(M, r, u), r, v) = With(M, r, v)
           /\ Machine(With(M, r, u)) /\ With(M, r, u).gpr[r] = u
           /\ \A q \in Reg \ {r} : With(M, r, u).gpr[q] = M.gpr[q]
BY WithAgain, WithMachine

\* The same for a register whose old value was still known.
LEMMA PutLoOver ==
    ASSUME NEW s, NEW p, NEW M, NEW Z, NEW r \in Reg, r # R0, Machine(M), NEW u \in Double,
           On(s, p, With(M, r, u), Z), NEW m, Takes(s, m, r, TRUE), NEW w \in Word
    PROVE  On(PutLo(s, m, w), p, With(M, r, Sext(w)), Z)
<1>1. On(s, p, With(M, r, u), Z \cup {r})
  BY FewerFollows DEF On
<1>2. On(PutLo(s, m, w), p, With(With(M, r, u), r, Sext(w)), Z)
  BY <1>1, PutLoOn
<1>3. With(With(M, r, u), r, Sext(w)) = With(M, r, Sext(w))
  BY TwiceWith, Extended
<1>4. QED
  BY <1>2, <1>3

\* Writing again over a register that was just written.
LEMMA PutOver ==
    ASSUME NEW s, NEW p, NEW M, NEW Z, NEW r \in Reg, r # R0, Machine(M), NEW u \in Double,
           On(s, p, With(M, r, u), Z), NEW m, Takes(s, m, r, FALSE), NEW w \in Word, NEW h \in Word
    PROVE  On(Put(s, m, w, h, FALSE), p, With(M, r, Pair(w, h)), Z)
<1>1. On(s, p, With(M, r, u), Z \cup {r})
  BY FewerFollows DEF On
<1>2. On(Put(s, m, w, h, FALSE), p, With(With(M, r, u), r, Pair(w, h)), Z)
  BY <1>1, PutOn
<1>3. With(With(M, r, u), r, Pair(w, h)) = With(M, r, Pair(w, h))
  BY TwiceWith, Pairs
<1>4. QED
  BY <1>2, <1>3

-------------------------------------------------------------------------------
(* Operands                                                                  *)

\* An operand is given with its value, and nothing else is changed.
Gives(s, o, p, M, Z, q, is32, keep) ==
    /\ On(o.s, p, M, Z) /\ Beside(s, o.s, q, keep)
    /\ o.lo \in Word /\ o.hi \in Word
    /\ o.lo = Low(M.gpr[q]) /\ (~is32 => o.hi = High(M.gpr[q]))

\* The value of a register, and of one that is a constant.
LEMMA ValueOf ==
    ASSUME NEW s, NEW p, NEW M, NEW Z, On(s, p, M, Z), NEW q \in Reg \ Z
    PROVE  /\ M.gpr[q] \in Double /\ Low(M.gpr[q]) \in Word /\ High(M.gpr[q]) \in Word
           /\ Machine(M) /\ M.gpr[R0] = 0
           /\ IsConst(s, q) => /\ s.const[q] \in Word /\ M.gpr[q] = Sext(s.const[q])
                               /\ Low(M.gpr[q]) = s.const[q] /\ High(M.gpr[q]) = SignOf(s.const[q])
                               /\ IsWord(M.gpr[q])
           /\ Where(s, q) = None /\ ~IsConst(s, q) => M.gpr[q] = s.gpr[q]
<1>1. Machine(M) /\ Shown(s, M.gpr[q], q) /\ Image(s)
  BY DEF On, Follows
<1>2. M.gpr[q] \in Double /\ M.gpr[R0] = 0
  BY <1>1 DEF Machine
<1>3. Low(M.gpr[q]) \in Word /\ High(M.gpr[q]) \in Word
  BY <1>2, Pairs
<1>4. IsConst(s, q) => s.const[q] \in Word /\ M.gpr[q] = Sext(s.const[q])
  BY <1>1 DEF IsConst, Image, Shown
<1>5. IsConst(s, q) => Low(M.gpr[q]) = s.const[q] /\ High(M.gpr[q]) = SignOf(s.const[q]) /\ IsWord(M.gpr[q])
  BY <1>4, Extended
<1>6. Where(s, q) = None => \A k \in Host : s.map[k].mips # q
  BY WhereIs DEF On, Good
<1>7. Where(s, q) = None /\ ~IsConst(s, q) => M.gpr[q] = s.gpr[q]
  BY <1>1, <1>6 DEF IsConst, Shown
<1>8. QED
  BY <1>1, <1>2, <1>3, <1>4, <1>5, <1>7

\* The operand at a place,
LEMMA OperandOn ==
    ASSUME NEW s, NEW m, NEW p, NEW M, NEW Z, NEW q \in Reg \ Z, NEW is32, NEW keep,
           Reads(s, m, p, M, Z, q, is32, keep)
    PROVE  Gives(s, Operand(m), p, M, Z, q, is32, keep)
<1>1. On(m.s, p, M, Z) /\ Has(m.s, m, q) /\ (~is32 => m.hi # m.x) /\ Beside(s, m.s, q, keep)
  BY DEF Reads
<1>2. /\ m.s.host[m.x] \in Word /\ m.s.host[m.hi] \in Word /\ m.s.host[m.x] = Low(M.gpr[q])
      /\ (m.hi # m.x => m.s.host[m.hi] = High(M.gpr[q]))
  BY <1>1, HasValue
<1>3. QED
  BY <1>1, <1>2 DEF Operand, Gives

\* mapped,
LEMMA MapInOn ==
    ASSUME NEW p, p \subseteq {ECX}, NEW s, NEW M, NEW Z, On(s, p, M, Z), NEW r \in Reg \ Z,
           NEW is32 \in BOOLEAN, is32 \/ p = {}, NEW keep, Two(keep)
    PROVE  Gives(s, MapIn(s, r, is32, keep), p, M, Z, r, is32, keep)
<1>1. PICK m : m = MapRegister(s, Want(r, is32), keep)
  OBVIOUS
<1>2. Reads(s, m, p, M, Z, r, is32, keep)
  BY <1>1, WantOn
<1>3. QED
  BY <1>1, <1>2, OperandOn DEF MapIn

\* read from memory
LEMMA MapToOn ==
    ASSUME NEW p, p \subseteq {ECX}, NEW s, NEW M, NEW Z, On(s, p, M, Z), NEW r \in Reg \ Z, ~IsConst(s, r),
           NEW is32 \in BOOLEAN, is32 \/ p = {}, NEW keep, Two(keep)
    PROVE  Gives(s, MapTo(s, r, is32, keep), p, M, Z, r, is32, keep)
<1>1. CASE Where(s, r) = None /\ r \in s.dead
  <2>1. MapTo(s, r, is32, keep) = [s |-> s, lo |-> Low(s.gpr[r]), hi |-> High(s.gpr[r])]
    BY <1>1 DEF MapTo
  <2>2. M.gpr[r] = s.gpr[r] /\ Low(M.gpr[r]) \in Word /\ High(M.gpr[r]) \in Word
    BY <1>1, ValueOf
  <2>3. Beside(s, s, r, keep)
    BY BesideSame
  <2>4. QED
    BY <2>1, <2>2, <2>3 DEF Gives
<1>2. CASE ~(Where(s, r) = None /\ r \in s.dead)
  <2>1. MapTo(s, r, is32, keep) = MapIn(s, r, is32, keep)
    BY <1>2 DEF MapTo, MapIn
  <2>2. QED
    BY <2>1, MapInOn
<1>3. QED
  BY <1>1, <1>2

\* or known.
LEMMA UseOn ==
    ASSUME NEW p, p \subseteq {ECX}, NEW s, NEW M, NEW Z, On(s, p, M, Z), NEW r \in Reg \ Z,
           NEW is32 \in BOOLEAN, is32 \/ p = {}, NEW keep, Two(keep)
    PROVE  Gives(s, Use(s, r, is32, keep), p, M, Z, r, is32, keep)
<1>1. CASE IsConst(s, r)
  <2>1. Use(s, r, is32, keep) = [s |-> s, lo |-> s.const[r], hi |-> SignOf(s.const[r])]
    BY <1>1 DEF Use
  <2>2. s.const[r] \in Word /\ Low(M.gpr[r]) = s.const[r] /\ High(M.gpr[r]) = SignOf(s.const[r])
    BY <1>1, ValueOf
  <2>3. Beside(s, s, r, keep)
    BY BesideSame
  <2>4. SignOf(s.const[r]) \in Word
    BY <2>2, Signs
  <2>5. QED
    BY <2>1, <2>2, <2>3, <2>4 DEF Gives
<1>2. CASE ~IsConst(s, r)
  <2>1. Use(s, r, is32, keep) = MapTo(s, r, is32, keep)
    BY <1>2 DEF Use
  <2>2. QED
    BY <1>2, <2>1, MapToOn
<1>3. QED
  BY <1>1, <1>2

\* What block analysis and the 32-bit flags say of a register that is not misjudged.
LEMMA Judged ==
    ASSUME NEW s, NEW p, NEW M, NEW Z, On(s, p, M, Z), NEW q \in Reg \ Z, CheckIs32Bit(s, q), ~Misjudged(M, s, q)
    PROVE  IsWord(M.gpr[q])
BY DEF Misjudged

\* A register becomes a constant.
LEMMA MapConstOn ==
    ASSUME NEW p, NEW s, NEW M, NEW Z, On(s, p, M, Z), NEW r \in Reg, r # R0, NEW value \in Word
    PROVE  On(MapConst(s, r, value), p, With(M, r, Sext(value)), Z)
<1>1. Good(MapConst(s, r, value), p)
  BY MapConstGood DEF On
<1>2. Follows(MapConst(s, r, value), With(M, r, Constants(r, value)), Z \ {r})
  BY MapConstFollows DEF On
<1>3. Constants(r, value) = Sext(value)
  BY DEF Constants
<1>4. Follows(MapConst(s, r, value), With(M, r, Sext(value)), Z)
  <2>1. Z \ {r} \subseteq Z
    OBVIOUS
  <2>2. QED
    BY <1>2, <1>3, <2>1, FewerFollows
<1>5. QED
  BY <1>1, <1>4 DEF On

\* r0 leaves its host register, and is 0 from then on.
LEMMA MapConstR0On ==
    ASSUME NEW p, NEW s, NEW M, NEW Z, On(s, p, M, Z), NEW value \in Word
    PROVE  On(MapConst(s, R0, value), p, M, Z \ {R0})
<1>1. R0 \in Reg
  BY MarkFacts
<1>2. Good(MapConst(s, R0, value), p)
  BY <1>1, MapConstGood DEF On
<1>3. Follows(MapConst(s, R0, value), With(M, R0, Constants(R0, value)), Z \ {R0})
  BY <1>1, MapConstFollows DEF On
<1>4. Constants(R0, value) = 0 /\ M.gpr[R0] = 0 /\ Machine(M)
  BY Extended DEF Constants, On, Follows, Machine
<1>5. With(M, R0, 0) = M
  BY <1>1, <1>4, WithAgain
<1>6. QED
  BY <1>2, <1>3, <1>4, <1>5 DEF On

\* rd takes the host register of rt, which rests in memory from then on: no other
\* register is moved, and the contents stay.
LEMMA TakenOverEffect ==
    ASSUME NEW s, NEW p, Good(s, p), NEW k \in Host, s.map[k].mips \in Reg,
           NEW r \in Reg, r # s.map[k].mips, r # R0,
           NEW freed, Typed(freed), Rest(s, freed), Contents(s, freed),
           \A j \in Host : j # s.map[k].hi => freed.map[j] = s.map[j],
           s.map[k].hi = k => freed.map[k] = s.map[k],
           s.map[k].hi # k => freed.map[s.map[k].hi].mips = Unused,
           NEW t, t = TakenOver(freed, k, r)
    PROVE  /\ Contents(s, t) /\ t.const = [s.const EXCEPT ![r] = NoConst]
           /\ t.map[k].mips = r /\ t.map[k].hi = k /\ t.map[k].dirty
           /\ \A j \in Host : s.map[j].mips \in Reg \ {r, s.map[k].mips} => t.map[j] = s.map[j]
           /\ \A j \in Host \ {k} : t.map[j].mips \in Reg => t.map[j] = s.map[j]
<1> DEFINE h == s.map[k].hi
           u == [freed EXCEPT !.const[r] = NoConst]
           w == Where(s, r)
           old == FreeMipsRegister(freed, r)
<1>1. Typed(s) /\ Consistent(s.map, s.const)
  BY DEF Good
<1>2. h \in Host /\ (h = k \/ s.map[h].mips = HighWord)
  BY <1>1 DEF Consistent
<1>3. /\ Typed(u) /\ u.map = freed.map /\ Contents(s, u) /\ u.const = [s.const EXCEPT ![r] = NoConst]
  <2>1. Typed(u) /\ u.map = freed.map
    BY SetConst
  <2>2. Contents(s, u) /\ u.const = [s.const EXCEPT ![r] = NoConst]
    BY DEF Rest, Contents, Aside, Typed
  <2>3. QED
    BY <2>1, <2>2
<1>4. Where(freed, r) = w
  <2>1. \A j \in Host : freed.map[j].mips = r <=> s.map[j].mips = r
    BY <1>2, MarkFacts
  <2>2. QED
    BY <2>1 DEF Where, Holding
<1>5. old = Drop(u, w)
  BY <1>4 DEF FreeMipsRegister
<1>6. t = [old EXCEPT !.map[k] = [@ EXCEPT !.mips = r, !.is32 = TRUE, !.hi = k, !.dirty = TRUE]]
  BY DEF TakenOver
<1> HIDE DEF u, w, old
<1>7. /\ Typed(old) /\ Contents(s, old) /\ old.const = u.const
      /\ \A j \in Host : s.map[j].mips \in Reg \ {r, s.map[k].mips} => old.map[j] = s.map[j]
      /\ \A j \in Host \ {k} : old.map[j].mips \in Reg => old.map[j] = s.map[j]
  <2>1. CASE w = None
    <3>1. old = u
      BY <1>5, <2>1 DEF Drop
    <3>2. QED
      BY <1>1, <1>2, <1>3, <3>1, MarkFacts
  <2>2. CASE w # None
    <3> DEFINE g == s.map[w].hi
    <3>1. w \in Host /\ s.map[w].mips = r
      BY <1>1, <2>2, WhereIs DEF w
    <3>2. w # k /\ w # h
      BY <1>2, <3>1, MarkFacts
    <3>3. g \in Host /\ (g = w \/ s.map[g].mips = HighWord) /\ g # h /\ g # k
      BY <1>1, <3>1, <3>2, MarkFacts DEF h, Consistent
    <3>4. u.map[w] = s.map[w]
      BY <1>3, <3>1, <3>2 DEF h
    <3>5. Typed(old) /\ Rest(u, old) /\ Vacated(u.map, old.map, w)
      BY <1>3, <1>5, <2>2, <3>1, <3>3, <3>4, DropEffect
    <3>6. Contents(u, old)
      BY <1>3, <1>5, <2>2, <3>1, <3>3, <3>4, DropContents
    <3>7. Contents(s, old)
      BY <1>3, <3>6, ContentsTransitive
    <3>8. \A j \in Host \ {w, g} : old.map[j] = freed.map[j]
      BY <1>3, <3>4, <3>5 DEF Vacated
    <3>9. old.map[w].mips = Unused /\ old.map[g].mips = Unused
      BY <3>4, <3>5 DEF Vacated
    <3>10. \A j \in Host : s.map[j].mips \in Reg \ {r, s.map[k].mips} => old.map[j] = s.map[j]
      BY <1>2, <3>1, <3>3, <3>8, MarkFacts
    <3>11. \A j \in Host \ {k} : old.map[j].mips \in Reg => old.map[j] = s.map[j]
      BY <1>2, <3>8, <3>9, MarkFacts
    <3>12. QED
      BY <3>5, <3>7, <3>10, <3>11 DEF Rest
  <2>3. QED
    BY <2>1, <2>2
<1>8. t.map = [old.map EXCEPT ![k] = [@ EXCEPT !.mips = r, !.is32 = TRUE, !.hi = k, !.dirty = TRUE]]
      /\ t.const = old.const /\ Contents(old, t)
  BY <1>6, <1>7 DEF Typed, Contents, Aside
<1>9. t.map[k].mips = r /\ t.map[k].hi = k /\ t.map[k].dirty /\ \A j \in Host \ {k} : t.map[j] = old.map[j]
  <2>1. old.map[k] \in EntryType /\ old.map \in MapType
    BY <1>7, EntryTyped DEF Typed
  <2>2. QED
    BY <1>8, <2>1 DEF MapType, EntryType
<1>10. Contents(s, t)
  BY <1>7, <1>8, ContentsTransitive
<1>11. QED
  BY <1>3, <1>7, <1>8, <1>9, <1>10

\* rt's high word is given up.
Freed(s, freed, k) ==
    /\ Typed(freed) /\ Rest(s, freed) /\ Contents(s, freed)
    /\ \A j \in Host : j # s.map[k].hi => freed.map[j] = s.map[j]
    /\ s.map[k].hi = k => freed.map[k] = s.map[k]
    /\ s.map[k].hi # k => freed.map[s.map[k].hi].mips = Unused

\* The register r is at k, narrow and dirty.
Placed(t, k, r, p, M, Z) == On(t, p, M, Z) /\ t.map[k].mips = r /\ t.map[k].hi = k /\ t.map[k].dirty

\* Its value is rt's low word.
LEMMA TakenOverOn ==
    ASSUME NEW s, NEW p, NEW M, NEW r \in Reg, NEW Z, On(s, p, M, Z \cup {r}), NEW k \in Host,
           NEW q \in Reg \ Z, s.map[k].mips = q, r # q, r # R0, ~s.map[k].dirty,
           NEW freed, Freed(s, freed, k)
    PROVE  Placed(TakenOver(freed, k, r), k, r, p, With(M, r, Sext(Low(M.gpr[q]))), Z)
<1>0. PICK t : t = TakenOver(freed, k, r)
  OBVIOUS
<1>1. Good(t, p)
  BY <1>0, TakenOverGood DEF On, Freed
<1>2. /\ Contents(s, t) /\ t.const = [s.const EXCEPT ![r] = NoConst]
      /\ t.map[k].mips = r /\ t.map[k].hi = k /\ t.map[k].dirty
      /\ \A j \in Host : s.map[j].mips \in Reg \ {r, q} => t.map[j] = s.map[j]
      /\ \A j \in Host \ {k} : t.map[j].mips \in Reg => t.map[j] = s.map[j]
  BY <1>0, TakenOverEffect DEF On, Freed
<1>3. Image(s) /\ Machine(M) /\ Aside(s, M) /\ Shown(s, M.gpr[q], q)
  BY DEF On, Follows
<1>4. t.host = s.host /\ t.gpr = s.gpr /\ t.flushed = s.flushed /\ t.stack = s.stack /\ Aside(s, t)
  BY <1>2 DEF Contents
<1>5. t.const \in [Reg -> Word \cup {NoConst}] /\ t.const[r] = NoConst
      /\ \A b \in Reg \ {r} : t.const[b] = s.const[b]
  BY <1>2, <1>3 DEF Image
<1>6. Image(t)
  BY <1>3, <1>4, <1>5 DEF Image, Aside
<1>7. Aside(t, M)
  BY <1>3, <1>4 DEF Aside
<1>8. \A b \in Reg \ (Z \cup {r}) : Shown(t, M.gpr[b], b)
  <2> SUFFICES ASSUME NEW b \in Reg \ (Z \cup {r}) PROVE Shown(t, M.gpr[b], b)
    OBVIOUS
  <2>1. Shown(s, M.gpr[b], b)
    BY DEF On, Follows
  <2>2. CASE b # q
    <3>1. \A j \in Host : t.map[j].mips = b <=> s.map[j].mips = b
      BY <1>2, <2>2
    <3>2. \A j \in Host : s.map[j].mips = b => t.map[j] = s.map[j]
      BY <1>2, <2>2
    <3>3. QED
      BY <1>4, <1>5, <2>1, <3>1, <3>2 DEF Shown
  <2>3. CASE b = q
    <3>1. \A j \in Host : t.map[j].mips # q
      <4>1. \A j \in Host : s.map[j].mips = q => j = k
        BY DEF On, Good, Consistent
      <4>2. QED
        BY <1>2, <4>1
    <3>2. M.gpr[q] = s.gpr[q]
      BY <1>3 DEF Shown
    <3>3. QED
      BY <1>3, <1>4, <1>5, <2>3, <3>1, <3>2 DEF Shown
  <2>4. QED
    BY <2>2, <2>3
<1>9. Follows(t, M, Z \cup {r})
  BY <1>3, <1>6, <1>7, <1>8 DEF Follows
<1>10. PICK v : v = Sext(Low(M.gpr[q]))
  OBVIOUS
<1>11. v \in Double /\ Low(v) = Low(M.gpr[q]) /\ IsWord(v)
  <2>1. Low(M.gpr[q]) \in Word
    BY <1>3, Pairs DEF Machine
  <2>2. QED
    BY <1>10, <2>1, Extended
<1>12. t.host[k] = Low(v)
  BY <1>3, <1>4, <1>11 DEF Shown
<1>13. Shown(t, v, r)
  BY <1>1, <1>2, <1>11, <1>12, HeldShown
<1>14. Follows(t, With(M, r, v), Z)
  BY <1>9, <1>11, <1>13, ShownFollows
<1>15. On(t, p, With(M, r, v), Z)
  BY <1>1, <1>14 DEF On
<1>16. QED
  BY <1>0, <1>2, <1>10, <1>15 DEF Placed
===============================================================================
