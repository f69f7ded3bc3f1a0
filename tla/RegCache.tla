------------------------------- MODULE RegCache -------------------------------
(***************************************************************************)
(* The operations of the register cache (src/dynaRec/regcache.c), each on  *)
(* the record of HostRegs.  Mapping takes Conditions and the registers     *)
(* that must stay mapped; its result carries the new state,                *)
(* Conditions->x86reg (x) and Conditions->HiWordLoc (hi).                  *)
(***************************************************************************)
EXTENDS HostRegs

\* x86reg_Delete; deleting HiWordLoc -1 writes before the array.
Delete(s, k) ==
    IF k = None THEN Report(s, "The HiWord was not set!")
    ELSE [s EXCEPT !.map[k] = Entry(Unused, FALSE, FALSE, None, s.year)]

-----------------------------------------------------------------------------
(* Writing back.                                                           *)

\* WriteBackDirty: a 32-bit register is sign-extended in place.
WriteBackDirty(s, k) ==
    LET r == s.map[k].mips
        hi == s.map[k].hi
    IN  IF hi = k
        THEN [s EXCEPT !.gpr[r] = Sext(s.host[k]), !.host[k] = SignOf(@), !.flushed[r] = TRUE]
        ELSE [s EXCEPT !.gpr[r] = Pair(s.host[k], s.host[hi]), !.flushed[r] = FALSE]

\* Mutant of FlushRegister: a dirty register is not written back.
FlushRegisterDropped(s, k) == Delete(Delete(s, s.map[k].hi), k)

FlushRegister(s, k) ==
    Delete(Delete(IF s.map[k].dirty /\ s.map[k].mips # R0 THEN WriteBackDirty(s, k) ELSE s,
                  s.map[k].hi), k)

\* A register leaves its host register, if it has one, and is not written back.
Drop(s, k) == IF k = None THEN s ELSE FlushRegister([s EXCEPT !.map[k].dirty = FALSE], k)

\* FreeMipsRegister: dropped, not written back.
FreeMipsRegister(s, r) ==
    Drop(IF r = R0 THEN s ELSE [s EXCEPT !.const[r] = NoConst], Where(s, r))

\* A constant has no host register: FlushOneConstant says "Odd" of one that has.
FlushOneConstant(s, r) ==
    IF r = R0 \/ ~IsConst(s, r) THEN s
    ELSE [Drop(IF Where(s, r) = None THEN s ELSE Report(s, "Odd"), Where(s, r)) EXCEPT
             !.gpr[r] = Sext(s.const[r]), !.const[r] = NoConst, !.flushed[r] = TRUE]

FlushConstants(s) ==
    [s EXCEPT !.gpr = [r \in Reg |-> IF r # R0 /\ IsConst(s, r) THEN Sext(s.const[r]) ELSE @[r]],
              !.flushed = [r \in Reg |-> @[r] \/ (r # R0 /\ IsConst(s, r))],
              !.const = [r \in Reg |-> IF r = R0 THEN 0 ELSE NoConst]]

\* The memory image once the register at k is written back to it.
Stored(s, r, k) ==
    IF k = None \/ r = R0 THEN s.gpr[r]
    ELSE IF ~s.map[k].dirty THEN s.gpr[r]
    ELSE IF s.map[k].hi = k THEN Sext(s.host[k])
    ELSE Pair(s.host[k], s.host[s.map[k].hi])

FlushMapped(s) ==
    [s EXCEPT !.gpr = [r \in Reg |-> Stored(s, r, Where(s, r))],
              !.map = [k \in Host |-> IF @[k].mips = Protected THEN @[k]
                                      ELSE Entry(Unused, FALSE, FALSE, None, FirstYear)],
              !.flushed = [r \in Reg |-> r = R0 /\ @[r]],
              !.year = FirstYear]

\* FlushAllRegisters: what the memory image says of the upper halves is
\* forgotten too.
FlushAllRegisters(s) == FlushMapped(FlushConstants(s))

-----------------------------------------------------------------------------
(* Making room.                                                            *)

\* The victim of FlushOneButNotThese3.  The scan goes down from EDI and
\* stops at a register the block no longer uses (when block analysis is on)
\* or at r0; otherwise the oldest goes, a clean one before a dirty one.
Victim(s, candidates) ==
    LET Above(k) == {j \in candidates : j > k}
        AtOnce(k) == \/ BlockAnalysis /\ s.map[k].mips \in s.dead
                     \/ s.map[k].mips = R0 /\ Above(k) # {}
        Before(j, k) == \/ s.map[j].birth < s.map[k].birth
                        \/ /\ s.map[j].birth = s.map[k].birth
                           /\ IF s.map[j].dirty = s.map[k].dirty THEN j > k
                              ELSE s.map[k].dirty
    IN  IF \E k \in candidates : AtOnce(k)
        THEN Max({k \in candidates : AtOnce(k)})
        ELSE CHOOSE k \in candidates : \A j \in candidates \ {k} : Before(k, j)

\* A constant among the mapped registers is reported, and flushed first.
Evict(s, k, r) ==
    FlushRegister(IF r # R0 /\ IsConst(s, r)
                  THEN FlushOneConstant(Report(s, "This should not happen."), r) ELSE s, k)
EvictOneOf(s, k) == Evict(s, k, s.map[k].mips)

FlushOneButNotThese3(s, keep) ==
    IF \A k \in Mapped(s) : s.map[k].mips \in keep THEN Report(s, "Could not flush a register!!")
    ELSE EvictOneOf(s, Victim(s, {k \in Mapped(s) : s.map[k].mips \notin keep}))

\* The while loops around the scans for one and for two free registers: one
\* flush frees at least one, so two are enough for two.
RoomFor(s, n, keep) == IF Cardinality(Free(s)) >= n THEN s ELSE FlushOneButNotThese3(s, keep)
RoomForTwo(s, keep) == RoomFor(RoomFor(s, 2, keep), 2, keep)

-----------------------------------------------------------------------------
\* Mutant of LoadHi: the upper half is always taken to be the sign.
LoadHiSign(s, r, w) == IF r = R0 THEN 0 ELSE SignOf(w)

LoadHi(s, r, w) ==
    IF s.flushed[r] THEN SignOf(w) ELSE IF r = R0 THEN 0 ELSE High(s.gpr[r])

\* The low word of r is loaded into k, unless the caller defines it.
LoadLo(s, c, k) == IF c.noLo THEN s ELSE Mov(s, k, IF c.mips = R0 THEN 0 ELSE Low(s.gpr[c.mips]))

UseNow(s, r) == [s EXCEPT !.dead = @ \cup {r}, !.now = @ \cup {r}]
TakeOne(s, c, k) ==
    [s |-> [UseNow(LoadLo(s, c, k), c.mips) EXCEPT
               !.map[k] = Entry(c.mips, TRUE, c.dirty, k, s.year)],
     x |-> k, hi |-> k]
FirstFree(s, c) == TakeOne(s, c, Max(Free(s)))
Map32bit(s, c, keep) == FirstFree(RoomFor(s, 1, keep), c)

\* The first free register from the top becomes the high word, the second
\* the low word.
LoadBoth(s, c, k, h) == IF c.noHi THEN s ELSE Mov(s, h, LoadHi(s, c.mips, s.host[k]))
TakeTwo(s, c, k, h) ==
    [s |-> [UseNow(LoadBoth(LoadLo(s, c, k), c, k, h), c.mips) EXCEPT
               !.map[k] = Entry(c.mips, FALSE, c.dirty, h, s.year),
               !.map[h] = Entry(HighWord, s.map[h].is32, s.map[h].dirty, s.map[h].hi, s.year),
               !.flushed[c.mips] = FALSE],
     x |-> k, hi |-> h]
SecondFree(s, c, h) == TakeTwo(s, c, Max(Free(s) \ {h}), h)
FirstTwoFree(s, c) == SecondFree(s, c, Max(Free(s)))
Map64bit(s, c, keep) == FirstTwoFree(RoomForTwo(s, keep), c)

\* A dirty 32-bit request on a 64-bit register drops its high word.
ConvertRegTo32bit(s, k) ==
    [Delete(s, s.map[k].hi) EXCEPT !.map[k].hi = k, !.map[k].is32 = TRUE, !.map[k].birth = s.year]

\* The high word goes to the first free register from the bottom.  It is
\* computed when the register is clean, or when the caller needs it.
Widen(s, k, c, h) ==
    [s EXCEPT !.host[h] = IF ~s.map[k].dirty THEN LoadHi(s, c.mips, s.host[k])
                          ELSE IF c.noHi THEN s.host[h] ELSE SignOf(s.host[k]),
              !.map[k].hi = h, !.map[k].is32 = FALSE,
              !.map[h] = Entry(HighWord, FALSE, FALSE, None, s.map[h].birth),
              !.flushed[c.mips] = FALSE]
LastFree(s, k, c) == Widen(s, k, c, Min(Free(s)))
ConvertRegTo64bit(s, k, c, keep) ==
    IF s.map[k].hi # k THEN s ELSE LastFree(RoomFor(s, 1, keep \cup {c.mips}), k, c)

Used(s, k, hi, c, is32) ==
    [s |-> [s EXCEPT !.map = [j \in Host |->
                IF j = k THEN Entry(s.map[k].mips, is32, s.map[k].dirty \/ c.dirty, s.map[k].hi, s.year)
                ELSE IF j = hi THEN [s.map[hi] EXCEPT !.birth = s.year] ELSE s.map[j]]],
     x |-> k, hi |-> hi]
Converted(s, k, c, is32) == Used(s, k, s.map[k].hi, c, is32)
ConvertReg(s, k, c, keep) ==
    Converted(IF ~c.is32 THEN ConvertRegTo64bit(s, k, c, keep)
              ELSE IF s.map[k].hi # k /\ c.dirty THEN ConvertRegTo32bit(s, k) ELSE s,
              k, c, c.is32 /\ (s.map[k].hi = k \/ c.dirty))

\* Mutant of MapPlain: the constant stays known.
MapPlainConst(s, c, keep) ==
    IF Where(s, c.mips) # None THEN ConvertReg(s, Where(s, c.mips), c, keep)
    ELSE IF c.is32 THEN Map32bit(s, c, keep)
    ELSE Map64bit(s, c, keep)

\* MapRegister after the constant has been dealt with.
MapPlain(s, c, keep) ==
    MapPlainConst([s EXCEPT !.const[c.mips] = IF c.mips = R0 THEN @ ELSE NoConst], c, keep)

\* MapOneConstantToRegister: the constant is loaded into the register that
\* takes it, which is dirty from then on.
NextYear(s) == [s EXCEPT !.year = @ + 1]
LoadConstant(m, value) ==
    IF m.s.map[m.x].is32 THEN Mov(m.s, m.x, value)
    ELSE Mov(Mov(m.s, m.x, value), m.hi, SignOf(value))
MapOneConstantToRegister(s, c, keep) ==
    LoadConstant(MapPlain(NextYear(s), Conditions(c.mips, c.is32, c.mips # R0, TRUE, TRUE), keep),
                 s.const[c.mips])

Constant(s, c) == ~c.noLo /\ IsConst(s, c.mips)
MapRegister(s, c, keep) ==
    MapPlain(IF Constant(s, c) THEN MapOneConstantToRegister(NextYear(s), c, keep) ELSE NextYear(s),
             IF Constant(s, c) THEN Conditions(c.mips, c.is32, c.dirty \/ c.mips # R0, TRUE, TRUE) ELSE c,
             keep)

\* Mutant of MapConst: the host register keeps it too.
MapConstStill(s, r, value) == [s EXCEPT !.const[r] = IF r = R0 THEN 0 ELSE value]

\* MapConst: the register becomes a known constant and leaves its host
\* register.  r0 stays the constant 0.
MapConst(s, r, value) ==
    Drop([s EXCEPT !.const[r] = IF r = R0 THEN 0 ELSE value], Where(s, r))

-----------------------------------------------------------------------------
(* Calls out of the block.                                                 *)

\* PUSH_RegIfMapped: a clean register the block no longer uses is unmapped
\* instead of being saved; PopFlag is the domain of the stack.
PushIfMapped(s, k) ==
    LET e == s.map[k]
        owner == IF e.mips = HighWord THEN CHOOSE j \in Mapped(s) : s.map[j].hi = k ELSE k
    IN  IF e.mips = Unused THEN s
        ELSE IF BlockAnalysis /\ s.map[owner].mips \in s.dead \ s.now /\ ~s.map[owner].dirty
        THEN FlushRegister(s, owner)
        ELSE [s EXCEPT !.stack[k] = s.host[k]]

\* Only the order of the birth dates matters: they are renamed to ranks.
Settled(s) ==
    LET years == {s.map[k].birth : k \in Mapped(s)}
        Rank(y) == Cardinality({z \in years : z < y})
    IN  [s EXCEPT !.map = [k \in Host |-> [s.map[k] EXCEPT !.birth =
                              IF k \in Mapped(s) THEN Rank(s.map[k].birth) ELSE FirstYear]],
                  !.year = Cardinality(years), !.now = {},
                  !.stack = [k \in Host |-> NoConst]]

-----------------------------------------------------------------------------
(* What the tables say.                                                    *)

\* A register's value according to the tables.
Value(s, r) ==
    LET k == Where(s, r)
    IN  IF IsConst(s, r) THEN Sext(s.const[r])
        ELSE IF k = None \/ ~s.map[k].dirty THEN s.gpr[r]
        ELSE IF s.map[k].hi = k THEN Sext(s.host[k])
        ELSE Pair(s.host[k], s.host[s.map[k].hi])

\* A register is in one place, a known constant in none but r0, which is the
\* constant 0; a mapped one has a high word of its own, the low word itself if
\* it is 32-bit.
TablesAgree(s) ==
    /\ s.const[R0] = 0
    /\ \A r \in Reg : Cardinality(Holding(s, r)) <= 1
    /\ \A r \in Reg \ {R0} : IsConst(s, r) => Where(s, r) = None
    /\ \A k \in Mapped(s) :
        LET e == s.map[k]
        IN  /\ e.hi \in Host /\ (e.hi = k \/ s.map[e.hi].mips = HighWord)
            /\ \A j \in Mapped(s) \ {k} : s.map[j].hi # e.hi
            /\ e.is32 <=> e.hi = k
    /\ \A k \in Host : s.map[k].mips = HighWord => \E j \in Mapped(s) : s.map[j].hi = k

\* What is mapped and clean is as in memory, and what is marked as flushed from a
\* 32-bit register is a sign-extended word there.
ImageAgrees(s) ==
    \A r \in Reg \ {R0} :
        LET k == Where(s, r)
        IN  /\ k # None /\ ~s.map[k].dirty =>
                /\ s.host[k] = Low(s.gpr[r])
                /\ s.map[k].hi # k => s.host[s.map[k].hi] = High(s.gpr[r])
            /\ s.flushed[r] /\ ~CheckIsDirty(s, r) /\ ~IsConst(s, r) => IsWord(s.gpr[r])
=============================================================================
