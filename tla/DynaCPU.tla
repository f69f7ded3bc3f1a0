-------------------------------- MODULE DynaCPU -------------------------------
(***************************************************************************)
(* What the recompiler emits for an instruction (src/dynaRec/dynaCPU.c):   *)
(* one operator per handler, from the state of the block so far (see       *)
(* RegCache) to the state after the code of this instruction.  The options *)
(* are the defaults of src/1964ini.c: no SAFE_ switch, one pass, and       *)
(* Assume_32bit off.                                                       *)
(***************************************************************************)
EXTENDS DynaHelper

-----------------------------------------------------------------------------
(* Additions.                                                              *)

\* Map_RD_NE_RT: a clean rt that the block no longer uses gives its host
\* register to rd; otherwise rd is mapped (m) and rt moved to it (o).
RTMoved(m, o) == [s |-> PutLo(o.s, m, o.lo), x |-> m.x, hi |-> m.hi]
MoveRT(m, i) == RTMoved(m, MapTo(m.s, i.rt, TRUE, {i.rd, i.rs}))
Map_RD_NE_RT(s, i) ==
    LET k == Where(s, i.rt)
        takes == k # None /\ BlockAnalysis /\ ~s.map[k].dirty /\ i.rt \in s.dead
        freed == IF s.map[k].hi = k THEN s
                 ELSE [s EXCEPT !.map[s.map[k].hi] = [@ EXCEPT !.dirty = FALSE, !.mips = Unused]]
        old == FreeMipsRegister(freed, i.rd)
    IN  IF takes
        THEN [s |-> [old EXCEPT !.map[k] = [@ EXCEPT !.mips = i.rd, !.is32 = TRUE,
                                                     !.hi = k, !.dirty = TRUE]],
              x |-> k, hi |-> k]
        ELSE MoveRT(MapRD(s, i, Define(i.rd, TRUE)), i)

\* rd = rs (+ or -) rt with rd the second operand, the first, or neither.  m
\* is the mapping of rd, o the other operand.
Minus(w, sub) == IF sub THEN -w ELSE w
AddTo(m, o, sub) == PutLo(o.s, m, WordOf(o.s.host[m.x] + Minus(o.lo, sub)))
Negated(m) == PutLo(m.s, m, WordOf(-m.s.host[m.x]))

AddToRT(s, i, m, sub) ==
    LET n == IF sub THEN Negated(m) ELSE m.s
    IN  IF i.rs = R0 THEN IF sub THEN n ELSE s
        ELSE AddTo(m, Use(n, i.rs, TRUE, {i.rd, i.rt}), FALSE)
MipsAddOntoRT(s, i, sub) == AddToRT(s, i, MapRD(s, i, Change(i.rd, TRUE)), sub)

\* With a constant rs, rd is computed from rt and the constant (LEA).
Lea(d, o, value, sub) == PutLo(o.s, d, WordOf(value + Minus(o.lo, sub)))
LeaRT(i, d, value, sub) == Lea(d, MapIn(d.s, i.rt, TRUE, {i.rd, i.rs}), value, sub)
AddToRS(i, m, sub) == AddTo(m, Use(m.s, i.rt, TRUE, {i.rd, i.rs}), sub)
MipsAddOntoRS(s, i, sub) ==
    IF i.rt = R0 THEN s
    ELSE IF IsConst(s, i.rs) THEN LeaRT(i, MapRD(s, i, Define(i.rd, TRUE)), s.const[i.rs], sub)
    ELSE AddToRS(i, MapRD(s, i, Change(i.rd, TRUE)), sub)

\* rt is moved to rd first, or rs is.
Own(m) == m.s.host[m.x]
Doubled(m) == PutLo(m.s, m, WordOf(2 * Own(m)))
AddRT(s, i, m, sub) ==
    IF i.rt = R0 THEN s ELSE AddTo(m, Use(s, i.rt, TRUE, {i.rd, i.rs}), sub)
AddRS(i, m, a, sub) == AddRT(PutLo(a.s, m, a.lo), i, m, sub)
FromRT(i, m, sub) ==
    IF i.rs = i.rt THEN Doubled(m) ELSE IF sub THEN Negated(m) ELSE PutLo(m.s, m, Own(m))
AddFresh(i, m, sub) ==
    IF i.rs = i.rt /\ sub THEN PutLo(m.s, m, 0)
    ELSE IF i.rs # i.rt /\ i.rs # R0 THEN AddRS(i, m, Use(m.s, i.rs, TRUE, {i.rd, i.rt}), sub)
    ELSE FromRT(i, Map_RD_NE_RT(m.s, i), sub)
MipsAddFresh(s, i, sub) == AddFresh(i, MapRD(s, i, Define(i.rd, TRUE)), sub)

MipsAdd(s, i, sub) ==
    IF Const2(s, i) THEN MapConst(s, i.rd, WordOf(s.const[i.rs] + Minus(s.const[i.rt], sub)))
    ELSE IF i.rd = i.rt /\ i.rs = i.rt
    THEN IF sub THEN MapConst(FreeMipsRegister(s, i.rd), i.rd, 0)
         ELSE Doubled(MapRD(s, i, Change(i.rd, TRUE)))
    ELSE IF i.rd = i.rt THEN MipsAddOntoRT(s, i, sub)
    ELSE IF i.rd = i.rs THEN MipsAddOntoRS(s, i, sub)
    ELSE MipsAddFresh(s, i, sub)

\* dsub of 32-bit operands takes the 32-bit subtraction.
dyna4300i_special_sub(s, i) ==
    IF i.op = "dsub" /\ ~Both32(s, i) THEN INTERPRET(s, i)
    ELSE IF i.rd = R0 THEN s ELSE MipsAdd(s, i, i.op # "add")

dyna4300i_special_dadd(s, i) ==
    INTERPRET(s, [i EXCEPT !.op = IF Both32(s, i) THEN "dadd_32bit" ELSE "dadd"])
dyna4300i_daddi(s, i) ==
    INTERPRET(s, [i EXCEPT !.op = IF CheckIs32Bit(s, i.rs) THEN "daddi_32bit" ELSE "daddi"])

\* addi and addiu (DoConstAddi).
AddImm(i, m) == PutLo(m.s, m, WordOf(Own(m) + ImmS(i)))
LeaImm(i, m) == Lea(m, MapTo(m.s, i.rs, TRUE, {i.rd, i.rt}), ImmS(i), FALSE)
DoConstAddi(s, i) ==
    IF IsConst(s, i.rs) THEN MapConst(s, i.rt, WordOf(s.const[i.rs] + ImmS(i)))
    ELSE IF i.rt # i.rs THEN LeaImm(i, MapRT(s, i, Define(i.rt, TRUE)))
    ELSE IF i.imm = 0 /\ CheckIs32Bit(s, i.rt) THEN s
    ELSE AddImm(i, MapRT(s, i, Change(i.rt, TRUE)))
dyna4300i_addi(s, i) == IF i.rt = R0 THEN s ELSE DoConstAddi(s, i)

-----------------------------------------------------------------------------
(* Comparisons.                                                            *)

\* rs < rt, from the words the two are compared by.
LessS(a, b, is32) ==
    IF is32 THEN Signed(a.lo) < Signed(b.lo)
    ELSE SignedD(Pair(a.lo, a.hi)) < SignedD(Pair(b.lo, b.hi))
LessU(a, b, is32) == IF is32 THEN a.lo < b.lo ELSE Pair(a.lo, a.hi) < Pair(b.lo, b.hi)

\* slt and slti compare signed values, sltu and sltiu unsigned ones.
IsLess(i, a, b, is32) ==
    IF i.op \in {"slt", "slti"} THEN LessS(a, b, is32) ELSE LessU(a, b, is32)

\* slt and sltu: a 64-bit rd that is also an operand is narrowed afterwards.
\* m, x and y are the mappings of rd, rs and rt, in the order they are asked for.
Words(m, t) == [lo |-> t.host[m.x], hi |-> t.host[m.hi]]
LessXY(i, m, x, y, is32) == PutLo(y.s, m, Bit(IsLess(i, Words(x, y.s), Words(y, y.s), is32)))
LessX(i, m, x, is32) == LessXY(i, m, x, MapRT(x.s, i, Want(i.rt, is32)), is32)
LessM(i, m, is32) == LessX(i, m, MapRS(m.s, i, Want(i.rs, is32)), is32)
SetLess(s, i) ==
    LET is32 == Both32(s, i)
        apart == i.rd \notin {i.rs, i.rt}
        narrow == is32 \/ apart
        c == IF apart THEN Define(i.rd, narrow) ELSE Change(i.rd, narrow)
        Narrowed(u) == IF narrow THEN u ELSE MapRD(u, i, Change(i.rd, TRUE)).s
    IN  IF i.rs = i.rt THEN MapConst(s, i.rd, 0) ELSE Narrowed(LessM(i, MapRD(s, i, c), is32))

dyna4300i_special_slt(s, i) == IF i.rd = R0 THEN s ELSE SetLess(s, i)

\* slti and sltiu, with rt the operand or not.
Imm(i) == [lo |-> ImmWord(i), hi |-> SignOf(ImmWord(i))]
LessOwn(i, m, is32) == Put(m.s, m, Bit(IsLess(i, Words(m, m.s), Imm(i), is32)), 0, is32)
LessImmX(i, m, x, is32) == PutLo(x.s, m, Bit(IsLess(i, Words(x, x.s), Imm(i), is32)))
LessImm(i, m, is32) == LessImmX(i, m, MapRS(m.s, i, Want(i.rs, is32)), is32)
SetLessI(s, i) ==
    LET is32 == CheckIs32Bit(s, i.rs)
    IN  IF IsConst(s, i.rs)
        THEN MapConst(s, i.rt, Bit(IsLess(i, [lo |-> s.const[i.rs], hi |-> 0], Imm(i), TRUE)))
        ELSE IF i.rt = i.rs THEN LessOwn(i, MapRT(s, i, Change(i.rt, is32)), is32)
        ELSE LessImm(i, MapRT(s, i, Define(i.rt, TRUE)), is32)

dyna4300i_slti(s, i) == IF i.rt = R0 THEN s ELSE SetLessI(s, i)

-----------------------------------------------------------------------------
(* Gates.                                                                  *)

AndBits(a, b) == a & b
OrBits(a, b) == a | b
XorBits(a, b) == a ^^ b
NorBits(a, b) == Ones - (a | b)

\* rd is also an operand: it is mapped, and the other one combined with it.
GateInto(m, o, F(_, _), is32) ==
    Put(o.s, m, F(o.s.host[m.x], o.lo), F(o.s.host[m.hi], o.hi), is32)
GateOnto(m, other, keep, F(_, _), is32, In(_, _, _, _)) ==
    GateInto(m, In(m.s, other, is32, keep), F, is32)
Onto(s, i, other, keep, F(_, _), is32, In(_, _, _, _)) ==
    GateOnto(MapRD(s, i, Change(i.rd, is32)), other, keep, F, is32, In)
OntoRT(s, i, F(_, _), is32, In(_, _, _, _)) == Onto(s, i, i.rs, {i.rd, i.rt}, F, is32, In)
OntoRS(s, i, F(_, _), is32, In(_, _, _, _)) == Onto(s, i, i.rt, {i.rd, i.rs}, F, is32, In)

\* rd is neither: rs is moved to it, rt combined with it.
PutBoth(m, o, is32) == Put(o.s, m, o.lo, o.hi, is32)
FreshRT(i, m, t, F(_, _), is32, InT(_, _, _, _)) ==
    GateInto(m, InT(t, i.rt, is32, {i.rd, i.rs}), F, is32)
FreshRD(i, m, F(_, _), is32, InS(_, _, _, _), InT(_, _, _, _)) ==
    FreshRT(i, m, PutBoth(m, InS(m.s, i.rs, is32, {i.rd, i.rt}), is32), F, is32, InT)
Fresh(s, i, F(_, _), is32, InS(_, _, _, _), InT(_, _, _, _)) ==
    FreshRD(i, MapRD(s, i, DefineBoth(i.rd, is32)), F, is32, InS, InT)

dyna4300i_special_and(s, i) ==
    IF i.rd = R0 THEN s
    ELSE IF Const2(s, i) THEN MapConst(s, i.rd, s.const[i.rs] & s.const[i.rt])
    ELSE IF i.rd = i.rt
    THEN IF i.rs = i.rt THEN s ELSE OntoRT(s, i, AndBits, Both32(s, i), MapIn)
    ELSE IF i.rd = i.rs THEN OntoRS(s, i, AndBits, Both32(s, i), Use)
    ELSE IF IsConst(s, i.rs) THEN Fresh(s, i, AndBits, Both32(s, i), Use, MapIn)
    ELSE Fresh(s, i, AndBits, Both32(s, i), Use, Use)

dyna4300i_special_or(s, i) ==
    IF i.rd = R0 THEN s
    ELSE IF Const2(s, i) THEN MapConst(s, i.rd, s.const[i.rs] | s.const[i.rt])
    ELSE IF i.rd = i.rt
    THEN IF i.rs = i.rt THEN s ELSE OntoRT(s, i, OrBits, Both32(s, i), MapIn)
    ELSE IF i.rd = i.rs THEN OntoRS(s, i, OrBits, Both32(s, i), Use)
    ELSE Fresh(s, i, OrBits, Both32(s, i), Use, Use)

\* xor: with a constant rs and a 64-bit rd that is rt, both halves of the
\* immediate go to the low word.
XorConst(m, c, is32) ==
    PutLo(m.s, m, IF is32 THEN Own(m) ^^ c ELSE (Own(m) ^^ c) ^^ SignOf(c))
XorConstOntoRT(s, i, is32) == XorConst(MapRD(s, i, Change(i.rd, is32)), s.const[i.rs], is32)

dyna4300i_special_xor(s, i) ==
    IF i.rd = R0 THEN s
    ELSE IF Const2(s, i) THEN MapConst(s, i.rd, s.const[i.rs] ^^ s.const[i.rt])
    ELSE IF i.rs = i.rt THEN MapConst(s, i.rd, 0)
    ELSE IF i.rd = i.rt
    THEN IF IsConst(s, i.rs) THEN XorConstOntoRT(s, i, Both32(s, i))
         ELSE IF IsConst(s, i.rt) THEN OntoRT(s, i, XorBits, Both32(s, i), MapIn)
         ELSE OntoRT(s, i, XorBits, Both32(s, i), Use)
    ELSE IF i.rd = i.rs THEN OntoRS(s, i, XorBits, Both32(s, i), Use)
    ELSE Fresh(s, i, XorBits, Both32(s, i), Use, Use)

Not(m, is32) == Put(m.s, m, Ones - m.s.host[m.x], Ones - m.s.host[m.hi], is32)
dyna4300i_special_nor(s, i) ==
    LET is32 == Both32(s, i)
    IN  IF i.rd = R0 THEN s
        ELSE IF i.rd = i.rt /\ i.rs = i.rt THEN Not(MapRD(s, i, Change(i.rd, is32)), is32)
        ELSE IF i.rd = i.rt THEN OntoRT(s, i, NorBits, is32, MapIn)
        ELSE IF i.rd = i.rs THEN OntoRS(s, i, NorBits, is32, MapIn)
        ELSE Fresh(s, i, NorBits, is32, MapIn, MapIn)

\* andi is always 32-bit: the result has no upper half.
AndOwn(i, m) == PutLo(m.s, m, Own(m) & i.imm)
AndInto(i, m, o) == PutLo(o.s, m, o.lo & i.imm)
AndRS(i, m) == AndInto(i, m, MapTo(m.s, i.rs, TRUE, {i.rd, i.rt}))
dyna4300i_andi(s, i) ==
    IF i.rt = R0 THEN s
    ELSE IF IsConst(s, i.rs) THEN MapConst(s, i.rt, s.const[i.rs] & i.imm)
    ELSE IF i.rs = i.rt THEN AndOwn(i, MapRT(s, i, Change(i.rt, TRUE)))
    ELSE AndRS(i, MapRT(s, i, Define(i.rt, TRUE)))

\* ori and xori.
GateOwn(i, m, F(_, _)) == PutLo(m.s, m, F(Own(m), i.imm))
GateImmInto(i, m, o, F(_, _), is32) == Put(o.s, m, F(o.lo, i.imm), o.hi, is32)
GateRS(i, m, F(_, _), is32) ==
    GateImmInto(i, m, MapTo(m.s, i.rs, is32, {i.rd, i.rt}), F, is32)
GateImm(s, i, F(_, _)) ==
    LET is32 == CheckIs32Bit(s, i.rs)
    IN  IF i.rt = R0 THEN s
        ELSE IF IsConst(s, i.rs) THEN MapConst(s, i.rt, F(s.const[i.rs], i.imm))
        ELSE IF i.rs # i.rt THEN GateRS(i, MapRT(s, i, DefineBoth(i.rt, is32)), F, is32)
        ELSE IF i.imm = 0 /\ is32 THEN s
        ELSE GateOwn(i, MapRT(s, i, Change(i.rt, is32)), F)
dyna4300i_ori(s, i) == GateImm(s, i, OrBits)
dyna4300i_xori(s, i) == GateImm(s, i, XorBits)

dyna4300i_lui(s, i) == MapConst(s, i.rt, i.imm * 2 ^ Half)

-----------------------------------------------------------------------------
(* Shifts.                                                                 *)

ShiftWord(op, w, k) ==
    CASE op \in {"sll", "sllv"} -> WordOf(w * 2 ^ k)
      [] op \in {"srl", "srlv"} -> w \div 2 ^ k
      [] op \in {"sra", "srav", "dsra"} -> WordOf(Sar(Signed(w), k))

\* dyna4300i_special_shift: sll, srl and sra, and dsra of a 32-bit register.
Shifted(i, m) == PutLo(m.s, m, ShiftWord(i.op, Own(m), i.sa))
dyna4300i_special_shift(s, i) ==
    IF i.rd = R0 THEN s
    ELSE IF IsConst(s, i.rt) THEN MapConst(s, i.rd, ShiftWord(i.op, s.const[i.rt], i.sa))
    ELSE Shifted(i, IF i.rd = i.rt THEN MapRD(s, i, Change(i.rd, TRUE)) ELSE Map_RD_NE_RT(s, i))

dyna4300i_special_dsra(s, i) ==
    IF CheckIs32Bit(s, i.rt) THEN dyna4300i_special_shift(s, i) ELSE INTERPRET(s, i)

\* The host register k is vacated, whether it is a low or a high word.
Vacate(s, k) ==
    LET owners == {j \in Mapped(s) : j = k \/ s.map[j].hi = k}
    IN  IF owners = {} THEN s ELSE FlushRegister(s, Max(owners))

\* dyna4300i_shift_var: the amount goes through CL, so ECX is vacated and
\* protected while rd, rs and rt are mapped.  w is shifted into m, in t.
By(i, t, m, amount, w) == PutLo(Mov(t, ECX, amount), m, ShiftWord(i.op, w, amount % W))

\* rd is rt: x is the amount, and m the value.  rd is rs: the other way round.
ByRS(i, m, x) == By(i, x.s, m, x.s.host[x.x], x.s.host[m.x])
ByRD(i, m, y) == By(i, y.s, m, y.s.host[m.x], y.s.host[y.x])
ShiftOwn(i, m) ==
    IF i.rs # i.rt THEN ByRS(i, m, MapRS(m.s, i, Want(i.rs, TRUE))) ELSE ByRS(i, m, m)
ShiftRD(i, m) == ByRD(i, m, MapRT(m.s, i, Want(i.rt, TRUE)))

\* rd is neither.
ByRT(i, m, q) ==
    IF i.rs = i.rt THEN By(i, q.s, m, q.s.host[q.x], q.s.host[q.x]) ELSE PutLo(q.s, m, q.s.host[q.x])
ByCL(i, m) == By(i, m.s, m, m.s.host[ECX], Own(m))
MoveToCL(i, m, t) ==
    ByCL(i, IF IsConst(t, i.rt) THEN [s |-> PutLo(t, m, t.const[i.rt]), x |-> m.x, hi |-> m.hi]
            ELSE Map_RD_NE_RT(t, i))
AmountToCL(i, m, p) == MoveToCL(i, m, Mov(p.s, ECX, Own(p)))
ShiftFresh(i, m) ==
    IF i.rs # i.rt /\ i.rs # R0 THEN AmountToCL(i, m, MapRS(m.s, i, Want(i.rs, TRUE)))
    ELSE IF i.rt = i.rs /\ i.rt = R0 THEN PutLo(m.s, m, 0)
    ELSE ByRT(i, m, MapRT(m.s, i, Want(i.rt, TRUE)))
ShiftVar(s, i) ==
    IF i.rd = i.rt THEN ShiftOwn(i, MapRD(s, i, Change(i.rd, TRUE)))
    ELSE IF i.rd = i.rs THEN ShiftRD(i, MapRD(s, i, Change(i.rd, TRUE)))
    ELSE ShiftFresh(i, MapRD(s, i, Define(i.rd, TRUE)))

dyna4300i_shift_var(s, i) ==
    LET protect == [Vacate(s, ECX) EXCEPT !.map[ECX] = Entry(Protected, TRUE, FALSE, ECX, @.birth)]
    IN  IF i.rd = R0 THEN s ELSE [ShiftVar(protect, i) EXCEPT !.map[ECX].mips = Unused]

\* dsll32 never trusts the 32-bit flag; dsrl32 takes a 32-bit rt for one
\* without an upper half; dsra32 shifts the upper half down.
Up(m, t, w, i) == Put(t, m, 0, WordOf(w * 2 ^ i.sa), FALSE)
UpRT(i, m, o) == Up(m, o.s, o.lo, i)
dyna4300i_special_dsll32(s, i) ==
    LET UpOwn(m) == Up(m, m.s, Own(m), i)
        UpFresh(m) == UpRT(i, m, MapIn(m.s, i.rt, TRUE, {i.rd, i.rs}))
    IN  IF i.rd = R0 THEN s
        ELSE IF i.rt = i.rd THEN UpOwn(MapRD(s, i, Conditions(i.rd, FALSE, TRUE, FALSE, TRUE)))
        ELSE UpFresh(MapRD(s, i, DefineBoth(i.rd, FALSE)))

dyna4300i_special_dsrl32(s, i) ==
    IF i.rd = R0 THEN s
    ELSE IF CheckIs32Bit(s, i.rt) THEN MapConst(s, i.rd, 0)
    ELSE INTERPRET(s, i)

Down(m, w, i) == Put(m.s, m, WordOf(Sar(Signed(w), i.sa)), SignOf(w), FALSE)
DownRT(i, m, o) == PutLo(o.s, m, WordOf(Sar(Signed(o.hi), i.sa)))
dyna4300i_special_dsra32(s, i) ==
    LET DownOwn(m) == Down(m, m.s.host[m.hi], i)
        DownFresh(m) == DownRT(i, m, MapIn(m.s, i.rt, FALSE, {i.rd, i.rs}))
    IN  IF i.rd = R0 THEN s
        ELSE IF i.rd = i.rt
        THEN MapRD(DownOwn(MapRD(s, i, Define(i.rd, FALSE))), i, Define(i.rd, TRUE)).s
        ELSE DownFresh(MapRD(s, i, Define(i.rd, TRUE)))

-----------------------------------------------------------------------------
(* LO and HI.                                                              *)

MoveInto(m, d, r, keep) == PutBoth(m, Use(m.s, r, FALSE, keep \cup {d}), FALSE)
Move(s, d, r, keep) ==
    MoveInto(MapRegister(s, DefineBoth(d, FALSE), keep \cup {r}), d, r, keep)
dyna4300i_mf_mt(s, i) ==
    CASE i.op = "mfhi" -> IF i.rd = R0 THEN s ELSE Move(s, i.rd, HI, {i.rt})
      [] i.op = "mflo" -> IF i.rd = R0 THEN s ELSE Move(s, i.rd, LO, {i.rt})
      [] i.op = "mthi" -> Move(s, HI, i.rs, {i.rt})
      [] i.op = "mtlo" -> Move(s, LO, i.rs, {i.rt})

OwnedBy(s, k, r) == [s EXCEPT !.map[k] = [@ EXCEPT !.mips = r, !.is32 = TRUE, !.dirty = TRUE, !.hi = k]]

\* The product of mult and multu goes from EDX:EAX to the pair m, which
\* becomes LO and HI; the halves are swapped when the pair already lies
\* across EAX and EDX.
MoveBoth(s, low, high) ==
    LET t == Mov(s, low, s.host[EAX]) IN Mov(t, high, t.host[EDX])
ProductInto(s, m, product) ==
    LET ran == Mov(Mov(s, EAX, Low(product)), EDX, High(product))
        swap == m.hi = EAX \/ m.x = EDX
        put == IF swap THEN MoveBoth(ran, m.hi, m.x) ELSE MoveBoth(ran, m.x, m.hi)
    IN  OwnedBy(OwnedBy(Restore(Restore(put, m, EDX), m, EAX), m.hi, IF swap THEN LO ELSE HI),
                m.x, IF swap THEN HI ELSE LO)
WordProduct(op, a, b) == DoubleOf(IF op = "mult" THEN Signed(a) * Signed(b) ELSE a * b)

\* LO is mapped as a pair (m); EAX and EDX are saved around the MUL of x and y.
MulSaved(t, i, m, x, y) == ProductInto(t, m, WordProduct(i.op, t.host[x.x], t.host[y.x]))
MulXY(i, m, x, y) == MulSaved(Save(Save(y.s, m, EAX), m, EDX), i, m, x, y)
MulX(i, m, x) == MulXY(i, m, x, MapRegister(x.s, Want(i.rt, TRUE), {LO, i.rs}))
Mul(i, m) == MulX(i, m, MapRegister(m.s, Want(i.rs, TRUE), {LO, i.rt}))
dyna4300i_special_mul(s, i) ==
    Mul(i, MapRegister(FreeMipsRegister(FreeMipsRegister(s, LO), HI), DefineBoth(LO, FALSE),
                       {i.rs, i.rt}))

\* EAX and EDX become LO and HI, also when the division is skipped.
QuotientInto(s, a, b, divisor) ==
    LET ran == IF b = 0 THEN s
               ELSE Mov(Mov(s, EAX, WordOf(Quot(a, b))), EDX, WordOf(Rem(a, b)))
        owned == OwnedBy(OwnedBy(Mov(ran, ECX, divisor), EAX, LO), EDX, HI)
    IN  PopIfMapped([owned EXCEPT !.map[EAX].birth = s.year, !.map[EDX].birth = s.year], ECX)

\* div and divu: rs and rt are written back and read from memory.
dyna4300i_special_div(s, i) ==
    LET freed == FreeMipsRegister(FreeMipsRegister(s, LO), HI)
        t == PushIfMapped(Vacate(Vacate(FlushOperands(freed, i), EAX), EDX), ECX)
        a == Low(t.gpr[i.rs])
        b == Low(t.gpr[i.rt])
    IN  IF i.op = "div" THEN QuotientInto(t, Signed(a), Signed(b), b) ELSE QuotientInto(t, a, b, b)

\* ddiv and ddivu of 32-bit operands take the 32-bit division.
dyna4300i_special_ddiv(s, i) ==
    IF Both32(s, i)
    THEN dyna4300i_special_div(s, [i EXCEPT !.op = IF i.op = "ddiv" THEN "div" ELSE "divu"])
    ELSE INTERPRET(s, i)

-----------------------------------------------------------------------------
(* Loads and stores.  A read function leaves the host address in EAX and    *)
(* keeps the other registers; ECX carries the index of the function.       *)

LoadInto(s, i, m, a) ==
    LET w == CASE i.op = "lh" -> SextHalf(LowHalf(Memory[a]))
               [] i.op = "lhu" -> LowHalf(Memory[a])
               [] i.op = "lw" -> Memory[a]
               [] i.op = "lb" -> SextHalf(LowHalf(Memory[a]))
               [] i.op = "lbu" -> LowHalf(Memory[a])
    IN  IF i.rt = R0 THEN s
        ELSE IF i.op = "ld" THEN Put(s, m, Low(MemDouble(a)), High(MemDouble(a)), FALSE)
        ELSE PutLo(s, m, w)

\* EAX and ECX are saved around the call unless rt is there.
ReadCall(s, i, m, a) ==
    LET called == Clobber(Save(Save(s, m, EAX), m, ECX), {EAX, ECX})
    IN  Restore(Restore(LoadInto(called, i, m, a), m, ECX), m, EAX)

\* The same when the index goes through rt's host register, or a constant
\* address needs none.
ReadCallEAX(s, i, m, a) ==
    Restore(LoadInto(Clobber(Save(s, m, EAX), {EAX, m.x}), i, m, a), m, EAX)

\* MemoryCase1: the index goes through rt's host register, or through rs's,
\* which is restored; lb and lbu use ECX to cut the byte out.
MemoryCase1(s, i, m, a) ==
    LET called == Clobber(Save(s, m, EAX), {EAX} \cup (IF EAX \in {m.x, m.hi} THEN {} ELSE {m.x}))
        cut == IF i.op = "ld" \/ m.x = ECX THEN called
               ELSE PopIfMapped(Clobber(PushIfMapped(called, ECX), {ECX}), ECX)
    IN  Restore(LoadInto(cut, i, m, a), m, EAX)

\* m is the mapping of rt, a the address.
LoadHere(i, m, a) == LoadInto(m.s, i, m, a)
ReadConst(i, m, a) == IF i.op = "lw" THEN ReadCallEAX(m.s, i, m, a) ELSE ReadCall(m.s, i, m, a)
LoadConst(s, i) ==
    LET a == WordOf(s.const[i.rs] + ImmS(i))
        c == IF i.op = "ld" THEN DefineBoth(i.rt, FALSE) ELSE Define(i.rt, TRUE)
    IN  IF ~InKSeg(a) THEN ReadConst(i, MapRT(s, i, c), a)
        ELSE IF i.op # "lw" THEN LoadHere(i, MapRT(s, i, c), a)
        ELSE IF i.rt = R0 THEN s ELSE LoadHere(i, MapRegister(s, c, {}), a)

\* lw, lh and lhu take rs from memory when it is used for the last time (o);
\* lb, lbu and ld map it (x).
Offset(w, i) == WordOf(w + ImmS(i))
ReadAt(i, m, o) ==
    IF i.op = "lw" /\ m.x # EAX THEN ReadCallEAX(o.s, i, m, Offset(o.lo, i))
    ELSE ReadCall(o.s, i, m, Offset(o.lo, i))
ReadThrough(i, m, x) ==
    IF x.x = EAX \/ (i.op = "ld" /\ x.hi = EAX) THEN ReadCall(x.s, i, m, Offset(Own(x), i))
    ELSE MemoryCase1(x.s, i, m, Offset(Own(x), i))
LoadRT(i, m) ==
    IF i.op \in {"lw", "lh", "lhu"} THEN ReadAt(i, m, MapTo(m.s, i.rs, TRUE, {i.rd, i.rt}))
    ELSE ReadThrough(i, m, MapRS(m.s, i, Want(i.rs, i.op # "ld")))
LoadMapped(s, i) ==
    LoadRT(i, MapRT(s, i, IF i.rt = i.rs THEN Change(i.rt, i.op # "ld")
                          ELSE IF i.op # "ld" THEN Define(i.rt, TRUE) ELSE DefineBoth(i.rt, FALSE)))

\* Only lw does not return at once when rt is r0.
Load(s, i) ==
    IF i.rt = R0 /\ i.op # "lw" THEN s
    ELSE IF IsConst(s, i.rs) THEN LoadConst(s, i) ELSE LoadMapped(s, i)

\* A store writes rt back and takes the data from its memory image.
StoreFrom(s, i, size, t) ==
    LET k == Where(t, i.rs)
        base == IF IsConst(s, i.rs) THEN s.const[i.rs]
                ELSE IF k = None THEN Low(t.gpr[i.rs]) ELSE t.host[k]
        low == IF i.rt = R0 THEN 0 ELSE Low(t.gpr[i.rt])
        data == CASE size = "half" -> LowHalf(low)
                  [] size = "word" -> low
                  [] size = "double" -> t.gpr[i.rt]
        stored == Store(Clobber(t, {EAX, ECX}), size, WordOf(base + ImmS(i)), data)
    IN  PopIfMapped(PopIfMapped(stored, ECX), EAX)
StoreCall(s, i, size) ==
    StoreFrom(s, i, size, PushIfMapped(PushIfMapped(FlushMips(s, i.rt), EAX), ECX))

dyna4300i_sb(s, i) == StoreCall(s, i, "half")
dyna4300i_sh(s, i) == StoreCall(s, i, "half")
dyna4300i_sd(s, i) == StoreCall(s, i, "double")

\* sw to a constant address is done in place when nothing protects the code.
StoreHere(m, a) == Store(m.s, "word", a, Own(m))
dyna4300i_sw(s, i) ==
    LET a == WordOf(s.const[i.rs] + ImmS(i))
        zero == Clobber(PushIfMapped(s, EAX), {EAX})
    IN  IF ~IsConst(s, i.rs) \/ ProtectMemory \/ ~InKSeg(a) THEN StoreCall(s, i, "word")
        ELSE IF i.rt = R0 THEN PopIfMapped(Store(zero, "word", a, 0), EAX)
        ELSE StoreHere(MapRT(s, i, Want(i.rt, TRUE)), a)

-----------------------------------------------------------------------------
\* The dispatch table of the compiler: the handler of an instruction.
CompileInteger(s0, i) ==
    LET s == InitRdRsRt(s0, i)
    IN  CASE i.op \in {"add", "sub", "dsub"} -> dyna4300i_special_sub(s, i)
          [] i.op = "addi" -> dyna4300i_addi(s, i)
          [] i.op = "dadd" -> dyna4300i_special_dadd(s, i)
          [] i.op = "daddi" -> dyna4300i_daddi(s, i)
          [] i.op = "and" -> dyna4300i_special_and(s, i)
          [] i.op = "or" -> dyna4300i_special_or(s, i)
          [] i.op = "xor" -> dyna4300i_special_xor(s, i)
          [] i.op = "nor" -> dyna4300i_special_nor(s, i)
          [] i.op = "andi" -> dyna4300i_andi(s, i)
          [] i.op = "ori" -> dyna4300i_ori(s, i)
          [] i.op = "xori" -> dyna4300i_xori(s, i)
          [] i.op = "lui" -> dyna4300i_lui(s, i)
          [] i.op \in {"slt", "sltu"} -> dyna4300i_special_slt(s, i)
          [] i.op \in {"slti", "sltiu"} -> dyna4300i_slti(s, i)
          [] i.op \in {"sll", "srl", "sra"} -> dyna4300i_special_shift(s, i)
          [] i.op \in {"sllv", "srlv", "srav"} -> dyna4300i_shift_var(s, i)
          [] i.op = "dsra" -> dyna4300i_special_dsra(s, i)
          [] i.op = "dsll32" -> dyna4300i_special_dsll32(s, i)
          [] i.op = "dsrl32" -> dyna4300i_special_dsrl32(s, i)
          [] i.op = "dsra32" -> dyna4300i_special_dsra32(s, i)
          [] i.op \in {"mfhi", "mflo", "mthi", "mtlo"} -> dyna4300i_mf_mt(s, i)
          [] i.op \in {"mult", "multu"} -> dyna4300i_special_mul(s, i)
          [] i.op \in {"div", "divu"} -> dyna4300i_special_div(s, i)
          [] i.op \in {"ddiv", "ddivu"} -> dyna4300i_special_ddiv(s, i)
          [] i.op \in {"lb", "lbu", "lh", "lhu", "lw", "ld"} -> Load(s, i)
          [] i.op = "sb" -> dyna4300i_sb(s, i)
          [] i.op = "sh" -> dyna4300i_sh(s, i)
          [] i.op = "sw" -> dyna4300i_sw(s, i)
          [] i.op = "sd" -> dyna4300i_sd(s, i)
          [] i.op \in {"dsllv", "dsrlv", "dsrav", "dsll", "dsrl", "dmult", "dmultu"} ->
                INTERPRET(s, i)
          [] i.op \in {"lwu", "lwl", "lwr", "ldl", "ldr"} ->
                IF i.rt = R0 THEN s ELSE INTERPRET_LOADSTORE(s, i)
          [] i.op \in {"sc", "swl", "swr", "sdl", "sdr"} -> INTERPRET_LOADSTORE(s, i)
=============================================================================
