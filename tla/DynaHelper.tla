------------------------------ MODULE DynaHelper ------------------------------
(***************************************************************************)
(* What the handlers of the recompiler share (src/dynaRec/dynaHelper.h and *)
(* the macros of src/dynaRec/dynaCPU.c): requests to the register cache,   *)
(* operands, and calls of the interpreter's functions.                     *)
(***************************************************************************)
EXTENDS RegCache, FPU

CONSTANT ProtectMemory  \* Code_Check is CODE_CHECK_PROTECT_MEMORY, the default

\* The interpreter's function for an instruction, on the block's registers.
Call(s, i) == InterpretAny(s, i)

\* The Conditions of most requests: the upper half is loaded if the lower is.
Want(r, is32) == Conditions(r, is32, FALSE, FALSE, FALSE)
Change(r, is32) == Conditions(r, is32, TRUE, FALSE, FALSE)
Define(r, is32) == Conditions(r, is32, TRUE, TRUE, FALSE)
DefineBoth(r, is32) == Conditions(r, is32, TRUE, TRUE, TRUE)

\* MapRD, MapRS and MapRT: the other two operands stay mapped.
MapRD(s, i, c) == MapRegister(s, c, {i.rs, i.rt})
MapRS(s, i, c) == MapRegister(s, c, {i.rd, i.rt})
MapRT(s, i, c) == MapRegister(s, c, {i.rd, i.rs})

\* An operand's value: lo and hi are read when the code runs.
Operand(m) == [s |-> m.s, lo |-> m.s.host[m.x], hi |-> m.s.host[m.hi]]

\* MapRS_To and MapRT_To: a register that is not mapped and is used for the
\* last time is read from memory.
MapTo(s, r, is32, keep) ==
    IF Where(s, r) = None /\ r \in s.dead
    THEN [s |-> s, lo |-> Low(s.gpr[r]), hi |-> High(s.gpr[r])]
    ELSE Operand(MapRegister(s, Want(r, is32), keep))

\* The same after the test for a constant, which becomes an immediate.
Use(s, r, is32, keep) ==
    IF IsConst(s, r) THEN [s |-> s, lo |-> s.const[r], hi |-> SignOf(s.const[r])]
    ELSE MapTo(s, r, is32, keep)

MapIn(s, r, is32, keep) == Operand(MapRegister(s, Want(r, is32), keep))

PutLo(s, m, w) == Mov(s, m.x, w)
Put(s, m, w, h, is32) == IF is32 THEN Mov(s, m.x, w) ELSE Mov(Mov(s, m.x, w), m.hi, h)

\* InitRdRsRt, SetRdRsRt32bit, SetRdRsRt64bit: r0 gives up a host register
\* when it is an operand.
InitRdRsRt(s, i) == IF R0 \in {i.rd, i.rs, i.rt} THEN MapConst(s, R0, 0) ELSE s

PushMap(s) == PushIfMapped(PushIfMapped(PushIfMapped(s, EAX), ECX), EDX)
PopMap(s) == PopIfMapped(PopIfMapped(PopIfMapped(s, EDX), ECX), EAX)


\* INTERPRET: everything is written back and the interpreter's function is
\* called; it may use EAX, ECX and EDX.
INTERPRET(s, i) == Clobber(Call(FlushAllRegisters(s), i), {EAX, ECX, EDX})

\* A register is written back, whether it is a constant or mapped.
WriteBack(s, r) == IF Where(s, r) = None THEN s ELSE FlushRegister(s, Where(s, r))
FlushMips(s, r) == WriteBack(FlushOneConstant(s, r), r)
FlushOperands(s, i) ==
    WriteBack(WriteBack(FlushOneConstant(FlushOneConstant(s, i.rs), i.rt), i.rs), i.rt)

\* INTERPRET_LOADSTORE: only rs and rt are written back.
INTERPRET_LOADSTORE(s, i) ==
    PopMap(Clobber(Call(PushMap(FlushOperands(s, i)), i), {EAX, ECX, EDX}))

\* Calls save a host register unless it belongs to the mapping m.
Save(s, m, k) == IF k \in {m.x, m.hi} THEN s ELSE PushIfMapped(s, k)
Restore(s, m, k) == IF k \in {m.x, m.hi} THEN s ELSE PopIfMapped(s, k)

Both32(s, i) == CheckIs32Bit(s, i.rs) /\ CheckIs32Bit(s, i.rt)
Const2(s, i) == IsConst(s, i.rs) /\ IsConst(s, i.rt)

\* NOT_IN_KO_K1_SEG is its negation: the two top bits are 10.
InKSeg(a) == a \div 2 ^ (W - 2) = 2

\* dyna4300i_cop1_with_exception: the code for an unusable coprocessor is
\* emitted first, flushing everything on its way out.  The tables are put
\* back for the code after it, but not what FlushAllRegisters forgot.
cop1_with_exception(s) == [s EXCEPT !.flushed = [r \in Reg |-> r = R0], !.year = FirstYear]
=============================================================================
