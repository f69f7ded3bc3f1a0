------------------------------ MODULE DynaBranch ------------------------------
(***************************************************************************)
(* Branches and jumps of the recompiler (src/dynaRec/dynaBranch.h): it     *)
(* compiles the delay slot into the block after the test, and ends the     *)
(* block on both ways out.                                                 *)
(***************************************************************************)
EXTENDS DynaCPU, DynaCOP1, R4300iBranch

\* The dispatch table, for the delay slot too.
Compile(s, i) == IF i.op \in FloatOps THEN CompileFloat(s, i) ELSE CompileInteger(s, i)

(* Test is the state the slot is compiled in, or the block is left from,   *)
(* and whether the branch is taken.                                        *)

Decided(s, taken) == [s |-> IF taken THEN FlushAllRegisters(s) ELSE s, taken |-> taken]

\* Both registers are mapped (x and y), or one is compared with a constant.
Fixed(s, i, r) == i.op \in {"beq", "beql"} /\ IsConst(s, r)
Side(s, i, r, m, t) ==
    IF Fixed(s, i, r) THEN Sext(s.const[r])
    ELSE IF Both32(s, i) THEN Sext(t.host[m.x]) ELSE Pair(t.host[m.x], t.host[m.hi])
CompareSides(s, i, x, y, t) ==
    [s |-> t, taken |-> Holds(i.op, Side(s, i, i.rs, x, t), Side(s, i, i.rt, y, t))]
CompareY(s, i, x, t, y) == CompareSides(s, i, x, y, IF Fixed(s, i, i.rt) THEN t ELSE y.s)
CompareX(s, i, x, t) == CompareY(s, i, x, t, MapRT(t, i, Want(i.rt, Both32(s, i))))
CompareRS(s, i, x) == CompareX(s, i, x, IF Fixed(s, i, i.rs) THEN s ELSE x.s)
CompareMapped(s, i) == CompareRS(s, i, MapRS(s, i, Want(i.rs, Both32(s, i))))

TestCompare(s, i) ==
    IF i.rs = i.rt THEN Decided(s, i.op \in {"beq", "beql"})
    ELSE IF Const2(s, i) THEN Decided(s, Holds(i.op, s.const[i.rs], s.const[i.rt]))
    ELSE CompareMapped(s, i)

\* The branches that do not look for a constant, and those that always test
\* the upper word.
Unfolded == {"bgtzl", "bltzl", "bgezall", "bltzal", "bltzall"}
AlwaysWide == {"bltzal", "bltzall"}
CompareZero(i, m, is32) ==
    LET value == IF is32 THEN Signed(m.s.host[m.x]) ELSE SignedD(Pair(m.s.host[m.x], m.s.host[m.hi]))
    IN  [s |-> m.s, taken |-> Holds(i.op, value, 0)]
TestZero(s, i) ==
    LET is32 == Both32(s, i) /\ i.op \notin AlwaysWide
    IN  IF IsConst(s, i.rs) /\ i.op \notin Unfolded
        THEN Decided(s, Holds(i.op, Signed(s.const[i.rs]), 0))
        ELSE CompareZero(i, MapRS(s, i, Want(i.rs, is32)), is32)

\* jr and jalr write everything back first; jalr's link goes to memory.
TestJump(s, i) ==
    LET f == FlushAllRegisters(s)
    IN  [s |-> CASE i.op = "jalr" -> Set(f, i.rd, Sext(Link))
                 [] i.op = "jr" -> f
                 [] i.op \in {"j", "jal"} -> s,
         taken |-> TRUE]

\* bc1f, bc1t, bc1fl and bc1tl: the condition bit is tested in EAX.
TestFlag(s, i) ==
    [s |-> PopIfMapped(Clobber(PushIfMapped(s, EAX), {EAX}), EAX), taken |-> Taken(s, i)]

\* The jumps do not look at their operands (no SetRdRsRt64bit).
Test(s, i) ==
    CASE i.op \in Jumps -> TestJump(s, i)
      [] i.op \in OnTrue \cup OnFalse -> TestFlag(cop1_with_exception(s), i)
      [] i.op \in Compares -> TestCompare(InitRdRsRt(s, i), i)
      [] i.op \notin Jumps \cup Compares \cup OnTrue \cup OnFalse -> TestZero(InitRdRsRt(s, i), i)

\* Interrupts: everything is written back, then the link is written, after
\* the slot.
Interrupts(s, i) ==
    LET t == FlushAllRegisters(s)
    IN  IF i.op \in Linking THEN Set(t, RA, Sext(Link)) ELSE t

\* Compile_Slot_And_Interrupts, Compile_Slot_Jump and the way out when the
\* branch is not taken.
SlotAndExit(i, t, slot, done) ==
    Leave(Interrupts(IF t.taken THEN Compile(FinalUse(t.s, done), slot) ELSE t.s, i),
          Way(i, t.taken, Low(t.s.gpr[i.rs])))
CompileBranch(s, i, slot, done) == SlotAndExit(i, Test(s, i), slot, done)
=============================================================================
