--------------------------------- MODULE Dyna ---------------------------------
(***************************************************************************)
(* A block of the recompiler beside the interpreter.  The block is         *)
(* compiled and run an instruction at a time (jit, see RegCache and        *)
(* DynaCPU); the interpreter runs the same instructions on a machine of    *)
(* its own (ref).  What the recompiler believes about the registers while  *)
(* it compiles must be true when the code runs: then every register, found *)
(* through the block's tables, has the interpreter's value.  This is what  *)
(* src/dynaRec/OpcodeDebugger.c compares when it is compiled in.           *)
(***************************************************************************)
EXTENDS DynaBranch

CONSTANTS
    Start,      \* the register files a block may start from
    StartFloat, \* and the floating-point register file
    Opening,    \* the instructions of a block but the last
    Last,       \* the last instruction of a block
    Branches,   \* the branches a block may end with
    Slots,      \* their delay slots
    MaxOps,     \* bound: instructions in a block
    Excused     \* bound: leave out what the two are known to do differently

\* The fields are as wide as in the code.
Immediate == 0 .. 2 ^ Half - 1
Instruction ==
    [op : IntegerOps, rd : Gpr \cup {R0}, rs : Gpr \cup {R0}, rt : Gpr \cup {R0},
     imm : Immediate, sa : 0 .. W - 1] \cup
    [op : FloatOps, rd : Gpr \cup {R0}, rs : Gpr \cup {R0}, rt : Gpr \cup {R0},
     imm : Immediate, sa : 0 .. 15, fmt : Formats, to : Formats, fs : Nat, ft : Nat, fd : Nat]
BranchInstruction ==
    [op : BranchOps, rd : Gpr \cup {R0}, rs : Gpr \cup {R0}, rt : Gpr \cup {R0},
     imm : Nat, sa : Nat]

\* The link bit of sc, and the floating-point registers: a cell and the one
\* FR_reg_offset above it.
Encoded(i) ==
    /\ i.op = "sc" => i.sa \in {0, 1}
    /\ i.op \in FloatOps \ {"cfc1", "ctc1"} =>
        \A f \in {i.fs, i.ft, i.fd} : {f, f + FR_reg_offset} \subseteq Cells

ASSUME DynaAssumption ==
    /\ Opening \cup Last \cup Slots \subseteq {i \in Instruction : Encoded(i)}
    /\ Branches \subseteq BranchInstruction
    /\ RA \in Gpr /\ Link \in Word
    /\ MaxOps \in Nat \ {0}
    /\ Excused \in BOOLEAN
    /\ Start \subseteq {gpr \in [Reg -> Double] : gpr[R0] = 0}
    /\ StartFloat \in [Cells -> Word]
    /\ Memory \in [Word -> Word]

VARIABLES
    jit,    \* the compiler's tables and the machine that runs its code
    ref,    \* the interpreter's machine
    n       \* instructions in the block so far
vars == <<jit, ref, n>>

Init ==
    /\ n = 0
    /\ \E gpr \in Start :
        /\ jit = InitRegisterMap(gpr, StartFloat, [k \in Host |-> 0])
        /\ ref = [gpr |-> gpr, fpr |-> StartFloat, con31 |-> 0, rc |-> Nearest,
                  store |-> <<>>, exit |-> Inside]

\* AnalyzeBlock does not look at the instructions of the coprocessor.
Operands(i) == IF i.op \in Coprocessor THEN {} ELSE {i.rd, i.rs, i.rt} \ {R0}

-----------------------------------------------------------------------------
(* The programs.  The architecture leaves a 32-bit operation on a register *)
(* that does not hold a sign-extended word undefined.                      *)

WordOps == {"add", "sub", "addi", "srl", "sra", "srlv", "srav", "sllv",
            "mult", "multu", "div", "divu"}
BaseOps == {"lb", "lbu", "lh", "lhu", "lw", "lwu", "ld", "lwl", "lwr", "ldl", "ldr",
            "sb", "sh", "sw", "sd", "sc", "swl", "swr", "sdl", "sdr",
            "lwc1", "ldc1", "swc1", "sdc1"}
Defined(m, i) ==
    /\ i.op \in WordOps \cup BaseOps => IsWord(m.gpr[i.rs])
    /\ i.op \in WordOps => IsWord(m.gpr[i.rt])
    /\ i.op \in {"div", "divu", "ddiv", "ddivu"} => m.gpr[i.rt] # 0

\* A branch that links does not test its link register.
DefinedBranch(m, i, slot) ==
    /\ i.op \in Linking => i.rs # RA
    /\ i.op = "jalr" => i.rs # i.rd
    /\ Taken(Linked(m, i), i) => Defined(Linked(m, i), slot)

\* The instructions on which the recompiler is known to part from the
\* interpreter, each at its line.
Result(m, i, r) == Interpret(m, i).gpr[r]
Narrow(s, r) == s.flushed[r] \/ CheckIs32Bit(s, r)
Misjudged(m, s, r) == CheckIs32Bit(s, r) /\ ~IsWord(m.gpr[r])
\* Compiled with destination 0 to a call of the interpreter's function: the other
\* handlers test the destination first.
CallsOnR0(s, i) ==
    \/ i.op \in {"dadd", "dsllv", "dsrlv", "dsrav", "dsll", "dsrl"} /\ i.rd = R0
    \/ i.op = "dsub" /\ ~Both32(s, i) /\ i.rd = R0
    \/ i.op = "dsra" /\ ~CheckIs32Bit(s, i.rt) /\ i.rd = R0
    \/ i.op \in {"daddi", "sc"} /\ i.rt = R0
\* The handlers that go by the width of rs and rt, of rs alone, of rt alone.
WidePairs == {"dadd", "dsub", "and", "or", "xor", "nor", "slt", "sltu"}
WideImmediates == {"daddi", "ori", "xori", "slti", "sltiu"}
WideShifts == {"dsra", "dsrl32"}
Diverges(m, s, i) ==
    \* dynaCPU.c:58: a function of the interpreter writes register 0, which only
    \* the main loop clears.
    \/ CallsOnR0(s, i)
    \* dynaCPU.c:46: the sign flag of rt survives a 64-bit load.
    \/ /\ i.op \in {"lwu", "ldl", "ldr"}
       /\ i.rt # R0 /\ Narrow(s, i.rt) /\ ~IsWord(Result(m, i, i.rt))
    \* regcache.c:362: a 64-bit register mapped for its low word passes for a
    \* 32-bit one.
    \/ i.op \in WidePairs /\ i.rd # R0 /\ (Misjudged(m, s, i.rs) \/ Misjudged(m, s, i.rt))
    \/ i.op \in WideImmediates /\ i.rt # R0 /\ Misjudged(m, s, i.rs)
    \/ i.op \in WideShifts /\ i.rd # R0 /\ Misjudged(m, s, i.rt)
    \* dynaCPU.c:1071: the difference of two words is cut to a word.
    \/ i.op = "dsub" /\ Both32(s, i) /\ i.rd # R0 /\ ~IsWord(Result(m, i, i.rd))
    \* dynaCPU.c:1387: and so is their quotient, or there is none.
    \/ /\ i.op \in {"ddiv", "ddivu"} /\ Both32(s, i)
       /\ \/ lo(m.gpr[i.rt]) = 0
          \/ Interpret(m, i) # Interpret(m, [i EXCEPT !.op = IF @ = "ddiv" THEN "div" ELSE "divu"])
    \* dynaCPU.c:4950: both halves of the constant are combined with the low word.
    \/ i.op = "xor" /\ i.rd = i.rt /\ IsConst(s, i.rs) /\ ~Both32(s, i) /\ Negative(s.const[i.rs])
    \* dynaCPU.c:5200: the upper half of a negative word is taken for zero.
    \/ i.op = "dsrl32" /\ CheckIs32Bit(s, i.rt) /\ Negative(lo(m.gpr[i.rt])) /\ i.rd # R0
    \* dynaCPU.c:5225: the word shifted in place is never loaded.
    \/ i.op = "dsra32" /\ i.rd = i.rt /\ i.rd # R0

\* And of the floating-point instructions.
NativeCompares == {2, 12, 13, 14, 15}
DivergesFloat(m, s, i) ==
    \* dynaCOP1.c:671: the interpreter's function sets the rounding (FPU.c:130),
    \* the compiled instruction does not.
    \/ i.op \in FloatBinary \cup FloatUnary /\ i.fmt = "s" /\ m.rc # Nearest
    \* dynaCOP1.c:1057: unordered operands meet every condition that is compiled.
    \/ /\ i.op = "c" /\ i.fmt = "s" /\ i.sa \in NativeCompares
       /\ Order(m.fpr[i.fs], m.fpr[i.ft]) = "unordered"
    \* dynaCPU.c:58 and :46, as above.
    \/ i.op = "dmfc1" /\ i.rt = R0
    \/ /\ i.op = "dmfc1" /\ i.rt # R0 /\ ~IsWord(COP1_instr(m, i).gpr[i.rt])
       /\ IsConst(s, i.rt) \/ (CheckIsDirty(s, i.rt) /\ CheckIs32Bit(s, i.rt))

Parts(m, s, i) == IF i.op \in FloatOps THEN DivergesFloat(m, s, i) ELSE Diverges(m, s, i)

PartsInSlot(m, test, slot) == test.taken /\ Parts(m, test.s, slot)
DivergesBranch(m, s, i, slot) ==
    \* dynaBranch.h:223: the link is written after the slot, not before it.
    \/ i.op \in Linking /\ RA \in {slot.rd, slot.rs, slot.rt}
    \* dynaBranch.h:1927: jalr writes register 0.
    \/ i.op = "jalr" /\ i.rd = R0
    \* regcache.c:362, as above.
    \/ /\ i.op \notin Jumps \cup OnTrue \cup OnFalse
       /\ Misjudged(m, s, i.rs) \/ (i.op \in Compares /\ Misjudged(m, s, i.rt))
    \/ PartsInSlot(Linked(m, i), Test(s, i), slot)

Execute(i) ==
    /\ Defined(ref, i)
    /\ Excused => ~Parts(ref, jit, i)
    /\ \E done \in {{}, Operands(i)} :
        jit' = Settled(Compile(FinalUse(jit, done), i))
    /\ ref' = ClearR0(InterpretAny(ref, i))
    /\ n' = n + 1

Emit ==
    /\ n < MaxOps
    /\ \E i \in IF n = MaxOps - 1 THEN Last ELSE Opening : Execute(i)

Finished(s) == [s EXCEPT !.dead = {}, !.now = {}, !.host = [k \in Host |-> 0], !.gpr[R0] = 0]

\* The end of a page, or the instructions the compiler stops at: everything
\* is written back.
EndBlock ==
    /\ n \in 1 .. MaxOps
    /\ jit' = Finished(FlushAllRegisters(jit))
    /\ n' = MaxOps + 1
    /\ UNCHANGED ref

\* A branch and its delay slot.
Branch ==
    /\ n <= MaxOps - 2
    /\ \E i \in Branches, slot \in Slots :
        /\ DefinedBranch(ref, i, slot)
        /\ \E done \in {{}, Operands(i)}, end \in {{}, Operands(slot)} :
            /\ Excused => ~DivergesBranch(ref, FinalUse(jit, done), i, slot)
            /\ jit' = Finished(CompileBranch(FinalUse(jit, done), i, slot, end))
        /\ ref' = InterpretBranch(ref, i, slot)
    /\ n' = MaxOps + 1

\* The coprocessor is not usable (SR_CU1 is clear): both raise the exception,
\* the block by returning with its registers written back.
Unusable == <<"unusable", 0>>
TriggerFPUUnusableException ==
    /\ n < MaxOps
    /\ \E i \in Last : i.op \in Coprocessor
    /\ jit' = Leave(Finished(FlushAllRegisters(jit)), Unusable)
    /\ ref' = Leave(ref, Unusable)
    /\ n' = MaxOps + 1

Next == Emit \/ Branch \/ EndBlock \/ TriggerFPUUnusableException
Spec == Init /\ [][Next]_vars

-----------------------------------------------------------------------------
(* Properties.                                                             *)

\* What the block has computed is what the interpreter computes.
Agree ==
    /\ \A r \in Reg \ {R0} : Value(jit, r) = ref.gpr[r]
    /\ jit.fpr = ref.fpr /\ jit.con31 = ref.con31 /\ jit.rc = ref.rc
    /\ jit.store = ref.store
    /\ jit.exit = ref.exit

\* The tables are consistent.
Coherent == TablesAgree(jit)

\* A register that is mapped and clean agrees with its place in memory
\* (dropping it loses nothing), and one last written back as 32-bit holds a
\* sign-extended word: map_reg takes its upper half for the sign.
Clean == ImageAgrees(jit)

\* regcache.c's DisplayError calls for a register that cannot be flushed, a
\* constant that is mapped and a high word that is missing are not reached:
\* there is always a host register to give way.
NoDisplayError == jit.errors = {}
=============================================================================
