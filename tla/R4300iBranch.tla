----------------------------- MODULE R4300iBranch -----------------------------
(***************************************************************************)
(* Branches and jumps of the interpreter (src/R4300i.c), which sets        *)
(* CPUdelay and runs the delay slot as the next instruction.  A machine    *)
(* has left its block when m.exit is not Inside.                           *)
(***************************************************************************)
EXTENDS FPU

CONSTANTS
    RA,         \* register 31
    Link        \* the word pc + 8

\* Where a block is left to: the branch's target, the address in a register,
\* the delay slot (which the next block starts with) or the instruction
\* after it.
Target == <<"target", 0>>
ByRegister(w) == <<"register", w>>
Slot == <<"slot", 0>>
Past == <<"past", 0>>
Leave(m, exit) == [m EXCEPT !.exit = exit]

Linking == {"bgezal", "bgezall", "bltzal", "bltzall", "jal"}
Likely == {"bnel", "beql", "blezl", "bgtzl", "bltzl", "bgezl", "bgezall", "bltzall",
           "bc1fl", "bc1tl"}
OnFalse == {"bc1f", "bc1fl"}
OnTrue == {"bc1t", "bc1tl"}
Compares == {"bne", "bnel", "beq", "beql"}
Jumps == {"j", "jal", "jr", "jalr"}
OnZero == {"blez", "blezl", "bgtz", "bgtzl", "bltz", "bltzl", "bltzal", "bltzall",
           "bgez", "bgezl", "bgezal", "bgezall"}
BranchOps == Compares \cup Jumps \cup OnTrue \cup OnFalse \cup OnZero
Way(i, taken, w) ==
    CASE i.op \in {"jr", "jalr"} -> ByRegister(w)
      [] i.op \notin {"jr", "jalr"} /\ taken -> Target
      [] ~taken -> IF i.op \in Likely THEN Past ELSE Slot

\* The condition, on the double words a and b or on their low words.
Holds(op, a, b) ==
    CASE op \in {"bne", "bnel"} -> a # b
      [] op \in {"beq", "beql"} -> a = b
      [] op \in {"blez", "blezl"} -> a <= 0
      [] op \in {"bgtz", "bgtzl"} -> a > 0
      [] op \in {"bltz", "bltzl", "bltzal", "bltzall"} -> a < 0
      [] op \in {"bgez", "bgezl", "bgezal", "bgezall"} -> a >= 0
      [] op \in Jumps -> TRUE

-----------------------------------------------------------------------------
(* The interpreter.  The link is written before the condition is tested    *)
(* and before the slot runs; register 0 is cleared after every instruction. *)

ClearR0(m) == [m EXCEPT !.gpr[R0] = 0]

Linked(m, i) ==
    ClearR0(IF i.op \in Linking THEN Set(m, RA, Sext(Link))
            ELSE IF i.op = "jalr" THEN Set(m, i.rd, Sext(Link))
            ELSE m)

Taken(m, i) ==
    CASE i.op \in OnTrue -> Condition(m.con31)
      [] i.op \in OnFalse -> ~Condition(m.con31)
      [] i.op \notin OnTrue \cup OnFalse -> Holds(i.op, SignedD(RS(m, i)), SignedD(RT(m, i)))

InterpretBranch(m, i, slot) ==
    LET linked == Linked(m, i)
        taken == Taken(linked, i)
    IN  Leave(IF taken THEN ClearR0(InterpretAny(linked, slot)) ELSE linked,
              Way(i, taken, lo(RS(linked, i))))
=============================================================================
