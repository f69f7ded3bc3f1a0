-------------------------------- MODULE MCDyna --------------------------------
(* Blocks over three registers of two-bit words.  The opening instructions *)
(* bring the cache into its states (constants, narrow and wide mappings,   *)
(* clean and dirty, LO and HI across EAX and EDX, no room left); the last  *)
(* instruction is any.                                                     *)
EXTENDS Dyna

CONSTANTS t0, t1, ra

Regs == Gpr \cup {R0}
I(op, rd, rs, rt, imm, sa) == [op |-> op, rd |-> rd, rs |-> rs, rt |-> rt, imm |-> imm, sa |-> sa]

\* t0 holds a positive word, t1 a word that is not sign-extended, ra a negative
\* one; HI holds a double word.
StartFiles ==
    {[x \in Reg |-> CASE x = t0 -> 1 [] x = t1 -> 2 [] x = ra -> 14 [] x = HI -> 7 [] OTHER -> 0]}
MemoryWords == [w \in Word |-> (2 * w + 1) % 2 ^ W]

StartCells == <<1, 2, 3, 0>>

\* The x87, as any function that tells its arguments apart.  The word 3 is a NaN.
AnyFpu(op, fmt, x, y, mode) ==
    (7 * x + 5 * y + 11 * mode + (IF op \in {"fsub", "trunc", "fabs"} THEN 2 ELSE 0)
     + (IF fmt = "s" THEN 0 ELSE 4)) % 2 ^ (2 * W)
AnyOrder(x, y) ==
    IF x % 4 = 3 \/ y % 4 = 3 THEN "unordered"
    ELSE IF x < y THEN "less" ELSE IF x = y THEN "equal" ELSE "greater"

F(op, fmt, sa, fs, ft, fd, rs, rt) ==
    [op |-> op, rd |-> R0, rs |-> rs, rt |-> rt, imm |-> 1, sa |-> sa,
     fmt |-> fmt, fs |-> fs, ft |-> ft, fd |-> fd, to |-> "s"]
FloatArithmetic ==
    {F(op, fmt, 0, 1, 2, d, R0, R0) : op \in FloatBinary \cup FloatUnary, fmt \in {"s", "d"}, d \in {1, 3}} \cup
    {F("fmov", fmt, 0, 1, 2, d, R0, R0) : fmt \in {"s", "d"}, d \in {1, 3}}
FloatTests ==
    {F("c", fmt, sa, fs, ft, 1, R0, R0) : fmt \in {"s", "d"}, sa \in 0 .. 15, fs \in {1, 3}, ft \in {2}}
Conversions ==
    {[F("cvt", fmt, 0, 1, 2, 2, R0, R0) EXCEPT !.to = to] :
        fmt \in {"w", "l"}, to \in {"s", "d"}} \cup
    {[F("cvt", "s", 0, 1, 2, 2, R0, R0) EXCEPT !.to = "d"], F("cvt", "d", 0, 1, 2, 2, R0, R0)} \cup
    {[F(op, fmt, 0, 1, 2, 2, R0, R0) EXCEPT !.to = to] :
        op \in Methods \cup {"cvt"}, fmt \in {"s", "d"}, to \in {"w", "l"}}
ControlMoves == {F(op, "s", 0, CON31, 1, 1, R0, t) : op \in {"cfc1", "ctc1"}, t \in Regs}
FloatTransfers ==
    {F(op, "s", 0, 1, 1, 1, R0, t) : op \in {"mfc1", "dmfc1", "mtc1", "dmtc1"}, t \in Regs} \cup
    {F(op, "s", 0, 1, 1, 1, s, t) : op \in FloatLoads, s \in Regs, t \in {t0}}
AnyFloat == FloatArithmetic \cup FloatTests \cup Conversions \cup ControlMoves \cup FloatTransfers

Cycle == {<<t0, t1, ra>>, <<t1, ra, t0>>, <<t0, t0, t1>>, <<t1, ra, ra>>}
Openers ==
    {I("lui", R0, R0, c[1], 1, 0) : c \in Cycle} \cup
    {I(op, c[1], c[2], c[3], 0, 0) : op \in {"or", "add"}, c \in Cycle} \cup
    {I("sll", c[1], R0, c[3], 0, 1) : c \in Cycle} \cup
    {F("ctc1", "s", 0, CON31, 1, 1, R0, t1), F("fadd", "s", 0, 1, 2, 1, R0, R0),
     F("c", "s", 2, 1, 1, 1, R0, R0)} \cup
    {I(op, R0, c[2], c[3], 1, 0) : op \in {"lw", "mult", "mthi"}, c \in Cycle}

Gates == {"add", "sub", "dadd", "dsub", "and", "or", "xor", "nor", "slt", "sltu",
          "sllv", "srlv", "srav", "dsllv", "dsrlv", "dsrav"}
Shifts == {"sll", "srl", "sra", "dsll", "dsrl", "dsra", "dsll32", "dsrl32", "dsra32"}
Immediates == {"addi", "daddi", "slti", "sltiu", "andi", "ori", "xori"} \cup (BaseOps \ FloatLoads)
Products == {"mult", "multu", "div", "divu", "ddiv", "ddivu", "dmult", "dmultu"}

AnyInteger ==
    {I(op, c[1], c[2], t, 0, 0) : op \in Gates, c \in Cycle, t \in Regs} \cup
    {I(op, R0, s, t0, 0, 0) : op \in Gates, s \in Gpr} \cup
    {I(op, d, R0, t, 0, 1) : op \in Shifts, d \in Gpr, t \in Regs} \cup
    {I(op, R0, s, t, 1, 1) : op \in Immediates, s \in Regs, t \in Regs} \cup
    {I(op, R0, s, t, 0, 0) : op \in Products, s \in Gpr, t \in Regs} \cup
    {I(op, d, R0, R0, 0, 0) : op \in {"mfhi", "mflo"}, d \in Regs} \cup
    {I(op, R0, s, R0, 0, 0) : op \in {"mthi", "mtlo"}, s \in Regs} \cup
    {I("lui", R0, R0, t, 1, 0) : t \in Regs}

AnyOp == AnyInteger \cup AnyFloat

\* ra is the link register.  The rt field of a regimm branch is its opcode.
AnyBranch ==
    {I(op, R0, s, t, 0, 0) : op \in Compares, s \in Regs, t \in Regs} \cup
    {I(op, R0, s, t, 0, 0) : op \in {"blez", "blezl", "bgtz", "bgtzl", "bltz", "bltzl", "bltzal"},
                             s \in Regs, t \in {R0}} \cup
    {I(op, R0, s, t0, 0, 0) : op \in {"bgez", "bgezl", "bgezal", "bgezall", "bltzall"}, s \in Regs} \cup
    {I(op, ra, s, R0, 0, 0) : op \in {"jr", "jalr"}, s \in Gpr} \cup
    {I(op, R0, R0, R0, 0, 0) : op \in {"j", "jal", "bc1f", "bc1t", "bc1fl", "bc1tl"}}
SomeSlots ==
    {I("addi", R0, t0, t1, 1, 0), I("or", t1, t0, ra, 0, 0), I("sw", R0, t1, t0, 0, 0),
     I("sll", t0, R0, t1, 0, 1), F("mtc1", "s", 0, 1, 1, 1, R0, t1)}
===============================================================================
