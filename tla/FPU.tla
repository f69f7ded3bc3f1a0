---------------------------------- MODULE FPU ----------------------------------
(***************************************************************************)
(* The floating-point instructions of the interpreter (src/FPU.c), on the  *)
(* machine of R4300i extended with                                         *)
(*   fpr     gHWS_fpr32: cells of one word; a 64-bit register is the cell  *)
(*           of its number and the one FR_reg_offset above it              *)
(*   con31   COP1Con[31]: the condition bit is its top bit, the rounding   *)
(*           mode its low half                                             *)
(*   rc      the rounding the host's x87 is set to (0 is to nearest)       *)
(* What the x87 computes is external: Fpu gives the result of an operation *)
(* and a format on two operands under a rounding, Order how two operands   *)
(* compare.  An instruction has the fields fmt, fs, ft and fd besides those *)
(* of R4300i.                                                              *)
(***************************************************************************)
EXTENDS R4300i

CONSTANTS
    Cells,              \* the cells of the register file
    FR_reg_offset,
    Fpu(_, _, _, _, _), \* the result of an operation, a double word
    Order(_, _)         \* "less", "equal", "greater" or "unordered"

read_64bit_fpu_reg(m, f) == Pair(m.fpr[f], m.fpr[f + FR_reg_offset])
SetCell(m, f, w) == [m EXCEPT !.fpr[f] = w]
write_64bit_fpu_reg(m, f, d) == SetCell(SetCell(m, f, Low(d)), f + FR_reg_offset, High(d))

\* SET_ROUNDING: the mode is not shifted to the bits of the mask, so that it
\* always sets "to nearest".
Nearest == 0
SET_ROUNDING(m) == [m EXCEPT !.rc = Nearest]

-----------------------------------------------------------------------------
(* Arithmetic.                                                             *)

FloatBinary == {"fadd", "fsub", "fmul", "fdiv"}
FloatUnary == {"fabs", "fsqrt", "fneg"}

Single(m, i, x, y) == SetCell(SET_ROUNDING(m), i.fd, Low(Fpu(i.op, i.fmt, x, y, Nearest)))
Dbl(m, i, x, y) == write_64bit_fpu_reg(SET_ROUNDING(m), i.fd, Fpu(i.op, i.fmt, x, y, Nearest))

r4300i_COP1_binary_s(m, i) == Single(m, i, m.fpr[i.fs], m.fpr[i.ft])
r4300i_COP1_unary_s(m, i) == Single(m, i, m.fpr[i.fs], 0)
r4300i_COP1_binary_d(m, i) ==
    Dbl(m, i, read_64bit_fpu_reg(m, i.fs), read_64bit_fpu_reg(m, i.ft))
r4300i_COP1_unary_d(m, i) == Dbl(m, i, read_64bit_fpu_reg(m, i.fs), 0)

\* A division by zero leaves fd alone.
r4300i_COP1_div_d(m, i) ==
    IF Order(read_64bit_fpu_reg(m, i.ft), 0) = "equal" THEN SET_ROUNDING(m)
    ELSE r4300i_COP1_binary_d(m, i)

-----------------------------------------------------------------------------
(* Comparisons: i.sa is the condition, four bits that say whether less,    *)
(* equal and unordered operands meet it, and whether unordered ones raise  *)
(* an exception, for which the code only returns.                          *)

Condition(c) == Negative(c)
SetCondition(m, holds) ==
    [m EXCEPT !.con31 = (@ % 2 ^ (W - 1)) + (IF holds THEN 2 ^ (W - 1) ELSE 0)]
CondBit(i, n) == (i.sa \div 2 ^ n) % 2 = 1

r4300i_C_cond_fmt(m, i, order) ==
    IF order = "unordered" /\ CondBit(i, 3) THEN m
    ELSE SetCondition(m, \/ CondBit(i, 0) /\ order = "unordered"
                         \/ CondBit(i, 1) /\ order = "equal"
                         \/ CondBit(i, 2) /\ order = "less")
r4300i_C_cond_fmt_s(m, i) == r4300i_C_cond_fmt(m, i, Order(m.fpr[i.fs], m.fpr[i.ft]))
r4300i_C_cond_fmt_d(m, i) ==
    r4300i_C_cond_fmt(m, i, Order(read_64bit_fpu_reg(m, i.fs), read_64bit_fpu_reg(m, i.ft)))

-----------------------------------------------------------------------------
(* Moves and control.  Only the control registers 0 and 31 can be read,    *)
(* and only 31 written (fs = 31 stands for it, any other for register 0).  *)

r4300i_COP1_mfc1(m, i) == Set(m, i.rt, Sext(m.fpr[i.fs]))
r4300i_COP1_dmfc1(m, i) == Set(m, i.rt, read_64bit_fpu_reg(m, i.fs))
r4300i_COP1_mtc1(m, i) == SetCell(m, i.fs, lo(RT(m, i)))
r4300i_COP1_dmtc1(m, i) == write_64bit_fpu_reg(m, i.fs, RT(m, i))
r4300i_COP1_mov_s(m, i) == SetCell(m, i.fd, m.fpr[i.fs])
r4300i_COP1_mov_d(m, i) == write_64bit_fpu_reg(m, i.fd, read_64bit_fpu_reg(m, i.fs))

CON31 == 31
Control(m, fs) == IF fs = CON31 THEN m.con31 ELSE 0
r4300i_COP1_cfc1(m, i) == Set(m, i.rt, Sext(Control(m, i.fs)))

\* The x87 follows only a change of the rounding mode.
RM(c) == c % 2 ^ Half
r4300i_COP1_ctc1(m, i) ==
    LET w == lo(RT(m, i))
    IN  IF i.fs # CON31 THEN m
        ELSE [m EXCEPT !.con31 = w, !.rc = IF RM(w) = RM(m.con31) THEN @ ELSE RM(w)]

-----------------------------------------------------------------------------
(* Conversions, from the format i.fmt to the format i.to: s, d, w or l.     *)

Source(m, i) == IF i.fmt \in {"s", "w"} THEN m.fpr[i.fs] ELSE read_64bit_fpu_reg(m, i.fs)

\* To a float: rounded as the x87 is set, unless the result is exact.
r4300i_COP1_cvtd(m, i) ==
    write_64bit_fpu_reg(m, i.fd,
        Fpu("cvtd", i.fmt, Source(m, i), 0, IF i.fmt = "l" THEN m.rc ELSE Nearest))
r4300i_COP1_cvts(m, i) == SetCell(m, i.fd, Low(Fpu("cvts", i.fmt, Source(m, i), 0, m.rc)))

\* To an integer, by a method of their own or by the one con31 names.
ToInteger(m, i, method) ==
    IF i.to = "w" THEN SetCell(m, i.fd, Low(Fpu(method, i.fmt, Source(m, i), 0, Nearest)))
    ELSE write_64bit_fpu_reg(m, i.fd, Fpu(method, i.fmt, Source(m, i), 0, Nearest))
r4300i_COP1_trunc(m, i) == ToInteger(m, i, "trunc")
r4300i_COP1_floor(m, i) == ToInteger(m, i, "floor")
r4300i_COP1_round(m, i) == ToInteger(m, i, "round")
r4300i_COP1_ceil(m, i) == ToInteger(m, i, "ceil")
RM_METHOD(m) == <<"round", "trunc", "ceil", "floor">>[(RM(m.con31) % 4) + 1]
r4300i_COP1_cvtw_cvtl(m, i) == ToInteger(m, i, RM_METHOD(m))

-----------------------------------------------------------------------------
(* Loads and stores.                                                       *)

r4300i_lwc1(m, i) == SetCell(m, i.ft, Memory[Address(m, i)])
r4300i_ldc1(m, i) == write_64bit_fpu_reg(m, i.ft, MemDouble(Address(m, i)))
r4300i_swc1(m, i) == Store(m, "word", Address(m, i), m.fpr[i.ft])
r4300i_sdc1(m, i) == Store(m, "double", Address(m, i), read_64bit_fpu_reg(m, i.ft))

-----------------------------------------------------------------------------
\* The dispatch tables.  Everything but the loads and stores needs a usable
\* coprocessor.
FloatLoads == {"lwc1", "ldc1", "swc1", "sdc1"}
FloatMoves == {"mfc1", "dmfc1", "mtc1", "dmtc1", "cfc1", "ctc1"}
Methods == {"round", "trunc", "ceil", "floor"}
FloatOps == FloatLoads \cup FloatMoves \cup FloatBinary \cup FloatUnary \cup Methods \cup
            {"fmov", "c", "cvt"}
Coprocessor == FloatOps \ FloatLoads
Formats == {"s", "d", "w", "l"}

\* The x87's results are double words.
ASSUME FpuAssumption ==
    \A op \in FloatBinary \cup FloatUnary \cup Methods \cup {"cvts", "cvtd"}, fmt \in Formats :
        \A x, y \in Double, mode \in Word : Fpu(op, fmt, x, y, mode) \in Double

r4300i_COP1_cvt(m, i) ==
    CASE i.to = "s" -> r4300i_COP1_cvts(m, i)
      [] i.to = "d" -> r4300i_COP1_cvtd(m, i)
      [] i.to \in {"w", "l"} -> r4300i_COP1_cvtw_cvtl(m, i)
Convert(m, i) ==
    CASE i.op = "cvt" -> r4300i_COP1_cvt(m, i)
      [] i.op = "trunc" -> r4300i_COP1_trunc(m, i)
      [] i.op = "floor" -> r4300i_COP1_floor(m, i)
      [] i.op = "round" -> r4300i_COP1_round(m, i)
      [] i.op = "ceil" -> r4300i_COP1_ceil(m, i)
COP1_S_instr(m, i) ==
    CASE i.op \in FloatBinary -> r4300i_COP1_binary_s(m, i)
      [] i.op \in FloatUnary -> r4300i_COP1_unary_s(m, i)
      [] i.op = "fmov" -> r4300i_COP1_mov_s(m, i)
      [] i.op = "c" -> r4300i_C_cond_fmt_s(m, i)
      [] i.op \in Methods \cup {"cvt"} -> Convert(m, i)
COP1_D_instr(m, i) ==
    CASE i.op = "fdiv" -> r4300i_COP1_div_d(m, i)
      [] i.op \in FloatBinary \ {"fdiv"} -> r4300i_COP1_binary_d(m, i)
      [] i.op \in FloatUnary -> r4300i_COP1_unary_d(m, i)
      [] i.op = "fmov" -> r4300i_COP1_mov_d(m, i)
      [] i.op = "c" -> r4300i_C_cond_fmt_d(m, i)
      [] i.op \in Methods \cup {"cvt"} -> Convert(m, i)
COP1_W_L_instr(m, i) == r4300i_COP1_cvt(m, i)
ByFormat(m, i) ==
    CASE i.fmt = "s" -> COP1_S_instr(m, i)
      [] i.fmt = "d" -> COP1_D_instr(m, i)
      [] i.fmt \in {"w", "l"} -> COP1_W_L_instr(m, i)
COP1_instr(m, i) ==
    CASE i.op = "mfc1" -> r4300i_COP1_mfc1(m, i)   [] i.op = "dmfc1" -> r4300i_COP1_dmfc1(m, i)
      [] i.op = "mtc1" -> r4300i_COP1_mtc1(m, i)   [] i.op = "dmtc1" -> r4300i_COP1_dmtc1(m, i)
      [] i.op = "cfc1" -> r4300i_COP1_cfc1(m, i)   [] i.op = "ctc1" -> r4300i_COP1_ctc1(m, i)
      [] i.op = "lwc1" -> r4300i_lwc1(m, i)        [] i.op = "ldc1" -> r4300i_ldc1(m, i)
      [] i.op = "swc1" -> r4300i_swc1(m, i)        [] i.op = "sdc1" -> r4300i_sdc1(m, i)
      [] OTHER -> ByFormat(m, i)

\* What the interpreter does for any instruction.
InterpretAny(m, i) == IF i.op \in FloatOps THEN COP1_instr(m, i) ELSE Interpret(m, i)
=============================================================================
