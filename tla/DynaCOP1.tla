------------------------------- MODULE DynaCOP1 -------------------------------
(***************************************************************************)
(* What the recompiler emits for the floating-point instructions           *)
(* (src/dynaRec/dynaCOP1.c).  Few are compiled to x87 code: the others     *)
(* call the interpreter, with only EAX, ECX and EDX saved around the call  *)
(* when no general register is involved.                                   *)
(***************************************************************************)
EXTENDS DynaHelper

\* What is compiled runs under the rounding that ctc1, or the last function of
\* the interpreter, has set.
Native(s, i, x, y) == SetCell(s, i.fd, Low(Fpu(i.op, i.fmt, x, y, s.rc)))
dyna4300i_cop1_binary_s(s, i) == Native(s, i, s.fpr[i.fs], s.fpr[i.ft])
dyna4300i_cop1_unary_s(s, i) == Native(s, i, s.fpr[i.fs], 0)
dyna4300i_cop1_cvts_w(s, i) == Native(s, [i EXCEPT !.op = "cvts"], s.fpr[i.fs], 0)

\* A word goes through EAX, which is saved if it is mapped.
ThroughEAX(s, w) == PopIfMapped(Mov(PushIfMapped(s, EAX), EAX, w), EAX)

dyna4300i_cop1_mov_s(s, i) ==
    IF i.fd = i.fs THEN s ELSE SetCell(ThroughEAX(s, s.fpr[i.fs]), i.fd, s.fpr[i.fs])

\* _do_c_: the flag of FCOMP that is tested is set for unordered operands too.
Flags(i) == CASE i.sa \in {12, 13} -> {"less"}
              [] i.sa = 2 -> {"equal"}
              [] i.sa \in {14, 15} -> {"less", "equal"}
_do_c_(s, i) ==
    LET order == Order(s.fpr[i.fs], s.fpr[i.ft])
        t == SetCondition(s, order \in Flags(i) \cup {"unordered"})
    IN  ThroughEAX(t, t.con31)

\* mfc1 and cfc1 define rt, which is no constant any more; cfc1 loads what it
\* overwrites.  Nothing is emitted when rt is r0.
Unknown(s, r) == [s EXCEPT !.const[r] = NoConst]
PutWord(m, w) == PutLo(m.s, m, w)
dyna4300i_cop1_mfc1(s, i) ==
    IF i.rt = R0 THEN s ELSE PutWord(MapRT(Unknown(s, i.rt), i, Define(i.rt, TRUE)), s.fpr[i.fs])
dyna4300i_cop1_cfc1(s, i) ==
    IF i.rt = R0 THEN s
    ELSE PutWord(MapRT(Unknown(s, i.rt), i, Change(i.rt, TRUE)), Control(s, i.fs))

FromMapped(m, i) == SetCell(m.s, i.fs, m.s.host[m.x])
dyna4300i_cop1_mtc1(s, i) ==
    IF IsConst(s, i.rt) THEN SetCell(s, i.fs, s.const[i.rt])
    ELSE FromMapped(MapRT(s, i, Want(i.rt, TRUE)), i)

\* The calls of memory_read_functions and memory_write_functions: the address
\* goes through EAX and ECX, which are saved.
Around(s) == Clobber(PushIfMapped(PushIfMapped(s, EAX), ECX), {EAX, ECX})
Back(s) == PopIfMapped(PopIfMapped(s, ECX), EAX)
At(w, i) == WordOf(w + ImmS(i))
LoadCell(s, i, a) == SetCell(s, i.ft, Memory[a])
StoreCell(s, i, a) == Store(s, "word", a, s.fpr[i.ft])

ReadMapped(m, i) == Back(LoadCell(Around(m.s), i, At(m.s.host[m.x], i)))
dyna4300i_lwc1(s, i) ==
    IF ~IsConst(s, i.rs) THEN ReadMapped(MapRS(s, i, Want(i.rs, TRUE)), i)
    ELSE IF InKSeg(At(s.const[i.rs], i))
    THEN LoadCell(ThroughEAX(s, Memory[At(s.const[i.rs], i)]), i, At(s.const[i.rs], i))
    ELSE Back(LoadCell(Around(s), i, At(s.const[i.rs], i)))

WriteMapped(m, i) == Back(StoreCell(Around(m.s), i, At(m.s.host[m.x], i)))
dyna4300i_swc1(s, i) ==
    IF ~IsConst(s, i.rs) THEN WriteMapped(MapRS(s, i, Want(i.rs, TRUE)), i)
    ELSE IF ~ProtectMemory /\ InKSeg(At(s.const[i.rs], i))
    THEN StoreCell(ThroughEAX(s, s.fpr[i.ft]), i, At(s.const[i.rs], i))
    ELSE Back(StoreCell(Around(s), i, At(s.const[i.rs], i)))

-----------------------------------------------------------------------------
(* Calls of the interpreter.                                               *)

INTERPRET_NOFLUSH(s, i) == PopMap(Clobber(Call(PushMap(s), i), {EAX, ECX, EDX}))
INTERPRET_FLUSH1(s, i, r) == INTERPRET_NOFLUSH(FlushMips(s, r), i)

dyna4300i_cop1_dmfc1(s, i) == INTERPRET_FLUSH1(s, i, i.rt)
dyna4300i_ldc1(s, i) == INTERPRET_FLUSH1(s, i, i.rs)
dyna4300i_sdc1(s, i) == INTERPRET_FLUSH1(s, i, i.rs)
dyna4300i_cop1_ctc1(s, i) == INTERPRET(s, i)
dyna4300i_cop1_dmtc1(s, i) == INTERPRET(s, i)

\* The conversions, the other comparisons and what works on double words, in
\* the order of the file; cvt.s.d looks at its operands first.
dyna4300i_cop1_convert_s(s, i) == INTERPRET_NOFLUSH(s, i)
dyna4300i_c_s(s, i) == INTERPRET_NOFLUSH(s, i)
dyna4300i_c_d(s, i) == INTERPRET_NOFLUSH(s, i)
dyna4300i_cop1_arithmetic_d(s, i) == INTERPRET_NOFLUSH(s, i)
dyna4300i_cop1_convert_d(s, i) ==
    INTERPRET_NOFLUSH(IF i.op = "cvt" /\ i.to = "s" THEN InitRdRsRt(s, i) ELSE s, i)
dyna4300i_cop1_convert_w_l(s, i) == INTERPRET_NOFLUSH(s, i)

-----------------------------------------------------------------------------
\* The dispatch tables.
CompileS(s, i) ==
    CASE i.op \in FloatBinary -> dyna4300i_cop1_binary_s(s, i)
      [] i.op \in FloatUnary -> dyna4300i_cop1_unary_s(s, i)
      [] i.op = "fmov" -> dyna4300i_cop1_mov_s(s, i)
      [] i.op = "c" -> IF i.sa \in {2, 12, 13, 14, 15} THEN _do_c_(s, i) ELSE dyna4300i_c_s(s, i)
      [] i.op \in Methods \cup {"cvt"} -> dyna4300i_cop1_convert_s(s, i)
CompileD(s, i) ==
    CASE i.op \in FloatBinary \cup FloatUnary \cup {"fmov"} -> dyna4300i_cop1_arithmetic_d(s, i)
      [] i.op = "c" -> dyna4300i_c_d(s, i)
      [] i.op \in Methods \cup {"cvt"} -> dyna4300i_cop1_convert_d(s, i)
CompileWL(s, i) ==
    IF i.fmt = "w" /\ i.to = "s" THEN dyna4300i_cop1_cvts_w(s, i)
    ELSE dyna4300i_cop1_convert_w_l(s, i)

\* The handlers that look at the general registers.
CompileMove(s, i) ==
    CASE i.op = "mfc1" -> dyna4300i_cop1_mfc1(s, i)
      [] i.op = "dmfc1" -> dyna4300i_cop1_dmfc1(s, i)
      [] i.op = "cfc1" -> dyna4300i_cop1_cfc1(s, i)
      [] i.op = "mtc1" -> dyna4300i_cop1_mtc1(s, i)
      [] i.op = "lwc1" -> dyna4300i_lwc1(s, i)
      [] i.op = "ldc1" -> dyna4300i_ldc1(s, i)
      [] i.op = "swc1" -> dyna4300i_swc1(s, i)
      [] i.op = "sdc1" -> dyna4300i_sdc1(s, i)

CompileUsable(s, i) ==
    CASE i.op = "ctc1" -> dyna4300i_cop1_ctc1(s, i)
      [] i.op = "dmtc1" -> dyna4300i_cop1_dmtc1(s, i)
      [] i.op \in (FloatMoves \cup FloatLoads) \ {"ctc1", "dmtc1"} -> CompileMove(InitRdRsRt(s, i), i)
      [] i.op \notin FloatMoves \cup FloatLoads ->
            CASE i.fmt = "s" -> CompileS(s, i)
              [] i.fmt = "d" -> CompileD(s, i)
              [] i.fmt \in {"w", "l"} -> CompileWL(s, i)

CompileFloat(s, i) ==
    CompileUsable(IF i.op \in Coprocessor THEN cop1_with_exception(s) ELSE s, i)
=============================================================================
