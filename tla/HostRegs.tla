------------------------------- MODULE HostRegs -------------------------------
(***************************************************************************)
(* The tables of the dynamic recompiler's register cache                   *)
(* (src/dynaRec/regcache.c, x86.h) and the machine its code runs on.       *)
(* While it compiles, the recompiler decides which host register holds     *)
(* which MIPS register; the code it emits later runs under that decision.  *)
(* A block is straight-line code, so the two are followed together, in one *)
(* record with the compiler's tables and with what the code emitted so far *)
(* leaves in the host registers and in the MIPS registers' memory image:   *)
(*   gpr     gHWS_GPR, the memory image (a double word)                    *)
(*   fpr     gHWS_fpr32, con31 and rc: see FPU                             *)
(*   host    the contents of the host registers (a word)                   *)
(*   map     x86reg[]: what a host register holds                          *)
(*   const   ConstMap[]: the known constant of a MIPS register, or NoConst *)
(*   flushed FlushedRegistersMap[].Is32bit                                 *)
(*   dead    the registers whose FinalAddressUsedAt is not after the pc    *)
(*   now     those of them whose FinalAddressUsedAt is the pc              *)
(*   store   the last store to memory                                      *)
(*   stack   the host registers pushed around a call (PopFlag), or NoConst *)
(*   exit    how the block was left, or Inside                             *)
(*   year    ThisYear, the clock of the birth dates                        *)
(*   errors  the DisplayError messages the compiler has raised             *)
(* A word has W bits (32 in the code), a double word 2 * W.  EBP and ESP   *)
(* are never mapped and are left out.                                      *)
(***************************************************************************)
EXTENDS Integers, FiniteSets, FiniteSetsExt

CONSTANTS
    Gpr,            \* the general registers other than r0
    R0, HI, LO,     \* register 0 and the multiplier's registers
    W,              \* bits in a word
    BlockAnalysis,  \* currentromoptions.Advanced_Block_Analysis
    NoConst         \* the entry of ConstMap of a register that is no constant

ASSUME HostRegsAssumption ==
    /\ W \in Nat \ {0}
    /\ BlockAnalysis \in BOOLEAN
    /\ {R0, HI, LO} \cap Gpr = {}
    /\ R0 # HI /\ R0 # LO /\ HI # LO

-----------------------------------------------------------------------------
(* Words and double words.                                                 *)

Word == 0 .. 2 ^ W - 1
Double == 0 .. 2 ^ (2 * W) - 1
Ones == 2 ^ W - 1
Low(d) == d % 2 ^ W
High(d) == d \div 2 ^ W
Pair(lo, hi) == hi * 2 ^ W + lo
Negative(w) == w >= 2 ^ (W - 1)
SignOf(w) == IF Negative(w) THEN Ones ELSE 0          \* sar w, 31
Sext(w) == Pair(w, SignOf(w))
IsWord(d) == d = Sext(Low(d))

\* What powers of two are, which the provers do not know.
ASSUME WidthAssumption ==
    2 ^ 0 = 1 /\ \A k \in 0 .. 2 * W : 2 ^ k \in Nat /\ 2 ^ (k + 1) = 2 * 2 ^ k

-----------------------------------------------------------------------------
(* The tables.                                                             *)

Reg == Gpr \cup {R0, HI, LO}
EAX == 0
ECX == 1
EDX == 2
EBX == 3
ESI == 6
EDI == 7
Host == {EAX, ECX, EDX, EBX, ESI, EDI}
None == -1
Unused == "unused"
HighWord == "high word"
Protected == "protected"

\* No register is a mark, and no constant is NoConst.
ASSUME MarksAssumption == {Unused, HighWord, Protected} \cap Reg = {} /\ NoConst \notin Word

Entry(mips, is32, dirty, hi, birth) ==
    [mips |-> mips, is32 |-> is32, dirty |-> dirty, hi |-> hi, birth |-> birth]

FirstYear == 0
Inside == <<"inside", 0>>

\* InitRegisterMap, with the registers the block starts from.
InitRegisterMap(gpr, fpr, host) ==
    [gpr |-> gpr, fpr |-> fpr, con31 |-> 0, rc |-> 0, host |-> host,
     map |-> [k \in Host |-> Entry(Unused, FALSE, FALSE, None, FirstYear)],
     const |-> [r \in Reg |-> IF r = R0 THEN 0 ELSE NoConst],
     flushed |-> [r \in Reg |-> r = R0],
     dead |-> {}, now |-> {}, stack |-> [k \in Host |-> NoConst], store |-> <<>>,
     exit |-> Inside, year |-> FirstYear, errors |-> {}]

IsConst(s, r) == s.const[r] # NoConst
Holding(s, r) == {k \in Host : s.map[k].mips = r}
Where(s, r) == Max(Holding(s, r) \cup {None})
CheckIs32Bit(s, r) == IsConst(s, r) \/ (Where(s, r) # None /\ s.map[Where(s, r)].is32)
CheckIsDirty(s, r) == Where(s, r) # None /\ s.map[Where(s, r)].dirty
Free(s) == {k \in Host : s.map[k].mips = Unused}
Mapped(s) == {k \in Host : s.map[k].mips \in Reg}

Report(s, message) == [s EXCEPT !.errors = @ \cup {message}]
Mov(s, k, w) == [s EXCEPT !.host[k] = w]

\* AnalyzeBlock: an instruction's operands, if this is the last to use them.
FinalUse(s, done) == [s EXCEPT !.dead = @ \cup done, !.now = done]

-----------------------------------------------------------------------------
(* The x86regtyp "Conditions" of a request to map a register, the registers *)
(* that called functions change, and those restored after the call.        *)

Conditions(mips, is32, dirty, noLo, noHi) ==
    [mips |-> mips, is32 |-> is32, dirty |-> dirty, noLo |-> noLo, noHi |-> noHi]

PopIfMapped(s, k) == IF s.stack[k] = NoConst THEN s ELSE [s EXCEPT !.host[k] = s.stack[k]]

\* What a called C function does to the registers it need not preserve: any
\* other value stands for all of them.
Clobber(s, ks) == [s EXCEPT !.host = [k \in Host |-> IF k \in ks THEN Ones - @[k] ELSE @[k]]]
=============================================================================
