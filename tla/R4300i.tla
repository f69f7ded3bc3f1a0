-------------------------------- MODULE R4300i --------------------------------
(***************************************************************************)
(* The integer instructions of the interpreter (src/R4300i.c), each as an  *)
(* operator on a machine m, a record with the register file m.gpr and the  *)
(* last store m.store, and on an instruction i = [op, rd, rs, rt, imm,     *)
(* sa].  The recompiler calls some of these functions from its blocks and  *)
(* must agree with all of them.                                            *)
(*                                                                         *)
(* A word is W bits, a double word 2 * W, an immediate and a halfword      *)
(* W \div 2.  Memory is a constant function of the address, so that a      *)
(* wrong address is a wrong value; sizes smaller than a word are cut from  *)
(* the word at the address.  The link bit of sc is an input (i.sa).        *)
(***************************************************************************)
EXTENDS HostRegs

CONSTANT Memory     \* [Word -> Word]

Half == W \div 2

\* A word has two halves, and the low bits of a shift amount are those of its
\* low word.
ASSUME HalvesAssumption == W % 2 = 0 /\ 2 ^ W % W = 0

\* The gates, on numbers of at most a double word.
Bits(n) == {k \in 0 .. 2 * W - 1 : (n \div 2 ^ k) % 2 = 1}
OfBits(ks) == CHOOSE n \in Double : Bits(n) = ks
a & b == OfBits(Bits(a) \cap Bits(b))
a | b == OfBits(Bits(a) \cup Bits(b))
a ^^ b == OfBits((Bits(a) \cup Bits(b)) \ (Bits(a) \cap Bits(b)))

WordOf(n) == n % 2 ^ W
DoubleOf(n) == n % 2 ^ (2 * W)
Signed(w) == IF Negative(w) THEN w - 2 ^ W ELSE w
NegativeD(d) == d >= 2 ^ (2 * W - 1)
SignedD(d) == IF NegativeD(d) THEN d - 2 ^ (2 * W) ELSE d
NotD(d) == 2 ^ (2 * W) - 1 - d

\* The immediate as a signed and as an unsigned quantity.
ImmS(i) == IF i.imm >= 2 ^ (Half - 1) THEN i.imm - 2 ^ Half ELSE i.imm
ImmWord(i) == WordOf(ImmS(i))
ImmDouble(i) == DoubleOf(ImmS(i))

\* C division truncates towards zero.
Abs(n) == IF n < 0 THEN -n ELSE n
Quot(a, b) == IF (a < 0) = (b < 0) THEN Abs(a) \div Abs(b) ELSE -(Abs(a) \div Abs(b))
Rem(a, b) == a - b * Quot(a, b)

\* A shift right of a signed quantity.
Sar(n, k) == n \div 2 ^ k       \* \div rounds towards minus infinity

Set(m, r, d) == [m EXCEPT !.gpr[r] = d]
RS(m, i) == m.gpr[i.rs]
RT(m, i) == m.gpr[i.rt]
lo(d) == Low(d)

-----------------------------------------------------------------------------
(* Arithmetic and logic.                                                   *)

r4300i_add(m, i) == Set(m, i.rd, Sext(WordOf(lo(RS(m, i)) + lo(RT(m, i)))))
r4300i_sub(m, i) == Set(m, i.rd, Sext(WordOf(lo(RS(m, i)) - lo(RT(m, i)))))
r4300i_addi(m, i) == Set(m, i.rt, Sext(WordOf(lo(RS(m, i)) + ImmS(i))))
r4300i_dadd(m, i) == Set(m, i.rd, DoubleOf(RS(m, i) + RT(m, i)))
r4300i_dsub(m, i) == Set(m, i.rd, DoubleOf(RS(m, i) - RT(m, i)))
r4300i_daddi(m, i) == Set(m, i.rt, DoubleOf(RS(m, i) + ImmS(i)))

\* The variants for operands the recompiler knows to be 32-bit.
r4300i_dadd_32bit(m, i) ==
    Set(m, i.rd, DoubleOf(Signed(lo(RS(m, i))) + Signed(lo(RT(m, i)))))
r4300i_daddi_32bit(m, i) ==
    Set(m, i.rt, DoubleOf(Signed(lo(RS(m, i))) + ImmS(i)))

r4300i_and(m, i) == Set(m, i.rd, RS(m, i) & RT(m, i))
r4300i_or(m, i) == Set(m, i.rd, RS(m, i) | RT(m, i))
r4300i_xor(m, i) == Set(m, i.rd, RS(m, i) ^^ RT(m, i))
r4300i_nor(m, i) == Set(m, i.rd, NotD(RS(m, i) | RT(m, i)))
r4300i_andi(m, i) == Set(m, i.rt, RS(m, i) & i.imm)
r4300i_ori(m, i) == Set(m, i.rt, RS(m, i) | i.imm)
r4300i_xori(m, i) == Set(m, i.rt, RS(m, i) ^^ i.imm)
r4300i_lui(m, i) == Set(m, i.rt, Sext(i.imm * 2 ^ Half))

Bit(b) == IF b THEN 1 ELSE 0
r4300i_slt(m, i) == Set(m, i.rd, Bit(SignedD(RS(m, i)) < SignedD(RT(m, i))))
r4300i_sltu(m, i) == Set(m, i.rd, Bit(RS(m, i) < RT(m, i)))
r4300i_slti(m, i) == Set(m, i.rt, Bit(SignedD(RS(m, i)) < ImmS(i)))
r4300i_sltiu(m, i) == Set(m, i.rt, Bit(RS(m, i) < ImmDouble(i)))

-----------------------------------------------------------------------------
(* Shifts: the amount is a field, or the low bits of rs.                   *)

Amount(m, i) == RS(m, i) % W            \* & 0x1F
AmountD(m, i) == RS(m, i) % (2 * W)     \* & 0x3F

Sll(m, i, k) == Set(m, i.rd, Sext(WordOf(lo(RT(m, i)) * 2 ^ k)))
Srl(m, i, k) == Set(m, i.rd, Sext(lo(RT(m, i)) \div 2 ^ k))
Sra(m, i, k) == Set(m, i.rd, DoubleOf(Sar(Signed(lo(RT(m, i))), k)))
Dsll(m, i, k) == Set(m, i.rd, DoubleOf(RT(m, i) * 2 ^ k))
Dsrl(m, i, k) == Set(m, i.rd, RT(m, i) \div 2 ^ k)
Dsra(m, i, k) == Set(m, i.rd, DoubleOf(Sar(SignedD(RT(m, i)), k)))

r4300i_sll(m, i) == Sll(m, i, i.sa)
r4300i_srl(m, i) == Srl(m, i, i.sa)
r4300i_sra(m, i) == Sra(m, i, i.sa)
r4300i_sllv(m, i) == Sll(m, i, Amount(m, i))
r4300i_srlv(m, i) == Srl(m, i, Amount(m, i))
r4300i_srav(m, i) == Sra(m, i, Amount(m, i))
r4300i_dsll(m, i) == Dsll(m, i, i.sa)
r4300i_dsrl(m, i) == Dsrl(m, i, i.sa)
r4300i_dsra(m, i) == Dsra(m, i, i.sa)
r4300i_dsllv(m, i) == Dsll(m, i, AmountD(m, i))
r4300i_dsrlv(m, i) == Dsrl(m, i, AmountD(m, i))
r4300i_dsrav(m, i) == Dsra(m, i, AmountD(m, i))
r4300i_dsll32(m, i) == Dsll(m, i, W + i.sa)
r4300i_dsrl32(m, i) == Dsrl(m, i, W + i.sa)
r4300i_dsra32(m, i) == Dsra(m, i, W + i.sa)

-----------------------------------------------------------------------------
(* The multiplier: LO and HI keep their value on a division by zero.       *)

HiLo(m, h, l) == [m EXCEPT !.gpr[HI] = h, !.gpr[LO] = l]
Product(m, n) == HiLo(m, Sext(High(DoubleOf(n))), Sext(Low(DoubleOf(n))))

r4300i_mfhi(m, i) == Set(m, i.rd, m.gpr[HI])
r4300i_mflo(m, i) == Set(m, i.rd, m.gpr[LO])
r4300i_mthi(m, i) == Set(m, HI, RS(m, i))
r4300i_mtlo(m, i) == Set(m, LO, RS(m, i))
r4300i_mult(m, i) == Product(m, Signed(lo(RS(m, i))) * Signed(lo(RT(m, i))))
r4300i_multu(m, i) == Product(m, lo(RS(m, i)) * lo(RT(m, i)))

Divided(m, a, b, Widen(_)) == IF b = 0 THEN m ELSE HiLo(m, Widen(Rem(a, b)), Widen(Quot(a, b)))
SextWord(n) == Sext(WordOf(n))
r4300i_div(m, i) == Divided(m, Signed(lo(RS(m, i))), Signed(lo(RT(m, i))), SextWord)
r4300i_divu(m, i) == Divided(m, lo(RS(m, i)), lo(RT(m, i)), SextWord)
r4300i_ddiv(m, i) == Divided(m, SignedD(RS(m, i)), SignedD(RT(m, i)), DoubleOf)
r4300i_ddivu(m, i) == Divided(m, RS(m, i), RT(m, i), DoubleOf)

\* dmultu: four partial products.  The upper half of a cross product is
\* added to the upper word of HI, [ghi + 4], with the carry of the lower
\* half into the upper word of LO.
DmultHiLo(x, y) ==
    LET b == Low(x)  a == High(x)  d == Low(y)  c == High(y)
        bc == b * c  ad == a * d
        mid == High(b * d) + Low(bc)
        mid2 == WordOf(mid) + Low(ad)
        hi == a * c
        carries == (mid \div 2 ^ W + High(bc)) + (mid2 \div 2 ^ W + High(ad))
    IN  [low |-> Pair(Low(b * d), WordOf(mid2)),
         high |-> Pair(Low(hi), WordOf(High(hi) + carries))]

r4300i_dmultu(m, i) == LET p == DmultHiLo(RS(m, i), RT(m, i)) IN HiLo(m, p.high, p.low)

\* dmult: the same on the magnitudes, negated when the signs differ.
r4300i_dmult(m, i) ==
    LET p == DmultHiLo(Abs(SignedD(RS(m, i))), Abs(SignedD(RT(m, i))))
        low == DoubleOf(NotD(p.low) + 1)
    IN  IF NegativeD(RS(m, i)) = NegativeD(RT(m, i)) THEN HiLo(m, p.high, p.low)
        ELSE HiLo(m, DoubleOf(NotD(p.high) + Bit(low = 0)), low)

-----------------------------------------------------------------------------
(* Loads and stores.                                                       *)

Address(m, i) == WordOf(lo(RS(m, i)) + ImmS(i))
LowHalf(w) == w % 2 ^ Half
HighHalf(w) == w \div 2 ^ Half
SextHalf(h) == IF h >= 2 ^ (Half - 1) THEN WordOf(h - 2 ^ Half) ELSE h
MemDouble(a) == Pair(Memory[WordOf(a + 1)], Memory[a])

r4300i_lh(m, i) == Set(m, i.rt, Sext(SextHalf(LowHalf(Memory[Address(m, i)]))))
r4300i_lhu(m, i) == Set(m, i.rt, LowHalf(Memory[Address(m, i)]))
r4300i_lb(m, i) == r4300i_lh(m, i)      \* a byte is another part of a word
r4300i_lbu(m, i) == r4300i_lhu(m, i)
r4300i_lw(m, i) == Set(m, i.rt, Sext(Memory[Address(m, i)]))
r4300i_lwu(m, i) == Set(m, i.rt, Memory[Address(m, i)])
r4300i_ld(m, i) == Set(m, i.rt, MemDouble(Address(m, i)))

\* The unaligned loads merge memory with rt: of an aligned address they take
\* everything, else one half.
Aligned(a) == a % 2 = 0
Merge(a, w, old, left) ==
    IF Aligned(a) = left THEN w
    ELSE IF left THEN LowHalf(w) * 2 ^ Half + LowHalf(old)
    ELSE HighHalf(old) * 2 ^ Half + HighHalf(w)
WordAt(a) == Memory[a - (a % 2)]
DoubleAt(a) == MemDouble(a - (a % 2))
r4300i_lwl(m, i) ==
    Set(m, i.rt, Sext(Merge(Address(m, i), WordAt(Address(m, i)), lo(RT(m, i)), TRUE)))
r4300i_lwr(m, i) ==
    Set(m, i.rt, Sext(Merge(Address(m, i), WordAt(Address(m, i)), lo(RT(m, i)), FALSE)))
r4300i_ldl(m, i) ==
    Set(m, i.rt, IF Aligned(Address(m, i)) THEN DoubleAt(Address(m, i))
                 ELSE Pair(lo(RT(m, i)), Memory[Address(m, i)]))
r4300i_ldr(m, i) ==
    Set(m, i.rt, IF Aligned(Address(m, i)) THEN Pair(Memory[Address(m, i)], High(RT(m, i)))
                 ELSE DoubleAt(Address(m, i)))

Store(m, size, a, data) == [m EXCEPT !.store = <<size, a, data>>]
r4300i_sh(m, i) == Store(m, "half", Address(m, i), LowHalf(lo(RT(m, i))))
r4300i_sb(m, i) == r4300i_sh(m, i)
r4300i_sw(m, i) == Store(m, "word", Address(m, i), lo(RT(m, i)))
r4300i_sd(m, i) == Store(m, "double", Address(m, i), RT(m, i))
r4300i_swl(m, i) ==
    Store(m, "left", Address(m, i), IF Aligned(Address(m, i)) THEN lo(RT(m, i))
                                    ELSE HighHalf(lo(RT(m, i))))
r4300i_swr(m, i) ==
    Store(m, "right", Address(m, i), IF Aligned(Address(m, i)) THEN LowHalf(lo(RT(m, i)))
                                     ELSE lo(RT(m, i)))
r4300i_sdl(m, i) ==
    Store(m, "left", Address(m, i), IF Aligned(Address(m, i)) THEN RT(m, i) ELSE High(RT(m, i)))
r4300i_sdr(m, i) ==
    Store(m, "right", Address(m, i), IF Aligned(Address(m, i)) THEN lo(RT(m, i)) ELSE RT(m, i))
r4300i_sc(m, i) ==
    Set(IF i.sa = 1 THEN Store(m, "word", Address(m, i), lo(RT(m, i))) ELSE m, i.rt, i.sa)

-----------------------------------------------------------------------------
IntegerOps ==
    {"add", "sub", "addi", "dadd", "dsub", "daddi", "and", "or", "xor", "nor", "andi", "ori",
     "xori", "lui", "slt", "sltu", "slti", "sltiu", "sll", "srl", "sra", "sllv", "srlv", "srav",
     "dsll", "dsrl", "dsra", "dsllv", "dsrlv", "dsrav", "dsll32", "dsrl32", "dsra32", "mfhi",
     "mflo", "mthi", "mtlo", "mult", "multu", "div", "divu", "ddiv", "ddivu", "dmult", "dmultu",
     "lb", "lbu", "lh", "lhu", "lw", "lwu", "ld", "lwl", "lwr", "ldl", "ldr", "sb", "sh", "sw",
     "sd", "swl", "swr", "sdl", "sdr", "sc"}
Variants == {"dadd_32bit", "daddi_32bit"}

\* The dispatch tables: what the interpreter does for an instruction.
Interpret(m, i) ==
    CASE i.op = "add" -> r4300i_add(m, i)       [] i.op = "sub" -> r4300i_sub(m, i)
      [] i.op = "addi" -> r4300i_addi(m, i)     [] i.op = "dadd" -> r4300i_dadd(m, i)
      [] i.op = "dsub" -> r4300i_dsub(m, i)     [] i.op = "daddi" -> r4300i_daddi(m, i)
      [] i.op = "dadd_32bit" -> r4300i_dadd_32bit(m, i)
      [] i.op = "daddi_32bit" -> r4300i_daddi_32bit(m, i)
      [] i.op = "and" -> r4300i_and(m, i)       [] i.op = "or" -> r4300i_or(m, i)
      [] i.op = "xor" -> r4300i_xor(m, i)       [] i.op = "nor" -> r4300i_nor(m, i)
      [] i.op = "andi" -> r4300i_andi(m, i)     [] i.op = "ori" -> r4300i_ori(m, i)
      [] i.op = "xori" -> r4300i_xori(m, i)     [] i.op = "lui" -> r4300i_lui(m, i)
      [] i.op = "slt" -> r4300i_slt(m, i)       [] i.op = "sltu" -> r4300i_sltu(m, i)
      [] i.op = "slti" -> r4300i_slti(m, i)     [] i.op = "sltiu" -> r4300i_sltiu(m, i)
      [] i.op = "sll" -> r4300i_sll(m, i)       [] i.op = "srl" -> r4300i_srl(m, i)
      [] i.op = "sra" -> r4300i_sra(m, i)       [] i.op = "sllv" -> r4300i_sllv(m, i)
      [] i.op = "srlv" -> r4300i_srlv(m, i)     [] i.op = "srav" -> r4300i_srav(m, i)
      [] i.op = "dsll" -> r4300i_dsll(m, i)     [] i.op = "dsrl" -> r4300i_dsrl(m, i)
      [] i.op = "dsra" -> r4300i_dsra(m, i)     [] i.op = "dsllv" -> r4300i_dsllv(m, i)
      [] i.op = "dsrlv" -> r4300i_dsrlv(m, i)   [] i.op = "dsrav" -> r4300i_dsrav(m, i)
      [] i.op = "dsll32" -> r4300i_dsll32(m, i) [] i.op = "dsrl32" -> r4300i_dsrl32(m, i)
      [] i.op = "dsra32" -> r4300i_dsra32(m, i) [] i.op = "mfhi" -> r4300i_mfhi(m, i)
      [] i.op = "mflo" -> r4300i_mflo(m, i)     [] i.op = "mthi" -> r4300i_mthi(m, i)
      [] i.op = "mtlo" -> r4300i_mtlo(m, i)     [] i.op = "mult" -> r4300i_mult(m, i)
      [] i.op = "multu" -> r4300i_multu(m, i)   [] i.op = "div" -> r4300i_div(m, i)
      [] i.op = "divu" -> r4300i_divu(m, i)     [] i.op = "ddiv" -> r4300i_ddiv(m, i)
      [] i.op = "ddivu" -> r4300i_ddivu(m, i)   [] i.op = "dmult" -> r4300i_dmult(m, i)
      [] i.op = "dmultu" -> r4300i_dmultu(m, i) [] i.op = "lb" -> r4300i_lb(m, i)
      [] i.op = "lbu" -> r4300i_lbu(m, i)       [] i.op = "sb" -> r4300i_sb(m, i)
      [] i.op = "lh" -> r4300i_lh(m, i)
      [] i.op = "lhu" -> r4300i_lhu(m, i)       [] i.op = "lw" -> r4300i_lw(m, i)
      [] i.op = "lwu" -> r4300i_lwu(m, i)       [] i.op = "ld" -> r4300i_ld(m, i)
      [] i.op = "lwl" -> r4300i_lwl(m, i)       [] i.op = "lwr" -> r4300i_lwr(m, i)
      [] i.op = "ldl" -> r4300i_ldl(m, i)       [] i.op = "ldr" -> r4300i_ldr(m, i)
      [] i.op = "sh" -> r4300i_sh(m, i)         [] i.op = "sw" -> r4300i_sw(m, i)
      [] i.op = "sd" -> r4300i_sd(m, i)         [] i.op = "swl" -> r4300i_swl(m, i)
      [] i.op = "swr" -> r4300i_swr(m, i)       [] i.op = "sdl" -> r4300i_sdl(m, i)
      [] i.op = "sdr" -> r4300i_sdr(m, i)       [] i.op = "sc" -> r4300i_sc(m, i)
=============================================================================
