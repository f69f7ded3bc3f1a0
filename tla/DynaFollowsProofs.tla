-------------------------- MODULE DynaFollowsProofs --------------------------
(***************************************************************************)
(* A block against the interpreter: every instruction, integer or          *)
(* floating-point, and every branch with its delay slot keeps the block's  *)
(* state on the interpreter's machine, r0 apart, unless it is one of those *)
(* on which the recompiler is known to part from the interpreter           *)
(* (Diverges, DivergesFloat and DivergesBranch in Dyna).  So Agree and     *)
(* Clean hold of every block.                                              *)
(***************************************************************************)
EXTENDS DynaValuesProofs

-------------------------------------------------------------------------------
(* Calls of the interpreter                                                  *)

\* A function of the interpreter gives a register that is in memory a value.
LEMMA MemorySet ==
    ASSUME NEW t, NEW p, NEW M, NEW Z, On(t, p, M, Z), NEW r \in Reg, r # R0, InMemory(t, r), NEW v \in Double,
           t.flushed[r] => IsWord(v), NEW u, u = Set(t, r, v)
    PROVE  On(u, p, Set(M, r, v), Z) /\ \A k \in Host : Saved(t, k) => Saved(u, k)
<1> DEFINE N == With(M, r, v)
<1>1. Good(t, p) /\ Typed(t) /\ Image(t) /\ Machine(M) /\ Aside(t, M)
  BY DEF On, Good, Follows
<1>2. Good(u, p)
  BY <1>1, AssignmentsGood
<1>3. /\ u.map = t.map /\ u.const = t.const /\ u.host = t.host /\ u.flushed = t.flushed /\ u.stack = t.stack
      /\ u.fpr = t.fpr /\ u.con31 = t.con31 /\ u.rc = t.rc /\ u.store = t.store /\ u.exit = t.exit
      /\ u.gpr = [t.gpr EXCEPT ![r] = v]
  BY <1>1 DEF Typed, Set
<1>4. Image(u)
  BY <1>1, <1>3 DEF Image
<1>5. Machine(N) /\ Aside(M, N) /\ N.gpr[r] = v /\ \A q \in Reg \ {r} : N.gpr[q] = M.gpr[q]
  BY <1>1, WithMachine
<1>6. N = Set(M, r, v)
  BY DEF With, Set
<1> HIDE DEF N
<1>7. Aside(u, N)
  BY <1>1, <1>3, <1>5 DEF Aside
<1>8. ASSUME NEW q \in Reg \ Z
      PROVE  Shown(u, N.gpr[q], q)
  <2>1. Shown(t, M.gpr[q], q)
    BY DEF On, Follows
  <2>2. t.gpr \in [Reg -> Double]
    BY <1>1 DEF Image
  <2>3. CASE q = r
    BY <1>3, <1>5, <2>2, <2>3 DEF Shown, InMemory
  <2>4. CASE q # r
    <3>1. u.gpr[q] = t.gpr[q] /\ N.gpr[q] = M.gpr[q]
      BY <1>3, <1>5, <2>2, <2>4
    <3>2. QED
      BY <2>1, <3>1, <1>3 DEF Shown
  <2>5. QED
    BY <2>3, <2>4
<1>9. On(u, p, N, Z)
  BY <1>2, <1>4, <1>5, <1>7, <1>8 DEF On, Follows
<1>10. QED
  BY <1>3, <1>6, <1>9 DEF Saved, Live

\* Nothing is in a host register, and nothing is known of the upper halves.
Flat(t) ==
    /\ \A k \in Host : t.map[k].mips = Unused
    /\ \A r \in Reg \ {R0} : t.const[r] = NoConst /\ ~t.flushed[r]

\* That is how FlushAllRegisters leaves the block.
LEMMA FlatAll ==
    ASSUME NEW s, NEW M, NEW Z, On(s, {}, M, Z), NEW t, t = FlushAllRegisters(s)
    PROVE  On(t, {}, M, Z) /\ Flat(t) /\ \A r \in Reg : r \notin Z \/ r = R0 => t.gpr[r] = M.gpr[r]
<1>1. Good(s, {}) /\ Follows(s, M, Z) /\ Typed(s) /\ Image(s)
  BY DEF On, Good, Follows
<1>2. Good(t, {})
  BY <1>1, CacheGood
<1>3. Follows(t, M, Z) /\ \A r \in Reg \ Z : t.gpr[r] = M.gpr[r]
  BY <1>1, FlushAllFollows
<1>4. t.gpr[R0] = 0 /\ M.gpr[R0] = 0
  BY <1>3 DEF Follows, Image, Machine
<1>5. R0 \in Reg
  BY DEF Reg
<1> DEFINE u == FlushConstants(s)
<1>6. Good(u, {}) /\ \A r \in Reg \ {R0} : u.const[r] = NoConst
  BY <1>1, FlushConstantsFollows
<1>7. t = FlushMapped(u)
  BY DEF FlushAllRegisters
<1> HIDE DEF u
<1>8. /\ t.const = u.const /\ t.flushed = [r \in Reg |-> r = R0 /\ u.flushed[r]]
      /\ t.map = [k \in Host |-> IF u.map[k].mips = Protected THEN u.map[k]
                                 ELSE Entry(Unused, FALSE, FALSE, None, FirstYear)]
  BY <1>6, <1>7 DEF FlushMapped, Good, Typed
<1>9. \A k \in Host : u.map[k].mips # Protected
  BY <1>6 DEF Good
<1>12. \A k \in Host : t.map[k].mips = Unused
  BY <1>8, <1>9 DEF Entry
<1>13. \A r \in Reg \ {R0} : t.const[r] = NoConst /\ ~t.flushed[r]
  BY <1>6, <1>8
<1>10. Flat(t)
  BY <1>12, <1>13 DEF Flat
<1>11. QED
  BY <1>2, <1>3, <1>4, <1>10 DEF On

\* There a function gives any register but r0 any value,
LEMMA FlatSet ==
    ASSUME NEW t, NEW M, NEW Z, On(t, {}, M, Z), Flat(t), NEW r \in Reg, r # R0, NEW v \in Double,
           NEW u, u = Set(t, r, v)
    PROVE  On(u, {}, Set(M, r, v), Z) /\ Flat(u)
<1>1. InMemory(t, r) /\ ~t.flushed[r]
  BY MarkFacts DEF Flat, InMemory, Marks
<1>2. Typed(t)
  BY DEF On, Good
<1>3. u.map = t.map /\ u.const = t.const /\ u.flushed = t.flushed
  BY <1>2 DEF Typed, Set
<1>4. QED
  BY <1>1, <1>3, MemorySet DEF Flat

\* and what it does to the host registers matters to none.
LEMMA FlatClobber ==
    ASSUME NEW t, NEW M, NEW Z, On(t, {}, M, Z), Flat(t), NEW K
    PROVE  On(Clobber(t, K), {}, M, Z)
<1>1. Typed(t) /\ Image(t)
  BY DEF On, Good, Follows
<1>2. Ran(t, Clobber(t, K), K)
  BY <1>1, RanClobber
<1>3. \A k \in Host : ~Live(t, k)
  BY MarkFacts DEF Flat, Live, Marks
<1>4. Ran(t, Clobber(t, K), {})
  BY <1>2, <1>3 DEF Ran
<1>5. QED
  BY <1>4, RanOn

\* The functions of the interpreter that compute a double word in rd, with the
\* value they compute,
CalledRD == {"dadd", "dadd_32bit", "dsub", "dsllv", "dsrlv", "dsrav", "dsll", "dsrl", "dsra", "dsrl32"}
ValueRD(i, a, b) ==
    CASE i.op = "dadd" -> DoubleOf(a + b)
      [] i.op = "dadd_32bit" -> DoubleOf(Signed(Low(a)) + Signed(Low(b)))
      [] i.op = "dsub" -> DoubleOf(a - b)
      [] i.op = "dsllv" -> DoubleOf(b * 2 ^ (a % (2 * W)))
      [] i.op = "dsrlv" -> b \div 2 ^ (a % (2 * W))
      [] i.op = "dsrav" -> DoubleOf(Sar(SignedD(b), a % (2 * W)))
      [] i.op = "dsll" -> DoubleOf(b * 2 ^ i.sa)
      [] i.op = "dsrl" -> b \div 2 ^ i.sa
      [] i.op = "dsra" -> DoubleOf(Sar(SignedD(b), i.sa))
      [] i.op = "dsrl32" -> b \div 2 ^ (W + i.sa)

\* which depends on the operands only.
LEMMA CalledRDIs ==
    ASSUME NEW i, i.op \in CalledRD, NEW m
    PROVE  Interpret(m, i) = Set(m, i.rd, ValueRD(i, m.gpr[i.rs], m.gpr[i.rt]))
<1>1. CASE i.op \in {"dadd", "dadd_32bit", "dsub"}
  <2>1. CASE i.op = "dadd"
    BY <2>1 DEF Interpret, ValueRD, r4300i_dadd, RS, RT
  <2>2. CASE i.op = "dadd_32bit"
    BY <2>2 DEF Interpret, ValueRD, r4300i_dadd_32bit, RS, RT, lo
  <2>3. CASE i.op = "dsub"
    BY <2>3 DEF Interpret, ValueRD, r4300i_dsub, RS, RT
  <2>4. QED
    BY <1>1, <2>1, <2>2, <2>3
<1>2. CASE i.op \in {"dsllv", "dsrlv", "dsrav"}
  <2>1. CASE i.op = "dsllv"
    BY <2>1 DEF Interpret, ValueRD, r4300i_dsllv, Dsll, AmountD, RS, RT
  <2>2. CASE i.op = "dsrlv"
    BY <2>2 DEF Interpret, ValueRD, r4300i_dsrlv, Dsrl, AmountD, RS, RT
  <2>3. CASE i.op = "dsrav"
    BY <2>3 DEF Interpret, ValueRD, r4300i_dsrav, Dsra, AmountD, RS, RT
  <2>4. QED
    BY <1>2, <2>1, <2>2, <2>3
<1>3. CASE i.op \in {"dsll", "dsrl", "dsra", "dsrl32"}
  <2>1. CASE i.op = "dsll"
    BY <2>1 DEF Interpret, ValueRD, r4300i_dsll, Dsll, RT
  <2>2. CASE i.op = "dsrl"
    BY <2>2 DEF Interpret, ValueRD, r4300i_dsrl, Dsrl, RT
  <2>3. CASE i.op = "dsra"
    BY <2>3 DEF Interpret, ValueRD, r4300i_dsra, Dsra, RT
  <2>4. CASE i.op = "dsrl32"
    BY <2>4 DEF Interpret, ValueRD, r4300i_dsrl32, Dsrl, RT
  <2>5. QED
    BY <1>3, <2>1, <2>2, <2>3, <2>4
<1>4. QED
  BY <1>1, <1>2, <1>3 DEF CalledRD

\* A signed quantity is a number.
LEMMA SignedInt ==
    /\ \A w \in Word : Signed(w) \in Int
    /\ \A d \in Double : SignedD(d) \in Int /\ NotD(d) \in Int
<1>1. 2 ^ (2 * W) \in Int /\ 2 ^ W \in Int
  <2>1. 2 * W \in 0 .. 2 * W /\ W \in 0 .. 2 * W
    BY PowerPositive
  <2>2. QED
    BY <2>1, PowerPositive
<1>2. \A w \in Word \cup Double : w \in Int
  BY Cut
<1>3. QED
  BY <1>1, <1>2 DEF Signed, SignedD, NotD

\* A double word shifted to the right is a double word, one shifted to the left a number.
LEMMA DoubleShifts ==
    ASSUME NEW d \in Double, NEW k \in 0 .. 2 * W - 1
    PROVE  d \div 2 ^ k \in Double /\ d * 2 ^ k \in Int /\ Sar(SignedD(d), k) \in Int
<1>1. k \in 0 .. 2 * W /\ 2 * W \in 0 .. 2 * W
  BY PowerPositive
<1>2. 2 ^ k \in Nat \ {0} /\ 2 ^ (2 * W) \in Nat \ {0}
  BY <1>1, PowerPositive
<1> DEFINE b == 2 ^ k
<1>3. d \in Nat /\ d <= 2 ^ (2 * W) - 1
  BY <1>2 DEF Double
<1>4. SignedD(d) \in Int
  BY SignedInt
<1>5. b \in Nat \ {0}
  BY <1>2
<1> HIDE DEF b
<1>6. SignedD(d) \div b \in Int /\ d * b \in Int
  BY <1>3, <1>4, <1>5, Division
<1>7. d \div b \in 0 .. d
  <2>1. d % b \in 0 .. b - 1 /\ d \div b \in Int /\ d = b * (d \div b) + (d % b)
    BY <1>3, <1>5, Division
  <2>2. ASSUME NEW q \in Int, NEW r \in 0 .. b - 1, d = b * q + r
        PROVE  q \in 0 .. d
    <3>1. q < 0 => b * q <= -b
      BY <1>5
    <3>2. q >= 0
      BY <2>2, <3>1, <1>3, <1>5
    <3>3. b * q >= q
      BY <3>2, <1>5
    <3>4. QED
      BY <2>2, <3>2, <3>3, <1>3, <1>5
  <2>3. QED
    BY <2>1, <2>2
<1>8. d \div b \in Double
  BY <1>3, <1>7, <1>2 DEF Double
<1>9. QED
  BY <1>6, <1>8 DEF b, Sar

\* The value is a double word.
LEMMA ValueRDDouble ==
    ASSUME NEW i, i.op \in CalledRD, i.sa \in 0 .. W - 1, NEW a \in Double, NEW b \in Double
    PROVE  ValueRD(i, a, b) \in Double
<1>1. a \in Int /\ b \in Int /\ a + b \in Int /\ a - b \in Int
  BY Cut
<1>2. Low(a) \in Word /\ Low(b) \in Word
  BY Pairs
<1>3. Signed(Low(a)) + Signed(Low(b)) \in Int
  BY <1>2, SignedInt
<1>4. W \in Nat \ {0}
  BY PowerPositive
<1>5. a % (2 * W) \in 0 .. 2 * W - 1 /\ i.sa \in 0 .. 2 * W - 1 /\ W + i.sa \in 0 .. 2 * W - 1
  <2>1. 2 * W \in Nat \ {0}
    BY <1>4
  <2>2. a % (2 * W) \in 0 .. 2 * W - 1
    BY <1>1, <2>1, Division
  <2>3. QED
    BY <2>2, <1>4
<1>6. \A k \in 0 .. 2 * W - 1 : b \div 2 ^ k \in Double /\ b * 2 ^ k \in Int /\ Sar(SignedD(b), k) \in Int
  BY DoubleShifts
<1>7. \A k \in 0 .. 2 * W - 1 : DoubleOf(b * 2 ^ k) \in Double /\ DoubleOf(Sar(SignedD(b), k)) \in Double
  BY <1>6, Cut
<1>8. DoubleOf(a + b) \in Double /\ DoubleOf(a - b) \in Double /\ DoubleOf(Signed(Low(a)) + Signed(Low(b))) \in Double
  BY <1>1, <1>3, Cut
<1>9. CASE i.op \in {"dadd", "dadd_32bit", "dsub"}
  BY <1>8, <1>9 DEF ValueRD
<1>10. CASE i.op \in {"dsllv", "dsrlv", "dsrav"}
  BY <1>5, <1>6, <1>7, <1>10 DEF ValueRD
<1>11. CASE i.op \in {"dsll", "dsrl", "dsra", "dsrl32"}
  BY <1>5, <1>6, <1>7, <1>11 DEF ValueRD
<1>12. QED
  BY <1>9, <1>10, <1>11 DEF CalledRD

\* A call that computes rd.
LEMMA CallRDOn ==
    ASSUME NEW s, NEW M, NEW Z, NEW i, Enters(s, i, M, Z), i.op \in CalledRD, i.rd # R0
    PROVE  On(INTERPRET(s, i), {}, Interpret(M, i), Z)
<1>1. /\ On(s, {}, M, Z) /\ i.rd \in Reg \ Z /\ i.rs \in Reg \ Z /\ i.rt \in Reg \ Z
      /\ M.gpr[i.rs] \in Double /\ M.gpr[i.rt] \in Double /\ i.sa \in 0 .. W - 1
  BY EntersFacts
<1>2. PICK t : t = FlushAllRegisters(s)
  OBVIOUS
<1>3. On(t, {}, M, Z) /\ Flat(t) /\ \A r \in Reg : r \notin Z \/ r = R0 => t.gpr[r] = M.gpr[r]
  BY <1>1, <1>2, FlatAll
<1>4. t.gpr[i.rs] = M.gpr[i.rs] /\ t.gpr[i.rt] = M.gpr[i.rt]
  BY <1>1, <1>3
<1>5. PICK v : v = ValueRD(i, M.gpr[i.rs], M.gpr[i.rt])
  OBVIOUS
<1>6. v \in Double
  BY <1>1, <1>5, ValueRDDouble
<1>7. Interpret(t, i) = Set(t, i.rd, v) /\ Interpret(M, i) = Set(M, i.rd, v)
  BY <1>4, <1>5, CalledRDIs
<1>8. Call(t, i) = Interpret(t, i)
  BY DEF Call, InterpretAny, CalledRD, FloatOps, FloatLoads, FloatMoves, FloatBinary, FloatUnary, Methods
<1>9. INTERPRET(s, i) = Clobber(Call(t, i), {EAX, ECX, EDX})
  BY <1>2 DEF INTERPRET
<1>10. On(Set(t, i.rd, v), {}, Set(M, i.rd, v), Z) /\ Flat(Set(t, i.rd, v))
  BY <1>1, <1>3, <1>6, FlatSet
<1>11. QED
  BY <1>7, <1>8, <1>9, <1>10, FlatClobber

\* An instruction with another opcode has the same fields.
LEMMA OtherOp ==
    ASSUME NEW i \in Instruction, NEW o, NEW j, j = [i EXCEPT !.op = o]
    PROVE  j.op = o /\ j.rd = i.rd /\ j.rs = i.rs /\ j.rt = i.rt /\ j.imm = i.imm /\ j.sa = i.sa
BY DEF Instruction

\* It enters its handler in the same state.
LEMMA OtherEnters ==
    ASSUME NEW s, NEW i \in Instruction, NEW M, NEW Z, Enters(s, i, M, Z), NEW o, NEW j, j = [i EXCEPT !.op = o]
    PROVE  Enters(s, j, M, Z) /\ ImmS(j) = ImmS(i)
BY OtherOp DEF Enters, Fits, Typing, Fields, ImmS

\* For a sign-extended register the sum of the signed low word is the sum.
LEMMA SignedSum ==
    ASSUME NEW a \in Double, IsWord(a), NEW k \in Int
    PROVE  Signed(Low(a)) \in Int /\ DoubleOf(Signed(Low(a)) + k) = DoubleOf(a + k)
<1> DEFINE x == Signed(Low(a))
           b == 2 ^ (2 * W)
<1>1. Low(a) \in Word /\ a = Sext(Low(a))
  BY Pairs, Extended
<1>2. x \in Int /\ a \in Int /\ x % b = a % b
  BY <1>1, SignedWords, Cut DEF DoubleOf
<1>3. b \in Nat \ {0}
  BY Widths
<1> HIDE DEF x, b
<1>4. PICK q \in Int : x = a + q * b
  BY <1>2, <1>3, Apart
<1>5. x + k \in Int /\ a + k \in Int /\ x + k = (a + k) + q * b
  <2>1. ASSUME NEW c \in Int, x = a + c
        PROVE  x + k \in Int /\ a + k \in Int /\ x + k = (a + k) + c
    BY <1>2, <2>1
  <2>2. q * b \in Int
    BY <1>3
  <2>3. QED
    BY <1>4, <2>1, <2>2
<1>6. (x + k) % b = (a + k) % b
  BY <1>3, <1>5, Congruent
<1>7. QED
  BY <1>2, <1>6 DEF x, b, DoubleOf

\* So the variants for 32-bit operands compute what the functions they stand for do.
LEMMA VariantSums ==
    ASSUME NEW a \in Double, IsWord(a)
    PROVE  /\ \A b \in Double : IsWord(b) => DoubleOf(Signed(Low(a)) + Signed(Low(b))) = DoubleOf(a + b)
           /\ \A k \in Int : DoubleOf(Signed(Low(a)) + k) = DoubleOf(a + k)
<1>1. \A k \in Int : DoubleOf(Signed(Low(a)) + k) = DoubleOf(a + k)
  BY SignedSum
<1>2. ASSUME NEW b \in Double, IsWord(b)
      PROVE  DoubleOf(Signed(Low(a)) + Signed(Low(b))) = DoubleOf(a + b)
  <2>1. a \in Int /\ b \in Int
    BY Cut
  <2>2. Signed(Low(a)) \in Int /\ Signed(Low(b)) \in Int
    BY <1>2, SignedSum
  <2>3. DoubleOf(Signed(Low(b)) + a) = DoubleOf(b + a)
    BY <1>2, <2>1, SignedSum
  <2>4. DoubleOf(Signed(Low(a)) + Signed(Low(b))) = DoubleOf(a + Signed(Low(b)))
    BY <1>1, <2>2
  <2>5. a + Signed(Low(b)) = Signed(Low(b)) + a /\ b + a = a + b
    BY <2>1, <2>2
  <2>6. QED
    BY <2>3, <2>4, <2>5
<1>3. QED
  BY <1>1, <1>2

\* dadd.
LEMMA DaddOn ==
    ASSUME NEW s, NEW M, NEW Z, NEW i \in Instruction, Enters(s, i, M, Z), i.rd # R0, Judges(s, i, M), i.op = "dadd"
    PROVE  On(dyna4300i_special_dadd(s, i), {}, Interpret(M, i), Z)
<1>1. PICK o : o = IF Both32(s, i) THEN "dadd_32bit" ELSE "dadd"
  OBVIOUS
<1>2. PICK j : j = [i EXCEPT !.op = o]
  OBVIOUS
<1>3. Enters(s, j, M, Z) /\ j.op = o /\ j.rd = i.rd /\ j.rs = i.rs /\ j.rt = i.rt
  BY <1>2, OtherOp, OtherEnters
<1>4. j.op \in CalledRD /\ i.op \in CalledRD
  BY <1>1, <1>3 DEF CalledRD
<1>5. On(INTERPRET(s, j), {}, Interpret(M, j), Z)
  BY <1>3, <1>4, CallRDOn
<1>6. M.gpr[i.rs] \in Double /\ M.gpr[i.rt] \in Double
  BY EntersFacts
<1>7. ValueRD(j, M.gpr[i.rs], M.gpr[i.rt]) = ValueRD(i, M.gpr[i.rs], M.gpr[i.rt])
  <2>1. CASE o = "dadd"
    BY <1>3, <2>1 DEF ValueRD
  <2>2. CASE o = "dadd_32bit"
    <3>1. IsWord(M.gpr[i.rs]) /\ IsWord(M.gpr[i.rt])
      BY <1>1, <2>2 DEF Judges, Both32
    <3>2. DoubleOf(Signed(Low(M.gpr[i.rs])) + Signed(Low(M.gpr[i.rt]))) = DoubleOf(M.gpr[i.rs] + M.gpr[i.rt])
      BY <1>6, <3>1, VariantSums
    <3>3. QED
      BY <1>3, <2>2, <3>2 DEF ValueRD
  <2>3. QED
    BY <1>1, <2>1, <2>2
<1>8. Interpret(M, j) = Interpret(M, i)
  BY <1>3, <1>4, <1>7, CalledRDIs
<1>9. dyna4300i_special_dadd(s, i) = INTERPRET(s, j)
  BY <1>1, <1>2 DEF dyna4300i_special_dadd
<1>10. QED
  BY <1>5, <1>8, <1>9

\* daddi and its variant compute a double word in rt,
LEMMA DaddiIs ==
    ASSUME NEW i, i.op \in {"daddi", "daddi_32bit"}, NEW m
    PROVE  Interpret(m, i) = Set(m, i.rt, IF i.op = "daddi" THEN DoubleOf(m.gpr[i.rs] + ImmS(i))
                                          ELSE DoubleOf(Signed(Low(m.gpr[i.rs])) + ImmS(i)))
<1>1. CASE i.op = "daddi"
  BY <1>1 DEF Interpret, r4300i_daddi, RS
<1>2. CASE i.op = "daddi_32bit"
  BY <1>2 DEF Interpret, r4300i_daddi_32bit, RS, lo
<1>3. QED
  BY <1>1, <1>2

\* and a call of either does so in the block.
LEMMA CallDaddiOn ==
    ASSUME NEW s, NEW M, NEW Z, NEW i, Enters(s, i, M, Z), i.rt # R0, i.op \in {"daddi", "daddi_32bit"}
    PROVE  On(INTERPRET(s, i), {}, Interpret(M, i), Z)
<1>1. /\ On(s, {}, M, Z) /\ i.rs \in Reg \ Z /\ i.rt \in Reg \ Z /\ M.gpr[i.rs] \in Double /\ ImmS(i) \in Int
  BY EntersFacts
<1>2. PICK t : t = FlushAllRegisters(s)
  OBVIOUS
<1>3. On(t, {}, M, Z) /\ Flat(t) /\ \A r \in Reg : r \notin Z \/ r = R0 => t.gpr[r] = M.gpr[r]
  BY <1>1, <1>2, FlatAll
<1>4. t.gpr[i.rs] = M.gpr[i.rs]
  BY <1>1, <1>3
<1>5. PICK v : v = IF i.op = "daddi" THEN DoubleOf(M.gpr[i.rs] + ImmS(i)) ELSE DoubleOf(Signed(Low(M.gpr[i.rs])) + ImmS(i))
  OBVIOUS
<1>6. v \in Double
  <2>1. M.gpr[i.rs] \in Int /\ Low(M.gpr[i.rs]) \in Word
    BY <1>1, Cut, Pairs
  <2>2. Signed(Low(M.gpr[i.rs])) \in Int
    BY <2>1, SignedInt
  <2>3. M.gpr[i.rs] + ImmS(i) \in Int /\ Signed(Low(M.gpr[i.rs])) + ImmS(i) \in Int
    BY <1>1, <2>1, <2>2
  <2>4. QED
    BY <1>5, <2>3, Cut
<1>7. Interpret(t, i) = Set(t, i.rt, v) /\ Interpret(M, i) = Set(M, i.rt, v)
  BY <1>4, <1>5, DaddiIs
<1>8. Call(t, i) = Interpret(t, i)
  BY DEF Call, InterpretAny, FloatOps, FloatLoads, FloatMoves, FloatBinary, FloatUnary, Methods
<1>9. INTERPRET(s, i) = Clobber(Call(t, i), {EAX, ECX, EDX})
  BY <1>2 DEF INTERPRET
<1>10. On(Set(t, i.rt, v), {}, Set(M, i.rt, v), Z) /\ Flat(Set(t, i.rt, v))
  BY <1>1, <1>3, <1>6, FlatSet
<1>11. QED
  BY <1>7, <1>8, <1>9, <1>10, FlatClobber

\* daddi.
LEMMA DaddiOn ==
    ASSUME NEW s, NEW M, NEW Z, NEW i \in Instruction, Enters(s, i, M, Z), i.rt # R0, CheckIs32Bit(s, i.rs) => IsWord(M.gpr[i.rs]), i.op = "daddi"
    PROVE  On(dyna4300i_daddi(s, i), {}, Interpret(M, i), Z)
<1>1. PICK o : o = IF CheckIs32Bit(s, i.rs) THEN "daddi_32bit" ELSE "daddi"
  OBVIOUS
<1>2. PICK j : j = [i EXCEPT !.op = o]
  OBVIOUS
<1>3. Enters(s, j, M, Z) /\ j.op = o /\ j.rs = i.rs /\ j.rt = i.rt /\ ImmS(j) = ImmS(i)
  BY <1>2, OtherOp, OtherEnters
<1>5. On(INTERPRET(s, j), {}, Interpret(M, j), Z)
  BY <1>1, <1>3, CallDaddiOn
<1>6. M.gpr[i.rs] \in Double /\ ImmS(i) \in Int
  BY EntersFacts
<1>7. Interpret(M, j) = Interpret(M, i)
  <2>1. CASE o = "daddi"
    BY <1>3, <2>1, DaddiIs
  <2>2. CASE o = "daddi_32bit"
    <3>1. IsWord(M.gpr[i.rs])
      BY <1>1, <2>2
    <3>2. DoubleOf(Signed(Low(M.gpr[i.rs])) + ImmS(i)) = DoubleOf(M.gpr[i.rs] + ImmS(i))
      BY <1>6, <3>1, VariantSums
    <3>3. Interpret(M, j) = Set(M, i.rt, DoubleOf(Signed(Low(M.gpr[i.rs])) + ImmS(i)))
      BY <1>3, <2>2, DaddiIs
    <3>4. Interpret(M, i) = Set(M, i.rt, DoubleOf(M.gpr[i.rs] + ImmS(i)))
      BY DaddiIs
    <3>5. QED
      BY <3>2, <3>3, <3>4
  <2>3. QED
    BY <1>1, <2>1, <2>2
<1>9. dyna4300i_daddi(s, i) = INTERPRET(s, j)
  BY <1>1, <1>2 DEF dyna4300i_daddi
<1>10. QED
  BY <1>5, <1>7, <1>9

\* A function of the interpreter gives LO and HI values.
LEMMA FlatHiLo ==
    ASSUME NEW t, NEW M, NEW Z, On(t, {}, M, Z), Flat(t), NEW h \in Double, NEW l \in Double
    PROVE  On(HiLo(t, h, l), {}, HiLo(M, h, l), Z) /\ Flat(HiLo(t, h, l))
<1>1. HI \in Reg /\ LO \in Reg /\ HI # R0 /\ LO # R0 /\ HI # LO
  BY MultiplierFacts, HostFacts DEF Reg
<1>2. PICK u, N : u = Set(t, HI, h) /\ N = Set(M, HI, h)
  OBVIOUS
<1>3. On(u, {}, N, Z) /\ Flat(u)
  BY <1>1, <1>2, FlatSet
<1>4. On(Set(u, LO, l), {}, Set(N, LO, l), Z) /\ Flat(Set(u, LO, l))
  BY <1>1, <1>3, FlatSet
<1>5. Typed(t) /\ Machine(M)
  BY DEF On, Good, Follows
<1>6. Set(u, LO, l) = HiLo(t, h, l)
  BY <1>2, <1>5 DEF Typed, Set, HiLo
<1>7. Set(N, LO, l) = HiLo(M, h, l)
  BY <1>2, <1>5 DEF Machine, Set, HiLo
<1>8. QED
  BY <1>4, <1>6, <1>7

\* A number is cut into a word and the number above it.
LEMMA CutNumber ==
    ASSUME NEW num \in Int
    PROVE  Low(num) \in Word /\ High(num) \in Int /\ Low(num) \in Int /\ num \div 2 ^ W \in Int
<1>1. 2 ^ W \in Nat \ {0}
  BY Widths
<1>2. num % 2 ^ W \in 0 .. 2 ^ W - 1 /\ num \div 2 ^ W \in Int
  BY <1>1, Division
<1>3. QED
  BY <1>1, <1>2 DEF Low, High, Word

\* Products and sums of numbers are numbers.
LEMMA Numbers ==
    ASSUME NEW a \in Int, NEW b \in Int
    PROVE  a * b \in Int /\ a + b \in Int
OBVIOUS

\* dmultu's product is two double words.
LEMMA ProductDouble ==
    ASSUME NEW x \in Int, NEW y \in Int
    PROVE  DmultHiLo(x, y).low \in Double /\ DmultHiLo(x, y).high \in Double
<1>1. PICK a, b, c, d : a = High(x) /\ b = Low(x) /\ c = High(y) /\ d = Low(y)
  OBVIOUS
<1>2. a \in Int /\ b \in Int /\ c \in Int /\ d \in Int
  BY <1>1, CutNumber
<1>3. PICK bd, bc, ad, ac : bd = b * d /\ bc = b * c /\ ad = a * d /\ ac = a * c
  OBVIOUS
<1>4. bd \in Int /\ bc \in Int /\ ad \in Int /\ ac \in Int
  BY <1>2, <1>3, Numbers
<1>5. PICK mid : mid = High(bd) + Low(bc)
  OBVIOUS
<1>6. mid \in Int
  BY <1>4, <1>5, CutNumber, Numbers
<1>7. PICK mid2 : mid2 = WordOf(mid) + Low(ad)
  OBVIOUS
<1>8. WordOf(mid) \in Int
  <2>1. WordOf(mid) \in Word
    BY <1>6, Cut
  <2>2. QED
    BY <2>1, Cut
<1>9. mid2 \in Int
  BY <1>4, <1>7, <1>8, CutNumber, Numbers
<1>10. PICK f, g : f = mid \div 2 ^ W + High(bc) /\ g = mid2 \div 2 ^ W + High(ad)
  OBVIOUS
<1>11. f \in Int /\ g \in Int
  BY <1>4, <1>6, <1>9, <1>10, CutNumber, Numbers
<1>12. High(ac) + (f + g) \in Int
  BY <1>4, <1>11, CutNumber, Numbers
<1>13. Low(bd) \in Word /\ Low(ac) \in Word /\ WordOf(mid2) \in Word /\ WordOf(High(ac) + (f + g)) \in Word
  BY <1>4, <1>9, <1>12, CutNumber, Cut
<1>14. DmultHiLo(x, y) = [low |-> Pair(Low(bd), WordOf(mid2)), high |-> Pair(Low(ac), WordOf(High(ac) + (f + g)))]
  BY <1>1, <1>3, <1>5, <1>7, <1>10 DEF DmultHiLo
<1>15. QED
  BY <1>13, <1>14, Pairs

\* The functions of the interpreter for the multiplier, with what they leave in HI and LO.
CalledHiLo == {"dmult", "dmultu", "ddiv", "ddivu"}
ProductHi(a, b) ==
    LET p == DmultHiLo(Abs(SignedD(a)), Abs(SignedD(b)))
    IN  IF NegativeD(a) = NegativeD(b) THEN p.high ELSE DoubleOf(NotD(p.high) + Bit(DoubleOf(NotD(p.low) + 1) = 0))
ProductLo(a, b) ==
    LET p == DmultHiLo(Abs(SignedD(a)), Abs(SignedD(b)))
    IN  IF NegativeD(a) = NegativeD(b) THEN p.low ELSE DoubleOf(NotD(p.low) + 1)
ValueHi(i, a, b) ==
    CASE i.op = "dmult" -> ProductHi(a, b)
      [] i.op = "dmultu" -> DmultHiLo(a, b).high
      [] i.op = "ddiv" -> DoubleOf(Rem(SignedD(a), SignedD(b)))
      [] i.op = "ddivu" -> DoubleOf(Rem(a, b))
ValueLo(i, a, b) ==
    CASE i.op = "dmult" -> ProductLo(a, b)
      [] i.op = "dmultu" -> DmultHiLo(a, b).low
      [] i.op = "ddiv" -> DoubleOf(Quot(SignedD(a), SignedD(b)))
      [] i.op = "ddivu" -> DoubleOf(Quot(a, b))

\* A divisor that is not zero is not zero as a signed quantity.
LEMMA SignedNonzero ==
    ASSUME NEW d \in Double, d # 0
    PROVE  SignedD(d) # 0
<1>1. 2 ^ (2 * W) \in Nat \ {0} /\ 2 ^ (2 * W - 1) \in Nat \ {0}
  <2>1. 2 * W \in 0 .. 2 * W /\ 2 * W - 1 \in 0 .. 2 * W
    BY PowerPositive
  <2>2. QED
    BY <2>1, PowerPositive
<1>2. d \in Int /\ d < 2 ^ (2 * W)
  BY <1>1 DEF Double
<1>3. QED
  BY <1>1, <1>2 DEF SignedD

\* They depend on the operands only,
LEMMA CalledHiLoIs ==
    ASSUME NEW i, i.op \in CalledHiLo, NEW m, m.gpr[i.rt] \in Double,
           i.op \in {"ddiv", "ddivu"} => m.gpr[i.rt] # 0
    PROVE  Interpret(m, i) = HiLo(m, ValueHi(i, m.gpr[i.rs], m.gpr[i.rt]), ValueLo(i, m.gpr[i.rs], m.gpr[i.rt]))
<1>1. CASE i.op = "dmult"
  <2>1. Interpret(m, i) = r4300i_dmult(m, i)
    BY <1>1 DEF Interpret
  <2>2. r4300i_dmult(m, i) = HiLo(m, ProductHi(m.gpr[i.rs], m.gpr[i.rt]), ProductLo(m.gpr[i.rs], m.gpr[i.rt]))
    BY DEF r4300i_dmult, ProductHi, ProductLo, RS, RT
  <2>3. QED
    BY <1>1, <2>1, <2>2 DEF ValueHi, ValueLo
<1>2. CASE i.op = "dmultu"
  <2>1. Interpret(m, i) = r4300i_dmultu(m, i)
    BY <1>2 DEF Interpret
  <2>2. QED
    BY <1>2, <2>1 DEF ValueHi, ValueLo, r4300i_dmultu, RS, RT
<1>3. CASE i.op = "ddiv"
  <2>1. Interpret(m, i) = r4300i_ddiv(m, i)
    BY <1>3 DEF Interpret
  <2>2. SignedD(m.gpr[i.rt]) # 0
    BY <1>3, SignedNonzero
  <2>3. QED
    BY <1>3, <2>1, <2>2 DEF ValueHi, ValueLo, r4300i_ddiv, Divided, RS, RT
<1>4. CASE i.op = "ddivu"
  <2>1. Interpret(m, i) = r4300i_ddivu(m, i)
    BY <1>4 DEF Interpret
  <2>2. m.gpr[i.rt] # 0
    BY <1>4
  <2>3. QED
    BY <1>4, <2>1, <2>2 DEF ValueHi, ValueLo, r4300i_ddivu, Divided, RS, RT
<1>5. QED
  BY <1>1, <1>2, <1>3, <1>4 DEF CalledHiLo

\* and are double words.
LEMMA ValueHiLoDouble ==
    ASSUME NEW i, i.op \in CalledHiLo, NEW a \in Double, NEW b \in Double, i.op \in {"ddiv", "ddivu"} => b # 0
    PROVE  ValueHi(i, a, b) \in Double /\ ValueLo(i, a, b) \in Double
<1>1. a \in Int /\ b \in Int /\ SignedD(a) \in Int /\ SignedD(b) \in Int
  BY Cut, SignedInt
<1>2. CASE i.op = "dmult"
  <2>1. PICK p : p = DmultHiLo(Abs(SignedD(a)), Abs(SignedD(b)))
    OBVIOUS
  <2>2. Abs(SignedD(a)) \in Int /\ Abs(SignedD(b)) \in Int
    BY <1>1 DEF Abs
  <2>3. p.low \in Double /\ p.high \in Double
    BY <2>1, <2>2, ProductDouble
  <2>4. NotD(p.low) \in Int /\ NotD(p.high) \in Int
    BY <2>3, SignedInt
  <2>5. \A c : Bit(c) \in Int
    BY DEF Bit
  <2>6. NotD(p.low) + 1 \in Int /\ NotD(p.high) + Bit(DoubleOf(NotD(p.low) + 1) = 0) \in Int
    BY <2>4, <2>5
  <2>7. DoubleOf(NotD(p.low) + 1) \in Double /\ DoubleOf(NotD(p.high) + Bit(DoubleOf(NotD(p.low) + 1) = 0)) \in Double
    BY <2>6, Cut
  <2>8. ProductHi(a, b) \in Double /\ ProductLo(a, b) \in Double
    BY <2>1, <2>3, <2>7 DEF ProductHi, ProductLo
  <2>9. QED
    BY <1>2, <2>8 DEF ValueHi, ValueLo
<1>3. CASE i.op = "dmultu"
  BY <1>1, <1>3, ProductDouble DEF ValueHi, ValueLo
<1>4. CASE i.op = "ddiv"
  <2>1. SignedD(b) # 0
    BY <1>4, SignedNonzero
  <2>2. Quot(SignedD(a), SignedD(b)) \in Int /\ Rem(SignedD(a), SignedD(b)) \in Int
    BY <1>1, <2>1, QuotientInt
  <2>3. QED
    BY <1>4, <2>2, Cut DEF ValueHi, ValueLo
<1>5. CASE i.op = "ddivu"
  <2>1. Quot(a, b) \in Int /\ Rem(a, b) \in Int
    BY <1>1, <1>5, QuotientInt
  <2>2. QED
    BY <1>5, <2>1, Cut DEF ValueHi, ValueLo
<1>6. QED
  BY <1>2, <1>3, <1>4, <1>5 DEF CalledHiLo

\* A call of such a function.
LEMMA CallHiLoOn ==
    ASSUME NEW s, NEW M, NEW Z, NEW i, Enters(s, i, M, Z), i.op \in CalledHiLo,
           i.op \in {"ddiv", "ddivu"} => M.gpr[i.rt] # 0
    PROVE  On(INTERPRET(s, i), {}, Interpret(M, i), Z)
<1>1. /\ On(s, {}, M, Z) /\ i.rs \in Reg \ Z /\ i.rt \in Reg \ Z
      /\ M.gpr[i.rs] \in Double /\ M.gpr[i.rt] \in Double
  BY EntersFacts
<1>2. PICK t : t = FlushAllRegisters(s)
  OBVIOUS
<1>3. On(t, {}, M, Z) /\ Flat(t) /\ \A r \in Reg : r \notin Z \/ r = R0 => t.gpr[r] = M.gpr[r]
  BY <1>1, <1>2, FlatAll
<1>4. t.gpr[i.rs] = M.gpr[i.rs] /\ t.gpr[i.rt] = M.gpr[i.rt]
  BY <1>1, <1>3
<1>5. PICK h, l : h = ValueHi(i, M.gpr[i.rs], M.gpr[i.rt]) /\ l = ValueLo(i, M.gpr[i.rs], M.gpr[i.rt])
  OBVIOUS
<1>6. h \in Double /\ l \in Double
  BY <1>1, <1>5, ValueHiLoDouble
<1>7. Interpret(t, i) = HiLo(t, h, l) /\ Interpret(M, i) = HiLo(M, h, l)
  BY <1>1, <1>4, <1>5, CalledHiLoIs
<1>8. Call(t, i) = Interpret(t, i)
  BY DEF Call, InterpretAny, CalledHiLo, FloatOps, FloatLoads, FloatMoves, FloatBinary, FloatUnary, Methods
<1>9. INTERPRET(s, i) = Clobber(Call(t, i), {EAX, ECX, EDX})
  BY <1>2 DEF INTERPRET
<1>10. On(HiLo(t, h, l), {}, HiLo(M, h, l), Z) /\ Flat(HiLo(t, h, l))
  BY <1>3, <1>6, FlatHiLo
<1>11. QED
  BY <1>7, <1>8, <1>9, <1>10, FlatClobber

\* ddiv and ddivu.
LEMMA DdivOn ==
    ASSUME NEW s, NEW M, NEW Z, NEW i \in Instruction, Enters(s, i, M, Z), i.op \in {"ddiv", "ddivu"},
           M.gpr[i.rt] # 0, Both32(s, i) => Low(M.gpr[i.rt]) # 0,
           Both32(s, i) => Interpret(M, i) = Interpret(M, [i EXCEPT !.op = IF @ = "ddiv" THEN "div" ELSE "divu"])
    PROVE  On(dyna4300i_special_ddiv(s, i), {}, Interpret(M, i), Z)
<1>1. CASE ~Both32(s, i)
  <2>1. dyna4300i_special_ddiv(s, i) = INTERPRET(s, i)
    BY <1>1 DEF dyna4300i_special_ddiv
  <2>2. QED
    BY <2>1, CallHiLoOn DEF CalledHiLo
<1>2. CASE Both32(s, i)
  <2>1. PICK o, j : o = (IF i.op = "ddiv" THEN "div" ELSE "divu") /\ j = [i EXCEPT !.op = o]
    OBVIOUS
  <2>2. Enters(s, j, M, Z) /\ j.op = o /\ j.rs = i.rs /\ j.rt = i.rt
    BY <2>1, OtherOp, OtherEnters
  <2>3. Low(M.gpr[i.rt]) # 0
    BY <1>2
  <2>4. i.rs \in Gpr \cup {R0} /\ i.rt \in Gpr \cup {R0}
    BY DEF Instruction
  <2>5. On(dyna4300i_special_div(s, j), {}, Interpret(M, j), Z)
    <3>1. /\ j.op = "div" => On(dyna4300i_special_div(s, j), {}, r4300i_div(M, j), Z)
          /\ j.op = "divu" => On(dyna4300i_special_div(s, j), {}, r4300i_divu(M, j), Z)
      BY <2>2, <2>3, <2>4, DivOn
    <3>2. /\ j.op = "div" => Interpret(M, j) = r4300i_div(M, j)
          /\ j.op = "divu" => Interpret(M, j) = r4300i_divu(M, j)
      BY DEF Interpret
    <3>3. j.op \in {"div", "divu"}
      BY <2>1, <2>2
    <3>4. QED
      BY <3>1, <3>2, <3>3
  <2>6. Interpret(M, j) = Interpret(M, i)
    BY <1>2, <2>1
  <2>7. dyna4300i_special_ddiv(s, i) = dyna4300i_special_div(s, j)
    BY <1>2, <2>1 DEF dyna4300i_special_ddiv
  <2>8. QED
    BY <2>5, <2>6, <2>7
<1>3. QED
  BY <1>1, <1>2

\* A register neither known nor taken to be a sign-extended word.
Wide(s, r) ==
    /\ ~s.flushed[r] /\ s.const[r] = NoConst
    /\ \A k \in Host : s.map[k].mips = r => ~s.map[k].is32

\* That is one that is not narrow.
LEMMA WideIs ==
    ASSUME NEW s, NEW p, Good(s, p), NEW r \in Reg, ~Narrow(s, r)
    PROVE  Wide(s, r)
<1>1. Consistent(s.map, s.const)
  BY DEF Good
<1>2. ~s.flushed[r] /\ s.const[r] = NoConst /\ (Where(s, r) # None => ~s.map[Where(s, r)].is32)
  BY DEF Narrow, CheckIs32Bit, IsConst
<1>3. None \notin Host
  BY HostFacts
<1>4. \A k \in Host : s.map[k].mips = r => Where(s, r) = k
  BY <1>1, WhereIs
<1>5. QED
  BY <1>2, <1>3, <1>4 DEF Wide

\* It stays so when registers are taken away,
LEMMA WideLess ==
    ASSUME NEW s, NEW r \in Reg, Wide(s, r), NEW t, Less(s, t, Reg), t.flushed[r] = FALSE \/ t.flushed[r] = s.flushed[r]
    PROVE  Wide(t, r)
<1>1. Unused \notin Reg
  BY MarkFacts
<1>2. \A k \in Host : t.map[k].mips = r => t.map[k] = s.map[k]
  BY <1>1 DEF Less
<1>3. t.const[r] = NoConst
  BY DEF Less, Wide
<1>4. ~t.flushed[r]
  BY DEF Wide
<1>5. QED
  BY <1>2, <1>3, <1>4 DEF Wide

\* when a constant is written back,
LEMMA FlushOneWide ==
    ASSUME NEW s, NEW p, NEW M, NEW Z, On(s, p, M, Z), NEW r \in Reg, r # R0, Wide(s, r), NEW q \in Reg,
           NEW t, t = FlushOneConstant(s, q)
    PROVE  Wide(t, r)
<1>1. Good(s, p) /\ Typed(s) /\ Image(s) /\ Consistent(s.map, s.const)
  BY DEF On, Good, Follows
<1>2. Less(s, t, Reg)
  BY FlushOneOn
<1>3. CASE q = R0 \/ ~IsConst(s, q)
  BY <1>3 DEF FlushOneConstant
<1>4. CASE q # R0 /\ IsConst(s, q)
  <2>1. q # r
    BY <1>4 DEF Wide, IsConst
  <2>2. \A k \in Host : s.map[k].mips # q
    BY <1>1, <1>4 DEF Consistent, IsConst
  <2>3. Where(s, q) = None
    BY <1>1, <2>2, WhereIs
  <2>4. t = [s EXCEPT !.gpr[q] = Sext(s.const[q]), !.const[q] = NoConst, !.flushed[q] = TRUE]
    BY <1>4, <2>3 DEF FlushOneConstant, Drop
  <2>5. t.flushed = [s.flushed EXCEPT ![q] = TRUE]
    BY <1>1, <2>4 DEF Typed
  <2>6. t.flushed[r] = s.flushed[r]
    BY <1>1, <2>1, <2>5 DEF Image
  <2>7. QED
    BY <1>2, <2>6, WideLess
<1>5. QED
  BY <1>3, <1>4

\* and when a mapped register is.
LEMMA WriteBackWideStays ==
    ASSUME NEW s, NEW p, NEW M, NEW Z, On(s, p, M, Z), NEW r \in Reg, r # R0, Wide(s, r), NEW q \in Reg,
           NEW t, t = WriteBack(s, q)
    PROVE  Wide(t, r)
<1>1. Good(s, p) /\ Typed(s) /\ Image(s) /\ Consistent(s.map, s.const)
  BY DEF On, Good, Follows
<1>2. Less(s, t, Reg)
  BY WriteBackOn
<1>3. CASE Where(s, q) = None
  BY <1>3 DEF WriteBack
<1>4. CASE Where(s, q) # None
  <2>1. PICK k : k = Where(s, q)
    OBVIOUS
  <2>2. k \in Host /\ s.map[k].mips = q
    BY <1>1, <1>4, <2>1, WhereIs
  <2>3. t = FlushRegister(s, k)
    BY <1>4, <2>1 DEF WriteBack
  <2>4. s.map[k].hi \in Host /\ (s.map[k].is32 <=> s.map[k].hi = k)
    BY <1>1, <2>2 DEF Consistent
  <2>5. Contents(IF s.map[k].dirty /\ s.map[k].mips # R0 THEN WriteBackDirty(s, k) ELSE s, t)
    BY <1>1, <2>2, <2>3, <2>4, FlushContents
  <2>6. t.flushed[r] = FALSE \/ t.flushed[r] = s.flushed[r]
    <3>1. CASE ~(s.map[k].dirty /\ s.map[k].mips # R0)
      BY <2>5, <3>1 DEF Contents
    <3>2. CASE s.map[k].dirty /\ s.map[k].mips # R0 /\ s.map[k].hi = k
      <4>1. q # r
        BY <2>2, <2>4, <3>2 DEF Wide
      <4>2. t.flushed = [s.flushed EXCEPT ![s.map[k].mips] = TRUE]
        <5>1. Contents(WriteBackDirty(s, k), t) /\ s.map[k].hi = k
          BY <2>5, <3>2
        <5>2. QED
          BY <1>1, <5>1, WriteBackNarrow
      <4>3. QED
        BY <1>1, <2>2, <4>1, <4>2 DEF Image
    <3>3. CASE s.map[k].dirty /\ s.map[k].mips # R0 /\ s.map[k].hi # k
      <4>1. t.flushed = [s.flushed EXCEPT ![s.map[k].mips] = FALSE]
        <5>1. Contents(WriteBackDirty(s, k), t) /\ s.map[k].hi # k
          BY <2>5, <3>3
        <5>2. QED
          BY <1>1, <5>1, WriteBackWide
      <4>3. QED
        BY <1>1, <2>2, <4>1 DEF Image
    <3>4. QED
      BY <3>1, <3>2, <3>3
  <2>7. QED
    BY <1>2, <2>6, WideLess
<1>5. QED
  BY <1>3, <1>4

\* What INTERPRET_LOADSTORE prepares for the function it calls.
Prepared(t, i, M, Z) ==
    On(t, {}, M, Z) /\ InMemory(t, i.rs) /\ InMemory(t, i.rt) /\ Saved(t, EAX) /\ Saved(t, ECX) /\ Saved(t, EDX)

\* The three host registers are saved.
LEMMA PushMapOn ==
    ASSUME NEW s, NEW M, NEW Z, On(s, {}, M, Z), NEW t, t = PushMap(s)
    PROVE  /\ On(t, {}, M, Z) /\ Saved(t, EAX) /\ Saved(t, ECX) /\ Saved(t, EDX) /\ t.flushed = s.flushed
           /\ Less(s, t, Reg) /\ \A r \in Reg : InMemory(s, r) => InMemory(t, r)
<1>1. PICK a, b : a = PushIfMapped(s, EAX) /\ b = PushIfMapped(a, ECX)
  OBVIOUS
<1>2. t = PushIfMapped(b, EDX)
  BY <1>1 DEF PushMap
<1>3. EAX \in Host /\ ECX \in Host /\ EDX \in Host
  BY HostFacts
<1>4. On(a, {}, M, Z) /\ Carries(s, a) /\ Saved(a, EAX)
  BY <1>1, <1>3, PushOn
<1>5. On(b, {}, M, Z) /\ Carries(a, b) /\ Saved(b, ECX) /\ Saved(b, EAX)
  BY <1>1, <1>3, <1>4, PushOn
<1>6. On(t, {}, M, Z) /\ Carries(b, t) /\ Saved(t, EDX) /\ Saved(t, ECX) /\ Saved(t, EAX)
  BY <1>2, <1>3, <1>5, PushOn
<1>7. t.flushed = s.flushed
  BY <1>4, <1>5, <1>6 DEF Carries
<1>8. Less(s, a, Reg) /\ Less(a, b, Reg) /\ Less(b, t, Reg)
  BY <1>4, <1>5, <1>6 DEF Carries
<1>9. Less(s, t, Reg)
  BY <1>8, LessTwice
<1>10. QED
  BY <1>6, <1>7, <1>9, InMemoryLess

\* The operands are in memory, and a register that is neither stays wide.
LEMMA PreparedOn ==
    ASSUME NEW s, NEW M, NEW Z, On(s, {}, M, Z), NEW i, Fields(i), NEW t, t = PushMap(FlushOperands(s, i))
    PROVE  Prepared(t, i, M, Z) /\ \A r \in Reg \ {R0} : t.flushed[r] => Narrow(s, r)
<1>1. PICK a, b, c, d : /\ a = FlushOneConstant(s, i.rs) /\ b = FlushOneConstant(a, i.rt)
                        /\ c = WriteBack(b, i.rs) /\ d = WriteBack(c, i.rt)
  OBVIOUS
<1>2. d = FlushOperands(s, i) /\ t = PushMap(d) /\ i.rs \in Reg /\ i.rt \in Reg
  BY <1>1 DEF FlushOperands, Fields
<1>3. On(d, {}, M, Z) /\ InMemory(d, i.rs) /\ InMemory(d, i.rt)
  BY <1>2, FlushOperandsOn
<1>4. /\ On(t, {}, M, Z) /\ Saved(t, EAX) /\ Saved(t, ECX) /\ Saved(t, EDX) /\ t.flushed = d.flushed
      /\ \A r \in Reg : InMemory(d, r) => InMemory(t, r)
  BY <1>2, <1>3, PushMapOn
<1>5. Prepared(t, i, M, Z)
  BY <1>2, <1>3, <1>4 DEF Prepared
<1>6. On(a, {}, M, Z) /\ On(b, {}, M, Z) /\ On(c, {}, M, Z)
  <2>1. On(a, {}, M, Z)
    BY <1>1, <1>2, FlushOneOn
  <2>2. On(b, {}, M, Z)
    BY <1>1, <1>2, <2>1, FlushOneOn
  <2>3. On(c, {}, M, Z)
    BY <1>1, <1>2, <2>2, WriteBackOn
  <2>4. QED
    BY <2>1, <2>2, <2>3
<1>7. ASSUME NEW r \in Reg \ {R0}, ~Narrow(s, r)
      PROVE  ~t.flushed[r]
  <2>1. Wide(s, r)
    BY <1>7, WideIs DEF On
  <2>2. Wide(a, r)
    BY <1>1, <1>2, <2>1, FlushOneWide
  <2>3. Wide(b, r)
    BY <1>1, <1>2, <1>6, <2>2, FlushOneWide
  <2>4. Wide(c, r)
    BY <1>1, <1>2, <1>6, <2>3, WriteBackWideStays
  <2>5. Wide(d, r)
    BY <1>1, <1>2, <1>6, <2>4, WriteBackWideStays
  <2>6. QED
    BY <1>4, <2>5 DEF Wide
<1>8. QED
  BY <1>5, <1>7

\* The unaligned loads, and lwu, with the value they leave in rt,
CalledLoads == {"lwu", "lwl", "lwr", "ldl", "ldr"}
Place(i, a) == WordOf(Low(a) + ImmS(i))
ValueRT(i, a, b) ==
    CASE i.op = "lwu" -> Memory[Place(i, a)]
      [] i.op = "lwl" -> Sext(Merge(Place(i, a), WordAt(Place(i, a)), Low(b), TRUE))
      [] i.op = "lwr" -> Sext(Merge(Place(i, a), WordAt(Place(i, a)), Low(b), FALSE))
      [] i.op = "ldl" -> IF Aligned(Place(i, a)) THEN DoubleAt(Place(i, a)) ELSE Pair(Low(b), Memory[Place(i, a)])
      [] i.op = "ldr" -> IF Aligned(Place(i, a)) THEN Pair(Memory[Place(i, a)], High(b)) ELSE DoubleAt(Place(i, a))

\* which depends on the operands only.
LEMMA CalledLoadIs ==
    ASSUME NEW i, i.op \in CalledLoads, NEW m
    PROVE  Interpret(m, i) = Set(m, i.rt, ValueRT(i, m.gpr[i.rs], m.gpr[i.rt]))
<1>0. Address(m, i) = Place(i, m.gpr[i.rs])
  BY DEF Address, Place, RS, lo
<1>1. CASE i.op = "lwu"
  BY <1>0, <1>1 DEF Interpret, ValueRT, r4300i_lwu
<1>2. CASE i.op = "lwl"
  BY <1>0, <1>2 DEF Interpret, ValueRT, r4300i_lwl, RT, lo
<1>3. CASE i.op = "lwr"
  BY <1>0, <1>3 DEF Interpret, ValueRT, r4300i_lwr, RT, lo
<1>4. CASE i.op = "ldl"
  BY <1>0, <1>4 DEF Interpret, ValueRT, r4300i_ldl, RT, lo
<1>5. CASE i.op = "ldr"
  BY <1>0, <1>5 DEF Interpret, ValueRT, r4300i_ldr, RT
<1>6. QED
  BY <1>1, <1>2, <1>3, <1>4, <1>5 DEF CalledLoads

\* Words are merged from halves.
LEMMA Merged ==
    ASSUME NEW a \in Word, NEW w \in Word, NEW old \in Word, NEW left
    PROVE  Merge(a, w, old, left) \in Word /\ a - (a % 2) \in Word
<1> DEFINE h == 2 ^ Half
<1>1. h \in Nat \ {0} /\ 2 ^ W = h * h /\ 2 ^ W \in Nat \ {0}
  BY Widths
<1>2. Word = 0 .. h * h - 1
  BY <1>1 DEF Word
<1> HIDE DEF h
<1>3. \A x \in 0 .. h * h - 1 : x % h \in 0 .. h - 1 /\ x \div h \in 0 .. h - 1
  BY <1>1, DigitsOf
<1>4. \A x, y \in 0 .. h - 1 : x * h + y \in 0 .. h * h - 1
  BY <1>1, Digits
<1>5. (w % h) * h + (old % h) \in Word /\ (old \div h) * h + (w \div h) \in Word
  BY <1>2, <1>3, <1>4
<1>6. LowHalf(w) * h + LowHalf(old) \in Word /\ HighHalf(old) * h + HighHalf(w) \in Word
  BY <1>5 DEF LowHalf, HighHalf, h
<1>7. Merge(a, w, old, left) \in Word
  BY <1>6 DEF Merge, h
<1>8. a - (a % 2) \in Word
  <2>1. a \in Nat /\ a <= 2 ^ W - 1
    BY <1>1 DEF Word
  <2>2. a % 2 \in 0 .. 1 /\ a = 2 * (a \div 2) + (a % 2) /\ a \div 2 \in Int
    BY <2>1, Division
  <2>3. a - (a % 2) >= 0
    BY <2>1, <2>2
  <2>4. QED
    BY <1>1, <2>1, <2>2, <2>3 DEF Word
<1>9. QED
  BY <1>7, <1>8

\* The value is a double word; of lwl and lwr it is a sign-extended word.
LEMMA CalledLoadDouble ==
    ASSUME NEW i, i.op \in CalledLoads, ImmS(i) \in Int, NEW a \in Double, NEW b \in Double
    PROVE  ValueRT(i, a, b) \in Double /\ (i.op \in {"lwl", "lwr"} => IsWord(ValueRT(i, a, b)))
<1>1. Low(a) \in Word /\ Low(b) \in Word /\ High(b) \in Word
  BY Pairs
<1>2. PICK x : x = Place(i, a)
  OBVIOUS
<1>3. x \in Word
  <2>1. Low(a) \in Int
    BY <1>1, Cut
  <2>2. Low(a) + ImmS(i) \in Int
    BY <2>1
  <2>3. QED
    BY <1>2, <2>2, Cut DEF Place
<1>4. x - (x % 2) \in Word
  BY <1>1, <1>3, Merged
<1>5. Memory[x] \in Word /\ WordAt(x) \in Word /\ DoubleAt(x) \in Double
  BY <1>3, <1>4, MemoryWords DEF WordAt, DoubleAt
<1>6. Memory[x] \in Double
  BY <1>5, Signs
<1>7. CASE i.op = "lwu"
  BY <1>2, <1>6, <1>7 DEF ValueRT
<1>8. CASE i.op \in {"lwl", "lwr"}
  <2>1. PICK w \in Word : ValueRT(i, a, b) = Sext(w)
    <3>1. Merge(x, WordAt(x), Low(b), TRUE) \in Word /\ Merge(x, WordAt(x), Low(b), FALSE) \in Word
      BY <1>1, <1>3, <1>5, Merged
    <3>2. QED
      BY <1>2, <1>8, <3>1 DEF ValueRT
  <2>2. QED
    BY <1>8, <2>1, Extended
<1>9. CASE i.op \in {"ldl", "ldr"}
  <2>1. Pair(Low(b), Memory[x]) \in Double /\ Pair(Memory[x], High(b)) \in Double
    BY <1>1, <1>5, Pairs
  <2>2. QED
    BY <1>2, <1>5, <1>9, <2>1 DEF ValueRT
<1>10. QED
  BY <1>7, <1>8, <1>9 DEF CalledLoads

\* A call of such a load.  The sign flag of rt survives it: where the block takes rt
\* for a sign-extended word, the result must be one.
LEMMA CallLoadOn ==
    ASSUME NEW s, NEW M, NEW Z, NEW i, Enters(s, i, M, Z), i.rt # R0, i.op \in CalledLoads,
           i.op \in {"lwu", "ldl", "ldr"} /\ Narrow(s, i.rt) => IsWord(Result(M, i, i.rt))
    PROVE  On(INTERPRET_LOADSTORE(s, i), {}, Interpret(M, i), Z)
<1>1. /\ On(s, {}, M, Z) /\ i.rs \in Reg \ Z /\ i.rt \in Reg \ Z /\ Fields(i) /\ ImmS(i) \in Int
      /\ M.gpr[i.rs] \in Double /\ M.gpr[i.rt] \in Double /\ Machine(M)
  BY EntersFacts
<1>2. PICK t : t = PushMap(FlushOperands(s, i))
  OBVIOUS
<1>3. Prepared(t, i, M, Z) /\ \A r \in Reg \ {R0} : t.flushed[r] => Narrow(s, r)
  BY <1>1, <1>2, PreparedOn
<1>4. /\ On(t, {}, M, Z) /\ InMemory(t, i.rs) /\ InMemory(t, i.rt)
      /\ Saved(t, EAX) /\ Saved(t, ECX) /\ Saved(t, EDX)
  BY <1>3 DEF Prepared
<1>5. t.gpr[i.rs] = M.gpr[i.rs] /\ t.gpr[i.rt] = M.gpr[i.rt]
  BY <1>1, <1>4, InMemoryValue
<1>6. PICK v : v = ValueRT(i, M.gpr[i.rs], M.gpr[i.rt])
  OBVIOUS
<1>7. v \in Double /\ (i.op \in {"lwl", "lwr"} => IsWord(v))
  BY <1>1, <1>6, CalledLoadDouble
<1>8. Interpret(t, i) = Set(t, i.rt, v) /\ Interpret(M, i) = Set(M, i.rt, v)
  BY <1>5, <1>6, CalledLoadIs
<1>9. Result(M, i, i.rt) = v
  BY <1>1, <1>8 DEF Result, Set, Machine
<1>10. t.flushed[i.rt] => IsWord(v)
  BY <1>1, <1>3, <1>7, <1>9 DEF CalledLoads
<1>11. Call(t, i) = Interpret(t, i)
  BY DEF Call, InterpretAny, CalledLoads, FloatOps, FloatLoads, FloatMoves, FloatBinary, FloatUnary, Methods
<1>12. PICK u : u = Set(t, i.rt, v)
  OBVIOUS
<1>13. On(u, {}, Set(M, i.rt, v), Z) /\ \A k \in Host : Saved(t, k) => Saved(u, k)
  BY <1>1, <1>4, <1>7, <1>10, <1>12, MemorySet
<1>14. Saved(u, EAX) /\ Saved(u, ECX) /\ Saved(u, EDX)
  BY <1>4, <1>13, HostFacts
<1>15. INTERPRET_LOADSTORE(s, i) = PopMap(Clobber(u, {EAX, ECX, EDX}))
  BY <1>2, <1>8, <1>11, <1>12 DEF INTERPRET_LOADSTORE
<1>16. QED
  BY <1>8, <1>13, <1>14, <1>15, AroundThree

\* The unaligned stores, with what they store,
CalledStores == {"swl", "swr", "sdl", "sdr"}
StoredBy(i, a, b) ==
    CASE i.op = "swl" -> <<"left", IF Aligned(Place(i, a)) THEN Low(b) ELSE HighHalf(Low(b))>>
      [] i.op = "swr" -> <<"right", IF Aligned(Place(i, a)) THEN LowHalf(Low(b)) ELSE Low(b)>>
      [] i.op = "sdl" -> <<"left", IF Aligned(Place(i, a)) THEN b ELSE High(b)>>
      [] i.op = "sdr" -> <<"right", IF Aligned(Place(i, a)) THEN Low(b) ELSE b>>

\* which depends on the operands only.
LEMMA CalledStoreIs ==
    ASSUME NEW i, i.op \in CalledStores, NEW m, NEW a, a = m.gpr[i.rs], NEW b, b = m.gpr[i.rt]
    PROVE  Interpret(m, i) = Store(m, StoredBy(i, a, b)[1], Place(i, a), StoredBy(i, a, b)[2])
<1>0. Address(m, i) = Place(i, a)
  BY DEF Address, Place, RS, lo
<1>1. CASE i.op = "swl"
  BY <1>0, <1>1 DEF Interpret, StoredBy, r4300i_swl, RT, lo
<1>2. CASE i.op = "swr"
  BY <1>0, <1>2 DEF Interpret, StoredBy, r4300i_swr, RT, lo
<1>3. CASE i.op = "sdl"
  BY <1>0, <1>3 DEF Interpret, StoredBy, r4300i_sdl, RT, lo
<1>4. CASE i.op = "sdr"
  BY <1>0, <1>4 DEF Interpret, StoredBy, r4300i_sdr, RT, lo
<1>5. QED
  BY <1>1, <1>2, <1>3, <1>4 DEF CalledStores

\* A call of such a store,
LEMMA CallStoreOn ==
    ASSUME NEW s, NEW M, NEW Z, NEW i, Enters(s, i, M, Z), i.op \in CalledStores
    PROVE  On(INTERPRET_LOADSTORE(s, i), {}, Interpret(M, i), Z)
<1>1. On(s, {}, M, Z) /\ i.rs \in Reg \ Z /\ i.rt \in Reg \ Z /\ Fields(i)
  BY EntersFacts
<1>2. PICK t : t = PushMap(FlushOperands(s, i))
  OBVIOUS
<1>3. Prepared(t, i, M, Z)
  BY <1>1, <1>2, PreparedOn
<1>4. /\ On(t, {}, M, Z) /\ InMemory(t, i.rs) /\ InMemory(t, i.rt)
      /\ Saved(t, EAX) /\ Saved(t, ECX) /\ Saved(t, EDX)
  BY <1>3 DEF Prepared
<1>5. PICK a, b : a = M.gpr[i.rs] /\ b = M.gpr[i.rt]
  OBVIOUS
<1>6. t.gpr[i.rs] = a /\ t.gpr[i.rt] = b
  BY <1>1, <1>4, <1>5, InMemoryValue
<1>7. PICK size, x, d : size = StoredBy(i, a, b)[1] /\ x = Place(i, a) /\ d = StoredBy(i, a, b)[2]
  OBVIOUS
<1>8. Interpret(t, i) = Store(t, size, x, d) /\ Interpret(M, i) = Store(M, size, x, d)
  <2>1. Interpret(t, i) = Store(t, StoredBy(i, a, b)[1], Place(i, a), StoredBy(i, a, b)[2])
    BY <1>6, CalledStoreIs
  <2>2. Interpret(M, i) = Store(M, StoredBy(i, a, b)[1], Place(i, a), StoredBy(i, a, b)[2])
    BY <1>5, CalledStoreIs
  <2>3. QED
    BY <1>7, <2>1, <2>2
<1>9. Call(t, i) = Interpret(t, i)
  BY DEF Call, InterpretAny, CalledStores, FloatOps, FloatLoads, FloatMoves, FloatBinary, FloatUnary, Methods
<1>10. PICK u : u = Store(t, size, x, d)
  OBVIOUS
<1>11. On(u, {}, Store(M, size, x, d), Z) /\ \A k \in Host : Saved(t, k) => Saved(u, k)
  BY <1>4, <1>10, StoreOn
<1>12. Saved(u, EAX) /\ Saved(u, ECX) /\ Saved(u, EDX)
  BY <1>4, <1>11, HostFacts
<1>13. INTERPRET_LOADSTORE(s, i) = PopMap(Clobber(u, {EAX, ECX, EDX}))
  BY <1>2, <1>8, <1>9, <1>10 DEF INTERPRET_LOADSTORE
<1>14. QED
  BY <1>8, <1>11, <1>12, <1>13, AroundThree

\* and of sc, which leaves the link bit in rt.
LEMMA CallScOn ==
    ASSUME NEW s, NEW M, NEW Z, NEW i, Enters(s, i, M, Z), i.op = "sc", i.rt # R0, i.sa \in {0, 1}
    PROVE  On(INTERPRET_LOADSTORE(s, i), {}, Interpret(M, i), Z)
<1>1. On(s, {}, M, Z) /\ i.rs \in Reg \ Z /\ i.rt \in Reg \ Z /\ Fields(i)
  BY EntersFacts
<1>2. PICK t : t = PushMap(FlushOperands(s, i))
  OBVIOUS
<1>3. Prepared(t, i, M, Z)
  BY <1>1, <1>2, PreparedOn
<1>4. /\ On(t, {}, M, Z) /\ InMemory(t, i.rs) /\ InMemory(t, i.rt)
      /\ Saved(t, EAX) /\ Saved(t, ECX) /\ Saved(t, EDX)
  BY <1>3 DEF Prepared
<1>5. t.gpr[i.rs] = M.gpr[i.rs] /\ t.gpr[i.rt] = M.gpr[i.rt]
  BY <1>1, <1>4, InMemoryValue
<1>6. PICK x, d : x = Place(i, M.gpr[i.rs]) /\ d = Low(M.gpr[i.rt])
  OBVIOUS
<1>7. PICK u, N : u = (IF i.sa = 1 THEN Store(t, "word", x, d) ELSE t) /\ N = (IF i.sa = 1 THEN Store(M, "word", x, d) ELSE M)
  OBVIOUS
<1>8. Interpret(t, i) = Set(u, i.rt, i.sa) /\ Interpret(M, i) = Set(N, i.rt, i.sa)
  BY <1>5, <1>6, <1>7 DEF Interpret, r4300i_sc, Address, Place, RS, RT, lo
<1>9. On(u, {}, N, Z) /\ \A k \in Host : Saved(t, k) => Saved(u, k)
  <2>1. CASE i.sa = 1
    BY <1>4, <1>7, <2>1, StoreOn
  <2>2. CASE i.sa # 1
    BY <1>4, <1>7, <2>2
  <2>3. QED
    BY <2>1, <2>2
<1>10. InMemory(u, i.rt)
  <2>1. Typed(t)
    BY <1>4 DEF On, Good
  <2>2. u.map = t.map /\ u.const = t.const
    BY <1>7, <2>1 DEF Typed, Store
  <2>3. QED
    BY <1>4, <2>2 DEF InMemory
<1>11. i.sa \in Double /\ IsWord(i.sa)
  <2>1. Bit(TRUE) = 1 /\ Bit(FALSE) = 0
    BY DEF Bit
  <2>2. 1 \in Word /\ 0 \in Word /\ Sext(1) = 1 /\ Sext(0) = 0
    BY <2>1, Halves
  <2>3. PICK w \in Word : i.sa = Sext(w)
    BY <2>2
  <2>4. QED
    BY <2>3, Extended
<1>12. PICK v : v = Set(u, i.rt, i.sa)
  OBVIOUS
<1>13. On(v, {}, Set(N, i.rt, i.sa), Z) /\ \A k \in Host : Saved(u, k) => Saved(v, k)
  BY <1>1, <1>9, <1>10, <1>11, <1>12, MemorySet
<1>14. Saved(v, EAX) /\ Saved(v, ECX) /\ Saved(v, EDX)
  BY <1>4, <1>9, <1>13, HostFacts
<1>15. Call(t, i) = Interpret(t, i)
  BY DEF Call, InterpretAny, FloatOps, FloatLoads, FloatMoves, FloatBinary, FloatUnary, Methods
<1>16. INTERPRET_LOADSTORE(s, i) = PopMap(Clobber(v, {EAX, ECX, EDX}))
  BY <1>2, <1>8, <1>12, <1>15 DEF INTERPRET_LOADSTORE
<1>17. QED
  BY <1>8, <1>13, <1>14, <1>16, AroundThree

-------------------------------------------------------------------------------
(* The integer instructions                                                  *)

\* What a handler asks of the tables: the constants, the registers known to be
\* 32-bit, and those last written back as such.
SameView(s, t) ==
    \A r \in Reg : /\ t.const[r] = s.const[r] /\ t.flushed[r] = s.flushed[r]
                   /\ CheckIs32Bit(t, r) = CheckIs32Bit(s, r)

\* r0 gives up its host register without a change of what is asked,
LEMMA InitView ==
    ASSUME NEW s, NEW p, NEW M, NEW Z, On(s, p, M, Z)
    PROVE  SameView(s, MapConst(s, R0, 0))
<1>1. Good(s, p) /\ Typed(s) /\ Consistent(s.map, s.const) /\ s.const[R0] = 0 /\ s.errors = {} /\ R0 \in Reg
  BY MarkFacts DEF On, Good, Consistent
<1>2. s.const \in [Reg -> Word \cup {NoConst}]
  BY DEF On, Follows, Image
<1>3. [s EXCEPT !.const[R0] = 0] = s
  <2>1. [s.const EXCEPT ![R0] = 0] = s.const
    BY <1>1, <1>2
  <2>2. QED
    BY <1>1, <2>1 DEF Typed
<1>4. PICK t : t = MapConst(s, R0, 0)
  OBVIOUS
<1>5. t = Drop(s, Where(s, R0))
  BY <1>3, <1>4 DEF MapConst
<1>6. /\ Good(t, p) /\ t.const = s.const
      /\ \A k \in Host : t.map[k] = s.map[k] \/ t.map[k].mips = Unused
      /\ \A k \in Host : s.map[k].mips \in Reg \ {R0} => t.map[k] = s.map[k]
  BY <1>1, <1>5, DropGood
<1>7. Where(s, R0) \in Host \cup {None} /\ (Where(s, R0) # None => s.map[Where(s, R0)].hi \in Host)
  BY <1>1, WhereIs DEF Consistent
<1>8. t.flushed = s.flushed
  BY <1>1, <1>5, <1>7, DropContents DEF Contents
<1>9. ASSUME NEW r \in Reg PROVE CheckIs32Bit(t, r) = CheckIs32Bit(s, r)
  <2>1. CASE s.const[r] # NoConst
    BY <1>6, <2>1 DEF CheckIs32Bit, IsConst
  <2>2. CASE s.const[r] = NoConst
    <3>1. r # R0
      <4>1. 0 \in Word
        BY Signs
      <4>2. QED
        BY <1>1, <2>2, <4>1, MarksAssumption
    <3>2. Consistent(t.map, t.const)
      BY <1>6 DEF Good
    <3>3. CASE \E k \in Host : s.map[k].mips = r
      <4>1. PICK k \in Host : s.map[k].mips = r
        BY <3>3
      <4>2. t.map[k] = s.map[k]
        BY <1>6, <3>1, <4>1
      <4>3. Where(s, r) = k /\ Where(t, r) = k
        BY <1>1, <3>2, <4>1, <4>2, WhereIs
      <4>4. QED
        BY <1>6, <4>2, <4>3 DEF CheckIs32Bit, IsConst
    <3>4. CASE \A k \in Host : s.map[k].mips # r
      <4>1. \A k \in Host : t.map[k].mips # r
        BY <1>6, <3>4, MarkFacts
      <4>2. Where(s, r) = None /\ Where(t, r) = None
        BY <1>1, <3>2, <3>4, <4>1, WhereIs
      <4>3. QED
        BY <1>6, <4>2 DEF CheckIs32Bit, IsConst
    <3>5. QED
      BY <3>3, <3>4
  <2>3. QED
    BY <2>1, <2>2
<1>10. QED
  BY <1>4, <1>6, <1>8, <1>9 DEF SameView

\* so that an instruction on which the two part does so before and after it.
LEMMA ViewDiverges ==
    ASSUME NEW s, NEW t, SameView(s, t), NEW i, Fields(i), NEW M
    PROVE  Diverges(M, t, i) = Diverges(M, s, i)
<1>1. /\ \A r \in {i.rd, i.rs, i.rt} : t.const[r] = s.const[r] /\ t.flushed[r] = s.flushed[r]
      /\ \A r \in {i.rd, i.rs, i.rt} : CheckIs32Bit(t, r) = CheckIs32Bit(s, r)
  BY DEF SameView, Fields
<1>2. /\ Misjudged(M, t, i.rs) = Misjudged(M, s, i.rs) /\ Misjudged(M, t, i.rt) = Misjudged(M, s, i.rt)
      /\ Both32(t, i) = Both32(s, i) /\ Narrow(t, i.rt) = Narrow(s, i.rt) /\ IsConst(t, i.rs) = IsConst(s, i.rs)
  BY <1>1 DEF Misjudged, Both32, Narrow, IsConst
<1>3. CallsOnR0(t, i) = CallsOnR0(s, i) /\ CheckIs32Bit(t, i.rt) = CheckIs32Bit(s, i.rt)
  BY <1>1, <1>2 DEF CallsOnR0
<1>4. t.const[i.rs] = s.const[i.rs]
  BY <1>1
<1>5. QED
  BY <1>2, <1>3, <1>4 DEF Diverges

\* The state in which an instruction is compiled.
Begins(s, i, M, Z) == Enters(s, i, M, Z) /\ Named(i) /\ HI \notin Z /\ LO \notin Z

\* Looking at the widths of the operands is how a handler begins.
LEMMA InitBegins ==
    ASSUME NEW s, NEW M, NEW Y, On(s, {}, M, Y \cup {R0}), NEW i, Typing(i), Named(i),
           {i.rd, i.rs, i.rt, HI, LO} \cap Y = {}
    PROVE  \E Z : Z \subseteq Y \cup {R0} /\ Begins(InitRdRsRt(s, i), i, M, Z)
<1>1. 0 \in Word /\ R0 # HI /\ R0 # LO /\ Fields(i)
  BY Signs, NamedFacts
<1>2. CASE R0 \in {i.rd, i.rs, i.rt}
  <2>1. InitRdRsRt(s, i) = MapConst(s, R0, 0)
    BY <1>2 DEF InitRdRsRt
  <2>2. On(InitRdRsRt(s, i), {}, M, (Y \cup {R0}) \ {R0})
    BY <1>1, <2>1, MapConstR0On
  <2>3. Begins(InitRdRsRt(s, i), i, M, (Y \cup {R0}) \ {R0})
    BY <1>1, <2>2 DEF Begins, Enters, Fits
  <2>4. QED
    BY <2>3
<1>3. CASE R0 \notin {i.rd, i.rs, i.rt}
  <2>1. InitRdRsRt(s, i) = s
    BY <1>3 DEF InitRdRsRt
  <2>2. Begins(InitRdRsRt(s, i), i, M, Y \cup {R0})
    BY <1>1, <1>3, <2>1 DEF Begins, Enters, Fits
  <2>3. QED
    BY <2>2
<1>4. QED
  BY <1>2, <1>3

\* The same is asked of it as of the state before.
LEMMA InitSame ==
    ASSUME NEW s, NEW p, NEW M, NEW Z, On(s, p, M, Z), NEW i
    PROVE  SameView(s, InitRdRsRt(s, i))
BY InitView DEF InitRdRsRt, SameView

\* What an instruction leaves: the interpreter's machine, r0 aside.
Done(t, i, M, Z) == On(t, {}, ClearR0(Interpret(M, i)), Z \cup {R0})

\* A handler is done when the block follows the interpreter, r0 apart.
LEMMA DoneOn ==
    ASSUME NEW t, NEW i, NEW M, NEW Z
    PROVE  /\ On(t, {}, Interpret(M, i), Z) => Done(t, i, M, Z)
           /\ \A r \in Reg : \A v :
                (/\ Interpret(M, i) = Set(M, r, v)
                 /\ r # R0 => On(t, {}, With(M, r, v), Z)
                 /\ r = R0 => v \in Double /\ On(t, {}, M, Z \cup {R0})) => Done(t, i, M, Z)
<1>1. ASSUME On(t, {}, Interpret(M, i), Z) PROVE Done(t, i, M, Z)
  <2>1. Machine(Interpret(M, i)) /\ 0 \in Double /\ R0 \in Reg
    BY <1>1, Signs, MarkFacts DEF On, Follows
  <2>2. ClearR0(Interpret(M, i)) = Interpret(M, i)
    BY <2>1, ClearIs
  <2>3. Follows(t, Interpret(M, i), Z \cup {R0})
    BY <1>1, FewerFollows DEF On
  <2>4. QED
    BY <1>1, <2>2, <2>3 DEF Done, On
<1>2. ASSUME NEW r \in Reg, NEW v, Interpret(M, i) = Set(M, r, v),
             r # R0 => On(t, {}, With(M, r, v), Z), r = R0 => v \in Double /\ On(t, {}, M, Z \cup {R0})
      PROVE  Done(t, i, M, Z)
  <2>1. Set(M, r, v) = With(M, r, v)
    BY DEF Set, With
  <2>2. CASE r # R0
    BY <1>1, <1>2, <2>1, <2>2
  <2>3. CASE r = R0
    <3>1. Machine(M) /\ v \in Double
      BY <1>2, <2>3 DEF On, Follows
    <3>2. ClearR0(With(M, r, v)) = M
      BY <2>3, <3>1, ClearIs
    <3>3. QED
      BY <1>2, <2>1, <2>3, <3>2 DEF Done
  <2>4. QED
    BY <2>2, <2>3
<1>3. QED
  BY <1>1, <1>2

\* A value written to r0 is forgotten.
LEMMA ClearSet ==
    ASSUME NEW M, Machine(M), NEW v
    PROVE  ClearR0(Set(M, R0, v)) = M
<1>1. R0 \in Reg /\ M.gpr \in [Reg -> Double] /\ M.gpr[R0] = 0
  BY MarkFacts DEF Machine
<1>2. [[M.gpr EXCEPT ![R0] = v] EXCEPT ![R0] = 0] = M.gpr
  BY <1>1
<1>3. ClearR0(Set(M, R0, v)) = [M EXCEPT !.gpr = [[M.gpr EXCEPT ![R0] = v] EXCEPT ![R0] = 0]]
  BY <1>1 DEF ClearR0, Set, Machine
<1>4. [M EXCEPT !.gpr = M.gpr] = M
  BY DEF Machine
<1>5. QED
  BY <1>2, <1>3, <1>4

\* What is known when an instruction is compiled.
LEMMA BeginsFacts ==
    ASSUME NEW s, NEW i, NEW M, NEW Z, Begins(s, i, M, Z)
    PROVE  /\ Enters(s, i, M, Z) /\ On(s, {}, M, Z) /\ Machine(M) /\ Fields(i) /\ Named(i)
           /\ i.rd \in Reg \ Z /\ i.rs \in Reg \ Z /\ i.rt \in Reg \ Z /\ R0 \in Reg
           /\ HI \in Reg \ Z /\ LO \in Reg \ Z /\ HI # R0 /\ LO # R0
           /\ i.imm \in 0 .. 2 ^ Half - 1 /\ i.sa \in 0 .. W - 1
           /\ M.gpr[i.rs] \in Double /\ M.gpr[i.rt] \in Double
           /\ On(s, {}, M, Z \cup {R0})
<1>1. Enters(s, i, M, Z) /\ Named(i) /\ HI \notin Z /\ LO \notin Z
  BY DEF Begins
<1>2. /\ On(s, {}, M, Z) /\ Machine(M) /\ Fields(i)
      /\ i.rd \in Reg \ Z /\ i.rs \in Reg \ Z /\ i.rt \in Reg \ Z
      /\ i.imm \in 0 .. 2 ^ Half - 1 /\ i.sa \in 0 .. W - 1
      /\ M.gpr[i.rs] \in Double /\ M.gpr[i.rt] \in Double
  BY <1>1, EntersFacts
<1>3. Follows(s, M, Z \cup {R0})
  BY <1>2, FewerFollows DEF On
<1>4. QED
  BY <1>1, <1>2, <1>3, NamedFacts, MarkFacts DEF On

\* An instruction with one result, in r.
LEMMA DoneSet ==
    ASSUME NEW s, NEW i, NEW M, NEW Z, Begins(s, i, M, Z), NEW r \in Reg, NEW v, Interpret(M, i) = Set(M, r, v), NEW t,
           r = R0 => t = s \/ On(t, {}, M, Z \cup {R0}),
           r # R0 => On(t, {}, With(M, r, v), Z) \/ On(t, {}, With(M, r, Interpret(M, i).gpr[r]), Z)
    PROVE  Done(t, i, M, Z)
<1>1. Machine(M) /\ On(s, {}, M, Z \cup {R0})
  BY BeginsFacts
<1>2. Set(M, r, v) = With(M, r, v) /\ Interpret(M, i).gpr[r] = v
  BY <1>1 DEF Set, With, Machine
<1>3. CASE r = R0
  BY <1>1, <1>3, ClearSet DEF Done
<1>4. CASE r # R0
  BY <1>2, <1>4, DoneOn
<1>5. QED
  BY <1>3, <1>4

\* An instruction on which the two are not known to part.
LEMMA Spares ==
    ASSUME NEW s, NEW i, NEW M, ~Diverges(M, s, i)
    PROVE  /\ ~CallsOnR0(s, i)
           /\ i.op \in {"lwu", "ldl", "ldr"} /\ i.rt # R0 /\ Narrow(s, i.rt) => IsWord(Result(M, i, i.rt))
           /\ i.op \in WidePairs /\ i.rd # R0 => Judges(s, i, M)
           /\ i.op \in WideImmediates /\ i.rt # R0 /\ CheckIs32Bit(s, i.rs) => IsWord(M.gpr[i.rs])
           /\ i.op \in WideShifts /\ i.rd # R0 /\ CheckIs32Bit(s, i.rt) => IsWord(M.gpr[i.rt])
           /\ i.op = "dsub" /\ Both32(s, i) /\ i.rd # R0 => IsWord(Result(M, i, i.rd))
           /\ i.op \in {"ddiv", "ddivu"} /\ Both32(s, i) =>
                Low(M.gpr[i.rt]) # 0 /\ Interpret(M, i) = Interpret(M, [i EXCEPT !.op = IF @ = "ddiv" THEN "div" ELSE "divu"])
           /\ i.op = "xor" => ~(i.rd = i.rt /\ IsConst(s, i.rs) /\ ~Both32(s, i) /\ Negative(s.const[i.rs]))
           /\ i.op = "dsrl32" /\ CheckIs32Bit(s, i.rt) /\ i.rd # R0 => ~Negative(Low(M.gpr[i.rt]))
           /\ i.op = "dsra32" /\ i.rd # R0 => i.rd # i.rt
<1>1. \A r : ~Misjudged(M, s, r) => (CheckIs32Bit(s, r) => IsWord(M.gpr[r]))
  BY DEF Misjudged
<1>2. i.op \in WidePairs /\ i.rd # R0 => Judges(s, i, M)
  BY <1>1 DEF Diverges, Judges
<1>3. /\ i.op \in WideImmediates /\ i.rt # R0 /\ CheckIs32Bit(s, i.rs) => IsWord(M.gpr[i.rs])
      /\ i.op \in WideShifts /\ i.rd # R0 /\ CheckIs32Bit(s, i.rt) => IsWord(M.gpr[i.rt])
  BY <1>1 DEF Diverges
<1>4. QED
  BY <1>2, <1>3 DEF Diverges, lo

\* The architecture defines the word operations on words.
LEMMA DefinedFacts ==
    ASSUME NEW i, NEW M, Defined(M, i)
    PROVE  /\ i.op \in WordOps => IsWord(M.gpr[i.rs]) /\ IsWord(M.gpr[i.rt])
           /\ i.op \in {"div", "divu", "ddiv", "ddivu"} => M.gpr[i.rt] # 0
BY DEF Defined

\* Additions and subtractions.
LEMMA AdditionsDone ==
    ASSUME NEW s, NEW i \in Instruction, NEW M, NEW Z, Begins(s, i, M, Z), Defined(M, i), ~Diverges(M, s, i)
    PROVE  /\ i.op \in {"add", "sub", "dsub"} => Done(dyna4300i_special_sub(s, i), i, M, Z)
           /\ i.op = "addi" => Done(dyna4300i_addi(s, i), i, M, Z)
           /\ i.op = "dadd" => Done(dyna4300i_special_dadd(s, i), i, M, Z)
           /\ i.op = "daddi" => Done(dyna4300i_daddi(s, i), i, M, Z)
<1>1. Enters(s, i, M, Z) /\ i.rd \in Reg /\ i.rt \in Reg
  BY BeginsFacts
<1>2. ASSUME i.op \in {"add", "sub"} PROVE Done(dyna4300i_special_sub(s, i), i, M, Z)
  <2>1. IsWord(M.gpr[i.rs]) /\ IsWord(M.gpr[i.rt])
    BY <1>2, DefinedFacts DEF WordOps
  <2>2. \E v : Interpret(M, i) = Set(M, i.rd, v)
    BY <1>2 DEF Interpret, r4300i_add, r4300i_sub
  <2>3. i.rd # R0 => On(dyna4300i_special_sub(s, i), {}, With(M, i.rd, Interpret(M, i).gpr[i.rd]), Z)
    BY <1>1, <1>2, <2>1, SubOn
  <2>4. i.rd = R0 => dyna4300i_special_sub(s, i) = s
    BY <1>2 DEF dyna4300i_special_sub
  <2>5. QED
    BY <1>1, <2>2, <2>3, <2>4, DoneSet
<1>3. ASSUME i.op = "dsub" PROVE Done(dyna4300i_special_sub(s, i), i, M, Z)
  <2>1. /\ i.rd # R0 \/ Both32(s, i)
        /\ i.rd # R0 => Judges(s, i, M) /\ (Both32(s, i) => IsWord(Result(M, i, i.rd)))
    BY <1>3, Spares DEF CallsOnR0, WidePairs
  <2>2. CASE i.rd = R0
    <3>1. dyna4300i_special_sub(s, i) = s
      BY <2>1, <2>2 DEF dyna4300i_special_sub
    <3>2. Interpret(M, i) = Set(M, i.rd, DoubleOf(M.gpr[i.rs] - M.gpr[i.rt]))
      BY <1>3 DEF Interpret, r4300i_dsub, RS, RT
    <3>3. QED
      BY <1>1, <2>2, <3>1, <3>2, DoneSet
  <2>3. CASE i.rd # R0 /\ Both32(s, i)
    <3>1. IsWord(M.gpr[i.rs]) /\ IsWord(M.gpr[i.rt])
      BY <2>1, <2>3, JudgesBoth
    <3>2. Interpret(M, i) = Set(M, i.rd, DoubleOf(M.gpr[i.rs] - M.gpr[i.rt]))
      BY <1>3 DEF Interpret, r4300i_dsub, RS, RT
    <3>3. Machine(M)
      BY BeginsFacts
    <3>4. Result(M, i, i.rd) = DoubleOf(M.gpr[i.rs] - M.gpr[i.rt])
      BY <1>1, <3>2, <3>3 DEF Result, Set, Machine
    <3>5. On(dyna4300i_special_sub(s, i), {}, With(M, i.rd, Interpret(M, i).gpr[i.rd]), Z)
      BY <1>1, <1>3, <2>1, <2>3, <3>1, <3>4, SubOn
    <3>6. QED
      BY <1>1, <2>3, <3>2, <3>5, DoneSet
  <2>4. CASE i.rd # R0 /\ ~Both32(s, i)
    <3>1. dyna4300i_special_sub(s, i) = INTERPRET(s, i)
      BY <1>3, <2>4 DEF dyna4300i_special_sub
    <3>2. On(INTERPRET(s, i), {}, Interpret(M, i), Z)
      BY <1>1, <1>3, <2>4, CallRDOn DEF CalledRD
    <3>3. QED
      BY <3>1, <3>2, DoneOn
  <2>5. QED
    BY <2>2, <2>3, <2>4
<1>4. ASSUME i.op = "addi" PROVE Done(dyna4300i_addi(s, i), i, M, Z)
  <2>1. IsWord(M.gpr[i.rs])
    BY <1>4, DefinedFacts DEF WordOps
  <2>2. Interpret(M, i) = Set(M, i.rt, Sext(WordOf(Low(M.gpr[i.rs]) + ImmS(i))))
    BY <1>4 DEF Interpret, r4300i_addi, RS, lo
  <2>3. CASE i.rt = R0
    BY <1>1, <2>2, <2>3, DoneSet DEF dyna4300i_addi
  <2>4. CASE i.rt # R0
    <3>1. On(dyna4300i_addi(s, i), {}, With(M, i.rt, Sext(WordOf(Low(M.gpr[i.rs]) + ImmS(i)))), Z)
      BY <1>1, <2>1, <2>4, AddiOn DEF dyna4300i_addi
    <3>2. QED
      BY <1>1, <2>2, <2>4, <3>1, DoneSet
  <2>5. QED
    BY <2>3, <2>4
<1>5. ASSUME i.op = "dadd" PROVE Done(dyna4300i_special_dadd(s, i), i, M, Z)
  <2>1. i.rd # R0 /\ Judges(s, i, M)
    BY <1>5, Spares DEF CallsOnR0, WidePairs
  <2>2. QED
    BY <1>1, <1>5, <2>1, DaddOn, DoneOn
<1>6. ASSUME i.op = "daddi" PROVE Done(dyna4300i_daddi(s, i), i, M, Z)
  <2>1. i.rt # R0 /\ (CheckIs32Bit(s, i.rs) => IsWord(M.gpr[i.rs]))
    BY <1>6, Spares DEF CallsOnR0, WideImmediates
  <2>2. QED
    BY <1>1, <1>6, <2>1, DaddiOn, DoneOn
<1>7. QED
  BY <1>2, <1>3, <1>4, <1>5, <1>6

\* The gates of two registers,
LEMMA GatesDone ==
    ASSUME NEW s, NEW i, NEW M, NEW Z, Begins(s, i, M, Z), ~Diverges(M, s, i)
    PROVE  /\ i.op = "and" => Done(dyna4300i_special_and(s, i), i, M, Z)
           /\ i.op = "or" => Done(dyna4300i_special_or(s, i), i, M, Z)
           /\ i.op = "xor" => Done(dyna4300i_special_xor(s, i), i, M, Z)
           /\ i.op = "nor" => Done(dyna4300i_special_nor(s, i), i, M, Z)
<1>1. Enters(s, i, M, Z) /\ i.rd \in Reg
  BY BeginsFacts
<1>2. i.op \in {"and", "or", "xor", "nor"} /\ i.rd # R0 => Judges(s, i, M)
  BY Spares DEF WidePairs
<1>3. ASSUME i.op = "and" PROVE Done(dyna4300i_special_and(s, i), i, M, Z)
  <2>1. Interpret(M, i) = Set(M, i.rd, DoesD("and", M.gpr[i.rs], M.gpr[i.rt]))
    BY <1>3, GateNames DEF Interpret, r4300i_and, RS, RT
  <2>2. i.rd # R0 => On(dyna4300i_special_and(s, i), {}, With(M, i.rd, DoesD("and", M.gpr[i.rs], M.gpr[i.rt])), Z)
    BY <1>1, <1>2, <1>3, AndOn
  <2>3. i.rd = R0 => dyna4300i_special_and(s, i) = s
    BY DEF dyna4300i_special_and
  <2>4. QED
    BY <1>1, <2>1, <2>2, <2>3, DoneSet
<1>4. ASSUME i.op = "or" PROVE Done(dyna4300i_special_or(s, i), i, M, Z)
  <2>1. Interpret(M, i) = Set(M, i.rd, DoesD("or", M.gpr[i.rs], M.gpr[i.rt]))
    BY <1>4, GateNames DEF Interpret, r4300i_or, RS, RT
  <2>2. i.rd # R0 => On(dyna4300i_special_or(s, i), {}, With(M, i.rd, DoesD("or", M.gpr[i.rs], M.gpr[i.rt])), Z)
    BY <1>1, <1>2, <1>4, OrOn
  <2>3. i.rd = R0 => dyna4300i_special_or(s, i) = s
    BY DEF dyna4300i_special_or
  <2>4. QED
    BY <1>1, <2>1, <2>2, <2>3, DoneSet
<1>5. ASSUME i.op = "xor" PROVE Done(dyna4300i_special_xor(s, i), i, M, Z)
  <2>1. Interpret(M, i) = Set(M, i.rd, DoesD("xor", M.gpr[i.rs], M.gpr[i.rt]))
    BY <1>5, GateNames DEF Interpret, r4300i_xor, RS, RT
  <2>2. i.rd # R0 => On(dyna4300i_special_xor(s, i), {}, With(M, i.rd, DoesD("xor", M.gpr[i.rs], M.gpr[i.rt])), Z)
    BY <1>1, <1>2, <1>5, Spares, XorOn
  <2>3. i.rd = R0 => dyna4300i_special_xor(s, i) = s
    BY DEF dyna4300i_special_xor
  <2>4. QED
    BY <1>1, <2>1, <2>2, <2>3, DoneSet
<1>6. ASSUME i.op = "nor" PROVE Done(dyna4300i_special_nor(s, i), i, M, Z)
  <2>1. Interpret(M, i) = Set(M, i.rd, DoesD("nor", M.gpr[i.rs], M.gpr[i.rt]))
    BY <1>6, GateNames DEF Interpret, r4300i_nor, RS, RT
  <2>2. i.rd # R0 => On(dyna4300i_special_nor(s, i), {}, With(M, i.rd, DoesD("nor", M.gpr[i.rs], M.gpr[i.rt])), Z)
    BY <1>1, <1>2, <1>6, NorOn
  <2>3. i.rd = R0 => dyna4300i_special_nor(s, i) = s
    BY DEF dyna4300i_special_nor
  <2>4. QED
    BY <1>1, <2>1, <2>2, <2>3, DoneSet
<1>7. QED
  BY <1>3, <1>4, <1>5, <1>6

\* those of a register and an immediate, and lui, which defines r0 over again.
LEMMA ImmediatesDone ==
    ASSUME NEW s, NEW i, NEW M, NEW Z, Begins(s, i, M, Z), ~Diverges(M, s, i)
    PROVE  /\ i.op = "andi" => Done(dyna4300i_andi(s, i), i, M, Z)
           /\ i.op = "ori" => Done(dyna4300i_ori(s, i), i, M, Z)
           /\ i.op = "xori" => Done(dyna4300i_xori(s, i), i, M, Z)
           /\ i.op = "lui" => Done(dyna4300i_lui(s, i), i, M, Z)
<1>1. Enters(s, i, M, Z) /\ i.rt \in Reg /\ On(s, {}, M, Z) /\ i.imm \in 0 .. 2 ^ Half - 1
  BY BeginsFacts
<1>2. i.op \in {"ori", "xori"} /\ i.rt # R0 => (CheckIs32Bit(s, i.rs) => IsWord(M.gpr[i.rs]))
  BY Spares DEF WideImmediates
<1>3. ASSUME i.op = "andi" PROVE Done(dyna4300i_andi(s, i), i, M, Z)
  <2>1. Interpret(M, i) = Set(M, i.rt, M.gpr[i.rs] & i.imm)
    BY <1>3 DEF Interpret, r4300i_andi, RS
  <2>2. QED
    BY <1>1, <2>1, AndiOn, DoneSet DEF dyna4300i_andi
<1>4. ASSUME i.op = "ori" PROVE Done(dyna4300i_ori(s, i), i, M, Z)
  <2>1. Interpret(M, i) = Set(M, i.rt, M.gpr[i.rs] | i.imm)
    BY <1>4 DEF Interpret, r4300i_ori, RS
  <2>2. i.rt # R0 => On(dyna4300i_ori(s, i), {}, With(M, i.rt, M.gpr[i.rs] | i.imm), Z)
    BY <1>1, <1>2, <1>4, OriOn
  <2>3. i.rt = R0 => dyna4300i_ori(s, i) = s
    BY DEF dyna4300i_ori, GateImm
  <2>4. QED
    BY <1>1, <2>1, <2>2, <2>3, DoneSet
<1>5. ASSUME i.op = "xori" PROVE Done(dyna4300i_xori(s, i), i, M, Z)
  <2>1. Interpret(M, i) = Set(M, i.rt, M.gpr[i.rs] ^^ i.imm)
    BY <1>5 DEF Interpret, r4300i_xori, RS
  <2>2. i.rt # R0 => On(dyna4300i_xori(s, i), {}, With(M, i.rt, M.gpr[i.rs] ^^ i.imm), Z)
    BY <1>1, <1>2, <1>5, OriOn
  <2>3. i.rt = R0 => dyna4300i_xori(s, i) = s
    BY DEF dyna4300i_xori, GateImm
  <2>4. QED
    BY <1>1, <2>1, <2>2, <2>3, DoneSet
<1>6. ASSUME i.op = "lui" PROVE Done(dyna4300i_lui(s, i), i, M, Z)
  <2>1. Interpret(M, i) = Set(M, i.rt, Sext(i.imm * 2 ^ Half))
    BY <1>6 DEF Interpret, r4300i_lui
  <2>2. i.rt # R0 => On(dyna4300i_lui(s, i), {}, With(M, i.rt, Sext(i.imm * 2 ^ Half)), Z)
    BY <1>1, LuiOn
  <2>3. ASSUME i.rt = R0 PROVE On(dyna4300i_lui(s, i), {}, M, Z \cup {R0})
    <3>1. i.imm * 2 ^ Half \in Word
      BY <1>1, Immediates
    <3>2. On(dyna4300i_lui(s, i), {}, M, Z \ {R0})
      BY <1>1, <2>3, <3>1, MapConstR0On DEF dyna4300i_lui
    <3>3. Follows(dyna4300i_lui(s, i), M, Z \cup {R0})
      BY <3>2, FewerFollows DEF On
    <3>4. QED
      BY <3>2, <3>3 DEF On
  <2>4. QED
    BY <1>1, <2>1, <2>2, <2>3, DoneSet
<1>7. QED
  BY <1>3, <1>4, <1>5, <1>6

\* The comparisons,
LEMMA ComparisonsDone ==
    ASSUME NEW s, NEW i, NEW M, NEW Z, Begins(s, i, M, Z), ~Diverges(M, s, i)
    PROVE  /\ i.op \in {"slt", "sltu"} => Done(dyna4300i_special_slt(s, i), i, M, Z)
           /\ i.op \in {"slti", "sltiu"} => Done(dyna4300i_slti(s, i), i, M, Z)
<1>1. /\ Enters(s, i, M, Z) /\ i.rd \in Reg /\ i.rt \in Reg /\ i.imm \in 0 .. 2 ^ Half - 1
      /\ M.gpr[i.rs] \in Double
  BY BeginsFacts
<1>2. /\ i.op \in {"slt", "sltu"} /\ i.rd # R0 => Judges(s, i, M)
      /\ i.op \in {"slti", "sltiu"} /\ i.rt # R0 => (CheckIs32Bit(s, i.rs) => IsWord(M.gpr[i.rs]))
  BY Spares DEF WidePairs, WideImmediates
<1>3. ASSUME i.op \in {"slt", "sltu"} PROVE Done(dyna4300i_special_slt(s, i), i, M, Z)
  <2>1. Interpret(M, i) = Set(M, i.rd, Bit(Below(i, M.gpr[i.rs], M.gpr[i.rt])))
    BY <1>3 DEF Interpret, r4300i_slt, r4300i_sltu, RS, RT, Below
  <2>2. i.rd # R0 => (Both32(s, i) => IsWord(M.gpr[i.rs]) /\ IsWord(M.gpr[i.rt]))
    BY <1>2, <1>3, JudgesBoth
  <2>3. i.rd # R0 => On(dyna4300i_special_slt(s, i), {}, With(M, i.rd, Bit(Below(i, M.gpr[i.rs], M.gpr[i.rt]))), Z)
    BY <1>1, <2>2, SetLessOn DEF dyna4300i_special_slt
  <2>4. i.rd = R0 => dyna4300i_special_slt(s, i) = s
    BY DEF dyna4300i_special_slt
  <2>5. QED
    BY <1>1, <2>1, <2>3, <2>4, DoneSet
<1>4. ASSUME i.op \in {"slti", "sltiu"} PROVE Done(dyna4300i_slti(s, i), i, M, Z)
  <2>1. SignedD(Sext(ImmWord(i))) = ImmS(i) /\ Sext(ImmWord(i)) = ImmDouble(i)
    BY <1>1, Immediates, SignedSext
  <2>2. Interpret(M, i) = Set(M, i.rt, Bit(Below(i, M.gpr[i.rs], Sext(ImmWord(i)))))
    BY <1>4, <2>1 DEF Interpret, r4300i_slti, r4300i_sltiu, RS, Below
  <2>3. i.rt # R0 => (CheckIs32Bit(s, i.rs) => IsWord(M.gpr[i.rs]))
    BY <1>2, <1>4
  <2>4. i.rt # R0 => On(dyna4300i_slti(s, i), {}, With(M, i.rt, Bit(Below(i, M.gpr[i.rs], Sext(ImmWord(i))))), Z)
    BY <1>1, <2>3, SetLessIOn DEF dyna4300i_slti
  <2>5. i.rt = R0 => dyna4300i_slti(s, i) = s
    BY DEF dyna4300i_slti
  <2>6. QED
    BY <1>1, <2>2, <2>4, <2>5, DoneSet
<1>5. QED
  BY <1>3, <1>4

\* and the 32-bit shifts.
LEMMA ShiftsDone ==
    ASSUME NEW s, NEW i, NEW M, NEW Z, Begins(s, i, M, Z)
    PROVE  /\ i.op \in {"sll", "srl", "sra"} => Done(dyna4300i_special_shift(s, i), i, M, Z)
           /\ i.op \in {"sllv", "srlv", "srav"} => Done(dyna4300i_shift_var(s, i), i, M, Z)
<1>1. /\ Enters(s, i, M, Z) /\ i.rd \in Reg /\ i.sa \in 0 .. W - 1
      /\ M.gpr[i.rs] \in Double /\ M.gpr[i.rt] \in Double
  BY BeginsFacts
<1>2. PICK w : w = Low(M.gpr[i.rt])
  OBVIOUS
<1>3. w \in Word
  BY <1>1, <1>2, Pairs
<1>4. Small(Signed(w))
  BY <1>3, SignedWords
<1>5. \A k \in 0 .. W - 1 : DoubleOf(Sar(Signed(w), k)) = Sext(WordOf(Sar(Signed(w), k)))
  BY <1>4, Rights
<1>6. PICK k \in 0 .. W - 1 : k = M.gpr[i.rs] % W /\ k = Low(M.gpr[i.rs]) % W
  BY <1>1, Amounts
<1>7. ASSUME i.op \in {"sll", "srl", "sra"} PROVE Done(dyna4300i_special_shift(s, i), i, M, Z)
  <2>1. Interpret(M, i) = Set(M, i.rd, Sext(ShiftWord(i.op, w, i.sa)))
    <3>1. CASE i.op = "sll"
      BY <1>2, <3>1 DEF Interpret, r4300i_sll, Sll, RT, lo, ShiftWord
    <3>2. CASE i.op = "srl"
      BY <1>2, <3>2 DEF Interpret, r4300i_srl, Srl, RT, lo, ShiftWord
    <3>3. CASE i.op = "sra"
      BY <1>1, <1>2, <1>5, <3>3 DEF Interpret, r4300i_sra, Sra, RT, lo, ShiftWord
    <3>4. QED
      BY <1>7, <3>1, <3>2, <3>3
  <2>2. i.rd # R0 => On(dyna4300i_special_shift(s, i), {}, With(M, i.rd, Sext(ShiftWord(i.op, w, i.sa))), Z)
    BY <1>1, <1>2, <1>7, ShiftOn DEF ShiftOps
  <2>3. i.rd = R0 => dyna4300i_special_shift(s, i) = s
    BY DEF dyna4300i_special_shift
  <2>4. QED
    BY <1>1, <2>1, <2>2, <2>3, DoneSet
<1>8. ASSUME i.op \in {"sllv", "srlv", "srav"} PROVE Done(dyna4300i_shift_var(s, i), i, M, Z)
  <2>1. ShiftedVar(M, i) = ShiftWord(i.op, w, k) /\ Amount(M, i) = k
    BY <1>2, <1>6 DEF ShiftedVar, Amount, RS
  <2>2. Interpret(M, i) = Set(M, i.rd, Sext(ShiftWord(i.op, w, k)))
    <3>1. CASE i.op = "sllv"
      BY <1>2, <2>1, <3>1 DEF Interpret, r4300i_sllv, Sll, RT, lo, ShiftWord
    <3>2. CASE i.op = "srlv"
      BY <1>2, <2>1, <3>2 DEF Interpret, r4300i_srlv, Srl, RT, lo, ShiftWord
    <3>3. CASE i.op = "srav"
      BY <1>2, <1>5, <2>1, <3>3 DEF Interpret, r4300i_srav, Sra, RT, lo, ShiftWord
    <3>4. QED
      BY <1>8, <3>1, <3>2, <3>3
  <2>3. i.rd # R0 => On(dyna4300i_shift_var(s, i), {}, With(M, i.rd, Sext(ShiftWord(i.op, w, k))), Z)
    <3>1. i.rd # R0 => On(dyna4300i_shift_var(s, i), {}, With(M, i.rd, Sext(ShiftedVar(M, i))), Z)
      BY <1>1, <1>8, ShiftVarOn DEF ShiftOps
    <3>2. QED
      BY <2>1, <3>1
  <2>4. i.rd = R0 => dyna4300i_shift_var(s, i) = s
    BY DEF dyna4300i_shift_var
  <2>5. QED
    BY <1>1, <2>2, <2>3, <2>4, DoneSet
<1>9. QED
  BY <1>7, <1>8

\* The 64-bit shifts,
LEMMA WideShiftsDone ==
    ASSUME NEW s, NEW i, NEW M, NEW Z, Begins(s, i, M, Z), ~Diverges(M, s, i)
    PROVE  /\ i.op = "dsra" => Done(dyna4300i_special_dsra(s, i), i, M, Z)
           /\ i.op = "dsll32" => Done(dyna4300i_special_dsll32(s, i), i, M, Z)
           /\ i.op = "dsrl32" => Done(dyna4300i_special_dsrl32(s, i), i, M, Z)
           /\ i.op = "dsra32" => Done(dyna4300i_special_dsra32(s, i), i, M, Z)
<1>1. Enters(s, i, M, Z) /\ i.rd \in Reg
  BY BeginsFacts
<1>2. i.op \in {"dsra", "dsrl32"} /\ i.rd # R0 => (CheckIs32Bit(s, i.rt) => IsWord(M.gpr[i.rt]))
  BY Spares DEF WideShifts
<1>3. ASSUME i.op = "dsra" PROVE Done(dyna4300i_special_dsra(s, i), i, M, Z)
  <2>1. Interpret(M, i) = Set(M, i.rd, DoubleOf(Sar(SignedD(M.gpr[i.rt]), i.sa)))
    BY <1>3 DEF Interpret, r4300i_dsra, Dsra, RT
  <2>2. CASE i.rd = R0
    <3>1. CheckIs32Bit(s, i.rt)
      BY <1>3, <2>2, Spares DEF CallsOnR0
    <3>2. dyna4300i_special_dsra(s, i) = s
      BY <2>2, <3>1 DEF dyna4300i_special_dsra, dyna4300i_special_shift
    <3>3. QED
      BY <1>1, <2>1, <2>2, <3>2, DoneSet
  <2>3. CASE i.rd # R0 /\ CheckIs32Bit(s, i.rt)
    <3>1. On(dyna4300i_special_dsra(s, i), {}, With(M, i.rd, DoubleOf(Sar(SignedD(M.gpr[i.rt]), i.sa))), Z)
      BY <1>1, <1>2, <1>3, <2>3, DsraOn
    <3>2. QED
      BY <1>1, <1>2, <1>3, <2>1, <2>3, <3>1, DoneSet
  <2>4. CASE i.rd # R0 /\ ~CheckIs32Bit(s, i.rt)
    <3>1. On(INTERPRET(s, i), {}, Interpret(M, i), Z)
      BY <1>1, <1>3, <2>4, CallRDOn DEF CalledRD
    <3>2. QED
      BY <2>4, <3>1, DoneOn DEF dyna4300i_special_dsra
  <2>5. QED
    BY <2>2, <2>3, <2>4
<1>4. ASSUME i.op = "dsll32" PROVE Done(dyna4300i_special_dsll32(s, i), i, M, Z)
  <2>1. Interpret(M, i) = Set(M, i.rd, DoubleOf(M.gpr[i.rt] * 2 ^ (W + i.sa)))
    BY <1>4 DEF Interpret, r4300i_dsll32, Dsll, RT
  <2>2. i.rd # R0 => On(dyna4300i_special_dsll32(s, i), {}, With(M, i.rd, DoubleOf(M.gpr[i.rt] * 2 ^ (W + i.sa))), Z)
    BY <1>1, Dsll32On
  <2>3. i.rd = R0 => dyna4300i_special_dsll32(s, i) = s
    BY DEF dyna4300i_special_dsll32
  <2>4. QED
    BY <1>1, <2>1, <2>2, <2>3, DoneSet
<1>5. ASSUME i.op = "dsrl32" PROVE Done(dyna4300i_special_dsrl32(s, i), i, M, Z)
  <2>1. Interpret(M, i) = Set(M, i.rd, M.gpr[i.rt] \div 2 ^ (W + i.sa))
    BY <1>5 DEF Interpret, r4300i_dsrl32, Dsrl, RT
  <2>2. CASE i.rd = R0
    <3>1. dyna4300i_special_dsrl32(s, i) = s
      BY <2>2 DEF dyna4300i_special_dsrl32
    <3>2. QED
      BY <1>1, <2>1, <2>2, <3>1, DoneSet
  <2>3. CASE i.rd # R0 /\ CheckIs32Bit(s, i.rt)
    <3>1. ~Negative(Low(M.gpr[i.rt]))
      BY <1>2, <1>5, <2>3, Spares
    <3>2. On(dyna4300i_special_dsrl32(s, i), {}, With(M, i.rd, M.gpr[i.rt] \div 2 ^ (W + i.sa)), Z)
      BY <1>1, <1>2, <1>5, <2>3, <3>1, Dsrl32On
    <3>3. QED
      BY <1>1, <1>2, <1>5, <2>1, <2>3, <3>2, DoneSet
  <2>4. CASE i.rd # R0 /\ ~CheckIs32Bit(s, i.rt)
    <3>1. On(INTERPRET(s, i), {}, Interpret(M, i), Z)
      BY <1>1, <1>5, <2>4, CallRDOn DEF CalledRD
    <3>2. QED
      BY <1>5, <2>4, <3>1, DoneOn DEF dyna4300i_special_dsrl32
  <2>5. QED
    BY <2>2, <2>3, <2>4
<1>6. ASSUME i.op = "dsra32" PROVE Done(dyna4300i_special_dsra32(s, i), i, M, Z)
  <2>1. Interpret(M, i) = Set(M, i.rd, DoubleOf(Sar(SignedD(M.gpr[i.rt]), W + i.sa)))
    BY <1>6 DEF Interpret, r4300i_dsra32, Dsra, RT
  <2>2. i.rd # R0 => i.rd # i.rt
    BY <1>6, Spares
  <2>3. i.rd # R0 => On(dyna4300i_special_dsra32(s, i), {}, With(M, i.rd, DoubleOf(Sar(SignedD(M.gpr[i.rt]), W + i.sa))), Z)
    BY <1>1, <2>2, Dsra32On
  <2>4. i.rd = R0 => dyna4300i_special_dsra32(s, i) = s
    BY DEF dyna4300i_special_dsra32
  <2>5. QED
    BY <1>1, <2>1, <2>3, <2>4, DoneSet
<1>7. QED
  BY <1>3, <1>4, <1>5, <1>6

\* the moves of HI and LO,
LEMMA MovesDone ==
    ASSUME NEW s, NEW i, NEW M, NEW Z, Begins(s, i, M, Z), i.op \in {"mfhi", "mflo", "mthi", "mtlo"}
    PROVE  Done(dyna4300i_mf_mt(s, i), i, M, Z)
<1>1. Enters(s, i, M, Z) /\ Named(i) /\ HI \notin Z /\ LO \notin Z /\ i.rd \in Reg /\ HI \in Reg /\ LO \in Reg
      /\ HI # R0 /\ LO # R0
  BY BeginsFacts
<1>2. /\ i.op = "mfhi" /\ i.rd # R0 => On(dyna4300i_mf_mt(s, i), {}, With(M, i.rd, M.gpr[HI]), Z)
      /\ i.op = "mflo" /\ i.rd # R0 => On(dyna4300i_mf_mt(s, i), {}, With(M, i.rd, M.gpr[LO]), Z)
      /\ i.op = "mthi" => On(dyna4300i_mf_mt(s, i), {}, With(M, HI, M.gpr[i.rs]), Z)
      /\ i.op = "mtlo" => On(dyna4300i_mf_mt(s, i), {}, With(M, LO, M.gpr[i.rs]), Z)
  BY <1>1, MovesOn
<1>3. i.op \in {"mfhi", "mflo"} /\ i.rd = R0 => dyna4300i_mf_mt(s, i) = s
  BY DEF dyna4300i_mf_mt
<1>4. CASE i.op = "mfhi"
  <2>1. Interpret(M, i) = Set(M, i.rd, M.gpr[HI])
    BY <1>4 DEF Interpret, r4300i_mfhi
  <2>2. QED
    BY <1>1, <1>2, <1>3, <1>4, <2>1, DoneSet
<1>5. CASE i.op = "mflo"
  <2>1. Interpret(M, i) = Set(M, i.rd, M.gpr[LO])
    BY <1>5 DEF Interpret, r4300i_mflo
  <2>2. QED
    BY <1>1, <1>2, <1>3, <1>5, <2>1, DoneSet
<1>6. CASE i.op = "mthi"
  <2>1. Interpret(M, i) = Set(M, HI, M.gpr[i.rs])
    BY <1>6 DEF Interpret, r4300i_mthi, RS
  <2>2. QED
    BY <1>1, <1>2, <1>6, <2>1, DoneSet
<1>7. CASE i.op = "mtlo"
  <2>1. Interpret(M, i) = Set(M, LO, M.gpr[i.rs])
    BY <1>7 DEF Interpret, r4300i_mtlo, RS
  <2>2. QED
    BY <1>1, <1>2, <1>7, <2>1, DoneSet
<1>8. QED
  BY <1>4, <1>5, <1>6, <1>7

\* multiplication and division,
LEMMA ProductsDone ==
    ASSUME NEW s, NEW i \in Instruction, NEW M, NEW Z, Begins(s, i, M, Z), Defined(M, i), ~Diverges(M, s, i)
    PROVE  /\ i.op \in {"mult", "multu"} => Done(dyna4300i_special_mul(s, i), i, M, Z)
           /\ i.op \in {"div", "divu"} => Done(dyna4300i_special_div(s, i), i, M, Z)
           /\ i.op \in {"ddiv", "ddivu"} => Done(dyna4300i_special_ddiv(s, i), i, M, Z)
           /\ i.op \in {"dmult", "dmultu"} => Done(INTERPRET(s, i), i, M, Z)
<1>1. Enters(s, i, M, Z) /\ i.rs \in Gpr \cup {R0} /\ i.rt \in Gpr \cup {R0}
  BY BeginsFacts DEF Named
<1>2. ASSUME i.op \in {"mult", "multu"} PROVE Done(dyna4300i_special_mul(s, i), i, M, Z)
  <2>1. /\ i.op = "mult" => Interpret(M, i) = r4300i_mult(M, i)
        /\ i.op = "multu" => Interpret(M, i) = r4300i_multu(M, i)
    BY DEF Interpret
  <2>2. On(dyna4300i_special_mul(s, i), {}, Interpret(M, i), Z)
    BY <1>1, <1>2, <2>1, MultOn
  <2>3. QED
    BY <2>2, DoneOn
<1>3. ASSUME i.op \in {"div", "divu"} PROVE Done(dyna4300i_special_div(s, i), i, M, Z)
  <2>1. Low(M.gpr[i.rt]) # 0
    <3>1. IsWord(M.gpr[i.rt]) /\ M.gpr[i.rt] # 0
      BY <1>3, DefinedFacts DEF WordOps
    <3>2. QED
      BY <1>1, <3>1, EntersFacts, Extended
  <2>2. /\ i.op = "div" => Interpret(M, i) = r4300i_div(M, i)
        /\ i.op = "divu" => Interpret(M, i) = r4300i_divu(M, i)
    BY DEF Interpret
  <2>3. On(dyna4300i_special_div(s, i), {}, Interpret(M, i), Z)
    BY <1>1, <1>3, <2>1, <2>2, DivOn
  <2>4. QED
    BY <2>3, DoneOn
<1>4. ASSUME i.op \in {"ddiv", "ddivu"} PROVE Done(dyna4300i_special_ddiv(s, i), i, M, Z)
  <2>1. M.gpr[i.rt] # 0
    BY <1>4, DefinedFacts
  <2>2. /\ Both32(s, i) => Low(M.gpr[i.rt]) # 0
        /\ Both32(s, i) => Interpret(M, i) = Interpret(M, [i EXCEPT !.op = IF @ = "ddiv" THEN "div" ELSE "divu"])
    BY <1>4, Spares
  <2>3. On(dyna4300i_special_ddiv(s, i), {}, Interpret(M, i), Z)
    BY <1>1, <1>4, <2>1, <2>2, DdivOn
  <2>4. QED
    BY <2>3, DoneOn
<1>5. ASSUME i.op \in {"dmult", "dmultu"} PROVE Done(INTERPRET(s, i), i, M, Z)
  <2>1. On(INTERPRET(s, i), {}, Interpret(M, i), Z)
    BY <1>1, <1>5, CallHiLoOn DEF CalledHiLo
  <2>2. QED
    BY <2>1, DoneOn
<1>6. QED
  BY <1>2, <1>3, <1>4, <1>5

\* loads and stores,
LEMMA LoadsDone ==
    ASSUME NEW s, NEW i, NEW M, NEW Z, Begins(s, i, M, Z), i.op \in NativeLoads
    PROVE  Done(Load(s, i), i, M, Z)
<1>1. Enters(s, i, M, Z) /\ i.rt \in Reg
  BY BeginsFacts
<1>2. \E v : Interpret(M, i) = Set(M, i.rt, v)
  <2>1. CASE i.op \in {"lb", "lh"}
    BY <2>1 DEF Interpret, r4300i_lb, r4300i_lh
  <2>2. CASE i.op \in {"lbu", "lhu"}
    BY <2>2 DEF Interpret, r4300i_lbu, r4300i_lhu
  <2>3. CASE i.op \in {"lw", "ld"}
    BY <2>3 DEF Interpret, r4300i_lw, r4300i_ld
  <2>4. QED
    BY <2>1, <2>2, <2>3 DEF NativeLoads
<1>3. /\ i.rt # R0 => On(Load(s, i), {}, With(M, i.rt, Interpret(M, i).gpr[i.rt]), Z)
      /\ i.rt = R0 => On(Load(s, i), {}, M, Z \cup {R0})
  BY <1>1, LoadOn
<1>4. QED
  BY <1>1, <1>2, <1>3, DoneSet

\* The stores: bytes, half words, words and doubles.
LEMMA StoresDone ==
    ASSUME NEW s, NEW i, NEW M, NEW Z, Begins(s, i, M, Z)
    PROVE  /\ i.op = "sb" => Done(dyna4300i_sb(s, i), i, M, Z)
           /\ i.op = "sh" => Done(dyna4300i_sh(s, i), i, M, Z)
           /\ i.op = "sw" => Done(dyna4300i_sw(s, i), i, M, Z)
           /\ i.op = "sd" => Done(dyna4300i_sd(s, i), i, M, Z)
<1>1. Enters(s, i, M, Z)
  BY BeginsFacts
<1>2. QED
  BY <1>1, StoresOn, DoneOn DEF NativeStores

\* and what is left to the interpreter's functions.
LEMMA CalledDone ==
    ASSUME NEW s, NEW i, NEW M, NEW Z, Begins(s, i, M, Z), ~Diverges(M, s, i), i.op = "sc" => i.sa \in {0, 1}
    PROVE  /\ i.op \in {"dsllv", "dsrlv", "dsrav", "dsll", "dsrl"} => Done(INTERPRET(s, i), i, M, Z)
           /\ i.op \in CalledLoads => Done(IF i.rt = R0 THEN s ELSE INTERPRET_LOADSTORE(s, i), i, M, Z)
           /\ i.op \in {"sc", "swl", "swr", "sdl", "sdr"} => Done(INTERPRET_LOADSTORE(s, i), i, M, Z)
<1>1. Enters(s, i, M, Z) /\ i.rt \in Reg
  BY BeginsFacts
<1>2. ASSUME i.op \in {"dsllv", "dsrlv", "dsrav", "dsll", "dsrl"} PROVE Done(INTERPRET(s, i), i, M, Z)
  <2>1. i.rd # R0
    BY <1>2, Spares DEF CallsOnR0
  <2>2. On(INTERPRET(s, i), {}, Interpret(M, i), Z)
    BY <1>1, <1>2, <2>1, CallRDOn DEF CalledRD
  <2>3. QED
    BY <2>2, DoneOn
<1>3. ASSUME i.op \in CalledLoads, i.rt # R0 PROVE Done(INTERPRET_LOADSTORE(s, i), i, M, Z)
  <2>1. i.op \in {"lwu", "ldl", "ldr"} /\ Narrow(s, i.rt) => IsWord(Result(M, i, i.rt))
    BY <1>3, Spares
  <2>2. On(INTERPRET_LOADSTORE(s, i), {}, Interpret(M, i), Z)
    BY <1>1, <1>3, <2>1, CallLoadOn
  <2>3. QED
    BY <2>2, DoneOn
<1>4. i.op = "sc" => i.rt # R0
  BY Spares DEF CallsOnR0
<1>5. ASSUME i.op \in CalledLoads, i.rt = R0 PROVE Done(s, i, M, Z)
  <2>1. \E v : Interpret(M, i) = Set(M, i.rt, v)
    BY <1>5 DEF CalledLoads, Interpret, r4300i_lwu, r4300i_lwl, r4300i_lwr, r4300i_ldl, r4300i_ldr
  <2>2. QED
    BY <1>1, <1>5, <2>1, DoneSet
<1>6. ASSUME i.op = "sc" PROVE Done(INTERPRET_LOADSTORE(s, i), i, M, Z)
  <2>1. On(INTERPRET_LOADSTORE(s, i), {}, Interpret(M, i), Z)
    BY <1>1, <1>4, <1>6, CallScOn
  <2>2. QED
    BY <2>1, DoneOn
<1>7. ASSUME i.op \in {"swl", "swr", "sdl", "sdr"} PROVE Done(INTERPRET_LOADSTORE(s, i), i, M, Z)
  <2>1. On(INTERPRET_LOADSTORE(s, i), {}, Interpret(M, i), Z)
    BY <1>1, <1>7, CallStoreOn DEF CalledStores
  <2>2. QED
    BY <2>1, DoneOn
<1>8. QED
  BY <1>2, <1>3, <1>4, <1>5, <1>6, <1>7

\* Every integer instruction leaves the interpreter's machine.
LEMMA IntegerDone ==
    ASSUME NEW s0, NEW i \in Instruction, i.op \in IntegerOps, NEW s, s = InitRdRsRt(s0, i), NEW M, NEW Z,
           Begins(s, i, M, Z), Defined(M, i), ~Diverges(M, s, i), i.op = "sc" => i.sa \in {0, 1}
    PROVE  Done(CompileInteger(s0, i), i, M, Z)
<1>0. PICK c : c = CompileInteger(s0, i)
  OBVIOUS
<1>1. CASE i.op \in {"add", "sub", "dsub"}
  <2>1. c = dyna4300i_special_sub(s, i)
    BY <1>0, <1>1 DEF CompileInteger
  <2>2. Done(dyna4300i_special_sub(s, i), i, M, Z)
    BY <1>1, AdditionsDone
  <2>3. QED
    BY <1>0, <2>1, <2>2
<1>2. CASE i.op = "addi"
  <2>1. c = dyna4300i_addi(s, i)
    BY <1>0, <1>2 DEF CompileInteger
  <2>2. Done(dyna4300i_addi(s, i), i, M, Z)
    BY <1>2, AdditionsDone
  <2>3. QED
    BY <1>0, <2>1, <2>2
<1>3. CASE i.op = "dadd"
  <2>1. c = dyna4300i_special_dadd(s, i)
    BY <1>0, <1>3 DEF CompileInteger
  <2>2. Done(dyna4300i_special_dadd(s, i), i, M, Z)
    BY <1>3, AdditionsDone
  <2>3. QED
    BY <1>0, <2>1, <2>2
<1>4. CASE i.op = "daddi"
  <2>1. c = dyna4300i_daddi(s, i)
    BY <1>0, <1>4 DEF CompileInteger
  <2>2. Done(dyna4300i_daddi(s, i), i, M, Z)
    BY <1>4, AdditionsDone
  <2>3. QED
    BY <1>0, <2>1, <2>2
<1>5. CASE i.op = "and"
  <2>1. c = dyna4300i_special_and(s, i)
    BY <1>0, <1>5 DEF CompileInteger
  <2>2. Done(dyna4300i_special_and(s, i), i, M, Z)
    BY <1>5, GatesDone
  <2>3. QED
    BY <1>0, <2>1, <2>2
<1>6. CASE i.op = "or"
  <2>1. c = dyna4300i_special_or(s, i)
    BY <1>0, <1>6 DEF CompileInteger
  <2>2. Done(dyna4300i_special_or(s, i), i, M, Z)
    BY <1>6, GatesDone
  <2>3. QED
    BY <1>0, <2>1, <2>2
<1>7. CASE i.op = "xor"
  <2>1. c = dyna4300i_special_xor(s, i)
    BY <1>0, <1>7 DEF CompileInteger
  <2>2. Done(dyna4300i_special_xor(s, i), i, M, Z)
    BY <1>7, GatesDone
  <2>3. QED
    BY <1>0, <2>1, <2>2
<1>8. CASE i.op = "nor"
  <2>1. c = dyna4300i_special_nor(s, i)
    BY <1>0, <1>8 DEF CompileInteger
  <2>2. Done(dyna4300i_special_nor(s, i), i, M, Z)
    BY <1>8, GatesDone
  <2>3. QED
    BY <1>0, <2>1, <2>2
<1>9. CASE i.op = "andi"
  <2>1. c = dyna4300i_andi(s, i)
    BY <1>0, <1>9 DEF CompileInteger
  <2>2. Done(dyna4300i_andi(s, i), i, M, Z)
    BY <1>9, ImmediatesDone
  <2>3. QED
    BY <1>0, <2>1, <2>2
<1>10. CASE i.op = "ori"
  <2>1. c = dyna4300i_ori(s, i)
    BY <1>0, <1>10 DEF CompileInteger
  <2>2. Done(dyna4300i_ori(s, i), i, M, Z)
    BY <1>10, ImmediatesDone
  <2>3. QED
    BY <1>0, <2>1, <2>2
<1>11. CASE i.op = "xori"
  <2>1. c = dyna4300i_xori(s, i)
    BY <1>0, <1>11 DEF CompileInteger
  <2>2. Done(dyna4300i_xori(s, i), i, M, Z)
    BY <1>11, ImmediatesDone
  <2>3. QED
    BY <1>0, <2>1, <2>2
<1>12. CASE i.op = "lui"
  <2>1. c = dyna4300i_lui(s, i)
    BY <1>0, <1>12 DEF CompileInteger
  <2>2. Done(dyna4300i_lui(s, i), i, M, Z)
    BY <1>12, ImmediatesDone
  <2>3. QED
    BY <1>0, <2>1, <2>2
<1>13. CASE i.op \in {"slt", "sltu"}
  <2>1. c = dyna4300i_special_slt(s, i)
    BY <1>0, <1>13 DEF CompileInteger
  <2>2. Done(dyna4300i_special_slt(s, i), i, M, Z)
    BY <1>13, ComparisonsDone
  <2>3. QED
    BY <1>0, <2>1, <2>2
<1>14. CASE i.op \in {"slti", "sltiu"}
  <2>1. c = dyna4300i_slti(s, i)
    BY <1>0, <1>14 DEF CompileInteger
  <2>2. Done(dyna4300i_slti(s, i), i, M, Z)
    BY <1>14, ComparisonsDone
  <2>3. QED
    BY <1>0, <2>1, <2>2
<1>15. CASE i.op \in {"sll", "srl", "sra"}
  <2>1. c = dyna4300i_special_shift(s, i)
    BY <1>0, <1>15 DEF CompileInteger
  <2>2. Done(dyna4300i_special_shift(s, i), i, M, Z)
    BY <1>15, ShiftsDone
  <2>3. QED
    BY <1>0, <2>1, <2>2
<1>16. CASE i.op \in {"sllv", "srlv", "srav"}
  <2>1. c = dyna4300i_shift_var(s, i)
    BY <1>0, <1>16 DEF CompileInteger
  <2>2. Done(dyna4300i_shift_var(s, i), i, M, Z)
    BY <1>16, ShiftsDone
  <2>3. QED
    BY <1>0, <2>1, <2>2
<1>17. CASE i.op = "dsra"
  <2>1. c = dyna4300i_special_dsra(s, i)
    BY <1>0, <1>17 DEF CompileInteger
  <2>2. Done(dyna4300i_special_dsra(s, i), i, M, Z)
    BY <1>17, WideShiftsDone
  <2>3. QED
    BY <1>0, <2>1, <2>2
<1>18. CASE i.op = "dsll32"
  <2>1. c = dyna4300i_special_dsll32(s, i)
    BY <1>0, <1>18 DEF CompileInteger
  <2>2. Done(dyna4300i_special_dsll32(s, i), i, M, Z)
    BY <1>18, WideShiftsDone
  <2>3. QED
    BY <1>0, <2>1, <2>2
<1>19. CASE i.op = "dsrl32"
  <2>1. c = dyna4300i_special_dsrl32(s, i)
    BY <1>0, <1>19 DEF CompileInteger
  <2>2. Done(dyna4300i_special_dsrl32(s, i), i, M, Z)
    BY <1>19, WideShiftsDone
  <2>3. QED
    BY <1>0, <2>1, <2>2
<1>20. CASE i.op = "dsra32"
  <2>1. c = dyna4300i_special_dsra32(s, i)
    BY <1>0, <1>20 DEF CompileInteger
  <2>2. Done(dyna4300i_special_dsra32(s, i), i, M, Z)
    BY <1>20, WideShiftsDone
  <2>3. QED
    BY <1>0, <2>1, <2>2
<1>21. CASE i.op \in {"mfhi", "mflo", "mthi", "mtlo"}
  <2>1. c = dyna4300i_mf_mt(s, i)
    BY <1>0, <1>21 DEF CompileInteger
  <2>2. Done(dyna4300i_mf_mt(s, i), i, M, Z)
    BY <1>21, MovesDone
  <2>3. QED
    BY <1>0, <2>1, <2>2
<1>22. CASE i.op \in {"mult", "multu"}
  <2>1. c = dyna4300i_special_mul(s, i)
    BY <1>0, <1>22 DEF CompileInteger
  <2>2. Done(dyna4300i_special_mul(s, i), i, M, Z)
    BY <1>22, ProductsDone
  <2>3. QED
    BY <1>0, <2>1, <2>2
<1>23. CASE i.op \in {"div", "divu"}
  <2>1. c = dyna4300i_special_div(s, i)
    BY <1>0, <1>23 DEF CompileInteger
  <2>2. Done(dyna4300i_special_div(s, i), i, M, Z)
    BY <1>23, ProductsDone
  <2>3. QED
    BY <1>0, <2>1, <2>2
<1>24. CASE i.op \in {"ddiv", "ddivu"}
  <2>1. c = dyna4300i_special_ddiv(s, i)
    BY <1>0, <1>24 DEF CompileInteger
  <2>2. Done(dyna4300i_special_ddiv(s, i), i, M, Z)
    BY <1>24, ProductsDone
  <2>3. QED
    BY <1>0, <2>1, <2>2
<1>25. CASE i.op \in {"dmult", "dmultu"}
  <2>1. c = INTERPRET(s, i)
    BY <1>0, <1>25 DEF CompileInteger
  <2>2. Done(INTERPRET(s, i), i, M, Z)
    BY <1>25, ProductsDone
  <2>3. QED
    BY <1>0, <2>1, <2>2
<1>26. CASE i.op \in {"lb", "lbu", "lh", "lhu", "lw", "ld"}
  <2>1. c = Load(s, i)
    BY <1>0, <1>26 DEF CompileInteger
  <2>2. Done(Load(s, i), i, M, Z)
    BY <1>26, LoadsDone DEF NativeLoads
  <2>3. QED
    BY <1>0, <2>1, <2>2
<1>27. CASE i.op = "sb"
  <2>1. c = dyna4300i_sb(s, i)
    BY <1>0, <1>27 DEF CompileInteger
  <2>2. Done(dyna4300i_sb(s, i), i, M, Z)
    BY <1>27, StoresDone
  <2>3. QED
    BY <1>0, <2>1, <2>2
<1>28. CASE i.op = "sh"
  <2>1. c = dyna4300i_sh(s, i)
    BY <1>0, <1>28 DEF CompileInteger
  <2>2. Done(dyna4300i_sh(s, i), i, M, Z)
    BY <1>28, StoresDone
  <2>3. QED
    BY <1>0, <2>1, <2>2
<1>29. CASE i.op = "sw"
  <2>1. c = dyna4300i_sw(s, i)
    BY <1>0, <1>29 DEF CompileInteger
  <2>2. Done(dyna4300i_sw(s, i), i, M, Z)
    BY <1>29, StoresDone
  <2>3. QED
    BY <1>0, <2>1, <2>2
<1>30. CASE i.op = "sd"
  <2>1. c = dyna4300i_sd(s, i)
    BY <1>0, <1>30 DEF CompileInteger
  <2>2. Done(dyna4300i_sd(s, i), i, M, Z)
    BY <1>30, StoresDone
  <2>3. QED
    BY <1>0, <2>1, <2>2
<1>31. CASE i.op \in {"dsllv", "dsrlv", "dsrav", "dsll", "dsrl"}
  <2>1. c = INTERPRET(s, i)
    BY <1>0, <1>31 DEF CompileInteger
  <2>2. Done(INTERPRET(s, i), i, M, Z)
    BY <1>31, CalledDone
  <2>3. QED
    BY <1>0, <2>1, <2>2
<1>32. CASE i.op \in CalledLoads
  <2>1. c = (IF i.rt = R0 THEN s ELSE INTERPRET_LOADSTORE(s, i))
    BY <1>0, <1>32 DEF CompileInteger, CalledLoads
  <2>2. Done(IF i.rt = R0 THEN s ELSE INTERPRET_LOADSTORE(s, i), i, M, Z)
    BY <1>32, CalledDone
  <2>3. QED
    BY <1>0, <2>1, <2>2
<1>33. CASE i.op \in {"sc", "swl", "swr", "sdl", "sdr"}
  <2>1. c = INTERPRET_LOADSTORE(s, i)
    BY <1>0, <1>33 DEF CompileInteger
  <2>2. Done(INTERPRET_LOADSTORE(s, i), i, M, Z)
    BY <1>33, CalledDone
  <2>3. QED
    BY <1>0, <2>1, <2>2
<1>34. QED
  BY <1>1, <1>2, <1>3, <1>4, <1>5, <1>6, <1>7, <1>8, <1>9, <1>10, <1>11, <1>12, <1>13, <1>14, <1>15, <1>16, <1>17, <1>18, <1>19, <1>20, <1>21, <1>22, <1>23, <1>24, <1>25, <1>26, <1>27, <1>28, <1>29, <1>30, <1>31, <1>32, <1>33 DEF IntegerOps, CalledLoads

\* The dispatch table, for the integer instructions: compiled in a state that stands
\* for the machine M, an instruction leaves one that stands for M after the
\* interpreter's step, for all registers but r0 and those of Y, which it does not
\* name, unless it is one of the divergences.
THEOREM IntegerOn ==
    ASSUME NEW s, NEW M, NEW Y, On(s, {}, M, Y \cup {R0}), NEW i \in Instruction, i.op \in IntegerOps,
           Typing(i), Named(i), {i.rd, i.rs, i.rt, HI, LO} \cap Y = {}, Defined(M, i), ~Diverges(M, s, i),
           i.op = "sc" => i.sa \in {0, 1}
    PROVE  On(CompileInteger(s, i), {}, ClearR0(Interpret(M, i)), Y \cup {R0})
<1>1. PICK Z : Z \subseteq Y \cup {R0} /\ Begins(InitRdRsRt(s, i), i, M, Z)
  BY InitBegins
<1>2. ~Diverges(M, InitRdRsRt(s, i), i)
  <2>1. SameView(s, InitRdRsRt(s, i)) /\ Fields(i)
    BY InitSame, NamedFacts
  <2>2. QED
    BY <2>1, ViewDiverges
<1>3. On(CompileInteger(s, i), {}, ClearR0(Interpret(M, i)), Z \cup {R0})
  BY <1>1, <1>2, IntegerDone DEF Done
<1>4. QED
  BY <1>1, <1>3, FewerFollows DEF On

-------------------------------------------------------------------------------
(* What both do to the rest of the machine alike                             *)

\* A block's state and a machine that agree on everything but the registers.
Paired(t, M) == Typed(t) /\ Image(t) /\ Machine(M) /\ Aside(t, M)
\* From t to u and from M to N everything but the registers changes alike.
Twins(t, u, M, N) == Alongside(t, u) /\ Machine(N) /\ N.gpr = M.gpr /\ Aside(u, N)

\* A block is paired with the machine it follows,
LEMMA PairedOn ==
    ASSUME NEW t, NEW p, NEW M, NEW Z, On(t, p, M, Z)
    PROVE  Paired(t, M)
BY DEF On, Good, Follows, Paired

\* and follows it when both change alike.
LEMMA TwinsOn ==
    ASSUME NEW t, NEW p, NEW M, NEW Z, On(t, p, M, Z), NEW u, NEW N, Twins(t, u, M, N)
    PROVE  /\ On(u, p, N, Z)
           /\ \A k \in Host : Saved(t, k) => Saved(u, k)
           /\ \A r \in Reg : InMemory(t, r) => InMemory(u, r)
BY AlongsideOn DEF Twins

\* Such changes leave both paired,
LEMMA TwinsPaired ==
    ASSUME NEW t, NEW M, Paired(t, M), NEW u, NEW N, Twins(t, u, M, N)
    PROVE  Paired(u, N)
<1>1. Alongside(t, u) /\ Machine(N) /\ Aside(u, N) /\ Image(t)
  BY DEF Twins, Paired
<1>2. Typed(u) /\ u.const = t.const
  BY <1>1 DEF Alongside, Same, Rest
<1>3. Image(u)
  BY <1>1, <1>2 DEF Image, Alongside
<1>4. QED
  BY <1>1, <1>2, <1>3 DEF Paired

\* and follow one another.
LEMMA TwinsChain ==
    ASSUME NEW t, NEW u, NEW v, NEW M, NEW N, NEW O, Twins(t, u, M, N), Twins(u, v, N, O)
    PROVE  Twins(t, v, M, O)
<1>1. Alongside(t, u) /\ Alongside(u, v)
  BY DEF Twins
<1>2. Same(t, v)
  BY <1>1 DEF Alongside, Same, Rest
<1>3. Alongside(t, v)
  BY <1>1, <1>2 DEF Alongside
<1>4. QED
  BY <1>3 DEF Twins

\* Nothing is such a change.
LEMMA TwinsSelf ==
    ASSUME NEW t, NEW M, Paired(t, M)
    PROVE  Twins(t, t, M, M)
<1>1. Typed(t) /\ Image(t) /\ Machine(M) /\ Aside(t, M)
  BY DEF Paired
<1>2. Alongside(t, t)
  BY <1>1 DEF Alongside, Same, Rest, Image
<1>3. QED
  BY <1>1, <1>2 DEF Twins

\* A cell of the floating-point registers,
LEMMA CellTwins ==
    ASSUME NEW t, NEW M, Paired(t, M), NEW f, NEW w \in Word
    PROVE  Twins(t, SetCell(t, f, w), M, SetCell(M, f, w))
<1>1. PICK u, N : u = SetCell(t, f, w) /\ N = SetCell(M, f, w)
  OBVIOUS
<1>2. Typed(t) /\ Image(t) /\ Machine(M) /\ Aside(t, M)
  BY DEF Paired
<1>3. PICK c : c = [t.fpr EXCEPT ![f] = w]
  OBVIOUS
<1>4. u = [t EXCEPT !.fpr = c]
  BY <1>1, <1>3 DEF SetCell
<1>5. N = [M EXCEPT !.fpr = c]
  BY <1>1, <1>2, <1>3 DEF SetCell, Aside
<1>6. c \in [Cells -> Word]
  BY <1>2, <1>3 DEF Image
<1>7. Typed(u) /\ Same(t, u)
  BY <1>2, <1>4 DEF Typed, Same, Rest
<1>8. /\ u.host = t.host /\ u.gpr = t.gpr /\ u.flushed = t.flushed /\ u.stack = t.stack /\ u.dead = t.dead
      /\ u.now = t.now /\ u.year = t.year /\ u.fpr = c /\ u.con31 = t.con31 /\ u.rc = t.rc /\ u.exit = t.exit
      /\ u.store = t.store
  BY <1>2, <1>4 DEF Typed
<1>9. /\ N.gpr = M.gpr /\ N.fpr = c /\ N.con31 = M.con31 /\ N.rc = M.rc /\ N.exit = M.exit
      /\ N.store = M.store /\ Machine(N)
  BY <1>2, <1>5, <1>6 DEF Machine
<1>10. Alongside(t, u)
  BY <1>2, <1>6, <1>7, <1>8 DEF Alongside, Image
<1>11. Aside(u, N)
  BY <1>2, <1>8, <1>9 DEF Aside
<1>12. QED
  BY <1>1, <1>9, <1>10, <1>11 DEF Twins

\* or the two of a double,
LEMMA DoubleTwins ==
    ASSUME NEW t, NEW M, Paired(t, M), NEW f, NEW d \in Double
    PROVE  Twins(t, write_64bit_fpu_reg(t, f, d), M, write_64bit_fpu_reg(M, f, d))
<1>1. Low(d) \in Word /\ High(d) \in Word
  BY Pairs
<1>2. PICK u, N : u = SetCell(t, f, Low(d)) /\ N = SetCell(M, f, Low(d))
  OBVIOUS
<1>3. Twins(t, u, M, N)
  BY <1>1, <1>2, CellTwins
<1>4. Paired(u, N)
  BY <1>3, TwinsPaired
<1>5. PICK v, O : v = SetCell(u, f + FR_reg_offset, High(d)) /\ O = SetCell(N, f + FR_reg_offset, High(d))
  OBVIOUS
<1>6. Twins(u, v, N, O)
  BY <1>1, <1>4, <1>5, CellTwins
<1>7. QED
  BY <1>2, <1>3, <1>5, <1>6, TwinsChain DEF write_64bit_fpu_reg

\* the control register and the rounding,
LEMMA ControlTwins ==
    ASSUME NEW t, NEW M, Paired(t, M), NEW c \in Word, NEW r \in Word
    PROVE  Twins(t, [t EXCEPT !.con31 = c, !.rc = r], M, [M EXCEPT !.con31 = c, !.rc = r])
<1>1. PICK u, N : u = [t EXCEPT !.con31 = c, !.rc = r] /\ N = [M EXCEPT !.con31 = c, !.rc = r]
  OBVIOUS
<1>2. Typed(t) /\ Image(t) /\ Machine(M) /\ Aside(t, M)
  BY DEF Paired
<1>3. Typed(u) /\ Same(t, u)
  BY <1>1, <1>2 DEF Typed, Same, Rest
<1>8. /\ u.host = t.host /\ u.gpr = t.gpr /\ u.flushed = t.flushed /\ u.stack = t.stack /\ u.dead = t.dead
      /\ u.now = t.now /\ u.year = t.year /\ u.fpr = t.fpr /\ u.con31 = c /\ u.rc = r /\ u.exit = t.exit
      /\ u.store = t.store
  BY <1>1, <1>2 DEF Typed
<1>9. /\ N.gpr = M.gpr /\ N.fpr = M.fpr /\ N.con31 = c /\ N.rc = r /\ N.exit = M.exit
      /\ N.store = M.store /\ Machine(N)
  BY <1>1, <1>2 DEF Machine
<1>10. Alongside(t, u)
  BY <1>2, <1>3, <1>8 DEF Alongside, Image
<1>11. Aside(u, N)
  BY <1>2, <1>8, <1>9 DEF Aside
<1>12. QED
  BY <1>1, <1>9, <1>10, <1>11 DEF Twins

\* and a store.
LEMMA StoreTwins ==
    ASSUME NEW t, NEW M, Paired(t, M), NEW size, NEW a, NEW data
    PROVE  Twins(t, Store(t, size, a, data), M, Store(M, size, a, data))
<1>1. PICK u, N : u = Store(t, size, a, data) /\ N = Store(M, size, a, data)
  OBVIOUS
<1>2. Typed(t) /\ Image(t) /\ Machine(M) /\ Aside(t, M)
  BY DEF Paired
<1>3. PICK w : w = <<size, a, data>>
  OBVIOUS
<1>4. u = [t EXCEPT !.store = w] /\ N = [M EXCEPT !.store = w]
  BY <1>1, <1>3 DEF Store
<1>5. Typed(u) /\ Same(t, u)
  BY <1>2, <1>4, SetOther
<1>8. /\ u.host = t.host /\ u.gpr = t.gpr /\ u.flushed = t.flushed /\ u.stack = t.stack /\ u.dead = t.dead
      /\ u.now = t.now /\ u.year = t.year /\ u.fpr = t.fpr /\ u.con31 = t.con31 /\ u.rc = t.rc /\ u.exit = t.exit
      /\ u.store = w
  BY <1>2, <1>4 DEF Typed
<1>9. /\ N.gpr = M.gpr /\ N.fpr = M.fpr /\ N.con31 = M.con31 /\ N.rc = M.rc /\ N.exit = M.exit
      /\ N.store = w /\ Machine(N)
  BY <1>2, <1>4 DEF Machine
<1>10. Alongside(t, u)
  BY <1>2, <1>5, <1>8 DEF Alongside, Image
<1>11. Aside(u, N)
  BY <1>2, <1>8, <1>9 DEF Aside
<1>12. QED
  BY <1>1, <1>9, <1>10, <1>11 DEF Twins

\* The rounding alone, and the control register alone.
LEMMA RoundTwins ==
    ASSUME NEW t, NEW M, Paired(t, M)
    PROVE  Twins(t, SET_ROUNDING(t), M, SET_ROUNDING(M))
<1>1. Typed(t) /\ Image(t) /\ Machine(M) /\ Aside(t, M)
  BY DEF Paired
<1>2. SET_ROUNDING(t) = [t EXCEPT !.con31 = t.con31, !.rc = 0]
  BY <1>1 DEF SET_ROUNDING, Nearest, Typed
<1>3. SET_ROUNDING(M) = [M EXCEPT !.con31 = t.con31, !.rc = 0]
  BY <1>1 DEF SET_ROUNDING, Nearest, Machine, Aside
<1>4. t.con31 \in Word /\ 0 \in Word
  BY <1>1, Signs DEF Image
<1>5. Twins(t, [t EXCEPT !.con31 = t.con31, !.rc = 0], M, [M EXCEPT !.con31 = t.con31, !.rc = 0])
  BY <1>4, ControlTwins
<1>6. QED
  BY <1>2, <1>3, <1>5

\* Both write the same control word,
LEMMA FlagTwins ==
    ASSUME NEW t, NEW M, Paired(t, M), NEW c \in Word
    PROVE  Twins(t, [t EXCEPT !.con31 = c], M, [M EXCEPT !.con31 = c])
<1>1. Typed(t) /\ Image(t) /\ Machine(M) /\ Aside(t, M)
  BY DEF Paired
<1>2. [t EXCEPT !.con31 = c] = [t EXCEPT !.con31 = c, !.rc = t.rc]
  BY <1>1 DEF Typed
<1>3. [M EXCEPT !.con31 = c] = [M EXCEPT !.con31 = c, !.rc = t.rc]
  BY <1>1 DEF Machine, Aside
<1>4. t.rc \in Word
  BY <1>1 DEF Image
<1>5. Twins(t, [t EXCEPT !.con31 = c, !.rc = t.rc], M, [M EXCEPT !.con31 = c, !.rc = t.rc])
  BY <1>4, ControlTwins
<1>6. QED
  BY <1>2, <1>3, <1>5

\* The condition bit is the top bit of a word.
LEMMA FlagWord ==
    ASSUME NEW c \in Word, NEW holds
    PROVE  (c % 2 ^ (W - 1)) + (IF holds THEN 2 ^ (W - 1) ELSE 0) \in Word
<1>1. PICK a, b : a = 2 ^ W /\ b = 2 ^ (W - 1)
  OBVIOUS
<1>2. a \in Nat /\ b \in Nat \ {0} /\ a = 2 * b
  BY <1>1, Widths
<1>3. c \in Int
  BY Cut
<1>4. c % b \in 0 .. b - 1
  BY <1>2, <1>3
<1>5. (c % b) + (IF holds THEN b ELSE 0) \in 0 .. a - 1
  BY <1>2, <1>4
<1>6. QED
  BY <1>1, <1>5 DEF Word

\* and the same condition.
LEMMA ConditionTwins ==
    ASSUME NEW t, NEW M, Paired(t, M), NEW holds
    PROVE  Twins(t, SetCondition(t, holds), M, SetCondition(M, holds))
<1>1. t.con31 \in Word /\ M.con31 = t.con31
  BY DEF Paired, Image, Aside
<1>2. PICK c : c = (t.con31 % 2 ^ (W - 1)) + (IF holds THEN 2 ^ (W - 1) ELSE 0)
  OBVIOUS
<1>3. c \in Word
  BY <1>1, <1>2, FlagWord
<1>4. SetCondition(t, holds) = [t EXCEPT !.con31 = c] /\ SetCondition(M, holds) = [M EXCEPT !.con31 = c]
  BY <1>1, <1>2 DEF SetCondition
<1>5. QED
  BY <1>3, <1>4, FlagTwins

\* ctc1: the register and the rounding.
LEMMA ControlWordTwins ==
    ASSUME NEW t, NEW M, Paired(t, M), NEW i, i.rt \in Reg, t.gpr[i.rt] = M.gpr[i.rt]
    PROVE  Twins(t, r4300i_COP1_ctc1(t, i), M, r4300i_COP1_ctc1(M, i))
<1>1. Typed(t) /\ Image(t) /\ Machine(M) /\ Aside(t, M)
  BY DEF Paired
<1>2. PICK c : c = Low(t.gpr[i.rt])
  OBVIOUS
<1>3. c \in Word
  BY <1>1, <1>2, Pairs DEF Image
<1>4. PICK r : r = IF RM(c) = RM(t.con31) THEN t.rc ELSE RM(c)
  OBVIOUS
<1>5. RM(c) \in Word
  <2>1. PICK a, b : a = 2 ^ W /\ b = 2 ^ Half
    OBVIOUS
  <2>2. a \in Nat /\ b \in Nat \ {0} /\ a = b * b
    BY <2>1, Widths
  <2>3. c \in Int
    BY <1>3, Cut
  <2>4. c % b \in 0 .. b - 1
    BY <2>2, <2>3
  <2>5. b <= a
    BY <2>2
  <2>6. QED
    BY <2>1, <2>2, <2>4, <2>5 DEF RM, Word
<1>6. r \in Word
  BY <1>1, <1>4, <1>5 DEF Image
<1>7. r4300i_COP1_ctc1(t, i) = IF i.fs # CON31 THEN t ELSE [t EXCEPT !.con31 = c, !.rc = r]
  BY <1>1, <1>2, <1>4 DEF r4300i_COP1_ctc1, RT, lo, Typed
<1>8. r4300i_COP1_ctc1(M, i) = IF i.fs # CON31 THEN M ELSE [M EXCEPT !.con31 = c, !.rc = r]
  BY <1>1, <1>2, <1>4 DEF r4300i_COP1_ctc1, RT, lo, Machine, Aside
<1>9. Twins(t, [t EXCEPT !.con31 = c, !.rc = r], M, [M EXCEPT !.con31 = c, !.rc = r])
  BY <1>3, <1>6, ControlTwins
<1>10. Twins(t, t, M, M)
  BY TwinsSelf
<1>11. CASE i.fs # CON31
  BY <1>7, <1>8, <1>10, <1>11
<1>12. CASE i.fs = CON31
  BY <1>7, <1>8, <1>9, <1>12
<1>13. QED
  BY <1>11, <1>12

\* A cell, or a double, under the rounding that is set first.
LEMMA RoundedTwins ==
    ASSUME NEW t, NEW M, Paired(t, M), NEW f, NEW d \in Double
    PROVE  /\ Twins(t, SetCell(SET_ROUNDING(t), f, Low(d)), M, SetCell(SET_ROUNDING(M), f, Low(d)))
           /\ Twins(t, write_64bit_fpu_reg(SET_ROUNDING(t), f, d), M, write_64bit_fpu_reg(SET_ROUNDING(M), f, d))
<1>1. PICK u, N : u = SET_ROUNDING(t) /\ N = SET_ROUNDING(M)
  OBVIOUS
<1>2. Twins(t, u, M, N)
  BY <1>1, RoundTwins
<1>3. Paired(u, N)
  BY <1>2, TwinsPaired
<1>4. Low(d) \in Word
  BY Pairs
<1>5. Twins(u, SetCell(u, f, Low(d)), N, SetCell(N, f, Low(d)))
  BY <1>3, <1>4, CellTwins
<1>6. Twins(u, write_64bit_fpu_reg(u, f, d), N, write_64bit_fpu_reg(N, f, d))
  BY <1>3, DoubleTwins
<1>7. QED
  BY <1>1, <1>2, <1>5, <1>6, TwinsChain

-------------------------------------------------------------------------------
(* The floating-point instructions                                           *)

\* The fields of a floating-point instruction are formats and registers.
FloatReady(i) ==
    /\ i.fmt \in Formats /\ i.to \in Formats
    /\ \A f \in {i.fs, i.ft, i.fd} : {f, f + FR_reg_offset} \subseteq Cells

\* Both read the same there.
LEMMA CellsAlike ==
    ASSUME NEW t, NEW M, Paired(t, M), NEW f, {f, f + FR_reg_offset} \subseteq Cells
    PROVE  /\ t.fpr[f] = M.fpr[f] /\ t.fpr[f] \in Word /\ t.fpr[f] \in Double
           /\ read_64bit_fpu_reg(t, f) = read_64bit_fpu_reg(M, f) /\ read_64bit_fpu_reg(t, f) \in Double
<1>1. t.fpr = M.fpr /\ t.fpr \in [Cells -> Word]
  BY DEF Paired, Aside, Image
<1>2. t.fpr[f] \in Word /\ t.fpr[f + FR_reg_offset] \in Word
  BY <1>1
<1>3. Pair(t.fpr[f], t.fpr[f + FR_reg_offset]) \in Double
  BY <1>2, Pairs
<1>4. QED
  BY <1>1, <1>2, <1>3, Signs DEF read_64bit_fpu_reg

\* What the x87 computes.
LEMMA Computed ==
    ASSUME NEW op \in FloatBinary \cup FloatUnary \cup Methods \cup {"cvts", "cvtd"}, NEW fmt \in Formats,
           NEW x \in Double, NEW y \in Double, NEW mode \in Word
    PROVE  Fpu(op, fmt, x, y, mode) \in Double /\ Low(Fpu(op, fmt, x, y, mode)) \in Word
<1>1. PICK d : d = Fpu(op, fmt, x, y, mode)
  OBVIOUS
<1>2. d \in Double
  BY <1>1, FpuAssumption
<1>3. QED
  BY <1>1, <1>2, Pairs

\* The arithmetic changes both alike.
LEMMA ArithmeticTwins ==
    ASSUME NEW t, NEW M, Paired(t, M), NEW i, FloatReady(i)
    PROVE  /\ i.op \in FloatBinary => /\ Twins(t, r4300i_COP1_binary_s(t, i), M, r4300i_COP1_binary_s(M, i))
                                      /\ Twins(t, r4300i_COP1_binary_d(t, i), M, r4300i_COP1_binary_d(M, i))
                                      /\ Twins(t, r4300i_COP1_div_d(t, i), M, r4300i_COP1_div_d(M, i))
           /\ i.op \in FloatUnary => /\ Twins(t, r4300i_COP1_unary_s(t, i), M, r4300i_COP1_unary_s(M, i))
                                     /\ Twins(t, r4300i_COP1_unary_d(t, i), M, r4300i_COP1_unary_d(M, i))
<1>1. i.fmt \in Formats /\ 0 \in Double /\ Nearest \in Word
  BY Signs DEF FloatReady, Nearest
<1>2. /\ {i.fs, i.fs + FR_reg_offset} \subseteq Cells /\ {i.ft, i.ft + FR_reg_offset} \subseteq Cells
  BY DEF FloatReady
<1>3. PICK a, b : a = t.fpr[i.fs] /\ b = t.fpr[i.ft]
  OBVIOUS
<1>4. PICK c, d : c = read_64bit_fpu_reg(t, i.fs) /\ d = read_64bit_fpu_reg(t, i.ft)
  OBVIOUS
<1>5. a = M.fpr[i.fs] /\ a \in Double /\ c = read_64bit_fpu_reg(M, i.fs) /\ c \in Double
  BY <1>2, <1>3, <1>4, CellsAlike
<1>6. b = M.fpr[i.ft] /\ b \in Double /\ d = read_64bit_fpu_reg(M, i.ft) /\ d \in Double
  BY <1>2, <1>3, <1>4, CellsAlike
<1>7. ASSUME NEW x \in Double, NEW y \in Double, i.op \in FloatBinary \cup FloatUnary
      PROVE  Twins(t, Single(t, i, x, y), M, Single(M, i, x, y)) /\ Twins(t, Dbl(t, i, x, y), M, Dbl(M, i, x, y))
  <2>1. PICK e : e = Fpu(i.op, i.fmt, x, y, Nearest)
    OBVIOUS
  <2>2. e \in Double
    BY <1>1, <1>7, <2>1, Computed
  <2>3. /\ Single(t, i, x, y) = SetCell(SET_ROUNDING(t), i.fd, Low(e))
        /\ Single(M, i, x, y) = SetCell(SET_ROUNDING(M), i.fd, Low(e))
        /\ Dbl(t, i, x, y) = write_64bit_fpu_reg(SET_ROUNDING(t), i.fd, e)
        /\ Dbl(M, i, x, y) = write_64bit_fpu_reg(SET_ROUNDING(M), i.fd, e)
    BY <2>1 DEF Single, Dbl
  <2>4. QED
    BY <2>2, <2>3, RoundedTwins
<1>8. ASSUME i.op \in FloatBinary
      PROVE  /\ Twins(t, r4300i_COP1_binary_s(t, i), M, r4300i_COP1_binary_s(M, i))
             /\ Twins(t, r4300i_COP1_binary_d(t, i), M, r4300i_COP1_binary_d(M, i))
             /\ Twins(t, r4300i_COP1_div_d(t, i), M, r4300i_COP1_div_d(M, i))
  <2>1. r4300i_COP1_binary_s(t, i) = Single(t, i, a, b) /\ r4300i_COP1_binary_s(M, i) = Single(M, i, a, b)
    BY <1>3, <1>5, <1>6 DEF r4300i_COP1_binary_s
  <2>2. r4300i_COP1_binary_d(t, i) = Dbl(t, i, c, d) /\ r4300i_COP1_binary_d(M, i) = Dbl(M, i, c, d)
    BY <1>4, <1>5, <1>6 DEF r4300i_COP1_binary_d
  <2>3. Twins(t, Single(t, i, a, b), M, Single(M, i, a, b)) /\ Twins(t, Dbl(t, i, c, d), M, Dbl(M, i, c, d))
    BY <1>5, <1>6, <1>7, <1>8
  <2>4. Twins(t, SET_ROUNDING(t), M, SET_ROUNDING(M))
    BY RoundTwins
  <2>5. CASE Order(d, 0) = "equal"
    <3>1. r4300i_COP1_div_d(t, i) = SET_ROUNDING(t) /\ r4300i_COP1_div_d(M, i) = SET_ROUNDING(M)
      BY <2>5, <1>4, <1>6 DEF r4300i_COP1_div_d
    <3>2. QED
      BY <2>1, <2>2, <2>3, <2>4, <3>1
  <2>6. CASE Order(d, 0) # "equal"
    <3>1. r4300i_COP1_div_d(t, i) = r4300i_COP1_binary_d(t, i) /\ r4300i_COP1_div_d(M, i) = r4300i_COP1_binary_d(M, i)
      BY <2>6, <1>4, <1>6 DEF r4300i_COP1_div_d
    <3>2. QED
      BY <2>1, <2>2, <2>3, <3>1
  <2>7. QED
    BY <2>5, <2>6
<1>9. ASSUME i.op \in FloatUnary
      PROVE  /\ Twins(t, r4300i_COP1_unary_s(t, i), M, r4300i_COP1_unary_s(M, i))
             /\ Twins(t, r4300i_COP1_unary_d(t, i), M, r4300i_COP1_unary_d(M, i))
  <2>1. r4300i_COP1_unary_s(t, i) = Single(t, i, a, 0) /\ r4300i_COP1_unary_s(M, i) = Single(M, i, a, 0)
    BY <1>3, <1>5 DEF r4300i_COP1_unary_s
  <2>2. r4300i_COP1_unary_d(t, i) = Dbl(t, i, c, 0) /\ r4300i_COP1_unary_d(M, i) = Dbl(M, i, c, 0)
    BY <1>4, <1>5 DEF r4300i_COP1_unary_d
  <2>3. Twins(t, Single(t, i, a, 0), M, Single(M, i, a, 0)) /\ Twins(t, Dbl(t, i, c, 0), M, Dbl(M, i, c, 0))
    BY <1>1, <1>5, <1>7, <1>9
  <2>4. QED
    BY <2>1, <2>2, <2>3
<1>10. QED
  BY <1>8, <1>9

\* The comparisons do,
LEMMA ComparisonTwins ==
    ASSUME NEW t, NEW M, Paired(t, M), NEW i, FloatReady(i)
    PROVE  /\ Twins(t, r4300i_C_cond_fmt_s(t, i), M, r4300i_C_cond_fmt_s(M, i))
           /\ Twins(t, r4300i_C_cond_fmt_d(t, i), M, r4300i_C_cond_fmt_d(M, i))
<1>1. ASSUME NEW order
      PROVE  Twins(t, r4300i_C_cond_fmt(t, i, order), M, r4300i_C_cond_fmt(M, i, order))
  <2> DEFINE holds == \/ CondBit(i, 0) /\ order = "unordered"
                      \/ CondBit(i, 1) /\ order = "equal"
                      \/ CondBit(i, 2) /\ order = "less"
  <2>2. Twins(t, SetCondition(t, holds), M, SetCondition(M, holds)) /\ Twins(t, t, M, M)
    BY ConditionTwins, TwinsSelf
  <2>3. CASE order = "unordered" /\ CondBit(i, 3)
    <3>1. r4300i_C_cond_fmt(t, i, order) = t /\ r4300i_C_cond_fmt(M, i, order) = M
      BY <2>3 DEF r4300i_C_cond_fmt
    <3>2. QED
      BY <2>2, <3>1
  <2>4. CASE ~(order = "unordered" /\ CondBit(i, 3))
    <3>1. r4300i_C_cond_fmt(t, i, order) = SetCondition(t, holds) /\ r4300i_C_cond_fmt(M, i, order) = SetCondition(M, holds)
      BY <2>4, Zenon DEF r4300i_C_cond_fmt
    <3>2. QED
      BY <2>2, <3>1
  <2>5. QED
    BY <2>3, <2>4
<1>2. /\ t.fpr[i.fs] = M.fpr[i.fs] /\ t.fpr[i.ft] = M.fpr[i.ft]
      /\ read_64bit_fpu_reg(t, i.fs) = read_64bit_fpu_reg(M, i.fs)
      /\ read_64bit_fpu_reg(t, i.ft) = read_64bit_fpu_reg(M, i.ft)
  BY CellsAlike DEF FloatReady
<1>3. QED
  BY <1>1, <1>2 DEF r4300i_C_cond_fmt_s, r4300i_C_cond_fmt_d

\* so do the conversions,
LEMMA ConversionTwins ==
    ASSUME NEW t, NEW M, Paired(t, M), NEW i, FloatReady(i)
    PROVE  /\ \A method \in Methods : Twins(t, ToInteger(t, i, method), M, ToInteger(M, i, method))
           /\ Twins(t, r4300i_COP1_cvts(t, i), M, r4300i_COP1_cvts(M, i))
           /\ Twins(t, r4300i_COP1_cvtd(t, i), M, r4300i_COP1_cvtd(M, i))
<1>1. i.fmt \in Formats /\ 0 \in Double /\ Nearest \in Word /\ {i.fs, i.fs + FR_reg_offset} \subseteq Cells
  BY Signs DEF FloatReady, Nearest
<1>2. t.rc = M.rc /\ t.rc \in Word
  BY DEF Paired, Aside, Image
<1>3. PICK a : a = Source(t, i)
  OBVIOUS
<1>4. a = Source(M, i) /\ a \in Double
  <2>1. /\ t.fpr[i.fs] = M.fpr[i.fs] /\ t.fpr[i.fs] \in Double
        /\ read_64bit_fpu_reg(t, i.fs) = read_64bit_fpu_reg(M, i.fs) /\ read_64bit_fpu_reg(t, i.fs) \in Double
    BY <1>1, CellsAlike
  <2>2. QED
    BY <1>3, <2>1 DEF Source
<1>5. ASSUME NEW method \in Methods
      PROVE  Twins(t, ToInteger(t, i, method), M, ToInteger(M, i, method))
  <2>1. PICK d : d = Fpu(method, i.fmt, a, 0, Nearest)
    OBVIOUS
  <2>2. d \in Double /\ Low(d) \in Word
    BY <1>1, <1>4, <2>1, Computed
  <2>3. /\ Twins(t, SetCell(t, i.fd, Low(d)), M, SetCell(M, i.fd, Low(d)))
        /\ Twins(t, write_64bit_fpu_reg(t, i.fd, d), M, write_64bit_fpu_reg(M, i.fd, d))
    BY <2>2, CellTwins, DoubleTwins
  <2>4. /\ ToInteger(t, i, method) = IF i.to = "w" THEN SetCell(t, i.fd, Low(d)) ELSE write_64bit_fpu_reg(t, i.fd, d)
        /\ ToInteger(M, i, method) = IF i.to = "w" THEN SetCell(M, i.fd, Low(d)) ELSE write_64bit_fpu_reg(M, i.fd, d)
    BY <1>3, <1>4, <2>1 DEF ToInteger
  <2>5. CASE i.to = "w"
    BY <2>3, <2>4, <2>5
  <2>6. CASE i.to # "w"
    BY <2>3, <2>4, <2>6
  <2>7. QED
    BY <2>5, <2>6
<1>6. Twins(t, r4300i_COP1_cvts(t, i), M, r4300i_COP1_cvts(M, i))
  <2>1. PICK d : d = Fpu("cvts", i.fmt, a, 0, t.rc)
    OBVIOUS
  <2>2. Low(d) \in Word
    BY <1>1, <1>2, <1>4, <2>1, Computed
  <2>3. r4300i_COP1_cvts(t, i) = SetCell(t, i.fd, Low(d)) /\ r4300i_COP1_cvts(M, i) = SetCell(M, i.fd, Low(d))
    BY <1>2, <1>3, <1>4, <2>1 DEF r4300i_COP1_cvts
  <2>4. QED
    BY <2>2, <2>3, CellTwins
<1>7. Twins(t, r4300i_COP1_cvtd(t, i), M, r4300i_COP1_cvtd(M, i))
  <2>1. PICK mode : mode = IF i.fmt = "l" THEN t.rc ELSE Nearest
    OBVIOUS
  <2>2. mode \in Word
    BY <1>1, <1>2, <2>1
  <2>3. PICK d : d = Fpu("cvtd", i.fmt, a, 0, mode)
    OBVIOUS
  <2>4. d \in Double
    BY <1>1, <1>4, <2>2, <2>3, Computed
  <2>5. r4300i_COP1_cvtd(t, i) = write_64bit_fpu_reg(t, i.fd, d) /\ r4300i_COP1_cvtd(M, i) = write_64bit_fpu_reg(M, i.fd, d)
    BY <1>2, <1>3, <1>4, <2>1, <2>3 DEF r4300i_COP1_cvtd
  <2>6. QED
    BY <2>4, <2>5, DoubleTwins
<1>8. QED
  BY <1>5, <1>6, <1>7

\* The method that con31 names.
LEMMA MethodNamed ==
    ASSUME NEW m, m.con31 \in Word
    PROVE  RM_METHOD(m) \in Methods
<1>1. PICK c, b, k : c = m.con31 /\ b = 2 ^ Half /\ k = (c % b) % 4
  OBVIOUS
<1>2. c \in Int /\ b \in Nat \ {0}
  BY <1>1, Cut, Widths
<1>3. c % b \in Int
  BY <1>2
<1>4. k \in 0 .. 3
  BY <1>1, <1>3
<1>5. RM_METHOD(m) = <<"round", "trunc", "ceil", "floor">>[k + 1]
  BY <1>1 DEF RM_METHOD, RM
<1>6. k = 0 \/ k = 1 \/ k = 2 \/ k = 3
  BY <1>4
<1>7. QED
  BY <1>5, <1>6 DEF Methods

\* Every conversion, by the name of the instruction.
LEMMA ConvertTwins ==
    ASSUME NEW t, NEW M, Paired(t, M), NEW i, FloatReady(i)
    PROVE  /\ Twins(t, r4300i_COP1_cvt(t, i), M, r4300i_COP1_cvt(M, i))
           /\ i.op \in Methods \cup {"cvt"} => Twins(t, Convert(t, i), M, Convert(M, i))
<1>1. /\ \A method \in Methods : Twins(t, ToInteger(t, i, method), M, ToInteger(M, i, method))
      /\ Twins(t, r4300i_COP1_cvts(t, i), M, r4300i_COP1_cvts(M, i))
      /\ Twins(t, r4300i_COP1_cvtd(t, i), M, r4300i_COP1_cvtd(M, i))
  BY ConversionTwins
<1>2. i.to \in {"s", "d", "w", "l"}
  BY DEF FloatReady, Formats
<1>3. t.con31 = M.con31 /\ t.con31 \in Word
  BY DEF Paired, Aside, Image
<1>4. PICK method : method = RM_METHOD(t)
  OBVIOUS
<1>5. method \in Methods
  BY <1>3, <1>4, MethodNamed
<1>6. RM_METHOD(M) = method
  BY <1>3, <1>4 DEF RM_METHOD
<1>7. Twins(t, r4300i_COP1_cvtw_cvtl(t, i), M, r4300i_COP1_cvtw_cvtl(M, i))
  BY <1>1, <1>4, <1>5, <1>6 DEF r4300i_COP1_cvtw_cvtl
<1>8. Twins(t, r4300i_COP1_cvt(t, i), M, r4300i_COP1_cvt(M, i))
  <2>1. CASE i.to = "s"
    BY <1>1, <2>1 DEF r4300i_COP1_cvt
  <2>2. CASE i.to = "d"
    BY <1>1, <2>2 DEF r4300i_COP1_cvt
  <2>3. CASE i.to \in {"w", "l"}
    BY <1>7, <2>3 DEF r4300i_COP1_cvt
  <2>4. QED
    BY <1>2, <2>1, <2>2, <2>3
<1>9. ASSUME i.op \in Methods \cup {"cvt"}
      PROVE  Twins(t, Convert(t, i), M, Convert(M, i))
  <2>1. CASE i.op = "cvt"
    BY <1>8, <2>1 DEF Convert
  <2>2. CASE i.op = "trunc"
    <3>1. Convert(t, i) = ToInteger(t, i, "trunc") /\ Convert(M, i) = ToInteger(M, i, "trunc") /\ "trunc" \in Methods
      BY <2>2 DEF Convert, r4300i_COP1_trunc, Methods
    <3>2. QED
      BY <1>1, <3>1
  <2>3. CASE i.op = "floor"
    <3>1. Convert(t, i) = ToInteger(t, i, "floor") /\ Convert(M, i) = ToInteger(M, i, "floor") /\ "floor" \in Methods
      BY <2>3 DEF Convert, r4300i_COP1_floor, Methods
    <3>2. QED
      BY <1>1, <3>1
  <2>4. CASE i.op = "round"
    <3>1. Convert(t, i) = ToInteger(t, i, "round") /\ Convert(M, i) = ToInteger(M, i, "round") /\ "round" \in Methods
      BY <2>4 DEF Convert, r4300i_COP1_round, Methods
    <3>2. QED
      BY <1>1, <3>1
  <2>5. CASE i.op = "ceil"
    <3>1. Convert(t, i) = ToInteger(t, i, "ceil") /\ Convert(M, i) = ToInteger(M, i, "ceil") /\ "ceil" \in Methods
      BY <2>5 DEF Convert, r4300i_COP1_ceil, Methods
    <3>2. QED
      BY <1>1, <3>1
  <2>6. QED
    BY <1>9, <2>1, <2>2, <2>3, <2>4, <2>5 DEF Methods
<1>10. QED
  BY <1>8, <1>9

\* What works on a format.
LEMMA FormatTwins ==
    ASSUME NEW t, NEW M, Paired(t, M), NEW i, FloatReady(i),
           i.op \in FloatBinary \cup FloatUnary \cup Methods \cup {"fmov", "c", "cvt"}
    PROVE  Twins(t, ByFormat(t, i), M, ByFormat(M, i))
<1>1. Twins(t, r4300i_COP1_mov_s(t, i), M, r4300i_COP1_mov_s(M, i)) /\ Twins(t, r4300i_COP1_mov_d(t, i), M, r4300i_COP1_mov_d(M, i))
  <2>1. /\ t.fpr[i.fs] = M.fpr[i.fs] /\ t.fpr[i.fs] \in Word
        /\ read_64bit_fpu_reg(t, i.fs) = read_64bit_fpu_reg(M, i.fs) /\ read_64bit_fpu_reg(t, i.fs) \in Double
    BY CellsAlike DEF FloatReady
  <2>2. PICK a, c : a = t.fpr[i.fs] /\ c = read_64bit_fpu_reg(t, i.fs)
    OBVIOUS
  <2>3. /\ r4300i_COP1_mov_s(t, i) = SetCell(t, i.fd, a) /\ r4300i_COP1_mov_s(M, i) = SetCell(M, i.fd, a)
        /\ r4300i_COP1_mov_d(t, i) = write_64bit_fpu_reg(t, i.fd, c) /\ r4300i_COP1_mov_d(M, i) = write_64bit_fpu_reg(M, i.fd, c)
    BY <2>1, <2>2 DEF r4300i_COP1_mov_s, r4300i_COP1_mov_d
  <2>4. QED
    BY <2>1, <2>2, <2>3, CellTwins, DoubleTwins
<1>2. /\ Twins(t, r4300i_C_cond_fmt_s(t, i), M, r4300i_C_cond_fmt_s(M, i))
      /\ Twins(t, r4300i_C_cond_fmt_d(t, i), M, r4300i_C_cond_fmt_d(M, i))
  BY ComparisonTwins
<1>3. /\ Twins(t, r4300i_COP1_cvt(t, i), M, r4300i_COP1_cvt(M, i))
      /\ i.op \in Methods \cup {"cvt"} => Twins(t, Convert(t, i), M, Convert(M, i))
  BY ConvertTwins
<1>4. /\ i.op \in FloatBinary => /\ Twins(t, r4300i_COP1_binary_s(t, i), M, r4300i_COP1_binary_s(M, i))
                                 /\ Twins(t, r4300i_COP1_binary_d(t, i), M, r4300i_COP1_binary_d(M, i))
                                 /\ Twins(t, r4300i_COP1_div_d(t, i), M, r4300i_COP1_div_d(M, i))
      /\ i.op \in FloatUnary => /\ Twins(t, r4300i_COP1_unary_s(t, i), M, r4300i_COP1_unary_s(M, i))
                                /\ Twins(t, r4300i_COP1_unary_d(t, i), M, r4300i_COP1_unary_d(M, i))
  BY ArithmeticTwins
<1>5. Twins(t, COP1_S_instr(t, i), M, COP1_S_instr(M, i))
  <2>1. CASE i.op \in FloatBinary
    BY <1>4, <2>1 DEF COP1_S_instr, FloatBinary, FloatUnary, Methods
  <2>2. CASE i.op \in FloatUnary
    BY <1>4, <2>2 DEF COP1_S_instr, FloatBinary, FloatUnary, Methods
  <2>3. CASE i.op = "fmov"
    BY <1>1, <2>3 DEF COP1_S_instr, FloatBinary, FloatUnary, Methods
  <2>4. CASE i.op = "c"
    BY <1>2, <2>4 DEF COP1_S_instr, FloatBinary, FloatUnary, Methods
  <2>5. CASE i.op \in Methods \cup {"cvt"}
    BY <1>3, <2>5 DEF COP1_S_instr, FloatBinary, FloatUnary, Methods
  <2>6. QED
    BY <2>1, <2>2, <2>3, <2>4, <2>5
<1>6. Twins(t, COP1_D_instr(t, i), M, COP1_D_instr(M, i))
  <2>0. CASE i.op = "fdiv"
    BY <1>4, <2>0 DEF COP1_D_instr, FloatBinary, FloatUnary, Methods
  <2>1. CASE i.op \in FloatBinary \ {"fdiv"}
    BY <1>4, <2>1 DEF COP1_D_instr, FloatBinary, FloatUnary, Methods
  <2>2. CASE i.op \in FloatUnary
    BY <1>4, <2>2 DEF COP1_D_instr, FloatBinary, FloatUnary, Methods
  <2>3. CASE i.op = "fmov"
    BY <1>1, <2>3 DEF COP1_D_instr, FloatBinary, FloatUnary, Methods
  <2>4. CASE i.op = "c"
    BY <1>2, <2>4 DEF COP1_D_instr, FloatBinary, FloatUnary, Methods
  <2>5. CASE i.op \in Methods \cup {"cvt"}
    BY <1>3, <2>5 DEF COP1_D_instr, FloatBinary, FloatUnary, Methods
  <2>6. QED
    BY <2>0, <2>1, <2>2, <2>3, <2>4, <2>5
<1>7. QED
  <2>1. i.fmt \in {"s", "d", "w", "l"}
    BY DEF FloatReady, Formats
  <2>2. CASE i.fmt = "s"
    BY <1>5, <2>2 DEF ByFormat
  <2>3. CASE i.fmt = "d"
    BY <1>6, <2>3 DEF ByFormat
  <2>4. CASE i.fmt \in {"w", "l"}
    BY <1>3, <2>4 DEF ByFormat, COP1_W_L_instr
  <2>5. QED
    BY <2>1, <2>2, <2>3, <2>4

\* The instructions that change no general register: where the operand is the
\* same, both change alike.
PureOps == FloatOps \ {"mfc1", "dmfc1", "cfc1"}

\* What the interpreter's floating-point functions do to the interpreter's machine they do
\* to the block's state, when the compiled code calls them on it.
LEMMA PureTwins ==
    ASSUME NEW t, NEW M, Paired(t, M), NEW i, i.op \in PureOps, i.op # "ctc1" => FloatReady(i),
           Fields(i), i.imm \in 0 .. 2 ^ Half - 1,
           i.op \in FloatLoads => t.gpr[i.rs] = M.gpr[i.rs],
           i.op \in {"mtc1", "dmtc1", "ctc1"} => t.gpr[i.rt] = M.gpr[i.rt]
    PROVE  Twins(t, COP1_instr(t, i), M, COP1_instr(M, i))
<1>1. t.gpr \in [Reg -> Double] /\ i.rs \in Reg /\ i.rt \in Reg
  BY DEF Paired, Image, Fields
<1>2. CASE i.op = "ctc1"
  <2>1. Twins(t, r4300i_COP1_ctc1(t, i), M, r4300i_COP1_ctc1(M, i))
    BY <1>1, <1>2, ControlWordTwins
  <2>2. COP1_instr(t, i) = r4300i_COP1_ctc1(t, i) /\ COP1_instr(M, i) = r4300i_COP1_ctc1(M, i)
    BY <1>2 DEF COP1_instr
  <2>3. QED
    BY <2>1, <2>2
<1>3. CASE i.op \in {"mtc1", "dmtc1"}
  <2>1. PICK d : d = t.gpr[i.rt]
    OBVIOUS
  <2>2. d = M.gpr[i.rt] /\ d \in Double /\ Low(d) \in Word
    BY <1>1, <1>3, <2>1, Pairs
  <2>3. /\ i.op = "mtc1" => COP1_instr(t, i) = SetCell(t, i.fs, Low(d)) /\ COP1_instr(M, i) = SetCell(M, i.fs, Low(d))
        /\ i.op = "dmtc1" => /\ COP1_instr(t, i) = write_64bit_fpu_reg(t, i.fs, d)
                             /\ COP1_instr(M, i) = write_64bit_fpu_reg(M, i.fs, d)
    BY <2>1, <2>2 DEF COP1_instr, r4300i_COP1_mtc1, r4300i_COP1_dmtc1, RT, lo
  <2>4. Twins(t, SetCell(t, i.fs, Low(d)), M, SetCell(M, i.fs, Low(d)))
    BY <2>2, CellTwins
  <2>5. Twins(t, write_64bit_fpu_reg(t, i.fs, d), M, write_64bit_fpu_reg(M, i.fs, d))
    BY <2>2, DoubleTwins
  <2>6. QED
    BY <1>3, <2>3, <2>4, <2>5
<1>4. CASE i.op \in FloatLoads
  <2>0. i.op \in {"lwc1", "ldc1", "swc1", "sdc1"} /\ FloatReady(i)
    BY <1>4 DEF FloatLoads
  <2>1. PICK a : a = Address(t, i)
    OBVIOUS
  <2>2. a = Address(M, i) /\ a \in Word
    <3>1. Low(t.gpr[i.rs]) \in Int /\ ImmS(i) \in Int
      BY <1>1, Pairs, Cut, Immediates
    <3>2. WordOf(Low(t.gpr[i.rs]) + ImmS(i)) \in Word
      BY <3>1, Cut
    <3>3. QED
      BY <1>4, <2>1, <3>2 DEF Address, RS, lo
  <2>3. Memory[a] \in Word /\ MemDouble(a) \in Double
    BY <2>2, MemoryWords
  <2>4. /\ t.fpr[i.ft] = M.fpr[i.ft] /\ read_64bit_fpu_reg(t, i.ft) = read_64bit_fpu_reg(M, i.ft)
    BY <2>0, CellsAlike DEF FloatReady
  <2>5. CASE i.op = "lwc1"
    <3>1. COP1_instr(t, i) = SetCell(t, i.ft, Memory[a]) /\ COP1_instr(M, i) = SetCell(M, i.ft, Memory[a])
      BY <2>1, <2>2, <2>5 DEF COP1_instr, r4300i_lwc1
    <3>2. QED
      BY <2>3, <3>1, CellTwins
  <2>6. CASE i.op = "ldc1"
    <3>1. /\ COP1_instr(t, i) = write_64bit_fpu_reg(t, i.ft, MemDouble(a))
          /\ COP1_instr(M, i) = write_64bit_fpu_reg(M, i.ft, MemDouble(a))
      BY <2>1, <2>2, <2>6 DEF COP1_instr, r4300i_ldc1
    <3>2. QED
      BY <2>3, <3>1, DoubleTwins
  <2>7. CASE i.op = "swc1"
    <3>1. /\ COP1_instr(t, i) = Store(t, "word", a, t.fpr[i.ft])
          /\ COP1_instr(M, i) = Store(M, "word", a, t.fpr[i.ft])
      BY <2>1, <2>2, <2>4, <2>7 DEF COP1_instr, r4300i_swc1
    <3>2. QED
      BY <3>1, StoreTwins
  <2>8. CASE i.op = "sdc1"
    <3>1. /\ COP1_instr(t, i) = Store(t, "double", a, read_64bit_fpu_reg(t, i.ft))
          /\ COP1_instr(M, i) = Store(M, "double", a, read_64bit_fpu_reg(t, i.ft))
      BY <2>1, <2>2, <2>4, <2>8 DEF COP1_instr, r4300i_sdc1
    <3>2. QED
      BY <3>1, StoreTwins
  <2>9. QED
    BY <2>0, <2>5, <2>6, <2>7, <2>8
<1>5. CASE i.op \notin FloatLoads \cup FloatMoves
  <2>1. i.op \in FloatBinary \cup FloatUnary \cup Methods \cup {"fmov", "c", "cvt"}
    BY <1>5 DEF PureOps, FloatOps
  <2>2. COP1_instr(t, i) = ByFormat(t, i) /\ COP1_instr(M, i) = ByFormat(M, i)
    BY <1>5 DEF COP1_instr, FloatLoads, FloatMoves
  <2>3. i.op # "ctc1"
    BY <1>5 DEF FloatMoves
  <2>4. QED
    BY <2>1, <2>2, <2>3, FormatTwins
<1>6. QED
  BY <1>2, <1>3, <1>4, <1>5 DEF PureOps, FloatMoves

\* A block that runs such an instruction still follows.
LEMMA PureOn ==
    ASSUME NEW t, NEW p, NEW M, NEW Z, On(t, p, M, Z), NEW i, i.op \in PureOps, i.op # "ctc1" => FloatReady(i),
           Fields(i), i.imm \in 0 .. 2 ^ Half - 1,
           i.op \in FloatLoads => t.gpr[i.rs] = M.gpr[i.rs],
           i.op \in {"mtc1", "dmtc1", "ctc1"} => t.gpr[i.rt] = M.gpr[i.rt]
    PROVE  /\ On(Call(t, i), p, COP1_instr(M, i), Z)
           /\ \A k \in Host : Saved(t, k) => Saved(Call(t, i), k)
           /\ \A r \in Reg : InMemory(t, r) => InMemory(Call(t, i), r)
           /\ Alongside(t, Call(t, i)) /\ COP1_instr(M, i).gpr = M.gpr
<1>1. Call(t, i) = COP1_instr(t, i)
  BY DEF Call, InterpretAny, PureOps
<1>2. Twins(t, COP1_instr(t, i), M, COP1_instr(M, i))
  BY PairedOn, PureTwins
<1>3. QED
  BY <1>1, <1>2, TwinsOn DEF Twins

\* A word that goes through EAX.
LEMMA ThroughEAXOn ==
    ASSUME NEW s, NEW M, NEW Z, On(s, {}, M, Z), NEW w \in Word
    PROVE  On(ThroughEAX(s, w), {}, M, Z)
<1>1. PICK t : t = PushIfMapped(s, EAX)
  OBVIOUS
<1>2. On(t, {}, M, Z) /\ Saved(t, EAX)
  BY <1>1, PushOn, HostFacts
<1>3. On(PopIfMapped(Mov(t, EAX, w), EAX), {}, M, Z)
  BY <1>2, AroundOne
<1>4. QED
  BY <1>1, <1>3 DEF ThroughEAX

\* A call of the interpreter that touches no general register.
LEMMA NoflushOn ==
    ASSUME NEW s, NEW M, NEW Z, On(s, {}, M, Z), NEW i, i.op \in PureOps \ (FloatLoads \cup FloatMoves), FloatReady(i),
           Fields(i), i.imm \in 0 .. 2 ^ Half - 1
    PROVE  On(INTERPRET_NOFLUSH(s, i), {}, COP1_instr(M, i), Z)
<1>1. PICK t, u : t = PushMap(s) /\ u = Call(t, i)
  OBVIOUS
<1>2. On(t, {}, M, Z) /\ Saved(t, EAX) /\ Saved(t, ECX) /\ Saved(t, EDX)
  BY <1>1, PushMapOn
<1>3. i.op \in PureOps /\ i.op \notin FloatLoads /\ i.op \notin {"mtc1", "dmtc1", "ctc1"}
  BY DEF FloatMoves
<1>4. /\ On(u, {}, COP1_instr(M, i), Z)
      /\ \A k \in Host : Saved(t, k) => Saved(u, k)
  BY <1>1, <1>2, <1>3, PureOn
<1>5. Saved(u, EAX) /\ Saved(u, ECX) /\ Saved(u, EDX)
  BY <1>2, <1>4, HostFacts
<1>6. On(PopMap(Clobber(u, {EAX, ECX, EDX})), {}, COP1_instr(M, i), Z)
  BY <1>4, <1>5, AroundThree
<1>7. QED
  BY <1>1, <1>6 DEF INTERPRET_NOFLUSH

\* One that reads its base from memory.
LEMMA FlushBaseOn ==
    ASSUME NEW s, NEW M, NEW Z, On(s, {}, M, Z), NEW i, i.op \in {"ldc1", "sdc1"}, FloatReady(i),
           Fields(i), i.imm \in 0 .. 2 ^ Half - 1, i.rs \notin Z
    PROVE  On(INTERPRET_FLUSH1(s, i, i.rs), {}, COP1_instr(M, i), Z)
<1>1. PICK f, t, u : f = FlushMips(s, i.rs) /\ t = PushMap(f) /\ u = Call(t, i)
  OBVIOUS
<1>2. i.rs \in Reg
  BY DEF Fields
<1>3. On(f, {}, M, Z) /\ InMemory(f, i.rs)
  BY <1>1, <1>2, FlushMipsOn
<1>4. On(t, {}, M, Z) /\ Saved(t, EAX) /\ Saved(t, ECX) /\ Saved(t, EDX) /\ InMemory(t, i.rs)
  BY <1>1, <1>2, <1>3, PushMapOn
<1>5. t.gpr[i.rs] = M.gpr[i.rs]
  BY <1>2, <1>4, InMemoryValue
<1>6. i.op \in PureOps /\ i.op \in FloatLoads /\ i.op \notin {"mtc1", "dmtc1", "ctc1"}
  BY DEF PureOps, FloatOps, FloatLoads, FloatMoves
<1>7. /\ On(u, {}, COP1_instr(M, i), Z)
      /\ \A k \in Host : Saved(t, k) => Saved(u, k)
  BY <1>1, <1>4, <1>5, <1>6, PureOn
<1>8. Saved(u, EAX) /\ Saved(u, ECX) /\ Saved(u, EDX)
  BY <1>4, <1>7, HostFacts
<1>9. On(PopMap(Clobber(u, {EAX, ECX, EDX})), {}, COP1_instr(M, i), Z)
  BY <1>7, <1>8, AroundThree
<1>10. QED
  BY <1>1, <1>9 DEF INTERPRET_FLUSH1, INTERPRET_NOFLUSH

\* And one with everything written back.
LEMMA ControlOn ==
    ASSUME NEW s, NEW M, NEW Z, On(s, {}, M, Z), NEW i, i.op \in {"ctc1", "dmtc1"}, i.op # "ctc1" => FloatReady(i),
           Fields(i), i.imm \in 0 .. 2 ^ Half - 1, i.rt \notin Z \/ i.rt = R0
    PROVE  On(INTERPRET(s, i), {}, COP1_instr(M, i), Z)
<1>1. PICK t, u : t = FlushAllRegisters(s) /\ u = Call(t, i)
  OBVIOUS
<1>2. On(t, {}, M, Z) /\ Flat(t) /\ t.gpr[i.rt] = M.gpr[i.rt]
  BY <1>1, FlatAll DEF Fields
<1>3. i.op \in PureOps /\ i.op \notin FloatLoads
  BY DEF PureOps, FloatOps, FloatLoads, FloatMoves
<1>4. On(u, {}, COP1_instr(M, i), Z) /\ Alongside(t, u)
  BY <1>1, <1>2, <1>3, PureOn
<1>5. Flat(u)
  BY <1>2, <1>4 DEF Flat, Alongside, Same, Rest
<1>6. On(Clobber(u, {EAX, ECX, EDX}), {}, COP1_instr(M, i), Z)
  BY <1>4, <1>5, FlatClobber
<1>7. QED
  BY <1>1, <1>6 DEF INTERPRET

\* What is compiled to x87 code: the arithmetic, when the x87 rounds to nearest,
LEMMA NativeOn ==
    ASSUME NEW s, NEW M, NEW Z, On(s, {}, M, Z), NEW i, FloatReady(i), M.rc = Nearest
    PROVE  /\ i.op \in FloatBinary => On(dyna4300i_cop1_binary_s(s, i), {}, r4300i_COP1_binary_s(M, i), Z)
           /\ i.op \in FloatUnary => On(dyna4300i_cop1_unary_s(s, i), {}, r4300i_COP1_unary_s(M, i), Z)
<1>1. Paired(s, M) /\ Machine(M) /\ Aside(s, M)
  BY PairedOn DEF Paired
<1>2. s.rc = Nearest /\ Nearest \in Word /\ 0 \in Double /\ i.fmt \in Formats
  BY <1>1, Signs DEF Aside, Nearest, FloatReady
<1>3. SET_ROUNDING(M) = M
  BY <1>1 DEF SET_ROUNDING, Machine
<1>4. PICK a, b : a = s.fpr[i.fs] /\ b = s.fpr[i.ft]
  OBVIOUS
<1>5. a = M.fpr[i.fs] /\ b = M.fpr[i.ft] /\ a \in Double /\ b \in Double
  BY <1>1, <1>4, CellsAlike DEF FloatReady
<1>6. ASSUME NEW x \in Double, NEW y \in Double, i.op \in FloatBinary \cup FloatUnary
      PROVE  On(Native(s, i, x, y), {}, Single(M, i, x, y), Z)
  <2>1. PICK w : w = Low(Fpu(i.op, i.fmt, x, y, Nearest))
    OBVIOUS
  <2>2. w \in Word
    BY <1>2, <1>6, <2>1, Computed
  <2>3. Native(s, i, x, y) = SetCell(s, i.fd, w) /\ Single(M, i, x, y) = SetCell(M, i.fd, w)
    BY <1>2, <1>3, <2>1 DEF Native, Single
  <2>4. QED
    BY <1>1, <2>2, <2>3, CellTwins, TwinsOn
<1>7. ASSUME i.op \in FloatBinary
      PROVE  On(dyna4300i_cop1_binary_s(s, i), {}, r4300i_COP1_binary_s(M, i), Z)
  <2>1. dyna4300i_cop1_binary_s(s, i) = Native(s, i, a, b) /\ r4300i_COP1_binary_s(M, i) = Single(M, i, a, b)
    BY <1>4, <1>5 DEF dyna4300i_cop1_binary_s, r4300i_COP1_binary_s
  <2>2. QED
    BY <1>5, <1>6, <1>7, <2>1
<1>8. ASSUME i.op \in FloatUnary
      PROVE  On(dyna4300i_cop1_unary_s(s, i), {}, r4300i_COP1_unary_s(M, i), Z)
  <2>1. dyna4300i_cop1_unary_s(s, i) = Native(s, i, a, 0) /\ r4300i_COP1_unary_s(M, i) = Single(M, i, a, 0)
    BY <1>4, <1>5 DEF dyna4300i_cop1_unary_s, r4300i_COP1_unary_s
  <2>2. QED
    BY <1>2, <1>5, <1>6, <1>8, <2>1
<1>9. QED
  BY <1>7, <1>8

\* The fields of an instruction with another name.
LEMMA OtherFloat ==
    ASSUME NEW i \in Instruction, i.op \in FloatOps, NEW o, NEW j, j = [i EXCEPT !.op = o]
    PROVE  j.op = o /\ j.fmt = i.fmt /\ j.to = i.to /\ j.fs = i.fs /\ j.ft = i.ft /\ j.fd = i.fd
<1>1. i.op \notin IntegerOps
  BY DEF IntegerOps, FloatOps, FloatLoads, FloatMoves, FloatBinary, FloatUnary, Methods
<1>2. i \in [op : FloatOps, rd : Gpr \cup {R0}, rs : Gpr \cup {R0}, rt : Gpr \cup {R0}, imm : Immediate, sa : 0 .. 15,
             fmt : Formats, to : Formats, fs : Nat, ft : Nat, fd : Nat]
  BY <1>1 DEF Instruction
<1>3. QED
  BY <1>2

\* the conversion of a word,
LEMMA ConvertWordOn ==
    ASSUME NEW s, NEW M, NEW Z, On(s, {}, M, Z), NEW i \in Instruction, i.op \in FloatOps, FloatReady(i), i.fmt = "w"
    PROVE  On(dyna4300i_cop1_cvts_w(s, i), {}, r4300i_COP1_cvts(M, i), Z)
<1>1. Paired(s, M) /\ Aside(s, M)
  BY PairedOn DEF Paired
<1>2. s.rc = M.rc /\ s.rc \in Word /\ 0 \in Double /\ i.fmt \in Formats
  BY <1>1, Signs DEF Aside, Paired, Image, FloatReady
<1>3. PICK a : a = s.fpr[i.fs]
  OBVIOUS
<1>4. a = M.fpr[i.fs] /\ a \in Double
  BY <1>1, <1>3, CellsAlike DEF FloatReady
<1>5. PICK w : w = Low(Fpu("cvts", i.fmt, a, 0, s.rc))
  OBVIOUS
<1>6. w \in Word
  BY <1>2, <1>4, <1>5, Computed
<1>7. r4300i_COP1_cvts(M, i) = SetCell(M, i.fd, w)
  BY <1>2, <1>4, <1>5 DEF r4300i_COP1_cvts, Source
<1>8. PICK j : j = [i EXCEPT !.op = "cvts"]
  OBVIOUS
<1>9. j.op = "cvts" /\ j.fmt = i.fmt /\ j.fd = i.fd
  BY <1>8, OtherFloat
<1>10. dyna4300i_cop1_cvts_w(s, i) = SetCell(s, i.fd, w)
  BY <1>3, <1>5, <1>8, <1>9 DEF dyna4300i_cop1_cvts_w, Native
<1>11. QED
  BY <1>1, <1>6, <1>7, <1>10, CellTwins, TwinsOn

\* a move,
LEMMA MoveWordOn ==
    ASSUME NEW s, NEW M, NEW Z, On(s, {}, M, Z), NEW i, FloatReady(i)
    PROVE  On(dyna4300i_cop1_mov_s(s, i), {}, r4300i_COP1_mov_s(M, i), Z)
<1>1. Paired(s, M) /\ Machine(M)
  BY PairedOn DEF Paired
<1>2. PICK a : a = s.fpr[i.fs]
  OBVIOUS
<1>3. a = M.fpr[i.fs] /\ a \in Word
  BY <1>1, <1>2, CellsAlike DEF FloatReady
<1>4. r4300i_COP1_mov_s(M, i) = SetCell(M, i.fd, a)
  BY <1>3 DEF r4300i_COP1_mov_s
<1>5. CASE i.fd = i.fs
  <2>1. SetCell(M, i.fd, a) = M
    BY <1>1, <1>3, <1>5 DEF SetCell, Machine
  <2>2. dyna4300i_cop1_mov_s(s, i) = s
    BY <1>5 DEF dyna4300i_cop1_mov_s
  <2>3. QED
    BY <1>4, <2>1, <2>2
<1>6. CASE i.fd # i.fs
  <2>1. PICK t : t = ThroughEAX(s, a)
    OBVIOUS
  <2>2. On(t, {}, M, Z)
    BY <1>3, <2>1, ThroughEAXOn
  <2>3. dyna4300i_cop1_mov_s(s, i) = SetCell(t, i.fd, a)
    BY <1>2, <1>6, <2>1 DEF dyna4300i_cop1_mov_s
  <2>4. QED
    BY <1>3, <1>4, <2>2, <2>3, PairedOn, CellTwins, TwinsOn
<1>7. QED
  BY <1>5, <1>6

\* The bits of the conditions that are compiled.
LEMMA NativeBits ==
    ASSUME NEW i, i.sa \in NativeCompares
    PROVE  /\ CondBit(i, 1) <=> i.sa \in {2, 14, 15}
           /\ CondBit(i, 2) <=> i.sa \in {12, 13, 14, 15}
<1>1. 2 ^ 0 = 1 /\ \A k \in 0 .. 2 * W : 2 ^ k \in Nat /\ 2 ^ (k + 1) = 2 * 2 ^ k
  BY WidthAssumption
<1>2. 0 \in 0 .. 2 * W /\ 1 \in 0 .. 2 * W
  BY Widths
<1>3. 2 ^ (0 + 1) = 2 /\ 2 ^ (1 + 1) = 2 * 2 ^ 1
  BY <1>1, <1>2
<1>4. 2 ^ 1 = 2 /\ 2 ^ 2 = 4
  BY <1>3
<1>5. (i.sa \div 2) % 2 = 1 <=> i.sa \in {2, 14, 15}
  BY DEF NativeCompares
<1>6. (i.sa \div 4) % 2 = 1 <=> i.sa \in {12, 13, 14, 15}
  BY DEF NativeCompares
<1>7. QED
  BY <1>4, <1>5, <1>6 DEF CondBit

\* and a comparison of operands that are ordered.
LEMMA CompareNativeOn ==
    ASSUME NEW s, NEW M, NEW Z, On(s, {}, M, Z), NEW i, FloatReady(i), i.sa \in NativeCompares,
           Order(M.fpr[i.fs], M.fpr[i.ft]) # "unordered"
    PROVE  On(_do_c_(s, i), {}, r4300i_C_cond_fmt_s(M, i), Z)
<1>1. Paired(s, M) /\ Machine(M)
  BY PairedOn DEF Paired
<1>2. s.fpr[i.fs] = M.fpr[i.fs] /\ s.fpr[i.ft] = M.fpr[i.ft]
  BY <1>1, CellsAlike DEF FloatReady
<1>3. PICK order : order = Order(M.fpr[i.fs], M.fpr[i.ft])
  OBVIOUS
<1>4. order # "unordered"
  BY <1>3
<1>5. PICK h \in BOOLEAN : h <=> order \in Flags(i) \cup {"unordered"}
  OBVIOUS
<1>6. h <=> (CondBit(i, 1) /\ order = "equal") \/ (CondBit(i, 2) /\ order = "less")
  <2>1. Flags(i) = IF i.sa \in {12, 13} THEN {"less"} ELSE IF i.sa = 2 THEN {"equal"} ELSE {"less", "equal"}
    BY DEF Flags, NativeCompares
  <2>2. h <=> order \in Flags(i)
    BY <1>4, <1>5
  <2>3. order \in Flags(i) <=> (i.sa \in {2, 14, 15} /\ order = "equal") \/ (i.sa \in {12, 13, 14, 15} /\ order = "less")
    BY <2>1 DEF NativeCompares
  <2>4. QED
    BY <2>2, <2>3, NativeBits
<1>7. r4300i_C_cond_fmt_s(M, i) = SetCondition(M, h)
  <2>1. r4300i_C_cond_fmt_s(M, i) = r4300i_C_cond_fmt(M, i, order)
    BY <1>3 DEF r4300i_C_cond_fmt_s
  <2> DEFINE holds == \/ CondBit(i, 0) /\ order = "unordered"
                      \/ CondBit(i, 1) /\ order = "equal"
                      \/ CondBit(i, 2) /\ order = "less"
  <2>2. r4300i_C_cond_fmt(M, i, order) = SetCondition(M, holds)
    BY <1>4, Zenon DEF r4300i_C_cond_fmt
  <2>3. holds <=> h
    BY <1>4, <1>6
  <2>4. SetCondition(M, holds) = SetCondition(M, h)
    BY <2>3 DEF SetCondition
  <2>5. QED
    BY <2>1, <2>2, <2>4
<1>8. PICK t, N : t = SetCondition(s, h) /\ N = SetCondition(M, h)
  OBVIOUS
<1>9. On(t, {}, N, Z)
  BY <1>1, <1>8, ConditionTwins, TwinsOn
<1>10. t.con31 \in Word
  BY <1>9, PairedOn DEF Paired, Image
<1>11. _do_c_(s, i) = ThroughEAX(t, t.con31)
  <2>1. SetCondition(s, order \in Flags(i) \cup {"unordered"}) = t
    BY <1>5, <1>8 DEF SetCondition
  <2>2. QED
    BY <1>2, <1>3, <2>1, Zenon DEF _do_c_
<1>12. QED
  BY <1>7, <1>8, <1>9, <1>10, <1>11, ThroughEAXOn

-------------------------------------------------------------------------------
(* Moves, loads and stores of the coprocessor                                *)

\* A register forgotten by the tables,
LEMMA UnknownOn ==
    ASSUME NEW s, NEW p, NEW M, NEW Z, On(s, p, M, Z), NEW r \in Reg, r # R0, NEW t, t = Unknown(s, r)
    PROVE  On(t, p, M, Z \cup {r})
<1>1. Good(s, p) /\ Image(s) /\ Follows(s, M, Z) /\ Typed(s)
  BY DEF On, Follows, Good
<1>2. Good(t, p)
  BY <1>1, UnknownGood
<1>3. t.map = s.map /\ t.host = s.host /\ t.gpr = s.gpr /\ t.stack = s.stack /\ t.flushed = s.flushed /\ Aside(s, t)
  BY <1>1 DEF Unknown, Typed, Aside
<1>4. t.const \in [Reg -> Word \cup {NoConst}] /\ \A q \in Reg \ {r} : t.const[q] = s.const[q]
  BY <1>1 DEF Unknown, Typed, Image
<1>5. Image(t)
  BY <1>1, <1>3, <1>4 DEF Image, Aside
<1>6. Follows(t, M, Z \cup {r})
  BY <1>1, <1>3, <1>4, <1>5, ReleasedFollows
<1>7. QED
  BY <1>2, <1>6 DEF On

\* and one moved from the coprocessor,
LEMMA FromCellOn ==
    ASSUME NEW s, NEW M, NEW Z, On(s, {}, M, Z), NEW i, Fields(i), FloatReady(i), i.rt # R0, i.rt \notin Z
    PROVE  On(dyna4300i_cop1_mfc1(s, i), {}, r4300i_COP1_mfc1(M, i), Z)
<1>1. PICK w : w = s.fpr[i.fs]
  OBVIOUS
<1>2. Paired(s, M)
  BY PairedOn
<1>3. w = M.fpr[i.fs] /\ w \in Word
  BY <1>1, <1>2, CellsAlike DEF FloatReady
<1>4. i.rt \in Reg
  BY DEF Fields
<1>5. PICK t, m : t = Unknown(s, i.rt) /\ m = MapRT(t, i, Define(i.rt, TRUE))
  OBVIOUS
<1>6. On(t, {}, M, Z \cup {i.rt})
  BY <1>4, <1>5, UnknownOn
<1>7. Writes(t, m, {}, M, (Z \cup {i.rt}) \cup {i.rt}, i.rt, TRUE, {i.rd, i.rs})
  BY <1>5, <1>6, ResultsOn
<1>8. (Z \cup {i.rt}) \cup {i.rt} = Z \cup {i.rt}
  OBVIOUS
<1>9. On(m.s, {}, M, Z \cup {i.rt}) /\ Takes(m.s, m, i.rt, TRUE)
  BY <1>7, <1>8 DEF Writes
<1>10. On(PutLo(m.s, m, w), {}, With(M, i.rt, Sext(w)), Z)
  BY <1>3, <1>4, <1>9, PutLoOn
<1>11. dyna4300i_cop1_mfc1(s, i) = PutLo(m.s, m, w)
  BY <1>1, <1>5 DEF dyna4300i_cop1_mfc1, PutWord
<1>12. r4300i_COP1_mfc1(M, i) = With(M, i.rt, Sext(w))
  BY <1>3 DEF r4300i_COP1_mfc1, With, Set
<1>13. QED
  BY <1>10, <1>11, <1>12

\* also a control register,
LEMMA FromControlOn ==
    ASSUME NEW s, NEW M, NEW Z, On(s, {}, M, Z), NEW i, Fields(i), i.rt # R0, i.rt \notin Z
    PROVE  On(dyna4300i_cop1_cfc1(s, i), {}, r4300i_COP1_cfc1(M, i), Z)
<1>1. PICK w : w = Control(s, i.fs)
  OBVIOUS
<1>2. Machine(M) /\ Image(s) /\ Aside(s, M) /\ Good(s, {}) /\ Typed(s)
  BY DEF On, Follows, Good
<1>3. w = Control(M, i.fs) /\ w \in Word
  BY <1>1, <1>2, Signs DEF Control, Aside, Image
<1>4. i.rt \in Reg
  BY DEF Fields
<1>5. PICK t, m : t = Unknown(s, i.rt) /\ m = MapRT(t, i, Change(i.rt, TRUE))
  OBVIOUS
<1>6. \E u \in Double : On(t, {}, With(M, i.rt, u), Z)
  <2>1. On(t, {}, M, Z \cup {i.rt})
    BY <1>4, <1>5, UnknownOn
  <2>2. CASE IsConst(s, i.rt)
    <3>1. t.const[i.rt] = NoConst /\ t.map = s.map
      BY <1>2, <1>4, <1>5 DEF Unknown, Typed, Image
    <3>2. Consistent(s.map, s.const) /\ s.const[i.rt] # NoConst
      BY <1>2, <2>2 DEF Good, IsConst
    <3>3. \A k \in Host : t.map[k].mips # i.rt
      BY <1>4, <3>1, <3>2 DEF Consistent
    <3>4. t.gpr[i.rt] \in Double /\ Follows(t, With(M, i.rt, t.gpr[i.rt]), Z \ {i.rt})
      BY <1>4, <2>1, <3>1, <3>3, RestingFollows DEF On
    <3>5. Z \ {i.rt} = Z
      OBVIOUS
    <3>6. QED
      BY <2>1, <3>4, <3>5 DEF On
  <2>3. CASE ~IsConst(s, i.rt)
    <3>1. t = s
      <4>1. s.const[i.rt] = NoConst
        BY <2>3 DEF IsConst
      <4>2. [s.const EXCEPT ![i.rt] = NoConst] = s.const
        BY <1>2, <4>1 DEF Image
      <4>3. t = [s EXCEPT !.const = [s.const EXCEPT ![i.rt] = NoConst]]
        BY <1>5 DEF Unknown
      <4>4. QED
        BY <1>2, <4>2, <4>3 DEF Typed
    <3>2. With(M, i.rt, M.gpr[i.rt]) = M
      BY <1>2, <1>4, WithAgain
    <3>3. M.gpr[i.rt] \in Double
      BY <1>2, <1>4 DEF Machine
    <3>4. QED
      BY <3>1, <3>2, <3>3
  <2>4. QED
    BY <2>2, <2>3
<1>7. PICK u \in Double : On(t, {}, With(M, i.rt, u), Z)
  BY <1>6
<1>8. PICK N : N = With(M, i.rt, u)
  OBVIOUS
<1>9. N.gpr[i.rt] = u /\ Machine(N)
  BY <1>2, <1>4, <1>8, TwiceWith
<1>10. Writes(t, m, {}, With(N, i.rt, Sext(Low(u))), Z, i.rt, TRUE, {i.rd, i.rs})
  <2>1. Writes(t, m, {}, With(N, i.rt, IF TRUE THEN Sext(Low(N.gpr[i.rt])) ELSE N.gpr[i.rt]), Z, i.rt, TRUE, {i.rd, i.rs})
    BY <1>5, <1>7, <1>8, ChangesOn
  <2>2. QED
    BY <1>9, <2>1
<1>11. Sext(Low(u)) \in Double
  BY Pairs, Extended
<1>12. With(N, i.rt, Sext(Low(u))) = With(M, i.rt, Sext(Low(u)))
  BY <1>2, <1>4, <1>8, <1>11, TwiceWith
<1>13. On(m.s, {}, With(M, i.rt, Sext(Low(u))), Z) /\ Takes(m.s, m, i.rt, TRUE)
  BY <1>10, <1>12 DEF Writes
<1>14. On(PutLo(m.s, m, w), {}, With(M, i.rt, Sext(w)), Z)
  BY <1>2, <1>3, <1>4, <1>11, <1>13, PutLoOver
<1>15. dyna4300i_cop1_cfc1(s, i) = PutLo(m.s, m, w)
  BY <1>1, <1>5 DEF dyna4300i_cop1_cfc1, PutWord
<1>16. r4300i_COP1_cfc1(M, i) = With(M, i.rt, Sext(w))
  BY <1>3 DEF r4300i_COP1_cfc1, With, Set
<1>17. QED
  BY <1>14, <1>15, <1>16

\* and one moved to it.
LEMMA ToCellOn ==
    ASSUME NEW s, NEW M, NEW Z, On(s, {}, M, Z), NEW i, Fields(i), i.rt \notin Z
    PROVE  On(dyna4300i_cop1_mtc1(s, i), {}, r4300i_COP1_mtc1(M, i), Z)
<1>1. i.rt \in Reg \ Z
  BY DEF Fields
<1>2. M.gpr[i.rt] \in Double /\ Low(M.gpr[i.rt]) \in Word
  BY <1>1, ValueOf
<1>3. PICK w : w = Low(M.gpr[i.rt])
  OBVIOUS
<1>4. r4300i_COP1_mtc1(M, i) = SetCell(M, i.fs, w)
  BY <1>3 DEF r4300i_COP1_mtc1, RT, lo
<1>5. CASE IsConst(s, i.rt)
  <2>1. s.const[i.rt] = w
    BY <1>1, <1>3, <1>5, ValueOf
  <2>2. dyna4300i_cop1_mtc1(s, i) = SetCell(s, i.fs, w)
    BY <1>5, <2>1 DEF dyna4300i_cop1_mtc1
  <2>3. QED
    BY <1>2, <1>3, <1>4, <2>2, PairedOn, CellTwins, TwinsOn
<1>6. CASE ~IsConst(s, i.rt)
  <2>1. PICK m : m = MapRT(s, i, Want(i.rt, TRUE))
    OBVIOUS
  <2>2. Reads(s, m, {}, M, Z, i.rt, TRUE, {i.rd, i.rs})
    BY <1>1, <2>1, WantsOn
  <2>3. On(m.s, {}, M, Z) /\ m.s.host[m.x] = w
    <3>1. On(m.s, {}, M, Z) /\ Has(m.s, m, i.rt)
      BY <2>2 DEF Reads
    <3>2. QED
      BY <1>1, <1>3, <3>1, HasValue
  <2>4. dyna4300i_cop1_mtc1(s, i) = SetCell(m.s, i.fs, w)
    BY <1>6, <2>1, <2>3 DEF dyna4300i_cop1_mtc1, FromMapped
  <2>5. QED
    BY <1>2, <1>3, <1>4, <2>3, <2>4, PairedOn, CellTwins, TwinsOn
<1>7. QED
  BY <1>5, <1>6

\* What a call does to a cell is beside what it does to the registers,
LEMMA CellCommutes ==
    ASSUME NEW t, Typed(t), NEW f, NEW w, NEW K
    PROVE  SetCell(Clobber(t, K), f, w) = Clobber(SetCell(t, f, w), K)
BY DEF SetCell, Clobber, Typed

\* so that EAX and ECX can be saved around it,
LEMMA AroundSaved ==
    ASSUME NEW s, NEW M, NEW Z, On(s, {}, M, Z)
    PROVE  \E t : /\ On(t, {}, M, Z) /\ Saved(t, EAX) /\ Saved(t, ECX) /\ t.fpr = M.fpr
                  /\ Around(s) = Clobber(t, {EAX, ECX}) /\ Around(s).fpr = M.fpr
<1>1. PICK e, t : e = PushIfMapped(s, EAX) /\ t = PushIfMapped(e, ECX)
  OBVIOUS
<1>2. On(e, {}, M, Z) /\ Saved(e, EAX)
  BY <1>1, PushOn, HostFacts
<1>3. On(t, {}, M, Z) /\ Saved(t, EAX) /\ Saved(t, ECX)
  BY <1>1, <1>2, PushOn, HostFacts
<1>4. t.fpr = M.fpr /\ Typed(t)
  BY <1>3 DEF On, Follows, Aside, Good
<1>5. Around(s) = Clobber(t, {EAX, ECX})
  BY <1>1 DEF Around
<1>6. Around(s).fpr = t.fpr
  BY <1>4, <1>5 DEF Clobber, Typed
<1>7. QED
  BY <1>3, <1>4, <1>5, <1>6

\* be it a load
LEMMA AroundCellOn ==
    ASSUME NEW s, NEW M, NEW Z, On(s, {}, M, Z), NEW f, NEW w \in Word
    PROVE  On(Back(SetCell(Around(s), f, w)), {}, SetCell(M, f, w), Z)
<1>1. PICK t : /\ On(t, {}, M, Z) /\ Saved(t, EAX) /\ Saved(t, ECX)
               /\ Around(s) = Clobber(t, {EAX, ECX})
  BY AroundSaved
<1>2. PICK u, N : u = SetCell(t, f, w) /\ N = SetCell(M, f, w)
  OBVIOUS
<1>3. Twins(t, u, M, N)
  BY <1>1, <1>2, PairedOn, CellTwins
<1>4. /\ On(u, {}, N, Z)
      /\ \A k \in Host : Saved(t, k) => Saved(u, k)
  BY <1>1, <1>3, TwinsOn
<1>5. Saved(u, EAX) /\ Saved(u, ECX)
  BY <1>1, <1>4, HostFacts
<1>6. On(PopIfMapped(PopIfMapped(Clobber(u, {EAX, ECX}), ECX), EAX), {}, N, Z)
  BY <1>4, <1>5, AroundTwo
<1>7. Typed(t)
  BY <1>1 DEF On, Good
<1>8. SetCell(Around(s), f, w) = Clobber(u, {EAX, ECX})
  BY <1>1, <1>2, <1>7, CellCommutes
<1>9. QED
  BY <1>2, <1>6, <1>8 DEF Back

\* or a store.
LEMMA AroundStoreOn ==
    ASSUME NEW s, NEW M, NEW Z, On(s, {}, M, Z), NEW i, NEW a
    PROVE  On(Back(StoreCell(Around(s), i, a)), {}, Store(M, "word", a, M.fpr[i.ft]), Z)
<1>1. PICK t : /\ On(t, {}, M, Z) /\ Saved(t, EAX) /\ Saved(t, ECX)
               /\ Around(s) = Clobber(t, {EAX, ECX}) /\ Around(s).fpr = M.fpr
  BY AroundSaved
<1>2. PICK d : d = M.fpr[i.ft]
  OBVIOUS
<1>3. PICK u, N : u = Store(t, "word", a, d) /\ N = Store(M, "word", a, d)
  OBVIOUS
<1>4. Twins(t, u, M, N)
  BY <1>1, <1>3, PairedOn, StoreTwins
<1>5. /\ On(u, {}, N, Z)
      /\ \A k \in Host : Saved(t, k) => Saved(u, k)
  BY <1>1, <1>4, TwinsOn
<1>6. Saved(u, EAX) /\ Saved(u, ECX)
  BY <1>1, <1>5, HostFacts
<1>7. On(PopIfMapped(PopIfMapped(Clobber(u, {EAX, ECX}), ECX), EAX), {}, N, Z)
  BY <1>5, <1>6, AroundTwo
<1>8. Typed(t)
  BY <1>1 DEF On, Good
<1>9. StoreCell(Around(s), i, a) = Store(Clobber(t, {EAX, ECX}), "word", a, d)
  BY <1>1, <1>2 DEF StoreCell
<1>10. StoreCell(Around(s), i, a) = Clobber(u, {EAX, ECX})
  BY <1>3, <1>8, <1>9, StoreCommutes
<1>11. QED
  BY <1>2, <1>3, <1>7, <1>10 DEF Back
\* The address of a load or a store.
Based(m, t, s, i) == m = MapRS(s, i, Want(i.rs, TRUE)) /\ t = m.s

\* The address of a floating-point load or store is the interpreter's, and a word.
LEMMA CellAddress ==
    ASSUME NEW s, NEW M, NEW Z, On(s, {}, M, Z), NEW i, Fields(i), i.imm \in 0 .. 2 ^ Half - 1, i.rs \notin Z,
           NEW m, NEW t, Based(m, t, s, i)
    PROVE  /\ Address(M, i) \in Word /\ Memory[Address(M, i)] \in Word
           /\ IsConst(s, i.rs) => At(s.const[i.rs], i) = Address(M, i)
           /\ On(t, {}, M, Z) /\ At(t.host[m.x], i) = Address(M, i)
<1>1. i.rs \in Reg \ Z
  BY DEF Fields
<1>2. M.gpr[i.rs] \in Double /\ Low(M.gpr[i.rs]) \in Word
  BY <1>1, ValueOf
<1>3. PICK a : a = Address(M, i)
  OBVIOUS
<1>4. a = At(Low(M.gpr[i.rs]), i)
  BY <1>3 DEF Address, At, RS, lo
<1>5. Low(M.gpr[i.rs]) \in Int /\ ImmS(i) \in Int
  BY <1>2, Immediates, Cut
<1>6. a \in Word
  BY <1>4, <1>5, Cut DEF At
<1>7. Memory[a] \in Word
  BY <1>6, MemoryWords
<1>8. IsConst(s, i.rs) => s.const[i.rs] = Low(M.gpr[i.rs])
  BY <1>1, ValueOf
<1>10. Reads(s, m, {}, M, Z, i.rs, TRUE, {i.rd, i.rt})
  BY <1>1, WantsOn DEF Based
<1>11. On(t, {}, M, Z) /\ Has(t, m, i.rs)
  BY <1>10 DEF Reads, Based
<1>12. t.host[m.x] = Low(M.gpr[i.rs])
  BY <1>1, <1>11, HasValue
<1>13. QED
  BY <1>3, <1>4, <1>6, <1>7, <1>8, <1>11, <1>12

\* lwc1
LEMMA LoadCellOn ==
    ASSUME NEW s, NEW M, NEW Z, On(s, {}, M, Z), NEW i, Fields(i), i.imm \in 0 .. 2 ^ Half - 1, i.rs \notin Z
    PROVE  On(dyna4300i_lwc1(s, i), {}, r4300i_lwc1(M, i), Z)
<1>1. PICK a, w : a = Address(M, i) /\ w = Memory[a]
  OBVIOUS
<1>2. w \in Word
  <2>1. PICK m, t : Based(m, t, s, i)
    BY DEF Based
  <2>2. QED
    BY <1>1, <2>1, CellAddress
<1>3. r4300i_lwc1(M, i) = SetCell(M, i.ft, w)
  BY <1>1 DEF r4300i_lwc1
<1>4. CASE ~IsConst(s, i.rs)
  <2>1. PICK m, t : Based(m, t, s, i)
    BY DEF Based
  <2>2. On(t, {}, M, Z) /\ At(t.host[m.x], i) = a
    BY <1>1, <2>1, CellAddress
  <2>3. dyna4300i_lwc1(s, i) = Back(SetCell(Around(t), i.ft, w))
    BY <1>1, <1>4, <2>1, <2>2 DEF dyna4300i_lwc1, ReadMapped, LoadCell, Based
  <2>4. QED
    BY <1>2, <1>3, <2>2, <2>3, AroundCellOn
<1>5. CASE IsConst(s, i.rs)
  <2>1. At(s.const[i.rs], i) = a
    BY <1>1, <1>5, CellAddress DEF Based
  <2>2. CASE InKSeg(a)
    <3>1. dyna4300i_lwc1(s, i) = SetCell(ThroughEAX(s, w), i.ft, w)
      BY <1>1, <1>5, <2>1, <2>2 DEF dyna4300i_lwc1, LoadCell
    <3>2. On(ThroughEAX(s, w), {}, M, Z)
      BY <1>2, ThroughEAXOn
    <3>3. QED
      BY <1>2, <1>3, <3>1, <3>2, PairedOn, CellTwins, TwinsOn
  <2>3. CASE ~InKSeg(a)
    <3>1. dyna4300i_lwc1(s, i) = Back(SetCell(Around(s), i.ft, w))
      BY <1>1, <1>5, <2>1, <2>3 DEF dyna4300i_lwc1, LoadCell
    <3>2. QED
      BY <1>2, <1>3, <3>1, AroundCellOn
  <2>4. QED
    BY <2>2, <2>3
<1>6. QED
  BY <1>4, <1>5

\* and swc1.
LEMMA StoreCellOn ==
    ASSUME NEW s, NEW M, NEW Z, On(s, {}, M, Z), NEW i, Fields(i), FloatReady(i), i.imm \in 0 .. 2 ^ Half - 1, i.rs \notin Z
    PROVE  On(dyna4300i_swc1(s, i), {}, r4300i_swc1(M, i), Z)
<1>1. PICK a, w : a = Address(M, i) /\ w = M.fpr[i.ft]
  OBVIOUS
<1>2. w = s.fpr[i.ft] /\ w \in Word
  BY <1>1, PairedOn, CellsAlike DEF FloatReady
<1>3. r4300i_swc1(M, i) = Store(M, "word", a, w)
  BY <1>1 DEF r4300i_swc1
<1>4. CASE ~IsConst(s, i.rs)
  <2>1. PICK m, t : Based(m, t, s, i)
    BY DEF Based
  <2>2. On(t, {}, M, Z) /\ At(t.host[m.x], i) = a
    BY <1>1, <2>1, CellAddress
  <2>3. dyna4300i_swc1(s, i) = Back(StoreCell(Around(t), i, a))
    BY <1>4, <2>1, <2>2 DEF dyna4300i_swc1, WriteMapped, Based
  <2>4. QED
    BY <1>1, <1>3, <2>2, <2>3, AroundStoreOn
<1>5. CASE IsConst(s, i.rs)
  <2>1. At(s.const[i.rs], i) = a
    BY <1>1, <1>5, CellAddress DEF Based
  <2>2. CASE ~ProtectMemory /\ InKSeg(a)
    <3>1. PICK t : t = ThroughEAX(s, w)
      OBVIOUS
    <3>2. dyna4300i_swc1(s, i) = StoreCell(t, i, a)
      BY <1>2, <1>5, <2>1, <2>2, <3>1 DEF dyna4300i_swc1
    <3>3. On(t, {}, M, Z)
      BY <1>2, <3>1, ThroughEAXOn
    <3>4. t.fpr[i.ft] = w
      BY <1>1, <3>3, PairedOn, CellsAlike DEF FloatReady
    <3>5. dyna4300i_swc1(s, i) = Store(t, "word", a, w)
      BY <3>2, <3>4 DEF StoreCell
    <3>6. QED
      BY <1>3, <3>3, <3>5, PairedOn, StoreTwins, TwinsOn
  <2>3. CASE ~(~ProtectMemory /\ InKSeg(a))
    <3>1. dyna4300i_swc1(s, i) = Back(StoreCell(Around(s), i, a))
      BY <1>5, <2>1, <2>3 DEF dyna4300i_swc1
    <3>2. QED
      BY <1>1, <1>3, <3>1, AroundStoreOn
  <2>4. QED
    BY <2>2, <2>3
<1>6. QED
  BY <1>4, <1>5

\* The way out for an unusable coprocessor leaves the tables as they are,
LEMMA CopOn ==
    ASSUME NEW s, NEW p, NEW M, NEW Z, On(s, p, M, Z), NEW t, t = cop1_with_exception(s)
    PROVE  On(t, p, M, Z) /\ t.map = s.map /\ t.const = s.const /\ t.flushed = [r \in Reg |-> r = R0]
<1>1. Good(s, p) /\ Image(s) /\ Typed(s)
  BY DEF On, Follows, Good
<1>2. Good(t, p)
  BY <1>1, AssignmentsGood
<1>3. Typed(t)
  BY <1>2 DEF Good
<1>4. /\ t.map = s.map /\ t.const = s.const /\ t.host = s.host /\ t.gpr = s.gpr /\ t.stack = s.stack /\ t.errors = s.errors
      /\ t.fpr = s.fpr /\ t.con31 = s.con31 /\ t.rc = s.rc /\ t.store = s.store /\ t.exit = s.exit
      /\ t.flushed = [r \in Reg |-> r = R0]
  BY <1>1 DEF cop1_with_exception, Typed
<1>5. IsWord(0)
  BY Extended
<1>6. \A r \in Reg : t.flushed[r] => IsWord(t.gpr[r])
  BY <1>1, <1>4, <1>5 DEF Image
<1>7. t.flushed \in [Reg -> BOOLEAN]
  BY <1>4
<1>8. Image(t)
  BY <1>1, <1>4, <1>6, <1>7 DEF Image
<1>9. Aside(s, t) /\ Same(s, t)
  BY <1>4 DEF Aside, Same, Rest
<1>10. On(t, p, M, Z)
  BY <1>3, <1>4, <1>8, <1>9, LooseOn
<1>11. QED
  BY <1>4, <1>10
\* and InitRdRsRt takes r0 out of them.
Looked(s, t) ==
    /\ t.const = s.const /\ t.flushed = s.flushed
    /\ \A k \in Host : t.map[k] = s.map[k] \/ t.map[k].mips = Unused

\* Looking at the widths of the operands loses no register but r0.
LEMMA InitOn ==
    ASSUME NEW s, NEW M, NEW Y, On(s, {}, M, Y \cup {R0}), NEW i, Fields(i), {i.rd, i.rs, i.rt} \cap Y = {},
           NEW t, t = InitRdRsRt(s, i)
    PROVE  /\ \E Z : Z \subseteq Y \cup {R0} /\ On(t, {}, M, Z) /\ i.rd \notin Z /\ i.rs \notin Z /\ i.rt \notin Z
           /\ Looked(s, t)
<1>1. 0 \in Word
  BY Signs
<1>2. CASE R0 \in {i.rd, i.rs, i.rt}
  <2>1. t = MapConst(s, R0, 0)
    BY <1>2 DEF InitRdRsRt
  <2>2. PICK Z : Z = (Y \cup {R0}) \ {R0}
    OBVIOUS
  <2>3. On(t, {}, M, Z)
    BY <1>1, <2>1, <2>2, MapConstR0On
  <2>4. Good(s, {}) /\ Typed(s) /\ Consistent(s.map, s.const) /\ s.const[R0] = 0 /\ s.errors = {} /\ R0 \in Reg
    BY MarkFacts DEF On, Good, Consistent
  <2>5. [s EXCEPT !.const[R0] = 0] = s
    <3>1. s.const \in [Reg -> Word \cup {NoConst}]
      BY DEF On, Follows, Image
    <3>2. [s.const EXCEPT ![R0] = 0] = s.const
      BY <2>4, <3>1
    <3>3. QED
      BY <2>4, <3>2 DEF Typed
  <2>6. t = Drop(s, Where(s, R0))
    BY <2>1, <2>5 DEF MapConst
  <2>7. t.const = s.const /\ \A k \in Host : t.map[k] = s.map[k] \/ t.map[k].mips = Unused
    BY <2>4, <2>6, DropGood
  <2>8. Where(s, R0) \in Host \cup {None} /\ (Where(s, R0) # None => s.map[Where(s, R0)].hi \in Host)
    BY <2>4, WhereIs DEF Consistent
  <2>9. t.flushed = s.flushed
    BY <2>4, <2>6, <2>8, DropContents DEF Contents
  <2>10. Z \subseteq Y \cup {R0} /\ i.rd \notin Z /\ i.rs \notin Z /\ i.rt \notin Z
    BY <2>2
  <2>11. QED
    BY <2>3, <2>7, <2>9, <2>10 DEF Looked
<1>3. CASE R0 \notin {i.rd, i.rs, i.rt}
  <2>1. t = s
    BY <1>3 DEF InitRdRsRt
  <2>2. QED
    BY <1>3, <2>1 DEF Looked
<1>4. QED
  BY <1>2, <1>3
\* The registers that are written back as words.
Narrows(s, r) == s.const[r] # NoConst \/ \E k \in Host : s.map[k].mips = r /\ s.map[k].dirty /\ s.map[k].hi = k

\* A sign flag that would not survive is not left by looking at a register,
LEMMA LookedNarrows ==
    ASSUME NEW s, NEW t, NEW r \in Reg
    PROVE  /\ Looked(s, t) /\ ~Narrows(s, r) => ~Narrows(t, r)
           /\ t.map = s.map /\ t.const = s.const /\ ~Narrows(s, r) => ~Narrows(t, r)
<1>1. Unused \notin Reg
  BY MarkFacts
<1>2. QED
  BY <1>1 DEF Looked, Narrows

\* is that of a narrow dirty register or of a constant,
LEMMA NarrowsIs ==
    ASSUME NEW s, NEW p, Good(s, p), NEW r \in Reg, ~(IsConst(s, r) \/ (CheckIsDirty(s, r) /\ CheckIs32Bit(s, r)))
    PROVE  ~Narrows(s, r)
<1>1. Consistent(s.map, s.const)
  BY DEF Good
<1>2. s.const[r] = NoConst
  BY DEF IsConst
<1>3. ASSUME NEW k \in Host, s.map[k].mips = r, s.map[k].dirty, s.map[k].hi = k PROVE FALSE
  <2>1. Where(s, r) = k
    BY <1>1, <1>3, WhereIs
  <2>2. s.map[k].is32
    BY <1>1, <1>3 DEF Consistent
  <2>3. k # None
    BY HostFacts
  <2>4. QED
    BY <1>3, <2>1, <2>2, <2>3 DEF CheckIsDirty, CheckIs32Bit
<1>4. QED
  BY <1>2, <1>3 DEF Narrows

\* and is not set by writing the register back.
LEMMA FlushMipsNarrows ==
    ASSUME NEW s, NEW p, NEW M, NEW Z, On(s, p, M, Z), NEW r \in Reg, r # R0, s.flushed[r] = FALSE, ~Narrows(s, r),
           NEW t, t = FlushMips(s, r)
    PROVE  t.flushed[r] = FALSE
<1>1. Good(s, p) /\ Typed(s) /\ Image(s) /\ Consistent(s.map, s.const)
  BY DEF On, Good, Follows
<1>2. FlushOneConstant(s, r) = s
  BY DEF FlushOneConstant, Narrows, IsConst
<1>3. t = WriteBack(s, r)
  BY <1>2 DEF FlushMips
<1>4. CASE Where(s, r) = None
  BY <1>3, <1>4 DEF WriteBack
<1>5. CASE Where(s, r) # None
  <2>1. PICK k : k = Where(s, r)
    OBVIOUS
  <2>2. k \in Host /\ s.map[k].mips = r
    BY <1>1, <1>5, <2>1, WhereIs
  <2>3. t = FlushRegister(s, k)
    BY <1>3, <1>5, <2>1 DEF WriteBack
  <2>4. s.map[k].hi \in Host
    BY <1>1, <2>2 DEF Consistent
  <2>5. Contents(IF s.map[k].dirty /\ s.map[k].mips # R0 THEN WriteBackDirty(s, k) ELSE s, t)
    BY <1>1, <2>2, <2>3, <2>4, FlushContents
  <2>6. CASE ~s.map[k].dirty
    BY <2>5, <2>6 DEF Contents
  <2>7. CASE s.map[k].dirty
    <3>1. Contents(WriteBackDirty(s, k), t) /\ s.map[k].hi # k
      BY <2>2, <2>5, <2>7 DEF Narrows
    <3>2. t.flushed = [s.flushed EXCEPT ![s.map[k].mips] = FALSE]
      BY <1>1, <3>1, WriteBackWide
    <3>3. QED
      BY <1>1, <2>2, <3>2 DEF Image
  <2>8. QED
    BY <2>6, <2>7
<1>6. QED
  BY <1>4, <1>5

\* dmfc1.
LEMMA FromDoubleOn ==
    ASSUME NEW s, NEW M, NEW Z, On(s, {}, M, Z), NEW i, i.op = "dmfc1", Fields(i), FloatReady(i), i.rt # R0,
           s.flushed[i.rt] = FALSE, IsWord(r4300i_COP1_dmfc1(M, i).gpr[i.rt]) \/ ~Narrows(s, i.rt)
    PROVE  On(dyna4300i_cop1_dmfc1(s, i), {}, r4300i_COP1_dmfc1(M, i), Z)
<1>1. i.rt \in Reg /\ Machine(M)
  BY DEF Fields, On, Follows
<1>2. PICK f, t : f = FlushMips(s, i.rt) /\ t = PushMap(f)
  OBVIOUS
<1>3. On(f, {}, M, Z) /\ InMemory(f, i.rt)
  BY <1>1, <1>2, FlushMipsOn
<1>4. /\ On(t, {}, M, Z) /\ Saved(t, EAX) /\ Saved(t, ECX) /\ Saved(t, EDX) /\ t.flushed = f.flushed
      /\ InMemory(t, i.rt)
  BY <1>1, <1>2, <1>3, PushMapOn
<1>5. PICK v : v = read_64bit_fpu_reg(t, i.fs)
  OBVIOUS
<1>6. v = read_64bit_fpu_reg(M, i.fs) /\ v \in Double
  BY <1>4, <1>5, PairedOn, CellsAlike DEF FloatReady
<1>7. r4300i_COP1_dmfc1(M, i) = Set(M, i.rt, v)
  BY <1>6 DEF r4300i_COP1_dmfc1
<1>8. Set(M, i.rt, v).gpr[i.rt] = v
  <2>1. With(M, i.rt, v).gpr[i.rt] = v
    BY <1>1, <1>6, WithMachine
  <2>2. QED
    BY <2>1 DEF With, Set
<1>9. t.flushed[i.rt] => IsWord(v)
  BY <1>1, <1>2, <1>4, <1>7, <1>8, FlushMipsNarrows
<1>10. PICK u : u = Set(t, i.rt, v)
  OBVIOUS
<1>11. On(u, {}, Set(M, i.rt, v), Z) /\ \A k \in Host : Saved(t, k) => Saved(u, k)
  BY <1>1, <1>4, <1>6, <1>9, <1>10, MemorySet
<1>12. Call(t, i) = u
  <2>1. "dmfc1" \in FloatOps
    BY DEF FloatOps, FloatMoves
  <2>2. Call(t, i) = COP1_instr(t, i)
    BY <2>1 DEF Call, InterpretAny
  <2>3. COP1_instr(t, i) = r4300i_COP1_dmfc1(t, i)
    BY DEF COP1_instr
  <2>4. QED
    BY <1>5, <1>10, <2>2, <2>3 DEF r4300i_COP1_dmfc1
<1>13. Saved(u, EAX) /\ Saved(u, ECX) /\ Saved(u, EDX)
  BY <1>4, <1>11, HostFacts
<1>14. On(PopMap(Clobber(u, {EAX, ECX, EDX})), {}, Set(M, i.rt, v), Z)
  BY <1>11, <1>13, AroundThree
<1>15. dyna4300i_cop1_dmfc1(s, i) = PopMap(Clobber(u, {EAX, ECX, EDX}))
  BY <1>2, <1>12 DEF dyna4300i_cop1_dmfc1, INTERPRET_FLUSH1, INTERPRET_NOFLUSH
<1>16. QED
  BY <1>7, <1>14, <1>15

\* What the fields of a floating-point instruction are.
LEMMA FloatShape ==
    ASSUME NEW i \in Instruction, Encoded(i), i.op \in FloatOps
    PROVE  /\ Fields(i) /\ i.imm \in 0 .. 2 ^ Half - 1 /\ i.fmt \in Formats
           /\ i.op \notin {"cfc1", "ctc1"} => FloatReady(i)
<1>1. i.op \notin IntegerOps
  BY DEF IntegerOps, FloatOps, FloatLoads, FloatMoves, FloatBinary, FloatUnary, Methods
<1>2. i \in [op : FloatOps, rd : Gpr \cup {R0}, rs : Gpr \cup {R0}, rt : Gpr \cup {R0}, imm : Immediate, sa : 0 .. 15,
             fmt : Formats, to : Formats, fs : Nat, ft : Nat, fd : Nat]
  BY <1>1 DEF Instruction
<1>3. /\ i.rd \in Gpr \cup {R0} /\ i.rs \in Gpr \cup {R0} /\ i.rt \in Gpr \cup {R0} /\ i.imm \in Immediate
      /\ i.fmt \in Formats /\ i.to \in Formats
  BY <1>2
<1>4. Named(i)
  BY <1>3 DEF Named
<1>5. Fields(i)
  BY <1>4, NamedFacts
<1>6. i.op \notin {"cfc1", "ctc1"} => FloatReady(i)
  BY <1>3 DEF Encoded, FloatReady
<1>7. QED
  BY <1>3, <1>5, <1>6 DEF Immediate

\* What the two are not known to do differently.
LEMMA FloatSpares ==
    ASSUME NEW s, NEW i, NEW M, ~DivergesFloat(M, s, i)
    PROVE  /\ i.op \in FloatBinary \cup FloatUnary /\ i.fmt = "s" => M.rc = Nearest
           /\ i.op = "c" /\ i.fmt = "s" /\ i.sa \in NativeCompares => Order(M.fpr[i.fs], M.fpr[i.ft]) # "unordered"
           /\ i.op = "dmfc1" => i.rt # R0
           /\ i.op = "dmfc1" => \/ IsWord(COP1_instr(M, i).gpr[i.rt])
                                \/ ~(IsConst(s, i.rt) \/ (CheckIsDirty(s, i.rt) /\ CheckIs32Bit(s, i.rt)))
BY DEF DivergesFloat
\* The instructions that name no general register: which function runs,
Formatted == FloatBinary \cup FloatUnary \cup Methods \cup {"fmov", "c", "cvt"}

\* They are neither moves nor loads, and the interpreter goes by the format.
LEMMA FormattedIs ==
    ASSUME NEW i, i.op \in Formatted
    PROVE  /\ i.op \in PureOps \ (FloatLoads \cup FloatMoves) /\ i.op \in FloatOps /\ i.op \in Coprocessor
           /\ i.op \notin FloatMoves \cup FloatLoads /\ i.op \notin {"ctc1", "dmtc1"}
           /\ \A m : COP1_instr(m, i) = ByFormat(m, i)
<1>1. /\ i.op \in PureOps \ (FloatLoads \cup FloatMoves) /\ i.op \in FloatOps /\ i.op \in Coprocessor
      /\ i.op \notin FloatMoves \cup FloatLoads /\ i.op \notin {"ctc1", "dmtc1"}
  BY DEF Formatted, PureOps, FloatOps, Coprocessor, FloatLoads, FloatMoves, FloatBinary, FloatUnary, Methods
<1>2. /\ i.op # "mfc1" /\ i.op # "dmfc1" /\ i.op # "mtc1" /\ i.op # "dmtc1" /\ i.op # "cfc1" /\ i.op # "ctc1"
      /\ i.op # "lwc1" /\ i.op # "ldc1" /\ i.op # "swc1" /\ i.op # "sdc1"
  BY <1>1 DEF FloatMoves, FloatLoads
<1>3. \A m : COP1_instr(m, i) = ByFormat(m, i)
  BY <1>2 DEF COP1_instr
<1>4. QED
  BY <1>1, <1>3

\* on words,
LEMMA CompileSOn ==
    ASSUME NEW s, NEW M, NEW Z, On(s, {}, M, Z), NEW x, NEW i, i.op \in Formatted, FloatReady(i), Fields(i),
           i.imm \in 0 .. 2 ^ Half - 1, i.fmt = "s", ~DivergesFloat(M, x, i)
    PROVE  On(CompileS(s, i), {}, COP1_instr(M, i), Z)
<1>1. COP1_instr(M, i) = COP1_S_instr(M, i)
  <2>1. ByFormat(M, i) = COP1_S_instr(M, i)
    BY DEF ByFormat
  <2>2. QED
    BY <2>1, FormattedIs
<1>2. On(INTERPRET_NOFLUSH(s, i), {}, COP1_instr(M, i), Z)
  BY FormattedIs, NoflushOn
<1>3. CASE i.op \in FloatBinary
  <2>1. CompileS(s, i) = dyna4300i_cop1_binary_s(s, i) /\ COP1_S_instr(M, i) = r4300i_COP1_binary_s(M, i)
    BY <1>3 DEF CompileS, COP1_S_instr, FloatBinary, FloatUnary, Methods
  <2>2. M.rc = Nearest
    BY <1>3, FloatSpares
  <2>3. QED
    BY <1>1, <1>3, <2>1, <2>2, NativeOn
<1>4. CASE i.op \in FloatUnary
  <2>1. CompileS(s, i) = dyna4300i_cop1_unary_s(s, i) /\ COP1_S_instr(M, i) = r4300i_COP1_unary_s(M, i)
    BY <1>4 DEF CompileS, COP1_S_instr, FloatBinary, FloatUnary, Methods
  <2>2. M.rc = Nearest
    BY <1>4, FloatSpares
  <2>3. QED
    BY <1>1, <1>4, <2>1, <2>2, NativeOn
<1>5. CASE i.op = "fmov"
  <2>1. CompileS(s, i) = dyna4300i_cop1_mov_s(s, i) /\ COP1_S_instr(M, i) = r4300i_COP1_mov_s(M, i)
    BY <1>5 DEF CompileS, COP1_S_instr, FloatBinary, FloatUnary, Methods
  <2>2. QED
    BY <1>1, <2>1, MoveWordOn
<1>6. CASE i.op = "c" /\ i.sa \in NativeCompares
  <2>1. CompileS(s, i) = _do_c_(s, i) /\ COP1_S_instr(M, i) = r4300i_C_cond_fmt_s(M, i)
    BY <1>6 DEF CompileS, COP1_S_instr, FloatBinary, FloatUnary, Methods, NativeCompares
  <2>2. Order(M.fpr[i.fs], M.fpr[i.ft]) # "unordered"
    BY <1>6, FloatSpares
  <2>3. QED
    BY <1>1, <1>6, <2>1, <2>2, CompareNativeOn
<1>7. CASE i.op = "c" /\ i.sa \notin NativeCompares
  <2>1. CompileS(s, i) = INTERPRET_NOFLUSH(s, i)
    BY <1>7 DEF CompileS, FloatBinary, FloatUnary, Methods, NativeCompares, dyna4300i_c_s
  <2>2. QED
    BY <1>2, <2>1
<1>8. CASE i.op \in Methods \cup {"cvt"}
  <2>1. CompileS(s, i) = INTERPRET_NOFLUSH(s, i)
    BY <1>8 DEF CompileS, FloatBinary, FloatUnary, Methods, dyna4300i_cop1_convert_s
  <2>2. QED
    BY <1>2, <2>1
<1>9. QED
  BY <1>3, <1>4, <1>5, <1>6, <1>7, <1>8 DEF Formatted

\* and on the rest.
LEMMA CompileWLOn ==
    ASSUME NEW s, NEW M, NEW Z, On(s, {}, M, Z), NEW i \in Instruction, i.op \in Formatted, FloatReady(i), Fields(i),
           i.imm \in 0 .. 2 ^ Half - 1, i.fmt \in {"w", "l"}
    PROVE  On(CompileWL(s, i), {}, COP1_instr(M, i), Z)
<1>1. COP1_instr(M, i) = r4300i_COP1_cvt(M, i)
  <2>1. ByFormat(M, i) = r4300i_COP1_cvt(M, i)
    BY DEF ByFormat, COP1_W_L_instr
  <2>2. QED
    BY <2>1, FormattedIs
<1>2. CASE i.fmt = "w" /\ i.to = "s"
  <2>1. CompileWL(s, i) = dyna4300i_cop1_cvts_w(s, i)
    BY <1>2 DEF CompileWL
  <2>2. r4300i_COP1_cvt(M, i) = r4300i_COP1_cvts(M, i)
    BY <1>2 DEF r4300i_COP1_cvt
  <2>3. i.op \in FloatOps
    BY FormattedIs
  <2>4. QED
    BY <1>1, <1>2, <2>1, <2>2, <2>3, ConvertWordOn
<1>3. CASE ~(i.fmt = "w" /\ i.to = "s")
  <2>1. CompileWL(s, i) = INTERPRET_NOFLUSH(s, i)
    BY <1>3 DEF CompileWL, dyna4300i_cop1_convert_w_l
  <2>2. QED
    BY <2>1, FormattedIs, NoflushOn
<1>4. QED
  BY <1>2, <1>3

\* Standing for a machine but for fewer registers is more.
LEMMA WidenOn ==
    ASSUME NEW t, NEW p, NEW M, NEW Z, On(t, p, M, Z), NEW Y, Z \subseteq Y
    PROVE  On(t, p, M, Y)
BY FewerFollows DEF On

\* Arithmetic, comparisons and conversions compute what the interpreter computes.
LEMMA CompileDOn ==
    ASSUME NEW s, NEW M, NEW Y, On(s, {}, M, Y \cup {R0}), NEW i, i.op \in Formatted, FloatReady(i), Fields(i),
           i.imm \in 0 .. 2 ^ Half - 1, {i.rd, i.rs, i.rt} \cap Y = {}
    PROVE  On(CompileD(s, i), {}, COP1_instr(M, i), Y \cup {R0})
<1>1. CompileD(s, i) \in {INTERPRET_NOFLUSH(s, i), INTERPRET_NOFLUSH(InitRdRsRt(s, i), i)}
  <2>1. CASE i.op \in FloatBinary \cup FloatUnary \cup {"fmov"}
    BY <2>1 DEF CompileD, FloatBinary, FloatUnary, Methods, dyna4300i_cop1_arithmetic_d
  <2>2. CASE i.op = "c"
    BY <2>2 DEF CompileD, FloatBinary, FloatUnary, Methods, dyna4300i_c_d
  <2>3. CASE i.op \in Methods \cup {"cvt"}
    <3>1. CompileD(s, i) = dyna4300i_cop1_convert_d(s, i)
      BY <2>3 DEF CompileD, FloatBinary, FloatUnary, Methods
    <3>2. QED
      BY <3>1 DEF dyna4300i_cop1_convert_d
  <2>4. QED
    BY <2>1, <2>2, <2>3 DEF Formatted
<1>2. On(INTERPRET_NOFLUSH(s, i), {}, COP1_instr(M, i), Y \cup {R0})
  BY FormattedIs, NoflushOn
<1>3. On(INTERPRET_NOFLUSH(InitRdRsRt(s, i), i), {}, COP1_instr(M, i), Y \cup {R0})
  <2>1. PICK t : t = InitRdRsRt(s, i)
    OBVIOUS
  <2>2. PICK Z : Z \subseteq Y \cup {R0} /\ On(t, {}, M, Z)
    BY <2>1, InitOn
  <2>3. On(INTERPRET_NOFLUSH(t, i), {}, COP1_instr(M, i), Z)
    BY <2>2, FormattedIs, NoflushOn
  <2>4. QED
    BY <2>1, <2>2, <2>3, WidenOn
<1>4. QED
  BY <1>1, <1>2, <1>3

\* The moves and loads: those that write no general register,
LEMMA MovePureOn ==
    ASSUME NEW s, NEW M, NEW Z, On(s, {}, M, Z), NEW i, i.op \in {"mtc1", "lwc1", "ldc1", "swc1", "sdc1"},
           Fields(i), FloatReady(i), i.imm \in 0 .. 2 ^ Half - 1, i.rs \notin Z, i.rt \notin Z
    PROVE  On(CompileMove(s, i), {}, COP1_instr(M, i), Z)
<1>1. CASE i.op = "mtc1"
  <2>1. CompileMove(s, i) = dyna4300i_cop1_mtc1(s, i) /\ COP1_instr(M, i) = r4300i_COP1_mtc1(M, i)
    BY <1>1 DEF CompileMove, COP1_instr
  <2>2. QED
    BY <2>1, ToCellOn
<1>2. CASE i.op = "lwc1"
  <2>1. CompileMove(s, i) = dyna4300i_lwc1(s, i) /\ COP1_instr(M, i) = r4300i_lwc1(M, i)
    BY <1>2 DEF CompileMove, COP1_instr
  <2>2. QED
    BY <2>1, LoadCellOn
<1>3. CASE i.op = "swc1"
  <2>1. CompileMove(s, i) = dyna4300i_swc1(s, i) /\ COP1_instr(M, i) = r4300i_swc1(M, i)
    BY <1>3 DEF CompileMove, COP1_instr
  <2>2. QED
    BY <2>1, StoreCellOn
<1>4. CASE i.op \in {"ldc1", "sdc1"}
  <2>1. CompileMove(s, i) = INTERPRET_FLUSH1(s, i, i.rs)
    BY <1>4 DEF CompileMove, dyna4300i_ldc1, dyna4300i_sdc1
  <2>2. QED
    BY <1>4, <2>1, FlushBaseOn
<1>5. QED
  BY <1>1, <1>2, <1>3, <1>4

\* and those that do.
LEMMA FromIs ==
    ASSUME NEW i, i.op \in {"mfc1", "dmfc1", "cfc1"}, NEW M, Machine(M), i.op # "cfc1" => FloatReady(i)
    PROVE  \E v \in Double : COP1_instr(M, i) = Set(M, i.rt, v)
<1>1. /\ M.fpr[i.fs] \in Word \/ i.op # "mfc1"
      /\ read_64bit_fpu_reg(M, i.fs) \in Double \/ i.op # "dmfc1"
      /\ Control(M, i.fs) \in Word
  <2>1. M.fpr \in [Cells -> Word] /\ M.con31 \in Word
    BY DEF Machine
  <2>2. Control(M, i.fs) \in Word
    BY <2>1, Signs DEF Control
  <2>3. i.op # "cfc1" => M.fpr[i.fs] \in Word /\ M.fpr[i.fs + FR_reg_offset] \in Word
    BY <2>1 DEF FloatReady
  <2>4. i.op # "cfc1" => read_64bit_fpu_reg(M, i.fs) \in Double
    BY <2>3, Pairs DEF read_64bit_fpu_reg
  <2>5. QED
    BY <2>2, <2>3, <2>4
<1>2. CASE i.op = "mfc1"
  <2>1. COP1_instr(M, i) = Set(M, i.rt, Sext(M.fpr[i.fs]))
    BY <1>2 DEF COP1_instr, r4300i_COP1_mfc1
  <2>2. QED
    BY <1>1, <1>2, <2>1, Extended
<1>3. CASE i.op = "dmfc1"
  <2>1. COP1_instr(M, i) = Set(M, i.rt, read_64bit_fpu_reg(M, i.fs))
    BY <1>3 DEF COP1_instr, r4300i_COP1_dmfc1
  <2>2. QED
    BY <1>1, <1>3, <2>1
<1>4. CASE i.op = "cfc1"
  <2>1. COP1_instr(M, i) = Set(M, i.rt, Sext(Control(M, i.fs)))
    BY <1>4 DEF COP1_instr, r4300i_COP1_cfc1
  <2>2. QED
    BY <1>1, <2>1, Extended
<1>5. QED
  BY <1>2, <1>3, <1>4
Clears(s, i, M) ==
    i.op = "dmfc1" => /\ i.rt # R0 /\ s.flushed[i.rt] = FALSE
                      /\ IsWord(COP1_instr(M, i).gpr[i.rt]) \/ ~Narrows(s, i.rt)

\* A move from the coprocessor gives rt what the interpreter gives it.
LEMMA MoveFromOn ==
    ASSUME NEW s, NEW M, NEW Z, On(s, {}, M, Z), NEW i, i.op \in {"mfc1", "dmfc1", "cfc1"},
           Fields(i), i.op # "cfc1" => FloatReady(i), i.rt \notin Z, Clears(s, i, M)
    PROVE  /\ i.rt = R0 => CompileMove(s, i) = s
           /\ i.rt # R0 => On(CompileMove(s, i), {}, COP1_instr(M, i), Z)
<1>1. CASE i.op = "mfc1"
  <2>1. CompileMove(s, i) = dyna4300i_cop1_mfc1(s, i) /\ COP1_instr(M, i) = r4300i_COP1_mfc1(M, i)
    BY <1>1 DEF CompileMove, COP1_instr
  <2>2. i.rt = R0 => dyna4300i_cop1_mfc1(s, i) = s
    BY DEF dyna4300i_cop1_mfc1
  <2>3. QED
    BY <1>1, <2>1, <2>2, FromCellOn
<1>2. CASE i.op = "cfc1"
  <2>1. CompileMove(s, i) = dyna4300i_cop1_cfc1(s, i) /\ COP1_instr(M, i) = r4300i_COP1_cfc1(M, i)
    BY <1>2 DEF CompileMove, COP1_instr
  <2>2. i.rt = R0 => dyna4300i_cop1_cfc1(s, i) = s
    BY DEF dyna4300i_cop1_cfc1
  <2>3. QED
    BY <2>1, <2>2, FromControlOn
<1>3. CASE i.op = "dmfc1"
  <2>1. CompileMove(s, i) = dyna4300i_cop1_dmfc1(s, i) /\ COP1_instr(M, i) = r4300i_COP1_dmfc1(M, i)
    BY <1>3 DEF CompileMove, COP1_instr
  <2>2. IsWord(r4300i_COP1_dmfc1(M, i).gpr[i.rt]) \/ ~Narrows(s, i.rt)
    BY <1>3, <2>1 DEF Clears
  <2>3. QED
    BY <1>3, <2>1, <2>2, FromDoubleOn DEF Clears
<1>4. QED
  BY <1>1, <1>2, <1>3

\* The main loop of the interpreter clears r0, which the block leaves aside.
LEMMA ClearOn ==
    ASSUME NEW t, NEW M, NEW Z, On(t, {}, M, Z), NEW Y, Z \subseteq Y
    PROVE  On(t, {}, ClearR0(M), Y)
<1>1. Machine(M)
  BY DEF On, Follows
<1>2. R0 \in Reg /\ M.gpr[R0] \in Double
  BY <1>1, MarkFacts DEF Machine
<1>3. ClearR0(M) = M
  BY <1>1, <1>2, ClearIs
<1>4. QED
  BY <1>3, WidenOn

\* All that work on the registers of the interpreter too.
LEMMA MoveOn2 ==
    ASSUME NEW s, NEW M, NEW Y, On(s, {}, M, Y \cup {R0}), NEW i, i.op \in (FloatMoves \cup FloatLoads) \ {"ctc1", "dmtc1"},
           Fields(i), i.op # "cfc1" => FloatReady(i), i.imm \in 0 .. 2 ^ Half - 1, {i.rd, i.rs, i.rt} \cap Y = {}, Clears(s, i, M)
    PROVE  On(CompileMove(InitRdRsRt(s, i), i), {}, ClearR0(COP1_instr(M, i)), Y \cup {R0})
<1>1. PICK t : t = InitRdRsRt(s, i)
  OBVIOUS
<1>2. PICK Z : Z \subseteq Y \cup {R0} /\ On(t, {}, M, Z) /\ i.rd \notin Z /\ i.rs \notin Z /\ i.rt \notin Z
  BY <1>1, InitOn
<1>3. Looked(s, t)
  BY <1>1, InitOn
<1>4. CASE i.op \in {"mtc1", "lwc1", "ldc1", "swc1", "sdc1"}
  <2>1. On(CompileMove(t, i), {}, COP1_instr(M, i), Z)
    BY <1>2, <1>4, MovePureOn
  <2>2. QED
    BY <1>1, <1>2, <2>1, ClearOn
<1>5. CASE i.op \in {"mfc1", "dmfc1", "cfc1"}
  <2>1. i.rt \in Reg /\ Machine(M)
    BY <1>2 DEF Fields, On, Follows
  <2>2. Clears(t, i, M)
    BY <1>3, <2>1, LookedNarrows DEF Looked, Clears
  <2>3. /\ i.rt = R0 => CompileMove(t, i) = t
        /\ i.rt # R0 => On(CompileMove(t, i), {}, COP1_instr(M, i), Z)
    BY <1>2, <1>5, <2>2, MoveFromOn
  <2>4. CASE i.rt # R0
    BY <1>1, <1>2, <2>3, <2>4, ClearOn
  <2>5. CASE i.rt = R0
    <3>1. PICK v \in Double : COP1_instr(M, i) = Set(M, i.rt, v)
      BY <1>5, <2>1, FromIs
    <3>2. ClearR0(COP1_instr(M, i)) = M
      BY <2>1, <2>5, <3>1, ClearSet
    <3>3. QED
      BY <1>1, <1>2, <2>3, <2>5, <3>2, WidenOn
  <2>6. QED
    BY <2>4, <2>5
<1>6. QED
  BY <1>4, <1>5 DEF FloatMoves, FloatLoads

-------------------------------------------------------------------------------
(* An instruction                                                            *)

\* The same lemmas with a name for the set of registers left aside.
LEMMA MoveOnNamed ==
    ASSUME NEW s, NEW M, NEW Y, NEW Z, Z = Y \cup {R0}, On(s, {}, M, Z), NEW i, i.op \in (FloatMoves \cup FloatLoads) \ {"ctc1", "dmtc1"},
           Fields(i), i.op # "cfc1" => FloatReady(i), i.imm \in 0 .. 2 ^ Half - 1, {i.rd, i.rs, i.rt} \cap Y = {}, Clears(s, i, M)
    PROVE  On(CompileMove(InitRdRsRt(s, i), i), {}, ClearR0(COP1_instr(M, i)), Z)
<1>1. On(s, {}, M, Y \cup {R0})
  OBVIOUS
<1>2. On(CompileMove(InitRdRsRt(s, i), i), {}, ClearR0(COP1_instr(M, i)), Y \cup {R0})
  BY <1>1, MoveOn2
<1>3. QED
  BY <1>2

\* The same, with the registers left aside under a name.
LEMMA CompileDOnNamed ==
    ASSUME NEW s, NEW M, NEW Y, NEW Z, Z = Y \cup {R0}, On(s, {}, M, Z), NEW i, i.op \in Formatted, FloatReady(i), Fields(i),
           i.imm \in 0 .. 2 ^ Half - 1, {i.rd, i.rs, i.rt} \cap Y = {}
    PROVE  On(CompileD(s, i), {}, COP1_instr(M, i), Z)
<1>1. On(s, {}, M, Y \cup {R0})
  OBVIOUS
<1>2. On(CompileD(s, i), {}, COP1_instr(M, i), Y \cup {R0})
  BY <1>1, CompileDOn
<1>3. QED
  BY <1>2

\* Every floating-point instruction leaves the machine of the interpreter,
LEMMA UsableOn ==
    ASSUME NEW s, NEW M, NEW Y, NEW Z, Z = Y \cup {R0}, On(s, {}, M, Z), NEW x, NEW i \in Instruction, Encoded(i), i.op \in FloatOps,
           {i.rd, i.rs, i.rt} \cap Y = {}, ~DivergesFloat(M, x, i), Clears(s, i, M)
    PROVE  On(CompileUsable(s, i), {}, ClearR0(COP1_instr(M, i)), Z)
<1>1. /\ Fields(i) /\ i.imm \in 0 .. 2 ^ Half - 1 /\ i.fmt \in Formats
      /\ i.op \notin {"cfc1", "ctc1"} => FloatReady(i)
  BY FloatShape
<1>2. CASE i.op \in {"ctc1", "dmtc1"}
  <2>1. CompileUsable(s, i) = INTERPRET(s, i)
    <3>1. CASE i.op = "ctc1"
      <4>1. CompileUsable(s, i) = dyna4300i_cop1_ctc1(s, i)
        BY <3>1 DEF CompileUsable, FloatMoves
      <4>2. QED
        BY <4>1 DEF dyna4300i_cop1_ctc1
    <3>2. CASE i.op = "dmtc1"
      <4>1. CompileUsable(s, i) = dyna4300i_cop1_dmtc1(s, i)
        BY <3>2 DEF CompileUsable, FloatMoves
      <4>2. QED
        BY <4>1 DEF dyna4300i_cop1_dmtc1
    <3>3. QED
      BY <1>2, <3>1, <3>2
  <2>2. i.rt \notin Z \/ i.rt = R0
    OBVIOUS
  <2>3. On(INTERPRET(s, i), {}, COP1_instr(M, i), Z)
    BY <1>1, <1>2, <2>2, ControlOn
  <2>4. On(INTERPRET(s, i), {}, ClearR0(COP1_instr(M, i)), Z)
    BY <2>3, ClearOn
  <2>5. QED
    BY <2>1, <2>4
<1>3. CASE i.op \in (FloatMoves \cup FloatLoads) \ {"ctc1", "dmtc1"}
  <2>1. CompileUsable(s, i) = CompileMove(InitRdRsRt(s, i), i)
    BY <1>3 DEF CompileUsable
  <2>2. i.op # "ctc1"
    BY <1>3
  <2>3. On(CompileMove(InitRdRsRt(s, i), i), {}, ClearR0(COP1_instr(M, i)), Z)
    BY <1>1, <1>3, <2>2, MoveOnNamed
  <2>4. QED
    BY <2>1, <2>3
<1>4. CASE i.op \notin FloatMoves \cup FloatLoads
  <2>1. i.op \in Formatted
    BY <1>4 DEF FloatOps, Formatted
  <2>2. i.op \notin {"ctc1", "dmtc1", "cfc1"} /\ FloatReady(i)
    BY <1>1, <1>4 DEF FloatMoves
  <2>3. CASE i.fmt = "s"
    <3>1. CompileUsable(s, i) = CompileS(s, i)
      BY <1>4, <2>2, <2>3 DEF CompileUsable
    <3>2. On(CompileS(s, i), {}, COP1_instr(M, i), Z)
      BY <1>1, <2>1, <2>2, <2>3, CompileSOn
    <3>3. On(CompileS(s, i), {}, ClearR0(COP1_instr(M, i)), Z)
      BY <3>2, ClearOn
    <3>4. QED
      BY <3>1, <3>3
  <2>4. CASE i.fmt = "d"
    <3>1. CompileUsable(s, i) = CompileD(s, i)
      BY <1>4, <2>2, <2>4 DEF CompileUsable
    <3>2. On(CompileD(s, i), {}, COP1_instr(M, i), Z)
      BY <1>1, <2>1, <2>2, CompileDOnNamed
    <3>3. On(CompileD(s, i), {}, ClearR0(COP1_instr(M, i)), Z)
      BY <3>2, ClearOn
    <3>4. QED
      BY <3>1, <3>3
  <2>5. CASE i.fmt \in {"w", "l"}
    <3>1. CompileUsable(s, i) = CompileWL(s, i)
      BY <1>4, <2>2, <2>5 DEF CompileUsable
    <3>2. On(CompileWL(s, i), {}, COP1_instr(M, i), Z)
      BY <1>1, <2>1, <2>2, <2>5, CompileWLOn
    <3>3. On(CompileWL(s, i), {}, ClearR0(COP1_instr(M, i)), Z)
      BY <3>2, ClearOn
    <3>4. QED
      BY <3>1, <3>3
  <2>6. QED
    BY <1>1, <2>3, <2>4, <2>5 DEF Formats
<1>5. QED
  BY <1>2, <1>3, <1>4

\* The same for the coprocessor's instructions, compiled (dynaCOP1.c) or called:
\* they change registers, cells, condition and rounding as the interpreter does.
THEOREM FloatOn ==
    ASSUME NEW s, NEW M, NEW Y, On(s, {}, M, Y \cup {R0}), NEW i \in Instruction, Encoded(i), i.op \in FloatOps,
           {i.rd, i.rs, i.rt} \cap Y = {}, ~DivergesFloat(M, s, i)
    PROVE  On(CompileFloat(s, i), {}, ClearR0(COP1_instr(M, i)), Y \cup {R0})
<1>0. PICK Z : Z = Y \cup {R0}
  OBVIOUS
<1>1. CASE i.op \in Coprocessor
  <2>1. PICK t : t = cop1_with_exception(s)
    OBVIOUS
  <2>0. On(s, {}, M, Z)
    BY <1>0
  <2>2. On(t, {}, M, Z) /\ t.map = s.map /\ t.const = s.const /\ \A r \in Reg \ {R0} : t.flushed[r] = FALSE
    <3>1. On(t, {}, M, Z) /\ t.map = s.map /\ t.const = s.const /\ t.flushed = [r \in Reg |-> r = R0]
      BY <2>0, <2>1, CopOn
    <3>2. \A r \in Reg \ {R0} : t.flushed[r] = FALSE
      BY <3>1
    <3>3. QED
      BY <3>1, <3>2
  <2>3. Clears(t, i, M)
    <3>1. SUFFICES ASSUME i.op = "dmfc1"
                   PROVE  /\ i.rt # R0 /\ t.flushed[i.rt] = FALSE
                          /\ IsWord(COP1_instr(M, i).gpr[i.rt]) \/ ~Narrows(t, i.rt)
      BY DEF Clears
    <3>2. i.rt # R0 /\ i.rt \in Reg
      BY <3>1, FloatSpares, FloatShape DEF Fields
    <3>3. CASE IsWord(COP1_instr(M, i).gpr[i.rt])
      BY <2>2, <3>2, <3>3
    <3>4. CASE ~IsWord(COP1_instr(M, i).gpr[i.rt])
      <4>1. ~(IsConst(s, i.rt) \/ (CheckIsDirty(s, i.rt) /\ CheckIs32Bit(s, i.rt)))
        BY <3>1, <3>4, FloatSpares
      <4>2. Good(s, {})
        BY DEF On
      <4>3. ~Narrows(s, i.rt)
        BY <3>2, <4>1, <4>2, NarrowsIs
      <4>4. ~Narrows(t, i.rt)
        BY <2>2, <3>2, <4>3, LookedNarrows
      <4>5. QED
        BY <2>2, <3>2, <4>4
    <3>5. QED
      BY <3>3, <3>4
  <2>4. CompileFloat(s, i) = CompileUsable(t, i)
    BY <1>1, <2>1 DEF CompileFloat
  <2>5. ~DivergesFloat(M, s, i)
    OBVIOUS
  <2>6. On(CompileUsable(t, i), {}, ClearR0(COP1_instr(M, i)), Z)
    BY <1>0, <2>2, <2>3, <2>5, UsableOn
  <2>7. QED
    BY <1>0, <2>4, <2>6
<1>2. CASE i.op \notin Coprocessor
  <2>1. Clears(s, i, M)
    BY <1>2 DEF Clears, Coprocessor, FloatLoads
  <2>2. CompileFloat(s, i) = CompileUsable(s, i)
    BY <1>2 DEF CompileFloat
  <2>0. On(s, {}, M, Z)
    BY <1>0
  <2>3. On(CompileUsable(s, i), {}, ClearR0(COP1_instr(M, i)), Z)
    BY <1>0, <2>0, <2>1, UsableOn
  <2>4. QED
    BY <1>0, <2>2, <2>3
<1>3. QED
  BY <1>1, <1>2

\* and so does every instruction.
LEMMA IntegerShape ==
    ASSUME NEW i \in Instruction, Encoded(i), i.op \notin FloatOps
    PROVE  i.op \in IntegerOps /\ Typing(i) /\ Named(i) /\ (i.op = "sc" => i.sa \in {0, 1})
<1>1. i \in [op : IntegerOps, rd : Gpr \cup {R0}, rs : Gpr \cup {R0}, rt : Gpr \cup {R0}, imm : Immediate, sa : 0 .. W - 1]
  <2>1. \/ i \in [op : IntegerOps, rd : Gpr \cup {R0}, rs : Gpr \cup {R0}, rt : Gpr \cup {R0}, imm : Immediate, sa : 0 .. W - 1]
        \/ i \in [op : FloatOps, rd : Gpr \cup {R0}, rs : Gpr \cup {R0}, rt : Gpr \cup {R0}, imm : Immediate, sa : 0 .. 15,
             fmt : Formats, to : Formats, fs : Nat, ft : Nat, fd : Nat]
    BY DEF Instruction
  <2>2. QED
    BY <2>1
<1>2. /\ i.rd \in Gpr \cup {R0} /\ i.rs \in Gpr \cup {R0} /\ i.rt \in Gpr \cup {R0} /\ i.imm \in Immediate
      /\ i.sa \in 0 .. W - 1 /\ i.op \in IntegerOps
  BY <1>1
<1>3. Named(i)
  BY <1>2 DEF Named
<1>4. Fields(i)
  BY <1>3, NamedFacts
<1>5. i.op = "sc" => i.sa \in {0, 1}
  BY DEF Encoded
<1>6. QED
  BY <1>2, <1>3, <1>4, <1>5 DEF Typing, Immediate

\* And all instructions: where the recompiler is not known to part from the
\* interpreter, the block does what the interpreter does.
LEMMA InstructionOn ==
    ASSUME NEW s, NEW M, NEW Y, On(s, {}, M, Y \cup {R0}), NEW i \in Instruction, Encoded(i),
           {i.rd, i.rs, i.rt, HI, LO} \cap Y = {}, Defined(M, i), ~Parts(M, s, i)
    PROVE  On(Compile(s, i), {}, ClearR0(InterpretAny(M, i)), Y \cup {R0})
<1>1. CASE i.op \in FloatOps
  <2>1. Compile(s, i) = CompileFloat(s, i) /\ InterpretAny(M, i) = COP1_instr(M, i)
    BY <1>1 DEF Compile, InterpretAny
  <2>2. ~DivergesFloat(M, s, i)
    BY <1>1 DEF Parts
  <2>3. {i.rd, i.rs, i.rt} \cap Y = {}
    OBVIOUS
  <2>4. On(CompileFloat(s, i), {}, ClearR0(COP1_instr(M, i)), Y \cup {R0})
    BY <1>1, <2>2, <2>3, FloatOn
  <2>5. QED
    BY <2>1, <2>4
<1>2. CASE i.op \notin FloatOps
  <2>1. Compile(s, i) = CompileInteger(s, i) /\ InterpretAny(M, i) = Interpret(M, i)
    BY <1>2 DEF Compile, InterpretAny
  <2>2. ~Diverges(M, s, i)
    BY <1>2 DEF Parts
  <2>3. i.op \in IntegerOps /\ Typing(i) /\ Named(i) /\ (i.op = "sc" => i.sa \in {0, 1})
    BY <1>2, IntegerShape
  <2>4. {i.rd, i.rs, i.rt} \cap Y = {}
    OBVIOUS
  <2>5. QED
    BY <2>1, <2>2, <2>3, <2>4, IntegerOn
<1>3. QED
  BY <1>1, <1>2

\* What block analysis notes is not of the values,
LEMMA FinalUseOn ==
    ASSUME NEW s, NEW M, NEW Z, On(s, {}, M, Z), NEW done, done \subseteq Reg, NEW t, t = FinalUse(s, done)
    PROVE  On(t, {}, M, Z) /\ t.map = s.map /\ t.const = s.const /\ t.flushed = s.flushed
<1>1. Good(s, {}) /\ Image(s) /\ Typed(s)
  BY DEF On, Follows, Good
<1>2. Good(t, {})
  BY <1>1, FinalUseGood
<1>3. /\ t.map = s.map /\ t.const = s.const /\ t.host = s.host /\ t.gpr = s.gpr /\ t.stack = s.stack /\ t.errors = s.errors
      /\ t.fpr = s.fpr /\ t.con31 = s.con31 /\ t.rc = s.rc /\ t.store = s.store /\ t.exit = s.exit
      /\ t.flushed = s.flushed
  BY <1>1 DEF FinalUse, Typed
<1>4. Image(t)
  BY <1>1, <1>3 DEF Image
<1>5. Aside(s, t) /\ Same(s, t)
  BY <1>3 DEF Aside, Same, Rest
<1>6. Typed(t)
  BY <1>2 DEF Good
<1>7. On(t, {}, M, Z)
  BY <1>3, <1>4, <1>5, <1>6, LooseOn
<1>8. QED
  BY <1>3, <1>7

\* nor of what the handlers look at.
LEMMA ViewParts ==
    ASSUME NEW s, NEW t, t.map = s.map, t.const = s.const, t.flushed = s.flushed, NEW i, Fields(i), NEW M
    PROVE  Parts(M, t, i) = Parts(M, s, i)
<1>1. \A r : IsConst(t, r) = IsConst(s, r)
  BY DEF IsConst
<1>2. \A r : Where(t, r) = Where(s, r)
  BY DEF Where, Holding
<1>3. \A r : CheckIs32Bit(t, r) = CheckIs32Bit(s, r)
  BY <1>1, <1>2 DEF CheckIs32Bit
<1>4. \A r : CheckIsDirty(t, r) = CheckIsDirty(s, r)
  BY <1>2 DEF CheckIsDirty
<1>5. SameView(s, t)
  BY <1>3 DEF SameView
<1>6. Diverges(M, t, i) = Diverges(M, s, i)
  BY <1>5, ViewDiverges
<1>7. DivergesFloat(M, t, i) = DivergesFloat(M, s, i)
  BY <1>1, <1>3, <1>4 DEF DivergesFloat
<1>8. QED
  BY <1>6, <1>7 DEF Parts

\* Renaming the birth dates moves nothing.
LEMMA SettledOn ==
    ASSUME NEW s, NEW M, NEW Z, On(s, {}, M, Z), NEW t, t = Settled(s)
    PROVE  On(t, {}, M, Z)
<1>1. Good(s, {}) /\ Image(s) /\ Typed(s) /\ Machine(M) /\ Aside(s, M)
  BY DEF On, Follows, Good
<1>2. Good(t, {}) /\ Typed(t)
  <2>1. Good(t, {})
    BY <1>1, SettledGood
  <2>2. QED
    BY <2>1 DEF Good
<1>3. /\ t.const = s.const /\ t.host = s.host /\ t.gpr = s.gpr /\ t.stack = [k \in Host |-> NoConst]
      /\ t.fpr = s.fpr /\ t.con31 = s.con31 /\ t.rc = s.rc /\ t.store = s.store /\ t.exit = s.exit
      /\ t.flushed = s.flushed
  BY <1>1 DEF Settled, Typed
<1>4. \A k \in Host : t.map[k].mips = s.map[k].mips /\ t.map[k].hi = s.map[k].hi /\ t.map[k].dirty = s.map[k].dirty
  <2>1. PICK f : t.map = [k \in Host |-> [s.map[k] EXCEPT !.birth = f[k]]]
    <3>1. PICK g : g = [k \in Host |-> IF k \in Mapped(s) THEN Cardinality({z \in {s.map[j].birth : j \in Mapped(s)} : z < s.map[k].birth})
                                        ELSE FirstYear]
      OBVIOUS
    <3>2. t.map = [k \in Host |-> [s.map[k] EXCEPT !.birth = g[k]]]
      BY <1>1, <3>1 DEF Settled, Typed
    <3>3. QED
      BY <3>2
  <2>2. \A k \in Host : s.map[k] \in EntryType
    BY <1>1 DEF Typed, MapType
  <2>3. QED
    BY <2>1, <2>2 DEF EntryType
<1>5. Image(t)
  <2>1. t.stack \in [Host -> Word \cup {NoConst}]
    BY <1>3
  <2>2. QED
    BY <1>1, <1>3, <2>1 DEF Image
<1>6. Aside(t, M)
  BY <1>1, <1>3 DEF Aside
<1>7. \A r \in Reg \ Z : Shown(t, M.gpr[r], r)
  <2>1. TAKE r \in Reg \ Z
  <2>2. Shown(s, M.gpr[r], r)
    BY DEF On, Follows
  <2>3. QED
    BY <1>3, <1>4, <2>2 DEF Shown
<1>8. QED
  BY <1>1, <1>2, <1>5, <1>6, <1>7 DEF On, Follows

\* At the end of a block nothing is mapped, and the host registers are forgotten.
LEMMA FinishedOn ==
    ASSUME NEW s, NEW M, NEW Z, On(s, {}, M, Z), Flat(s), NEW t, t = Finished(s)
    PROVE  On(t, {}, M, Z)
<1>1. Good(s, {}) /\ Image(s) /\ Typed(s)
  BY DEF On, Follows, Good
<1>2. Good(t, {}) /\ Typed(t)
  <2>1. Good(t, {})
    BY <1>1, FinishedGood
  <2>2. QED
    BY <2>1 DEF Good
<1>3. /\ t.map = s.map /\ t.const = s.const /\ t.host = [k \in Host |-> 0] /\ t.gpr = [s.gpr EXCEPT ![R0] = 0]
      /\ t.stack = s.stack /\ t.errors = s.errors
      /\ t.fpr = s.fpr /\ t.con31 = s.con31 /\ t.rc = s.rc /\ t.store = s.store /\ t.exit = s.exit
      /\ t.flushed = s.flushed
  BY <1>1 DEF Finished, Typed
<1>4. t.gpr = s.gpr
  BY <1>1, <1>3 DEF Image
<1>5. 0 \in Word
  BY Signs
<1>6. t.host \in [Host -> Word]
  BY <1>3, <1>5
<1>7. Image(t)
  BY <1>1, <1>3, <1>4, <1>6 DEF Image
<1>8. Aside(s, t) /\ Same(s, t)
  BY <1>3 DEF Aside, Same, Rest
<1>9. \A k \in Host : s.map[k].mips \in Reg \cup {HighWord} => t.host[k] = s.host[k]
  BY MarkFacts DEF Flat, Marks
<1>10. QED
  BY <1>2, <1>4, <1>7, <1>8, <1>9, LooseOn

\* Leaving the block at the same place.
LEMMA LeaveOn ==
    ASSUME NEW s, NEW M, NEW Z, On(s, {}, M, Z), NEW e
    PROVE  On(Leave(s, e), {}, Leave(M, e), Z) /\ (Flat(s) => Flat(Leave(s, e)))
<1>1. PICK t, N : t = Leave(s, e) /\ N = Leave(M, e)
  OBVIOUS
<1>2. Good(s, {}) /\ Image(s) /\ Typed(s) /\ Machine(M) /\ Aside(s, M)
  BY DEF On, Follows, Good
<1>3. /\ t.map = s.map /\ t.const = s.const /\ t.host = s.host /\ t.gpr = s.gpr
      /\ t.stack = s.stack /\ t.errors = s.errors
      /\ t.fpr = s.fpr /\ t.con31 = s.con31 /\ t.rc = s.rc /\ t.store = s.store /\ t.exit = e
      /\ t.flushed = s.flushed
  BY <1>1, <1>2 DEF Leave, Typed
<1>4. Typed(t)
  BY <1>1, <1>2 DEF Leave, Typed
<1>5. Good(t, {})
  BY <1>2, <1>3, <1>4 DEF Good
<1>6. Machine(N) /\ N.gpr = M.gpr /\ N.fpr = M.fpr /\ N.con31 = M.con31 /\ N.rc = M.rc /\ N.store = M.store /\ N.exit = e
  BY <1>1, <1>2 DEF Leave, Machine
<1>7. Aside(t, N) /\ Image(t)
  BY <1>2, <1>3, <1>6 DEF Aside, Image
<1>8. \A r \in Reg \ Z : Shown(t, N.gpr[r], r)
  <2>1. TAKE r \in Reg \ Z
  <2>2. Shown(s, M.gpr[r], r)
    BY DEF On, Follows
  <2>3. QED
    BY <1>3, <1>6, <2>2 DEF Shown
<1>9. On(t, {}, N, Z)
  BY <1>5, <1>6, <1>7, <1>8 DEF On, Follows
<1>10. Flat(s) => Flat(t)
  BY <1>3 DEF Flat
<1>11. QED
  BY <1>1, <1>9, <1>10

\* An instruction, with only r0 left aside.
LEMMA InstructionHere ==
    ASSUME NEW s, NEW M, NEW Z, Z = {R0}, On(s, {}, M, Z), NEW i \in Instruction, Encoded(i),
           Defined(M, i), ~Parts(M, s, i)
    PROVE  On(Compile(s, i), {}, ClearR0(InterpretAny(M, i)), Z)
<1>1. PICK Y : Y = {}
  OBVIOUS
<1>2. Y \cup {R0} = Z
  BY <1>1
<1>3. On(s, {}, M, Y \cup {R0})
  BY <1>2
<1>4. {i.rd, i.rs, i.rt, HI, LO} \cap Y = {}
  BY <1>1
<1>5. On(Compile(s, i), {}, ClearR0(InterpretAny(M, i)), Y \cup {R0})
  BY <1>3, <1>4, InstructionOn
<1>6. QED
  BY <1>2, <1>5

\* The instructions of the block are the encoded ones.
LEMMA ProgramIs ==
    /\ \A i \in Opening \cup Last \cup Slots : i \in Instruction /\ Encoded(i)
    /\ \A i \in Branches : i \in BranchInstruction
BY DynaAssumption

\* An instruction of the block.
LEMMA ExecuteOn ==
    ASSUME Excused, NEW Z, Z = {R0}, On(jit, {}, ref, Z), NEW i \in Instruction, Encoded(i), Execute(i)
    PROVE  On(jit', {}, ref', Z)
<1>1. PICK done \in {{}, Operands(i)} : jit' = Settled(Compile(FinalUse(jit, done), i))
  BY DEF Execute
<1>2. Defined(ref, i) /\ ~Parts(ref, jit, i) /\ ref' = ClearR0(InterpretAny(ref, i))
  BY DEF Execute
<1>3. Fields(i)
  BY InstructionRuns DEF Runs
<1>4. done \subseteq Reg
  BY <1>3, OperandsAre
<1>5. PICK s : s = FinalUse(jit, done)
  OBVIOUS
<1>6. On(s, {}, ref, Z) /\ s.map = jit.map /\ s.const = jit.const /\ s.flushed = jit.flushed
  BY <1>4, <1>5, FinalUseOn
<1>7. Parts(ref, s, i) = Parts(ref, jit, i)
  BY <1>3, <1>6, ViewParts
<1>8. On(Compile(s, i), {}, ClearR0(InterpretAny(ref, i)), Z)
  BY <1>2, <1>6, <1>7, InstructionHere
<1>9. On(Settled(Compile(s, i)), {}, ClearR0(InterpretAny(ref, i)), Z)
  BY <1>8, SettledOn
<1>10. QED
  BY <1>1, <1>2, <1>5, <1>9

\* Every instruction that a block begins or ends with keeps the block to the interpreter.
LEMMA EmitOn ==
    ASSUME Excused, NEW Z, Z = {R0}, On(jit, {}, ref, Z), Emit
    PROVE  On(jit', {}, ref', Z)
<1>1. PICK i \in Opening \cup Last : Execute(i)
  BY DEF Emit
<1>2. i \in Instruction /\ Encoded(i)
  BY ProgramIs
<1>3. QED
  BY <1>1, <1>2, ExecuteOn

\* The end of a block writes everything back,
LEMMA EndBlockOn ==
    ASSUME NEW Z, On(jit, {}, ref, Z), EndBlock
    PROVE  On(jit', {}, ref', Z)
<1>1. PICK t : t = FlushAllRegisters(jit)
  OBVIOUS
<1>2. On(t, {}, ref, Z) /\ Flat(t)
  BY <1>1, FlatAll
<1>3. On(Finished(t), {}, ref, Z)
  BY <1>2, FinishedOn
<1>4. jit' = Finished(t) /\ ref' = ref
  BY <1>1 DEF EndBlock
<1>5. QED
  BY <1>3, <1>4

\* the exception too.
LEMMA UnusableOn ==
    ASSUME NEW Z, On(jit, {}, ref, Z), TriggerFPUUnusableException
    PROVE  On(jit', {}, ref', Z)
<1>1. PICK t : t = FlushAllRegisters(jit)
  OBVIOUS
<1>2. On(t, {}, ref, Z) /\ Flat(t)
  BY <1>1, FlatAll
<1>3. PICK u : u = Finished(t)
  OBVIOUS
<1>4. On(u, {}, ref, Z)
  BY <1>2, <1>3, FinishedOn
<1>5. On(Leave(u, Unusable), {}, Leave(ref, Unusable), Z)
  BY <1>4, LeaveOn
<1>6. jit' = Leave(u, Unusable) /\ ref' = Leave(ref, Unusable)
  BY <1>1, <1>3 DEF TriggerFPUUnusableException
<1>7. QED
  BY <1>5, <1>6

-------------------------------------------------------------------------------
(* The tests of the branches                                                 *)

\* A condition on two registers, a case at a time,
LEMMA HoldsIs ==
    ASSUME NEW op, NEW a, NEW b
    PROVE  /\ op \in {"bne", "bnel"} => Holds(op, a, b) = (a # b)
           /\ op \in {"beq", "beql"} => Holds(op, a, b) = (a = b)
<1>1. CASE op \in {"bne", "bnel"}
  <2>1. op \notin {"beq", "beql", "blez", "blezl", "bgtz", "bgtzl", "bltz", "bltzl", "bltzal", "bltzall", "bgez", "bgezl",
                  "bgezal", "bgezall"} \cup Jumps
    BY <1>1 DEF Jumps
  <2>2. Holds(op, a, b) = (a # b)
    BY <1>1, <2>1, Zenon DEF Holds
  <2>3. QED
    BY <2>1, <2>2
<1>2. CASE op \in {"beq", "beql"}
  <2>1. op \notin {"bne", "bnel", "blez", "blezl", "bgtz", "bgtzl", "bltz", "bltzl", "bltzal", "bltzall", "bgez", "bgezl",
                  "bgezal", "bgezall"} \cup Jumps
    BY <1>2 DEF Jumps
  <2>2. Holds(op, a, b) = (a = b)
    BY <1>2, <2>1, Zenon DEF Holds
  <2>3. QED
    BY <2>1, <2>2
<1>3. QED
  BY <1>1, <1>2

\* asks whether they are equal,
LEMMA HoldsCompares ==
    ASSUME NEW op \in Compares, NEW a, NEW b, NEW c, NEW d, a = b <=> c = d
    PROVE  Holds(op, a, b) = Holds(op, c, d)
<1>1. op \in {"bne", "bnel"} \/ op \in {"beq", "beql"}
  BY DEF Compares
<1>2. CASE op \in {"bne", "bnel"}
  <2>1. Holds(op, a, b) = (a # b) /\ Holds(op, c, d) = (c # d)
    BY <1>2, HoldsIs
  <2>2. QED
    BY <2>1
<1>3. CASE op \in {"beq", "beql"}
  <2>1. Holds(op, a, b) = (a = b) /\ Holds(op, c, d) = (c = d)
    BY <1>3, HoldsIs
  <2>2. QED
    BY <2>1
<1>4. QED
  BY <1>1, <1>2, <1>3

\* on the same register is decided,
LEMMA HoldsSame ==
    ASSUME NEW op \in Compares, NEW a
    PROVE  Holds(op, a, a) = (op \in {"beq", "beql"})
<1>1. op \in {"bne", "bnel"} \/ op \in {"beq", "beql"}
  BY DEF Compares
<1>2. CASE op \in {"bne", "bnel"}
  <2>1. Holds(op, a, a) = (a # a) /\ op \notin {"beq", "beql"}
    BY <1>2, HoldsIs
  <2>2. QED
    BY <2>1
<1>3. CASE op \in {"beq", "beql"}
  <2>1. Holds(op, a, a) = (a = a) /\ op \in {"beq", "beql"}
    BY <1>3, HoldsIs
  <2>2. QED
    BY <2>1
<1>4. QED
  BY <1>1, <1>2, <1>3

\* on one register does not look at another, and that of a jump holds.
LEMMA HoldsZero ==
    ASSUME NEW op, NEW a, NEW b, NEW c
    PROVE  /\ op \in OnZero => Holds(op, a, b) = Holds(op, a, c)
           /\ op \in Jumps => Holds(op, a, b) = TRUE
<1>1. CASE op \in {"blez", "blezl"}
  BY <1>1 DEF Holds, Jumps
<1>2. CASE op \in {"bgtz", "bgtzl"}
  BY <1>2 DEF Holds, Jumps
<1>3. CASE op \in {"bltz", "bltzl", "bltzal", "bltzall"}
  BY <1>3 DEF Holds, Jumps
<1>4. CASE op \in {"bgez", "bgezl", "bgezal", "bgezall"}
  BY <1>4 DEF Holds, Jumps
<1>5. CASE op \in Jumps
  <2>1. Holds(op, a, b) = TRUE
    BY <1>5 DEF Holds, Jumps
  <2>2. op \notin OnZero
    BY <1>5 DEF OnZero, Jumps
  <2>3. QED
    BY <2>1, <2>2
<1>6. QED
  BY <1>1, <1>2, <1>3, <1>4, <1>5 DEF OnZero

\* A register is told from its signed value.
LEMMA SignedSame ==
    ASSUME NEW a \in Double, NEW b \in Double
    PROVE  a = b <=> SignedD(a) = SignedD(b)
<1>1. 2 ^ (2 * W) \in Nat /\ a < 2 ^ (2 * W) /\ b < 2 ^ (2 * W) /\ a \in Nat /\ b \in Nat
  BY Widths DEF Double
<1>2. QED
  BY <1>1 DEF SignedD

\* What is decided when the block is compiled.
LEMMA DecidedOn ==
    ASSUME NEW s, NEW M, NEW Z, On(s, {}, M, Z), NEW taken
    PROVE  On(Decided(s, taken).s, {}, M, Z) /\ Decided(s, taken).taken = taken
<1>1. PICK t : t = FlushAllRegisters(s)
  OBVIOUS
<1>2. On(t, {}, M, Z)
  BY <1>1, FlatAll
<1>3. Decided(s, taken).s = IF taken THEN t ELSE s
  BY <1>1 DEF Decided
<1>4. Decided(s, taken).taken = taken
  BY DEF Decided
<1>5. QED
  BY <1>2, <1>3, <1>4

\* The place of a register holds its value, however wide it was asked for.
LEMMA PlaceValue ==
    ASSUME NEW s, NEW M, NEW Z, On(s, {}, M, Z), NEW m, NEW r \in Reg \ Z, Has(s, m, r), NEW is32 \in BOOLEAN,
           ~is32 => m.hi # m.x, is32 => IsWord(M.gpr[r])
    PROVE  /\ is32 => Sext(s.host[m.x]) = M.gpr[r] /\ Signed(s.host[m.x]) = SignedD(M.gpr[r])
           /\ ~is32 => Pair(s.host[m.x], s.host[m.hi]) = M.gpr[r]
<1>1. /\ s.host[m.x] \in Word /\ s.host[m.hi] \in Word /\ M.gpr[r] \in Double
      /\ s.host[m.x] = Low(M.gpr[r]) /\ (m.hi # m.x => s.host[m.hi] = High(M.gpr[r]))
  BY HasValue
<1>2. PICK v : v = M.gpr[r]
  OBVIOUS
<1>3. CASE is32
  <2>1. v = Sext(Low(v)) /\ Low(v) \in Word
    BY <1>1, <1>2, <1>3, Extended, Pairs
  <2>2. SignedD(Sext(Low(v))) = Signed(Low(v))
    BY <2>1, SignedSext
  <2>3. QED
    BY <1>1, <1>2, <1>3, <2>1, <2>2
<1>4. CASE ~is32
  <2>1. v = Pair(Low(v), High(v))
    BY <1>1, <1>2, Pairs
  <2>2. QED
    BY <1>1, <1>2, <1>4, <2>1
<1>5. QED
  BY <1>3, <1>4

\* Both sides of a comparison are the registers' values.
\* What is compared of the register r, found in the state t.
LEMMA SideValue ==
    ASSUME NEW s, NEW M, NEW Z, On(s, {}, M, Z), NEW i, NEW r \in Reg \ Z, NEW is32, is32 = Both32(s, i), is32 \in BOOLEAN,
           is32 => IsWord(M.gpr[r]), NEW t, On(t, {}, M, Z), NEW m,
           ~Fixed(s, i, r) => Has(t, m, r) /\ (~is32 => m.hi # m.x)
    PROVE  Side(s, i, r, m, t) = M.gpr[r]
<1>1. CASE Fixed(s, i, r)
  <2>1. M.gpr[r] = Sext(s.const[r])
    BY <1>1, ValueOf DEF Fixed
  <2>2. QED
    BY <1>1, <2>1 DEF Side
<1>2. CASE ~Fixed(s, i, r)
  <2>1. Has(t, m, r) /\ (~is32 => m.hi # m.x)
    BY <1>2
  <2>2. /\ is32 => Sext(t.host[m.x]) = M.gpr[r]
        /\ ~is32 => Pair(t.host[m.x], t.host[m.hi]) = M.gpr[r]
    BY <2>1, PlaceValue
  <2>3. QED
    BY <1>2, <2>2 DEF Side
<1>3. QED
  BY <1>1, <1>2

\* Mapping one register leaves the place of the other.
LEMMA OtherPlace ==
    ASSUME NEW s, NEW t, NEW m, NEW r, NEW q, NEW K, Has(s, m, r), Beside(s, t, q, K), r \in K, r # q
    PROVE  Has(t, m, r)
<1>1. m.x \in Host /\ s.map[m.x].mips = r /\ m.hi = s.map[m.x].hi
  BY DEF Has
<1>2. t.map[m.x] = s.map[m.x]
  BY <1>1 DEF Beside
<1>3. QED
  BY <1>1, <1>2 DEF Has

\* The comparison of mapped registers,
LEMMA CompareMappedOn ==
    ASSUME NEW s, NEW M, NEW Z, On(s, {}, M, Z), NEW i, Fields(i), i.op \in Compares, i.rs \notin Z, i.rt \notin Z, i.rs # i.rt,
           Both32(s, i) => IsWord(M.gpr[i.rs]) /\ IsWord(M.gpr[i.rt])
    PROVE  /\ On(CompareMapped(s, i).s, {}, M, Z)
           /\ CompareMapped(s, i).taken = Holds(i.op, SignedD(M.gpr[i.rs]), SignedD(M.gpr[i.rt]))
<1>1. PICK is32 : is32 = Both32(s, i)
  OBVIOUS
<1>2. is32 \in BOOLEAN
  BY <1>1 DEF Both32, CheckIs32Bit
<1>3. i.rs \in Reg \ Z /\ i.rt \in Reg \ Z
  BY DEF Fields
<1>4. PICK x : x = MapRS(s, i, Want(i.rs, is32))
  OBVIOUS
<1>5. PICK p : p = {}
  OBVIOUS
<1>6. On(s, p, M, Z) /\ p \subseteq {ECX} /\ (is32 \/ p = {})
  BY <1>5
<1>7. Reads(s, x, p, M, Z, i.rs, is32, {i.rd, i.rt})
  <2>1. CASE is32
    <3>1. is32 = TRUE
      BY <1>2, <2>1
    <3>2. Reads(s, MapRS(s, i, Want(i.rs, TRUE)), {}, M, Z, i.rs, TRUE, {i.rd, i.rt})
      BY WantsOn
    <3>3. QED
      BY <1>4, <1>5, <3>1, <3>2
  <2>2. CASE ~is32
    <3>1. is32 = FALSE
      BY <1>2, <2>2
    <3>2. Reads(s, MapRS(s, i, Want(i.rs, FALSE)), {}, M, Z, i.rs, FALSE, {i.rd, i.rt})
      BY WantsOn
    <3>3. QED
      BY <1>4, <1>5, <3>1, <3>2
  <2>3. QED
    BY <2>1, <2>2
<1>8. On(x.s, p, M, Z) /\ Has(x.s, x, i.rs) /\ (~is32 => x.hi # x.x)
  BY <1>7 DEF Reads
<1>9. PICK t : t = IF Fixed(s, i, i.rs) THEN s ELSE x.s
  OBVIOUS
<1>10. On(t, p, M, Z)
  BY <1>6, <1>8, <1>9
<1>11. PICK y : y = MapRT(t, i, Want(i.rt, is32))
  OBVIOUS
<1>12. Reads(t, y, p, M, Z, i.rt, is32, {i.rd, i.rs})
  <2>1. CASE is32
    <3>1. is32 = TRUE
      BY <1>2, <2>1
    <3>2. Reads(t, MapRT(t, i, Want(i.rt, TRUE)), {}, M, Z, i.rt, TRUE, {i.rd, i.rs})
      BY <1>5, <1>10, WantsOn
    <3>3. QED
      BY <1>11, <1>5, <3>1, <3>2
  <2>2. CASE ~is32
    <3>1. is32 = FALSE
      BY <1>2, <2>2
    <3>2. Reads(t, MapRT(t, i, Want(i.rt, FALSE)), {}, M, Z, i.rt, FALSE, {i.rd, i.rs})
      BY <1>5, <1>10, WantsOn
    <3>3. QED
      BY <1>11, <1>5, <3>1, <3>2
  <2>3. QED
    BY <2>1, <2>2
<1>13. On(y.s, p, M, Z) /\ Has(y.s, y, i.rt) /\ (~is32 => y.hi # y.x) /\ Beside(t, y.s, i.rt, {i.rd, i.rs})
  BY <1>12 DEF Reads
<1>14. PICK u : u = IF Fixed(s, i, i.rt) THEN t ELSE y.s
  OBVIOUS
<1>15. On(u, {}, M, Z)
  BY <1>5, <1>10, <1>13, <1>14
<1>16. ~Fixed(s, i, i.rs) => Has(u, x, i.rs) /\ (~is32 => x.hi # x.x)
  <2>1. SUFFICES ASSUME ~Fixed(s, i, i.rs)
                 PROVE  Has(u, x, i.rs)
    BY <1>8
  <2>2. Has(t, x, i.rs)
    BY <1>8, <1>9, <2>1
  <2>3. i.rs \in {i.rd, i.rs}
    OBVIOUS
  <2>4. Has(y.s, x, i.rs)
    BY <1>13, <2>2, <2>3, OtherPlace
  <2>5. QED
    BY <1>14, <2>2, <2>4
<1>17. ~Fixed(s, i, i.rt) => Has(u, y, i.rt) /\ (~is32 => y.hi # y.x)
  BY <1>13, <1>14
<1>18. is32 => IsWord(M.gpr[i.rs]) /\ IsWord(M.gpr[i.rt])
  BY <1>1
<1>19. Side(s, i, i.rs, x, u) = M.gpr[i.rs]
  BY <1>1, <1>2, <1>3, <1>15, <1>16, <1>18, SideValue
<1>20. Side(s, i, i.rt, y, u) = M.gpr[i.rt]
  BY <1>1, <1>2, <1>3, <1>15, <1>17, <1>18, SideValue
<1>21. CompareMapped(s, i) = CompareSides(s, i, x, y, u)
  <2>1. CompareMapped(s, i) = CompareRS(s, i, x)
    BY <1>1, <1>4 DEF CompareMapped
  <2>2. CompareRS(s, i, x) = CompareX(s, i, x, t)
    BY <1>9 DEF CompareRS
  <2>3. CompareX(s, i, x, t) = CompareY(s, i, x, t, y)
    BY <1>1, <1>11 DEF CompareX
  <2>4. CompareY(s, i, x, t, y) = CompareSides(s, i, x, y, u)
    BY <1>14 DEF CompareY
  <2>5. QED
    BY <2>1, <2>2, <2>3, <2>4
<1>22. CompareSides(s, i, x, y, u).s = u /\ CompareSides(s, i, x, y, u).taken = Holds(i.op, M.gpr[i.rs], M.gpr[i.rt])
  BY <1>19, <1>20 DEF CompareSides
<1>23. PICK a, b : a = M.gpr[i.rs] /\ b = M.gpr[i.rt]
  OBVIOUS
<1>24. a \in Double /\ b \in Double
  BY <1>3, <1>23, ValueOf
<1>25. Holds(i.op, a, b) = Holds(i.op, SignedD(a), SignedD(b))
  BY <1>24, SignedSame, HoldsCompares
<1>26. QED
  BY <1>15, <1>21, <1>22, <1>23, <1>25

\* and every comparison.
LEMMA TestCompareOn ==
    ASSUME NEW s, NEW M, NEW Z, On(s, {}, M, Z), NEW i, Fields(i), i.op \in Compares, i.rs \notin Z, i.rt \notin Z,
           Both32(s, i) => IsWord(M.gpr[i.rs]) /\ IsWord(M.gpr[i.rt])
    PROVE  /\ On(TestCompare(s, i).s, {}, M, Z)
           /\ TestCompare(s, i).taken = Holds(i.op, SignedD(M.gpr[i.rs]), SignedD(M.gpr[i.rt]))
<1>1. i.rs \in Reg \ Z /\ i.rt \in Reg \ Z
  BY DEF Fields
<1>2. CASE i.rs = i.rt
  <2>1. TestCompare(s, i) = Decided(s, i.op \in {"beq", "beql"})
    BY <1>2 DEF TestCompare
  <2>2. PICK taken : taken = (i.op \in {"beq", "beql"})
    OBVIOUS
  <2>3. On(Decided(s, taken).s, {}, M, Z) /\ Decided(s, taken).taken = taken
    BY DecidedOn
  <2>4. PICK a : a = SignedD(M.gpr[i.rs])
    OBVIOUS
  <2>5. Holds(i.op, a, a) = taken
    BY <2>2, HoldsSame
  <2>6. QED
    BY <1>2, <2>1, <2>2, <2>3, <2>4, <2>5
<1>3. CASE i.rs # i.rt /\ Const2(s, i)
  <2>1. TestCompare(s, i) = Decided(s, Holds(i.op, s.const[i.rs], s.const[i.rt]))
    BY <1>3 DEF TestCompare
  <2>2. PICK a, b : a = s.const[i.rs] /\ b = s.const[i.rt]
    OBVIOUS
  <2>3. IsConst(s, i.rs) /\ IsConst(s, i.rt)
    BY <1>3 DEF Const2
  <2>4. a \in Word /\ b \in Word /\ M.gpr[i.rs] = Sext(a) /\ M.gpr[i.rt] = Sext(b)
    BY <1>1, <2>2, <2>3, ValueOf
  <2>5. a = b <=> Sext(a) = Sext(b)
    BY <2>4, SextOrder
  <2>6. Sext(a) \in Double /\ Sext(b) \in Double
    BY <2>4, Extended
  <2>7. a = b <=> SignedD(Sext(a)) = SignedD(Sext(b))
    BY <2>5, <2>6, SignedSame
  <2>8. Holds(i.op, a, b) = Holds(i.op, SignedD(Sext(a)), SignedD(Sext(b)))
    BY <2>7, HoldsCompares
  <2>9. PICK taken : taken = Holds(i.op, a, b)
    OBVIOUS
  <2>10. On(Decided(s, taken).s, {}, M, Z) /\ Decided(s, taken).taken = taken
    BY DecidedOn
  <2>11. QED
    BY <2>1, <2>2, <2>4, <2>8, <2>9, <2>10
<1>4. CASE i.rs # i.rt /\ ~Const2(s, i)
  <2>1. TestCompare(s, i) = CompareMapped(s, i)
    BY <1>4 DEF TestCompare
  <2>2. /\ On(CompareMapped(s, i).s, {}, M, Z)
        /\ CompareMapped(s, i).taken = Holds(i.op, SignedD(M.gpr[i.rs]), SignedD(M.gpr[i.rt]))
    BY <1>4, CompareMappedOn
  <2>3. QED
    BY <2>1, <2>2
<1>5. QED
  BY <1>2, <1>3, <1>4

\* The place of a register that holds a word.
LEMMA PlaceWord ==
    ASSUME NEW s, NEW M, NEW Z, On(s, {}, M, Z), NEW m, NEW r \in Reg \ Z, Has(s, m, r), IsWord(M.gpr[r])
    PROVE  Signed(s.host[m.x]) = SignedD(M.gpr[r])
<1>1. M.gpr[r] \in Double /\ s.host[m.x] = Low(M.gpr[r])
  BY HasValue
<1>2. PICK v : v = M.gpr[r]
  OBVIOUS
<1>3. v = Sext(Low(v)) /\ Low(v) \in Word
  BY <1>1, <1>2, Extended, Pairs
<1>4. SignedD(Sext(Low(v))) = Signed(Low(v))
  BY <1>3, SignedSext
<1>5. QED
  BY <1>1, <1>2, <1>3, <1>4

\* The test of a register against zero, of its word if both operands are known
\* to be words.
LEMMA CompareZeroOn ==
    ASSUME NEW s, NEW M, NEW Z, On(s, {}, M, Z), NEW i, Fields(i), i.op \in OnZero, i.rs \notin Z,
           NEW is32 \in BOOLEAN, is32 => IsWord(M.gpr[i.rs]), NEW x, x = MapRS(s, i, Want(i.rs, is32))
    PROVE  /\ On(CompareZero(i, x, is32).s, {}, M, Z)
           /\ CompareZero(i, x, is32).taken = Holds(i.op, SignedD(M.gpr[i.rs]), 0)
<1>1. i.rs \in Reg \ Z
  BY DEF Fields
<1>2. CASE is32
  <2>1. is32 = TRUE
    BY <1>2
  <2>2. Reads(s, MapRS(s, i, Want(i.rs, TRUE)), {}, M, Z, i.rs, TRUE, {i.rd, i.rt})
    BY WantsOn
  <2>3. Reads(s, x, {}, M, Z, i.rs, TRUE, {i.rd, i.rt})
    BY <2>1, <2>2
  <2>4. On(x.s, {}, M, Z) /\ Has(x.s, x, i.rs)
    BY <2>3 DEF Reads
  <2>5. Signed(x.s.host[x.x]) = SignedD(M.gpr[i.rs])
    <3>1. PICK y : y = x.s
      OBVIOUS
    <3>2. On(y, {}, M, Z) /\ Has(y, x, i.rs) /\ IsWord(M.gpr[i.rs])
      BY <1>2, <2>4, <3>1
    <3>3. Signed(y.host[x.x]) = SignedD(M.gpr[i.rs])
      BY <1>1, <3>2, PlaceWord
    <3>4. QED
      BY <3>1, <3>3
  <2>6. CompareZero(i, x, is32).s = x.s /\ CompareZero(i, x, is32).taken = Holds(i.op, Signed(x.s.host[x.x]), 0)
    BY <1>2 DEF CompareZero
  <2>7. QED
    BY <2>4, <2>5, <2>6
<1>3. CASE ~is32
  <2>1. is32 = FALSE
    BY <1>3
  <2>2. Reads(s, MapRS(s, i, Want(i.rs, FALSE)), {}, M, Z, i.rs, FALSE, {i.rd, i.rt})
    BY WantsOn
  <2>3. Reads(s, x, {}, M, Z, i.rs, FALSE, {i.rd, i.rt})
    BY <2>1, <2>2
  <2>4. On(x.s, {}, M, Z) /\ Has(x.s, x, i.rs) /\ x.hi # x.x
    BY <2>3 DEF Reads
  <2>5. Pair(x.s.host[x.x], x.s.host[x.hi]) = M.gpr[i.rs]
    BY <1>1, <1>3, <2>4, PlaceValue
  <2>6. /\ CompareZero(i, x, is32).s = x.s
        /\ CompareZero(i, x, is32).taken = Holds(i.op, SignedD(Pair(x.s.host[x.x], x.s.host[x.hi])), 0)
    BY <1>3 DEF CompareZero
  <2>7. QED
    BY <2>4, <2>5, <2>6
<1>4. QED
  BY <1>2, <1>3

\* A comparison with zero decides as the interpreter does.
LEMMA TestZeroOn ==
    ASSUME NEW s, NEW M, NEW Z, On(s, {}, M, Z), NEW i, Fields(i), i.op \in OnZero, i.rs \notin Z,
           Both32(s, i) => IsWord(M.gpr[i.rs])
    PROVE  /\ On(TestZero(s, i).s, {}, M, Z)
           /\ TestZero(s, i).taken = Holds(i.op, SignedD(M.gpr[i.rs]), 0)
<1>1. i.rs \in Reg \ Z
  BY DEF Fields
<1>2. PICK is32 : is32 = (Both32(s, i) /\ i.op \notin AlwaysWide)
  OBVIOUS
<1>3. is32 \in BOOLEAN /\ (is32 => IsWord(M.gpr[i.rs]))
  BY <1>2
<1>4. PICK constant : constant = (IsConst(s, i.rs) /\ i.op \notin Unfolded)
  OBVIOUS
<1>5. CASE constant
  <2>1. TestZero(s, i) = Decided(s, Holds(i.op, Signed(s.const[i.rs]), 0))
    BY <1>4, <1>5 DEF TestZero
  <2>2. s.const[i.rs] \in Word /\ M.gpr[i.rs] = Sext(s.const[i.rs])
    <3>1. IsConst(s, i.rs)
      BY <1>4, <1>5
    <3>2. QED
      BY <1>1, <3>1, ValueOf
  <2>3. Signed(s.const[i.rs]) = SignedD(M.gpr[i.rs])
    BY <2>2, SignedSext
  <2>4. PICK taken : taken = Holds(i.op, SignedD(M.gpr[i.rs]), 0)
    OBVIOUS
  <2>5. On(Decided(s, taken).s, {}, M, Z) /\ Decided(s, taken).taken = taken
    BY DecidedOn
  <2>6. QED
    BY <2>1, <2>3, <2>4, <2>5
<1>6. CASE ~constant
  <2>1. PICK x : x = MapRS(s, i, Want(i.rs, is32))
    OBVIOUS
  <2>2. TestZero(s, i) = CompareZero(i, x, is32)
    BY <1>2, <1>4, <1>6, <2>1 DEF TestZero
  <2>3. /\ On(CompareZero(i, x, is32).s, {}, M, Z)
        /\ CompareZero(i, x, is32).taken = Holds(i.op, SignedD(M.gpr[i.rs]), 0)
    BY <1>3, <2>1, CompareZeroOn
  <2>4. QED
    BY <2>2, <2>3
<1>7. QED
  BY <1>5, <1>6

\* The test of the condition bit.
LEMMA TestFlagOn ==
    ASSUME NEW s, NEW M, NEW Z, On(s, {}, M, Z), NEW i, i.op \in OnTrue \cup OnFalse
    PROVE  On(TestFlag(s, i).s, {}, M, Z) /\ TestFlag(s, i).taken = Taken(M, i)
<1>1. PICK p : p = {}
  OBVIOUS
<1>2. PICK t : t = PushIfMapped(s, EAX)
  OBVIOUS
<1>3. EAX \in Host
  BY HostFacts
<1>4. On(t, {}, M, Z) /\ Saved(t, EAX)
  BY <1>2, <1>3, PushOn
<1>5. 0 \in Word
  BY Signs
<1>6. On(PopIfMapped(Clobber(t, {EAX}), EAX), {}, M, Z)
  BY <1>4, <1>5, AroundOne
<1>7. /\ TestFlag(s, i).s = PopIfMapped(Clobber(t, {EAX}), EAX)
      /\ TestFlag(s, i).taken = Taken(s, i)
  BY <1>2 DEF TestFlag
<1>8. s.con31 = M.con31
  BY DEF On, Follows, Aside
<1>9. Taken(s, i) = Taken(M, i)
  <2>1. CASE i.op \in OnTrue
    BY <1>8, <2>1 DEF Taken
  <2>2. CASE i.op \in OnFalse
    <3>1. i.op \notin OnTrue
      BY <2>2 DEF OnTrue, OnFalse
    <3>2. QED
      BY <1>8, <2>2, <3>1 DEF Taken
  <2>3. QED
    BY <2>1, <2>2
<1>10. QED
  BY <1>6, <1>7, <1>9

\* The register is in its place in memory.
Reaches(u, M, r) == u.gpr[r] = M.gpr[r]

\* The jumps; jalr has written its link.
LEMMA TestJumpOn ==
    ASSUME NEW s, NEW M, NEW Z, Z = {R0}, On(s, {}, M, Z), NEW i, Fields(i), i.op \in Jumps \ {"jalr"}
    PROVE  /\ On(TestJump(s, i).s, {}, M, Z) /\ TestJump(s, i).taken = TRUE
           /\ i.op = "jr" => Reaches(TestJump(s, i).s, M, i.rs)
<1>1. PICK f : f = FlushAllRegisters(s)
  OBVIOUS
<1>2. On(f, {}, M, Z) /\ \A r \in Reg : r \notin Z \/ r = R0 => f.gpr[r] = M.gpr[r]
  BY <1>1, FlatAll
<1>3. f.gpr[i.rs] = M.gpr[i.rs]
  BY <1>2 DEF Fields
<1>4. TestJump(s, i).taken = TRUE
  BY DEF TestJump
<1>5. TestJump(s, i).s = CASE i.op = "jalr" -> Set(f, i.rd, Sext(Link))
                           [] i.op = "jr" -> f
                           [] i.op \in {"j", "jal"} -> s
  BY <1>1 DEF TestJump
<1>6. CASE i.op = "jr"
  <2>1. TestJump(s, i).s = f
    BY <1>5, <1>6
  <2>2. Reaches(f, M, i.rs)
    BY <1>3 DEF Reaches
  <2>3. QED
    BY <1>2, <1>4, <2>1, <2>2
<1>7. CASE i.op \in {"j", "jal"}
  <2>1. TestJump(s, i).s = s /\ i.op # "jr"
    BY <1>5, <1>7
  <2>2. QED
    BY <1>4, <2>1
<1>8. QED
  BY <1>6, <1>7 DEF Jumps

\* jalr: the link goes to memory, and the target is the old value of its register.
LEMMA TestLinkOn ==
    ASSUME NEW s, NEW M, NEW Z, Z = {R0}, On(s, {}, M, Z), NEW i, Fields(i), i.op = "jalr", i.rd # R0, i.rs # i.rd
    PROVE  /\ On(TestJump(s, i).s, {}, Set(M, i.rd, Sext(Link)), Z) /\ TestJump(s, i).taken = TRUE
           /\ Reaches(TestJump(s, i).s, M, i.rs)
<1>1. PICK f : f = FlushAllRegisters(s)
  OBVIOUS
<1>2. On(f, {}, M, Z) /\ Flat(f) /\ \A r \in Reg : r \notin Z \/ r = R0 => f.gpr[r] = M.gpr[r]
  BY <1>1, FlatAll
<1>3. f.gpr[i.rs] = M.gpr[i.rs] /\ i.rd \in Reg /\ i.rs \in Reg
  BY <1>2 DEF Fields
<1>4. PICK v : v = Sext(Link)
  OBVIOUS
<1>5. v \in Double
  BY <1>4, DynaAssumption, Extended
<1>6. PICK u : u = Set(f, i.rd, v)
  OBVIOUS
<1>7. On(u, {}, Set(M, i.rd, v), Z)
  BY <1>2, <1>3, <1>5, <1>6, FlatSet
<1>8. u.gpr[i.rs] = M.gpr[i.rs]
  <2>1. Typed(f) /\ f.gpr \in [Reg -> Double]
    BY <1>2 DEF On, Follows, Good, Image
  <2>2. u.gpr = [f.gpr EXCEPT ![i.rd] = v]
    BY <1>6, <2>1 DEF Set, Typed
  <2>3. QED
    BY <1>3, <2>1, <2>2
<1>9. TestJump(s, i).s = u /\ TestJump(s, i).taken = TRUE
  BY <1>1, <1>4, <1>6 DEF TestJump
<1>10. Reaches(u, M, i.rs)
  BY <1>8 DEF Reaches
<1>11. QED
  BY <1>4, <1>7, <1>9, <1>10

\* A register known to be a word is one.
Trusted(s, i, M) ==
    i.op \in Compares \cup OnZero => /\ CheckIs32Bit(s, i.rs) => IsWord(M.gpr[i.rs])
                                     /\ i.op \in Compares /\ CheckIs32Bit(s, i.rt) => IsWord(M.gpr[i.rt])

\* Before the slot, all branches but jalr (TestLinkOn) stand for the interpreter's
\* machine and decide as it does, the constants folded by the compiler included;
\* jr finds its target in memory.
THEOREM TestOn ==
    ASSUME NEW s, NEW M, NEW Z, Z = {R0}, On(s, {}, M, Z), NEW i, Fields(i), i.op \in BranchOps \ {"jalr"}, Trusted(s, i, M)
    PROVE  /\ On(Test(s, i).s, {}, M, Z) /\ Test(s, i).taken = Taken(M, i)
           /\ i.op = "jr" => Reaches(Test(s, i).s, M, i.rs)
<1>1. CASE i.op \in Jumps
  <2>1. i.op \in Jumps \ {"jalr"}
    BY <1>1
  <2>2. /\ On(TestJump(s, i).s, {}, M, Z) /\ TestJump(s, i).taken = TRUE
        /\ i.op = "jr" => Reaches(TestJump(s, i).s, M, i.rs)
    <3>2. On(TestJump(s, i).s, {}, M, Z) /\ TestJump(s, i).taken = TRUE
      BY <2>1, TestJumpOn
    <3>3. i.op = "jr" => Reaches(TestJump(s, i).s, M, i.rs)
      BY <2>1, TestJumpOn
    <3>4. QED
      BY <3>2, <3>3
  <2>3. Test(s, i) = TestJump(s, i)
    <3>1. i.op \notin OnTrue \cup OnFalse \cup Compares
      BY <1>1 DEF Jumps, OnTrue, OnFalse, Compares
    <3>2. QED
      BY <1>1, <3>1, Zenon DEF Test
  <2>4. Taken(M, i) = Holds(i.op, SignedD(RS(M, i)), SignedD(RT(M, i)))
    <3>1. i.op \notin OnTrue \cup OnFalse
      BY <1>1 DEF Jumps, OnTrue, OnFalse
    <3>2. QED
      BY <3>1 DEF Taken
  <2>5. Taken(M, i) = TRUE
    BY <1>1, <2>4, HoldsZero
  <2>6. QED
    BY <2>2, <2>3, <2>5
<1>2. CASE i.op \in OnTrue \cup OnFalse
  <2>1. PICK t : t = cop1_with_exception(s)
    OBVIOUS
  <2>2. On(t, {}, M, Z)
    <3>1. On(t, {}, M, Z) /\ t.map = s.map /\ t.const = s.const /\ t.flushed = [r \in Reg |-> r = R0]
      BY <2>1, CopOn
    <3>2. QED
      BY <3>1
  <2>3. On(TestFlag(t, i).s, {}, M, Z) /\ TestFlag(t, i).taken = Taken(M, i)
    BY <1>2, <2>2, TestFlagOn
  <2>4. i.op \notin Jumps
    BY <1>2 DEF Jumps, OnTrue, OnFalse
  <2>5. Test(s, i) = TestFlag(t, i)
    <3>1. i.op \notin Compares \cup Jumps
      BY <1>2, <2>4 DEF OnTrue, OnFalse, Compares
    <3>2. Test(s, i) = TestFlag(cop1_with_exception(s), i)
      BY <1>2, <3>1, Zenon DEF Test
    <3>3. QED
      BY <2>1, <3>2
  <2>6. i.op # "jr"
    BY <2>4 DEF Jumps
  <2>7. QED
    BY <2>3, <2>5, <2>6
<1>3. CASE i.op \in Compares \cup OnZero
  <2>1. i.op \notin Jumps \cup OnTrue \cup OnFalse /\ i.op # "jr" /\ (i.op \in OnZero <=> i.op \notin Compares)
    BY <1>3 DEF Jumps, OnTrue, OnFalse, Compares, OnZero
  <2>2. PICK t : t = InitRdRsRt(s, i)
    OBVIOUS
  <2>3. PICK X : X \subseteq Z /\ On(t, {}, M, X) /\ i.rs \notin X /\ i.rt \notin X
    <3>1. PICK Y : Y = {}
      OBVIOUS
    <3>2. Y \cup {R0} = Z /\ {i.rd, i.rs, i.rt} \cap Y = {}
      BY <3>1
    <3>3. On(s, {}, M, Y \cup {R0})
      BY <3>2
    <3>4. \E X : X \subseteq Y \cup {R0} /\ On(t, {}, M, X) /\ i.rd \notin X /\ i.rs \notin X /\ i.rt \notin X
      BY <2>2, <3>2, <3>3, InitOn
    <3>5. QED
      BY <3>2, <3>4
  <2>4. SameView(s, t)
    BY <2>2, InitSame
  <2>5. CheckIs32Bit(t, i.rs) = CheckIs32Bit(s, i.rs) /\ CheckIs32Bit(t, i.rt) = CheckIs32Bit(s, i.rt)
    BY <2>4 DEF SameView, Fields
  <2>6. /\ Both32(t, i) => IsWord(M.gpr[i.rs])
        /\ i.op \in Compares => (Both32(t, i) => IsWord(M.gpr[i.rs]) /\ IsWord(M.gpr[i.rt]))
    BY <1>3, <2>5 DEF Both32, Trusted
  <2>7. Taken(M, i) = Holds(i.op, SignedD(M.gpr[i.rs]), SignedD(M.gpr[i.rt]))
    BY <2>1 DEF Taken, RS, RT
  <2>8. CASE i.op \in Compares
    <3>1. Both32(t, i) => IsWord(M.gpr[i.rs]) /\ IsWord(M.gpr[i.rt])
      BY <2>6, <2>8
    <3>2. /\ On(TestCompare(t, i).s, {}, M, X)
          /\ TestCompare(t, i).taken = Holds(i.op, SignedD(M.gpr[i.rs]), SignedD(M.gpr[i.rt]))
      BY <2>3, <2>8, <3>1, TestCompareOn
    <3>3. Test(s, i) = TestCompare(t, i)
      BY <2>1, <2>2, <2>8 DEF Test
    <3>4. On(TestCompare(t, i).s, {}, M, Z)
      BY <2>3, <3>2, WidenOn
    <3>5. QED
      BY <2>1, <2>7, <3>2, <3>3, <3>4
  <2>9. CASE i.op \notin Compares
    <3>1. i.op \in OnZero
      BY <1>3, <2>9
    <3>2. /\ On(TestZero(t, i).s, {}, M, X)
          /\ TestZero(t, i).taken = Holds(i.op, SignedD(M.gpr[i.rs]), 0)
      BY <2>3, <2>6, <3>1, TestZeroOn
    <3>3. Test(s, i) = TestZero(t, i)
      BY <2>1, <2>2, <2>9 DEF Test
    <3>4. On(TestZero(t, i).s, {}, M, Z)
      BY <2>3, <3>2, WidenOn
    <3>5. Holds(i.op, SignedD(M.gpr[i.rs]), 0) = Holds(i.op, SignedD(M.gpr[i.rs]), SignedD(M.gpr[i.rt]))
      BY <3>1, HoldsZero
    <3>6. QED
      BY <2>1, <2>7, <3>2, <3>3, <3>4, <3>5
  <2>10. QED
    BY <2>8, <2>9
<1>4. QED
  BY <1>1, <1>2, <1>3 DEF BranchOps

-------------------------------------------------------------------------------
(* The delay slot                                                            *)

\* A register no instruction writes keeps its value.
Keeps(m, u, r) == u.gpr[r] = m.gpr[r]

\* Each way of the interpreter to change its machine leaves the other registers alone.
LEMMA KeepAssignments ==
    ASSUME NEW m, Machine(m), NEW r \in Reg
    PROVE  /\ \A q \in Reg \ {r} : \A v : Keeps(m, Set(m, q, v), r)
           /\ r \notin {HI, LO} => \A h, l : Keeps(m, HiLo(m, h, l), r)
           /\ \A size, a, data : Keeps(m, Store(m, size, a, data), r)
           /\ \A f, w : Keeps(m, SetCell(m, f, w), r)
           /\ Keeps(m, m, r)
<1>1. m.gpr \in [Reg -> Double] /\ m \in [gpr : [Reg -> Double], fpr : [Cells -> Word], con31 : Word, rc : Word,
              store : {m.store}, exit : {m.exit}]
  BY DEF Machine
<1>2. \A q \in Reg \ {r} : \A v : Keeps(m, Set(m, q, v), r)
  BY <1>1 DEF Keeps, Set
<1>3. r \notin {HI, LO} => \A h, l : Keeps(m, HiLo(m, h, l), r)
  BY <1>1 DEF Keeps, HiLo
<1>4. \A size, a, data : Keeps(m, Store(m, size, a, data), r)
  BY <1>1 DEF Keeps, Store
<1>5. \A f, w : Keeps(m, SetCell(m, f, w), r)
  BY <1>1 DEF Keeps, SetCell
<1>6. QED
  BY <1>2, <1>3, <1>4, <1>5 DEF Keeps

\* A store leaves a machine.
LEMMA StoreMachine ==
    ASSUME NEW m, Machine(m), NEW size, NEW a, NEW data
    PROVE  Machine(Store(m, size, a, data))
BY DEF Machine, Store

\* So with the instructions of R4300i,
LEMMA InterpretKeeps ==
    ASSUME NEW M, Machine(M), NEW i, Named(i), i.op \in IntegerOps, NEW r \in Reg \ {i.rd, i.rt, HI, LO}
    PROVE  Keeps(M, Interpret(M, i), r)
<1>0. /\ i.rd \in Reg \ {r} /\ i.rt \in Reg \ {r} /\ HI \in Reg \ {r} /\ LO \in Reg \ {r} /\ r \in Reg /\ r \notin {HI, LO}
  BY NamedFacts DEF Fields
<1>1. /\ Keeps(M, r4300i_add(M, i), r) /\ Keeps(M, r4300i_sub(M, i), r)
      /\ Keeps(M, r4300i_addi(M, i), r) /\ Keeps(M, r4300i_dadd(M, i), r)
      /\ Keeps(M, r4300i_dsub(M, i), r) /\ Keeps(M, r4300i_daddi(M, i), r)
      /\ Keeps(M, r4300i_dadd_32bit(M, i), r) /\ Keeps(M, r4300i_daddi_32bit(M, i), r)
  BY <1>0, KeepAssignments DEF r4300i_add, r4300i_addi, r4300i_dadd, r4300i_dadd_32bit, r4300i_daddi,
      r4300i_daddi_32bit, r4300i_dsub, r4300i_sub
<1>2. /\ Keeps(M, r4300i_and(M, i), r) /\ Keeps(M, r4300i_or(M, i), r)
      /\ Keeps(M, r4300i_xor(M, i), r) /\ Keeps(M, r4300i_nor(M, i), r)
      /\ Keeps(M, r4300i_andi(M, i), r) /\ Keeps(M, r4300i_ori(M, i), r)
      /\ Keeps(M, r4300i_xori(M, i), r) /\ Keeps(M, r4300i_lui(M, i), r)
  BY <1>0, KeepAssignments DEF r4300i_and, r4300i_andi, r4300i_lui, r4300i_nor, r4300i_or, r4300i_ori,
      r4300i_xor, r4300i_xori
<1>3. /\ Keeps(M, r4300i_slt(M, i), r) /\ Keeps(M, r4300i_sltu(M, i), r)
      /\ Keeps(M, r4300i_slti(M, i), r) /\ Keeps(M, r4300i_sltiu(M, i), r)
      /\ Keeps(M, r4300i_sll(M, i), r) /\ Keeps(M, r4300i_srl(M, i), r)
      /\ Keeps(M, r4300i_sra(M, i), r) /\ Keeps(M, r4300i_sllv(M, i), r)
  BY <1>0, KeepAssignments DEF Sll, Sra, Srl, r4300i_sll, r4300i_sllv, r4300i_slt, r4300i_slti,
      r4300i_sltiu, r4300i_sltu, r4300i_sra, r4300i_srl
<1>4. /\ Keeps(M, r4300i_srlv(M, i), r) /\ Keeps(M, r4300i_srav(M, i), r)
      /\ Keeps(M, r4300i_dsll(M, i), r) /\ Keeps(M, r4300i_dsrl(M, i), r)
      /\ Keeps(M, r4300i_dsra(M, i), r) /\ Keeps(M, r4300i_dsllv(M, i), r)
      /\ Keeps(M, r4300i_dsrlv(M, i), r) /\ Keeps(M, r4300i_dsrav(M, i), r)
  BY <1>0, KeepAssignments DEF Dsll, Dsra, Dsrl, Sra, Srl, r4300i_dsll, r4300i_dsllv, r4300i_dsra,
      r4300i_dsrav, r4300i_dsrl, r4300i_dsrlv, r4300i_srav, r4300i_srlv
<1>5. /\ Keeps(M, r4300i_dsll32(M, i), r) /\ Keeps(M, r4300i_dsrl32(M, i), r)
      /\ Keeps(M, r4300i_dsra32(M, i), r) /\ Keeps(M, r4300i_mfhi(M, i), r)
      /\ Keeps(M, r4300i_mflo(M, i), r) /\ Keeps(M, r4300i_mthi(M, i), r)
      /\ Keeps(M, r4300i_mtlo(M, i), r) /\ Keeps(M, r4300i_mult(M, i), r)
  BY <1>0, KeepAssignments DEF Dsll, Dsra, Dsrl, Product, r4300i_dsll32, r4300i_dsra32, r4300i_dsrl32,
      r4300i_mfhi, r4300i_mflo, r4300i_mthi, r4300i_mtlo, r4300i_mult
<1>6. /\ Keeps(M, r4300i_multu(M, i), r) /\ Keeps(M, r4300i_div(M, i), r)
      /\ Keeps(M, r4300i_divu(M, i), r) /\ Keeps(M, r4300i_ddiv(M, i), r)
      /\ Keeps(M, r4300i_ddivu(M, i), r) /\ Keeps(M, r4300i_dmult(M, i), r)
      /\ Keeps(M, r4300i_dmultu(M, i), r) /\ Keeps(M, r4300i_lb(M, i), r)
  BY <1>0, KeepAssignments DEF Divided, Product, r4300i_ddiv, r4300i_ddivu, r4300i_div, r4300i_divu,
      r4300i_dmult, r4300i_dmultu, r4300i_lb, r4300i_lh, r4300i_multu
<1>7. /\ Keeps(M, r4300i_lbu(M, i), r) /\ Keeps(M, r4300i_sb(M, i), r)
      /\ Keeps(M, r4300i_lh(M, i), r) /\ Keeps(M, r4300i_lhu(M, i), r)
      /\ Keeps(M, r4300i_lw(M, i), r) /\ Keeps(M, r4300i_lwu(M, i), r)
      /\ Keeps(M, r4300i_ld(M, i), r) /\ Keeps(M, r4300i_lwl(M, i), r)
  BY <1>0, KeepAssignments DEF r4300i_lbu, r4300i_ld, r4300i_lh, r4300i_lhu, r4300i_lw, r4300i_lwl,
      r4300i_lwu, r4300i_sb, r4300i_sh
<1>8. /\ Keeps(M, r4300i_lwr(M, i), r) /\ Keeps(M, r4300i_ldl(M, i), r)
      /\ Keeps(M, r4300i_ldr(M, i), r) /\ Keeps(M, r4300i_sh(M, i), r)
      /\ Keeps(M, r4300i_sw(M, i), r) /\ Keeps(M, r4300i_sd(M, i), r)
      /\ Keeps(M, r4300i_swl(M, i), r) /\ Keeps(M, r4300i_swr(M, i), r)
  BY <1>0, KeepAssignments DEF r4300i_ldl, r4300i_ldr, r4300i_lwr, r4300i_sd, r4300i_sh, r4300i_sw,
      r4300i_swl, r4300i_swr
<1>9. /\ Keeps(M, r4300i_sdl(M, i), r) /\ Keeps(M, r4300i_sdr(M, i), r)
      /\ Keeps(M, r4300i_sc(M, i), r)
  <2>1. PICK u : u = IF i.sa = 1 THEN Store(M, "word", Address(M, i), lo(RT(M, i))) ELSE M
    OBVIOUS
  <2>2. Machine(u) /\ Keeps(M, u, r)
    BY <2>1, <1>0, StoreMachine, KeepAssignments
  <2>3. r4300i_sc(M, i) = Set(u, i.rt, i.sa)
    BY <2>1 DEF r4300i_sc
  <2>4. Keeps(u, Set(u, i.rt, i.sa), r)
    BY <1>0, <2>2, KeepAssignments
  <2>5. Keeps(M, r4300i_sc(M, i), r)
    BY <2>2, <2>3, <2>4 DEF Keeps
  <2>6. QED
    BY <1>0, <2>5, KeepAssignments DEF r4300i_sdl, r4300i_sdr
<1>10. QED
  BY <1>1, <1>2, <1>3, <1>4, <1>5, <1>6, <1>7, <1>8, <1>9 DEF Interpret, IntegerOps

\* and the floating-point ones of FPU.
LEMMA FloatKeeps ==
    ASSUME NEW t, NEW M, Paired(t, M), NEW i, i.op \in FloatOps, Fields(i), i.op \notin {"cfc1", "ctc1"} => FloatReady(i),
           NEW r \in Reg \ {i.rt}
    PROVE  Keeps(M, COP1_instr(M, i), r)
<1>1. Machine(M)
  BY DEF Paired
<1>2. i.rt \in Reg \ {r} /\ r \in Reg
  BY DEF Fields
<1>3. CASE i.op \in {"mfc1", "dmfc1", "cfc1"}
  <2>1. i.op # "cfc1" => FloatReady(i)
    BY <1>3
  <2>2. PICK v \in Double : COP1_instr(M, i) = Set(M, i.rt, v)
    BY <1>1, <1>3, <2>1, FromIs
  <2>3. QED
    BY <1>1, <1>2, <2>2, KeepAssignments
<1>4. CASE i.op \in Formatted
  <2>1. COP1_instr(M, i) = ByFormat(M, i) /\ i.op \notin {"cfc1", "ctc1"}
    <3>1. \A m : COP1_instr(m, i) = ByFormat(m, i)
      BY <1>4, FormattedIs
    <3>2. i.op \notin {"cfc1", "ctc1"}
      BY <1>4 DEF Formatted, FloatBinary, FloatUnary, Methods
    <3>3. QED
      BY <3>1, <3>2
  <2>2. Twins(t, ByFormat(t, i), M, ByFormat(M, i))
    BY <1>4, <2>1, FormatTwins DEF Formatted
  <2>3. QED
    BY <2>1, <2>2 DEF Twins, Keeps
<1>5. CASE i.op \in {"mtc1", "lwc1", "swc1", "sdc1"}
  BY <1>1, <1>2, <1>5, KeepAssignments DEF COP1_instr, r4300i_COP1_mtc1, r4300i_lwc1, r4300i_swc1, r4300i_sdc1
<1>6. CASE i.op \in {"dmtc1", "ldc1"}
  <2>1. PICK d : COP1_instr(M, i) = write_64bit_fpu_reg(M, IF i.op = "dmtc1" THEN i.fs ELSE i.ft, d)
    BY <1>6 DEF COP1_instr, r4300i_COP1_dmtc1, r4300i_ldc1
  <2>2. \A f : Keeps(M, write_64bit_fpu_reg(M, f, d), r)
    BY <1>1 DEF Keeps, write_64bit_fpu_reg, SetCell, Machine
  <2>3. QED
    BY <2>1, <2>2
<1>7. CASE i.op = "ctc1"
  <2>1. COP1_instr(M, i) = r4300i_COP1_ctc1(M, i)
    BY <1>7 DEF COP1_instr
  <2>2. QED
    BY <1>1, <2>1 DEF r4300i_COP1_ctc1, Keeps, Machine
<1>8. i.op \in {"mfc1", "dmfc1", "cfc1"} \cup Formatted \cup {"mtc1", "lwc1", "swc1", "sdc1"} \cup {"dmtc1", "ldc1"} \cup {"ctc1"}
  BY DEF FloatOps, Formatted, FloatMoves, FloatLoads
<1>9. QED
  BY <1>3, <1>4, <1>5, <1>6, <1>7, <1>8

\* A register left aside may change in the machine,
LEMMA AsideSet ==
    ASSUME NEW t, NEW M, NEW Z, On(t, {}, M, Z), NEW r \in Reg, r # R0, NEW v \in Double, NEW X, Z \subseteq X, r \in X
    PROVE  On(t, {}, Set(M, r, v), X)
<1>1. PICK N : N = Set(M, r, v)
  OBVIOUS
<1>2. Good(t, {}) /\ Image(t) /\ Machine(M) /\ Aside(t, M)
  BY DEF On, Follows
<1>3. /\ N.gpr = [M.gpr EXCEPT ![r] = v] /\ N.fpr = M.fpr /\ N.con31 = M.con31 /\ N.rc = M.rc
      /\ N.store = M.store /\ N.exit = M.exit
      /\ Machine(N)
  BY <1>1, <1>2 DEF Set, Machine
<1>4. Aside(t, N)
  BY <1>2, <1>3 DEF Aside
<1>5. \A q \in Reg \ X : Shown(t, N.gpr[q], q)
  <2>1. TAKE q \in Reg \ X
  <2>2. Shown(t, M.gpr[q], q)
    BY DEF On, Follows
  <2>3. N.gpr[q] = M.gpr[q]
    BY <1>2, <1>3 DEF Machine
  <2>4. QED
    BY <2>2, <2>3
<1>6. On(t, {}, N, X)
  BY <1>2, <1>3, <1>4, <1>5 DEF On, Follows
<1>7. QED
  BY <1>1, <1>6

\* and is found again when it has been written to memory.
LEMMA WrittenAgain ==
    ASSUME NEW t, NEW M, NEW Z, NEW X, On(t, {}, M, X), Flat(t), NEW r \in Reg, r # R0, NEW v \in Double, M.gpr[r] = v,
           X \subseteq Z \cup {r}, NEW u, u = Set(t, r, v)
    PROVE  On(u, {}, M, Z) /\ Flat(u)
<1>1. Machine(M) /\ Typed(t) /\ t.gpr \in [Reg -> Double]
  BY DEF On, Follows, Good, Image
<1>2. Set(M, r, v) = M
  BY <1>1 DEF Set, Machine
<1>3. On(u, {}, Set(M, r, v), X) /\ Flat(u)
  BY FlatSet
<1>4. On(u, {}, M, X) /\ Flat(u)
  BY <1>2, <1>3
<1>5. u.gpr[r] = v
  BY <1>1 DEF Set, Typed
<1>6. Shown(u, v, r)
  <2>1. \A k \in Host : u.map[k].mips # r
    BY <1>4, MarkFacts DEF Flat, Marks
  <2>2. u.const[r] = NoConst
    BY <1>4 DEF Flat
  <2>3. QED
    BY <1>5, <2>1, <2>2 DEF Shown
<1>7. \A q \in Reg \ Z : Shown(u, M.gpr[q], q)
  <2>1. TAKE q \in Reg \ Z
  <2>2. CASE q = r
    BY <1>6, <2>2
  <2>3. CASE q # r
    <3>1. q \in Reg \ X
      BY <2>3
    <3>2. QED
      BY <1>4, <3>1 DEF On, Follows
  <2>4. QED
    BY <2>2, <2>3
<1>8. QED
  BY <1>4, <1>7 DEF On, Follows

\* The link as the interpreter writes it.
LEMMA LinkedIs ==
    ASSUME NEW M, Machine(M), NEW i, Fields(i), i.op = "jalr" => i.rd # R0, NEW v, v = Sext(Link)
    PROVE  /\ v \in Double /\ RA \in Reg /\ RA # R0 /\ RA # HI /\ RA # LO
           /\ i.op \in Linking => Linked(M, i) = Set(M, RA, v)
           /\ i.op = "jalr" => Linked(M, i) = Set(M, i.rd, v)
           /\ i.op \notin Linking \cup {"jalr"} => Linked(M, i) = M
           /\ Machine(Linked(M, i))
<1>1. v \in Double
  BY DynaAssumption, Extended
<1>2. RA \in Reg /\ RA # R0 /\ RA # HI /\ RA # LO
  BY DynaAssumption, HostRegsAssumption, MarkFacts
<1>3. \A r \in Reg \ {R0} : ClearR0(Set(M, r, v)) = Set(M, r, v) /\ Machine(Set(M, r, v))
  <2>1. TAKE r \in Reg \ {R0}
  <2>2. PICK N : N = Set(M, r, v)
    OBVIOUS
  <2>3. /\ N.gpr = [M.gpr EXCEPT ![r] = v] /\ N.fpr = M.fpr /\ N.con31 = M.con31 /\ N.rc = M.rc
        /\ N.store = M.store /\ N.exit = M.exit
        /\ Machine(N)
    BY <1>1, <2>2 DEF Set, Machine
  <2>4. ClearR0(N) = N
    BY <2>3 DEF ClearR0, Machine
  <2>5. QED
    BY <2>2, <2>3, <2>4
<1>4. ClearR0(M) = M
  BY DEF ClearR0, Machine
<1>5. i.rd \in Reg
  BY DEF Fields
<1>6. CASE i.op \in Linking
  <2>1. Linked(M, i) = ClearR0(Set(M, RA, v)) /\ i.op # "jalr"
    BY <1>6 DEF Linked, Linking
  <2>2. QED
    BY <1>1, <1>2, <1>3, <1>6, <2>1
<1>7. CASE i.op = "jalr"
  <2>1. Linked(M, i) = ClearR0(Set(M, i.rd, v)) /\ i.op \notin Linking
    BY <1>7 DEF Linked, Linking
  <2>2. QED
    BY <1>1, <1>2, <1>3, <1>5, <1>7, <2>1
<1>8. CASE i.op \notin Linking \cup {"jalr"}
  <2>1. Linked(M, i) = ClearR0(M)
    BY <1>8 DEF Linked
  <2>2. QED
    BY <1>1, <1>2, <1>4, <1>8, <2>1
<1>9. QED
  BY <1>6, <1>7, <1>8

\* It does not change the decision,
LEMMA TakenLinked ==
    ASSUME NEW M, Machine(M), NEW i, Fields(i), i.op \in BranchOps, i.op = "jalr" => i.rd # R0,
           i.op \in Linking => i.rs # RA
    PROVE  /\ i.op # "jalr" => Taken(Linked(M, i), i) = Taken(M, i)
           /\ i.op = "jalr" => Taken(Linked(M, i), i) = TRUE
<1>1. PICK L : L = Linked(M, i)
  OBVIOUS
<1>2. PICK v : v = Sext(Link)
  OBVIOUS
<1>3. CASE i.op \in Linking
  <2>1. L = Set(M, RA, v) /\ v \in Double /\ RA \in Reg
    BY <1>1, <1>2, <1>3, LinkedIs
  <2>2. L.gpr[i.rs] = M.gpr[i.rs]
    BY <1>3, <2>1 DEF Set, Machine, Fields
  <2>3. i.op \notin OnTrue \cup OnFalse /\ i.op # "jalr" /\ (i.op \in OnZero \/ i.op \in Jumps)
    BY <1>3 DEF Linking, OnTrue, OnFalse, OnZero, Jumps
  <2>4. /\ Taken(L, i) = Holds(i.op, SignedD(L.gpr[i.rs]), SignedD(L.gpr[i.rt]))
        /\ Taken(M, i) = Holds(i.op, SignedD(M.gpr[i.rs]), SignedD(M.gpr[i.rt]))
    BY <2>3 DEF Taken, RS, RT
  <2>5. \A a, b, c : Holds(i.op, a, b) = Holds(i.op, a, c)
    BY <2>3, HoldsZero
  <2>6. Taken(L, i) = Taken(M, i)
    BY <2>2, <2>4, <2>5
  <2>7. QED
    BY <1>1, <2>3, <2>6
<1>4. CASE i.op = "jalr"
  <2>1. i.op \notin OnTrue \cup OnFalse /\ i.op \in Jumps
    BY <1>4 DEF OnTrue, OnFalse, Jumps
  <2>2. Taken(L, i) = Holds(i.op, SignedD(RS(L, i)), SignedD(RT(L, i)))
    BY <2>1 DEF Taken
  <2>3. Taken(L, i) = TRUE
    BY <2>1, <2>2, HoldsZero
  <2>4. QED
    BY <1>1, <1>4, <2>3
<1>5. CASE i.op \notin Linking \cup {"jalr"}
  <2>1. L = M
    BY <1>1, <1>2, <1>5, LinkedIs
  <2>2. QED
    BY <1>1, <1>5, <2>1
<1>6. QED
  BY <1>3, <1>4, <1>5

\* and only the jumps to a register look at a register to find their way.
LEMMA WayIs ==
    ASSUME NEW i, i.op \in BranchOps \ {"jr", "jalr"}, NEW taken, NEW a, NEW b
    PROVE  Way(i, taken, a) = Way(i, taken, b)
<1>1. i.op \notin {"jr", "jalr"}
  OBVIOUS
<1>2. CASE taken
  <2>1. Way(i, taken, a) = Target /\ Way(i, taken, b) = Target
    BY <1>1, <1>2 DEF Way
  <2>2. QED
    BY <2>1
<1>3. CASE ~taken
  <2>1. /\ Way(i, taken, a) = IF i.op \in Likely THEN Past ELSE Slot
        /\ Way(i, taken, b) = IF i.op \in Likely THEN Past ELSE Slot
    BY <1>1, <1>3 DEF Way
  <2>2. QED
    BY <2>1
<1>4. QED
  BY <1>2, <1>3

\* The registers an instruction does not name keep their value.
LEMMA ClearKeeps ==
    ASSUME NEW m, Machine(ClearR0(m)), NEW r \in Reg, r # R0
    PROVE  ClearR0(m).gpr[r] = m.gpr[r]
<1>1. PICK N : N = ClearR0(m)
  OBVIOUS
<1>2. N = [m EXCEPT !.gpr = [m.gpr EXCEPT ![R0] = 0]]
  BY <1>1 DEF ClearR0
<1>3. N.gpr \in [Reg -> Double] /\ DOMAIN N = {"gpr", "fpr", "con31", "rc", "store", "exit"}
  BY <1>1 DEF Machine
<1>4. DOMAIN m = DOMAIN N
  BY <1>2
<1>5. N.gpr = [m.gpr EXCEPT ![R0] = 0]
  BY <1>2, <1>3, <1>4
<1>6. DOMAIN m.gpr = Reg
  BY <1>3, <1>5
<1>7. N.gpr[r] = m.gpr[r]
  BY <1>5, <1>6
<1>8. QED
  BY <1>1, <1>7

\* An instruction leaves a register alone that it does not name.
LEMMA SlotKeeps ==
    ASSUME NEW t, NEW M, NEW Z, On(t, {}, M, Z), NEW i \in Instruction, Encoded(i), Machine(ClearR0(InterpretAny(M, i))),
           NEW r \in Reg \ {i.rd, i.rs, i.rt, HI, LO, R0}
    PROVE  ClearR0(InterpretAny(M, i)).gpr[r] = M.gpr[r]
<1>1. ClearR0(InterpretAny(M, i)).gpr[r] = InterpretAny(M, i).gpr[r]
  BY ClearKeeps
<1>2. Paired(t, M) /\ Machine(M)
  <2>1. Paired(t, M)
    BY PairedOn
  <2>2. QED
    BY <2>1 DEF Paired
<1>3. CASE i.op \in FloatOps
  <2>1. Fields(i) /\ (i.op \notin {"cfc1", "ctc1"} => FloatReady(i))
    BY <1>3, FloatShape
  <2>2. r \in Reg \ {i.rt}
    OBVIOUS
  <2>3. Keeps(M, COP1_instr(M, i), r)
    BY <1>2, <1>3, <2>1, <2>2, FloatKeeps
  <2>4. InterpretAny(M, i) = COP1_instr(M, i)
    BY <1>3 DEF InterpretAny
  <2>5. QED
    BY <1>1, <2>3, <2>4 DEF Keeps
<1>4. CASE i.op \notin FloatOps
  <2>1. i.op \in IntegerOps /\ Named(i)
    BY <1>4, IntegerShape
  <2>2. r \in Reg \ {i.rd, i.rt, HI, LO}
    OBVIOUS
  <2>3. Keeps(M, Interpret(M, i), r)
    BY <1>2, <2>1, <2>2, InterpretKeeps
  <2>4. InterpretAny(M, i) = Interpret(M, i)
    BY <1>4 DEF InterpretAny
  <2>5. QED
    BY <1>1, <2>3, <2>4 DEF Keeps
<1>5. QED
  BY <1>3, <1>4

\* The block and the interpreter stand before the delay slot: all registers but
\* a link register agree, and the decision.
Poised(t, L, Y, i) ==
    /\ On(t.s, {}, L, Y \cup {R0}) /\ t.taken = Taken(L, i)
    /\ i.op \in {"jr", "jalr"} => Reaches(t.s, L, i.rs)
    /\ i.op \in Linking => Y = {RA} /\ L.gpr[RA] = Sext(Link)
    /\ i.op \notin Linking => Y = {}

\* A test brings the block and the interpreter there.
LEMMA PoisedTest ==
    ASSUME NEW s, NEW M, NEW Z, Z = {R0}, On(s, {}, M, Z), NEW i, Fields(i), i.op \in BranchOps,
           i.op = "jalr" => i.rd # R0 /\ i.rs # i.rd, i.op \in Linking => i.rs # RA, Trusted(s, i, M)
    PROVE  \E Y : Poised(Test(s, i), Linked(M, i), Y, i)
<1>1. PICK L, t : L = Linked(M, i) /\ t = Test(s, i)
  OBVIOUS
<1>2. PICK v : v = Sext(Link)
  OBVIOUS
<1>3. Machine(M)
  BY DEF On, Follows
<1>4. v \in Double /\ RA \in Reg /\ RA # R0
  BY <1>2, <1>3, LinkedIs
<1>5. CASE i.op = "jalr"
  <2>1. i.op \in Jumps /\ i.op \notin Linking
    BY <1>5 DEF Jumps, Linking
  <2>2. t = TestJump(s, i)
    <3>1. i.op \notin OnTrue \cup OnFalse \cup Compares
      BY <1>5 DEF OnTrue, OnFalse, Compares
    <3>2. Test(s, i) = TestJump(s, i)
      BY <2>1, <3>1, Zenon DEF Test
    <3>3. QED
      BY <1>1, <3>2
  <2>3. /\ On(TestJump(s, i).s, {}, Set(M, i.rd, Sext(Link)), Z) /\ TestJump(s, i).taken = TRUE
        /\ Reaches(TestJump(s, i).s, M, i.rs)
    <3>1. i.rd # R0 /\ i.rs # i.rd
      BY <1>5
    <3>2. On(TestJump(s, i).s, {}, Set(M, i.rd, Sext(Link)), Z) /\ TestJump(s, i).taken = TRUE
      BY <1>5, <3>1, TestLinkOn
    <3>3. Reaches(TestJump(s, i).s, M, i.rs)
      BY <1>5, <3>1, TestLinkOn
    <3>4. QED
      BY <3>2, <3>3
  <2>4. L = Set(M, i.rd, v)
    BY <1>1, <1>2, <1>3, <1>5, LinkedIs
  <2>5. L.gpr[i.rs] = M.gpr[i.rs]
    BY <1>3, <1>5, <2>4 DEF Set, Machine, Fields
  <2>6. Reaches(t.s, L, i.rs)
    BY <2>2, <2>3, <2>5 DEF Reaches
  <2>7. Taken(L, i) = TRUE
    BY <1>1, <1>3, <1>5, <2>1, TakenLinked
  <2>8. PICK Y : Y = {}
    OBVIOUS
  <2>9. Y \cup {R0} = Z
    BY <2>8
  <2>10. On(t.s, {}, L, Z) /\ t.taken = TRUE
    BY <1>2, <2>2, <2>3, <2>4
  <2>11. On(t.s, {}, L, Y \cup {R0})
    BY <2>9, <2>10
  <2>12. Poised(t, L, Y, i)
    BY <2>1, <2>6, <2>7, <2>8, <2>10, <2>11 DEF Poised
  <2>13. QED
    BY <1>1, <2>12
<1>6. CASE i.op # "jalr"
  <2>1. i.op \in BranchOps \ {"jalr"}
    BY <1>6
  <2>2. On(Test(s, i).s, {}, M, Z) /\ Test(s, i).taken = Taken(M, i)
    BY <2>1, TestOn
  <2>3. i.op = "jr" => Reaches(Test(s, i).s, M, i.rs)
    BY <2>1, TestOn
  <2>4. Taken(L, i) = Taken(M, i)
    BY <1>1, <1>3, <1>6, TakenLinked
  <2>5. On(t.s, {}, M, Z) /\ t.taken = Taken(L, i)
    BY <1>1, <2>2, <2>4
  <2>6. CASE i.op \in Linking
    <3>1. L = Set(M, RA, v)
      BY <1>1, <1>2, <1>3, <1>6, <2>6, LinkedIs
    <3>2. PICK Y : Y = {RA}
      OBVIOUS
    <3>3. PICK X : X = Y \cup {R0}
      OBVIOUS
    <3>4. Z \subseteq X /\ RA \in X
      BY <3>2, <3>3
    <3>5. On(t.s, {}, L, X)
      <4>1. PICK u : u = t.s
        OBVIOUS
      <4>2. On(u, {}, M, Z)
        BY <2>5, <4>1
      <4>3. On(u, {}, Set(M, RA, v), X)
        BY <1>4, <3>4, <4>2, AsideSet
      <4>4. QED
        BY <3>1, <4>1, <4>3
    <3>6. L.gpr[RA] = v
      BY <1>3, <1>4, <3>1 DEF Set, Machine
    <3>7. i.op \notin {"jr", "jalr"}
      BY <2>6 DEF Linking
    <3>8. On(t.s, {}, L, Y \cup {R0})
      BY <3>3, <3>5
    <3>9. Poised(t, L, Y, i)
      BY <1>2, <2>5, <2>6, <3>2, <3>6, <3>7, <3>8 DEF Poised
    <3>10. QED
      BY <1>1, <3>9
  <2>7. CASE i.op \notin Linking
    <3>1. L = M
      BY <1>1, <1>2, <1>3, <1>6, <2>7, LinkedIs
    <3>2. PICK Y : Y = {}
      OBVIOUS
    <3>3. Y \cup {R0} = Z
      BY <3>2
    <3>4. On(t.s, {}, L, Y \cup {R0})
      BY <2>5, <3>1, <3>3
    <3>5. i.op \in {"jr", "jalr"} => Reaches(t.s, L, i.rs)
      BY <1>1, <1>6, <2>3, <3>1
    <3>6. Poised(t, L, Y, i)
      BY <2>5, <2>7, <3>2, <3>4, <3>5 DEF Poised
    <3>7. QED
      BY <1>1, <3>6
  <2>8. QED
    BY <2>6, <2>7
<1>7. QED
  BY <1>5, <1>6

-------------------------------------------------------------------------------
(* A branch                                                                  *)

\* The delay slot: both run it when the branch is taken, and a link register keeps
\* the interpreter's link.
LEMMA DelaySlotOn ==
    ASSUME NEW t, NEW L, NEW Y, NEW i, Poised(t, L, Y, i), RA \in Reg \ {R0, HI, LO},
           NEW slot \in Instruction, Encoded(slot), i.op \in Linking => RA \notin {slot.rd, slot.rs, slot.rt},
           t.taken => Defined(L, slot), ~PartsInSlot(L, t, slot), NEW end \in {{}, Operands(slot)},
           NEW U, U = (IF t.taken THEN Compile(FinalUse(t.s, end), slot) ELSE t.s),
           NEW N, N = (IF Taken(L, i) THEN ClearR0(InterpretAny(L, slot)) ELSE L)
    PROVE  On(U, {}, N, Y \cup {R0}) /\ (i.op \in Linking => N.gpr[RA] = Sext(Link))
<1>1. PICK X : X = Y \cup {R0}
  OBVIOUS
<1>2. On(t.s, {}, L, X) /\ t.taken = Taken(L, i)
  BY <1>1 DEF Poised
<1>3. i.op \in Linking => Y = {RA} /\ L.gpr[RA] = Sext(Link)
  BY DEF Poised
<1>4. i.op \notin Linking => Y = {}
  BY DEF Poised
<1>5. CASE ~t.taken
  <2>1. U = t.s /\ N = L
    BY <1>2, <1>5
  <2>2. QED
    BY <1>1, <1>2, <1>3, <2>1
<1>6. CASE t.taken
  <2>1. PICK s : s = FinalUse(t.s, end)
    OBVIOUS
  <2>2. PICK v : v = t.s
    OBVIOUS
  <2>3. Fields(slot)
    BY InstructionRuns DEF Runs
  <2>4. end \subseteq Reg
    BY <2>3, OperandsAre
  <2>5. On(v, {}, L, X)
    BY <1>2, <2>2
  <2>6. s = FinalUse(v, end)
    BY <2>1, <2>2
  <2>7. On(s, {}, L, X) /\ s.map = v.map /\ s.const = v.const /\ s.flushed = v.flushed
    BY <2>4, <2>5, <2>6, FinalUseOn
  <2>8. Parts(L, s, slot) = Parts(L, v, slot)
    BY <2>3, <2>7, ViewParts
  <2>9. ~Parts(L, s, slot)
    BY <1>6, <2>2, <2>8 DEF PartsInSlot
  <2>10. On(s, {}, L, Y \cup {R0})
    BY <1>1, <2>7
  <2>11. {slot.rd, slot.rs, slot.rt, HI, LO} \cap Y = {}
    BY <1>3, <1>4
  <2>12. Defined(L, slot)
    BY <1>6
  <2>13. On(Compile(s, slot), {}, ClearR0(InterpretAny(L, slot)), Y \cup {R0})
    BY <2>9, <2>10, <2>11, <2>12, InstructionOn
  <2>14. U = Compile(s, slot) /\ N = ClearR0(InterpretAny(L, slot))
    BY <1>2, <1>6, <2>1
  <2>15. ASSUME i.op \in Linking PROVE N.gpr[RA] = Sext(Link)
    <3>1. Machine(ClearR0(InterpretAny(L, slot)))
      BY <2>13 DEF On, Follows
    <3>2. RA \in Reg \ {slot.rd, slot.rs, slot.rt, HI, LO, R0}
      BY <2>15
    <3>3. ClearR0(InterpretAny(L, slot)).gpr[RA] = L.gpr[RA]
      BY <2>7, <3>1, <3>2, SlotKeeps
    <3>4. QED
      BY <1>3, <2>14, <2>15, <3>3
  <2>16. QED
    BY <2>13, <2>14, <2>15
<1>7. QED
  BY <1>5, <1>6

\* The way out writes everything back, and the link again.
LEMMA InterruptsOn ==
    ASSUME NEW U, NEW N, NEW Y, On(U, {}, N, Y \cup {R0}), NEW i, i.op \in Linking => Y = {RA} /\ N.gpr[RA] = Sext(Link),
           i.op \notin Linking => Y = {}, RA \in Reg \ {R0}, Sext(Link) \in Double, NEW Z, Z = {R0},
           NEW w, w = Interrupts(U, i)
    PROVE  On(w, {}, N, Z) /\ Flat(w)
<1>1. PICK X : X = Y \cup {R0}
  OBVIOUS
<1>2. PICK t : t = FlushAllRegisters(U)
  OBVIOUS
<1>3. On(U, {}, N, X)
  BY <1>1
<1>4. On(t, {}, N, X) /\ Flat(t)
  BY <1>2, <1>3, FlatAll
<1>5. PICK v : v = Sext(Link)
  OBVIOUS
<1>6. CASE i.op \in Linking
  <2>1. w = Set(t, RA, v)
    BY <1>2, <1>5, <1>6 DEF Interrupts
  <2>2. X \subseteq Z \cup {RA} /\ N.gpr[RA] = v /\ v \in Double /\ RA \in Reg /\ RA # R0
    BY <1>1, <1>5, <1>6
  <2>3. QED
    BY <1>4, <2>1, <2>2, WrittenAgain
<1>7. CASE i.op \notin Linking
  <2>1. w = t
    BY <1>2, <1>7 DEF Interrupts
  <2>2. X = Z
    BY <1>1, <1>7
  <2>3. QED
    BY <1>4, <2>1, <2>2
<1>8. QED
  BY <1>6, <1>7

\* Both leave for the same place.
LEMMA SameWay ==
    ASSUME NEW t, NEW L, NEW Y, NEW i, i.op \in BranchOps, Poised(t, L, Y, i)
    PROVE  Way(i, t.taken, Low(t.s.gpr[i.rs])) = Way(i, Taken(L, i), lo(RS(L, i)))
<1>1. t.taken = Taken(L, i)
  BY DEF Poised
<1>2. CASE i.op \in {"jr", "jalr"}
  <2>1. t.s.gpr[i.rs] = L.gpr[i.rs]
    BY <1>2 DEF Poised, Reaches
  <2>2. Low(t.s.gpr[i.rs]) = lo(RS(L, i))
    BY <2>1 DEF Low, lo, RS
  <2>3. QED
    BY <1>1, <2>2
<1>3. CASE i.op \notin {"jr", "jalr"}
  <2>1. i.op \in BranchOps \ {"jr", "jalr"}
    BY <1>3
  <2>2. QED
    BY <1>1, <2>1, WayIs
<1>4. QED
  BY <1>2, <1>3

\* What a branch's test relies on, the exceptions it is judged by.
LEMMA TrustedIs ==
    ASSUME NEW M, NEW s, NEW i, NEW slot, ~DivergesBranch(M, s, i, slot)
    PROVE  Trusted(s, i, M)
<1>1. Compares \cup OnZero \subseteq BranchOps \ (Jumps \cup OnTrue \cup OnFalse)
  BY DEF Compares, OnZero, BranchOps, Jumps, OnTrue, OnFalse
<1>2. i.op \in Compares \cup OnZero => ~Misjudged(M, s, i.rs) /\ (i.op \in Compares => ~Misjudged(M, s, i.rt))
  BY <1>1 DEF DivergesBranch
<1>3. QED
  BY <1>2 DEF Misjudged, Trusted

\* A branch, compiled with its delay slot (Compile_Slot_And_Interrupts), leaves the
\* block where the interpreter's branch and slot end, taken or not: registers, the
\* link written after the slot, and the way out.
THEOREM BranchStepOn ==
    ASSUME NEW Z, Z = {R0}, NEW s, NEW M, On(s, {}, M, Z), NEW i \in BranchInstruction, NEW slot \in Instruction, Encoded(slot),
           DefinedBranch(M, i, slot), ~DivergesBranch(M, s, i, slot), NEW end \in {{}, Operands(slot)}
    PROVE  On(Finished(CompileBranch(s, i, slot, end)), {}, InterpretBranch(M, i, slot), Z)
<1>1. Fields(i) /\ i.op \in BranchOps
  BY BranchFields
<1>2. Trusted(s, i, M)
  BY TrustedIs
<1>3. (i.op \in Linking => i.rs # RA) /\ (i.op = "jalr" => i.rd # R0 /\ i.rs # i.rd)
  BY DEF DefinedBranch, DivergesBranch
<1>4. \E Y : Poised(Test(s, i), Linked(M, i), Y, i)
  BY <1>1, <1>2, <1>3, PoisedTest
<1>5. PICK t, L : t = Test(s, i) /\ L = Linked(M, i)
  OBVIOUS
<1>6. PICK Y : Poised(t, L, Y, i)
  BY <1>4, <1>5
<1>7. t.taken = Taken(L, i)
  BY <1>6 DEF Poised
<1>8. (t.taken => Defined(L, slot)) /\ ~PartsInSlot(L, t, slot)
  BY <1>5, <1>7 DEF DefinedBranch, DivergesBranch
<1>9. i.op \in Linking => RA \notin {slot.rd, slot.rs, slot.rt}
  BY DEF DivergesBranch
<1>10. RA \in Reg \ {R0, HI, LO} /\ Sext(Link) \in Double
  <2>1. Machine(M)
    BY DEF On, Follows
  <2>2. QED
    BY <1>1, <1>3, <2>1, LinkedIs
<1>11. PICK U : U = IF t.taken THEN Compile(FinalUse(t.s, end), slot) ELSE t.s
  OBVIOUS
<1>12. PICK N : N = IF Taken(L, i) THEN ClearR0(InterpretAny(L, slot)) ELSE L
  OBVIOUS
<1>13. On(U, {}, N, Y \cup {R0}) /\ (i.op \in Linking => N.gpr[RA] = Sext(Link))
  BY <1>6, <1>8, <1>9, <1>10, <1>11, <1>12, DelaySlotOn
<1>14. PICK w : w = Interrupts(U, i)
  OBVIOUS
<1>15. (i.op \in Linking => Y = {RA}) /\ (i.op \notin Linking => Y = {})
  BY <1>6 DEF Poised
<1>16. On(w, {}, N, Z) /\ Flat(w)
  BY <1>10, <1>13, <1>14, <1>15, InterruptsOn
<1>17. PICK e : e = Way(i, Taken(L, i), lo(RS(L, i)))
  OBVIOUS
<1>18. Way(i, t.taken, Low(t.s.gpr[i.rs])) = e
  BY <1>1, <1>6, <1>17, SameWay
<1>19. PICK x : x = Leave(w, e)
  OBVIOUS
<1>20. PICK P : P = Leave(N, e)
  OBVIOUS
<1>21. On(x, {}, P, Z) /\ Flat(x)
  BY <1>16, <1>19, <1>20, LeaveOn
<1>22. On(Finished(x), {}, P, Z)
  BY <1>21, FinishedOn
<1>23. CompileBranch(s, i, slot, end) = x
  BY <1>5, <1>11, <1>14, <1>18, <1>19 DEF CompileBranch, SlotAndExit
<1>24. InterpretBranch(M, i, slot) = P
  BY <1>5, <1>12, <1>17, <1>20 DEF InterpretBranch
<1>25. QED
  BY <1>22, <1>23, <1>24

\* The step of the block that ends with a branch.
LEMMA BranchOn ==
    ASSUME Excused, NEW Z, Z = {R0}, On(jit, {}, ref, Z), Branch
    PROVE  On(jit', {}, ref', Z)
<1>1. PICK i \in Branches, slot \in Slots : 
        /\ DefinedBranch(ref, i, slot)
        /\ \E done \in {{}, Operands(i)}, end \in {{}, Operands(slot)} :
            /\ Excused => ~DivergesBranch(ref, FinalUse(jit, done), i, slot)
            /\ jit' = Finished(CompileBranch(FinalUse(jit, done), i, slot, end))
        /\ ref' = InterpretBranch(ref, i, slot)
  BY DEF Branch
<1>2. PICK done \in {{}, Operands(i)}, end \in {{}, Operands(slot)} :
            /\ Excused => ~DivergesBranch(ref, FinalUse(jit, done), i, slot)
            /\ jit' = Finished(CompileBranch(FinalUse(jit, done), i, slot, end))
  BY <1>1
<1>3. i \in BranchInstruction /\ slot \in Instruction /\ Encoded(slot)
  BY ProgramIs
<1>4. PICK s : s = FinalUse(jit, done)
  OBVIOUS
<1>5. Fields(i)
  BY <1>3, BranchFields
<1>6. done \subseteq Reg
  BY <1>5, OperandsAre
<1>7. On(s, {}, ref, Z)
  BY <1>4, <1>6, FinalUseOn
<1>8. ~DivergesBranch(ref, s, i, slot)
  BY <1>2, <1>4
<1>9. On(Finished(CompileBranch(s, i, slot, end)), {}, InterpretBranch(ref, i, slot), Z)
  BY <1>1, <1>3, <1>7, <1>8, BranchStepOn
<1>10. QED
  BY <1>1, <1>2, <1>4, <1>9

-------------------------------------------------------------------------------
(* The block and the interpreter                                             *)

\* The invariant: without the instructions on which the recompiler is known to part
\* from the interpreter, the block stands for the interpreter's machine, but for
\* the register r0.
Simulates == Excused => On(jit, {}, ref, {R0})

\* A block starts from the interpreter's registers,
LEMMA SimulatesInit == Init => Simulates
<1> SUFFICES ASSUME Init PROVE On(jit, {}, ref, {R0})
  BY DEF Simulates
<1>1. PICK gpr \in Start :
        /\ jit = InitRegisterMap(gpr, StartFloat, [k \in Host |-> 0])
        /\ ref = [gpr |-> gpr, fpr |-> StartFloat, con31 |-> 0, rc |-> Nearest,
                  store |-> <<>>, exit |-> Inside]
  BY DEF Init
<1>2. gpr \in [Reg -> Double] /\ gpr[R0] = 0 /\ StartFloat \in [Cells -> Word]
  BY DynaAssumption
<1>3. PICK host : host = [k \in Host |-> 0]
  OBVIOUS
<1>4. jit = InitRegisterMap(gpr, StartFloat, host)
  BY <1>1, <1>3
<1>5. Good(jit, {})
  BY <1>4, InitRegisterMapGood
<1>6. 0 \in Word /\ Nearest = 0 /\ R0 \in Reg
  BY MarkFacts, Signs DEF Nearest
<1>7. /\ jit.host = host /\ jit.stack = [k \in Host |-> NoConst] /\ jit.gpr = gpr
      /\ jit.const = [r \in Reg |-> IF r = R0 THEN 0 ELSE NoConst] /\ jit.flushed = [r \in Reg |-> r = R0]
      /\ jit.fpr = StartFloat /\ jit.con31 = 0 /\ jit.rc = 0 /\ jit.store = <<>> /\ jit.exit = Inside
      /\ jit.map = [k \in Host |-> Entry(Unused, FALSE, FALSE, None, FirstYear)]
  BY <1>4 DEF InitRegisterMap
<1>8. IsWord(0)
  BY Extended
<1>9. Image(jit)
  <2>1. jit.host \in [Host -> Word] /\ jit.stack \in [Host -> Word \cup {NoConst}]
    BY <1>3, <1>6, <1>7
  <2>2. jit.gpr \in [Reg -> Double] /\ jit.const \in [Reg -> Word \cup {NoConst}] /\ jit.flushed \in [Reg -> BOOLEAN]
    BY <1>2, <1>6, <1>7
  <2>3. jit.fpr \in [Cells -> Word] /\ jit.con31 \in Word /\ jit.rc \in Word /\ jit.gpr[R0] = 0
    BY <1>2, <1>6, <1>7
  <2>4. \A r \in Reg : jit.flushed[r] => IsWord(jit.gpr[r])
    <3>1. SUFFICES ASSUME NEW r \in Reg, jit.flushed[r] PROVE IsWord(jit.gpr[r])
      OBVIOUS
    <3>2. jit.flushed[r] = (r = R0)
      BY <1>7
    <3>3. r = R0
      BY <3>1, <3>2
    <3>4. jit.gpr[r] = 0
      BY <2>3, <3>3
    <3>5. QED
      BY <1>8, <3>4
  <2>5. QED
    BY <2>1, <2>2, <2>3, <2>4 DEF Image
<1>10. Machine(ref) /\ Aside(jit, ref)
  BY <1>1, <1>2, <1>6, <1>7 DEF Machine, Aside
<1>11. \A r \in Reg \ {R0} : Shown(jit, ref.gpr[r], r)
  <2>1. SUFFICES ASSUME NEW r \in Reg \ {R0} PROVE Shown(jit, ref.gpr[r], r)
    OBVIOUS
  <2>2. jit.const[r] = NoConst /\ ref.gpr[r] = jit.gpr[r]
    BY <1>1, <1>7
  <2>3. \A k \in Host : jit.map[k].mips # r
    <3>1. Unused \notin Reg
      BY MarkFacts
    <3>2. \A k \in Host : jit.map[k].mips = Unused
      BY <1>7 DEF Entry
    <3>3. QED
      BY <2>1, <3>1, <3>2
  <2>4. QED
    BY <2>2, <2>3 DEF Shown
<1>12. Follows(jit, ref, {R0})
  BY <1>9, <1>10, <1>11 DEF Follows
<1>13. QED
  BY <1>5, <1>12 DEF On

\* every step keeps it,
LEMMA SimulatesNext == Simulates /\ [Next]_vars => Simulates'
<1> SUFFICES ASSUME Simulates, [Next]_vars, Excused PROVE On(jit', {}, ref', {R0})
  BY DEF Simulates
<1>1. PICK Z : Z = {R0}
  OBVIOUS
<1>2. On(jit, {}, ref, Z)
  BY <1>1 DEF Simulates
<1>3. CASE Emit
  BY <1>1, <1>2, <1>3, EmitOn
<1>4. CASE Branch
  BY <1>1, <1>2, <1>4, BranchOn
<1>5. CASE EndBlock
  BY <1>1, <1>2, <1>5, EndBlockOn
<1>6. CASE TriggerFPUUnusableException
  BY <1>1, <1>2, <1>6, UnusableOn
<1>7. CASE UNCHANGED vars
  BY <1>1, <1>2, <1>7 DEF vars
<1>8. QED
  BY <1>3, <1>4, <1>5, <1>6, <1>7 DEF Next

\* and so it always holds: at every instruction of a block the tables, the host
\* registers and the memory image together stand for the interpreter's machine.
THEOREM SimulatesAlways == Spec => []Simulates
BY SimulatesInit, SimulatesNext, PTL DEF Spec

\* The block computes what the interpreter computes.
LEMMA AgreesOn ==
    ASSUME On(jit, {}, ref, {R0})
    PROVE  Agree
<1>1. Good(jit, {}) /\ Image(jit) /\ Machine(ref) /\ Aside(jit, ref) /\ \A r \in Reg \ {R0} : Shown(jit, ref.gpr[r], r)
  BY DEF On, Follows
<1>2. ASSUME NEW r \in Reg \ {R0} PROVE Value(jit, r) = ref.gpr[r]
  <2>1. PICK v : v = ref.gpr[r]
    OBVIOUS
  <2>2. v \in Double
    BY <1>1, <2>1 DEF Machine
  <2>3. Shown(jit, v, r) /\ r \in Reg
    BY <1>1, <2>1
  <2>4. Value(jit, r) = v
    BY <1>1, <2>2, <2>3, FoundValue
  <2>5. QED
    BY <2>1, <2>4
<1>3. QED
  BY <1>1, <1>2 DEF Agree, Aside

\* What is clean is as in memory.
LEMMA CleanOn ==
    ASSUME On(jit, {}, ref, {R0})
    PROVE  Clean
<1>1. Good(jit, {}) /\ Image(jit) /\ \A r \in Reg \ {R0} : Shown(jit, ref.gpr[r], r)
  BY DEF On, Follows
<1>2. Consistent(jit.map, jit.const)
  BY <1>1 DEF Good
<1>3. ASSUME NEW r \in Reg \ {R0}, NEW k, k = Where(jit, r), k # None, ~jit.map[k].dirty
      PROVE  jit.host[k] = Low(jit.gpr[r]) /\ (jit.map[k].hi # k => jit.host[jit.map[k].hi] = High(jit.gpr[r]))
  <2>1. k \in Host /\ jit.map[k].mips = r
    BY <1>2, <1>3, WhereIs
  <2>2. PICK v : v = ref.gpr[r]
    OBVIOUS
  <2>3. Shown(jit, v, r)
    BY <1>1, <2>2
  <2>4. jit.host[k] = Low(v) /\ (jit.map[k].hi # k => jit.host[jit.map[k].hi] = High(v)) /\ v = jit.gpr[r]
    BY <1>3, <2>1, <2>3 DEF Shown
  <2>5. QED
    BY <2>4
<1>4. \A r \in Reg : jit.flushed[r] => IsWord(jit.gpr[r])
  BY <1>1 DEF Image
<1>5. QED
  BY <1>3, <1>4 DEF Clean, ImageAgrees

\* Whatever the instructions, the operands and the initial registers, where the
\* recompiler is not known to part from the interpreter a compiled block computes
\* what the interpreter computes: registers, floating-point registers and control
\* words, stores and the way it is left, delay slots included (dynaCPU.c,
\* dynaCOP1.c and dynaBranch.h against R4300i.c).
THEOREM BlocksAgree == Spec => [](Excused => Agree)
<1>1. Simulates => (Excused => Agree)
  BY AgreesOn DEF Simulates
<1>2. QED
  BY <1>1, SimulatesAlways, PTL

\* A clean host register holds what is in memory, and a register last written back
\* as 32-bit holds a sign-extended word there (regcache.c), as long as the block
\* keeps to the interpreter.
THEOREM CleanIsInMemory == Spec => [](Excused => Clean)
<1>1. Simulates => (Excused => Clean)
  BY CleanOn DEF Simulates
<1>2. QED
  BY <1>1, SimulatesAlways, PTL
===============================================================================
