--------------------------- MODULE DynaValuesProofs --------------------------
(***************************************************************************)
(* The integer handlers, for every set of registers and width of a word: a *)
(* handler gives its destination what the interpreter computes, or does    *)
(* what the interpreter's function does.                                   *)
(***************************************************************************)
EXTENDS DynaProofs

-------------------------------------------------------------------------------
(* Sums of words                                                             *)

\* A number cut to a word, or to a double word.
LEMMA Cut ==
    /\ \A num \in Int : WordOf(num) \in Word /\ DoubleOf(num) \in Double
    /\ \A w \in Word : WordOf(w) = w
    /\ \A d \in Double : DoubleOf(d) = d /\ WordOf(d) = Low(d)
    /\ \A num \in Word \cup Double : num \in Int /\ num >= 0
<1>1. 2 ^ W \in Nat \ {0} /\ 2 ^ (2 * W) \in Nat \ {0}
  BY Widths
<1>2. \A num \in Int : WordOf(num) \in Word /\ DoubleOf(num) \in Double
  <2> SUFFICES ASSUME NEW num \in Int PROVE WordOf(num) \in Word /\ DoubleOf(num) \in Double
    OBVIOUS
  <2>1. num % 2 ^ W \in 0 .. 2 ^ W - 1
    BY <1>1, Division
  <2>2. num % 2 ^ (2 * W) \in 0 .. 2 ^ (2 * W) - 1
    BY <1>1, Division
  <2>3. QED
    BY <2>1, <2>2 DEF WordOf, DoubleOf, Word, Double
<1>3. \A w \in Word : WordOf(w) = w
  <2> SUFFICES ASSUME NEW w \in Word PROVE WordOf(w) = w
    OBVIOUS
  <2>1. w \in 0 .. 2 ^ W - 1 /\ w \in Int /\ w = 0 * 2 ^ W + w
    BY <1>1 DEF Word
  <2>2. w % 2 ^ W = w
    BY <1>1, <2>1, Quotient
  <2>3. QED
    BY <2>2 DEF WordOf
<1>4. \A d \in Double : DoubleOf(d) = d
  <2> SUFFICES ASSUME NEW d \in Double PROVE DoubleOf(d) = d
    OBVIOUS
  <2>1. d \in 0 .. 2 ^ (2 * W) - 1 /\ d \in Int /\ d = 0 * 2 ^ (2 * W) + d
    BY <1>1 DEF Double
  <2>2. d % 2 ^ (2 * W) = d
    BY <1>1, <2>1, Quotient
  <2>3. QED
    BY <2>2 DEF DoubleOf
<1>5. \A num \in Word \cup Double : num \in Int /\ num >= 0
  BY <1>1 DEF Word, Double
<1>6. QED
  BY <1>2, <1>3, <1>4, <1>5 DEF WordOf, Low

\* Two numbers are the same word when a number of words lies between them.
Alike(a, b) == \E q \in Int : a = b + q * 2 ^ W

\* Numbers alike modulo 2^W give the same word.
LEMMA AlikeWords ==
    ASSUME NEW a \in Int, NEW b \in Int
    PROVE  /\ Alike(a, b) => WordOf(a) = WordOf(b)
           /\ Alike(WordOf(a), a)
<1>1. 2 ^ W \in Nat \ {0}
  BY Widths
<1>2. ASSUME Alike(a, b) PROVE WordOf(a) = WordOf(b)
  <2>1. PICK q \in Int : a = b + q * 2 ^ W
    BY <1>2 DEF Alike
  <2>2. a % 2 ^ W = b % 2 ^ W
    BY <1>1, <2>1, Congruent
  <2>3. QED
    BY <2>2 DEF WordOf
<1>3. Alike(WordOf(a), a)
  <2>1. a % 2 ^ W \in 0 .. 2 ^ W - 1 /\ a \div 2 ^ W \in Int /\ a = 2 ^ W * (a \div 2 ^ W) + (a % 2 ^ W)
    BY <1>1, Division
  <2>2. PICK q \in Int, m \in Int, c \in Nat : q = a \div 2 ^ W /\ m = a % 2 ^ W /\ c = 2 ^ W
    BY <1>1, <2>1
  <2>3. a = c * q + m
    BY <2>1, <2>2
  <2>4. m = a + (-q) * c
    BY <2>2, <2>3
  <2>5. -q \in Int
    BY <2>2
  <2>6. QED
    BY <2>2, <2>4, <2>5 DEF Alike, WordOf
<1>4. QED
  BY <1>2, <1>3

\* Sums, differences and negations of such numbers are alike.
LEMMA AlikeSums ==
    ASSUME NEW a \in Int, NEW b \in Int, NEW c \in Int, NEW d \in Int, Alike(a, b), Alike(c, d)
    PROVE  Alike(a + c, b + d) /\ Alike(a - c, b - d) /\ Alike(-c, -d)
<1>1. PICK x \in Nat : x = 2 ^ W
  BY Widths
<1>2. PICK q \in Int : a = b + q * x
  BY <1>1 DEF Alike
<1>3. PICK p \in Int : c = d + p * x
  BY <1>1 DEF Alike
<1>4. a + c = (b + d) + (q + p) * x /\ q + p \in Int
  <2>1. (q + p) * x = q * x + p * x
    OBVIOUS
  <2>2. PICK u \in Int, v \in Int : u = q * x /\ v = p * x
    OBVIOUS
  <2>3. a = b + u /\ c = d + v /\ (q + p) * x = u + v
    BY <1>2, <1>3, <2>1, <2>2
  <2>4. a + c = (b + d) + (u + v) /\ q + p \in Int
    BY <2>3
  <2>5. QED
    BY <2>3, <2>4
<1>5. a - c = (b - d) + (q - p) * x /\ q - p \in Int
  BY <1>2, <1>3
<1>6. -c = -d + (-p) * x /\ -p \in Int
  BY <1>3
<1>7. QED
  BY <1>1, <1>4, <1>5, <1>6 DEF Alike

\* A number is alike itself.
LEMMA AlikeSelf == \A a \in Int : Alike(a, a)
<1> SUFFICES ASSUME NEW a \in Int PROVE Alike(a, a)
  OBVIOUS
<1>1. a = a + 0 * 2 ^ W
  BY Widths
<1>2. QED
  BY <1>1 DEF Alike

\* The sums of words, in whatever order they are cut.
LEMMA WordSums ==
    ASSUME NEW a \in Int, NEW b \in Int
    PROVE  /\ WordOf(WordOf(a) + b) = WordOf(a + b) /\ WordOf(a + WordOf(b)) = WordOf(a + b)
           /\ WordOf(WordOf(a) - b) = WordOf(a - b) /\ WordOf(a - WordOf(b)) = WordOf(a - b)
           /\ WordOf(-WordOf(a)) = WordOf(-a)
<1>1. WordOf(a) \in Int /\ WordOf(b) \in Int
  <2>1. WordOf(a) \in Word /\ WordOf(b) \in Word
    BY Cut
  <2>2. QED
    BY <2>1, Cut
<1>2. Alike(WordOf(a), a) /\ Alike(WordOf(b), b) /\ Alike(a, a) /\ Alike(b, b)
  BY AlikeWords, AlikeSelf
<1>3. /\ Alike(WordOf(a) + b, a + b) /\ Alike(WordOf(a) - b, a - b)
  BY <1>1, <1>2, AlikeSums
<1>4. Alike(a + WordOf(b), a + b) /\ Alike(a - WordOf(b), a - b)
  BY <1>1, <1>2, AlikeSums
<1>5. Alike(-WordOf(a), -a)
  BY <1>1, <1>2, AlikeSums
<1>6. WordOf(a) + b \in Int /\ a + b \in Int /\ a + WordOf(b) \in Int /\ WordOf(a) - b \in Int /\ a - b \in Int
      /\ a - WordOf(b) \in Int /\ -WordOf(a) \in Int /\ -a \in Int
  BY <1>1
<1>7. QED
  BY <1>3, <1>4, <1>5, <1>6, AlikeWords

-------------------------------------------------------------------------------
(* Signed words                                                              *)

\* The same, for the provers: division of num by b gives q and leaves r.
Divides(k, q, b, r) == k = q * b + r

\* It is the quotient, and the rest is the rest.
LEMMA QuotientIs ==
    ASSUME NEW q \in Int, NEW b \in Nat \ {0}, NEW r \in 0 .. b - 1, NEW k \in Int, Divides(k, q, b, r)
    PROVE  k % b = r /\ k \div b = q
BY Quotient DEF Divides

\* Numbers that differ by a multiple of b leave the same rest.
LEMMA SameRest ==
    ASSUME NEW k \in Int, NEW d \in Int, NEW q \in Int, NEW b \in Nat \ {0}, Divides(k, q, b, d)
    PROVE  k % b = d % b
<1>1. k = d + q * b
  BY DEF Divides
<1>2. QED
  BY <1>1, Congruent

\* The low word of a number cut to a double word.
LEMMA LowCut == \A num \in Int : Low(DoubleOf(num)) = WordOf(num)
<1> SUFFICES ASSUME NEW num \in Int PROVE Low(DoubleOf(num)) = WordOf(num)
  OBVIOUS
<1>1. PICK y \in Nat \ {0}, z \in Nat \ {0} : y = 2 ^ W /\ z = 2 ^ (2 * W) /\ z = y * y
  BY Widths
<1>2. num % z \in 0 .. z - 1 /\ num \div z \in Int /\ num = z * (num \div z) + (num % z)
  BY Division
<1>3. PICK d \in Int, q \in Int : d = num % z /\ q = num \div z
  BY <1>2
<1>4. num = z * q + d
  BY <1>2, <1>3
<1>5. z * q = (y * q) * y
  BY <1>1
<1>6. PICK k \in Int : k = y * q
  OBVIOUS
<1>7. Divides(num, k, y, d)
  BY <1>4, <1>5, <1>6 DEF Divides
<1>8. num % y = d % y
  BY <1>7, SameRest
<1>9. QED
  BY <1>1, <1>3, <1>8 DEF Low, DoubleOf, WordOf

\* The signed quantities of a word.
Small(num) == num \in Int /\ -(2 ^ (W - 1)) <= num /\ num < 2 ^ (W - 1)

\* A number between -2^(W-1) and 2^(W-1) survives as a word and as a double.
LEMMA SmallWords ==
    ASSUME NEW num, Small(num)
    PROVE  /\ WordOf(num) = IF num < 0 THEN num + 2 ^ W ELSE num
           /\ WordOf(num) \in Word /\ (Negative(WordOf(num)) <=> num < 0) /\ Signed(WordOf(num)) = num
           /\ DoubleOf(num) = Sext(WordOf(num)) /\ Sext(WordOf(num)) = IF num < 0 THEN num + 2 ^ (2 * W) ELSE num
<1>1. PICK x \in Nat \ {0}, y \in Nat \ {0}, z \in Nat \ {0} :
        x = 2 ^ (W - 1) /\ y = 2 ^ W /\ z = 2 ^ (2 * W) /\ z = y * y /\ y = 2 * x
  BY Widths
<1>2. num \in Int /\ -x <= num /\ num < x
  BY <1>1 DEF Small
<1>3. PICK w \in 0 .. y - 1 : w = IF num < 0 THEN num + y ELSE num
  BY <1>1, <1>2
<1>4. w = WordOf(num)
  <2>1. PICK q \in Int : q = IF num < 0 THEN -1 ELSE 0
    OBVIOUS
  <2>2. Divides(num, q, y, w)
    BY <1>2, <1>3, <2>1 DEF Divides
  <2>4. num % y = w
    BY <1>1, <1>2, <1>3, <2>1, <2>2, QuotientIs
  <2>5. QED
    BY <1>1, <2>4 DEF WordOf
<1>5. Negative(w) <=> num < 0
  BY <1>1, <1>2, <1>3 DEF Negative
<1>6. Signed(w) = num
  BY <1>1, <1>2, <1>3, <1>5 DEF Signed
<1>7. y <= z
  BY <1>1
<1>8. Sext(w) = IF num < 0 THEN num + z ELSE num
  <2>1. CASE num < 0
    <3>1. Sext(w) = (y - 1) * y + w
      BY <1>1, <1>5, <2>1 DEF Sext, SignOf, Pair, Ones
    <3>2. (y - 1) * y = z - y
      BY <1>1
    <3>3. PICK v \in Int : v = (y - 1) * y
      BY <1>1
    <3>4. Sext(w) = v + (num + y) /\ v = z - y
      BY <1>3, <2>1, <3>1, <3>2, <3>3
    <3>5. QED
      BY <1>1, <1>2, <2>1, <3>4
  <2>2. CASE ~(num < 0)
    <3>1. Sext(w) = 0 * y + w
      BY <1>1, <1>5, <2>2 DEF Sext, SignOf, Pair
    <3>2. QED
      BY <1>3, <2>2, <3>1
  <2>3. QED
    BY <2>1, <2>2
<1>9. DoubleOf(num) = IF num < 0 THEN num + z ELSE num
  <2>1. PICK d \in 0 .. z - 1 : d = IF num < 0 THEN num + z ELSE num
    BY <1>1, <1>2, <1>7
  <2>2. PICK q \in Int : q = IF num < 0 THEN -1 ELSE 0
    OBVIOUS
  <2>3. Divides(num, q, z, d)
    BY <1>2, <2>1, <2>2 DEF Divides
  <2>4. num % z = d
    BY <1>1, <1>2, <2>1, <2>2, <2>3, QuotientIs
  <2>5. QED
    BY <1>1, <2>1, <2>4 DEF DoubleOf
<1>10. QED
  BY <1>1, <1>3, <1>4, <1>5, <1>6, <1>8, <1>9 DEF Word

\* And the signed value of a word is such a number.
LEMMA SignedWords ==
    ASSUME NEW w \in Word
    PROVE  /\ Signed(w) \in Int /\ Small(Signed(w)) /\ WordOf(Signed(w)) = w /\ DoubleOf(Signed(w)) = Sext(w)
           /\ Signed(w) < 0 <=> Negative(w)
<1>1. PICK x \in Nat \ {0}, y \in Nat \ {0} : x = 2 ^ (W - 1) /\ y = 2 ^ W /\ y = 2 * x
  BY Widths
<1>2. w \in 0 .. y - 1
  BY <1>1 DEF Word
<1>3. Signed(w) = IF w >= x THEN w - y ELSE w
  BY <1>1 DEF Signed, Negative
<1>4. Small(Signed(w))
  BY <1>1, <1>2, <1>3 DEF Small
<1>5. Signed(w) < 0 <=> w >= x
  BY <1>1, <1>2, <1>3
<1>6. WordOf(Signed(w)) = w
  <2>1. WordOf(Signed(w)) = IF Signed(w) < 0 THEN Signed(w) + y ELSE Signed(w)
    BY <1>1, <1>4, SmallWords
  <2>2. QED
    BY <1>2, <1>3, <1>5, <2>1
<1>7. DoubleOf(Signed(w)) = Sext(w)
  BY <1>4, <1>6, SmallWords
<1>8. QED
  BY <1>1, <1>4, <1>5, <1>6, <1>7 DEF Small, Negative

\* The sign of a sign-extended word is the word's.
LEMMA SignedSext ==
    ASSUME NEW w \in Word
    PROVE  SignedD(Sext(w)) = Signed(w)
<1>1. PICK x \in Nat \ {0}, y \in Nat \ {0}, z \in Nat \ {0} :
        x = 2 ^ (W - 1) /\ y = 2 ^ W /\ z = 2 ^ (2 * W) /\ z = y * y /\ y = 2 * x /\ 2 ^ (2 * W - 1) = y * x
  BY Widths
<1>2. PICK m \in Int : m = Signed(w)
  BY SignedWords
<1>3. Small(m) /\ WordOf(m) = w
  BY <1>2, SignedWords
<1>4. Sext(w) = IF m < 0 THEN m + z ELSE m
  BY <1>1, <1>3, SmallWords
<1>5. -x <= m /\ m < x
  BY <1>1, <1>3 DEF Small
<1>6. PICK v \in Nat : v = y * x
  BY <1>1
<1>7. z = 2 * v /\ x <= v
  BY <1>1, <1>6
<1>8. SignedD(Sext(w)) = IF Sext(w) >= v THEN Sext(w) - z ELSE Sext(w)
  BY <1>1, <1>6 DEF SignedD, NegativeD
<1>9. QED
  BY <1>2, <1>4, <1>5, <1>7, <1>8

\* The immediate of an instruction.
LEMMA Immediates ==
    ASSUME NEW i, i.imm \in 0 .. 2 ^ Half - 1
    PROVE  /\ ImmS(i) \in Int /\ Small(ImmS(i)) /\ ImmWord(i) \in Word /\ ImmDouble(i) = Sext(ImmWord(i))
           /\ Signed(ImmWord(i)) = ImmS(i)
           /\ i.imm \in Word /\ i.imm * 2 ^ Half \in Word
<1>1. PICK h \in Nat \ {0}, g \in Nat \ {0}, x \in Nat \ {0}, y \in Nat \ {0} :
        /\ h = 2 ^ Half /\ g = 2 ^ (Half - 1) /\ x = 2 ^ (W - 1) /\ y = 2 ^ W
        /\ h = 2 * g /\ y = h * h /\ x = h * g /\ y = 2 * x
  BY Widths
<1>2. i.imm \in 0 .. h - 1 /\ i.imm \in Int
  BY <1>1
<1>3. g <= x
  BY <1>1
<1>4. ImmS(i) = IF i.imm >= g THEN i.imm - h ELSE i.imm
  BY <1>1 DEF ImmS
<1>5. Small(ImmS(i))
  BY <1>1, <1>2, <1>3, <1>4 DEF Small
<1>6. i.imm \in Word
  BY <1>1, <1>2, <1>3 DEF Word
<1>7. i.imm * h <= (h - 1) * h /\ i.imm * h \in Nat
  BY <1>1, <1>2
<1>8. i.imm * 2 ^ Half \in Word
  <2>1. (h - 1) * h = y - h
    BY <1>1
  <2>2. QED
    BY <1>1, <1>7, <2>1 DEF Word
<1>9. QED
  BY <1>5, <1>6, <1>8, SmallWords DEF Small, ImmWord, ImmDouble

-------------------------------------------------------------------------------
(* The bits of a number                                                      *)

\* The digits of a number above a power of two,
LEMMA HighDigits ==
    ASSUME NEW j \in Nat, NEW i \in Nat, i + j <= 2 * W, NEW d \in 0 .. 2 ^ j - 1, NEW e \in Nat
    PROVE  (e * 2 ^ j + d) \div 2 ^ (i + j) = e \div 2 ^ i
<1>1. 2 ^ j \in Nat \ {0} /\ 2 ^ i \in Nat \ {0} /\ 2 ^ (i + j) = 2 ^ i * 2 ^ j
  <2>1. j \in 0 .. 2 * W /\ i \in 0 .. 2 * W
    BY PowerPositive
  <2>2. QED
    BY <2>1, PowerPositive, PowerSum
<1>2. PICK x \in Nat \ {0}, y \in Nat \ {0} : x = 2 ^ j /\ y = 2 ^ i
  BY <1>1
<1>3. e % y \in 0 .. y - 1 /\ e \div y \in Int /\ e = y * (e \div y) + (e % y)
  BY Division
<1>4. PICK r \in 0 .. y - 1, q \in Int : r = e % y /\ q = e \div y
  BY <1>3
<1>5. e = y * q + r
  BY <1>3, <1>4
<1>6. PICK u \in Int, z \in Nat \ {0} : u = r * x + d /\ z = y * x
  BY <1>2
<1>7. u \in 0 .. z - 1
  <2>1. r * x <= (y - 1) * x /\ r * x >= 0
    OBVIOUS
  <2>2. (y - 1) * x = z - x
    BY <1>6
  <2>3. QED
    BY <1>2, <1>6, <2>1, <2>2
<1>8. e * x + d = q * z + u
  <2>1. e * x = (y * q) * x + r * x
    BY <1>5
  <2>2. (y * q) * x = q * z
    BY <1>6
  <2>3. QED
    BY <1>6, <2>1, <2>2
<1>9. Divides(e * x + d, q, z, u) /\ e * x + d \in Int
  BY <1>8, <1>2 DEF Divides
<1>10. (e * x + d) \div z = q
  BY <1>7, <1>9, QuotientIs
<1>11. QED
  BY <1>1, <1>2, <1>4, <1>6, <1>10

\* and those below.
LEMMA LowDigits ==
    ASSUME NEW j \in Nat, j <= 2 * W, NEW k \in 0 .. j - 1, NEW d \in 0 .. 2 ^ j - 1, NEW e \in Nat
    PROVE  ((e * 2 ^ j + d) \div 2 ^ k) % 2 = (d \div 2 ^ k) % 2
<1>1. PICK i \in Nat : i = j - 1 - k
  OBVIOUS
<1>2. W \in Nat \ {0} /\ k \in Nat /\ k + 1 \in Nat /\ i + (k + 1) = j /\ i + (k + 1) <= 2 * W
      /\ k \in 0 .. 2 * W /\ i \in 0 .. 2 * W
  BY <1>1, PowerPositive
<1>3. 2 ^ j = 2 ^ i * 2 ^ (k + 1)
  <2>1. 2 ^ (i + (k + 1)) = 2 ^ i * 2 ^ (k + 1)
    BY <1>2, PowerSum
  <2>2. QED
    BY <1>2, <2>1
<1>4. 2 ^ (k + 1) = 2 * 2 ^ k
  BY <1>2, WidthAssumption
<1>5. PICK x \in Nat \ {0}, y \in Nat \ {0} : x = 2 ^ k /\ y = 2 ^ i
  BY <1>2, PowerPositive
<1>6. 2 ^ j = y * (2 * x)
  BY <1>3, <1>4, <1>5
<1>7. d \in Int /\ d % x \in 0 .. x - 1 /\ d \div x \in Int /\ d = x * (d \div x) + (d % x)
  BY Division
<1>8. PICK r \in 0 .. x - 1, q \in Int : r = d % x /\ q = d \div x
  BY <1>7
<1>9. PICK c \in Int : c = e * y
  BY <1>5
<1>10. PICK v \in Int : v = c * 2 + q
  BY <1>9
<1>11. e * 2 ^ j + d = v * x + r
  <2>1. e * 2 ^ j = (c * 2) * x
    BY <1>6, <1>9
  <2>2. v * x = (c * 2) * x + q * x
    BY <1>10
  <2>3. d = q * x + r
    BY <1>7, <1>8
  <2>4. PICK s \in Int, t \in Int : s = (c * 2) * x /\ t = q * x
    OBVIOUS
  <2>5. QED
    BY <2>1, <2>2, <2>3, <2>4
<1>12. PICK b \in Int : b = e * 2 ^ j + d
  BY <1>11
<1>13. Divides(b, v, x, r)
  BY <1>11, <1>12 DEF Divides
<1>14. b \div x = v
  BY <1>13, QuotientIs
<1>15. Divides(v, c, 2, q)
  BY <1>10 DEF Divides
<1>16. v % 2 = q % 2
  BY <1>15, SameRest
<1>17. QED
  BY <1>5, <1>8, <1>12, <1>14, <1>16

\* The bits of a number put together from two.
LEMMA BitsOf ==
    ASSUME NEW j \in Nat, j <= 2 * W, NEW d \in 0 .. 2 ^ j - 1, NEW e \in Nat
    PROVE  /\ \A k \in 0 .. 2 * W - 1 : k < j => (k \in Bits(e * 2 ^ j + d) <=> k \in Bits(d))
           /\ \A k \in 0 .. 2 * W - 1 : k >= j => (k \in Bits(e * 2 ^ j + d) <=> (k - j) \in Bits(e))
<1>1. ASSUME NEW k \in 0 .. 2 * W - 1, k < j PROVE k \in Bits(e * 2 ^ j + d) <=> k \in Bits(d)
  <2>1. k \in 0 .. j - 1
    BY <1>1
  <2>2. ((e * 2 ^ j + d) \div 2 ^ k) % 2 = (d \div 2 ^ k) % 2
    BY <2>1, LowDigits
  <2>3. QED
    BY <2>2 DEF Bits
<1>2. ASSUME NEW k \in 0 .. 2 * W - 1, k >= j PROVE k \in Bits(e * 2 ^ j + d) <=> (k - j) \in Bits(e)
  <2>1. PICK i \in Nat : i = k - j
    BY <1>2
  <2>2. i + j = k /\ i + j <= 2 * W /\ i \in 0 .. 2 * W - 1
    BY <1>2, <2>1, PowerPositive
  <2>3. (e * 2 ^ j + d) \div 2 ^ (i + j) = e \div 2 ^ i
    BY <2>2, HighDigits
  <2>4. (e * 2 ^ j + d) \div 2 ^ k = e \div 2 ^ i
    BY <2>2, <2>3
  <2>5. QED
    BY <2>1, <2>2, <2>4 DEF Bits
<1>3. QED
  BY <1>1, <1>2

\* Nothing is in 0, and a number of j bits has no other.
LEMMA BitsBelow ==
    /\ Bits(0) = {} /\ 0 \in Bits(1) /\ \A k \in Bits(1) : k = 0
    /\ \A j \in 0 .. 2 * W : \A d \in 0 .. 2 ^ j - 1 : Bits(d) \subseteq 0 .. j - 1
<1>1. W \in Nat \ {0} /\ 2 ^ 0 = 1 /\ \A k \in 0 .. 2 * W : 2 ^ k \in Nat \ {0}
  BY PowerPositive, WidthAssumption
<1>2. \A b \in Nat \ {0} : 0 \div b = 0 /\ 0 % b = 0
  <2> SUFFICES ASSUME NEW b \in Nat \ {0} PROVE 0 \div b = 0 /\ 0 % b = 0
    OBVIOUS
  <2>1. Divides(0, 0, b, 0) /\ 0 \in 0 .. b - 1
    BY DEF Divides
  <2>2. QED
    BY <2>1, QuotientIs
<1>3. Bits(0) = {}
  <2> SUFFICES ASSUME NEW k \in Bits(0) PROVE FALSE
    OBVIOUS
  <2>1. k \in 0 .. 2 * W - 1 /\ (0 \div 2 ^ k) % 2 = 1
    BY DEF Bits
  <2>2. 2 ^ k \in Nat \ {0}
    BY <1>1, <2>1
  <2>3. 0 \div 2 ^ k = 0
    BY <1>2, <2>2
  <2>4. 0 % 2 = 0
    BY <1>2
  <2>5. (0 \div 2 ^ k) % 2 = 0
    BY <2>3, <2>4
  <2>6. QED
    BY <2>1, <2>5
<1>4. \A j \in 0 .. 2 * W : \A d \in 0 .. 2 ^ j - 1 : Bits(d) \subseteq 0 .. j - 1
  <2> SUFFICES ASSUME NEW j \in 0 .. 2 * W, NEW d \in 0 .. 2 ^ j - 1, NEW k \in Bits(d) PROVE k \in 0 .. j - 1
    OBVIOUS
  <2>1. k \in 0 .. 2 * W - 1
    BY DEF Bits
  <2>2. j \in Nat /\ j <= 2 * W /\ 2 ^ j \in Nat \ {0} /\ d \in Nat
    BY <1>1
  <2>3. CASE k >= j
    <3>1. k \in Bits(0 * 2 ^ j + d) <=> (k - j) \in Bits(0)
      BY <2>1, <2>2, <2>3, BitsOf
    <3>2. 0 * 2 ^ j + d = d
      BY <2>2
    <3>3. QED
      BY <1>3, <3>1, <3>2
  <2>4. CASE k < j
    BY <2>1, <2>2, <2>4
  <2>5. QED
    BY <2>1, <2>2, <2>3, <2>4
<1>5. 0 \in Bits(1)
  <2>1. Divides(1, 1, 1, 0) /\ 0 \in 0 .. 1 - 1
    BY DEF Divides
  <2>2. 1 \div 1 = 1
    BY <2>1, QuotientIs
  <2>3. Divides(1, 0, 2, 1) /\ 1 \in 0 .. 2 - 1
    BY DEF Divides
  <2>4. 1 % 2 = 1
    BY <2>3, QuotientIs
  <2>5. 0 \in 0 .. 2 * W - 1
    BY <1>1
  <2>6. QED
    BY <1>1, <2>2, <2>4, <2>5 DEF Bits
<1>6. \A k \in Bits(1) : k = 0
  <2>1. 1 \in 0 .. 2 * W
    BY <1>1
  <2>2. 2 ^ (0 + 1) = 2 * 2 ^ 0
    BY <1>1, WidthAssumption
  <2>3. 2 ^ 1 = 2
    BY <1>1, <2>2
  <2>4. 1 \in 0 .. 2 ^ 1 - 1
    BY <2>3
  <2>5. Bits(1) \subseteq 0 .. 1 - 1
    BY <1>4, <2>1, <2>4
  <2>6. QED
    BY <2>5
<1>7. QED
  BY <1>3, <1>4, <1>5, <1>6

\* Every set of bits is a number's.
Numbered(j) == \A ks \in SUBSET (0 .. j - 1) : \E d \in 0 .. 2 ^ j - 1 : Bits(d) = ks

\* One more bit,
LEMMA BitsNext ==
    ASSUME NEW j \in Nat, j < 2 * W, Numbered(j)
    PROVE  Numbered(j + 1)
<1> SUFFICES ASSUME NEW ks \in SUBSET (0 .. (j + 1) - 1)
             PROVE  \E d \in 0 .. 2 ^ (j + 1) - 1 : Bits(d) = ks
  BY DEF Numbered
<1>1. W \in Nat \ {0} /\ j \in 0 .. 2 * W
  BY PowerPositive
<1>2. PICK x \in Nat \ {0} : x = 2 ^ j /\ 2 ^ (j + 1) = 2 * x
  BY <1>1, PowerPositive, WidthAssumption
<1>3. ks \ {j} \in SUBSET (0 .. j - 1)
  OBVIOUS
<1>4. PICK d \in 0 .. 2 ^ j - 1 : Bits(d) = ks \ {j}
  BY <1>3 DEF Numbered
<1>5. CASE j \notin ks
  <2>1. Bits(d) = ks /\ d \in 0 .. 2 ^ (j + 1) - 1
    BY <1>2, <1>4, <1>5
  <2>2. QED
    BY <2>1
<1>6. CASE j \in ks
  <2>1. PICK b \in 0 .. 2 ^ (j + 1) - 1 : b = 1 * 2 ^ j + d
    BY <1>2
  <2>2. /\ \A k \in 0 .. 2 * W - 1 : k < j => (k \in Bits(b) <=> k \in Bits(d))
        /\ \A k \in 0 .. 2 * W - 1 : k >= j => (k \in Bits(b) <=> (k - j) \in Bits(1))
    <3>1. 1 \in Nat /\ j <= 2 * W
      BY <1>1
    <3>2. QED
      BY <2>1, <3>1, BitsOf
  <2>3. Bits(b) \subseteq 0 .. 2 * W - 1 /\ ks \subseteq 0 .. 2 * W - 1
    BY <1>1 DEF Bits
  <2>4. \A k \in 0 .. 2 * W - 1 : k \in Bits(b) <=> k \in ks
    <3> SUFFICES ASSUME NEW k \in 0 .. 2 * W - 1 PROVE k \in Bits(b) <=> k \in ks
      OBVIOUS
    <3>1. CASE k < j
      BY <1>4, <2>2, <3>1
    <3>2. CASE k = j
      BY <1>6, <2>2, <3>2, BitsBelow
    <3>3. CASE k > j
      <4>1. k - j # 0 /\ k \notin ks
        BY <3>3
      <4>2. QED
        BY <2>2, <3>3, <4>1, BitsBelow
    <3>4. QED
      BY <3>1, <3>2, <3>3
  <2>5. Bits(b) = ks
    BY <2>3, <2>4
  <2>6. QED
    BY <2>5
<1>7. QED
  BY <1>5, <1>6

\* and so any number of them: each set of bits is a number's.
LEMMA BitsExist == \A j \in 0 .. 2 * W : Numbered(j)
<1> DEFINE S == {k \in 0 .. 2 * W : ~Numbered(k)}
<1>1. W \in Nat \ {0} /\ 2 ^ 0 = 1
  BY PowerPositive, WidthAssumption
<1>2. SUFFICES ASSUME S # {} PROVE FALSE
  OBVIOUS
<1>3. PICK k \in S : \A j \in S : k <= j
  <2>1. S \subseteq Nat
    OBVIOUS
  <2> HIDE DEF S
  <2>2. QED
    BY <1>2, <2>1, LeastOf
<1>4. k # 0
  <2>1. Numbered(0)
    <3> SUFFICES ASSUME NEW ks \in SUBSET (0 .. 0 - 1) PROVE \E d \in 0 .. 2 ^ 0 - 1 : Bits(d) = ks
      BY DEF Numbered
    <3>1. ks = {} /\ 0 \in 0 .. 2 ^ 0 - 1
      BY <1>1
    <3>2. QED
      BY <3>1, BitsBelow
  <2>2. QED
    BY <2>1
<1>5. PICK j \in Nat : k = j + 1 /\ j < 2 * W
  <2>1. k - 1 \in Nat /\ k = (k - 1) + 1 /\ k - 1 < 2 * W
    BY <1>1, <1>4
  <2>2. QED
    BY <2>1
<1>6. Numbered(j)
  <2>1. j \in 0 .. 2 * W /\ ~(k <= j)
    BY <1>1, <1>5
  <2>2. QED
    BY <1>3, <2>1
<1>7. Numbered(k)
  BY <1>5, <1>6, BitsNext
<1>8. QED
  BY <1>7

\* Two numbers with the same bits are equal.
LEMMA BitsOnly ==
    ASSUME NEW d \in Double, NEW e \in Double, Bits(d) = Bits(e)
    PROVE  d = e
<1> DEFINE S == {k \in 0 .. 2 * W : d \div 2 ^ k = e \div 2 ^ k}
<1>1. W \in Nat \ {0} /\ 2 ^ 0 = 1 /\ 2 ^ (2 * W) \in Nat \ {0}
  BY Widths, PowerPositive, WidthAssumption
<1>2. \A c \in Double : c \div 2 ^ (2 * W) = 0 /\ c \div 1 = c
  <2> SUFFICES ASSUME NEW c \in Double PROVE c \div 2 ^ (2 * W) = 0 /\ c \div 1 = c
    OBVIOUS
  <2>1. PICK z \in Nat \ {0} : z = 2 ^ (2 * W)
    BY <1>1
  <2>2. c \in 0 .. z - 1
    BY <2>1 DEF Double
  <2>3. Divides(c, 0, z, c) /\ Divides(c, c, 1, 0) /\ 0 \in 0 .. 1 - 1 /\ c \in Int
    BY <2>2 DEF Divides
  <2>4. c \div z = 0
    BY <2>2, <2>3, QuotientIs
  <2>5. c \div 1 = c
    BY <2>3, QuotientIs
  <2>6. QED
    BY <2>1, <2>4, <2>5
<1>3. 2 * W \in S
  <2>1. d \div 2 ^ (2 * W) = e \div 2 ^ (2 * W)
    BY <1>2
  <2>2. 2 * W \in 0 .. 2 * W
    BY <1>1
  <2>3. QED
    BY <2>1, <2>2
<1>4. PICK k \in S : \A j \in S : k <= j
  <2>1. S \subseteq Nat /\ S # {}
    BY <1>3
  <2> HIDE DEF S
  <2>2. QED
    BY <2>1, LeastOf
<1>5. CASE k = 0
  <2>1. d \div 1 = e \div 1
    BY <1>1, <1>5
  <2>2. QED
    BY <1>2, <2>1
<1>6. CASE k # 0
  <2>1. PICK j \in 0 .. 2 * W - 1 : k = j + 1
    <3>1. k - 1 \in 0 .. 2 * W - 1 /\ k = (k - 1) + 1
      BY <1>1, <1>6
    <3>2. QED
      BY <3>1
  <2>2. \A c \in Double : c \div 2 ^ j = 2 * (c \div 2 ^ k) + ((c \div 2 ^ j) % 2)
    <3> SUFFICES ASSUME NEW c \in Double PROVE c \div 2 ^ j = 2 * (c \div 2 ^ k) + ((c \div 2 ^ j) % 2)
      OBVIOUS
    <3>1. PICK x \in Nat \ {0} : x = 2 ^ j /\ 2 ^ k = 2 * x
      BY <2>1, PowerPositive, WidthAssumption
    <3>2. c \in Int
      BY Cut
    <3>3. c % x \in 0 .. x - 1 /\ c \div x \in Int /\ c = x * (c \div x) + (c % x)
      BY <3>2, Division
    <3>4. PICK r \in 0 .. x - 1, q \in Int : r = c % x /\ q = c \div x
      BY <3>3
    <3>5. q % 2 \in 0 .. 2 - 1 /\ q \div 2 \in Int /\ q = 2 * (q \div 2) + (q % 2)
      BY Division
    <3>6. PICK b \in 0 .. 1, p \in Int : b = q % 2 /\ p = q \div 2
      BY <3>5
    <3>7. q = 2 * p + b /\ c = x * q + r
      BY <3>3, <3>4, <3>5, <3>6
    <3>8. PICK y \in Nat \ {0}, u \in Nat : y = 2 * x /\ u = b * x + r
      OBVIOUS
    <3>9. u \in 0 .. y - 1
      <4>1. b = 0 \/ b = 1
        OBVIOUS
      <4>2. QED
        BY <3>8, <4>1
    <3>10. c = p * y + u
      <4>1. x * q = p * (2 * x) + b * x
        BY <3>7
      <4>2. QED
        BY <3>7, <3>8, <4>1
    <3>11. Divides(c, p, y, u)
      BY <3>10 DEF Divides
    <3>12. c \div y = p
      BY <3>2, <3>9, <3>11, QuotientIs
    <3>13. QED
      BY <3>1, <3>4, <3>6, <3>7, <3>8, <3>12
  <2>3. (d \div 2 ^ j) % 2 = (e \div 2 ^ j) % 2
    <3>1. \A c \in Double : (c \div 2 ^ j) % 2 \in {0, 1}
      <4> SUFFICES ASSUME NEW c \in Double PROVE (c \div 2 ^ j) % 2 \in {0, 1}
        OBVIOUS
      <4>1. c \in Int /\ 2 ^ j \in Nat \ {0}
        BY Cut, PowerPositive
      <4>2. c \div 2 ^ j \in Int
        BY <4>1, Division
      <4>3. PICK q \in Int : q = c \div 2 ^ j
        BY <4>2
      <4>4. q % 2 \in 0 .. 2 - 1
        BY Division
      <4>5. \A b \in 0 .. 2 - 1 : b \in {0, 1}
        OBVIOUS
      <4>6. q % 2 \in {0, 1}
        BY <4>4, <4>5
      <4>7. QED
        BY <4>3, <4>6
    <3>2. j \in Bits(d) <=> j \in Bits(e)
      OBVIOUS
    <3>3. (d \div 2 ^ j) % 2 = 1 <=> (e \div 2 ^ j) % 2 = 1
      BY <3>2 DEF Bits
    <3>4. QED
      BY <3>1, <3>3
  <2>4. d \div 2 ^ k = e \div 2 ^ k
    OBVIOUS
  <2>5. d \div 2 ^ j = e \div 2 ^ j
    <3>1. d \div 2 ^ j = 2 * (d \div 2 ^ k) + ((d \div 2 ^ j) % 2)
      BY <2>2
    <3>2. e \div 2 ^ j = 2 * (e \div 2 ^ k) + ((e \div 2 ^ j) % 2)
      BY <2>2
    <3>3. 2 * (e \div 2 ^ k) + ((e \div 2 ^ j) % 2) = 2 * (d \div 2 ^ k) + ((d \div 2 ^ j) % 2)
      BY <2>3, <2>4, Zenon
    <3>4. QED
      BY <3>1, <3>2, <3>3, Zenon
  <2>6. j \in 0 .. 2 * W /\ ~(k <= j)
    BY <1>1, <2>1
  <2>7. j \in S
    BY <2>5, <2>6
  <2>8. QED
    BY <1>4, <2>6, <2>7
<1>7. QED
  BY <1>5, <1>6

\* The number with given bits.
LEMMA OfBitsIs ==
    /\ \A ks \in SUBSET (0 .. 2 * W - 1) : OfBits(ks) \in Double /\ Bits(OfBits(ks)) = ks
    /\ \A ks \in SUBSET (0 .. W - 1) : OfBits(ks) \in Word
    /\ \A d \in Double : OfBits(Bits(d)) = d /\ Bits(d) \in SUBSET (0 .. 2 * W - 1)
    /\ \A w \in Word : Bits(w) \in SUBSET (0 .. W - 1)
<1>1. W \in Nat \ {0} /\ W \in 0 .. 2 * W /\ 2 * W \in 0 .. 2 * W
  BY PowerPositive
<1>2. \A ks \in SUBSET (0 .. 2 * W - 1) : OfBits(ks) \in Double /\ Bits(OfBits(ks)) = ks
  <2> SUFFICES ASSUME NEW ks \in SUBSET (0 .. 2 * W - 1) PROVE OfBits(ks) \in Double /\ Bits(OfBits(ks)) = ks
    OBVIOUS
  <2>1. \E d \in Double : Bits(d) = ks
    BY <1>1, BitsExist DEF Numbered, Double
  <2>2. QED
    BY <2>1 DEF OfBits
<1>3. \A d \in Double : OfBits(Bits(d)) = d /\ Bits(d) \in SUBSET (0 .. 2 * W - 1)
  <2> SUFFICES ASSUME NEW d \in Double PROVE OfBits(Bits(d)) = d /\ Bits(d) \in SUBSET (0 .. 2 * W - 1)
    OBVIOUS
  <2>1. Bits(d) \in SUBSET (0 .. 2 * W - 1)
    BY DEF Bits
  <2>2. OfBits(Bits(d)) \in Double /\ Bits(OfBits(Bits(d))) = Bits(d)
    BY <1>2, <2>1
  <2>3. QED
    BY <2>1, <2>2, BitsOnly
<1>4. \A ks \in SUBSET (0 .. W - 1) : OfBits(ks) \in Word
  <2> SUFFICES ASSUME NEW ks \in SUBSET (0 .. W - 1) PROVE OfBits(ks) \in Word
    OBVIOUS
  <2>1. PICK w \in Word : Bits(w) = ks
    BY <1>1, BitsExist DEF Numbered, Word
  <2>2. w \in Double
    BY Signs
  <2>3. OfBits(Bits(w)) = w
    BY <1>3, <2>2
  <2>4. QED
    BY <2>1, <2>3
<1>5. \A w \in Word : Bits(w) \in SUBSET (0 .. W - 1)
  BY <1>1, BitsBelow DEF Word
<1>6. QED
  BY <1>2, <1>3, <1>4, <1>5

-------------------------------------------------------------------------------
(* Gates                                                                     *)

\* The bits of a pair are those of its words.
LEMMA PairBits ==
    ASSUME NEW l \in Word, NEW h \in Word
    PROVE  \A k \in 0 .. 2 * W - 1 : k \in Bits(Pair(l, h)) <=> IF k < W THEN k \in Bits(l) ELSE (k - W) \in Bits(h)
<1>1. W \in Nat /\ W <= 2 * W /\ l \in 0 .. 2 ^ W - 1 /\ h \in Nat
  BY Widths DEF Word
<1>2. /\ \A k \in 0 .. 2 * W - 1 : k < W => (k \in Bits(h * 2 ^ W + l) <=> k \in Bits(l))
      /\ \A k \in 0 .. 2 * W - 1 : k >= W => (k \in Bits(h * 2 ^ W + l) <=> (k - W) \in Bits(h))
  BY <1>1, BitsOf
<1>3. PICK b : b = h * 2 ^ W + l
  OBVIOUS
<1>4. Pair(l, h) = b
  BY <1>3 DEF Pair
<1>5. ASSUME NEW k \in 0 .. 2 * W - 1
      PROVE  k \in Bits(b) <=> IF k < W THEN k \in Bits(l) ELSE (k - W) \in Bits(h)
  BY <1>1, <1>2, <1>3
<1>6. QED
  BY <1>4, <1>5

\* The top bit of a word is its sign.
LEMMA SignBit ==
    ASSUME NEW w \in Word
    PROVE  Negative(w) <=> W - 1 \in Bits(w)
<1>1. W - 1 \in Nat /\ W - 1 \in 0 .. 2 * W - 1 /\ W - 1 \in 0 .. 2 * W
  BY Widths
<1>2. PICK x \in Nat \ {0} : x = 2 ^ (W - 1) /\ 2 ^ W = 2 * x
  BY Widths
<1>3. w \in 0 .. 2 * x - 1
  BY <1>2 DEF Word
<1>4. CASE w >= x
  <2>1. PICK r \in 0 .. x - 1 : r = w - x
    BY <1>3, <1>4
  <2>2. Divides(w, 1, x, r) /\ w \in Int
    BY <1>3, <2>1 DEF Divides
  <2>3. w \div x = 1
    BY <2>1, <2>2, QuotientIs
  <2>4. Divides(1, 0, 2, 1) /\ 1 \in 0 .. 2 - 1
    BY DEF Divides
  <2>5. 1 % 2 = 1
    BY <2>4, QuotientIs
  <2>6. QED
    BY <1>1, <1>2, <1>4, <2>3, <2>5 DEF Bits, Negative
<1>5. CASE w < x
  <2>1. w \in 0 .. 2 ^ (W - 1) - 1
    BY <1>2, <1>3, <1>5
  <2>2. Bits(w) \subseteq 0 .. (W - 1) - 1
    BY <1>1, <2>1, BitsBelow
  <2>3. ~Negative(w)
    BY <1>2, <1>3, <1>5 DEF Negative
  <2>4. QED
    BY <1>1, <2>2, <2>3
<1>6. QED
  BY <1>2, <1>3, <1>4, <1>5

\* Every bit of Ones is set.
LEMMA OnesBits == Bits(Ones) = 0 .. W - 1
<1>1. Ones \in Word
  BY Signs
<1>2. Bits(Ones) \subseteq 0 .. W - 1
  BY <1>1, OfBitsIs
<1>3. ASSUME NEW k \in 0 .. W - 1 PROVE k \in Bits(Ones)
  <2>1. PICK i \in Nat : i = W - 1 - k
    BY Widths
  <2>2. W \in Nat \ {0} /\ k + 1 \in Nat /\ i + (k + 1) = W /\ i + (k + 1) <= 2 * W
        /\ k \in 0 .. 2 * W /\ i \in 0 .. 2 * W /\ k \in 0 .. 2 * W - 1
    BY <2>1, PowerPositive
  <2>3. PICK x \in Nat \ {0}, y \in Nat \ {0} : x = 2 ^ k /\ y = 2 ^ i
    BY <2>2, PowerPositive
  <2>4. 2 ^ W = y * (2 * x)
    <3>1. 2 ^ (i + (k + 1)) = 2 ^ i * 2 ^ (k + 1)
      BY <2>2, PowerSum
    <3>2. 2 ^ (k + 1) = 2 * 2 ^ k
      BY <2>2, WidthAssumption
    <3>3. QED
      BY <2>2, <2>3, <3>1, <3>2
  <2>5. PICK q \in Int, c \in Int, r \in 0 .. x - 1, m \in Int :
          q = 2 * y - 1 /\ c = y - 1 /\ r = x - 1 /\ m = y * (2 * x) - 1
    OBVIOUS
  <2>6. m = q * x + r
    <3>1. y * (2 * x) = (2 * y) * x
      OBVIOUS
    <3>2. PICK u \in Int : u = (2 * y) * x
      OBVIOUS
    <3>3. (2 * y - 1) * x = u - x
      BY <3>2
    <3>4. QED
      BY <2>5, <3>1, <3>2, <3>3
  <2>7. Divides(m, q, x, r) /\ Divides(q, c, 2, 1) /\ 1 \in 0 .. 2 - 1
    BY <2>5, <2>6 DEF Divides
  <2>8. m \div x = q
    BY <2>7, QuotientIs
  <2>9. q % 2 = 1
    BY <2>7, QuotientIs
  <2>10. Ones = m
    BY <2>4, <2>5 DEF Ones
  <2>11. QED
    BY <2>2, <2>3, <2>8, <2>9, <2>10 DEF Bits
<1>4. QED
  BY <1>2, <1>3

\* And every bit of a sign.
LEMMA SignBits ==
    ASSUME NEW w \in Word
    PROVE  Bits(SignOf(w)) = IF W - 1 \in Bits(w) THEN 0 .. W - 1 ELSE {}
<1>1. Bits(0) = {}
  BY BitsBelow
<1>2. QED
  BY <1>1, SignBit, OnesBits DEF SignOf

\* What a gate does with the bits, and with numbers.
Gate(o, A, B) == IF o = "and" THEN A \cap B ELSE IF o = "or" THEN A \cup B ELSE (A \cup B) \ (A \cap B)
Gated(o, a, b) == OfBits(Gate(o, Bits(a), Bits(b)))

\* The three gates, by name.
LEMMA GatesAre ==
    \A a, b : (a & b) = Gated("and", a, b) /\ (a | b) = Gated("or", a, b) /\ (a ^^ b) = Gated("xor", a, b)
BY DEF Gated, Gate, &, |, ^^

\* A bit of the result comes from the same bit of the operands.
LEMMA GatedBits ==
    ASSUME NEW o, NEW a \in Double, NEW b \in Double
    PROVE  /\ Gated(o, a, b) \in Double /\ Bits(Gated(o, a, b)) = Gate(o, Bits(a), Bits(b))
           /\ Gated(o, a, b) = Gated(o, b, a)
           /\ a \in Word /\ b \in Word => Gated(o, a, b) \in Word
<1>1. Gate(o, Bits(a), Bits(b)) \in SUBSET (0 .. 2 * W - 1)
  BY OfBitsIs DEF Gate
<1>2. a \in Word /\ b \in Word => Gate(o, Bits(a), Bits(b)) \in SUBSET (0 .. W - 1)
  BY OfBitsIs DEF Gate
<1>3. Gate(o, Bits(a), Bits(b)) = Gate(o, Bits(b), Bits(a))
  BY DEF Gate
<1>4. QED
  BY <1>1, <1>2, <1>3, OfBitsIs DEF Gated

\* The gates work on the words of a pair
LEMMA GatedPairs ==
    ASSUME NEW o, NEW a \in Word, NEW b \in Word, NEW c \in Word, NEW d \in Word
    PROVE  Gated(o, Pair(a, b), Pair(c, d)) = Pair(Gated(o, a, c), Gated(o, b, d))
<1>1. a \in Double /\ b \in Double /\ c \in Double /\ d \in Double
  BY Signs
<1>2. PICK x \in Double, y \in Double : x = Pair(a, b) /\ y = Pair(c, d)
  BY Pairs
<1>3. PICK e \in Word, f \in Word : e = Gated(o, a, c) /\ f = Gated(o, b, d)
  BY <1>1, GatedBits
<1>4. PICK u \in Double, v \in Double : u = Gated(o, x, y) /\ v = Pair(e, f)
  BY <1>1, GatedBits, Pairs
<1>5. Bits(u) = Gate(o, Bits(x), Bits(y)) /\ Bits(e) = Gate(o, Bits(a), Bits(c)) /\ Bits(f) = Gate(o, Bits(b), Bits(d))
  BY <1>1, <1>3, <1>4, GatedBits
<1>6. ASSUME NEW k \in 0 .. 2 * W - 1 PROVE k \in Bits(u) <=> k \in Bits(v)
  <2>1. k \in Bits(x) <=> IF k < W THEN k \in Bits(a) ELSE (k - W) \in Bits(b)
    BY <1>2, PairBits
  <2>2. k \in Bits(y) <=> IF k < W THEN k \in Bits(c) ELSE (k - W) \in Bits(d)
    BY <1>2, PairBits
  <2>3. k \in Bits(v) <=> IF k < W THEN k \in Bits(e) ELSE (k - W) \in Bits(f)
    BY <1>4, PairBits
  <2>4. QED
    BY <1>5, <2>1, <2>2, <2>3 DEF Gate
<1>7. Bits(u) \subseteq 0 .. 2 * W - 1 /\ Bits(v) \subseteq 0 .. 2 * W - 1
  BY DEF Bits
<1>8. Bits(u) = Bits(v)
  BY <1>6, <1>7
<1>9. u = v
  BY <1>8, BitsOnly
<1>10. QED
  BY <1>2, <1>3, <1>4, <1>9

\* and on signs.
LEMMA GatedSigns ==
    ASSUME NEW o, NEW a \in Word, NEW b \in Word
    PROVE  Gated(o, SignOf(a), SignOf(b)) = SignOf(Gated(o, a, b))
<1>1. a \in Double /\ b \in Double /\ SignOf(a) \in Word /\ SignOf(b) \in Word
  BY Signs
<1>2. PICK e \in Word, x \in Word, y \in Word : e = Gated(o, a, b) /\ x = SignOf(a) /\ y = SignOf(b)
  BY <1>1, GatedBits
<1>3. x \in Double /\ y \in Double /\ SignOf(e) \in Double
  BY Signs
<1>4. PICK u \in Double, v \in Double : u = Gated(o, x, y) /\ v = SignOf(e)
  BY <1>3, GatedBits
<1>5. Bits(u) = Gate(o, Bits(x), Bits(y)) /\ Bits(e) = Gate(o, Bits(a), Bits(b))
  BY <1>1, <1>2, <1>3, <1>4, GatedBits
<1>6. /\ Bits(x) = IF W - 1 \in Bits(a) THEN 0 .. W - 1 ELSE {}
      /\ Bits(y) = IF W - 1 \in Bits(b) THEN 0 .. W - 1 ELSE {}
      /\ Bits(v) = IF W - 1 \in Bits(e) THEN 0 .. W - 1 ELSE {}
  BY <1>2, <1>4, SignBits
<1>7. Bits(u) = Bits(v)
  BY <1>5, <1>6 DEF Gate
<1>8. u = v
  BY <1>7, BitsOnly
<1>9. QED
  BY <1>2, <1>4, <1>8

\* So they keep what is a word,
LEMMA GatedSext ==
    ASSUME NEW o, NEW a \in Word, NEW b \in Word
    PROVE  Gated(o, a, b) \in Word /\ Gated(o, Sext(a), Sext(b)) = Sext(Gated(o, a, b))
<1>1. a \in Double /\ b \in Double /\ SignOf(a) \in Word /\ SignOf(b) \in Word
  BY Signs
<1>2. Gated(o, a, b) \in Word
  BY <1>1, GatedBits
<1>3. Gated(o, Pair(a, SignOf(a)), Pair(b, SignOf(b))) = Pair(Gated(o, a, b), Gated(o, SignOf(a), SignOf(b)))
  BY <1>1, GatedPairs
<1>4. QED
  BY <1>2, <1>3, GatedSigns DEF Sext

\* and the rest follows the bits.
LEMMA GatedSame ==
    ASSUME NEW a \in Double
    PROVE  /\ Gated("and", a, a) = a /\ Gated("or", a, a) = a /\ Gated("xor", a, a) = 0
           /\ Gated("and", a, 0) = 0 /\ Gated("or", a, 0) = a /\ Gated("xor", a, 0) = a
<1>1. 0 \in Double /\ Bits(0) = {}
  BY Signs, BitsBelow
<1>2. OfBits({}) = 0 /\ OfBits(Bits(a)) = a
  BY <1>1, OfBitsIs
<1>3. QED
  BY <1>1, <1>2 DEF Gated, Gate

\* The complement of a pair, and of a sign.
LEMMA Complements ==
    /\ \A a, b \in Word : NotD(Pair(a, b)) = Pair(Ones - a, Ones - b)
    /\ \A a \in Word : Ones - a \in Word /\ SignOf(Ones - a) = Ones - SignOf(a) /\ NotD(Sext(a)) = Sext(Ones - a)
<1>1. PICK x \in Nat \ {0}, y \in Nat \ {0}, z \in Nat \ {0} :
        x = 2 ^ (W - 1) /\ y = 2 ^ W /\ z = 2 ^ (2 * W) /\ z = y * y /\ y = 2 * x
  BY Widths
<1>2. \A a, b \in Word : NotD(Pair(a, b)) = Pair(Ones - a, Ones - b)
  <2> SUFFICES ASSUME NEW a \in Word, NEW b \in Word PROVE NotD(Pair(a, b)) = Pair(Ones - a, Ones - b)
    OBVIOUS
  <2>1. a \in 0 .. y - 1 /\ b \in 0 .. y - 1
    BY <1>1 DEF Word
  <2>2. PICK u \in Int : u = b * y
    BY <2>1
  <2>3. ((y - 1) - b) * y = (z - y) - u
    BY <1>1, <2>1, <2>2
  <2>4. NotD(Pair(a, b)) = (z - 1) - (u + a)
    BY <1>1, <2>2 DEF NotD, Pair
  <2>5. Pair(Ones - a, Ones - b) = ((z - y) - u) + ((y - 1) - a)
    BY <1>1, <2>3 DEF Pair, Ones
  <2>6. QED
    BY <1>1, <2>1, <2>2, <2>4, <2>5
<1>3. ASSUME NEW a \in Word PROVE Ones - a \in Word /\ SignOf(Ones - a) = Ones - SignOf(a)
  <2>1. a \in 0 .. y - 1
    BY <1>1 DEF Word
  <2>2. Ones = y - 1
    BY <1>1 DEF Ones
  <2>3. Negative(Ones - a) <=> ~Negative(a)
    BY <1>1, <2>1, <2>2 DEF Negative
  <2>4. Ones - a \in Word
    BY Signs
  <2>5. Ones - Ones = 0 /\ Ones - 0 = Ones
    BY <1>1, <2>2
  <2>6. QED
    BY <2>3, <2>4, <2>5 DEF SignOf
<1>4. ASSUME NEW a \in Word PROVE NotD(Sext(a)) = Sext(Ones - a)
  <2>1. SignOf(a) \in Word
    BY Signs
  <2>2. NotD(Pair(a, SignOf(a))) = Pair(Ones - a, Ones - SignOf(a))
    BY <1>2, <2>1
  <2>3. QED
    BY <1>3, <2>2 DEF Sext
<1>5. QED
  BY <1>2, <1>3, <1>4

-------------------------------------------------------------------------------
(* Shifts                                                                    *)

\* A number that is not negative and small is its own word and double word.
LEMMA Plainly ==
    ASSUME NEW k \in Nat, k < 2 ^ (W - 1)
    PROVE  k \in Word /\ k \in Double /\ Sext(k) = k /\ ~Negative(k)
<1>1. Small(k) /\ k >= 0
  <2>1. 2 ^ (W - 1) \in Nat \ {0}
    BY Widths
  <2>2. QED
    BY <2>1 DEF Small
<1>2. WordOf(k) = k /\ WordOf(k) \in Word /\ (Negative(WordOf(k)) <=> k < 0) /\ Sext(WordOf(k)) = k
  BY <1>1, SmallWords
<1>3. QED
  BY <1>1, <1>2, Signs

\* A shift to the right,
LEMMA Rights ==
    ASSUME NEW k \in 0 .. W - 1
    PROVE  /\ \A w \in Word : w \div 2 ^ k \in Word /\ WordOf(w * 2 ^ k) \in Word
           /\ \A x : Small(x) => /\ Small(Sar(x, k)) /\ WordOf(Sar(x, k)) \in Word
                                 /\ DoubleOf(Sar(x, k)) = Sext(WordOf(Sar(x, k)))
<1>1. PICK x \in Nat \ {0}, y \in Nat \ {0}, p \in Nat \ {0} : x = 2 ^ (W - 1) /\ y = 2 ^ W /\ p = 2 ^ k /\ y = 2 * x
  <2>1. k \in 0 .. 2 * W
    BY Widths
  <2>2. QED
    BY <2>1, Widths, PowerPositive
<1>2. ASSUME NEW w \in Word PROVE w \div 2 ^ k \in Word /\ WordOf(w * 2 ^ k) \in Word
  <2>1. w \in 0 .. y - 1
    BY <1>1 DEF Word
  <2>2. w % p \in 0 .. p - 1 /\ w \div p \in Int /\ w = p * (w \div p) + (w % p)
    BY <2>1, Division
  <2>3. PICK r \in 0 .. p - 1, q \in Int : r = w % p /\ q = w \div p
    BY <2>2
  <2>4. w = p * q + r
    BY <2>2, <2>3
  <2>5. q >= 0
    <3>1. SUFFICES ASSUME q <= -1 PROVE FALSE
      BY <2>3
    <3>2. PICK j \in Nat : q = -1 - j
      <4>1. -1 - q \in Nat /\ q = -1 - (-1 - q)
        BY <3>1
      <4>2. QED
        BY <4>1
    <3>3. p * q = -p - p * j /\ p * j >= 0
      BY <3>2
    <3>4. QED
      BY <2>1, <2>4, <3>3
  <2>6. q <= p * q
    BY <2>5
  <2>7. q \in 0 .. y - 1
    BY <2>1, <2>4, <2>5, <2>6
  <2>8. w * p \in Int
    BY <2>1
  <2>9. QED
    BY <1>1, <2>3, <2>7, <2>8, Cut DEF Word
<1>3. ASSUME NEW c, Small(c) PROVE Small(Sar(c, k))
  <2>1. c \in Int /\ -x <= c /\ c < x
    BY <1>1, <1>3 DEF Small
  <2>2. c % p \in 0 .. p - 1 /\ c \div p \in Int /\ c = p * (c \div p) + (c % p)
    BY <2>1, Division
  <2>3. PICK r \in 0 .. p - 1, q \in Int : r = c % p /\ q = c \div p
    BY <2>2
  <2>4. c = p * q + r
    BY <2>2, <2>3
  <2>5. -x <= q
    <3>1. SUFFICES ASSUME q <= -x - 1 PROVE FALSE
      BY <2>3
    <3>2. PICK j \in Nat : q = -x - 1 - j
      <4>1. -x - 1 - q \in Nat /\ q = -x - 1 - (-x - 1 - q)
        BY <3>1
      <4>2. QED
        BY <4>1
    <3>3. p * q = -(p * x) - p - p * j /\ p * j >= 0
      BY <3>2
    <3>4. p * x >= x
      OBVIOUS
    <3>5. QED
      BY <2>1, <2>4, <3>3, <3>4
  <2>6. q < x
    <3>1. SUFFICES ASSUME q >= x PROVE FALSE
      BY <2>3
    <3>2. p * q >= q
      BY <3>1
    <3>3. QED
      BY <2>1, <2>4, <3>1, <3>2
  <2>7. QED
    BY <1>1, <2>3, <2>5, <2>6 DEF Small, Sar
<1>4. QED
  BY <1>2, <1>3, SmallWords

\* of a double word, by a word and more,
LEMMA RightsOfHigh ==
    ASSUME NEW k \in 0 .. W - 1, NEW l \in Word, NEW h \in Word
    PROVE  Sar(SignedD(Pair(l, h)), W + k) = Sar(Signed(h), k)
<1>1. PICK x \in Nat \ {0}, y \in Nat \ {0}, z \in Nat \ {0}, p \in Nat \ {0} :
        /\ x = 2 ^ (W - 1) /\ y = 2 ^ W /\ z = 2 ^ (2 * W) /\ p = 2 ^ k /\ z = y * y /\ y = 2 * x
        /\ 2 ^ (2 * W - 1) = y * x
  <2>1. k \in 0 .. 2 * W
    BY Widths
  <2>2. QED
    BY <2>1, Widths, PowerPositive
<1>2. l \in 0 .. y - 1 /\ h \in 0 .. y - 1
  BY <1>1 DEF Word
<1>3. 2 ^ (W + k) = y * p
  <2>1. W \in Nat /\ k \in Nat /\ W + k <= 2 * W
    BY Widths
  <2>2. QED
    BY <1>1, <2>1, PowerSum
<1>4. PICK s \in Int : s = Signed(h)
  BY SignedWords
<1>5. s = IF h >= x THEN h - y ELSE h
  BY <1>1, <1>4 DEF Signed, Negative
<1>6. SignedD(Pair(l, h)) = s * y + l
  <2>1. PICK d \in Int : d = h * y + l
    BY <1>2
  <2>2. Pair(l, h) = d
    BY <1>1, <2>1 DEF Pair
  <2>3. CASE h >= x
    <3>1. h * y >= x * y
      BY <1>2, <2>3
    <3>2. d >= y * x
      BY <1>2, <2>1, <3>1
    <3>3. SignedD(d) = d - z
      BY <1>1, <3>2 DEF SignedD, NegativeD
    <3>4. (h - y) * y = h * y - z
      BY <1>1, <1>2
    <3>5. QED
      BY <1>1, <1>2, <1>5, <2>1, <2>2, <2>3, <3>3, <3>4
  <2>4. CASE h < x
    <3>1. h * y <= (x - 1) * y
      BY <1>2, <2>4
    <3>2. (x - 1) * y = y * x - y
      OBVIOUS
    <3>3. d < y * x
      BY <1>2, <2>1, <3>1, <3>2
    <3>4. SignedD(d) = d
      BY <1>1, <3>3 DEF SignedD, NegativeD
    <3>5. QED
      BY <1>2, <1>5, <2>1, <2>2, <2>4, <3>4
  <2>5. QED
    BY <1>2, <2>3, <2>4
<1>7. s % p \in 0 .. p - 1 /\ s \div p \in Int /\ s = p * (s \div p) + (s % p)
  BY Division
<1>8. PICK r \in 0 .. p - 1, q \in Int : r = s % p /\ q = s \div p
  BY <1>7
<1>9. s = p * q + r
  BY <1>7, <1>8
<1>10. PICK u \in Int, v \in Nat \ {0}, c \in Int : u = r * y + l /\ v = y * p /\ c = s * y + l
  BY <1>2
<1>11. u \in 0 .. v - 1
  <2>1. r * y <= (p - 1) * y /\ r * y >= 0
    OBVIOUS
  <2>2. (p - 1) * y = v - y
    BY <1>10
  <2>3. QED
    BY <1>2, <1>10, <2>1, <2>2
<1>12. c = q * v + u
  <2>1. s * y = (p * q) * y + r * y
    BY <1>9
  <2>2. (p * q) * y = q * v
    BY <1>10
  <2>3. QED
    BY <1>2, <1>10, <2>1, <2>2
<1>13. Divides(c, q, v, u)
  BY <1>12 DEF Divides
<1>14. c \div v = q
  BY <1>11, <1>13, QuotientIs
<1>15. QED
  BY <1>1, <1>3, <1>4, <1>6, <1>8, <1>10, <1>14 DEF Sar

\* and to the left.
LEMMA Lefts ==
    ASSUME NEW k \in 0 .. W - 1, NEW d \in Double
    PROVE  DoubleOf(d * 2 ^ (W + k)) = Pair(0, WordOf(Low(d) * 2 ^ k)) /\ WordOf(Low(d) * 2 ^ k) \in Word
<1>1. PICK y \in Nat \ {0}, z \in Nat \ {0}, p \in Nat \ {0} :
        y = 2 ^ W /\ z = 2 ^ (2 * W) /\ p = 2 ^ k /\ z = y * y
  <2>1. k \in 0 .. 2 * W
    BY Widths
  <2>2. QED
    BY <2>1, Widths, PowerPositive
<1>2. 2 ^ (W + k) = y * p
  <2>1. W \in Nat /\ k \in Nat /\ W + k <= 2 * W
    BY Widths
  <2>2. QED
    BY <1>1, <2>1, PowerSum
<1>3. PICK l \in Word, h \in Word : l = Low(d) /\ h = High(d) /\ d = h * y + l
  BY <1>1, Pairs DEF Pair
<1>4. l \in Int /\ h \in Int
  BY Cut
<1>5. PICK a \in Int : a = l * p
  BY <1>4
<1>6. a % y \in 0 .. y - 1 /\ a \div y \in Int /\ a = y * (a \div y) + (a % y)
  BY Division
<1>7. PICK r \in 0 .. y - 1, q \in Int : r = a % y /\ q = a \div y
  BY <1>6
<1>8. a = y * q + r
  BY <1>6, <1>7
<1>9. PICK g \in Int, u \in Int, t \in Int, e \in Int : g = h * p + q /\ u = r * y /\ t = d * (y * p) /\ e = h * p
  BY <1>3, <1>4
<1>10. t = g * z + u
  <2>1. t = (h * y) * (y * p) + l * (y * p)
    BY <1>3, <1>4, <1>9
  <2>2. (h * y) * (y * p) = e * z
    BY <1>1, <1>4, <1>9
  <2>3. l * (y * p) = a * y
    <3>1. l * (y * p) = (l * p) * y
      BY <1>4
    <3>2. QED
      BY <1>5, <3>1
  <2>4. a * y = q * z + u
    <3>1. (y * q + r) * y = q * (y * y) + r * y
      OBVIOUS
    <3>2. QED
      BY <1>1, <1>8, <1>9, <3>1
  <2>5. g * z = e * z + q * z
    BY <1>9
  <2>6. PICK b \in Int, c \in Int, f \in Int, j \in Int, o \in Int, v \in Int :
          b = e * z /\ c = q * z /\ f = (h * y) * (y * p) /\ j = l * (y * p) /\ o = a * y /\ v = g * z
    BY <1>4
  <2>7. t = f + j /\ f = b /\ j = o /\ o = c + u /\ v = b + c
    BY <2>1, <2>2, <2>3, <2>4, <2>5, <2>6
  <2>8. t = v + u
    BY <2>7
  <2>9. QED
    BY <2>6, <2>8
<1>11. u \in 0 .. z - 1
  <2>1. r * y <= (y - 1) * y /\ r * y >= 0
    OBVIOUS
  <2>2. (y - 1) * y = z - y
    BY <1>1
  <2>3. QED
    BY <1>9, <2>1, <2>2
<1>12. Divides(t, g, z, u)
  BY <1>10 DEF Divides
<1>13. t % z = u
  BY <1>11, <1>12, QuotientIs
<1>14. WordOf(l * p) = r
  BY <1>1, <1>5, <1>7 DEF WordOf
<1>15. Pair(0, r) = u
  <2>1. Pair(0, r) = r * y + 0
    BY <1>1 DEF Pair
  <2>2. QED
    BY <1>9, <2>1
<1>16. WordOf(l * p) \in Word
  BY <1>5, Cut
<1>17. QED
  BY <1>1, <1>2, <1>3, <1>9, <1>13, <1>14, <1>15, <1>16 DEF DoubleOf

\* The amount of a shift is in the low word.
LEMMA Amounts ==
    ASSUME NEW d \in Double
    PROVE  d % W = Low(d) % W /\ Low(d) % W \in 0 .. W - 1
<1>1. W \in Nat \ {0} /\ 2 ^ W \in Nat \ {0} /\ 2 ^ W % W = 0
  BY PowerPositive, Widths, HalvesAssumption
<1>2. 2 ^ W = W * (2 ^ W \div W) + (2 ^ W % W) /\ 2 ^ W \div W \in Int
  BY <1>1, Division
<1>3. PICK c \in Int, y \in Nat \ {0}, v \in Nat \ {0} : c = 2 ^ W \div W /\ y = 2 ^ W /\ v = W
  BY <1>1, <1>2
<1>4. y = v * c
  BY <1>1, <1>2, <1>3
<1>5. PICK l \in Int, h \in Int : l = Low(d) /\ h = High(d) /\ d = h * y + l
  <2>1. Low(d) \in Word /\ High(d) \in Word /\ d = High(d) * 2 ^ W + Low(d)
    BY Pairs DEF Pair
  <2>2. Low(d) \in Int /\ High(d) \in Int
    BY <2>1, Cut
  <2>3. QED
    BY <1>3, <2>1, <2>2
<1>6. PICK q \in Int, e \in Int : q = h * c /\ e = d
  BY <1>5
<1>7. e = q * v + l
  <2>1. h * (v * c) = (h * c) * v
    OBVIOUS
  <2>2. e = h * (v * c) + l
    BY <1>4, <1>5, <1>6
  <2>3. QED
    BY <1>6, <2>1, <2>2
<1>8. Divides(e, q, v, l)
  BY <1>7 DEF Divides
<1>9. e % v = l % v
  BY <1>8, SameRest
<1>10. l % v \in 0 .. v - 1
  BY Division
<1>11. QED
  BY <1>3, <1>5, <1>6, <1>9, <1>10

\* Truth values and halves are words that are not negative.
LEMMA Halves ==
    /\ \A b : Bit(b) \in Word /\ Bit(b) \in Double /\ Sext(Bit(b)) = Bit(b) /\ Pair(Bit(b), 0) = Bit(b)
    /\ \A w \in Word : /\ LowHalf(w) \in Word /\ LowHalf(w) \in Double /\ Sext(LowHalf(w)) = LowHalf(w)
                       /\ SextHalf(LowHalf(w)) \in Word
<1>1. PICK h \in Nat \ {0}, g \in Nat \ {0}, x \in Nat \ {0}, y \in Nat \ {0} :
        /\ h = 2 ^ Half /\ g = 2 ^ (Half - 1) /\ x = 2 ^ (W - 1) /\ y = 2 ^ W
        /\ h = 2 * g /\ x = h * g
  BY Widths
<1>2. h >= 2 /\ x >= h
  <2>1. h * g >= h
    BY <1>1
  <2>2. QED
    BY <1>1, <2>1
<1>3. \A k \in 0 .. h - 1 : k \in Word /\ k \in Double /\ Sext(k) = k
  BY <1>1, <1>2, Plainly
<1>4. ASSUME NEW b PROVE Bit(b) \in Word /\ Bit(b) \in Double /\ Sext(Bit(b)) = Bit(b) /\ Pair(Bit(b), 0) = Bit(b)
  <2>1. Bit(b) \in 0 .. h - 1 /\ Bit(b) \in Int
    BY <1>2 DEF Bit
  <2>2. Pair(Bit(b), 0) = Bit(b)
    BY <1>1, <2>1 DEF Pair
  <2>3. QED
    BY <1>3, <2>1, <2>2
<1>5. ASSUME NEW w \in Word
      PROVE  /\ LowHalf(w) \in Word /\ LowHalf(w) \in Double /\ Sext(LowHalf(w)) = LowHalf(w)
             /\ SextHalf(LowHalf(w)) \in Word
  <2>1. w \in Int
    BY Cut
  <2>2. w % h \in 0 .. h - 1
    BY <1>1, <2>1, Division
  <2>3. PICK k \in 0 .. h - 1 : k = LowHalf(w)
    BY <1>1, <2>2 DEF LowHalf
  <2>4. k - h \in Int
    BY <1>1
  <2>5. WordOf(k - h) \in Word /\ k \in Word
    BY <1>3, <2>4, Cut
  <2>6. SextHalf(k) \in Word
    BY <1>1, <2>5 DEF SextHalf
  <2>7. QED
    BY <1>3, <2>3, <2>6
<1>6. QED
  BY <1>4, <1>5

\* Sign-extended words are in the order of the words.
LEMMA SextOrder ==
    ASSUME NEW a \in Word, NEW b \in Word
    PROVE  /\ Sext(a) < Sext(b) <=> a < b
           /\ SignedD(Sext(a)) < SignedD(Sext(b)) <=> Signed(a) < Signed(b)
           /\ Sext(a) = Sext(b) <=> a = b
<1>1. PICK x \in Nat \ {0}, y \in Nat \ {0}, z \in Nat \ {0} :
        x = 2 ^ (W - 1) /\ y = 2 ^ W /\ z = 2 ^ (2 * W) /\ y = 2 * x /\ z = y * y
  BY Widths
<1>2. \A w \in Word : w \in 0 .. y - 1 /\ Sext(w) = IF w >= x THEN (w - y) + z ELSE w
  <2> SUFFICES ASSUME NEW w \in Word PROVE w \in 0 .. y - 1 /\ Sext(w) = IF w >= x THEN (w - y) + z ELSE w
    OBVIOUS
  <2>1. w \in 0 .. y - 1
    BY <1>1 DEF Word
  <2>2. Small(Signed(w)) /\ WordOf(Signed(w)) = w
    BY SignedWords
  <2>3. Sext(w) = IF Signed(w) < 0 THEN Signed(w) + z ELSE Signed(w)
    BY <1>1, <2>2, SmallWords
  <2>4. Signed(w) = IF w >= x THEN w - y ELSE w
    BY <1>1 DEF Signed, Negative
  <2>5. QED
    BY <1>1, <2>1, <2>3, <2>4
<1>3. z >= 2 * y
  <2>1. y >= 2
    BY <1>1
  <2>2. y * y >= 2 * y
    BY <2>1
  <2>3. QED
    BY <1>1, <2>2
<1>4. Sext(a) < Sext(b) <=> a < b
  BY <1>1, <1>2, <1>3
<1>5. Sext(a) = Sext(b) <=> a = b
  BY Extended
<1>6. QED
  BY <1>4, <1>5, SignedSext

\* What andi leaves is not negative.
LEMMA AndLow ==
    ASSUME NEW d \in Double, NEW k \in 0 .. 2 ^ Half - 1
    PROVE  /\ k \in Word /\ Low(d) \in Word
           /\ (Low(d) & k) \in Word /\ (d & k) = (Low(d) & k) /\ Sext(Low(d) & k) = (Low(d) & k)
<1>1. W \in Nat /\ Half \in Nat /\ Half >= 1 /\ W = Half + Half /\ Half \in 0 .. 2 * W
  BY Widths
<1>2. k \in Word
  <2>1. PICK h \in Nat \ {0}, y \in Nat \ {0} : h = 2 ^ Half /\ y = 2 ^ W /\ y = h * h
    BY Widths
  <2>2. h * h >= h
    BY <2>1
  <2>3. QED
    BY <2>1, <2>2 DEF Word
<1>3. Bits(k) \subseteq 0 .. Half - 1
  BY <1>1, BitsBelow
<1>4. PICK l \in Word, h \in Word : l = Low(d) /\ h = High(d) /\ d = Pair(l, h)
  BY Pairs
<1>5. 0 \in Word /\ k = Pair(k, 0)
  <2>1. k \in Int
    BY <1>2, Cut
  <2>2. Pair(k, 0) = k
    BY <2>1, Widths DEF Pair
  <2>3. QED
    BY <2>2, Signs
<1>6. PICK e \in Word : e = Gated("and", l, k)
  BY <1>2, GatedSext
<1>7. Gated("and", d, k) = e
  <2>1. Gated("and", Pair(l, h), Pair(k, 0)) = Pair(Gated("and", l, k), Gated("and", h, 0))
    BY <1>2, <1>5, GatedPairs
  <2>2. Gated("and", h, 0) = 0
    BY Signs, GatedSame
  <2>3. Pair(e, 0) = e
    <3>1. e \in Int
      BY Cut
    <3>2. QED
      BY <3>1, Widths DEF Pair
  <2>4. QED
    BY <1>4, <1>5, <1>6, <2>1, <2>2, <2>3
<1>8. Sext(e) = e
  <2>1. l \in Double /\ k \in Double
    BY <1>2, Signs
  <2>2. Bits(e) = Bits(l) \cap Bits(k)
    BY <1>6, <2>1, GatedBits DEF Gate
  <2>3. W - 1 \notin Bits(e)
    BY <1>1, <1>3, <2>2
  <2>4. ~Negative(e)
    BY <2>3, SignBit
  <2>5. e \in Int
    BY Cut
  <2>6. QED
    BY <2>4, <2>5, Widths DEF Sext, SignOf, Pair
<1>9. QED
  BY <1>2, <1>4, <1>6, <1>7, <1>8, GatesAre

-------------------------------------------------------------------------------
(* Destinations                                                              *)

\* Two registers are at most two.
LEMMA TwoOf == \A a, b \in Reg : Two({a, b})
<1>1. QED
  BY DEF Two

\* A register whose value is being replaced may have any.
LEMMA OpenOn ==
    ASSUME NEW s, NEW p, NEW M, Machine(M), NEW Z, NEW r \in Reg, NEW u \in Double, r # R0,
           On(s, p, With(M, r, u), Z)
    PROVE  On(s, p, M, Z \cup {r})
<1>1. Aside(M, With(M, r, u)) /\ \A q \in Reg \ {r} : With(M, r, u).gpr[q] = M.gpr[q]
  BY WithMachine
<1>2. PICK N : N = With(M, r, u)
  OBVIOUS
<1>3. Follows(s, N, Z)
  BY <1>2 DEF On
<1>4. Aside(s, M)
  BY <1>1, <1>2, <1>3 DEF Follows, Aside
<1>5. \A q \in Reg \ (Z \cup {r}) : Shown(s, M.gpr[q], q)
  BY <1>1, <1>2, <1>3 DEF Follows
<1>6. QED
  BY <1>3, <1>4, <1>5 DEF On, Follows

\* Register 0 is cleared after an instruction: it was not written, or it is the
\* only one.
LEMMA ClearIs ==
    ASSUME NEW M, Machine(M), NEW r \in Reg, NEW v \in Double
    PROVE  ClearR0(With(M, r, v)) = (IF r = R0 THEN M ELSE With(M, r, v)) /\ ClearR0(M) = M
<1>1. R0 \in Reg /\ M.gpr[R0] = 0 /\ 0 \in Double
  BY MarkFacts, Signs DEF Machine
<1>2. ClearR0(M) = M
  <2>1. With(M, R0, M.gpr[R0]) = M
    BY <1>1, WithAgain
  <2>2. QED
    BY <1>1, <2>1 DEF ClearR0, With
<1>3. CASE r = R0
  <2>1. With(With(M, R0, v), R0, 0) = With(M, R0, 0)
    BY <1>1, WithAgain
  <2>2. QED
    BY <1>2, <1>3, <2>1 DEF ClearR0, With
<1>4. CASE r # R0
  <2>1. PICK N : N = With(M, r, v)
    OBVIOUS
  <2>2. Machine(N)
    BY <1>4, <2>1, WithMachine
  <2>3. With(N, R0, N.gpr[R0]) = N /\ N.gpr[R0] = 0
    BY <1>1, <2>2, WithAgain DEF Machine
  <2>4. QED
    BY <1>2, <1>4, <2>1, <2>3 DEF ClearR0, With
<1>5. QED
  BY <1>3, <1>4

\* What is put into a place leaves it the place.
LEMMA PutTakes ==
    ASSUME NEW s, NEW p, Good(s, p), NEW m, NEW r, NEW w, NEW h, NEW wide
    PROVE  /\ \A x : Takes(s, m, r, x) => Takes(PutLo(s, m, w), m, r, x) /\ Takes(Put(s, m, w, h, wide), m, r, x)
           /\ Has(s, m, r) => Has(PutLo(s, m, w), m, r)
<1>1. PutLo(s, m, w).map = s.map /\ Put(s, m, w, h, wide).map = s.map
  BY DEF Good, Typed, PutLo, Put, Mov
<1>2. QED
  BY <1>1 DEF Takes, Has

\* A register is forgotten.
LEMMA FreeMipsOn ==
    ASSUME NEW p, NEW s, NEW M, NEW Z, On(s, p, M, Z), NEW r \in Reg, r # R0
    PROVE  On(FreeMipsRegister(s, r), p, M, Z \cup {r})
<1>1. Good(FreeMipsRegister(s, r), p)
  BY FreeMipsGood DEF On
<1>2. s.gpr[r] \in Double /\ Follows(FreeMipsRegister(s, r), With(M, r, s.gpr[r]), Z \ {r})
  BY FreeMipsFollows DEF On
<1>3. PICK u \in Double : u = s.gpr[r]
  BY <1>2
<1>4. Follows(FreeMipsRegister(s, r), With(M, r, u), Z)
  BY <1>2, <1>3, FewerFollows
<1>5. On(FreeMipsRegister(s, r), p, With(M, r, u), Z) /\ Machine(M)
  BY <1>1, <1>4 DEF On, Follows
<1>6. QED
  BY <1>5, OpenOn

\* A request for a register that is mapped finds it where it is.
LEMMA MapAgain ==
    ASSUME NEW s, NEW p, Good(s, p), NEW c, NEW keep, c \in RequestType, c.mips # R0,
           NEW k \in Host, s.map[k].mips = c.mips,
           (c.is32 /\ (s.map[k].hi = k \/ ~c.dirty)) \/ (~c.is32 /\ s.map[k].hi # k)
    PROVE  LET m == MapRegister(s, c, keep)
           IN  /\ m.x = k /\ m.hi = s.map[k].hi
               /\ m.s.map[k].mips = c.mips /\ m.s.map[k].hi = s.map[k].hi
               /\ m.s.map[k].dirty = (s.map[k].dirty \/ c.dirty)
<1> DEFINE t == NextYear(s)
           u == [t EXCEPT !.const[c.mips] = IF c.mips = R0 THEN @ ELSE NoConst]
           is32 == c.is32 /\ (u.map[k].hi = k \/ c.dirty)
<1>1. c.mips \in Reg /\ Typed(s) /\ Consistent(s.map, s.const)
  BY RequestFacts DEF Good
<1>2. s.const[c.mips] = NoConst
  BY <1>1 DEF Consistent
<1>3. t.map = s.map /\ t.const = s.const /\ u.map = s.map
  BY <1>1 DEF NextYear, Typed
<1>4. ~Constant(s, c)
  BY <1>2 DEF Constant, IsConst
<1>5. MapRegister(s, c, keep) = MapPlainConst(u, c, keep)
  BY <1>4 DEF MapRegister, MapPlain
<1>6. Where(u, c.mips) = k
  <2>1. Where(s, c.mips) = k
    BY <1>1, WhereIs
  <2>2. QED
    BY <1>3, <2>1 DEF Where, Holding
<1>7. k # None
  BY HostFacts
<1>8. MapPlainConst(u, c, keep) = ConvertReg(u, k, c, keep)
  BY <1>6, <1>7 DEF MapPlainConst
<1> HIDE DEF u, t
<1>9. ConvertReg(u, k, c, keep) = Used(u, k, u.map[k].hi, c, is32)
  BY <1>3 DEF ConvertReg, ConvertRegTo64bit, Converted
<1> HIDE DEF is32
<1>10. PICK m : m = Used(u, k, u.map[k].hi, c, is32)
  OBVIOUS
<1>11. m.x = k /\ m.hi = s.map[k].hi
  BY <1>3, <1>10 DEF Used
<1>12. "map" \in DOMAIN u
  BY <1>1 DEF u, t, NextYear, Typed
<1>13. m.s.map[k] = Entry(s.map[k].mips, is32, s.map[k].dirty \/ c.dirty, s.map[k].hi, u.year)
  BY <1>3, <1>10, <1>12 DEF Used
<1>14. QED
  BY <1>5, <1>8, <1>9, <1>10, <1>11, <1>13 DEF Entry

\* A register that has been mapped to be written is read.
LEMMA WantAgainOn ==
    ASSUME NEW p, p \subseteq {ECX}, NEW s, NEW M, NEW Z, On(s, p, M, Z), NEW r \in Reg \ Z, r # R0,
           NEW wide \in BOOLEAN, NEW is32 \in BOOLEAN, wide => is32, is32 \/ p = {},
           NEW m, Takes(s, m, r, wide), NEW keep, Two(keep)
    PROVE  LET x == MapRegister(s, Want(r, is32), keep)
           IN  Reads(s, x, p, M, Z, r, is32, keep) /\ x.x = m.x /\ Takes(x.s, m, r, wide)
<1> DEFINE c == Want(r, is32)
<1>1. c \in RequestType /\ c.mips = r /\ c.is32 = is32 /\ ~c.dirty
  BY DEF Want, Conditions, RequestType
<1>2. m.x \in Host /\ s.map[m.x].mips = r /\ m.hi = s.map[m.x].hi /\ s.map[m.x].dirty /\ (wide <=> m.hi = m.x)
  BY DEF Takes, Has
<1>3. PICK x : x = MapRegister(s, c, keep)
  OBVIOUS
<1>4. Good(s, p)
  BY DEF On
<1> HIDE DEF c
<1>5. CASE is32 \/ ~wide
  <2>1. /\ x.x = m.x /\ x.s.map[m.x].mips = r /\ x.s.map[m.x].hi = m.hi
        /\ x.s.map[m.x].dirty = (s.map[m.x].dirty \/ c.dirty)
    BY <1>1, <1>2, <1>3, <1>4, <1>5, MapAgain
  <2>2. Reads(s, x, p, M, Z, r, is32, keep)
    BY <1>3, WantOn DEF c
  <2>3. QED
    BY <1>1, <1>2, <1>3, <2>1, <2>2 DEF c, Takes, Has
<1>6. QED
  BY <1>5

\* The requests of a handler for its operands
LEMMA WantsOn ==
    ASSUME NEW p, p \subseteq {ECX}, NEW s, NEW M, NEW Z, On(s, p, M, Z), NEW i, Fields(i),
           NEW is32 \in BOOLEAN, is32 \/ p = {}
    PROVE  /\ i.rs \notin Z => Reads(s, MapRS(s, i, Want(i.rs, is32)), p, M, Z, i.rs, is32, {i.rd, i.rt})
           /\ i.rt \notin Z => Reads(s, MapRT(s, i, Want(i.rt, is32)), p, M, Z, i.rt, is32, {i.rd, i.rs})
<1>1. Two({i.rd, i.rt}) /\ Two({i.rd, i.rs}) /\ i.rs \in Reg /\ i.rt \in Reg
  BY TwoOf DEF Fields
<1>2. QED
  BY <1>1, WantOn DEF MapRS, MapRT

\* and for its result.
LEMMA ResultsOn ==
    ASSUME NEW p, p \subseteq {ECX}, NEW s, NEW M, NEW Z, On(s, p, M, Z), NEW i, Fields(i),
           NEW is32 \in BOOLEAN, is32 \/ p = {}
    PROVE  /\ Writes(s, MapRD(s, i, Define(i.rd, is32)), p, M, Z \cup {i.rd}, i.rd, is32, {i.rs, i.rt})
           /\ Writes(s, MapRD(s, i, DefineBoth(i.rd, is32)), p, M, Z \cup {i.rd}, i.rd, is32, {i.rs, i.rt})
           /\ Writes(s, MapRT(s, i, Define(i.rt, is32)), p, M, Z \cup {i.rt}, i.rt, is32, {i.rd, i.rs})
           /\ Writes(s, MapRT(s, i, DefineBoth(i.rt, is32)), p, M, Z \cup {i.rt}, i.rt, is32, {i.rd, i.rs})
<1>1. Two({i.rs, i.rt}) /\ Two({i.rd, i.rs}) /\ i.rd \in Reg /\ i.rt \in Reg
  BY TwoOf DEF Fields
<1>2. /\ Writes(s, MapRD(s, i, Define(i.rd, is32)), p, M, Z \cup {i.rd}, i.rd, is32, {i.rs, i.rt})
      /\ Writes(s, MapRD(s, i, DefineBoth(i.rd, is32)), p, M, Z \cup {i.rd}, i.rd, is32, {i.rs, i.rt})
  BY <1>1, DefineOn DEF MapRD
<1>3. /\ Writes(s, MapRT(s, i, Define(i.rt, is32)), p, M, Z \cup {i.rt}, i.rt, is32, {i.rd, i.rs})
      /\ Writes(s, MapRT(s, i, DefineBoth(i.rt, is32)), p, M, Z \cup {i.rt}, i.rt, is32, {i.rd, i.rs})
  BY <1>1, DefineOn DEF MapRT
<1>4. QED
  BY <1>2, <1>3

\* One that is an operand too.
LEMMA ChangesOn ==
    ASSUME NEW p, p \subseteq {ECX}, NEW s, NEW M, NEW Z, On(s, p, M, Z), NEW i, Fields(i),
           NEW is32 \in BOOLEAN, is32 \/ p = {}
    PROVE  /\ i.rd \notin Z /\ i.rd # R0 =>
                Writes(s, MapRD(s, i, Change(i.rd, is32)), p,
                       With(M, i.rd, IF is32 THEN Sext(Low(M.gpr[i.rd])) ELSE M.gpr[i.rd]), Z, i.rd, is32, {i.rs, i.rt})
           /\ i.rt \notin Z /\ i.rt # R0 =>
                Writes(s, MapRT(s, i, Change(i.rt, is32)), p,
                       With(M, i.rt, IF is32 THEN Sext(Low(M.gpr[i.rt])) ELSE M.gpr[i.rt]), Z, i.rt, is32, {i.rd, i.rs})
<1>1. Two({i.rs, i.rt}) /\ Two({i.rd, i.rs}) /\ i.rd \in Reg /\ i.rt \in Reg
  BY TwoOf DEF Fields
<1>2. QED
  BY <1>1, ChangeOn DEF MapRD, MapRT

\* Map_RD_NE_RT moves rt's low word to rd.
LEMMA NERTOn ==
    ASSUME NEW p, p \subseteq {ECX}, NEW s, NEW M, NEW Z, NEW i, Fields(i), i.rd # R0, i.rd # i.rt,
           On(s, p, M, Z \cup {i.rd}), i.rt \notin Z, ~IsConst(s, i.rt),
           NEW a, a = Map_RD_NE_RT(s, i)
    PROVE  On(a.s, p, With(M, i.rd, Sext(Low(M.gpr[i.rt]))), Z) /\ Takes(a.s, a, i.rd, TRUE)
<1> DEFINE k == Where(s, i.rt)
           h == s.map[k].hi
           e == [s.map[h] EXCEPT !.dirty = FALSE, !.mips = Unused]
           freed == IF h = k THEN s ELSE [s EXCEPT !.map[h] = e]
           takes == k # None /\ BlockAnalysis /\ ~s.map[k].dirty /\ i.rt \in s.dead
<1>1. a = IF takes THEN [s |-> TakenOver(freed, k, i.rd), x |-> k, hi |-> k]
          ELSE MoveRT(MapRD(s, i, Define(i.rd, TRUE)), i)
  BY DEF Map_RD_NE_RT, TakenOver
<1>2. i.rd \in Reg /\ i.rs \in Reg /\ i.rt \in Reg
  BY DEF Fields
<1>3. CASE ~takes
  <2>1. PICK m : m = MapRD(s, i, Define(i.rd, TRUE))
    OBVIOUS
  <2>2. Writes(s, m, p, M, (Z \cup {i.rd}) \cup {i.rd}, i.rd, TRUE, {i.rs, i.rt})
    BY <2>1, ResultsOn
  <2>3. (Z \cup {i.rd}) \cup {i.rd} = Z \cup {i.rd}
    OBVIOUS
  <2>4. On(m.s, p, M, Z \cup {i.rd}) /\ Takes(m.s, m, i.rd, TRUE) /\ m.s.const[i.rt] = s.const[i.rt]
    BY <1>2, <2>2, <2>3 DEF Writes, Beside
  <2>5. PICK o : o = MapTo(m.s, i.rt, TRUE, {i.rd, i.rs})
    OBVIOUS
  <2>6. Two({i.rd, i.rs}) /\ i.rt \in Reg \ (Z \cup {i.rd}) /\ ~IsConst(m.s, i.rt)
    BY <1>2, <2>4, TwoOf DEF IsConst
  <2>7. Gives(m.s, o, p, M, Z \cup {i.rd}, i.rt, TRUE, {i.rd, i.rs})
    BY <2>4, <2>5, <2>6, MapToOn
  <2>8. On(o.s, p, M, Z \cup {i.rd}) /\ Beside(m.s, o.s, i.rt, {i.rd, i.rs}) /\ o.lo \in Word /\ o.lo = Low(M.gpr[i.rt])
    BY <2>7 DEF Gives
  <2>9. Takes(o.s, m, i.rd, TRUE)
    <3>1. i.rd \in {i.rd, i.rs} /\ i.rd # i.rt
      OBVIOUS
    <3>2. Takes(m.s, m, i.rd, TRUE) => Takes(o.s, m, i.rd, TRUE)
      BY <1>2, <2>8, <3>1, HasKept
    <3>3. QED
      BY <2>4, <3>2
  <2>10. On(PutLo(o.s, m, o.lo), p, With(M, i.rd, Sext(o.lo)), Z) /\ Takes(PutLo(o.s, m, o.lo), m, i.rd, TRUE)
    BY <1>2, <2>8, <2>9, PutLoOn, PutTakes DEF On
  <2>11. a = [s |-> PutLo(o.s, m, o.lo), x |-> m.x, hi |-> m.hi]
    BY <1>1, <1>3, <2>1, <2>5 DEF MoveRT, RTMoved
  <2>12. QED
    BY <2>8, <2>10, <2>11 DEF Takes, Has
<1>4. CASE takes
  <2>1. Typed(s) /\ s.map \in MapType /\ Consistent(s.map, s.const)
    BY DEF On, Good, Typed
  <2>2. k \in Host /\ s.map[k].mips = i.rt /\ ~s.map[k].dirty
    BY <1>2, <1>4, <2>1, WhereIs
  <2>3. h \in Host
    BY <1>2, <2>1, <2>2 DEF Consistent
  <2>4. e \in EntryType /\ e.mips = Unused
    <3>1. s.map[h] \in EntryType
      BY <2>1, <2>3, EntryTyped
    <3>2. QED
      BY <3>1 DEF EntryType, Marks
  <2> HIDE DEF k, h, e
  <2>5. h # k => Typed(freed) /\ freed.map = [s.map EXCEPT ![h] = e] /\ Rest(s, freed)
    BY <2>1, <2>3, <2>4, SetEntry
  <2>6. /\ Typed(freed) /\ Rest(s, freed)
        /\ \A j \in Host : j # h => freed.map[j] = s.map[j]
        /\ h = k => freed.map[k] = s.map[k]
        /\ h # k => freed.map[h].mips = Unused
    BY <2>1, <2>3, <2>4, <2>5 DEF MapType, Rest
  <2>7. Contents(s, freed)
    BY <2>1 DEF Contents, Aside, Typed
  <2> HIDE DEF freed
  <2>8. PICK b : b = TakenOver(freed, k, i.rd)
    OBVIOUS
  <2>9. a = [s |-> b, x |-> k, hi |-> k]
    BY <1>1, <1>4, <2>8
  <2>10. Freed(s, freed, k)
    BY <2>6, <2>7 DEF h, Freed
  <2>11. QED
    <3>1. i.rt \in Reg \ Z
      BY <1>2
    <3>2. Placed(TakenOver(freed, k, i.rd), k, i.rd, p, With(M, i.rd, Sext(Low(M.gpr[i.rt]))), Z)
      BY <1>2, <2>2, <2>10, <3>1, TakenOverOn
    <3>3. a.s = b /\ a.x = k /\ a.hi = k
      BY <2>9
    <3>4. QED
      BY <2>2, <2>8, <3>2, <3>3 DEF Placed, Takes, Has
<1>5. QED
  BY <1>3, <1>4

\* How many words are asked for.
Size(is32) == IF is32 THEN 1 ELSE 2

\* The register d is being written: its place, of one word or two, is known, and
\* its value is open,
Dest(s, m, p, M, Z, d, words) ==
    /\ d \in Reg \ {R0} /\ d \notin Z /\ Machine(M)
    /\ On(s, p, M, Z \cup {d}) /\ Takes(s, m, d, words = 1)

\* or is u.
Held(s, m, p, M, Z, d, u, words) ==
    /\ d \in Reg \ {R0} /\ d \notin Z /\ Machine(M) /\ u \in Double
    /\ On(s, p, With(M, d, u), Z) /\ Takes(s, m, d, words = 1)

\* An operand is at hand.
Given(o, M, q, is32) ==
    /\ M.gpr[q] \in Double /\ o.lo \in Word /\ o.hi \in Word
    /\ o.lo = Low(M.gpr[q]) /\ (~is32 => o.hi = High(M.gpr[q]))

\* What the place of a register with a value holds.
LEMMA HeldValue ==
    ASSUME NEW s, NEW m, NEW p, NEW M, NEW Z, NEW d, NEW u, NEW words, Held(s, m, p, M, Z, d, u, words)
    PROVE  /\ m.x \in Host /\ m.hi \in Host /\ s.host[m.x] \in Word /\ s.host[m.hi] \in Word
           /\ s.host[m.x] = Low(u) /\ (words = 2 => s.host[m.hi] = High(u)) /\ (words = 1 => IsWord(u))
           /\ Dest(s, m, p, M, Z, d, words)
<1>1. PICK N : N = With(M, d, u)
  OBVIOUS
<1>2. N.gpr[d] = u
  BY <1>1, WithMachine DEF Held
<1>3. On(s, p, N, Z) /\ Has(s, m, d) /\ d \in Reg \ Z /\ s.map[m.x].dirty /\ (words = 1 <=> m.hi = m.x)
  BY <1>1 DEF Held, Takes
<1>4. /\ m.x \in Host /\ m.hi \in Host
      /\ s.host[m.x] \in Word /\ s.host[m.hi] \in Word
      /\ s.host[m.x] = Low(N.gpr[d])
      /\ m.hi # m.x => s.host[m.hi] = High(N.gpr[d])
      /\ s.map[m.x].dirty /\ m.hi = m.x => IsWord(N.gpr[d])
  BY <1>3, HasValue
<1>5. On(s, p, M, Z \cup {d})
  BY OpenOn DEF Held
<1>6. QED
  BY <1>2, <1>3, <1>4, <1>5 DEF Held, Dest

\* The same of a word, and of a double word.
LEMMA HeldWord ==
    ASSUME NEW s, NEW m, NEW p, NEW M, NEW Z, NEW d, NEW u
    PROVE  /\ Held(s, m, p, M, Z, d, u, 1) =>
                /\ m.x \in Host /\ m.hi \in Host /\ s.host[m.x] \in Word /\ s.host[m.hi] \in Word
                /\ s.host[m.x] = Low(u) /\ Low(u) \in Word /\ IsWord(u)
                /\ Dest(s, m, p, M, Z, d, 1)
           /\ Held(s, m, p, M, Z, d, u, 2) =>
                /\ m.x \in Host /\ m.hi \in Host /\ s.host[m.x] \in Word /\ s.host[m.hi] \in Word
                /\ s.host[m.x] = Low(u) /\ s.host[m.hi] = High(u) /\ Low(u) \in Word /\ High(u) \in Word
                /\ Dest(s, m, p, M, Z, d, 2)
<1>1. ASSUME NEW words, Held(s, m, p, M, Z, d, u, words)
      PROVE  /\ m.x \in Host /\ m.hi \in Host /\ s.host[m.x] \in Word /\ s.host[m.hi] \in Word
             /\ s.host[m.x] = Low(u) /\ (words = 2 => s.host[m.hi] = High(u)) /\ (words = 1 => IsWord(u))
             /\ Dest(s, m, p, M, Z, d, words)
  BY <1>1, HeldValue
<1>2. ASSUME Held(s, m, p, M, Z, d, u, 1)
      PROVE  /\ m.x \in Host /\ m.hi \in Host /\ s.host[m.x] \in Word /\ s.host[m.hi] \in Word
             /\ s.host[m.x] = Low(u) /\ IsWord(u) /\ Dest(s, m, p, M, Z, d, 1)
  BY <1>1, <1>2
<1>3. ASSUME Held(s, m, p, M, Z, d, u, 2)
      PROVE  /\ m.x \in Host /\ m.hi \in Host /\ s.host[m.x] \in Word /\ s.host[m.hi] \in Word
             /\ s.host[m.x] = Low(u) /\ s.host[m.hi] = High(u) /\ Dest(s, m, p, M, Z, d, 2)
  BY <1>1, <1>3
<1>4. QED
  BY <1>2, <1>3

\* An operand fetched beside it leaves it as it is.
LEMMA BesideHeld ==
    ASSUME NEW s, NEW m, NEW p, NEW M, NEW Z, NEW d, NEW u, NEW words, NEW q \in Reg \ Z, q # d,
           NEW keep, d \in keep, NEW o, NEW is32
    PROVE  /\ Held(s, m, p, M, Z, d, u, words) /\ Gives(s, o, p, With(M, d, u), Z, q, is32, keep)
                => Held(o.s, m, p, M, Z, d, u, words) /\ Given(o, M, q, is32)
           /\ Dest(s, m, p, M, Z, d, words) /\ Gives(s, o, p, M, Z \cup {d}, q, is32, keep)
                => Dest(o.s, m, p, M, Z, d, words) /\ Given(o, M, q, is32)
<1>1. ASSUME d \in Reg, Beside(s, o.s, q, keep), Takes(s, m, d, words = 1) PROVE Takes(o.s, m, d, words = 1)
  BY <1>1, HasKept
<1>2. ASSUME Held(s, m, p, M, Z, d, u, words), Gives(s, o, p, With(M, d, u), Z, q, is32, keep)
      PROVE  Held(o.s, m, p, M, Z, d, u, words) /\ Given(o, M, q, is32)
  <2>1. With(M, d, u).gpr[q] = M.gpr[q]
    BY <1>2, WithMachine DEF Held
  <2>2. M.gpr[q] \in Double
    BY <1>2 DEF Held, Machine
  <2>3. Takes(o.s, m, d, words = 1)
    BY <1>1, <1>2 DEF Held, Gives
  <2>4. QED
    BY <1>2, <2>1, <2>2, <2>3 DEF Held, Gives, Given
<1>3. ASSUME Dest(s, m, p, M, Z, d, words), Gives(s, o, p, M, Z \cup {d}, q, is32, keep)
      PROVE  Dest(o.s, m, p, M, Z, d, words) /\ Given(o, M, q, is32)
  <2>1. M.gpr[q] \in Double
    BY <1>3 DEF Dest, Machine
  <2>2. Takes(o.s, m, d, words = 1)
    BY <1>1, <1>3 DEF Dest, Gives
  <2>3. QED
    BY <1>3, <2>1, <2>2 DEF Dest, Gives, Given
<1>4. QED
  BY <1>2, <1>3

\* How an operand is fetched: used, mapped, or read from memory.
Fetched(o, s, q, is32, keep) ==
    \/ o = Use(s, q, is32, keep)
    \/ o = MapIn(s, q, is32, keep)
    \/ o = MapTo(s, q, is32, keep) /\ ~IsConst(s, q)

\* However an operand is fetched, it is given with its value.
LEMMA FetchedGives ==
    ASSUME NEW p, p \subseteq {ECX}, NEW s, NEW M, NEW Z, On(s, p, M, Z), NEW q \in Reg \ Z,
           NEW is32 \in BOOLEAN, is32 \/ p = {}, NEW keep, Two(keep), NEW o, Fetched(o, s, q, is32, keep)
    PROVE  Gives(s, o, p, M, Z, q, is32, keep)
<1>1. Gives(s, Use(s, q, is32, keep), p, M, Z, q, is32, keep)
  BY UseOn
<1>2. Gives(s, MapIn(s, q, is32, keep), p, M, Z, q, is32, keep)
  BY MapInOn
<1>3. ~IsConst(s, q) => Gives(s, MapTo(s, q, is32, keep), p, M, Z, q, is32, keep)
  BY MapToOn
<1>4. QED
  BY <1>1, <1>2, <1>3 DEF Fetched

\* An operand beside a register that has a value,
LEMMA FetchHeld ==
    ASSUME NEW p, p \subseteq {ECX}, NEW s, NEW m, NEW M, NEW Z, NEW d, NEW u, NEW words,
           Held(s, m, p, M, Z, d, u, words), NEW q \in Reg \ Z, q # d,
           NEW is32 \in BOOLEAN, is32 \/ p = {}, NEW keep, Two(keep), d \in keep,
           NEW o, Fetched(o, s, q, is32, keep)
    PROVE  Held(o.s, m, p, M, Z, d, u, words) /\ Given(o, M, q, is32)
<1>1. Gives(s, o, p, With(M, d, u), Z, q, is32, keep)
  BY FetchedGives DEF Held
<1>2. QED
  BY <1>1, BesideHeld

\* or is open.
LEMMA FetchDest ==
    ASSUME NEW p, p \subseteq {ECX}, NEW s, NEW m, NEW M, NEW Z, NEW d, NEW words,
           Dest(s, m, p, M, Z, d, words), NEW q \in Reg \ Z, q # d,
           NEW is32 \in BOOLEAN, is32 \/ p = {}, NEW keep, Two(keep), d \in keep,
           NEW o, Fetched(o, s, q, is32, keep)
    PROVE  Dest(o.s, m, p, M, Z, d, words) /\ Given(o, M, q, is32)
<1>1. Gives(s, o, p, M, Z \cup {d}, q, is32, keep)
  BY FetchedGives DEF Dest
<1>2. QED
  BY <1>1, BesideHeld

\* What is put into the place is the value.
LEMMA PutDest ==
    ASSUME NEW s, NEW m, NEW p, NEW M, NEW Z, NEW d, NEW w \in Word, NEW h \in Word
    PROVE  /\ Dest(s, m, p, M, Z, d, 1) => Held(PutLo(s, m, w), m, p, M, Z, d, Sext(w), 1)
           /\ Dest(s, m, p, M, Z, d, 2) => Held(Put(s, m, w, h, FALSE), m, p, M, Z, d, Pair(w, h), 2)
<1>1. Sext(w) \in Double /\ Pair(w, h) \in Double
  BY Pairs, Extended
<1>2. ASSUME Dest(s, m, p, M, Z, d, 1) PROVE Held(PutLo(s, m, w), m, p, M, Z, d, Sext(w), 1)
  <2>1. On(PutLo(s, m, w), p, With(M, d, Sext(w)), Z)
    BY <1>2, PutLoOn DEF Dest
  <2>2. Takes(PutLo(s, m, w), m, d, 1 = 1)
    BY <1>2, PutTakes DEF Dest, On
  <2>3. QED
    BY <1>1, <1>2, <2>1, <2>2 DEF Dest, Held
<1>3. ASSUME Dest(s, m, p, M, Z, d, 2) PROVE Held(Put(s, m, w, h, FALSE), m, p, M, Z, d, Pair(w, h), 2)
  <2>0. Takes(s, m, d, FALSE)
    BY <1>3 DEF Dest, Takes
  <2>1. On(Put(s, m, w, h, FALSE), p, With(M, d, Pair(w, h)), Z)
    BY <1>3, <2>0, PutOn DEF Dest
  <2>2. Takes(Put(s, m, w, h, FALSE), m, d, 2 = 1)
    BY <1>3, PutTakes DEF Dest, On
  <2>3. QED
    BY <1>1, <1>3, <2>1, <2>2 DEF Dest, Held
<1>4. QED
  BY <1>2, <1>3

\* The registers of an instruction have their values.
Fits(i, Z) == Fields(i) /\ i.rd \notin Z /\ i.rs \notin Z /\ i.rt \notin Z

\* The value of a register of the machine that is asked for as a word.
Asked(M, r, is32) == IF is32 THEN Sext(Low(M.gpr[r])) ELSE M.gpr[r]

\* The value asked for, in one word or in both.
LEMMA AskedDouble ==
    ASSUME NEW M, Machine(M), NEW r \in Reg, NEW is32 \in BOOLEAN
    PROVE  /\ M.gpr[r] \in Double /\ Low(M.gpr[r]) \in Word /\ High(M.gpr[r]) \in Word
           /\ Asked(M, r, is32) \in Double /\ Low(Asked(M, r, is32)) = Low(M.gpr[r])
           /\ ~is32 => Asked(M, r, is32) = M.gpr[r] /\ High(Asked(M, r, is32)) = High(M.gpr[r])
           /\ IsWord(M.gpr[r]) => M.gpr[r] = Sext(Low(M.gpr[r])) /\ High(M.gpr[r]) = SignOf(Low(M.gpr[r]))
<1>1. M.gpr[r] \in Double
  BY DEF Machine
<1>2. Low(M.gpr[r]) \in Word /\ High(M.gpr[r]) \in Word
  BY <1>1, Pairs
<1>3. Sext(Low(M.gpr[r])) \in Double /\ Low(Sext(Low(M.gpr[r]))) = Low(M.gpr[r])
  BY <1>2, Extended
<1>4. IsWord(M.gpr[r]) => M.gpr[r] = Sext(Low(M.gpr[r])) /\ High(M.gpr[r]) = SignOf(Low(M.gpr[r]))
  BY <1>1, Extended
<1>5. QED
  BY <1>1, <1>2, <1>3, <1>4 DEF Asked

\* An operand is at hand for what is written to rd, or to rt.
LEMMA Operands2 ==
    ASSUME NEW i, Fields(i)
    PROVE  Two({i.rd, i.rs}) /\ Two({i.rd, i.rt}) /\ Two({i.rs, i.rt})
BY TwoOf DEF Fields

\* The register that is written: changed, or defined.
LEMMA Written ==
    ASSUME NEW p, p \subseteq {ECX}, NEW s, NEW M, NEW Z, On(s, p, M, Z), NEW i, Fits(i, Z),
           NEW is32 \in BOOLEAN, is32 \/ p = {}, NEW m
    PROVE  /\ m = MapRD(s, i, Change(i.rd, is32)) /\ i.rd # R0 => Held(m.s, m, p, M, Z, i.rd, Asked(M, i.rd, is32), Size(is32))
           /\ m = MapRT(s, i, Change(i.rt, is32)) /\ i.rt # R0 => Held(m.s, m, p, M, Z, i.rt, Asked(M, i.rt, is32), Size(is32))
           /\ m \in {MapRD(s, i, Define(i.rd, is32)), MapRD(s, i, DefineBoth(i.rd, is32))} /\ i.rd # R0
                => Dest(m.s, m, p, M, Z, i.rd, Size(is32))
           /\ m \in {MapRT(s, i, Define(i.rt, is32)), MapRT(s, i, DefineBoth(i.rt, is32))} /\ i.rt # R0
                => Dest(m.s, m, p, M, Z, i.rt, Size(is32))
<1>1. Machine(M) /\ i.rd \in Reg /\ i.rt \in Reg /\ Fields(i) /\ i.rd \notin Z /\ i.rt \notin Z
  BY DEF On, Follows, Fits, Fields
<1>2. Asked(M, i.rd, is32) \in Double /\ Asked(M, i.rt, is32) \in Double
  BY <1>1, AskedDouble
<1>3. is32 <=> Size(is32) = 1
  BY DEF Size
<1>4. ASSUME NEW r \in Reg, r # R0, r \notin Z, NEW keep, Writes(s, m, p, With(M, r, Asked(M, r, is32)), Z, r, is32, keep),
             Asked(M, r, is32) \in Double
      PROVE  Held(m.s, m, p, M, Z, r, Asked(M, r, is32), Size(is32))
  BY <1>1, <1>3, <1>4 DEF Writes, Held, Takes
<1>5. ASSUME NEW r \in Reg, r # R0, r \notin Z, NEW keep, Writes(s, m, p, M, Z \cup {r}, r, is32, keep)
      PROVE  Dest(m.s, m, p, M, Z, r, Size(is32))
  BY <1>1, <1>3, <1>5 DEF Writes, Dest, Takes
<1>6. /\ i.rd # R0 => Writes(s, MapRD(s, i, Change(i.rd, is32)), p, With(M, i.rd, Asked(M, i.rd, is32)), Z, i.rd, is32, {i.rs, i.rt})
      /\ i.rt # R0 => Writes(s, MapRT(s, i, Change(i.rt, is32)), p, With(M, i.rt, Asked(M, i.rt, is32)), Z, i.rt, is32, {i.rd, i.rs})
  <2>1. Fields(i)
    BY <1>1
  <2>2. i.rd # R0 => Writes(s, MapRD(s, i, Change(i.rd, is32)), p, With(M, i.rd, Asked(M, i.rd, is32)), Z, i.rd, is32, {i.rs, i.rt})
    BY <1>1, Operands2, ChangeOn DEF MapRD, Asked
  <2>3. i.rt # R0 => Writes(s, MapRT(s, i, Change(i.rt, is32)), p, With(M, i.rt, Asked(M, i.rt, is32)), Z, i.rt, is32, {i.rd, i.rs})
    BY <1>1, Operands2, ChangeOn DEF MapRT, Asked
  <2>4. QED
    BY <2>2, <2>3
<1>7. /\ Writes(s, MapRD(s, i, Define(i.rd, is32)), p, M, Z \cup {i.rd}, i.rd, is32, {i.rs, i.rt})
      /\ Writes(s, MapRD(s, i, DefineBoth(i.rd, is32)), p, M, Z \cup {i.rd}, i.rd, is32, {i.rs, i.rt})
      /\ Writes(s, MapRT(s, i, Define(i.rt, is32)), p, M, Z \cup {i.rt}, i.rt, is32, {i.rd, i.rs})
      /\ Writes(s, MapRT(s, i, DefineBoth(i.rt, is32)), p, M, Z \cup {i.rt}, i.rt, is32, {i.rd, i.rs})
  <2>1. Fields(i)
    BY <1>1
  <2>2. Two({i.rs, i.rt}) /\ Two({i.rd, i.rs})
    BY <2>1, Operands2
  <2>3. /\ Writes(s, MapRD(s, i, Define(i.rd, is32)), p, M, Z \cup {i.rd}, i.rd, is32, {i.rs, i.rt})
        /\ Writes(s, MapRD(s, i, DefineBoth(i.rd, is32)), p, M, Z \cup {i.rd}, i.rd, is32, {i.rs, i.rt})
    BY <1>1, <2>2, DefineOn DEF MapRD
  <2>4. /\ Writes(s, MapRT(s, i, Define(i.rt, is32)), p, M, Z \cup {i.rt}, i.rt, is32, {i.rd, i.rs})
        /\ Writes(s, MapRT(s, i, DefineBoth(i.rt, is32)), p, M, Z \cup {i.rt}, i.rt, is32, {i.rd, i.rs})
    BY <1>1, <2>2, DefineOn DEF MapRT
  <2>5. QED
    BY <2>3, <2>4
<1>8. /\ m = MapRD(s, i, Change(i.rd, is32)) /\ i.rd # R0 => Held(m.s, m, p, M, Z, i.rd, Asked(M, i.rd, is32), Size(is32))
      /\ m = MapRT(s, i, Change(i.rt, is32)) /\ i.rt # R0 => Held(m.s, m, p, M, Z, i.rt, Asked(M, i.rt, is32), Size(is32))
  BY <1>1, <1>2, <1>4, <1>6
<1>9. /\ m \in {MapRD(s, i, Define(i.rd, is32)), MapRD(s, i, DefineBoth(i.rd, is32))} /\ i.rd # R0
                => Dest(m.s, m, p, M, Z, i.rd, Size(is32))
      /\ m \in {MapRT(s, i, Define(i.rt, is32)), MapRT(s, i, DefineBoth(i.rt, is32))} /\ i.rt # R0
                => Dest(m.s, m, p, M, Z, i.rt, Size(is32))
  BY <1>1, <1>5, <1>7
<1>10. QED
  BY <1>8, <1>9

\* One word of it, or two.
LEMMA WrittenWord ==
    ASSUME NEW p, p \subseteq {ECX}, NEW s, NEW M, NEW Z, On(s, p, M, Z), NEW i, Fits(i, Z), NEW m
    PROVE  /\ m = MapRD(s, i, Change(i.rd, TRUE)) /\ i.rd # R0 => Held(m.s, m, p, M, Z, i.rd, Sext(Low(M.gpr[i.rd])), 1)
           /\ m = MapRT(s, i, Change(i.rt, TRUE)) /\ i.rt # R0 => Held(m.s, m, p, M, Z, i.rt, Sext(Low(M.gpr[i.rt])), 1)
           /\ m \in {MapRD(s, i, Define(i.rd, TRUE)), MapRD(s, i, DefineBoth(i.rd, TRUE))} /\ i.rd # R0
                => Dest(m.s, m, p, M, Z, i.rd, 1)
           /\ m \in {MapRT(s, i, Define(i.rt, TRUE)), MapRT(s, i, DefineBoth(i.rt, TRUE))} /\ i.rt # R0
                => Dest(m.s, m, p, M, Z, i.rt, 1)
<1>1. Size(TRUE) = 1 /\ (TRUE \/ p = {}) /\ TRUE \in BOOLEAN
  BY DEF Size
<1>2. QED
  BY <1>1, Written DEF Asked

\* The same for a place of two words.
LEMMA WrittenBoth ==
    ASSUME NEW s, NEW M, NEW Z, On(s, {}, M, Z), NEW i, Fits(i, Z), NEW m
    PROVE  /\ m = MapRD(s, i, Change(i.rd, FALSE)) /\ i.rd # R0 => Held(m.s, m, {}, M, Z, i.rd, M.gpr[i.rd], 2)
           /\ m = MapRT(s, i, Change(i.rt, FALSE)) /\ i.rt # R0 => Held(m.s, m, {}, M, Z, i.rt, M.gpr[i.rt], 2)
           /\ m \in {MapRD(s, i, Define(i.rd, FALSE)), MapRD(s, i, DefineBoth(i.rd, FALSE))} /\ i.rd # R0
                => Dest(m.s, m, {}, M, Z, i.rd, 2)
           /\ m \in {MapRT(s, i, Define(i.rt, FALSE)), MapRT(s, i, DefineBoth(i.rt, FALSE))} /\ i.rt # R0
                => Dest(m.s, m, {}, M, Z, i.rt, 2)
<1>1. Size(FALSE) = 2 /\ {} \subseteq {ECX} /\ FALSE \in BOOLEAN
  BY DEF Size
<1>2. QED
  BY <1>1, Written DEF Asked

\* A known constant takes the place of an open value.
LEMMA MapConstOver ==
    ASSUME NEW p, NEW s, NEW M, NEW Z, NEW r \in Reg, On(s, p, M, Z \cup {r}), r # R0, NEW value \in Word
    PROVE  On(MapConst(s, r, value), p, With(M, r, Sext(value)), Z)
<1>1. Good(MapConst(s, r, value), p)
  BY MapConstGood DEF On
<1>2. Follows(MapConst(s, r, value), With(M, r, Constants(r, value)), (Z \cup {r}) \ {r})
  BY MapConstFollows DEF On
<1>3. Constants(r, value) = Sext(value)
  BY DEF Constants
<1>4. (Z \cup {r}) \ {r} \subseteq Z
  OBVIOUS
<1>5. Follows(MapConst(s, r, value), With(M, r, Sext(value)), Z)
  BY <1>2, <1>3, <1>4, FewerFollows
<1>6. QED
  BY <1>1, <1>3, <1>5 DEF On

\* Map_RD_NE_RT, as a place with a value.
LEMMA NERTHeld ==
    ASSUME NEW p, p \subseteq {ECX}, NEW s, NEW M, NEW Z, NEW i, Fits(i, Z), i.rd # R0, i.rd # i.rt,
           On(s, p, M, Z \cup {i.rd}), ~IsConst(s, i.rt), NEW a, a = Map_RD_NE_RT(s, i)
    PROVE  Held(a.s, a, p, M, Z, i.rd, Sext(Low(M.gpr[i.rt])), 1)
<1>1. Fields(i) /\ i.rd \in Reg /\ i.rt \in Reg /\ i.rt \notin Z /\ i.rd \notin Z /\ Machine(M)
  BY DEF Fits, Fields, On, Follows
<1>2. On(a.s, p, With(M, i.rd, Sext(Low(M.gpr[i.rt]))), Z) /\ Takes(a.s, a, i.rd, TRUE)
  BY <1>1, NERTOn
<1>3. Sext(Low(M.gpr[i.rt])) \in Double
  BY <1>1, AskedDouble, Extended
<1>4. QED
  BY <1>1, <1>2, <1>3 DEF Held, Takes

-------------------------------------------------------------------------------
(* Additions                                                                 *)

\* The value in a place is replaced.
LEMMA PutHeld ==
    ASSUME NEW s, NEW m, NEW p, NEW M, NEW Z, NEW d, NEW u, NEW w \in Word, NEW h \in Word
    PROVE  /\ Held(s, m, p, M, Z, d, u, 1) => Held(PutLo(s, m, w), m, p, M, Z, d, Sext(w), 1)
           /\ Held(s, m, p, M, Z, d, u, 2) => Held(Put(s, m, w, h, FALSE), m, p, M, Z, d, Pair(w, h), 2)
BY HeldWord, PutDest

\* What is added to a register, or subtracted.
Addend(M, q, sub) == Minus(Low(M.gpr[q]), sub)

\* Adding a register to the place that holds a value.
LEMMA AddToHeld ==
    ASSUME NEW p, p \subseteq {ECX}, NEW s, NEW m, NEW M, NEW Z, NEW d, NEW u,
           Held(s, m, p, M, Z, d, u, 1), NEW q \in Reg \ Z, q # d, NEW keep, Two(keep), d \in keep,
           NEW sub
    PROVE  Held(AddTo(m, Use(s, q, TRUE, keep), sub), m, p, M, Z, d, Sext(WordOf(Low(u) + Addend(M, q, sub))), 1)
<1>1. PICK o : o = Use(s, q, TRUE, keep)
  OBVIOUS
<1>2. Held(o.s, m, p, M, Z, d, u, 1) /\ Given(o, M, q, TRUE)
  <2>1. Fetched(o, s, q, TRUE, keep) /\ (TRUE \/ p = {}) /\ TRUE \in BOOLEAN
    BY <1>1 DEF Fetched
  <2>2. QED
    BY <2>1, FetchHeld
<1>3. o.s.host[m.x] = Low(u) /\ Low(u) \in Word
  BY <1>2, HeldWord
<1>4. o.lo = Low(M.gpr[q]) /\ o.lo \in Word
  BY <1>2 DEF Given
<1>5. PICK w : w = WordOf(Low(u) + Minus(o.lo, sub))
  OBVIOUS
<1>6. w \in Word
  <2>1. Low(u) \in Int /\ o.lo \in Int
    BY <1>3, <1>4, Cut
  <2>2. Low(u) + Minus(o.lo, sub) \in Int
    BY <2>1 DEF Minus
  <2>3. QED
    BY <1>5, <2>2, Cut
<1>7. Held(PutLo(o.s, m, w), m, p, M, Z, d, Sext(w), 1)
  BY <1>2, <1>6, Signs, PutHeld
<1>8. QED
  BY <1>1, <1>3, <1>4, <1>5, <1>7 DEF AddTo, Addend

\* The sum or the difference of two registers' words.
Sum(M, i, sub) == WordOf(Low(M.gpr[i.rs]) + Addend(M, i.rt, sub))

\* The sum of the interpreter, and the cases the compiler treats apart.
LEMMA SumWord ==
    ASSUME NEW M, Machine(M), NEW i, Fields(i), NEW sub
    PROVE  /\ Low(M.gpr[i.rs]) \in Word /\ Low(M.gpr[i.rt]) \in Word /\ Low(M.gpr[i.rd]) \in Word
           /\ Low(M.gpr[i.rs]) \in Int /\ Low(M.gpr[i.rt]) \in Int /\ Addend(M, i.rt, sub) \in Int
           /\ Sum(M, i, sub) \in Word /\ Low(M.gpr[R0]) = 0 /\ M.gpr[R0] = 0
           /\ i.rs = R0 /\ ~sub => Sum(M, i, sub) = Low(M.gpr[i.rt])
           /\ i.rt = R0 => Sum(M, i, sub) = Low(M.gpr[i.rs])
           /\ i.rs = R0 /\ sub => Sum(M, i, sub) = WordOf(-Low(M.gpr[i.rt]))
           /\ i.rs = i.rt => Sum(M, i, sub) = IF sub THEN 0 ELSE WordOf(2 * Low(M.gpr[i.rt]))
           /\ WordOf(WordOf(-Low(M.gpr[i.rt])) + Low(M.gpr[i.rs])) = WordOf(Low(M.gpr[i.rs]) - Low(M.gpr[i.rt]))
<1>1. M.gpr[i.rs] \in Double /\ M.gpr[i.rt] \in Double /\ M.gpr[i.rd] \in Double /\ M.gpr[R0] = 0
  BY DEF Machine, Fields
<1>2. PICK a, b : a = Low(M.gpr[i.rs]) /\ b = Low(M.gpr[i.rt])
  OBVIOUS
<1>3. a \in Word /\ b \in Word /\ Low(M.gpr[i.rd]) \in Word
  BY <1>1, <1>2, Pairs
<1>4. a \in Int /\ b \in Int /\ WordOf(a) = a /\ WordOf(b) = b
  BY <1>3, Cut
<1>5. Addend(M, i.rt, sub) \in Int /\ Addend(M, i.rt, sub) = IF sub THEN -b ELSE b
  BY <1>2, <1>4 DEF Addend, Minus
<1>6. Low(0) = 0 /\ WordOf(0) = 0
  BY Extended, Cut, Signs
<1>7. PICK c : c = Addend(M, i.rt, sub)
  OBVIOUS
<1>8. Sum(M, i, sub) = WordOf(a + c) /\ a + c \in Int
  BY <1>2, <1>4, <1>5, <1>7 DEF Sum
<1>9. i.rs = R0 => a = 0
  BY <1>1, <1>2, <1>6
<1>10. i.rt = R0 => b = 0
  BY <1>1, <1>2, <1>6
<1>11. Sum(M, i, sub) \in Word
  BY <1>8, Cut
<1>12. i.rs = R0 /\ ~sub => Sum(M, i, sub) = b
  <2>1. 0 + b = b
    BY <1>4
  <2>2. QED
    BY <1>4, <1>5, <1>7, <1>8, <1>9, <2>1
<1>13. i.rt = R0 => Sum(M, i, sub) = a
  <2>1. a + 0 = a /\ a + (-0) = a
    BY <1>4
  <2>2. QED
    BY <1>4, <1>5, <1>7, <1>8, <1>10, <2>1
<1>14. i.rs = R0 /\ sub => Sum(M, i, sub) = WordOf(-b)
  <2>1. 0 + (-b) = -b
    BY <1>4
  <2>2. QED
    BY <1>5, <1>7, <1>8, <1>9, <2>1
<1>15. i.rs = i.rt => Sum(M, i, sub) = IF sub THEN 0 ELSE WordOf(2 * b)
  <2>1. b + b = 2 * b /\ b + (-b) = 0
    BY <1>4
  <2>2. QED
    BY <1>2, <1>5, <1>6, <1>7, <1>8, <2>1
<1>16. WordOf(WordOf(-b) + a) = WordOf(a - b)
  <2>1. -b \in Int /\ (-b) + a = a - b
    BY <1>4
  <2>2. QED
    BY <1>4, <2>1, WordSums
<1>17. QED
  BY <1>1, <1>2, <1>3, <1>4, <1>5, <1>6, <1>11, <1>12, <1>13, <1>14, <1>15, <1>16

\* A register that is known to be a word keeps it.
LEMMA KeepsWord ==
    ASSUME NEW s, NEW p, NEW M, NEW Z, On(s, p, M, Z), NEW r \in Reg, IsWord(M.gpr[r])
    PROVE  On(s, p, With(M, r, Sext(Low(M.gpr[r]))), Z)
<1>1. Machine(M)
  BY DEF On, Follows
<1>2. M.gpr[r] = Sext(Low(M.gpr[r]))
  BY <1>1, AskedDouble
<1>3. With(M, r, M.gpr[r]) = M
  BY <1>1, WithAgain
<1>4. QED
  BY <1>2, <1>3

\* A place with a value, or an open one: the state follows.
LEMMA HeldOn ==
    ASSUME NEW s, NEW m, NEW p, NEW M, NEW Z, NEW d, NEW u, NEW words, Held(s, m, p, M, Z, d, u, words)
    PROVE  On(s, p, With(M, d, u), Z) /\ m.x \in Host /\ s.host[m.x] \in Word /\ s.host[m.x] = Low(u)
BY HeldValue DEF Held

\* An operand that is fetched for its low word, or for both its words, beside a
\* register that is being written: one with a value, or one that is still open.
FetchedWord(o, s, q, keep) == Fetched(o, s, q, TRUE, keep)
FetchedBoth(o, s, q, keep) == Fetched(o, s, q, FALSE, keep)
GivenWord(o, M, q) == M.gpr[q] \in Double /\ o.lo \in Word /\ o.lo = Low(M.gpr[q])
GivenBoth(o, M, q) ==
    M.gpr[q] \in Double /\ o.lo \in Word /\ o.hi \in Word /\ o.lo = Low(M.gpr[q]) /\ o.hi = High(M.gpr[q])

\* Fetching a word leaves another place as it is,
LEMMA WordBeside ==
    ASSUME NEW p, p \subseteq {ECX}, NEW s, NEW m, NEW M, NEW Z, NEW d, NEW words,
           NEW q \in Reg \ Z, q # d, NEW keep, Two(keep), d \in keep, NEW o, FetchedWord(o, s, q, keep)
    PROVE  /\ \A u : Held(s, m, p, M, Z, d, u, words) => Held(o.s, m, p, M, Z, d, u, words) /\ GivenWord(o, M, q)
           /\ Dest(s, m, p, M, Z, d, words) => Dest(o.s, m, p, M, Z, d, words) /\ GivenWord(o, M, q)
<1>1. Fetched(o, s, q, TRUE, keep) /\ (TRUE \/ p = {}) /\ TRUE \in BOOLEAN
  BY DEF FetchedWord
<1>2. ASSUME NEW u, Held(s, m, p, M, Z, d, u, words)
      PROVE  Held(o.s, m, p, M, Z, d, u, words) /\ Given(o, M, q, TRUE)
  BY <1>1, <1>2, FetchHeld
<1>3. ASSUME Dest(s, m, p, M, Z, d, words)
      PROVE  Dest(o.s, m, p, M, Z, d, words) /\ Given(o, M, q, TRUE)
  <2>1. \A is32 \in BOOLEAN : (is32 \/ p = {}) /\ Fetched(o, s, q, is32, keep)
            => Dest(o.s, m, p, M, Z, d, words) /\ Given(o, M, q, is32)
    BY <1>3, FetchDest
  <2>2. QED
    BY <1>1, <2>1
<1>4. QED
  BY <1>2, <1>3 DEF Given, GivenWord

\* The same when no host register is protected.
LEMMA WordAlone ==
    ASSUME NEW s, NEW m, NEW M, NEW Z, NEW d, NEW words,
           NEW q \in Reg \ Z, q # d, NEW keep, Two(keep), d \in keep, NEW o, FetchedWord(o, s, q, keep)
    PROVE  /\ \A u : Held(s, m, {}, M, Z, d, u, words) => Held(o.s, m, {}, M, Z, d, u, words) /\ GivenWord(o, M, q)
           /\ Dest(s, m, {}, M, Z, d, words) => Dest(o.s, m, {}, M, Z, d, words) /\ GivenWord(o, M, q)
<1>1. PICK p : p = {}
  OBVIOUS
<1>2. p \subseteq {ECX}
  BY <1>1
<1>3. /\ \A u : Held(s, m, p, M, Z, d, u, words) => Held(o.s, m, p, M, Z, d, u, words) /\ GivenWord(o, M, q)
      /\ Dest(s, m, p, M, Z, d, words) => Dest(o.s, m, p, M, Z, d, words) /\ GivenWord(o, M, q)
  BY <1>2, WordBeside
<1>4. QED
  BY <1>1, <1>3

\* and so does fetching both words.
LEMMA BothBeside ==
    ASSUME NEW s, NEW m, NEW M, NEW Z, NEW d, NEW words,
           NEW q \in Reg \ Z, q # d, NEW keep, Two(keep), d \in keep, NEW o, FetchedBoth(o, s, q, keep)
    PROVE  /\ \A u : Held(s, m, {}, M, Z, d, u, words) => Held(o.s, m, {}, M, Z, d, u, words) /\ GivenBoth(o, M, q)
           /\ Dest(s, m, {}, M, Z, d, words) => Dest(o.s, m, {}, M, Z, d, words) /\ GivenBoth(o, M, q)
<1>1. Fetched(o, s, q, FALSE, keep) /\ FALSE \in BOOLEAN /\ {} \subseteq {ECX}
  BY DEF FetchedBoth
<1>2. ASSUME NEW u, Held(s, m, {}, M, Z, d, u, words)
      PROVE  Held(o.s, m, {}, M, Z, d, u, words) /\ Given(o, M, q, FALSE)
  <2>1. \A is32 \in BOOLEAN : Fetched(o, s, q, is32, keep)
            => Held(o.s, m, {}, M, Z, d, u, words) /\ Given(o, M, q, is32)
    BY <1>1, <1>2, FetchHeld
  <2>2. QED
    BY <1>1, <2>1
<1>3. ASSUME Dest(s, m, {}, M, Z, d, words)
      PROVE  Dest(o.s, m, {}, M, Z, d, words) /\ Given(o, M, q, FALSE)
  <2>1. \A is32 \in BOOLEAN : Fetched(o, s, q, is32, keep)
            => Dest(o.s, m, {}, M, Z, d, words) /\ Given(o, M, q, is32)
    BY <1>1, <1>3, FetchDest
  <2>2. QED
    BY <1>1, <2>1
<1>4. QED
  BY <1>2, <1>3 DEF Given, GivenBoth

\* What is written to a place, in one step.
LEMMA DestOn ==
    ASSUME NEW s, NEW m, NEW p, NEW M, NEW Z, NEW d, Dest(s, m, p, M, Z, d, 1), NEW w \in Word
    PROVE  On(PutLo(s, m, w), p, With(M, d, Sext(w)), Z) /\ Held(PutLo(s, m, w), m, p, M, Z, d, Sext(w), 1)
<1>1. Held(PutLo(s, m, w), m, p, M, Z, d, Sext(w), 1)
  BY w \in Word, PutDest
<1>2. QED
  BY <1>1, HeldOn

\* A word that is written into a place gives the register its value.
LEMMA HeldPut ==
    ASSUME NEW s, NEW m, NEW p, NEW M, NEW Z, NEW d, NEW u, Held(s, m, p, M, Z, d, u, 1), NEW w \in Word
    PROVE  On(PutLo(s, m, w), p, With(M, d, Sext(w)), Z) /\ Held(PutLo(s, m, w), m, p, M, Z, d, Sext(w), 1)
<1>1. Dest(s, m, p, M, Z, d, 1)
  BY HeldWord
<1>2. QED
  BY <1>1, DestOn

\* rd is rs and rt.
LEMMA DoubledOn ==
    ASSUME NEW p, p \subseteq {ECX}, NEW m, NEW M, NEW Z, NEW d, NEW w, w \in Word,
           Held(m.s, m, p, M, Z, d, Sext(w), 1)
    PROVE  /\ On(Doubled(m), p, With(M, d, Sext(WordOf(2 * w))), Z)
           /\ On(Negated(m), p, With(M, d, Sext(WordOf(-w))), Z)
           /\ Held(Negated(m), m, p, M, Z, d, Sext(WordOf(-w)), 1)
           /\ Own(m) = w
<1>1. m.s.host[m.x] = w
  BY HeldOn, Extended
<1>2. 2 * w \in Int /\ -w \in Int
  BY Cut
<1>3. WordOf(2 * w) \in Word /\ WordOf(-w) \in Word
  BY <1>2, Cut
<1>4. On(PutLo(m.s, m, WordOf(2 * w)), p, With(M, d, Sext(WordOf(2 * w))), Z)
  BY <1>3, HeldPut
<1>5. /\ On(PutLo(m.s, m, WordOf(-w)), p, With(M, d, Sext(WordOf(-w))), Z)
      /\ Held(PutLo(m.s, m, WordOf(-w)), m, p, M, Z, d, Sext(WordOf(-w)), 1)
  BY <1>3, HeldPut
<1>6. QED
  BY <1>1, <1>4, <1>5 DEF Doubled, Negated, Own

\* A mapped rd leaves the constants of the others.
LEMMA DefineKeepsConst ==
    ASSUME NEW p, p \subseteq {ECX}, NEW s, NEW M, NEW Z, On(s, p, M, Z), NEW i, Fields(i),
           NEW q \in Reg, q # i.rd
    PROVE  MapRD(s, i, Define(i.rd, TRUE)).s.const[q] = s.const[q]
<1>1. Two({i.rs, i.rt}) /\ i.rd \in Reg /\ (TRUE \/ p = {}) /\ TRUE \in BOOLEAN
  BY Operands2 DEF Fields
<1>2. Writes(s, MapRegister(s, Define(i.rd, TRUE), {i.rs, i.rt}), p, M, Z \cup {i.rd}, i.rd, TRUE, {i.rs, i.rt})
  BY <1>1, DefineOn
<1>3. QED
  BY <1>2 DEF Writes, Beside, MapRD

\* rd = rs (+ or -) rt: rd is the second operand,
LEMMA OntoRTOn ==
    ASSUME NEW p, p \subseteq {ECX}, NEW s, NEW M, NEW Z, On(s, p, M, Z), NEW i, Fits(i, Z), i.rd # R0,
           i.rd = i.rt, i.rs # i.rt, NEW sub, IsWord(M.gpr[i.rt])
    PROVE  On(MipsAddOntoRT(s, i, sub), p, With(M, i.rd, Sext(Sum(M, i, sub))), Z)
<1>1. Fields(i) /\ Machine(M) /\ i.rs \in Reg \ Z /\ i.rt \in Reg /\ Two({i.rd, i.rt})
  BY Operands2 DEF Fits, On, Follows, Fields
<1>2. PICK m : m = MapRD(s, i, Change(i.rd, TRUE))
  OBVIOUS
<1>3. PICK w : w = Low(M.gpr[i.rt])
  OBVIOUS
<1>4. w \in Word /\ w \in Int
  BY <1>1, <1>3, SumWord
<1>5. Held(m.s, m, p, M, Z, i.rd, Sext(w), 1)
  BY <1>2, <1>3, WrittenWord
<1>6. PICK b : b = Low(M.gpr[i.rs])
  OBVIOUS
<1>7. b \in Word /\ b \in Int /\ Addend(M, i.rs, FALSE) = b
  BY <1>1, <1>6, SumWord DEF Addend, Minus
<1>8. Sum(M, i, sub) = WordOf(b + Minus(w, sub))
  BY <1>3, <1>6 DEF Sum, Addend
<1>9. CASE i.rs = R0
  <2>1. Sum(M, i, sub) = IF sub THEN WordOf(-w) ELSE w
    BY <1>1, <1>3, <1>9, SumWord
  <2>2. sub => On(Negated(m), p, With(M, i.rd, Sext(WordOf(-w))), Z)
    BY <1>4, <1>5, DoubledOn
  <2>3. ~sub => On(s, p, With(M, i.rd, Sext(w)), Z)
    BY <1>1, <1>3, KeepsWord
  <2>4. QED
    BY <1>2, <1>9, <2>1, <2>2, <2>3 DEF MipsAddOntoRT, AddToRT
<1>10. CASE i.rs # R0
  <2>1. PICK t : t = IF sub THEN Negated(m) ELSE m.s
    OBVIOUS
  <2>2. PICK v : v = IF sub THEN WordOf(-w) ELSE w
    OBVIOUS
  <2>3. v \in Word
    BY <1>4, <2>2, Cut
  <2>4. Held(t, m, p, M, Z, i.rd, Sext(v), 1)
    BY <1>4, <1>5, <2>1, <2>2, DoubledOn
  <2>5. Held(AddTo(m, Use(t, i.rs, TRUE, {i.rd, i.rt}), FALSE), m, p, M, Z, i.rd,
             Sext(WordOf(Low(Sext(v)) + Addend(M, i.rs, FALSE))), 1)
    BY <1>1, <2>4, AddToHeld
  <2>6. Low(Sext(v)) = v
    BY <2>3, Extended
  <2>7. WordOf(v + b) = Sum(M, i, sub)
    <3>1. CASE sub
      <4>1. b + Minus(w, sub) = (-w) + b
        BY <1>4, <1>7, <3>1 DEF Minus
      <4>2. WordOf(WordOf(-w) + b) = WordOf((-w) + b)
        BY <1>4, <1>7, WordSums
      <4>3. QED
        BY <1>8, <2>2, <3>1, <4>1, <4>2
    <3>2. CASE ~sub
      <4>1. b + Minus(w, sub) = w + b
        BY <1>4, <1>7, <3>2 DEF Minus
      <4>2. QED
        BY <1>8, <2>2, <3>2, <4>1
    <3>3. QED
      BY <3>1, <3>2
  <2>8. Held(AddTo(m, Use(t, i.rs, TRUE, {i.rd, i.rt}), FALSE), m, p, M, Z, i.rd, Sext(Sum(M, i, sub)), 1)
    BY <1>7, <2>5, <2>6, <2>7
  <2>9. On(AddTo(m, Use(t, i.rs, TRUE, {i.rd, i.rt}), FALSE), p, With(M, i.rd, Sext(Sum(M, i, sub))), Z)
    BY <2>8 DEF Held
  <2>10. QED
    BY <1>2, <1>10, <2>1, <2>9 DEF MipsAddOntoRT, AddToRT
<1>11. QED
  BY <1>9, <1>10

\* the first,
LEMMA OntoRSOn ==
    ASSUME NEW p, p \subseteq {ECX}, NEW s, NEW M, NEW Z, On(s, p, M, Z), NEW i, Fits(i, Z), i.rd # R0,
           i.rd = i.rs, i.rd # i.rt, NEW sub, IsWord(M.gpr[i.rs])
    PROVE  On(MipsAddOntoRS(s, i, sub), p, With(M, i.rd, Sext(Sum(M, i, sub))), Z)
<1>1. Fields(i) /\ Machine(M) /\ i.rt \in Reg \ Z /\ i.rs \in Reg \ Z /\ Two({i.rd, i.rs}) /\ i.rd \in {i.rd, i.rs}
  BY Operands2 DEF Fits, On, Follows, Fields
<1>2. CASE i.rt = R0
  <2>1. Sum(M, i, sub) = Low(M.gpr[i.rs])
    BY <1>1, <1>2, SumWord
  <2>2. On(s, p, With(M, i.rs, Sext(Low(M.gpr[i.rs]))), Z)
    BY <1>1, KeepsWord
  <2>3. QED
    BY <1>2, <2>1, <2>2 DEF MipsAddOntoRS
<1>3. CASE i.rt # R0 /\ IsConst(s, i.rs)
  <2>1. PICK m : m = MapRD(s, i, Define(i.rd, TRUE))
    OBVIOUS
  <2>2. Dest(m.s, m, p, M, Z, i.rd, 1)
    BY <2>1, WrittenWord
  <2>3. PICK o : o = MapIn(m.s, i.rt, TRUE, {i.rd, i.rs})
    OBVIOUS
  <2>4. Dest(o.s, m, p, M, Z, i.rd, 1) /\ GivenWord(o, M, i.rt)
    <3>1. FetchedWord(o, m.s, i.rt, {i.rd, i.rs})
      BY <2>3 DEF Fetched, FetchedWord
    <3>2. QED
      BY <1>1, <2>2, <3>1, WordBeside
  <2>5. WordOf(s.const[i.rs] + Minus(o.lo, sub)) = Sum(M, i, sub)
    BY <1>1, <1>3, <2>4, ValueOf DEF Sum, Addend, GivenWord
  <2>6. Sum(M, i, sub) \in Word
    BY <1>1, SumWord
  <2>7. On(PutLo(o.s, m, Sum(M, i, sub)), p, With(M, i.rd, Sext(Sum(M, i, sub))), Z)
    BY <2>4, <2>6, DestOn
  <2>8. QED
    BY <1>3, <2>1, <2>3, <2>5, <2>7 DEF MipsAddOntoRS, LeaRT, Lea
<1>4. CASE i.rt # R0 /\ ~IsConst(s, i.rs)
  <2>1. PICK m : m = MapRD(s, i, Change(i.rd, TRUE))
    OBVIOUS
  <2>2. Held(m.s, m, p, M, Z, i.rd, Sext(Low(M.gpr[i.rd])), 1)
    BY <2>1, WrittenWord
  <2>3. Held(AddTo(m, Use(m.s, i.rt, TRUE, {i.rd, i.rs}), sub), m, p, M, Z, i.rd,
             Sext(WordOf(Low(Sext(Low(M.gpr[i.rd]))) + Addend(M, i.rt, sub))), 1)
    BY <1>1, <2>2, AddToHeld
  <2>4. Low(Sext(Low(M.gpr[i.rd]))) = Low(M.gpr[i.rs])
    BY <1>1, SumWord, Extended
  <2>5. On(AddTo(m, Use(m.s, i.rt, TRUE, {i.rd, i.rs}), sub), p, With(M, i.rd, Sext(Sum(M, i, sub))), Z)
    BY <2>3, <2>4 DEF Held, Sum
  <2>6. QED
    BY <1>4, <2>1, <2>5 DEF MipsAddOntoRS, AddToRS
<1>5. QED
  BY <1>2, <1>3, <1>4

\* or neither.
LEMMA AddFreshOn ==
    ASSUME NEW p, p \subseteq {ECX}, NEW s, NEW M, NEW Z, On(s, p, M, Z), NEW i, Fits(i, Z), i.rd # R0,
           i.rd # i.rs, i.rd # i.rt, ~Const2(s, i), NEW sub
    PROVE  On(MipsAddFresh(s, i, sub), p, With(M, i.rd, Sext(Sum(M, i, sub))), Z)
<1>1. /\ Fields(i) /\ Machine(M) /\ i.rt \in Reg \ Z /\ i.rs \in Reg \ Z
      /\ Two({i.rd, i.rs}) /\ i.rd \in {i.rd, i.rs} /\ Two({i.rd, i.rt}) /\ i.rd \in {i.rd, i.rt}
  BY Operands2 DEF Fits, On, Follows, Fields
<1>2. PICK m : m = MapRD(s, i, Define(i.rd, TRUE))
  OBVIOUS
<1>3. Dest(m.s, m, p, M, Z, i.rd, 1)
  BY <1>2, WrittenWord
<1>4. Sum(M, i, sub) \in Word
  BY <1>1, SumWord
<1>5. CASE i.rs = i.rt /\ sub
  <2>1. Sum(M, i, sub) = 0
    BY <1>1, <1>5, SumWord
  <2>2. On(PutLo(m.s, m, 0), p, With(M, i.rd, Sext(0)), Z)
    BY <1>3, <1>4, <2>1, DestOn
  <2>3. QED
    BY <1>2, <1>5, <2>1, <2>2 DEF MipsAddFresh, AddFresh
<1>6. CASE i.rs # i.rt /\ i.rs # R0
  <2>1. PICK a : a = Use(m.s, i.rs, TRUE, {i.rd, i.rt})
    OBVIOUS
  <2>2. Dest(a.s, m, p, M, Z, i.rd, 1) /\ GivenWord(a, M, i.rs)
    <3>1. FetchedWord(a, m.s, i.rs, {i.rd, i.rt})
      BY <2>1 DEF Fetched, FetchedWord
    <3>2. QED
      BY <1>1, <1>3, <3>1, WordBeside
  <2>3. PICK w : w = a.lo
    OBVIOUS
  <2>4. w \in Word /\ w = Low(M.gpr[i.rs])
    BY <2>2, <2>3 DEF GivenWord
  <2>5. PICK t : t = PutLo(a.s, m, w)
    OBVIOUS
  <2>6. Held(t, m, p, M, Z, i.rd, Sext(w), 1)
    BY <2>2, <2>4, <2>5, DestOn
  <2>7. i.rt = R0 => On(t, p, With(M, i.rd, Sext(Sum(M, i, sub))), Z)
    <3>1. i.rt = R0 => Sum(M, i, sub) = w
      BY <1>1, <2>4, SumWord
    <3>2. QED
      BY <2>6, <3>1 DEF Held
  <2>8. Held(AddTo(m, Use(t, i.rt, TRUE, {i.rd, i.rs}), sub), m, p, M, Z, i.rd,
             Sext(WordOf(Low(Sext(w)) + Addend(M, i.rt, sub))), 1)
    BY <1>1, <2>6, AddToHeld
  <2>9. Low(Sext(w)) = Low(M.gpr[i.rs])
    BY <2>4, Extended
  <2>10. On(AddTo(m, Use(t, i.rt, TRUE, {i.rd, i.rs}), sub), p, With(M, i.rd, Sext(Sum(M, i, sub))), Z)
    BY <2>8, <2>9 DEF Held, Sum
  <2>11. MipsAddFresh(s, i, sub) = AddRT(t, i, m, sub)
    BY <1>2, <1>6, <2>1, <2>3, <2>5 DEF MipsAddFresh, AddFresh, AddRS
  <2>12. QED
    BY <2>7, <2>10, <2>11 DEF AddRT
<1>7. CASE ~(i.rs = i.rt /\ sub) /\ (i.rs = i.rt \/ i.rs = R0)
  <2>1. ~IsConst(m.s, i.rt)
    <3>1. s.const[R0] = 0
      BY DEF On, Good, Consistent
    <3>2. ~IsConst(s, i.rt)
      BY <1>7, <3>1, MarksAssumption, Signs DEF Const2, IsConst
    <3>3. m.s.const[i.rt] = s.const[i.rt]
      BY <1>1, <1>2, DefineKeepsConst
    <3>4. QED
      BY <3>2, <3>3 DEF IsConst
  <2>2. On(m.s, p, M, Z \cup {i.rd})
    BY <1>3 DEF Dest
  <2>3. PICK a : a = Map_RD_NE_RT(m.s, i)
    OBVIOUS
  <2>4. PICK w : w = Low(M.gpr[i.rt])
    OBVIOUS
  <2>5. Held(a.s, a, p, M, Z, i.rd, Sext(w), 1)
    BY <2>1, <2>2, <2>3, <2>4, NERTHeld
  <2>6. w \in Word
    BY <1>1, <2>4, SumWord
  <2>7. /\ On(Doubled(a), p, With(M, i.rd, Sext(WordOf(2 * w))), Z)
        /\ On(Negated(a), p, With(M, i.rd, Sext(WordOf(-w))), Z)
        /\ On(PutLo(a.s, a, Own(a)), p, With(M, i.rd, Sext(w)), Z)
    BY <2>5, <2>6, DoubledOn, HeldPut
  <2>8. Sum(M, i, sub) = IF i.rs = i.rt THEN WordOf(2 * w) ELSE IF sub THEN WordOf(-w) ELSE w
    BY <1>1, <1>7, <2>4, SumWord
  <2>9. MipsAddFresh(s, i, sub) = FromRT(i, a, sub)
    BY <1>2, <1>7, <2>3 DEF MipsAddFresh, AddFresh
  <2>10. QED
    BY <2>7, <2>8, <2>9 DEF FromRT
<1>8. QED
  BY <1>5, <1>6, <1>7

\* mips_add, that is ADD, ADDU, SUB and SUBU: rd becomes rs (+ or -) rt, cut to a
\* word and sign-extended, whichever of its ways the operands lead to.
THEOREM MipsAddOn ==
    ASSUME NEW s, NEW M, NEW Z, On(s, {}, M, Z), NEW i, Fits(i, Z), i.rd # R0, NEW sub,
           IsWord(M.gpr[i.rs]), IsWord(M.gpr[i.rt])
    PROVE  On(MipsAdd(s, i, sub), {}, With(M, i.rd, Sext(Sum(M, i, sub))), Z)
<1>1. /\ Fields(i) /\ Machine(M) /\ i.rt \in Reg \ Z /\ i.rs \in Reg \ Z /\ i.rd \in Reg \ Z /\ {} \subseteq {ECX}
  BY DEF Fits, On, Follows, Fields
<1>2. Sum(M, i, sub) \in Word
  BY <1>1, SumWord
<1>3. CASE Const2(s, i)
  <2>1. Low(M.gpr[i.rs]) = s.const[i.rs] /\ Low(M.gpr[i.rt]) = s.const[i.rt]
    BY <1>1, <1>3, ValueOf DEF Const2
  <2>2. WordOf(s.const[i.rs] + Minus(s.const[i.rt], sub)) = Sum(M, i, sub)
    BY <2>1 DEF Sum, Addend
  <2>3. On(MapConst(s, i.rd, Sum(M, i, sub)), {}, With(M, i.rd, Sext(Sum(M, i, sub))), Z)
    BY <1>1, <1>2, MapConstOn
  <2>4. QED
    BY <1>3, <2>2, <2>3 DEF MipsAdd
<1>4. CASE ~Const2(s, i) /\ i.rd = i.rt /\ i.rs = i.rt /\ sub
  <2>1. PICK t : t = FreeMipsRegister(s, i.rd)
    OBVIOUS
  <2>2. On(t, {}, M, Z \cup {i.rd})
    BY <1>1, <2>1, FreeMipsOn
  <2>3. 0 \in Word
    BY Signs
  <2>4. On(MapConst(t, i.rd, 0), {}, With(M, i.rd, Sext(0)), Z)
    BY <1>1, <2>2, <2>3, MapConstOver
  <2>5. Sum(M, i, sub) = 0
    BY <1>1, <1>4, SumWord
  <2>6. QED
    BY <1>4, <2>1, <2>4, <2>5 DEF MipsAdd
<1>5. CASE ~Const2(s, i) /\ i.rd = i.rt /\ i.rs = i.rt /\ ~sub
  <2>1. PICK m : m = MapRD(s, i, Change(i.rd, TRUE))
    OBVIOUS
  <2>2. PICK w : w = Low(M.gpr[i.rd])
    OBVIOUS
  <2>3. w \in Word /\ Sum(M, i, sub) = WordOf(2 * w)
    BY <1>1, <1>5, <2>2, SumWord
  <2>4. Held(m.s, m, {}, M, Z, i.rd, Sext(w), 1)
    BY <1>1, <2>1, <2>2, WrittenWord
  <2>5. On(Doubled(m), {}, With(M, i.rd, Sext(WordOf(2 * w))), Z)
    BY <1>1, <2>3, <2>4, DoubledOn
  <2>6. QED
    BY <1>5, <2>1, <2>3, <2>5 DEF MipsAdd
<1>6. CASE ~Const2(s, i) /\ i.rd = i.rt /\ i.rs # i.rt
  BY <1>1, <1>6, OntoRTOn DEF MipsAdd
<1>7. CASE ~Const2(s, i) /\ i.rd # i.rt /\ i.rd = i.rs
  BY <1>1, <1>7, OntoRSOn DEF MipsAdd
<1>8. CASE ~Const2(s, i) /\ i.rd # i.rt /\ i.rd # i.rs
  BY <1>1, <1>8, AddFreshOn DEF MipsAdd
<1>9. QED
  BY <1>3, <1>4, <1>5, <1>6, <1>7, <1>8

\* What an instruction's fields are.
Typing(i) == Fields(i) /\ i.imm \in 0 .. 2 ^ Half - 1 /\ i.sa \in 0 .. W - 1

\* A handler has an instruction to compile in a state that stands for M.
Enters(s, i, M, Z) == On(s, {}, M, Z) /\ Fits(i, Z) /\ Typing(i)

\* What holds when a handler is entered.
LEMMA EntersFacts ==
    ASSUME NEW s, NEW i, NEW M, NEW Z, Enters(s, i, M, Z)
    PROVE  /\ On(s, {}, M, Z) /\ Fits(i, Z) /\ Fields(i) /\ Machine(M) /\ {} \subseteq {ECX}
           /\ i.rd \in Reg \ Z /\ i.rs \in Reg \ Z /\ i.rt \in Reg \ Z
           /\ i.imm \in 0 .. 2 ^ Half - 1 /\ i.sa \in 0 .. W - 1
           /\ ImmS(i) \in Int /\ ImmWord(i) \in Word /\ i.imm \in Word
           /\ \A q \in {i.rd, i.rs, i.rt} : M.gpr[q] \in Double /\ Low(M.gpr[q]) \in Word /\ High(M.gpr[q]) \in Word
           /\ Two({i.rd, i.rs}) /\ Two({i.rd, i.rt}) /\ Two({i.rs, i.rt})
           /\ i.rd \in {i.rd, i.rs} /\ i.rd \in {i.rd, i.rt} /\ i.rt \in {i.rd, i.rt}
<1>1. /\ On(s, {}, M, Z) /\ Fits(i, Z) /\ Fields(i) /\ Machine(M) /\ {} \subseteq {ECX}
      /\ i.rd \in Reg \ Z /\ i.rs \in Reg \ Z /\ i.rt \in Reg \ Z
      /\ i.imm \in 0 .. 2 ^ Half - 1 /\ i.sa \in 0 .. W - 1
  BY DEF Enters, Typing, Fits, On, Follows, Fields
<1>2. ImmS(i) \in Int /\ ImmWord(i) \in Word /\ i.imm \in Word
  BY <1>1, Immediates
<1>3. \A q \in {i.rd, i.rs, i.rt} : M.gpr[q] \in Double
  BY <1>1 DEF Machine
<1>4. QED
  BY <1>1, <1>2, <1>3, Pairs, Operands2

\* ADDI and ADDIU: rt becomes rs plus the sign-extended immediate, cut to a word
\* and sign-extended.
THEOREM AddiOn ==
    ASSUME NEW s, NEW M, NEW Z, NEW i, Enters(s, i, M, Z), i.rt # R0, IsWord(M.gpr[i.rs])
    PROVE  On(DoConstAddi(s, i), {}, With(M, i.rt, Sext(WordOf(Low(M.gpr[i.rs]) + ImmS(i)))), Z)
<1>1. /\ On(s, {}, M, Z) /\ Fits(i, Z) /\ Fields(i) /\ Machine(M) /\ {} \subseteq {ECX}
      /\ i.rd \in Reg \ Z /\ i.rs \in Reg \ Z /\ i.rt \in Reg \ Z
      /\ ImmS(i) \in Int /\ Low(M.gpr[i.rs]) \in Word
      /\ Two({i.rd, i.rt}) /\ i.rt \in {i.rd, i.rt}
  BY EntersFacts
<1>2. PICK w : w = Low(M.gpr[i.rs])
  OBVIOUS
<1>3. PICK v : v = WordOf(w + ImmS(i))
  OBVIOUS
<1>4. w \in Word /\ w \in Int /\ v \in Word
  <2>1. w \in Word /\ w \in Int
    BY <1>1, <1>2, Cut
  <2>2. w + ImmS(i) \in Int
    BY <1>1, <2>1
  <2>3. QED
    BY <1>3, <2>1, <2>2, Cut
<1>5. CASE IsConst(s, i.rs)
  <2>1. w = s.const[i.rs]
    BY <1>1, <1>2, <1>5, ValueOf
  <2>2. On(MapConst(s, i.rt, v), {}, With(M, i.rt, Sext(v)), Z)
    BY <1>1, <1>4, MapConstOn
  <2>3. QED
    BY <1>2, <1>3, <1>5, <2>1, <2>2 DEF DoConstAddi
<1>6. CASE ~IsConst(s, i.rs) /\ i.rt # i.rs
  <2>1. PICK m : m = MapRT(s, i, Define(i.rt, TRUE))
    OBVIOUS
  <2>2. Dest(m.s, m, {}, M, Z, i.rt, 1)
    BY <1>1, <2>1, WrittenWord
  <2>3. PICK o : o = MapTo(m.s, i.rs, TRUE, {i.rd, i.rt})
    OBVIOUS
  <2>4. ~IsConst(m.s, i.rs)
    <3>1. Writes(s, MapRegister(s, Define(i.rt, TRUE), {i.rd, i.rs}), {}, M, Z \cup {i.rt}, i.rt, TRUE, {i.rd, i.rs})
      BY <1>1, Operands2, DefineOn
    <3>2. QED
      BY <1>1, <1>6, <2>1, <3>1 DEF Writes, Beside, MapRT, IsConst
  <2>5. FetchedWord(o, m.s, i.rs, {i.rd, i.rt})
    BY <2>3, <2>4 DEF FetchedWord, Fetched
  <2>6. Dest(o.s, m, {}, M, Z, i.rt, 1) /\ GivenWord(o, M, i.rs)
    BY <1>1, <1>6, <2>2, <2>5, WordAlone
  <2>7. o.lo = w
    BY <1>2, <2>6 DEF GivenWord
  <2>8. On(PutLo(o.s, m, v), {}, With(M, i.rt, Sext(v)), Z)
    BY <1>4, <2>6, DestOn
  <2>9. WordOf(ImmS(i) + o.lo) = v
    <3>1. ImmS(i) + w = w + ImmS(i)
      BY <1>1, <1>4
    <3>2. QED
      BY <1>3, <2>7, <3>1
  <2>10. QED
    BY <1>2, <1>3, <1>6, <2>1, <2>3, <2>8, <2>9 DEF DoConstAddi, LeaImm, Lea, Minus
<1>7. CASE ~IsConst(s, i.rs) /\ i.rt = i.rs /\ i.imm = 0 /\ CheckIs32Bit(s, i.rt)
  <2>1. ImmS(i) = 0
    <3>1. 2 ^ (Half - 1) \in Nat \ {0}
      BY Widths
    <3>2. QED
      BY <1>7, <3>1 DEF ImmS
  <2>2. v = w
    BY <1>3, <1>4, <2>1, Cut
  <2>3. On(s, {}, With(M, i.rt, Sext(Low(M.gpr[i.rt]))), Z)
    BY <1>1, <1>7, KeepsWord
  <2>4. QED
    BY <1>2, <1>3, <1>7, <2>2, <2>3 DEF DoConstAddi
<1>8. CASE ~IsConst(s, i.rs) /\ i.rt = i.rs /\ ~(i.imm = 0 /\ CheckIs32Bit(s, i.rt))
  <2>1. PICK m : m = MapRT(s, i, Change(i.rt, TRUE))
    OBVIOUS
  <2>2. Held(m.s, m, {}, M, Z, i.rt, Sext(w), 1)
    BY <1>1, <1>2, <1>8, <2>1, WrittenWord
  <2>3. Own(m) = w
    BY <1>1, <1>4, <2>2, DoubledOn
  <2>4. On(PutLo(m.s, m, v), {}, With(M, i.rt, Sext(v)), Z)
    BY <1>4, <2>2, HeldPut
  <2>5. QED
    BY <1>2, <1>3, <1>8, <2>1, <2>3, <2>4 DEF DoConstAddi, AddImm
<1>9. QED
  BY <1>5, <1>6, <1>7, <1>8

-------------------------------------------------------------------------------
(* Comparisons                                                               *)

\* slt and slti compare signed values, sltu and sltiu unsigned ones: the
\* comparison of two double words,
Below(i, a, b) == IF i.op \in {"slt", "slti"} THEN SignedD(a) < SignedD(b) ELSE a < b

\* which is that of the words that are looked at.
Shows(x, a, is32) == a \in Double /\ x.lo = Low(a) /\ IF is32 THEN IsWord(a) ELSE x.hi = High(a)

\* The comparison of what two places show is that of the values.
LEMMA LessIs ==
    ASSUME NEW i, NEW a, NEW b, NEW x, NEW y, NEW is32 \in BOOLEAN, Shows(x, a, is32), Shows(y, b, is32)
    PROVE  IsLess(i, x, y, is32) <=> Below(i, a, b)
<1>1. a \in Double /\ b \in Double /\ x.lo = Low(a) /\ y.lo = Low(b)
  BY DEF Shows
<1>2. CASE is32
  <2>1. a = Sext(Low(a)) /\ b = Sext(Low(b)) /\ Low(a) \in Word /\ Low(b) \in Word
    BY <1>1, <1>2, Extended, Pairs DEF Shows
  <2>2. PICK l, k : l = Low(a) /\ k = Low(b)
    OBVIOUS
  <2>3. /\ Sext(l) < Sext(k) <=> l < k
        /\ SignedD(Sext(l)) < SignedD(Sext(k)) <=> Signed(l) < Signed(k)
    BY <2>1, <2>2, SextOrder
  <2>4. IsLess(i, x, y, is32) <=> IF i.op \in {"slt", "slti"} THEN Signed(l) < Signed(k) ELSE l < k
    BY <1>1, <1>2, <2>2 DEF IsLess, LessS, LessU
  <2>5. Below(i, a, b) <=> IF i.op \in {"slt", "slti"} THEN SignedD(Sext(l)) < SignedD(Sext(k)) ELSE Sext(l) < Sext(k)
    BY <2>1, <2>2 DEF Below
  <2>6. QED
    BY <2>3, <2>4, <2>5
<1>3. CASE ~is32
  <2>1. Pair(x.lo, x.hi) = a /\ Pair(y.lo, y.hi) = b
    BY <1>1, <1>3, Pairs DEF Shows
  <2>2. QED
    BY <1>3, <2>1 DEF IsLess, LessS, LessU, Below
<1>4. QED
  BY <1>2, <1>3

\* What is written to the low word of a wide place.
LEMMA PutLoWide ==
    ASSUME NEW s, NEW p, NEW M, Machine(M), NEW Z, NEW r \in Reg, r # R0, On(s, p, M, Z \cup {r}),
           NEW m, Takes(s, m, r, FALSE), NEW w \in Word
    PROVE  s.host[m.hi] \in Word /\ On(PutLo(s, m, w), p, With(M, r, Pair(w, s.host[m.hi])), Z)
<1>1. s.host \in [Host -> Word] /\ m.x \in Host /\ m.hi \in Host /\ m.hi # m.x
  <2>1. Has(s, m, r) /\ (FALSE <=> m.hi = m.x)
    BY DEF Takes
  <2>2. m.x \in Host /\ m.hi \in Host
    BY <2>1, HasWords
  <2>3. QED
    BY <2>1, <2>2 DEF On, Follows, Image
<1>2. PICK h : h = s.host[m.hi]
  OBVIOUS
<1>3. h \in Word
  BY <1>1, <1>2
<1>4. On(Put(s, m, w, h, FALSE), p, With(M, r, Pair(w, h)), Z)
  BY <1>3, PutOn
<1>5. Put(s, m, w, h, FALSE) = PutLo(s, m, w)
  <2>1. PICK t : t = Mov(s, m.x, w)
    OBVIOUS
  <2>2. t.host[m.hi] = h /\ t.host \in [Host -> Word] /\ t = [s EXCEPT !.host = t.host]
    BY <1>1, <1>2, <2>1 DEF On, Good, Typed, Mov
  <2>3. [t.host EXCEPT ![m.hi] = h] = t.host
    BY <1>1, <2>2
  <2>4. Mov(t, m.hi, h) = t
    BY <2>1, <2>2, <2>3 DEF Mov, On, Good, Typed
  <2>5. QED
    BY <2>1, <2>4 DEF Put, PutLo
<1>6. QED
  BY <1>2, <1>3, <1>4, <1>5

\* An operand is mapped beside the place of the register that is being written,
\* which may be its own.
LEMMA WantBeside ==
    ASSUME NEW s, NEW M, NEW Z, On(s, {}, M, Z), NEW m, NEW d \in Reg, d # R0, NEW narrow \in BOOLEAN,
           Takes(s, m, d, narrow), NEW q \in Reg \ Z, NEW is32 \in BOOLEAN, q = d /\ narrow => is32,
           NEW keep, Two(keep), d \in keep, NEW x, x = MapRegister(s, Want(q, is32), keep)
    PROVE  Reads(s, x, {}, M, Z, q, is32, keep) /\ Takes(x.s, m, d, narrow)
<1>1. {} \subseteq {ECX} /\ (is32 \/ {} = {})
  OBVIOUS
<1>2. CASE q = d
  BY <1>1, <1>2, WantAgainOn
<1>3. CASE q # d
  <2>1. Reads(s, x, {}, M, Z, q, is32, keep)
    BY <1>1, WantOn
  <2>2. Beside(s, x.s, q, keep)
    BY <2>1 DEF Reads
  <2>3. QED
    BY <1>3, <2>1, <2>2, HasKept
<1>4. QED
  BY <1>2, <1>3

\* What a comparison reads from a place.
LEMMA WordsShow ==
    ASSUME NEW t, NEW M, NEW Z, On(t, {}, M, Z), NEW x, NEW r \in Reg \ Z, Has(t, x, r), NEW is32 \in BOOLEAN,
           ~is32 => x.hi # x.x, is32 => IsWord(M.gpr[r])
    PROVE  Shows(Words(x, t), M.gpr[r], is32)
<1>1. /\ t.host[x.x] = Low(M.gpr[r]) /\ M.gpr[r] \in Double
      /\ x.hi # x.x => t.host[x.hi] = High(M.gpr[r])
  BY HasValue
<1>2. QED
  BY <1>1 DEF Shows, Words

\* slt and sltu once rd is mapped, to be defined or to be changed.
LEMMA LessMapped ==
    ASSUME NEW s, NEW M, NEW i, NEW Z, NEW Y, Y \subseteq Z \cup {i.rd}, On(s, {}, M, Y), Fields(i), i.rs # i.rt, i.rd # R0,
           i.rs \notin Y, i.rt \notin Y,
           NEW is32 \in BOOLEAN, is32 => IsWord(M.gpr[i.rs]) /\ IsWord(M.gpr[i.rt]),
           NEW narrow \in BOOLEAN, i.rd \in {i.rs, i.rt} => (narrow => is32),
           NEW m, Takes(s, m, i.rd, narrow), m.s = s
    PROVE  LET w == Bit(Below(i, M.gpr[i.rs], M.gpr[i.rt]))
           IN  /\ narrow => On(LessM(i, m, is32), {}, With(M, i.rd, w), Z)
               /\ ~narrow => \E h \in Word : On(LessM(i, m, is32), {}, With(M, i.rd, Pair(w, h)), Z)
<1>1. /\ i.rd \in Reg /\ i.rs \in Reg \ Y /\ i.rt \in Reg \ Y /\ Machine(M)
      /\ Two({i.rd, i.rt}) /\ Two({i.rd, i.rs}) /\ i.rd \in {i.rd, i.rt} /\ i.rd \in {i.rd, i.rs} /\ i.rs \in {i.rd, i.rs}
  BY Operands2 DEF Fields, On, Follows
<1>2. PICK x : x = MapRegister(s, Want(i.rs, is32), {i.rd, i.rt})
  OBVIOUS
<1>3. PICK y : y = MapRegister(x.s, Want(i.rt, is32), {i.rd, i.rs})
  OBVIOUS
<1>4. Reads(s, x, {}, M, Y, i.rs, is32, {i.rd, i.rt}) /\ Takes(x.s, m, i.rd, narrow)
  BY <1>1, <1>2, WantBeside
<1>5. On(x.s, {}, M, Y) /\ Has(x.s, x, i.rs) /\ (~is32 => x.hi # x.x)
  BY <1>4 DEF Reads
<1>6. Reads(x.s, y, {}, M, Y, i.rt, is32, {i.rd, i.rs}) /\ Takes(y.s, m, i.rd, narrow)
  BY <1>1, <1>3, <1>4, <1>5, WantBeside
<1>7. On(y.s, {}, M, Y) /\ Has(y.s, y, i.rt) /\ (~is32 => y.hi # y.x) /\ Beside(x.s, y.s, i.rt, {i.rd, i.rs})
  BY <1>6 DEF Reads
<1>8. Has(y.s, x, i.rs)
  BY <1>1, <1>5, <1>7, HasKept
<1>9. Shows(Words(x, y.s), M.gpr[i.rs], is32) /\ Shows(Words(y, y.s), M.gpr[i.rt], is32)
  BY <1>1, <1>5, <1>7, <1>8, WordsShow
<1>10. IsLess(i, Words(x, y.s), Words(y, y.s), is32) <=> Below(i, M.gpr[i.rs], M.gpr[i.rt])
  BY <1>9, LessIs
<1>11. PICK w : w = Bit(Below(i, M.gpr[i.rs], M.gpr[i.rt]))
  OBVIOUS
<1>12. w \in Word /\ Sext(w) = w
  BY <1>11, Halves
<1>13. LessM(i, m, is32) = PutLo(y.s, m, w)
  BY <1>2, <1>3, <1>10, <1>11 DEF LessM, LessX, LessXY, MapRS, MapRT, Bit
<1>14. On(y.s, {}, M, Z \cup {i.rd})
  BY <1>7, FewerFollows DEF On
<1>15. ASSUME narrow PROVE On(PutLo(y.s, m, w), {}, With(M, i.rd, w), Z)
  <2>1. Takes(y.s, m, i.rd, TRUE)
    BY <1>6, <1>15 DEF Takes
  <2>2. On(PutLo(y.s, m, w), {}, With(M, i.rd, Sext(w)), Z)
    BY <1>1, <1>12, <1>14, <2>1, PutLoOn
  <2>3. QED
    BY <1>12, <2>2
<1>16. ASSUME ~narrow PROVE \E h \in Word : On(PutLo(y.s, m, w), {}, With(M, i.rd, Pair(w, h)), Z)
  <2>1. Takes(y.s, m, i.rd, FALSE)
    BY <1>6, <1>16 DEF Takes
  <2>2. y.s.host[m.hi] \in Word /\ On(PutLo(y.s, m, w), {}, With(M, i.rd, Pair(w, y.s.host[m.hi])), Z)
    BY <1>1, <1>12, <1>14, <2>1, PutLoWide
  <2>3. QED
    BY <2>2
<1>17. QED
  BY <1>11, <1>13, <1>15, <1>16

\* SLT and SLTU: rd becomes 1 or 0 as the interpreter compares the double words,
\* though the code compares words when both are known to be 32-bit.
THEOREM SetLessOn ==
    ASSUME NEW s, NEW M, NEW Z, NEW i, Enters(s, i, M, Z), i.rd # R0,
           Both32(s, i) => IsWord(M.gpr[i.rs]) /\ IsWord(M.gpr[i.rt])
    PROVE  On(SetLess(s, i), {}, With(M, i.rd, Bit(Below(i, M.gpr[i.rs], M.gpr[i.rt]))), Z)
<1>1. /\ On(s, {}, M, Z) /\ Fits(i, Z) /\ Fields(i) /\ Machine(M) /\ {} \subseteq {ECX}
      /\ i.rd \in Reg \ Z /\ i.rs \in Reg \ Z /\ i.rt \in Reg \ Z
      /\ M.gpr[i.rd] \in Double
  BY EntersFacts
<1>2. PICK w : w = Bit(Below(i, M.gpr[i.rs], M.gpr[i.rt]))
  OBVIOUS
<1>3. w \in Word /\ Sext(w) = w
  BY <1>2, Halves
<1>4. PICK is32 \in BOOLEAN : is32 = Both32(s, i)
  BY Truths
<1>5. PICK narrow \in BOOLEAN : narrow = (is32 \/ i.rd \notin {i.rs, i.rt})
  BY <1>4
<1>6. CASE i.rs = i.rt
  <2>1. w = 0
    <3>1. M.gpr[i.rs] \in Double
      BY EntersFacts
    <3>2. ~(M.gpr[i.rs] < M.gpr[i.rs])
      BY <3>1, Cut
    <3>3. ~(SignedD(M.gpr[i.rs]) < SignedD(M.gpr[i.rs]))
      <4>1. 2 ^ (2 * W) \in Int
        BY PowerPositive
      <4>2. SignedD(M.gpr[i.rs]) \in Int
        BY <3>1, <4>1, Cut DEF SignedD
      <4>3. QED
        BY <4>2
    <3>4. QED
      BY <1>2, <1>6, <3>2, <3>3 DEF Bit, Below
  <2>2. On(MapConst(s, i.rd, w), {}, With(M, i.rd, Sext(w)), Z)
    BY <1>1, <1>3, MapConstOn
  <2>3. QED
    BY <1>2, <1>3, <1>6, <2>1, <2>2 DEF SetLess
<1>7. CASE i.rs # i.rt
  <2>1. PICK c : c = IF i.rd \notin {i.rs, i.rt} THEN Define(i.rd, narrow) ELSE Change(i.rd, narrow)
    OBVIOUS
  <2>2. PICK m : m = MapRD(s, i, c)
    OBVIOUS
  <2>3. PICK Y : Y = IF i.rd \notin {i.rs, i.rt} THEN Z \cup {i.rd} ELSE Z
    OBVIOUS
  <2>4. On(m.s, {}, M, Y) /\ Takes(m.s, m, i.rd, narrow)
    <3>1. CASE i.rd \notin {i.rs, i.rt}
      <4>1. Dest(m.s, m, {}, M, Z, i.rd, 1)
        BY <1>1, <1>5, <2>1, <2>2, <3>1, WrittenWord
      <4>2. QED
        BY <1>5, <2>3, <3>1, <4>1 DEF Dest, Takes
    <3>2. CASE i.rd \in {i.rs, i.rt} /\ is32
      <4>1. Held(m.s, m, {}, M, Z, i.rd, Sext(Low(M.gpr[i.rd])), 1)
        BY <1>1, <1>5, <2>1, <2>2, <3>2, WrittenWord
      <4>2. Sext(Low(M.gpr[i.rd])) = M.gpr[i.rd]
        BY <1>1, <1>4, <3>2, AskedDouble
      <4>3. With(M, i.rd, M.gpr[i.rd]) = M
        BY <1>1, WithAgain
      <4>4. QED
        BY <1>5, <2>3, <3>2, <4>1, <4>2, <4>3 DEF Held, Takes
    <3>3. CASE i.rd \in {i.rs, i.rt} /\ ~is32
      <4>1. Held(m.s, m, {}, M, Z, i.rd, M.gpr[i.rd], 2)
        BY <1>1, <1>5, <2>1, <2>2, <3>3, WrittenBoth
      <4>2. With(M, i.rd, M.gpr[i.rd]) = M
        BY <1>1, WithAgain
      <4>3. QED
        BY <1>5, <2>3, <3>3, <4>1, <4>2 DEF Held, Takes
    <3>4. QED
      BY <3>1, <3>2, <3>3
  <2>5. i.rs \notin Y /\ i.rt \notin Y /\ (i.rd \in {i.rs, i.rt} => Y = Z)
    BY <1>1, <2>3
  <2>6. PICK t : t = m.s
    OBVIOUS
  <2>7. PICK u : u = LessM(i, m, is32)
    OBVIOUS
  <2>8. /\ narrow => On(u, {}, With(M, i.rd, w), Z)
        /\ ~narrow => \E h \in Word : On(u, {}, With(M, i.rd, Pair(w, h)), Z)
    BY <1>1, <1>2, <1>4, <1>5, <1>7, <2>3, <2>4, <2>5, <2>7, LessMapped
  <2>9. SetLess(s, i) = IF narrow THEN u ELSE MapRD(u, i, Change(i.rd, TRUE)).s
    BY <1>4, <1>5, <1>7, <2>1, <2>2, <2>7 DEF SetLess
  <2>10. ASSUME ~narrow PROVE On(MapRD(u, i, Change(i.rd, TRUE)).s, {}, With(M, i.rd, w), Z)
    <3>1. PICK h \in Word : On(u, {}, With(M, i.rd, Pair(w, h)), Z)
      BY <2>8, <2>10
    <3>2. PICK N : N = With(M, i.rd, Pair(w, h))
      OBVIOUS
    <3>3. PICK o : o = MapRD(u, i, Change(i.rd, TRUE))
      OBVIOUS
    <3>4. Pair(w, h) \in Double /\ Low(Pair(w, h)) = w /\ w \in Double
      BY <1>3, <3>1, Pairs, Signs
    <3>5. N.gpr[i.rd] = Pair(w, h) /\ With(N, i.rd, w) = With(M, i.rd, w)
      BY <1>1, <3>2, <3>4, TwiceWith
    <3>6. On(u, {}, N, Z)
      BY <3>1, <3>2
    <3>7. Held(o.s, o, {}, N, Z, i.rd, Sext(Low(N.gpr[i.rd])), 1)
      BY <1>1, <3>3, <3>6, WrittenWord
    <3>8. On(o.s, {}, With(N, i.rd, Sext(Low(N.gpr[i.rd]))), Z)
      BY <3>7 DEF Held
    <3>9. QED
      BY <1>3, <3>3, <3>4, <3>5, <3>8
  <2>11. QED
    BY <1>2, <2>8, <2>9, <2>10
<1>8. QED
  BY <1>6, <1>7

\* The immediate, as what a register is compared with.
LEMMA ImmShows ==
    ASSUME NEW s, NEW i, NEW M, NEW Z, Enters(s, i, M, Z), NEW is32 \in BOOLEAN
    PROVE  Shows(Imm(i), Sext(ImmWord(i)), is32)
<1>1. ImmWord(i) \in Word
  BY EntersFacts
<1>2. QED
  BY <1>1, Extended DEF Shows, Imm

\* slti and sltiu with rt the operand.
LEMMA LessOwnOn ==
    ASSUME NEW s, NEW M, NEW Z, NEW i, Enters(s, i, M, Z), i.rt # R0, i.rt = i.rs,
           NEW is32 \in BOOLEAN, is32 => IsWord(M.gpr[i.rs])
    PROVE  On(LessOwn(i, MapRT(s, i, Change(i.rt, is32)), is32), {},
              With(M, i.rt, Bit(Below(i, M.gpr[i.rs], Sext(ImmWord(i))))), Z)
<1>1. /\ On(s, {}, M, Z) /\ Fits(i, Z) /\ Machine(M) /\ {} \subseteq {ECX} /\ i.rt \in Reg /\ M.gpr[i.rt] \in Double
  BY EntersFacts
<1>2. PICK v : v = M.gpr[i.rt]
  OBVIOUS
<1>3. PICK w : w = Bit(Below(i, v, Sext(ImmWord(i))))
  OBVIOUS
<1>4. w \in Word /\ Sext(w) = w /\ Pair(w, 0) = w /\ 0 \in Word
  BY <1>3, Halves, Signs
<1>5. PICK m : m = MapRT(s, i, Change(i.rt, is32))
  OBVIOUS
<1>6. CASE is32
  <2>1. Held(m.s, m, {}, M, Z, i.rt, Sext(Low(v)), 1)
    BY <1>1, <1>2, <1>5, <1>6, WrittenWord
  <2>2. Sext(Low(v)) = v
    BY <1>1, <1>2, <1>6, AskedDouble
  <2>3. Held(m.s, m, {}, M, Z, i.rt, v, 1)
    BY <2>1, <2>2
  <2>4. Shows(Words(m, m.s), v, is32) /\ Shows(Imm(i), Sext(ImmWord(i)), is32)
    <3>1. m.s.host[m.x] = Low(v)
      BY <2>3, HeldWord
    <3>2. QED
      BY <1>1, <1>2, <1>6, <3>1, ImmShows DEF Shows, Words
  <2>5. IsLess(i, Words(m, m.s), Imm(i), is32) <=> Below(i, v, Sext(ImmWord(i)))
    BY <2>4, LessIs
  <2>6. On(PutLo(m.s, m, w), {}, With(M, i.rt, Sext(w)), Z)
    BY <1>4, <2>3, HeldPut
  <2>7. QED
    BY <1>2, <1>3, <1>4, <1>5, <1>6, <2>5, <2>6 DEF LessOwn, Put, PutLo, Bit
<1>7. CASE ~is32
  <2>1. Held(m.s, m, {}, M, Z, i.rt, v, 2)
    BY <1>1, <1>2, <1>5, <1>7, WrittenBoth
  <2>2. Shows(Words(m, m.s), v, is32) /\ Shows(Imm(i), Sext(ImmWord(i)), is32)
    <3>1. m.s.host[m.x] = Low(v) /\ m.s.host[m.hi] = High(v) /\ v \in Double
      BY <2>1, HeldWord DEF Held
    <3>2. QED
      BY <1>7, <3>1, ImmShows DEF Shows, Words
  <2>3. IsLess(i, Words(m, m.s), Imm(i), is32) <=> Below(i, v, Sext(ImmWord(i)))
    BY <2>2, LessIs
  <2>4. Held(Put(m.s, m, w, 0, FALSE), m, {}, M, Z, i.rt, Pair(w, 0), 2)
    BY <1>4, <2>1, PutHeld
  <2>5. On(Put(m.s, m, w, 0, FALSE), {}, With(M, i.rt, w), Z)
    BY <1>4, <2>4 DEF Held
  <2>6. QED
    BY <1>2, <1>3, <1>5, <1>7, <2>3, <2>5 DEF LessOwn, Put, Bit
<1>8. QED
  BY <1>6, <1>7

\* SLTI and SLTIU: rs is compared with the immediate, in one word or in two.
THEOREM SetLessIOn ==
    ASSUME NEW s, NEW M, NEW Z, NEW i, Enters(s, i, M, Z), i.rt # R0,
           CheckIs32Bit(s, i.rs) => IsWord(M.gpr[i.rs])
    PROVE  On(SetLessI(s, i), {}, With(M, i.rt, Bit(Below(i, M.gpr[i.rs], Sext(ImmWord(i))))), Z)
<1>1. /\ On(s, {}, M, Z) /\ Fits(i, Z) /\ Machine(M) /\ {} \subseteq {ECX}
      /\ i.rt \in Reg \ Z /\ i.rs \in Reg \ Z /\ ImmWord(i) \in Word /\ Two({i.rd, i.rt}) /\ i.rt \in {i.rd, i.rt}
  BY EntersFacts
<1>2. PICK v : v = M.gpr[i.rs]
  OBVIOUS
<1>3. PICK w : w = Bit(Below(i, v, Sext(ImmWord(i))))
  OBVIOUS
<1>4. w \in Word /\ Sext(w) = w
  BY <1>3, Halves
<1>5. PICK is32 \in BOOLEAN : is32 = CheckIs32Bit(s, i.rs)
  BY Truths
<1>6. CASE IsConst(s, i.rs)
  <2>1. PICK truth \in BOOLEAN : truth = TRUE
    OBVIOUS
  <2>2. PICK x : x = [lo |-> s.const[i.rs], hi |-> 0]
    OBVIOUS
  <2>3. Shows(x, v, truth)
    <3>1. v \in Double /\ s.const[i.rs] = Low(v) /\ IsWord(v)
      BY <1>1, <1>2, <1>6, ValueOf
    <3>2. QED
      BY <2>1, <2>2, <3>1 DEF Shows
  <2>4. Shows(Imm(i), Sext(ImmWord(i)), truth)
    BY ImmShows
  <2>5. IsLess(i, x, Imm(i), truth) <=> Below(i, v, Sext(ImmWord(i)))
    BY <2>3, <2>4, LessIs
  <2>6. On(MapConst(s, i.rt, w), {}, With(M, i.rt, Sext(w)), Z)
    BY <1>1, <1>4, MapConstOn
  <2>7. IsLess(i, x, Imm(i), TRUE) <=> Below(i, v, Sext(ImmWord(i)))
    BY <2>1, <2>5
  <2>8. SetLessI(s, i) = MapConst(s, i.rt, w)
    BY <1>3, <1>6, <2>2, <2>7 DEF SetLessI, Bit
  <2>9. QED
    BY <1>2, <1>3, <1>4, <2>6, <2>8
<1>7. CASE ~IsConst(s, i.rs) /\ i.rt = i.rs
  <2>1. SetLessI(s, i) = LessOwn(i, MapRT(s, i, Change(i.rt, is32)), is32)
    BY <1>5, <1>7 DEF SetLessI
  <2>2. QED
    BY <1>5, <1>7, <2>1, LessOwnOn
<1>8. CASE ~IsConst(s, i.rs) /\ i.rt # i.rs
  <2>1. PICK m : m = MapRT(s, i, Define(i.rt, TRUE))
    OBVIOUS
  <2>2. Dest(m.s, m, {}, M, Z, i.rt, 1)
    BY <1>1, <1>8, <2>1, WrittenWord
  <2>3. PICK narrow \in BOOLEAN : narrow = TRUE
    OBVIOUS
  <2>4. On(m.s, {}, M, Z \cup {i.rt}) /\ Takes(m.s, m, i.rt, narrow) /\ i.rs \in Reg \ (Z \cup {i.rt})
    BY <1>1, <1>8, <2>2, <2>3 DEF Dest, Takes
  <2>5. PICK x : x = MapRegister(m.s, Want(i.rs, is32), {i.rd, i.rt})
    OBVIOUS
  <2>6. Reads(m.s, x, {}, M, Z \cup {i.rt}, i.rs, is32, {i.rd, i.rt}) /\ Takes(x.s, m, i.rt, narrow)
    BY <1>1, <1>8, <2>4, <2>5, WantBeside
  <2>7. On(x.s, {}, M, Z \cup {i.rt}) /\ Has(x.s, x, i.rs) /\ (~is32 => x.hi # x.x)
    BY <2>6 DEF Reads
  <2>8. Shows(Words(x, x.s), v, is32) /\ Shows(Imm(i), Sext(ImmWord(i)), is32)
    BY <1>2, <1>5, <2>4, <2>7, WordsShow, ImmShows
  <2>9. IsLess(i, Words(x, x.s), Imm(i), is32) <=> Below(i, v, Sext(ImmWord(i)))
    BY <2>8, LessIs
  <2>10. Dest(x.s, m, {}, M, Z, i.rt, 1)
    BY <2>2, <2>3, <2>6, <2>7 DEF Dest, Takes
  <2>11. On(PutLo(x.s, m, w), {}, With(M, i.rt, Sext(w)), Z)
    BY <1>4, <2>10, DestOn
  <2>12. SetLessI(s, i) = PutLo(x.s, m, w)
    BY <1>3, <1>5, <1>8, <2>1, <2>5, <2>9 DEF SetLessI, LessImm, LessImmX, MapRS, Bit
  <2>13. QED
    BY <1>2, <1>3, <1>4, <2>11, <2>12
<1>9. QED
  BY <1>6, <1>7, <1>8

-------------------------------------------------------------------------------
(* The gates                                                                 *)

\* What a gate makes of two words, and of two double words.
Does(g, a, b) == IF g = "nor" THEN Ones - Gated("or", a, b) ELSE Gated(g, a, b)
DoesD(g, a, b) == IF g = "nor" THEN NotD(Gated("or", a, b)) ELSE Gated(g, a, b)

\* A gate works on words as it works on doubles.
LEMMA DoesWords ==
    ASSUME NEW g, NEW a \in Double, NEW b \in Double
    PROVE  /\ Low(a) \in Word /\ Low(b) \in Word /\ High(a) \in Word /\ High(b) \in Word
           /\ Does(g, Low(a), Low(b)) \in Word /\ Does(g, High(a), High(b)) \in Word /\ DoesD(g, a, b) \in Double
           /\ IsWord(a) /\ IsWord(b) => Sext(Does(g, Low(a), Low(b))) = DoesD(g, a, b)
           /\ Pair(Does(g, Low(a), Low(b)), Does(g, High(a), High(b))) = DoesD(g, a, b)
           /\ DoesD(g, a, b) = DoesD(g, b, a)
<1>1. Low(a) \in Word /\ Low(b) \in Word /\ High(a) \in Word /\ High(b) \in Word
      /\ a = Pair(Low(a), High(a)) /\ b = Pair(Low(b), High(b))
  BY Pairs
<1>2. PICK x, y, z, w : x = Low(a) /\ y = Low(b) /\ z = High(a) /\ w = High(b)
  OBVIOUS
<1>3. x \in Word /\ y \in Word /\ z \in Word /\ w \in Word /\ a = Pair(x, z) /\ b = Pair(y, w)
  BY <1>1, <1>2
<1>4. ASSUME NEW o
      PROVE  /\ Gated(o, x, y) \in Word /\ Gated(o, z, w) \in Word
             /\ Gated(o, a, b) = Pair(Gated(o, x, y), Gated(o, z, w)) /\ Gated(o, a, b) = Gated(o, b, a)
             /\ Gated(o, Sext(x), Sext(y)) = Sext(Gated(o, x, y)) /\ Gated(o, a, b) \in Double
  <2>1. Gated(o, x, y) \in Word /\ Gated(o, z, w) \in Word /\ Gated(o, Sext(x), Sext(y)) = Sext(Gated(o, x, y))
    BY <1>3, GatedSext
  <2>2. Gated(o, a, b) = Pair(Gated(o, x, y), Gated(o, z, w))
    BY <1>3, GatedPairs
  <2>3. Gated(o, a, b) = Gated(o, b, a) /\ Gated(o, a, b) \in Double
    BY GatedBits
  <2>4. QED
    BY <2>1, <2>2, <2>3
<1>5. PICK l, h : l = Gated("or", x, y) /\ h = Gated("or", z, w)
  OBVIOUS
<1>6. l \in Word /\ h \in Word /\ Gated("or", a, b) = Pair(l, h) /\ Gated("or", Sext(x), Sext(y)) = Sext(l)
  BY <1>4, <1>5
<1>7. /\ Ones - l \in Word /\ Ones - h \in Word
      /\ NotD(Pair(l, h)) = Pair(Ones - l, Ones - h) /\ NotD(Sext(l)) = Sext(Ones - l)
  BY <1>6, Complements
<1>8. Pair(Ones - l, Ones - h) \in Double
  BY <1>7, Pairs
<1>9. Does(g, x, y) \in Word /\ Does(g, z, w) \in Word /\ DoesD(g, a, b) \in Double
  BY <1>4, <1>5, <1>6, <1>7, <1>8 DEF Does, DoesD
<1>10. DoesD(g, Sext(x), Sext(y)) = Sext(Does(g, x, y))
  BY <1>4, <1>5, <1>6, <1>7 DEF Does, DoesD
<1>11. Pair(Does(g, x, y), Does(g, z, w)) = DoesD(g, a, b)
  BY <1>4, <1>5, <1>6, <1>7 DEF Does, DoesD
<1>12. DoesD(g, a, b) = DoesD(g, b, a)
  BY <1>4 DEF DoesD
<1>13. IsWord(a) /\ IsWord(b) => a = Sext(x) /\ b = Sext(y)
  BY <1>2, Extended
<1>14. QED
  BY <1>1, <1>2, <1>9, <1>10, <1>11, <1>12, <1>13

\* The other operand is combined with the place.
Combined(m, o, g, is32) == Put(o.s, m, Does(g, o.s.host[m.x], o.lo), Does(g, o.s.host[m.hi], o.hi), is32)

\* Combining a place with an operand.
LEMMA CombinedHeld ==
    ASSUME NEW o, NEW m, NEW M, NEW Z, NEW d, NEW u, NEW q, NEW g
    PROVE  /\ Held(o.s, m, {}, M, Z, d, u, 1) /\ GivenWord(o, M, q) /\ IsWord(M.gpr[q])
                => Held(PutLo(o.s, m, Does(g, o.s.host[m.x], o.lo)), m, {}, M, Z, d, DoesD(g, u, M.gpr[q]), 1)
           /\ Held(o.s, m, {}, M, Z, d, u, 2) /\ GivenBoth(o, M, q)
                => Held(Put(o.s, m, Does(g, o.s.host[m.x], o.lo), Does(g, o.s.host[m.hi], o.hi), FALSE), m, {}, M, Z, d,
                        DoesD(g, u, M.gpr[q]), 2)
<1>1. ASSUME Held(o.s, m, {}, M, Z, d, u, 1), GivenWord(o, M, q), IsWord(M.gpr[q])
      PROVE  Held(PutLo(o.s, m, Does(g, o.s.host[m.x], o.lo)), m, {}, M, Z, d, DoesD(g, u, M.gpr[q]), 1)
  <2>1. o.s.host[m.x] = Low(u) /\ IsWord(u)
    BY <1>1, HeldWord
  <2>2. u \in Double /\ M.gpr[q] \in Double /\ o.lo = Low(M.gpr[q])
    BY <1>1 DEF Held, GivenWord
  <2>3. PICK w : w = Does(g, Low(u), Low(M.gpr[q]))
    OBVIOUS
  <2>4. w \in Word /\ Sext(w) = DoesD(g, u, M.gpr[q])
    BY <1>1, <2>1, <2>2, <2>3, DoesWords
  <2>5. Held(PutLo(o.s, m, w), m, {}, M, Z, d, Sext(w), 1)
    BY <1>1, <2>4, HeldPut
  <2>6. QED
    BY <2>1, <2>2, <2>3, <2>4, <2>5
<1>2. ASSUME Held(o.s, m, {}, M, Z, d, u, 2), GivenBoth(o, M, q)
      PROVE  Held(Put(o.s, m, Does(g, o.s.host[m.x], o.lo), Does(g, o.s.host[m.hi], o.hi), FALSE), m, {}, M, Z, d,
                        DoesD(g, u, M.gpr[q]), 2)
  <2>1. o.s.host[m.x] = Low(u) /\ o.s.host[m.hi] = High(u)
    BY <1>2, HeldWord
  <2>2. u \in Double /\ M.gpr[q] \in Double /\ o.lo = Low(M.gpr[q]) /\ o.hi = High(M.gpr[q])
    BY <1>2 DEF Held, GivenBoth
  <2>3. PICK w, h : w = Does(g, Low(u), Low(M.gpr[q])) /\ h = Does(g, High(u), High(M.gpr[q]))
    OBVIOUS
  <2>4. w \in Word /\ h \in Word /\ Pair(w, h) = DoesD(g, u, M.gpr[q])
    BY <2>2, <2>3, DoesWords
  <2>5. Held(Put(o.s, m, w, h, FALSE), m, {}, M, Z, d, Pair(w, h), 2)
    BY <1>2, <2>4, PutHeld
  <2>6. QED
    BY <2>1, <2>2, <2>3, <2>4, <2>5
<1>3. QED
  BY <1>1, <1>2

\* An operand beside a register with a value, one word and two.
LEMMA HeldAlone ==
    ASSUME NEW s, NEW m, NEW M, NEW Z, NEW d, NEW u, NEW q \in Reg, q \notin Z, q # d, NEW keep, Two(keep), d \in keep, NEW o
    PROVE  /\ Held(s, m, {}, M, Z, d, u, 1) /\ FetchedWord(o, s, q, keep)
                => Held(o.s, m, {}, M, Z, d, u, 1) /\ GivenWord(o, M, q)
           /\ Held(s, m, {}, M, Z, d, u, 2) /\ FetchedBoth(o, s, q, keep)
                => Held(o.s, m, {}, M, Z, d, u, 2) /\ GivenBoth(o, M, q)
<1>1. q \in Reg \ Z
  OBVIOUS
<1>2. ASSUME Held(s, m, {}, M, Z, d, u, 1), FetchedWord(o, s, q, keep)
      PROVE  Held(o.s, m, {}, M, Z, d, u, 1) /\ GivenWord(o, M, q)
  BY <1>1, <1>2, WordAlone
<1>3. ASSUME Held(s, m, {}, M, Z, d, u, 2), FetchedBoth(o, s, q, keep)
      PROVE  Held(o.s, m, {}, M, Z, d, u, 2) /\ GivenBoth(o, M, q)
  BY <1>1, <1>3, BothBeside
<1>4. QED
  BY <1>2, <1>3

\* rd is an operand of the gate, q the other one.
LEMMA OntoOn ==
    ASSUME NEW s, NEW M, NEW Z, NEW i, Enters(s, i, M, Z), i.rd # R0, NEW q \in Reg \ Z, q # i.rd,
           NEW is32 \in BOOLEAN, is32 => IsWord(M.gpr[i.rd]) /\ IsWord(M.gpr[q]),
           NEW m, m = MapRD(s, i, Change(i.rd, is32)),
           NEW keep, Two(keep), i.rd \in keep, NEW o, Fetched(o, m.s, q, is32, keep), NEW g
    PROVE  On(Combined(m, o, g, is32), {}, With(M, i.rd, DoesD(g, M.gpr[i.rd], M.gpr[q])), Z)
<1>1. /\ On(s, {}, M, Z) /\ Fits(i, Z) /\ Machine(M) /\ {} \subseteq {ECX} /\ i.rd \in Reg
  BY EntersFacts
<1>2. PICK u : u = M.gpr[i.rd]
  OBVIOUS
<1>3. CASE is32
  <2>1. Held(m.s, m, {}, M, Z, i.rd, Sext(Low(u)), 1)
    BY <1>1, <1>2, <1>3, WrittenWord
  <2>2. Sext(Low(u)) = u
    BY <1>1, <1>2, <1>3, AskedDouble
  <2>3. Held(m.s, m, {}, M, Z, i.rd, u, 1)
    BY <2>1, <2>2
  <2>4. FetchedWord(o, m.s, q, keep)
    BY <1>3 DEF FetchedWord
  <2>5. Held(o.s, m, {}, M, Z, i.rd, u, 1) /\ GivenWord(o, M, q)
    BY <1>1, <2>3, <2>4, WordAlone
  <2>6. Held(PutLo(o.s, m, Does(g, o.s.host[m.x], o.lo)), m, {}, M, Z, i.rd, DoesD(g, u, M.gpr[q]), 1)
    BY <1>3, <2>5, CombinedHeld
  <2>7. On(PutLo(o.s, m, Does(g, o.s.host[m.x], o.lo)), {}, With(M, i.rd, DoesD(g, u, M.gpr[q])), Z)
    BY <2>6 DEF Held
  <2>8. QED
    BY <1>2, <1>3, <2>7 DEF Combined, Put, PutLo
<1>4. CASE ~is32
  <2>1. Held(m.s, m, {}, M, Z, i.rd, u, 2)
    BY <1>1, <1>2, <1>4, WrittenBoth
  <2>2. FetchedBoth(o, m.s, q, keep)
    BY <1>4 DEF FetchedBoth
  <2>3. Held(o.s, m, {}, M, Z, i.rd, u, 2) /\ GivenBoth(o, M, q)
    BY <1>1, <2>1, <2>2, BothBeside
  <2>4. Held(Put(o.s, m, Does(g, o.s.host[m.x], o.lo), Does(g, o.s.host[m.hi], o.hi), FALSE), m, {}, M, Z, i.rd,
             DoesD(g, u, M.gpr[q]), 2)
    BY <2>3, CombinedHeld
  <2>5. On(Put(o.s, m, Does(g, o.s.host[m.x], o.lo), Does(g, o.s.host[m.hi], o.hi), FALSE), {},
           With(M, i.rd, DoesD(g, u, M.gpr[q])), Z)
    BY <2>4 DEF Held
  <2>6. QED
    BY <1>2, <1>4, <2>5 DEF Combined, Put
<1>5. QED
  BY <1>3, <1>4

\* rd is neither operand: rs is moved to it first.
LEMMA FreshOn ==
    ASSUME NEW s, NEW M, NEW Z, NEW i, Enters(s, i, M, Z), i.rd # R0, i.rd # i.rs, i.rd # i.rt,
           NEW is32 \in BOOLEAN, is32 => IsWord(M.gpr[i.rs]) /\ IsWord(M.gpr[i.rt]),
           NEW m, m = MapRD(s, i, DefineBoth(i.rd, is32)),
           NEW a, Fetched(a, m.s, i.rs, is32, {i.rd, i.rt}), NEW t, t = PutBoth(m, a, is32),
           NEW o, Fetched(o, t, i.rt, is32, {i.rd, i.rs}), NEW g
    PROVE  On(Combined(m, o, g, is32), {}, With(M, i.rd, DoesD(g, M.gpr[i.rs], M.gpr[i.rt])), Z)
<1>1. /\ On(s, {}, M, Z) /\ Fits(i, Z) /\ Machine(M) /\ {} \subseteq {ECX}
      /\ i.rd \in Reg /\ i.rs \in Reg \ Z /\ i.rt \in Reg \ Z
      /\ Two({i.rd, i.rs}) /\ Two({i.rd, i.rt}) /\ i.rd \in {i.rd, i.rs} /\ i.rd \in {i.rd, i.rt}
  BY EntersFacts
<1>2. PICK u : u = M.gpr[i.rs]
  OBVIOUS
<1>3. CASE is32
  <2>1. Dest(m.s, m, {}, M, Z, i.rd, 1)
    BY <1>1, <1>3, WrittenWord
  <2>2. FetchedWord(a, m.s, i.rs, {i.rd, i.rt})
    BY <1>3 DEF FetchedWord
  <2>3. Dest(a.s, m, {}, M, Z, i.rd, 1) /\ GivenWord(a, M, i.rs)
    BY <1>1, <2>1, <2>2, WordAlone
  <2>4. PICK w : w = a.lo
    OBVIOUS
  <2>5. w \in Word /\ Sext(w) = u
    BY <1>1, <1>2, <1>3, <2>3, <2>4, AskedDouble DEF GivenWord
  <2>6. t = PutLo(a.s, m, w)
    BY <1>3, <2>4 DEF PutBoth, Put, PutLo
  <2>7. Held(t, m, {}, M, Z, i.rd, Sext(w), 1)
    BY <2>3, <2>5, <2>6, DestOn
  <2>8. Held(t, m, {}, M, Z, i.rd, u, 1)
    BY <2>5, <2>7
  <2>9. FetchedWord(o, t, i.rt, {i.rd, i.rs})
    BY <1>3 DEF FetchedWord
  <2>10. Held(o.s, m, {}, M, Z, i.rd, u, 1) /\ GivenWord(o, M, i.rt)
    BY <1>1, <2>8, <2>9, HeldAlone
  <2>11. Held(PutLo(o.s, m, Does(g, o.s.host[m.x], o.lo)), m, {}, M, Z, i.rd, DoesD(g, u, M.gpr[i.rt]), 1)
    BY <1>3, <2>10, CombinedHeld
  <2>12. On(PutLo(o.s, m, Does(g, o.s.host[m.x], o.lo)), {}, With(M, i.rd, DoesD(g, u, M.gpr[i.rt])), Z)
    BY <2>11 DEF Held
  <2>13. QED
    BY <1>2, <1>3, <2>12 DEF Combined, Put, PutLo
<1>4. CASE ~is32
  <2>1. Dest(m.s, m, {}, M, Z, i.rd, 2)
    BY <1>1, <1>4, WrittenBoth
  <2>2. FetchedBoth(a, m.s, i.rs, {i.rd, i.rt})
    BY <1>4 DEF FetchedBoth
  <2>3. Dest(a.s, m, {}, M, Z, i.rd, 2) /\ GivenBoth(a, M, i.rs)
    BY <1>1, <2>1, <2>2, BothBeside
  <2>4. PICK w, h : w = a.lo /\ h = a.hi
    OBVIOUS
  <2>5. w \in Word /\ h \in Word /\ Pair(w, h) = u
    BY <1>2, <2>3, <2>4, Pairs DEF GivenBoth
  <2>6. t = Put(a.s, m, w, h, FALSE)
    BY <1>4, <2>4 DEF PutBoth, Put
  <2>7. Held(t, m, {}, M, Z, i.rd, Pair(w, h), 2)
    BY <2>3, <2>5, <2>6, PutDest
  <2>8. Held(t, m, {}, M, Z, i.rd, u, 2)
    BY <2>5, <2>7
  <2>9. FetchedBoth(o, t, i.rt, {i.rd, i.rs})
    BY <1>4 DEF FetchedBoth
  <2>10. Held(o.s, m, {}, M, Z, i.rd, u, 2) /\ GivenBoth(o, M, i.rt)
    BY <1>1, <2>8, <2>9, HeldAlone
  <2>11. Held(Put(o.s, m, Does(g, o.s.host[m.x], o.lo), Does(g, o.s.host[m.hi], o.hi), FALSE), m, {}, M, Z, i.rd,
              DoesD(g, u, M.gpr[i.rt]), 2)
    BY <2>10, CombinedHeld
  <2>12. On(Put(o.s, m, Does(g, o.s.host[m.x], o.lo), Does(g, o.s.host[m.hi], o.hi), FALSE), {},
            With(M, i.rd, DoesD(g, u, M.gpr[i.rt])), Z)
    BY <2>11 DEF Held
  <2>13. QED
    BY <1>2, <1>4, <2>12 DEF Combined, Put
<1>5. QED
  BY <1>3, <1>4

\* The gates, by name.
LEMMA GateNames ==
    \A a, b : /\ AndBits(a, b) = Does("and", a, b) /\ OrBits(a, b) = Does("or", a, b)
              /\ XorBits(a, b) = Does("xor", a, b) /\ NorBits(a, b) = Does("nor", a, b)
              /\ (a & b) = Does("and", a, b) /\ (a | b) = Does("or", a, b) /\ (a ^^ b) = Does("xor", a, b)
              /\ (a & b) = DoesD("and", a, b) /\ (a | b) = DoesD("or", a, b) /\ (a ^^ b) = DoesD("xor", a, b)
              /\ NotD(a | b) = DoesD("nor", a, b)
BY GatesAre DEF AndBits, OrBits, XorBits, NorBits, Does, DoesD

\* rd onto one of the operands, or onto neither, for each gate and each way the
\* operands are fetched.
Ontos(s, i, g, is32, q, keep) ==
    LET m == MapRD(s, i, Change(i.rd, is32))
    IN  {Combined(m, Use(m.s, q, is32, keep), g, is32), Combined(m, MapIn(m.s, q, is32, keep), g, is32)}

\* The handlers combine in one of these ways onto an operand's register,
LEMMA OntoNames ==
    ASSUME NEW s, NEW i, NEW is32
    PROVE  /\ OntoRT(s, i, AndBits, is32, MapIn) \in Ontos(s, i, "and", is32, i.rs, {i.rd, i.rt})
           /\ OntoRT(s, i, OrBits, is32, MapIn) \in Ontos(s, i, "or", is32, i.rs, {i.rd, i.rt})
           /\ OntoRT(s, i, XorBits, is32, MapIn) \in Ontos(s, i, "xor", is32, i.rs, {i.rd, i.rt})
           /\ OntoRT(s, i, NorBits, is32, MapIn) \in Ontos(s, i, "nor", is32, i.rs, {i.rd, i.rt})
           /\ OntoRT(s, i, XorBits, is32, Use) \in Ontos(s, i, "xor", is32, i.rs, {i.rd, i.rt})
           /\ OntoRS(s, i, AndBits, is32, Use) \in Ontos(s, i, "and", is32, i.rt, {i.rd, i.rs})
           /\ OntoRS(s, i, OrBits, is32, Use) \in Ontos(s, i, "or", is32, i.rt, {i.rd, i.rs})
           /\ OntoRS(s, i, XorBits, is32, Use) \in Ontos(s, i, "xor", is32, i.rt, {i.rd, i.rs})
           /\ OntoRS(s, i, NorBits, is32, MapIn) \in Ontos(s, i, "nor", is32, i.rt, {i.rd, i.rs})
<1> DEFINE m == MapRD(s, i, Change(i.rd, is32))
<1>1. \A o : /\ GateInto(m, o, AndBits, is32) = Combined(m, o, "and", is32)
             /\ GateInto(m, o, OrBits, is32) = Combined(m, o, "or", is32)
             /\ GateInto(m, o, XorBits, is32) = Combined(m, o, "xor", is32)
             /\ GateInto(m, o, NorBits, is32) = Combined(m, o, "nor", is32)
  BY GateNames DEF GateInto, Combined
<1>2. QED
  BY <1>1 DEF OntoRT, OntoRS, Onto, GateOnto, Ontos

\* which gives rd the value of the gate;
LEMMA OntosOn ==
    ASSUME NEW s, NEW M, NEW Z, NEW i, Enters(s, i, M, Z), i.rd # R0, NEW q \in Reg \ Z, q # i.rd,
           NEW is32 \in BOOLEAN, is32 => IsWord(M.gpr[i.rd]) /\ IsWord(M.gpr[q]),
           NEW keep, Two(keep), i.rd \in keep, NEW g, NEW t \in Ontos(s, i, g, is32, q, keep)
    PROVE  On(t, {}, With(M, i.rd, DoesD(g, M.gpr[i.rd], M.gpr[q])), Z)
<1>1. PICK m : m = MapRD(s, i, Change(i.rd, is32))
  OBVIOUS
<1>2. PICK o : o \in {Use(m.s, q, is32, keep), MapIn(m.s, q, is32, keep)} /\ t = Combined(m, o, g, is32)
  BY <1>1 DEF Ontos
<1>3. Fetched(o, m.s, q, is32, keep)
  BY <1>2 DEF Fetched
<1>4. QED
  BY <1>1, <1>2, <1>3, OntoOn

\* The same when rd is neither.
Freshes(s, i, g, is32) ==
    LET m == MapRD(s, i, DefineBoth(i.rd, is32))
        As == {Use(m.s, i.rs, is32, {i.rd, i.rt}), MapIn(m.s, i.rs, is32, {i.rd, i.rt})}
        Os(t) == {Use(t, i.rt, is32, {i.rd, i.rs}), MapIn(t, i.rt, is32, {i.rd, i.rs})}
    IN  UNION {{Combined(m, o, g, is32) : o \in Os(PutBoth(m, a, is32))} : a \in As}

\* or into a register that is neither operand,
LEMMA FreshNames ==
    ASSUME NEW s, NEW i, NEW is32
    PROVE  /\ Fresh(s, i, AndBits, is32, Use, MapIn) \in Freshes(s, i, "and", is32)
           /\ Fresh(s, i, AndBits, is32, Use, Use) \in Freshes(s, i, "and", is32)
           /\ Fresh(s, i, OrBits, is32, Use, Use) \in Freshes(s, i, "or", is32)
           /\ Fresh(s, i, XorBits, is32, Use, Use) \in Freshes(s, i, "xor", is32)
           /\ Fresh(s, i, NorBits, is32, MapIn, MapIn) \in Freshes(s, i, "nor", is32)
<1> DEFINE m == MapRD(s, i, DefineBoth(i.rd, is32))
<1>1. \A o : /\ GateInto(m, o, AndBits, is32) = Combined(m, o, "and", is32)
             /\ GateInto(m, o, OrBits, is32) = Combined(m, o, "or", is32)
             /\ GateInto(m, o, XorBits, is32) = Combined(m, o, "xor", is32)
             /\ GateInto(m, o, NorBits, is32) = Combined(m, o, "nor", is32)
  BY GateNames DEF GateInto, Combined
<1>2. QED
  BY <1>1 DEF Fresh, FreshRD, FreshRT, Freshes

\* with the same value.
LEMMA FreshesOn ==
    ASSUME NEW s, NEW M, NEW Z, NEW i, Enters(s, i, M, Z), i.rd # R0, i.rd # i.rs, i.rd # i.rt,
           NEW is32 \in BOOLEAN, is32 => IsWord(M.gpr[i.rs]) /\ IsWord(M.gpr[i.rt]),
           NEW g, NEW t \in Freshes(s, i, g, is32)
    PROVE  On(t, {}, With(M, i.rd, DoesD(g, M.gpr[i.rs], M.gpr[i.rt])), Z)
<1>1. PICK m : m = MapRD(s, i, DefineBoth(i.rd, is32))
  OBVIOUS
<1>2. PICK a : a \in {Use(m.s, i.rs, is32, {i.rd, i.rt}), MapIn(m.s, i.rs, is32, {i.rd, i.rt})}
              /\ \E o \in {Use(PutBoth(m, a, is32), i.rt, is32, {i.rd, i.rs}), MapIn(PutBoth(m, a, is32), i.rt, is32, {i.rd, i.rs})} :
                    t = Combined(m, o, g, is32)
  BY <1>1 DEF Freshes
<1>3. PICK u : u = PutBoth(m, a, is32)
  OBVIOUS
<1>4. PICK o : o \in {Use(u, i.rt, is32, {i.rd, i.rs}), MapIn(u, i.rt, is32, {i.rd, i.rs})} /\ t = Combined(m, o, g, is32)
  BY <1>2, <1>3
<1>5. Fetched(a, m.s, i.rs, is32, {i.rd, i.rt}) /\ Fetched(o, u, i.rt, is32, {i.rd, i.rs})
  BY <1>2, <1>4 DEF Fetched
<1>6. QED
  BY <1>1, <1>3, <1>4, <1>5, FreshOn

\* What the compiler knows to be a word is one.
Judges(s, i, M) == \A q \in {i.rs, i.rt} : CheckIs32Bit(s, q) => IsWord(M.gpr[q])

\* Both32 is only true of two sign-extended words.
LEMMA JudgesBoth ==
    ASSUME NEW s, NEW i, NEW M, Judges(s, i, M), NEW is32, is32 = Both32(s, i)
    PROVE  is32 \in BOOLEAN /\ (is32 => IsWord(M.gpr[i.rs]) /\ IsWord(M.gpr[i.rt]))
<1>1. Both32(s, i) \in BOOLEAN
  BY DEF Both32, CheckIs32Bit, IsConst
<1>2. QED
  BY <1>1 DEF Judges, Both32

\* Two constants make one.
LEMMA GateConstOn ==
    ASSUME NEW s, NEW M, NEW Z, NEW i, Enters(s, i, M, Z), i.rd # R0, Const2(s, i), NEW g, g # "nor"
    PROVE  On(MapConst(s, i.rd, Does(g, s.const[i.rs], s.const[i.rt])), {},
              With(M, i.rd, DoesD(g, M.gpr[i.rs], M.gpr[i.rt])), Z)
<1>1. On(s, {}, M, Z) /\ i.rd \in Reg /\ i.rs \in Reg \ Z /\ i.rt \in Reg \ Z
  BY EntersFacts
<1>2. /\ s.const[i.rs] \in Word /\ M.gpr[i.rs] = Sext(s.const[i.rs])
      /\ s.const[i.rt] \in Word /\ M.gpr[i.rt] = Sext(s.const[i.rt])
  BY <1>1, ValueOf DEF Const2
<1>3. PICK a, b : a = s.const[i.rs] /\ b = s.const[i.rt]
  OBVIOUS
<1>4. Does(g, a, b) \in Word /\ DoesD(g, Sext(a), Sext(b)) = Sext(Does(g, a, b))
  BY <1>2, <1>3, GatedSext DEF Does, DoesD
<1>5. On(MapConst(s, i.rd, Does(g, a, b)), {}, With(M, i.rd, Sext(Does(g, a, b))), Z)
  BY <1>1, <1>4, MapConstOn
<1>6. QED
  BY <1>2, <1>3, <1>4, <1>5

\* A gate of rs and rt, in each of the cases.
LEMMA GateCases ==
    ASSUME NEW s, NEW M, NEW Z, NEW i, Enters(s, i, M, Z), i.rd # R0, Judges(s, i, M),
           NEW is32, is32 = Both32(s, i), NEW g, NEW t
    PROVE  /\ i.rd = i.rt /\ i.rs # i.rt /\ t \in Ontos(s, i, g, is32, i.rs, {i.rd, i.rt})
                => On(t, {}, With(M, i.rd, DoesD(g, M.gpr[i.rs], M.gpr[i.rt])), Z)
           /\ i.rd = i.rs /\ i.rd # i.rt /\ t \in Ontos(s, i, g, is32, i.rt, {i.rd, i.rs})
                => On(t, {}, With(M, i.rd, DoesD(g, M.gpr[i.rs], M.gpr[i.rt])), Z)
           /\ i.rd # i.rs /\ i.rd # i.rt /\ t \in Freshes(s, i, g, is32)
                => On(t, {}, With(M, i.rd, DoesD(g, M.gpr[i.rs], M.gpr[i.rt])), Z)
<1>1. /\ i.rs \in Reg \ Z /\ i.rt \in Reg \ Z /\ Two({i.rd, i.rs}) /\ Two({i.rd, i.rt})
      /\ i.rd \in {i.rd, i.rs} /\ i.rd \in {i.rd, i.rt}
      /\ M.gpr[i.rs] \in Double /\ M.gpr[i.rt] \in Double
  BY EntersFacts
<1>2. is32 \in BOOLEAN /\ (is32 => IsWord(M.gpr[i.rs]) /\ IsWord(M.gpr[i.rt]))
  BY JudgesBoth
<1>3. ASSUME i.rd = i.rt, i.rs # i.rt, t \in Ontos(s, i, g, is32, i.rs, {i.rd, i.rt})
      PROVE  On(t, {}, With(M, i.rd, DoesD(g, M.gpr[i.rs], M.gpr[i.rt])), Z)
  <2>1. On(t, {}, With(M, i.rd, DoesD(g, M.gpr[i.rd], M.gpr[i.rs])), Z)
    BY <1>1, <1>2, <1>3, OntosOn
  <2>2. QED
    BY <1>1, <1>3, <2>1, DoesWords
<1>4. ASSUME i.rd = i.rs, i.rd # i.rt, t \in Ontos(s, i, g, is32, i.rt, {i.rd, i.rs})
      PROVE  On(t, {}, With(M, i.rd, DoesD(g, M.gpr[i.rs], M.gpr[i.rt])), Z)
  <2>1. On(t, {}, With(M, i.rd, DoesD(g, M.gpr[i.rd], M.gpr[i.rt])), Z)
    BY <1>1, <1>2, <1>4, OntosOn
  <2>2. QED
    BY <1>4, <2>1
<1>5. ASSUME i.rd # i.rs, i.rd # i.rt, t \in Freshes(s, i, g, is32)
      PROVE  On(t, {}, With(M, i.rd, DoesD(g, M.gpr[i.rs], M.gpr[i.rt])), Z)
  BY <1>2, <1>5, FreshesOn
<1>6. QED
  BY <1>3, <1>4, <1>5

\* AND: rd, whether it is one operand, both or none, becomes what the interpreter
\* computes on double words, in one word or in two.
THEOREM AndOn ==
    ASSUME NEW s, NEW M, NEW Z, NEW i, Enters(s, i, M, Z), i.rd # R0, Judges(s, i, M)
    PROVE  On(dyna4300i_special_and(s, i), {}, With(M, i.rd, DoesD("and", M.gpr[i.rs], M.gpr[i.rt])), Z)
<1>1. /\ On(s, {}, M, Z) /\ Machine(M) /\ i.rd \in Reg /\ M.gpr[i.rd] \in Double
      /\ M.gpr[i.rs] \in Double /\ M.gpr[i.rt] \in Double
  BY EntersFacts
<1>2. PICK is32 : is32 = Both32(s, i)
  OBVIOUS
<1>3. CASE Const2(s, i)
  BY <1>3, GateConstOn, GateNames DEF dyna4300i_special_and
<1>4. CASE ~Const2(s, i) /\ i.rd = i.rt /\ i.rs = i.rt
  <2>1. DoesD("and", M.gpr[i.rs], M.gpr[i.rt]) = M.gpr[i.rd]
    BY <1>1, <1>4, GatedSame DEF DoesD
  <2>2. With(M, i.rd, M.gpr[i.rd]) = M
    BY <1>1, WithAgain
  <2>3. QED
    BY <1>1, <1>4, <2>1, <2>2 DEF dyna4300i_special_and
<1>5. CASE ~Const2(s, i) /\ i.rd = i.rt /\ i.rs # i.rt
  BY <1>2, <1>5, OntoNames, GateCases DEF dyna4300i_special_and
<1>6. CASE ~Const2(s, i) /\ i.rd # i.rt /\ i.rd = i.rs
  BY <1>2, <1>6, OntoNames, GateCases DEF dyna4300i_special_and
<1>7. CASE ~Const2(s, i) /\ i.rd # i.rt /\ i.rd # i.rs
  BY <1>2, <1>7, FreshNames, GateCases DEF dyna4300i_special_and
<1>8. QED
  BY <1>3, <1>4, <1>5, <1>6, <1>7

\* OR: the same.
THEOREM OrOn ==
    ASSUME NEW s, NEW M, NEW Z, NEW i, Enters(s, i, M, Z), i.rd # R0, Judges(s, i, M)
    PROVE  On(dyna4300i_special_or(s, i), {}, With(M, i.rd, DoesD("or", M.gpr[i.rs], M.gpr[i.rt])), Z)
<1>1. /\ On(s, {}, M, Z) /\ Machine(M) /\ i.rd \in Reg /\ M.gpr[i.rd] \in Double
      /\ M.gpr[i.rs] \in Double /\ M.gpr[i.rt] \in Double
  BY EntersFacts
<1>2. PICK is32 : is32 = Both32(s, i)
  OBVIOUS
<1>3. CASE Const2(s, i)
  BY <1>3, GateConstOn, GateNames DEF dyna4300i_special_or
<1>4. CASE ~Const2(s, i) /\ i.rd = i.rt /\ i.rs = i.rt
  <2>1. DoesD("or", M.gpr[i.rs], M.gpr[i.rt]) = M.gpr[i.rd]
    BY <1>1, <1>4, GatedSame DEF DoesD
  <2>2. With(M, i.rd, M.gpr[i.rd]) = M
    BY <1>1, WithAgain
  <2>3. QED
    BY <1>1, <1>4, <2>1, <2>2 DEF dyna4300i_special_or
<1>5. CASE ~Const2(s, i) /\ i.rd = i.rt /\ i.rs # i.rt
  BY <1>2, <1>5, OntoNames, GateCases DEF dyna4300i_special_or
<1>6. CASE ~Const2(s, i) /\ i.rd # i.rt /\ i.rd = i.rs
  BY <1>2, <1>6, OntoNames, GateCases DEF dyna4300i_special_or
<1>7. CASE ~Const2(s, i) /\ i.rd # i.rt /\ i.rd # i.rs
  BY <1>2, <1>7, FreshNames, GateCases DEF dyna4300i_special_or
<1>8. QED
  BY <1>3, <1>4, <1>5, <1>6, <1>7

\* The complement of rd, when it is both operands of nor.
LEMMA NotOn ==
    ASSUME NEW s, NEW M, NEW Z, NEW i, Enters(s, i, M, Z), i.rd # R0,
           NEW is32 \in BOOLEAN, is32 => IsWord(M.gpr[i.rd]),
           NEW m, m = MapRD(s, i, Change(i.rd, is32))
    PROVE  On(Not(m, is32), {}, With(M, i.rd, NotD(M.gpr[i.rd])), Z)
<1>1. /\ On(s, {}, M, Z) /\ Fits(i, Z) /\ Machine(M) /\ {} \subseteq {ECX} /\ i.rd \in Reg /\ M.gpr[i.rd] \in Double
  BY EntersFacts
<1>2. PICK u : u = M.gpr[i.rd]
  OBVIOUS
<1>3. CASE is32
  <2>1. Held(m.s, m, {}, M, Z, i.rd, Sext(Low(u)), 1)
    BY <1>1, <1>2, <1>3, WrittenWord
  <2>2. Sext(Low(u)) = u /\ Low(u) \in Word
    BY <1>1, <1>2, <1>3, AskedDouble
  <2>3. Held(m.s, m, {}, M, Z, i.rd, u, 1)
    BY <2>1, <2>2
  <2>4. m.s.host[m.x] = Low(u)
    BY <2>3, HeldWord
  <2>5. Ones - Low(u) \in Word /\ Sext(Ones - Low(u)) = NotD(u)
    BY <2>2, Complements
  <2>6. On(PutLo(m.s, m, Ones - Low(u)), {}, With(M, i.rd, Sext(Ones - Low(u))), Z)
    BY <2>3, <2>5, HeldPut
  <2>7. QED
    BY <1>2, <1>3, <2>4, <2>5, <2>6 DEF Not, Put, PutLo
<1>4. CASE ~is32
  <2>1. Held(m.s, m, {}, M, Z, i.rd, u, 2)
    BY <1>1, <1>2, <1>4, WrittenBoth
  <2>2. /\ m.s.host[m.x] = Low(u) /\ m.s.host[m.hi] = High(u) /\ Low(u) \in Word /\ High(u) \in Word
    BY <2>1, HeldWord
  <2>3. Ones - Low(u) \in Word /\ Ones - High(u) \in Word
    BY <2>2, Complements
  <2>4. Pair(Ones - Low(u), Ones - High(u)) = NotD(u)
    BY <1>1, <1>2, <2>2, Complements, Pairs
  <2>5. Held(Put(m.s, m, Ones - Low(u), Ones - High(u), FALSE), m, {}, M, Z, i.rd, Pair(Ones - Low(u), Ones - High(u)), 2)
    BY <2>1, <2>3, PutHeld
  <2>6. On(Put(m.s, m, Ones - Low(u), Ones - High(u), FALSE), {}, With(M, i.rd, Pair(Ones - Low(u), Ones - High(u))), Z)
    BY <2>5 DEF Held
  <2>7. QED
    BY <1>2, <1>4, <2>2, <2>4, <2>6 DEF Not, Put
<1>5. QED
  BY <1>3, <1>4

\* NOR: the same.
THEOREM NorOn ==
    ASSUME NEW s, NEW M, NEW Z, NEW i, Enters(s, i, M, Z), i.rd # R0, Judges(s, i, M)
    PROVE  On(dyna4300i_special_nor(s, i), {}, With(M, i.rd, DoesD("nor", M.gpr[i.rs], M.gpr[i.rt])), Z)
<1>1. M.gpr[i.rd] \in Double
  BY EntersFacts
<1>2. PICK is32 : is32 = Both32(s, i)
  OBVIOUS
<1>3. is32 \in BOOLEAN /\ (is32 => IsWord(M.gpr[i.rs]) /\ IsWord(M.gpr[i.rt]))
  BY <1>2, JudgesBoth
<1>4. CASE i.rd = i.rt /\ i.rs = i.rt
  <2>1. DoesD("nor", M.gpr[i.rs], M.gpr[i.rt]) = NotD(M.gpr[i.rd])
    BY <1>1, <1>4, GatedSame DEF DoesD
  <2>2. On(Not(MapRD(s, i, Change(i.rd, is32)), is32), {}, With(M, i.rd, NotD(M.gpr[i.rd])), Z)
    BY <1>3, <1>4, NotOn
  <2>3. QED
    BY <1>2, <1>4, <2>1, <2>2 DEF dyna4300i_special_nor
<1>5. CASE i.rd = i.rt /\ i.rs # i.rt
  BY <1>2, <1>5, OntoNames, GateCases DEF dyna4300i_special_nor
<1>6. CASE i.rd # i.rt /\ i.rd = i.rs
  BY <1>2, <1>6, OntoNames, GateCases DEF dyna4300i_special_nor
<1>7. CASE i.rd # i.rt /\ i.rd # i.rs
  BY <1>2, <1>7, FreshNames, GateCases DEF dyna4300i_special_nor
<1>8. QED
  BY <1>4, <1>5, <1>6, <1>7

\* A word that is not negative has no upper half.
LEMMA PlainSext ==
    ASSUME NEW c \in Word, ~Negative(c)
    PROVE  SignOf(c) = 0 /\ Sext(c) = Pair(c, 0) /\ Sext(c) \in Double
<1>1. SignOf(c) = 0
  BY DEF SignOf
<1>2. Sext(c) \in Double /\ Low(Sext(c)) = c /\ High(Sext(c)) = SignOf(c)
  BY Extended
<1>3. QED
  BY <1>1, <1>2, Pairs

\* A gate with such a word leaves the upper half as it is.
LEMMA GateLowHeld ==
    ASSUME NEW m, NEW M, NEW Z, NEW d, NEW u, NEW c \in Word, NEW g, g \in {"or", "xor"}
    PROVE  /\ Held(m.s, m, {}, M, Z, d, u, 1)
                => On(PutLo(m.s, m, Gated(g, Low(u), c)), {}, With(M, d, Gated(g, u, Sext(c))), Z)
           /\ Held(m.s, m, {}, M, Z, d, u, 2) /\ ~Negative(c)
                => On(PutLo(m.s, m, Gated(g, Low(u), c)), {}, With(M, d, Gated(g, u, Sext(c))), Z)
<1>1. ASSUME Held(m.s, m, {}, M, Z, d, u, 1)
      PROVE  On(PutLo(m.s, m, Gated(g, Low(u), c)), {}, With(M, d, Gated(g, u, Sext(c))), Z)
  <2>1. Low(u) \in Word /\ IsWord(u)
    BY <1>1, HeldWord
  <2>2. u = Sext(Low(u))
    BY <1>1, <2>1, Extended DEF Held
  <2>3. Gated(g, Low(u), c) \in Word /\ Gated(g, Sext(Low(u)), Sext(c)) = Sext(Gated(g, Low(u), c))
    BY <2>1, GatedSext
  <2>4. On(PutLo(m.s, m, Gated(g, Low(u), c)), {}, With(M, d, Sext(Gated(g, Low(u), c))), Z)
    BY <1>1, <2>3, HeldPut
  <2>5. QED
    BY <2>2, <2>3, <2>4
<1>2. ASSUME Held(m.s, m, {}, M, Z, d, u, 2), ~Negative(c)
      PROVE  On(PutLo(m.s, m, Gated(g, Low(u), c)), {}, With(M, d, Gated(g, u, Sext(c))), Z)
  <2>1. /\ Low(u) \in Word /\ High(u) \in Word /\ m.s.host[m.hi] = High(u) /\ Dest(m.s, m, {}, M, Z, d, 2)
    BY <1>2, HeldWord
  <2>2. u = Pair(Low(u), High(u))
    BY <1>2, Pairs DEF Held
  <2>3. Sext(c) = Pair(c, 0) /\ 0 \in Word /\ High(u) \in Double
    BY <1>2, <2>1, PlainSext, Signs
  <2>4. Gated(g, Pair(Low(u), High(u)), Pair(c, 0)) = Pair(Gated(g, Low(u), c), Gated(g, High(u), 0))
    BY <2>1, <2>3, GatedPairs
  <2>5. Gated(g, High(u), 0) = High(u)
    BY <2>3, GatedSame
  <2>6. Gated(g, Low(u), c) \in Word
    BY <2>1, GatedSext
  <2>7. PICK no \in BOOLEAN : no = FALSE
    OBVIOUS
  <2>8. On(m.s, {}, M, Z \cup {d}) /\ Takes(m.s, m, d, no) /\ d \in Reg /\ d # R0 /\ Machine(M)
    BY <2>1, <2>7 DEF Dest, Takes
  <2>9. On(PutLo(m.s, m, Gated(g, Low(u), c)), {}, With(M, d, Pair(Gated(g, Low(u), c), m.s.host[m.hi])), Z)
    BY <2>6, <2>7, <2>8, PutLoWide DEF Takes
  <2>10. QED
    BY <2>1, <2>2, <2>3, <2>4, <2>5, <2>9
<1>3. QED
  BY <1>1, <1>2

\* XOR: the same, unless rd is rt and rs a negative constant (dynaCPU.c:4950).
THEOREM XorOn ==
    ASSUME NEW s, NEW M, NEW Z, NEW i, Enters(s, i, M, Z), i.rd # R0, Judges(s, i, M),
           ~(i.rd = i.rt /\ IsConst(s, i.rs) /\ ~Both32(s, i) /\ Negative(s.const[i.rs]))
    PROVE  On(dyna4300i_special_xor(s, i), {}, With(M, i.rd, DoesD("xor", M.gpr[i.rs], M.gpr[i.rt])), Z)
<1>1. /\ On(s, {}, M, Z) /\ Fits(i, Z) /\ Machine(M) /\ {} \subseteq {ECX} /\ i.rd \in Reg /\ M.gpr[i.rd] \in Double
      /\ M.gpr[i.rs] \in Double /\ M.gpr[i.rt] \in Double /\ i.rs \in Reg \ Z
  BY EntersFacts
<1>2. PICK is32 : is32 = Both32(s, i)
  OBVIOUS
<1>3. is32 \in BOOLEAN /\ (is32 => IsWord(M.gpr[i.rs]) /\ IsWord(M.gpr[i.rt]))
  BY <1>2, JudgesBoth
<1>4. CASE Const2(s, i)
  BY <1>4, GateConstOn, GateNames DEF dyna4300i_special_xor
<1>5. CASE ~Const2(s, i) /\ i.rs = i.rt
  <2>1. DoesD("xor", M.gpr[i.rs], M.gpr[i.rt]) = 0
    BY <1>1, <1>5, GatedSame DEF DoesD
  <2>2. On(MapConst(s, i.rd, 0), {}, With(M, i.rd, Sext(0)), Z) /\ Sext(0) = 0
    BY <1>1, MapConstOn, Signs, Extended
  <2>3. QED
    BY <1>5, <2>1, <2>2 DEF dyna4300i_special_xor
<1>6. CASE ~Const2(s, i) /\ i.rs # i.rt /\ i.rd = i.rt /\ IsConst(s, i.rs)
  <2>1. PICK m : m = MapRD(s, i, Change(i.rd, is32))
    OBVIOUS
  <2>2. PICK c, u : c = s.const[i.rs] /\ u = M.gpr[i.rd]
    OBVIOUS
  <2>3. c \in Word /\ M.gpr[i.rs] = Sext(c)
    BY <1>1, <1>6, <2>2, ValueOf
  <2>4. DoesD("xor", M.gpr[i.rs], M.gpr[i.rt]) = Gated("xor", u, Sext(c))
    <3>1. M.gpr[i.rt] = u /\ u \in Double /\ Sext(c) \in Double
      BY <1>1, <1>6, <2>2, <2>3
    <3>2. DoesD("xor", u, Sext(c)) = DoesD("xor", Sext(c), u)
      BY <3>1, DoesWords
    <3>3. QED
      BY <2>3, <3>1, <3>2 DEF DoesD
  <2>5. CASE is32
    <3>1. Held(m.s, m, {}, M, Z, i.rd, Sext(Low(u)), 1) /\ Sext(Low(u)) = u
      BY <1>1, <1>3, <1>6, <2>1, <2>2, <2>5, WrittenWord, AskedDouble
    <3>2. Held(m.s, m, {}, M, Z, i.rd, u, 1)
      BY <3>1
    <3>3. On(PutLo(m.s, m, Gated("xor", Low(u), c)), {}, With(M, i.rd, Gated("xor", u, Sext(c))), Z)
      BY <2>3, <3>2, GateLowHeld
    <3>4. Own(m) = Low(u)
      BY <3>2, HeldWord DEF Own
    <3>5. dyna4300i_special_xor(s, i) = PutLo(m.s, m, Gated("xor", Low(u), c))
      BY <1>2, <1>6, <2>1, <2>2, <2>5, <3>4, GatesAre DEF dyna4300i_special_xor, XorConstOntoRT, XorConst
    <3>6. QED
      BY <2>4, <3>3, <3>5
  <2>6. CASE ~is32
    <3>1. Held(m.s, m, {}, M, Z, i.rd, u, 2)
      BY <1>1, <1>3, <1>6, <2>1, <2>2, <2>6, WrittenBoth
    <3>2. ~Negative(c)
      BY <1>2, <1>6, <2>2, <2>6
    <3>3. On(PutLo(m.s, m, Gated("xor", Low(u), c)), {}, With(M, i.rd, Gated("xor", u, Sext(c))), Z)
      BY <2>3, <3>1, <3>2, GateLowHeld
    <3>4. Own(m) = Low(u) /\ Low(u) \in Word
      BY <3>1, HeldWord DEF Own
    <3>5. Gated("xor", Gated("xor", Low(u), c), SignOf(c)) = Gated("xor", Low(u), c)
      <4>1. Gated("xor", Low(u), c) \in Word
        BY <2>3, <3>4, GatedSext
      <4>2. Gated("xor", Low(u), c) \in Double /\ SignOf(c) = 0
        BY <2>3, <3>2, <4>1, Signs, PlainSext
      <4>3. QED
        BY <4>2, GatedSame
    <3>6. dyna4300i_special_xor(s, i) = PutLo(m.s, m, Gated("xor", Gated("xor", Low(u), c), SignOf(c)))
      BY <1>2, <1>6, <2>1, <2>2, <2>6, <3>4, GatesAre DEF dyna4300i_special_xor, XorConstOntoRT, XorConst
    <3>7. QED
      BY <2>4, <3>3, <3>5, <3>6
  <2>7. QED
    BY <2>5, <2>6
<1>7. CASE ~Const2(s, i) /\ i.rs # i.rt /\ i.rd = i.rt /\ ~IsConst(s, i.rs)
  BY <1>2, <1>7, OntoNames, GateCases DEF dyna4300i_special_xor
<1>8. CASE ~Const2(s, i) /\ i.rs # i.rt /\ i.rd # i.rt /\ i.rd = i.rs
  BY <1>2, <1>8, OntoNames, GateCases DEF dyna4300i_special_xor
<1>9. CASE ~Const2(s, i) /\ i.rs # i.rt /\ i.rd # i.rt /\ i.rd # i.rs
  BY <1>2, <1>9, FreshNames, GateCases DEF dyna4300i_special_xor
<1>10. QED
  BY <1>4, <1>5, <1>6, <1>7, <1>8, <1>9

-------------------------------------------------------------------------------
(* Gates with an immediate                                                   *)

\* A request for rt leaves the constants of the others.
LEMMA RTKeepsConst ==
    ASSUME NEW s, NEW M, NEW Z, On(s, {}, M, Z), NEW i, Fields(i), NEW q \in Reg, q # i.rt
    PROVE  /\ MapRT(s, i, Define(i.rt, TRUE)).s.const[q] = s.const[q]
           /\ MapRT(s, i, DefineBoth(i.rt, TRUE)).s.const[q] = s.const[q]
           /\ MapRT(s, i, DefineBoth(i.rt, FALSE)).s.const[q] = s.const[q]
<1>1. Two({i.rd, i.rs}) /\ i.rt \in Reg
  BY Operands2 DEF Fields
<1>2. /\ Writes(s, MapRegister(s, Define(i.rt, TRUE), {i.rd, i.rs}), {}, M, Z \cup {i.rt}, i.rt, TRUE, {i.rd, i.rs})
      /\ Writes(s, MapRegister(s, DefineBoth(i.rt, TRUE), {i.rd, i.rs}), {}, M, Z \cup {i.rt}, i.rt, TRUE, {i.rd, i.rs})
  BY <1>1, DefineOn
<1>3. Writes(s, MapRegister(s, DefineBoth(i.rt, FALSE), {i.rd, i.rs}), {}, M, Z \cup {i.rt}, i.rt, FALSE, {i.rd, i.rs})
  BY <1>1, DefineOn
<1>4. QED
  BY <1>2, <1>3 DEF Writes, Beside, MapRT

\* The immediate of ori, xori and andi is a word that is not negative.
LEMMA ImmPlain ==
    ASSUME NEW i, i.imm \in 0 .. 2 ^ Half - 1
    PROVE  /\ i.imm \in Word /\ i.imm \in Double /\ ~Negative(i.imm) /\ Sext(i.imm) = i.imm /\ Pair(i.imm, 0) = i.imm
<1>1. i.imm \in Nat /\ i.imm < 2 ^ (W - 1)
  <2>1. PICK a : a = 2 ^ (Half - 1)
    OBVIOUS
  <2>2. PICK b : b = 2 ^ Half
    OBVIOUS
  <2>3. a \in Nat \ {0} /\ b \in Nat \ {0} /\ 2 ^ (W - 1) = b * a
    BY <2>1, <2>2, Widths
  <2>4. PICK c : c = b * a
    OBVIOUS
  <2>5. c >= b
    <3>1. b * 1 <= b * a
      BY <2>3
    <3>2. QED
      BY <2>3, <2>4, <3>1
  <2>6. QED
    BY <2>2, <2>3, <2>4, <2>5
<1>2. i.imm \in Word /\ i.imm \in Double /\ Sext(i.imm) = i.imm /\ ~Negative(i.imm)
  BY <1>1, Plainly
<1>3. QED
  BY <1>2, PlainSext

\* ANDI: rt becomes rs and the immediate, which is not sign-extended.
THEOREM AndiOn ==
    ASSUME NEW s, NEW M, NEW Z, NEW i, Enters(s, i, M, Z), i.rt # R0
    PROVE  On(dyna4300i_andi(s, i), {}, With(M, i.rt, M.gpr[i.rs] & i.imm), Z)
<1>1. /\ On(s, {}, M, Z) /\ Fits(i, Z) /\ Fields(i) /\ Machine(M) /\ {} \subseteq {ECX}
      /\ i.rd \in Reg \ Z /\ i.rs \in Reg \ Z /\ i.rt \in Reg \ Z /\ M.gpr[i.rs] \in Double
      /\ Two({i.rd, i.rt}) /\ i.rt \in {i.rd, i.rt} /\ i.imm \in 0 .. 2 ^ Half - 1
  BY EntersFacts
<1>2. PICK u, w : u = M.gpr[i.rs] /\ w = (Low(u) & i.imm)
  OBVIOUS
<1>3. /\ Low(u) \in Word /\ w \in Word /\ (u & i.imm) = w /\ Sext(w) = w
  BY <1>1, <1>2, AndLow
<1>4. CASE IsConst(s, i.rs)
  <2>1. Low(u) = s.const[i.rs]
    BY <1>1, <1>2, <1>4, ValueOf
  <2>2. On(MapConst(s, i.rt, w), {}, With(M, i.rt, Sext(w)), Z)
    BY <1>1, <1>3, MapConstOn
  <2>3. QED
    BY <1>2, <1>3, <1>4, <2>1, <2>2 DEF dyna4300i_andi
<1>5. CASE ~IsConst(s, i.rs) /\ i.rs = i.rt
  <2>1. PICK m : m = MapRT(s, i, Change(i.rt, TRUE))
    OBVIOUS
  <2>2. Held(m.s, m, {}, M, Z, i.rt, Sext(Low(u)), 1)
    BY <1>1, <1>2, <1>5, <2>1, WrittenWord
  <2>3. Own(m) = Low(u)
    BY <1>1, <1>3, <2>2, DoubledOn
  <2>4. On(PutLo(m.s, m, w), {}, With(M, i.rt, Sext(w)), Z)
    BY <1>3, <2>2, HeldPut
  <2>5. QED
    BY <1>2, <1>3, <1>5, <2>1, <2>3, <2>4 DEF dyna4300i_andi, AndOwn
<1>6. CASE ~IsConst(s, i.rs) /\ i.rs # i.rt
  <2>1. PICK m : m = MapRT(s, i, Define(i.rt, TRUE))
    OBVIOUS
  <2>2. Dest(m.s, m, {}, M, Z, i.rt, 1)
    BY <1>1, <2>1, WrittenWord
  <2>3. PICK o : o = MapTo(m.s, i.rs, TRUE, {i.rd, i.rt})
    OBVIOUS
  <2>4. ~IsConst(m.s, i.rs)
    <3>1. m.s.const[i.rs] = s.const[i.rs]
      BY <1>1, <1>6, <2>1, RTKeepsConst
    <3>2. QED
      BY <1>6, <3>1 DEF IsConst
  <2>5. FetchedWord(o, m.s, i.rs, {i.rd, i.rt})
    BY <2>3, <2>4 DEF FetchedWord, Fetched
  <2>6. Dest(o.s, m, {}, M, Z, i.rt, 1) /\ GivenWord(o, M, i.rs)
    BY <1>1, <1>6, <2>2, <2>5, WordAlone
  <2>7. o.lo = Low(u)
    BY <1>2, <2>6 DEF GivenWord
  <2>8. On(PutLo(o.s, m, w), {}, With(M, i.rt, Sext(w)), Z)
    BY <1>3, <2>6, DestOn
  <2>9. QED
    BY <1>2, <1>3, <1>6, <2>1, <2>3, <2>7, <2>8 DEF dyna4300i_andi, AndRS, AndInto
<1>7. QED
  BY <1>4, <1>5, <1>6

\* lui.
LEMMA LuiOn ==
    ASSUME NEW s, NEW M, NEW Z, NEW i, Enters(s, i, M, Z), i.rt # R0
    PROVE  On(dyna4300i_lui(s, i), {}, With(M, i.rt, Sext(i.imm * 2 ^ Half)), Z)
<1>1. On(s, {}, M, Z) /\ i.rt \in Reg /\ i.imm \in 0 .. 2 ^ Half - 1
  BY EntersFacts
<1>2. i.imm * 2 ^ Half \in Word
  BY <1>1, Immediates
<1>3. QED
  BY <1>1, <1>2, MapConstOn DEF dyna4300i_lui

\* ori and xori: rs is not rt,
GateAside(s, i, g, is32) ==
    LET m == MapRT(s, i, DefineBoth(i.rt, is32))
        o == MapTo(m.s, i.rs, is32, {i.rd, i.rt})
    IN  Put(o.s, m, Gated(g, o.lo, i.imm), o.hi, is32)

\* A gate with an immediate, from another register,
LEMMA GateAsideOn ==
    ASSUME NEW s, NEW M, NEW Z, NEW i, Enters(s, i, M, Z), i.rt # R0, i.rs # i.rt, ~IsConst(s, i.rs),
           NEW is32 \in BOOLEAN, is32 => IsWord(M.gpr[i.rs]), NEW g, g \in {"or", "xor"}
    PROVE  On(GateAside(s, i, g, is32), {}, With(M, i.rt, Gated(g, M.gpr[i.rs], i.imm)), Z)
<1>1. /\ On(s, {}, M, Z) /\ Fits(i, Z) /\ Fields(i) /\ Machine(M) /\ {} \subseteq {ECX}
      /\ i.rs \in Reg \ Z /\ i.rs \in Reg /\ i.rs \notin Z /\ i.rt \in Reg /\ M.gpr[i.rs] \in Double
      /\ Two({i.rd, i.rt}) /\ i.rt \in {i.rd, i.rt} /\ i.imm \in 0 .. 2 ^ Half - 1
  BY EntersFacts
<1>2. PICK u, c : u = M.gpr[i.rs] /\ c = i.imm
  OBVIOUS
<1>3. /\ c \in Word /\ c \in Double /\ Sext(c) = c /\ Pair(c, 0) = c /\ 0 \in Word
      /\ Low(u) \in Word /\ High(u) \in Word /\ u = Pair(Low(u), High(u))
  BY <1>1, <1>2, ImmPlain, Pairs, Signs
<1>4. Gated(g, Low(u), c) \in Word
  BY <1>3, GatedSext
<1>5. CASE is32
  <2>1. PICK m : m = MapRT(s, i, DefineBoth(i.rt, TRUE))
    OBVIOUS
  <2>2. Dest(m.s, m, {}, M, Z, i.rt, 1)
    BY <1>1, <2>1, WrittenWord
  <2>3. PICK o : o = MapTo(m.s, i.rs, TRUE, {i.rd, i.rt})
    OBVIOUS
  <2>4. ~IsConst(m.s, i.rs)
    <3>1. m.s.const[i.rs] = s.const[i.rs]
      BY <1>1, <2>1, RTKeepsConst
    <3>2. QED
      BY <3>1 DEF IsConst
  <2>5. FetchedWord(o, m.s, i.rs, {i.rd, i.rt})
    BY <2>3, <2>4 DEF FetchedWord, Fetched
  <2>6. Dest(o.s, m, {}, M, Z, i.rt, 1) /\ GivenWord(o, M, i.rs)
    BY <1>1, <2>2, <2>5, WordAlone
  <2>7. o.lo = Low(u)
    BY <1>2, <2>6 DEF GivenWord
  <2>8. On(PutLo(o.s, m, Gated(g, Low(u), c)), {}, With(M, i.rt, Sext(Gated(g, Low(u), c))), Z)
    BY <1>4, <2>6, DestOn
  <2>9. Sext(Gated(g, Low(u), c)) = Gated(g, u, c)
    <3>1. u = Sext(Low(u))
      BY <1>1, <1>2, <1>5, Extended
    <3>2. QED
      BY <1>3, <3>1, GatedSext
  <2>10. GateAside(s, i, g, is32) = PutLo(o.s, m, Gated(g, Low(u), c))
    BY <1>2, <1>5, <2>1, <2>3, <2>7 DEF GateAside, Put, PutLo
  <2>11. QED
    BY <1>2, <2>8, <2>9, <2>10
<1>6. CASE ~is32
  <2>1. PICK m : m = MapRT(s, i, DefineBoth(i.rt, FALSE))
    OBVIOUS
  <2>2. Dest(m.s, m, {}, M, Z, i.rt, 2)
    BY <1>1, <2>1, WrittenBoth
  <2>3. PICK o : o = MapTo(m.s, i.rs, FALSE, {i.rd, i.rt})
    OBVIOUS
  <2>4. ~IsConst(m.s, i.rs)
    <3>1. m.s.const[i.rs] = s.const[i.rs]
      BY <1>1, <2>1, RTKeepsConst
    <3>2. QED
      BY <3>1 DEF IsConst
  <2>5. FetchedBoth(o, m.s, i.rs, {i.rd, i.rt})
    BY <2>3, <2>4 DEF FetchedBoth, Fetched
  <2>6. Dest(o.s, m, {}, M, Z, i.rt, 2) /\ GivenBoth(o, M, i.rs)
    BY <1>1, <2>2, <2>5, BothBeside
  <2>7. o.lo = Low(u) /\ o.hi = High(u)
    BY <1>2, <2>6 DEF GivenBoth
  <2>8. Held(Put(o.s, m, Gated(g, Low(u), c), High(u), FALSE), m, {}, M, Z, i.rt, Pair(Gated(g, Low(u), c), High(u)), 2)
    BY <1>3, <1>4, <2>6, PutDest
  <2>9. On(Put(o.s, m, Gated(g, Low(u), c), High(u), FALSE), {}, With(M, i.rt, Pair(Gated(g, Low(u), c), High(u))), Z)
    BY <2>8 DEF Held
  <2>10. Pair(Gated(g, Low(u), c), High(u)) = Gated(g, u, c)
    <3>1. Gated(g, Pair(Low(u), High(u)), Pair(c, 0)) = Pair(Gated(g, Low(u), c), Gated(g, High(u), 0))
      BY <1>3, GatedPairs
    <3>2. Gated(g, High(u), 0) = High(u)
      BY <1>3, Signs, GatedSame
    <3>3. QED
      BY <1>3, <3>1, <3>2
  <2>11. GateAside(s, i, g, is32) = Put(o.s, m, Gated(g, Low(u), c), High(u), FALSE)
    BY <1>2, <1>6, <2>1, <2>3, <2>7 DEF GateAside, Put
  <2>12. QED
    BY <1>2, <2>9, <2>10, <2>11
<1>7. QED
  BY <1>5, <1>6

\* or it is.
LEMMA GateOwnOn ==
    ASSUME NEW s, NEW M, NEW Z, NEW i, Enters(s, i, M, Z), i.rt # R0, i.rs = i.rt,
           NEW is32 \in BOOLEAN, is32 => IsWord(M.gpr[i.rs]), NEW g, g \in {"or", "xor"},
           NEW m, m = MapRT(s, i, Change(i.rt, is32))
    PROVE  On(PutLo(m.s, m, Gated(g, Own(m), i.imm)), {}, With(M, i.rt, Gated(g, M.gpr[i.rs], i.imm)), Z)
<1>1. /\ On(s, {}, M, Z) /\ Fits(i, Z) /\ Fields(i) /\ Machine(M) /\ {} \subseteq {ECX}
      /\ i.rt \in Reg /\ M.gpr[i.rs] \in Double /\ i.imm \in 0 .. 2 ^ Half - 1
  BY EntersFacts
<1>2. PICK u, c : u = M.gpr[i.rt] /\ c = i.imm
  OBVIOUS
<1>3. c \in Word /\ ~Negative(c) /\ Sext(c) = c
  BY <1>1, <1>2, ImmPlain
<1>4. CASE is32
  <2>1. Held(m.s, m, {}, M, Z, i.rt, Sext(Low(u)), 1) /\ Sext(Low(u)) = u
    BY <1>1, <1>2, <1>4, WrittenWord, AskedDouble
  <2>2. Held(m.s, m, {}, M, Z, i.rt, u, 1)
    BY <2>1
  <2>3. Own(m) = Low(u)
    BY <2>2, HeldWord DEF Own
  <2>4. On(PutLo(m.s, m, Gated(g, Low(u), c)), {}, With(M, i.rt, Gated(g, u, Sext(c))), Z)
    BY <1>3, <2>2, GateLowHeld
  <2>5. QED
    BY <1>2, <1>3, <2>3, <2>4
<1>5. CASE ~is32
  <2>1. Held(m.s, m, {}, M, Z, i.rt, u, 2)
    BY <1>1, <1>2, <1>5, WrittenBoth
  <2>2. Own(m) = Low(u)
    BY <2>1, HeldWord DEF Own
  <2>3. On(PutLo(m.s, m, Gated(g, Low(u), c)), {}, With(M, i.rt, Gated(g, u, Sext(c))), Z)
    BY <1>3, <2>1, GateLowHeld
  <2>4. QED
    BY <1>2, <1>3, <2>2, <2>3
<1>6. QED
  BY <1>4, <1>5

\* The cases of ori and xori.
LEMMA GateImmCases ==
    ASSUME NEW s, NEW M, NEW Z, NEW i, Enters(s, i, M, Z), i.rt # R0, CheckIs32Bit(s, i.rs) => IsWord(M.gpr[i.rs]),
           NEW g, g \in {"or", "xor"}, NEW is32, is32 = CheckIs32Bit(s, i.rs), NEW m, m = MapRT(s, i, Change(i.rt, is32))
    PROVE  /\ IsConst(s, i.rs)
                => On(MapConst(s, i.rt, Gated(g, s.const[i.rs], i.imm)), {}, With(M, i.rt, Gated(g, M.gpr[i.rs], i.imm)), Z)
           /\ ~IsConst(s, i.rs) /\ i.rs # i.rt
                => On(GateAside(s, i, g, is32), {}, With(M, i.rt, Gated(g, M.gpr[i.rs], i.imm)), Z)
           /\ i.rs = i.rt /\ i.imm = 0 => On(s, {}, With(M, i.rt, Gated(g, M.gpr[i.rs], i.imm)), Z)
           /\ i.rs = i.rt
                => On(PutLo(m.s, m, Gated(g, Own(m), i.imm)), {}, With(M, i.rt, Gated(g, M.gpr[i.rs], i.imm)), Z)
<1>1. /\ On(s, {}, M, Z) /\ Machine(M) /\ i.rt \in Reg /\ i.rs \in Reg \ Z /\ M.gpr[i.rs] \in Double
      /\ i.imm \in 0 .. 2 ^ Half - 1
  BY EntersFacts
<1>2. is32 \in BOOLEAN
  BY DEF CheckIs32Bit, IsConst
<1>3. is32 => IsWord(M.gpr[i.rs])
  OBVIOUS
<1>4. ASSUME IsConst(s, i.rs)
      PROVE  On(MapConst(s, i.rt, Gated(g, s.const[i.rs], i.imm)), {}, With(M, i.rt, Gated(g, M.gpr[i.rs], i.imm)), Z)
  <2>1. PICK a, c : a = s.const[i.rs] /\ c = i.imm
    OBVIOUS
  <2>2. a \in Word /\ M.gpr[i.rs] = Sext(a) /\ c \in Word /\ Sext(c) = c
    BY <1>1, <1>4, <2>1, ValueOf, ImmPlain
  <2>3. Gated(g, a, c) \in Word /\ Gated(g, Sext(a), Sext(c)) = Sext(Gated(g, a, c))
    BY <2>2, GatedSext
  <2>4. On(MapConst(s, i.rt, Gated(g, a, c)), {}, With(M, i.rt, Sext(Gated(g, a, c))), Z)
    BY <1>1, <2>3, MapConstOn
  <2>5. QED
    BY <2>1, <2>2, <2>3, <2>4
<1>5. ASSUME ~IsConst(s, i.rs), i.rs # i.rt
      PROVE  On(GateAside(s, i, g, is32), {}, With(M, i.rt, Gated(g, M.gpr[i.rs], i.imm)), Z)
  BY <1>2, <1>3, <1>5, GateAsideOn
<1>6. ASSUME i.rs = i.rt, i.imm = 0
      PROVE  On(s, {}, With(M, i.rt, Gated(g, M.gpr[i.rs], i.imm)), Z)
  <2>1. Gated(g, M.gpr[i.rs], i.imm) = M.gpr[i.rt]
    BY <1>1, <1>6, GatedSame
  <2>2. With(M, i.rt, M.gpr[i.rt]) = M
    BY <1>1, WithAgain
  <2>3. QED
    BY <1>1, <2>1, <2>2
<1>7. ASSUME i.rs = i.rt
      PROVE  On(PutLo(m.s, m, Gated(g, Own(m), i.imm)), {}, With(M, i.rt, Gated(g, M.gpr[i.rs], i.imm)), Z)
  BY <1>2, <1>3, <1>7, GateOwnOn
<1>8. QED
  BY <1>4, <1>5, <1>6, <1>7

\* ORI and XORI: rt becomes rs with the immediate in its low word.
THEOREM OriOn ==
    ASSUME NEW s, NEW M, NEW Z, NEW i, Enters(s, i, M, Z), i.rt # R0, CheckIs32Bit(s, i.rs) => IsWord(M.gpr[i.rs])
    PROVE  /\ On(dyna4300i_ori(s, i), {}, With(M, i.rt, M.gpr[i.rs] | i.imm), Z)
           /\ On(dyna4300i_xori(s, i), {}, With(M, i.rt, M.gpr[i.rs] ^^ i.imm), Z)
<1>1. PICK is32 : is32 = CheckIs32Bit(s, i.rs)
  OBVIOUS
<1>2. PICK m : m = MapRT(s, i, Change(i.rt, is32))
  OBVIOUS
<1>3. \A a, b : OrBits(a, b) = Gated("or", a, b) /\ XorBits(a, b) = Gated("xor", a, b)
  BY GatesAre DEF OrBits, XorBits
<1>4. /\ GateRS(i, MapRT(s, i, DefineBoth(i.rt, is32)), OrBits, is32) = GateAside(s, i, "or", is32)
      /\ GateRS(i, MapRT(s, i, DefineBoth(i.rt, is32)), XorBits, is32) = GateAside(s, i, "xor", is32)
  BY <1>3 DEF GateRS, GateImmInto, GateAside
<1>5. /\ GateOwn(i, m, OrBits) = PutLo(m.s, m, Gated("or", Own(m), i.imm))
      /\ GateOwn(i, m, XorBits) = PutLo(m.s, m, Gated("xor", Own(m), i.imm))
  BY <1>3 DEF GateOwn
<1>6. On(dyna4300i_ori(s, i), {}, With(M, i.rt, Gated("or", M.gpr[i.rs], i.imm)), Z)
  BY <1>1, <1>2, <1>3, <1>4, <1>5, GateImmCases DEF dyna4300i_ori, GateImm
<1>7. On(dyna4300i_xori(s, i), {}, With(M, i.rt, Gated("xor", M.gpr[i.rs], i.imm)), Z)
  BY <1>1, <1>2, <1>3, <1>4, <1>5, GateImmCases DEF dyna4300i_xori, GateImm
<1>8. QED
  BY <1>6, <1>7, GatesAre

-------------------------------------------------------------------------------
(* Moves                                                                     *)

\* What a host register holds that is no register's matters to none.
LEMMA LooseOn ==
    ASSUME NEW s, NEW p, NEW M, NEW Z, On(s, p, M, Z), NEW t, Typed(t), Same(s, t), Aside(s, t), t.gpr = s.gpr, Image(t),
           \A k \in Host : s.map[k].mips \in Reg \cup {HighWord} => t.host[k] = s.host[k]
    PROVE  On(t, p, M, Z)
<1>1. Good(t, p) /\ t.map = s.map /\ t.const = s.const
  BY SameGood DEF On, Same, Rest
<1>2. ASSUME NEW r \in Reg \ Z PROVE Shown(t, M.gpr[r], r)
  <2>1. Shown(s, M.gpr[r], r)
    BY DEF On, Follows
  <2>2. ASSUME NEW k \in Host, s.map[k].mips = r
        PROVE  t.host[k] = s.host[k] /\ t.host[s.map[k].hi] = s.host[s.map[k].hi]
    <3>1. s.map[k].hi \in Host /\ (s.map[k].hi = k \/ s.map[s.map[k].hi].mips = HighWord)
      BY <2>2 DEF On, Good, Consistent
    <3>2. QED
      BY <2>2, <3>1
  <2>3. QED
    BY <1>1, <2>1, <2>2 DEF Shown
<1>3. Aside(t, M)
  BY DEF On, Follows, Aside
<1>4. QED
  BY <1>1, <1>2, <1>3 DEF On, Follows

\* A host register that holds no MIPS register may be written.
LEMMA LooseMov ==
    ASSUME NEW s, NEW p, NEW M, NEW Z, On(s, p, M, Z), NEW k \in Host, s.map[k].mips \notin Reg \cup {HighWord}, NEW w \in Word
    PROVE  On(Mov(s, k, w), p, M, Z)
<1>1. Typed(s) /\ Image(s)
  BY DEF On, Good, Follows
<1>2. Typed(Mov(s, k, w)) /\ Same(s, Mov(s, k, w))
  BY <1>1, MovSame
<1>3. Mov(s, k, w).host = [s.host EXCEPT ![k] = w] /\ Aside(s, Mov(s, k, w)) /\ Mov(s, k, w).gpr = s.gpr
      /\ Mov(s, k, w).stack = s.stack /\ Mov(s, k, w).flushed = s.flushed /\ Mov(s, k, w).const = s.const
  BY <1>1 DEF Mov, Typed, Aside
<1>4. Image(Mov(s, k, w))
  BY <1>1, <1>3 DEF Image, Aside
<1>5. \A j \in Host : s.map[j].mips \in Reg \cup {HighWord} => Mov(s, k, w).host[j] = s.host[j]
  BY <1>1, <1>3 DEF Image
<1>6. QED
  BY <1>2, <1>3, <1>4, <1>5, LooseOn

\* A host register is vacated,
LEMMA VacateOn ==
    ASSUME NEW s, NEW M, NEW Z, On(s, {}, M, Z), NEW k \in Host
    PROVE  On(Vacate(s, k), {}, M, Z) /\ Vacate(s, k).map[k].mips = Unused
<1> DEFINE owners == {j \in Mapped(s) : j = k \/ s.map[j].hi = k}
<1>1. Good(Vacate(s, k), {}) /\ Vacate(s, k).map[k].mips = Unused
  BY VacateGood DEF On
<1>2. CASE owners = {}
  BY <1>1, <1>2 DEF Vacate, On
<1>3. CASE owners # {}
  <2>1. owners \subseteq Host
    BY DEF Mapped
  <2>2. Max(owners) \in owners
    BY <1>3, <2>1, MaxOfHost
  <2>3. Max(owners) \in Host /\ s.map[Max(owners)].mips \in Reg
    BY <2>2 DEF Mapped
  <2>4. Follows(FlushRegister(s, Max(owners)), M, Z)
    BY <2>3, FlushFollows DEF On
  <2>5. QED
    BY <1>1, <1>3, <2>4 DEF Vacate, On
<1>4. QED
  BY <1>2, <1>3

\* and protected, or given back.
LEMMA MarkOn ==
    ASSUME NEW s, NEW p, NEW M, NEW Z, On(s, p, M, Z), NEW k \in Host, s.map[k].mips \in {Unused, Protected},
           NEW e \in EntryType, e.mips \in {Unused, Protected},
           NEW q, q \ {k} = p \ {k}, k \in q <=> e.mips = Protected
    PROVE  On([s EXCEPT !.map[k] = e], q, M, Z)
<1>1. PICK t : t = [s EXCEPT !.map[k] = e]
  OBVIOUS
<1>2. Good(t, q) /\ Typed(s) /\ Image(s) /\ s.map \in MapType
  <2>1. Good(s, p)
    BY DEF On
  <2>2. Good([s EXCEPT !.map[k] = e], q)
    BY <2>1, MarkGood
  <2>3. QED
    BY <1>1, <2>1, <2>2 DEF On, Follows, Good, Typed
<1>3. /\ t.map = [s.map EXCEPT ![k] = e] /\ t.const = s.const /\ Aside(s, t) /\ t.host = s.host /\ t.gpr = s.gpr
      /\ t.flushed = s.flushed /\ t.stack = s.stack
  BY <1>1, <1>2 DEF Typed, Aside
<1>4. Image(t)
  BY <1>2, <1>3 DEF Image, Aside
<1>5. /\ s.map[k].mips \notin Reg /\ t.map[k].mips \notin Reg
      /\ \A j \in Host \ {k} : t.map[j] = s.map[j]
  BY <1>2, <1>3, MarkFacts DEF MapType
<1>6. ASSUME NEW r \in Reg \ Z PROVE Shown(t, M.gpr[r], r)
  <2>1. Shown(s, M.gpr[r], r)
    BY DEF On, Follows
  <2>2. \A j \in Host : t.map[j].mips = r => t.map[j] = s.map[j]
    BY <1>5
  <2>3. (\A j \in Host : t.map[j].mips # r) => (\A j \in Host : s.map[j].mips # r)
    BY <1>5
  <2>4. QED
    BY <1>3, <2>1, <2>2, <2>3 DEF Shown
<1>7. QED
  BY <1>1, <1>2, <1>3, <1>4, <1>6 DEF On, Follows, Aside

-------------------------------------------------------------------------------
(* Shifts                                                                    *)

\* What a shift makes of a word is a word.
ShiftOps == {"sll", "sllv", "srl", "srlv", "sra", "srav", "dsra"}

\* A shifted word is a word.
LEMMA ShiftWords ==
    ASSUME NEW op, op \in ShiftOps, NEW w \in Word, NEW k \in 0 .. W - 1
    PROVE  ShiftWord(op, w, k) \in Word
<1>1. w \div 2 ^ k \in Word /\ WordOf(w * 2 ^ k) \in Word /\ Small(Signed(w))
  BY Rights, SignedWords
<1>2. WordOf(Sar(Signed(w), k)) \in Word
  BY <1>1, Rights
<1>3. CASE op \in {"sll", "sllv"}
  BY <1>1, <1>3 DEF ShiftWord
<1>4. CASE op \in {"srl", "srlv"}
  BY <1>1, <1>4 DEF ShiftWord
<1>5. CASE op \in {"sra", "srav", "dsra"}
  BY <1>2, <1>5 DEF ShiftWord
<1>6. QED
  BY <1>3, <1>4, <1>5 DEF ShiftOps

\* SLL, SRL and SRA: rd becomes the shifted word, sign-extended.
THEOREM ShiftOn ==
    ASSUME NEW s, NEW M, NEW Z, NEW i, Enters(s, i, M, Z), i.rd # R0, i.op \in ShiftOps
    PROVE  On(dyna4300i_special_shift(s, i), {}, With(M, i.rd, Sext(ShiftWord(i.op, Low(M.gpr[i.rt]), i.sa))), Z)
<1>1. /\ On(s, {}, M, Z) /\ Fits(i, Z) /\ Fields(i) /\ Machine(M) /\ {} \subseteq {ECX}
      /\ i.rd \in Reg \ Z /\ i.rt \in Reg \ Z /\ M.gpr[i.rt] \in Double /\ Low(M.gpr[i.rt]) \in Word /\ i.sa \in 0 .. W - 1
  BY EntersFacts
<1>2. PICK w, v : w = Low(M.gpr[i.rt]) /\ v = ShiftWord(i.op, w, i.sa)
  OBVIOUS
<1>3. w \in Word /\ v \in Word
  BY <1>1, <1>2, ShiftWords
<1>4. CASE IsConst(s, i.rt)
  <2>1. w = s.const[i.rt]
    BY <1>1, <1>2, <1>4, ValueOf
  <2>2. On(MapConst(s, i.rd, v), {}, With(M, i.rd, Sext(v)), Z)
    BY <1>1, <1>3, MapConstOn
  <2>3. QED
    BY <1>2, <1>4, <2>1, <2>2 DEF dyna4300i_special_shift
<1>5. CASE ~IsConst(s, i.rt)
  <2>1. PICK m : m = IF i.rd = i.rt THEN MapRD(s, i, Change(i.rd, TRUE)) ELSE Map_RD_NE_RT(s, i)
    OBVIOUS
  <2>2. Held(m.s, m, {}, M, Z, i.rd, Sext(w), 1)
    <3>1. CASE i.rd = i.rt
      BY <1>1, <1>2, <2>1, <3>1, WrittenWord
    <3>2. CASE i.rd # i.rt
      <4>1. On(s, {}, M, Z \cup {i.rd})
        BY <1>1, FewerFollows DEF On
      <4>2. QED
        BY <1>1, <1>2, <1>5, <2>1, <3>2, <4>1, NERTHeld
    <3>3. QED
      BY <3>1, <3>2
  <2>3. Own(m) = w
    BY <1>1, <1>3, <2>2, DoubledOn
  <2>4. On(PutLo(m.s, m, v), {}, With(M, i.rd, Sext(v)), Z)
    BY <1>3, <2>2, HeldPut
  <2>5. QED
    BY <1>2, <1>5, <2>1, <2>3, <2>4 DEF dyna4300i_special_shift, Shifted
<1>6. QED
  BY <1>4, <1>5

\* ECX holds the amount of a shift by a register, and is protected.
LEMMA ByOn ==
    ASSUME NEW t, NEW m, NEW M, NEW Z, NEW d, NEW u, NEW words, words \in {1, 2}, NEW a \in Word
    PROVE  /\ Dest(t, m, {ECX}, M, Z, d, words) => Dest(Mov(t, ECX, a), m, {ECX}, M, Z, d, words)
           /\ Held(t, m, {ECX}, M, Z, d, u, words) => Held(Mov(t, ECX, a), m, {ECX}, M, Z, d, u, words)
<1>1. \A N, Y : On(t, {ECX}, N, Y) => On(Mov(t, ECX, a), {ECX}, N, Y)
  <2> SUFFICES ASSUME NEW N, NEW Y, On(t, {ECX}, N, Y) PROVE On(Mov(t, ECX, a), {ECX}, N, Y)
    OBVIOUS
  <2>1. ECX \in Host /\ t.map[ECX].mips = Protected
    BY HostFacts DEF On, Good
  <2>2. t.map[ECX].mips \notin Reg \cup {HighWord}
    BY <2>1, MarkFacts
  <2>3. QED
    BY <2>1, <2>2, LooseMov
<1>2. Typed(t) => Mov(t, ECX, a).map = t.map
  BY MovSame DEF Same
<1>3. \A N, Y : On(t, {ECX}, N, Y) => Typed(t)
  BY DEF On, Good
<1>4. \A N, Y : On(t, {ECX}, N, Y) /\ Takes(t, m, d, words = 1) => Takes(Mov(t, ECX, a), m, d, words = 1)
  BY <1>2, <1>3 DEF Takes, Has
<1>5. ASSUME Dest(t, m, {ECX}, M, Z, d, words)
      PROVE  Dest(Mov(t, ECX, a), m, {ECX}, M, Z, d, words)
  BY <1>1, <1>4, <1>5 DEF Dest
<1>6. ASSUME Held(t, m, {ECX}, M, Z, d, u, words)
      PROVE  Held(Mov(t, ECX, a), m, {ECX}, M, Z, d, u, words)
  BY <1>1, <1>4, <1>6 DEF Held
<1>7. QED
  BY <1>5, <1>6

-------------------------------------------------------------------------------
(* Shifts by a register                                                      *)

\* While ECX is protected, what it holds stays as it is.
Still(s, t) == t.host[ECX] = s.host[ECX]

\* Flushing a register leaves ECX alone,
LEMMA FlushStill ==
    ASSUME NEW s, NEW p, Good(s, p), ECX \in p, Image(s), NEW k \in Host, s.map[k].mips \in Reg
    PROVE  Still(s, FlushRegister(s, k))
<1> DEFINE u == IF s.map[k].dirty /\ s.map[k].mips # R0 THEN WriteBackDirty(s, k) ELSE s
           t == FlushRegister(s, k)
<1>1. Typed(s) /\ s.map[k].hi \in Host /\ k # ECX
  BY MarkFacts, HostFacts DEF Good, Consistent
<1>2. Contents(u, t)
  BY <1>1, FlushContents
<1>3. s.host \in [Host -> Word] /\ ECX \in Host
  BY HostFacts DEF Image
<1>3a. u = s \/ u = WriteBackDirty(s, k)
  OBVIOUS
<1> HIDE DEF t, u
<1>4. CASE u = s
  BY <1>2, <1>4 DEF Contents, Still, t
<1>5. CASE u = WriteBackDirty(s, k) /\ s.map[k].hi = k
  <2>0. Contents(WriteBackDirty(s, k), t) /\ s.map[k].hi = k
    BY <1>2, <1>5
  <2>1. /\ t.gpr = [s.gpr EXCEPT ![s.map[k].mips] = Sext(s.host[k])] /\ t.host = [s.host EXCEPT ![k] = SignOf(s.host[k])]
        /\ t.flushed = [s.flushed EXCEPT ![s.map[k].mips] = TRUE] /\ t.stack = s.stack /\ Aside(s, t)
    BY <1>1, <2>0, WriteBackNarrow
  <2>2. QED
    BY <1>1, <1>3, <2>1 DEF Still, t
<1>6. CASE u = WriteBackDirty(s, k) /\ s.map[k].hi # k
  <2>1. t.host = s.host
    BY <1>1, <1>2, <1>6, WriteBackWide
  <2>2. QED
    BY <2>1 DEF Still, t
<1>7. QED
  BY <1>3a, <1>4, <1>5, <1>6

\* Making room flushes a register at most.
LEMMA RoomForStill ==
    ASSUME NEW s, NEW p, Good(s, p), ECX \in p, Image(s), NEW need, NEW K
    PROVE  Still(s, RoomFor(s, need, K))
<1>1. CASE Cardinality(Free(s)) >= need
  BY <1>1 DEF RoomFor, Still
<1>2. CASE ~(Cardinality(Free(s)) >= need)
  <2>1. CASE \A k \in Mapped(s) : s.map[k].mips \in K
    <3> DEFINE t == Report(s, "Could not flush a register!!")
    <3>1. RoomFor(s, need, K) = t
      BY <1>2, <2>1 DEF RoomFor, FlushOneButNotThese3
    <3>2. t.host = s.host
      BY DEF Report, Good, Typed
    <3>3. QED
      BY <3>1, <3>2 DEF Still
  <2>2. CASE ~(\A k \in Mapped(s) : s.map[k].mips \in K)
    <3> DEFINE S == {k \in Mapped(s) : s.map[k].mips \notin K}
    <3>1. S \subseteq Host /\ S # {}
      BY <2>2 DEF Mapped
    <3>2. Victim(s, S) \in S
      BY <3>1, VictimChosen DEF Good, Typed
    <3>3. Victim(s, S) \in Host /\ s.map[Victim(s, S)].mips \in Reg
      BY <3>2 DEF Mapped
    <3>4. RoomFor(s, need, K) = EvictOneOf(s, Victim(s, S))
      BY <1>2, <2>2 DEF RoomFor, FlushOneButNotThese3
    <3> HIDE DEF S
    <3>5. PICK k : k = Victim(s, S)
      OBVIOUS
    <3>6. ~(s.map[k].mips # R0 /\ IsConst(s, s.map[k].mips))
      BY <3>3, <3>5 DEF Good, Consistent, IsConst
    <3>7. EvictOneOf(s, k) = FlushRegister(s, k)
      BY <3>6 DEF EvictOneOf, Evict
    <3>8. QED
      BY <3>3, <3>4, <3>5, <3>7, FlushStill
  <2>3. QED
    BY <2>1, <2>2
<1>3. QED
  BY <1>1, <1>2

\* Mapping a word of a register that is no constant.
LEMMA MapWordStill ==
    ASSUME NEW s, NEW p, p = {ECX}, NEW M, NEW Z, On(s, p, M, Z), NEW c, c \in RequestType, c.mips \in Reg,
           c.is32, NEW keep, Allowed(c, p, keep), ~IsConst(s, c.mips), c.mips # R0,
           ~c.dirty \/ (\A k \in Host : s.map[k].mips = c.mips => s.map[k].hi = k)
    PROVE  Still(s, MapRegister(s, c, keep).s)
<1> DEFINE t == NextYear(s)
           u == [t EXCEPT !.const[c.mips] = IF c.mips = R0 THEN @ ELSE NoConst]
<1>1. Typed(s) /\ Good(s, p) /\ Image(s) /\ ECX \in p /\ ECX \in Host /\ Consistent(s.map, s.const)
  BY HostFacts DEF On, Good, Follows
<1>2. t.map = s.map /\ t.const = s.const /\ u.map = s.map /\ u.host = s.host
  BY <1>1 DEF NextYear, Typed
<1>3. ~Constant(s, c)
  BY DEF Constant
<1>4. MapRegister(s, c, keep) = MapPlain(t, c, keep) /\ MapPlain(t, c, keep) = MapPlainConst(u, c, keep)
  BY <1>3 DEF MapRegister, MapPlain
<1>5. Good(t, p) /\ Follows(t, M, Z)
  BY <1>1, NextYearGood, NextYearFollows DEF On
<1>6. CASE \E k \in Host : s.map[k].mips = c.mips
  <2>1. PICK k \in Host : s.map[k].mips = c.mips
    BY <1>6
  <2>2. Where(u, c.mips) = k /\ k # None
    <3>1. Where(s, c.mips) = k
      BY <1>1, <2>1, WhereIs
    <3>2. QED
      BY <1>2, <3>1, HostFacts DEF Where, Holding
  <2>3. MapPlainConst(u, c, keep) = ConvertReg(u, k, c, keep)
    BY <2>2 DEF MapPlainConst
  <2>4. "host" \in DOMAIN u /\ "map" \in DOMAIN u
    BY <1>1 DEF NextYear, Typed
  <2> HIDE DEF u, t
  <2>5. ConvertReg(u, k, c, keep) = Used(u, k, u.map[k].hi, c, c.is32 /\ (u.map[k].hi = k \/ c.dirty))
    BY <1>2, <2>1 DEF ConvertReg, Converted
  <2>6. Used(u, k, u.map[k].hi, c, c.is32 /\ (u.map[k].hi = k \/ c.dirty)).s.host = u.host
    BY <2>4 DEF Used
  <2>7. QED
    BY <1>2, <1>4, <2>3, <2>5, <2>6 DEF Still
<1>7. CASE \A k \in Host : s.map[k].mips # c.mips
  <2>1. Where(u, c.mips) = None
    <3>1. Where(s, c.mips) = None
      BY <1>1, <1>7, WhereIs
    <3>2. QED
      BY <1>2, <3>1 DEF Where, Holding
  <2>2. MapPlainConst(u, c, keep) = Map32bit(u, c, keep)
    BY <2>1 DEF MapPlainConst
  <2>3. Typed(t) /\ t.const[c.mips] = NoConst
    BY <1>2, <1>5 DEF Good, IsConst
  <2>4. u = t
    <3>1. t.const \in [Reg -> Word \cup {NoConst}]
      BY <1>5 DEF Follows, Image
    <3> HIDE DEF t
    <3>2. [t.const EXCEPT ![c.mips] = NoConst] = t.const
      BY <2>3, <3>1
    <3>3. u = [t EXCEPT !.const = [t.const EXCEPT ![c.mips] = NoConst]]
      OBVIOUS
    <3> HIDE DEF u
    <3>4. QED
      BY <2>3, <3>2, <3>3 DEF Typed
  <2> DEFINE v == MakeRoom(u, 1, keep)
             k == Max(Free(v))
  <2>5. Map32bit(u, c, keep) = TakeOne(v, c, k) /\ v = RoomFor(u, 1, keep)
    BY DEF Map32bit, FirstFree, MakeRoom
  <2> HIDE DEF u, t
  <2>6. Good(u, p) /\ Follows(u, M, Z)
    BY <1>5, <2>4
  <2>7. Bounded(u, p, 1, keep) /\ keep \subseteq Reg
    BY <2>6, AllowedRoom
  <2>8. Good(v, p) /\ Cardinality(Free(v)) >= 1 /\ Follows(v, M, Z)
    BY <2>6, <2>7, MakeRoomGood, MakeRoomFollows
  <2>9. Still(u, v)
    BY <1>1, <2>5, <2>6, RoomForStill DEF Follows
  <2> HIDE DEF v
  <2>10. k \in Host /\ v.map[k].mips = Unused
    BY <2>8, FreeOnes
  <2> HIDE DEF k
  <2>11. k # ECX
    BY <1>1, <2>8, <2>10, MarkFacts DEF Good
  <2>12. /\ Typed(v) /\ Image(v)
    BY <2>8 DEF Good, Follows
  <2>13. LoadLo(v, c, k).host[ECX] = v.host[ECX] /\ Typed(LoadLo(v, c, k))
    BY <1>1, <2>10, <2>11, <2>12, LoadLoContents
  <2>14. TakeOne(v, c, k).s.host = LoadLo(v, c, k).host
    BY <2>13 DEF TakeOne, UseNow, Typed
  <2>15. QED
    BY <1>2, <1>4, <2>2, <2>5, <2>9, <2>13, <2>14 DEF Still
<1>8. QED
  BY <1>6, <1>7

\* rt moves to rd, which has its place already, beside the amount in ECX.
LEMMA TakenOverStill ==
    ASSUME NEW s, NEW p, Good(s, p), NEW k \in Host, s.map[k].mips \in Reg, NEW r \in Reg, r # s.map[k].mips, r # R0,
           NEW freed, Freed(s, freed, k)
    PROVE  Still(s, TakenOver(freed, k, r))
<1>1. PICK t : t = TakenOver(freed, k, r)
  OBVIOUS
<1>2. /\ Typed(freed) /\ Rest(s, freed) /\ Contents(s, freed)
      /\ \A j \in Host : j # s.map[k].hi => freed.map[j] = s.map[j]
      /\ s.map[k].hi = k => freed.map[k] = s.map[k]
      /\ s.map[k].hi # k => freed.map[s.map[k].hi].mips = Unused
  BY DEF Freed
<1>3. Contents(s, t)
  BY <1>1, <1>2, TakenOverEffect
<1>4. QED
  BY <1>1, <1>3 DEF Contents, Still

\* and so does mapping rd for an operation on rt.
LEMMA NERTStill ==
    ASSUME NEW s, NEW M, NEW Z, NEW i, Fields(i), i.rd # R0, i.rd # i.rt,
           On(s, {ECX}, M, Z \cup {i.rd}), i.rt \notin Z, ~IsConst(s, i.rt),
           NEW d, Takes(s, d, i.rd, TRUE), NEW a, a = Map_RD_NE_RT(s, i)
    PROVE  Still(s, a.s)
<1> DEFINE k == Where(s, i.rt)
           h == s.map[k].hi
           e == [s.map[h] EXCEPT !.dirty = FALSE, !.mips = Unused]
           freed == IF h = k THEN s ELSE [s EXCEPT !.map[h] = e]
           takes == k # None /\ BlockAnalysis /\ ~s.map[k].dirty /\ i.rt \in s.dead
<1>1. a = IF takes THEN [s |-> TakenOver(freed, k, i.rd), x |-> k, hi |-> k]
          ELSE MoveRT(MapRD(s, i, Define(i.rd, TRUE)), i)
  BY DEF Map_RD_NE_RT, TakenOver
<1>2. i.rd \in Reg /\ i.rs \in Reg /\ i.rt \in Reg /\ Good(s, {ECX}) /\ Image(s) /\ Two({i.rs, i.rt}) /\ Two({i.rd, i.rs})
  BY TwoOf DEF Fields, On, Follows
<1>3. CASE ~takes
  <2>1. PICK m : m = MapRD(s, i, Define(i.rd, TRUE))
    OBVIOUS
  <2>2. Writes(s, m, {ECX}, M, (Z \cup {i.rd}) \cup {i.rd}, i.rd, TRUE, {i.rs, i.rt})
    BY <2>1, ResultsOn
  <2>3. (Z \cup {i.rd}) \cup {i.rd} = Z \cup {i.rd}
    OBVIOUS
  <2>4. On(m.s, {ECX}, M, Z \cup {i.rd}) /\ Takes(m.s, m, i.rd, TRUE) /\ m.s.const[i.rt] = s.const[i.rt]
    BY <1>2, <2>2, <2>3 DEF Writes, Beside
  <2>5. Still(s, m.s)
    <3>1. PICK c : c = Define(i.rd, TRUE)
      OBVIOUS
    <3>2. /\ c \in RequestType /\ c.mips = i.rd /\ c.is32 /\ Allowed(c, {ECX}, {i.rs, i.rt})
      BY <1>2, <3>1 DEF Define, Conditions, Allowed, RequestType, Two
    <3>3. d.x \in Host /\ s.map[d.x].mips = i.rd /\ s.map[d.x].hi = d.x
      BY DEF Takes, Has
    <3>4. \A j \in Host : s.map[j].mips = i.rd => s.map[j].hi = j
      BY <1>2, <3>3 DEF Good, Consistent
    <3>5. ~IsConst(s, i.rd)
      BY <1>2, <3>3 DEF Good, Consistent, IsConst
    <3>6. Still(s, MapRegister(s, c, {i.rs, i.rt}).s)
      BY <1>2, <3>2, <3>4, <3>5, MapWordStill
    <3>7. QED
      BY <2>1, <3>1, <3>6 DEF MapRD
  <2>6. PICK o : o = MapTo(m.s, i.rt, TRUE, {i.rd, i.rs})
    OBVIOUS
  <2>7. Still(m.s, o.s)
    <3>1. CASE Where(m.s, i.rt) = None /\ i.rt \in m.s.dead
      BY <2>6, <3>1 DEF MapTo, Still
    <3>2. CASE ~(Where(m.s, i.rt) = None /\ i.rt \in m.s.dead)
      <4>1. PICK c : c = Want(i.rt, TRUE)
        OBVIOUS
      <4>2. /\ c \in RequestType /\ c.mips = i.rt /\ c.is32 /\ Allowed(c, {ECX}, {i.rd, i.rs}) /\ ~c.dirty
        BY <1>2, <4>1 DEF Want, Conditions, Allowed, RequestType, Two
      <4>3. ~IsConst(m.s, i.rt) /\ i.rt # R0
        <5>1. s.const[R0] = 0 /\ 0 # NoConst
          BY <1>2, Signs, MarksAssumption DEF Good, Consistent
        <5>2. QED
          BY <1>2, <2>4, <5>1 DEF IsConst
      <4>4. Still(m.s, MapRegister(m.s, c, {i.rd, i.rs}).s)
        BY <1>2, <2>4, <4>2, <4>3, MapWordStill
      <4>5. o.s = MapRegister(m.s, c, {i.rd, i.rs}).s
        BY <2>6, <3>2, <4>1 DEF MapTo, Operand
      <4>6. QED
        BY <4>4, <4>5
    <3>3. QED
      BY <3>1, <3>2
  <2>8. a = [s |-> PutLo(o.s, m, o.lo), x |-> m.x, hi |-> m.hi]
    BY <1>1, <1>3, <2>1, <2>6 DEF MoveRT, RTMoved
  <2>9. i.rt \in Reg \ (Z \cup {i.rd}) /\ ~IsConst(m.s, i.rt)
    BY <1>2, <2>4 DEF IsConst
  <2>10. Gives(m.s, o, {ECX}, M, Z \cup {i.rd}, i.rt, TRUE, {i.rd, i.rs})
    BY <1>2, <2>4, <2>6, <2>9, MapToOn
  <2>11. Typed(o.s) /\ o.s.host \in [Host -> Word] /\ ECX \in Host
    BY <2>10, HostFacts DEF Gives, On, Good, Follows, Image
  <2>12. m.x # ECX
    BY <1>2, <2>4, MarkFacts DEF Takes, Has, On, Good
  <2>13. PutLo(o.s, m, o.lo).host[ECX] = o.s.host[ECX]
    BY <2>11, <2>12 DEF PutLo, Mov, Typed
  <2>14. QED
    BY <2>5, <2>7, <2>8, <2>13 DEF Still
<1>4. CASE takes
  <2>1. Typed(s) /\ s.map \in MapType /\ Consistent(s.map, s.const)
    BY DEF On, Good, Typed
  <2>2. k \in Host /\ s.map[k].mips = i.rt /\ ~s.map[k].dirty
    BY <1>2, <1>4, <2>1, WhereIs
  <2>3. h \in Host
    BY <1>2, <2>1, <2>2 DEF Consistent
  <2>4. e \in EntryType /\ e.mips = Unused
    <3>1. s.map[h] \in EntryType
      BY <2>1, <2>3, EntryTyped
    <3>2. QED
      BY <3>1 DEF EntryType, Marks
  <2> HIDE DEF k, h, e
  <2>5. h # k => Typed(freed) /\ freed.map = [s.map EXCEPT ![h] = e] /\ Rest(s, freed)
    BY <2>1, <2>3, <2>4, SetEntry
  <2>6. /\ Typed(freed) /\ Rest(s, freed)
        /\ \A j \in Host : j # h => freed.map[j] = s.map[j]
        /\ h = k => freed.map[k] = s.map[k]
        /\ h # k => freed.map[h].mips = Unused
    BY <2>1, <2>3, <2>4, <2>5 DEF MapType, Rest
  <2>7. Contents(s, freed)
    BY <2>1 DEF Contents, Aside, Typed
  <2> HIDE DEF freed
  <2>8. a.s = TakenOver(freed, k, i.rd)
    BY <1>1, <1>4
  <2>9. Freed(s, freed, k)
    BY <2>6, <2>7 DEF h, Freed
  <2>10. QED
    BY <1>2, <2>2, <2>8, <2>9, TakenOverStill
<1>5. QED
  BY <1>3, <1>4

\* The shifts of 0, and by 0.
LEMMA ShiftNothing ==
    ASSUME NEW op, op \in ShiftOps, NEW w \in Word
    PROVE  /\ \A k \in 0 .. W - 1 : ShiftWord(op, 0, k) = 0
           /\ ShiftWord(op, w, 0 % W) = w
<1>1. W \in Nat \ {0} /\ 2 ^ 0 = 1 /\ \A k \in 0 .. W - 1 : 2 ^ k \in Nat \ {0}
  <2>1. W \in Nat \ {0} /\ \A k \in 0 .. 2 * W : 2 ^ k \in Nat \ {0}
    BY PowerPositive
  <2>2. QED
    BY <2>1, WidthAssumption
<1>2. Signed(0) = 0 /\ 0 \in Word /\ Signed(w) \in Int /\ WordOf(Signed(w)) = w /\ w \in Nat /\ WordOf(w) = w /\ WordOf(0) = 0
  <2>1. 0 \in Word /\ w \in Nat
    BY Signs
  <2>2. ~Negative(0)
    <3>1. 2 ^ (W - 1) \in Nat \ {0}
      BY Widths
    <3>2. QED
      BY <3>1 DEF Negative
  <2>3. QED
    BY <2>1, <2>2, SignedWords, Cut DEF Signed
<1>3. ASSUME NEW k \in 0 .. W - 1
      PROVE  ShiftWord(op, 0, k) = 0
  <2>1. PICK b \in Nat \ {0} : b = 2 ^ k
    BY <1>1
  <2>2. 0 * b = 0 /\ 0 \div b = 0
    BY <2>1
  <2>3. QED
    BY <1>2, <2>1, <2>2 DEF ShiftWord, ShiftOps, Sar
<1>4. 0 % W = 0
  BY <1>1
<1>5. ShiftWord(op, w, 0) = w
  <2>1. w * 1 = w /\ w \div 1 = w /\ Signed(w) \div 1 = Signed(w)
    BY <1>2
  <2>2. QED
    BY <1>1, <1>2, <2>1 DEF ShiftWord, ShiftOps, Sar
<1>6. QED
  BY <1>3, <1>4, <1>5

\* The shift itself.
LEMMA ShiftedBy ==
    ASSUME NEW i, i.op \in ShiftOps, NEW t, NEW m, NEW M, NEW Z, NEW d, NEW u, NEW a \in Word, NEW w \in Word,
           Dest(t, m, {ECX}, M, Z, d, 1) \/ Held(t, m, {ECX}, M, Z, d, u, 1)
    PROVE  On(By(i, t, m, a, w), {ECX}, With(M, d, Sext(ShiftWord(i.op, w, a % W))), Z)
<1>1. a % W \in 0 .. W - 1
  <2>1. W \in Nat \ {0} /\ a \in Int
    BY PowerPositive, Signs
  <2>2. QED
    BY <2>1, Division
<1>2. PICK v : v = ShiftWord(i.op, w, a % W)
  OBVIOUS
<1>3. v \in Word
  BY <1>1, <1>2, ShiftWords
<1>4. CASE Dest(t, m, {ECX}, M, Z, d, 1)
  <2>1. Dest(Mov(t, ECX, a), m, {ECX}, M, Z, d, 1)
    BY <1>4, ByOn
  <2>2. QED
    BY <1>2, <1>3, <2>1, DestOn DEF By
<1>5. CASE Held(t, m, {ECX}, M, Z, d, u, 1)
  <2>1. Held(Mov(t, ECX, a), m, {ECX}, M, Z, d, u, 1)
    BY <1>5, ByOn
  <2>2. QED
    BY <1>2, <1>3, <2>1, HeldPut DEF By
<1>6. QED
  BY <1>4, <1>5

\* What a shift by a register leaves in rd.
ShiftedVar(M, i) == ShiftWord(i.op, Low(M.gpr[i.rt]), Low(M.gpr[i.rs]) % W)

\* rd is rt, or rs.
LEMMA ShiftOwnOn ==
    ASSUME NEW s, NEW M, NEW Z, On(s, {ECX}, M, Z), NEW i, Fits(i, Z), i.rd # R0, i.op \in ShiftOps
    PROVE  /\ i.rd = i.rt => On(ShiftOwn(i, MapRD(s, i, Change(i.rd, TRUE))), {ECX}, With(M, i.rd, Sext(ShiftedVar(M, i))), Z)
           /\ i.rd = i.rs /\ i.rd # i.rt
                => On(ShiftRD(i, MapRD(s, i, Change(i.rd, TRUE))), {ECX}, With(M, i.rd, Sext(ShiftedVar(M, i))), Z)
<1>1. PICK m : m = MapRD(s, i, Change(i.rd, TRUE))
  OBVIOUS
<1>2. PICK u : u = Sext(Low(M.gpr[i.rd]))
  OBVIOUS
<1>3. Held(m.s, m, {ECX}, M, Z, i.rd, u, 1)
  BY <1>1, <1>2, WrittenWord
<1>4. /\ i.rd \in Reg \ Z /\ i.rs \in Reg \ Z /\ i.rt \in Reg \ Z /\ {ECX} \subseteq {ECX} /\ Machine(M) /\ Fields(i)
      /\ Two({i.rd, i.rt}) /\ Two({i.rd, i.rs}) /\ i.rd \in {i.rd, i.rt} /\ i.rd \in {i.rd, i.rs}
  BY TwoOf DEF Fits, Fields, On, Follows
<1>5. Low(M.gpr[i.rd]) \in Word
  BY <1>4, AskedDouble
<1>6. PICK w : w = Low(M.gpr[i.rd])
  OBVIOUS
<1>7. w \in Word /\ Low(u) = w
  BY <1>2, <1>5, <1>6, Extended
<1>8. CASE i.rs # i.rt /\ i.rd = i.rt
  <2>1. PICK x, o : x = MapRS(m.s, i, Want(i.rs, TRUE)) /\ o = MapIn(m.s, i.rs, TRUE, {i.rd, i.rt})
    OBVIOUS
  <2>2. FetchedWord(o, m.s, i.rs, {i.rd, i.rt}) /\ o.s = x.s /\ o.lo = x.s.host[x.x]
    BY <2>1 DEF FetchedWord, Fetched, MapIn, Operand, MapRS
  <2>3. Held(o.s, m, {ECX}, M, Z, i.rd, u, 1) /\ GivenWord(o, M, i.rs)
    BY <1>3, <1>4, <1>8, <2>2, WordBeside
  <2>4. o.s.host[m.x] = w /\ o.lo \in Word /\ o.lo = Low(M.gpr[i.rs])
    BY <1>7, <2>3, HeldWord DEF GivenWord
  <2>5. On(By(i, o.s, m, o.lo, w), {ECX}, With(M, i.rd, Sext(ShiftWord(i.op, w, o.lo % W))), Z)
    BY <1>7, <2>3, <2>4, ShiftedBy
  <2>6. ShiftOwn(i, m) = By(i, o.s, m, o.lo, w)
    BY <1>8, <2>1, <2>2, <2>4 DEF ShiftOwn, ByRS
  <2>7. QED
    BY <1>1, <1>6, <1>8, <2>4, <2>5, <2>6 DEF ShiftedVar
<1>9. CASE i.rs = i.rt /\ i.rd = i.rt
  <2>1. m.s.host[m.x] = w
    BY <1>3, <1>7, HeldWord
  <2>2. On(By(i, m.s, m, w, w), {ECX}, With(M, i.rd, Sext(ShiftWord(i.op, w, w % W))), Z)
    BY <1>3, <1>7, ShiftedBy
  <2>3. ShiftOwn(i, m) = By(i, m.s, m, w, w)
    BY <1>9, <2>1 DEF ShiftOwn, ByRS
  <2>4. QED
    BY <1>1, <1>6, <1>9, <2>2, <2>3 DEF ShiftedVar
<1>10. CASE i.rd = i.rs /\ i.rd # i.rt
  <2>1. PICK y, o : y = MapRT(m.s, i, Want(i.rt, TRUE)) /\ o = MapIn(m.s, i.rt, TRUE, {i.rd, i.rs})
    OBVIOUS
  <2>2. FetchedWord(o, m.s, i.rt, {i.rd, i.rs}) /\ o.s = y.s /\ o.lo = y.s.host[y.x]
    BY <2>1 DEF FetchedWord, Fetched, MapIn, Operand, MapRT
  <2>3. Held(o.s, m, {ECX}, M, Z, i.rd, u, 1) /\ GivenWord(o, M, i.rt)
    BY <1>3, <1>4, <1>10, <2>2, WordBeside
  <2>4. o.s.host[m.x] = w /\ o.lo \in Word /\ o.lo = Low(M.gpr[i.rt])
    BY <1>7, <2>3, HeldWord DEF GivenWord
  <2>5. On(By(i, o.s, m, w, o.lo), {ECX}, With(M, i.rd, Sext(ShiftWord(i.op, o.lo, w % W))), Z)
    BY <1>7, <2>3, <2>4, ShiftedBy
  <2>6. ShiftRD(i, m) = By(i, o.s, m, w, o.lo)
    BY <1>10, <2>1, <2>2, <2>4 DEF ShiftRD, ByRD
  <2>7. QED
    BY <1>1, <1>6, <1>10, <2>4, <2>5, <2>6 DEF ShiftedVar
<1>11. QED
  BY <1>8, <1>9, <1>10

\* The amount is in ECX, and rd is to have rt shifted by it.
LEMMA MoveToCLOn ==
    ASSUME NEW t, NEW m, NEW M, NEW Z, NEW i, Fits(i, Z), i.rd # i.rt, i.op \in ShiftOps,
           Dest(t, m, {ECX}, M, Z, i.rd, 1)
    PROVE  On(MoveToCL(i, m, t), {ECX},
              With(M, i.rd, Sext(ShiftWord(i.op, Low(M.gpr[i.rt]), t.host[ECX] % W))), Z)
<1>1. /\ i.rd \in Reg \ Z /\ i.rd # R0 /\ i.rt \in Reg \ Z /\ i.rt \in Reg \ (Z \cup {i.rd}) /\ Machine(M)
      /\ On(t, {ECX}, M, Z \cup {i.rd}) /\ Takes(t, m, i.rd, TRUE)
  BY DEF Dest, Fits, Fields
<1>2. t.host[ECX] \in Word
  BY <1>1, HostFacts DEF On, Follows, Image
<1>3. PICK a : a = t.host[ECX]
  OBVIOUS
<1>4. PICK w : w = Low(M.gpr[i.rt])
  OBVIOUS
<1>5. w \in Word /\ (IsConst(t, i.rt) => t.const[i.rt] = w)
  BY <1>1, <1>4, ValueOf
<1>6. PICK u : u = Sext(w)
  OBVIOUS
<1>7. Low(u) = w
  BY <1>5, <1>6, Extended
<1>8. PICK q : q = IF IsConst(t, i.rt) THEN [s |-> PutLo(t, m, t.const[i.rt]), x |-> m.x, hi |-> m.hi]
                   ELSE Map_RD_NE_RT(t, i)
  OBVIOUS
<1>9. Held(q.s, q, {ECX}, M, Z, i.rd, u, 1) /\ q.s.host[ECX] = a
  <2>1. CASE IsConst(t, i.rt)
    <3>1. q.s = PutLo(t, m, w) /\ q.x = m.x /\ q.hi = m.hi
      BY <1>5, <1>8, <2>1
    <3>2. Held(PutLo(t, m, w), m, {ECX}, M, Z, i.rd, u, 1)
      BY <1>5, <1>6, PutDest, Signs
    <3>3. m.x # ECX
      BY <1>1, MarkFacts, HostFacts DEF On, Good, Takes, Has
    <3>4. PutLo(t, m, w).host[ECX] = t.host[ECX]
      BY <1>1, <3>3 DEF PutLo, Mov, On, Good, Typed
    <3>5. Held(q.s, q, {ECX}, M, Z, i.rd, u, 1)
      BY <3>1, <3>2 DEF Held, Takes, Has
    <3>6. QED
      BY <1>3, <3>1, <3>4, <3>5
  <2>2. CASE ~IsConst(t, i.rt)
    <3>1. q = Map_RD_NE_RT(t, i)
      BY <1>8, <2>2
    <3>2. Held(q.s, q, {ECX}, M, Z, i.rd, u, 1)
      BY <1>1, <1>4, <1>6, <2>2, <3>1, NERTHeld
    <3>3. Still(t, q.s)
      BY <1>1, <2>2, <3>1, NERTStill DEF Fits
    <3>4. QED
      BY <1>3, <3>2, <3>3 DEF Still
  <2>3. QED
    BY <2>1, <2>2
<1>10. q.s.host[q.x] = w
  BY <1>7, <1>9, HeldWord
<1>11. On(By(i, q.s, q, a, w), {ECX}, With(M, i.rd, Sext(ShiftWord(i.op, w, a % W))), Z)
  BY <1>2, <1>3, <1>5, <1>9, ShiftedBy
<1>12. MoveToCL(i, m, t) = By(i, q.s, q, a, w)
  BY <1>8, <1>9, <1>10 DEF MoveToCL, ByCL, Own
<1>13. QED
  BY <1>3, <1>4, <1>11, <1>12

\* rd is neither rs nor rt.
LEMMA ShiftFreshOn ==
    ASSUME NEW s, NEW M, NEW Z, On(s, {ECX}, M, Z), NEW i, Fits(i, Z), i.rd # R0, i.rd # i.rt, i.rd # i.rs, i.op \in ShiftOps
    PROVE  On(ShiftFresh(i, MapRD(s, i, Define(i.rd, TRUE))), {ECX}, With(M, i.rd, Sext(ShiftedVar(M, i))), Z)
<1>1. PICK m : m = MapRD(s, i, Define(i.rd, TRUE))
  OBVIOUS
<1>2. Dest(m.s, m, {ECX}, M, Z, i.rd, 1)
  BY <1>1, WrittenWord
<1>3. /\ i.rd \in Reg \ Z /\ i.rs \in Reg \ Z /\ i.rt \in Reg \ Z /\ {ECX} \subseteq {ECX} /\ Machine(M) /\ Fields(i)
      /\ Two({i.rd, i.rt}) /\ Two({i.rd, i.rs}) /\ i.rd \in {i.rd, i.rt} /\ i.rd \in {i.rd, i.rs}
  BY TwoOf DEF Fits, Fields, On, Follows
<1>4. Low(M.gpr[i.rs]) \in Word /\ Low(M.gpr[i.rt]) \in Word /\ Low(M.gpr[R0]) = 0
  BY <1>3, AskedDouble, SumWord
<1>5. CASE i.rs # i.rt /\ i.rs # R0
  <2>1. PICK x, o : x = MapRS(m.s, i, Want(i.rs, TRUE)) /\ o = MapIn(m.s, i.rs, TRUE, {i.rd, i.rt})
    OBVIOUS
  <2>2. FetchedWord(o, m.s, i.rs, {i.rd, i.rt}) /\ o.s = x.s /\ o.lo = x.s.host[x.x]
    BY <2>1 DEF FetchedWord, Fetched, MapIn, Operand, MapRS
  <2>3. Dest(o.s, m, {ECX}, M, Z, i.rd, 1) /\ GivenWord(o, M, i.rs)
    BY <1>2, <1>3, <2>2, WordBeside
  <2>4. PICK t : t = Mov(o.s, ECX, o.lo)
    OBVIOUS
  <2>5. Dest(t, m, {ECX}, M, Z, i.rd, 1)
    BY <2>3, <2>4, ByOn DEF GivenWord
  <2>6. t.host[ECX] = Low(M.gpr[i.rs])
    <3>1. o.s.host \in [Host -> Word] /\ o.lo = Low(M.gpr[i.rs]) /\ Typed(o.s)
      BY <2>3 DEF Dest, On, Good, Follows, Image, GivenWord
    <3>2. QED
      BY <2>4, <3>1, HostFacts DEF Mov, Typed
  <2>7. On(MoveToCL(i, m, t), {ECX}, With(M, i.rd, Sext(ShiftedVar(M, i))), Z)
    BY <2>5, <2>6, <1>5, MoveToCLOn DEF ShiftedVar
  <2>8. ShiftFresh(i, m) = MoveToCL(i, m, t)
    BY <1>5, <2>1, <2>2, <2>4 DEF ShiftFresh, AmountToCL, Own
  <2>9. QED
    BY <1>1, <2>7, <2>8
<1>6. CASE i.rt = i.rs /\ i.rt = R0
  <2>1. ShiftedVar(M, i) = 0
    <3>1. 0 % W \in 0 .. W - 1 /\ 0 \in Word
      BY PowerPositive, Signs
    <3>2. QED
      BY <1>4, <1>6, <3>1, ShiftNothing DEF ShiftedVar
  <2>2. On(PutLo(m.s, m, 0), {ECX}, With(M, i.rd, Sext(0)), Z)
    BY <1>2, DestOn, Signs
  <2>3. ShiftFresh(i, m) = PutLo(m.s, m, 0)
    BY <1>6 DEF ShiftFresh
  <2>4. QED
    BY <1>1, <2>1, <2>2, <2>3
<1>7. CASE (i.rs = i.rt \/ i.rs = R0) /\ ~(i.rt = i.rs /\ i.rt = R0)
  <2>1. PICK q, o : q = MapRT(m.s, i, Want(i.rt, TRUE)) /\ o = MapIn(m.s, i.rt, TRUE, {i.rd, i.rs})
    OBVIOUS
  <2>2. FetchedWord(o, m.s, i.rt, {i.rd, i.rs}) /\ o.s = q.s /\ o.lo = q.s.host[q.x]
    BY <2>1 DEF FetchedWord, Fetched, MapIn, Operand, MapRT
  <2>3. Dest(o.s, m, {ECX}, M, Z, i.rd, 1) /\ GivenWord(o, M, i.rt)
    BY <1>2, <1>3, <2>2, WordBeside
  <2>4. PICK w : w = o.lo
    OBVIOUS
  <2>5. w \in Word /\ w = Low(M.gpr[i.rt])
    BY <2>3, <2>4 DEF GivenWord
  <2>6. ShiftFresh(i, m) = ByRT(i, m, q)
    BY <1>7, <2>1 DEF ShiftFresh
  <2>7. CASE i.rs = i.rt
    <3>1. On(By(i, o.s, m, w, w), {ECX}, With(M, i.rd, Sext(ShiftWord(i.op, w, w % W))), Z)
      BY <2>3, <2>5, ShiftedBy
    <3>2. ByRT(i, m, q) = By(i, o.s, m, w, w)
      BY <2>2, <2>4, <2>7 DEF ByRT
    <3>3. QED
      BY <1>1, <2>5, <2>6, <2>7, <3>1, <3>2 DEF ShiftedVar
  <2>8. CASE i.rs # i.rt
    <3>1. On(PutLo(o.s, m, w), {ECX}, With(M, i.rd, Sext(w)), Z)
      BY <2>3, <2>5, DestOn
    <3>2. ByRT(i, m, q) = PutLo(o.s, m, w)
      BY <2>2, <2>4, <2>8 DEF ByRT
    <3>3. i.rs = R0
      BY <1>7, <2>8
    <3>4. ShiftedVar(M, i) = w
      BY <1>4, <2>5, <3>3, ShiftNothing DEF ShiftedVar
    <3>5. QED
      BY <1>1, <2>6, <3>1, <3>2, <3>4
  <2>9. QED
    BY <2>7, <2>8
<1>8. QED
  BY <1>5, <1>6, <1>7

\* SLLV, SRLV and SRAV: the amount goes to ECX, and what was in it is evicted first.
THEOREM ShiftVarOn ==
    ASSUME NEW s, NEW M, NEW Z, NEW i, Enters(s, i, M, Z), i.rd # R0, i.op \in ShiftOps
    PROVE  On(dyna4300i_shift_var(s, i), {}, With(M, i.rd, Sext(ShiftedVar(M, i))), Z)
<1>1. On(s, {}, M, Z) /\ Fits(i, Z)
  BY EntersFacts
<1>2. PICK t : t = Vacate(s, ECX)
  OBVIOUS
<1>3. On(t, {}, M, Z) /\ t.map[ECX].mips = Unused /\ Typed(t) /\ t.map \in MapType
  <2>1. On(t, {}, M, Z) /\ t.map[ECX].mips = Unused
    BY <1>1, <1>2, VacateOn, HostFacts
  <2>2. QED
    BY <2>1 DEF On, Good, Typed
<1>4. PICK e : e = Entry(Protected, TRUE, FALSE, ECX, t.map[ECX].birth)
  OBVIOUS
<1>5. e \in EntryType /\ e.mips = Protected
  <2>1. t.map[ECX].birth \in Nat
    BY <1>3, HostFacts, EntryTyped
  <2>2. QED
    BY <1>4, <2>1, HostFacts DEF Entry, EntryType, Marks
<1>6. PICK u : u = [t EXCEPT !.map[ECX] = e]
  OBVIOUS
<1>7. On(u, {ECX}, M, Z)
  BY <1>3, <1>5, <1>6, HostFacts, MarkOn
<1>8. PICK v : v = ShiftVar(u, i)
  OBVIOUS
<1>9. On(v, {ECX}, With(M, i.rd, Sext(ShiftedVar(M, i))), Z)
  BY <1>1, <1>7, <1>8, ShiftOwnOn, ShiftFreshOn DEF ShiftVar
<1>10. PICK f : f = [v.map[ECX] EXCEPT !.mips = Unused]
  OBVIOUS
<1>11. f \in EntryType /\ f.mips = Unused /\ v.map[ECX].mips = Protected
  <2>1. v.map[ECX] \in EntryType /\ v.map[ECX].mips = Protected
    BY <1>9, HostFacts, EntryTyped DEF On, Good, Typed
  <2>2. QED
    BY <1>10, <2>1 DEF EntryType, Marks
<1>12. On([v EXCEPT !.map[ECX] = f], {}, With(M, i.rd, Sext(ShiftedVar(M, i))), Z)
  BY <1>9, <1>11, HostFacts, MarkFacts, MarkOn
<1>13. dyna4300i_shift_var(s, i) = [v EXCEPT !.map[ECX] = f]
  BY <1>2, <1>3, <1>4, <1>6, <1>8, <1>10 DEF dyna4300i_shift_var, Typed
<1>14. QED
  BY <1>12, <1>13

-------------------------------------------------------------------------------
(* Shifts of doubles                                                         *)

\* rd is to be changed as a double word, and only its low word is asked for.
ChangeLow(r) == Conditions(r, FALSE, TRUE, FALSE, TRUE)

\* The destination of a double shift: its low word is there, its high word will be.
LEMMA ChangeLowOn ==
    ASSUME NEW s, NEW M, NEW Z, On(s, {}, M, Z), NEW i, Fits(i, Z), i.rd # R0, NEW m,
           m = MapRD(s, i, ChangeLow(i.rd))
    PROVE  Dest(m.s, m, {}, M, Z, i.rd, 2) /\ m.s.host[m.x] = Low(M.gpr[i.rd])
<1>1. PICK c : c = ChangeLow(i.rd)
  OBVIOUS
<1>2. PICK keep : keep = {i.rs, i.rt}
  OBVIOUS
<1>3. i.rd \in Reg \ Z /\ Fields(i) /\ Two(keep) /\ Machine(M)
  BY <1>2, Operands2 DEF Fits, Fields, On, Follows
<1>4. /\ Allowed(c, {}, keep) /\ c.mips = i.rd /\ c.is32 = FALSE /\ c.dirty /\ ~c.noLo /\ c.noHi
  BY <1>1, <1>3 DEF ChangeLow, Conditions, Allowed, RequestType, Two
<1>5. m = MapRegister(s, c, keep)
  BY <1>1, <1>2 DEF MapRD
<1>6. Answers(s, m, c, {}, keep)
  BY <1>4, <1>5, MapRegisterGood DEF On
<1>7. Loaded(m, M, c, Z, ~c.noLo, ~c.noHi)
  BY <1>4, <1>5, MapRegisterFollows DEF On
<1>8. /\ Good(m.s, {}) /\ Takes(m.s, m, i.rd, FALSE)
      /\ Follows(m.s, M, Z \cup {i.rd}) /\ m.s.host[m.x] = Low(M.gpr[i.rd])
  BY <1>3, <1>4, <1>6, <1>7 DEF Answers, Loaded, Takes, Has
<1>9. Takes(m.s, m, i.rd, 2 = 1)
  BY <1>8 DEF Takes
<1>10. QED
  BY <1>3, <1>8, <1>9 DEF Dest, On, Fits

\* What is written to a wide place.
LEMMA DestBoth ==
    ASSUME NEW s, NEW m, NEW p, NEW M, NEW Z, NEW d, Dest(s, m, p, M, Z, d, 2), NEW w \in Word, NEW h \in Word
    PROVE  On(Put(s, m, w, h, FALSE), p, With(M, d, Pair(w, h)), Z)
BY PutDest DEF Held

\* dsll32.
LEMMA Dsll32On ==
    ASSUME NEW s, NEW M, NEW Z, NEW i, Enters(s, i, M, Z), i.rd # R0
    PROVE  On(dyna4300i_special_dsll32(s, i), {}, With(M, i.rd, DoubleOf(M.gpr[i.rt] * 2 ^ (W + i.sa))), Z)
<1>1. On(s, {}, M, Z) /\ Fits(i, Z) /\ i.rt \in Reg \ Z /\ i.rd \in Reg \ Z /\ M.gpr[i.rt] \in Double /\ i.sa \in 0 .. W - 1
      /\ Two({i.rd, i.rs}) /\ i.rd \in {i.rd, i.rs}
  BY EntersFacts
<1>2. PICK v, w : v = M.gpr[i.rt] /\ w = WordOf(Low(v) * 2 ^ i.sa)
  OBVIOUS
<1>3. w \in Word /\ DoubleOf(v * 2 ^ (W + i.sa)) = Pair(0, w) /\ 0 \in Word
  BY <1>1, <1>2, Lefts, Signs
<1>4. CASE i.rt = i.rd
  <2>1. PICK m : m = MapRD(s, i, ChangeLow(i.rd))
    OBVIOUS
  <2>2. Dest(m.s, m, {}, M, Z, i.rd, 2) /\ Own(m) = Low(v)
    BY <1>1, <1>2, <1>4, <2>1, ChangeLowOn DEF Own
  <2>3. On(Put(m.s, m, 0, w, FALSE), {}, With(M, i.rd, Pair(0, w)), Z)
    BY <1>3, <2>2, DestBoth
  <2>4. dyna4300i_special_dsll32(s, i) = Put(m.s, m, 0, w, FALSE)
    BY <1>2, <1>4, <2>1, <2>2 DEF dyna4300i_special_dsll32, Up, ChangeLow
  <2>5. QED
    BY <1>2, <1>3, <2>3, <2>4
<1>5. CASE i.rt # i.rd
  <2>1. PICK m : m = MapRD(s, i, DefineBoth(i.rd, FALSE))
    OBVIOUS
  <2>2. PICK o : o = MapIn(m.s, i.rt, TRUE, {i.rd, i.rs})
    OBVIOUS
  <2>3. Dest(m.s, m, {}, M, Z, i.rd, 2)
    BY <1>1, <2>1, WrittenBoth
  <2>4. FetchedWord(o, m.s, i.rt, {i.rd, i.rs})
    BY <2>2 DEF FetchedWord, Fetched
  <2>5. Dest(o.s, m, {}, M, Z, i.rd, 2) /\ o.lo = Low(v)
    BY <1>1, <1>2, <1>5, <2>3, <2>4, WordAlone DEF GivenWord
  <2>6. On(Put(o.s, m, 0, w, FALSE), {}, With(M, i.rd, Pair(0, w)), Z)
    BY <1>3, <2>5, DestBoth
  <2>7. dyna4300i_special_dsll32(s, i) = Put(o.s, m, 0, w, FALSE)
    BY <1>2, <1>5, <2>1, <2>2, <2>5 DEF dyna4300i_special_dsll32, Up, UpRT
  <2>8. QED
    BY <1>2, <1>3, <2>6, <2>7
<1>6. QED
  BY <1>4, <1>5

\* dsra32, unless the word is shifted in place.
LEMMA Dsra32On ==
    ASSUME NEW s, NEW M, NEW Z, NEW i, Enters(s, i, M, Z), i.rd # R0, i.rd # i.rt
    PROVE  On(dyna4300i_special_dsra32(s, i), {}, With(M, i.rd, DoubleOf(Sar(SignedD(M.gpr[i.rt]), W + i.sa))), Z)
<1>1. On(s, {}, M, Z) /\ Fits(i, Z) /\ i.rt \in Reg \ Z /\ i.rd \in Reg \ Z /\ M.gpr[i.rt] \in Double /\ i.sa \in 0 .. W - 1
      /\ Two({i.rd, i.rs}) /\ i.rd \in {i.rd, i.rs}
  BY EntersFacts
<1>2. PICK v, w : v = M.gpr[i.rt] /\ w = WordOf(Sar(Signed(High(v)), i.sa))
  OBVIOUS
<1>3. w \in Word /\ DoubleOf(Sar(SignedD(v), W + i.sa)) = Sext(w)
  <2>1. Low(v) \in Word /\ High(v) \in Word /\ v = Pair(Low(v), High(v))
    BY <1>1, <1>2, Pairs
  <2>2. Small(Signed(High(v)))
    BY <2>1, SignedWords
  <2>3. Sar(SignedD(v), W + i.sa) = Sar(Signed(High(v)), i.sa)
    BY <1>1, <2>1, RightsOfHigh
  <2>4. QED
    BY <1>1, <1>2, <2>2, <2>3, Rights
<1>4. PICK m : m = MapRD(s, i, Define(i.rd, TRUE))
  OBVIOUS
<1>5. PICK o : o = MapIn(m.s, i.rt, FALSE, {i.rd, i.rs})
  OBVIOUS
<1>6. Dest(m.s, m, {}, M, Z, i.rd, 1)
  BY <1>1, <1>4, WrittenWord
<1>7. FetchedBoth(o, m.s, i.rt, {i.rd, i.rs})
  BY <1>5 DEF FetchedBoth, Fetched
<1>8. Dest(o.s, m, {}, M, Z, i.rd, 1) /\ o.hi = High(v)
  BY <1>1, <1>2, <1>6, <1>7, BothBeside DEF GivenBoth
<1>9. On(PutLo(o.s, m, w), {}, With(M, i.rd, Sext(w)), Z)
  BY <1>3, <1>8, DestOn
<1>10. dyna4300i_special_dsra32(s, i) = PutLo(o.s, m, w)
  BY <1>2, <1>4, <1>5, <1>8 DEF dyna4300i_special_dsra32, DownRT
<1>11. QED
  BY <1>2, <1>3, <1>9, <1>10

\* dsrl32 of a word that is not negative leaves nothing.
LEMMA Dsrl32On ==
    ASSUME NEW s, NEW M, NEW Z, NEW i, Enters(s, i, M, Z), i.rd # R0, CheckIs32Bit(s, i.rt),
           IsWord(M.gpr[i.rt]), ~Negative(Low(M.gpr[i.rt]))
    PROVE  On(dyna4300i_special_dsrl32(s, i), {}, With(M, i.rd, M.gpr[i.rt] \div 2 ^ (W + i.sa)), Z)
<1>1. On(s, {}, M, Z) /\ i.rd \in Reg \ Z /\ M.gpr[i.rt] \in Double /\ i.sa \in 0 .. W - 1 /\ Low(M.gpr[i.rt]) \in Word
  BY EntersFacts
<1>2. PICK w : w = Low(M.gpr[i.rt])
  OBVIOUS
<1>3. w \in Word /\ M.gpr[i.rt] = w
  <2>1. M.gpr[i.rt] = Sext(w) /\ w \in Word /\ ~Negative(w)
    BY <1>1, <1>2, Extended
  <2>2. w \in Nat /\ w < 2 ^ (W - 1)
    BY <2>1, Signs, Widths DEF Negative
  <2>3. QED
    BY <2>1, <2>2, Plainly
<1>4. w \div 2 ^ (W + i.sa) = 0
  <2>1. 2 ^ (W + i.sa) = 2 ^ W * 2 ^ i.sa
    <3>1. W \in Nat /\ i.sa \in Nat /\ W + i.sa <= 2 * W
      BY <1>1, Widths
    <3>2. 2 ^ (W + i.sa) = 2 ^ W * 2 ^ i.sa
      BY <3>1, PowerSum
    <3>3. 2 ^ i.sa \in Nat /\ 2 ^ W \in Nat
      BY <1>1, <3>1, PowerPositive
    <3>4. QED
      BY <3>1, <3>2, <3>3, PowerSum
  <2>2. PICK x \in Nat \ {0}, y \in Nat \ {0} : x = 2 ^ W /\ y = 2 ^ i.sa
    BY <1>1, Widths, PowerPositive
  <2>3. PICK z \in Nat \ {0} : z = x * y /\ x <= z
    <3>1. x * y \in Nat \ {0} /\ x <= x * y
      BY <2>2
    <3>2. QED
      BY <3>1
  <2>4. w \in 0 .. x - 1
    BY <1>3, <2>2 DEF Word
  <2>5. w \div z = 0
    BY <2>3, <2>4
  <2>6. QED
    BY <2>1, <2>2, <2>3, <2>5
<1>5. On(MapConst(s, i.rd, 0), {}, With(M, i.rd, Sext(0)), Z)
  BY <1>1, MapConstOn, Signs
<1>6. QED
  BY <1>3, <1>4, <1>5, Extended DEF dyna4300i_special_dsrl32

\* dsra of a word.
LEMMA DsraOn ==
    ASSUME NEW s, NEW M, NEW Z, NEW i, Enters(s, i, M, Z), i.rd # R0, CheckIs32Bit(s, i.rt), i.op = "dsra",
           IsWord(M.gpr[i.rt])
    PROVE  On(dyna4300i_special_dsra(s, i), {}, With(M, i.rd, DoubleOf(Sar(SignedD(M.gpr[i.rt]), i.sa))), Z)
<1>1. M.gpr[i.rt] \in Double /\ i.sa \in 0 .. W - 1 /\ Low(M.gpr[i.rt]) \in Word
  BY EntersFacts
<1>2. PICK w : w = Low(M.gpr[i.rt])
  OBVIOUS
<1>3. w \in Word /\ M.gpr[i.rt] = Sext(w) /\ SignedD(Sext(w)) = Signed(w) /\ Small(Signed(w))
  BY <1>1, <1>2, Extended, SignedSext, SignedWords
<1>4. DoubleOf(Sar(SignedD(M.gpr[i.rt]), i.sa)) = Sext(WordOf(Sar(Signed(w), i.sa)))
  BY <1>1, <1>3, Rights
<1>5. On(dyna4300i_special_shift(s, i), {}, With(M, i.rd, Sext(ShiftWord(i.op, w, i.sa))), Z)
  BY <1>2, ShiftOn DEF ShiftOps
<1>6. ShiftWord(i.op, w, i.sa) = WordOf(Sar(Signed(w), i.sa))
  BY DEF ShiftWord
<1>7. QED
  BY <1>4, <1>5, <1>6 DEF dyna4300i_special_dsra

-------------------------------------------------------------------------------
(* LO and HI                                                                 *)

\* add, sub, and dsub of words whose difference is one.
LEMMA SubOn ==
    ASSUME NEW s, NEW M, NEW Z, NEW i, Enters(s, i, M, Z), i.rd # R0,
           IsWord(M.gpr[i.rs]), IsWord(M.gpr[i.rt]), i.op \in {"add", "sub", "dsub"},
           i.op = "dsub" => Both32(s, i) /\ IsWord(DoubleOf(M.gpr[i.rs] - M.gpr[i.rt]))
    PROVE  On(dyna4300i_special_sub(s, i), {}, With(M, i.rd, Interpret(M, i).gpr[i.rd]), Z)
<1>1. /\ On(s, {}, M, Z) /\ Fits(i, Z) /\ M.gpr[i.rs] \in Double /\ M.gpr[i.rt] \in Double
      /\ Low(M.gpr[i.rs]) \in Word /\ Low(M.gpr[i.rt]) \in Word /\ M.gpr \in [Reg -> Double] /\ i.rd \in Reg
  <2>1. /\ On(s, {}, M, Z) /\ Fits(i, Z) /\ M.gpr[i.rs] \in Double /\ M.gpr[i.rt] \in Double
        /\ Low(M.gpr[i.rs]) \in Word /\ Low(M.gpr[i.rt]) \in Word /\ i.rd \in Reg
    BY EntersFacts
  <2>2. Machine(M)
    BY EntersFacts
  <2>3. QED
    BY <2>1, <2>2 DEF Machine
<1>2. PICK a, b : a = M.gpr[i.rs] /\ b = M.gpr[i.rt]
  OBVIOUS
<1>3. a \in Int /\ b \in Int /\ Low(a) = WordOf(a) /\ Low(b) = WordOf(b) /\ Low(a) \in Int /\ Low(b) \in Int
  BY <1>1, <1>2, Cut
<1>4. \A v : Set(M, i.rd, v).gpr[i.rd] = v
  BY <1>1 DEF Set, Machine
<1>5. PICK sub \in BOOLEAN : sub = (i.op # "add")
  OBVIOUS
<1>6. On(MipsAdd(s, i, sub), {}, With(M, i.rd, Sext(Sum(M, i, sub))), Z)
  BY <1>1, MipsAddOn
<1>7. dyna4300i_special_sub(s, i) = MipsAdd(s, i, sub)
  BY <1>5 DEF dyna4300i_special_sub
<1>8. Interpret(M, i).gpr[i.rd] = Sext(Sum(M, i, sub))
  <2>1. CASE i.op = "add"
    BY <1>2, <1>4, <1>5, <2>1 DEF Interpret, r4300i_add, RS, RT, lo, Sum, Addend, Minus
  <2>2. Low(a) + (-Low(b)) = Low(a) - Low(b)
    BY <1>3
  <2>3. CASE i.op = "sub"
    <3>1. Sum(M, i, sub) = WordOf(Low(a) - Low(b))
      BY <1>2, <1>5, <2>2, <2>3 DEF Sum, Addend, Minus
    <3>2. Interpret(M, i) = r4300i_sub(M, i)
      BY <2>3 DEF Interpret
    <3>3. QED
      BY <1>2, <1>4, <3>1, <3>2 DEF r4300i_sub, RS, RT, lo
  <2>4. CASE i.op = "dsub"
    <3>1. Sum(M, i, sub) = WordOf(Low(a) - Low(b))
      BY <1>2, <1>5, <2>2, <2>4 DEF Sum, Addend, Minus
    <3>2. Interpret(M, i) = r4300i_dsub(M, i)
      BY <2>4 DEF Interpret
    <3>3. PICK d : d = DoubleOf(a - b)
      OBVIOUS
    <3>4. Interpret(M, i).gpr[i.rd] = d
      BY <1>2, <1>4, <3>2, <3>3 DEF r4300i_dsub, RS, RT
    <3>5. a - b \in Int /\ d \in Double /\ IsWord(d)
      BY <1>2, <1>3, <2>4, <3>3, Cut
    <3>6. d = Sext(Low(d)) /\ Low(d) = WordOf(a - b)
      BY <3>3, <3>5, Extended, LowCut
    <3>7. WordOf(Low(a) - Low(b)) = WordOf(a - b)
      BY <1>3, WordSums
    <3>8. QED
      BY <3>1, <3>4, <3>6, <3>7
  <2>5. QED
    BY <2>1, <2>3, <2>4
<1>9. QED
  BY <1>6, <1>7, <1>8

\* A pair is moved from a register to another.
LEMMA MoveOn ==
    ASSUME NEW s, NEW M, NEW Z, On(s, {}, M, Z), NEW d \in Reg \ Z, d # R0, NEW r \in Reg \ Z, r # d, NEW k \in Reg
    PROVE  On(Move(s, d, r, {k}), {}, With(M, d, M.gpr[r]), Z)
<1>1. PICK keep : keep = {k} \cup {r}
  OBVIOUS
<1>2. PICK beside : beside = {k} \cup {d}
  OBVIOUS
<1>3. Two(keep) /\ Two(beside) /\ d \in beside /\ Machine(M)
  BY <1>1, <1>2 DEF Two, On, Follows
<1>4. PICK m : m = MapRegister(s, DefineBoth(d, FALSE), keep)
  OBVIOUS
<1>5. Dest(m.s, m, {}, M, Z, d, 2)
  <2>1. Writes(s, m, {}, M, Z \cup {d}, d, FALSE, keep)
    BY <1>3, <1>4, DefineOn
  <2>2. Takes(m.s, m, d, 2 = 1)
    BY <2>1 DEF Writes, Takes
  <2>3. QED
    BY <1>3, <2>1, <2>2 DEF Writes, Dest
<1>6. PICK o : o = Use(m.s, r, FALSE, beside)
  OBVIOUS
<1>7. FetchedBoth(o, m.s, r, beside)
  BY <1>6 DEF FetchedBoth, Fetched
<1>8. Dest(o.s, m, {}, M, Z, d, 2) /\ GivenBoth(o, M, r)
  BY <1>3, <1>5, <1>7, BothBeside
<1>9. On(Put(o.s, m, o.lo, o.hi, FALSE), {}, With(M, d, Pair(o.lo, o.hi)), Z)
  BY <1>8, DestBoth DEF GivenBoth
<1>10. Pair(o.lo, o.hi) = M.gpr[r]
  BY <1>8, Pairs DEF GivenBoth
<1>11. Move(s, d, r, {k}) = Put(o.s, m, o.lo, o.hi, FALSE)
  BY <1>1, <1>2, <1>4, <1>6 DEF Move, MoveInto, PutBoth
<1>12. QED
  BY <1>9, <1>10, <1>11

\* The registers an instruction names are not those of the multiplier.
Named(i) == i.rd \in Gpr \cup {R0} /\ i.rs \in Gpr \cup {R0} /\ i.rt \in Gpr \cup {R0}

\* HI and LO are no operand of an instruction.
LEMMA NamedFacts ==
    ASSUME NEW i, Named(i)
    PROVE  /\ Fields(i) /\ HI \in Reg /\ LO \in Reg /\ HI # R0 /\ LO # R0 /\ HI # LO
           /\ HI \notin {i.rd, i.rs, i.rt} /\ LO \notin {i.rd, i.rs, i.rt}
BY HostRegsAssumption DEF Named, Fields, Reg

\* MFHI, MFLO, MTHI and MTLO.
THEOREM MovesOn ==
    ASSUME NEW s, NEW M, NEW Z, NEW i, Enters(s, i, M, Z), Named(i), HI \notin Z, LO \notin Z
    PROVE  /\ i.op = "mfhi" /\ i.rd # R0 => On(dyna4300i_mf_mt(s, i), {}, With(M, i.rd, M.gpr[HI]), Z)
           /\ i.op = "mflo" /\ i.rd # R0 => On(dyna4300i_mf_mt(s, i), {}, With(M, i.rd, M.gpr[LO]), Z)
           /\ i.op = "mthi" => On(dyna4300i_mf_mt(s, i), {}, With(M, HI, M.gpr[i.rs]), Z)
           /\ i.op = "mtlo" => On(dyna4300i_mf_mt(s, i), {}, With(M, LO, M.gpr[i.rs]), Z)
<1>1. /\ On(s, {}, M, Z) /\ i.rd \in Reg \ Z /\ i.rs \in Reg \ Z /\ i.rt \in Reg
      /\ HI \in Reg \ Z /\ LO \in Reg \ Z /\ HI # R0 /\ LO # R0 /\ HI # i.rd /\ LO # i.rd /\ HI # i.rs /\ LO # i.rs
  BY EntersFacts, NamedFacts
<1>2. CASE i.op = "mfhi" /\ i.rd # R0
  BY <1>1, <1>2, MoveOn DEF dyna4300i_mf_mt
<1>3. CASE i.op = "mflo" /\ i.rd # R0
  BY <1>1, <1>3, MoveOn DEF dyna4300i_mf_mt
<1>4. CASE i.op = "mthi"
  BY <1>1, <1>4, MoveOn DEF dyna4300i_mf_mt
<1>5. CASE i.op = "mtlo"
  BY <1>1, <1>5, MoveOn DEF dyna4300i_mf_mt
<1>6. QED
  BY <1>2, <1>3, <1>4, <1>5

-------------------------------------------------------------------------------
(* Saving host registers around a call                                       *)

\* What the host register k holds matters to the block.
Live(s, k) == s.map[k].mips \in Reg \cup {HighWord}
\* If so, it has been pushed.
Saved(s, k) == Live(s, k) => s.stack[k] = s.host[k]
\* From s to t nothing that holds values changes but the stack.
Carries(s, t) ==
    /\ Aside(s, t) /\ t.host = s.host /\ t.gpr = s.gpr /\ t.flushed = s.flushed /\ t.const = s.const
    /\ Less(s, t, Reg)
\* The owner of a host register that is to be pushed.
Owner(s, k) == IF s.map[k].mips = HighWord THEN CHOOSE j \in Mapped(s) : s.map[j].hi = k ELSE k

\* The owner of a host register.
LEMMA OwnerFacts ==
    ASSUME NEW s, NEW p, Good(s, p), NEW k \in Host
    PROVE  /\ Owner(s, k) \in Host /\ (Owner(s, k) = k \/ s.map[Owner(s, k)].hi = k)
           /\ s.map[Owner(s, k)].mips \in s.dead \ s.now => s.map[Owner(s, k)].mips \in Reg
<1>1. Consistent(s.map, s.const) /\ s.dead \subseteq Reg
  BY DEF Good, Typed
<1>2. CASE s.map[k].mips = HighWord
  <2>1. \E j \in Mapped(s) : s.map[j].hi = k
    BY <1>1, <1>2 DEF Consistent, Mapped
  <2>2. Owner(s, k) \in Mapped(s) /\ s.map[Owner(s, k)].hi = k
    BY <1>2, <2>1 DEF Owner
  <2>3. QED
    BY <1>1, <2>2 DEF Mapped
<1>3. CASE s.map[k].mips # HighWord
  BY <1>1, <1>3 DEF Owner
<1>4. QED
  BY <1>2, <1>3

\* A clean register that is flushed is only forgotten.
LEMMA FlushClean ==
    ASSUME NEW s, NEW p, Good(s, p), NEW k \in Host, s.map[k].mips \in Reg, ~s.map[k].dirty
    PROVE  /\ Contents(s, FlushRegister(s, k))
           /\ Vacated(s.map, FlushRegister(s, k).map, k)
<1>1. Typed(s) /\ s.map[k].hi \in Host
  BY DEF Good, Consistent
<1>2. Contents(s, FlushRegister(s, k))
  BY <1>1, FlushContents
<1>3. QED
  BY <1>1, <1>2, FlushEffect

\* PUSH_RegIfMapped saves what matters, or forgets a clean register.
LEMMA PushOn ==
    ASSUME NEW s, NEW M, NEW Z, On(s, {}, M, Z), NEW k \in Host, NEW t, t = PushIfMapped(s, k)
    PROVE  /\ On(t, {}, M, Z) /\ Carries(s, t) /\ Saved(t, k) /\ Spared(s, t, k)
           /\ \A j \in Host : Saved(s, j) => Saved(t, j)
<1>1. Good(s, {}) /\ Typed(s) /\ Image(s) /\ Follows(s, M, Z)
  BY DEF On, Good, Follows
<1>2. Good(t, {}) /\ Less(s, t, Reg) /\ t.const = s.const /\ Spared(s, t, k)
  BY <1>1, PushGood
<1>3. PICK o : o = Owner(s, k)
  OBVIOUS
<1>4. o \in Host /\ (o = k \/ s.map[o].hi = k) /\ (s.map[o].mips \in s.dead \ s.now => s.map[o].mips \in Reg)
  BY <1>1, <1>3, OwnerFacts
<1>5. t = IF s.map[k].mips = Unused THEN s
          ELSE IF BlockAnalysis /\ s.map[o].mips \in s.dead \ s.now /\ ~s.map[o].dirty THEN FlushRegister(s, o)
          ELSE [s EXCEPT !.stack[k] = s.host[k]]
  BY <1>3 DEF PushIfMapped, Owner
<1>6. CASE s.map[k].mips = Unused
  <2>1. t = s /\ ~Live(s, k)
    BY <1>5, <1>6, MarkFacts DEF Live
  <2>2. QED
    BY <1>1, <1>2, <2>1 DEF On, Carries, Aside, Saved
<1>7. CASE s.map[o].mips \in Reg /\ ~s.map[o].dirty /\ t = FlushRegister(s, o)
  <2>1. Contents(s, t) /\ Vacated(s.map, t.map, o)
    BY <1>1, <1>4, <1>7, FlushClean
  <2>2. Follows(t, M, Z)
    BY <1>1, <1>4, <1>7, FlushFollows
  <2>3. t.map[k].mips = Unused
    BY <1>4, <2>1 DEF Vacated
  <2>4. ~Live(t, k) /\ \A j \in Host : Live(t, j) => Live(s, j)
    BY <1>2, <2>3, MarkFacts DEF Live, Less
  <2>5. QED
    BY <1>2, <2>1, <2>2, <2>4 DEF On, Contents, Carries, Saved
<1>8. CASE t = [s EXCEPT !.stack[k] = s.host[k]]
  <2>1. Typed(t) /\ Same(s, t)
    <3>1. Typed([s EXCEPT !.stack[k] = s.host[k]]) /\ Same(s, [s EXCEPT !.stack[k] = s.host[k]])
      BY <1>1, SetOther
    <3>2. QED
      BY <1>8, <3>1
  <2>2. /\ t.stack = [s.stack EXCEPT ![k] = s.host[k]] /\ t.host = s.host /\ t.gpr = s.gpr /\ t.flushed = s.flushed
        /\ Aside(s, t) /\ t.const = s.const /\ t.map = s.map
    BY <1>1, <1>8 DEF Typed, Aside
  <2>3. Image(t)
    BY <1>1, <2>2 DEF Image, Aside
  <2>4. On(t, {}, M, Z)
    BY <2>1, <2>2, <2>3, LooseOn
  <2>5. t.stack[k] = t.host[k] /\ \A j \in Host \ {k} : t.stack[j] = s.stack[j]
    BY <1>1, <2>2 DEF Image
  <2>6. QED
    BY <1>2, <2>2, <2>4, <2>5 DEF Carries, Saved, Live
<1>9. QED
  BY <1>4, <1>5, <1>6, <1>7, <1>8

\* From t to u the code that ran changed host registers: no live one outside K.
Ran(t, u, K) ==
    /\ Typed(u) /\ Image(u) /\ Same(t, u) /\ Aside(t, u)
    /\ u.gpr = t.gpr /\ u.flushed = t.flushed /\ u.dead = t.dead /\ u.now = t.now /\ u.year = t.year
    /\ \A k \in Host : Live(t, k) => u.stack[k] = t.stack[k] /\ (k \notin K => u.host[k] = t.host[k])

\* Running nothing,
LEMMA RanSelf ==
    ASSUME NEW t, Typed(t), Image(t), NEW K
    PROVE  Ran(t, t, K)
BY DEF Ran, Same, Rest, Aside

\* one piece of code after another,
LEMMA RanTransitive ==
    ASSUME NEW t, NEW u, NEW v, NEW K, NEW L, Ran(t, u, K), Ran(u, v, L)
    PROVE  Ran(t, v, K \cup L)
<1>1. \A k : Live(t, k) => Live(u, k)
  BY DEF Ran, Live, Same
<1>2. QED
  BY <1>1 DEF Ran, Same, Rest, Aside

\* more host registers than are changed,
LEMMA RanMore ==
    ASSUME NEW t, NEW u, NEW K, NEW L, Ran(t, u, K), K \subseteq L
    PROVE  Ran(t, u, L)
BY DEF Ran

\* A word is moved to a host register, a called function changes some,
LEMMA RanMov ==
    ASSUME NEW t, Typed(t), Image(t), NEW k \in Host, NEW w \in Word
    PROVE  Ran(t, Mov(t, k, w), {k}) /\ Mov(t, k, w).host[k] = w
           /\ \A j \in Host \ {k} : Mov(t, k, w).host[j] = t.host[j]
<1>1. Typed(Mov(t, k, w)) /\ Same(t, Mov(t, k, w))
  BY MovSame
<1>2. /\ Mov(t, k, w).host = [t.host EXCEPT ![k] = w] /\ Aside(t, Mov(t, k, w)) /\ Mov(t, k, w).gpr = t.gpr
      /\ Mov(t, k, w).stack = t.stack /\ Mov(t, k, w).flushed = t.flushed /\ Mov(t, k, w).const = t.const
      /\ Mov(t, k, w).dead = t.dead /\ Mov(t, k, w).now = t.now /\ Mov(t, k, w).year = t.year
  BY DEF Mov, Typed, Aside
<1>3. Image(Mov(t, k, w))
  BY <1>2 DEF Image, Aside
<1>4. \A j \in Host \ {k} : Mov(t, k, w).host[j] = t.host[j]
  BY <1>2 DEF Image
<1>5. QED
  BY <1>1, <1>2, <1>3, <1>4 DEF Ran, Image

\* and a call that loses some.
LEMMA RanClobber ==
    ASSUME NEW t, Typed(t), Image(t), NEW K
    PROVE  Ran(t, Clobber(t, K), K)
<1>1. PICK u : u = Clobber(t, K)
  OBVIOUS
<1>2. Typed(u) /\ Same(t, u)
  BY <1>1, ClobberSame
<1>3. /\ u.host = [k \in Host |-> IF k \in K THEN Ones - t.host[k] ELSE t.host[k]] /\ Aside(t, u) /\ u.gpr = t.gpr
      /\ u.stack = t.stack /\ u.flushed = t.flushed /\ u.const = t.const
      /\ u.dead = t.dead /\ u.now = t.now /\ u.year = t.year
  BY <1>1 DEF Clobber, Typed, Aside
<1>4. u.host \in [Host -> Word]
  BY <1>3, Signs DEF Image
<1>5. Image(u)
  BY <1>3, <1>4 DEF Image, Aside
<1>6. QED
  BY <1>1, <1>2, <1>3, <1>5 DEF Ran

\* and a register that was pushed is restored.
LEMMA RanPop ==
    ASSUME NEW t, Image(t), NEW u, NEW K, Ran(t, u, K), NEW k \in Host, Saved(t, k)
    PROVE  Ran(t, PopIfMapped(u, k), K \ {k}) /\ \A j \in Host \ {k} : PopIfMapped(u, k).host[j] = u.host[j]
<1>1. PICK v : v = PopIfMapped(u, k)
  OBVIOUS
<1>2. Typed(v) /\ Same(u, v) /\ Typed(u) /\ Image(u)
  BY <1>1, PopSame DEF Ran
<1>3. u.stack[k] \in Word \cup {NoConst} /\ NoConst \notin Word
  BY <1>2, MarksAssumption DEF Image
<1>4. /\ v.host = [u.host EXCEPT ![k] = IF u.stack[k] = NoConst THEN u.host[k] ELSE u.stack[k]] /\ Aside(u, v)
      /\ v.gpr = u.gpr
      /\ v.stack = u.stack /\ v.flushed = u.flushed /\ v.const = u.const
      /\ v.dead = u.dead /\ v.now = u.now /\ v.year = u.year
  BY <1>1, <1>2 DEF PopIfMapped, Typed, Aside, Image
<1>5. Image(v) /\ \A j \in Host \ {k} : v.host[j] = u.host[j]
  BY <1>2, <1>3, <1>4 DEF Image, Aside
<1>6. Live(t, k) => v.host[k] = t.host[k]
  <2>1. Live(t, k) => u.stack[k] = t.host[k] /\ t.host[k] \in Word
    BY DEF Ran, Saved, Image
  <2>2. QED
    BY <1>2, <1>3, <1>4, <2>1 DEF Image
<1>7. Same(t, v) /\ Aside(t, v)
  BY <1>2, <1>4 DEF Ran, Same, Rest, Aside
<1>8. QED
  BY <1>1, <1>2, <1>4, <1>5, <1>6, <1>7 DEF Ran

\* What ran keeps what is saved.
LEMMA RanSaved ==
    ASSUME NEW t, NEW u, NEW K, Ran(t, u, K), NEW k \in Host, Saved(t, k), k \notin K
    PROVE  Saved(u, k)
BY DEF Ran, Saved, Live, Same

\* If all that is live is back, the block is where it was,
LEMMA RanOn ==
    ASSUME NEW t, NEW p, NEW M, NEW Z, On(t, p, M, Z), NEW u, Ran(t, u, {})
    PROVE  On(u, p, M, Z)
<1>1. \A k \in Host : t.map[k].mips \in Reg \cup {HighWord} => u.host[k] = t.host[k]
  BY DEF Ran, Live
<1>2. QED
  BY <1>1, LooseOn DEF Ran

\* The register d is being written at the place m, r0 perhaps; its value is open.
Open(t, m, M, Z, d, words) ==
    d \in Reg /\ words \in {1, 2} /\ On(t, {}, M, Z \cup {d}) /\ Takes(t, m, d, words = 1)
\* A host register is not d's, and saved, or it is d's.
Backed(t, m, k) == k \in {m.x, m.hi} \/ Saved(t, k)

\* What is known of a place that is open.
LEMMA OpenPlace ==
    ASSUME NEW t, NEW m, NEW M, NEW Z, NEW d, NEW words, Open(t, m, M, Z, d, words)
    PROVE  /\ Typed(t) /\ Image(t) /\ Good(t, {}) /\ m.x \in Host /\ m.hi \in Host /\ m.hi = t.map[m.x].hi
           /\ Has(t, m, d) /\ t.host \in [Host -> Word] /\ d \in Reg /\ Follows(t, M, Z \cup {d})
BY DEF Open, On, Good, Follows, Takes, Has, Consistent, Image

\* Saving the others leaves it as it is.
LEMMA SaveOpen ==
    ASSUME NEW s, NEW m, NEW M, NEW Z, NEW d, NEW words, Open(s, m, M, Z, d, words), NEW k \in Host,
           NEW t, t = Save(s, m, k)
    PROVE  /\ Open(t, m, M, Z, d, words) /\ Carries(s, t) /\ Backed(t, m, k)
           /\ \A j \in Host : Backed(s, m, j) => Backed(t, m, j)
<1>1. m.x \in Host /\ m.hi = s.map[m.x].hi /\ s.map[m.x].mips = d /\ d \in Reg
  <2>1. Has(s, m, d) /\ d \in Reg
    BY OpenPlace
  <2>2. QED
    BY <2>1 DEF Has
<1>2. CASE k \in {m.x, m.hi}
  <2>1. t = s
    BY <1>2 DEF Save
  <2>2. Less(s, s, Reg)
    BY DEF Less
  <2>3. QED
    BY <1>2, <2>1, <2>2 DEF Backed, Carries, Aside
<1>3. CASE k \notin {m.x, m.hi}
  <2>1. t = PushIfMapped(s, k)
    BY <1>3 DEF Save
  <2>2. On(s, {}, M, Z \cup {d})
    BY DEF Open
  <2>3. /\ On(t, {}, M, Z \cup {d}) /\ Carries(s, t) /\ Saved(t, k) /\ Spared(s, t, k)
        /\ \A j \in Host : Saved(s, j) => Saved(t, j)
    BY <2>1, <2>2, PushOn
  <2>4. t.map[m.x] = s.map[m.x]
    BY <1>1, <1>3, <2>3 DEF Spared
  <2>5. Takes(t, m, d, words = 1)
    BY <2>4 DEF Takes, Has, Open
  <2>6. QED
    BY <2>3, <2>5 DEF Open, Backed
<1>4. QED
  BY <1>2, <1>3

\* What ran may have changed it.
LEMMA RanOpen ==
    ASSUME NEW t, NEW m, NEW M, NEW Z, NEW d, NEW words, Open(t, m, M, Z, d, words), NEW u, Ran(t, u, {m.x, m.hi})
    PROVE  Open(u, m, M, Z, d, words)
<1>1. /\ Typed(t) /\ Image(t) /\ Good(t, {}) /\ m.x \in Host /\ m.hi \in Host /\ m.hi = t.map[m.x].hi
      /\ t.map[m.x].mips = d /\ d \in Reg /\ Follows(t, M, Z \cup {d})
  <2>1. /\ Typed(t) /\ Image(t) /\ Good(t, {}) /\ m.x \in Host /\ m.hi \in Host /\ m.hi = t.map[m.x].hi
        /\ Has(t, m, d) /\ d \in Reg /\ Follows(t, M, Z \cup {d})
    BY OpenPlace
  <2>2. QED
    BY <2>1 DEF Has
<1>2. Good(u, {}) /\ u.map = t.map /\ u.const = t.const
  BY <1>1, SameGood DEF Ran, Same, Rest
<1>3. Beside(t, u, d, Reg)
  BY <1>2, BesideSame
<1>4. ASSUME NEW k \in Host PROVE u.host[k] = t.host[k] \/ Spare(t, d, k)
  <2>1. CASE k \in {m.x, m.hi}
    BY <1>1, <2>1 DEF Spare
  <2>2. CASE k \notin {m.x, m.hi} /\ Live(t, k)
    BY <2>2 DEF Ran
  <2>3. CASE ~Live(t, k)
    <3>1. t.map[k].mips \in Reg \cup Marks /\ t.map[k].mips # Protected
      BY <1>1 DEF Good, Typed, MapType, EntryType
    <3>2. t.map[k].mips = Unused
      BY <2>3, <3>1 DEF Live, Marks
    <3>3. QED
      BY <3>2 DEF Spare
  <2>4. QED
    BY <2>1, <2>2, <2>3
<1>5. Image(u) /\ Aside(t, u) /\ \A q \in Reg \ {d} : u.gpr[q] = t.gpr[q]
  BY DEF Ran
<1>6. Follows(u, M, Z \cup {d} \cup {d})
  BY <1>1, <1>3, <1>4, <1>5, BesideFollows
<1>7. Follows(u, M, Z \cup {d})
  BY <1>6, FewerFollows
<1>8. Takes(u, m, d, words = 1)
  BY <1>2 DEF Takes, Has, Open
<1>9. QED
  BY <1>1, <1>2, <1>7, <1>8 DEF Open, On

\* What it holds now is its value.
LEMMA MovSelf ==
    ASSUME NEW u, Typed(u), Image(u), NEW k \in Host
    PROVE  Mov(u, k, u.host[k]) = u
BY DEF Mov, Typed, Image

\* When it has been written, the register has the value.
LEMMA OpenGets ==
    ASSUME NEW u, NEW m, NEW M, NEW Z, NEW d, d # R0, d \notin Z, Machine(M)
    PROVE  /\ Open(u, m, M, Z, d, 1) => On(u, {}, With(M, d, Sext(u.host[m.x])), Z)
           /\ Open(u, m, M, Z, d, 2) => On(u, {}, With(M, d, Pair(u.host[m.x], u.host[m.hi])), Z)
<1>1. ASSUME Open(u, m, M, Z, d, 1) PROVE On(u, {}, With(M, d, Sext(u.host[m.x])), Z)
  <2>1. Dest(u, m, {}, M, Z, d, 1)
    BY <1>1 DEF Open, Dest
  <2>2. Typed(u) /\ Image(u) /\ m.x \in Host /\ u.host[m.x] \in Word
    BY <1>1, OpenPlace
  <2>3. PutLo(u, m, u.host[m.x]) = u
    BY <2>2, MovSelf DEF PutLo
  <2>4. PICK w : w = u.host[m.x]
    OBVIOUS
  <2>5. On(PutLo(u, m, w), {}, With(M, d, Sext(w)), Z)
    BY <2>1, <2>2, <2>4, DestOn
  <2>6. QED
    BY <2>3, <2>4, <2>5
<1>2. ASSUME Open(u, m, M, Z, d, 2) PROVE On(u, {}, With(M, d, Pair(u.host[m.x], u.host[m.hi])), Z)
  <2>1. Dest(u, m, {}, M, Z, d, 2)
    BY <1>2 DEF Open, Dest
  <2>2. Typed(u) /\ Image(u) /\ m.x \in Host /\ m.hi \in Host /\ u.host[m.x] \in Word /\ u.host[m.hi] \in Word
    BY <1>2, OpenPlace
  <2>3. PICK w, h : w = u.host[m.x] /\ h = u.host[m.hi]
    OBVIOUS
  <2>4. Put(u, m, w, h, FALSE) = u
    BY <2>2, <2>3, MovSelf DEF Put
  <2>5. On(Put(u, m, w, h, FALSE), {}, With(M, d, Pair(w, h)), Z)
    BY <2>1, <2>2, <2>3, DestBoth
  <2>6. QED
    BY <2>3, <2>4, <2>5
<1>3. QED
  BY <1>1, <1>2

\* Restoring the others.
Stays(u, v, m, k) ==
    /\ v.host[m.x] = u.host[m.x] /\ v.host[m.hi] = u.host[m.hi]
    /\ \A j \in Host \ {k} : v.host[j] = u.host[j]

\* Restoring a host register from the stack.
LEMMA RestoreRan ==
    ASSUME NEW t, Image(t), NEW m, NEW u, NEW K, Ran(t, u, K), NEW k \in Host, Backed(t, m, k),
           NEW v, v = Restore(u, m, k)
    PROVE  Ran(t, v, (K \ {k}) \cup {m.x, m.hi}) /\ Stays(u, v, m, k)
<1>1. CASE k \in {m.x, m.hi}
  <2>1. v = u /\ K \subseteq (K \ {k}) \cup {m.x, m.hi}
    BY <1>1 DEF Restore
  <2>2. QED
    BY <2>1, RanMore DEF Stays
<1>2. CASE k \notin {m.x, m.hi}
  <2>1. v = PopIfMapped(u, k) /\ Saved(t, k)
    BY <1>2 DEF Restore, Backed
  <2>2. Ran(t, v, K \ {k}) /\ \A j \in Host \ {k} : v.host[j] = u.host[j]
    BY <2>1, RanPop
  <2>3. Ran(t, v, (K \ {k}) \cup {m.x, m.hi})
    BY <2>2, RanMore
  <2>4. v.host[m.x] = u.host[m.x] /\ v.host[m.hi] = u.host[m.hi]
    <3>1. \A j : j # k => PopIfMapped(u, k).host[j] = u.host[j]
      <4>1. Typed(u)
        BY DEF Ran
      <4>2. QED
        BY <4>1 DEF PopIfMapped, Typed
    <3>2. QED
      BY <1>2, <2>1, <3>1
  <2>5. QED
    BY <2>2, <2>3, <2>4 DEF Stays
<1>3. QED
  BY <1>1, <1>2

\* Saving a host register after other code has run.
LEMMA PushRan ==
    ASSUME NEW t, Good(t, {}), Image(t), NEW u, NEW K, Ran(t, u, K), NEW k \in Host \ K
    PROVE  Ran(PushIfMapped(t, k), PushIfMapped(u, k), K)
<1>1. /\ Typed(t) /\ Typed(u) /\ Image(u) /\ u.map = t.map /\ u.const = t.const /\ u.errors = t.errors /\ u.gpr = t.gpr
      /\ u.flushed = t.flushed /\ u.dead = t.dead /\ u.now = t.now /\ u.year = t.year /\ Aside(t, u) /\ Good(u, {})
  BY SameGood DEF Ran, Same, Rest, Good
<1>2. PICK o : o = Owner(t, k)
  OBVIOUS
<1>3. o = Owner(u, k)
  BY <1>1, <1>2 DEF Owner, Mapped
<1>4. o \in Host /\ (o = k \/ t.map[o].hi = k) /\ (t.map[o].mips \in t.dead \ t.now => t.map[o].mips \in Reg)
  BY <1>2, OwnerFacts
<1>5. PushIfMapped(t, k) =
          IF t.map[k].mips = Unused THEN t
          ELSE IF BlockAnalysis /\ t.map[o].mips \in t.dead \ t.now /\ ~t.map[o].dirty THEN FlushRegister(t, o)
          ELSE [t EXCEPT !.stack[k] = t.host[k]]
  BY <1>2 DEF PushIfMapped, Owner
<1>6. PushIfMapped(u, k) =
          IF t.map[k].mips = Unused THEN u
          ELSE IF BlockAnalysis /\ t.map[o].mips \in t.dead \ t.now /\ ~t.map[o].dirty THEN FlushRegister(u, o)
          ELSE [u EXCEPT !.stack[k] = u.host[k]]
  BY <1>1, <1>3 DEF PushIfMapped, Owner
<1>7. CASE t.map[k].mips = Unused
  BY <1>5, <1>6, <1>7
<1>8. CASE t.map[o].mips \in Reg /\ ~t.map[o].dirty /\ PushIfMapped(t, k) = FlushRegister(t, o) /\ PushIfMapped(u, k) = FlushRegister(u, o)
  <2>1. PICK a, b : a = FlushRegister(t, o) /\ b = FlushRegister(u, o)
    OBVIOUS
  <2>2. t.map[o].hi \in Host
    BY <1>4, <1>8 DEF Good, Consistent
  <2>3. /\ a = Delete(Delete(t, t.map[o].hi), o)
        /\ b = Delete(Delete(u, t.map[o].hi), o)
    BY <1>1, <1>8, <2>1 DEF FlushRegister
  <2>4. PICK e : e = Entry(Unused, FALSE, FALSE, None, t.year)
    OBVIOUS
  <2>5. \A j \in Host : Delete(t, j) = [t EXCEPT !.map[j] = e] /\ Delete(u, j) = [u EXCEPT !.map[j] = e]
    BY <1>1, <2>4, HostFacts DEF Delete
  <2>6. /\ Delete(t, t.map[o].hi).year = t.year /\ Delete(u, t.map[o].hi).year = t.year
    BY <1>1, <2>2, <2>5 DEF Typed
  <2>7. /\ a = [Delete(t, t.map[o].hi) EXCEPT !.map[o] = e]
        /\ b = [Delete(u, t.map[o].hi) EXCEPT !.map[o] = e]
    BY <1>4, <2>3, <2>4, <2>6, HostFacts DEF Delete
  <2>8. /\ a = [[t EXCEPT !.map[t.map[o].hi] = e] EXCEPT !.map[o] = e]
        /\ b = [[u EXCEPT !.map[t.map[o].hi] = e] EXCEPT !.map[o] = e]
    BY <2>2, <2>5, <2>7
  <2>9. /\ a.map = b.map /\ a.map = [[t.map EXCEPT ![t.map[o].hi] = e] EXCEPT ![o] = e]
        /\ a.const = t.const /\ b.const = u.const /\ a.errors = t.errors /\ b.errors = u.errors
    BY <1>1, <2>8 DEF Typed
  <2>10. /\ a.dead = t.dead /\ b.dead = t.dead /\ a.now = t.now /\ b.now = t.now /\ a.year = t.year /\ b.year = t.year
    BY <1>1, <2>8 DEF Typed
  <2>11. Contents(t, a) /\ Contents(u, b)
    BY <1>1, <1>4, <1>8, <2>1, FlushClean
  <2>12. Good(b, {}) /\ Less(t, a, Reg)
    <3>1. Good(b, {}) /\ Less(t, a, {t.map[o].mips}) /\ {t.map[o].mips} \subseteq Reg
      BY <1>1, <1>4, <1>8, <2>1, FlushGood
    <3>2. QED
      BY <3>1, LessMore
  <2>13. Typed(b) /\ Image(b)
    BY <1>1, <2>9, <2>11, <2>12, ContentsImage DEF Good
  <2>14. \A j \in Host : Live(a, j) => Live(t, j)
    BY <2>12, MarkFacts DEF Live, Less
  <2>15. Same(a, b)
    BY <1>1, <2>9 DEF Same, Rest
  <2>16. Aside(a, b)
    BY <1>1, <2>11 DEF Contents, Aside
  <2>17. b.gpr = a.gpr /\ b.flushed = a.flushed
    BY <1>1, <2>11 DEF Contents
  <2>18. \A j \in Host : Live(a, j) => b.stack[j] = a.stack[j] /\ (j \notin K => b.host[j] = a.host[j])
    BY <2>11, <2>14 DEF Contents, Ran
  <2>19. QED
    BY <1>8, <2>1, <2>10, <2>13, <2>15, <2>16, <2>17, <2>18 DEF Ran
<1>9. CASE PushIfMapped(t, k) = [t EXCEPT !.stack[k] = t.host[k]] /\ PushIfMapped(u, k) = [u EXCEPT !.stack[k] = u.host[k]]
  <2>1. PICK a, b : a = [t EXCEPT !.stack[k] = t.host[k]] /\ b = [u EXCEPT !.stack[k] = u.host[k]]
    OBVIOUS
  <2>2. Typed(b) /\ Same(u, b)
    <3>1. Typed([u EXCEPT !.stack[k] = u.host[k]]) /\ Same(u, [u EXCEPT !.stack[k] = u.host[k]])
      BY <1>1, SetOther
    <3>2. QED
      BY <2>1, <3>1
  <2>3. /\ a.map = t.map /\ a.const = t.const /\ a.errors = t.errors /\ a.gpr = t.gpr /\ a.flushed = t.flushed
        /\ a.dead = t.dead /\ a.now = t.now /\ a.year = t.year /\ Aside(t, a) /\ a.host = t.host
        /\ a.stack = [t.stack EXCEPT ![k] = t.host[k]]
    BY <1>1, <2>1 DEF Typed, Aside
  <2>4. /\ b.gpr = u.gpr /\ b.flushed = u.flushed /\ b.const = u.const
        /\ b.dead = u.dead /\ b.now = u.now /\ b.year = u.year /\ Aside(u, b) /\ b.host = u.host
        /\ b.stack = [u.stack EXCEPT ![k] = u.host[k]]
    BY <1>1, <2>1 DEF Typed, Aside
  <2>5. Image(b)
    BY <1>1, <2>4 DEF Image, Aside
  <2>6. Same(a, b) /\ Aside(a, b)
    BY <1>1, <2>2, <2>3, <2>4 DEF Same, Rest, Aside
  <2>7. ASSUME NEW j \in Host, Live(a, j) PROVE b.stack[j] = a.stack[j] /\ (j \notin K => b.host[j] = a.host[j])
    <3>1. Live(t, j)
      BY <2>3, <2>7 DEF Live
    <3>2. u.stack[j] = t.stack[j] /\ (j \notin K => u.host[j] = t.host[j])
      BY <3>1 DEF Ran
    <3>3. b.stack[j] = (IF j = k THEN u.host[k] ELSE u.stack[j]) /\ a.stack[j] = (IF j = k THEN t.host[k] ELSE t.stack[j])
      BY <1>1, <2>3, <2>4 DEF Image
    <3>4. QED
      BY <2>3, <2>4, <3>2, <3>3
  <2>8. QED
    BY <1>1, <1>9, <2>1, <2>2, <2>3, <2>4, <2>5, <2>6, <2>7 DEF Ran
<1>10. QED
  BY <1>4, <1>5, <1>6, <1>7, <1>8, <1>9

-------------------------------------------------------------------------------
(* Loads                                                                     *)

NativeLoads == {"lb", "lbu", "lh", "lhu", "lw", "ld"}
\* How many words a load writes, and the word one writes that is not ld.
LoadWords(i) == IF i.op = "ld" THEN 2 ELSE 1
LoadWord(i, a) ==
    IF i.op \in {"lh", "lb"} THEN SextHalf(LowHalf(Memory[a]))
    ELSE IF i.op \in {"lhu", "lbu"} THEN LowHalf(Memory[a])
    ELSE Memory[a]

\* What memory holds are words.
LEMMA MemoryWords ==
    ASSUME NEW i, NEW a \in Word
    PROVE  /\ Memory[a] \in Word /\ LoadWord(i, a) \in Word
           /\ MemDouble(a) \in Double /\ Low(MemDouble(a)) \in Word /\ High(MemDouble(a)) \in Word
           /\ Pair(Low(MemDouble(a)), High(MemDouble(a))) = MemDouble(a)
           /\ Low(MemDouble(a)) = Memory[WordOf(a + 1)] /\ High(MemDouble(a)) = Memory[a]
<1>1. Memory[a] \in Word
  BY DynaAssumption
<1>2. a + 1 \in Int
  BY Cut
<1>3. Memory[WordOf(a + 1)] \in Word
  BY <1>2, Cut, DynaAssumption
<1>4. LoadWord(i, a) \in Word
  BY <1>1, Halves DEF LoadWord
<1>5. /\ MemDouble(a) \in Double /\ Low(MemDouble(a)) = Memory[WordOf(a + 1)] /\ High(MemDouble(a)) = Memory[a]
  BY <1>1, <1>3, Pairs DEF MemDouble
<1>6. QED
  BY <1>1, <1>3, <1>4, <1>5, Pairs

\* What a load leaves in the place m of rt.
Fetches(u, m, i, a) ==
    i.rt # R0 => IF i.op = "ld" THEN u.host[m.x] = Low(MemDouble(a)) /\ u.host[m.hi] = High(MemDouble(a))
                 ELSE u.host[m.x] = LoadWord(i, a)

\* Loading into a place changes that place alone, and fetches what memory holds.
LEMMA LoadIntoRan ==
    ASSUME NEW s, Typed(s), Image(s), NEW m, m.x \in Host, m.hi \in Host, NEW i, i.op \in NativeLoads,
           i.op = "ld" => m.hi # m.x, NEW a \in Word, NEW v, v = LoadInto(s, i, m, a)
    PROVE  Ran(s, v, {m.x, m.hi}) /\ Fetches(v, m, i, a)
<1>1. CASE i.rt = R0
  <2>1. v = s
    BY <1>1 DEF LoadInto
  <2>2. QED
    BY <1>1, <2>1, RanSelf DEF Fetches
<1>2. CASE i.rt # R0 /\ i.op = "ld"
  <2>1. PICK w, h : w = Low(MemDouble(a)) /\ h = High(MemDouble(a))
    OBVIOUS
  <2>2. w \in Word /\ h \in Word
    BY <2>1, MemoryWords
  <2>3. PICK t : t = Mov(s, m.x, w)
    OBVIOUS
  <2>4. v = Mov(t, m.hi, h)
    BY <1>2, <2>1, <2>3 DEF LoadInto, Put
  <2>5. Ran(s, t, {m.x}) /\ t.host[m.x] = w
    <3>1. /\ Ran(s, Mov(s, m.x, w), {m.x}) /\ Mov(s, m.x, w).host[m.x] = w
          /\ \A j \in Host \ {m.x} : Mov(s, m.x, w).host[j] = s.host[j]
      BY <2>2, RanMov
    <3>2. QED
      BY <2>3, <3>1
  <2>6. Typed(t) /\ Image(t)
    BY <2>5 DEF Ran
  <2>7. Ran(t, v, {m.hi}) /\ v.host[m.hi] = h /\ v.host[m.x] = t.host[m.x]
    <3>1. /\ Ran(t, Mov(t, m.hi, h), {m.hi}) /\ Mov(t, m.hi, h).host[m.hi] = h
          /\ \A j \in Host \ {m.hi} : Mov(t, m.hi, h).host[j] = t.host[j]
      BY <2>2, <2>6, RanMov
    <3>2. m.x \in Host \ {m.hi}
      BY <1>2
    <3>3. QED
      BY <2>4, <3>1, <3>2
  <2>8. Ran(s, v, {m.x} \cup {m.hi})
    BY <2>5, <2>7, RanTransitive
  <2>9. Ran(s, v, {m.x, m.hi})
    BY <2>8, RanMore
  <2>10. QED
    BY <1>2, <2>1, <2>5, <2>7, <2>9 DEF Fetches
<1>3. CASE i.rt # R0 /\ i.op # "ld"
  <2>1. PICK w : w = LoadWord(i, a)
    OBVIOUS
  <2>2. v = Mov(s, m.x, w)
    BY <1>3, <2>1 DEF LoadInto, LoadWord, PutLo, NativeLoads
  <2>3. w \in Word
    BY <2>1, MemoryWords
  <2>4. Ran(s, v, {m.x}) /\ v.host[m.x] = w
    <3>1. /\ Ran(s, Mov(s, m.x, w), {m.x}) /\ Mov(s, m.x, w).host[m.x] = w
          /\ \A j \in Host \ {m.x} : Mov(s, m.x, w).host[j] = s.host[j]
      BY <2>3, RanMov
    <3>2. QED
      BY <2>2, <3>1
  <2>5. Ran(s, v, {m.x, m.hi})
    BY <2>4, RanMore
  <2>6. QED
    BY <1>3, <2>1, <2>4, <2>5 DEF Fetches
<1>4. QED
  BY <1>1, <1>2, <1>3

\* The place of rt, ready for a load: it has as many words as the load writes.
ToLoad(s, i, m, M, Z) == i.op \in NativeLoads /\ Open(s, m, M, Z, i.rt, LoadWords(i))

\* What is known of the place of a load.
LEMMA ToLoadPlace ==
    ASSUME NEW s, NEW i, NEW m, NEW M, NEW Z, ToLoad(s, i, m, M, Z)
    PROVE  /\ Typed(s) /\ Image(s) /\ Good(s, {}) /\ m.x \in Host /\ m.hi \in Host
           /\ i.op = "ld" <=> m.hi # m.x
<1>1. /\ Typed(s) /\ Image(s) /\ Good(s, {}) /\ m.x \in Host /\ m.hi \in Host
  BY OpenPlace DEF ToLoad
<1>2. LoadWords(i) = 1 <=> m.hi = m.x
  BY DEF ToLoad, Open, Takes
<1>3. QED
  BY <1>1, <1>2 DEF LoadWords
\* What is in it.
LoadDone(u, i, m, M, Z, a) == ToLoad(u, i, m, M, Z) /\ Fetches(u, m, i, a)

\* The load at once,
LEMMA LoadHereOn ==
    ASSUME NEW s, NEW i, NEW m, NEW M, NEW Z, ToLoad(s, i, m, M, Z), NEW a \in Word
    PROVE  LoadDone(LoadInto(s, i, m, a), i, m, M, Z, a)
<1>1. PICK v : v = LoadInto(s, i, m, a)
  OBVIOUS
<1>2. Typed(s) /\ Image(s) /\ m.x \in Host /\ m.hi \in Host /\ (i.op = "ld" => m.hi # m.x) /\ i.op \in NativeLoads
  BY ToLoadPlace DEF ToLoad
<1>3. Ran(s, v, {m.x, m.hi}) /\ Fetches(v, m, i, a)
  BY <1>1, <1>2, LoadIntoRan
<1>4. ToLoad(v, i, m, M, Z)
  BY <1>3, RanOpen DEF ToLoad
<1>5. QED
  BY <1>1, <1>3, <1>4 DEF LoadDone

\* after the code that ran since t, before what is restored.
LEMMA LoadAfter ==
    ASSUME NEW t, NEW i, NEW m, NEW M, NEW Z, ToLoad(t, i, m, M, Z), NEW a \in Word,
           NEW c, NEW K, Ran(t, c, K), NEW v, v = LoadInto(c, i, m, a)
    PROVE  Ran(t, v, K \cup {m.x, m.hi}) /\ Fetches(v, m, i, a)
<1>1. Typed(c) /\ Image(c) /\ m.x \in Host /\ m.hi \in Host /\ (i.op = "ld" => m.hi # m.x) /\ i.op \in NativeLoads
  BY ToLoadPlace DEF ToLoad, Ran
<1>2. Ran(c, v, {m.x, m.hi}) /\ Fetches(v, m, i, a)
  BY <1>1, LoadIntoRan
<1>3. QED
  BY <1>2, RanTransitive

\* Restoring a host register leaves what was loaded.
LEMMA RestoreLoaded ==
    ASSUME NEW t, Image(t), NEW m, NEW u, NEW K, Ran(t, u, K), NEW k \in Host, Backed(t, m, k),
           NEW i, NEW a, Fetches(u, m, i, a), NEW v, v = Restore(u, m, k)
    PROVE  Ran(t, v, (K \ {k}) \cup {m.x, m.hi}) /\ Fetches(v, m, i, a)
<1>1. Ran(t, v, (K \ {k}) \cup {m.x, m.hi}) /\ Stays(u, v, m, k)
  BY RestoreRan
<1>2. QED
  BY <1>1 DEF Fetches, Stays

\* with EAX and ECX saved around the call of the read function,
LEMMA ReadCallOn ==
    ASSUME NEW s, NEW i, NEW m, NEW M, NEW Z, ToLoad(s, i, m, M, Z), NEW a \in Word
    PROVE  LoadDone(ReadCall(s, i, m, a), i, m, M, Z, a)
<1>1. PICK r : r = Save(s, m, EAX)
  OBVIOUS
<1>2. PICK t : t = Save(r, m, ECX)
  OBVIOUS
<1>3. PICK c : c = Clobber(t, {EAX, ECX})
  OBVIOUS
<1>4. PICK v : v = LoadInto(c, i, m, a)
  OBVIOUS
<1>5. PICK x : x = Restore(v, m, ECX)
  OBVIOUS
<1>6. PICK y : y = Restore(x, m, EAX)
  OBVIOUS
<1>7. ReadCall(s, i, m, a) = y
  BY <1>1, <1>2, <1>3, <1>4, <1>5, <1>6 DEF ReadCall
<1>8. Open(r, m, M, Z, i.rt, LoadWords(i)) /\ Backed(r, m, EAX)
  BY <1>1, SaveOpen, HostFacts DEF ToLoad
<1>9. Open(t, m, M, Z, i.rt, LoadWords(i)) /\ Backed(t, m, EAX) /\ Backed(t, m, ECX)
  BY <1>2, <1>8, SaveOpen, HostFacts
<1>10. ToLoad(t, i, m, M, Z) /\ Typed(t) /\ Image(t)
  <2>1. ToLoad(t, i, m, M, Z)
    BY <1>9 DEF ToLoad
  <2>2. QED
    BY <2>1, ToLoadPlace
<1>11. Ran(t, c, {EAX, ECX})
  BY <1>3, <1>10, RanClobber
<1>12. Ran(t, v, {EAX, ECX} \cup {m.x, m.hi}) /\ Fetches(v, m, i, a)
  BY <1>4, <1>10, <1>11, LoadAfter
<1>13. Ran(t, x, (({EAX, ECX} \cup {m.x, m.hi}) \ {ECX}) \cup {m.x, m.hi}) /\ Fetches(x, m, i, a)
  BY <1>5, <1>9, <1>10, <1>12, RestoreLoaded, HostFacts
<1>14. Ran(t, x, {EAX, m.x, m.hi})
  BY <1>13, RanMore
<1>15. Ran(t, y, ({EAX, m.x, m.hi} \ {EAX}) \cup {m.x, m.hi}) /\ Fetches(y, m, i, a)
  BY <1>6, <1>9, <1>10, <1>13, <1>14, RestoreLoaded, HostFacts
<1>16. Ran(t, y, {m.x, m.hi})
  BY <1>15, RanMore
<1>17. ToLoad(y, i, m, M, Z)
  BY <1>10, <1>16, RanOpen DEF ToLoad
<1>18. QED
  BY <1>7, <1>15, <1>17 DEF LoadDone

\* or EAX alone,
LEMMA ReadCallEAXOn ==
    ASSUME NEW s, NEW i, NEW m, NEW M, NEW Z, ToLoad(s, i, m, M, Z), NEW a \in Word
    PROVE  LoadDone(ReadCallEAX(s, i, m, a), i, m, M, Z, a)
<1>1. PICK t : t = Save(s, m, EAX)
  OBVIOUS
<1>3. PICK c : c = Clobber(t, {EAX, m.x})
  OBVIOUS
<1>4. PICK v : v = LoadInto(c, i, m, a)
  OBVIOUS
<1>6. PICK y : y = Restore(v, m, EAX)
  OBVIOUS
<1>7. ReadCallEAX(s, i, m, a) = y
  BY <1>1, <1>3, <1>4, <1>6 DEF ReadCallEAX
<1>9. Open(t, m, M, Z, i.rt, LoadWords(i)) /\ Backed(t, m, EAX)
  BY <1>1, SaveOpen, HostFacts DEF ToLoad
<1>10. ToLoad(t, i, m, M, Z) /\ Typed(t) /\ Image(t)
  <2>1. ToLoad(t, i, m, M, Z)
    BY <1>9 DEF ToLoad
  <2>2. QED
    BY <2>1, ToLoadPlace
<1>11. Ran(t, c, {EAX, m.x})
  BY <1>3, <1>10, RanClobber
<1>12. Ran(t, v, {EAX, m.x} \cup {m.x, m.hi}) /\ Fetches(v, m, i, a)
  BY <1>4, <1>10, <1>11, LoadAfter
<1>15. Ran(t, y, (({EAX, m.x} \cup {m.x, m.hi}) \ {EAX}) \cup {m.x, m.hi}) /\ Fetches(y, m, i, a)
  BY <1>6, <1>9, <1>10, <1>12, RestoreLoaded, HostFacts
<1>16. Ran(t, y, {m.x, m.hi})
  BY <1>15, RanMore
<1>17. ToLoad(y, i, m, M, Z)
  BY <1>10, <1>16, RanOpen DEF ToLoad
<1>18. QED
  BY <1>7, <1>15, <1>17 DEF LoadDone

\* and with ECX used to cut a byte out.
LEMMA MemoryCase1On ==
    ASSUME NEW s, NEW i, NEW m, NEW M, NEW Z, ToLoad(s, i, m, M, Z), NEW a \in Word
    PROVE  LoadDone(MemoryCase1(s, i, m, a), i, m, M, Z, a)
<1>1. PICK t : t = Save(s, m, EAX)
  OBVIOUS
<1>2. PICK D : D = {EAX} \cup (IF EAX \in {m.x, m.hi} THEN {} ELSE {m.x})
  OBVIOUS
<1>3. PICK c : c = Clobber(t, D)
  OBVIOUS
<1>4. PICK cut : cut = IF i.op = "ld" \/ m.x = ECX THEN c ELSE PopIfMapped(Clobber(PushIfMapped(c, ECX), {ECX}), ECX)
  OBVIOUS
<1>5. PICK v : v = LoadInto(cut, i, m, a)
  OBVIOUS
<1>6. PICK y : y = Restore(v, m, EAX)
  OBVIOUS
<1>7. MemoryCase1(s, i, m, a) = y
  BY <1>1, <1>2, <1>3, <1>4, <1>5, <1>6 DEF MemoryCase1
<1>8. D \subseteq {EAX, m.x}
  BY <1>2
<1>9. Open(t, m, M, Z, i.rt, LoadWords(i)) /\ Backed(t, m, EAX)
  BY <1>1, SaveOpen, HostFacts DEF ToLoad
<1>10. ToLoad(t, i, m, M, Z) /\ Typed(t) /\ Image(t) /\ Good(t, {}) /\ (i.op = "ld" <=> m.hi # m.x)
  <2>1. ToLoad(t, i, m, M, Z)
    BY <1>9 DEF ToLoad
  <2>2. QED
    BY <2>1, ToLoadPlace
<1>11. Ran(t, c, {EAX, m.x})
  <2>1. Ran(t, c, D)
    BY <1>3, <1>10, RanClobber
  <2>2. QED
    BY <1>8, <2>1, RanMore
<1>12. \E r : /\ ToLoad(r, i, m, M, Z) /\ Image(r) /\ Backed(r, m, EAX) /\ Ran(r, cut, {EAX, m.x})
  <2>1. CASE i.op = "ld" \/ m.x = ECX
    BY <1>4, <1>9, <1>10, <1>11, <2>1
  <2>2. CASE ~(i.op = "ld" \/ m.x = ECX)
    <3>1. ECX \notin {m.x, m.hi} /\ ECX \notin {EAX, m.x} /\ ECX \in Host /\ EAX \in Host
      BY <1>10, <2>2, HostFacts
    <3>2. PICK r, d, e, f : r = PushIfMapped(t, ECX) /\ d = PushIfMapped(c, ECX) /\ e = Clobber(d, {ECX}) /\ f = PopIfMapped(e, ECX)
      OBVIOUS
    <3>3. cut = f
      BY <1>4, <2>2, <3>2
    <3>4. r = Save(t, m, ECX)
      BY <3>1, <3>2 DEF Save
    <3>5. Open(r, m, M, Z, i.rt, LoadWords(i)) /\ Backed(r, m, EAX) /\ Backed(r, m, ECX)
      BY <1>9, <3>1, <3>4, SaveOpen
    <3>6. ToLoad(r, i, m, M, Z) /\ Saved(r, ECX) /\ Image(r)
      <4>1. ToLoad(r, i, m, M, Z) /\ Saved(r, ECX)
        BY <1>10, <3>1, <3>5 DEF ToLoad, Backed
      <4>2. QED
        BY <4>1, ToLoadPlace
    <3>7. Ran(r, d, {EAX, m.x})
      BY <1>10, <1>11, <3>1, <3>2, PushRan
    <3>8. Typed(d) /\ Image(d)
      BY <3>7 DEF Ran
    <3>9. Ran(d, e, {ECX})
      BY <3>2, <3>8, RanClobber
    <3>10. Ran(r, e, {EAX, m.x} \cup {ECX})
      BY <3>7, <3>9, RanTransitive
    <3>11. Ran(r, f, ({EAX, m.x} \cup {ECX}) \ {ECX})
      BY <3>1, <3>2, <3>6, <3>10, RanPop
    <3>12. Ran(r, f, {EAX, m.x})
      BY <3>11, RanMore
    <3>13. QED
      BY <3>3, <3>5, <3>6, <3>12
  <2>3. QED
    BY <2>1, <2>2
<1>13. PICK r : ToLoad(r, i, m, M, Z) /\ Image(r) /\ Backed(r, m, EAX) /\ Ran(r, cut, {EAX, m.x})
  BY <1>12
<1>14. Ran(r, v, {EAX, m.x} \cup {m.x, m.hi}) /\ Fetches(v, m, i, a)
  BY <1>5, <1>13, LoadAfter
<1>15. Ran(r, y, (({EAX, m.x} \cup {m.x, m.hi}) \ {EAX}) \cup {m.x, m.hi}) /\ Fetches(y, m, i, a)
  BY <1>6, <1>13, <1>14, RestoreLoaded, HostFacts
<1>16. Ran(r, y, {m.x, m.hi})
  BY <1>15, RanMore
<1>17. ToLoad(y, i, m, M, Z)
  BY <1>13, <1>16, RanOpen DEF ToLoad
<1>18. QED
  BY <1>7, <1>15, <1>17 DEF LoadDone

\* The place of rt, asked for by a load, and the constants of the others.
LEMMA LoadPlaceOn ==
    ASSUME NEW s, NEW i, NEW M, NEW Z, Enters(s, i, M, Z), i.op \in NativeLoads, NEW m,
           m = IF i.op = "ld" THEN MapRT(s, i, DefineBoth(i.rt, FALSE)) ELSE MapRT(s, i, Define(i.rt, TRUE))
    PROVE  ToLoad(m.s, i, m, M, Z) /\ (i.rs # i.rt /\ ~IsConst(s, i.rs) => ~IsConst(m.s, i.rs))
<1>1. On(s, {}, M, Z) /\ Fields(i) /\ i.rt \in Reg /\ i.rs \in Reg /\ {} \subseteq {ECX} /\ Two({i.rd, i.rs})
  BY EntersFacts
<1>2. CASE i.op = "ld"
  <2>1. Writes(s, MapRegister(s, DefineBoth(i.rt, FALSE), {i.rd, i.rs}), {}, M, Z \cup {i.rt}, i.rt, FALSE, {i.rd, i.rs})
    BY <1>1, DefineOn
  <2>2. m = MapRegister(s, DefineBoth(i.rt, FALSE), {i.rd, i.rs})
    BY <1>2 DEF MapRT
  <2>3. On(m.s, {}, M, Z \cup {i.rt}) /\ Takes(m.s, m, i.rt, 2 = 1)
    <3>1. On(m.s, {}, M, Z \cup {i.rt}) /\ Takes(m.s, m, i.rt, FALSE)
      BY <2>1, <2>2 DEF Writes
    <3>2. Takes(m.s, m, i.rt, 2 = 1)
      <4>1. (2 = 1) <=> FALSE
        OBVIOUS
      <4>2. QED
        BY <3>1, <4>1 DEF Takes
    <3>3. QED
      BY <3>1, <3>2
  <2>4. LoadWords(i) = 2
    BY <1>2 DEF LoadWords
  <2>5. ToLoad(m.s, i, m, M, Z)
    BY <1>1, <2>3, <2>4 DEF ToLoad, Open
  <2>6. \A q \in Reg : q # i.rt => MapRT(s, i, DefineBoth(i.rt, FALSE)).s.const[q] = s.const[q]
    BY <1>1, RTKeepsConst
  <2>7. QED
    BY <1>1, <1>2, <2>5, <2>6 DEF IsConst
<1>3. CASE i.op # "ld"
  <2>1. Writes(s, MapRegister(s, Define(i.rt, TRUE), {i.rd, i.rs}), {}, M, Z \cup {i.rt}, i.rt, TRUE, {i.rd, i.rs})
    BY <1>1, DefineOn
  <2>2. m = MapRegister(s, Define(i.rt, TRUE), {i.rd, i.rs})
    BY <1>3 DEF MapRT
  <2>3. On(m.s, {}, M, Z \cup {i.rt}) /\ Takes(m.s, m, i.rt, 1 = 1)
    BY <2>1, <2>2 DEF Writes, Takes
  <2>4. LoadWords(i) = 1
    BY <1>3 DEF LoadWords
  <2>5. ToLoad(m.s, i, m, M, Z)
    BY <1>1, <2>3, <2>4 DEF ToLoad, Open
  <2>6. \A q \in Reg : q # i.rt => MapRT(s, i, Define(i.rt, TRUE)).s.const[q] = s.const[q]
    BY <1>1, RTKeepsConst
  <2>7. QED
    BY <1>1, <1>3, <2>5, <2>6 DEF IsConst
<1>4. QED
  BY <1>2, <1>3

\* The base register is fetched beside the place of rt,
LEMMA BaseBeside ==
    ASSUME NEW s, NEW i, NEW m, NEW M, NEW Z, ToLoad(s, i, m, M, Z), NEW q \in Reg \ Z, q # i.rt,
           NEW is32 \in BOOLEAN, NEW keep, Two(keep), i.rt \in keep,
           NEW o, Fetched(o, s, q, is32, keep)
    PROVE  ToLoad(o.s, i, m, M, Z) /\ o.lo = Low(M.gpr[q]) /\ o.lo \in Word
<1>1. On(s, {}, M, Z \cup {i.rt}) /\ Takes(s, m, i.rt, LoadWords(i) = 1) /\ i.rt \in Reg
  BY DEF ToLoad, Open
<1>2. Gives(s, o, {}, M, Z \cup {i.rt}, q, is32, keep)
  BY <1>1, FetchedGives
<1>3. Beside(s, o.s, q, keep) /\ On(o.s, {}, M, Z \cup {i.rt}) /\ o.lo = Low(M.gpr[q]) /\ o.lo \in Word
  BY <1>2 DEF Gives
<1>4. Takes(o.s, m, i.rt, LoadWords(i) = 1)
  BY <1>1, <1>3, HasKept
<1>5. QED
  BY <1>3, <1>4 DEF ToLoad, Open

\* What is at a place is a register's low word.
ShowsLow(x, M, r) == x.s.host[x.x] \in Word /\ x.s.host[x.x] = Low(M.gpr[r])

\* or is rt itself, whose value is read before it is overwritten.
LEMMA BaseOwn ==
    ASSUME NEW s, NEW i, NEW M, NEW Z, Enters(s, i, M, Z), i.op \in NativeLoads, i.rt # R0,
           NEW is32 \in BOOLEAN, is32 <=> i.op # "ld", NEW m, m = MapRT(s, i, Change(i.rt, is32)),
           NEW x, x = MapRegister(m.s, Want(i.rt, is32), {i.rd, i.rt})
    PROVE  ToLoad(x.s, i, m, M, Z) /\ ShowsLow(x, M, i.rt) /\ Where(m.s, i.rt) # None
<1>1. /\ On(s, {}, M, Z) /\ Fits(i, Z) /\ i.rt \in Reg \ Z /\ i.rt \in Reg /\ {} \subseteq {ECX} /\ Machine(M)
      /\ Two({i.rd, i.rt}) /\ i.rt \in {i.rd, i.rt}
  BY EntersFacts
<1>2. PICK u : u = Asked(M, i.rt, is32)
  OBVIOUS
<1>3. u \in Double /\ Low(u) = Low(M.gpr[i.rt])
  BY <1>1, <1>2, AskedDouble
<1>4. Held(m.s, m, {}, M, Z, i.rt, u, Size(is32))
  BY <1>1, <1>2, Written
<1>5. Size(is32) = LoadWords(i) /\ LoadWords(i) \in {1, 2} /\ (LoadWords(i) = 1 <=> is32)
  BY DEF Size, LoadWords
<1>6. On(m.s, {}, With(M, i.rt, u), Z) /\ Takes(m.s, m, i.rt, is32)
  BY <1>4, <1>5 DEF Held, Takes
<1>7. Reads(m.s, x, {}, With(M, i.rt, u), Z, i.rt, is32, {i.rd, i.rt}) /\ Takes(x.s, m, i.rt, is32)
  BY <1>1, <1>6, WantBeside
<1>11. On(x.s, {}, With(M, i.rt, u), Z) /\ Has(x.s, x, i.rt)
  BY <1>7 DEF Reads
<1>12. x.s.host[x.x] = Low(With(M, i.rt, u).gpr[i.rt]) /\ x.s.host[x.x] \in Word
  BY <1>1, <1>11, HasValue
<1>13. With(M, i.rt, u).gpr[i.rt] = u
  BY <1>1, <1>3, WithMachine
<1>14. On(x.s, {}, M, Z \cup {i.rt})
  BY <1>1, <1>3, <1>11, OpenOn
<1>15. ToLoad(x.s, i, m, M, Z)
  BY <1>1, <1>5, <1>7, <1>14 DEF ToLoad, Open, Takes
<1>16. Where(m.s, i.rt) # None
  <2>1. m.x \in Host /\ m.s.map[m.x].mips = i.rt
    BY <1>6 DEF Takes, Has
  <2>2. Consistent(m.s.map, m.s.const)
    BY <1>6 DEF On, Good
  <2>3. Where(m.s, i.rt) = m.x
    BY <1>1, <2>1, <2>2, WhereIs
  <2>4. QED
    BY <2>1, <2>3, HostFacts
<1>17. QED
  BY <1>3, <1>12, <1>13, <1>15, <1>16 DEF ShowsLow

\* The address of a load or a store.
LEMMA OffsetIs ==
    ASSUME NEW M, NEW i, i.imm \in 0 .. 2 ^ Half - 1, NEW w \in Word
    PROVE  Offset(w, i) \in Word /\ (w = Low(M.gpr[i.rs]) => Offset(w, i) = Address(M, i))
<1>1. ImmS(i) \in Int
  BY Immediates
<1>2. w + ImmS(i) \in Int
  BY <1>1, Cut
<1>3. WordOf(w + ImmS(i)) \in Word
  BY <1>2, Cut
<1>4. QED
  BY <1>3 DEF Offset, Address, RS, lo

\* Any of the calls loads what is at the address.
LEMMA ReadsOn ==
    ASSUME NEW s, NEW i, NEW m, NEW M, NEW Z, ToLoad(s, i, m, M, Z), NEW a \in Word, NEW v,
           v \in {LoadInto(s, i, m, a), ReadCall(s, i, m, a), ReadCallEAX(s, i, m, a), MemoryCase1(s, i, m, a)}
    PROVE  LoadDone(v, i, m, M, Z, a)
BY LoadHereOn, ReadCallOn, ReadCallEAXOn, MemoryCase1On

\* lw, lh and lhu with rs in the operand o, the others with rs mapped in x.
LEMMA LoadRTOn ==
    ASSUME NEW i, i.op \in NativeLoads, i.imm \in 0 .. 2 ^ Half - 1, NEW m, NEW M, NEW Z,
           NEW o, o = MapTo(m.s, i.rs, TRUE, {i.rd, i.rt}),
           NEW is32 \in BOOLEAN, is32 <=> i.op # "ld", NEW x, x = MapRS(m.s, i, Want(i.rs, is32)),
           i.op \in {"lw", "lh", "lhu"} => ToLoad(o.s, i, m, M, Z) /\ o.lo \in Word /\ o.lo = Low(M.gpr[i.rs]),
           i.op \in {"lb", "lbu", "ld"} =>
                ToLoad(x.s, i, m, M, Z) /\ x.s.host[x.x] \in Word /\ x.s.host[x.x] = Low(M.gpr[i.rs])
    PROVE  LoadDone(LoadRT(i, m), i, m, M, Z, Address(M, i))
<1>1. PICK v : v = LoadRT(i, m)
  OBVIOUS
<1>2. is32 = (i.op # "ld")
  OBVIOUS
<1>3. CASE i.op \in {"lw", "lh", "lhu"}
  <2>1. PICK a : a = Offset(o.lo, i)
    OBVIOUS
  <2>2. a \in Word /\ a = Address(M, i)
    BY <1>3, <2>1, OffsetIs
  <2>3. v \in {ReadCall(o.s, i, m, a), ReadCallEAX(o.s, i, m, a)}
    BY <1>1, <1>3, <2>1 DEF LoadRT, ReadAt
  <2>4. LoadDone(v, i, m, M, Z, a)
    BY <1>3, <2>2, <2>3, ReadsOn
  <2>5. QED
    BY <1>1, <2>2, <2>4
<1>4. CASE i.op \in {"lb", "lbu", "ld"}
  <2>1. PICK a : a = Offset(x.s.host[x.x], i)
    OBVIOUS
  <2>2. a \in Word /\ a = Address(M, i)
    BY <1>4, <2>1, OffsetIs
  <2>3. v \in {ReadCall(x.s, i, m, a), MemoryCase1(x.s, i, m, a)}
    <3>1. v = ReadThrough(i, m, x)
      BY <1>1, <1>2, <1>4 DEF LoadRT
    <3>2. QED
      BY <2>1, <3>1 DEF ReadThrough, Own
  <2>4. LoadDone(v, i, m, M, Z, a)
    BY <1>4, <2>2, <2>3, ReadsOn
  <2>5. QED
    BY <1>1, <2>2, <2>4
<1>5. QED
  BY <1>3, <1>4 DEF NativeLoads

\* A load whose base is mapped or in memory.
LEMMA LoadMappedOn ==
    ASSUME NEW s, NEW i, NEW M, NEW Z, Enters(s, i, M, Z), i.op \in NativeLoads, ~IsConst(s, i.rs)
    PROVE  \E m : LoadDone(LoadMapped(s, i), i, m, M, Z, Address(M, i))
<1>1. /\ On(s, {}, M, Z) /\ i.rs \in Reg \ Z /\ i.rt \in Reg \ Z /\ Two({i.rd, i.rt}) /\ i.rt \in {i.rd, i.rt}
      /\ i.imm \in 0 .. 2 ^ Half - 1
  BY EntersFacts
<1>2. i.rs # R0
  <2>1. s.const[R0] = 0
    BY <1>1 DEF On, Good, Consistent
  <2>2. 0 # NoConst
    BY Signs, MarksAssumption
  <2>3. QED
    BY <2>1, <2>2 DEF IsConst
<1>3. PICK is32 \in BOOLEAN : is32 <=> i.op # "ld"
  OBVIOUS
<1>4. is32 = (i.op # "ld")
  BY <1>3
<1>5. CASE i.rt = i.rs
  <2>1. PICK m : m = MapRT(s, i, Change(i.rt, is32))
    OBVIOUS
  <2>2. PICK x : x = MapRegister(m.s, Want(i.rt, is32), {i.rd, i.rt})
    OBVIOUS
  <2>3. /\ ToLoad(x.s, i, m, M, Z) /\ x.s.host[x.x] = Low(M.gpr[i.rt]) /\ x.s.host[x.x] \in Word
        /\ Where(m.s, i.rt) # None
    <3>1. ToLoad(x.s, i, m, M, Z) /\ ShowsLow(x, M, i.rt) /\ Where(m.s, i.rt) # None
      BY <1>2, <1>3, <1>5, <2>1, <2>2, BaseOwn
    <3>2. QED
      BY <3>1 DEF ShowsLow
  <2>4. PICK o : o = MapTo(m.s, i.rs, TRUE, {i.rd, i.rt})
    OBVIOUS
  <2>5. i.op \in {"lw", "lh", "lhu"} => o = Operand(x)
    BY <1>3, <1>5, <2>2, <2>3, <2>4 DEF MapTo
  <2>6. i.op \in {"lw", "lh", "lhu"} => ToLoad(o.s, i, m, M, Z) /\ o.lo \in Word /\ o.lo = Low(M.gpr[i.rs])
    BY <1>5, <2>3, <2>5 DEF Operand
  <2>7. x = MapRS(m.s, i, Want(i.rs, is32))
    BY <1>5, <2>2 DEF MapRS
  <2>8. LoadDone(LoadRT(i, m), i, m, M, Z, Address(M, i))
    BY <1>1, <1>3, <1>5, <2>3, <2>4, <2>6, <2>7, LoadRTOn
  <2>9. LoadMapped(s, i) = LoadRT(i, m)
    BY <1>4, <1>5, <2>1 DEF LoadMapped
  <2>10. QED
    BY <2>8, <2>9
<1>6. CASE i.rt # i.rs
  <2>1. PICK m : m = IF i.op = "ld" THEN MapRT(s, i, DefineBoth(i.rt, FALSE)) ELSE MapRT(s, i, Define(i.rt, TRUE))
    OBVIOUS
  <2>2. ToLoad(m.s, i, m, M, Z) /\ (i.rs # i.rt /\ ~IsConst(s, i.rs) => ~IsConst(m.s, i.rs))
    BY <2>1, LoadPlaceOn
  <2>3. ~IsConst(m.s, i.rs)
    BY <1>6, <2>2
  <2>4. PICK o : o = MapTo(m.s, i.rs, TRUE, {i.rd, i.rt})
    OBVIOUS
  <2>5. PICK x : x = MapRS(m.s, i, Want(i.rs, is32))
    OBVIOUS
  <2>6. PICK y : y = MapIn(m.s, i.rs, is32, {i.rd, i.rt})
    OBVIOUS
  <2>7. ToLoad(o.s, i, m, M, Z) /\ o.lo = Low(M.gpr[i.rs]) /\ o.lo \in Word
    <3>1. PICK b \in BOOLEAN : b = TRUE
      OBVIOUS
    <3>2. Fetched(o, m.s, i.rs, b, {i.rd, i.rt})
      BY <2>3, <2>4, <3>1 DEF Fetched
    <3>3. QED
      BY <1>1, <1>6, <2>2, <3>2, BaseBeside
  <2>8. ToLoad(y.s, i, m, M, Z) /\ y.lo = Low(M.gpr[i.rs]) /\ y.lo \in Word
    <3>1. Fetched(y, m.s, i.rs, is32, {i.rd, i.rt})
      BY <2>6 DEF Fetched
    <3>2. QED
      BY <1>1, <1>6, <2>2, <3>1, BaseBeside
  <2>9. y.s = x.s /\ y.lo = x.s.host[x.x]
    BY <2>5, <2>6 DEF MapIn, Operand, MapRS
  <2>10. LoadDone(LoadRT(i, m), i, m, M, Z, Address(M, i))
    BY <1>1, <1>3, <2>4, <2>5, <2>7, <2>8, <2>9, LoadRTOn
  <2>11. LoadMapped(s, i) = LoadRT(i, m)
    BY <1>6, <2>1 DEF LoadMapped
  <2>12. QED
    BY <2>10, <2>11
<1>7. QED
  BY <1>5, <1>6

\* With a constant address.
LEMMA LoadConstOn ==
    ASSUME NEW s, NEW i, NEW M, NEW Z, Enters(s, i, M, Z), i.op \in NativeLoads, IsConst(s, i.rs)
    PROVE  \/ LoadConst(s, i) = s /\ i.rt = R0
           \/ \E m : LoadDone(LoadConst(s, i), i, m, M, Z, Address(M, i))
<1>1. /\ On(s, {}, M, Z) /\ Fields(i) /\ i.rs \in Reg \ Z /\ i.rt \in Reg \ Z /\ i.imm \in 0 .. 2 ^ Half - 1 /\ {} \subseteq {ECX}
  BY EntersFacts
<1>2. PICK a : a = WordOf(s.const[i.rs] + ImmS(i))
  OBVIOUS
<1>3. a \in Word /\ a = Address(M, i)
  <2>1. s.const[i.rs] \in Word /\ s.const[i.rs] = Low(M.gpr[i.rs])
    BY <1>1, ValueOf
  <2>2. a = Offset(s.const[i.rs], i)
    BY <1>2 DEF Offset
  <2>3. QED
    BY <1>1, <2>1, <2>2, OffsetIs
<1>4. PICK m : m = IF i.op = "ld" THEN MapRT(s, i, DefineBoth(i.rt, FALSE)) ELSE MapRT(s, i, Define(i.rt, TRUE))
  OBVIOUS
<1>5. ToLoad(m.s, i, m, M, Z)
  BY <1>4, LoadPlaceOn
<1>6. CASE ~InKSeg(a) \/ i.op # "lw"
  <2>1. LoadConst(s, i) \in {LoadInto(m.s, i, m, a), ReadCall(m.s, i, m, a), ReadCallEAX(m.s, i, m, a)}
    BY <1>2, <1>4, <1>6 DEF LoadConst, ReadConst, LoadHere
  <2>2. PICK v : v = LoadConst(s, i)
    OBVIOUS
  <2>3. LoadDone(v, i, m, M, Z, a)
    BY <1>3, <1>5, <2>1, <2>2, ReadsOn
  <2>4. QED
    BY <1>3, <2>2, <2>3
<1>7. CASE InKSeg(a) /\ i.op = "lw"
  <2>1. PICK q : q = MapRegister(s, Define(i.rt, TRUE), {})
    OBVIOUS
  <2>2. Two({})
    BY <1>1 DEF Two
  <2>3. Writes(s, q, {}, M, Z \cup {i.rt}, i.rt, TRUE, {})
    BY <1>1, <2>1, <2>2, DefineOn
  <2>4. On(q.s, {}, M, Z \cup {i.rt}) /\ Takes(q.s, q, i.rt, 1 = 1)
    BY <2>3 DEF Writes, Takes
  <2>5. LoadWords(i) = 1
    BY <1>7 DEF LoadWords
  <2>6. ToLoad(q.s, i, q, M, Z)
    BY <1>1, <2>4, <2>5 DEF ToLoad, Open
  <2>7. LoadDone(LoadInto(q.s, i, q, a), i, q, M, Z, a)
    BY <1>3, <2>6, LoadHereOn
  <2>8. LoadConst(s, i) = IF i.rt = R0 THEN s ELSE LoadInto(q.s, i, q, a)
    BY <1>2, <1>7, <2>1 DEF LoadConst, LoadHere
  <2>9. QED
    BY <1>3, <2>7, <2>8
<1>8. QED
  BY <1>6, <1>7

\* The loads that are compiled leave in rt what memory holds at the interpreter's
\* address, and every host register that the call destroys is restored.  lw writes
\* to r0's host register too, which is cleared before it is read.
THEOREM LoadOn ==
    ASSUME NEW s, NEW i, NEW M, NEW Z, Enters(s, i, M, Z), i.op \in NativeLoads
    PROVE  /\ i.rt # R0 => On(Load(s, i), {}, With(M, i.rt, Interpret(M, i).gpr[i.rt]), Z)
           /\ i.rt = R0 => On(Load(s, i), {}, M, Z \cup {R0})
<1>1. /\ On(s, {}, M, Z) /\ i.rt \in Reg \ Z /\ Machine(M) /\ i.rs \in Reg \ Z /\ i.imm \in 0 .. 2 ^ Half - 1
      /\ Low(M.gpr[i.rs]) \in Word
  BY EntersFacts
<1>2. Address(M, i) \in Word
  BY <1>1, OffsetIs
<1>3. On(s, {}, M, Z \cup {R0})
  BY <1>1, FewerFollows DEF On
<1>4. \/ Load(s, i) = s /\ i.rt = R0
      \/ \E m : LoadDone(Load(s, i), i, m, M, Z, Address(M, i))
  BY LoadMappedOn, LoadConstOn DEF Load
<1>5. CASE Load(s, i) = s /\ i.rt = R0
  BY <1>3, <1>5
<1>6. ASSUME NEW m, LoadDone(Load(s, i), i, m, M, Z, Address(M, i))
      PROVE  /\ i.rt # R0 => On(Load(s, i), {}, With(M, i.rt, Interpret(M, i).gpr[i.rt]), Z)
             /\ i.rt = R0 => On(Load(s, i), {}, M, Z \cup {R0})
  <2>1. PICK v, a : v = Load(s, i) /\ a = Address(M, i)
    OBVIOUS
  <2>2. ToLoad(v, i, m, M, Z) /\ Fetches(v, m, i, a)
    BY <1>6, <2>1 DEF LoadDone
  <2>3. CASE i.rt = R0
    BY <2>1, <2>2, <2>3 DEF ToLoad, Open
  <2>4. CASE i.rt # R0 /\ i.op = "ld"
    <3>1. Open(v, m, M, Z, i.rt, 2)
      BY <2>2, <2>4 DEF ToLoad, LoadWords
    <3>2. On(v, {}, With(M, i.rt, Pair(v.host[m.x], v.host[m.hi])), Z)
      BY <1>1, <2>4, <3>1, OpenGets
    <3>3. Pair(v.host[m.x], v.host[m.hi]) = MemDouble(a)
      BY <1>2, <2>1, <2>2, <2>4, MemoryWords DEF Fetches
    <3>4. Interpret(M, i).gpr[i.rt] = MemDouble(a)
      <4>1. Interpret(M, i) = With(M, i.rt, MemDouble(a))
        BY <2>1, <2>4 DEF Interpret, r4300i_ld, Set, With
      <4>2. MemDouble(a) \in Double
        BY <1>2, <2>1, MemoryWords
      <4>3. QED
        BY <1>1, <2>4, <4>1, <4>2, WithMachine
    <3>5. QED
      BY <2>1, <2>4, <3>2, <3>3, <3>4
  <2>5. CASE i.rt # R0 /\ i.op # "ld"
    <3>1. Open(v, m, M, Z, i.rt, 1)
      BY <2>2, <2>5 DEF ToLoad, LoadWords
    <3>2. On(v, {}, With(M, i.rt, Sext(v.host[m.x])), Z)
      BY <1>1, <2>5, <3>1, OpenGets
    <3>3. v.host[m.x] = LoadWord(i, a)
      BY <2>2, <2>5 DEF Fetches
    <3>4. Interpret(M, i).gpr[i.rt] = Sext(LoadWord(i, a))
      <4>1. PICK w : w = Sext(LoadWord(i, a))
        OBVIOUS
      <4>2. w \in Double /\ Memory[a] \in Word
        BY <1>2, <2>1, <4>1, MemoryWords, Extended
      <4>3. w = CASE i.op \in {"lh", "lb"} -> Sext(SextHalf(LowHalf(Memory[a])))
                  [] i.op \in {"lhu", "lbu"} -> LowHalf(Memory[a])
                  [] i.op = "lw" -> Sext(Memory[a])
        BY <2>5, <4>1, <4>2, Halves DEF LoadWord, NativeLoads
      <4>4. Interpret(M, i) = With(M, i.rt, w)
        BY <2>1, <2>5, <4>3 DEF Interpret, r4300i_lh, r4300i_lhu, r4300i_lb, r4300i_lbu, r4300i_lw, Set, With, NativeLoads
      <4>5. QED
        BY <1>1, <2>5, <4>1, <4>2, <4>4, WithMachine
    <3>5. QED
      BY <2>1, <2>5, <3>2, <3>3, <3>4
  <2>6. QED
    BY <2>3, <2>4, <2>5
<1>7. QED
  BY <1>4, <1>5, <1>6

-------------------------------------------------------------------------------
(* Writing back operands                                                     *)

\* A register that is neither mapped nor a constant is in memory.
InMemory(t, r) == (\A k \in Host : t.map[k].mips # r) /\ (r # R0 => t.const[r] = NoConst)

\* Its value is then the one in memory.
LEMMA InMemoryValue ==
    ASSUME NEW t, NEW p, NEW M, NEW Z, On(t, p, M, Z), NEW r \in Reg \ Z, InMemory(t, r)
    PROVE  t.gpr[r] = M.gpr[r] /\ t.gpr[r] \in Double
<1>1. Image(t) /\ Machine(M) /\ Shown(t, M.gpr[r], r)
  BY DEF On, Follows
<1>2. CASE r = R0
  BY <1>1, <1>2 DEF Image, Machine
<1>3. CASE r # R0
  BY <1>1, <1>3 DEF InMemory, Shown, Image
<1>4. QED
  BY <1>2, <1>3

\* It stays there while registers are taken away.
LEMMA InMemoryLess ==
    ASSUME NEW s, NEW t, Less(s, t, Reg), NEW r \in Reg, InMemory(s, r)
    PROVE  InMemory(t, r)
<1>1. Unused \notin Reg
  BY MarkFacts
<1>2. QED
  BY <1>1 DEF InMemory, Less

\* Two steps that take registers away.
LEMMA LessTwice ==
    ASSUME NEW s, NEW t, NEW u, Less(s, t, Reg), Less(t, u, Reg)
    PROVE  Less(s, u, Reg)
<1>1. Less(s, u, Reg \cup Reg) /\ Reg \cup Reg = Reg
  BY LessTransitive
<1>2. QED
  BY <1>1

\* A constant is written back,
LEMMA FlushOneOn ==
    ASSUME NEW s, NEW p, NEW M, NEW Z, On(s, p, M, Z), NEW r \in Reg, NEW t, t = FlushOneConstant(s, r)
    PROVE  On(t, p, M, Z) /\ Less(s, t, Reg) /\ (r # R0 => t.const[r] = NoConst)
<1>1. Good(t, p) /\ Less(s, t, {r}) /\ (r # R0 => ~IsConst(t, r))
  BY FlushOneConstantGood DEF On
<1>2. Follows(t, M, Z)
  BY FlushOneConstantFollows DEF On
<1>3. QED
  BY <1>1, <1>2 DEF On, Less, IsConst

\* and so is a mapped register.
LEMMA WriteBackOn ==
    ASSUME NEW s, NEW p, NEW M, NEW Z, On(s, p, M, Z), NEW r \in Reg, NEW t, t = WriteBack(s, r)
    PROVE  On(t, p, M, Z) /\ Less(s, t, Reg) /\ \A k \in Host : t.map[k].mips # r
<1>1. Good(s, p) /\ Follows(s, M, Z)
  BY DEF On
<1>2. Consistent(s.map, s.const)
  BY <1>1 DEF Good
<1>3. CASE Where(s, r) = None
  <2>1. t = s /\ \A k \in Host : s.map[k].mips # r
    BY <1>2, <1>3, WhereIs DEF WriteBack
  <2>2. Less(s, s, Reg)
    BY DEF Less
  <2>3. QED
    BY <2>1, <2>2
<1>4. CASE Where(s, r) # None
  <2>1. PICK k : k = Where(s, r)
    OBVIOUS
  <2>2. k \in Host /\ s.map[k].mips = r
    BY <1>2, <1>4, <2>1, WhereIs
  <2>3. t = FlushRegister(s, k)
    BY <1>4, <2>1 DEF WriteBack
  <2>4. Good(t, p) /\ Less(s, t, {r}) /\ \A j \in Host : t.map[j].mips # r
    BY <1>1, <2>2, <2>3, FlushGood
  <2>5. Follows(t, M, Z)
    BY <1>1, <2>2, <2>3, FlushFollows
  <2>6. QED
    BY <2>4, <2>5 DEF On, Less
<1>5. QED
  BY <1>3, <1>4

\* Either way it ends up in memory.
LEMMA FlushMipsOn ==
    ASSUME NEW s, NEW p, NEW M, NEW Z, On(s, p, M, Z), NEW r \in Reg, NEW t, t = FlushMips(s, r)
    PROVE  On(t, p, M, Z) /\ Less(s, t, Reg) /\ InMemory(t, r)
<1>1. PICK u : u = FlushOneConstant(s, r)
  OBVIOUS
<1>2. On(u, p, M, Z) /\ Less(s, u, Reg) /\ (r # R0 => u.const[r] = NoConst)
  BY <1>1, FlushOneOn
<1>3. t = WriteBack(u, r)
  BY <1>1 DEF FlushMips
<1>4. On(t, p, M, Z) /\ Less(u, t, Reg) /\ \A k \in Host : t.map[k].mips # r
  BY <1>2, <1>3, WriteBackOn
<1>5. Less(s, t, Reg)
  BY <1>2, <1>4, LessTwice
<1>6. InMemory(t, r)
  BY <1>2, <1>4 DEF InMemory, Less
<1>7. QED
  BY <1>4, <1>5, <1>6

\* INTERPRET_LOADSTORE: rs and rt are written back before a call of the interpreter,
\* which finds them in memory, and no register changes its value.
THEOREM FlushOperandsOn ==
    ASSUME NEW s, NEW p, NEW M, NEW Z, On(s, p, M, Z), NEW i, Fields(i), NEW t, t = FlushOperands(s, i)
    PROVE  On(t, p, M, Z) /\ Less(s, t, Reg) /\ InMemory(t, i.rs) /\ InMemory(t, i.rt)
<1>1. PICK a, b, c : a = FlushOneConstant(s, i.rs) /\ b = FlushOneConstant(a, i.rt) /\ c = WriteBack(b, i.rs)
  OBVIOUS
<1>2. t = WriteBack(c, i.rt) /\ i.rs \in Reg /\ i.rt \in Reg
  BY <1>1 DEF FlushOperands, Fields
<1>3. On(a, p, M, Z) /\ Less(s, a, Reg) /\ (i.rs # R0 => a.const[i.rs] = NoConst)
  BY <1>1, <1>2, FlushOneOn
<1>4. On(b, p, M, Z) /\ Less(a, b, Reg) /\ (i.rt # R0 => b.const[i.rt] = NoConst)
  BY <1>1, <1>2, <1>3, FlushOneOn
<1>5. On(c, p, M, Z) /\ Less(b, c, Reg) /\ \A k \in Host : c.map[k].mips # i.rs
  BY <1>1, <1>2, <1>4, WriteBackOn
<1>6. On(t, p, M, Z) /\ Less(c, t, Reg) /\ \A k \in Host : t.map[k].mips # i.rt
  BY <1>2, <1>5, WriteBackOn
<1>7. Less(s, t, Reg)
  BY <1>3, <1>4, <1>5, <1>6, LessTwice
<1>8. InMemory(c, i.rs)
  BY <1>2, <1>3, <1>4, <1>5 DEF InMemory, Less
<1>9. InMemory(t, i.rs)
  BY <1>2, <1>6, <1>8, InMemoryLess
<1>10. InMemory(t, i.rt)
  BY <1>2, <1>4, <1>5, <1>6 DEF InMemory, Less
<1>11. QED
  BY <1>6, <1>7, <1>9, <1>10

\* Saving leaves a register in memory.
LEMMA CarriesMemory ==
    ASSUME NEW s, NEW t, Carries(s, t), NEW r \in Reg, InMemory(s, r)
    PROVE  InMemory(t, r)
BY InMemoryLess DEF Carries

\* Host registers that are saved are lost in a call and restored: EAX and ECX,
LEMMA AroundTwo ==
    ASSUME NEW t, NEW p, NEW M, NEW Z, On(t, p, M, Z), Saved(t, EAX), Saved(t, ECX)
    PROVE  On(PopIfMapped(PopIfMapped(Clobber(t, {EAX, ECX}), ECX), EAX), p, M, Z)
<1>1. PICK c, x, y : c = Clobber(t, {EAX, ECX}) /\ x = PopIfMapped(c, ECX) /\ y = PopIfMapped(x, EAX)
  OBVIOUS
<1>2. Typed(t) /\ Image(t)
  BY DEF On, Follows, Good
<1>3. Ran(t, c, {EAX, ECX})
  BY <1>1, <1>2, RanClobber
<1>4. Ran(t, x, {EAX, ECX} \ {ECX})
  BY <1>1, <1>2, <1>3, RanPop, HostFacts
<1>5. Ran(t, x, {EAX})
  BY <1>4, RanMore
<1>6. Ran(t, y, {EAX} \ {EAX})
  BY <1>1, <1>2, <1>5, RanPop, HostFacts
<1>7. Ran(t, y, {})
  BY <1>6, RanMore
<1>8. QED
  BY <1>1, <1>7, RanOn

\* or these and EDX.
LEMMA AroundThree ==
    ASSUME NEW t, NEW p, NEW M, NEW Z, On(t, p, M, Z), Saved(t, EAX), Saved(t, ECX), Saved(t, EDX)
    PROVE  On(PopMap(Clobber(t, {EAX, ECX, EDX})), p, M, Z)
<1>1. PICK c, w, x, y : /\ c = Clobber(t, {EAX, ECX, EDX}) /\ w = PopIfMapped(c, EDX)
                        /\ x = PopIfMapped(w, ECX) /\ y = PopIfMapped(x, EAX)
  OBVIOUS
<1>2. Typed(t) /\ Image(t)
  BY DEF On, Follows, Good
<1>3. Ran(t, c, {EAX, ECX, EDX})
  BY <1>1, <1>2, RanClobber
<1>4. Ran(t, w, {EAX, ECX, EDX} \ {EDX})
  BY <1>1, <1>2, <1>3, RanPop, HostFacts
<1>5. Ran(t, w, {EAX, ECX})
  BY <1>4, RanMore
<1>6. Ran(t, x, {EAX, ECX} \ {ECX})
  BY <1>1, <1>2, <1>5, RanPop, HostFacts
<1>7. Ran(t, x, {EAX})
  BY <1>6, RanMore
<1>8. Ran(t, y, {EAX} \ {EAX})
  BY <1>1, <1>2, <1>7, RanPop, HostFacts
<1>9. Ran(t, y, {})
  BY <1>8, RanMore
<1>10. On(y, p, M, Z)
  BY <1>9, RanOn
<1>11. QED
  BY <1>1, <1>10 DEF PopMap

\* EAX alone, for a word that passes through it.
LEMMA AroundOne ==
    ASSUME NEW t, NEW p, NEW M, NEW Z, On(t, p, M, Z), Saved(t, EAX), NEW w \in Word
    PROVE  /\ On(PopIfMapped(Clobber(t, {EAX}), EAX), p, M, Z)
           /\ On(PopIfMapped(Mov(t, EAX, w), EAX), p, M, Z)
<1>1. Typed(t) /\ Image(t)
  BY DEF On, Follows, Good
<1>2. ASSUME NEW c, Ran(t, c, {EAX}) PROVE On(PopIfMapped(c, EAX), p, M, Z)
  <2>1. PICK y : y = PopIfMapped(c, EAX)
    OBVIOUS
  <2>2. Ran(t, y, {EAX} \ {EAX})
    BY <1>1, <1>2, <2>1, RanPop, HostFacts
  <2>3. Ran(t, y, {})
    BY <2>2, RanMore
  <2>4. QED
    BY <2>1, <2>3, RanOn
<1>3. Ran(t, Clobber(t, {EAX}), {EAX})
  BY <1>1, RanClobber
<1>4. Ran(t, Mov(t, EAX, w), {EAX})
  <2>1. PICK k \in Host : k = EAX
    BY HostFacts
  <2>2. /\ Ran(t, Mov(t, k, w), {k}) /\ Mov(t, k, w).host[k] = w
        /\ \A j \in Host \ {k} : Mov(t, k, w).host[j] = t.host[j]
    BY <1>1, RanMov
  <2>3. QED
    BY <2>1, <2>2
<1>5. QED
  BY <1>2, <1>3, <1>4

-------------------------------------------------------------------------------
(* Stores                                                                    *)

\* From t to u only the machine outside the general registers changes.
Alongside(t, u) ==
    /\ Typed(u) /\ Same(t, u) /\ u.host = t.host /\ u.gpr = t.gpr /\ u.flushed = t.flushed
    /\ u.stack = t.stack /\ u.dead = t.dead /\ u.now = t.now /\ u.year = t.year
    /\ u.fpr \in [Cells -> Word] /\ u.con31 \in Word /\ u.rc \in Word

\* Memory, the coprocessor's registers and the exit may change on both sides alike.
LEMMA AlongsideOn ==
    ASSUME NEW t, NEW p, NEW M, NEW Z, On(t, p, M, Z), NEW u, Alongside(t, u),
           NEW N, Machine(N), N.gpr = M.gpr, Aside(u, N)
    PROVE  /\ On(u, p, N, Z)
           /\ \A k \in Host : Saved(t, k) => Saved(u, k)
           /\ \A r \in Reg : InMemory(t, r) => InMemory(u, r)
<1>1. u.map = t.map /\ u.const = t.const /\ Image(t) /\ Good(t, p)
  BY DEF Alongside, Same, Rest, On, Follows
<1>2. Good(u, p)
  BY <1>1, SameGood DEF Alongside
<1>3. Image(u)
  BY <1>1 DEF Image, Alongside
<1>4. \A r \in Reg \ Z : Shown(u, N.gpr[r], r)
  BY <1>1 DEF On, Follows, Shown, Alongside
<1>5. QED
  BY <1>1, <1>2, <1>3, <1>4 DEF On, Follows, Saved, Live, InMemory, Alongside

\* A store.
LEMMA StoreOn ==
    ASSUME NEW t, NEW p, NEW M, NEW Z, On(t, p, M, Z), NEW size, NEW a, NEW data
    PROVE  /\ On(Store(t, size, a, data), p, Store(M, size, a, data), Z)
           /\ \A k \in Host : Saved(t, k) => Saved(Store(t, size, a, data), k)
<1>1. PICK u, N : u = Store(t, size, a, data) /\ N = Store(M, size, a, data)
  OBVIOUS
<1>2. Typed(t) /\ Image(t) /\ Machine(M) /\ Aside(t, M)
  BY DEF On, Good, Follows
<1>3. u = [t EXCEPT !.store = <<size, a, data>>] /\ N = [M EXCEPT !.store = <<size, a, data>>]
  BY <1>1 DEF Store
<1>4. Typed(u) /\ Same(t, u)
  <2>1. PICK w : w = <<size, a, data>>
    OBVIOUS
  <2>2. LET v == [t EXCEPT !.store = w] IN Typed(v) /\ Same(t, v)
    BY <1>2, SetOther
  <2>3. QED
    BY <1>3, <2>1, <2>2
<1>5. /\ u.host = t.host /\ u.gpr = t.gpr /\ u.flushed = t.flushed /\ u.stack = t.stack /\ u.dead = t.dead
      /\ u.now = t.now /\ u.year = t.year /\ u.fpr = t.fpr /\ u.con31 = t.con31 /\ u.rc = t.rc /\ u.exit = t.exit
      /\ u.store = <<size, a, data>>
  BY <1>2, <1>3 DEF Typed
<1>6. /\ N.gpr = M.gpr /\ N.fpr = M.fpr /\ N.con31 = M.con31 /\ N.rc = M.rc /\ N.exit = M.exit
      /\ N.store = <<size, a, data>> /\ Machine(N)
  BY <1>2, <1>3 DEF Machine
<1>7. Alongside(t, u)
  BY <1>2, <1>4, <1>5 DEF Alongside, Image
<1>8. Aside(u, N)
  BY <1>2, <1>5, <1>6 DEF Aside
<1>9. QED
  BY <1>1, <1>6, <1>7, <1>8, AlongsideOn

\* A store after a call is a call after the store.
LEMMA StoreCommutes ==
    ASSUME NEW t, Typed(t), NEW size, NEW a, NEW data, NEW K
    PROVE  Store(Clobber(t, K), size, a, data) = Clobber(Store(t, size, a, data), K)
BY DEF Store, Clobber, Typed

\* What a store of each size writes.
Datum(size, d) == CASE size = "half" -> LowHalf(Low(d)) [] size = "word" -> Low(d) [] size = "double" -> d

\* A store that calls the memory handler.
LEMMA StoreCallOn ==
    ASSUME NEW s, NEW i, NEW M, NEW Z, Enters(s, i, M, Z), NEW size \in {"half", "word", "double"}
    PROVE  On(StoreCall(s, i, size), {}, Store(M, size, Address(M, i), Datum(size, M.gpr[i.rt])), Z)
<1>1. /\ On(s, {}, M, Z) /\ i.rs \in Reg \ Z /\ i.rt \in Reg \ Z /\ i.imm \in 0 .. 2 ^ Half - 1 /\ Machine(M)
  BY EntersFacts
<1>2. PICK f, e, t : f = FlushMips(s, i.rt) /\ e = PushIfMapped(f, EAX) /\ t = PushIfMapped(e, ECX)
  OBVIOUS
<1>3. On(f, {}, M, Z) /\ Less(s, f, Reg) /\ InMemory(f, i.rt)
  BY <1>1, <1>2, FlushMipsOn
<1>4. On(e, {}, M, Z) /\ Carries(f, e) /\ Saved(e, EAX)
  BY <1>2, <1>3, PushOn, HostFacts
<1>5. /\ On(t, {}, M, Z) /\ Carries(e, t) /\ Saved(t, ECX) /\ Saved(t, EAX)
  BY <1>2, <1>4, PushOn, HostFacts
<1>6. InMemory(t, i.rt)
  BY <1>1, <1>3, <1>4, <1>5, CarriesMemory
<1>7. t.gpr[i.rt] = M.gpr[i.rt]
  BY <1>1, <1>5, <1>6, InMemoryValue
<1>8. PICK k : k = Where(t, i.rs)
  OBVIOUS
<1>9. PICK base : base = IF IsConst(s, i.rs) THEN s.const[i.rs] ELSE IF k = None THEN Low(t.gpr[i.rs]) ELSE t.host[k]
  OBVIOUS
<1>10. base \in Word /\ base = Low(M.gpr[i.rs])
  <2>1. CASE IsConst(s, i.rs)
    BY <1>1, <1>9, <2>1, ValueOf
  <2>2. CASE ~IsConst(s, i.rs) /\ k = None
    <3>1. ~IsConst(t, i.rs)
      BY <1>1, <1>3, <1>4, <1>5, <2>2 DEF Carries, Less, IsConst
    <3>2. Low(M.gpr[i.rs]) \in Word
      BY <1>1, <1>5, ValueOf
    <3>3. Where(t, i.rs) = None
      BY <1>8, <2>2
    <3>4. Where(t, i.rs) = None /\ ~IsConst(t, i.rs) => M.gpr[i.rs] = t.gpr[i.rs]
      BY <1>1, <1>5, ValueOf
    <3>5. QED
      BY <1>9, <2>2, <3>1, <3>2, <3>3, <3>4
  <2>3. CASE ~IsConst(s, i.rs) /\ k # None
    <3>1. Consistent(t.map, t.const)
      BY <1>5 DEF On, Good
    <3>2. k \in Host /\ t.map[k].mips = i.rs
      BY <1>1, <1>8, <2>3, <3>1, WhereIs
    <3>3. PICK m : m = [x |-> k, hi |-> t.map[k].hi]
      OBVIOUS
    <3>4. Has(t, m, i.rs)
      BY <3>2, <3>3 DEF Has
    <3>5. t.host[m.x] \in Word /\ t.host[m.x] = Low(M.gpr[i.rs])
      BY <1>1, <1>5, <3>4, HasValue
    <3>6. QED
      BY <1>9, <2>3, <3>3, <3>5
  <2>4. QED
    BY <2>1, <2>2, <2>3
<1>11. WordOf(base + ImmS(i)) = Address(M, i)
  BY <1>1, <1>10, OffsetIs DEF Offset
<1>12. PICK data : data = Datum(size, M.gpr[i.rt])
  OBVIOUS
<1>13. PICK u : u = Store(t, size, Address(M, i), data)
  OBVIOUS
<1>14. StoreCall(s, i, size) = PopIfMapped(PopIfMapped(Clobber(u, {EAX, ECX}), ECX), EAX)
  <2>1. PICK low : low = IF i.rt = R0 THEN 0 ELSE Low(t.gpr[i.rt])
    OBVIOUS
  <2>2. low = Low(M.gpr[i.rt])
    <3>1. M.gpr[R0] = 0 /\ Low(0) = 0
      BY <1>1, Pairs, Widths DEF Machine, Low
    <3>2. QED
      BY <1>7, <2>1, <3>1
  <2>3. data = CASE size = "half" -> LowHalf(low) [] size = "word" -> low [] size = "double" -> t.gpr[i.rt]
    BY <1>7, <1>12, <2>2 DEF Datum
  <2>4. StoreCall(s, i, size) = PopIfMapped(PopIfMapped(Store(Clobber(t, {EAX, ECX}), size, WordOf(base + ImmS(i)), data), ECX), EAX)
    BY <1>2, <1>8, <1>9, <2>1, <2>3 DEF StoreCall, StoreFrom
  <2>5. Typed(t)
    BY <1>5 DEF On, Good
  <2>6. QED
    BY <1>11, <1>13, <2>4, <2>5, StoreCommutes
<1>15. /\ On(u, {}, Store(M, size, Address(M, i), data), Z)
       /\ \A j \in Host : Saved(t, j) => Saved(u, j)
  BY <1>5, <1>13, StoreOn
<1>16. Saved(u, EAX) /\ Saved(u, ECX)
  BY <1>5, <1>15, HostFacts
<1>17. QED
  BY <1>12, <1>14, <1>15, <1>16, AroundTwo

\* sw to a constant address.
LEMMA SwOn ==
    ASSUME NEW s, NEW i, NEW M, NEW Z, Enters(s, i, M, Z)
    PROVE  On(dyna4300i_sw(s, i), {}, Store(M, "word", Address(M, i), Low(M.gpr[i.rt])), Z)
<1>1. /\ On(s, {}, M, Z) /\ i.rs \in Reg \ Z /\ i.rt \in Reg \ Z /\ i.imm \in 0 .. 2 ^ Half - 1 /\ Machine(M)
      /\ Fields(i) /\ {} \subseteq {ECX}
  BY EntersFacts
<1>2. PICK a : a = WordOf(s.const[i.rs] + ImmS(i))
  OBVIOUS
<1>3. IsConst(s, i.rs) => a = Address(M, i)
  <2>1. IsConst(s, i.rs) => s.const[i.rs] \in Word /\ s.const[i.rs] = Low(M.gpr[i.rs])
    BY <1>1, ValueOf
  <2>2. a = Offset(s.const[i.rs], i)
    BY <1>2 DEF Offset
  <2>3. QED
    BY <1>1, <2>1, <2>2, OffsetIs
<1>4. CASE ~IsConst(s, i.rs) \/ ProtectMemory \/ ~InKSeg(a)
  <2>1. dyna4300i_sw(s, i) = StoreCall(s, i, "word")
    BY <1>2, <1>4 DEF dyna4300i_sw
  <2>2. On(StoreCall(s, i, "word"), {}, Store(M, "word", Address(M, i), Datum("word", M.gpr[i.rt])), Z)
    BY StoreCallOn
  <2>3. QED
    BY <2>1, <2>2 DEF Datum
<1>5. CASE ~(~IsConst(s, i.rs) \/ ProtectMemory \/ ~InKSeg(a)) /\ i.rt = R0
  <2>1. PICK t, u : t = PushIfMapped(s, EAX) /\ u = Store(t, "word", a, 0)
    OBVIOUS
  <2>2. On(t, {}, M, Z) /\ Saved(t, EAX)
    BY <1>1, <2>1, PushOn, HostFacts
  <2>3. On(u, {}, Store(M, "word", a, 0), Z) /\ \A j \in Host : Saved(t, j) => Saved(u, j)
    BY <2>1, <2>2, StoreOn
  <2>4. On(PopIfMapped(Clobber(u, {EAX}), EAX), {}, Store(M, "word", a, 0), Z)
    <3>1. Saved(u, EAX) /\ 0 \in Word
      BY <2>2, <2>3, HostFacts, Signs
    <3>2. QED
      BY <2>3, <3>1, AroundOne
  <2>5. dyna4300i_sw(s, i) = PopIfMapped(Store(Clobber(t, {EAX}), "word", a, 0), EAX)
    BY <1>2, <1>5, <2>1 DEF dyna4300i_sw
  <2>6. Typed(t)
    BY <2>2 DEF On, Good
  <2>7. dyna4300i_sw(s, i) = PopIfMapped(Clobber(u, {EAX}), EAX)
    BY <2>1, <2>5, <2>6, StoreCommutes
  <2>8. Low(M.gpr[i.rt]) = 0
    BY <1>1, <1>5, Pairs, Widths DEF Machine, Low
  <2>9. QED
    BY <1>3, <1>5, <2>4, <2>7, <2>8
<1>6. CASE ~(~IsConst(s, i.rs) \/ ProtectMemory \/ ~InKSeg(a)) /\ i.rt # R0
  <2>1. PICK m : m = MapRT(s, i, Want(i.rt, TRUE))
    OBVIOUS
  <2>2. Reads(s, m, {}, M, Z, i.rt, TRUE, {i.rd, i.rs})
    BY <1>1, <2>1, WantsOn
  <2>3. On(m.s, {}, M, Z) /\ Has(m.s, m, i.rt)
    BY <2>2 DEF Reads
  <2>4. m.s.host[m.x] = Low(M.gpr[i.rt])
    BY <1>1, <2>3, HasValue
  <2>5. On(Store(m.s, "word", a, m.s.host[m.x]), {}, Store(M, "word", a, m.s.host[m.x]), Z)
    BY <2>3, StoreOn
  <2>6. dyna4300i_sw(s, i) = Store(m.s, "word", a, m.s.host[m.x])
    BY <1>2, <1>6, <2>1 DEF dyna4300i_sw, StoreHere, Own
  <2>7. QED
    BY <1>3, <1>6, <2>4, <2>5, <2>6
<1>7. QED
  BY <1>4, <1>5, <1>6

\* The stores that are compiled.
NativeStores == {"sb", "sh", "sw", "sd"}

\* The stores that are compiled store what the interpreter stores, where it does.
THEOREM StoresOn ==
    ASSUME NEW s, NEW i, NEW M, NEW Z, Enters(s, i, M, Z), i.op \in NativeStores
    PROVE  /\ i.op = "sb" => On(dyna4300i_sb(s, i), {}, Interpret(M, i), Z)
           /\ i.op = "sh" => On(dyna4300i_sh(s, i), {}, Interpret(M, i), Z)
           /\ i.op = "sw" => On(dyna4300i_sw(s, i), {}, Interpret(M, i), Z)
           /\ i.op = "sd" => On(dyna4300i_sd(s, i), {}, Interpret(M, i), Z)
<1>1. /\ On(StoreCall(s, i, "half"), {}, Store(M, "half", Address(M, i), Datum("half", M.gpr[i.rt])), Z)
      /\ On(StoreCall(s, i, "double"), {}, Store(M, "double", Address(M, i), Datum("double", M.gpr[i.rt])), Z)
  BY StoreCallOn
<1>2. CASE i.op = "sb"
  <2>1. Interpret(M, i) = Store(M, "half", Address(M, i), Datum("half", M.gpr[i.rt]))
    BY <1>2 DEF Interpret, r4300i_sb, r4300i_sh, Datum, lo, RT
  <2>2. QED
    BY <1>1, <1>2, <2>1 DEF dyna4300i_sb
<1>3. CASE i.op = "sh"
  <2>1. Interpret(M, i) = Store(M, "half", Address(M, i), Datum("half", M.gpr[i.rt]))
    BY <1>3 DEF Interpret, r4300i_sh, Datum, lo, RT
  <2>2. QED
    BY <1>1, <1>3, <2>1 DEF dyna4300i_sh
<1>4. CASE i.op = "sw"
  <2>1. Interpret(M, i) = Store(M, "word", Address(M, i), Low(M.gpr[i.rt]))
    BY <1>4 DEF Interpret, r4300i_sw, lo, RT
  <2>2. QED
    BY <1>4, <2>1, SwOn
<1>5. CASE i.op = "sd"
  <2>1. Interpret(M, i) = Store(M, "double", Address(M, i), Datum("double", M.gpr[i.rt]))
    BY <1>5 DEF Interpret, r4300i_sd, Datum, RT
  <2>2. QED
    BY <1>1, <1>5, <2>1 DEF dyna4300i_sd
<1>6. QED
  BY <1>2, <1>3, <1>4, <1>5 DEF NativeStores

-------------------------------------------------------------------------------
(* Multiplication and division                                               *)

\* Two host registers become LO and HI.
LEMMA OwnFollows ==
    ASSUME NEW v, NEW M, NEW Z, Follows(v, M, Z \cup {LO, HI}), v.const[LO] = NoConst, v.const[HI] = NoConst,
           NEW k \in Host, NEW h \in Host, h # k, NEW a \in {LO, HI}, NEW b \in {LO, HI}, a # b,
           \A j \in Host : v.map[j].mips \in Reg \ {LO, HI} => j \notin {k, h} /\ v.map[j].hi \notin {k, h},
           NEW w, Good(w, {}), Image(w), Aside(v, w), w.gpr = v.gpr, w.const = v.const, w.host = v.host,
           w.map[k].mips = a, w.map[k].hi = k, w.map[k].dirty, w.map[h].mips = b, w.map[h].hi = h, w.map[h].dirty,
           \A j \in Host \ {k, h} : w.map[j] = v.map[j]
    PROVE  On(w, {}, With(With(M, a, Sext(v.host[k])), b, Sext(v.host[h])), Z)
<1>1. LO \in Reg /\ HI \in Reg /\ LO # R0 /\ HI # R0 /\ Image(v) /\ Machine(M) /\ Aside(v, M)
  BY MultiplierFacts DEF Follows
<1>2. /\ v.host[k] \in Word /\ v.host[h] \in Word /\ Sext(v.host[k]) \in Double /\ Sext(v.host[h]) \in Double
      /\ Low(Sext(v.host[k])) = v.host[k] /\ Low(Sext(v.host[h])) = v.host[h]
      /\ IsWord(Sext(v.host[k])) /\ IsWord(Sext(v.host[h]))
  BY <1>1, Extended DEF Image
<1>3. ASSUME NEW q \in Reg \ (Z \cup {LO, HI})
      PROVE  Shown(w, M.gpr[q], q)
  <2>1. Shown(v, M.gpr[q], q)
    BY DEF Follows
  <2>2. \A j \in Host : w.map[j].mips = q => j \notin {k, h} /\ w.map[j] = v.map[j]
    OBVIOUS
  <2>3. \A j \in Host : v.map[j].mips = q => w.map[j].mips = q
    OBVIOUS
  <2>4. QED
    BY <2>1, <2>2, <2>3 DEF Shown
<1>4. Follows(w, M, Z \cup {LO, HI})
  BY <1>1, <1>3 DEF Follows, Aside
<1>5. \A i, j \in Host : w.map[j].mips \in Reg /\ w.map[i].mips = w.map[j].mips => i = j
  BY DEF Good, Consistent
<1>6. Shown(w, Sext(v.host[k]), a)
  <2>1. \A j \in Host : w.map[j].mips = a => j = k
    BY <1>1, <1>5
  <2>2. QED
    BY <1>2, <2>1 DEF Shown
<1>7. Shown(w, Sext(v.host[h]), b)
  <2>1. \A j \in Host : w.map[j].mips = b => j = h
    BY <1>1, <1>5
  <2>2. QED
    BY <1>2, <2>1 DEF Shown
<1>8. Follows(w, With(M, a, Sext(v.host[k])), Z \cup {b})
  <2>1. Z \cup {LO, HI} = (Z \cup {b}) \cup {a}
    OBVIOUS
  <2>2. a \in Reg /\ a # R0
    BY <1>1
  <2>3. QED
    BY <1>2, <1>4, <1>6, <2>1, <2>2, ShownFollows
<1>9. b \in Reg /\ b # R0
  BY <1>1
<1>10. PICK N : N = With(M, a, Sext(v.host[k]))
  OBVIOUS
<1>11. Follows(w, With(N, b, Sext(v.host[h])), Z)
  BY <1>2, <1>7, <1>8, <1>9, <1>10, ShownFollows
<1>12. QED
  BY <1>10, <1>11 DEF On

\* As the interpreter writes them.
LEMMA HiLoIs ==
    ASSUME NEW M, Machine(M), NEW x \in Double, NEW y \in Double
    PROVE  /\ With(With(M, LO, x), HI, y) = HiLo(M, y, x)
           /\ With(With(M, HI, y), LO, x) = HiLo(M, y, x)
<1>1. LO \in Reg /\ HI \in Reg /\ LO # HI
  BY MultiplierFacts
<1>2. M.gpr \in [Reg -> Double]
  BY DEF Machine
<1> DEFINE g == [M.gpr EXCEPT ![LO] = x, ![HI] = y]
<1>3. [M.gpr EXCEPT ![HI] = y, ![LO] = x] = g
  BY <1>1, <1>2
<1>4. With(With(M, LO, x), HI, y) = [M EXCEPT !.gpr = g] /\ With(With(M, HI, y), LO, x) = [M EXCEPT !.gpr = g]
  <2>1. With(M, LO, x).gpr = [M.gpr EXCEPT ![LO] = x] /\ With(M, HI, y).gpr = [M.gpr EXCEPT ![HI] = y]
    BY DEF With, Machine
  <2>2. QED
    BY <1>3, <2>1 DEF With, Machine
<1>5. HiLo(M, y, x) = [M EXCEPT !.gpr = g]
  BY <1>3 DEF HiLo, Machine
<1>6. QED
  BY <1>4, <1>5

\* A request for a register that has a place finds it there.
LEMMA AgainPlace ==
    ASSUME NEW s, NEW p, Good(s, p), NEW c, NEW keep, Allowed(c, p, keep),
           NEW k \in Host, s.map[k].mips = c.mips
    PROVE  MapRegister(s, c, keep).x = k
<1>1. ASSUME NEW t, Good(t, p), t.map[k].mips = c.mips, NEW e, e.mips = c.mips
      PROVE  MapPlain(t, e, keep).x = k
  <2> DEFINE u == [t EXCEPT !.const[e.mips] = IF e.mips = R0 THEN @ ELSE NoConst]
  <2>1. Typed(t) /\ Consistent(t.map, t.const) /\ c.mips \in Reg
    BY <1>1, RequestFacts DEF Good, Allowed
  <2>2. u.map = t.map
    BY <2>1 DEF Typed
  <2>3. Where(t, c.mips) = k
    BY <1>1, <2>1, WhereIs
  <2>4. Where(u, e.mips) = k
    BY <1>1, <2>2, <2>3 DEF Where, Holding
  <2>5. k # None
    BY HostFacts
  <2>6. MapPlain(t, e, keep) = MapPlainConst(u, e, keep)
    BY DEF MapPlain
  <2> HIDE DEF u
  <2>7. MapPlainConst(u, e, keep) = ConvertReg(u, k, e, keep)
    BY <2>4, <2>5 DEF MapPlainConst
  <2>8. ConvertReg(u, k, e, keep).x = k
    BY DEF ConvertReg, Converted, Used
  <2>9. QED
    BY <2>6, <2>7, <2>8
<1>2. Good(NextYear(s), p) /\ NextYear(s).map = s.map
  BY NextYearGood DEF NextYear, Good, Typed
<1>3. Good(NextYear(NextYear(s)), p) /\ NextYear(NextYear(s)).map = s.map
  BY <1>2, NextYearGood DEF NextYear, Good, Typed
<1>4. CASE ~Constant(s, c)
  BY <1>1, <1>2, <1>4 DEF MapRegister
<1>5. CASE Constant(s, c)
  <2> DEFINE e == Conditions(c.mips, c.is32, c.mips # R0, TRUE, TRUE)
             f == Conditions(c.mips, c.is32, c.dirty \/ c.mips # R0, TRUE, TRUE)
             t == NextYear(NextYear(s))
             m == MapPlain(t, e, keep)
             value == NextYear(s).const[c.mips]
             u == LoadConstant(m, value)
  <2>1. e.mips = c.mips /\ f.mips = c.mips /\ e.is32 = c.is32 /\ e \in RequestType
    BY RequestFacts DEF Conditions, Allowed, RequestType
  <2>2. Allowed(e, p, keep)
    BY <2>1 DEF Allowed
  <2> HIDE DEF e, f
  <2>3. m.x = k
    BY <1>1, <1>3, <2>1
  <2>4. Answers(t, m, e, p, keep)
    BY <1>3, <2>2, MapPlainGood
  <2> HIDE DEF m
  <2>5. Good(m.s, p) /\ m.s.map[k].mips = c.mips
    BY <2>1, <2>3, <2>4 DEF Answers
  <2>6. Good(u, p) /\ u.map = m.s.map
    <3>1. Typed(m.s)
      BY <2>5, PlainTyped
    <3>2. Typed(u) /\ Same(m.s, u)
      BY <3>1, LoadConstantSame
    <3> HIDE DEF u
    <3>3. QED
      BY <2>5, <3>2, PlainGood DEF Plain, Same
  <2> HIDE DEF u
  <2>7. MapPlain(u, f, keep).x = k
    BY <1>1, <2>1, <2>5, <2>6
  <2>8. MapRegister(s, c, keep) = MapPlain(u, f, keep)
    BY <1>5 DEF MapRegister, MapOneConstantToRegister, u, m, t, e, f, value
  <2>9. QED
    BY <2>7, <2>8
<1>6. QED
  BY <1>4, <1>5

\* A host register that is given away is dirty.
LEMMA OwnedDirty ==
    ASSUME NEW s, Typed(s), NEW k \in Host, NEW r
    PROVE  OwnedBy(s, k, r).map[k].dirty
BY DEF OwnedBy, Typed, MapType, EntryType

\* Two host registers are given away.
LEMMA OwnedTwice ==
    ASSUME NEW v, Good(v, {}), Image(v), NEW k \in Host, NEW h \in Host, h # k, NEW a \in Reg, NEW b \in Reg,
           NEW w, w = OwnedBy(OwnedBy(v, h, b), k, a)
    PROVE  /\ Contents(v, w) /\ w.const = v.const /\ Image(w)
           /\ w.map[k].mips = a /\ w.map[k].hi = k /\ w.map[k].dirty
           /\ w.map[h].mips = b /\ w.map[h].hi = h /\ w.map[h].dirty
           /\ \A j \in Host \ {k, h} : w.map[j] = v.map[j]
<1> DEFINE u == OwnedBy(v, h, b)
<1>1. /\ Typed(u) /\ u.map[h].mips = b /\ u.map[h].hi = h /\ \A j \in Host : j # h => u.map[j] = v.map[j]
      /\ Contents(v, u) /\ u.const = v.const /\ u.map[h].dirty
  <2>1. Typed(v)
    BY DEF Good
  <2>2. /\ Typed(u) /\ u.map[h].mips = b /\ u.map[h].hi = h /\ \A j \in Host : j # h => u.map[j] = v.map[j]
    BY <2>1, OwnedEffect
  <2>3. Contents(v, u) /\ u.const = v.const
    BY <2>1 DEF Contents, Aside, OwnedBy, Typed
  <2>4. u.map[h].dirty
    BY <2>1, OwnedDirty
  <2>5. QED
    BY <2>2, <2>3, <2>4
<1> HIDE DEF u
<1>2. /\ w.map[k].mips = a /\ w.map[k].hi = k /\ \A j \in Host : j # k => w.map[j] = u.map[j]
      /\ Contents(u, w) /\ w.const = u.const /\ w.map[k].dirty
  <2>1. w = OwnedBy(u, k, a)
    BY DEF u
  <2>2. /\ w.map[k].mips = a /\ w.map[k].hi = k /\ \A j \in Host : j # k => w.map[j] = u.map[j]
    BY <1>1, <2>1, OwnedEffect
  <2>3. Contents(u, w) /\ w.const = u.const
    BY <1>1, <2>1 DEF Contents, Aside, OwnedBy, Typed
  <2>4. w.map[k].dirty
    BY <1>1, <2>1, OwnedDirty
  <2>5. QED
    BY <2>2, <2>3, <2>4
<1>3. Contents(v, w) /\ w.const = v.const
  BY <1>1, <1>2, ContentsTransitive
<1>4. Image(w)
  BY <1>3, ContentsImage
<1>5. QED
  BY <1>1, <1>2, <1>3, <1>4

\* LO is mapped as a pair, and its value is open; HI is nowhere.
PairOpen(t, m, M, Z) ==
    /\ Open(t, m, M, Z \cup {HI}, LO, 2)
    /\ t.const[HI] = NoConst /\ \A j \in Host : t.map[j].mips # HI

\* A pair whose value is open.
LEMMA OpenTwo ==
    ASSUME NEW t, NEW m, NEW M, NEW Z, NEW d \in Reg
    PROVE  Open(t, m, M, Z, d, 2) <=> On(t, {}, M, Z \cup {d}) /\ Takes(t, m, d, FALSE)
<1>1. Takes(t, m, d, 2 = 1) <=> Takes(t, m, d, FALSE)
  BY DEF Takes
<1>2. QED
  BY <1>1 DEF Open

\* What becomes of such a state when the registers in K have been run over.
LEMMA PairFacts ==
    ASSUME NEW t, NEW m, NEW M, NEW Z, PairOpen(t, m, M, Z)
    PROVE  /\ Typed(t) /\ Image(t) /\ Good(t, {}) /\ m.x \in Host /\ m.hi \in Host /\ m.hi = t.map[m.x].hi
           /\ m.hi # m.x /\ t.map[m.x].mips = LO /\ Takes(t, m, LO, FALSE)
           /\ t.host \in [Host -> Word] /\ On(t, {}, M, Z \cup {LO, HI}) /\ Follows(t, M, Z \cup {LO, HI})
           /\ t.const[LO] = NoConst /\ t.const[HI] = NoConst
<1>1. LO \in Reg /\ LO # R0
  BY MultiplierFacts
<1>2. /\ Typed(t) /\ Image(t) /\ Good(t, {}) /\ m.x \in Host /\ m.hi \in Host /\ m.hi = t.map[m.x].hi
      /\ Has(t, m, LO) /\ t.host \in [Host -> Word]
  BY OpenPlace DEF PairOpen
<1>3. Takes(t, m, LO, FALSE) /\ On(t, {}, M, (Z \cup {HI}) \cup {LO})
  BY <1>1, OpenTwo DEF PairOpen
<1>4. (Z \cup {HI}) \cup {LO} = Z \cup {LO, HI}
  OBVIOUS
<1>5. t.map[m.x].mips = LO /\ m.hi # m.x
  BY <1>3 DEF Takes, Has
<1>6. t.const[LO] = NoConst
  BY <1>1, <1>2, <1>5 DEF Good, Consistent
<1>7. On(t, {}, M, Z \cup {LO, HI}) /\ Follows(t, M, Z \cup {LO, HI})
  BY <1>3, <1>4 DEF On
<1>8. QED
  BY <1>2, <1>3, <1>5, <1>6, <1>7 DEF PairOpen

\* LO is mapped after both have been dropped,
LEMMA PairFirst ==
    ASSUME NEW s, NEW M, NEW Z, On(s, {}, M, Z), NEW keep, Two(keep),
           NEW m, m = MapRegister(FreeMipsRegister(FreeMipsRegister(s, LO), HI), DefineBoth(LO, FALSE), keep)
    PROVE  PairOpen(m.s, m, M, Z)
<1> DEFINE a == FreeMipsRegister(s, LO)
           f == FreeMipsRegister(a, HI)
           Y == Z \cup {HI}
<1>1. LO \in Reg /\ HI \in Reg /\ LO # R0 /\ HI # R0 /\ LO # HI
  BY MultiplierFacts
<1>2. On(a, {}, M, Z \cup {LO})
  BY <1>1, FreeMipsOn
<1>3. Ready(f)
  BY ReadyFirst DEF On
<1> HIDE DEF a
<1>4. On(f, {}, M, (Z \cup {LO}) \cup {HI})
  BY <1>1, <1>2, FreeMipsOn
<1>5. m = MapRegister(f, DefineBoth(LO, FALSE), keep)
  BY DEF f, a
<1> HIDE DEF f
<1>6. Writes(f, MapRegister(f, DefineBoth(LO, FALSE), keep), {}, M, ((Z \cup {LO}) \cup {HI}) \cup {LO}, LO, FALSE, keep)
  BY <1>1, <1>4, DefineOn
<1>7. ((Z \cup {LO}) \cup {HI}) \cup {LO} = Y \cup {LO}
  OBVIOUS
<1>8. On(m.s, {}, M, Y \cup {LO}) /\ Takes(m.s, m, LO, FALSE) /\ Beside(f, m.s, LO, keep)
  BY <1>5, <1>6, <1>7 DEF Writes
<1>9. Open(m.s, m, M, Y, LO, 2)
  BY <1>1, <1>8, OpenTwo
<1>10. m.s.const[HI] = NoConst /\ \A j \in Host : m.s.map[j].mips # HI
  BY <1>1, <1>3, <1>8 DEF Beside, Ready
<1>11. QED
  BY <1>9, <1>10 DEF PairOpen
\* An operand is at x, beside the pair.
PairGets(t, x, m, M, Z, r, q) ==
    /\ PairOpen(x.s, m, M, Z) /\ Has(x.s, x, r) /\ x.x \in Host /\ x.s.host[x.x] = Low(M.gpr[r])
    /\ Beside(t, x.s, r, {LO, q})

\* and an operand beside it.
LEMMA PairBeside ==
    ASSUME NEW t, NEW m, NEW M, NEW Z, PairOpen(t, m, M, Z), NEW r \in Reg \ (Z \cup {LO, HI}), NEW q \in Reg,
           NEW x, x = MapRegister(t, Want(r, TRUE), {LO, q})
    PROVE  PairGets(t, x, m, M, Z, r, q)
<1>1. LO \in Reg /\ HI \in Reg /\ LO # HI /\ Two({LO, q}) /\ {} \subseteq {ECX}
  BY MultiplierFacts, TwoOf
<1>2. On(t, {}, M, Z \cup {LO, HI}) /\ Takes(t, m, LO, FALSE)
  BY PairFacts
<1>3. Reads(t, x, {}, M, Z \cup {LO, HI}, r, TRUE, {LO, q})
  BY <1>1, <1>2, WantOn
<1>4. On(x.s, {}, M, Z \cup {LO, HI}) /\ Has(x.s, x, r) /\ Beside(t, x.s, r, {LO, q})
  BY <1>3 DEF Reads
<1>5. Takes(x.s, m, LO, FALSE)
  <2>1. LO # r /\ LO \in {LO, q}
    OBVIOUS
  <2>2. \A is32 : Takes(t, m, LO, is32) => Takes(x.s, m, LO, is32)
    BY <1>1, <1>4, <2>1, HasKept
  <2>3. QED
    BY <1>2, <2>2
<1>6. (Z \cup {HI}) \cup {LO} = Z \cup {LO, HI}
  OBVIOUS
<1>7. Open(x.s, m, M, Z \cup {HI}, LO, 2)
  BY <1>1, <1>4, <1>5, <1>6, OpenTwo
<1>8. x.s.const[HI] = NoConst /\ \A j \in Host : x.s.map[j].mips # HI
  BY <1>1, <1>4 DEF Beside, PairOpen
<1>9. x.x \in Host /\ x.s.host[x.x] = Low(M.gpr[r])
  <2>1. ASSUME NEW v, NEW Y, NEW e, On(v, {}, M, Y), NEW g \in Reg \ Y, Has(v, e, g)
        PROVE  e.x \in Host /\ v.host[e.x] = Low(M.gpr[g])
    BY <2>1, HasValue
  <2>2. r \in Reg \ (Z \cup {LO, HI})
    OBVIOUS
  <2>3. QED
    BY <1>4, <2>1, <2>2
<1>10. QED
  BY <1>4, <1>7, <1>8, <1>9 DEF PairOpen, PairGets

\* A host register is saved.
LEMMA PairSave ==
    ASSUME NEW t, NEW m, NEW M, NEW Z, PairOpen(t, m, M, Z), NEW k \in Host, NEW u, u = Save(t, m, k)
    PROVE  /\ PairOpen(u, m, M, Z) /\ u.host = t.host /\ Backed(u, m, k)
           /\ \A j \in Host : Backed(t, m, j) => Backed(u, m, j)
<1>1. /\ Open(u, m, M, Z \cup {HI}, LO, 2) /\ Carries(t, u) /\ Backed(u, m, k)
      /\ \A j \in Host : Backed(t, m, j) => Backed(u, m, j)
  BY SaveOpen DEF PairOpen
<1>2. HI \in Reg /\ HI \notin Marks
  BY MultiplierFacts
<1>3. u.const[HI] = NoConst /\ \A j \in Host : u.map[j].mips # HI
  BY <1>1, <1>2 DEF Carries, Less, PairOpen, Marks
<1>4. QED
  BY <1>1, <1>3 DEF PairOpen, Carries

\* EDX:EAX is moved to the pair, in the order that loses nothing.
Swaps(m) == m.hi = EAX \/ m.x = EDX
PutPair(ran, m) == IF Swaps(m) THEN MoveBoth(ran, m.hi, m.x) ELSE MoveBoth(ran, m.x, m.hi)

\* Moving EDX:EAX to two registers, the first of them not EDX, loses nothing.
LEMMA MoveBothRan ==
    ASSUME NEW t, NEW ran, NEW K, Ran(t, ran, K), EAX \in K, EDX \in K,
           NEW a \in Host, NEW b \in Host, a # b, a # EDX, NEW v, v = MoveBoth(ran, a, b)
    PROVE  Ran(t, v, K \cup {a, b}) /\ v.host[a] = ran.host[EAX] /\ v.host[b] = ran.host[EDX]
<1> DEFINE u == Mov(ran, a, ran.host[EAX])
<1>1. EAX \in Host /\ EDX \in Host /\ Typed(ran) /\ Image(ran)
  BY HostFacts DEF Ran
<1>2. ran.host[EAX] \in Word /\ ran.host[EDX] \in Word
  BY <1>1 DEF Image
<1>3. Ran(ran, u, {a}) /\ u.host[a] = ran.host[EAX] /\ \A j \in Host \ {a} : u.host[j] = ran.host[j]
  BY <1>1, <1>2, RanMov
<1> HIDE DEF u
<1>4. Typed(u) /\ Image(u) /\ u.host[EDX] = ran.host[EDX]
  BY <1>1, <1>3 DEF Ran
<1>5. v = Mov(u, b, u.host[EDX])
  BY DEF MoveBoth, u
<1>6. Ran(u, v, {b}) /\ v.host[b] = u.host[EDX] /\ \A j \in Host \ {b} : v.host[j] = u.host[j]
  <2>1. PICK z \in Word : z = u.host[EDX]
    BY <1>2, <1>4
  <2>2. Ran(u, Mov(u, b, z), {b}) /\ Mov(u, b, z).host[b] = z
        /\ \A j \in Host \ {b} : Mov(u, b, z).host[j] = u.host[j]
    BY <1>4, RanMov
  <2>3. QED
    BY <1>5, <2>1, <2>2
<1>7. Ran(t, u, K \cup {a})
  BY <1>3, RanTransitive
<1>8. Ran(t, v, (K \cup {a}) \cup {b})
  BY <1>6, <1>7, RanTransitive
<1>9. (K \cup {a}) \cup {b} = K \cup {a, b}
  OBVIOUS
<1>10. QED
  BY <1>3, <1>4, <1>6, <1>8, <1>9
\* The halves of a product are in the pair, one way or the other.
HalvesAt(v, m, l, h) ==
    IF Swaps(m) THEN v.host[m.hi] = l /\ v.host[m.x] = h ELSE v.host[m.x] = l /\ v.host[m.hi] = h

\* After the MUL and the moves, EDX and EAX are restored.
LEMMA ProductRan ==
    ASSUME NEW t, NEW m, NEW M, NEW Z, PairOpen(t, m, M, Z), Backed(t, m, EAX), Backed(t, m, EDX),
           NEW l \in Word, NEW h \in Word,
           NEW v, v = Restore(Restore(PutPair(Mov(Mov(t, EAX, l), EDX, h), m), m, EDX), m, EAX)
    PROVE  PairOpen(v, m, M, Z) /\ HalvesAt(v, m, l, h) /\ Ran(t, v, {m.x, m.hi})
<1> DEFINE a == Mov(t, EAX, l)
           ran == Mov(a, EDX, h)
           put == PutPair(ran, m)
           u == Restore(put, m, EDX)
           K == {EAX, EDX, m.x, m.hi}
<1>1. EAX \in Host /\ EDX \in Host /\ EAX # EDX
  BY HostFacts
<1>2. /\ Typed(t) /\ Image(t) /\ Good(t, {}) /\ m.x \in Host /\ m.hi \in Host /\ m.hi # m.x
  BY PairFacts
<1>3. Ran(t, a, {EAX}) /\ a.host[EAX] = l
  BY <1>1, <1>2, RanMov
<1> HIDE DEF a
<1>4. Typed(a) /\ Image(a)
  BY <1>3 DEF Ran
<1>5. Ran(a, ran, {EDX}) /\ ran.host[EDX] = h /\ \A j \in Host \ {EDX} : ran.host[j] = a.host[j]
  BY <1>1, <1>4, RanMov
<1> HIDE DEF ran
<1>6. Ran(t, ran, {EAX, EDX}) /\ ran.host[EAX] = l /\ ran.host[EDX] = h
  <2>1. Ran(t, ran, {EAX} \cup {EDX})
    BY <1>3, <1>5, RanTransitive
  <2>2. {EAX} \cup {EDX} = {EAX, EDX}
    OBVIOUS
  <2>3. QED
    BY <1>1, <1>3, <1>5, <2>1, <2>2
<1>7. Ran(t, put, K) /\ HalvesAt(put, m, l, h)
  <2>1. EAX \in {EAX, EDX} /\ EDX \in {EAX, EDX}
    OBVIOUS
  <2>2. CASE Swaps(m)
    <3>1. m.hi # EDX
      BY <1>1, <1>2, <2>2 DEF Swaps
    <3>2. put = MoveBoth(ran, m.hi, m.x)
      BY <2>2 DEF PutPair
    <3>3. Ran(t, put, {EAX, EDX} \cup {m.hi, m.x}) /\ put.host[m.hi] = ran.host[EAX] /\ put.host[m.x] = ran.host[EDX]
      BY <1>2, <1>6, <2>1, <3>1, <3>2, MoveBothRan
    <3>4. {EAX, EDX} \cup {m.hi, m.x} = K
      OBVIOUS
    <3>5. QED
      BY <1>6, <2>2, <3>3, <3>4 DEF HalvesAt
  <2>3. CASE ~Swaps(m)
    <3>1. m.x # EDX
      BY <2>3 DEF Swaps
    <3>2. put = MoveBoth(ran, m.x, m.hi)
      BY <2>3 DEF PutPair
    <3>3. Ran(t, put, {EAX, EDX} \cup {m.x, m.hi}) /\ put.host[m.x] = ran.host[EAX] /\ put.host[m.hi] = ran.host[EDX]
      BY <1>2, <1>6, <2>1, <3>1, <3>2, MoveBothRan
    <3>4. {EAX, EDX} \cup {m.x, m.hi} = K
      OBVIOUS
    <3>5. QED
      BY <1>6, <2>3, <3>3, <3>4 DEF HalvesAt
  <2>4. QED
    BY <2>2, <2>3
<1> HIDE DEF put, K
<1>8. Ran(t, u, (K \ {EDX}) \cup {m.x, m.hi}) /\ Stays(put, u, m, EDX)
  BY <1>1, <1>2, <1>7, RestoreRan
<1> HIDE DEF u
<1>9. v = Restore(u, m, EAX)
  BY DEF u, put, ran, a
<1>10. Ran(t, v, (((K \ {EDX}) \cup {m.x, m.hi}) \ {EAX}) \cup {m.x, m.hi}) /\ Stays(u, v, m, EAX)
  BY <1>1, <1>2, <1>8, <1>9, RestoreRan
<1>11. (((K \ {EDX}) \cup {m.x, m.hi}) \ {EAX}) \cup {m.x, m.hi} = {m.x, m.hi}
  BY DEF K
<1>12. Ran(t, v, {m.x, m.hi})
  BY <1>10, <1>11
<1>13. HalvesAt(v, m, l, h)
  BY <1>7, <1>8, <1>10 DEF HalvesAt, Stays
<1>14. Open(v, m, M, Z \cup {HI}, LO, 2)
  BY <1>12, RanOpen DEF PairOpen
<1>15. v.const[HI] = NoConst /\ \A j \in Host : v.map[j].mips # HI
  BY <1>12 DEF Ran, Same, Rest, PairOpen
<1>16. QED
  BY <1>12, <1>13, <1>14, <1>15 DEF PairOpen

\* The pair is split: LO has the product's low word, HI its high word.
LEMMA SplitOn ==
    ASSUME NEW v, NEW m, NEW M, NEW Z, PairOpen(v, m, M, Z), NEW l \in Word, NEW h \in Word, HalvesAt(v, m, l, h),
           NEW w, w = OwnedBy(OwnedBy(v, m.hi, IF Swaps(m) THEN LO ELSE HI), m.x, IF Swaps(m) THEN HI ELSE LO)
    PROVE  On(w, {}, HiLo(M, Sext(h), Sext(l)), Z)
<1>1. LO \in Reg /\ HI \in Reg /\ LO # HI /\ LO # R0 /\ HI # R0
  BY MultiplierFacts
<1>2. /\ Typed(v) /\ Image(v) /\ Good(v, {}) /\ m.x \in Host /\ m.hi \in Host /\ m.hi = v.map[m.x].hi
      /\ m.hi # m.x /\ v.map[m.x].mips = LO /\ Follows(v, M, Z \cup {LO, HI})
      /\ v.const[LO] = NoConst /\ v.const[HI] = NoConst
  BY PairFacts
<1>3. Machine(M) /\ Sext(l) \in Double /\ Sext(h) \in Double
  BY <1>2, Extended DEF Follows
<1>4. \A j \in Host : v.map[j].mips \in Reg \ {LO, HI} => j \notin {m.x, m.hi} /\ v.map[j].hi \notin {m.x, m.hi}
  <2>1. v.map[m.hi].mips = HighWord /\ HighWord \notin Reg
    BY <1>1, <1>2, MarkFacts DEF Good, Consistent
  <2>2. \A j \in Host : v.map[j].mips \in Reg \ {LO, HI} => j # m.x /\ j # m.hi
    BY <1>2, <2>1
  <2>3. \A j \in Host : v.map[j].mips \in Reg \ {LO, HI} => v.map[j].hi # m.hi
    BY <1>1, <1>2 DEF Good, Consistent
  <2>4. \A j \in Host : v.map[j].mips \in Reg \ {LO, HI} /\ v.map[j].hi # j => v.map[v.map[j].hi].mips = HighWord
    BY <1>1, <1>2 DEF Good, Consistent
  <2>5. HighWord # LO
    BY <1>1, <2>1
  <2>6. QED
    BY <1>2, <2>2, <2>3, <2>4, <2>5
<1>5. ASSUME NEW k \in Host, NEW g \in Host, k = m.x, g = m.hi,
             NEW a \in {LO, HI}, NEW b \in {LO, HI}, a # b, w = OwnedBy(OwnedBy(v, g, b), k, a)
      PROVE  On(w, {}, With(With(M, a, Sext(v.host[k])), b, Sext(v.host[g])), Z)
  <2>1. g # k /\ a \in Reg /\ b \in Reg /\ v.map[k].mips = LO /\ g = v.map[k].hi
    BY <1>1, <1>2, <1>5
  <2>2. /\ Contents(v, w) /\ w.const = v.const /\ Image(w)
        /\ w.map[k].mips = a /\ w.map[k].hi = k /\ w.map[k].dirty
        /\ w.map[g].mips = b /\ w.map[g].hi = g /\ w.map[g].dirty
        /\ \A j \in Host \ {k, g} : w.map[j] = v.map[j]
    BY <1>2, <1>5, <2>1, OwnedTwice
  <2>3. Good(OwnedBy(OwnedBy(v, g, b), k, a), {})
    BY <1>2, <1>5, <2>1, PairGood DEF PairOpen
  <2>4. Aside(v, w) /\ w.gpr = v.gpr /\ w.host = v.host /\ Good(w, {})
    BY <1>5, <2>2, <2>3 DEF Contents
  <2>5. \A j \in Host : v.map[j].mips \in Reg \ {LO, HI} => j \notin {k, g} /\ v.map[j].hi \notin {k, g}
    BY <1>4, <1>5
  <2>6. QED
    BY <1>2, <1>5, <2>1, <2>2, <2>4, <2>5, OwnFollows
<1>6. PICK k \in Host, g \in Host : k = m.x /\ g = m.hi
  BY <1>2
<1>8. CASE Swaps(m)
  <2>1. w = OwnedBy(OwnedBy(v, g, LO), k, HI)
    BY <1>6, <1>8
  <2>2. On(w, {}, With(With(M, HI, Sext(v.host[k])), LO, Sext(v.host[g])), Z)
    BY <1>1, <1>5, <1>6, <2>1
  <2>3. v.host[k] = h /\ v.host[g] = l
    BY <1>6, <1>8 DEF HalvesAt
  <2>4. With(With(M, HI, Sext(h)), LO, Sext(l)) = HiLo(M, Sext(h), Sext(l))
    BY <1>3, HiLoIs
  <2>5. QED
    BY <2>2, <2>3, <2>4
<1>9. CASE ~Swaps(m)
  <2>1. w = OwnedBy(OwnedBy(v, g, HI), k, LO)
    BY <1>6, <1>9
  <2>2. On(w, {}, With(With(M, LO, Sext(v.host[k])), HI, Sext(v.host[g])), Z)
    BY <1>1, <1>5, <1>6, <2>1
  <2>3. v.host[k] = l /\ v.host[g] = h
    BY <1>6, <1>9 DEF HalvesAt
  <2>4. With(With(M, LO, Sext(l)), HI, Sext(h)) = HiLo(M, Sext(h), Sext(l))
    BY <1>3, HiLoIs
  <2>5. QED
    BY <2>2, <2>3, <2>4
<1>7. QED
  BY <1>8, <1>9

\* mult and multu give LO and HI the product of rs's and rt's low words.
LEMMA MulOn ==
    ASSUME NEW s, NEW M, NEW Z, NEW i, Enters(s, i, M, Z), i.rs \in Gpr \cup {R0}, i.rt \in Gpr \cup {R0},
           NEW d, d = WordProduct(i.op, Low(M.gpr[i.rs]), Low(M.gpr[i.rt]))
    PROVE  On(dyna4300i_special_mul(s, i), {}, HiLo(M, Sext(High(d)), Sext(Low(d))), Z)
<1>0. PICK r \in Gpr \cup {R0}, q \in Gpr \cup {R0} : r = i.rs /\ q = i.rt
  OBVIOUS
<1> DEFINE m == MapRegister(FreeMipsRegister(FreeMipsRegister(s, LO), HI), DefineBoth(LO, FALSE), {r, q})
<1>1. /\ On(s, {}, M, Z) /\ r \in Reg \ (Z \cup {LO, HI}) /\ q \in Reg \ (Z \cup {LO, HI})
      /\ r \in Reg /\ q \in Reg /\ r # LO /\ q # LO
      /\ Low(M.gpr[r]) \in Word /\ Low(M.gpr[q]) \in Word /\ Two({r, q})
  BY <1>0, EntersFacts, MultiplierFacts
<1>2. PairOpen(m.s, m, M, Z)
  BY <1>1, PairFirst
<1> HIDE DEF m
<1>21. PICK x : x = MapRegister(m.s, Want(r, TRUE), {LO, q})
  OBVIOUS
<1>22. PICK y : y = MapRegister(x.s, Want(q, TRUE), {LO, r})
  OBVIOUS
<1> DEFINE half == Save(y.s, m, EAX)
           saved == Save(half, m, EDX)
<1> HIDE DEF half, saved
<1>3. /\ PairOpen(x.s, m, M, Z) /\ Has(x.s, x, r) /\ x.x \in Host /\ x.s.host[x.x] = Low(M.gpr[r])
      /\ Beside(m.s, x.s, r, {LO, q})
  <2>1. PairGets(m.s, x, m, M, Z, r, q)
    BY <1>1, <1>2, <1>21, PairBeside
  <2>2. QED
    BY <2>1 DEF PairGets
<1>4. /\ PairOpen(y.s, m, M, Z) /\ Has(y.s, y, q) /\ y.x \in Host /\ y.s.host[y.x] = Low(M.gpr[q])
      /\ Beside(x.s, y.s, q, {LO, r})
  <2>1. PairGets(x.s, y, m, M, Z, q, r)
    BY <1>1, <1>3, <1>22, PairBeside
  <2>2. QED
    BY <2>1 DEF PairGets
<1>5. y.s.host[x.x] = Low(M.gpr[r])
  <2>1. CASE r = q
    <3> DEFINE c == Want(q, TRUE)
    <3>1. Allowed(c, {}, {LO, r}) /\ c.mips = q
      BY <1>1, MultiplierFacts DEF Want, Conditions, Allowed, RequestType
    <3> HIDE DEF c
    <3>2. Good(x.s, {}) /\ x.s.map[x.x].mips = q
      BY <1>3, <2>1, PairFacts DEF Has
    <3>3. MapRegister(x.s, c, {LO, r}).x = x.x
      BY <1>3, <3>1, <3>2, AgainPlace
    <3>4. QED
      BY <1>4, <1>22, <2>1, <3>3 DEF c
  <2>2. CASE r # q
    <3>1. r \in {LO, r}
      OBVIOUS
    <3>2. Has(y.s, x, r)
      BY <1>1, <1>3, <1>4, <2>2, <3>1, HasKept
    <3>3. On(y.s, {}, M, Z \cup {LO, HI})
      BY <1>4, PairFacts
    <3>4. ASSUME NEW v, NEW Y, NEW e, On(v, {}, M, Y), NEW g \in Reg \ Y, Has(v, e, g)
          PROVE  v.host[e.x] = Low(M.gpr[g])
      BY <3>4, HasValue
    <3>5. QED
      BY <1>1, <3>2, <3>3, <3>4
  <2>3. QED
    BY <2>1, <2>2
<1>6. EAX \in Host /\ EDX \in Host
  BY HostFacts
<1>7. /\ PairOpen(half, m, M, Z) /\ half.host = y.s.host /\ Backed(half, m, EAX)
  BY <1>4, <1>6, PairSave DEF half
<1>8. /\ PairOpen(saved, m, M, Z) /\ saved.host = half.host /\ Backed(saved, m, EDX)
      /\ \A j \in Host : Backed(half, m, j) => Backed(saved, m, j)
  BY <1>6, <1>7, PairSave DEF saved
<1>9. Backed(saved, m, EAX)
  BY <1>6, <1>7, <1>8
<1>10. saved.host[x.x] = Low(M.gpr[r]) /\ saved.host[y.x] = Low(M.gpr[q])
  BY <1>4, <1>5, <1>7, <1>8
<1>11. Low(d) \in Word /\ High(d) \in Word
  <2>1. PICK a \in Word, b \in Word : a = Low(M.gpr[r]) /\ b = Low(M.gpr[q])
    BY <1>1
  <2>2. a \in Int /\ b \in Int /\ Signed(a) \in Int /\ Signed(b) \in Int
    BY Signs, SignedWords
  <2>3. Signed(a) * Signed(b) \in Int /\ a * b \in Int
    BY <2>2
  <2>4. d \in Double
    BY <1>0, <2>1, <2>3, Cut DEF WordProduct
  <2>5. QED
    BY <2>4, Pairs
<1> DEFINE v == Restore(Restore(PutPair(Mov(Mov(saved, EAX, Low(d)), EDX, High(d)), m), m, EDX), m, EAX)
<1>12. PairOpen(v, m, M, Z) /\ HalvesAt(v, m, Low(d), High(d))
  BY <1>8, <1>9, <1>11, ProductRan
<1> HIDE DEF v
<1> DEFINE w == OwnedBy(OwnedBy(v, m.hi, IF Swaps(m) THEN LO ELSE HI), m.x, IF Swaps(m) THEN HI ELSE LO)
<1>13. On(w, {}, HiLo(M, Sext(High(d)), Sext(Low(d))), Z)
  BY <1>11, <1>12, SplitOn
<1>14. w = ProductInto(saved, m, d)
  BY DEF w, v, ProductInto, PutPair, Swaps
<1> HIDE DEF w
<1>15. dyna4300i_special_mul(s, i) = ProductInto(saved, m, d)
  BY <1>0, <1>10, <1>21, <1>22 DEF dyna4300i_special_mul, Mul, MulX, MulXY, MulSaved, saved, half, m
<1>16. QED
  BY <1>13, <1>14, <1>15

\* MULT and MULTU: LO and HI become the words of the product the interpreter
\* computes.
THEOREM MultOn ==
    ASSUME NEW s, NEW M, NEW Z, NEW i, Enters(s, i, M, Z), i.rs \in Gpr \cup {R0}, i.rt \in Gpr \cup {R0}
    PROVE  /\ i.op = "mult" => On(dyna4300i_special_mul(s, i), {}, r4300i_mult(M, i), Z)
           /\ i.op = "multu" => On(dyna4300i_special_mul(s, i), {}, r4300i_multu(M, i), Z)
<1> DEFINE d == WordProduct(i.op, Low(M.gpr[i.rs]), Low(M.gpr[i.rt]))
<1>1. On(dyna4300i_special_mul(s, i), {}, HiLo(M, Sext(High(d)), Sext(Low(d))), Z)
  BY MulOn
<1>2. i.op = "mult" => HiLo(M, Sext(High(d)), Sext(Low(d))) = r4300i_mult(M, i)
  BY DEF r4300i_mult, Product, WordProduct, lo, RS, RT
<1>3. i.op = "multu" => HiLo(M, Sext(High(d)), Sext(Low(d))) = r4300i_multu(M, i)
  BY DEF r4300i_multu, Product, WordProduct, lo, RS, RT
<1>4. QED
  BY <1>1, <1>2, <1>3

\* A quotient and a rest of words are numbers.
LEMMA QuotientInt ==
    ASSUME NEW a \in Int, NEW b \in Int, b # 0
    PROVE  Quot(a, b) \in Int /\ Rem(a, b) \in Int
<1>1. Abs(a) \in Int /\ Abs(b) \in Nat \ {0}
  BY DEF Abs
<1>2. Abs(a) \div Abs(b) \in Int
  BY <1>1, Division
<1>3. Quot(a, b) \in Int
  BY <1>2 DEF Quot
<1>4. PICK q \in Int : q = Quot(a, b)
  BY <1>3
<1>5. a - b * q \in Int
  OBVIOUS
<1>6. QED
  BY <1>3, <1>4, <1>5 DEF Rem
\* EAX and EDX are free, ECX is saved, and LO and HI are nowhere.
DivReady(t, M, Z) ==
    /\ Ready(t) /\ On(t, {}, M, Z \cup {LO, HI}) /\ Saved(t, ECX)
    /\ t.map[EAX].mips = Unused /\ t.map[EDX].mips = Unused

\* What ran leaves the quotient and the rest there.
LEMMA DivRan ==
    ASSUME NEW t, NEW M, NEW Z, DivReady(t, M, Z), NEW l \in Word, NEW h \in Word, NEW d \in Word,
           NEW c, c = Mov(Mov(Mov(t, EAX, l), EDX, h), ECX, d), NEW v, v = PopIfMapped(c, ECX)
    PROVE  /\ On(v, {}, M, Z \cup {LO, HI}) /\ Ran(t, v, {EAX, EDX}) /\ Ran(t, c, {EAX, EDX, ECX})
           /\ v.host[EAX] = l /\ v.host[EDX] = h
<1> DEFINE a == Mov(t, EAX, l)
           b == Mov(a, EDX, h)
<1>1. EAX \in Host /\ EDX \in Host /\ ECX \in Host /\ EAX # EDX /\ EAX # ECX /\ EDX # ECX
  BY HostFacts
<1>2. Typed(t) /\ Image(t) /\ Saved(t, ECX) /\ On(t, {}, M, Z \cup {LO, HI})
  BY DEF DivReady, Ready, Good, On, Follows
<1>3. Ran(t, a, {EAX}) /\ a.host[EAX] = l
  BY <1>1, <1>2, RanMov
<1> HIDE DEF a
<1>4. Ran(a, b, {EDX}) /\ b.host[EDX] = h /\ \A j \in Host \ {EDX} : b.host[j] = a.host[j]
  <2>1. Typed(a) /\ Image(a)
    BY <1>3 DEF Ran
  <2>2. QED
    BY <1>1, <2>1, RanMov
<1> HIDE DEF b
<1>5. Ran(b, c, {ECX}) /\ \A j \in Host \ {ECX} : c.host[j] = b.host[j]
  <2>1. Typed(b) /\ Image(b)
    BY <1>4 DEF Ran
  <2>2. c = Mov(b, ECX, d)
    BY DEF a, b
  <2>3. QED
    BY <1>1, <2>1, <2>2, RanMov
<1>6. Ran(t, c, {EAX, EDX, ECX})
  <2>1. Ran(t, b, {EAX} \cup {EDX})
    BY <1>3, <1>4, RanTransitive
  <2>2. Ran(t, c, ({EAX} \cup {EDX}) \cup {ECX})
    BY <1>5, <2>1, RanTransitive
  <2>3. ({EAX} \cup {EDX}) \cup {ECX} = {EAX, EDX, ECX}
    OBVIOUS
  <2>4. QED
    BY <2>2, <2>3
<1>7. Ran(t, v, {EAX, EDX, ECX} \ {ECX}) /\ \A j \in Host \ {ECX} : v.host[j] = c.host[j]
  BY <1>1, <1>2, <1>6, RanPop
<1>8. {EAX, EDX, ECX} \ {ECX} = {EAX, EDX}
  BY <1>1
<1>9. Ran(t, v, {EAX, EDX})
  BY <1>7, <1>8
<1>10. Ran(t, v, {})
  <2>1. Unused \notin Reg \cup {HighWord}
    BY MarkFacts
  <2>2. ~Live(t, EAX) /\ ~Live(t, EDX)
    BY <2>1 DEF Live, DivReady
  <2>3. QED
    BY <1>9, <2>2 DEF Ran
<1>11. On(v, {}, M, Z \cup {LO, HI})
  BY <1>2, <1>10, RanOn
<1>12. v.host[EAX] = l /\ v.host[EDX] = h
  BY <1>1, <1>3, <1>4, <1>5, <1>7
<1>13. QED
  BY <1>6, <1>9, <1>11, <1>12

\* A year is a year.
LEMMA BirthTyped ==
    ASSUME NEW s, Typed(s), NEW k \in Host, NEW year \in Nat
    PROVE  Typed([s EXCEPT !.map[k].birth = year])
<1> DEFINE e == [s.map[k] EXCEPT !.birth = year]
<1>1. s.map \in MapType /\ s.map[k] \in EntryType
  BY EntryTyped DEF Typed
<1>2. e \in EntryType
  BY <1>1 DEF EntryType
<1>3. [s EXCEPT !.map[k].birth = year] = [s EXCEPT !.map[k] = e]
  BY DEF Typed
<1> HIDE DEF e
<1>4. QED
  BY <1>2, <1>3, SetEntry
\* The years of LO's and HI's host registers, and ECX again.
TookLoHi(v, w) ==
    /\ Contents(v, w) /\ w.const = v.const
    /\ w.map[EAX].mips = LO /\ w.map[EAX].hi = EAX /\ w.map[EAX].dirty
    /\ w.map[EDX].mips = HI /\ w.map[EDX].hi = EDX /\ w.map[EDX].dirty
    /\ \A j \in Host \ {EDX, EAX} : w.map[j] = v.map[j]

\* The pop of ECX leaves the two where they are.
LEMMA QuotientMap ==
    ASSUME NEW c, Typed(c), NEW o, Typed(o), TookLoHi(c, o), NEW year \in Nat,
           NEW w, w = PopIfMapped([o EXCEPT !.map[EAX].birth = year, !.map[EDX].birth = year], ECX)
    PROVE  TookLoHi(PopIfMapped(c, ECX), w)
<1> DEFINE f == [o EXCEPT !.map[EAX].birth = year, !.map[EDX].birth = year]
           v == PopIfMapped(c, ECX)
<1>1. EAX \in Host /\ EDX \in Host /\ ECX \in Host /\ EAX # EDX
  BY HostFacts
<1>2. /\ f.map[EAX].mips = LO /\ f.map[EAX].hi = EAX /\ f.map[EAX].dirty
      /\ f.map[EDX].mips = HI /\ f.map[EDX].hi = EDX /\ f.map[EDX].dirty
      /\ \A j \in Host \ {EDX, EAX} : f.map[j] = o.map[j]
  BY <1>1 DEF Typed, MapType, EntryType, TookLoHi
<1>3. Contents(o, f) /\ f.const = o.const
  BY DEF Contents, Aside, Typed
<1>4. Contents(c, f) /\ f.const = c.const
  BY <1>3, ContentsTransitive DEF TookLoHi
<1>5. w = PopIfMapped(f, ECX)
  OBVIOUS
<1>6. Typed(f)
  <2> DEFINE g == [o EXCEPT !.map[EAX].birth = year]
  <2>1. Typed(g)
    BY <1>1, BirthTyped
  <2>2. f = [g EXCEPT !.map[EDX].birth = year]
    OBVIOUS
  <2> HIDE DEF g, f
  <2>3. QED
    BY <1>1, <2>1, <2>2, BirthTyped
<1> HIDE DEF f
<1>7. w.map = f.map /\ v.map = c.map
  BY <1>5, <1>6, PopSame DEF Same
<1>8. Contents(v, w) /\ w.const = v.const
  <2>1. f.stack = c.stack /\ f.host = c.host
    BY <1>4 DEF Contents
  <2>2. CASE c.stack[ECX] = NoConst
    BY <1>4, <1>5, <2>1, <2>2 DEF PopIfMapped
  <2>3. CASE c.stack[ECX] # NoConst
    <3>1. w = [f EXCEPT !.host[ECX] = f.stack[ECX]] /\ v = [c EXCEPT !.host[ECX] = c.stack[ECX]]
      BY <1>5, <2>1, <2>3 DEF PopIfMapped
    <3>2. w.host = v.host
      BY <1>6, <2>1, <3>1 DEF Typed
    <3>3. QED
      BY <1>4, <1>6, <3>1, <3>2 DEF Contents, Aside, Typed
  <2>4. QED
    BY <2>2, <2>3
<1> HIDE DEF v
<1>9. QED
  BY <1>1, <1>2, <1>7, <1>8 DEF v, TookLoHi

\* The quotient and the rest of the words a and b become LO and HI.
LEMMA QuotientOn ==
    ASSUME NEW t, NEW M, NEW Z, DivReady(t, M, Z), NEW a \in Int, NEW b \in Int, b # 0, NEW d \in Word
    PROVE  On(QuotientInto(t, a, b, d), {}, HiLo(M, Sext(WordOf(Rem(a, b))), Sext(WordOf(Quot(a, b)))), Z)
<1>20. PICK l, h : l = WordOf(Quot(a, b)) /\ h = WordOf(Rem(a, b))
  OBVIOUS
<1>21. PICK c, o : /\ c = Mov(Mov(Mov(t, EAX, l), EDX, h), ECX, d)
                   /\ o = OwnedBy(OwnedBy(c, EAX, LO), EDX, HI)
  OBVIOUS
<1>22. PICK v, w : /\ v = PopIfMapped(c, ECX)
                   /\ w = PopIfMapped([o EXCEPT !.map[EAX].birth = t.year, !.map[EDX].birth = t.year], ECX)
  OBVIOUS
<1>1. /\ EAX \in Host /\ EDX \in Host /\ ECX \in Host /\ EAX # EDX /\ LO \in Reg /\ HI \in Reg /\ LO # HI
  BY HostFacts, MultiplierFacts
<1>2. l \in Word /\ h \in Word
  BY <1>20, QuotientInt, Cut
<1>3. QuotientInto(t, a, b, d) = w
  BY <1>20, <1>21, <1>22 DEF QuotientInto
<1>4. Good(w, {})
  BY <1>3, QuotientGood DEF DivReady
<1>5. /\ On(v, {}, M, Z \cup {LO, HI}) /\ Ran(t, v, {EAX, EDX}) /\ Ran(t, c, {EAX, EDX, ECX})
      /\ v.host[EAX] = l /\ v.host[EDX] = h
  <2>1. c = Mov(Mov(Mov(t, EAX, l), EDX, h), ECX, d) /\ v = PopIfMapped(c, ECX)
    BY <1>21, <1>22
  <2>2. QED
    BY <1>2, <2>1, DivRan
<1>6. Typed(c) /\ Image(c) /\ Good(c, {})
  BY <1>5, PlainGood DEF Ran, Plain, DivReady, Ready
<1>7. /\ Contents(c, o) /\ o.const = c.const /\ Image(o)
      /\ o.map[EDX].mips = HI /\ o.map[EDX].hi = EDX /\ o.map[EDX].dirty
      /\ o.map[EAX].mips = LO /\ o.map[EAX].hi = EAX /\ o.map[EAX].dirty
      /\ \A j \in Host \ {EDX, EAX} : o.map[j] = c.map[j]
  BY <1>1, <1>6, <1>21, OwnedTwice
<1>8. Typed(o) /\ t.year \in Nat
  <2>1. Typed(OwnedBy(c, EAX, LO))
    BY <1>1, <1>6, OwnedEffect
  <2>2. Typed(o)
    BY <1>1, <1>21, <2>1, OwnedEffect
  <2>3. t.year \in Nat
    BY DEF DivReady, Ready, Good, Typed
  <2>4. QED
    BY <2>2, <2>3
<1>9. /\ Contents(v, w) /\ w.const = v.const
      /\ w.map[EAX].mips = LO /\ w.map[EAX].hi = EAX /\ w.map[EAX].dirty
      /\ w.map[EDX].mips = HI /\ w.map[EDX].hi = EDX /\ w.map[EDX].dirty
      /\ \A j \in Host \ {EDX, EAX} : w.map[j] = v.map[j]
  <2>1. TookLoHi(c, o)
    BY <1>7 DEF TookLoHi
  <2>2. TookLoHi(v, w)
    BY <1>6, <1>8, <1>22, <2>1, QuotientMap
  <2>3. QED
    BY <2>2 DEF TookLoHi
<1>10. v.map = t.map /\ v.const = t.const
  BY <1>5 DEF Ran, Same, Rest
<1>11. v.const[LO] = NoConst /\ v.const[HI] = NoConst
  BY <1>10 DEF DivReady, Ready
<1>12. Good(v, {}) /\ Image(v) /\ Follows(v, M, Z \cup {LO, HI}) /\ Machine(M)
  BY <1>5 DEF On, Follows
<1>13. \A j \in Host : v.map[j].mips \in Reg \ {LO, HI} => j \notin {EDX, EAX} /\ v.map[j].hi \notin {EDX, EAX}
  <2>1. v.map[EAX].mips = Unused /\ v.map[EDX].mips = Unused
    BY <1>10 DEF DivReady
  <2>2. \A j \in Host : v.map[j].mips \in Reg /\ v.map[j].hi # j => v.map[v.map[j].hi].mips = HighWord
    BY <1>12 DEF Good, Consistent
  <2>3. Unused \notin Reg /\ HighWord # Unused
    BY MarkFacts, MarksAssumption
  <2>4. QED
    BY <2>1, <2>2, <2>3
<1>14. Image(w) /\ Aside(v, w) /\ w.gpr = v.gpr /\ w.host = v.host
  BY <1>9, <1>12, ContentsImage DEF Contents
<1>15. On(w, {}, With(With(M, HI, Sext(v.host[EDX])), LO, Sext(v.host[EAX])), Z)
  <2>1. HI \in {LO, HI} /\ LO \in {LO, HI}
    OBVIOUS
  <2>2. QED
    BY <1>1, <1>4, <1>9, <1>11, <1>12, <1>13, <1>14, <2>1, OwnFollows
<1>16. With(With(M, HI, Sext(h)), LO, Sext(l)) = HiLo(M, Sext(h), Sext(l))
  BY <1>2, <1>12, Extended, HiLoIs
<1>17. QED
  BY <1>3, <1>5, <1>15, <1>16, <1>20

\* What div makes ready before it divides: the operands are in memory.
DivMade(s, i) ==
    PushIfMapped(Vacate(Vacate(FlushOperands(FreeMipsRegister(FreeMipsRegister(s, LO), HI), i), EAX), EDX), ECX)

\* The operands still hold what the machine does.
LEMMA DivMadeOn ==
    ASSUME NEW s, NEW M, NEW Z, NEW i, Enters(s, i, M, Z), i.rs \in Gpr \cup {R0}, i.rt \in Gpr \cup {R0},
           NEW t, t = DivMade(s, i)
    PROVE  DivReady(t, M, Z) /\ t.gpr[i.rs] = M.gpr[i.rs] /\ t.gpr[i.rt] = M.gpr[i.rt]
<1> DEFINE f1 == FreeMipsRegister(s, LO)
           freed == FreeMipsRegister(f1, HI)
           a == FlushOperands(freed, i)
           b == Vacate(a, EAX)
           c == Vacate(b, EDX)
           Y == Z \cup {LO, HI}
<1>1. /\ On(s, {}, M, Z) /\ Fields(i) /\ i.rs \in Reg \ Y /\ i.rt \in Reg \ Y /\ LO \in Reg /\ HI \in Reg
      /\ LO # R0 /\ HI # R0 /\ EAX \in Host /\ EDX \in Host /\ ECX \in Host /\ EAX # EDX
  BY EntersFacts, MultiplierFacts, HostFacts
<1>2. Ready(freed)
  BY <1>1, ReadyFirst DEF On
<1>3. On(f1, {}, M, Z \cup {LO})
  BY <1>1, FreeMipsOn
<1> HIDE DEF f1
<1>4. On(freed, {}, M, Y)
  <2>1. On(freed, {}, M, (Z \cup {LO}) \cup {HI})
    BY <1>1, <1>3, FreeMipsOn
  <2>2. (Z \cup {LO}) \cup {HI} = Y
    OBVIOUS
  <2>3. QED
    BY <2>1, <2>2
<1>20. t = PushIfMapped(c, ECX)
  BY DEF DivMade, f1
<1> HIDE DEF freed, Y
<1>5. On(a, {}, M, Y) /\ Less(freed, a, Reg) /\ InMemory(a, i.rs) /\ InMemory(a, i.rt)
  BY <1>1, <1>4, FlushOperandsOn
<1> HIDE DEF a
<1>6. Ready(a)
  BY <1>2, <1>5, ReadyLess DEF On
<1>7. Good(b, {}) /\ b.map[EAX].mips = Unused /\ Less(a, b, Reg)
  BY <1>1, <1>5, VacateGood DEF On
<1>8. On(b, {}, M, Y)
  BY <1>1, <1>5, VacateOn
<1> HIDE DEF b
<1>9. Ready(b)
  BY <1>6, <1>7, ReadyLess
<1>10. Good(c, {}) /\ c.map[EDX].mips = Unused /\ Less(b, c, Reg)
  BY <1>1, <1>7, VacateGood
<1>11. On(c, {}, M, Y)
  BY <1>1, <1>8, VacateOn
<1> HIDE DEF c
<1>12. Ready(c) /\ c.map[EAX].mips = Unused
  BY <1>1, <1>7, <1>9, <1>10, ReadyLess DEF Less
<1>13. On(t, {}, M, Y) /\ Carries(c, t) /\ Saved(t, ECX)
  <2>1. /\ On(t, {}, M, Y) /\ Carries(c, t) /\ Saved(t, ECX) /\ Spared(c, t, ECX)
        /\ \A j \in Host : Saved(c, j) => Saved(t, j)
    BY <1>1, <1>11, <1>20, PushOn
  <2>2. QED
    BY <2>1
<1>14. Less(c, t, Reg) /\ Good(t, {})
  BY <1>13 DEF Carries, On
<1>15. Ready(t) /\ t.map[EAX].mips = Unused /\ t.map[EDX].mips = Unused
  BY <1>1, <1>10, <1>12, <1>14, ReadyLess DEF Less
<1>16. InMemory(t, i.rs) /\ InMemory(t, i.rt)
  <2>1. \A r \in Reg : InMemory(a, r) => InMemory(t, r)
    BY <1>7, <1>10, <1>14, InMemoryLess
  <2>2. QED
    BY <1>1, <1>5, <2>1
<1>17. t.gpr[i.rs] = M.gpr[i.rs] /\ t.gpr[i.rt] = M.gpr[i.rt]
  BY <1>1, <1>13, <1>16, InMemoryValue
<1>18. DivReady(t, M, Z)
  BY <1>13, <1>15 DEF DivReady, Y
<1>19. QED
  BY <1>17, <1>18

\* DIV and DIVU, by a low word other than 0: LO and HI become the quotient and rest
\* the interpreter computes.
THEOREM DivOn ==
    ASSUME NEW s, NEW M, NEW Z, NEW i, Enters(s, i, M, Z), i.rs \in Gpr \cup {R0}, i.rt \in Gpr \cup {R0},
           Low(M.gpr[i.rt]) # 0
    PROVE  /\ i.op = "div" => On(dyna4300i_special_div(s, i), {}, r4300i_div(M, i), Z)
           /\ i.op = "divu" => On(dyna4300i_special_div(s, i), {}, r4300i_divu(M, i), Z)
<1>1. PICK t : t = DivMade(s, i)
  OBVIOUS
<1>2. DivReady(t, M, Z) /\ t.gpr[i.rs] = M.gpr[i.rs] /\ t.gpr[i.rt] = M.gpr[i.rt]
  BY <1>1, DivMadeOn
<1>3. PICK a \in Word, b \in Word : a = Low(M.gpr[i.rs]) /\ b = Low(M.gpr[i.rt])
  BY EntersFacts
<1>4. b # 0
  BY <1>3
<1>5. /\ a \in Int /\ b \in Int /\ Signed(a) \in Int /\ Signed(b) \in Int /\ Signed(b) # 0
  <2>1. Small(Signed(b)) /\ Signed(b) \in Int /\ Signed(a) \in Int /\ WordOf(Signed(b)) = b
    BY SignedWords
  <2>2. WordOf(0) = 0
    BY Signs, Cut
  <2>3. QED
    BY <1>4, <2>1, <2>2, Signs
<1>6. dyna4300i_special_div(s, i) =
      IF i.op = "div" THEN QuotientInto(t, Signed(a), Signed(b), b) ELSE QuotientInto(t, a, b, b)
  BY <1>1, <1>2, <1>3 DEF dyna4300i_special_div, DivMade
<1>7. CASE i.op = "div"
  <2>1. PICK x \in Int, y \in Int : x = Signed(a) /\ y = Signed(b)
    BY <1>5
  <2>2. On(QuotientInto(t, x, y, b), {}, HiLo(M, Sext(WordOf(Rem(x, y))), Sext(WordOf(Quot(x, y)))), Z)
    BY <1>2, <1>5, <2>1, QuotientOn
  <2>3. r4300i_div(M, i) = HiLo(M, Sext(WordOf(Rem(x, y))), Sext(WordOf(Quot(x, y))))
    BY <1>3, <1>5, <2>1 DEF r4300i_div, Divided, SextWord, lo, RS, RT
  <2>4. QED
    BY <1>6, <1>7, <2>1, <2>2, <2>3
<1>8. CASE i.op = "divu"
  <2>1. On(QuotientInto(t, a, b, b), {}, HiLo(M, Sext(WordOf(Rem(a, b))), Sext(WordOf(Quot(a, b)))), Z)
    BY <1>2, <1>4, <1>5, QuotientOn
  <2>2. r4300i_divu(M, i) = HiLo(M, Sext(WordOf(Rem(a, b))), Sext(WordOf(Quot(a, b))))
    BY <1>3, <1>4 DEF r4300i_divu, Divided, SextWord, lo, RS, RT
  <2>3. QED
    BY <1>6, <1>8, <2>1, <2>2
<1>9. QED
  BY <1>7, <1>8
===============================================================================
