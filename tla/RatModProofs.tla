---------------------------- MODULE RatModProofs ----------------------------
(***************************************************************************)
(* Theorems about RatMod, for words of any size, any moduli and numbers.   *)
(***************************************************************************)
EXTENDS RatMod, TLAPS

(***************************************************************************)
(* Division                                                                *)
(***************************************************************************)

(* Quotient and remainder as TLA+ has them.                                *)
LEMMA DivMod ==
  ASSUME NEW x \in Int, NEW m \in Nat \ {0}
  PROVE  /\ x \div m \in Int /\ x % m \in 0 .. m - 1
         /\ x = m * (x \div m) + (x % m)
  OBVIOUS

(* A remainder is determined by its size.                                  *)
LEMMA ModUnique ==
  ASSUME NEW m \in Nat \ {0}, NEW q \in Int, NEW r \in 0 .. m - 1
  PROVE  (m * q + r) % m = r
<1> DEFINE x == m * q + r
<1>1. x \in Int /\ x \div m \in Int /\ x % m \in 0 .. m - 1 /\ x = m * (x \div m) + (x % m)
  BY DivMod
<1> DEFINE e == q - (x \div m)
<1>2. m * e = (x % m) - r
  BY <1>1
<1>3. m * e < m /\ m * e > -m
  BY <1>1, <1>2
<1>4. e = 0
  <2> HIDE DEF e
  <2>1. e \in Int BY <1>1 DEF e
  <2>2. ~ e >= 1 BY <2>1, <1>3
  <2>3. ~ e <= -1 BY <2>1, <1>3
  <2> QED BY <2>1, <2>2, <2>3
<1> QED BY <1>1, <1>2, <1>4

(* Divisibility as a multiple.                                             *)
LEMMA Multiple ==
  ASSUME NEW d \in Int, NEW m \in Nat \ {0}
  PROVE  d % m = 0 <=> \E k \in Int : d = m * k
<1>1. ASSUME d % m = 0 PROVE \E k \in Int : d = m * k
  <2>1. d = m * (d \div m) /\ d \div m \in Int
    BY <1>1, DivMod
  <2> QED BY <2>1
<1>2. ASSUME NEW k \in Int, d = m * k PROVE d % m = 0
  <2>1. (m * k + 0) % m = 0 
    BY ModUnique, 0 \in 0 .. m - 1
  <2>2. m * k + 0 = d BY <1>2
  <2> QED BY <2>1, <2>2
<1> QED BY <1>1, <1>2

(***************************************************************************)
(* Congruence                                                              *)
(***************************************************************************)

Cong(x, y, m) == \E k \in Int : x - y = m * k

(* Congruence as the property Congruent writes it.                         *)
LEMMA CongIsDivides ==
  ASSUME NEW x \in Int, NEW y \in Int, NEW m \in Nat \ {0}
  PROVE  Cong(x, y, m) <=> (x - y) % m = 0
<1> DEFINE d == x - y
<1>1. d \in Int OBVIOUS
<1>2. d % m = 0 <=> \E k \in Int : d = m * k BY <1>1, Multiple
<1> QED BY <1>2 DEF Cong

(* Reflexive and transitive.                                               *)
LEMMA CongRefl ==
  ASSUME NEW x \in Int, NEW m \in Nat \ {0}
  PROVE  Cong(x, x, m)
<1>1. x - x = m * 0 OBVIOUS
<1> QED BY <1>1 DEF Cong

LEMMA CongTrans ==
  ASSUME NEW x \in Int, NEW y \in Int, NEW z \in Int, NEW m \in Nat \ {0},
         Cong(x, y, m), Cong(y, z, m)
  PROVE  Cong(x, z, m)
<1>1. PICK j \in Int : x - y = m * j BY DEF Cong
<1>2. PICK k \in Int : y - z = m * k BY DEF Cong
<1>3. x - z = m * (j + k) BY <1>1, <1>2
<1> QED BY <1>3 DEF Cong

(* The operations respect it.                                              *)
LEMMA CongOps ==
  ASSUME NEW a \in Int, NEW x \in Int, NEW b \in Int, NEW y \in Int,
         NEW m \in Nat \ {0}, Cong(a, x, m), Cong(b, y, m)
  PROVE  /\ Cong(a + b, x + y, m)
         /\ Cong(a - b, x - y, m)
         /\ Cong(a * b, x * y, m)
<1>1. PICK j \in Int : a - x = m * j BY DEF Cong
<1>2. PICK k \in Int : b - y = m * k BY DEF Cong
<1>3. (a + b) - (x + y) = m * (j + k) BY <1>1, <1>2
<1>4. (a - b) - (x - y) = m * (j - k) BY <1>1, <1>2
<1>5. a * b - x * y = m * (a * k + j * y)
  <2>1. a * b - x * y = a * (b - y) + (a - x) * y OBVIOUS
  <2>2. a * (b - y) = m * (a * k) BY <1>2
  <2>3. (a - x) * y = m * (j * y) BY <1>1
  <2>4. m * (a * k) + m * (j * y) = m * (a * k + j * y) OBVIOUS
  <2> QED BY <2>1, <2>2, <2>3, <2>4
<1>6. j + k \in Int /\ j - k \in Int /\ a * k + j * y \in Int OBVIOUS
<1> QED BY <1>3, <1>4, <1>5, <1>6 DEF Cong

(***************************************************************************)
(* The helpers                                                             *)
(***************************************************************************)

Balanced(m) == -(m \div 2) .. m \div 2
Small(m) == -(m - 1) .. m - 1

(* Lisp's cmod.                                                            *)
LEMMA CmodFacts ==
  ASSUME NEW n \in Int, NEW m \in Nat \ {0}
  PROVE  /\ cmod(n, m) \in Int /\ cmod(n, m) \in Balanced(m)
         /\ 2 * cmod(n, m) <= m /\ 2 * cmod(n, m) > -m
         /\ Cong(cmod(n, m), n, m)
<1>1. n \div m \in Int /\ n % m \in 0 .. m - 1 /\ n = m * (n \div m) + (n % m)
  BY DivMod
<1>2. cmod(n, m) = IF 2 * (n % m) <= m THEN n % m ELSE (n % m) - m
  BY DEF cmod, normalized_modulus, Nil
<1>3. cmod(n, m) - n = m * (-(n \div m)) \/ cmod(n, m) - n = m * (-(n \div m) - 1)
  BY <1>1, <1>2
<1>4. -(n \div m) \in Int /\ -(n \div m) - 1 \in Int BY <1>1
<1>5. Cong(cmod(n, m), n, m) BY <1>3, <1>4 DEF Cong
<1> QED BY <1>1, <1>2, <1>5 DEF Balanced

(* The remainder of a division towards zero.                               *)
LEMMA RemFacts ==
  ASSUME NEW x \in Int, NEW m \in Nat \ {0}
  PROVE  /\ Rem(x, m) \in Small(m) /\ Quo(x, m) \in Int
         /\ x = m * Quo(x, m) + Rem(x, m)
         /\ x >= 0 => Rem(x, m) >= 0
         /\ x <= 0 => Rem(x, m) <= 0
         /\ Cong(Rem(x, m), x, m)
<1>1. CASE x >= 0
  <2>1. x \div m \in Int /\ x % m \in 0 .. m - 1 /\ x = m * (x \div m) + (x % m)
    BY DivMod
  <2>2. Rem(x, m) = x % m /\ Quo(x, m) = x \div m BY <1>1 DEF Rem, Quo
  <2>3. Rem(x, m) - x = m * (-(x \div m)) /\ -(x \div m) \in Int BY <2>1, <2>2
  <2>4. Cong(Rem(x, m), x, m) BY <2>3 DEF Cong
  <2>5. x = 0 => Rem(x, m) = 0
    BY <2>2, ModUnique, m * 0 + 0 = 0, 0 \in 0 .. m - 1
  <2>6. Rem(x, m) \in Small(m) BY <2>1, <2>2 DEF Small
  <2> QED BY <1>1, <2>1, <2>2, <2>4, <2>5, <2>6
<1>2. CASE x < 0
  <2> DEFINE y == -x
  <2>1. y \in Int /\ y > 0 BY <1>2
  <2>2. y \div m \in Int /\ y % m \in 0 .. m - 1 /\ y = m * (y \div m) + (y % m)
    BY <2>1, DivMod
  <2>3. Rem(x, m) = -(y % m) /\ Quo(x, m) = -(y \div m) BY <1>2 DEF Rem, Quo
  <2> HIDE DEF y
  <2>4. x = -y BY DEF y
  <2>5. x = m * Quo(x, m) + Rem(x, m) BY <2>1, <2>2, <2>3, <2>4
  <2>6. Rem(x, m) - x = m * (y \div m) BY <2>1, <2>2, <2>3, <2>4
  <2>7. Cong(Rem(x, m), x, m) BY <2>2, <2>6 DEF Cong
  <2>8. Rem(x, m) \in Small(m) BY <2>2, <2>3 DEF Small
  <2> QED BY <1>2, <2>2, <2>3, <2>5, <2>7, <2>8
<1> QED BY <1>1, <1>2

(* FIX_MOD of a remainder.                                                 *)
LEMMA FixModFacts ==
  ASSUME NEW m \in Nat \ {0}, NEW r \in Small(m)
  PROVE  FIX_MOD(r, m) \in Balanced(m) /\ Cong(FIX_MOD(r, m), r, m)
<1>1. r \in Int /\ m \div 2 \in Int /\ m = 2 * (m \div 2) + (m % 2) /\ m % 2 \in 0 .. 1
  BY DivMod DEF Small
<1>2. \/ FIX_MOD(r, m) - r = m * (-1) \/ FIX_MOD(r, m) - r = m * 0
      \/ FIX_MOD(r, m) - r = m * 1
  BY <1>1 DEF FIX_MOD
<1>3. Cong(FIX_MOD(r, m), r, m) BY <1>2 DEF Cong
<1>4. FIX_MOD(r, m) \in Balanced(m) BY <1>1 DEF FIX_MOD, Balanced, Small
<1> QED BY <1>3, <1>4

(* A fixnum modulus is below HalfWord, and so are its residues.            *)
LEMMA BalancedIsFixnum ==
  ASSUME NEW m \in Nat, FixnumModulus(m)
  PROVE  /\ m \in 1 .. HalfWord - 1
         /\ \A a \in Balanced(m) : a \in Int /\ FIXNUMP(a)
         /\ \A a, b \in Balanced(m) : FIXNUMP(a + b) /\ FIXNUMP(a - b)
<1>1. m \in 1 .. HalfWord - 1
  BY RatAssumption DEF FixnumModulus, FIXNUMP, Nil
<1>2. m \div 2 \in Int /\ m = 2 * (m \div 2) + (m % 2) /\ m % 2 \in 0 .. 1
  BY DivMod
<1> QED BY <1>1, <1>2, RatAssumption DEF FIXNUMP, Balanced

(* The low word of a fixnum, and of a sum that leaves the word.            *)
LEMMA LowFacts ==
  ASSUME NEW n \in Int
  PROVE  /\ FIXNUMP(n) => Low(n) = n
         /\ n \in HalfWord .. 2 * HalfWord - 1 => Low(n) % HalfWord = n - HalfWord
         /\ n \in -(2 * HalfWord) .. -HalfWord - 1 => Low(n) % HalfWord = n + 2 * HalfWord
<1> DEFINE W == 2 * HalfWord
<1>1. HalfWord \in Nat \ {0} /\ W \in Nat \ {0} BY RatAssumption
<1>2. FIXNUMP(n) => Low(n) = n
  <2>1. SUFFICES ASSUME FIXNUMP(n) PROVE Low(n) = n OBVIOUS
  <2>2. n + HalfWord \in 0 .. W - 1 BY <1>1, <2>1 DEF FIXNUMP
  <2>3. (W * 0 + (n + HalfWord)) % W = n + HalfWord BY <1>1, <2>2, ModUnique
  <2>4. W * 0 + (n + HalfWord) = n + HalfWord BY <1>1
  <2>5. (n + HalfWord) % W = n + HalfWord BY <2>3, <2>4
  <2> QED BY <1>1, <2>5 DEF Low
<1>3. ASSUME n \in HalfWord .. 2 * HalfWord - 1 PROVE Low(n) % HalfWord = n - HalfWord
  <2>1. n - HalfWord \in 0 .. HalfWord - 1 /\ n - HalfWord \in 0 .. W - 1 BY <1>1, <1>3
  <2>2. (W * 1 + (n - HalfWord)) % W = n - HalfWord BY <1>1, <2>1, ModUnique
  <2>3. W * 1 + (n - HalfWord) = n + HalfWord BY <1>1
  <2>4. Low(n) = HalfWord * (-1) + (n - HalfWord) BY <1>1, <2>2, <2>3 DEF Low
  <2>5. (HalfWord * (-1) + (n - HalfWord)) % HalfWord = n - HalfWord
    BY <1>1, <2>1, ModUnique
  <2> QED BY <2>4, <2>5
<1>4. ASSUME n \in -(2 * HalfWord) .. -HalfWord - 1 PROVE Low(n) % HalfWord = n + 2 * HalfWord
  <2>1. n + W \in 0 .. HalfWord - 1 BY <1>1, <1>4
  <2>2. n + HalfWord + W \in 0 .. W - 1 BY <1>1, <1>4
  <2>3. (W * (-1) + (n + HalfWord + W)) % W = n + HalfWord + W BY <1>1, <2>2, ModUnique
  <2>4. W * (-1) + (n + HalfWord + W) = n + HalfWord BY <1>1
  <2>5. Low(n) = HalfWord * 0 + (n + W) BY <1>1, <2>3, <2>4 DEF Low
  <2>6. (HalfWord * 0 + (n + W)) % HalfWord = n + W BY <1>1, <2>1, ModUnique
  <2> QED BY <2>5, <2>6
<1> QED BY <1>2, <1>3, <1>4

(* plusrem and subrem: only for modulus = 1 can the quotient be too long.  *)
LEMMA WideRemOfSum ==
  ASSUME NEW m \in Nat, FixnumModulus(m),
         NEW x \in -(2 * HalfWord) .. 2 * HalfWord - 1
  PROVE  /\ WideRem(x, m) \in Int /\ Cong(WideRem(x, m), x, m)
         /\ m > 1 => WideRem(x, m) \in Small(m)
<1>1. m \in 1 .. HalfWord - 1 /\ m \in Nat \ {0} /\ x \in Int
  BY BalancedIsFixnum, RatAssumption
<1>2. /\ Rem(x, m) \in Small(m) /\ Quo(x, m) \in Int
      /\ x = m * Quo(x, m) + Rem(x, m) /\ Cong(Rem(x, m), x, m)
      /\ x >= 0 => Rem(x, m) >= 0
      /\ x <= 0 => Rem(x, m) <= 0
  BY <1>1, RemFacts
<1>3. CASE m = 1
  <2> DEFINE W == 2 * HalfWord
  <2>1. W \in Nat \ {0} BY RatAssumption
  <2>2. x \div W \in Int BY <1>1, <2>1, DivMod
  <2>3. WideRem(x, m) \in Int BY <1>2, <2>2 DEF WideRem, Small
  <2>4. WideRem(x, m) - x = m * (WideRem(x, m) - x) BY <1>1, <1>3, <2>3
  <2>5. WideRem(x, m) - x \in Int BY <1>1, <2>3
  <2> QED BY <1>3, <2>3, <2>4, <2>5 DEF Cong
<1>4. CASE m > 1
  <2> DEFINE q == Quo(x, m)
             r == Rem(x, m)
  <2>1. /\ q \in Int /\ r \in Int /\ x = m * q + r
        /\ r > -m /\ r < m /\ m \in Int /\ m >= 2
        /\ x >= 0 => r >= 0
        /\ x <= 0 => r <= 0
    BY <1>1, <1>2, <1>4 DEF Small
  <2> HIDE DEF q, r
  <2>2. q >= HalfWord => FALSE
    <3>1. SUFFICES ASSUME q >= HalfWord PROVE FALSE OBVIOUS
    <3>2. m * q >= 2 * q BY <2>1, <3>1, RatAssumption
    <3>3. x > 0
      <4>1. m * q >= m BY <2>1, <3>1, RatAssumption
      <4> QED BY <2>1, <4>1
    <3> QED BY <1>1, <2>1, <3>1, <3>2, <3>3, RatAssumption
  <2>3. q < -HalfWord => FALSE
    <3>1. SUFFICES ASSUME q < -HalfWord PROVE FALSE OBVIOUS
    <3>2. m * q <= 2 * q BY <2>1, <3>1, RatAssumption
    <3>3. x < 0
      <4>1. m * q <= -m BY <2>1, <3>1, RatAssumption
      <4> QED BY <2>1, <4>1
    <3> QED BY <1>1, <2>1, <3>1, <3>2, <3>3, RatAssumption
  <2>4. FIXNUMP(q) BY <2>1, <2>2, <2>3, RatAssumption DEF FIXNUMP
  <2>5. WideRem(x, m) = Rem(x, m) BY <2>4 DEF WideRem, q
  <2> QED BY <1>2, <2>5 DEF Small
<1> QED BY <1>1, <1>3, <1>4

(* dblrem of two residues: the quotient is no longer than a residue.       *)
LEMMA DblremFacts ==
  ASSUME NEW m \in Nat, FixnumModulus(m), NEW a \in Balanced(m), NEW b \in Balanced(m)
  PROVE  dblrem(a, b, m) \in Small(m) /\ Cong(dblrem(a, b, m), a * b, m)
<1> DEFINE h == m \div 2
           x == a * b
           q == Quo(x, m)
           r == Rem(x, m)
<1>1. m \in 1 .. HalfWord - 1 /\ m \in Nat \ {0} /\ a \in Int /\ b \in Int
  BY BalancedIsFixnum
<1>2. h \in Int /\ m = 2 * h + (m % 2) /\ m % 2 \in 0 .. 1
  <2>1. m \in Int /\ 2 \in Nat \ {0} BY <1>1
  <2> QED BY <2>1, DivMod
<1>3. h \in Nat /\ h < m /\ h < HalfWord BY <1>1, <1>2, RatAssumption
<1>4. a >= -h /\ a <= h /\ b >= -h /\ b <= h BY <1>1, <1>3 DEF Balanced
<1>5. x \in Int BY <1>1
<1>6. r \in Small(m) /\ q \in Int /\ x = m * q + r /\ Cong(r, x, m)
  BY <1>1, <1>5, RemFacts
<1>7. x <= h * h /\ x >= -(h * h)
  <2> HIDE DEF h
  <2> QED BY <1>1, <1>3, <1>4, Z3
<1>8. h * h <= m * h
  <2> HIDE DEF h
  <2> QED BY <1>1, <1>3
<1>9. FIXNUMP(q)
  <2>1. r > -m /\ r < m /\ r \in Int /\ m \in Int BY <1>1, <1>6 DEF Small
  <2> HIDE DEF h, q, r, x
  <2>2. m * q < m * (h + 1)
    BY <1>1, <1>3, <1>5, <1>6, <1>7, <1>8, <2>1
  <2>3. m * q > m * (-h - 1)
    BY <1>1, <1>3, <1>5, <1>6, <1>7, <1>8, <2>1
  <2>4. q < h + 1 BY <1>1, <1>3, <1>6, <2>2
  <2>5. q > -h - 1 BY <1>1, <1>3, <1>6, <2>3
  <2> QED BY <1>3, <1>6, <2>4, <2>5, RatAssumption DEF FIXNUMP
<1>10. dblrem(a, b, m) = r BY <1>9 DEF dblrem, WideRem
<1> QED BY <1>6, <1>10

(* fplus and fminus make the true sum and difference.                      *)
LEMMA WordSums ==
  ASSUME NEW a \in Int, NEW b \in Int, FIXNUMP(a), FIXNUMP(b)
  PROVE  fplus(a, b) = a + b /\ fminus(a, b) = a - b
<1>1. HalfWord \in Nat /\ HalfWord > 1 BY RatAssumption
<1>2. fplus(a, b) = a + b
  <2>1. CASE FIXNUMP(a + b)
    BY <2>1, LowFacts DEF fplus
  <2>2. CASE ~FIXNUMP(a + b) /\ b > 0
    <3>1. a + b \in HalfWord .. 2 * HalfWord - 1 BY <1>1, <2>2 DEF FIXNUMP
    <3>2. Low(a + b) % HalfWord = (a + b) - HalfWord BY <3>1, LowFacts
    <3> QED BY <1>1, <2>2, <3>2 DEF fplus, bignum2
  <2>3. CASE ~FIXNUMP(a + b) /\ ~(b > 0)
    <3>1. a + b \in -(2 * HalfWord) .. -HalfWord - 1 BY <1>1, <2>3 DEF FIXNUMP
    <3>2. Low(a + b) % HalfWord = (a + b) + 2 * HalfWord BY <3>1, LowFacts
    <3> QED BY <1>1, <2>3, <3>2 DEF fplus, bignum2
  <2> QED BY <2>1, <2>2, <2>3
<1>3. fminus(a, b) = a - b
  <2>1. CASE FIXNUMP(a - b)
    BY <2>1, LowFacts DEF fminus
  <2>2. CASE ~FIXNUMP(a - b) /\ b < 0
    <3>1. a - b \in HalfWord .. 2 * HalfWord - 1 BY <1>1, <2>2 DEF FIXNUMP
    <3>2. Low(a - b) % HalfWord = (a - b) - HalfWord BY <3>1, LowFacts
    <3> QED BY <1>1, <2>2, <3>2 DEF fminus, bignum2
  <2>3. CASE ~FIXNUMP(a - b) /\ ~(b < 0)
    <3>1. a - b \in -(2 * HalfWord) .. -HalfWord - 1 BY <1>1, <2>3 DEF FIXNUMP
    <3>2. Low(a - b) % HalfWord = (a - b) + 2 * HalfWord BY <3>1, LowFacts
    <3> QED BY <1>1, <2>3, <3>2 DEF fminus, bignum2
  <2> QED BY <2>1, <2>2, <2>3
<1> QED BY <1>2, <1>3

(* mcmod: of a fixnum balanced, of anything a remainder.                   *)
LEMMA McmodFacts ==
  ASSUME NEW x \in Int, NEW m \in Nat \ {0}
  PROVE  /\ mcmod(x, m) \in Small(m) /\ Cong(mcmod(x, m), x, m)
         /\ FIXNUMP(m) /\ FIXNUMP(x) => mcmod(x, m) \in Balanced(m)
<1> DEFINE r == Rem(x, m)
<1>1. r \in Small(m) /\ Cong(r, x, m) BY RemFacts
<1>2. m \div 2 \in Int /\ m = 2 * (m \div 2) + (m % 2) /\ m % 2 \in 0 .. 1 BY DivMod
<1>3. CASE FIXNUMP(m) /\ FIXNUMP(x)
  <2>1. mcmod(x, m) = FIX_MOD(r, m) BY <1>3 DEF mcmod, Nil
  <2>2. FIX_MOD(r, m) \in Balanced(m) /\ Cong(FIX_MOD(r, m), r, m)
    BY <1>1, FixModFacts
  <2>3. FIX_MOD(r, m) \in Int /\ r \in Int BY <1>1, <2>2 DEF Balanced, Small
  <2>4. Cong(FIX_MOD(r, m), x, m) BY <1>1, <2>2, <2>3, CongTrans
  <2>5. FIX_MOD(r, m) \in Small(m) BY <1>2, <2>2 DEF Balanced, Small
  <2> QED BY <2>1, <2>2, <2>4, <2>5
<1>4. CASE ~(FIXNUMP(m) /\ FIXNUMP(x))
  <2>1. mcmod(x, m) = IF r > m \div 2 THEN r - m ELSE r BY <1>4 DEF mcmod, Nil
  <2>2. mcmod(x, m) - r = m * 0 \/ mcmod(x, m) - r = m * (-1)
    BY <1>1, <2>1 DEF Small
  <2>3. Cong(mcmod(x, m), r, m) BY <2>2 DEF Cong
  <2>4. mcmod(x, m) \in Small(m) BY <1>1, <1>2, <2>1 DEF Small
  <2>5. mcmod(x, m) \in Int /\ r \in Int BY <1>1, <2>4 DEF Small
  <2>6. Cong(mcmod(x, m), x, m) BY <1>1, <2>3, <2>5, CongTrans
  <2> QED BY <1>4, <2>4, <2>6
<1> QED BY <1>3, <1>4

(***************************************************************************)
(* The operations                                                          *)
(***************************************************************************)

(* What r is to the integer v it stands for.                               *)
Good(r, v, m, f) ==
  /\ r \in Int /\ v \in Int
  /\ f = "exact" => r = v
  /\ f \in {"balanced", "remainder"} => Cong(r, v, m)
  /\ f = "balanced" => r \in Balanced(m)
  /\ f = "remainder" /\ m > 1 => r \in Small(m)

FormFits(m, f) ==
  /\ f \in {"exact", "balanced", "remainder", "loose"}
  /\ f = "exact" <=> m = Nil
  /\ f \in {"balanced", "loose"} => FixnumModulus(m)

NewForm(m, f) == IF FixnumModulus(m) /\ f # "balanced" THEN "loose" ELSE FreshForm(m)

(* r is the result of an operation on a and b whose value is v.            *)
Computes(r, v, a, b, m) ==
  /\ r \in Int
  /\ m = Nil => r = v
  /\ m # Nil /\ ~FIXNUMP(m) => r \in Small(m) /\ Cong(r, v, m)
  /\ FixnumModulus(m) /\ a \in Balanced(m) /\ b \in Balanced(m)
       => r \in Balanced(m) /\ Cong(r, v, m)

(* A word reduced by % and FIX_MOD, as cplus and cdifference do.           *)
LEMMA WordReduced ==
  ASSUME NEW m \in Nat, FixnumModulus(m), NEW x \in Int
  PROVE  /\ FIX_MOD(Rem(Low(x), m), m) \in Balanced(m)
         /\ FIX_MOD(Rem(Low(x), m), m) \in Int
         /\ FIXNUMP(x) => Cong(FIX_MOD(Rem(Low(x), m), m), x, m)
<1> DEFINE r == Rem(Low(x), m)
<1>1. m \in Nat \ {0} BY BalancedIsFixnum
<1>2. Low(x) \in Int
  <2> DEFINE y == x + HalfWord
             W == 2 * HalfWord
  <2>1. y \in Int /\ W \in Nat \ {0} BY RatAssumption
  <2>2. y % W \in 0 .. W - 1
    <3> HIDE DEF y, W
    <3> QED BY <2>1, DivMod
  <2>3. y % W \in Int BY <2>1, <2>2
  <2>4. Low(x) = (y % W) - HalfWord BY DEF Low
  <2> HIDE DEF y, W
  <2> QED BY <2>3, <2>4, RatAssumption
<1>3. r \in Small(m) /\ Cong(r, Low(x), m) BY <1>1, <1>2, RemFacts
<1>4. FIX_MOD(r, m) \in Balanced(m) /\ Cong(FIX_MOD(r, m), r, m) BY <1>1, <1>3, FixModFacts
<1>5. r \in Int /\ FIX_MOD(r, m) \in Int BY <1>3, <1>4 DEF Small, Balanced
<1>6. Cong(FIX_MOD(r, m), Low(x), m) BY <1>1, <1>2, <1>3, <1>4, <1>5, CongTrans
<1>7. FIXNUMP(x) => Low(x) = x BY LowFacts
<1> QED BY <1>4, <1>5, <1>6, <1>7

LEMMA CplusComputes ==
  ASSUME NEW m \in Nat, NEW a \in Int, NEW b \in Int
  PROVE  Computes(cplus(a, b, m), a + b, a, b, m)
<1>1. CASE m = Nil
  <2>1. cplus(a, b, m) = a + b
    BY <1>1, WordSums DEF cplus, FixnumModulus
  <2> QED BY <1>1, <2>1 DEF Computes, FixnumModulus
<1>2. CASE FixnumModulus(m)
  <2>1. cplus(a, b, m) = FIX_MOD(Rem(Low(a + b), m), m) BY <1>2 DEF cplus
  <2>2. a + b \in Int OBVIOUS
  <2>3. a \in Balanced(m) /\ b \in Balanced(m) => FIXNUMP(a + b) BY <1>2, BalancedIsFixnum
  <2> QED BY <1>2, <2>1, <2>2, <2>3, WordReduced DEF Computes, FixnumModulus
<1>3. CASE m # Nil /\ ~FIXNUMP(m)
  <2>1. cplus(a, b, m) = mcmod(a + b, m) BY <1>3 DEF cplus, FixnumModulus
  <2>2. m \in Nat \ {0} /\ a + b \in Int BY <1>3 DEF Nil
  <2>3. mcmod(a + b, m) \in Small(m) /\ Cong(mcmod(a + b, m), a + b, m)
    BY <2>2, McmodFacts
  <2> QED BY <1>3, <2>1, <2>3 DEF Computes, FixnumModulus, Small
<1> QED BY <1>1, <1>2, <1>3 DEF FixnumModulus

LEMMA CdifferenceComputes ==
  ASSUME NEW m \in Nat, NEW a \in Int, NEW b \in Int
  PROVE  Computes(cdifference(a, b, m), a - b, a, b, m)
<1>1. CASE m = Nil
  <2>1. cdifference(a, b, m) = a - b
    BY <1>1, WordSums DEF cdifference, FixnumModulus
  <2> QED BY <1>1, <2>1 DEF Computes, FixnumModulus
<1>2. CASE FixnumModulus(m)
  <2>1. cdifference(a, b, m) = FIX_MOD(Rem(Low(a - b), m), m) BY <1>2 DEF cdifference
  <2>2. a - b \in Int OBVIOUS
  <2>3. a \in Balanced(m) /\ b \in Balanced(m) => FIXNUMP(a - b) BY <1>2, BalancedIsFixnum
  <2> QED BY <1>2, <2>1, <2>2, <2>3, WordReduced DEF Computes, FixnumModulus
<1>3. CASE m # Nil /\ ~FIXNUMP(m)
  <2>1. cdifference(a, b, m) = mcmod(a - b, m) BY <1>3 DEF cdifference, FixnumModulus
  <2>2. m \in Nat \ {0} /\ a - b \in Int BY <1>3 DEF Nil
  <2>3. mcmod(a - b, m) \in Small(m) /\ Cong(mcmod(a - b, m), a - b, m)
    BY <2>2, McmodFacts
  <2> QED BY <1>3, <2>1, <2>3 DEF Computes, FixnumModulus, Small
<1> QED BY <1>1, <1>2, <1>3 DEF FixnumModulus

LEMMA CtimesComputes ==
  ASSUME NEW m \in Nat, NEW a \in Int, NEW b \in Int
  PROVE  Computes(ctimes(a, b, m), a * b, a, b, m)
<1> DEFINE x == a * b
           d == dblrem(a, b, m)
<1>0. x \in Int OBVIOUS
<1>1. CASE m = Nil
  <2>1. FIXNUMP(m) BY <1>1, RatAssumption DEF FIXNUMP, Nil
  <2>2. ctimes(a, b, m) = x
    BY <1>1 DEF ctimes, ftimes, mcmod
  <2> QED BY <1>0, <1>1, <2>2 DEF Computes, FixnumModulus
<1>2. CASE FixnumModulus(m)
  <2>1. m \in Nat \ {0} /\ m # Nil /\ FIXNUMP(m) BY <1>2, BalancedIsFixnum DEF FixnumModulus
  <2>2. CASE FIXNUMP(a) /\ FIXNUMP(b)
    <3>1. ctimes(a, b, m) = FIX_MOD(d, m) BY <2>1, <2>2 DEF ctimes
    <3>2. d \in Int
      <4>1. Rem(x, m) \in Int BY <1>0, <2>1, RemFacts DEF Small
      <4>2. x \div (2 * HalfWord) \in Int
        <5>1. 2 * HalfWord \in Nat \ {0} BY RatAssumption
        <5> QED BY <1>0, <5>1, DivMod
      <4> QED BY <4>1, <4>2 DEF dblrem, WideRem
    <3>3. FIX_MOD(d, m) \in Int
      <4> HIDE DEF d
      <4>1. m \div 2 \in Int BY DivMod, m \in Int, 2 \in Nat \ {0}
      <4> QED BY <3>2, <4>1 DEF FIX_MOD
    <3>4. ASSUME a \in Balanced(m), b \in Balanced(m)
          PROVE  FIX_MOD(d, m) \in Balanced(m) /\ Cong(FIX_MOD(d, m), x, m)
      <4>1. d \in Small(m) /\ Cong(d, x, m) BY <1>2, <3>4, DblremFacts
      <4>2. FIX_MOD(d, m) \in Balanced(m) /\ Cong(FIX_MOD(d, m), d, m)
        BY <2>1, <4>1, FixModFacts
      <4>3. Cong(FIX_MOD(d, m), x, m) BY <1>0, <2>1, <3>2, <3>3, <4>1, <4>2, CongTrans
      <4> QED BY <4>2, <4>3
    <3> QED BY <2>1, <3>1, <3>3, <3>4 DEF Computes
  <2>3. CASE ~(FIXNUMP(a) /\ FIXNUMP(b))
    <3>1. ctimes(a, b, m) = mcmod(x, m) BY <2>3 DEF ctimes
    <3>2. mcmod(x, m) \in Int BY <1>0, <2>1, McmodFacts DEF Small
    <3>3. ~(a \in Balanced(m) /\ b \in Balanced(m)) BY <1>2, <2>3, BalancedIsFixnum
    <3> QED BY <2>1, <3>1, <3>2, <3>3 DEF Computes
  <2> QED BY <2>2, <2>3
<1>3. CASE m # Nil /\ ~FIXNUMP(m)
  <2>1. ctimes(a, b, m) = mcmod(x, m) BY <1>3 DEF ctimes
  <2>2. m \in Nat \ {0} BY <1>3 DEF Nil
  <2>3. mcmod(x, m) \in Small(m) /\ Cong(mcmod(x, m), x, m)
    BY <1>0, <2>2, McmodFacts
  <2> QED BY <1>3, <2>1, <2>3 DEF Computes, FixnumModulus, Small
<1> QED BY <1>1, <1>2, <1>3 DEF FixnumModulus

(***************************************************************************)
(* The invariant                                                           *)
(***************************************************************************)

(* The properties are about acc and exact alone; what carries them through *)
(* a chain is that the form always says which bounds acc has.              *)
Inv ==
  /\ modulus \in Moduli /\ steps \in 0 .. MaxSteps
  /\ FormFits(modulus, form)
  /\ Good(acc, exact, modulus, form)

LEMMA FreshFits ==
  ASSUME NEW m \in Nat
  PROVE  FormFits(m, FreshForm(m))
BY DEF FormFits, FreshForm, FixnumModulus

(* A number that Lisp has just reduced.                                    *)
LEMMA CmodGood ==
  ASSUME NEW m \in Nat, NEW n \in Int
  PROVE  Good(cmod(n, m), n, m, FreshForm(m))
<1>1. CASE m = Nil
  BY <1>1 DEF Good, FreshForm, cmod
<1>2. CASE m # Nil
  <2>1. m \in Nat \ {0} BY <1>2 DEF Nil
  <2>2. /\ cmod(n, m) \in Int /\ cmod(n, m) \in Balanced(m) /\ Cong(cmod(n, m), n, m)
        /\ 2 * cmod(n, m) <= m /\ 2 * cmod(n, m) > -m
    BY <2>1, CmodFacts
  <2>3. m > 1 => cmod(n, m) \in Small(m) BY <2>1, <2>2 DEF Small
  <2>4. FreshForm(m) \in {"balanced", "remainder"} BY <1>2 DEF FreshForm
  <2> QED BY <2>2, <2>3, <2>4 DEF Good
<1> QED BY <1>1, <1>2

(* An operation whose result computes its value keeps the invariant.       *)
LEMMA OperateStep ==
  ASSUME Inv, NEW r \in Int, NEW w \in Int, NEW v \in Int, NEW y \in Int,
         Operate(r, w),
         Computes(r, v, acc, cmod(y, modulus), modulus),
         modulus = Nil => v = w,
         modulus # Nil /\ Cong(acc, exact, modulus) => Cong(v, w, modulus)
  PROVE  Inv'
<1> DEFINE m == modulus
           f == NewForm(m, form)
           b == cmod(y, modulus)
<1>1. m \in Nat /\ steps' \in 0 .. MaxSteps /\ m' = m /\ acc' = r /\ exact' = w /\ form' = f
  BY RatAssumption DEF Inv, Operate, NewForm
<1>2. FormFits(m, form) /\ Good(acc, exact, m, form) BY DEF Inv
<1>3. FormFits(m, f)
  BY <1>1, FreshFits DEF NewForm, FormFits, FixnumModulus
<1>4. Good(r, w, m, f)
  <2>1. CASE f = "exact"
    <3>1. m = Nil BY <1>3, <2>1 DEF FormFits
    <3> QED BY <2>1, <3>1 DEF Good, Computes
  <2>2. CASE f = "remainder"
    <3>1. m # Nil /\ ~FIXNUMP(m)
      BY <1>3, <2>2 DEF FormFits, NewForm, FreshForm, FixnumModulus
    <3>2. form = "remainder" BY <1>2, <3>1 DEF FormFits, FixnumModulus
    <3>3. Cong(acc, exact, m) BY <1>2, <3>2 DEF Good
    <3>4. r \in Small(m) /\ Cong(r, v, m) /\ Cong(v, w, m)
      BY <3>1, <3>3 DEF Computes
    <3>5. m \in Nat \ {0} BY <1>1, <3>1 DEF Nil
    <3>6. Cong(r, w, m) BY <3>4, <3>5, CongTrans
    <3> QED BY <2>2, <3>4, <3>6 DEF Good
  <2>3. CASE f = "balanced"
    <3>1. FixnumModulus(m) BY <1>3, <2>3 DEF FormFits
    <3>2. form = "balanced" BY <2>3, <3>1 DEF NewForm
    <3>3. acc \in Balanced(m) /\ Cong(acc, exact, m) BY <1>2, <3>2 DEF Good
    <3>4. m \in Nat \ {0} BY <1>1, <3>1 DEF FixnumModulus, Nil
    <3>5. b \in Balanced(m) BY <3>4, CmodFacts
    <3>6. m # Nil BY <3>4 DEF Nil
    <3>7. r \in Balanced(m) /\ Cong(r, v, m) /\ Cong(v, w, m)
      BY <3>1, <3>3, <3>5, <3>6 DEF Computes
    <3>8. Cong(r, w, m) BY <3>4, <3>7, CongTrans
    <3> QED BY <2>3, <3>7, <3>8 DEF Good
  <2>4. CASE f = "loose"
    BY <2>4 DEF Good
  <2> QED BY <1>3, <2>1, <2>2, <2>3, <2>4 DEF FormFits
<1>5. m' \in Moduli BY <1>1 DEF Inv
<1> QED BY <1>1, <1>3, <1>4, <1>5 DEF Inv

(* The operand that the caller reduced stands for the number it was.       *)
LEMMA Operand ==
  ASSUME Inv, NEW y \in Int
  PROVE  /\ modulus \in Nat /\ acc \in Int /\ exact \in Int /\ cmod(y, modulus) \in Int
         /\ modulus = Nil => acc = exact /\ cmod(y, modulus) = y
         /\ modulus # Nil => modulus \in Nat \ {0} /\ Cong(cmod(y, modulus), y, modulus)
<1>1. modulus \in Nat /\ acc \in Int /\ exact \in Int BY RatAssumption DEF Inv, Good
<1>2. modulus = Nil => acc = exact /\ cmod(y, modulus) = y
  BY DEF Inv, Good, FormFits, cmod
<1>3. modulus # Nil => modulus \in Nat \ {0} BY <1>1 DEF Nil
<1>4. modulus # Nil => Cong(cmod(y, modulus), y, modulus) /\ cmod(y, modulus) \in Int
  BY <1>3, CmodFacts
<1> QED BY <1>1, <1>2, <1>3, <1>4

LEMMA PlusStep ==
  ASSUME Inv, NEW y \in Samples, Plus(y)
  PROVE  Inv'
<1> DEFINE b == cmod(y, modulus)
<1>1. y \in Int BY RatAssumption
<1>2. /\ modulus \in Nat /\ acc \in Int /\ exact \in Int /\ b \in Int
      /\ modulus = Nil => acc = exact /\ b = y
      /\ modulus # Nil => modulus \in Nat \ {0} /\ Cong(b, y, modulus)
  BY <1>1, Operand
<1> HIDE DEF b
<1>3. Computes(cplus(acc, b, modulus), acc + b, acc, b, modulus) BY <1>2, CplusComputes
<1>4. modulus = Nil => acc + b = exact + y BY <1>2
<1>5. modulus # Nil /\ Cong(acc, exact, modulus) => Cong(acc + b, exact + y, modulus)
  BY <1>1, <1>2, CongOps
<1>6. cplus(acc, b, modulus) \in Int BY <1>3 DEF Computes
<1>7. acc + b \in Int /\ exact + y \in Int BY <1>1, <1>2
<1>8. Operate(cplus(acc, b, modulus), exact + y) BY DEF Plus, b
<1> QED BY <1>1, <1>3, <1>4, <1>5, <1>6, <1>7, <1>8, OperateStep DEF b

LEMMA DifferenceStep ==
  ASSUME Inv, NEW y \in Samples, Difference(y)
  PROVE  Inv'
<1> DEFINE b == cmod(y, modulus)
<1>1. y \in Int BY RatAssumption
<1>2. /\ modulus \in Nat /\ acc \in Int /\ exact \in Int /\ b \in Int
      /\ modulus = Nil => acc = exact /\ b = y
      /\ modulus # Nil => modulus \in Nat \ {0} /\ Cong(b, y, modulus)
  BY <1>1, Operand
<1> HIDE DEF b
<1>3. Computes(cdifference(acc, b, modulus), acc - b, acc, b, modulus)
  BY <1>2, CdifferenceComputes
<1>4. modulus = Nil => acc - b = exact - y BY <1>2
<1>5. modulus # Nil /\ Cong(acc, exact, modulus) => Cong(acc - b, exact - y, modulus)
  BY <1>1, <1>2, CongOps
<1>6. cdifference(acc, b, modulus) \in Int BY <1>3 DEF Computes
<1>7. acc - b \in Int /\ exact - y \in Int BY <1>1, <1>2
<1>8. Operate(cdifference(acc, b, modulus), exact - y) BY DEF Difference, b
<1> QED BY <1>1, <1>3, <1>4, <1>5, <1>6, <1>7, <1>8, OperateStep DEF b

LEMMA TimesStep ==
  ASSUME Inv, NEW y \in Samples, Times(y)
  PROVE  Inv'
<1> DEFINE b == cmod(y, modulus)
<1>1. y \in Int BY RatAssumption
<1>2. /\ modulus \in Nat /\ acc \in Int /\ exact \in Int /\ b \in Int
      /\ modulus = Nil => acc = exact /\ b = y
      /\ modulus # Nil => modulus \in Nat \ {0} /\ Cong(b, y, modulus)
  BY <1>1, Operand
<1> HIDE DEF b
<1>3. Computes(ctimes(acc, b, modulus), acc * b, acc, b, modulus) BY <1>2, CtimesComputes
<1>4. modulus = Nil => acc * b = exact * y BY <1>2
<1>5. modulus # Nil /\ Cong(acc, exact, modulus) => Cong(acc * b, exact * y, modulus)
  BY <1>1, <1>2, CongOps
<1>6. ctimes(acc, b, modulus) \in Int BY <1>3 DEF Computes
<1>7. acc * b \in Int /\ exact * y \in Int BY <1>1, <1>2
<1>8. Operate(ctimes(acc, b, modulus), exact * y) BY DEF Times, b
<1> QED BY <1>1, <1>3, <1>4, <1>5, <1>6, <1>7, <1>8, OperateStep DEF b

(* The entry points that take any number.                                  *)
LEMMA EnterStep ==
  ASSUME Inv, NEW r, NEW v, NEW f, Enter(r, v, f),
         FormFits(modulus, f), Good(r, v, modulus, f)
  PROVE  Inv'
BY RatAssumption DEF Inv, Enter

LEMMA MyMcmodStep ==
  ASSUME Inv, NEW x \in Samples, MyMcmod(x)
  PROVE  Inv'
<1> DEFINE m == modulus
           f == IF FixnumModulus(m) /\ ~FIXNUMP(x) THEN "remainder" ELSE FreshForm(m)
<1>1. x \in Int /\ m \in Nat BY RatAssumption DEF Inv
<1>2. FormFits(m, f) BY <1>1, FreshFits DEF FormFits, FixnumModulus
<1>3. Good(mcmod(x, m), x, m, f)
  <2>1. CASE m = Nil
    BY <1>1, <2>1 DEF Good, FreshForm, FixnumModulus, mcmod
  <2>2. CASE m # Nil
    <3>1. m \in Nat \ {0} BY <1>1, <2>2 DEF Nil
    <3>2. /\ mcmod(x, m) \in Small(m) /\ Cong(mcmod(x, m), x, m)
          /\ FIXNUMP(m) /\ FIXNUMP(x) => mcmod(x, m) \in Balanced(m)
      BY <1>1, <3>1, McmodFacts
    <3>3. f = "balanced" => FIXNUMP(m) /\ FIXNUMP(x)
      BY <2>2 DEF FreshForm, FixnumModulus
    <3>4. mcmod(x, m) \in Int BY <3>1, <3>2 DEF Small
    <3>5. f \in {"balanced", "remainder"} BY <2>2 DEF FreshForm
    <3> QED BY <1>1, <3>2, <3>3, <3>4, <3>5 DEF Good
  <2> QED BY <2>1, <2>2
<1>4. Enter(mcmod(x, m), x, f) BY DEF MyMcmod
<1> QED BY <1>2, <1>3, <1>4, EnterStep

LEMMA RemEntryStep ==
  ASSUME Inv, FixnumModulus(modulus),
         NEW x \in -(2 * HalfWord) .. 2 * HalfWord - 1,
         Enter(WideRem(x, modulus), x, "remainder")
  PROVE  Inv'
<1>1. modulus \in Nat /\ x \in Int BY RatAssumption DEF Inv
<1>2. /\ WideRem(x, modulus) \in Int /\ Cong(WideRem(x, modulus), x, modulus)
      /\ modulus > 1 => WideRem(x, modulus) \in Small(modulus)
  BY <1>1, WideRemOfSum
<1>3. FormFits(modulus, "remainder") BY DEF FormFits, FixnumModulus
<1>4. Good(WideRem(x, modulus), x, modulus, "remainder") BY <1>1, <1>2 DEF Good
<1> QED BY <1>3, <1>4, EnterStep

(* It holds of every chain.                                                *)
THEOREM InvHolds == Spec => []Inv
<1>1. Init => Inv
  <2>1. SUFFICES ASSUME Init PROVE Inv OBVIOUS
  <2>2. modulus \in Nat /\ exact \in Int /\ 0 \in 0 .. MaxSteps BY <2>1, RatAssumption DEF Init
  <2> QED BY <2>1, <2>2, CmodGood, FreshFits DEF Init, Inv
<1>2. Inv /\ [Next]_vars => Inv'
  <2>1. SUFFICES ASSUME Inv, [Next]_vars PROVE Inv' OBVIOUS
  <2>2. CASE SetModulus
    <3>1. modulus' \in Moduli /\ modulus' \in Nat /\ acc \in Int
      BY <2>1, <2>2, RatAssumption DEF SetModulus, Inv, Good
    <3>2. Good(acc', exact', modulus', form') /\ FormFits(modulus', form')
      BY <2>2, <3>1, CmodGood, FreshFits DEF SetModulus
    <3>3. steps' \in 0 .. MaxSteps BY <2>1, <2>2, RatAssumption DEF SetModulus, Inv
    <3> QED BY <3>1, <3>2, <3>3 DEF Inv
  <2>3. ASSUME NEW y \in Samples, Plus(y) PROVE Inv' BY <2>1, <2>3, PlusStep
  <2>4. ASSUME NEW y \in Samples, Difference(y) PROVE Inv' BY <2>1, <2>4, DifferenceStep
  <2>5. ASSUME NEW y \in Samples, Times(y) PROVE Inv' BY <2>1, <2>5, TimesStep
  <2>6. ASSUME NEW y \in Samples, MyMcmod(y) PROVE Inv' BY <2>1, <2>6, MyMcmodStep
  <2>7. ASSUME NEW x \in Samples, NEW y \in Samples, Plusrem(x, y) PROVE Inv'
    <3>1. x + y \in -(2 * HalfWord) .. 2 * HalfWord - 1
      BY <2>7, RatAssumption DEF Plusrem, FIXNUMP
    <3> QED BY <2>1, <2>7, <3>1, RemEntryStep DEF Plusrem, plusrem
  <2>8. ASSUME NEW x \in Samples, NEW y \in Samples, Subrem(x, y) PROVE Inv'
    <3>1. x - y \in -(2 * HalfWord) .. 2 * HalfWord - 1
      BY <2>8, RatAssumption DEF Subrem, FIXNUMP
    <3> QED BY <2>1, <2>8, <3>1, RemEntryStep DEF Subrem, subrem
  <2>9. CASE UNCHANGED vars
    BY <2>1, <2>9 DEF vars, Inv
  <2> QED BY <2>1, <2>2, <2>3, <2>4, <2>5, <2>6, <2>7, <2>8, <2>9 DEF Next
<1> QED BY <1>1, <1>2, PTL DEF Spec

(***************************************************************************)
(* Theorems                                                                *)
(***************************************************************************)

(* The variables hold what TypeOK says; a reduced coefficient of a fixnum  *)
(* modulus is a fixnum, for words of any size.                             *)
THEOREM TypeCorrect == Spec => []TypeOK
<1>1. Inv => TypeOK
  <2>1. SUFFICES ASSUME Inv PROVE TypeOK OBVIOUS
  <2>2. modulus \in Nat BY <2>1, RatAssumption DEF Inv
  <2>3. form = "balanced" => FIXNUMP(acc)
    BY <2>1, <2>2, BalancedIsFixnum DEF Inv, FormFits, Good
  <2> QED BY <2>1, <2>3 DEF Inv, TypeOK, FormFits, Good
<1> QED BY <1>1, InvHolds, PTL

(* Without a modulus a chain of any length and any numbers gives the true  *)
(* integer: fplus and fminus never lose the bit that leaves the word.      *)
THEOREM IntegersAreExact == Spec => []ExactWithoutModulus
<1>1. Inv => ExactWithoutModulus BY DEF Inv, Good, ExactWithoutModulus
<1> QED BY <1>1, InvHolds, PTL

(* With any modulus a chain gives the residue of the true integer.         *)
THEOREM ResiduesAreRight == Spec => []Congruent
<1>1. Inv => Congruent
  <2>1. SUFFICES ASSUME Inv, form \in {"balanced", "remainder"}
                 PROVE  (acc - exact) % modulus = 0
    BY DEF Congruent
  <2>2. modulus \in Nat \ {0} /\ acc \in Int /\ exact \in Int /\ Cong(acc, exact, modulus)
    BY <2>1, RatAssumption DEF Inv, Good, FormFits, Nil
  <2> QED BY <2>2, CongIsDivides
<1> QED BY <1>1, InvHolds, PTL

(* A coefficient stays reduced: |acc| is at most half of the modulus.      *)
THEOREM StaysReduced == Spec => []Reduced
<1>1. Inv => Reduced
  BY DEF Inv, Good, Balanced, Small, Reduced
<1> QED BY <1>1, InvHolds, PTL

(* The C functions may stand for Lisp's when modulus is odd: the residue   *)
(* in the range is then unique.                                            *)
THEOREM LispAgrees == Spec => []AgreesWithLisp
<1>1. Inv => AgreesWithLisp
  <2>1. SUFFICES ASSUME Inv, form = "balanced", modulus % 2 = 1
                 PROVE  acc = normalized_modulus(exact, modulus)
    BY DEF AgreesWithLisp
  <2> DEFINE m == modulus
             c == normalized_modulus(exact, m)
  <2>2. m \in Nat \ {0} /\ acc \in Int /\ exact \in Int /\ Cong(acc, exact, m)
        /\ acc \in Balanced(m) /\ m # Nil
    BY <2>1, RatAssumption DEF Inv, Good, FormFits, Nil
  <2>3. c = cmod(exact, m) BY <2>2 DEF cmod
  <2>4. c \in Int /\ c \in Balanced(m) /\ Cong(c, exact, m) BY <2>2, <2>3, CmodFacts
  <2>5. m = 2 * (m \div 2) + 1 /\ m \div 2 \in Int
    <3>1. m \in Int /\ 2 \in Nat \ {0} BY <2>2
    <3>2. m = 2 * (m \div 2) + (m % 2) /\ m \div 2 \in Int BY <3>1, DivMod
    <3> QED BY <2>1, <3>2
  <2>6. PICK j \in Int : acc - exact = m * j BY <2>2 DEF Cong
  <2>7. PICK k \in Int : c - exact = m * k BY <2>4 DEF Cong
  <2> HIDE DEF c
  <2>8. acc - c = m * (j - k) BY <2>2, <2>4, <2>6, <2>7
  <2>9. acc - c < m /\ acc - c > -m BY <2>2, <2>4, <2>5 DEF Balanced
  <2> DEFINE e == j - k
  <2>10. e \in Int /\ m * e < m /\ m * e > -m BY <2>8, <2>9
  <2>11. e = 0
    <3> HIDE DEF e
    <3>1. ~ e >= 1 BY <2>2, <2>10
    <3>2. ~ e <= -1 BY <2>2, <2>10
    <3> QED BY <2>10, <3>1, <3>2
  <2>12. acc = c BY <2>2, <2>4, <2>8, <2>11
  <2> QED BY <2>12 DEF c
<1> QED BY <1>1, InvHolds, PTL
=============================================================================
