------------------------------- MODULE RatMod -------------------------------
(***************************************************************************)
(* The coefficients of the rational functions: Lisp's cmod, cplus, ctimes  *)
(* and cdifference (src/src/mutils.lisp), and the C functions once written *)
(* to take their place (src/archive/src/rat3f-hc.c), which work on machine *)
(* words of the 68020 and on bignums.  A machine makes a chain of          *)
(* operations with the C functions on a coefficient of the kernel.         *)
(***************************************************************************)
EXTENDS Integers

CONSTANTS
  HalfWord,  \* 2^31: a fixnum is a word, -HalfWord .. HalfWord - 1
  Moduli,    \* the values of modulus, Nil among them
  Samples,   \* the numbers that meet the coefficient
  MaxSteps   \* bound: the length of a chain

Nil == 0

ASSUME RatAssumption ==
  /\ HalfWord \in Nat /\ HalfWord > 1
  /\ Moduli \subseteq Nat /\ Nil \in Moduli
  /\ Samples \subseteq Int /\ MaxSteps \in Nat

VARIABLES
  modulus,  \* the Lisp variable
  acc,      \* the coefficient the C functions have made
  exact,    \* history: the integer it stands for, never reduced
  form,     \* history: "exact", "balanced", "remainder"; "loose": a fixnum
            \* modulus and an operand nobody had reduced
  steps     \* the length of the chain

vars == <<modulus, acc, exact, form, steps>>

(***************************************************************************)
(* Lisp                                                                    *)
(***************************************************************************)

normalized_modulus(n, m) == IF 2 * (n % m) <= m THEN n % m ELSE (n % m) - m
cmod(n, m) == IF m = Nil THEN n ELSE normalized_modulus(n, m)

(***************************************************************************)
(* Words                                                                   *)
(***************************************************************************)

FIXNUMP(x) == x \in -HalfWord .. HalfWord - 1
FixnumModulus(m) == m # Nil /\ FIXNUMP(m)

(* The low word of a number, and what a signed division leaves: both cut   *)
(* the quotient towards zero.                                              *)
Low(n) == ((n + HalfWord) % (2 * HalfWord)) - HalfWord
Quo(x, m) == IF x >= 0 THEN x \div m ELSE -((-x) \div m)
Rem(x, m) == IF x >= 0 THEN x % m ELSE -((-x) % m)

(* divsl of a double word: when the quotient fits no word the registers    *)
(* stay, and the function returns the high one.                            *)
WideRem(x, m) == IF FIXNUMP(Quo(x, m)) THEN Rem(x, m) ELSE x \div (2 * HalfWord)

(* Mutant: the product in one word, as in C.                               *)
dblrem_Narrow(a, b, m) == Rem(Low(a * b), m)
dblrem(a, b, m) == WideRem(a * b, m)

(* The carry tells on which side the sum or the difference left the word:  *)
(* the division is of the number itself.                                   *)
plusrem(a, b, m) == WideRem(a + b, m)
subrem(a, b, m) == WideRem(a - b, m)

(* Mutants: only what is above the half is moved; the half itself is too;  *)
(* what is above is moved further.                                         *)
FIX_MOD_Added(x, m) ==
  IF x > m \div 2 THEN x + m ELSE IF x < -(m \div 2) THEN x + m ELSE x
FIX_MOD_Above(x, m) == IF x > m \div 2 THEN x - m ELSE x
FIX_MOD_Half(x, m) ==
  IF x >= m \div 2 THEN x - m ELSE IF x < -(m \div 2) THEN x + m ELSE x
FIX_MOD(x, m) ==
  IF x > m \div 2 THEN x - m ELSE IF x < -(m \div 2) THEN x + m ELSE x

(***************************************************************************)
(* Words and bignums                                                       *)
(***************************************************************************)

(* A bignum of two digits to the base HalfWord, the sign in the high one.  *)
bignum2(high, low) == high * HalfWord + low

(* Mutant: the low digit of a negative sum with the high digit -1.         *)
fplus_Minus1(m, n) ==
  IF FIXNUMP(m + n) THEN Low(m + n)
  ELSE IF n > 0 THEN bignum2(1, Low(m + n) % HalfWord)
  ELSE bignum2(-1, Low(m + n) % HalfWord)

fplus(m, n) ==
  IF FIXNUMP(m + n) THEN Low(m + n)
  ELSE IF n > 0 THEN bignum2(1, Low(m + n) % HalfWord)
  ELSE bignum2(-2, Low(m + n) % HalfWord)

fminus(m, n) ==
  IF FIXNUMP(m - n) THEN Low(m - n)
  ELSE IF n < 0 THEN bignum2(1, Low(m - n) % HalfWord)
  ELSE bignum2(-2, Low(m - n) % HalfWord)

(* fixnum_times, where the product fits no word, is external.              *)
ftimes(m, n) == m * n

(* The remainder of a bignum, or by one, is not moved from below.          *)
mcmod(x, m) ==
  IF m = Nil THEN x
  ELSE IF FIXNUMP(m) /\ FIXNUMP(x) THEN FIX_MOD(Rem(x, m), m)
  ELSE IF Rem(x, m) > m \div 2 THEN Rem(x, m) - m ELSE Rem(x, m)

(* With a fixnum modulus cplus and cdifference take both numbers for       *)
(* fixnums: the word that a bignum has there is not modelled.              *)
cplus(a, b, m) ==
  IF FixnumModulus(m) THEN FIX_MOD(Rem(Low(a + b), m), m)
  ELSE IF m = Nil THEN IF FIXNUMP(a) /\ FIXNUMP(b) THEN fplus(a, b) ELSE a + b
  ELSE mcmod(a + b, m)

cdifference(a, b, m) ==
  IF FixnumModulus(m) THEN FIX_MOD(Rem(Low(a - b), m), m)
  ELSE IF m = Nil THEN IF FIXNUMP(a) /\ FIXNUMP(b) THEN fminus(a, b) ELSE a - b
  ELSE mcmod(a - b, m)

ctimes(a, b, m) ==
  IF FIXNUMP(a) /\ FIXNUMP(b) /\ m = Nil THEN ftimes(a, b)
  ELSE IF FIXNUMP(a) /\ FIXNUMP(b) /\ FIXNUMP(m) THEN FIX_MOD(dblrem(a, b, m), m)
  ELSE mcmod(a * b, m)

(***************************************************************************)
(* Chains of operations                                                    *)
(***************************************************************************)

FreshForm(m) == IF m = Nil THEN "exact" ELSE IF FIXNUMP(m) THEN "balanced" ELSE "remainder"

(* The caller reduces what it computes with by Lisp's cmod.                *)
Init ==
  /\ modulus \in Moduli
  /\ exact \in Samples /\ acc = cmod(exact, modulus)
  /\ form = FreshForm(modulus) /\ steps = 0

(* set-modulus, or the binding of modulus, and pmod.                       *)
SetModulus ==
  /\ steps < MaxSteps /\ steps' = steps + 1
  /\ modulus' \in Moduli
  /\ exact' = acc /\ acc' = cmod(acc, modulus')
  /\ form' = FreshForm(modulus')

Operate(result, value) ==
  /\ steps < MaxSteps /\ steps' = steps + 1
  /\ acc' = result /\ exact' = value
  /\ form' = IF FixnumModulus(modulus) /\ form # "balanced" THEN "loose" ELSE FreshForm(modulus)
  /\ UNCHANGED modulus

(* mycplus, mycdifference, myctimes.                                       *)
Plus(y) == Operate(cplus(acc, cmod(y, modulus), modulus), exact + y)
Difference(y) == Operate(cdifference(acc, cmod(y, modulus), modulus), exact - y)
Times(y) == Operate(ctimes(acc, cmod(y, modulus), modulus), exact * y)

(* my-mcmod, plusrem and subrem, of numbers nobody has reduced.            *)
Enter(result, value, newForm) ==
  /\ steps < MaxSteps /\ steps' = steps + 1
  /\ acc' = result /\ exact' = value /\ form' = newForm
  /\ UNCHANGED modulus

MyMcmod(x) ==
  Enter(mcmod(x, modulus), x,
        IF FixnumModulus(modulus) /\ ~FIXNUMP(x) THEN "remainder" ELSE FreshForm(modulus))

Plusrem(x, y) ==
  /\ FixnumModulus(modulus) /\ FIXNUMP(x) /\ FIXNUMP(y)
  /\ Enter(plusrem(x, y, modulus), x + y, "remainder")

Subrem(x, y) ==
  /\ FixnumModulus(modulus) /\ FIXNUMP(x) /\ FIXNUMP(y)
  /\ Enter(subrem(x, y, modulus), x - y, "remainder")

Next ==
  \/ SetModulus
  \/ \E y \in Samples : Plus(y) \/ Difference(y) \/ Times(y) \/ MyMcmod(y)
  \/ \E x, y \in Samples : Plusrem(x, y) \/ Subrem(x, y)

Spec == Init /\ [][Next]_vars

(***************************************************************************)
(* Properties                                                              *)
(***************************************************************************)

(* What the variables hold; the coefficient of a fixnum modulus that was   *)
(* reduced is a fixnum.                                                    *)
TypeOK ==
  /\ modulus \in Moduli /\ acc \in Int /\ exact \in Int /\ steps \in 0 .. MaxSteps
  /\ form \in {"exact", "balanced", "remainder", "loose"}
  /\ form = "exact" <=> modulus = Nil
  /\ form = "balanced" => FIXNUMP(acc)

(* Without a modulus the arithmetic is that of the integers, on both sides *)
(* of the word: an overflow makes the bignum of the right sign and digits. *)
ExactWithoutModulus == form = "exact" => acc = exact

(* With a modulus a chain of any length computes the residue of the true   *)
(* integer: no sum and no product of reduced fixnums is cut by the word,   *)
(* up to the largest modulus that is a fixnum.                             *)
Congruent == form \in {"balanced", "remainder"} => (acc - exact) % modulus = 0

(* The result of reduced fixnums is reduced, and so may be an operand of   *)
(* the next operation; a remainder of anything else is less than modulus   *)
(* in size.  For modulus = 1, plusrem and subrem may leave -1.             *)
Reduced ==
  /\ form = "balanced" => acc \in -(modulus \div 2) .. modulus \div 2
  /\ form = "remainder" /\ modulus > 1 => acc \in -(modulus - 1) .. modulus - 1

(* The C functions give the number the Lisp functions give, which other    *)
(* parts of the kernel compare by equal, when modulus is odd.  (An even    *)
(* one has two numbers for its half: Lisp keeps the positive one.)         *)
AgreesWithLisp ==
  form = "balanced" /\ modulus % 2 = 1 => acc = normalized_modulus(exact, modulus)
=============================================================================
