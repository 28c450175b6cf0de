----------------------------- MODULE PlotValues -----------------------------
(***************************************************************************)
(* The values of the plotting program's stack machine and its operators    *)
(* (src/archive/o/internal.c, standard.c, plot.h): what each f_ function   *)
(* makes of the operands it pops.  A value is an INT, a machine word, or a *)
(* CMPLX.  The doubles of the model are whole numbers: what the code       *)
(* computes from them exactly is exact here, and the value of a quotient,  *)
(* a power or a transcendental function is any member of Doubles.  real()  *)
(* and imag() are external; an INT has the imaginary part 0.               *)
(*                                                                         *)
(* An operator is given by the set of its outcomes: the value pushed,      *)
(* whether it set undefined, and the text of the int_error it ended with.  *)
(***************************************************************************)
EXTENDS Integers, FiniteSetsExt

CONSTANTS
  IntBits,  \* the width of an int
  Doubles   \* the doubles that an inexact operation can give

ASSUME ValuesAssumption ==
  /\ IntBits \in Nat /\ IntBits > 1
  /\ Doubles \subseteq Int /\ 0 \in Doubles /\ IsFiniteSet(Doubles)

PowerOf2[i \in Nat] == IF i = 0 THEN 1 ELSE 2 * PowerOf2[i - 1]

MaxInt == PowerOf2[IntBits - 1] - 1
MinInt == -PowerOf2[IntBits - 1]
Words == MaxInt - MinInt + 1

(* Mutant: an int without a width.                                         *)
Wrap_None(n) == n

(* What the processor leaves of an integer result: its low IntBits bits.   *)
Wrap(n) == ((n - MinInt) % Words) + MinInt

Integer(n) == [type |-> "INT", re |-> Wrap(n), im |-> 0]
Complex(r, i) == [type |-> "CMPLX", re |-> r, im |-> i]
Value == [type : {"INT"}, re : MinInt .. MaxInt, im : {0}] \cup [type : {"CMPLX"}, re : Int, im : Int]

IsInt(v) == v.type = "INT"
Truth(b) == Integer(IF b THEN 1 ELSE 0)

Gives(v) == {[value |-> v, undefined |-> FALSE, error |-> ""]}
Undefined(v) == {[value |-> v, undefined |-> TRUE, error |-> ""]}
Fails(text) == {[value |-> Integer(0), undefined |-> FALSE, error |-> text]}
GivesAny(S) == UNION {Gives(v) : v \in S}

AnyComplex == {Complex(r, i) : r \in Doubles, i \in Doubles}
AnyReal == {Complex(r, 0) : r \in Doubles}

(* One operator after another on the value it pushed: undefined stays set. *)
Then(outcomes, F(_)) ==
  UNION {IF s.error # "" THEN {s}
         ELSE {[o EXCEPT !.undefined = @ \/ s.undefined] : o \in F(s.value)} : s \in outcomes}

(***************************************************************************)
(* Integers: int_check of each operand, then the operation                 *)
(***************************************************************************)

BitsOf(n) == {i \in 0 .. IntBits - 1 : ((n % Words) \div PowerOf2[i]) % 2 = 1}

(* The word with the bits of S: sum[i] counts those below i.               *)
FromBits(S) ==
  LET sum[i \in Nat] ==
        IF i = 0 THEN 0 ELSE sum[i - 1] + (IF i - 1 \in S THEN PowerOf2[i - 1] ELSE 0)
  IN  Wrap(sum[IntBits])

IntegerUnary(op, a) ==
  IF ~IsInt(a) THEN Fails("boolean")
  ELSE Gives(CASE op = "lnot" -> Truth(a.re = 0)
               [] op = "bnot" -> Integer(-a.re - 1)
               [] op = "bool" -> Truth(a.re # 0))

IntegerBinary(op, a, b) ==
  IF ~IsInt(b) \/ ~IsInt(a) THEN Fails("boolean")
  ELSE Gives(CASE op = "lor"  -> Truth(a.re # 0 \/ b.re # 0)
               [] op = "land" -> Truth(a.re # 0 /\ b.re # 0)
               [] op = "bor"  -> Integer(FromBits(BitsOf(a.re) \cup BitsOf(b.re)))
               [] op = "band" -> Integer(FromBits(BitsOf(a.re) \cap BitsOf(b.re)))
               [] op = "xor"  -> Integer(FromBits(SymDiff(BitsOf(a.re), BitsOf(b.re)))))

(***************************************************************************)
(* Comparison and arithmetic: an INT meets a CMPLX as a real number        *)
(***************************************************************************)

f_eq(a, b) == Gives(Truth(a.re = b.re /\ a.im = b.im))
f_ne(a, b) == Gives(Truth(a.re # b.re \/ a.im # b.im))

(* f_gt, f_lt, f_ge, f_le: the real parts alone.                           *)
Ordered(op, a, b) ==
  Gives(Truth(CASE op = "gt" -> a.re > b.re [] op = "lt" -> a.re < b.re
                [] op = "ge" -> a.re >= b.re [] op = "le" -> a.re <= b.re))

f_uminus(a) == Gives(IF IsInt(a) THEN Integer(-a.re) ELSE Complex(-a.re, -a.im))

BothInt(a, b) == IsInt(a) /\ IsInt(b)

f_plus(a, b) == Gives(IF BothInt(a, b) THEN Integer(a.re + b.re)
                      ELSE Complex(a.re + b.re, a.im + b.im))

f_minus(a, b) == Gives(IF BothInt(a, b) THEN Integer(a.re - b.re)
                       ELSE Complex(a.re - b.re, a.im - b.im))

f_mult(a, b) == Gives(IF BothInt(a, b) THEN Integer(a.re * b.re)
                      ELSE Complex(a.re * b.re - a.im * b.im, a.re * b.im + a.im * b.re))

(* C's / and %: towards zero.  The quotient of MinInt by -1 is a trap.     *)
Sign(n) == IF n > 0 THEN 1 ELSE IF n < 0 THEN -1 ELSE 0
Magnitude(n) == IF n < 0 THEN -n ELSE n
Quotient(m, n) == Sign(m) * Sign(n) * (Magnitude(m) \div Magnitude(n))
Remainder(m, n) == m - n * Quotient(m, n)
Traps(a, b) == a.re = MinInt /\ b.re = -1

(* Division by zero pushes a zero and sets undefined.                      *)
f_div(a, b) ==
  IF BothInt(a, b)
  THEN IF b.re = 0 THEN Undefined(Integer(0))
       ELSE IF Traps(a, b) THEN Fails("trap")
       ELSE Gives(Integer(Quotient(a.re, b.re)))
  ELSE IF b.re = 0 /\ b.im = 0 THEN Undefined(Complex(0, 0))
       ELSE GivesAny(AnyComplex)

f_mod(a, b) ==
  IF ~BothInt(a, b) THEN Fails("mod")
  ELSE IF b.re = 0 THEN Undefined(Integer(0))
  ELSE IF Traps(a, b) THEN Fails("trap")
  ELSE Gives(Integer(Remainder(a.re, b.re)))

(* The loop t *= a, count times, in machine words.                         *)
IntegerPower(a, count) ==
  LET t[i \in Nat] == IF i = 0 THEN 1 ELSE Wrap(t[i - 1] * a) IN t[count]

(* INT ** INT is an INT only for an exponent that is not negative; a zero  *)
(* to a negative power divides by zero and does not set undefined.         *)
f_power(a, b) ==
  IF BothInt(a, b) /\ b.re >= 0 THEN Gives(Integer(IntegerPower(a.re, b.re)))
  ELSE IF IsInt(b) /\ (IsInt(a) \/ a.im = 0) THEN GivesAny(AnyReal)
  ELSE GivesAny(AnyComplex)

(* The loop val *= i, from i = n down to 2, in doubles.                    *)
Factorial(n) ==
  LET val[i \in Nat] == IF i = 0 THEN 1 ELSE i * val[i - 1]
  IN  IF n > 1 THEN val[n] ELSE 1

f_factorial(a) ==
  IF IsInt(a) THEN Gives(Complex(Factorial(a.re), 0)) ELSE Fails("factorial")

(***************************************************************************)
(* standard.c: functions of one operand                                    *)
(***************************************************************************)

(* f_real, f_imag, f_arg, f_conjg.                                         *)
PartOf(op, a) ==
  CASE op = "real" -> Gives(Complex(a.re, 0))
    [] op = "imag" -> Gives(Complex(a.im, 0))
    [] op = "arg"  -> GivesAny(AnyReal)
    [] op = "conjg" -> Gives(Complex(a.re, -a.im))

f_sin(a) == GivesAny(AnyComplex)
f_cos(a) == GivesAny(AnyComplex)

(* A real argument has a real tangent; the denominator of another one may  *)
(* vanish: undefined, and the argument itself is pushed.                   *)
f_tan(a) == IF a.im = 0 THEN GivesAny(AnyReal) ELSE Undefined(a) \cup GivesAny(AnyComplex)

(* f_asin and f_acos: a real argument outside of -1 .. 1 is undefined.     *)
ArcSine(a) ==
  IF a.im # 0 THEN GivesAny(AnyComplex)
  ELSE IF Magnitude(a.re) > 1 THEN Undefined(Complex(0, 0))
  ELSE GivesAny(AnyReal)

f_atan(a) ==
  IF a.im = 0 THEN GivesAny(AnyReal)
  ELSE IF a.re = 0 /\ Magnitude(a.im) = 1 THEN Undefined(Complex(0, 0))
  ELSE GivesAny(AnyComplex)

(* f_sinh, f_cosh and f_tanh, which divides without a test; f_exp, f_log10 *)
(* and f_log, which take the logarithm of 0 as it comes.                   *)
Hyperbolic(a) == GivesAny(AnyComplex)
ExpLog(a) == GivesAny(AnyComplex)

(* f_int: the conversion of a double that is no int gives the least one.   *)
f_int(a) == Gives(Integer(IF a.re \in MinInt .. MaxInt THEN a.re ELSE MinInt))

f_abs(a) == IF IsInt(a) THEN Gives(Integer(Magnitude(a.re)))
            ELSE GivesAny({v \in AnyReal : v.re >= 0})
f_sgn(a) == Gives(Integer(Sign(a.re)))

(* The root of a negative real number has the real part 0.                 *)
f_sqrt(a) ==
  GivesAny(IF a.im = 0 /\ a.re < 0 THEN {v \in AnyComplex : v.re = 0 /\ v.im >= 0}
           ELSE AnyComplex)

(* f_floor and f_ceil: an INT stays; each part of a CMPLX becomes whole.   *)
Rounded(a) == IF IsInt(a) THEN Gives(a) ELSE GivesAny(AnyComplex)

(* The Bessel functions are programs of the machine's own operators.       *)
f_besj0(a) == Then(f_sin(a), LAMBDA s : f_div(s, a))
f_besy0(a) == Then(Then(f_cos(a), LAMBDA c : f_div(c, a)), f_uminus)

Divided(outcomes, a) == Then(outcomes, LAMBDA s : f_div(s, a))
DividedTwice(outcomes, a) ==
  Then(outcomes, LAMBDA s : Then(f_mult(a, a), LAMBDA q : f_div(s, q)))

f_besj1(a) == Then(DividedTwice(f_sin(a), a),
                   LAMBDA s : Then(Divided(f_cos(a), a), LAMBDA c : f_minus(s, c)))
f_besy1(a) == Then(Then(DividedTwice(f_cos(a), a),
                        LAMBDA c : Then(Divided(f_sin(a), a), LAMBDA s : f_plus(c, s))), f_uminus)

(* lrand48: a number that is not negative; f_srand pushes its seed back.   *)
f_rand == GivesAny({Integer(n) : n \in {d \in Doubles : d >= 0}})
f_srand(a) == Gives(a)

(***************************************************************************)
(* By name                                                                 *)
(***************************************************************************)

Unary(op, a) ==
  CASE op \in {"lnot", "bnot", "bool"} -> IntegerUnary(op, a)
    [] op = "uminus" -> f_uminus(a)       [] op = "factorial" -> f_factorial(a)
    [] op \in {"real", "imag", "arg", "conjg"} -> PartOf(op, a)
    [] op = "sin" -> f_sin(a)             [] op = "cos" -> f_cos(a)
    [] op = "tan" -> f_tan(a)             [] op \in {"asin", "acos"} -> ArcSine(a)
    [] op = "atan" -> f_atan(a)           [] op \in {"sinh", "cosh", "tanh"} -> Hyperbolic(a)
    [] op \in {"exp", "log10", "log"} -> ExpLog(a)
    [] op = "int" -> f_int(a)             [] op = "abs" -> f_abs(a)
    [] op = "sgn" -> f_sgn(a)             [] op = "sqrt" -> f_sqrt(a)
    [] op \in {"floor", "ceil"} -> Rounded(a)
    [] op = "besj0" -> f_besj0(a)         [] op = "besj1" -> f_besj1(a)
    [] op = "besy0" -> f_besy0(a)         [] op = "besy1" -> f_besy1(a)
    [] op = "srand" -> f_srand(a)

Binary(op, a, b) ==
  CASE op \in {"lor", "land", "bor", "band", "xor"} -> IntegerBinary(op, a, b)
    [] op \in {"gt", "lt", "ge", "le"} -> Ordered(op, a, b)
    [] op = "eq" -> f_eq(a, b)     [] op = "ne" -> f_ne(a, b)
    [] op = "plus" -> f_plus(a, b) [] op = "minus" -> f_minus(a, b)
    [] op = "mult" -> f_mult(a, b) [] op = "div" -> f_div(a, b)
    [] op = "mod" -> f_mod(a, b)   [] op = "power" -> f_power(a, b)

UnaryOps == {"lnot", "bnot", "bool", "uminus", "factorial", "real", "imag", "arg",
             "conjg", "sin", "cos", "tan", "asin", "acos", "atan", "sinh", "cosh",
             "tanh", "exp", "log10", "log", "int", "abs", "sgn", "sqrt", "floor",
             "ceil", "besj0", "besj1", "besy0", "besy1", "srand"}
BinaryOps == {"lor", "land", "bor", "band", "xor", "gt", "lt", "ge", "le", "eq", "ne",
              "plus", "minus", "mult", "div", "mod", "power"}

(* The cells above its operands that an operator uses for a moment.        *)
Above(op) == CASE op \in {"besj1", "besy1"} -> 2 [] op \in {"besj0", "besy0"} -> 1 [] OTHER -> 0
=============================================================================
