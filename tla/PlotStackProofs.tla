--------------------------- MODULE PlotStackProofs ---------------------------
(***************************************************************************)
(* Proofs about PlotStack, for every table of programs and functions that  *)
(* has a Certificate: a program that ends leaves its value and nothing     *)
(* else (NoStackWarning), nothing is popped that was not pushed, however   *)
(* deep a recursion is (OnlyOverflows), and the array is never left where  *)
(* the certificate counts its cells (InBounds).                            *)
(*                                                                         *)
(* The argument.  Each run of execute_at within the others has a base, the *)
(* height it was entered with after its arguments were popped, and the     *)
(* certificate's height for the place it is at; the base of the next one   *)
(* is one cell, the value it will push, below their sum (Stacked).         *)
(*                                                                         *)
(* Type correctness needs no certificate, only tables that the parser      *)
(* could have made (TypedTables).  It rests on the types of what every     *)
(* operator gives, so on the range of machine words and on the recursive   *)
(* functions that stand for the loops of factorial, power and the bits;    *)
(* that those have the values their definitions say is proved here, by     *)
(* well-founded induction over sets of naturals.                           *)
(*                                                                         *)
(* That the machine ends with what the expression means (MatchesMeaning)   *)
(* is proved for every table of expressions that has a denotation, one in  *)
(* which no function calls itself.  Safe(S) is the largest set of          *)
(* configurations from which a run that ends has its outcome in S, and     *)
(* RunsWell says that the program of an expression, wherever it is and     *)
(* whatever is below it on the stack, is safe if what follows it is, for   *)
(* each outcome the expression has.  It follows for an expression from its *)
(* parts and from the bodies it calls, which are below it in rank; of the  *)
(* cells that the functions keep their arguments in, it may change only    *)
(* those of functions below it (Keeping), so an expression still finds the *)
(* arguments it reads behind the calls in it.                              *)
(***************************************************************************)
EXTENDS PlotHeights, PlotExpr, SequenceTheorems, WellFoundedInduction, TLAPS

(***************************************************************************)
(* The invariant                                                           *)
(***************************************************************************)

Codes == {Programs[p] : p \in DOMAIN Programs} \cup
         {Functions[f].code : f \in {g \in DOMAIN Functions : Functions[g].defined}}
Frame == [code : Codes, pc : Nat]

IsSeq(s) == \E S : s \in Seq(S)

(* Frame i has the heights hs[i] of its code, and its place in it.         *)
Placed(fr, hs) ==
  \A i \in 1 .. Len(fr) :
    Balanced(fr[i].code, hs[i]) /\ fr[i].pc \in 1 .. Len(fr[i].code) + 1

(* base[i] is the height below the cells of frame i.                       *)
Stacked(fr, hs, base, n) ==
  /\ \A i \in 1 .. Len(fr) : base[i] \in Nat
  /\ base[1] = 0
  /\ \A i \in 1 .. Len(fr) - 1 : base[i + 1] = base[i] + hs[i][fr[i].pc] - 1
  /\ n = base[Len(fr)] + hs[Len(fr)][fr[Len(fr)].pc]

(* cells[i] cells above its base are enough for frame i, and are there.    *)
Covered(fr, hs, base, cells, need) ==
  \A i \in 1 .. Len(fr) :
    /\ Covers(fr[i].code, hs[i], need, cells[i])
    /\ cells[i] \in Nat /\ base[i] + cells[i] <= StackDepth

InFrames(P, need) ==
  status = "running" =>
    IF frames = <<>> THEN Len(stack) = 1
    ELSE \E hs, base, cells :
           /\ Placed(frames, hs) /\ Stacked(frames, hs, base, Len(stack))
           /\ program \in P => Covered(frames, hs, base, cells, need)

IInv(P, need) ==
  /\ program \in DOMAIN Programs
  /\ IsSeq(stack) /\ frames \in Seq(Frame)
  /\ NoStackWarning /\ OnlyOverflows
  /\ program \in P => InBounds
  /\ InFrames(P, need)

(***************************************************************************)
(* The stack                                                               *)
(***************************************************************************)

(* Pushing adds one to the length.                                         *)
LEMMA Pushed ==
  ASSUME NEW s, NEW v, IsSeq(s)
  PROVE  IsSeq(push(s, v)) /\ Len(push(s, v)) = Len(s) + 1 /\ Len(s) \in Nat
<1>1. PICK S : s \in Seq(S)
  BY DEF IsSeq
<1>2. s \in Seq(S \cup {v}) /\ v \in S \cup {v}
  BY <1>1, SeqMonotonic
<1>3. Append(s, v) \in Seq(S \cup {v}) /\ Len(Append(s, v)) = Len(s) + 1 /\ Len(s) \in Nat
  BY <1>2, AppendProperties, LenProperties
<1> QED
  BY <1>3 DEF IsSeq, push

(* Popping n of at least n cells takes n from the length.                  *)
LEMMA Popped ==
  ASSUME NEW s, NEW n \in Nat, IsSeq(s), Len(s) >= n
  PROVE  IsSeq(PopN(s, n)) /\ Len(PopN(s, n)) = Len(s) - n /\ Len(s) \in Nat
<1>1. PICK S : s \in Seq(S)
  BY DEF IsSeq
<1>2. Len(s) \in Nat /\ Len(s) - n \in 0 .. Len(s)
  BY <1>1, LenProperties
<1>3. SubSeq(s, 1, Len(s) - n) \in Seq(S) /\ Len(SubSeq(s, 1, Len(s) - n)) = Len(s) - n
  BY <1>1, <1>2, SubSeqProperties
<1> QED
  BY <1>2, <1>3 DEF IsSeq, PopN

LEMMA EmptyStack == IsSeq(<<>>) /\ Len(<<>>) = 0
  BY DEF IsSeq

LEMMA LenOfStack ==
  ASSUME NEW s, IsSeq(s) PROVE Len(s) \in Nat /\ (Len(s) = 0 <=> s = <<>>)
  BY EmptySeq, LenProperties DEF IsSeq

(***************************************************************************)
(* The operators                                                           *)
(***************************************************************************)

Complaints == {"", "boolean", "mod", "factorial", "trap", "variable"}

(* The outcomes in a set are records whose error is none of the caller's.  *)
IsOutcome(o) ==
  /\ o = [value |-> o.value, undefined |-> o.undefined, error |-> o.error]
  /\ o.error \in Complaints

AreOutcomes(S) == \A o \in S : IsOutcome(o)

LEMMA Outcomes ==
  ASSUME NEW v
  PROVE  /\ AreOutcomes(Gives(v)) /\ AreOutcomes(Undefined(v)) /\ AreOutcomes(GivesAny(v))
         /\ v \in Complaints => AreOutcomes(Fails(v))
<1>1. ASSUME NEW w, NEW o \in Gives(w) PROVE IsOutcome(o)
  <2>1. o = [value |-> w, undefined |-> FALSE, error |-> ""]
    BY DEF Gives
  <2> QED
    BY <2>1 DEF IsOutcome, Complaints
<1>2. ASSUME NEW o \in Undefined(v) PROVE IsOutcome(o)
  <2>1. o = [value |-> v, undefined |-> TRUE, error |-> ""]
    BY DEF Undefined
  <2> QED
    BY <2>1 DEF IsOutcome, Complaints
<1>3. ASSUME NEW o \in GivesAny(v) PROVE IsOutcome(o)
  <2>1. PICK w \in v : o \in Gives(w)
    BY DEF GivesAny
  <2> QED
    BY <1>1, <2>1
<1>4. ASSUME NEW o \in Fails(v), v \in Complaints PROVE IsOutcome(o)
  <2>1. o = [value |-> Integer(0), undefined |-> FALSE, error |-> v]
    BY DEF Fails
  <2> QED
    BY <1>4, <2>1 DEF IsOutcome, Complaints
<1> QED
  BY <1>1, <1>2, <1>3, <1>4 DEF AreOutcomes

(* One outcome of Then: s, or one of T with the flag of s.                 *)
After(s, T) ==
  IF s.error # "" THEN {s} ELSE {[q EXCEPT !.undefined = @ \/ s.undefined] : q \in T}

LEMMA AfterOutcome ==
  ASSUME NEW s, IsOutcome(s), NEW T, AreOutcomes(T)
  PROVE  AreOutcomes(After(s, T))
<1>1. ASSUME NEW q \in T, NEW x PROVE IsOutcome([q EXCEPT !.undefined = x])
  <2>1. PICK v, u, e : q = [value |-> v, undefined |-> u, error |-> e] /\ e \in Complaints
    BY DEF AreOutcomes, IsOutcome
  <2>2. [q EXCEPT !.undefined = x] = [value |-> v, undefined |-> x, error |-> e]
    BY <2>1
  <2> QED
    BY <2>1, <2>2 DEF IsOutcome
<1>2. ASSUME NEW o \in After(s, T)
      PROVE  o = s \/ \E q \in T : o = [q EXCEPT !.undefined = q.undefined \/ s.undefined]
  BY <1>2, Zenon DEF After
<1> QED
  BY <1>1, <1>2 DEF AreOutcomes

LEMMA SimpleOutcomes ==
  ASSUME NEW a, NEW b
  PROVE  /\ AreOutcomes(f_sin(a)) /\ AreOutcomes(f_cos(a)) /\ AreOutcomes(f_uminus(a))
         /\ AreOutcomes(f_plus(a, b)) /\ AreOutcomes(f_minus(a, b))
         /\ AreOutcomes(f_mult(a, b)) /\ AreOutcomes(f_div(a, b))
<1>1. "trap" \in Complaints
  BY DEF Complaints
<1> QED
  BY <1>1, Outcomes DEF f_sin, f_cos, f_uminus, f_plus, f_minus, f_mult, f_div

LEMMA DividedOutcomes ==
  ASSUME NEW S, NEW a, AreOutcomes(S)
  PROVE  AreOutcomes(Divided(S, a)) /\ AreOutcomes(DividedTwice(S, a))
<1>1. Divided(S, a) = UNION {After(s, f_div(s.value, a)) : s \in S}
  BY DEF Divided, Then, After
<1>2. DividedTwice(S, a) =
        UNION {After(s, UNION {After(q, f_div(s.value, q.value)) : q \in f_mult(a, a)}) : s \in S}
  BY DEF DividedTwice, Then, After
<1>3. ASSUME NEW s \in S
      PROVE  AreOutcomes(UNION {After(q, f_div(s.value, q.value)) : q \in f_mult(a, a)})
  BY SimpleOutcomes, AfterOutcome DEF AreOutcomes
<1>4. ASSUME NEW s \in S
      PROVE  /\ AreOutcomes(After(s, f_div(s.value, a)))
             /\ AreOutcomes(After(s, UNION {After(q, f_div(s.value, q.value)) :
                                              q \in f_mult(a, a)}))
  BY <1>3, SimpleOutcomes, AfterOutcome DEF AreOutcomes
<1> QED
  BY <1>1, <1>2, <1>4, Zenon DEF AreOutcomes

LEMMA NegatedOutcomes ==
  ASSUME NEW S, AreOutcomes(S) PROVE AreOutcomes(Then(S, f_uminus))
<1>1. Then(S, f_uminus) = UNION {After(s, f_uminus(s.value)) : s \in S}
  BY DEF Then, After
<1> QED
  BY <1>1, SimpleOutcomes, AfterOutcome DEF AreOutcomes

LEMMA BesselOutcomes ==
  ASSUME NEW a
  PROVE  /\ AreOutcomes(f_besj0(a)) /\ AreOutcomes(f_besj1(a))
         /\ AreOutcomes(f_besy0(a)) /\ AreOutcomes(f_besy1(a))
<1> DEFINE Sines == DividedTwice(f_sin(a), a)
           Cosines == DividedTwice(f_cos(a), a)
<1>1. /\ f_besj0(a) = Divided(f_sin(a), a)
      /\ f_besy0(a) = Then(Divided(f_cos(a), a), f_uminus)
  BY DEF f_besj0, f_besy0, Divided
<1>2. f_besj1(a) =
        UNION {After(s, UNION {After(c, f_minus(s.value, c.value)) : c \in Divided(f_cos(a), a)})
                 : s \in Sines}
  BY DEF f_besj1, Then, After
<1>3. f_besy1(a) =
        Then(UNION {After(s, UNION {After(c, f_plus(s.value, c.value)) :
                                      c \in Divided(f_sin(a), a)}) : s \in Cosines}, f_uminus)
  BY DEF f_besy1, Then, After
<1>4. /\ AreOutcomes(Sines) /\ AreOutcomes(Cosines)
      /\ AreOutcomes(Divided(f_cos(a), a)) /\ AreOutcomes(Divided(f_sin(a), a))
  BY SimpleOutcomes, DividedOutcomes
<1> HIDE DEF Sines, Cosines
<1>5. ASSUME NEW s
      PROVE  /\ AreOutcomes(UNION {After(c, f_minus(s.value, c.value)) :
                                     c \in Divided(f_cos(a), a)})
             /\ AreOutcomes(UNION {After(c, f_plus(s.value, c.value)) :
                                     c \in Divided(f_sin(a), a)})
  BY <1>4, SimpleOutcomes, AfterOutcome DEF AreOutcomes
<1>6. AreOutcomes(f_besj1(a))
  <2>1. ASSUME NEW s \in Sines
        PROVE  AreOutcomes(After(s, UNION {After(c, f_minus(s.value, c.value)) :
                                             c \in Divided(f_cos(a), a)}))
    BY <1>4, <1>5, AfterOutcome DEF AreOutcomes
  <2> QED
    BY <1>2, <2>1, Zenon DEF AreOutcomes
<1>7. AreOutcomes(f_besy1(a))
  <2>1. ASSUME NEW s \in Cosines
        PROVE  AreOutcomes(After(s, UNION {After(c, f_plus(s.value, c.value)) :
                                             c \in Divided(f_sin(a), a)}))
    BY <1>4, <1>5, AfterOutcome DEF AreOutcomes
  <2>2. AreOutcomes(UNION {After(s, UNION {After(c, f_plus(s.value, c.value)) :
                                       c \in Divided(f_sin(a), a)}) : s \in Cosines})
    BY <2>1, Zenon DEF AreOutcomes
  <2> QED
    BY <1>3, <2>2, NegatedOutcomes
<1> QED
  BY <1>1, <1>4, <1>6, <1>7, NegatedOutcomes

(* No operator ends with the caller's "stack not empty".                   *)
LEMMA UnaryOutcomes ==
  ASSUME NEW a, NEW op \in UnaryOps
  PROVE  AreOutcomes(Unary(op, a))
<1>1. "boolean" \in Complaints /\ "factorial" \in Complaints
  BY DEF Complaints
<1>2. /\ AreOutcomes(IntegerUnary(op, a)) /\ AreOutcomes(f_factorial(a))
      /\ AreOutcomes(f_tan(a)) /\ AreOutcomes(ArcSine(a)) /\ AreOutcomes(f_atan(a))
  BY <1>1, Outcomes DEF IntegerUnary, f_factorial, f_tan, ArcSine, f_atan, AreOutcomes
<1>3. /\ AreOutcomes(Hyperbolic(a)) /\ AreOutcomes(ExpLog(a)) /\ AreOutcomes(f_int(a))
      /\ AreOutcomes(f_abs(a)) /\ AreOutcomes(f_sgn(a)) /\ AreOutcomes(f_sqrt(a))
      /\ AreOutcomes(Rounded(a)) /\ AreOutcomes(f_srand(a))
  BY Outcomes DEF Hyperbolic, ExpLog, f_int, f_abs, f_sgn, f_sqrt, Rounded, f_srand
<1>4. op \in {"real", "imag", "arg", "conjg"} => AreOutcomes(PartOf(op, a))
  BY Outcomes DEF PartOf
<1> QED
  BY <1>2, <1>3, <1>4, SimpleOutcomes, BesselOutcomes DEF Unary, UnaryOps

LEMMA BinaryOutcomes ==
  ASSUME NEW a, NEW b, NEW op \in BinaryOps
  PROVE  AreOutcomes(Binary(op, a, b))
<1>1. "boolean" \in Complaints /\ "mod" \in Complaints /\ "trap" \in Complaints
  BY DEF Complaints
<1>2. /\ AreOutcomes(IntegerBinary(op, a, b)) /\ AreOutcomes(Ordered(op, a, b))
      /\ AreOutcomes(f_eq(a, b)) /\ AreOutcomes(f_ne(a, b))
  BY <1>1, Outcomes DEF IntegerBinary, Ordered, f_eq, f_ne
<1>3. AreOutcomes(f_mod(a, b)) /\ AreOutcomes(f_power(a, b))
  BY <1>1, Outcomes DEF f_mod, f_power
<1> QED
  BY <1>2, <1>3, SimpleOutcomes DEF Binary, BinaryOps

LEMMA SourceOutcomes ==
  ASSUME NEW ins, ins.op \in PushOps
  PROVE  AreOutcomes(Sources(ins))
<1>1. "variable" \in Complaints
  BY DEF Complaints
<1> QED
  BY <1>1, Outcomes DEF PushOps, Sources, f_push, f_pushd, f_rand

(***************************************************************************)
(* The frames                                                              *)
(***************************************************************************)

Last(fr) == fr[Len(fr)]
Moved(fr, t) == [fr EXCEPT ![Len(fr)].pc = t]
Called(fr, c) == Append(fr, [code |-> c, pc |-> 1])

(* The frame on top goes on to place t of its code.                        *)
LEMMA Advanced ==
  ASSUME NEW fr \in Seq(Frame), fr # <<>>, NEW hs, NEW base, NEW n,
         Placed(fr, hs), Stacked(fr, hs, base, n),
         NEW t \in 1 .. Len(Last(fr).code) + 1
  PROVE  /\ Moved(fr, t) \in Seq(Frame) /\ Moved(fr, t) # <<>>
         /\ Placed(Moved(fr, t), hs)
         /\ Stacked(Moved(fr, t), hs, base, base[Len(fr)] + hs[Len(fr)][t])
         /\ \A cells, need : Covered(fr, hs, base, cells, need) =>
                             Covered(Moved(fr, t), hs, base, cells, need)
<1>0. PICK to : to = Moved(fr, t) /\ to = [fr EXCEPT ![Len(fr)].pc = t]
  BY DEF Moved
<1>1. Len(fr) \in Nat \ {0} /\ \A i \in 1 .. Len(fr) : fr[i] \in Frame
  BY EmptySeq, LenProperties, ElementOfSeq
<1>2. Len(Last(fr).code) \in Nat /\ Len(fr) \in 1 .. Len(fr)
  BY <1>1 DEF Placed, Balanced, Last
<1>3. [fr[Len(fr)] EXCEPT !.pc = t] = [code |-> Last(fr).code, pc |-> t]
  BY <1>1, <1>2 DEF Frame, Last
<1>4. to = [fr EXCEPT ![Len(fr)] = [code |-> Last(fr).code, pc |-> t]]
  BY <1>0, <1>3
<1>5. [code |-> Last(fr).code, pc |-> t] \in Frame
  BY <1>1, <1>2 DEF Frame, Last
<1>6. /\ to \in Seq(Frame) /\ Len(to) = Len(fr)
      /\ to[Len(fr)] = [code |-> Last(fr).code, pc |-> t]
      /\ \A i \in 1 .. Len(fr) : i # Len(fr) => to[i] = fr[i]
  BY <1>1, <1>2, <1>4, <1>5, ExceptSeq
<1>7. to # <<>>
  BY <1>1, <1>6, EmptySeq
<1>8. ASSUME NEW i \in 1 .. Len(fr) PROVE to[i].code = fr[i].code
  <2>1. CASE i = Len(fr)
    BY <1>6, <2>1 DEF Last
  <2>2. CASE i # Len(fr)
    BY <1>6, <2>2
  <2> QED
    BY <2>1, <2>2
<1>9. Placed(to, hs)
  BY <1>1, <1>6, <1>8 DEF Placed, Last
<1>10. Stacked(to, hs, base, base[Len(fr)] + hs[Len(fr)][t])
  BY <1>1, <1>6 DEF Stacked
<1>11. \A cells, need : Covered(fr, hs, base, cells, need) =>
                        Covered(to, hs, base, cells, need)
  BY <1>1, <1>6, <1>8 DEF Covered
<1> QED
  BY <1>0, <1>6, <1>7, <1>9, <1>10, <1>11, ZenonT(60)

(* A function is entered: its frame begins below the value to come.        *)
LEMMA Entered ==
  ASSUME NEW fr \in Seq(Frame), fr # <<>>, NEW hs, NEW base, NEW k \in Nat,
         Placed(fr, hs), Stacked(fr, hs, base, k + 1),
         NEW c \in Codes, NEW h, Balanced(c, h)
  PROVE  /\ Called(fr, c) \in Seq(Frame) /\ Called(fr, c) # <<>>
         /\ \E hs2, base2 :
              /\ Placed(Called(fr, c), hs2) /\ Stacked(Called(fr, c), hs2, base2, k)
              /\ \A cells, need, m :
                   Covered(fr, hs, base, cells, need) /\ Covers(c, h, need, m)
                     /\ m \in Nat /\ k + m <= StackDepth
                   => \E cells2 : Covered(Called(fr, c), hs2, base2, cells2, need)
<1>0. PICK to : to = Called(fr, c) /\ to = Append(fr, [code |-> c, pc |-> 1])
  BY DEF Called
<1>1. PICK n \in Nat \ {0} : n = Len(fr)
  BY EmptySeq, LenProperties
<1> DEFINE New == [code |-> c, pc |-> 1]
           hs2 == [i \in 1 .. n + 1 |-> IF i <= n THEN hs[i] ELSE h]
           base2 == [i \in 1 .. n + 1 |-> IF i <= n THEN base[i] ELSE k]
<1>2. New \in Frame
  BY DEF Frame
<1>3. /\ to \in Seq(Frame) /\ Len(to) = n + 1 /\ to[n + 1] = New
      /\ \A i \in 1 .. n : to[i] = fr[i]
  BY <1>0, <1>1, <1>2, AppendProperties
<1>4. to # <<>>
  BY <1>1, <1>3, EmptySeq
<1>5. /\ \A i \in 1 .. n : hs2[i] = hs[i] /\ base2[i] = base[i]
      /\ hs2[n + 1] = h /\ base2[n + 1] = k
  BY <1>1
<1> HIDE DEF hs2, base2
<1>6. Placed(to, hs2)
  <2>1. Len(c) \in Nat /\ New.code = c /\ New.pc = 1
    BY DEF Balanced
  <2>2. ASSUME NEW i \in 1 .. n + 1
        PROVE  Balanced(to[i].code, hs2[i]) /\ to[i].pc \in 1 .. Len(to[i].code) + 1
    <3>1. CASE i \in 1 .. n
      BY <1>1, <1>3, <1>5, <3>1 DEF Placed
    <3>2. CASE i = n + 1
      BY <1>3, <1>5, <2>1, <3>2
    <3> QED
      BY <1>1, <3>1, <3>2
  <2> QED
    BY <1>3, <2>2 DEF Placed
<1>7. Stacked(to, hs2, base2, k)
  <2>1. /\ \A i \in 1 .. n : base[i] \in Nat
        /\ base[1] = 0
        /\ \A i \in 1 .. n - 1 : base[i + 1] = base[i] + hs[i][fr[i].pc] - 1
        /\ k + 1 = base[n] + hs[n][fr[n].pc]
    BY <1>1 DEF Stacked
  <2>2. h[1] = 0 /\ New.pc = 1
    BY DEF Balanced
  <2>3. \A i \in 1 .. n + 1 : base2[i] \in Nat
    BY <1>1, <1>5, <2>1
  <2>4. PICK e \in Nat : e = hs[n][fr[n].pc]
    BY <1>1, SMTT(30) DEF Placed, Balanced
  <2>5. ASSUME NEW i \in 1 .. n
        PROVE  base2[i + 1] = base2[i] + hs2[i][to[i].pc] - 1
    <3>1. CASE i = n
      <4>1. hs2[n][to[n].pc] = e /\ base2[n] = base[n] /\ base[n] \in Nat
        BY <1>3, <1>5, <2>1, <2>4
      <4>2. PICK b \in Nat : b = base[n]
        BY <4>1
      <4>3. k + 1 = b + e
        BY <2>1, <2>4, <4>2
      <4>4. k = b + e - 1
        BY <4>3
      <4> QED
        BY <1>5, <3>1, <4>1, <4>2, <4>4
    <3>2. CASE i \in 1 .. n - 1
      <4>1. i + 1 \in 1 .. n /\ hs2[i][to[i].pc] = hs[i][fr[i].pc]
        BY <1>3, <1>5, <3>2
      <4> QED
        BY <1>5, <2>1, <3>2, <4>1
    <3> QED
      BY <1>1, <3>1, <3>2
  <2>6. base2[n + 1] + hs2[n + 1][to[n + 1].pc] = k
    BY <1>3, <1>5, <2>2
  <2> QED
    BY <1>1, <1>3, <1>5, <2>1, <2>3, <2>5, <2>6 DEF Stacked
<1>8. ASSUME NEW cells, NEW need, NEW m \in Nat, Covered(fr, hs, base, cells, need),
             Covers(c, h, need, m), k + m <= StackDepth
      PROVE  \E cells2 : Covered(to, hs2, base2, cells2, need)
  <2> DEFINE cells2 == [i \in 1 .. n + 1 |-> IF i <= n THEN cells[i] ELSE m]
  <2>1. cells2[n + 1] = m /\ \A i \in 1 .. n : cells2[i] = cells[i]
    BY <1>1
  <2> HIDE DEF cells2
  <2>2. ASSUME NEW i \in 1 .. n + 1
        PROVE  /\ Covers(to[i].code, hs2[i], need, cells2[i])
               /\ cells2[i] \in Nat /\ base2[i] + cells2[i] <= StackDepth
    <3>1. CASE i \in 1 .. n
      BY <1>1, <1>3, <1>5, <1>8, <2>1, <3>1 DEF Covered
    <3>2. CASE i = n + 1
      BY <1>3, <1>5, <1>8, <2>1, <3>2
    <3> QED
      BY <1>1, <3>1, <3>2
  <2> QED
    BY <1>3, <2>2 DEF Covered
<1> QED
  BY <1>0, <1>3, <1>4, <1>6, <1>7, <1>8

(* A frame at the end of its code is left: its value is the one that the   *)
(* frame below counts on.                                                  *)
LEMMA Left ==
  ASSUME NEW fr \in Seq(Frame), fr # <<>>, NEW hs, NEW base, NEW n,
         Placed(fr, hs), Stacked(fr, hs, base, n),
         Last(fr).pc > Len(Last(fr).code)
  PROVE  /\ PopN(fr, 1) \in Seq(Frame)
         /\ IF PopN(fr, 1) = <<>> THEN n = 1
            ELSE Placed(PopN(fr, 1), hs) /\ Stacked(PopN(fr, 1), hs, base, n)
         /\ \A cells, need : Covered(fr, hs, base, cells, need) =>
                             Covered(PopN(fr, 1), hs, base, cells, need)
<1>0. PICK to : to = PopN(fr, 1)
  OBVIOUS
<1>1. PICK m \in Nat \ {0} : m = Len(fr)
  BY EmptySeq, LenProperties
<1>2. /\ to \in Seq(Frame) /\ Len(to) = m - 1
      /\ \A i \in 1 .. m - 1 : to[i] = fr[i]
  <2>1. /\ m - 1 \in Int /\ 1 .. m - 1 \subseteq 1 .. m
        /\ (IF 1 <= m - 1 THEN (m - 1) - 1 + 1 ELSE 0) = m - 1 /\ (m - 1) - 1 + 1 = m - 1
        /\ \A i \in 1 .. m - 1 : 1 + i - 1 = i
    OBVIOUS
  <2>2. \A i \in 1 .. m - 1 : fr[i] \in Frame
    BY <1>1, <2>1, ElementOfSeq
  <2> DEFINE less == m - 1
  <2>3. to = SubSeq(fr, 1, less)
    BY <1>0, <1>1 DEF PopN
  <2> HIDE DEF less
  <2>4. /\ to \in Seq(Frame) /\ Len(to) = IF 1 <= less THEN less - 1 + 1 ELSE 0
        /\ \A i \in 1 .. less - 1 + 1 : to[i] = fr[1 + i - 1]
    BY <2>1, <2>2, <2>3, SubSeqProperties DEF less
  <2> QED
    BY <2>1, <2>4 DEF less
<1>3. Last(fr) = fr[m] /\ hs[m][Last(fr).pc] = 1
  <2>1. Last(fr) = fr[m] /\ m \in 1 .. m
    BY <1>1 DEF Last
  <2>2. PICK l \in Nat : l = Len(Last(fr).code)
    BY <1>1, <2>1 DEF Placed, Balanced
  <2>3. Last(fr).pc \in 1 .. l + 1 /\ Last(fr).pc > l /\ hs[m][l + 1] = 1
    BY <1>1, <2>1, <2>2 DEF Placed, Balanced
  <2> QED
    BY <2>1, <2>3
<1>4. /\ \A i \in 1 .. m : base[i] \in Nat
      /\ base[1] = 0
      /\ \A i \in 1 .. m - 1 : base[i + 1] = base[i] + hs[i][fr[i].pc] - 1
      /\ n = base[m] + 1
  BY <1>1, <1>3 DEF Stacked
<1>5. to = <<>> <=> m = 1
  BY <1>1, <1>2, EmptySeq
<1>6. Placed(to, hs)
  BY <1>1, <1>2 DEF Placed
<1>7. m # 1 => Stacked(to, hs, base, n)
  <2>1. SUFFICES ASSUME m # 1 PROVE Stacked(to, hs, base, n)
    OBVIOUS
  <2>2. m - 1 \in 1 .. m - 1 /\ (m - 1) + 1 = m
    BY <1>1, <2>1
  <2>3. m - 1 \in 1 .. m
    BY <2>1
  <2>4. PICK e \in Nat : e = hs[m - 1][fr[m - 1].pc]
    BY <1>1, <2>3 DEF Placed, Balanced
  <2>5. base[m] = base[m - 1] + e - 1 /\ base[m - 1] \in Nat
    BY <1>4, <2>2, <2>3, <2>4
  <2>6. e = hs[m - 1][to[m - 1].pc]
    BY <1>2, <2>2, <2>4
  <2>7. n = base[m - 1] + hs[m - 1][to[m - 1].pc]
    BY <1>4, <2>5, <2>6, SMTT(30)
  <2> QED
    <3>1. \A i \in 1 .. m - 1 : base[i] \in Nat
      BY <1>4
    <3>2. ASSUME NEW i \in 1 .. (m - 1) - 1
          PROVE  base[i + 1] = base[i] + hs[i][to[i].pc] - 1
      <4>1. i \in 1 .. m - 1
        OBVIOUS
      <4> QED
        BY <1>2, <1>4, <4>1
    <3> QED
      BY <1>2, <1>4, <2>7, <3>1, <3>2 DEF Stacked
<1>8. ASSUME NEW cells, NEW need, Covered(fr, hs, base, cells, need)
      PROVE  Covered(to, hs, base, cells, need)
  BY <1>1, <1>2, <1>8 DEF Covered
<1> QED
  BY <1>0, <1>2, <1>4, <1>5, <1>6, <1>7, <1>8

(***************************************************************************)
(* The place a program is at                                               *)
(***************************************************************************)

(* An instruction is of one kind.                                          *)
LEMMA Flows ==
  ASSUME NEW code, NEW h, NEW i, Balances(code, h, i)
  PROVE  /\ code[i].op \in PushOps => h[i + 1] = h[i] + 1
         /\ code[i].op \in UnaryOps => h[i] >= 1 /\ h[i + 1] = h[i] + 0
         /\ code[i].op \in BinaryOps => h[i] >= 2 /\ h[i + 1] = h[i] + (-1)
         /\ code[i].op = "call" =>
              /\ code[i].arg \in DOMAIN Functions
              /\ Functions[code[i].arg].defined =>
                   /\ PopsOf(code[i].arg) \in 0 .. h[i]
                   /\ h[i + 1] = h[i] + (1 - PopsOf(code[i].arg))
         /\ code[i].op \in {"jump", "jumpz", "jumpnz"} =>
              /\ i + code[i].arg \in 1 .. Len(code) + 1
              /\ h[i + code[i].arg] = h[i] + 0
         /\ code[i].op = "jtern" =>
              /\ i + code[i].arg \in 1 .. Len(code) + 1
              /\ h[i + code[i].arg] = h[i] + (-1)
         /\ code[i].op \in {"jumpz", "jumpnz", "jtern"} =>
              h[i] >= 1 /\ h[i + 1] = h[i] + (-1)
  BY DEF Balances, PushOps, UnaryOps, BinaryOps

LEMMA AboveTops ==
  ASSUME NEW ins
  PROVE  /\ AboveTop(ins) \in Nat
         /\ ins.op \in PushOps => AboveTop(ins) = 1
         /\ ins.op \in UnaryOps => AboveTop(ins) = Above(ins.op)
         /\ ins.op \in BinaryOps \cup {"call", "jumpz", "jumpnz", "jtern"} => AboveTop(ins) = 0
<1>1. Above(ins.op) \in Nat
  BY DEF Above
<1> QED
  BY <1>1 DEF AboveTop, PushOps, UnaryOps, BinaryOps

(* The frame on top has the base b and is at the height e.                 *)
Here(P, need, hs, base, cells, b, e) ==
  /\ frames \in Seq(Frame) /\ frames # <<>>
  /\ Placed(frames, hs) /\ Stacked(frames, hs, base, Len(stack))
  /\ program \in P => Covered(frames, hs, base, cells, need)
  /\ b = base[Len(frames)] /\ e = hs[Len(frames)][Top.pc] /\ Len(stack) = b + e
  /\ Len(Top.code) \in Nat /\ Top.pc \in 1 .. Len(Top.code)
  /\ Balances(Top.code, hs[Len(frames)], Top.pc)
  /\ hs[Len(frames)] \in [1 .. Len(Top.code) + 1 -> Nat]
  /\ program \in P => b + e + AboveTop(Instruction) <= StackDepth

LEMMA AtInstruction ==
  ASSUME NEW P, NEW need, IInv(P, need), Fetched
  PROVE  \E hs, base, cells : \E b, e \in Nat : Here(P, need, hs, base, cells, b, e)
<1>1. status = "running" /\ frames # <<>> /\ Top.pc <= Len(Top.code) /\ frames \in Seq(Frame)
  BY DEF Fetched, IInv
<1>2. PICK hs, base, cells :
        /\ Placed(frames, hs) /\ Stacked(frames, hs, base, Len(stack))
        /\ program \in P => Covered(frames, hs, base, cells, need)
  BY <1>1 DEF IInv, InFrames
<1>3. PICK n \in Nat \ {0} : n = Len(frames)
  BY <1>1, EmptySeq, LenProperties
<1>4. Balanced(Top.code, hs[n]) /\ Top.pc \in 1 .. Len(Top.code) + 1
  BY <1>2, <1>3 DEF Placed, Top
<1>5. PICK l \in Nat : l = Len(Top.code)
  BY <1>4 DEF Balanced
<1>6. Top.pc \in 1 .. l
  BY <1>1, <1>4, <1>5
<1>7. hs[n] \in [1 .. l + 1 -> Nat] /\ Balances(Top.code, hs[n], Top.pc)
  BY <1>4, <1>5, <1>6 DEF Balanced
<1>8. PICK e \in Nat : e = hs[n][Top.pc]
  BY <1>6, <1>7
<1>9. PICK b \in Nat : b = base[n] /\ Len(stack) = b + e
  BY <1>2, <1>3, <1>8 DEF Stacked, Top
<1>10. program \in P => b + e + AboveTop(Instruction) <= StackDepth
  <2>1. SUFFICES ASSUME program \in P PROVE b + e + AboveTop(Instruction) <= StackDepth
    OBVIOUS
  <2>2. Covers(Top.code, hs[n], need, cells[n]) /\ cells[n] \in Nat /\ b + cells[n] <= StackDepth
    BY <1>2, <1>3, <1>9, <2>1 DEF Covered, Top
  <2>3. e + AboveTop(Instruction) <= cells[n]
    BY <1>5, <1>6, <1>8, <2>2 DEF Covers, Instruction
  <2>4. AboveTop(Instruction) \in Nat /\ StackDepth \in Nat
    BY AboveTops, StackAssumption
  <2> QED
    BY <2>2, <2>3, <2>4
<1>11. Here(P, need, hs, base, cells, b, e)
  BY <1>1, <1>2, <1>3, <1>5, <1>6, <1>7, <1>8, <1>9, <1>10 DEF Here
<1> QED
  BY <1>11

(* The same as Flows, of the instruction the program is at.                *)
LEMMA FlowsHere ==
  ASSUME NEW P, NEW need, NEW hs, NEW base, NEW cells, NEW b \in Nat, NEW e \in Nat,
         Here(P, need, hs, base, cells, b, e)
  PROVE  /\ Instruction.op \in PushOps => hs[Len(frames)][Top.pc + 1] = e + 1
         /\ Instruction.op \in UnaryOps => e >= 1 /\ hs[Len(frames)][Top.pc + 1] = e
         /\ Instruction.op \in BinaryOps => e >= 2 /\ hs[Len(frames)][Top.pc + 1] = e - 1
         /\ Instruction.op = "call" =>
              /\ Instruction.arg \in DOMAIN Functions
              /\ Functions[Instruction.arg].defined =>
                   /\ PopsOf(Instruction.arg) \in 0 .. e
                   /\ hs[Len(frames)][Top.pc + 1] = e - PopsOf(Instruction.arg) + 1
         /\ Instruction.op \in {"jump", "jumpz", "jumpnz", "jtern"} =>
              /\ Top.pc + Instruction.arg \in 1 .. Len(Top.code) + 1
              /\ hs[Len(frames)][Top.pc + Instruction.arg] =
                   IF Instruction.op = "jtern" THEN e - 1 ELSE e
         /\ Instruction.op \in {"jumpz", "jumpnz", "jtern"} =>
              e >= 1 /\ hs[Len(frames)][Top.pc + 1] = e - 1
<1>1. PICK code, h, i : code = Top.code /\ h = hs[Len(frames)] /\ i = Top.pc
  OBVIOUS
<1>2. Balances(code, h, i) /\ h[i] = e /\ Instruction = code[i]
  BY <1>1 DEF Here, Instruction
<1>3. \A k \in Int : e + (1 - k) = e - k + 1
  OBVIOUS
<1>4. PICK ins : ins = code[i]
  OBVIOUS
<1>5. /\ ins.op \in PushOps => h[i + 1] = e + 1
      /\ ins.op \in UnaryOps => e >= 1 /\ h[i + 1] = e
      /\ ins.op \in BinaryOps => e >= 2 /\ h[i + 1] = e - 1
  BY <1>2, <1>4, Flows
<1>6. ins.op = "call" =>
        /\ ins.arg \in DOMAIN Functions
        /\ Functions[ins.arg].defined =>
             PopsOf(ins.arg) \in 0 .. e /\ h[i + 1] = e - PopsOf(ins.arg) + 1
  BY <1>2, <1>3, <1>4, Flows
<1>7. ins.op \in {"jump", "jumpz", "jumpnz", "jtern"} =>
        /\ i + ins.arg \in 1 .. Len(code) + 1
        /\ h[i + ins.arg] = IF ins.op = "jtern" THEN e - 1 ELSE e
  BY <1>2, <1>4, Flows
<1>8. ins.op \in {"jumpz", "jumpnz", "jtern"} => e >= 1 /\ h[i + 1] = e - 1
  BY <1>2, <1>4, Flows
<1> QED
  BY <1>1, <1>2, <1>4, <1>5, <1>6, <1>7, <1>8

(***************************************************************************)
(* What an instruction may do                                              *)
(***************************************************************************)

(* It goes on at place t, where the certificate has the height it leaves.  *)
LEMMA GoesOn ==
  ASSUME NEW P, NEW need, NEW hs, NEW base, NEW cells, NEW b \in Nat, NEW e \in Nat,
         IInv(P, need), Fetched, Here(P, need, hs, base, cells, b, e),
         NEW t \in 1 .. Len(Top.code) + 1,
         frames' = Moved(frames, t),
         IsSeq(stack'), Len(stack') = b + hs[Len(frames)][t],
         UNCHANGED <<program, status, outcome>>
  PROVE  IInv(P, need)'
<1>1. /\ frames' \in Seq(Frame) /\ frames' # <<>> /\ Placed(frames', hs)
      /\ Stacked(frames', hs, base, b + hs[Len(frames)][t])
      /\ program \in P => Covered(frames', hs, base, cells, need)
  <2>1. /\ frames \in Seq(Frame) /\ frames # <<>>
        /\ Placed(frames, hs) /\ Stacked(frames, hs, base, Len(stack))
        /\ program \in P => Covered(frames, hs, base, cells, need)
        /\ b = base[Len(frames)]
    BY DEF Here
  <2>2. t \in 1 .. Len(Last(frames).code) + 1
    BY DEF Top, Last
  <2>3. /\ frames' \in Seq(Frame) /\ frames' # <<>> /\ Placed(frames', hs)
        /\ Stacked(frames', hs, base, base[Len(frames)] + hs[Len(frames)][t])
        /\ \A c, nd : Covered(frames, hs, base, c, nd) => Covered(frames', hs, base, c, nd)
    BY <2>1, <2>2, Advanced
  <2>4. Stacked(frames', hs, base, b + hs[Len(frames)][t])
    BY <2>1, <2>3
  <2>5. program \in P => Covered(frames', hs, base, cells, need)
    BY <2>1, <2>3
  <2> QED
    BY <2>3, <2>4, <2>5
<1>2. InFrames(P, need)'
  BY <1>1 DEF InFrames
<1>3. status = "running" /\ program \in DOMAIN Programs /\ NoStackWarning
  BY DEF Fetched, IInv
<1> QED
  BY <1>1, <1>2, <1>3 DEF IInv, NoStackWarning, OnlyOverflows, InBounds

(* It uses a cell above the array, where nobody counted the cells.         *)
LEMMA Overflows ==
  ASSUME NEW P, NEW need, NEW hs, NEW base, NEW cells, NEW b \in Nat, NEW e \in Nat,
         IInv(P, need), Fetched, Here(P, need, hs, base, cells, b, e),
         NEW pops \in 0 .. e, Corrupts(pops, AboveTop(Instruction))
  PROVE  IInv(P, need)'
<1>1. UNCHANGED <<stack, frames, program, outcome>> /\ status' = "corrupt"
  BY DEF Corrupts
<1>2. /\ AboveTop(Instruction) \in Nat /\ StackDepth \in Nat
  BY AboveTops, StackAssumption
<1>3. Len(stack) = b + e /\ (program \in P => b + e + AboveTop(Instruction) <= StackDepth)
  BY DEF Here
<1>4. ~ (Len(stack) >= pops /\ Len(stack) + AboveTop(Instruction) <= StackDepth)
  BY DEF Corrupts, Fits
<1>5. Len(stack) + AboveTop(Instruction) > StackDepth /\ program \notin P
  BY <1>2, <1>3, <1>4
<1>6. frames # <<>> /\ Top.pc <= Len(Top.code)
  BY DEF Fetched
<1>7. /\ program \in DOMAIN Programs /\ IsSeq(stack) /\ frames \in Seq(Frame)
      /\ NoStackWarning
  BY DEF IInv
<1>8. OnlyOverflows'
  BY <1>1, <1>5, <1>6 DEF OnlyOverflows, Top, Instruction
<1>9. InFrames(P, need)'
  BY <1>1 DEF InFrames
<1> QED
  BY <1>1, <1>5, <1>7, <1>8, <1>9 DEF IInv, NoStackWarning

(* It ends the program with an error of its own.                           *)
LEMMA Aborts ==
  ASSUME NEW P, NEW need, IInv(P, need), NEW text, text # "warning", IntError(text),
         IsSeq(stack')
  PROVE  IInv(P, need)'
<1>1. /\ status' = "error" /\ frames' = <<>> /\ program' = program
      /\ outcome' = [NoOutcome EXCEPT !.undefined = undefined, !.error = text]
  BY DEF IntError
<1>2. outcome'.error = text
  BY <1>1 DEF NoOutcome
<1>3. program \in DOMAIN Programs /\ frames' \in Seq(Frame)
  BY <1>1 DEF IInv
<1> QED
  BY <1>1, <1>2, <1>3 DEF IInv, NoStackWarning, OnlyOverflows, InBounds, InFrames

(* It pops its operands and pushes a value, or ends with an error.         *)
LEMMA Computes ==
  ASSUME NEW P, NEW need, NEW hs, NEW base, NEW cells, NEW b \in Nat, NEW e \in Nat,
         IInv(P, need), Fetched, Here(P, need, hs, base, cells, b, e),
         NEW pops \in 0 .. e, hs[Len(frames)][Top.pc + 1] = e - pops + 1,
         PoppedByError(Instruction.op, pops) \in 0 .. pops,
         NEW o, IsOutcome(o), Pushes(pops, o)
  PROVE  IInv(P, need)'
<1>1. IsSeq(stack) /\ Len(stack) = b + e /\ Len(stack) >= pops
  <2>1. IsSeq(stack) /\ Len(stack) = b + e
    BY DEF IInv, Here
  <2>2. b + e >= pops
    OBVIOUS
  <2> QED
    BY <2>1, <2>2
<1>2. o.error # "warning"
  BY DEF IsOutcome, Complaints
<1>3. CASE o.error = ""
  <2>1. /\ stack' = push(PopN(stack, pops), o.value)
        /\ Advance(1) /\ UNCHANGED <<program, status, outcome>>
    BY <1>3 DEF Pushes
  <2>2. IsSeq(PopN(stack, pops)) /\ Len(PopN(stack, pops)) = b + e - pops
    BY <1>1, Popped
  <2>3. IsSeq(stack') /\ Len(stack') = b + e - pops + 1
    BY <2>1, <2>2, Pushed
  <2>4. PICK l \in Nat : l = Len(Top.code) /\ Top.pc \in 1 .. l
    BY DEF Here
  <2>5. Top.pc + 1 \in 1 .. Len(Top.code) + 1
    BY <2>4
  <2>6. frames' = Moved(frames, Top.pc + 1)
    BY <2>1 DEF Advance, Top, Moved
  <2>7. Len(stack') = b + hs[Len(frames)][Top.pc + 1]
    BY <2>3
  <2> QED
    BY <2>1, <2>3, <2>5, <2>6, <2>7, GoesOn
<1>4. CASE o.error # ""
  <2>1. /\ stack' = PopN(stack, PoppedByError(Instruction.op, pops))
        /\ IntError(o.error)
    BY <1>4 DEF Pushes
  <2>2. IsSeq(stack')
    BY <1>1, <2>1, Popped
  <2> QED
    BY <1>2, <2>1, <2>2, Aborts
<1> QED
  BY <1>3, <1>4

(***************************************************************************)
(* The actions                                                             *)
(***************************************************************************)

LEMMA PushKeeps ==
  ASSUME NEW P, NEW need, IInv(P, need), PushInstruction
  PROVE  IInv(P, need)'
<1>1. Fetched /\ Instruction.op \in PushOps
  BY DEF PushInstruction, PushOps
<1>2. PICK hs, base, cells : \E b, e \in Nat : Here(P, need, hs, base, cells, b, e)
  BY <1>1, AtInstruction
<1>3. PICK b \in Nat, e \in Nat : Here(P, need, hs, base, cells, b, e)
  BY <1>2
<1>4. 0 \in 0 .. e /\ hs[Len(frames)][Top.pc + 1] = e - 0 + 1
  BY <1>1, <1>3, FlowsHere
<1>5. PoppedByError(Instruction.op, 0) \in 0 .. 0
  BY <1>1 DEF PoppedByError, PushOps
<1>6. CASE Corrupts(0, 1)
  BY <1>1, <1>3, <1>4, <1>6, AboveTops, Overflows
<1>7. CASE \E o \in Sources(Instruction) : Pushes(0, o)
  BY <1>1, <1>3, <1>4, <1>5, <1>7, SourceOutcomes, Computes DEF AreOutcomes
<1> QED
  BY <1>6, <1>7 DEF PushInstruction

LEMMA UnaryKeeps ==
  ASSUME NEW P, NEW need, IInv(P, need), UnaryInstruction
  PROVE  IInv(P, need)'
<1>1. Fetched /\ Instruction.op \in UnaryOps
  BY DEF UnaryInstruction
<1>2. PICK hs, base, cells : \E b, e \in Nat : Here(P, need, hs, base, cells, b, e)
  BY <1>1, AtInstruction
<1>3. PICK b \in Nat, e \in Nat : Here(P, need, hs, base, cells, b, e)
  BY <1>2
<1>4. 1 \in 0 .. e /\ hs[Len(frames)][Top.pc + 1] = e - 1 + 1
  BY <1>1, <1>3, FlowsHere
<1>5. PoppedByError(Instruction.op, 1) \in 0 .. 1
  BY DEF PoppedByError
<1>6. CASE Corrupts(1, Above(Instruction.op))
  BY <1>1, <1>3, <1>4, <1>6, AboveTops, Overflows
<1>7. CASE \E o \in Unary(Instruction.op, TopAt(stack, 0)) : Pushes(1, o)
  BY <1>1, <1>3, <1>4, <1>5, <1>7, UnaryOutcomes, Computes DEF AreOutcomes
<1> QED
  BY <1>6, <1>7 DEF UnaryInstruction

LEMMA BinaryKeeps ==
  ASSUME NEW P, NEW need, IInv(P, need), BinaryInstruction
  PROVE  IInv(P, need)'
<1>1. Fetched /\ Instruction.op \in BinaryOps
  BY DEF BinaryInstruction
<1>2. PICK hs, base, cells : \E b, e \in Nat : Here(P, need, hs, base, cells, b, e)
  BY <1>1, AtInstruction
<1>3. PICK b \in Nat, e \in Nat : Here(P, need, hs, base, cells, b, e)
  BY <1>2
<1>4. 2 \in 0 .. e /\ hs[Len(frames)][Top.pc + 1] = e - 2 + 1
  BY <1>1, <1>3, FlowsHere
<1>5. PoppedByError(Instruction.op, 2) \in 0 .. 2
  BY DEF PoppedByError
<1>6. CASE Corrupts(2, 0)
  BY <1>1, <1>3, <1>4, <1>6, AboveTops, Overflows
<1>7. CASE \E o \in Binary(Instruction.op, TopAt(stack, 1), TopAt(stack, 0)) : Pushes(2, o)
  BY <1>1, <1>3, <1>4, <1>5, <1>7, BinaryOutcomes, Computes DEF AreOutcomes
<1> QED
  BY <1>6, <1>7 DEF BinaryInstruction

LEMMA JumpKeeps ==
  ASSUME NEW P, NEW need, IInv(P, need), f_jump
  PROVE  IInv(P, need)'
<1>1. /\ Fetched /\ Instruction.op = "jump" /\ Advance(Instruction.arg)
      /\ UNCHANGED <<stack, program, status, outcome>>
  BY DEF f_jump
<1>2. PICK hs, base, cells : \E b, e \in Nat : Here(P, need, hs, base, cells, b, e)
  BY <1>1, AtInstruction
<1>3. PICK b \in Nat, e \in Nat : Here(P, need, hs, base, cells, b, e)
  BY <1>2
<1>4. PICK t \in 1 .. Len(Top.code) + 1 :
        t = Top.pc + Instruction.arg /\ hs[Len(frames)][t] = e
  BY <1>1, <1>3, FlowsHere
<1>5. frames' = Moved(frames, t)
  BY <1>1, <1>4 DEF Moved, Advance, Top
<1>6. IsSeq(stack') /\ Len(stack') = b + hs[Len(frames)][t]
  BY <1>1, <1>3, <1>4 DEF Here, IInv
<1> QED
  BY <1>1, <1>3, <1>5, <1>6, GoesOn

(* A conditional jump keeps the value where it jumps, jtern excepted, and  *)
(* the certificate has that height at both places.                         *)
LEMMA ConditionalKeeps ==
  ASSUME NEW P, NEW need, IInv(P, need), ConditionalJump
  PROVE  IInv(P, need)'
<1> DEFINE op == Instruction.op
           v == TopAt(stack, 0)
<1>1. Fetched /\ op \in {"jumpz", "jumpnz", "jtern"}
  BY DEF ConditionalJump
<1>2. PICK hs, base, cells : \E b, e \in Nat : Here(P, need, hs, base, cells, b, e)
  BY <1>1, AtInstruction
<1>3. PICK b \in Nat, e \in Nat : Here(P, need, hs, base, cells, b, e)
  BY <1>2
<1>4. /\ e >= 1 /\ 1 \in 0 .. e
      /\ IsSeq(stack) /\ Len(stack) = b + e /\ Len(stack) >= 1
  <2>1. e >= 1
    BY <1>1, <1>3, FlowsHere
  <2> QED
    BY <1>3, <2>1 DEF Here, IInv
<1>5. IsSeq(PopN(stack, 1)) /\ Len(PopN(stack, 1)) = b + e - 1
  BY <1>4, Popped
<1>6. CASE Corrupts(1, 0)
  BY <1>1, <1>3, <1>4, <1>6, AboveTops, Overflows
<1>7. CASE ~ IsInt(v) /\ IntError("boolean")
           /\ stack' = IF op = "jtern" THEN PopN(stack, 1) ELSE stack
  BY <1>4, <1>5, <1>7, Aborts
<1>8. CASE /\ stack' = IF Keeps(op, v) THEN stack ELSE PopN(stack, 1)
           /\ Advance(Offset(op, v, Instruction.arg))
           /\ UNCHANGED <<undefined, program, status, outcome>>
  <2>1. PICK l \in Nat : l = Len(Top.code) /\ Top.pc \in 1 .. l
    BY <1>3 DEF Here
  <2>2. CASE Jumps(op, v)
    <3>1. PICK t \in 1 .. Len(Top.code) + 1 :
            /\ t = Top.pc + Instruction.arg
            /\ hs[Len(frames)][t] = IF op = "jtern" THEN e - 1 ELSE e
      BY <1>1, <1>3, FlowsHere
    <3>2. frames' = Moved(frames, t)
      BY <1>8, <2>2, <3>1 DEF Moved, Advance, Top, Offset
    <3>3. Keeps(op, v) <=> op # "jtern"
      BY <1>1, <2>2 DEF Keeps, Jumps
    <3>4. IsSeq(stack') /\ Len(stack') = b + hs[Len(frames)][t]
      BY <1>4, <1>5, <1>8, <3>1, <3>3
    <3> QED
      BY <1>1, <1>3, <1>8, <3>2, <3>4, GoesOn
  <2>3. CASE ~ Jumps(op, v)
    <3>1. PICK t \in 1 .. Len(Top.code) + 1 :
            t = Top.pc + 1 /\ hs[Len(frames)][t] = e - 1
      <4>1. Top.pc + 1 \in 1 .. Len(Top.code) + 1
        BY <2>1
      <4> QED
        BY <1>1, <1>3, <4>1, FlowsHere
    <3>2. frames' = Moved(frames, t)
      BY <1>8, <2>3, <3>1 DEF Moved, Advance, Top, Offset
    <3>3. ~ Keeps(op, v)
      BY <1>1, <2>3 DEF Keeps, Jumps
    <3>4. IsSeq(stack') /\ Len(stack') = b + hs[Len(frames)][t]
      BY <1>4, <1>5, <1>8, <3>1, <3>3
    <3> QED
      BY <1>1, <1>3, <1>8, <3>2, <3>4, GoesOn
  <2> QED
    BY <2>2, <2>3
<1> QED
  BY <1>6, <1>7, <1>8 DEF ConditionalJump

(* A call pops the arguments and leaves a place for its value.             *)
LEMMA CallKeeps ==
  ASSUME NEW hp, NEW hf, NEW P, NEW need, Certificate(hp, hf, P, need),
         IInv(P, need), f_call
  PROVE  IInv(P, need)'
<1> DEFINE f == Instruction.arg
           c == Functions[f].code
           pops == PopsOf(f)
<1>1. Fetched /\ Instruction.op = "call"
  BY DEF f_call
<1>2. PICK hs, base, cells : \E b, e \in Nat : Here(P, need, hs, base, cells, b, e)
  BY <1>1, AtInstruction
<1>3. PICK b \in Nat, e \in Nat : Here(P, need, hs, base, cells, b, e)
  BY <1>2
<1>4. /\ f \in DOMAIN Functions
      /\ Functions[f].defined =>
           pops \in 0 .. e /\ hs[Len(frames)][Top.pc + 1] = e - pops + 1
  BY <1>1, <1>3, FlowsHere
<1>5. IsSeq(stack) /\ Len(stack) = b + e
  BY <1>3 DEF Here, IInv
<1>6. CASE ~ Functions[f].defined /\ IntError("function") /\ UNCHANGED stack
  BY <1>5, <1>6, Aborts
<1>7. CASE Functions[f].defined /\ Corrupts(pops, 0)
  BY <1>1, <1>3, <1>4, <1>7, AboveTops, Overflows
<1>8. CASE /\ Functions[f].defined
           /\ stack' = PopN(stack, pops)
           /\ frames' = Append([frames EXCEPT ![Len(frames)].pc = @ + 1],
                               [code |-> c, pc |-> 1])
           /\ UNCHANGED <<program, status, outcome>>
  <2>1. pops \in 0 .. e /\ hs[Len(frames)][Top.pc + 1] = e - pops + 1
    BY <1>4, <1>8
  <2>2. PICK k \in Nat : k = b + e - pops
    BY <2>1
  <2>3. IsSeq(stack') /\ Len(stack') = k
    BY <1>5, <1>8, <2>1, <2>2, Popped, SMTT(30)
  <2>4. frames' = Called(Moved(frames, Top.pc + 1), c)
    BY <1>8 DEF Moved, Called, Top
  <2>5. /\ frames \in Seq(Frame) /\ frames # <<>>
        /\ Placed(frames, hs) /\ Stacked(frames, hs, base, Len(stack))
        /\ program \in P => Covered(frames, hs, base, cells, need)
        /\ b = base[Len(frames)]
    BY <1>3 DEF Here
  <2>6. Top.pc + 1 \in 1 .. Len(Last(frames).code) + 1
    <3>1. PICK l \in Nat : l = Len(Top.code) /\ Top.pc \in 1 .. l
      BY <1>3 DEF Here
    <3> QED
      BY <3>1 DEF Top, Last
  <2> DEFINE on == Moved(frames, Top.pc + 1)
  <2>7. /\ on \in Seq(Frame) /\ on # <<>> /\ Placed(on, hs)
        /\ Stacked(on, hs, base, base[Len(frames)] + hs[Len(frames)][Top.pc + 1])
        /\ \A x, nd : Covered(frames, hs, base, x, nd) => Covered(on, hs, base, x, nd)
    BY <2>5, <2>6, Advanced
  <2>8. base[Len(frames)] + hs[Len(frames)][Top.pc + 1] = k + 1
    <3>1. b + (e - pops + 1) = k + 1
      BY <2>1, <2>2
    <3> QED
      BY <2>1, <2>5, <3>1
  <2>9. c \in Codes /\ Balanced(c, hf[f]) /\ frames' = Called(on, c)
    BY <1>4, <1>8, <2>4 DEF Certificate, Codes
  <2>10. f \in DOMAIN need => need[f] \in Nat /\ Covers(c, hf[f], need, need[f])
    BY <1>4, <1>8 DEF Certificate
  <2> HIDE DEF on, c
  <2>11. Stacked(on, hs, base, k + 1)
    BY <2>7, <2>8
  <2>12. PICK hs2, base2 :
           /\ Placed(frames', hs2) /\ Stacked(frames', hs2, base2, k)
           /\ \A x, nd, m :
                Covered(on, hs, base, x, nd) /\ Covers(c, hf[f], nd, m)
                  /\ m \in Nat /\ k + m <= StackDepth
                => \E y : Covered(frames', hs2, base2, y, nd)
    BY <2>7, <2>11, <2>9, Entered
  <2>13. frames' \in Seq(Frame) /\ frames' # <<>>
    BY <2>7, <2>11, <2>9, Entered
  <2>14. program \in P => \E y : Covered(frames', hs2, base2, y, need)
    <3>1. SUFFICES ASSUME program \in P
                   PROVE  \E y : Covered(frames', hs2, base2, y, need)
      OBVIOUS
    <3>2. PICK n \in Nat \ {0} : n = Len(frames)
      BY <2>5, EmptySeq, LenProperties
    <3>3. /\ Covers(Top.code, hs[n], need, cells[n])
          /\ cells[n] \in Nat /\ b + cells[n] <= StackDepth
      BY <2>5, <3>1, <3>2 DEF Covered, Top
    <3>4. Top.pc \in 1 .. Len(Top.code) /\ hs[n][Top.pc] = e
      BY <1>3, <3>2 DEF Here
    <3>5. f \in DOMAIN need /\ e - pops + need[f] <= cells[n]
      BY <1>1, <1>8, <3>3, <3>4 DEF Covers, Instruction
    <3>6. need[f] \in Nat /\ Covers(c, hf[f], need, need[f])
      BY <2>10, <3>5
    <3>7. k + need[f] <= StackDepth
      <4>1. PICK m \in Nat, x \in Nat, d \in Nat, q \in Nat :
              m = need[f] /\ x = cells[n] /\ d = StackDepth /\ q = pops
        <5>1. need[f] \in Nat /\ cells[n] \in Nat
          BY <3>3, <3>6
        <5>2. StackDepth \in Nat
          BY StackAssumption
        <5>3. pops \in Nat
          BY <2>1
        <5> QED
          BY <5>1, <5>2, <5>3, Zenon
      <4>2. e - q + m <= x /\ b + x <= d /\ k = b + e - q
        BY <2>2, <3>3, <3>5, <4>1
      <4>3. k + m <= d
        BY <4>2
      <4> QED
        BY <4>1, <4>3
    <3>8. Covered(on, hs, base, cells, need)
      BY <2>5, <2>7, <3>1
    <3> QED
      BY <2>12, <3>6, <3>7, <3>8
  <2>15. InFrames(P, need)'
    BY <1>8, <2>3, <2>12, <2>13, <2>14 DEF InFrames
  <2>16. status = "running" /\ program \in DOMAIN Programs /\ NoStackWarning
    BY <1>1 DEF Fetched, IInv
  <2> QED
    BY <1>8, <2>3, <2>13, <2>15, <2>16 DEF IInv, NoStackWarning, OnlyOverflows, InBounds
<1> QED
  BY <1>6, <1>7, <1>8 DEF f_call

LEMMA ReturnKeeps ==
  ASSUME NEW P, NEW need, IInv(P, need), Return
  PROVE  IInv(P, need)'
<1>1. /\ status = "running" /\ frames # <<>> /\ Top.pc > Len(Top.code)
      /\ frames' = PopN(frames, 1) /\ UNCHANGED <<stack, program, status, outcome>>
  BY DEF Return
<1>2. frames \in Seq(Frame)
  BY DEF IInv
<1>3. PICK hs, base, cells :
        /\ Placed(frames, hs) /\ Stacked(frames, hs, base, Len(stack))
        /\ program \in P => Covered(frames, hs, base, cells, need)
  BY <1>1 DEF IInv, InFrames
<1>4. Last(frames).pc > Len(Last(frames).code)
  BY <1>1 DEF Top, Last
<1>5. /\ frames' \in Seq(Frame)
      /\ IF frames' = <<>> THEN Len(stack) = 1
         ELSE Placed(frames', hs) /\ Stacked(frames', hs, base, Len(stack))
      /\ program \in P => Covered(frames', hs, base, cells, need)
  <2>1. /\ PopN(frames, 1) \in Seq(Frame)
        /\ IF PopN(frames, 1) = <<>> THEN Len(stack) = 1
           ELSE Placed(PopN(frames, 1), hs) /\ Stacked(PopN(frames, 1), hs, base, Len(stack))
        /\ \A x, nd : Covered(frames, hs, base, x, nd) =>
                      Covered(PopN(frames, 1), hs, base, x, nd)
    BY <1>1, <1>2, <1>3, <1>4, Left
  <2> QED
    BY <1>1, <1>3, <2>1
<1>6. InFrames(P, need)'
  BY <1>1, <1>5 DEF InFrames
<1> QED
  BY <1>1, <1>5, <1>6 DEF IInv, NoStackWarning, OnlyOverflows, InBounds

LEMMA BeginKeeps ==
  ASSUME NEW hp, NEW hf, NEW P, NEW need, Certificate(hp, hf, P, need),
         IInv(P, need), Begin
  PROVE  IInv(P, need)'
<1> DEFINE c == Programs[program]
           first == [code |-> c, pc |-> 1]
<1>1. /\ stack' = <<>> /\ frames' = <<first>>
      /\ status' = "running" /\ UNCHANGED <<program, outcome>>
  BY DEF Begin, reset_stack
<1>2. program \in DOMAIN Programs /\ NoStackWarning
  BY DEF IInv
<1>3. /\ c \in Codes /\ Balanced(c, hp[program])
      /\ program \in P => Covers(c, hp[program], need, StackDepth)
  BY <1>2 DEF Codes, Certificate
<1>4. first \in Frame
  BY <1>3 DEF Frame
<1>5. frames' \in Seq(Frame) /\ Len(frames') = 1 /\ frames'[1] = first /\ frames' # <<>>
  BY <1>1, <1>4
<1>6. Len(c) \in Nat /\ hp[program][1] = 0
  BY <1>3 DEF Balanced
<1> DEFINE hs == [i \in {1} |-> hp[program]]
           base == [i \in {1} |-> 0]
           cells == [i \in {1} |-> StackDepth]
<1>7. hs[1] = hp[program] /\ base[1] = 0 /\ cells[1] = StackDepth
  OBVIOUS
<1>8. first.code = c /\ first.pc = 1
  OBVIOUS
<1> HIDE DEF hs, base, cells, c, first
<1>9. Placed(frames', hs)
  BY <1>3, <1>5, <1>6, <1>7, <1>8 DEF Placed
<1>10. Stacked(frames', hs, base, 0)
  BY <1>5, <1>6, <1>7, <1>8 DEF Stacked
<1>11. program \in P => Covered(frames', hs, base, cells, need)
  BY <1>3, <1>5, <1>7, <1>8, StackAssumption DEF Covered
<1>12. IsSeq(stack') /\ Len(stack') = 0
  BY <1>1, EmptyStack
<1>13. InFrames(P, need)'
  BY <1>1, <1>5, <1>9, <1>10, <1>11, <1>12 DEF InFrames
<1> QED
  BY <1>1, <1>2, <1>5, <1>12, <1>13 DEF IInv, NoStackWarning, OnlyOverflows, InBounds

(* The caller finds one value on the stack, and nothing below it.          *)
LEMMA FinishKeeps ==
  ASSUME NEW P, NEW need, IInv(P, need), Finish
  PROVE  IInv(P, need)'
<1>1. status = "running" /\ frames = <<>> /\ UNCHANGED <<frames, program>>
  BY DEF Finish
<1>2. IsSeq(stack) /\ Len(stack) = 1
  BY <1>1 DEF IInv, InFrames
<1>3. stack # <<>>
  BY <1>2, LenOfStack
<1>4. /\ stack' = PopN(stack, 1) /\ status' = "done"
      /\ outcome' = [value |-> TopAt(stack, 0), undefined |-> undefined,
                     error |-> check_stack(PopN(stack, 1))]
  BY <1>3 DEF Finish
<1>5. IsSeq(PopN(stack, 1)) /\ Len(PopN(stack, 1)) = 0
  <2>1. 1 \in Nat /\ Len(stack) >= 1 /\ 1 - 1 = 0
    BY <1>2
  <2> QED
    BY <1>2, <2>1, Popped
<1>6. PopN(stack, 1) = <<>>
  BY <1>5, LenOfStack
<1>7. outcome'.error = ""
  BY <1>4, <1>6 DEF check_stack
<1> QED
  BY <1>1, <1>4, <1>5, <1>7 DEF IInv, NoStackWarning, OnlyOverflows, InBounds, InFrames

(***************************************************************************)
(* The theorems                                                            *)
(***************************************************************************)

LEMMA Initial ==
  ASSUME NEW P, NEW need, Init PROVE IInv(P, need)
<1>1. IsSeq(stack)
  <2>1. <<Integer(1)>> \in Seq({Integer(1)}) /\ <<>> \in Seq({Integer(1)})
    OBVIOUS
  <2> QED
    BY <2>1 DEF Init, IsSeq
<1>2. /\ program \in DOMAIN Programs /\ frames \in Seq(Frame) /\ status = "idle"
      /\ outcome.error = ""
  BY EmptySeq DEF Init, NoOutcome
<1> QED
  BY <1>1, <1>2 DEF IInv, NoStackWarning, OnlyOverflows, InBounds, InFrames

LEMMA Inductive ==
  ASSUME NEW hp, NEW hf, NEW P, NEW need, Certificate(hp, hf, P, need),
         IInv(P, need), [Next]_vars
  PROVE  IInv(P, need)'
<1>1. CASE UNCHANGED vars
  BY <1>1 DEF vars, IInv, NoStackWarning, OnlyOverflows, InBounds, InFrames, Top, Instruction
<1>2. CASE Begin
  BY <1>2, BeginKeeps
<1>3. CASE Return
  BY <1>3, ReturnKeeps
<1>4. CASE PushInstruction
  BY <1>4, PushKeeps
<1>5. CASE UnaryInstruction
  BY <1>5, UnaryKeeps
<1>6. CASE BinaryInstruction
  BY <1>6, BinaryKeeps
<1>7. CASE f_call
  BY <1>7, CallKeeps
<1>8. CASE f_jump
  BY <1>8, JumpKeeps
<1>9. CASE ConditionalJump
  BY <1>9, ConditionalKeeps
<1>10. CASE Finish
  BY <1>10, FinishKeeps
<1> QED
  BY <1>1, <1>2, <1>3, <1>4, <1>5, <1>6, <1>7, <1>8, <1>9, <1>10 DEF Next, Step

LEMMA Invariant ==
  ASSUME NEW hp, NEW hf, NEW P, NEW need, Certificate(hp, hf, P, need)
  PROVE  Spec => []IInv(P, need)
<1>1. Init => IInv(P, need)
  BY Initial
<1>2. IInv(P, need) /\ [Next]_vars => IInv(P, need)'
  BY Inductive
<1> QED
  BY <1>1, <1>2, PTL DEF Spec

(* A program that ends normally leaves its value and nothing else: the     *)
(* caller's check_stack never finds the stack not empty.  (P and need may  *)
(* be empty: the cells of the array need not be counted for this.)         *)
THEOREM StackIsLeftEmpty ==
  ASSUME NEW hp, NEW hf, NEW P, NEW need, Certificate(hp, hf, P, need)
  PROVE  Spec => []NoStackWarning
<1>1. IInv(P, need) => NoStackWarning
  BY DEF IInv
<1> QED
  BY <1>1, Invariant, PTL

(* pop never goes below what was pushed, at any depth of recursion: where  *)
(* an access is outside the array, it is one above it.                     *)
THEOREM NeverPopsTooMuch ==
  ASSUME NEW hp, NEW hf, NEW P, NEW need, Certificate(hp, hf, P, need)
  PROVE  Spec => []OnlyOverflows
<1>1. IInv(P, need) => OnlyOverflows
  BY DEF IInv
<1> QED
  BY <1>1, Invariant, PTL

(* No access is outside the array in the programs that the certificate has *)
(* counted the cells of, calls of functions included.                      *)
THEOREM StaysInBounds ==
  ASSUME NEW hp, NEW hf, NEW P, NEW need, Certificate(hp, hf, P, need)
  PROVE  Spec => [](program \in P => InBounds)
<1>1. IInv(P, need) => (program \in P => InBounds)
  BY DEF IInv
<1> QED
  BY <1>1, Invariant, PTL

(***************************************************************************)
(* Recursion: the loops that are written as functions of Nat               *)
(***************************************************************************)

(* Every natural is in a set that 0 is in and that is closed under + 1.    *)
LEMMA Induction ==
  ASSUME NEW T \in SUBSET Nat, 0 \in T, \A n \in T : n + 1 \in T
  PROVE  T = Nat
<1> SUFFICES ASSUME NEW k \in Nat \ T PROVE FALSE
  OBVIOUS
<1> DEFINE Less == {ss \in Nat \X Nat : ss[1] < ss[2]}
<1>1. IsWellFoundedOn(Less, Nat)
  BY NatLessThanWellFounded DEF OpToRel
<1>2. \A m, n \in Nat : m < n => <<m, n>> \in Less
  OBVIOUS
<1> HIDE DEF Less
<1>3. PICK m \in Nat \ T : \A n \in Nat \ T : ~ (<<n, m>> \in Less)
  BY <1>1, WFMin
<1>4. m - 1 \in Nat /\ (m - 1) + 1 = m
  BY <1>3
<1>5. m - 1 \notin T
  BY <1>3, <1>4
<1>6. m - 1 < m /\ m \in Nat
  BY <1>3, <1>4
<1>7. <<m - 1, m>> \in Less
  BY <1>2, <1>4, <1>6
<1> QED
  BY <1>3, <1>4, <1>5, <1>7

(* What makes the next element from the place and the element before it.   *)
Rules(S) == [Nat \X S -> S]

(* The first n steps of the recursion from a by g.                         *)
Steps(f, n, S, a, g) ==
  /\ f \in [0 .. n -> S] /\ f[0] = a
  /\ \A i \in 0 .. n - 1 : f[i + 1] = g[<<i, f[i]>>]

LEMMA StepsExist ==
  ASSUME NEW S, NEW a \in S, NEW g \in Rules(S), NEW n \in Nat
  PROVE  \E f : Steps(f, n, S, a, g)
<1> DEFINE T == {k \in Nat : \E f : Steps(f, k, S, a, g)}
<1>1. 0 \in T
  <2>1. Steps([i \in 0 .. 0 |-> a], 0, S, a, g)
    BY DEF Steps
  <2> QED
    BY <2>1
<1>2. ASSUME NEW k \in T PROVE k + 1 \in T
  <2>1. k \in Nat
    OBVIOUS
  <2>2. PICK f : Steps(f, k, S, a, g)
    OBVIOUS
  <2>3. f[k] \in S /\ g[<<k, f[k]>>] \in S
    BY <2>1, <2>2 DEF Steps, Rules
  <2> DEFINE h == [i \in 0 .. k + 1 |-> IF i <= k THEN f[i] ELSE g[<<k, f[k]>>]]
  <2>4. h \in [0 .. k + 1 -> S] /\ h[0] = a
    BY <2>1, <2>2, <2>3 DEF Steps
  <2>5. ASSUME NEW i \in 0 .. (k + 1) - 1 PROVE h[i + 1] = g[<<i, h[i]>>]
    <3>1. CASE i = k
      BY <2>1, <3>1, SMTT(30)
    <3>2. CASE i # k
      <4>1. i \in 0 .. k - 1 /\ i + 1 <= k /\ i <= k /\ i \in 0 .. k + 1 /\ i + 1 \in 0 .. k + 1
        BY <2>1, <3>2
      <4>2. f[i + 1] = g[<<i, f[i]>>]
        BY <2>2, <4>1 DEF Steps
      <4> QED
        BY <4>1, <4>2
    <3> QED
      BY <3>1, <3>2
  <2>6. Steps(h, k + 1, S, a, g)
    BY <2>4, <2>5 DEF Steps
  <2> QED
    BY <2>1, <2>6
<1> HIDE DEF T
<1>3. T = Nat
  BY <1>1, <1>2, Induction DEF T
<1> QED
  BY <1>3 DEF T

LEMMA StepsAgree ==
  ASSUME NEW S, NEW a \in S, NEW g \in Rules(S),
         NEW f, NEW n \in Nat, Steps(f, n, S, a, g),
         NEW h, NEW m \in Nat, Steps(h, m, S, a, g), n <= m
  PROVE  f[n] = h[n]
<1> DEFINE T == {k \in Nat : k <= n => f[k] = h[k]}
<1>1. 0 \in T
  BY DEF Steps
<1>2. ASSUME NEW k \in T PROVE k + 1 \in T
  <2>1. SUFFICES ASSUME k + 1 <= n PROVE f[k + 1] = h[k + 1]
    OBVIOUS
  <2>2. k \in 0 .. n - 1 /\ k \in 0 .. m - 1 /\ f[k] = h[k]
    BY <2>1
  <2> QED
    BY <2>2 DEF Steps
<1> HIDE DEF T
<1>3. T = Nat
  BY <1>1, <1>2, Induction DEF T
<1> QED
  BY <1>3 DEF T

(* A recursion by a step of S is a function to S.                          *)
LEMMA Recursion ==
  ASSUME NEW S, NEW a \in S, NEW g \in Rules(S)
  PROVE  \E f \in [Nat -> S] :
           \A i \in Nat : f[i] = IF i = 0 THEN a ELSE g[<<i - 1, f[i - 1]>>]
<1> DEFINE F(n) == CHOOSE f : Steps(f, n, S, a, g)
           f == [n \in Nat |-> F(n)[n]]
<1>1. \A n \in Nat : Steps(F(n), n, S, a, g)
  BY StepsExist
<1> HIDE DEF F
<1>2. ASSUME NEW n \in Nat PROVE F(n)[n] \in S
  BY <1>1 DEF Steps
<1>3. f \in [Nat -> S]
  BY <1>2
<1>4. f[0] = a
  BY <1>1 DEF Steps
<1>5. ASSUME NEW n \in Nat PROVE f[n + 1] = g[<<n, f[n]>>]
  <2>1. Steps(F(n + 1), n + 1, S, a, g) /\ n \in 0 .. (n + 1) - 1
    BY <1>1
  <2>2. F(n + 1)[n + 1] = g[<<n, F(n + 1)[n]>>]
    BY <2>1 DEF Steps
  <2>3. F(n)[n] = F(n + 1)[n]
    <3>1. n + 1 \in Nat /\ n <= n + 1
      OBVIOUS
    <3>2. PICK u, v : u = F(n) /\ v = F(n + 1)
      OBVIOUS
    <3>3. Steps(u, n, S, a, g) /\ Steps(v, n + 1, S, a, g)
      BY <1>1, <2>1, <3>2
    <3>4. u[n] = v[n]
      BY <3>1, <3>3, StepsAgree
    <3> QED
      BY <3>2, <3>4
  <2> QED
    BY <2>2, <2>3
<1> HIDE DEF f
<1>6. ASSUME NEW i \in Nat PROVE f[i] = IF i = 0 THEN a ELSE g[<<i - 1, f[i - 1]>>]
  <2>1. CASE i = 0
    BY <1>4, <2>1
  <2>2. CASE i # 0
    <3>1. i - 1 \in Nat /\ (i - 1) + 1 = i
      BY <2>2
    <3>2. f[(i - 1) + 1] = g[<<i - 1, f[i - 1]>>]
      BY <1>5, <3>1
    <3> QED
      BY <2>2, <3>1, <3>2
  <2> QED
    BY <2>1, <2>2
<1> QED
  BY <1>3, <1>6

(* The powers of 2 are positive.                                           *)
LEMMA Powers ==
  PowerOf2 \in [Nat -> Nat \ {0}]
<1> DEFINE S == Nat \ {0}
           g == [p \in Nat \X S |-> 2 * p[2]]
<1>1. g \in Rules(S) /\ 1 \in S
  BY DEF Rules
<1> HIDE DEF S, g
<1>2. PICK f \in [Nat -> S] :
        \A i \in Nat : f[i] = IF i = 0 THEN 1 ELSE g[<<i - 1, f[i - 1]>>]
  BY <1>1, Recursion
<1> USE DEF S, g
<1>3. ASSUME NEW i \in Nat
      PROVE  f[i] = IF i = 0 THEN 1 ELSE 2 * f[i - 1]
  <2>1. f[i] = IF i = 0 THEN 1 ELSE g[<<i - 1, f[i - 1]>>]
    BY <1>2
  <2>2. i # 0 => <<i - 1, f[i - 1]>> \in Nat \X S
    BY <1>2
  <2> QED
    BY <2>1, <2>2
<1>4. f = [i \in Nat |-> IF i = 0 THEN 1 ELSE 2 * f[i - 1]]
  BY <1>2, <1>3
<1> DEFINE Solves(x) == x = [i \in Nat |-> IF i = 0 THEN 1 ELSE 2 * x[i - 1]]
<1>5. PowerOf2 = CHOOSE x : Solves(x)
  BY DEF PowerOf2
<1>6. Solves(f)
  BY <1>4
<1> HIDE DEF Solves
<1>7. Solves(PowerOf2)
  BY <1>5, <1>6
<1>8. PowerOf2 = [i \in Nat |-> IF i = 0 THEN 1 ELSE 2 * PowerOf2[i - 1]]
  BY <1>7 DEF Solves
<1> DEFINE T == {n \in Nat : PowerOf2[n] \in S}
<1>9. T = Nat
  <2>1. 0 \in T
    BY <1>8
  <2>2. ASSUME NEW n \in T PROVE n + 1 \in T
    <3>1. PowerOf2[n + 1] = 2 * PowerOf2[(n + 1) - 1] /\ (n + 1) - 1 = n
      BY <1>8
    <3> QED
      BY <3>1
  <2> HIDE DEF T
  <2>3. T \in SUBSET Nat
    BY DEF T
  <2> QED
    BY <2>1, <2>2, <2>3, Induction
<1> QED
  BY <1>8, <1>9

(***************************************************************************)
(* Machine words                                                           *)
(***************************************************************************)

(* The range of an int, and what is left of a result, are as they should.  *)
LEMMA Ranges ==
  /\ MinInt \in Int /\ MaxInt \in Int /\ Words \in Nat \ {0} /\ Words = MaxInt - MinInt + 1
  /\ MinInt <= -1 /\ MaxInt >= 0
<1>1. PICK k \in Nat \ {0} : k = PowerOf2[IntBits - 1]
  BY Powers, ValuesAssumption
<1>2. MaxInt = k - 1 /\ MinInt = -k /\ Words = MaxInt - MinInt + 1
  BY <1>1 DEF MaxInt, MinInt, Words
<1> QED
  BY <1>2

LEMMA Wrapped ==
  ASSUME NEW n \in Int PROVE Wrap(n) \in MinInt .. MaxInt /\ Wrap(n) \in Int
<1>1. PICK lo \in Int, hi \in Int, w \in Nat \ {0} :
        lo = MinInt /\ hi = MaxInt /\ w = Words /\ w = hi - lo + 1
  BY Ranges
<1>2. (n - lo) % w \in 0 .. w - 1
  BY <1>1
<1>3. Wrap(n) = ((n - lo) % w) + lo
  BY <1>1 DEF Wrap
<1> QED
  BY <1>1, <1>2, <1>3

(* The values: an int is a machine word, with the imaginary part 0.        *)
LEMMA Integers ==
  ASSUME NEW n \in Int
  PROVE  /\ Integer(n) \in Value /\ IsInt(Integer(n))
         /\ Integer(n).re \in MinInt .. MaxInt
  BY Wrapped DEF Integer, Value, IsInt

LEMMA Complexes ==
  ASSUME NEW r \in Int, NEW i \in Int PROVE Complex(r, i) \in Value
  BY DEF Complex, Value

LEMMA WholeParts ==
  ASSUME NEW v \in Value
  PROVE  /\ v.re \in Int /\ v.im \in Int
         /\ IsInt(v) => v.re \in MinInt .. MaxInt
  BY Ranges DEF Value, IsInt

LEMMA Truths ==
  ASSUME NEW b PROVE Truth(b) \in Value
<1>1. (IF b THEN 1 ELSE 0) \in Int
  OBVIOUS
<1> QED
  BY <1>1, Integers DEF Truth

LEMMA Inexact ==
  AnyComplex \subseteq Value /\ AnyReal \subseteq Value
<1>1. Doubles \subseteq Int
  BY ValuesAssumption
<1> QED
  BY <1>1, Complexes DEF AnyComplex, AnyReal

(***************************************************************************)
(* The loops                                                               *)
(***************************************************************************)

LEMMA IntegerRecursion ==
  ASSUME NEW a \in Int, NEW g \in Rules(Int)
  PROVE  \E f \in [Nat -> Int] :
           \A i \in Nat : f[i] = IF i = 0 THEN a ELSE g[<<i - 1, f[i - 1]>>]
<1> DEFINE S == Int
<1>1. a \in S /\ g \in Rules(S)
  OBVIOUS
<1> HIDE DEF S
<1>2. \E f \in [Nat -> S] :
        \A i \in Nat : f[i] = IF i = 0 THEN a ELSE g[<<i - 1, f[i - 1]>>]
  BY <1>1, Recursion
<1> QED
  BY <1>2 DEF S

(* The word with given bits.                                               *)
LEMMA BitsWrapped ==
  ASSUME NEW B PROVE FromBits(B) \in Int
<1> DEFINE Bit(i) == IF i \in B THEN PowerOf2[i] ELSE 0
           g == [p \in Nat \X Int |-> p[2] + Bit(p[1])]
           Solves(x) == x = [i \in Nat |-> IF i = 0 THEN 0
                               ELSE x[i - 1] + (IF i - 1 \in B THEN PowerOf2[i - 1] ELSE 0)]
<1>1. \A i \in Nat : Bit(i) \in Int
  BY Powers
<1> HIDE DEF Bit
<1>2. g \in Rules(Int) /\ 0 \in Int
  BY <1>1 DEF Rules
<1>3. ASSUME NEW i \in Nat, NEW k \in Int PROVE g[<<i, k>>] = k + Bit(i)
  OBVIOUS
<1> HIDE DEF g
<1>4. PICK f \in [Nat -> Int] :
        \A i \in Nat : f[i] = IF i = 0 THEN 0 ELSE g[<<i - 1, f[i - 1]>>]
  BY <1>2, IntegerRecursion
<1>5. ASSUME NEW i \in Nat
      PROVE  f[i] = IF i = 0 THEN 0
                    ELSE f[i - 1] + (IF i - 1 \in B THEN PowerOf2[i - 1] ELSE 0)
  <2>1. CASE i = 0
    BY <1>4, <2>1
  <2>2. CASE i # 0
    <3>1. i - 1 \in Nat /\ f[i - 1] \in Int
      BY <1>4, <2>2
    <3>2. g[<<i - 1, f[i - 1]>>] = f[i - 1] + Bit(i - 1)
      BY <1>3, <3>1
    <3>3. f[i] = g[<<i - 1, f[i - 1]>>]
      BY <1>4, <2>2
    <3> QED
      BY <2>2, <3>2, <3>3 DEF Bit
  <2> QED
    BY <2>1, <2>2
<1>6. Solves(f)
  BY <1>4, <1>5
<1>7. FromBits(B) = Wrap((CHOOSE x : Solves(x))[IntBits])
  BY DEF FromBits
<1> DEFINE s == CHOOSE x : Solves(x)
<1>8. Solves(s)
  <2> HIDE DEF Solves
  <2> QED
    BY <1>6
<1> HIDE DEF s
<1> DEFINE T == {n \in Nat : s[n] \in Int}
<1>9. T = Nat
  <2>1. 0 \in T
    BY <1>8
  <2>2. ASSUME NEW n \in T PROVE n + 1 \in T
    <3>1. s[n + 1] = s[n] + (IF n \in B THEN PowerOf2[n] ELSE 0)
      BY <1>8
    <3> QED
      BY <1>1, <3>1 DEF Bit
  <2> HIDE DEF T
  <2>3. T \in SUBSET Nat
    BY DEF T
  <2> QED
    BY <2>1, <2>2, <2>3, Induction
<1>10. s[IntBits] \in Int
  BY <1>9, ValuesAssumption
<1> QED
  BY <1>7, <1>10, Wrapped DEF s

(* The loop of f_power.                                                    *)
LEMMA PowerWrapped ==
  ASSUME NEW a \in Int, NEW count \in Nat PROVE IntegerPower(a, count) \in Int
<1> DEFINE g == [p \in Nat \X Int |-> Wrap(p[2] * a)]
           Solves(x) == x = [i \in Nat |-> IF i = 0 THEN 1 ELSE Wrap(x[i - 1] * a)]
           t == CHOOSE x : Solves(x)
<1>1. ASSUME NEW k \in Int PROVE k * a \in Int /\ Wrap(k * a) \in Int
  BY Wrapped
<1>2. g \in Rules(Int) /\ 1 \in Int
  BY <1>1 DEF Rules
<1>3. ASSUME NEW i \in Nat, NEW k \in Int PROVE g[<<i, k>>] = Wrap(k * a)
  OBVIOUS
<1> HIDE DEF g
<1>4. PICK f \in [Nat -> Int] :
        \A i \in Nat : f[i] = IF i = 0 THEN 1 ELSE g[<<i - 1, f[i - 1]>>]
  BY <1>2, IntegerRecursion
<1>5. ASSUME NEW i \in Nat PROVE f[i] = IF i = 0 THEN 1 ELSE Wrap(f[i - 1] * a)
  <2>1. CASE i = 0
    BY <1>4, <2>1
  <2>2. CASE i # 0
    <3>1. i - 1 \in Nat /\ f[i - 1] \in Int
      BY <1>4, <2>2
    <3>2. g[<<i - 1, f[i - 1]>>] = Wrap(f[i - 1] * a)
      BY <1>3, <3>1
    <3> QED
      BY <1>4, <2>2, <3>2
  <2> QED
    BY <2>1, <2>2
<1>6. Solves(f)
  BY <1>4, <1>5
<1>7. IntegerPower(a, count) = t[count]
  BY DEF IntegerPower
<1>8. Solves(t)
  <2> HIDE DEF Solves
  <2> QED
    BY <1>6
<1> HIDE DEF t
<1> DEFINE T == {n \in Nat : t[n] \in Int}
<1>9. T = Nat
  <2>1. 0 \in T
    BY <1>8
  <2>2. ASSUME NEW n \in T PROVE n + 1 \in T
    <3>1. t[n + 1] = Wrap(t[(n + 1) - 1] * a) /\ (n + 1) - 1 = n
      BY <1>8
    <3>2. PICK k \in Int : k = t[n]
      OBVIOUS
    <3>3. t[n + 1] = Wrap(k * a)
      BY <3>1, <3>2
    <3>4. Wrap(k * a) \in Int
      BY <1>1
    <3>5. t[n + 1] \in Int
      BY <3>3, <3>4
    <3> QED
      BY <3>5
  <2> HIDE DEF T
  <2>3. T \in SUBSET Nat
    BY DEF T
  <2> QED
    BY <2>1, <2>2, <2>3, Induction
<1> QED
  BY <1>7, <1>9

(* The loop of f_factorial.                                                *)
LEMMA FactorialIsWhole ==
  ASSUME NEW m \in Int PROVE Factorial(m) \in Int
<1> DEFINE g == [p \in Nat \X Int |-> (p[1] + 1) * p[2]]
           Solves(x) == x = [i \in Nat |-> IF i = 0 THEN 1 ELSE i * x[i - 1]]
           val == CHOOSE x : Solves(x)
<1>1. g \in Rules(Int) /\ 1 \in Int
  BY DEF Rules
<1>2. ASSUME NEW i \in Nat, NEW k \in Int PROVE g[<<i, k>>] = (i + 1) * k
  OBVIOUS
<1> HIDE DEF g
<1>3. PICK f \in [Nat -> Int] :
        \A i \in Nat : f[i] = IF i = 0 THEN 1 ELSE g[<<i - 1, f[i - 1]>>]
  BY <1>1, IntegerRecursion
<1>4. ASSUME NEW i \in Nat PROVE f[i] = IF i = 0 THEN 1 ELSE i * f[i - 1]
  <2>1. CASE i = 0
    BY <1>3, <2>1
  <2>2. CASE i # 0
    <3>1. i - 1 \in Nat /\ (i - 1) + 1 = i /\ f[i - 1] \in Int
      BY <1>3, <2>2
    <3>2. g[<<i - 1, f[i - 1]>>] = ((i - 1) + 1) * f[i - 1]
      BY <1>2, <3>1
    <3> QED
      BY <1>3, <2>2, <3>1, <3>2
  <2> QED
    BY <2>1, <2>2
<1>5. Solves(f)
  BY <1>3, <1>4
<1>6. Factorial(m) = IF m > 1 THEN val[m] ELSE 1
  BY DEF Factorial
<1>7. Solves(val)
  <2> HIDE DEF Solves
  <2> QED
    BY <1>5
<1> HIDE DEF val
<1> DEFINE T == {n \in Nat : val[n] \in Int}
<1>8. T = Nat
  <2>1. 0 \in T
    BY <1>7
  <2>2. ASSUME NEW n \in T PROVE n + 1 \in T
    <3>1. val[n + 1] = (n + 1) * val[(n + 1) - 1] /\ (n + 1) - 1 = n
      BY <1>7
    <3> QED
      BY <3>1
  <2> HIDE DEF T
  <2>3. T \in SUBSET Nat
    BY DEF T
  <2> QED
    BY <2>1, <2>2, <2>3, Induction
<1>9. m > 1 => m \in Nat
  OBVIOUS
<1> QED
  BY <1>6, <1>8, <1>9

(***************************************************************************)
(* The types of what the operators give                                    *)
(***************************************************************************)

Outcome == [value : Value, undefined : BOOLEAN, error : Complaints]

LEMMA GivenTypes ==
  ASSUME NEW v \in Value
  PROVE  Gives(v) \subseteq Outcome /\ Undefined(v) \subseteq Outcome
<1>1. [value |-> v, undefined |-> FALSE, error |-> ""] \in Outcome
  BY DEF Outcome, Complaints
<1>2. [value |-> v, undefined |-> TRUE, error |-> ""] \in Outcome
  BY DEF Outcome, Complaints
<1> QED
  BY <1>1, <1>2 DEF Gives, Undefined

LEMMA FailedTypes ==
  ASSUME NEW text \in Complaints PROVE Fails(text) \subseteq Outcome
<1>1. Integer(0) \in Value
  BY Integers
<1>2. [value |-> Integer(0), undefined |-> FALSE, error |-> text] \in Outcome
  BY <1>1 DEF Outcome
<1> QED
  BY <1>2 DEF Fails

LEMMA AnyTypes ==
  ASSUME NEW S, S \subseteq Value PROVE GivesAny(S) \subseteq Outcome
<1>1. \A v \in S : Gives(v) \subseteq Outcome
  BY GivenTypes
<1> QED
  BY <1>1, Zenon DEF GivesAny

LEMMA AfterTypes ==
  ASSUME NEW s \in Outcome, NEW T, T \subseteq Outcome
  PROVE  After(s, T) \subseteq Outcome
<1>1. ASSUME NEW q \in T
      PROVE  [q EXCEPT !.undefined = q.undefined \/ s.undefined] \in Outcome
  <2>1. q \in Outcome
    OBVIOUS
  <2>2. (q.undefined \/ s.undefined) \in BOOLEAN
    OBVIOUS
  <2>3. PICK x \in BOOLEAN : x = (q.undefined \/ s.undefined)
    BY <2>2
  <2>4. [q EXCEPT !.undefined = x] \in Outcome
    BY <2>1 DEF Outcome
  <2> QED
    BY <2>3, <2>4
<1>2. ASSUME NEW o \in After(s, T)
      PROVE  o = s \/ \E q \in T : o = [q EXCEPT !.undefined = q.undefined \/ s.undefined]
  BY <1>2, Zenon DEF After
<1> QED
  BY <1>1, <1>2

LEMMA NumberTypes ==
  ASSUME NEW m \in Int, NEW n \in Int
  PROVE  /\ Sign(m) \in Int /\ Magnitude(m) \in Int
         /\ n # 0 => Quotient(m, n) \in Int /\ Remainder(m, n) \in Int
<1>1. Sign(m) \in Int /\ Magnitude(m) \in Int /\ Sign(n) \in Int
      /\ (n # 0 => Magnitude(n) \in Nat \ {0})
  BY DEF Sign, Magnitude
<1>2. ASSUME n # 0 PROVE Quotient(m, n) \in Int
  <2>1. Magnitude(m) \div Magnitude(n) \in Int
    BY <1>1, <1>2
  <2>2. PICK i \in Int, j \in Int, k \in Int :
          i = Sign(m) /\ j = Sign(n) /\ k = Magnitude(m) \div Magnitude(n)
    BY <1>1, <2>1
  <2>3. i * j * k \in Int
    OBVIOUS
  <2> QED
    BY <2>2, <2>3 DEF Quotient
<1>3. ASSUME n # 0 PROVE Remainder(m, n) \in Int
  <2>1. PICK q \in Int : q = Quotient(m, n)
    BY <1>2, <1>3
  <2>2. m - n * q \in Int
    OBVIOUS
  <2> QED
    BY <2>1, <2>2 DEF Remainder
<1> QED
  BY <1>1, <1>2, <1>3

LEMMA ArithmeticTypes ==
  ASSUME NEW a \in Value, NEW b \in Value
  PROVE  /\ f_uminus(a) \subseteq Outcome /\ f_plus(a, b) \subseteq Outcome
         /\ f_minus(a, b) \subseteq Outcome /\ f_mult(a, b) \subseteq Outcome
<1>1. PICK ar \in Int, ai \in Int, br \in Int, bi \in Int :
        ar = a.re /\ ai = a.im /\ br = b.re /\ bi = b.im
  BY WholeParts
<1>2. /\ -ar \in Int /\ -ai \in Int /\ ar + br \in Int /\ ai + bi \in Int
      /\ ar - br \in Int /\ ai - bi \in Int
  OBVIOUS
<1>3. ar * br \in Int /\ ar * br - ai * bi \in Int /\ ar * bi + ai * br \in Int
  OBVIOUS
<1>4. /\ Integer(-ar) \in Value /\ Integer(ar + br) \in Value
      /\ Integer(ar - br) \in Value /\ Integer(ar * br) \in Value
  BY <1>2, <1>3, Integers
<1>5. /\ Complex(-ar, -ai) \in Value /\ Complex(ar + br, ai + bi) \in Value
      /\ Complex(ar - br, ai - bi) \in Value
      /\ Complex(ar * br - ai * bi, ar * bi + ai * br) \in Value
  BY <1>2, <1>3, Complexes
<1>6. f_uminus(a) \subseteq Outcome
  BY <1>1, <1>4, <1>5, GivenTypes DEF f_uminus
<1>7. f_plus(a, b) \subseteq Outcome
  BY <1>1, <1>4, <1>5, GivenTypes DEF f_plus
<1>8. f_minus(a, b) \subseteq Outcome
  BY <1>1, <1>4, <1>5, GivenTypes DEF f_minus
<1>9. f_mult(a, b) \subseteq Outcome
  BY <1>1, <1>4, <1>5, GivenTypes DEF f_mult
<1> QED
  BY <1>6, <1>7, <1>8, <1>9

LEMMA InexactTypes ==
  GivesAny(AnyComplex) \subseteq Outcome /\ GivesAny(AnyReal) \subseteq Outcome
  BY Inexact, AnyTypes

LEMMA DivisionTypes ==
  ASSUME NEW a \in Value, NEW b \in Value
  PROVE  f_div(a, b) \subseteq Outcome /\ f_mod(a, b) \subseteq Outcome
<1>1. PICK ar \in Int, br \in Int : ar = a.re /\ br = b.re
  BY WholeParts
<1>2. Undefined(Integer(0)) \subseteq Outcome /\ Undefined(Complex(0, 0)) \subseteq Outcome
  BY Integers, Complexes, GivenTypes
<1>3. Fails("trap") \subseteq Outcome /\ Fails("mod") \subseteq Outcome
  BY FailedTypes DEF Complaints
<1>4. br # 0 => /\ Gives(Integer(Quotient(ar, br))) \subseteq Outcome
                /\ Gives(Integer(Remainder(ar, br))) \subseteq Outcome
  <2> SUFFICES ASSUME br # 0
               PROVE  /\ Gives(Integer(Quotient(ar, br))) \subseteq Outcome
                      /\ Gives(Integer(Remainder(ar, br))) \subseteq Outcome
    OBVIOUS
  <2>1. Quotient(ar, br) \in Int /\ Remainder(ar, br) \in Int
    BY NumberTypes
  <2> QED
    BY <2>1, Integers, GivenTypes
<1> QED
  BY <1>1, <1>2, <1>3, <1>4, InexactTypes DEF f_div, f_mod

LEMMA SineTypes ==
  ASSUME NEW a PROVE f_sin(a) \subseteq Outcome /\ f_cos(a) \subseteq Outcome
  BY InexactTypes DEF f_sin, f_cos

(* The Bessel functions.                                                   *)
LEMMA DividedTypes ==
  ASSUME NEW S, NEW a \in Value, S \subseteq Outcome
  PROVE  Divided(S, a) \subseteq Outcome /\ DividedTwice(S, a) \subseteq Outcome
<1>1. Divided(S, a) = UNION {After(s, f_div(s.value, a)) : s \in S}
  BY DEF Divided, Then, After
<1>2. DividedTwice(S, a) =
        UNION {After(s, UNION {After(q, f_div(s.value, q.value)) : q \in f_mult(a, a)}) : s \in S}
  BY DEF DividedTwice, Then, After
<1>3. ASSUME NEW o \in Outcome PROVE o.value \in Value
  BY DEF Outcome
<1>4. f_mult(a, a) \subseteq Outcome
  BY ArithmeticTypes
<1>5. ASSUME NEW s \in S
      PROVE  UNION {After(q, f_div(s.value, q.value)) : q \in f_mult(a, a)} \subseteq Outcome
  <2>1. ASSUME NEW q \in f_mult(a, a) PROVE After(q, f_div(s.value, q.value)) \subseteq Outcome
    <3>1. s.value \in Value /\ q.value \in Value /\ q \in Outcome
      BY <1>3, <1>4
    <3>2. f_div(s.value, q.value) \subseteq Outcome
      BY <3>1, DivisionTypes
    <3> QED
      BY <3>1, <3>2, AfterTypes
  <2> QED
    BY <2>1, Zenon
<1>6. ASSUME NEW s \in S
      PROVE  /\ After(s, f_div(s.value, a)) \subseteq Outcome
             /\ After(s, UNION {After(q, f_div(s.value, q.value)) : q \in f_mult(a, a)})
                  \subseteq Outcome
  <2>1. s \in Outcome /\ f_div(s.value, a) \subseteq Outcome
    BY <1>3, DivisionTypes
  <2> QED
    BY <1>5, <2>1, AfterTypes
<1>7. Divided(S, a) \subseteq Outcome
  BY <1>1, <1>6, Zenon
<1>8. DividedTwice(S, a) \subseteq Outcome
  BY <1>2, <1>6, Zenon
<1> QED
  BY <1>7, <1>8

LEMMA NegatedTypes ==
  ASSUME NEW S, S \subseteq Outcome PROVE Then(S, f_uminus) \subseteq Outcome
<1>1. Then(S, f_uminus) = UNION {After(s, f_uminus(s.value)) : s \in S}
  BY DEF Then, After
<1>2. ASSUME NEW s \in S PROVE After(s, f_uminus(s.value)) \subseteq Outcome
  <2>1. s \in Outcome /\ s.value \in Value
    BY DEF Outcome
  <2> QED
    BY <2>1, ArithmeticTypes, AfterTypes
<1> QED
  BY <1>1, <1>2, Zenon

LEMMA BesselTypes ==
  ASSUME NEW a \in Value
  PROVE  /\ f_besj0(a) \subseteq Outcome /\ f_besj1(a) \subseteq Outcome
         /\ f_besy0(a) \subseteq Outcome /\ f_besy1(a) \subseteq Outcome
<1> DEFINE Sines == DividedTwice(f_sin(a), a)
           Cosines == DividedTwice(f_cos(a), a)
           ByCos(s) == UNION {After(c, f_minus(s.value, c.value)) : c \in Divided(f_cos(a), a)}
           BySin(s) == UNION {After(c, f_plus(s.value, c.value)) : c \in Divided(f_sin(a), a)}
<1>1. /\ f_besj0(a) = Divided(f_sin(a), a)
      /\ f_besy0(a) = Then(Divided(f_cos(a), a), f_uminus)
  BY DEF f_besj0, f_besy0, Divided
<1>2. f_besj1(a) = UNION {After(s, ByCos(s)) : s \in Sines}
  BY DEF f_besj1, Then, After
<1>3. f_besy1(a) = Then(UNION {After(s, BySin(s)) : s \in Cosines}, f_uminus)
  BY DEF f_besy1, Then, After
<1>4. /\ Sines \subseteq Outcome /\ Cosines \subseteq Outcome
      /\ Divided(f_cos(a), a) \subseteq Outcome /\ Divided(f_sin(a), a) \subseteq Outcome
  BY SineTypes, DividedTypes
<1> HIDE DEF Sines, Cosines
<1>5. ASSUME NEW o \in Outcome PROVE o.value \in Value
  BY DEF Outcome
<1>6. ASSUME NEW s \in Outcome PROVE ByCos(s) \subseteq Outcome /\ BySin(s) \subseteq Outcome
  <2>1. ASSUME NEW c \in Divided(f_cos(a), a)
        PROVE  After(c, f_minus(s.value, c.value)) \subseteq Outcome
    <3>1. c \in Outcome /\ f_minus(s.value, c.value) \subseteq Outcome
      BY <1>4, <1>5, ArithmeticTypes
    <3> QED
      BY <3>1, AfterTypes
  <2>2. ASSUME NEW c \in Divided(f_sin(a), a)
        PROVE  After(c, f_plus(s.value, c.value)) \subseteq Outcome
    <3>1. c \in Outcome /\ f_plus(s.value, c.value) \subseteq Outcome
      BY <1>4, <1>5, ArithmeticTypes
    <3> QED
      BY <3>1, AfterTypes
  <2> QED
    BY <2>1, <2>2, Zenon
<1> HIDE DEF ByCos, BySin
<1>7. ASSUME NEW s \in Outcome
      PROVE  After(s, ByCos(s)) \subseteq Outcome /\ After(s, BySin(s)) \subseteq Outcome
  BY <1>6, AfterTypes
<1>8. f_besj1(a) \subseteq Outcome
  <2>1. \A s \in Sines : After(s, ByCos(s)) \subseteq Outcome
    BY <1>4, <1>7
  <2> QED
    BY <1>2, <2>1, Zenon
<1>9. f_besy1(a) \subseteq Outcome
  <2>1. \A s \in Cosines : After(s, BySin(s)) \subseteq Outcome
    BY <1>4, <1>7
  <2>2. UNION {After(s, BySin(s)) : s \in Cosines} \subseteq Outcome
    BY <2>1, Zenon
  <2> QED
    BY <1>3, <2>2, NegatedTypes
<1> QED
  BY <1>1, <1>4, <1>8, <1>9, NegatedTypes

(* Every operator of one operand gives values and complaints.              *)
LEMMA UnaryTypes ==
  ASSUME NEW a \in Value, NEW op \in UnaryOps
  PROVE  Unary(op, a) \subseteq Outcome
<1>0. PICK ar \in Int, ai \in Int : ar = a.re /\ ai = a.im
  BY WholeParts
<1>1. /\ Fails("boolean") \subseteq Outcome /\ Fails("factorial") \subseteq Outcome
      /\ Undefined(a) \subseteq Outcome /\ Gives(a) \subseteq Outcome
      /\ Undefined(Complex(0, 0)) \subseteq Outcome
  <2>1. "boolean" \in Complaints /\ "factorial" \in Complaints
    BY DEF Complaints
  <2>2. Complex(0, 0) \in Value
    BY Complexes
  <2>3. Fails("boolean") \subseteq Outcome /\ Fails("factorial") \subseteq Outcome
    BY <2>1, FailedTypes
  <2> QED
    BY <2>2, <2>3, GivenTypes
<1>2. op \in {"lnot", "bnot", "bool"} => IntegerUnary(op, a) \subseteq Outcome
  <2>1. /\ Gives(Truth(ar = 0)) \subseteq Outcome /\ Gives(Truth(ar # 0)) \subseteq Outcome
        /\ Gives(Integer(-ar - 1)) \subseteq Outcome
    <3>1. -ar - 1 \in Int
      OBVIOUS
    <3> QED
      BY <3>1, Truths, Integers, GivenTypes
  <2> QED
    BY <1>0, <1>1, <2>1 DEF IntegerUnary
<1>3. f_factorial(a) \subseteq Outcome
  <2>1. Gives(Complex(Factorial(ar), 0)) \subseteq Outcome
    BY FactorialIsWhole, Complexes, GivenTypes
  <2> QED
    BY <1>0, <1>1, <2>1 DEF f_factorial
<1>4. /\ f_tan(a) \subseteq Outcome /\ ArcSine(a) \subseteq Outcome
      /\ f_atan(a) \subseteq Outcome
  BY <1>1, InexactTypes DEF f_tan, ArcSine, f_atan
<1>5. /\ Hyperbolic(a) \subseteq Outcome /\ ExpLog(a) \subseteq Outcome
      /\ Rounded(a) \subseteq Outcome /\ f_srand(a) \subseteq Outcome
  BY <1>1, InexactTypes DEF Hyperbolic, ExpLog, Rounded, f_srand
<1>6. f_int(a) \subseteq Outcome
  <2>1. (IF a.re \in MinInt .. MaxInt THEN a.re ELSE MinInt) \in Int
    BY <1>0, Ranges
  <2> QED
    BY <2>1, Integers, GivenTypes DEF f_int
<1>7. f_abs(a) \subseteq Outcome
  <2>1. Gives(Integer(Magnitude(ar))) \subseteq Outcome
    BY NumberTypes, Integers, GivenTypes
  <2>2. GivesAny({v \in AnyReal : v.re >= 0}) \subseteq Outcome
    <3>1. {v \in AnyReal : v.re >= 0} \subseteq Value
      BY Inexact
    <3> QED
      BY <3>1, AnyTypes
  <2> QED
    BY <1>0, <2>1, <2>2 DEF f_abs
<1>8. f_sgn(a) \subseteq Outcome
  <2>1. Gives(Integer(Sign(ar))) \subseteq Outcome
    BY NumberTypes, Integers, GivenTypes
  <2> QED
    BY <1>0, <2>1 DEF f_sgn
<1>9. f_sqrt(a) \subseteq Outcome
  <2>1. (IF a.im = 0 /\ a.re < 0 THEN {v \in AnyComplex : v.re = 0 /\ v.im >= 0}
         ELSE AnyComplex) \subseteq Value
    BY Inexact
  <2> QED
    BY <2>1, AnyTypes DEF f_sqrt
<1>10. op \in {"real", "imag", "arg", "conjg"} => PartOf(op, a) \subseteq Outcome
  <2>1. /\ Gives(Complex(ar, 0)) \subseteq Outcome /\ Gives(Complex(ai, 0)) \subseteq Outcome
        /\ Gives(Complex(ar, -ai)) \subseteq Outcome
    BY Complexes, GivenTypes
  <2> QED
    BY <1>0, <2>1, InexactTypes DEF PartOf
<1>11. f_uminus(a) \subseteq Outcome
  BY ArithmeticTypes
<1> QED
  BY <1>2, <1>3, <1>4, <1>5, <1>6, <1>7, <1>8, <1>9, <1>10, <1>11, SineTypes, BesselTypes
     DEF Unary, UnaryOps

(* So does every operator of two.                                          *)
LEMMA BinaryTypes ==
  ASSUME NEW a \in Value, NEW b \in Value, NEW op \in BinaryOps
  PROVE  Binary(op, a, b) \subseteq Outcome
<1>0. PICK ar \in Int, br \in Int : ar = a.re /\ br = b.re
  BY WholeParts
<1>1. \A p : Gives(Truth(p)) \subseteq Outcome
  BY Truths, GivenTypes
<1>2. \A B : Gives(Integer(FromBits(B))) \subseteq Outcome
  BY BitsWrapped, Integers, GivenTypes
<1>3. op \in {"lor", "land", "bor", "band", "xor"} => IntegerBinary(op, a, b) \subseteq Outcome
  <2>1. Fails("boolean") \subseteq Outcome
    BY FailedTypes DEF Complaints
  <2> QED
    BY <1>1, <1>2, <2>1 DEF IntegerBinary
<1>4. Ordered(op, a, b) \subseteq Outcome
  BY <1>1 DEF Ordered
<1>5. f_eq(a, b) \subseteq Outcome /\ f_ne(a, b) \subseteq Outcome
  BY <1>1 DEF f_eq, f_ne
<1>6. f_power(a, b) \subseteq Outcome
  <2>1. br >= 0 => Gives(Integer(IntegerPower(ar, br))) \subseteq Outcome
    <3> SUFFICES ASSUME br >= 0 PROVE Gives(Integer(IntegerPower(ar, br))) \subseteq Outcome
      OBVIOUS
    <3>1. IntegerPower(ar, br) \in Int
      BY PowerWrapped
    <3> QED
      BY <3>1, Integers, GivenTypes
  <2> QED
    BY <1>0, <2>1, InexactTypes DEF f_power
<1> QED
  BY <1>3, <1>4, <1>5, <1>6, ArithmeticTypes, DivisionTypes DEF Binary, BinaryOps

LEMMA RandomTypes == f_rand \subseteq Outcome
<1>1. {Integer(n) : n \in {d \in Doubles : d >= 0}} \subseteq Value
  BY ValuesAssumption, Integers
<1> QED
  BY <1>1, AnyTypes DEF f_rand

(***************************************************************************)
(* The type invariant                                                      *)
(***************************************************************************)

InCode(fr) == \A i \in 1 .. Len(fr) : fr[i].pc \in 1 .. Len(fr[i].code) + 1

TypeInv == TypeOK /\ frames \in Seq(Frame)

LEMMA FramesInCode == ASSUME TypeInv PROVE InCode(frames)
<1>1. DOMAIN frames = 1 .. Len(frames)
  BY LenProperties DEF TypeInv
<1> QED
  BY <1>1 DEF TypeInv, TypeOK, InCode

LEMMA CodesTyped ==
  ASSUME TypedTables, NEW c \in Codes PROVE WellTyped(c) /\ Len(c) \in Nat
<1>1. WellTyped(c)
  BY DEF TypedTables, Codes
<1> QED
  BY <1>1 DEF WellTyped

(* The frame on top goes on to place t, and a frame is put on it.          *)
LEMMA MovedTypes ==
  ASSUME NEW fr \in Seq(Frame), fr # <<>>, InCode(fr), TypedTables,
         NEW t \in 1 .. Len(Last(fr).code) + 1
  PROVE  Moved(fr, t) \in Seq(Frame) /\ InCode(Moved(fr, t))
<1>1. PICK n \in Nat \ {0} : n = Len(fr)
  BY EmptySeq, LenProperties
<1>2. \A i \in 1 .. n : fr[i] \in Frame
  BY <1>1, ElementOfSeq
<1>3. fr[n] \in Frame /\ Last(fr) = fr[n]
  BY <1>1, <1>2 DEF Last
<1>4. PICK l \in Nat : l = Len(fr[n].code)
  BY <1>3, CodesTyped DEF Frame
<1>5. PICK new : new = [code |-> fr[n].code, pc |-> t]
  OBVIOUS
<1>6. new \in Frame /\ new = [fr[n] EXCEPT !.pc = t]
  BY <1>3, <1>4, <1>5 DEF Frame
<1>7. PICK to : to = Moved(fr, t) /\ to = [fr EXCEPT ![n] = new]
  BY <1>1, <1>6 DEF Moved
<1>8. /\ to \in Seq(Frame) /\ Len(to) = n /\ to[n] = new
      /\ \A i \in 1 .. n : i # n => to[i] = fr[i]
  BY <1>1, <1>6, <1>7, ExceptSeq
<1>9. to[n].pc \in 1 .. Len(to[n].code) + 1
  BY <1>3, <1>5, <1>8
<1>10. InCode(to)
  BY <1>1, <1>8, <1>9 DEF InCode
<1> QED
  BY <1>7, <1>8, <1>10

LEMMA CalledTypes ==
  ASSUME NEW fr \in Seq(Frame), InCode(fr), TypedTables, NEW c \in Codes
  PROVE  Called(fr, c) \in Seq(Frame) /\ InCode(Called(fr, c))
<1>1. PICK n \in Nat : n = Len(fr)
  BY LenProperties
<1>2. PICK l \in Nat : l = Len(c)
  BY CodesTyped
<1>3. PICK new : new = [code |-> c, pc |-> 1]
  OBVIOUS
<1>4. new \in Frame
  BY <1>3 DEF Frame
<1>5. PICK to : to = Called(fr, c) /\ to = Append(fr, new)
  BY <1>3 DEF Called
<1>6. /\ to \in Seq(Frame) /\ Len(to) = n + 1 /\ to[n + 1] = new
      /\ \A i \in 1 .. n : to[i] = fr[i]
  BY <1>1, <1>5, <1>4, AppendProperties
<1>7. new.pc \in 1 .. Len(new.code) + 1
  BY <1>2, <1>3
<1>8. InCode(to)
  BY <1>1, <1>6, <1>7 DEF InCode
<1> QED
  BY <1>5, <1>6, <1>8

LEMMA LeftTypes ==
  ASSUME NEW fr \in Seq(Frame), fr # <<>>, InCode(fr)
  PROVE  PopN(fr, 1) \in Seq(Frame) /\ InCode(PopN(fr, 1))
<1>1. PICK n \in Nat \ {0} : n = Len(fr)
  BY EmptySeq, LenProperties
<1>2. PICK to : to = PopN(fr, 1) /\ to = SubSeq(fr, 1, n - 1)
  BY <1>1 DEF PopN
<1>3. /\ to \in Seq(Frame) /\ Len(to) = n - 1
      /\ \A i \in 1 .. n - 1 : to[i] = fr[i]
  BY <1>1, <1>2, SubSeqProperties
<1>4. InCode(to)
  BY <1>1, <1>3 DEF InCode
<1> QED
  BY <1>2, <1>3, <1>4

(* The cells of the stack are values, and remain so.                       *)
LEMMA PushedValue ==
  ASSUME NEW s \in Seq(Value), NEW v \in Value PROVE push(s, v) \in Seq(Value)
  BY AppendProperties DEF push

LEMMA PoppedValues ==
  ASSUME NEW s \in Seq(Value), NEW n \in Nat, Len(s) >= n PROVE PopN(s, n) \in Seq(Value)
<1>1. PICK l \in Nat : l = Len(s)
  BY LenProperties
<1>2. l - n \in 0 .. l
  BY <1>1
<1>3. SubSeq(s, 1, l - n) \in Seq(Value)
  BY <1>1, <1>2, SubSeqProperties
<1> QED
  BY <1>1, <1>3 DEF PopN

LEMMA TopValues ==
  ASSUME NEW s \in Seq(Value), NEW i \in Nat, Len(s) > i PROVE TopAt(s, i) \in Value
<1>1. PICK l \in Nat : l = Len(s)
  BY LenProperties
<1>2. l - i \in 1 .. l
  BY <1>1
<1> QED
  BY <1>1, <1>2, ElementOfSeq DEF TopAt

LEMMA StackTypes ==
  ASSUME TypeInv
  PROVE  stack \in Seq(Value) /\ Len(stack) \in Nat /\ (stack # <<>> => Len(stack) >= 1)
<1>1. stack \in Seq(Value)
  BY DEF TypeInv, TypeOK
<1>2. PICK l \in Nat : l = Len(stack)
  BY <1>1, LenProperties
<1>3. stack # <<>> => l # 0
  BY <1>1, <1>2, EmptySeq
<1> QED
  BY <1>1, <1>2, <1>3

(***************************************************************************)
(* The steps keep the types                                                *)
(***************************************************************************)

LEMMA AtPlace ==
  ASSUME TypedTables, TypeInv, Fetched
  PROVE  /\ frames \in Seq(Frame) /\ frames # <<>> /\ InCode(frames)
         /\ Top = Last(frames) /\ WellTyped(Top.code)
         /\ Len(Top.code) \in Nat /\ Top.pc \in 1 .. Len(Top.code)
<1>1. frames \in Seq(Frame) /\ frames # <<>> /\ InCode(frames) /\ Top = Last(frames)
  BY FramesInCode DEF TypeInv, Fetched, Top, Last
<1>2. PICK n \in Nat \ {0} : n = Len(frames)
  BY <1>1, EmptySeq, LenProperties
<1>3. Top \in Frame /\ Top.pc \in 1 .. Len(Top.code) + 1
  BY <1>1, <1>2, ElementOfSeq DEF InCode, Top
<1>4. WellTyped(Top.code) /\ Len(Top.code) \in Nat
  BY <1>3, CodesTyped DEF Frame
<1>5. Top.pc <= Len(Top.code)
  BY DEF Fetched
<1> QED
  BY <1>1, <1>3, <1>4, <1>5

LEMMA InstructionTypes ==
  ASSUME TypedTables, TypeInv, Fetched
  PROVE  /\ Instruction.op = "push" => Instruction.arg \in DOMAIN Variables
         /\ Instruction.op = "pushc" => Instruction.arg \in Value
         /\ Instruction.op = "pushd" =>
              Instruction.arg.f \in DOMAIN Functions /\ Instruction.arg.i \in 0 .. 3
         /\ Instruction.op = "call" => Instruction.arg \in DOMAIN Functions
         /\ Instruction.op \in {"jump", "jumpz", "jumpnz", "jtern"} =>
              Instruction.arg \in Int /\ Top.pc + Instruction.arg \in 1 .. Len(Top.code) + 1
<1>1. PICK code, i : code = Top.code /\ i = Top.pc
  OBVIOUS
<1>2. WellTyped(code) /\ i \in 1 .. Len(code) /\ Instruction = code[i]
  BY <1>1, AtPlace DEF Instruction
<1> QED
  BY <1>1, <1>2 DEF WellTyped

(* The program goes on to a place in its code.                             *)
LEMMA AdvanceTypes ==
  ASSUME TypedTables, TypeInv, Fetched, NEW j \in Int, Advance(j),
         Top.pc + j \in 1 .. Len(Top.code) + 1
  PROVE  frames' \in Seq(Frame) /\ InCode(frames')
<1>1. frames' = Moved(frames, Top.pc + j)
  BY DEF Advance, Moved, Top
<1> QED
  BY <1>1, AtPlace, MovedTypes

LEMMA InCodeIsTyped ==
  ASSUME NEW fr \in Seq(Frame), InCode(fr)
  PROVE  \A i \in DOMAIN fr : fr[i].pc \in 1 .. Len(fr[i].code) + 1
  BY LenProperties DEF InCode

LEMMA ErrorTypes ==
  ASSUME TypeInv, NEW text \in Complaints \cup {"function"}, IntError(text),
         stack' \in Seq(Value), UNCHANGED dummy
  PROVE  TypeInv'
<1>1. /\ status' = "error" /\ frames' = <<>> /\ UNCHANGED <<undefined, program>>
      /\ outcome' = [NoOutcome EXCEPT !.undefined = undefined, !.error = text]
  BY DEF IntError
<1>2. outcome' = [value |-> Integer(0), undefined |-> undefined, error |-> text]
  BY <1>1 DEF NoOutcome
<1>3. Integer(0) \in Value
  BY Integers
<1>4. <<>> \in Seq(Frame) /\ DOMAIN <<>> = {}
  OBVIOUS
<1>5. /\ outcome'.value \in Value /\ outcome'.undefined = undefined
      /\ outcome'.error = text
  BY <1>2, <1>3
<1>6. undefined \in BOOLEAN /\ program \in DOMAIN Programs
      /\ dummy \in [DOMAIN Functions -> [0 .. 3 -> Value]]
  BY DEF TypeInv, TypeOK
<1>7. text \in {"", "boolean", "mod", "factorial", "trap", "variable", "function", "warning"}
  BY DEF Complaints
<1> QED
  BY <1>1, <1>4, <1>5, <1>6, <1>7 DEF TypeInv, TypeOK

LEMMA CorruptTypes ==
  ASSUME TypeInv, NEW pops, NEW above, Corrupts(pops, above) PROVE TypeInv'
  BY DEF Corrupts, TypeInv, TypeOK

(* One outcome of an operator of pops operands is pushed.                  *)
LEMMA PushesTypes ==
  ASSUME TypedTables, TypeInv, Fetched, NEW pops \in Nat, Len(stack) >= pops,
         PoppedByError(Instruction.op, pops) \in 0 .. pops,
         NEW o \in Outcome, Pushes(pops, o)
  PROVE  TypeInv'
<1>1. stack \in Seq(Value) /\ undefined \in BOOLEAN
  BY DEF TypeInv, TypeOK
<1>2. o.value \in Value /\ o.undefined \in BOOLEAN /\ o.error \in Complaints
  BY DEF Outcome
<1>3. CASE o.error # ""
  <2>1. PICK k \in Nat : k = PoppedByError(Instruction.op, pops) /\ k <= pops
    OBVIOUS
  <2>2. PICK l \in Nat : l = Len(stack)
    BY <1>1, LenProperties
  <2>3. PopN(stack, k) \in Seq(Value)
    BY <1>1, <2>1, <2>2, PoppedValues
  <2>4. stack' = PopN(stack, k) /\ UNCHANGED dummy /\ IntError(o.error)
    BY <1>3, <2>1 DEF Pushes
  <2> QED
    BY <1>2, <2>3, <2>4, ErrorTypes
<1>4. CASE o.error = ""
  <2>1. /\ stack' = push(PopN(stack, pops), o.value)
        /\ undefined' = (undefined \/ o.undefined)
        /\ Advance(1) /\ UNCHANGED <<dummy, program, status, outcome>>
    BY <1>4 DEF Pushes
  <2>2. stack' \in Seq(Value)
    BY <1>1, <1>2, <2>1, PoppedValues, PushedValue
  <2>3. undefined' \in BOOLEAN
    BY <1>1, <1>2, <2>1
  <2>4. Top.pc + 1 \in 1 .. Len(Top.code) + 1
    BY AtPlace
  <2>5. frames' \in Seq(Frame) /\ InCode(frames')
    BY <2>1, <2>4, AdvanceTypes
  <2>6. \A i \in DOMAIN frames' : frames'[i].pc \in 1 .. Len(frames'[i].code) + 1
    BY <2>5, InCodeIsTyped
  <2> QED
    BY <2>1, <2>2, <2>3, <2>5, <2>6 DEF TypeInv, TypeOK
<1> QED
  BY <1>3, <1>4

LEMMA SourceTypes ==
  ASSUME TypedTables, TypeInv, Fetched, Instruction.op \in PushOps
  PROVE  Sources(Instruction) \subseteq Outcome
<1>1. PICK x : x = Instruction.arg
  OBVIOUS
<1>2. Instruction.op = "push" => f_push(x) \subseteq Outcome
  <2>1. SUFFICES ASSUME Instruction.op = "push" PROVE f_push(x) \subseteq Outcome
    OBVIOUS
  <2>2. x \in DOMAIN Variables
    BY <1>1, <2>1, InstructionTypes
  <2>3. Fails("variable") \subseteq Outcome
    <3>1. "variable" \in Complaints
      BY DEF Complaints
    <3> QED
      BY <3>1, FailedTypes
  <2>4. ~ Variables[x].undef => Gives(Variables[x].value) \subseteq Outcome
    BY <2>2, GivenTypes DEF TypedTables
  <2> QED
    BY <2>3, <2>4 DEF f_push
<1>3. Instruction.op = "pushc" => Gives(x) \subseteq Outcome
  BY <1>1, InstructionTypes, GivenTypes
<1>4. Instruction.op = "pushd" => f_pushd(x) \subseteq Outcome
  <2>1. SUFFICES ASSUME Instruction.op = "pushd" PROVE f_pushd(x) \subseteq Outcome
    OBVIOUS
  <2>2. x.f \in DOMAIN Functions /\ x.i \in 0 .. 3
    BY <1>1, <2>1, InstructionTypes
  <2>3. dummy[x.f][x.i] \in Value
    BY <2>2 DEF TypeInv, TypeOK
  <2> QED
    BY <2>3, GivenTypes DEF f_pushd
<1> QED
  BY <1>1, <1>2, <1>3, <1>4, RandomTypes DEF Sources, PushOps

LEMMA PushTypes ==
  ASSUME TypedTables, TypeInv, PushInstruction PROVE TypeInv'
<1>1. Fetched /\ Instruction.op \in PushOps
  BY DEF PushInstruction, PushOps
<1>2. CASE Corrupts(0, 1)
  BY <1>2, CorruptTypes
<1>3. CASE \E o \in Sources(Instruction) : Pushes(0, o)
  <2>1. PICK o \in Sources(Instruction) : Pushes(0, o)
    BY <1>3
  <2>2. o \in Outcome
    BY <1>1, SourceTypes
  <2>3. PoppedByError(Instruction.op, 0) = 0
    BY <1>1 DEF PoppedByError, PushOps
  <2>4. Len(stack) >= 0
    BY StackTypes
  <2> QED
    BY <1>1, <2>1, <2>2, <2>3, <2>4, PushesTypes
<1> QED
  BY <1>2, <1>3 DEF PushInstruction

LEMMA UnaryInstructionTypes ==
  ASSUME TypedTables, TypeInv, UnaryInstruction PROVE TypeInv'
<1> DEFINE op == Instruction.op
<1>1. Fetched /\ op \in UnaryOps
  BY DEF UnaryInstruction
<1>2. CASE Corrupts(1, Above(op))
  BY <1>2, CorruptTypes
<1>3. CASE Fits(1, Above(op)) /\ \E o \in Unary(op, TopAt(stack, 0)) : Pushes(1, o)
  <2>1. PICK o \in Unary(op, TopAt(stack, 0)) : Pushes(1, o)
    BY <1>3
  <2>2. PICK l \in Nat : l = Len(stack) /\ l >= 1
    BY <1>3, StackTypes DEF Fits
  <2>3. TopAt(stack, 0) \in Value
    BY <2>2, StackTypes, TopValues
  <2>4. o \in Outcome
    BY <1>1, <2>1, <2>3, UnaryTypes
  <2>5. PoppedByError(op, 1) \in 0 .. 1
    BY DEF PoppedByError
  <2> QED
    BY <1>1, <2>1, <2>2, <2>4, <2>5, PushesTypes
<1> QED
  BY <1>2, <1>3 DEF UnaryInstruction

LEMMA BinaryInstructionTypes ==
  ASSUME TypedTables, TypeInv, BinaryInstruction PROVE TypeInv'
<1> DEFINE op == Instruction.op
<1>1. Fetched /\ op \in BinaryOps
  BY DEF BinaryInstruction
<1>2. CASE Corrupts(2, 0)
  BY <1>2, CorruptTypes
<1>3. CASE Fits(2, 0) /\ \E o \in Binary(op, TopAt(stack, 1), TopAt(stack, 0)) : Pushes(2, o)
  <2>1. PICK o \in Binary(op, TopAt(stack, 1), TopAt(stack, 0)) : Pushes(2, o)
    BY <1>3
  <2>2. PICK l \in Nat : l = Len(stack) /\ l >= 2
    BY <1>3, StackTypes DEF Fits
  <2>3. TopAt(stack, 0) \in Value /\ TopAt(stack, 1) \in Value
    BY <2>2, StackTypes, TopValues
  <2>4. o \in Outcome
    BY <1>1, <2>1, <2>3, BinaryTypes
  <2>5. PoppedByError(op, 2) \in 0 .. 2
    BY DEF PoppedByError
  <2> QED
    BY <1>1, <2>1, <2>2, <2>4, <2>5, PushesTypes
<1> QED
  BY <1>2, <1>3 DEF BinaryInstruction

LEMMA CallTypes ==
  ASSUME TypedTables, TypeInv, f_call PROVE TypeInv'
<1> DEFINE f == Instruction.arg
           c == Functions[f].code
           pops == PopsOf(f)
<1>1. Fetched /\ f \in DOMAIN Functions
  BY InstructionTypes DEF f_call
<1>2. stack \in Seq(Value) /\ dummy \in [DOMAIN Functions -> [0 .. 3 -> Value]]
  BY DEF TypeInv, TypeOK
<1>3. CASE IntError("function") /\ UNCHANGED <<stack, dummy>>
  BY <1>2, <1>3, ErrorTypes
<1>4. CASE Corrupts(pops, 0)
  BY <1>4, CorruptTypes
<1>5. CASE /\ Functions[f].defined /\ Fits(pops, 0)
           /\ dummy' = [dummy EXCEPT ![f] = Filled(f)]
           /\ stack' = PopN(stack, pops)
           /\ frames' = Append([frames EXCEPT ![Len(frames)].pc = @ + 1],
                               [code |-> c, pc |-> 1])
           /\ UNCHANGED <<undefined, program, status, outcome>>
  <2>1. PICK p \in Nat \ {0} : p = pops
    BY <1>1, <1>5 DEF TypedTables, PopsOf
  <2>2. PICK l \in Nat : l = Len(stack) /\ l >= p
    BY <1>2, <1>5, <2>1, LenProperties DEF Fits
  <2>3. stack' \in Seq(Value)
    BY <1>2, <1>5, <2>1, <2>2, PoppedValues
  <2>4. Filled(f) \in [0 .. 3 -> Value]
    <3>1. ASSUME NEW i \in 0 .. 3, i < p PROVE TopAt(stack, p - 1 - i) \in Value
      <4>1. p - 1 - i \in Nat /\ l > p - 1 - i
        BY <2>1, <2>2, <3>1
      <4> QED
        BY <1>2, <2>2, <4>1, TopValues
    <3>2. \A i \in 0 .. 3 : dummy[f][i] \in Value
      BY <1>1, <1>2
    <3> QED
      BY <2>1, <3>1, <3>2 DEF Filled
  <2>5. dummy' \in [DOMAIN Functions -> [0 .. 3 -> Value]]
    BY <1>2, <1>5, <2>4
  <2>6. c \in Codes
    BY <1>1, <1>5 DEF Codes
  <2>7. frames' = Called(Moved(frames, Top.pc + 1), c)
    BY <1>5 DEF Moved, Called, Top
  <2>8. Top.pc + 1 \in 1 .. Len(Last(frames).code) + 1
    BY <1>1, AtPlace
  <2>9. Moved(frames, Top.pc + 1) \in Seq(Frame) /\ InCode(Moved(frames, Top.pc + 1))
    BY <1>1, <2>8, AtPlace, MovedTypes
  <2>10. frames' \in Seq(Frame) /\ InCode(frames')
    BY <2>6, <2>7, <2>9, CalledTypes
  <2>11. \A i \in DOMAIN frames' : frames'[i].pc \in 1 .. Len(frames'[i].code) + 1
    BY <2>10, InCodeIsTyped
  <2> QED
    BY <1>5, <2>3, <2>5, <2>10, <2>11 DEF TypeInv, TypeOK
<1> QED
  BY <1>3, <1>4, <1>5 DEF f_call

LEMMA JumpTypes ==
  ASSUME TypedTables, TypeInv, f_jump PROVE TypeInv'
<1>1. /\ Fetched /\ Instruction.op = "jump" /\ Advance(Instruction.arg)
      /\ UNCHANGED <<stack, undefined, dummy, program, status, outcome>>
  BY DEF f_jump
<1>2. Instruction.arg \in Int /\ Top.pc + Instruction.arg \in 1 .. Len(Top.code) + 1
  BY <1>1, InstructionTypes
<1>3. frames' \in Seq(Frame) /\ InCode(frames')
  BY <1>1, <1>2, AdvanceTypes
<1>4. \A i \in DOMAIN frames' : frames'[i].pc \in 1 .. Len(frames'[i].code) + 1
  BY <1>3, InCodeIsTyped
<1> QED
  BY <1>1, <1>3, <1>4 DEF TypeInv, TypeOK

LEMMA ConditionalTypes ==
  ASSUME TypedTables, TypeInv, ConditionalJump PROVE TypeInv'
<1> DEFINE op == Instruction.op
           v == TopAt(stack, 0)
<1>1. Fetched /\ op \in {"jumpz", "jumpnz", "jtern"}
  BY DEF ConditionalJump
<1>2. stack \in Seq(Value)
  BY DEF TypeInv, TypeOK
<1>3. CASE Corrupts(1, 0)
  BY <1>3, CorruptTypes
<1>4. ASSUME Fits(1, 0) PROVE PopN(stack, 1) \in Seq(Value)
  BY <1>2, <1>4, PoppedValues DEF Fits
<1>5. CASE /\ Fits(1, 0) /\ UNCHANGED dummy /\ IntError("boolean")
           /\ stack' = IF op = "jtern" THEN PopN(stack, 1) ELSE stack
  <2>1. "boolean" \in Complaints /\ stack' \in Seq(Value)
    BY <1>2, <1>4, <1>5 DEF Complaints
  <2> QED
    BY <1>5, <2>1, ErrorTypes
<1>6. CASE /\ Fits(1, 0) /\ UNCHANGED dummy
           /\ stack' = IF Keeps(op, v) THEN stack ELSE PopN(stack, 1)
           /\ Advance(Offset(op, v, Instruction.arg))
           /\ UNCHANGED <<undefined, program, status, outcome>>
  <2>1. stack' \in Seq(Value)
    BY <1>2, <1>4, <1>6
  <2>2. Instruction.arg \in Int /\ Top.pc + Instruction.arg \in 1 .. Len(Top.code) + 1
    BY <1>1, InstructionTypes
  <2>3. Top.pc + 1 \in 1 .. Len(Top.code) + 1
    BY <1>1, AtPlace
  <2>4. PICK j \in {1, Instruction.arg} : j = Offset(op, v, Instruction.arg)
    BY DEF Offset
  <2>5. frames' \in Seq(Frame) /\ InCode(frames')
    BY <1>1, <1>6, <2>2, <2>3, <2>4, AdvanceTypes
  <2>6. \A i \in DOMAIN frames' : frames'[i].pc \in 1 .. Len(frames'[i].code) + 1
    BY <2>5, InCodeIsTyped
  <2> QED
    BY <1>6, <2>1, <2>5, <2>6 DEF TypeInv, TypeOK
<1> QED
  BY <1>3, <1>5, <1>6, Zenon DEF ConditionalJump

LEMMA BeginTypes ==
  ASSUME TypedTables, TypeInv, Begin PROVE TypeInv'
<1>1. /\ stack' = <<>> /\ undefined' = FALSE /\ status' = "running"
      /\ frames' = Called(<<>>, Programs[program])
      /\ UNCHANGED <<dummy, program, outcome>>
  BY DEF Begin, reset_stack, Called
<1>2. Programs[program] \in Codes
  BY DEF TypeInv, TypeOK, Codes
<1>3. <<>> \in Seq(Frame) /\ InCode(<<>>) /\ <<>> \in Seq(Value)
  BY EmptySeq DEF InCode
<1>4. frames' \in Seq(Frame) /\ InCode(frames')
  BY <1>1, <1>2, <1>3, CalledTypes
<1>5. \A i \in DOMAIN frames' : frames'[i].pc \in 1 .. Len(frames'[i].code) + 1
  BY <1>4, InCodeIsTyped
<1> QED
  BY <1>1, <1>3, <1>4, <1>5 DEF TypeInv, TypeOK

LEMMA ReturnTypes ==
  ASSUME TypedTables, TypeInv, Return PROVE TypeInv'
<1>1. /\ frames # <<>> /\ frames' = PopN(frames, 1)
      /\ UNCHANGED <<stack, undefined, dummy, program, status, outcome>>
  BY DEF Return
<1>2. frames' \in Seq(Frame) /\ InCode(frames')
  BY <1>1, FramesInCode, LeftTypes DEF TypeInv
<1>3. \A i \in DOMAIN frames' : frames'[i].pc \in 1 .. Len(frames'[i].code) + 1
  BY <1>2, InCodeIsTyped
<1> QED
  BY <1>1, <1>2, <1>3 DEF TypeInv, TypeOK

LEMMA FinishTypes ==
  ASSUME TypeInv, Finish PROVE TypeInv'
<1>1. UNCHANGED <<undefined, dummy, frames, program>>
  BY DEF Finish
<1>2. CASE status' = "corrupt" /\ UNCHANGED <<stack, outcome>>
  BY <1>1, <1>2 DEF TypeInv, TypeOK
<1>3. CASE /\ stack # <<>> /\ stack' = PopN(stack, 1) /\ status' = "done"
           /\ outcome' = [value |-> TopAt(stack, 0), undefined |-> undefined,
                          error |-> check_stack(PopN(stack, 1))]
  <2>1. PICK l \in Nat : l = Len(stack) /\ l >= 1
    BY <1>3, StackTypes
  <2>2. stack' \in Seq(Value) /\ TopAt(stack, 0) \in Value
    BY <1>3, <2>1, StackTypes, PoppedValues, TopValues
  <2>3. outcome'.value \in Value /\ outcome'.undefined \in BOOLEAN
        /\ outcome'.error \in {"", "warning"}
    BY <1>3, <2>2 DEF TypeInv, TypeOK, check_stack
  <2> QED
    BY <1>1, <1>3, <2>2, <2>3 DEF TypeInv, TypeOK
<1> QED
  BY <1>2, <1>3 DEF Finish

LEMMA TypeInitial == ASSUME Init PROVE TypeInv
<1>1. Integer(0) \in Value /\ Integer(1) \in Value
  BY Integers
<1>2. <<>> \in Seq(Value) /\ <<Integer(1)>> \in Seq(Value)
  BY <1>1
<1>3. <<>> \in Seq(Frame) /\ DOMAIN <<>> = {}
  OBVIOUS
<1>4. stack \in Seq(Value) /\ frames \in Seq(Frame) /\ DOMAIN frames = {}
  BY <1>2, <1>3 DEF Init
<1>5. dummy \in [DOMAIN Functions -> [0 .. 3 -> Value]]
  BY <1>1 DEF Init
<1>6. outcome.value \in Value /\ outcome.undefined \in BOOLEAN /\ outcome.error = ""
  BY <1>1 DEF Init, NoOutcome
<1> QED
  BY <1>4, <1>5, <1>6 DEF Init, TypeInv, TypeOK

LEMMA TypeStep ==
  ASSUME TypedTables, TypeInv, [Next]_vars PROVE TypeInv'
<1>1. CASE UNCHANGED vars
  BY <1>1 DEF vars, TypeInv, TypeOK
<1> QED
  BY <1>1, BeginTypes, ReturnTypes, PushTypes, UnaryInstructionTypes, BinaryInstructionTypes,
     CallTypes, JumpTypes, ConditionalTypes, FinishTypes DEF Next, Step

(* Type correctness, whatever the programs do to the stack: the machine    *)
(* computes with values, keeps values in the cells of the functions, is at *)
(* a place of its code, and ends with one of the int_errors or the         *)
(* caller's warning.                                                       *)
THEOREM TypeCorrect ==
  ASSUME TypedTables PROVE Spec => []TypeOK
<1>1. Init => TypeInv
  BY TypeInitial
<1>2. TypeInv /\ [Next]_vars => TypeInv'
  BY TypeStep
<1>3. TypeInv => TypeOK
  BY DEF TypeInv
<1> QED
  BY <1>1, <1>2, <1>3, PTL DEF Spec

(***************************************************************************)
(* Configurations of a running program                                     *)
(***************************************************************************)

Cells == [DOMAIN Functions -> [0 .. 3 -> Value]]
Conf == [frames : Seq(Frame), stack : Seq(Value), undefined : BOOLEAN, dummy : Cells]

(* The machine's own.                                                      *)
Now == [frames |-> frames, stack |-> stack, undefined |-> undefined, dummy |-> dummy]

TopOf(c) == Last(c.frames)
Goes(c, s, u, j) ==
  [frames |-> Moved(c.frames, TopOf(c).pc + j), stack |-> s, undefined |-> u, dummy |-> c.dummy]

(* What an int_error leaves, and what the caller takes, belong to S.       *)
EndsWell(text, u, S) == \E o \in S : o.error = text /\ o.undefined = u
Taken(c) == [value |-> TopAt(c.stack, 0), undefined |-> c.undefined,
             error |-> check_stack(PopN(c.stack, 1))]

(* Each outcome in T leads to a member of X, or ends well.                 *)
Results(c, pops, T, X, S) ==
  \A o \in T :
    /\ o.error # "" => EndsWell(o.error, c.undefined, S)
    /\ o.error = "" => Goes(c, push(PopN(c.stack, pops), o.value), c.undefined \/ o.undefined, 1) \in X

SourcesIn(dm, ins) ==
  CASE ins.op = "push" -> f_push(ins.arg) [] ins.op = "pushc" -> Gives(ins.arg)
    [] ins.op = "pushd" -> Gives(dm[ins.arg.f][ins.arg.i]) [] ins.op = "rand" -> f_rand

FilledIn(s, dm, f) ==
  [i \in 0 .. 3 |-> IF i < PopsOf(f) THEN TopAt(s, PopsOf(f) - 1 - i) ELSE dm[f][i]]

Returns(c) ==
  [frames |-> PopN(c.frames, 1), stack |-> c.stack, undefined |-> c.undefined, dummy |-> c.dummy]

Enters(c, f) ==
  [frames |-> Called(Moved(c.frames, TopOf(c).pc + 1), Functions[f].code),
   stack |-> PopN(c.stack, PopsOf(f)), undefined |-> c.undefined,
   dummy |-> [c.dummy EXCEPT ![f] = FilledIn(c.stack, c.dummy, f)]]

Branches(c, op, j, X, S) ==
  LET v == TopAt(c.stack, 0) IN
  /\ ~ IsInt(v) => EndsWell("boolean", c.undefined, S)
  /\ IsInt(v) => Goes(c, IF Keeps(op, v) THEN c.stack ELSE PopN(c.stack, 1), c.undefined,
                      Offset(op, v, j)) \in X

(* The instruction ins leads from c to X, or ends well, if the stack is    *)
(* deep enough for it.                                                     *)
Follows(c, ins, X, S) ==
  /\ ins.op \in PushOps => Results(c, 0, SourcesIn(c.dummy, ins), X, S)
  /\ ins.op \in UnaryOps => Results(c, 1, Unary(ins.op, TopAt(c.stack, 0)), X, S)
  /\ ins.op \in BinaryOps =>
       Results(c, 2, Binary(ins.op, TopAt(c.stack, 1), TopAt(c.stack, 0)), X, S)
  /\ ins.op = "call" =>
       /\ ~ Functions[ins.arg].defined => EndsWell("function", c.undefined, S)
       /\ Functions[ins.arg].defined => Enters(c, ins.arg) \in X
  /\ ins.op = "jump" => Goes(c, c.stack, c.undefined, ins.arg) \in X
  /\ ins.op \in {"jumpz", "jumpnz", "jtern"} => Branches(c, ins.op, ins.arg, X, S)

(* One step leads from c to X, or ends well.                               *)
Sound(c, X, S) ==
  /\ c.frames = <<>> /\ c.stack # <<>> => Taken(c) \in S
  /\ c.frames # <<>> /\ TopOf(c).pc > Len(TopOf(c).code) =>
       Returns(c) \in X
  /\ c.frames # <<>> /\ TopOf(c).pc <= Len(TopOf(c).code) =>
       Follows(c, TopOf(c).code[TopOf(c).pc], X, S)

(* All steps from here end well: the largest set of such configurations.   *)
Safe(S) == UNION {X \in SUBSET Conf : \A c \in X : Sound(c, X, S)}

LEMMA SoundGrows ==
  ASSUME NEW c, NEW X, NEW Y, NEW S, X \subseteq Y, Sound(c, X, S) PROVE Sound(c, Y, S)
<1>1. ASSUME NEW ins, Follows(c, ins, X, S) PROVE Follows(c, ins, Y, S)
  <2>1. \A pops, T : Results(c, pops, T, X, S) => Results(c, pops, T, Y, S)
    BY DEF Results
  <2>2. \A op, j : Branches(c, op, j, X, S) => Branches(c, op, j, Y, S)
    BY DEF Branches
  <2> QED
    BY <1>1, <2>1, <2>2 DEF Follows
<1> QED
  BY <1>1 DEF Sound

LEMMA SafeIsSound ==
  ASSUME NEW S, NEW c \in Safe(S) PROVE c \in Conf /\ Sound(c, Safe(S), S)
<1>1. PICK X \in SUBSET Conf : c \in X /\ \A d \in X : Sound(d, X, S)
  BY DEF Safe
<1>2. X \subseteq Safe(S)
  BY <1>1, Zenon DEF Safe
<1> QED
  BY <1>1, <1>2, SoundGrows

LEMMA SoundIsSafe ==
  ASSUME NEW S, NEW c \in Conf, Sound(c, Safe(S), S) PROVE c \in Safe(S)
<1> DEFINE X == Safe(S) \cup {c}
<1>1. X \subseteq Conf
  BY SafeIsSound
<1>2. ASSUME NEW d \in X PROVE Sound(d, X, S)
  <2>1. Sound(d, Safe(S), S)
    BY SafeIsSound
  <2> QED
    BY <2>1, SoundGrows
<1>3. c \in X
  OBVIOUS
<1> HIDE DEF X
<1> QED
  BY <1>1, <1>2, <1>3, Zenon DEF Safe

(***************************************************************************)
(* The machine steps as its configuration does                             *)
(***************************************************************************)

(* The machine runs on safely, or has ended as S allows.                   *)
Fine(S) ==
  /\ status = "running" => Now \in Safe(S)
  /\ status = "done" => outcome \in S
  /\ status = "error" => EndsWell(outcome.error, outcome.undefined, S)

LEMMA NowIs ==
  /\ Now.frames = frames /\ Now.stack = stack /\ Now.undefined = undefined /\ Now.dummy = dummy
  /\ TopOf(Now) = Top
  BY DEF Now, TopOf, Top, Last

(* The rule of the instruction the machine is at.                          *)
LEMMA FollowsNow ==
  ASSUME NEW S, Now \in Safe(S), Fetched
  PROVE  Follows(Now, Instruction, Safe(S), S)
<1>1. Sound(Now, Safe(S), S)
  BY SafeIsSound
<1>2. frames # <<>> /\ Top.pc <= Len(Top.code)
  BY DEF Fetched
<1> QED
  BY <1>1, <1>2, NowIs DEF Sound, Instruction

LEMMA ErrorFine ==
  ASSUME NEW S, NEW text, IntError(text), EndsWell(text, undefined, S) PROVE Fine(S)'
<1>1. status' = "error" /\ outcome' = [value |-> Integer(0), undefined |-> undefined, error |-> text]
  BY DEF IntError, NoOutcome
<1>2. outcome'.undefined = undefined /\ outcome'.error = text
  BY <1>1
<1> QED
  BY <1>1, <1>2 DEF Fine, EndsWell

LEMMA CorruptFine ==
  ASSUME NEW S, status' = "corrupt" PROVE Fine(S)'
  BY DEF Fine

LEMMA GoesFine ==
  ASSUME NEW S, NEW s, NEW u, NEW j, Goes(Now, s, u, j) \in Safe(S), Advance(j),
         stack' = s, undefined' = u, UNCHANGED <<dummy, status>>, status = "running"
  PROVE  Fine(S)'
<1>1. frames' = Moved(frames, Top.pc + j)
  BY DEF Advance, Moved, Top
<1>2. Now' = Goes(Now, s, u, j)
  BY <1>1, NowIs DEF Now, Goes
<1> QED
  BY <1>2 DEF Fine

LEMMA PushesFine ==
  ASSUME NEW S, NEW pops, NEW T, Results(Now, pops, T, Safe(S), S), status = "running",
         NEW o \in T, Pushes(pops, o)
  PROVE  Fine(S)'
<1>1. CASE o.error # ""
  <2>1. IntError(o.error) /\ EndsWell(o.error, undefined, S)
    BY <1>1, NowIs DEF Pushes, Results
  <2> QED
    BY <2>1, ErrorFine
<1>2. CASE o.error = ""
  <2>1. /\ stack' = push(PopN(stack, pops), o.value) /\ undefined' = (undefined \/ o.undefined)
        /\ Advance(1) /\ UNCHANGED <<dummy, status>>
    BY <1>2 DEF Pushes
  <2>2. Goes(Now, push(PopN(stack, pops), o.value), undefined \/ o.undefined, 1) \in Safe(S)
    BY <1>2, NowIs DEF Results
  <2> QED
    BY <2>1, <2>2, GoesFine
<1> QED
  BY <1>1, <1>2

LEMMA ComputesFine ==
  ASSUME NEW S, Now \in Safe(S), status = "running",
         PushInstruction \/ UnaryInstruction \/ BinaryInstruction
  PROVE  Fine(S)'
<1>1. Fetched /\ Follows(Now, Instruction, Safe(S), S)
  BY FollowsNow DEF PushInstruction, UnaryInstruction, BinaryInstruction
<1> DEFINE op == Instruction.op
<1>2. CASE PushInstruction
  <2>1. op \in PushOps
    BY <1>2 DEF PushInstruction, PushOps
  <2>2. Sources(Instruction) = SourcesIn(dummy, Instruction)
    BY <2>1 DEF Sources, SourcesIn, PushOps, f_pushd
  <2>3. Results(Now, 0, Sources(Instruction), Safe(S), S)
    BY <1>1, <2>1, <2>2, NowIs DEF Follows
  <2>4. Corrupts(0, 1) \/ \E o \in Sources(Instruction) : Pushes(0, o)
    BY <1>2 DEF PushInstruction
  <2> QED
    BY <2>3, <2>4, CorruptFine, PushesFine DEF Corrupts
<1>3. CASE UnaryInstruction
  <2>1. Results(Now, 1, Unary(op, TopAt(stack, 0)), Safe(S), S)
    BY <1>1, <1>3, NowIs DEF Follows, UnaryInstruction
  <2>2. \/ Corrupts(1, Above(op))
        \/ \E o \in Unary(op, TopAt(stack, 0)) : Pushes(1, o)
    BY <1>3 DEF UnaryInstruction
  <2> QED
    BY <2>1, <2>2, CorruptFine, PushesFine DEF Corrupts
<1>4. CASE BinaryInstruction
  <2>1. Results(Now, 2, Binary(op, TopAt(stack, 1), TopAt(stack, 0)), Safe(S), S)
    BY <1>1, <1>4, NowIs DEF Follows, BinaryInstruction
  <2>2. Corrupts(2, 0) \/ \E o \in Binary(op, TopAt(stack, 1), TopAt(stack, 0)) : Pushes(2, o)
    BY <1>4 DEF BinaryInstruction
  <2> QED
    BY <2>1, <2>2, CorruptFine, PushesFine DEF Corrupts
<1> QED
  BY <1>2, <1>3, <1>4

LEMMA CallFine ==
  ASSUME NEW S, Now \in Safe(S), status = "running", f_call PROVE Fine(S)'
<1> DEFINE f == Instruction.arg
<1>1. Fetched /\ Instruction.op = "call"
  BY DEF f_call
<1>2. /\ ~ Functions[f].defined => EndsWell("function", undefined, S)
      /\ Functions[f].defined => Enters(Now, f) \in Safe(S)
  BY <1>1, FollowsNow, NowIs DEF Follows
<1>3. CASE ~ Functions[f].defined /\ IntError("function")
  BY <1>2, <1>3, ErrorFine
<1>4. CASE Functions[f].defined /\ Corrupts(PopsOf(f), 0)
  BY <1>4, CorruptFine DEF Corrupts
<1>5. CASE /\ Functions[f].defined
           /\ dummy' = [dummy EXCEPT ![f] = Filled(f)]
           /\ stack' = PopN(stack, PopsOf(f))
           /\ frames' = Append([frames EXCEPT ![Len(frames)].pc = @ + 1],
                               [code |-> Functions[f].code, pc |-> 1])
           /\ UNCHANGED <<undefined, program, status, outcome>>
  <2>1. frames' = Called(Moved(frames, Top.pc + 1), Functions[f].code)
    BY <1>5 DEF Moved, Called, Top
  <2>2. Filled(f) = FilledIn(stack, dummy, f)
    BY DEF Filled, FilledIn
  <2>3. Now' = Enters(Now, f)
    BY <1>5, <2>1, <2>2, NowIs DEF Now, Enters
  <2> QED
    BY <1>2, <1>5, <2>3 DEF Fine
<1> QED
  BY <1>3, <1>4, <1>5 DEF f_call

LEMMA JumpFine ==
  ASSUME NEW S, Now \in Safe(S), status = "running", f_jump PROVE Fine(S)'
<1>1. /\ Fetched /\ Instruction.op = "jump" /\ Advance(Instruction.arg)
      /\ UNCHANGED <<stack, undefined, dummy, status>>
  BY DEF f_jump
<1>2. Goes(Now, stack, undefined, Instruction.arg) \in Safe(S)
  BY <1>1, FollowsNow, NowIs DEF Follows
<1> QED
  BY <1>1, <1>2, GoesFine

LEMMA ConditionalFine ==
  ASSUME NEW S, Now \in Safe(S), status = "running", ConditionalJump PROVE Fine(S)'
<1> DEFINE op == Instruction.op
           v == TopAt(stack, 0)
           j == Offset(op, v, Instruction.arg)
           s == IF Keeps(op, v) THEN stack ELSE PopN(stack, 1)
<1>1. Fetched /\ op \in {"jumpz", "jumpnz", "jtern"}
  BY DEF ConditionalJump
<1>2. Branches(Now, op, Instruction.arg, Safe(S), S)
  BY <1>1, FollowsNow DEF Follows
<1>3. /\ ~ IsInt(v) => EndsWell("boolean", undefined, S)
      /\ IsInt(v) => Goes(Now, s, undefined, j) \in Safe(S)
  BY <1>2, NowIs DEF Branches
<1>4. CASE Corrupts(1, 0)
  BY <1>4, CorruptFine DEF Corrupts
<1>5. CASE ~ IsInt(v) /\ IntError("boolean")
  BY <1>3, <1>5, ErrorFine
<1>6. CASE /\ IsInt(v) /\ UNCHANGED dummy /\ stack' = s /\ Advance(j)
           /\ UNCHANGED <<undefined, program, status, outcome>>
  BY <1>3, <1>6, GoesFine
<1> QED
  BY <1>4, <1>5, <1>6, Zenon DEF ConditionalJump

LEMMA ReturnFine ==
  ASSUME NEW S, Now \in Safe(S), status = "running", Return PROVE Fine(S)'
<1>1. /\ frames # <<>> /\ Top.pc > Len(Top.code) /\ frames' = PopN(frames, 1)
      /\ UNCHANGED <<stack, undefined, dummy, status>>
  BY DEF Return
<1>2. Returns(Now) \in Safe(S)
  BY <1>1, SafeIsSound, NowIs DEF Sound
<1>3. Now' = Returns(Now)
  BY <1>1, NowIs DEF Now, Returns
<1> QED
  BY <1>1, <1>2, <1>3 DEF Fine

LEMMA FinishFine ==
  ASSUME NEW S, Now \in Safe(S), status = "running", Finish PROVE Fine(S)'
<1>1. frames = <<>>
  BY DEF Finish
<1>2. CASE stack = <<>>
  BY <1>2, CorruptFine DEF Finish
<1>3. CASE stack # <<>>
  <2>1. status' = "done" /\ outcome' = Taken(Now)
    BY <1>3, NowIs DEF Finish, Taken
  <2>2. Sound(Now, Safe(S), S)
    BY SafeIsSound
  <2>3. Taken(Now) \in S
    BY <1>1, <1>3, <2>2, NowIs DEF Sound
  <2> QED
    BY <2>1, <2>3 DEF Fine
<1> QED
  BY <1>2, <1>3

(* From a safe configuration the machine steps to one, or ends well.       *)
LEMMA StepFine ==
  ASSUME NEW S, Fine(S), status = "running", Step PROVE Fine(S)'
<1>1. Now \in Safe(S)
  BY DEF Fine
<1> QED
  BY <1>1, ComputesFine, CallFine, JumpFine, ConditionalFine, ReturnFine, FinishFine DEF Step

(***************************************************************************)
(* A run of the code c over the frames fr, at place i                      *)
(***************************************************************************)

Run(fr, c, i, s, u, dm) ==
  [frames |-> Append(fr, [code |-> c, pc |-> i]), stack |-> s, undefined |-> u, dummy |-> dm]

InRun(fr, c, i, s, u, dm) ==
  /\ fr \in Seq(Frame) /\ c \in Codes /\ Len(c) \in Nat /\ i \in 1 .. Len(c) + 1
  /\ s \in Seq(Value) /\ u \in BOOLEAN /\ dm \in Cells

LEMMA RunFrames ==
  ASSUME NEW fr \in Seq(Frame), NEW c \in Codes, NEW i \in Nat, NEW t \in Nat
  PROVE  LET to == Append(fr, [code |-> c, pc |-> i]) IN
         /\ to \in Seq(Frame) /\ to # <<>> /\ Last(to) = [code |-> c, pc |-> i]
         /\ Moved(to, t) = Append(fr, [code |-> c, pc |-> t])
         /\ PopN(to, 1) = fr
<1>1. PICK n \in Nat : n = Len(fr)
  BY LenProperties
<1>2. PICK x \in Frame, y \in Frame : x = [code |-> c, pc |-> i] /\ y = [code |-> c, pc |-> t]
  BY DEF Frame
<1>3. PICK to : to = Append(fr, x)
  OBVIOUS
<1>4. /\ to \in Seq(Frame) /\ to # <<>> /\ Len(to) = n + 1 /\ to[n + 1] = x
      /\ \A j \in 1 .. n : to[j] = fr[j]
  BY <1>1, <1>3, AppendProperties
<1>5. PICK on : on = Append(fr, y)
  OBVIOUS
<1>6. /\ on \in Seq(Frame) /\ Len(on) = n + 1 /\ on[n + 1] = y
      /\ \A j \in 1 .. n : on[j] = fr[j]
  BY <1>1, <1>5, AppendProperties
<1>7. Last(to) = x
  BY <1>4 DEF Last
<1>8. Moved(to, t) = on
  <2>1. [x EXCEPT !.pc = t] = y
    BY <1>2
  <2>2. PICK m : m = Moved(to, t) /\ m = [to EXCEPT ![n + 1] = y]
    BY <1>4, <2>1 DEF Moved
  <2>3. n + 1 \in 1 .. Len(to)
    BY <1>4
  <2>4. /\ m \in Seq(Frame) /\ Len(m) = n + 1 /\ m[n + 1] = y
        /\ \A j \in 1 .. n + 1 : j # n + 1 => m[j] = to[j]
    BY <1>4, <2>2, <2>3, ExceptSeq
  <2>5. \A j \in 1 .. n + 1 : m[j] = on[j]
    BY <1>4, <1>6, <2>4
  <2>6. m = on
    BY <1>6, <2>4, <2>5, SeqEqual
  <2> QED
    BY <2>2, <2>6
<1>9. PopN(to, 1) = fr
  <2>1. PICK m : m = PopN(to, 1) /\ m = SubSeq(to, 1, n)
    <3>1. Len(to) - 1 = n
      BY <1>4
    <3> QED
      BY <3>1 DEF PopN
  <2>2. \A j \in 1 .. n : to[j] \in Frame
    BY <1>4, ElementOfSeq
  <2>3. /\ m \in Seq(Frame) /\ Len(m) = n
        /\ \A j \in 1 .. n : m[j] = to[j]
    BY <2>1, <2>2, SubSeqProperties
  <2>4. \A j \in 1 .. n : m[j] = fr[j]
    BY <1>4, <2>3
  <2>5. m = fr
    BY <1>1, <2>3, <2>4, SeqEqual
  <2> QED
    BY <2>1, <2>5
<1> QED
  BY <1>2, <1>3, <1>4, <1>5, <1>7, <1>8, <1>9

LEMMA RunIs ==
  ASSUME NEW fr, NEW c, NEW i, NEW s, NEW u, NEW dm, InRun(fr, c, i, s, u, dm),
         NEW r, r = Run(fr, c, i, s, u, dm)
  PROVE  /\ r \in Conf /\ r.frames # <<>> /\ r.stack = s /\ r.undefined = u /\ r.dummy = dm
         /\ TopOf(r) = [code |-> c, pc |-> i]
         /\ Returns(r) = [frames |-> fr, stack |-> s, undefined |-> u, dummy |-> dm]
<1> DEFINE to == Append(fr, [code |-> c, pc |-> i])
<1>1. fr \in Seq(Frame) /\ c \in Codes /\ i \in Nat
  BY DEF InRun
<1>2. r = [frames |-> to, stack |-> s, undefined |-> u, dummy |-> dm]
  BY DEF Run
<1>3. to \in Seq(Frame) /\ to # <<>> /\ Last(to) = [code |-> c, pc |-> i] /\ PopN(to, 1) = fr
  BY <1>1, RunFrames
<1> HIDE DEF to
<1>4. r.frames = to /\ r.stack = s /\ r.undefined = u /\ r.dummy = dm
  BY <1>2
<1>5. r \in Conf
  BY <1>2, <1>3 DEF Conf, InRun
<1>6. TopOf(r) = [code |-> c, pc |-> i]
  BY <1>3, <1>4 DEF TopOf
<1>7. Returns(r) = [frames |-> fr, stack |-> s, undefined |-> u, dummy |-> dm]
  BY <1>3, <1>4 DEF Returns
<1> QED
  BY <1>3, <1>4, <1>5, <1>6, <1>7

LEMMA RunGoes ==
  ASSUME NEW fr, NEW c, NEW i, NEW s, NEW u, NEW dm, InRun(fr, c, i, s, u, dm),
         NEW r, r = Run(fr, c, i, s, u, dm), NEW j \in Int, i + j \in Nat, NEW t, NEW v
  PROVE  Goes(r, t, v, j) = Run(fr, c, i + j, t, v, dm)
<1>1. fr \in Seq(Frame) /\ c \in Codes /\ i \in Nat
  BY DEF InRun
<1>2. r.frames = Append(fr, [code |-> c, pc |-> i]) /\ r.dummy = dm
  BY DEF Run
<1>3. TopOf(r).pc + j = i + j
  BY RunIs
<1>4. Moved(r.frames, i + j) = Append(fr, [code |-> c, pc |-> i + j])
  BY <1>1, <1>2, RunFrames
<1> QED
  BY <1>2, <1>3, <1>4 DEF Goes, Run

(* What the instruction at i does decides whether the run is safe.         *)
LEMMA InstructionRule ==
  ASSUME NEW S, NEW fr, NEW c, NEW i, NEW s, NEW u, NEW dm, InRun(fr, c, i, s, u, dm),
         i <= Len(c), Follows(Run(fr, c, i, s, u, dm), c[i], Safe(S), S)
  PROVE  Run(fr, c, i, s, u, dm) \in Safe(S)
<1>1. PICK r : r = Run(fr, c, i, s, u, dm)
  OBVIOUS
<1>2. r \in Conf /\ r.frames # <<>> /\ TopOf(r).code = c /\ TopOf(r).pc = i
  <2>1. r \in Conf /\ r.frames # <<>> /\ TopOf(r) = [code |-> c, pc |-> i]
    BY <1>1, RunIs
  <2> QED
    BY <2>1
<1>3. ~ i > Len(c)
  BY DEF InRun
<1>4. Sound(r, Safe(S), S)
  BY <1>1, <1>2, <1>3 DEF Sound
<1> QED
  BY <1>1, <1>2, <1>4, SoundIsSafe

LEMMA ReturnRule ==
  ASSUME NEW S, NEW fr, NEW c, NEW s, NEW u, NEW dm, InRun(fr, c, Len(c) + 1, s, u, dm),
         [frames |-> fr, stack |-> s, undefined |-> u, dummy |-> dm] \in Safe(S)
  PROVE  Run(fr, c, Len(c) + 1, s, u, dm) \in Safe(S)
<1>1. PICK r : r = Run(fr, c, Len(c) + 1, s, u, dm)
  OBVIOUS
<1>2. /\ r \in Conf /\ r.frames # <<>> /\ TopOf(r).code = c /\ TopOf(r).pc = Len(c) + 1
      /\ Returns(r) \in Safe(S)
  BY <1>1, RunIs
<1>3. ~ Len(c) + 1 <= Len(c)
  BY DEF InRun
<1>4. Sound(r, Safe(S), S)
  BY <1>1, <1>2, <1>3 DEF Sound
<1> QED
  BY <1>1, <1>2, <1>4, SoundIsSafe

(* The stack with one and two values on top.                               *)
LEMMA OneOnTop ==
  ASSUME NEW s \in Seq(Value), NEW v \in Value
  PROVE  /\ push(s, v) \in Seq(Value) /\ TopAt(push(s, v), 0) = v
         /\ PopN(push(s, v), 1) = s /\ PopN(s, 0) = s
<1>1. PICK n \in Nat : n = Len(s)
  BY LenProperties
<1>2. PICK t : t = push(s, v) /\ t = Append(s, v)
  BY DEF push
<1>3. /\ t \in Seq(Value) /\ Len(t) = n + 1 /\ t[n + 1] = v
      /\ \A j \in 1 .. n : t[j] = s[j]
  BY <1>1, <1>2, AppendProperties
<1>4. PICK m : m = PopN(t, 1) /\ m = SubSeq(t, 1, n)
  <2>1. Len(t) - 1 = n
    BY <1>3
  <2> QED
    BY <2>1 DEF PopN
<1>5. \A j \in 1 .. n : t[j] \in Value
  BY <1>3, ElementOfSeq
<1>6. m \in Seq(Value) /\ Len(m) = n /\ \A j \in 1 .. n : m[j] = t[j]
  BY <1>4, <1>5, SubSeqProperties
<1>7. m = s
  BY <1>1, <1>3, <1>6, SeqEqual
<1>8. PopN(s, 0) = s
  BY <1>1, SubSeqFull DEF PopN
<1>9. TopAt(t, 0) = v
  BY <1>3 DEF TopAt
<1> QED
  BY <1>2, <1>3, <1>4, <1>7, <1>8, <1>9

LEMMA TwoOnTop ==
  ASSUME NEW s \in Seq(Value), NEW l \in Value, NEW r \in Value
  PROVE  LET t == push(push(s, l), r) IN
         t \in Seq(Value) /\ TopAt(t, 0) = r /\ TopAt(t, 1) = l /\ PopN(t, 2) = s
<1>1. PICK n \in Nat : n = Len(s)
  BY LenProperties
<1>2. PICK a : a = push(s, l) /\ a = Append(s, l)
  BY DEF push
<1>3. /\ a \in Seq(Value) /\ Len(a) = n + 1 /\ a[n + 1] = l
      /\ \A j \in 1 .. n : a[j] = s[j]
  BY <1>1, <1>2, AppendProperties
<1>4. PICK t : t = push(a, r) /\ t = Append(a, r)
  BY DEF push
<1>5. /\ t \in Seq(Value) /\ Len(t) = n + 2 /\ t[n + 2] = r
      /\ \A j \in 1 .. n + 1 : t[j] = a[j]
  BY <1>1, <1>3, <1>4, AppendProperties
<1>6. PICK m : m = PopN(t, 2) /\ m = SubSeq(t, 1, n)
  <2>1. Len(t) - 2 = n
    BY <1>5
  <2> QED
    BY <2>1 DEF PopN
<1>7. \A j \in 1 .. n : t[j] \in Value
  BY <1>5, ElementOfSeq
<1>8. m \in Seq(Value) /\ Len(m) = n /\ \A j \in 1 .. n : m[j] = t[j]
  BY <1>6, <1>7, SubSeqProperties
<1>9. m = s
  <2>1. \A j \in 1 .. n : m[j] = s[j]
    BY <1>3, <1>5, <1>8
  <2> QED
    BY <1>1, <1>8, <2>1, SeqEqual
<1>10. TopAt(t, 0) = r /\ TopAt(t, 1) = l
  BY <1>1, <1>3, <1>5 DEF TopAt
<1> QED
  BY <1>2, <1>4, <1>5, <1>6, <1>9, <1>10

(***************************************************************************)
(* One rule for each kind of instruction                                   *)
(***************************************************************************)

(* The outcome o of an operator ends well, or its value on the stack s     *)
(* leads to a safe run from place i.                                       *)
Leads(o, S, fr, c, i, s, u, dm) ==
  /\ o.error # "" => EndsWell(o.error, u, S)
  /\ o.error = "" => Run(fr, c, i, push(s, o.value), u \/ o.undefined, dm) \in Safe(S)

LEMMA LeadsResults ==
  ASSUME NEW S, NEW fr, NEW c, NEW i, NEW t, NEW u, NEW dm, InRun(fr, c, i, t, u, dm),
         i <= Len(c), NEW pops, NEW s, PopN(t, pops) = s,
         NEW T, \A o \in T : Leads(o, S, fr, c, i + 1, s, u, dm)
  PROVE  Results(Run(fr, c, i, t, u, dm), pops, T, Safe(S), S)
<1>1. PICK r : r = Run(fr, c, i, t, u, dm)
  OBVIOUS
<1>2. r.stack = t /\ r.undefined = u
  BY <1>1, RunIs
<1>3. 1 \in Int /\ i + 1 \in Nat
  BY DEF InRun
<1>4. \A x, y : Goes(r, x, y, 1) = Run(fr, c, i + 1, x, y, dm)
  BY <1>1, <1>3, RunGoes
<1>5. Results(r, pops, T, Safe(S), S)
  BY <1>2, <1>4, ZenonT(60) DEF Results, Leads
<1> QED
  BY <1>1, <1>5

LEMMA PushRule ==
  ASSUME NEW S, NEW fr, NEW c, NEW i, NEW s, NEW u, NEW dm, InRun(fr, c, i, s, u, dm),
         i <= Len(c), c[i].op \in PushOps,
         \A o \in SourcesIn(dm, c[i]) : Leads(o, S, fr, c, i + 1, s, u, dm)
  PROVE  Run(fr, c, i, s, u, dm) \in Safe(S)
<1>1. PICK r : r = Run(fr, c, i, s, u, dm)
  OBVIOUS
<1>2. r.dummy = dm
  BY <1>1, RunIs
<1>3. s \in Seq(Value)
  BY DEF InRun
<1>4. PopN(s, 0) = s
  <2>1. PICK n \in Nat : n = Len(s)
    BY <1>3, LenProperties
  <2> QED
    BY <1>3, <2>1, SubSeqFull DEF PopN
<1>5. Results(r, 0, SourcesIn(dm, c[i]), Safe(S), S)
  BY <1>1, <1>4, LeadsResults
<1>6. Follows(r, c[i], Safe(S), S)
  BY <1>2, <1>5 DEF Follows, PushOps, UnaryOps, BinaryOps
<1> QED
  BY <1>1, <1>6, InstructionRule

LEMMA UnaryRule ==
  ASSUME NEW S, NEW fr, NEW c, NEW i, NEW s \in Seq(Value), NEW v \in Value, NEW u, NEW dm,
         InRun(fr, c, i, push(s, v), u, dm), i <= Len(c), c[i].op \in UnaryOps,
         \A o \in Unary(c[i].op, v) : Leads(o, S, fr, c, i + 1, s, u, dm)
  PROVE  Run(fr, c, i, push(s, v), u, dm) \in Safe(S)
<1>1. PICK t : t = push(s, v) /\ InRun(fr, c, i, t, u, dm)
  OBVIOUS
<1>2. PICK r : r = Run(fr, c, i, t, u, dm)
  OBVIOUS
<1>3. TopAt(t, 0) = v /\ PopN(t, 1) = s
  BY <1>1, OneOnTop
<1>4. r.stack = t
  BY <1>1, <1>2, RunIs
<1>5. Results(r, 1, Unary(c[i].op, v), Safe(S), S)
  BY <1>1, <1>2, <1>3, LeadsResults
<1>6. Follows(r, c[i], Safe(S), S)
  BY <1>3, <1>4, <1>5 DEF Follows, PushOps, UnaryOps, BinaryOps
<1> QED
  BY <1>1, <1>2, <1>6, InstructionRule

LEMMA BinaryRule ==
  ASSUME NEW S, NEW fr, NEW c, NEW i, NEW s \in Seq(Value), NEW l \in Value, NEW v \in Value,
         NEW u, NEW dm, InRun(fr, c, i, push(push(s, l), v), u, dm), i <= Len(c),
         c[i].op \in BinaryOps,
         \A o \in Binary(c[i].op, l, v) : Leads(o, S, fr, c, i + 1, s, u, dm)
  PROVE  Run(fr, c, i, push(push(s, l), v), u, dm) \in Safe(S)
<1>1. PICK t : t = push(push(s, l), v) /\ InRun(fr, c, i, t, u, dm)
  OBVIOUS
<1>2. PICK r : r = Run(fr, c, i, t, u, dm)
  OBVIOUS
<1>3. TopAt(t, 0) = v /\ TopAt(t, 1) = l /\ PopN(t, 2) = s
  BY <1>1, TwoOnTop
<1>4. r.stack = t
  BY <1>1, <1>2, RunIs
<1>5. Results(r, 2, Binary(c[i].op, l, v), Safe(S), S)
  BY <1>1, <1>2, <1>3, LeadsResults
<1>6. Follows(r, c[i], Safe(S), S)
  BY <1>3, <1>4, <1>5 DEF Follows, PushOps, UnaryOps, BinaryOps
<1> QED
  BY <1>1, <1>2, <1>6, InstructionRule

LEMMA JumpRule ==
  ASSUME NEW S, NEW fr, NEW c, NEW i, NEW s, NEW u, NEW dm, InRun(fr, c, i, s, u, dm),
         i <= Len(c), c[i].op = "jump", NEW j \in Nat, c[i].arg = j,
         Run(fr, c, i + j, s, u, dm) \in Safe(S)
  PROVE  Run(fr, c, i, s, u, dm) \in Safe(S)
<1>1. PICK r : r = Run(fr, c, i, s, u, dm)
  OBVIOUS
<1>2. r.stack = s /\ r.undefined = u
  BY <1>1, RunIs
<1>3. j \in Int /\ i + j \in Nat
  BY DEF InRun
<1>4. Goes(r, s, u, j) \in Safe(S)
  BY <1>1, <1>3, RunGoes
<1>5. Follows(r, c[i], Safe(S), S)
  BY <1>2, <1>4 DEF Follows, PushOps, UnaryOps, BinaryOps
<1> QED
  BY <1>1, <1>5, InstructionRule

(* What a jump leaves of the stack s and the value v on top.               *)
Rest(op, v, s) == IF Keeps(op, v) THEN push(s, v) ELSE s

LEMMA BranchRule ==
  ASSUME NEW S, NEW fr, NEW c, NEW i, NEW s \in Seq(Value), NEW v \in Value, NEW u, NEW dm,
         InRun(fr, c, i, push(s, v), u, dm), i <= Len(c),
         NEW op \in {"jumpz", "jumpnz", "jtern"}, c[i].op = op, NEW j \in Nat, c[i].arg = j,
         ~ IsInt(v) => EndsWell("boolean", u, S),
         IsInt(v) => Run(fr, c, i + Offset(op, v, j), Rest(op, v, s), u, dm) \in Safe(S)
  PROVE  Run(fr, c, i, push(s, v), u, dm) \in Safe(S)
<1>1. PICK t : t = push(s, v) /\ InRun(fr, c, i, t, u, dm)
  OBVIOUS
<1>2. PICK r : r = Run(fr, c, i, t, u, dm)
  OBVIOUS
<1>3. TopAt(t, 0) = v /\ PopN(t, 1) = s
  BY <1>1, OneOnTop
<1>4. r.stack = t /\ r.undefined = u
  BY <1>1, <1>2, RunIs
<1>5. PICK k \in Nat : k = Offset(op, v, j)
  BY DEF Offset
<1>6. k \in Int /\ i + k \in Nat
  BY <1>5 DEF InRun
<1>7. \A x, y : Goes(r, x, y, k) = Run(fr, c, i + k, x, y, dm)
  BY <1>1, <1>2, <1>6, RunGoes
<1>8. Branches(r, op, j, Safe(S), S)
  BY <1>1, <1>3, <1>4, <1>5, <1>7 DEF Branches, Rest
<1>9. Follows(r, c[i], Safe(S), S)
  BY <1>8 DEF Follows, PushOps, UnaryOps, BinaryOps
<1> QED
  BY <1>1, <1>2, <1>9, InstructionRule

(* A call of f leads into its code, over the frame of the caller.          *)
LEMMA CallRule ==
  ASSUME NEW S, NEW fr, NEW c, NEW i, NEW t, NEW u, NEW dm,
         InRun(fr, c, i, t, u, dm), i <= Len(c), c[i].op = "call", NEW f, c[i].arg = f,
         ~ Functions[f].defined => EndsWell("function", u, S),
         Functions[f].defined =>
           Run(Append(fr, [code |-> c, pc |-> i + 1]), Functions[f].code, 1, PopN(t, PopsOf(f)), u,
               [dm EXCEPT ![f] = FilledIn(t, dm, f)]) \in Safe(S)
  PROVE  Run(fr, c, i, t, u, dm) \in Safe(S)
<1>1. PICK r : r = Run(fr, c, i, t, u, dm)
  OBVIOUS
<1>2. /\ r.stack = t /\ r.undefined = u /\ r.dummy = dm
      /\ TopOf(r) = [code |-> c, pc |-> i]
  BY <1>1, RunIs
<1>3. fr \in Seq(Frame) /\ c \in Codes /\ i \in Nat /\ i + 1 \in Nat
  BY DEF InRun
<1>4. Moved(r.frames, TopOf(r).pc + 1) = Append(fr, [code |-> c, pc |-> i + 1])
  <2>1. r.frames = Append(fr, [code |-> c, pc |-> i])
    BY <1>1 DEF Run
  <2>2. TopOf(r).pc = i
    BY <1>2
  <2> QED
    BY <1>3, <2>1, <2>2, RunFrames
<1>5. Enters(r, f) =
        Run(Append(fr, [code |-> c, pc |-> i + 1]), Functions[f].code, 1, PopN(t, PopsOf(f)), u,
            [dm EXCEPT ![f] = FilledIn(t, dm, f)])
  BY <1>2, <1>4 DEF Enters, Run, Called
<1>6. Follows(r, c[i], Safe(S), S)
  BY <1>2, <1>5 DEF Follows, PushOps, UnaryOps, BinaryOps
<1> QED
  BY <1>1, <1>6, InstructionRule

(***************************************************************************)
(* Where a program is within another                                       *)
(***************************************************************************)

(* w sits at place i of c.                                                 *)
Sits(c, i, w) ==
  /\ i \in Nat \ {0} /\ Len(w) \in Nat /\ i + Len(w) <= Len(c) + 1
  /\ \A j \in 1 .. Len(w) : c[i - 1 + j] = w[j]

LEMMA ConcatIsSeq ==
  ASSUME NEW v, NEW w, IsSeq(v), IsSeq(w)
  PROVE  /\ IsSeq(v \o w) /\ Len(v) \in Nat /\ Len(w) \in Nat
         /\ Len(v \o w) = Len(v) + Len(w)
         /\ \A j \in 1 .. Len(v) + Len(w) :
              (v \o w)[j] = IF j <= Len(v) THEN v[j] ELSE w[j - Len(v)]
<1>1. PICK A : v \in Seq(A)
  BY DEF IsSeq
<1>2. PICK B : w \in Seq(B)
  BY DEF IsSeq
<1>3. v \in Seq(A \cup B) /\ w \in Seq(A \cup B)
  BY <1>1, <1>2, SeqMonotonic
<1> QED
  BY <1>3, ConcatProperties, LenProperties DEF IsSeq

LEMMA SitsConcat ==
  ASSUME NEW c, Len(c) \in Nat, NEW i, NEW v, NEW w, IsSeq(v), IsSeq(w), Sits(c, i, v \o w)
  PROVE  Sits(c, i, v) /\ Sits(c, i + Len(v), w)
<1>1. PICK x : x = v \o w
  OBVIOUS
<1>2. PICK m \in Nat, n \in Nat, k \in Nat : m = Len(v) /\ n = Len(w) /\ k = Len(c)
  BY ConcatIsSeq
<1>3. Len(x) = m + n
  BY <1>1, <1>2, ConcatIsSeq
<1>4. \A j \in 1 .. m + n : x[j] = IF j <= m THEN v[j] ELSE w[j - m]
  BY <1>1, <1>2, ConcatIsSeq
<1>5. i \in Nat \ {0} /\ i + (m + n) <= k + 1 /\ \A j \in 1 .. m + n : c[i - 1 + j] = x[j]
  BY <1>1, <1>2, <1>3 DEF Sits
<1>6. \A j \in 1 .. m : c[i - 1 + j] = v[j]
  BY <1>4, <1>5
<1>7. \A j \in 1 .. n : c[i + m - 1 + j] = w[j]
  <2>1. SUFFICES ASSUME NEW j \in 1 .. n PROVE c[i + m - 1 + j] = w[j]
    OBVIOUS
  <2>2. PICK l \in 1 .. m + n : l = m + j
    OBVIOUS
  <2>3. c[i - 1 + l] = x[l]
    BY <1>5
  <2>4. x[l] = w[l - m]
    BY <1>4, <2>2
  <2>5. i - 1 + l = i + m - 1 + j /\ l - m = j
    BY <1>5, <2>2
  <2> QED
    BY <2>3, <2>4, <2>5
<1> QED
  BY <1>2, <1>5, <1>6, <1>7 DEF Sits

LEMMA OneInstruction ==
  ASSUME NEW op, NEW arg, NEW w, w = Ins(op, arg)
  PROVE  IsSeq(w) /\ Len(w) = 1 /\ w[1] = [op |-> op, arg |-> arg]
<1>1. PICK r : r = [op |-> op, arg |-> arg]
  OBVIOUS
<1>2. w = <<r>>
  BY <1>1 DEF Ins
<1>3. w \in Seq({r}) /\ Len(w) = 1 /\ w[1] = r
  BY <1>2
<1> QED
  BY <1>1, <1>3 DEF IsSeq

LEMMA InstructionLen ==
  ASSUME NEW op, NEW arg PROVE IsSeq(Ins(op, arg)) /\ Len(Ins(op, arg)) = 1
<1>1. PICK r : r = [op |-> op, arg |-> arg]
  OBVIOUS
<1>2. Ins(op, arg) = <<r>>
  BY <1>1 DEF Ins
<1>3. <<r>> \in Seq({r}) /\ Len(<<r>>) = 1
  OBVIOUS
<1> QED
  BY <1>2, <1>3 DEF IsSeq

LEMMA SitsInstruction ==
  ASSUME NEW c, Len(c) \in Nat, NEW i, NEW op, NEW arg, Sits(c, i, Ins(op, arg))
  PROVE  i \in Nat \ {0} /\ i <= Len(c) /\ c[i].op = op /\ c[i].arg = arg
<1>1. PICK w : w = Ins(op, arg)
  OBVIOUS
<1>2. Len(w) = 1 /\ w[1] = [op |-> op, arg |-> arg]
  BY <1>1, OneInstruction
<1>3. i \in Nat \ {0} /\ i + 1 <= Len(c) + 1 /\ c[i - 1 + 1] = w[1]
  BY <1>1, <1>2 DEF Sits
<1>4. c[i] = [op |-> op, arg |-> arg]
  BY <1>2, <1>3
<1> QED
  BY <1>3, <1>4

(* The instruction at place k.                                             *)
IsAt(c, k, op, arg) ==
  k \in Nat \ {0} /\ k <= Len(c) /\ c[k].op = op /\ c[k].arg = arg

(* The places of an instruction behind v.                                  *)
LEMMA SitsBehind ==
  ASSUME NEW c, Len(c) \in Nat, NEW i, NEW v, IsSeq(v), NEW op, NEW arg,
         Sits(c, i, v \o Ins(op, arg))
  PROVE  /\ Sits(c, i, v) /\ IsAt(c, i + Len(v), op, arg)
         /\ IsSeq(v \o Ins(op, arg)) /\ Len(v \o Ins(op, arg)) = Len(v) + 1
<1>1. IsSeq(Ins(op, arg)) /\ Len(Ins(op, arg)) = 1
  BY InstructionLen
<1>2. Sits(c, i, v) /\ Sits(c, i + Len(v), Ins(op, arg))
  BY <1>1, SitsConcat
<1>3. IsSeq(v \o Ins(op, arg)) /\ Len(v \o Ins(op, arg)) = Len(v) + 1
  BY <1>1, ConcatIsSeq
<1> QED
  BY <1>2, <1>3, SitsInstruction DEF IsAt

(***************************************************************************)
(* An operator that fails has set no flag                                  *)
(***************************************************************************)

Quiet(T) == \A o \in T : o.error # "" => o.undefined = FALSE
Smooth(T) == AreOutcomes(T) /\ \A o \in T : o.error = ""

LEMMA QuietOutcomes ==
  ASSUME NEW v
  PROVE  /\ Quiet(Gives(v)) /\ Quiet(Undefined(v)) /\ Quiet(GivesAny(v)) /\ Quiet(Fails(v))
         /\ Smooth(Gives(v)) /\ Smooth(Undefined(v)) /\ Smooth(GivesAny(v))
<1>1. ASSUME NEW w, NEW o \in Gives(w) PROVE o.error = ""
  <2>1. o = [value |-> w, undefined |-> FALSE, error |-> ""]
    BY DEF Gives
  <2> QED
    BY <2>1
<1>2. ASSUME NEW o \in Undefined(v) PROVE o.error = ""
  <2>1. o = [value |-> v, undefined |-> TRUE, error |-> ""]
    BY DEF Undefined
  <2> QED
    BY <2>1
<1>3. ASSUME NEW o \in GivesAny(v) PROVE o.error = ""
  <2>1. PICK w \in v : o \in Gives(w)
    BY DEF GivesAny
  <2> QED
    BY <1>1, <2>1
<1>4. ASSUME NEW o \in Fails(v) PROVE o.undefined = FALSE
  <2>1. o = [value |-> Integer(0), undefined |-> FALSE, error |-> v]
    BY DEF Fails
  <2> QED
    BY <2>1
<1> QED
  BY <1>1, <1>2, <1>3, <1>4, Outcomes DEF Quiet, Smooth

LEMMA SmoothIsQuiet == ASSUME NEW T, Smooth(T) PROVE Quiet(T)
  BY DEF Smooth, Quiet

LEMMA SmoothAfter ==
  ASSUME NEW s, IsOutcome(s), s.error = "", NEW T, Smooth(T) PROVE Smooth(After(s, T))
<1>1. AreOutcomes(After(s, T))
  BY AfterOutcome DEF Smooth
<1>2. ASSUME NEW o \in After(s, T) PROVE o.error = ""
  <2>1. PICK q \in T : o = [q EXCEPT !.undefined = q.undefined \/ s.undefined]
    BY <1>2, Zenon DEF After
  <2>2. PICK x : x = (q.undefined \/ s.undefined)
    OBVIOUS
  <2>3. PICK v, u : q = [value |-> v, undefined |-> u, error |-> ""]
    <3>1. q = [value |-> q.value, undefined |-> q.undefined, error |-> q.error] /\ q.error = ""
      BY DEF Smooth, AreOutcomes, IsOutcome
    <3> QED
      BY <3>1
  <2>4. o = [q EXCEPT !.undefined = x]
    BY <2>1, <2>2, Zenon
  <2>5. o = [value |-> v, undefined |-> x, error |-> ""]
    BY <2>3, <2>4
  <2> QED
    BY <2>5
<1> QED
  BY <1>1, <1>2 DEF Smooth

(* A sine or cosine is a CMPLX, and its quotient never traps.              *)
LEMMA ComplexQuotients ==
  ASSUME NEW a, NEW b, ~ IsInt(a) PROVE Smooth(f_div(a, b))
  BY QuietOutcomes DEF f_div, BothInt

LEMMA ComplexSines ==
  ASSUME NEW a, NEW o \in f_sin(a) \cup f_cos(a)
  PROVE  ~ IsInt(o.value) /\ IsOutcome(o) /\ o.error = ""
<1>1. o \in GivesAny(AnyComplex)
  BY DEF f_sin, f_cos
<1>2. PICK v \in AnyComplex : o \in Gives(v)
  BY <1>1 DEF GivesAny
<1>3. PICK r, i : v = Complex(r, i)
  BY DEF AnyComplex
<1>4. o = [value |-> Complex(r, i), undefined |-> FALSE, error |-> ""]
  BY <1>2, <1>3 DEF Gives
<1>5. o.value.type = "CMPLX"
  BY <1>4 DEF Complex
<1> QED
  BY <1>1, <1>5, QuietOutcomes DEF Smooth, AreOutcomes, IsInt

LEMMA SmoothDivided ==
  ASSUME NEW a, NEW S, S \subseteq f_sin(a) \cup f_cos(a)
  PROVE  Smooth(Divided(S, a)) /\ Smooth(DividedTwice(S, a))
<1>1. Divided(S, a) = UNION {After(s, f_div(s.value, a)) : s \in S}
  BY DEF Divided, Then, After
<1>2. DividedTwice(S, a) =
        UNION {After(s, UNION {After(q, f_div(s.value, q.value)) : q \in f_mult(a, a)}) : s \in S}
  BY DEF DividedTwice, Then, After
<1>3. Smooth(f_mult(a, a))
  BY QuietOutcomes DEF f_mult
<1>4. ASSUME NEW s \in S
      PROVE  Smooth(UNION {After(q, f_div(s.value, q.value)) : q \in f_mult(a, a)})
  <2>1. ASSUME NEW q \in f_mult(a, a) PROVE Smooth(After(q, f_div(s.value, q.value)))
    <3>1. Smooth(f_div(s.value, q.value))
      BY ComplexSines, ComplexQuotients
    <3>2. IsOutcome(q) /\ q.error = ""
      BY <1>3 DEF Smooth, AreOutcomes
    <3> QED
      BY <3>1, <3>2, SmoothAfter
  <2> QED
    BY <2>1, Zenon DEF Smooth, AreOutcomes
<1>5. ASSUME NEW s \in S
      PROVE  /\ Smooth(After(s, f_div(s.value, a)))
             /\ Smooth(After(s, UNION {After(q, f_div(s.value, q.value)) : q \in f_mult(a, a)}))
  <2>1. IsOutcome(s) /\ s.error = "" /\ Smooth(f_div(s.value, a))
    BY ComplexSines, ComplexQuotients
  <2> QED
    BY <1>4, <2>1, SmoothAfter
<1>6. Smooth(Divided(S, a))
  BY <1>1, <1>5, Zenon DEF Smooth, AreOutcomes
<1>7. Smooth(DividedTwice(S, a))
  BY <1>2, <1>5, Zenon DEF Smooth, AreOutcomes
<1> QED
  BY <1>6, <1>7

LEMMA SmoothNegated ==
  ASSUME NEW S, Smooth(S) PROVE Smooth(Then(S, f_uminus))
<1>1. Then(S, f_uminus) = UNION {After(s, f_uminus(s.value)) : s \in S}
  BY DEF Then, After
<1>2. ASSUME NEW s \in S PROVE Smooth(After(s, f_uminus(s.value)))
  <2>1. IsOutcome(s) /\ s.error = "" /\ Smooth(f_uminus(s.value))
    BY QuietOutcomes DEF Smooth, AreOutcomes, f_uminus
  <2> QED
    BY <2>1, SmoothAfter
<1> QED
  BY <1>1, <1>2, Zenon DEF Smooth, AreOutcomes

LEMMA SmoothBessel ==
  ASSUME NEW a
  PROVE  /\ Smooth(f_besj0(a)) /\ Smooth(f_besj1(a))
         /\ Smooth(f_besy0(a)) /\ Smooth(f_besy1(a))
<1> DEFINE Sines == DividedTwice(f_sin(a), a)
           Cosines == DividedTwice(f_cos(a), a)
           ByCos(s) == UNION {After(c, f_minus(s.value, c.value)) : c \in Divided(f_cos(a), a)}
           BySin(s) == UNION {After(c, f_plus(s.value, c.value)) : c \in Divided(f_sin(a), a)}
<1>1. /\ f_besj0(a) = Divided(f_sin(a), a)
      /\ f_besy0(a) = Then(Divided(f_cos(a), a), f_uminus)
  BY DEF f_besj0, f_besy0, Divided
<1>2. f_besj1(a) = UNION {After(s, ByCos(s)) : s \in Sines}
  BY DEF f_besj1, Then, After
<1>3. f_besy1(a) = Then(UNION {After(s, BySin(s)) : s \in Cosines}, f_uminus)
  BY DEF f_besy1, Then, After
<1>4. /\ Smooth(Sines) /\ Smooth(Cosines)
      /\ Smooth(Divided(f_cos(a), a)) /\ Smooth(Divided(f_sin(a), a))
  BY SmoothDivided
<1> HIDE DEF Sines, Cosines
<1>5. ASSUME NEW s PROVE Smooth(ByCos(s)) /\ Smooth(BySin(s))
  <2>1. ASSUME NEW c \in Divided(f_cos(a), a) PROVE Smooth(After(c, f_minus(s.value, c.value)))
    <3>1. IsOutcome(c) /\ c.error = "" /\ Smooth(f_minus(s.value, c.value))
      BY <1>4, QuietOutcomes DEF Smooth, AreOutcomes, f_minus
    <3> QED
      BY <3>1, SmoothAfter
  <2>2. ASSUME NEW c \in Divided(f_sin(a), a) PROVE Smooth(After(c, f_plus(s.value, c.value)))
    <3>1. IsOutcome(c) /\ c.error = "" /\ Smooth(f_plus(s.value, c.value))
      BY <1>4, QuietOutcomes DEF Smooth, AreOutcomes, f_plus
    <3> QED
      BY <3>1, SmoothAfter
  <2>3. Smooth(ByCos(s))
    BY <2>1, Zenon DEF Smooth, AreOutcomes
  <2>4. Smooth(BySin(s))
    BY <2>2, Zenon DEF Smooth, AreOutcomes
  <2> QED
    BY <2>3, <2>4
<1> HIDE DEF ByCos, BySin
<1>6. Smooth(f_besj1(a))
  <2>1. ASSUME NEW s \in Sines PROVE Smooth(After(s, ByCos(s)))
    BY <1>4, <1>5, SmoothAfter DEF Smooth, AreOutcomes
  <2> QED
    BY <1>2, <2>1, Zenon DEF Smooth, AreOutcomes
<1>7. Smooth(f_besy1(a))
  <2>1. ASSUME NEW s \in Cosines PROVE Smooth(After(s, BySin(s)))
    BY <1>4, <1>5, SmoothAfter DEF Smooth, AreOutcomes
  <2>2. Smooth(UNION {After(s, BySin(s)) : s \in Cosines})
    BY <2>1, Zenon DEF Smooth, AreOutcomes
  <2> QED
    BY <1>3, <2>2, SmoothNegated
<1> QED
  BY <1>1, <1>4, <1>6, <1>7, SmoothNegated

LEMMA QuietUnary == ASSUME NEW a, NEW op \in UnaryOps PROVE Quiet(Unary(op, a))
<1>1. /\ Quiet(IntegerUnary(op, a)) /\ Quiet(f_factorial(a)) /\ Quiet(f_uminus(a))
      /\ Quiet(ArcSine(a)) /\ Quiet(f_atan(a)) /\ Quiet(f_sin(a)) /\ Quiet(f_cos(a))
  BY QuietOutcomes DEF IntegerUnary, f_factorial, f_uminus, ArcSine, f_atan, f_sin, f_cos
<1>2. Quiet(f_tan(a))
  <2>1. Quiet(GivesAny(AnyReal)) /\ Quiet(Undefined(a)) /\ Quiet(GivesAny(AnyComplex))
    BY QuietOutcomes
  <2> QED
    BY <2>1, Zenon DEF f_tan, Quiet
<1>3. /\ Quiet(Hyperbolic(a)) /\ Quiet(ExpLog(a)) /\ Quiet(f_int(a))
      /\ Quiet(f_abs(a)) /\ Quiet(f_sgn(a)) /\ Quiet(f_sqrt(a))
      /\ Quiet(Rounded(a)) /\ Quiet(f_srand(a))
  BY QuietOutcomes DEF Hyperbolic, ExpLog, f_int, f_abs, f_sgn, f_sqrt, Rounded, f_srand
<1>4. op \in {"real", "imag", "arg", "conjg"} => Quiet(PartOf(op, a))
  BY QuietOutcomes DEF PartOf
<1>5. /\ Quiet(f_besj0(a)) /\ Quiet(f_besj1(a)) /\ Quiet(f_besy0(a)) /\ Quiet(f_besy1(a))
  BY SmoothBessel, SmoothIsQuiet
<1> QED
  BY <1>1, <1>2, <1>3, <1>4, <1>5 DEF Unary, UnaryOps

LEMMA QuietBinary == ASSUME NEW a, NEW b, NEW op \in BinaryOps PROVE Quiet(Binary(op, a, b))
<1>1. /\ Quiet(IntegerBinary(op, a, b)) /\ Quiet(Ordered(op, a, b))
      /\ Quiet(f_eq(a, b)) /\ Quiet(f_ne(a, b))
  BY QuietOutcomes DEF IntegerBinary, Ordered, f_eq, f_ne
<1>2. /\ Quiet(f_mod(a, b)) /\ Quiet(f_power(a, b)) /\ Quiet(f_div(a, b))
      /\ Quiet(f_plus(a, b)) /\ Quiet(f_minus(a, b)) /\ Quiet(f_mult(a, b))
  BY QuietOutcomes DEF f_mod, f_power, f_div, f_plus, f_minus, f_mult
<1> QED
  BY <1>1, <1>2 DEF Binary, BinaryOps

LEMMA QuietSources ==
  ASSUME NEW dm, NEW ins, ins.op \in PushOps PROVE Quiet(SourcesIn(dm, ins))
  BY QuietOutcomes DEF SourcesIn, PushOps, f_push, f_rand

(***************************************************************************)
(* A denotation, kind by kind                                              *)
(***************************************************************************)

Mean(D, e, env) == D.mean[<<e, env>>]

LEMMA PointIs ==
  ASSUME NEW D, NEW P, Denotes(D, P), NEW e, NEW env, <<e, env>> \in D.points
  PROVE  /\ WellFormed(e) /\ D.rank[e] \in Nat
         /\ \A x \in Parts(e) :
              <<x, env>> \in D.points /\ D.rank[x] < D.rank[e] /\ D.reads[x] \subseteq D.reads[e]
         /\ e.k = "arg" => [f |-> e.f, i |-> e.i] \in D.reads[e]
         /\ \A a \in D.reads[e] : D.rank[e] <= D.level[a.f]
<1>1. PICK pt \in D.points : pt = <<e, env>> /\ pt[1] = e /\ pt[2] = env
  OBVIOUS
<1> QED
  BY <1>1, ZenonT(60) DEF Denotes, Mean

(* The outcome o of the arguments of the call e leads to a body of D.      *)
Passes(D, e, o) ==
  Len(o.value.list) = PopsOf(e.f) /\ <<Bodies[e.f], o.value.list>> \in D.points

LEMMA CallIs ==
  ASSUME NEW D, NEW P, Denotes(D, P), NEW e, NEW env, <<e, env>> \in D.points,
         e.k = "call", Functions[e.f].defined
  PROVE  /\ D.level[e.f] < D.rank[e] /\ D.rank[Bodies[e.f]] <= D.level[e.f]
         /\ Functions[e.f].code = D.code[Bodies[e.f]] /\ ~ IsArgs(Bodies[e.f])
         /\ D.reads[Bodies[e.f]] \subseteq [f : {e.f}, i : 0 .. PopsOf(e.f) - 1]
         /\ \A o \in Mean(D, e.e, env) : o.error = "" => Passes(D, e, o)
<1>1. PICK pt \in D.points : pt = <<e, env>> /\ pt[1] = e /\ pt[2] = env
  OBVIOUS
<1>2. LET e0 == pt[1]
          env0 == pt[2]
      IN  e0.k = "call" /\ Functions[e0.f].defined =>
            /\ D.level[e0.f] < D.rank[e0] /\ D.rank[Bodies[e0.f]] <= D.level[e0.f]
            /\ Functions[e0.f].code = D.code[Bodies[e0.f]] /\ ~ IsArgs(Bodies[e0.f])
            /\ D.reads[Bodies[e0.f]] \subseteq [f : {e0.f}, i : 0 .. PopsOf(e0.f) - 1]
            /\ \A o \in D.mean[<<e0.e, env0>>] : o.error = "" =>
                 Len(o.value.list) = PopsOf(e0.f) /\ <<Bodies[e0.f], o.value.list>> \in D.points
  BY Zenon DEF Denotes
<1> QED
  BY <1>1, <1>2 DEF Mean, Passes

(* The programs of each kind.                                              *)
LeafOp(e) ==
  CASE e.k = "const" -> "pushc" [] e.k = "var" -> "push" [] e.k = "arg" -> "pushd"
    [] e.k = "rand" -> "rand"
LeafArg(e) ==
  CASE e.k = "const" -> e.v [] e.k = "var" -> e.x [] e.k = "arg" -> [f |-> e.f, i |-> e.i]
    [] e.k = "rand" -> 0
LeafCode(e) == Ins(LeafOp(e), LeafArg(e))
UnaryCode(D, e) == D.code[e.e] \o Ins(e.op, 0)
BinaryCode(D, e) == D.code[e.l] \o D.code[e.r] \o Ins(e.op, 0)
LogicCode(D, e, op) ==
  D.code[e.l] \o Ins(op, Len(D.code[e.r]) + 1) \o D.code[e.r] \o Ins("bool", 0)
IfCode(D, e) ==
  D.code[e.c] \o Ins("jtern", Len(D.code[e.t]) + 2) \o D.code[e.t]
    \o Ins("jump", Len(D.code[e.e]) + 1) \o D.code[e.e]
ConsCode(D, e) == D.code[e.l] \o D.code[e.r]
CallCode(D, e) == D.code[e.e] \o Ins("call", e.f)

LEMMA CodeIs ==
  ASSUME NEW D, NEW P, Denotes(D, P), NEW e, NEW env, <<e, env>> \in D.points
  PROVE  /\ e.k \in {"const", "var", "arg", "rand"} => D.code[e] = LeafCode(e)
         /\ e.k = "un" => D.code[e] = UnaryCode(D, e)
         /\ e.k = "bin" => D.code[e] = BinaryCode(D, e)
         /\ e.k = "and" => D.code[e] = LogicCode(D, e, "jumpz")
         /\ e.k = "or" => D.code[e] = LogicCode(D, e, "jumpnz")
         /\ e.k = "if" => D.code[e] = IfCode(D, e)
         /\ e.k = "nil" => D.code[e] = <<>>
         /\ e.k = "cons" => D.code[e] = ConsCode(D, e)
         /\ e.k = "call" => D.code[e] = CallCode(D, e)
<1>1. PICK pt \in D.points : pt = <<e, env>> /\ pt[1] = e /\ pt[2] = env
  OBVIOUS
<1>2. D.code[e] = CodeOf(e, LAMBDA x : D.code[x])
  BY <1>1 DEF Denotes
<1>3. e.k \in {"const", "var", "arg", "rand"} => D.code[e] = LeafCode(e)
  BY <1>2 DEF CodeOf, LeafCode, LeafOp, LeafArg
<1> QED
  BY <1>2, <1>3 DEF CodeOf, UnaryCode, BinaryCode, LogicCode, IfCode, ConsCode, CallCode

(* The meanings of each kind, with After in place of Then.                 *)
OfUnary(D, e, env) == UNION {After(s, Unary(e.op, s.value)) : s \in Mean(D, e.e, env)}

WithRight(D, e, env, l) ==
  UNION {After(r, Binary(e.op, l.value, r.value)) : r \in Mean(D, e.r, env)}
OfBinary(D, e, env) == UNION {After(l, WithRight(D, e, env, l)) : l \in Mean(D, e.l, env)}

RightTruth(D, e, env) == UNION {After(r, AsTruth(r.value)) : r \in Mean(D, e.r, env)}
AndLeft(D, e, env, l) ==
  Tested(l.value, IF l.value.re = 0 THEN Gives(Truth(FALSE)) ELSE RightTruth(D, e, env))
OrLeft(D, e, env, l) ==
  Tested(l.value, IF l.value.re # 0 THEN Gives(Truth(TRUE)) ELSE RightTruth(D, e, env))
OfAnd(D, e, env) == UNION {After(l, AndLeft(D, e, env, l)) : l \in Mean(D, e.l, env)}
OfOr(D, e, env) == UNION {After(l, OrLeft(D, e, env, l)) : l \in Mean(D, e.l, env)}

Chosen(D, e, env, c) ==
  Tested(c.value, IF c.value.re # 0 THEN Mean(D, e.t, env) ELSE Mean(D, e.e, env))
OfIf(D, e, env) == UNION {After(c, Chosen(D, e, env, c)) : c \in Mean(D, e.c, env)}

Listed(v, w) == [list |-> <<v.value>> \o w.value.list]
Listings(D, e, env, v) == UNION {After(w, Gives(Listed(v, w))) : w \in Mean(D, e.r, env)}
OfCons(D, e, env) == UNION {After(v, Listings(D, e, env, v)) : v \in Mean(D, e.l, env)}

Answers(D, e, w) ==
  IF Functions[e.f].defined THEN Mean(D, Bodies[e.f], w.value.list) ELSE Fails("function")
OfCall(D, e, env) == UNION {After(w, Answers(D, e, w)) : w \in Mean(D, e.e, env)}

NoList == [list |-> <<>>]

LEMMA MeanIs ==
  ASSUME NEW D, NEW P, Denotes(D, P), NEW e, NEW env, <<e, env>> \in D.points
  PROVE  /\ e.k = "const" => Mean(D, e, env) = Gives(e.v)
         /\ e.k = "var" => Mean(D, e, env) = f_push(e.x)
         /\ e.k = "arg" => Mean(D, e, env) = Gives(env[e.i + 1])
         /\ e.k = "rand" => Mean(D, e, env) = f_rand
         /\ e.k = "nil" => Mean(D, e, env) = Gives(NoList)
         /\ e.k = "un" => Mean(D, e, env) = OfUnary(D, e, env)
         /\ e.k = "bin" => Mean(D, e, env) = OfBinary(D, e, env)
         /\ e.k = "and" => Mean(D, e, env) = OfAnd(D, e, env)
         /\ e.k = "or" => Mean(D, e, env) = OfOr(D, e, env)
         /\ e.k = "if" => Mean(D, e, env) = OfIf(D, e, env)
         /\ e.k = "cons" => Mean(D, e, env) = OfCons(D, e, env)
         /\ e.k = "call" => Mean(D, e, env) = OfCall(D, e, env)
<1>1. PICK pt \in D.points : pt = <<e, env>> /\ pt[1] = e /\ pt[2] = env
  OBVIOUS
<1>2. Mean(D, e, env) = MeaningOf(e, env, LAMBDA x, a : D.mean[<<x, a>>])
  BY <1>1, ZenonT(60) DEF Denotes, Mean
<1>3. /\ e.k = "un" => Mean(D, e, env) = OfUnary(D, e, env)
      /\ e.k = "bin" => Mean(D, e, env) = OfBinary(D, e, env)
  BY <1>2 DEF MeaningOf, Mean, Then, After, OfUnary, OfBinary, WithRight
<1>4. e.k = "and" => Mean(D, e, env) = OfAnd(D, e, env)
  BY <1>2 DEF MeaningOf, Mean, Then, After, OfAnd, AndLeft, RightTruth
<1>5. e.k = "or" => Mean(D, e, env) = OfOr(D, e, env)
  BY <1>2, ZenonT(60) DEF MeaningOf, Mean, Then, After, OfOr, OrLeft, RightTruth
<1>6. /\ e.k = "if" => Mean(D, e, env) = OfIf(D, e, env)
      /\ e.k = "cons" => Mean(D, e, env) = OfCons(D, e, env)
      /\ e.k = "call" => Mean(D, e, env) = OfCall(D, e, env)
  BY <1>2, ZenonT(60) DEF MeaningOf, Mean, Then, After, OfIf, Chosen, OfCons, Listings, Listed,
                          OfCall, Answers
<1>7. /\ e.k = "const" => Mean(D, e, env) = Gives(e.v)
      /\ e.k = "var" => Mean(D, e, env) = f_push(e.x)
      /\ e.k = "arg" => Mean(D, e, env) = Gives(env[e.i + 1])
      /\ e.k = "rand" => Mean(D, e, env) = f_rand
      /\ e.k = "nil" => Mean(D, e, env) = Gives(NoList)
  BY <1>2 DEF MeaningOf, NoList
<1> QED
  BY <1>3, <1>4, <1>5, <1>6, <1>7

(***************************************************************************)
(* What expressions mean are values                                        *)
(***************************************************************************)

(* An outcome whose value, unless it failed, is in V.                      *)
IsResult(o, V) ==
  /\ o = [value |-> o.value, undefined |-> o.undefined, error |-> o.error]
  /\ o.undefined \in BOOLEAN
  /\ o.error = "" => o.value \in V

AreResults(T, V) == \A o \in T : IsResult(o, V)

Lists == [list : Seq(Value)]
Kind(e) == IF IsArgs(e) THEN Lists ELSE Value

LEMMA OutcomesAreResults ==
  ASSUME NEW T, T \subseteq Outcome PROVE AreResults(T, Value)
<1>1. ASSUME NEW o \in T PROVE IsResult(o, Value)
  <2>1. o \in Outcome
    OBVIOUS
  <2>2. /\ o = [value |-> o.value, undefined |-> o.undefined, error |-> o.error]
        /\ o.value \in Value /\ o.undefined \in BOOLEAN
    BY <2>1 DEF Outcome
  <2> QED
    BY <2>2 DEF IsResult
<1> QED
  BY <1>1 DEF AreResults

LEMMA GivesResult ==
  ASSUME NEW V, NEW v \in V PROVE AreResults(Gives(v), V)
<1>1. ASSUME NEW o \in Gives(v) PROVE IsResult(o, V)
  <2>1. o = [value |-> v, undefined |-> FALSE, error |-> ""]
    BY DEF Gives
  <2> QED
    BY <2>1 DEF IsResult
<1> QED
  BY <1>1 DEF AreResults

LEMMA FailsResult == ASSUME NEW V, NEW text, text # "" PROVE AreResults(Fails(text), V)
<1>1. ASSUME NEW o \in Fails(text) PROVE IsResult(o, V)
  <2>1. o = [value |-> Integer(0), undefined |-> FALSE, error |-> text]
    BY DEF Fails
  <2> QED
    BY <2>1 DEF IsResult
<1> QED
  BY <1>1 DEF AreResults

(* The outcome q with the flag of the outcome s before it.                 *)
Later(q, s) == [q EXCEPT !.undefined = q.undefined \/ s.undefined]

LEMMA LaterOutcome ==
  ASSUME NEW s, s.undefined \in BOOLEAN, NEW q, NEW V, IsResult(q, V), NEW o, o = Later(q, s)
  PROVE  /\ o.value = q.value /\ o.undefined = (q.undefined \/ s.undefined) /\ o.error = q.error
         /\ IsResult(o, V)
<1>1. PICK x \in BOOLEAN : x = (q.undefined \/ s.undefined)
  BY DEF IsResult
<1>2. PICK v, u, t : q = [value |-> v, undefined |-> u, error |-> t]
  BY DEF IsResult
<1>3. o = [q EXCEPT !.undefined = x]
  BY <1>1, Zenon DEF Later
<1>4. o = [value |-> v, undefined |-> x, error |-> t]
  BY <1>2, <1>3
<1>5. q.error = t /\ q.value = v /\ o.error = t /\ o.value = v /\ o.undefined = x
  BY <1>2, <1>4
<1> QED
  BY <1>1, <1>4, <1>5 DEF IsResult

LEMMA LaterResult ==
  ASSUME NEW W, NEW s, IsResult(s, W), NEW V, NEW q, IsResult(q, V)
  PROVE  IsResult(Later(q, s), V)
<1>0. s.undefined \in BOOLEAN
  BY DEF IsResult
<1>1. PICK o : o = Later(q, s)
  OBVIOUS
<1>2. IsResult(o, V)
  BY <1>0, <1>1, LaterOutcome
<1> QED
  BY <1>1, <1>2, Zenon

(* o is q but for the flag, which may come from x.                         *)
Delays(o, q, x) ==
  o.value = q.value /\ o.undefined = (q.undefined \/ x.undefined) /\ o.error = q.error

LEMMA LaterDelays ==
  ASSUME NEW W, NEW s, IsResult(s, W), NEW V, NEW q, IsResult(q, V)
  PROVE  Delays(Later(q, s), q, s)
<1>0. s.undefined \in BOOLEAN
  BY DEF IsResult
<1>1. PICK o : o = Later(q, s)
  OBVIOUS
<1>2. Delays(o, q, s)
  BY <1>0, <1>1, LaterOutcome DEF Delays
<1> QED
  BY <1>1, <1>2, Zenon

LEMMA AfterResults ==
  ASSUME NEW W, NEW V, NEW s, IsResult(s, W), NEW T, s.error = "" => AreResults(T, V)
  PROVE  AreResults(After(s, T), V)
<1>1. CASE s.error # ""
  <2>1. IsResult(s, V)
    BY <1>1 DEF IsResult
  <2> QED
    BY <1>1, <2>1 DEF After, AreResults
<1>2. CASE s.error = ""
  <2>1. ASSUME NEW o \in After(s, T) PROVE IsResult(o, V)
    <3>1. PICK q \in T : o = Later(q, s)
      BY <1>2, <2>1, Zenon DEF After, Later
    <3>2. IsResult(q, V)
      BY <1>2 DEF AreResults
    <3>3. IsResult(Later(q, s), V)
      BY <3>2, LaterResult, Zenon
    <3> QED
      BY <3>1, <3>3
  <2> QED
    BY <2>1 DEF AreResults
<1> QED
  BY <1>1, <1>2

LEMMA TestedResults ==
  ASSUME NEW v, NEW T, NEW V, AreResults(T, V) PROVE AreResults(Tested(v, T), V)
  BY FailsResult DEF Tested

LEMMA TruthResults ==
  ASSUME NEW p PROVE AreResults(Gives(Truth(p)), Value)
  BY Truths, GivesResult

LEMMA AsTruthResults == ASSUME NEW v PROVE AreResults(AsTruth(v), Value)
  BY TruthResults, TestedResults DEF AsTruth

(* The arguments that e reads are values.                                  *)
EnvTyped(D, e, env) == \A a \in D.reads[e] : env[a.i + 1] \in Value

TypedAt(D, e, env) ==
  <<e, env>> \in D.points /\ EnvTyped(D, e, env) => AreResults(Mean(D, e, env), Kind(e))

LEMMA PartTyped ==
  ASSUME NEW D, NEW P, Denotes(D, P), NEW e, NEW env, <<e, env>> \in D.points,
         EnvTyped(D, e, env), \A x, a : D.rank[x] < D.rank[e] => TypedAt(D, x, a),
         NEW x \in Parts(e)
  PROVE  AreResults(Mean(D, x, env), Kind(x))
<1>1. <<x, env>> \in D.points /\ D.rank[x] < D.rank[e] /\ D.reads[x] \subseteq D.reads[e]
  BY PointIs
<1>2. EnvTyped(D, x, env)
  BY <1>1 DEF EnvTyped
<1> QED
  BY <1>1, <1>2 DEF TypedAt

LEMMA LeafTyped ==
  ASSUME TypedTables, NEW D, NEW P, Denotes(D, P), NEW e, NEW env, <<e, env>> \in D.points,
         EnvTyped(D, e, env), e.k \in {"const", "var", "arg", "rand", "nil"}
  PROVE  AreResults(Mean(D, e, env), Kind(e))
<1>1. /\ WellFormed(e)
      /\ e.k = "arg" => [f |-> e.f, i |-> e.i] \in D.reads[e]
  BY PointIs
<1>2. CASE e.k = "const"
  BY <1>1, <1>2, MeanIs, GivesResult DEF WellFormed, Kind, IsArgs
<1>3. CASE e.k = "var"
  <2>1. e.x \in DOMAIN Variables
    BY <1>1, <1>3 DEF WellFormed
  <2>2. ~ Variables[e.x].undef => Variables[e.x].value \in Value
    BY <2>1 DEF TypedTables
  <2>3. AreResults(f_push(e.x), Value)
    BY <2>2, GivesResult, FailsResult DEF f_push
  <2> QED
    BY <1>1, <1>3, <2>3, MeanIs DEF Kind, IsArgs
<1>4. CASE e.k = "arg"
  <2>1. PICK a \in D.reads[e] : a = [f |-> e.f, i |-> e.i]
    BY <1>1, <1>4
  <2>2. a.i = e.i /\ env[a.i + 1] \in Value
    BY <2>1 DEF EnvTyped
  <2>3. AreResults(Gives(env[e.i + 1]), Value)
    BY <2>2, GivesResult
  <2> QED
    BY <1>1, <1>4, <2>3, MeanIs DEF Kind, IsArgs
<1>5. CASE e.k = "rand"
  <2>1. AreResults(f_rand, Value)
    BY RandomTypes, OutcomesAreResults
  <2> QED
    BY <1>1, <1>5, <2>1, MeanIs DEF Kind, IsArgs
<1>6. CASE e.k = "nil"
  <2>1. NoList \in Lists
    BY DEF Lists, NoList
  <2>2. AreResults(Gives(NoList), Lists)
    BY <2>1, GivesResult
  <2> QED
    BY <1>1, <1>6, <2>2, MeanIs DEF Kind, IsArgs
<1> QED
  BY <1>2, <1>3, <1>4, <1>5, <1>6

LEMMA WithRightTyped ==
  ASSUME NEW D, NEW e, NEW env, e.op \in BinaryOps, AreResults(Mean(D, e.r, env), Value),
         NEW l, IsResult(l, Value), l.error = ""
  PROVE  AreResults(WithRight(D, e, env, l), Value)
<1>1. ASSUME NEW r \in Mean(D, e.r, env)
      PROVE  AreResults(After(r, Binary(e.op, l.value, r.value)), Value)
  <2>1. IsResult(r, Value)
    BY DEF AreResults
  <2>2. r.error = "" => AreResults(Binary(e.op, l.value, r.value), Value)
    BY <2>1, BinaryTypes, OutcomesAreResults DEF IsResult
  <2> QED
    BY <2>1, <2>2, AfterResults
<1> QED
  BY <1>1, Zenon DEF AreResults, WithRight

LEMMA OperatorTyped ==
  ASSUME NEW D, NEW P, Denotes(D, P), NEW e, NEW env, <<e, env>> \in D.points,
         EnvTyped(D, e, env), \A x, a : D.rank[x] < D.rank[e] => TypedAt(D, x, a),
         e.k \in {"un", "bin"}
  PROVE  AreResults(Mean(D, e, env), Kind(e))
<1>1. WellFormed(e)
  BY PointIs
<1>2. \A x \in Parts(e) : AreResults(Mean(D, x, env), Value)
  BY <1>1, PartTyped DEF WellFormed, Kind
<1>3. CASE e.k = "un"
  <2>1. AreResults(Mean(D, e.e, env), Value) /\ e.op \in UnaryOps
    BY <1>1, <1>2, <1>3 DEF Parts, WellFormed
  <2>2. ASSUME NEW s \in Mean(D, e.e, env)
        PROVE  AreResults(After(s, Unary(e.op, s.value)), Value)
    <3>1. IsResult(s, Value)
      BY <2>1 DEF AreResults
    <3>2. s.error = "" => AreResults(Unary(e.op, s.value), Value)
      BY <2>1, <3>1, UnaryTypes, OutcomesAreResults DEF IsResult
    <3> QED
      BY <3>1, <3>2, AfterResults
  <2>3. AreResults(OfUnary(D, e, env), Value)
    BY <2>2, Zenon DEF AreResults, OfUnary
  <2> QED
    BY <1>3, <2>3, MeanIs DEF Kind, IsArgs
<1>4. CASE e.k = "bin"
  <2>1. /\ AreResults(Mean(D, e.l, env), Value) /\ AreResults(Mean(D, e.r, env), Value)
        /\ e.op \in BinaryOps
    BY <1>1, <1>2, <1>4 DEF Parts, WellFormed
  <2>2. ASSUME NEW l \in Mean(D, e.l, env)
        PROVE  AreResults(After(l, WithRight(D, e, env, l)), Value)
    <3>1. IsResult(l, Value)
      BY <2>1 DEF AreResults
    <3>2. l.error = "" => AreResults(WithRight(D, e, env, l), Value)
      BY <2>1, <3>1, WithRightTyped
    <3> QED
      BY <3>1, <3>2, AfterResults
  <2>3. AreResults(OfBinary(D, e, env), Value)
    BY <2>2, Zenon DEF AreResults, OfBinary
  <2> QED
    BY <1>4, <2>3, MeanIs DEF Kind, IsArgs
<1> QED
  BY <1>3, <1>4

LEMMA RightTruthTyped ==
  ASSUME NEW D, NEW e, NEW env, AreResults(Mean(D, e.r, env), Value)
  PROVE  AreResults(RightTruth(D, e, env), Value)
<1>1. ASSUME NEW r \in Mean(D, e.r, env) PROVE AreResults(After(r, AsTruth(r.value)), Value)
  BY AsTruthResults, AfterResults DEF AreResults
<1> QED
  BY <1>1, Zenon DEF AreResults, RightTruth

LEMMA BranchTyped ==
  ASSUME NEW D, NEW P, Denotes(D, P), NEW e, NEW env, <<e, env>> \in D.points,
         EnvTyped(D, e, env), \A x, a : D.rank[x] < D.rank[e] => TypedAt(D, x, a),
         e.k \in {"and", "or", "if"}
  PROVE  AreResults(Mean(D, e, env), Kind(e))
<1>1. WellFormed(e)
  BY PointIs
<1>2. \A x \in Parts(e) : AreResults(Mean(D, x, env), Value)
  BY <1>1, PartTyped DEF WellFormed, Kind
<1>3. CASE e.k \in {"and", "or"}
  <2>1. AreResults(Mean(D, e.l, env), Value) /\ AreResults(Mean(D, e.r, env), Value)
    BY <1>2, <1>3 DEF Parts
  <2>2. AreResults(RightTruth(D, e, env), Value)
    BY <2>1, RightTruthTyped
  <2>3. ASSUME NEW l \in Mean(D, e.l, env)
        PROVE  /\ AreResults(After(l, AndLeft(D, e, env, l)), Value)
               /\ AreResults(After(l, OrLeft(D, e, env, l)), Value)
    <3>1. IsResult(l, Value)
      BY <2>1 DEF AreResults
    <3>2. AreResults(Gives(Truth(TRUE)), Value) /\ AreResults(Gives(Truth(FALSE)), Value)
      BY TruthResults
    <3>3. AreResults(AndLeft(D, e, env, l), Value) /\ AreResults(OrLeft(D, e, env, l), Value)
      BY <2>2, <3>2, TestedResults DEF AndLeft, OrLeft
    <3> QED
      BY <3>1, <3>3, AfterResults
  <2>4. AreResults(OfAnd(D, e, env), Value)
    BY <2>3, Zenon DEF AreResults, OfAnd
  <2>5. AreResults(OfOr(D, e, env), Value)
    BY <2>3, Zenon DEF AreResults, OfOr
  <2> QED
    BY <1>3, <2>4, <2>5, MeanIs DEF Kind, IsArgs
<1>4. CASE e.k = "if"
  <2>1. /\ AreResults(Mean(D, e.c, env), Value) /\ AreResults(Mean(D, e.t, env), Value)
        /\ AreResults(Mean(D, e.e, env), Value)
    BY <1>2, <1>4 DEF Parts
  <2>2. ASSUME NEW c \in Mean(D, e.c, env)
        PROVE  AreResults(After(c, Chosen(D, e, env, c)), Value)
    <3>1. IsResult(c, Value) /\ AreResults(Chosen(D, e, env, c), Value)
      BY <2>1, TestedResults DEF AreResults, Chosen
    <3> QED
      BY <3>1, AfterResults
  <2>3. AreResults(OfIf(D, e, env), Value)
    BY <2>2, Zenon DEF AreResults, OfIf
  <2> QED
    BY <1>4, <2>3, MeanIs DEF Kind, IsArgs
<1> QED
  BY <1>3, <1>4

LEMMA ListField == ASSUME NEW z \in Lists PROVE z.list \in Seq(Value)
  BY DEF Lists

LEMMA ListIs == ASSUME NEW y \in Seq(Value) PROVE [list |-> y] \in Lists
  BY DEF Lists

LEMMA OneMore ==
  ASSUME NEW x \in Value, NEW y \in Seq(Value) PROVE [list |-> <<x>> \o y] \in Lists
<1>1. <<x>> \in Seq(Value)
  OBVIOUS
<1>2. <<x>> \o y \in Seq(Value)
  BY <1>1, ConcatProperties
<1> QED
  BY <1>2, ListIs

(* Another argument before a list of them.                                 *)
LEMMA ListedTyped ==
  ASSUME NEW v, IsResult(v, Value), v.error = "", NEW w, IsResult(w, Lists), w.error = ""
  PROVE  Listed(v, w) \in Lists
<1>1. v.value \in Value /\ w.value \in Lists
  BY DEF IsResult
<1> QED
  BY <1>1, ListField, OneMore DEF Listed

LEMMA ArgumentRange ==
  ASSUME NEW a, NEW g, NEW n, a \in [f : {g}, i : 0 .. n - 1] PROVE a.f = g /\ a.i \in 0 .. n - 1
  OBVIOUS

LEMMA ListingsTyped ==
  ASSUME NEW D, NEW e, NEW env, AreResults(Mean(D, e.r, env), Lists),
         NEW v, IsResult(v, Value), v.error = ""
  PROVE  AreResults(Listings(D, e, env, v), Lists)
<1>1. ASSUME NEW w \in Mean(D, e.r, env)
      PROVE  AreResults(After(w, Gives(Listed(v, w))), Lists)
  <2>1. IsResult(w, Lists)
    BY DEF AreResults
  <2>2. w.error = "" => AreResults(Gives(Listed(v, w)), Lists)
    BY <2>1, ListedTyped, GivesResult
  <2> QED
    BY <2>1, <2>2, AfterResults
<1> QED
  BY <1>1, Zenon DEF AreResults, Listings

LEMMA ListTyped ==
  ASSUME NEW D, NEW P, Denotes(D, P), NEW e, NEW env, <<e, env>> \in D.points,
         EnvTyped(D, e, env), \A x, a : D.rank[x] < D.rank[e] => TypedAt(D, x, a), e.k = "cons"
  PROVE  AreResults(Mean(D, e, env), Kind(e))
<1>1. WellFormed(e)
  BY PointIs
<1>2. AreResults(Mean(D, e.l, env), Value) /\ AreResults(Mean(D, e.r, env), Lists)
  <2>1. e.l \in Parts(e) /\ e.r \in Parts(e) /\ IsArgs(e.r) /\ ~ IsArgs(e.l)
    BY <1>1 DEF WellFormed, Parts
  <2> QED
    BY <2>1, PartTyped DEF Kind
<1>3. ASSUME NEW v \in Mean(D, e.l, env)
      PROVE  AreResults(After(v, Listings(D, e, env, v)), Lists)
  <2>1. IsResult(v, Value)
    BY <1>2 DEF AreResults
  <2>2. v.error = "" => AreResults(Listings(D, e, env, v), Lists)
    BY <1>2, <2>1, ListingsTyped
  <2> QED
    BY <2>1, <2>2, AfterResults
<1>4. AreResults(OfCons(D, e, env), Lists)
  BY <1>3, Zenon DEF AreResults, OfCons
<1> QED
  BY <1>4, MeanIs DEF Kind, IsArgs

LEMMA InList ==
  ASSUME NEW y \in Seq(Value), NEW i \in 0 .. Len(y) - 1 PROVE y[i + 1] \in Value
<1>1. PICK n \in Nat : n = Len(y)
  BY LenProperties
<1>2. i + 1 \in 1 .. Len(y)
  BY <1>1
<1> QED
  BY <1>2, ElementOfSeq

(* The arguments of a call of f are those its body reads.                  *)
LEMMA ArgsTyped ==
  ASSUME NEW D, NEW P, Denotes(D, P), NEW e, NEW env, <<e, env>> \in D.points,
         e.k = "call", Functions[e.f].defined,
         NEW o \in Mean(D, e.e, env), IsResult(o, Lists), o.error = ""
  PROVE  EnvTyped(D, Bodies[e.f], o.value.list)
<1>1. o.value.list \in Seq(Value)
  BY ListField DEF IsResult
<1>2. D.reads[Bodies[e.f]] \subseteq [f : {e.f}, i : 0 .. PopsOf(e.f) - 1]
  BY CallIs
<1>4. Len(o.value.list) = PopsOf(e.f)
  <2>1. Passes(D, e, o)
    BY CallIs
  <2> QED
    BY <2>1 DEF Passes
<1>3. ASSUME NEW a \in D.reads[Bodies[e.f]] PROVE o.value.list[a.i + 1] \in Value
  <2>1. a.i \in 0 .. Len(o.value.list) - 1
    BY <1>2, <1>4, ArgumentRange, Zenon
  <2> QED
    BY <1>1, <2>1, InList, Zenon
<1> QED
  BY <1>3 DEF EnvTyped

LEMMA LevelIs ==
  ASSUME NEW D, NEW P, Denotes(D, P), NEW f \in DOMAIN Functions PROVE D.level[f] \in Nat
<1>1. \A g \in DOMAIN Functions : D.level[g] \in Nat
  BY Zenon DEF Denotes
<1> QED
  BY <1>1

LEMMA Between ==
  ASSUME NEW a \in Nat, NEW b \in Nat, NEW c \in Nat, a <= b, b < c PROVE a < c
  OBVIOUS

LEMMA AnswersTyped ==
  ASSUME NEW D, NEW P, Denotes(D, P), NEW e, NEW env, <<e, env>> \in D.points,
         \A x, a : D.rank[x] < D.rank[e] => TypedAt(D, x, a), e.k = "call",
         NEW w \in Mean(D, e.e, env), IsResult(w, Lists), w.error = ""
  PROVE  AreResults(Answers(D, e, w), Value)
<1>1. WellFormed(e) /\ D.rank[e] \in Nat
  BY PointIs
<1>2. ASSUME Functions[e.f].defined
      PROVE  AreResults(Mean(D, Bodies[e.f], w.value.list), Value)
  <2>1. Passes(D, e, w)
    BY <1>2, CallIs
  <2>2. /\ D.level[e.f] < D.rank[e] /\ D.rank[Bodies[e.f]] <= D.level[e.f]
        /\ ~ IsArgs(Bodies[e.f]) /\ <<Bodies[e.f], w.value.list>> \in D.points
    BY <1>2, <2>1, CallIs DEF Passes
  <2>3. D.rank[Bodies[e.f]] \in Nat
    BY <2>2, PointIs
  <2>4. D.level[e.f] \in Nat
    <3>1. e.f \in DOMAIN Functions
      BY <1>1 DEF WellFormed
    <3>2. \A f \in DOMAIN Functions : D.level[f] \in Nat
      BY LevelIs
    <3> QED
      BY <3>1, <3>2
  <2>5. D.rank[Bodies[e.f]] < D.rank[e]
    BY <1>1, <2>2, <2>3, <2>4, Between, Zenon
  <2>6. EnvTyped(D, Bodies[e.f], w.value.list)
    BY <1>2, ArgsTyped
  <2> QED
    BY <2>2, <2>5, <2>6 DEF TypedAt, Kind
<1> QED
  BY <1>2, FailsResult DEF Answers

LEMMA CallTyped ==
  ASSUME NEW D, NEW P, Denotes(D, P), NEW e, NEW env, <<e, env>> \in D.points,
         EnvTyped(D, e, env), \A x, a : D.rank[x] < D.rank[e] => TypedAt(D, x, a), e.k = "call"
  PROVE  AreResults(Mean(D, e, env), Kind(e))
<1>1. AreResults(Mean(D, e.e, env), Lists)
  <2>1. e.e \in Parts(e) /\ IsArgs(e.e)
    BY PointIs DEF WellFormed, Parts
  <2> QED
    BY <2>1, PartTyped DEF Kind
<1>2. ASSUME NEW w \in Mean(D, e.e, env) PROVE AreResults(After(w, Answers(D, e, w)), Value)
  <2>1. IsResult(w, Lists)
    BY <1>1 DEF AreResults
  <2>2. w.error = "" => AreResults(Answers(D, e, w), Value)
    BY <2>1, AnswersTyped
  <2> QED
    BY <2>1, <2>2, AfterResults
<1>3. AreResults(OfCall(D, e, env), Value)
  BY <1>2, Zenon DEF AreResults, OfCall
<1> QED
  BY <1>3, MeanIs DEF Kind, IsArgs

(* Every value that the meanings hold is one.                              *)
LEMMA MeaningsTyped ==
  ASSUME TypedTables, NEW D, NEW P, Denotes(D, P)
  PROVE  \A e, env : TypedAt(D, e, env)
<1> DEFINE T == {n \in Nat : \A e, env : D.rank[e] \in Nat /\ D.rank[e] < n => TypedAt(D, e, env)}
<1>1. 0 \in T
  OBVIOUS
<1>2. ASSUME NEW n \in T PROVE n + 1 \in T
  <2>1. SUFFICES ASSUME NEW e, NEW env, D.rank[e] \in Nat, D.rank[e] < n + 1,
                        <<e, env>> \in D.points, EnvTyped(D, e, env)
                 PROVE  AreResults(Mean(D, e, env), Kind(e))
    BY DEF TypedAt
  <2>2. ASSUME NEW x, NEW a, D.rank[x] < D.rank[e] PROVE TypedAt(D, x, a)
    <3>1. SUFFICES ASSUME <<x, a>> \in D.points PROVE TypedAt(D, x, a)
      BY DEF TypedAt
    <3>2. D.rank[x] \in Nat
      BY <3>1, PointIs
    <3>3. D.rank[x] < n
      BY <2>1, <2>2, <3>2
    <3> QED
      BY <3>2, <3>3
  <2>3. e.k \in {"const", "var", "arg", "rand", "un", "bin", "and", "or", "if", "nil", "cons",
                 "call"}
    BY <2>1, PointIs DEF WellFormed
  <2> QED
    BY <2>1, <2>2, <2>3, LeafTyped, OperatorTyped, BranchTyped, ListTyped, CallTyped
<1> HIDE DEF T
<1>3. T = Nat
  BY <1>1, <1>2, Induction DEF T
<1>4. ASSUME NEW e, NEW env, <<e, env>> \in D.points PROVE TypedAt(D, e, env)
  <2>1. D.rank[e] \in Nat
    BY <1>4, PointIs
  <2>2. D.rank[e] + 1 \in T /\ D.rank[e] < D.rank[e] + 1
    BY <1>3, <2>1
  <2> QED
    BY <2>1, <2>2 DEF T
<1> QED
  BY <1>4 DEF TypedAt

(***************************************************************************)
(* What expressions mean are what their programs do                        *)
(***************************************************************************)

(* A property of a point that follows from that of all of lower rank.      *)
LEMMA RankInduction ==
  ASSUME NEW D, NEW P, Denotes(D, P), NEW G,
         \A e, env : /\ <<e, env>> \in D.points
                     /\ \A x, a : <<x, a>> \in D.points /\ D.rank[x] < D.rank[e] => <<x, a>> \in G
                     => <<e, env>> \in G
  PROVE  \A e, env : <<e, env>> \in D.points => <<e, env>> \in G
<1> DEFINE T == {n \in Nat : \A e, env : <<e, env>> \in D.points /\ D.rank[e] < n => <<e, env>> \in G}
<1>1. 0 \in T
  <2>1. ASSUME NEW e, NEW env, <<e, env>> \in D.points PROVE ~ D.rank[e] < 0
    <3>1. D.rank[e] \in Nat
      BY <2>1, PointIs
    <3> QED
      BY <3>1
  <2> QED
    BY <2>1
<1>2. ASSUME NEW n \in T PROVE n + 1 \in T
  <2>1. SUFFICES ASSUME NEW e, NEW env, <<e, env>> \in D.points, D.rank[e] < n + 1
                 PROVE  <<e, env>> \in G
    OBVIOUS
  <2>2. ASSUME NEW x, NEW a, <<x, a>> \in D.points, D.rank[x] < D.rank[e]
        PROVE  <<x, a>> \in G
    <3>1. D.rank[x] \in Nat /\ D.rank[e] \in Nat
      BY <2>1, <2>2, PointIs
    <3>2. D.rank[x] < n
      BY <2>1, <2>2, <3>1
    <3> QED
      BY <2>2, <3>2
  <2> QED
    BY <2>1, <2>2
<1> HIDE DEF T
<1>3. T = Nat
  BY <1>1, <1>2, Induction DEF T
<1> SUFFICES ASSUME NEW e, NEW env, <<e, env>> \in D.points PROVE <<e, env>> \in G
  OBVIOUS
<1>4. D.rank[e] \in Nat
  BY PointIs
<1>5. D.rank[e] + 1 \in T /\ D.rank[e] < D.rank[e] + 1
  BY <1>3, <1>4
<1> QED
  BY <1>5 DEF T

(* The programs are sequences.                                             *)
LEMMA CodeStep ==
  ASSUME NEW D, NEW P, Denotes(D, P), NEW e, NEW env, <<e, env>> \in D.points,
         \A x \in Parts(e) : IsSeq(D.code[x])
  PROVE  IsSeq(D.code[e])
<1>1. \A op, arg : IsSeq(Ins(op, arg))
  BY OneInstruction
<1>2. \A v, w : IsSeq(v) /\ IsSeq(w) => IsSeq(v \o w)
  BY ConcatIsSeq
<1>3. IsSeq(<<>>)
  BY EmptyStack
<1>4. e.k \in {"const", "var", "arg", "rand", "un", "bin", "and", "or", "if", "nil", "cons",
               "call"}
  BY PointIs DEF WellFormed
<1>5. CASE e.k \in {"const", "var", "arg", "rand"}
  <2>1. D.code[e] = LeafCode(e)
    BY <1>5, CodeIs
  <2>2. IsSeq(LeafCode(e))
    BY <1>1 DEF LeafCode
  <2> QED
    BY <2>1, <2>2
<1>9. CASE e.k = "nil"
  <2>1. D.code[e] = <<>>
    BY <1>9, CodeIs
  <2> QED
    BY <1>3, <2>1
<1>6. CASE e.k \in {"un", "call"}
  <2>1. IsSeq(D.code[e.e])
    BY <1>6 DEF Parts
  <2>2. IsSeq(UnaryCode(D, e)) /\ IsSeq(CallCode(D, e))
    BY <1>1, <1>2, <2>1 DEF UnaryCode, CallCode
  <2> QED
    BY <1>6, <2>2, CodeIs
<1>7. CASE e.k \in {"bin", "and", "or", "cons"}
  <2>1. IsSeq(D.code[e.l]) /\ IsSeq(D.code[e.r])
    BY <1>7 DEF Parts
  <2>2. IsSeq(BinaryCode(D, e)) /\ IsSeq(ConsCode(D, e))
    BY <1>1, <1>2, <2>1 DEF BinaryCode, ConsCode
  <2>3. \A op : IsSeq(LogicCode(D, e, op))
    BY <1>1, <1>2, <2>1 DEF LogicCode
  <2>4. e.k = "bin" => IsSeq(D.code[e])
    <3>1. e.k = "bin" => D.code[e] = BinaryCode(D, e)
      BY CodeIs
    <3>2. IsSeq(BinaryCode(D, e))
      BY <2>2
    <3> QED
      BY <3>1, <3>2
  <2>5. e.k = "cons" => IsSeq(D.code[e])
    <3>1. e.k = "cons" => D.code[e] = ConsCode(D, e)
      BY CodeIs
    <3>2. IsSeq(ConsCode(D, e))
      BY <2>2
    <3> QED
      BY <3>1, <3>2
  <2>6. e.k = "and" => IsSeq(D.code[e])
    <3>1. e.k = "and" => D.code[e] = LogicCode(D, e, "jumpz")
      BY CodeIs
    <3>2. IsSeq(LogicCode(D, e, "jumpz"))
      BY <2>3
    <3> QED
      BY <3>1, <3>2
  <2>7. e.k = "or" => IsSeq(D.code[e])
    <3>1. e.k = "or" => D.code[e] = LogicCode(D, e, "jumpnz")
      BY CodeIs
    <3>2. IsSeq(LogicCode(D, e, "jumpnz"))
      BY <2>3
    <3> QED
      BY <3>1, <3>2
  <2> QED
    BY <1>7, <2>4, <2>5, <2>6, <2>7
<1>8. CASE e.k = "if"
  <2>1. IsSeq(D.code[e.c]) /\ IsSeq(D.code[e.t]) /\ IsSeq(D.code[e.e])
    BY <1>8 DEF Parts
  <2>2. IsSeq(IfCode(D, e))
    BY <1>1, <1>2, <2>1 DEF IfCode
  <2> QED
    BY <1>8, <2>2, CodeIs
<1> QED
  BY <1>4, <1>5, <1>6, <1>7, <1>8, <1>9

LEMMA CodesAreSeqs ==
  ASSUME NEW D, NEW P, Denotes(D, P), NEW e, NEW env, <<e, env>> \in D.points
  PROVE  IsSeq(D.code[e])
<1> DEFINE G == {pt \in D.points : IsSeq(D.code[pt[1]])}
<1>1. ASSUME NEW x, NEW a, <<x, a>> \in D.points,
             \A y, b : <<y, b>> \in D.points /\ D.rank[y] < D.rank[x] => <<y, b>> \in G
      PROVE  <<x, a>> \in G
  <2>1. ASSUME NEW y \in Parts(x) PROVE IsSeq(D.code[y])
    <3>1. <<y, a>> \in D.points /\ D.rank[y] < D.rank[x]
      BY <1>1, PointIs
    <3> QED
      BY <1>1, <3>1
  <2>2. IsSeq(D.code[x])
    BY <1>1, <2>1, CodeStep
  <2> QED
    BY <1>1, <2>2
<1>2. \A x, a : <<x, a>> \in D.points => <<x, a>> \in G
  <2> HIDE DEF G
  <2> QED
    BY <1>1, RankInduction
<1> QED
  BY <1>2

(* What comes of a value v of the stack, and of a list of arguments.       *)
Onto(args, s, v) == IF args THEN s \o v.list ELSE push(s, v)

(* Each outcome in T ends well, or leads to a safe run from place i,       *)
(* whichever of K the cells are by then.                                   *)
Handles(T, args, S, fr, c, i, s, u, K) ==
  \A o \in T :
    /\ o.error # "" => EndsWell(o.error, u \/ o.undefined, S)
    /\ o.error = "" =>
         \A d \in K : Run(fr, c, i, Onto(args, s, o.value), u \/ o.undefined, d) \in Safe(S)

LEMMA HandlesFewer ==
  ASSUME NEW T, NEW args, NEW S, NEW fr, NEW c, NEW i, NEW s, NEW u, NEW K,
         Handles(T, args, S, fr, c, i, s, u, K), NEW R, R \subseteq T
  PROVE  Handles(R, args, S, fr, c, i, s, u, K)
  BY DEF Handles

(* What comes after the outcome x.                                         *)
LEMMA HandlesAfter ==
  ASSUME NEW T, NEW args, NEW S, NEW fr, NEW c, NEW i, NEW s, NEW u \in BOOLEAN, NEW K,
         NEW x, NEW W, IsResult(x, W), NEW V, x.error = "" => AreResults(T, V),
         Handles(After(x, T), args, S, fr, c, i, s, u, K)
  PROVE  /\ x.error # "" => EndsWell(x.error, u \/ x.undefined, S)
         /\ x.error = "" => Handles(T, args, S, fr, c, i, s, u \/ x.undefined, K)
<1>1. x.error # "" => EndsWell(x.error, u \/ x.undefined, S)
  BY DEF After, Handles
<1>2. ASSUME x.error = "", NEW q \in T
      PROVE  /\ q.error # "" => EndsWell(q.error, (u \/ x.undefined) \/ q.undefined, S)
             /\ q.error = "" =>
                  \A d \in K : Run(fr, c, i, Onto(args, s, q.value),
                                   (u \/ x.undefined) \/ q.undefined, d) \in Safe(S)
  <2>1. PICK o : o = Later(q, x)
    OBVIOUS
  <2>2. o \in After(x, T)
    BY <1>2, <2>1, Zenon DEF After, Later
  <2>3. IsResult(q, V)
    BY <1>2 DEF AreResults
  <2>4. x.undefined \in BOOLEAN /\ q.undefined \in BOOLEAN
    BY <2>3 DEF IsResult
  <2>5. o.value = q.value /\ o.undefined = (q.undefined \/ x.undefined) /\ o.error = q.error
    <3>1. Delays(Later(q, x), q, x)
      BY <2>3, LaterDelays
    <3> QED
      BY <2>1, <3>1 DEF Delays
  <2>6. PICK b \in BOOLEAN : b = ((u \/ x.undefined) \/ q.undefined)
    OBVIOUS
  <2>7. (u \/ o.undefined) = b
    BY <2>4, <2>5, <2>6
  <2>8. /\ o.error # "" => EndsWell(o.error, u \/ o.undefined, S)
        /\ o.error = "" =>
             \A d \in K : Run(fr, c, i, Onto(args, s, o.value), u \/ o.undefined, d) \in Safe(S)
    BY <2>2 DEF Handles
  <2>9. /\ q.error # "" => EndsWell(q.error, b, S)
        /\ q.error = "" => \A d \in K : Run(fr, c, i, Onto(args, s, q.value), b, d) \in Safe(S)
    BY <2>5, <2>7, <2>8
  <2> QED
    BY <2>6, <2>9
<1> QED
  BY <1>1, <1>2 DEF Handles

(* An operator does not fail with a flag that it has just set.             *)
LEMMA HandlesLeads ==
  ASSUME NEW T, NEW S, NEW fr, NEW c, NEW i, NEW s, NEW u \in BOOLEAN, NEW K,
         Handles(T, FALSE, S, fr, c, i, s, u, K), Quiet(T), NEW d \in K, NEW o \in T
  PROVE  Leads(o, S, fr, c, i, s, u, d)
<1>1. /\ o.error # "" => EndsWell(o.error, u \/ o.undefined, S)
      /\ o.error = "" => Run(fr, c, i, push(s, o.value), u \/ o.undefined, d) \in Safe(S)
  BY DEF Handles, Onto
<1>2. ASSUME o.error # "" PROVE EndsWell(o.error, u, S)
  <2>1. o.undefined = FALSE
    BY <1>2 DEF Quiet
  <2>2. (u \/ o.undefined) = u
    BY <2>1
  <2> QED
    BY <1>1, <1>2, <2>2
<1> QED
  BY <1>1, <1>2 DEF Leads

LEMMA InRunAt ==
  ASSUME NEW fr, NEW c, NEW i, NEW s, NEW u, NEW dm, InRun(fr, c, i, s, u, dm),
         NEW j \in Nat \ {0}, j <= Len(c) + 1, NEW t \in Seq(Value), NEW v \in BOOLEAN,
         NEW d \in Cells
  PROVE  InRun(fr, c, j, t, v, d)
  BY DEF InRun

(***************************************************************************)
(* The last instruction of an expression                                   *)
(***************************************************************************)

LEMMA UnaryStage ==
  ASSUME NEW S, NEW fr, NEW c, NEW i, NEW s, NEW u, NEW dm, InRun(fr, c, i, s, u, dm),
         NEW K \in SUBSET Cells, NEW j \in Nat \ {0}, j <= Len(c), NEW op \in UnaryOps,
         c[j].op = op, NEW w \in Value, NEW v \in BOOLEAN,
         Handles(Unary(op, w), FALSE, S, fr, c, j + 1, s, v, K), NEW d \in K
  PROVE  Run(fr, c, j, push(s, w), v, d) \in Safe(S)
<1>1. s \in Seq(Value) /\ Len(c) \in Nat
  BY DEF InRun
<1>2. push(s, w) \in Seq(Value)
  BY <1>1, OneOnTop
<1>3. j <= Len(c) + 1
  BY <1>1
<1>4. InRun(fr, c, j, push(s, w), v, d)
  BY <1>2, <1>3, InRunAt
<1>5. \A o \in Unary(op, w) : Leads(o, S, fr, c, j + 1, s, v, d)
  BY QuietUnary, HandlesLeads
<1> QED
  BY <1>1, <1>4, <1>5, UnaryRule

LEMMA BinaryStage ==
  ASSUME NEW S, NEW fr, NEW c, NEW i, NEW s, NEW u, NEW dm, InRun(fr, c, i, s, u, dm),
         NEW K \in SUBSET Cells, NEW j \in Nat \ {0}, j <= Len(c), NEW op \in BinaryOps,
         c[j].op = op, NEW l \in Value, NEW r \in Value, NEW v \in BOOLEAN,
         Handles(Binary(op, l, r), FALSE, S, fr, c, j + 1, s, v, K), NEW d \in K
  PROVE  Run(fr, c, j, push(push(s, l), r), v, d) \in Safe(S)
<1>1. s \in Seq(Value) /\ Len(c) \in Nat
  BY DEF InRun
<1>2. push(push(s, l), r) \in Seq(Value)
  BY <1>1, TwoOnTop
<1>3. j <= Len(c) + 1
  BY <1>1
<1>4. InRun(fr, c, j, push(push(s, l), r), v, d)
  BY <1>2, <1>3, InRunAt
<1>5. \A o \in Binary(op, l, r) : Leads(o, S, fr, c, j + 1, s, v, d)
  BY QuietBinary, HandlesLeads, ZenonT(60)
<1> QED
  BY <1>1, <1>4, <1>5, BinaryRule

(* The BOOL behind the operands of && and ||.                              *)
LEMMA TruthStage ==
  ASSUME NEW S, NEW fr, NEW c, NEW i, NEW s, NEW u, NEW dm, InRun(fr, c, i, s, u, dm),
         NEW K \in SUBSET Cells, NEW j \in Nat \ {0}, j <= Len(c), c[j].op = "bool",
         NEW w \in Value, NEW v \in BOOLEAN,
         Handles(AsTruth(w), FALSE, S, fr, c, j + 1, s, v, K), NEW d \in K
  PROVE  Run(fr, c, j, push(s, w), v, d) \in Safe(S)
<1>1. AsTruth(w) = Unary("bool", w) /\ "bool" \in UnaryOps
  BY DEF AsTruth, Tested, Unary, IntegerUnary, UnaryOps
<1> QED
  BY <1>1, UnaryStage, ZenonT(60)

(* A jump that tests the value w on top of s.                              *)
LEMMA TestStage ==
  ASSUME NEW S, NEW fr, NEW c, NEW i, NEW s, NEW u, NEW dm, InRun(fr, c, i, s, u, dm),
         NEW j \in Nat \ {0}, j <= Len(c), NEW op \in {"jumpz", "jumpnz", "jtern"},
         c[j].op = op, NEW arg \in Nat, c[j].arg = arg, NEW w \in Value, NEW v \in BOOLEAN,
         NEW d \in Cells, ~ IsInt(w) => EndsWell("boolean", v, S),
         IsInt(w) => Run(fr, c, j + Offset(op, w, arg), Rest(op, w, s), v, d) \in Safe(S)
  PROVE  Run(fr, c, j, push(s, w), v, d) \in Safe(S)
<1>1. s \in Seq(Value) /\ Len(c) \in Nat
  BY DEF InRun
<1>2. push(s, w) \in Seq(Value)
  BY <1>1, OneOnTop
<1>3. j <= Len(c) + 1
  BY <1>1
<1>4. InRun(fr, c, j, push(s, w), v, d)
  BY <1>2, <1>3, InRunAt
<1> QED
  BY <1>1, <1>4, BranchRule

(***************************************************************************)
(* The parts of an expression                                              *)
(***************************************************************************)

(* The cells hold the arguments that e reads.                              *)
Agrees(D, e, env, dm) ==
  \A a \in D.reads[e] : a.f \in DOMAIN Functions => dm[a.f][a.i] = env[a.i + 1]

(* A program of e fills no cells but those of functions below it.          *)
Keeping(D, e, dm) ==
  {d \in Cells : \A g \in DOMAIN Functions : D.level[g] >= D.rank[e] => d[g] = dm[g]}

(* The program of e leads safely on, if each of its outcomes does.         *)
RunsWell(D, e, env) ==
  \A S, fr, c, i, s, u, dm :
    /\ InRun(fr, c, i, s, u, dm) /\ Sits(c, i, D.code[e]) /\ Agrees(D, e, env, dm)
    /\ Handles(Mean(D, e, env), IsArgs(e), S, fr, c, i + Len(D.code[e]), s, u,
               Keeping(D, e, dm))
    => Run(fr, c, i, s, u, dm) \in Safe(S)

Below(D, e) ==
  \A x, a : <<x, a>> \in D.points /\ D.rank[x] < D.rank[e] /\ EnvTyped(D, x, a) => RunsWell(D, x, a)

(* A run of the program of e, whose parts run well.                        *)
Starts(D, e, env, fr, c, i, s, u, dm) ==
  /\ <<e, env>> \in D.points /\ EnvTyped(D, e, env) /\ Below(D, e)
  /\ InRun(fr, c, i, s, u, dm) /\ Sits(c, i, D.code[e]) /\ Agrees(D, e, env, dm)

LEMMA KeepingPart ==
  ASSUME NEW D, NEW P, Denotes(D, P), NEW e, NEW env, <<e, env>> \in D.points,
         NEW x \in Parts(e), NEW dm, NEW d \in Keeping(D, e, dm), Agrees(D, e, env, dm)
  PROVE  Keeping(D, x, d) \subseteq Keeping(D, e, dm) /\ Agrees(D, x, env, d)
<1>1. /\ D.rank[e] \in Nat /\ <<x, env>> \in D.points /\ D.rank[x] < D.rank[e]
      /\ D.reads[x] \subseteq D.reads[e]
      /\ \A a \in D.reads[e] : D.rank[e] <= D.level[a.f]
  BY PointIs
<1>2. D.rank[x] \in Nat
  BY <1>1, PointIs
<1>3. \A g \in DOMAIN Functions : D.level[g] \in Nat
  BY LevelIs
<1>4. ASSUME NEW d2 \in Keeping(D, x, d) PROVE d2 \in Keeping(D, e, dm)
  <2>1. ASSUME NEW g \in DOMAIN Functions, D.level[g] >= D.rank[e] PROVE d2[g] = dm[g]
    <3>1. D.level[g] >= D.rank[x]
      BY <1>1, <1>2, <1>3, <2>1
    <3>2. d2[g] = d[g]
      BY <3>1 DEF Keeping
    <3>3. d[g] = dm[g]
      BY <2>1 DEF Keeping
    <3> QED
      BY <3>2, <3>3
  <2> QED
    BY <2>1 DEF Keeping
<1>5. ASSUME NEW a \in D.reads[x], a.f \in DOMAIN Functions PROVE d[a.f][a.i] = env[a.i + 1]
  <2>1. a \in D.reads[e] /\ D.level[a.f] >= D.rank[e]
    BY <1>1, <1>3, <1>5
  <2>2. d[a.f] = dm[a.f]
    BY <1>5, <2>1 DEF Keeping
  <2>3. dm[a.f][a.i] = env[a.i + 1]
    BY <1>5, <2>1 DEF Agrees
  <2> QED
    BY <2>2, <2>3
<1> QED
  BY <1>4, <1>5 DEF Agrees

LEMMA HandlesKept ==
  ASSUME NEW T, NEW args, NEW S, NEW fr, NEW c, NEW i, NEW s, NEW u, NEW K,
         Handles(T, args, S, fr, c, i, s, u, K), NEW R, R \subseteq K
  PROVE  Handles(T, args, S, fr, c, i, s, u, R)
  BY DEF Handles

LEMMA PartRuns ==
  ASSUME NEW D, NEW P, Denotes(D, P), NEW e, NEW env, NEW S, NEW fr, NEW c, NEW i, NEW s, NEW u,
         NEW dm, Starts(D, e, env, fr, c, i, s, u, dm),
         NEW x \in Parts(e), NEW j, Sits(c, j, D.code[x]), NEW t \in Seq(Value), NEW v \in BOOLEAN,
         NEW d \in Keeping(D, e, dm),
         Handles(Mean(D, x, env), IsArgs(x), S, fr, c, j + Len(D.code[x]), t, v,
                 Keeping(D, e, dm))
  PROVE  Run(fr, c, j, t, v, d) \in Safe(S)
<1>1. <<e, env>> \in D.points /\ EnvTyped(D, e, env) /\ Below(D, e) /\ Agrees(D, e, env, dm)
  BY DEF Starts
<1>2. <<x, env>> \in D.points /\ D.rank[x] < D.rank[e] /\ D.reads[x] \subseteq D.reads[e]
  BY <1>1, PointIs
<1>3. RunsWell(D, x, env)
  <2>1. EnvTyped(D, x, env)
    BY <1>1, <1>2 DEF EnvTyped
  <2> QED
    BY <1>1, <1>2, <2>1, Zenon DEF Below
<1>4. Keeping(D, x, d) \subseteq Keeping(D, e, dm) /\ Agrees(D, x, env, d)
  BY <1>1, KeepingPart
<1>5. Handles(Mean(D, x, env), IsArgs(x), S, fr, c, j + Len(D.code[x]), t, v, Keeping(D, x, d))
  BY <1>4, HandlesKept
<1>6. InRun(fr, c, j, t, v, d)
  <2>1. InRun(fr, c, i, s, u, dm)
    BY DEF Starts
  <2>2. Len(c) \in Nat
    BY <2>1 DEF InRun
  <2>3. j \in Nat \ {0} /\ j <= Len(c) + 1
    BY <2>2 DEF Sits
  <2>4. d \in Cells
    BY DEF Keeping
  <2> QED
    BY <2>1, <2>3, <2>4, InRunAt
<1> QED
  BY <1>3, <1>4, <1>5, <1>6, Zenon DEF RunsWell

(***************************************************************************)
(* The runs of each kind of expression                                     *)
(***************************************************************************)

(* Behind the program of e, all its outcomes are taken care of.            *)
Ends(D, e, env, S, fr, c, i, s, u, dm) ==
  Handles(Mean(D, e, env), IsArgs(e), S, fr, c, i + Len(D.code[e]), s, u, Keeping(D, e, dm))

LEMMA StartIs ==
  ASSUME NEW D, NEW P, Denotes(D, P), NEW e, NEW env, NEW fr, NEW c, NEW i, NEW s, NEW u, NEW dm,
         Starts(D, e, env, fr, c, i, s, u, dm)
  PROVE  /\ <<e, env>> \in D.points /\ EnvTyped(D, e, env)
         /\ InRun(fr, c, i, s, u, dm) /\ Sits(c, i, D.code[e]) /\ Len(c) \in Nat
         /\ i \in Nat \ {0} /\ s \in Seq(Value) /\ u \in BOOLEAN /\ dm \in Keeping(D, e, dm)
         /\ \A d \in Keeping(D, e, dm) : d \in Cells
         /\ \A x \in Parts(e) : IsSeq(D.code[x]) /\ Len(D.code[x]) \in Nat
<1>1. <<e, env>> \in D.points /\ InRun(fr, c, i, s, u, dm) /\ Sits(c, i, D.code[e])
  BY DEF Starts
<1>2. ASSUME NEW x \in Parts(e) PROVE IsSeq(D.code[x]) /\ Len(D.code[x]) \in Nat
  <2>1. <<x, env>> \in D.points
    BY <1>1, <1>2, PointIs
  <2>2. IsSeq(D.code[x])
    BY <2>1, CodesAreSeqs
  <2> QED
    BY <2>2, LenProperties DEF IsSeq
<1>3. dm \in Keeping(D, e, dm)
  BY <1>1 DEF InRun, Keeping
<1>4. \A d \in Keeping(D, e, dm) : d \in Cells
  BY DEF Keeping
<1> QED
  BY <1>1, <1>2, <1>3, <1>4 DEF InRun, Starts, Sits

LEMMA PlainEnds ==
  ASSUME NEW D, NEW e, NEW env, NEW S, NEW fr, NEW c, NEW i, NEW s, NEW u, NEW dm,
         Ends(D, e, env, S, fr, c, i, s, u, dm), e.k \notin {"nil", "cons"},
         NEW j, i + Len(D.code[e]) = j
  PROVE  Handles(Mean(D, e, env), FALSE, S, fr, c, j, s, u, Keeping(D, e, dm))
  BY DEF Ends, IsArgs, Handles, Onto

(* The meanings of the parts of an expression that is no list.             *)
LEMMA PartIs ==
  ASSUME TypedTables, NEW D, NEW P, Denotes(D, P), NEW e, NEW env, <<e, env>> \in D.points,
         EnvTyped(D, e, env), NEW x \in Parts(e)
  PROVE  AreResults(Mean(D, x, env), Kind(x))
<1>1. TypedAt(D, x, env)
  BY MeaningsTyped
<1>2. <<x, env>> \in D.points /\ D.reads[x] \subseteq D.reads[e]
  BY PointIs
<1>3. EnvTyped(D, x, env)
  BY <1>2 DEF EnvTyped
<1> QED
  BY <1>1, <1>2, <1>3 DEF TypedAt

LEMMA PlainParts ==
  ASSUME TypedTables, NEW D, NEW P, Denotes(D, P), NEW e, NEW env, <<e, env>> \in D.points,
         EnvTyped(D, e, env), e.k \notin {"call", "cons"}, NEW x \in Parts(e)
  PROVE  ~ IsArgs(x) /\ \A o \in Mean(D, x, env) : IsResult(o, Value)
<1>1. ~ IsArgs(x)
  BY PointIs DEF WellFormed
<1>2. AreResults(Mean(D, x, env), Value)
  BY <1>1, PartIs DEF Kind
<1> QED
  BY <1>1, <1>2 DEF AreResults

(* What comes of the outcome o of a part, which is a value.                *)
Takes(o, S, fr, c, j, s, u, K) ==
  /\ o.error # "" => EndsWell(o.error, u \/ o.undefined, S)
  /\ o.error = "" =>
       \A d \in K : Run(fr, c, j, push(s, o.value), u \/ o.undefined, d) \in Safe(S)

LEMMA PlainPartRuns ==
  ASSUME NEW D, NEW P, Denotes(D, P), NEW e, NEW env, NEW S, NEW fr, NEW c, NEW i, NEW s, NEW u,
         NEW dm, Starts(D, e, env, fr, c, i, s, u, dm), NEW x \in Parts(e), ~ IsArgs(x),
         NEW j, Sits(c, j, D.code[x]), NEW t \in Seq(Value), NEW v \in BOOLEAN,
         NEW d \in Keeping(D, e, dm), NEW k, k = j + Len(D.code[x]),
         \A o \in Mean(D, x, env) : Takes(o, S, fr, c, k, t, v, Keeping(D, e, dm))
  PROVE  Run(fr, c, j, t, v, d) \in Safe(S)
<1>1. Handles(Mean(D, x, env), IsArgs(x), S, fr, c, j + Len(D.code[x]), t, v, Keeping(D, e, dm))
  BY DEF Handles, Takes, Onto
<1> QED
  BY <1>1, PartRuns

(* From the value of x on, what handles the outcomes T leads safely on.    *)
Proceeds(x, T, S, fr, c, j, t, i, s, K) ==
  \A v \in BOOLEAN :
    x.error = "" /\ x.value \in Value /\ Handles(T, FALSE, S, fr, c, i, s, v, K)
    => \A d \in K : Run(fr, c, j, push(t, x.value), v, d) \in Safe(S)

(* With the outcome x, what comes after it decides.                        *)
LEMMA AfterTakes ==
  ASSUME NEW T, NEW S, NEW fr, NEW c, NEW i, NEW j, NEW s, NEW u \in BOOLEAN, NEW K, NEW M,
         Handles(M, FALSE, S, fr, c, i, s, u, K), NEW x, After(x, T) \subseteq M,
         IsResult(x, Value), x.error = "" => AreResults(T, Value), NEW t,
         Proceeds(x, T, S, fr, c, j, t, i, s, K)
  PROVE  Takes(x, S, fr, c, j, t, u, K)
<1>1. Handles(After(x, T), FALSE, S, fr, c, i, s, u, K)
  BY HandlesFewer
<1>2. /\ x.error # "" => EndsWell(x.error, u \/ x.undefined, S)
      /\ x.error = "" => Handles(T, FALSE, S, fr, c, i, s, u \/ x.undefined, K)
  BY <1>1, HandlesAfter
<1>3. x.error = "" => x.value \in Value
  BY DEF IsResult
<1>4. PICK v \in BOOLEAN : v = (u \/ x.undefined)
  OBVIOUS
<1> QED
  BY <1>2, <1>3, <1>4 DEF Takes, Proceeds

LEMMA LeafRuns ==
  ASSUME NEW D, NEW P, Denotes(D, P), NEW e, NEW env, NEW S, NEW fr, NEW c, NEW i, NEW s,
         NEW u, NEW dm, Starts(D, e, env, fr, c, i, s, u, dm),
         Ends(D, e, env, S, fr, c, i, s, u, dm), e.k \in {"const", "var", "arg", "rand"}
  PROVE  Run(fr, c, i, s, u, dm) \in Safe(S)
<1>1. /\ <<e, env>> \in D.points /\ InRun(fr, c, i, s, u, dm) /\ Sits(c, i, D.code[e])
      /\ Len(c) \in Nat /\ u \in BOOLEAN /\ dm \in Keeping(D, e, dm)
  BY StartIs
<1>2. PICK op, arg : op = LeafOp(e) /\ arg = LeafArg(e)
  OBVIOUS
<1>9. D.code[e] = Ins(op, arg)
  BY <1>1, <1>2, CodeIs DEF LeafCode
<1>3. i <= Len(c) /\ c[i].op = LeafOp(e) /\ c[i].arg = LeafArg(e) /\ Len(D.code[e]) = 1
  <2>1. Sits(c, i, Ins(op, arg))
    BY <1>1, <1>9
  <2>2. Len(D.code[e]) = 1
    <3>1. Len(Ins(op, arg)) = 1
      BY InstructionLen
    <3> QED
      BY <1>9, <3>1
  <2> QED
    BY <1>1, <1>2, <2>1, <2>2, SitsInstruction
<1>4. c[i].op \in PushOps
  BY <1>3 DEF LeafOp, PushOps
<1>5. SourcesIn(dm, c[i]) = Mean(D, e, env)
  <2>1. CASE e.k = "const"
    BY <1>1, <1>3, <2>1, MeanIs DEF SourcesIn, LeafOp, LeafArg
  <2>2. CASE e.k = "var"
    BY <1>1, <1>3, <2>2, MeanIs DEF SourcesIn, LeafOp, LeafArg
  <2>3. CASE e.k = "arg"
    <3>1. e.f \in DOMAIN Functions /\ [f |-> e.f, i |-> e.i] \in D.reads[e]
      <4>1. WellFormed(e) /\ [f |-> e.f, i |-> e.i] \in D.reads[e]
        BY <1>1, <2>3, PointIs
      <4>2. e.f \in DOMAIN Functions
        BY <2>3, <4>1 DEF WellFormed
      <4> QED
        BY <4>1, <4>2
    <3>2. PICK a : a = [f |-> e.f, i |-> e.i]
      OBVIOUS
    <3>7. a.f = e.f /\ a.i = e.i
      BY <3>2
    <3>3. dm[a.f][a.i] = env[a.i + 1]
      BY <3>1, <3>2, <3>7 DEF Starts, Agrees
    <3>4. c[i].op = "pushd" /\ c[i].arg = a
      BY <1>3, <2>3, <3>2 DEF LeafOp, LeafArg
    <3>5. SourcesIn(dm, c[i]) = Gives(dm[a.f][a.i])
      BY <3>4 DEF SourcesIn
    <3>6. Mean(D, e, env) = Gives(env[e.i + 1])
      BY <1>1, <2>3, MeanIs
    <3> QED
      BY <3>3, <3>5, <3>6, <3>7
  <2>4. CASE e.k = "rand"
    BY <1>1, <1>3, <2>4, MeanIs DEF SourcesIn, LeafOp, LeafArg
  <2> QED
    BY <2>1, <2>2, <2>3, <2>4
<1>6. Quiet(Mean(D, e, env))
  BY <1>4, <1>5, QuietSources
<1>7. Handles(Mean(D, e, env), FALSE, S, fr, c, i + 1, s, u, Keeping(D, e, dm))
  BY <1>3, PlainEnds
<1>8. \A o \in Mean(D, e, env) : Leads(o, S, fr, c, i + 1, s, u, dm)
  BY <1>1, <1>6, <1>7, HandlesLeads
<1> QED
  BY <1>1, <1>3, <1>4, <1>5, <1>8, PushRule

LEMMA UnaryRuns ==
  ASSUME TypedTables, NEW D, NEW P, Denotes(D, P), NEW e, NEW env, NEW S, NEW fr, NEW c, NEW i,
         NEW s, NEW u, NEW dm, Starts(D, e, env, fr, c, i, s, u, dm),
         Ends(D, e, env, S, fr, c, i, s, u, dm), e.k = "un"
  PROVE  Run(fr, c, i, s, u, dm) \in Safe(S)
<1>1. PICK x, K, M : x = e.e /\ K = Keeping(D, e, dm) /\ M = Mean(D, e, env)
  OBVIOUS
<1>2. /\ <<e, env>> \in D.points /\ EnvTyped(D, e, env)
      /\ InRun(fr, c, i, s, u, dm) /\ Sits(c, i, D.code[e]) /\ Len(c) \in Nat
      /\ i \in Nat \ {0} /\ s \in Seq(Value) /\ u \in BOOLEAN /\ dm \in K /\ K \in SUBSET Cells
  BY <1>1, StartIs
<1>3. x \in Parts(e) /\ e.op \in UnaryOps
  BY <1>1, <1>2, PointIs DEF Parts, WellFormed
<1>10. PICK j : j = i + Len(D.code[x])
  OBVIOUS
<1>4. Sits(c, i, D.code[x]) /\ IsAt(c, j, e.op, 0) /\ i + Len(D.code[e]) = j + 1
  <2>1. D.code[e] = D.code[x] \o Ins(e.op, 0) /\ IsSeq(D.code[x])
    BY <1>1, <1>2, <1>3, CodeIs, StartIs DEF UnaryCode
  <2>2. PICK v, w : v = D.code[x] /\ w = D.code[e]
    OBVIOUS
  <2>3. IsSeq(v) /\ w = v \o Ins(e.op, 0) /\ Sits(c, i, w) /\ j = i + Len(v)
    BY <1>2, <1>10, <2>1, <2>2
  <2>4. Sits(c, i, v) /\ IsAt(c, i + Len(v), e.op, 0) /\ Len(w) = Len(v) + 1
    BY <1>2, <2>3, SitsBehind
  <2>5. Len(v) \in Nat
    BY <2>3, LenProperties DEF IsSeq
  <2>6. i + Len(w) = j + 1
    <3>1. j = i + Len(v) /\ Len(w) = Len(v) + 1 /\ i \in Nat
      BY <1>2, <2>3, <2>4
    <3> QED
      BY <2>5, <3>1
  <2> QED
    BY <2>2, <2>3, <2>4, <2>6
<1>13. j \in Nat \ {0} /\ j <= Len(c) /\ c[j].op = e.op
  BY <1>4 DEF IsAt
<1>5. M = OfUnary(D, e, env)
  BY <1>1, <1>2, MeanIs
<1>6. ~ IsArgs(x) /\ \A o \in Mean(D, x, env) : IsResult(o, Value)
  BY <1>2, <1>3, PlainParts
<1>7. Handles(M, FALSE, S, fr, c, j + 1, s, u, K)
  BY <1>1, <1>4, PlainEnds
<1>8. ASSUME NEW o \in Mean(D, x, env) PROVE Takes(o, S, fr, c, j, s, u, K)
  <2>1. IsResult(o, Value)
    BY <1>6
  <2>2. PICK T : T = Unary(e.op, o.value)
    OBVIOUS
  <2>3. o.error = "" => AreResults(T, Value)
    BY <1>3, <2>1, <2>2, UnaryTypes, OutcomesAreResults DEF IsResult
  <2>4. After(o, T) \subseteq M
    BY <1>1, <1>5, <2>2, Zenon DEF OfUnary
  <2>5. Proceeds(o, T, S, fr, c, j, s, j + 1, s, K)
    <3>1. ASSUME NEW v \in BOOLEAN, o.value \in Value,
                 Handles(T, FALSE, S, fr, c, j + 1, s, v, K), NEW d \in K
          PROVE  Run(fr, c, j, push(s, o.value), v, d) \in Safe(S)
      BY <1>2, <1>3, <1>13, <2>2, <3>1, UnaryStage, ZenonT(60)
    <3> QED
      BY <3>1 DEF Proceeds
  <2> QED
    BY <1>2, <1>7, <2>1, <2>3, <2>4, <2>5, AfterTakes, Zenon
<1>9. \A o \in Mean(D, x, env) : Takes(o, S, fr, c, j, s, u, Keeping(D, e, dm))
  BY <1>1, <1>8
<1>11. /\ x \in Parts(e) /\ ~ IsArgs(x) /\ Sits(c, i, D.code[x]) /\ s \in Seq(Value)
       /\ u \in BOOLEAN /\ dm \in Keeping(D, e, dm)
  BY <1>2, <1>3, <1>4, <1>6, StartIs
<1> QED
  BY <1>9, <1>10, <1>11, PlainPartRuns

LEMMA TwoPlaces ==
  ASSUME NEW c, Len(c) \in Nat, NEW i \in Nat \ {0}, NEW v, NEW w, IsSeq(v), IsSeq(w),
         NEW op, NEW arg, Sits(c, i, v \o w \o Ins(op, arg))
  PROVE  /\ Sits(c, i, v) /\ Sits(c, i + Len(v), w) /\ IsAt(c, i + Len(v) + Len(w), op, arg)
         /\ Len(v \o w \o Ins(op, arg)) = Len(v) + Len(w) + 1
<1>1. PICK x : x = v \o w
  OBVIOUS
<1>2. IsSeq(x) /\ Len(x) = Len(v) + Len(w) /\ Len(v) \in Nat /\ Len(w) \in Nat
  BY <1>1, ConcatIsSeq
<1>3. PICK z : z = x \o Ins(op, arg) /\ Sits(c, i, z)
  BY <1>1
<1>4. Sits(c, i, x) /\ IsAt(c, i + Len(x), op, arg) /\ Len(z) = Len(x) + 1
  <2>1. IsSeq(x)
    BY <1>2
  <2>2. Sits(c, i, x) /\ IsAt(c, i + Len(x), op, arg)
    BY <1>3, <2>1, SitsBehind
  <2>3. Len(z) = Len(x) + 1
    <3>1. IsSeq(Ins(op, arg)) /\ Len(Ins(op, arg)) = 1
      BY InstructionLen
    <3> QED
      BY <1>3, <2>1, <3>1, ConcatIsSeq
  <2> QED
    BY <2>2, <2>3
<1>5. Sits(c, i, v) /\ Sits(c, i + Len(v), w)
  BY <1>1, <1>4, SitsConcat
<1>6. i + Len(x) = i + Len(v) + Len(w)
  BY <1>2
<1> QED
  BY <1>1, <1>2, <1>3, <1>4, <1>5, <1>6

LEMMA BinaryProceeds ==
  ASSUME NEW fr, NEW c, NEW i, NEW s, NEW u, NEW dm, InRun(fr, c, i, s, u, dm),
         NEW K \in SUBSET Cells, NEW k \in Nat \ {0}, k <= Len(c), NEW op \in BinaryOps,
         c[k].op = op, NEW w \in Value, NEW r, NEW R, R = Binary(op, w, r.value), NEW S,
         NEW t, t = push(s, w)
  PROVE  Proceeds(r, R, S, fr, c, k, t, k + 1, s, K)
<1>1. ASSUME NEW b \in BOOLEAN, r.value \in Value,
             Handles(R, FALSE, S, fr, c, k + 1, s, b, K), NEW d \in K
      PROVE  Run(fr, c, k, push(t, r.value), b, d) \in Safe(S)
  <2>1. PICK v \in Value : v = r.value
    BY <1>1
  <2>2. Handles(Binary(op, w, v), FALSE, S, fr, c, k + 1, s, b, K)
    BY <1>1, <2>1
  <2>3. Run(fr, c, k, push(push(s, w), v), b, d) \in Safe(S)
    BY <1>1, <2>2, BinaryStage, ZenonT(60)
  <2> QED
    BY <2>1, <2>3
<1> QED
  BY <1>1 DEF Proceeds

LEMMA BinaryRuns ==
  ASSUME TypedTables, NEW D, NEW P, Denotes(D, P), NEW e, NEW env, NEW S, NEW fr, NEW c, NEW i,
         NEW s, NEW u, NEW dm, Starts(D, e, env, fr, c, i, s, u, dm),
         Ends(D, e, env, S, fr, c, i, s, u, dm), e.k = "bin"
  PROVE  Run(fr, c, i, s, u, dm) \in Safe(S)
<1>1. PICK x, y, K, M : x = e.l /\ y = e.r /\ K = Keeping(D, e, dm) /\ M = Mean(D, e, env)
  OBVIOUS
<1>2. /\ <<e, env>> \in D.points /\ EnvTyped(D, e, env)
      /\ InRun(fr, c, i, s, u, dm) /\ Sits(c, i, D.code[e]) /\ Len(c) \in Nat
      /\ i \in Nat \ {0} /\ s \in Seq(Value) /\ u \in BOOLEAN /\ K \in SUBSET Cells
  BY <1>1, StartIs
<1>3. x \in Parts(e) /\ y \in Parts(e) /\ e.op \in BinaryOps
  BY <1>1, <1>2, PointIs DEF Parts, WellFormed
<1>4. PICK j : j = i + Len(D.code[x])
  OBVIOUS
<1>5. PICK k : k = j + Len(D.code[y])
  OBVIOUS
<1>6. /\ Sits(c, i, D.code[x]) /\ Sits(c, j, D.code[y]) /\ IsAt(c, k, e.op, 0)
      /\ i + Len(D.code[e]) = k + 1
  <2>1. /\ D.code[e] = D.code[x] \o D.code[y] \o Ins(e.op, 0)
        /\ IsSeq(D.code[x]) /\ IsSeq(D.code[y])
    BY <1>1, <1>2, <1>3, CodeIs, StartIs DEF BinaryCode
  <2>2. PICK v, w, z : v = D.code[x] /\ w = D.code[y] /\ z = D.code[e]
    OBVIOUS
  <2>3. /\ IsSeq(v) /\ IsSeq(w) /\ z = v \o w \o Ins(e.op, 0) /\ Sits(c, i, z)
        /\ j = i + Len(v) /\ k = j + Len(w)
    BY <1>2, <1>4, <1>5, <2>1, <2>2
  <2>4. /\ Sits(c, i, v) /\ Sits(c, i + Len(v), w) /\ IsAt(c, i + Len(v) + Len(w), e.op, 0)
        /\ Len(z) = Len(v) + Len(w) + 1
    BY <1>2, <2>3, TwoPlaces
  <2>5. Len(v) \in Nat /\ Len(w) \in Nat
    BY <2>3, LenProperties DEF IsSeq
  <2>6. i + Len(z) = k + 1
    <3>1. j = i + Len(v) /\ k = j + Len(w) /\ Len(z) = Len(v) + Len(w) + 1 /\ i \in Nat
      BY <1>2, <2>3, <2>4
    <3> QED
      BY <2>5, <3>1
  <2> QED
    BY <2>2, <2>3, <2>4, <2>6
<1>13. k \in Nat \ {0} /\ k <= Len(c) /\ c[k].op = e.op
  BY <1>6 DEF IsAt
<1>7. M = OfBinary(D, e, env)
  BY <1>1, <1>2, MeanIs
<1>8. /\ ~ IsArgs(x) /\ \A l \in Mean(D, x, env) : IsResult(l, Value)
      /\ ~ IsArgs(y) /\ \A r \in Mean(D, y, env) : IsResult(r, Value)
  BY <1>2, <1>3, PlainParts
<1>9. Handles(M, FALSE, S, fr, c, k + 1, s, u, K)
  BY <1>1, <1>6, PlainEnds
<1>10. ASSUME NEW l \in Mean(D, x, env) PROVE Takes(l, S, fr, c, j, s, u, K)
  <2>1. IsResult(l, Value)
    BY <1>8
  <2>2. PICK T : T = WithRight(D, e, env, l)
    OBVIOUS
  <2>3. l.error = "" => AreResults(T, Value)
    <3>1. AreResults(Mean(D, e.r, env), Value)
      BY <1>1, <1>8 DEF AreResults
    <3> QED
      BY <1>3, <2>1, <2>2, <3>1, WithRightTyped
  <2>4. After(l, T) \subseteq M
    BY <1>1, <1>7, <2>2, Zenon DEF OfBinary
  <2>5. Proceeds(l, T, S, fr, c, j, s, k + 1, s, K)
    <3>1. ASSUME NEW v \in BOOLEAN, l.value \in Value,
                 Handles(T, FALSE, S, fr, c, k + 1, s, v, K), NEW d \in K
          PROVE  Run(fr, c, j, push(s, l.value), v, d) \in Safe(S)
      <4>1. PICK t : t = push(s, l.value)
        OBVIOUS
      <4>2. t \in Seq(Value)
        BY <1>2, <3>1, <4>1, OneOnTop
      <4>3. ASSUME NEW r \in Mean(D, y, env) PROVE Takes(r, S, fr, c, k, t, v, K)
        <5>1. IsResult(r, Value)
          BY <1>8
        <5>2. PICK R : R = Binary(e.op, l.value, r.value)
          OBVIOUS
        <5>3. r.error = "" => AreResults(R, Value)
          BY <1>3, <3>1, <5>1, <5>2, BinaryTypes, OutcomesAreResults DEF IsResult
        <5>4. After(r, R) \subseteq T
          BY <1>1, <2>2, <5>2, Zenon DEF WithRight
        <5>5. Proceeds(r, R, S, fr, c, k, t, k + 1, s, K)
          <6>1. PICK op, w : op = e.op /\ w = l.value
            OBVIOUS
          <6>2. /\ InRun(fr, c, i, s, u, dm) /\ K \in SUBSET Cells /\ k \in Nat \ {0}
                /\ k <= Len(c) /\ op \in BinaryOps /\ c[k].op = op /\ w \in Value
                /\ R = Binary(op, w, r.value) /\ t = push(s, w)
            BY <1>2, <1>3, <1>13, <3>1, <4>1, <5>2, <6>1
          <6> QED
            BY <6>2, BinaryProceeds
        <5> QED
          BY <3>1, <5>1, <5>3, <5>4, <5>5, AfterTakes, Zenon
      <4>4. \A r \in Mean(D, y, env) : Takes(r, S, fr, c, k, t, v, Keeping(D, e, dm))
        BY <1>1, <4>3
      <4>5. /\ y \in Parts(e) /\ ~ IsArgs(y) /\ Sits(c, j, D.code[y]) /\ t \in Seq(Value)
            /\ v \in BOOLEAN /\ d \in Keeping(D, e, dm)
        BY <1>1, <1>3, <1>6, <1>8, <3>1, <4>2
      <4>6. Run(fr, c, j, t, v, d) \in Safe(S)
        BY <1>5, <4>4, <4>5, PlainPartRuns
      <4> QED
        BY <4>1, <4>6
    <3> QED
      BY <3>1 DEF Proceeds
  <2> QED
    BY <1>2, <1>9, <2>1, <2>3, <2>4, <2>5, AfterTakes, Zenon
<1>11. \A l \in Mean(D, x, env) : Takes(l, S, fr, c, j, s, u, Keeping(D, e, dm))
  BY <1>1, <1>10
<1>12. /\ x \in Parts(e) /\ ~ IsArgs(x) /\ Sits(c, i, D.code[x]) /\ s \in Seq(Value)
       /\ u \in BOOLEAN /\ dm \in Keeping(D, e, dm)
  BY <1>2, <1>3, <1>6, <1>8, StartIs
<1> QED
  BY <1>4, <1>11, <1>12, PlainPartRuns

LEMMA ThreePlaces ==
  ASSUME NEW c, Len(c) \in Nat, NEW i \in Nat \ {0}, NEW v, NEW w, IsSeq(v), IsSeq(w),
         NEW op, NEW arg, NEW op2, NEW arg2,
         Sits(c, i, v \o Ins(op, arg) \o w \o Ins(op2, arg2))
  PROVE  /\ Sits(c, i, v) /\ IsAt(c, i + Len(v), op, arg) /\ Sits(c, i + Len(v) + 1, w)
         /\ IsAt(c, i + Len(v) + 1 + Len(w), op2, arg2)
         /\ Len(v \o Ins(op, arg) \o w \o Ins(op2, arg2)) = Len(v) + Len(w) + 2
<1>1. PICK x : x = v \o Ins(op, arg)
  OBVIOUS
<1>2. IsSeq(x) /\ Len(x) = Len(v) + 1 /\ Len(v) \in Nat /\ Len(w) \in Nat
  <2>1. IsSeq(Ins(op, arg)) /\ Len(Ins(op, arg)) = 1
    BY InstructionLen
  <2>2. Len(w) \in Nat
    BY LenProperties DEF IsSeq
  <2> QED
    BY <1>1, <2>1, <2>2, ConcatIsSeq
<1>3. IsSeq(x)
  BY <1>2
<1>4. Sits(c, i, x \o w \o Ins(op2, arg2))
  BY <1>1
<1>5. /\ Sits(c, i, x) /\ Sits(c, i + Len(x), w) /\ IsAt(c, i + Len(x) + Len(w), op2, arg2)
      /\ Len(x \o w \o Ins(op2, arg2)) = Len(x) + Len(w) + 1
  BY <1>3, <1>4, TwoPlaces
<1>6. Sits(c, i, v) /\ IsAt(c, i + Len(v), op, arg)
  BY <1>1, <1>5, SitsBehind
<1>7. /\ i + Len(x) = i + Len(v) + 1 /\ i + Len(x) + Len(w) = i + Len(v) + 1 + Len(w)
      /\ Len(x) + Len(w) + 1 = Len(v) + Len(w) + 2
  BY <1>2
<1> QED
  BY <1>1, <1>5, <1>6, <1>7

LEMMA FourPlaces ==
  ASSUME NEW c, Len(c) \in Nat, NEW i \in Nat \ {0}, NEW v, NEW w, NEW y,
         IsSeq(v), IsSeq(w), IsSeq(y), NEW op, NEW arg, NEW op2, NEW arg2,
         Sits(c, i, v \o Ins(op, arg) \o w \o Ins(op2, arg2) \o y)
  PROVE  /\ Sits(c, i, v) /\ IsAt(c, i + Len(v), op, arg) /\ Sits(c, i + Len(v) + 1, w)
         /\ IsAt(c, i + Len(v) + 1 + Len(w), op2, arg2)
         /\ Sits(c, i + Len(v) + 1 + Len(w) + 1, y)
         /\ Len(v \o Ins(op, arg) \o w \o Ins(op2, arg2) \o y) = Len(v) + Len(w) + 2 + Len(y)
<1>1. PICK x : x = v \o Ins(op, arg) \o w \o Ins(op2, arg2)
  OBVIOUS
<1>2. IsSeq(x)
  <2>1. IsSeq(Ins(op, arg)) /\ IsSeq(Ins(op2, arg2))
    BY InstructionLen
  <2>2. IsSeq(v \o Ins(op, arg))
    BY <2>1, ConcatIsSeq
  <2>3. IsSeq(v \o Ins(op, arg) \o w)
    BY <2>2, ConcatIsSeq
  <2> QED
    BY <1>1, <2>1, <2>3, ConcatIsSeq
<1>3. Sits(c, i, x \o y)
  BY <1>1
<1>4. Sits(c, i, x) /\ Sits(c, i + Len(x), y)
  BY <1>2, <1>3, SitsConcat
<1>5. /\ Sits(c, i, v) /\ IsAt(c, i + Len(v), op, arg) /\ Sits(c, i + Len(v) + 1, w)
      /\ IsAt(c, i + Len(v) + 1 + Len(w), op2, arg2)
      /\ Len(x) = Len(v) + Len(w) + 2
  BY <1>1, <1>4, ThreePlaces
<1>6. Len(v) \in Nat /\ Len(w) \in Nat /\ Len(y) \in Nat
  BY LenProperties DEF IsSeq
<1>7. i + Len(x) = i + Len(v) + 1 + Len(w) + 1
  BY <1>5, <1>6
<1>8. Len(x \o y) = Len(x) + Len(y)
  BY <1>2, ConcatIsSeq
<1>9. Len(x \o y) = Len(v) + Len(w) + 2 + Len(y)
  BY <1>5, <1>8
<1> QED
  BY <1>1, <1>4, <1>5, <1>7, <1>9

(***************************************************************************)
(* && and ||                                                               *)
(***************************************************************************)

LEMMA FailsEnds ==
  ASSUME NEW text, text # "", NEW S, NEW fr, NEW c, NEW i, NEW s, NEW u \in BOOLEAN, NEW K,
         Handles(Fails(text), FALSE, S, fr, c, i, s, u, K)
  PROVE  EndsWell(text, u, S)
<1>1. PICK o : o = [value |-> Integer(0), undefined |-> FALSE, error |-> text]
  OBVIOUS
<1>2. o \in Fails(text) /\ o.error = text /\ o.undefined = FALSE
  BY <1>1 DEF Fails
<1>3. EndsWell(o.error, u \/ o.undefined, S)
  BY <1>2 DEF Handles
<1>4. (u \/ o.undefined) = u
  BY <1>2
<1> QED
  BY <1>2, <1>3, <1>4

(* What comes of the left operand w of && (jumpz) or || (jumpnz).          *)
LeftOf(D, e, env, op, w) == Tested(w, IF Jumps(op, w) THEN AsTruth(w) ELSE RightTruth(D, e, env))

LEMMA LeftIs ==
  ASSUME NEW D, NEW e, NEW env, NEW l
  PROVE  /\ AndLeft(D, e, env, l) = LeftOf(D, e, env, "jumpz", l.value)
         /\ OrLeft(D, e, env, l) = LeftOf(D, e, env, "jumpnz", l.value)
  BY DEF AndLeft, OrLeft, LeftOf, Jumps, AsTruth, Tested, Truth

LEMMA RightRuns ==
  ASSUME NEW D, NEW P, Denotes(D, P), NEW e, NEW env, NEW S, NEW fr, NEW c, NEW i, NEW s, NEW u,
         NEW dm, Starts(D, e, env, fr, c, i, s, u, dm), e.r \in Parts(e), ~ IsArgs(e.r),
         \A r \in Mean(D, e.r, env) : IsResult(r, Value), NEW j, Sits(c, j, D.code[e.r]),
         NEW k, k = j + Len(D.code[e.r]), IsAt(c, k, "bool", 0), NEW v \in BOOLEAN,
         Handles(RightTruth(D, e, env), FALSE, S, fr, c, k + 1, s, v, Keeping(D, e, dm)),
         NEW d \in Keeping(D, e, dm)
  PROVE  Run(fr, c, j, s, v, d) \in Safe(S)
<1>1. PICK K, M : K = Keeping(D, e, dm) /\ M = RightTruth(D, e, env)
  OBVIOUS
<1>2. InRun(fr, c, i, s, u, dm) /\ s \in Seq(Value) /\ K \in SUBSET Cells
  BY <1>1, StartIs
<1>3. k \in Nat \ {0} /\ k <= Len(c) /\ c[k].op = "bool"
  BY DEF IsAt
<1>4. Handles(M, FALSE, S, fr, c, k + 1, s, v, K)
  BY <1>1
<1>5. ASSUME NEW r \in Mean(D, e.r, env) PROVE Takes(r, S, fr, c, k, s, v, K)
  <2>1. IsResult(r, Value)
    OBVIOUS
  <2>2. PICK R : R = AsTruth(r.value)
    OBVIOUS
  <2>3. r.error = "" => AreResults(R, Value)
    BY <2>2, AsTruthResults
  <2>4. After(r, R) \subseteq M
    BY <1>1, <2>2, Zenon DEF RightTruth
  <2>5. Proceeds(r, R, S, fr, c, k, s, k + 1, s, K)
    <3>1. ASSUME NEW b \in BOOLEAN, r.value \in Value,
                 Handles(R, FALSE, S, fr, c, k + 1, s, b, K), NEW d2 \in K
          PROVE  Run(fr, c, k, push(s, r.value), b, d2) \in Safe(S)
      BY <1>2, <1>3, <2>2, <3>1, TruthStage
    <3> QED
      BY <3>1 DEF Proceeds
  <2> QED
    BY <1>4, <2>1, <2>3, <2>4, <2>5, AfterTakes, Zenon
<1>6. \A r \in Mean(D, e.r, env) : Takes(r, S, fr, c, k, s, v, Keeping(D, e, dm))
  BY <1>1, <1>5
<1> QED
  BY <1>2, <1>6, PlainPartRuns

LEMMA Reordered == ASSUME NEW j \in Nat, NEW n \in Nat PROVE j + (n + 1) = j + 1 + n
  OBVIOUS

(* The jump of && or || is at j, its right operand behind it, its BOOL at  *)
(* k.                                                                      *)
LogicAt(D, e, env, op, c, j, k) ==
  /\ e.r \in Parts(e) /\ ~ IsArgs(e.r)
  /\ \A r \in Mean(D, e.r, env) : IsResult(r, Value)
  /\ op \in {"jumpz", "jumpnz"} /\ IsAt(c, j, op, Len(D.code[e.r]) + 1)
  /\ Sits(c, j + 1, D.code[e.r]) /\ k = j + 1 + Len(D.code[e.r]) /\ IsAt(c, k, "bool", 0)

LEMMA LeftRuns ==
  ASSUME NEW D, NEW P, Denotes(D, P), NEW e, NEW env, NEW S, NEW fr, NEW c, NEW i, NEW s, NEW u,
         NEW dm, Starts(D, e, env, fr, c, i, s, u, dm), NEW op, NEW j, NEW k,
         LogicAt(D, e, env, op, c, j, k),
         NEW w \in Value, NEW v \in BOOLEAN, NEW d \in Keeping(D, e, dm),
         Handles(LeftOf(D, e, env, op, w), FALSE, S, fr, c, k + 1, s, v, Keeping(D, e, dm))
  PROVE  Run(fr, c, j, push(s, w), v, d) \in Safe(S)
<1>7. /\ e.r \in Parts(e) /\ ~ IsArgs(e.r)
      /\ \A r \in Mean(D, e.r, env) : IsResult(r, Value)
      /\ op \in {"jumpz", "jumpnz"} /\ IsAt(c, j, op, Len(D.code[e.r]) + 1)
      /\ Sits(c, j + 1, D.code[e.r]) /\ k = j + 1 + Len(D.code[e.r])
      /\ IsAt(c, k, "bool", 0)
  BY DEF LogicAt
<1>1. PICK n \in Nat : n = Len(D.code[e.r])
  BY <1>7, StartIs
<1>2. InRun(fr, c, i, s, u, dm) /\ s \in Seq(Value) /\ Keeping(D, e, dm) \in SUBSET Cells
  BY StartIs
<1>3. j \in Nat \ {0} /\ j <= Len(c) /\ c[j].op = op /\ c[j].arg = n + 1 /\ n + 1 \in Nat
  BY <1>1, <1>7 DEF IsAt
<1>4. j + (n + 1) = k
  <2>1. k = j + 1 + n
    BY <1>1, <1>7
  <2>2. j \in Nat
    BY <1>3
  <2>3. j + (n + 1) = j + 1 + n
    BY <2>2, Reordered
  <2> QED
    BY <2>1, <2>3, Zenon
<1>5. ASSUME ~ IsInt(w) PROVE EndsWell("boolean", v, S)
  <2>1. LeftOf(D, e, env, op, w) = Fails("boolean")
    BY <1>5 DEF LeftOf, Tested
  <2> QED
    BY <2>1, FailsEnds
<1>6. ASSUME IsInt(w)
      PROVE  Run(fr, c, j + Offset(op, w, n + 1), Rest(op, w, s), v, d) \in Safe(S)
  <2>1. CASE Jumps(op, w)
    <3>1. LeftOf(D, e, env, op, w) = AsTruth(w)
      BY <1>6, <2>1 DEF LeftOf, Tested
    <3>2. Offset(op, w, n + 1) = n + 1 /\ Rest(op, w, s) = push(s, w)
      BY <1>7, <2>1 DEF Offset, Rest, Jumps, Keeps
    <3>3. k \in Nat \ {0} /\ k <= Len(c) /\ c[k].op = "bool"
      BY <1>7 DEF IsAt
    <3>4. Handles(AsTruth(w), FALSE, S, fr, c, k + 1, s, v, Keeping(D, e, dm))
      BY <3>1
    <3>5. Run(fr, c, k, push(s, w), v, d) \in Safe(S)
      BY <1>2, <3>3, <3>4, TruthStage
    <3> QED
      BY <1>4, <3>2, <3>5
  <2>2. CASE ~ Jumps(op, w)
    <3>1. LeftOf(D, e, env, op, w) = RightTruth(D, e, env)
      BY <1>6, <2>2 DEF LeftOf, Tested
    <3>2. Offset(op, w, n + 1) = 1 /\ Rest(op, w, s) = s
      BY <1>7, <2>2 DEF Offset, Rest, Jumps, Keeps
    <3>3. Handles(RightTruth(D, e, env), FALSE, S, fr, c, k + 1, s, v, Keeping(D, e, dm))
      BY <3>1
    <3>4. Run(fr, c, j + 1, s, v, d) \in Safe(S)
      BY <1>7, <3>3, RightRuns
    <3> QED
      BY <3>2, <3>4
  <2> QED
    BY <2>1, <2>2
<1> QED
  BY <1>2, <1>3, <1>5, <1>6, <1>7, TestStage

LEMMA LogicPlaces ==
  ASSUME NEW D, NEW P, Denotes(D, P), NEW e, NEW env, NEW fr, NEW c, NEW i, NEW s, NEW u, NEW dm,
         Starts(D, e, env, fr, c, i, s, u, dm), e.l \in Parts(e), e.r \in Parts(e),
         NEW op, D.code[e] = LogicCode(D, e, op),
         NEW j, j = i + Len(D.code[e.l]), NEW k, k = j + 1 + Len(D.code[e.r])
  PROVE  /\ Sits(c, i, D.code[e.l]) /\ IsAt(c, j, op, Len(D.code[e.r]) + 1)
         /\ Sits(c, j + 1, D.code[e.r]) /\ IsAt(c, k, "bool", 0)
         /\ i + Len(D.code[e]) = k + 1
<1>1. PICK v, w, z : v = D.code[e.l] /\ w = D.code[e.r] /\ z = D.code[e]
  OBVIOUS
<1>2. /\ IsSeq(v) /\ IsSeq(w) /\ Sits(c, i, z) /\ Len(c) \in Nat /\ i \in Nat \ {0}
      /\ Len(v) \in Nat /\ Len(w) \in Nat
  BY <1>1, StartIs
<1>3. z = v \o Ins(op, Len(w) + 1) \o w \o Ins("bool", 0)
  BY <1>1 DEF LogicCode
<1>4. Sits(c, i, v \o Ins(op, Len(w) + 1) \o w \o Ins("bool", 0))
  BY <1>2, <1>3
<1>5. /\ Sits(c, i, v) /\ IsAt(c, i + Len(v), op, Len(w) + 1) /\ Sits(c, i + Len(v) + 1, w)
      /\ IsAt(c, i + Len(v) + 1 + Len(w), "bool", 0)
  BY <1>2, <1>4, ThreePlaces
<1>9. Len(z) = Len(v) + Len(w) + 2
  <2>1. Len(v \o Ins(op, Len(w) + 1) \o w \o Ins("bool", 0)) = Len(v) + Len(w) + 2
    BY <1>2, <1>4, ThreePlaces
  <2> QED
    BY <1>3, <2>1
<1>6. j = i + Len(v) /\ k = j + 1 + Len(w)
  BY <1>1
<1>7. i + Len(z) = k + 1
  <2>1. i \in Nat /\ Len(v) \in Nat /\ Len(w) \in Nat
    BY <1>2
  <2>2. i + (Len(v) + Len(w) + 2) = i + Len(v) + 1 + Len(w) + 1
    BY <2>1
  <2> QED
    BY <1>6, <1>9, <2>2, Zenon
<1>8. i + Len(v) = j /\ i + Len(v) + 1 + Len(w) = k
  BY <1>6
<1> QED
  BY <1>1, <1>5, <1>7, <1>8

LEMMA LogicRuns ==
  ASSUME TypedTables, NEW D, NEW P, Denotes(D, P), NEW e, NEW env, NEW S, NEW fr, NEW c, NEW i,
         NEW s, NEW u, NEW dm, Starts(D, e, env, fr, c, i, s, u, dm),
         Ends(D, e, env, S, fr, c, i, s, u, dm), e.k \in {"and", "or"}
  PROVE  Run(fr, c, i, s, u, dm) \in Safe(S)
<1>1. PICK K, M, op : /\ K = Keeping(D, e, dm) /\ M = Mean(D, e, env)
                      /\ op = IF e.k = "and" THEN "jumpz" ELSE "jumpnz"
  OBVIOUS
<1>2. /\ <<e, env>> \in D.points /\ EnvTyped(D, e, env)
      /\ InRun(fr, c, i, s, u, dm) /\ s \in Seq(Value) /\ u \in BOOLEAN
  BY StartIs
<1>3. e.l \in Parts(e) /\ e.r \in Parts(e) /\ op \in {"jumpz", "jumpnz"}
  BY <1>1 DEF Parts
<1>4. PICK j : j = i + Len(D.code[e.l])
  OBVIOUS
<1>5. PICK k : k = j + 1 + Len(D.code[e.r])
  OBVIOUS
<1>6. /\ Sits(c, i, D.code[e.l]) /\ IsAt(c, j, op, Len(D.code[e.r]) + 1)
      /\ Sits(c, j + 1, D.code[e.r]) /\ IsAt(c, k, "bool", 0)
      /\ i + Len(D.code[e]) = k + 1
  <2>1. D.code[e] = LogicCode(D, e, op)
    BY <1>1, <1>2, CodeIs
  <2> QED
    BY <1>3, <1>4, <1>5, <2>1, LogicPlaces, SMTT(60)
<1>7. \A l \in Mean(D, e.l, env) : After(l, LeftOf(D, e, env, op, l.value)) \subseteq M
  <2>1. CASE e.k = "and"
    <3>1. M = OfAnd(D, e, env) /\ op = "jumpz"
      BY <1>1, <1>2, <2>1, MeanIs
    <3> QED
      BY <3>1, LeftIs, Zenon DEF OfAnd
  <2>2. CASE e.k = "or"
    <3>1. M = OfOr(D, e, env) /\ op = "jumpnz"
      BY <1>1, <1>2, <2>2, MeanIs
    <3> QED
      BY <3>1, LeftIs, Zenon DEF OfOr
  <2> QED
    BY <2>1, <2>2
<1>8. /\ ~ IsArgs(e.l) /\ \A l \in Mean(D, e.l, env) : IsResult(l, Value)
      /\ ~ IsArgs(e.r) /\ \A r \in Mean(D, e.r, env) : IsResult(r, Value)
  BY <1>2, <1>3, PlainParts
<1>9. Handles(M, FALSE, S, fr, c, k + 1, s, u, K)
  BY <1>1, <1>6, PlainEnds
<1>10. ASSUME NEW l \in Mean(D, e.l, env) PROVE Takes(l, S, fr, c, j, s, u, K)
  <2>1. IsResult(l, Value)
    BY <1>8
  <2>2. PICK T : T = LeftOf(D, e, env, op, l.value)
    OBVIOUS
  <2>3. l.error = "" => AreResults(T, Value)
    <3>1. AreResults(Mean(D, e.r, env), Value)
      BY <1>8 DEF AreResults
    <3>2. AreResults(RightTruth(D, e, env), Value) /\ AreResults(AsTruth(l.value), Value)
      BY <3>1, RightTruthTyped, AsTruthResults
    <3> QED
      BY <2>2, <3>2, TestedResults DEF LeftOf
  <2>4. After(l, T) \subseteq M
    BY <1>7, <2>2
  <2>5. Proceeds(l, T, S, fr, c, j, s, k + 1, s, K)
    <3>1. ASSUME NEW v \in BOOLEAN, l.value \in Value,
                 Handles(T, FALSE, S, fr, c, k + 1, s, v, K), NEW d \in K
          PROVE  Run(fr, c, j, push(s, l.value), v, d) \in Safe(S)
      <4>1. /\ d \in Keeping(D, e, dm)
            /\ Handles(LeftOf(D, e, env, op, l.value), FALSE, S, fr, c, k + 1, s, v,
                       Keeping(D, e, dm))
        BY <1>1, <2>2, <3>1
      <4>2. PICK w \in Value : w = l.value
        BY <3>1
      <4>3. Handles(LeftOf(D, e, env, op, w), FALSE, S, fr, c, k + 1, s, v, Keeping(D, e, dm))
        BY <4>1, <4>2
      <4>4. LogicAt(D, e, env, op, c, j, k)
        BY <1>3, <1>5, <1>6, <1>8 DEF LogicAt
      <4>5. Run(fr, c, j, push(s, w), v, d) \in Safe(S)
        BY <3>1, <4>1, <4>3, <4>4, LeftRuns, ZenonT(60)
      <4> QED
        BY <4>2, <4>5
    <3> QED
      BY <3>1 DEF Proceeds
  <2> QED
    BY <1>2, <1>9, <2>1, <2>3, <2>4, <2>5, AfterTakes, Zenon
<1>11. \A l \in Mean(D, e.l, env) : Takes(l, S, fr, c, j, s, u, Keeping(D, e, dm))
  BY <1>1, <1>10
<1>12. /\ e.l \in Parts(e) /\ ~ IsArgs(e.l) /\ Sits(c, i, D.code[e.l]) /\ s \in Seq(Value)
       /\ u \in BOOLEAN /\ dm \in Keeping(D, e, dm)
  BY <1>2, <1>3, <1>6, <1>8, StartIs
<1> QED
  BY <1>4, <1>11, <1>12, PlainPartRuns

(***************************************************************************)
(* ?:                                                                      *)
(***************************************************************************)

(* The jtern of ?: is at j, its second operand behind it, a jump over the  *)
(* third at k, and the program ends before n.                              *)
IfAt(D, e, env, c, j, k, n) ==
  /\ e.t \in Parts(e) /\ ~ IsArgs(e.t) /\ \A o \in Mean(D, e.t, env) : IsResult(o, Value)
  /\ e.e \in Parts(e) /\ ~ IsArgs(e.e) /\ \A o \in Mean(D, e.e, env) : IsResult(o, Value)
  /\ IsAt(c, j, "jtern", Len(D.code[e.t]) + 2) /\ Sits(c, j + 1, D.code[e.t])
  /\ k = j + 1 + Len(D.code[e.t]) /\ IsAt(c, k, "jump", Len(D.code[e.e]) + 1)
  /\ Sits(c, k + 1, D.code[e.e]) /\ n = k + 1 + Len(D.code[e.e])

LEMMA SecondRuns ==
  ASSUME NEW D, NEW P, Denotes(D, P), NEW e, NEW env, NEW S, NEW fr, NEW c, NEW i, NEW s, NEW u,
         NEW dm, Starts(D, e, env, fr, c, i, s, u, dm), NEW j, NEW k, NEW n,
         IfAt(D, e, env, c, j, k, n), NEW v \in BOOLEAN, NEW d \in Keeping(D, e, dm),
         Handles(Mean(D, e.t, env), FALSE, S, fr, c, n, s, v, Keeping(D, e, dm))
  PROVE  Run(fr, c, j + 1, s, v, d) \in Safe(S)
<1>1. /\ e.t \in Parts(e) /\ ~ IsArgs(e.t) /\ Sits(c, j + 1, D.code[e.t])
      /\ k = j + 1 + Len(D.code[e.t]) /\ s \in Seq(Value)
  BY StartIs DEF IfAt
<1>2. PICK m \in Nat : m = Len(D.code[e.e])
  BY StartIs DEF IfAt
<1>3. /\ k \in Nat \ {0} /\ k <= Len(c) /\ c[k].op = "jump" /\ c[k].arg = m + 1
      /\ n = k + 1 + m
  BY <1>2 DEF IfAt, IsAt
<1>4. k + (m + 1) = n
  <2>1. k \in Nat
    BY <1>3
  <2>2. k + (m + 1) = k + 1 + m
    BY <2>1, Reordered
  <2> QED
    BY <1>3, <2>2, Zenon
<1>5. ASSUME NEW o \in Mean(D, e.t, env) PROVE Takes(o, S, fr, c, k, s, v, Keeping(D, e, dm))
  <2>1. /\ o.error # "" => EndsWell(o.error, v \/ o.undefined, S)
        /\ o.error = "" => \A d2 \in Keeping(D, e, dm) :
             Run(fr, c, n, push(s, o.value), v \/ o.undefined, d2) \in Safe(S)
    BY DEF Handles, Onto
  <2>2. IsResult(o, Value)
    BY DEF IfAt
  <2>3. PICK b \in BOOLEAN : b = (v \/ o.undefined)
    BY <2>2 DEF IsResult
  <2>4. ASSUME o.error = "", NEW d2 \in Keeping(D, e, dm)
        PROVE  Run(fr, c, k, push(s, o.value), b, d2) \in Safe(S)
    <3>1. PICK t : t = push(s, o.value)
      OBVIOUS
    <3>2. t \in Seq(Value)
      BY <1>1, <2>2, <2>4, <3>1, OneOnTop DEF IsResult
    <3>3. InRun(fr, c, k, t, b, d2)
      <4>1. InRun(fr, c, i, s, u, dm) /\ Len(c) \in Nat /\ d2 \in Cells
        BY StartIs
      <4>2. k \in Nat \ {0} /\ k <= Len(c) + 1
        BY <1>3, <4>1
      <4> QED
        BY <3>2, <4>1, <4>2, InRunAt
    <3>4. Run(fr, c, k + (m + 1), t, b, d2) \in Safe(S)
      BY <1>4, <2>1, <2>3, <2>4, <3>1
    <3>5. Run(fr, c, k, t, b, d2) \in Safe(S)
      <4>1. m + 1 \in Nat /\ k <= Len(c) /\ c[k].op = "jump" /\ c[k].arg = m + 1
        BY <1>3
      <4> QED
        BY <3>3, <3>4, <4>1, JumpRule
    <3> QED
      BY <3>1, <3>5
  <2> QED
    BY <2>1, <2>3, <2>4 DEF Takes
<1> QED
  BY <1>1, <1>5, PlainPartRuns

LEMMA ThirdRuns ==
  ASSUME NEW D, NEW P, Denotes(D, P), NEW e, NEW env, NEW S, NEW fr, NEW c, NEW i, NEW s, NEW u,
         NEW dm, Starts(D, e, env, fr, c, i, s, u, dm), NEW j, NEW k, NEW n,
         IfAt(D, e, env, c, j, k, n), NEW v \in BOOLEAN, NEW d \in Keeping(D, e, dm),
         Handles(Mean(D, e.e, env), FALSE, S, fr, c, n, s, v, Keeping(D, e, dm))
  PROVE  Run(fr, c, k + 1, s, v, d) \in Safe(S)
<1>1. /\ e.e \in Parts(e) /\ ~ IsArgs(e.e) /\ Sits(c, k + 1, D.code[e.e])
      /\ n = k + 1 + Len(D.code[e.e]) /\ s \in Seq(Value)
  BY StartIs DEF IfAt
<1>2. ASSUME NEW o \in Mean(D, e.e, env) PROVE Takes(o, S, fr, c, n, s, v, Keeping(D, e, dm))
  BY DEF Handles, Takes, Onto
<1> QED
  BY <1>1, <1>2, PlainPartRuns

LEMMA TernaryRuns ==
  ASSUME NEW D, NEW P, Denotes(D, P), NEW e, NEW env, NEW S, NEW fr, NEW c, NEW i, NEW s, NEW u,
         NEW dm, Starts(D, e, env, fr, c, i, s, u, dm), NEW j, NEW k, NEW n,
         IfAt(D, e, env, c, j, k, n), NEW x, x.value \in Value,
         NEW v \in BOOLEAN, NEW d \in Keeping(D, e, dm),
         Handles(Chosen(D, e, env, x), FALSE, S, fr, c, n, s, v, Keeping(D, e, dm))
  PROVE  Run(fr, c, j, push(s, x.value), v, d) \in Safe(S)
<1>1. PICK m \in Nat : m = Len(D.code[e.t])
  BY StartIs DEF IfAt
<1>2. PICK w \in Value : w = x.value
  OBVIOUS
<1>3. InRun(fr, c, i, s, u, dm) /\ s \in Seq(Value) /\ d \in Cells
  BY StartIs
<1>4. /\ j \in Nat \ {0} /\ j <= Len(c) /\ c[j].op = "jtern" /\ c[j].arg = m + 2 /\ m + 2 \in Nat
      /\ k = j + 1 + m
  BY <1>1 DEF IfAt, IsAt
<1>5. ASSUME ~ IsInt(w) PROVE EndsWell("boolean", v, S)
  <2>1. Chosen(D, e, env, x) = Fails("boolean")
    BY <1>2, <1>5 DEF Chosen, Tested
  <2> QED
    BY <2>1, FailsEnds
<1>6. ASSUME IsInt(w)
      PROVE  Run(fr, c, j + Offset("jtern", w, m + 2), Rest("jtern", w, s), v, d) \in Safe(S)
  <2>1. Rest("jtern", w, s) = s
    BY DEF Rest, Keeps
  <2>2. CASE w.re # 0
    <3>1. Chosen(D, e, env, x) = Mean(D, e.t, env)
      BY <1>2, <1>6, <2>2 DEF Chosen, Tested
    <3>2. Run(fr, c, j + 1, s, v, d) \in Safe(S)
      BY <3>1, SecondRuns
    <3>3. Offset("jtern", w, m + 2) = 1
      BY <2>2 DEF Offset, Jumps
    <3> QED
      BY <2>1, <3>2, <3>3
  <2>3. CASE w.re = 0
    <3>1. Chosen(D, e, env, x) = Mean(D, e.e, env)
      BY <1>2, <1>6, <2>3 DEF Chosen, Tested
    <3>2. Run(fr, c, k + 1, s, v, d) \in Safe(S)
      BY <3>1, ThirdRuns
    <3>3. Offset("jtern", w, m + 2) = m + 2
      BY <2>3 DEF Offset, Jumps
    <3>4. j + (m + 2) = k + 1
      <4>1. j \in Nat
        BY <1>4
      <4>2. j + (m + 2) = j + 1 + m + 1
        BY <4>1
      <4> QED
        BY <1>4, <4>2, Zenon
    <3> QED
      BY <2>1, <3>2, <3>3, <3>4
  <2> QED
    BY <2>2, <2>3
<1>7. Run(fr, c, j, push(s, w), v, d) \in Safe(S)
  BY <1>3, <1>4, <1>5, <1>6, TestStage
<1> QED
  BY <1>2, <1>7

LEMMA IfPlaces ==
  ASSUME NEW D, NEW P, Denotes(D, P), NEW e, NEW env, NEW fr, NEW c, NEW i, NEW s, NEW u, NEW dm,
         Starts(D, e, env, fr, c, i, s, u, dm), e.c \in Parts(e), e.t \in Parts(e),
         e.e \in Parts(e), D.code[e] = IfCode(D, e),
         NEW j, j = i + Len(D.code[e.c]), NEW k, k = j + 1 + Len(D.code[e.t])
  PROVE  /\ Sits(c, i, D.code[e.c]) /\ IsAt(c, j, "jtern", Len(D.code[e.t]) + 2)
         /\ Sits(c, j + 1, D.code[e.t]) /\ IsAt(c, k, "jump", Len(D.code[e.e]) + 1)
         /\ Sits(c, k + 1, D.code[e.e])
         /\ i + Len(D.code[e]) = k + 1 + Len(D.code[e.e])
<1>1. PICK v, w, y, z : v = D.code[e.c] /\ w = D.code[e.t] /\ y = D.code[e.e] /\ z = D.code[e]
  OBVIOUS
<1>2. /\ IsSeq(v) /\ IsSeq(w) /\ IsSeq(y) /\ Sits(c, i, z) /\ Len(c) \in Nat /\ i \in Nat \ {0}
      /\ Len(v) \in Nat /\ Len(w) \in Nat /\ Len(y) \in Nat
  BY <1>1, StartIs
<1>3. z = v \o Ins("jtern", Len(w) + 2) \o w \o Ins("jump", Len(y) + 1) \o y
  BY <1>1 DEF IfCode
<1>4. Sits(c, i, v \o Ins("jtern", Len(w) + 2) \o w \o Ins("jump", Len(y) + 1) \o y)
  BY <1>2, <1>3
<1>5. /\ Sits(c, i, v) /\ IsAt(c, i + Len(v), "jtern", Len(w) + 2)
      /\ Sits(c, i + Len(v) + 1, w)
      /\ IsAt(c, i + Len(v) + 1 + Len(w), "jump", Len(y) + 1)
      /\ Sits(c, i + Len(v) + 1 + Len(w) + 1, y)
  BY <1>2, <1>4, FourPlaces
<1>9. Len(z) = Len(v) + Len(w) + 2 + Len(y)
  <2>1. Len(v \o Ins("jtern", Len(w) + 2) \o w \o Ins("jump", Len(y) + 1) \o y)
          = Len(v) + Len(w) + 2 + Len(y)
    BY <1>2, <1>4, FourPlaces
  <2> QED
    BY <1>3, <2>1
<1>6. j = i + Len(v) /\ k = j + 1 + Len(w)
  BY <1>1
<1>7. i + Len(z) = k + 1 + Len(y)
  <2>1. i \in Nat /\ Len(v) \in Nat /\ Len(w) \in Nat /\ Len(y) \in Nat
    BY <1>2
  <2>2. i + (Len(v) + Len(w) + 2 + Len(y)) = i + Len(v) + 1 + Len(w) + 1 + Len(y)
    BY <2>1
  <2> QED
    BY <1>6, <1>9, <2>2, Zenon
<1>8. i + Len(v) = j /\ i + Len(v) + 1 + Len(w) = k
  BY <1>6
<1> QED
  BY <1>1, <1>5, <1>7, <1>8

LEMMA IfRuns ==
  ASSUME TypedTables, NEW D, NEW P, Denotes(D, P), NEW e, NEW env, NEW S, NEW fr, NEW c, NEW i,
         NEW s, NEW u, NEW dm, Starts(D, e, env, fr, c, i, s, u, dm),
         Ends(D, e, env, S, fr, c, i, s, u, dm), e.k = "if"
  PROVE  Run(fr, c, i, s, u, dm) \in Safe(S)
<1>1. PICK K, M : K = Keeping(D, e, dm) /\ M = Mean(D, e, env)
  OBVIOUS
<1>2. /\ <<e, env>> \in D.points /\ EnvTyped(D, e, env)
      /\ InRun(fr, c, i, s, u, dm) /\ s \in Seq(Value) /\ u \in BOOLEAN
  BY StartIs
<1>3. e.c \in Parts(e) /\ e.t \in Parts(e) /\ e.e \in Parts(e)
  BY DEF Parts
<1>4. PICK j : j = i + Len(D.code[e.c])
  OBVIOUS
<1>5. PICK k : k = j + 1 + Len(D.code[e.t])
  OBVIOUS
<1>13. PICK n : n = k + 1 + Len(D.code[e.e])
  OBVIOUS
<1>6. /\ Sits(c, i, D.code[e.c]) /\ IsAt(c, j, "jtern", Len(D.code[e.t]) + 2)
      /\ Sits(c, j + 1, D.code[e.t]) /\ IsAt(c, k, "jump", Len(D.code[e.e]) + 1)
      /\ Sits(c, k + 1, D.code[e.e])
      /\ i + Len(D.code[e]) = k + 1 + Len(D.code[e.e])
  <2>1. D.code[e] = IfCode(D, e)
    BY <1>2, CodeIs
  <2>2. /\ e.c \in Parts(e) /\ e.t \in Parts(e) /\ e.e \in Parts(e) /\ D.code[e] = IfCode(D, e)
        /\ j = i + Len(D.code[e.c]) /\ k = j + 1 + Len(D.code[e.t])
    BY <1>3, <1>4, <1>5, <2>1
  <2> QED
    BY <2>2, IfPlaces, SMTT(60)
<1>7. \A x \in Mean(D, e.c, env) : After(x, Chosen(D, e, env, x)) \subseteq M
  <2>1. M = OfIf(D, e, env)
    BY <1>1, <1>2, MeanIs
  <2> QED
    BY <2>1, Zenon DEF OfIf
<1>8. /\ ~ IsArgs(e.c) /\ \A o \in Mean(D, e.c, env) : IsResult(o, Value)
      /\ ~ IsArgs(e.t) /\ \A o \in Mean(D, e.t, env) : IsResult(o, Value)
      /\ ~ IsArgs(e.e) /\ \A o \in Mean(D, e.e, env) : IsResult(o, Value)
  BY <1>2, <1>3, PlainParts
<1>9. Handles(M, FALSE, S, fr, c, n, s, u, K)
  BY <1>1, <1>6, <1>13, PlainEnds
<1>14. IfAt(D, e, env, c, j, k, n)
  BY <1>3, <1>5, <1>6, <1>8, <1>13 DEF IfAt
<1>10. ASSUME NEW x \in Mean(D, e.c, env) PROVE Takes(x, S, fr, c, j, s, u, K)
  <2>1. IsResult(x, Value)
    BY <1>8
  <2>2. PICK T : T = Chosen(D, e, env, x)
    OBVIOUS
  <2>3. x.error = "" => AreResults(T, Value)
    <3>1. AreResults(Mean(D, e.t, env), Value) /\ AreResults(Mean(D, e.e, env), Value)
      BY <1>8 DEF AreResults
    <3> QED
      BY <2>2, <3>1, TestedResults DEF Chosen
  <2>4. After(x, T) \subseteq M
    BY <1>7, <2>2
  <2>5. Proceeds(x, T, S, fr, c, j, s, n, s, K)
    <3>1. ASSUME NEW v \in BOOLEAN, x.value \in Value,
                 Handles(T, FALSE, S, fr, c, n, s, v, K), NEW d \in K
          PROVE  Run(fr, c, j, push(s, x.value), v, d) \in Safe(S)
      <4>1. /\ d \in Keeping(D, e, dm)
            /\ Handles(Chosen(D, e, env, x), FALSE, S, fr, c, n, s, v, Keeping(D, e, dm))
        BY <1>1, <2>2, <3>1
      <4> QED
        BY <1>14, <3>1, <4>1, TernaryRuns
    <3> QED
      BY <3>1 DEF Proceeds
  <2> QED
    BY <1>2, <1>9, <2>1, <2>3, <2>4, <2>5, AfterTakes, Zenon
<1>11. \A x \in Mean(D, e.c, env) : Takes(x, S, fr, c, j, s, u, Keeping(D, e, dm))
  BY <1>1, <1>10
<1>12. /\ e.c \in Parts(e) /\ ~ IsArgs(e.c) /\ Sits(c, i, D.code[e.c]) /\ s \in Seq(Value)
       /\ u \in BOOLEAN /\ dm \in Keeping(D, e, dm)
  BY <1>2, <1>3, <1>6, <1>8, StartIs
<1> QED
  BY <1>4, <1>11, <1>12, PlainPartRuns

(***************************************************************************)
(* The arguments of a call                                                 *)
(***************************************************************************)

LEMMA ListedOnto ==
  ASSUME NEW s \in Seq(Value), NEW x \in Value, NEW y \in Seq(Value)
  PROVE  push(s, x) \o y = s \o (<<x>> \o y) /\ push(s, x) \in Seq(Value)
<1>1. push(s, x) = s \o <<x>> /\ <<x>> \in Seq(Value)
  BY AppendProperties, ConcatProperties DEF push
<1> QED
  BY <1>1, ConcatAssociative

LEMMA EmptyOnto == ASSUME NEW s \in Seq(Value) PROVE s \o <<>> = s
  BY ConcatEmptySeq

LEMMA GivesHandles ==
  ASSUME NEW z, NEW args, NEW S, NEW fr, NEW c, NEW n, NEW s, NEW v \in BOOLEAN, NEW K,
         Handles(Gives(z), args, S, fr, c, n, s, v, K), NEW d \in K
  PROVE  Run(fr, c, n, Onto(args, s, z), v, d) \in Safe(S)
<1>1. PICK o : o = [value |-> z, undefined |-> FALSE, error |-> ""]
  OBVIOUS
<1>2. o \in Gives(z) /\ o.value = z /\ o.undefined = FALSE /\ o.error = ""
  BY <1>1 DEF Gives
<1>3. Run(fr, c, n, Onto(args, s, o.value), v \/ o.undefined, d) \in Safe(S)
  BY <1>2 DEF Handles
<1>4. (v \/ o.undefined) = v
  BY <1>2
<1> QED
  BY <1>2, <1>3, <1>4

LEMMA NilRuns ==
  ASSUME NEW D, NEW P, Denotes(D, P), NEW e, NEW env, NEW S, NEW fr, NEW c, NEW i, NEW s,
         NEW u, NEW dm, Starts(D, e, env, fr, c, i, s, u, dm),
         Ends(D, e, env, S, fr, c, i, s, u, dm), e.k = "nil"
  PROVE  Run(fr, c, i, s, u, dm) \in Safe(S)
<1>1. /\ <<e, env>> \in D.points /\ s \in Seq(Value) /\ u \in BOOLEAN /\ dm \in Keeping(D, e, dm)
      /\ i \in Nat \ {0}
  BY StartIs
<1>2. D.code[e] = <<>> /\ Mean(D, e, env) = Gives(NoList)
  BY <1>1, CodeIs, MeanIs
<1>3. IsArgs(e) = TRUE
  BY DEF IsArgs
<1>4. i + Len(D.code[e]) = i
  BY <1>1, <1>2
<1>5. Handles(Gives(NoList), TRUE, S, fr, c, i, s, u, Keeping(D, e, dm))
  BY <1>2, <1>3, <1>4 DEF Ends
<1>6. Run(fr, c, i, Onto(TRUE, s, NoList), u, dm) \in Safe(S)
  BY <1>1, <1>5, GivesHandles
<1>7. Onto(TRUE, s, NoList) = s
  BY <1>1, EmptyOnto DEF Onto, NoList
<1> QED
  BY <1>6, <1>7

(* The list of arguments e is at i: its first at i, the others at j, and   *)
(* the program ends before n.                                              *)
ConsAt(D, e, env, c, i, j, n) ==
  /\ e.l \in Parts(e) /\ ~ IsArgs(e.l) /\ \A o \in Mean(D, e.l, env) : IsResult(o, Value)
  /\ e.r \in Parts(e) /\ IsArgs(e.r) = TRUE /\ \A o \in Mean(D, e.r, env) : IsResult(o, Lists)
  /\ Sits(c, i, D.code[e.l]) /\ j = i + Len(D.code[e.l])
  /\ Sits(c, j, D.code[e.r]) /\ n = j + Len(D.code[e.r]) /\ n = i + Len(D.code[e])

LEMMA ConsPlaces ==
  ASSUME TypedTables, NEW D, NEW P, Denotes(D, P), NEW e, NEW env, NEW fr, NEW c, NEW i, NEW s,
         NEW u, NEW dm, Starts(D, e, env, fr, c, i, s, u, dm), e.k = "cons"
  PROVE  \E j, n : ConsAt(D, e, env, c, i, j, n)
<1>1. /\ <<e, env>> \in D.points /\ EnvTyped(D, e, env) /\ Len(c) \in Nat /\ i \in Nat \ {0}
      /\ Sits(c, i, D.code[e])
  BY StartIs
<1>2. e.l \in Parts(e) /\ e.r \in Parts(e)
  BY DEF Parts
<1>3. ~ IsArgs(e.l) /\ IsArgs(e.r) = TRUE
  BY <1>1, PointIs DEF WellFormed, IsArgs
<1>4. (\A o \in Mean(D, e.l, env) : IsResult(o, Value))
      /\ \A o \in Mean(D, e.r, env) : IsResult(o, Lists)
  BY <1>1, <1>2, <1>3, PartIs DEF Kind, AreResults
<1>5. PICK v, w : v = D.code[e.l] /\ w = D.code[e.r]
  OBVIOUS
<1>6. IsSeq(v) /\ IsSeq(w) /\ Len(v) \in Nat /\ Len(w) \in Nat
  BY <1>2, <1>5, StartIs
<1>7. D.code[e] = v \o w
  BY <1>1, <1>5, CodeIs DEF ConsCode
<1>8. Sits(c, i, v) /\ Sits(c, i + Len(v), w) /\ Len(D.code[e]) = Len(v) + Len(w)
  BY <1>1, <1>6, <1>7, SitsConcat, ConcatIsSeq
<1>9. i + Len(v) + Len(w) = i + Len(D.code[e])
  BY <1>1, <1>6, <1>8
<1>10. ConsAt(D, e, env, c, i, i + Len(v), i + Len(v) + Len(w))
  BY <1>2, <1>3, <1>4, <1>5, <1>8, <1>9 DEF ConsAt
<1> QED
  BY <1>10

(* The arguments behind the first, whose outcome is l.                     *)
LEMMA OthersRun ==
  ASSUME NEW D, NEW P, Denotes(D, P), NEW e, NEW env, NEW S, NEW fr, NEW c, NEW i, NEW s, NEW u,
         NEW dm, Starts(D, e, env, fr, c, i, s, u, dm), NEW j, NEW n,
         ConsAt(D, e, env, c, i, j, n), NEW l, l.value \in Value, NEW v \in BOOLEAN,
         NEW d \in Keeping(D, e, dm),
         Handles(Listings(D, e, env, l), TRUE, S, fr, c, n, s, v, Keeping(D, e, dm))
  PROVE  Run(fr, c, j, push(s, l.value), v, d) \in Safe(S)
<1>1. PICK K, t : K = Keeping(D, e, dm) /\ t = push(s, l.value)
  OBVIOUS
<1>2. s \in Seq(Value) /\ t \in Seq(Value)
  BY <1>1, StartIs, ListedOnto
<1>3. /\ e.r \in Parts(e) /\ IsArgs(e.r) = TRUE /\ Sits(c, j, D.code[e.r])
      /\ n = j + Len(D.code[e.r]) /\ \A w \in Mean(D, e.r, env) : IsResult(w, Lists)
  BY DEF ConsAt
<1>4. ASSUME NEW w \in Mean(D, e.r, env)
      PROVE  /\ w.error # "" => EndsWell(w.error, v \/ w.undefined, S)
             /\ w.error = "" => \A d2 \in K :
                  Run(fr, c, n, Onto(TRUE, t, w.value), v \/ w.undefined, d2) \in Safe(S)
  <2>1. IsResult(w, Lists)
    BY <1>3
  <2>2. PICK z, T : z = Listed(l, w) /\ T = Gives(z)
    OBVIOUS
  <2>3. After(w, T) \subseteq Listings(D, e, env, l)
    BY <2>2, Zenon DEF Listings
  <2>4. Handles(After(w, T), TRUE, S, fr, c, n, s, v, K)
    BY <1>1, <2>3, HandlesFewer
  <2>5. AreResults(T, {z})
    BY <2>2, GivesResult
  <2>6. /\ w.error # "" => EndsWell(w.error, v \/ w.undefined, S)
        /\ w.error = "" => Handles(T, TRUE, S, fr, c, n, s, v \/ w.undefined, K)
    BY <2>1, <2>4, <2>5, HandlesAfter
  <2>7. PICK b \in BOOLEAN : b = (v \/ w.undefined)
    BY <2>1 DEF IsResult
  <2>8. ASSUME w.error = "", NEW d2 \in K
        PROVE  Run(fr, c, n, Onto(TRUE, t, w.value), b, d2) \in Safe(S)
    <3>1. Handles(Gives(z), TRUE, S, fr, c, n, s, b, K)
      BY <2>2, <2>6, <2>7, <2>8
    <3>2. Run(fr, c, n, Onto(TRUE, s, z), b, d2) \in Safe(S)
      BY <2>8, <3>1, GivesHandles
    <3>3. Onto(TRUE, s, z) = Onto(TRUE, t, w.value)
      <4>1. PICK x, y : x = l.value /\ y = w.value.list
        OBVIOUS
      <4>2. y \in Seq(Value)
        BY <2>1, <2>8, <4>1, ListField DEF IsResult
      <4>3. push(s, x) \o y = s \o (<<x>> \o y)
        BY <1>2, <4>1, <4>2, ListedOnto
      <4>4. z.list = <<x>> \o y
        BY <2>2, <4>1 DEF Listed
      <4> QED
        BY <1>1, <4>1, <4>3, <4>4 DEF Onto
    <3> QED
      BY <3>2, <3>3
  <2> QED
    BY <2>6, <2>7, <2>8
<1>5. Handles(Mean(D, e.r, env), IsArgs(e.r), S, fr, c, j + Len(D.code[e.r]), t, v,
              Keeping(D, e, dm))
  BY <1>1, <1>3, <1>4 DEF Handles
<1>6. Run(fr, c, j, t, v, d) \in Safe(S)
  BY <1>2, <1>3, <1>5, PartRuns
<1> QED
  BY <1>1, <1>6

LEMMA ConsRuns ==
  ASSUME TypedTables, NEW D, NEW P, Denotes(D, P), NEW e, NEW env, NEW S, NEW fr, NEW c, NEW i,
         NEW s, NEW u, NEW dm, Starts(D, e, env, fr, c, i, s, u, dm),
         Ends(D, e, env, S, fr, c, i, s, u, dm), e.k = "cons"
  PROVE  Run(fr, c, i, s, u, dm) \in Safe(S)
<1>1. PICK K, M : K = Keeping(D, e, dm) /\ M = Mean(D, e, env)
  OBVIOUS
<1>2. <<e, env>> \in D.points /\ s \in Seq(Value) /\ u \in BOOLEAN /\ dm \in Keeping(D, e, dm)
  BY StartIs
<1>3. PICK j, n : ConsAt(D, e, env, c, i, j, n)
  BY ConsPlaces
<1>4. /\ e.l \in Parts(e) /\ ~ IsArgs(e.l) /\ \A o \in Mean(D, e.l, env) : IsResult(o, Value)
      /\ Sits(c, i, D.code[e.l]) /\ j = i + Len(D.code[e.l])
      /\ n = i + Len(D.code[e]) /\ \A o \in Mean(D, e.r, env) : IsResult(o, Lists)
  BY <1>3 DEF ConsAt
<1>5. Handles(M, TRUE, S, fr, c, n, s, u, K)
  <2>1. IsArgs(e) = TRUE
    BY DEF IsArgs
  <2> QED
    BY <1>1, <1>4, <2>1 DEF Ends
<1>6. \A l \in Mean(D, e.l, env) : After(l, Listings(D, e, env, l)) \subseteq M
  <2>1. M = OfCons(D, e, env)
    BY <1>1, <1>2, MeanIs
  <2> QED
    BY <2>1, Zenon DEF OfCons
<1>7. ASSUME NEW l \in Mean(D, e.l, env) PROVE Takes(l, S, fr, c, j, s, u, K)
  <2>1. IsResult(l, Value)
    BY <1>4
  <2>2. PICK T : T = Listings(D, e, env, l)
    OBVIOUS
  <2>3. l.error = "" => AreResults(T, Lists)
    BY <1>4, <2>1, <2>2, ListingsTyped DEF AreResults
  <2>4. Handles(After(l, T), TRUE, S, fr, c, n, s, u, K)
    BY <1>5, <1>6, <2>2, HandlesFewer
  <2>5. /\ l.error # "" => EndsWell(l.error, u \/ l.undefined, S)
        /\ l.error = "" => Handles(T, TRUE, S, fr, c, n, s, u \/ l.undefined, K)
    BY <1>2, <2>1, <2>3, <2>4, HandlesAfter
  <2>6. PICK b \in BOOLEAN : b = (u \/ l.undefined)
    BY <2>1 DEF IsResult
  <2>7. ASSUME l.error = "", NEW d \in K PROVE Run(fr, c, j, push(s, l.value), b, d) \in Safe(S)
    <3>1. l.value \in Value /\ d \in Keeping(D, e, dm)
      BY <1>1, <2>1, <2>7 DEF IsResult
    <3>2. Handles(Listings(D, e, env, l), TRUE, S, fr, c, n, s, b, Keeping(D, e, dm))
      BY <1>1, <2>2, <2>5, <2>6, <2>7
    <3> QED
      BY <1>3, <3>1, <3>2, OthersRun
  <2> QED
    BY <2>5, <2>6, <2>7 DEF Takes
<1>8. \A l \in Mean(D, e.l, env) : Takes(l, S, fr, c, j, s, u, Keeping(D, e, dm))
  BY <1>1, <1>7
<1> QED
  BY <1>2, <1>4, <1>8, PlainPartRuns

(***************************************************************************)
(* The call of a function                                                  *)
(***************************************************************************)

(* A call finds its arguments on the stack in their order, and pops them.  *)
LEMMA ArgumentsOnTop ==
  ASSUME NEW s \in Seq(Value), NEW y \in Seq(Value)
  PROVE  /\ s \o y \in Seq(Value) /\ PopN(s \o y, Len(y)) = s
         /\ \A i \in 0 .. Len(y) - 1 : TopAt(s \o y, Len(y) - 1 - i) = y[i + 1]
<1>1. PICK m \in Nat, n \in Nat : m = Len(s) /\ n = Len(y)
  BY LenProperties
<1>2. PICK t : t = s \o y
  OBVIOUS
<1>3. /\ t \in Seq(Value) /\ Len(t) = m + n
      /\ \A i \in 1 .. m + n : t[i] = IF i <= m THEN s[i] ELSE y[i - m]
  BY <1>1, <1>2, ConcatProperties
<1>4. PopN(t, n) = s
  <2>1. Len(t) - n = m
    BY <1>1, <1>3
  <2>2. PICK r : r = SubSeq(t, 1, m)
    OBVIOUS
  <2>3. r \in Seq(Value) /\ Len(r) = m /\ \A i \in 1 .. m : r[i] = t[i]
    <3>1. \A i \in 1 .. m : t[i] \in Value
      BY <1>3, ElementOfSeq
    <3>2. r = [i \in 1 .. m |-> t[i]]
      BY <1>1, <1>3, <2>2, SubSeqProperties
    <3> QED
      BY <1>1, <3>1, <3>2, SeqDef
  <2>4. \A i \in 1 .. m : t[i] = s[i]
    BY <1>1, <1>3
  <2>5. r = s
    BY <1>1, <2>3, <2>4, SeqEqual
  <2> QED
    BY <2>1, <2>2, <2>5 DEF PopN
<1>5. ASSUME NEW i \in 0 .. n - 1 PROVE TopAt(t, n - 1 - i) = y[i + 1]
  <2>1. Len(t) - (n - 1 - i) = m + i + 1 /\ m + i + 1 \in 1 .. m + n /\ ~ (m + i + 1 <= m)
    BY <1>1, <1>3, <1>5
  <2>2. t[m + i + 1] = y[(m + i + 1) - m]
    BY <1>3, <2>1
  <2>3. (m + i + 1) - m = i + 1
    BY <1>1, <1>5
  <2> QED
    BY <2>1, <2>2, <2>3 DEF TopAt
<1> QED
  BY <1>1, <1>2, <1>3, <1>4, <1>5

LEMMA OneAtLeast == ASSUME NEW a \in 0 .. 4 PROVE (IF a = 0 THEN 1 ELSE a) \in 1 .. 4
  OBVIOUS

LEMMA PopsRange ==
  ASSUME TypedTables, NEW f \in DOMAIN Functions, Functions[f].defined PROVE PopsOf(f) \in 1 .. 4
<1>1. Functions[f].args \in 0 .. 4
  BY DEF TypedTables
<1> QED
  BY <1>1, OneAtLeast DEF PopsOf

(* The body b of the function f, called by e with the list y.              *)
Enterable(D, e, f, b, y) ==
  /\ f = e.f /\ b = Bodies[f] /\ f \in DOMAIN Functions /\ Functions[f].defined
  /\ y \in Seq(Value) /\ Len(y) = PopsOf(f) /\ PopsOf(f) \in 1 .. 4
  /\ <<b, y>> \in D.points /\ EnvTyped(D, b, y) /\ ~ IsArgs(b)
  /\ D.level[f] \in Nat /\ D.rank[b] \in Nat /\ D.rank[e] \in Nat
  /\ D.level[f] < D.rank[e] /\ D.rank[b] <= D.level[f]
  /\ Functions[f].code = D.code[b]
  /\ D.reads[b] \subseteq [f : {f}, i : 0 .. PopsOf(f) - 1]

LEMMA CallEnterable ==
  ASSUME TypedTables, NEW D, NEW P, Denotes(D, P), NEW e, NEW env, <<e, env>> \in D.points,
         e.k = "call", Functions[e.f].defined, NEW w \in Mean(D, e.e, env), IsResult(w, Lists),
         w.error = ""
  PROVE  Enterable(D, e, e.f, Bodies[e.f], w.value.list)
<1>1. PICK f, b, y : f = e.f /\ b = Bodies[e.f] /\ y = w.value.list
  OBVIOUS
<1>2. /\ D.level[f] < D.rank[e] /\ D.rank[b] <= D.level[f]
      /\ Functions[f].code = D.code[b] /\ ~ IsArgs(b)
      /\ D.reads[b] \subseteq [f : {f}, i : 0 .. PopsOf(f) - 1]
      /\ Passes(D, e, w)
  BY <1>1, CallIs
<1>3. Len(y) = PopsOf(f) /\ <<b, y>> \in D.points
  BY <1>1, <1>2 DEF Passes
<1>4. f \in DOMAIN Functions /\ D.rank[e] \in Nat
  BY <1>1, PointIs DEF WellFormed
<1>5. D.level[f] \in Nat /\ D.rank[b] \in Nat
  BY <1>3, <1>4, LevelIs, PointIs
<1>6. PopsOf(f) \in 1 .. 4
  <2>1. f \in DOMAIN Functions /\ Functions[f].defined
    BY <1>1, <1>4
  <2> QED
    BY <2>1, PopsRange
<1>7. EnvTyped(D, b, y)
  BY <1>1, ArgsTyped
<1>8. y \in Seq(Value)
  BY <1>1, ListField DEF IsResult
<1>9. Functions[f].defined
  BY <1>1
<1>10. Enterable(D, e, f, b, y)
  BY <1>1, <1>2, <1>3, <1>4, <1>5, <1>6, <1>7, <1>8, <1>9 DEF Enterable
<1> QED
  BY <1>1, <1>10

(* The cells the call fills hold what the body reads.                      *)
LEMMA BodyAgrees ==
  ASSUME NEW D, NEW e, NEW f, NEW b, NEW y, Enterable(D, e, f, b, y), NEW s \in Seq(Value),
         NEW d \in Cells, NEW d2, d2 = [d EXCEPT ![f] = FilledIn(s \o y, d, f)]
  PROVE  d2 \in Cells /\ Agrees(D, b, y, d2)
<1>1. /\ f \in DOMAIN Functions /\ y \in Seq(Value) /\ D.reads[b] \subseteq [f : {f}, i : 0 .. PopsOf(f) - 1]
  BY DEF Enterable
<1>2. PICK n \in 1 .. 4 : n = PopsOf(f) /\ n = Len(y)
  BY DEF Enterable
<1>3. PICK t : t = s \o y
  OBVIOUS
<1>4. \A i \in 0 .. n - 1 : TopAt(t, n - 1 - i) = y[i + 1]
  BY <1>1, <1>2, <1>3, ArgumentsOnTop
<1>5. \A i \in 0 .. n - 1 : y[i + 1] \in Value
  BY <1>1, <1>2, InList
<1>6. PICK q : q = FilledIn(t, d, f)
  OBVIOUS
<1>7. q = [i \in 0 .. 3 |-> IF i < n THEN TopAt(t, n - 1 - i) ELSE d[f][i]]
  BY <1>2, <1>6 DEF FilledIn
<1>8. ASSUME NEW i \in 0 .. n - 1 PROVE q[i] = y[i + 1]
  <2>1. i \in 0 .. 3 /\ i < n
    BY <1>2, <1>8
  <2>2. q[i] = TopAt(t, n - 1 - i)
    BY <1>7, <2>1
  <2> QED
    BY <1>4, <2>2
<1>9. q \in [0 .. 3 -> Value]
  <2>1. ASSUME NEW i \in 0 .. 3 PROVE (IF i < n THEN TopAt(t, n - 1 - i) ELSE d[f][i]) \in Value
    <3>1. CASE i < n
      <4>1. i \in 0 .. n - 1
        BY <1>2, <2>1, <3>1
      <4> QED
        BY <1>4, <1>5, <3>1, <4>1
    <3>2. CASE ~ (i < n)
      <4>1. d[f] \in [0 .. 3 -> Value]
        BY <1>1 DEF Cells
      <4> QED
        BY <2>1, <3>2, <4>1
    <3> QED
      BY <3>1, <3>2
  <2> QED
    BY <1>7, <2>1
<1>10. d2 = [d EXCEPT ![f] = q]
  BY <1>3, <1>6
<1>11. d2 \in Cells /\ d2[f] = q
  BY <1>1, <1>9, <1>10 DEF Cells
<1>12. ASSUME NEW a \in D.reads[b] PROVE d2[a.f][a.i] = y[a.i + 1]
  <2>1. a.f = f /\ a.i \in 0 .. n - 1
    BY <1>1, <1>2, <1>12, ArgumentRange
  <2> QED
    BY <1>8, <1>11, <2>1
<1> QED
  BY <1>11, <1>12 DEF Agrees

(* A body fills no cells that its caller may not.                          *)
LEMMA BodyKeeps ==
  ASSUME NEW D, NEW P, Denotes(D, P), NEW e, NEW f, NEW b, NEW y, Enterable(D, e, f, b, y),
         NEW dm, NEW d \in Keeping(D, e, dm), NEW q, NEW d2, d2 = [d EXCEPT ![f] = q],
         NEW d3 \in Keeping(D, b, d2)
  PROVE  d3 \in Keeping(D, e, dm)
<1>1. /\ D.level[f] \in Nat /\ D.rank[b] \in Nat /\ D.rank[e] \in Nat
      /\ D.level[f] < D.rank[e] /\ D.rank[b] <= D.level[f]
  BY DEF Enterable
<1>2. d \in Cells /\ d3 \in Cells
  BY DEF Keeping
<1>3. ASSUME NEW g \in DOMAIN Functions, D.level[g] >= D.rank[e] PROVE d3[g] = dm[g]
  <2>1. D.level[g] \in Nat
    BY LevelIs
  <2>2. D.level[g] >= D.rank[b] /\ g # f
    BY <1>1, <1>3, <2>1
  <2>3. d3[g] = d2[g]
    BY <2>2 DEF Keeping
  <2>4. d2[g] = d[g]
    BY <1>2, <2>2 DEF Cells
  <2>5. d[g] = dm[g]
    BY <1>3 DEF Keeping
  <2> QED
    BY <2>3, <2>4, <2>5
<1> QED
  BY <1>2, <1>3 DEF Keeping

(* The cells a call of f fills from the stack s.                           *)
FilledCells(s, d, f) == [d EXCEPT ![f] = FilledIn(s, d, f)]

(* The call e enters the body b, for what handles its outcomes at n.       *)
EntersBody(D, e, S, fr, c, n, s, v, dm, f, b, y, d) ==
  /\ Enterable(D, e, f, b, y) /\ v \in BOOLEAN /\ d \in Keeping(D, e, dm)
  /\ n \in Nat \ {0} /\ n <= Len(c) + 1
  /\ Handles(Mean(D, b, y), FALSE, S, fr, c, n, s, v, Keeping(D, e, dm))

(* The body runs in a frame of its own, and returns to place j of its      *)
(* caller with its value.                                                  *)
LEMMA BodyRuns ==
  ASSUME TypedTables, NEW D, NEW P, Denotes(D, P), NEW e, NEW env, NEW S, NEW fr, NEW c, NEW i,
         NEW s, NEW u, NEW dm, Starts(D, e, env, fr, c, i, s, u, dm),
         NEW j, NEW f, NEW b, NEW y, NEW v, NEW d,
         EntersBody(D, e, S, fr, c, j, s, v, dm, f, b, y, d), NEW d2, d2 = FilledCells(s \o y, d, f)
  PROVE  Run(Append(fr, [code |-> c, pc |-> j]), Functions[f].code, 1, s, v, d2) \in Safe(S)
<1>12. /\ Enterable(D, e, f, b, y) /\ v \in BOOLEAN /\ d \in Keeping(D, e, dm)
       /\ j \in Nat \ {0} /\ j <= Len(c) + 1
       /\ Handles(Mean(D, b, y), FALSE, S, fr, c, j, s, v, Keeping(D, e, dm))
  BY DEF EntersBody
<1>1. /\ InRun(fr, c, i, s, u, dm) /\ s \in Seq(Value) /\ Below(D, e) /\ Len(c) \in Nat
      /\ d \in Cells /\ fr \in Seq(Frame) /\ c \in Codes
  BY <1>12, StartIs DEF Starts, InRun
<1>2. /\ <<b, y>> \in D.points /\ EnvTyped(D, b, y) /\ ~ IsArgs(b)
      /\ D.rank[b] < D.rank[e] /\ f \in DOMAIN Functions /\ Functions[f].defined
      /\ Functions[f].code = D.code[b]
  BY <1>12, Between DEF Enterable
<1>3. PICK w, to : w = D.code[b] /\ to = Append(fr, [code |-> c, pc |-> j])
  OBVIOUS
<1>4. RunsWell(D, b, y)
  BY <1>1, <1>2, Zenon DEF Below
<1>5. d2 \in Cells /\ Agrees(D, b, y, d2)
  BY <1>1, <1>12, BodyAgrees DEF FilledCells
<1>6. IsSeq(w) /\ Len(w) \in Nat /\ w \in Codes
  <2>1. IsSeq(w)
    BY <1>2, <1>3, CodesAreSeqs
  <2>2. Functions[f].code \in Codes
    BY <1>2 DEF Codes
  <2> QED
    BY <1>2, <1>3, <2>1, <2>2, LenProperties DEF IsSeq
<1>7. to \in Seq(Frame)
  <2>1. [code |-> c, pc |-> j] \in Frame
    BY <1>1, <1>12 DEF Frame
  <2> QED
    BY <1>1, <1>3, <2>1, AppendProperties
<1>8. /\ InRun(to, w, 1, s, v, d2) /\ Sits(w, 1, w)
  BY <1>1, <1>5, <1>6, <1>7, <1>12 DEF InRun, Sits
<1>9. ASSUME NEW o \in Mean(D, b, y)
      PROVE  /\ o.error # "" => EndsWell(o.error, v \/ o.undefined, S)
             /\ o.error = "" => \A d3 \in Keeping(D, b, d2) :
                  Run(to, w, 1 + Len(w), push(s, o.value), v \/ o.undefined, d3) \in Safe(S)
  <2>1. IsResult(o, Value)
    <3>1. AreResults(Mean(D, b, y), Value)
      BY <1>2, MeaningsTyped DEF TypedAt, Kind
    <3> QED
      BY <3>1 DEF AreResults
  <2>2. PICK n \in BOOLEAN : n = (v \/ o.undefined)
    BY <1>12, <2>1 DEF IsResult
  <2>3. /\ o.error # "" => EndsWell(o.error, n, S)
        /\ o.error = "" => \A d3 \in Keeping(D, e, dm) :
             Run(fr, c, j, push(s, o.value), n, d3) \in Safe(S)
    BY <1>12, <2>2 DEF Handles, Onto
  <2>4. ASSUME o.error = "", NEW d3 \in Keeping(D, b, d2)
        PROVE  Run(to, w, 1 + Len(w), push(s, o.value), n, d3) \in Safe(S)
    <3>1. PICK t : t = push(s, o.value)
      OBVIOUS
    <3>2. t \in Seq(Value)
      BY <1>1, <2>1, <2>4, <3>1, OneOnTop DEF IsResult
    <3>3. PICK q : q = FilledIn(s \o y, d, f)
      OBVIOUS
    <3>4. d2 = [d EXCEPT ![f] = q]
      BY <3>3 DEF FilledCells
    <3>5. d3 \in Keeping(D, e, dm)
      BY <1>12, <2>4, <3>4, BodyKeeps
    <3>6. Run(fr, c, j, t, n, d3) \in Safe(S)
      BY <2>3, <2>4, <3>1, <3>5
    <3>7. [frames |-> to, stack |-> t, undefined |-> n, dummy |-> d3] \in Safe(S)
      BY <1>3, <3>6 DEF Run
    <3>8. InRun(to, w, Len(w) + 1, t, n, d3)
      <4>1. d3 \in Cells
        BY <2>4 DEF Keeping
      <4>2. Len(w) + 1 \in 1 .. Len(w) + 1
        BY <1>6
      <4> QED
        BY <1>6, <1>7, <3>2, <4>1, <4>2 DEF InRun
    <3>9. Run(to, w, Len(w) + 1, t, n, d3) \in Safe(S)
      BY <3>7, <3>8, ReturnRule
    <3>10. Len(w) + 1 = 1 + Len(w)
      BY <1>6
    <3> QED
      BY <3>1, <3>9, <3>10
  <2> QED
    BY <2>2, <2>3, <2>4
<1>10. Handles(Mean(D, b, y), IsArgs(b), S, to, w, 1 + Len(w), s, v, Keeping(D, b, d2))
  BY <1>2, <1>9 DEF Handles, Onto
<1>11. Run(to, w, 1, s, v, d2) \in Safe(S)
  BY <1>3, <1>4, <1>5, <1>8, <1>10, Zenon DEF RunsWell
<1> QED
  BY <1>2, <1>3, <1>11

(* The call of e is at j, behind its arguments.                            *)
CallAt(D, e, env, c, i, j) ==
  /\ e.e \in Parts(e) /\ IsArgs(e.e) = TRUE /\ \A o \in Mean(D, e.e, env) : IsResult(o, Lists)
  /\ Sits(c, i, D.code[e.e]) /\ j = i + Len(D.code[e.e]) /\ IsAt(c, j, "call", e.f)
  /\ j + 1 = i + Len(D.code[e])

LEMMA CallPlaces ==
  ASSUME TypedTables, NEW D, NEW P, Denotes(D, P), NEW e, NEW env, NEW fr, NEW c, NEW i, NEW s,
         NEW u, NEW dm, Starts(D, e, env, fr, c, i, s, u, dm), e.k = "call"
  PROVE  \E j : CallAt(D, e, env, c, i, j)
<1>1. /\ <<e, env>> \in D.points /\ EnvTyped(D, e, env) /\ Len(c) \in Nat /\ i \in Nat \ {0}
      /\ Sits(c, i, D.code[e])
  BY StartIs
<1>2. e.e \in Parts(e)
  BY DEF Parts
<1>3. IsArgs(e.e) = TRUE
  BY <1>1, PointIs DEF WellFormed, IsArgs
<1>4. \A o \in Mean(D, e.e, env) : IsResult(o, Lists)
  BY <1>1, <1>2, <1>3, PartIs DEF Kind, AreResults
<1>5. PICK v, f : v = D.code[e.e] /\ f = e.f
  OBVIOUS
<1>6. IsSeq(v) /\ Len(v) \in Nat
  BY <1>2, <1>5, StartIs
<1>7. D.code[e] = v \o Ins("call", f)
  BY <1>1, <1>5, CodeIs DEF CallCode
<1>8. Sits(c, i, v) /\ IsAt(c, i + Len(v), "call", f) /\ Len(D.code[e]) = Len(v) + 1
  <2>1. Sits(c, i, v \o Ins("call", f))
    BY <1>1, <1>7
  <2>3. Len(c) \in Nat /\ IsSeq(v) /\ Sits(c, i, v \o Ins("call", f))
    BY <1>1, <1>6, <2>1
  <2>2. /\ Sits(c, i, v) /\ IsAt(c, i + Len(v), "call", f)
        /\ Len(v \o Ins("call", f)) = Len(v) + 1
    BY <2>3, SitsBehind
  <2> QED
    BY <1>7, <2>2
<1>9. i + Len(v) + 1 = i + Len(D.code[e])
  BY <1>1, <1>6, <1>8
<1>10. CallAt(D, e, env, c, i, i + Len(v))
  BY <1>2, <1>3, <1>4, <1>5, <1>8, <1>9 DEF CallAt
<1> QED
  BY <1>10

LEMMA OneFurther ==
  ASSUME NEW j \in Nat \ {0}, NEW n \in Nat, j <= n
  PROVE  j <= n + 1 /\ j + 1 \in Nat \ {0} /\ j + 1 <= n + 1
  OBVIOUS

(* The call itself, behind the arguments w.                                *)
LEMMA CalledRuns ==
  ASSUME TypedTables, NEW D, NEW P, Denotes(D, P), NEW e, NEW env, NEW S, NEW fr, NEW c, NEW i,
         NEW s, NEW u, NEW dm, Starts(D, e, env, fr, c, i, s, u, dm), e.k = "call",
         NEW j, CallAt(D, e, env, c, i, j), NEW w \in Mean(D, e.e, env), w.error = "",
         NEW v \in BOOLEAN, NEW d \in Keeping(D, e, dm),
         Handles(Answers(D, e, w), FALSE, S, fr, c, j + 1, s, v, Keeping(D, e, dm))
  PROVE  Run(fr, c, j, Onto(TRUE, s, w.value), v, d) \in Safe(S)
<1>1. PICK f, b, y : f = e.f /\ b = Bodies[e.f] /\ y = w.value.list
  OBVIOUS
<1>2. /\ <<e, env>> \in D.points /\ InRun(fr, c, i, s, u, dm) /\ s \in Seq(Value)
      /\ Len(c) \in Nat /\ d \in Cells
  BY StartIs
<1>3. IsResult(w, Lists) /\ j \in Nat \ {0} /\ j <= Len(c) /\ c[j].op = "call" /\ c[j].arg = f
  BY <1>1 DEF CallAt, IsAt
<1>4. y \in Seq(Value)
  BY <1>1, <1>3, ListField DEF IsResult
<1>5. PICK t : t = s \o y
  OBVIOUS
<1>6. t \in Seq(Value) /\ PopN(t, Len(y)) = s
  BY <1>2, <1>4, <1>5, ArgumentsOnTop
<1>7. InRun(fr, c, j, t, v, d)
  <2>1. j \in Nat \ {0} /\ j <= Len(c) + 1
    <3>1. j \in Nat \ {0} /\ j <= Len(c) /\ Len(c) \in Nat
      BY <1>2, <1>3
    <3> QED
      BY <3>1, OneFurther
  <2> QED
    BY <1>2, <1>6, <2>1, InRunAt
<1>8. ASSUME ~ Functions[f].defined PROVE EndsWell("function", v, S)
  <2>1. Answers(D, e, w) = Fails("function")
    BY <1>1, <1>8 DEF Answers
  <2> QED
    BY <2>1, FailsEnds
<1>9. ASSUME Functions[f].defined
      PROVE  Run(Append(fr, [code |-> c, pc |-> j + 1]), Functions[f].code, 1,
                 PopN(t, PopsOf(f)), v, [d EXCEPT ![f] = FilledIn(t, d, f)]) \in Safe(S)
  <2>1. Enterable(D, e, f, b, y)
    <3>1. Functions[e.f].defined
      BY <1>1, <1>9
    <3>2. Enterable(D, e, e.f, Bodies[e.f], w.value.list)
      BY <1>2, <1>3, <3>1, CallEnterable
    <3> QED
      BY <1>1, <3>2
  <2>2. PopN(t, PopsOf(f)) = s
    BY <1>6, <2>1 DEF Enterable
  <2>3. Handles(Mean(D, b, y), FALSE, S, fr, c, j + 1, s, v, Keeping(D, e, dm))
    <3>1. Answers(D, e, w) = Mean(D, b, y)
      BY <1>1, <1>9 DEF Answers
    <3> QED
      BY <3>1
  <2>4. PICK d2 : d2 = FilledCells(s \o y, d, f)
    OBVIOUS
  <2>5. PICK n : n = j + 1
    OBVIOUS
  <2>6. n \in Nat \ {0} /\ n <= Len(c) + 1
    <3>1. j \in Nat \ {0} /\ j <= Len(c) /\ Len(c) \in Nat
      BY <1>2, <1>3
    <3> QED
      BY <2>5, <3>1, OneFurther
  <2>7. Handles(Mean(D, b, y), FALSE, S, fr, c, n, s, v, Keeping(D, e, dm))
    BY <2>3, <2>5
  <2>8. Run(Append(fr, [code |-> c, pc |-> n]), Functions[f].code, 1, s, v, d2) \in Safe(S)
    <3>1. EntersBody(D, e, S, fr, c, n, s, v, dm, f, b, y, d)
      BY <2>1, <2>6, <2>7 DEF EntersBody
    <3> QED
      BY <2>4, <3>1, BodyRuns
  <2>9. d2 = [d EXCEPT ![f] = FilledIn(t, d, f)]
    BY <1>5, <2>4 DEF FilledCells
  <2> QED
    BY <2>2, <2>5, <2>8, <2>9
<1>10. Run(fr, c, j, t, v, d) \in Safe(S)
  BY <1>3, <1>7, <1>8, <1>9, CallRule
<1> QED
  BY <1>1, <1>5, <1>10 DEF Onto

LEMMA CallRuns ==
  ASSUME TypedTables, NEW D, NEW P, Denotes(D, P), NEW e, NEW env, NEW S, NEW fr, NEW c, NEW i,
         NEW s, NEW u, NEW dm, Starts(D, e, env, fr, c, i, s, u, dm),
         Ends(D, e, env, S, fr, c, i, s, u, dm), e.k = "call"
  PROVE  Run(fr, c, i, s, u, dm) \in Safe(S)
<1>1. PICK K, M : K = Keeping(D, e, dm) /\ M = Mean(D, e, env)
  OBVIOUS
<1>2. <<e, env>> \in D.points /\ s \in Seq(Value) /\ u \in BOOLEAN /\ dm \in Keeping(D, e, dm)
  BY StartIs
<1>3. PICK j : CallAt(D, e, env, c, i, j)
  BY CallPlaces
<1>4. /\ e.e \in Parts(e) /\ IsArgs(e.e) = TRUE /\ \A w \in Mean(D, e.e, env) : IsResult(w, Lists)
      /\ Sits(c, i, D.code[e.e]) /\ j = i + Len(D.code[e.e]) /\ j + 1 = i + Len(D.code[e])
  BY <1>3 DEF CallAt
<1>5. Handles(M, FALSE, S, fr, c, j + 1, s, u, K)
  BY <1>1, <1>4, PlainEnds
<1>6. \A w \in Mean(D, e.e, env) : After(w, Answers(D, e, w)) \subseteq M
  <2>1. M = OfCall(D, e, env)
    BY <1>1, <1>2, MeanIs
  <2> QED
    BY <2>1, Zenon DEF OfCall
<1>7. ASSUME NEW w \in Mean(D, e.e, env)
      PROVE  /\ w.error # "" => EndsWell(w.error, u \/ w.undefined, S)
             /\ w.error = "" => \A d \in K :
                  Run(fr, c, j, Onto(TRUE, s, w.value), u \/ w.undefined, d) \in Safe(S)
  <2>1. IsResult(w, Lists)
    BY <1>4
  <2>2. PICK T : T = Answers(D, e, w)
    OBVIOUS
  <2>3. w.error = "" => AreResults(T, Value)
    <3>1. \A x, a : D.rank[x] < D.rank[e] => TypedAt(D, x, a)
      BY MeaningsTyped
    <3> QED
      BY <1>2, <2>1, <2>2, <3>1, AnswersTyped
  <2>4. Handles(After(w, T), FALSE, S, fr, c, j + 1, s, u, K)
    BY <1>5, <1>6, <2>2, HandlesFewer
  <2>5. /\ w.error # "" => EndsWell(w.error, u \/ w.undefined, S)
        /\ w.error = "" => Handles(T, FALSE, S, fr, c, j + 1, s, u \/ w.undefined, K)
    BY <1>2, <2>1, <2>3, <2>4, HandlesAfter
  <2>6. PICK v \in BOOLEAN : v = (u \/ w.undefined)
    BY <2>1 DEF IsResult
  <2>7. ASSUME w.error = "", NEW d \in K
        PROVE  Run(fr, c, j, Onto(TRUE, s, w.value), v, d) \in Safe(S)
    <3>1. /\ d \in Keeping(D, e, dm)
          /\ Handles(Answers(D, e, w), FALSE, S, fr, c, j + 1, s, v, Keeping(D, e, dm))
      BY <1>1, <2>2, <2>5, <2>6, <2>7
    <3> QED
      BY <1>3, <2>7, <3>1, CalledRuns
  <2> QED
    BY <2>5, <2>6, <2>7
<1>8. Handles(Mean(D, e.e, env), IsArgs(e.e), S, fr, c, i + Len(D.code[e.e]), s, u,
              Keeping(D, e, dm))
  BY <1>1, <1>4, <1>7 DEF Handles
<1> QED
  BY <1>2, <1>4, <1>8, PartRuns

(***************************************************************************)
(* The theorem about what the machine ends with                            *)
(***************************************************************************)

LEMMA StartRuns ==
  ASSUME TypedTables, NEW D, NEW P, Denotes(D, P), NEW e, NEW env, NEW S, NEW fr, NEW c, NEW i,
         NEW s, NEW u, NEW dm, Starts(D, e, env, fr, c, i, s, u, dm),
         Ends(D, e, env, S, fr, c, i, s, u, dm)
  PROVE  Run(fr, c, i, s, u, dm) \in Safe(S)
<1>1. <<e, env>> \in D.points
  BY StartIs
<1>2. e.k \in {"const", "var", "arg", "rand", "un", "bin", "and", "or", "if", "nil", "cons",
               "call"}
  BY <1>1, PointIs DEF WellFormed
<1>3. CASE e.k \in {"const", "var", "arg", "rand"}
  BY <1>3, LeafRuns
<1>4. CASE e.k = "un"
  BY <1>4, UnaryRuns
<1>5. CASE e.k = "bin"
  BY <1>5, BinaryRuns
<1>6. CASE e.k \in {"and", "or"}
  BY <1>6, LogicRuns
<1>7. CASE e.k = "if"
  BY <1>7, IfRuns
<1>8. CASE e.k = "nil"
  BY <1>8, NilRuns
<1>9. CASE e.k = "cons"
  BY <1>9, ConsRuns
<1>10. CASE e.k = "call"
  BY <1>10, CallRuns
<1> QED
  BY <1>2, <1>3, <1>4, <1>5, <1>6, <1>7, <1>8, <1>9, <1>10, Zenon

LEMMA AllRunWell ==
  ASSUME TypedTables, NEW D, NEW P, Denotes(D, P), NEW e, NEW env, <<e, env>> \in D.points,
         EnvTyped(D, e, env)
  PROVE  RunsWell(D, e, env)
<1>1. PICK G : G = {pt \in D.points : EnvTyped(D, pt[1], pt[2]) => RunsWell(D, pt[1], pt[2])}
  OBVIOUS
<1>2. \A x, a : <<x, a>> \in G <=>
        <<x, a>> \in D.points /\ (EnvTyped(D, x, a) => RunsWell(D, x, a))
  BY <1>1
<1>3. ASSUME NEW x, NEW a, <<x, a>> \in D.points,
             \A y, b : <<y, b>> \in D.points /\ D.rank[y] < D.rank[x] => <<y, b>> \in G
      PROVE  <<x, a>> \in G
  <2>1. Below(D, x)
    BY <1>2, <1>3, Zenon DEF Below
  <2>2. ASSUME EnvTyped(D, x, a) PROVE RunsWell(D, x, a)
    <3> SUFFICES ASSUME NEW S, NEW fr, NEW c, NEW i, NEW s, NEW u, NEW dm,
                        InRun(fr, c, i, s, u, dm), Sits(c, i, D.code[x]), Agrees(D, x, a, dm),
                        Handles(Mean(D, x, a), IsArgs(x), S, fr, c, i + Len(D.code[x]), s, u,
                                Keeping(D, x, dm))
                 PROVE  Run(fr, c, i, s, u, dm) \in Safe(S)
      BY DEF RunsWell
    <3>1. Starts(D, x, a, fr, c, i, s, u, dm)
      BY <1>3, <2>1, <2>2, Zenon DEF Starts
    <3>2. Ends(D, x, a, S, fr, c, i, s, u, dm)
      BY Zenon DEF Ends
    <3> QED
      BY <3>1, <3>2, StartRuns
  <2> QED
    BY <1>2, <1>3, <2>2
<1>4. <<e, env>> \in G
  <2> HIDE <1>1
  <2> QED
    BY <1>3, RankInduction, Zenon
<1> QED
  BY <1>2, <1>4

LEMMA EmptySequences == <<>> \in Seq(Value) /\ <<>> \in Seq(Frame)
  OBVIOUS

(* The value o.value and the flag are all that is left when the program of *)
(* the caller has returned.                                                *)
LEMMA TakenWell ==
  ASSUME NEW S, NEW o \in S, IsResult(o, Value), o.error = "", NEW d \in Cells, NEW r,
         r = [frames |-> <<>>, stack |-> push(<<>>, o.value), undefined |-> o.undefined,
              dummy |-> d]
  PROVE  r \in Safe(S)
<1>1. PICK v, n : v = o.value /\ n = o.undefined
  OBVIOUS
<1>2. o = [value |-> v, undefined |-> n, error |-> ""] /\ v \in Value /\ n \in BOOLEAN
  BY <1>1 DEF IsResult
<1>3. <<>> \in Seq(Value) /\ <<>> \in Seq(Frame)
  BY EmptySequences
<1>4. PICK t : t = push(<<>>, v)
  OBVIOUS
<1>5. t \in Seq(Value) /\ t # <<>> /\ TopAt(t, 0) = v /\ PopN(t, 1) = <<>>
  BY <1>2, <1>3, <1>4, OneOnTop, AppendProperties, ZenonT(60) DEF push
<1>6. r \in Conf /\ r.frames = <<>> /\ r.stack = t /\ r.undefined = n
  BY <1>1, <1>2, <1>3, <1>4, <1>5 DEF Conf
<1>7. Taken(r) = [value |-> v, undefined |-> n, error |-> ""]
  BY <1>5, <1>6 DEF Taken, check_stack
<1>8. Sound(r, Safe(S), S)
  BY <1>2, <1>6, <1>7 DEF Sound
<1> QED
  BY <1>6, <1>8, SoundIsSafe

LEMMA ProgramRuns ==
  ASSUME TypedTables, NEW D, NEW P, Denotes(D, P), NEW p \in P, p \in DOMAIN Programs,
         NEW d \in Cells
  PROVE  Run(<<>>, Programs[p], 1, <<>>, FALSE, d) \in Safe(Meaning[p])
<1>1. PICK e, c, S : e = Exprs[p] /\ c = Programs[p] /\ S = Meaning[p]
  OBVIOUS
<1>2. /\ <<e, <<>> >> \in D.points /\ ~ IsArgs(e) /\ D.reads[e] = {} /\ c = D.code[e]
      /\ S = Mean(D, e, <<>>)
  BY <1>1 DEF Denotes, Mean
<1>3. EnvTyped(D, e, <<>>) /\ Agrees(D, e, <<>>, d)
  BY <1>2 DEF EnvTyped, Agrees
<1>4. RunsWell(D, e, <<>>)
  BY <1>2, <1>3, AllRunWell
<1>5. IsSeq(c) /\ Len(c) \in Nat /\ c \in Codes
  <2>1. IsSeq(c)
    BY <1>2, CodesAreSeqs
  <2> QED
    BY <1>1, <2>1, LenProperties DEF IsSeq, Codes
<1>6. <<>> \in Seq(Value) /\ <<>> \in Seq(Frame)
  BY EmptySequences
<1>7. InRun(<<>>, c, 1, <<>>, FALSE, d) /\ Sits(c, 1, c)
  BY <1>5, <1>6 DEF InRun, Sits
<1>8. ASSUME NEW o \in S
      PROVE  /\ o.error # "" => EndsWell(o.error, FALSE \/ o.undefined, S)
             /\ o.error = "" => \A d2 \in Keeping(D, e, d) :
                  Run(<<>>, c, 1 + Len(c), push(<<>>, o.value), FALSE \/ o.undefined, d2) \in Safe(S)
  <2>1. IsResult(o, Value)
    <3>1. AreResults(Mean(D, e, <<>>), Value)
      BY <1>2, <1>3, MeaningsTyped DEF TypedAt, Kind
    <3> QED
      BY <1>2, <3>1 DEF AreResults
  <2>2. PICK n \in BOOLEAN : n = o.undefined
    BY <2>1 DEF IsResult
  <2>3. (FALSE \/ o.undefined) = n
    BY <2>2
  <2>4. EndsWell(o.error, n, S)
    BY <2>2 DEF EndsWell
  <2>5. ASSUME o.error = "", NEW d2 \in Keeping(D, e, d)
        PROVE  Run(<<>>, c, 1 + Len(c), push(<<>>, o.value), n, d2) \in Safe(S)
    <3>1. PICK t : t = push(<<>>, o.value)
      OBVIOUS
    <3>2. t \in Seq(Value)
      BY <1>6, <2>1, <2>5, <3>1, OneOnTop DEF IsResult
    <3>3. d2 \in Cells
      BY <2>5 DEF Keeping
    <3>4. [frames |-> <<>>, stack |-> t, undefined |-> n, dummy |-> d2] \in Safe(S)
      BY <2>1, <2>2, <2>5, <3>1, <3>3, TakenWell
    <3>5. InRun(<<>>, c, Len(c) + 1, t, n, d2)
      <4>1. Len(c) + 1 \in 1 .. Len(c) + 1
        BY <1>5
      <4> QED
        BY <1>5, <1>6, <3>2, <3>3, <4>1 DEF InRun
    <3>6. Run(<<>>, c, Len(c) + 1, t, n, d2) \in Safe(S)
      BY <3>4, <3>5, ReturnRule
    <3>7. Len(c) + 1 = 1 + Len(c)
      BY <1>5
    <3> QED
      BY <3>1, <3>6, <3>7
  <2> QED
    BY <2>3, <2>4, <2>5
<1>9. Handles(Mean(D, e, <<>>), IsArgs(e), S, <<>>, c, 1 + Len(D.code[e]), <<>>, FALSE,
              Keeping(D, e, d))
  BY <1>2, <1>8 DEF Handles, Onto
<1>10. Run(<<>>, c, 1, <<>>, FALSE, d) \in Safe(S)
  <2>1. Sits(c, 1, D.code[e])
    BY <1>2, <1>7
  <2> QED
    BY <1>3, <1>4, <1>7, <1>9, <2>1, Zenon DEF RunsWell
<1> QED
  BY <1>1, <1>10

LEMMA StepKeepsProgram == ASSUME Step PROVE status = "running" /\ program' = program
<1>1. CASE Return
  BY <1>1 DEF Return
<1>2. CASE PushInstruction
  BY <1>2 DEF PushInstruction, Fetched, Corrupts, Pushes, IntError
<1>3. CASE UnaryInstruction
  BY <1>3 DEF UnaryInstruction, Fetched, Corrupts, Pushes, IntError
<1>4. CASE BinaryInstruction
  BY <1>4 DEF BinaryInstruction, Fetched, Corrupts, Pushes, IntError
<1>5. CASE f_call
  BY <1>5 DEF f_call, Fetched, Corrupts, IntError
<1>6. CASE f_jump
  BY <1>6 DEF f_jump, Fetched
<1>7. CASE ConditionalJump
  BY <1>7 DEF ConditionalJump, Fetched, Corrupts, IntError
<1>8. CASE Finish
  BY <1>8 DEF Finish
<1> QED
  BY <1>1, <1>2, <1>3, <1>4, <1>5, <1>6, <1>7, <1>8 DEF Step

FineProgram(P) == program \in P => Fine(Meaning[program])

LEMMA BeginFine ==
  ASSUME TypedTables, NEW D, NEW P, Denotes(D, P), TypeInv, Begin PROVE FineProgram(P)'
<1>1. PICK p, d : p = program /\ d = dummy
  OBVIOUS
<1>2. d \in Cells /\ p \in DOMAIN Programs
  BY <1>1 DEF TypeInv, TypeOK, Cells
<1>3. /\ stack' = <<>> /\ undefined' = FALSE /\ frames' = <<[code |-> Programs[p], pc |-> 1]>>
      /\ status' = "running" /\ dummy' = d /\ program' = p
  BY <1>1 DEF Begin, reset_stack
<1>4. Now' = Run(<<>>, Programs[p], 1, <<>>, FALSE, d)
  <2>1. PICK x : x = [code |-> Programs[p], pc |-> 1]
    OBVIOUS
  <2>2. <<x>> = Append(<<>>, x)
    OBVIOUS
  <2>3. frames' = Append(<<>>, x)
    BY <1>3, <2>1, <2>2
  <2> QED
    BY <1>3, <2>1, <2>3, Zenon DEF Now, Run
<1>5. p \in P => Now' \in Safe(Meaning[p])
  BY <1>2, <1>4, ProgramRuns
<1> QED
  BY <1>3, <1>5 DEF FineProgram, Fine

LEMMA FineStep ==
  ASSUME TypedTables, NEW D, NEW P, Denotes(D, P), TypeInv, FineProgram(P), [Next]_vars
  PROVE  FineProgram(P)'
<1>1. CASE Begin
  BY <1>1, BeginFine
<1>2. CASE Step
  <2>1. status = "running" /\ program' = program
    BY <1>2, StepKeepsProgram
  <2>2. PICK S : S = Meaning[program]
    OBVIOUS
  <2>3. ASSUME program \in P PROVE Fine(S)'
    <3>1. Fine(S)
      BY <2>2, <2>3 DEF FineProgram
    <3> QED
      BY <1>2, <2>1, <3>1, StepFine
  <2> QED
    BY <2>1, <2>2, <2>3 DEF FineProgram, Fine
<1>3. CASE UNCHANGED vars
  BY <1>3 DEF vars, FineProgram, Fine, Now
<1> QED
  BY <1>1, <1>2, <1>3 DEF Next

(* The machine ends with a value, a flag and an error that the expression  *)
(* can have: whatever the expression, the jumps of execute_at skip what && *)
(* || and ?: do not evaluate, and nothing else, and a call of f_call finds *)
(* its arguments in the cells of its function and leaves the others alone. *)
(* It holds for the programs that call no function that calls itself; the  *)
(* parser has their code from the parts of the expression.                 *)
THEOREM ComputesTheMeaning ==
  ASSUME TypedTables, NEW D, NEW P, Denotes(D, P)
  PROVE  Spec => [](program \in P => MatchesMeaning)
<1>1. Init => TypeInv /\ FineProgram(P)
  BY TypeInitial DEF Init, FineProgram, Fine
<1>2. TypeInv /\ FineProgram(P) /\ [Next]_vars => TypeInv' /\ FineProgram(P)'
  BY TypeStep, FineStep
<1>3. FineProgram(P) => (program \in P => MatchesMeaning)
  BY DEF FineProgram, Fine, EndsWell, MatchesMeaning
<1> QED
  BY <1>1, <1>2, <1>3, PTL DEF Spec
=============================================================================
