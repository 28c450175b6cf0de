----------------------------- MODULE PlotHeights -----------------------------
(***************************************************************************)
(* What a program needs to leave the stack in order, as a bytecode verifier*)
(* would ask it.  push and pop of src/archive/o/internal.c look at nothing,*)
(* so it rests on the program: a certificate gives the height of the stack *)
(* at each place of its code, above what was there when the code was       *)
(* entered, such that every instruction finds its operands and leaves the  *)
(* height of whatever comes next.                                          *)
(***************************************************************************)
EXTENDS PlotStack

PushOps == {"push", "pushc", "pushd", "rand"}

(* Whoever can come after the instruction ins at place i of code, with the *)
(* heights h, finds the height h says.                                     *)
Balances(code, h, i) ==
  LET ins == code[i]
      Through(d) == h[i + 1] = h[i] + d
      Target(d) == i + ins.arg \in 1 .. Len(code) + 1 /\ h[i + ins.arg] = h[i] + d
  IN  \/ ins.op \in PushOps /\ Through(1)
      \/ ins.op \in UnaryOps /\ h[i] >= 1 /\ Through(0)
      \/ ins.op \in BinaryOps /\ h[i] >= 2 /\ Through(-1)
      \/ /\ ins.op = "call" /\ ins.arg \in DOMAIN Functions
         /\ Functions[ins.arg].defined =>
              PopsOf(ins.arg) \in 0 .. h[i] /\ Through(1 - PopsOf(ins.arg))
      \/ ins.op = "jump" /\ Target(0)
      \/ ins.op \in {"jumpz", "jumpnz"} /\ h[i] >= 1 /\ Through(-1) /\ Target(0)
      \/ ins.op = "jtern" /\ h[i] >= 1 /\ Through(-1) /\ Target(-1)

(* Code that is entered with the height 0 and left with its value.         *)
Balanced(code, h) ==
  /\ Len(code) \in Nat /\ h \in [1 .. Len(code) + 1 -> Nat]
  /\ h[1] = 0 /\ h[Len(code) + 1] = 1
  /\ \A i \in 1 .. Len(code) : Balances(code, h, i)

(* The cells above the top that an instruction uses.                       *)
AboveTop(ins) ==
  IF ins.op \in PushOps THEN 1 ELSE IF ins.op \in UnaryOps THEN Above(ins.op) ELSE 0

(* n cells are enough for the code, with need[f] for a call of f.          *)
Covers(code, h, need, n) ==
  \A i \in 1 .. Len(code) :
    /\ h[i] + AboveTop(code[i]) <= n
    /\ code[i].op = "call" /\ Functions[code[i].arg].defined =>
         /\ code[i].arg \in DOMAIN need
         /\ h[i] - PopsOf(code[i].arg) + need[code[i].arg] <= n

(* hp and hf are such heights of the programs and the defined functions;   *)
(* those in P and in the domain of need have cells enough.                 *)
Certificate(hp, hf, P, need) ==
  /\ \A p \in DOMAIN Programs :
       /\ Balanced(Programs[p], hp[p])
       /\ p \in P => Covers(Programs[p], hp[p], need, StackDepth)
  /\ \A f \in DOMAIN Functions : Functions[f].defined =>
       /\ Balanced(Functions[f].code, hf[f])
       /\ f \in DOMAIN need => Covers(Functions[f].code, hf[f], need, need[f])
  /\ \A f \in DOMAIN need : need[f] \in Nat

(* What the parser sees to: constants are values, arguments and calls are  *)
(* those of functions there are, which have at most four arguments, and a  *)
(* jump stays in its code.                                                 *)
WellTyped(code) ==
  /\ Len(code) \in Nat
  /\ \A i \in 1 .. Len(code) :
       LET ins == code[i] IN
       /\ ins.op = "push" => ins.arg \in DOMAIN Variables
       /\ ins.op = "pushc" => ins.arg \in Value
       /\ ins.op = "pushd" => ins.arg.f \in DOMAIN Functions /\ ins.arg.i \in 0 .. 3
       /\ ins.op = "call" => ins.arg \in DOMAIN Functions
       /\ ins.op \in {"jump", "jumpz", "jumpnz", "jtern"} =>
            ins.arg \in Int /\ i + ins.arg \in 1 .. Len(code) + 1

TypedTables ==
  /\ \A p \in DOMAIN Programs : WellTyped(Programs[p])
  /\ \A f \in DOMAIN Functions : Functions[f].defined =>
       WellTyped(Functions[f].code) /\ Functions[f].args \in 0 .. 4
  /\ \A x \in DOMAIN Variables : ~ Variables[x].undef => Variables[x].value \in Value

(* An access outside the array is one above it: nothing is ever popped     *)
(* that the program did not push, however deep its calls are.              *)
OnlyOverflows ==
  status = "corrupt" =>
    /\ frames # <<>> /\ Top.pc <= Len(Top.code)
    /\ Len(stack) + AboveTop(Instruction) > StackDepth
=============================================================================
