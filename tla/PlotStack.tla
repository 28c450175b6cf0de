------------------------------ MODULE PlotStack ------------------------------
(***************************************************************************)
(* The stack machine of the plotting program (src/archive/o/internal.c):   *)
(* push and pop without a check of the bounds, the instructions of one     *)
(* operator, the jumps of &&, || and ?:, and the call of a user's          *)
(* function, whose arguments are kept in the function, not in the call.    *)
(* The loop that runs a program, execute_at, and the program's caller are  *)
(* external: the loop adds to the index what a jump returns, and 1 after   *)
(* any other instruction; the caller empties the stack before a program    *)
(* (reset_stack), takes one value after it and looks whether the stack is  *)
(* empty (check_stack).                                                    *)
(***************************************************************************)
EXTENDS PlotValues, Sequences

CONSTANTS
  Programs,   \* the programs, sequences of instructions, by name
  Functions,  \* the user's functions: whether defined, arguments, program
  Variables,  \* the user's variables: whether undefined, value
  StackDepth  \* STACK_DEPTH

ASSUME StackAssumption == StackDepth \in Nat \ {0}

VARIABLES
  stack,      \* stack[0 .. s_p], its first element the bottom
  undefined,  \* the flag
  dummy,      \* dummy[f][i]: the cells dummy_value .. dummy_value3 of f
  frames,     \* the runs of execute_at within each other: program and index
  program,    \* the name of the program of the first one
  status,     \* "idle", "running", "done", "error"; "corrupt": out of bounds
  outcome     \* the value taken at the end, or the text of the int_error

vars == <<stack, undefined, dummy, frames, program, status, outcome>>

TypeOK ==
  /\ stack \in Seq(Value) /\ undefined \in BOOLEAN
  /\ dummy \in [DOMAIN Functions -> [0 .. 3 -> Value]]
  /\ \A i \in DOMAIN frames : frames[i].pc \in 1 .. Len(frames[i].code) + 1
  /\ program \in DOMAIN Programs
  /\ status \in {"idle", "running", "done", "error", "corrupt"}
  /\ outcome.value \in Value /\ outcome.undefined \in BOOLEAN
  /\ outcome.error \in {"", "boolean", "mod", "factorial", "trap", "variable", "function",
                        "warning"}

(* The stack and the flag are as an earlier program left them.             *)
NoOutcome == [value |-> Integer(0), undefined |-> FALSE, error |-> ""]

Init ==
  /\ stack \in {<<>>, <<Integer(1)>>} /\ undefined \in BOOLEAN /\ frames = <<>>
  /\ dummy = [f \in DOMAIN Functions |-> [i \in 0 .. 3 |-> Integer(0)]]
  /\ program \in DOMAIN Programs
  /\ status = "idle" /\ outcome = NoOutcome

(***************************************************************************)
(* The stack                                                               *)
(***************************************************************************)

reset_stack == <<>>
push(s, v) == Append(s, v)
PopN(s, n) == SubSeq(s, 1, Len(s) - n)
TopAt(s, i) == s[Len(s) - i]

(***************************************************************************)
(* The caller (external)                                                   *)
(***************************************************************************)

Begin ==
  /\ status = "idle"
  /\ stack' = reset_stack /\ undefined' = FALSE
  /\ frames' = <<[code |-> Programs[program], pc |-> 1]>>
  /\ status' = "running"
  /\ UNCHANGED <<dummy, program, outcome>>

check_stack(s) == IF s = <<>> THEN "" ELSE "warning"

Finish ==
  /\ status = "running" /\ frames = <<>>
  /\ IF stack = <<>> THEN status' = "corrupt" /\ UNCHANGED <<stack, outcome>>
     ELSE /\ stack' = PopN(stack, 1)
          /\ outcome' = [value |-> TopAt(stack, 0), undefined |-> undefined,
                         error |-> check_stack(PopN(stack, 1))]
          /\ status' = "done"
  /\ UNCHANGED <<undefined, dummy, frames, program>>

(***************************************************************************)
(* execute_at (external)                                                   *)
(***************************************************************************)

Top == frames[Len(frames)]
Fetched == status = "running" /\ frames # <<>> /\ Top.pc <= Len(Top.code)
Instruction == Top.code[Top.pc]

Advance(offset) == frames' = [frames EXCEPT ![Len(frames)].pc = @ + offset]

(* The end of a program: f_call returns, and the caller goes on.           *)
Return ==
  /\ status = "running" /\ frames # <<>> /\ Top.pc > Len(Top.code)
  /\ frames' = PopN(frames, 1)
  /\ UNCHANGED <<stack, undefined, dummy, program, status, outcome>>

(* An instruction that would use a cell below or above the array.          *)
Fits(pops, above) == Len(stack) >= pops /\ Len(stack) + above <= StackDepth
Corrupts(pops, above) ==
  /\ ~Fits(pops, above)
  /\ status' = "corrupt"
  /\ UNCHANGED <<stack, undefined, dummy, frames, program, outcome>>

(* int_error: the program is left where it is, with what is on the stack.  *)
IntError(text) ==
  /\ status' = "error"
  /\ outcome' = [NoOutcome EXCEPT !.undefined = undefined, !.error = text]
  /\ frames' = <<>>
  /\ UNCHANGED <<undefined, program>>

(***************************************************************************)
(* Instructions                                                            *)
(***************************************************************************)

(* The operands popped when int_check ends the program: f_bool looks at    *)
(* the top in its place, the others stop at the first that is no integer.  *)
PoppedByError(op, pops) ==
  IF op = "bool" THEN 0
  ELSE IF op \in {"lor", "land", "bor", "band", "xor"} /\ ~IsInt(TopAt(stack, 0)) THEN 1
  ELSE pops

(* A value is pushed, or an error ends the program.                        *)
Pushes(pops, o) ==
  /\ stack' = IF o.error = "" THEN push(PopN(stack, pops), o.value)
              ELSE PopN(stack, PoppedByError(Instruction.op, pops))
  /\ UNCHANGED dummy
  /\ IF o.error # "" THEN IntError(o.error)
     ELSE /\ undefined' = (undefined \/ o.undefined)
          /\ Advance(1)
          /\ UNCHANGED <<program, status, outcome>>

(* f_push of a variable, f_pushc of a constant, f_pushd0 .. f_pushd3 of an *)
(* argument of a function, f_rand.                                         *)
f_push(x) == IF Variables[x].undef THEN Fails("variable") ELSE Gives(Variables[x].value)
f_pushd(x) == Gives(dummy[x.f][x.i])

Sources(ins) ==
  CASE ins.op = "push" -> f_push(ins.arg) [] ins.op = "pushc" -> Gives(ins.arg)
    [] ins.op = "pushd" -> f_pushd(ins.arg) [] ins.op = "rand" -> f_rand

(* An undefined variable is found before the push, on a full stack too.    *)
PushInstruction ==
  /\ Fetched /\ Instruction.op \in {"push", "pushc", "pushd", "rand"}
  /\ \E o \in Sources(Instruction) :
       \/ o.error = "" /\ Corrupts(0, 1)
       \/ (o.error # "" \/ Fits(0, 1)) /\ Pushes(0, o)

UnaryInstruction ==
  /\ Fetched /\ Instruction.op \in UnaryOps
  /\ \/ Corrupts(1, Above(Instruction.op))
     \/ /\ Fits(1, Above(Instruction.op))
        /\ \E o \in Unary(Instruction.op, TopAt(stack, 0)) : Pushes(1, o)

BinaryInstruction ==
  /\ Fetched /\ Instruction.op \in BinaryOps
  /\ \/ Corrupts(2, 0)
     \/ /\ Fits(2, 0)
        /\ \E o \in Binary(Instruction.op, TopAt(stack, 1), TopAt(stack, 0)) : Pushes(2, o)

(* The cells f_call fills, from the top of the stack down; a function of   *)
(* no argument pops one all the same.                                      *)
PopsOf(f) == IF Functions[f].args = 0 THEN 1 ELSE Functions[f].args

(* Mutant: the last argument in the first cell.                            *)
Filled_Reversed(f) ==
  [i \in 0 .. 3 |-> IF i < PopsOf(f) THEN TopAt(stack, i) ELSE dummy[f][i]]

Filled(f) ==
  [i \in 0 .. 3 |-> IF i < PopsOf(f) THEN TopAt(stack, PopsOf(f) - 1 - i) ELSE dummy[f][i]]

f_call ==
  /\ Fetched /\ Instruction.op = "call"
  /\ LET f == Instruction.arg IN
     \/ ~Functions[f].defined /\ IntError("function") /\ UNCHANGED <<stack, dummy>>
     \/ Functions[f].defined /\ Corrupts(PopsOf(f), 0)
     \/ /\ Functions[f].defined /\ Fits(PopsOf(f), 0)
        /\ dummy' = [dummy EXCEPT ![f] = Filled(f)]
        /\ stack' = PopN(stack, PopsOf(f))
        /\ frames' = Append([frames EXCEPT ![Len(frames)].pc = @ + 1],
                            [code |-> Functions[f].code, pc |-> 1])
        /\ UNCHANGED <<undefined, program, status, outcome>>

f_jump ==
  /\ Fetched /\ Instruction.op = "jump"
  /\ Advance(Instruction.arg)
  /\ UNCHANGED <<stack, undefined, dummy, program, status, outcome>>

(* Mutants: the value is popped, or kept, whether the jump is taken or not *)
Keeps_Never(op, v) == FALSE
Keeps_Always(op, v) == op # "jtern"

(* The jumps pop the value they test when they do not jump; f_jtern in any *)
(* case, and before its int_check.                                         *)
Keeps(op, v) == \/ op = "jumpz" /\ v.re = 0
                \/ op = "jumpnz" /\ v.re # 0

Jumps(op, v) == IF op = "jumpnz" THEN v.re # 0 ELSE v.re = 0

(* Mutant: a jump that is taken forgets its offset.                        *)
Offset_Zero(op, v, j) == IF Jumps(op, v) THEN 0 ELSE 1

Offset(op, v, j) == IF Jumps(op, v) THEN j ELSE 1

ConditionalJump ==
  /\ Fetched /\ Instruction.op \in {"jumpz", "jumpnz", "jtern"}
  /\ \/ Corrupts(1, 0)
     \/ /\ Fits(1, 0) /\ UNCHANGED dummy
        /\ LET op == Instruction.op
               v == TopAt(stack, 0)
           IN  IF ~IsInt(v)
               THEN /\ IntError("boolean")
                    /\ stack' = IF op = "jtern" THEN PopN(stack, 1) ELSE stack
               ELSE /\ stack' = IF Keeps(op, v) THEN stack ELSE PopN(stack, 1)
                    /\ Advance(Offset(op, v, Instruction.arg))
                    /\ UNCHANGED <<undefined, program, status, outcome>>

Step == Return \/ PushInstruction \/ UnaryInstruction \/ BinaryInstruction
        \/ f_call \/ f_jump \/ ConditionalJump \/ Finish
Next == Begin \/ Step
Spec == Init /\ [][Next]_vars

(* A running program goes on: the machine waits for nothing.               *)
FairSpec == Spec /\ WF_vars(Step)

(***************************************************************************)
(* Properties                                                              *)
(***************************************************************************)

(* push and pop, which do not look, never leave the array in the program   *)
(* of an expression that StackDepth cells are enough for: the value a jump *)
(* leaves for the BOOL behind it, the two ways through ?:, the operands    *)
(* below a call.                                                           *)
InBounds == status # "corrupt"

(* A program that ends normally leaves its value and nothing else: the     *)
(* caller never sees "stack not empty".                                    *)
NoStackWarning == outcome.error # "warning"

(* Every program ends, with a value or an error: no offset of a jump leads *)
(* back.                                                                   *)
EvaluationEnds == status = "running" ~> status # "running"
=============================================================================
