------------------------------ MODULE PlotExpr ------------------------------
(***************************************************************************)
(* Expressions, what they mean, and their programs: the reference that the *)
(* stack machine is checked against.  The parser, which makes the program  *)
(* of an expression, is external; the programs are those the jumps of      *)
(* src/archive/o/internal.c are made for: a jump over the right operand of *)
(* && and ||, and a BOOL behind it.  Program and meaning of an expression  *)
(* are given here from those of its parts.                                 *)
(***************************************************************************)
EXTENDS PlotStack

CONSTANTS
  Exprs,   \* the expressions, by name
  Bodies,  \* the bodies of the defined functions, by name
  Meaning  \* what the expressions mean, by name: their possible outcomes

(* Expressions, and the lists of the arguments of a call.                  *)
Const(v) == [k |-> "const", v |-> v]
Var(x) == [k |-> "var", x |-> x]
Arg(f, i) == [k |-> "arg", f |-> f, i |-> i]
Rand == [k |-> "rand"]
Un(op, e) == [k |-> "un", op |-> op, e |-> e]
Bin(op, l, r) == [k |-> "bin", op |-> op, l |-> l, r |-> r]
And(l, r) == [k |-> "and", l |-> l, r |-> r]
Or(l, r) == [k |-> "or", l |-> l, r |-> r]
If(c, t, e) == [k |-> "if", c |-> c, t |-> t, e |-> e]
Nil == [k |-> "nil"]
Cons(e, es) == [k |-> "cons", l |-> e, r |-> es]
Call(f, args) == [k |-> "call", f |-> f, e |-> args]

IsArgs(e) == e.k \in {"nil", "cons"}

Parts(e) ==
  CASE e.k \in {"const", "var", "arg", "rand", "nil"} -> {}
    [] e.k \in {"un", "call"} -> {e.e}
    [] e.k \in {"bin", "and", "or", "cons"} -> {e.l, e.r}
    [] e.k = "if" -> {e.c, e.t, e.e}

(***************************************************************************)
(* The program of an expression, from the programs C(x) of its parts       *)
(***************************************************************************)

Ins(op, arg) == <<[op |-> op, arg |-> arg]>>

CodeOf(e, C(_)) ==
  CASE e.k = "const" -> Ins("pushc", e.v)
    [] e.k = "var"   -> Ins("push", e.x)
    [] e.k = "arg"   -> Ins("pushd", [f |-> e.f, i |-> e.i])
    [] e.k = "rand"  -> Ins("rand", 0)
    [] e.k = "un"    -> C(e.e) \o Ins(e.op, 0)
    [] e.k = "bin"   -> C(e.l) \o C(e.r) \o Ins(e.op, 0)
    [] e.k = "and"   -> C(e.l) \o Ins("jumpz", Len(C(e.r)) + 1) \o C(e.r) \o Ins("bool", 0)
    [] e.k = "or"    -> C(e.l) \o Ins("jumpnz", Len(C(e.r)) + 1) \o C(e.r) \o Ins("bool", 0)
    [] e.k = "if"    -> C(e.c) \o Ins("jtern", Len(C(e.t)) + 2) \o C(e.t)
                          \o Ins("jump", Len(C(e.e)) + 1) \o C(e.e)
    [] e.k = "nil"   -> <<>>
    [] e.k = "cons"  -> C(e.l) \o C(e.r)
    [] e.k = "call"  -> C(e.e) \o Ins("call", e.f)

(***************************************************************************)
(* The meaning of an expression with the arguments env of the function it  *)
(* is in, from the meanings M(x, a) of its parts and of the body called    *)
(***************************************************************************)

(* A value that && or || tests must be an integer.                         *)
Tested(v, S) == IF IsInt(v) THEN S ELSE Fails("boolean")
AsTruth(v) == Tested(v, Gives(Truth(v.re # 0)))

MeaningOf(e, env, M(_, _)) ==
  CASE e.k = "const" -> Gives(e.v)
    [] e.k = "var"   -> f_push(e.x)
    [] e.k = "arg"   -> Gives(env[e.i + 1])
    [] e.k = "rand"  -> f_rand
    [] e.k = "un"    -> Then(M(e.e, env), LAMBDA v : Unary(e.op, v))
    [] e.k = "bin"   -> Then(M(e.l, env),
                             LAMBDA l : Then(M(e.r, env), LAMBDA r : Binary(e.op, l, r)))
    [] e.k = "and"   -> Then(M(e.l, env), LAMBDA l : Tested(l,
                          IF l.re = 0 THEN Gives(Truth(FALSE)) ELSE Then(M(e.r, env), AsTruth)))
    [] e.k = "or"    -> Then(M(e.l, env), LAMBDA l : Tested(l,
                          IF l.re # 0 THEN Gives(Truth(TRUE)) ELSE Then(M(e.r, env), AsTruth)))
    [] e.k = "if"    -> Then(M(e.c, env), LAMBDA c : Tested(c,
                          IF c.re # 0 THEN M(e.t, env) ELSE M(e.e, env)))
    [] e.k = "nil"   -> Gives([list |-> <<>>])
    [] e.k = "cons"  -> Then(M(e.l, env), LAMBDA v :
                          Then(M(e.r, env), LAMBDA vs : Gives([list |-> <<v>> \o vs.list])))
    [] e.k = "call"  -> Then(M(e.e, env), LAMBDA vs :
                          IF Functions[e.f].defined THEN M(Bodies[e.f], vs.list)
                          ELSE Fails("function"))

(***************************************************************************)
(* Denotations                                                             *)
(***************************************************************************)

WellFormed(e) ==
  /\ e.k \in {"const", "var", "arg", "rand", "un", "bin", "and", "or", "if", "nil", "cons",
              "call"}
  /\ e.k = "const" => e.v \in Value
  /\ e.k = "var" => e.x \in DOMAIN Variables
  /\ e.k = "arg" => e.f \in DOMAIN Functions /\ e.i \in 0 .. 3
  /\ e.k = "un" => e.op \in UnaryOps
  /\ e.k = "bin" => e.op \in BinaryOps
  /\ e.k = "call" => e.f \in DOMAIN Functions
  /\ e.k = "call" => IsArgs(e.e)
  /\ e.k = "cons" => IsArgs(e.r) /\ ~ IsArgs(e.l)
  /\ e.k \notin {"call", "cons"} => \A x \in Parts(e) : ~ IsArgs(x)

(* For the programs in P, D has the expressions that are evaluated, with   *)
(* the arguments they are evaluated with (points), the program and the     *)
(* meaning of each, the arguments it reads, and ranks by which no function *)
(* calls itself, directly or through others: an expression in the body of  *)
(* f has a rank of at most level[f], an expression that calls f a higher   *)
(* one.                                                                    *)
Denotes(D, P) ==
  /\ \A f \in DOMAIN Functions : D.level[f] \in Nat
  /\ \A pt \in D.points :
       LET e == pt[1]
           env == pt[2]
       IN  /\ pt = <<e, env>> /\ WellFormed(e) /\ D.rank[e] \in Nat
           /\ D.code[e] = CodeOf(e, LAMBDA x : D.code[x])
           /\ D.mean[pt] = MeaningOf(e, env, LAMBDA x, a : D.mean[<<x, a>>])
           /\ \A x \in Parts(e) :
                <<x, env>> \in D.points /\ D.rank[x] < D.rank[e] /\ D.reads[x] \subseteq D.reads[e]
           /\ e.k = "arg" => [f |-> e.f, i |-> e.i] \in D.reads[e]
           /\ \A a \in D.reads[e] : D.rank[e] <= D.level[a.f]
           /\ e.k = "call" /\ Functions[e.f].defined =>
                /\ D.level[e.f] < D.rank[e] /\ D.rank[Bodies[e.f]] <= D.level[e.f]
                /\ Functions[e.f].code = D.code[Bodies[e.f]] /\ ~ IsArgs(Bodies[e.f])
                /\ D.reads[Bodies[e.f]] \subseteq [f : {e.f}, i : 0 .. PopsOf(e.f) - 1]
                /\ \A o \in D.mean[<<e.e, env>>] : o.error = "" =>
                     Len(o.value.list) = PopsOf(e.f) /\ <<Bodies[e.f], o.value.list>> \in D.points
  /\ \A p \in P :
       /\ <<Exprs[p], <<>> >> \in D.points
       /\ ~ IsArgs(Exprs[p]) /\ D.reads[Exprs[p]] = {}
       /\ Programs[p] = D.code[Exprs[p]] /\ Meaning[p] = D.mean[<<Exprs[p], <<>> >>]

(***************************************************************************)
(* Property                                                                *)
(***************************************************************************)

(* What the machine ends with is what the expression means: the value, the *)
(* undefined flag and the error.  An operand that && and || skip sets no   *)
(* flag and raises no error, only one branch of ?: counts, and a function  *)
(* sees the arguments of its own call.  The last is claimed of expressions *)
(* that read no argument behind a call which overwrites it: arguments      *)
(* belong to the function (f_call, internal.c:141), so fact(x - 1) * x     *)
(* would read the inner call's.                                            *)
MatchesMeaning ==
  /\ status = "done" => outcome \in Meaning[program]
  /\ status = "error" => \E o \in Meaning[program] :
       o.error = outcome.error /\ o.undefined = outcome.undefined
=============================================================================
