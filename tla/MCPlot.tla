-------------------------------- MODULE MCPlot --------------------------------
(***************************************************************************)
(* Expressions for TLC: every operator on operands of both types, and some *)
(* that nest jumps and calls.                                              *)
(***************************************************************************)
EXTENDS PlotMeaning, PlotHeights, TLC

N(n) == Const(Integer(n))

Seqs == INSTANCE SequencesExt
CallOf(f, args) == Call(f, Seqs!FoldRight(Cons, args, Nil))

(* An int of each sign, the least one, zero; doubles real and complex.     *)
Samples == <<Integer(0), Integer(-1), Integer(3), Integer(MinInt),
             Complex(0, 0), Complex(-2, 0), Complex(1, -1), Complex(0, 1)>>

MCDoubles == {-1, 0, 1}

MCVariables == [x \in {"set", "unset"} |-> [undef |-> x = "unset", value |-> Integer(2)]]

(* diff(x, y) == x - y, fact(x) == x <= 1 ? 1 : x * fact(x - 1),           *)
(* pick(a, b, c) == a ? b : c, four(a, b, c, d) == (a - b) * c - d; nobody *)
(* is not defined.                                                         *)
MCBodies ==
  [f \in {"diff", "fact", "pick", "four"} |->
    LET x == Arg(f, 0)
        y == Arg(f, 1)
        z == Arg(f, 2)
        w == Arg(f, 3)
    IN  CASE f = "diff" -> Bin("minus", x, y)
          [] f = "fact" -> If(Bin("le", x, N(1)), N(1),
                              Bin("mult", x, CallOf("fact", <<Bin("minus", x, N(1))>>)))
          [] f = "pick" -> If(x, y, z)
          [] f = "four" -> Bin("minus", Bin("mult", Bin("minus", x, y), z), w)]

MCFunctions ==
  [f \in {"diff", "fact", "pick", "four", "nobody"} |->
    [defined |-> f # "nobody",
     args |-> CASE f = "diff" -> 2 [] f = "pick" -> 3 [] f = "four" -> 4 [] OTHER -> 1,
     code |-> IF f = "nobody" THEN <<>> ELSE Compile(MCBodies[f])]]

By0 == Bin("div", N(1), N(0))

Nested ==
  << And(N(0), By0), And(N(2), N(3)), Or(N(2), Var("unset")), Or(N(0), Var("unset")),
     And(N(1), Const(Complex(1, 0))), Or(Const(Complex(1, 0)), N(1)),
     And(Or(N(0), N(3)), Bin("eq", By0, N(0))),
     If(Bin("gt", N(2), N(1)), Bin("plus", By0, Var("set")), Var("unset")),
     If(N(0), By0, If(N(1), Rand, By0)), If(Const(Complex(0, 0)), N(1), N(2)),
     CallOf("fact", <<N(3)>>), Bin("minus", CallOf("fact", <<N(2)>>), CallOf("fact", <<N(3)>>)),
     CallOf("diff", <<N(1), CallOf("diff", <<N(2), N(3)>>)>>),
     CallOf("diff", <<CallOf("diff", <<N(1), N(2)>>), CallOf("diff", <<Var("set"), N(3)>>)>>),
     CallOf("pick", <<N(0), By0, N(2)>>), CallOf("pick", <<And(N(1), N(0)), N(1), Un("lnot", N(0))>>),
     CallOf("four", <<N(1), N(2), N(3), Un("besj1", N(1))>>),
     CallOf("four", <<CallOf("four", <<N(1), N(2), N(3), N(1)>>), N(2), N(0), N(1)>>),
     Bin("plus", N(1), CallOf("nobody", <<N(1)>>)), Un("besy1", Un("besj0", N(0))) >>

Listed(S) == FoldSet(LAMBDA x, list : Append(list, x), <<>>, S)

MCExprs ==
  LET n == Len(Samples)
      unary == Listed(UnaryOps)
      binary == Listed(BinaryOps)
      Sample(i) == Const(Samples[(i % n) + 1])
  IN  [i \in 1 .. Len(unary) * n |-> Un(unary[(i - 1) \div n + 1], Sample(i))]
      \o [i \in 1 .. Len(binary) * n * n |->
            Bin(binary[(i - 1) \div (n * n) + 1], Sample(i \div n), Sample(i))]
      \o Nested

MCPrograms == [m \in 1 .. Len(MCExprs) |-> Compile(MCExprs[m])]
MCMeaning == [m \in 1 .. Len(MCExprs) |-> Eval(MCExprs[m], <<>>)]

(***************************************************************************)
(* A certificate of these programs                                         *)
(***************************************************************************)

Effect(ins) ==
  CASE ins.op \in PushOps -> 1 [] ins.op \in UnaryOps \cup {"jump"} -> 0
    [] ins.op = "call" -> 1 - PopsOf(ins.arg) [] OTHER -> -1

(* From one place to the next; behind a jump, from the jtern that leads    *)
(* there.                                                                  *)
HeightsOf(code) ==
  LET h[i \in 1 .. Len(code) + 1] ==
        IF i = 1 THEN 0
        ELSE IF code[i - 1].op # "jump" THEN h[i - 1] + Effect(code[i - 1])
        ELSE h[CHOOSE k \in 1 .. i - 1 : code[k].op = "jtern" /\ k + code[k].arg = i] - 1
  IN  h

MCProgramHeights == [m \in DOMAIN Programs |-> HeightsOf(Programs[m])]
MCFunctionHeights == [f \in DOMAIN Functions |-> HeightsOf(Functions[f].code)]

(* The functions that call no other, and the programs that call only them. *)
Leaves == {f \in DOMAIN Functions : Functions[f].defined /\ f # "fact"}
Shallow == {m \in DOMAIN Programs : \A i \in DOMAIN Programs[m] :
              Programs[m][i].op = "call" => Programs[m][i].arg \in Leaves \cup {"nobody"}}

MCNeed ==
  [f \in Leaves |->
    Max({MCFunctionHeights[f][i] + AboveTop(Functions[f].code[i]) :
           i \in DOMAIN Functions[f].code})]

(***************************************************************************)
(* A denotation of those that call no function that calls itself           *)
(***************************************************************************)

RECURSIVE PointsOf(_, _), RankOf(_), ReadsOf(_)

(* e with the arguments env, its parts, and the bodies it calls.           *)
PointsOf(e, env) ==
  {<<e, env>>} \cup UNION {PointsOf(x, env) : x \in Parts(e)}
    \cup IF e.k = "call" /\ Functions[e.f].defined
         THEN UNION {PointsOf(Bodies[e.f], o.value.list) :
                       o \in {q \in Eval(e.e, env) : q.error = ""}}
         ELSE {}

LevelOf(f) == IF f \in Leaves THEN RankOf(Bodies[f]) ELSE 0
RankOf(e) ==
  1 + Max({0} \cup {RankOf(x) : x \in Parts(e)} \cup (IF e.k = "call" THEN {LevelOf(e.f)} ELSE {}))

ReadsOf(e) ==
  (IF e.k = "arg" THEN {[f |-> e.f, i |-> e.i]} ELSE {}) \cup UNION {ReadsOf(x) : x \in Parts(e)}

MCDenotation ==
  LET points == UNION {PointsOf(Exprs[m], <<>>) : m \in Shallow}
      nodes == {pt[1] : pt \in points}
  IN  [points |-> points, mean |-> [pt \in points |-> Eval(pt[1], pt[2])],
       code |-> [e \in nodes |-> Compile(e)], rank |-> [e \in nodes |-> RankOf(e)],
       reads |-> [e \in nodes |-> ReadsOf(e)], level |-> [f \in DOMAIN Functions |-> LevelOf(f)]]

(* The theorems about certified programs are about these.                  *)
ASSUME CertifiedPrograms ==
  /\ Certificate(MCProgramHeights, MCFunctionHeights, Shallow, MCNeed)
  /\ TypedTables
  /\ Denotes(MCDenotation, Shallow)
=============================================================================
