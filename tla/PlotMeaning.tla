----------------------------- MODULE PlotMeaning -----------------------------
(***************************************************************************)
(* Program and meaning of every expression, by recursion over its parts.   *)
(***************************************************************************)
EXTENDS PlotExpr

RECURSIVE Compile(_)
Compile(e) == CodeOf(e, Compile)

RECURSIVE Eval(_, _)
Eval(e, env) == MeaningOf(e, env, Eval)
=============================================================================
