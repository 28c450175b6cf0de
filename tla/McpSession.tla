----------------------------- MODULE McpSession -----------------------------
(***************************************************************************)
(* tools/call as the server executes it (src/mcp/protocol.lisp,            *)
(* tools-session.lisp, tools.lisp): the session record the server keeps,   *)
(* the state of the Maxima kernel behind it, and the usage counters.       *)
(*                                                                         *)
(* The server keeps a number, mcp-session-assumption-count, in the place   *)
(* of the kernel's facts, and warns before a symbolic tool when the number *)
(* is zero.  The number moves with the assume, forget and reset tools      *)
(* only; the facts move with kill, evaluate and the death of the kernel as *)
(* well, and the two differ from the first redundant assume on.            *)
(*                                                                         *)
(* The kernel is the library loaded into the server, one persistent        *)
(* subprocess ("interactive"), or a fresh process per call: "batch", and   *)
(* "other" for any further value of MAXIMA_MCP_SUBPROCESS_MODE, which is   *)
(* evaluated like batch and not warned about like it.  Calls are served    *)
(* one at a time; each is one action.                                      *)
(***************************************************************************)
EXTENDS Integers, FiniteSets

CONSTANTS
  Name,     \* variables and functions a user may define
  Fact,     \* predicates a user may assume
  MaxCalls  \* bound: tool calls in a behaviour

ASSUME SessionAssumption == MaxCalls \in Nat

Mode == {"library", "interactive", "batch", "other"}
Stateless == {"batch", "other"}
Symbolic == {"integrate", "limit", "solve"}
Tool == Symbolic \cup {"evaluate", "assume", "forget", "assign", "clear",
                       "kill", "reset", "set_format", "define_function",
                       "package", "version", "constants", "query", "unknown"}
Counted == Symbolic \cup {"evaluate", "other"}

(* "isError" is a result whose isError is set; the others below it are     *)
(* JSON-RPC errors.                                                        *)
Outcome == {"ok", "isError",
            "invalidParams", "toolError", "notFound", "internal"}
Format == {"text", "latex", "mathml", "lisp"}

VARIABLES
  mode,      \* the backend, fixed when the server starts
  up,        \* FALSE once the interactive subprocess is dead
  bound,     \* kernel: names that have a value or a definition
  facts,     \* kernel: the facts of its contexts
  tracked,   \* session: names whose symbols are in its variables table
  count,     \* session: assumption-count
  format,    \* session: default-format
  total,     \* *tool-call-total*
  perTool,   \* *tool-call-counts*, the tools of no interest added up
  symbolic,  \* *symbolic-call-total*
  unassumed, \* *symbolic-calls-without-assumptions*
  warnings,  \* *symbolic-preflight-warnings*
  reply,     \* the last answer; asked is FALSE for a notification
  emitted,   \* history: warnings that reached the client
  assumed    \* history: an assume succeeded since start or the last reset

kernel   == <<mode, up, bound, facts>>
session  == <<tracked, count, format>>
counters == <<total, perTool, symbolic, unassumed, warnings>>
vars == <<kernel, session, counters, reply, emitted, assumed>>

Reply == [tool : Tool \cup {"none"}, outcome : Outcome,
          warned : BOOLEAN, asked : BOOLEAN]

TypeOK ==
  /\ mode \in Mode /\ up \in BOOLEAN
  /\ bound \in SUBSET Name /\ facts \in SUBSET Fact
  /\ tracked \in SUBSET Name /\ count \in Nat /\ format \in Format
  /\ total \in Nat /\ perTool \in [Counted -> Nat]
  /\ symbolic \in Nat /\ unassumed \in Nat /\ warnings \in Nat
  /\ reply \in Reply /\ emitted \in Nat /\ assumed \in BOOLEAN

Init ==
  /\ mode \in Mode /\ up = TRUE /\ bound = {} /\ facts = {}
  /\ tracked = {} /\ count = 0 /\ format = "text"
  /\ total = 0 /\ perTool = [t \in Counted |-> 0]
  /\ symbolic = 0 /\ unassumed = 0 /\ warnings = 0
  /\ reply = [tool |-> "none", outcome |-> "ok", warned |-> FALSE, asked |-> FALSE]
  /\ emitted = 0 /\ assumed = FALSE

(***************************************************************************)
(* Counting, warning, answering                                            *)
(***************************************************************************)
Class(t) == IF t \in Symbolic \cup {"evaluate"} THEN t ELSE "other"

(* A mutant: repeated tools are not counted.                               *)
Mut_RecordNew(t) ==
  /\ total' = total + 1
  /\ perTool' = [perTool EXCEPT ![Class(t)] = IF t = reply.tool THEN @ ELSE @ + 1]

(* record-tool-call                                                        *)
Record(t) ==
  /\ total' = total + 1
  /\ perTool' = [perTool EXCEPT ![Class(t)] = @ + 1]

(* The test of symbolic-preflight-warning.  It is made before the tool     *)
(* runs: below it always reads the count of the state before the call.     *)
Warns == mode = "batch" \/ count <= 0

(* symbolic-preflight-warning                                              *)
Preflight(t) ==
  LET n == IF Warns THEN 1 ELSE 0 IN
  IF t \in Symbolic
  THEN /\ symbolic' = symbolic + 1
       /\ unassumed' = unassumed + n /\ warnings' = warnings + n
  ELSE UNCHANGED <<symbolic, unassumed, warnings>>

(* The answer.  A warning is put into an ok result only, and a             *)
(* notification gets no answer at all.                                     *)
Answer(t, outcome) ==
  \E asked \in BOOLEAN :
    LET warned == asked /\ outcome = "ok" /\ t \in Symbolic /\ Warns IN
    /\ reply' = [tool |-> t, outcome |-> outcome, warned |-> warned, asked |-> asked]
    /\ emitted' = emitted + IF warned THEN 1 ELSE 0

(* handle-tools-call around the tool t.                                    *)
Call(t, outcome) ==
  /\ total < MaxCalls
  /\ Record(t) /\ Preflight(t) /\ Answer(t, outcome)
  /\ UNCHANGED mode

(***************************************************************************)
(* parse-and-eval: an evaluation that would leave the kernel with the      *)
(* names b and the facts f.  err is its second value.                      *)
(***************************************************************************)
Leaves(b, f) ==
  /\ bound' = IF mode \in Stateless THEN {} ELSE b
  /\ facts' = IF mode \in Stateless THEN {} ELSE f
  /\ UNCHANGED up

(* On the way from one set to another, each element by itself.             *)
Between(old, new) == {s \in SUBSET (old \cup new) : old \cap new \subseteq s}

Evaluates(b, f, err) ==
  \* it runs
  \/ up /\ ~ err /\ Leaves(b, f)
  \* it fails, with none or a part of its effects, or it runs and the
  \* subprocess's output contains "error" or "incorrect"
  \/ /\ up /\ err
     /\ \E b2 \in Between(bound, b), f2 \in Between(facts, f) : Leaves(b2, f2)
  \* the subprocess dies under it and the text read so far is the result
  \/ /\ up /\ ~ err /\ mode = "interactive"
     /\ up' = FALSE /\ bound' = {} /\ facts' = {}
  \* the subprocess is dead: the write fails, and it is never started again
  \/ ~ up /\ err /\ UNCHANGED <<up, bound, facts>>

Result(err) == IF err THEN "isError" ELSE "ok"

(***************************************************************************)
(* Calls that reach no tool, or that a tool refuses                        *)
(***************************************************************************)

(* No name: refused before anything is counted; without a params object    *)
(* json-object-get signals an error.                                       *)
NoToolName ==
  /\ total < MaxCalls
  /\ \E o \in {"invalidParams", "internal"} : Answer("unknown", o)
  /\ UNCHANGED <<kernel, session, counters, assumed>>

(* A name that is a number or an object is counted, and then string= in    *)
(* symbolic-preflight-warning signals a type error.                        *)
NameNotString ==
  /\ Call("unknown", "internal")
  /\ UNCHANGED <<up, bound, facts, session, assumed>>

UnknownTool ==
  /\ Call("unknown", "notFound")
  /\ UNCHANGED <<up, bound, facts, session, assumed>>

(* A required argument is missing, or an optional format is no string.     *)
BadArgument(t) ==
  /\ t # "unknown"
  /\ \/ t # "reset" /\ Call(t, "invalidParams")
     \/ Call(t, "toolError")
  /\ UNCHANGED <<up, bound, facts, session, assumed>>

(***************************************************************************)
(* The tools of tools-session.lisp                                         *)
(***************************************************************************)

(* A mutant: the count moves before the error is looked at.                *)
Mut_AssumeCountsFirst(p) ==
  \E err \in BOOLEAN, f \in {facts, facts \cup {p}} :
    /\ Evaluates(bound, f, err)
    /\ Call("assume", Result(err))
    /\ count' = count + 1
    /\ assumed' = (assumed \/ ~ err)
    /\ UNCHANGED <<tracked, format>>

(* assume answers ok for a redundant or an inconsistent predicate too, and *)
(* the count moves in every case.                                          *)
Assume(p) ==
  \E err \in BOOLEAN, f \in {facts, facts \cup {p}} :
    /\ Evaluates(bound, f, err)
    /\ Call("assume", Result(err))
    /\ count' = IF err THEN count ELSE count + 1
    /\ assumed' = (assumed \/ ~ err)
    /\ UNCHANGED <<tracked, format>>

(* A mutant: the count may fall below zero.                                *)
Mut_ForgetBelowZero(p) ==
  \E err \in BOOLEAN :
    /\ Evaluates(bound, facts \ {p}, err)
    /\ Call("forget", Result(err))
    /\ count' = IF err THEN count ELSE count - 1
    /\ UNCHANGED <<tracked, format, assumed>>

(* forget answers ok for a predicate that was never assumed.               *)
Forget(p) ==
  \E err \in BOOLEAN :
    /\ Evaluates(bound, facts \ {p}, err)
    /\ Call("forget", Result(err))
    /\ count' = IF err \/ count = 0 THEN count ELSE count - 1
    /\ UNCHANGED <<tracked, format, assumed>>

(* assign evaluates first and tracks the symbol then.  With a subprocess   *)
(* there is no package maxima to intern the symbol in, and the call fails  *)
(* after the kernel has made the assignment.                               *)
Assign(x) ==
  \E err \in BOOLEAN :
    /\ Evaluates(bound \cup {x}, facts, err)
    /\ Call("assign", IF ~ err /\ mode # "library" THEN "toolError" ELSE Result(err))
    /\ tracked' = IF err \/ mode # "library" THEN tracked ELSE tracked \cup {x}
    /\ UNCHANGED <<count, format, assumed>>

(* clear kills names and leaves the session's table alone.                 *)
Clear(xs) ==
  \E err \in BOOLEAN :
    /\ Evaluates(bound \ xs, facts, err)
    /\ Call("clear", Result(err))
    /\ UNCHANGED <<session, assumed>>

(* kill may be given "all", which drops the facts as well; the session     *)
(* hears of neither.                                                       *)
Kill ==
  \E err \in BOOLEAN, all \in BOOLEAN, xs \in SUBSET Name :
    /\ IF all THEN Evaluates({}, {}, err) ELSE Evaluates(bound \ xs, facts, err)
    /\ Call("kill", Result(err))
    /\ UNCHANGED <<session, assumed>>

(* A mutant: the count outlives the reset.                                 *)
Mut_ResetKeepsCount ==
  \E err \in BOOLEAN :
    /\ Evaluates(bound, facts, err)
    /\ Call("reset", Result(err))
    /\ tracked' = IF err THEN tracked ELSE {}
    /\ assumed' = (assumed /\ err)
    /\ UNCHANGED <<count, format>>

(* reset evaluates Maxima's reset(), which restores option variables and   *)
(* keeps values, functions and facts, and clears the session's record.     *)
Reset ==
  \E err \in BOOLEAN :
    /\ Evaluates(bound, facts, err)
    /\ Call("reset", Result(err))
    /\ tracked' = IF err THEN tracked ELSE {}
    /\ count' = IF err THEN count ELSE 0
    /\ assumed' = (assumed /\ err)
    /\ UNCHANGED format

(* set_format: an unknown format has become text before it is validated.   *)
SetFormat(f) ==
  /\ Call("set_format", "ok")
  /\ format' = IF f \in Format THEN f ELSE "text"
  /\ UNCHANGED <<up, bound, facts, tracked, count, assumed>>

(***************************************************************************)
(* The other tools                                                         *)
(***************************************************************************)

(* evaluate may do anything to the kernel.                                 *)
Evaluate ==
  \E err \in BOOLEAN, b \in SUBSET Name, f \in SUBSET Fact :
    /\ Evaluates(b, f, err)
    /\ Call("evaluate", Result(err))
    /\ UNCHANGED <<session, assumed>>

(* define_function gives a name a definition and tells the session nothing.*)
DefineFunction(x) ==
  \E err \in BOOLEAN :
    /\ Evaluates(bound \cup {x}, facts, err)
    /\ Call("define_function", Result(err))
    /\ UNCHANGED <<session, assumed>>

(* The tools of a share package (vect, fourie, draw, solve_rec, ...) first  *)
(* load it with an evaluation of its own: if that fails the call ends with *)
(* an internal error, if the subprocess dies under it the load counts as   *)
(* done and the second evaluation fails.                                   *)
WithPackage ==
  /\ \/ Evaluates(bound, facts, TRUE) /\ Call("package", "internal")
     \/ \E err \in BOOLEAN :
          Evaluates(bound, facts, err) /\ Call("package", Result(err))
     \/ /\ mode = "interactive" /\ up
        /\ up' = FALSE /\ bound' = {} /\ facts' = {}
        /\ Call("package", "isError")
  /\ UNCHANGED <<session, assumed>>

(* version answers ok whatever became of its evaluation; constants and     *)
(* capabilities evaluate nothing.                                          *)
Version ==
  /\ \E err \in BOOLEAN : Evaluates(bound, facts, err)
  /\ Call("version", "ok")
  /\ UNCHANGED <<session, assumed>>

Constants ==
  /\ Call("constants", "ok")
  /\ UNCHANGED <<up, bound, facts, session, assumed>>

(* integrate, limit and solve put their arguments, taken to be free of     *)
(* assignments, into one expression and evaluate it ...                    *)
Compute(t) ==
  \E err \in BOOLEAN :
    /\ Evaluates(bound, facts, err)
    /\ Call(t, Result(err))
    /\ UNCHANGED <<session, assumed>>

(* ... and so do the hundred-odd tools the server has no special word for. *)
Query == Compute("query")

(* The interactive subprocess dies between two calls.                      *)
KernelDies ==
  /\ mode = "interactive" /\ up
  /\ up' = FALSE /\ bound' = {} /\ facts' = {}
  /\ UNCHANGED <<mode, session, counters, reply, emitted, assumed>>

Next ==
  \/ NoToolName \/ NameNotString \/ UnknownTool
  \/ \E t \in Tool : BadArgument(t)
  \/ \E p \in Fact : Assume(p) \/ Forget(p)
  \/ \E x \in Name : Assign(x) \/ DefineFunction(x)
  \/ \E xs \in SUBSET Name : Clear(xs)
  \/ Kill \/ Reset \/ Evaluate \/ KernelDies
  \/ WithPackage \/ Version \/ Constants \/ Query
  \/ \E f \in Format \cup {"other"} : SetFormat(f)
  \/ \E t \in Symbolic : Compute(t)

Spec == Init /\ [][Next]_vars

(***************************************************************************)
(* Properties                                                              *)
(***************************************************************************)

(* The numbers tool_usage_stats reports fit together: the per-tool counts  *)
(* add up to the total, whatever became of the calls; the symbolic total   *)
(* is that of the three tools; no percentage exceeds a hundred; and no     *)
(* more warnings reach the client than are counted (protocol.lisp:216-257).*)
StatsAddUp ==
  /\ total = perTool["integrate"] + perTool["limit"] + perTool["solve"]
             + perTool["evaluate"] + perTool["other"]
  /\ symbolic = perTool["integrate"] + perTool["limit"] + perTool["solve"]
  /\ unassumed <= symbolic /\ warnings = unassumed /\ emitted <= warnings

(* A symbolic tool that answers without the warning runs in a session in   *)
(* which an assume succeeded since the last reset, and not in batch mode,  *)
(* where assumptions do not survive their call (README.md:416 and 447).    *)
(* Of the kernel's facts it says nothing: kill, forget and evaluate change *)
(* them behind the count, and in a mode that is neither of the two the     *)
(* README names ("other") they do not survive either.                      *)
NoWarningMeansAssumed ==
  reply.tool \in Symbolic /\ reply.outcome = "ok" /\ reply.asked /\ ~ reply.warned
    => assumed /\ mode # "batch"

(* A call that fails in any way leaves the session's record as it was:     *)
(* no half-made change of the count, the table or the format.  The kernel  *)
(* may have changed.                                                       *)
FailureKeepsSession == [][ reply'.outcome # "ok" => UNCHANGED session ]_vars

(* What the reset tool promises: "Reset the Maxima session to its initial  *)
(* state, clearing all variables, functions, and assumptions."             *)
ResetClears ==
  [][ total' # total /\ reply'.tool = "reset" /\ reply'.outcome = "ok" =>
        bound' = {} /\ facts' = {} ]_vars
=============================================================================
