-------------------------- MODULE McpSessionProofs --------------------------
(***************************************************************************)
(* Proofs about McpSession for every set of names and facts, every bound   *)
(* on the number of calls, and each of the three backends.                 *)
(***************************************************************************)
EXTENDS McpSession, TLAPS

(* Why a symbolic tool may skip its warning: the count it reads is         *)
(* positive only if some assume succeeded since the last reset, and the    *)
(* reply that lacks the warning was given under such a count.              *)
CountMeansAssumed == count > 0 => assumed

IInv == TypeOK /\ StatsAddUp /\ CountMeansAssumed /\ NoWarningMeansAssumed

(***************************************************************************)
(* The parts every tools/call shares                                       *)
(***************************************************************************)

(* The class a call is counted under is one of the counted classes, and a  *)
(* symbolic tool is counted under its own name.                            *)
LEMMA ClassCounted ==
  ASSUME NEW t \in Tool
  PROVE  /\ Class(t) \in Counted
         /\ t \in Symbolic => Class(t) = t
         /\ t \notin Symbolic => Class(t) \in {"evaluate", "other"}
BY DEF Class, Counted, Tool, Symbolic

(* The end of a call: whatever the tool did, its answer leaves the         *)
(* statistics consistent.                                                  *)
LEMMA CallCounts ==
  ASSUME TypeOK, StatsAddUp, NEW t \in Tool, NEW o \in Outcome, Call(t, o)
  PROVE  /\ StatsAddUp'
         /\ total' \in Nat /\ perTool' \in [Counted -> Nat]
         /\ symbolic' \in Nat /\ unassumed' \in Nat /\ warnings' \in Nat
         /\ emitted' \in Nat /\ reply' \in Reply /\ mode' = mode
<1> DEFINE c == Class(t)
<1>1. /\ c \in Counted
      /\ t \in Symbolic => c = t
      /\ t \notin Symbolic => c \in {"evaluate", "other"}
  BY ClassCounted
<1>2. /\ total \in Nat /\ perTool \in [Counted -> Nat]
      /\ symbolic \in Nat /\ unassumed \in Nat /\ warnings \in Nat /\ emitted \in Nat
  BY DEF TypeOK
<1>3. /\ total' = total + 1
      /\ perTool' = [perTool EXCEPT ![c] = @ + 1]
  BY DEF Call, Record
<1> HIDE DEF c
<1>4. /\ total' \in Nat /\ perTool' \in [Counted -> Nat]
      /\ \A k \in Counted : perTool'[k] = IF k = c THEN perTool[k] + 1 ELSE perTool[k]
  BY <1>1, <1>2, <1>3
<1>5. PICK asked \in BOOLEAN :
        /\ reply' = [tool |-> t, outcome |-> o,
                     warned |-> asked /\ o = "ok" /\ t \in Symbolic /\ Warns,
                     asked |-> asked]
        /\ emitted' = emitted + IF asked /\ o = "ok" /\ t \in Symbolic /\ Warns
                                THEN 1 ELSE 0
  BY DEF Call, Answer
<1>6. reply' \in Reply
  BY <1>5, Zenon DEF Reply
<1>7. CASE t \in Symbolic
  <2>1. PICK n \in {0, 1} :
          /\ n = IF Warns THEN 1 ELSE 0
          /\ symbolic' = symbolic + 1
          /\ unassumed' = unassumed + n /\ warnings' = warnings + n
    BY <1>7 DEF Call, Preflight
  <2>2. emitted' = emitted \/ (emitted' = emitted + 1 /\ n = 1)
    BY <1>2, <1>5, <2>1
  <2>3. perTool'["integrate"] + perTool'["limit"] + perTool'["solve"]
          = perTool["integrate"] + perTool["limit"] + perTool["solve"] + 1
        /\ perTool'["evaluate"] = perTool["evaluate"]
        /\ perTool'["other"] = perTool["other"]
    BY <1>1, <1>2, <1>4, <1>7 DEF Counted, Symbolic
  <2>4. symbolic' \in Nat /\ unassumed' \in Nat /\ warnings' \in Nat /\ emitted' \in Nat
    BY <1>2, <2>1, <2>2
  <2>5. StatsAddUp'
    BY <1>2, <1>3, <1>4, <2>1, <2>2, <2>3 DEF StatsAddUp, Counted, Symbolic
  <2> QED BY <1>4, <1>6, <2>4, <2>5 DEF Call
<1>8. CASE t \notin Symbolic
  <2>1. UNCHANGED <<symbolic, unassumed, warnings>>
    BY <1>8 DEF Call, Preflight
  <2>2. emitted' = emitted
    BY <1>2, <1>5, <1>8
  <2>3. /\ perTool'["integrate"] = perTool["integrate"]
        /\ perTool'["limit"] = perTool["limit"]
        /\ perTool'["solve"] = perTool["solve"]
        /\ perTool'["evaluate"] + perTool'["other"]
             = perTool["evaluate"] + perTool["other"] + 1
    BY <1>1, <1>2, <1>4, <1>8 DEF Counted, Symbolic
  <2>4. StatsAddUp'
    BY <1>2, <1>3, <1>4, <2>1, <2>2, <2>3 DEF StatsAddUp, Counted, Symbolic
  <2> QED BY <1>2, <1>4, <1>6, <2>1, <2>2, <2>4 DEF Call
<1> QED BY <1>7, <1>8

(* A call answered without the warning was made in a session that had      *)
(* assumed something, if the tool itself did not forget the session.       *)
LEMMA CallWarns ==
  ASSUME TypeOK, CountMeansAssumed, NEW t \in Tool, NEW o \in Outcome, Call(t, o),
         t \in Symbolic => (assumed => assumed')
  PROVE  NoWarningMeansAssumed'
<1>1. PICK asked \in BOOLEAN :
        reply' = [tool |-> t, outcome |-> o,
                  warned |-> asked /\ o = "ok" /\ t \in Symbolic /\ Warns,
                  asked |-> asked]
  BY DEF Call, Answer
<1>2. mode' = mode /\ count \in Nat
  BY DEF Call, TypeOK
<1>3. reply'.tool = t /\ reply'.outcome = o /\ reply'.asked = asked
  BY <1>1
<1>4. reply'.warned = (asked /\ o = "ok" /\ t \in Symbolic /\ Warns)
  BY <1>1
<1>5. SUFFICES ASSUME t \in Symbolic, o = "ok", asked, ~ reply'.warned
              PROVE  assumed' /\ mode' # "batch"
  BY <1>3, Zenon DEF NoWarningMeansAssumed
<1>6. ~ Warns
  BY <1>4, <1>5, Zenon
<1>7. mode # "batch" /\ count > 0
  BY <1>2, <1>6 DEF Warns
<1> QED BY <1>2, <1>5, <1>7 DEF CountMeansAssumed

(* An evaluation leaves the kernel's state well typed.                     *)
LEMMA EvaluatesTypes ==
  ASSUME TypeOK, NEW b \in SUBSET Name, NEW f \in SUBSET Fact, NEW err \in BOOLEAN,
         Evaluates(b, f, err)
  PROVE  up' \in BOOLEAN /\ bound' \in SUBSET Name /\ facts' \in SUBSET Fact
BY DEF Evaluates, Leaves, Between, TypeOK

(* The second value of parse-and-eval becomes a legal outcome.             *)
LEMMA ResultOutcome == ASSUME NEW err \in BOOLEAN PROVE Result(err) \in Outcome
BY DEF Result, Outcome

(***************************************************************************)
(* The induction                                                           *)
(***************************************************************************)

(* Every tools/call that reaches record-tool-call preserves the inductive  *)
(* invariant, given what the tool did to the kernel and to the session.    *)
LEMMA CallStep ==
  ASSUME IInv, NEW t \in Tool, NEW o \in Outcome, Call(t, o),
         up' \in BOOLEAN, bound' \in SUBSET Name, facts' \in SUBSET Fact,
         tracked' \in SUBSET Name, count' \in Nat, format' \in Format,
         assumed' \in BOOLEAN, CountMeansAssumed',
         t \in Symbolic => (assumed => assumed')
  PROVE  IInv'
<1>1. /\ StatsAddUp'
      /\ total' \in Nat /\ perTool' \in [Counted -> Nat]
      /\ symbolic' \in Nat /\ unassumed' \in Nat /\ warnings' \in Nat
      /\ emitted' \in Nat /\ reply' \in Reply /\ mode' = mode
  BY CallCounts DEF IInv
<1>2. NoWarningMeansAssumed'
  BY CallWarns DEF IInv
<1>3. TypeOK'
  BY <1>1 DEF IInv, TypeOK
<1> QED BY <1>1, <1>2, <1>3 DEF IInv

(* A call that touches neither the kernel nor the session.                 *)
LEMMA IdleStep ==
  ASSUME IInv, NEW t \in Tool, NEW o \in Outcome, Call(t, o),
         UNCHANGED <<up, bound, facts, session, assumed>>
  PROVE  IInv'
<1>1. /\ up' \in BOOLEAN /\ bound' \in SUBSET Name /\ facts' \in SUBSET Fact
      /\ tracked' \in SUBSET Name /\ count' \in Nat /\ format' \in Format
      /\ assumed' \in BOOLEAN /\ assumed' = assumed
  BY DEF IInv, TypeOK, session
<1>2. CountMeansAssumed'
  BY DEF IInv, CountMeansAssumed, session
<1> QED BY <1>1, <1>2, CallStep

(* A call that may change the kernel in any way, and not the session.      *)
LEMMA KernelStep ==
  ASSUME IInv, NEW t \in Tool, NEW o \in Outcome, Call(t, o),
         up' \in BOOLEAN, bound' \in SUBSET Name, facts' \in SUBSET Fact,
         UNCHANGED <<session, assumed>>
  PROVE  IInv'
<1>1. /\ tracked' \in SUBSET Name /\ count' \in Nat /\ format' \in Format
      /\ assumed' \in BOOLEAN /\ assumed' = assumed
  BY DEF IInv, TypeOK, session
<1>2. CountMeansAssumed'
  BY DEF IInv, CountMeansAssumed, session
<1> QED BY <1>1, <1>2, CallStep

(* A tool that only evaluates, whatever it does to the kernel.             *)
LEMMA EvaluateStep ==
  ASSUME IInv, NEW t \in Tool, NEW b \in SUBSET Name, NEW f \in SUBSET Fact,
         NEW err \in BOOLEAN, Evaluates(b, f, err), NEW o \in Outcome, Call(t, o),
         UNCHANGED <<session, assumed>>
  PROVE  IInv'
<1>1. up' \in BOOLEAN /\ bound' \in SUBSET Name /\ facts' \in SUBSET Fact
  BY EvaluatesTypes DEF IInv
<1> QED BY <1>1, KernelStep

(* The invariant holds when the server starts.                             *)
LEMMA InitIInv == Init => IInv
<1> SUFFICES ASSUME Init PROVE IInv
  OBVIOUS
<1>1. /\ mode \in Mode /\ up \in BOOLEAN /\ bound \in SUBSET Name
      /\ facts \in SUBSET Fact /\ tracked \in SUBSET Name /\ assumed \in BOOLEAN
      /\ format \in Format
  BY DEF Init, Format
<1>2. /\ count \in Nat /\ total \in Nat /\ perTool \in [Counted -> Nat]
      /\ symbolic \in Nat /\ unassumed \in Nat /\ warnings \in Nat /\ emitted \in Nat
  BY DEF Init
<1>3. reply \in Reply /\ reply.tool = "none"
  BY DEF Init, Reply, Outcome
<1>4. StatsAddUp
  BY DEF Init, StatsAddUp, Counted, Symbolic
<1>5. CountMeansAssumed
  BY DEF Init, CountMeansAssumed
<1>6. NoWarningMeansAssumed
  BY <1>3 DEF NoWarningMeansAssumed, Symbolic
<1> QED BY <1>1, <1>2, <1>3, <1>4, <1>5, <1>6 DEF IInv, TypeOK

(* Every step preserves the invariant.                                     *)
LEMMA NextIInv == IInv /\ [Next]_vars => IInv'
<1> SUFFICES ASSUME IInv, [Next]_vars PROVE IInv'
  OBVIOUS
<1>0. /\ tracked \in SUBSET Name /\ count \in Nat /\ format \in Format
      /\ bound \in SUBSET Name /\ facts \in SUBSET Fact /\ assumed \in BOOLEAN
      /\ CountMeansAssumed
  BY DEF IInv, TypeOK
<1>1. CASE UNCHANGED vars
  BY <1>1 DEF IInv, TypeOK, StatsAddUp, CountMeansAssumed, NoWarningMeansAssumed,
              vars, kernel, session, counters
<1>2. CASE NoToolName
  <2>1. PICK o \in {"invalidParams", "internal"} : Answer("unknown", o)
    BY <1>2 DEF NoToolName
  <2>2. reply' \in Reply /\ reply'.tool = "unknown" /\ emitted' = emitted
    <3>1. "unknown" \notin Symbolic /\ "unknown" \in Tool /\ o \in Outcome
      BY DEF Symbolic, Tool, Outcome
    <3>2. PICK asked \in BOOLEAN :
            /\ reply' = [tool |-> "unknown", outcome |-> o,
                         warned |-> asked /\ o = "ok" /\ "unknown" \in Symbolic /\ Warns,
                         asked |-> asked]
            /\ emitted' = emitted
                  + IF asked /\ o = "ok" /\ "unknown" \in Symbolic /\ Warns THEN 1 ELSE 0
      BY <2>1 DEF Answer
    <3>3. emitted' = emitted
      BY <3>1, <3>2 DEF IInv, TypeOK
    <3>4. reply' \in Reply /\ reply'.tool = "unknown"
      BY <3>1, <3>2, Zenon DEF Reply
    <3> QED BY <3>3, <3>4
  <2>3. UNCHANGED <<kernel, session, counters, assumed>>
    BY <1>2 DEF NoToolName
  <2>4. TypeOK'
    BY <2>2, <2>3 DEF IInv, TypeOK, kernel, session, counters
  <2>5. StatsAddUp' /\ CountMeansAssumed'
    BY <2>2, <2>3 DEF IInv, StatsAddUp, CountMeansAssumed, session, counters
  <2>6. NoWarningMeansAssumed'
    BY <2>2 DEF NoWarningMeansAssumed, Symbolic
  <2> QED BY <2>4, <2>5, <2>6 DEF IInv
<1>3. CASE NameNotString
  BY <1>3, IdleStep DEF NameNotString, Tool, Outcome
<1>4. CASE UnknownTool
  BY <1>4, IdleStep DEF UnknownTool, Tool, Outcome
<1>5. ASSUME NEW t \in Tool, BadArgument(t) PROVE IInv'
  BY <1>5, IdleStep DEF BadArgument, Outcome
<1>6. ASSUME NEW p \in Fact, Assume(p) PROVE IInv'
  <2>1. PICK err \in BOOLEAN, f \in {facts, facts \cup {p}} :
          /\ Evaluates(bound, f, err)
          /\ Call("assume", Result(err))
          /\ count' = IF err THEN count ELSE count + 1
          /\ assumed' = (assumed \/ ~ err)
          /\ UNCHANGED <<tracked, format>>
    BY <1>6 DEF Assume
  <2>2. f \in SUBSET Fact /\ "assume" \in Tool /\ "assume" \notin Symbolic
    BY <1>0 DEF Tool, Symbolic
  <2>3. up' \in BOOLEAN /\ bound' \in SUBSET Name /\ facts' \in SUBSET Fact
    BY <1>0, <2>1, <2>2, EvaluatesTypes DEF IInv
  <2>4. assumed' \in BOOLEAN
    <3>1. assumed' = (assumed \/ ~ err)
      BY <2>1
    <3>2. (assumed \/ ~ err) \in BOOLEAN
      OBVIOUS
    <3> QED BY <3>1, <3>2, Zenon
  <2>5. count' \in Nat /\ CountMeansAssumed'
    <3>1. CASE err BY <1>0, <2>1, <3>1 DEF CountMeansAssumed
    <3>2. CASE ~ err
      <4>1. assumed'
        BY <2>1, <3>2, Zenon
      <4>2. count' = count + 1
        BY <2>1, <3>2
      <4> QED BY <1>0, <4>1, <4>2 DEF CountMeansAssumed
    <3> QED BY <3>1, <3>2
  <2> QED BY <1>0, <2>1, <2>2, <2>3, <2>4, <2>5, CallStep, ResultOutcome
<1>7. ASSUME NEW p \in Fact, Forget(p) PROVE IInv'
  <2>1. PICK err \in BOOLEAN :
          /\ Evaluates(bound, facts \ {p}, err)
          /\ Call("forget", Result(err))
          /\ count' = IF err \/ count = 0 THEN count ELSE count - 1
          /\ UNCHANGED <<tracked, format, assumed>>
    BY <1>7 DEF Forget
  <2>2. "forget" \in Tool /\ facts \ {p} \in SUBSET Fact
    BY <1>0 DEF Tool
  <2>3. up' \in BOOLEAN /\ bound' \in SUBSET Name /\ facts' \in SUBSET Fact
    BY <1>0, <2>1, <2>2, EvaluatesTypes DEF IInv
  <2>4. count' \in Nat /\ CountMeansAssumed'
    BY <1>0, <2>1 DEF CountMeansAssumed
  <2> QED BY <1>0, <2>1, <2>2, <2>3, <2>4, CallStep, ResultOutcome
<1>8. ASSUME NEW x \in Name, Assign(x) PROVE IInv'
  <2>1. PICK err \in BOOLEAN :
          /\ Evaluates(bound \cup {x}, facts, err)
          /\ Call("assign", IF ~ err /\ mode # "library" THEN "toolError" ELSE Result(err))
          /\ tracked' = IF err \/ mode # "library" THEN tracked ELSE tracked \cup {x}
          /\ UNCHANGED <<count, format, assumed>>
    BY <1>8 DEF Assign
  <2> DEFINE o == IF ~ err /\ mode # "library" THEN "toolError" ELSE Result(err)
  <2>2. "assign" \in Tool /\ bound \cup {x} \in SUBSET Name /\ o \in Outcome
    BY <1>0, ResultOutcome DEF Tool, Outcome
  <2>3. up' \in BOOLEAN /\ bound' \in SUBSET Name /\ facts' \in SUBSET Fact
    BY <1>0, <2>1, <2>2, EvaluatesTypes DEF IInv
  <2>4. tracked' \in SUBSET Name
    BY <1>0, <2>1
  <2>5. CountMeansAssumed'
    BY <1>0, <2>1 DEF CountMeansAssumed
  <2> QED BY <1>0, <2>1, <2>2, <2>3, <2>4, <2>5, CallStep
<1>9. ASSUME NEW xs \in SUBSET Name, Clear(xs) PROVE IInv'
  BY <1>0, <1>9, EvaluateStep, ResultOutcome DEF Clear, Tool
<1>10. CASE Kill
  <2>1. PICK err \in BOOLEAN, all \in BOOLEAN, xs \in SUBSET Name :
          /\ IF all THEN Evaluates({}, {}, err) ELSE Evaluates(bound \ xs, facts, err)
          /\ Call("kill", Result(err))
          /\ UNCHANGED <<session, assumed>>
    BY <1>10 DEF Kill
  <2>2. "kill" \in Tool /\ {} \in SUBSET Name /\ {} \in SUBSET Fact /\ bound \ xs \in SUBSET Name
    BY <1>0 DEF Tool
  <2>3. Evaluates({}, {}, err) \/ Evaluates(bound \ xs, facts, err)
    BY <2>1
  <2> QED BY <1>0, <2>1, <2>2, <2>3, EvaluateStep, ResultOutcome
<1>11. CASE Reset
  <2>1. PICK err \in BOOLEAN :
          /\ Evaluates(bound, facts, err)
          /\ Call("reset", Result(err))
          /\ tracked' = IF err THEN tracked ELSE {}
          /\ count' = IF err THEN count ELSE 0
          /\ assumed' = (assumed /\ err)
          /\ UNCHANGED format
    BY <1>11 DEF Reset
  <2>2. "reset" \in Tool /\ "reset" \notin Symbolic
    BY DEF Tool, Symbolic
  <2>3. up' \in BOOLEAN /\ bound' \in SUBSET Name /\ facts' \in SUBSET Fact
    BY <1>0, <2>1, EvaluatesTypes DEF IInv
  <2>4. tracked' \in SUBSET Name /\ assumed' \in BOOLEAN
    BY <1>0, <2>1
  <2>5. count' \in Nat /\ CountMeansAssumed'
    <3>1. CASE err BY <1>0, <2>1, <3>1 DEF CountMeansAssumed
    <3>2. CASE ~ err BY <1>0, <2>1, <3>2 DEF CountMeansAssumed
    <3> QED BY <3>1, <3>2
  <2> QED BY <1>0, <2>1, <2>2, <2>3, <2>4, <2>5, CallStep, ResultOutcome
<1>12. CASE Evaluate
  BY <1>12, EvaluateStep, ResultOutcome DEF Evaluate, Tool
<1>13. ASSUME NEW t \in Symbolic, Compute(t) PROVE IInv'
  BY <1>0, <1>13, EvaluateStep, ResultOutcome DEF Compute, Tool
<1>14. ASSUME NEW f \in Format \cup {"other"}, SetFormat(f) PROVE IInv'
  <2>1. "set_format" \in Tool /\ "ok" \in Outcome /\ "text" \in Format
    BY DEF Tool, Outcome, Format
  <2>2. /\ format' \in Format /\ Call("set_format", "ok")
        /\ UNCHANGED <<up, bound, facts, tracked, count, assumed>>
    BY <1>14, <2>1 DEF SetFormat
  <2>3. CountMeansAssumed' /\ up' \in BOOLEAN
    BY <1>0, <2>2 DEF CountMeansAssumed, IInv, TypeOK
  <2> QED BY <1>0, <2>1, <2>2, <2>3, CallStep
<1>15. CASE KernelDies
  BY <1>15 DEF KernelDies, IInv, TypeOK, StatsAddUp, CountMeansAssumed,
               NoWarningMeansAssumed, session, counters
<1>16. ASSUME NEW x \in Name, DefineFunction(x) PROVE IInv'
  <2>1. bound \cup {x} \in SUBSET Name /\ "define_function" \in Tool
    BY <1>0 DEF Tool
  <2> QED BY <1>0, <1>16, <2>1, EvaluateStep, ResultOutcome DEF DefineFunction
<1>17. CASE WithPackage
  <2>1. "package" \in Tool /\ {"internal", "isError"} \subseteq Outcome
    BY DEF Tool, Outcome
  <2>2. UNCHANGED <<session, assumed>>
    BY <1>17 DEF WithPackage
  <2>3. CASE Evaluates(bound, facts, TRUE) /\ Call("package", "internal")
    BY <1>0, <2>1, <2>2, <2>3, EvaluateStep
  <2>4. ASSUME NEW err \in BOOLEAN, Evaluates(bound, facts, err), Call("package", Result(err))
        PROVE  IInv'
    BY <1>0, <2>1, <2>2, <2>4, EvaluateStep, ResultOutcome
  <2>5. CASE up' = FALSE /\ bound' = {} /\ facts' = {} /\ Call("package", "isError")
    BY <2>1, <2>2, <2>5, KernelStep
  <2> QED BY <1>17, <2>3, <2>4, <2>5 DEF WithPackage
<1>18. CASE Version
  <2>1. "version" \in Tool /\ "ok" \in Outcome
    BY DEF Tool, Outcome
  <2> QED BY <1>0, <1>18, <2>1, EvaluateStep DEF Version
<1>19. CASE Constants
  BY <1>19, IdleStep DEF Constants, Tool, Outcome
<1>20. CASE Query
  BY <1>0, <1>20, EvaluateStep, ResultOutcome DEF Query, Compute, Tool
<1> QED
  BY <1>1, <1>2, <1>3, <1>4, <1>5, <1>6, <1>7, <1>8, <1>9, <1>10, <1>11, <1>12,
     <1>13, <1>14, <1>15, <1>16, <1>17, <1>18, <1>19, <1>20 DEF Next

(* The inductive invariant holds in every reachable state.                 *)
THEOREM Inductive == Spec => []IInv
BY InitIInv, NextIInv, PTL DEF Spec

(* The session, the kernel and the counters keep their types.              *)
THEOREM TypeCorrect == Spec => []TypeOK
BY Inductive, PTL DEF IInv

(* tool_usage_stats is consistent after any sequence of calls.             *)
THEOREM StatsAreConsistent == Spec => []StatsAddUp
BY Inductive, PTL DEF IInv

(* The preflight warning is never missing where an assumption is: without  *)
(* it, an assume succeeded since the last reset and was not lost to batch  *)
(* mode.                                                                   *)
THEOREM SilenceMeansAssumed == Spec => []NoWarningMeansAssumed
BY Inductive, PTL DEF IInv
(***************************************************************************)
(* Failed calls                                                            *)
(***************************************************************************)

(* A call that changes the session is an ok one.                           *)
Honest == reply'.outcome # "ok" => UNCHANGED session

(* The outcome in the reply is the one the tool ended with.                *)
LEMMA ReplyOutcome ==
  ASSUME NEW t, NEW o, Answer(t, o)
  PROVE  reply'.outcome = o
BY DEF Answer

(* A tool that leaves the session whenever its outcome is not ok.          *)
LEMMA OkOrUnchanged ==
  ASSUME NEW t, NEW o, Call(t, o), o # "ok" => UNCHANGED session
  PROVE  Honest
BY ReplyOutcome DEF Call, Honest

LEMMA EveryStepHonest ==
  ASSUME Next
  PROVE  Honest
<1>1. ASSUME NEW p, Assume(p) PROVE Honest
  <2>1. PICK err \in BOOLEAN :
          /\ Call("assume", Result(err))
          /\ count' = IF err THEN count ELSE count + 1
          /\ UNCHANGED <<tracked, format>>
    BY <1>1 DEF Assume
  <2> QED BY <2>1, OkOrUnchanged DEF Result, session
<1>2. ASSUME NEW p, Forget(p) PROVE Honest
  <2>1. PICK err \in BOOLEAN :
          /\ Call("forget", Result(err))
          /\ count' = IF err \/ count = 0 THEN count ELSE count - 1
          /\ UNCHANGED <<tracked, format>>
    BY <1>2 DEF Forget
  <2> QED BY <2>1, OkOrUnchanged DEF Result, session
<1>3. ASSUME NEW x, Assign(x) PROVE Honest
  <2>1. PICK err \in BOOLEAN :
          /\ Call("assign", IF ~ err /\ mode # "library" THEN "toolError" ELSE Result(err))
          /\ tracked' = IF err \/ mode # "library" THEN tracked ELSE tracked \cup {x}
          /\ UNCHANGED <<count, format>>
    BY <1>3 DEF Assign
  <2> QED BY <2>1, OkOrUnchanged DEF Result, session
<1>4. ASSUME Reset PROVE Honest
  <2>1. PICK err \in BOOLEAN :
          /\ Call("reset", Result(err))
          /\ tracked' = IF err THEN tracked ELSE {}
          /\ count' = IF err THEN count ELSE 0
          /\ UNCHANGED format
    BY <1>4 DEF Reset
  <2> QED BY <2>1, OkOrUnchanged DEF Result, session
<1>5. ASSUME NEW f, SetFormat(f) PROVE Honest
  BY <1>5, ReplyOutcome DEF SetFormat, Call, Honest
<1>6. CASE UNCHANGED session
  BY <1>6 DEF Honest
<1>7. CASE NoToolName \/ NameNotString \/ UnknownTool \/ \E t \in Tool : BadArgument(t)
  BY <1>6, <1>7 DEF NoToolName, NameNotString, UnknownTool, BadArgument
<1>8. CASE \/ \E x \in Name : DefineFunction(x)
           \/ \E xs \in SUBSET Name : Clear(xs)
           \/ \E t \in Symbolic : Compute(t)
  BY <1>6, <1>8 DEF DefineFunction, Clear, Compute
<1>9. CASE Kill \/ Evaluate \/ KernelDies \/ WithPackage
  BY <1>6, <1>9 DEF Kill, Evaluate, KernelDies, WithPackage
<1>10. CASE Version \/ Constants \/ Query
  BY <1>6, <1>10 DEF Version, Constants, Query, Compute
<1> QED BY <1>1, <1>2, <1>3, <1>4, <1>5, <1>7, <1>8, <1>9, <1>10 DEF Next

(* No tool, in any backend, changes the session record and then fails.     *)
THEOREM FailuresLeaveSession == Spec => FailureKeepsSession
<1>1. [Next]_vars => [Honest]_vars
  BY EveryStepHonest
<1> QED BY <1>1, PTL DEF Spec, FailureKeepsSession, Honest
=============================================================================
