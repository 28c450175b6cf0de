-------------------------- MODULE MaximaSubprocess --------------------------
(***************************************************************************)
(* The interactive subprocess backend (src/mcp/maxima-subprocess.lisp):    *)
(* the server's thread, which writes an expression to a persistent Maxima  *)
(* process and reads characters until it has seen a prompt, and that       *)
(* process, which prints in its own time and may die at any moment.        *)
(*                                                                         *)
(* Nothing but the prompts keeps the two in step.  read-until-prompt       *)
(* takes "(%i" among its last 32 characters with a ")" or ") " at their    *)
(* end for a prompt.  So one prompt "(%i4) " is seen twice, at the         *)
(* parenthesis and at the space: the startup waits for one sight and       *)
(* leaves the space in the pipe, a result waits for two and takes one      *)
(* whole prompt.  A parenthesis of a complex number, "(%i+1)*(x-1)", is a  *)
(* sight as well.                                                          *)
(***************************************************************************)
EXTENDS Naturals, Sequences, FiniteSets

CONSTANTS
  MaxCalls,      \* bound: calls of subprocess-eval
  MaxStatements  \* bound: statements in one expression string

ASSUME SubprocessAssumption == MaxCalls \in Nat /\ MaxStatements \in Nat \ {0}

(***************************************************************************)
(* What a statement makes Maxima print before the next prompt.  "alarm" is *)
(* a value whose text contains "error" or "incorrect"; "unit" and          *)
(* "complex" are values with one and two parentheses that look like a      *)
(* prompt's; "error" is an error message, which has no (%oN); "ask" prints *)
(* no prompt: Maxima wants an answer (a sign, the end of a string) first.  *)
(***************************************************************************)
PlainKind == {"value", "alarm", "unit", "silent", "error", "ask"}
StatementKind == PlainKind \cup {"complex"}
Statement == [kind : StatementKind, call : 0 .. MaxCalls]

(* A printed piece: a value from its (%oN) on, an error message, a         *)
(* parenthesis within reach of a "(%i" in a value, and the two sights of a *)
(* prompt.  call is the call that made Maxima print it, 0 for the startup. *)
TokenKind == {"value", "alarm", "error", "paren", "label", "space"}
Token == [kind : TokenKind, call : 0 .. MaxCalls]

Text(kind) ==
  CASE kind = "silent"  -> <<>>
    [] kind = "unit"    -> <<"value", "paren">>
    [] kind = "complex" -> <<"value", "paren", "paren">>
    [] OTHER            -> <<kind>>

Printed(s, c) == [i \in DOMAIN s |-> [kind |-> s[i], call |-> c]]
Prompt == <<"label", "space">>

Phase == {"banner", "display2d", "linel", "result"}

VARIABLES
  plain,    \* whether every expression is one statement, and none complex
  started,  \* *maxima-process* is not nil
  alive,    \* the process is running
  stdin,    \* statements Maxima has not read yet
  stdout,   \* tokens the server has not read yet
  asking,   \* the call whose question Maxima is waiting on, 0 if none
  booting,  \* the process has not printed its first prompt yet
  pc,       \* "idle", "ensure", "write" or "read"
  phase,    \* what the thread is writing or reading
  calls,    \* calls begun; the current one has this number
  line,     \* the expression of the current call
  got,      \* what read-until-prompt has read so far
  answer    \* the last answer: the call its text was printed for, and err

maxima == <<alive, stdin, stdout, asking, booting>>
thread == <<pc, phase, calls, line, got, answer>>
vars == <<plain, started, maxima, thread>>

TypeOK ==
  /\ plain \in BOOLEAN /\ started \in BOOLEAN /\ alive \in BOOLEAN
  /\ stdin \in Seq(Statement) /\ stdout \in Seq(Token)
  /\ asking \in 0 .. MaxCalls /\ booting \in BOOLEAN
  /\ pc \in {"idle", "ensure", "write", "read"} /\ phase \in Phase
  /\ calls \in 0 .. MaxCalls /\ line \in Seq(Statement)
  /\ got \in Seq(Token)
  /\ answer \in [call : 0 .. MaxCalls, from : 0 .. MaxCalls, err : BOOLEAN]
  /\ alive => started

NoAnswer == [call |-> 0, from |-> 0, err |-> FALSE]

Init ==
  /\ plain \in BOOLEAN /\ started = FALSE /\ alive = FALSE
  /\ stdin = <<>> /\ stdout = <<>> /\ asking = 0 /\ booting = FALSE
  /\ pc = "idle" /\ phase = "result" /\ calls = 0 /\ line = <<>>
  /\ got = <<>> /\ answer = NoAnswer

(***************************************************************************)
(* The server's thread                                                     *)
(***************************************************************************)

(* subprocess-eval returns.  from is the call whose output it returns.     *)
Return(from, err) ==
  /\ answer' = [call |-> calls', from |-> from, err |-> err]
  /\ pc' = "idle" /\ phase' = "result" /\ line' = <<>> /\ got' = <<>>

(* subprocess-eval of an expression; a blank one returns at once.          *)
Call ==
  /\ pc = "idle" /\ calls < MaxCalls
  /\ calls' = calls + 1
  /\ \/ \E n \in 1 .. IF plain THEN 1 ELSE MaxStatements :
          /\ line' \in [1 .. n -> [kind : IF plain THEN PlainKind ELSE StatementKind,
                                  call : {calls + 1}]]
          /\ pc' = "ensure"
          /\ UNCHANGED <<phase, got, answer>>
     \/ Return(calls + 1, FALSE)
  /\ UNCHANGED <<plain, started, maxima>>

(* Mutants: the process is started and not remembered; the banner's prompt *)
(* is not waited for.                                                      *)
Mut_LaunchForgets ==
  /\ pc = "ensure" /\ ~ started
  /\ alive' = TRUE /\ booting' = TRUE
  /\ pc' = "read" /\ phase' = "banner" /\ got' = <<>>
  /\ UNCHANGED <<plain, started, stdin, stdout, asking, calls, line, answer>>
Mut_LaunchWithoutBanner ==
  /\ pc = "ensure" /\ ~ started
  /\ started' = TRUE /\ alive' = TRUE /\ booting' = TRUE
  /\ pc' = "write" /\ phase' = "display2d" /\ got' = <<>>
  /\ UNCHANGED <<plain, stdin, stdout, asking, calls, line, answer>>

(* ensure-maxima-subprocess: start-maxima-subprocess launches a process    *)
(* only while *maxima-process* is nil ...                                  *)
Launch ==
  /\ pc = "ensure" /\ ~ started
  /\ started' = TRUE /\ alive' = TRUE /\ booting' = TRUE
  /\ pc' = "read" /\ phase' = "banner" /\ got' = <<>>
  /\ UNCHANGED <<plain, stdin, stdout, asking, calls, line, answer>>

(* ... which it stays when the launch fails ...                            *)
LaunchFails ==
  /\ pc = "ensure" /\ ~ started
  /\ calls' = calls /\ Return(calls, TRUE)
  /\ UNCHANGED <<plain, started, maxima>>

(* ... and is not when the process is running, or has died.                *)
KeepProcess ==
  /\ pc = "ensure" /\ started
  /\ pc' = "write" /\ phase' = "result"
  /\ UNCHANGED <<plain, started, maxima, calls, line, got, answer>>

(* A mutant: two statements on one configuration line.                     *)
Mut_ConfigureTwice == <<[kind |-> "silent", call |-> 0], [kind |-> "silent", call |-> 0]>>

(* display2d:false$ or linel:10000$                                        *)
Configuration == <<[kind |-> "silent", call |-> 0]>>

(* write-to-maxima, for a configuration line or the expression.            *)
Write ==
  /\ pc = "write" /\ alive
  /\ stdin' = stdin \o (IF phase = "result" THEN line ELSE Configuration)
  /\ pc' = "read" /\ got' = <<>>
  /\ UNCHANGED <<plain, started, alive, stdout, asking, booting,
                 phase, calls, line, answer>>

(* Writing to a dead process signals an error, which subprocess-eval       *)
(* reports.                                                                *)
WriteFails ==
  /\ pc = "write" /\ ~ alive
  /\ calls' = calls /\ Return(calls, TRUE)
  /\ UNCHANGED <<plain, started, maxima>>

(* The phase after the startup phase p.                                    *)
After(p) == CASE p = "banner"    -> "display2d"
              [] p = "display2d" -> "linel"
              [] p = "linel"     -> "result"

(* read-maxima-result and the classification in subprocess-eval: the text  *)
(* after the last (%oN) before the last prompt, or all there is; an error  *)
(* if the word is in it.                                                   *)
Result(tokens) ==
  LET values == {i \in DOMAIN tokens : tokens[i].kind \in {"value", "alarm"}}
      pieces == {i \in DOMAIN tokens : tokens[i].kind # "space"}
      last(s) == CHOOSE i \in s : \A j \in s : j <= i
  IN IF values # {}
     THEN Return(tokens[last(values)].call, tokens[last(values)].kind = "alarm")
     ELSE Return(IF pieces = {} THEN calls ELSE tokens[last(pieces)].call,
                 \E i \in pieces : tokens[i].kind = "error")

(* A wait for a prompt is over.                                            *)
Finish(tokens) ==
  /\ calls' = calls
  /\ IF phase = "result" THEN Result(tokens)
     ELSE /\ phase' = After(phase) /\ pc' = "write" /\ got' = <<>>
          /\ UNCHANGED <<line, answer>>

(* A mutant: a parenthesis alone is not a sight.                           *)
Mut_SightAtSpace(tokens, i) ==
  i > 1 /\ tokens[i].kind = "space" /\ tokens[i - 1].kind = "label"

(* What read-until-prompt counts; it forgets what an earlier call of it    *)
(* read, and a space left over by that one is no sight.                    *)
Sight(tokens, i) ==
  \/ tokens[i].kind \in {"paren", "label"}
  \/ i > 1 /\ tokens[i].kind = "space" /\ tokens[i - 1].kind = "label"

(* The prompt has been seen :count times.                                  *)
Seen(tokens) ==
  Cardinality({i \in DOMAIN tokens : Sight(tokens, i)})
    >= IF phase = "result" THEN 2 ELSE 1

(* read-until-prompt reads on.                                             *)
ReadToken ==
  /\ pc = "read" /\ stdout # <<>>
  /\ stdout' = Tail(stdout)
  /\ LET tokens == Append(got, Head(stdout)) IN
     IF Seen(tokens) THEN Finish(tokens)
     ELSE got' = tokens /\ UNCHANGED <<pc, phase, calls, line, answer>>
  /\ UNCHANGED <<plain, started, alive, stdin, asking, booting>>

(* At the end of the stream it returns what it has, as if a prompt had     *)
(* come.                                                                   *)
ReadEnd ==
  /\ pc = "read" /\ stdout = <<>> /\ ~ alive
  /\ Finish(got)
  /\ UNCHANGED <<plain, started, maxima>>

(***************************************************************************)
(* The Maxima process                                                      *)
(***************************************************************************)

(* The banner and the first prompt.                                        *)
Boot ==
  /\ alive /\ booting
  /\ booting' = FALSE /\ stdout' = stdout \o Printed(Prompt, 0)
  /\ UNCHANGED <<plain, started, alive, stdin, asking, thread>>

(* The read-eval-print loop: one prompt for each statement, also when      *)
(* several stand on a line.                                                *)
Evaluate ==
  /\ alive /\ ~ booting /\ asking = 0 /\ stdin # <<>>
  /\ LET s == Head(stdin) IN
     /\ stdin' = Tail(stdin)
     /\ IF s.kind = "ask"
        THEN asking' = s.call /\ UNCHANGED stdout
        ELSE /\ stdout' = stdout \o Printed(Text(s.kind) \o Prompt, s.call)
             /\ UNCHANGED asking
  /\ UNCHANGED <<plain, started, alive, booting, thread>>

(* The next statement it reads is taken for the answer to its question.    *)
TakeAnswer ==
  /\ alive /\ asking # 0 /\ stdin # <<>>
  /\ stdin' = Tail(stdin) /\ asking' = 0
  /\ stdout' = stdout \o Printed(Text("value") \o Prompt, asking)
  /\ UNCHANGED <<plain, started, alive, booting, thread>>

(* It dies: what it has printed can still be read.                         *)
Die ==
  /\ alive
  /\ alive' = FALSE /\ booting' = FALSE /\ asking' = 0 /\ stdin' = <<>>
  /\ UNCHANGED <<plain, started, stdout, thread>>

ServerStep == \/ Launch \/ LaunchFails \/ KeepProcess
              \/ Write \/ WriteFails \/ ReadToken \/ ReadEnd
MaximaStep == Boot \/ Evaluate \/ TakeAnswer

Next == Call \/ ServerStep \/ MaximaStep \/ Die

Spec == Init /\ [][Next]_vars

(* Neither the thread nor Maxima rests while it can go on.                 *)
FairSpec == Spec /\ WF_vars(ServerStep) /\ WF_vars(MaximaStep)

(***************************************************************************)
(* Properties                                                              *)
(***************************************************************************)

(* As long as every expression is one statement and no value looks like a  *)
(* prompt, the answer to a call is made of what Maxima printed for that    *)
(* very call, through errors, dying processes and the startup              *)
(* (read-until-prompt, read-maxima-result).                                *)
OwnAnswer == plain => answer.from = answer.call

(* And between two such calls the thread and a running Maxima are in step: *)
(* nothing is left to evaluate, and at most a space to read, that a later  *)
(* call could mistake for its own.                                         *)
InStep ==
  plain /\ pc = "idle" /\ alive =>
    /\ stdin = <<>> /\ asking = 0
    /\ Len(stdout) <= 1 /\ \A i \in DOMAIN stdout : stdout[i].kind = "space"

(* A call returns, whether Maxima prints, fails or dies, unless it asks a  *)
(* question that nobody will answer.                                       *)
CallReturns == pc # "idle" ~> pc = "idle" \/ asking # 0

(* The thread, which reads without a timeout, never waits on a Maxima that *)
(* has nothing to do, whatever the expression and however the answers have *)
(* shifted: there is more to read, Maxima is at work or dead, or it asks   *)
(* the question that nobody answers (read-until-prompt).                   *)
NeverWaitsInVain ==
  pc = "read" /\ alive /\ stdout = <<>> => booting \/ stdin # <<>> \/ asking # 0

(* "Ensure the Maxima subprocess is running.": the docstring of            *)
(* ensure-maxima-subprocess.                                               *)
EnsureRuns == [][ pc = "ensure" /\ pc' \in {"read", "write"} => alive' ]_vars

(* "Read output until the next prompt and return the last (%oN) value.":   *)
(* the docstring of read-maxima-result.                                    *)
LastValue == answer.from = answer.call
=============================================================================
