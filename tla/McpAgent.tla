------------------------------ MODULE McpAgent ------------------------------
(***************************************************************************)
(* The agent wrapper (clients/python/maxima_mcp/agent.py) composed with    *)
(* the client it calls.  An operation asks for the text of an expression,  *)
(* and most ask for its LaTeX with a second call that evaluates the        *)
(* expression again.  The server may die, the first call may be answered   *)
(* late, and the connection may be replaced, between the two.              *)
(*                                                                         *)
(* The agent runs in the caller's thread of McpClient: it begins a call    *)
(* where that thread is idle, and goes on when it is idle again.           *)
(***************************************************************************)
EXTENDS McpClient

VARIABLES
  doing,   \* the call the agent waits for: "nothing", "text" or "latex"
  wants,   \* include_latex of the operation
  text,    \* text_result: the line it was taken from
  result,  \* the MathResult of the operation that ended last
  answer,  \* the line the last successful call of the operation returned
  begun    \* history: the length of log when the operation began

agent == <<doing, wants, text, result, begun>>
agentVars == <<vars, agent, answer>>

Nothing == Plain("none")

MathResult == [kind : {"none", "success", "failure", "raised"},
               text : Line, latex : Line]

Result(k, t, l) == [kind |-> k, text |-> t, latex |-> l]

AgentTypeOK ==
  /\ TypeOK
  /\ doing \in {"nothing", "text", "latex"} /\ wants \in BOOLEAN
  /\ text \in Line /\ answer \in Line /\ result \in MathResult
  /\ begun \in 0 .. Len(log)

AgentInit ==
  /\ Init
  /\ doing = "nothing" /\ wants = FALSE /\ begun = 0
  /\ text = Nothing /\ answer = Nothing
  /\ result = Result("none", Nothing, Nothing)

(* An operation begins with the call for the text.  _safe_call and the     *)
(* methods spelled out like it may want LaTeX; set_variable, get_variable, *)
(* add_assumption and reset_session never do.  The bound MaxCalls is on    *)
(* calls: an operation that may make two begins only if both are left.     *)
BeginOperation ==
  /\ doing = "nothing" /\ CallTool
  /\ wants' \in BOOLEAN /\ (wants' => calls + 2 <= MaxCalls)
  /\ doing' = "text" /\ begun' = Len(log)
  /\ result' = Result("none", Nothing, Nothing)
  /\ UNCHANGED <<text, answer>>

(* The operation ends with a result for its caller, or an exception.       *)
Finish(r) ==
  /\ doing' = "nothing" /\ result' = r
  /\ wants' = FALSE /\ text' = Nothing /\ answer' = Nothing /\ begun' = 0
  /\ UNCHANGED vars

(* A mutant: LaTeX is asked for even when the text could not be had.       *)
Mut_TextReturns ==
  /\ doing = "text" /\ pc = "idle"
  /\ CASE wants /\ last \in {"ok", "MaximaError"} ->
             /\ CallTool
             /\ doing' = "latex" /\ text' = answer
             /\ UNCHANGED <<wants, result, answer, begun>>
       [] last = "ok" /\ ~ wants -> Finish(Result("success", answer, Nothing))
       [] last = "MaximaError" /\ ~ wants -> Finish(Result("failure", Nothing, Nothing))
       [] OTHER -> Finish(Result("raised", Nothing, Nothing))

(* The call for the text returns.  Its failure is caught if it is a        *)
(* MaximaError, which MaximaTimeoutError, OSError and AttributeError are   *)
(* not.                                                                    *)
TextReturns ==
  /\ doing = "text" /\ pc = "idle"
  /\ \/ /\ last = "ok" /\ wants
        /\ CallTool
        /\ doing' = "latex" /\ text' = answer
        /\ UNCHANGED <<wants, result, answer, begun>>
     \/ last = "ok" /\ ~ wants /\ Finish(Result("success", answer, Nothing))
     \/ last = "MaximaError" /\ Finish(Result("failure", Nothing, Nothing))
     \/ last \notin {"ok", "MaximaError"}
        /\ Finish(Result("raised", Nothing, Nothing))

(* The call for the LaTeX returns.  A MaximaError of it is forgotten; any  *)
(* other exception takes the text with it.                                 *)
LatexReturns ==
  /\ doing = "latex" /\ pc = "idle"
  /\ \/ last = "ok" /\ Finish(Result("success", text, answer))
     \/ last = "MaximaError" /\ Finish(Result("success", text, Nothing))
     \/ last \notin {"ok", "MaximaError"}
        /\ Finish(Result("raised", Nothing, Nothing))

(* close() of the agent, or the end of its with statement.                 *)
CloseAgent ==
  doing = "nothing" /\ UserClose /\ UNCHANGED <<agent, answer>>

(* The client's part of a call.                                            *)
ClientMoves ==
  /\ ClientStep
  /\ answer' = IF pc = "wait" /\ pc' = "idle" /\ last' = "ok"
               THEN Head(queue) ELSE answer
  /\ UNCHANGED agent

OthersMove ==
  /\ \E g \in Gen : \/ ServeRequest(g) \/ PrintLine(g)
                    \/ ServerExits(g) \/ ServerDies(g)
                    \/ ReaderTakes(g) \/ ReaderPuts(g)
  /\ UNCHANGED <<agent, answer>>

AgentStep == TextReturns \/ LatexReturns \/ ClientMoves

AgentNext == BeginOperation \/ CloseAgent \/ AgentStep \/ OthersMove

AgentSpec == AgentInit /\ [][AgentNext]_agentVars

(***************************************************************************)
(* Properties                                                              *)
(***************************************************************************)

(* The tool calls written since the operation began.                       *)
Sent == {i \in begun + 1 .. Len(log) : log[i].method = "tools/call"}

(* A result holds what the server answered to this operation, never to one *)
(* before it that timed out: the text is the answer to its first request,  *)
(* the LaTeX to a later one, and both are of one server process unless     *)
(* that process is dead (agent.py:76-93 over client.py:330).               *)
ResultIsOwn ==
  [][ doing # "nothing" /\ doing' = "nothing" /\ result'.kind = "success" =>
        LET t == result'.text  l == result'.latex IN
        /\ t.id \in Sent /\ log[t.id].gen = t.gen
        /\ l # Nothing =>
             /\ l.id \in Sent /\ log[l.id].gen = l.gen
             /\ t.id < l.id
             /\ t.gen = l.gen \/ ~ alive[t.gen] ]_agentVars

(* The expression is evaluated a second time only for an operation that    *)
(* wants LaTeX and has its text, and never a third time, however often     *)
(* servers die and handshakes are repeated on the way (agent.py:78-86).    *)
SecondOnlyAfterFirst ==
  doing # "nothing" =>
    Cardinality(Sent) <= IF wants /\ text.id \in Sent THEN 2 ELSE 1
=============================================================================
