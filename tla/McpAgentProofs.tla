--------------------------- MODULE McpAgentProofs ---------------------------
(***************************************************************************)
(* Proofs about McpAgent, for every value of its constants: it is one of   *)
(* the users McpClient allows for, so that what is proved of the client    *)
(* holds under it; ResultIsOwn; SecondOnlyAfterFirst.                      *)
(***************************************************************************)
EXTENDS McpAgent, McpClientProofs

(***************************************************************************)
(* The agent uses the client as any caller may                             *)
(***************************************************************************)

(* A step of the agent is a step of the client or leaves it alone.         *)
LEMMA AgentStepIsClientStep == [AgentNext]_agentVars => [Next]_vars
  BY DEF AgentNext, AgentStep, agentVars, BeginOperation, Finish, TextReturns, LatexReturns,
         CloseAgent, ClientMoves, OthersMove, Next

(* Whatever the agent does, its client goes through a behaviour of         *)
(* McpClient: every property proved there holds of an agent's client.      *)
THEOREM AgentIsACaller == AgentSpec => Spec
<1>1. AgentInit => Init
  BY DEF AgentInit
<1> QED
  BY <1>1, AgentStepIsClientStep, PTL DEF AgentSpec, Spec

(* In particular the invariant of the client.                              *)
LEMMA ClientInvariant == AgentSpec => []IInv
  BY AgentIsACaller, Inductive, PTL

(***************************************************************************)
(* The inductive invariant                                                 *)
(***************************************************************************)

(* An answer to a tool call of the operation that runs, given by the       *)
(* process that was sent the call.                                         *)
IsMine(l) == l.id \in Sent /\ log[l.id].gen = l.gen /\ l.gen \in Gen

(* The operation can pay for what it has sent and may still send: one      *)
(* evaluation for the text, and one more once it has the text.             *)
Budget == IF doing = "text" THEN 1 ELSE 2
WithinBudget ==
  /\ Cardinality(Sent) <= Budget
  /\ Pending => Cardinality(Sent) + 1 <= Budget

(* While an answer is awaited, its request is of this operation and later  *)
(* than the one for the text.                                              *)
WaitsForLater ==
  pc = "wait" => begun < Len(log) /\ (doing = "latex" => text.id < Len(log))

(* A connection is closed within an operation because an exception left    *)
(* _send_request.                                                          *)
ClosesAfterFailure ==
  pc \in {"close", "exit"} => after # "idle" /\ last # "ok"

HasText == doing = "latex" => wants /\ IsMine(text)

HasAnswer ==
  pc = "idle" /\ last = "ok" =>
    /\ IsMine(answer)
    /\ doing = "latex" => /\ text.id < answer.id
                          /\ text.gen = answer.gen \/ ~ alive[text.gen]

AgentInv ==
  doing # "nothing" =>
    /\ doing \in {"text", "latex"} /\ begun \in 0 .. Len(log)
    /\ WithinBudget /\ WaitsForLater /\ ClosesAfterFailure
    /\ HasText /\ HasAnswer

(* The requests of an operation can be counted.                            *)
LEMMA SentIsCounted ==
  ASSUME Len(log) \in Nat, begun \in 0 .. Len(log)
  PROVE  IsFiniteSet(Sent) /\ Cardinality(Sent) \in Nat
<1>1. IsFiniteSet(begun + 1 .. Len(log))
  BY FS_Interval
<1>2. Sent \in SUBSET (begun + 1 .. Len(log))
  BY DEF Sent
<1>3. IsFiniteSet(Sent)
  BY <1>1, <1>2, FS_Subset
<1> QED
  BY <1>3, FS_CardinalityType

(* One more entry of the log: what was sent stays sent, and at most one    *)
(* tool call is added, none by a request of the handshake.                 *)
LEMMA SentAppend ==
  ASSUME NEW e \in LogEntry, log \in Seq(LogEntry), begun \in 0 .. Len(log),
         log' = Append(log, e), begun' = begun
  PROVE  /\ Sent \subseteq Sent' /\ \A i \in Sent : log'[i] = log[i]
         /\ Cardinality(Sent) \in Nat /\ Cardinality(Sent') \in Nat
         /\ Cardinality(Sent') <= Cardinality(Sent) + 1
         /\ e.method # "tools/call" => Sent' = Sent
<1>1. /\ Len(log) \in Nat /\ Len(log') = Len(log) + 1
      /\ \A i \in 1 .. Len(log) : log'[i] = log[i]
      /\ log'[Len(log) + 1] = e
  BY AppendProperties, LenProperties
<1>2. IsFiniteSet(Sent)
  BY <1>1, SentIsCounted
<1>3. Cardinality(Sent) \in Nat
  BY <1>1, SentIsCounted
<1>4. \A i \in Sent : i \in 1 .. Len(log)
  BY <1>1 DEF Sent
<1>5. CASE e.method # "tools/call"
  <2>1. Sent' = Sent
    BY <1>1, <1>5 DEF Sent
  <2> QED
    BY <1>1, <1>3, <1>4, <2>1
<1>6. CASE e.method = "tools/call"
  <2>1. Sent' = Sent \cup {Len(log) + 1}
    BY <1>1, <1>6 DEF Sent
  <2>2. /\ Cardinality(Sent')
             = IF Len(log) + 1 \in Sent THEN Cardinality(Sent) ELSE Cardinality(Sent) + 1
    BY <1>2, <2>1, FS_AddElement
  <2> QED
    BY <1>1, <1>3, <1>4, <1>6, <2>1, <2>2
<1> QED
  BY <1>5, <1>6

(* The log as IInv knows it.                                               *)
LEMMA LogTypes ==
  IInv => /\ log \in Seq(LogEntry) /\ Len(log) \in Nat
          /\ [gen |-> proc, method |-> sending, call |-> calls] \in LogEntry
<1> SUFFICES ASSUME IInv
             PROVE  /\ log \in Seq(LogEntry) /\ Len(log) \in Nat
                    /\ [gen |-> proc, method |-> sending, call |-> calls] \in LogEntry
  OBVIOUS
<1>1. log \in Seq(LogEntry) /\ [gen |-> proc, method |-> sending, call |-> calls] \in LogEntry
  BY ClientAssumption DEF IInv, TypeInv, TypeOK, LogEntry
<1> QED
  BY <1>1, LenProperties

(* While the call runs, the client leaves the agent's variables alone and  *)
(* writes at most one entry of the log.                                    *)
LEMMA LogMoves ==
  ASSUME ClientMoves
  PROVE  /\ UNCHANGED agent
         /\ \/ UNCHANGED log
            \/ log' = Append(log, [gen |-> proc, method |-> sending, call |-> calls])
  BY PendingStep DEF ClientMoves

(* What was an answer to the operation stays one while its calls run.      *)
LEMMA MineStays ==
  ASSUME IInv, begun \in 0 .. Len(log), ClientMoves, NEW l, IsMine(l)
  PROVE  l.id \in Sent' /\ log'[l.id].gen = l.gen /\ l.gen \in Gen
<1>1. UNCHANGED begun
  BY LogMoves DEF agent
<1>2. CASE UNCHANGED log
  BY <1>1, <1>2 DEF IsMine, Sent
<1>3. CASE log' = Append(log, [gen |-> proc, method |-> sending, call |-> calls])
  BY <1>1, <1>3, LogTypes, SentAppend DEF IsMine
<1> QED
  BY <1>2, <1>3, LogMoves

(* How a step of the client can leave the thread.                          *)
LEMMA ClientEnds ==
  ASSUME TypeInv, ClientStep
  PROVE  /\ pc # "idle"
         /\ pc' = "wait" => \/ UNCHANGED log /\ pc = "wait"
                            \/ log' = Append(log, [gen |-> proc, method |-> sending, call |-> calls])
         /\ pc' \in {"close", "exit"} =>
              \/ after' # "idle" /\ last' # "ok"
              \/ UNCHANGED <<after, last>> /\ pc \in {"close", "exit"}
         /\ pc' = "idle" /\ last' = "ok" =>
              \/ pc = "wait"
              \/ UNCHANGED last /\ pc \in {"close", "exit"}
         /\ \A g \in Gen : alive'[g] /\ pc' = "idle" => alive[g]
<1>1. \A exc \in Exception : Fail(exc) =>
         /\ pc' \in {"idle", "close"} /\ last' # "ok"
         /\ pc' = "close" => after' # "idle"
  BY DEF Fail, Exception
<1>2. {"MaximaError", "MaximaTimeoutError", "OSError", "AttributeError"} \subseteq Exception
  BY DEF Exception
<1>3. CASE StayConnected \/ StartServer
  BY <1>3 DEF StayConnected, StartServer
<1>4. CASE SpawnFails \/ Timeout
  BY <1>1, <1>2, <1>4 DEF SpawnFails, Timeout, server
<1>5. CASE WriteRequest
  BY <1>1, <1>2, <1>5 DEF WriteRequest
<1>6. CASE ReceiveLine
  <2>1. pc = "wait" /\ UNCHANGED log /\ UNCHANGED alive
    BY <1>6 DEF ReceiveLine, server
  <2>2. \/ \E exc \in Exception : Fail(exc)
        \/ UNCHANGED <<pc, after, last>>
        \/ Accept(Head(queue)) /\ Head(queue).kind # "error"
    BY <1>2, <1>6, ReceiveCases DEF MatchId, Accept
  <2>3. ASSUME Accept(Head(queue)), Head(queue).kind # "error"
        PROVE  pc' \in {"ensure", "idle"}
    <3>1. sending \in {"initialize", "initialized", "tools/call"}
      BY DEF TypeInv, TypeOK, Method
    <3> QED
      BY <2>3, <3>1 DEF Accept
  <2> QED
    BY <1>1, <2>1, <2>2, <2>3
<1>7. CASE CloseStdin
  BY <1>7 DEF CloseStdin, fields
<1>8. CASE ReapServer \/ CloseNothing
  <2>1. /\ pc \in {"close", "exit"} /\ Resume /\ UNCHANGED <<after, last, log>>
        /\ alive' = [alive EXCEPT ![proc] = FALSE] \/ UNCHANGED alive
    BY <1>8 DEF ReapServer, CloseNothing, server
  <2>2. \A g \in Gen : alive'[g] => alive[g]
    BY <2>1 DEF TypeInv, TypeOK
  <2>3. pc' \in {"ensure", "idle"}
    BY <2>1 DEF Resume
  <2> QED
    BY <2>1, <2>2, <2>3
<1> QED
  BY <1>3, <1>4, <1>5, <1>6, <1>7, <1>8 DEF ClientStep

(* The agent's client keeps the budget, waits for later answers only, and  *)
(* hands back answers to this operation's own requests.                    *)
LEMMA ClientMovesKeep ==
  ASSUME IInv, IInv', AgentInv, ClientMoves PROVE AgentInv'
<1> SUFFICES ASSUME doing' # "nothing"
             PROVE  /\ doing' \in {"text", "latex"} /\ begun' \in 0 .. Len(log')
                    /\ WithinBudget' /\ WaitsForLater' /\ ClosesAfterFailure'
                    /\ HasText' /\ HasAnswer'
  BY DEF AgentInv
<1>1. /\ UNCHANGED <<doing, wants, text, begun>> /\ ClientStep /\ TypeInv
      /\ [AgentNext]_agentVars
  BY LogMoves DEF agent, ClientMoves, IInv, AgentNext, AgentStep
<1>2. /\ doing \in {"text", "latex"} /\ begun \in 0 .. Len(log)
      /\ WithinBudget /\ WaitsForLater /\ ClosesAfterFailure /\ HasText /\ HasAnswer
  BY <1>1 DEF AgentInv
<1>3. /\ log \in Seq(LogEntry) /\ Len(log) \in Nat
      /\ [gen |-> proc, method |-> sending, call |-> calls] \in LogEntry
  BY LogTypes
<1>4. \/ UNCHANGED log
      \/ log' = Append(log, [gen |-> proc, method |-> sending, call |-> calls]) /\ Len(log') = Len(log) + 1
  BY <1>3, LogMoves, AppendProperties
<1>5. begun' \in 0 .. Len(log')
  BY <1>1, <1>2, <1>3, <1>4
<1>6. WithinBudget'
  <2>1. CASE UNCHANGED log /\ (Pending' => Pending)
    <3>1. Sent' = Sent /\ Budget' = Budget
      BY <1>1, <2>1 DEF Sent, Budget
    <3> QED
      BY <1>2, <2>1, <3>1 DEF WithinBudget
  <2>2. CASE /\ Pending
             /\ log' = Append(log, [gen |-> proc, method |-> sending, call |-> calls])
             /\ sending = "tools/call" => ~ Pending'
    <3>1. Budget' = Budget /\ Budget \in Nat /\ Cardinality(Sent) + 1 <= Budget
      BY <1>1, <1>2, <2>2 DEF Budget, WithinBudget
    <3>2. /\ Cardinality(Sent) \in Nat /\ Cardinality(Sent') \in Nat
          /\ Cardinality(Sent') <= Cardinality(Sent) + 1
          /\ sending # "tools/call" => Sent' = Sent
      BY <1>1, <1>2, <1>3, <2>2, SentAppend
    <3>3. Cardinality(Sent') <= Budget'
      BY <3>1, <3>2
    <3>4. ASSUME Pending' PROVE Cardinality(Sent') + 1 <= Budget'
      BY <2>2, <3>1, <3>2, <3>4
    <3> QED
      BY <3>3, <3>4 DEF WithinBudget
  <2> QED
    BY <1>1, <2>1, <2>2, PendingStep
<1>7. WaitsForLater'
  <2> SUFFICES ASSUME pc' = "wait"
               PROVE  begun' < Len(log') /\ (doing' = "latex" => text'.id < Len(log'))
    BY DEF WaitsForLater
  <2>1. CASE UNCHANGED log /\ pc = "wait"
    BY <1>1, <1>2, <2>1 DEF WaitsForLater
  <2>2. CASE log' = Append(log, [gen |-> proc, method |-> sending, call |-> calls])
    <3>1. Len(log') = Len(log) + 1
      BY <1>3, <2>2, AppendProperties
    <3>2. doing = "latex" => text.id \in begun + 1 .. Len(log)
      BY <1>2 DEF HasText, IsMine, Sent
    <3> QED
      BY <1>1, <1>2, <1>3, <3>1, <3>2
  <2> QED
    BY <1>1, <2>1, <2>2, ClientEnds
<1>8. ClosesAfterFailure'
  BY <1>1, <1>2, ClientEnds DEF ClosesAfterFailure
<1>9. HasText'
  <2> SUFFICES ASSUME doing' = "latex" PROVE wants' /\ IsMine(text)'
    BY DEF HasText
  <2>1. wants /\ IsMine(text)
    BY <1>1, <1>2 DEF HasText
  <2>2. text.id \in Sent' /\ log'[text.id].gen = text.gen /\ text.gen \in Gen
    BY <1>2, <2>1, MineStays
  <2> QED
    BY <1>1, <2>1, <2>2 DEF IsMine
<1>10. HasAnswer'
  <2> SUFFICES ASSUME pc' = "idle", last' = "ok"
               PROVE  /\ IsMine(answer)'
                      /\ doing' = "latex" =>
                           /\ text'.id < answer'.id
                           /\ text'.gen = answer'.gen \/ ~ alive'[text'.gen]
    BY DEF HasAnswer
  <2>1. pc = "wait"
    BY <1>1, <1>2, ClientEnds DEF ClosesAfterFailure
  <2> DEFINE l == Head(queue)
  <2>2. /\ answer' = l /\ l.id = Len(log) /\ l.gen = proc
        /\ log[l.id] = [gen |-> proc, method |-> "tools/call", call |-> calls]
    BY <1>1, <2>1, AgentStepIsClientStep, AnswerStep DEF ClientMoves
  <2> HIDE DEF l
  <2>3. begun < Len(log) /\ (doing = "latex" => text.id < Len(log))
    BY <1>2, <2>1 DEF WaitsForLater
  <2>4. proc \in Gen
    <3>1. proc # 0
      BY <2>1 DEF IInv, Ownership, AwaitedIsLast
    <3> QED
      BY <1>1, <3>1, ClientAssumption DEF TypeInv, TypeOK, Gen
  <2>5. l.id \in Sent
    BY <1>2, <1>3, <2>2, <2>3 DEF Sent
  <2>6. IsMine(l)
    BY <2>2, <2>4, <2>5 DEF IsMine
  <2>7. IsMine(answer)'
    BY <1>2, <2>2, <2>6, MineStays DEF IsMine
  <2>8. ASSUME doing = "latex" PROVE text.gen = l.gen \/ ~ alive'[text.gen]
    <3>1. text.gen \in Gen
      BY <1>2, <2>8 DEF HasText, IsMine
    <3>2. alive'[text.gen] => alive[text.gen]
      BY <1>1, <3>1, ClientEnds
    <3>3. alive[text.gen] => text.gen = proc
      BY <3>1 DEF IInv, OnlyCurrentRuns
    <3> QED
      BY <2>2, <3>2, <3>3
  <2> QED
    BY <1>1, <2>2, <2>3, <2>7, <2>8
<1> QED
  BY <1>1, <1>2, <1>5, <1>6, <1>7, <1>8, <1>9, <1>10

(* Servers and reader threads touch nothing the invariant speaks of, but   *)
(* that they may die.                                                      *)
LEMMA OthersMoveKeep ==
  ASSUME IInv, AgentInv, OthersMove PROVE AgentInv'
<1>1. UNCHANGED <<pc, sending, attempt, after, skipped, calls, last, log, doing, wants, text,
                  result, begun, answer>>
  BY DEF OthersMove, agent, caller, ServeRequest, PrintLine, ServerExits, ServerDies,
         ReaderTakes, ReaderPuts
<1>2. Sent' = Sent /\ (Pending' <=> Pending) /\ Budget' = Budget
  BY <1>1 DEF Sent, Pending, Budget
<1>3. \A g \in Gen : alive'[g] => alive[g]
  <2>1. UNCHANGED alive \/ \E g \in Gen : alive' = [alive EXCEPT ![g] = FALSE]
    BY DEF OthersMove, ServeRequest, PrintLine, ServerExits, ServerDies, ReaderTakes,
           ReaderPuts, server
  <2> QED
    BY <2>1 DEF IInv, TypeInv, TypeOK
<1>4. \A l : IsMine(l) => l.gen \in Gen /\ l.id \in Sent' /\ log'[l.id].gen = l.gen
  BY <1>1, <1>2 DEF IsMine
<1>5. WithinBudget => WithinBudget'
  BY <1>2 DEF WithinBudget
<1>6. /\ WaitsForLater => WaitsForLater'
      /\ ClosesAfterFailure => ClosesAfterFailure'
  BY <1>1 DEF WaitsForLater, ClosesAfterFailure
<1>7. HasText => HasText'
  BY <1>1, <1>2 DEF HasText, IsMine
<1>8. HasText /\ HasAnswer => HasAnswer'
  BY <1>1, <1>2, <1>3 DEF HasText, HasAnswer, IsMine
<1> QED
  BY <1>1, <1>5, <1>6, <1>7, <1>8 DEF AgentInv

(* The operation that begins has sent nothing and may send one request.    *)
LEMMA BeginEstablishes ==
  ASSUME IInv, BeginOperation PROVE AgentInv'
<1>1. /\ doing' = "text" /\ begun' = Len(log) /\ log' = log /\ pc' = "ensure"
  BY DEF BeginOperation, CallTool
<1>2. Len(log) \in Nat
  BY LogTypes
<1>3. Sent' = {}
  BY <1>1, <1>2 DEF Sent
<1>4. WithinBudget'
  BY <1>1, <1>3, FS_EmptySet DEF WithinBudget, Budget
<1> QED
  BY <1>1, <1>2, <1>4 DEF AgentInv, WaitsForLater, ClosesAfterFailure, HasText, HasAnswer

(* With the text in hand, the operation may send a second request.         *)
LEMMA SecondCallKeeps ==
  ASSUME IInv, AgentInv, doing = "text", pc = "idle", last = "ok", wants, CallTool,
         doing' = "latex", text' = answer, UNCHANGED <<wants, begun, answer>>
  PROVE  AgentInv'
<1>1. log' = log /\ pc' = "ensure"
  BY DEF CallTool
<1>2. /\ begun \in 0 .. Len(log) /\ WithinBudget /\ HasAnswer
  BY DEF AgentInv
<1>3. Sent' = Sent /\ Budget = 1 /\ Budget' = 2
  BY <1>1 DEF Sent, Budget
<1>4. Cardinality(Sent) \in Nat
  BY <1>2, LogTypes, SentIsCounted
<1>5. WithinBudget'
  BY <1>2, <1>3, <1>4 DEF WithinBudget
<1>6. HasText'
  BY <1>1, <1>2, <1>3 DEF HasAnswer, HasText, IsMine
<1> QED
  BY <1>1, <1>2, <1>5, <1>6 DEF AgentInv, WaitsForLater, ClosesAfterFailure, HasAnswer

(* Every step preserves the invariant.                                     *)
LEMMA AgentInvStep == IInv /\ IInv' /\ AgentInv /\ [AgentNext]_agentVars => AgentInv'
<1> SUFFICES ASSUME IInv, IInv', AgentInv, [AgentNext]_agentVars PROVE AgentInv'
  OBVIOUS
<1>1. CASE BeginOperation
  BY <1>1, BeginEstablishes
<1>2. ASSUME NEW r, Finish(r) PROVE AgentInv'
  BY <1>2 DEF Finish, AgentInv
<1>3. CASE CloseAgent
  BY <1>3 DEF CloseAgent, agent, AgentInv
<1>4. CASE TextReturns
  BY <1>2, <1>4, SecondCallKeeps DEF TextReturns
<1>5. CASE LatexReturns
  BY <1>2, <1>5 DEF LatexReturns
<1>6. CASE ClientMoves
  BY <1>6, ClientMovesKeep
<1>7. CASE OthersMove
  BY <1>7, OthersMoveKeep
<1>8. CASE UNCHANGED agentVars
  <2>1. UNCHANGED <<pc, sending, after, last, alive, log, doing, wants, text, begun, answer>>
    BY <1>8 DEF agentVars, vars, agent, caller, server
  <2>2. Sent' = Sent /\ (Pending' <=> Pending) /\ Budget' = Budget
    BY <2>1 DEF Sent, Pending, Budget
  <2> QED
    BY <2>1, <2>2 DEF AgentInv, WithinBudget, WaitsForLater, ClosesAfterFailure, HasText,
                      HasAnswer, IsMine
<1> QED
  BY <1>1, <1>3, <1>4, <1>5, <1>6, <1>7, <1>8 DEF AgentNext, AgentStep

(* The invariant of agent and client holds in every reachable state.       *)
THEOREM AgentInductive == AgentSpec => [](IInv /\ AgentInv)
<1>1. AgentInit => AgentInv
  BY DEF AgentInit, AgentInv
<1> QED
  BY <1>1, ClientInvariant, AgentInvStep, PTL DEF AgentSpec

(***************************************************************************)
(* The results                                                             *)
(***************************************************************************)

AgentTypes ==
  /\ doing \in {"nothing", "text", "latex"} /\ wants \in BOOLEAN
  /\ text \in Line /\ answer \in Line /\ result \in MathResult
  /\ begun \in 0 .. Len(log)

(* A successful call returns a line.                                       *)
LEMMA AnswerIsLine ==
  ASSUME TypeInv, answer \in Line, ClientMoves PROVE answer' \in Line
<1>1. CASE answer' = answer
  BY <1>1
<1>2. CASE pc = "wait" /\ pc' = "idle" /\ answer' = Head(queue)
  <2>1. ReceiveLine \/ Timeout
    BY <1>2 DEF ClientMoves, ClientStep, StayConnected, StartServer, SpawnFails, WriteRequest,
                CloseStdin, ReapServer, CloseNothing
  <2>2. CASE ReceiveLine
    <3>1. queue \in Seq(Line) /\ queue # <<>>
      BY <2>2 DEF ReceiveLine, TypeInv, TypeOK
    <3> QED
      BY <1>2, <3>1, HeadTailProperties
  <2>3. CASE Timeout
    <3>1. last' # "ok"
      BY <2>3 DEF Timeout, Fail
    <3> QED
      BY <3>1 DEF ClientMoves
  <2> QED
    BY <2>1, <2>2, <2>3
<1> QED
  BY <1>1, <1>2 DEF ClientMoves

(* Every step keeps the types of the agent's variables.                    *)
LEMMA AgentTypesStep == IInv /\ AgentTypes /\ [AgentNext]_agentVars => AgentTypes'
<1> SUFFICES ASSUME IInv, AgentTypes, [AgentNext]_agentVars PROVE AgentTypes'
  OBVIOUS
<1>0. Nothing \in Line /\ TypeInv /\ Len(log) \in Nat
  BY LineTypes, LogTypes DEF Nothing, IInv
<1>1. \A k \in {"none", "success", "failure", "raised"}, t \in Line, l \in Line :
         Result(k, t, l) \in MathResult
  BY DEF Result, MathResult
<1>2. ASSUME NEW k \in {"none", "success", "failure", "raised"}, NEW t \in Line, NEW l \in Line,
             Finish(Result(k, t, l))
      PROVE  AgentTypes'
  <2>1. UNCHANGED log
    BY <1>2 DEF Finish, vars
  <2>2. result' \in MathResult
    BY <1>1, <1>2 DEF Finish
  <2>3. wants' \in BOOLEAN
    BY <1>2 DEF Finish
  <2> QED
    BY <1>0, <1>2, <2>1, <2>2, <2>3 DEF Finish, AgentTypes
<1>3. CASE BeginOperation
  BY <1>0, <1>1, <1>3 DEF BeginOperation, CallTool, AgentTypes
<1>4. CASE TextReturns
  <2>1. CASE /\ CallTool /\ doing' = "latex" /\ text' = answer
             /\ UNCHANGED <<wants, result, answer, begun>>
    BY <2>1 DEF CallTool, AgentTypes
  <2>2. \/ /\ CallTool /\ doing' = "latex" /\ text' = answer
           /\ UNCHANGED <<wants, result, answer, begun>>
        \/ Finish(Result("success", answer, Nothing))
        \/ Finish(Result("failure", Nothing, Nothing))
        \/ Finish(Result("raised", Nothing, Nothing))
    BY <1>4 DEF TextReturns
  <2> QED
    BY <1>0, <1>2, <2>1, <2>2 DEF AgentTypes
<1>5. CASE LatexReturns
  <2>1. \/ Finish(Result("success", text, answer))
        \/ Finish(Result("success", text, Nothing))
        \/ Finish(Result("raised", Nothing, Nothing))
    BY <1>5 DEF LatexReturns
  <2> QED
    BY <1>0, <1>2, <2>1 DEF AgentTypes
<1>6. CASE CloseAgent
  BY <1>6 DEF CloseAgent, UserClose, agent, AgentTypes
<1>7. CASE ClientMoves
  <2>1. answer' \in Line
    BY <1>0, <1>7, AnswerIsLine DEF AgentTypes
  <2>2. Len(log') \in Nat /\ Len(log') >= Len(log)
    <3>1. UNCHANGED log \/ log' = Append(log, [gen |-> proc, method |-> sending, call |-> calls])
      BY <1>7, LogMoves
    <3>2. Len(Append(log, [gen |-> proc, method |-> sending, call |-> calls])) = Len(log) + 1
      BY LogTypes, AppendProperties
    <3> QED
      BY <1>0, <3>1, <3>2
  <2> QED
    BY <1>0, <1>7, <2>1, <2>2 DEF ClientMoves, agent, AgentTypes
<1>8. CASE OthersMove
  <2>1. UNCHANGED log
    BY <1>8 DEF OthersMove, ServeRequest, PrintLine, ServerExits, ServerDies, ReaderTakes,
                ReaderPuts
  <2> QED
    BY <1>8, <2>1 DEF OthersMove, agent, AgentTypes
<1>9. CASE UNCHANGED agentVars
  BY <1>9 DEF agentVars, vars, agent, AgentTypes
<1> QED
  BY <1>3, <1>4, <1>5, <1>6, <1>7, <1>8, <1>9 DEF AgentNext, AgentStep

(* Client and agent keep their types under every failure.                  *)
THEOREM AgentTypeCorrect == AgentSpec => []AgentTypeOK
<1>1. ASSUME AgentInit PROVE AgentTypes
  <2>1. Nothing \in Line
    BY LineTypes DEF Nothing
  <2>2. result \in MathResult
    BY <1>1, <2>1 DEF AgentInit, Result, MathResult
  <2>3. begun \in 0 .. Len(log)
    BY <1>1 DEF AgentInit, Init
  <2>4. wants \in BOOLEAN
    BY <1>1 DEF AgentInit
  <2> QED
    BY <1>1, <2>1, <2>2, <2>3, <2>4 DEF AgentInit, AgentTypes
<1>2. IInv /\ AgentTypes => AgentTypeOK
  BY DEF IInv, TypeInv, AgentTypes, AgentTypeOK
<1> QED
  BY <1>1, <1>2, ClientInvariant, AgentTypesStep, PTL DEF AgentSpec

(* However often a server dies and a handshake is repeated, an operation   *)
(* evaluates its expression once, and once more only when it has the text. *)
THEOREM EvaluatesAgainOnlyForLatex == AgentSpec => []SecondOnlyAfterFirst
<1>1. ASSUME IInv, AgentInv, doing # "nothing"
      PROVE  Cardinality(Sent) <= IF wants /\ text.id \in Sent THEN 2 ELSE 1
  <2>1. doing \in {"text", "latex"} /\ Cardinality(Sent) <= Budget /\ HasText
    BY <1>1 DEF AgentInv, WithinBudget
  <2>2. Cardinality(Sent) \in Nat
    BY <1>1, LogTypes, SentIsCounted DEF AgentInv
  <2>3. CASE doing = "text"
    BY <2>1, <2>2, <2>3 DEF Budget
  <2>4. CASE doing = "latex"
    <3>1. wants /\ text.id \in Sent
      BY <2>1, <2>4 DEF HasText, IsMine
    <3>2. Cardinality(Sent) <= 2
      BY <2>1, <2>4 DEF Budget
    <3> QED
      BY <3>1, <3>2
  <2> QED
    BY <2>1, <2>3, <2>4
<1>2. IInv /\ AgentInv => SecondOnlyAfterFirst
  BY <1>1 DEF SecondOnlyAfterFirst
<1> QED
  BY <1>2, AgentInductive, PTL

(* A step that ends an operation well hands out answers to its own calls.  *)
LEMMA ResultStep ==
  ASSUME IInv, AgentInv, AgentNext, doing # "nothing", doing' = "nothing",
         result'.kind = "success"
  PROVE  LET t == result'.text  l == result'.latex IN
         /\ t.id \in Sent /\ log[t.id].gen = t.gen
         /\ l # Nothing =>
              /\ l.id \in Sent /\ log[l.id].gen = l.gen
              /\ t.id < l.id
              /\ t.gen = l.gen \/ ~ alive[t.gen]
<1>1. \A k, t, l : /\ Result(k, t, l).kind = k
                   /\ Result(k, t, l).text = t /\ Result(k, t, l).latex = l
  BY DEF Result
<1>2. HasText /\ HasAnswer
  BY DEF AgentInv
<1>3. CASE TextReturns
  <2>1. /\ pc = "idle" /\ last = "ok"
        /\ result'.text = answer /\ result'.latex = Nothing
    BY <1>1, <1>3 DEF TextReturns, Finish
  <2> QED
    BY <1>2, <2>1 DEF HasAnswer, IsMine
<1>4. CASE LatexReturns
  <2>1. doing = "latex" /\ pc = "idle"
    BY <1>4 DEF LatexReturns
  <2>2. CASE last = "ok" /\ result' = Result("success", text, answer)
    BY <1>1, <1>2, <2>1, <2>2 DEF HasText, HasAnswer, IsMine
  <2>3. CASE result' = Result("success", text, Nothing)
    BY <1>1, <1>2, <2>1, <2>3 DEF HasText, IsMine
  <2> QED
    BY <1>1, <1>4, <2>2, <2>3 DEF LatexReturns, Finish
<1> QED
  BY <1>3, <1>4 DEF AgentNext, AgentStep, BeginOperation, CloseAgent, ClientMoves, OthersMove,
                    agent

(* Text and LaTeX of a successful result are answers to the operation's    *)
(* own requests, in this order, whatever was lost, late or restarted.      *)
THEOREM ResultsAreOwn == AgentSpec => ResultIsOwn
<1>1. IInv /\ AgentInv /\ [AgentNext]_agentVars =>
      [ doing # "nothing" /\ doing' = "nothing" /\ result'.kind = "success" =>
        LET t == result'.text  l == result'.latex IN
        /\ t.id \in Sent /\ log[t.id].gen = t.gen
        /\ l # Nothing =>
             /\ l.id \in Sent /\ log[l.id].gen = l.gen
             /\ t.id < l.id
             /\ t.gen = l.gen \/ ~ alive[t.gen] ]_agentVars
  BY ResultStep
<1> QED
  BY <1>1, AgentInductive, PTL DEF AgentSpec, ResultIsOwn
=============================================================================
