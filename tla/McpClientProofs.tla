--------------------------- MODULE McpClientProofs ---------------------------
(***************************************************************************)
(* Proofs about McpClient, for every value of its constants: the types,    *)
(* OnlyCurrentRuns, InitializedIsCurrent, AnswerIsOwn,                     *)
(* DrainedAfterSuccess and ToolSentAtMostOnce.                             *)
(*                                                                         *)
(* The argument for AnswerIsOwn.  Request ids are never reused, so the     *)
(* history log tells to which process each id was sent.  Whatever holds an *)
(* id, a pipe to a server, a pipe from it, the hand of a reader thread or  *)
(* the queue, holds it together with that very process: Owned.  The client *)
(* accepts only the newest id, and while it waits the newest id belongs to *)
(* the process it refers to.                                               *)
(***************************************************************************)
EXTENDS McpClient, FiniteSetTheorems, SequenceTheorems, TLAPS

(* close() is followed by a retry only after the first attempt.            *)
RetryOnce == pc \in {"close", "exit"} /\ after = "retry" => attempt = 1

TypeInv == TypeOK /\ RetryOnce

(* The log has one entry per request id.                                   *)
LogIsComplete == Len(log) = requestId

(* An answer carries the id of a request that was sent to its generation.  *)
Owned(lg, l) == IsAnswer(l) => l.id \in 1 .. Len(lg) /\ lg[l.id].gen = l.gen
AllOwned(lg, s) == \A i \in 1 .. Len(s) : Owned(lg, s[i])

LinesOwned ==
  /\ AllOwned(log, queue)
  /\ \A g \in Gen : Owned(log, held[g])
  /\ \A g \in Gen : AllOwned(log, stdout[g])

(* A request in the pipe to a process was sent to that process.            *)
SentTo(lg, g, s) ==
  \A i \in 1 .. Len(s) :
     s[i] # 0 => s[i] \in 1 .. Len(lg) /\ lg[s[i]].gen = g

RequestsOwned == \A g \in Gen : SentTo(log, g, stdin[g])

(* While a response is awaited the newest request is the one being sent,   *)
(* and it went to the process the client refers to.                        *)
AwaitedIsLast ==
  pc = "wait" =>
    /\ requestId # 0 /\ proc # 0
    /\ log[requestId] = [gen |-> proc, method |-> sending, call |-> calls]

(* A request is written only to a process that has been started.           *)
WriteHasProcess == pc = "write" => proc # 0

Ownership ==
  LogIsComplete /\ LinesOwned /\ RequestsOwned /\ AwaitedIsLast /\ WriteHasProcess

IInv == TypeInv /\ OnlyCurrentRuns /\ Ownership /\ InitializedIsCurrent

(***************************************************************************)
(* Types                                                                   *)
(***************************************************************************)

LogEntry == [gen : Nat, method : Method, call : Nat]
Outcome == Exception \cup {"none", "ok"}
Skipped == [blank : 0 .. MaxBlank, nonJson : 0 .. MaxNonJson]

(* The lines the model makes are lines.                                    *)
LEMMA LineTypes ==
  /\ \A k \in LineKind : Plain(k) \in Line
  /\ \A k \in LineKind, id \in Nat, g \in Nat :
        [kind |-> k, id |-> id, gen |-> g] \in Line
  /\ {"result", "error", "blank", "noise", "scalar", "object", "eof", "none"}
       \subseteq LineKind
  BY DEF Line, Plain, LineKind

(* Writing to one of the pipes.                                            *)
LEMMA PipeTypes ==
  ASSUME NEW S, NEW f \in [Gen -> Seq(S)], NEW g, NEW e \in S
  PROVE  [f EXCEPT ![g] = Append(@, e)] \in [Gen -> Seq(S)]
<1>1. ASSUME g \in Gen PROVE Append(f[g], e) \in Seq(S)
  <2>1. f[g] \in Seq(S)
    BY <1>1
  <2> QED
    BY <2>1, AppendProperties
<1> QED
  BY <1>1

(* Writing a request id to one server keeps every stdin pipe a sequence of *)
(* ids.                                                                    *)
LEMMA StdinTypes ==
  ASSUME TypeOK, NEW id \in Nat, stdin' = [stdin EXCEPT ![proc] = Append(@, id)]
  PROVE  stdin' \in [Gen -> Seq(Nat)]
<1>1. stdin \in [Gen -> Seq(Nat)]
  BY DEF TypeOK
<1> QED
  BY <1>1, PipeTypes

(* A server that emits a line keeps every stdout pipe a sequence of lines.  *)
LEMMA StdoutTypes ==
  ASSUME TypeOK, NEW g, NEW l \in Line, Emit(g, l)
  PROVE  stdout' \in [Gen -> Seq(Line)]
<1>1. stdout \in [Gen -> Seq(Line)]
  BY DEF TypeOK
<1> QED
  BY <1>1, PipeTypes DEF Emit

(* Reading from one of the pipes from the servers.                         *)
LEMMA TakeTypes ==
  ASSUME TypeOK, NEW g \in Gen, stdout[g] # <<>>,
         held' = [held EXCEPT ![g] = Head(stdout[g])],
         stdout' = [stdout EXCEPT ![g] = Tail(@)]
  PROVE  held' \in [Gen -> Line] /\ stdout' \in [Gen -> Seq(Line)]
<1>1. stdout \in [Gen -> Seq(Line)] /\ held \in [Gen -> Line]
  BY DEF TypeOK
<1>2. stdout[g] \in Seq(Line)
  BY <1>1
<1>3. Head(stdout[g]) \in Line /\ Tail(stdout[g]) \in Seq(Line)
  BY <1>2, HeadTailProperties
<1> QED
  BY <1>1, <1>3

(* The end of a process.                                                   *)
LEMMA AliveTypes ==
  ASSUME TypeOK, NEW g, alive' = [alive EXCEPT ![g] = FALSE]
  PROVE  alive' \in [Gen -> BOOLEAN]
<1>1. alive \in [Gen -> BOOLEAN]
  BY DEF TypeOK
<1> QED
  BY <1>1

(* An exception leaves the caller in a proper state.                       *)
LEMMA FailTypes ==
  ASSUME TypeInv, NEW exc \in Exception, Fail(exc), attempt' = attempt
  PROVE  pc' \in {"idle", "close"} /\ last' \in Outcome
         /\ after' \in {"idle", "retry", "raise"} /\ RetryOnce'
  BY DEF TypeInv, TypeOK, RetryOnce, Fail, Outcome, PC

(* A line received while waiting leaves the caller in a proper state.      *)
LEMMA AcceptTypes ==
  ASSUME TypeInv, NEW l \in Line, IsAnswer(l), MatchId(l), attempt' = attempt
  PROVE  /\ pc' \in {"idle", "close", "ensure"} /\ last' \in Outcome
         /\ after' \in {"idle", "retry", "raise"} /\ RetryOnce'
         /\ sending' \in Method /\ initialized' \in BOOLEAN
<1>0. "MaximaError" \in Exception
  BY DEF Exception
<1>1. ASSUME Fail("MaximaError"), UNCHANGED <<sending, initialized>>
      PROVE  /\ pc' \in {"idle", "close", "ensure"} /\ last' \in Outcome
             /\ after' \in {"idle", "retry", "raise"} /\ RetryOnce'
             /\ sending' \in Method /\ initialized' \in BOOLEAN
  <2>1. pc' \in {"idle", "close"} /\ last' \in Outcome
        /\ after' \in {"idle", "retry", "raise"} /\ RetryOnce'
    BY <1>0, <1>1, FailTypes
  <2> QED
    BY <1>1, <2>1 DEF TypeInv, TypeOK
<1>2. CASE l.id # requestId
  BY <1>1, <1>2 DEF MatchId
<1>3. CASE l.id = requestId /\ l.kind = "error"
  BY <1>1, <1>3 DEF MatchId, Accept
<1>4. CASE l.id = requestId /\ l.kind # "error"
  <2>1. sending \in {"initialize", "initialized", "tools/call"} /\ last \in Outcome
        /\ initialized \in BOOLEAN /\ after \in {"idle", "retry", "raise"}
    BY DEF TypeInv, TypeOK, Outcome, Method
  <2>2. Accept(l) /\ "ok" \in Outcome
    BY <1>4 DEF MatchId, Outcome
  <2>3. UNCHANGED after /\ initialized' = (initialized \/ sending = "initialized")
    BY <1>4, <2>2 DEF Accept
  <2>4. initialized' \in BOOLEAN
    BY <2>3
  <2>5. pc' \in {"idle", "ensure"} /\ last' \in Outcome /\ sending' \in Method
    BY <1>4, <2>1, <2>2 DEF Accept, Method
  <2> QED
    BY <2>1, <2>3, <2>4, <2>5 DEF RetryOnce
<1> QED
  BY <1>2, <1>3, <1>4

(* A received line is matched as an answer, skipped or refused.            *)
LEMMA ReceiveCases ==
  ASSUME ReceiveLine
  PROVE  \/ IsAnswer(Head(queue)) /\ MatchId(Head(queue))
         \/ UNCHANGED <<pc, after, last, sending, initialized>>
         \/ \E exc \in {"MaximaError", "AttributeError"} :
               Fail(exc) /\ UNCHANGED <<sending, initialized>>
  BY DEF ReceiveLine, SkipBlank, SkipNonJson, Refuse

(* A line that is skipped is counted within the limits, or not at all.     *)
LEMMA SkipTypes ==
  ASSUME TypeInv, SkipBlank \/ SkipNonJson
  PROVE  \/ skipped' \in Skipped /\ UNCHANGED <<pc, after, last>>
         \/ Fail("MaximaError") /\ UNCHANGED skipped
<1>1. /\ skipped \in Skipped /\ skipped.blank \in 0 .. MaxBlank
      /\ skipped.nonJson \in 0 .. MaxNonJson
  BY DEF TypeInv, TypeOK, Skipped
<1>2. skipped.blank < MaxBlank => [skipped EXCEPT !.blank = @ + 1] \in Skipped
  BY <1>1, ClientAssumption DEF Skipped
<1>3. skipped.nonJson < MaxNonJson => [skipped EXCEPT !.nonJson = @ + 1] \in Skipped
  BY <1>1, ClientAssumption DEF Skipped
<1> QED
  BY <1>1, <1>2, <1>3 DEF SkipBlank, SkipNonJson

(* Every step keeps the types, and counts the attempts of the handshake.   *)
LEMMA TypeStep == TypeInv /\ [Next]_vars => TypeInv'
<1> SUFFICES ASSUME TypeInv, [Next]_vars PROVE TypeInv'
  OBVIOUS
<1> USE ClientAssumption DEF TypeInv, TypeOK, RetryOnce, PC, Method
<1>1. CASE CallTool
  BY <1>1 DEF CallTool, caller, fields, server, readers
<1>2. CASE UserClose
  BY <1>2 DEF UserClose, caller, fields, server, readers
<1>3. CASE StayConnected
  BY <1>3 DEF StayConnected, caller, fields, server, readers, Connected
<1>4. CASE StartServer
  <2>1. gens + 1 \in Gen
    BY <1>4 DEF StartServer, Gen
  <2>2. /\ alive' \in [Gen -> BOOLEAN] /\ stdinOpen' \in [Gen -> BOOLEAN]
        /\ reading' \in [Gen -> BOOLEAN]
    BY <1>4, <2>1 DEF StartServer
  <2>3. gens' \in 0 .. MaxGen /\ proc' \in 0 .. gens' /\ queue' \in Seq(Line)
    BY <1>4 DEF StartServer
  <2>4. pc' \in PC /\ initialized' \in BOOLEAN /\ RetryOnce'
    BY <1>4 DEF StartServer
  <2> QED
    BY <1>4, <2>2, <2>3, <2>4 DEF StartServer, caller, fields, server, readers
<1>5. CASE SpawnFails
  <2>1. "OSError" \in Exception
    BY DEF Exception
  <2>2. pc' \in {"idle", "close"} /\ last' \in Outcome
        /\ after' \in {"idle", "retry", "raise"} /\ RetryOnce'
    BY <1>5, <2>1, FailTypes DEF SpawnFails
  <2> QED
    BY <1>5, <2>2 DEF SpawnFails, Outcome, fields, server, readers
<1>6. CASE WriteRequest
  <2>1. "OSError" \in Exception
    BY DEF Exception
  <2>2. pc' \in PC /\ last' \in Outcome
        /\ after' \in {"idle", "retry", "raise"} /\ RetryOnce'
    <3>1. CASE Fail("OSError") /\ attempt' = attempt
      BY <2>1, <3>1, FailTypes
    <3>2. CASE pc' = "wait" /\ UNCHANGED <<after, last>>
      BY <3>2 DEF Outcome
    <3> QED
      BY <1>6, <3>1, <3>2 DEF WriteRequest
  <2>3. requestId' \in Nat /\ skipped' \in Skipped
    <3>1. NoneSkipped \in Skipped /\ skipped \in Skipped
      BY DEF NoneSkipped, Skipped
    <3>2. requestId' = requestId + 1 /\ (skipped' = NoneSkipped \/ skipped' = skipped)
      BY <1>6 DEF WriteRequest
    <3> QED
      BY <3>1, <3>2
  <2>4. [gen |-> proc, method |-> sending, call |-> calls] \in LogEntry
    BY DEF LogEntry
  <2>5. log' \in Seq(LogEntry)
    BY <1>6, <2>4, AppendProperties DEF WriteRequest, LogEntry
  <2>6. stdin' \in [Gen -> Seq(Nat)]
    <3>1. requestId + 1 \in Nat
      OBVIOUS
    <3>2. \/ UNCHANGED stdin
          \/ stdin' = [stdin EXCEPT ![proc] = Append(@, requestId + 1)]
      BY <1>6 DEF WriteRequest
    <3> QED
      BY <3>1, <3>2, StdinTypes
  <2> QED
    BY <1>6, <2>2, <2>3, <2>5, <2>6 DEF WriteRequest, Outcome, Skipped, LogEntry, readers
<1>7. CASE ReceiveLine
  <2> DEFINE l == Head(queue)
  <2>1. l \in Line /\ queue' \in Seq(Line)
    BY <1>7, HeadTailProperties DEF ReceiveLine
  <2>2. UNCHANGED <<attempt, calls, proc, requestId, server, readers, log>>
    BY <1>7 DEF ReceiveLine
  <2> HIDE DEF l
  <2>3. /\ pc' \in PC /\ last' \in Outcome
        /\ after' \in {"idle", "retry", "raise"} /\ RetryOnce'
        /\ sending' \in Method /\ initialized' \in BOOLEAN /\ skipped' \in Skipped
    <3>1. CASE IsAnswer(l) /\ MatchId(l) /\ UNCHANGED skipped
      BY <2>1, <2>2, <3>1, AcceptTypes DEF Skipped
    <3>2. CASE /\ skipped' \in Skipped
               /\ UNCHANGED <<pc, after, last, sending, initialized>>
      BY <2>2, <3>2 DEF Outcome
    <3>3. ASSUME NEW exc \in Exception, Fail(exc),
                 UNCHANGED <<skipped, sending, initialized>>
          PROVE  /\ pc' \in PC /\ last' \in Outcome
                 /\ after' \in {"idle", "retry", "raise"} /\ RetryOnce'
                 /\ sending' \in Method /\ initialized' \in BOOLEAN /\ skipped' \in Skipped
      <4>1. pc' \in {"idle", "close"} /\ last' \in Outcome
            /\ after' \in {"idle", "retry", "raise"} /\ RetryOnce'
        BY <2>2, <3>3, FailTypes
      <4> QED
        BY <3>3, <4>1 DEF Skipped
    <3>4. {"MaximaError", "AttributeError"} \subseteq Exception
      BY DEF Exception
    <3>5. SkipBlank \/ SkipNonJson =>
            \/ skipped' \in Skipped /\ UNCHANGED <<pc, after, last>>
            \/ Fail("MaximaError") /\ UNCHANGED skipped
      BY SkipTypes
    <3>6. \/ IsAnswer(l) /\ MatchId(l) /\ UNCHANGED skipped
          \/ skipped' \in Skipped /\ UNCHANGED <<pc, after, last, sending, initialized>>
          \/ \E exc \in {"MaximaError", "AttributeError"} :
                Fail(exc) /\ UNCHANGED <<skipped, sending, initialized>>
      BY <1>7, <3>5 DEF ReceiveLine, Refuse, l
    <3> QED
      BY <3>1, <3>2, <3>3, <3>4, <3>6
  <2> QED
    BY <2>1, <2>2, <2>3 DEF Outcome, Skipped, server, readers
<1>8. CASE Timeout
  <2>1. "MaximaTimeoutError" \in Exception
    BY DEF Exception
  <2>2. pc' \in {"idle", "close"} /\ last' \in Outcome
        /\ after' \in {"idle", "retry", "raise"} /\ RetryOnce'
    BY <1>8, <2>1, FailTypes DEF Timeout
  <2> QED
    BY <1>8, <2>2 DEF Timeout, Outcome, fields, server, readers
<1>9. CASE CloseStdin
  <2>1. stdin' \in [Gen -> Seq(Nat)] /\ stdinOpen' \in [Gen -> BOOLEAN]
    <3>1. 0 \in Nat
      OBVIOUS
    <3>2. UNCHANGED stdin \/ stdin' = [stdin EXCEPT ![proc] = Append(@, 0)]
      BY <1>9 DEF CloseStdin
    <3>3. stdinOpen' \in [Gen -> BOOLEAN]
      BY <1>9 DEF CloseStdin
    <3> QED
      BY <3>1, <3>2, <3>3, StdinTypes
  <2> QED
    BY <1>9, <2>1 DEF CloseStdin, fields, readers
<1>10. CASE ReapServer
  <2>0. /\ alive' = [alive EXCEPT ![proc] = FALSE] /\ UNCHANGED gens
        /\ proc' = 0 /\ initialized' = FALSE
    BY <1>10 DEF ReapServer
  <2>1. alive' \in [Gen -> BOOLEAN]
    BY <2>0, AliveTypes
  <2>3. proc' \in 0 .. gens'
    BY <2>0
  <2>4. initialized' \in BOOLEAN
    BY <2>0
  <2>2. /\ pc' \in PC /\ attempt' \in 1 .. 2 /\ sending' \in Method /\ RetryOnce'
        /\ after' \in {"idle", "retry", "raise"}
    BY <1>10 DEF ReapServer, Resume
  <2> QED
    BY <1>10, <2>1, <2>2, <2>3, <2>4 DEF ReapServer, readers
<1>11. CASE CloseNothing
  <2>1. /\ pc' \in PC /\ attempt' \in 1 .. 2 /\ sending' \in Method /\ RetryOnce'
        /\ after' \in {"idle", "retry", "raise"}
    BY <1>11 DEF CloseNothing, Resume
  <2> QED
    BY <1>11, <2>1 DEF CloseNothing, fields, server, readers
<1>12. ASSUME NEW g \in Gen, ServeRequest(g) PROVE TypeInv'
  <2>1. stdin' \in [Gen -> Seq(Nat)] /\ Head(stdin[g]) \in Nat
    BY <1>12, HeadTailProperties DEF ServeRequest
  <2>3. UNCHANGED stdout \/ \E l \in Line : Emit(g, l)
    <3>1. g \in Nat /\ {"result", "error"} \subseteq LineKind
          /\ Plain("noise") \in Line /\ Plain("object") \in Line
      BY LineTypes DEF Gen
    <3>2. \A k \in {"result", "error"}, id \in Nat :
             [kind |-> k, id |-> id, gen |-> g] \in Line
      BY <3>1, LineTypes
    <3> QED
      BY <1>12, <2>1, <3>1, <3>2 DEF ServeRequest
  <2>4. stdout' \in [Gen -> Seq(Line)]
    BY <2>3, StdoutTypes
  <2> QED
    BY <1>12, <2>1, <2>4, SMTT(30), ZenonT(30) DEF ServeRequest, caller, fields, readers
<1>13. ASSUME NEW g \in Gen, PrintLine(g) PROVE TypeInv'
  <2>1. \E l \in Line : Emit(g, l)
    BY <1>13, LineTypes, ClientAssumption DEF PrintLine
  <2>2. stdout' \in [Gen -> Seq(Line)]
    BY <2>1, StdoutTypes
  <2> QED
    BY <1>13, <2>2 DEF PrintLine, caller, fields, readers
<1>14. ASSUME NEW g \in Gen, ServerExits(g) PROVE TypeInv'
  BY <1>14 DEF ServerExits, caller, fields, server, readers
<1>15. ASSUME NEW g \in Gen, ServerDies(g) PROVE TypeInv'
  <2>1. UNCHANGED stdout \/ \E l \in Line : Emit(g, l)
    BY <1>15, LineTypes DEF ServerDies
  <2>2. stdout' \in [Gen -> Seq(Line)]
    BY <2>1, StdoutTypes
  <2> QED
    BY <1>15, <2>2, SMTT(30), ZenonT(30) DEF ServerDies, caller, fields, readers
<1>16. ASSUME NEW g \in Gen, ReaderTakes(g) PROVE TypeInv'
  <2>1. held' \in [Gen -> Line] /\ stdout' \in [Gen -> Seq(Line)]
    <3>1. CASE stdout[g] # <<>> /\ held' = [held EXCEPT ![g] = Head(stdout[g])]
               /\ stdout' = [stdout EXCEPT ![g] = Tail(@)]
      BY <3>1, TakeTypes
    <3>2. CASE held' = [held EXCEPT ![g] = Plain("eof")] /\ UNCHANGED stdout
      BY <3>2, LineTypes
    <3> QED
      BY <1>16, <3>1, <3>2 DEF ReaderTakes
  <2> QED
    BY <1>16, <2>1 DEF ReaderTakes, caller, fields
<1>17. ASSUME NEW g \in Gen, ReaderPuts(g) PROVE TypeInv'
  <2>1. queue' \in Seq(Line) /\ held' \in [Gen -> Line] /\ reading' \in [Gen -> BOOLEAN]
    BY <1>17, AppendProperties, LineTypes DEF ReaderPuts
  <2> QED
    BY <1>17, <2>1 DEF ReaderPuts, caller, fields, server
<1>18. CASE UNCHANGED vars
  BY <1>18 DEF vars, caller, fields, server, readers
<1> QED
  BY <1>1, <1>2, <1>3, <1>4, <1>5, <1>6, <1>7, <1>8, <1>9, <1>10, <1>11, <1>12, <1>13, <1>14, <1>15, <1>16, <1>17, <1>18 DEF Next, ClientStep

(* The types of the initial state.                                         *)
LEMMA InitTypes == Init => TypeInv
<1> SUFFICES ASSUME Init PROVE TypeInv
  OBVIOUS
<1>1. /\ pc \in PC /\ sending \in Method /\ attempt \in 1 .. 2
      /\ after \in {"idle", "retry", "raise"} /\ last \in Exception \cup {"none", "ok"}
      /\ skipped \in [blank : 0 .. MaxBlank, nonJson : 0 .. MaxNonJson]
  BY ClientAssumption DEF Init, PC, Method, NoneSkipped
<1>2. /\ calls \in 0 .. MaxCalls /\ gens \in 0 .. MaxGen
      /\ proc \in 0 .. gens /\ requestId \in Nat
  BY ClientAssumption DEF Init
<1>3. /\ initialized \in BOOLEAN /\ alive \in [Gen -> BOOLEAN]
      /\ stdinOpen \in [Gen -> BOOLEAN] /\ reading \in [Gen -> BOOLEAN]
  BY DEF Init
<1>4. /\ queue \in Seq(Line) /\ log \in Seq([gen : Nat, method : Method, call : Nat])
      /\ stdin \in [Gen -> Seq(Nat)] /\ stdout \in [Gen -> Seq(Line)]
  BY EmptySeq DEF Init
<1>5. held \in [Gen -> Line]
  BY LineTypes DEF Init
<1> QED
  BY <1>1, <1>2, <1>3, <1>4, <1>5 DEF Init, TypeInv, TypeOK, RetryOnce

(* Every reachable state is well typed, for any bounds and any failures.   *)
THEOREM TypesAreRight == Spec => []TypeInv
  BY InitTypes, TypeStep, PTL DEF Spec

(***************************************************************************)
(* Ownership of answers and requests                                       *)
(***************************************************************************)

(* Appending an owned line, or taking the first line, keeps lines owned.   *)
LEMMA OwnedAppend ==
  ASSUME NEW lg, NEW s \in Seq(Line), AllOwned(lg, s), NEW l \in Line, Owned(lg, l)
  PROVE  AllOwned(lg, Append(s, l))
<1>1. /\ Len(Append(s, l)) = Len(s) + 1 /\ Len(s) \in Nat
      /\ \A i \in 1 .. Len(s) : Append(s, l)[i] = s[i]
      /\ Append(s, l)[Len(s) + 1] = l
  BY AppendProperties, LenProperties
<1>2. \A i \in 1 .. Len(s) + 1 : Owned(lg, Append(s, l)[i])
  BY <1>1 DEF AllOwned
<1> QED
  BY <1>1, <1>2 DEF AllOwned

(* Taking the head off a queue leaves a queue of owned lines.              *)
LEMMA OwnedTail ==
  ASSUME NEW lg, NEW s \in Seq(Line), s # <<>>, AllOwned(lg, s)
  PROVE  AllOwned(lg, Tail(s)) /\ Owned(lg, Head(s))
<1>1. /\ Len(Tail(s)) = Len(s) - 1 /\ Len(s) \in Nat \ {0}
      /\ \A i \in 1 .. Len(Tail(s)) : Tail(s)[i] = s[i + 1]
      /\ Head(s) = s[1]
  BY HeadTailProperties, EmptySeq
<1>2. \A i \in 1 .. Len(Tail(s)) : i + 1 \in 1 .. Len(s)
  BY <1>1
<1> QED
  BY <1>1, <1>2 DEF AllOwned

(* Ids are never reused: a new entry of the log changes no owner.          *)
LEMMA OwnedGrows ==
  ASSUME NEW lg \in Seq(LogEntry), NEW e \in LogEntry
  PROVE  /\ \A l \in Line : Owned(lg, l) => Owned(Append(lg, e), l)
         /\ \A s \in Seq(Line) : AllOwned(lg, s) => AllOwned(Append(lg, e), s)
         /\ \A g \in Gen, s \in Seq(Nat) : SentTo(lg, g, s) => SentTo(Append(lg, e), g, s)
<1>1. /\ Len(Append(lg, e)) = Len(lg) + 1 /\ Len(lg) \in Nat
      /\ \A i \in 1 .. Len(lg) : Append(lg, e)[i] = lg[i]
  BY AppendProperties, LenProperties
<1>2. \A l \in Line : Owned(lg, l) => Owned(Append(lg, e), l)
  BY <1>1 DEF Owned, Line
<1>3. \A s \in Seq(Line) : AllOwned(lg, s) => AllOwned(Append(lg, e), s)
  BY <1>2, ElementOfSeq DEF AllOwned
<1>4. \A g \in Gen, s \in Seq(Nat) : SentTo(lg, g, s) => SentTo(Append(lg, e), g, s)
  BY <1>1, ElementOfSeq DEF SentTo
<1> QED
  BY <1>2, <1>3, <1>4

(* A pipe still holds only ids sent to its own server after one more such  *)
(* id is written.                                                          *)
LEMMA SentToAppend ==
  ASSUME NEW lg, NEW g \in Gen, NEW s \in Seq(Nat), SentTo(lg, g, s), NEW id \in Nat,
         id # 0 => id \in 1 .. Len(lg) /\ lg[id].gen = g
  PROVE  SentTo(lg, g, Append(s, id))
<1>1. /\ Len(Append(s, id)) = Len(s) + 1 /\ Len(s) \in Nat
      /\ \A i \in 1 .. Len(s) : Append(s, id)[i] = s[i]
      /\ Append(s, id)[Len(s) + 1] = id
  BY AppendProperties, LenProperties
<1> QED
  BY <1>1 DEF SentTo

(* A server that takes a request leaves a pipe of its own requests.         *)
LEMMA SentToTail ==
  ASSUME NEW lg, NEW g \in Gen, NEW s \in Seq(Nat), s # <<>>, SentTo(lg, g, s)
  PROVE  /\ SentTo(lg, g, Tail(s))
         /\ Head(s) # 0 => Head(s) \in 1 .. Len(lg) /\ lg[Head(s)].gen = g
<1>1. /\ Len(Tail(s)) = Len(s) - 1 /\ Len(s) \in Nat \ {0}
      /\ \A i \in 1 .. Len(Tail(s)) : Tail(s)[i] = s[i + 1]
      /\ Head(s) = s[1]
  BY HeadTailProperties, EmptySeq
<1>2. \A i \in 1 .. Len(Tail(s)) : i + 1 \in 1 .. Len(s)
  BY <1>1
<1> QED
  BY <1>1, <1>2 DEF SentTo

(* No step of the client, a server or a reader thread puts a forged or     *)
(* misattributed answer on a pipe, in a hand or in the queue.              *)
LEMMA LinesStep == TypeInv /\ Ownership /\ [Next]_vars => LinesOwned'
<1> SUFFICES ASSUME TypeInv, Ownership, [Next]_vars PROVE LinesOwned'
  OBVIOUS
<1>0. /\ queue \in Seq(Line) /\ held \in [Gen -> Line] /\ log \in Seq(LogEntry)
      /\ \A g \in Gen : stdout[g] \in Seq(Line) /\ stdin[g] \in Seq(Nat)
      /\ stdout \in [Gen -> Seq(Line)]
  BY DEF TypeInv, TypeOK, LogEntry
<1>a. /\ AllOwned(log, queue)
      /\ \A g \in Gen : Owned(log, held[g])
      /\ \A g \in Gen : AllOwned(log, stdout[g])
      /\ \A g \in Gen : SentTo(log, g, stdin[g])
  BY DEF Ownership, LinesOwned, RequestsOwned
<1>b. \A k \in LineKind \ {"result", "error"} : Owned(log, Plain(k))
  BY DEF Owned, Plain, IsAnswer
<1>1. CASE UNCHANGED <<log, queue, held, stdout>>
  BY <1>a, <1>1 DEF LinesOwned
<1>2. CASE StartServer
  BY <1>a, <1>2 DEF StartServer, LinesOwned, AllOwned
<1>3. CASE WriteRequest
  <2>1. [gen |-> proc, method |-> sending, call |-> calls] \in LogEntry
    BY DEF TypeInv, TypeOK, LogEntry
  <2>2. UNCHANGED <<queue, held, stdout>>
    BY <1>3 DEF WriteRequest, readers
  <2>3. log' = Append(log, [gen |-> proc, method |-> sending, call |-> calls])
    BY <1>3 DEF WriteRequest
  <2>4. AllOwned(log', queue) /\ \A g \in Gen : Owned(log', held[g]) /\ AllOwned(log', stdout[g])
    BY <1>0, <1>a, <2>1, <2>3, OwnedGrows
  <2> QED
    BY <2>2, <2>4 DEF LinesOwned
<1>4. CASE ReceiveLine
  <2>1. UNCHANGED <<log, held, stdout>> /\ queue' = Tail(queue) /\ queue # <<>>
    BY <1>4 DEF ReceiveLine, server, readers
  <2>2. AllOwned(log, Tail(queue))
    BY <1>0, <1>a, <2>1, OwnedTail
  <2> QED
    BY <1>a, <2>1, <2>2 DEF LinesOwned
<1>5. ASSUME NEW g \in Gen, UNCHANGED <<log, queue, held>>,
             NEW l \in Line, Owned(log, l), Emit(g, l)
      PROVE  LinesOwned'
  <2>1. stdout' = [stdout EXCEPT ![g] = Append(@, l)]
    BY <1>5 DEF Emit
  <2>2. AllOwned(log, Append(stdout[g], l))
    BY <1>0, <1>a, <1>5, OwnedAppend
  <2>3. \A h \in Gen : AllOwned(log, stdout'[h])
    BY <1>0, <1>a, <2>1, <2>2
  <2> QED
    BY <1>a, <1>5, <2>3 DEF LinesOwned
<1>6. ASSUME NEW g \in Gen, ServeRequest(g) PROVE LinesOwned'
  <2>1. UNCHANGED <<log, queue, held>> /\ stdin[g] # <<>>
    BY <1>6 DEF ServeRequest, readers
  <2>2. /\ Head(stdin[g]) \in Nat
        /\ Head(stdin[g]) # 0 => /\ Head(stdin[g]) \in 1 .. Len(log)
                                 /\ log[Head(stdin[g])].gen = g
    BY <1>0, <1>a, <2>1, SentToTail, HeadTailProperties
  <2>3. \/ UNCHANGED stdout
        \/ \E k \in {"noise", "object"} : Emit(g, Plain(k))
        \/ \E k \in {"result", "error"} :
              Head(stdin[g]) # 0 /\ Emit(g, [kind |-> k, id |-> Head(stdin[g]), gen |-> g])
    BY <1>6 DEF ServeRequest
  <2>4. CASE UNCHANGED stdout
    BY <1>1, <2>1, <2>4
  <2>5. CASE \E k \in {"noise", "object"} : Emit(g, Plain(k))
    BY <1>5, <1>b, <2>1, <2>5, LineTypes
  <2>6. ASSUME NEW k \in {"result", "error"}, Head(stdin[g]) # 0,
               Emit(g, [kind |-> k, id |-> Head(stdin[g]), gen |-> g])
        PROVE  LinesOwned'
    <3>1. [kind |-> k, id |-> Head(stdin[g]), gen |-> g] \in Line
      BY <2>2, LineTypes DEF Gen
    <3>2. Owned(log, [kind |-> k, id |-> Head(stdin[g]), gen |-> g])
      BY <2>2, <2>6 DEF Owned
    <3> QED
      BY <1>5, <2>1, <2>6, <3>1, <3>2
  <2> QED
    BY <2>3, <2>4, <2>5, <2>6
<1>7. ASSUME NEW g \in Gen, PrintLine(g) PROVE LinesOwned'
  <2>1. UNCHANGED <<log, queue, held>> /\ \E k \in Printable : Emit(g, Plain(k))
    BY <1>7 DEF PrintLine, readers
  <2> QED
    BY <1>5, <1>b, <2>1, LineTypes, ClientAssumption
<1>8. ASSUME NEW g \in Gen, ServerDies(g) PROVE LinesOwned'
  <2>1. UNCHANGED <<log, queue, held>> /\ (UNCHANGED stdout \/ Emit(g, Plain("object")))
    BY <1>8 DEF ServerDies, readers
  <2> QED
    BY <1>1, <1>5, <1>b, <2>1, LineTypes
<1>9. ASSUME NEW g \in Gen, ReaderTakes(g) PROVE LinesOwned'
  <2>1. UNCHANGED <<log, queue>>
    BY <1>9 DEF ReaderTakes
  <2>2. CASE /\ stdout[g] # <<>>
             /\ held' = [held EXCEPT ![g] = Head(stdout[g])]
             /\ stdout' = [stdout EXCEPT ![g] = Tail(@)]
    <3>1. AllOwned(log, Tail(stdout[g])) /\ Owned(log, Head(stdout[g]))
      BY <1>0, <1>a, <2>2, OwnedTail
    <3>2. \A h \in Gen : AllOwned(log, stdout'[h]) /\ Owned(log, held'[h])
      BY <1>0, <1>a, <2>2, <3>1
    <3> QED
      BY <1>a, <2>1, <3>2 DEF LinesOwned
  <2>3. CASE held' = [held EXCEPT ![g] = Plain("eof")] /\ UNCHANGED stdout
    <3>1. Owned(log, Plain("eof"))
      BY <1>b, LineTypes
    <3>2. \A h \in Gen : Owned(log, held'[h])
      BY <1>0, <1>a, <2>3, <3>1
    <3> QED
      BY <1>a, <2>1, <2>3, <3>2 DEF LinesOwned
  <2> QED
    BY <1>9, <2>2, <2>3 DEF ReaderTakes
<1>10. ASSUME NEW g \in Gen, ReaderPuts(g) PROVE LinesOwned'
  <2>1. /\ UNCHANGED <<log, stdout>> /\ queue' = Append(queue, held[g])
        /\ held' = [held EXCEPT ![g] = Plain("none")]
    BY <1>10 DEF ReaderPuts, server
  <2>2. AllOwned(log, Append(queue, held[g]))
    BY <1>0, <1>a, OwnedAppend
  <2>3. Owned(log, Plain("none"))
    BY <1>b, LineTypes
  <2>4. \A h \in Gen : Owned(log, held'[h])
    BY <1>0, <1>a, <2>1, <2>3
  <2> QED
    BY <1>a, <2>1, <2>2, <2>4 DEF LinesOwned
<1>11. \/ UNCHANGED <<log, queue, held, stdout>>
       \/ StartServer \/ WriteRequest \/ ReceiveLine
       \/ \E g \in Gen : \/ ServeRequest(g) \/ PrintLine(g) \/ ServerDies(g)
                         \/ ReaderTakes(g) \/ ReaderPuts(g)
  BY DEF Next, ClientStep, vars, CallTool, UserClose, StayConnected, SpawnFails, Timeout,
         CloseStdin, ReapServer, CloseNothing, ServerExits, caller, fields, server, readers
<1> QED
  BY <1>1, <1>2, <1>3, <1>4, <1>6, <1>7, <1>8, <1>9, <1>10, <1>11

(* No step misdelivers a request: ids reach the server they were logged    *)
(* for.                                                                    *)
LEMMA RequestsStep == TypeInv /\ Ownership /\ [Next]_vars => RequestsOwned'
<1> SUFFICES ASSUME TypeInv, Ownership, [Next]_vars PROVE RequestsOwned'
  OBVIOUS
<1>0. /\ log \in Seq(LogEntry) /\ requestId \in Nat /\ Len(log) = requestId
      /\ stdin \in [Gen -> Seq(Nat)] /\ \A g \in Gen : stdin[g] \in Seq(Nat)
      /\ [gen |-> proc, method |-> sending, call |-> calls] \in LogEntry
  BY DEF TypeInv, TypeOK, LogEntry, Ownership, LogIsComplete
<1>a. \A g \in Gen : SentTo(log, g, stdin[g])
  BY DEF Ownership, RequestsOwned
<1>1. CASE UNCHANGED <<log, stdin>>
  BY <1>a, <1>1 DEF RequestsOwned
<1>2. CASE WriteRequest
  <2>1. log' = Append(log, [gen |-> proc, method |-> sending, call |-> calls])
    BY <1>2 DEF WriteRequest
  <2>2. \A g \in Gen : SentTo(log', g, stdin[g])
    BY <1>0, <1>a, <2>1, OwnedGrows
  <2>3. /\ requestId + 1 \in 1 .. Len(log') /\ requestId + 1 \in Nat
        /\ log'[requestId + 1].gen = proc
    BY <1>0, <2>1, AppendProperties
  <2>4. CASE UNCHANGED stdin
    BY <2>2, <2>4 DEF RequestsOwned
  <2>5. CASE stdin' = [stdin EXCEPT ![proc] = Append(@, requestId + 1)]
    <3>1. ASSUME NEW g \in Gen PROVE SentTo(log', g, stdin'[g])
      <4>1. CASE g = proc
        <5>1. SentTo(log', g, Append(stdin[g], requestId + 1))
          BY <1>0, <2>2, <2>3, <4>1, SentToAppend
        <5> QED
          BY <1>0, <2>5, <4>1, <5>1
      <4>2. CASE g # proc
        BY <1>0, <2>2, <2>5, <4>2
      <4> QED
        BY <4>1, <4>2
    <3> QED
      BY <3>1 DEF RequestsOwned
  <2> QED
    BY <1>2, <2>4, <2>5 DEF WriteRequest
<1>3. CASE CloseStdin
  <2>1. UNCHANGED log /\ (UNCHANGED stdin \/ stdin' = [stdin EXCEPT ![proc] = Append(@, 0)])
    BY <1>3 DEF CloseStdin
  <2>2. \A g \in Gen : SentTo(log, g, Append(stdin[g], 0))
    BY <1>0, <1>a, SentToAppend
  <2>3. \A g \in Gen : SentTo(log, g, stdin'[g])
    BY <1>0, <1>a, <2>1, <2>2
  <2> QED
    BY <2>1, <2>3 DEF RequestsOwned
<1>4. ASSUME NEW g \in Gen, ServeRequest(g) PROVE RequestsOwned'
  <2>1. UNCHANGED log /\ stdin[g] # <<>> /\ stdin' = [stdin EXCEPT ![g] = Tail(@)]
    BY <1>4 DEF ServeRequest
  <2>2. SentTo(log, g, Tail(stdin[g]))
    BY <1>0, <1>a, <2>1, SentToTail
  <2>3. \A h \in Gen : SentTo(log, h, stdin'[h])
    BY <1>0, <1>a, <2>1, <2>2
  <2> QED
    BY <2>1, <2>3 DEF RequestsOwned
<1>5. \/ UNCHANGED <<log, stdin>> \/ WriteRequest \/ CloseStdin
      \/ \E g \in Gen : ServeRequest(g)
  BY DEF Next, ClientStep, vars, CallTool, UserClose, StayConnected, StartServer, SpawnFails,
         ReceiveLine, Timeout, ReapServer, CloseNothing, PrintLine, ServerExits, ServerDies,
         ReaderTakes, ReaderPuts, caller, fields, server, readers
<1> QED
  BY <1>1, <1>2, <1>3, <1>4, <1>5

(* What a step does to the log, and what an awaited request is.            *)
LEMMA AwaitStep ==
  TypeInv /\ Ownership /\ [Next]_vars => LogIsComplete' /\ AwaitedIsLast' /\ WriteHasProcess'
<1> SUFFICES ASSUME TypeInv, Ownership, [Next]_vars
             PROVE  LogIsComplete' /\ AwaitedIsLast' /\ WriteHasProcess'
  OBVIOUS
<1> USE DEF LogIsComplete, AwaitedIsLast, WriteHasProcess
<1>0. /\ log \in Seq(LogEntry) /\ requestId \in Nat /\ Len(log) = requestId
      /\ [gen |-> proc, method |-> sending, call |-> calls] \in LogEntry /\ gens \in Nat
      /\ AwaitedIsLast /\ WriteHasProcess
  BY ClientAssumption DEF TypeInv, TypeOK, LogEntry, Ownership
<1>1. CASE UNCHANGED <<log, requestId, proc, sending, calls, pc>>
  BY <1>0, <1>1
<1>2. CASE WriteRequest
  <2>1. /\ Len(log') = requestId' /\ requestId' # 0
        /\ log'[requestId'] = [gen |-> proc, method |-> sending, call |-> calls]
    BY <1>0, <1>2, AppendProperties DEF WriteRequest
  <2> QED
    BY <1>0, <1>2, <2>1 DEF WriteRequest, Fail
<1>3. CASE UNCHANGED <<log, requestId>> /\ pc' \notin {"wait", "write"}
  BY <1>0, <1>3
<1>4. CASE StayConnected
  BY <1>0, <1>4 DEF StayConnected, Connected, fields
<1>5. CASE StartServer
  BY <1>0, <1>5 DEF StartServer
<1>6. CASE ReceiveLine
  <2>1. UNCHANGED <<log, requestId, proc, calls>> /\ pc = "wait"
    BY <1>6 DEF ReceiveLine
  <2>2. (pc' = pc /\ sending' = sending) \/ pc' \in {"idle", "close", "ensure"}
    <3>1. \A exc : Fail(exc) => pc' \in {"idle", "close"}
      BY DEF Fail
    <3>2. \A l : MatchId(l) => pc' \in {"idle", "close", "ensure"}
      <4> SUFFICES ASSUME NEW l, MatchId(l) PROVE pc' \in {"idle", "close", "ensure"}
        OBVIOUS
      <4>1. sending \in Method
        BY DEF TypeInv, TypeOK
      <4> QED
        BY <3>1, <4>1 DEF MatchId, Accept, Method
    <3> QED
      BY <1>6, <3>1, <3>2, ReceiveCases
  <2> QED
    BY <1>0, <2>1, <2>2
<1>7. \/ UNCHANGED <<log, requestId, proc, sending, calls, pc>>
      \/ UNCHANGED <<log, requestId>> /\ pc' \notin {"wait", "write"}
      \/ WriteRequest \/ StayConnected \/ StartServer \/ ReceiveLine
  BY DEF Next, ClientStep, vars, CallTool, UserClose, SpawnFails, Timeout, Fail, Resume,
         CloseStdin, ReapServer, CloseNothing, ServeRequest, PrintLine, ServerExits,
         ServerDies, ReaderTakes, ReaderPuts, caller, fields, server, readers
<1> QED
  BY <1>1, <1>2, <1>3, <1>4, <1>5, <1>6, <1>7

(* The three parts of Ownership are preserved together.                    *)
LEMMA OwnershipStep == TypeInv /\ Ownership /\ [Next]_vars => Ownership'
  BY LinesStep, RequestsStep, AwaitStep DEF Ownership

(* A process is started only when no other runs.                           *)
LEMMA RunsStep == TypeInv /\ OnlyCurrentRuns /\ [Next]_vars => OnlyCurrentRuns'
<1> SUFFICES ASSUME TypeInv, OnlyCurrentRuns, [Next]_vars PROVE OnlyCurrentRuns'
  OBVIOUS
<1>0. alive \in [Gen -> BOOLEAN] /\ 0 \notin Gen /\ gens \in Nat /\ proc \in Nat
  BY ClientAssumption DEF TypeInv, TypeOK, Gen
<1>1. CASE UNCHANGED <<alive, proc>>
  BY <1>1 DEF OnlyCurrentRuns
<1>2. CASE StartServer
  <2>1. \A g \in Gen : ~ alive[g]
    BY <1>0, <1>2 DEF StartServer, Connected, OnlyCurrentRuns
  <2> QED
    BY <1>0, <1>2, <2>1 DEF StartServer, OnlyCurrentRuns
<1>3. CASE ReapServer
  BY <1>0, <1>3 DEF ReapServer, OnlyCurrentRuns
<1>4. ASSUME NEW g \in Gen, alive' = [alive EXCEPT ![g] = FALSE], UNCHANGED proc
      PROVE  OnlyCurrentRuns'
  BY <1>0, <1>4 DEF OnlyCurrentRuns
<1>5. \/ UNCHANGED <<alive, proc>> \/ StartServer \/ ReapServer
      \/ \E g \in Gen : alive' = [alive EXCEPT ![g] = FALSE] /\ UNCHANGED proc
  BY DEF Next, ClientStep, vars, CallTool, UserClose, StayConnected, SpawnFails, WriteRequest,
         ReceiveLine, Timeout, CloseStdin, CloseNothing, ServeRequest, PrintLine,
         ServerExits, ServerDies, ReaderTakes, ReaderPuts, caller, fields, server, readers
<1> QED
  BY <1>1, <1>2, <1>3, <1>4, <1>5

(* A response ends the handshake only while its last request is awaited.   *)
LEMMA InitializedStep ==
  TypeInv /\ Ownership /\ InitializedIsCurrent /\ [Next]_vars => InitializedIsCurrent'
<1> SUFFICES ASSUME TypeInv, Ownership, InitializedIsCurrent, [Next]_vars
             PROVE  InitializedIsCurrent'
  OBVIOUS
<1>0. /\ log \in Seq(LogEntry) /\ requestId \in Nat /\ Len(log) = requestId
      /\ [gen |-> proc, method |-> sending, call |-> calls] \in LogEntry /\ DOMAIN log = 1 .. Len(log)
      /\ initialized \in BOOLEAN
  BY LenProperties DEF TypeInv, TypeOK, LogEntry, Ownership, LogIsComplete
<1>1. CASE UNCHANGED <<log, proc, initialized>>
  BY <1>1 DEF InitializedIsCurrent
<1>2. CASE initialized' = FALSE
  BY <1>2 DEF InitializedIsCurrent
<1>3. CASE WriteRequest
  <2>1. /\ log' = Append(log, [gen |-> proc, method |-> sending, call |-> calls])
        /\ UNCHANGED <<proc, initialized>>
    BY <1>3 DEF WriteRequest
  <2>2. /\ DOMAIN log' = 1 .. Len(log) + 1 /\ Len(log) \in Nat
        /\ \A i \in 1 .. Len(log) : log'[i] = log[i]
    BY <1>0, <2>1, AppendProperties, LenProperties
  <2> QED
    BY <1>0, <2>1, <2>2 DEF InitializedIsCurrent
<1>4. CASE ReceiveLine
  <2>1. UNCHANGED <<log, proc>> /\ pc = "wait"
    BY <1>4 DEF ReceiveLine, server, readers
  <2>2. CASE UNCHANGED initialized
    BY <1>1, <2>1, <2>2
  <2>3. CASE sending = "initialized"
    <3>1. /\ requestId \in DOMAIN log
          /\ log[requestId].gen = proc /\ log[requestId].method = "initialized"
      BY <1>0, <2>1, <2>3 DEF Ownership, AwaitedIsLast
    <3> QED
      BY <2>1, <3>1 DEF InitializedIsCurrent
  <2>4. UNCHANGED initialized \/ sending = "initialized"
    <3>1. \A l : MatchId(l) => UNCHANGED initialized \/ sending = "initialized"
      <4> SUFFICES ASSUME NEW l, MatchId(l), sending # "initialized"
                   PROVE  initialized' = initialized
        OBVIOUS
      <4>1. CASE initialized' = (initialized \/ sending = "initialized")
        BY <1>0, <4>1
      <4> QED
        BY <4>1 DEF MatchId, Accept
    <3> QED
      BY <1>4, <3>1, ReceiveCases
  <2> QED
    BY <2>2, <2>3, <2>4
<1>5. \/ UNCHANGED <<log, proc, initialized>> \/ initialized' = FALSE
      \/ WriteRequest \/ ReceiveLine
  BY DEF Next, ClientStep, vars, CallTool, UserClose, StayConnected, StartServer, SpawnFails,
         Timeout, CloseStdin, ReapServer, CloseNothing, ServeRequest, PrintLine,
         ServerExits, ServerDies, ReaderTakes, ReaderPuts, caller, fields, server, readers
<1> QED
  BY <1>1, <1>2, <1>3, <1>4, <1>5

(* The inductive invariant holds when the client is constructed.           *)
LEMMA InitIInv == Init => IInv
<1> SUFFICES ASSUME Init PROVE IInv
  OBVIOUS
<1>1. TypeInv
  BY InitTypes
<1>2. OnlyCurrentRuns /\ InitializedIsCurrent
  BY DEF Init, OnlyCurrentRuns, InitializedIsCurrent
<1>3. /\ \A g \in Gen : held[g] = Plain("none") /\ stdout[g] = <<>> /\ stdin[g] = <<>>
      /\ queue = <<>> /\ log = <<>> /\ requestId = 0 /\ pc = "idle"
  BY DEF Init
<1>4. LinesOwned
  BY <1>3, EmptySeq DEF LinesOwned, AllOwned, Owned, IsAnswer, Plain
<1>5. RequestsOwned
  BY <1>3, EmptySeq DEF RequestsOwned, SentTo
<1>6. LogIsComplete /\ AwaitedIsLast /\ WriteHasProcess
  BY <1>3, EmptySeq DEF LogIsComplete, AwaitedIsLast, WriteHasProcess
<1> QED
  BY <1>1, <1>2, <1>4, <1>5, <1>6 DEF IInv, Ownership

(* Every step preserves the inductive invariant.                           *)
LEMMA NextIInv == IInv /\ [Next]_vars => IInv'
  BY TypeStep, OwnershipStep, RunsStep, InitializedStep DEF IInv

(* The inductive invariant holds in every reachable state.                 *)
THEOREM Inductive == Spec => []IInv
  BY InitIInv, NextIInv, PTL DEF Spec

(***************************************************************************)
(* The results                                                             *)
(***************************************************************************)

(* Every variable of the client, the servers and the readers keeps its     *)
(* type; in particular a handshake makes at most two attempts.             *)
THEOREM TypeCorrect == Spec => []TypeOK
  BY TypesAreRight, PTL DEF TypeInv

(* Whatever fails and however often the client reconnects, no server       *)
(* process it started keeps running once it refers to another one.         *)
THEOREM OnlyOneServer == Spec => []OnlyCurrentRuns
  BY Inductive, PTL DEF IInv

(* An initialized connection is a connection to a process that was sent    *)
(* the request that ends the handshake.                                    *)
THEOREM InitializedThisServer == Spec => []InitializedIsCurrent
  BY Inductive, PTL DEF IInv

(* A step that returns a result takes it from the answer of the current    *)
(* process to the newest request.                                          *)
LEMMA AnswerStep ==
  IInv /\ [Next]_vars /\ pc = "wait" /\ pc' = "idle" /\ last' = "ok" =>
    LET l == Head(queue) IN
    /\ l.id = Len(log) /\ l.gen = proc
    /\ log[l.id] = [gen |-> proc, method |-> "tools/call", call |-> calls]
<1> SUFFICES ASSUME IInv, [Next]_vars, pc = "wait", pc' = "idle", last' = "ok"
             PROVE  LET l == Head(queue) IN
                    /\ l.id = Len(log) /\ l.gen = proc
                    /\ log[l.id] = [gen |-> proc, method |-> "tools/call", call |-> calls]
  OBVIOUS
<1>1. \A exc : Fail(exc) => last' = exc
  BY DEF Fail
<1>2. ReceiveLine
  BY <1>1 DEF Next, ClientStep, vars, caller, CallTool, UserClose, StayConnected, StartServer,
         SpawnFails, WriteRequest, Timeout, CloseStdin, ReapServer, CloseNothing,
         ServeRequest, PrintLine, ServerExits, ServerDies, ReaderTakes, ReaderPuts
<1> DEFINE l == Head(queue)
<1> HIDE DEF l
<1>3. IsAnswer(l) /\ MatchId(l)
  BY <1>1, <1>2, ReceiveCases DEF l
<1>4. l.id = requestId /\ sending = "tools/call"
  <2>1. sending \in Method
    BY DEF IInv, TypeInv, TypeOK
  <2> QED
    BY <1>1, <1>3, <2>1 DEF MatchId, Accept, Method
<1>5. /\ Len(log) = requestId
      /\ log[requestId] = [gen |-> proc, method |-> sending, call |-> calls]
  BY DEF IInv, Ownership, LogIsComplete, AwaitedIsLast
<1>6. Owned(log, l)
  <2>1. queue \in Seq(Line) /\ queue # <<>> /\ AllOwned(log, queue)
    BY <1>2 DEF ReceiveLine, IInv, TypeInv, TypeOK, Ownership, LinesOwned
  <2> QED
    BY <2>1, OwnedTail DEF l
<1> QED
  BY <1>3, <1>4, <1>5, <1>6 DEF Owned, l

(* Every result a tool call returns is the current server's answer to that *)
(* very call, for any number of calls, restarts, late answers and noise.   *)
THEOREM AnswersAreOwn == Spec => AnswerIsOwn
<1>1. IInv /\ [Next]_vars => [ pc = "wait" /\ pc' = "idle" /\ last' = "ok" =>
        LET l == Head(queue) IN
        /\ l.id = Len(log) /\ l.gen = proc
        /\ log[l.id] = [gen |-> proc, method |-> "tools/call", call |-> calls] ]_vars
  BY AnswerStep
<1> QED
  BY <1>1, Inductive, PTL DEF Spec, AnswerIsOwn

(***************************************************************************)
(* A tool call is sent at most once                                        *)
(***************************************************************************)

(* The call that has been begun may still write its tools/call request: it *)
(* is before the write, in its handshake, or closing before a retry.       *)
Pending ==
  \/ pc \in {"ensure", "write"}
  \/ pc = "wait" /\ sending # "tools/call"
  \/ pc \in {"close", "exit"} /\ after = "retry"

(* The strengthening: the calls of the log have begun, and one that may    *)
(* still send has not sent yet.                                            *)
IsTool(e, c) == e.method = "tools/call" /\ e.call = c

SentOrPending ==
  /\ \A i \in 1 .. Len(log) : log[i].call <= calls
  /\ \A i, j \in 1 .. Len(log), c \in Nat :
        IsTool(log[i], c) /\ IsTool(log[j], c) => i = j
  /\ Pending => \A i \in 1 .. Len(log) : ~ IsTool(log[i], calls)

(* An exception leaves something to send only if it ended a request of the *)
(* handshake.                                                              *)
LEMMA FailPending ==
  ASSUME NEW exc, Fail(exc), Pending'
  PROVE  sending # "tools/call" /\ pc' = "close"
  BY DEF Fail, Pending

(* A step of the client writes nothing, or the request that was pending;   *)
(* when that is the tool call, nothing more is pending.                    *)
LEMMA PendingStep ==
  ASSUME ClientStep
  PROVE  /\ UNCHANGED calls
         /\ \/ UNCHANGED log /\ (Pending' => Pending)
            \/ /\ Pending
               /\ log' = Append(log, [gen |-> proc, method |-> sending, call |-> calls])
               /\ sending = "tools/call" => ~ Pending'
<1>1. CASE StayConnected \/ StartServer \/ SpawnFails \/ CloseStdin
  BY <1>1 DEF StayConnected, StartServer, SpawnFails, CloseStdin, Pending
<1>2. CASE WriteRequest
  <2>1. /\ Pending /\ UNCHANGED <<sending, calls>>
        /\ log' = Append(log, [gen |-> proc, method |-> sending, call |-> calls])
        /\ pc' = "wait" \/ Fail("OSError")
    BY <1>2 DEF WriteRequest, Pending
  <2>2. ASSUME sending = "tools/call" PROVE ~ Pending'
    <3>1. CASE pc' = "wait"
      BY <2>1, <2>2, <3>1 DEF Pending
    <3>2. CASE Fail("OSError")
      BY <2>2, <3>2, FailPending
    <3> QED
      BY <2>1, <3>1, <3>2
  <2> QED
    BY <2>1, <2>2
<1>3. CASE ReceiveLine
  <2>1. pc = "wait" /\ UNCHANGED <<calls, log>>
    BY <1>3 DEF ReceiveLine
  <2>2. \/ \E exc : Fail(exc)
        \/ UNCHANGED <<pc, after, sending>>
        \/ Accept(Head(queue)) /\ Head(queue).kind # "error"
    BY <1>3, ReceiveCases DEF MatchId, Accept
  <2>3. ASSUME NEW exc, Fail(exc), Pending' PROVE Pending
    BY <2>1, <2>3, FailPending DEF Pending
  <2>4. ASSUME UNCHANGED <<pc, after, sending>>, Pending' PROVE Pending
    BY <2>4 DEF Pending
  <2>5. ASSUME Accept(Head(queue)), Head(queue).kind # "error", Pending' PROVE Pending
    <3>1. CASE sending = "tools/call"
      BY <2>5, <3>1 DEF Accept, Pending
    <3>2. CASE sending # "tools/call"
      BY <2>1, <3>2 DEF Pending
    <3> QED
      BY <3>1, <3>2
  <2> QED
    BY <2>1, <2>2, <2>3, <2>4, <2>5
<1>4. CASE Timeout
  <2>1. pc = "wait" /\ Fail("MaximaTimeoutError") /\ UNCHANGED <<calls, log>>
    BY <1>4 DEF Timeout
  <2> QED
    BY <2>1, FailPending DEF Pending
<1>5. CASE ReapServer \/ CloseNothing
  <2>1. pc \in {"close", "exit"} /\ Resume /\ UNCHANGED <<after, calls, log>>
    BY <1>5 DEF ReapServer, CloseNothing
  <2> QED
    BY <2>1 DEF Resume, Pending
<1> QED
  BY <1>1, <1>2, <1>3, <1>4, <1>5 DEF ClientStep

(* No step sends a tool call that was sent before.                         *)
LEMMA SentStep == TypeInv /\ SentOrPending /\ [Next]_vars => SentOrPending'
<1> SUFFICES ASSUME TypeInv, SentOrPending, [Next]_vars PROVE SentOrPending'
  OBVIOUS
<1> DEFINE e == [gen |-> proc, method |-> sending, call |-> calls]
<1>0. /\ log \in Seq(LogEntry) /\ calls \in Nat /\ Len(log) \in Nat /\ e \in LogEntry
      /\ \A i \in 1 .. Len(log) : log[i].call \in Nat
  <2>1. log \in Seq(LogEntry) /\ calls \in Nat /\ e \in LogEntry
    BY ClientAssumption DEF TypeInv, TypeOK, LogEntry
  <2>2. \A i \in 1 .. Len(log) : log[i] \in LogEntry
    BY <2>1, ElementOfSeq
  <2> QED
    BY <2>1, <2>2, LenProperties DEF LogEntry
<1>1. ASSUME UNCHANGED <<calls, log>>, Pending' => Pending PROVE SentOrPending'
  BY <1>1 DEF SentOrPending
<1>2. CASE CallTool
  <2>1. log' = log /\ calls' = calls + 1
    BY <1>2 DEF CallTool
  <2>2. \A i \in 1 .. Len(log) : log[i].call <= calls' /\ ~ IsTool(log[i], calls')
    BY <1>0, <2>1 DEF SentOrPending, IsTool
  <2> QED
    BY <2>1, <2>2 DEF SentOrPending
<1>3. CASE UserClose
  <2>1. ~ Pending'
    BY <1>3 DEF UserClose, Pending
  <2> QED
    BY <1>1, <1>3, <2>1 DEF UserClose
<1>4. CASE ClientStep
  <2>1. CASE UNCHANGED log /\ (Pending' => Pending)
    BY <1>1, <1>4, <2>1, PendingStep
  <2>2. CASE /\ Pending /\ log' = Append(log, e)
             /\ sending = "tools/call" => ~ Pending'
    <3>1. UNCHANGED calls /\ \A i \in 1 .. Len(log) : ~ IsTool(log[i], calls)
      BY <1>4, <2>2, PendingStep DEF SentOrPending
    <3>2. /\ Len(log') = Len(log) + 1 /\ log'[Len(log) + 1] = e
          /\ \A i \in 1 .. Len(log) : log'[i] = log[i]
      BY <1>0, <2>2, AppendProperties
    <3>3. /\ e.call = calls /\ e.method = sending
          /\ \A i \in 1 .. Len(log') : i \in 1 .. Len(log) \/ i = Len(log) + 1
      BY <1>0, <3>2
    <3> HIDE DEF e
    <3>4. \A i \in 1 .. Len(log') : log'[i].call <= calls'
      BY <1>0, <3>1, <3>2, <3>3 DEF SentOrPending
    <3>5. \A c \in Nat : IsTool(e, c) => c = calls
      BY <3>3 DEF IsTool
    <3>6. ASSUME NEW i \in 1 .. Len(log'), NEW j \in 1 .. Len(log'), NEW c \in Nat,
                 IsTool(log'[i], c), IsTool(log'[j], c)
          PROVE  i = j
      <4>1. CASE i \in 1 .. Len(log) /\ j \in 1 .. Len(log)
        BY <3>2, <3>6, <4>1 DEF SentOrPending
      <4>2. CASE i = Len(log) + 1 /\ j \in 1 .. Len(log)
        BY <3>1, <3>2, <3>5, <3>6, <4>2
      <4>3. CASE i \in 1 .. Len(log) /\ j = Len(log) + 1
        BY <3>1, <3>2, <3>5, <3>6, <4>3
      <4> QED
        BY <3>3, <4>1, <4>2, <4>3
    <3>7. ASSUME Pending', NEW i \in 1 .. Len(log') PROVE ~ IsTool(log'[i], calls')
      BY <2>2, <3>1, <3>2, <3>3, <3>7 DEF IsTool
    <3> QED
      BY <3>4, <3>6, <3>7 DEF SentOrPending
  <2> QED
    BY <1>4, <2>1, <2>2, PendingStep
<1>5. CASE UNCHANGED <<caller, log>>
  <2>1. Pending' => Pending
    BY <1>5 DEF caller, Pending
  <2> QED
    BY <1>1, <1>5, <2>1 DEF caller
<1>6. UNCHANGED <<caller, log>> \/ CallTool \/ UserClose \/ ClientStep
  BY DEF Next, vars, ServeRequest, PrintLine, ServerExits, ServerDies, ReaderTakes, ReaderPuts
<1> QED
  BY <1>2, <1>3, <1>4, <1>5, <1>6

(* Before the first call nothing has been sent.                            *)
LEMMA InitSent == Init => SentOrPending
<1>1. Init => log = <<>> /\ Len(<<>>) = 0
  BY EmptySeq DEF Init
<1> QED
  BY <1>1 DEF SentOrPending

(* The client sends each tool call at most once, whatever dies, times out  *)
(* or is retried: only _initialize loops, and a call that has left its     *)
(* handshake is written or given up.                                       *)
THEOREM SentOnce == Spec => []ToolSentAtMostOnce
<1>1. ASSUME TypeInv, SentOrPending PROVE ToolSentAtMostOnce
  <2>1. /\ DOMAIN log = 1 .. Len(log)
        /\ \A i \in 1 .. Len(log) : log[i] \in LogEntry
    BY <1>1, LenProperties, ElementOfSeq DEF TypeInv, TypeOK, LogEntry
  <2>2. \A i \in 1 .. Len(log) : log[i].call \in Nat
    BY <2>1 DEF LogEntry
  <2> QED
    BY <1>1, <2>1, <2>2 DEF SentOrPending, ToolSentAtMostOnce, IsTool
<1> QED
  BY InitTypes, TypeStep, InitSent, SentStep, <1>1, PTL DEF Spec

(***************************************************************************)
(* A successful call leaves the connection drained                         *)
(*                                                                         *)
(* The newest request passes through the pipe to the server, the pipe from *)
(* it, the hand of its reader thread and the queue.  Each of them keeps    *)
(* the order, so when its answer is in one of them the ones before hold    *)
(* nothing of this server any more, and nothing of it follows the answer.  *)
(***************************************************************************)
HoldsAnswer(s, id) == \E i \in 1 .. Len(s) : IsAnswer(s[i]) /\ s[i].id = id

(* No answer of generation g after position k.                             *)
Silent(s, k, g) == \A i \in 1 .. Len(s) : i > k /\ IsAnswer(s[i]) => s[i].gen # g

AnswerIsLast(s, id, g) ==
  \A i \in 1 .. Len(s) : IsAnswer(s[i]) /\ s[i].id = id => Silent(s, i, g)

(* A pipe and a hand hold answers of their own server only.                *)
OwnLines ==
  \A g \in Gen :
    /\ IsAnswer(held[g]) => held[g].gen = g
    /\ \A i \in 1 .. Len(stdout[g]) : IsAnswer(stdout[g][i]) => stdout[g][i].gen = g

(* Nothing of server g is left before its output, before its reader's      *)
(* hand, before the queue, and on the whole way.                           *)
Read(g) == stdin[g] = <<>>
Printed(g) == Read(g) /\ Silent(stdout[g], 0, g)
Taken(g) == Printed(g) /\ ~ IsAnswer(held[g])
Drained(g) == Taken(g) /\ Silent(queue, 0, g)

NewestIsLast(g, id) ==
  /\ \A i \in 1 .. Len(stdin[g]) : stdin[g][i] = id => i = Len(stdin[g])
  /\ AnswerIsLast(stdout[g], id, g)
  /\ HoldsAnswer(stdout[g], id) => Read(g)
  /\ IsAnswer(held[g]) /\ held[g].id = id => Printed(g)
  /\ AnswerIsLast(queue, id, g)
  /\ HoldsAnswer(queue, id) => Taken(g)

InOrder == pc = "wait" => NewestIsLast(proc, requestId)
Rested == pc = "idle" /\ last = "ok" /\ proc # 0 => Drained(proc)

(* A line that is no answer of g, or not the one with the id, changes      *)
(* nothing at the end of a channel.                                        *)
LEMMA AppendOther ==
  ASSUME NEW s \in Seq(Line), NEW l \in Line, NEW g, NEW id, IsAnswer(l) => l.gen # g
  PROVE  /\ Silent(s, 0, g) => Silent(Append(s, l), 0, g)
         /\ (IsAnswer(l) => l.id # id) =>
              /\ AnswerIsLast(s, id, g) => AnswerIsLast(Append(s, l), id, g)
              /\ HoldsAnswer(Append(s, l), id) => HoldsAnswer(s, id)
<1>1. /\ Len(Append(s, l)) = Len(s) + 1 /\ Len(s) \in Nat
      /\ \A i \in 1 .. Len(s) : Append(s, l)[i] = s[i]
      /\ Append(s, l)[Len(s) + 1] = l
  BY AppendProperties, LenProperties
<1>2. \A i \in 1 .. Len(Append(s, l)) : i \in 1 .. Len(s) \/ i = Len(s) + 1
  BY <1>1
<1>3. \A k \in Nat : Silent(s, k, g) => Silent(Append(s, l), k, g)
  BY <1>1, <1>2 DEF Silent
<1>4. ASSUME IsAnswer(l) => l.id # id, AnswerIsLast(s, id, g)
      PROVE  AnswerIsLast(Append(s, l), id, g)
  BY <1>1, <1>2, <1>3, <1>4 DEF AnswerIsLast
<1>5. ASSUME IsAnswer(l) => l.id # id, HoldsAnswer(Append(s, l), id)
      PROVE  HoldsAnswer(s, id)
  BY <1>1, <1>2, <1>5 DEF HoldsAnswer
<1> QED
  BY <1>3, <1>4, <1>5

(* A line at the end of a channel without the answer comes last.           *)
LEMMA AppendAnswer ==
  ASSUME NEW s \in Seq(Line), NEW l \in Line, NEW g, NEW id, ~ HoldsAnswer(s, id)
  PROVE  /\ AnswerIsLast(Append(s, l), id, g)
         /\ HoldsAnswer(Append(s, l), id) => IsAnswer(l) /\ l.id = id
<1>1. /\ Len(Append(s, l)) = Len(s) + 1 /\ Len(s) \in Nat
      /\ \A i \in 1 .. Len(s) : Append(s, l)[i] = s[i]
      /\ Append(s, l)[Len(s) + 1] = l
  BY AppendProperties, LenProperties
<1>2. \A i \in 1 .. Len(Append(s, l)) : i \in 1 .. Len(s) \/ i = Len(s) + 1
  BY <1>1
<1>3. \A i \in 1 .. Len(Append(s, l)) :
        IsAnswer(Append(s, l)[i]) /\ Append(s, l)[i].id = id => i = Len(s) + 1
  BY <1>1, <1>2 DEF HoldsAnswer
<1>4. Silent(Append(s, l), Len(s) + 1, g)
  BY <1>1 DEF Silent
<1> QED
  BY <1>1, <1>3, <1>4 DEF AnswerIsLast, HoldsAnswer

(* What is taken off the head of a channel leaves its end as it was.       *)
LEMMA TakeHead ==
  ASSUME NEW s \in Seq(Line), s # <<>>, NEW g, NEW id
  PROVE  /\ Silent(s, 0, g) => Silent(Tail(s), 0, g)
         /\ Silent(s, 0, g) => (IsAnswer(Head(s)) => Head(s).gen # g)
         /\ AnswerIsLast(s, id, g) => AnswerIsLast(Tail(s), id, g)
         /\ HoldsAnswer(Tail(s), id) => HoldsAnswer(s, id)
         /\ IsAnswer(Head(s)) /\ Head(s).id = id => HoldsAnswer(s, id)
         /\ IsAnswer(Head(s)) /\ Head(s).id = id /\ AnswerIsLast(s, id, g) =>
              Silent(Tail(s), 0, g)
<1>1. /\ Len(Tail(s)) = Len(s) - 1 /\ Len(s) \in Nat \ {0}
      /\ \A i \in 1 .. Len(Tail(s)) : Tail(s)[i] = s[i + 1]
      /\ Head(s) = s[1]
  BY HeadTailProperties, EmptySeq
<1>2. \A i \in 1 .. Len(Tail(s)) : i \in Nat /\ i + 1 \in 1 .. Len(s) /\ i + 1 > 1
  BY <1>1
<1>3. 1 \in 1 .. Len(s) /\ 1 > 0
  BY <1>1
<1>4. \A k \in Nat : Silent(s, k + 1, g) => Silent(Tail(s), k, g)
  <2>1. ASSUME NEW k \in Nat, Silent(s, k + 1, g), NEW i \in 1 .. Len(Tail(s)), i > k,
               IsAnswer(Tail(s)[i])
        PROVE  Tail(s)[i].gen # g
    <3>1. i + 1 \in 1 .. Len(s) /\ i + 1 > k + 1 /\ Tail(s)[i] = s[i + 1]
      BY <1>1, <1>2, <2>1
    <3> QED
      BY <2>1, <3>1 DEF Silent
  <2> QED
    BY <2>1 DEF Silent
<1>5. Silent(s, 0, g) => Silent(s, 0 + 1, g) /\ (IsAnswer(Head(s)) => Head(s).gen # g)
  BY <1>1, <1>3 DEF Silent
<1>6. Silent(s, 0, g) => Silent(Tail(s), 0, g)
  BY <1>4, <1>5
<1>7. ASSUME AnswerIsLast(s, id, g), NEW i \in 1 .. Len(Tail(s)), IsAnswer(Tail(s)[i]),
             Tail(s)[i].id = id
      PROVE  Silent(Tail(s), i, g)
  <2>1. Silent(s, i + 1, g)
    BY <1>1, <1>2, <1>7 DEF AnswerIsLast
  <2> QED
    BY <1>2, <1>4, <2>1
<1>8. HoldsAnswer(Tail(s), id) => HoldsAnswer(s, id)
  BY <1>1, <1>2 DEF HoldsAnswer
<1>9. ASSUME IsAnswer(Head(s)), Head(s).id = id
      PROVE  HoldsAnswer(s, id) /\ (AnswerIsLast(s, id, g) => Silent(Tail(s), 0, g))
  <2>1. HoldsAnswer(s, id) /\ (AnswerIsLast(s, id, g) => Silent(s, 0 + 1, g))
    BY <1>1, <1>3, <1>9 DEF HoldsAnswer, AnswerIsLast
  <2> QED
    BY <1>4, <2>1
<1>10. AnswerIsLast(s, id, g) => AnswerIsLast(Tail(s), id, g)
  BY <1>7 DEF AnswerIsLast
<1> QED
  BY <1>5, <1>6, <1>8, <1>9, <1>10

(* A new id is on no channel yet.                                          *)
LEMMA NoneNewer ==
  ASSUME NEW s \in Seq(Line), NEW g, AllOwned(log, s), LogIsComplete, requestId \in Nat
  PROVE  ~ HoldsAnswer(s, requestId + 1) /\ AnswerIsLast(s, requestId + 1, g)
<1>1. \A i \in 1 .. Len(s) : IsAnswer(s[i]) => s[i].id # requestId + 1
  BY DEF AllOwned, Owned, LogIsComplete
<1> QED
  BY <1>1 DEF HoldsAnswer, AnswerIsLast

(* Pipes and hands keep to their own server.                               *)
LEMMA OwnLinesStep ==
  ASSUME TypeInv, OwnLines, [Next]_vars
  PROVE  OwnLines'
<1>0. /\ held \in [Gen -> Line] /\ stdout \in [Gen -> Seq(Line)]
      /\ \A g \in Gen : stdout[g] \in Seq(Line)
  BY DEF TypeInv, TypeOK
<1>a. \A k \in LineKind \ {"result", "error"} : Plain(k) \in Line /\ ~ IsAnswer(Plain(k))
  BY LineTypes DEF IsAnswer, Plain
<1>1. CASE UNCHANGED <<held, stdout>>
  BY <1>1 DEF OwnLines
<1>2. ASSUME NEW g \in Gen, NEW l \in Line, IsAnswer(l) => l.gen = g,
             Emit(g, l), UNCHANGED held
      PROVE  OwnLines'
  <2>1. /\ Len(Append(stdout[g], l)) = Len(stdout[g]) + 1 /\ Len(stdout[g]) \in Nat
        /\ \A i \in 1 .. Len(stdout[g]) : Append(stdout[g], l)[i] = stdout[g][i]
        /\ Append(stdout[g], l)[Len(stdout[g]) + 1] = l
    BY <1>0, AppendProperties, LenProperties
  <2>2. \A i \in 1 .. Len(Append(stdout[g], l)) :
           IsAnswer(Append(stdout[g], l)[i]) => Append(stdout[g], l)[i].gen = g
    BY <1>2, <2>1 DEF OwnLines
  <2>3. \A h \in Gen : stdout'[h] = IF h = g THEN Append(stdout[g], l) ELSE stdout[h]
    BY <1>0, <1>2 DEF Emit
  <2> QED
    BY <1>2, <2>2, <2>3, SMTT(30), ZenonT(30) DEF OwnLines
<1>3. ASSUME NEW g \in Gen, ServeRequest(g) \/ PrintLine(g) \/ ServerDies(g)
      PROVE  OwnLines'
  <2>1. UNCHANGED held
    BY <1>3 DEF ServeRequest, PrintLine, ServerDies, readers
  <2>2. \/ UNCHANGED stdout
        \/ \E k \in {"blank", "noise", "scalar", "object"} : Emit(g, Plain(k))
        \/ /\ stdin[g] # <<>>
           /\ \E k \in {"result", "error"} :
                 Emit(g, [kind |-> k, id |-> Head(stdin[g]), gen |-> g])
    BY <1>3, ClientAssumption DEF ServeRequest, PrintLine, ServerDies
  <2>3. ASSUME NEW k \in {"result", "error"}, stdin[g] # <<>>
        PROVE  [kind |-> k, id |-> Head(stdin[g]), gen |-> g] \in Line
    <3>1. stdin[g] \in Seq(Nat)
      BY DEF TypeInv, TypeOK
    <3>2. Head(stdin[g]) \in Nat
      BY <2>3, <3>1, HeadTailProperties
    <3> QED
      BY <3>2, LineTypes DEF Gen
  <2> QED
    BY <1>1, <1>2, <1>a, <2>1, <2>2, <2>3 DEF LineKind
<1>4. ASSUME NEW g \in Gen, ReaderTakes(g) PROVE OwnLines'
  <2>1. CASE /\ stdout[g] # <<>>
             /\ held' = [held EXCEPT ![g] = Head(stdout[g])]
             /\ stdout' = [stdout EXCEPT ![g] = Tail(@)]
    <3>1. /\ Len(Tail(stdout[g])) = Len(stdout[g]) - 1 /\ Len(stdout[g]) \in Nat \ {0}
          /\ \A i \in 1 .. Len(Tail(stdout[g])) : Tail(stdout[g])[i] = stdout[g][i + 1]
          /\ Head(stdout[g]) = stdout[g][1]
      BY <1>0, <2>1, HeadTailProperties, EmptySeq
    <3>2. 1 \in 1 .. Len(stdout[g])
          /\ \A i \in 1 .. Len(Tail(stdout[g])) : i + 1 \in 1 .. Len(stdout[g])
      BY <3>1
    <3>3. \A h \in Gen :
            /\ stdout'[h] = IF h = g THEN Tail(stdout[g]) ELSE stdout[h]
            /\ held'[h] = IF h = g THEN Head(stdout[g]) ELSE held[h]
      BY <1>0, <2>1
    <3>4. IsAnswer(Head(stdout[g])) => Head(stdout[g]).gen = g
      BY <3>1, <3>2 DEF OwnLines
    <3>5. \A i \in 1 .. Len(Tail(stdout[g])) :
             IsAnswer(Tail(stdout[g])[i]) => Tail(stdout[g])[i].gen = g
      BY <3>1, <3>2 DEF OwnLines
    <3>6. ASSUME NEW h \in Gen
          PROVE  /\ IsAnswer(held'[h]) => held'[h].gen = h
                 /\ \A i \in 1 .. Len(stdout'[h]) :
                       IsAnswer(stdout'[h][i]) => stdout'[h][i].gen = h
      <4>1. CASE h = g
        BY <3>3, <3>4, <3>5, <4>1
      <4>2. CASE h # g
        BY <3>3, <4>2 DEF OwnLines
      <4> QED
        BY <4>1, <4>2
    <3> QED
      BY <3>6 DEF OwnLines
  <2>2. CASE held' = [held EXCEPT ![g] = Plain("eof")] /\ UNCHANGED stdout
    <3>1. \A h \in Gen : held'[h] = IF h = g THEN Plain("eof") ELSE held[h]
      BY <1>0, <2>2
    <3> QED
      BY <1>a, <2>2, <3>1 DEF OwnLines, LineKind
  <2> QED
    BY <1>4, <2>1, <2>2 DEF ReaderTakes
<1>5. ASSUME NEW g \in Gen, ReaderPuts(g) PROVE OwnLines'
  <2>1. UNCHANGED stdout /\ \A h \in Gen : held'[h] = IF h = g THEN Plain("none") ELSE held[h]
    BY <1>0, <1>5 DEF ReaderPuts, server
  <2> QED
    BY <1>a, <2>1 DEF OwnLines, LineKind
<1>6. \/ UNCHANGED <<held, stdout>>
      \/ \E g \in Gen : \/ ServeRequest(g) \/ PrintLine(g) \/ ServerDies(g)
                        \/ ReaderTakes(g) \/ ReaderPuts(g)
  BY DEF Next, ClientStep, vars, CallTool, UserClose, StayConnected, StartServer, SpawnFails,
         WriteRequest, ReceiveLine, Timeout, CloseStdin, ReapServer, CloseNothing, ServerExits,
         caller, fields, server, readers
<1> QED
  BY <1>1, <1>3, <1>4, <1>5, <1>6

(* Another server, and its reader thread, touch none of the channels of g  *)
(* but the queue, and put no answer of g there.                            *)
LEMMA OtherChannels ==
  ASSUME TypeInv, OwnLines, LinesOwned, NEW g \in Gen, NEW id \in Nat,
         NEW h \in Gen, h # g,
         \/ ServeRequest(h) \/ PrintLine(h) \/ ServerExits(h) \/ ServerDies(h)
         \/ ReaderTakes(h) \/ ReaderPuts(h)
  PROVE  /\ log[id].gen = g /\ NewestIsLast(g, id) => NewestIsLast(g, id)'
         /\ Drained(g) => Drained(g)'
<1>0. /\ queue \in Seq(Line) /\ held \in [Gen -> Line] /\ held[h] \in Line
      /\ stdout \in [Gen -> Seq(Line)] /\ stdin \in [Gen -> Seq(Nat)]
  BY DEF TypeInv, TypeOK
<1>1. stdin'[g] = stdin[g] /\ stdout'[g] = stdout[g] /\ held'[g] = held[g]
  BY <1>0 DEF ServeRequest, PrintLine, ServerExits, ServerDies, ReaderTakes, ReaderPuts, Emit,
              readers, server
<1>2. CASE queue' = queue
  BY <1>1, <1>2 DEF NewestIsLast, Drained, Taken, Printed, Read
<1>3. CASE queue' = Append(queue, held[h])
  <2>1. /\ IsAnswer(held[h]) => held[h].gen # g
        /\ log[id].gen = g => (IsAnswer(held[h]) => held[h].id # id)
    BY DEF OwnLines, LinesOwned, Owned
  <2>2. /\ Silent(queue, 0, g) => Silent(queue', 0, g)
        /\ log[id].gen = g =>
             /\ AnswerIsLast(queue, id, g) => AnswerIsLast(queue', id, g)
             /\ HoldsAnswer(queue', id) => HoldsAnswer(queue, id)
    BY <1>0, <1>3, <2>1, AppendOther
  <2> QED
    BY <1>1, <2>2 DEF NewestIsLast, Drained, Taken, Printed, Read
<1> QED
  BY <1>2, <1>3 DEF ServeRequest, PrintLine, ServerExits, ServerDies, ReaderTakes, ReaderPuts

(* A line that is no answer may be printed at any time.                    *)
LEMMA NoiseChannels ==
  ASSUME TypeInv, NEW g \in Gen, NEW id, NEW l \in Line, ~ IsAnswer(l),
         stdin'[g] = stdin[g] \/ (~ Read(g) /\ stdin[g] \in Seq(Nat) /\ stdin'[g] = Tail(stdin[g])),
         stdout'[g] = stdout[g] \/ stdout'[g] = Append(stdout[g], l),
         UNCHANGED <<held, queue>>
  PROVE  /\ NewestIsLast(g, id) => NewestIsLast(g, id)'
         /\ Drained(g) => Drained(g)'
<1>0. stdout[g] \in Seq(Line) /\ stdin[g] \in Seq(Nat)
  BY DEF TypeInv, TypeOK
<1>1. /\ Silent(stdout[g], 0, g) => Silent(stdout'[g], 0, g)
      /\ AnswerIsLast(stdout[g], id, g) => AnswerIsLast(stdout'[g], id, g)
      /\ HoldsAnswer(stdout'[g], id) => HoldsAnswer(stdout[g], id)
  BY <1>0, AppendOther
<1>2. CASE stdin'[g] = stdin[g]
  BY <1>1, <1>2 DEF NewestIsLast, Drained, Taken, Printed, Read
<1>3. CASE ~ Read(g) /\ stdin'[g] = Tail(stdin[g])
  <2>1. /\ Len(Tail(stdin[g])) = Len(stdin[g]) - 1 /\ Len(stdin[g]) \in Nat \ {0}
        /\ \A i \in 1 .. Len(Tail(stdin[g])) : Tail(stdin[g])[i] = stdin[g][i + 1]
    BY <1>0, <1>3, HeadTailProperties, EmptySeq DEF Read
  <2>2. \A i \in 1 .. Len(Tail(stdin[g])) : i + 1 \in 1 .. Len(stdin[g])
    BY <2>1
  <2>3. (\A i \in 1 .. Len(stdin[g]) : stdin[g][i] = id => i = Len(stdin[g])) =>
          \A i \in 1 .. Len(stdin'[g]) : stdin'[g][i] = id => i = Len(stdin'[g])
    BY <1>3, <2>1, <2>2
  <2> QED
    BY <1>1, <1>3, <2>3 DEF NewestIsLast, Drained, Taken, Printed, Read
<1> QED
  BY <1>2, <1>3

(* The server's answer follows all it has printed, and is its last if it   *)
(* is to its last request.                                                 *)
LEMMA AnswerChannels ==
  ASSUME TypeInv, NEW g \in Gen, NEW id \in Nat, NEW l \in Line, stdin[g] # <<>>,
         l.id = Head(stdin[g]), stdin'[g] = Tail(stdin[g]),
         stdout'[g] = Append(stdout[g], l), UNCHANGED <<held, queue>>
  PROVE  /\ NewestIsLast(g, id) => NewestIsLast(g, id)'
         /\ Drained(g) => Drained(g)'
<1>0. stdout[g] \in Seq(Line) /\ stdin[g] \in Seq(Nat)
  BY DEF TypeInv, TypeOK
<1>1. ~ Read(g)
  BY DEF Read
<1>2. SUFFICES ASSUME NewestIsLast(g, id) PROVE NewestIsLast(g, id)'
  BY <1>1 DEF Drained, Taken, Printed
<1>3. ~ HoldsAnswer(stdout[g], id) /\ ~ HoldsAnswer(queue, id)
      /\ ~ (IsAnswer(held[g]) /\ held[g].id = id)
  BY <1>1, <1>2 DEF NewestIsLast, Taken, Printed
<1>4. AnswerIsLast(stdout'[g], id, g) /\ (HoldsAnswer(stdout'[g], id) => l.id = id)
  BY <1>0, <1>3, AppendAnswer
<1>5. /\ Len(Tail(stdin[g])) = Len(stdin[g]) - 1 /\ Len(stdin[g]) \in Nat \ {0}
      /\ \A i \in 1 .. Len(Tail(stdin[g])) : Tail(stdin[g])[i] = stdin[g][i + 1]
      /\ Head(stdin[g]) = stdin[g][1] /\ Tail(stdin[g]) \in Seq(Nat)
  BY <1>0, HeadTailProperties, EmptySeq
<1>6. 1 \in 1 .. Len(stdin[g])
      /\ \A i \in 1 .. Len(Tail(stdin[g])) : i + 1 \in 1 .. Len(stdin[g])
  BY <1>5
<1>7. \A i \in 1 .. Len(stdin[g]) : stdin[g][i] = id => i = Len(stdin[g])
  BY <1>2 DEF NewestIsLast
<1>8. \A i \in 1 .. Len(stdin'[g]) : stdin'[g][i] = id => i = Len(stdin'[g])
  BY <1>5, <1>6, <1>7
<1>9. l.id = id => Len(Tail(stdin[g])) = 0
  <2>1. l.id = id => stdin[g][1] = id
    BY <1>5
  <2>2. l.id = id => 1 = Len(stdin[g])
    BY <1>6, <1>7, <2>1
  <2> QED
    BY <1>5, <2>2
<1>10. HoldsAnswer(stdout'[g], id) => Read(g)'
  BY <1>4, <1>5, <1>9, EmptySeq DEF Read
<1> QED
  BY <1>2, <1>3, <1>4, <1>8, <1>10 DEF NewestIsLast

(* The reader thread of g takes the first line of the pipe.                *)
LEMMA TakeChannels ==
  ASSUME TypeInv, OwnLines, NEW g \in Gen, NEW id, ReaderTakes(g)
  PROVE  /\ NewestIsLast(g, id) => NewestIsLast(g, id)'
         /\ Drained(g) => Drained(g)'
<1>0. /\ stdout \in [Gen -> Seq(Line)] /\ held \in [Gen -> Line] /\ stdout[g] \in Seq(Line)
      /\ UNCHANGED <<stdin, queue>> /\ ~ IsAnswer(held[g])
  BY DEF TypeInv, TypeOK, ReaderTakes, IsAnswer
<1>1. CASE /\ stdout[g] # <<>>
           /\ held' = [held EXCEPT ![g] = Head(stdout[g])]
           /\ stdout' = [stdout EXCEPT ![g] = Tail(@)]
  <2>1. held'[g] = Head(stdout[g]) /\ stdout'[g] = Tail(stdout[g])
    BY <1>0, <1>1
  <2>2. /\ Silent(stdout[g], 0, g) => Silent(stdout'[g], 0, g)
        /\ Silent(stdout[g], 0, g) => (IsAnswer(held'[g]) => held'[g].gen # g)
        /\ AnswerIsLast(stdout[g], id, g) => AnswerIsLast(stdout'[g], id, g)
        /\ HoldsAnswer(stdout'[g], id) => HoldsAnswer(stdout[g], id)
        /\ IsAnswer(held'[g]) /\ held'[g].id = id => HoldsAnswer(stdout[g], id)
        /\ IsAnswer(held'[g]) /\ held'[g].id = id /\ AnswerIsLast(stdout[g], id, g) =>
             Silent(stdout'[g], 0, g)
    BY <1>0, <1>1, <2>1, TakeHead
  <2>3. IsAnswer(held'[g]) => held'[g].gen = g
    <3>1. 1 \in 1 .. Len(stdout[g]) /\ Head(stdout[g]) = stdout[g][1]
      BY <1>0, <1>1, HeadTailProperties, EmptySeq, LenProperties
    <3> QED
      BY <2>1, <3>1 DEF OwnLines
  <2>4. Read(g)' <=> Read(g)
    BY <1>0 DEF Read
  <2>5. Printed(g) => Printed(g)' /\ ~ IsAnswer(held'[g])
    BY <2>2, <2>3, <2>4 DEF Printed
  <2>6. Taken(g) => Taken(g)'
    BY <2>5 DEF Taken
  <2> QED
    BY <1>0, <2>2, <2>4, <2>5, <2>6 DEF NewestIsLast, Drained, Printed
<1>2. CASE held' = [held EXCEPT ![g] = Plain("eof")] /\ UNCHANGED stdout
  <2>1. ~ IsAnswer(held'[g])
    BY <1>0, <1>2 DEF IsAnswer, Plain
  <2> QED
    BY <1>0, <1>2, <2>1 DEF NewestIsLast, Drained, Taken, Printed, Read
<1> QED
  BY <1>1, <1>2 DEF ReaderTakes

(* The reader thread of g puts its line at the end of the queue.           *)
LEMMA PutChannels ==
  ASSUME TypeInv, NEW g \in Gen, NEW id, ReaderPuts(g)
  PROVE  /\ NewestIsLast(g, id) => NewestIsLast(g, id)'
         /\ Drained(g) => Drained(g)'
<1>0. /\ queue \in Seq(Line) /\ held \in [Gen -> Line] /\ held[g] \in Line
      /\ UNCHANGED <<stdin, stdout>> /\ queue' = Append(queue, held[g])
  BY DEF TypeInv, TypeOK, ReaderPuts, server
<1>1. ~ IsAnswer(held'[g])
  BY <1>0 DEF ReaderPuts, IsAnswer, Plain
<1>2. CASE ~ IsAnswer(held[g])
  <2>1. /\ Silent(queue, 0, g) => Silent(queue', 0, g)
        /\ AnswerIsLast(queue, id, g) => AnswerIsLast(queue', id, g)
        /\ HoldsAnswer(queue', id) => HoldsAnswer(queue, id)
    BY <1>0, <1>2, AppendOther
  <2> QED
    BY <1>0, <1>1, <2>1 DEF NewestIsLast, Drained, Taken, Printed, Read
<1>3. CASE IsAnswer(held[g])
  <2>1. ~ Taken(g)
    BY <1>3 DEF Taken
  <2>2. ~ HoldsAnswer(queue, id) =>
          AnswerIsLast(queue', id, g) /\ (HoldsAnswer(queue', id) => held[g].id = id)
    BY <1>0, AppendAnswer
  <2> QED
    BY <1>0, <1>1, <1>3, <2>1, <2>2 DEF NewestIsLast, Drained, Taken, Printed, Read
<1> QED
  BY <1>2, <1>3

(* So nothing a server or a reader thread does disturbs the order on the   *)
(* channels, or fills them again once they are drained.                    *)
LEMMA ChannelsStep ==
  ASSUME IInv, OwnLines, NEW g \in Gen, NEW id \in Nat, NEW h \in Gen,
         \/ ServeRequest(h) \/ PrintLine(h) \/ ServerExits(h) \/ ServerDies(h)
         \/ ReaderTakes(h) \/ ReaderPuts(h)
  PROVE  /\ log[id].gen = g /\ NewestIsLast(g, id) => NewestIsLast(g, id)'
         /\ Drained(g) => Drained(g)'
<1>0. /\ TypeInv /\ LinesOwned /\ stdout \in [Gen -> Seq(Line)] /\ stdin \in [Gen -> Seq(Nat)]
      /\ stdin[g] \in Seq(Nat) /\ id \in Nat
  BY DEF IInv, Ownership, TypeInv, TypeOK
<1>a. \A k \in {"blank", "noise", "scalar", "object"} : Plain(k) \in Line /\ ~ IsAnswer(Plain(k))
  BY LineTypes DEF LineKind, IsAnswer, Plain
<1>1. CASE h # g
  BY <1>0, <1>1, OtherChannels
<1>2. CASE h = g /\ (PrintLine(g) \/ ServerDies(g) \/ ServerExits(g))
  <2>1. UNCHANGED <<stdin, held, queue>>
    BY <1>2 DEF PrintLine, ServerDies, ServerExits, readers
  <2>2. UNCHANGED stdout \/ \E k \in {"blank", "noise", "scalar", "object"} : Emit(g, Plain(k))
    BY <1>2, ClientAssumption DEF PrintLine, ServerDies, ServerExits
  <2>3. PICK k \in {"blank", "noise", "scalar", "object"} :
           stdout'[g] = stdout[g] \/ stdout'[g] = Append(stdout[g], Plain(k))
    BY <1>0, <2>2 DEF Emit
  <2>4. stdin'[g] = stdin[g] /\ Plain(k) \in Line /\ ~ IsAnswer(Plain(k))
    BY <1>a, <2>1
  <2> QED
    BY <1>0, <2>1, <2>3, <2>4, NoiseChannels
<1>3. CASE h = g /\ ServeRequest(g)
  <2>1. /\ UNCHANGED <<held, queue>> /\ stdin[g] # <<>> /\ stdin'[g] = Tail(stdin[g])
    BY <1>0, <1>3 DEF ServeRequest, readers
  <2>2. \/ stdout'[g] = stdout[g]
        \/ \E k \in {"noise", "object"} : stdout'[g] = Append(stdout[g], Plain(k))
        \/ \E k \in {"result", "error"} :
              stdout'[g] = Append(stdout[g], [kind |-> k, id |-> Head(stdin[g]), gen |-> g])
    BY <1>0, <1>3 DEF ServeRequest, Emit
  <2>3. ASSUME NEW k \in {"noise", "object"},
               stdout'[g] = stdout[g] \/ stdout'[g] = Append(stdout[g], Plain(k))
        PROVE  /\ NewestIsLast(g, id) => NewestIsLast(g, id)'
               /\ Drained(g) => Drained(g)'
    <3>1. Plain(k) \in Line /\ ~ IsAnswer(Plain(k))
      BY <1>a
    <3>2. ~ Read(g)
      BY <2>1 DEF Read
    <3> QED
      BY <1>0, <2>1, <2>3, <3>1, <3>2, NoiseChannels
  <2>4. ASSUME NEW k \in {"result", "error"},
               stdout'[g] = Append(stdout[g], [kind |-> k, id |-> Head(stdin[g]), gen |-> g])
        PROVE  /\ NewestIsLast(g, id) => NewestIsLast(g, id)'
               /\ Drained(g) => Drained(g)'
    <3> DEFINE l == [kind |-> k, id |-> Head(stdin[g]), gen |-> g]
    <3>1. l \in Line /\ l.id = Head(stdin[g])
      <4>1. Head(stdin[g]) \in Nat
        BY <1>0, <2>1, HeadTailProperties
      <4> QED
        BY <4>1, LineTypes DEF Gen
    <3>2. stdout'[g] = Append(stdout[g], l)
      BY <2>4
    <3> HIDE DEF l
    <3> QED
      BY <1>0, <2>1, <3>1, <3>2, AnswerChannels
  <2> QED
    BY <2>2, <2>3, <2>4
<1>4. CASE h = g /\ ReaderTakes(g)
  BY <1>0, <1>4, TakeChannels
<1>5. CASE h = g /\ ReaderPuts(g)
  BY <1>0, <1>5, PutChannels
<1> QED
  BY <1>1, <1>2, <1>3, <1>4, <1>5

(* A request just written is the last thing in the pipe to its server, and *)
(* nowhere else.                                                           *)
LEMMA WriteOrder ==
  ASSUME IInv, WriteRequest, pc' = "wait", NEW g \in Gen, g = proc, NEW id \in Nat,
         id = requestId + 1
  PROVE  NewestIsLast(g, id)'
<1>0. /\ queue \in Seq(Line) /\ held[g] \in Line /\ requestId \in Nat
      /\ stdout[g] \in Seq(Line) /\ stdin[g] \in Seq(Nat) /\ stdin \in [Gen -> Seq(Nat)]
      /\ AllOwned(log, queue) /\ AllOwned(log, stdout[g]) /\ Owned(log, held[g])
      /\ SentTo(log, g, stdin[g]) /\ LogIsComplete
  BY DEF IInv, TypeInv, TypeOK, Ownership, LinesOwned, RequestsOwned
<1>1. UNCHANGED <<queue, held, stdout>> /\ stdin'[g] = Append(stdin[g], id)
  BY <1>0 DEF WriteRequest, Fail, readers
<1>2. /\ ~ HoldsAnswer(queue, id) /\ AnswerIsLast(queue, id, g)
      /\ ~ HoldsAnswer(stdout[g], id) /\ AnswerIsLast(stdout[g], id, g)
  BY <1>0, NoneNewer
<1>3. IsAnswer(held[g]) => held[g].id # id
  BY <1>0 DEF Owned, LogIsComplete
<1>4. /\ Len(stdin'[g]) = Len(stdin[g]) + 1 /\ Len(stdin[g]) \in Nat
      /\ \A i \in 1 .. Len(stdin[g]) : stdin'[g][i] = stdin[g][i]
  BY <1>0, <1>1, AppendProperties, LenProperties
<1>5. \A i \in 1 .. Len(stdin[g]) : stdin[g][i] # id
  BY <1>0 DEF SentTo, LogIsComplete
<1>6. \A i \in 1 .. Len(stdin'[g]) : stdin'[g][i] = id => i = Len(stdin'[g])
  BY <1>4, <1>5
<1> QED
  BY <1>1, <1>2, <1>3, <1>6 DEF NewestIsLast

(* A line is taken from the queue: another is awaited, or it was the       *)
(* newest answer and the connection is drained.                            *)
LEMMA ReceiveOrder ==
  ASSUME IInv, InOrder, ReceiveLine
  PROVE  InOrder' /\ Rested'
<1> DEFINE l == Head(queue)
<1>0. /\ pc = "wait" /\ queue # <<>> /\ queue \in Seq(Line) /\ sending \in Method
      /\ queue' = Tail(queue)
      /\ UNCHANGED <<proc, requestId, stdin, stdout, held>>
  BY DEF IInv, TypeInv, TypeOK, ReceiveLine, server, readers
<1>1. NewestIsLast(proc, requestId)
  BY <1>0 DEF InOrder
<1>2. /\ AnswerIsLast(queue, requestId, proc) => AnswerIsLast(queue', requestId, proc)
      /\ HoldsAnswer(queue', requestId) => HoldsAnswer(queue, requestId)
      /\ IsAnswer(l) /\ l.id = requestId => HoldsAnswer(queue, requestId)
      /\ IsAnswer(l) /\ l.id = requestId /\ AnswerIsLast(queue, requestId, proc) =>
           Silent(queue', 0, proc)
  BY <1>0, TakeHead
<1>3. InOrder'
  BY <1>0, <1>1, <1>2 DEF InOrder, NewestIsLast, Taken, Printed, Read
<1>4. ASSUME pc' = "idle", last' = "ok"
      PROVE  Drained(proc)'
  <2>1. \A exc : Fail(exc) => last' = exc
    BY DEF Fail
  <2> HIDE DEF l
  <2>2. IsAnswer(l) /\ MatchId(l)
    BY <1>0, <1>4, <2>1, ReceiveCases DEF l
  <2>3. l.id = requestId
    BY <1>4, <2>1, <2>2 DEF MatchId
  <2> QED
    BY <1>0, <1>1, <1>2, <2>2, <2>3 DEF NewestIsLast, Drained, Taken, Printed, Read
<1> QED
  BY <1>0, <1>3, <1>4 DEF Rested

LEMMA OrderStep ==
  ASSUME IInv, OwnLines, InOrder, Rested, [Next]_vars
  PROVE  InOrder' /\ Rested'
<1>0. requestId \in Nat /\ (proc # 0 => proc \in Gen)
  BY ClientAssumption DEF IInv, TypeInv, TypeOK, Gen
<1>1. ASSUME NEW h \in Gen,
             \/ ServeRequest(h) \/ PrintLine(h) \/ ServerExits(h) \/ ServerDies(h)
             \/ ReaderTakes(h) \/ ReaderPuts(h)
      PROVE  InOrder' /\ Rested'
  <2>1. UNCHANGED <<pc, last, proc, requestId>>
    BY <1>1 DEF ServeRequest, PrintLine, ServerExits, ServerDies, ReaderTakes, ReaderPuts,
                caller, fields
  <2>2. proc # 0 /\ log[requestId].gen = proc /\ NewestIsLast(proc, requestId) =>
          NewestIsLast(proc, requestId)'
    <3>1. ASSUME NEW g \in Gen, g = proc, NEW id \in Nat, id = requestId, log[id].gen = g,
                 NewestIsLast(g, id)
          PROVE  NewestIsLast(proc, requestId)'
      <4>1. NewestIsLast(g, id)'
        BY <1>1, <3>1, ChannelsStep
      <4> QED
        BY <2>1, <3>1, <4>1 DEF NewestIsLast, Taken, Printed, Read
    <3> QED
      BY <1>0, <3>1
  <2>3. proc # 0 /\ Drained(proc) => Drained(proc)'
    <3>1. ASSUME NEW g \in Gen, g = proc, Drained(g) PROVE Drained(proc)'
      <4>1. Drained(g)'
        BY <1>0, <1>1, <3>1, ChannelsStep
      <4> QED
        BY <2>1, <3>1, <4>1 DEF Drained, Taken, Printed, Read
    <3> QED
      BY <1>0, <3>1
  <2>4. pc = "wait" => proc # 0 /\ log[requestId].gen = proc
    BY DEF IInv, Ownership, AwaitedIsLast
  <2> QED
    BY <2>1, <2>2, <2>3, <2>4 DEF InOrder, Rested
<1>2. CASE WriteRequest
  <2>1. proc # 0 /\ UNCHANGED proc /\ requestId' = requestId + 1
    BY <1>2 DEF WriteRequest, IInv, Ownership, WriteHasProcess
  <2>2. ASSUME pc' = "wait", NEW g \in Gen, g = proc, NEW id \in Nat, id = requestId + 1
        PROVE  NewestIsLast(proc, requestId)'
    <3>1. NewestIsLast(g, id)'
      BY <1>2, <2>2, WriteOrder
    <3> QED
      BY <2>1, <2>2, <3>1 DEF NewestIsLast, Taken, Printed, Read
  <2>3. pc' = "idle" => last' # "ok"
    BY <1>2 DEF WriteRequest, Fail
  <2> QED
    BY <1>0, <2>1, <2>2, <2>3 DEF InOrder, Rested
<1>3. CASE ReceiveLine
  BY <1>3, ReceiveOrder
<1>4. CASE pc' # "wait" /\ (pc' # "idle" \/ last' # "ok" \/ proc' = 0)
  BY <1>4 DEF InOrder, Rested
<1>5. CASE UNCHANGED vars
  BY <1>5 DEF vars, caller, fields, server, readers, InOrder, Rested, NewestIsLast, Drained,
     Taken, Printed, Read
<1>6. \/ pc' # "wait" /\ (pc' # "idle" \/ last' # "ok" \/ proc' = 0)
      \/ WriteRequest \/ ReceiveLine \/ UNCHANGED vars
      \/ \E h \in Gen : \/ ServeRequest(h) \/ PrintLine(h) \/ ServerExits(h) \/ ServerDies(h)
                        \/ ReaderTakes(h) \/ ReaderPuts(h)
  BY DEF Next, ClientStep, CallTool, UserClose, StayConnected, StartServer, SpawnFails,
         Timeout, Fail, CloseStdin, ReapServer, CloseNothing, Resume, fields
<1> QED
  BY <1>1, <1>2, <1>3, <1>4, <1>5, <1>6

LEMMA InitOrder == Init => OwnLines /\ InOrder /\ Rested
<1> SUFFICES ASSUME Init PROVE OwnLines /\ InOrder /\ Rested
  OBVIOUS
<1>1. /\ pc = "idle" /\ proc = 0
      /\ \A g \in Gen : held[g] = Plain("none") /\ stdout[g] = <<>>
  BY DEF Init
<1>2. OwnLines
  BY <1>1, EmptySeq DEF OwnLines, IsAnswer, Plain
<1> QED
  BY <1>1, <1>2 DEF InOrder, Rested

(* When a call has succeeded, every request the running server was ever    *)
(* sent is answered and every answer has been read.                        *)
THEOREM DrainedWhenDone == Spec => []DrainedAfterSuccess
<1>1. ASSUME Rested, IInv PROVE DrainedAfterSuccess
  <2> SUFFICES ASSUME pc = "idle", last = "ok", proc # 0
               PROVE  /\ stdin[proc] = <<>>
                      /\ AnswersOf(proc, stdout[proc]) = {} /\ AnswersOf(proc, queue) = {}
                      /\ ~ IsAnswer(held[proc])
    BY DEF DrainedAfterSuccess
  <2>1. Drained(proc) /\ proc \in Gen
    BY <1>1, ClientAssumption DEF Rested, IInv, TypeInv, TypeOK, Gen
  <2>2. queue \in Seq(Line) /\ stdout[proc] \in Seq(Line)
    BY <1>1, <2>1 DEF IInv, TypeInv, TypeOK
  <2>3. \A s \in Seq(Line) : Silent(s, 0, proc) => AnswersOf(proc, s) = {}
    <3>1. \A s \in Seq(Line) : DOMAIN s = 1 .. Len(s) /\ \A i \in DOMAIN s : i > 0
      BY LenProperties
    <3> QED
      BY <3>1 DEF Silent, AnswersOf
  <2> QED
    BY <2>1, <2>2, <2>3 DEF Drained, Taken, Printed, Read
<1> QED
  BY <1>1, InitOrder, OwnLinesStep, OrderStep, Inductive, PTL DEF Spec, IInv
=============================================================================
