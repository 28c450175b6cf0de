------------------------------ MODULE McpClient ------------------------------
(***************************************************************************)
(* The Python client (clients/python/maxima_mcp/client.py), the MCP server *)
(* processes it starts one after the other, and the stdout reader thread   *)
(* it keeps for each of them.                                              *)
(*                                                                         *)
(* Three kinds of actor interleave here.  The caller's thread runs         *)
(* _call_tool, _initialize, _send_request and close.  Each server process  *)
(* ("generation" g = 1, 2, ...) reads requests from its stdin pipe and     *)
(* writes lines to its stdout pipe, and may die at any time.  The reader   *)
(* thread of generation g moves lines from that pipe to whatever queue     *)
(* self._stdout_queue holds at that moment, which after a restart is the   *)
(* queue of a later generation.                                            *)
(***************************************************************************)
EXTENDS Naturals, Sequences, FiniteSets

CONSTANTS
  MaxGen,      \* how many server processes can be started (then spawning fails)
  MaxCalls,    \* how many tool calls the user makes
  Printable,   \* the kinds of line an evaluation can print
  MaxNoise,    \* how many printed lines can be on their way to the client
  MaxBlank,    \* max_blank_lines, 100 in the code
  MaxNonJson   \* max_non_json_lines, 1000 in the code

ASSUME ClientAssumption ==
  /\ MaxGen \in Nat /\ MaxCalls \in Nat
  /\ Printable \subseteq {"blank", "noise", "scalar", "object"}
  /\ MaxNoise \in Nat /\ MaxBlank \in Nat /\ MaxNonJson \in Nat

Gen == 1 .. MaxGen

Method == {"initialize", "initialized", "tools/call"}

(***************************************************************************)
(* A line of a server's stdout.  "result" and "error" are JSON-RPC         *)
(* responses (an isError tool result is an "error").  The other lines hold *)
(* no answer: "blank" is white space, "noise" no JSON, "scalar" a JSON     *)
(* value that is no object (what print(5) leaves), and "object" what       *)
(* starts like an object or an array and is no JSON, such as a truncated   *)
(* response, or is an object with any id, or none, but the awaited one.    *)
(* "eof" is the None a reader thread queues at end of file, and "none" an  *)
(* empty hand.                                                             *)
(***************************************************************************)
LineKind == {"result", "error", "blank", "noise", "scalar", "object", "eof", "none"}
Line == [kind : LineKind, id : Nat, gen : Nat]
Plain(k) == [kind |-> k, id |-> 0, gen |-> 0]
IsAnswer(l) == l.kind \in {"result", "error"}

Exception == {"MaximaError", "MaximaTimeoutError", "OSError", "AttributeError"}
Uncaught == {"MaximaTimeoutError", "AttributeError"}

VARIABLES
  pc,          \* where the caller's thread is
  sending,     \* the method of the request being sent or awaited
  attempt,     \* the attempt of the loop in _initialize
  after,       \* what follows close(): "idle", "retry" or "raise"
  skipped,     \* blank_line_count and non_json_count of _send_request
  calls,       \* tool calls begun so far
  last,        \* how the last call ended
  proc,        \* self._process: a generation, or 0 for None
  requestId,   \* self._request_id
  initialized, \* self._initialized
  queue,       \* self._stdout_queue
  gens,        \* generations started so far
  alive,       \* the processes still running
  stdin,       \* the pipe to each process: request ids, 0 for a notification
  stdinOpen,   \* FALSE once the client closed its end
  stdout,      \* the pipe from each process
  held,        \* the line a reader thread has read and not yet queued
  reading,     \* the reader threads that have not ended
  log          \* history: generation, method and call of every request id

caller  == <<pc, sending, attempt, after, skipped, calls, last>>
fields  == <<proc, requestId, initialized>>
server  == <<gens, alive, stdin, stdinOpen, stdout>>
readers == <<held, reading>>
vars    == <<caller, fields, queue, server, readers, log>>

PC == {"idle", "ensure", "write", "wait", "close", "exit"}

TypeOK ==
  /\ pc \in PC /\ sending \in Method /\ attempt \in 1 .. 2
  /\ after \in {"idle", "retry", "raise"}
  /\ skipped \in [blank : 0 .. MaxBlank, nonJson : 0 .. MaxNonJson]
  /\ calls \in 0 .. MaxCalls
  /\ last \in Exception \cup {"none", "ok"}
  /\ proc \in 0 .. gens /\ gens \in 0 .. MaxGen
  /\ requestId \in Nat /\ initialized \in BOOLEAN
  /\ queue \in Seq(Line)
  /\ alive \in [Gen -> BOOLEAN] /\ stdinOpen \in [Gen -> BOOLEAN]
  /\ stdin \in [Gen -> Seq(Nat)] /\ stdout \in [Gen -> Seq(Line)]
  /\ held \in [Gen -> Line] /\ reading \in [Gen -> BOOLEAN]
  /\ log \in Seq([gen : Nat, method : Method, call : Nat])

NoneSkipped == [blank |-> 0, nonJson |-> 0]

Init ==
  /\ pc = "idle" /\ sending = "tools/call" /\ attempt = 1 /\ after = "idle"
  /\ skipped = NoneSkipped /\ calls = 0 /\ last = "none"
  /\ proc = 0 /\ requestId = 0 /\ initialized = FALSE
  /\ queue = <<>>
  /\ gens = 0
  /\ alive = [g \in Gen |-> FALSE] /\ stdinOpen = [g \in Gen |-> FALSE]
  /\ stdin = [g \in Gen |-> <<>>] /\ stdout = [g \in Gen |-> <<>>]
  /\ held = [g \in Gen |-> Plain("none")] /\ reading = [g \in Gen |-> FALSE]
  /\ log = <<>>

(***************************************************************************)
(* The caller's thread                                                     *)
(***************************************************************************)

Mut_ConnectedIfInitialized == proc # 0 /\ alive[proc] /\ initialized

Connected == proc # 0 /\ alive[proc]

(* A mutant: three attempts instead of two.                                *)
Mut_FailOnceMore(exc) ==
  /\ last' = exc
  /\ IF sending = "tools/call" \/ exc \in Uncaught
     THEN pc' = "idle" /\ UNCHANGED after
     ELSE pc' = "close" /\ after' = IF attempt <= 2 THEN "retry" ELSE "raise"

(* A mutant: a tool call that failed is sent again.                        *)
Mut_FailResendsTool(exc) ==
  /\ last' = exc
  /\ IF sending = "tools/call" \/ exc \in Uncaught
     THEN pc' = (IF exc = "MaximaError" THEN "ensure" ELSE "idle") /\ UNCHANGED after
     ELSE pc' = "close" /\ after' = IF attempt = 1 THEN "retry" ELSE "raise"

(* An exception leaves _send_request.  _initialize catches MaximaError and *)
(* OSError, closes the connection and makes a second attempt; it does not  *)
(* catch the others.  _call_tool catches nothing.                          *)
Fail(exc) ==
  /\ last' = exc
  /\ IF sending = "tools/call" \/ exc \in Uncaught
     THEN pc' = "idle" /\ UNCHANGED after
     ELSE pc' = "close" /\ after' = IF attempt = 1 THEN "retry" ELSE "raise"

(* The user calls a tool: _call_tool enters _initialize, which sends       *)
(* nothing when the connection is already initialized.                     *)
CallTool ==
  /\ pc = "idle" /\ calls < MaxCalls
  /\ calls' = calls + 1
  /\ pc' = "ensure" /\ attempt' = 1
  /\ sending' = IF initialized THEN "tools/call" ELSE "initialize"
  /\ UNCHANGED <<after, skipped, last, fields, queue, server, readers, log>>

(* _ensure_connected, when a server is running.                            *)
StayConnected ==
  /\ pc = "ensure" /\ Connected
  /\ pc' = "write"
  /\ UNCHANGED <<sending, attempt, after, skipped, calls, last,
                 fields, queue, server, readers, log>>

(* A mutant: _start_server leaves _initialized alone.                      *)
Mut_StartKeepsInitialized ==
  /\ pc = "ensure" /\ ~ Connected /\ gens < MaxGen
  /\ gens' = gens + 1 /\ proc' = gens + 1
  /\ alive' = [alive EXCEPT ![gens + 1] = TRUE]
  /\ stdinOpen' = [stdinOpen EXCEPT ![gens + 1] = TRUE]
  /\ reading' = [reading EXCEPT ![gens + 1] = TRUE]
  /\ queue' = <<>> /\ pc' = "write"
  /\ UNCHANGED <<sending, attempt, after, skipped, calls, last, initialized,
                 requestId, stdin, stdout, held, log>>

(* _start_server: a new process, a new queue and a new reader thread.  The *)
(* reader of the process before it is neither stopped nor joined.          *)
StartServer ==
  /\ pc = "ensure" /\ ~ Connected /\ gens < MaxGen
  /\ gens' = gens + 1 /\ proc' = gens + 1
  /\ alive' = [alive EXCEPT ![gens + 1] = TRUE]
  /\ stdinOpen' = [stdinOpen EXCEPT ![gens + 1] = TRUE]
  /\ reading' = [reading EXCEPT ![gens + 1] = TRUE]
  /\ initialized' = FALSE /\ queue' = <<>>
  /\ pc' = "write"
  /\ UNCHANGED <<sending, attempt, after, skipped, calls, last,
                 requestId, stdin, stdout, held, log>>

(* Popen raises OSError: the command is missing or no process can be made. *)
SpawnFails ==
  /\ pc = "ensure" /\ ~ Connected
  /\ Fail("OSError")
  /\ UNCHANGED <<sending, attempt, skipped, calls,
                 fields, queue, server, readers, log>>

(* The rest of _send_request up to the flush: take the next id and write   *)
(* the request.  The write breaks if the server has died since             *)
(* _ensure_connected looked.                                               *)
WriteRequest ==
  /\ pc = "write"
  /\ requestId' = requestId + 1
  /\ log' = Append(log, [gen |-> proc, method |-> sending, call |-> calls])
  /\ \/ /\ alive[proc]
        /\ stdin' = [stdin EXCEPT ![proc] = Append(@, requestId + 1)]
        /\ pc' = "wait" /\ skipped' = NoneSkipped
        /\ UNCHANGED <<after, last>>
     \/ /\ ~ alive[proc]
        /\ Fail("OSError")
        /\ UNCHANGED <<stdin, skipped>>
  /\ UNCHANGED <<sending, attempt, calls, proc, initialized, queue,
                 gens, alive, stdinOpen, stdout, readers>>

(* A response with the awaited id: an error raises, a result moves         *)
(* _initialize to its next request or ends the call.                       *)
Accept(l) ==
  IF l.kind = "error"
  THEN /\ Fail("MaximaError")
       /\ UNCHANGED <<sending, initialized>>
  ELSE /\ UNCHANGED after
       /\ initialized' = (initialized \/ sending = "initialized")
       /\ CASE sending = "initialize"  ->
                 pc' = "ensure" /\ sending' = "initialized" /\ UNCHANGED last
            [] sending = "initialized" ->
                 pc' = "ensure" /\ sending' = "tools/call" /\ UNCHANGED last
            [] sending = "tools/call"  ->
                 /\ pc' = "idle" /\ UNCHANGED sending
                 /\ last' = "ok"

(* Mutants of the id check: no check, and a check that tolerates the past. *)
Mut_AnyId(l) == Accept(l)
Mut_OldId(l) ==
  IF l.id <= requestId
  THEN Accept(l)
  ELSE /\ Fail("MaximaError")
       /\ UNCHANGED <<sending, initialized>>

(* The id check of _send_request.                                          *)
MatchId(l) ==
  IF l.id = requestId
  THEN Accept(l)
  ELSE /\ Fail("MaximaError")
       /\ UNCHANGED <<sending, initialized>>

(* A mutant: blank_line_count is not counted up.                           *)
Mut_SkipBlankUncounted ==
  UNCHANGED <<skipped, pc, after, last>>

(* A blank line.  The loop before the first line that is not blank counts  *)
(* them and has a limit; the loop behind a non-JSON line has neither, and  *)
(* each turn of it waits for the whole timeout anew.                       *)
SkipBlank ==
  \/ /\ skipped.nonJson = 0 /\ skipped.blank < MaxBlank
     /\ skipped' = [skipped EXCEPT !.blank = @ + 1]
     /\ UNCHANGED <<pc, after, last>>
  \/ /\ skipped.nonJson = 0 /\ skipped.blank >= MaxBlank
     /\ Fail("MaximaError") /\ UNCHANGED skipped
  \/ /\ skipped.nonJson > 0
     /\ UNCHANGED <<skipped, pc, after, last>>

(* A line that is no JSON.                                                 *)
SkipNonJson ==
  \/ /\ skipped.nonJson < MaxNonJson
     /\ skipped' = [skipped EXCEPT !.nonJson = @ + 1]
     /\ UNCHANGED <<pc, after, last>>
  \/ /\ skipped.nonJson >= MaxNonJson
     /\ Fail("MaximaError") /\ UNCHANGED skipped

(* What _send_request raises for the lines that end it without an answer:  *)
(* json.loads or the id check refuses an object, a value that is no object *)
(* has no get, and None stands for a server that disconnected.             *)
Refuse(l) ==
  \/ l.kind = "scalar" /\ Fail("AttributeError")
  \/ l.kind \in {"object", "eof"} /\ Fail("MaximaError")

(* One line taken from the queue while a response is awaited.              *)
ReceiveLine ==
  /\ pc = "wait" /\ queue # <<>>
  /\ queue' = Tail(queue)
  /\ LET l == Head(queue) IN
     \/ IsAnswer(l) /\ MatchId(l) /\ UNCHANGED skipped
     \/ l.kind = "blank" /\ SkipBlank /\ UNCHANGED <<sending, initialized>>
     \/ l.kind = "noise" /\ SkipNonJson /\ UNCHANGED <<sending, initialized>>
     \/ Refuse(l) /\ UNCHANGED <<skipped, sending, initialized>>
  /\ UNCHANGED <<attempt, calls, proc, requestId, server, readers, log>>

(* Queue.get gives up.  The request stays with the server.                 *)
Timeout ==
  /\ pc = "wait" /\ queue = <<>>
  /\ Fail("MaximaTimeoutError")
  /\ UNCHANGED <<sending, attempt, skipped, calls,
                 fields, queue, server, readers, log>>

(* The user calls close().                                                 *)
UserClose ==
  /\ pc = "idle" /\ proc # 0
  /\ pc' = "close" /\ after' = "idle"
  /\ UNCHANGED <<sending, attempt, skipped, calls, last,
                 fields, queue, server, readers, log>>

(* What _initialize does after its except clause has closed the            *)
(* connection: a second attempt, or the raise of last_error.               *)
Resume ==
  IF after = "retry"
  THEN pc' = "ensure" /\ attempt' = attempt + 1 /\ sending' = "initialize"
  ELSE pc' = "idle" /\ UNCHANGED <<attempt, sending>>

(* close() up to the end of input: the shutdown notification if the        *)
(* connection was initialized, then stdin.close().                         *)
CloseStdin ==
  /\ pc = "close" /\ proc # 0
  /\ stdinOpen' = [stdinOpen EXCEPT ![proc] = FALSE]
  /\ stdin' = IF initialized /\ alive[proc]
              THEN [stdin EXCEPT ![proc] = Append(@, 0)]
              ELSE stdin
  /\ pc' = "exit"
  /\ UNCHANGED <<sending, attempt, after, skipped, calls, last, fields, queue,
                 gens, alive, stdout, readers, log>>

(* The rest of close(): the process has exited by itself, or terminate()   *)
(* and kill() end it.                                                      *)
ReapServer ==
  /\ pc = "exit"
  /\ alive' = [alive EXCEPT ![proc] = FALSE]
  /\ proc' = 0 /\ initialized' = FALSE
  /\ Resume
  /\ UNCHANGED <<after, skipped, calls, last, requestId, queue,
                 gens, stdin, stdinOpen, stdout, readers, log>>

(* close() with no process does nothing.                                   *)
CloseNothing ==
  /\ pc = "close" /\ proc = 0
  /\ Resume
  /\ UNCHANGED <<after, skipped, calls, last, fields, queue, server, readers, log>>

(***************************************************************************)
(* A server process.  It answers its requests in order (module McpServer)  *)
(* and notifications not at all; when an evaluation prints text without a  *)
(* newline the response that follows it is no JSON line any more.          *)
(***************************************************************************)
Emit(g, l) == stdout' = [stdout EXCEPT ![g] = Append(@, l)]

IsPrinted(l) == l.kind \in Printable

(* The bound on printed lines.  There may be any number one after another, *)
(* but no more than MaxNoise between a server and the caller at a time.    *)
RoomToPrint ==
  \A g \in Gen :
     Len(SelectSeq(stdout[g] \o <<held[g]>> \o queue, IsPrinted)) < MaxNoise

ServeRequest(g) ==
  /\ alive[g] /\ stdin[g] # <<>>
  /\ stdin' = [stdin EXCEPT ![g] = Tail(@)]
  /\ LET id == Head(stdin[g]) IN
     \/ id = 0 /\ UNCHANGED stdout
     \/ /\ id # 0
        /\ \E k \in {"result", "error"} :
              Emit(g, [kind |-> k, id |-> id, gen |-> g])
     \/ /\ id # 0 /\ RoomToPrint
        /\ \E k \in {"noise", "object"} \cap Printable : Emit(g, Plain(k))
  /\ UNCHANGED <<caller, fields, queue, gens, alive, stdinOpen, readers, log>>

(* An evaluation prints a whole line to the protocol stream.               *)
PrintLine(g) ==
  /\ alive[g] /\ RoomToPrint
  /\ \E k \in Printable : Emit(g, Plain(k))
  /\ UNCHANGED <<caller, fields, queue, gens, alive, stdin, stdinOpen,
                 readers, log>>

(* The server loop ends at the end of its input.                           *)
ServerExits(g) ==
  /\ alive[g] /\ stdin[g] = <<>> /\ ~ stdinOpen[g]
  /\ alive' = [alive EXCEPT ![g] = FALSE]
  /\ UNCHANGED <<caller, fields, queue, gens, stdin, stdinOpen, stdout,
                 readers, log>>

(* The process dies, possibly in the middle of writing a response.         *)
ServerDies(g) ==
  /\ alive[g]
  /\ alive' = [alive EXCEPT ![g] = FALSE]
  /\ \/ UNCHANGED stdout
     \/ stdin[g] # <<>> /\ Emit(g, Plain("object"))
  /\ UNCHANGED <<caller, fields, queue, gens, stdin, stdinOpen,
                 readers, log>>

(***************************************************************************)
(* The stdout reader thread of generation g                                *)
(***************************************************************************)

(* The for loop takes a line, or reaches the end of file: the pipe is      *)
(* empty and the process that held its other end is gone.  The loop looks  *)
(* self._process up once, when the thread starts; that is taken as part of *)
(* StartServer, though a thread that is very slow to start could find the  *)
(* process of a later start there, or None.                                *)
ReaderTakes(g) ==
  /\ reading[g] /\ held[g].kind = "none"
  /\ \/ /\ stdout[g] # <<>>
        /\ held' = [held EXCEPT ![g] = Head(stdout[g])]
        /\ stdout' = [stdout EXCEPT ![g] = Tail(@)]
     \/ /\ stdout[g] = <<>> /\ ~ alive[g]
        /\ held' = [held EXCEPT ![g] = Plain("eof")]
        /\ UNCHANGED stdout
  /\ UNCHANGED <<caller, fields, queue, gens, alive, stdin, stdinOpen,
                 reading, log>>

(* self._stdout_queue.put: the queue is looked up now, not when the thread *)
(* was started.  The None of the finally clause is the thread's last act.  *)
ReaderPuts(g) ==
  /\ held[g].kind # "none"
  /\ queue' = Append(queue, held[g])
  /\ held' = [held EXCEPT ![g] = Plain("none")]
  /\ reading' = [reading EXCEPT ![g] = held[g].kind # "eof"]
  /\ UNCHANGED <<caller, fields, server, log>>

ClientStep ==
  \/ StayConnected \/ StartServer \/ SpawnFails \/ WriteRequest
  \/ ReceiveLine \/ Timeout
  \/ CloseStdin \/ ReapServer \/ CloseNothing

Next ==
  \/ CallTool \/ UserClose \/ ClientStep
  \/ \E g \in Gen : \/ ServeRequest(g) \/ PrintLine(g)
                    \/ ServerExits(g) \/ ServerDies(g)
                    \/ ReaderTakes(g) \/ ReaderPuts(g)

Spec == Init /\ [][Next]_vars

(***************************************************************************)
(* Once a call is begun the caller's thread keeps running, and Queue.get   *)
(* and Popen.wait have finite timeouts: a client made with timeout = None, *)
(* which waits for ever, is left out.  Nothing is assumed of the servers   *)
(* or of the reader threads.                                               *)
(***************************************************************************)
FairSpec == Spec /\ WF_vars(ClientStep)

(***************************************************************************)
(* Properties                                                              *)
(***************************************************************************)

(* A call returns a result only from the answer the running server gave to *)
(* the very request this call wrote last: no late answer to a request that *)
(* timed out, and no line that an old reader thread moved into the new     *)
(* queue, is ever returned (the id check of _send_request, client.py:330). *)
AnswerIsOwn ==
  [][ pc = "wait" /\ pc' = "idle" /\ last' = "ok" =>
        LET l == Head(queue) IN
        /\ l.id = Len(log) /\ l.gen = proc
        /\ log[l.id] = [gen |-> proc, method |-> "tools/call", call |-> calls] ]_vars

(* No server process outlives the client's reference to it: a new one is   *)
(* started only when the old one is dead, and close() leaves none behind   *)
(* (_ensure_connected, client.py:166, and close, client.py:412).           *)
OnlyCurrentRuns == \A g \in Gen : alive[g] => g = proc

AnswersOf(g, s) == {i \in DOMAIN s : IsAnswer(s[i]) /\ s[i].gen = g}

(* After a successful call the connection is drained: nothing sent to the  *)
(* running server is still unanswered and none of its answers is still on  *)
(* the way, so the next call starts in sequence.                           *)
DrainedAfterSuccess ==
  pc = "idle" /\ last = "ok" /\ proc # 0 =>
    /\ stdin[proc] = <<>>
    /\ AnswersOf(proc, stdout[proc]) = {} /\ AnswersOf(proc, queue) = {}
    /\ ~ IsAnswer(held[proc])

(* self._initialized speaks of the process that is running now: this very  *)
(* generation was sent the request that ends the handshake.                *)
InitializedIsCurrent ==
  initialized => \E i \in DOMAIN log :
                    log[i].gen = proc /\ log[i].method = "initialized"

(* A tool call is sent at most once, whatever fails: only the handshake is *)
(* retried (client.py:347), so a side effect in Maxima is never repeated   *)
(* by the client on behalf of the same call.                               *)
ToolSentAtMostOnce ==
  \A i, j \in DOMAIN log :
     /\ log[i].method = "tools/call" /\ log[j].method = "tools/call"
     /\ log[i].call = log[j].call
     => i = j

(* A turn of the loop behind a non-JSON line, client.py:323, which skips   *)
(* blank lines without a limit.                                            *)
SkipsFreely ==
  ReceiveLine /\ Head(queue).kind = "blank" /\ skipped.nonJson > 0

(* Every call and every close() returns, even if the server hangs or is    *)
(* dead, whatever it prints and whatever the reader threads do, with one   *)
(* exception: a server that prints a non-JSON line and then blank lines    *)
(* for ever holds the call in the second loop (client.py:285-324).         *)
CallReturns ==
  \/ []<><<SkipsFreely>>_vars
  \/ pc # "idle" ~> pc = "idle"

(* _readline_with_timeout promises "The line read, or None if EOF.": the   *)
(* caller takes a None from the queue only when the process it refers to   *)
(* has ended (client.py:226, against the put of client.py:200).            *)
NoneMeansEof ==
  [][ pc = "wait" /\ queue # <<>> /\ Head(queue).kind = "eof" /\ pc' # "wait"
        => ~ alive[proc] ]_vars
=============================================================================
