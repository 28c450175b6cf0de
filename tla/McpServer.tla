------------------------------ MODULE McpServer ------------------------------
(***************************************************************************)
(* The stdio side of the server: read-json-message, the main loop of       *)
(* run-mcp-server and the handling of single and batch requests            *)
(* (src/mcp/transport.lisp, protocol.lisp), against a client that writes   *)
(* framed and line-delimited messages, and may write other lines too.      *)
(*                                                                         *)
(* The input is a sequence of tokens, each a whole line or a whole body:   *)
(*   json    a line beginning with { or [ (a line-delimited message)       *)
(*   word    any other line without a colon                                *)
(*   length  a Content-Length header with a positive number                *)
(*   header  any other line with a colon                                   *)
(*   blank   an empty line                                                 *)
(*   body    the body that follows a header block, without a line end      *)
(* A client writes a message in one piece.  Invalid lengths are left out.  *)
(***************************************************************************)
EXTENDS Naturals, Sequences, FiniteSets, Ascending

CONSTANTS
  MaxMessages,  \* bound: messages the client sends
  MaxStray,     \* bound: lines it writes that belong to no message
  BatchClasses  \* the classes of the requests it puts into a batch

ASSUME ServerAssumption ==
  /\ MaxMessages \in Nat /\ MaxStray \in Nat
  /\ BatchClasses \subseteq {"call", "plain", "bad"}

VARIABLES
  tidy,      \* the client writes nothing but messages and blank lines
  input,     \* tokens written and not yet read
  open,      \* FALSE once the client has closed its end
  sentAs,    \* history: the framing of each message sent
  strays,    \* stray lines written
  framing,   \* *mcp-stdio-framing*
  pc,        \* "read", "headers", "body", "handle"; "stopped", "crashed"
  gotLength, \* Content-Length is among the headers read so far
  current,   \* the message being handled
  todo,      \* its requests not yet handled
  done,      \* the responses so far
  output,    \* answers written, each with its framing
  executed,  \* history: the ids of the tool calls begun (0 for none)
  served     \* history: messages dealt with

\* The promise, with what the client and the server see of it
MessagesIn(s) ==
  LET at == InAscendingOrder({i \in DOMAIN s : s[i].kind \in {"json", "body"}})
  IN [k \in DOMAIN at |-> s[at[k]].msg]

Busy == pc \in {"handle", "crashed"}

Rpc == INSTANCE JsonRpc WITH
  pending <- (IF Busy THEN <<current>> ELSE <<>>) \o MessagesIn(input),
  answers <- [i \in DOMAIN output |-> output[i].answer],
  running <- pc \notin {"stopped", "crashed"},
  lossy   <- ~ tidy

NoMessage == [kind |-> "garbage", reqs |-> <<>>]
Token == [kind : {"json", "word", "length", "header", "blank", "body"},
          msg : Rpc!Message]
Line(k) == [kind |-> k, msg |-> NoMessage]
Framing == {"framed", "legacy"}

client == <<tidy, open, sentAs, strays>>
reader == <<framing, gotLength>>
handler == <<current, todo, done, executed>>
vars == <<client, input, reader, pc, handler, output, served>>

TypeOK ==
  /\ tidy \in BOOLEAN /\ open \in BOOLEAN
  /\ sentAs \in Seq(Framing) /\ Len(sentAs) <= MaxMessages /\ strays \in 0 .. MaxStray
  /\ input \in Seq(Token)
  /\ framing \in Framing /\ gotLength \in BOOLEAN
  /\ pc \in {"read", "headers", "body", "handle", "stopped", "crashed"}
  /\ current \in Rpc!Message /\ todo \in Seq(Rpc!Request)
  /\ done \in Seq(Rpc!Response)
  /\ output \in Seq([framing : Framing, answer : Seq(Rpc!Response)])
  /\ executed \in Seq(Rpc!Id)
  /\ served \in 0 .. Len(sentAs)

Init ==
  /\ tidy \in BOOLEAN /\ input = <<>> /\ open = TRUE /\ sentAs = <<>> /\ strays = 0
  /\ framing = "framed" /\ pc = "read" /\ gotLength = FALSE
  /\ current = NoMessage /\ todo = <<>> /\ done = <<>>
  /\ output = <<>> /\ executed = <<>> /\ served = 0

(***************************************************************************)
(* The client                                                              *)
(***************************************************************************)

(* The n-th message: its requests carry the ids 2n-1 and 2n, or none.  A   *)
(* batch has at most two requests.                                         *)
MessageNumber(n) ==
  LET Ask(i) == [id : {i, 0}, class : {"call", "plain", "bad"}]
      Do(i)  == [id : {i, 0}, class : BatchClasses]
  IN [kind : {"single"}, reqs : {<<r>> : r \in Ask(2 * n - 1)}]
     \cup [kind : {"batch"},
           reqs : {<<>>} \cup {<<a>> : a \in Do(2 * n - 1)}
                    \cup {<<a, b>> : a \in Do(2 * n - 1), b \in Do(2 * n)}]
     \cup [kind : {"invalid", "garbage"}, reqs : {<<>>}]

(* A message as a line, or as a header block and a body.  Other headers    *)
(* may stand before or after the length.                                   *)
Written(m) ==
  LET body == [kind |-> "body", msg |-> m]
  IN {<<"legacy", <<[kind |-> "json", msg |-> m]>> >>}
     \cup {<<"framed", h \o <<Line("blank"), body>> >> :
              h \in {<<Line("length")>>, <<Line("header"), Line("length")>>,
                     <<Line("length"), Line("header")>>}}

SendMessage ==
  /\ open /\ Len(sentAs) < MaxMessages
  /\ \E m \in MessageNumber(Len(sentAs) + 1) : \E w \in Written(m) :
       input' = input \o w[2] /\ sentAs' = Append(sentAs, w[1])
  /\ UNCHANGED <<tidy, open, strays, reader, pc, handler, output, served>>

(* A line of no message: a wrapper's banner, a user at the terminal.       *)
WriteStray ==
  /\ open /\ strays < MaxStray
  /\ strays' = strays + 1
  /\ \E k \in IF tidy THEN {"blank"} ELSE {"blank", "word", "header"} :
       input' = Append(input, Line(k))
  /\ UNCHANGED <<tidy, open, sentAs, reader, pc, handler, output, served>>

(* The client closes its end, perhaps in the middle of a message.          *)
CloseInput ==
  /\ open /\ open' = FALSE
  /\ \E cut \in {<<>>, <<Line("length")>>, <<Line("length"), Line("blank")>>} :
       input' = input \o cut
  /\ UNCHANGED <<tidy, sentAs, strays, reader, pc, handler, output, served>>

(***************************************************************************)
(* read-json-message                                                       *)
(***************************************************************************)
(* JSON without a request in it is taken to have no colon, such as [] or   *)
(* [1].                                                                    *)
HasColon(t) == \/ t.kind \in {"length", "header"}
               \/ t.kind = "json" /\ t.msg.reqs # <<>>

(* A decoded message goes to the main loop, which hands its requests to    *)
(* handle-request one after the other.                                     *)
Receive(m) ==
  /\ pc' = "handle" /\ current' = m /\ todo' = m.reqs /\ done' = <<>>
  /\ UNCHANGED executed

(* :error is answered at once, with a null id and in the framing f.        *)
ParseError(f) ==
  /\ output' = Append(output, [framing |-> f, answer |-> <<Rpc!NullError>>])
  /\ pc' = "read"

(* :eof ends the server.                                                   *)
AtEnd == input = <<>> /\ ~ open

SkipBlank ==
  /\ pc = "read" /\ input # <<>> /\ Head(input).kind = "blank"
  /\ input' = Tail(input)
  /\ UNCHANGED <<client, reader, pc, handler, output, served>>

(* A line that begins like JSON is a message.                              *)
ReadLegacy ==
  /\ pc = "read" /\ input # <<>> /\ Head(input).kind = "json"
  /\ input' = Tail(input)
  /\ framing' = "legacy"
  /\ Receive(Head(input).msg)
  /\ UNCHANGED <<client, gotLength, output, served>>

(* Any other line without a colon is taken for one, and is none.           *)
ReadWord ==
  /\ pc = "read" /\ input # <<>> /\ Head(input).kind = "word"
  /\ input' = Tail(input)
  /\ framing' = "legacy"
  /\ ParseError("legacy")
  /\ UNCHANGED <<client, gotLength, handler, served>>

(* Any other line with a colon begins a header block.                      *)
BeginHeaders ==
  /\ pc = "read" /\ input # <<>> /\ Head(input).kind \in {"length", "header"}
  /\ input' = Tail(input)
  /\ pc' = "headers" /\ gotLength' = (Head(input).kind = "length")
  /\ UNCHANGED <<client, framing, handler, output, served>>

(* In a header block every line with a colon is a header, a JSON-RPC       *)
(* message on a line of its own included.                                  *)
ReadHeader ==
  /\ pc = "headers" /\ input # <<>> /\ HasColon(Head(input))
  /\ input' = Tail(input)
  /\ gotLength' = (gotLength \/ Head(input).kind = "length")
  /\ UNCHANGED <<client, framing, pc, handler, output, served>>

BadHeader ==
  /\ pc = "headers" /\ input # <<>>
  /\ ~ HasColon(Head(input)) /\ Head(input).kind # "blank"
  /\ input' = Tail(input)
  /\ ParseError(framing)
  /\ UNCHANGED <<client, reader, handler, served>>

EndHeaders ==
  /\ pc = "headers" /\ input # <<>> /\ Head(input).kind = "blank"
  /\ input' = Tail(input)
  /\ IF gotLength THEN pc' = "body" /\ UNCHANGED output ELSE ParseError(framing)
  /\ UNCHANGED <<client, reader, handler, served>>

(* A mutant: the framing stays legacy once it was.                         *)
Mut_ReadBodyKeepsFraming ==
  /\ pc = "body" /\ input # <<>>
  /\ input' = Tail(input)
  /\ Receive(Head(input).msg)
  /\ UNCHANGED <<client, reader, output, served>>

(* read-framed-body, with the whole body there.                            *)
ReadBody ==
  /\ pc = "body" /\ input # <<>>
  /\ input' = Tail(input)
  /\ framing' = "framed"
  /\ Receive(Head(input).msg)
  /\ UNCHANGED <<client, gotLength, output, served>>

(* The end of the input, at a message boundary or in the middle of one.    *)
ReachEnd ==
  /\ pc \in {"read", "headers", "body"} /\ AtEnd
  /\ pc' = "stopped"
  /\ UNCHANGED <<client, input, reader, handler, output, served>>

(***************************************************************************)
(* The main loop and handle-request                                        *)
(***************************************************************************)

(* A mutant: a notification is answered with the null id.                  *)
Mut_AnswerAll ==
  /\ pc = "handle" /\ todo # <<>>
  /\ todo' = Tail(todo)
  /\ LET r == Head(todo) IN
     /\ executed' = IF r.class = "call" THEN Append(executed, r.id) ELSE executed
     /\ \E k \in Rpc!ResponseKinds(r.class) :
          done' = Append(done, [id |-> r.id, kind |-> k])
  /\ UNCHANGED <<client, input, reader, pc, current, output, served>>

(* A mutant: nil is pushed for a notification.                             *)
Mut_PushNil ==
  /\ pc = "handle" /\ todo # <<>>
  /\ todo' = Tail(todo)
  /\ LET r == Head(todo) IN
     /\ executed' = IF r.class = "call" THEN Append(executed, r.id) ELSE executed
     /\ \E k \in Rpc!ResponseKinds(r.class) :
          done' = Append(done, [id |-> r.id, kind |-> IF r.id = 0 THEN "nil" ELSE k])
  /\ UNCHANGED <<client, input, reader, pc, current, output, served>>

(* A mutant: a failed call is handled once more.                           *)
Mut_HandleAgain ==
  /\ pc = "handle" /\ todo # <<>>
  /\ LET r == Head(todo) IN
     /\ executed' = IF r.class = "call" THEN Append(executed, r.id) ELSE executed
     /\ \E k \in Rpc!ResponseKinds(r.class) :
          IF k = "error" /\ r.class = "call"
          THEN UNCHANGED <<todo, done>>
          ELSE /\ todo' = Tail(todo)
               /\ done' = IF r.id = 0 THEN done
                          ELSE Append(done, [id |-> r.id, kind |-> k])
  /\ UNCHANGED <<client, input, reader, pc, current, output, served>>

(* handle-request: a request without an id is handled like any other and   *)
(* its response is thrown away.                                            *)
HandleRequest ==
  /\ pc = "handle" /\ todo # <<>>
  /\ todo' = Tail(todo)
  /\ LET r == Head(todo) IN
     /\ executed' = IF r.class = "call" THEN Append(executed, r.id) ELSE executed
     /\ \E k \in Rpc!ResponseKinds(r.class) :
          done' = IF r.id = 0 THEN done ELSE Append(done, [id |-> r.id, kind |-> k])
  /\ UNCHANGED <<client, input, reader, pc, current, output, served>>

(* Mutants: a batch with a notification in it is not answered; and a       *)
(* message without an answer is not finished.                              *)
Mut_ReplyIfComplete ==
  /\ pc = "handle" /\ todo = <<>>
  /\ output' = IF Len(done) # Len(current.reqs) THEN output
               ELSE Append(output, [framing |-> framing, answer |-> done])
  /\ pc' = "read" /\ served' = served + 1
  /\ current' = NoMessage /\ done' = <<>>
  /\ UNCHANGED <<client, input, reader, todo, executed>>
Mut_ReplyOnlyIfAny ==
  /\ pc = "handle" /\ todo = <<>> /\ done # <<>>
  /\ output' = Append(output, [framing |-> framing, answer |-> done])
  /\ pc' = "read" /\ served' = served + 1
  /\ current' = NoMessage /\ done' = <<>>
  /\ UNCHANGED <<client, input, reader, todo, executed>>

(* The main loop writes the response, or the responses of a batch as one   *)
(* array; nothing if there are none.  What is no request, and what could   *)
(* not be decoded, is answered with an error.                              *)
Reply ==
  /\ pc = "handle" /\ todo = <<>>
  /\ LET answer == IF current.kind \in {"invalid", "garbage"}
                   THEN <<Rpc!NullError>> ELSE done
     IN output' = IF answer = <<>> THEN output
                  ELSE Append(output, [framing |-> framing, answer |-> answer])
  /\ pc' = "read" /\ served' = served + 1
  /\ current' = NoMessage /\ done' = <<>>
  /\ UNCHANGED <<client, input, reader, todo, executed>>

(* An evaluation takes the process down with it.                           *)
Crash ==
  /\ pc = "handle" /\ todo # <<>> /\ Head(todo).class = "call"
  /\ executed' = Append(executed, Head(todo).id)
  /\ pc' = "crashed"
  /\ UNCHANGED <<client, input, reader, current, todo, done, output, served>>

ServerStep ==
  \/ SkipBlank \/ ReadLegacy \/ ReadWord \/ BeginHeaders
  \/ ReadHeader \/ BadHeader \/ EndHeaders \/ ReadBody \/ ReachEnd
  \/ HandleRequest \/ Reply

Next == SendMessage \/ WriteStray \/ CloseInput \/ ServerStep \/ Crash

Spec == Init /\ [][Next]_vars

(* The server reads on whenever there is something to read, and an         *)
(* evaluation ends or takes the server down.                               *)
FairSpec == Spec /\ WF_vars(ServerStep)

(***************************************************************************)
(* Properties                                                              *)
(***************************************************************************)

(* Seen from outside, reading, batching and framing disappear: messages    *)
(* are answered in the order sent, each once, whole and with its own ids,  *)
(* and notifications never; only where the input holds other lines may a   *)
(* message be lost (run-mcp-server, handle-request).                       *)
Promise == Rpc!Spec

(* Tool calls take effect in the order they were sent and never twice, in  *)
(* a batch or alone, whether they succeed, fail or crash the server.       *)
CallsRunOnceInOrder ==
  \A i, j \in DOMAIN executed :
    i < j /\ executed[i] # 0 /\ executed[j] # 0 => executed[i] < executed[j]

IdsOf(s) == {s[i].id : i \in DOMAIN s}
Answered == UNION {IdsOf(output[i].answer) : i \in DOMAIN output}

(* A crash leaves at most one message whose calls ran and whose answer the *)
(* client will never see; between messages there is none.  A batch is such *)
(* a message as a whole: its answers wait for its last request.            *)
LostAnswersAreOfOneMessage ==
  \A i \in DOMAIN executed :
    executed[i] # 0 =>
      executed[i] \in Answered \/ (Busy /\ executed[i] \in IdsOf(current.reqs))

(* An answer is written in the framing its message was sent in, also when  *)
(* a client mixes the two (write-json-message, transport.lisp:144).         *)
FramingMatches ==
  \A i \in DOMAIN output : \A id \in IdsOf(output[i].answer) \ {0} :
    output[i].framing = sentAs[(id + 1) \div 2]

(* Every message of a client that writes nothing else is dealt with, or    *)
(* the server has ended.                                                   *)
EveryMessageServed ==
  \A n \in 1 .. MaxMessages :
    (tidy /\ Len(sentAs) >= n) ~> (served >= n \/ pc \in {"stopped", "crashed"})
=============================================================================
