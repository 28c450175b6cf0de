------------------------------- MODULE JsonRpc -------------------------------
(***************************************************************************)
(* What a JSON-RPC server over one ordered input promises, without its     *)
(* framing, its reading and its handling: messages are consumed in the     *)
(* order they were submitted, each is answered at most once and as a       *)
(* whole, and the server may stop for good between two of them.  Where the *)
(* input holds more than messages (lossy) a message may be lost.           *)
(***************************************************************************)
EXTENDS Naturals, Sequences, Ascending

CONSTANT MaxMessages  \* bound: messages submitted

(* Two request ids for each message; 0 stands for an absent id (or false,  *)
(* which decodes to nil too).  An explicit null is an id like any other: it *)
(* decodes to :null, and the request is answered with it.                  *)
Id == 0 .. 2 * MaxMessages

(* A tools/call has effects; "plain" is any other method the server knows; *)
(* "bad" has the wrong version or an unknown method.                       *)
Request == [id : Id, class : {"call", "plain", "bad"}]

(* "invalid" is JSON that is neither an object nor an array of objects,    *)
(* "garbage" is no JSON.                                                   *)
MessageKind == {"single", "batch", "invalid", "garbage"}
Message == [kind : MessageKind, reqs : Seq(Request)]

Response == [id : Id, kind : {"result", "error"}]
NullError == [id |-> 0, kind |-> "error"]

(* What a request may be answered with.  A tool may fail, and so may       *)
(* resources/read.                                                         *)
ResponseKinds(class) ==
  IF class = "bad" THEN {"error"} ELSE {"result", "error"}

(* The answers a message may get: its requests with an id, in order; an    *)
(* empty one is not sent.                                                  *)
Answers(m) ==
  IF m.kind \in {"invalid", "garbage"} THEN {<<NullError>>}
  ELSE LET at == InAscendingOrder({i \in DOMAIN m.reqs : m.reqs[i].id # 0})
           kinds == {k \in [DOMAIN at -> {"result", "error"}] :
                       \A i \in DOMAIN at : k[i] \in ResponseKinds(m.reqs[at[i]].class)}
       IN {[i \in DOMAIN at |-> [id |-> m.reqs[at[i]].id, kind |-> k[i]]] : k \in kinds}

VARIABLES
  pending,  \* messages submitted and not yet answered for
  answers,  \* answers sent
  running,  \* FALSE once the server has stopped
  lossy     \* whether the input may hold more than messages

vars == <<pending, answers, running, lossy>>

Init == pending = <<>> /\ answers = <<>> /\ running = TRUE /\ lossy \in BOOLEAN

(* The client may submit to a server that has just stopped.                *)
Submit ==
  /\ Len(pending') = Len(pending) + 1 /\ pending'[Len(pending')] \in Message
  /\ pending' = Append(pending, pending'[Len(pending')])
  /\ UNCHANGED <<answers, running, lossy>>

Consume ==
  /\ running /\ pending # <<>>
  /\ pending' = Tail(pending)
  /\ \E a \in Answers(Head(pending)) :
       answers' = IF a = <<>> THEN answers ELSE Append(answers, a)
  /\ UNCHANGED <<running, lossy>>

Lose ==
  /\ lossy /\ running /\ pending # <<>>
  /\ pending' = Tail(pending)
  /\ UNCHANGED <<answers, running, lossy>>

(* An error for input that is no message, or is no longer taken for one.   *)
Complain ==
  /\ lossy /\ running
  /\ answers' = Append(answers, <<NullError>>)
  /\ UNCHANGED pending \/ (pending # <<>> /\ pending' = Tail(pending))
  /\ UNCHANGED <<running, lossy>>

Stop ==
  /\ running /\ running' = FALSE
  /\ UNCHANGED <<pending, answers, lossy>>

Next == Submit \/ Consume \/ Lose \/ Complain \/ Stop

Spec == Init /\ [][Next]_vars
=============================================================================
