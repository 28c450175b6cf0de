--------------------------- MODULE McpServerProofs ---------------------------
(***************************************************************************)
(* Proofs about McpServer, for every value of its constants: the types,    *)
(* CallsRunOnceInOrder, LostAnswersAreOfOneMessage, FramingMatches, and    *)
(* that it implements JsonRpc (Promise).                                   *)
(*                                                                         *)
(* The argument.  Ids rise along one line: the calls that were executed,   *)
(* the requests of the message being handled, the tokens still to be read, *)
(* the messages still to be sent (InOrder).  The requests done and to do   *)
(* are of the message being handled, and every executed call is answered,  *)
(* about to be, or of that message (Handling).  Its framing is the one its *)
(* token was sent in (Faithful), because a header block with a length ends *)
(* in its own body or with the input (Framed).                             *)
(*                                                                         *)
(* For the promise, pending is the message being handled and those in the  *)
(* input.  Which tokens are messages is found by listing their places in   *)
(* ascending order, and so is which requests were asked; there is one such *)
(* list (OrderIsUnique), and a token read or written changes it at one end.*)
(* A message half handled has the answers of the requests so far (Halfway).*)
(* Nothing is lost or complained of if the client is tidy, as a header     *)
(* block it began has its length yet to come or had it (Tidy).             *)
(***************************************************************************)
EXTENDS McpServer, FiniteSetTheorems, SequenceTheorems, WellFoundedInduction, TLAPS

(***************************************************************************)
(* The invariant                                                           *)
(***************************************************************************)

(* The ids of requests that expect an answer.                              *)
ReqIds(r) == {r[i].id : i \in 1 .. Len(r)} \ {0}
MsgIds(t) == ReqIds(t.msg.reqs)

Rising(r) ==
  \A i, j \in 1 .. Len(r) : i < j /\ r[i].id # 0 /\ r[j].id # 0 => r[i].id < r[j].id

(* The ids of a set come before all ids of the input, and are at most n.   *)
Earlier(S, s, n) ==
  \A a \in S : a <= n /\ \A i \in 1 .. Len(s) : \A b \in MsgIds(s[i]) : a < b

(* The ids of the input rise from token to token and within a token.       *)
Sorted(s, n) ==
  \A i \in 1 .. Len(s) :
    /\ Rising(s[i].msg.reqs)
    /\ \A a \in MsgIds(s[i]) :
         a <= n /\ \A j \in 1 .. Len(s) : i < j => \A b \in MsgIds(s[j]) : a < b

(* The highest id sent so far.                                             *)
Newest == 2 * Len(sentAs)

ExecutedIds == {executed[i] : i \in 1 .. Len(executed)} \ {0}

InOrder ==
  /\ Sorted(input, Newest)
  /\ Rising(todo) /\ Earlier(ReqIds(todo), input, Newest)
  /\ CallsRunOnceInOrder /\ Earlier(ExecutedIds, input, Newest)
  /\ pc # "crashed" => \A e \in ExecutedIds, a \in ReqIds(todo) : e < a

(* What follows a Content-Length line at position i.                       *)
Completed(s, i, op) ==
  \/ i + 2 <= Len(s) /\ s[i + 1].kind = "blank" /\ s[i + 2].kind = "body"
  \/ /\ i + 3 <= Len(s) /\ s[i + 1].kind = "header" /\ s[i + 2].kind = "blank"
     /\ s[i + 3].kind = "body"
  \/ ~ op /\ (i = Len(s) \/ (i + 1 = Len(s) /\ s[i + 1].kind = "blank"))

(* A header block with a length ends in a body, or with the input.         *)
Framed ==
  /\ \A i \in 1 .. Len(input) : input[i].kind = "length" => Completed(input, i, open)
  /\ pc = "headers" /\ gotLength => Completed(input, 0, open)
  /\ pc = "body" => IF input = <<>> THEN ~ open ELSE input[1].kind = "body"

(* What is neither object nor array has no requests.                       *)
Proper(m) == m.kind \in {"invalid", "garbage"} => m.reqs = <<>>

(* The framing a request was sent in.                                      *)
SentIn(id, f, sa) == sa[(id + 1) \div 2] = f
TokenSentIn(t, sa) ==
  /\ t.kind = "json" => \A a \in MsgIds(t) : SentIn(a, "legacy", sa)
  /\ t.kind = "body" => \A a \in MsgIds(t) : SentIn(a, "framed", sa)

Answer(o, sa) ==
  \A a \in ReqIds(o.answer) : a <= 2 * Len(sa) /\ SentIn(a, o.framing, sa)

Faithful ==
  /\ \A i \in 1 .. Len(input) : Proper(input[i].msg) /\ TokenSentIn(input[i], sentAs)
  /\ \A i \in 1 .. Len(output) : Answer(output[i], sentAs)

(* The message being handled, its requests done and to do, and its framing.*)
Handling ==
  /\ ~ Busy => current = NoMessage /\ todo = <<>> /\ done = <<>>
  /\ Proper(current)
  /\ ReqIds(todo) \cup ReqIds(done) \subseteq ReqIds(current.reqs)
  /\ \A a \in ReqIds(current.reqs) : a <= Newest /\ SentIn(a, framing, sentAs)
  /\ \A e \in ExecutedIds :
       \/ e \in Answered \/ e \in ReqIds(done)
       \/ pc = "crashed" /\ e \in ReqIds(current.reqs)

(* No message is dealt with twice.                                         *)
MessagePlaces(s) == {i \in 1 .. Len(s) : s[i].kind \in {"json", "body"}}
Counted ==
  Cardinality(MessagePlaces(input)) + (IF Busy THEN 1 ELSE 0) + served <= Len(sentAs)

(* Of a client that writes nothing but messages and blank lines: a header  *)
(* is next to a length, unless that was read already.                      *)
Beside(s, i) == \/ i + 1 <= Len(s) /\ s[i + 1].kind = "length"
                \/ 1 < i /\ s[i - 1].kind = "length"
Tidily(s) ==
  \A i \in 1 .. Len(s) : /\ s[i].kind # "word"
                         /\ s[i].kind = "header" => i = 1 \/ Beside(s, i)
Fresh(s) == s # <<>> /\ s[1].kind = "header" => 2 <= Len(s) /\ s[2].kind = "length"

(* TypeOK without the bound on served.                                     *)
TypeInv ==
  /\ tidy \in BOOLEAN /\ open \in BOOLEAN
  /\ sentAs \in Seq(Framing) /\ Len(sentAs) <= MaxMessages /\ strays \in 0 .. MaxStray
  /\ input \in Seq(Token)
  /\ framing \in Framing /\ gotLength \in BOOLEAN
  /\ pc \in {"read", "headers", "body", "handle", "stopped", "crashed"}
  /\ current \in Rpc!Message /\ todo \in Seq(Rpc!Request)
  /\ done \in Seq(Rpc!Response)
  /\ output \in Seq([framing : Framing, answer : Seq(Rpc!Response)])
  /\ executed \in Seq(Rpc!Id)
  /\ served \in Nat

IInv == TypeInv /\ InOrder /\ Framed /\ Faithful /\ Handling /\ Counted

(***************************************************************************)
(* Sequences                                                               *)
(***************************************************************************)

(* The first element of a sequence and the others.                         *)
LEMMA TakenFrom ==
  ASSUME NEW S, NEW s \in Seq(S), s # <<>>
  PROVE  /\ Len(s) \in Nat \ {0} /\ Head(s) = s[1] /\ Head(s) \in S /\ 1 \in 1 .. Len(s)
         /\ Tail(s) \in Seq(S) /\ Len(Tail(s)) = Len(s) - 1
         /\ \A i \in 1 .. Len(Tail(s)) : Tail(s)[i] = s[i + 1] /\ i + 1 \in 1 .. Len(s)
         /\ \A i \in 1 .. Len(s) : i = 1 \/ i - 1 \in 1 .. Len(Tail(s))
<1>1. Len(s) \in Nat \ {0}
  BY LenProperties, EmptySeq
<1>2. /\ Head(s) = s[1] /\ Head(s) \in S
      /\ Tail(s) \in Seq(S) /\ Len(Tail(s)) = Len(s) - 1
      /\ \A i \in 1 .. Len(Tail(s)) : Tail(s)[i] = s[i + 1]
  BY HeadTailProperties
<1> QED
  BY <1>1, <1>2

(* A concatenation.                                                        *)
LEMMA Joined ==
  ASSUME NEW S, NEW s \in Seq(S), NEW w \in Seq(S)
  PROVE  /\ s \o w \in Seq(S) /\ Len(s \o w) = Len(s) + Len(w)
         /\ Len(s) \in Nat /\ Len(w) \in Nat
         /\ \A i \in 1 .. Len(s) : (s \o w)[i] = s[i] /\ i \in 1 .. Len(s \o w)
         /\ \A k \in 1 .. Len(w) : (s \o w)[Len(s) + k] = w[k]
                                  /\ Len(s) + k \in 1 .. Len(s \o w)
         /\ \A i \in 1 .. Len(s \o w) :
              i \in 1 .. Len(s) \/ (i - Len(s) \in 1 .. Len(w) /\ i = Len(s) + (i - Len(s)))
<1>1. /\ s \o w \in Seq(S) /\ Len(s \o w) = Len(s) + Len(w)
      /\ \A i \in 1 .. Len(s) + Len(w) :
           (s \o w)[i] = IF i <= Len(s) THEN s[i] ELSE w[i - Len(s)]
  BY ConcatProperties
<1>2. Len(s) \in Nat /\ Len(w) \in Nat
  BY LenProperties
<1>3. \A i \in 1 .. Len(s) : i \in 1 .. Len(s) + Len(w) /\ i <= Len(s)
  BY <1>2
<1>4. \A k \in 1 .. Len(w) : /\ Len(s) + k \in 1 .. Len(s) + Len(w)
                             /\ ~ (Len(s) + k <= Len(s)) /\ (Len(s) + k) - Len(s) = k
  BY <1>2
<1>5. \A i \in 1 .. Len(s) + Len(w) :
        i \in 1 .. Len(s) \/ (i - Len(s) \in 1 .. Len(w) /\ i = Len(s) + (i - Len(s)))
  BY <1>2
<1>6. \A k \in 1 .. Len(w) : (s \o w)[Len(s) + k] = w[k]
  BY <1>1, <1>4
<1> QED
  BY <1>1, <1>2, <1>3, <1>4, <1>5, <1>6

(* One more element.                                                       *)
LEMMA Extended ==
  ASSUME NEW S, NEW s \in Seq(S), NEW e \in S
  PROVE  /\ Append(s, e) \in Seq(S) /\ Len(Append(s, e)) = Len(s) + 1 /\ Len(s) \in Nat
         /\ Append(s, e)[Len(s) + 1] = e /\ Len(s) + 1 \in 1 .. Len(Append(s, e))
         /\ \A i \in 1 .. Len(s) : Append(s, e)[i] = s[i] /\ i \in 1 .. Len(Append(s, e))
         /\ \A i \in 1 .. Len(Append(s, e)) : i \in 1 .. Len(s) \/ i = Len(s) + 1
<1>1. /\ Append(s, e) \in Seq(S) /\ Len(Append(s, e)) = Len(s) + 1 /\ Len(s) \in Nat
      /\ Append(s, e)[Len(s) + 1] = e
      /\ \A i \in 1 .. Len(s) : Append(s, e)[i] = s[i]
  BY AppendProperties, LenProperties
<1> QED
  BY <1>1

(***************************************************************************)
(* Ids                                                                     *)
(***************************************************************************)

(* Handling the first request of a message takes its id off those to do.   *)
LEMMA IdsTail ==
  ASSUME NEW r \in Seq(Rpc!Request), r # <<>>
  PROVE  /\ ReqIds(Tail(r)) \subseteq ReqIds(r)
         /\ Head(r).id # 0 => Head(r).id \in ReqIds(r)
         /\ ReqIds(r) = ReqIds(Tail(r)) \cup ({Head(r).id} \ {0})
         /\ Rising(r) => /\ Rising(Tail(r))
                         /\ Head(r).id # 0 => \A a \in ReqIds(Tail(r)) : Head(r).id < a
<1>1. /\ Len(r) \in Nat \ {0} /\ Head(r) = r[1] /\ 1 \in 1 .. Len(r)
      /\ Tail(r) \in Seq(Rpc!Request) /\ Len(Tail(r)) = Len(r) - 1
      /\ \A i \in 1 .. Len(Tail(r)) : Tail(r)[i] = r[i + 1] /\ i + 1 \in 1 .. Len(r)
      /\ \A i \in 1 .. Len(r) : i = 1 \/ i - 1 \in 1 .. Len(Tail(r))
  BY TakenFrom
<1>2. \A i \in 1 .. Len(r) : i # 1 => r[i] = Tail(r)[i - 1]
  <2>1. ASSUME NEW i \in 1 .. Len(r), i # 1 PROVE r[i] = Tail(r)[i - 1]
    <3>1. i - 1 \in 1 .. Len(Tail(r)) /\ (i - 1) + 1 = i
      BY <1>1, <2>1
    <3> QED
      BY <1>1, <3>1
  <2> QED
    BY <2>1
<1>3. ReqIds(Tail(r)) \subseteq ReqIds(r) /\ (Head(r).id # 0 => Head(r).id \in ReqIds(r))
  BY <1>1 DEF ReqIds
<1>4. ReqIds(r) \subseteq ReqIds(Tail(r)) \cup ({Head(r).id} \ {0})
  BY <1>1, <1>2 DEF ReqIds
<1>5. ASSUME Rising(r) PROVE Rising(Tail(r))
  <2>1. \A i, j \in 1 .. Len(Tail(r)) :
          i < j => /\ i + 1 \in 1 .. Len(r) /\ j + 1 \in 1 .. Len(r) /\ i + 1 < j + 1
                   /\ Tail(r)[i] = r[i + 1] /\ Tail(r)[j] = r[j + 1]
    BY <1>1
  <2> QED
    BY <1>5, <2>1 DEF Rising
<1>6. ASSUME Rising(r), Head(r).id # 0, NEW a \in ReqIds(Tail(r))
      PROVE  Head(r).id < a
  <2>1. PICK i \in 1 .. Len(Tail(r)) : a = Tail(r)[i].id
    BY <1>6 DEF ReqIds
  <2>2. i + 1 \in 1 .. Len(r) /\ 1 < i + 1 /\ a = r[i + 1].id /\ a # 0
    BY <1>1, <1>6, <2>1 DEF ReqIds
  <2> QED
    BY <1>1, <1>6, <2>2 DEF Rising
<1> QED
  BY <1>3, <1>4, <1>5, <1>6

(* The ids of responses, one more of them included.                        *)
LEMMA IdsAppend ==
  ASSUME NEW d \in Seq(Rpc!Response), NEW x \in Rpc!Response
  PROVE  ReqIds(Append(d, x)) = ReqIds(d) \cup ({x.id} \ {0})
<1>1. /\ Append(d, x)[Len(d) + 1] = x /\ Len(d) + 1 \in 1 .. Len(Append(d, x))
      /\ \A i \in 1 .. Len(d) : Append(d, x)[i] = d[i] /\ i \in 1 .. Len(Append(d, x))
      /\ \A i \in 1 .. Len(Append(d, x)) : i \in 1 .. Len(d) \/ i = Len(d) + 1
  BY Extended
<1>2. ReqIds(Append(d, x)) \subseteq ReqIds(d) \cup ({x.id} \ {0})
  BY <1>1 DEF ReqIds
<1>3. ReqIds(d) \cup ({x.id} \ {0}) \subseteq ReqIds(Append(d, x))
  BY <1>1 DEF ReqIds
<1> QED
  BY <1>2, <1>3

(* The ids of executed calls.                                              *)
LEMMA ExecutedAppend ==
  ASSUME executed \in Seq(Rpc!Id), NEW id \in Rpc!Id, executed' = Append(executed, id)
  PROVE  /\ executed' \in Seq(Rpc!Id) /\ ExecutedIds' = ExecutedIds \cup ({id} \ {0})
         /\ CallsRunOnceInOrder /\ (id # 0 => \A e \in ExecutedIds : e < id) =>
              CallsRunOnceInOrder'
<1>1. /\ executed' \in Seq(Rpc!Id) /\ Len(executed') = Len(executed) + 1
      /\ Len(executed) \in Nat
      /\ executed'[Len(executed) + 1] = id /\ Len(executed) + 1 \in 1 .. Len(executed')
      /\ \A i \in 1 .. Len(executed) : executed'[i] = executed[i] /\ i \in 1 .. Len(executed')
      /\ \A i \in 1 .. Len(executed') : i \in 1 .. Len(executed) \/ i = Len(executed) + 1
  BY Extended
<1>2. ExecutedIds' \subseteq ExecutedIds \cup ({id} \ {0})
  BY <1>1 DEF ExecutedIds
<1>3. ExecutedIds \cup ({id} \ {0}) \subseteq ExecutedIds'
  BY <1>1 DEF ExecutedIds
<1>4. DOMAIN executed = 1 .. Len(executed) /\ DOMAIN executed' = 1 .. Len(executed')
  BY <1>1, LenProperties
<1>5. ASSUME CallsRunOnceInOrder, id # 0 => \A e \in ExecutedIds : e < id
      PROVE  CallsRunOnceInOrder'
  <2> SUFFICES ASSUME NEW i \in 1 .. Len(executed'), NEW j \in 1 .. Len(executed'), i < j,
                      executed'[i] # 0, executed'[j] # 0
               PROVE  executed'[i] < executed'[j]
    BY <1>4 DEF CallsRunOnceInOrder
  <2>1. CASE j \in 1 .. Len(executed)
    <3>1. i \in 1 .. Len(executed)
      BY <1>1, <2>1
    <3> QED
      BY <1>1, <1>4, <1>5, <2>1, <3>1 DEF CallsRunOnceInOrder
  <2>2. CASE j = Len(executed) + 1
    <3>1. i \in 1 .. Len(executed)
      BY <1>1, <2>2
    <3>2. executed'[i] \in ExecutedIds
      BY <1>1, <3>1 DEF ExecutedIds
    <3> QED
      BY <1>1, <1>5, <2>2, <3>2
  <2> QED
    BY <1>1, <2>1, <2>2
<1> QED
  BY <1>1, <1>2, <1>3, <1>5

(* A token carries a message, with requests and their ids.                 *)
LEMMA TokenTypes ==
  ASSUME NEW t \in Token
  PROVE  /\ t.msg \in Rpc!Message /\ t.msg.reqs \in Seq(Rpc!Request)
         /\ MsgIds(t) \in SUBSET Nat
<1>1. t.msg \in Rpc!Message /\ t.msg.reqs \in Seq(Rpc!Request)
  BY DEF Token, Rpc!Message
<1>2. \A j \in 1 .. Len(t.msg.reqs) : t.msg.reqs[j] \in Rpc!Request
  BY <1>1, ElementOfSeq
<1> QED
  BY <1>1, <1>2, ServerAssumption DEF MsgIds, ReqIds, Rpc!Request, Rpc!Id

(* What is read leaves an input that is sorted still, after its ids.       *)
LEMMA SortedTail ==
  ASSUME NEW s \in Seq(Token), s # <<>>, NEW n \in Nat
  PROVE  /\ Sorted(s, n) => /\ Sorted(Tail(s), n) /\ Rising(Head(s).msg.reqs)
                            /\ Earlier(MsgIds(Head(s)), Tail(s), n)
         /\ \A S : Earlier(S, s, n) =>
              Earlier(S, Tail(s), n) /\ \A e \in S, a \in MsgIds(Head(s)) : e < a
<1>1. /\ Len(s) \in Nat \ {0} /\ Head(s) = s[1] /\ 1 \in 1 .. Len(s)
      /\ Tail(s) \in Seq(Token) /\ Len(Tail(s)) = Len(s) - 1
      /\ \A i \in 1 .. Len(Tail(s)) : Tail(s)[i] = s[i + 1] /\ i + 1 \in 1 .. Len(s)
  BY TakenFrom
<1>2. \A i, j \in 1 .. Len(Tail(s)) : i < j => i + 1 < j + 1
  BY <1>1
<1>3. \A i \in 1 .. Len(Tail(s)) : 1 < i + 1
  BY <1>1
<1>4. ASSUME Sorted(s, n) PROVE Sorted(Tail(s), n)
  BY <1>1, <1>2, <1>4 DEF Sorted
<1>5. ASSUME Sorted(s, n)
      PROVE  Rising(Head(s).msg.reqs) /\ Earlier(MsgIds(Head(s)), Tail(s), n)
  BY <1>1, <1>3, <1>5 DEF Sorted, Earlier
<1>6. ASSUME NEW S, Earlier(S, s, n)
      PROVE  Earlier(S, Tail(s), n) /\ \A e \in S, a \in MsgIds(Head(s)) : e < a
  BY <1>1, <1>6 DEF Earlier
<1> QED
  BY <1>4, <1>5, <1>6

(* So do tokens with higher ids that are written after it.                 *)
LEMMA SortedJoined ==
  ASSUME NEW s \in Seq(Token), NEW w \in Seq(Token), NEW n \in Nat, NEW m \in Nat, n <= m,
         \A k \in 1 .. Len(w) :
           /\ Rising(w[k].msg.reqs)
           /\ \A a \in MsgIds(w[k]) : n < a /\ a <= m /\ k = Len(w)
  PROVE  /\ Sorted(s, n) => Sorted(s \o w, m)
         /\ \A S \in SUBSET Nat : Earlier(S, s, n) => Earlier(S, s \o w, m)
<1> DEFINE t == s \o w
<1>1. /\ Len(s) \in Nat /\ Len(w) \in Nat
      /\ \A i \in 1 .. Len(s) : t[i] = s[i]
      /\ \A k \in 1 .. Len(w) : t[Len(s) + k] = w[k]
      /\ \A i \in 1 .. Len(t) :
           i \in 1 .. Len(s) \/ (i - Len(s) \in 1 .. Len(w) /\ i = Len(s) + (i - Len(s)))
  BY Joined
<1>2. \A i \in 1 .. Len(s) : MsgIds(s[i]) \in SUBSET Nat
  BY ElementOfSeq, TokenTypes
<1>3. \A k \in 1 .. Len(w) : MsgIds(w[k]) \in SUBSET Nat
  BY ElementOfSeq, TokenTypes
<1> HIDE DEF t
<1>4. ASSUME NEW S \in SUBSET Nat, Earlier(S, s, n), NEW a \in S
      PROVE  a <= m /\ \A i \in 1 .. Len(t) : \A b \in MsgIds(t[i]) : a < b
  <2>1. a <= n /\ a \in Nat
    BY <1>4 DEF Earlier
  <2>2. ASSUME NEW i \in 1 .. Len(t), NEW b \in MsgIds(t[i]) PROVE a < b
    <3>1. CASE i \in 1 .. Len(s)
      BY <1>1, <1>4, <2>2, <3>1 DEF Earlier
    <3>2. CASE i - Len(s) \in 1 .. Len(w) /\ i = Len(s) + (i - Len(s))
      <4>1. t[i] = w[i - Len(s)]
        BY <1>1, <3>2
      <4>2. n < b /\ b \in Nat
        BY <1>3, <2>2, <3>2, <4>1
      <4> QED
        BY <2>1, <4>2
    <3> QED
      BY <1>1, <3>1, <3>2
  <2> QED
    BY <2>1, <2>2
<1>5. ASSUME Sorted(s, n), NEW i \in 1 .. Len(t)
      PROVE  /\ Rising(t[i].msg.reqs)
             /\ \A a \in MsgIds(t[i]) :
                  a <= m /\ \A j \in 1 .. Len(t) : i < j => \A b \in MsgIds(t[j]) : a < b
  <2>1. CASE i \in 1 .. Len(s)
    <3>1. t[i] = s[i] /\ Rising(s[i].msg.reqs)
      BY <1>1, <1>5, <2>1 DEF Sorted
    <3>2. ASSUME NEW a \in MsgIds(s[i])
          PROVE  a <= m /\ \A j \in 1 .. Len(t) : i < j => \A b \in MsgIds(t[j]) : a < b
      <4>1. a <= n /\ a \in Nat
        BY <1>2, <1>5, <2>1, <3>2 DEF Sorted
      <4>2. ASSUME NEW j \in 1 .. Len(t), i < j, NEW b \in MsgIds(t[j]) PROVE a < b
        <5>1. CASE j \in 1 .. Len(s)
          BY <1>1, <1>5, <2>1, <3>2, <4>2, <5>1 DEF Sorted
        <5>2. CASE j - Len(s) \in 1 .. Len(w) /\ j = Len(s) + (j - Len(s))
          <6>1. t[j] = w[j - Len(s)]
            BY <1>1, <5>2
          <6>2. n < b /\ b \in Nat
            BY <1>3, <4>2, <5>2, <6>1
          <6> QED
            BY <4>1, <6>2
        <5> QED
          BY <1>1, <5>1, <5>2
      <4> QED
        BY <4>1, <4>2
    <3> QED
      BY <3>1, <3>2
  <2>2. CASE i - Len(s) \in 1 .. Len(w) /\ i = Len(s) + (i - Len(s))
    <3>1. t[i] = w[i - Len(s)] /\ Rising(t[i].msg.reqs)
      BY <1>1, <2>2
    <3>2. ASSUME NEW a \in MsgIds(t[i])
          PROVE  a <= m /\ \A j \in 1 .. Len(t) : ~ (i < j)
      <4>1. a <= m /\ i - Len(s) = Len(w)
        BY <2>2, <3>1, <3>2
      <4>2. \A j \in 1 .. Len(t) : ~ (i < j)
        BY <1>1, <2>2, <4>1
      <4> QED
        BY <4>1, <4>2
    <3> QED
      BY <3>1, <3>2
  <2> QED
    BY <1>1, <2>1, <2>2
<1>6. Sorted(s, n) => Sorted(t, m)
  BY <1>5 DEF Sorted
<1>7. \A S \in SUBSET Nat : Earlier(S, s, n) => Earlier(S, t, m)
  BY <1>4 DEF Earlier
<1> QED
  BY <1>6, <1>7 DEF t

(***************************************************************************)
(* Header blocks, framings and counts                                      *)
(***************************************************************************)

(* What follows a length is the same seen from the next token, and is not  *)
(* changed by what is written after it.                                    *)
LEMMA CompletedTail ==
  ASSUME NEW s \in Seq(Token), s # <<>>, NEW op \in BOOLEAN
  PROVE  /\ \A i \in 1 .. Len(Tail(s)) :
              Completed(s, i + 1, op) => Completed(Tail(s), i, op)
         /\ Completed(s, 1, op) => Completed(Tail(s), 0, op)
<1>1. /\ Len(s) \in Nat \ {0} /\ Len(Tail(s)) = Len(s) - 1
      /\ \A i \in 1 .. Len(Tail(s)) : Tail(s)[i] = s[i + 1] /\ i + 1 \in 1 .. Len(s)
  BY TakenFrom
<1>2. ASSUME NEW i \in 0 .. Len(Tail(s)), Completed(s, i + 1, op)
      PROVE  Completed(Tail(s), i, op)
  <2>1. /\ (i + 1) + 1 = i + 2 /\ (i + 1) + 2 = i + 3 /\ (i + 1) + 3 = i + 4
        /\ i + 2 = (i + 1) + 1 /\ i + 3 = (i + 2) + 1 /\ i + 4 = (i + 3) + 1 /\ i \in Nat
    OBVIOUS
  <2>2. CASE (i + 1) + 2 <= Len(s) /\ s[(i + 1) + 1].kind = "blank" /\ s[(i + 1) + 2].kind = "body"
    <3>1. i + 2 <= Len(Tail(s)) /\ i + 1 \in 1 .. Len(Tail(s)) /\ i + 2 \in 1 .. Len(Tail(s))
      BY <1>1, <2>1, <2>2
    <3>2. Tail(s)[i + 1] = s[(i + 1) + 1] /\ Tail(s)[i + 2] = s[(i + 2) + 1]
      BY <1>1, <3>1
    <3> QED
      BY <2>1, <2>2, <3>1, <3>2 DEF Completed
  <2>3. CASE /\ (i + 1) + 3 <= Len(s) /\ s[(i + 1) + 1].kind = "header"
             /\ s[(i + 1) + 2].kind = "blank" /\ s[(i + 1) + 3].kind = "body"
    <3>1. /\ i + 3 <= Len(Tail(s)) /\ i + 1 \in 1 .. Len(Tail(s))
          /\ i + 2 \in 1 .. Len(Tail(s)) /\ i + 3 \in 1 .. Len(Tail(s))
      BY <1>1, <2>1, <2>3
    <3>2. /\ Tail(s)[i + 1] = s[(i + 1) + 1] /\ Tail(s)[i + 2] = s[(i + 2) + 1]
          /\ Tail(s)[i + 3] = s[(i + 3) + 1]
      BY <1>1, <3>1
    <3> QED
      BY <2>1, <2>3, <3>1, <3>2 DEF Completed
  <2>4. CASE ~ op /\ (i + 1 = Len(s) \/ ((i + 1) + 1 = Len(s) /\ s[(i + 1) + 1].kind = "blank"))
    <3> DEFINE m == Len(s)
               k == Len(Tail(s))
    <3>0. k = m - 1 /\ m \in Nat /\ k \in Nat /\ i \in Nat
      BY <1>1, <2>1
    <3> HIDE DEF m, k
    <3>1. CASE i + 1 = m
      <4>1. i = k
        BY <3>0, <3>1
      <4> QED
        BY <2>4, <4>1 DEF Completed, k
    <3>2. CASE (i + 1) + 1 = m /\ s[(i + 1) + 1].kind = "blank"
      <4>1. i + 1 = Len(Tail(s)) /\ i + 1 \in 1 .. Len(Tail(s))
        <5>1. i + 1 = k /\ i + 1 \in 1 .. k
          BY <3>0, <3>2
        <5> QED
          BY <5>1 DEF k
      <4>2. Tail(s)[i + 1] = s[(i + 1) + 1]
        BY <1>1, <4>1
      <4> QED
        BY <2>4, <3>2, <4>1, <4>2 DEF Completed
    <3> QED
      BY <2>4, <3>1, <3>2 DEF m
  <2> QED
    BY <1>2, <2>2, <2>3, <2>4 DEF Completed
<1>3. \A i \in 1 .. Len(Tail(s)) : i \in 0 .. Len(Tail(s))
  BY <1>1
<1>4. 0 \in 0 .. Len(Tail(s)) /\ 0 + 1 = 1
  BY <1>1
<1>5. Completed(s, 1, op) => Completed(Tail(s), 0, op)
  BY <1>2, <1>4
<1> QED
  BY <1>2, <1>3, <1>5

LEMMA CompletedJoined ==
  ASSUME NEW s \in Seq(Token), NEW w \in Seq(Token), NEW op \in BOOLEAN
  PROVE  /\ \A i \in 0 .. Len(s) : Completed(s, i, TRUE) => Completed(s \o w, i, op)
         /\ \A k \in 1 .. Len(w) : Completed(w, k, op) => Completed(s \o w, Len(s) + k, op)
<1> DEFINE t == s \o w
<1>1. /\ Len(s) \in Nat /\ Len(w) \in Nat /\ Len(t) = Len(s) + Len(w)
      /\ \A i \in 1 .. Len(s) : t[i] = s[i]
      /\ \A k \in 1 .. Len(w) : t[Len(s) + k] = w[k]
  BY Joined
<1> HIDE DEF t
<1>2. ASSUME NEW i \in 0 .. Len(s), Completed(s, i, TRUE) PROVE Completed(t, i, op)
  <2>1. CASE i + 2 <= Len(s) /\ s[i + 1].kind = "blank" /\ s[i + 2].kind = "body"
    <3>1. i + 1 \in 1 .. Len(s) /\ i + 2 \in 1 .. Len(s) /\ i + 2 <= Len(t)
      BY <1>1, <2>1
    <3> QED
      BY <1>1, <2>1, <3>1 DEF Completed
  <2>2. CASE /\ i + 3 <= Len(s) /\ s[i + 1].kind = "header" /\ s[i + 2].kind = "blank"
             /\ s[i + 3].kind = "body"
    <3>1. /\ i + 1 \in 1 .. Len(s) /\ i + 2 \in 1 .. Len(s) /\ i + 3 \in 1 .. Len(s)
          /\ i + 3 <= Len(t)
      BY <1>1, <2>2
    <3> QED
      BY <1>1, <2>2, <3>1 DEF Completed
  <2> QED
    BY <1>2, <2>1, <2>2 DEF Completed
<1>3. ASSUME NEW k \in 1 .. Len(w), Completed(w, k, op)
      PROVE  Completed(t, Len(s) + k, op)
  <2>1. /\ (Len(s) + k) + 1 = Len(s) + (k + 1) /\ (Len(s) + k) + 2 = Len(s) + (k + 2)
        /\ (Len(s) + k) + 3 = Len(s) + (k + 3)
    BY <1>1
  <2>2. CASE k + 2 <= Len(w) /\ w[k + 1].kind = "blank" /\ w[k + 2].kind = "body"
    <3>1. k + 1 \in 1 .. Len(w) /\ k + 2 \in 1 .. Len(w) /\ (Len(s) + k) + 2 <= Len(t)
      BY <1>1, <2>2
    <3> QED
      BY <1>1, <2>1, <2>2, <3>1 DEF Completed
  <2>3. CASE /\ k + 3 <= Len(w) /\ w[k + 1].kind = "header" /\ w[k + 2].kind = "blank"
             /\ w[k + 3].kind = "body"
    <3>1. /\ k + 1 \in 1 .. Len(w) /\ k + 2 \in 1 .. Len(w) /\ k + 3 \in 1 .. Len(w)
          /\ (Len(s) + k) + 3 <= Len(t)
      BY <1>1, <2>3
    <3> QED
      BY <1>1, <2>1, <2>3, <3>1 DEF Completed
  <2>4. CASE ~ op /\ k = Len(w)
    BY <1>1, <2>4 DEF Completed
  <2>5. CASE ~ op /\ k + 1 = Len(w) /\ w[k + 1].kind = "blank"
    <3>1. k + 1 \in 1 .. Len(w) /\ (Len(s) + k) + 1 = Len(t)
      BY <1>1, <2>5
    <3> QED
      BY <1>1, <2>1, <2>5, <3>1 DEF Completed
  <2> QED
    BY <1>3, <2>2, <2>3, <2>4, <2>5 DEF Completed
<1> QED
  BY <1>2, <1>3 DEF t

(* Reading a message takes it off the count, writing one adds it.          *)
LEMMA PlacesFinite ==
  ASSUME NEW s \in Seq(Token)
  PROVE  IsFiniteSet(MessagePlaces(s)) /\ Cardinality(MessagePlaces(s)) \in Nat
<1>1. Len(s) \in Nat
  BY LenProperties
<1>2. IsFiniteSet(1 .. Len(s))
  BY <1>1, FS_Interval
<1>3. MessagePlaces(s) \in SUBSET (1 .. Len(s))
  BY DEF MessagePlaces
<1>4. IsFiniteSet(MessagePlaces(s))
  BY <1>2, <1>3, FS_Subset
<1> QED
  BY <1>4, FS_CardinalityType

LEMMA PlacesTail ==
  ASSUME NEW s \in Seq(Token), s # <<>>
  PROVE  Cardinality(MessagePlaces(Tail(s)))
           = Cardinality(MessagePlaces(s)) - IF Head(s).kind \in {"json", "body"} THEN 1 ELSE 0
<1>1. /\ Len(s) \in Nat \ {0} /\ Head(s) = s[1] /\ 1 \in 1 .. Len(s)
      /\ Tail(s) \in Seq(Token) /\ Len(Tail(s)) = Len(s) - 1
      /\ \A i \in 1 .. Len(Tail(s)) : Tail(s)[i] = s[i + 1] /\ i + 1 \in 1 .. Len(s)
  BY TakenFrom
<1> DEFINE S == MessagePlaces(Tail(s))
           T == MessagePlaces(s) \ {1}
           f == [i \in S |-> i + 1]
<1>2. f \in [S -> T]
  <2>1. ASSUME NEW i \in S PROVE i + 1 \in T
    <3>1. i \in 1 .. Len(Tail(s)) /\ i \in Nat
      BY <1>1 DEF MessagePlaces
    <3> QED
      BY <1>1, <3>1 DEF MessagePlaces
  <2> QED
    BY <2>1
<1>3. \A i, j \in S : f[i] = f[j] => i = j
  <2>1. S \subseteq Nat
    BY <1>1 DEF MessagePlaces
  <2> QED
    BY <2>1
<1>4. \A k \in T : \E i \in S : f[i] = k
  <2>1. ASSUME NEW k \in T PROVE k - 1 \in S /\ f[k - 1] = k
    <3>1. k \in 1 .. Len(s) /\ k # 1 /\ s[k].kind \in {"json", "body"}
      BY DEF MessagePlaces
    <3>2. k - 1 \in 1 .. Len(Tail(s)) /\ (k - 1) + 1 = k
      BY <1>1, <3>1
    <3>3. Tail(s)[k - 1] = s[k]
      BY <1>1, <3>2
    <3>4. k - 1 \in S
      BY <3>1, <3>2, <3>3 DEF MessagePlaces
    <3> QED
      BY <3>2, <3>4
  <2> QED
    BY <2>1
<1>5. f \in Bijection(S, T)
  BY <1>2, <1>3, <1>4 DEF Bijection, Injection, Surjection, IsInjective
<1> HIDE DEF f, S
<1>6. IsFiniteSet(S) /\ IsFiniteSet(MessagePlaces(s))
  BY <1>1, PlacesFinite DEF S
<1>7. Cardinality(T) = Cardinality(S)
  BY <1>5, <1>6, FS_Bijection DEF ExistsBijection
<1>8. Cardinality(T) = IF 1 \in MessagePlaces(s) THEN Cardinality(MessagePlaces(s)) - 1
                       ELSE Cardinality(MessagePlaces(s))
  BY <1>6, FS_RemoveElement
<1>9. 1 \in MessagePlaces(s) <=> Head(s).kind \in {"json", "body"}
  BY <1>1 DEF MessagePlaces
<1>10. Cardinality(MessagePlaces(s)) \in Nat
  BY PlacesFinite
<1> QED
  BY <1>7, <1>8, <1>9, <1>10 DEF S

LEMMA PlacesJoined ==
  ASSUME NEW s \in Seq(Token), NEW w \in Seq(Token)
  PROVE  /\ MessagePlaces(w) = {} =>
              Cardinality(MessagePlaces(s \o w)) = Cardinality(MessagePlaces(s))
         /\ MessagePlaces(w) \subseteq {Len(w)} =>
              Cardinality(MessagePlaces(s \o w)) <= Cardinality(MessagePlaces(s)) + 1
<1>1. /\ s \o w \in Seq(Token) /\ Len(s) \in Nat /\ Len(w) \in Nat
      /\ \A i \in 1 .. Len(s) : (s \o w)[i] = s[i] /\ i \in 1 .. Len(s \o w)
      /\ \A k \in 1 .. Len(w) : (s \o w)[Len(s) + k] = w[k]
      /\ \A i \in 1 .. Len(s \o w) :
           i \in 1 .. Len(s) \/ (i - Len(s) \in 1 .. Len(w) /\ i = Len(s) + (i - Len(s)))
  BY Joined
<1>2. ASSUME NEW i \in MessagePlaces(s \o w)
      PROVE  i \in MessagePlaces(s) \/ (i - Len(s) \in MessagePlaces(w) /\ i \in Nat)
  <2>1. i \in 1 .. Len(s \o w) /\ (s \o w)[i].kind \in {"json", "body"}
    BY DEF MessagePlaces
  <2>2. CASE i \in 1 .. Len(s)
    BY <1>1, <2>1, <2>2 DEF MessagePlaces
  <2>3. CASE i - Len(s) \in 1 .. Len(w) /\ i = Len(s) + (i - Len(s))
    <3>1. (s \o w)[i] = w[i - Len(s)]
      BY <1>1, <2>3
    <3> QED
      BY <2>1, <2>3, <3>1 DEF MessagePlaces
  <2> QED
    BY <1>1, <2>1, <2>2, <2>3
<1>3. MessagePlaces(s) \subseteq MessagePlaces(s \o w)
  BY <1>1 DEF MessagePlaces
<1>4. /\ IsFiniteSet(MessagePlaces(s)) /\ Cardinality(MessagePlaces(s)) \in Nat
      /\ IsFiniteSet(MessagePlaces(s \o w)) /\ Cardinality(MessagePlaces(s \o w)) \in Nat
  BY <1>1, PlacesFinite
<1>5. ASSUME MessagePlaces(w) = {}
      PROVE  Cardinality(MessagePlaces(s \o w)) = Cardinality(MessagePlaces(s))
  <2>1. MessagePlaces(s \o w) = MessagePlaces(s)
    BY <1>2, <1>3, <1>5
  <2> QED
    BY <2>1
<1>6. ASSUME MessagePlaces(w) \subseteq {Len(w)}
      PROVE  Cardinality(MessagePlaces(s \o w)) <= Cardinality(MessagePlaces(s)) + 1
  <2> DEFINE U == MessagePlaces(s) \cup {Len(s) + Len(w)}
  <2>1. MessagePlaces(s \o w) \in SUBSET U
    <3>1. ASSUME NEW i \in MessagePlaces(s \o w), i \notin MessagePlaces(s)
          PROVE  i = Len(s) + Len(w)
      <4>1. i - Len(s) \in MessagePlaces(w) /\ i \in Nat
        BY <1>2, <3>1
      <4>2. i - Len(s) = Len(w)
        BY <1>6, <4>1
      <4> QED
        BY <1>1, <4>1, <4>2
    <3> QED
      BY <3>1
  <2>2. IsFiniteSet(U) /\ Cardinality(U) <= Cardinality(MessagePlaces(s)) + 1
    <3>1. IsFiniteSet(U) /\ (\/ Cardinality(U) = Cardinality(MessagePlaces(s))
                             \/ Cardinality(U) = Cardinality(MessagePlaces(s)) + 1)
      BY <1>4, FS_AddElement
    <3> QED
      BY <1>4, <3>1
  <2>3. Cardinality(U) \in Nat
    BY <2>2, FS_CardinalityType
  <2> HIDE DEF U
  <2>4. Cardinality(MessagePlaces(s \o w)) <= Cardinality(U)
    BY <2>1, <2>2, FS_Subset
  <2> QED
    BY <1>4, <2>2, <2>3, <2>4
<1> QED
  BY <1>5, <1>6

(***************************************************************************)
(* What the client writes                                                  *)
(***************************************************************************)

(* The requests of the n-th message carry its own ids, in order.           *)
LEMMA Numbered ==
  ASSUME NEW n \in 1 .. MaxMessages, NEW m \in MessageNumber(n)
  PROVE  /\ m \in Rpc!Message /\ Proper(m) /\ Rising(m.reqs)
         /\ \A a \in ReqIds(m.reqs) : a \in {2 * n - 1, 2 * n}
<1> DEFINE Ask(i) == [id : {i, 0}, class : {"call", "plain", "bad"}]
           Do(i)  == [id : {i, 0}, class : BatchClasses]
<1>1. /\ n \in Nat /\ 2 * n - 1 \in Rpc!Id /\ 2 * n \in Rpc!Id /\ 0 \in Rpc!Id
      /\ 2 * n - 1 < 2 * n /\ 2 * n - 1 # 0 /\ 2 * n # 0
  BY ServerAssumption DEF Rpc!Id
<1>2. \A r \in Ask(2 * n - 1) : r \in Rpc!Request /\ r.id \in {2 * n - 1, 0}
  BY <1>1 DEF Rpc!Request
<1>3. \A r \in Do(2 * n - 1) : r \in Rpc!Request /\ r.id \in {2 * n - 1, 0}
  BY <1>1, ServerAssumption DEF Rpc!Request
<1>4. \A r \in Do(2 * n) : r \in Rpc!Request /\ r.id \in {2 * n, 0}
  BY <1>1, ServerAssumption DEF Rpc!Request
<1>5. \/ m.kind = "single" /\ \E r \in Ask(2 * n - 1) : m.reqs = <<r>>
      \/ m.kind = "batch" /\ m.reqs = <<>>
      \/ m.kind = "batch" /\ \E r \in Do(2 * n - 1) : m.reqs = <<r>>
      \/ m.kind = "batch" /\ \E a \in Do(2 * n - 1), b \in Do(2 * n) : m.reqs = <<a, b>>
      \/ m.kind \in {"invalid", "garbage"} /\ m.reqs = <<>>
  BY DEF MessageNumber
<1>6. m = [kind |-> m.kind, reqs |-> m.reqs] /\ m.kind \in Rpc!MessageKind
  BY DEF MessageNumber, Rpc!MessageKind
<1> HIDE DEF Ask, Do
<1>7. ASSUME NEW r \in Ask(2 * n - 1) \cup Do(2 * n - 1), m.reqs = <<r>>
      PROVE  /\ m.reqs \in Seq(Rpc!Request) /\ Rising(m.reqs)
             /\ \A a \in ReqIds(m.reqs) : a \in {2 * n - 1, 2 * n}
  <2>1. m.reqs \in Seq(Rpc!Request) /\ Len(m.reqs) = 1 /\ m.reqs[1] = r
    BY <1>2, <1>3, <1>7
  <2> QED
    BY <1>2, <1>3, <2>1 DEF Rising, ReqIds
<1>8. ASSUME m.reqs = <<>>
      PROVE  /\ m.reqs \in Seq(Rpc!Request) /\ Rising(m.reqs)
             /\ \A a \in ReqIds(m.reqs) : a \in {2 * n - 1, 2 * n}
  BY <1>8 DEF Rising, ReqIds
<1>9. ASSUME NEW a \in Do(2 * n - 1), NEW b \in Do(2 * n), m.reqs = <<a, b>>
      PROVE  /\ m.reqs \in Seq(Rpc!Request) /\ Rising(m.reqs)
             /\ \A c \in ReqIds(m.reqs) : c \in {2 * n - 1, 2 * n}
  <2>1. /\ m.reqs \in Seq(Rpc!Request) /\ Len(m.reqs) = 2
        /\ m.reqs[1] = a /\ m.reqs[2] = b
    BY <1>3, <1>4, <1>9
  <2>2. \A i \in 1 .. Len(m.reqs) : i = 1 \/ i = 2
    BY <2>1
  <2>3. a.id \in {2 * n - 1, 0} /\ b.id \in {2 * n, 0}
    BY <1>3, <1>4
  <2>4. Rising(m.reqs)
    <3> SUFFICES ASSUME NEW i \in 1 .. Len(m.reqs), NEW j \in 1 .. Len(m.reqs), i < j,
                        m.reqs[i].id # 0, m.reqs[j].id # 0
                 PROVE  m.reqs[i].id < m.reqs[j].id
      BY DEF Rising
    <3>1. i = 1 /\ j = 2
      BY <2>2
    <3> QED
      BY <1>1, <2>1, <2>3, <3>1
  <2>5. \A c \in ReqIds(m.reqs) : c \in {2 * n - 1, 2 * n}
    BY <2>1, <2>2, <2>3 DEF ReqIds
  <2> QED
    BY <2>1, <2>4, <2>5
<1>10. /\ m.reqs \in Seq(Rpc!Request) /\ Rising(m.reqs)
       /\ \A a \in ReqIds(m.reqs) : a \in {2 * n - 1, 2 * n}
  BY <1>5, <1>7, <1>8, <1>9
<1>11. Proper(m)
  BY <1>5 DEF Proper
<1>12. m \in Rpc!Message
  BY <1>6, <1>10 DEF Rpc!Message
<1> QED
  BY <1>10, <1>11, <1>12

(* A line carries no request.                                              *)
LEMMA LineTokens ==
  /\ NoMessage \in Rpc!Message
  /\ \A k \in {"blank", "word", "length", "header"} :
       /\ Line(k) \in Token /\ Line(k).kind = k /\ Line(k).msg = NoMessage
       /\ MsgIds(Line(k)) = {} /\ Rising(Line(k).msg.reqs) /\ Proper(Line(k).msg)
<1>1. NoMessage \in Rpc!Message /\ NoMessage.reqs = <<>> /\ Len(<<>>) = 0
  BY DEF NoMessage, Rpc!Message, Rpc!MessageKind
<1>2. \A k \in {"blank", "word", "length", "header"} :
        Line(k) \in Token /\ Line(k).kind = k /\ Line(k).msg = NoMessage
  BY <1>1 DEF Line, Token
<1> QED
  BY <1>1, <1>2 DEF MsgIds, ReqIds, Rising, Proper

(* A message as the client writes it: lines, and last the message itself.  *)
Body(m) == [kind |-> "body", msg |-> m]
Json(m) == [kind |-> "json", msg |-> m]
LEMMA Block ==
  ASSUME NEW m \in Rpc!Message, NEW h \in Seq(Token), Len(h) \in {1, 2},
         \A k \in 1 .. Len(h) :
           /\ h[k] \in {Line("length"), Line("header")}
           /\ h[k] = Line("length") => \/ k = Len(h)
                                       \/ k + 1 = Len(h) /\ h[k + 1] = Line("header")
           /\ h[k] = Line("header") => \/ k + 1 = Len(h) /\ h[k + 1] = Line("length")
                                       \/ k = 2 /\ h[1] = Line("length"),
         NEW t, t = h \o <<Line("blank"), Body(m)>>
  PROVE  /\ t \in Seq(Token) /\ Len(t) \in Nat \ {0} /\ t[Len(t)] = Body(m)
         /\ \A k \in 1 .. Len(t) : k # Len(t) =>
              t[k] \in {Line("length"), Line("header"), Line("blank")}
         /\ \A k \in 1 .. Len(t) : t[k].kind = "length" => Completed(t, k, TRUE)
         /\ Tidily(t) /\ Fresh(t)
<1> DEFINE e == <<Line("blank"), Body(m)>>
<1>1. /\ Line("length") \in Token /\ Line("header") \in Token /\ Line("blank") \in Token
      /\ Line("length").kind = "length" /\ Line("header").kind = "header"
      /\ Line("blank").kind = "blank" /\ Body(m) \in Token /\ Body(m).kind = "body"
  BY LineTokens DEF Body, Token
<1>2. e \in Seq(Token) /\ Len(e) = 2 /\ e[1] = Line("blank") /\ e[2] = Body(m)
  BY <1>1
<1>3. t = h \o e
  OBVIOUS
<1> HIDE DEF e
<1>4. /\ t \in Seq(Token) /\ Len(t) = Len(h) + 2 /\ Len(h) \in Nat
      /\ \A k \in 1 .. Len(h) : t[k] = h[k]
      /\ \A k \in 1 .. 2 : t[Len(h) + k] = e[k]
  BY <1>2, <1>3, Joined
<1>5. t[Len(h) + 1] = Line("blank") /\ t[Len(h) + 2] = Body(m)
  BY <1>2, <1>4
<1>6. \A k \in 1 .. Len(t) : k \in 1 .. Len(h) \/ k = Len(h) + 1 \/ k = Len(h) + 2
  BY <1>4
<1>7. ASSUME NEW k \in 1 .. Len(t), t[k].kind = "length" PROVE Completed(t, k, TRUE)
  <2>1. k \in 1 .. Len(h) /\ t[k] = h[k]
    BY <1>1, <1>4, <1>5, <1>6, <1>7
  <2>2. h[k] = Line("length")
    BY <1>1, <1>7, <2>1
  <2>3. CASE k = Len(h)
    <3>1. k + 2 <= Len(t) /\ k + 1 = Len(h) + 1 /\ k + 2 = Len(h) + 2
      BY <1>4, <2>3
    <3>2. t[k + 1].kind = "blank" /\ t[k + 2].kind = "body"
      BY <1>1, <1>5, <3>1
    <3> QED
      BY <3>1, <3>2 DEF Completed
  <2>4. CASE k + 1 = Len(h) /\ h[k + 1] = Line("header")
    <3>1. /\ k + 3 <= Len(t) /\ k + 2 = Len(h) + 1 /\ k + 3 = Len(h) + 2
          /\ k + 1 \in 1 .. Len(h)
      BY <1>4, <2>4
    <3>2. t[k + 1].kind = "header" /\ t[k + 2].kind = "blank" /\ t[k + 3].kind = "body"
      BY <1>1, <1>4, <1>5, <2>4, <3>1
    <3> QED
      BY <3>1, <3>2 DEF Completed
  <2> QED
    BY <2>1, <2>2, <2>3, <2>4
<1>8. ASSUME NEW k \in 1 .. Len(t), k # Len(t)
      PROVE  t[k] \in {Line("length"), Line("header"), Line("blank")}
  <2>1. k \in 1 .. Len(h) \/ k = Len(h) + 1
    BY <1>4, <1>6, <1>8
  <2> QED
    BY <1>4, <1>5, <2>1
<1>9. t[Len(t)] = Body(m) /\ Len(t) \in Nat \ {0}
  BY <1>4, <1>5
<1>10. ASSUME NEW k \in 1 .. Len(t), t[k].kind = "header" PROVE Beside(t, k)
  <2>1. k \in 1 .. Len(h) /\ t[k] = h[k]
    BY <1>1, <1>4, <1>5, <1>6, <1>10
  <2>2. h[k] = Line("header")
    BY <1>1, <1>10, <2>1
  <2>3. CASE k + 1 = Len(h) /\ h[k + 1] = Line("length")
    <3>1. k + 1 \in 1 .. Len(h) /\ k + 1 <= Len(t) /\ t[k + 1] = Line("length")
      BY <1>4, <2>1, <2>3
    <3> QED
      BY <1>1, <3>1 DEF Beside
  <2>4. CASE k = 2 /\ h[1] = Line("length")
    <3>1. 1 \in 1 .. Len(h) /\ 1 < k /\ k - 1 = 1
      BY <1>4, <2>1, <2>4
    <3>2. t[k - 1].kind = "length"
      BY <1>1, <1>4, <2>4, <3>1
    <3> QED
      BY <3>1, <3>2 DEF Beside
  <2> QED
    BY <2>1, <2>2, <2>3, <2>4
<1>11. \A k \in 1 .. Len(t) : t[k].kind # "word"
  BY <1>1, <1>8, <1>9
<1>12. Tidily(t)
  BY <1>10, <1>11 DEF Tidily
<1>13. Fresh(t)
  <2> SUFFICES ASSUME t[1].kind = "header" PROVE 2 <= Len(t) /\ t[2].kind = "length"
    BY DEF Fresh
  <2>1. 1 \in 1 .. Len(t)
    BY <1>9
  <2>2. Beside(t, 1)
    BY <1>10, <2>1
  <2> QED
    BY <2>2 DEF Beside
<1> QED
  BY <1>4, <1>7, <1>8, <1>9, <1>12, <1>13

LEMMA WrittenTokens ==
  ASSUME NEW m \in Rpc!Message, NEW w \in Written(m)
  PROVE  /\ w[1] \in Framing /\ w[2] \in Seq(Token) /\ Len(w[2]) \in Nat \ {0}
         /\ w[2][Len(w[2])] = IF w[1] = "legacy" THEN Json(m) ELSE Body(m)
         /\ \A k \in 1 .. Len(w[2]) : k # Len(w[2]) =>
              w[2][k] \in {Line("length"), Line("header"), Line("blank")}
         /\ \A k \in 1 .. Len(w[2]) : w[2][k].kind = "length" => Completed(w[2], k, TRUE)
         /\ Tidily(w[2]) /\ Fresh(w[2])
<1>1. Json(m) \in Token /\ Body(m) \in Token /\ Json(m).kind = "json" /\ Body(m).kind = "body"
  BY DEF Json, Body, Token
<1>2. /\ Line("length") \in Token /\ Line("header") \in Token /\ Line("blank") \in Token
      /\ Line("length").kind = "length" /\ Line("header").kind = "header"
      /\ Line("blank").kind = "blank"
  BY LineTokens
<1>3. ASSUME w = <<"legacy", <<Json(m)>> >>
      PROVE  /\ w[1] = "legacy" /\ w[2] \in Seq(Token) /\ Len(w[2]) = 1 /\ w[2][1] = Json(m)
  BY <1>1, <1>3
<1>4. ASSUME NEW h \in {<<Line("length")>>, <<Line("header"), Line("length")>>,
                        <<Line("length"), Line("header")>>},
             w = <<"framed", h \o <<Line("blank"), Body(m)>> >>
      PROVE  /\ w[1] = "framed" /\ w[2] \in Seq(Token) /\ Len(w[2]) \in Nat \ {0}
             /\ w[2][Len(w[2])] = Body(m)
             /\ \A k \in 1 .. Len(w[2]) : k # Len(w[2]) =>
                  w[2][k] \in {Line("length"), Line("header"), Line("blank")}
             /\ \A k \in 1 .. Len(w[2]) : w[2][k].kind = "length" => Completed(w[2], k, TRUE)
             /\ Tidily(w[2]) /\ Fresh(w[2])
  <2>1. /\ h \in Seq(Token) /\ Len(h) \in {1, 2}
        /\ \A k \in 1 .. Len(h) :
             /\ h[k] \in {Line("length"), Line("header")}
             /\ h[k] = Line("length") => \/ k = Len(h)
                                         \/ k + 1 = Len(h) /\ h[k + 1] = Line("header")
             /\ h[k] = Line("header") => \/ k + 1 = Len(h) /\ h[k + 1] = Line("length")
                                         \/ k = 2 /\ h[1] = Line("length")
    <3>1. CASE h = <<Line("length")>>
      BY <1>2, <3>1
    <3>2. CASE h = <<Line("header"), Line("length")>>
      BY <1>2, <3>2
    <3>3. CASE h = <<Line("length"), Line("header")>>
      BY <1>2, <3>3
    <3>4. \/ h = <<Line("length")>> \/ h = <<Line("header"), Line("length")>>
          \/ h = <<Line("length"), Line("header")>>
      BY <1>4
    <3> QED
      BY <3>1, <3>2, <3>3, <3>4
  <2>2. w[1] = "framed" /\ w[2] = h \o <<Line("blank"), Body(m)>>
    BY <1>4
  <2>3. /\ w[2] \in Seq(Token) /\ Len(w[2]) \in Nat \ {0} /\ w[2][Len(w[2])] = Body(m)
        /\ \A k \in 1 .. Len(w[2]) : k # Len(w[2]) =>
             w[2][k] \in {Line("length"), Line("header"), Line("blank")}
        /\ \A k \in 1 .. Len(w[2]) : w[2][k].kind = "length" => Completed(w[2], k, TRUE)
        /\ Tidily(w[2]) /\ Fresh(w[2])
    BY <2>1, <2>2, Block, SMTT(30), ZenonT(30)
  <2> QED
    BY <2>2, <2>3
<1>5. \/ w = <<"legacy", <<Json(m)>> >>
      \/ \E h \in {<<Line("length")>>, <<Line("header"), Line("length")>>,
                   <<Line("length"), Line("header")>>} :
           w = <<"framed", h \o <<Line("blank"), Body(m)>> >>
  BY DEF Written, Body, Json
<1>6. CASE w = <<"legacy", <<Json(m)>> >>
  <2>0. /\ w[1] = "legacy" /\ w[2] \in Seq(Token) /\ Len(w[2]) = 1 /\ w[2][1] = Json(m)
    BY <1>3, <1>6
  <2>1. \A k \in 1 .. Len(w[2]) : k = Len(w[2]) /\ w[2][k].kind # "length"
    BY <1>1, <2>0
  <2>2. w[1] \in Framing /\ Len(w[2]) \in Nat \ {0} /\ w[2][Len(w[2])] = Json(m)
    BY <2>0 DEF Framing
  <2>3. Tidily(w[2]) /\ Fresh(w[2])
    <3>1. 1 \in 1 .. Len(w[2]) /\ \A k \in 1 .. Len(w[2]) : w[2][k].kind = "json"
      BY <1>1, <2>0
    <3> QED
      BY <3>1 DEF Tidily, Fresh
  <2> QED
    BY <2>0, <2>1, <2>2, <2>3
<1>7. CASE \E h \in {<<Line("length")>>, <<Line("header"), Line("length")>>,
                     <<Line("length"), Line("header")>>} :
             w = <<"framed", h \o <<Line("blank"), Body(m)>> >>
  <2>1. w[1] \in Framing /\ w[1] # "legacy"
    BY <1>4, <1>7 DEF Framing
  <2> QED
    BY <1>4, <1>7, <2>1
<1> QED
  BY <1>5, <1>6, <1>7

(* The client, writing or closing its end, adds tokens to the input: a     *)
(* message is the last of them, and carries the two newest ids.            *)
Adds(w) ==
  /\ input' = input \o w
  /\ sentAs' \in Seq(Framing) /\ Len(sentAs') <= MaxMessages
  /\ Len(sentAs') \in {Len(sentAs), Len(sentAs) + 1}
  /\ \A i \in 1 .. Len(sentAs) : sentAs'[i] = sentAs[i]
  /\ \A k \in 1 .. Len(w) :
       /\ Rising(w[k].msg.reqs) /\ Proper(w[k].msg) /\ TokenSentIn(w[k], sentAs')
       /\ \A a \in MsgIds(w[k]) : Newest < a /\ a <= Newest' /\ k = Len(w)
       /\ w[k].kind = "length" => Completed(w, k, open')
  /\ MessagePlaces(w) \subseteq {Len(w)}
  /\ Len(sentAs') = Len(sentAs) => MessagePlaces(w) = {}
  /\ tidy => Tidily(w) /\ Fresh(w)

LEMMA SendAdds ==
  ASSUME TypeInv, SendMessage
  PROVE  \E w \in Seq(Token) : Adds(w)
<1> DEFINE n == Len(sentAs) + 1
<1>1. PICK m \in MessageNumber(n) : \E x \in Written(m) :
        input' = input \o x[2] /\ sentAs' = Append(sentAs, x[1])
  BY DEF SendMessage
<1>2. PICK x \in Written(m) : input' = input \o x[2] /\ sentAs' = Append(sentAs, x[1])
  BY <1>1
<1>3. /\ sentAs \in Seq(Framing) /\ Len(sentAs) \in Nat /\ n \in 1 .. MaxMessages
      /\ open' = open /\ open = TRUE
  BY ServerAssumption, LenProperties DEF SendMessage, TypeInv
<1> HIDE DEF n
<1>4. /\ m \in Rpc!Message /\ Proper(m) /\ Rising(m.reqs)
      /\ \A a \in ReqIds(m.reqs) : a \in {2 * n - 1, 2 * n}
  BY <1>3, Numbered
<1>5. /\ x[1] \in Framing /\ x[2] \in Seq(Token) /\ Len(x[2]) \in Nat \ {0}
      /\ x[2][Len(x[2])] = IF x[1] = "legacy" THEN Json(m) ELSE Body(m)
      /\ \A k \in 1 .. Len(x[2]) : k # Len(x[2]) =>
           x[2][k] \in {Line("length"), Line("header"), Line("blank")}
      /\ \A k \in 1 .. Len(x[2]) : x[2][k].kind = "length" => Completed(x[2], k, TRUE)
      /\ Tidily(x[2]) /\ Fresh(x[2])
  BY <1>4, WrittenTokens
<1>6. /\ sentAs' \in Seq(Framing) /\ Len(sentAs') = n /\ sentAs'[n] = x[1]
      /\ \A i \in 1 .. Len(sentAs) : sentAs'[i] = sentAs[i]
  BY <1>2, <1>3, <1>5, Extended DEF n
<1>7. \A a \in ReqIds(m.reqs) :
        Newest < a /\ a <= Newest' /\ (a + 1) \div 2 = n
  <2>1. n \in Nat /\ Newest = 2 * n - 2 /\ Newest' = 2 * n
    BY <1>3, <1>6 DEF Newest, n
  <2>2. ((2 * n - 1) + 1) \div 2 = n /\ (2 * n + 1) \div 2 = n
    BY <2>1
  <2> QED
    BY <1>4, <2>1, <2>2
<1> DEFINE w == x[2]
<1>8. ASSUME NEW k \in 1 .. Len(w), k # Len(w)
      PROVE  /\ Rising(w[k].msg.reqs) /\ Proper(w[k].msg) /\ TokenSentIn(w[k], sentAs')
             /\ MsgIds(w[k]) = {} /\ w[k].kind \notin {"json", "body"}
  <2>1. PICK l \in {"length", "header", "blank"} : w[k] = Line(l)
    BY <1>5, <1>8
  <2> QED
    BY <2>1, LineTokens DEF TokenSentIn
<1>9. /\ Rising(w[Len(w)].msg.reqs) /\ Proper(w[Len(w)].msg)
      /\ TokenSentIn(w[Len(w)], sentAs') /\ w[Len(w)].kind # "length"
      /\ \A a \in MsgIds(w[Len(w)]) : Newest < a /\ a <= Newest'
  <2>1. /\ Json(m).msg = m /\ Json(m).kind = "json" /\ Body(m).msg = m /\ Body(m).kind = "body"
    BY DEF Json, Body
  <2>2. w[Len(w)].msg = m
    BY <1>5, <2>1
  <2>3. MsgIds(w[Len(w)]) = ReqIds(m.reqs)
    BY <2>2 DEF MsgIds
  <2>4. \/ x[1] = "legacy" /\ w[Len(w)].kind = "json"
        \/ x[1] = "framed" /\ w[Len(w)].kind = "body"
    BY <1>5, <2>1 DEF Framing
  <2>5. TokenSentIn(w[Len(w)], sentAs')
    BY <1>6, <1>7, <2>3, <2>4 DEF TokenSentIn, SentIn
  <2> QED
    BY <1>4, <1>7, <2>2, <2>3, <2>4, <2>5
<1>10. MessagePlaces(w) \subseteq {Len(w)}
  BY <1>8 DEF MessagePlaces
<1>11. ASSUME NEW k \in 1 .. Len(w)
       PROVE  /\ Rising(w[k].msg.reqs) /\ Proper(w[k].msg) /\ TokenSentIn(w[k], sentAs')
              /\ \A a \in MsgIds(w[k]) : Newest < a /\ a <= Newest' /\ k = Len(w)
              /\ w[k].kind = "length" => Completed(w, k, open')
  <2>1. CASE k = Len(w)
    BY <1>9, <2>1
  <2>2. CASE k # Len(w)
    <3>1. w[k].kind = "length" => Completed(w, k, open')
      BY <1>3, <1>5
    <3> QED
      BY <1>8, <2>2, <3>1
  <2> QED
    BY <2>1, <2>2
<1>12. w \in Seq(Token) /\ input' = input \o w
  BY <1>2, <1>5
<1>13. Len(sentAs') = Len(sentAs) + 1 /\ Len(sentAs') <= MaxMessages
  BY <1>3, <1>6, ServerAssumption DEF n
<1>16. Tidily(w) /\ Fresh(w)
  BY <1>5
<1> HIDE DEF w
<1>14. /\ Len(sentAs') \in {Len(sentAs), Len(sentAs) + 1}
       /\ Len(sentAs') = Len(sentAs) => MessagePlaces(w) = {}
  BY <1>3, <1>13
<1>15. Adds(w)
  BY ONLY <1>6, <1>10, <1>11, <1>12, <1>13, <1>14, <1>16 DEF Adds
<1> QED
  BY <1>12, <1>15

LEMMA StrayAdds ==
  ASSUME TypeInv, WriteStray
  PROVE  \E w \in Seq(Token) : Adds(w)
<1>1. PICK l \in {"blank", "word", "header"} :
        input' = Append(input, Line(l)) /\ (tidy => l = "blank")
  BY DEF WriteStray
<1>2. /\ Line(l) \in Token /\ Line(l).kind = l /\ MsgIds(Line(l)) = {}
      /\ Rising(Line(l).msg.reqs) /\ Proper(Line(l).msg)
  BY LineTokens
<1> DEFINE w == <<Line(l)>>
<1>3. w \in Seq(Token) /\ Len(w) = 1 /\ w[1] = Line(l) /\ \A k \in 1 .. Len(w) : k = 1
  BY <1>2
<1>4. input' = input \o w
  BY <1>1, <1>2, AppendIsConcat DEF TypeInv
<1>5. /\ sentAs' = sentAs /\ sentAs \in Seq(Framing) /\ Len(sentAs) <= MaxMessages
  BY DEF WriteStray, TypeInv
<1> HIDE DEF w
<1>6. MessagePlaces(w) = {}
  BY <1>2, <1>3 DEF MessagePlaces
<1>7. \A k \in 1 .. Len(w) : TokenSentIn(w[k], sentAs')
  BY <1>2, <1>3 DEF TokenSentIn
<1>9. tidy => Tidily(w) /\ Fresh(w)
  BY <1>1, <1>2, <1>3 DEF Tidily, Fresh
<1>8. Adds(w)
  BY <1>2, <1>3, <1>4, <1>5, <1>6, <1>7, <1>9 DEF Adds
<1> QED
  BY <1>3, <1>8

LEMMA CloseAdds ==
  ASSUME TypeInv, CloseInput
  PROVE  \E w \in Seq(Token) : Adds(w)
<1>1. PICK w \in {<<>>, <<Line("length")>>, <<Line("length"), Line("blank")>>} :
        input' = input \o w
  BY DEF CloseInput
<1>2. /\ sentAs' = sentAs /\ sentAs \in Seq(Framing) /\ Len(sentAs) <= MaxMessages
      /\ open' = FALSE
  BY DEF CloseInput, TypeInv
<1>3. \A l \in {"length", "blank"} :
         /\ Line(l) \in Token /\ Line(l).kind = l /\ MsgIds(Line(l)) = {}
         /\ Rising(Line(l).msg.reqs) /\ Proper(Line(l).msg)
  BY LineTokens
<1>4. /\ w \in Seq(Token) /\ Len(w) \in 0 .. 2
      /\ \A k \in 1 .. Len(w) : \E l \in {"length", "blank"} : w[k] = Line(l)
      /\ \A k \in 1 .. Len(w) :
           w[k] # Line("blank") => k = Len(w) \/ (k + 1 = Len(w) /\ w[k + 1] = Line("blank"))
  <2>1. CASE w = <<>>
    BY <2>1
  <2>2. CASE w = <<Line("length")>>
    BY <1>3, <2>2
  <2>3. CASE w = <<Line("length"), Line("blank")>>
    BY <1>3, <2>3
  <2>4. w = <<>> \/ w = <<Line("length")>> \/ w = <<Line("length"), Line("blank")>>
    OBVIOUS
  <2> QED
    BY <2>1, <2>2, <2>3, <2>4
<1>5. ASSUME NEW k \in 1 .. Len(w)
      PROVE  /\ Rising(w[k].msg.reqs) /\ Proper(w[k].msg) /\ TokenSentIn(w[k], sentAs')
             /\ MsgIds(w[k]) = {} /\ w[k].kind \notin {"json", "body"}
             /\ w[k].kind = "length" => Completed(w, k, open')
  <2>1. PICK l \in {"length", "blank"} : w[k] = Line(l)
    BY <1>4
  <2>2. w[k].kind = "length" => Completed(w, k, open')
    BY <1>2, <1>3, <1>4, <2>1 DEF Completed
  <2> QED
    BY <1>3, <2>1, <2>2 DEF TokenSentIn
<1>6. MessagePlaces(w) = {}
  BY <1>5 DEF MessagePlaces
<1>7. Tidily(w) /\ Fresh(w)
  <2>1. \A k \in 1 .. Len(w) : w[k].kind \in {"length", "blank"}
    BY <1>3, <1>4
  <2>2. w # <<>> => 1 \in 1 .. Len(w)
    BY <1>4, EmptySeq
  <2> QED
    BY <2>1, <2>2 DEF Tidily, Fresh
<1>8. Adds(w)
  BY <1>1, <1>2, <1>5, <1>6, <1>7 DEF Adds
<1> QED
  BY <1>4, <1>8

(* All ids are numbers.                                                    *)
LEMMA IdTypes ==
  ASSUME TypeInv
  PROVE  /\ ReqIds(todo) \in SUBSET Nat /\ ReqIds(done) \in SUBSET Nat
         /\ ReqIds(current.reqs) \in SUBSET Nat /\ ExecutedIds \in SUBSET Nat
         /\ \A i \in 1 .. Len(output) : ReqIds(output[i].answer) \in SUBSET Nat
<1>1. \A r \in Rpc!Request : r.id \in Nat
  BY ServerAssumption DEF Rpc!Request, Rpc!Id
<1>2. \A r \in Rpc!Response : r.id \in Nat
  BY ServerAssumption DEF Rpc!Response, Rpc!Id
<1>3. ASSUME NEW s \in Seq(Rpc!Request) PROVE ReqIds(s) \in SUBSET Nat
  <2>1. \A i \in 1 .. Len(s) : s[i] \in Rpc!Request
    BY ElementOfSeq
  <2> QED
    BY <1>1, <2>1 DEF ReqIds
<1>4. ASSUME NEW s \in Seq(Rpc!Response) PROVE ReqIds(s) \in SUBSET Nat
  <2>1. \A i \in 1 .. Len(s) : s[i] \in Rpc!Response
    BY ElementOfSeq
  <2> QED
    BY <1>2, <2>1 DEF ReqIds
<1>5. todo \in Seq(Rpc!Request) /\ done \in Seq(Rpc!Response) /\ current.reqs \in Seq(Rpc!Request)
  BY DEF TypeInv, Rpc!Message
<1>6. ExecutedIds \in SUBSET Nat
  <2>1. \A i \in 1 .. Len(executed) : executed[i] \in Rpc!Id
    BY ElementOfSeq DEF TypeInv
  <2> QED
    BY <2>1, ServerAssumption DEF ExecutedIds, Rpc!Id
<1>7. ASSUME NEW i \in 1 .. Len(output) PROVE ReqIds(output[i].answer) \in SUBSET Nat
  <2>1. output[i] \in [framing : Framing, answer : Seq(Rpc!Response)]
    BY ElementOfSeq DEF TypeInv
  <2> QED
    BY <1>4, <2>1
<1> QED
  BY <1>3, <1>4, <1>5, <1>6, <1>7

(***************************************************************************)
(* Every step keeps the invariant                                          *)
(***************************************************************************)

(* What the client writes leaves everything before it in place.            *)
ClientSteps == SendMessage \/ WriteStray \/ CloseInput

LEMMA ClientKeeps ==
  ASSUME IInv, ClientSteps
  PROVE  IInv'
<1>1. PICK w \in Seq(Token) : Adds(w)
  BY SendAdds, StrayAdds, CloseAdds DEF IInv, ClientSteps
<1>2. /\ open = TRUE /\ tidy' = tidy /\ strays' \in 0 .. MaxStray /\ open' \in BOOLEAN
      /\ UNCHANGED <<framing, gotLength, pc, current, todo, done, executed, output, served>>
  <2>1. open /\ tidy' = tidy
    BY DEF ClientSteps, SendMessage, WriteStray, CloseInput
  <2>2. UNCHANGED <<framing, gotLength, pc, current, todo, done, executed, output, served>>
    BY DEF ClientSteps, SendMessage, WriteStray, CloseInput, reader, handler
  <2>3. strays' \in 0 .. MaxStray
    <3>1. strays \in 0 .. MaxStray /\ MaxStray \in Nat
      BY ServerAssumption DEF IInv, TypeInv
    <3>2. strays' = strays \/ (strays < MaxStray /\ strays' = strays + 1)
      BY DEF ClientSteps, SendMessage, WriteStray, CloseInput
    <3> QED
      BY <3>1, <3>2
  <2>4. open' = open \/ open' = FALSE
    BY DEF ClientSteps, SendMessage, WriteStray, CloseInput
  <2>5. open = TRUE /\ open' \in BOOLEAN
    BY <2>1, <2>4 DEF IInv, TypeInv
  <2> QED
    BY <2>1, <2>2, <2>3, <2>5
<1>3. /\ input \in Seq(Token) /\ sentAs \in Seq(Framing) /\ Len(sentAs) \in Nat
      /\ Newest \in Nat /\ Newest' \in Nat /\ Newest <= Newest'
      /\ Len(sentAs) <= Len(sentAs')
  <2>1. /\ input \in Seq(Token) /\ sentAs \in Seq(Framing) /\ Len(sentAs) \in Nat
        /\ Len(sentAs') \in {Len(sentAs), Len(sentAs) + 1}
    BY <1>1, LenProperties DEF IInv, TypeInv, Adds
  <2> QED
    BY <2>1 DEF Newest
<1>4. TypeInv'
  <2>1. input' \in Seq(Token)
    BY <1>1, <1>3, Joined DEF Adds
  <2> QED
    BY <1>1, <1>2, <2>1 DEF IInv, TypeInv, Adds
<1>5. InOrder'
  <2>1. /\ Sorted(input, Newest) => Sorted(input \o w, Newest')
        /\ \A S \in SUBSET Nat : Earlier(S, input, Newest) => Earlier(S, input \o w, Newest')
    <3>1. \A k \in 1 .. Len(w) :
            /\ Rising(w[k].msg.reqs)
            /\ \A a \in MsgIds(w[k]) : Newest < a /\ a <= Newest' /\ k = Len(w)
      BY <1>1 DEF Adds
    <3> QED
      BY <1>3, <3>1, SortedJoined
  <2>2. ReqIds(todo) \in SUBSET Nat /\ ExecutedIds \in SUBSET Nat
    BY IdTypes DEF IInv
  <2>3. /\ ReqIds(todo)' = ReqIds(todo) /\ ExecutedIds' = ExecutedIds
        /\ Rising(todo)' = Rising(todo) /\ CallsRunOnceInOrder' = CallsRunOnceInOrder
    BY <1>2 DEF ReqIds, ExecutedIds, Rising, CallsRunOnceInOrder
  <2>4. Earlier(ReqIds(todo), input', Newest') /\ Earlier(ExecutedIds, input', Newest')
    BY <1>1, <2>1, <2>2 DEF IInv, InOrder, Adds
  <2>5. Sorted(input', Newest')
    BY <1>1, <2>1 DEF IInv, InOrder, Adds
  <2> QED
    BY <1>2, <2>3, <2>4, <2>5 DEF IInv, InOrder
<1>6. Framed'
  <2>1. /\ input' = input \o w /\ Len(input) \in Nat
        /\ \A i \in 1 .. Len(input) : input'[i] = input[i]
        /\ \A k \in 1 .. Len(w) : input'[Len(input) + k] = w[k]
        /\ \A i \in 1 .. Len(input') :
             i \in 1 .. Len(input) \/ (i - Len(input) \in 1 .. Len(w)
                                       /\ i = Len(input) + (i - Len(input)))
    BY <1>1, <1>3, Joined DEF Adds
  <2>2. /\ \A i \in 0 .. Len(input) : Completed(input, i, TRUE) => Completed(input', i, open')
        /\ \A k \in 1 .. Len(w) :
             Completed(w, k, open') => Completed(input', Len(input) + k, open')
    BY <1>2, <1>3, <2>1, CompletedJoined
  <2>0. \A i : Completed(input, i, open) => Completed(input, i, TRUE)
    BY <1>2 DEF Completed
  <2>3. ASSUME NEW i \in 1 .. Len(input'), input'[i].kind = "length"
        PROVE  Completed(input', i, open')
    <3>1. CASE i \in 1 .. Len(input)
      <4>1. Completed(input, i, TRUE) /\ i \in 0 .. Len(input)
        <5>1. input[i].kind = "length"
          BY <2>1, <2>3, <3>1
        <5>2. Completed(input, i, open)
          BY <3>1, <5>1, Zenon DEF IInv, Framed
        <5>3. i \in 0 .. Len(input)
          BY <2>1, <3>1
        <5> QED
          BY <2>0, <5>2, <5>3
      <4> QED
        BY <2>2, <4>1
    <3>2. CASE i - Len(input) \in 1 .. Len(w) /\ i = Len(input) + (i - Len(input))
      <4>1. w[i - Len(input)].kind = "length"
        BY <2>1, <2>3, <3>2
      <4>2. Completed(w, i - Len(input), open')
        BY <1>1, <3>2, <4>1 DEF Adds
      <4> QED
        BY <2>2, <3>2, <4>2
    <3> QED
      BY <2>1, <3>1, <3>2
  <2>4. ASSUME pc = "headers", gotLength PROVE Completed(input', 0, open')
    <3>1. Completed(input, 0, TRUE) /\ 0 \in 0 .. Len(input)
      <4>1. Completed(input, 0, open)
        BY <2>4, Zenon DEF IInv, Framed
      <4>2. 0 \in 0 .. Len(input)
        BY <2>1
      <4> QED
        BY <2>0, <4>1, <4>2
    <3> QED
      BY <2>2, <3>1
  <2>5. ASSUME pc = "body" PROVE input' # <<>> /\ input'[1].kind = "body"
    <3>1. input # <<>> /\ input[1].kind = "body"
      BY <1>2, <2>5 DEF IInv, Framed
    <3>2. 1 \in 1 .. Len(input)
      BY <1>3, <3>1, TakenFrom
    <3>3. input'[1] = input[1] /\ Len(input') # 0
      BY <1>1, <1>3, <2>1, <3>2, Joined
    <3> QED
      BY <3>1, <3>3
  <2> QED
    BY <1>2, <2>3, <2>4, <2>5 DEF Framed
<1>7. /\ \A a : a \in Nat /\ a # 0 /\ a <= Newest =>
           a <= Newest' /\ \A f : SentIn(a, f, sentAs) => SentIn(a, f, sentAs')
  <2> SUFFICES ASSUME NEW a \in Nat, a # 0, a <= Newest
               PROVE  a <= Newest' /\ \A f : SentIn(a, f, sentAs) => SentIn(a, f, sentAs')
    OBVIOUS
  <2>1. a <= Newest'
    BY <1>3
  <2>2. (a + 1) \div 2 \in 1 .. Len(sentAs)
    BY <1>3 DEF Newest
  <2> QED
    BY <1>1, <2>1, <2>2 DEF SentIn, Adds
<1>8. Faithful'
  <2>1. ASSUME NEW i \in 1 .. Len(input')
        PROVE  Proper(input'[i].msg) /\ TokenSentIn(input'[i], sentAs')
    <3>1. /\ \A j \in 1 .. Len(input) : input'[j] = input[j]
          /\ \A k \in 1 .. Len(w) : input'[Len(input) + k] = w[k]
          /\ \/ i \in 1 .. Len(input)
             \/ (i - Len(input) \in 1 .. Len(w) /\ i = Len(input) + (i - Len(input)))
      BY <1>1, <1>3, Joined DEF Adds
    <3>2. CASE i \in 1 .. Len(input)
      <4>1. input'[i] = input[i] /\ Proper(input[i].msg) /\ TokenSentIn(input[i], sentAs)
        BY <3>1, <3>2 DEF IInv, Faithful
      <4>2. \A a \in MsgIds(input[i]) : a \in Nat /\ a # 0 /\ a <= Newest
        <5>1. MsgIds(input[i]) \in SUBSET Nat
          BY <1>3, <3>2, ElementOfSeq, TokenTypes
        <5>2. \A a \in MsgIds(input[i]) : a <= Newest
          BY <3>2 DEF IInv, InOrder, Sorted
        <5>3. 0 \notin MsgIds(input[i])
          BY DEF MsgIds, ReqIds
        <5> QED
          BY <5>1, <5>2, <5>3
      <4> QED
        BY <1>7, <4>1, <4>2 DEF TokenSentIn
    <3>3. CASE i - Len(input) \in 1 .. Len(w) /\ i = Len(input) + (i - Len(input))
      <4>1. input'[i] = w[i - Len(input)]
        BY <3>1, <3>3
      <4> QED
        BY <1>1, <3>3, <4>1 DEF Adds
    <3> QED
      BY <3>1, <3>2, <3>3
  <2>2. ASSUME NEW i \in 1 .. Len(output) PROVE Answer(output[i], sentAs')
    <3>1. Answer(output[i], sentAs)
      BY DEF IInv, Faithful
    <3>2. ReqIds(output[i].answer) \in SUBSET Nat /\ 0 \notin ReqIds(output[i].answer)
      BY IdTypes DEF IInv, ReqIds
    <3> QED
      BY <1>7, <3>1, <3>2 DEF Answer, Newest
  <2> QED
    BY <1>2, <2>1, <2>2 DEF Faithful
<1>9. Handling'
  <2>1. ReqIds(current.reqs) \in SUBSET Nat /\ 0 \notin ReqIds(current.reqs)
    BY IdTypes DEF IInv, ReqIds
  <2>2. \A a \in ReqIds(current.reqs) : a <= Newest' /\ SentIn(a, framing, sentAs')
    BY <1>7, <2>1 DEF IInv, Handling
  <2>3. /\ ExecutedIds' = ExecutedIds /\ Answered' = Answered /\ Busy' = Busy
        /\ ReqIds(todo)' = ReqIds(todo) /\ ReqIds(done)' = ReqIds(done)
        /\ ReqIds(current.reqs)' = ReqIds(current.reqs) /\ Proper(current)' = Proper(current)
    BY <1>2 DEF ExecutedIds, Answered, Busy, ReqIds, Proper
  <2> QED
    BY <1>2, <2>2, <2>3 DEF IInv, Handling
<1>10. Counted'
  <2>1. Busy' = Busy
    BY <1>2 DEF Busy
  <2>2. /\ Cardinality(MessagePlaces(input)) \in Nat
        /\ Cardinality(MessagePlaces(input')) \in Nat
        /\ served \in Nat
    BY <1>3, <1>4, PlacesFinite DEF IInv, TypeInv
  <2>3. CASE Len(sentAs') = Len(sentAs)
    <3>1. Cardinality(MessagePlaces(input')) = Cardinality(MessagePlaces(input))
      BY <1>1, <1>3, <2>3, PlacesJoined DEF Adds
    <3> QED
      BY <1>2, <2>1, <2>3, <3>1 DEF IInv, Counted
  <2>4. CASE Len(sentAs') = Len(sentAs) + 1
    <3>1. Cardinality(MessagePlaces(input')) <= Cardinality(MessagePlaces(input)) + 1
      BY <1>1, <1>3, PlacesJoined DEF Adds
    <3>2. Cardinality(MessagePlaces(input)) + (IF Busy THEN 1 ELSE 0) + served <= Len(sentAs)
      BY DEF IInv, Counted
    <3>3. Cardinality(MessagePlaces(input')) + (IF Busy THEN 1 ELSE 0) + served <= Len(sentAs')
      BY <1>3, <2>2, <2>4, <3>1, <3>2
    <3> QED
      BY <1>2, <2>1, <3>3 DEF Counted
  <2> QED
    BY <1>1, <2>3, <2>4 DEF Adds
<1> QED
  BY <1>4, <1>5, <1>6, <1>8, <1>9, <1>10 DEF IInv

(* An answer written joins the others.                                     *)
LEMMA Answering ==
  ASSUME TypeInv, NEW f \in Framing, NEW a \in Seq(Rpc!Response), UNCHANGED sentAs,
         output' = Append(output, [framing |-> f, answer |-> a])
  PROVE  /\ output' \in Seq([framing : Framing, answer : Seq(Rpc!Response)])
         /\ Answered \subseteq Answered' /\ ReqIds(a) \subseteq Answered'
         /\ /\ \A i \in 1 .. Len(output) : Answer(output[i], sentAs)
            /\ \A x \in ReqIds(a) : x <= Newest /\ SentIn(x, f, sentAs)
            => \A i \in 1 .. Len(output') : Answer(output'[i], sentAs')
<1> DEFINE o == [framing |-> f, answer |-> a]
           S == [framing : Framing, answer : Seq(Rpc!Response)]
<1>1. output \in Seq(S) /\ o \in S /\ o.framing = f /\ o.answer = a
  BY DEF TypeInv
<1> HIDE DEF S
<1>2. /\ output' \in Seq(S) /\ Len(output) \in Nat
      /\ output'[Len(output) + 1] = o /\ Len(output) + 1 \in 1 .. Len(output')
      /\ \A i \in 1 .. Len(output) : output'[i] = output[i] /\ i \in 1 .. Len(output')
      /\ \A i \in 1 .. Len(output') : i \in 1 .. Len(output) \/ i = Len(output) + 1
  <2>1. output' = Append(output, o)
    OBVIOUS
  <2> QED
    BY <1>1, <2>1, Extended
<1> HIDE DEF o
<1>3. DOMAIN output = 1 .. Len(output) /\ DOMAIN output' = 1 .. Len(output')
  BY <1>1, <1>2, LenProperties
<1>4. Answered \subseteq Answered'
  <2> SUFFICES ASSUME NEW x \in Answered PROVE x \in Answered'
    OBVIOUS
  <2>1. PICK i \in 1 .. Len(output) : x \in IdsOf(output[i].answer)
    BY <1>3 DEF Answered
  <2>2. i \in 1 .. Len(output') /\ x \in IdsOf(output'[i].answer)
    BY <1>2, <2>1
  <2> QED
    BY <1>3, <2>2 DEF Answered
<1>5. ReqIds(a) \subseteq Answered'
  <2>1. ReqIds(a) \subseteq IdsOf(a)
    <3>1. DOMAIN a = 1 .. Len(a)
      BY LenProperties
    <3> QED
      BY <3>1 DEF ReqIds, IdsOf
  <2>2. IdsOf(a) = IdsOf(output'[Len(output) + 1].answer)
    BY <1>1, <1>2
  <2> QED
    BY <1>2, <1>3, <2>1, <2>2 DEF Answered
<1>6. ASSUME \A i \in 1 .. Len(output) : Answer(output[i], sentAs),
             \A x \in ReqIds(a) : x <= Newest /\ SentIn(x, f, sentAs)
      PROVE  \A i \in 1 .. Len(output') : Answer(output'[i], sentAs')
  <2>1. Answer(o, sentAs)
    BY <1>1, <1>6 DEF Answer, Newest
  <2>2. \A i \in 1 .. Len(output') : Answer(output'[i], sentAs)
    BY <1>2, <1>6, <2>1
  <2> QED
    BY <2>2
<1> QED
  BY <1>2, <1>4, <1>5, <1>6 DEF S

(* Reading one token.                                                      *)
LEMMA Reading ==
  ASSUME IInv, input # <<>>, input' = Tail(input), UNCHANGED <<open, sentAs>>
  PROVE  /\ input' \in Seq(Token) /\ Head(input) \in Token
         /\ Newest' = Newest /\ Sorted(input', Newest)
         /\ \A S : Earlier(S, input, Newest) => Earlier(S, input', Newest)
         /\ Rising(Head(input).msg.reqs) /\ Earlier(MsgIds(Head(input)), input', Newest)
         /\ \A e \in ExecutedIds, a \in MsgIds(Head(input)) : e < a
         /\ \A i \in 1 .. Len(input') :
              input'[i].kind = "length" => Completed(input', i, open')
         /\ Head(input).kind = "length" => Completed(input', 0, open')
         /\ Proper(Head(input).msg) /\ TokenSentIn(Head(input), sentAs)
         /\ \A i \in 1 .. Len(input') :
              Proper(input'[i].msg) /\ TokenSentIn(input'[i], sentAs')
         /\ Cardinality(MessagePlaces(input')) \in Nat
         /\ Cardinality(MessagePlaces(input)) \in Nat
         /\ Cardinality(MessagePlaces(input'))
              = Cardinality(MessagePlaces(input))
                - IF Head(input).kind \in {"json", "body"} THEN 1 ELSE 0
<1>1. input \in Seq(Token) /\ sentAs \in Seq(Framing) /\ open \in BOOLEAN
  BY DEF IInv, TypeInv
<1>2. /\ Len(input) \in Nat \ {0} /\ Head(input) = input[1] /\ 1 \in 1 .. Len(input)
      /\ input' \in Seq(Token) /\ Head(input) \in Token /\ Len(input') = Len(input) - 1
      /\ \A i \in 1 .. Len(input') : input'[i] = input[i + 1] /\ i + 1 \in 1 .. Len(input)
  BY <1>1, TakenFrom
<1>3. Newest \in Nat /\ Newest' = Newest
  BY <1>1, LenProperties DEF Newest
<1>4. Sorted(input, Newest) /\ Earlier(ExecutedIds, input, Newest)
  BY DEF IInv, InOrder
<1>5. /\ Sorted(input', Newest) /\ Rising(Head(input).msg.reqs)
      /\ Earlier(MsgIds(Head(input)), input', Newest)
      /\ \A S : Earlier(S, input, Newest) => Earlier(S, input', Newest)
      /\ \A e \in ExecutedIds, a \in MsgIds(Head(input)) : e < a
  BY <1>1, <1>3, <1>4, SortedTail
<1>6. \A i \in 1 .. Len(input) : input[i].kind = "length" => Completed(input, i, open)
  BY Zenon DEF IInv, Framed
<1>7. /\ \A i \in 1 .. Len(input') : Completed(input, i + 1, open) => Completed(input', i, open)
      /\ Completed(input, 1, open) => Completed(input', 0, open)
  BY <1>1, CompletedTail
<1>8. ASSUME NEW i \in 1 .. Len(input'), input'[i].kind = "length"
      PROVE  Completed(input', i, open')
  <2>1. i + 1 \in 1 .. Len(input) /\ input[i + 1].kind = "length"
    BY <1>2, <1>8
  <2>2. Completed(input, i + 1, open)
    BY <1>6, <2>1
  <2>3. Completed(input', i, open)
    BY <1>7, <2>2
  <2> QED
    BY <2>3
<1>9. ASSUME Head(input).kind = "length" PROVE Completed(input', 0, open')
  <2>1. Completed(input, 1, open)
    BY <1>2, <1>6, <1>9
  <2>2. Completed(input', 0, open)
    BY <1>7, <2>1
  <2> QED
    BY <2>2
<1>10. \A i \in 1 .. Len(input) : Proper(input[i].msg) /\ TokenSentIn(input[i], sentAs)
  BY DEF IInv, Faithful
<1>11. ASSUME NEW i \in 1 .. Len(input')
       PROVE  Proper(input'[i].msg) /\ TokenSentIn(input'[i], sentAs')
  <2>1. Proper(input'[i].msg) /\ TokenSentIn(input'[i], sentAs)
    BY <1>2, <1>10
  <2> QED
    BY <2>1
<1>12. Proper(Head(input).msg) /\ TokenSentIn(Head(input), sentAs)
  BY <1>2, <1>10
<1>13. /\ Cardinality(MessagePlaces(input')) \in Nat
       /\ Cardinality(MessagePlaces(input)) \in Nat
  BY <1>1, <1>2, PlacesFinite
<1>14. Cardinality(MessagePlaces(input'))
         = Cardinality(MessagePlaces(input))
           - IF Head(input).kind \in {"json", "body"} THEN 1 ELSE 0
  BY <1>1, PlacesTail
<1> QED
  BY <1>2, <1>3, <1>5, <1>8, <1>9, <1>11, <1>12, <1>13, <1>14

(* A token read that begins no message leaves at most an error behind.     *)
LEMMA QuietRead ==
  ASSUME IInv, input # <<>>, input' = Tail(input),
         UNCHANGED <<tidy, open, sentAs, strays>>,
         UNCHANGED <<current, todo, done, executed, served>>,
         pc \in {"read", "headers", "body"}, pc' \in {"read", "headers", "body"},
         framing' \in Framing, gotLength' \in BOOLEAN,
         \/ output' = output
         \/ \E f \in Framing :
              output' = Append(output, [framing |-> f, answer |-> <<Rpc!NullError>>]),
         pc' = "headers" /\ gotLength' => Completed(input', 0, open'),
         pc' = "body" => IF input' = <<>> THEN ~ open' ELSE input'[1].kind = "body"
  PROVE  IInv'
<1>1. /\ input' \in Seq(Token) /\ Newest' = Newest /\ Sorted(input', Newest)
      /\ \A S : Earlier(S, input, Newest) => Earlier(S, input', Newest)
      /\ \A i \in 1 .. Len(input') : input'[i].kind = "length" => Completed(input', i, open')
      /\ \A i \in 1 .. Len(input') : Proper(input'[i].msg) /\ TokenSentIn(input'[i], sentAs')
      /\ Cardinality(MessagePlaces(input')) \in Nat
      /\ Cardinality(MessagePlaces(input)) \in Nat
      /\ Cardinality(MessagePlaces(input'))
           = Cardinality(MessagePlaces(input))
             - IF Head(input).kind \in {"json", "body"} THEN 1 ELSE 0
  BY Reading
<1>2. ~ Busy /\ ~ Busy'
  BY DEF Busy
<1>3. /\ output' \in Seq([framing : Framing, answer : Seq(Rpc!Response)])
      /\ Answered \subseteq Answered'
      /\ \A i \in 1 .. Len(output') : Answer(output'[i], sentAs')
  <2>1. \A i \in 1 .. Len(output) : Answer(output[i], sentAs)
    BY DEF IInv, Faithful
  <2>2. CASE output' = output
    BY <2>1, <2>2 DEF IInv, TypeInv, Answered
  <2>3. ASSUME NEW f \in Framing,
               output' = Append(output, [framing |-> f, answer |-> <<Rpc!NullError>>])
        PROVE  /\ output' \in Seq([framing : Framing, answer : Seq(Rpc!Response)])
               /\ Answered \subseteq Answered'
               /\ \A i \in 1 .. Len(output') : Answer(output'[i], sentAs')
    <3>1. <<Rpc!NullError>> \in Seq(Rpc!Response) /\ ReqIds(<<Rpc!NullError>>) = {}
      <4>1. Rpc!NullError \in Rpc!Response /\ Rpc!NullError.id = 0
        BY ServerAssumption DEF Rpc!NullError, Rpc!Response, Rpc!Id
      <4>2. /\ <<Rpc!NullError>> \in Seq(Rpc!Response) /\ Len(<<Rpc!NullError>>) = 1
            /\ <<Rpc!NullError>>[1] = Rpc!NullError
        BY <4>1
      <4> QED
        BY <4>1, <4>2 DEF ReqIds
    <3> DEFINE a == <<Rpc!NullError>>
    <3> HIDE DEF a
    <3>2. a \in Seq(Rpc!Response) /\ ReqIds(a) = {}
      BY <3>1 DEF a
    <3>3. output' = Append(output, [framing |-> f, answer |-> a])
      BY <2>3 DEF a
    <3>4. TypeInv /\ UNCHANGED sentAs
      BY DEF IInv
    <3> QED
      BY <2>1, <3>2, <3>3, <3>4, Answering
  <2> QED
    BY <2>2, <2>3
<1>4. TypeInv'
  BY <1>1, <1>3 DEF IInv, TypeInv
<1>5. /\ ReqIds(todo)' = ReqIds(todo) /\ ReqIds(done)' = ReqIds(done)
      /\ ExecutedIds' = ExecutedIds /\ ReqIds(current.reqs)' = ReqIds(current.reqs)
      /\ Rising(todo)' = Rising(todo) /\ Proper(current)' = Proper(current)
      /\ CallsRunOnceInOrder' = CallsRunOnceInOrder
  BY DEF ReqIds, ExecutedIds, Rising, Proper, CallsRunOnceInOrder
<1>6. InOrder'
  <2>1. Earlier(ReqIds(todo), input', Newest) /\ Earlier(ExecutedIds, input', Newest)
    BY <1>1 DEF IInv, InOrder
  <2>2. \A e \in ExecutedIds, a \in ReqIds(todo) : e < a
    BY DEF IInv, InOrder
  <2> QED
    BY <1>1, <1>5, <2>1, <2>2 DEF IInv, InOrder
<1>7. Framed'
  BY <1>1 DEF Framed
<1>8. Faithful'
  BY <1>1, <1>3 DEF Faithful
<1>9. Handling'
  <2>1. current = NoMessage /\ todo = <<>> /\ done = <<>>
    BY <1>2 DEF IInv, Handling
  <2>2. ReqIds(done) = {} /\ ReqIds(current.reqs) = {}
    BY <2>1 DEF ReqIds, NoMessage
  <2>3. \A e \in ExecutedIds : e \in Answered
    BY <2>2 DEF IInv, Handling
  <2>4. Proper(current) /\ ReqIds(todo) \cup ReqIds(done) \subseteq ReqIds(current.reqs)
    BY DEF IInv, Handling
  <2> QED
    BY <1>2, <1>3, <1>5, <2>1, <2>2, <2>3, <2>4 DEF Handling
<1>10. Counted'
  <2>1. served \in Nat /\ Len(sentAs) \in Nat
    BY LenProperties DEF IInv, TypeInv
  <2>2. Cardinality(MessagePlaces(input)) + 0 + served <= Len(sentAs)
    BY <1>2 DEF IInv, Counted
  <2>3. Cardinality(MessagePlaces(input')) <= Cardinality(MessagePlaces(input))
    BY <1>1
  <2>4. Cardinality(MessagePlaces(input')) + 0 + served <= Len(sentAs)
    BY <1>1, <2>1, <2>2, <2>3
  <2> QED
    BY <1>2, <2>4 DEF Counted
<1> QED
  BY <1>4, <1>6, <1>7, <1>8, <1>9, <1>10 DEF IInv

(* A message read is the one being handled from then on.                   *)
LEMMA Receiving ==
  ASSUME IInv, input # <<>>, input' = Tail(input), Receive(Head(input).msg),
         UNCHANGED <<tidy, open, sentAs, strays>>,
         UNCHANGED <<gotLength, output, served>>,
         pc \in {"read", "body"},
         \/ Head(input).kind = "json" /\ framing' = "legacy"
         \/ Head(input).kind = "body" /\ framing' = "framed"
  PROVE  IInv'
<1> DEFINE t == Head(input)
<1>1. /\ input' \in Seq(Token) /\ Newest' = Newest /\ Sorted(input', Newest)
      /\ \A S : Earlier(S, input, Newest) => Earlier(S, input', Newest)
      /\ Rising(t.msg.reqs) /\ Earlier(MsgIds(t), input', Newest)
      /\ \A e \in ExecutedIds, a \in MsgIds(t) : e < a
      /\ \A i \in 1 .. Len(input') : input'[i].kind = "length" => Completed(input', i, open')
      /\ t \in Token /\ Proper(t.msg) /\ TokenSentIn(t, sentAs)
      /\ \A i \in 1 .. Len(input') : Proper(input'[i].msg) /\ TokenSentIn(input'[i], sentAs')
      /\ Cardinality(MessagePlaces(input')) \in Nat
      /\ Cardinality(MessagePlaces(input)) \in Nat
      /\ Cardinality(MessagePlaces(input'))
           = Cardinality(MessagePlaces(input)) - IF t.kind \in {"json", "body"} THEN 1 ELSE 0
  BY Reading
<1>2. /\ pc' = "handle" /\ current' = t.msg /\ todo' = t.msg.reqs /\ done' = <<>>
      /\ executed' = executed
  BY DEF Receive
<1> HIDE DEF t
<1>3. ~ Busy /\ Busy'
  BY <1>2 DEF Busy
<1>4. t.msg \in Rpc!Message /\ t.msg.reqs \in Seq(Rpc!Request)
  BY <1>1, TokenTypes
<1>5. TypeInv'
  <2>1. <<>> \in Seq(Rpc!Response) /\ framing' \in Framing
    BY DEF Framing
  <2> QED
    BY <1>1, <1>2, <1>4, <2>1 DEF IInv, TypeInv
<1>6. /\ ReqIds(todo)' = MsgIds(t) /\ ReqIds(done)' = {} /\ ReqIds(current.reqs)' = MsgIds(t)
      /\ ExecutedIds' = ExecutedIds /\ CallsRunOnceInOrder' = CallsRunOnceInOrder
      /\ Answered' = Answered
  BY <1>2 DEF ReqIds, MsgIds, ExecutedIds, CallsRunOnceInOrder, Answered
<1>7. InOrder'
  <2>1. Earlier(ExecutedIds, input', Newest) /\ CallsRunOnceInOrder
    BY <1>1 DEF IInv, InOrder
  <2>2. Rising(todo)'
    BY <1>1, <1>2
  <2> QED
    BY <1>1, <1>6, <2>1, <2>2 DEF InOrder
<1>8. Framed'
  BY <1>1, <1>2 DEF Framed
<1>9. Faithful'
  <2>1. \A i \in 1 .. Len(output) : Answer(output[i], sentAs)
    BY DEF IInv, Faithful
  <2> QED
    BY <1>1, <2>1 DEF Faithful
<1>10. Handling'
  <2>1. \A a \in MsgIds(t) : a <= Newest /\ SentIn(a, framing', sentAs)
    BY <1>1 DEF Earlier, TokenSentIn, t
  <2>2. \A e \in ExecutedIds : e \in Answered
    <3>1. done = <<>> /\ pc # "crashed"
      BY <1>3 DEF IInv, Handling, Busy
    <3>2. ReqIds(done) = {}
      BY <3>1 DEF ReqIds
    <3> QED
      BY <3>1, <3>2 DEF IInv, Handling
  <2>3. Proper(current')
    BY <1>1, <1>2
  <2>4. \A a \in MsgIds(t) : a <= Newest' /\ SentIn(a, framing', sentAs')
    BY <1>1, <2>1
  <2> QED
    BY <1>3, <1>6, <2>2, <2>3, <2>4 DEF Handling
<1>11. Counted'
  <2>1. served \in Nat /\ Len(sentAs) \in Nat
    BY LenProperties DEF IInv, TypeInv
  <2>2. Cardinality(MessagePlaces(input)) + 0 + served <= Len(sentAs)
    BY <1>3 DEF IInv, Counted
  <2>3. Cardinality(MessagePlaces(input')) = Cardinality(MessagePlaces(input)) - 1
    BY <1>1 DEF t
  <2>4. Cardinality(MessagePlaces(input')) + 1 + served <= Len(sentAs)
    BY <1>1, <2>1, <2>2, <2>3
  <2> QED
    BY <1>3, <2>4 DEF Counted
<1> QED
  BY <1>5, <1>7, <1>8, <1>9, <1>10, <1>11 DEF IInv

(* A request handled: a call is executed, what has an id is answered.      *)
LEMMA HandleKeeps ==
  ASSUME IInv, HandleRequest
  PROVE  IInv'
<1> DEFINE r == Head(todo)
<1>1. /\ pc = "handle" /\ todo # <<>> /\ todo' = Tail(todo)
      /\ executed' = IF r.class = "call" THEN Append(executed, r.id) ELSE executed
  BY DEF HandleRequest
<1>2. PICK k \in Rpc!ResponseKinds(r.class) :
        done' = IF r.id = 0 THEN done ELSE Append(done, [id |-> r.id, kind |-> k])
  BY DEF HandleRequest
<1>3. /\ UNCHANGED <<tidy, open, sentAs, strays>> /\ UNCHANGED <<input, framing, gotLength, pc>>
      /\ UNCHANGED <<current, output, served>>
  BY DEF HandleRequest, client, reader
<1>4. /\ todo \in Seq(Rpc!Request) /\ executed \in Seq(Rpc!Id) /\ done \in Seq(Rpc!Response)
      /\ r \in Rpc!Request /\ todo' \in Seq(Rpc!Request)
  BY <1>1, TakenFrom DEF IInv, TypeInv
<1> HIDE DEF r
<1>5. r.id \in Rpc!Id /\ r.id \in Nat /\ k \in {"result", "error"}
  BY <1>2, <1>4, ServerAssumption DEF Rpc!Request, Rpc!Id, Rpc!ResponseKinds
<1>6. /\ ReqIds(todo') \subseteq ReqIds(todo)
      /\ r.id # 0 => r.id \in ReqIds(todo)
      /\ Rising(todo) => /\ Rising(todo')
                         /\ r.id # 0 => \A a \in ReqIds(todo') : r.id < a
  BY <1>1, <1>4, IdsTail DEF r
<1>7. done' \in Seq(Rpc!Response) /\ ReqIds(done') = ReqIds(done) \cup ({r.id} \ {0})
  <2>1. CASE r.id = 0
    BY <1>2, <1>4, <2>1
  <2>2. CASE r.id # 0
    <3>1. [id |-> r.id, kind |-> k] \in Rpc!Response
      BY <1>5 DEF Rpc!Response
    <3> DEFINE x == [id |-> r.id, kind |-> k]
    <3>2. done' = Append(done, x) /\ x.id = r.id
      BY <1>2, <2>2
    <3> HIDE DEF x
    <3> QED
      BY <1>4, <3>1, <3>2, IdsAppend, Extended DEF x
  <2> QED
    BY <2>1, <2>2
<1>8. /\ Rising(todo) /\ Earlier(ReqIds(todo), input, Newest)
      /\ CallsRunOnceInOrder /\ Earlier(ExecutedIds, input, Newest)
      /\ \A e \in ExecutedIds, a \in ReqIds(todo) : e < a
  BY <1>1 DEF IInv, InOrder
<1>9. /\ executed' \in Seq(Rpc!Id) /\ CallsRunOnceInOrder'
      /\ ExecutedIds' \subseteq ExecutedIds \cup ({r.id} \ {0})
  <2>1. CASE r.class = "call"
    <3>1. executed' = Append(executed, r.id) /\ r.id \in Rpc!Id
      BY <1>1, <1>5, <2>1
    <3>2. r.id # 0 => \A e \in ExecutedIds : e < r.id
      BY <1>6, <1>8
    <3> QED
      BY <1>4, <1>8, <3>1, <3>2, ExecutedAppend
  <2>2. CASE r.class # "call"
    <3>1. executed' = executed
      BY <1>1, <2>2
    <3> QED
      BY <1>4, <1>8, <3>1 DEF CallsRunOnceInOrder, ExecutedIds
  <2> QED
    BY <2>1, <2>2
<1>10. TypeInv'
  BY <1>3, <1>4, <1>7, <1>9 DEF IInv, TypeInv
<1>11. Newest' = Newest /\ Busy /\ Busy' /\ Answered' = Answered
  BY <1>1, <1>3 DEF Newest, Busy, Answered
<1>12. InOrder'
  <2>1. Sorted(input, Newest)
    BY DEF IInv, InOrder
  <2>2. Earlier(ReqIds(todo'), input, Newest)
    BY <1>6, <1>8 DEF Earlier
  <2>3. Earlier(ExecutedIds', input, Newest)
    BY <1>6, <1>8, <1>9 DEF Earlier
  <2>4. \A e \in ExecutedIds', a \in ReqIds(todo') : e < a
    BY <1>6, <1>8, <1>9
  <2>5. input' = input /\ ReqIds(todo)' = ReqIds(todo') /\ Rising(todo)' = Rising(todo')
    BY <1>3 DEF ReqIds, Rising
  <2> QED
    BY <1>6, <1>8, <1>9, <1>11, <2>1, <2>2, <2>3, <2>4, <2>5 DEF InOrder
<1>13. Framed'
  <2>1. \A i \in 1 .. Len(input) : input[i].kind = "length" => Completed(input, i, open)
    BY Zenon DEF IInv, Framed
  <2>2. pc' = "handle" /\ input' = input /\ open' = open
    BY <1>1, <1>3
  <2> QED
    BY <2>1, <2>2 DEF Framed
<1>14. Faithful'
  BY <1>3 DEF IInv, Faithful
<1>15. Handling'
  <2>1. /\ Proper(current)
        /\ ReqIds(todo) \cup ReqIds(done) \subseteq ReqIds(current.reqs)
        /\ \A a \in ReqIds(current.reqs) : a <= Newest /\ SentIn(a, framing, sentAs)
        /\ \A e \in ExecutedIds : e \in Answered \/ e \in ReqIds(done)
    BY <1>1 DEF IInv, Handling
  <2>2. ReqIds(todo') \cup ReqIds(done') \subseteq ReqIds(current.reqs)
    BY <1>6, <1>7, <2>1
  <2>3. \A e \in ExecutedIds' : e \in Answered \/ e \in ReqIds(done')
    BY <1>7, <1>9, <2>1
  <2>4. /\ Proper(current)' = Proper(current)
        /\ ReqIds(current.reqs)' = ReqIds(current.reqs)
        /\ ReqIds(todo)' = ReqIds(todo') /\ ReqIds(done)' = ReqIds(done')
    BY <1>3 DEF Proper, ReqIds
  <2> QED
    BY <1>3, <1>11, <2>1, <2>2, <2>3, <2>4 DEF Handling
<1>16. Counted'
  BY <1>3, <1>11 DEF IInv, Counted
<1> QED
  BY <1>10, <1>12, <1>13, <1>14, <1>15, <1>16 DEF IInv

(* A crash in a call: its id is of the message being handled.              *)
LEMMA CrashKeeps ==
  ASSUME IInv, Crash
  PROVE  IInv'
<1> DEFINE r == Head(todo)
<1>1. /\ pc = "handle" /\ pc' = "crashed" /\ todo # <<>> /\ r.class = "call"
      /\ executed' = Append(executed, r.id)
      /\ UNCHANGED <<tidy, open, sentAs, strays>> /\ UNCHANGED <<input, framing, gotLength>>
      /\ UNCHANGED <<current, todo, done, output, served>>
  BY DEF Crash, client, reader
<1>2. /\ todo \in Seq(Rpc!Request) /\ executed \in Seq(Rpc!Id) /\ r \in Rpc!Request
  BY <1>1, TakenFrom DEF IInv, TypeInv
<1>3. r.id # 0 => r.id \in ReqIds(todo)
  BY <1>1, <1>2, IdsTail
<1> HIDE DEF r
<1>4. r.id \in Rpc!Id /\ r.id \in Nat
  BY <1>2, ServerAssumption DEF Rpc!Request, Rpc!Id
<1>5. /\ Rising(todo) /\ Earlier(ReqIds(todo), input, Newest) /\ Sorted(input, Newest)
      /\ CallsRunOnceInOrder /\ Earlier(ExecutedIds, input, Newest)
      /\ \A e \in ExecutedIds, a \in ReqIds(todo) : e < a
  BY <1>1 DEF IInv, InOrder
<1>6. /\ executed' \in Seq(Rpc!Id) /\ CallsRunOnceInOrder'
      /\ ExecutedIds' = ExecutedIds \cup ({r.id} \ {0})
  BY <1>1, <1>2, <1>3, <1>4, <1>5, ExecutedAppend
<1>7. TypeInv'
  BY <1>1, <1>6 DEF IInv, TypeInv
<1>8. /\ Newest' = Newest /\ Busy /\ Busy' /\ Answered' = Answered
      /\ Proper(current)' = Proper(current) /\ ReqIds(current.reqs)' = ReqIds(current.reqs)
      /\ ReqIds(todo)' = ReqIds(todo) /\ ReqIds(done)' = ReqIds(done)
      /\ Rising(todo)' = Rising(todo)
  BY <1>1 DEF Newest, Busy, Answered, Proper, ReqIds, Rising
<1>9. InOrder'
  <2>1. Earlier(ExecutedIds', input, Newest)
    BY <1>3, <1>5, <1>6 DEF Earlier
  <2> QED
    BY <1>1, <1>5, <1>6, <1>8, <2>1 DEF InOrder
<1>10. Framed'
  <2>1. \A i \in 1 .. Len(input) : input[i].kind = "length" => Completed(input, i, open)
    BY Zenon DEF IInv, Framed
  <2>2. pc' = "crashed" /\ input' = input /\ open' = open
    BY <1>1
  <2> QED
    BY <2>1, <2>2 DEF Framed
<1>11. Faithful'
  BY <1>1 DEF IInv, Faithful
<1>12. Handling'
  <2>1. /\ Proper(current)
        /\ ReqIds(todo) \cup ReqIds(done) \subseteq ReqIds(current.reqs)
        /\ \A a \in ReqIds(current.reqs) : a <= Newest /\ SentIn(a, framing, sentAs)
        /\ \A e \in ExecutedIds : e \in Answered \/ e \in ReqIds(done)
    BY <1>1 DEF IInv, Handling
  <2>2. \A e \in ExecutedIds' :
          e \in Answered \/ e \in ReqIds(done) \/ e \in ReqIds(current.reqs)
    BY <1>3, <1>6, <2>1
  <2> QED
    BY <1>1, <1>8, <2>1, <2>2 DEF Handling
<1>13. Counted'
  BY <1>1, <1>8 DEF IInv, Counted
<1> QED
  BY <1>7, <1>9, <1>10, <1>11, <1>12, <1>13 DEF IInv

(* The answer: what was executed for this message is answered now.         *)
LEMMA ReplyKeeps ==
  ASSUME IInv, Reply
  PROVE  IInv'
<1> DEFINE a == IF current.kind \in {"invalid", "garbage"} THEN <<Rpc!NullError>> ELSE done
<1>1. /\ pc = "handle" /\ pc' = "read" /\ todo = <<>> /\ served' = served + 1
      /\ output' = IF a = <<>> THEN output
                   ELSE Append(output, [framing |-> framing, answer |-> a])
      /\ current' = NoMessage /\ done' = <<>>
      /\ UNCHANGED <<tidy, open, sentAs, strays>> /\ UNCHANGED <<input, framing, gotLength>>
      /\ UNCHANGED <<todo, executed>>
  BY DEF Reply, client, reader
<1>2. /\ Proper(current) /\ ReqIds(done) \subseteq ReqIds(current.reqs)
      /\ \A x \in ReqIds(current.reqs) : x <= Newest /\ SentIn(x, framing, sentAs)
      /\ \A e \in ExecutedIds : e \in Answered \/ e \in ReqIds(done)
  BY <1>1 DEF IInv, Handling
<1>3. a \in Seq(Rpc!Response) /\ ReqIds(a) = ReqIds(done)
  <2>1. CASE current.kind \in {"invalid", "garbage"}
    <3>1. ReqIds(done) = {}
      <4>1. current.reqs = <<>>
        BY <1>2, <2>1 DEF Proper
      <4>2. ReqIds(<<>>) = {}
        BY DEF ReqIds
      <4> QED
        BY <1>2, <4>1, <4>2
    <3>2. Rpc!NullError \in Rpc!Response /\ Rpc!NullError.id = 0
      BY ServerAssumption DEF Rpc!NullError, Rpc!Response, Rpc!Id
    <3>3. /\ <<Rpc!NullError>> \in Seq(Rpc!Response) /\ Len(<<Rpc!NullError>>) = 1
          /\ <<Rpc!NullError>>[1] = Rpc!NullError
      BY <3>2
    <3>4. ReqIds(<<Rpc!NullError>>) = {}
      BY <3>2, <3>3 DEF ReqIds
    <3> QED
      BY <2>1, <3>1, <3>3, <3>4
  <2>2. CASE current.kind \notin {"invalid", "garbage"}
    BY <2>2 DEF IInv, TypeInv
  <2> QED
    BY <2>1, <2>2
<1> HIDE DEF a
<1>4. /\ output' \in Seq([framing : Framing, answer : Seq(Rpc!Response)])
      /\ Answered \subseteq Answered' /\ ReqIds(done) \subseteq Answered'
      /\ \A i \in 1 .. Len(output') : Answer(output'[i], sentAs')
  <2>1. \A i \in 1 .. Len(output) : Answer(output[i], sentAs)
    BY DEF IInv, Faithful
  <2>2. CASE a = <<>>
    <3>1. output' = output /\ sentAs' = sentAs
      BY <1>1, <2>2
    <3>2. ReqIds(done) = {}
      <4>1. ReqIds(<<>>) = {}
        BY DEF ReqIds
      <4> QED
        BY <1>3, <2>2, <4>1
    <3> QED
      BY <2>1, <3>1, <3>2 DEF IInv, TypeInv, Answered
  <2>3. CASE a # <<>>
    <3>1. output' = Append(output, [framing |-> framing, answer |-> a]) /\ UNCHANGED sentAs
      BY <1>1, <2>3
    <3>2. \A x \in ReqIds(a) : x <= Newest /\ SentIn(x, framing, sentAs)
      BY <1>2, <1>3
    <3>3. framing \in Framing /\ TypeInv
      BY DEF IInv, TypeInv
    <3> QED
      BY <1>3, <2>1, <3>1, <3>2, <3>3, Answering
  <2> QED
    BY <2>2, <2>3
<1>5. TypeInv'
  <2>1. /\ <<>> \in Seq(Rpc!Response) /\ NoMessage \in Rpc!Message
    BY LineTokens
  <2> QED
    BY <1>1, <1>4, <2>1 DEF IInv, TypeInv
<1>6. /\ Newest' = Newest /\ Busy /\ ~ Busy' /\ ExecutedIds' = ExecutedIds
      /\ CallsRunOnceInOrder' = CallsRunOnceInOrder
      /\ ReqIds(todo)' = ReqIds(todo) /\ Rising(todo)' = Rising(todo)
  BY <1>1 DEF Newest, Busy, ExecutedIds, CallsRunOnceInOrder, ReqIds, Rising
<1>7. InOrder'
  <2>1. \A e \in ExecutedIds, x \in ReqIds(todo) : e < x
    BY <1>1 DEF IInv, InOrder
  <2> QED
    BY <1>1, <1>6, <2>1 DEF IInv, InOrder
<1>8. Framed'
  <2>1. \A i \in 1 .. Len(input) : input[i].kind = "length" => Completed(input, i, open)
    BY Zenon DEF IInv, Framed
  <2>2. pc' = "read" /\ input' = input /\ open' = open
    BY <1>1
  <2> QED
    BY <2>1, <2>2 DEF Framed
<1>9. Faithful'
  BY <1>1, <1>4 DEF IInv, Faithful
<1>10. Handling'
  <2>1. /\ ReqIds(NoMessage.reqs) = {} /\ ReqIds(<<>>) = {} /\ Proper(NoMessage)
    BY DEF ReqIds, NoMessage, Proper
  <2>2. /\ ReqIds(todo)' = {} /\ ReqIds(done)' = {} /\ ReqIds(current.reqs)' = {}
        /\ Proper(current)' /\ current' = NoMessage /\ todo' = <<>> /\ done' = <<>>
    BY <1>1, <2>1 DEF ReqIds, Proper
  <2>3. \A e \in ExecutedIds' : e \in Answered'
    BY <1>2, <1>4, <1>6
  <2> QED
    BY <1>6, <2>2, <2>3 DEF Handling
<1>11. Counted'
  <2>1. /\ served \in Nat /\ Len(sentAs) \in Nat /\ input \in Seq(Token)
    BY LenProperties DEF IInv, TypeInv
  <2>2. Cardinality(MessagePlaces(input)) \in Nat
    BY <2>1, PlacesFinite
  <2>3. Cardinality(MessagePlaces(input)) + 1 + served <= Len(sentAs)
    BY <1>6 DEF IInv, Counted
  <2>4. Cardinality(MessagePlaces(input)) + 0 + (served + 1) <= Len(sentAs)
    BY <2>1, <2>2, <2>3
  <2> QED
    BY <1>1, <1>6, <2>4 DEF Counted
<1> QED
  BY <1>5, <1>7, <1>8, <1>9, <1>10, <1>11 DEF IInv

(***************************************************************************)
(* The specification                                                       *)
(***************************************************************************)

LEMMA Initial ==
  ASSUME Init
  PROVE  IInv
<1>1. /\ tidy \in BOOLEAN /\ input = <<>> /\ open = TRUE /\ sentAs = <<>> /\ strays = 0
      /\ framing = "framed" /\ pc = "read" /\ gotLength = FALSE
      /\ current = NoMessage /\ todo = <<>> /\ done = <<>>
      /\ output = <<>> /\ executed = <<>> /\ served = 0
  BY DEF Init
<1>2. TypeInv
  <2>1. /\ <<>> \in Seq(Framing) /\ Len(<<>>) = 0 /\ <<>> \in Seq(Token)
        /\ <<>> \in Seq(Rpc!Request) /\ <<>> \in Seq(Rpc!Response) /\ <<>> \in Seq(Rpc!Id)
        /\ <<>> \in Seq([framing : Framing, answer : Seq(Rpc!Response)])
    OBVIOUS
  <2>2. 0 \in 0 .. MaxStray /\ 0 <= MaxMessages
    BY ServerAssumption
  <2>3. NoMessage \in Rpc!Message
    BY LineTokens
  <2> QED
    BY <1>1, <2>1, <2>2, <2>3 DEF TypeInv, Framing
<1>3. /\ ReqIds(todo) = {} /\ ReqIds(done) = {} /\ ReqIds(current.reqs) = {}
      /\ ExecutedIds = {} /\ Proper(current)
  BY <1>1 DEF ReqIds, ExecutedIds, NoMessage, Proper
<1>4. InOrder
  BY <1>1, <1>3 DEF InOrder, Sorted, Rising, Earlier, CallsRunOnceInOrder
<1>5. Framed
  BY <1>1 DEF Framed
<1>6. Faithful
  BY <1>1 DEF Faithful
<1>7. Handling
  BY <1>1, <1>3 DEF Handling, Busy
<1>8. Counted
  <2>1. MessagePlaces(input) = {}
    BY <1>1 DEF MessagePlaces
  <2>2. Cardinality(MessagePlaces(input)) = 0
    BY <2>1, FS_EmptySet
  <2> QED
    BY <1>1, <2>2 DEF Counted, Busy
<1> QED
  BY <1>2, <1>4, <1>5, <1>6, <1>7, <1>8 DEF IInv

(* The reading actions, through the lemmas on a quiet read and a message.  *)
LEMMA ReadKeeps ==
  ASSUME IInv,
         \/ SkipBlank \/ ReadLegacy \/ ReadWord \/ BeginHeaders
         \/ ReadHeader \/ BadHeader \/ EndHeaders \/ ReadBody
  PROVE  IInv'
<1>1. framing \in Framing /\ gotLength \in BOOLEAN /\ input \in Seq(Token) /\ open \in BOOLEAN
  BY DEF IInv, TypeInv
<1>2. CASE SkipBlank
  BY <1>1, <1>2, QuietRead DEF SkipBlank, client, reader, handler
<1>3. CASE ReadLegacy
  BY <1>3, Receiving DEF ReadLegacy, client
<1>4. CASE ReadWord
  <2>1. "legacy" \in Framing
    BY DEF Framing
  <2> QED
    BY <1>1, <1>4, <2>1, QuietRead DEF ReadWord, ParseError, client, handler
<1>5. CASE BeginHeaders
  <2>1. Head(input).kind = "length" => Completed(input', 0, open')
    BY <1>5, Reading DEF BeginHeaders, client
  <2> QED
    BY <1>1, <1>5, <2>1, QuietRead DEF BeginHeaders, client, handler
<1>6. CASE ReadHeader
  <2>1. /\ pc = "headers" /\ input # <<>> /\ HasColon(Head(input)) /\ input' = Tail(input)
        /\ gotLength' = (gotLength \/ Head(input).kind = "length")
        /\ UNCHANGED <<tidy, open, sentAs, strays>>
        /\ UNCHANGED <<current, todo, done, executed, served>> /\ UNCHANGED <<framing, pc, output>>
    BY <1>6 DEF ReadHeader, client, handler
  <2>2. Head(input).kind = "length" => Completed(input', 0, open')
    BY <2>1, Reading
  <2>3. ASSUME gotLength PROVE Completed(input', 0, open')
    <3>1. Completed(input, 0, open)
      BY <2>1, <2>3, Zenon DEF IInv, Framed
    <3>2. /\ Len(input) \in Nat \ {0} /\ Head(input) = input[1]
          /\ Len(input') = Len(input) - 1
          /\ \A i \in 1 .. Len(input') : input'[i] = input[i + 1]
      BY <1>1, <2>1, TakenFrom
    <3>3. input[1].kind # "blank"
      BY <2>1, <3>2 DEF HasColon
    <3>4. 3 <= Len(input) /\ input[2].kind = "blank" /\ input[3].kind = "body"
      BY <3>1, <3>2, <3>3 DEF Completed
    <3>5. 1 \in 1 .. Len(input') /\ 2 \in 1 .. Len(input')
      BY <3>2, <3>4
    <3>6. 2 <= Len(input') /\ input'[1].kind = "blank" /\ input'[2].kind = "body"
      BY <3>2, <3>4, <3>5
    <3> QED
      BY <3>6 DEF Completed
  <2>4. gotLength' \in BOOLEAN /\ (gotLength' => Completed(input', 0, open'))
    BY <1>1, <2>1, <2>2, <2>3
  <2> QED
    BY <1>1, <2>1, <2>4, QuietRead
<1>7. CASE BadHeader
  BY <1>1, <1>7, QuietRead DEF BadHeader, ParseError, client, reader, handler
<1>8. CASE EndHeaders
  <2>1. /\ pc = "headers" /\ input # <<>> /\ Head(input).kind = "blank" /\ input' = Tail(input)
        /\ IF gotLength THEN pc' = "body" /\ UNCHANGED output ELSE ParseError(framing)
        /\ UNCHANGED <<tidy, open, sentAs, strays>>
        /\ UNCHANGED <<current, todo, done, executed, served>> /\ UNCHANGED <<framing, gotLength>>
    BY <1>8 DEF EndHeaders, client, reader, handler
  <2>2. CASE gotLength
    <3>1. Completed(input, 0, open)
      BY <2>1, <2>2, Zenon DEF IInv, Framed
    <3>2. /\ Len(input) \in Nat \ {0} /\ Head(input) = input[1] /\ input' \in Seq(Token)
          /\ Len(input') = Len(input) - 1
          /\ \A i \in 1 .. Len(input') : input'[i] = input[i + 1]
      BY <1>1, <2>1, TakenFrom
    <3>3. \/ 2 <= Len(input) /\ input[2].kind = "body"
          \/ ~ open /\ Len(input) = 1
      BY <2>1, <3>1, <3>2 DEF Completed
    <3>4. IF input' = <<>> THEN ~ open ELSE input'[1].kind = "body"
      <4>1. CASE 2 <= Len(input) /\ input[2].kind = "body"
        <5>1. 1 \in 1 .. Len(input')
          BY <3>2, <4>1
        <5>2. input'[1].kind = "body" /\ input' # <<>>
          BY <3>2, <4>1, <5>1
        <5> QED
          BY <5>2
      <4>2. CASE ~ open /\ Len(input) = 1
        <5>1. input' = <<>>
          BY <3>2, <4>2, EmptySeq
        <5> QED
          BY <4>2, <5>1
      <4> QED
        BY <3>3, <4>1, <4>2
    <3>5. pc' = "body" /\ output' = output
      BY <2>1, <2>2
    <3> QED
      BY <1>1, <2>1, <3>4, <3>5, QuietRead
  <2>3. CASE ~ gotLength
    BY <1>1, <2>1, <2>3, QuietRead DEF ParseError
  <2> QED
    BY <2>2, <2>3
<1>9. CASE ReadBody
  <2>1. /\ pc = "body" /\ input # <<>> /\ input' = Tail(input) /\ framing' = "framed"
        /\ Receive(Head(input).msg) /\ UNCHANGED <<tidy, open, sentAs, strays>>
        /\ UNCHANGED <<gotLength, output, served>>
    BY <1>9 DEF ReadBody, client
  <2>2. Head(input).kind = "body"
    <3>1. input[1].kind = "body"
      BY <2>1 DEF IInv, Framed
    <3>2. Head(input) = input[1]
      BY <1>1, <2>1, TakenFrom
    <3> QED
      BY <3>1, <3>2
  <2> QED
    BY <2>1, <2>2, Receiving
<1> QED
  BY <1>2, <1>3, <1>4, <1>5, <1>6, <1>7, <1>8, <1>9

(* A step that only stops the server, or none.                             *)
LEMMA StopKeeps ==
  ASSUME IInv, ReachEnd \/ UNCHANGED vars
  PROVE  IInv'
<1>1. /\ UNCHANGED <<tidy, open, sentAs, strays, input, framing, gotLength>>
      /\ UNCHANGED <<current, todo, done, executed, output, served>>
      /\ pc' = pc \/ (pc' = "stopped" /\ pc \in {"read", "headers", "body"})
  BY DEF ReachEnd, vars, client, reader, handler
<1>2. /\ Newest' = Newest /\ Busy' = Busy /\ Answered' = Answered
      /\ ExecutedIds' = ExecutedIds /\ CallsRunOnceInOrder' = CallsRunOnceInOrder
      /\ ReqIds(todo)' = ReqIds(todo) /\ ReqIds(done)' = ReqIds(done)
      /\ ReqIds(current.reqs)' = ReqIds(current.reqs) /\ Rising(todo)' = Rising(todo)
      /\ Proper(current)' = Proper(current)
  BY <1>1 DEF Newest, Busy, Answered, ExecutedIds, CallsRunOnceInOrder, ReqIds, Rising, Proper
<1>3. TypeInv'
  BY <1>1 DEF IInv, TypeInv
<1>4. InOrder'
  <2>1. pc' # "crashed" => \A e \in ExecutedIds, a \in ReqIds(todo) : e < a
    BY <1>1 DEF IInv, InOrder
  <2> QED
    BY <1>1, <1>2, <2>1 DEF IInv, InOrder
<1>5. Framed'
  <2>1. \A i \in 1 .. Len(input) : input[i].kind = "length" => Completed(input, i, open)
    BY Zenon DEF IInv, Framed
  <2>2. pc = "headers" /\ gotLength => Completed(input, 0, open)
    BY Zenon DEF IInv, Framed
  <2>3. pc = "body" => IF input = <<>> THEN ~ open ELSE input[1].kind = "body"
    BY DEF IInv, Framed
  <2> QED
    BY <1>1, <2>1, <2>2, <2>3 DEF Framed
<1>6. Faithful'
  BY <1>1 DEF IInv, Faithful
<1>7. Handling'
  BY <1>1, <1>2 DEF IInv, Handling
<1>8. Counted'
  BY <1>1, <1>2 DEF IInv, Counted
<1> QED
  BY <1>3, <1>4, <1>5, <1>6, <1>7, <1>8 DEF IInv

LEMMA Inductive ==
  ASSUME IInv, [Next]_vars
  PROVE  IInv'
<1>1. CASE ClientSteps
  BY <1>1, ClientKeeps
<1>2. CASE \/ SkipBlank \/ ReadLegacy \/ ReadWord \/ BeginHeaders
           \/ ReadHeader \/ BadHeader \/ EndHeaders \/ ReadBody
  BY <1>2, ReadKeeps
<1>3. CASE HandleRequest
  BY <1>3, HandleKeeps
<1>4. CASE Reply
  BY <1>4, ReplyKeeps
<1>5. CASE Crash
  BY <1>5, CrashKeeps
<1>6. CASE ReachEnd \/ UNCHANGED vars
  BY <1>6, StopKeeps
<1> QED
  BY <1>1, <1>2, <1>3, <1>4, <1>5, <1>6 DEF Next, ServerStep, ClientSteps

LEMMA Invariant == Spec => []IInv
<1> QED
  BY Initial, Inductive, PTL DEF Spec

(* Every variable keeps its type, and no more messages are dealt with than *)
(* were sent: each token of the input is read once.                        *)
THEOREM TypeCorrect == Spec => []TypeOK
<1>1. IInv => TypeOK
  <2> SUFFICES ASSUME IInv PROVE TypeOK
    OBVIOUS
  <2>1. /\ input \in Seq(Token) /\ sentAs \in Seq(Framing) /\ Len(sentAs) \in Nat
        /\ served \in Nat
    BY LenProperties DEF IInv, TypeInv
  <2>2. Cardinality(MessagePlaces(input)) \in Nat
    BY <2>1, PlacesFinite
  <2>3. Cardinality(MessagePlaces(input)) + (IF Busy THEN 1 ELSE 0) + served <= Len(sentAs)
    BY DEF IInv, Counted
  <2>4. served \in 0 .. Len(sentAs)
    BY <2>1, <2>2, <2>3
  <2> QED
    BY <2>4 DEF IInv, TypeInv, TypeOK
<1> QED
  BY <1>1, Invariant, PTL

(* Tool calls run in the order their messages were sent, none twice,       *)
(* through every mixture of framings, batches, stray lines and a crash     *)
(* (run-mcp-server, handle-request).                                       *)
THEOREM RunInOrder == Spec => []CallsRunOnceInOrder
<1>1. IInv => CallsRunOnceInOrder
  BY DEF IInv, InOrder
<1> QED
  BY <1>1, Invariant, PTL

(* A call that ran and whose answer was not written is of the message      *)
(* being handled: at most one message is ever lost to a crash              *)
(* (run-mcp-server).                                                       *)
THEOREM LossIsOneMessage == Spec => []LostAnswersAreOfOneMessage
<1>1. IInv => LostAnswersAreOfOneMessage
  <2> SUFFICES ASSUME IInv, NEW i \in DOMAIN executed, executed[i] # 0
               PROVE  \/ executed[i] \in Answered
                      \/ Busy /\ executed[i] \in IdsOf(current.reqs)
    BY DEF LostAnswersAreOfOneMessage
  <2>1. /\ DOMAIN executed = 1 .. Len(executed) /\ current.reqs \in Seq(Rpc!Request)
        /\ DOMAIN current.reqs = 1 .. Len(current.reqs)
    BY LenProperties DEF IInv, TypeInv, Rpc!Message
  <2>2. executed[i] \in ExecutedIds
    BY <2>1 DEF ExecutedIds
  <2>3. ReqIds(current.reqs) \subseteq IdsOf(current.reqs)
    BY <2>1 DEF ReqIds, IdsOf
  <2>4. ReqIds(done) \subseteq ReqIds(current.reqs)
    BY DEF IInv, Handling
  <2>5. CASE executed[i] \in ReqIds(done)
    <3>1. done # <<>>
      BY <2>5 DEF ReqIds
    <3>2. Busy
      BY <3>1 DEF IInv, Handling
    <3> QED
      BY <2>3, <2>4, <2>5, <3>2
  <2>6. CASE pc = "crashed" /\ executed[i] \in ReqIds(current.reqs)
    BY <2>3, <2>6 DEF Busy
  <2> QED
    BY <2>2, <2>5, <2>6 DEF IInv, Handling
<1> QED
  BY <1>1, Invariant, PTL

(* Every answer goes out in the framing its message came in, also when a   *)
(* client mixes the two (write-json-message).                              *)
THEOREM AnswersKeepFraming == Spec => []FramingMatches
<1>1. IInv => FramingMatches
  <2> SUFFICES ASSUME IInv, NEW i \in DOMAIN output, NEW id \in IdsOf(output[i].answer) \ {0}
               PROVE  output[i].framing = sentAs[(id + 1) \div 2]
    BY DEF FramingMatches
  <2>1. i \in 1 .. Len(output)
    BY LenProperties DEF IInv, TypeInv
  <2>2. output[i].answer \in Seq(Rpc!Response)
    <3>1. output[i] \in [framing : Framing, answer : Seq(Rpc!Response)]
      BY <2>1, ElementOfSeq DEF IInv, TypeInv
    <3> QED
      BY <3>1
  <2>3. id \in ReqIds(output[i].answer)
    <3>1. DOMAIN output[i].answer = 1 .. Len(output[i].answer)
      BY <2>2, LenProperties
    <3> QED
      BY <3>1 DEF ReqIds, IdsOf
  <2>4. Answer(output[i], sentAs)
    BY <2>1 DEF IInv, Faithful
  <2> QED
    BY <2>3, <2>4 DEF Answer, SentIn
<1> QED
  BY <1>1, Invariant, PTL

(***************************************************************************)
(* Elements in ascending order                                             *)
(***************************************************************************)

(* A nonempty set of naturals has a least element.                         *)
LEMMA LeastNat ==
  ASSUME NEW T \in SUBSET Nat, T # {}
  PROVE  \E m \in T : \A k \in T : m <= k
<1> DEFINE Less == {ss \in Nat \X Nat : ss[1] < ss[2]}
<1>1. IsWellFoundedOn(Less, Nat)
  BY NatLessThanWellFounded DEF OpToRel
<1>2. \A k, m \in Nat : k < m => <<k, m>> \in Less
  OBVIOUS
<1> HIDE DEF Less
<1>3. PICK m \in T : \A k \in T : ~ (<<k, m>> \in Less)
  BY <1>1, WFMin
<1>4. \A k \in T : k \in Nat /\ m \in Nat /\ ~ (k < m)
  BY <1>2, <1>3
<1> QED
  BY <1>3, <1>4

(* at lists the n elements of S in ascending order.                        *)
Order(at, n, S) ==
  /\ n \in Nat /\ at \in [1 .. n -> S]
  /\ \A i, j \in 1 .. n : i < j => at[i] < at[j]
  /\ \A x \in S : \E i \in 1 .. n : at[i] = x

(* There is one such listing, and it is what the operator gives.           *)
LEMMA OrderIsUnique ==
  ASSUME NEW S \in SUBSET Nat, NEW at, NEW n, Order(at, n, S)
  PROVE  IsFiniteSet(S) /\ Cardinality(S) = n /\ InAscendingOrder(S) = at
<1>1. /\ n \in Nat /\ at \in [1 .. n -> S]
      /\ \A i, j \in 1 .. n : i < j => at[i] < at[j]
      /\ \A x \in S : \E i \in 1 .. n : at[i] = x
  BY DEF Order
<1>2. \A i \in 1 .. n : at[i] \in Nat
  BY <1>1
<1>3. \A i, j \in 1 .. n : at[i] <= at[j] <=> i <= j
  <2> SUFFICES ASSUME NEW i \in 1 .. n, NEW j \in 1 .. n PROVE at[i] <= at[j] <=> i <= j
    OBVIOUS
  <2>1. CASE i < j
    BY <1>1, <1>2, <2>1
  <2>2. CASE i = j
    BY <1>2, <2>2
  <2>3. CASE j < i
    BY <1>1, <1>2, <2>3
  <2> QED
    BY <1>1, <2>1, <2>2, <2>3
<1>4. \A i, j \in 1 .. n : at[i] = at[j] => i = j
  BY <1>1, <1>2, <1>3
<1> DEFINE upto(l) == {j \in S : j <= at[l]}
<1>5. ASSUME NEW l \in 1 .. n
      PROVE  IsFiniteSet(upto(l)) /\ Cardinality(upto(l)) = l
  <2> DEFINE U == upto(l)
             f == [i \in 1 .. l |-> at[i]]
  <2>1. 1 .. l \subseteq 1 .. n /\ l \in Nat
    BY <1>1
  <2>2. \A i \in 1 .. l : at[i] \in U
    BY <1>1, <1>3, <2>1
  <2>3. f \in [1 .. l -> U]
    BY <2>2
  <2>4. \A i, j \in 1 .. l : f[i] = f[j] => i = j
    BY <1>4, <2>1
  <2>5. \A x \in U : \E i \in 1 .. l : f[i] = x
    <3> SUFFICES ASSUME NEW x \in U PROVE \E i \in 1 .. l : at[i] = x
      OBVIOUS
    <3>1. PICK i \in 1 .. n : at[i] = x
      BY <1>1
    <3>2. i <= l
      BY <1>3, <3>1
    <3> QED
      BY <1>1, <3>1, <3>2
  <2>6. f \in Bijection(1 .. l, U)
    BY <2>3, <2>4, <2>5 DEF Bijection, Injection, Surjection, IsInjective
  <2>7. IsFiniteSet(1 .. l) /\ Cardinality(1 .. l) = l
    BY <2>1, FS_Interval
  <2> HIDE DEF U, f
  <2>8. IsFiniteSet(U) /\ Cardinality(U) = l
    BY <2>6, <2>7, FS_Bijection DEF ExistsBijection
  <2> QED
    BY <2>8 DEF U
<1>6. IsFiniteSet(S) /\ Cardinality(S) = n
  <2>1. at \in Bijection(1 .. n, S)
    BY <1>1, <1>4 DEF Bijection, Injection, Surjection, IsInjective
  <2>2. IsFiniteSet(1 .. n) /\ Cardinality(1 .. n) = n
    BY <1>1, FS_Interval
  <2> QED
    BY <2>1, <2>2, FS_Bijection DEF ExistsBijection
<1> DEFINE rank == [i \in S |-> Cardinality({j \in S : j <= i})]
           ord == [k \in 1 .. Cardinality(S) |-> CHOOSE i \in S : rank[i] = k]
<1>7. \A l \in 1 .. n : at[l] \in S /\ rank[at[l]] = l
  BY <1>1, <1>5
<1> HIDE DEF rank
<1>8. ASSUME NEW k \in 1 .. n PROVE (CHOOSE i \in S : rank[i] = k) = at[k]
  <2>1. \A i \in S : rank[i] = k => i = at[k]
    BY <1>1, <1>7
  <2>2. at[k] \in S /\ rank[at[k]] = k
    BY <1>7
  <2> QED
    BY <2>1, <2>2
<1>9. ord = at
  <2>1. \A k \in 1 .. n : ord[k] = at[k]
    BY <1>6, <1>8
  <2>2. at = [k \in 1 .. n |-> at[k]]
    BY <1>1
  <2>3. ord = [k \in 1 .. n |-> ord[k]]
    BY <1>6
  <2> QED
    BY <2>1, <2>2, <2>3
<1>10. InAscendingOrder(S) = ord
  BY DEF InAscendingOrder, rank
<1> QED
  BY <1>6, <1>9, <1>10

(* An element above all others comes last.                                 *)
LEMMA OrderExtends ==
  ASSUME NEW S \in SUBSET Nat, NEW at, NEW n, Order(at, n, S),
         NEW x \in Nat, \A y \in S : y < x
  PROVE  Order([i \in 1 .. n + 1 |-> IF i = n + 1 THEN x ELSE at[i]], n + 1, S \cup {x})
<1> DEFINE new == [i \in 1 .. n + 1 |-> IF i = n + 1 THEN x ELSE at[i]]
<1>1. /\ n \in Nat /\ at \in [1 .. n -> S]
      /\ \A i, j \in 1 .. n : i < j => at[i] < at[j]
      /\ \A y \in S : \E i \in 1 .. n : at[i] = y
  BY DEF Order
<1>2. \A i \in 1 .. n + 1 : i = n + 1 \/ (i \in 1 .. n /\ i # n + 1)
  BY <1>1
<1>3. \A i \in 1 .. n : i \in 1 .. n + 1 /\ i # n + 1
  BY <1>1
<1>4. new[n + 1] = x /\ \A i \in 1 .. n : new[i] = at[i]
  BY <1>1, <1>3
<1>5. new \in [1 .. n + 1 -> S \cup {x}]
  BY <1>1, <1>2
<1> HIDE DEF new
<1>6. ASSUME NEW i \in 1 .. n + 1, NEW j \in 1 .. n + 1, i < j PROVE new[i] < new[j]
  <2>1. i \in 1 .. n
    BY <1>1, <1>6
  <2>2. CASE j = n + 1
    BY <1>1, <1>4, <2>1, <2>2
  <2>3. CASE j \in 1 .. n
    BY <1>1, <1>4, <1>6, <2>1, <2>3
  <2> QED
    BY <1>2, <2>2, <2>3
<1>7. \A y \in S \cup {x} : \E i \in 1 .. n + 1 : new[i] = y
  <2>1. n + 1 \in 1 .. n + 1
    BY <1>1
  <2>2. ASSUME NEW y \in S PROVE \E i \in 1 .. n + 1 : new[i] = y
    BY <1>1, <1>3, <1>4
  <2> QED
    BY <1>4, <2>1, <2>2
<1>8. Order(new, n + 1, S \cup {x})
  BY <1>1, <1>5, <1>6, <1>7 DEF Order
<1> QED
  BY <1>8 DEF new

(* Any set of numbers up to a bound can be listed: the least bound of one  *)
(* that cannot would be its largest element.                               *)
LEMMA Orderable ==
  ASSUME NEW m \in Nat, NEW S \in SUBSET (1 .. m)
  PROVE  \E at, n : Order(at, n, S)
<1> DEFINE Bad == {k \in Nat : \E R \in SUBSET (1 .. k) : ~ \E at, n : Order(at, n, R)}
<1> SUFFICES ASSUME Bad # {} PROVE FALSE
  OBVIOUS
<1>1. PICK k \in Bad : \A l \in Bad : k <= l
  BY LeastNat
<1>2. PICK R \in SUBSET (1 .. k) : ~ \E at, n : Order(at, n, R)
  OBVIOUS
<1>3. k # 0
  <2> SUFFICES ASSUME k = 0 PROVE FALSE
    OBVIOUS
  <2>1. R = {}
    OBVIOUS
  <2>2. Order([i \in 1 .. 0 |-> 0], 0, R)
    BY <2>1 DEF Order
  <2> QED
    BY <1>2, <2>2
<1>4. k \in Nat /\ k - 1 \in Nat /\ k - 1 \notin Bad
  BY <1>1, <1>3
<1> DEFINE Q == R \ {k}
<1>5. Q \in SUBSET (1 .. k - 1) /\ Q \in SUBSET Nat /\ \A y \in Q : y < k
  BY <1>4
<1> HIDE DEF Q
<1>6. PICK at, n : Order(at, n, Q)
  BY <1>4, <1>5
<1>7. Q # R
  BY <1>2, <1>6
<1>8. R = Q \cup {k}
  BY <1>7 DEF Q
<1> QED
  BY <1>2, <1>4, <1>5, <1>6, <1>8, OrderExtends
(* The abstract specification lists in the same order.                     *)
LEMMA SameOrder ==
  ASSUME NEW S
  PROVE  Rpc!InAscendingOrder(S) = InAscendingOrder(S)
<1>1. ASSUME NEW T PROVE Rpc!Cardinality(T) = Cardinality(T)
  BY DEF Rpc!Cardinality, Cardinality
<1> DEFINE rank == [i \in S |-> Cardinality({j \in S : j <= i})]
           same == [i \in S |-> Rpc!Cardinality({j \in S : j <= i})]
           n == Cardinality(S)
<1>2. same = rank /\ Rpc!Cardinality(S) = n
  BY <1>1
<1>3. InAscendingOrder(S) = [k \in 1 .. n |-> CHOOSE i \in S : rank[i] = k]
  BY DEF InAscendingOrder
<1>4. Rpc!InAscendingOrder(S)
        = [k \in 1 .. Rpc!Cardinality(S) |-> CHOOSE i \in S : same[i] = k]
  BY DEF Rpc!InAscendingOrder
<1> HIDE DEF rank, same, n
<1> QED
  BY <1>2, <1>3, <1>4


(* Elements that all move up by one, and a new first one.                  *)
LEMMA OrderShifts ==
  ASSUME NEW S \in SUBSET Nat, 0 \notin S, NEW at, NEW n, Order(at, n, S)
  PROVE  /\ Order([i \in 1 .. n |-> at[i] + 1], n, {x + 1 : x \in S})
         /\ Order([i \in 1 .. n + 1 |-> IF i = 1 THEN 1 ELSE at[i - 1] + 1], n + 1,
                  {1} \cup {x + 1 : x \in S})
<1> DEFINE up == {x + 1 : x \in S}
           same == [i \in 1 .. n |-> at[i] + 1]
           more == [i \in 1 .. n + 1 |-> IF i = 1 THEN 1 ELSE at[i - 1] + 1]
<1>1. /\ n \in Nat /\ at \in [1 .. n -> S]
      /\ \A i, j \in 1 .. n : i < j => at[i] < at[j]
      /\ \A x \in S : \E i \in 1 .. n : at[i] = x
  BY DEF Order
<1>2. \A i \in 1 .. n : at[i] \in S /\ at[i] \in Nat /\ 0 < at[i]
  <2>1. \A x \in S : x \in Nat /\ 0 < x
    <3>1. \A x \in S : x \in Nat /\ x # 0
      OBVIOUS
    <3> QED
      BY <3>1
  <2> QED
    BY <1>1, <2>1
<1>3. Order(same, n, up)
  <2>1. same \in [1 .. n -> up]
    BY <1>2
  <2>2. \A i, j \in 1 .. n : i < j => same[i] < same[j]
    BY <1>1, <1>2
  <2>3. \A y \in up : \E i \in 1 .. n : same[i] = y
    BY <1>1
  <2> HIDE DEF same, up
  <2> QED
    BY <1>1, <2>1, <2>2, <2>3 DEF Order
<1>4. Order(more, n + 1, {1} \cup up)
  <2>1. \A i \in 1 .. n + 1 : i = 1 \/ i - 1 \in 1 .. n
    BY <1>1
  <2>2. /\ \A i \in 1 .. n + 1 : i # 1 => more[i] = at[i - 1] + 1
        /\ more[1] = 1 /\ 1 \in 1 .. n + 1
    BY <1>1
  <2>3. more \in [1 .. n + 1 -> {1} \cup up]
    BY <1>2, <2>1
  <2> HIDE DEF more
  <2>4. ASSUME NEW i \in 1 .. n + 1, NEW j \in 1 .. n + 1, i < j PROVE more[i] < more[j]
    <3>1. j # 1 /\ j - 1 \in 1 .. n /\ more[j] = at[j - 1] + 1
      BY <2>1, <2>2, <2>4
    <3>2. CASE i = 1
      BY <1>2, <2>2, <3>1, <3>2
    <3>3. CASE i # 1
      <4>1. i - 1 \in 1 .. n /\ i - 1 < j - 1
        BY <2>1, <2>4, <3>1, <3>3
      <4>2. at[i - 1] < at[j - 1] /\ more[i] = at[i - 1] + 1
        BY <1>1, <2>2, <3>1, <3>3, <4>1
      <4> QED
        BY <1>2, <3>1, <4>1, <4>2
    <3> QED
      BY <3>2, <3>3
  <2>5. \A y \in {1} \cup up : \E i \in 1 .. n + 1 : more[i] = y
    <3>1. ASSUME NEW x \in S PROVE \E i \in 1 .. n + 1 : more[i] = x + 1
      <4>1. PICK i \in 1 .. n : at[i] = x
        BY <1>1
      <4>2. i + 1 \in 1 .. n + 1 /\ i + 1 # 1 /\ (i + 1) - 1 = i
        BY <1>1
      <4>3. more[i + 1] = x + 1
        BY <2>2, <4>1, <4>2
      <4> QED
        BY <4>2, <4>3
    <3> QED
      BY <2>2, <3>1
  <2>6. n + 1 \in Nat
    BY <1>1
  <2> HIDE DEF up
  <2> QED
    BY <2>3, <2>4, <2>5, <2>6 DEF Order
<1> QED
  BY <1>3, <1>4

(***************************************************************************)
(* The messages in an input                                                *)
(***************************************************************************)

LEMMA Listed ==
  ASSUME NEW s \in Seq(Token), NEW at, NEW n, Order(at, n, MessagePlaces(s))
  PROVE  /\ MessagesIn(s) \in Seq(Rpc!Message) /\ n \in Nat /\ Len(MessagesIn(s)) = n
         /\ \A k \in 1 .. n : at[k] \in 1 .. Len(s) /\ MessagesIn(s)[k] = s[at[k]].msg
<1>1. Len(s) \in Nat /\ DOMAIN s = 1 .. Len(s)
  BY LenProperties
<1>2. MessagePlaces(s) = {i \in DOMAIN s : s[i].kind \in {"json", "body"}}
  BY <1>1 DEF MessagePlaces
<1>3. MessagePlaces(s) \in SUBSET Nat /\ MessagePlaces(s) \subseteq 1 .. Len(s)
  BY <1>1 DEF MessagePlaces
<1>4. InAscendingOrder(MessagePlaces(s)) = at
  BY <1>3, OrderIsUnique
<1>5. n \in Nat /\ at \in [1 .. n -> MessagePlaces(s)] /\ DOMAIN at = 1 .. n
  BY DEF Order
<1>6. MessagesIn(s) = [k \in 1 .. n |-> s[at[k]].msg]
  BY <1>2, <1>4, <1>5 DEF MessagesIn
<1>7. \A k \in 1 .. n : at[k] \in 1 .. Len(s) /\ s[at[k]].msg \in Rpc!Message
  <2> SUFFICES ASSUME NEW k \in 1 .. n
               PROVE  at[k] \in 1 .. Len(s) /\ s[at[k]].msg \in Rpc!Message
    OBVIOUS
  <2>1. at[k] \in 1 .. Len(s)
    BY <1>3, <1>5
  <2>2. s[at[k]] \in Token
    BY <2>1, ElementOfSeq
  <2> QED
    BY <2>1, <2>2, TokenTypes
<1>8. MessagesIn(s) \in [1 .. n -> Rpc!Message]
  BY <1>6, <1>7
<1>9. MessagesIn(s) \in Seq(Rpc!Message)
  BY <1>5, <1>8, SeqDef
<1>10. Len(MessagesIn(s)) = n
  <2>1. /\ DOMAIN MessagesIn(s) = 1 .. n
        /\ DOMAIN MessagesIn(s) = 1 .. Len(MessagesIn(s)) /\ Len(MessagesIn(s)) \in Nat
    BY <1>8, <1>9, LenProperties
  <2> QED
    BY <1>5, <2>1
<1> QED
  BY <1>5, <1>6, <1>7, <1>9, <1>10

(* One more element in front.                                              *)
LEMMA InFront ==
  ASSUME NEW S, NEW h \in Seq(S), Len(h) = 1, NEW s \in Seq(S)
  PROVE  /\ h \o s \in Seq(S) /\ Len(h \o s) = Len(s) + 1 /\ (h \o s)[1] = h[1]
         /\ Len(s) \in Nat /\ \A k \in 1 .. Len(s) : (h \o s)[1 + k] = s[k]
<1>1. /\ h \o s \in Seq(S) /\ Len(h \o s) = Len(h) + Len(s)
      /\ Len(h) \in Nat /\ Len(s) \in Nat
      /\ \A i \in 1 .. Len(h) : (h \o s)[i] = h[i] /\ i \in 1 .. Len(h \o s)
      /\ \A k \in 1 .. Len(s) : (h \o s)[Len(h) + k] = s[k]
                               /\ Len(h) + k \in 1 .. Len(h \o s)
  BY Joined
<1> DEFINE t == h \o s
<1> HIDE DEF t
<1>2. 1 \in 1 .. Len(h)
  OBVIOUS
<1> QED
  BY <1>1, <1>2

LEMMA Prefixed ==
  ASSUME NEW S, NEW x \in S, NEW s \in Seq(S)
  PROVE  /\ <<x>> \o s \in Seq(S) /\ Len(<<x>> \o s) = Len(s) + 1 /\ (<<x>> \o s)[1] = x
         /\ \A k \in 1 .. Len(s) : (<<x>> \o s)[1 + k] = s[k]
         /\ <<x>> \o s # <<>> /\ Head(<<x>> \o s) = x /\ Tail(<<x>> \o s) = s
<1> DEFINE h == <<x>>
           t == h \o s
<1>1. h \in Seq(S) /\ Len(h) = 1 /\ h[1] = x /\ 1 \in 1 .. Len(h)
  OBVIOUS
<1> HIDE DEF h, t
<1>2. /\ t \in Seq(S) /\ Len(t) = Len(s) + 1 /\ t[1] = x /\ Len(s) \in Nat
      /\ \A k \in 1 .. Len(s) : t[1 + k] = s[k]
  BY <1>1, InFront DEF t
<1>3. t # <<>>
  BY <1>2
<1>4. /\ Head(t) = t[1] /\ Tail(t) \in Seq(S) /\ Len(Tail(t)) = Len(s)
      /\ \A k \in 1 .. Len(Tail(t)) : Tail(t)[k] = t[k + 1]
  BY <1>2, <1>3, TakenFrom
<1>5. \A k \in 1 .. Len(s) : Tail(t)[k] = s[k]
  BY <1>2, <1>4
<1>6. Tail(t) = s
  BY <1>4, <1>5, SeqEqual
<1> QED
  BY <1>2, <1>3, <1>4, <1>6 DEF t, h

(* A message at the head of the input is the first of its messages.        *)
LEMMA MessagesRead ==
  ASSUME NEW s \in Seq(Token), s # <<>>
  PROVE  /\ MessagesIn(s) \in Seq(Rpc!Message) /\ MessagesIn(Tail(s)) \in Seq(Rpc!Message)
         /\ Head(s).kind \notin {"json", "body"} => MessagesIn(Tail(s)) = MessagesIn(s)
         /\ Head(s).kind \in {"json", "body"} =>
              MessagesIn(s) = <<Head(s).msg>> \o MessagesIn(Tail(s))
<1> DEFINE t == Tail(s)
<1>1. /\ Len(s) \in Nat \ {0} /\ Head(s) = s[1] /\ Head(s) \in Token /\ 1 \in 1 .. Len(s)
      /\ t \in Seq(Token) /\ Len(t) = Len(s) - 1
      /\ \A i \in 1 .. Len(t) : t[i] = s[i + 1] /\ i + 1 \in 1 .. Len(s)
      /\ \A i \in 1 .. Len(s) : i = 1 \/ i - 1 \in 1 .. Len(t)
  BY TakenFrom
<1> HIDE DEF t
<1>2. /\ MessagePlaces(t) \in SUBSET (1 .. Len(t)) /\ Len(t) \in Nat
      /\ MessagePlaces(t) \in SUBSET Nat /\ 0 \notin MessagePlaces(t)
  BY <1>1 DEF MessagePlaces
<1>3. PICK at, n : Order(at, n, MessagePlaces(t))
  BY <1>2, Orderable
<1>4. /\ MessagesIn(t) \in Seq(Rpc!Message) /\ n \in Nat /\ Len(MessagesIn(t)) = n
      /\ \A k \in 1 .. n : at[k] \in 1 .. Len(t) /\ MessagesIn(t)[k] = t[at[k]].msg
  BY <1>1, <1>3, Listed
<1> DEFINE up == {x + 1 : x \in MessagePlaces(t)}
           same == [i \in 1 .. n |-> at[i] + 1]
           more == [i \in 1 .. n + 1 |-> IF i = 1 THEN 1 ELSE at[i - 1] + 1]
<1>5. Order(same, n, up) /\ Order(more, n + 1, {1} \cup up)
  BY <1>2, <1>3, OrderShifts
<1>6. \A i \in 1 .. Len(s) : i # 1 => (i \in MessagePlaces(s) <=> i \in up)
  <2> SUFFICES ASSUME NEW i \in 1 .. Len(s), i # 1
               PROVE  i \in MessagePlaces(s) <=> i \in up
    OBVIOUS
  <2>1. i - 1 \in 1 .. Len(t) /\ (i - 1) + 1 = i /\ t[i - 1] = s[i]
    <3>1. i - 1 \in 1 .. Len(t) /\ (i - 1) + 1 = i
      BY <1>1
    <3> QED
      BY <1>1, <3>1
  <2>2. i \in MessagePlaces(s) <=> i - 1 \in MessagePlaces(t)
    BY <2>1 DEF MessagePlaces
  <2>3. i \in up => i - 1 \in MessagePlaces(t)
    BY <1>2
  <2>4. i - 1 \in MessagePlaces(t) => i \in up
    BY <2>1
  <2> QED
    BY <2>2, <2>3, <2>4
<1>7. up \subseteq 1 .. Len(s) /\ 1 \notin up /\ MessagePlaces(s) \subseteq 1 .. Len(s)
  BY <1>1, <1>2 DEF MessagePlaces
<1>8. 1 \in MessagePlaces(s) <=> Head(s).kind \in {"json", "body"}
  BY <1>1 DEF MessagePlaces
<1> HIDE DEF up
<1>11. /\ \A k \in 1 .. n : same[k] = at[k] + 1
      /\ more[1] = 1 /\ 1 \in 1 .. n + 1
      /\ \A k \in 1 .. n + 1 : k # 1 => more[k] = at[k - 1] + 1
  BY <1>4
<1> HIDE DEF same, more
<1>9. CASE Head(s).kind \notin {"json", "body"}
  <2>1. MessagePlaces(s) = up
    <3>1. ASSUME NEW i \in MessagePlaces(s) PROVE i \in up
      BY <1>6, <1>7, <1>8, <1>9
    <3>2. ASSUME NEW i \in up PROVE i \in MessagePlaces(s)
      BY <1>6, <1>7
    <3> QED
      BY <3>1, <3>2
  <2>2. /\ MessagesIn(s) \in Seq(Rpc!Message) /\ Len(MessagesIn(s)) = n
        /\ \A k \in 1 .. n : MessagesIn(s)[k] = s[same[k]].msg
    BY <1>5, <2>1, Listed
  <2>3. \A k \in 1 .. n : MessagesIn(s)[k] = MessagesIn(t)[k]
    <3>1. \A k \in 1 .. n : same[k] = at[k] + 1 /\ s[at[k] + 1] = t[at[k]]
      BY <1>1, <1>4, <1>11
    <3> QED
      BY <1>4, <2>2, <3>1
  <2>4. MessagesIn(s) = MessagesIn(t)
    BY <1>4, <2>2, <2>3, SeqEqual
  <2> QED
    BY <1>4, <1>9, <2>2, <2>4 DEF t
<1>10. CASE Head(s).kind \in {"json", "body"}
  <2>1. MessagePlaces(s) = {1} \cup up
    <3>1. ASSUME NEW i \in MessagePlaces(s) PROVE i \in {1} \cup up
      BY <1>6, <1>7
    <3>2. ASSUME NEW i \in {1} \cup up PROVE i \in MessagePlaces(s)
      BY <1>6, <1>7, <1>8, <1>10
    <3> QED
      BY <3>1, <3>2
  <2>2. /\ MessagesIn(s) \in Seq(Rpc!Message) /\ Len(MessagesIn(s)) = n + 1
        /\ \A k \in 1 .. n + 1 : MessagesIn(s)[k] = s[more[k]].msg
    <3>1. Order(more, n + 1, MessagePlaces(s))
      BY <1>5, <2>1
    <3> QED
      BY <3>1, Listed
  <2> DEFINE M == MessagesIn(t)
             J == <<Head(s).msg>> \o M
  <2>3. Head(s).msg \in Rpc!Message /\ M \in Seq(Rpc!Message) /\ Len(M) = n
    BY <1>1, <1>4, TokenTypes
  <2>4. /\ J \in Seq(Rpc!Message) /\ Len(J) = n + 1
        /\ J[1] = Head(s).msg
        /\ \A k \in 1 .. n : J[1 + k] = M[k]
    BY <2>3, Prefixed
  <2> HIDE DEF J, M
  <2>5. ASSUME NEW k \in 1 .. n + 1 PROVE MessagesIn(s)[k] = J[k]
    <3>1. CASE k = 1
      <4>1. MessagesIn(s)[1] = s[more[1]].msg
        BY <1>11, <2>2
      <4>2. MessagesIn(s)[1] = Head(s).msg
        BY <1>1, <1>11, <4>1
      <4> QED
        BY <2>4, <3>1, <4>2
    <3>2. CASE k # 1
      <4>1. k - 1 \in 1 .. n /\ 1 + (k - 1) = k /\ more[k] = at[k - 1] + 1
        BY <1>4, <1>11, <3>2
      <4>2. M[k - 1] = t[at[k - 1]].msg /\ s[at[k - 1] + 1] = t[at[k - 1]]
        BY <1>1, <1>4, <4>1 DEF M
      <4>3. J[k] = M[k - 1]
        BY <2>4, <4>1
      <4>4. MessagesIn(s)[k] = s[more[k]].msg
        BY <2>2
      <4> QED
        BY <4>1, <4>2, <4>3, <4>4
    <3> QED
      BY <3>1, <3>2
  <2>6. MessagesIn(s) = J
    BY <2>2, <2>4, <2>5, SeqEqual
  <2> QED
    BY <1>4, <1>10, <2>2, <2>6 DEF t, M, J
<1> QED
  BY <1>9, <1>10

(* A message written last is the last of its messages.                     *)
LEMMA MessagesWritten ==
  ASSUME NEW s \in Seq(Token), NEW w \in Seq(Token)
  PROVE  /\ MessagesIn(s) \in Seq(Rpc!Message)
         /\ MessagePlaces(w) = {} => MessagesIn(s \o w) = MessagesIn(s)
         /\ MessagePlaces(w) = {Len(w)} =>
              MessagesIn(s \o w) = Append(MessagesIn(s), w[Len(w)].msg)
<1> DEFINE t == s \o w
<1>1. /\ t \in Seq(Token) /\ Len(t) = Len(s) + Len(w)
      /\ Len(s) \in Nat /\ Len(w) \in Nat
      /\ \A i \in 1 .. Len(s) : t[i] = s[i] /\ i \in 1 .. Len(t)
      /\ \A k \in 1 .. Len(w) : t[Len(s) + k] = w[k] /\ Len(s) + k \in 1 .. Len(t)
      /\ \A i \in 1 .. Len(t) :
           i \in 1 .. Len(s) \/ (i - Len(s) \in 1 .. Len(w) /\ i = Len(s) + (i - Len(s)))
  BY Joined
<1> HIDE DEF t
<1>2. /\ MessagePlaces(s) \in SUBSET (1 .. Len(s)) /\ MessagePlaces(s) \in SUBSET Nat
  BY <1>1 DEF MessagePlaces
<1>3. PICK at, n : Order(at, n, MessagePlaces(s))
  BY <1>1, <1>2, Orderable
<1>4. /\ MessagesIn(s) \in Seq(Rpc!Message) /\ n \in Nat /\ Len(MessagesIn(s)) = n
      /\ \A k \in 1 .. n : at[k] \in 1 .. Len(s) /\ MessagesIn(s)[k] = s[at[k]].msg
  BY <1>3, Listed
<1>5. ASSUME NEW i \in 1 .. Len(s) PROVE i \in MessagePlaces(t) <=> i \in MessagePlaces(s)
  BY <1>1 DEF MessagePlaces
<1>6. ASSUME NEW k \in 1 .. Len(w)
      PROVE  Len(s) + k \in MessagePlaces(t) <=> k \in MessagePlaces(w)
  BY <1>1 DEF MessagePlaces
<1>7. MessagePlaces(t) \subseteq 1 .. Len(t) /\ MessagePlaces(w) \subseteq 1 .. Len(w)
  BY DEF MessagePlaces
<1>8. ASSUME MessagePlaces(w) = {} PROVE MessagesIn(t) = MessagesIn(s)
  <2>1. MessagePlaces(t) = MessagePlaces(s)
    <3>1. ASSUME NEW i \in MessagePlaces(t) PROVE i \in MessagePlaces(s)
      <4>1. CASE i \in 1 .. Len(s)
        BY <1>5, <4>1
      <4>2. CASE i - Len(s) \in 1 .. Len(w) /\ i = Len(s) + (i - Len(s))
        BY <1>6, <1>8, <4>2
      <4> QED
        BY <1>1, <1>7, <4>1, <4>2
    <3>2. ASSUME NEW i \in MessagePlaces(s) PROVE i \in MessagePlaces(t)
      BY <1>2, <1>5
    <3> QED
      BY <3>1, <3>2
  <2>2. /\ MessagesIn(t) \in Seq(Rpc!Message) /\ Len(MessagesIn(t)) = n
        /\ \A k \in 1 .. n : MessagesIn(t)[k] = t[at[k]].msg
    BY <1>1, <1>3, <2>1, Listed
  <2>3. \A k \in 1 .. n : MessagesIn(t)[k] = MessagesIn(s)[k]
    BY <1>1, <1>4, <2>2, SMTT(30), ZenonT(30)
  <2> QED
    BY <1>4, <2>2, <2>3, SeqEqual
<1>9. ASSUME MessagePlaces(w) = {Len(w)}
      PROVE  MessagesIn(t) = Append(MessagesIn(s), w[Len(w)].msg)
  <2> DEFINE x == Len(t)
             new == [i \in 1 .. n + 1 |-> IF i = n + 1 THEN x ELSE at[i]]
  <2>0. Len(w) \in 1 .. Len(w) /\ x = Len(s) + Len(w) /\ x \in Nat
    BY <1>1, <1>7, <1>9
  <2>1. MessagePlaces(t) = MessagePlaces(s) \cup {x}
    <3>1. ASSUME NEW i \in MessagePlaces(t) PROVE i \in MessagePlaces(s) \cup {x}
      <4>1. CASE i \in 1 .. Len(s)
        BY <1>5, <4>1
      <4>2. CASE i - Len(s) \in 1 .. Len(w) /\ i = Len(s) + (i - Len(s))
        <5>1. i - Len(s) \in MessagePlaces(w)
          BY <1>6, <4>2
        <5>2. i - Len(s) = Len(w)
          BY <1>9, <5>1
        <5> QED
          BY <2>0, <4>2, <5>2
      <4> QED
        BY <1>1, <1>7, <4>1, <4>2
    <3>2. ASSUME NEW i \in MessagePlaces(s) PROVE i \in MessagePlaces(t)
      BY <1>2, <1>5
    <3>3. x \in MessagePlaces(t)
      BY <1>6, <1>9, <2>0
    <3> QED
      BY <3>1, <3>2, <3>3
  <2>2. \A y \in MessagePlaces(s) : y < x
    BY <1>1, <1>2, <2>0
  <2> HIDE DEF x
  <2>3. Order(new, n + 1, MessagePlaces(t))
    BY <1>2, <1>3, <2>0, <2>1, <2>2, OrderExtends
  <2>4. /\ MessagesIn(t) \in Seq(Rpc!Message) /\ Len(MessagesIn(t)) = n + 1
        /\ \A k \in 1 .. n + 1 : MessagesIn(t)[k] = t[new[k]].msg
    BY <1>1, <2>3, Listed, SMTT(30), ZenonT(30)
  <2>5. /\ new[n + 1] = x /\ n + 1 \in 1 .. n + 1
        /\ \A k \in 1 .. n : new[k] = at[k] /\ k \in 1 .. n + 1
        /\ \A k \in 1 .. n + 1 : k \in 1 .. n \/ k = n + 1
    BY <1>4
  <2> HIDE DEF new
  <2> DEFINE m == w[Len(w)].msg
  <2>6. m \in Rpc!Message /\ t[x].msg = m
    <3>1. w[Len(w)] \in Token /\ t[x] = w[Len(w)]
      BY <1>1, <2>0, ElementOfSeq
    <3> QED
      BY <3>1, TokenTypes
  <2> HIDE DEF m
  <2>7. /\ Append(MessagesIn(s), m) \in Seq(Rpc!Message)
        /\ Len(Append(MessagesIn(s), m)) = n + 1
        /\ Append(MessagesIn(s), m)[n + 1] = m
        /\ \A k \in 1 .. n : Append(MessagesIn(s), m)[k] = MessagesIn(s)[k]
    BY <1>4, <2>6, Extended
  <2>8. ASSUME NEW k \in 1 .. n + 1 PROVE MessagesIn(t)[k] = Append(MessagesIn(s), m)[k]
    <3>1. CASE k = n + 1
      BY <2>4, <2>5, <2>6, <2>7, <3>1
    <3>2. CASE k \in 1 .. n
      <4>1. MessagesIn(t)[k] = t[at[k]].msg /\ t[at[k]] = s[at[k]]
        BY <1>1, <1>4, <2>4, <2>5, <3>2
      <4> QED
        BY <1>4, <2>7, <3>2, <4>1
    <3> QED
      BY <2>5, <3>1, <3>2
  <2>9. MessagesIn(t) = Append(MessagesIn(s), m)
    BY <2>4, <2>7, <2>8, SeqEqual
  <2> QED
    BY <2>9 DEF m
<1> QED
  BY <1>4, <1>8, <1>9 DEF t
(***************************************************************************)
(* A tidy input                                                            *)
(***************************************************************************)

Tidy ==
  tidy => /\ Tidily(input)
          /\ pc # "headers" => Fresh(input)
          /\ pc = "headers" /\ ~ gotLength => input # <<>> /\ input[1].kind = "length"

(* Reading a token leaves a tidy input, and a fresh one unless the token   *)
(* was a length.  A header that comes first is followed by its length.     *)
LEMMA TidyTail ==
  ASSUME NEW s \in Seq(Token), s # <<>>, Tidily(s)
  PROVE  /\ Tidily(Tail(s)) /\ Head(s).kind # "word"
         /\ Head(s).kind # "length" => Fresh(Tail(s))
         /\ Head(s).kind = "header" /\ Fresh(s) =>
              Tail(s) # <<>> /\ Tail(s)[1].kind = "length"
<1> DEFINE t == Tail(s)
<1>1. /\ Len(s) \in Nat \ {0} /\ Head(s) = s[1] /\ 1 \in 1 .. Len(s)
      /\ t \in Seq(Token) /\ Len(t) = Len(s) - 1
      /\ \A i \in 1 .. Len(t) : t[i] = s[i + 1] /\ i + 1 \in 1 .. Len(s)
  BY TakenFrom
<1> HIDE DEF t
<1>2. \A i \in 1 .. Len(s) : /\ s[i].kind # "word"
                             /\ s[i].kind = "header" => i = 1 \/ Beside(s, i)
  BY DEF Tidily
<1>3. ASSUME NEW i \in 1 .. Len(t), t[i].kind = "header", i # 1
      PROVE  Beside(t, i)
  <2>1. Beside(s, i + 1) /\ i + 1 \in 1 .. Len(s)
    <3>1. i + 1 \in 1 .. Len(s) /\ s[i + 1].kind = "header" /\ i + 1 # 1
      BY <1>1, <1>3
    <3> QED
      BY <1>2, <3>1
  <2>2. CASE (i + 1) + 1 <= Len(s) /\ s[(i + 1) + 1].kind = "length"
    <3>1. i + 1 \in 1 .. Len(t)
      BY <1>1, <2>2
    <3>2. t[i + 1] = s[(i + 1) + 1]
      BY <1>1, <3>1
    <3> QED
      BY <2>2, <3>1, <3>2 DEF Beside
  <2>3. CASE s[(i + 1) - 1].kind = "length"
    <3>1. i - 1 \in 1 .. Len(t) /\ (i - 1) + 1 = i /\ (i + 1) - 1 = i /\ 1 < i
      BY <1>1, <1>3
    <3>2. t[i - 1] = s[(i - 1) + 1]
      BY <1>1, <3>1
    <3>3. t[i - 1].kind = "length"
      BY <2>3, <3>1, <3>2
    <3> QED
      BY <3>1, <3>3 DEF Beside
  <2> QED
    BY <2>1, <2>2, <2>3 DEF Beside
<1>4. Tidily(t)
  <2>1. \A i \in 1 .. Len(t) : t[i].kind # "word"
    BY <1>1, <1>2
  <2> QED
    BY <1>3, <2>1 DEF Tidily
<1>5. ASSUME Head(s).kind # "length" PROVE Fresh(t)
  <2> SUFFICES ASSUME t # <<>>, t[1].kind = "header"
               PROVE  2 <= Len(t) /\ t[2].kind = "length"
    BY DEF Fresh
  <2>1. 1 \in 1 .. Len(t) /\ 1 + 1 = 2
    BY <1>1, EmptySeq
  <2>2. 2 \in 1 .. Len(s) /\ s[2].kind = "header"
    BY <1>1, <2>1
  <2>3. Beside(s, 2)
    BY <1>2, <2>2
  <2>4. 2 - 1 = 1 /\ 2 + 1 = 3
    OBVIOUS
  <2>5. 3 <= Len(s) /\ s[3].kind = "length"
    BY <1>1, <1>5, <2>3, <2>4 DEF Beside
  <2>6. 2 \in 1 .. Len(t)
    BY <1>1, <2>5
  <2>7. t[2] = s[3]
    BY <1>1, <2>4, <2>6
  <2> QED
    BY <2>5, <2>6, <2>7
<1>6. ASSUME Head(s).kind = "header", Fresh(s)
      PROVE  t # <<>> /\ t[1].kind = "length"
  <2>1. 2 <= Len(s) /\ s[2].kind = "length"
    BY <1>1, <1>6 DEF Fresh
  <2>2. 1 \in 1 .. Len(t) /\ 1 + 1 = 2
    BY <1>1, <2>1
  <2>3. t[1] = s[2]
    BY <1>1, <2>2
  <2> QED
    BY <2>1, <2>2, <2>3
<1> QED
  BY <1>1, <1>2, <1>4, <1>5, <1>6 DEF t

(* Writing tidy tokens after it leaves it tidy.                            *)
LEMMA TidyJoined ==
  ASSUME NEW s \in Seq(Token), NEW w \in Seq(Token), Tidily(s), Tidily(w), Fresh(w)
  PROVE  /\ Tidily(s \o w)
         /\ Fresh(s) => Fresh(s \o w)
         /\ s # <<>> => s \o w # <<>> /\ (s \o w)[1] = s[1]
<1> DEFINE t == s \o w
<1>1. /\ t \in Seq(Token) /\ Len(t) = Len(s) + Len(w)
      /\ Len(s) \in Nat /\ Len(w) \in Nat
      /\ \A i \in 1 .. Len(s) : t[i] = s[i] /\ i \in 1 .. Len(t)
      /\ \A k \in 1 .. Len(w) : t[Len(s) + k] = w[k] /\ Len(s) + k \in 1 .. Len(t)
      /\ \A i \in 1 .. Len(t) :
           i \in 1 .. Len(s) \/ (i - Len(s) \in 1 .. Len(w) /\ i = Len(s) + (i - Len(s)))
  BY Joined
<1> HIDE DEF t
<1>2. \A i \in 1 .. Len(s) : /\ s[i].kind # "word"
                             /\ s[i].kind = "header" => i = 1 \/ Beside(s, i)
  BY DEF Tidily
<1>3. \A k \in 1 .. Len(w) : /\ w[k].kind # "word"
                             /\ w[k].kind = "header" => k = 1 \/ Beside(w, k)
  BY DEF Tidily
<1>4. ASSUME NEW i \in 1 .. Len(s), Beside(s, i) PROVE Beside(t, i)
  <2>1. CASE i + 1 <= Len(s) /\ s[i + 1].kind = "length"
    <3>1. i + 1 \in 1 .. Len(s) /\ i + 1 <= Len(t)
      BY <1>1, <2>1
    <3> QED
      BY <1>1, <2>1, <3>1 DEF Beside
  <2>2. CASE 1 < i /\ s[i - 1].kind = "length"
    <3>1. i - 1 \in 1 .. Len(s)
      BY <1>1, <2>2
    <3> QED
      BY <1>1, <2>2, <3>1 DEF Beside
  <2> QED
    BY <1>4, <2>1, <2>2 DEF Beside
<1>5. ASSUME NEW k \in 1 .. Len(w), w[k].kind = "header" PROVE Beside(t, Len(s) + k)
  <2>1. CASE k + 1 <= Len(w) /\ w[k + 1].kind = "length"
    <3>1. k + 1 \in 1 .. Len(w) /\ (Len(s) + k) + 1 = Len(s) + (k + 1)
          /\ (Len(s) + k) + 1 <= Len(t)
      BY <1>1, <2>1
    <3>2. t[(Len(s) + k) + 1] = w[k + 1]
      BY <1>1, <3>1
    <3> QED
      BY <2>1, <3>1, <3>2 DEF Beside
  <2>2. CASE 1 < k /\ w[k - 1].kind = "length"
    <3>1. k - 1 \in 1 .. Len(w) /\ (Len(s) + k) - 1 = Len(s) + (k - 1) /\ 1 < Len(s) + k
      BY <1>1, <2>2
    <3>2. t[(Len(s) + k) - 1] = w[k - 1]
      BY <1>1, <3>1
    <3> QED
      BY <2>2, <3>1, <3>2 DEF Beside
  <2>3. CASE k = 1
    <3>1. w # <<>> /\ 1 + 1 = 2
      BY <1>1, EmptySeq
    <3>2. 2 <= Len(w) /\ w[2].kind = "length"
      BY <1>5, <2>3, <3>1 DEF Fresh
    <3> QED
      BY <2>1, <2>3, <3>1, <3>2
  <2> QED
    BY <1>3, <1>5, <2>1, <2>2, <2>3 DEF Beside
<1>6. Tidily(t)
  <2> SUFFICES ASSUME NEW i \in 1 .. Len(t)
               PROVE  /\ t[i].kind # "word"
                      /\ t[i].kind = "header" => i = 1 \/ Beside(t, i)
    BY DEF Tidily
  <2>1. CASE i \in 1 .. Len(s)
    BY <1>1, <1>2, <1>4, <2>1
  <2>2. CASE i - Len(s) \in 1 .. Len(w) /\ i = Len(s) + (i - Len(s))
    <3>1. t[i] = w[i - Len(s)]
      BY <1>1, <2>2
    <3> QED
      BY <1>3, <1>5, <2>2, <3>1
  <2> QED
    BY <1>1, <2>1, <2>2
<1>7. ASSUME s # <<>> PROVE t # <<>> /\ t[1] = s[1] /\ 1 \in 1 .. Len(s)
  <2>1. 1 \in 1 .. Len(s) /\ 1 \in 1 .. Len(t)
    BY <1>1, <1>7, EmptySeq
  <2> QED
    BY <1>1, <2>1
<1>8. ASSUME Fresh(s) PROVE Fresh(t)
  <2>1. CASE s = <<>>
    <3>1. t = w
      BY <2>1, ConcatEmptySeq DEF t
    <3> QED
      BY <3>1
  <2>2. CASE s # <<>>
    <3> SUFFICES ASSUME t[1].kind = "header" PROVE 2 <= Len(t) /\ t[2].kind = "length"
      BY DEF Fresh
    <3>1. 2 <= Len(s) /\ s[2].kind = "length"
      BY <1>7, <1>8, <2>2 DEF Fresh
    <3>2. 2 \in 1 .. Len(s)
      BY <1>1, <3>1
    <3> QED
      BY <1>1, <3>1, <3>2
  <2> QED
    BY <2>1, <2>2
<1> QED
  BY <1>6, <1>7, <1>8 DEF t

(***************************************************************************)
(* A message half handled                                                  *)
(***************************************************************************)

AskedUpTo(r, p) == {i \in 1 .. p : r[i].id # 0}

(* d answers the requests with an id among the first p of r, in order.     *)
AnsweredUpTo(d, r, p) ==
  \E at, n :
    /\ Order(at, n, AskedUpTo(r, p)) /\ Len(d) = n
    /\ \A k \in 1 .. n : /\ d[k].id = r[at[k]].id
                         /\ d[k].kind \in Rpc!ResponseKinds(r[at[k]].class)

(* What is to do are the others.                                           *)
Remaining(t, r, p) ==
  Len(r) = p + Len(t) /\ \A j \in 1 .. Len(t) : t[j] = r[p + j]

Halfway ==
  pc = "handle" =>
    \E p \in Nat : Remaining(todo, current.reqs, p) /\ AnsweredUpTo(done, current.reqs, p)

LEMMA KindTypes ==
  ASSUME NEW r \in Rpc!Request
  PROVE  r.id \in Rpc!Id /\ Rpc!ResponseKinds(r.class) \subseteq {"result", "error"}
<1>1. r.id \in Rpc!Id /\ r.class \in {"call", "plain", "bad"}
  BY DEF Rpc!Request
<1> QED
  BY <1>1 DEF Rpc!ResponseKinds

LEMMA HandlingBegins ==
  ASSUME NEW r \in Seq(Rpc!Request)
  PROVE  Remaining(r, r, 0) /\ AnsweredUpTo(<<>>, r, 0)
<1>1. Len(r) \in Nat /\ 0 \in Nat /\ Len(<<>>) = 0
  BY LenProperties
<1>2. Remaining(r, r, 0)
  BY <1>1 DEF Remaining
<1>3. AskedUpTo(r, 0) = {}
  BY DEF AskedUpTo
<1> DEFINE f == [i \in 1 .. 0 |-> 0]
<1>4. Order(f, 0, {}) /\ \A k \in 1 .. 0 : FALSE
  BY DEF Order
<1> HIDE DEF f
<1>5. AnsweredUpTo(<<>>, r, 0)
  BY <1>1, <1>3, <1>4 DEF AnsweredUpTo
<1> QED
  BY <1>2, <1>5

LEMMA HandlingGoesOn ==
  ASSUME NEW r \in Seq(Rpc!Request), NEW t \in Seq(Rpc!Request), t # <<>>,
         NEW d \in Seq(Rpc!Response), NEW p \in Nat,
         Remaining(t, r, p), AnsweredUpTo(d, r, p),
         NEW k \in Rpc!ResponseKinds(Head(t).class),
         NEW e, e = IF Head(t).id = 0 THEN d ELSE Append(d, [id |-> Head(t).id, kind |-> k])
  PROVE  Remaining(Tail(t), r, p + 1) /\ AnsweredUpTo(e, r, p + 1)
<1> DEFINE u == Tail(t)
           q == Head(t)
<1>1. /\ Len(t) \in Nat \ {0} /\ q = t[1] /\ q \in Rpc!Request /\ 1 \in 1 .. Len(t)
      /\ u \in Seq(Rpc!Request) /\ Len(u) = Len(t) - 1
      /\ \A i \in 1 .. Len(u) : u[i] = t[i + 1] /\ i + 1 \in 1 .. Len(t)
  BY TakenFrom
<1>2. /\ Len(r) = p + Len(t) /\ \A j \in 1 .. Len(t) : t[j] = r[p + j]
  BY DEF Remaining
<1>3. e = IF q.id = 0 THEN d ELSE Append(d, [id |-> q.id, kind |-> k])
  OBVIOUS
<1>4. k \in Rpc!ResponseKinds(q.class)
  OBVIOUS
<1> HIDE DEF u, q
<1>5. Remaining(u, r, p + 1)
  <2>1. Len(r) = (p + 1) + Len(u)
    BY <1>1, <1>2
  <2>2. ASSUME NEW j \in 1 .. Len(u) PROVE u[j] = r[(p + 1) + j]
    <3>1. u[j] = t[j + 1] /\ j + 1 \in 1 .. Len(t) /\ p + (j + 1) = (p + 1) + j
      BY <1>1
    <3> QED
      BY <1>2, <3>1
  <2> QED
    BY <2>1, <2>2 DEF Remaining
<1>6. r[p + 1] = q
  BY <1>1, <1>2
<1>7. PICK at, n : /\ Order(at, n, AskedUpTo(r, p)) /\ Len(d) = n
                   /\ \A i \in 1 .. n : /\ d[i].id = r[at[i]].id
                                        /\ d[i].kind \in Rpc!ResponseKinds(r[at[i]].class)
  BY DEF AnsweredUpTo
<1>8. n \in Nat
  BY <1>7 DEF Order
<1>9. \A i \in 1 .. p + 1 : i \in 1 .. p \/ i = p + 1
  OBVIOUS
<1>10. CASE q.id = 0
  <2>1. AskedUpTo(r, p + 1) = AskedUpTo(r, p)
    BY <1>6, <1>9, <1>10 DEF AskedUpTo
  <2>2. e = d
    BY <1>3, <1>10
  <2>3. AnsweredUpTo(d, r, p + 1)
    BY <1>7, <2>1 DEF AnsweredUpTo
  <2> QED
    BY <1>5, <2>2, <2>3 DEF u
<1>11. CASE q.id # 0
  <2>1. AskedUpTo(r, p + 1) = AskedUpTo(r, p) \cup {p + 1}
    BY <1>6, <1>9, <1>11 DEF AskedUpTo
  <2>2. AskedUpTo(r, p) \in SUBSET Nat /\ \A y \in AskedUpTo(r, p) : y < p + 1
    BY DEF AskedUpTo
  <2> DEFINE new == [i \in 1 .. n + 1 |-> IF i = n + 1 THEN p + 1 ELSE at[i]]
             x == [id |-> q.id, kind |-> k]
  <2>3. Order(new, n + 1, AskedUpTo(r, p + 1))
    <3> DEFINE S == AskedUpTo(r, p)
               z == p + 1
    <3>1. S \in SUBSET Nat /\ Order(at, n, S) /\ z \in Nat /\ \A y \in S : y < z
      BY <1>7, <2>2
    <3>2. new = [i \in 1 .. n + 1 |-> IF i = n + 1 THEN z ELSE at[i]]
      OBVIOUS
    <3> HIDE DEF S, z, new
    <3>3. Order(new, n + 1, S \cup {z})
      BY <3>1, <3>2, OrderExtends
    <3> QED
      BY <2>1, <3>3 DEF S, z
  <2>4. /\ new[n + 1] = p + 1 /\ \A i \in 1 .. n : new[i] = at[i]
    BY <1>8
  <2>5. x \in Rpc!Response /\ x.id = q.id /\ x.kind = k
    <3>1. q.id \in Rpc!Id /\ k \in {"result", "error"}
      BY <1>1, <1>4, KindTypes
    <3> QED
      BY <3>1 DEF Rpc!Response
  <2>6. e = Append(d, x)
    BY <1>3, <1>11
  <2> HIDE DEF new, x
  <2>7. /\ Len(e) = n + 1 /\ e[n + 1] = x /\ \A i \in 1 .. n : e[i] = d[i]
    BY <1>7, <2>5, <2>6, Extended
  <2>8. ASSUME NEW i \in 1 .. n + 1
        PROVE  /\ e[i].id = r[new[i]].id
               /\ e[i].kind \in Rpc!ResponseKinds(r[new[i]].class)
    <3>1. CASE i = n + 1
      <4>1. e[i] = x /\ r[new[i]] = q
        BY <1>6, <2>4, <2>7, <3>1
      <4> QED
        BY <1>4, <2>5, <4>1
    <3>2. CASE i \in 1 .. n
      <4>1. e[i] = d[i] /\ new[i] = at[i]
        BY <2>4, <2>7, <3>2
      <4> QED
        BY <1>7, <3>2, <4>1
    <3>3. i = n + 1 \/ i \in 1 .. n
      BY <1>8
    <3> QED
      BY <3>1, <3>2, <3>3
  <2>9. AnsweredUpTo(e, r, p + 1)
    BY <2>3, <2>7, <2>8 DEF AnsweredUpTo
  <2> QED
    BY <1>5, <2>9 DEF u
<1> QED
  BY <1>10, <1>11

(* When nothing is left to do the responses are an answer to the message.  *)
LEMMA HandlingEnds ==
  ASSUME NEW m \in Rpc!Message, m.kind \notin {"invalid", "garbage"},
         NEW d \in Seq(Rpc!Response), NEW p \in Nat,
         Remaining(<<>>, m.reqs, p), AnsweredUpTo(d, m.reqs, p)
  PROVE  d \in Rpc!Answers(m)
<1> DEFINE r == m.reqs
<1>1. r \in Seq(Rpc!Request) /\ Len(r) = p /\ DOMAIN r = 1 .. p
  <2>1. m.reqs \in Seq(Rpc!Request)
    BY DEF Rpc!Message
  <2>2. Len(m.reqs) = p
    BY DEF Remaining
  <2> QED
    BY <2>1, <2>2, LenProperties
<1>2. PICK at, n : /\ Order(at, n, AskedUpTo(r, p)) /\ Len(d) = n
                   /\ \A i \in 1 .. n : /\ d[i].id = r[at[i]].id
                                        /\ d[i].kind \in Rpc!ResponseKinds(r[at[i]].class)
  BY DEF AnsweredUpTo
<1>3. n \in Nat /\ at \in [1 .. n -> AskedUpTo(r, p)] /\ DOMAIN at = 1 .. n
  BY <1>2 DEF Order
<1>4. AskedUpTo(r, p) \in SUBSET Nat
  BY DEF AskedUpTo
<1>5. at = InAscendingOrder(AskedUpTo(r, p))
  BY <1>2, <1>4, OrderIsUnique
<1>6. at = Rpc!InAscendingOrder({i \in DOMAIN m.reqs : m.reqs[i].id # 0})
  <2>1. {i \in DOMAIN m.reqs : m.reqs[i].id # 0} = AskedUpTo(r, p)
    BY <1>1 DEF AskedUpTo
  <2> QED
    BY <1>5, <2>1, SameOrder
<1> DEFINE kind == [i \in DOMAIN at |-> d[i].kind]
<1>7. d \in [1 .. n -> Rpc!Response]
  BY <1>2
<1>8. kind \in [DOMAIN at -> {"result", "error"}]
  BY <1>3, <1>7 DEF Rpc!Response
<1>9. \A i \in DOMAIN at : kind[i] \in Rpc!ResponseKinds(m.reqs[at[i]].class)
  BY <1>2, <1>3
<1>10. d = [i \in DOMAIN at |-> [id |-> m.reqs[at[i]].id, kind |-> kind[i]]]
  <2>1. ASSUME NEW i \in 1 .. n
        PROVE  d[i] = [id |-> m.reqs[at[i]].id, kind |-> d[i].kind]
    <3>1. d[i] \in Rpc!Response /\ d[i].id = m.reqs[at[i]].id
      BY <1>2, <1>7
    <3> QED
      BY <3>1 DEF Rpc!Response
  <2>2. d = [i \in 1 .. n |-> d[i]]
    BY <1>7
  <2> QED
    BY <1>3, <2>1, <2>2
<1> HIDE DEF kind, r
<1> QED
  BY <1>6, <1>8, <1>9, <1>10 DEF Rpc!Answers

(***************************************************************************)
(* Both are kept by every step                                             *)
(***************************************************************************)

(* Within a header block of a tidy client there are headers only.          *)
LEMMA HeadersOnly ==
  ASSUME IInv, Tidy, tidy, pc = "headers", input # <<>>
  PROVE  IF gotLength THEN Head(input).kind \in {"blank", "header"}
                      ELSE Head(input).kind = "length"
<1>1. /\ Len(input) \in Nat \ {0} /\ Head(input) = input[1]
  BY TakenFrom DEF IInv, TypeInv
<1>2. CASE gotLength
  <2>1. Completed(input, 0, open)
    BY <1>2, Zenon DEF IInv, Framed
  <2>2. 0 + 1 = 1 /\ 0 # Len(input)
    BY <1>1
  <2>3. input[1].kind \in {"blank", "header"}
    BY <2>1, <2>2 DEF Completed
  <2> QED
    BY <1>1, <1>2, <2>3
<1>3. CASE ~ gotLength
  BY <1>1, <1>3 DEF Tidy
<1> QED
  BY <1>2, <1>3

LEMMA TidyRead ==
  ASSUME IInv, Tidy, input # <<>>, input' = Tail(input), tidy' = tidy,
         tidy => \/ pc' # "headers" /\ Head(input).kind # "length"
                 \/ pc' = "headers" /\ gotLength'
                 \/ pc' = "headers" /\ Head(input).kind = "header" /\ Fresh(input)
  PROVE  Tidy'
<1> SUFFICES ASSUME tidy
             PROVE  /\ Tidily(input') /\ (pc' # "headers" => Fresh(input'))
                    /\ pc' = "headers" /\ ~ gotLength' =>
                         input' # <<>> /\ input'[1].kind = "length"
  BY DEF Tidy
<1>1. input \in Seq(Token) /\ Tidily(input)
  BY DEF IInv, TypeInv, Tidy
<1>2. /\ Tidily(input')
      /\ Head(input).kind # "length" => Fresh(input')
      /\ Head(input).kind = "header" /\ Fresh(input) =>
           input' # <<>> /\ input'[1].kind = "length"
  BY <1>1, TidyTail
<1> QED
  BY <1>2

LEMMA TidyKept ==
  ASSUME IInv, Tidy, [Next]_vars
  PROVE  Tidy'
<1>1. input \in Seq(Token) /\ gotLength \in BOOLEAN
  BY DEF IInv, TypeInv
<1>2. CASE ClientSteps
  <2>1. tidy' = tidy /\ pc' = pc /\ gotLength' = gotLength
    BY <1>2 DEF ClientSteps, SendMessage, WriteStray, CloseInput, reader
  <2>2. PICK w \in Seq(Token) : Adds(w)
    BY <1>2, SendAdds, StrayAdds, CloseAdds DEF ClientSteps, IInv
  <2>3. input' = input \o w /\ (tidy => Tidily(w) /\ Fresh(w))
    BY <2>2 DEF Adds
  <2>4. ASSUME tidy
        PROVE  /\ Tidily(input') /\ (Fresh(input) => Fresh(input'))
               /\ input # <<>> => input' # <<>> /\ input'[1] = input[1]
    <3>1. Tidily(input) /\ Tidily(w) /\ Fresh(w)
      BY <2>3, <2>4 DEF Tidy
    <3> QED
      BY <1>1, <2>3, <3>1, TidyJoined
  <2> QED
    BY <2>1, <2>4 DEF Tidy
<1>3. CASE SkipBlank
  BY <1>3, TidyRead DEF SkipBlank, client
<1>4. CASE ReadLegacy
  BY <1>4, TidyRead DEF ReadLegacy, Receive, client
<1>5. CASE ReadWord
  BY <1>5, TidyRead DEF ReadWord, ParseError, client
<1>6. CASE BeginHeaders
  <2>1. tidy => Fresh(input)
    BY <1>6 DEF BeginHeaders, Tidy
  <2> QED
    BY <1>6, <2>1, TidyRead DEF BeginHeaders, client
<1>7. CASE ReadHeader
  <2>1. tidy => gotLength'
    BY <1>7, HeadersOnly DEF ReadHeader
  <2> QED
    BY <1>7, <2>1, TidyRead DEF ReadHeader, client
<1>8. CASE BadHeader
  <2>1. Head(input).kind # "length"
    BY <1>8 DEF BadHeader, HasColon
  <2> QED
    BY <1>8, <2>1, TidyRead DEF BadHeader, ParseError, client
<1>9. CASE EndHeaders
  <2>1. pc' # "headers"
    BY <1>9 DEF EndHeaders, ParseError
  <2> QED
    BY <1>9, <2>1, TidyRead DEF EndHeaders, client
<1>10. CASE ReadBody
  <2>1. Head(input) = input[1] /\ input # <<>>
    BY <1>1, <1>10, TakenFrom DEF ReadBody
  <2>2. Head(input).kind = "body"
    BY <1>10, <2>1 DEF ReadBody, IInv, Framed
  <2> QED
    BY <1>10, <2>2, TidyRead DEF ReadBody, Receive, client
<1>11. CASE ReachEnd
  <2>1. tidy' = tidy /\ input' = input /\ input = <<>> /\ pc' = "stopped"
    BY <1>11 DEF ReachEnd, AtEnd, client
  <2> QED
    BY <2>1 DEF Tidy, Fresh
<1>12. CASE HandleRequest \/ Reply \/ Crash
  <2>1. tidy' = tidy /\ input' = input /\ pc = "handle" /\ pc' # "headers"
    BY <1>12 DEF HandleRequest, Reply, Crash, client
  <2> QED
    BY <2>1 DEF Tidy
<1>13. CASE UNCHANGED vars
  BY <1>13 DEF Tidy, vars, client, reader
<1> QED
  BY <1>2, <1>3, <1>4, <1>5, <1>6, <1>7, <1>8, <1>9, <1>10, <1>11, <1>12, <1>13
     DEF Next, ServerStep, ClientSteps

LEMMA HalfwayKept ==
  ASSUME IInv, Halfway, [Next]_vars
  PROVE  Halfway'
<1>1. /\ current \in Rpc!Message /\ todo \in Seq(Rpc!Request) /\ done \in Seq(Rpc!Response)
      /\ current.reqs \in Seq(Rpc!Request) /\ input \in Seq(Token)
  BY DEF IInv, TypeInv, Rpc!Message
<1>2. CASE ReadLegacy \/ ReadBody
  <2>1. /\ input # <<>> /\ current' = Head(input).msg /\ todo' = Head(input).msg.reqs
        /\ done' = <<>>
    BY <1>2 DEF ReadLegacy, ReadBody, Receive
  <2>2. Head(input).msg.reqs \in Seq(Rpc!Request)
    BY <1>1, <2>1, TakenFrom, TokenTypes
  <2>3. Remaining(todo', current'.reqs, 0) /\ AnsweredUpTo(done', current'.reqs, 0)
    BY <2>1, <2>2, HandlingBegins
  <2> QED
    BY <2>3 DEF Halfway
<1>3. CASE HandleRequest
  <2>1. /\ pc = "handle" /\ todo # <<>> /\ todo' = Tail(todo) /\ current' = current
    BY <1>3 DEF HandleRequest
  <2>2. PICK k \in Rpc!ResponseKinds(Head(todo).class) :
          done' = IF Head(todo).id = 0 THEN done
                  ELSE Append(done, [id |-> Head(todo).id, kind |-> k])
    BY <1>3 DEF HandleRequest
  <2>3. PICK p \in Nat : /\ Remaining(todo, current.reqs, p)
                         /\ AnsweredUpTo(done, current.reqs, p)
    BY <2>1 DEF Halfway
  <2>4. /\ Remaining(todo', current'.reqs, p + 1)
        /\ AnsweredUpTo(done', current'.reqs, p + 1)
    BY <1>1, <2>1, <2>2, <2>3, HandlingGoesOn
  <2>5. p + 1 \in Nat
    OBVIOUS
  <2> QED
    BY <2>4, <2>5 DEF Halfway
<1>4. CASE ClientSteps \/ UNCHANGED vars
  <2>1. pc' = pc /\ current' = current /\ todo' = todo /\ done' = done
    BY <1>4 DEF ClientSteps, SendMessage, WriteStray, CloseInput, vars, handler
  <2> QED
    BY <2>1 DEF Halfway
<1>5. CASE \/ SkipBlank \/ ReadWord \/ BeginHeaders \/ ReadHeader \/ BadHeader
           \/ EndHeaders \/ ReachEnd \/ Reply \/ Crash
  <2>1. pc' # "handle"
    BY <1>5 DEF SkipBlank, ReadWord, BeginHeaders, ReadHeader, BadHeader, EndHeaders,
                ReachEnd, Reply, Crash, ParseError
  <2> QED
    BY <2>1 DEF Halfway
<1> QED
  BY <1>2, <1>3, <1>4, <1>5 DEF Next, ServerStep, ClientSteps

(***************************************************************************)
(* Every step is one of the promise, or none of them                       *)
(***************************************************************************)

(* The variables of JsonRpc.                                               *)
Ahead == IF Busy THEN <<current>> ELSE <<>>
Pending == Ahead \o MessagesIn(input)
Sent == [i \in DOMAIN output |-> output[i].answer]
Runs == pc \notin {"stopped", "crashed"}
Outside == <<Pending, Sent, Runs, tidy>>

Promised == Rpc!Next \/ UNCHANGED Outside

LEMMA SubmitPromised ==
  ASSUME Pending \in Seq(Rpc!Message), NEW m \in Rpc!Message, Pending' = Append(Pending, m),
         UNCHANGED <<Sent, Runs, tidy>>
  PROVE  Promised
<1>1. /\ Len(Pending') = Len(Pending) + 1 /\ Pending'[Len(Pending) + 1] = m
  BY Extended
<1>2. Pending'[Len(Pending')] \in Rpc!Message
      /\ Pending' = Append(Pending, Pending'[Len(Pending')])
  BY <1>1
<1>3. Rpc!Submit
  BY <1>1, <1>2 DEF Rpc!Submit, Pending, Ahead, Sent, Runs
<1> QED
  BY <1>3 DEF Promised, Rpc!Next

LEMMA ConsumePromised ==
  ASSUME Runs, Pending # <<>>, Pending' = Tail(Pending), NEW a \in Rpc!Answers(Head(Pending)),
         Sent' = IF a = <<>> THEN Sent ELSE Append(Sent, a), UNCHANGED <<Runs, tidy>>
  PROVE  Promised
<1>1. Rpc!Consume
  BY DEF Rpc!Consume, Pending, Ahead, Sent, Runs
<1> QED
  BY <1>1 DEF Promised, Rpc!Next

LEMMA LosePromised ==
  ASSUME Runs, ~ tidy, Pending # <<>>, Pending' = Tail(Pending), UNCHANGED <<Sent, Runs, tidy>>
  PROVE  Promised
<1>1. Rpc!Lose
  BY DEF Rpc!Lose, Pending, Ahead, Sent, Runs
<1> QED
  BY <1>1 DEF Promised, Rpc!Next

LEMMA ComplainPromised ==
  ASSUME Runs, ~ tidy, Sent' = Append(Sent, <<Rpc!NullError>>),
         UNCHANGED Pending \/ (Pending # <<>> /\ Pending' = Tail(Pending)),
         UNCHANGED <<Runs, tidy>>
  PROVE  Promised
<1>1. Rpc!Complain
  BY DEF Rpc!Complain, Pending, Ahead, Sent, Runs
<1> QED
  BY <1>1 DEF Promised, Rpc!Next

LEMMA StopPromised ==
  ASSUME Runs, ~ Runs', UNCHANGED <<Pending, Sent, tidy>>
  PROVE  Promised
<1>1. Rpc!Stop
  BY DEF Rpc!Stop, Pending, Ahead, Sent, Runs
<1> QED
  BY <1>1 DEF Promised, Rpc!Next

(* What is pending, while a message is handled and while none is.          *)
LEMMA Queued ==
  ASSUME NEW c \in Rpc!Message, NEW s \in Seq(Token)
  PROVE  /\ MessagesIn(s) \in Seq(Rpc!Message) /\ <<>> \o MessagesIn(s) = MessagesIn(s)
         /\ <<c>> \o MessagesIn(s) \in Seq(Rpc!Message) /\ <<c>> \o MessagesIn(s) # <<>>
         /\ Head(<<c>> \o MessagesIn(s)) = c
         /\ Tail(<<c>> \o MessagesIn(s)) = MessagesIn(s)
<1>1. MessagesIn(s) \in Seq(Rpc!Message)
  BY MessagesWritten
<1> DEFINE q == MessagesIn(s)
<1> HIDE DEF q
<1>2. q \in Seq(Rpc!Message)
  BY <1>1 DEF q
<1>3. <<>> \o q = q
  BY <1>2, ConcatEmptySeq
<1>4. /\ <<c>> \o q \in Seq(Rpc!Message) /\ <<c>> \o q # <<>>
      /\ Head(<<c>> \o q) = c /\ Tail(<<c>> \o q) = q
  BY <1>2, Prefixed
<1> QED
  BY <1>2, <1>3, <1>4 DEF q

(* One more answer.                                                        *)
LEMMA SentMore ==
  ASSUME TypeInv, NEW f \in Framing, NEW a \in Seq(Rpc!Response),
         output' = Append(output, [framing |-> f, answer |-> a])
  PROVE  Sent' = Append(Sent, a)
<1> DEFINE o == [framing |-> f, answer |-> a]
           S == [framing : Framing, answer : Seq(Rpc!Response)]
           R == Seq(Rpc!Response)
<1>1. output \in Seq(S) /\ o \in S /\ o.answer = a /\ \A x \in S : x.answer \in R
  BY DEF TypeInv
<1>2. output' = Append(output, o)
  OBVIOUS
<1> HIDE DEF S, o, R
<1>3. /\ output' \in Seq(S) /\ Len(output') = Len(output) + 1 /\ Len(output) \in Nat
      /\ output'[Len(output) + 1] = o
      /\ \A i \in 1 .. Len(output) : output'[i] = output[i]
      /\ DOMAIN output = 1 .. Len(output) /\ DOMAIN output' = 1 .. Len(output) + 1
  BY <1>1, <1>2, Extended, LenProperties
<1>4. \A i \in 1 .. Len(output) : output[i].answer \in R
  BY <1>1, ElementOfSeq
<1>5. /\ Sent \in Seq(R) /\ Len(Sent) = Len(output)
      /\ \A i \in 1 .. Len(output) : Sent[i] = output[i].answer
  <2>1. Sent = [i \in 1 .. Len(output) |-> output[i].answer]
    BY <1>3 DEF Sent
  <2> QED
    BY <1>3, <1>4, <2>1
<1>6. a \in R
  BY DEF R
<1>7. /\ Append(Sent, a) \in Seq(R) /\ Len(Append(Sent, a)) = Len(output) + 1
      /\ Append(Sent, a)[Len(output) + 1] = a
      /\ \A i \in 1 .. Len(output) : Append(Sent, a)[i] = output[i].answer
  BY <1>5, <1>6, Extended
<1>8. Sent' = [i \in 1 .. Len(output) + 1 |-> output'[i].answer]
  BY <1>3 DEF Sent
<1>9. ASSUME NEW i \in 1 .. Len(output) + 1 PROVE output'[i].answer = Append(Sent, a)[i]
  <2>1. i \in 1 .. Len(output) \/ i = Len(output) + 1
    BY <1>3
  <2> QED
    BY <1>1, <1>3, <1>7, <2>1
<1>10. Append(Sent, a) = [i \in 1 .. Len(output) + 1 |-> Append(Sent, a)[i]]
  <2> DEFINE b == Append(Sent, a)
  <2>1. b \in Seq(R) /\ Len(b) = Len(output) + 1
    BY <1>7
  <2> HIDE DEF b
  <2>2. b = [i \in 1 .. Len(b) |-> b[i]]
    BY <2>1
  <2> QED
    BY <2>1, <2>2 DEF b
<1> QED
  BY <1>8, <1>9, <1>10

LEMMA ClientPromised ==
  ASSUME IInv, ClientSteps
  PROVE  Promised
<1>1. /\ pc' = pc /\ current' = current /\ output' = output /\ tidy' = tidy
  BY DEF ClientSteps, SendMessage, WriteStray, CloseInput, handler
<1>2. PICK w \in Seq(Token) : Adds(w)
  BY SendAdds, StrayAdds, CloseAdds DEF ClientSteps, IInv
<1>3. input' = input \o w /\ (MessagePlaces(w) = {} \/ MessagePlaces(w) = {Len(w)})
  BY <1>2 DEF Adds
<1>4. input \in Seq(Token) /\ current \in Rpc!Message
  BY DEF IInv, TypeInv
<1>5. MessagesIn(input) \in Seq(Rpc!Message)
  BY <1>4, MessagesWritten
<1>6. Ahead \in Seq(Rpc!Message) /\ Ahead' = Ahead
  <2>1. <<current>> \in Seq(Rpc!Message) /\ <<>> \in Seq(Rpc!Message)
    BY <1>4
  <2> QED
    BY <1>1, <2>1 DEF Ahead, Busy
<1>7. Pending' = Ahead \o MessagesIn(input')
  BY <1>6 DEF Pending
<1>8. Sent' = Sent /\ Runs' = Runs
  BY <1>1 DEF Sent, Runs
<1>9. CASE MessagePlaces(w) = {}
  <2>1. MessagesIn(input') = MessagesIn(input)
    BY <1>3, <1>4, <1>9, MessagesWritten
  <2> QED
    BY <1>1, <1>7, <1>8, <2>1 DEF Promised, Outside, Pending
<1>10. CASE MessagePlaces(w) = {Len(w)}
  <2> DEFINE m == w[Len(w)].msg
             q == MessagesIn(input)
  <2>1. MessagesIn(input') = Append(q, m)
    BY <1>3, <1>4, <1>10, MessagesWritten
  <2>2. m \in Rpc!Message
    <3>1. Len(w) \in 1 .. Len(w)
      BY <1>10 DEF MessagePlaces
    <3>2. w[Len(w)] \in Token
      BY <3>1, ElementOfSeq
    <3> QED
      BY <3>2, TokenTypes
  <2> HIDE DEF m, q
  <2>3. q \in Seq(Rpc!Message) /\ Pending = Ahead \o q
    BY <1>5 DEF q, Pending
  <2>4. /\ Append(q, m) = q \o <<m>> /\ <<m>> \in Seq(Rpc!Message)
        /\ Pending \in Seq(Rpc!Message)
    BY <1>6, <2>2, <2>3, AppendIsConcat, ConcatProperties
  <2>5. Append(Pending, m) = Pending \o <<m>>
    BY <2>2, <2>4, AppendIsConcat
  <2>6. Pending \o <<m>> = Ahead \o (q \o <<m>>)
    BY <1>6, <2>3, <2>4, ConcatAssociative
  <2>7. Pending' = Append(Pending, m)
    BY <1>7, <2>1, <2>4, <2>5, <2>6
  <2> QED
    BY <1>1, <1>8, <2>2, <2>4, <2>7, SubmitPromised
<1> QED
  BY <1>3, <1>9, <1>10

(* A read that takes no message changes nothing that is seen from outside, *)
(* or complains of what only an untidy client writes.                      *)
LEMMA ReadPromised ==
  ASSUME IInv, Tidy,
         \/ SkipBlank \/ ReadWord \/ BeginHeaders
         \/ ReadHeader \/ BadHeader \/ EndHeaders
  PROVE  Promised
<1>1. /\ input # <<>> /\ input' = Tail(input) /\ pc \in {"read", "headers"}
      /\ pc' \in {"read", "headers", "body"} /\ tidy' = tidy
  BY DEF SkipBlank, ReadWord, BeginHeaders, ReadHeader, BadHeader, EndHeaders,
         ParseError, client
<1>2. /\ input \in Seq(Token) /\ input' \in Seq(Token) /\ current \in Rpc!Message
      /\ Head(input) \in Token /\ framing \in Framing /\ (tidy => Tidily(input))
  BY <1>1, TakenFrom DEF IInv, TypeInv, Tidy
<1>3. Pending = MessagesIn(input) /\ Pending' = MessagesIn(input')
  <2>1. ~ Busy /\ ~ Busy'
    BY <1>1 DEF Busy
  <2>2. Ahead = <<>> /\ Ahead' = <<>>
    BY <2>1 DEF Ahead
  <2>3. /\ <<>> \o MessagesIn(input) = MessagesIn(input)
        /\ <<>> \o MessagesIn(input') = MessagesIn(input')
    BY <1>2, Queued
  <2> QED
    BY <2>2, <2>3 DEF Pending
<1>4. Runs /\ Runs'
  BY <1>1 DEF Runs
<1>5. /\ Head(input).kind \notin {"json", "body"} => Pending' = Pending
      /\ Head(input).kind \in {"json", "body"} =>
           Pending # <<>> /\ Pending' = Tail(Pending)
  <2>1. /\ MessagesIn(input') \in Seq(Rpc!Message)
        /\ Head(input).kind \notin {"json", "body"} => MessagesIn(input') = MessagesIn(input)
        /\ Head(input).kind \in {"json", "body"} =>
             MessagesIn(input) = <<Head(input).msg>> \o MessagesIn(input')
    BY <1>1, <1>2, MessagesRead
  <2>2. Head(input).msg \in Rpc!Message
    BY <1>2, TokenTypes
  <2>3. /\ <<Head(input).msg>> \o MessagesIn(input') # <<>>
        /\ Tail(<<Head(input).msg>> \o MessagesIn(input')) = MessagesIn(input')
    BY <1>2, <2>2, Queued
  <2> QED
    BY <1>3, <2>1, <2>3
<1>6. ASSUME output' = output PROVE Sent' = Sent
  BY <1>6 DEF Sent
<1>7. ASSUME NEW f \in Framing,
             output' = Append(output, [framing |-> f, answer |-> <<Rpc!NullError>>])
      PROVE  Sent' = Append(Sent, <<Rpc!NullError>>)
  <2>1. <<Rpc!NullError>> \in Seq(Rpc!Response)
    BY ServerAssumption DEF Rpc!NullError, Rpc!Response, Rpc!Id
  <2> QED
    BY <1>7, <2>1, SentMore DEF IInv
<1>8. CASE SkipBlank \/ BeginHeaders
  <2>1. output' = output /\ Head(input).kind \in {"blank", "length", "header"}
    BY <1>8 DEF SkipBlank, BeginHeaders
  <2> QED
    BY <1>1, <1>4, <1>5, <1>6, <2>1 DEF Promised, Outside
<1>9. CASE ReadWord
  <2>1. /\ Head(input).kind = "word" /\ "legacy" \in Framing
        /\ output' = Append(output, [framing |-> "legacy", answer |-> <<Rpc!NullError>>])
    BY <1>9 DEF ReadWord, ParseError, Framing
  <2>2. ~ tidy
    BY <1>1, <1>2, <2>1, TidyTail
  <2> QED
    BY <1>1, <1>4, <1>5, <1>7, <2>1, <2>2, ComplainPromised
<1>10. CASE ReadHeader
  <2>1. /\ output' = output /\ pc = "headers"
        /\ Head(input).kind \in {"length", "header", "json"}
    BY <1>10 DEF ReadHeader, HasColon
  <2>2. CASE Head(input).kind # "json"
    BY <1>1, <1>4, <1>5, <1>6, <2>1, <2>2 DEF Promised, Outside
  <2>3. CASE Head(input).kind = "json"
    <3>1. ~ tidy
      BY <1>1, <2>1, <2>3, HeadersOnly
    <3> QED
      BY <1>1, <1>4, <1>5, <1>6, <2>1, <2>3, <3>1, LosePromised
  <2> QED
    BY <2>2, <2>3
<1>11. CASE BadHeader
  <2>1. /\ output' = Append(output, [framing |-> framing, answer |-> <<Rpc!NullError>>])
        /\ pc = "headers" /\ Head(input).kind \notin {"length", "header", "blank"}
    BY <1>11 DEF BadHeader, ParseError, HasColon
  <2>2. ~ tidy
    BY <1>1, <2>1, HeadersOnly
  <2> QED
    BY <1>1, <1>2, <1>4, <1>5, <1>7, <2>1, <2>2, ComplainPromised
<1>12. CASE EndHeaders
  <2>1. pc = "headers" /\ Head(input).kind = "blank"
    BY <1>12 DEF EndHeaders
  <2>2. CASE gotLength
    <3>1. output' = output
      BY <1>12, <2>2 DEF EndHeaders
    <3> QED
      BY <1>1, <1>4, <1>5, <1>6, <2>1, <3>1 DEF Promised, Outside
  <2>3. CASE ~ gotLength
    <3>1. output' = Append(output, [framing |-> framing, answer |-> <<Rpc!NullError>>])
      BY <1>12, <2>3 DEF EndHeaders, ParseError
    <3>2. ~ tidy
      BY <1>1, <2>1, <2>3, HeadersOnly
    <3> QED
      BY <1>1, <1>2, <1>4, <1>5, <1>7, <2>1, <3>1, <3>2, ComplainPromised
  <2> QED
    BY <2>2, <2>3
<1> QED
  BY <1>8, <1>9, <1>10, <1>11, <1>12

LEMMA ServePromised ==
  ASSUME IInv, Halfway, ReadLegacy \/ ReadBody \/ HandleRequest \/ Reply
  PROVE  Promised
<1>1. /\ input \in Seq(Token) /\ current \in Rpc!Message /\ framing \in Framing
      /\ done \in Seq(Rpc!Response)
  BY DEF IInv, TypeInv
<1>2. CASE ReadLegacy \/ ReadBody
  <2>1. /\ input # <<>> /\ input' = Tail(input) /\ pc \in {"read", "body"} /\ pc' = "handle"
        /\ current' = Head(input).msg /\ output' = output /\ tidy' = tidy
    BY <1>2 DEF ReadLegacy, ReadBody, Receive, client
  <2>2. /\ Head(input) \in Token /\ input' \in Seq(Token) /\ Head(input) = input[1]
    BY <1>1, <2>1, TakenFrom
  <2>3. Head(input).kind \in {"json", "body"}
    <3>1. CASE ReadLegacy
      BY <3>1 DEF ReadLegacy
    <3>2. CASE ReadBody
      BY <2>1, <2>2, <3>2 DEF ReadBody, IInv, Framed
    <3> QED
      BY <1>2, <3>1, <3>2
  <2>4. MessagesIn(input) = <<Head(input).msg>> \o MessagesIn(input')
    BY <1>1, <2>1, <2>3, MessagesRead
  <2>5. ~ Busy /\ Busy'
    BY <2>1 DEF Busy
  <2>6. Ahead = <<>> /\ Ahead' = <<Head(input).msg>>
    BY <2>1, <2>5 DEF Ahead
  <2>7. <<>> \o MessagesIn(input) = MessagesIn(input)
    BY <1>1, Queued
  <2>8. Pending' = Pending
    BY <2>4, <2>6, <2>7 DEF Pending
  <2>9. Sent' = Sent /\ Runs' = Runs
    BY <2>1 DEF Sent, Runs
  <2> QED
    BY <2>1, <2>8, <2>9 DEF Promised, Outside
<1>3. CASE HandleRequest
  <2>1. UNCHANGED <<pc, input, current, output, tidy>>
    BY <1>3 DEF HandleRequest, client
  <2> QED
    BY <2>1 DEF Promised, Outside, Pending, Ahead, Busy, Sent, Runs
<1>4. CASE Reply
  <2> DEFINE a == IF current.kind \in {"invalid", "garbage"} THEN <<Rpc!NullError>> ELSE done
  <2>1. /\ pc = "handle" /\ pc' = "read" /\ todo = <<>> /\ input' = input /\ tidy' = tidy
        /\ output' = IF a = <<>> THEN output
                     ELSE Append(output, [framing |-> framing, answer |-> a])
    BY <1>4 DEF Reply, client
  <2>2. Busy /\ ~ Busy'
    BY <2>1 DEF Busy
  <2>3. /\ Pending = <<current>> \o MessagesIn(input)
        /\ Pending' = <<>> \o MessagesIn(input)
    <3>1. Ahead = <<current>> /\ Ahead' = <<>>
      BY <2>2 DEF Ahead
    <3> QED
      BY <2>1, <3>1 DEF Pending
  <2>4. Pending # <<>> /\ Head(Pending) = current /\ Pending' = Tail(Pending)
    BY <1>1, <2>3, Queued
  <2>5. a \in Seq(Rpc!Response) /\ a \in Rpc!Answers(current)
    <3>1. CASE current.kind \in {"invalid", "garbage"}
      <4>1. a = <<Rpc!NullError>>
        BY <3>1
      <4>2. Rpc!NullError \in Rpc!Response
        BY ServerAssumption DEF Rpc!NullError, Rpc!Response, Rpc!Id
      <4>3. <<Rpc!NullError>> \in Seq(Rpc!Response)
        BY <4>2
      <4>4. Rpc!Answers(current) = {<<Rpc!NullError>>}
        BY <3>1 DEF Rpc!Answers
      <4> QED
        BY <4>1, <4>3, <4>4
    <3>2. CASE current.kind \notin {"invalid", "garbage"}
      <4>1. a = done
        BY <3>2
      <4>2. PICK p \in Nat : /\ Remaining(<<>>, current.reqs, p)
                             /\ AnsweredUpTo(done, current.reqs, p)
        BY <2>1 DEF Halfway
      <4> QED
        BY <1>1, <3>2, <4>1, <4>2, HandlingEnds
    <3> QED
      BY <3>1, <3>2
  <2> HIDE DEF a
  <2>6. Sent' = IF a = <<>> THEN Sent ELSE Append(Sent, a)
    <3>1. CASE a = <<>>
      BY <2>1, <3>1 DEF Sent
    <3>2. CASE a # <<>>
      BY <1>1, <2>1, <2>5, <3>2, SentMore DEF IInv
    <3> QED
      BY <3>1, <3>2
  <2>7. Runs /\ Runs' = Runs
    BY <2>1 DEF Runs
  <2> QED
    BY <2>1, <2>4, <2>5, <2>6, <2>7, ConsumePromised
<1> QED
  BY <1>2, <1>3, <1>4

LEMMA EndPromised ==
  ASSUME ReachEnd \/ Crash \/ UNCHANGED vars
  PROVE  Promised
<1>1. CASE ReachEnd \/ Crash
  <2>1. /\ UNCHANGED <<input, current, output, tidy>>
        /\ Runs /\ ~ Runs' /\ Busy' = Busy
    BY <1>1 DEF ReachEnd, Crash, Runs, Busy, client, handler
  <2>2. UNCHANGED <<Pending, Sent, tidy>>
    BY <2>1 DEF Pending, Ahead, Sent
  <2> QED
    BY <2>1, <2>2, StopPromised
<1>2. CASE UNCHANGED vars
  BY <1>2 DEF vars, client, handler, Promised, Outside, Pending, Ahead, Busy, Sent, Runs
<1> QED
  BY <1>1, <1>2

LEMMA InitPromised ==
  ASSUME Init
  PROVE  Tidy /\ Halfway /\ Rpc!Init
<1>1. /\ tidy \in BOOLEAN /\ input = <<>> /\ pc = "read" /\ output = <<>>
  BY DEF Init
<1>2. Tidy
  BY <1>1 DEF Tidy, Tidily, Fresh
<1>3. Halfway
  BY <1>1 DEF Halfway
<1>4. MessagesIn(<<>>) = <<>>
  <2> DEFINE f == [i \in 1 .. 0 |-> 0]
  <2>1. MessagePlaces(<<>>) = {} /\ <<>> \in Seq(Token)
    BY DEF MessagePlaces
  <2>2. Order(f, 0, {})
    BY DEF Order
  <2> HIDE DEF f
  <2>3. MessagesIn(<<>>) \in Seq(Rpc!Message) /\ Len(MessagesIn(<<>>)) = 0
    BY <2>1, <2>2, Listed
  <2> QED
    BY <2>3, EmptySeq
<1>5. Pending = <<>>
  <2>1. Ahead = <<>>
    BY <1>1 DEF Ahead, Busy
  <2> QED
    BY <1>1, <1>4, <2>1 DEF Pending
<1>6. Sent = <<>>
  BY <1>1 DEF Sent
<1>7. Runs = TRUE /\ (~ tidy) \in BOOLEAN
  BY <1>1 DEF Runs
<1>8. Rpc!Init
  BY <1>5, <1>6, <1>7 DEF Rpc!Init, Pending, Ahead, Sent, Runs
<1> QED
  BY <1>2, <1>3, <1>8

(* Seen from outside the server is the one of JsonRpc: messages are        *)
(* answered in the order sent, each once, as a whole and with its own ids, *)
(* notifications never; only input of other lines loses a message          *)
(* (run-mcp-server, handle-request).                                       *)
THEOREM KeepsPromise == Spec => Promise
<1>1. Init => Tidy /\ Halfway /\ Rpc!Init
  BY InitPromised
<1>2. IInv /\ Tidy /\ Halfway /\ [Next]_vars => Tidy' /\ Halfway'
  BY TidyKept, HalfwayKept
<1>3. IInv /\ Tidy /\ Halfway /\ [Next]_vars => [Rpc!Next]_(Rpc!vars)
  <2> SUFFICES ASSUME IInv, Tidy, Halfway, [Next]_vars PROVE [Rpc!Next]_(Rpc!vars)
    OBVIOUS
  <2>1. Promised
    BY ClientPromised, ReadPromised, ServePromised, EndPromised
       DEF Next, ServerStep, ClientSteps
  <2> QED
    BY <2>1 DEF Promised, Outside, Pending, Ahead, Sent, Runs, Rpc!vars
<1> QED
  BY <1>1, <1>2, <1>3, Invariant, PTL DEF Spec, Promise, Rpc!Spec
=============================================================================
