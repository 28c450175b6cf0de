----------------------- MODULE MaximaSubprocessProofs -----------------------
(***************************************************************************)
(* Proofs about MaximaSubprocess, for every value of its constants: the    *)
(* types, and that as long as expressions are plain the prompts keep the   *)
(* thread and Maxima in step: OwnAnswer and InStep.                        *)
(*                                                                         *)
(* The argument.  What the thread has read of a wait and what it may still *)
(* read, Stream, is at most the space that an earlier prompt left behind   *)
(* (Bare), while Maxima is working on it; and then that and one whole      *)
(* reply to this very wait (Reply).  A reply has its sights in its last    *)
(* three tokens, in its last two during the startup, so the wait is not    *)
(* over before the last token but one, and what remains is bare again.     *)
(* That the thread never waits in vain needs no plain expressions: once    *)
(* Maxima is at rest, what there is to read ends in a prompt, and a prompt *)
(* that has been read ends the wait (Wait).                                *)
(***************************************************************************)
EXTENDS MaximaSubprocess, FiniteSetTheorems, SequenceTheorems,
        WellFoundedInduction, TLAPS

(***************************************************************************)
(* The invariant                                                           *)
(***************************************************************************)

(* What the thread has read and may read of the wait under way.            *)
Stream == got \o stdout

(* The call whose statement Maxima works on in this wait, 0 in the startup.*)
Asker == IF phase = "result" THEN calls ELSE 0

(* Nothing, or the space a finished wait left in the pipe.                 *)
Bare(s) == Len(s) <= 1 /\ \A i \in 1 .. Len(s) : s[i].kind = "space"

(* Perhaps a space, then what Maxima prints for one plain statement of the *)
(* call c in phase p: the sights are near the end.                         *)
Reply(s, c, p) ==
  /\ Len(s) >= 2 /\ s[Len(s) - 1].kind = "label" /\ s[Len(s)].kind = "space"
  /\ \A i \in 1 .. Len(s) :
       /\ s[i].kind # "space" => s[i].call = c
       /\ s[i].kind = "label" => i = Len(s) - 1
       /\ s[i].kind = "paren" => p = "result" /\ i = Len(s) - 2
       /\ s[i].kind = "space" => i \in {1, Len(s)}

(* Maxima has nothing to do.                                               *)
AtRest == stdin = <<>> /\ asking = 0 /\ ~ booting

(* Maxima is starting, has one statement to evaluate, or asks a question.  *)
Working ==
  \/ phase = "banner" /\ booting /\ stdin = <<>> /\ asking = 0
  \/ /\ ~ booting /\ asking = 0 /\ Len(stdin) = 1
     /\ stdin[1].call = Asker /\ stdin[1].kind \in PlainKind
     /\ phase # "result" => stdin[1].kind = "silent"
  \/ ~ booting /\ phase = "result" /\ stdin = <<>> /\ asking = calls

(* A wait is not over, because Maxima is working or has died, or because   *)
(* not all of its reply has been read.                                     *)
Waiting ==
  pc = "read" =>
    /\ ~ Seen(got)
    /\ \/ Bare(Stream) /\ (alive => Working)
       \/ Reply(Stream, Asker, phase) /\ AtRest

(* Outside a wait nothing is under way.                                    *)
Resting == pc # "read" /\ alive => AtRest /\ Bare(stdout)

(* A dead process does nothing, and the first one is started once.         *)
Dead == ~ alive => AtRest
Unstarted == ~ started => ~ alive /\ stdout = <<>> /\ pc \in {"idle", "ensure"}

(* The expression of the call under way is one plain statement of it.      *)
InCall ==
  /\ pc \in {"idle", "ensure"} => phase = "result"
  /\ pc = "write" => phase # "banner"
  /\ pc # "idle" => /\ calls # 0 /\ Len(line) = 1
                    /\ line[1].call = calls /\ line[1].kind \in PlainKind

PlainInv == plain => Waiting /\ Resting /\ InCall /\ OwnAnswer

IInv == TypeOK /\ Dead /\ Unstarted /\ PlainInv

(***************************************************************************)
(* Naturals, sets and sights                                               *)
(***************************************************************************)

(* A nonempty set of naturals has a least element.                         *)
LEMMA LeastNat ==
  ASSUME NEW T \in SUBSET Nat, T # {}
  PROVE  \E m \in T : \A k \in T : m <= k
<1> DEFINE Less == {ss \in Nat \X Nat : ss[1] < ss[2]}
<1>1. IsWellFoundedOn(Less, Nat)
  BY NatLessThanWellFounded DEF OpToRel
<1>2. \A k, m \in Nat : k < m => <<k, m>> \in Less
  OBVIOUS
<1> HIDE DEF Less
<1>3. PICK m \in T : \A k \in T : ~ (<<k, m>> \in Less)
  BY <1>1, WFMin
<1>4. \A k \in T : k \in Nat /\ m \in Nat /\ ~ (k < m)
  BY <1>2, <1>3
<1>5. \A k \in T : m <= k
  BY <1>4
<1> QED
  BY <1>5

(* A nonempty set of positions has a last one.                             *)
LEMMA LastPosition ==
  ASSUME NEW n \in Nat, NEW S \in SUBSET (1 .. n), S # {}
  PROVE  \E m \in S : \A k \in S : k <= m
<1> DEFINE T == {j \in 0 .. n : n - j \in S}
<1>1. \A k \in S : k \in Nat /\ n - k \in T /\ n - (n - k) = k
  OBVIOUS
<1>2. T \in SUBSET Nat /\ T # {}
  <2>1. T \in SUBSET Nat
    OBVIOUS
  <2>2. PICK k \in S : TRUE
    OBVIOUS
  <2> QED
    BY <1>1, <2>1, <2>2
<1>3. PICK d \in T : \A e \in T : d <= e
  BY <1>2, LeastNat
<1>4. n - d \in S /\ d \in Nat
  OBVIOUS
<1>5. ASSUME NEW k \in S PROVE k <= n - d
  BY <1>1, <1>3, <1>4
<1> QED
  BY <1>4, <1>5

(* A text without a sight has seen no prompt.                              *)
LEMMA NoSight ==
  ASSUME NEW t, \A i \in DOMAIN t : ~ Sight(t, i)
  PROVE  Cardinality({i \in DOMAIN t : Sight(t, i)}) = 0
<1>1. {i \in DOMAIN t : Sight(t, i)} = {}
  OBVIOUS
<1> QED
  BY <1>1, FS_EmptySet

(* If no sight comes before n, nor at n in the startup, then the wait is   *)
(* not over at n.                                                          *)
LEMMA SeenLate ==
  ASSUME NEW t, NEW n \in Nat, Seen(t), DOMAIN t \subseteq Nat,
         \A i \in DOMAIN t : Sight(t, i) => i >= n /\ (phase # "result" => i # n)
  PROVE  \E i \in DOMAIN t : Sight(t, i) /\ i > n
<1> DEFINE S == {i \in DOMAIN t : Sight(t, i)}
<1>1. SUFFICES ASSUME S \subseteq {n}, phase # "result" => S = {}
               PROVE  FALSE
  OBVIOUS
<1>2. IsFiniteSet({n}) /\ Cardinality({n}) = 1
  BY FS_Singleton
<1>3. Cardinality(S) <= 1 /\ Cardinality(S) \in Nat
  BY <1>1, <1>2, FS_Subset, FS_CardinalityType
<1>4. phase # "result" => Cardinality(S) = 0
  BY <1>1, FS_EmptySet
<1> QED
  BY <1>3, <1>4 DEF Seen

(***************************************************************************)
(* Types                                                                   *)
(***************************************************************************)

(* What is printed for a call are tokens of it.                            *)
LEMMA PrintedTokens ==
  ASSUME NEW s \in Seq(TokenKind), NEW c \in 0 .. MaxCalls
  PROVE  /\ Printed(s, c) \in Seq(Token) /\ Len(Printed(s, c)) = Len(s)
         /\ \A i \in 1 .. Len(s) : Printed(s, c)[i] = [kind |-> s[i], call |-> c]
<1>1. s \in [1 .. Len(s) -> TokenKind] /\ Len(s) \in Nat
  BY LenProperties
<1>2. Printed(s, c) \in [1 .. Len(s) -> Token]
  BY <1>1 DEF Printed, Token
<1>3. Printed(s, c) \in Seq(Token)
  BY <1>1, <1>2, SeqDef
<1>4. Len(Printed(s, c)) = Len(s)
  BY <1>1, <1>2, <1>3, LenProperties
<1> QED
  BY <1>1, <1>3, <1>4 DEF Printed

(* What a statement makes Maxima print.                                    *)
LEMMA PrintedTypes ==
  ASSUME NEW kind \in StatementKind \ {"ask"}, NEW c \in 0 .. MaxCalls
  PROVE  Printed(Text(kind) \o Prompt, c) \in Seq(Token)
<1>1. Text(kind) \in Seq(TokenKind)
  <2>1. {"value", "alarm", "error", "paren"} \subseteq TokenKind
    BY DEF TokenKind
  <2>2. CASE kind = "silent"
    BY <2>2 DEF Text
  <2>3. CASE kind = "unit"
    BY <2>1, <2>3 DEF Text
  <2>4. CASE kind = "complex"
    BY <2>1, <2>4 DEF Text
  <2>5. CASE kind \in {"value", "alarm", "error"}
    <3>1. Text(kind) = <<kind>> /\ kind \in TokenKind
      BY <2>1, <2>5 DEF Text
    <3> QED
      BY <3>1
  <2> QED
    BY <2>2, <2>3, <2>4, <2>5 DEF StatementKind, PlainKind
<1>2. Prompt \in Seq(TokenKind)
  BY DEF Prompt, TokenKind
<1>3. Text(kind) \o Prompt \in Seq(TokenKind)
  BY <1>1, <1>2, ConcatProperties
<1> QED
  BY <1>3, PrintedTokens

(* A result comes from a piece of the text, or from nothing, of this call. *)
LEMMA ResultFrom ==
  ASSUME NEW tokens \in Seq(Token), Result(tokens)
  PROVE  /\ pc' = "idle" /\ phase' = "result" /\ line' = <<>> /\ got' = <<>>
         /\ answer' = [call |-> calls', from |-> answer'.from, err |-> answer'.err]
         /\ answer'.err \in BOOLEAN
         /\ \/ answer'.from = calls
            \/ \E i \in 1 .. Len(tokens) :
                  tokens[i].kind # "space" /\ answer'.from = tokens[i].call
<1> DEFINE values == {i \in DOMAIN tokens : tokens[i].kind \in {"value", "alarm"}}
           pieces == {i \in DOMAIN tokens : tokens[i].kind # "space"}
           last(s) == CHOOSE i \in s : \A j \in s : j <= i
<1>1. DOMAIN tokens = 1 .. Len(tokens) /\ Len(tokens) \in Nat
  BY LenProperties
<1>2. \A s \in SUBSET (1 .. Len(tokens)) : s # {} => last(s) \in s
  <2>1. ASSUME NEW s \in SUBSET (1 .. Len(tokens)), s # {}
        PROVE  \E i \in s : \A j \in s : j <= i
    BY <1>1, <2>1, LastPosition
  <2> QED
    BY <2>1
<1>3. values \subseteq pieces /\ pieces \in SUBSET (1 .. Len(tokens))
      /\ values \in SUBSET (1 .. Len(tokens))
  BY <1>1
<1>4. CASE values # {}
  <2>1. last(values) \in values
    BY <1>2, <1>3, <1>4
  <2>2. Return(tokens[last(values)].call, tokens[last(values)].kind = "alarm")
    BY <1>4 DEF Result
  <2> HIDE DEF last
  <2> QED
    BY <1>3, <2>1, <2>2 DEF Return
<1>5. CASE values = {}
  <2>1. Return(IF pieces = {} THEN calls ELSE tokens[last(pieces)].call,
               \E i \in pieces : tokens[i].kind = "error")
    BY <1>5 DEF Result
  <2>2. pieces # {} => last(pieces) \in pieces
    BY <1>2, <1>3
  <2> HIDE DEF last
  <2> QED
    BY <1>3, <2>1, <2>2 DEF Return
<1> QED
  BY <1>4, <1>5

(* The end of a call leaves the types right.                               *)
LEMMA ReturnTypes ==
  ASSUME calls' \in 0 .. MaxCalls, NEW from \in 0 .. MaxCalls, NEW err \in BOOLEAN,
         Return(from, err)
  PROVE  /\ pc' \in {"idle", "ensure", "write", "read"} /\ phase' \in Phase
         /\ line' \in Seq(Statement) /\ got' \in Seq(Token)
         /\ answer' \in [call : 0 .. MaxCalls, from : 0 .. MaxCalls, err : BOOLEAN]
  BY DEF Return, Phase

(* So does the end of a wait.                                              *)
LEMMA FinishTypes ==
  ASSUME TypeOK, pc = "read", NEW tokens \in Seq(Token), Finish(tokens)
  PROVE  /\ calls' = calls
         /\ pc' \in {"idle", "ensure", "write", "read"} /\ phase' \in Phase
         /\ line' \in Seq(Statement) /\ got' \in Seq(Token)
         /\ answer' \in [call : 0 .. MaxCalls, from : 0 .. MaxCalls, err : BOOLEAN]
<1>1. calls' = calls /\ calls \in 0 .. MaxCalls
  BY DEF Finish, TypeOK
<1>2. CASE phase = "result"
  <2>1. Result(tokens)
    BY <1>2 DEF Finish
  <2>2. ASSUME NEW i \in 1 .. Len(tokens) PROVE tokens[i].call \in 0 .. MaxCalls
    <3>1. tokens[i] \in Token
      BY ElementOfSeq
    <3> QED
      BY <3>1 DEF Token
  <2>3. answer'.from \in 0 .. MaxCalls
    BY <1>1, <2>1, <2>2, ResultFrom
  <2>4. answer' = [call |-> calls', from |-> answer'.from, err |-> answer'.err]
        /\ answer'.err \in BOOLEAN
    BY <2>1, ResultFrom
  <2>5. answer' \in [call : 0 .. MaxCalls, from : 0 .. MaxCalls, err : BOOLEAN]
    BY <1>1, <2>3, <2>4
  <2>6. pc' = "idle" /\ phase' = "result" /\ line' = <<>> /\ got' = <<>>
    BY <2>1, ResultFrom
  <2> QED
    BY <1>1, <2>5, <2>6 DEF Phase
<1>3. CASE phase # "result"
  BY <1>1, <1>3 DEF Finish, TypeOK, After, Phase
<1> QED
  BY <1>2, <1>3

LEMMA TypeStep ==
  ASSUME TypeOK, [Next]_vars
  PROVE  TypeOK'
<1> USE SubprocessAssumption
<1>1. CASE Call
  <2>1. calls + 1 \in 0 .. MaxCalls /\ calls' = calls + 1
    BY <1>1 DEF Call, TypeOK
  <2>2. CASE Return(calls + 1, FALSE)
    <3>1. /\ pc' \in {"idle", "ensure", "write", "read"} /\ phase' \in Phase
          /\ line' \in Seq(Statement) /\ got' \in Seq(Token)
          /\ answer' \in [call : 0 .. MaxCalls, from : 0 .. MaxCalls, err : BOOLEAN]
      BY <2>1, <2>2, ReturnTypes
    <3> QED
      BY <1>1, <2>1, <3>1 DEF Call, TypeOK, maxima
  <2>3. ASSUME NEW n \in 1 .. IF plain THEN 1 ELSE MaxStatements,
               line' \in [1 .. n -> [kind : IF plain THEN PlainKind ELSE StatementKind,
                                     call : {calls + 1}]],
               pc' = "ensure", UNCHANGED <<phase, got, answer>>
        PROVE  TypeOK'
    <3>1. [kind : IF plain THEN PlainKind ELSE StatementKind, call : {calls + 1}]
            \subseteq Statement
      BY <2>1 DEF Statement, StatementKind
    <3>2. line' \in [1 .. n -> Statement] /\ n \in Nat
      BY <2>3, <3>1
    <3>3. line' \in Seq(Statement)
      BY <3>2, SeqDef
    <3> QED
      BY <1>1, <2>1, <2>3, <3>3 DEF Call, TypeOK, maxima
  <2> QED
    BY <1>1, <2>2, <2>3 DEF Call
<1>2. CASE Launch
  BY <1>2 DEF Launch, TypeOK, Phase
<1>3. CASE LaunchFails \/ WriteFails
  <2>1. calls' = calls /\ Return(calls, TRUE) /\ calls \in 0 .. MaxCalls
    BY <1>3 DEF LaunchFails, WriteFails, TypeOK
  <2>2. /\ pc' \in {"idle", "ensure", "write", "read"} /\ phase' \in Phase
        /\ line' \in Seq(Statement) /\ got' \in Seq(Token)
        /\ answer' \in [call : 0 .. MaxCalls, from : 0 .. MaxCalls, err : BOOLEAN]
    BY <2>1, ReturnTypes
  <2>3. UNCHANGED <<plain, started, alive, stdin, stdout, asking, booting>>
    BY <1>3 DEF LaunchFails, WriteFails, maxima
  <2> QED
    BY <2>1, <2>2, <2>3 DEF TypeOK
<1>4. CASE KeepProcess
  BY <1>4 DEF KeepProcess, TypeOK, maxima, Phase
<1>5. CASE Write
  <2>1. Configuration \in Seq(Statement)
    <3>1. [kind |-> "silent", call |-> 0] \in Statement
      BY DEF Statement, StatementKind, PlainKind
    <3> QED
      BY <3>1 DEF Configuration
  <2>2. stdin' \in Seq(Statement)
    BY <1>5, <2>1, ConcatProperties DEF Write, TypeOK
  <2> QED
    BY <1>5, <2>2 DEF Write, TypeOK
<1>6. CASE ReadToken
  <2>1. Head(stdout) \in Token /\ stdout' \in Seq(Token)
    BY <1>6, HeadTailProperties DEF ReadToken, TypeOK
  <2>2. Append(got, Head(stdout)) \in Seq(Token)
    BY <2>1, AppendProperties DEF TypeOK
  <2>3. CASE Finish(Append(got, Head(stdout)))
    BY <1>6, <2>1, <2>2, <2>3, FinishTypes DEF ReadToken, TypeOK
  <2>4. CASE got' = Append(got, Head(stdout)) /\ UNCHANGED <<pc, phase, calls, line, answer>>
    BY <1>6, <2>1, <2>2, <2>4 DEF ReadToken, TypeOK
  <2> QED
    BY <1>6, <2>3, <2>4 DEF ReadToken
<1>7. CASE ReadEnd
  BY <1>7, FinishTypes DEF ReadEnd, TypeOK, maxima
<1>8. CASE Boot
  <2>1. Prompt \in Seq(TokenKind) /\ 0 \in 0 .. MaxCalls
    BY DEF Prompt, TokenKind
  <2>2. Printed(Prompt, 0) \in Seq(Token)
    BY <2>1, PrintedTokens
  <2>3. stdout' \in Seq(Token)
    BY <1>8, <2>2, ConcatProperties DEF Boot, TypeOK
  <2> QED
    BY <1>8, <2>3 DEF Boot, TypeOK, thread
<1>9. CASE Evaluate
  <2>1. Head(stdin) \in Statement /\ stdin' \in Seq(Statement)
    BY <1>9, HeadTailProperties DEF Evaluate, TypeOK
  <2>2. Head(stdin).kind \in StatementKind /\ Head(stdin).call \in 0 .. MaxCalls
    BY <2>1 DEF Statement
  <2>3. CASE Head(stdin).kind = "ask"
    BY <1>9, <2>1, <2>2, <2>3 DEF Evaluate, TypeOK, thread
  <2>4. CASE Head(stdin).kind # "ask"
    <3>1. Printed(Text(Head(stdin).kind) \o Prompt, Head(stdin).call) \in Seq(Token)
      BY <2>2, <2>4, PrintedTypes
    <3>2. stdout' = stdout \o Printed(Text(Head(stdin).kind) \o Prompt, Head(stdin).call)
          /\ UNCHANGED asking
      BY <1>9, <2>4 DEF Evaluate
    <3>3. stdout' \in Seq(Token)
      BY <3>1, <3>2, ConcatProperties DEF TypeOK
    <3> QED
      BY <1>9, <2>1, <3>2, <3>3 DEF Evaluate, TypeOK, thread
  <2> QED
    BY <2>3, <2>4
<1>10. CASE TakeAnswer
  <2>1. stdin' \in Seq(Statement) /\ asking \in 0 .. MaxCalls
    BY <1>10, HeadTailProperties DEF TakeAnswer, TypeOK
  <2>2. "value" \in StatementKind \ {"ask"}
    BY DEF StatementKind, PlainKind
  <2>3. Printed(Text("value") \o Prompt, asking) \in Seq(Token)
    BY <2>1, <2>2, PrintedTypes
  <2>4. stdout' \in Seq(Token)
    BY <1>10, <2>3, ConcatProperties DEF TakeAnswer, TypeOK
  <2> QED
    BY <1>10, <2>1, <2>4 DEF TakeAnswer, TypeOK, thread
<1>11. CASE Die
  <2>1. 0 \in 0 .. MaxCalls /\ <<>> \in Seq(Statement)
    OBVIOUS
  <2> QED
    BY <1>11, <2>1 DEF Die, TypeOK, thread
<1>12. CASE UNCHANGED vars
  BY <1>12 DEF vars, maxima, thread, TypeOK
<1> QED
  BY <1>1, <1>2, <1>3, <1>4, <1>5, <1>6, <1>7, <1>8, <1>9, <1>10, <1>11, <1>12
     DEF Next, ServerStep, MaximaStep

LEMMA TypeInit == Init => TypeOK
<1>1. 0 \in 0 .. MaxCalls
  BY SubprocessAssumption
<1>2. NoAnswer \in [call : 0 .. MaxCalls, from : 0 .. MaxCalls, err : BOOLEAN]
  BY <1>1 DEF NoAnswer
<1>3. <<>> \in Seq(Statement) /\ <<>> \in Seq(Token)
  OBVIOUS
<1> QED
  BY <1>1, <1>2, <1>3 DEF Init, TypeOK, Phase

(* Types are kept, whatever is printed, asked, or read for a prompt.       *)
THEOREM TypeCorrect == Spec => []TypeOK
  BY TypeInit, TypeStep, PTL DEF Spec

(***************************************************************************)
(* What is read and printed                                                *)
(***************************************************************************)

(* Reading a token moves it within Stream.                                 *)
LEMMA ReadStream ==
  ASSUME NEW s \in Seq(Token), NEW t \in Seq(Token), t # <<>>
  PROVE  LET r == Append(s, Head(t)) IN
         /\ r \in Seq(Token) /\ Tail(t) \in Seq(Token) /\ s \o t \in Seq(Token)
         /\ r \o Tail(t) = s \o t
         /\ Len(s \o t) = Len(r) + Len(Tail(t))
         /\ \A i \in 1 .. Len(r) : r[i] = (s \o t)[i]
         /\ \A i \in 1 .. Len(Tail(t)) : Tail(t)[i] = (s \o t)[Len(r) + i]
<1> DEFINE r == Append(s, Head(t))
<1>1. /\ Head(t) \in Token /\ Tail(t) \in Seq(Token) /\ Len(Tail(t)) = Len(t) - 1
      /\ \A i \in 1 .. Len(Tail(t)) : Tail(t)[i] = t[i + 1]
  BY HeadTailProperties
<1>2. /\ r \in Seq(Token) /\ Len(r) = Len(s) + 1
      /\ \A i \in 1 .. Len(s) : r[i] = s[i]
      /\ r[Len(s) + 1] = Head(t)
  BY <1>1, AppendProperties
<1>3. Head(t) = t[1] /\ Len(t) \in Nat /\ Len(s) \in Nat /\ Len(t) >= 1
  BY LenProperties, EmptySeq
<1>4. /\ s \o t \in Seq(Token) /\ Len(s \o t) = Len(s) + Len(t)
      /\ \A i \in 1 .. Len(s) + Len(t) :
           (s \o t)[i] = IF i <= Len(s) THEN s[i] ELSE t[i - Len(s)]
  BY ConcatProperties
<1> HIDE DEF r
<1>5. /\ r \o Tail(t) \in Seq(Token) /\ Len(r \o Tail(t)) = Len(r) + Len(Tail(t))
      /\ \A i \in 1 .. Len(r) + Len(Tail(t)) :
           (r \o Tail(t))[i] = IF i <= Len(r) THEN r[i] ELSE Tail(t)[i - Len(r)]
  BY <1>1, <1>2, ConcatProperties
<1>6. Len(s \o t) = Len(r) + Len(Tail(t))
  BY <1>1, <1>2, <1>3, <1>4
<1>7. \A i \in 1 .. Len(r) : r[i] = (s \o t)[i]
  BY <1>2, <1>3, <1>4
<1>8. \A i \in 1 .. Len(Tail(t)) : Tail(t)[i] = (s \o t)[Len(r) + i]
  BY <1>1, <1>2, <1>3, <1>4
<1>9. \A i \in 1 .. Len(s \o t) : (r \o Tail(t))[i] = (s \o t)[i]
  <2>1. ASSUME NEW i \in 1 .. Len(s \o t), i <= Len(r)
        PROVE  (r \o Tail(t))[i] = (s \o t)[i]
    BY <1>2, <1>3, <1>5, <1>6, <1>7, <2>1
  <2>2. ASSUME NEW i \in 1 .. Len(s \o t), ~ (i <= Len(r))
        PROVE  (r \o Tail(t))[i] = (s \o t)[i]
    <3>1. i - Len(r) \in 1 .. Len(Tail(t)) /\ Len(r) + (i - Len(r)) = i
      BY <1>1, <1>2, <1>3, <1>6, <2>2
    <3>2. (s \o t)[i] = Tail(t)[i - Len(r)]
      BY <1>8, <3>1
    <3> QED
      BY <1>5, <1>6, <2>2, <3>2
  <2> QED
    BY <2>1, <2>2
<1>10. r \o Tail(t) = s \o t
  BY <1>4, <1>5, <1>6, <1>9, SeqEqual
<1> QED
  BY <1>1, <1>2, <1>4, <1>6, <1>7, <1>8, <1>10 DEF r

(* A leftover shows no prompt.                                             *)
LEMMA BareUnseen ==
  ASSUME NEW s \in Seq(Token), NEW t \in Seq(Token), Bare(s), Len(t) <= Len(s),
         \A i \in 1 .. Len(t) : t[i] = s[i]
  PROVE  Cardinality({i \in DOMAIN t : Sight(t, i)}) = 0
<1>1. DOMAIN t = 1 .. Len(t) /\ Len(t) \in Nat /\ Len(s) \in Nat
  BY LenProperties
<1>2. ASSUME NEW i \in DOMAIN t PROVE ~ Sight(t, i)
  <2>1. i = 1 /\ t[i].kind = "space"
    BY <1>1 DEF Bare
  <2> QED
    BY <2>1 DEF Sight
<1> QED
  BY <1>2, NoSight

(* When a prefix t of a reply ends a wait, the rest u is a leftover.       *)
LEMMA ReplyOver ==
  ASSUME NEW s \in Seq(Token), NEW t \in Seq(Token), NEW u \in Seq(Token), NEW c,
         Reply(s, c, phase), Seen(t), Len(s) = Len(t) + Len(u),
         \A i \in 1 .. Len(t) : t[i] = s[i],
         \A i \in 1 .. Len(u) : u[i] = s[Len(t) + i]
  PROVE  Bare(u)
<1> DEFINE n == Len(s)
<1>1. /\ DOMAIN t = 1 .. Len(t) /\ Len(t) \in Nat /\ Len(u) \in Nat /\ n \in Nat
      /\ n >= 2 /\ n - 2 \in Nat
  BY LenProperties DEF Reply
<1>2. ASSUME NEW i \in DOMAIN t, Sight(t, i)
      PROVE  i >= n - 2 /\ (phase # "result" => i # n - 2)
  <2>1. i \in 1 .. n /\ t[i] = s[i]
    BY <1>1
  <2>2. CASE t[i].kind \in {"paren", "label"}
    BY <1>1, <2>1, <2>2 DEF Reply
  <2>3. CASE i > 1 /\ t[i].kind = "space" /\ t[i - 1].kind = "label"
    BY <1>1, <2>1, <2>3 DEF Reply
  <2> QED
    BY <1>2, <2>2, <2>3 DEF Sight
<1>3. PICK i \in DOMAIN t : i > n - 2
  <2>1. DOMAIN t \subseteq Nat
    BY <1>1
  <2> DEFINE m == n - 2
  <2>2. m \in Nat /\ \A i \in DOMAIN t : Sight(t, i) => i >= m /\ (phase # "result" => i # m)
    BY <1>1, <1>2
  <2> HIDE DEF m
  <2>3. \E i \in DOMAIN t : Sight(t, i) /\ i > m
    BY <2>1, <2>2, SeenLate
  <2> QED
    BY <2>3 DEF m
<1>4. Len(u) <= 1
  BY <1>1, <1>3
<1>5. ASSUME NEW j \in 1 .. Len(u) PROVE u[j].kind = "space"
  <2>1. Len(t) + j = n
    BY <1>1, <1>4
  <2> QED
    BY <2>1 DEF Reply
<1> QED
  BY <1>4, <1>5 DEF Bare

(* What a plain statement prints, without the call.                        *)
LEMMA PlainText ==
  ASSUME NEW kind \in PlainKind \ {"ask"}
  PROVE  LET t == Text(kind) \o Prompt IN
         /\ t \in Seq(TokenKind) /\ Len(t) >= 2
         /\ t[Len(t) - 1] = "label" /\ t[Len(t)] = "space"
         /\ \A i \in 1 .. Len(t) - 2 :
              /\ t[i] \in {"value", "alarm", "error", "paren"}
              /\ t[i] = "paren" => kind # "silent" /\ i = Len(t) - 2
<1>1. /\ Prompt \in Seq(TokenKind) /\ Len(Prompt) = 2
      /\ Prompt[1] = "label" /\ Prompt[2] = "space"
  BY DEF Prompt, TokenKind
<1>2. /\ Text(kind) \in Seq(TokenKind) /\ Len(Text(kind)) \in Nat
      /\ \A i \in 1 .. Len(Text(kind)) :
           /\ Text(kind)[i] \in {"value", "alarm", "error", "paren"}
           /\ Text(kind)[i] = "paren" => kind # "silent" /\ i = Len(Text(kind))
  <2>1. {"value", "alarm", "error", "paren"} \subseteq TokenKind
    BY DEF TokenKind
  <2>2. CASE kind = "silent"
    BY <2>2 DEF Text
  <2>3. CASE kind = "unit"
    <3>1. Text(kind) = <<"value", "paren">>
      BY <2>3 DEF Text
    <3>2. Len(<<"value", "paren">>) = 2 /\ <<"value", "paren">> \in Seq(TokenKind)
      BY <2>1
    <3>3. \A i \in 1 .. 2 :
            <<"value", "paren">>[i] \in {"value", "paren"}
            /\ (<<"value", "paren">>[i] = "paren" => i = 2)
      OBVIOUS
    <3>4. kind # "silent"
      BY <2>3
    <3>5. Len(Text(kind)) = 2 /\ Text(kind) \in Seq(TokenKind)
      BY <3>1, <3>2
    <3>6. \A i \in 1 .. 2 : Text(kind)[i] \in {"value", "paren"}
                            /\ (Text(kind)[i] = "paren" => i = 2)
      BY <3>1, <3>3
    <3> QED
      BY <3>4, <3>5, <3>6
  <2>4. CASE kind \in {"value", "alarm", "error"}
    <3>1. Text(kind) = <<kind>> /\ kind \in TokenKind
      BY <2>1, <2>4 DEF Text
    <3> QED
      BY <2>4, <3>1
  <2> QED
    BY <2>2, <2>3, <2>4 DEF PlainKind
<1>3. /\ Text(kind) \o Prompt \in Seq(TokenKind)
      /\ Len(Text(kind) \o Prompt) = Len(Text(kind)) + 2
      /\ \A i \in 1 .. Len(Text(kind)) + 2 : (Text(kind) \o Prompt)[i] =
            IF i <= Len(Text(kind)) THEN Text(kind)[i] ELSE Prompt[i - Len(Text(kind))]
  BY <1>1, <1>2, ConcatProperties, SMTT(30), ZenonT(30)
<1> QED
  BY <1>1, <1>2, <1>3

(* A leftover and what a plain statement prints are a reply.               *)
LEMMA ReplyMade ==
  ASSUME NEW s \in Seq(Token), Bare(s), NEW p, NEW c \in 0 .. MaxCalls,
         NEW kind \in PlainKind \ {"ask"}, p # "result" => kind = "silent"
  PROVE  Reply(s \o Printed(Text(kind) \o Prompt, c), c, p)
<1> DEFINE t == Text(kind) \o Prompt
           u == Printed(t, c)
<1>1. /\ t \in Seq(TokenKind) /\ Len(t) >= 2
      /\ t[Len(t) - 1] = "label" /\ t[Len(t)] = "space"
      /\ \A i \in 1 .. Len(t) - 2 :
           /\ t[i] \in {"value", "alarm", "error", "paren"}
           /\ t[i] = "paren" => kind # "silent" /\ i = Len(t) - 2
  BY PlainText
<1> HIDE DEF t
<1>2. /\ u \in Seq(Token) /\ Len(u) = Len(t) /\ Len(t) \in Nat /\ Len(s) \in Nat
      /\ \A i \in 1 .. Len(t) : u[i] = [kind |-> t[i], call |-> c]
  BY <1>1, PrintedTokens, LenProperties
<1> HIDE DEF u
<1>3. /\ s \o u \in Seq(Token) /\ Len(s \o u) = Len(s) + Len(t)
      /\ \A i \in 1 .. Len(s) + Len(t) :
           (s \o u)[i] = IF i <= Len(s) THEN s[i] ELSE u[i - Len(s)]
  BY <1>2, ConcatProperties
<1>4. ASSUME NEW i \in 1 .. Len(s) PROVE i = 1 /\ (s \o u)[i].kind = "space"
  BY <1>2, <1>3 DEF Bare
<1>5. ASSUME NEW i \in Len(s) + 1 .. Len(s) + Len(t)
      PROVE  /\ i - Len(s) \in 1 .. Len(t)
             /\ (s \o u)[i].kind = t[i - Len(s)] /\ (s \o u)[i].call = c
  <2>1. /\ i - Len(s) \in 1 .. Len(t) /\ i \in 1 .. Len(s) + Len(t)
        /\ ~ (i <= Len(s))
    BY <1>2, <1>5
  <2>2. (s \o u)[i] = u[i - Len(s)]
    BY <1>3, <2>1
  <2>3. u[i - Len(s)] = [kind |-> t[i - Len(s)], call |-> c]
    BY <1>2, <2>1
  <2> QED
    BY <2>1, <2>2, <2>3
<1>6. Reply(s \o u, c, p)
  <2> DEFINE n == Len(s) + Len(t)
  <2>1. /\ Len(s \o u) >= 2
        /\ (s \o u)[Len(s \o u) - 1].kind = "label" /\ (s \o u)[Len(s \o u)].kind = "space"
    <3>1. /\ n - 1 \in Len(s) + 1 .. n /\ n \in Len(s) + 1 .. n /\ n >= 2
          /\ (n - 1) - Len(s) = Len(t) - 1 /\ n - Len(s) = Len(t)
      BY <1>1, <1>2
    <3>2. (s \o u)[n - 1].kind = t[Len(t) - 1] /\ (s \o u)[n].kind = t[Len(t)]
      <4>1. (s \o u)[n - 1].kind = t[(n - 1) - Len(s)] /\ (s \o u)[n].kind = t[n - Len(s)]
        BY <1>5, <3>1
      <4> QED
        BY <3>1, <4>1
    <3> QED
      BY <1>1, <1>3, <3>1, <3>2
  <2>2. ASSUME NEW i \in 1 .. Len(s \o u)
        PROVE  /\ (s \o u)[i].kind # "space" => (s \o u)[i].call = c
               /\ (s \o u)[i].kind = "label" => i = Len(s \o u) - 1
               /\ (s \o u)[i].kind = "paren" => p = "result" /\ i = Len(s \o u) - 2
               /\ (s \o u)[i].kind = "space" => i \in {1, Len(s \o u)}
    <3>1. CASE i <= Len(s)
      BY <1>2, <1>4, <3>1
    <3>2. CASE ~ (i <= Len(s))
      <4>1. i \in Len(s) + 1 .. Len(s) + Len(t)
        BY <1>2, <1>3, <3>2
      <4> DEFINE k == i - Len(s)
      <4>2. k \in 1 .. Len(t) /\ (s \o u)[i].kind = t[k] /\ (s \o u)[i].call = c
        BY <1>5, <4>1
      <4>3. /\ k = Len(t) - 1 <=> i = Len(s \o u) - 1
            /\ k = Len(t) - 2 <=> i = Len(s \o u) - 2
            /\ k = Len(t) <=> i = Len(s \o u)
        BY <1>2, <1>3, <4>1
      <4> HIDE DEF k
      <4>4. k \in 1 .. Len(t) - 2 \/ k = Len(t) - 1 \/ k = Len(t)
        BY <1>1, <1>2, <4>2
      <4>5. CASE k \in 1 .. Len(t) - 2
        <5>1. t[k] \in {"value", "alarm", "error", "paren"}
              /\ (t[k] = "paren" => kind # "silent" /\ k = Len(t) - 2)
          BY <1>1, <4>5
        <5> QED
          BY <4>2, <4>3, <5>1
      <4>6. CASE k = Len(t) - 1
        BY <1>1, <4>2, <4>3, <4>6
      <4>7. CASE k = Len(t)
        BY <1>1, <4>2, <4>3, <4>7
      <4> QED
        BY <4>4, <4>5, <4>6, <4>7
    <3> QED
      BY <3>1, <3>2
  <2> QED
    BY <2>1, <2>2 DEF Reply
<1> QED
  BY <1>6 DEF t, u

(* An empty text shows no prompt, an unchanged one shows what it did.      *)
LEMMA EmptyUnseen ==
  ASSUME got' = <<>>
  PROVE  ~ Seen(got)'
<1>1. DOMAIN <<>> = {}
  OBVIOUS
<1>2. Cardinality({i \in DOMAIN <<>> : Sight(<<>>, i)}) = 0
  BY <1>1, NoSight
<1> QED
  BY <1>2 DEF Seen

(***************************************************************************)
(* The invariant is inductive                                              *)
(***************************************************************************)

LEMMA LifeStep ==
  ASSUME Dead, Unstarted, [Next]_vars
  PROVE  Dead' /\ Unstarted'
<1> USE DEF Dead, Unstarted, AtRest
<1>1. CASE Call
  BY <1>1 DEF Call, Return, maxima
<1>2. CASE Launch \/ Write
  BY <1>2 DEF Launch, Write
<1>3. CASE LaunchFails \/ WriteFails \/ KeepProcess
  BY <1>3 DEF LaunchFails, WriteFails, KeepProcess, Return, maxima
<1>4. CASE ReadToken \/ ReadEnd
  BY <1>4 DEF ReadToken, ReadEnd, maxima
<1>5. CASE Boot \/ Evaluate \/ TakeAnswer \/ Die
  BY <1>5 DEF Boot, Evaluate, TakeAnswer, Die, thread
<1>6. CASE UNCHANGED vars
  BY <1>6 DEF vars, maxima, thread
<1> QED
  BY <1>1, <1>2, <1>3, <1>4, <1>5, <1>6 DEF Next, ServerStep, MaximaStep

(* A call that returns text of its own leaves the invariant as it was.     *)
LEMMA Returned ==
  ASSUME OwnAnswer, NEW err, Return(calls', err)
  PROVE  Waiting' /\ InCall' /\ OwnAnswer'
  BY DEF Return, Waiting, InCall, OwnAnswer

LEMMA CallStep ==
  ASSUME TypeOK, plain, PlainInv, Call
  PROVE  PlainInv'
<1>1. /\ pc = "idle" /\ phase = "result" /\ calls' = calls + 1 /\ calls \in Nat
      /\ OwnAnswer /\ Resting /\ UNCHANGED <<alive, stdin, stdout, asking, booting, plain>>
  BY DEF Call, TypeOK, PlainInv, InCall, maxima
<1>2. Resting'
  BY <1>1 DEF Resting, AtRest, Bare
<1>3. CASE Return(calls + 1, FALSE)
  <2>1. Return(calls', FALSE)
    BY <1>1, <1>3
  <2> QED
    BY <1>1, <1>2, <2>1, Returned DEF PlainInv
<1>4. ASSUME NEW n \in 1 .. IF plain THEN 1 ELSE MaxStatements,
             line' \in [1 .. n -> [kind : IF plain THEN PlainKind ELSE StatementKind,
                                   call : {calls + 1}]],
             pc' = "ensure", UNCHANGED <<phase, got, answer>>
      PROVE  PlainInv'
  <2>1. n = 1 /\ line' \in [1 .. 1 -> [kind : PlainKind, call : {calls + 1}]]
    BY <1>4
  <2>2. line' \in Seq([kind : PlainKind, call : {calls + 1}]) /\ Len(line') = 1
    <3>1. ASSUME NEW S, NEW f \in [1 .. 1 -> S] PROVE f \in Seq(S) /\ Len(f) = 1
      <4>1. f \in Seq(S) /\ DOMAIN f = 1 .. 1
        BY SeqDef
      <4> QED
        BY <4>1, LenProperties
    <3> QED
      BY <2>1, <3>1
  <2>3. line'[1] \in [kind : PlainKind, call : {calls + 1}]
    BY <2>1
  <2>4. InCall'
    BY <1>1, <1>4, <2>2, <2>3 DEF InCall
  <2>5. Waiting' /\ OwnAnswer'
    BY <1>1, <1>4 DEF Waiting, OwnAnswer
  <2> QED
    BY <1>2, <2>4, <2>5 DEF PlainInv
<1> QED
  BY <1>3, <1>4 DEF Call

LEMMA LaunchStep ==
  ASSUME TypeOK, plain, PlainInv, Dead, Unstarted, Launch
  PROVE  PlainInv'
<1>1. stdout' = <<>> /\ got' = <<>> /\ pc' = "read" /\ phase' = "banner"
      /\ booting' /\ stdin' = <<>> /\ asking' = 0 /\ plain' = plain
      /\ UNCHANGED <<calls, line, answer>>
  BY DEF Launch, Dead, Unstarted, AtRest
<1>2. Stream' = <<>>
  BY <1>1 DEF Stream
<1>3. Waiting'
  <2>1. ~ Seen(got)'
    BY <1>1, EmptyUnseen
  <2>2. Bare(Stream)'
    BY <1>2 DEF Bare
  <2> QED
    BY <1>1, <2>1, <2>2 DEF Waiting, Working
<1>4. Resting' /\ InCall' /\ OwnAnswer'
  BY <1>1 DEF Resting, InCall, OwnAnswer, PlainInv, Launch
<1> QED
  BY <1>3, <1>4 DEF PlainInv

LEMMA FailStep ==
  ASSUME TypeOK, plain, PlainInv, Unstarted, LaunchFails \/ WriteFails
  PROVE  PlainInv'
<1>1. ~ alive' /\ Return(calls', TRUE) /\ OwnAnswer
  <2>1. calls' = calls /\ Return(calls, TRUE) /\ alive' = alive
    BY DEF LaunchFails, WriteFails, maxima
  <2>2. ~ alive
    BY DEF LaunchFails, WriteFails, Unstarted
  <2> QED
    BY <2>1, <2>2 DEF PlainInv
<1>2. Resting'
  BY <1>1 DEF Resting
<1> QED
  BY <1>1, <1>2, Returned DEF PlainInv

LEMMA KeepStep ==
  ASSUME TypeOK, plain, PlainInv, KeepProcess
  PROVE  PlainInv'
<1>1. Resting'
  BY DEF KeepProcess, PlainInv, Resting, AtRest, Bare, maxima
<1>2. Waiting' /\ InCall' /\ OwnAnswer'
  BY DEF KeepProcess, PlainInv, Waiting, InCall, OwnAnswer
<1> QED
  BY <1>1, <1>2 DEF PlainInv

LEMMA WriteStep ==
  ASSUME TypeOK, plain, PlainInv, Write
  PROVE  PlainInv'
<1> DEFINE written == IF phase = "result" THEN line ELSE Configuration
<1>1. AtRest /\ Bare(stdout) /\ pc' = "read" /\ got' = <<>>
      /\ UNCHANGED <<plain, alive, stdout, asking, booting, phase, calls, line, answer>>
  BY DEF Write, PlainInv, Resting
<1>2. /\ written \in Seq(Statement) /\ Len(written) = 1 /\ written[1].call = Asker
      /\ written[1].kind \in PlainKind
      /\ phase # "result" => written[1].kind = "silent"
  <2>1. CASE phase = "result"
    BY <2>1 DEF TypeOK, PlainInv, InCall, Write, Asker
  <2>2. CASE phase # "result"
    <3>1. /\ Configuration \in Seq({[kind |-> "silent", call |-> 0]})
          /\ Len(Configuration) = 1
          /\ Configuration[1] = [kind |-> "silent", call |-> 0]
      BY DEF Configuration
    <3>2. [kind |-> "silent", call |-> 0] \in Statement /\ "silent" \in PlainKind
      BY SubprocessAssumption DEF Statement, StatementKind, PlainKind
    <3>3. Configuration \in Seq(Statement)
      BY <3>2 DEF Configuration
    <3> QED
      BY <2>2, <3>1, <3>2, <3>3 DEF Asker
  <2> QED
    BY <2>1, <2>2
<1>3. stdin' = <<>> \o written
  BY <1>1 DEF Write, AtRest
<1> HIDE DEF written
<1>4. stdin' = written
  BY <1>2, <1>3, ConcatEmptySeq
<1>5. Stream' = stdout
  <2>1. stdout \in Seq(Token)
    BY DEF TypeOK
  <2> QED
    BY <1>1, <2>1, ConcatEmptySeq DEF Stream
<1>6. Waiting'
  <2>1. ~ Seen(got)'
    BY <1>1, EmptyUnseen
  <2>2. Bare(Stream)'
    BY <1>1, <1>5 DEF Bare
  <2>3. Asker' = Asker
    BY <1>1 DEF Asker
  <2>4. Working'
    BY <1>1, <1>2, <1>4, <2>3 DEF Working, AtRest
  <2> QED
    BY <2>1, <2>2, <2>4 DEF Waiting
<1>7. Resting' /\ InCall' /\ OwnAnswer'
  BY <1>1 DEF Resting, InCall, OwnAnswer, PlainInv, Write
<1> QED
  BY <1>6, <1>7 DEF PlainInv

(* A wait that ends on its own reply, or on nothing, leads to the next     *)
(* phase or to an answer of its own.                                       *)
LEMMA FinishStep ==
  ASSUME TypeOK, plain, PlainInv, pc = "read", NEW tokens \in Seq(Token), Finish(tokens),
         \A i \in 1 .. Len(tokens) : tokens[i].kind # "space" => tokens[i].call = Asker
  PROVE  pc' # "read" /\ InCall' /\ OwnAnswer'
<1>1. CASE phase = "result"
  <2>1. Result(tokens) /\ calls' = calls /\ Asker = calls
    BY <1>1 DEF Finish, Asker
  <2>2. /\ pc' = "idle" /\ phase' = "result"
        /\ answer' = [call |-> calls', from |-> answer'.from, err |-> answer'.err]
        /\ \/ answer'.from = calls
           \/ \E i \in 1 .. Len(tokens) :
                 tokens[i].kind # "space" /\ answer'.from = tokens[i].call
    BY <2>1, ResultFrom
  <2>3. answer'.from = calls
    BY <2>1, <2>2
  <2>4. answer'.call = calls
    BY <2>1, <2>2
  <2> QED
    BY <2>2, <2>3, <2>4 DEF InCall, OwnAnswer
<1>2. CASE phase # "result"
  BY <1>2 DEF Finish, After, TypeOK, Phase, PlainInv, InCall, OwnAnswer
<1> QED
  BY <1>1, <1>2

LEMMA ReadTokenStep ==
  ASSUME TypeOK, plain, PlainInv, ReadToken
  PROVE  PlainInv'
<1> DEFINE tokens == Append(got, Head(stdout))
<1>1. /\ got \in Seq(Token) /\ stdout \in Seq(Token) /\ stdout # <<>> /\ pc = "read"
      /\ stdout' = Tail(stdout) /\ Waiting
      /\ UNCHANGED <<plain, alive, stdin, asking, booting>>
  BY DEF TypeOK, ReadToken, PlainInv
<1>2. /\ tokens \in Seq(Token) /\ Tail(stdout) \in Seq(Token) /\ Stream \in Seq(Token)
      /\ tokens \o Tail(stdout) = Stream
      /\ Len(Stream) = Len(tokens) + Len(Tail(stdout))
      /\ \A i \in 1 .. Len(tokens) : tokens[i] = Stream[i]
      /\ \A i \in 1 .. Len(Tail(stdout)) : Tail(stdout)[i] = Stream[Len(tokens) + i]
  BY <1>1, ReadStream DEF Stream
<1>3. IF Seen(tokens) THEN Finish(tokens)
      ELSE got' = tokens /\ UNCHANGED <<pc, phase, calls, line, answer>>
  BY DEF ReadToken
<1> HIDE DEF tokens
<1>4. CASE ~ Seen(tokens)
  <2>1. got' = tokens /\ UNCHANGED <<pc, phase, calls, line, answer>>
    BY <1>3, <1>4
  <2>2. Stream' = Stream /\ Asker' = Asker
    BY <1>1, <1>2, <2>1 DEF Stream, Asker
  <2>3. ~ Seen(got)'
    BY <1>4, <2>1 DEF Seen
  <2>4. Working' <=> Working
    BY <1>1, <2>1, <2>2 DEF Working
  <2>5. Waiting'
    BY <1>1, <2>1, <2>2, <2>3, <2>4 DEF Waiting, AtRest, Bare, Reply
  <2> QED
    BY <1>1, <2>1, <2>5 DEF PlainInv, Resting, InCall, OwnAnswer
<1>5. CASE Seen(tokens)
  <2>1. Finish(tokens)
    BY <1>3, <1>5
  <2>2. ~ Bare(Stream)
    <3>1. SUFFICES ASSUME Bare(Stream) PROVE FALSE
      OBVIOUS
    <3>2. Len(tokens) <= Len(Stream)
      BY <1>2, LenProperties
    <3>3. Cardinality({i \in DOMAIN tokens : Sight(tokens, i)}) = 0
      BY <1>2, <3>1, <3>2, BareUnseen
    <3> QED
      BY <1>5, <3>3 DEF Seen
  <2>3. Reply(Stream, Asker, phase) /\ AtRest
    BY <1>1, <2>2 DEF Waiting
  <2>4. Bare(Tail(stdout))
    BY <1>2, <1>5, <2>3, ReplyOver
  <2>5. \A i \in 1 .. Len(tokens) : tokens[i].kind # "space" => tokens[i].call = Asker
    <3>1. \A i \in 1 .. Len(tokens) : i \in 1 .. Len(Stream)
      BY <1>2, LenProperties
    <3> QED
      BY <1>2, <2>3, <3>1 DEF Reply
  <2>6. pc' # "read" /\ InCall' /\ OwnAnswer'
    BY <1>1, <1>2, <2>1, <2>5, FinishStep
  <2>7. Resting'
    BY <1>1, <2>3, <2>4 DEF Resting, AtRest, Bare
  <2> QED
    BY <2>6, <2>7 DEF PlainInv, Waiting
<1> QED
  BY <1>4, <1>5

LEMMA ReadEndStep ==
  ASSUME TypeOK, plain, PlainInv, ReadEnd
  PROVE  PlainInv'
<1>1. got \in Seq(Token) /\ stdout = <<>> /\ pc = "read" /\ ~ alive' /\ Waiting
  BY DEF TypeOK, ReadEnd, PlainInv, maxima
<1>2. Stream = got
  BY <1>1, ConcatEmptySeq DEF Stream
<1>3. \A i \in 1 .. Len(got) : got[i].kind # "space" => got[i].call = Asker
  BY <1>1, <1>2 DEF Waiting, Bare, Reply
<1>4. pc' # "read" /\ InCall' /\ OwnAnswer'
  BY <1>1, <1>3, FinishStep DEF ReadEnd
<1> QED
  BY <1>1, <1>4 DEF PlainInv, Waiting, Resting

(* A running Maxima that has something to do is awaited.                   *)
LEMMA Awaited ==
  ASSUME TypeOK, plain, PlainInv, alive, ~ AtRest
  PROVE  pc = "read" /\ ~ Seen(got) /\ Bare(Stream) /\ Working
  BY DEF PlainInv, Waiting, Resting

(* Output may be put together from either end.                            *)
LEMMA TokensAssociate ==
  ASSUME NEW r \in Seq(Token), NEW s \in Seq(Token), NEW t \in Seq(Token)
  PROVE  (r \o s) \o t = r \o (s \o t)
<1>1. ASSUME NEW S, NEW a \in Seq(S), NEW b \in Seq(S), NEW c \in Seq(S)
      PROVE  (a \o b) \o c = a \o (b \o c)
  BY ConcatAssociative, SMTT(30)
<1>2. PICK S : S = Token
  OBVIOUS
<1>3. r \in Seq(S) /\ s \in Seq(S) /\ t \in Seq(S)
  BY <1>2
<1> QED
  BY <1>1, <1>3, SMTT(30), ZenonT(30)

(* What it prints follows what there is to read.                           *)
LEMMA PrintedReply ==
  ASSUME TypeOK, plain, PlainInv, alive, ~ AtRest,
         NEW kind \in PlainKind \ {"ask"}, phase # "result" => kind = "silent",
         stdout' = stdout \o Printed(Text(kind) \o Prompt, Asker),
         UNCHANGED <<plain, thread>>, AtRest'
  PROVE  PlainInv'
<1> DEFINE printed == Printed(Text(kind) \o Prompt, Asker)
<1>1. pc = "read" /\ ~ Seen(got) /\ Bare(Stream)
  BY Awaited
<1>2. got \in Seq(Token) /\ stdout \in Seq(Token) /\ Asker \in 0 .. MaxCalls
  BY SubprocessAssumption DEF TypeOK, Asker
<1>3. Stream \in Seq(Token)
  BY <1>2, ConcatProperties DEF Stream
<1>4. Reply(Stream \o printed, Asker, phase)
  BY <1>1, <1>2, <1>3, ReplyMade
<1>5. printed \in Seq(Token)
  BY <1>2, PrintedTypes DEF StatementKind
<1> HIDE DEF printed
<1>6. Stream' = Stream \o printed /\ Asker' = Asker
  <2>1. got' = got /\ stdout' = stdout \o printed
    BY DEF thread, printed
  <2>2. got \o (stdout \o printed) = (got \o stdout) \o printed
    BY <1>2, <1>5, TokensAssociate
  <2> QED
    BY <2>1, <2>2 DEF Stream, Asker, thread
<1>7. Waiting'
  <2>1. ~ Seen(got)'
    BY <1>1 DEF Seen, thread
  <2>2. Reply(Stream, Asker, phase)'
    BY <1>4, <1>6 DEF Reply, thread
  <2> QED
    BY <2>1, <2>2 DEF Waiting
<1> QED
  BY <1>1, <1>7 DEF PlainInv, Resting, InCall, OwnAnswer, thread

LEMMA BootStep ==
  ASSUME TypeOK, plain, PlainInv, Boot
  PROVE  PlainInv'
<1>1. alive /\ ~ AtRest /\ booting
  BY DEF Boot, AtRest
<1>2. Working
  BY <1>1, Awaited
<1>3. phase = "banner" /\ AtRest' /\ Asker = 0
  BY <1>1, <1>2 DEF Working, Boot, AtRest, Asker
<1>4. Text("silent") \o Prompt = Prompt
  BY DEF Text, Prompt
<1>5. stdout' = stdout \o Printed(Text("silent") \o Prompt, Asker)
      /\ UNCHANGED <<plain, thread>>
  BY <1>3, <1>4 DEF Boot
<1>6. "silent" \in PlainKind \ {"ask"}
  BY DEF PlainKind
<1> QED
  BY <1>1, <1>3, <1>5, <1>6, PrintedReply

LEMMA EvaluateStep ==
  ASSUME TypeOK, plain, PlainInv, Evaluate
  PROVE  PlainInv'
<1>1. alive /\ ~ AtRest /\ ~ booting /\ asking = 0 /\ stdin # <<>>
  BY DEF Evaluate, AtRest
<1>2. pc = "read" /\ ~ Seen(got) /\ Bare(Stream) /\ Working
  BY <1>1, Awaited
<1>3. /\ stdin \in Seq(Statement) /\ Len(stdin) = 1 /\ stdin[1].call = Asker
      /\ stdin[1].kind \in PlainKind /\ (phase # "result" => stdin[1].kind = "silent")
  BY <1>1, <1>2 DEF Working, TypeOK
<1>4. Head(stdin) = stdin[1] /\ Tail(stdin) = <<>>
  <2>1. Head(stdin) = stdin[1] /\ Tail(stdin) \in Seq(Statement)
        /\ Len(Tail(stdin)) = Len(stdin) - 1
    BY <1>1, <1>3, HeadTailProperties
  <2>2. Len(Tail(stdin)) = 0
    BY <1>3, <2>1
  <2> QED
    BY <2>1, <2>2, EmptySeq
<1>5. CASE stdin[1].kind = "ask"
  <2>1. phase = "result" /\ Asker = calls
    BY <1>3, <1>5 DEF Asker
  <2>2. asking' = calls /\ stdin' = <<>> /\ UNCHANGED <<plain, alive, booting, stdout, thread>>
    BY <1>3, <1>4, <1>5, <2>1 DEF Evaluate
  <2>3. Working'
    BY <1>1, <2>1, <2>2 DEF Working, thread
  <2>4. ~ Seen(got)' /\ Bare(Stream)'
    BY <1>2, <2>2 DEF Seen, Bare, Stream, thread
  <2> QED
    BY <1>2, <2>2, <2>3, <2>4 DEF PlainInv, Waiting, Resting, InCall, OwnAnswer, thread
<1>6. CASE stdin[1].kind # "ask"
  <2>1. /\ stdin' = <<>> /\ UNCHANGED <<plain, alive, booting, asking, thread>>
        /\ stdout' = stdout \o Printed(Text(stdin[1].kind) \o Prompt, Asker)
    BY <1>3, <1>4, <1>6 DEF Evaluate
  <2>2. AtRest'
    BY <1>1, <2>1 DEF AtRest
  <2>3. stdin[1].kind \in PlainKind \ {"ask"}
    BY <1>3, <1>6
  <2> QED
    BY <1>1, <1>3, <2>1, <2>2, <2>3, PrintedReply
<1> QED
  BY <1>5, <1>6

(* No plain call writes to a Maxima that has asked a question.             *)
LEMMA TakeAnswerNever ==
  ASSUME TypeOK, plain, PlainInv, TakeAnswer
  PROVE  FALSE
<1>1. alive /\ ~ AtRest /\ asking # 0 /\ stdin # <<>>
  BY DEF TakeAnswer, AtRest
<1> QED
  BY <1>1, Awaited DEF Working

LEMMA DieStep ==
  ASSUME TypeOK, plain, PlainInv, Die
  PROVE  PlainInv'
<1>1. ~ alive' /\ AtRest' /\ UNCHANGED <<plain, stdout, thread>>
  BY DEF Die, AtRest
<1>2. Stream' = Stream /\ Asker' = Asker
  BY <1>1 DEF Stream, Asker, thread
<1>3. Waiting'
  <2>1. Seen(got)' <=> Seen(got)
    BY <1>1 DEF Seen, thread
  <2>2. Bare(Stream)' <=> Bare(Stream)
    BY <1>2 DEF Bare
  <2>3. Reply(Stream, Asker, phase)' <=> Reply(Stream, Asker, phase)
    BY <1>1, <1>2 DEF Reply, thread
  <2> QED
    BY <1>1, <2>1, <2>2, <2>3 DEF PlainInv, Waiting, thread
<1> QED
  BY <1>1, <1>3 DEF PlainInv, Resting, InCall, OwnAnswer, thread

LEMMA IInvInit == Init => IInv
<1>1. Init => TypeOK
  BY TypeInit
<1>2. ASSUME Init PROVE Dead /\ Unstarted /\ PlainInv
  BY <1>2 DEF Init, Dead, Unstarted, PlainInv, AtRest, Waiting, Resting, InCall, OwnAnswer,
              NoAnswer
<1> QED
  BY <1>1, <1>2 DEF IInv

LEMMA IInvStep == IInv /\ [Next]_vars => IInv'
<1> SUFFICES ASSUME IInv, [Next]_vars PROVE IInv'
  OBVIOUS
<1>1. TypeOK /\ Dead /\ Unstarted /\ PlainInv
  BY DEF IInv
<1>2. TypeOK' /\ Dead' /\ Unstarted'
  BY <1>1, TypeStep, LifeStep
<1>3. plain' = plain
  BY DEF Next, ServerStep, MaximaStep, vars, Call, Launch, LaunchFails, KeepProcess, Write,
         WriteFails, ReadToken, ReadEnd, Boot, Evaluate, TakeAnswer, Die
<1>4. ASSUME ~ plain PROVE PlainInv'
  BY <1>3, <1>4 DEF PlainInv
<1>5. ASSUME plain PROVE PlainInv'
  <2>1. CASE Call
    BY <1>1, <1>5, <2>1, CallStep
  <2>2. CASE Launch
    BY <1>1, <1>5, <2>2, LaunchStep
  <2>3. CASE LaunchFails \/ WriteFails
    BY <1>1, <1>5, <2>3, FailStep
  <2>4. CASE KeepProcess
    BY <1>1, <1>5, <2>4, KeepStep
  <2>5. CASE Write
    BY <1>1, <1>5, <2>5, WriteStep
  <2>6. CASE ReadToken
    BY <1>1, <1>5, <2>6, ReadTokenStep
  <2>7. CASE ReadEnd
    BY <1>1, <1>5, <2>7, ReadEndStep
  <2>8. CASE Boot
    BY <1>1, <1>5, <2>8, BootStep
  <2>9. CASE Evaluate
    BY <1>1, <1>5, <2>9, EvaluateStep
  <2>10. CASE TakeAnswer
    BY <1>1, <1>5, <2>10, TakeAnswerNever
  <2>11. CASE Die
    BY <1>1, <1>5, <2>11, DieStep
  <2>12. CASE UNCHANGED vars
    BY <1>1, <2>12 DEF vars, maxima, thread, PlainInv, Waiting, Resting, InCall, OwnAnswer,
       Seen, Stream, Asker, Bare, Reply, Working, AtRest
  <2> QED
    BY <2>1, <2>2, <2>3, <2>4, <2>5, <2>6, <2>7, <2>8, <2>9, <2>10, <2>11, <2>12
       DEF Next, ServerStep, MaximaStep
<1> QED
  BY <1>2, <1>4, <1>5 DEF IInv

LEMMA Invariant == Spec => []IInv
  BY IInvInit, IInvStep, PTL DEF Spec

(***************************************************************************)
(* The theorems                                                            *)
(***************************************************************************)

(* The answer to a plain call is made of what Maxima printed for that      *)
(* call, however many calls there have been, and whenever Maxima died.     *)
THEOREM AnswersAreOwn == Spec => []OwnAnswer
<1>1. IInv => OwnAnswer
  BY DEF IInv, PlainInv, OwnAnswer
<1> QED
  BY <1>1, Invariant, PTL

(* Between two plain calls there is nothing in either pipe but a space.    *)
THEOREM StaysInStep == Spec => []InStep
<1>1. IInv => InStep
  <2> SUFFICES ASSUME IInv, plain, pc = "idle", alive
               PROVE  /\ stdin = <<>> /\ asking = 0
                      /\ Len(stdout) <= 1
                      /\ \A i \in DOMAIN stdout : stdout[i].kind = "space"
    BY DEF InStep
  <2>1. AtRest /\ Bare(stdout)
    BY DEF IInv, PlainInv, Resting
  <2>2. DOMAIN stdout = 1 .. Len(stdout)
    BY LenProperties DEF IInv, TypeOK
  <2> QED
    BY <2>1, <2>2 DEF AtRest, Bare
<1> QED
  BY <1>1, Invariant, PTL

(***************************************************************************)
(* A wait comes to an end.  Whatever the expressions are and however the   *)
(* answers have shifted, a wait reads the prompt of the last statement     *)
(* that was written for it: it was written after the wait began, and its   *)
(* two sights stand next to each other.                                    *)
(***************************************************************************)

EndsInPrompt(s) ==
  Len(s) >= 2 /\ s[Len(s) - 1].kind = "label" /\ s[Len(s)].kind = "space"

(* Questions are asked by the statements of a call, which has some.        *)
OfCalls ==
  /\ pc # "idle" => line # <<>>
  /\ \A i \in 1 .. Len(line) : line[i].call # 0
  /\ \A i \in 1 .. Len(stdin) : stdin[i].kind = "ask" => stdin[i].call # 0

Wait ==
  pc = "read" =>
    /\ ~ Seen(got)
    /\ alive /\ AtRest => EndsInPrompt(Stream)

WaitInv == TypeOK /\ OfCalls /\ Wait

(* What ends in a prompt and is printed ends the stream in one.            *)
LEMMA PromptPrinted ==
  ASSUME NEW s \in Seq(Token), NEW t \in Seq(TokenKind), NEW c \in 0 .. MaxCalls,
         Len(t) >= 2, t[Len(t) - 1] = "label", t[Len(t)] = "space"
  PROVE  EndsInPrompt(s \o Printed(t, c))
<1>1. PICK n \in Nat : n = Len(t) /\ n >= 2
  BY LenProperties
<1>2. PICK u : u = Printed(t, c)
  OBVIOUS
<1>3. /\ u \in Seq(Token) /\ Len(u) = n
      /\ u[n - 1].kind = "label" /\ u[n].kind = "space"
  <2>1. /\ Printed(t, c) \in Seq(Token) /\ Len(Printed(t, c)) = Len(t)
        /\ \A i \in 1 .. Len(t) : Printed(t, c)[i] = [kind |-> t[i], call |-> c]
    BY PrintedTokens
  <2>2. n - 1 \in 1 .. Len(t) /\ n \in 1 .. Len(t)
    BY <1>1
  <2>3. /\ Printed(t, c)[n - 1] = [kind |-> t[n - 1], call |-> c]
        /\ Printed(t, c)[n] = [kind |-> t[n], call |-> c]
    BY <2>1, <2>2
  <2> QED
    BY <1>1, <1>2, <2>1, <2>3
<1>4. PICK m \in Nat : m = Len(s)
  BY LenProperties
<1>5. /\ Len(s \o u) = Len(s) + Len(u)
      /\ \A i \in 1 .. Len(s) + Len(u) :
           (s \o u)[i] = IF i <= Len(s) THEN s[i] ELSE u[i - Len(s)]
  <2>1. u \in Seq(Token)
    BY <1>3
  <2> QED
    BY <2>1, ConcatProperties
<1>6. /\ m + n - 1 \in 1 .. m + n /\ ~ (m + n - 1 <= m) /\ m + n - 1 - m = n - 1
      /\ m + n \in 1 .. m + n /\ ~ (m + n <= m) /\ m + n - m = n /\ m + n >= 2
  BY <1>1, <1>4
<1>7. (s \o u)[m + n - 1] = u[n - 1] /\ (s \o u)[m + n] = u[n] /\ Len(s \o u) = m + n
  <2>1. Len(u) = n
    BY <1>3
  <2>2. /\ Len(s \o u) = m + n
        /\ \A i \in 1 .. m + n : (s \o u)[i] = IF i <= m THEN s[i] ELSE u[i - m]
    BY <1>4, <1>5, <2>1
  <2>3. PICK k : k = m + n - 1 /\ k \in 1 .. m + n /\ ~ (k <= m) /\ k - m = n - 1
    BY <1>6
  <2>4. (s \o u)[k] = u[n - 1] /\ (s \o u)[m + n] = u[n]
    <3>1. PICK w : w = s \o u
      OBVIOUS
    <3>2. ASSUME NEW i \in 1 .. m + n, ~ (i <= m) PROVE w[i] = u[i - m]
      BY <2>2, <3>1, <3>2
    <3>3. w[k] = u[n - 1]
      BY <2>3, <3>2
    <3>4. w[m + n] = u[n]
      BY <1>6, <3>2
    <3> QED
      BY <3>1, <3>3, <3>4
  <2> QED
    BY <2>2, <2>3, <2>4
<1>8. EndsInPrompt(s \o u)
  <2>1. PICK w : w = s \o u
    OBVIOUS
  <2>2. PICK k \in Nat : k = m + n /\ k - 1 = m + n - 1 /\ k >= 2
    BY <1>6
  <2>3. Len(w) = k /\ w[k - 1] = u[n - 1] /\ w[k] = u[n]
    BY <1>7, <2>1, <2>2
  <2>4. w[k - 1].kind = "label" /\ w[k].kind = "space"
    BY <1>3, <2>3
  <2>5. EndsInPrompt(w)
    BY <2>2, <2>3, <2>4 DEF EndsInPrompt
  <2> QED
    BY <2>1, <2>5
<1> QED
  BY <1>2, <1>8

(* A prompt ends what a statement prints, a value like a prompt as well.   *)
LEMMA TextEnds ==
  ASSUME NEW kind \in StatementKind \ {"ask"}
  PROVE  LET t == Text(kind) \o Prompt IN
         /\ t \in Seq(TokenKind) /\ Len(t) >= 2
         /\ t[Len(t) - 1] = "label" /\ t[Len(t)] = "space"
<1>1. CASE kind \in PlainKind
  BY <1>1, PlainText
<1>2. CASE kind = "complex"
  <2>1. Text(kind) = <<"value", "paren", "paren">>
    BY <1>2 DEF Text
  <2>2. /\ <<"value", "paren", "paren">> \in Seq(TokenKind)
        /\ Len(<<"value", "paren", "paren">>) = 3
    BY DEF TokenKind
  <2>3. /\ Prompt \in Seq(TokenKind) /\ Len(Prompt) = 2
        /\ Prompt[1] = "label" /\ Prompt[2] = "space"
    BY DEF Prompt, TokenKind
  <2>4. PICK v \in Seq(TokenKind) : v = Text(kind) /\ Len(v) = 3
    BY <2>1, <2>2
  <2>5. /\ v \o Prompt \in Seq(TokenKind) /\ Len(v \o Prompt) = Len(v) + Len(Prompt)
        /\ \A i \in 1 .. Len(v) + Len(Prompt) :
             (v \o Prompt)[i] = IF i <= Len(v) THEN v[i] ELSE Prompt[i - Len(v)]
    BY <2>3, <2>4, ConcatProperties
  <2>6. Len(v \o Prompt) = 5 /\ (v \o Prompt)[4] = "label" /\ (v \o Prompt)[5] = "space"
    BY <2>3, <2>4, <2>5
  <2> QED
    BY <2>4, <2>5, <2>6
<1> QED
  BY <1>1, <1>2 DEF StatementKind

(* Who has read a prompt to its end has seen it.                           *)
LEMMA PromptSeen ==
  ASSUME NEW s \in Seq(Token), EndsInPrompt(s)
  PROVE  Seen(s)
<1>1. PICK n \in Nat : n = Len(s) /\ n >= 2 /\ DOMAIN s = 1 .. n
  BY LenProperties DEF EndsInPrompt
<1> DEFINE S == {i \in DOMAIN s : Sight(s, i)}
<1>2. n - 1 \in S /\ n \in S
  BY <1>1 DEF EndsInPrompt, Sight
<1>3. IsFiniteSet(S) /\ Cardinality(S) \in Nat
  <2>1. IsFiniteSet(1 .. n)
    BY FS_Interval
  <2> QED
    BY <1>1, <2>1, FS_Subset, FS_CardinalityType
<1>4. IsFiniteSet({n - 1}) /\ Cardinality({n - 1}) = 1 /\ n \notin {n - 1}
  <2>1. n # n - 1
    BY <1>1
  <2> QED
    BY <2>1, FS_Singleton
<1>5. Cardinality({n - 1} \cup {n}) = 2
  <2>1. PICK A : A = {n - 1}
    OBVIOUS
  <2>2. Cardinality(A \cup {n}) = Cardinality(A) + 1 /\ Cardinality(A) = 1
    BY <1>4, <2>1, FS_AddElement
  <2>3. Cardinality(A \cup {n}) = 2
    BY <2>2
  <2> QED
    BY <2>1, <2>3, Zenon
<1>6. {n - 1} \cup {n} \subseteq S
  BY <1>2
<1>7. Cardinality(S) >= 2
  BY <1>3, <1>5, <1>6, FS_Subset
<1> QED
  BY <1>3, <1>7 DEF Seen

LEMMA OfCallsStep ==
  ASSUME TypeOK, OfCalls, [Next]_vars
  PROVE  OfCalls'
<1> USE DEF OfCalls
<1>0. Len(<<>>) = 0
  OBVIOUS
<1>1. CASE Call
  <2>1. calls + 1 # 0 /\ calls' = calls + 1 /\ stdin' = stdin
    BY <1>1 DEF Call, TypeOK, maxima
  <2>2. CASE Return(calls + 1, FALSE)
    BY <1>0, <2>1, <2>2 DEF Return
  <2>3. ASSUME NEW n \in 1 .. IF plain THEN 1 ELSE MaxStatements,
               line' \in [1 .. n -> [kind : IF plain THEN PlainKind ELSE StatementKind,
                                     call : {calls + 1}]]
        PROVE  OfCalls'
    <3>1. n \in Nat /\ n >= 1
      BY SubprocessAssumption
    <3>2. Len(line') = n
      <4> DEFINE K == [kind : IF plain THEN PlainKind ELSE StatementKind, call : {calls + 1}]
      <4>1. line' \in [1 .. n -> K]
        BY <2>3
      <4> HIDE DEF K
      <4>2. line' \in Seq(K) /\ DOMAIN line' = 1 .. n
        BY <3>1, <4>1, SeqDef
      <4> QED
        BY <3>1, <4>2, LenProperties
    <3>3. line' # <<>>
      BY <1>0, <3>1, <3>2
    <3>4. \A i \in 1 .. n : line'[i].call = calls + 1
      BY <2>3
    <3> QED
      BY <2>1, <3>2, <3>3, <3>4
  <2> QED
    BY <1>1, <2>2, <2>3 DEF Call
<1>2. CASE LaunchFails \/ WriteFails
  BY <1>0, <1>2 DEF LaunchFails, WriteFails, Return, maxima
<1>3. CASE Launch \/ KeepProcess
  BY <1>3 DEF Launch, KeepProcess, maxima
<1>4. CASE Write
  <2>1. UNCHANGED line /\ pc # "idle"
    BY <1>4 DEF Write
  <2>2. PICK u \in Seq(Statement) :
          stdin' = stdin \o u /\ \A i \in 1 .. Len(u) : u[i].kind = "ask" => u[i].call # 0
    <3>1. CASE phase = "result"
      BY <1>4, <3>1 DEF Write, TypeOK
    <3>2. CASE phase # "result"
      <4>1. [kind |-> "silent", call |-> 0] \in Statement
        BY SubprocessAssumption DEF Statement, StatementKind, PlainKind
      <4>2. Configuration \in Seq(Statement) /\ Len(Configuration) = 1
            /\ Configuration[1].kind = "silent"
        BY <4>1 DEF Configuration
      <4> QED
        BY <1>4, <3>2, <4>2 DEF Write
    <3> QED
      BY <3>1, <3>2
  <2>3. PICK m \in Nat, n \in Nat : m = Len(stdin) /\ n = Len(u)
    BY LenProperties DEF TypeOK
  <2>4. /\ Len(stdin') = m + n
        /\ \A i \in 1 .. m + n : stdin'[i] = IF i <= m THEN stdin[i] ELSE u[i - m]
    BY <2>2, <2>3, ConcatProperties DEF TypeOK
  <2>5. ASSUME NEW i \in 1 .. m + n, stdin'[i].kind = "ask" PROVE stdin'[i].call # 0
    <3>1. CASE i <= m
      BY <2>3, <2>4, <2>5, <3>1
    <3>2. CASE ~ (i <= m)
      <4>1. i - m \in 1 .. n
        BY <3>2
      <4> QED
        BY <2>2, <2>3, <2>4, <2>5, <3>2, <4>1
    <3> QED
      BY <3>1, <3>2
  <2> QED
    BY <2>1, <2>4, <2>5
<1>5. CASE ReadToken \/ ReadEnd
  <2>1. stdin' = stdin /\ pc = "read"
    BY <1>5 DEF ReadToken, ReadEnd, maxima
  <2>2. line' = line \/ (line' = <<>> /\ pc' = "idle")
    <3>1. ASSUME NEW tokens \in Seq(Token), Finish(tokens)
          PROVE  line' = line \/ (line' = <<>> /\ pc' = "idle")
      <4>1. CASE phase = "result"
        BY <3>1, <4>1, ResultFrom DEF Finish
      <4>2. CASE phase # "result"
        BY <3>1, <4>2 DEF Finish
      <4> QED
        BY <4>1, <4>2
    <3>2. CASE ReadToken
      <4>1. Append(got, Head(stdout)) \in Seq(Token)
        BY <3>2, ReadStream DEF ReadToken, TypeOK
      <4>2. CASE Finish(Append(got, Head(stdout)))
        BY <3>1, <4>1, <4>2
      <4>3. CASE UNCHANGED <<pc, phase, calls, line, answer>>
        BY <4>3
      <4> QED
        BY <3>2, <4>2, <4>3 DEF ReadToken
    <3>3. CASE ReadEnd
      BY <3>1, <3>3 DEF ReadEnd, TypeOK
    <3> QED
      BY <1>5, <3>2, <3>3
  <2> QED
    BY <1>0, <2>1, <2>2
<1>6. CASE Evaluate \/ TakeAnswer
  <2>1. stdin' = Tail(stdin) /\ stdin # <<>> /\ UNCHANGED thread
    BY <1>6 DEF Evaluate, TakeAnswer
  <2>2. Len(stdin') = Len(stdin) - 1 /\ \A i \in 1 .. Len(stdin') : stdin'[i] = stdin[i + 1]
    BY <2>1, HeadTailProperties DEF TypeOK
  <2>3. Len(stdin) \in Nat
    BY LenProperties DEF TypeOK
  <2> QED
    BY <2>1, <2>2, <2>3 DEF thread
<1>7. CASE Boot \/ Die
  BY <1>0, <1>7 DEF Boot, Die, thread
<1>8. CASE UNCHANGED vars
  BY <1>8 DEF vars, maxima, thread
<1> QED
  BY <1>1, <1>2, <1>3, <1>4, <1>5, <1>6, <1>7, <1>8 DEF Next, ServerStep, MaximaStep

LEMMA WaitStep ==
  ASSUME WaitInv, TypeOK', [Next]_vars
  PROVE  Wait'
<1> USE DEF WaitInv, Wait
<1>0. Len(<<>>) = 0
  OBVIOUS
<1>1. CASE Call \/ LaunchFails \/ WriteFails
  <2>1. pc' # "read"
    BY <1>1 DEF Call, LaunchFails, WriteFails, Return
  <2> QED
    BY <2>1
<1>2. CASE KeepProcess
  BY <1>2 DEF KeepProcess
<1>3. CASE Launch
  BY <1>3, EmptyUnseen DEF Launch, AtRest
<1>4. CASE Write
  <2>1. ~ Seen(got)'
    BY <1>4, EmptyUnseen DEF Write
  <2>2. stdin' # <<>>
    <3>1. PICK u \in Seq(Statement) : stdin' = stdin \o u /\ u # <<>>
      <4>1. [kind |-> "silent", call |-> 0] \in Statement
        BY SubprocessAssumption DEF Statement, StatementKind, PlainKind
      <4>2. Configuration \in Seq(Statement) /\ Len(Configuration) = 1
        BY <4>1 DEF Configuration
      <4>3. Configuration # <<>>
        BY <4>2, EmptySeq
      <4> QED
        BY <1>4, <4>2, <4>3 DEF Write, OfCalls, TypeOK
    <3>2. Len(u) \in Nat /\ Len(u) # 0 /\ Len(stdin) \in Nat
      BY <3>1, EmptySeq, LenProperties DEF TypeOK
    <3>3. Len(stdin') = Len(stdin) + Len(u)
      BY <3>1, ConcatProperties DEF TypeOK
    <3> QED
      BY <1>0, <3>2, <3>3
  <2> QED
    BY <2>1, <2>2 DEF AtRest
<1>5. CASE ReadToken
  <2>1. UNCHANGED <<alive, stdin, asking, booting>> /\ pc = "read"
    BY <1>5 DEF ReadToken
  <2>2. CASE Seen(Append(got, Head(stdout)))
    <3>1. Finish(Append(got, Head(stdout)))
      BY <1>5, <2>2 DEF ReadToken
    <3>2. pc' # "read"
      BY <3>1 DEF Finish, Result, Return
    <3> QED
      BY <3>2
  <2>3. CASE ~ Seen(Append(got, Head(stdout)))
    <3>1. got' = Append(got, Head(stdout)) /\ stdout' = Tail(stdout) /\ phase' = phase
      BY <1>5, <2>3 DEF ReadToken
    <3>2. ~ Seen(got)'
      BY <2>3, <3>1 DEF Seen
    <3>3. Stream' = Stream
      BY <1>5, <3>1, ReadStream DEF Stream, ReadToken, TypeOK
    <3> QED
      BY <2>1, <3>2, <3>3 DEF AtRest, EndsInPrompt
  <2> QED
    BY <2>2, <2>3
<1>6. CASE ReadEnd
  <2>1. pc' # "read"
    BY <1>6 DEF ReadEnd, Finish, Result, Return
  <2> QED
    BY <2>1
<1>7. ASSUME UNCHANGED thread, NEW t \in Seq(TokenKind), NEW c \in 0 .. MaxCalls,
             Len(t) >= 2, t[Len(t) - 1] = "label", t[Len(t)] = "space",
             stdout' = stdout \o Printed(t, c)
      PROVE  Wait'
  <2>1. Seen(got)' = Seen(got) /\ pc' = pc
    BY <1>7 DEF thread, Seen
  <2>2. got \in Seq(Token) /\ stdout \in Seq(Token) /\ Printed(t, c) \in Seq(Token)
    BY <1>7, PrintedTokens DEF TypeOK
  <2>3. Stream' = got \o (stdout \o Printed(t, c))
    BY <1>7 DEF Stream, thread
  <2>4. /\ Stream' = (got \o stdout) \o Printed(t, c)
        /\ got \o stdout \in Seq(Token)
    <3>1. got \o (stdout \o Printed(t, c)) = (got \o stdout) \o Printed(t, c)
      <4>1. PICK u \in Seq(Token) : u = Printed(t, c)
        BY <2>2
      <4>2. (got \o stdout) \o u = got \o (stdout \o u)
        BY <2>2, <4>1, TokensAssociate
      <4> QED
        BY <4>1, <4>2
    <3>2. got \o stdout \in Seq(Token)
      BY <2>2, ConcatProperties
    <3> QED
      BY <2>3, <3>1, <3>2
  <2>5. EndsInPrompt(Stream')
    BY <1>7, <2>4, PromptPrinted
  <2> QED
    BY <2>1, <2>5 DEF EndsInPrompt
<1>8. CASE Boot
  <2>1. /\ Prompt \in Seq(TokenKind) /\ Len(Prompt) = 2
        /\ Prompt[1] = "label" /\ Prompt[2] = "space"
    BY DEF Prompt, TokenKind
  <2>2. 0 \in 0 .. MaxCalls
    BY SubprocessAssumption
  <2>3. Prompt[Len(Prompt) - 1] = "label" /\ Prompt[Len(Prompt)] = "space" /\ Len(Prompt) >= 2
    BY <2>1
  <2>4. UNCHANGED thread /\ stdout' = stdout \o Printed(Prompt, 0)
    BY <1>8 DEF Boot
  <2> QED
    BY <1>7, <1>8, <2>1, <2>2, <2>3, <2>4
<1>9. CASE Evaluate
  <2>1. UNCHANGED thread /\ Head(stdin) \in Statement /\ Head(stdin) = stdin[1]
        /\ 1 \in 1 .. Len(stdin)
    BY <1>9, HeadTailProperties, EmptySeq, LenProperties DEF Evaluate, TypeOK
  <2>2. Head(stdin).kind \in StatementKind /\ Head(stdin).call \in 0 .. MaxCalls
    BY <2>1 DEF Statement
  <2>3. CASE Head(stdin).kind = "ask"
    <3>1. asking' # 0
      BY <1>9, <2>1, <2>3 DEF Evaluate, OfCalls
    <3>2. Seen(got)' = Seen(got) /\ pc' = pc
      BY <2>1 DEF thread, Seen
    <3> QED
      BY <3>1, <3>2 DEF AtRest
  <2>4. CASE Head(stdin).kind # "ask"
    <3> DEFINE t == Text(Head(stdin).kind) \o Prompt
    <3>1. stdout' = stdout \o Printed(t, Head(stdin).call)
      BY <1>9, <2>4 DEF Evaluate
    <3>2. /\ t \in Seq(TokenKind) /\ Len(t) >= 2
          /\ t[Len(t) - 1] = "label" /\ t[Len(t)] = "space"
      BY <2>2, <2>4, TextEnds
    <3> HIDE DEF t
    <3> QED
      BY <1>7, <2>1, <2>2, <3>1, <3>2
  <2> QED
    BY <2>3, <2>4
<1>10. CASE TakeAnswer
  <2> DEFINE t == Text("value") \o Prompt
  <2>1. stdout' = stdout \o Printed(t, asking) /\ asking \in 0 .. MaxCalls
        /\ UNCHANGED thread
    BY <1>10 DEF TakeAnswer, TypeOK
  <2>2. /\ t \in Seq(TokenKind) /\ Len(t) >= 2
        /\ t[Len(t) - 1] = "label" /\ t[Len(t)] = "space"
    <3>1. "value" \in StatementKind \ {"ask"}
      BY DEF StatementKind, PlainKind
    <3> QED
      BY <3>1, TextEnds
  <2> HIDE DEF t
  <2> QED
    BY <1>7, <2>1, <2>2
<1>11. CASE Die
  <2>1. ~ alive' /\ Seen(got)' = Seen(got) /\ pc' = pc
    BY <1>11 DEF Die, thread, Seen
  <2> QED
    BY <2>1
<1>12. CASE UNCHANGED vars
  BY <1>12 DEF vars, maxima, thread, Seen, AtRest, EndsInPrompt, Stream
<1> QED
  BY <1>1, <1>2, <1>3, <1>4, <1>5, <1>6, <1>8, <1>9, <1>10, <1>11, <1>12
     DEF Next, ServerStep, MaximaStep

(* The thread never waits on a Maxima that has nothing to do: if no prompt *)
(* were to come, its last one has been read, and ended the wait.           *)
THEOREM WaitsEnd == Spec => []NeverWaitsInVain
<1>1. Init => WaitInv
  <2>1. Init => OfCalls /\ Wait
    BY DEF Init, OfCalls, Wait
  <2> QED
    BY <2>1, TypeInit DEF WaitInv
<1>2. WaitInv /\ [Next]_vars => WaitInv'
  BY TypeStep, OfCallsStep, WaitStep DEF WaitInv
<1>3. WaitInv => NeverWaitsInVain
  <2> SUFFICES ASSUME WaitInv, pc = "read", alive, stdout = <<>>, AtRest
               PROVE  FALSE
    BY DEF NeverWaitsInVain, AtRest
  <2>1. Stream = got /\ got \in Seq(Token)
    BY ConcatEmptySeq DEF Stream, WaitInv, TypeOK
  <2>2. Seen(got)
    BY <2>1, PromptSeen DEF WaitInv, Wait
  <2> QED
    BY <2>2 DEF WaitInv, Wait
<1> QED
  BY <1>1, <1>2, <1>3, PTL DEF Spec
=============================================================================
