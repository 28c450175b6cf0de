---------------------------- MODULE WinkillProofs ----------------------------
(***************************************************************************)
(* Theorems about Winkill, for any processes, users, sends and starts.     *)
(***************************************************************************)
EXTENDS Winkill, TLAPS

Opened == {"map", "load", "store", "close"}
InStores == {"load", "store"}
TakesInt == {"clear_int", "store_int", "post_int"}
TakesTerm == {"clear_term", "store_term", "post_term"}

(* Who has opened a word holds it, and what he is about to store there was *)
(* asked for; who is about to open one has a pid.                          *)
StoresAsked(run) ==
  /\ run.pc \in Opened => run.name \in Name /\ run.mask \subseteq object[run.name].asked
  /\ run.pc = "store" => run.copy \subseteq object[run.name].asked

SenderSafe(u) ==
  /\ kill[u].pc \in {"gcl", "maxima"} => kill[u].pid \in Pids
  /\ StoresAsked(kill[u])
  /\ kill[u].pc \in Opened => u \in object[kill[u].name].holders

(* The command that runs uses the word of a record.                        *)
CommandSafe ==
  /\ tcl.run.pc \in {"idle", "load", "store"}
  /\ StoresAsked(tcl.run)
  /\ tcl.run.pc \in InStores => \E r \in tcl.records : tcl.run.name = <<"gcl", r.pid>>

(* A process holds the word it polls; what its monitor has seen there, and *)
(* its copy of the word, was asked for.                                    *)
MonitorSafe(p) ==
  LET o == object[<<"maxima", p>>] IN
  /\ lisp[p].ready => p \in o.holders
  /\ lisp[p].pc \in TakesInt \cup TakesTerm => lisp[p].ready
  /\ lisp[p].pc \in TakesInt => SignalMask(SIGINT) \subseteq o.asked
  /\ lisp[p].pc \in TakesTerm => SignalMask(SIGTERM) \subseteq o.asked
  /\ lisp[p].pc \in {"store_int", "store_term"} => lisp[p].copy \subseteq o.asked

(* NothingUnasked and LostOnlyInRace of one word, held by somebody or not. *)
WordSafe(n) ==
  /\ object[n].word \subseteq object[n].asked
  /\ object[n].posted > 0 => SignalMask(SIGINT) \subseteq object[n].asked
  /\ object[n].quit => SignalMask(SIGTERM) \subseteq object[n].asked
  /\ ~object[n].raced => object[n].word = object[n].owed

(* An interrupt that is due: the bit is in the word, or the monitor has    *)
(* seen it and not stored yet, or its copy will put it back; another one   *)
(* may be on its way to the main thread.  Each has its store.              *)
Due(p) ==
  \/ SIGINT \in Word(p)
  \/ lisp[p].pc \in {"clear_int", "store_int"}
  \/ lisp[p].pc = "store_term" /\ SIGINT \in lisp[p].copy
Credits(p) == (IF Due(p) THEN 1 ELSE 0) + (IF lisp[p].pc = "post_int" THEN 1 ELSE 0)

CreditSafe(p) ==
  /\ object[<<"maxima", p>>].posted + Credits(p) <= object[<<"maxima", p>>].writes
  /\ object[<<"gcl", p>>].posted = 0

IInv ==
  /\ TypeOK
  /\ \A u \in Users : SenderSafe(u)
  /\ CommandSafe /\ CacheIsCurrent
  /\ \A p \in Pids : MonitorSafe(p) /\ CreditSafe(p)
  /\ \A n \in Name : WordSafe(n)

(***************************************************************************)
(* Bits, signals and options                                               *)
(***************************************************************************)

LEMMA MasksAreBits ==
  /\ \A n \in Int : SignalMask(n) \subseteq Bit
  /\ SignalMask(SIGINT) = {SIGINT} /\ SignalMask(SIGTERM) = {SIGTERM}
<1>1. ASSUME NEW n \in Int PROVE n % 32 \in 0 .. 31
  OBVIOUS
<1>2. 2 % 32 = 2 /\ 15 % 32 = 15
  OBVIOUS
<1> QED BY <1>1, <1>2 DEF SignalMask, Bit, SIGINT, SIGTERM

(* The least of some places of the table, as Lookup chooses it.            *)
LEMMA LeastPlace ==
  ASSUME NEW S \in SUBSET (1 .. 6), S # {}
  PROVE  \E j \in S : \A k \in S : j <= k
<1>1. CASE 1 \in S BY <1>1
<1>2. CASE 1 \notin S /\ 2 \in S BY <1>2
<1>3. CASE 1 \notin S /\ 2 \notin S /\ 3 \in S BY <1>3
<1>4. CASE 1 \notin S /\ 2 \notin S /\ 3 \notin S /\ 4 \in S BY <1>4
<1>5. CASE 1 \notin S /\ 2 \notin S /\ 3 \notin S /\ 4 \notin S /\ 5 \in S BY <1>5
<1>6. CASE 1 \notin S /\ 2 \notin S /\ 3 \notin S /\ 4 \notin S /\ 5 \notin S
  <2>1. \A k \in S : k = 6 BY <1>6
  <2>2. PICK j \in S : TRUE OBVIOUS
  <2>3. \A k \in S : j <= k BY <2>1, <2>2
  <2> QED BY <2>2, <2>3
<1> QED BY <1>1, <1>2, <1>3, <1>4, <1>5, <1>6

LEMMA LookupPlace ==
  ASSUME NEW i \in 1 .. 7, NEW text
  PROVE  Lookup(i, text) \in i .. 7
<1> DEFINE hits == {j \in i .. Len(SigNames) : SigNames[j].name = text}
<1>1. Len(SigNames) = 6
  BY DEF SigNames
<1>2. CASE hits = {}
  BY <1>1, <1>2 DEF Lookup
<1>3. CASE hits # {}
  <2>1. hits \subseteq 1 .. 6 BY <1>1
  <2>2. \E j \in hits : \A k \in hits : j <= k BY <1>3, <2>1, LeastPlace
  <2>3. Lookup(i, text) \in hits BY <1>3, <2>2 DEF Lookup
  <2> QED BY <1>1, <2>3
<1> QED BY <1>2, <1>3

(* The loop's pointer stays within the table or just behind it, and what   *)
(* it reads is a number: for winkill.exe and for the options.              *)
Reading == [sig : Int, entry : 1 .. 7]
Options == [sig : Int, entry : 1 .. 7, ok : BOOLEAN, mask : SUBSET Bit]

LEMMA ReadSignalType ==
  ASSUME NEW T \in {Reading, Options}, NEW st \in T, NEW text
  PROVE  ReadSignal(st, text) \in T
<1> DEFINE j == Lookup(st.entry, text)
<1>1. st.entry \in 1 .. 7 /\ j \in 1 .. 7
  <2>1. st.entry \in 1 .. 7
    <3>1. CASE T = Reading BY <3>1 DEF Reading
    <3>2. CASE T = Options BY <3>2 DEF Options
    <3> QED BY <3>1, <3>2
  <2> QED BY <2>1, LookupPlace
<1>2. \A i \in 1 .. 6 : SigNames[i].number \in Int
  BY DEF SigNames, SIGINT, SIGTERM
<1>3. Len(SigNames) = 6
  BY DEF SigNames
<1>4. ASSUME NEW v \in Int PROVE [st EXCEPT !.sig = v] \in T
  <2>1. CASE T = Reading BY <2>1 DEF Reading
  <2>2. CASE T = Options BY <2>2 DEF Options
  <2> QED BY <2>1, <2>2
<1>5. ASSUME NEW i \in 1 .. 7 PROVE [st EXCEPT !.entry = i] \in T
  <2>1. CASE T = Reading BY <2>1 DEF Reading
  <2>2. CASE T = Options BY <2>2 DEF Options
  <2> QED BY <2>1, <2>2
<1>6. ASSUME NEW i \in 1 .. 7, NEW v \in Int PROVE [st EXCEPT !.entry = i, !.sig = v] \in T
  <2>1. CASE T = Reading BY <2>1 DEF Reading
  <2>2. CASE T = Options BY <2>2 DEF Options
  <2> QED BY <2>1, <2>2
<1>7. CASE text \in DOMAIN Numeral
  <2>1. Numeral[text] \in Int BY <1>7 DEF Numeral
  <2> QED BY <1>4, <1>7, <2>1 DEF ReadSignal
<1>8. CASE text \notin DOMAIN Numeral /\ text = ""
  BY <1>8 DEF ReadSignal
<1>9. CASE text \notin DOMAIN Numeral /\ text # ""
  <2>1. CASE j > 6 BY <1>1, <1>3, <1>5, <1>9, <2>1 DEF ReadSignal
  <2>2. CASE ~ j > 6
    <3>1. SigNames[j].number \in Int BY <1>1, <1>2, <2>2
    <3> QED BY <1>1, <1>3, <1>6, <1>9, <2>2, <3>1 DEF ReadSignal
  <2> QED BY <2>1, <2>2
<1> QED BY <1>7, <1>8, <1>9

LEMMA ReadOptionType ==
  ASSUME NEW st \in Options, NEW value
  PROVE  ReadOption(st, value) \in Options
<1> DEFINE new == ReadSignal(st, FromSecond[value])
<1>1. new \in Options BY ReadSignalType
<1>2. SignalMask(new.sig) \subseteq Bit
  <2>1. new.sig \in Int BY <1>1 DEF Options
  <2> QED BY <2>1, MasksAreBits
<1>3. [new EXCEPT !.mask = @ \cup SignalMask(new.sig)] \in Options
  <2> HIDE DEF new
  <2> QED BY <1>1, <1>2 DEF Options
<1>4. [st EXCEPT !.ok = FALSE] \in Options
  BY DEF Options
<1> QED BY <1>1, <1>3, <1>4 DEF ReadOption

LEMMA MaskOfOptions ==
  ASSUME NEW first, NEW second
  PROVE  ReadOption(ReadOption(NoOptions, first), second).mask \subseteq Bit
<1>1. NoOptions \in Options BY DEF NoOptions, Options
<1>2. ReadOption(ReadOption(NoOptions, first), second) \in Options
  BY <1>1, ReadOptionType
<1> QED BY <1>2 DEF Options
(***************************************************************************)
(* What a step does to the words                                           *)
(***************************************************************************)

(* It goes on with each word that somebody holds; only leaving let go.     *)
Continues(leaving) ==
  \A n \in Name : Exists(n) =>
    /\ object'[n].number = object[n].number
    /\ object[n].asked \subseteq object'[n].asked
    /\ object[n].holders \ leaving \subseteq object'[n].holders

(* It does not write to the word.                                          *)
Unwritten(n) ==
  /\ object'[n].word = object[n].word /\ object'[n].owed = object[n].owed
  /\ object'[n].writes = object[n].writes /\ object'[n].raced = object[n].raced
  /\ object'[n].posted = object[n].posted /\ object'[n].quit = object[n].quit
  /\ object[n].asked \subseteq object'[n].asked

Tcls == {TclHandle(k) : k \in 0 .. MaxSends}

LEMMA Names ==
  /\ \A p \in Pids : <<"gcl", p>> \in Name /\ <<"maxima", p>> \in Name
  /\ \A p, q \in Pids : <<"gcl", p>> # <<"maxima", q>>
  /\ \A p, q \in Pids : <<"maxima", p>> = <<"maxima", q>> => p = q
  BY DEF Name

LEMMA HandlesApart ==
  /\ Users \cap Pids = {} /\ Tcls \cap Users = {} /\ Tcls \cap Pids = {}
  /\ Users \subseteq Handle /\ Pids \subseteq Handle /\ Tcls \subseteq Handle
  BY WinkillAssumption DEF Tcls, TclHandle, Handle

LEMMA SameWords ==
  ASSUME UNCHANGED object
  PROVE  Continues({}) /\ \A n \in Name : Unwritten(n)
  BY DEF Continues, Unwritten

LEMMA CreateEffect ==
  ASSUME object \in [Name -> SharedWord], NEW n \in Name, NEW who \in Handle,
         NEW number \in 0 .. MaxStarts, Create(n, who, number)
  PROVE  /\ object' \in [Name -> SharedWord] /\ Continues({})
         /\ who \in object'[n].holders
         /\ \A k \in Name \ {n} : object'[k] = object[k]
         /\ \/ \A k \in Name : Unwritten(k)
            \/ object'[n] = Mapping(number, {who})
<1>1. CASE Exists(n)
  <2>1. object' = [object EXCEPT ![n].holders = @ \cup {who}]
    BY <1>1 DEF Create
  <2> QED BY <2>1 DEF SharedWord, Continues, Unwritten
<1>2. CASE ~Exists(n)
  <2>1. object' = [object EXCEPT ![n] = Mapping(number, {who})]
    BY <1>2 DEF Create
  <2>2. Mapping(number, {who}) \in SharedWord
    BY DEF Mapping, SharedWord
  <2>3. Mapping(number, {who}).holders = {who}
    BY DEF Mapping
  <2> QED BY <1>2, <2>1, <2>2, <2>3 DEF Continues, Exists
<1> QED BY <1>1, <1>2

LEMMA OpenEffect ==
  ASSUME object \in [Name -> SharedWord], NEW n \in Name, NEW who \in Handle,
         NEW mask \in SUBSET Bit, OpenMapping(n, who, mask)
  PROVE  /\ object' \in [Name -> SharedWord] /\ Continues({})
         /\ who \in object'[n].holders /\ mask \subseteq object'[n].asked
         /\ object'[n].number = object[n].number
         /\ \A k \in Name : Unwritten(k)
  BY SMTT(30), ZenonT(30) DEF OpenMapping, SharedWord, Continues, Unwritten

LEMMA CloseEffect ==
  ASSUME object \in [Name -> SharedWord], NEW n \in Name, NEW who, Close(n, who)
  PROVE  /\ object' \in [Name -> SharedWord] /\ Continues({who})
         /\ \A k \in Name : Unwritten(k)
  BY DEF Close, SharedWord, Continues, Unwritten

LEMMA CloseAllEffect ==
  ASSUME object \in [Name -> SharedWord], NEW handles, CloseAll(handles)
  PROVE  /\ object' \in [Name -> SharedWord] /\ Continues(handles)
         /\ \A k \in Name : Unwritten(k)
  BY SMTT(30), ZenonT(30) DEF CloseAll, SharedWord, Continues, Unwritten

(***************************************************************************)
(* What is safe stays safe when others act                                 *)
(***************************************************************************)

LEMMA WordKept ==
  ASSUME NEW n \in Name, WordSafe(n), Unwritten(n)
  PROVE  WordSafe(n)'
  BY DEF WordSafe, Unwritten

LEMMA StoresAskedKept ==
  ASSUME NEW run, NEW leaving, Continues(leaving), StoresAsked(run),
         run.pc \in Opened => Exists(run.name)
  PROVE  /\ run.pc \in Opened =>
              run.name \in Name /\ run.mask \subseteq object'[run.name].asked
         /\ run.pc = "store" => run.copy \subseteq object'[run.name].asked
  BY DEF StoresAsked, Continues, Opened

LEMMA SenderKept ==
  ASSUME NEW u \in Users, SenderSafe(u), NEW leaving, Continues(leaving),
         u \notin leaving, kill'[u] = kill[u]
  PROVE  SenderSafe(u)'
<1>1. kill[u].pc \in Opened => Exists(kill[u].name)
  BY DEF SenderSafe, Exists
<1>2. StoresAsked(kill[u]) BY DEF SenderSafe
<1>3. StoresAsked(kill[u])'
  BY <1>1, <1>2, StoresAskedKept DEF StoresAsked
<1> QED BY <1>1, <1>2, <1>3 DEF SenderSafe, Continues, StoresAsked

LEMMA CommandKept ==
  ASSUME CommandSafe, CacheIsCurrent, tcl \in [interps : 0 .. MaxInterps,
           records : SUBSET Record, run : Run],
         NEW leaving, Continues(leaving), leaving \cap Tcls = {}, tcl' = tcl
  PROVE  CommandSafe' /\ CacheIsCurrent'
<1>1. ASSUME NEW r \in tcl.records
      PROVE  <<"gcl", r.pid>> \in Name /\ Exists(<<"gcl", r.pid>>) /\ TclHandle(r.handle) \in Tcls
  BY <1>1 DEF CacheIsCurrent, Exists, Record, Name, Tcls
<1>2. CacheIsCurrent'
  BY <1>1 DEF CacheIsCurrent, Continues
<1>3. tcl.run.pc \in Opened => Exists(tcl.run.name)
  BY <1>1 DEF CommandSafe, Opened, InStores
<1>4. StoresAsked(tcl.run)'
  BY <1>3, StoresAskedKept DEF StoresAsked, CommandSafe
<1> QED BY <1>2, <1>4 DEF CommandSafe

LEMMA MonitorKept ==
  ASSUME NEW p \in Pids, MonitorSafe(p), NEW leaving, Continues(leaving),
         p \notin leaving, lisp'[p] = lisp[p]
  PROVE  MonitorSafe(p)'
<1>1. <<"maxima", p>> \in Name BY Names
<1>2. lisp[p].ready => Exists(<<"maxima", p>>)
  BY DEF MonitorSafe, Exists
<1> QED BY <1>1, <1>2 DEF MonitorSafe, Continues, TakesInt, TakesTerm

LEMMA CreditKept ==
  ASSUME NEW p \in Pids, CreditSafe(p), Unwritten(<<"maxima", p>>),
         Unwritten(<<"gcl", p>>), lisp'[p] = lisp[p]
  PROVE  CreditSafe(p)'
  BY DEF CreditSafe, Credits, Due, Word, Unwritten
(***************************************************************************)
(* What a step of each party has to show                                   *)
(***************************************************************************)

LEMMA LispStep ==
  ASSUME IInv, TypeOK', NEW p \in Pids, UNCHANGED <<kill, tcl>>,
         \A q \in Pids \ {p} : lisp'[q] = lisp[q] /\ CreditSafe(q)',
         NEW leaving \in SUBSET {p}, Continues(leaving),
         MonitorSafe(p)', CreditSafe(p)', \A n \in Name : WordSafe(n)'
  PROVE  IInv'
<1>1. \A u \in Users : SenderSafe(u)'
  BY SenderKept, HandlesApart DEF IInv
<1>2. CommandSafe' /\ CacheIsCurrent'
  <2>1. leaving \cap Tcls = {} BY HandlesApart
  <2> QED BY <2>1, CommandKept DEF IInv, TypeOK
<1>3. \A q \in Pids \ {p} : MonitorSafe(q)'
  BY MonitorKept DEF IInv
<1> QED BY <1>1, <1>2, <1>3 DEF IInv

LEMMA KillStep ==
  ASSUME IInv, TypeOK', NEW u \in Users, UNCHANGED <<lisp, tcl>>,
         \A v \in Users \ {u} : kill'[v] = kill[v],
         NEW leaving \in SUBSET {u}, Continues(leaving), SenderSafe(u)',
         \A p \in Pids : CreditSafe(p)', \A n \in Name : WordSafe(n)'
  PROVE  IInv'
<1>1. \A v \in Users \ {u} : SenderSafe(v)'
  BY SenderKept DEF IInv
<1>2. CommandSafe' /\ CacheIsCurrent'
  <2>1. leaving \cap Tcls = {} BY HandlesApart
  <2> QED BY <2>1, CommandKept DEF IInv, TypeOK
<1>3. \A p \in Pids : MonitorSafe(p)'
  BY MonitorKept, HandlesApart DEF IInv
<1> QED BY <1>1, <1>2, <1>3 DEF IInv

LEMMA TclStep ==
  ASSUME IInv, TypeOK', UNCHANGED <<lisp, kill>>,
         NEW leaving \in SUBSET Tcls, Continues(leaving), CommandSafe', CacheIsCurrent',
         \A p \in Pids : CreditSafe(p)', \A n \in Name : WordSafe(n)'
  PROVE  IInv'
<1>1. \A u \in Users : SenderSafe(u)'
  BY SenderKept, HandlesApart DEF IInv
<1>2. \A p \in Pids : MonitorSafe(p)'
  BY MonitorKept, HandlesApart DEF IInv
<1> QED BY <1>1, <1>2 DEF IInv

LEMMA QuietStep ==
  ASSUME IInv, \A n \in Name : Unwritten(n)
  PROVE  /\ \A n \in Name : WordSafe(n)'
         /\ \A p \in Pids : lisp'[p] = lisp[p] => CreditSafe(p)'
<1>1. \A n \in Name : WordSafe(n)'
  BY WordKept DEF IInv
<1>2. \A p \in Pids : lisp'[p] = lisp[p] => CreditSafe(p)'
  BY CreditKept, Names DEF IInv
<1> QED BY <1>1, <1>2

(* A word with what a store changes of it.                                 *)
Updates(new, o, word, owed, writes, raced) ==
  new = [o EXCEPT !.word = word, !.owed = owed, !.writes = writes, !.raced = raced]

LEMMA WordUpdated ==
  ASSUME NEW o \in SharedWord, NEW word \in SUBSET Bit, NEW owed \in SUBSET Bit,
         NEW writes \in Nat, NEW raced \in BOOLEAN, NEW new,
         Updates(new, o, word, owed, writes, raced)
  PROVE  /\ new \in SharedWord
         /\ new.word = word /\ new.owed = owed /\ new.writes = writes /\ new.raced = raced
         /\ new.posted = o.posted /\ new.quit = o.quit /\ new.asked = o.asked
         /\ new.number = o.number /\ new.holders = o.holders
<1>1. PICK k \in 0 .. MaxStarts, h \in SUBSET Handle, a \in SUBSET Bit, p \in Nat, q \in BOOLEAN,
           w0 \in SUBSET Bit, d0 \in SUBSET Bit, n0 \in Nat, r0 \in BOOLEAN :
        o = [number |-> k, holders |-> h, word |-> w0, asked |-> a,
             writes |-> n0, owed |-> d0, raced |-> r0, posted |-> p, quit |-> q]
  BY SMTT(30), ZenonT(30) DEF SharedWord
<1>2. new = [number |-> k, holders |-> h, word |-> word, asked |-> a,
             writes |-> writes, owed |-> owed, raced |-> raced, posted |-> p, quit |-> q]
  BY <1>1, SMTT(30), ZenonT(30) DEF Updates
<1> QED
  BY <1>1, <1>2, SMTT(30), ZenonT(30) DEF SharedWord

(* The store of a sender, one more in writes, pays for the interrupt that  *)
(* its copy or its own bit may cause.                                      *)
LEMMA StoreAddedEffect ==
  ASSUME IInv, NEW run \in Run, run.pc = "store", StoresAsked(run), StoreAdded(run),
         UNCHANGED lisp
  PROVE  /\ object' \in [Name -> SharedWord] /\ Continues({})
         /\ \A n \in Name : WordSafe(n)'
         /\ \A p \in Pids : CreditSafe(p)'
<1> DEFINE m == run.name
<1>1. /\ m \in Name /\ run.mask \subseteq object[m].asked /\ run.copy \subseteq object[m].asked
      /\ run.copy \in SUBSET Bit /\ run.mask \in SUBSET Bit
      /\ object \in [Name -> SharedWord]
  BY DEF StoresAsked, Opened, Run, IInv, TypeOK
<1>2. /\ object' \in [Name -> SharedWord]
      /\ \A n \in Name \ {m} : object'[n] = object[n]
      /\ object'[m].word = run.copy \cup run.mask
      /\ object'[m].owed = object[m].owed \cup run.mask
      /\ object'[m].writes = object[m].writes + 1
      /\ object'[m].raced = (object[m].raced \/ run.copy # object[m].word)
      /\ object'[m].posted = object[m].posted /\ object'[m].quit = object[m].quit
      /\ object'[m].asked = object[m].asked /\ object'[m].number = object[m].number
      /\ object'[m].holders = object[m].holders
  <2>1. DOMAIN object' = Name /\ object' = [n \in DOMAIN object' |-> object'[n]]
    BY <1>1, Zenon DEF StoreAdded
  <2>2. \A n \in Name \ {m} : object'[n] = object[n]
    BY <1>1, SMTT(30) DEF StoreAdded
  <2>3. object[m] \in SharedWord
    BY <1>1
  <2>4. PICK raced, word, owed, writes, old, new :
          /\ raced \in BOOLEAN /\ raced = (object[m].raced \/ run.copy # object[m].word)
          /\ word = run.copy \cup run.mask /\ owed = object[m].owed \cup run.mask
          /\ writes = object[m].writes + 1 /\ old = object[m] /\ new = object'[m]
    OBVIOUS
  <2>5. Updates(new, old, word, owed, writes, raced)
    <3>1. object'[m] = [object[m] EXCEPT
             !.word = run.copy \cup run.mask, !.owed = object[m].owed \cup run.mask,
             !.writes = object[m].writes + 1,
             !.raced = (object[m].raced \/ run.copy # object[m].word)]
      BY <1>1, Zenon DEF StoreAdded, Added
    <3> QED
      BY <2>4, <3>1, Zenon DEF Updates
  <2>6. raced \in BOOLEAN
    BY <2>4, Zenon
  <2>7. owed \in SUBSET Bit /\ word \in SUBSET Bit /\ writes \in Nat /\ old \in SharedWord
    BY <1>1, <2>3, <2>4 DEF SharedWord
  <2>8. /\ new \in SharedWord
        /\ new.word = word /\ new.owed = owed /\ new.writes = writes /\ new.raced = raced
        /\ new.posted = old.posted /\ new.quit = old.quit /\ new.asked = old.asked
        /\ new.number = old.number /\ new.holders = old.holders
    BY <2>5, <2>6, <2>7, WordUpdated, SMTT(30), ZenonT(30)
  <2>9. object' \in [Name -> SharedWord]
    BY <1>1, <2>1, <2>2, <2>4, <2>8
  <2> QED
    BY <2>2, <2>4, <2>8, <2>9
<1>3. Continues({})
  BY <1>2 DEF Continues
<1>4. ASSUME NEW n \in Name PROVE WordSafe(n)'
  <2>1. WordSafe(n) BY DEF IInv
  <2>2. CASE n # m
    BY <1>2, <2>1, <2>2 DEF WordSafe
  <2>3. CASE n = m
    BY <1>1, <1>2, <2>1, <2>3 DEF WordSafe
  <2> QED BY <2>2, <2>3
<1>5. ASSUME NEW p \in Pids PROVE CreditSafe(p)'
  <2>1. CreditSafe(p) BY DEF IInv
  <2>2. <<"maxima", p>> \in Name /\ <<"gcl", p>> \in Name BY Names
  <2>3. object'[<<"gcl", p>>].posted = 0
    BY <1>2, <2>1, <2>2 DEF CreditSafe
  <2>4. CASE <<"maxima", p>> # m
    BY <1>2, <2>1, <2>2, <2>3, <2>4 DEF CreditSafe, Credits, Due, Word
  <2>5. CASE <<"maxima", p>> = m
    <3>1. object[m].posted \in Nat /\ object[m].writes \in Nat
      BY <1>1 DEF SharedWord
    <3> QED BY <1>2, <2>1, <2>3, <2>5, <3>1 DEF CreditSafe, Credits
  <2> QED BY <2>4, <2>5
<1> QED BY <1>2, <1>3, <1>4, <1>5
(***************************************************************************)
(* The Lisp process and its monitor                                        *)
(***************************************************************************)

LEMMA StartLispStep ==
  ASSUME IInv, NEW p \in Pids, StartLisp(p)
  PROVE  IInv'
<1>1. UNCHANGED <<kill, tcl>> /\ started' \in 0 .. MaxStarts /\ started' = started + 1
      /\ sends' = sends
  BY WinkillAssumption DEF StartLisp, IInv, TypeOK
<1>2. CASE /\ lisp' = [lisp EXCEPT ![p] = [NoProcess EXCEPT !.kind = "maxima", !.pc = "init"]]
           /\ UNCHANGED object
  <2>1. lisp' \in [Pids -> Process] /\ lisp'[p].pc = "init" /\ lisp'[p].ready = FALSE
        /\ \A q \in Pids \ {p} : lisp'[q] = lisp[q]
    BY <1>2 DEF IInv, TypeOK, Process, NoProcess
  <2>2. TypeOK' BY <1>1, <1>2, <2>1 DEF IInv, TypeOK
  <2>3. Continues({}) /\ \A n \in Name : Unwritten(n) BY <1>2, SameWords
  <2>4. MonitorSafe(p)' BY <2>1 DEF MonitorSafe, TakesInt, TakesTerm
  <2>5. CreditSafe(p)'
    <3>1. CreditSafe(p) /\ object[<<"maxima", p>>].posted \in Nat
          /\ object[<<"maxima", p>>].writes \in Nat
      BY Names DEF IInv, TypeOK, SharedWord
    <3> QED BY <1>2, <2>1, <3>1 DEF CreditSafe, Credits, Due, Word
  <2> QED BY <1>1, <2>1, <2>2, <2>3, <2>4, <2>5, QuietStep, LispStep
<1>3. CASE /\ lisp' = [lisp EXCEPT ![p] = [NoProcess EXCEPT !.kind = "gcl"]]
           /\ Create(<<"gcl", p>>, p, started + 1)
  <2> DEFINE g == <<"gcl", p>>
  <2>1. lisp' \in [Pids -> Process] /\ lisp'[p].pc = "none" /\ lisp'[p].ready = FALSE
        /\ \A q \in Pids \ {p} : lisp'[q] = lisp[q]
    BY <1>3 DEF IInv, TypeOK, Process, NoProcess
  <2>2. /\ object' \in [Name -> SharedWord] /\ Continues({})
        /\ \A k \in Name \ {g} : object'[k] = object[k]
        /\ (\A k \in Name : Unwritten(k)) \/ object'[g] = Mapping(started + 1, {p})
    <3>1. object \in [Name -> SharedWord] /\ started + 1 \in 0 .. MaxStarts
      BY <1>1 DEF IInv, TypeOK
    <3> QED BY <1>3, <3>1, CreateEffect, Names, HandlesApart
  <2>3. TypeOK' BY <1>1, <2>1, <2>2 DEF IInv, TypeOK
  <2>4. MonitorSafe(p)' BY <2>1 DEF MonitorSafe, TakesInt, TakesTerm
  <2>5. ASSUME NEW n \in Name PROVE WordSafe(n)'
    <3>1. WordSafe(n) BY DEF IInv
    <3>2. CASE Unwritten(n) BY <3>1, <3>2, WordKept
    <3>3. CASE n = g /\ object'[g] = Mapping(started + 1, {p})
      BY <3>3 DEF WordSafe, Mapping
    <3>4. CASE n # g BY <2>2, <3>1, <3>4 DEF WordSafe
    <3> QED BY <2>2, <3>2, <3>3, <3>4
  <2>6. ASSUME NEW q \in Pids PROVE CreditSafe(q)'
    <3>1. CreditSafe(q) /\ object[<<"maxima", q>>].posted \in Nat
          /\ object[<<"maxima", q>>].writes \in Nat
      BY Names DEF IInv, TypeOK, SharedWord
    <3>2. object'[<<"maxima", q>>] = object[<<"maxima", q>>]
      BY <2>2, Names
    <3>3. object'[<<"gcl", q>>].posted = 0
      <4>1. CASE <<"gcl", q>> # g BY <2>2, <3>1, <4>1, Names DEF CreditSafe
      <4>2. CASE <<"gcl", q>> = g /\ object'[g] = Mapping(started + 1, {p})
        BY <4>2 DEF Mapping
      <4>3. CASE \A k \in Name : Unwritten(k)
        BY <3>1, <4>3, Names DEF CreditSafe, Unwritten
      <4> QED BY <2>2, <4>1, <4>2, <4>3
    <3>4. CASE q = p
      BY <2>1, <3>1, <3>2, <3>3, <3>4 DEF CreditSafe, Credits, Due, Word
    <3>5. CASE q # p
      BY <2>1, <3>1, <3>2, <3>3, <3>5 DEF CreditSafe, Credits, Due, Word
    <3> QED BY <3>4, <3>5
  <2> QED BY <1>1, <2>1, <2>2, <2>3, <2>4, <2>5, <2>6, LispStep
<1> QED BY <1>2, <1>3 DEF StartLisp

LEMMA InitSharedMemoryStep ==
  ASSUME IInv, NEW p \in Pids, InitSharedMemory(p)
  PROVE  IInv'
<1> DEFINE m == <<"maxima", p>>
<1>1. UNCHANGED <<kill, tcl, started, sends>> /\ lisp[p].pc = "init"
  BY DEF InitSharedMemory
<1>2. PICK ready \in BOOLEAN :
        /\ lisp' = [lisp EXCEPT ![p].pc = "int", ![p].ready = ready]
        /\ Create(m, p, started) \/ (~ready /\ UNCHANGED object)
  BY DEF InitSharedMemory
<1>3. lisp' \in [Pids -> Process] /\ lisp'[p].pc = "int" /\ lisp'[p].ready = ready
      /\ \A q \in Pids \ {p} : lisp'[q] = lisp[q]
  BY <1>2, SMTT(30), ZenonT(30) DEF IInv, TypeOK, Process
<1>4. /\ object' \in [Name -> SharedWord] /\ Continues({})
      /\ \A k \in Name \ {m} : object'[k] = object[k]
      /\ (\A k \in Name : Unwritten(k)) \/ object'[m] = Mapping(started, {p})
      /\ ready => p \in object'[m].holders
  <2>1. object \in [Name -> SharedWord] /\ started \in 0 .. MaxStarts
    BY DEF IInv, TypeOK
  <2>2. CASE Create(m, p, started)
    BY <2>1, <2>2, CreateEffect, Names, HandlesApart
  <2>3. CASE ~ready /\ UNCHANGED object
    BY <2>1, <2>3, SameWords
  <2> QED BY <1>2, <2>2, <2>3
<1>5. TypeOK' BY <1>1, <1>3, <1>4 DEF IInv, TypeOK
<1>6. MonitorSafe(p)' BY <1>3, <1>4 DEF MonitorSafe, TakesInt, TakesTerm
<1>7. ASSUME NEW n \in Name PROVE WordSafe(n)'
  <2>1. WordSafe(n) BY DEF IInv
  <2>2. CASE Unwritten(n) BY <2>1, <2>2, WordKept
  <2>3. CASE n = m /\ object'[m] = Mapping(started, {p})
    BY <2>3 DEF WordSafe, Mapping
  <2>4. CASE n # m BY <1>4, <2>1, <2>4 DEF WordSafe
  <2> QED BY <1>4, <2>2, <2>3, <2>4
<1>8. ASSUME NEW q \in Pids PROVE CreditSafe(q)'
  <2>1. CreditSafe(q) /\ object[<<"maxima", q>>].posted \in Nat
        /\ object[<<"maxima", q>>].writes \in Nat
    BY Names DEF IInv, TypeOK, SharedWord
  <2>2. object'[<<"gcl", q>>].posted = 0
    BY <1>4, <2>1, Names DEF CreditSafe
  <2>3. CASE q = p /\ \A k \in Name : Unwritten(k)
    BY <1>1, <1>3, <2>1, <2>2, <2>3, Names DEF CreditSafe, Credits, Due, Word, Unwritten
  <2>4. CASE q = p /\ object'[m] = Mapping(started, {p})
    <3>1. /\ object'[m].posted = 0 /\ object'[m].writes = 0 /\ object'[m].word = {}
      BY <2>4 DEF Mapping
    <3> QED BY <1>3, <2>2, <2>4, <3>1 DEF CreditSafe, Credits, Due, Word
  <2>5. CASE q # p
    <3>1. object'[<<"maxima", q>>] = object[<<"maxima", q>>]
      BY <1>4, <2>5, Names
    <3> QED BY <1>3, <2>1, <2>2, <2>5, <3>1 DEF CreditSafe, Credits, Due, Word
  <2> QED BY <1>4, <2>3, <2>4, <2>5
<1> QED BY <1>1, <1>3, <1>4, <1>5, <1>6, <1>7, <1>8, LispStep

(* A step of the monitor that does not write.                              *)
LEMMA ReadingStep ==
  ASSUME IInv, NEW p \in Pids, UNCHANGED <<object, kill, tcl, started, sends>>,
         lisp' \in [Pids -> Process], \A q \in Pids \ {p} : lisp'[q] = lisp[q],
         MonitorSafe(p)', CreditSafe(p)'
  PROVE  IInv'
<1>1. Continues({}) /\ \A n \in Name : Unwritten(n) BY SameWords
<1>2. TypeOK' BY DEF IInv, TypeOK
<1> QED BY <1>1, <1>2, QuietStep, LispStep

LEMMA PollIntStep ==
  ASSUME IInv, NEW p \in Pids, PollInt(p)
  PROVE  IInv'
<1> DEFINE next == IF ReadSmSigint(p) THEN "clear_int" ELSE "term"
<1>1. UNCHANGED <<object, kill, tcl, started, sends>> /\ lisp[p].pc = "int"
      /\ lisp' = [lisp EXCEPT ![p].pc = next]
  BY DEF PollInt
<1>2. /\ lisp' \in [Pids -> Process] /\ \A q \in Pids \ {p} : lisp'[q] = lisp[q]
      /\ lisp'[p].pc = next /\ lisp'[p].ready = lisp[p].ready
  BY <1>1 DEF IInv, TypeOK, Process
<1>3. WordSafe(<<"maxima", p>>) /\ MonitorSafe(p) /\ CreditSafe(p)
  BY Names DEF IInv
<1>4. MonitorSafe(p)'
  BY <1>1, <1>2, <1>3 DEF MonitorSafe, TakesInt, TakesTerm, ReadSmSigint, Word, WordSafe
<1>5. CreditSafe(p)'
  BY <1>1, <1>2, <1>3, MasksAreBits DEF CreditSafe, Credits, Due, ReadSmSigint, Word
<1> QED BY <1>1, <1>2, <1>4, <1>5, ReadingStep

LEMMA PollTermStep ==
  ASSUME IInv, NEW p \in Pids, PollTerm(p)
  PROVE  IInv'
<1> DEFINE next == IF ReadSmSigterm(p) THEN "clear_term" ELSE "int"
<1>1. UNCHANGED <<object, kill, tcl, started, sends>> /\ lisp[p].pc = "term"
      /\ lisp' = [lisp EXCEPT ![p].pc = next]
  BY DEF PollTerm
<1>2. /\ lisp' \in [Pids -> Process] /\ \A q \in Pids \ {p} : lisp'[q] = lisp[q]
      /\ lisp'[p].pc = next /\ lisp'[p].ready = lisp[p].ready
  BY <1>1 DEF IInv, TypeOK, Process
<1>3. WordSafe(<<"maxima", p>>) /\ MonitorSafe(p) /\ CreditSafe(p)
  BY Names DEF IInv
<1>4. MonitorSafe(p)'
  BY <1>1, <1>2, <1>3 DEF MonitorSafe, TakesInt, TakesTerm, ReadSmSigterm, Word, WordSafe
<1>5. CreditSafe(p)'
  BY <1>1, <1>2, <1>3 DEF CreditSafe, Credits, Due, Word
<1> QED BY <1>1, <1>2, <1>4, <1>5, ReadingStep

LEMMA LoadToClearStep ==
  ASSUME IInv, NEW p \in Pids, LoadToClear(p)
  PROVE  IInv'
<1> DEFINE next == IF lisp[p].pc = "clear_int" THEN "store_int" ELSE "store_term"
<1>1. UNCHANGED <<object, kill, tcl, started, sends>> /\ lisp[p].pc \in {"clear_int", "clear_term"}
      /\ lisp' = [lisp EXCEPT ![p].copy = Word(p), ![p].pc = next]
  BY DEF LoadToClear
<1>2. Word(p) \subseteq Bit
  BY Names DEF IInv, TypeOK, SharedWord, Word
<1>3. /\ lisp' \in [Pids -> Process] /\ \A q \in Pids \ {p} : lisp'[q] = lisp[q]
      /\ lisp'[p].pc = next /\ lisp'[p].ready = lisp[p].ready /\ lisp'[p].copy = Word(p)
  <2> HIDE DEF next
  <2>1. next \in {"store_int", "store_term"} BY DEF next
  <2> QED BY <1>1, <1>2, <2>1 DEF IInv, TypeOK, Process
<1>4. WordSafe(<<"maxima", p>>) /\ MonitorSafe(p) /\ CreditSafe(p)
  BY Names DEF IInv
<1>5. MonitorSafe(p)'
  BY <1>1, <1>3, <1>4 DEF MonitorSafe, TakesInt, TakesTerm, Word, WordSafe
<1>6. CreditSafe(p)'
  BY <1>1, <1>3, <1>4 DEF CreditSafe, Credits, Due, Word
<1> QED BY <1>1, <1>3, <1>5, <1>6, ReadingStep
(* The store of a reset: the interrupt due goes over into one posted.      *)
LEMMA StoreClearedStep ==
  ASSUME IInv, NEW p \in Pids,
         NEW at, NEW sig, NEW next,
         \/ at = "store_int" /\ sig = SIGINT /\ next = "post_int"
         \/ at = "store_term" /\ sig = SIGTERM /\ next = "post_term",
         StoreCleared(p, at, sig, next)
  PROVE  IInv'
<1> DEFINE m == <<"maxima", p>>
<1>1. UNCHANGED <<kill, tcl, started, sends>> /\ lisp[p].pc = at /\ m \in Name
  BY Names DEF StoreCleared
<1>2. /\ MonitorSafe(p) /\ CreditSafe(p) /\ object[m] \in SharedWord /\ lisp[p] \in Process
      /\ lisp[p].copy \subseteq Bit /\ lisp[p].copy \subseteq object[m].asked
      /\ object \in [Name -> SharedWord] /\ lisp \in [Pids -> Process]
  BY <1>1 DEF IInv, TypeOK, Process, MonitorSafe
<1>3. /\ object' \in [Name -> SharedWord]
      /\ \A n \in Name \ {m} : object'[n] = object[n]
      /\ object'[m].word = lisp[p].copy \ SignalMask(sig)
      /\ object'[m].owed = object[m].owed \ SignalMask(sig)
      /\ object'[m].raced = (object[m].raced \/ lisp[p].copy # object[m].word)
      /\ object'[m].writes = object[m].writes
      /\ object'[m].posted = object[m].posted /\ object'[m].quit = object[m].quit
      /\ object'[m].asked = object[m].asked /\ object'[m].number = object[m].number
      /\ object'[m].holders = object[m].holders
  <2>1. object' = [object EXCEPT ![m].word = lisp[p].copy \ SignalMask(sig),
                                 ![m].owed = @ \ SignalMask(sig),
                                 ![m].raced = @ \/ lisp[p].copy # object[m].word]
    BY DEF StoreCleared, Cleared, Word
  <2> QED BY <1>1, <1>2, <2>1 DEF SharedWord
<1>4. /\ lisp' \in [Pids -> Process] /\ \A q \in Pids \ {p} : lisp'[q] = lisp[q]
      /\ lisp'[p].pc = next /\ lisp'[p].ready = lisp[p].ready
  <2>1. lisp' = [lisp EXCEPT ![p].pc = next, ![p].copy = {}]
    BY DEF StoreCleared
  <2> QED BY <1>2, <2>1 DEF Process
<1>5. TypeOK' BY <1>1, <1>3, <1>4 DEF IInv, TypeOK
<1>6. Continues({}) BY <1>3 DEF Continues
<1>7. MonitorSafe(p)'
  BY <1>1, <1>2, <1>3, <1>4 DEF MonitorSafe, TakesInt, TakesTerm
<1>8. ASSUME NEW n \in Name PROVE WordSafe(n)'
  <2>1. WordSafe(n) BY DEF IInv
  <2>2. CASE n # m BY <1>3, <2>1, <2>2 DEF WordSafe
  <2>3. CASE n = m BY <1>2, <1>3, <2>1, <2>3 DEF WordSafe
  <2> QED BY <2>2, <2>3
<1>9. ASSUME NEW q \in Pids PROVE CreditSafe(q)'
  <2>1. CreditSafe(q) /\ <<"maxima", q>> \in Name /\ <<"gcl", q>> \in Name
    BY Names DEF IInv
  <2>2. object'[<<"gcl", q>>].posted = 0
    BY <1>3, <2>1, Names DEF CreditSafe
  <2>3. CASE q # p
    <3>1. object'[<<"maxima", q>>] = object[<<"maxima", q>>]
      BY <1>3, <2>1, <2>3, Names
    <3> QED BY <1>4, <2>1, <2>2, <2>3, <3>1 DEF CreditSafe, Credits, Due, Word
  <2>4. CASE q = p
    <3>1. object[m].posted \in Nat /\ object[m].writes \in Nat
      BY <1>2 DEF SharedWord
    <3>2. Credits(p)' <= Credits(p) /\ Credits(p) \in Int /\ Credits(p)' \in Int
      <4>1. CASE at = "store_int" /\ sig = SIGINT /\ next = "post_int"
        <5>1. ~Due(p)' BY <1>3, <1>4, <4>1, MasksAreBits DEF Due, Word
        <5>2. Due(p) BY <1>1, <4>1 DEF Due
        <5> QED BY <5>1, <5>2, <1>1, <1>4, <4>1 DEF Credits
      <4>2. CASE at = "store_term" /\ sig = SIGTERM /\ next = "post_term"
        <5>1. Due(p)' => Due(p) BY <1>1, <1>3, <1>4, <4>2 DEF Due, Word
        <5> QED BY <5>1, <1>1, <1>4, <4>2 DEF Credits
      <4> QED BY <4>1, <4>2
    <3> QED BY <1>3, <2>1, <2>2, <2>4, <3>1, <3>2 DEF CreditSafe
  <2> QED BY <2>3, <2>4
<1> QED BY <1>1, <1>4, <1>5, <1>6, <1>7, <1>8, <1>9, LispStep

LEMMA PostInterruptStep ==
  ASSUME IInv, NEW p \in Pids, PostInterrupt(p)
  PROVE  IInv'
<1> DEFINE m == <<"maxima", p>>
<1>1. UNCHANGED <<kill, tcl, started, sends>> /\ lisp[p].pc = "post_int" /\ m \in Name
  BY Names DEF PostInterrupt
<1>2. /\ MonitorSafe(p) /\ CreditSafe(p) /\ object[m].posted \in Nat /\ object[m].writes \in Nat
      /\ object \in [Name -> SharedWord] /\ lisp \in [Pids -> Process]
      /\ SignalMask(SIGINT) \subseteq object[m].asked
  BY <1>1 DEF IInv, TypeOK, SharedWord, MonitorSafe, TakesInt
<1>3. /\ object' \in [Name -> SharedWord]
      /\ \A n \in Name \ {m} : object'[n] = object[n]
      /\ object'[m].posted = object[m].posted + 1
      /\ object'[m].word = object[m].word /\ object'[m].owed = object[m].owed
      /\ object'[m].raced = object[m].raced /\ object'[m].writes = object[m].writes
      /\ object'[m].quit = object[m].quit
      /\ object'[m].asked = object[m].asked /\ object'[m].number = object[m].number
      /\ object'[m].holders = object[m].holders
  BY <1>1, <1>2 DEF PostInterrupt, SharedWord
<1>4. /\ lisp' \in [Pids -> Process] /\ \A q \in Pids \ {p} : lisp'[q] = lisp[q]
      /\ lisp'[p].pc = "term" /\ lisp'[p].ready = lisp[p].ready
  BY <1>2 DEF PostInterrupt, Process
<1>5. TypeOK' BY <1>1, <1>3, <1>4 DEF IInv, TypeOK
<1>6. Continues({}) BY <1>3 DEF Continues
<1>7. MonitorSafe(p)'
  BY <1>1, <1>2, <1>3, <1>4 DEF MonitorSafe, TakesInt, TakesTerm
<1>8. ASSUME NEW n \in Name PROVE WordSafe(n)'
  <2>1. WordSafe(n) BY DEF IInv
  <2> QED BY <1>2, <1>3, <2>1 DEF WordSafe
<1>9. ASSUME NEW q \in Pids PROVE CreditSafe(q)'
  <2>1. CreditSafe(q) /\ <<"maxima", q>> \in Name /\ <<"gcl", q>> \in Name
    BY Names DEF IInv
  <2>2. object'[<<"gcl", q>>].posted = 0
    BY <1>3, <2>1, Names DEF CreditSafe
  <2>3. CASE q # p
    <3>1. object'[<<"maxima", q>>] = object[<<"maxima", q>>]
      BY <1>3, <2>1, <2>3, Names
    <3> QED BY <1>4, <2>1, <2>2, <2>3, <3>1 DEF CreditSafe, Credits, Due, Word
  <2>4. CASE q = p
    <3>1. Due(p)' => Due(p) BY <1>3, <1>4 DEF Due, Word
    <3>2. Credits(p)' + 1 <= Credits(p) /\ Credits(p) \in Int /\ Credits(p)' \in Int
      BY <1>1, <1>4, <3>1 DEF Credits
    <3> QED BY <1>2, <1>3, <2>1, <2>2, <2>4, <3>2 DEF CreditSafe
  <2> QED BY <2>3, <2>4
<1> QED BY <1>1, <1>4, <1>5, <1>6, <1>7, <1>8, <1>9, LispStep

LEMMA PostQuitStep ==
  ASSUME IInv, NEW p \in Pids, PostQuit(p)
  PROVE  IInv'
<1> DEFINE m == <<"maxima", p>>
<1>1. UNCHANGED <<kill, tcl, started, sends>> /\ lisp[p].pc = "post_term" /\ m \in Name
  BY Names DEF PostQuit
<1>2. /\ MonitorSafe(p) /\ object \in [Name -> SharedWord] /\ lisp \in [Pids -> Process]
      /\ SignalMask(SIGTERM) \subseteq object[m].asked
  BY <1>1 DEF IInv, TypeOK, MonitorSafe, TakesTerm
<1>3. /\ object' \in [Name -> SharedWord]
      /\ \A n \in Name \ {m} : object'[n] = object[n]
      /\ object'[m].posted = object[m].posted /\ object'[m].word = object[m].word
      /\ object'[m].owed = object[m].owed /\ object'[m].raced = object[m].raced
      /\ object'[m].writes = object[m].writes /\ object'[m].asked = object[m].asked
      /\ object'[m].number = object[m].number /\ object'[m].holders = object[m].holders
  BY <1>1, <1>2 DEF PostQuit, SharedWord
<1>4. /\ lisp' \in [Pids -> Process] /\ \A q \in Pids \ {p} : lisp'[q] = lisp[q]
      /\ lisp'[p].pc = "int" /\ lisp'[p].ready = lisp[p].ready
  BY <1>2 DEF PostQuit, Process
<1>5. TypeOK' BY <1>1, <1>3, <1>4 DEF IInv, TypeOK
<1>6. Continues({}) BY <1>3 DEF Continues
<1>7. MonitorSafe(p)'
  BY <1>1, <1>2, <1>3, <1>4 DEF MonitorSafe, TakesInt, TakesTerm
<1>8. ASSUME NEW n \in Name PROVE WordSafe(n)'
  <2>1. WordSafe(n) BY DEF IInv
  <2> QED BY <1>2, <1>3, <2>1 DEF WordSafe
<1>9. ASSUME NEW q \in Pids PROVE CreditSafe(q)'
  <2>1. CreditSafe(q) /\ <<"maxima", q>> \in Name /\ <<"gcl", q>> \in Name
    BY Names DEF IInv
  <2>2. object'[<<"gcl", q>>].posted = 0
    BY <1>3, <2>1, Names DEF CreditSafe
  <2>3. /\ object'[<<"maxima", q>>].posted = object[<<"maxima", q>>].posted
        /\ object'[<<"maxima", q>>].writes = object[<<"maxima", q>>].writes
        /\ object'[<<"maxima", q>>].word = object[<<"maxima", q>>].word
    BY <1>3, <2>1, Names
  <2>4. CASE q # p
    BY <1>4, <2>1, <2>2, <2>3, <2>4 DEF CreditSafe, Credits, Due, Word
  <2>5. CASE q = p
    BY <1>1, <1>4, <2>1, <2>2, <2>3, <2>5 DEF CreditSafe, Credits, Due, Word
  <2> QED BY <2>4, <2>5
<1> QED BY <1>1, <1>4, <1>5, <1>6, <1>7, <1>8, <1>9, LispStep

LEMMA ExitStep ==
  ASSUME IInv, NEW p \in Pids, Exit(p)
  PROVE  IInv'
<1>1. /\ UNCHANGED <<kill, tcl, started, sends>>
      /\ lisp[p].kind # "none" /\ lisp' = [lisp EXCEPT ![p] = NoProcess]
      /\ Close(<<lisp[p].kind, p>>, p)
  BY DEF Exit
<1>2. /\ lisp' \in [Pids -> Process] /\ \A q \in Pids \ {p} : lisp'[q] = lisp[q]
      /\ lisp'[p].pc = "none" /\ lisp'[p].ready = FALSE
  BY <1>1 DEF IInv, TypeOK, NoProcess, Process
<1>3. /\ object' \in [Name -> SharedWord] /\ Continues({p})
      /\ \A n \in Name : Unwritten(n)
  <2>1. <<lisp[p].kind, p>> \in Name
    BY <1>1 DEF IInv, TypeOK, Process, Name
  <2> QED BY <1>1, <2>1, CloseEffect DEF IInv, TypeOK
<1>4. TypeOK' BY <1>1, <1>2, <1>3 DEF IInv, TypeOK
<1>5. MonitorSafe(p)' BY <1>2 DEF MonitorSafe, TakesInt, TakesTerm
<1>6. CreditSafe(p)'
  <2>1. CreditSafe(p) /\ object[<<"maxima", p>>].posted \in Nat
        /\ object[<<"maxima", p>>].writes \in Nat
    BY Names DEF IInv, TypeOK, SharedWord
  <2> QED BY <1>2, <1>3, <2>1, Names DEF CreditSafe, Credits, Due, Word, Unwritten
<1> QED BY <1>1, <1>2, <1>3, <1>4, <1>5, <1>6, QuietStep, LispStep

LEMMA GclTakesStep ==
  ASSUME IInv, NEW p \in Pids, GclTakes(p)
  PROVE  IInv'
<1> DEFINE g == <<"gcl", p>>
<1>1. UNCHANGED <<lisp, kill, tcl, started, sends>> /\ g \in Name
      /\ object \in [Name -> SharedWord]
  BY Names DEF GclTakes, IInv, TypeOK
<1>2. /\ object' \in [Name -> SharedWord]
      /\ \A n \in Name \ {g} : object'[n] = object[n]
      /\ object'[g].word = {} /\ object'[g].owed = {}
      /\ object'[g].posted = object[g].posted /\ object'[g].quit = object[g].quit
      /\ object'[g].asked = object[g].asked /\ object'[g].number = object[g].number
      /\ object'[g].holders = object[g].holders
  BY <1>1 DEF GclTakes, SharedWord
<1>3. TypeOK' BY <1>1, <1>2 DEF IInv, TypeOK
<1>4. Continues({}) BY <1>2 DEF Continues
<1>5. MonitorSafe(p)'
  BY <1>1, <1>2, Names DEF IInv, MonitorSafe
<1>6. ASSUME NEW n \in Name PROVE WordSafe(n)'
  <2>1. WordSafe(n) BY DEF IInv
  <2> QED BY <1>2, <2>1 DEF WordSafe
<1>7. ASSUME NEW q \in Pids PROVE CreditSafe(q)'
  <2>1. CreditSafe(q) BY DEF IInv
  <2>2. object'[<<"maxima", q>>] = object[<<"maxima", q>>] BY <1>2, Names
  <2>3. object'[<<"gcl", q>>].posted = 0
    BY <1>2, <2>1, Names DEF CreditSafe
  <2> QED BY <1>1, <2>1, <2>2, <2>3 DEF CreditSafe, Credits, Due, Word
<1> QED BY <1>1, <1>3, <1>4, <1>5, <1>6, <1>7, LispStep
(***************************************************************************)
(* winkill.exe                                                             *)
(***************************************************************************)

LEMMA IdleType == Idle \in Run /\ Idle.pc = "idle"
  BY DEF Idle, Run

(* A run that has opened no word has nothing to keep.                      *)
LEMMA NothingOpen ==
  ASSUME NEW u \in Users, kill'[u].pc \notin Opened,
         kill'[u].pc = "idle" \/ kill'[u].pid \in Pids
  PROVE  SenderSafe(u)'
  BY DEF SenderSafe, StoresAsked, Opened

LEMMA InvokeStep ==
  ASSUME IInv, NEW u \in Users, Invoke(u)
  PROVE  IInv'
<1>1. /\ UNCHANGED <<object, lisp, tcl, started>> /\ kill[u].pc = "idle"
      /\ sends' \in 0 .. MaxSends /\ kill \in [Users -> Run]
  <2>1. /\ UNCHANGED <<object, lisp, tcl, started>> /\ kill[u].pc = "idle"
        /\ sends < MaxSends /\ sends' = sends + 1
    BY DEF Invoke
  <2>2. sends \in 0 .. MaxSends /\ kill \in [Users -> Run]
    BY DEF IInv, TypeOK
  <2> QED BY <2>1, <2>2, WinkillAssumption
<1>2. /\ kill' \in [Users -> Run] /\ \A v \in Users \ {u} : kill'[v] = kill[v]
      /\ kill'[u].pc \notin Opened /\ (kill'[u].pc = "idle" \/ kill'[u].pid \in Pids)
  <2>1. CASE UNCHANGED kill
    BY <1>1, <2>1 DEF Opened
  <2>2. ASSUME NEW q \in Pids, NEW text,
               kill' = [kill EXCEPT ![u] =
                 [Idle EXCEPT !.pc = "gcl", !.pid = q,
                              !.mask = SignalMask(ReadSignal(Unread, text).sig)]]
        PROVE  /\ kill' \in [Users -> Run] /\ \A v \in Users \ {u} : kill'[v] = kill[v]
               /\ kill'[u].pc \notin Opened
               /\ (kill'[u].pc = "idle" \/ kill'[u].pid \in Pids)
    <3> DEFINE mask == SignalMask(ReadSignal(Unread, text).sig)
    <3>1. mask \subseteq Bit
      <4>1. Unread \in Reading BY DEF Unread, Reading
      <4>2. ReadSignal(Unread, text) \in Reading BY <4>1, ReadSignalType
      <4>3. ReadSignal(Unread, text).sig \in Int BY <4>2 DEF Reading
      <4> QED BY <4>3, MasksAreBits
    <3> HIDE DEF mask
    <3>2. kill' = [kill EXCEPT ![u] = [Idle EXCEPT !.pc = "gcl", !.pid = q, !.mask = mask]]
      BY <2>2 DEF mask
    <3> QED BY <1>1, <3>1, <3>2 DEF Idle, Run, Opened
  <2> QED BY <2>1, <2>2 DEF Invoke
<1>3. TypeOK' BY <1>1, <1>2 DEF IInv, TypeOK
<1>4. Continues({}) /\ \A n \in Name : Unwritten(n) BY <1>1, SameWords
<1> QED BY <1>1, <1>2, <1>3, <1>4, NothingOpen, QuietStep, KillStep

LEMMA OpenWordStep ==
  ASSUME IInv, NEW u \in Users, NEW kind \in {"gcl", "maxima"}, NEW otherwise \in Run,
         otherwise.pc \notin Opened, otherwise.pc = "idle" \/ otherwise.pid = kill[u].pid,
         OpenWord(u, kind, otherwise)
  PROVE  IInv'
<1> DEFINE n == <<kind, kill[u].pid>>
<1>1. /\ UNCHANGED <<lisp, tcl, started, sends>> /\ kill[u].pc = kind
      /\ kill \in [Users -> Run] /\ kill[u] \in Run /\ object \in [Name -> SharedWord]
      /\ kill[u].pid \in Pids
  BY DEF OpenWord, IInv, TypeOK, SenderSafe
<1>2. CASE Exists(n)
  <2>1. /\ OpenMapping(n, u, kill[u].mask)
        /\ kill' = [kill EXCEPT ![u].pc = "map", ![u].name = n]
    BY <1>2 DEF OpenWord
  <2>2. n \in Name BY <1>1 DEF Name
  <2>3. IInv'
    <3>1. /\ kill' \in [Users -> Run] /\ \A v \in Users \ {u} : kill'[v] = kill[v]
          /\ kill'[u].pc = "map" /\ kill'[u].name = n /\ kill'[u].mask = kill[u].mask
      BY <1>1, <2>1, <2>2 DEF Run
    <3>2. /\ object' \in [Name -> SharedWord] /\ Continues({})
          /\ u \in object'[n].holders /\ kill[u].mask \subseteq object'[n].asked
          /\ \A k \in Name : Unwritten(k)
      <4>1. kill[u].mask \in SUBSET Bit /\ u \in Handle
        BY <1>1, HandlesApart DEF Run
      <4> QED BY <1>1, <2>1, <2>2, <4>1, OpenEffect
    <3>3. TypeOK' BY <1>1, <3>1, <3>2 DEF IInv, TypeOK
    <3>4. SenderSafe(u)'
      BY <2>2, <3>1, <3>2 DEF SenderSafe, StoresAsked
    <3> QED BY <1>1, <3>1, <3>2, <3>3, <3>4, QuietStep, KillStep
  <2> QED BY <2>3
<1>3. CASE ~Exists(n)
  <2>1. UNCHANGED object /\ kill' = [kill EXCEPT ![u] = otherwise]
    BY <1>3 DEF OpenWord
  <2>2. /\ kill' \in [Users -> Run] /\ \A v \in Users \ {u} : kill'[v] = kill[v]
        /\ kill'[u].pc \notin Opened
        /\ (kill'[u].pc = "idle" \/ kill'[u].pid \in Pids)
    BY <1>1, <2>1
  <2>3. TypeOK' BY <1>1, <2>1, <2>2 DEF IInv, TypeOK
  <2>4. Continues({}) /\ \A k \in Name : Unwritten(k) BY <2>1, SameWords
  <2> QED BY <1>1, <2>2, <2>3, <2>4, NothingOpen, QuietStep, KillStep
<1> QED BY <1>2, <1>3
LEMMA OpenGclStep ==
  ASSUME IInv, NEW u \in Users, OpenGcl(u)
  PROVE  IInv'
<1> DEFINE otherwise == [kill[u] EXCEPT !.pc = "maxima"]
<1>1. /\ otherwise \in Run /\ otherwise.pc \notin Opened /\ otherwise.pid = kill[u].pid
  BY DEF IInv, TypeOK, Run, Opened
<1>2. OpenWord(u, "gcl", otherwise) BY DEF OpenGcl
<1> HIDE DEF otherwise
<1> QED BY <1>1, <1>2, OpenWordStep

LEMMA OpenMaximaStep ==
  ASSUME IInv, NEW u \in Users, OpenMaxima(u)
  PROVE  IInv'
<1>1. Idle.pc \notin Opened BY DEF Idle, Opened
<1> QED BY <1>1, IdleType, OpenWordStep DEF OpenMaxima

(* A step of a run that writes to no word.                                 *)
LEMMA ClosingStep ==
  ASSUME IInv, NEW u \in Users, kill[u].pc \in Opened, kill' = [kill EXCEPT ![u] = Idle],
         Close(kill[u].name, u), UNCHANGED <<lisp, tcl, started, sends>>
  PROVE  IInv'
<1>1. /\ kill' \in [Users -> Run] /\ \A v \in Users \ {u} : kill'[v] = kill[v]
      /\ kill'[u].pc = "idle"
  BY IdleType DEF IInv, TypeOK
<1>2. /\ object' \in [Name -> SharedWord] /\ Continues({u})
      /\ \A n \in Name : Unwritten(n)
  BY CloseEffect DEF IInv, TypeOK, SenderSafe, StoresAsked
<1>3. TypeOK' BY <1>1, <1>2 DEF IInv, TypeOK
<1>4. SenderSafe(u)' BY <1>1, NothingOpen DEF Opened
<1> QED BY <1>1, <1>2, <1>3, <1>4, QuietStep, KillStep

LEMMA MapViewStep ==
  ASSUME IInv, NEW u \in Users, MapView(u)
  PROVE  IInv'
<1>1. /\ kill[u].pc = "map" /\ UNCHANGED <<lisp, tcl, started, sends>>
      /\ kill \in [Users -> Run]
  BY DEF MapView, IInv, TypeOK
<1>2. CASE kill' = [kill EXCEPT ![u] = Idle] /\ Close(kill[u].name, u)
  BY <1>1, <1>2, ClosingStep DEF Opened
<1>3. CASE kill' = [kill EXCEPT ![u].pc = "load"] /\ UNCHANGED object
  <2>1. /\ kill' \in [Users -> Run] /\ \A v \in Users \ {u} : kill'[v] = kill[v]
        /\ kill'[u].pc = "load" /\ kill'[u].name = kill[u].name /\ kill'[u].mask = kill[u].mask
    BY <1>1, <1>3 DEF Run
  <2>2. TypeOK' BY <1>1, <1>3, <2>1 DEF IInv, TypeOK
  <2>3. Continues({}) /\ \A n \in Name : Unwritten(n) BY <1>3, SameWords
  <2>4. SenderSafe(u)'
    BY <1>1, <1>3, <2>1 DEF IInv, SenderSafe, StoresAsked, Opened
  <2> QED BY <1>1, <2>1, <2>2, <2>3, <2>4, QuietStep, KillStep
<1> QED BY <1>2, <1>3 DEF MapView

LEMMA LoadStep ==
  ASSUME IInv, NEW u \in Users, Load(u)
  PROVE  IInv'
<1>1. /\ kill[u].pc = "load" /\ UNCHANGED <<object, lisp, tcl, started, sends>>
      /\ kill \in [Users -> Run] /\ SenderSafe(u)
  BY DEF Load, IInv, TypeOK
<1> DEFINE copy == object[kill[u].name].word
<1>2. copy \subseteq Bit /\ copy \subseteq object[kill[u].name].asked
  <2>1. kill[u].name \in Name BY <1>1 DEF SenderSafe, StoresAsked, Opened
  <2> QED BY <2>1 DEF IInv, TypeOK, SharedWord, WordSafe
<1>3. /\ kill' \in [Users -> Run] /\ \A v \in Users \ {u} : kill'[v] = kill[v]
      /\ kill'[u].pc = "store" /\ kill'[u].name = kill[u].name /\ kill'[u].mask = kill[u].mask
      /\ kill'[u].copy = copy
  <2>1. kill' = [kill EXCEPT ![u].pc = "store", ![u].copy = copy] BY DEF Load
  <2> HIDE DEF copy
  <2> QED BY <1>1, <1>2, <2>1, SMTT(30), ZenonT(30) DEF Run
<1>4. TypeOK' BY <1>1, <1>3 DEF IInv, TypeOK
<1>5. Continues({}) /\ \A n \in Name : Unwritten(n) BY <1>1, SameWords
<1>6. SenderSafe(u)'
  BY <1>1, <1>2, <1>3 DEF SenderSafe, StoresAsked, Opened
<1> QED BY <1>1, <1>3, <1>4, <1>5, <1>6, QuietStep, KillStep

LEMMA StoreStep ==
  ASSUME IInv, NEW u \in Users, Store(u)
  PROVE  IInv'
<1>1. /\ kill[u].pc = "store" /\ UNCHANGED <<lisp, tcl, started, sends>>
      /\ kill \in [Users -> Run] /\ kill[u] \in Run /\ SenderSafe(u) /\ StoreAdded(kill[u])
      /\ kill' = [kill EXCEPT ![u].pc = "close"]
  BY DEF Store, IInv, TypeOK
<1>2. /\ kill' \in [Users -> Run] /\ \A v \in Users \ {u} : kill'[v] = kill[v]
      /\ kill'[u].pc = "close" /\ kill'[u].name = kill[u].name /\ kill'[u].mask = kill[u].mask
  BY <1>1 DEF Run
<1>3. /\ object' \in [Name -> SharedWord] /\ Continues({})
      /\ \A n \in Name : WordSafe(n)'
      /\ \A p \in Pids : CreditSafe(p)'
  BY <1>1, StoreAddedEffect DEF SenderSafe
<1>4. TypeOK' BY <1>1, <1>2, <1>3 DEF IInv, TypeOK
<1>5. SenderSafe(u)'
  <2>1. /\ u \in object[kill[u].name].holders /\ kill[u].name \in Name
        /\ kill[u].mask \subseteq object[kill[u].name].asked
    BY <1>1 DEF SenderSafe, StoresAsked, Opened
  <2>2. Exists(kill[u].name) BY <2>1 DEF Exists
  <2>3. /\ u \in object'[kill[u].name].holders
        /\ kill[u].mask \subseteq object'[kill[u].name].asked
    BY <1>3, <2>1, <2>2 DEF Continues
  <2> QED BY <1>2, <2>1, <2>3 DEF SenderSafe, StoresAsked
<1> QED BY <1>1, <1>2, <1>3, <1>4, <1>5, KillStep

LEMMA CloseSharedMemoryStep ==
  ASSUME IInv, NEW u \in Users, CloseSharedMemory(u)
  PROVE  IInv'
  BY ClosingStep DEF CloseSharedMemory, Opened
(***************************************************************************)
(* tclwinkill.dll                                                          *)
(***************************************************************************)

TclType == [interps : 0 .. MaxInterps, records : SUBSET Record, run : Run]

(* Without records and with no command there is nothing to keep.           *)
LEMMA NoRecords ==
  ASSUME tcl'.records = {}, tcl'.run = Idle
  PROVE  CommandSafe' /\ CacheIsCurrent'
  BY DEF CommandSafe, CacheIsCurrent, StoresAsked, Opened, InStores, Idle

(* The same records and words, and the same command or none.               *)
LEMMA SameRecords ==
  ASSUME CommandSafe, CacheIsCurrent, UNCHANGED object, tcl'.records = tcl.records,
         tcl'.run = tcl.run
  PROVE  CommandSafe' /\ CacheIsCurrent'
  BY DEF CommandSafe, CacheIsCurrent, StoresAsked

LEMMA TclwinkillInitStep ==
  ASSUME IInv, TclwinkillInit
  PROVE  IInv'
<1>1. /\ UNCHANGED <<object, lisp, kill, started, sends>>
      /\ tcl \in TclType /\ tcl.interps + 1 \in 0 .. MaxInterps
      /\ tcl' = [tcl EXCEPT !.interps = @ + 1]
  BY WinkillAssumption DEF TclwinkillInit, IInv, TypeOK, TclType
<1>2. tcl' \in TclType /\ tcl'.records = tcl.records /\ tcl'.run = tcl.run
  BY <1>1 DEF TclType
<1>3. TypeOK' BY <1>1, <1>2 DEF IInv, TypeOK, TclType
<1>4. Continues({}) /\ \A n \in Name : Unwritten(n) BY <1>1, SameWords
<1>5. CommandSafe' /\ CacheIsCurrent' BY <1>1, <1>2, SameRecords DEF IInv
<1> QED BY <1>1, <1>3, <1>4, <1>5, QuietStep, TclStep

LEMMA ClosingAll ==
  ASSUME IInv, NEW handles \in SUBSET Tcls, CloseAll(handles) \/ UNCHANGED object,
         tcl' \in TclType, tcl'.records = {}, tcl'.run = Idle,
         UNCHANGED <<lisp, kill, started, sends>>
  PROVE  IInv'
<1>1. /\ object' \in [Name -> SharedWord]
      /\ \E leaving \in SUBSET Tcls : Continues(leaving)
      /\ \A n \in Name : Unwritten(n)
  <2>1. CASE CloseAll(handles) BY <2>1, CloseAllEffect DEF IInv, TypeOK
  <2>2. CASE UNCHANGED object BY <2>2, SameWords DEF IInv, TypeOK
  <2> QED BY <2>1, <2>2
<1>2. TypeOK' BY <1>1 DEF IInv, TypeOK, TclType
<1>3. CommandSafe' /\ CacheIsCurrent' BY NoRecords
<1> QED BY <1>1, <1>2, <1>3, QuietStep, TclStep

LEMMA DeleteInterpStep ==
  ASSUME IInv, DeleteInterp
  PROVE  IInv'
<1> DEFINE handles == {TclHandle(r.handle) : r \in tcl.records}
<1>1. /\ tcl.interps > 0 /\ tcl.run = Idle /\ UNCHANGED <<lisp, kill, started, sends>>
      /\ CloseAll(handles) \/ UNCHANGED object
      /\ tcl' = [tcl EXCEPT !.interps = tcl.interps - 1, !.records = {}]
      /\ tcl \in TclType
  BY DEF DeleteInterp, CloseRecords, IInv, TypeOK, TclType
<1>2. handles \subseteq Tcls
  BY <1>1 DEF TclType, Record, Tcls
<1>3. tcl' \in TclType /\ tcl'.records = {} /\ tcl'.run = Idle
  <2>1. tcl.interps - 1 \in 0 .. MaxInterps
    <3>1. tcl.interps \in 0 .. MaxInterps BY <1>1 DEF TclType
    <3> QED BY <1>1, <3>1, WinkillAssumption
  <2> QED BY <1>1, <2>1 DEF TclType
<1> HIDE DEF handles
<1> QED BY <1>1, <1>2, <1>3, ClosingAll

LEMMA TclExitStep ==
  ASSUME IInv, TclExit
  PROVE  IInv'
<1>1. /\ CloseAll(Tcls) /\ tcl' = NoTcl /\ UNCHANGED <<lisp, kill, started, sends>>
  BY DEF TclExit, Tcls
<1>2. tcl' \in TclType /\ tcl'.records = {} /\ tcl'.run = Idle
  BY <1>1, IdleType, WinkillAssumption DEF NoTcl, TclType
<1> QED BY <1>1, <1>2, ClosingAll

(* getSharedMemoryPtr with a mask of bits and a handle of its own.         *)
LEMMA FindRecordStep ==
  ASSUME IInv, NEW p \in Pids, NEW mask \in SUBSET Bit, tcl.run = Idle, sends < MaxSends,
         sends' = sends + 1, UNCHANGED <<lisp, kill, started>>,
         FindRecord(p, sends + 1, mask)
  PROVE  IInv'
<1> DEFINE n == <<"gcl", p>>
           run == [Idle EXCEPT !.pc = "load", !.pid = p, !.name = n, !.mask = mask]
           k == sends + 1
           record == [pid |-> p, number |-> object[n].number, handle |-> k]
<1>1. /\ tcl \in TclType /\ object \in [Name -> SharedWord] /\ n \in Name
      /\ sends' \in 0 .. MaxSends /\ k \in 1 .. MaxSends
      /\ CommandSafe /\ CacheIsCurrent
  <2>1. sends \in 0 .. MaxSends /\ MaxSends \in Nat
    BY WinkillAssumption DEF IInv, TypeOK
  <2>2. sends' \in 0 .. MaxSends /\ k \in 1 .. MaxSends
    BY <2>1
  <2> QED BY <2>2, Names DEF IInv, TypeOK, TclType
<1>2. /\ run \in Run /\ run.pc = "load" /\ run.name = n /\ run.mask = mask
      /\ record \in Record /\ record.pid = p /\ record.handle = k
      /\ record.number = object[n].number
      /\ TclHandle(k) \in Handle
  <2>1. object[n].number \in 0 .. MaxStarts BY <1>1 DEF SharedWord
  <2>2. k \in 0 .. MaxSends BY <1>1
  <2> HIDE DEF k
  <2> QED BY <1>1, <2>1, <2>2 DEF Idle, Run, Record, Handle, TclHandle
<1>3. CASE /\ \E r \in tcl.records : r.pid = p
           /\ tcl' = [tcl EXCEPT !.run = run]
           /\ object' = [object EXCEPT ![n].asked = @ \cup mask]
  <2> HIDE DEF run, record, k
  <2>1. /\ object' \in [Name -> SharedWord] /\ Continues({}) /\ mask \subseteq object'[n].asked
        /\ \A i \in Name : Unwritten(i)
        /\ \A i \in Name : object'[i].holders = object[i].holders
                           /\ object'[i].number = object[i].number
    BY <1>1, <1>3, SMTT(30), ZenonT(30) DEF SharedWord, Continues, Unwritten
  <2>2. tcl' \in TclType /\ tcl'.records = tcl.records /\ tcl'.run = run
    BY <1>1, <1>2, <1>3 DEF TclType
  <2>3. TypeOK' BY <1>1, <2>1, <2>2 DEF IInv, TypeOK, TclType
  <2>4. CommandSafe'
    BY <1>1, <1>2, <1>3, <2>1, <2>2 DEF CommandSafe, StoresAsked, Opened, InStores
  <2>5. CacheIsCurrent'
    <3>1. \A r \in tcl.records : <<"gcl", r.pid>> \in Name BY <1>1, Names DEF TclType, Record
    <3> QED BY <1>1, <2>1, <2>2, <3>1 DEF CacheIsCurrent
  <2> QED BY <2>1, <2>3, <2>4, <2>5, QuietStep, TclStep
<1>4. CASE ~Exists(n) /\ UNCHANGED <<object, tcl>>
  <2>1. TypeOK' BY <1>1, <1>4 DEF IInv, TypeOK
  <2>2. Continues({}) /\ \A i \in Name : Unwritten(i) BY <1>4, SameWords
  <2>3. CommandSafe' /\ CacheIsCurrent' BY <1>1, <1>4, SameRecords
  <2> QED BY <2>1, <2>2, <2>3, QuietStep, TclStep
<1>5. CASE /\ ~ \E r \in tcl.records : r.pid = p
           /\ OpenMapping(n, TclHandle(k), mask)
           /\ \/ UNCHANGED tcl
              \/ \E found \in {run, Idle} :
                   tcl' = [tcl EXCEPT !.records = @ \cup {record}, !.run = found]
  <2> HIDE DEF run, record, k
  <2>1. /\ object' \in [Name -> SharedWord] /\ Continues({})
        /\ TclHandle(k) \in object'[n].holders /\ mask \subseteq object'[n].asked
        /\ object'[n].number = object[n].number
        /\ \A i \in Name : Unwritten(i)
    BY <1>1, <1>2, <1>5, OpenEffect
  <2>2. /\ tcl' \in TclType /\ tcl.records \subseteq tcl'.records
        /\ tcl'.records \subseteq tcl.records \cup {record}
        /\ tcl'.run = Idle \/ (tcl'.run = run /\ record \in tcl'.records)
    <3>1. CASE UNCHANGED tcl BY <1>1, <3>1
    <3>2. ASSUME NEW found \in {run, Idle},
                 tcl' = [tcl EXCEPT !.records = @ \cup {record}, !.run = found]
          PROVE  /\ tcl' \in TclType /\ tcl.records \subseteq tcl'.records
                 /\ tcl'.records \subseteq tcl.records \cup {record}
                 /\ tcl'.run = Idle \/ (tcl'.run = run /\ record \in tcl'.records)
      BY <1>1, <1>2, <3>2, IdleType DEF TclType
    <3> QED BY <1>5, <3>1, <3>2
  <2>3. TypeOK' BY <1>1, <2>1, <2>2 DEF IInv, TypeOK, TclType
  <2>4. CommandSafe'
    <3>1. CASE tcl'.run = Idle
      BY <3>1 DEF CommandSafe, StoresAsked, Opened, InStores, Idle
    <3>2. CASE tcl'.run = run /\ record \in tcl'.records
      BY <1>1, <1>2, <2>1, <3>2 DEF CommandSafe, StoresAsked, Opened, InStores
    <3> QED BY <2>2, <3>1, <3>2
  <2>5. CacheIsCurrent'
    <3> SUFFICES ASSUME NEW r \in tcl'.records
                 PROVE  /\ TclHandle(r.handle) \in object'[<<"gcl", r.pid>>].holders
                        /\ r.number = object'[<<"gcl", r.pid>>].number
      BY DEF CacheIsCurrent
    <3>1. CASE r = record BY <1>2, <2>1, <3>1
    <3>2. CASE r \in tcl.records
      <4>1. <<"gcl", r.pid>> \in Name BY <1>1, <3>2, Names DEF TclType, Record
      <4>2. /\ TclHandle(r.handle) \in object[<<"gcl", r.pid>>].holders
            /\ r.number = object[<<"gcl", r.pid>>].number
        BY <1>1, <3>2 DEF CacheIsCurrent
      <4> QED BY <2>1, <4>1, <4>2 DEF Continues, Exists
    <3> QED BY <2>2, <3>1, <3>2
  <2> QED BY <2>1, <2>3, <2>4, <2>5, QuietStep, TclStep
<1> QED BY <1>3, <1>4, <1>5 DEF FindRecord
LEMMA WinKillCmdStep ==
  ASSUME IInv, WinKillCmd
  PROVE  IInv'
<1>1. /\ tcl.run = Idle /\ sends < MaxSends /\ sends' = sends + 1
      /\ UNCHANGED <<lisp, kill, started>>
  BY DEF WinKillCmd
<1>2. CASE UNCHANGED <<object, tcl>>
  <2>1. TypeOK'
    <3>1. sends \in 0 .. MaxSends BY DEF IInv, TypeOK
    <3>2. sends' \in 0 .. MaxSends BY <1>1, <3>1, WinkillAssumption
    <3> QED BY <1>1, <1>2, <3>2 DEF IInv, TypeOK
  <2>2. Continues({}) /\ \A n \in Name : Unwritten(n) BY <1>2, SameWords
  <2>3. CommandSafe' /\ CacheIsCurrent' BY <1>2, SameRecords DEF IInv
  <2> QED BY <1>1, <2>1, <2>2, <2>3, QuietStep, TclStep
<1>3. ASSUME NEW p \in Pids, NEW first, NEW second,
             FindRecord(p, sends + 1, ReadOption(ReadOption(NoOptions, first), second).mask)
      PROVE  IInv'
  BY <1>1, <1>3, MaskOfOptions, FindRecordStep
<1> QED BY <1>2, <1>3 DEF WinKillCmd

LEMMA TclLoadStep ==
  ASSUME IInv, TclLoad
  PROVE  IInv'
<1> DEFINE copy == object[tcl.run.name].word
<1>1. /\ tcl.run.pc = "load" /\ UNCHANGED <<object, lisp, kill, started, sends>>
      /\ tcl \in TclType /\ CommandSafe /\ CacheIsCurrent
  BY DEF TclLoad, IInv, TypeOK, TclType
<1>2. copy \subseteq Bit /\ copy \subseteq object[tcl.run.name].asked
  <2>1. tcl.run.name \in Name BY <1>1 DEF CommandSafe, StoresAsked, Opened
  <2> QED BY <2>1 DEF IInv, TypeOK, SharedWord, WordSafe
<1>3. /\ tcl' \in TclType /\ tcl'.records = tcl.records
      /\ tcl'.run.pc = "store" /\ tcl'.run.name = tcl.run.name
      /\ tcl'.run.mask = tcl.run.mask /\ tcl'.run.copy = copy
  <2>1. tcl' = [tcl EXCEPT !.run.pc = "store", !.run.copy = copy] BY DEF TclLoad
  <2> HIDE DEF copy
  <2> QED BY <1>1, <1>2, <2>1 DEF TclType, Run
<1>4. TypeOK' BY <1>1, <1>3 DEF IInv, TypeOK, TclType
<1>5. Continues({}) /\ \A n \in Name : Unwritten(n) BY <1>1, SameWords
<1>6. CommandSafe'
  BY <1>1, <1>2, <1>3 DEF CommandSafe, StoresAsked, Opened, InStores
<1>7. CacheIsCurrent'
  BY <1>1, <1>3 DEF CacheIsCurrent
<1> QED BY <1>1, <1>4, <1>5, <1>6, <1>7, QuietStep, TclStep

LEMMA TclStoreStep ==
  ASSUME IInv, TclStore
  PROVE  IInv'
<1>1. /\ tcl.run.pc = "store" /\ UNCHANGED <<lisp, kill, started, sends>>
      /\ tcl \in TclType /\ tcl.run \in Run /\ CommandSafe /\ CacheIsCurrent
      /\ StoreAdded(tcl.run) /\ tcl' = [tcl EXCEPT !.run = Idle]
  BY DEF TclStore, IInv, TypeOK, TclType
<1>2. tcl' \in TclType /\ tcl'.records = tcl.records /\ tcl'.run = Idle
  BY <1>1, IdleType DEF TclType
<1>3. /\ object' \in [Name -> SharedWord] /\ Continues({})
      /\ \A n \in Name : WordSafe(n)'
      /\ \A p \in Pids : CreditSafe(p)'
  BY <1>1, StoreAddedEffect DEF CommandSafe
<1>4. TypeOK' BY <1>1, <1>2, <1>3 DEF IInv, TypeOK, TclType
<1>5. CommandSafe'
  BY <1>2 DEF CommandSafe, StoresAsked, Opened, InStores, Idle
<1>6. CacheIsCurrent'
  <2> SUFFICES ASSUME NEW r \in tcl.records
               PROVE  /\ TclHandle(r.handle) \in object'[<<"gcl", r.pid>>].holders
                      /\ r.number = object'[<<"gcl", r.pid>>].number
    BY <1>2 DEF CacheIsCurrent
  <2>1. <<"gcl", r.pid>> \in Name BY <1>1, Names DEF TclType, Record
  <2>2. /\ TclHandle(r.handle) \in object[<<"gcl", r.pid>>].holders
        /\ r.number = object[<<"gcl", r.pid>>].number
    BY <1>1 DEF CacheIsCurrent
  <2> QED BY <1>3, <2>1, <2>2 DEF Continues, Exists
<1> QED BY <1>1, <1>3, <1>4, <1>5, <1>6, TclStep

(***************************************************************************)
(* The theorems                                                            *)
(***************************************************************************)

LEMMA InitHolds == Init => IInv
<1> SUFFICES ASSUME Init PROVE IInv OBVIOUS
<1>1. TypeOK
  <2>1. Mapping(0, {}) \in SharedWord
    BY WinkillAssumption DEF Mapping, SharedWord
  <2>2. NoProcess \in Process BY DEF NoProcess, Process
  <2>3. NoTcl \in TclType BY IdleType, WinkillAssumption DEF NoTcl, TclType
  <2>4. started \in 0 .. MaxStarts /\ sends \in 0 .. MaxSends
    BY WinkillAssumption DEF Init
  <2> QED BY <2>1, <2>2, <2>3, <2>4, IdleType DEF Init, TypeOK, TclType
<1>2. \A u \in Users : SenderSafe(u)
  BY DEF Init, Idle, SenderSafe, StoresAsked, Opened
<1>3. CommandSafe /\ CacheIsCurrent
  BY DEF Init, NoTcl, Idle, CommandSafe, StoresAsked, CacheIsCurrent, Opened, InStores
<1>4. \A p \in Pids : MonitorSafe(p) /\ CreditSafe(p)
  <2> SUFFICES ASSUME NEW p \in Pids PROVE MonitorSafe(p) /\ CreditSafe(p) OBVIOUS
  <2>1. lisp[p].pc = "none" /\ lisp[p].ready = FALSE
    BY DEF Init, NoProcess
  <2>2. \A n \in Name : object[n].posted = 0 /\ object[n].writes = 0 /\ object[n].word = {}
    BY DEF Init, Mapping
  <2> QED BY <2>1, <2>2, Names
          DEF MonitorSafe, TakesInt, TakesTerm, CreditSafe, Credits, Due, Word
<1>5. \A n \in Name : WordSafe(n)
  BY SMTT(30), ZenonT(30) DEF Init, Mapping, WordSafe
<1> QED BY <1>1, <1>2, <1>3, <1>4, <1>5 DEF IInv

LEMMA StutterHolds == IInv /\ UNCHANGED vars => IInv'
<1> SUFFICES ASSUME IInv, UNCHANGED vars PROVE IInv' OBVIOUS
<1>1. UNCHANGED <<object, lisp, kill, tcl, started, sends>> BY DEF vars
<1>2. TypeOK' BY <1>1 DEF IInv, TypeOK
<1>3. Continues({}) /\ \A n \in Name : Unwritten(n) BY <1>1, SameWords
<1>4. CommandSafe' /\ CacheIsCurrent' BY <1>1, SameRecords DEF IInv
<1> QED BY <1>1, <1>2, <1>3, <1>4, QuietStep, TclStep

(* The invariant holds in every state.                                     *)
THEOREM InvHolds == Spec => []IInv
<1>1. IInv /\ [Next]_vars => IInv'
  <2> SUFFICES ASSUME IInv, [Next]_vars PROVE IInv' OBVIOUS
  <2>1. CASE \E p \in Pids : StartLisp(p) \/ InitSharedMemory(p) \/ Exit(p) \/ GclTakes(p)
    BY <2>1, StartLispStep, InitSharedMemoryStep, ExitStep, GclTakesStep
  <2>2. CASE \E p \in Pids : Monitor(p)
    <3>1. PICK p \in Pids : Monitor(p) BY <2>2
    <3>2. CASE PollInt(p) \/ PollTerm(p) \/ LoadToClear(p)
      BY <3>2, PollIntStep, PollTermStep, LoadToClearStep
    <3>3. CASE ResetSmSigint(p) \/ ResetSmSigterm(p)
      BY <3>3, StoreClearedStep DEF ResetSmSigint, ResetSmSigterm
    <3>4. CASE PostInterrupt(p) \/ PostQuit(p)
      BY <3>4, PostInterruptStep, PostQuitStep
    <3> QED BY <3>1, <3>2, <3>3, <3>4 DEF Monitor
  <2>3. CASE \E u \in Users : Invoke(u) \/ OpenGcl(u) \/ OpenMaxima(u) \/ MapView(u)
                               \/ Load(u) \/ Store(u) \/ CloseSharedMemory(u)
    BY <2>3, InvokeStep, OpenGclStep, OpenMaximaStep, MapViewStep, LoadStep, StoreStep,
       CloseSharedMemoryStep
  <2>4. CASE TclwinkillInit \/ DeleteInterp \/ TclExit \/ WinKillCmd \/ TclLoad \/ TclStore
    BY <2>4, TclwinkillInitStep, DeleteInterpStep, TclExitStep, WinKillCmdStep,
       TclLoadStep, TclStoreStep
  <2>5. CASE UNCHANGED vars BY <2>5, StutterHolds
  <2> QED BY <2>1, <2>2, <2>3, <2>4, <2>5 DEF Next
<1> QED BY <1>1, InitHolds, PTL DEF Spec

(* The variables keep their types.                                         *)
THEOREM TypeCorrect == Spec => []TypeOK
<1>1. IInv => TypeOK BY DEF IInv
<1> QED BY <1>1, InvHolds, PTL

(* No process is interrupted or ended that nobody meant to, in whatever    *)
(* order the loads and stores of any number of senders fall.               *)
THEOREM NobodyUnasked == Spec => []NothingUnasked
<1>1. IInv => NothingUnasked BY DEF IInv, NothingUnasked, WordSafe
<1> QED BY <1>1, InvHolds, PTL

(* Lost updates bring back signals, but never more interrupts than there   *)
(* were stores by senders.                                                 *)
THEOREM InterruptsAreSent == Spec => []NoMoreInterruptsThanSends
<1>1. IInv => NoMoreInterruptsThanSends
  <2> SUFFICES ASSUME IInv, NEW n \in Name PROVE object[n].posted <= object[n].writes
    BY DEF NoMoreInterruptsThanSends
  <2>1. object[n].posted \in Nat /\ object[n].writes \in Nat
    BY DEF IInv, TypeOK, SharedWord
  <2>2. PICK p \in Pids : n = <<"gcl", p>> \/ n = <<"maxima", p>> BY DEF Name
  <2>3. CreditSafe(p) BY DEF IInv
  <2>4. Credits(p) \in Nat BY DEF Credits
  <2>5. CASE n = <<"gcl", p>> BY <2>1, <2>3, <2>5 DEF CreditSafe
  <2>6. CASE n = <<"maxima", p>> BY <2>1, <2>3, <2>4, <2>6 DEF CreditSafe
  <2> QED BY <2>2, <2>5, <2>6
<1> QED BY <1>1, InvHolds, PTL

(* Bits are lost or brought back by races only.                            *)
THEOREM LossesAreRaces == Spec => []LostOnlyInRace
<1>1. IInv => LostOnlyInRace BY DEF IInv, LostOnlyInRace, WordSafe
<1> QED BY <1>1, InvHolds, PTL

(* A record of the extension is the word that processes of its pid use.    *)
THEOREM RecordsAreCurrent == Spec => []CacheIsCurrent
<1>1. IInv => CacheIsCurrent BY DEF IInv
<1> QED BY <1>1, InvHolds, PTL
=============================================================================
