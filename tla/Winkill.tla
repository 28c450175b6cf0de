------------------------------- MODULE Winkill -------------------------------
(***************************************************************************)
(* Signals on Windows (src/interfaces/xmaxima/win32).  A Lisp process      *)
(* creates a named shared memory word, one bit for each signal             *)
(* (winkill_lib.c), and its monitor thread polls the word and clears the   *)
(* bits it has seen (win_signals.lisp).  winkill.exe (winkill.c) and the   *)
(* Tcl command winkill of the extension tclwinkill.dll (tclwinkill.c) open *)
(* the word of a pid by its name and set a bit.                            *)
(*                                                                         *)
(* Every update of the word, "*at |= value" and "*at &= ~mask", is a load  *)
(* and a store that others may come between.  Windows keeps a mapping as   *)
(* long as somebody holds a handle to it, and its name with it: that       *)
(* kernel, and a GCL process with its own word, are external.  A word is   *)
(* the set of the bits that are 1.                                         *)
(***************************************************************************)
EXTENDS Integers, Sequences, FiniteSets

CONSTANTS
  Pids,       \* process numbers; Windows uses one again
  Users,      \* those who may run winkill.exe at the same time
  MaxStarts,  \* bound: Lisp processes started
  MaxSends,   \* bound: winkill programs and Tcl commands run
  MaxInterps  \* bound: Tcl interpreters that load the extension

ASSUME WinkillAssumption ==
  /\ MaxStarts \in Nat /\ MaxSends \in Nat /\ MaxInterps \in Nat
  /\ IsFiniteSet(Pids) /\ IsFiniteSet(Users)
  /\ Pids \cap Users = {} /\ (Pids \cup Users) \cap ({"tcl"} \X (0 .. MaxSends)) = {}

SIGINT == 2
SIGTERM == 15

(* The rows of the table that a Windows compiler keeps, in their order.    *)
SigNames == <<[name |-> "INT",  number |-> SIGINT],
              [name |-> "ILL",  number |-> 4],
              [name |-> "ABRT", number |-> 22],
              [name |-> "FPE",  number |-> 8],
              [name |-> "SEGV", number |-> 11],
              [name |-> "TERM", number |-> SIGTERM]>>

(* Mutant: the count is not reduced.                                       *)
SignalMask_AnyBit(n) == {n}

(* 1 << n on a 32 bit word: the processor takes the count modulo 32.       *)
SignalMask(n) == {n % 32}
Bit == 0 .. 31

(* What "%d" reads of a text that begins with a number.                    *)
Numeral == [t \in {"15", "5", "34", "-1"} |->
              IF t = "15" THEN 15 ELSE IF t = "5" THEN 5 ELSE IF t = "34" THEN 34 ELSE -1]

(* The loop over the table from entry i on: the entry it breaks at, or the *)
(* end.                                                                    *)
Lookup(i, text) ==
  LET hits == {j \in i .. Len(SigNames) : SigNames[j].name = text}
  IN  IF hits = {} THEN Len(SigNames) + 1
      ELSE CHOOSE j \in hits : \A k \in hits : j <= k

(* One signal argument: a number, a name of the table, or sig unchanged.   *)
(* entry is the loop's pointer, which is not set back.                     *)
ReadSignal(st, text) ==
  IF text \in DOMAIN Numeral THEN [st EXCEPT !.sig = Numeral[text]]
  ELSE IF text = "" THEN st
  ELSE LET j == Lookup(st.entry, text)
       IN  IF j > Len(SigNames) THEN [st EXCEPT !.entry = j]
           ELSE [st EXCEPT !.entry = j, !.sig = SigNames[j].number]

Unread == [sig |-> -1, entry |-> 1]

Name == {"gcl", "maxima"} \X Pids

VARIABLES
  object,   \* object[n]: the mapping named n, its word, and its history
  lisp,     \* lisp[p]: the process p and its monitor thread
  kill,     \* kill[u]: the winkill.exe that the user u runs
  tcl,      \* the extension: interpreters, records, the command that runs
  started,  \* processes started
  sends     \* winkill programs and commands run

vars == <<object, lisp, kill, tcl, started, sends>>

(***************************************************************************)
(* A mapping: holders of a handle and the word; as history, asked: what    *)
(* those who opened it set out to send; writes: their stores; owed: the    *)
(* bits stored that no reset has taken since; raced: a store undid another *)
(* update; posted and quit: the interrupts and the $quit its monitor       *)
(* posted.                                                                 *)
(***************************************************************************)
Mapping(number, who) ==
  [number |-> number, holders |-> who, word |-> {}, asked |-> {}, writes |-> 0,
   owed |-> {}, raced |-> FALSE, posted |-> 0, quit |-> FALSE]

Exists(n) == object[n].holders # {}
NoProcess == [kind |-> "none", pc |-> "none", ready |-> FALSE, copy |-> {}]
Idle == [pc |-> "idle", pid |-> 0, name |-> <<>>, mask |-> {}, copy |-> {}, handle |-> 0]
NoTcl == [interps |-> 0, records |-> {}, run |-> Idle]

Init ==
  /\ object = [n \in Name |-> Mapping(0, {})]
  /\ lisp = [p \in Pids |-> NoProcess]
  /\ kill = [u \in Users |-> Idle]
  /\ tcl = NoTcl
  /\ started = 0 /\ sends = 0

(***************************************************************************)
(* Windows: handles and the word                                           *)
(***************************************************************************)

(* CreateFileMapping: the mapping of that name if there is one, its word   *)
(* as it stands, otherwise a new one of zeros.                             *)
Create(n, who, number) ==
  object' = IF Exists(n) THEN [object EXCEPT ![n].holders = @ \cup {who}]
            ELSE [object EXCEPT ![n] = Mapping(number, {who})]

OpenMapping(n, who, mask) ==
  object' = [object EXCEPT ![n].holders = @ \cup {who}, ![n].asked = @ \cup mask]

Close(n, who) == object' = [object EXCEPT ![n].holders = @ \ {who}]

(***************************************************************************)
(* The Lisp process and its monitor thread                                 *)
(***************************************************************************)

(* A process of a Lisp that loads winkill_lib, or a GCL, which has a word  *)
(* of its own.                                                             *)
StartLisp(p) ==
  /\ lisp[p].kind = "none" /\ started < MaxStarts
  /\ started' = started + 1
  /\ \/ /\ lisp' = [lisp EXCEPT ![p] = [NoProcess EXCEPT !.kind = "maxima", !.pc = "init"]]
        /\ UNCHANGED object
     \/ /\ lisp' = [lisp EXCEPT ![p] = [NoProcess EXCEPT !.kind = "gcl"]]
        /\ Create(<<"gcl", p>>, p, started + 1)
  /\ UNCHANGED <<kill, tcl, sends>>

(* init_shared_memory.  The mapping may be refused, or its view: then the  *)
(* handle stays and nothing is read.  The monitor starts in any case.      *)
InitSharedMemory(p) ==
  /\ lisp[p].pc = "init"
  /\ \E ready \in BOOLEAN :
       /\ lisp' = [lisp EXCEPT ![p].pc = "int", ![p].ready = ready]
       /\ \/ Create(<<"maxima", p>>, p, started)
          \/ ~ready /\ UNCHANGED object
  /\ UNCHANGED <<kill, tcl, started, sends>>

Word(p) == object[<<"maxima", p>>].word

(* Mutant: a test of the wrong bit.                                        *)
ReadSmSigterm_WrongBit(p) == lisp[p].ready /\ SignalMask(SIGINT) \subseteq Word(p)

ReadSmSigint(p) == lisp[p].ready /\ SignalMask(SIGINT) \subseteq Word(p)
ReadSmSigterm(p) == lisp[p].ready /\ SignalMask(SIGTERM) \subseteq Word(p)

(* Mutant: the rounds of a monitor that looks for SIGINT alone.            *)
PollInt_Only(p) ==
  /\ lisp[p].pc = "int"
  /\ lisp' = [lisp EXCEPT ![p].pc = IF ReadSmSigint(p) THEN "clear_int" ELSE "int"]
  /\ UNCHANGED <<object, kill, tcl, started, sends>>

PollInt(p) ==
  /\ lisp[p].pc = "int"
  /\ lisp' = [lisp EXCEPT ![p].pc = IF ReadSmSigint(p) THEN "clear_int" ELSE "term"]
  /\ UNCHANGED <<object, kill, tcl, started, sends>>

PollTerm(p) ==
  /\ lisp[p].pc = "term"
  /\ lisp' = [lisp EXCEPT ![p].pc = IF ReadSmSigterm(p) THEN "clear_term" ELSE "int"]
  /\ UNCHANGED <<object, kill, tcl, started, sends>>

(* reset_sm_sigint and reset_sm_sigterm: the load, then the store.         *)
LoadToClear(p) ==
  /\ lisp[p].pc \in {"clear_int", "clear_term"}
  /\ lisp' = [lisp EXCEPT ![p].copy = Word(p),
                          ![p].pc = IF @ = "clear_int" THEN "store_int" ELSE "store_term"]
  /\ UNCHANGED <<object, kill, tcl, started, sends>>

(* Mutants: a reset that clears nothing, and one that clears everything,   *)
(* as reset_shared_memory does.                                            *)
Cleared_Nothing(word, sig) == word
Cleared_All(word, sig) == {}
Cleared(word, sig) == word \ SignalMask(sig)

StoreCleared(p, at, sig, next) ==
  LET n == <<"maxima", p>> IN
  /\ lisp[p].pc = at
  /\ object' = [object EXCEPT ![n].word = Cleared(lisp[p].copy, sig),
                              ![n].owed = @ \ SignalMask(sig),
                              ![n].raced = @ \/ lisp[p].copy # Word(p)]
  /\ lisp' = [lisp EXCEPT ![p].pc = next, ![p].copy = {}]
  /\ UNCHANGED <<kill, tcl, started, sends>>

ResetSmSigint(p) == StoreCleared(p, "store_int", SIGINT, "post_int")
ResetSmSigterm(p) == StoreCleared(p, "store_term", SIGTERM, "post_term")

(* process-interrupt of the main thread, with an error and with $quit.     *)
PostInterrupt(p) ==
  /\ lisp[p].pc = "post_int"
  /\ object' = [object EXCEPT ![<<"maxima", p>>].posted = @ + 1]
  /\ lisp' = [lisp EXCEPT ![p].pc = "term"]
  /\ UNCHANGED <<kill, tcl, started, sends>>

PostQuit(p) ==
  /\ lisp[p].pc = "post_term"
  /\ object' = [object EXCEPT ![<<"maxima", p>>].quit = TRUE]
  /\ lisp' = [lisp EXCEPT ![p].pc = "int"]
  /\ UNCHANGED <<kill, tcl, started, sends>>

(* The process ends, by $quit or in any other way: Windows closes its      *)
(* handle if close_shared_memory has not.                                  *)
Exit(p) ==
  /\ lisp[p].kind # "none"
  /\ Close(<<lisp[p].kind, p>>, p)
  /\ lisp' = [lisp EXCEPT ![p] = NoProcess]
  /\ UNCHANGED <<kill, tcl, started, sends>>

(* External: a GCL process takes what is in its word.                      *)
GclTakes(p) ==
  /\ lisp[p].kind = "gcl" /\ object[<<"gcl", p>>].word # {}
  /\ object' = [object EXCEPT ![<<"gcl", p>>].word = {}, ![<<"gcl", p>>].owed = {}]
  /\ UNCHANGED <<lisp, kill, tcl, started, sends>>

Monitor(p) ==
  \/ PollInt(p) \/ PollTerm(p) \/ LoadToClear(p)
  \/ ResetSmSigint(p) \/ ResetSmSigterm(p) \/ PostInterrupt(p) \/ PostQuit(p)

(***************************************************************************)
(* "*at |= value", by winkill.exe and by the Tcl command: run is either.   *)
(***************************************************************************)

Added(word, mask) == word \cup mask

StoreAdded(run) ==
  object' = [object EXCEPT
    ![run.name].word = Added(run.copy, run.mask),
    ![run.name].owed = @ \cup run.mask,
    ![run.name].writes = @ + 1,
    ![run.name].raced = @ \/ run.copy # object[run.name].word]

(***************************************************************************)
(* winkill.exe                                                             *)
(***************************************************************************)

(* main's arguments "-text pid".  Without the dash, or without a signal or *)
(* a pid in them, it prints its usage and exits.                           *)
Invoke(u) ==
  /\ kill[u].pc = "idle" /\ sends < MaxSends
  /\ sends' = sends + 1
  /\ \/ UNCHANGED kill
     \/ \E p \in Pids, text \in {"INT", "TERM", "34", "-1", "HUP"} :
          LET sig == ReadSignal(Unread, text).sig IN
          /\ sig >= 0
          /\ kill' = [kill EXCEPT ![u] =
               [Idle EXCEPT !.pc = "gcl", !.pid = p, !.mask = SignalMask(sig)]]
  /\ UNCHANGED <<object, lisp, tcl, started>>

(* The word of a gcl process of that pid first, then that of a maxima;     *)
(* neither: it exits.                                                      *)
OpenWord(u, kind, otherwise) ==
  LET n == <<kind, kill[u].pid>> IN
  /\ kill[u].pc = kind
  /\ IF Exists(n)
     THEN /\ OpenMapping(n, u, kill[u].mask)
          /\ kill' = [kill EXCEPT ![u].pc = "map", ![u].name = n]
     ELSE UNCHANGED object /\ kill' = [kill EXCEPT ![u] = otherwise]
  /\ UNCHANGED <<lisp, tcl, started, sends>>

OpenGcl(u) == OpenWord(u, "gcl", [kill[u] EXCEPT !.pc = "maxima"])
OpenMaxima(u) == OpenWord(u, "maxima", Idle)

(* MapViewOfFile, which may fail: the program exits.                       *)
MapView(u) ==
  /\ kill[u].pc = "map"
  /\ \/ kill' = [kill EXCEPT ![u].pc = "load"] /\ UNCHANGED object
     \/ kill' = [kill EXCEPT ![u] = Idle] /\ Close(kill[u].name, u)
  /\ UNCHANGED <<lisp, tcl, started, sends>>

Load(u) ==
  /\ kill[u].pc = "load"
  /\ kill' = [kill EXCEPT ![u].pc = "store", ![u].copy = object[kill[u].name].word]
  /\ UNCHANGED <<object, lisp, tcl, started, sends>>

Store(u) ==
  /\ kill[u].pc = "store"
  /\ StoreAdded(kill[u])
  /\ kill' = [kill EXCEPT ![u].pc = "close"]
  /\ UNCHANGED <<lisp, tcl, started, sends>>

CloseSharedMemory(u) ==
  /\ kill[u].pc = "close"
  /\ Close(kill[u].name, u)
  /\ kill' = [kill EXCEPT ![u] = Idle]
  /\ UNCHANGED <<lisp, tcl, started, sends>>

(***************************************************************************)
(* tclwinkill.dll.  A record keeps the handle and the view of a gcl word.  *)
(***************************************************************************)

TclwinkillInit ==
  /\ tcl.interps < MaxInterps /\ tcl.run = Idle
  /\ tcl' = [tcl EXCEPT !.interps = @ + 1]
  /\ UNCHANGED <<object, lisp, kill, started, sends>>

TclHandle(k) == <<"tcl", k>>
CloseAll(handles) ==
  object' = [n \in Name |-> [object[n] EXCEPT !.holders = @ \ handles]]

(* An interpreter that had the command goes.  The last one closes the      *)
(* records; each one drops the list, closed or not.  Mutant: not dropped.  *)
CloseRecords_KeepList(interps) ==
  /\ IF interps <= 0 THEN CloseAll({TclHandle(r.handle) : r \in tcl.records})
     ELSE UNCHANGED object
  /\ tcl' = [tcl EXCEPT !.interps = interps]

CloseRecords(interps) ==
  /\ IF interps <= 0 THEN CloseAll({TclHandle(r.handle) : r \in tcl.records})
     ELSE UNCHANGED object
  /\ tcl' = [tcl EXCEPT !.interps = interps, !.records = {}]

DeleteInterp ==
  /\ tcl.interps > 0 /\ tcl.run = Idle
  /\ CloseRecords(tcl.interps - 1)
  /\ UNCHANGED <<lisp, kill, started, sends>>

(* xmaxima ends, in the middle of a command or not: close_shared_memory1   *)
(* or Windows closes all there is, lost handles too.                       *)
TclExit ==
  /\ tcl # NoTcl
  /\ CloseAll({TclHandle(k) : k \in 0 .. MaxSends})
  /\ tcl' = NoTcl
  /\ UNCHANGED <<lisp, kill, started, sends>>

(* The value of -signal is read from its second character on; "none" stands *)
(* for no such option.                                                     *)
FromSecond == [t \in {"none", "-INT", "INT", "-TERM", "15", "2"} |->
                CASE t = "-INT" -> "INT" [] t = "INT" -> "NT" [] t = "-TERM" -> "TERM"
                  [] t = "15" -> "5" [] OTHER -> ""]

(* One option -signal: a bad one ends the command, and a second name is    *)
(* looked up from the first one's entry on.                                *)
NoOptions == [sig |-> -1, entry |-> 1, ok |-> TRUE, mask |-> {}]
ReadOption(st, value) ==
  LET new == ReadSignal(st, FromSecond[value]) IN
  IF value = "none" THEN st
  ELSE IF ~st.ok \/ new.sig < 0 THEN [st EXCEPT !.ok = FALSE]
  ELSE [new EXCEPT !.mask = @ \cup SignalMask(new.sig)]

(* getSharedMemoryPtr.  A new record's pointer is never returned: the      *)
(* compilers leave it in the register, or a null pointer.  A view that     *)
(* cannot be mapped leaves the handle open.                                *)
FindRecord(p, k, mask) ==
  LET n == <<"gcl", p>>
      run == [Idle EXCEPT !.pc = "load", !.pid = p, !.name = n, !.mask = mask]
      record == [pid |-> p, number |-> object[n].number, handle |-> k]
  IN  \/ /\ \E r \in tcl.records : r.pid = p
         /\ tcl' = [tcl EXCEPT !.run = run]
         /\ object' = [object EXCEPT ![n].asked = @ \cup mask]
      \/ /\ ~ \E r \in tcl.records : r.pid = p
         /\ IF ~Exists(n) THEN UNCHANGED <<object, tcl>>
            ELSE /\ OpenMapping(n, TclHandle(k), mask)
                 /\ \/ UNCHANGED tcl
                    \/ \E found \in {run, Idle} :
                         tcl' = [tcl EXCEPT !.records = @ \cup {record}, !.run = found]

(* "winkill -pid p -signal s ..." up to the pointer.                       *)
WinKillCmd ==
  /\ tcl.interps > 0 /\ tcl.run = Idle /\ sends < MaxSends
  /\ sends' = sends + 1
  /\ \/ UNCHANGED <<object, tcl>>
     \/ \E p \in Pids, first, second \in DOMAIN FromSecond :
          LET st == ReadOption(ReadOption(NoOptions, first), second) IN
          /\ st.ok
          /\ FindRecord(p, sends + 1, st.mask)
  /\ UNCHANGED <<lisp, kill, started>>

TclLoad ==
  /\ tcl.run.pc = "load"
  /\ tcl' = [tcl EXCEPT !.run.pc = "store", !.run.copy = object[tcl.run.name].word]
  /\ UNCHANGED <<object, lisp, kill, started, sends>>

TclStore ==
  /\ tcl.run.pc = "store"
  /\ StoreAdded(tcl.run)
  /\ tcl' = [tcl EXCEPT !.run = Idle]
  /\ UNCHANGED <<lisp, kill, started, sends>>

Next ==
  \/ \E p \in Pids : StartLisp(p) \/ InitSharedMemory(p) \/ Monitor(p)
                     \/ Exit(p) \/ GclTakes(p)
  \/ \E u \in Users : Invoke(u) \/ OpenGcl(u) \/ OpenMaxima(u) \/ MapView(u)
                      \/ Load(u) \/ Store(u) \/ CloseSharedMemory(u)
  \/ TclwinkillInit \/ DeleteInterp \/ TclExit
  \/ WinKillCmd \/ TclLoad \/ TclStore

Spec == Init /\ [][Next]_vars

(* The monitor thread keeps running: it sleeps 0.1 s in each round and     *)
(* waits for nobody.                                                       *)
FairSpec == Spec /\ \A p \in Pids : WF_vars(Monitor(p))

(***************************************************************************)
(* Properties                                                              *)
(***************************************************************************)

Run == [pc : {"idle", "gcl", "maxima", "map", "load", "store", "close"},
        pid : Pids \cup {0}, name : Name \cup {<<>>}, mask : SUBSET Bit,
        copy : SUBSET Bit, handle : {0}]
Handle == Pids \cup Users \cup {TclHandle(k) : k \in 0 .. MaxSends}
Record == [pid : Pids, number : 0 .. MaxStarts, handle : 1 .. MaxSends]
SharedWord == [number : 0 .. MaxStarts, holders : SUBSET Handle,
               word : SUBSET Bit, asked : SUBSET Bit, writes : Nat,
               owed : SUBSET Bit, raced : BOOLEAN, posted : Nat, quit : BOOLEAN]
Process == [kind : {"none", "gcl", "maxima"},
            pc : {"none", "init", "int", "term", "clear_int", "clear_term",
                  "store_int", "store_term", "post_int", "post_term"},
            ready : BOOLEAN, copy : SUBSET Bit]

(* What the variables hold.                                                *)
TypeOK ==
  /\ object \in [Name -> SharedWord]
  /\ lisp \in [Pids -> Process]
  /\ kill \in [Users -> Run]
  /\ tcl \in [interps : 0 .. MaxInterps, records : SUBSET Record, run : Run]
  /\ started \in 0 .. MaxStarts /\ sends \in 0 .. MaxSends

(* Nobody is interrupted, and nothing ends, without somebody having asked  *)
(* for just that of the word the process polls, however the loads and      *)
(* stores of the senders and of the two resets fall.                       *)
NothingUnasked ==
  \A n \in Name :
    /\ object[n].word \subseteq object[n].asked
    /\ object[n].posted > 0 => SignalMask(SIGINT) \subseteq object[n].asked
    /\ object[n].quit => SignalMask(SIGTERM) \subseteq object[n].asked

(* A sender's stale copy can bring back a SIGINT that was already taken,   *)
(* but each store can do so once: no word causes more interrupts than      *)
(* there were sends of any signal.                                         *)
NoMoreInterruptsThanSends ==
  \A n \in Name : object[n].posted <= object[n].writes

(* As long as no store fell between another's load and store, the word is  *)
(* exactly what was sent and not taken since: the monitor's reset of one   *)
(* signal takes no other, and no send takes back another one.              *)
LostOnlyInRace ==
  \A n \in Name : Exists(n) /\ ~object[n].raced => object[n].word = object[n].owed

(* A pid's record in the extension, never looked up again, is still the    *)
(* word that a process of that pid polls: the record's own handle makes    *)
(* every later process open the same mapping.                              *)
CacheIsCurrent ==
  \A r \in tcl.records :
    /\ TclHandle(r.handle) \in object[<<"gcl", r.pid>>].holders
    /\ r.number = object[<<"gcl", r.pid>>].number

(* A bit in the word of a running Maxima does not stay there: the monitor  *)
(* takes it, or the process ends first.                                    *)
BitsAreTaken ==
  \A p \in Pids : \A sig \in {SIGINT, SIGTERM} :
    (lisp[p].ready /\ SignalMask(sig) \subseteq Word(p))
      ~> ~(lisp[p].ready /\ SignalMask(sig) \subseteq Word(p))
=============================================================================
