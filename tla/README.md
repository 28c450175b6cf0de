# A TLA+ development of maxima-mcp

This directory holds TLA+ specifications of the Model Context Protocol server
for Maxima (`src/src/mcp/`), of its Python client
(`src/clients/python/maxima_mcp/`), and of the C code of the repository that
has behaviour of its own: the Windows signals of xmaxima
(`src/interfaces/xmaxima/win32/`), and two programs of the archive, a stack
machine for plotting (`src/archive/o/`) and the arithmetic of modular
coefficients (`src/archive/src/rat3f-hc.c`). With them are configurations that
check them with TLC, and proofs about them that TLAPS checks. Paths in this file are relative to the
repository; the comments of the modules name the functions they model, and
`PROJECT.json` maps each definition to its lines.

The rest of the repository is the computer algebra system Maxima itself. The
server uses it in two ways, as a library in its own Lisp image and as a
subprocess behind a prompt, and that use is modelled; of Maxima's own code only
`cmod` and the three operations on it (`src/src/mutils.lisp`) are, which the archived
arithmetic was to replace.

## Contents

| Module | What it is |
|---|---|
| `McpClient` | the Python client, the server processes it starts and its reader threads |
| `McpClientProofs` | theorems about `McpClient` |
| `McpAgent` | the agent wrapper over the client: operations of two calls |
| `McpAgentProofs` | theorems about `McpAgent` |
| `JsonRpc` | abstract specification: what an MCP connection promises |
| `McpServer` | transport, framing, batches and request handling of the server; implements `JsonRpc` |
| `Ascending` | the elements of a set of numbers in their order, which both of them use |
| `McpServerProofs` | theorems about `McpServer`, among them that it implements `JsonRpc` |
| `McpSession` | `tools/call`: session record, kernel state, usage counters, preflight warning |
| `McpSessionProofs` | theorems about `McpSession` |
| `MaximaSubprocess` | the interactive Maxima process and the prompt counting that reads it |
| `MaximaSubprocessProofs` | theorems about `MaximaSubprocess` |
| `Winkill` | signals on Windows: the shared word, its monitor thread, `winkill.exe` and the Tcl command |
| `WinkillProofs` | theorems about `Winkill` |
| `PlotValues`, `PlotStack` | the archived plot machine: operators on values; instructions, stack and calls |
| `PlotExpr`, `PlotMeaning`, `MCPlot` | what an expression means and how it compiles, the reference for `PlotStack`; the same by recursion, for TLC; the programs checked |
| `PlotHeights` | what a program needs to leave the stack in order: a certificate of heights |
| `PlotStackProofs` | theorems about `PlotStack` |
| `RatMod`, `MCRatMod` | modular coefficients on machine words and bignums against Lisp's; the instance checked |
| `RatModProofs` | theorems about `RatMod` |

## Inventory

### Python client — `clients/python/maxima_mcp/client.py` (modelled)

*State.* `_process`, `_request_id`, `_initialized`, `_stdout_queue`; one reader
thread and two pipes for each server process ever started.
*Operations.* `_call_tool`, `_initialize` (handshake of two requests, one retry),
`_ensure_connected`/`_start_server`, `_send_request`, `close`.
*Interaction.* Writes JSON lines to the server's stdin; a reader thread moves
the server's stdout to a queue; `Queue.get` has a timeout.
*Hard.* Of what a server prints, blank lines and lines that are no JSON are skipped, in two
loops with a limit each and a third without one; a request that timed out is still answered; a server dies or is
restarted between any two steps of a call; the reader thread of a dead server
puts its lines and its end-of-file mark into the *next* server's queue; an
evaluation prints to the stream that carries the protocol.
*Correct means.* A call returns only its own answer; a tool call is never sent
twice; no server process is left behind; the handshake flag speaks of the
running process; every call returns.

### Python agent and CLI — `agent.py`, `cli.py` (partly)

*State.* The client it owns; the text obtained while the LaTeX is asked for.
*Operations.* `_safe_call` and the operations like it, `close`. The CLI is a loop
of single calls and is left out.
*Hard.* An operation is two calls that evaluate the expression twice; the first may
be answered late, and the server may be replaced between them; `MaximaError` is
caught, the client's other exceptions are not.
*Correct means.* A result holds answers to its own operation; the expression is
evaluated again only for the LaTeX; the caller gets its thread back.

### Server transport — `transport.lisp` (modelled)

*State.* The framing of the message read last (a global), the input stream.
*Operations.* `read-json-message` (a line of JSON, or a header block and a
body), `write-json-message`, `run-mcp-server`.
*Hard.* The two framings are told apart line by line; both may be mixed; input
may end anywhere; other programs may write to the same stream.
*Correct means.* A client that writes only messages has each of them dealt with
in order, and answered once, whole and in the framing it used.

### JSON-RPC protocol — `protocol.lisp` (partly)

*State.* The usage counters. *Operations.* `handle-request` and the methods it
dispatches to, `handle-batch-request`, `handle-tools-call`.
*Hard.* Notifications, batches with notifications, errors at several places of
one call, a process that dies in the middle of a batch.
*Correct means.* Calls take effect once and in order; answers are lost only with
the process.

### Session and tools with state — `session.lisp`, `tools-session.lisp`, `tools.lisp`, ... (partly)

*State.* The session record (assumption count, variables table, default
format); behind it the kernel's values, definitions and facts; the counters.
*Operations.* `assume`, `forget`, `assign`, `clear`, `kill`, `reset`,
`set_format`, `evaluate`, `define_function`, and the symbolic tools that look at
the record.
*Hard.* The record is a stale copy of the kernel's state; a tool evaluates
first and updates the record after; three backends keep state for different
times.
*Correct means.* Counters fit together; a failed call leaves the record alone;
the preflight warning is never missing where it is due.

### Maxima subprocess backend — `maxima-subprocess.lisp` (interactive mode modelled)

*State.* `*maxima-process*` and its streams. *Operations.*
`ensure-maxima-subprocess`, `start-maxima-subprocess`, `subprocess-eval`,
`read-until-prompt`, `read-maxima-result`.
*Hard.* Two processes with a pipe each way and only printed prompts to keep them
in step; Maxima may die, or ask a question, at any moment; values may look like
prompts; reads have no timeout.
*Correct means.* An answer belongs to the call it is given to; the process is
replaced when it dies; calls return.

### Windows signals — `interfaces/xmaxima/win32/` (partly)

*State.* A named shared memory word for each Lisp process, a bit for each
signal; the handles that keep it alive; the extension's list of handles and
views, with a count of interpreters.
*Operations.* `init_shared_memory`, the loop of the monitor thread with its
tests and resets, `close_shared_memory`; `winkill.exe -SIG pid`; loading the
extension, `winkill -pid p -signal s ...`, deleting an interpreter.
*Interaction.* Shared memory only; found by the name made of the pid.
*Hard.* Each side updates the word by a load and a store, without a lock; a pid
is used again while somebody still holds the old process's mapping; a mapping or a
view may be refused half-way; handles outlive the list that knows them.
*Correct means.* Nobody is interrupted unasked or more often than asked; a
signal is lost only to a real race; a cached handle is never another word than
the process polls; a signal sent is taken.

### Archived plot machine — `archive/o/` (partly)

*State.* The value stack, its pointer, the flag for undefined results, the
argument vector of each function, where execution is.
*Operations.* 32 unary and 17 binary operators on integers and complex numbers
(`standard.c` and `internal.c`); pushes of numbers, variables and arguments; calls;
jumps that keep or pop the tested value.
*Hard.* Push and pop are not checked; an error leaves by `longjmp` with operands
on the stack; integers wrap, and one quotient traps; a function's arguments
belong to the function, so a recursive call overwrites them; a value may be of
either type at every operator.
*Correct means.* A compiled expression ends, keeps within the stack, leaves it as
it was, and gives what the expression means.

### Archived modular arithmetic — `archive/src/rat3f-hc.c` (partly)

*State.* `modulus`. *Operations.* `cplus`, `cdifference`, `ctimes`, `mcmod`,
`plusrem`, `subrem`, and below them sums that overflow into a two-digit bignum
(`fplus`, `fminus`) and products and remainders of double words (`dblrem`).
*Hard.* Every sum and product may leave the word; C's division cuts towards
zero where Lisp's does not; modulus may be absent, a fixnum or a bignum, and so
may each operand; 1, even, and the largest fixnum moduli.
*Correct means.* True integers without a modulus; with one, true residues, in
the range the next operation needs, and the very numbers Lisp would have made.

### The others (not modelled, or only as a class of calls)

- *Stateless tools* (`tools-algebra.lisp` ... `tools-vector.lisp`): of 133 tools
  all but the ones above check their arguments, put them into one expression,
  evaluate it and wrap the result. `McpSession` has this shape as `Compute` and
  `Query`, with a package load before it as `WithPackage`, and the odd ones as
  `Version` and `Constants`.
- *JSON codec* (`json.lisp`): a layer over a library. What the protocol depends
  on, that the empty array decodes to nil, is in `McpServer`.
- *Entry points and build scripts* (`main*.lisp`, `build*.lisp`, `load.lisp`,
  `package*.lisp`): no state once the server runs.
- *Generated C, start-up objects and stubs* (`archive/src/system-init.c`,
  `sysinit.c`, `make-sys_maxima.c`, `dtrdi.c`, `execute.c`,
  `crosscompile-windows/maxima_longnames.c`): lists of initialisation calls that a
  build script wrote, one for each compiled Lisp file; a wrapper around one
  Fortran routine; an earlier copy of `archive/o/execute.c`; a launcher. They keep no
  state and take no decision that a property could be about.
- *Maxima* (`src/src`, `src/share`): external. Its kernel appears in
  `McpSession` as a set of names and a set of facts, its read-eval-print loop in
  `MaximaSubprocess` as a printer of values, errors and prompts.

### How they interact

    user ── client.py ──stdin──> transport.lisp ── protocol.lisp ── tools ── library kernel
                 ^  queue              |                              └──> subprocess ──> Maxima
                 └── reader thread <──stdout

`McpClient` treats a server as something that answers its requests in order:
what `McpServer` is shown to do for line-delimited requests. `McpServer` treats
a tool call as one step with a success, an error or a crash as its outcome:
`McpSession` says what the step does to the server's state, and
`MaximaSubprocess` opens up the evaluation inside it. The three C programs talk to
none of these: `Winkill` is how xmaxima and a user interrupt a Maxima on Windows,
the two archived ones were to be linked into Maxima.

## The modules

### McpClient

| TLA+ | code |
|---|---|
| `proc`, `requestId`, `initialized`, `queue` | `_process`, `_request_id`, `_initialized`, `_stdout_queue` |
| `pc`, `sending`, `attempt`, `after`, `skipped` | where the caller's thread is, and the locals of `_initialize` and `_send_request`, its counts of skipped lines among them |
| `alive`, `stdin`, `stdinOpen`, `stdout` | the server processes ("generations") and their pipes |
| `held`, `reading` | the line a reader thread has taken and not queued yet; whether it runs |
| `log` | history: to whom, with which method and for which call each request id went |
| `SkipBlank`, `SkipNonJson`, `Refuse`, `MatchId`, `Accept` | what `_send_request` does with a line, as parts of `ReceiveLine` |
| `CallTool`, `StayConnected`, `StartServer`, `SpawnFails`, `WriteRequest`, `ReceiveLine`, `Timeout` | `_call_tool`, `_ensure_connected`, `_start_server`, `_send_request` |
| `UserClose`, `CloseStdin`, `ReapServer`, `CloseNothing` | `close` |
| `ServeRequest`, `PrintLine`, `ServerExits`, `ServerDies` | a server, seen from outside |
| `ReaderTakes`, `ReaderPuts` | `_read_lines`; the queue is looked up at each put |

A call is cut where another actor can come in between: between the look at
`poll()` and the write, at each line read, between the end of input and the
wait in `close`. The client is used by one thread, as its documentation shows
it.

A server's line is one of eight kinds. `result` and `error` are responses; `blank`, `noise`
(no JSON), `scalar` (JSON that is no object) and `object` (a truncated response, or an
object with another id than the awaited one) are what `_send_request` tells apart of the
rest; `eof` is the reader thread's `None`. An evaluation prints lines of the kinds in
`Printable`, any number one after another, and the constant `MaxNoise` bounds how many of
them are on their way at a time: a bound on the number printed would hide the loops over
them. A server that dies may leave an `object` in any case.

Left out: a client made with `timeout=None`, which waits for ever (`client.py:254`); a
printed object that carries the very id that is awaited, which the client cannot tell from
the response; a reader thread that is so slow to start that it finds the process of a later
start in `self._process` (it looks once, at `client.py:193`, and the model has that as part
of the start); the stderr thread; the text of errors.

### McpAgent

| TLA+ | code |
|---|---|
| the variables and actions of `McpClient` | `self._client` |
| `doing`, `wants`, `text` | the call that is waited for, `include_latex`, `text_result` |
| `result` | the `MathResult` returned last, or that the operation raised |
| `answer`, `begun` | the line the last call returned; history: the length of `log` at the start |
| `BeginOperation`, `TextReturns`, `LatexReturns` | `_safe_call` and the methods spelled out like it, cut at the calls |
| `CloseAgent` | `close`, `__exit__` |
| `ClientMoves`, `OthersMove` | the client inside a call; servers and reader threads |

`McpAgent` extends `McpClient` and shares its thread: a call begins where that
thread is idle, and the agent goes on when it is idle again. Direct use of the client
beside the agent (`agent.client`) is left out.

### JsonRpc and McpServer

`JsonRpc` knows a sequence of messages and a sequence of answers: a message is
consumed in order, and its answer, if it has one, is appended whole. Only when
the input also holds lines that belong to no message may a message be lost or
a complaint be added.

`McpServer` has the input as a sequence of *tokens* (lines of six kinds, and
bodies), the framing, the place in `read-json-message`, and a batch under way
(`current`, `todo`, `done`). Each branch of `read-json-message` and
`read-framed-message` is an action; a request of a message is one step
(`HandleRequest`), after which an evaluation may have ended the process
(`Crash`). A client writes a message in either framing, stray lines between
messages, and may close its end in the middle of one. `PROPERTY Promise` is
`JsonRpc` under the mapping given by the INSTANCE: `pending` is the message under
way followed by the messages still in `input`, `answers` is `output` without its
framing, and a stopped or crashed server is not `running`. The messages in the
input and the requests that are answered are picked with `InAscendingOrder`, which
unlike `SelectSeq` has a definition the prover can reason about.

A client's batch is empty or has one or two requests; the constant `BatchClasses` gives
their classes, single requests are of all three. The ids of the n-th message are 2n-1 and 2n.
An id may be absent, which 0 stands for; an explicit `null` is an id like any other, because
it decodes to `:null` (`json.lisp:79`).

Left out: a Content-Length that does not fit its body or is no number, read
errors other than the end of file, the texts of responses.

### McpSession

One action per tool (or class of tools): a call is one step because the server
handles one request at a time. `Evaluates(b, f, err)` is `parse-and-eval`: what
the kernel holds afterwards and whether the tool is told of an error. Its
disjuncts are the ways a backend may go wrong — an evaluation fails with some of its
effects made (`Between`), an answer with the word
"error" in it is taken for a failure although it took effect, a dying process
yields a success, a dead one an error for ever. `Call` is `handle-tools-call`
around it: count, warn, answer. `assign` with a subprocess ends in an error after
the kernel has the value, because there is no package to intern the symbol in.

`Mode` has the library, the two modes the documentation names, and "other": with any other
value of `MAXIMA_MCP_SUBPROCESS_MODE` expressions are evaluated as in batch mode
(`maxima-subprocess.lisp:213`), and the warning about batch mode is not given
(`protocol.lisp:255`).

The kernel here is names and facts. Option variables, `declare` and contexts
are not in it, and arguments of the symbolic and stateless tools are taken to be
free of assignments (`evaluate` stands for the ones that are not).

### MaximaSubprocess

The server's thread (`pc`, `phase`, `got`), the process (`stdin`, `stdout`,
`asking`, `booting`, `alive`) and the answer it gave, tagged with the call that
made Maxima print it. Output is a sequence of *tokens*: values, errors, and the
places at which `read-until-prompt`'s test succeeds. One prompt `(%i4) ` is two
of them, the parenthesis and the space; a parenthesis near a `(%i` of a complex
number is one. The variable `plain` chooses at the start whether expressions are
single statements without such values, which separates what works
(`OwnAnswer`, `InStep`) from what does not (`LastValue`). `NeverWaitsInVain` holds of
all expressions: `read-char` has no timeout, and still the thread waits for Maxima
only while Maxima has something to do, is dead, or waits for an answer itself.

### Winkill

| TLA+ | code |
|---|---|
| `object[n]` | the file mapping `n` (`gcl-<pid>`, `maxima-<pid>`): who holds a handle, the word as the set of its 1 bits |
| its `asked`, `writes`, `owed`, `raced`, `posted`, `quit` | history of the word, for the properties |
| `lisp[p]` | the process and where its monitor thread is; `copy`: the register of a `&=` |
| `kill[u]` | one run of `winkill.exe`; `copy`: the register of its `\|=` |
| `tcl` | interpreters (`refcount`), the list of records, the command that runs |
| `StartLisp`, `InitSharedMemory`, `Exit` | a Lisp process, `init_shared_memory`, its end |
| `PollInt`, `PollTerm`, `LoadToClear`, `ResetSmSigint`, `ResetSmSigterm`, `PostInterrupt`, `PostQuit` | the monitor loop of `win_signals.lisp` and the functions of `winkill_lib.c` it calls |
| `Invoke`, `OpenGcl`, `OpenMaxima`, `MapView`, `Load`, `Store`, `CloseSharedMemory` | `main` of `winkill.c` and `kill_` |
| `TclwinkillInit`, `WinKillCmd`, `FindRecord`, `TclLoad`, `TclStore`, `DeleteInterp`, `TclExit` | `tclwinkill.c` |

The program is cut at each access to the word and at each call of Windows. A
mapping exists as long as somebody holds a handle; `Create` of one that exists
opens it as it stands. Arguments are few texts, read the way `sscanf` and the
table loop read them: a number, a name, a name without its first character, a
number too large for a word. A command of the extension may write or not after a
record was made, because `getSharedMemoryPtr` has no `return` there. Security
attributes, messages, and the exported functions that nobody calls are left out.

### PlotValues, PlotStack, PlotExpr

`PlotValues` has the operators: `Unary` and `Binary` map operands to the set of
outcomes, a value with the undefined flag or an error. Integers wrap at
`IntBits`; bit operations are sets of bits; a division of the least integer by -1
traps. Doubles are the set `Doubles`; what a function of `libm` returns is any of
them, but which arguments it refuses, which it marks undefined and what type
it returns are the code's.

`PlotStack` has one action per kind of instruction. Its `stack` is the
array up to the pointer; `frames` is the chain of running functions, `dummy` their
argument vectors, one per function as in the code, filled by `f_call` from the top
of the stack. An operator that fails has popped some of its operands or none, as
`PoppedByError` lists; `Begin` resets the stack. An access outside it sets
`status` to "corrupt" and goes no further.

`PlotExpr` is the reference: `CodeOf` gives the code of an expression from the code of
its parts, as the comments at each instruction of `internal.c` ask for, `MeaningOf`
its possible outcomes from those of its parts and of the body it calls, without a stack;
`MatchesMeaning` compares. `PlotMeaning` closes the recursion (`Compile`, `Eval`) for
TLC, in a module of its own because a recursive operator would keep the provers out
of `PlotExpr`. The proofs have `Denotes` instead, which says of tables of code and meanings
that they satisfy these equations wherever a program may get to. `execute.c` is not behind this: it runs one
instruction and calls functions that do not exist, so the loop over a program is
the model's, from `try.c`'s.

`PlotHeights` says what the unchecked `push` and `pop` rely on: each place of the code has
a height of the stack, which every instruction takes to the heights of its
successors, and cells may be counted for a program and the functions it calls
(`Certificate`). `TypedTables` is what the parser sees to: constants are values, jumps
stay in their code, functions have four arguments at most. `MCPlot` computes the
heights, the denotation and the tables of its compiled programs, and TLC evaluates the
assumption that all three hold of them.

### RatMod

A chain: a machine keeps a coefficient `acc` made by the C functions, beside it
`exact`, the integer it stands for, never reduced. `form` says what may be
claimed of `acc`: that it is an integer, is balanced around 0, is a remainder of
either sign, or ("loose") had an operand that nobody had reduced, where nothing
is claimed. `Plus`, `Difference` and `Times` go through `my-cplus`
and its like; `MyMcmod`, `Plusrem`, `Subrem` enter with numbers that were not
reduced; `SetModulus` binds `modulus` and reduces by `cmod`. `WideRem` is the 68020's
division of a double word, which leaves its registers alone when the quotient
does not fit.

## The runs

| Run | Bounds | Shows |
|---|---|---|
| `client_returns` | 2 servers, 1 call, a blank or non-JSON line in flight, both limits 1 | every call and every `close` returns, unless blank lines behind a non-JSON line never end; lines of both kinds below, at and above their limits (1.8 million states) |
| `client_eof` | 2 servers, 2 calls | violation: a healthy server reported as disconnected |
| `agent` | 2 servers, 2 calls, a printed number in flight | the safety properties of the client, with the agent as its caller; results are of their own operation, the second evaluation only after the first (4.3 million states) |
| `session` | 1 name, 2 facts, 4 calls, all backends | counters, warning, failed calls (0.6 million states) |
| `session_reset` | same, 3 calls | violation: what `reset` says |
| `server` | 2 messages, 1 stray line, calls in batches | implements `JsonRpc`; order, framing, crashes, progress (1.2 million states) |
| `subprocess` | 3 calls, up to 2 statements each | prompts keep server and Maxima in step; nobody waits in vain; calls return (1 million states) |
| `subprocess_ensure`, `subprocess_last` | same | violations: a dead process is never replaced; answers shift by one call |
| `winkill` | 1 pid used twice, 2 users, 2 sends, 2 interpreters | nothing unasked, no more interrupts than sends, losses in races only, current records, bits taken (0.3 million states) |
| `plot` | words of 4 bits, doubles -1, 0, 1, 6 places on the stack, 5 functions | every operator on operands of both types, nested jumps and calls: bounds, meaning, termination (18 thousand states) |
| `ratmod` | words -8 .. 7, 9 values of `modulus`, chains of 3 | exact or congruent, reduced, equal to Lisp's (55 thousand states) |

*Why the bounds are enough.* Two generations of servers are what the client's
hazard needs, an old reader thread and a new queue; once both are used up
spawning fails, so the failure of a third is covered as well. A call is three requests, so two calls with
a handshake each, timeouts and a restart give up to seven request ids in play.
`MaxBlank` and `MaxNonJson` stand for the limits of 100 and 1000; with 1 there is a line below,
at and above each. The two runs of the client print different kinds: `client_returns` the ones
that keep a call waiting, `agent` the one that ends it by an exception its callers do not
expect. `object` lines come from dying servers in all three, and one more line in flight, or
one more kind, multiplies the states by three or four. Two calls of an agent are one operation with LaTeX, or two without, the
second of which may meet a late answer to the first. A warning that is wrong needs an `assume`, something that removes or
forgets it and a symbolic call; four calls leave room for one more. Two messages
let one batch be followed by anything in the other framing; in the run the requests of a
batch are calls, with and without an id, which succeed or fail, since no property tells the other
classes apart but by the answers they allow. Three calls of a
subprocess have one that starts it, one that disturbs it and one that suffers.
A pid that is used twice, with a sender in the middle of its update while the
first process ends and the second starts, is what a stale word needs; two
senders and the monitor are what a lost and a resurrected bit need; two
interpreters let one go while the other stays. For the plot machine 4 bits have
every boundary of a word in reach, and 6 places are the least that the nested
calls of `MCPlot` fit in: with 5, `InBounds` fails. Three operations of the
arithmetic let a result be the operand of another that overflows; the samples
are the ends of the word and numbers outside it, the moduli none, 1, odd and even ones, the
largest fixnum and two bignums. The safety theorems of client, agent, server, session,
subprocess, signals and arithmetic hold for all bounds, and those about
the plot machine for all its programs, for those that balance the stack, and for those
whose functions do not call themselves (below).

`CHECK_DEADLOCK` is off everywhere: each system may rightly come to rest, with
the calls of its bound made or its input closed.

Every property of a passing run has a mutant: an operator before the definition
it replaces, named `Mut_...` or after it (`Cleared_All` for `Cleared`), with a
plausible mistake that breaks the property.

## Fairness

- *Client*: weak fairness of the caller's thread, `WF(ClientStep)`. Its waits are
  `Queue.get` and `Popen.wait`, both with timeouts, followed by `terminate` and
  `kill`. Nothing is assumed of servers and reader threads: a hanging server is
  among the behaviours. The timeouts are taken to be finite; with the documented
  `timeout=None` (`client.py:224`) a call to a hanging server waits for ever.
  `CallReturns` excepts one behaviour: behind a non-JSON line, blank lines are skipped
  without a limit, each with a fresh timeout (`client.py:323-324`), so a server that prints
  them for ever holds the call. Without the exception the property is violated.
- *Agent*: no liveness of its own. An operation makes at most two calls
  (`SecondOnlyAfterFirst`) and waits for nothing else, and each call returns as
  `CallReturns` says.
- *Server*: `WF(ServerStep)`: the loop goes on when there is input, and an
  evaluation ends or takes the process with it. An evaluation that runs for ever
  is excluded, and with it nothing is claimed.
- *Subprocess*: `WF(ServerStep)` and `WF(MaximaStep)`: neither process rests while
  it can go on. `CallReturns` excepts the case in which Maxima asks a question,
  where the code does wait for ever.
- *Winkill*: `WF(Monitor(p))`: the monitor thread sleeps 0.1 s in each round and
  waits for nobody. Nothing is assumed of senders. `BitsAreTaken` holds although a
  sender may put the bit back, since the word then was without it in between.
- *Plot*: `WF(Step)`: one thread, which never waits.
- *Session* and *RatMod*: no liveness.

## What is proved

*McpClientProofs*, from `ClientAssumption` only (the bounds are natural
numbers, what a server may print unasked is among the kinds of lines):

| Theorem | Statement |
|---|---|
| `TypeCorrect` | `Spec => []TypeOK` |
| `OnlyOneServer` | `Spec => []OnlyCurrentRuns` |
| `InitializedThisServer` | `Spec => []InitializedIsCurrent` |
| `AnswersAreOwn` | `Spec => AnswerIsOwn` |
| `SentOnce` | `Spec => []ToolSentAtMostOnce` |
| `DrainedWhenDone` | `Spec => []DrainedAfterSuccess` |

The invariant is `IInv`, the conjunction of `TypeInv`, `OnlyCurrentRuns`, `Ownership` and
`InitializedIsCurrent`. `AnswerIsOwn` is about the moment a line with the right
id is taken from the queue, and is not inductive: one has to know that *no* line
anywhere, in a pipe, in a reader thread's hand or in any queue, carries the id
of a request that was not sent to that line's server. That is `Ownership`:
every id in a pipe or on a line is at most the length of `log`, and an answer's
`gen` is the one `log` has for its id. It is preserved because an id is used for
one request only, `requestId` being the length of `log`. The answer with id
`requestId` is then the one to the request written last, and while the client
waits that request went to `proc`. `OnlyCurrentRuns` needs that a server is
started only where `proc` is dead, or 0. `SentOnce` has an invariant of its own
(`SentOrPending`): `log` keeps the call each request belongs to, and while the present
call may still write its tool call (`Pending`) it has not written it. `DrainedWhenDone` follows the
newest request through the pipe to the server, the pipe from it, the reader's hand
and the queue. Each keeps the order, so when the answer has reached one of them
the ones before it hold nothing of this server and nothing of it follows the answer
(`NewestIsLast`); when the answer is taken from the queue, nothing is left.

*McpAgentProofs*, from `ClientAssumption`:

| Theorem | Statement |
|---|---|
| `AgentIsACaller` | `AgentSpec => Spec`: what is proved of the client holds under the agent |
| `AgentTypeCorrect` | `AgentSpec => []AgentTypeOK` |
| `EvaluatesAgainOnlyForLatex` | `AgentSpec => []SecondOnlyAfterFirst` |
| `ResultsAreOwn` | `AgentSpec => ResultIsOwn` |

The invariant is the client's `IInv` and `AgentInv`. The second has a budget, one request
for the text and one more once the text is there, from which sent and pending
requests are paid; and it says that while the client waits, the newest request is one
of this operation and later than the text's. `AnswerStep` of the client then makes the
line it returns an answer to that request. Text and LaTeX are of one process unless
the first is dead, by `OnlyCurrentRuns`.

*McpServerProofs*, from `ServerAssumption` (the bounds are natural numbers, a
batch has requests of the classes that exist):

| Theorem | Statement |
|---|---|
| `TypeCorrect` | `Spec => []TypeOK`; never more messages served than sent |
| `RunInOrder` | `Spec => []CallsRunOnceInOrder` |
| `LossIsOneMessage` | `Spec => []LostAnswersAreOfOneMessage` |
| `AnswersKeepFraming` | `Spec => []FramingMatches` |
| `KeepsPromise` | `Spec => Promise`: the server implements `JsonRpc` |

The invariant `IInv` puts all ids on one rising line: the calls executed, the
requests still to do of the message under way, the input, the messages not yet sent
(`InOrder`). That alone makes execution happen once and in order. A call that was
executed is answered, in `done`, or of the message the server crashed in
(`Handling`), which is the one that may lose answers. The framing of an
answer is that of its message because the framing of the message under way is the
one its token was sent in (`Faithful`), and this needs that a header block with a
length ends in its own body or with the input (`Framed`): otherwise a body would be
read under another's header. Messages served, under way and in the input are at most
those sent (`Counted`).

For the promise each action is shown to be a step of `JsonRpc` or a stutter, under
the mapping of the INSTANCE. `pending` is a list in ascending order of
the places of messages in the input. Such a list is unique (`OrderIsUnique`), loses its first
element when a token is read and gains at its end when one is written. Two facts are
added to the invariant: a message half handled has collected exactly the answers of the
requests behind it (`Halfway`); and for a client that writes nothing but
messages, each header line stands next to a length or was preceded by it (`Tidy`),
so that no branch of the transport that drops a message or complains can be taken.

*MaximaSubprocessProofs*, from `SubprocessAssumption` (a number of calls, and at
least one statement in a call):

| Theorem | Statement |
|---|---|
| `TypeCorrect` | `Spec => []TypeOK` |
| `AnswersAreOwn` | `Spec => []OwnAnswer` |
| `StaysInStep` | `Spec => []InStep` |
| `WaitsEnd` | `Spec => []NeverWaitsInVain`: for every expression, plain or not |

The invariant `IInv` is about what the thread has read of a wait followed by what
it may still read (`Stream`). While Maxima works on the statement, it is at most
the space that an earlier prompt left in the pipe (`Bare`); then it is that and one whole reply to this
very wait (`Reply`), whose sights are in its last three tokens, in the startup its last
two. So the count of `read-until-prompt` is never reached before the last token but one, and
what remains is bare again. If the process dies at its work, it stays at the first of the two for ever.
These two theorems say nothing of expressions that are not plain, and
`subprocess_last` shows why. `WaitsEnd` does. Its invariant `WaitInv` says that a wait has
not read what would end it, and that, when Maxima is alive and at rest, what was read of
the wait and what is still in the pipe end in a prompt, since everything Maxima does ends
with printing one. A prompt has both sights, so if the pipe is empty then the wait
would be over.

*McpSessionProofs*, from `SessionAssumption`:

| Theorem | Statement |
|---|---|
| `TypeCorrect` | `Spec => []TypeOK`; the assumption count never falls below zero |
| `StatsAreConsistent` | `Spec => []StatsAddUp` |
| `SilenceMeansAssumed` | `Spec => []NoWarningMeansAssumed` |
| `FailuresLeaveSession` | `Spec => FailureKeepsSession` |

`NoWarningMeansAssumed` speaks of the last reply; its invariant adds
`CountMeansAssumed`, that a positive count means an `assume` succeeded since the
last reset, which each tool must keep whatever its evaluation did.
`FailuresLeaveSession` needs no invariant: each tool looks at its error before it
touches the record.

Proofs are by one step per action; the lemmas `CallStep`, `EvaluateStep`,
`KernelStep` and `IdleStep` of the session cover actions of the same shape.

*WinkillProofs*, from `WinkillAssumption` (some processes, users and numbers of
sends, named apart):

| Theorem | Statement |
|---|---|
| `TypeCorrect` | `Spec => []TypeOK`; words hold the bits of the two signals only |
| `NobodyUnasked` | `Spec => []NothingUnasked` |
| `InterruptsAreSent` | `Spec => []NoMoreInterruptsThanSends` |
| `LossesAreRaces` | `Spec => []LostOnlyInRace` |
| `RecordsAreCurrent` | `Spec => []CacheIsCurrent` |

The invariant `IInv` speaks of whoever is in the middle of something. A sender, the
command and the monitor that have opened a word hold it (`SenderSafe`, `CommandSafe`,
`MonitorSafe`), so that it is not replaced by another word of that name, and their stale copies
are within what was asked. For the count, each interrupt that is due is a credit paid
for by one store (`CreditSafe`): it is a bit of the word, or one the monitor has seen, or
one in its stale copy, or on its way. Handles are let go by their owners only.

*PlotStackProofs*, from `ValuesAssumption` and `StackAssumption`. The first theorem is
for any tables that are `TypedTables`; the next three for any `Programs` and `Functions`
that have a `Certificate`; the last for any that are `TypedTables` and have a
denotation. The programs of `MCPlot` have all of these, which TLC evaluates (`CertifiedPrograms`).

| Theorem | Statement |
|---|---|
| `TypeCorrect` | `Spec => []TypeOK`; integers stay words through every operator |
| `StackIsLeftEmpty` | `Spec => []NoStackWarning` |
| `NeverPopsTooMuch` | `Spec => []OnlyOverflows`: an access outside the array is above it, at any depth of recursion |
| `StaysInBounds` | `Spec => [](program \in P => InBounds)`, where `P` are the programs whose cells the certificate counts |
| `ComputesTheMeaning` | `Denotes(D, P)` implies `Spec => [](program \in P => MatchesMeaning)` |

`TypeCorrect` needs the type of every operator's outcomes (`UnaryTypes`,
`BinaryTypes`). The loops of the code are recursive functions here (`Factorial`,
`IntegerPower`, `PowerOf2`, and the sum in `FromBits`), so one has to show first that there is a function
that their equations describe; that is done by well-founded induction over
sets of naturals, where the library's theorem about numbers would need an operator for
a parameter.

The three theorems about the stack have the argument of a bytecode verifier. The
certificate speaks of one piece of code at a time; the invariant has to speak of calls
within calls. Each frame has a base, the height after its arguments were popped, and the
base of the next one is one cell, the value it will push, below the height its caller is
at (`Stacked`). So a return leaves the caller at the height its certificate counts on.
For the bounds each frame also owns a number of cells above its base (`Covered`). The
second point is that an operator never ends with the caller's own complaint, through the
Bessel functions, which run others. In `MCPlot`, `P` is all programs but the two that
call the recursive `fact`: no finite count covers a recursion whose depth is a value,
and there `InBounds` is TLC's.

`ComputesTheMeaning` compares a machine that jumps with a meaning that does not. One
cannot say in an invariant how far an evaluation has come without the
expression it came from, so the proof goes the other way. `Safe(S)` is the largest
set of configurations that is closed under the machine's steps and from which a run, if it
ends within the stack, ends with an outcome in `S`. `RunsWell` says of an expression that its code, at any place of a
longer one, above any stack and below any frames, is safe if what comes after it is
safe for each outcome the expression has. It is shown by cases on the kind of
expression from the parts, and for a call from the body, all of which have a
lower rank; the rank decreases because no function calls itself. Arguments are the hard part:
they belong to the function, so a call inside an expression overwrites them. An
expression changes only the cells of functions of a lower level (`Keeping`), which
are not those it reads. That fails for `fact`, whose inner call leaves its argument
behind: `x * fact(x - 1)` reads `x` before that call, with the operands in the other order it
would read the inner `x`. So programs with `fact` stay with TLC.

*RatModProofs*, from `RatAssumption` (a half word greater than 1, moduli that are
natural numbers, samples that are integers):

| Theorem | Statement |
|---|---|
| `TypeCorrect` | `Spec => []TypeOK`; a reduced coefficient of a fixnum modulus is a fixnum |
| `IntegersAreExact` | `Spec => []ExactWithoutModulus`, through every overflow |
| `ResiduesAreRight` | `Spec => []Congruent` |
| `StaysReduced` | `Spec => []Reduced` |
| `LispAgrees` | `Spec => []AgreesWithLisp` |

So what TLC sees in words of 4 bits and chains of 3 is true of words of 32 bits and
chains of any length. The invariant `Inv` says of each `form` the size of `acc`
and that `acc` is congruent to `exact`. Congruence is not linear; the proof has it
as "the difference is a multiple" (`Multiple`), adds and multiplies such
differences, and goes back to `%` only in the theorem. The heart is that no
operation on reduced operands is cut: a sum of two balanced numbers fits the word
(`FIX_MOD` leaves at most half the modulus), and the quotient of their double
word product fits one, so that `divsl` does divide. `AgreesWithLisp` follows because a balanced
residue of an odd modulus is unique.

*Only model-checked*: all liveness (`CallReturns` twice,
`EveryMessageServed`, `BitsAreTaken`, `EvaluationEnds`), because liveness under fairness
is out of the prover's reach; `InBounds` and `MatchesMeaning` of the plot machine for
functions that call themselves; and that the code and meanings TLC computes by
recursion (`Compile`, `Eval`) satisfy `Denotes` for expressions other than those of
`MCPlot`, since that is an induction over data. Where the proofs
need an induction over numbers or ranks, they take a least counterexample (`LeastNat`)
or a well-founded set, since the library's induction theorem has an operator for
a parameter. Every safety property of a passing run is stated by a theorem.

## Findings

Each is a violation run, and quoted in `PROJECT.json`.

1. A dead server's reader puts its `None` into the queue of the server started
   after it; a call to the new one ends with "Server disconnected" (`client_eof`).
2. The `reset` tool keeps variables, functions and facts it says it clears
   (`session_reset`).
3. A dead subprocess is never replaced, since `*maxima-process*` stays set
   (`subprocess_ensure`).
4. A value such as `(%i+1)*(x-1)`, or two statements in one expression, shift the
   answers of an interactive subprocess by one call; the server's own `newton`,
   `mnewton` and `implicit_plot` send two statements (`subprocess_last`).

Observed while modelling, with no run of their own:

- *Client*: a stdout line that is a JSON number ends a call with `AttributeError`; the
  comment "with retry limit to avoid infinite loop" (`client.py:283`) holds for the first
  loop over blank lines only, the one behind a non-JSON line (`client.py:323`) has no
  limit; a call that finds its
  server dead after the handshake starts a new one and sends the tool call to it
  uninitialized.
- *Agent*: the class promises to return structured errors instead of raising
  (`agent.py:33`), but catches `MaximaError` only: an operation raises
  `MaximaTimeoutError` or `OSError` (the result "raised" of the model), and a LaTeX call
  that times out takes the text with it. Text and LaTeX may come from two servers, the second without the session of the
  first, when the first dies between the calls; an expression with side effects has
  them twice.
- *Server*: a JSON-RPC line after a stray line with a colon is read as a header
  (`transport.lisp:89`, `125-126`) and never answered. `Promise` allows for it: it
  lets a message be lost when the input holds lines that belong to none.
- *Session*: the warning "no explicit assumptions in session"
  (`protocol.lisp:237`, `245`) is given while the kernel holds facts, because the server
  counts its own successful `assume` calls; an answer that holds the word "error" is
  reported as a failure; `reset` undoes the subprocess's own `display2d` and
  `linel` settings; a misspelt `MAXIMA_MCP_SUBPROCESS_MODE` (mode "other" of the model) gives
  the batch backend (`maxima-subprocess.lisp:213`) without the warning that batch mode
  keeps no state.
- *Subprocess*: an undetermined sign makes the interactive backend wait for ever.
- *Winkill*: the Tcl option `-signal` drops the first character of its value, so `INT` is refused
  and `-INT` works, although the usage shows no dash; a second name is searched from
  the first one's place in the table on; a number of 32 or more counts modulo 32 (34
  is SIGINT); a load and store by one side undoes an update of the other, which loses a signal or brings
  one back; a bit set while the process was ending waits for the next process of that
  pid as long as somebody holds the mapping; a handle is lost when its view cannot
  be mapped, and the list is dropped without closing while other interpreters remain;
  after a refused view a Lisp keeps a mapping that takes signals and delivers none;
  `getSharedMemoryPtr` has no `return` for a new record; `CMkill`
  (`RunMaxima.tcl:497-507`) waits for `winkill`.
- *Plot machine*: arguments belong to the function, so one that is read after a recursive call
  is the inner call's; push and pop are unchecked; a negative power of 0 divides by zero
  without the undefined flag; `execute_fun` runs one instruction; some functions that
  are called are nowhere defined, nor is `STACK_DEPTH`.
- *Modular arithmetic*: `fmod`, which nobody calls, subtracts the modulus from itself where it
  means the result (`rat3f-hc.c:228`); `mcmod` leaves the negative remainders of
  bignums ("the bignum mod does not work", `rat3f.lisp:49`); for an even modulus C and Lisp
  may differ in the sign of the half; with a fixnum modulus `cplus` and `cdifference`
  take bignums for fixnums; `plusrem` and `subrem` may leave -1 for the modulus 1.

## Plan

Done so far, in the order of importance: the client, the server's transport and
request handling with its abstract specification, the session, the subprocess, the
agent over the client; the Windows signals, the archived plot machine and the archived arithmetic with its
proofs.

To model next:

1. A composition of `McpSession` and `MaximaSubprocess`: what a shifted answer does
   to the session record (an `assume` answered with another call's text).
2. `McpClient` over `JsonRpc` in the place of `ServeRequest`, so that the two sides
   of the pipe are checked against one specification.
3. The JSON codec's null, false and empty arrays as operators checked against a
   reference definition; resources and prompts of `protocol.lisp`.

To prove next:

1. `InBounds` for a recursive function whose depth is bounded, as that of `fact` is by
   its argument: a certificate that counts cells by depth.
2. `MatchesMeaning` for it: a rank that decreases with the argument, and an expression that
   reads its arguments before the call that overwrites them.
