# A TLA+ model of the link-scheduling file server

The server is a multithreaded TCP file server. One acceptor thread accepts
connections, a pool of parser threads reads request headers, and a pool of
worker threads serves admitted GET and PUT requests in rounds, under one of
four policies (FCFS, SJF, RR, DRR). A client gets, puts, or runs a closed-loop
load. This directory models the two queues and their condition variables, the
scheduling arithmetic, the transfer of lines and uploads, the shared directory,
admission and shutdown, both ends of a connection, the configuration and start
of the server, the load client, and the metrics.

## 1. Inventory

| Part | State | Operations | Talks to |
|---|---|---|---|
| `RequestQueue` (queue.h, queue.cpp) | `queue_`, `closed_`, `inflight_`, one mutex, one condition variable | push, wait_pop, wait_pop_best, try_pop, requeue, complete, close | parsers push, workers pop/requeue/complete, main closes |
| `FdQueue` (queue.h, queue.cpp) | `queue_`, `closed_`, mutex, condition variable | push, wait_pop, close | acceptor to parsers |
| `Scheduler` (scheduling.cpp) | policy and quantum, fixed; the request's `offset`, `rounds`, `deficit` | next, get_budget, account, should_requeue | called by workers on a request they own |
| `serve_get`, `serve_put` (server.cpp) | the request's counters, the served directory, the staging file | one round of a transfer | file_io, sockets |
| `worker_thread` (main.cpp) | the request it has popped | round, failure, requeue, commit, finish | queue, scheduler, metrics |
| acceptor, parsers, signal handler, `main` (main.cpp) | `shutdown_flag`, `next_request_id` | accept, parse and admit, signal, joins | both queues |
| `Metrics` (metrics.cpp) | `records_` under a mutex | record; summary and CSV after the joins | workers |
| sockets, protocol (socket.cpp, protocol.cpp) | a connection's stream in each direction | read_header_line with deadline and limit, send_all, receive with timeout, reply lines | parsers, workers, client |
| file_io (file_io.cpp) | none | line reads, sizes, file names | workers, parsers |
| configuration (config.cpp) | the parser's position and call stack | parse JSON, load_config | both mains |
| start of the server (main.cpp, socket.cpp) | options, listening socket, threads | flags, checks, create_listening_socket, thread creation | everything above |
| client (client.cpp) | `next`, `failures` shared by its threads | get_file, put_file, health, load_workload | the server, over TCP |

What is hard here:

* **Concurrency.** Notifications are sent after the mutex is released; the queue
  may be closed while requests are in flight that will come back; `arrival_ns`
  is read outside any lock; uploads replace files that other workers are
  reading line by line, by name.
* **Shutdown.** Four kinds of threads stop in a fixed order, and every accepted
  connection must be dealt with on the way.
* **Arithmetic at boundaries.** Lines that end at, just before or just after an
  allowance, lines longer than it, deficits near the end of `uint64_t`.
* **Streams.** TCP cuts header, body and answers into pieces of any size; what
  was read beyond a line belongs to the next reader, on both sides. Timeouts and
  limits are all that stands between the server and a client that trickles,
  falls silent or stops reading.
* **Failure of one step of several.** A broken send, an upload that stops, a
  rename that fails, a flush that fails and is not looked at.

Correctness means: no request lost, duplicated or served by two workers; no
worker asleep beside work or past the end; a download is the file in order and
an upload is committed whole or not at all; the policies send what they
promise; shutdown completes; a client's exit code tells the truth about the
server's files and books; a start does what the whole command line and file say,
or does not happen.
`PROJECT.json` lists each hazard at its line with
the properties that would catch it.

## 2. Modules

`Variant` definitions in the modules are deliberately wrong forms of the
definition that follows them. No specification uses them; they are substituted
for the right one to see that a property notices.

### WorkPool (abstract)

A pool of requests that workers take, hand back or finish, and leave only when
it is shut, empty and nobody holds a request. It has neither mutex nor counter.

### RequestQueue

Each method of the C++ class is one critical section and so one step: `Push`,
`WaitPop`, `WaitPopBest`, `TryPop`, `Requeue`, `Complete`, `Close`. Notifications
that the code sends after unlocking (`push`, `requeue`, `close`) are steps of
their own: `PushNotify`, `RequeueNotify`, `CloseNotify`; `complete` notifies
under the lock. Blocking in `cv_.wait` is membership of `waiters` (`Block`); a
notification or `SpuriousWake` only removes a thread from it, and the thread
evaluates the predicate again in a later step. `Exit` is a pop that returns
false. Which pop the workers use is chosen at the start (`method`); the order
of `wait_pop_best` is the constant operator `Better`.
`try_pop` has no caller in the server; it is modelled as a worker that polls.
`held`, `finished`, `refused` and `unpushed` say where requests are; the
program counters `wpc`, `ppc`, `mpc` say where threads are between unlock and
notify. `requeues` bounds preemption (`MaxRequeues`).

`RequestQueue` implements `WorkPool` (pending is the set of queued requests,
serving is `held`, gone the workers that left).

The history variable `passed` counts who has been popped while a request
waits; it constrains nothing.

### Scheduler, Transfer

`Scheduler` has the arithmetic of scheduling.cpp as operators. `Wrap` stands
for 2^64, and the addition of the quantum to the deficit is modulo `Wrap`.

`Transfer` is the life of one request. A file is the set of positions where its
lines end, so `{3, 7}` has two lines of 3 and 4 bytes; what a byte says is left
out. `GetRound` and `PutRound` are whole rounds of `worker_thread`: budget,
service, accounting, forfeit, requeue or finish. `LinesSelected` states the
result of the selection loop (the lines that fit; or the overrun line; or
nothing). The staging file of an upload records which body byte is at which
position, so that the order of leftover bytes and socket bytes can be checked.
`RoundFails` is any round that fails visibly. A file stays the same during its
download here, and the disk keeps what it is given.

### FileServer

Several workers, a shared directory, and clients that may leave. `serve_get`
opens the file by name for every line, so the grain is one `read_file_line`:
`SelectLine` is an iteration of the selection loop, `SendLine` one of the
packetization loop, and a rename (`Commit`) may fall between any two. The second
look at the directory that `read_file_line` takes at a last line without newline
is a step too (`Resize`). `SendBreaks` is a failing `send_all`; what is sent to a
client that has left may also be swallowed by the kernel (`SendLine` with the
client in `gone`). `ServePut` receives a whole round, `ServePutFails` any part of
one. A round tests the staging file after each `write`, but not its `close`,
which may be what writes the bytes (server.cpp:360): an upload of `FullDisk` may
lose them there (`Flushes`, `torn`) and is committed with what remains
(`Stored`; `Remains` is a text no longer than the whole, whose lines end where
those of the whole do, but for a last one cut short). `Drop`, `Account`, `Commit`,
`CommitFails` and `Finish` are the rest of `worker_thread`. The queue is atomic here, which `RequestQueue` justifies. A
reply is the list of OK lines, an error mark, and the pieces
`<<text, from, to>>` of the body, so a mixture of two versions is visible.
Policy, quantum, requests and the clients that may leave are one of `Setups`,
fixed in the initial state.

### Admission

`Signal` and `SignalShut` are the two effects of the handler (the flag, then
`shutdown` of the listening socket, which resets the backlog: the behaviour of
the kernel this server is built for). The acceptor's loop test, `select`,
`accept` and push are separate steps, so the signal may fall between them;
`accept` may fail at any time, and the loop goes on unless the flag is set. The
`FdQueue` has its condition variable. Admission takes two steps per parser:
`Stamp` (identity and arrival time) and `Push`. The identity comes from an atomic
`fetch_add`, so it is distinct by the language and not part of the state here;
`FileServer` and `Load` rely on it. Headers are modelled by their outcome. `main` is its
three joins. The refusing branch of `FdQueue::push` cannot be taken, because
the only caller is the thread that closes the queue.

### Session

One connection with `client.cpp` at one end and a parser, then a worker, at the
other. The two directions are bounded sequences of bytes; every `recv` takes a
piece of any size up to its buffer (`ClientReadLine`, `ClientReadBody`,
`HeaderRecv`, `StoreRecv`), every `send` puts in as much as fits (`ClientSend`,
`ServerSend`). `HeaderCheck` and `Tick` have the deadline of `read_header_line`
in ticks of a clock finer than a millisecond, as `remaining_ms` is truncated and
then raised to one. A close with unread bytes is a reset, which may destroy what
the other end has not read. `ClientDies` is a client that is killed,
`ConnectionLost` a connection that breaks under the client, which then cannot
know what the server does with what was sent ("link" leaves `open`); a silent
client takes no step. `ClientDiskFails` is a local file that cannot be created or
written; `got` is what that file was given. `CommitTorn` is the commit of an
upload that lost bytes in an unchecked flush. `Replace` is another connection's
upload of the same name. A client other than `client.cpp` may send data, and more
than it announced, together with its header (`eager`, `more`). A line of a file
is one byte. Of the rounds only the choice of lines of a download is kept
(`SelectLines`): with a `quantum` (RR) it takes what the file still has within the
quantum, and may be nothing, which is a success (`Stalled`); without one the
budget comes to cover all that remains, and a line that is gone is an error
(`SendFileLine`). `Transfer` and `FileServer` have the rest.

### ConfigFile, ConfigMeaning, Startup

`ConfigFile` is config.cpp on tokens. The recursion of `parse_value`,
`parse_object` and `parse_array` is an explicit stack, one step per token or two
(`ParseScalar`, `ParseOpen`, `ParseKey`, `ParseMore`, `ParseEnd`); what the
scanners of strings, numbers and words reject is a token of its own. A `\u`
escape becomes a question mark, a number outside `long long` is malformed, one
outside `int` is narrowed. `LoadConfig` evaluates the checks in the order of the
code and reports the first that fails (`BackendsFaults` is the loop over the
backends); `Deserved` says which complaints the value that was read gives cause
for. `ConfigMeaning` has what the parser is compared with by the run: `Meaning`
splits a text at the commas outside brackets instead of reading it from left to
right. It is recursive and for TLC only; the proofs compare the parser with a
grammar instead (section 4).

`Startup` is `main` until its first join: `Flag` per argument (`argi` is the next
one, the options are overwritten on the way), `CheckFlags`, the configuration,
the calls of `create_listening_socket`, each of which may fail and then closes
the socket (`OpenSocket`, `SetReuseAddr`, `ParseAddress`, `Bind`, `Listen`), and
`StartThread` for workers, parsers and acceptor in this order. A thread that
cannot be started ends the process (`ThreadFails`). `FlagsJudged` compares what
the loop has left in the options with the command line read as a whole.
`ServesAsAssumed` ties it to the other modules: a server that comes up meets
their assumptions on quantum, packets and threads. Signals that arrive before
the acceptor runs are Admission's first step.

### Metrics, Load

`Metrics` has the order of the CSV, `nearest_rank` and the summary as operators.
`Load` is an experiment: the client's command line (`Args`), the directory in order
of names (`Files`; a directory that cannot be listed ends the process in `Args`),
seeding (`SeedNext`, `SeedDone`), the threads (`Turn`, `Stop`, `Reply`), `Join` and the exit code,
against a server that admits, starts, serves and records each request or fails it,
with at most `Workers` requests being served or waiting to be recorded. A
client may return before its request is recorded, and a reply may be lost
although the request was served. `Shutdown` is the server stopped after the
client: workers are joined (which `RequestQueue` and `FileServer` show to
happen), then summary and CSV are written; the CSV may fail, which is reported
and changes nothing else.

## 3. Runs

| Run | Checks | Instance |
|---|---|---|
| `request_queue` | `TypeOK`, exact `inflight_`, one place per request, exit only when drained, no lost wake-up, who may overtake whom, termination, refinement of `WorkPool` with its fairness | 3 workers, 1 parser, 3 requests of two sizes, 1 preemption each, both pops |
| `transfer` | `TypeOK`, whole lines, the exact allowance of DRR and of uploads, the books of RR, deficits that do not wrap, a bound on rounds, one answer each | every file of up to 7 bytes, every PUT size and quantum below 16, 0 to 3 leftover bytes, all policies |
| `file_server` | exact undisturbed downloads, offsets, whole commits, closed books (metrics, errors, staging files), drain | 2 workers, up to 3 requests, 2 lines per packet: a download and two uploads under DRR, a download whose file shrinks below its offset under DRR with Q = 1, two downloads and an upload under RR, a download, an empty and a full upload with leaving clients under SJF; the new text without final newline, a rename that fails, a flush that is lost |
| `admission` | no refusal, nothing left open, all handled, shutdown completes | 4 connections of 3 header kinds, 2 parsers, a signal at any time |
| `session` | whole uploads and what exit codes say of them (`PutExitHonest`), whole downloads, deadline and limit of a header, who can hold the server, no mutual waiting but in a stalled RR download | windows of 4 bytes, buffers of 3, lines of at most 4, a timeout of 2 ms of 2 ticks; GET in one round and with an RR quantum, of a file that may shrink from 5 bytes to 3, HEALTH, a header of 8 bytes, uploads of 0 and 5 bytes, polite and eager |
| `startup` | parser against reference (`ParserExact`), accepted files and deserved error messages (`VerdictDeserved`), the whole command line against what is started or turned away (`FlagsJudged`), what a running server meets | 5-bit int, 7-bit long long, 5-bit size_t, ports up to 11; a 7-token text with any two and three longer ones with any one token removed, replaced or inserted, every server and load balancer field missing, doubled, mistyped and at its limits, 900 command lines |
| `load` | exactly N requests after seeding, a complete and ordered CSV when the exit code is 0 (`CsvExact`), exact percentiles | 2 threads, 2 files, 3 requests, 2 workers; percentiles also of lists of 1 to 110 values |
| `file_server_rr_stall` | **violated**: `DrainsAfterShutdown` | 1 download, 1 upload that shortens the file, RR |
| `admission_order` | **violated**: `QueueInArrivalOrder` | 2 transfers, 2 parsers |
| `session_get` | **violated**: `GetSuccessIsFile` | one GET |
| `session_empty_put` | **violated**: `PutFailureMeansNotStored` | one PUT of an empty file |
| `file_server_full_disk` | **violated**: `NoPartialFile` | 1 upload in two rounds, 1 download of the same name, a disk that fills up |

*Why the bounds are enough.* A lost wake-up needs two sleepers, one notifier and
one request taken by somebody else: three workers and two requests give all of
these. A double bypass needs one request waiting and another that comes back.
In `transfer` the counters have 4 bits, so sums of deficit and quantum reach the
wrap, and every arrangement of lines in 7 bytes includes lines equal
to, one shorter and one longer than every small quantum, and a long line behind
short ones. In `FileServer` a file of lines 1, 1 and 3 with Q = 2 has lines that
fill the allowance exactly and one that needs a saved deficit or an overrun, and
the replacement, one byte shorter, ends inside an allowance. With Q = 1 and a
replacement of one byte a download stands behind the end of its file with more
than its budget left: under DRR in `file_server`, under RR in
`file_server_rr_stall`. Two rounds of an upload may each lose their flush.
In `session` a replacement of 3 bytes ends before, at and behind what was sent
of 5, so the stall is reached; a buffer is longer than a status line and shorter than a window, a
file is longer than both, and the long header passes the line limit, so a line
and what follows it are cut at every place. In `startup` the widths are in the
order of the real ones, and numbers beyond int fall both inside and outside the
range of ports when narrowed. In `load` two threads race for the last request,
and rows are recorded out of order.
`LoadAssumption` keeps N and the number of threads together below the largest
`int`: beyond it `next` wraps, and threads that should stop go on.

*Deadlock* is checked in every run; the end of the program is an explicit
stuttering step (`Terminated`, `Ended`).

### Fairness

* `RequestQueue`: weak fairness of each worker (a round ends by success, error or
  timeout, and the mutex is released at the end of every method), of a
  notification whose method has begun, and of the end of `close`. Nothing forces
  a push, a close or a spurious wake-up. Weak fairness per worker, not strong:
  the model has no starvation at the mutex because each method is one step; that
  the operating system hands the mutex to a waiting thread eventually is assumed.
* `Transfer`: none. That a request ends is stated as a bound on its rounds
  (`RoundsBounded`), a safety property.
* `FileServer`: weak fairness of each worker. It includes the assumption that a
  connected client keeps reading what it is sent: `send_all` has no timeout, and
  a client that stops reading holds its worker. `HeldOnlyByFullWindow` of
  `Session` shows that this is the one thing a client can do, or omit, to hold
  it; the other way is no client's doing, the RR download that stalls (violation
  1 below).
* `Session`: weak fairness of the server's threads and clock only. Of the client
  nothing is assumed, except in `BothEnd`, whose premise is a client that keeps
  going; its conclusion excepts the stall.
* `Startup`, `Load`: none; they have no liveness property.
* `Admission`: every thread runs, a header read ends within its second, a handler
  that has begun ends, admitted requests are served. Nobody has to connect and no
  signal has to arrive.

### What the violations show

1. **RR livelock** (server.cpp:113). An upload makes a file no longer than the
   offset of an RR download whose remaining bytes exceed the quantum. The
   selection loop reads nothing, the round is a success of zero bytes, and the
   request is requeued for ever; after SIGINT the workers never return. README.md
   line 45 promises that admitted requests are finished. Under DRR the growing
   deficit ends it: once it covers all that remains, the read fails visibly
   (`file_server` has this case under DRR and passes).
2. **FCFS is push order, not arrival order** (main.cpp:109). The time stamp is
   read before the push and outside its lock (README.md line 80).
3. **A download of a file that never was** (client.cpp:114). The size is taken
   at admission and lines are read by name later, so a replaced file ends the
   reply in an ERR line after part of the body; the client counts bytes, takes
   that line for data, and exits with 0 (README.md line 58).
4. **A stored empty file reported as failed** (client.cpp:257). The server has
   nothing to wait for between its two OK lines; when the `recv` that ends the
   first brings the second too, or its beginning, `put_file` drops those bytes
   (README.md line 66). A load whose directory has an empty file may fail to
   seed. For non-empty files `PutExitHonest` holds, because the second OK answers
   data not yet sent.
5. **A partial file in place** (server.cpp:360). `serve_put` tests `good()` after
   each `write` and not after `close`, which flushes the buffer. On a full disk
   the round succeeds, the file without its last bytes is renamed and answered
   `OK 0`, and a GET is sent it. The comment at server.cpp:235 says that staging
   prevents a GET from seeing a partially written file. `CommittedWhole` and
   `PutExitHonest` state what remains true: an upload is handed to the disk
   whole or not committed, and an exit code of 0 means that something of this
   upload is in place.

Two more disagreements need no run of their own:

6. **A port that is not the one in the file** (config.cpp:388). Narrowing comes
   before the range check, so 4294975376 is port 8080 (README.md lines 21 and
   29). `VerdictDeserved` in `startup` states what acceptance does guarantee: the
   narrowed number is in range.
7. **Admissions after SIGINT** (main.cpp:111). README.md line 120 says "After
   SIGINT, new admissions stop", and admission is the parser's enqueue (lines 72
   and 73). But parsers do not look at the flag: a connection that was accepted
   before the acceptor noticed the signal is parsed and admitted after it.
   `NeverRefused` states what the code does: nobody with a valid header is ever
   told "server shutting down", and that branch of `parser_thread` is dead. What
   stops is the acceptance of connections.

## 4. Proofs

The `*Proofs` modules are checked by TLAPS: their theorems hold for every value
of the constants that satisfies the named assumptions. `SequenceLemmas` has what
several of them need: sequences against the set of their elements (removal,
append, tail), that a set of numbers has a least one, and that sums over a
sequence exist. Where a proof needs an induction over data, it is a least
counterexample (`LeastNumber`). The inductive invariants were checked with TLC on
the component's run before they were proved, except `VerdictInv` and
`GrammarInv`, which quantify over sets that TLC cannot enumerate.

**Request queue** (`RequestQueueProofs`; `QueueAssumption`: finitely many workers
and parsers, any set of requests; `BetterAssumption`: the comparison is strict).
`IInv` is the inductive invariant. None of the properties is inductive alone:
that a worker leaves only when drained needs `inflight_` to be exact, because
that is what the code tests; exactness needs to know who holds what; that no
request is lost needs each one to be in one place; `NoLostWakeup` counts awake
workers and pending notifications against queued requests, and needs exited
workers to be neither. `QueueInvariant` proves `IInv` action by action; the
theorems `QueueTypes`, `InflightIsExact`, `RequestsInOnePlace`,
`WorkersLeaveDrained` and `WakeupsSuffice` follow. `QueueImplementsPool` proves
that every step of the monitor is a step of `WorkPool` or leaves it unchanged
(its safety part, `PoolSafety`). The argument about cardinalities rests on
`FiniteSetTheorems`. The overtaking theorems add an invariant about `passed`:
whoever has passed a waiting request once stands behind it or outside the queue,
so the pop of a front cannot pass it again (`ServedInTurn`).
`NeverPassedByWorse` needs nothing about the comparison beyond its strictness;
`PassedOnlyByBetter` is `OvertakenOnlyByBetter` and has the hypothesis `NoTies`,
which is necessary: of two requests with equal size and arrival time the one in
front is taken, and it is not better.

**Transfer** (`TransferProofs`; `WrapAssumption`, `TransferAssumption`: files
shorter than half of the counter's range, as `st_size` is signed; any quantum,
any upload size). `Base` says that the flags and the file are fixed, types, and
that a GET stands at a line start (`LinesStayWhole`). `Ledger` adds the account
of DRR: offset plus deficit is rounds times quantum as long as the request is
queued, and every line within that reach has been sent. From it follow
`DrrIsExact` (k rounds send exactly the lines that end within k * Q bytes) and
`DeficitFits` (the deficit never wraps, for any quantum the command line can
give). `RrLedgerBalances` is an account of its own, of sent and forfeited bytes.
`UploadsAreExact` adds the leftover bytes: what is left of them is a suffix that
begins at the offset. `RepliesAreExact` and `RoundsAreBounded` need both, as the
code knows its first round only by an offset of 0.

**Admission** (`AdmissionProofs`; `AdmissionAssumption`: finitely many
connections, at least one parser). `Inv` says which threads have ended given
where `main` is, that every connection is in the hands of one thread or in one
place of one queue (`OneHolderPerConnection`), and that the request queue is
closed only when all parsers have ended. `NobodyIsRefused` and
`NothingIsLeftOpen` follow. The assumption `Parsers # {}` is needed: without a
parser accepted descriptors would stay in the queue. `ServesAsModelled`
discharges it for the server that is started.

**Workers serving files** (`FileServerProofs`; `FileServerAssumption`: at least
one worker; the lines of every text have a last one; the files at the start are
texts). `Inv` says that a request
is in the queue or in one worker's hands (`Custody`), what its counters and its
staging file are worth at each point of a round (`Counters`, `Rounds`,
`Staged`), who has been told of an error, what has been recorded, and that
nothing is left once a worker has exited. `UploadsArriveWhole` needs all of the
first part, because whether a staging file is complete is decided by
`should_requeue` from the offset, several steps before the rename. The theorem
is about what was handed to the disk: a text that lacks bytes is in place only
for an upload one of whose flushes was lost.
`BooksAlwaysClose` needs the second.

Downloads have an invariant of their own, `GetInv`. A `Stretch` is a run of
pieces of one text without a gap; its bytes are its end minus its beginning
(`StretchBytes`, from `Bytes` being a sum that exists and is unique). `Source(c)`
is the text that the name of a download stands for; as long as the download is
undisturbed, its reply is a stretch of that text from 0, the packet a worker is
building continues it, and the positions that the worker carries from step to
step are ends of its lines (`Steady`). Once it is disturbed only the counts are
left: the offset in the queue is still what was received (`OffsetsAreExact`). The
steps of others are handled once, by `Same` and `RoundKept`: what a rename does to
a download is to disturb it or to put the same text in place. `DownloadInvariant`
is proved action by action, and `QuietGetsAreExact` follows.

**One connection** (`SessionProofs`; `SessionAssumption`: buffers and limits
positive, a status line fits a line, two fit a window, any file sizes, and calls
of the shape `IsCall`). `HeaderInTime` and `HeaderInLimit` have small invariants
of their own. For the rest, every buffer is located in the stream it carries:
`Along(b, t, n)` says that `b` is the stretch of `t` that begins behind position
`n`. `UpInv` places the line read, the leftover, the staging file, the window and
what the client still has to send end to end in the request; `Ends` ties open
sockets to program counters; `PutInv` says how many OK lines are on their way.
`SessionInvariant` proves them together, since the size of the data the server
counts depends on the header it cut off, and `PutExitIsHonest` follows. Its part
about exit code 1 has the premise that the link holds, and a stored file may be
`Torn`; a broken connection and a client that cannot write its file are one case
of the proof (`Severed`), since both only end the client. `GetInv`
does the same with the answer, from the file to what `get_file` has written, and
gives `QuietGetIsWhole`. The cut of a line at its newline is a least number, which
exists by `WellFoundedInduction`.

**Start of the server** (`StartupProofs`; `StartupAssumption`: arguments of the
shape `Argument`, a text that is any sequence of tokens; `ConfigAssumption`: the
powers of two are what they are, which the provers do not know, and `None` is no
member's name). For `StartInv` nothing about the JSON value is needed: the
checks of `load_config` are lists of faults whatever they are applied to, and an
empty concatenation means that each check passed (`Accepted`). `Checked` has the
flags, `Opened` the socket and the threads. `FlagsAreJudged` and
`ServesAsModelled` follow; the first needs to know at every argument that the
options are those of the arguments before it (`AskedFor`).

*The verdict.* `VerdictsAreDeserved` needs the shape of values at any depth: a
mistyped `backends` is deservedly refused only because a value that is no array
has no elements. There is no induction over values here; instead `ParseInv` says
that all open and finished values are in some set that contains the members and
elements of its own elements (`Closed`), and every step of the parser enlarges
that set by one value. Each list of faults is then `Sound`: its first complaint
is merited, given that the lists before it are empty (`SoundJoined`), which is
how the order of the checks enters.

*The parser.* `ParserMatchesGrammar` compares the parser with a grammar that is
stated apart from it: a value is a scalar, an empty container or a closed list, a
list an opened container with elements between commas, in an object behind keys.
A `Derivation` is a set of statements "tokens i to j are the value v" of which
each follows from others by a rule, and `Derives(ts, v)` that some derivation has
the whole text. The theorem has both directions, for every text: when the parser
accepts, its value is derived and no other is; when it fails, none is. One half
of `GrammarInv` (`Followed`) says that the open containers, located by their first
tokens, follow from a derivation, which each step extends. The other half (`Led`)
takes any derivation of the whole text: each open container has a goal, the place
where the derivation closes it and the value it has then, and the derivation
leads from the parser's position to that goal, so that no step can fail. That it
leads there from the opening bracket is the one induction (`EnteredAtStart`). A
grammar that was ambiguous would have no such parser; that it is not is part of
the theorem.

**Load client** (`LoadProofs`; `LoadAssumption`: at least one thread, a finite
directory, N and the number of threads together below the largest `int`, a bound
for the lists that the percentiles are also tried on, `None` not a status).
`Seeding` says that of the files main has sent all but the last are in place,
`Loading` that `issued` is the smaller of `next` and N, and that a thread is gone
only when `next` has passed N. `LoadsExactly` follows: that exactly N are sent
needs at least one thread to have left through that test. `BooksInv` follows each
request to its row: identities below the next one, times in the order of the
steps, and, as long as nothing failed, every request sent is under way, served or
recorded (`BooksInvariant`); `CsvIsExact` follows, for a CSV that could be
written. The sort of the CSV and of
`nearest_rank` gives each element the number of those that go before it as its
place, a bijection by counting; so `NearestRankExact` holds for lists of any
length, and with it `PercentilesAreExact`.

Only model-checked:

* every liveness property (`EveryRequestFinished`, `WorkersJoin`,
  `DrainsAfterShutdown`, `AcceptedAreHandled`, `ShutdownCompletes`,
  `HeldOnlyByFullWindow`, `BothEnd`) and the fairness part of the refinement:
  fairness is out of the prover's reach;
* `ParserExact`, whose reference `Meaning` is a RECURSIVE operator, about which the
  prover cannot reason; `ParserMatchesGrammar` states the same of the parser with
  the grammar as the reference, which in turn TLC cannot evaluate.

## 5. Not modelled

* Scripts: workload generation, the experiment driver, the analysis of the CSV.
* Header parsing and file name validation by character, and the characters of a
  JSON token; the layout of the CSV and of the summary, and in the summary the
  sums of A14 events and forfeited bytes.
* A connection that is refused: `get_file` and `put_file` return 1 before any
  byte is sent.
* Files deleted or changed by other programs, and open or seek failing on a file
  that exists.
* A client that uses another upload's staging name as its own file name. (Staging
  names contain the request's number, server.cpp:219, so two uploads never share
  one.)
* The client's own unchecked close of a downloaded file (client.cpp:182): `got` is
  what the file was given, not what a full local disk kept of it. Which bytes a
  lost flush of the server leaves out is abstract: some shorter text, or `Torn`.
* Memory exhaustion, a JSON text nested deeper than the process stack, a crash
  of the server: nothing is persisted that a restart would read except the files
  themselves.

## 6. State of the plan

Every invariant of the runs but `ParserExact` is a theorem. Left are the liveness
properties, for a prover that has fairness, and finer grains: characters within a
JSON token and a header line, and the layout of the CSV.
