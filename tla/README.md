# npux-labs in TLA+

Models, model-checking runs and proofs for the crates `tcp-server` and
`net-addresses` of this repository.

## 1. The system

| Component | Source | State it keeps | Operations |
|---|---|---|---|
| Thread pool | `tcp-server/src/thread_pool.rs` | workers' handles, the only `Sender`, the channel, the mutex around its `Receiver` | `new`, `default` (`get_num_cpus`), `execute`, `drop`, `worker_loop` |
| `BaseTcpServer` | `core.rs:14-55` | the listening socket | `bind`, `run_accept_loop`, `close_listener` |
| Iterative server | `core.rs:57-80` | none of its own | `serve`: a connection at a time |
| Thread pool server | `core.rs:82-111` | the pool | `serve`: a job for each connection |
| Fork-per-connection server | `core.rs:113-179`, `wait_child` 233-242 | `active_children`, the child processes | `serve`, `cleanup_finished_children`, `wait_for_available_slot`, `run_child_process` |
| Prefork server | `core.rs:181-231` | the child processes | `serve`, `run_child_process` |
| Delayed echo service | `service.rs:18-52` | none | `handle_connection` |
| File transfer service and client | `service.rs:54-340`, `client.rs` | position in the protocol, a `BufWriter` at each end, open file, the downloaded file | the message handlers, `receive_file`, `run_client` |
| Framing and messages | `service.rs:308-340`, `proto/` | a blocked write, the `BufWriter`, a half-read message | `read_message`, `write_message`, the encoding of the messages |
| Address resolution | `net-addresses/src/getaddrinfo.rs` | the C list and the iterator's position | `getaddrinfo`, `next`, `drop`, the enum conversions |
| `net-addresses` tool | `main.rs`, `args.rs`, `getnameinfo.rs` | the iterator, what has been printed | checks on the arguments, the loop, the printer, the exit |
| Command line and logging of `tcp-server` | `server.rs`, `main.rs` | none | parsing, set-up, the choice of a server at compile time |

Interaction: a server accepts a connection and hands the stream to a `Service`:
directly (iterative, prefork), inside a job (thread pool), or in a forked child.
The pool's threads share the receiver; parent and children share whatever
descriptors were open at the fork; the two ends of a transfer share a stream.

What is hard: threads that share one receiver and may panic; drop racing with
buffered jobs; children ending at any moment between the parent's counting
steps; inherited descriptors; two blocking peers without timeouts, where either
may fail or die between any two messages and the file may change meanwhile; a
kernel that cuts messages anywhere; panics inside a loop that owns a list of C.
`PROJECT.json` lists these hazards line by line.

What makes each part correct:

* pool: each job once, in order, whatever panics; `execute` never panics; `drop`
  returns only when everything has been done, and does return;
* fork server: the counter equals the number of uncollected children, the limit
  holds, nobody but its child holds a client's stream, the address is given up;
* transfer: messages are never mistaken for others, contents only after
  consent, no gap, mutual success means a complete file, both sides end;
* thread pool server: each open stream has one owner, connections are taken in
  the order they came, a full descriptor table and panics pass;
* framing: bytes stay in order through buffer, kernel and `read_exact`; the reader
  gets whole messages, each once, or an error;
* prefork: no connection has two children, one child that is left serves everybody,
  the parent's death ends all;
* echo: a client gets its own lines and nothing else; what may end the server;
* address list: freed once, from its head, whatever the caller does; each element
  delivered once and in order; no panic that the hints exclude;
* tool: an exit with success has shown the whole answer, and a panic has a known cause,
  the loss of either output's reader among them.

## 2. Modules

| Module | What it is |
|---|---|
| `BoundedService` | abstract: tasks served at most once, at most `Limit` at a time, none lost |
| `ThreadPool` | the pool; implements `BoundedService` (`ImplementsService`) |
| `ThreadPoolProofs` | theorems about `ThreadPool` |
| `ForkServer` | the fork-per-connection server with processes and descriptors; implements `BoundedService` |
| `ForkProofs` | theorems about `ForkServer` |
| `PreforkServer` | the prefork server: parent, children, parent-death signals, shared listener |
| `PreforkProofs` | theorems about `PreforkServer` |
| `PoolServer` | accept loop, descriptors and process, extending `ThreadPool`; implements `BoundedService` |
| `PoolServerProofs` | theorems about `PoolServer`, extending `ThreadPoolProofs` |
| `EchoServer` | the iterative server running the delayed echo service |
| `EchoProofs` | theorems about `EchoServer` |
| `Messages` | the protocol's messages as fields with wire types: which frames decode as which message |
| `FileTransfer` | one session of the file transfer protocol, both ends, on `Messages` |
| `FileTransferProofs` | theorems about `FileTransfer` |
| `MessageChannel` | abstract: whole messages, each delivered once and in order, until the writer ends or is cut off |
| `Framing` | `write_message`, a `BufWriter`, the kernel and `read_message`, byte by byte; implements `MessageChannel` |
| `FramingProofs` | theorems about `Framing` |
| `AddrInfoList` | one call of `getaddrinfo`, the iterator over its list, and the caller |
| `NetAddresses` | the command line tool, extending `AddrInfoList` as the iterator's caller |
| `AddressProofs` | theorems about `AddrInfoList`, and with them about `NetAddresses` |
| `MCThreadPool`, `MCFraming`, `MCAddrInfoList`, `MCNetAddresses` | values for TLC: a default pool size, payloads, the resolver's elements |

Operators named `X_Something` and introduced by the word *Mutant* are plausible
mistakes in the code that `X` models. None is part of a specification; each shows
that some property would notice the mistake.

### ThreadPool

`owner` follows the thread that has the pool: `spawning` (the `map` of `new`),
`ready`, `joining` (in `Drop::drop`), `dropped`; `failed` when `thread::spawn`
panicked in `new`. `sender` is the `Option<Sender>`, `queue` the channel, `mutex`
the lock of the receiver. A worker's `pc` follows `worker_loop`: `lock`, `recv`
(blocked, holding the lock), `got`/`closed` (recv returned, guard still alive),
`run`, `exited`. Two steps separate the return of `recv` and the release of the
lock, since the guard is a temporary that lives to the end of the `let`. The release and the
start of the job are one step (`Unlock`), so that no property speaks of the order in
which the jobs of two workers start.
Each operation is one action; a job ends by returning or by a panic. Jobs in `Stuck`
never end: handlers of silent peers. `submitted`, `taken` and `outcome` are history.
`Terminated` is the legitimate end, which includes an owner that joins a worker whose
job never returns. `NumCpus` is `get_num_cpus`: the size of the affinity set when the call
succeeds, as it is, and otherwise what `sysconf` says but at least 1. The assertion that the size is not 0 is `PoolAssumption`.

### ForkServer

`pc` follows the closure of `serve`: `cleanup` (the `WNOHANG` loop), `slot` (the
blocking loop), `fork`, `count` (between `fork` and `fetch_add`), `release` (the
closure returns, the stream is dropped). A child goes through `started` (the
listener still open), `serving`, `leaving` (stream dropped), `zombie`, `reaped`.
`limit` is `max_children`, from 0; `BoundedService` takes its limit as a constant, so
the refinement is to the largest, `MaxChildren`, and `BoundedChildren` has the exact one. `fds` holds every process's descriptors; `fork` copies the parent's. The kernel's
part is external: connecting, the backlog, its reset when the last listener is
closed, and init collecting orphans. A child may die at any moment, by a panic
(which unwinds out of `serve`) or by a signal; so may the parent. A failing
`accept` is logged and changes nothing: it is a stutter, and so is a failing
blocking `waitpid`. `active` is an integer without width: `CounterExact` says
that it is never decremented at 0, so the wrap of `AtomicUsize` is not reached.

### PreforkServer

The parent is `forking`, `paused` or `dead`. A child is `started` until its `prctl`
has succeeded; then it accepts and serves, one connection at a time. `armed` are the
children whose parent-death signal is set: only they are `signalled` when the parent
dies. A child that has not come that far is in `orphans`. Children that die are not
replaced, as in the code; `Exhausted` says that none is left to accept. `num` is
`num_processes`; with 0, which the command line accepts, the parent only listens.

### PoolServer

Extends `ThreadPool`: its actions are conjoined with what happens to the streams.
`inHand` is the closure's argument between `accept` and `execute`. The address is
bound before the pool is made, so clients connect while the threads are created; if
that fails the panic takes the process. `serve` never returns, so the pool is not
dropped and `recv` does not fail: `BeginDrop`, `JoinWorker` and `RecvFails` belong
to `ThreadPool` alone. When `FdLimit` streams are open `accept` fails, is logged and
tried again: a stutter. The death of the process cuts every stream at once; for the
abstract service a connection that was cut stays in the phase it had.

### EchoServer

`pc` follows `handle_connection` inside the accept loop. A stream is a sequence of
lines, perhaps ended by `Fin` or `Rst`; `Garbage` is a line that is not UTF-8. The
`unwrap` of a line is `ReadPanics`, which ends the process; a failing `write_all` is
logged. `Request` are the lines before the first that is not text, so `OnlyBadLinesKill`
speaks of the very item at which the handler stopped reading: a peer may reset, or send
garbage behind its request, and neither ends the server. Left out: the delay, `\r` before a newline, the joining of the lines into
bytes (an empty request is answered with a newline).

### FileTransfer

The handler's `spc` and the program's `cpc` follow the blocking calls in order.
`s2c` and `c2s` carry one element per frame; that a stream of bytes is such a channel
is what `Framing` shows. `wbuf` is the `BufWriter`: a chunk
that does not fit makes it write out everything first (`spill`), `flush` empties
it, and so does dropping it after a read error (`abort`). The client has a `BufWriter` of its
own, over its file: `cbuf`. A chunk saved stays in it, or makes it write out what it has,
or passes through with all that was there (`Save`; its capacity is left open). `disk` is
what has been written out. At the end of the stream the client is successful only if the
`Flush` is; after any failure the buffer is dropped, which writes out what it can and
reports nothing (`DropWriter`), and a killed client loses it. The server's socket
ends with `fin`, or with `rst` when data was unread; `receive_file` treats the
two differently. A write to a peer that has gone may succeed or fail. The file is
looked up twice (metadata, open), and `FileChanges` may come between or during
the reading; a change in place is seen through the open file, a replacement is not.

`given` is what the session has to expect, chosen at the start among `Circumstances`:
I/O errors, deaths, a client of a later schema, and debug logging. A later client may
acknowledge with a status this server does not know: the handler compares the number
and takes it for no consent, while the debug line converts it and panics
(`OnlyLoggingPanics`). What a receiver makes of a frame, the one meant for it or not, is
computed by `Messages`: as in protobuf, unknown fields are skipped, missing ones get
their defaults, and a known field with the wrong wire type is an error.
Left out: a chunk of which only a part reaches the disk before a write fails; the contents of
chunks, file names, the bytes of frames, the `u32` chunk
index (it would take 4 TiB to wrap, and nobody reads it).

### Framing

`calls` are the `write_all`s still to come (a length and a payload for each message),
`buf` the `BufWriter`, `push` the bytes of a blocking write, `wire` what the kernel
holds, `need` and `part` a `read_message` under way. `WritePiece` and `MakeRoom` follow
std's `BufWriter`: what does not fit makes it write out first, and a piece as large as
the buffer passes directly, but only when the buffer is empty. Capacity 0 is the bare
stream of the handler's first messages and of the client. `Cut` is a writer that is
killed, or a connection that is reset, between any two bytes. The code has digits below
256 and four of them; the model takes any, with payloads short enough to have their
length written. The code cuts the length to `u32` without a check; the longest message, a chunk
of `chunk_size` bytes or a path, is far from that.

### AddrInfoList

A pointer is a position in `list`; `live` are the positions not freed, and `misused`
remembers a read or a second free of freed memory. `Answers` is the resolver: any
list that agrees with the hints. `FromPtr` keeps the order of `from_ptr`: the
address is looked at first (an error), the numbers are converted last (a panic when
the enum has no such value, as for DCCP or UDP-Lite). A panic leaves `cur` where it
was. `Drop` may come at any time: the caller may stop, and its own closure may panic
(`NetAddresses` is such a caller).

### NetAddresses

The actions of `AddrInfoList` conjoined with what `main` does. `args` are the arguments
besides the hints and `Rejected` is clap's part (its usage error ends the process without a
panic, and so does the error that `main` returns); it leaves no call that `getaddrinfo`
itself would refuse, so `Refuse` has no counterpart here. `results` grows by an item each time
`for_each` asks and `shown` follows it (`Pending`); an item is printed (`Show`) or reported
on the error output (`Report`). `readers` are the outputs that somebody still reads. Rust
ignores `SIGPIPE`, so once the reader of an output has left (`ReaderLeaves`) whatever macro
writes to it panics: `println!` (`PrintPanics`, which also stands for a Debug form that
cannot get its name), `eprintln!` (`ReportPanics`), and `dbg!` at the very start (`DebugArgs`,
`DebugPanics`). The iterator is dropped
when `for_each` returns and when a panic unwinds through it. Left out: the text of the output.

## 3. Runs

| Run | Bounds | Shows |
|---|---|---|
| `pool` | 3 workers, a default size; 4 jobs, one of which never returns | the safety invariants, the inductive invariant of the proofs (of which `TypeOK` and `ChannelIsFifo` are parts), jobs and threads end, refinement with a limit that is reached |
| `pool_server` | 4 clients, one silent, 2 workers, 3 descriptors | owners of streams, order of receiving, clients settled, refinement |
| `fork` | 4 clients, one silent, 0 to 2 slots | counter, limit, futile waits only without slots, owners of descriptors, the inductive invariant `ForkInv`, clients settled, refinement |
| `prefork` | 3 clients, one silent, 0 to 2 children | no stream has two children; one child serves everybody; armed children follow their parent |
| `prefork_orphan` | 1 client, 2 children | finding 3 |
| `echo` | 2 clients, 2 texts, 2 lines each | the echo, what ends the server, clients settled |
| `transfer_faults` | files up to 5 chunks, limit 4, buffer 2, wire 2, versions 0 to 2, one change, every set of circumstances | the protocol's safety, that both sides end, and that wanted files arrive when nothing goes wrong |
| `transfer_truncated` | I/O errors only | finding 1 |
| `transfer_grown` | one change, no faults | finding 2 |
| `framing` | 2 digits below 2, buffers of 0, 1, 3 and 4 bytes, 3 messages, 3 bytes in the kernel | bytes in order; a channel of whole messages |
| `addrinfo` | all hints, lists up to 3 of 7 kinds of element | memory, order, panics, end of the iteration |
| `netaddrs` | all arguments and hints, lists up to 3 of 4 kinds of element | what success means, what may panic |

Why the bounds are enough: three workers show a holder, a waiter and a runner at
once, and drop joining past one that is still busy; more jobs than workers reach
the limit, and one that never returns blocks a worker and drop. Four clients with two slots fill the slots, make the parent block and
let it collect in both places. Four clients with one silent, two workers and three
descriptors exhaust workers, descriptors and both at once. Two children are one that
is lost and one that is left, or one armed and one not. Two echo clients show what an
earlier connection could leave to a later one; two lines are a text and what follows
it. A list of three has a head, a middle and an end, each of which may fail to
convert. Five chunks over a buffer of two and a wire of two
force spills and blocked writes; `MaxFileSize` lies below `MaxLen` so that files
are rejected as well as accepted; one change of the file is enough for every
order of metadata, change, open and read. Payloads up to three bytes have lengths whose
two digits differ, and the capacities put a buffer below, between and above a length
and a frame; three messages are one that is read, one in the kernel and one in the buffer.

Deadlock is checked wherever nobody is stuck on purpose: explicit idle steps
(`Terminated`, `Quiet`, `Over`, `Ended`) stand for the legitimate ends, so that any other
stop is an error. It is switched off in `fork`, `prefork` and `pool_server`, where a
silent client may stop the server for good.

### Fairness

Threads and processes that can run do run (weak fairness of each worker's steps,
of the parent's and each child's, of each end of a session). Nothing is assumed of
decisions: to submit a job, to drop the pool, to connect, to die, to change a file.
A `std::sync::Mutex` promises no order, so its fairness is only that a free lock
is taken by somebody (`\E w : LockReceiver(w)`); that is enough because any
worker can serve any job. A handler outside `Stuck` returns: the code has no
timeouts, so that is an assumption about peers, and `Stuck` is how it is dropped. In
`EchoServer` it is the fairness of the clients: each that stays connected ends its stream
sometime, in the ordinary way or by a reset; none has to do both.
The children of a prefork server wait in `accept` together; the kernel wakes some one
of them, so the fairness is that of `\E i : Accept(i)`. A parent-death signal arrives.
Both ends of a framed stream go on, and the writer ends of its own accord; nothing makes
it be cut off. `MessageChannel` asks for the reader's part only: what has been sent is
received, and a reader of a stream that has ended stops.
The caller of the address iterator goes on (`ForEach`), and does not catch the same
panic for ever (strong fairness of `Unwind`).

### Findings

1. `ReceivesTheFile` (`transfer_truncated`): the end of the stream is the only mark
   of a complete file. If the server fails to open the file or to read it (a
   directory has metadata and cannot be read), it closes the stream in the ordinary
   way, and the client reports success with an empty or truncated file
   (`service.rs:287`, against the doc at `service.rs:274`).
2. `MaximumRespected` (`transfer_grown`): the limit is checked against the metadata
   only; a file that grows later is received in full (`client.rs:49`, against the doc
   at `client.rs:24`).
3. `ShutdownIsComplete` (`prefork_orphan`): a parent that dies between a `fork` and that
   child's `prctl` leaves the child behind: the signal concerns only deaths still to
   come, and the child does not look whether its parent is there. It keeps the address
   and serves on (`core.rs:220`, against the comment at `core.rs:219`).

## 4. Proofs

Each proof module extends the module it is about and cites nothing but that module's
assumption on its constants. The pattern is the same everywhere: the safety invariants of a
component are not inductive; the strengthening (`PoolInv`, `ForkInv`, ...) is written in
the component's own module as a conjunction of named parts, which TLC can check as well (the
runs `pool` and `fork` do; the others check its conclusions); the proof module shows, one lemma per action, that every step keeps it.

**`ThreadPoolProofs`**, for every `Size > 0`, every set of jobs and every `Stuck`:

* `Typed`, `LockOnlyToReceive`, `JobsInOrder`, `JobsRunOnce`, `SendAlwaysSucceeds`,
  `DropCompletesAllJobs`: the safety invariants of `pool`, by `PoolInvariant`;
* `PoolServes`: the pool implements `BoundedService`, with `Size` as the limit.

`SendNeverFails` needs `ClosedMeansDrained`: a worker
that has seen the end of the channel proves that the Sender is gone and the channel
empty, and (`OwnerAgrees`) without the Sender nobody fills it again.
`DropIsGraceful` adds `ThreadsAgree` (the workers below `joined` have ended, and only
workers at `got` or `run` have a job) and `ChannelIsFifo`: an empty channel means that
all submitted jobs were taken. `EachJobInOnePlace` needs `SubmittedOnce`: the head of
the channel was never received before, because `taken \o queue` has no repetitions.
The frame (`TypeOK`, `OwnerAgrees`, `ThreadsAgree`) is proved first and used by the rest.
A job is served by the worker that runs it, so the tasks being served inject into the
workers: that is the limit of the abstract service.

**`ForkProofs`**, for every finite set of connections, every limit and every `Stuck`:
`CounterIsExact`, `ChildrenAreBounded`, `WaitsForSomebody`, `NoDescriptorLeaks` by
`ForkInvariant`, and `ForkServerServes`, the refinement. The counter is compared with the
cardinality of the children that were forked and not waited for; `waitpid` removes one from both, `fork`
and `fetch_add` add one to each in two steps. `HandAgrees` and `SlotAgrees` say what the
parent's place in its loop implies (a slot was seen free after the last `fork` was
counted), `BacklogAgrees` that what waits was never accepted.

**`PreforkProofs`**, for every set of connections and every number of children, 0
included: `ConnectionsAreShared` (`EachStreamOneChild`) by `PreforkInvariant`. A child that
takes the head of the shared backlog takes a connection nobody has, because no connection waits there
twice (`WaitsOnce`) and those that wait were not accepted. `DeathReachesTheArmed` is the
safety half of `ArmedChildrenFollow`: a dead parent's children have their signal on the way,
unless one was not at `prctl` yet.

**`PoolServerProofs`**, for every set of connections, pool size and number of descriptors:
`StreamsAreOwned`, `OrderOfService` by `ServerInvariant`, and the refinement `ServerServes`.
Every step of the server is a step of the pool or leaves the pool alone
(`StepIsPoolStep`), so `PoolInv` holds inside it without a second proof; what is added is `ProcessAgrees`
and `ArrivalsAgree`: the connections the workers took, the channel, the main thread's
hand and the backlog are, one after the other, the connections in the order they arrived.

**`EchoProofs`**, for every set of connections and lines: `LinesAreEchoed` and
`OnlyBadLinesEndIt` by `EchoInvariant`. While a request is read, what its client has sent
is what the handler collected followed by what it has not read (`StreamsAgree`); a client
may go on sending while it is answered, and that changes nothing before the end of its request
(`FollowedStill`). `DeathAgrees` keeps what was collected when a line could not be read,
and no client whose stream is closed sends any more. `RequestIs` ties the collected lines to `SelectInSeq`, by which
the property says what a request is.

**`FileTransferProofs`**, for every size limit, buffer, wire and set of versions and
circumstances: `FramesAreUnderstood`, `PanicsOnlyInLogging`, `ConsentBeforeContent`,
`TransferHasNoGap`, `SuccessMeansComplete` by `TransferInvariant`. `ServerTurn` and `ClientTurn`
say, for each place of one end, where the other may be and what can be on the wire between them
(`AckOnWire`, `ResponseOnWire`); with them a frame is met only by the reader it was meant
for. `ChunksInOrder` and `LengthsAgree` follow the chunks through the client's disk and
buffer, the wire and the server's buffer: the four in a row are the numbers from 0 without a
gap, and the server's index is their length. At the end of the stream `Received` counts disk
and buffer (`ReceivedCounts`); the flush moves the one into the other (`FileComplete`), and a
drop moves a beginning of it (`FileContinues`). What decoding makes of a
frame is taken from `Messages` by case (`Queries`, `Acks`, `Responses`).

**`AddressProofs`**, for every set of elements the resolver may return and every bound on
the list, from the model of the resolver (`Answers`: a list that is
not empty and agrees with the hints):

* `ListTyped`: the pointers are in the list or null;
* `ListFreedOnce`: by `MemoryInv`; `MemorySafe` alone does not say that `orig` is still
  the head (`Shape`), from which the C function frees;
* `ListDeliveredInOrder`: `DeliversInOrder` is inductive together with `Shape`;
* `PanicsExplained`: by `PanicInv`, which carries the agreement with the hints
  (`HintsHonoured`) from the call to the element that panics. It rests on the lemmas
  `SockTypesReturn` and `ProtocolsReturn`: what `as c_int` produces, `From<c_int>` accepts.

Of the tool (same module), `ToolIsACaller` shows that every behaviour of the tool is one of
`AddrInfoList`, so the theorems above hold inside it; `AnswerShown` and `CarefulCalls` follow by
`ToolInvariant`. What was shown lags at most one item behind what `next` has returned
(`OneAtATime`), and the iterator has returned the list up to its cursor; at `exhausted` nothing is pending, so
an exit with success has shown everything. A panic inside `next` is explained by `PanicInv`;
one of the printer concerns an element that is in the list, and a reader that has left does
not come back.

**`FramingProofs`**, for every base and width of the length, every set of payloads whose
length fits it, every buffer and every kernel: `BytesStayInOrder` by `FramingInvariant`, and
`FramingIsAChannel`, the safety of the refinement. `BytesInOrder` is inductive with
`WriterAgrees` and `ReaderAgrees`: the length in the reader's hand is that of the message after
those it has returned. The proof has three parts:

* the arithmetic of the prefix (`PrefixRoundTrip`): digit by digit, what `from_be_bytes`
  has read is the length divided by what is still to come. This and the next part are inductions over
  the position; since the library's induction rule takes an operator, they go through
  the well-foundedness of `<`, with the property as a set (`Induction`);
* the algebra of frames: the frames of one message more are one frame more
  (`FramesAppend`), and the frames of a row of messages begin with those of its beginning and with the
  next one (`NextFrame`), which needs that concatenation associates and cancels (`Join`,
  `SameBeginning`);
* the steps: one that only moves bytes leaves what is between the two programs the
  same (`StreamMoves`); a complete prefix or payload is that of the next message because it is
  as long (`PrefixComplete`, `MessageComplete`). A reader that misses bytes when a
  finished writer's stream is empty has read everything (`NothingLeft`): otherwise the next frame
  would still be somewhere.

Only model-checked: liveness, since fairness and `ENABLED` are beyond the prover. These are
`EveryJobEnds`, `ThreadsEndWithPool`, `EveryConnectionSettled`, both `EveryClientSettled`,
`SessionEnds`, `WantedFileArrives`, `OneChildIsEnough`, `ArmedChildrenFollow`,
`IterationEnds`, and the fairness in `ImplementsChannel`. `BoundedService` states safety only, so its
three refinements are proved completely. The runs that expect a violation have no theorem.

## 5. Not modelled, and the plan

Every safety property of a passing run is proved. What is left is to connect the two
layers of the file transfer by proof: `FileTransfer` moves whole messages over a stream, and
`Framing` shows that the bytes amount to that; and to prove of each component what its
histories may never do (a job taken back, an answer withdrawn).

Exempted from the liveness properties, because the code does reach these states and nothing
in the repository promises otherwise: as many silent peers as there are workers
(`core.rs:105`), a limit of 0 children (`core.rs:169`), 0 processes (`core.rs:200`) and a
prefork server whose children have all gone (`core.rs:203`). `SessionEnds` concerns
processes that die and calls that fail; a network that falls silent stops both ends for
good, since neither has a timeout.

Left out for good: logging, except where it panics; argument parsing and the choice of a
server in `server.rs`, which has no state; generated protobuf code, but for the rules
`Messages` takes from it; the resolver itself (`getaddrinfo(3)`, `getnameinfo(3)`), of which
only the possible answers are modelled; the flags of the hints, the copying of addresses
and canonical names, the text of names and errors.
