# A verification development for AdvCpp_hw

The repository is a set of small C++ libraries (`lib/*`) and a test program
(`src/`). This directory models the parts of them that are hard to test: the
coroutine library, the HTTP server that is built on it, its parsing and its static
files, the TCP connections and servers, the maps in shared memory, the child
processes and the global logger. `PROJECT.json` lists runs, mutants, hazards and the
source lines every definition stands for.

## 1. The system

| component | state it keeps | operations | hard parts | what makes it correct |
|---|---|---|---|---|
| `lib/coroutine` | per thread: map id -> routine, free list of map nodes, current id, saved main context, cap of the free list | create, resume, kill, yield, current, set_freelist_max_size | nodes (stacks) are recycled; state is used across context switches; an exception is sent into a routine that may catch it | one owner per stack, no finished routine in the map, a recycled routine is as good as new, an end is reported once |
| `lib/tinyhttp` workers | per thread: epoll, clients by descriptor, ordinator; shared: stop flag, listening socket, descriptor table | run, stop, event_loop, accept_connections, handle_client, client_routine | threads race to accept; descriptors are reused; hang-ups come before or between the turns of a routine; ignored failures; exceptions of other types leave the loop | every descriptor one owner, every client a live routine, no routine with a dangling client, nobody waits for ever |
| `lib/tinyhttp` connection and exchange | buffer of a connection, place in request or response | read until the end of the headers, read the body, write, sendfile | short reads and writes, one yield per system call, readiness of the wrong kind | the peer gets exactly the response |
| `lib/tinyhttp` parsing | none | request line, headers, query, URL decoding, printing | boundaries of the input, decoding before splitting | what is parsed prints back, an encoding client is understood |
| `lib/tinyhttp` static files | document root; the response under construction | on_request, sender | the file changes between the looks at it | the answer was true at some moment, no header of another answer |
| `lib/tcpcon` asynchronous server | clients by descriptor, stop flag, handlers | event_loop, accept, close, handlers that close clients | handlers change the map under the loop, stale events, lost stop | the loop survives its handlers |
| `lib/linuxproc` | pid, two pipe ends, end seen | construct, move, assign, destroy, read, read_exact, write, write_exact, close_stdin | partial transfers, inherited pipe ends, failing exec, waitpid, moves | one owner per child, its end is seen, exactly the bytes given arrive |
| `lib/tcpcon` connections, synchronous server | one descriptor, end seen, buffer | construct, connect, accept, read, write, the exact and the buffered forms, timeouts, set_nonblock, close | partial transfers, EAGAIN, resets, a new connection over an open one, constructors that throw | every descriptor one owner, an end that is reported is one, exactly the bytes given arrive |
| `lib/shmem` | bump allocator and maps in memory shared by processes, one semaphore per map | allocate, deallocate, insert, at, destroy | processes race on one allocator, die while holding a semaphore or half way through a change of a tree | blocks overlap only if two maps allocate at once, each map is consistent |
| `lib/trivilog` | global logger and its mutex, level, stream, mutex of a Safe logger | log, set_global_logger, get_global_logger, set_level | the logger is replaced while used, references outlive it, streams are shared | nobody logs to a dead logger but through a reference, lines stay whole |
| `lib/unixprimwrap`, `lib/raiiguards` | one resource each | RAII | none | not modelled on their own |

How they interact: `Server::run` starts one `EpollWorker` per thread; each keeps
its clients and drives one coroutine per client, found by descriptor in the
thread's `Ordinator`; the coroutine reads and writes its `Connection` and yields
to the loop after every system call. `tcpcon` and `tinyhttp` do not share code, but
`tinyhttp::Connection` is a copy of `tcpcon`'s asynchronous one. A worker parses what
its connection has read and hands the request to `on_request`; all log through trivilog.
The shared maps take all their memory from linear allocators, which they may share.

## 2. Modules

| module | models | status |
|---|---|---|
| `Ordinator` | the data structure of `coroutine.cpp`, as operators on a record | done |
| `RoutineLife` | what the coroutine library promises, without nodes, stacks, flags | done |
| `Coroutine` | one thread of the library and its user; implements `RoutineLife` | done |
| `CoroutineProofs` | TLAPS proofs about `Coroutine` | done for all invariants and the refinement |
| `EpollWorker` | the workers of `tinyhttp::Server`, each with an `Ordinator` | done |
| `EpollWorkerProofs` | TLAPS proofs about `EpollWorker` | done for all safety properties |
| `HttpExchange` | one connection: socket, buffer, the coroutine that reads a request and writes its response | done |
| `HttpExchangeProofs` | TLAPS proofs about `HttpExchange` | done for all invariants |
| `AtomicMap` | what a shared map promises, without memory and semaphores | done |
| `SharedMap` | processes, maps, semaphores, linear allocators; implements `AtomicMap` | done |
| `SharedMapProofs` | TLAPS proofs about `SharedMap` | done for all safety properties |
| `AsyncServer` | the event loop of `tcpcon`'s asynchronous server, its handlers and its caller | done |
| `ChildProcess` | a program with `Process` objects, their children, the pipes | done |
| `ChildProcessProofs` | TLAPS proofs about `ChildProcess` | done for all safety properties |
| `GlobalLogger` | threads that use, replace and refer to the global logger | done |
| `GlobalLoggerProofs` | TLAPS proofs about `GlobalLogger` | done for all safety properties |
| `HttpMessage` | parsing and printing of requests, as operators | done |
| `StaticServer` | one request through `BasicStaticServer`, with a file system that changes; uses `HttpMessage` | done |
| `StaticServerProofs` | TLAPS proofs about `HttpMessage` and `StaticServer` | done for all invariants |
| `TcpConnection` | `tcpcon`'s two Connection classes and its synchronous Server over a small TCP | done |
| `TcpconProofs` | TLAPS proofs about `TcpConnection` and `AsyncServer` | done for all safety properties |
| `MCCoroutine`, `MCEpollWorker`, `MCHttpExchange`, `MCSharedMap`, `MCAsyncServer`, `MCChildProcess`, `MCGlobalLogger`, `MCStaticServer`, `MCTcpConnection` | instances for TLC | done |

### Coroutine

The record of `Ordinator` is the struct `Ordinator`: `routines` is the
`std::map`, with `NoNode` for an absent key; `finished` is the deque of node
handles, with `NoNode` for an empty handle; `mem` holds the `Routine` of each
node. A node keeps its stack for ever, so "two routines on one stack" is "one
node with two owners". The saved `ucontext_t` is abstracted to where it will
resume: at `entry`, or inside `yield`.

`Coroutine` adds the control: `pc` says whether the caller runs, or a routine is
in `entry`, in `yield` after its switch, or in user code, or `resume` has got the
thread back. The user code is free: the caller makes any call with any id, a
function yields, returns, throws, and catches what `yield` rethrows or not. The
caller is always the main context, as in the repository; a nested `resume` would
overwrite the only saved main context and is out of scope.

`RoutineLife` has only phases (absent, fresh, suspended, starting, running,
done), the function, the pending exception and the outcome of calls. The
refinement mapping at the end of `Coroutine` computes them from the record. A
routine that is killed and swallows the exception stays killed: `pending` is
cleared only by the report of its end. That is what the code does (the exception
is never removed from a live routine), and the abstract specification says it.

Undefined behaviour: `key()` on an empty node handle writes through a null
pointer; the action `CreateFromEmptyNode` ends the thread in `crashed`.

### EpollWorker

One action per system call or per handled event. `Accept` and `Register` are
separate because another worker can use the descriptor table, stop the server or
take the next connection in between; what a worker does to its own clients and
ordinator between two such points is one step. The kernel is modelled as far as
the code relies on it (external in the map): the lowest free descriptor is given
out, a closed descriptor leaves its epoll sets, the listener is level triggered
and its exclusive wakeup reaches at least one open epoll, a hang-up is reported
as long as the connection is open. Readiness of a client without a hang-up is
left to its peer. All ready events are returned at once (4096 fit), in any order.

`bound` is the reference `Client &client` that `client_routine` takes at its
first turn and holds across its yields. `crash` records the exception that leaves
`event_loop`: with several threads it terminates the process, with one it leaves
`run`; the model stops there.

`CanFail` says what fails for other reasons than the model's own: `epoll_ctl`,
`epoll_pwait`, `accept` with `set_nonblock` and `getsockname`, and the request handler.

Abstracted: the bytes, and with them the switch from EPOLLIN to EPOLLOUT (in
`HttpExchange`); descriptors opened for files; EINTR, which leads back to the loop like a
timeout. `swapcontext` does not fail here (on the platforms of this code it only does
on an invalid signal mask operation); `Coroutine` has that failure of `resume`.

### HttpExchange

One action per system call of `client_routine` and of what it calls. `running`
says that the routine has the thread; a routine that has yielded runs again when
the kernel reports what its descriptor is registered for (`interest`, EPOLLIN
until the request is complete, EPOLLOUT after it), level triggered. The socket is
two counters: what the peer has sent and the server has taken, what the kernel
has taken from the server and the peer has read; the difference fills the send
queue of `SendCap` bytes. A request is a sequence of CR, LF and other bytes, a
response a sequence of positions. Parsing either succeeds or throws; what
`on_request` decides is any of `Responses`, with or without a file whose length
may have changed since it was announced. `sendfile` to a peer that is gone raises SIGPIPE
(basic_static_server.cpp:150), which ends the process if nobody handles it and is an
exception otherwise: `SendFile` has both.

Writing `Erased` and `Counted` as two operators keeps the two counts of the write
loop apart, as the code does: `write_from_io_buff` erases what it wanted to send
and returns what it has sent.

### SharedMap

One action per access to memory that processes share. `allocate` is three of
them (read and compare, read again, write); the compiler may merge the two reads,
so the second gives either value. Memory is a set of blocks with an owner: a map,
a node or value of an entry, a local object of an operation, or an object that
`at` or `extract` has returned and whose destructor runs in the caller, outside
the lock. `Copies` lists what an operation allocates before it looks into the tree and
`More` what it allocates after, in order; each may be the one that does not fit. An
exception destroys what the operation has made and posts the semaphore, as `lock_guard`
does.

The call on the `std::map` is a `Search`, the allocations that follow from what it has
`found`, and either an `Answer` or a change of the tree with a `Start` and a `Finish`.
Between the two the map is `torn`: a process may die there, as between any two accesses,
and what a search finds in a torn tree is anything. That nobody ever searches in one is a
property (`TornIsLocked`), not a premise: the refinement of `AtomicMap` needs it.

Maps may share an allocator, as those of `hw5_test` do, and then two operations may
allocate at once. When one writes a free address that is no longer what it has read
(`Outdated`), two objects own the same memory; the region is `raced`, and its maps are
not followed further, as what their operations do then is undefined.

`op` of a process that waits or works is the operation it called, and `result` is set
when it takes effect: with `entry` and `dead` these are the variables of `AtomicMap`, so
the refinement mapping is the identity on them.

### AsyncServer

One thread: `pc` is the place in `event_loop`, "idle" while it is not called. The
configuration is an argument of each call, so `Call` chooses it; `left` says how the last
call ended, and the caller may call again with the clients that are left, close some, or
add connections of its own. What handlers do is free within the interface: a handler for a
ready client, the `before_close_handler` and the `after_accept_handler` may each close any
client and stop the server, and may throw, which closes the client in the first and is
dropped in the others. A handler that uses its client after closing it, or that closes the
descriptor behind the server's back (`Connection::close`), is outside the model. Some
names have `Server` or `Fd` in them (`ServerNext`, `LowestFd`), so that the proofs of both
parts of `tcpcon` can be in one module.

`victims` is a history variable: the clients that another one's handler has closed
since the last `epoll_pwait`, whichever of the handlers it was. Their events are the only
ones that go stale.

### ChildProcess

The program has one thread and calls the operations of `Process` in any order that C++
allows; `object[o]` has the members of the class. `swap` is public and an operation like
the moves that use it; it leaves both flags behind (`stale`). A blocking call is one
action per step of the kernel, so that children act in between, a read returns what is
there, and a signal may interrupt. An interrupted `waitpid` ends the destructor or
assignment all the same, for its result is not looked at (process.cpp:94): the child is
`forgotten`, and stays a zombie. `call.left` is the `len` of the loops. A call that
succeeds stays at `returns` for one state, in which the caller has its result: `stream` is
what really went through the pipe, `buf` what is in the buffer.

`ends` says which processes have each end of a pipe. A fork copies all that the
program has; `create_proc` closes the ends that are the child's, the child closes
nothing before exec. Hence a child always has the write end of its own standard
input: `close_stdin` alone never gives it an end of file. The model shows it
(`ends[c].toW` contains `c` while it runs), no property asks for the opposite, and
`CallsReturn` speaks of a read only once its child is gone.

A child whose exec fails is a `stray`: its exception runs through a copy of the program,
whose `Process` objects (`copies`) kill their children. If it was `execv` that failed, the
pipes are by then the copy's standard input and output (`Redirected`) and stay open, so
the parent sees no end before the copy has ended. What such a copy does if the exception
is caught is outside the model. Children copy input to output like `/bin/cat`.

### GlobalLogger

One action per lock, unlock and access to what threads share. The static methods of
`Logger` hold `mutex_` for the whole call; `set_global_logger_impl` swaps under it, but
the old logger dies with the argument, after the `lock_guard`: `UnlockToDestroy` and
`Destroy` are two actions, with other threads' calls between them. `get_global_logger`
returns a reference that nothing protects; a thread keeps it (`ref`), calls the logger
through it (`direct`), sets its level, and forgets it. A use of a destroyed logger is
undefined behaviour: `crashed` ends the model. `log_to_ostream` writes a line in
pieces, so a line is begun and ended by two actions; the Safe classes hold a mutex of
their own around both. Several loggers may have one stream: every `StdoutLogger` has.

### HttpMessage, StaticServer

`HttpMessage` has no state: it is the parsing and printing code as operators on
sequences over any set `Character`, recursive functions where the code has loops. `\r\n`,
a method and a version are one character each, also a CR and a LF that only meet when the
url is decoded (`Put`), and `CharacterAssumption` says that the
ones the code names are characters; urls are spelt out, because `decode_url` counts,
and an escape is what `strtoul` makes of its two characters (`AsEscape`).
Errors are exceptions that nothing catches, so the model only tells texts that parse
(`IsRequest`) from the rest. What the code does and a reader may not expect is in the
definitions: the target is decoded before it is split, an escape that is cut off empties
the whole url, the first of two equal keys or headers stays, names of headers become
lower case, `to_string` encodes nothing.

`StaticServer` takes one request from its text to the answer. Each look of `on_request` at
the file system is an action, and `Change` may come between any two, so `exists`,
`canonical`, `is_directory`, `file_size` and `open` may see five different files. `seen`
collects what the path has named. What leads out of the root is `Outside`, unless it is to
a place whose name begins with that of the root: the code compares strings
(basic_static_server.cpp:86), so a sibling `root2` is served, and the model has it as any
other entry. Permissions are `Denied`. `open` may also fail because no descriptor is left
("exhausted"), and a directory of announced length 0 is opened and nothing is sent. The
sender is modelled up to the headers it prints; the loops that follow are in
`HttpExchange`, whose responses are what `StaticServer` can decide on.

### TcpConnection

Objects of both Connection classes, one thread each, and a synchronous Server. `sock` is
the kernel: one record per end of a connection (external in the map). `connect` makes a
new object and moves it over the old one, so `temp` is the descriptor of the object under
construction; `ConnectFails` is every exception of the constructor up to `connect`, and
`ConnectDropped` and `AcceptDropped` are `set_src_endpoint` throwing after it: the peer sees
a connection and its end. A signal may interrupt a call that waits (`Interrupted`), which is
a ReadError or a WriteError. A blocking system
call is enabled when the kernel can go on, a turn of an exact loop is an action, and the
kernel may refuse, reset, take any part of a send, or finish a connect in progress at any
point. Bytes are numbered as they are given (`given`), which lets `StreamFaithful`
compare what is in flight with what the caller meant; `split` remembers that a transfer
was cut in two, after which the code sends the wrong bytes and the caller gives no more.

## 3. Runs

| run | instance | shows |
|---|---|---|
| `coroutine` | ids 0..2, one function, two exceptions, three nodes, caps -1..1 | the invariants of the library and the refinement of `RoutineLife` |
| `coroutine_cap` | the same | violated: a cap above the number of free nodes makes `create` crash |
| `epoll_worker` | 2 workers, 3 connections, 3 descriptors with 0 among them, every failure | descriptor ownership, clients and routines, pending events, which exceptions leave the loop |
| `epoll_worker_live` | 2 workers, 2 connections, finite and infinite timeout, no failures | every queued connection is accepted, every hung-up one closed, stop() ends every loop with a finite timeout |
| `http_exchange` | 5 requests, 5 responses, 3 bytes per call, a send queue of 2 | requests arrive intact, a routine that returns has sent everything, who is answered and who is closed |
| `http_short_write` | a send queue of 2 | violated: a short write leaves a hole in the response |
| `shared_map` | 2 processes, 2 maps on 1 allocator, 1 key, a value with and one without memory, 5 units | atomic maps, blocks, semaphores, failures half way, deaths, two maps that allocate at once |
| `async_server` | 3 connections, 2 descriptors, 2 calls of event_loop, each with one of two configurations | descriptors, the epoll's contents, events that go stale, end by stop(), accepts and hang-ups |
| `child_process` | 2 objects, 2 children, one message of 2 bytes, pipes of 1 | who owns a child, when its end is seen, whole transfers, destructors and reads return |
| `global_logger` | 2 threads, 3 loggers, 2 of them Safe, 2 on one stream, 2 levels | only references outlive their logger, which writers may mix their lines, the mutex is let go |
| `static_server` | urls of 5 characters of 7 and of 6 of 4, lines of 6 of 5, headers of 5 of 5, encoded paths and queries, 2 changes of the file | parsing and printing agree, encoding clients are understood, answers were true |
| `tcp_connection` | an asynchronous and a synchronous object, 3 descriptors, 2 bytes, queues of 1 | no descriptor leaks, ends are real, bytes arrive in order, exact calls with a timeout return |

Why the bounds are enough. Two routines besides the main id are needed for one node to be
free while another is active, and for the free list to hold more than one node; caps 0 and
1 are below, at and above what it then holds, and -1 is no cap. Nodes are allocated only
when the free list is empty, so one per id is enough. Three connections on three
descriptors reach reuse of a number by the same and by the other worker, and batches with
several events; `accept` may fail at any time there, and on the two descriptors of
`async_server` with EMFILE. Descriptor 0, the id of the main routine, is one of the three.
Symmetry is used only in runs without liveness; the refinement checked under symmetry is a
safety property. The heads of `MCHttpExchange` have the end of the headers at the start,
after partial matches, and again in a body; with 3 bytes per call and any cut by the peer
it falls on every place of a read. The five responses are shorter than, as long as and
longer than the send queue, with a file that is as announced, cut, or grown. The 5 units
of `shared_map` hold two maps and just the largest operation, insert_or_assign of a new
key, so every operation both succeeds and fails at each of its allocations; nothing in
the model depends on a second key. On the second map there is the operation that
allocates and frees most, to meet those on the first in the allocator. Two objects are
needed to move and assign, two children for one to inherit the pipes of the other; one
of them, either, is sent a message (`Messages`), as each has pipes of its own; its 2
bytes do not fit a pipe of 1, so every transfer is also split. Of three loggers one can
be global, one being destroyed by each thread or held by reference, and Safe and unsafe
ones meet on one stream. Urls of 5 characters hold an escape with something on both
sides, an escaped percent sign, and every cut of an escape, those of 6 two escapes, an
escaped line end (`%0D%0a`) among them; a size of 0 is that of a file of which nothing
is sent; two changes of a file suffice for it to vanish and come back between two looks,
or to be replaced twice. Three descriptors are the two ends of a connection and one more
for an object that connects again; a queue of 1 makes every call of 2 bytes partial. In
`tcp_connection` the asynchronous object sets no timeouts (`Patient`), which only repeat
what non-blocking mode shows, and an end without a peer forgets its options, as nothing
can wait on it.

Deadlock is not checked in these runs: a thread that dereferenced a null pointer,
event loops that have returned, a process ended by an exception, a connection that
is closed, processes that are dead, a program that SIGPIPE has ended or that has used a
destroyed logger, and a request that is answered do stop; and two threads without
timeouts may wait for each other's bytes.

Fairness: weak fairness of each worker's next step. Threads are scheduled by the operating
system; a step of a worker other than epoll_pwait never blocks. No fairness is given to
clients, hang-ups or stop(), and none to the choice a worker makes, so a routine may yield
for ever. `HttpExchange`: the same for its worker, and a peer that stays reads what it is
sent, else nothing can be said of writing; no fairness for what the peer sends.
`AsyncServer`: the thread that is in `event_loop` is scheduled; whether its caller calls
again is left open. `SharedMap`: a process inside an operation is scheduled unless it is
dead; none for waiting, as a semaphore promises no order. `ChildProcess`: the program's
thread is scheduled, and SIGTERM is delivered to a child that does not ignore it; nothing
is assumed of what children do by themselves, or of signals that interrupt.
`GlobalLogger`: a thread inside a call is scheduled, none for getting a mutex.
`TcpConnection`: a thread in an exact call goes on when the kernel lets it, and a timeout
expires; nothing is assumed of peers, of the network, or of connects. `StaticServer`
states no liveness: `on_request` does not wait.

### Findings

`set_freelist_max_size(n)` resizes the free list to `n` (coroutine.cpp:169).
For `n` above its length this appends empty node handles, and the next `create`
dereferences one. Any `n > 0` called at start-up does so.

`write_from_io_buff` erases `len` bytes although `send` took fewer
(connection.cpp:260). The peer gets a response with a hole, and the write loop,
which counts what was sent, waits for ever with an empty buffer. `DoneMeansSent`
holds because such a routine never returns.

### Observations

These limits of the code are written into the properties, which say what holds
in spite of them.

- `read_body` yields after each read, the last one too (epoll_worker.cpp:315). The
  routine is then registered for input that it has already read, so a request whose
  body does not come with its headers is answered only if its peer sends more or stops
  sending. `Answered` is the part of the promise that holds.
- `hw5_test` makes an allocator for each of its three maps and builds all maps on the
  first (src/src/utils.cpp:340, 351). Allocators have no lock, maps have one each: blocks of
  two maps can overlap. The `shared_map` run has two maps on one allocator and reaches it;
  `BlocksConsistent` says that it takes two operations, on two such maps, that allocate at
  once.
- `read_exact` and `write_exact` pass the same pointer to every read and write
  (process.cpp:48-56, 72-79, and tcpcon's sync/connection.cpp:86-95, 118-126). A transfer
  in two parts puts the second part over the first. `WholeIsExact` and `StreamFaithful`
  are what holds: counts are right, and bytes are if no transfer is cut.
- `waitpid` in `~Process` is called once and its result dropped (process.cpp:94): a signal
  that interrupts it leaves a child that is never reaped. `OwnsItsChild` names it
  (`forgotten`).
- `swap` leaves `is_readable_` out (process.cpp:31): after a swap with, or `proc =
  Process(...)` over an object that has seen the end, the new child cannot be read.
  `EndMeansGone` names this as its only exception (`stale`). tcpcon's move assignment
  takes the flag along, so `EofIsTrue` needs no exception.
- A reference from `get_global_logger` may outlive its logger, and its calls go past the
  mutex of `Logger`: `StaticCallsAreSafe` and `LinesAreWhole` name both.
- `decode_url` runs before the target is split (http_request_line.cpp:34): an escaped
  question mark, ampersand or equal sign becomes a separator. `IntentKept` excludes them.
- An escaped CR LF (`%0D%0A`) becomes a line end in the url, and `to_string` encodes nothing:
  the request then prints as one with another line. `PrintsBack` excludes it, with the space,
  the plus and the percent sign.
- Two looks of `on_request` may see different files: a directory whose index goes is
  answered 403 or 404, a file that goes 500, or an exception leaves the loop. `Torn`
  lists them. `set_nonblock(false)` clears nothing (async/utils.cpp:24, 28).

## 4. Proofs

`CoroutineProofs` proves, for every set of ids, nodes, functions and exceptions
and every argument of `set_freelist_max_size`, both invariants of the `coroutine` run
(`NodesConsistent` is a conjunction of four) and the refinement of `RoutineLife`.
Lemmas first show that each operation of the ordinator keeps `Sound` (type, one owner per
node, cap): `EmplacedSound`, `ReusedSound`, `CollectedSound`, `LimitedSound`,
`SameOwnersSound`. They need only that ids are naturals and the "none" values are not
nodes, functions or exceptions.

The inductive invariant `IInv` is the conjunction of `TypeOK` and the four. They need each
other: that no finished routine stays in the map follows only if a reused node is
no other routine's node (`StacksDisjoint`), and only if the routine that ends is
the one `resume` will collect (`RunningInMap`), which holds because nobody
switches to a finished one (`NoFinishedActive`). One lemma per group of actions
shows preservation.

`PromiseIsKept` is the refinement. `Life` reads the phase, the function and the pending
exception of an id from whatever node the map gives it, so a step implements one of
`RoutineLife` only if it disturbs the node of one id (`OneChanges`), and `NodesConsistent`
says that nodes belong to one id. `CallMatches`, which the proof adds to `IInv`, says that a
killed routine has an exception to report, and that the main context runs in no call.

`SharedMapProofs` proves, for every number of processes, maps, keys and values, every
size of regions and objects and every way in which maps share allocators, all safety
properties of the `shared_map` run and its refinement. It has four inductive invariants.

`Control` is about operations and semaphores: a process that is not idle is in an
operation, its result is set exactly while it unwinds, and a semaphore is 0 exactly
while one process is inside an operation on its map (`SemaphoreMatches`, which also
says that one process only is). It does not mention trees or memory.

`Trees` says that a tree is half changed exactly while one process is at it, and that what
an operation has found is still there when it changes the tree (`FoundIsThere`): both
because nobody else is inside, which is `Control`. The refinement `MapIsAtomic` follows
action by action: `Call`, `LockFails`, `BadAlloc`, `Answer`, `Finish`, `Unlock` and `Die` are
the steps of `AtomicMap`, all others stutter, and the effect of a `Finish` is that of the
abstract operation because the search before it saw the present entry.

`Memory` adds that blocks are disjoint, that they lie below the free address of their
region (`BelowFree`), and what `allocate` knows when it writes (`ReadsStillTrue`): if the
allocator has one map (`Alone`), what it has read is still true. That needs `Control`,
and `BelowFree`: objects are destroyed without the lock, and if a deallocate could move the
free address, it could do so between two accesses of an `allocate`. `BelowFree` says it
cannot, because no block starts there. If the allocator has more maps, a write that is
still up to date is as good, and one that is not makes the region `raced`; so only a region
with two maps ever is (`RaceNeedsTwoMaps`), and `NoOverlap` holds of all others.
`BlocksAreDisjoint`, `MemoryIsNeverReclaimed` and `TypeCorrect` follow.

`Ownership` is that entries have nodes, with `NodeIsComing`: an operation that makes a new
entry has its node, or has still to allocate it. Nothing about the entry follows without the
second half, as `Finish` adds the entry long after the node was allocated, and the only
thing that can go wrong in between is an allocation that fails, which ends the operation
before. With the other three it gives `MemoryIsConsistent`, the property the run checks.

`GlobalLoggerProofs` proves the three invariants of the `global_logger` run for every set
of threads, loggers, streams and levels. `TypeOK` contains which thread holds which mutex,
which is needed for all else. `StaticCallsAreSafe` is not inductive alone: its last
conjunct, that only a thread whose reference has outlived its logger can use a dead one,
needs `References` (a reference names a logger that was constructed, and a call on it is
on that logger), and its others need the mutex. `IInv` is the conjunction of the three.
`LinesAreWhole` follows from it without an induction of its own: two static writers would
both hold `mutex_`, two writers through one Safe logger both its mutex.

`EpollWorkerProofs` proves the four invariants of the `epoll_worker` run for every number
of workers, connections, descriptors and every timeout. `DescriptorsOwnedOnce` counts
owners; its inductive form is `OwnedOnce` (a descriptor is open exactly if some worker has
it, as a client or in `accept_connections`; no two have it; none has it twice), and
`OwnersCounted` turns the one into the other. An event can be current only if nobody but
the worker itself closes its clients, so `EventsAreCurrent` needs `OwnedOnce`, and
`NoDanglingClient` needs `OrdinatorSound`: the routines of a worker have stacks of their
own, none in the map is finished, and the routine of descriptor 0 never runs. That the
free list has no cap, so that none of its entries is empty, is a part of it: the one crash
of the ordinator that TLC finds cannot happen here. Lemmas say what `create`, `resume` to
the next yield, and `resume` to the end make of an ordinator (`CreateSound`, `YieldSound`,
`RunToEndRemoves`). `StorageAssumption` is the only one that is about a bound: there is a
node for each descriptor, that is, `operator new` does not throw; `StorageFound` draws a
free node from it by counting.

`HttpExchangeProofs` proves the three invariants of the `http_exchange` run for every set
of requests and responses, every limit of a call and every size of the send queue. The
hypothesis on requests (`RequestsAssumption`) is what a request is: a head that ends with
the first empty line. `RequestIntact` follows from `BufferIsPrefix`, and this from
`HeadFound`: wherever the reads cut the end of the headers, the search that starts a few
bytes before the new ones finds it at its place and not before. `DoneMeansSent` holds in
spite of short writes because of `WriteLoses`: if the buffer and the count together are
the response, the queue has its beginning and the buffer its rest; if a short write has
lost some, the sum stays too small for ever, and the loop cannot end. `QueueFits` and
`EndIsFinal` say what the other two leave open.

`TcpconProofs`, in its second part, proves the invariants of the `async_server` run for
every set of descriptors, connections and configurations and any number of calls of
`event_loop`.
`ClientsConsistent` and `EventsAreCurrent` are almost inductive together; what is missing
is where `accept_connections` has a descriptor (`HeldMatches`), that a batch names a
descriptor once (`BatchMatches`), and what `event_loop` leaves behind (`LeftMatches`).

`ChildProcessProofs` proves the four invariants of the `child_process` run for any number
of objects and children, every message and every size of pipes. `OwnsItsChild` needs that
a child that was let go was forked once (`ChildMatches`), that an object has the read end
exactly as long as it has the child (`ObjectsMatch`), that the thread in a destructor or
an assignment still holds the object it is about (`WaitMatches`), and, as a failed exec
kills through a copy of the program, who is in which copy. `EndMeansGone` needs the rest
of `ChildMatches`: nobody but the child has the write end, and it has it as long as its
program runs, so a read that finds no writer is the end. `WholeIsExact` needs
`WriteMatches` and `ReadMatches`, the loop invariants of the exact calls: what went
through and what is left are the message, and the bytes are right as long as no system
call was partial (`parts`).

`TcpconProofs`, in its first part, proves the four invariants of the `tcp_connection` run
for any number of objects and descriptors, and every size of queues, backlogs, calls and
streams. The
inductive invariant has a part about the kernel, `KernelSound` (the ends of a connection
name each other, nothing follows the end of a stream, and what is on its way was sent) with
`QueueFaithful` (it is the last that was sent); a part about owners, `Owned`, from which
`OwnersCounted` derives the count in `OwnedOnce`; and one about each object: what it has
still to send is as long as (`Count`) and is (`RestIs`) what was given and not sent, in its
buffer or in the registers of `write_exact`. `StreamFaithful` is not inductive without the
last, as a send moves bytes from the one to the other. `BacklogFresh` says that an end that
waits for `accept` is as new, so that an object that gets it starts with nothing given.
Most steps touch one end; what they leave of the others is one relation, `Other`: an end is
as it was, or has lost its peer and lost nothing that it had to read. `EofIsTrue` follows
from it, and with it every step need only be looked at for the object that makes it. The
proof has one lemma per kind of step (`CallStep`, `SendStep`, `MovedStep`, `DeadStep`),
which the actions instantiate. The bounds of the model (`MaxLen`, `MaxGiven`, `Sockets`)
are arbitrary in it, but are there: the last byte a connection may carry is the
`MaxGiven`-th.

`StaticServerProofs` proves the four invariants of the `static_server` run for every set of
characters, every set of texts and of intents (of any length), every set of sizes, every
path and any number of changes of the file. The prover cannot use the induction theorems of
the library, whose parameter is an operator; the proofs use sets instead. A set of naturals
that is not empty has a least element (from the library's `WFMin`), so a set of naturals
with 0 and closed under successor has them all (`Induction`), so has a set of texts that has
every text whose shorter ones it has (`ByLength`), and a function defined by
recursion exists if its body needs only what is of smaller rank (`Recursion`). With it the
loops `Split`, `Joined` and `DecodeUrl` do what their equations say for all texts.

- `IntentAlwaysKept`: `Decodes(u, w)` says that `u`, in front of any rest, decodes to `w`,
  and is kept when texts are put together; an escaped text decodes to the text and has no
  separator (`Escaping`), as a line end is not among its characters; so the target decodes
  to what was meant (`TextSent`), and cutting it at the separators finds the parts again,
  if they have none (`TargetRead`, `QueryRead`). The empty line that ends the headers is
  the first one (`FirstGap`).
- `AlwaysPrintsBack`: whatever was accepted was parsed to pairs of a certain form
  (`LineParsed`, `HeadersParsed`); the map made of them is printed as a list of its pairs in
  some order (`ListingIs`), each pair is parsed back (`PairTexts`, `HeaderAgain`), and the
  whole is cut at the same places (`LinePrinted`, `HeadersAgain`, `RequestAgain`).
- `AnswerWasAlwaysTrue`: `LooksInv` says, for each place in `on_request`, what the looks
  before it have put into `seen`: a later look can rely on nothing else.
- `TypeCorrect`: `ReadInv` says that the request is what the text parses to, or nothing,
  and `StateKnown` has the types of the rest.

Assumptions on constants are those of the modules: that "none" values are not what they
stand beside, that descriptors are naturals, that sizes are positive, the two named
above (`StorageAssumption`, `RequestsAssumption`), that a text has an end of the headers,
as `event_loop` parses only then, and writes a CR before a LF as the one character that
stands for both (`TextsAssumption`), and that what a client means by a path or a parameter
has no line end (`IntentsAssumption`).

Only model-checked: the liveness properties `ConnectionsServed`, `StopEndsLoops`, `Answered`,
`HolderLetsGo`, `LoopServes`, `CallsReturn`, `MutexIsLetGo` and `CallsEnd`. They rest on
fairness, so on ENABLED, which is out of the prover's reach. Every other property of the
passing runs is a theorem. The two violations are counterexamples that TLC finds.

## 5. Plan

A composition of `HttpExchange` with `HttpMessage`, so that the text that is parsed is the
one that was read, and of `StaticServer`'s changes with the sendfile loop.

## 6. Not modelled

Formatting of log lines and times, `flush`, address conversion, `getsockname`, the RAII
wrappers, MIME types, the text of responses beyond its length, the number in a
Content-Length (`HttpExchange` has the length itself, `stoll` that throws is one of its
parsing errors), a null pointer given to `set_global_logger`; alignment in the linear
allocator, `Map::destroy` (it takes no lock and must not run beside anything) and moves of
maps; `close_connections` of `tcpcon`, which erases under its own iterator; a second
`Server::run` on one thread; the security of path handling is not a subject of this
development. Also left out are: a `swapcontext` that fails in `yield`, which the code
ignores (coroutine.cpp:152) and glibc's does not do; and an exception of `std::locale`
between the pieces of a line of a log (base_logger.cpp:21), which would leave a line that
begins and does not end.
