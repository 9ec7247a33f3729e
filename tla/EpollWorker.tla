----------------------------- MODULE EpollWorker -----------------------------
(***************************************************************************)
(* The event loops of tinyhttp::Server::run: one EpollWorker per thread,   *)
(* all accepting on one listening socket (EPOLLEXCLUSIVE), each serving    *)
(* its clients with one coroutine per connection, keyed by descriptor.     *)
(*                                                                         *)
(* Workers share the descriptor table of the process, the listening        *)
(* socket and the stop flag; a step of a worker holds one access to one of *)
(* these.  What a routine reads and writes is left to other modules: here  *)
(* a resumed client_routine yields, ends, ends with an I/O error, or ends  *)
(* with an exception of another type.                                      *)
(***************************************************************************)
EXTENDS Integers, Sequences, FiniteSets

CONSTANTS
  Workers,       (* threads running event_loop                            *)
  Fds,           (* descriptors the process may still open                *)
  Conns,         (* client connections, each made once                    *)
  NoConn,        (* no connection                                         *)
  Nodes,         (* storage of map nodes, per thread                      *)
  NoNode,        (* no map node                                           *)
  Timeouts,      (* values of EventLoopConfig::epoll_timeout              *)
  CanFail        (* which failures occur, see below                       *)

ASSUME FdsAssumption     == Fds \subseteq Nat
ASSUME ConnsAssumption   == NoConn \notin Conns
ASSUME NodesAssumption   == NoNode \notin Nodes
ASSUME TimeoutAssumption == Timeouts \subseteq Int
\* epoll_ctl(ADD) fails; epoll_pwait fails; accept, or what is asked of a connection
\* just accepted, fails without a shortage of descriptors; client_routine ends with an
\* exception that is neither an EofError nor an IoError.  (swapcontext does not fail
\* here, and no signal handler interrupts a call: see README.)
ASSUME FailAssumption ==
  CanFail \subseteq {"epoll_add", "epoll_pwait", "accept", "uncaught"}
\* operator new finds storage for a routine of each descriptor: bad_alloc is left out.
ASSUME StorageAssumption ==
  IsFiniteSet(Fds) /\ (IsFiniteSet(Nodes) => Cardinality(Fds) <= Cardinality(Nodes))

VARIABLES
  stopped,     (* Server::is_stopped_                                     *)
  epoll_timeout, (* how long epoll_pwait waits; below 0: without limit    *)
  backlog,     (* kernel: connections waiting in the listening socket     *)
  arrived,     (* connections made so far                                 *)
  hup,         (* connections the peer has reset or fully shut down       *)
  fdTable,     (* process: open descriptor -> connection                  *)
  woken,       (* kernel: workers whose epoll has the listener listed     *)
  pc,          (* worker -> where its event_loop is                       *)
  batch,       (* worker -> events of the last epoll_pwait not yet handled *)
  held,        (* worker -> descriptor in accept_connections, or NoFd     *)
  clients,     (* worker -> keys of EpollWorker::clients_                 *)
  registered,  (* worker -> client descriptors in its epoll set           *)
  ord,         (* worker -> thread_local Ordinator of its thread          *)
  bound,       (* worker -> descriptor -> connection of the Client that   *)
               (* the suspended client_routine holds a reference to       *)
  crash        (* the exception that left an event_loop, NoCrash if none  *)

serverVars == <<stopped, epoll_timeout>>
kernelVars == <<backlog, arrived, hup, woken>>
workerVars == <<batch, held, clients, registered, ord, bound>>
vars == <<serverVars, kernelVars, fdTable, pc, workerVars, crash>>

NoFd    == -1
NoCrash == "none"

Causes ==
  {NoCrash, "AcceptError", "IoServiceError", "EpollWaitError",
   "out_of_range", "invalid_argument", "logic_error", "uncaught"}

O == INSTANCE Ordinator WITH
       Ids <- Fds, Functions <- {"client_routine"}, NoFunc <- "empty",
       Exceptions <- {"EpollError", "IoError"}, NoExc <- "null"

AcceptEvent == [fd |-> NoFd, conn |-> NoConn, hup |-> FALSE]
Events == [fd : Fds, conn : Conns, hup : BOOLEAN] \cup {AcceptEvent}

Places == {"loop", "wait", "events", "accept", "register", "exited"}

TypeOK ==
  /\ stopped \in BOOLEAN /\ epoll_timeout \in Timeouts
  /\ backlog \in Seq(Conns) /\ arrived \subseteq Conns /\ hup \subseteq Conns
  /\ woken \subseteq Workers
  /\ fdTable \in [Fds -> Conns \cup {NoConn}]
  /\ pc \in [Workers -> Places]
  /\ batch \in [Workers -> SUBSET Events]
  /\ held \in [Workers -> Fds \cup {NoFd}]
  /\ clients \in [Workers -> SUBSET Fds]
  /\ registered \in [Workers -> SUBSET Fds]
  /\ ord \in [Workers -> O!OrdinatorType]
  /\ bound \in [Workers -> [Fds -> Conns \cup {NoConn}]]
  /\ crash \in Causes

Init ==
  /\ stopped = FALSE /\ epoll_timeout \in Timeouts
  /\ backlog = << >> /\ arrived = {} /\ hup = {} /\ woken = {}
  /\ fdTable = [fd \in Fds |-> NoConn]
  /\ pc = [w \in Workers |-> "loop"]
  /\ batch = [w \in Workers |-> {}]
  /\ held = [w \in Workers |-> NoFd]
  /\ clients = [w \in Workers |-> {}]
  /\ registered = [w \in Workers |-> {}]
  /\ ord = [w \in Workers |-> O!EmptyOrdinator([n \in Nodes |-> O!NewRoutine("empty")])]
  /\ bound = [w \in Workers |-> [fd \in Fds |-> NoConn]]
  /\ crash = NoCrash

(***************************************************************************)
(* Helpers                                                                 *)
(***************************************************************************)
Open(c)   == \E fd \in Fds : fdTable[fd] = c
Queued(c) == \E i \in 1..Len(backlog) : backlog[i] = c
FreeFds   == {fd \in Fds : fdTable[fd] = NoConn}
Lowest(S) == CHOOSE fd \in S : \A x \in S : fd <= x

GoTo(w, place) == pc' = [pc EXCEPT ![w] = place]

Dies(cause) ==
  /\ crash' = cause
  /\ UNCHANGED <<serverVars, kernelVars, fdTable, pc, workerVars>>

\* Mutant: the Descriptor is not closed.
ForgetFds(w, S) == registered' = [registered EXCEPT ![w] = @ \ S] /\ UNCHANGED fdTable

\* Mutant: the descriptor is closed but its file stays in the epoll set.
KeepRegistered(w, S) ==
  /\ fdTable' = [fd \in Fds |-> IF fd \in S THEN NoConn ELSE fdTable[fd]]
  /\ UNCHANGED registered

\* The closing of descriptors, the last step of ~Connection: the kernel drops
\* them from every epoll set.
CloseFds(w, S) ==
  /\ fdTable' = [fd \in Fds |-> IF fd \in S THEN NoConn ELSE fdTable[fd]]
  /\ registered' = [registered EXCEPT ![w] = @ \ S]

\* EpollWorker::close_connection, with the at() it begins with.
CloseConnection(w, fd) ==
  IF fd \in clients[w]
  THEN /\ clients' = [clients EXCEPT ![w] = @ \ {fd}]
       /\ CloseFds(w, {fd})
       /\ UNCHANGED crash
  ELSE /\ crash' = "out_of_range"
       /\ UNCHANGED <<clients, fdTable, registered>>

(***************************************************************************)
(* The peers and the owner of the server                                   *)
(***************************************************************************)
\* An exclusive wakeup reaches at least one of the epolls still open.
Connect(c) ==
  /\ c \notin arrived
  /\ arrived' = arrived \cup {c}
  /\ backlog' = Append(backlog, c)
  /\ LET live == {w \in Workers : pc[w] # "exited"} IN
     \E S \in IF live = {} THEN {{}} ELSE SUBSET live \ {{}} : woken' = woken \cup S
  /\ UNCHANGED <<serverVars, hup, fdTable, pc, workerVars, crash>>

HangUp(c) ==
  /\ Queued(c) \/ Open(c)
  /\ c \notin hup
  /\ hup' = hup \cup {c}
  /\ UNCHANGED <<serverVars, backlog, arrived, woken, fdTable, pc, workerVars, crash>>

Stop ==
  /\ ~stopped
  /\ stopped' = TRUE
  /\ UNCHANGED <<epoll_timeout, kernelVars, fdTable, pc, workerVars, crash>>

(***************************************************************************)
(* event_loop                                                              *)
(***************************************************************************)
\* Mutant: the loop does not test is_stopped().
EnterWaitUntested(w) ==
  /\ pc[w] = "loop"
  /\ GoTo(w, "wait")
  /\ UNCHANGED <<serverVars, kernelVars, fdTable, workerVars, crash>>

EnterWait(w) ==
  /\ pc[w] = "loop" /\ ~stopped
  /\ GoTo(w, "wait")
  /\ UNCHANGED <<serverVars, kernelVars, fdTable, workerVars, crash>>

\* event_loop returns and ~EpollWorker closes the clients and the epoll.  The
\* routines stay behind in the ordinator, which belongs to the thread.
Exit(w) ==
  /\ pc[w] = "loop" /\ stopped
  /\ GoTo(w, "exited")
  /\ CloseFds(w, clients[w])
  /\ clients' = [clients EXCEPT ![w] = {}]
  /\ woken' = woken \ {w}
  /\ UNCHANGED <<serverVars, backlog, arrived, hup, batch, held, ord, bound, crash>>

\* What must be reported, and what may: a client without a hang-up is ready or
\* not as its peer pleases.
AcceptReady(w) == IF w \in woken /\ backlog # << >> THEN {AcceptEvent} ELSE {}

HupEvents(w) ==
  {[fd |-> fd, conn |-> fdTable[fd], hup |-> TRUE] :
     fd \in {x \in registered[w] : fdTable[x] \in hup}}

DataEvents(w) ==
  {[fd |-> fd, conn |-> fdTable[fd], hup |-> FALSE] :
     fd \in {x \in registered[w] : fdTable[x] \notin hup}}

Sure(w) == AcceptReady(w) \cup HupEvents(w)

\* Mutant: the listener is registered with EPOLLET.
ListedOnce(w) == woken \ {w}

\* Level triggered: the listener stays in the ready list until found empty.
StillListed(w) == IF backlog = << >> THEN woken \ {w} ELSE woken

\* epoll_pwait returns events.
ReturnEvents(w) ==
  /\ pc[w] = "wait"
  /\ \E data \in SUBSET DataEvents(w) :
       /\ Sure(w) \cup data # {}
       /\ batch' = [batch EXCEPT ![w] = Sure(w) \cup data]
  /\ woken' = StillListed(w)
  /\ GoTo(w, "events")
  /\ UNCHANGED <<serverVars, backlog, arrived, hup, fdTable, held, clients, registered, ord, bound, crash>>

\* epoll_pwait returns nothing: the timeout is over.
ReturnEmpty(w) ==
  /\ pc[w] = "wait" /\ epoll_timeout >= 0 /\ Sure(w) = {}
  /\ GoTo(w, "loop")
  /\ UNCHANGED <<serverVars, kernelVars, fdTable, workerVars, crash>>

\* epoll_pwait fails and EpollWaitError leaves event_loop.
WaitFails(w) == pc[w] = "wait" /\ "epoll_pwait" \in CanFail /\ Dies("EpollWaitError")

EndBatch(w) ==
  /\ pc[w] = "events" /\ (batch[w] = {} \/ stopped)
  /\ batch' = [batch EXCEPT ![w] = {}]
  /\ GoTo(w, "loop")
  /\ UNCHANGED <<serverVars, kernelVars, fdTable, held, clients, registered, ord, bound, crash>>

\* The events of one epoll_pwait come in any order.
Takes(w, e) ==
  /\ pc[w] = "events" /\ ~stopped /\ e \in batch[w]
  /\ batch' = [batch EXCEPT ![w] = @ \ {e}]

TakeAccept(w) ==
  /\ Takes(w, AcceptEvent)
  /\ GoTo(w, "accept")
  /\ UNCHANGED <<serverVars, kernelVars, fdTable, held, clients, registered, ord, bound, crash>>

(***************************************************************************)
(* accept_connections                                                      *)
(***************************************************************************)
\* Another worker took the connection, or the server was stopped.
AcceptNothing(w) ==
  /\ pc[w] = "accept" /\ (stopped \/ backlog = << >>)
  /\ GoTo(w, "events")
  /\ UNCHANGED <<serverVars, kernelVars, fdTable, workerVars, crash>>

Accept(w) ==
  /\ pc[w] = "accept" /\ ~stopped /\ backlog # << >> /\ FreeFds # {}
  /\ LET fd == Lowest(FreeFds) IN
     /\ fdTable' = [fdTable EXCEPT ![fd] = Head(backlog)]
     /\ held' = [held EXCEPT ![w] = fd]
  /\ backlog' = Tail(backlog)
  /\ GoTo(w, "register")
  /\ UNCHANGED <<serverVars, arrived, hup, woken, batch, clients, registered, ord, bound, crash>>

\* accept fails, with EMFILE if there is no descriptor, and AcceptError leaves event_loop.
AcceptFails(w) ==
  /\ pc[w] = "accept" /\ ~stopped /\ backlog # << >>
  /\ FreeFds = {} \/ "accept" \in CanFail
  /\ Dies("AcceptError")

\* set_nonblock or getsockname fails for the connection that was accepted.
ConnectionFails(w) ==
  /\ pc[w] = "register" /\ "accept" \in CanFail
  /\ \E cause \in {"AcceptError", "IoServiceError"} : Dies(cause)

\* Mutant: no routine is created.
CreateForgotten(w, fd) == UNCHANGED ord

\* Which storage operator new returns makes no difference here.
Create(w, fd) ==
  ord' = [ord EXCEPT ![w] = CHOOSE o \in O!Creations(@, fd, "client_routine") : TRUE]

Register(w) ==
  LET fd == held[w] IN
  /\ pc[w] = "register"
  /\ clients' = [clients EXCEPT ![w] = @ \cup {fd}]
  /\ registered' = [registered EXCEPT ![w] = @ \cup {fd}]
  /\ Create(w, fd)
  /\ held' = [held EXCEPT ![w] = NoFd]
  /\ GoTo(w, "events")
  /\ UNCHANGED <<serverVars, kernelVars, fdTable, batch, bound, crash>>

\* epoll_ctl fails: add_to_event_loop takes the client out again, its result is
\* dropped, the routine is created all the same, and the local Connection
\* closes the descriptor at the end of the iteration.
RegisterFails(w) ==
  LET fd == held[w] IN
  /\ pc[w] = "register" /\ "epoll_add" \in CanFail
  /\ Create(w, fd)
  /\ CloseFds(w, {fd})
  /\ held' = [held EXCEPT ![w] = NoFd]
  /\ GoTo(w, "events")
  /\ UNCHANGED <<serverVars, kernelVars, batch, clients, bound, crash>>

(***************************************************************************)
(* handle_client and client_routine                                        *)
(***************************************************************************)
\* Mutant: a client's event is handled again.
TakesClientAgain(w, e, isHup) ==
  /\ e # AcceptEvent /\ e.hup = isHup
  /\ pc[w] = "events" /\ ~stopped /\ e \in batch[w]
  /\ UNCHANGED batch

TakesClient(w, e, isHup) ==
  /\ e # AcceptEvent /\ e.hup = isHup
  /\ Takes(w, e)

Fresh(w, fd) == O!RoutineOf(ord[w], fd).ctx = "entry"

\* A routine that runs to its end, and the tail of the resume that ran it.
RunToEnd(w, o, fd, e) ==
  /\ ord' = [ord EXCEPT ![w] = O!Collected(O!Ended(O!SwitchedTo(o, fd), e), fd)]
  /\ bound' = [bound EXCEPT ![w][fd] = NoConn]

\* EPOLLHUP or EPOLLERR: kill unwinds the routine (a fresh one never starts) and
\* brings the EpollError back; then the client is closed.
KillClient(w, e) ==
  /\ TakesClient(w, e, TRUE)
  /\ O!CanSwitchTo(ord[w], e.fd)
  /\ RunToEnd(w, O!Killed(ord[w], e.fd, "EpollError"), e.fd, "EpollError")
  /\ CloseConnection(w, e.fd)
  /\ UNCHANGED <<serverVars, kernelVars, pc, held>>

\* kill throws something else than the EpollError, and it leaves event_loop.
KillFails(w, e) ==
  /\ pc[w] = "events" /\ ~stopped /\ e \in batch[w] /\ e # AcceptEvent /\ e.hup
  /\ ~O!CanSwitchTo(ord[w], e.fd)
  /\ Dies(O!KillRefusal(ord[w], e.fd, "EpollError"))

\* The routine yields: at its first turn it has taken its reference to the
\* Client, which client_routine holds until it ends.
ClientYields(w, e) ==
  /\ TakesClient(w, e, FALSE)
  /\ O!CanSwitchTo(ord[w], e.fd)
  /\ Fresh(w, e.fd) => e.fd \in clients[w]
  /\ ord' = [ord EXCEPT ![w] = O!Yielded(O!SwitchedTo(@, e.fd))]
  /\ bound' = [bound EXCEPT ![w][e.fd] = IF Fresh(w, e.fd) THEN fdTable[e.fd] ELSE @]
  /\ UNCHANGED <<serverVars, kernelVars, fdTable, pc, held, clients, registered, crash>>

\* The exchange is over, or the peer is gone (EofError, IoError).
ClientEnds(w, e) ==
  /\ TakesClient(w, e, FALSE)
  /\ O!CanSwitchTo(ord[w], e.fd)
  /\ \E x \in {"null", "IoError"} : RunToEnd(w, ord[w], e.fd, x)
  /\ CloseConnection(w, e.fd)
  /\ UNCHANGED <<serverVars, kernelVars, pc, held>>

\* Any other exception of the routine leaves handle_client and event_loop.
ClientThrows(w, e) ==
  /\ "uncaught" \in CanFail
  /\ pc[w] = "events" /\ ~stopped /\ e \in batch[w] /\ e # AcceptEvent /\ ~e.hup
  /\ O!CanSwitchTo(ord[w], e.fd)
  /\ Dies("uncaught")

\* resume refuses: NONE closes the client, out_of_range leaves event_loop.
ResumeFails(w, e) ==
  /\ TakesClient(w, e, FALSE)
  /\ ~O!CanSwitchTo(ord[w], e.fd)
  /\ IF O!ResumeRefusal(ord[w], e.fd) = "NONE"
     THEN CloseConnection(w, e.fd)
     ELSE /\ crash' = "out_of_range"
          /\ UNCHANGED <<clients, fdTable, registered>>
  /\ UNCHANGED <<serverVars, kernelVars, pc, held, ord, bound>>

HandleClient(w, e) ==
  \/ KillClient(w, e) \/ KillFails(w, e)
  \/ ClientYields(w, e) \/ ClientEnds(w, e) \/ ClientThrows(w, e)
  \/ ResumeFails(w, e)

Worker(w) ==
  /\ crash = NoCrash
  /\ \/ EnterWait(w) \/ Exit(w)
     \/ ReturnEvents(w) \/ ReturnEmpty(w) \/ WaitFails(w) \/ EndBatch(w)
     \/ TakeAccept(w) \/ AcceptNothing(w) \/ Accept(w) \/ AcceptFails(w)
     \/ ConnectionFails(w) \/ Register(w) \/ RegisterFails(w)
     \/ \E e \in batch[w] : HandleClient(w, e)

Environment ==
  /\ crash = NoCrash
  /\ \/ Stop
     \/ \E c \in Conns : Connect(c) \/ HangUp(c)

Next == Environment \/ \E w \in Workers : Worker(w)

\* Threads are scheduled; nobody owes the server a client, a hang-up or a stop.
Fairness == \A w \in Workers : WF_vars(Worker(w))

Spec == Init /\ [][Next]_vars /\ Fairness

(***************************************************************************)
(* Invariants                                                              *)
(***************************************************************************)

\* Every open descriptor has one owner, a Client of one worker or the local
\* variables of one accept_connections: none leaks when epoll_ctl fails, a
\* client ends or a worker exits, and none is closed under another owner.
DescriptorsOwnedOnce ==
  \A fd \in Fds :
    Cardinality({w \in Workers : fd \in clients[w]}) + Cardinality({w \in Workers : held[w] = fd})
      = IF fdTable[fd] = NoConn THEN 0 ELSE 1

\* A client always has a routine that can be resumed or killed, so the at() of
\* resume and kill finds it.  Routines left over by a failed epoll_ctl, by an
\* older client of the same descriptor or by create's silent refusal of a taken
\* id must not break this.
ClientHasRoutine ==
  \A w \in Workers, fd \in Fds \ {0} : fd \in clients[w] => O!CanSwitchTo(ord[w], fd)

\* client_routine keeps a reference to its Client across yields: as long as the
\* loop runs, a suspended routine's client is in the map, under the routine's
\* descriptor, and still is the connection the routine started with.
NoDanglingClient ==
  \A w \in Workers, fd \in Fds :
    pc[w] # "exited" /\ O!Active(ord[w], fd) /\ ~Fresh(w, fd)
      => fd \in clients[w] /\ bound[w][fd] = fdTable[fd]

\* Descriptors, clients and routines agree on every worker.
ClientsConsistent == DescriptorsOwnedOnce /\ ClientHasRoutine /\ NoDanglingClient

\* Handling one event never makes another one of the same batch stale: each
\* still names a registered client of this worker, on the same connection.
EventsAreCurrent ==
  \A w \in Workers : \A e \in batch[w] \ {AcceptEvent} :
    e.fd \in registered[w] /\ fdTable[e.fd] = e.conn

\* No bookkeeping error of the worker ends its loop; only what epoll_pwait, accept
\* or the request handler throws does, and kill on descriptor 0.
OnlyForeignCrash ==
  /\ crash \notin {"out_of_range", "logic_error"}
  /\ crash = "invalid_argument" => 0 \in Fds

(***************************************************************************)
(* Liveness                                                                *)
(***************************************************************************)
Over == stopped \/ crash # NoCrash

\* The exclusive wakeup and the one accept per event lose no connection.
QueuedIsAccepted == \A c \in Conns : Queued(c) ~> (~Queued(c) \/ Over)

\* A connection its peer has hung up is closed, whatever its routine waits for.
HungUpIsClosed == \A c \in Conns : (c \in hup /\ Open(c)) ~> (~Open(c) \/ Over)

\* Both: the loops serve every connection.
ConnectionsServed == QueuedIsAccepted /\ HungUpIsClosed

\* After stop() every event loop returns, so that run() can join its threads,
\* and takes its descriptors with it, if epoll_pwait does not wait for ever.
StopEndsLoops ==
  (stopped /\ epoll_timeout >= 0) ~> (\A w \in Workers : pc[w] = "exited" /\ clients[w] = {}) \/ crash # NoCrash
==============================================================================
