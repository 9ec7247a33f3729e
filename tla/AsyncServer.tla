----------------------------- MODULE AsyncServer -----------------------------
(***************************************************************************)
(* The asynchronous server of lib/tcpcon: one epoll event loop that calls  *)
(* handlers of its user for accepted, ready and closing connections.       *)
(*                                                                         *)
(* The thread that owns the server calls event_loop, gets it back by       *)
(* stop() or by an exception, and may call it again with the clients it    *)
(* still has.  stop() is called by handlers and by other threads.  A       *)
(* handler's reads and writes are left out; what it does to the server and *)
(* how it ends is not.                                                     *)
(***************************************************************************)
EXTENDS Integers, Sequences, FiniteSets

CONSTANTS
  Fds,         (* descriptors the process may still open                  *)
  Conns,       (* connections, each made once                             *)
  NoConn,      (* no connection                                           *)
  Configs,     (* configurations event_loop may be called with            *)
  CanFail,     (* epoll_ctl(ADD) and accept may fail                      *)
  MaxLoops     (* bound: calls of event_loop                              *)

ASSUME FdsAssumption    == Fds \subseteq Nat
ASSUME ConnsAssumption  == NoConn \notin Conns
\* Of EventLoopConfig: below 0 a timeout and a limit are none; with a limit of 0
\* the loop would never accept.  after_accept: such a handler is set.
ASSUME ConfigsAssumption ==
  Configs \subseteq [epoll_timeout : Int, max_accept : Int \ {0}, after_accept : BOOLEAN]
ASSUME FailAssumption   == CanFail \in BOOLEAN
ASSUME LoopsAssumption  == MaxLoops \in Nat

VARIABLES
  is_stoped,   (* Server::is_stoped_                                      *)
  waiting,     (* kernel: connections waiting in the listening socket     *)
  arrived,     (* connections made so far                                 *)
  hup,         (* connections the peer has reset or fully shut down       *)
  fdTable,     (* process: open descriptor -> connection                  *)
  epoll,       (* epoll_fd_ is valid                                      *)
  registered,  (* client descriptors in its epoll set                     *)
  clients,     (* keys of clients_                                        *)
  held,        (* descriptor in accept_connections, or NoFd               *)
  count,       (* its max_count                                           *)
  pc,          (* where event_loop is; "idle": not called                 *)
  batch,       (* events of the last epoll_pwait not yet handled          *)
  victims,     (* clients of this batch closed by another one's handler   *)
  left,        (* how event_loop was last left                            *)
  cfg,         (* configuration of the last call of event_loop            *)
  loops        (* calls of event_loop so far                              *)

peers == <<waiting, arrived, hup>>
asyncVars == <<is_stoped, peers, fdTable, epoll, registered, clients, held, count,
           pc, batch, victims, left, cfg, loops>>

NoFd == -1

AcceptEvent == [fd |-> NoFd, conn |-> NoConn, hup |-> FALSE]
Events == [fd : Fds, conn : Conns, hup : BOOLEAN] \cup {AcceptEvent}

Open(c)   == \E fd \in Fds : fdTable[fd] = c
Queued(c) == \E i \in 1..Len(waiting) : waiting[i] = c
FreeFds   == {fd \in Fds : fdTable[fd] = NoConn}
LowestFd(S) == CHOOSE fd \in S : \A x \in S : fd <= x

Running == pc \notin {"idle", "begin"}

ServerInit ==
  /\ is_stoped = FALSE
  /\ waiting = << >> /\ arrived = {} /\ hup = {}
  /\ fdTable = [fd \in Fds |-> NoConn]
  /\ epoll = FALSE /\ registered = {} /\ clients = {}
  /\ held = NoFd /\ count = 0 /\ pc = "idle" /\ batch = {} /\ victims = {}
  /\ left = "none" /\ cfg \in Configs /\ loops = 0

(***************************************************************************)
(* Erasing a client destroys its Connection, which closes the descriptor;  *)
(* the kernel drops it from the epoll set.                                 *)
(***************************************************************************)
\* Mutant: the entry goes and the descriptor stays open.
ErasedOnly(S) == clients' = clients \ S /\ UNCHANGED <<fdTable, registered>>

Erased(S) ==
  /\ clients' = clients \ S
  /\ fdTable' = [fd \in Fds |-> IF fd \in S THEN NoConn ELSE fdTable[fd]]
  /\ registered' = registered \ S

\* event_loop is left by an exception: the epoll stays open.
Throws(what) ==
  /\ pc' = "idle" /\ left' = what /\ batch' = {}
  /\ UNCHANGED <<is_stoped, peers, epoll, count, victims, cfg, loops>>

(***************************************************************************)
(* Peers, other threads, and the caller between two calls of event_loop.   *)
(***************************************************************************)
Connect(c) ==
  /\ c \notin arrived
  /\ arrived' = arrived \cup {c} /\ waiting' = Append(waiting, c)
  /\ UNCHANGED <<is_stoped, hup, fdTable, epoll, registered, clients, held, count, pc,
                 batch, victims, left, cfg, loops>>

HangUp(c) ==
  /\ Queued(c) \/ Open(c)
  /\ c \notin hup /\ hup' = hup \cup {c}
  /\ UNCHANGED <<is_stoped, waiting, arrived, fdTable, epoll, registered, clients, held,
                 count, pc, batch, victims, left, cfg, loops>>

Stop ==
  /\ ~is_stoped /\ is_stoped' = TRUE
  /\ UNCHANGED <<peers, fdTable, epoll, registered, clients, held, count, pc, batch,
                 victims, left, cfg, loops>>

\* A connection the caller has made is added before the loop runs: to the epoll
\* too if an exception has left one.  (If that fails the caller closes it.)
Prepare(c) ==
  /\ pc = "idle" /\ loops < MaxLoops /\ c \notin arrived /\ FreeFds # {}
  /\ LET fd == LowestFd(FreeFds) IN
     /\ fdTable' = [fdTable EXCEPT ![fd] = c]
     /\ clients' = clients \cup {fd}
     /\ registered' = IF epoll THEN registered \cup {fd} ELSE registered
  /\ arrived' = arrived \cup {c}
  /\ UNCHANGED <<is_stoped, waiting, hup, epoll, held, count, pc, batch, victims, left, cfg, loops>>

\* close_connection by the caller.
Release(fd) ==
  /\ pc = "idle" /\ loops < MaxLoops /\ fd \in clients
  /\ Erased({fd})
  /\ UNCHANGED <<is_stoped, peers, epoll, held, count, pc, batch, victims, left, cfg, loops>>

(***************************************************************************)
(* event_loop                                                              *)
(***************************************************************************)
Call ==
  /\ pc = "idle" /\ loops < MaxLoops
  /\ cfg' \in Configs
  /\ loops' = loops + 1 /\ pc' = "begin" /\ left' = "none"
  /\ UNCHANGED <<is_stoped, peers, fdTable, epoll, registered, clients, held, count, batch,
                 victims>>

\* The clients from before the call are registered with the new epoll.
Registrations == clients

\* The stop flag is cleared, whoever has set it since the call; the new epoll
\* replaces one that an exception has left.
Begin ==
  /\ pc = "begin"
  /\ is_stoped' = FALSE /\ epoll' = TRUE /\ registered' = Registrations
  /\ pc' = "loop"
  /\ UNCHANGED <<peers, fdTable, clients, held, count, batch, victims, left, cfg, loops>>

\* EpollAddError for one of them: those before it are registered.
BeginFails ==
  /\ pc = "begin" /\ CanFail
  /\ \E fd \in clients : registered' = {x \in clients : x < fd}
  /\ is_stoped' = FALSE /\ epoll' = TRUE
  /\ pc' = "idle" /\ left' = "EpollAddError"
  /\ UNCHANGED <<peers, fdTable, clients, held, count, batch, victims, cfg, loops>>

\* Mutant: the loop does not test is_stoped_.
EnterWaitUntested ==
  /\ pc = "loop" /\ pc' = "wait"
  /\ UNCHANGED <<is_stoped, peers, fdTable, epoll, registered, clients, held, count, batch,
                 victims, left, cfg, loops>>

EnterWait ==
  /\ pc = "loop" /\ ~is_stoped /\ pc' = "wait"
  /\ UNCHANGED <<is_stoped, peers, fdTable, epoll, registered, clients, held, count, batch,
                 victims, left, cfg, loops>>

Exit ==
  /\ pc = "loop" /\ is_stoped
  /\ pc' = "idle" /\ left' = "stopped"
  /\ epoll' = FALSE /\ registered' = {}
  /\ UNCHANGED <<is_stoped, peers, fdTable, clients, held, count, batch, victims, cfg, loops>>

AcceptReady == IF waiting # << >> THEN {AcceptEvent} ELSE {}

EventsOf(S, isHup) == {[fd |-> fd, conn |-> fdTable[fd], hup |-> isHup] : fd \in S}

HupEvents  == EventsOf({fd \in registered : fdTable[fd] \in hup}, TRUE)
DataEvents == EventsOf({fd \in registered : fdTable[fd] \notin hup}, FALSE)

Sure == AcceptReady \cup HupEvents

\* epoll_pwait, level triggered: what must be reported, and any clients whose
\* peers have sent something.
ReturnEvents ==
  /\ pc = "wait"
  /\ \E data \in SUBSET DataEvents : Sure \cup data # {} /\ batch' = Sure \cup data
  /\ victims' = {} /\ pc' = "events"
  /\ UNCHANGED <<is_stoped, peers, fdTable, epoll, registered, clients, held, count, left, cfg, loops>>

\* It times out, or a signal interrupts it.
ReturnEmpty ==
  /\ pc = "wait" /\ cfg.epoll_timeout >= 0 /\ Sure = {} /\ pc' = "loop"
  /\ UNCHANGED <<is_stoped, peers, fdTable, epoll, registered, clients, held, count, batch,
                 victims, left, cfg, loops>>

EndBatch ==
  /\ pc = "events" /\ (batch = {} \/ is_stoped)
  /\ batch' = {} /\ pc' = "loop"
  /\ UNCHANGED <<is_stoped, peers, fdTable, epoll, registered, clients, held, count, victims,
                 left, cfg, loops>>

Takes(e) == pc = "events" /\ ~is_stoped /\ e \in batch /\ batch' = batch \ {e}

(***************************************************************************)
(* accept_connections: the loop over accept.                               *)
(***************************************************************************)
TakeAccept ==
  /\ Takes(AcceptEvent)
  /\ count' = cfg.max_accept /\ pc' = "accept"
  /\ UNCHANGED <<is_stoped, peers, fdTable, epoll, registered, clients, held, victims, left, cfg, loops>>

AcceptsDone == is_stoped \/ count = 0 \/ waiting = << >>

EndAccept ==
  /\ pc = "accept" /\ AcceptsDone
  /\ pc' = "events"
  /\ UNCHANGED <<is_stoped, peers, fdTable, epoll, registered, clients, held, count, batch,
                 victims, left, cfg, loops>>

AcceptOne ==
  /\ pc = "accept" /\ ~AcceptsDone /\ FreeFds # {}
  /\ LET fd == LowestFd(FreeFds) IN
     fdTable' = [fdTable EXCEPT ![fd] = Head(waiting)] /\ held' = fd
  /\ waiting' = Tail(waiting) /\ pc' = "register"
  /\ UNCHANGED <<is_stoped, arrived, hup, epoll, registered, clients, count, batch, victims,
                 left, cfg, loops>>

\* accept fails: there is no descriptor (EMFILE), or for another reason.
AcceptFails ==
  /\ pc = "accept" /\ ~AcceptsDone /\ (FreeFds = {} \/ CanFail)
  /\ Throws("AcceptError")
  /\ UNCHANGED <<fdTable, registered, clients, held>>

\* Mutant: max_count is counted down without a limit too.
CountedAlways == count - 1

Counted == IF count > 0 THEN count - 1 ELSE count

\* add_to_event_loop, then the after_accept_handler, which may stop the server
\* and close any client, the new one too; what it throws is dropped.
Register ==
  /\ pc = "register"
  /\ \E stop \in BOOLEAN, closed \in SUBSET (clients \cup {held}) :
       /\ stop \/ closed # {} => cfg.after_accept
       /\ is_stoped' = (is_stoped \/ stop)
       /\ clients' = (clients \cup {held}) \ closed
       /\ registered' = (registered \cup {held}) \ closed
       /\ fdTable' = [fd \in Fds |-> IF fd \in closed THEN NoConn ELSE fdTable[fd]]
       /\ victims' = victims \cup (closed \ {held})
  /\ held' = NoFd /\ count' = Counted /\ pc' = "accept"
  /\ UNCHANGED <<peers, epoll, batch, left, cfg, loops>>

\* epoll_ctl fails: the client is taken out again and closed.  The result is
\* not looked at, and at() for the handler finds nothing.
RegisterFails ==
  /\ pc = "register" /\ CanFail
  /\ fdTable' = [fdTable EXCEPT ![held] = NoConn] /\ held' = NoFd
  /\ UNCHANGED <<registered, clients>>
  /\ IF cfg.after_accept
     THEN Throws("no_new_client")
     ELSE /\ count' = Counted /\ pc' = "accept"
          /\ UNCHANGED <<is_stoped, peers, epoll, batch, victims, left, cfg, loops>>

(***************************************************************************)
(* An event of a client.  clients_.at finds it by descriptor.              *)
(***************************************************************************)
\* Mutant: an event is handled again.
TakesClientAgain(e) ==
  e # AcceptEvent /\ pc = "events" /\ ~is_stoped /\ e \in batch /\ UNCHANGED batch

TakesClient(e) == Takes(e) /\ e # AcceptEvent

Handled(stop, closed, others) ==
  /\ is_stoped' = (is_stoped \/ stop)
  /\ Erased(closed) /\ victims' = victims \cup others
  /\ UNCHANGED <<peers, epoll, held, count, pc, left, cfg, loops>>

\* EPOLLHUP or EPOLLERR: close_connection, after the before_close_handler, which
\* may stop the server and close other clients; what it throws is dropped.
HandleHup(e) ==
  /\ TakesClient(e) /\ e.hup /\ e.fd \in clients
  /\ \E stop \in BOOLEAN, others \in SUBSET (clients \ {e.fd}) :
       Handled(stop, {e.fd} \cup others, others)

\* The handler may close its client, close others, stop the server; if it
\* throws, its client is closed, after the before_close_handler.
Handle(e) ==
  /\ TakesClient(e) /\ ~e.hup /\ e.fd \in clients
  /\ \E stop \in BOOLEAN, own \in SUBSET {e.fd}, others \in SUBSET (clients \ {e.fd}) :
       Handled(stop, own \cup others, others)

\* The client is gone: at() throws, and event_loop ends.
NoClient(e) ==
  /\ pc = "events" /\ ~is_stoped /\ e \in batch /\ e # AcceptEvent /\ e.fd \notin clients
  /\ Throws("no_client")
  /\ UNCHANGED <<fdTable, registered, clients, held>>

Loop ==
  \/ Begin \/ BeginFails \/ EnterWait \/ Exit \/ ReturnEvents \/ ReturnEmpty \/ EndBatch
  \/ TakeAccept \/ EndAccept \/ AcceptOne \/ AcceptFails \/ Register \/ RegisterFails
  \/ \E e \in batch : HandleHup(e) \/ Handle(e) \/ NoClient(e)

Caller == Call \/ (\E c \in Conns : Prepare(c)) \/ (\E fd \in Fds : Release(fd))

Environment == Stop \/ \E c \in Conns : Connect(c) \/ HangUp(c)

ServerNext == Loop \/ Caller \/ Environment

ServerSpec == ServerInit /\ [][ServerNext]_asyncVars

\* The thread that is in event_loop is scheduled.
FairServerSpec == ServerSpec /\ WF_asyncVars(Loop)

(***************************************************************************)
(* Properties                                                              *)
(***************************************************************************)
ServerTypeOK ==
  /\ is_stoped \in BOOLEAN /\ epoll \in BOOLEAN
  /\ waiting \in Seq(Conns) /\ arrived \subseteq Conns /\ hup \subseteq Conns
  /\ fdTable \in [Fds -> Conns \cup {NoConn}]
  /\ registered \subseteq Fds /\ clients \subseteq Fds /\ victims \subseteq Fds
  /\ held \in Fds \cup {NoFd} /\ batch \subseteq Events
  /\ cfg \in Configs /\ loops \in 0..MaxLoops
  /\ count = cfg.max_accept \/ count \in 0..cfg.max_accept \/ pc \notin {"accept", "register"}
  /\ pc \in {"idle", "begin", "loop", "wait", "events", "accept", "register"}
  /\ left \in {"none", "stopped", "EpollAddError", "AcceptError", "no_client", "no_new_client"}

\* Every open descriptor has one owner, an entry of clients_ or the local of
\* accept_connections, whatever fails, whoever closes, and however often
\* event_loop is left and called again.
DescriptorsOwnedOnce ==
  /\ held \notin clients
  /\ \A fd \in Fds : fdTable[fd] # NoConn <=> fd \in clients \/ held = fd

\* As long as the loop runs, its epoll has exactly the clients: those from
\* before the call, those of an earlier call too, and no closed one.
LoopServesAll == Running => epoll /\ registered = clients

\* Descriptors, clients and the epoll agree.
ClientsConsistent == DescriptorsOwnedOnce /\ LoopServesAll

\* An event of a batch still names a client on the same connection when it is
\* handled, unless the handler of another client has closed it: events are
\* looked up by descriptor, and the accept of the same batch may reuse it.
\* Hence at() in the loop fails only after such a close.
EventsAreCurrent ==
  /\ \A e \in batch \ {AcceptEvent} :
       e.fd \in victims \/ (e.fd \in registered /\ fdTable[e.fd] = e.conn)
  /\ left = "no_client" => victims # {}

\* A stop() during the loop ends it, if epoll_pwait does not wait for ever.  One
\* between the call and the loop's first assignment is lost.
StopEndsLoop == (is_stoped /\ Running /\ cfg.epoll_timeout >= 0) ~> ~Running

\* While the loop runs, the limit of accepts per event loses no connection.
QueuedIsAccepted == \A c \in Conns : (Queued(c) /\ Running) ~> (~Queued(c) \/ ~Running)

\* While the loop runs, a connection that has hung up gets closed.
HungUpIsClosed ==
  \A c \in Conns : (c \in hup /\ Open(c) /\ Running) ~> (~Open(c) \/ ~Running)

\* All three: the loop serves every connection and the one that stops it.
LoopServes == StopEndsLoop /\ QueuedIsAccepted /\ HungUpIsClosed
==============================================================================
