---------------------------- MODULE TcpConnection ----------------------------
(***************************************************************************)
(* tcpcon: the classes sync::ipv4::Connection and async::ipv4::Connection, *)
(* and sync::ipv4::Server, used by one thread per Connection object: what  *)
(* they make of connections that are refused, slow, reset or closed while  *)
(* a call waits, and of objects that connect or accept again.              *)
(*                                                                         *)
(* sock is the kernel's part: one record per end of a connection.  A system*)
(* call that may block is one action of its own, as are the loops' turns.  *)
(* Bytes are numbered in the order in which the callers have given them.   *)
(***************************************************************************)
EXTENDS Integers, Sequences, SequencesExt, FiniteSetsExt

CONSTANTS
  Objects,   (* Connection objects, each with its thread                  *)
  Async,     (* those of the asynchronous class                           *)
  Patient,   (* bound: objects whose callers set no timeouts              *)
  Sockets,   (* bound: ends in existence, by their descriptors            *)
  None,      (* no socket                                                 *)
  QueueCap,  (* bytes on their way, or received and not yet read          *)
  BacklogCap,
  MaxLen,    (* bound: length of a call                                   *)
  MaxGiven   (* bound: bytes given to one connection, none after a cut    *)

ASSUME SizesAssumption ==
  /\ Async \subseteq Objects /\ Patient \subseteq Objects
  /\ Sockets \subseteq Nat /\ None \notin Sockets
  /\ QueueCap \in Nat \ {0} /\ BacklogCap \in Nat \ {0}
  /\ MaxLen \in Nat \ {0} /\ MaxGiven \in Nat

VARIABLES
  listening,  (* the Server is open                                       *)
  backlog,    (* ends that wait for accept                                *)
  sock,       (* the ends                                                 *)
  fd,         (* sock_fd_ of each object                                  *)
  temp,       (* sock_fd_ of the object that connect is making            *)
  readable,   (* is_readable_                                             *)
  buf,        (* io_buffer_ of the asynchronous objects                   *)
  call        (* the call that each thread is in                          *)

vars == <<listening, backlog, sock, fd, temp, readable, buf, call>>
objectVars == <<fd, temp, readable, buf>>
serverVars == <<listening, backlog>>

NoBytes == <<>>
FreeSock ==
  [state |-> "free", peer |-> None, queue |-> NoBytes, fin |-> FALSE, error |-> FALSE,
   nonblock |-> FALSE, readTimeout |-> FALSE, writeTimeout |-> FALSE,
   given |-> NoBytes, sent |-> 0, split |-> FALSE]
Idle == [op |-> "none"]

Init ==
  /\ listening = TRUE /\ backlog = NoBytes
  /\ sock = [s \in Sockets |-> FreeSock]
  /\ fd = [o \in Objects |-> None] /\ temp = [o \in Objects |-> None]
  /\ readable = [o \in Objects |-> TRUE] /\ buf = [o \in Objects |-> NoBytes]
  /\ call = [o \in Objects |-> Idle]

\* socket and accept return the lowest free descriptor.
Free == {s \in Sockets : sock[s].state = "free"}
Lowest == Min(Free)
IsIdle(o) == call[o] = Idle
InCall(o, op) == call[o].op = op
Begins(o, c) == IsIdle(o) /\ call' = [call EXCEPT ![o] = c]
Ends(o) == call' = [call EXCEPT ![o] = Idle]

(***************************************************************************)
(* The kernel (external).                                                  *)
(***************************************************************************)
\* An end without a peer never waits: its options and what it has sent no longer
\* matter, and the model forgets them.
Alone(r) == [FreeSock EXCEPT !.state = r.state, !.queue = r.queue, !.fin = r.fin]
Waits(s) == sock[s].state = "connecting" \/ sock[s].peer # None
Reset(r) == [Alone(r) EXCEPT !.state = "dead", !.error = TRUE]
\* An end is closed: its peer reads to the end of the stream, unless the end had
\* unread data; then the peer is reset.
Closed(ss, s) ==
  LET p == ss[s].peer
      left == IF ss[s].queue # NoBytes THEN Reset(ss[p])
              ELSE [Alone(ss[p]) EXCEPT !.fin = TRUE]
      alone == [ss EXCEPT ![s] = FreeSock]
  IN  IF s = None THEN ss ELSE IF p = None THEN alone ELSE [alone EXCEPT ![p] = left]

\* The two ends of a new connection; the server's waits in the backlog.
CanConnect == listening /\ Len(backlog) < BacklogCap /\ Free # {}
Joined(ss, s) ==
  [ss EXCEPT ![s].state = "up", ![s].peer = Lowest,
             ![Lowest] = [FreeSock EXCEPT !.state = "up", !.peer = s]]

\* A connect that has returned EINPROGRESS ends.
Completes(s) ==
  /\ sock[s].state = "connecting" /\ CanConnect
  /\ sock' = Joined(sock, s) /\ backlog' = Append(backlog, Lowest)
  /\ UNCHANGED <<listening, objectVars, call>>
IsRefused(s) ==
  /\ sock[s].state = "connecting"
  /\ sock' = [sock EXCEPT ![s] = Reset(@)]
  /\ UNCHANGED <<serverVars, objectVars, call>>
\* The network, or the peer's host, fails.
Breaks(s) ==
  /\ sock[s].state = "up" /\ ~sock[s].error
  /\ sock' = [e \in Sockets |-> IF e = s \/ sock[e].peer = s THEN Reset(sock[e]) ELSE sock[e]]
  /\ UNCHANGED <<serverVars, objectVars, call>>

\* send: room for bytes, or an error; else it waits.
Peer(s) == sock[s].peer
Room(s) == IF Peer(s) = None THEN MaxLen ELSE QueueCap - Len(sock[Peer(s)].queue)
CanSend(s) == sock[s].state = "up" /\ Room(s) > 0
SendFails(s) == sock[s].state = "dead"
SendWaits(s) == ~CanSend(s) /\ ~SendFails(s)
\* A peer that has closed answers with a reset.
Sent(ss, s, bytes) ==
  IF Peer(s) = None THEN [ss EXCEPT ![s] = Reset(@)]
  ELSE [ss EXCEPT ![Peer(s)].queue = @ \o bytes, ![s].sent = @ + Len(bytes)]

\* recv: bytes, the end of the stream, or an error, which is reported once.
CanReceive(s) == sock[s].queue # NoBytes
AtEnd(s) ==
  ~CanReceive(s) /\ (sock[s].fin \/ (sock[s].state = "dead" /\ ~sock[s].error))
ReceiveFails(s) ==
  ~CanReceive(s) /\ ~sock[s].fin /\ sock[s].state = "dead" /\ sock[s].error
ReceiveWaits(s) == ~CanReceive(s) /\ ~AtEnd(s) /\ ~ReceiveFails(s)
Received(s, n) == [sock EXCEPT ![s].queue = SubSeq(@, n + 1, Len(@))]
Reported(s) == [sock EXCEPT ![s].error = FALSE]

(***************************************************************************)
(* Construction and connect: a new object is made and then moved into the  *)
(* old one, so the old connection is closed only if there is a new one.    *)
(***************************************************************************)
\* socket() and inet_pton, before connect().
NewSocket(o, nonblock) ==
  /\ IsIdle(o) /\ Free # {}
  /\ sock' = [sock EXCEPT ![Lowest].state = "new", ![Lowest].nonblock = nonblock]
  /\ temp' = [temp EXCEPT ![o] = Lowest]
  /\ Begins(o, [op |-> "connect"])
  /\ UNCHANGED <<serverVars, fd, readable, buf>>

SyncConnect(o) == o \notin Async /\ NewSocket(o, FALSE)
AsyncConnect(o, nonblock) == o \in Async /\ NewSocket(o, nonblock)

\* Mutant: is_readable_ is not moved.
MovedNotReadable(o, ss, s) ==
  /\ sock' = Closed(ss, fd[o]) /\ fd' = [fd EXCEPT ![o] = s]
  /\ buf' = [buf EXCEPT ![o] = NoBytes]
  /\ UNCHANGED readable

\* operator=(Connection &&), of the object with descriptor s.
Moved(o, ss, s) ==
  /\ sock' = Closed(ss, fd[o]) /\ fd' = [fd EXCEPT ![o] = s]
  /\ buf' = [buf EXCEPT ![o] = NoBytes]
  /\ readable' = [readable EXCEPT ![o] = TRUE]

\* connect() returns 0, or EINPROGRESS.
Made(o, ss) ==
  Moved(o, ss, temp[o]) /\ temp' = [temp EXCEPT ![o] = None] /\ Ends(o)
Handshake(o) ==
  /\ InCall(o, "connect") /\ CanConnect /\ ~sock[temp[o]].nonblock
  /\ Made(o, Joined(sock, temp[o])) /\ backlog' = Append(backlog, Lowest)
  /\ UNCHANGED listening
InProgress(o) ==
  /\ InCall(o, "connect") /\ sock[temp[o]].nonblock
  /\ Made(o, [sock EXCEPT ![temp[o]].state = "connecting"])
  /\ UNCHANGED serverVars

\* Mutant: the descriptor of the object that was not constructed stays open.
NotUnwound(o) == sock

\* The members of an object whose constructor throws.
Unwound(o) == Closed(sock, temp[o])

\* The address is invalid, or connect() fails.
ConnectFails(o) ==
  /\ InCall(o, "connect")
  /\ sock' = Unwound(o) /\ temp' = [temp EXCEPT ![o] = None] /\ Ends(o)
  /\ UNCHANGED <<serverVars, fd, readable, buf>>

\* connect() has succeeded and set_src_endpoint throws: the server has an end whose
\* peer has closed.
ConnectDropped(o) ==
  /\ InCall(o, "connect") /\ CanConnect /\ ~sock[temp[o]].nonblock
  /\ sock' = Closed(Joined(sock, temp[o]), temp[o]) /\ backlog' = Append(backlog, Lowest)
  /\ temp' = [temp EXCEPT ![o] = None] /\ Ends(o)
  /\ UNCHANGED <<listening, fd, readable, buf>>

(***************************************************************************)
(* sync::ipv4::Server                                                      *)
(***************************************************************************)
\* The constructor has bound and listens; if a step of it fails it leaves nothing.
Listen ==
  /\ ~listening /\ listening' = TRUE
  /\ UNCHANGED <<backlog, sock, objectVars, call>>

\* The kernel resets what was not accepted.
CloseServer ==
  /\ listening /\ listening' = FALSE /\ backlog' = NoBytes
  /\ sock' = [e \in Sockets |->
                IF e \in ToSet(backlog) THEN FreeSock
                ELSE IF sock[e].peer \in ToSet(backlog) THEN Reset(sock[e]) ELSE sock[e]]
  /\ UNCHANGED <<objectVars, call>>

\* The Connection that accept returns is moved into the object.
Accept(o) ==
  /\ o \notin Async /\ IsIdle(o) /\ backlog # NoBytes
  /\ Moved(o, sock, Head(backlog)) /\ backlog' = Tail(backlog)
  /\ UNCHANGED <<listening, temp, call>>

\* set_src_endpoint throws in the constructor of that Connection.
AcceptDropped(o) ==
  /\ o \notin Async /\ IsIdle(o) /\ backlog # NoBytes
  /\ sock' = Closed(sock, Head(backlog)) /\ backlog' = Tail(backlog)
  /\ UNCHANGED <<listening, objectVars, call>>

(***************************************************************************)
(* close and the destructors                                               *)
(***************************************************************************)
\* shutdown fails on an end that is not connected, and close throws, but then the
\* descriptor is closed all the same.
CloseFd(o) ==
  /\ IsIdle(o) /\ fd[o] # None
  /\ sock' = Closed(sock, fd[o]) /\ fd' = [fd EXCEPT ![o] = None]
  /\ UNCHANGED <<serverVars, temp, readable, call>>

SyncClose(o) == o \notin Async /\ CloseFd(o) /\ UNCHANGED buf
AsyncClose(o) == o \in Async /\ CloseFd(o) /\ UNCHANGED buf

(***************************************************************************)
(* Options                                                                 *)
(***************************************************************************)
SetReadTimeout(o) ==
  /\ IsIdle(o) /\ fd[o] # None /\ Waits(fd[o]) /\ o \notin Patient
  /\ sock' = [sock EXCEPT ![fd[o]].readTimeout = TRUE]
  /\ UNCHANGED <<serverVars, objectVars, call>>
SetWriteTimeout(o) ==
  /\ IsIdle(o) /\ fd[o] # None /\ Waits(fd[o]) /\ o \notin Patient
  /\ sock' = [sock EXCEPT ![fd[o]].writeTimeout = TRUE]
  /\ UNCHANGED <<serverVars, objectVars, call>>

\* flags | ~O_NONBLOCK clears nothing: FALSE leaves the mode as it is.
SetNonblock(o, opt) ==
  /\ o \in Async /\ IsIdle(o) /\ fd[o] # None /\ Waits(fd[o])
  /\ sock' = [sock EXCEPT ![fd[o]].nonblock = @ \/ opt]
  /\ UNCHANGED <<serverVars, objectVars, call>>

(***************************************************************************)
(* Writing                                                                 *)
(***************************************************************************)
Give(o, bytes) == [sock EXCEPT ![fd[o]].given = @ \o bytes]
NewBytes(o, n) ==
  LET last == Len(sock[fd[o]].given) IN [i \in 1..n |-> last + i]
MayGive(o, n) ==
  /\ fd[o] # None /\ ~sock[fd[o]].split
  /\ Len(sock[fd[o]].given) + n <= MaxGiven /\ Len(buf[o]) + n <= MaxGiven

\* A caller that is told that not all was sent: the rest is no longer given.
Withdrawn(ss, s) == [ss EXCEPT ![s].given = SubSeq(@, 1, ss[s].sent)]
Split(ss, s) == [ss EXCEPT ![s].split = TRUE]

\* write: what it returns is what was given.
SyncWrite(o, n) ==
  /\ o \notin Async /\ IsIdle(o) /\ MayGive(o, n) /\ CanSend(fd[o]) /\ n <= Room(fd[o])
  /\ sock' = Sent(Give(o, NewBytes(o, n)), fd[o], NewBytes(o, n))
  /\ UNCHANGED <<serverVars, objectVars, call>>

\* write_exact passes the same pointer to every send.
WriteExact(o, n) ==
  /\ o \notin Async /\ MayGive(o, n)
  /\ Begins(o, [op |-> "write", bytes |-> NewBytes(o, n), left |-> n])
  /\ sock' = Give(o, NewBytes(o, n))
  /\ UNCHANGED <<serverVars, objectVars>>
WriteExactSends(o) ==
  /\ InCall(o, "write") /\ CanSend(fd[o])
  /\ \E n \in 1..call[o].left :
       LET after == Sent(sock, fd[o], SubSeq(call[o].bytes, 1, n))
           left == call[o].left - n
       IN  /\ n <= Room(fd[o])
           /\ sock' = IF left = 0 THEN after ELSE Split(after, fd[o])
           /\ IF left = 0 THEN Ends(o) ELSE call' = [call EXCEPT ![o].left = left]
  /\ UNCHANGED <<serverVars, objectVars>>

\* WriteError: of the kernel, or after the timeout.
MayWrite(o) == o \notin Async /\ fd[o] # None /\ call[o].op \in {"none", "write"}
WriteError(o) ==
  /\ sock' = Withdrawn(Reported(fd[o]), fd[o]) /\ Ends(o)
  /\ UNCHANGED <<serverVars, objectVars>>
SyncSendFails(o) ==
  /\ MayWrite(o) /\ WriteError(o)
  /\ SendFails(fd[o]) \/ (SendWaits(fd[o]) /\ sock[fd[o]].writeTimeout)

\* The caller appends to get_io_buffer().
Put(o, n) ==
  /\ o \in Async /\ IsIdle(o) /\ MayGive(o, n) /\ Waits(fd[o])
  /\ sock' = Give(o, NewBytes(o, n)) /\ buf' = [buf EXCEPT ![o] = @ \o NewBytes(o, n)]
  /\ UNCHANGED <<serverVars, fd, temp, readable, call>>

\* Mutant: the buffer is cut after -1 as well.
ErasedAgain(o, n) == SubSeq(buf[o], n + 1, Len(buf[o]))

\* What write_from_io_buff(n) leaves when send returns -1.
KeptOnAgain(o, n) == buf[o]

\* It erases what it wanted to send, and returns what was sent.
WriteFromBuffer(o, len) ==
  /\ o \in Async /\ IsIdle(o) /\ fd[o] # None /\ len <= Len(buf[o]) /\ CanSend(fd[o])
  /\ \E n \in 1..len :
       LET after == Sent(sock, fd[o], SubSeq(buf[o], 1, n))
       IN  /\ n <= Room(fd[o])
           /\ sock' = IF n < len THEN Split(after, fd[o]) ELSE after
  /\ buf' = [buf EXCEPT ![o] = SubSeq(@, len + 1, Len(@))]
  /\ UNCHANGED <<serverVars, fd, temp, readable, call>>

\* EAGAIN: -1, of a non-blocking socket or after the timeout.
WritesNothing(o, len) ==
  /\ o \in Async /\ IsIdle(o) /\ fd[o] # None /\ len <= Len(buf[o]) /\ SendWaits(fd[o])
  /\ sock[fd[o]].nonblock \/ sock[fd[o]].writeTimeout
  /\ buf' = [buf EXCEPT ![o] = KeptOnAgain(o, len)]
  /\ UNCHANGED <<serverVars, sock, fd, temp, readable, call>>

\* WriteError; the buffer is kept.
AsyncSendFails(o) ==
  /\ o \in Async /\ IsIdle(o) /\ fd[o] # None /\ buf[o] # NoBytes /\ SendFails(fd[o])
  /\ sock' = Reported(fd[o])
  /\ UNCHANGED <<serverVars, objectVars, call>>

(***************************************************************************)
(* Reading                                                                 *)
(***************************************************************************)
\* What a call has taken is no longer the kernel's.
SyncRead(o, n) ==
  /\ o \notin Async /\ IsIdle(o) /\ fd[o] # None /\ n <= Len(sock[fd[o]].queue)
  /\ sock' = Received(fd[o], n)
  /\ UNCHANGED <<serverVars, objectVars, call>>

\* read_exact throws EofError at once after the end was seen.
ReadExact(o, n) ==
  /\ o \notin Async /\ fd[o] # None /\ readable[o]
  /\ Begins(o, [op |-> "read", left |-> n])
  /\ UNCHANGED <<serverVars, sock, objectVars>>
ReadExactReceives(o) ==
  /\ InCall(o, "read") /\ CanReceive(fd[o])
  /\ \E n \in 1..call[o].left :
       /\ n <= Len(sock[fd[o]].queue) /\ sock' = Received(fd[o], n)
       /\ IF n < call[o].left THEN call' = [call EXCEPT ![o].left = @ - n] ELSE Ends(o)
  /\ UNCHANGED <<serverVars, objectVars>>

\* recv returns 0; read_exact then throws EofError.
SyncReadEnds(o) ==
  /\ o \notin Async /\ fd[o] # None /\ call[o].op \in {"none", "read"} /\ AtEnd(fd[o])
  /\ readable' = [readable EXCEPT ![o] = FALSE] /\ Ends(o)
  /\ UNCHANGED <<serverVars, sock, fd, temp, buf>>

MayRead(o) == o \notin Async /\ fd[o] # None /\ call[o].op \in {"none", "read"}
ReadError(o) ==
  /\ sock' = Reported(fd[o]) /\ Ends(o)
  /\ UNCHANGED <<serverVars, objectVars>>
\* Mutant: EAGAIN is no error, as in the asynchronous class; read_exact tries again.
SyncReadTriesAgain(o) == MayRead(o) /\ ReadError(o) /\ ReceiveFails(fd[o])

\* ReadError: what read_exact has taken before is lost.
SyncReadFails(o) ==
  /\ MayRead(o) /\ ReadError(o)
  /\ ReceiveFails(fd[o]) \/ (ReceiveWaits(fd[o]) /\ sock[fd[o]].readTimeout)

\* A signal interrupts a call that waits: EINTR is an error like any other.
Interrupted(o) ==
  \/ MayWrite(o) /\ WriteError(o) /\ SendWaits(fd[o])
  \/ MayRead(o) /\ ReadError(o) /\ ReceiveWaits(fd[o])

\* read, whose bytes the caller keeps for itself.
AsyncRead(o, n) ==
  /\ o \in Async /\ IsIdle(o) /\ fd[o] # None /\ n <= Len(sock[fd[o]].queue)
  /\ sock' = Received(fd[o], n)
  /\ UNCHANGED <<serverVars, objectVars, call>>

\* Mutant: the temporary buffer is not cut to what was read.
NotResized(o, n) == SubSeq(sock[fd[o]].queue, 1, n) \o <<0>>

\* What read_in_io_buff appends to the buffer.
Resized(o, n) == SubSeq(sock[fd[o]].queue, 1, n)

\* It will be written from there.
ReadInBuffer(o, n) ==
  /\ o \in Async /\ IsIdle(o) /\ MayGive(o, n) /\ n <= Len(sock[fd[o]].queue)
  /\ LET bytes == Resized(o, n)
     IN  /\ buf' = [buf EXCEPT ![o] = @ \o bytes]
         /\ sock' = [Received(fd[o], n) EXCEPT ![fd[o]].given = @ \o bytes]
  /\ UNCHANGED <<serverVars, fd, temp, readable, call>>

AsyncReadEnds(o) ==
  /\ o \in Async /\ IsIdle(o) /\ fd[o] # None /\ AtEnd(fd[o])
  /\ readable' = [readable EXCEPT ![o] = FALSE]
  /\ UNCHANGED <<serverVars, sock, fd, temp, buf, call>>

\* ReadError; after EAGAIN it returns -1 and nothing is changed.
AsyncReadFails(o) ==
  /\ o \in Async /\ IsIdle(o) /\ fd[o] # None /\ ReceiveFails(fd[o])
  /\ sock' = Reported(fd[o])
  /\ UNCHANGED <<serverVars, objectVars, call>>

(***************************************************************************)
(* The specification                                                       *)
(***************************************************************************)
Calls(o) ==
  \/ SyncConnect(o) \/ \E nonblock \in BOOLEAN : AsyncConnect(o, nonblock)
  \/ Accept(o) \/ AcceptDropped(o) \/ SyncClose(o) \/ AsyncClose(o)
  \/ SetReadTimeout(o) \/ SetWriteTimeout(o)
  \/ \E opt \in BOOLEAN : SetNonblock(o, opt)
  \/ \E n \in 1..MaxLen :
       \/ SyncWrite(o, n) \/ WriteExact(o, n) \/ SyncRead(o, n) \/ ReadExact(o, n)
       \/ Put(o, n) \/ WriteFromBuffer(o, n) \/ WritesNothing(o, n)
       \/ AsyncRead(o, n) \/ ReadInBuffer(o, n)
  \/ AsyncSendFails(o) \/ AsyncReadEnds(o) \/ AsyncReadFails(o)

Connecting(o) == Handshake(o) \/ InProgress(o) \/ ConnectFails(o) \/ ConnectDropped(o)
GoesOn(o) ==
  \/ WriteExactSends(o) \/ SyncSendFails(o)
  \/ ReadExactReceives(o) \/ SyncReadEnds(o) \/ SyncReadFails(o)

Kernel == \E s \in Sockets : Completes(s) \/ IsRefused(s) \/ Breaks(s)

Next ==
  \/ \E o \in Objects : Calls(o) \/ Connecting(o) \/ GoesOn(o) \/ Interrupted(o)
  \/ Listen \/ CloseServer \/ Kernel

Spec == Init /\ [][Next]_vars

\* A thread whose call can go on does; timeouts expire.
FairSpec == Spec /\ \A o \in Objects \ Async : WF_vars(GoesOn(o))

(***************************************************************************)
(* Properties                                                              *)
(***************************************************************************)
Ops == {"none", "connect", "write", "read"}
Bytes == UNION {[1..n -> 1..MaxGiven] : n \in 0..MaxGiven}

\* Types, and that the two ends of a connection agree on it.
TypeOK ==
  /\ listening \in BOOLEAN /\ ToSet(backlog) \subseteq Sockets
  /\ \A s \in Sockets :
       /\ sock[s].state \in {"free", "new", "connecting", "up", "dead"}
       /\ sock[s].peer \in Sockets \cup {None} /\ sock[s].sent \in 0..MaxGiven
       /\ sock[s].queue \in Bytes /\ sock[s].given \in Bytes /\ Len(sock[s].queue) <= QueueCap
       /\ {sock[s].fin, sock[s].error, sock[s].nonblock, sock[s].split,
           sock[s].readTimeout, sock[s].writeTimeout} \subseteq BOOLEAN
       /\ sock[s].peer # None => sock[s].state = "up" /\ sock[sock[s].peer].peer = s
  /\ fd \in [Objects -> Sockets \cup {None}] /\ temp \in [Objects -> Sockets \cup {None}]
  /\ readable \in [Objects -> BOOLEAN] /\ buf \in [Objects -> Bytes]
  /\ \A o \in Objects : call[o].op \in Ops /\ (call[o].op \in {"read", "write"} => fd[o] # None)

\* Every descriptor in use belongs to one object, or to one under construction,
\* or is not yet accepted: none leaks when a constructor throws, when an object
\* connects or accepts again, or when close throws.
Owners(s) ==
  Cardinality({o \in Objects : fd[o] = s}) + Cardinality({o \in Objects : temp[o] = s})
    + Cardinality({i \in DOMAIN backlog : backlog[i] = s})
OwnedOnce ==
  \A s \in Sockets : Owners(s) = IF sock[s].state = "free" THEN 0 ELSE 1

\* An object says that it cannot be read only if nothing will ever come on its
\* connection: the peer has closed and everything was read, or the connection is
\* gone; an object that has connected or accepted again can be read again.
EofIsTrue == \A o \in Objects : (fd[o] # None /\ ~readable[o]) => AtEnd(fd[o])

\* What is on its way to the peer, and then what is in the buffer, is what the
\* caller has given and the peer has not read, in order; unless a transfer was
\* cut in two, which write_exact continues from the beginning of its bytes, and
\* write_from_io_buff behind the end of them.
StreamFaithful ==
  \A s \in Sockets : LET end == sock[s] IN
    (end.peer # None /\ ~end.split) =>
      /\ sock[end.peer].queue =
           SubSeq(end.given, end.sent - Len(sock[end.peer].queue) + 1, end.sent)
      /\ \A o \in Async : fd[o] = s => buf[o] = SubSeq(end.given, end.sent + 1, Len(end.given))

\* read_exact and write_exact return or throw on a socket that has a timeout for
\* them, whatever the peer does.
Timed(o) ==
  \/ InCall(o, "read") /\ sock[fd[o]].readTimeout
  \/ InCall(o, "write") /\ sock[fd[o]].writeTimeout
CallsEnd == \A o \in Objects \ Async : Timed(o) ~> IsIdle(o)
===============================================================================
