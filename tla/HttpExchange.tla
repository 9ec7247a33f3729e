---------------------------- MODULE HttpExchange ----------------------------
(***************************************************************************)
(* One connection of the HTTP server: the coroutine that reads a request   *)
(* and writes its response (client_routine), the buffer of the Connection, *)
(* the socket between it and the peer, and what epoll wakes it for.        *)
(*                                                                         *)
(* One action is one system call of the routine.  The routine runs         *)
(* (running) until it yields; then it waits for the kernel to report the   *)
(* kind of readiness it has asked for (interest).                          *)
(*                                                                         *)
(* Bytes of a request are CR, LF and Other; bytes of a response are their  *)
(* positions, so that a lost or repeated byte shows.                       *)
(***************************************************************************)
EXTENDS Integers, Sequences

CONSTANTS
  CR, LF,      (* the two bytes the reader looks for                      *)
  Other,       (* any other byte of a request                             *)
  Requests,    (* what the peer may send                                  *)
  Responses,   (* what on_request may answer                              *)
  MaxRead,     (* MAX_READ_BYTES_PER_CALL                                 *)
  MaxWrite,    (* MAX_WRITE_BYTES_PER_CALL                                *)
  SendCap      (* capacity of the socket's send queue                     *)

NoRequest == [head |-> << >>, body |-> << >>]

VARIABLES
  req,       (* what the peer sends: head, body, announced body length    *)
  sent,      (* bytes of it sent so far                                   *)
  fin,       (* the peer has shut down its sending side                   *)
  gone,      (* the peer has closed or reset the connection               *)
  received,  (* bytes the server has taken from the socket                *)
  buffer,    (* Connection::io_buffer_                                    *)
  pc,        (* where the routine is                                      *)
  running,   (* it has the thread; FALSE: it has yielded                  *)
  interest,  (* what the descriptor is registered for                     *)
  head_end,  (* result of read_until_headers_end                          *)
  request,   (* what on_request was given                                 *)
  resp,      (* what it answered                                          *)
  written,   (* counter of the write loop                                 *)
  out,       (* bytes the kernel has taken from the routine               *)
  got,       (* how many of them the peer has read                        *)
  outcome    (* how the routine ended                                     *)

peer == <<req, sent, fin, gone>>
vars == <<req, sent, fin, gone, received, buffer, pc, running, interest,
          head_end, request, resp, written, out, got, outcome>>

HeadersEnd == <<CR, LF, CR, LF>>

\* A response: size bytes of line, headers and body; then, with a sender, the
\* file, whose announced and whose actual length may differ once it is sent.
NoResponse == [size |-> 0, file |-> 0, actual |-> 0]

Wire == req.head \o req.body

\* What the peer sends first is a head: it ends with the first HeadersEnd in it.
\* body is what it sends after that, length what it has announced.
ASSUME RequestsAssumption ==
  \A r \in Requests :
    /\ r.head \in Seq({CR, LF, Other}) /\ r.body \in Seq({CR, LF, Other}) /\ r.length \in Nat
    /\ Len(r.head) >= Len(HeadersEnd)
    /\ \A i \in 0..(Len(r.head) - Len(HeadersEnd)) :
         SubSeq(r.head, i + 1, i + Len(HeadersEnd)) = HeadersEnd
           <=> i = Len(r.head) - Len(HeadersEnd)

ASSUME ResponsesAssumption ==
  \A r \in Responses : r.size \in Nat \ {0} /\ r.file \in Nat /\ r.actual \in Nat

ASSUME BoundsAssumption ==
  MaxRead \in Nat \ {0} /\ MaxWrite \in Nat \ {0} /\ SendCap \in Nat \ {0}

MinOf(a, b) == IF a < b THEN a ELSE b

(***************************************************************************)
(* std::string::find, positions counted from 0; -1 is npos.                *)
(***************************************************************************)
Occurs(b, pos) == SubSeq(b, pos + 1, pos + Len(HeadersEnd)) = HeadersEnd

Find(b, from) ==
  LET found == {p \in from..(Len(b) - Len(HeadersEnd)) : Occurs(b, p)}
  IN  IF found = {} THEN -1 ELSE CHOOSE p \in found : \A q \in found : p <= q

\* Mutant: the end of the headers may not be cut by two reads.
SearchFromEnd(b) == Len(b)

\* Where the next search starts: before the part not yet seen by as much as
\* the pattern is long.
SearchFrom(b) ==
  IF Len(b) > Len(HeadersEnd) THEN Len(b) - Len(HeadersEnd) ELSE 0

(***************************************************************************)
(* The kernel.  Level triggered: a descriptor is reported as long as it is *)
(* ready for what it is registered for; a hang-up always is.               *)
(***************************************************************************)
Readable == received < sent \/ fin
Writable == Len(out) - got < SendCap
Ready    == gone \/ (interest = "in" /\ Readable) \/ (interest = "out" /\ Writable)

\* Bytes one recv or one send or sendfile of at most n bytes moves.
Arriving   == SubSeq(Wire, received + 1, MinOf(sent, received + MaxRead))
Accepted(n) == MinOf(n, SendCap - (Len(out) - got))

Init ==
  /\ req \in Requests /\ sent = 0 /\ fin = FALSE /\ gone = FALSE
  /\ received = 0 /\ buffer = << >>
  /\ pc = "headers" /\ running = FALSE /\ interest = "in"
  /\ head_end = -1 /\ request = NoRequest /\ resp = NoResponse
  /\ written = 0 /\ out = << >> /\ got = 0 /\ outcome = "none"

(***************************************************************************)
(* The peer: sends any number of the next bytes, reads, stops sending,     *)
(* goes away.                                                              *)
(***************************************************************************)
PeerSend ==
  /\ ~fin /\ ~gone
  /\ \E n \in sent + 1..Len(Wire) : sent' = n
  /\ UNCHANGED <<req, fin, gone, received, buffer, pc, running, interest,
                 head_end, request, resp, written, out, got, outcome>>

PeerFin ==
  /\ ~fin /\ ~gone /\ fin' = TRUE
  /\ UNCHANGED <<req, sent, gone, received, buffer, pc, running, interest,
                 head_end, request, resp, written, out, got, outcome>>

PeerGone ==
  /\ ~gone /\ gone' = TRUE
  /\ UNCHANGED <<req, sent, fin, received, buffer, pc, running, interest,
                 head_end, request, resp, written, out, got, outcome>>

PeerRead ==
  /\ ~gone /\ got < Len(out) /\ got' = Len(out)
  /\ UNCHANGED <<req, sent, fin, gone, received, buffer, pc, running, interest,
                 head_end, request, resp, written, out, outcome>>

(***************************************************************************)
(* The routine ends: by its return, or by an exception that handle_client  *)
(* catches (eof, io_error, killed) or does not (other); or with the program,*)
(* by a signal (sigpipe).                                                  *)
(***************************************************************************)
End(how) ==
  /\ pc' = "closed" /\ running' = FALSE /\ outcome' = how
  /\ UNCHANGED <<req, sent, fin, gone, received, buffer, interest, head_end, request,
                 resp, written, out, got>>

\* The loop resumes the routine, or kills it.
Wake ==
  /\ pc # "closed" /\ ~running /\ Ready /\ ~gone
  /\ running' = TRUE
  /\ UNCHANGED <<req, sent, fin, gone, received, buffer, pc, interest, head_end,
                 request, resp, written, out, got, outcome>>

HangUp == pc # "closed" /\ ~running /\ gone /\ End("killed")

(***************************************************************************)
(* Connection::read_in_io_buff in one of the two reading loops: an error,  *)
(* the end of the stream, nothing yet (yield), or more bytes in the buffer.*)
(***************************************************************************)
ReadFails == gone /\ End("io_error")

ReadEof == ~gone /\ received = sent /\ fin /\ End("eof")

ReadNothing ==
  /\ ~gone /\ received = sent /\ ~fin
  /\ running' = FALSE
  /\ UNCHANGED <<req, sent, fin, gone, received, buffer, pc, interest, head_end,
                 request, resp, written, out, got, outcome>>

Take ==
  /\ ~gone /\ received < sent
  /\ buffer' = buffer \o Arriving
  /\ received' = received + Len(Arriving)

\* read_until_headers_end: one turn of its loop.
ReadHeaders ==
  /\ running /\ pc = "headers"
  /\ \/ ReadFails \/ ReadEof
     \/ /\ Take
        /\ head_end' = Find(buffer', SearchFrom(buffer))
        /\ IF head_end' # -1
           THEN pc' = "parse" /\ UNCHANGED running
           ELSE running' = FALSE /\ UNCHANGED pc
        /\ UNCHANGED <<req, sent, fin, gone, interest, request, resp, written, out, got,
                       outcome>>

\* The request line, the headers or the length may be malformed.
Parse ==
  /\ running /\ pc = "parse"
  /\ \/ End("other")
     \/ /\ pc' = "body"
        /\ UNCHANGED <<req, sent, fin, gone, received, buffer, running, interest, head_end,
                       request, resp, written, out, got, outcome>>

(***************************************************************************)
(* read_body: start_pos and was_read follow from the buffer.  Every turn   *)
(* ends with a yield, the last one too.                                    *)
(***************************************************************************)
BodyStart == head_end + Len(HeadersEnd)
WasRead   == Len(buffer) - BodyStart

\* Mutant: the body is complete one byte early.
HasMostOfBody == WasRead >= req.length - 1

HasBody   == WasRead >= req.length

ReadBody ==
  /\ running /\ pc = "body" /\ ~HasBody
  /\ \/ ReadFails \/ ReadEof \/ ReadNothing
     \/ /\ Take
        /\ running' = FALSE
        /\ UNCHANGED <<req, sent, fin, gone, pc, interest, head_end, request, resp, written,
                       out, got, outcome>>

(***************************************************************************)
(* The request is complete: interest changes, on_request answers, and the  *)
(* buffer takes the response.  on_request may throw.                       *)
(***************************************************************************)
Bytes(from, n) == [i \in 1..n |-> from + i]

Respond ==
  /\ running /\ pc = "body" /\ HasBody
  /\ \/ End("other")
     \/ /\ request' = [head |-> SubSeq(buffer, 1, BodyStart),
                       body |-> SubSeq(buffer, BodyStart + 1,
                                       MinOf(Len(buffer), BodyStart + req.length))]
        /\ interest' = "out"
        /\ resp' \in Responses
        /\ buffer' = Bytes(0, resp'.size)
        /\ written' = 0
        /\ pc' = "write"
        /\ UNCHANGED <<req, sent, fin, gone, received, running, head_end, out, got, outcome>>

(***************************************************************************)
(* The write loop over write_from_io_buff: len bytes leave the buffer      *)
(* however few of them send has taken; written counts those it has taken.  *)
(***************************************************************************)
Wanted == MinOf(MaxWrite, Len(buffer))

\* Mutants: the loop counts what it wanted to send, or a send of nothing as -1.
CountsAll(k)     == Wanted
CountsFailure(k) == IF k = 0 THEN -1 ELSE k

Counted(k) == k
Erased(k)  == IF k > 0 THEN Wanted ELSE 0

Write ==
  /\ running /\ pc = "write" /\ written < resp.size
  /\ \/ gone /\ End("io_error")
     \/ /\ ~gone
        /\ LET k == Accepted(Wanted) IN
           /\ out' = out \o SubSeq(buffer, 1, k)
           /\ buffer' = SubSeq(buffer, Erased(k) + 1, Len(buffer))
           /\ written' = written + Counted(k)
        /\ running' = FALSE
        /\ UNCHANGED <<req, sent, fin, gone, received, pc, interest, head_end, request, resp,
                       got, outcome>>

\* The loop is over: the sender goes on with its file, or the routine returns.
StartFile ==
  /\ running /\ pc = "write" /\ written >= resp.size /\ resp.file > 0
  /\ pc' = "file" /\ written' = 0
  /\ UNCHANGED <<req, sent, fin, gone, received, buffer, running, interest, head_end,
                 request, resp, out, got, outcome>>

Finish ==
  /\ running
  /\ \/ pc = "write" /\ written >= resp.size /\ resp.file = 0
     \/ pc = "file" /\ written >= resp.file
  /\ End("done")

\* sendfile goes on where the descriptor stands, past the announced length if
\* the file has grown, and returns 0 at the end of the file.  To a peer that has
\* gone it fails, and SIGPIPE, which nothing in the program handles, may end it.
SendFile ==
  /\ running /\ pc = "file" /\ written < resp.file
  /\ \/ gone /\ (End("other") \/ End("sigpipe"))
     \/ /\ ~gone
        /\ LET k == Accepted(MinOf(MaxWrite, resp.actual - written)) IN
           /\ out' = out \o Bytes(resp.size + written, k)
           /\ written' = written + k
        /\ running' = FALSE
        /\ UNCHANGED <<req, sent, fin, gone, received, buffer, pc, interest, head_end,
                       request, resp, got, outcome>>

Routine == ReadHeaders \/ Parse \/ ReadBody \/ Respond \/ Write \/ StartFile \/ SendFile \/ Finish
Worker  == Wake \/ HangUp \/ Routine
Peer    == PeerSend \/ PeerFin \/ PeerGone \/ PeerRead
Next    == Worker \/ Peer

Spec == Init /\ [][Next]_vars

\* The worker's thread runs; a peer that stays reads what it is sent.
FairSpec == Spec /\ WF_vars(Worker) /\ WF_vars(PeerRead)

(***************************************************************************)
(* Properties                                                              *)
(***************************************************************************)
TypeOK ==
  /\ req \in Requests /\ sent \in 0..Len(Wire) /\ received \in 0..sent
  /\ fin \in BOOLEAN /\ gone \in BOOLEAN /\ running \in BOOLEAN
  /\ pc \in {"headers", "parse", "body", "write", "file", "closed"}
  /\ interest \in {"in", "out"}
  /\ buffer \in Seq({CR, LF, Other} \cup Nat) /\ head_end \in -1..Len(Wire)
  /\ resp \in Responses \cup {NoResponse}
  /\ written \in Nat /\ got \in 0..Len(out)
  /\ outcome \in {"none", "done", "eof", "io_error", "killed", "other", "sigpipe"}

Complete(n) == n >= Len(req.head) + req.length

\* However the stream was cut, on_request gets exactly the head and the
\* announced part of the body: the end of the headers is found where it is
\* (read_until_headers_end) and nothing of the body is missing (read_body).  The
\* end of the stream is an error only to a request that was cut short: a peer
\* that stops sending after its request is not cut off.
RequestIntact ==
  /\ request # NoRequest =>
       /\ request.head = req.head
       /\ Len(request.body) = req.length
       /\ request.body = SubSeq(req.body, 1, req.length)
  /\ outcome = "eof" => ~Complete(sent)

\* The whole of the response, once each and in order, and of the file at
\* least what was announced.
Whole == Bytes(0, resp.size + resp.file)

\* A routine that returns has given the kernel its whole response, whatever
\* the short writes on the way; only a file that has grown adds bytes to it.
DoneMeansSent ==
  outcome = "done" =>
    /\ Len(out) >= Len(Whole) /\ SubSeq(out, 1, Len(Whole)) = Whole
    /\ resp.actual <= resp.file => out = Whole

\* What the kernel gets is at any time a beginning of the response, even if
\* the routine never returns.  Short writes break it: see http_short_write.
SentInOrder == out = Bytes(0, Len(out))

\* Two ways to wait for ever: sendfile on a file that was cut returns 0, and
\* after a short write the bytes that are counted are no longer there.
Stuck == resp.actual < resp.file \/ resp.size > SendCap

\* A peer that has sent its request gets its response, unless it goes away:
\* always if the request has no body, else if it also stops sending.  A
\* connection that is cut short or closed is given up.
Answered ==
  /\ (Complete(sent) /\ (fin \/ req.length = 0)) ~> (outcome # "none" \/ gone \/ Stuck)
  /\ (gone \/ (fin /\ ~Complete(sent))) ~> (pc = "closed")
=============================================================================
