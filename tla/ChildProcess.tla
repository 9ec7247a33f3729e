---------------------------- MODULE ChildProcess ----------------------------
(***************************************************************************)
(* lib/linuxproc: Process, a child behind two pipes, and the program that  *)
(* uses it.                                                                *)
(*                                                                         *)
(* The program has one thread.  It constructs, moves, swaps, assigns and   *)
(* destroys Process objects and calls their operations; a blocking call is *)
(* one action per thing that the kernel does for it.  A child copies its   *)
(* standard input to its standard output, as /bin/cat does in hw1_test,    *)
(* until it exits or is killed.                                            *)
(***************************************************************************)
EXTENDS Integers, Sequences, FiniteSetsExt

CONSTANTS
  Objects,   (* Process objects                                            *)
  Children,  (* children, each forked at most once                         *)
  None,      (* pid -1, an invalid descriptor, no object                   *)
  Message,   (* what is written to a child, once                           *)
  Messages,  (* bound: children that are written to                        *)
  PipeSize,  (* bytes a pipe holds                                         *)
  Stubborn   (* children that ignore SIGTERM once they run their program   *)

ASSUME SizeAssumption == PipeSize \in Nat \ {0} /\ Message \in Seq(Nat \ {0}) /\ Messages \in Nat
ASSUME NoneAssumption == None \notin Objects \cup Children /\ "program" \notin Children

VARIABLES
  object,   (* members of each Process object                              *)
  pc,       (* what the program's thread does                              *)
  call,     (* the operation it is in                                      *)
  buf,      (* the caller's buffer in a read                               *)
  stream,   (* bytes that this call has put into, or taken from, the pipe  *)
  parts,    (* write(2)s or read(2)s that it has completed                 *)
  child,    (* state of each child                                         *)
  term,     (* children with a pending SIGTERM                             *)
  ends,     (* who has each end of a child's two pipes                     *)
  copies,   (* pids in the objects that a child's copy of the program has  *)
  inp, out, (* contents of the pipe to a child, and of the one from it     *)
  held,     (* what a child has read and not yet written                   *)
  written,  (* children that were sent their message                       *)
  stale,    (* objects that were given a child after they had seen an end  *)
  forgotten (* children whose waitpid was interrupted                      *)

thread   == <<pc, call, buf, stream, parts>>
children == <<child, term, copies>>
pipes    == <<inp, out, held>>
history  == <<written, stale, forgotten>>
vars     == <<object, thread, children, ends, pipes, history>>

Absent == [scope |-> FALSE, pid |-> None, readable |-> FALSE, to |-> None, from |-> None]
NoCall == [kind |-> "none", of |-> None, exact |-> FALSE, left |-> 0, put |-> 0, next |-> None]
NoEnds == [toW |-> {}, toR |-> {}, fromW |-> {}, fromR |-> {}]

InScope(o) == object[o].scope
Living(c)  == child[c] \in {"forked", "runs", "stray"}

Init ==
  /\ object = [o \in Objects |-> Absent]
  /\ pc = "idle" /\ call = NoCall /\ buf = << >> /\ stream = << >> /\ parts = 0
  /\ child = [c \in Children |-> "unborn"] /\ term = {}
  /\ copies = [c \in Children |-> {}]
  /\ ends = [c \in Children |-> NoEnds]
  /\ inp = [c \in Children |-> << >>] /\ out = [c \in Children |-> << >>]
  /\ held = [c \in Children |-> << >>]
  /\ written = {} /\ stale = {} /\ forgotten = {}

(***************************************************************************)
(* Ends of pipes.  A fork gives the child a copy of every end its parent   *)
(* has; no end is marked close-on-exec.                                    *)
(***************************************************************************)
Dropped(e, who) == [end \in DOMAIN e |-> e[end] \ {who}]

Inherited(e, c) ==
  [end \in DOMAIN e |-> IF "program" \in e[end] THEN e[end] \cup {c} ELSE e[end]]

\* create_proc moves two ends into the object, and its Pipes close the others;
\* the child keeps all four.
EndsOfNew(c) == [toW |-> {"program", c}, toR |-> {c}, fromW |-> {c}, fromR |-> {"program", c}]

\* The program closes what object o has of its child's pipes.
ClosedBy(o) ==
  [c \in Children |->
     [ends[c] EXCEPT !.toW   = IF object[o].to = c THEN @ \ {"program"} ELSE @,
                     !.fromR = IF object[o].from = c THEN @ \ {"program"} ELSE @]]

(***************************************************************************)
(* Construction, moves and destruction                                     *)
(***************************************************************************)
Made(c) == [scope |-> TRUE, pid |-> c, readable |-> TRUE, to |-> c, from |-> c]

\* The kernel gives out pids in an order of its own.
NextPid == CHOOSE c \in Children : child[c] = "unborn"

\* create_proc; if a pipe or the fork fails, its exception leaves nothing.
Create(o, c) ==
  /\ pc = "idle" /\ ~InScope(o) /\ child[c] = "unborn" /\ c = NextPid
  /\ object' = [object EXCEPT ![o] = Made(c)]
  /\ child' = [child EXCEPT ![c] = "forked"]
  /\ ends' = [d \in Children |-> IF d = c THEN EndsOfNew(c) ELSE Inherited(ends[d], c)]
  /\ copies' = [copies EXCEPT ![c] = {object[q].pid : q \in Objects} \ {None}]
  /\ UNCHANGED <<thread, term, pipes, history>>

\* swap with an object that has no process; is_readable_ is not swapped.
Taken(o, q, flag) ==
  [object EXCEPT ![o] = [object[q] EXCEPT !.readable = flag],
                 ![q] = [object[q] EXCEPT !.pid = None, !.to = None, !.from = None]]

MoveConstruct(o, q) ==
  /\ pc = "idle" /\ ~InScope(o) /\ InScope(q)
  /\ object' = Taken(o, q, TRUE)
  /\ UNCHANGED <<thread, children, ends, pipes, history>>

\* swap, which leaves both flags where they are.
Swap(o, q) ==
  /\ pc = "idle" /\ InScope(o) /\ InScope(q) /\ o # q
  /\ object' = [object EXCEPT ![o] = [object[q] EXCEPT !.readable = object[o].readable],
                             ![q] = [object[o] EXCEPT !.readable = object[q].readable]]
  /\ stale' = stale \cup {x \in {o, q} : ~object[x].readable}
  /\ UNCHANGED <<thread, children, ends, pipes, written, forgotten>>

\* Mutant: a child that has closed its output is taken for gone.
HasReadableChild(o) == object[o].pid # None /\ object[o].readable

HasChild(o) == object[o].pid # None

\* Mutant: waitpid only.
KillsNot(o) == UNCHANGED term

Kills(o) == term' = term \cup {object[o].pid}

\* operator= ends the object's own process, if it has one, in a temporary.
MoveAssign(o, q) ==
  /\ pc = "idle" /\ InScope(o) /\ InScope(q) /\ o # q
  /\ \/ /\ HasChild(o) /\ Kills(o)
        /\ pc' = "wait" /\ call' = [NoCall EXCEPT !.kind = "assign", !.of = o, !.next = q]
        /\ UNCHANGED <<object, stale>>
     \/ /\ ~HasChild(o)
        /\ object' = Taken(o, q, object[o].readable)
        /\ stale' = IF object[o].readable THEN stale ELSE stale \cup {o}
        /\ UNCHANGED <<pc, call, term>>
  /\ UNCHANGED <<buf, stream, parts, child, copies, ends, pipes, written, forgotten>>

Destroy(o) ==
  /\ pc = "idle" /\ InScope(o)
  /\ \/ /\ HasChild(o) /\ Kills(o)
        /\ pc' = "wait" /\ call' = [NoCall EXCEPT !.kind = "destroy", !.of = o]
        /\ UNCHANGED <<object, stale>>
     \/ /\ ~HasChild(o)
        /\ object' = [object EXCEPT ![o] = Absent] /\ stale' = stale \ {o}
        /\ UNCHANGED <<pc, call, term>>
  /\ UNCHANGED <<buf, stream, parts, child, copies, ends, pipes, written, forgotten>>

\* After waitpid the descriptors are closed, and an assignment goes on.
Released(o) ==
  /\ ends' = ClosedBy(o)
  /\ \/ /\ call.kind = "assign"
        /\ object' = Taken(o, call.next, object[o].readable)
        /\ stale' = IF object[o].readable THEN stale ELSE stale \cup {o}
     \/ /\ call.kind = "destroy"
        /\ object' = [object EXCEPT ![o] = Absent] /\ stale' = stale \ {o}
  /\ pc' = "idle" /\ call' = NoCall
  /\ UNCHANGED <<buf, stream, parts, term, copies, inp, held, written>>

\* waitpid returns the child.
Reap ==
  /\ pc = "wait"
  /\ LET c == object[call.of].pid
     IN  /\ child[c] = "zombie" /\ child' = [child EXCEPT ![c] = "reaped"]
         /\ out' = [out EXCEPT ![c] = << >>]
  /\ Released(call.of) /\ UNCHANGED forgotten

\* A signal interrupts waitpid, whose result nobody looks at.
WaitFails ==
  /\ pc = "wait"
  /\ LET c == object[call.of].pid
     IN  child[c] # "zombie" /\ forgotten' = forgotten \cup {c}
  /\ Released(call.of) /\ UNCHANGED <<child, out>>

CloseStdin(o) ==
  /\ pc = "idle" /\ InScope(o) /\ object[o].to # None
  /\ object' = [object EXCEPT ![o].to = None]
  /\ ends' = [ends EXCEPT ![object[o].to].toW = @ \ {"program"}]
  /\ UNCHANGED <<thread, children, pipes, history>>

(***************************************************************************)
(* Calls that transfer bytes.  One that succeeds is at "returns" for a     *)
(* moment, with what the caller then has; one that throws ends at once.    *)
(***************************************************************************)
Begin(o, kind, exact, len) ==
  /\ pc = "idle" /\ InScope(o)
  /\ pc' = kind
  /\ call' = [kind |-> kind, of |-> o, exact |-> exact, left |-> len, put |-> 0, next |-> None]

End ==
  /\ pc' = "idle" /\ call' = NoCall
  /\ buf' = << >> /\ stream' = << >> /\ parts' = 0

Return == pc = "returns" /\ End /\ UNCHANGED <<object, children, ends, pipes, history>>

\* write and write_exact.  Bound: one message for a child.
BeginWrite(o, exact) ==
  /\ object[o].to \notin {None} \cup written /\ Cardinality(written) < Messages
  /\ Begin(o, "write", exact, Len(Message))
  /\ written' = written \cup {object[o].to}
  /\ UNCHANGED <<object, buf, stream, parts, children, ends, pipes, stale, forgotten>>

\* write_exact passes the beginning of the buffer to each write(2).
NextBytes(k) == SubSeq(Message, call.put + 1, call.put + k)

\* The kernel takes what fits, and waits for room.
Transfer ==
  /\ pc = "write"
  /\ LET c == object[call.of].to
         k == Min({PipeSize - Len(inp[c]), call.left - call.put})
     IN  /\ ends[c].toR # {} /\ k > 0
         /\ inp' = [inp EXCEPT ![c] = @ \o NextBytes(k)]
         /\ stream' = stream \o NextBytes(k)
         /\ call' = [call EXCEPT !.put = @ + k]
  /\ UNCHANGED <<object, pc, buf, parts, children, ends, out, held, history>>

\* Mutant: one byte too many is counted.
LeftOneShort(n) == call.left - n - 1

\* len -= bytes_written, len -= read(buf, len)
Left(n) == call.left - n

\* write(2) returns what it has put: all, or less if a signal interrupts it.
WriteReturns ==
  /\ pc = "write" /\ call.put > 0
  /\ call' = [call EXCEPT !.left = Left(call.put), !.put = 0]
  /\ pc' = IF call.exact /\ Left(call.put) > 0 THEN pc ELSE "returns"
  /\ parts' = parts + 1
  /\ UNCHANGED <<object, buf, stream, children, ends, pipes, history>>

\* EINTR before the first byte; or EPIPE, if the program ignores SIGPIPE.
WriteFails ==
  /\ pc = "write" /\ call.put = 0
  /\ End
  /\ UNCHANGED <<object, children, ends, pipes, history>>

\* SIGPIPE: nobody can read what is written.
BrokenPipe ==
  /\ pc = "write" /\ call.put < call.left /\ ends[object[call.of].to].toR = {}
  /\ pc' = "dead" /\ call' = NoCall /\ buf' = << >> /\ stream' = << >> /\ parts' = 0
  /\ object' = [o \in Objects |-> Absent] /\ stale' = {}
  /\ ends' = [c \in Children |-> Dropped(ends[c], "program")]
  /\ UNCHANGED <<children, pipes, written, forgotten>>

Unset == 0

\* read and read_exact.
BeginRead(o, exact, len) ==
  /\ object[o].from # None
  /\ Begin(o, "read", exact, len)
  /\ buf' = [i \in 1..len |-> Unset]
  /\ UNCHANGED <<object, stream, parts, children, ends, pipes, history>>

\* After the end was seen: read returns 0, read_exact throws EofError.
ReadRefused ==
  /\ pc = "read" /\ ~object[call.of].readable
  /\ End
  /\ UNCHANGED <<object, children, ends, pipes, history>>

\* Mutant: read_exact returns what the first read(2) gives.
EnoughAtOnce(k) == TRUE

Enough(k) == ~call.exact \/ k = call.left

\* read(2) returns what is there, to the beginning of the buffer each time.
ReadReturns ==
  /\ pc = "read" /\ object[call.of].readable
  /\ LET c == object[call.of].from
         k == Min({Len(out[c]), call.left})
     IN  /\ k > 0
         /\ buf' = [i \in DOMAIN buf |-> IF i <= k THEN out[c][i] ELSE buf[i]]
         /\ stream' = stream \o SubSeq(out[c], 1, k)
         /\ out' = [out EXCEPT ![c] = SubSeq(@, k + 1, Len(@))]
         /\ call' = [call EXCEPT !.left = Left(k)]
         /\ pc' = IF Enough(k) THEN "returns" ELSE pc
  /\ parts' = parts + 1
  /\ UNCHANGED <<object, children, ends, inp, held, history>>

\* Mutant: an empty pipe is taken for the end.
AtEndIfEmpty(c) == out[c] = << >>

\* The end: everything is read and nobody can write.
AtEnd(c) == out[c] = << >> /\ ends[c].fromW = {}

ReadEnd ==
  /\ pc = "read" /\ object[call.of].readable /\ AtEnd(object[call.of].from)
  /\ object' = [object EXCEPT ![call.of].readable = FALSE]
  /\ IF call.exact THEN UNCHANGED thread ELSE End
  /\ UNCHANGED <<children, ends, pipes, history>>

\* A signal interrupts a read that waits.
ReadFails ==
  /\ pc = "read" /\ object[call.of].readable /\ out[object[call.of].from] = << >>
  /\ End
  /\ UNCHANGED <<object, children, ends, pipes, history>>

(***************************************************************************)
(* The child                                                               *)
(***************************************************************************)
Exec(c) ==
  /\ child[c] = "forked" /\ child' = [child EXCEPT ![c] = "runs"]
  /\ copies' = [copies EXCEPT ![c] = {}]
  /\ UNCHANGED <<object, thread, term, ends, pipes, history>>

\* What prepare_to_exec has made of the standard input and output stays.
Redirected(c) == [Dropped(ends[c], c) EXCEPT !.toR = @ \cup {c}, !.fromW = @ \cup {c}]

\* dup, dup2 or execv fails: the exception destroys the pipes and goes on in the
\* child's copy of the program, after execv with the child's input and output.
ExecFails(c) ==
  /\ child[c] = "forked" /\ child' = [child EXCEPT ![c] = "stray"]
  /\ \E e \in {Dropped(ends[c], c), Redirected(c)} : ends' = [ends EXCEPT ![c] = e]
  /\ UNCHANGED <<object, thread, term, copies, pipes, history>>

\* The exception destroys the copy of another object, which kills its child.
StrayKills(c) ==
  /\ child[c] = "stray"
  /\ \E d \in copies[c] :
       /\ copies' = [copies EXCEPT ![c] = @ \ {d}]
       /\ term' = IF Living(d) THEN term \cup {d} ELSE term
       /\ ends' = [ends EXCEPT ![d].toW = @ \ {c}, ![d].fromR = @ \ {c}]
  /\ UNCHANGED <<object, thread, child, pipes, history>>

ChildReads(c) ==
  /\ child[c] \in {"runs", "stray"} /\ c \in ends[c].toR
  /\ held[c] = << >> /\ inp[c] # << >>
  /\ held' = [held EXCEPT ![c] = inp[c]] /\ inp' = [inp EXCEPT ![c] = << >>]
  /\ UNCHANGED <<object, thread, children, ends, out, history>>

ChildWrites(c) ==
  /\ child[c] \in {"runs", "stray"} /\ c \in ends[c].fromW /\ ends[c].fromR # {}
  /\ LET k == Min({PipeSize - Len(out[c]), Len(held[c])}) IN
       /\ k > 0
       /\ out' = [out EXCEPT ![c] = @ \o SubSeq(held[c], 1, k)]
       /\ held' = [held EXCEPT ![c] = SubSeq(@, k + 1, Len(@))]
  /\ UNCHANGED <<object, thread, children, ends, inp, history>>

\* The kernel closes what c has; what only c could have read is lost.
Dies(c) ==
  /\ child' = [child EXCEPT ![c] = "zombie"]
  /\ term' = term \ {c} /\ copies' = [copies EXCEPT ![c] = {}]
  /\ ends' = [d \in Children |-> Dropped(ends[d], c)]
  /\ inp' = [inp EXCEPT ![c] = << >>] /\ held' = [held EXCEPT ![c] = << >>]
  /\ UNCHANGED <<object, thread, out, history>>

Exits(c) == child[c] \in {"runs", "stray"} /\ Dies(c)

Killed(c) ==
  /\ c \in term /\ Living(c)
  /\ child[c] = "runs" => c \notin Stubborn
  /\ Dies(c)

(***************************************************************************)
(* The specification                                                       *)
(***************************************************************************)
GoOn ==
  \/ Reap \/ Return
  \/ Transfer \/ WriteReturns \/ BrokenPipe
  \/ ReadRefused \/ ReadReturns \/ ReadEnd

Interrupted == WaitFails \/ WriteFails \/ ReadFails

Calls ==
  \E o \in Objects :
    \/ \E c \in Children : Create(o, c)
    \/ \E q \in Objects : MoveConstruct(o, q) \/ Swap(o, q) \/ MoveAssign(o, q)
    \/ Destroy(o) \/ CloseStdin(o)
    \/ \E exact \in BOOLEAN :
         BeginWrite(o, exact) \/ \E len \in 1..Len(Message) : BeginRead(o, exact, len)

Behaves(c) ==
  Exec(c) \/ ExecFails(c) \/ StrayKills(c) \/ ChildReads(c) \/ ChildWrites(c) \/ Exits(c)

Next == GoOn \/ Interrupted \/ Calls \/ \E c \in Children : Behaves(c) \/ Killed(c)

(***************************************************************************)
(* The thread is scheduled, and a signal that is not ignored is delivered. *)
(* Nothing is assumed of what a child does by itself, or of interruptions. *)
(***************************************************************************)
Spec ==
  /\ Init /\ [][Next]_vars
  /\ WF_vars(GoOn)
  /\ \A c \in Children : WF_vars(Killed(c))

(***************************************************************************)
(* Properties                                                              *)
(***************************************************************************)
TypeOK ==
  /\ object \in [Objects -> [scope : BOOLEAN, pid : Children \cup {None}, readable : BOOLEAN,
                             to : Children \cup {None}, from : Children \cup {None}]]
  /\ pc \in {"idle", "wait", "write", "read", "returns", "dead"}
  /\ call \in [kind : {"none", "assign", "destroy", "write", "read"}, of : Objects \cup {None},
               exact : BOOLEAN, left : 0..Len(Message), put : 0..Len(Message),
               next : Objects \cup {None}]
  /\ parts \in 0..Len(Message) /\ Len(stream) <= Len(Message)
  /\ child \in [Children -> {"unborn", "forked", "runs", "stray", "zombie", "reaped"}]
  /\ term \subseteq Children /\ written \subseteq Children /\ stale \subseteq Objects
  /\ forgotten \subseteq Children
  /\ \A c \in Children :
       /\ \A end \in DOMAIN NoEnds : ends[c][end] \subseteq {"program"} \cup Children
       /\ copies[c] \subseteq Children
       /\ \A s \in {inp[c], out[c], held[c]} : Len(s) <= PipeSize

\* Each child that is not reaped has one owner while the program lives, and
\* each object's descriptors are its child's: no operation forgets a child but by
\* a waitpid that a signal interrupts (process.cpp:94), which none then owns, and
\* neither kill nor waitpid of a destructor hits a stranger.
OwnsItsChild ==
  /\ \A o \in Objects :
       /\ object[o].pid # None =>
            /\ child[object[o].pid] \notin {"unborn", "reaped"} /\ object[o].pid \notin forgotten
            /\ object[o].from = object[o].pid
            /\ \A q \in Objects : q # o => object[q].pid # object[o].pid
       /\ object[o].to \in {None, object[o].pid}
  /\ pc # "dead" =>
       \A c \in Children :
         child[c] \notin {"unborn", "reaped"} /\ c \notin forgotten =>
           \E o \in Objects : object[o].pid = c

\* is_readable() is false of an object that somebody may still write to only if
\* operator= or swap gave it another child and left its flag (process.cpp:31).
EndMeansGone ==
  \A o \in Objects :
    object[o].pid # None /\ ~object[o].readable /\ o \notin stale =>
      ends[object[o].pid].fromW = {} /\ child[object[o].pid] \in {"stray", "zombie"}

\* A call that needs one system call only transfers exactly the right bytes;
\* an exact one that needs more, the right number of bytes.
WholeIsExact ==
  pc = "returns" /\ call.exact =>
    LET right == IF call.kind = "write" THEN Message ELSE buf
    IN  Len(stream) = Len(right) /\ (parts = 1 => stream = right)

\* The calls that wait for a child return: the destructor and operator= unless
\* the child ignores SIGTERM, and a read once the child is gone, for nobody keeps an
\* end that it wrote to, also no child that was forked in the meantime.
CallsReturn ==
  \/ pc = "wait" /\ object[call.of].pid \notin Stubborn
  \/ pc = "read" /\ child[object[call.of].from] = "zombie"
  ~> pc \notin {"wait", "read"}
=============================================================================
