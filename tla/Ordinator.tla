------------------------------ MODULE Ordinator ------------------------------
(***************************************************************************)
(* The data structure behind the coroutine library: the thread_local       *)
(* Ordinator of lib/coroutine, as operators on a record                    *)
(*                                                                         *)
(*   routines           the active routines: id -> node, NoNode if absent  *)
(*   mem                what each map node holds (class Routine)           *)
(*   finished           the free list of extracted nodes; NoNode stands    *)
(*                      for an empty node handle                           *)
(*   current            the running routine's id, Main when the caller of  *)
(*                      the library runs                                   *)
(*   freelist_max_size  cap of the free list, negative: no cap             *)
(*                                                                         *)
(* A node owns one stack for ever, so node identity is stack identity.     *)
(* ctx abstracts the saved ucontext_t to the place it will resume at.      *)
(***************************************************************************)
EXTENDS Integers, Sequences

CONSTANTS
  Ids,         (* routine_t values a caller uses; may contain Main        *)
  Nodes,       (* storage of map nodes                                    *)
  NoNode,      (* no node, or an empty node handle                        *)
  Functions,   (* non-empty std::function values                          *)
  NoFunc,      (* the empty std::function                                 *)
  Exceptions,  (* exceptions a routine can be killed with or can throw    *)
  NoExc        (* the null exception_ptr                                  *)

Main == 0

ASSUME IdsAssumption   == Ids \subseteq Nat
ASSUME NodesAssumption == NoNode \notin Nodes
ASSUME FuncAssumption  == NoFunc \notin Functions
ASSUME ExcAssumption   == NoExc \notin Exceptions

Routine == [func : Functions \cup {NoFunc}, finished : BOOLEAN,
            exception : Exceptions \cup {NoExc}, ctx : {"entry", "yield"}]

OrdinatorType == [routines : [Ids -> Nodes \cup {NoNode}],
                  mem : [Nodes -> Routine],
                  finished : Seq(Nodes \cup {NoNode}),
                  current : Ids \cup {Main},
                  freelist_max_size : Int]

(***************************************************************************)
(* Queries.                                                                *)
(***************************************************************************)
Active(o, id)    == o.routines[id] # NoNode
RoutineOf(o, id) == o.mem[o.routines[id]]

\* Storage owned neither by the map nor by the free list.
Unowned(o) == {n \in Nodes : /\ \A id \in Ids : o.routines[id] # n
                             /\ \A i \in 1..Len(o.finished) : o.finished[i] # n}

(***************************************************************************)
(* Routine::Routine and Routine::reset.                                    *)
(***************************************************************************)
NewRoutine(f) == [func |-> f, finished |-> FALSE, exception |-> NoExc, ctx |-> "entry"]

\* Mutant: a reused routine keeps the exception it ended with.
ResetKeepsException(r, f) == [r EXCEPT !.func = f, !.finished = FALSE, !.ctx = "entry"]

Reset(r, f) ==
  [r EXCEPT !.func = f, !.finished = FALSE, !.exception = NoExc, !.ctx = "entry"]

(***************************************************************************)
(* create: with an empty free list the routine is built in place in node   *)
(* n, and an id already in the map makes that a no-op.  Otherwise the last *)
(* free node is reset and inserted; if the id is taken, insert hands the   *)
(* node back in its result, which is dropped, and the node is gone.        *)
(***************************************************************************)
Emplaced(o, id, f, n) ==
  [o EXCEPT !.routines[id] = n, !.mem[n] = NewRoutine(f)]

\* Mutant: the node is used while the free list still has it.
ReusedNotPopped(o, id, f) ==
  LET n == o.finished[Len(o.finished)]
  IN  [o EXCEPT !.mem[n] = Reset(@, f),
                !.routines[id] = IF @ = NoNode THEN n ELSE @]

Reused(o, id, f) ==
  LET n == o.finished[Len(o.finished)]
  IN  [o EXCEPT !.finished = SubSeq(@, 1, Len(@) - 1),
                !.mem[n] = Reset(@, f),
                !.routines[id] = IF @ = NoNode THEN n ELSE @]

\* Every outcome of create; the choice is which storage the allocator hands out.
Creations(o, id, f) ==
  IF o.finished # << >> THEN {Reused(o, id, f)}
  ELSE IF Active(o, id) THEN {o}
  ELSE {Emplaced(o, id, f, n) : n \in Unowned(o)}

(***************************************************************************)
(* The checks of resume and kill, and what they report when one fails.     *)
(***************************************************************************)
CanSwitchTo(o, id) ==
  /\ id # Main
  /\ Active(o, id)
  /\ ~RoutineOf(o, id).finished

ResumeRefusal(o, id) ==
  IF id # Main /\ ~Active(o, id) THEN "out_of_range" ELSE "NONE"

KillRefusal(o, id, e) ==
  IF id = Main \/ e = NoExc THEN "invalid_argument"
  ELSE IF ~Active(o, id) THEN "out_of_range" ELSE "logic_error"

(***************************************************************************)
(* resume up to its swapcontext, and what the routine does to the          *)
(* ordinator when it gives the thread back: yield, or the end of entry.    *)
(***************************************************************************)
SwitchedTo(o, id) == [o EXCEPT !.current = id]

Yielded(o) ==
  [o EXCEPT !.mem[o.routines[o.current]].ctx = "yield", !.current = Main]

Ended(o, e) ==
  [o EXCEPT !.mem[o.routines[o.current]].exception = e,
            !.mem[o.routines[o.current]].finished = TRUE,
            !.current = Main]

(***************************************************************************)
(* resume after its swapcontext, for a finished routine: the node leaves   *)
(* the map, and the free list keeps it if its cap allows.                  *)
(***************************************************************************)
HasRoom(o) == o.freelist_max_size < 0 \/ Len(o.finished) < o.freelist_max_size

Collected(o, id) ==
  [o EXCEPT !.routines[id] = NoNode,
            !.finished = IF HasRoom(o) THEN Append(@, o.routines[id]) ELSE @]

(***************************************************************************)
(* kill up to the call of resume, and set_freelist_max_size, whose         *)
(* deque::resize cuts at the back or pads with empty node handles.         *)
(***************************************************************************)
Killed(o, id, e) == [o EXCEPT !.mem[o.routines[id]].exception = e]

Resized(s, size) ==
  [i \in 1..size |-> IF i <= Len(s) THEN s[i] ELSE NoNode]

Limited(o, size) ==
  [o EXCEPT !.freelist_max_size = size,
            !.finished = IF size >= 0 THEN Resized(@, size) ELSE @]

\* thread_local construction.
EmptyOrdinator(mem) ==
  [routines |-> [id \in Ids |-> NoNode], mem |-> mem, finished |-> << >>,
   current |-> Main, freelist_max_size |-> -1]

(***************************************************************************)
(* What must hold of an ordinator between any two operations.              *)
(***************************************************************************)

\* No stack has two owners: a node is in the map under one id, or in the free
\* list once, and never in both.
Disjoint(o) ==
  /\ \A i, j \in Ids : Active(o, i) /\ o.routines[i] = o.routines[j] => i = j
  /\ \A i \in 1..Len(o.finished), id \in Ids :
       o.finished[i] # NoNode => o.routines[id] # o.finished[i]
  /\ \A i, j \in 1..Len(o.finished) :
       o.finished[i] # NoNode /\ o.finished[i] = o.finished[j] => i = j

\* The free list never holds more than its cap.
WithinCap(o) == o.freelist_max_size >= 0 => Len(o.finished) <= o.freelist_max_size
==============================================================================
