------------------------------ MODULE Coroutine ------------------------------
(***************************************************************************)
(* One thread using lib/coroutine.  The thread's main context calls        *)
(* create, resume, kill, yield and set_freelist_max_size in any order; a   *)
(* routine's function yields, returns, throws, and catches or lets through *)
(* the exception that yield rethrows.  Only the main context resumes and   *)
(* kills, as everywhere in this repository.                                *)
(*                                                                         *)
(* A step runs from one context switch, or one decision of user code, to   *)
(* the next: the ordinator is thread_local, so nothing interleaves with a  *)
(* library call but the routine it switches to.                            *)
(***************************************************************************)
EXTENDS Ordinator

CONSTANTS Sizes   \* arguments given to set_freelist_max_size

ASSUME SizesAssumption == Sizes \subseteq Int

VARIABLES
  ordinator,  (* the thread's Ordinator                                   *)
  pc,         (* where the thread is, see Places                          *)
  call,       (* the call of resume or kill in progress                   *)
  outcome     (* what the last library call returned or threw, "none"     *)
              (* while resume or kill is in progress                      *)

vars == <<ordinator, pc, call, outcome>>

Places == {"main",     \* caller code
           "entry",    \* start of entry(), on the routine's stack
           "yielded",  \* in yield(), its swapcontext has come back
           "body",     \* inside the routine's function
           "back",     \* in resume(), its swapcontext has come back
           "crashed"}  \* an empty node handle was dereferenced

Statuses == {"NONE", "ERROR", "AGAIN", "FINISHED"}
Errors   == {"out_of_range", "invalid_argument", "logic_error"}

NoCall == [op |-> "none", id |-> Main]
Calls  == [op : {"none", "resume", "kill"}, id : Ids \cup {Main}]

TypeOK ==
  /\ ordinator \in OrdinatorType
  /\ pc \in Places
  /\ call \in Calls
  /\ outcome \in Statuses \cup Errors \cup Exceptions \cup {"none", "id"}

Init ==
  /\ ordinator = EmptyOrdinator([n \in Nodes |-> NewRoutine(NoFunc)])
  /\ pc = "main"
  /\ call = NoCall
  /\ outcome = "none"

(***************************************************************************)
(* create                                                                  *)
(***************************************************************************)
LastFree == ordinator.finished[Len(ordinator.finished)]

FreeNodeIsEmpty == ordinator.finished # << >> /\ LastFree = NoNode

Create(id, f) ==
  /\ pc = "main" /\ ~FreeNodeIsEmpty
  /\ ordinator' \in Creations(ordinator, id, f)
  /\ outcome' = "id"
  /\ UNCHANGED <<pc, call>>

\* node.key() of an empty handle writes through a null pointer.
CreateFromEmptyNode ==
  /\ pc = "main" /\ FreeNodeIsEmpty
  /\ pc' = "crashed"
  /\ UNCHANGED <<ordinator, call, outcome>>

(***************************************************************************)
(* resume and kill, up to the context switch                               *)
(***************************************************************************)
ResumeRefused(id) ==
  /\ pc = "main" /\ ~CanSwitchTo(ordinator, id)
  /\ outcome' = ResumeRefusal(ordinator, id)
  /\ UNCHANGED <<ordinator, pc, call>>

\* A routine that was never resumed starts at entry, another inside yield.
ArriveAt(id) ==
  pc' = IF RoutineOf(ordinator, id).ctx = "entry" THEN "entry" ELSE "yielded"

Resume(id) ==
  /\ pc = "main" /\ CanSwitchTo(ordinator, id)
  /\ ordinator' = SwitchedTo(ordinator, id)
  /\ ArriveAt(id)
  /\ call' = [op |-> "resume", id |-> id]
  /\ outcome' = "none"

KillRefused(id, e) ==
  /\ pc = "main" /\ (~CanSwitchTo(ordinator, id) \/ e = NoExc)
  /\ outcome' = KillRefusal(ordinator, id, e)
  /\ UNCHANGED <<ordinator, pc, call>>

Kill(id, e) ==
  /\ pc = "main" /\ CanSwitchTo(ordinator, id) /\ e # NoExc
  /\ ordinator' = SwitchedTo(Killed(ordinator, id, e), id)
  /\ ArriveAt(id)
  /\ call' = [op |-> "kill", id |-> id]
  /\ outcome' = "none"

\* swapcontext fails: resume reports it, kill takes it for a routine that
\* did not end, and the exception stays where kill has put it.
SwitchFails(id) ==
  /\ pc = "main" /\ CanSwitchTo(ordinator, id)
  /\ \/ /\ outcome' = "ERROR"
        /\ UNCHANGED ordinator
     \/ /\ \E e \in Exceptions : ordinator' = Killed(ordinator, id, e)
        /\ outcome' = "logic_error"
  /\ UNCHANGED <<pc, call>>

(***************************************************************************)
(* The routine's side: entry, yield and the user's function                *)
(***************************************************************************)
Self == RoutineOf(ordinator, ordinator.current)

Enter ==
  /\ pc = "entry" /\ Self.func # NoFunc /\ Self.exception = NoExc
  /\ pc' = "body"
  /\ UNCHANGED <<ordinator, call, outcome>>

\* entry's tail: what is pending when the function is over is what it ends with.
EndWith(e) ==
  /\ ordinator' = Ended(ordinator, e)
  /\ pc' = "back"
  /\ UNCHANGED <<call, outcome>>

SkipFunction ==
  /\ pc = "entry" /\ (Self.func = NoFunc \/ Self.exception # NoExc)
  /\ EndWith(Self.exception)

Return == pc = "body" /\ EndWith(Self.exception)

Throw(e) == pc = "body" /\ EndWith(e)

Yield ==
  /\ pc = "body"
  /\ ordinator' = Yielded(ordinator)
  /\ pc' = "back"
  /\ UNCHANGED <<call, outcome>>

\* yield comes back normally, or throws and the function goes on regardless.
GoOn ==
  /\ pc = "yielded"
  /\ pc' = "body"
  /\ UNCHANGED <<ordinator, call, outcome>>

\* yield throws and the function lets the exception through to entry.
Unwind ==
  /\ pc = "yielded" /\ Self.exception # NoExc
  /\ EndWith(Self.exception)

(***************************************************************************)
(* resume and kill, after the context switch                               *)
(***************************************************************************)
\* Mutant: the exception_ptr is rethrown without being tested.
EndResultUntested(e) == e

EndResult(e) ==
  IF e # NoExc THEN e
  ELSE IF call.op = "resume" THEN "FINISHED" ELSE "logic_error"

ReportEnd ==
  /\ pc = "back" /\ RoutineOf(ordinator, call.id).finished
  /\ ordinator' = Collected(ordinator, call.id)
  /\ outcome' = EndResult(RoutineOf(ordinator, call.id).exception)
  /\ pc' = "main" /\ call' = NoCall

ReportAgain ==
  /\ pc = "back" /\ ~RoutineOf(ordinator, call.id).finished
  /\ outcome' = IF call.op = "resume" THEN "AGAIN" ELSE "logic_error"
  /\ pc' = "main" /\ call' = NoCall
  /\ UNCHANGED ordinator

(***************************************************************************)
(* The other calls of the main context                                     *)
(***************************************************************************)
YieldInMain ==
  /\ pc = "main"
  /\ outcome' = "logic_error"
  /\ UNCHANGED <<ordinator, pc, call>>

SetFreelistMaxSize(size) ==
  /\ pc = "main"
  /\ ordinator' = Limited(ordinator, size)
  /\ UNCHANGED <<pc, call, outcome>>

CallerStep ==
  \/ \E id \in Ids, f \in Functions \cup {NoFunc} : Create(id, f)
  \/ CreateFromEmptyNode
  \/ \E id \in Ids : ResumeRefused(id) \/ Resume(id) \/ SwitchFails(id)
  \/ \E id \in Ids, e \in Exceptions \cup {NoExc} : KillRefused(id, e) \/ Kill(id, e)
  \/ YieldInMain
  \/ \E size \in Sizes : SetFreelistMaxSize(size)

RoutineStep ==
  \/ Enter \/ SkipFunction \/ Return \/ Yield \/ GoOn \/ Unwind
  \/ \E e \in Exceptions : Throw(e)

Next == CallerStep \/ RoutineStep \/ ReportEnd \/ ReportAgain

Spec == Init /\ [][Next]_vars

(***************************************************************************)
(* Invariants                                                              *)
(***************************************************************************)

\* However create, resume and the cap move the nodes of coroutine.cpp:65-117,
\* no two routines, and no routine and a free node, ever share a stack.
StacksDisjoint == Disjoint(ordinator)

\* coroutine.cpp:130-132 takes a finished routine in the map for a logic error:
\* there is one only between the end of entry and the tail of the resume that
\* waits for it, so no caller of resume or kill meets one.
NoFinishedActive ==
  \A id \in Ids : Active(ordinator, id) /\ RoutineOf(ordinator, id).finished
                   => pc = "back" /\ id = call.id

\* The routine that owns the thread is the one named by current and by the
\* call that switched to it, and it is in the map, so the at() of entry, of
\* yield and of the end of resume never throws.
RunningInMap ==
  /\ pc \in {"entry", "yielded", "body"} =>
       ordinator.current = call.id /\ ~Self.finished
  /\ pc \in {"entry", "yielded", "body", "back"} =>
       call.id \in Ids \ {Main} /\ Active(ordinator, call.id) /\ call.op # "none"
  /\ pc \in {"main", "back", "crashed"} => ordinator.current = Main

\* The cap holds for the free list after every call, not only right after
\* set_freelist_max_size.
FreelistBounded == WithinCap(ordinator)

\* The nodes are consistent in all four ways: between any two calls, and between
\* any two switches of one call.
NodesConsistent ==
  StacksDisjoint /\ NoFinishedActive /\ RunningInMap /\ FreelistBounded

\* What set_freelist_max_size's name and the test in resume say of the cap:
\* it limits how many nodes are kept.  It should make no caller crash.
NeverCrashes == pc # "crashed"

(***************************************************************************)
(* Refinement of RoutineLife: free list, nodes and flags are hidden.       *)
(***************************************************************************)
PhaseOf(id) ==
  IF ~Active(ordinator, id) THEN "absent"
  ELSE IF RoutineOf(ordinator, id).finished THEN "done"
  ELSE IF id # Main /\ ordinator.current = id THEN IF pc = "entry" THEN "starting" ELSE "running"
  ELSE IF RoutineOf(ordinator, id).ctx = "entry" THEN "fresh" ELSE "suspended"

FuncOf(id) == IF Active(ordinator, id) THEN RoutineOf(ordinator, id).func ELSE NoFunc

PendingOf(id) == IF Active(ordinator, id) THEN RoutineOf(ordinator, id).exception ELSE NoExc

Life == INSTANCE RoutineLife WITH
          life    <- [id \in Ids |-> PhaseOf(id)],
          func    <- [id \in Ids |-> FuncOf(id)],
          pending <- [id \in Ids |-> PendingOf(id)],
          caller  <- call.op

\* The library keeps its promise: the free list, the reset of reused nodes and
\* the saved contexts are invisible to the caller.
ImplementsRoutineLife == Life!Spec
==============================================================================
