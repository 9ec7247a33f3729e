----------------------------- MODULE RoutineLife -----------------------------
(***************************************************************************)
(* What the coroutine library promises its caller, with no map nodes, no   *)
(* stacks and no free list: every id names at most one routine, a routine  *)
(* runs the function it was created with from its beginning, an exception  *)
(* sent by kill stays with the routine until it ends, and the end of a     *)
(* routine is reported exactly once.                                       *)
(***************************************************************************)
EXTENDS Naturals

CONSTANTS Ids, Main, Functions, NoFunc, Exceptions, NoExc

VARIABLES
  life,     (* id -> phase of its routine                                 *)
  func,     (* id -> the function it was created with                     *)
  pending,  (* id -> the exception it will end with, or has ended with    *)
  caller,   (* the library call the main context is in, "none" outside    *)
  outcome   (* what the last library call returned or threw, "none"       *)
            (* while resume or kill is in progress                        *)

vars == <<life, func, pending, caller, outcome>>

Phases == {"absent", "fresh", "suspended", "starting", "running", "done"}

Init ==
  /\ life = [id \in Ids |-> "absent"]
  /\ func = [id \in Ids |-> NoFunc]
  /\ pending = [id \in Ids |-> NoExc]
  /\ caller = "none"
  /\ outcome = "none"

Waiting(id) == id # Main /\ life[id] \in {"fresh", "suspended"}

SwitchTo(id) ==
  life' = [life EXCEPT ![id] = IF @ = "fresh" THEN "starting" ELSE "running"]

\* A new routine starts with no exception; a taken id keeps its routine.
Create(id, f) ==
  /\ caller = "none"
  /\ \/ /\ life[id] = "absent"
        /\ life' = [life EXCEPT ![id] = "fresh"]
        /\ func' = [func EXCEPT ![id] = f]
     \/ /\ life[id] # "absent"
        /\ UNCHANGED <<life, func>>
  /\ outcome' = "id"
  /\ UNCHANGED <<pending, caller>>

\* A call that starts no routine only reports why: the id names no routine,
\* or it names the main context, or the call itself is a misuse.
Refuse ==
  /\ caller = "none"
  /\ \/ /\ \E id \in Ids \ {Main} : life[id] = "absent"
        /\ outcome' = "out_of_range"
     \/ /\ Main \in Ids
        /\ outcome' = "NONE"
     \/ outcome' \in {"invalid_argument", "logic_error"}
  /\ UNCHANGED <<life, func, pending, caller>>

Resume(id) ==
  /\ caller = "none" /\ Waiting(id)
  /\ SwitchTo(id)
  /\ caller' = "resume" /\ outcome' = "none"
  /\ UNCHANGED <<func, pending>>

Kill(id, e) ==
  /\ caller = "none" /\ Waiting(id)
  /\ pending' = [pending EXCEPT ![id] = e]
  /\ SwitchTo(id)
  /\ caller' = "kill" /\ outcome' = "none"
  /\ UNCHANGED func

\* The operating system refused the switch: the routine keeps its phase.
SwitchFails(id) ==
  /\ caller = "none" /\ Waiting(id)
  /\ \/ /\ outcome' = "ERROR"
        /\ UNCHANGED pending
     \/ /\ \E e \in Exceptions : pending' = [pending EXCEPT ![id] = e]
        /\ outcome' = "logic_error"
  /\ UNCHANGED <<life, func, caller>>

\* The function begins, unless there is none or the routine is already killed.
Start(id) ==
  /\ life[id] = "starting" /\ func[id] # NoFunc /\ pending[id] = NoExc
  /\ life' = [life EXCEPT ![id] = "running"]
  /\ UNCHANGED <<func, pending, caller, outcome>>

SkipFunction(id) ==
  /\ life[id] = "starting" /\ (func[id] = NoFunc \/ pending[id] # NoExc)
  /\ life' = [life EXCEPT ![id] = "done"]
  /\ UNCHANGED <<func, pending, caller, outcome>>

\* The running routine waits for its next turn.  kill expected it to end.
Yield(id) ==
  /\ life[id] = "running"
  /\ life' = [life EXCEPT ![id] = "suspended"]
  /\ UNCHANGED <<func, pending, caller, outcome>>

Yielded ==
  /\ caller # "none"
  /\ \A id \in Ids : life[id] \notin {"starting", "running", "done"}
  /\ outcome' = IF caller = "resume" THEN "AGAIN" ELSE "logic_error"
  /\ caller' = "none"
  /\ UNCHANGED <<life, func, pending>>

\* A routine ends with the exception it throws, or else with the one it was
\* killed with: swallowing that one and returning does not make it a success.
End(id) ==
  /\ life[id] = "running"
  /\ life' = [life EXCEPT ![id] = "done"]
  /\ \E e \in Exceptions \cup {pending[id]} : pending' = [pending EXCEPT ![id] = e]
  /\ UNCHANGED <<func, caller, outcome>>

\* The caller learns how the routine ended, and the id is free again.
Report(id) ==
  /\ life[id] = "done" /\ caller # "none"
  /\ outcome' = IF pending[id] # NoExc THEN pending[id] ELSE "FINISHED"
  /\ life' = [life EXCEPT ![id] = "absent"]
  /\ func' = [func EXCEPT ![id] = NoFunc]
  /\ pending' = [pending EXCEPT ![id] = NoExc]
  /\ caller' = "none"

Next ==
  \/ \E id \in Ids, f \in Functions \cup {NoFunc} : Create(id, f)
  \/ Refuse
  \/ \E id \in Ids : Resume(id) \/ SwitchFails(id) \/ Start(id) \/ SkipFunction(id)
                       \/ Yield(id) \/ End(id) \/ Report(id)
  \/ \E id \in Ids, e \in Exceptions : Kill(id, e)
  \/ Yielded

Spec == Init /\ [][Next]_vars
==============================================================================
