----------------------------- MODULE AtomicMap ------------------------------
(***************************************************************************)
(* What a map of lib/shmem promises the processes that share it: every     *)
(* operation takes effect at one moment between its call and its return,   *)
(* or fails and has none.  There are no semaphores and no memory here.     *)
(***************************************************************************)
CONSTANTS Procs, Maps, Keys, Values, NoValue, NoOp

VARIABLES
  entry,   (* contents of each map                                        *)
  op,      (* the operation each process is in                            *)
  result,  (* "none" until it has taken effect or failed                  *)
  dead     (* processes that died                                         *)

vars == <<entry, op, result, dead>>

Kinds == {"at", "own", "erase", "extract", "contains", "clear"}
Ops   == [kind : {"insert", "insert_or_assign"}, map : Maps, key : Keys, value : Values]
         \cup [kind : Kinds, map : Maps, key : Keys, value : {NoValue}]

Init ==
  /\ entry = [m \in Maps |-> [k \in Keys |-> NoValue]]
  /\ op = [p \in Procs |-> NoOp]
  /\ result = [p \in Procs |-> "none"]
  /\ dead = {}

Call(p, o) ==
  /\ p \notin dead /\ op[p] = NoOp
  /\ op' = [op EXCEPT ![p] = o]
  /\ UNCHANGED <<entry, result, dead>>

\* insert keeps what is there; the caller is not told.
Effect(o, old) ==
  CASE o.kind = "insert" -> IF old[o.key] = NoValue THEN [old EXCEPT ![o.key] = o.value] ELSE old
    [] o.kind = "insert_or_assign" -> [old EXCEPT ![o.key] = o.value]
    [] o.kind \in {"erase", "extract"} -> [old EXCEPT ![o.key] = NoValue]
    [] o.kind = "clear" -> [k \in Keys |-> NoValue]
    [] OTHER -> old

Answer(o, old) ==
  CASE o.kind \in {"at", "own"} -> IF old[o.key] = NoValue THEN "out_of_range" ELSE old[o.key]
    [] o.kind \in {"erase", "contains"} -> IF old[o.key] = NoValue THEN "false" ELSE "true"
    [] OTHER -> "done"

TakeEffect(p) ==
  /\ p \notin dead /\ op[p] # NoOp /\ result[p] = "none"
  /\ entry' = [entry EXCEPT ![op[p].map] = Effect(op[p], @)]
  /\ result' = [result EXCEPT ![p] = Answer(op[p], entry[op[p].map])]
  /\ UNCHANGED <<op, dead>>

\* The lock fails, or memory runs out.
Refuse(p) ==
  /\ p \notin dead /\ op[p] # NoOp /\ result[p] = "none"
  /\ op' = [op EXCEPT ![p] = NoOp]
  /\ UNCHANGED <<entry, result, dead>>

Fail(p) ==
  /\ p \notin dead /\ op[p] # NoOp /\ result[p] = "none"
  /\ result' = [result EXCEPT ![p] = "bad_alloc"]
  /\ UNCHANGED <<entry, op, dead>>

Return(p) ==
  /\ p \notin dead /\ op[p] # NoOp /\ result[p] # "none"
  /\ op' = [op EXCEPT ![p] = NoOp] /\ result' = [result EXCEPT ![p] = "none"]
  /\ UNCHANGED <<entry, dead>>

Die(p) == p \notin dead /\ dead' = dead \cup {p} /\ UNCHANGED <<entry, op, result>>

Next ==
  \E p \in Procs :
    TakeEffect(p) \/ Refuse(p) \/ Fail(p) \/ Return(p) \/ Die(p) \/ \E o \in Ops : Call(p, o)

Spec == Init /\ [][Next]_vars
=============================================================================
