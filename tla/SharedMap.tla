----------------------------- MODULE SharedMap ------------------------------
(***************************************************************************)
(* lib/shmem: maps in memory that processes share, each behind its own     *)
(* semaphore, over linear allocators that have none.                       *)
(*                                                                         *)
(* One action is one access to shared state: a semaphore operation, one of *)
(* the three accesses of LinearAllocator::allocate to the free address, a  *)
(* search in a map, the beginning and the end of a change of its tree, one *)
(* deallocate.  Strings and nodes are blocks of the allocator; what a      *)
(* block holds is not modelled, who owns it is.                            *)
(*                                                                         *)
(* Maps may share an allocator, as the three of hw5_test do.  Then two     *)
(* processes may be in allocate at once, and one undo what the other did:  *)
(* two objects have the same memory.  What a program does that uses them   *)
(* is not defined; the model follows a region until that moment.           *)
(***************************************************************************)
EXTENDS Integers, Sequences

CONSTANTS
  Procs,       (* processes that inherited the mapping                    *)
  Maps,        (* shared maps                                             *)
  Allocators,  (* linear allocators, one region each                      *)
  AllocOf,     (* AllocOf[m]: the allocator map m was built on            *)
  End,         (* end_shmem_address - start_shmem_address                 *)
  HeaderSize,  (* memory of a map's mutex and std::map                    *)
  NodeSize,    (* memory of a node                                        *)
  Keys, Values,
  Size,        (* Size[x]: memory a copy of key or value x takes; 0: none *)
  NoValue,     (* key absent                                              *)
  NoOp,        (* the process is in no operation                          *)
  Offered      (* bound: the operations that processes call               *)

ASSUME AllocOfAssumption == AllocOf \in [Maps -> Allocators]
ASSUME SizeAssumption ==
  /\ Size \in [Keys \cup Values -> Nat]
  /\ End \in Nat /\ HeaderSize \in Nat \ {0} /\ NodeSize \in Nat \ {0}

VARIABLES
  sem,     (* value of each map's semaphore                               *)
  free,    (* free_shmem_address of each allocator                        *)
  entry,   (* contents of each map                                        *)
  torn,    (* maps whose tree a call has begun to change, not finished    *)
  blocks,  (* live blocks: allocator, bounds, owner                       *)
  op,      (* the operation each process is in                            *)
  pc,      (* where it is in it                                           *)
  todo,    (* what it still has to allocate: sizes and roles              *)
  found,   (* what its search has found: NoValue or a value; "none": not  *)
           (* searched yet                                                *)
  new,     (* its local new_free_mem_addr                                 *)
  old,     (* its local old_free_shmem_addr                               *)
  result,  (* what it will return, or throw, once it has unlocked         *)
  dead,    (* processes that died                                         *)
  raced    (* history: allocators whose free address was written by one   *)
           (* that no longer knew it                                      *)

vars == <<sem, free, entry, torn, blocks, op, pc, todo, found, new, old, result, dead, raced>>
trees == <<entry, torn>>

Kinds == {"at", "own", "erase", "extract", "contains", "clear"}
Ops   == [kind : {"insert", "insert_or_assign"}, map : Maps, key : Keys, value : Values]
         \cup [kind : Kinds, map : Maps, key : Keys, value : {NoValue}]

ASSUME OfferedAssumption == Offered \subseteq Ops
ASSUME NoneAssumption ==
  NoValue \notin Values /\ "none" \notin Values \cup {NoValue} /\ NoOp \notin Ops

Region(p)  == AllocOf[op[p].map]
Inside(p)  == pc[p] \in {"work", "again", "write", "change", "unwind"}
Looked(p)  == found[p] # "none" \/ op[p].kind = "clear"

(***************************************************************************)
(* Owners of blocks: a map, an entry's node (with its key) or value, what  *)
(* an operation of p has allocated (by role), or an object that p got from *)
(* a map and destroys when it likes.                                       *)
(***************************************************************************)
Roles == {"temp", "node", "value"}

OfMap(m)      == <<"map", m>>
OfNode(m, k)  == <<"node", m, k>>
OfValue(m, k) == <<"value", m, k>>
Mine(p, role) == <<role, p>>
Held(p)       == <<"held", p>>

Block(a, lo, size, owner) == [in |-> a, lo |-> lo, hi |-> lo + size, owner |-> owner]

OwnedBy(owner) == {b \in blocks : b.owner = owner}
Working(p)     == {b \in blocks : \E role \in Roles : b.owner = Mine(p, role)}

(***************************************************************************)
(* What an operation allocates.  get_obj_copy copies the key and the value *)
(* before the map is searched, and emplace makes a node of them, even if   *)
(* the key is there.  insert_or_assign copies them again when it knows: to *)
(* a node, or over the old value, whose memory is used again if it is      *)
(* large enough.                                                           *)
(***************************************************************************)
\* An empty string or an integer needs no block.
Need(size, role) == IF size = 0 THEN << >> ELSE <<[size |-> size, role |-> role]>>

Copies(o) ==
  LET key   == Size[o.key]
      value == Size[o.value]
  IN  CASE o.kind = "insert" ->
             Need(key, "node") \o Need(value, "value") \o Need(NodeSize, "node")
        [] o.kind = "insert_or_assign"  -> Need(key, "temp") \o Need(value, "temp")
        [] o.kind \in {"own", "clear"} -> << >>
        [] OTHER                        -> Need(key, "temp")

\* Once the search has found v.
More(o, v) ==
  LET key    == Size[o.key]
      value  == Size[o.value]
      stored == IF v = NoValue THEN 0 ELSE Size[v]
  IN  CASE o.kind = "insert_or_assign" /\ v = NoValue ->
             Need(NodeSize, "node") \o Need(key, "node") \o Need(value, "value")
        [] o.kind = "insert_or_assign" /\ v # NoValue ->
             Need(IF value > stored THEN value ELSE 0, "value")
        [] o.kind = "at"  -> Need(stored, "temp")
        [] o.kind = "own" -> Need(stored, "value")
        [] OTHER          -> << >>

(***************************************************************************)
(* After the fork: every map was built below the free address of its       *)
(* allocator, in memory of its own, and nothing else was.                  *)
(***************************************************************************)
Init ==
  /\ sem = [m \in Maps |-> 1]
  /\ entry = [m \in Maps |-> [k \in Keys |-> NoValue]]
  /\ free \in [Allocators -> 0..End]
  /\ \E at \in [Maps -> 0..End] :
       /\ \A m \in Maps : at[m] + HeaderSize <= free[AllocOf[m]]
       /\ \A m1, m2 \in Maps :
            m1 # m2 /\ AllocOf[m1] = AllocOf[m2] =>
              at[m1] + HeaderSize <= at[m2] \/ at[m2] + HeaderSize <= at[m1]
       /\ \A a \in Allocators, x \in 0..End :
            x < free[a] => \E m \in Maps : AllocOf[m] = a /\ at[m] <= x /\ x < at[m] + HeaderSize
       /\ blocks = {Block(AllocOf[m], at[m], HeaderSize, OfMap(m)) : m \in Maps}
  /\ op = [p \in Procs |-> NoOp] /\ pc = [p \in Procs |-> "idle"]
  /\ todo = [p \in Procs |-> << >>] /\ found = [p \in Procs |-> "none"]
  /\ new = [p \in Procs |-> 0] /\ old = [p \in Procs |-> 0]
  /\ result = [p \in Procs |-> "none"] /\ dead = {}
  /\ torn = {} /\ raced = {}

Call(p, o) ==
  /\ pc[p] = "idle"
  /\ op' = [op EXCEPT ![p] = o] /\ pc' = [pc EXCEPT ![p] = "wait"]
  /\ UNCHANGED <<sem, free, trees, blocks, todo, new, old, result, found, dead, raced>>

\* Mutant: sem_trywait, its failure not looked at.
NotWaitedFor(m) == TRUE

Available(m) == sem[m] > 0

\* lock_guard: sem_wait, which a signal may interrupt.
Lock(p) ==
  /\ pc[p] = "wait"
  /\ LET m == op[p].map IN Available(m) /\ sem' = [sem EXCEPT ![m] = @ - 1]
  /\ todo' = [todo EXCEPT ![p] = Copies(op[p])]
  /\ pc' = [pc EXCEPT ![p] = "work"]
  /\ UNCHANGED <<free, trees, blocks, op, new, old, result, found, dead, raced>>

LockFails(p) ==
  /\ pc[p] = "wait"
  /\ pc' = [pc EXCEPT ![p] = "idle"] /\ op' = [op EXCEPT ![p] = NoOp]
  /\ UNCHANGED <<sem, free, trees, blocks, todo, new, old, result, found, dead, raced>>

(***************************************************************************)
(* allocate: read the free address and compare, read it again (or not: the *)
(* compiler may keep the first value), write it.                           *)
(***************************************************************************)
NewFree(p) == free[Region(p)] + Head(todo[p]).size

\* Mutant: one byte past the end fits.
FitsPastEnd(n) == n <= End + 1

Fits(n) == n <= End

ReadFree(p) ==
  /\ pc[p] = "work" /\ todo[p] # << >> /\ Fits(NewFree(p))
  /\ new' = [new EXCEPT ![p] = NewFree(p)]
  /\ pc' = [pc EXCEPT ![p] = "again"]
  /\ UNCHANGED <<sem, free, trees, blocks, op, todo, old, result, found, dead, raced>>

\* bad_alloc leaves the operation; what it has made so far is destroyed.
BadAlloc(p) ==
  /\ pc[p] = "work" /\ todo[p] # << >> /\ ~Fits(NewFree(p))
  /\ result' = [result EXCEPT ![p] = "bad_alloc"]
  /\ todo' = [todo EXCEPT ![p] = << >>]
  /\ pc' = [pc EXCEPT ![p] = "unwind"]
  /\ UNCHANGED <<sem, free, trees, blocks, op, new, old, found, dead, raced>>

ReadFreeAgain(p) ==
  /\ pc[p] = "again"
  /\ \E f \in {new[p] - Head(todo[p]).size, free[Region(p)]} : old' = [old EXCEPT ![p] = f]
  /\ pc' = [pc EXCEPT ![p] = "write"]
  /\ UNCHANGED <<sem, free, trees, blocks, op, todo, new, result, found, dead, raced>>

\* Another operation has written since p read: its block is lost, or p's.
Outdated(p) == free[Region(p)] # old[p] \/ new[p] # old[p] + Head(todo[p]).size

WriteFree(p) ==
  /\ pc[p] = "write"
  /\ free' = [free EXCEPT ![Region(p)] = new[p]]
  /\ blocks' = blocks \cup
       {Block(Region(p), old[p], Head(todo[p]).size, Mine(p, Head(todo[p]).role))}
  /\ todo' = [todo EXCEPT ![p] = Tail(@)]
  /\ new' = [new EXCEPT ![p] = 0] /\ old' = [old EXCEPT ![p] = 0]
  /\ pc' = [pc EXCEPT ![p] = "work"]
  /\ raced' = IF Outdated(p) THEN raced \cup {Region(p)} ELSE raced
  /\ UNCHANGED <<sem, trees, op, result, found, dead>>

(***************************************************************************)
(* deallocate: memory comes back only if the block starts where the free   *)
(* memory does.                                                            *)
(***************************************************************************)
Freed(b) == IF b.lo = free[b.in] THEN free[b.in] - (b.hi - b.lo) ELSE free[b.in]

\* In a region where two objects share memory nothing is followed any more.
Deallocate(b) ==
  /\ b.in \notin raced
  /\ free' = [free EXCEPT ![b.in] = Freed(b)]
  /\ blocks' = blocks \ {b}

(***************************************************************************)
(* The call on the std::map: a search, perhaps more to allocate, and a     *)
(* change of the tree, in which a process may die like anywhere.  What a   *)
(* search finds in a tree that is being changed is anything.               *)
(***************************************************************************)
Seen(m, k) == IF m \in torn THEN Values \cup {NoValue} ELSE {entry[m][k]}

Search(p) ==
  /\ pc[p] = "work" /\ todo[p] = << >> /\ ~Looked(p)
  /\ \E v \in Seen(op[p].map, op[p].key) :
       found' = [found EXCEPT ![p] = v] /\ todo' = [todo EXCEPT ![p] = More(op[p], v)]
  /\ UNCHANGED <<sem, free, trees, blocks, op, pc, new, old, result, dead, raced>>

\* Mutant: insert replaces what is there.
StoresAlways(o, v) == o.kind \in {"insert", "insert_or_assign"}

Stores(o, v) == (o.kind = "insert" /\ v = NoValue) \/ o.kind = "insert_or_assign"

\* Mutant: erase frees the node and leaves the entry.
ErasedStays(o) == o.kind = "extract"

Removes(o) == o.kind \in {"erase", "extract"}

Changes(o, v) == Stores(o, v) \/ (Removes(o) /\ v # NoValue) \/ o.kind = "clear"

NewEntries(o) ==
  [k \in Keys |->
     IF o.kind = "clear" \/ (Removes(o) /\ k = o.key) THEN NoValue
     ELSE IF ~Removes(o) /\ k = o.key THEN o.value
     ELSE entry[o.map][k]]

Result(o, v) ==
  CASE o.kind \in {"at", "own"} -> IF v # NoValue THEN v ELSE "out_of_range"
    [] o.kind \in {"erase", "contains"} -> IF v # NoValue THEN "true" ELSE "false"
    [] OTHER -> "done"

\* Who owns a block of owner w then: what was made for an entry is part of
\* it, what at or extract returns is the caller's, and what is taken out of
\* the map otherwise is the operation's to destroy.
NewOwner(p, o, v, w) ==
  LET node  == OfNode(o.map, o.key)
      value == OfValue(o.map, o.key)
  IN  CASE Stores(o, v) /\ w = Mine(p, "node")      -> node
        [] Stores(o, v) /\ w = Mine(p, "value")     -> value
        [] o.kind = "own" /\ w = Mine(p, "value")   -> Held(p)
        [] o.kind = "extract" /\ w \in {node, value} -> Held(p)
        [] o.kind = "erase" /\ w \in {node, value}  -> Mine(p, "temp")
        [] o.kind = "insert_or_assign" /\ w = value /\ OwnedBy(Mine(p, "value")) # {}
                                                    -> Mine(p, "temp")
        [] o.kind = "clear" /\ \E k \in Keys : w \in {OfNode(o.map, k), OfValue(o.map, k)}
                                                    -> Mine(p, "temp")
        [] OTHER                                    -> w

Settle(p) ==
  /\ blocks' = {[b EXCEPT !.owner = NewOwner(p, op[p], found[p], b.owner)] : b \in blocks}
  /\ result' = [result EXCEPT ![p] = Result(op[p], found[p])]
  /\ pc' = [pc EXCEPT ![p] = "unwind"]
  /\ UNCHANGED <<sem, free, op, todo, found, new, old, dead, raced>>

Ready(p) == pc[p] = "work" /\ todo[p] = << >> /\ Looked(p)

\* Nothing is to be changed.
Answer(p) == Ready(p) /\ ~Changes(op[p], found[p]) /\ Settle(p) /\ UNCHANGED trees

Start(p) ==
  /\ Ready(p) /\ Changes(op[p], found[p])
  /\ torn' = torn \cup {op[p].map} /\ pc' = [pc EXCEPT ![p] = "change"]
  /\ UNCHANGED <<sem, free, entry, blocks, op, todo, found, new, old, result, dead, raced>>

Finish(p) ==
  /\ pc[p] = "change"
  /\ torn' = torn \ {op[p].map}
  /\ entry' = [entry EXCEPT ![op[p].map] = NewEntries(op[p])]
  /\ Settle(p)

\* What is left to the operation is destroyed while it holds the semaphore.
Destroy(p) ==
  /\ pc[p] = "unwind"
  /\ \E b \in Working(p) : Deallocate(b)
  /\ UNCHANGED <<sem, trees, op, pc, todo, found, new, old, result, dead, raced>>

\* Mutant: an operation that fails keeps the semaphore.
KeptOnFailure(p, m) == IF result[p] = "bad_alloc" THEN sem[m] ELSE sem[m] + 1

Posted(p, m) == sem[m] + 1

Unlock(p) ==
  /\ pc[p] = "unwind" /\ Working(p) = {}
  /\ sem' = [sem EXCEPT ![op[p].map] = Posted(p, op[p].map)]
  /\ op' = [op EXCEPT ![p] = NoOp] /\ pc' = [pc EXCEPT ![p] = "idle"]
  /\ result' = [result EXCEPT ![p] = "none"] /\ found' = [found EXCEPT ![p] = "none"]
  /\ UNCHANGED <<free, trees, blocks, todo, new, old, dead, raced>>

\* What at or extract returned dies in its caller, which holds no semaphore.
Drop(p) ==
  /\ ~Inside(p)
  /\ \E b \in OwnedBy(Held(p)) : Deallocate(b)
  /\ UNCHANGED <<sem, trees, op, pc, todo, found, new, old, result, dead, raced>>

\* A process may die in an operation; the semaphores and the trees know nothing
\* of it.  One that dies elsewhere makes no more calls, as any process may.
Die(p) ==
  /\ Inside(p) /\ dead' = dead \cup {p}
  /\ UNCHANGED <<sem, free, trees, blocks, op, pc, todo, found, new, old, result, raced>>

Work(p) ==
  /\ p \notin dead /\ op[p] # NoOp /\ Region(p) \notin raced
  /\ \/ ReadFree(p) \/ BadAlloc(p) \/ ReadFreeAgain(p) \/ WriteFree(p)
     \/ Search(p) \/ Answer(p) \/ Start(p) \/ Finish(p) \/ Destroy(p) \/ Unlock(p)

Step(p) ==
  \/ Work(p)
  \/ /\ p \notin dead
     /\ Lock(p) \/ LockFails(p) \/ Drop(p) \/ Die(p) \/ \E o \in Offered : Call(p, o)

Next == \E p \in Procs : Step(p)

Spec == Init /\ [][Next]_vars

\* A process that is inside an operation is scheduled, unless it dies.
FairSpec == Spec /\ \A p \in Procs : WF_vars(Work(p))

(***************************************************************************)
(* Properties                                                              *)
(***************************************************************************)
Owners ==
  {OfMap(m) : m \in Maps} \cup {OfNode(m, k) : m \in Maps, k \in Keys}
  \cup {OfValue(m, k) : m \in Maps, k \in Keys}
  \cup {Mine(p, role) : p \in Procs, role \in Roles} \cup {Held(p) : p \in Procs}

Results == Values \cup {"none", "done", "true", "false", "out_of_range", "bad_alloc"}

TypeOK ==
  /\ sem \in [Maps -> Int]
  /\ free \in [Allocators -> 0..End]
  /\ entry \in [Maps -> [Keys -> Values \cup {NoValue}]]
  /\ blocks \subseteq [in : Allocators, lo : Nat, hi : Nat, owner : Owners]
  /\ \A b \in blocks : b.lo < b.hi
  /\ op \in [Procs -> Ops \cup {NoOp}]
  /\ pc \in [Procs -> {"idle", "wait", "work", "again", "write", "change", "unwind"}]
  /\ found \in [Procs -> Values \cup {NoValue, "none"}]
  /\ todo \in [Procs -> Seq([size : Nat \ {0}, role : Roles])]
  /\ new \in [Procs -> Nat] /\ old \in [Procs -> Nat]
  /\ result \in [Procs -> Results] /\ dead \subseteq Procs
  /\ torn \subseteq Maps /\ raced \subseteq Allocators

\* A semaphore is taken exactly while one process, alive or dead, is between
\* the lock and the unlock of its map: no error path forgets or repeats a post.
SemaphoreMatches ==
  /\ \A m \in Maps : sem[m] = 0 <=> \E p \in Procs : Inside(p) /\ op[p].map = m
  /\ \A p, q \in Procs : Inside(p) /\ Inside(q) /\ op[p].map = op[q].map => p = q

\* A tree that is half changed is behind a semaphore that is taken, by the one
\* process, alive or dead, that changes it: nobody else ever searches in it.
TornIsLocked ==
  \A m \in torn : sem[m] = 0 /\ \E p \in Procs : pc[p] = "change" /\ op[p].map = m

\* No two live blocks share memory, though allocate takes no lock of its own,
\* objects die outside the lock and processes die inside it, unless an update
\* of the free address was lost.
NoOverlap ==
  \A b, c \in blocks :
    b # c /\ b.in = c.in /\ b.in \notin raced => b.hi <= c.lo \/ c.hi <= b.lo

\* That takes two maps: the semaphore of one map keeps its allocator safe.
RaceNeedsTwoMaps ==
  \A a \in raced : \E m1, m2 \in Maps : m1 # m2 /\ AllocOf[m1] = a /\ AllocOf[m2] = a

\* Live memory lies below the free address, so the next block is new.
BelowFree == \A b \in blocks : b.in \notin raced => b.hi <= free[b.in]

\* An entry is in a map exactly if the map owns its node, unless the map is
\* being changed: whatever fails on the way, and whoever dies.
EntriesHaveNodes ==
  \A m \in Maps \ torn, k \in Keys :
    AllocOf[m] \notin raced => (entry[m][k] # NoValue <=> OwnedBy(OfNode(m, k)) # {})

\* The memory is consistent: entries own their blocks, what is half changed is
\* locked, and two blocks overlap only after two operations, of two maps on one
\* allocator, have allocated at once.
BlocksConsistent == NoOverlap /\ RaceNeedsTwoMaps /\ EntriesHaveNodes /\ TornIsLocked

\* deallocate never gives memory back: no block starts at the free address.
\* It must not: objects are destroyed without the lock.
NeverReclaims ==
  [][\A a \in Allocators : a \notin raced' => free'[a] >= free[a]]_vars

\* An operation that has the semaphore gives it back, whatever fails in it,
\* unless its process dies or its memory is no longer its own.
HolderLetsGo ==
  \A m \in Maps :
    (sem[m] = 0) ~> \/ sem[m] = 1 \/ AllocOf[m] \in raced
                    \/ \E p \in dead : Inside(p) /\ op[p].map = m

\* Each map is atomic: SharedMap implements AtomicMap.
Atomic == INSTANCE AtomicMap
ImplementsAtomicMap == Atomic!Spec
=============================================================================
