-------------------------- MODULE SharedMapProofs ---------------------------
(***************************************************************************)
(* Proofs about SharedMap for every set of processes, maps, keys and       *)
(* values, and every size of regions and objects.                          *)
(***************************************************************************)
EXTENDS SharedMap, SequenceTheorems, TLAPS

(***************************************************************************)
(* Control: which operation a process is in and where, and the semaphores. *)
(* It does not depend on memory, hence not on how maps share allocators.   *)
(***************************************************************************)
NeedSet == [size : Nat \ {0}, role : Roles]

ControlTypes ==
  /\ sem \in [Maps -> {0, 1}]
  /\ entry \in [Maps -> [Keys -> Values \cup {NoValue}]]
  /\ op \in [Procs -> Ops \cup {NoOp}]
  /\ pc \in [Procs -> {"idle", "wait", "work", "again", "write", "change", "unwind"}]
  /\ todo \in [Procs -> Seq(NeedSet)]
  /\ found \in [Procs -> Values \cup {NoValue, "none"}]
  /\ result \in [Procs -> Results]
  /\ dead \subseteq Procs /\ torn \subseteq Maps

\* A process that is not idle is in an operation; it has taken effect or failed
\* once it unwinds, has something to allocate inside allocate, and has looked and
\* allocated before it changes anything.
InOperation ==
  \A p \in Procs :
    /\ pc[p] = "idle" <=> op[p] = NoOp
    /\ result[p] = "none" <=> pc[p] # "unwind"
    /\ pc[p] \in {"again", "write"} => todo[p] # << >>
    /\ pc[p] \in {"idle", "wait"} => found[p] = "none"
    /\ pc[p] = "change" => todo[p] = << >> /\ Looked(p) /\ Changes(op[p], found[p])

Control == ControlTypes /\ InOperation /\ SemaphoreMatches

\* What one allocation needs.
LEMMA NeedType ==
  ASSUME NEW size \in Nat, NEW role \in Roles
  PROVE  Need(size, role) \in Seq(NeedSet)
<1>1. CASE size = 0
  BY <1>1, EmptySeq DEF Need
<1>2. CASE size # 0
  <2>1. [size |-> size, role |-> role] \in NeedSet
    BY <1>2 DEF NeedSet
  <2>2. QED BY <1>2, <2>1 DEF Need
<1>3. QED BY <1>1, <1>2

\* What an operation allocates before and after its search.
LEMMA NeedsType ==
  ASSUME NEW o \in Ops, NEW v \in Values \cup {NoValue}
  PROVE  Copies(o) \in Seq(NeedSet) /\ More(o, v) \in Seq(NeedSet)
<1> DEFINE key    == Size[o.key]
           value  == Size[o.value]
           stored == IF v = NoValue THEN 0 ELSE Size[v]
<1>1. o.map \in Maps /\ o.key \in Keys
  BY DEF Ops
<1>2. key \in Nat
  BY <1>1, SizeAssumption
<1>3. stored \in Nat
  BY SizeAssumption
<1>4. NodeSize \in Nat
  BY SizeAssumption
<1>5. \A role \in Roles : Need(key, role) \in Seq(NeedSet) /\ Need(stored, role) \in Seq(NeedSet)
                          /\ Need(NodeSize, role) \in Seq(NeedSet)
  BY <1>2, <1>3, <1>4, NeedType
<1>6. "temp" \in Roles /\ "node" \in Roles /\ "value" \in Roles
  BY DEF Roles
<1>7. CASE o.kind \in {"insert", "insert_or_assign"}
  <2>1. o.value \in Values
    BY <1>7 DEF Ops, Kinds
  <2>2. value \in Nat
    BY <2>1, SizeAssumption
  <2>3. \A role \in Roles : Need(value, role) \in Seq(NeedSet)
                            /\ Need(IF value > stored THEN value ELSE 0, role) \in Seq(NeedSet)
    <3>1. (IF value > stored THEN value ELSE 0) \in Nat
      BY <2>2
    <3>2. QED BY <2>2, <3>1, NeedType
  <2>4. CASE o.kind = "insert"
    BY <1>5, <1>6, <2>3, <2>4, EmptySeq DEF Copies, More
  <2>5. CASE o.kind = "insert_or_assign" /\ v = NoValue
    BY <1>5, <1>6, <2>3, <2>5 DEF Copies, More
  <2>6. CASE o.kind = "insert_or_assign" /\ v # NoValue
    BY <1>5, <1>6, <2>3, <2>6 DEF Copies, More
  <2>7. QED BY <1>7, <2>4, <2>5, <2>6
<1>8. CASE o.kind \notin {"insert", "insert_or_assign"}
  <2>1. CASE o.kind = "at"
    BY <1>5, <1>6, <2>1 DEF Copies, More
  <2>2. CASE o.kind = "own"
    BY <1>5, <1>6, <2>2, EmptySeq DEF Copies, More
  <2>3. CASE o.kind = "clear"
    BY <2>3, EmptySeq DEF Copies, More
  <2>4. CASE o.kind \notin {"at", "own", "clear"}
    BY <1>5, <1>6, <1>8, <2>4, EmptySeq DEF Copies, More
  <2>5. QED BY <2>1, <2>2, <2>3, <2>4
<1>9. QED BY <1>7, <1>8

\* What the call on the std::map leaves, and returns.
LEMMA EffectType ==
  ASSUME Control, NEW o \in Ops
  PROVE  /\ \A v : Changes(o, v) => NewEntries(o) \in [Keys -> Values \cup {NoValue}]
         /\ \A v \in Values \cup {NoValue} : Result(o, v) \in Results \ {"none"}
         /\ o.kind = "clear" => \A v : Result(o, v) \in Results \ {"none"}
<1>1. o.map \in Maps /\ o.key \in Keys
  BY DEF Ops
<1>2. entry[o.map] \in [Keys -> Values \cup {NoValue}]
  BY <1>1 DEF Control, ControlTypes
<1>3. ASSUME NEW v, Changes(o, v) PROVE NewEntries(o) \in [Keys -> Values \cup {NoValue}]
  <2>1. o.kind # "clear" /\ ~Removes(o) => o.value \in Values
    BY <1>3 DEF Changes, Stores, Removes, Ops, Kinds
  <2>2. QED BY <1>2, <2>1 DEF NewEntries
<1>4. ASSUME NEW v \in Values \cup {NoValue} PROVE Result(o, v) \in Results \ {"none"}
  <2>1. CASE o.kind \in {"at", "own"}
    BY <1>4, <2>1, NoneAssumption DEF Result, Results
  <2>2. CASE o.kind \in {"erase", "contains"}
    BY <2>2 DEF Result, Results
  <2>3. CASE o.kind \notin {"at", "own", "erase", "contains"}
    BY <2>3 DEF Result, Results
  <2>4. QED BY <2>1, <2>2, <2>3
<1>5. ASSUME NEW v, o.kind = "clear" PROVE Result(o, v) \in Results \ {"none"}
  BY <1>5 DEF Result, Results
<1>6. QED BY <1>3, <1>4, <1>5

LEMMA ControlInit == Init => Control
<1> SUFFICES ASSUME Init PROVE Control
  OBVIOUS
<1>1. ControlTypes
  BY EmptySeq DEF Init, ControlTypes, Results
<1>2. InOperation
  BY DEF Init, InOperation
<1>3. SemaphoreMatches
  BY DEF Init, SemaphoreMatches, Inside
<1>4. QED BY <1>1, <1>2, <1>3 DEF Control

\* A process that moves on inside its operation.
LEMMA StaysInside ==
  ASSUME Control, NEW p \in Procs, NEW w \in {"work", "again", "write", "change", "unwind"},
         Inside(p), pc' = [pc EXCEPT ![p] = w], UNCHANGED <<sem, op>>
  PROVE  SemaphoreMatches'
<1>1. \A q \in Procs : Inside(q)' <=> Inside(q)
  BY DEF Inside, Control, ControlTypes
<1>2. QED BY <1>1 DEF SemaphoreMatches, Control

\* A process that is outside its operation before and after.
LEMMA StaysOutside ==
  ASSUME Control, NEW p \in Procs, ~Inside(p), ~Inside(p)', UNCHANGED sem,
         \A q \in Procs \ {p} : pc'[q] = pc[q] /\ op'[q] = op[q]
  PROVE  SemaphoreMatches'
<1>1. \A q \in Procs : /\ Inside(q)' <=> Inside(q)
                       /\ Inside(q) => op'[q] = op[q]
  BY DEF Inside
<1>2. QED BY <1>1 DEF SemaphoreMatches, Control

LEMMA ControlCall ==
  ASSUME Control, NEW p \in Procs, NEW o \in Ops, Call(p, o)
  PROVE  Control'
<1>1. ControlTypes'
  BY DEF Control, ControlTypes, Call, trees
<1>2. InOperation'
  BY NoneAssumption DEF Control, ControlTypes, InOperation, Call, Looked
<1>3. SemaphoreMatches'
  BY StaysOutside DEF Control, ControlTypes, Call, Inside
<1>4. QED BY <1>1, <1>2, <1>3 DEF Control

LEMMA ControlLock ==
  ASSUME Control, NEW p \in Procs, Lock(p)
  PROVE  Control'
<1> DEFINE m == op[p].map
<1>1. op[p] \in Ops /\ m \in Maps /\ sem[m] = 1
  BY DEF Control, ControlTypes, InOperation, Lock, Available, Ops
<1>2. Copies(op[p]) \in Seq(NeedSet)
  BY <1>1, NeedsType
<1>3. ControlTypes'
  BY <1>1, <1>2 DEF Control, ControlTypes, Lock, trees
<1>4. InOperation'
  BY DEF Control, ControlTypes, InOperation, Lock, Looked
<1>5. SemaphoreMatches'
  <2>1. \A q \in Procs : Inside(q) => op[q].map # m
    BY <1>1 DEF Control, SemaphoreMatches
  <2>2. ~Inside(p) /\ Inside(p)' /\ \A q \in Procs \ {p} : Inside(q)' <=> Inside(q)
    BY DEF Control, ControlTypes, Lock, Inside
  <2>3. sem' = [sem EXCEPT ![m] = 0] /\ op' = op
    BY <1>1 DEF Control, ControlTypes, Lock
  <2>4. QED BY <1>1, <2>1, <2>2, <2>3 DEF Control, ControlTypes, SemaphoreMatches
<1>6. QED BY <1>3, <1>4, <1>5 DEF Control

LEMMA ControlLockFails ==
  ASSUME Control, NEW p \in Procs, LockFails(p)
  PROVE  Control'
<1>1. ControlTypes'
  BY DEF Control, ControlTypes, LockFails, trees
<1>2. InOperation'
  BY DEF Control, ControlTypes, InOperation, LockFails, Looked
<1>3. SemaphoreMatches'
  BY StaysOutside DEF Control, ControlTypes, LockFails, Inside
<1>4. QED BY <1>1, <1>2, <1>3 DEF Control

\* The accesses of allocate, and its failure.
LEMMA ControlAllocate ==
  ASSUME Control, NEW p \in Procs,
         ReadFree(p) \/ BadAlloc(p) \/ ReadFreeAgain(p) \/ WriteFree(p)
  PROVE  Control'
<1> USE DEF Control, ControlTypes, trees
<1>1. todo[p] \in Seq(NeedSet) /\ (todo[p] # << >> => Tail(todo[p]) \in Seq(NeedSet))
  BY HeadTailProperties
<1>2. ControlTypes'
  <2>1. CASE ReadFree(p)
    BY <2>1 DEF ReadFree
  <2>2. CASE BadAlloc(p)
    BY <2>2, EmptySeq DEF BadAlloc, Results
  <2>3. CASE ReadFreeAgain(p)
    BY <2>3 DEF ReadFreeAgain
  <2>4. CASE WriteFree(p)
    BY <1>1, <2>4 DEF WriteFree, InOperation
  <2>5. QED BY <2>1, <2>2, <2>3, <2>4
<1>3. InOperation'
  BY DEF InOperation, Looked, ReadFree, BadAlloc, ReadFreeAgain, WriteFree
<1>4. SemaphoreMatches'
  BY StaysInside DEF Inside, ReadFree, BadAlloc, ReadFreeAgain, WriteFree
<1>5. QED BY <1>2, <1>3, <1>4

LEMMA ControlSearch ==
  ASSUME Control, NEW p \in Procs, Search(p)
  PROVE  Control'
<1>1. op[p] \in Ops /\ op[p].map \in Maps /\ op[p].key \in Keys
  BY DEF Control, ControlTypes, InOperation, Search, Ops
<1>2. Seen(op[p].map, op[p].key) \subseteq Values \cup {NoValue}
  BY <1>1 DEF Seen, Control, ControlTypes
<1>3. PICK v \in Values \cup {NoValue} :
        found' = [found EXCEPT ![p] = v] /\ todo' = [todo EXCEPT ![p] = More(op[p], v)]
  BY <1>2 DEF Search
<1>4. More(op[p], v) \in Seq(NeedSet)
  BY <1>1, NeedsType
<1>5. ControlTypes'
  BY <1>3, <1>4 DEF Control, ControlTypes, Search, trees
<1>6. InOperation'
  BY <1>3 DEF Control, ControlTypes, InOperation, Search, Looked
<1>7. SemaphoreMatches'
  BY DEF Search, SemaphoreMatches, Control, Inside
<1>8. QED BY <1>5, <1>6, <1>7 DEF Control

LEMMA ControlStart ==
  ASSUME Control, NEW p \in Procs, Start(p)
  PROVE  Control'
<1>1. op[p].map \in Maps
  BY DEF Control, ControlTypes, InOperation, Start, Ready, Ops
<1>2. ControlTypes'
  BY <1>1 DEF Control, ControlTypes, Start
<1>3. InOperation'
  BY DEF Control, ControlTypes, InOperation, Start, Ready, Looked
<1>4. SemaphoreMatches'
  BY StaysInside DEF Inside, Start, Ready
<1>5. QED BY <1>2, <1>3, <1>4 DEF Control

LEMMA ControlSettle ==
  ASSUME Control, NEW p \in Procs, Answer(p) \/ Finish(p)
  PROVE  Control'
<1>1. op[p] \in Ops /\ op[p].map \in Maps /\ Looked(p)
  BY DEF Control, ControlTypes, InOperation, Answer, Ready, Finish, Ops
<1>2. Result(op[p], found[p]) \in Results \ {"none"}
  BY <1>1, EffectType DEF Looked, Control, ControlTypes
<1>3. entry' \in [Maps -> [Keys -> Values \cup {NoValue}]] /\ torn' \subseteq Maps
  <2>1. CASE Answer(p)
    BY <2>1 DEF Answer, trees, Control, ControlTypes
  <2>2. CASE Finish(p)
    <3>1. NewEntries(op[p]) \in [Keys -> Values \cup {NoValue}]
      BY <1>1, <2>2, EffectType DEF Finish, Control, InOperation
    <3>2. QED BY <1>1, <2>2, <3>1 DEF Finish, Control, ControlTypes
  <2>3. QED BY <2>1, <2>2
<1>4. Settle(p) /\ Inside(p)
  BY DEF Answer, Finish, Ready, Inside
<1>5. ControlTypes'
  BY <1>2, <1>3, <1>4 DEF Control, ControlTypes, Settle
<1>6. InOperation'
  BY <1>2, <1>4 DEF Control, ControlTypes, InOperation, Settle, Inside, Looked
<1>7. SemaphoreMatches'
  BY <1>4, StaysInside DEF Settle
<1>8. QED BY <1>5, <1>6, <1>7 DEF Control

LEMMA ControlUnlock ==
  ASSUME Control, NEW p \in Procs, Unlock(p)
  PROVE  Control'
<1> DEFINE m == op[p].map
<1>1. op[p] \in Ops /\ m \in Maps /\ Inside(p)
  BY DEF Control, ControlTypes, InOperation, Unlock, Ops, Inside
<1>2. sem[m] = 0 /\ \A q \in Procs \ {p} : Inside(q) => op[q].map # m
  BY <1>1 DEF Control, SemaphoreMatches
<1>3. sem' = [sem EXCEPT ![m] = 1] /\ op' = [op EXCEPT ![p] = NoOp]
  BY <1>1, <1>2 DEF Control, ControlTypes, Unlock, Posted
<1>4. ControlTypes'
  BY <1>1, <1>3 DEF Control, ControlTypes, Unlock, Results, trees
<1>5. InOperation'
  BY DEF Control, ControlTypes, InOperation, Unlock, Looked
<1>6. SemaphoreMatches'
  <2>1. ~Inside(p)' /\ \A q \in Procs \ {p} : (Inside(q)' <=> Inside(q)) /\ op'[q] = op[q]
    BY <1>3 DEF Control, ControlTypes, Unlock, Inside
  <2>2. \A q, r \in Procs : Inside(q)' /\ Inside(r)' /\ op'[q].map = op'[r].map => q = r
    BY <2>1 DEF Control, SemaphoreMatches
  <2>3. \A n \in Maps : sem'[n] = 0 <=> \E q \in Procs : Inside(q)' /\ op'[q].map = n
    <3>1. TAKE n \in Maps
    <3>2. CASE n = m
      BY <1>1, <1>2, <1>3, <2>1, <3>2 DEF Control, ControlTypes
    <3>3. CASE n # m
      BY <1>1, <1>3, <2>1, <3>3 DEF Control, ControlTypes, SemaphoreMatches
    <3>4. QED BY <3>2, <3>3
  <2>4. QED BY <2>2, <2>3 DEF SemaphoreMatches
<1>7. QED BY <1>4, <1>5, <1>6 DEF Control

\* Destroying objects and dying change nothing that Control is about but dead.
LEMMA ControlFrame ==
  ASSUME Control, UNCHANGED <<sem, trees, op, pc, todo, found, result>>, dead' \subseteq Procs
  PROVE  Control'
BY DEF Control, ControlTypes, InOperation, SemaphoreMatches, Inside, Looked, trees

LEMMA ControlStep == Control /\ [Next]_vars => Control'
<1> SUFFICES ASSUME Control, [Next]_vars PROVE Control'
  OBVIOUS
<1>1. CASE UNCHANGED vars
  BY <1>1, ControlFrame DEF vars, trees, Control, ControlTypes
<1>2. ASSUME NEW p \in Procs, Step(p) PROVE Control'
  <2>1. CASE \E o \in Offered : Call(p, o)
    BY <2>1, ControlCall, OfferedAssumption
  <2>2. CASE Lock(p)
    BY <2>2, ControlLock
  <2>3. CASE LockFails(p)
    BY <2>3, ControlLockFails
  <2>4. CASE ReadFree(p) \/ BadAlloc(p) \/ ReadFreeAgain(p) \/ WriteFree(p)
    BY <2>4, ControlAllocate
  <2>5. CASE Search(p)
    BY <2>5, ControlSearch
  <2>6. CASE Start(p)
    BY <2>6, ControlStart
  <2>7. CASE Answer(p) \/ Finish(p)
    BY <2>7, ControlSettle
  <2>8. CASE Unlock(p)
    BY <2>8, ControlUnlock
  <2>9. CASE Destroy(p) \/ Drop(p)
    BY <2>9, ControlFrame DEF Destroy, Drop, Control, ControlTypes
  <2>10. CASE Die(p)
    BY <2>10, ControlFrame DEF Die, Control, ControlTypes
  <2>11. QED BY <1>2, <2>1, <2>2, <2>3, <2>4, <2>5, <2>6, <2>7, <2>8, <2>9, <2>10 DEF Step, Work
<1>3. QED BY <1>1, <1>2 DEF Next

LEMMA ControlAlways == Spec => []Control
BY ControlInit, ControlStep, PTL DEF Spec

\* A semaphore is 0 exactly while one process, and one only, is inside an
\* operation on its map, whatever fails and whoever dies (mutex.cpp, map.h).
THEOREM SemaphoresMatch == Spec => []SemaphoreMatches
<1>1. Control => SemaphoreMatches
  BY DEF Control
<1>2. QED BY <1>1, ControlAlways, PTL

(***************************************************************************)
(* Trees: which are half changed, and what a search has found.             *)
(***************************************************************************)
\* A half changed tree has its changer.
TornByOne == \A m \in Maps : m \in torn <=> \E p \in Procs : pc[p] = "change" /\ op[p].map = m

\* What an operation has found is still there when it changes it.
FoundIsThere ==
  \A p \in Procs :
    pc[p] \in {"work", "again", "write", "change"} /\ found[p] # "none" =>
      found[p] = entry[op[p].map][op[p].key]

Trees == TornByOne /\ FoundIsThere

LEMMA TreesInit == Init => Trees
BY DEF Init, Trees, TornByOne, FoundIsThere

\* A step of p that changes no tree, nor what p has found of one.
LEMMA TreesFrame ==
  ASSUME Control, Trees, NEW p \in Procs, UNCHANGED trees,
         \A q \in Procs \ {p} : pc'[q] = pc[q] /\ op'[q] = op[q] /\ found'[q] = found[q],
         pc[p] # "change" /\ pc'[p] # "change",
         \/ op'[p] = op[p] /\ found'[p] = found[p] /\ Inside(p) /\ pc[p] # "unwind"
         \/ found'[p] = "none" \/ pc'[p] = "unwind"
  PROVE  Trees'
<1>1. TornByOne'
  BY DEF Trees, TornByOne, trees
<1>2. FoundIsThere'
  <2> SUFFICES ASSUME NEW q \in Procs, pc'[q] \in {"work", "again", "write", "change"},
                      found'[q] # "none"
               PROVE  found'[q] = entry'[op'[q].map][op'[q].key]
    BY DEF FoundIsThere
  <2>1. CASE q = p
    <3>1. /\ op'[p] = op[p] /\ found'[p] = found[p]
          /\ pc[p] \in {"work", "again", "write", "change"}
      BY <2>1 DEF Inside
    <3>2. QED BY <2>1, <3>1 DEF Trees, FoundIsThere, trees
  <2>2. CASE q # p
    BY <2>2 DEF Trees, FoundIsThere, trees
  <2>3. QED BY <2>1, <2>2
<1>3. QED BY <1>1, <1>2 DEF Trees

\* Nobody else is inside an operation on the map.
LEMMA OthersElsewhere ==
  ASSUME Control, NEW p \in Procs, NEW q \in Procs, p # q, Inside(p), Inside(q)
  PROVE  op[p].map # op[q].map
BY DEF Control, SemaphoreMatches

LEMMA TreesSearch ==
  ASSUME Control, Trees, NEW p \in Procs, Search(p)
  PROVE  Trees'
<1> DEFINE m == op[p].map
           k == op[p].key
<1>1. op[p] \in Ops /\ m \in Maps /\ Inside(p) /\ pc[p] = "work"
  BY DEF Control, ControlTypes, InOperation, Search, Ops, Inside
<1>2. m \notin torn
  <2>1. \A q \in Procs : pc[q] = "change" => op[q].map # m
    BY <1>1, OthersElsewhere DEF Inside
  <2>2. QED BY <1>1, <2>1 DEF Trees, TornByOne
<1>3. found' = [found EXCEPT ![p] = entry[m][k]]
  BY <1>2 DEF Search, Seen
<1>4. TornByOne'
  BY DEF Trees, TornByOne, trees, Search
<1>5. FoundIsThere'
  BY <1>3 DEF Trees, FoundIsThere, trees, Search, Control, ControlTypes
<1>6. QED BY <1>4, <1>5 DEF Trees

LEMMA TreesStart ==
  ASSUME Control, Trees, NEW p \in Procs, Start(p)
  PROVE  Trees'
<1>1. TornByOne'
  BY DEF Trees, TornByOne, Start, Ready, Control, ControlTypes
<1>2. FoundIsThere'
  BY DEF Trees, FoundIsThere, Start, Ready, Control, ControlTypes
<1>3. QED BY <1>1, <1>2 DEF Trees

LEMMA TreesFinish ==
  ASSUME Control, Trees, NEW p \in Procs, Finish(p)
  PROVE  Trees'
<1> DEFINE m == op[p].map
<1>1. m \in Maps /\ Inside(p)
  BY DEF Control, ControlTypes, InOperation, Finish, Ops, Inside
<1>2. \A q \in Procs \ {p} : Inside(q) => op[q].map # m
  BY <1>1, OthersElsewhere
<1>3. /\ op' = op /\ found' = found /\ torn' = torn \ {m} /\ pc'[p] = "unwind"
      /\ \A q \in Procs \ {p} : pc'[q] = pc[q]
      /\ \A n \in Maps \ {m} : entry'[n] = entry[n]
  BY DEF Finish, Settle, Control, ControlTypes
<1>4. TornByOne'
  BY <1>2, <1>3 DEF Trees, TornByOne, Inside, Finish
<1>5. FoundIsThere'
  <2> SUFFICES ASSUME NEW q \in Procs, pc'[q] \in {"work", "again", "write", "change"},
                      found'[q] # "none"
               PROVE  found'[q] = entry'[op'[q].map][op'[q].key]
    BY DEF FoundIsThere
  <2>1. q # p /\ pc[q] \in {"work", "again", "write", "change"} /\ found[q] # "none"
    BY <1>3
  <2>2. op[q].map \in Maps /\ op[q].map # m
    BY <1>2, <2>1 DEF Inside, Control, ControlTypes, InOperation, Ops
  <2>3. found[q] = entry[op[q].map][op[q].key]
    BY <2>1 DEF Trees, FoundIsThere
  <2>4. QED BY <1>3, <2>2, <2>3
<1>6. QED BY <1>4, <1>5 DEF Trees

LEMMA TreesStep ==
  ASSUME Control, Trees, [Next]_vars
  PROVE  Trees'
<1>1. ASSUME UNCHANGED <<trees, pc, op, found>> PROVE Trees'
  BY <1>1 DEF Trees, TornByOne, FoundIsThere, trees
<1>2. CASE UNCHANGED vars
  BY <1>1, <1>2 DEF vars, trees
<1>3. ASSUME NEW p \in Procs, Step(p) PROVE Trees'
  <2>1. CASE \E o \in Offered : Call(p, o)
    BY <2>1, TreesFrame DEF Call, Control, ControlTypes, InOperation
  <2>2. CASE Lock(p)
    BY <2>2, TreesFrame DEF Lock, Control, ControlTypes, InOperation
  <2>3. CASE LockFails(p)
    BY <2>3, TreesFrame DEF LockFails, Control, ControlTypes, InOperation
  <2>4. CASE ReadFree(p) \/ BadAlloc(p) \/ ReadFreeAgain(p) \/ WriteFree(p)
    BY <2>4, TreesFrame DEF ReadFree, BadAlloc, ReadFreeAgain, WriteFree, Inside,
                            Control, ControlTypes
  <2>5. CASE Search(p)
    BY <2>5, TreesSearch
  <2>6. CASE Start(p)
    BY <2>6, TreesStart
  <2>7. CASE Answer(p)
    BY <2>7, TreesFrame DEF Answer, Ready, Settle, Inside, Control, ControlTypes
  <2>8. CASE Finish(p)
    BY <2>8, TreesFinish
  <2>9. CASE Unlock(p)
    BY <2>9, TreesFrame DEF Unlock, Control, ControlTypes
  <2>10. CASE Destroy(p) \/ Drop(p) \/ Die(p)
    BY <1>1, <2>10 DEF Destroy, Drop, Die
  <2>11. QED BY <1>3, <2>1, <2>2, <2>3, <2>4, <2>5, <2>6, <2>7, <2>8, <2>9, <2>10 DEF Step, Work
<1>4. QED BY <1>2, <1>3 DEF Next

LEMMA TreesAlways == Spec => []Trees
<1>1. Control /\ Trees /\ [Next]_vars => Trees'
  BY TreesStep
<1>2. QED BY <1>1, TreesInit, ControlAlways, PTL DEF Spec

(***************************************************************************)
(* Atomicity.                                                              *)
(***************************************************************************)
\* The call on the std::map does to the map, and answers, what AtomicMap says.
LEMMA EffectIsAtomic ==
  ASSUME Control, NEW o \in Ops, NEW v, v = entry[o.map][o.key] \/ o.kind = "clear"
  PROVE  /\ Changes(o, v) => NewEntries(o) = Atomic!Effect(o, entry[o.map])
         /\ ~Changes(o, v) => entry[o.map] = Atomic!Effect(o, entry[o.map])
         /\ Result(o, v) = Atomic!Answer(o, entry[o.map])
<1> DEFINE old_ == entry[o.map]
<1>1. o.map \in Maps /\ o.key \in Keys /\ o.kind \in {"insert", "insert_or_assign"} \cup Kinds
  BY DEF Ops
<1>2. old_ \in [Keys -> Values \cup {NoValue}]
  BY <1>1 DEF Control, ControlTypes
<1>3. /\ Changes(o, v) => NewEntries(o) = Atomic!Effect(o, old_)
      /\ ~Changes(o, v) => old_ = Atomic!Effect(o, old_)
  <2> USE DEF Changes, NewEntries, Atomic!Effect, Stores, Removes
  <2>1. CASE o.kind = "insert"
    BY <1>1, <1>2, <2>1
  <2>2. CASE o.kind = "insert_or_assign"
    BY <1>1, <1>2, <2>2
  <2>3. CASE o.kind \in {"erase", "extract"}
    BY <1>1, <1>2, <2>3
  <2>4. CASE o.kind = "clear"
    BY <2>4
  <2>5. CASE o.kind \in {"at", "own", "contains"}
    BY <1>1, <1>2, <2>5
  <2>6. QED BY <1>1, <2>1, <2>2, <2>3, <2>4, <2>5 DEF Kinds
<1>4. Result(o, v) = Atomic!Answer(o, old_)
  <2>1. CASE o.kind \in {"at", "own"}
    BY <2>1 DEF Result, Atomic!Answer
  <2>2. CASE o.kind \in {"erase", "contains"}
    BY <2>2 DEF Result, Atomic!Answer
  <2>3. CASE o.kind \notin {"at", "own", "erase", "contains"}
    BY <2>3 DEF Result, Atomic!Answer
  <2>4. QED BY <2>1, <2>2, <2>3
<1>5. QED BY <1>3, <1>4

LEMMA AtomicInit == Init => Atomic!Init
BY DEF Init, Atomic!Init

LEMMA AtomicStep == Control /\ Trees /\ [Next]_vars => [Atomic!Next]_Atomic!vars
<1> SUFFICES ASSUME Control, Trees, [Next]_vars PROVE [Atomic!Next]_Atomic!vars
  OBVIOUS
<1> USE DEF Control, ControlTypes, InOperation
<1>1. CASE UNCHANGED vars
  BY <1>1 DEF vars, Atomic!vars
<1>2. ASSUME NEW p \in Procs, Step(p) PROVE [Atomic!Next]_Atomic!vars
  <2>1. p \notin dead
    BY <1>2 DEF Step, Work
  <2>2. ASSUME NEW o \in Offered, Call(p, o) PROVE Atomic!Next
    <3>1. Atomic!Call(p, o)
      BY <2>1, <2>2 DEF Call, trees, Atomic!Call
    <3>2. o \in Atomic!Ops
      BY OfferedAssumption DEF Ops, Kinds, Atomic!Ops, Atomic!Kinds
    <3>3. QED BY <3>1, <3>2 DEF Atomic!Next
  <2>3. CASE LockFails(p)
    <3>1. Atomic!Refuse(p)
      BY <2>1, <2>3 DEF LockFails, trees, Atomic!Refuse
    <3>2. QED BY <3>1 DEF Atomic!Next
  <2>4. CASE BadAlloc(p)
    <3>1. Atomic!Fail(p)
      BY <2>1, <2>4 DEF BadAlloc, trees, Atomic!Fail
    <3>2. QED BY <3>1 DEF Atomic!Next
  <2>5. CASE Answer(p) \/ Finish(p)
    <3> DEFINE o == op[p]
               v == found[p]
    <3>1. o \in Ops /\ o.map \in Maps /\ o # NoOp /\ result[p] = "none" /\ Looked(p)
      BY <2>5, NoneAssumption DEF Answer, Ready, Finish, Ops
    <3>2. v = entry[o.map][o.key] \/ o.kind = "clear"
      BY <2>5, <3>1 DEF Answer, Ready, Finish, Looked, Trees, FoundIsThere
    <3>3. /\ Changes(o, v) => NewEntries(o) = Atomic!Effect(o, entry[o.map])
          /\ ~Changes(o, v) => entry[o.map] = Atomic!Effect(o, entry[o.map])
          /\ Result(o, v) = Atomic!Answer(o, entry[o.map])
      BY <3>1, <3>2, EffectIsAtomic
    <3>4. entry' = [entry EXCEPT ![o.map] = Atomic!Effect(o, @)]
      <4>1. CASE Answer(p)
        BY <3>1, <3>3, <4>1 DEF Answer, trees
      <4>2. CASE Finish(p)
        BY <3>1, <3>3, <4>2 DEF Finish
      <4>3. QED BY <2>5, <4>1, <4>2
    <3>5. Settle(p)
      BY <2>5 DEF Answer, Finish
    <3>6. Atomic!TakeEffect(p)
      BY <2>1, <3>1, <3>3, <3>4, <3>5 DEF Settle, Atomic!TakeEffect
    <3>7. QED BY <3>6 DEF Atomic!Next
  <2>6. CASE Unlock(p)
    <3>1. Atomic!Return(p)
      BY <2>1, <2>6 DEF Unlock, trees, Atomic!Return
    <3>2. QED BY <3>1 DEF Atomic!Next
  <2>7. CASE Die(p)
    <3>1. Atomic!Die(p)
      BY <2>1, <2>7 DEF Die, trees, Atomic!Die
    <3>2. QED BY <3>1 DEF Atomic!Next
  <2>8. CASE \/ Lock(p) \/ ReadFree(p) \/ ReadFreeAgain(p) \/ WriteFree(p)
             \/ Search(p) \/ Start(p) \/ Destroy(p) \/ Drop(p)
    BY <2>8 DEF Lock, ReadFree, ReadFreeAgain, WriteFree, Search, Start, Destroy, Drop, trees,
                Atomic!vars
  <2>9. QED BY <1>2, <2>2, <2>3, <2>4, <2>5, <2>6, <2>7, <2>8 DEF Step, Work
<1>3. QED BY <1>1, <1>2 DEF Next

\* Every operation on a shared map takes effect at once or not at all, whatever
\* other processes do, also when memory runs out, the lock fails or a process
\* dies (map.h): SharedMap implements AtomicMap.
THEOREM MapIsAtomic == Spec => ImplementsAtomicMap
<1>1. Init => Atomic!Init
  BY AtomicInit
<1>2. Control /\ Trees /\ [Next]_vars => [Atomic!Next]_Atomic!vars
  BY AtomicStep
<1>3. QED BY <1>1, <1>2, ControlAlways, TreesAlways, PTL DEF Spec, ImplementsAtomicMap, Atomic!Spec

(***************************************************************************)
(* Memory: what allocate knows of the free address.                        *)
(***************************************************************************)
\* An allocator that has one map at most.
Alone(a) == \A m1, m2 \in Maps : AllocOf[m1] = a /\ AllocOf[m2] = a => m1 = m2

BlockSet == [in : Allocators, lo : Nat, hi : Nat, owner : Owners]

MemoryTypes ==
  /\ free \in [Allocators -> 0..End]
  /\ blocks \subseteq BlockSet
  /\ \A b \in blocks : b.lo < b.hi
  /\ new \in [Procs -> Nat] /\ old \in [Procs -> Nat]
  /\ raced \subseteq Allocators

\* The address that is to be written is inside the region, behind a block.
WriteFits ==
  \A p \in Procs :
    pc[p] \in {"again", "write"} => new[p] <= End /\ new[p] >= Head(todo[p]).size

\* What allocate has read is still true if no other map has the allocator: nobody
\* else allocates there, and no deallocate moves the free address.
ReadsStillTrue ==
  \A p \in Procs :
    pc[p] \in {"again", "write"} /\ Alone(Region(p)) =>
      /\ new[p] = free[Region(p)] + Head(todo[p]).size
      /\ pc[p] = "write" => old[p] = free[Region(p)]

Memory ==
  MemoryTypes /\ BelowFree /\ NoOverlap /\ RaceNeedsTwoMaps /\ WriteFits /\ ReadsStillTrue

\* What is still called free stays free.
NoneReclaimed == \A a \in Allocators : a \notin raced' => free'[a] >= free[a]

\* Two processes that are inside operations work in different regions, unless
\* theirs has two maps.
LEMMA RegionsDiffer ==
  ASSUME Control, NEW p \in Procs, NEW q \in Procs, p # q, Inside(p), Inside(q),
         Alone(Region(q))
  PROVE  Region(p) # Region(q)
<1>1. op[p].map \in Maps /\ op[q].map \in Maps
  BY DEF Control, ControlTypes, InOperation, Inside, Ops
<1>2. op[p].map # op[q].map
  BY OthersElsewhere
<1>3. QED BY <1>1, <1>2 DEF Alone, Region

\* A step that touches no memory and keeps p out of allocate.
LEMMA MemoryFrame ==
  ASSUME Control, Memory, NEW p \in Procs, UNCHANGED <<free, blocks, new, old, raced>>,
         pc'[p] \notin {"again", "write"},
         \A q \in Procs \ {p} : pc'[q] = pc[q] /\ op'[q] = op[q] /\ todo'[q] = todo[q]
  PROVE  Memory'
<1>1. MemoryTypes' /\ BelowFree' /\ NoOverlap' /\ RaceNeedsTwoMaps'
  BY DEF Memory, MemoryTypes, BelowFree, NoOverlap, RaceNeedsTwoMaps
<1>2. WriteFits' /\ ReadsStillTrue'
  BY DEF Memory, WriteFits, ReadsStillTrue, Region, Alone
<1>3. QED BY <1>1, <1>2 DEF Memory

LEMMA MemoryInit == Init => Memory
<1> SUFFICES ASSUME Init PROVE Memory
  OBVIOUS
<1>1. PICK at \in [Maps -> 0..End] :
        /\ \A m \in Maps : at[m] + HeaderSize <= free[AllocOf[m]]
        /\ \A m1, m2 \in Maps :
             m1 # m2 /\ AllocOf[m1] = AllocOf[m2] =>
               at[m1] + HeaderSize <= at[m2] \/ at[m2] + HeaderSize <= at[m1]
        /\ blocks = {Block(AllocOf[m], at[m], HeaderSize, OfMap(m)) : m \in Maps}
  BY DEF Init
<1>2. free \in [Allocators -> 0..End] /\ HeaderSize \in Nat \ {0} /\ End \in Nat
  BY SizeAssumption DEF Init
<1>3. \A m \in Maps : AllocOf[m] \in Allocators /\ at[m] \in Nat
  BY <1>2, AllocOfAssumption
<1>4. \A b \in blocks : \E m \in Maps :
        b = [in |-> AllocOf[m], lo |-> at[m], hi |-> at[m] + HeaderSize, owner |-> OfMap(m)]
  BY <1>1 DEF Block
<1>5. MemoryTypes
  <2>1. blocks \subseteq BlockSet /\ \A b \in blocks : b.lo < b.hi
    <3>1. \A m \in Maps : OfMap(m) \in Owners
      BY DEF Owners
    <3>2. QED BY <1>2, <1>3, <1>4, <3>1 DEF BlockSet
  <2>2. new \in [Procs -> Nat] /\ old \in [Procs -> Nat] /\ raced \subseteq Allocators
    BY DEF Init
  <2>3. QED BY <1>2, <2>1, <2>2 DEF MemoryTypes
<1>6. BelowFree
  BY <1>1, <1>4 DEF BelowFree
<1>7. NoOverlap
  <2>1. SUFFICES ASSUME NEW b \in blocks, NEW c \in blocks, b # c, b.in = c.in
                 PROVE  b.hi <= c.lo \/ c.hi <= b.lo
    BY DEF NoOverlap
  <2>2. PICK m \in Maps :
          b = [in |-> AllocOf[m], lo |-> at[m], hi |-> at[m] + HeaderSize, owner |-> OfMap(m)]
    BY <1>4
  <2>3. PICK n \in Maps :
          c = [in |-> AllocOf[n], lo |-> at[n], hi |-> at[n] + HeaderSize, owner |-> OfMap(n)]
    BY <1>4
  <2>4. m # n /\ AllocOf[m] = AllocOf[n]
    BY <2>1, <2>2, <2>3
  <2>5. QED BY <1>1, <2>2, <2>3, <2>4
<1>8. RaceNeedsTwoMaps /\ WriteFits /\ ReadsStillTrue
  BY DEF Init, RaceNeedsTwoMaps, WriteFits, ReadsStillTrue
<1>9. QED BY <1>5, <1>6, <1>7, <1>8 DEF Memory

\* Whatever an operation does to the owner of a block, it has one.
LEMMA NewOwnerType ==
  ASSUME NEW p \in Procs, NEW o \in Ops, NEW v, NEW w \in Owners
  PROVE  NewOwner(p, o, v, w) \in Owners
<1>1. o.map \in Maps /\ o.key \in Keys
  BY DEF Ops
<1>2. /\ OfNode(o.map, o.key) \in Owners /\ OfValue(o.map, o.key) \in Owners
      /\ Held(p) \in Owners /\ Mine(p, "temp") \in Owners
  BY <1>1 DEF Owners, Roles
<1> HIDE DEF Owners, OfNode, OfValue, Held, Mine
<1>3. NewOwner(p, o, v, w) \in
        {OfNode(o.map, o.key), OfValue(o.map, o.key), Held(p), Mine(p, "temp"), w}
  BY Zenon DEF NewOwner
<1>4. QED BY <1>2, <1>3

LEMMA MemorySettle ==
  ASSUME Control, Memory, NEW p \in Procs, Answer(p) \/ Finish(p)
  PROVE  Memory'
<1>1. op[p] \in Ops /\ Settle(p)
  BY DEF Control, ControlTypes, InOperation, Answer, Ready, Finish
<1> DEFINE Owner(w) == NewOwner(p, op[p], found[p], w)
<1>2. \A b \in blocks : b \in BlockSet /\ Owner(b.owner) \in Owners
  BY <1>1, NewOwnerType DEF Memory, MemoryTypes, BlockSet
<1> DEFINE Given(b) == [b EXCEPT !.owner = Owner(b.owner)]
<1>3. blocks' = {Given(b) : b \in blocks} /\ UNCHANGED <<free, new, old, op, todo, raced>>
  BY <1>1 DEF Settle
<1> HIDE DEF Owner
<1>4. \A b \in blocks : /\ Given(b) \in BlockSet
                        /\ Given(b).in = b.in /\ Given(b).lo = b.lo /\ Given(b).hi = b.hi
  BY <1>2 DEF BlockSet
<1> HIDE DEF Given
<1>5. MemoryTypes' /\ BelowFree'
  BY <1>3, <1>4 DEF Memory, MemoryTypes, BelowFree
<1>6. NoOverlap' /\ RaceNeedsTwoMaps'
  BY <1>3, <1>4 DEF Memory, NoOverlap, RaceNeedsTwoMaps
<1>7. WriteFits' /\ ReadsStillTrue'
  BY <1>1, <1>3 DEF Memory, WriteFits, ReadsStillTrue, Region, Alone, Settle, Control,
                    ControlTypes
<1>8. QED BY <1>5, <1>6, <1>7 DEF Memory

\* No block starts at the free address, so deallocate leaves it where it is.
LEMMA FreedIsFree ==
  ASSUME Memory, NEW b \in blocks, b.in \notin raced
  PROVE  Freed(b) = free[b.in]
BY DEF Memory, MemoryTypes, BlockSet, BelowFree, Freed

LEMMA MemoryDeallocate ==
  ASSUME Control, Memory, NEW b \in blocks, Deallocate(b),
         UNCHANGED <<op, pc, todo, new, old, raced>>
  PROVE  Memory' /\ free' = free
<1>1. free' = free /\ blocks' \subseteq blocks
  BY FreedIsFree DEF Deallocate, Memory, MemoryTypes, BlockSet
<1>2. MemoryTypes' /\ BelowFree' /\ NoOverlap' /\ RaceNeedsTwoMaps'
  BY <1>1 DEF Memory, MemoryTypes, BelowFree, NoOverlap, RaceNeedsTwoMaps
<1>3. WriteFits' /\ ReadsStillTrue'
  BY <1>1 DEF Memory, WriteFits, ReadsStillTrue, Region, Alone
<1>4. QED BY <1>1, <1>2, <1>3 DEF Memory

\* What allocate works on.
LEMMA AllocatesHere ==
  ASSUME Control, Memory, NEW p \in Procs, Inside(p), todo[p] # << >>
  PROVE  /\ Region(p) \in Allocators
         /\ free[Region(p)] \in Nat
         /\ Head(todo[p]).size \in Nat \ {0} /\ Head(todo[p]).role \in Roles
<1>1. op[p].map \in Maps
  BY DEF Control, ControlTypes, InOperation, Inside, Ops
<1>2. Region(p) \in Allocators
  BY <1>1, AllocOfAssumption DEF Region
<1>3. free[Region(p)] \in Nat
  BY <1>2, SizeAssumption DEF Memory, MemoryTypes
<1>4. todo[p] \in Seq(NeedSet) /\ todo[p] # << >>
  BY DEF Control, ControlTypes
<1>5. Head(todo[p]) \in NeedSet
  BY <1>4, HeadTailProperties
<1>6. QED BY <1>2, <1>3, <1>5 DEF NeedSet

LEMMA MemoryReadFree ==
  ASSUME Control, Memory, NEW p \in Procs, ReadFree(p)
  PROVE  Memory'
<1>1. Inside(p) /\ todo[p] # << >>
  BY DEF ReadFree, Inside
<1>2. /\ Region(p) \in Allocators /\ free[Region(p)] \in Nat
      /\ Head(todo[p]).size \in Nat \ {0}
  BY <1>1, AllocatesHere
<1>3. NewFree(p) \in Nat /\ NewFree(p) <= End
  BY <1>2 DEF ReadFree, NewFree, Fits
<1>4. MemoryTypes' /\ BelowFree' /\ NoOverlap' /\ RaceNeedsTwoMaps'
  BY <1>3 DEF Memory, MemoryTypes, BelowFree, NoOverlap, RaceNeedsTwoMaps, ReadFree
<1>5. NewFree(p) >= Head(todo[p]).size
  BY <1>2 DEF NewFree
<1>6. WriteFits'
  BY <1>3, <1>5 DEF Memory, MemoryTypes, WriteFits, ReadFree, Control, ControlTypes
<1>7. ReadsStillTrue'
  BY <1>3 DEF Memory, MemoryTypes, ReadsStillTrue, ReadFree, NewFree, Region, Alone,
              Control, ControlTypes
<1>8. QED BY <1>4, <1>6, <1>7 DEF Memory

LEMMA MemoryReadFreeAgain ==
  ASSUME Control, Memory, NEW p \in Procs, ReadFreeAgain(p)
  PROVE  Memory'
<1>1. Inside(p) /\ todo[p] # << >>
  BY DEF ReadFreeAgain, Inside, Control, InOperation
<1>2. /\ Region(p) \in Allocators /\ free[Region(p)] \in Nat
      /\ Head(todo[p]).size \in Nat \ {0}
  BY <1>1, AllocatesHere
<1>3. new[p] \in Nat /\ new[p] >= Head(todo[p]).size
  BY DEF Memory, MemoryTypes, WriteFits, ReadFreeAgain
<1>4. PICK f \in {new[p] - Head(todo[p]).size, free[Region(p)]} : old' = [old EXCEPT ![p] = f]
  BY DEF ReadFreeAgain
<1>5. f \in Nat
  BY <1>2, <1>3, <1>4
<1>6. Alone(Region(p)) => f = free[Region(p)]
  BY <1>2, <1>4 DEF Memory, ReadsStillTrue, ReadFreeAgain
<1>7. MemoryTypes' /\ BelowFree' /\ NoOverlap' /\ RaceNeedsTwoMaps'
  BY <1>4, <1>5 DEF Memory, MemoryTypes, BelowFree, NoOverlap, RaceNeedsTwoMaps, ReadFreeAgain
<1>8. WriteFits'
  BY DEF Memory, WriteFits, ReadFreeAgain, Control, ControlTypes
<1>9. ReadsStillTrue'
  BY <1>4, <1>6 DEF Memory, MemoryTypes, ReadsStillTrue, ReadFreeAgain, Region, Alone,
              Control, ControlTypes
<1>10. QED BY <1>7, <1>8, <1>9 DEF Memory

\* Two operations of different maps have been in allocate at once.
LEMMA OutdatedIsShared ==
  ASSUME Control, Memory, NEW p \in Procs, WriteFree(p), Outdated(p)
  PROVE  ~Alone(Region(p))
BY DEF Memory, ReadsStillTrue, Outdated, WriteFree

\* Unless what p read is outdated, the block lies between the old free address and
\* the new one, hence above every block of its region.
LEMMA MemoryWriteFree ==
  ASSUME Control, Memory, NEW p \in Procs, WriteFree(p), Region(p) \notin raced
  PROVE  Memory' /\ NoneReclaimed
<1> DEFINE a == Region(p)
           size == Head(todo[p]).size
           role == Head(todo[p]).role
           b == [in |-> a, lo |-> old[p], hi |-> old[p] + size, owner |-> Mine(p, role)]
<1>1. Inside(p) /\ todo[p] # << >>
  BY DEF WriteFree, Inside, Control, InOperation
<1>2. a \in Allocators /\ free[a] \in Nat /\ size \in Nat \ {0} /\ role \in Roles
  BY <1>1, AllocatesHere
<1>3. old[p] \in Nat /\ new[p] \in Nat /\ new[p] <= End
  BY DEF Memory, MemoryTypes, WriteFits, WriteFree
<1>4. raced' = raced \cup {a} \/ (raced' = raced /\ old[p] = free[a] /\ new[p] = free[a] + size)
  BY <1>2 DEF WriteFree, Outdated
<1>5. RaceNeedsTwoMaps'
  BY OutdatedIsShared DEF Memory, RaceNeedsTwoMaps, WriteFree, Alone
<1>6. /\ free' = [free EXCEPT ![a] = new[p]]
      /\ blocks' = blocks \cup {b}
      /\ new' = [new EXCEPT ![p] = 0] /\ old' = [old EXCEPT ![p] = 0]
  BY DEF WriteFree, Block
<1>7. b \in BlockSet /\ b.in = a /\ b.lo = old[p] /\ b.hi = old[p] + size /\ b.lo < b.hi
  <2>1. Mine(p, role) \in Owners
    BY <1>2 DEF Owners
  <2>2. QED BY <1>2, <1>3, <2>1 DEF BlockSet
<1> HIDE DEF b, a, size, role
<1>8. MemoryTypes'
  <2>1. free' \in [Allocators -> 0..End]
    BY <1>2, <1>3, <1>6 DEF Memory, MemoryTypes
  <2>2. raced' \subseteq Allocators
    BY <1>2, <1>4 DEF Memory, MemoryTypes
  <2>3. QED BY <1>6, <1>7, <2>1, <2>2 DEF Memory, MemoryTypes
<1>9. \A c \in blocks : c \in BlockSet /\ (c.in \notin raced => c.hi <= free[c.in])
  BY DEF Memory, MemoryTypes, BelowFree
<1>10. \A c \in Allocators : c \notin raced' =>
         free[c] \in Nat /\ free'[c] \in Nat /\ free'[c] >= free[c]
  BY <1>2, <1>3, <1>4, <1>6, SizeAssumption DEF Memory, MemoryTypes
<1>11. BelowFree'
  <2>1. \A c \in blocks : c.in \notin raced' => c.hi <= free'[c.in]
    BY <1>4, <1>9, <1>10 DEF BlockSet
  <2>2. b.in \notin raced' => b.hi <= free'[b.in]
    BY <1>2, <1>4, <1>6, <1>7 DEF Memory, MemoryTypes
  <2>3. QED BY <1>6, <2>1, <2>2 DEF BelowFree
<1>12. NoOverlap'
  <2>1. \A c \in blocks : c.in = b.in /\ b.in \notin raced' => c.hi <= b.lo
    BY <1>4, <1>7, <1>9
  <2>2. \A c, d \in blocks : c # d /\ c.in = d.in /\ c.in \notin raced' =>
          c.hi <= d.lo \/ d.hi <= c.lo
    BY <1>4 DEF Memory, NoOverlap
  <2>3. QED BY <1>6, <2>1, <2>2 DEF NoOverlap
<1>13. \A q \in Procs : pc'[q] \in {"again", "write"} =>
         /\ q # p /\ pc'[q] = pc[q] /\ todo'[q] = todo[q] /\ Region(q)' = Region(q)
         /\ new'[q] = new[q] /\ old'[q] = old[q]
  BY DEF WriteFree, Control, ControlTypes, Region, Memory, MemoryTypes
<1>14. WriteFits'
  BY <1>13 DEF Memory, WriteFits
<1>15. ReadsStillTrue'
  <2> SUFFICES ASSUME NEW q \in Procs, pc'[q] \in {"again", "write"}, Alone(Region(q))
               PROVE  /\ new'[q] = free'[Region(q)] + Head(todo'[q]).size
                      /\ pc'[q] = "write" => old'[q] = free'[Region(q)]
    BY <1>13 DEF ReadsStillTrue, Alone
  <2>1. Region(q) # a /\ Region(q) \in Allocators
    <3>1. q # p /\ Inside(p) /\ Inside(q)
      BY <1>13 DEF WriteFree, Inside
    <3>2. op[q].map \in Maps
      BY <3>1 DEF Control, ControlTypes, InOperation, Inside, Ops
    <3>3. Region(q) \in Allocators
      BY <3>2, AllocOfAssumption DEF Region
    <3>4. QED BY <3>1, <3>3, RegionsDiffer DEF a
  <2>2. free'[Region(q)] = free[Region(q)]
    BY <1>6, <2>1 DEF Memory, MemoryTypes
  <2>3. QED BY <1>13, <2>2 DEF Memory, ReadsStillTrue
<1>16. QED BY <1>5, <1>8, <1>10, <1>11, <1>12, <1>14, <1>15 DEF Memory, NoneReclaimed

LEMMA MemoryStep ==
  ASSUME Control, Memory, [Next]_vars
  PROVE  Memory' /\ NoneReclaimed
<1>1. free' = free => NoneReclaimed
  BY DEF Memory, MemoryTypes, NoneReclaimed
<1>2. CASE UNCHANGED vars
  BY <1>1, <1>2 DEF vars, Memory, MemoryTypes, BelowFree, NoOverlap, RaceNeedsTwoMaps, WriteFits,
                    ReadsStillTrue, Region, Alone
<1>3. ASSUME NEW p \in Procs, Step(p)
      PROVE  Memory' /\ NoneReclaimed
  <2>1. CASE \E o \in Offered : Call(p, o)
    BY <1>1, <2>1, MemoryFrame DEF Call, Control, ControlTypes
  <2>2. CASE Lock(p)
    BY <1>1, <2>2, MemoryFrame DEF Lock, Control, ControlTypes
  <2>3. CASE LockFails(p)
    BY <1>1, <2>3, MemoryFrame DEF LockFails, Control, ControlTypes
  <2>4. CASE ReadFree(p)
    BY <1>1, <2>4, MemoryReadFree DEF ReadFree
  <2>5. CASE BadAlloc(p)
    BY <1>1, <2>5, MemoryFrame DEF BadAlloc, Control, ControlTypes
  <2>6. CASE ReadFreeAgain(p)
    BY <1>1, <2>6, MemoryReadFreeAgain DEF ReadFreeAgain
  <2>7. CASE WriteFree(p) /\ Region(p) \notin raced
    BY <2>7, MemoryWriteFree
  <2>8. CASE Answer(p) \/ Finish(p)
    BY <1>1, <2>8, MemorySettle DEF Answer, Finish, Settle
  <2>9. CASE Destroy(p)
    BY <1>1, <2>9, MemoryDeallocate DEF Destroy, Working
  <2>10. CASE Unlock(p)
    BY <1>1, <2>10, MemoryFrame DEF Unlock, Control, ControlTypes
  <2>11. CASE Drop(p)
    BY <1>1, <2>11, MemoryDeallocate DEF Drop, OwnedBy
  <2>12. CASE Die(p)
    BY <1>1, <2>12 DEF Die, Memory, MemoryTypes, BelowFree, NoOverlap, RaceNeedsTwoMaps,
                       WriteFits, ReadsStillTrue, Region, Alone
  <2>13. CASE Search(p) \/ Start(p)
    BY <1>1, <2>13, MemoryFrame DEF Search, Start, Ready, Control, ControlTypes
  <2>14. QED BY <1>3, <2>1, <2>2, <2>3, <2>4, <2>5, <2>6, <2>7, <2>8, <2>9, <2>10, <2>11,
                <2>12, <2>13 DEF Step, Work
<1>4. QED BY <1>2, <1>3 DEF Next

LEMMA MemoryAlways == Spec => []Memory
<1>1. Control /\ Memory /\ [Next]_vars => Memory'
  BY MemoryStep
<1>2. QED BY <1>1, MemoryInit, ControlAlways, PTL DEF Spec

\* The types of everything, however maps share allocators: the free address, in
\* particular, never passes the end of its region.
THEOREM TypeCorrect == Spec => []TypeOK
<1>1. ASSUME Control, Memory PROVE TypeOK
  <2>1. sem \in [Maps -> Int]
    BY <1>1 DEF Control, ControlTypes
  <2>2. /\ entry \in [Maps -> [Keys -> Values \cup {NoValue}]]
        /\ op \in [Procs -> Ops \cup {NoOp}]
        /\ pc \in [Procs -> {"idle", "wait", "work", "again", "write", "change", "unwind"}]
        /\ found \in [Procs -> Values \cup {NoValue, "none"}] /\ torn \subseteq Maps
        /\ todo \in [Procs -> Seq([size : Nat \ {0}, role : Roles])]
        /\ result \in [Procs -> Results] /\ dead \subseteq Procs
    BY <1>1, Zenon DEF Control, ControlTypes, NeedSet
  <2>3. /\ free \in [Allocators -> 0..End]
        /\ blocks \subseteq [in : Allocators, lo : Nat, hi : Nat, owner : Owners]
        /\ \A b \in blocks : b.lo < b.hi
        /\ new \in [Procs -> Nat] /\ old \in [Procs -> Nat] /\ raced \subseteq Allocators
    BY <1>1, Zenon DEF Memory, MemoryTypes, BlockSet
  <2>4. QED BY <2>1, <2>2, <2>3 DEF TypeOK
<1>2. QED BY <1>1, ControlAlways, MemoryAlways, PTL

\* No two live blocks share memory, though allocate takes no lock of its own and
\* processes die in it (linear_allocator.h), until two operations, of two maps
\* that were built on one allocator, allocate at once.
THEOREM BlocksAreDisjoint == Spec => [](NoOverlap /\ RaceNeedsTwoMaps)
<1>1. Memory => NoOverlap /\ RaceNeedsTwoMaps
  BY DEF Memory
<1>2. QED BY <1>1, MemoryAlways, PTL

\* deallocate, which runs without the lock too, never moves the free address.
THEOREM MemoryIsNeverReclaimed == Spec => NeverReclaims
<1>1. Control /\ Memory /\ [Next]_vars =>
        [\A a \in Allocators : a \notin raced' => free'[a] >= free[a]]_vars
  BY MemoryStep DEF NoneReclaimed
<1>2. QED BY <1>1, ControlAlways, MemoryAlways, PTL DEF Spec, NeverReclaims

(***************************************************************************)
(* Who owns what: an entry and its node come and go together.              *)
(***************************************************************************)
Owned(w) == \E b \in blocks : b.owner = w

HasNode(needs) == \E i \in 1..Len(needs) : needs[i].role = "node"

\* The operation, which has found v, makes a node: insert does before it looks.
MakesNode(o, v) == o.kind = "insert" \/ (o.kind = "insert_or_assign" /\ v = NoValue)

Unfinished(p) == pc[p] \in {"work", "again", "write", "change"}

\* An operation that makes a node has it, or has still to allocate it.
NodeIsComing ==
  \A p \in Procs :
    Unfinished(p) /\ MakesNode(op[p], found[p]) => Owned(Mine(p, "node")) \/ HasNode(todo[p])

\* Entries and nodes change in one step, in whatever region.
NodePerEntry ==
  \A m \in Maps, k \in Keys : entry[m][k] # NoValue <=> Owned(OfNode(m, k))

Ownership == NodePerEntry /\ NodeIsComing

\* A node of an entry is not also something else, or another entry's.
LEMMA NodesAreNodes ==
  ASSUME NEW m, NEW k
  PROVE  /\ \A n, j : OfNode(m, k) = OfNode(n, j) => m = n /\ k = j
         /\ \A n, j : OfNode(m, k) # OfValue(n, j)
         /\ \A n : OfNode(m, k) # OfMap(n)
         /\ \A p, role : OfNode(m, k) # Mine(p, role)
         /\ \A p : OfNode(m, k) # Held(p)
<1>1. \A n, j : DOMAIN OfNode(m, k) = 1..3 /\ DOMAIN OfNode(n, j) = 1..3
  BY DEF OfNode
<1>2. \A p, role : DOMAIN Mine(p, role) = 1..2
  BY DEF Mine
<1>3. \A p : DOMAIN Held(p) = 1..2 /\ DOMAIN OfMap(p) = 1..2
  BY DEF Held, OfMap
<1>4. 1..3 # 1..2
  OBVIOUS
<1>5. \A n, j : OfNode(m, k) = OfNode(n, j) => m = n /\ k = j
  BY DEF OfNode
<1>6. \A n, j : OfNode(m, k) # OfValue(n, j)
  BY DEF OfNode, OfValue
<1>7. QED BY <1>1, <1>2, <1>3, <1>4, <1>5, <1>6

LEMMA WorkIsOnes ==
  ASSUME NEW p, NEW q, NEW r1, NEW r2, Mine(p, r1) = Mine(q, r2)
  PROVE  p = q /\ r1 = r2
BY DEF Mine

LEMMA WorkIsNotHeld ==
  ASSUME NEW p, NEW q, NEW role \in Roles
  PROVE  Mine(p, role) # Held(q)
BY DEF Mine, Held, Roles

LEMMA WorkIsNotValue ==
  ASSUME NEW p, NEW role, NEW m, NEW k
  PROVE  Mine(p, role) # OfValue(m, k)
<1>1. DOMAIN Mine(p, role) = 1..2 /\ DOMAIN OfValue(m, k) = 1..3
  BY DEF Mine, OfValue
<1>2. QED BY <1>1

LEMMA HasNodeConcat ==
  ASSUME NEW s \in Seq(NeedSet), NEW t \in Seq(NeedSet), HasNode(s) \/ HasNode(t)
  PROVE  HasNode(s \o t)
<1>1. /\ Len(s \o t) = Len(s) + Len(t)
      /\ \A i \in 1..Len(s) : (s \o t)[i] = s[i]
      /\ \A i \in 1..Len(t) : (s \o t)[Len(s) + i] = t[i]
  BY ConcatProperties
<1>2. Len(s) \in Nat /\ Len(t) \in Nat
  OBVIOUS
<1>3. CASE HasNode(s)
  BY <1>1, <1>2, <1>3 DEF HasNode
<1>4. CASE HasNode(t)
  <2>1. PICK i \in 1..Len(t) : t[i].role = "node"
    BY <1>4 DEF HasNode
  <2>2. Len(s) + i \in 1..Len(s \o t) /\ (s \o t)[Len(s) + i].role = "node"
    BY <1>1, <1>2, <2>1
  <2>3. QED BY <2>2 DEF HasNode
<1>5. QED BY <1>3, <1>4

\* insert allocates a node before it looks, insert_or_assign when it has found none.
LEMMA CopiesNode ==
  ASSUME NEW o \in Ops, o.kind = "insert"
  PROVE  HasNode(Copies(o))
<1> DEFINE key   == Need(Size[o.key], "node")
           value == Need(Size[o.value], "value")
           node  == Need(NodeSize, "node")
<1>1. Copies(o) = key \o value \o node
  BY DEF Copies
<1>2. o.key \in Keys /\ o.value \in Values
  BY DEF Ops, Kinds
<1>3. Size[o.key] \in Nat /\ Size[o.value] \in Nat /\ NodeSize \in Nat \ {0}
  BY <1>2, SizeAssumption
<1>4. key \in Seq(NeedSet) /\ value \in Seq(NeedSet) /\ node \in Seq(NeedSet)
  BY <1>3, NeedType DEF Roles
<1>5. HasNode(node)
  BY <1>3 DEF HasNode, Need
<1> HIDE DEF key, value, node
<1>6. key \o value \in Seq(NeedSet)
  BY <1>4
<1>7. QED BY <1>1, <1>4, <1>5, <1>6, HasNodeConcat

LEMMA MoreNode ==
  ASSUME NEW o \in Ops, o.kind = "insert_or_assign"
  PROVE  HasNode(More(o, NoValue))
<1> DEFINE key   == Need(Size[o.key], "node")
           value == Need(Size[o.value], "value")
           node  == Need(NodeSize, "node")
<1>1. More(o, NoValue) = node \o key \o value
  BY DEF More
<1>2. o.key \in Keys /\ o.value \in Values
  BY DEF Ops, Kinds
<1>3. Size[o.key] \in Nat /\ Size[o.value] \in Nat /\ NodeSize \in Nat \ {0}
  BY <1>2, SizeAssumption
<1>4. key \in Seq(NeedSet) /\ value \in Seq(NeedSet) /\ node \in Seq(NeedSet)
  BY <1>3, NeedType DEF Roles
<1>5. HasNode(node)
  BY <1>3 DEF HasNode, Need
<1> HIDE DEF key, value, node
<1>6. node \o key \in Seq(NeedSet) /\ HasNode(node \o key)
  BY <1>4, <1>5, HasNodeConcat
<1>7. QED BY <1>1, <1>4, <1>6, HasNodeConcat

LEMMA OwnershipInit == Init => Ownership
<1> SUFFICES ASSUME Init PROVE Ownership
  OBVIOUS
<1>1. \A b \in blocks : \E m \in Maps : b.owner = OfMap(m)
  BY DEF Init, Block
<1>2. \A m \in Maps, k \in Keys : OwnedBy(OfNode(m, k)) = {}
  BY <1>1, NodesAreNodes DEF OwnedBy
<1>3. NodePerEntry
  BY <1>2 DEF Init, NodePerEntry, OwnedBy, Owned
<1>4. NodeIsComing
  BY DEF Init, NodeIsComing, Unfinished
<1>5. QED BY <1>3, <1>4 DEF Ownership

\* A step of p that leaves the entries, and the nodes of entries and what other
\* processes have allocated.
LEMMA OwnershipFrame ==
  ASSUME Ownership, NEW p \in Procs, UNCHANGED entry,
         \A m \in Maps, k \in Keys : Owned(OfNode(m, k))' <=> Owned(OfNode(m, k)),
         \A q \in Procs \ {p} : /\ pc'[q] = pc[q] /\ op'[q] = op[q] /\ todo'[q] = todo[q]
                                /\ found'[q] = found[q]
                                /\ Owned(Mine(q, "node")) => Owned(Mine(q, "node"))',
         Unfinished(p)' /\ MakesNode(op'[p], found'[p]) =>
           Owned(Mine(p, "node"))' \/ HasNode(todo'[p])
  PROVE  Ownership'
<1>1. NodePerEntry'
  BY DEF Ownership, NodePerEntry
<1>2. NodeIsComing'
  BY DEF Ownership, NodeIsComing, Unfinished
<1>3. QED BY <1>1, <1>2 DEF Ownership

LEMMA OwnershipLock ==
  ASSUME Control, Ownership, NEW p \in Procs, Lock(p)
  PROVE  Ownership'
<1>1. op[p] \in Ops /\ found[p] # NoValue
  BY NoneAssumption DEF Control, ControlTypes, InOperation, Lock
<1>2. \A w : Owned(w)' <=> Owned(w)
  BY DEF Owned, Lock
<1>3. MakesNode(op'[p], found'[p]) => HasNode(todo'[p])
  <2>1. todo'[p] = Copies(op[p]) /\ op' = op /\ found' = found
    BY DEF Lock, Control, ControlTypes
  <2>2. QED BY <1>1, <2>1, CopiesNode DEF MakesNode
<1>4. \A q \in Procs \ {p} : /\ pc'[q] = pc[q] /\ op'[q] = op[q] /\ todo'[q] = todo[q]
                               /\ found'[q] = found[q]
  BY DEF Lock, Control, ControlTypes
<1>5. UNCHANGED entry
  BY DEF Lock, trees
<1>6. QED BY <1>2, <1>3, <1>4, <1>5, OwnershipFrame

\* A step of an operation that leaves what it has, and has to allocate.
LEMMA OwnershipRead ==
  ASSUME Control, Ownership, NEW p \in Procs, ReadFree(p) \/ ReadFreeAgain(p) \/ Start(p)
  PROVE  Ownership'
<1>1. UNCHANGED <<entry, blocks, op, todo, found>> /\ Unfinished(p)
  BY DEF ReadFree, ReadFreeAgain, Start, Ready, trees, Unfinished
<1>2. \A w : Owned(w)' <=> Owned(w)
  BY <1>1 DEF Owned
<1>3. \A q \in Procs \ {p} : pc'[q] = pc[q]
  BY DEF ReadFree, ReadFreeAgain, Start, Control, ControlTypes
<1>4. MakesNode(op[p], found[p]) => Owned(Mine(p, "node"))' \/ HasNode(todo[p])
  BY <1>1, <1>2 DEF Ownership, NodeIsComing
<1>5. QED BY <1>1, <1>2, <1>3, <1>4, OwnershipFrame

LEMMA OwnershipSearch ==
  ASSUME Control, Ownership, NEW p \in Procs, Search(p)
  PROVE  Ownership'
<1>1. op[p] \in Ops /\ todo[p] = << >> /\ Unfinished(p)
  BY DEF Control, ControlTypes, InOperation, Search, Unfinished
<1>2. PICK v : found' = [found EXCEPT ![p] = v] /\ todo' = [todo EXCEPT ![p] = More(op[p], v)]
  BY DEF Search
<1>3. UNCHANGED <<entry, op, pc>> /\ \A w : Owned(w)' <=> Owned(w)
  BY DEF Owned, Search, trees
<1>4. MakesNode(op[p], v) => Owned(Mine(p, "node")) \/ HasNode(More(op[p], v))
  <2>1. CASE op[p].kind = "insert"
    <3>1. ~HasNode(todo[p])
      BY <1>1 DEF HasNode
    <3>2. QED BY <1>1, <2>1, <3>1 DEF Ownership, NodeIsComing, MakesNode
  <2>2. CASE op[p].kind = "insert_or_assign" /\ v = NoValue
    BY <1>1, <2>2, MoreNode
  <2>3. QED BY <2>1, <2>2 DEF MakesNode
<1>5. found'[p] = v /\ todo'[p] = More(op[p], v)
  BY <1>2 DEF Control, ControlTypes
<1>6. \A q \in Procs \ {p} : found'[q] = found[q] /\ todo'[q] = todo[q]
  BY <1>2 DEF Control, ControlTypes
<1>7. QED BY <1>3, <1>4, <1>5, <1>6, OwnershipFrame

LEMMA OwnershipWriteFree ==
  ASSUME Control, Ownership, NEW p \in Procs, WriteFree(p)
  PROVE  Ownership'
<1> DEFINE needs == todo[p]
           role  == Head(todo[p]).role
           made  == Block(Region(p), old[p], Head(todo[p]).size, Mine(p, role))
<1>1. needs \in Seq(NeedSet) /\ needs # << >>
  BY DEF WriteFree, Control, ControlTypes, InOperation
<1>2. /\ UNCHANGED <<entry, op, found>> /\ blocks' = blocks \cup {made} /\ made.owner = Mine(p, role)
      /\ todo'[p] = Tail(needs) /\ pc[p] = "write"
      /\ \A q \in Procs \ {p} : pc'[q] = pc[q] /\ todo'[q] = todo[q]
  BY DEF WriteFree, Control, ControlTypes, Block, trees
<1> HIDE DEF made, role
<1>3. \A w : Owned(w)' <=> Owned(w) \/ w = Mine(p, role)
  BY <1>2 DEF Owned
<1>4. \A m \in Maps, k \in Keys : Owned(OfNode(m, k))' <=> Owned(OfNode(m, k))
  BY <1>3, NodesAreNodes
<1>5. MakesNode(op[p], found[p]) => Owned(Mine(p, "node"))' \/ HasNode(todo'[p])
  <2>1. Unfinished(p)
    BY <1>2 DEF Unfinished
  <2>2. CASE Owned(Mine(p, "node"))
    BY <1>3, <2>2
  <2>3. CASE HasNode(needs)
    <3>1. PICK i \in 1..Len(needs) : needs[i].role = "node"
      BY <2>3 DEF HasNode
    <3>2. CASE i = 1
      <4>1. role = "node"
        BY <1>1, <3>1, <3>2, HeadTailProperties DEF role
      <4>2. QED BY <1>3, <4>1
    <3>3. CASE i # 1
      <4>1. /\ Len(Tail(needs)) = Len(needs) - 1 /\ Len(needs) \in Nat
            /\ \A j \in 1..Len(Tail(needs)) : Tail(needs)[j] = needs[j + 1]
        BY <1>1, HeadTailProperties
      <4>2. i - 1 \in 1..Len(Tail(needs)) /\ (i - 1) + 1 = i
        BY <3>3, <4>1
      <4>3. Tail(needs)[i - 1].role = "node"
        BY <3>1, <4>1, <4>2
      <4>4. HasNode(todo'[p])
        BY <1>2, <4>2, <4>3 DEF HasNode
      <4>5. QED BY <4>4
    <3>4. QED BY <3>2, <3>3
  <2>4. QED BY <2>1, <2>2, <2>3 DEF Ownership, NodeIsComing
<1>6. QED BY <1>2, <1>3, <1>4, <1>5, OwnershipFrame

\* Freeing a block that no entry owns, outside allocate.
LEMMA OwnershipFree ==
  ASSUME Control, Ownership, NEW p \in Procs, NEW b \in blocks, Deallocate(b),
         UNCHANGED <<entry, op, pc, todo, found>>,
         \/ ~Inside(p) /\ b.owner = Held(p)
         \/ pc[p] = "unwind" /\ \E role \in Roles : b.owner = Mine(p, role)
  PROVE  Ownership'
<1>1. \A w : w # b.owner => (Owned(w)' <=> Owned(w))
  BY DEF Owned, Deallocate
<1>2. \A m \in Maps, k \in Keys : OfNode(m, k) # b.owner
  BY NodesAreNodes
<1>3. \A q \in Procs \ {p} : Mine(q, "node") # b.owner
  BY WorkIsOnes, WorkIsNotHeld DEF Roles
<1>4. ~Unfinished(p)'
  BY DEF Inside, Unfinished
<1>5. QED BY <1>1, <1>2, <1>3, <1>4, OwnershipFrame

\* The operation takes the entry of k out of map m.
Takes(o, m, k) == m = o.map /\ (o.kind = "clear" \/ (Removes(o) /\ k = o.key))

\* Which blocks are the node of an entry after the call on the std::map.
LEMMA NodesAfter ==
  ASSUME NEW p \in Procs, NEW o \in Ops, NEW v, NEW w, NEW m \in Maps, NEW k \in Keys
  PROVE  NewOwner(p, o, v, w) = OfNode(m, k) <=>
           \/ Stores(o, v) /\ w = Mine(p, "node") /\ m = o.map /\ k = o.key
           \/ w = OfNode(m, k) /\ ~Takes(o, m, k)
<1> DEFINE node == OfNode(o.map, o.key)
           value == OfValue(o.map, o.key)
<1>1. /\ \A n, j : OfNode(m, k) = OfNode(n, j) <=> m = n /\ k = j
      /\ OfNode(m, k) # value /\ OfNode(m, k) # Held(p) /\ OfNode(m, k) # Mine(p, "temp")
      /\ \A j : OfNode(m, k) # OfValue(o.map, j)
      /\ OfNode(m, k) # Mine(p, "node") /\ OfNode(m, k) # Mine(p, "value")
  BY NodesAreNodes
<1>2. Mine(p, "node") # Mine(p, "value") /\ Mine(p, "node") # value /\ Mine(p, "node") # node
  BY WorkIsOnes, WorkIsNotValue, NodesAreNodes
<1>3. o.key \in Keys /\ o.map \in Maps
  BY DEF Ops
<1> USE DEF Takes, Stores, Removes
<1>4. CASE o.kind \in {"insert", "insert_or_assign"}
  <2>1. CASE Stores(o, v) /\ w = Mine(p, "node")
    <3>1. NewOwner(p, o, v, w) = node
      BY <1>2, <1>4, <2>1 DEF NewOwner
    <3>2. QED BY <1>1, <1>4, <2>1, <3>1
  <2>2. CASE ~(Stores(o, v) /\ w = Mine(p, "node"))
    <3>1. NewOwner(p, o, v, w) = w \/ NewOwner(p, o, v, w) \in {value, Mine(p, "temp")}
      BY <1>4, <2>2 DEF NewOwner
    <3>2. w = OfNode(m, k) => NewOwner(p, o, v, w) = w
      BY <1>1, <1>4, <2>2 DEF NewOwner
    <3>3. QED BY <1>1, <1>4, <2>2, <3>1, <3>2
  <2>3. QED BY <2>1, <2>2
<1>5. CASE o.kind \in {"erase", "extract"}
  <2>1. NewOwner(p, o, v, w) = w \/ NewOwner(p, o, v, w) \in {Held(p), Mine(p, "temp")}
    BY <1>5 DEF NewOwner
  <2>2. w = node => NewOwner(p, o, v, w) \in {Held(p), Mine(p, "temp")}
    BY <1>5 DEF NewOwner
  <2>3. w \notin {node, value} => NewOwner(p, o, v, w) = w
    BY <1>5 DEF NewOwner
  <2>4. QED BY <1>1, <1>5, <2>1, <2>2, <2>3
<1>6. CASE o.kind = "clear"
  <2>1. NewOwner(p, o, v, w) = IF \E j \in Keys : w \in {OfNode(o.map, j), OfValue(o.map, j)}
                            THEN Mine(p, "temp") ELSE w
    BY <1>6 DEF NewOwner
  <2>2. QED BY <1>1, <1>6, <2>1
<1>7. CASE o.kind \in {"at", "own", "contains"}
  <2>1. NewOwner(p, o, v, w) = w \/ NewOwner(p, o, v, w) = Held(p)
    BY <1>7 DEF NewOwner
  <2>2. w = OfNode(m, k) => NewOwner(p, o, v, w) = w
    BY <1>1, <1>7 DEF NewOwner
  <2>3. QED BY <1>1, <1>7, <2>1, <2>2
<1>8. QED BY <1>4, <1>5, <1>6, <1>7 DEF Ops, Kinds

\* What another process has allocated stays its own.
LEMMA OthersWorkAfter ==
  ASSUME NEW p \in Procs, NEW q \in Procs, p # q, NEW o \in Ops, NEW v
  PROVE  NewOwner(p, o, v, Mine(q, "node")) = Mine(q, "node")
<1>1. Mine(q, "node") # Mine(p, "node") /\ Mine(q, "node") # Mine(p, "value")
  BY WorkIsOnes
<1>2. \A n, j : Mine(q, "node") # OfNode(n, j) /\ Mine(q, "node") # OfValue(n, j)
  BY NodesAreNodes, WorkIsNotValue
<1>3. QED BY <1>1, <1>2 DEF NewOwner

\* What a call on the std::map does to one entry.
LEMMA EntryAfter ==
  ASSUME Control, Trees, NEW p \in Procs, Answer(p) \/ Finish(p),
         NEW m \in Maps, NEW k \in Keys
  PROVE  entry'[m][k] = IF Takes(op[p], m, k) THEN NoValue
                        ELSE IF Stores(op[p], found[p]) /\ m = op[p].map /\ k = op[p].key
                             THEN op[p].value ELSE entry[m][k]
<1> DEFINE o == op[p]
           v == found[p]
<1>1. o \in Ops /\ o.map \in Maps /\ o.key \in Keys
  BY DEF Control, ControlTypes, InOperation, Answer, Ready, Finish, Ops
<1>2. CASE Answer(p)
  <2>1. entry' = entry /\ ~Stores(o, v) /\ (Removes(o) => v = NoValue) /\ o.kind # "clear"
    BY <1>2 DEF Answer, trees, Changes
  <2>2. o.kind # "clear" => v = entry[o.map][o.key]
    BY <1>2 DEF Answer, Ready, Looked, Trees, FoundIsThere
  <2>3. QED BY <2>1, <2>2 DEF Takes
<1>3. CASE Finish(p)
  <2>1. Changes(o, v) /\ entry' = [entry EXCEPT ![o.map] = NewEntries(o)]
    BY <1>3 DEF Finish, Control, InOperation
  <2>2. entry'[m][k] = IF m = o.map THEN NewEntries(o)[k] ELSE entry[m][k]
    BY <1>1, <2>1 DEF Control, ControlTypes
  <2>3. CASE Takes(o, m, k)
    BY <2>2, <2>3 DEF Takes, NewEntries
  <2>4. CASE ~Takes(o, m, k) /\ m = o.map
    BY <2>1, <2>2, <2>4 DEF Takes, NewEntries, Changes, Stores, Removes
  <2>5. CASE m # o.map
    BY <2>2, <2>5 DEF Takes
  <2>6. QED BY <2>3, <2>4, <2>5
<1>4. QED BY <1>2, <1>3

LEMMA OwnershipSettle ==
  ASSUME Control, Trees, Memory, Ownership, NEW p \in Procs, Answer(p) \/ Finish(p)
  PROVE  Ownership'
<1> DEFINE o == op[p]
           v == found[p]
<1>1. o \in Ops /\ o.map \in Maps /\ o.key \in Keys /\ Unfinished(p) /\ todo[p] = << >>
      /\ Settle(p)
  BY DEF Control, ControlTypes, InOperation, Answer, Ready, Finish, Ops, Unfinished
<1>2. \A w : Owned(w)' <=> \E b \in blocks : NewOwner(p, o, v, b.owner) = w
  <2>1. \A b \in blocks : [b EXCEPT !.owner = NewOwner(p, o, v, b.owner)].owner
                             = NewOwner(p, o, v, b.owner)
    BY DEF Memory, MemoryTypes, BlockSet
  <2>2. blocks' = {[b EXCEPT !.owner = NewOwner(p, o, v, b.owner)] : b \in blocks}
    BY <1>1 DEF Settle
  <2>3. QED BY <2>1, <2>2 DEF Owned
<1>3. Stores(o, v) => Owned(Mine(p, "node")) \/ entry[o.map][o.key] # NoValue
  <2>1. ~HasNode(todo[p])
    BY <1>1 DEF HasNode
  <2>2. MakesNode(o, v) => Owned(Mine(p, "node"))
    BY <1>1, <2>1 DEF Ownership, NodeIsComing
  <2>3. Stores(o, v) => v = entry[o.map][o.key]
    <3>1. Stores(o, v) => v # "none"
      BY DEF Answer, Finish, Ready, Control, InOperation, Looked, Stores
    <3>2. QED BY <1>1, <3>1 DEF Trees, FoundIsThere, Unfinished
  <2>4. QED BY <2>2, <2>3 DEF Stores, MakesNode
<1>4. Stores(o, v) => o.value # NoValue /\ ~Removes(o) /\ o.kind # "clear"
  BY <1>1, NoneAssumption DEF Stores, Removes, Ops, Kinds
<1>5. \A m \in Maps, k \in Keys :
        entry'[m][k] = IF Takes(o, m, k) THEN NoValue
                       ELSE IF Stores(o, v) /\ m = o.map /\ k = o.key
                            THEN o.value ELSE entry[m][k]
  BY EntryAfter
<1> HIDE DEF o, v
<1>6. NodePerEntry'
  <2> SUFFICES ASSUME NEW m \in Maps, NEW k \in Keys
               PROVE  entry'[m][k] # NoValue <=> Owned(OfNode(m, k))'
    BY DEF NodePerEntry
  <2>1. entry[m][k] # NoValue <=> Owned(OfNode(m, k))
    BY DEF Ownership, NodePerEntry
  <2>2. Owned(OfNode(m, k))' <=>
          \/ Stores(o, v) /\ Owned(Mine(p, "node")) /\ m = o.map /\ k = o.key
          \/ Owned(OfNode(m, k)) /\ ~Takes(o, m, k)
    <3>1. \A w : NewOwner(p, o, v, w) = OfNode(m, k) <=>
                   \/ Stores(o, v) /\ w = Mine(p, "node") /\ m = o.map /\ k = o.key
                   \/ w = OfNode(m, k) /\ ~Takes(o, m, k)
      BY <1>1, NodesAfter
    <3>2. QED BY <1>2, <3>1 DEF Owned
  <2>3. CASE Takes(o, m, k)
    BY <1>4, <1>5, <2>2, <2>3 DEF Takes
  <2>4. CASE ~Takes(o, m, k) /\ Stores(o, v) /\ m = o.map /\ k = o.key
    BY <1>3, <1>4, <1>5, <2>1, <2>2, <2>4
  <2>5. CASE ~Takes(o, m, k) /\ ~(Stores(o, v) /\ m = o.map /\ k = o.key)
    BY <1>5, <2>1, <2>2, <2>5
  <2>6. QED BY <2>3, <2>4, <2>5
<1>7. NodeIsComing'
  <2> SUFFICES ASSUME NEW q \in Procs, Unfinished(q)', MakesNode(op'[q], found'[q])
               PROVE  Owned(Mine(q, "node"))' \/ HasNode(todo'[q])
    BY DEF NodeIsComing
  <2>1. q # p /\ Unfinished(q) /\ op' = op /\ todo' = todo /\ found' = found
    BY <1>1 DEF Settle, Control, ControlTypes, Unfinished
  <2>2. Owned(Mine(q, "node")) \/ HasNode(todo[q])
    BY <2>1 DEF Ownership, NodeIsComing
  <2>3. Owned(Mine(q, "node")) => Owned(Mine(q, "node"))'
    BY <1>1, <1>2, <2>1, OthersWorkAfter, SMTT(60) DEF Owned
  <2>4. QED BY <2>1, <2>2, <2>3
<1>8. QED BY <1>6, <1>7 DEF Ownership

\* A step that changes no entry and no block, and leaves p outside allocate.
LEMMA OwnershipSkip ==
  ASSUME Ownership, NEW p \in Procs, UNCHANGED <<trees, blocks>>, ~Unfinished(p)',
         \A q \in Procs \ {p} : /\ pc'[q] = pc[q] /\ op'[q] = op[q] /\ todo'[q] = todo[q]
                                /\ found'[q] = found[q]
  PROVE  Ownership'
<1>1. \A w : Owned(w)' <=> Owned(w)
  BY DEF Owned
<1>2. QED BY <1>1, OwnershipFrame DEF trees

LEMMA OwnershipStep ==
  ASSUME Control, Trees, Memory, Ownership, [Next]_vars
  PROVE  Ownership'
<1>1. ASSUME UNCHANGED <<trees, blocks, pc, op, todo, found>> PROVE Ownership'
  BY <1>1 DEF Ownership, NodePerEntry, NodeIsComing, Unfinished, Owned, trees
<1>2. CASE UNCHANGED vars
  BY <1>1, <1>2 DEF vars, trees
<1>3. ASSUME NEW p \in Procs, Step(p) PROVE Ownership'
  <2>1. CASE \E o \in Offered : Call(p, o)
    BY <2>1, OwnershipSkip DEF Call, Unfinished, Control, ControlTypes
  <2>2. CASE Lock(p)
    BY <2>2, OwnershipLock
  <2>3. CASE LockFails(p)
    BY <2>3, OwnershipSkip DEF LockFails, Unfinished, Control, ControlTypes
  <2>4. CASE ReadFree(p) \/ ReadFreeAgain(p) \/ Start(p)
    BY <2>4, OwnershipRead
  <2>5. CASE BadAlloc(p)
    BY <2>5, OwnershipSkip DEF BadAlloc, Unfinished, Control, ControlTypes
  <2>6. CASE WriteFree(p)
    BY <2>6, OwnershipWriteFree
  <2>7. CASE Answer(p) \/ Finish(p)
    BY <2>7, OwnershipSettle
  <2>8. CASE Destroy(p)
    <3>1. PICK b \in blocks : Deallocate(b) /\ \E role \in Roles : b.owner = Mine(p, role)
      BY <2>8 DEF Destroy, Working
    <3>2. QED BY <2>8, <3>1, OwnershipFree DEF Destroy, trees
  <2>9. CASE Unlock(p)
    BY <2>9, OwnershipSkip DEF Unlock, Unfinished, Control, ControlTypes
  <2>10. CASE Drop(p)
    <3>1. PICK b \in blocks : Deallocate(b) /\ b.owner = Held(p)
      BY <2>10 DEF Drop, OwnedBy
    <3>2. QED BY <2>10, <3>1, OwnershipFree DEF Drop, trees
  <2>11. CASE Die(p)
    BY <1>1, <2>11 DEF Die
  <2>12. CASE Search(p)
    BY <2>12, OwnershipSearch
  <2>13. QED BY <1>3, <2>1, <2>2, <2>3, <2>4, <2>5, <2>6, <2>7, <2>8, <2>9, <2>10, <2>11,
                <2>12 DEF Step, Work
<1>4. QED BY <1>2, <1>3 DEF Next

\* The memory of the maps is consistent, whatever fails or dies on the way: an entry
\* is in a map exactly if the map owns its node, a half changed tree is locked, and
\* no two live blocks share memory until operations of two maps on one allocator
\* allocate at once (map.h over linear_allocator.h).
THEOREM MemoryIsConsistent == Spec => []BlocksConsistent
<1>1. Control /\ Trees /\ Memory /\ Ownership /\ [Next]_vars => Ownership'
  BY OwnershipStep
<1>2. Control /\ Trees /\ Memory /\ Ownership => BlocksConsistent
  <2> SUFFICES ASSUME Control, Trees, Memory, Ownership PROVE BlocksConsistent
    OBVIOUS
  <2>1. EntriesHaveNodes
    BY DEF Ownership, NodePerEntry, EntriesHaveNodes, OwnedBy, Owned
  <2>2. TornIsLocked
    <3>1. \A m \in torn : m \in Maps /\ \E p \in Procs : pc[p] = "change" /\ op[p].map = m
      BY DEF Trees, TornByOne, Control, ControlTypes
    <3>2. QED BY <3>1 DEF Control, SemaphoreMatches, Inside, TornIsLocked
  <2>3. QED BY <2>1, <2>2 DEF Memory, BlocksConsistent
<1>3. QED BY <1>1, <1>2, OwnershipInit, ControlAlways, TreesAlways, MemoryAlways, PTL DEF Spec
=============================================================================
