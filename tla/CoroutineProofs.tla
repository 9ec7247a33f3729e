--------------------------- MODULE CoroutineProofs ---------------------------
(***************************************************************************)
(* Proofs about Coroutine for every set of ids, nodes, functions and       *)
(* exceptions and every argument of set_freelist_max_size.                 *)
(***************************************************************************)
EXTENDS Coroutine, SequenceTheorems, TLAPS

(***************************************************************************)
(* The operations of the ordinator preserve what Ordinator asks of it.     *)
(***************************************************************************)
Sound(o) == o \in OrdinatorType /\ Disjoint(o) /\ WithinCap(o)

\* create in an unowned node.
LEMMA EmplacedSound ==
  ASSUME NEW o, Sound(o), NEW id \in Ids, NEW f \in Functions \cup {NoFunc},
         NEW n \in Unowned(o)
  PROVE  Sound(Emplaced(o, id, f, n))
<1> DEFINE p == Emplaced(o, id, f, n)
<1>1. p \in OrdinatorType
  BY DEF Sound, OrdinatorType, Emplaced, NewRoutine, Routine, Unowned
<1>2. p.finished = o.finished /\ p.freelist_max_size = o.freelist_max_size
      /\ p.routines = [o.routines EXCEPT ![id] = n]
  BY DEF Sound, OrdinatorType, Emplaced
<1>3. Disjoint(p)
  BY <1>2, NodesAssumption DEF Sound, OrdinatorType, Disjoint, Active, Unowned
<1>4. WithinCap(p)
  BY <1>2 DEF Sound, WithinCap
<1>5. QED BY <1>1, <1>3, <1>4 DEF Sound

\* create in the last free node.
LEMMA ReusedSound ==
  ASSUME NEW o, Sound(o), NEW id \in Ids, NEW f \in Functions \cup {NoFunc},
         o.finished # << >>, o.finished[Len(o.finished)] # NoNode
  PROVE  Sound(Reused(o, id, f))
<1> DEFINE p == Reused(o, id, f)
           s == o.finished
           n == s[Len(s)]
<1>1. s \in Seq(Nodes \cup {NoNode}) /\ Len(s) \in Nat \ {0} /\ n \in Nodes
      /\ o.freelist_max_size \in Int
  BY EmptySeq, ElementOfSeq DEF Sound, OrdinatorType
<1>2. /\ p.finished = SubSeq(s, 1, Len(s) - 1)
      /\ p.freelist_max_size = o.freelist_max_size
      /\ p.routines = [o.routines EXCEPT ![id] = IF @ = NoNode THEN n ELSE @]
      /\ p.mem = [o.mem EXCEPT ![n] = Reset(@, f)]
      /\ p.current = o.current
  BY <1>1 DEF Sound, OrdinatorType, Reused
<1>3. /\ p.finished \in Seq(Nodes \cup {NoNode})
      /\ Len(p.finished) = Len(s) - 1
      /\ \A i \in 1..Len(p.finished) : p.finished[i] = s[i]
  <2>1. \A i \in 1..(Len(s) - 1) : s[i] \in Nodes \cup {NoNode}
    BY <1>1, ElementOfSeq
  <2>2. /\ SubSeq(s, 1, Len(s) - 1) \in Seq(Nodes \cup {NoNode})
        /\ Len(SubSeq(s, 1, Len(s) - 1)) = IF 1 <= Len(s) - 1 THEN Len(s) - 1 - 1 + 1 ELSE 0
        /\ \A i \in 1..(Len(s) - 1 - 1 + 1) : SubSeq(s, 1, Len(s) - 1)[i] = s[1 + i - 1]
    BY <1>1, <2>1, SubSeqProperties
  <2>3. QED BY <1>1, <1>2, <2>2
<1>4. p \in OrdinatorType
  <2>1. p.mem \in [Nodes -> Routine]
    <3>1. o.mem \in [Nodes -> Routine] /\ o.mem[n] \in Routine
      BY <1>1 DEF Sound, OrdinatorType
    <3>2. Reset(o.mem[n], f) \in Routine
      BY <3>1 DEF Reset, Routine
    <3>3. QED BY <1>1, <1>2, <3>1, <3>2
  <2>2. p.routines \in [Ids -> Nodes \cup {NoNode}]
    BY <1>1, <1>2 DEF Sound, OrdinatorType
  <2>3. QED BY <1>1, <1>2, <1>3, <2>1, <2>2 DEF Sound, OrdinatorType, Reused
<1>5. Disjoint(p)
  <2> HIDE DEF p
  <2>1. ASSUME NEW i \in Ids, NEW j \in Ids, Active(p, i), p.routines[i] = p.routines[j]
        PROVE  i = j
    <3>1. \A k \in Ids : o.routines[k] # n
      BY <1>1, NodesAssumption DEF Sound, Disjoint
    <3>2. \A k \in Ids : p.routines[k] = o.routines[k]
                        \/ (k = id /\ o.routines[k] = NoNode /\ p.routines[k] = n)
      BY <1>2 DEF Sound, OrdinatorType
    <3>3. QED BY <2>1, <3>1, <3>2 DEF Sound, Disjoint, Active
  <2>2. ASSUME NEW i \in 1..Len(p.finished), NEW k \in Ids, p.finished[i] # NoNode
        PROVE  p.routines[k] # p.finished[i]
    <3>1. i \in 1..(Len(s) - 1) /\ i # Len(s) /\ p.finished[i] = s[i] /\ s[i] # NoNode
      BY <2>2, <1>1, <1>3
    <3>2. o.routines[k] # s[i] /\ s[i] # n
      BY <3>1, <1>1 DEF Sound, Disjoint
    <3>3. p.routines[k] = o.routines[k] \/ p.routines[k] = n
      BY <1>2 DEF Sound, OrdinatorType
    <3>4. QED BY <3>1, <3>2, <3>3
  <2>3. ASSUME NEW i \in 1..Len(p.finished), NEW j \in 1..Len(p.finished),
               p.finished[i] # NoNode, p.finished[i] = p.finished[j]
        PROVE  i = j
    BY <2>3, <1>1, <1>3, SMTT(30) DEF Sound, Disjoint
  <2>4. QED BY <2>1, <2>2, <2>3 DEF Disjoint
<1>6. WithinCap(p)
  BY <1>1, <1>2, <1>3 DEF Sound, WithinCap
<1>7. QED BY <1>4, <1>5, <1>6 DEF Sound

\* A step that leaves the map, the free list and its cap alone.
LEMMA SameOwnersSound ==
  ASSUME NEW o, Sound(o), NEW p \in OrdinatorType,
         p.routines = o.routines, p.finished = o.finished,
         p.freelist_max_size = o.freelist_max_size
  PROVE  Sound(p)
BY DEF Sound, Disjoint, WithinCap, Active

\* The tail of resume: the node moves from the map to the free list, or is freed.
LEMMA CollectedSound ==
  ASSUME NEW o, Sound(o), NEW id \in Ids, Active(o, id)
  PROVE  Sound(Collected(o, id))
<1> DEFINE p == Collected(o, id)
           s == o.finished
           n == o.routines[id]
<1>1. s \in Seq(Nodes \cup {NoNode}) /\ Len(s) \in Nat /\ n \in Nodes
      /\ o.freelist_max_size \in Int
  BY LenProperties DEF Sound, OrdinatorType, Active
<1>2. /\ p.finished = IF HasRoom(o) THEN Append(s, n) ELSE s
      /\ p.freelist_max_size = o.freelist_max_size
      /\ p.routines = [o.routines EXCEPT ![id] = NoNode]
      /\ p.mem = o.mem /\ p.current = o.current
  BY <1>1 DEF Sound, OrdinatorType, Collected
<1>3. p \in OrdinatorType
  <2>1. p.finished \in Seq(Nodes \cup {NoNode})
    BY <1>1, <1>2, AppendProperties
  <2>2. QED BY <1>1, <1>2, <2>1 DEF Sound, OrdinatorType, Collected
<1> HIDE DEF p
<1>4. \A k \in Ids : p.routines[k] = o.routines[k] \/ p.routines[k] = NoNode
  BY <1>2 DEF Sound, OrdinatorType
<1>5. CASE ~HasRoom(o)
  <2>1. p.finished = s BY <1>2, <1>5
  <2>2. ASSUME NEW i \in Ids, NEW j \in Ids, Active(p, i), p.routines[i] = p.routines[j]
        PROVE  i = j
    BY <1>4, <2>2 DEF Sound, Disjoint, Active
  <2>3. ASSUME NEW i \in 1..Len(s), NEW k \in Ids, s[i] # NoNode
        PROVE  p.routines[k] # s[i]
    BY <1>4, <2>3 DEF Sound, Disjoint
  <2>4. Disjoint(p)
    BY <2>1, <2>2, <2>3 DEF Sound, Disjoint
  <2>5. QED BY <1>2, <1>3, <2>1, <2>4 DEF Sound, WithinCap, p
<1>6. CASE HasRoom(o)
  <2>1. p.finished = Append(s, n) BY <1>2, <1>6
  <2>2. /\ Len(p.finished) = Len(s) + 1
        /\ \A i \in 1..Len(s) : p.finished[i] = s[i]
        /\ p.finished[Len(s) + 1] = n
    BY <1>1, <2>1, AppendProperties
  <2>3. \A i \in 1..Len(p.finished) : i \in 1..Len(s) \/ i = Len(s) + 1
    BY <1>1, <2>2
  <2>4. \A i \in 1..Len(s) : s[i] # n
    BY <1>1, NodesAssumption DEF Sound, Disjoint
  <2>5. ASSUME NEW i \in Ids, NEW j \in Ids, Active(p, i), p.routines[i] = p.routines[j]
        PROVE  i = j
    BY <2>5, <1>4 DEF Sound, Disjoint, Active
  <2>6. ASSUME NEW i \in 1..Len(p.finished), NEW k \in Ids, p.finished[i] # NoNode
        PROVE  p.routines[k] # p.finished[i]
    <3>1. CASE i \in 1..Len(s)
      BY <2>6, <3>1, <1>4, <2>2 DEF Sound, Disjoint
    <3>2. CASE i = Len(s) + 1
      <4>1. p.finished[i] = n BY <3>2, <2>2
      <4>2. CASE k = id
        BY <4>1, <4>2, <1>1, <1>2, NodesAssumption DEF Sound, OrdinatorType
      <4>3. CASE k # id
        <5>1. p.routines[k] = o.routines[k]
          BY <4>3, <1>2 DEF Sound, OrdinatorType
        <5>2. o.routines[id] # o.routines[k]
          BY <4>3 DEF Sound, Disjoint
        <5>3. QED BY <4>1, <5>1, <5>2
      <4>4. QED BY <4>2, <4>3
    <3>3. QED BY <2>3, <3>1, <3>2
  <2>7. ASSUME NEW i \in 1..Len(p.finished), NEW j \in 1..Len(p.finished),
               p.finished[i] # NoNode, p.finished[i] = p.finished[j]
        PROVE  i = j
    BY <2>7, <2>2, <2>3, <2>4 DEF Sound, Disjoint
  <2>8. Disjoint(p) BY <2>5, <2>6, <2>7 DEF Disjoint
  <2>9. WithinCap(p)
    BY <1>1, <1>2, <1>6, <2>2 DEF HasRoom, WithinCap
  <2>10. QED BY <1>3, <2>8, <2>9 DEF Sound, p
<1>7. QED BY <1>5, <1>6

\* set_freelist_max_size: cutting forgets nodes, padding adds only empty handles.
LEMMA LimitedSound ==
  ASSUME NEW o, Sound(o), NEW size \in Int
  PROVE  Sound(Limited(o, size))
<1> DEFINE p == Limited(o, size)
           s == o.finished
<1>1. s \in Seq(Nodes \cup {NoNode}) /\ Len(s) \in Nat
  BY LenProperties DEF Sound, OrdinatorType
<1>2. /\ p.finished = IF size >= 0 THEN Resized(s, size) ELSE s
      /\ p.freelist_max_size = size
      /\ p.routines = o.routines /\ p.mem = o.mem /\ p.current = o.current
  BY DEF Sound, OrdinatorType, Limited
<1>3. CASE size < 0
  <2>1. p.finished = s BY <1>2, <1>3
  <2>2. p \in OrdinatorType BY <1>2, <2>1 DEF Sound, OrdinatorType, Limited
  <2>3. QED BY <1>2, <1>3, <2>1, <2>2 DEF Sound, Disjoint, Active, WithinCap
<1>4. CASE size >= 0
  <2>1. p.finished = Resized(s, size) BY <1>2, <1>4
  <2>2. /\ Len(p.finished) = size
        /\ \A i \in 1..size : p.finished[i] = IF i <= Len(s) THEN s[i] ELSE NoNode
        /\ p.finished \in Seq(Nodes \cup {NoNode})
    <3>1. Resized(s, size) \in [1..size -> Nodes \cup {NoNode}]
      BY <1>1, <1>4, ElementOfSeq DEF Resized
    <3>2. QED BY <1>4, <2>1, <3>1, SeqDef, LenProperties DEF Resized
  <2>3. p \in OrdinatorType BY <1>2, <2>2 DEF Sound, OrdinatorType, Limited
  <2>4. Disjoint(p)
    <3> HIDE DEF p
    <3>1. ASSUME NEW i \in 1..Len(p.finished), p.finished[i] # NoNode
          PROVE  i \in 1..Len(s) /\ p.finished[i] = s[i]
      BY <3>1, <1>1, <1>4, <2>2
    <3>2. QED BY <1>2, <3>1 DEF Sound, Disjoint, Active
  <2>5. QED BY <1>2, <2>2, <2>3, <2>4 DEF Sound, WithinCap
<1>5. QED BY <1>3, <1>4

(***************************************************************************)
(* The inductive invariant.  The three parts about flags and places need   *)
(* each other: a reused or emplaced node is not finished, a routine is     *)
(* switched to only if it is not, and only the running one can finish.     *)
(***************************************************************************)
IInv == TypeOK /\ StacksDisjoint /\ FreelistBounded /\ NoFinishedActive /\ RunningInMap

LEMMA InitIInv == Init => IInv
<1> SUFFICES ASSUME Init PROVE IInv OBVIOUS
<1>1. ordinator = EmptyOrdinator([n \in Nodes |-> NewRoutine(NoFunc)])
      /\ pc = "main" /\ call = NoCall /\ outcome = "none"
  BY DEF Init
<1>2. [n \in Nodes |-> NewRoutine(NoFunc)] \in [Nodes -> Routine]
  BY DEF NewRoutine, Routine
<1>3. << >> \in Seq(Nodes \cup {NoNode}) /\ Len(<< >>) = 0
  BY EmptySeq
<1>4. ordinator \in OrdinatorType
  BY <1>1, <1>2, <1>3 DEF EmptyOrdinator, OrdinatorType
<1>5. TypeOK
  BY <1>1, <1>4 DEF TypeOK, Places, Calls, NoCall
<1>6. StacksDisjoint /\ FreelistBounded
  BY <1>1, <1>3 DEF StacksDisjoint, Disjoint, FreelistBounded, WithinCap, EmptyOrdinator, Active
<1>7. NoFinishedActive /\ RunningInMap
  BY <1>1 DEF NoFinishedActive, RunningInMap, EmptyOrdinator, Active
<1>8. QED BY <1>5, <1>6, <1>7 DEF IInv

\* kill's write of the exception touches no flag and no owner.
LEMMA KilledKeeps ==
  ASSUME TypeOK, NEW id \in Ids, Active(ordinator, id), NEW e \in Exceptions \cup {NoExc}
  PROVE  LET p == Killed(ordinator, id, e) IN
         /\ p \in OrdinatorType
         /\ p.routines = ordinator.routines /\ p.finished = ordinator.finished
         /\ p.freelist_max_size = ordinator.freelist_max_size
         /\ p.current = ordinator.current
         /\ \A n \in Nodes : p.mem[n].finished = ordinator.mem[n].finished
<1> DEFINE n == ordinator.routines[id]
           r == [ordinator.mem[n] EXCEPT !.exception = e]
<1>1. n \in Nodes /\ ordinator.mem \in [Nodes -> Routine] /\ ordinator.mem[n] \in Routine
  BY DEF TypeOK, OrdinatorType, Active
<1>2. r \in Routine /\ r.finished = ordinator.mem[n].finished
  BY <1>1 DEF Routine
<1>3. Killed(ordinator, id, e) = [ordinator EXCEPT !.mem = [ordinator.mem EXCEPT ![n] = r]]
  BY <1>1 DEF Killed, TypeOK, OrdinatorType
<1>4. [ordinator.mem EXCEPT ![n] = r] \in [Nodes -> Routine]
  BY <1>1, <1>2
<1> HIDE DEF r, n
<1>5. QED BY <1>1, <1>2, <1>3, <1>4 DEF TypeOK, OrdinatorType

\* The steps of the main context.
LEMMA CallerStepIInv ==
  ASSUME IInv, CallerStep PROVE IInv'
<1> USE DEF IInv
<1>0. Sound(ordinator)
  BY DEF Sound, TypeOK, StacksDisjoint, FreelistBounded
<1>1. ASSUME NEW id \in Ids, NEW f \in Functions \cup {NoFunc}, Create(id, f)
      PROVE  IInv'
  <2>1. pc = "main" /\ pc' = pc /\ call' = call /\ outcome' = "id"
        /\ ordinator' \in Creations(ordinator, id, f)
    BY <1>1 DEF Create
  <2>2. CASE UNCHANGED ordinator
    BY <2>1, <2>2 DEF TypeOK, StacksDisjoint, Disjoint, FreelistBounded, WithinCap, NoFinishedActive,
       RunningInMap, Active, RoutineOf, Self, Places
  <2>3. ASSUME NEW n \in Unowned(ordinator), ordinator' = Emplaced(ordinator, id, f, n)
        PROVE  IInv'
    <3>1. Sound(ordinator')
      BY <1>0, <2>3, EmplacedSound
    <3>2. /\ ordinator'.routines = [ordinator.routines EXCEPT ![id] = n]
          /\ ordinator'.mem = [ordinator.mem EXCEPT ![n] = NewRoutine(f)]
          /\ ordinator'.current = ordinator.current
      BY <2>3, <1>0 DEF Emplaced, Sound, OrdinatorType
    <3>3. NoFinishedActive'
      BY <1>0, <2>1, <3>2, <2>3 DEF NoFinishedActive, Active, RoutineOf, NewRoutine, Sound, OrdinatorType, Unowned
    <3>4. QED
      BY <3>1, <2>1, <3>2, <3>3 DEF Sound, TypeOK, StacksDisjoint, FreelistBounded, RunningInMap
  <2>4. CASE ordinator.finished # << >> /\ ordinator' = Reused(ordinator, id, f)
    <3> DEFINE n == LastFree
    <3>1. ordinator.finished # << >> /\ LastFree # NoNode /\ ordinator' = Reused(ordinator, id, f)
      BY <1>1, <2>4 DEF Create, FreeNodeIsEmpty
    <3>2. Sound(ordinator')
      BY <1>0, <3>1, ReusedSound DEF LastFree
    <3>3. n \in Nodes /\ Len(ordinator.finished) \in 1..Len(ordinator.finished)
      BY <1>0, <3>1, EmptySeq, ElementOfSeq, LenProperties DEF LastFree, Sound, OrdinatorType
    <3>4. /\ ordinator'.routines = [ordinator.routines EXCEPT ![id] = IF @ = NoNode THEN n ELSE @]
          /\ ordinator'.mem = [ordinator.mem EXCEPT ![n] = Reset(@, f)]
          /\ ordinator'.current = ordinator.current
      BY <1>0, <3>1 DEF Reused, LastFree, Sound, OrdinatorType
    <3>5. \A i \in Ids : ordinator.routines[i] # n
      BY <1>0, <3>1, <3>3 DEF Sound, Disjoint, LastFree
    <3>6. ordinator.mem[n] \in Routine
      BY <1>0, <3>3 DEF Sound, OrdinatorType
    <3>7. Reset(ordinator.mem[n], f).finished = FALSE
      BY <3>6 DEF Reset, Routine
    <3> HIDE DEF n
    <3>8. NoFinishedActive'
      BY <1>0, <2>1, <3>3, <3>4, <3>5, <3>7 DEF NoFinishedActive, Active, RoutineOf, Sound, OrdinatorType
    <3>9. QED
      BY <2>1, <3>2, <3>4, <3>8 DEF Sound, TypeOK, StacksDisjoint, FreelistBounded, RunningInMap
  <2>5. QED BY <2>1, <2>2, <2>3, <2>4 DEF Creations
<1>2. CASE CreateFromEmptyNode
  BY <1>2 DEF CreateFromEmptyNode, FreeNodeIsEmpty, TypeOK, StacksDisjoint, Disjoint, FreelistBounded, WithinCap, NoFinishedActive,
     RunningInMap, Active, RoutineOf, Self, Places
<1>3. ASSUME NEW id \in Ids, ResumeRefused(id) PROVE IInv'
  BY <1>3 DEF ResumeRefused, ResumeRefusal, TypeOK, StacksDisjoint, Disjoint, FreelistBounded, WithinCap,
     NoFinishedActive, RunningInMap, Active, RoutineOf, Self, Statuses, Errors
<1>4. ASSUME NEW id \in Ids, NEW e \in Exceptions \cup {NoExc}, KillRefused(id, e) PROVE IInv'
  BY <1>4 DEF KillRefused, KillRefusal, TypeOK, StacksDisjoint, Disjoint, FreelistBounded, WithinCap,
     NoFinishedActive, RunningInMap, Active, RoutineOf, Self, Statuses, Errors
<1>5. CASE YieldInMain
  BY <1>5 DEF YieldInMain, TypeOK, StacksDisjoint, Disjoint, FreelistBounded, WithinCap,
     NoFinishedActive, RunningInMap, Active, RoutineOf, Self, Statuses, Errors
<1>6. ASSUME NEW size \in Sizes, SetFreelistMaxSize(size) PROVE IInv'
  <2>1. Sound(ordinator')
    BY <1>0, <1>6, LimitedSound, SizesAssumption DEF SetFreelistMaxSize
  <2>2. /\ ordinator'.routines = ordinator.routines /\ ordinator'.mem = ordinator.mem
        /\ ordinator'.current = ordinator.current
        /\ UNCHANGED <<pc, call, outcome>>
    BY <1>0, <1>6 DEF SetFreelistMaxSize, Limited, Sound, OrdinatorType
  <2>3. QED
    BY <2>1, <2>2 DEF Sound, TypeOK, StacksDisjoint, FreelistBounded, NoFinishedActive,
       RunningInMap, Active, RoutineOf, Self
<1>7. ASSUME NEW id \in Ids, Resume(id) PROVE IInv'
  <2>1. /\ ordinator' \in OrdinatorType
        /\ ordinator'.routines = ordinator.routines /\ ordinator'.finished = ordinator.finished
        /\ ordinator'.freelist_max_size = ordinator.freelist_max_size
        /\ ordinator'.mem = ordinator.mem /\ ordinator'.current = id
    BY <1>0, <1>7 DEF Resume, SwitchedTo, Sound, OrdinatorType
  <2>2. Sound(ordinator')
    BY <1>0, <2>1, SameOwnersSound
  <2>3. /\ pc = "main" /\ pc' \in {"entry", "yielded"} /\ outcome' = "none"
        /\ call' = [op |-> "resume", id |-> id] /\ CanSwitchTo(ordinator, id)
    BY <1>7 DEF Resume, ArriveAt
  <2>4. TypeOK' BY <2>1, <2>3 DEF TypeOK, Places, Calls
  <2>5. NoFinishedActive'
    BY <2>1, <2>3 DEF NoFinishedActive, Active, RoutineOf
  <2>6. RunningInMap'
    BY <2>1, <2>3 DEF RunningInMap, CanSwitchTo, Active, RoutineOf, Self
  <2>7. QED BY <2>2, <2>4, <2>5, <2>6 DEF Sound, StacksDisjoint, FreelistBounded
<1>8. ASSUME NEW id \in Ids, NEW e \in Exceptions \cup {NoExc}, Kill(id, e) PROVE IInv'
  <2> DEFINE q == Killed(ordinator, id, e)
  <2>1. /\ pc = "main" /\ pc' \in {"entry", "yielded"} /\ outcome' = "none"
        /\ call' = [op |-> "kill", id |-> id] /\ CanSwitchTo(ordinator, id)
    BY <1>8 DEF Kill, ArriveAt
  <2>2. /\ q \in OrdinatorType
        /\ q.routines = ordinator.routines /\ q.finished = ordinator.finished
        /\ q.freelist_max_size = ordinator.freelist_max_size
        /\ \A n \in Nodes : q.mem[n].finished = ordinator.mem[n].finished
    BY <2>1, KilledKeeps DEF CanSwitchTo
  <2>3. ordinator' = SwitchedTo(q, id) BY <1>8 DEF Kill
  <2> HIDE DEF q
  <2>4. /\ ordinator' \in OrdinatorType
        /\ ordinator'.routines = ordinator.routines /\ ordinator'.finished = ordinator.finished
        /\ ordinator'.freelist_max_size = ordinator.freelist_max_size
        /\ ordinator'.current = id
        /\ \A n \in Nodes : ordinator'.mem[n].finished = ordinator.mem[n].finished
    BY <2>2, <2>3 DEF SwitchedTo, OrdinatorType
  <2>5. Sound(ordinator')
    BY <1>0, <2>4, SameOwnersSound
  <2>6. TypeOK' BY <2>1, <2>4 DEF TypeOK, Places, Calls
  <2>7. \A i \in Ids : Active(ordinator, i) => ordinator.routines[i] \in Nodes
    BY DEF TypeOK, OrdinatorType, Active
  <2>8. NoFinishedActive'
    BY <2>1, <2>4, <2>7 DEF NoFinishedActive, Active, RoutineOf
  <2>9. RunningInMap'
    BY <2>1, <2>4, <2>7 DEF RunningInMap, CanSwitchTo, Active, RoutineOf, Self
  <2>10. QED BY <2>5, <2>6, <2>8, <2>9 DEF Sound, StacksDisjoint, FreelistBounded
<1>9. ASSUME NEW id \in Ids, SwitchFails(id) PROVE IInv'
  <2>1. pc = "main" /\ CanSwitchTo(ordinator, id) /\ UNCHANGED <<pc, call>> /\ outcome' \in {"ERROR", "logic_error"}
    BY <1>9 DEF SwitchFails
  <2>2. CASE UNCHANGED ordinator
    BY <2>1, <2>2 DEF TypeOK, StacksDisjoint, Disjoint, FreelistBounded, WithinCap,
       NoFinishedActive, RunningInMap, Active, RoutineOf, Self, Statuses, Errors
  <2>3. ASSUME NEW e \in Exceptions, ordinator' = Killed(ordinator, id, e) PROVE IInv'
    <3>1. /\ ordinator' \in OrdinatorType
          /\ ordinator'.routines = ordinator.routines /\ ordinator'.finished = ordinator.finished
          /\ ordinator'.freelist_max_size = ordinator.freelist_max_size
          /\ ordinator'.current = ordinator.current
          /\ \A n \in Nodes : ordinator'.mem[n].finished = ordinator.mem[n].finished
      BY <2>1, <2>3, KilledKeeps DEF CanSwitchTo
    <3>2. Sound(ordinator')
      BY <1>0, <3>1, SameOwnersSound
    <3>3. TypeOK' BY <2>1, <3>1 DEF TypeOK, Statuses, Errors
    <3>4. \A i \in Ids : Active(ordinator, i) => ordinator.routines[i] \in Nodes
      BY DEF TypeOK, OrdinatorType, Active
    <3>5. NoFinishedActive' /\ RunningInMap'
      BY <2>1, <3>1, <3>4 DEF NoFinishedActive, RunningInMap, Active, RoutineOf, Self
    <3>6. QED BY <3>2, <3>3, <3>5 DEF Sound, StacksDisjoint, FreelistBounded
  <2>4. QED BY <1>9, <2>2, <2>3 DEF SwitchFails
<1>10. QED
  BY <1>1, <1>2, <1>3, <1>4, <1>5, <1>6, <1>7, <1>8, <1>9 DEF CallerStep

\* entry's tail: only the running routine becomes finished.
LEMMA EndWithIInv ==
  ASSUME IInv, pc \in {"entry", "yielded", "body"}, NEW e \in Exceptions \cup {NoExc}, EndWith(e)
  PROVE  IInv'
<1> USE DEF IInv
<1> DEFINE id == ordinator.current
           n  == ordinator.routines[id]
           r  == [ordinator.mem[n] EXCEPT !.exception = e, !.finished = TRUE]
<1>1. /\ id = call.id /\ id \in Ids \ {Main} /\ call.op # "none"
      /\ Active(ordinator, id) /\ n \in Nodes /\ ordinator.mem[n] \in Routine
  BY DEF RunningInMap, TypeOK, OrdinatorType, Active
<1>2. r \in Routine
  BY <1>1 DEF Routine
<1>3. ordinator' = [ordinator EXCEPT !.mem = [ordinator.mem EXCEPT ![n] = r], !.current = Main]
  BY <1>1 DEF EndWith, Ended, TypeOK, OrdinatorType
<1>4. [ordinator.mem EXCEPT ![n] = r] \in [Nodes -> Routine]
  BY <1>1, <1>2 DEF TypeOK, OrdinatorType
<1> HIDE DEF r
<1>5. /\ ordinator' \in OrdinatorType
      /\ ordinator'.routines = ordinator.routines /\ ordinator'.finished = ordinator.finished
      /\ ordinator'.freelist_max_size = ordinator.freelist_max_size
      /\ ordinator'.current = Main
      /\ ordinator'.mem = [ordinator.mem EXCEPT ![n] = r]
  BY <1>3, <1>4 DEF TypeOK, OrdinatorType
<1>6. pc' = "back" /\ UNCHANGED <<call, outcome>>
  BY DEF EndWith
<1>7. Sound(ordinator')
  BY <1>5, SameOwnersSound DEF Sound, TypeOK, StacksDisjoint, FreelistBounded
<1>8. TypeOK' BY <1>5, <1>6 DEF TypeOK, Places
<1>9. NoFinishedActive'
  <2>1. ASSUME NEW i \in Ids, i # id, Active(ordinator, i)
        PROVE  ordinator.routines[i] \in Nodes \ {n} /\ ~RoutineOf(ordinator, i).finished
    BY <2>1, <1>1 DEF StacksDisjoint, Disjoint, NoFinishedActive, TypeOK, OrdinatorType, Active
  <2>2. QED
    BY <2>1, <1>1, <1>5, <1>6 DEF NoFinishedActive, Active, RoutineOf, TypeOK, OrdinatorType
<1>10. RunningInMap'
  BY <1>1, <1>5, <1>6 DEF RunningInMap, Active
<1>11. QED BY <1>7, <1>8, <1>9, <1>10 DEF Sound, StacksDisjoint, FreelistBounded

\* The steps of a routine.
LEMMA RoutineStepIInv ==
  ASSUME IInv, RoutineStep PROVE IInv'
<1> USE DEF IInv
<1>1. CASE Enter
  BY <1>1 DEF Enter, TypeOK, StacksDisjoint, Disjoint, FreelistBounded, WithinCap,
     NoFinishedActive, RunningInMap, Active, RoutineOf, Self, Places
<1>2. CASE GoOn
  BY <1>2 DEF GoOn, TypeOK, StacksDisjoint, Disjoint, FreelistBounded, WithinCap,
     NoFinishedActive, RunningInMap, Active, RoutineOf, Self, Places
<1>3. ASSUME pc \in {"entry", "yielded", "body"} PROVE Self.exception \in Exceptions \cup {NoExc}
  <2>1. ordinator.current \in Ids /\ Active(ordinator, ordinator.current)
    BY <1>3 DEF RunningInMap
  <2>2. Self \in Routine
    BY <2>1 DEF TypeOK, OrdinatorType, Active, Self, RoutineOf
  <2>3. QED BY <2>2 DEF Routine
<1>4. CASE SkipFunction
  BY <1>3, <1>4, EndWithIInv DEF SkipFunction
<1>5. CASE Return
  BY <1>3, <1>5, EndWithIInv DEF Return
<1>6. CASE Unwind
  BY <1>3, <1>6, EndWithIInv DEF Unwind
<1>7. ASSUME NEW e \in Exceptions, Throw(e) PROVE IInv'
  BY <1>7, EndWithIInv DEF Throw
<1>8. CASE Yield
  <2> DEFINE id == ordinator.current
             n  == ordinator.routines[id]
             r  == [ordinator.mem[n] EXCEPT !.ctx = "yield"]
  <2>1. /\ id = call.id /\ id \in Ids \ {Main} /\ call.op # "none"
        /\ Active(ordinator, id) /\ n \in Nodes /\ ordinator.mem[n] \in Routine
    BY <1>8 DEF Yield, RunningInMap, TypeOK, OrdinatorType, Active
  <2>2. r \in Routine /\ r.finished = ordinator.mem[n].finished
    BY <2>1 DEF Routine
  <2>3. ordinator' = [ordinator EXCEPT !.mem = [ordinator.mem EXCEPT ![n] = r], !.current = Main]
    BY <1>8, <2>1 DEF Yield, Yielded, TypeOK, OrdinatorType
  <2>4. [ordinator.mem EXCEPT ![n] = r] \in [Nodes -> Routine]
    BY <2>1, <2>2 DEF TypeOK, OrdinatorType
  <2> HIDE DEF r
  <2>5. /\ ordinator' \in OrdinatorType
        /\ ordinator'.routines = ordinator.routines /\ ordinator'.finished = ordinator.finished
        /\ ordinator'.freelist_max_size = ordinator.freelist_max_size
        /\ ordinator'.current = Main
        /\ ordinator'.mem = [ordinator.mem EXCEPT ![n] = r]
    BY <2>3, <2>4 DEF TypeOK, OrdinatorType
  <2>6. pc' = "back" /\ UNCHANGED <<call, outcome>>
    BY <1>8 DEF Yield
  <2>7. Sound(ordinator')
    BY <2>5, SameOwnersSound DEF Sound, TypeOK, StacksDisjoint, FreelistBounded
  <2>8. TypeOK' BY <2>5, <2>6 DEF TypeOK, Places
  <2>9. \A m \in Nodes : ordinator'.mem[m].finished = ordinator.mem[m].finished
    BY <2>1, <2>2, <2>5 DEF TypeOK, OrdinatorType
  <2>10. \A i \in Ids : Active(ordinator, i) => ordinator.routines[i] \in Nodes
    BY DEF TypeOK, OrdinatorType, Active
  <2>11. NoFinishedActive'
    BY <1>8, <2>5, <2>6, <2>9, <2>10 DEF NoFinishedActive, Active, RoutineOf, Yield
  <2>12. RunningInMap'
    BY <2>1, <2>5, <2>6 DEF RunningInMap, Active
  <2>13. QED BY <2>7, <2>8, <2>11, <2>12 DEF Sound, StacksDisjoint, FreelistBounded
<1>9. QED BY <1>1, <1>2, <1>4, <1>5, <1>6, <1>7, <1>8 DEF RoutineStep

\* The tail of resume and kill.
LEMMA ReportIInv ==
  ASSUME IInv, ReportEnd \/ ReportAgain PROVE IInv'
<1> USE DEF IInv
<1>1. ASSUME pc = "back"
      PROVE  call.id \in Ids /\ Active(ordinator, call.id) /\ RoutineOf(ordinator, call.id) \in Routine
  BY <1>1 DEF RunningInMap, TypeOK, OrdinatorType, Active, RoutineOf
<1>2. CASE ReportAgain
  BY <1>1, <1>2 DEF ReportAgain, TypeOK, StacksDisjoint, Disjoint, FreelistBounded, WithinCap,
     NoFinishedActive, RunningInMap, Active, RoutineOf, Self, Places, Calls, NoCall, Statuses, Errors
<1>3. CASE ReportEnd
  <2>1. pc = "back" /\ pc' = "main" /\ call' = NoCall
        /\ ordinator' = Collected(ordinator, call.id)
    BY <1>3 DEF ReportEnd
  <2>2. Sound(ordinator')
    BY <1>1, <2>1, CollectedSound DEF Sound, TypeOK, StacksDisjoint, FreelistBounded
  <2>3. /\ ordinator'.routines = [ordinator.routines EXCEPT ![call.id] = NoNode]
        /\ ordinator'.mem = ordinator.mem /\ ordinator'.current = ordinator.current
    BY <2>1 DEF Collected, TypeOK, OrdinatorType
  <2>4. outcome' \in Statuses \cup Errors \cup Exceptions
    BY <1>1, <1>3, <2>1 DEF ReportEnd, EndResult, Routine, Statuses, Errors
  <2>5. TypeOK'
    BY <2>1, <2>2, <2>4 DEF Sound, TypeOK, Places, Calls, NoCall
  <2>6. NoFinishedActive'
    BY <1>1, <2>1, <2>3 DEF NoFinishedActive, Active, RoutineOf, TypeOK, OrdinatorType
  <2>7. RunningInMap'
    BY <2>1, <2>3 DEF RunningInMap
  <2>8. QED BY <2>2, <2>5, <2>6, <2>7 DEF Sound, StacksDisjoint, FreelistBounded
<1>4. QED BY <1>2, <1>3

\* The invariant holds of every behaviour, for any ids, nodes, functions,
\* exceptions and cap sizes.
THEOREM Inductive == Spec => []IInv
<1>1. Init => IInv BY InitIInv
<1>2. IInv /\ [Next]_vars => IInv'
  <2> SUFFICES ASSUME IInv, [Next]_vars PROVE IInv' OBVIOUS
  <2>1. CASE CallerStep BY <2>1, CallerStepIInv
  <2>2. CASE RoutineStep BY <2>2, RoutineStepIInv
  <2>3. CASE ReportEnd \/ ReportAgain BY <2>3, ReportIInv
  <2>4. CASE UNCHANGED vars
    BY <2>4 DEF vars, IInv, TypeOK, StacksDisjoint, Disjoint, FreelistBounded, WithinCap,
       NoFinishedActive, RunningInMap, Active, RoutineOf, Self
  <2>5. QED BY <2>1, <2>2, <2>3, <2>4 DEF Next
<1>3. QED BY <1>1, <1>2, PTL DEF Spec

\* Every variable keeps its type: every outcome is a documented status, an
\* exception of the library or one a routine was killed with or threw.
THEOREM TypeCorrect == Spec => []TypeOK
<1>1. IInv => TypeOK BY DEF IInv
<1>2. QED BY <1>1, Inductive, PTL

\* coroutine.cpp:65-117 never gives one stack to two routines, nor keeps a
\* routine's stack in the free list.
THEOREM StacksNeverShared == Spec => []StacksDisjoint
<1>1. IInv => StacksDisjoint BY DEF IInv
<1>2. QED BY <1>1, Inductive, PTL

\* The logic error of coroutine.cpp:130-132 is never thrown.
THEOREM FinishedNeverActive == Spec => []NoFinishedActive
<1>1. IInv => NoFinishedActive BY DEF IInv
<1>2. QED BY <1>1, Inductive, PTL

\* The lookups with at() in entry, yield and resume's tail find the routine.
THEOREM RunningAlwaysInMap == Spec => []RunningInMap
<1>1. IInv => RunningInMap BY DEF IInv
<1>2. QED BY <1>1, Inductive, PTL

\* The free list respects its cap after every call.
THEOREM CapRespected == Spec => []FreelistBounded
<1>1. IInv => FreelistBounded BY DEF IInv
<1>2. QED BY <1>1, Inductive, PTL

\* All four, for every number of routines, nodes and caps.
THEOREM NodesAlwaysConsistent == Spec => []NodesConsistent
<1>1. IInv => NodesConsistent BY DEF IInv, NodesConsistent
<1>2. QED BY <1>1, Inductive, PTL

(***************************************************************************)
(* The refinement of RoutineLife.  It needs one fact more: what kill sent  *)
(* is still there when the routine ends, so kill always has an exception   *)
(* to report, and the main context is in no call while it runs.            *)
(***************************************************************************)
CallMatches ==
  /\ pc \in {"main", "crashed"} => call.op = "none"
  /\ call.op = "kill" => RoutineOf(ordinator, call.id).exception # NoExc

Lives    == [id \in Ids |-> PhaseOf(id)]
Funcs    == [id \in Ids |-> FuncOf(id)]
Pendings == [id \in Ids |-> PendingOf(id)]

Others(id) ==
  \A k \in Ids \ {id} :
    /\ Active(ordinator', k) <=> Active(ordinator, k)
    /\ Active(ordinator, k) => RoutineOf(ordinator', k) = RoutineOf(ordinator, k)

\* A step that changes the routine of one id, and switches to it or from it at
\* most, changes what RoutineLife sees of that id only.
LEMMA OneChanges ==
  ASSUME NEW id \in Ids, ordinator.current \in {Main, id}, ordinator'.current \in {Main, id},
         Others(id)
  PROVE  /\ Lives' = [Lives EXCEPT ![id] = PhaseOf(id)']
         /\ Funcs' = [Funcs EXCEPT ![id] = FuncOf(id)']
         /\ Pendings' = [Pendings EXCEPT ![id] = PendingOf(id)']
<1>1. ASSUME NEW k \in Ids \ {id}
      PROVE  PhaseOf(k)' = PhaseOf(k) /\ FuncOf(k)' = FuncOf(k) /\ PendingOf(k)' = PendingOf(k)
  <2>1. /\ Active(ordinator', k) <=> Active(ordinator, k)
        /\ Active(ordinator, k) => RoutineOf(ordinator', k) = RoutineOf(ordinator, k)
    BY DEF Others
  <2>2. ~(k # Main /\ ordinator.current = k) /\ ~(k # Main /\ ordinator'.current = k) OBVIOUS
  <2>3. QED BY <2>1, <2>2 DEF PhaseOf, FuncOf, PendingOf
<1>2. QED BY <1>1 DEF Lives, Funcs, Pendings

\* A node that is written is the node of one id.
LEMMA NodeIsOnes ==
  ASSUME TypeOK, StacksDisjoint, NEW id \in Ids, Active(ordinator, id), NEW r,
         ordinator'.routines = ordinator.routines,
         ordinator'.mem = [ordinator.mem EXCEPT ![ordinator.routines[id]] = r]
  PROVE  /\ Active(ordinator', id) /\ RoutineOf(ordinator', id) = r /\ Others(id)
         /\ ordinator.mem[ordinator.routines[id]] = RoutineOf(ordinator, id)
<1>1. ordinator.mem \in [Nodes -> Routine] /\ ordinator.routines \in [Ids -> Nodes \cup {NoNode}]
  BY DEF TypeOK, OrdinatorType
<1>2. \A k \in Ids : Active(ordinator, k) => ordinator.routines[k] \in Nodes
  BY <1>1 DEF Active
<1>3. \A k \in Ids : Active(ordinator, k) /\ k # id => ordinator.routines[k] # ordinator.routines[id]
  BY DEF StacksDisjoint, Disjoint
<1>4. QED BY <1>1, <1>2, <1>3 DEF Others, Active, RoutineOf

\* Init is RoutineLife's.
LEMMA LifeInit == Init => Life!Init
BY DEF Init, EmptyOrdinator, NoCall, Life!Init, PhaseOf, FuncOf, PendingOf, Active

\* Outside of a library call no id runs and none has ended.
LEMMA MainIsAlone ==
  ASSUME IInv, pc = "main"
  PROVE  /\ ordinator.current = Main
         /\ \A id \in Ids :
              /\ Lives[id] = IF ~Active(ordinator, id) THEN "absent"
                             ELSE IF RoutineOf(ordinator, id).ctx = "entry"
                                  THEN "fresh" ELSE "suspended"
              /\ CanSwitchTo(ordinator, id) <=> id # Main /\ Active(ordinator, id)
<1>1. ordinator.current = Main BY DEF IInv, RunningInMap
<1>2. \A id \in Ids : Active(ordinator, id) => ~RoutineOf(ordinator, id).finished
  BY DEF IInv, NoFinishedActive
<1>3. QED BY <1>1, <1>2 DEF Lives, PhaseOf, CanSwitchTo

\* create: in a new node, in the last free one, or for an id that is taken.
LEMMA CreateLife ==
  ASSUME IInv, CallMatches, NEW id \in Ids, NEW f \in Functions \cup {NoFunc}, Create(id, f)
  PROVE  Life!Next /\ CallMatches'
<1>1. /\ pc = "main" /\ ordinator' \in Creations(ordinator, id, f) /\ outcome' = "id"
      /\ UNCHANGED <<pc, call>> /\ call.op = "none"
  BY DEF Create, CallMatches
<1>2. ordinator.current = Main /\ \A k \in Ids : Lives[k] = "absent" <=> ~Active(ordinator, k)
  BY <1>1, MainIsAlone
<1>3. CallMatches' BY <1>1 DEF CallMatches
<1>4. /\ ordinator.mem \in [Nodes -> Routine] /\ ordinator.routines \in [Ids -> Nodes \cup {NoNode}]
      /\ ordinator.finished \in Seq(Nodes \cup {NoNode}) /\ ordinator \in OrdinatorType
  BY DEF IInv, TypeOK, OrdinatorType
<1>5. \A k \in Ids : Active(ordinator, k) => ordinator.routines[k] \in Nodes
  BY <1>4 DEF Active
<1>6. ASSUME NEW n \in Nodes, NEW r, \A k \in Ids : ordinator.routines[k] # n,
             r.func = f, ~r.finished, r.exception = NoExc, r.ctx = "entry",
             ordinator'.mem = [ordinator.mem EXCEPT ![n] = r],
             ordinator'.current = ordinator.current,
             ordinator'.routines = [ordinator.routines EXCEPT ![id] = IF @ = NoNode THEN n ELSE @]
      PROVE  Life!Create(id, f)
  <2>1. Others(id) BY <1>4, <1>5, <1>6 DEF Others, Active, RoutineOf
  <2>2. /\ Lives' = [Lives EXCEPT ![id] = PhaseOf(id)']
        /\ Funcs' = [Funcs EXCEPT ![id] = FuncOf(id)']
        /\ Pendings' = [Pendings EXCEPT ![id] = PendingOf(id)']
    BY <1>2, <1>6, <2>1, OneChanges
  <2>3. CASE Active(ordinator, id)
    <3>1. Active(ordinator', id) /\ RoutineOf(ordinator', id) = RoutineOf(ordinator, id)
      BY <1>4, <1>5, <1>6, <2>3 DEF Active, RoutineOf
    <3>2. PhaseOf(id)' = PhaseOf(id) /\ FuncOf(id)' = FuncOf(id) /\ PendingOf(id)' = PendingOf(id)
      BY <1>2, <1>6, <2>3, <3>1 DEF PhaseOf, FuncOf, PendingOf
    <3>3. Lives' = Lives /\ Funcs' = Funcs /\ Pendings' = Pendings
      BY <2>2, <3>2 DEF Lives, Funcs, Pendings
    <3>4. Lives[id] # "absent" BY <1>2, <2>3
    <3>5. QED BY <1>1, <3>3, <3>4 DEF Life!Create, Lives, Funcs, Pendings
  <2>4. CASE ~Active(ordinator, id)
    <3>1. Active(ordinator', id) /\ RoutineOf(ordinator', id) = r
      BY <1>4, <1>6, <2>4, NodesAssumption DEF Active, RoutineOf
    <3>2. PhaseOf(id)' = "fresh" /\ FuncOf(id)' = f /\ PendingOf(id)' = NoExc
      BY <1>2, <1>6, <3>1 DEF PhaseOf, FuncOf, PendingOf
    <3>3. PendingOf(id) = NoExc /\ Lives[id] = "absent" BY <1>2, <2>4 DEF PendingOf
    <3>4. /\ Lives' = [Lives EXCEPT ![id] = "fresh"] /\ Funcs' = [Funcs EXCEPT ![id] = f]
          /\ Pendings' = Pendings
      BY <2>2, <3>2, <3>3 DEF Pendings
    <3>5. QED BY <1>1, <3>3, <3>4 DEF Life!Create, Lives, Funcs, Pendings
  <2>5. QED BY <2>3, <2>4
<1>7. CASE ordinator.finished # << >>
  <2> DEFINE n == ordinator.finished[Len(ordinator.finished)]
             r == Reset(ordinator.mem[n], f)
  <2>1. ordinator' = Reused(ordinator, id, f) BY <1>1, <1>7 DEF Creations
  <2>2. Len(ordinator.finished) \in 1..Len(ordinator.finished) /\ n \in Nodes
    <3>1. Len(ordinator.finished) \in Nat \ {0} BY <1>4, <1>7, EmptySeq
    <3>2. n \in Nodes \cup {NoNode} BY <1>4, <3>1, ElementOfSeq
    <3>3. n # NoNode BY <1>7 DEF Create, FreeNodeIsEmpty, LastFree
    <3>4. QED BY <3>1, <3>2, <3>3
  <2>3. \A k \in Ids : ordinator.routines[k] # n
    BY <2>2, NodesAssumption DEF IInv, StacksDisjoint, Disjoint
  <2>4. /\ ordinator'.mem = [ordinator.mem EXCEPT ![n] = r]
        /\ ordinator'.current = ordinator.current
        /\ ordinator'.routines = [ordinator.routines EXCEPT ![id] = IF @ = NoNode THEN n ELSE @]
    BY <1>4, <2>1, <2>2 DEF Reused, OrdinatorType
  <2>5. r.func = f /\ ~r.finished /\ r.exception = NoExc /\ r.ctx = "entry"
    BY <1>4, <2>2 DEF Reset, Routine
  <2> HIDE DEF n, r
  <2>6. QED BY <1>3, <1>6, <2>2, <2>3, <2>4, <2>5 DEF Life!Next
<1>8. CASE ordinator.finished = << >> /\ Active(ordinator, id)
  <2>1. ordinator' = ordinator BY <1>1, <1>8 DEF Creations
  <2>2. Lives' = Lives /\ Funcs' = Funcs /\ Pendings' = Pendings /\ Lives[id] # "absent"
    BY <1>1, <1>2, <1>8, <2>1
       DEF Lives, Funcs, Pendings, PhaseOf, FuncOf, PendingOf, Active, RoutineOf
  <2>3. Life!Create(id, f) BY <1>1, <2>2 DEF Life!Create, Lives, Funcs, Pendings
  <2>4. QED BY <1>3, <2>3 DEF Life!Next
<1>9. CASE ordinator.finished = << >> /\ ~Active(ordinator, id)
  <2>1. PICK n \in Unowned(ordinator) : ordinator' = Emplaced(ordinator, id, f, n)
    BY <1>1, <1>9 DEF Creations
  <2>2. n \in Nodes /\ \A k \in Ids : ordinator.routines[k] # n BY DEF Unowned
  <2>3. /\ ordinator'.mem = [ordinator.mem EXCEPT ![n] = NewRoutine(f)]
        /\ ordinator'.current = ordinator.current
        /\ ordinator'.routines = [ordinator.routines EXCEPT ![id] = IF @ = NoNode THEN n ELSE @]
    BY <1>4, <1>9, <2>1, <2>2 DEF Emplaced, OrdinatorType, Active
  <2>4. /\ NewRoutine(f).func = f /\ ~NewRoutine(f).finished
        /\ NewRoutine(f).exception = NoExc /\ NewRoutine(f).ctx = "entry"
    BY DEF NewRoutine
  <2>5. QED BY <1>3, <1>6, <2>2, <2>3, <2>4 DEF Life!Next
<1>10. QED BY <1>7, <1>8, <1>9

\* resume, kill and a refused context switch.
LEMMA SwitchLife ==
  ASSUME IInv, CallMatches, NEW id \in Ids,
         \/ Resume(id) \/ SwitchFails(id)
         \/ \E e \in Exceptions \cup {NoExc} : Kill(id, e)
  PROVE  Life!Next /\ CallMatches'
<1> DEFINE n == ordinator.routines[id]
<1>1. pc = "main" /\ CanSwitchTo(ordinator, id) /\ call.op = "none"
  BY DEF Resume, SwitchFails, Kill, CallMatches
<1>2. /\ ordinator.current = Main /\ id # Main /\ Active(ordinator, id)
      /\ Lives[id] = IF RoutineOf(ordinator, id).ctx = "entry" THEN "fresh" ELSE "suspended"
  BY <1>1, MainIsAlone
<1>3. /\ n \in Nodes /\ ordinator.mem[n] \in Routine /\ ordinator \in OrdinatorType
      /\ ordinator.mem \in [Nodes -> Routine] /\ ordinator.mem[n] = RoutineOf(ordinator, id)
  BY <1>2 DEF IInv, TypeOK, OrdinatorType, Active, RoutineOf
<1>4. Life!Waiting(id) /\ ~RoutineOf(ordinator, id).finished
  BY <1>1, <1>2 DEF Life!Waiting, Lives, CanSwitchTo
<1>5. Pendings[id] = RoutineOf(ordinator, id).exception /\ Funcs[id] = RoutineOf(ordinator, id).func
  BY <1>2 DEF Pendings, Funcs, PendingOf, FuncOf
<1>6. ASSUME NEW r \in Routine, r.func = ordinator.mem[n].func,
             r.finished = ordinator.mem[n].finished, r.ctx = ordinator.mem[n].ctx,
             ordinator'.mem = [ordinator.mem EXCEPT ![n] = r],
             ordinator'.routines = ordinator.routines, ordinator'.current \in {Main, id}
      PROVE  /\ Active(ordinator', id) /\ RoutineOf(ordinator', id) = r
             /\ Pendings' = [Pendings EXCEPT ![id] = r.exception] /\ Funcs' = Funcs
             /\ ordinator'.current = Main => Lives' = Lives
             /\ ordinator'.current = id /\ ArriveAt(id) => Life!SwitchTo(id)
  <2>1. /\ Active(ordinator', id) /\ RoutineOf(ordinator', id) = r /\ Others(id)
    BY <1>2, <1>6, NodeIsOnes DEF IInv
  <2>2. /\ Lives' = [Lives EXCEPT ![id] = PhaseOf(id)']
        /\ Funcs' = [Funcs EXCEPT ![id] = FuncOf(id)']
        /\ Pendings' = [Pendings EXCEPT ![id] = PendingOf(id)']
    BY <1>2, <1>6, <2>1, OneChanges
  <2>3. FuncOf(id)' = Funcs[id] /\ PendingOf(id)' = r.exception
    BY <1>3, <1>5, <1>6, <2>1 DEF FuncOf, PendingOf
  <2>4. ordinator'.current = Main => PhaseOf(id)' = Lives[id]
    BY <1>2, <1>3, <1>4, <1>6, <2>1 DEF PhaseOf
  <2>5. ASSUME ordinator'.current = id, ArriveAt(id)
        PROVE  PhaseOf(id)' = IF Lives[id] = "fresh" THEN "starting" ELSE "running"
    <3>1. PhaseOf(id)' = IF pc' = "entry" THEN "starting" ELSE "running"
      BY <1>2, <1>3, <1>4, <1>6, <2>1, <2>5 DEF PhaseOf
    <3>2. pc' = IF RoutineOf(ordinator, id).ctx = "entry" THEN "entry" ELSE "yielded"
      BY <2>5 DEF ArriveAt
    <3>3. QED BY <1>2, <3>1, <3>2
  <2>6. ordinator'.current = Main => Lives' = Lives BY <2>2, <2>4 DEF Lives
  <2>7. Funcs' = Funcs BY <2>2, <2>3 DEF Funcs
  <2>8. ASSUME ordinator'.current = id, ArriveAt(id) PROVE Life!SwitchTo(id)
    BY <2>2, <2>5, <2>8 DEF Life!SwitchTo, Lives
  <2>9. QED BY <2>1, <2>2, <2>3, <2>6, <2>7, <2>8
<1>7. CASE Resume(id)
  <2>1. /\ ordinator'.mem = [ordinator.mem EXCEPT ![n] = ordinator.mem[n]]
        /\ ordinator'.routines = ordinator.routines /\ ordinator'.current = id
        /\ ArriveAt(id) /\ outcome' = "none" /\ call'.op = "resume"
    BY <1>3, <1>7 DEF Resume, SwitchedTo, OrdinatorType
  <2>2. Pendings' = Pendings /\ Funcs' = Funcs /\ Life!SwitchTo(id)
    <3>1. /\ Pendings' = [Pendings EXCEPT ![id] = ordinator.mem[n].exception]
          /\ Funcs' = Funcs /\ Life!SwitchTo(id)
      BY <1>3, <1>6, <2>1
    <3>2. Pendings' = Pendings BY <1>3, <1>5, <3>1 DEF Pendings
    <3>3. QED BY <3>1, <3>2
  <2>3. Life!Resume(id) BY <1>1, <1>4, <2>1, <2>2 DEF Life!Resume, Pendings, Funcs
  <2>4. CallMatches' BY <2>1 DEF CallMatches, ArriveAt
  <2>5. QED BY <2>3, <2>4 DEF Life!Next
<1>8. ASSUME NEW e \in Exceptions, NEW o, o = Killed(ordinator, id, e)
      PROVE  \E r \in Routine :
               /\ r.func = ordinator.mem[n].func /\ r.finished = ordinator.mem[n].finished
               /\ r.ctx = ordinator.mem[n].ctx /\ r.exception = e
               /\ o = [ordinator EXCEPT !.mem = [ordinator.mem EXCEPT ![n] = r]]
  <2> DEFINE r == [ordinator.mem[n] EXCEPT !.exception = e]
  <2>1. /\ r \in Routine /\ r.func = ordinator.mem[n].func
        /\ r.finished = ordinator.mem[n].finished /\ r.ctx = ordinator.mem[n].ctx /\ r.exception = e
    BY <1>3 DEF Routine
  <2>2. o = [ordinator EXCEPT !.mem = [ordinator.mem EXCEPT ![n] = r]]
    BY <1>3, <1>8 DEF Killed, OrdinatorType
  <2> HIDE DEF r
  <2>3. QED BY <2>1, <2>2
<1>9. ASSUME NEW e \in Exceptions \cup {NoExc}, Kill(id, e) PROVE Life!Next /\ CallMatches'
  <2>1. /\ e \in Exceptions /\ ordinator' = SwitchedTo(Killed(ordinator, id, e), id)
        /\ ArriveAt(id) /\ outcome' = "none" /\ call' = [op |-> "kill", id |-> id]
    BY <1>9 DEF Kill
  <2>2. PICK o : o = Killed(ordinator, id, e) OBVIOUS
  <2>3. PICK r \in Routine :
          /\ r.func = ordinator.mem[n].func /\ r.finished = ordinator.mem[n].finished
          /\ r.ctx = ordinator.mem[n].ctx /\ r.exception = e
          /\ o = [ordinator EXCEPT !.mem = [ordinator.mem EXCEPT ![n] = r]]
    BY <1>8, <2>1, <2>2
  <2>4. /\ ordinator'.mem = [ordinator.mem EXCEPT ![n] = r]
        /\ ordinator'.routines = ordinator.routines /\ ordinator'.current = id
    BY <1>3, <2>1, <2>2, <2>3 DEF SwitchedTo, OrdinatorType
  <2>5. /\ Pendings' = [Pendings EXCEPT ![id] = e] /\ Funcs' = Funcs /\ Life!SwitchTo(id)
        /\ RoutineOf(ordinator', id).exception = e
    BY <1>6, <2>1, <2>3, <2>4
  <2>6. Life!Kill(id, e) BY <1>1, <1>4, <2>1, <2>5 DEF Life!Kill, Pendings, Funcs
  <2>7. CallMatches' BY <2>1, <2>5, ExcAssumption DEF CallMatches, ArriveAt
  <2>8. QED BY <2>1, <2>6, <2>7 DEF Life!Next
<1>10. CASE SwitchFails(id)
  <2>1. UNCHANGED <<pc, call>> BY <1>10 DEF SwitchFails
  <2>2. CallMatches' BY <1>1, <2>1 DEF CallMatches
  <2>3. CASE outcome' = "ERROR" /\ UNCHANGED ordinator
    <3>1. /\ ordinator'.mem = [ordinator.mem EXCEPT ![n] = ordinator.mem[n]]
          /\ ordinator'.routines = ordinator.routines /\ ordinator'.current = Main
      BY <1>2, <1>3, <2>3
    <3>2. Lives' = Lives /\ Funcs' = Funcs /\ Pendings' = Pendings
      <4>1. /\ Pendings' = [Pendings EXCEPT ![id] = ordinator.mem[n].exception]
            /\ Funcs' = Funcs /\ Lives' = Lives
        BY <1>3, <1>6, <3>1
      <4>2. Pendings' = Pendings BY <1>3, <1>5, <4>1 DEF Pendings
      <4>3. QED BY <4>1, <4>2
    <3>3. Life!SwitchFails(id)
      BY <1>1, <1>4, <2>1, <2>3, <3>2 DEF Life!SwitchFails, Lives, Funcs, Pendings
    <3>4. QED BY <2>2, <3>3 DEF Life!Next
  <2>4. ASSUME NEW e \in Exceptions, ordinator' = Killed(ordinator, id, e), outcome' = "logic_error"
        PROVE  Life!Next /\ CallMatches'
    <3>1. PICK r \in Routine :
            /\ r.func = ordinator.mem[n].func /\ r.finished = ordinator.mem[n].finished
            /\ r.ctx = ordinator.mem[n].ctx /\ r.exception = e
            /\ ordinator' = [ordinator EXCEPT !.mem = [ordinator.mem EXCEPT ![n] = r]]
      BY <1>8, <2>4
    <3>2. /\ ordinator'.mem = [ordinator.mem EXCEPT ![n] = r]
          /\ ordinator'.routines = ordinator.routines /\ ordinator'.current = Main
      BY <1>2, <1>3, <3>1 DEF OrdinatorType
    <3>3. Lives' = Lives /\ Funcs' = Funcs /\ Pendings' = [Pendings EXCEPT ![id] = e]
      BY <1>6, <3>1, <3>2
    <3>4. Life!SwitchFails(id)
      BY <1>1, <1>4, <2>1, <2>4, <3>3 DEF Life!SwitchFails, Lives, Funcs, Pendings
    <3>5. QED BY <2>2, <3>4 DEF Life!Next
  <2>5. QED BY <1>10, <2>3, <2>4 DEF SwitchFails
<1>11. QED BY <1>7, <1>9, <1>10

\* What a call that switches to no routine shows.
LEMMA RefusedLife ==
  ASSUME IInv, CallMatches,
         \/ \E id \in Ids : \/ ResumeRefused(id)
                            \/ \E e \in Exceptions \cup {NoExc} : KillRefused(id, e)
         \/ YieldInMain
  PROVE  Life!Next /\ CallMatches'
<1>1. pc = "main" /\ UNCHANGED <<ordinator, pc, call>> /\ call.op = "none"
  BY DEF ResumeRefused, KillRefused, YieldInMain, CallMatches
<1>2. CallMatches' BY <1>1 DEF CallMatches
<1>3. Lives' = Lives /\ Funcs' = Funcs /\ Pendings' = Pendings
  BY <1>1 DEF Lives, Funcs, Pendings, PhaseOf, FuncOf, PendingOf, Active, RoutineOf
<1>4. \A id \in Ids : /\ Lives[id] = "absent" <=> ~Active(ordinator, id)
                      /\ CanSwitchTo(ordinator, id) <=> id # Main /\ Active(ordinator, id)
  BY <1>1, MainIsAlone
<1>5. \/ outcome' \in {"invalid_argument", "logic_error"}
      \/ outcome' = "out_of_range" /\ \E id \in Ids \ {Main} : Lives[id] = "absent"
      \/ outcome' = "NONE" /\ Main \in Ids
  <2>1. ASSUME NEW id \in Ids, ResumeRefused(id)
        PROVE  \/ outcome' = "out_of_range" /\ id # Main /\ Lives[id] = "absent"
               \/ outcome' = "NONE" /\ Main \in Ids
    BY <1>4, <2>1 DEF ResumeRefused, ResumeRefusal
  <2>2. ASSUME NEW id \in Ids, NEW e \in Exceptions \cup {NoExc}, KillRefused(id, e)
        PROVE  \/ outcome' \in {"invalid_argument", "logic_error"}
               \/ outcome' = "out_of_range" /\ id # Main /\ Lives[id] = "absent"
    BY <1>4, <2>2 DEF KillRefused, KillRefusal
  <2>3. CASE YieldInMain BY <2>3 DEF YieldInMain
  <2>4. QED BY <2>1, <2>2, <2>3
<1>6. Life!Refuse BY <1>1, <1>3, <1>5 DEF Life!Refuse, Lives, Funcs, Pendings
<1>7. QED BY <1>2, <1>6 DEF Life!Next

\* The free list is out of sight: neither its cap nor the crash after a node
\* that deque::resize made changes anything here.
LEMMA HiddenLife ==
  ASSUME IInv, CallMatches, CreateFromEmptyNode \/ \E size \in Sizes : SetFreelistMaxSize(size)
  PROVE  UNCHANGED Life!vars /\ CallMatches'
<1>1. /\ pc = "main" /\ pc' \in {"main", "crashed"} /\ UNCHANGED <<call, outcome>>
      /\ ordinator'.routines = ordinator.routines /\ ordinator'.mem = ordinator.mem
      /\ ordinator'.current = ordinator.current
  BY DEF CreateFromEmptyNode, SetFreelistMaxSize, Limited, IInv, TypeOK, OrdinatorType
<1>2. ordinator.current = Main BY <1>1, MainIsAlone
<1>3. CallMatches' BY <1>1 DEF CallMatches, RoutineOf
<1>4. \A id \in Ids : PhaseOf(id)' = PhaseOf(id) /\ FuncOf(id)' = FuncOf(id)
                        /\ PendingOf(id)' = PendingOf(id)
  BY <1>1, <1>2 DEF PhaseOf, FuncOf, PendingOf, Active, RoutineOf
<1>5. QED BY <1>1, <1>3, <1>4 DEF Life!vars

\* The routine that runs is the one of the call, and it is not finished.
LEMMA SelfIs ==
  ASSUME IInv, pc \in {"entry", "yielded", "body"}
  PROVE  /\ ordinator.current = call.id /\ call.id \in Ids \ {Main} /\ call.op # "none"
         /\ Active(ordinator, call.id) /\ Self = RoutineOf(ordinator, call.id)
         /\ ordinator.routines[call.id] \in Nodes /\ Self \in Routine /\ ~Self.finished
         /\ ordinator.mem \in [Nodes -> Routine] /\ ordinator \in OrdinatorType
         /\ Lives[call.id] = IF pc = "entry" THEN "starting" ELSE "running"
         /\ Funcs[call.id] = Self.func /\ Pendings[call.id] = Self.exception
         /\ ordinator.mem[ordinator.routines[call.id]] = Self
<1>1. /\ ordinator.current = call.id /\ call.id \in Ids \ {Main} /\ call.op # "none"
      /\ Active(ordinator, call.id) /\ ~Self.finished
  BY DEF IInv, RunningInMap
<1>2. Self = RoutineOf(ordinator, call.id) BY <1>1 DEF Self
<1>3. /\ ordinator.mem \in [Nodes -> Routine] /\ ordinator \in OrdinatorType
      /\ ordinator.routines[call.id] \in Nodes
  BY <1>1 DEF IInv, TypeOK, OrdinatorType, Active
<1>4. QED BY <1>1, <1>2, <1>3 DEF Lives, Funcs, Pendings, PhaseOf, FuncOf, PendingOf, RoutineOf

\* The running routine ends, with what it throws or with what is pending.
LEMMA EndLife ==
  ASSUME IInv, CallMatches, pc \in {"entry", "yielded", "body"},
         NEW e \in Exceptions \cup {Self.exception}, EndWith(e)
  PROVE  /\ Lives' = [Lives EXCEPT ![call.id] = "done"] /\ Funcs' = Funcs
         /\ Pendings' = [Pendings EXCEPT ![call.id] = e]
         /\ UNCHANGED <<call, outcome>> /\ CallMatches'
<1>0. PICK id \in Ids : id = call.id BY SelfIs
<1> DEFINE n == ordinator.routines[id]
           r == [Self EXCEPT !.exception = e, !.finished = TRUE]
<1>1. /\ ordinator.current = id /\ id \in Ids \ {Main} /\ Active(ordinator, id)
      /\ n \in Nodes /\ Self \in Routine /\ ordinator.mem \in [Nodes -> Routine]
      /\ ordinator \in OrdinatorType /\ ordinator.mem[n] = Self
      /\ Self = RoutineOf(ordinator, id) /\ Funcs[id] = Self.func
  BY <1>0, SelfIs
<1>2. r.exception = e /\ r.finished /\ r.func = Self.func BY <1>1 DEF Routine
<1>3. /\ ordinator'.mem = [ordinator.mem EXCEPT ![n] = r] /\ ordinator'.current = Main
      /\ ordinator'.routines = ordinator.routines
  BY <1>1 DEF EndWith, Ended, OrdinatorType
<1>4. pc' = "back" /\ UNCHANGED <<call, outcome>> BY DEF EndWith
<1> HIDE DEF r
<1>5. Active(ordinator', id) /\ RoutineOf(ordinator', id) = r /\ Others(id)
  BY <1>1, <1>3, NodeIsOnes DEF IInv
<1>6. /\ Lives' = [Lives EXCEPT ![id] = PhaseOf(id)']
      /\ Funcs' = [Funcs EXCEPT ![id] = FuncOf(id)']
      /\ Pendings' = [Pendings EXCEPT ![id] = PendingOf(id)']
  BY <1>1, <1>3, <1>5, OneChanges
<1>7. PhaseOf(id)' = "done" /\ FuncOf(id)' = Funcs[id] /\ PendingOf(id)' = e
  BY <1>1, <1>2, <1>4, <1>5 DEF PhaseOf, FuncOf, PendingOf
<1>8. Funcs' = Funcs BY <1>6, <1>7 DEF Funcs
<1>9. CallMatches'
  <2>1. call.op = "kill" => e # NoExc BY <1>0, <1>1, ExcAssumption DEF CallMatches
  <2>2. QED BY <1>0, <1>2, <1>4, <1>5, <2>1 DEF CallMatches
<1>10. QED BY <1>0, <1>4, <1>6, <1>7, <1>8, <1>9

\* The steps of a routine; one that only gets out of yield is not seen.
LEMMA RoutineStepLife ==
  ASSUME IInv, CallMatches, RoutineStep
  PROVE  (Life!Next \/ UNCHANGED Life!vars) /\ CallMatches'
<1>1. pc \in {"entry", "yielded", "body"}
  BY DEF RoutineStep, Enter, SkipFunction, Return, Yield, GoOn, Unwind, Throw
<1>0. PICK id \in Ids : id = call.id BY <1>1, SelfIs
<1>2. /\ ordinator.current = id /\ id \in Ids \ {Main} /\ Active(ordinator, id)
      /\ Lives[id] = IF pc = "entry" THEN "starting" ELSE "running"
      /\ Funcs[id] = Self.func /\ Pendings[id] = Self.exception
      /\ ordinator.routines[id] \in Nodes /\ Self \in Routine /\ ~Self.finished
      /\ ordinator \in OrdinatorType /\ Self = RoutineOf(ordinator, id)
      /\ ordinator.mem \in [Nodes -> Routine] /\ ordinator.mem[ordinator.routines[id]] = Self
  BY <1>0, <1>1, SelfIs
<1>3. CASE Enter
  <2>1. /\ pc = "entry" /\ pc' = "body" /\ UNCHANGED <<ordinator, call, outcome>>
        /\ Self.func # NoFunc /\ Self.exception = NoExc
    BY <1>3 DEF Enter
  <2>2. Others(id) BY <2>1 DEF Others
  <2>3. /\ Lives' = [Lives EXCEPT ![id] = PhaseOf(id)']
        /\ Funcs' = [Funcs EXCEPT ![id] = FuncOf(id)']
        /\ Pendings' = [Pendings EXCEPT ![id] = PendingOf(id)']
    BY <1>2, <2>1, <2>2, OneChanges
  <2>4. PhaseOf(id)' = "running" /\ FuncOf(id)' = Funcs[id] /\ PendingOf(id)' = Pendings[id]
    BY <1>2, <2>1 DEF PhaseOf, FuncOf, PendingOf, Active, RoutineOf, Funcs, Pendings
  <2>5. Lives' = [Lives EXCEPT ![id] = "running"] /\ Funcs' = Funcs /\ Pendings' = Pendings
    BY <2>3, <2>4 DEF Funcs, Pendings
  <2>6. Life!Start(id) BY <1>2, <2>1, <2>5 DEF Life!Start, Lives, Funcs, Pendings
  <2>7. CallMatches' BY <2>1 DEF CallMatches
  <2>8. QED BY <1>2, <2>6, <2>7 DEF Life!Next
<1>4. CASE GoOn
  <2>1. pc = "yielded" /\ pc' = "body" /\ UNCHANGED <<ordinator, call, outcome>> BY <1>4 DEF GoOn
  <2>2. CallMatches' BY <2>1 DEF CallMatches
  <2>3. UNCHANGED Life!vars
    BY <2>1 DEF Life!vars, PhaseOf, FuncOf, PendingOf, Active, RoutineOf
  <2>4. QED BY <2>2, <2>3
<1>5. CASE SkipFunction
  <2>1. /\ pc = "entry" /\ (Self.func = NoFunc \/ Self.exception # NoExc)
        /\ EndWith(Self.exception)
    BY <1>5 DEF SkipFunction
  <2>2. /\ Lives' = [Lives EXCEPT ![id] = "done"] /\ Funcs' = Funcs
        /\ Pendings' = [Pendings EXCEPT ![id] = Self.exception]
        /\ UNCHANGED <<call, outcome>> /\ CallMatches'
    BY <1>0, <1>1, <2>1, EndLife
  <2>3. Pendings' = Pendings BY <1>2, <2>2 DEF Pendings
  <2>4. Life!SkipFunction(id)
    BY <1>2, <2>1, <2>2, <2>3 DEF Life!SkipFunction, Lives, Funcs, Pendings
  <2>5. QED BY <1>2, <2>2, <2>4 DEF Life!Next
<1>6. ASSUME NEW e \in Exceptions \cup {Self.exception}, pc \in {"yielded", "body"}, EndWith(e)
      PROVE  Life!Next /\ CallMatches'
  <2>1. /\ Lives' = [Lives EXCEPT ![id] = "done"] /\ Funcs' = Funcs
        /\ Pendings' = [Pendings EXCEPT ![id] = e]
        /\ UNCHANGED <<call, outcome>> /\ CallMatches'
    BY <1>0, <1>1, <1>6, EndLife
  <2>2. Life!End(id)
    BY <1>2, <1>6, <2>1 DEF Life!End, Lives, Funcs, Pendings
  <2>3. QED BY <1>2, <2>1, <2>2 DEF Life!Next
<1>7. CASE Yield
  <2> DEFINE r == [Self EXCEPT !.ctx = "yield"]
  <2>1. /\ pc = "body" /\ pc' = "back" /\ UNCHANGED <<call, outcome>>
        /\ ordinator' = Yielded(ordinator)
    BY <1>7 DEF Yield
  <2>2. /\ r.ctx = "yield" /\ ~r.finished /\ r.func = Self.func /\ r.exception = Self.exception
    BY <1>2 DEF Routine
  <2>3. /\ ordinator'.mem = [ordinator.mem EXCEPT ![ordinator.routines[id]] = r]
        /\ ordinator'.current = Main /\ ordinator'.routines = ordinator.routines
    BY <1>2, <2>1 DEF Yielded, OrdinatorType
  <2> HIDE DEF r
  <2>4. Active(ordinator', id) /\ RoutineOf(ordinator', id) = r /\ Others(id)
    BY <1>2, <2>3, NodeIsOnes DEF IInv
  <2>5. /\ Lives' = [Lives EXCEPT ![id] = PhaseOf(id)']
        /\ Funcs' = [Funcs EXCEPT ![id] = FuncOf(id)']
        /\ Pendings' = [Pendings EXCEPT ![id] = PendingOf(id)']
    BY <1>2, <2>3, <2>4, OneChanges
  <2>6. PhaseOf(id)' = "suspended" /\ FuncOf(id)' = Funcs[id] /\ PendingOf(id)' = Pendings[id]
    BY <1>2, <2>2, <2>3, <2>4 DEF PhaseOf, FuncOf, PendingOf
  <2>7. Lives' = [Lives EXCEPT ![id] = "suspended"] /\ Funcs' = Funcs /\ Pendings' = Pendings
    BY <2>5, <2>6 DEF Funcs, Pendings
  <2>8. Life!Yield(id) BY <1>2, <2>1, <2>7 DEF Life!Yield, Lives, Funcs, Pendings
  <2>9. CallMatches' BY <1>0, <1>2, <2>1, <2>2, <2>4 DEF CallMatches
  <2>10. QED BY <1>2, <2>8, <2>9 DEF Life!Next
<1>8. QED BY <1>3, <1>4, <1>5, <1>6, <1>7 DEF RoutineStep, Return, Unwind, Throw

\* The tail of resume and kill: the end is reported, or that there is none.
LEMMA ReportLife ==
  ASSUME IInv, CallMatches, ReportEnd \/ ReportAgain
  PROVE  Life!Next /\ CallMatches'
<1>1. /\ pc = "back" /\ pc' = "main" /\ call' = NoCall
  BY DEF ReportEnd, ReportAgain
<1>0. PICK id \in Ids : id = call.id BY <1>1 DEF IInv, RunningInMap
<1>2. /\ ordinator.current = Main /\ id \in Ids \ {Main} /\ Active(ordinator, id)
      /\ call.op \in {"resume", "kill"}
  BY <1>0, <1>1 DEF IInv, RunningInMap, TypeOK, Calls
<1>3. CallMatches' BY <1>1 DEF CallMatches, NoCall
<1>4. \A k \in Ids : Active(ordinator, k) /\ RoutineOf(ordinator, k).finished => k = id
  BY <1>0 DEF IInv, NoFinishedActive
<1>5. CASE ReportEnd
  <2>1. /\ RoutineOf(ordinator, id).finished /\ ordinator' = Collected(ordinator, id)
        /\ outcome' = EndResult(RoutineOf(ordinator, id).exception)
    BY <1>0, <1>5 DEF ReportEnd
  <2>2. /\ ordinator'.routines = [ordinator.routines EXCEPT ![id] = NoNode]
        /\ ordinator'.mem = ordinator.mem /\ ordinator'.current = Main
        /\ ordinator.routines \in [Ids -> Nodes \cup {NoNode}]
    BY <1>2, <2>1 DEF Collected, IInv, TypeOK, OrdinatorType
  <2>3. Others(id) /\ ~Active(ordinator', id) BY <1>2, <2>2 DEF Others, Active, RoutineOf
  <2>4. /\ Lives' = [Lives EXCEPT ![id] = PhaseOf(id)']
        /\ Funcs' = [Funcs EXCEPT ![id] = FuncOf(id)']
        /\ Pendings' = [Pendings EXCEPT ![id] = PendingOf(id)']
    BY <1>2, <2>2, <2>3, OneChanges
  <2>5. PhaseOf(id)' = "absent" /\ FuncOf(id)' = NoFunc /\ PendingOf(id)' = NoExc
    BY <2>3 DEF PhaseOf, FuncOf, PendingOf
  <2>6. Lives[id] = "done" /\ Pendings[id] = RoutineOf(ordinator, id).exception
    BY <1>2, <2>1 DEF Lives, Pendings, PhaseOf, PendingOf
  <2>7. outcome' = IF Pendings[id] # NoExc THEN Pendings[id] ELSE "FINISHED"
    BY <1>0, <1>2, <2>1, <2>6 DEF EndResult, CallMatches
  <2>8. Life!Report(id)
    BY <1>1, <1>2, <2>4, <2>5, <2>6, <2>7 DEF Life!Report, Lives, Funcs, Pendings, NoCall
  <2>9. QED BY <1>2, <1>3, <2>8 DEF Life!Next
<1>6. CASE ReportAgain
  <2>1. /\ ~RoutineOf(ordinator, id).finished /\ UNCHANGED ordinator
        /\ outcome' = IF call.op = "resume" THEN "AGAIN" ELSE "logic_error"
    BY <1>0, <1>6 DEF ReportAgain
  <2>2. \A k \in Ids : Lives[k] \notin {"starting", "running", "done"}
    BY <1>2, <1>4, <2>1 DEF Lives, PhaseOf
  <2>3. \A k \in Ids : PhaseOf(k)' = PhaseOf(k) /\ FuncOf(k)' = FuncOf(k)
                         /\ PendingOf(k)' = PendingOf(k)
    BY <1>2, <2>1 DEF PhaseOf, FuncOf, PendingOf, Active, RoutineOf
  <2>4. Life!Yielded
    BY <1>1, <1>2, <2>1, <2>2, <2>3 DEF Life!Yielded, Lives, NoCall
  <2>5. QED BY <1>3, <2>4 DEF Life!Next
<1>7. QED BY <1>5, <1>6

\* Every step is a step of RoutineLife or is not seen there.
LEMMA LifeStep ==
  ASSUME IInv, CallMatches, [Next]_vars
  PROVE  [Life!Next]_(Life!vars) /\ CallMatches'
<1>1. CASE CallerStep
  <2>1. ASSUME NEW id \in Ids, NEW f \in Functions \cup {NoFunc}, Create(id, f)
        PROVE  Life!Next /\ CallMatches'
    BY <2>1, CreateLife
  <2>2. ASSUME NEW id \in Ids, Resume(id) \/ SwitchFails(id)
        PROVE  Life!Next /\ CallMatches'
    BY <2>2, SwitchLife
  <2>3. ASSUME NEW id \in Ids, NEW e \in Exceptions \cup {NoExc}, Kill(id, e)
        PROVE  Life!Next /\ CallMatches'
    BY <2>3, SwitchLife
  <2>4. QED BY <1>1, <2>1, <2>2, <2>3, RefusedLife, HiddenLife DEF CallerStep
<1>2. CASE RoutineStep BY <1>2, RoutineStepLife
<1>3. CASE ReportEnd \/ ReportAgain BY <1>3, ReportLife
<1>4. CASE UNCHANGED vars
  BY <1>4 DEF vars, Life!vars, CallMatches, PhaseOf, FuncOf, PendingOf, Active, RoutineOf
<1>5. QED BY <1>1, <1>2, <1>3, <1>4 DEF Next

\* Whatever the caller and the routines do, the library keeps its promise: ids
\* name at most one routine, every routine runs its own function from its
\* beginning, and its end is reported once, with the exception it ended with.
\* Free list, reused nodes and saved contexts are not to be seen
\* (coroutine.cpp): Coroutine implements RoutineLife.
THEOREM PromiseIsKept == Spec => ImplementsRoutineLife
<1>1. Init => Life!Init /\ CallMatches
  <2>1. Init => CallMatches BY DEF Init, NoCall, CallMatches
  <2>2. QED BY <2>1, LifeInit
<1>2. IInv /\ CallMatches /\ [Next]_vars => [Life!Next]_(Life!vars) /\ CallMatches'
  BY LifeStep
<1>3. QED BY <1>1, <1>2, Inductive, PTL DEF Spec, ImplementsRoutineLife, Life!Spec
==============================================================================
