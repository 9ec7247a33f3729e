--------------------------- MODULE EpollWorkerProofs ---------------------------
(***************************************************************************)
(* Proofs about EpollWorker for every number of threads, every set of      *)
(* descriptors and connections, and every choice of failures.              *)
(***************************************************************************)
EXTENDS EpollWorker, SequenceTheorems, FiniteSetTheorems, WellFoundedInduction, TLAPS

(***************************************************************************)
(* The inductive invariant                                                 *)
(***************************************************************************)
Started(o, fd) == O!Active(o, fd) /\ O!RoutineOf(o, fd).ctx # "entry"

\* The loop sets no cap on the free list, so each of its entries has a node; an
\* active routine is not finished; descriptor 0 names no routine that can run.
OrdinatorSound(o) ==
  /\ o \in O!OrdinatorType /\ O!Disjoint(o)
  /\ o.freelist_max_size = -1 /\ o.finished \in Seq(Nodes)
  /\ \A fd \in Fds : O!Active(o, fd) => ~O!RoutineOf(o, fd).finished
  /\ 0 \in Fds => ~Started(o, 0)

\* accept_connections has a descriptor only between accept and add_to_event_loop.
HeldMatches == \A w \in Workers : held[w] # NoFd <=> pc[w] = "register"

\* A batch exists while it is handled, and names each descriptor once.
BatchMatches ==
  \A w \in Workers :
    /\ pc[w] \notin {"events", "accept", "register"} => batch[w] = {}
    /\ \A d, e \in batch[w] \ {AcceptEvent} : d.fd = e.fd => d = e

Has(w, fd) == fd \in clients[w] \/ held[w] = fd

\* DescriptorsOwnedOnce without counting: any number of threads may run.
OwnedOnce ==
  \A fd \in Fds :
    /\ fdTable[fd] # NoConn <=> \E w \in Workers : Has(w, fd)
    /\ \A v, w \in Workers : Has(v, fd) /\ Has(w, fd) => v = w
    /\ \A w \in Workers : ~(fd \in clients[w] /\ held[w] = fd)

IInv ==
  /\ TypeOK /\ HeldMatches /\ BatchMatches /\ OwnedOnce
  /\ registered = clients
  /\ \A w \in Workers : OrdinatorSound(ord[w])
  /\ ClientHasRoutine /\ NoDanglingClient /\ EventsAreCurrent /\ OnlyForeignCrash

(***************************************************************************)
(* Descriptors                                                             *)
(***************************************************************************)
\* Every set of naturals that is not empty has a least element.
LEMMA LeastNatural == ASSUME NEW S \in SUBSET Nat, S # {} PROVE \E m \in S : \A x \in S : m <= x
<1> DEFINE R == {ss \in Nat \X Nat : ss[1] < ss[2]}
<1>1. IsWellFoundedOn(OpToRel(<, Nat), Nat) BY NatLessThanWellFounded
<1>2. OpToRel(<, Nat) = R BY DEF OpToRel
<1>3. PICK m \in S : \A x \in S : <<x, m>> \notin R
  BY <1>1, <1>2, WFMin, ZenonT(60)
<1>4. \A x \in S : ~(x < m) BY <1>3
<1>5. m \in Nat /\ \A x \in S : x \in Nat OBVIOUS
<1>6. QED BY <1>4, <1>5

\* The descriptor that accept returns is a free one.
LEMMA LowestFree == FreeFds # {} => Lowest(FreeFds) \in FreeFds
<1>1. FreeFds \in SUBSET Nat BY FdsAssumption DEF FreeFds
<1>2. QED BY <1>1, LeastNatural DEF Lowest

\* The owners of a descriptor, counted.
LEMMA OwnersCounted == IInv => DescriptorsOwnedOnce
<1> SUFFICES ASSUME IInv, NEW fd \in Fds
             PROVE  Cardinality({w \in Workers : fd \in clients[w]})
                      + Cardinality({w \in Workers : held[w] = fd})
                    = IF fdTable[fd] = NoConn THEN 0 ELSE 1
  BY DEF DescriptorsOwnedOnce
<1> DEFINE C == {w \in Workers : fd \in clients[w]}
           H == {w \in Workers : held[w] = fd}
<1>1. CASE fdTable[fd] = NoConn
  <2>1. C = {} /\ H = {} BY <1>1 DEF IInv, OwnedOnce, Has
  <2>2. Cardinality(C) = 0 /\ Cardinality(H) = 0 BY <2>1, FS_EmptySet
  <2>3. QED BY <1>1, <2>2
<1>2. CASE fdTable[fd] # NoConn
  <2>1. PICK w \in Workers : Has(w, fd) BY <1>2 DEF IInv, OwnedOnce
  <2>2. \A v \in Workers : (fd \in clients[v] \/ held[v] = fd) <=> v = w
    BY <2>1 DEF IInv, OwnedOnce, Has
  <2>3. ~(fd \in clients[w] /\ held[w] = fd) BY DEF IInv, OwnedOnce
  <2>4. (C = {w} /\ H = {}) \/ (C = {} /\ H = {w})
    <3>1. CASE fd \in clients[w]
      <4>1. C = {w} BY <2>2, <3>1
      <4>2. H = {} BY <2>2, <2>3, <3>1
      <4>3. QED BY <4>1, <4>2
    <3>2. CASE held[w] = fd
      <4>1. H = {w} BY <2>2, <3>2
      <4>2. C = {} BY <2>2, <2>3, <3>2
      <4>3. QED BY <4>1, <4>2
    <3>3. QED BY <2>2, <3>1, <3>2
  <2>5. Cardinality({w}) = 1 /\ Cardinality({}) = 0 BY FS_EmptySet, FS_Singleton
  <2> HIDE DEF C, H
  <2>6. Cardinality(C) + Cardinality(H) = 1
    <3>1. CASE C = {w} /\ H = {} BY <3>1, <2>5
    <3>2. CASE C = {} /\ H = {w} BY <3>2, <2>5
    <3>3. QED BY <2>4, <3>1, <3>2
  <2>7. QED BY <1>2, <2>6 DEF C, H
<1>3. QED BY <1>1, <1>2

(***************************************************************************)
(* What the worker's calls do to its thread's ordinator                    *)
(***************************************************************************)
\* A routine without a node finds one.
LEMMA StorageFound ==
  ASSUME NEW f \in [Fds -> Nodes \cup {NoNode}], NEW fd \in Fds, f[fd] = NoNode
  PROVE  \E n \in Nodes : \A x \in Fds : f[x] # n
<1> SUFFICES ASSUME \A n \in Nodes : \E x \in Fds : f[x] = n PROVE FALSE OBVIOUS
<1> DEFINE S == Fds \ {fd}
           g == [x \in {y \in S : f[y] \in Nodes} |-> f[x]]
           D == {y \in S : f[y] \in Nodes}
<1>1. g \in Surjection(D, Nodes)
  BY NodesAssumption DEF Surjection
<1>2. IsFiniteSet(S) /\ Cardinality(S) = Cardinality(Fds) - 1 /\ Cardinality(Fds) \in Nat
  BY StorageAssumption, FS_RemoveElement, FS_CardinalityType
<1>3. IsFiniteSet(D) /\ Cardinality(D) <= Cardinality(S) BY <1>2, FS_Subset
<1>4. IsFiniteSet(Nodes) /\ Cardinality(Nodes) <= Cardinality(D) BY <1>1, <1>3, FS_Surjection
<1>5. Cardinality(Nodes) \in Nat /\ Cardinality(D) \in Nat BY <1>3, <1>4, FS_CardinalityType
<1>6. QED BY <1>2, <1>3, <1>4, <1>5, StorageAssumption

\* create has an outcome.
LEMMA CreationExists ==
  ASSUME NEW o, OrdinatorSound(o), NEW fd \in Fds
  PROVE  O!Creations(o, fd, "client_routine") # {}
<1>1. CASE o.finished # << >> \/ O!Active(o, fd) BY <1>1 DEF O!Creations
<1>2. CASE o.finished = << >> /\ ~O!Active(o, fd)
  <2>1. o.routines \in [Fds -> Nodes \cup {NoNode}] BY DEF OrdinatorSound, O!OrdinatorType
  <2>2. PICK n \in Nodes : \A x \in Fds : o.routines[x] # n
    BY <1>2, <2>1, StorageFound DEF O!Active
  <2>3. n \in O!Unowned(o) BY <1>2, <2>2 DEF O!Unowned
  <2>4. QED BY <1>2, <2>3 DEF O!Creations
<1>3. QED BY <1>1, <1>2

\* create makes or keeps a routine for the descriptor and disturbs no other one.
LEMMA CreateSound ==
  ASSUME NEW o, OrdinatorSound(o), NEW fd \in Fds,
         NEW p \in O!Creations(o, fd, "client_routine")
  PROVE  /\ OrdinatorSound(p) /\ O!Active(p, fd)
         /\ \A x \in Fds : O!Active(o, x) => O!Active(p, x)
         /\ \A x \in Fds : Started(p, x) => Started(o, x)
<1> DEFINE s == o.finished
<1>1. /\ o \in O!OrdinatorType /\ o.routines \in [Fds -> Nodes \cup {NoNode}]
      /\ o.mem \in [Nodes -> O!Routine] /\ s \in Seq(Nodes)
      /\ o.freelist_max_size = -1 /\ o.current \in Fds \cup {0}
  BY DEF OrdinatorSound, O!OrdinatorType, O!Main
<1>2. CASE s # << >>
  <2> DEFINE n == s[Len(s)]
             t == SubSeq(s, 1, Len(s) - 1)
  <2>1. p = O!Reused(o, fd, "client_routine") BY <1>2 DEF O!Creations
  <2>2. Len(s) \in Nat \ {0} /\ n \in Nodes BY <1>1, <1>2, EmptySeq, ElementOfSeq
  <2>3. t \in Seq(Nodes) /\ Len(t) = Len(s) - 1 /\ \A i \in 1..Len(t) : t[i] = s[i]
    <3>1. \A i \in 1..(Len(s) - 1) : s[i] \in Nodes BY <1>1, <2>2, ElementOfSeq
    <3>2. /\ t \in Seq(Nodes) /\ Len(t) = IF 1 <= Len(s) - 1 THEN Len(s) - 1 - 1 + 1 ELSE 0
          /\ \A i \in 1..(Len(s) - 1 - 1 + 1) : t[i] = s[1 + i - 1]
      BY <1>1, <2>2, <3>1, SubSeqProperties
    <3>3. QED BY <2>2, <3>2
  <2>4. /\ p.routines = [o.routines EXCEPT ![fd] = IF @ = NoNode THEN n ELSE @]
        /\ p.mem = [o.mem EXCEPT ![n] = O!Reset(@, "client_routine")]
        /\ p.finished = t /\ p.current = o.current /\ p.freelist_max_size = -1
    BY <1>1, <2>1 DEF O!OrdinatorType, O!Reused
  <2>5. p.mem \in [Nodes -> O!Routine] /\ p.mem[n].ctx = "entry" /\ ~p.mem[n].finished
    <3>1. o.mem[n] \in O!Routine BY <1>1, <2>2
    <3> DEFINE r == O!Reset(o.mem[n], "client_routine")
    <3>2. r \in O!Routine /\ r.ctx = "entry" /\ ~r.finished
      BY <3>1 DEF O!Reset, O!Routine
    <3>3. p.mem = [o.mem EXCEPT ![n] = r] BY <2>4
    <3> HIDE DEF n, r
    <3>4. QED BY <1>1, <2>2, <3>2, <3>3
  <2>6. p \in O!OrdinatorType
    <3>1. p.finished \in Seq(Nodes \cup {NoNode}) BY <2>3, <2>4, SeqMonotonic
    <3>2. p = [routines |-> p.routines, mem |-> p.mem, finished |-> p.finished,
               current |-> p.current, freelist_max_size |-> p.freelist_max_size]
      BY <1>1, <2>1 DEF O!OrdinatorType, O!Reused
    <3> HIDE DEF n, t, s
    <3>3. p.routines \in [Fds -> Nodes \cup {NoNode}] BY <1>1, <2>2, <2>4
    <3>4. QED BY <1>1, <2>4, <2>5, <3>1, <3>2, <3>3 DEF O!OrdinatorType, O!Main
  <2>7. \A x \in Fds : o.routines[x] # n BY <1>1, <2>2, NodesAssumption DEF OrdinatorSound, O!Disjoint
  <2>8. \A x \in Fds : p.routines[x] = o.routines[x]
                       \/ (x = fd /\ o.routines[x] = NoNode /\ p.routines[x] = n)
    BY <1>1, <2>4
  <2> HIDE DEF n, t
  <2>9. O!Disjoint(p)
    <3>1. ASSUME NEW i \in Fds, NEW j \in Fds, O!Active(p, i), p.routines[i] = p.routines[j]
          PROVE  i = j
      BY <3>1, <2>7, <2>8 DEF OrdinatorSound, O!Disjoint, O!Active
    <3>2. ASSUME NEW i \in 1..Len(t), NEW x \in Fds PROVE p.routines[x] # t[i]
      <4>1. i \in 1..Len(s) /\ i # Len(s) /\ t[i] = s[i] /\ s[i] \in Nodes
        BY <1>1, <2>2, <2>3, ElementOfSeq
      <4>2. o.routines[x] # s[i] /\ s[i] # n
        BY <4>1, <2>2, NodesAssumption DEF OrdinatorSound, O!Disjoint, n
      <4>3. QED BY <4>1, <4>2, <2>8
    <3>3. ASSUME NEW i \in 1..Len(t), NEW j \in 1..Len(t), t[i] = t[j] PROVE i = j
      <4>1. i \in 1..Len(s) /\ j \in 1..Len(s) /\ s[i] = s[j] /\ s[i] # NoNode
        BY <1>1, <2>2, <2>3, <3>3, ElementOfSeq, NodesAssumption
      <4>2. QED BY <4>1 DEF OrdinatorSound, O!Disjoint
    <3>4. p.finished = t BY <2>4
    <3>5. QED BY <3>1, <3>2, <3>3, <3>4 DEF O!Disjoint
  <2>10. \A x \in Fds : O!Active(o, x) =>
           /\ p.routines[x] = o.routines[x] /\ o.routines[x] \in Nodes
           /\ p.mem[o.routines[x]] = o.mem[o.routines[x]]
    BY <1>1, <2>2, <2>4, <2>7, <2>8 DEF O!Active
  <2>11. \A x \in Fds : O!Active(p, x) => O!Active(o, x) \/ p.routines[x] = n
    BY <2>8 DEF O!Active
  <2>12. O!Active(p, fd) /\ \A x \in Fds : O!Active(o, x) => O!Active(p, x)
    BY <1>1, <2>2, <2>4, <2>10, NodesAssumption DEF O!Active
  <2>13. \A x \in Fds : Started(p, x) => Started(o, x)
    BY <2>5, <2>10, <2>11 DEF Started, O!RoutineOf
  <2>14. \A x \in Fds : O!Active(p, x) => ~O!RoutineOf(p, x).finished
    BY <2>5, <2>10, <2>11 DEF OrdinatorSound, O!RoutineOf
  <2>15. QED BY <2>3, <2>4, <2>6, <2>9, <2>12, <2>13, <2>14 DEF OrdinatorSound
<1>3. CASE s = << >> /\ O!Active(o, fd)
  <2>1. p = o BY <1>3 DEF O!Creations
  <2>2. QED BY <1>3, <2>1
<1>4. CASE s = << >> /\ ~O!Active(o, fd)
  <2>1. PICK n \in Nodes : n \in O!Unowned(o) /\ p = O!Emplaced(o, fd, "client_routine", n)
    BY <1>4 DEF O!Creations, O!Unowned
  <2>2. /\ p.routines = [o.routines EXCEPT ![fd] = n]
        /\ p.mem = [o.mem EXCEPT ![n] = O!NewRoutine("client_routine")]
        /\ p.finished = << >> /\ p.current = o.current /\ p.freelist_max_size = -1
    BY <1>1, <1>4, <2>1 DEF O!OrdinatorType, O!Emplaced
  <2>3. p.mem \in [Nodes -> O!Routine] /\ p.mem[n].ctx = "entry" /\ ~p.mem[n].finished
    <3> DEFINE r == O!NewRoutine("client_routine")
    <3>1. r \in O!Routine /\ r.ctx = "entry" /\ ~r.finished
      BY DEF O!NewRoutine, O!Routine
    <3>2. p.mem = [o.mem EXCEPT ![n] = r] BY <2>2
    <3> HIDE DEF r
    <3>3. QED BY <1>1, <3>1, <3>2
  <2>4. p \in O!OrdinatorType
    <3>1. p.routines \in [Fds -> Nodes \cup {NoNode}] BY <1>1, <2>1, <2>2
    <3>2. p.finished \in Seq(Nodes \cup {NoNode}) BY <2>2, EmptySeq
    <3>3. p = [routines |-> p.routines, mem |-> p.mem, finished |-> p.finished,
               current |-> p.current, freelist_max_size |-> p.freelist_max_size]
      BY <1>1, <2>1 DEF O!OrdinatorType, O!Emplaced
    <3>4. QED BY <1>1, <2>2, <2>3, <3>1, <3>2, <3>3 DEF O!OrdinatorType, O!Main
  <2>5. \A x \in Fds : o.routines[x] # n BY <2>1 DEF O!Unowned
  <2>6. \A x \in Fds : p.routines[x] = o.routines[x] \/ (x = fd /\ p.routines[x] = n)
    BY <1>1, <2>2
  <2>7. O!Disjoint(p)
    <3>1. ASSUME NEW i \in Fds, NEW j \in Fds, O!Active(p, i), p.routines[i] = p.routines[j]
          PROVE  i = j
      BY <3>1, <2>5, <2>6 DEF OrdinatorSound, O!Disjoint, O!Active
    <3>2. p.finished = << >> /\ Len(p.finished) = 0 BY <2>2
    <3>3. QED BY <3>1, <3>2 DEF O!Disjoint
  <2>8. \A x \in Fds : O!Active(o, x) =>
           /\ p.routines[x] = o.routines[x] /\ o.routines[x] \in Nodes
           /\ p.mem[o.routines[x]] = o.mem[o.routines[x]]
    BY <1>1, <1>4, <2>2, <2>5, <2>6 DEF O!Active
  <2>9. \A x \in Fds : O!Active(p, x) => O!Active(o, x) \/ p.routines[x] = n
    BY <2>6 DEF O!Active
  <2>10. O!Active(p, fd) /\ \A x \in Fds : O!Active(o, x) => O!Active(p, x)
    BY <1>1, <2>1, <2>2, <2>8, NodesAssumption DEF O!Active
  <2>11. \A x \in Fds : Started(p, x) => Started(o, x)
    BY <2>3, <2>8, <2>9 DEF Started, O!RoutineOf
  <2>12. \A x \in Fds : O!Active(p, x) => ~O!RoutineOf(p, x).finished
    BY <2>3, <2>8, <2>9 DEF OrdinatorSound, O!RoutineOf
  <2>13. QED BY <1>1, <1>4, <2>2, <2>4, <2>7, <2>10, <2>11, <2>12 DEF OrdinatorSound
<1>5. QED BY <1>2, <1>3, <1>4

\* The routine of fd leaves the map as r, and its node goes to the free list.
Removed(o, fd, r) ==
  [routines |-> [o.routines EXCEPT ![fd] = NoNode],
   mem |-> [o.mem EXCEPT ![o.routines[fd]] = r],
   finished |-> Append(o.finished, o.routines[fd]),
   current |-> 0, freelist_max_size |-> o.freelist_max_size]

\* A routine that has ended moves from the map to the free list, whatever it left.
LEMMA RemovalSound ==
  ASSUME NEW o, OrdinatorSound(o), NEW fd \in Fds, O!Active(o, fd), NEW r \in O!Routine,
         NEW p, p = Removed(o, fd, r)
  PROVE  /\ OrdinatorSound(p)
         /\ \A x \in Fds : O!Active(p, x) <=> O!Active(o, x) /\ x # fd
         /\ \A x \in Fds : O!Active(p, x) => O!RoutineOf(p, x) = O!RoutineOf(o, x)
<1> DEFINE s == o.finished
           n == o.routines[fd]
<1>1. /\ o \in O!OrdinatorType /\ o.routines \in [Fds -> Nodes \cup {NoNode}]
      /\ o.mem \in [Nodes -> O!Routine] /\ s \in Seq(Nodes) /\ Len(s) \in Nat
      /\ o.freelist_max_size = -1 /\ n \in Nodes
  BY LenProperties DEF OrdinatorSound, O!OrdinatorType, O!Active
<1>2. /\ p.routines = [o.routines EXCEPT ![fd] = NoNode] /\ p.mem = [o.mem EXCEPT ![n] = r]
      /\ p.finished = Append(s, n) /\ p.current = 0 /\ p.freelist_max_size = -1
      /\ p = [routines |-> p.routines, mem |-> p.mem, finished |-> p.finished,
              current |-> p.current, freelist_max_size |-> p.freelist_max_size]
  BY <1>1 DEF Removed
<1> HIDE DEF n, s
<1>3. /\ p.finished \in Seq(Nodes) /\ Len(p.finished) = Len(s) + 1
      /\ \A i \in 1..Len(s) : p.finished[i] = s[i]
      /\ p.finished[Len(s) + 1] = n
  <2>1. p.finished = Append(s, n) BY <1>2
  <2>2. s \in Seq(Nodes) /\ n \in Nodes BY <1>1
  <2>3. /\ Append(s, n) \in Seq(Nodes) /\ Len(Append(s, n)) = Len(s) + 1
        /\ \A i \in 1..Len(s) : Append(s, n)[i] = s[i]
        /\ Append(s, n)[Len(s) + 1] = n
    BY <2>2, AppendProperties
  <2>4. QED BY <2>1, <2>3
<1>4. p \in O!OrdinatorType
  <2>1. p.finished \in Seq(Nodes \cup {NoNode}) BY <1>3, SeqMonotonic
  <2>2. p.routines \in [Fds -> Nodes \cup {NoNode}] /\ p.mem \in [Nodes -> O!Routine]
    BY <1>1, <1>2
  <2>3. p.current \in Fds \cup {0} /\ p.freelist_max_size \in Int BY <1>2
  <2>4. QED BY <1>2, <2>1, <2>2, <2>3 DEF O!OrdinatorType, O!Main
<1>5. \A x \in Fds : p.routines[x] = IF x = fd THEN NoNode ELSE o.routines[x]
  BY <1>1, <1>2
<1>6. O!Disjoint(p)
  <2>1. ASSUME NEW i \in Fds, NEW j \in Fds, O!Active(p, i), p.routines[i] = p.routines[j]
        PROVE  i = j
    BY <2>1, <1>5 DEF OrdinatorSound, O!Disjoint, O!Active
  <2>2. ASSUME NEW i \in 1..Len(p.finished), NEW x \in Fds, p.routines[x] # NoNode
        PROVE  p.routines[x] # p.finished[i]
    <3>1. x # fd /\ p.routines[x] = o.routines[x] /\ o.routines[x] # NoNode BY <1>5, <2>2
    <3>2. o.routines[x] # n BY <3>1 DEF OrdinatorSound, O!Disjoint, O!Active, n
    <3>3. CASE i = Len(s) + 1 BY <1>3, <3>1, <3>2, <3>3
    <3>4. CASE i \in 1..Len(s)
      <4>1. s[i] # NoNode BY <1>1, <3>4, ElementOfSeq, NodesAssumption
      <4>2. QED BY <1>3, <3>1, <3>4, <4>1 DEF OrdinatorSound, O!Disjoint, s
    <3>5. QED BY <1>1, <1>3, <3>3, <3>4
  <2>3. \A i \in 1..Len(s) : s[i] # n /\ s[i] # NoNode
    BY <1>1, ElementOfSeq, NodesAssumption DEF OrdinatorSound, O!Disjoint, s, n
  <2>4. ASSUME NEW i \in 1..Len(p.finished), NEW j \in 1..Len(p.finished),
               p.finished[i] = p.finished[j]
        PROVE  i = j
    <3>1. CASE i \in 1..Len(s) /\ j \in 1..Len(s)
      BY <1>3, <2>3, <2>4, <3>1 DEF OrdinatorSound, O!Disjoint, s
    <3>2. CASE ~(i \in 1..Len(s) /\ j \in 1..Len(s))
      BY <1>1, <1>3, <2>3, <2>4, <3>2
    <3>3. QED BY <3>1, <3>2
  <2>5. \A i \in 1..Len(p.finished), x \in Fds :
          p.finished[i] # NoNode => p.routines[x] # p.finished[i]
    BY <2>2
  <2>6. QED BY <2>1, <2>4, <2>5 DEF O!Disjoint
<1>7. \A x \in Fds : O!Active(p, x) <=> O!Active(o, x) /\ x # fd BY <1>5 DEF O!Active
<1>8. \A x \in Fds : O!Active(p, x) => O!RoutineOf(p, x) = O!RoutineOf(o, x)
  <2>1. ASSUME NEW x \in Fds, O!Active(p, x) PROVE O!RoutineOf(p, x) = O!RoutineOf(o, x)
    <3>1. x # fd /\ p.routines[x] = o.routines[x] /\ o.routines[x] \in Nodes
      BY <1>1, <1>5, <2>1 DEF O!Active
    <3>2. o.routines[x] # n BY <1>1, <3>1, NodesAssumption DEF OrdinatorSound, O!Disjoint, O!Active, n
    <3>3. QED BY <1>1, <1>2, <3>1, <3>2 DEF O!RoutineOf
  <2>2. QED BY <2>1
<1>9. QED BY <1>2, <1>3, <1>4, <1>6, <1>7, <1>8 DEF OrdinatorSound, Started

\* RunToEnd, of a routine that was killed or not, is such a removal.
LEMMA RunToEndRemoves ==
  ASSUME NEW o, OrdinatorSound(o), NEW fd \in Fds, O!CanSwitchTo(o, fd),
         NEW e \in {"null", "IoError", "EpollError"},
         NEW q \in {o, O!Killed(o, fd, "EpollError")}
  PROVE  \E r \in O!Routine :
           O!Collected(O!Ended(O!SwitchedTo(q, fd), e), fd) = Removed(o, fd, r)
<1> DEFINE n == o.routines[fd]
           v == O!SwitchedTo(q, fd)
           u == O!Ended(v, e)
           r == [q.mem[n] EXCEPT !.exception = e, !.finished = TRUE]
<1>1. /\ o \in O!OrdinatorType /\ n \in Nodes /\ o.mem \in [Nodes -> O!Routine]
      /\ o.mem[n] \in O!Routine /\ o.freelist_max_size = -1
  BY DEF OrdinatorSound, O!OrdinatorType, O!CanSwitchTo, O!Active
<1>2. \E x \in O!Routine :
        q = [routines |-> o.routines, mem |-> [o.mem EXCEPT ![n] = x], finished |-> o.finished,
             current |-> o.current, freelist_max_size |-> o.freelist_max_size]
  <2>1. CASE q = o
    <3>1. o = [routines |-> o.routines, mem |-> o.mem, finished |-> o.finished,
               current |-> o.current, freelist_max_size |-> o.freelist_max_size]
      BY <1>1 DEF O!OrdinatorType
    <3>2. o.mem = [o.mem EXCEPT ![n] = o.mem[n]] BY <1>1
    <3>3. QED BY <1>1, <2>1, <3>1, <3>2
  <2>2. CASE q = O!Killed(o, fd, "EpollError")
    <3> DEFINE x == [o.mem[n] EXCEPT !.exception = "EpollError"]
    <3>1. x \in O!Routine BY <1>1 DEF O!Routine
    <3>2. q = [routines |-> o.routines, mem |-> [o.mem EXCEPT ![n] = x], finished |-> o.finished,
               current |-> o.current, freelist_max_size |-> o.freelist_max_size]
      BY <1>1, <2>2 DEF O!Killed, O!OrdinatorType
    <3>3. QED BY <3>1, <3>2
  <2>3. QED BY <2>1, <2>2
<1>3. PICK x \in O!Routine :
        q = [routines |-> o.routines, mem |-> [o.mem EXCEPT ![n] = x], finished |-> o.finished,
             current |-> o.current, freelist_max_size |-> o.freelist_max_size]
  BY <1>2
<1>4. /\ v = [routines |-> o.routines, mem |-> [o.mem EXCEPT ![n] = x], finished |-> o.finished,
              current |-> fd, freelist_max_size |-> o.freelist_max_size]
      /\ q.mem[n] = x
  BY <1>1, <1>3 DEF O!SwitchedTo
<1>5. r \in O!Routine /\ r = [x EXCEPT !.exception = e, !.finished = TRUE]
  BY <1>4 DEF O!Routine
<1>6. u = [routines |-> o.routines, mem |-> [o.mem EXCEPT ![n] = r], finished |-> o.finished,
           current |-> 0, freelist_max_size |-> o.freelist_max_size]
  <2> DEFINE m == [o.mem EXCEPT ![n] = x]
             k == [m EXCEPT ![n] = [x EXCEPT !.exception = e]]
  <2>1. v.mem = m /\ v.routines[v.current] = n /\ m[n] = x BY <1>1, <1>4
  <2>2. k[n] = [x EXCEPT !.exception = e] BY <1>1
  <2>3. [k EXCEPT ![n] = [k[n] EXCEPT !.finished = TRUE]] = [o.mem EXCEPT ![n] = r]
    BY <1>1, <1>5, <2>2 DEF O!Routine
  <2> HIDE DEF r, v, m
  <2>4. u = [v EXCEPT !.mem = [k EXCEPT ![n] = [k[n] EXCEPT !.finished = TRUE]], !.current = 0]
    <3>1. u = [v EXCEPT !.mem[n].exception = e, !.mem[n].finished = TRUE, !.current = 0]
      BY <2>1 DEF O!Ended, O!Main
    <3> DEFINE v1 == [v EXCEPT !.mem = k]
    <3>2. v1 = [v EXCEPT !.mem[n].exception = e] BY <2>1
    <3>3. v1.mem = k BY <1>4
    <3> HIDE DEF k
    <3>4. u = [v1 EXCEPT !.mem[n].finished = TRUE, !.current = 0] BY <3>1, <3>2
    <3>5. QED BY <3>3, <3>4
  <2> HIDE DEF u
  <2>5. QED BY <1>4, <2>3, <2>4
<1> HIDE DEF r, u
<1>7. O!Collected(u, fd) = Removed(o, fd, r)
  <2>1. O!HasRoom(u) BY <1>1, <1>6 DEF O!HasRoom
  <2>2. u.routines = o.routines /\ u.finished = o.finished BY <1>6
  <2>3. O!Collected(u, fd) = [u EXCEPT !.routines = [o.routines EXCEPT ![fd] = NoNode],
                                       !.finished = Append(o.finished, n)]
    BY <2>1, <2>2 DEF O!Collected
  <2>4. QED BY <1>6, <2>3 DEF Removed
<1>8. QED BY <1>5, <1>7 DEF u

\* A turn of a routine that yields.
LEMMA YieldSound ==
  ASSUME NEW o, OrdinatorSound(o), NEW fd \in Fds, O!CanSwitchTo(o, fd),
         NEW p, p = O!Yielded(O!SwitchedTo(o, fd))
  PROVE  /\ OrdinatorSound(p)
         /\ \A x \in Fds : O!Active(p, x) <=> O!Active(o, x)
         /\ \A x \in Fds : Started(p, x) <=> Started(o, x) \/ x = fd
<1> DEFINE n == o.routines[fd]
           r == [o.mem[n] EXCEPT !.ctx = "yield"]
<1>1. /\ o \in O!OrdinatorType /\ o.routines \in [Fds -> Nodes \cup {NoNode}]
      /\ o.mem \in [Nodes -> O!Routine] /\ n \in Nodes /\ fd # 0
  BY DEF OrdinatorSound, O!OrdinatorType, O!CanSwitchTo, O!Active, O!Main
<1>2. r \in O!Routine /\ r.ctx # "entry" /\ ~r.finished
  BY <1>1 DEF O!Routine, O!CanSwitchTo, O!RoutineOf
<1>3. /\ p.routines = o.routines /\ p.mem = [o.mem EXCEPT ![n] = r] /\ p.finished = o.finished
      /\ p.current = 0 /\ p.freelist_max_size = o.freelist_max_size
      /\ p = [routines |-> p.routines, mem |-> p.mem, finished |-> p.finished,
              current |-> p.current, freelist_max_size |-> p.freelist_max_size]
  BY <1>1 DEF O!Yielded, O!SwitchedTo, O!OrdinatorType, O!Main
<1> HIDE DEF r, n
<1>4. p \in O!OrdinatorType BY <1>1, <1>2, <1>3 DEF O!OrdinatorType, O!Main
<1>5. \A x \in Fds : O!Active(p, x) <=> O!Active(o, x) BY <1>3 DEF O!Active
<1>6. \A x \in Fds : O!Active(o, x) =>
        O!RoutineOf(p, x) = IF x = fd THEN r ELSE O!RoutineOf(o, x)
  <2>1. ASSUME NEW x \in Fds, O!Active(o, x)
        PROVE  O!RoutineOf(p, x) = IF x = fd THEN r ELSE O!RoutineOf(o, x)
    <3>1. o.routines[x] \in Nodes BY <1>1, <2>1 DEF O!Active
    <3>2. o.routines[x] = n <=> x = fd
      BY <2>1 DEF OrdinatorSound, O!Disjoint, n
    <3>3. QED BY <1>1, <1>3, <3>1, <3>2 DEF O!RoutineOf
  <2>2. QED BY <2>1
<1>7. O!Disjoint(p) BY <1>3 DEF OrdinatorSound, O!Disjoint, O!Active
<1>8. O!Active(o, fd) BY DEF O!CanSwitchTo
<1>9. \A x \in Fds : Started(p, x) <=> Started(o, x) \/ x = fd
  BY <1>2, <1>5, <1>6, <1>8 DEF Started
<1>10. QED BY <1>1, <1>2, <1>3, <1>4, <1>5, <1>6, <1>7, <1>9 DEF OrdinatorSound

(***************************************************************************)
(* Steps that leave clients, descriptors and routines alone                *)
(***************************************************************************)
LEMMA InitIInv == Init => IInv
<1> SUFFICES ASSUME Init PROVE IInv OBVIOUS
<1> DEFINE mem0 == [n \in Nodes |-> O!NewRoutine("empty")]
           o == O!EmptyOrdinator(mem0)
<1>1. mem0 \in [Nodes -> O!Routine] BY DEF O!NewRoutine, O!Routine
<1> HIDE DEF mem0
<1>2. /\ o.routines = [fd \in Fds |-> NoNode] /\ o.mem = mem0 /\ o.finished = << >>
      /\ o.current = 0 /\ o.freelist_max_size = -1
      /\ o = [routines |-> o.routines, mem |-> o.mem, finished |-> o.finished,
              current |-> o.current, freelist_max_size |-> o.freelist_max_size]
  BY DEF O!EmptyOrdinator, O!Main
<1>3. \A w \in Workers : ord[w] = o BY DEF Init, mem0
<1>4. \A fd \in Fds : ~O!Active(o, fd) BY <1>2 DEF O!Active
<1> HIDE DEF o
<1>5. o \in O!OrdinatorType
  <2>1. o.finished \in Seq(Nodes \cup {NoNode}) BY <1>2, EmptySeq
  <2>2. o.routines \in [Fds -> Nodes \cup {NoNode}] BY <1>2
  <2>3. /\ o.mem \in [Nodes -> O!Routine] /\ o.current \in Fds \cup {0}
        /\ o.freelist_max_size \in Int
    BY <1>1, <1>2
  <2>4. o = [routines |-> o.routines, mem |-> o.mem, finished |-> o.finished,
             current |-> o.current, freelist_max_size |-> o.freelist_max_size]
    BY <1>2
  <2>5. QED BY <2>1, <2>2, <2>3, <2>4 DEF O!OrdinatorType, O!Main
<1>6. OrdinatorSound(o)
  <2>1. Len(o.finished) = 0 /\ o.finished \in Seq(Nodes) BY <1>2, EmptySeq
  <2>2. O!Disjoint(o) BY <1>4, <2>1 DEF O!Disjoint
  <2>3. QED BY <1>2, <1>4, <1>5, <2>1, <2>2 DEF OrdinatorSound, Started
<1>7. TypeOK
  <2>1. backlog \in Seq(Conns) BY EmptySeq DEF Init
  <2>2. ord \in [Workers -> O!OrdinatorType] BY <1>3, <1>5 DEF Init
  <2>3. QED BY <2>1, <2>2 DEF Init, TypeOK, Places, Causes, NoFd, NoCrash
<1>8. HeldMatches /\ BatchMatches BY DEF Init, HeldMatches, BatchMatches
<1>9. OwnedOnce BY FdsAssumption DEF Init, OwnedOnce, Has, NoFd
<1>10. ClientHasRoutine BY DEF Init, ClientHasRoutine
<1>11. NoDanglingClient BY <1>3, <1>4 DEF NoDanglingClient
<1>12. EventsAreCurrent /\ OnlyForeignCrash
  BY DEF Init, EventsAreCurrent, OnlyForeignCrash, NoCrash
<1>13. QED BY <1>3, <1>6, <1>7, <1>8, <1>9, <1>10, <1>11, <1>12 DEF IInv, Init

\* Nothing but the kernel's queues, the flags and the crash changes.
LEMMA UnmovedStep ==
  ASSUME IInv, TypeOK', OnlyForeignCrash',
         UNCHANGED <<fdTable, pc, batch, held, clients, registered, ord, bound>>
  PROVE  IInv'
<1> USE DEF IInv
<1>1. (HeldMatches /\ BatchMatches /\ OwnedOnce /\ registered = clients)'
  BY DEF HeldMatches, BatchMatches, OwnedOnce, Has
<1>2. (\A w \in Workers : OrdinatorSound(ord[w]))' BY DEF OrdinatorSound
<1>3. (ClientHasRoutine /\ NoDanglingClient /\ EventsAreCurrent)'
  BY DEF ClientHasRoutine, NoDanglingClient, EventsAreCurrent, Fresh
<1>4. QED BY <1>1, <1>2, <1>3

\* A client connects or hangs up, or another thread calls stop().
LEMMA EnvironmentStep == ASSUME IInv, Environment PROVE IInv'
<1>1. /\ OnlyForeignCrash' /\ UNCHANGED <<fdTable, pc, batch, held, clients, registered, ord, bound>>
  BY DEF Environment, Stop, Connect, HangUp, workerVars, IInv, OnlyForeignCrash
<1>2. TypeOK'
  <2>1. CASE Stop BY <2>1 DEF Stop, kernelVars, workerVars, IInv, TypeOK
  <2>2. ASSUME NEW c \in Conns, Connect(c) PROVE TypeOK'
    <3>1. backlog' \in Seq(Conns) BY <2>2, AppendProperties DEF Connect, IInv, TypeOK
    <3>2. woken' \subseteq Workers
      <4>1. PICK S : S \subseteq Workers /\ woken' = woken \cup S BY <2>2 DEF Connect
      <4>2. QED BY <4>1 DEF IInv, TypeOK
    <3>3. QED BY <2>2, <3>1, <3>2 DEF Connect, serverVars, workerVars, IInv, TypeOK
  <2>3. ASSUME NEW c \in Conns, HangUp(c) PROVE TypeOK'
    BY <2>3 DEF HangUp, serverVars, workerVars, IInv, TypeOK
  <2>4. QED BY <2>1, <2>2, <2>3 DEF Environment
<1>3. QED BY <1>1, <1>2, UnmovedStep

\* What epoll_pwait, accept or the request handler throws leaves the loop; kill does so only on
\* descriptor 0, because every other client has a routine.
LEMMA DiesStep ==
  ASSUME IInv, NEW w \in Workers,
         \/ WaitFails(w) \/ AcceptFails(w) \/ ConnectionFails(w)
         \/ \E e \in batch[w] : KillFails(w, e) \/ ClientThrows(w, e)
  PROVE  IInv'
<1>1. PICK cause \in Causes : Dies(cause) /\ cause \notin {"out_of_range", "logic_error"}
                            /\ (cause = "invalid_argument" => 0 \in Fds)
  <2>1. CASE WaitFails(w) \/ AcceptFails(w) \/ ConnectionFails(w)
    BY <2>1 DEF WaitFails, AcceptFails, ConnectionFails, Causes
  <2>2. ASSUME NEW e \in batch[w], ClientThrows(w, e)
        PROVE  Dies("uncaught") /\ "uncaught" \in Causes
    BY <2>2 DEF ClientThrows, Causes
  <2>3. ASSUME NEW e \in batch[w], KillFails(w, e)
        PROVE  Dies("invalid_argument") /\ "invalid_argument" \in Causes /\ 0 \in Fds
    <3>1. e \in Events /\ e # AcceptEvent /\ ~O!CanSwitchTo(ord[w], e.fd)
      BY <2>3 DEF KillFails, IInv, TypeOK
    <3>2. e.fd \in Fds BY <3>1 DEF Events
    <3>3. e.fd \in clients[w] BY <3>1 DEF IInv, EventsAreCurrent
    <3>4. e.fd = 0 BY <3>1, <3>2, <3>3 DEF IInv, ClientHasRoutine
    <3>5. QED BY <2>3, <3>2, <3>4 DEF KillFails, O!KillRefusal, O!Main, Causes
  <2>4. QED BY <2>1, <2>2, <2>3
<1>2. OnlyForeignCrash' BY <1>1 DEF Dies, OnlyForeignCrash
<1>3. TypeOK' BY <1>1 DEF Dies, serverVars, kernelVars, workerVars, IInv, TypeOK
<1>4. QED BY <1>1, <1>2, <1>3, UnmovedStep DEF Dies, workerVars

\* event_loop around a batch and around accept.
LEMMA LoopStep ==
  ASSUME IInv, NEW w \in Workers,
         \/ EnterWait(w) \/ ReturnEmpty(w) \/ EndBatch(w) \/ TakeAccept(w) \/ AcceptNothing(w)
  PROVE  IInv'
<1> DEFINE at == {"loop", "wait", "events", "accept"}
<1>1. PICK p \in at, B \in SUBSET batch[w] :
        /\ pc[w] \in at /\ pc' = [pc EXCEPT ![w] = p] /\ batch' = [batch EXCEPT ![w] = B]
        /\ p \in {"loop", "wait"} => B = {}
        /\ UNCHANGED <<serverVars, kernelVars, fdTable, held, clients, registered, ord, bound, crash>>
  <2>1. batch = [batch EXCEPT ![w] = batch[w]] BY DEF IInv, TypeOK
  <2>2. CASE EnterWait(w) \/ ReturnEmpty(w) \/ AcceptNothing(w)
    <3>1. pc[w] \in {"loop", "wait"} => batch[w] = {} BY DEF IInv, BatchMatches
    <3>2. QED BY <2>1, <2>2, <3>1 DEF EnterWait, ReturnEmpty, AcceptNothing, GoTo, workerVars
  <2>3. CASE EndBatch(w) \/ TakeAccept(w) BY <2>3 DEF EndBatch, TakeAccept, Takes, GoTo
  <2>4. QED BY <2>2, <2>3
<1> USE DEF IInv
<1>2. /\ pc \in [Workers -> Places] /\ batch \in [Workers -> SUBSET Events] BY DEF TypeOK
<1>3. \A v \in Workers : batch'[v] \subseteq batch[v] BY <1>1, <1>2
<1>4. TypeOK'
  <2>1. pc' \in [Workers -> Places] BY <1>1, <1>2 DEF Places
  <2>2. batch' \in [Workers -> SUBSET Events] BY <1>1, <1>2
  <2>3. QED BY <1>1, <2>1, <2>2 DEF TypeOK, serverVars, kernelVars
<1>5. HeldMatches' BY <1>1, <1>2 DEF HeldMatches
<1>6. BatchMatches' BY <1>1, <1>2, <1>3 DEF BatchMatches
<1>7. (OwnedOnce /\ registered = clients)' BY <1>1 DEF OwnedOnce, Has
<1>8. (\A v \in Workers : OrdinatorSound(ord[v]))' BY <1>1 DEF OrdinatorSound
<1>9. ClientHasRoutine' BY <1>1 DEF ClientHasRoutine
<1>10. NoDanglingClient' BY <1>1, <1>2 DEF NoDanglingClient, Fresh
<1>11. EventsAreCurrent' BY <1>1, <1>3 DEF EventsAreCurrent
<1>12. OnlyForeignCrash' BY <1>1 DEF OnlyForeignCrash
<1>13. QED BY <1>4, <1>5, <1>6, <1>7, <1>8, <1>9, <1>10, <1>11, <1>12

\* The clients of a worker that exits, and their descriptors, go; its routines stay.
LEMMA ExitStep == ASSUME IInv, NEW w \in Workers, Exit(w) PROVE IInv'
<1> USE DEF IInv
<1>1. /\ pc[w] = "loop" /\ pc' = [pc EXCEPT ![w] = "exited"] /\ woken' = woken \ {w}
      /\ fdTable' = [fd \in Fds |-> IF fd \in clients[w] THEN NoConn ELSE fdTable[fd]]
      /\ registered' = [registered EXCEPT ![w] = @ \ clients[w]]
      /\ clients' = [clients EXCEPT ![w] = {}]
      /\ UNCHANGED <<serverVars, backlog, arrived, hup, batch, held, ord, bound, crash>>
  BY DEF Exit, GoTo, CloseFds
<1>2. /\ pc \in [Workers -> Places] /\ clients \in [Workers -> SUBSET Fds]
      /\ fdTable \in [Fds -> Conns \cup {NoConn}]
  BY DEF TypeOK
<1>3. batch[w] = {} /\ held[w] = NoFd BY <1>1 DEF BatchMatches, HeldMatches
<1>4. \A v \in Workers \ {w} :
        /\ pc'[v] = pc[v] /\ clients'[v] = clients[v]
        /\ \A fd \in clients[v] : fd \in Fds /\ fdTable'[fd] = fdTable[fd]
  BY <1>1, <1>2 DEF OwnedOnce, Has
<1>5. pc'[w] = "exited" /\ clients'[w] = {} BY <1>1, <1>2
<1>6. registered' = clients'
  <2>1. registered[w] = clients[w] /\ registered[w] \ clients[w] = {} OBVIOUS
  <2>2. QED BY <1>1, <2>1
<1>7. TypeOK'
  <2>1. pc' \in [Workers -> Places] BY <1>1, <1>2 DEF Places
  <2>2. fdTable' \in [Fds -> Conns \cup {NoConn}] BY <1>1, <1>2
  <2>3. clients' \in [Workers -> SUBSET Fds] BY <1>1, <1>2
  <2>4. QED BY <1>1, <1>6, <2>1, <2>2, <2>3 DEF TypeOK, serverVars
<1>8. HeldMatches' BY <1>1, <1>3, <1>4, <1>5 DEF HeldMatches
<1>9. BatchMatches' BY <1>1, <1>3, <1>4 DEF BatchMatches
<1>10. OwnedOnce'
  <2>1. \A v \in Workers, fd \in Fds : Has(v, fd)' <=> Has(v, fd) /\ fd \notin clients[w]
    <3>1. ASSUME NEW v \in Workers, NEW fd \in Fds
          PROVE  Has(v, fd)' <=> Has(v, fd) /\ fd \notin clients[w]
      <4>1. CASE v = w
        <5>1. ~(held[w] = fd) BY <1>3, FdsAssumption DEF NoFd
        <5>2. QED BY <1>1, <1>5, <4>1, <5>1 DEF Has
      <4>2. CASE v # w
        <5>1. Has(v, fd) => fd \notin clients[w] BY <4>2 DEF OwnedOnce, Has
        <5>2. QED BY <1>1, <1>4, <4>2, <5>1 DEF Has
      <4>3. QED BY <4>1, <4>2
    <3>2. QED BY <3>1
  <2>2. \A fd \in Fds : fdTable'[fd] # NoConn <=> fdTable[fd] # NoConn /\ fd \notin clients[w]
    BY <1>1
  <2>3. \A v \in Workers : clients'[v] \subseteq clients[v] /\ held'[v] = held[v]
    BY <1>1, <1>4, <1>5
  <2>4. ASSUME NEW fd \in Fds
        PROVE  /\ fdTable'[fd] # NoConn <=> \E v \in Workers : Has(v, fd)'
               /\ \A u, v \in Workers : Has(u, fd)' /\ Has(v, fd)' => u = v
               /\ \A v \in Workers : ~(fd \in clients'[v] /\ held'[v] = fd)
    BY <2>1, <2>2, <2>3 DEF OwnedOnce
  <2>5. QED BY <2>4 DEF OwnedOnce, Has
<1>11. (\A v \in Workers : OrdinatorSound(ord[v]))' BY <1>1 DEF OrdinatorSound
<1>12. ClientHasRoutine' BY <1>1, <1>4, <1>5 DEF ClientHasRoutine
<1>13. NoDanglingClient' BY <1>1, <1>4, <1>5, SMTT(30) DEF NoDanglingClient, Fresh
<1>14. EventsAreCurrent'
  <2>1. ASSUME NEW v \in Workers, NEW e \in batch[v] \ {AcceptEvent}
        PROVE  e.fd \in registered'[v] /\ fdTable'[e.fd] = e.conn
    <3>1. v # w BY <1>3
    <3>2. e.fd \in clients[v] /\ fdTable[e.fd] = e.conn BY DEF EventsAreCurrent
    <3>3. QED BY <1>4, <1>6, <3>1, <3>2
  <2>2. QED BY <1>1, <2>1 DEF EventsAreCurrent
<1>15. OnlyForeignCrash' BY <1>1 DEF OnlyForeignCrash
<1>16. QED BY <1>6, <1>7, <1>8, <1>9, <1>10, <1>11, <1>12, <1>13, <1>14, <1>15

\* Each event of a new batch names a registered descriptor and its connection.
LEMMA ReturnStep == ASSUME IInv, NEW w \in Workers, ReturnEvents(w) PROVE IInv'
<1> USE DEF IInv
<1>1. PICK data \in SUBSET DataEvents(w) : batch' = [batch EXCEPT ![w] = Sure(w) \cup data]
  BY DEF ReturnEvents
<1>2. /\ pc[w] = "wait" /\ pc' = [pc EXCEPT ![w] = "events"] /\ woken' = StillListed(w)
      /\ UNCHANGED <<serverVars, backlog, arrived, hup, fdTable, held, clients, registered,
                     ord, bound, crash>>
  BY DEF ReturnEvents, GoTo
<1>3. /\ pc \in [Workers -> Places] /\ batch \in [Workers -> SUBSET Events]
      /\ clients[w] \subseteq Fds
  BY DEF TypeOK
<1>4. \A fd \in registered[w] : fd \in Fds /\ fdTable[fd] \in Conns
  BY <1>3 DEF TypeOK, OwnedOnce, Has
<1>5. ASSUME NEW e \in Sure(w) \cup data, e # AcceptEvent
      PROVE  \E fd \in registered[w], b \in BOOLEAN :
               /\ b <=> fdTable[fd] \in hup
               /\ e = [fd |-> fd, conn |-> fdTable[fd], hup |-> b]
  <2>1. CASE e \in HupEvents(w)
    <3>1. PICK fd \in registered[w] : /\ fdTable[fd] \in hup
                                      /\ e = [fd |-> fd, conn |-> fdTable[fd], hup |-> TRUE]
      BY <2>1 DEF HupEvents
    <3>2. TRUE \in BOOLEAN /\ (TRUE <=> fdTable[fd] \in hup) BY <3>1
    <3>3. QED BY <3>1, <3>2
  <2>2. CASE e \in DataEvents(w)
    <3>1. PICK fd \in registered[w] : /\ fdTable[fd] \notin hup
                                      /\ e = [fd |-> fd, conn |-> fdTable[fd], hup |-> FALSE]
      BY <2>2 DEF DataEvents
    <3>2. FALSE \in BOOLEAN /\ (FALSE <=> fdTable[fd] \in hup) BY <3>1
    <3>3. QED BY <3>1, <3>2
  <2>3. QED BY <1>5, <2>1, <2>2 DEF Sure, AcceptReady
<1>6. batch'[w] \subseteq Events
  <2>1. ASSUME NEW e \in Sure(w) \cup data, e # AcceptEvent
        PROVE  e \in [fd : Fds, conn : Conns, hup : BOOLEAN]
    BY <1>4, <1>5, <2>1
  <2>2. batch'[w] = Sure(w) \cup data BY <1>1, <1>3
  <2>3. QED BY <2>1, <2>2 DEF Events
<1>7. /\ pc' \in [Workers -> Places] /\ pc'[w] = "events" /\ batch'[w] = Sure(w) \cup data
      /\ \A v \in Workers \ {w} : pc'[v] = pc[v] /\ batch'[v] = batch[v]
  BY <1>1, <1>2, <1>3 DEF Places
<1>8. TypeOK'
  <2>1. batch' \in [Workers -> SUBSET Events] BY <1>1, <1>3, <1>6
  <2>2. woken' \subseteq Workers BY <1>2 DEF TypeOK, StillListed
  <2>3. QED BY <1>2, <1>7, <2>1, <2>2 DEF TypeOK, serverVars
<1>9. HeldMatches' BY <1>2, <1>7 DEF HeldMatches
<1>10. BatchMatches'
  <2>1. ASSUME NEW d \in (Sure(w) \cup data) \ {AcceptEvent},
               NEW e \in (Sure(w) \cup data) \ {AcceptEvent}, d.fd = e.fd
        PROVE  d = e
    BY <1>5, <2>1
  <2>2. QED BY <1>7, <2>1 DEF BatchMatches
<1>11. (OwnedOnce /\ registered = clients)' BY <1>2 DEF OwnedOnce, Has
<1>12. (\A v \in Workers : OrdinatorSound(ord[v]))' BY <1>2 DEF OrdinatorSound
<1>13. ClientHasRoutine' BY <1>2 DEF ClientHasRoutine
<1>14. NoDanglingClient' BY <1>2, <1>7 DEF NoDanglingClient, Fresh
<1>15. EventsAreCurrent'
  <2>1. \A e \in batch'[w] \ {AcceptEvent} : e.fd \in registered[w] /\ fdTable[e.fd] = e.conn
    BY <1>5, <1>7
  <2>2. QED BY <1>2, <1>7, <2>1 DEF EventsAreCurrent
<1>16. OnlyForeignCrash' BY <1>2 DEF OnlyForeignCrash
<1>17. QED BY <1>8, <1>9, <1>10, <1>11, <1>12, <1>13, <1>14, <1>15, <1>16

(***************************************************************************)
(* accept_connections                                                      *)
(***************************************************************************)
LEMMA AcceptStep == ASSUME IInv, NEW w \in Workers, Accept(w) PROVE IInv'
<1> USE DEF IInv
<1>1. PICK fd \in Fds : /\ fdTable[fd] = NoConn /\ held' = [held EXCEPT ![w] = fd]
                        /\ fdTable' = [fdTable EXCEPT ![fd] = Head(backlog)]
  BY LowestFree DEF Accept, FreeFds
<1>2. /\ pc[w] = "accept" /\ pc' = [pc EXCEPT ![w] = "register"] /\ backlog # << >>
      /\ backlog' = Tail(backlog)
      /\ UNCHANGED <<serverVars, arrived, hup, woken, batch, clients, registered, ord, bound, crash>>
  BY DEF Accept, GoTo
<1>3. /\ pc \in [Workers -> Places] /\ held \in [Workers -> Fds \cup {NoFd}]
      /\ fdTable \in [Fds -> Conns \cup {NoConn}]
  BY DEF TypeOK
<1>4. Head(backlog) \in Conns /\ backlog' \in Seq(Conns)
  BY <1>2, HeadTailProperties DEF TypeOK
<1>5. \A v \in Workers : ~Has(v, fd) BY <1>1 DEF OwnedOnce
<1>6. fd # NoFd /\ held[w] = NoFd BY <1>2, FdsAssumption DEF HeldMatches, NoFd
<1>7. /\ held'[w] = fd /\ pc'[w] = "register" /\ fdTable'[fd] # NoConn
      /\ \A v \in Workers \ {w} : held'[v] = held[v] /\ pc'[v] = pc[v]
      /\ \A x \in Fds \ {fd} : fdTable'[x] = fdTable[x]
  BY <1>1, <1>2, <1>3, <1>4, ConnsAssumption
<1>8. TypeOK'
  <2>1. pc' \in [Workers -> Places] BY <1>2, <1>3 DEF Places
  <2>2. fdTable' \in [Fds -> Conns \cup {NoConn}] BY <1>1, <1>3, <1>4
  <2>3. held' \in [Workers -> Fds \cup {NoFd}] BY <1>1, <1>3
  <2>4. QED BY <1>2, <1>4, <2>1, <2>2, <2>3 DEF TypeOK, serverVars
<1>9. HeldMatches' BY <1>6, <1>7 DEF HeldMatches
<1>10. BatchMatches' BY <1>2, <1>7 DEF BatchMatches
<1>11. OwnedOnce'
  <2>1. \A v \in Workers, x \in Fds : Has(v, x)' <=> Has(v, x) \/ (v = w /\ x = fd)
    BY <1>2, <1>6, <1>7, FdsAssumption DEF Has, NoFd
  <2>2. ASSUME NEW x \in Fds
        PROVE  /\ fdTable'[x] # NoConn <=> \E v \in Workers : Has(v, x)'
               /\ \A u, v \in Workers : Has(u, x)' /\ Has(v, x)' => u = v
               /\ \A v \in Workers : ~(x \in clients'[v] /\ held'[v] = x)
    <3>1. CASE x = fd BY <1>2, <1>5, <1>7, <2>1, <3>1 DEF Has
    <3>2. CASE x # fd
      <4>1. \A v \in Workers : held'[v] = x => held[v] = x BY <1>7, <3>2
      <4>2. QED BY <1>2, <1>7, <2>1, <3>2, <4>1 DEF OwnedOnce
    <3>3. QED BY <3>1, <3>2
  <2>3. QED BY <2>2 DEF OwnedOnce, Has
<1>12. (\A v \in Workers : OrdinatorSound(ord[v]))' BY <1>2 DEF OrdinatorSound
<1>13. ClientHasRoutine' BY <1>2 DEF ClientHasRoutine
<1>14. \A v \in Workers : clients[v] \subseteq Fds \ {fd}
  BY <1>5 DEF Has, TypeOK
<1>15. NoDanglingClient'
  <2>1. ASSUME NEW v \in Workers, NEW x \in Fds,
               pc'[v] # "exited", O!Active(ord[v], x), ~Fresh(v, x)
        PROVE  x \in clients[v] /\ bound[v][x] = fdTable'[x]
    <3>1. pc[v] # "exited" BY <1>2, <1>7, <2>1
    <3>2. x \in clients[v] /\ bound[v][x] = fdTable[x] BY <2>1, <3>1 DEF NoDanglingClient
    <3>3. QED BY <1>7, <1>14, <3>2
  <2>2. QED BY <1>2, <2>1 DEF NoDanglingClient, Fresh
<1>16. EventsAreCurrent'
  <2>1. ASSUME NEW v \in Workers, NEW e \in batch[v] \ {AcceptEvent}
        PROVE  e.fd \in registered[v] /\ fdTable'[e.fd] = e.conn
    BY <1>7, <1>14 DEF EventsAreCurrent
  <2>2. QED BY <1>2, <2>1 DEF EventsAreCurrent
<1>17. OnlyForeignCrash' BY <1>2 DEF OnlyForeignCrash
<1>18. QED BY <1>2, <1>8, <1>9, <1>10, <1>11, <1>12, <1>13, <1>15, <1>16, <1>17

\* The descriptor that was accepted becomes a client's or is closed; either way
\* its thread has a routine for it afterwards.
LEMMA RegisterStep ==
  ASSUME IInv, NEW w \in Workers, Register(w) \/ RegisterFails(w) PROVE IInv'
<1> USE DEF IInv
<1>1. PICK fd \in Fds : fd = held[w] /\ pc[w] = "register" /\ fd # NoFd
  BY DEF Register, RegisterFails, HeldMatches, TypeOK
<1>2. Has(w, fd) /\ fd \notin clients[w] /\ fdTable[fd] # NoConn BY <1>1 DEF OwnedOnce, Has
<1>3. PICK p \in O!Creations(ord[w], fd, "client_routine") : ord' = [ord EXCEPT ![w] = p]
  <2>1. O!Creations(ord[w], fd, "client_routine") # {} BY <1>1, CreationExists
  <2>2. QED BY <1>1, <2>1 DEF Register, RegisterFails, Create
<1>4. /\ held' = [held EXCEPT ![w] = NoFd] /\ pc' = [pc EXCEPT ![w] = "events"]
      /\ UNCHANGED <<serverVars, kernelVars, batch, bound, crash>>
  BY DEF Register, RegisterFails, GoTo
<1>5. \/ /\ clients' = [clients EXCEPT ![w] = @ \cup {fd}] /\ UNCHANGED fdTable
         /\ registered' = [registered EXCEPT ![w] = @ \cup {fd}]
      \/ /\ fdTable' = [x \in Fds |-> IF x \in {fd} THEN NoConn ELSE fdTable[x]]
         /\ registered' = [registered EXCEPT ![w] = @ \ {fd}] /\ UNCHANGED clients
  BY <1>1 DEF Register, RegisterFails, CloseFds
<1>6. /\ pc \in [Workers -> Places] /\ held \in [Workers -> Fds \cup {NoFd}]
      /\ fdTable \in [Fds -> Conns \cup {NoConn}] /\ clients \in [Workers -> SUBSET Fds]
      /\ ord \in [Workers -> O!OrdinatorType]
  BY DEF TypeOK
<1> DEFINE o == ord[w]
<1>7. /\ OrdinatorSound(p) /\ O!Active(p, fd)
      /\ \A x \in Fds : O!Active(o, x) => O!Active(p, x)
      /\ \A x \in Fds : Started(p, x) => Started(o, x)
  BY <1>1, CreateSound
<1> HIDE DEF o
<1>8. registered' = clients'
  <2>1. clients[w] \ {fd} = clients[w] BY <1>2
  <2>2. registered = [registered EXCEPT ![w] = registered[w]] BY <1>6
  <2>3. QED BY <1>5, <2>1, <2>2
<1>9. /\ held'[w] = NoFd /\ pc'[w] = "events" /\ ord'[w] = p
      /\ \A v \in Workers \ {w} : /\ held'[v] = held[v] /\ pc'[v] = pc[v] /\ ord'[v] = ord[v]
                                  /\ clients'[v] = clients[v]
      /\ \A x \in Fds \ {fd} : fdTable'[x] = fdTable[x]
      /\ \/ clients'[w] = clients[w] \cup {fd} /\ fdTable'[fd] = fdTable[fd]
         \/ clients'[w] = clients[w] /\ fdTable'[fd] = NoConn
  BY <1>1, <1>3, <1>4, <1>5, <1>6
<1>10. TypeOK'
  <2>1. pc' \in [Workers -> Places] BY <1>4, <1>6 DEF Places
  <2>2. held' \in [Workers -> Fds \cup {NoFd}] BY <1>4, <1>6
  <2>3. fdTable' \in [Fds -> Conns \cup {NoConn}] BY <1>5, <1>6
  <2>4. clients' \in [Workers -> SUBSET Fds] BY <1>1, <1>5, <1>6
  <2>5. ord' \in [Workers -> O!OrdinatorType] BY <1>3, <1>6, <1>7 DEF OrdinatorSound
  <2>6. QED BY <1>4, <1>8, <2>1, <2>2, <2>3, <2>4, <2>5 DEF TypeOK, serverVars, kernelVars
<1>11. HeldMatches' BY <1>9 DEF HeldMatches
<1>12. BatchMatches' BY <1>1, <1>4, <1>9 DEF BatchMatches
<1>13. OwnedOnce'
  <2>1. \A v \in Workers : Has(v, fd) => v = w BY <1>1, <1>2 DEF OwnedOnce
  <2>2. \A v \in Workers, x \in Fds \ {fd} :
          /\ x \in clients'[v] <=> x \in clients[v]
          /\ held'[v] = x <=> held[v] = x
    <3>1. \A x \in Fds : x # NoFd BY FdsAssumption DEF NoFd
    <3>2. QED BY <1>1, <1>9, <3>1
  <2>3. ASSUME NEW x \in Fds
        PROVE  /\ fdTable'[x] # NoConn <=> \E v \in Workers : Has(v, x)'
               /\ \A u, v \in Workers : Has(u, x)' /\ Has(v, x)' => u = v
               /\ \A v \in Workers : ~(x \in clients'[v] /\ held'[v] = x)
    <3>1. CASE x = fd
      <4>1. \A v \in Workers \ {w} : ~Has(v, fd)' BY <1>9, <2>1 DEF Has
      <4>2. held'[w] # fd BY <1>1, <1>9
      <4>3. fd \in clients'[w] <=> fdTable'[fd] # NoConn BY <1>2, <1>9
      <4>4. QED BY <4>1, <4>2, <4>3, <3>1 DEF Has
    <3>2. CASE x # fd
      <4>1. \A v \in Workers : Has(v, x)' <=> Has(v, x) BY <2>2, <3>2 DEF Has
      <4>2. QED BY <1>9, <2>2, <3>2, <4>1 DEF OwnedOnce
    <3>3. QED BY <3>1, <3>2
  <2>4. QED BY <2>3 DEF OwnedOnce, Has
<1>14. (\A v \in Workers : OrdinatorSound(ord[v]))'
  <2>1. \A v \in Workers : OrdinatorSound(ord'[v]) BY <1>7, <1>9
  <2>2. QED BY <2>1 DEF OrdinatorSound
<1>15. ClientHasRoutine'
  <2>1. ASSUME NEW v \in Workers, NEW x \in Fds \ {0}, x \in clients'[v]
        PROVE  O!CanSwitchTo(ord'[v], x)
    <3>1. CASE v # w BY <1>9, <2>1, <3>1 DEF ClientHasRoutine
    <3>2. CASE v = w
      <4>1. x = fd \/ O!Active(o, x)
        BY <1>9, <2>1, <3>2 DEF ClientHasRoutine, O!CanSwitchTo, o
      <4>2. O!Active(p, x) BY <1>7, <4>1
      <4>3. QED BY <1>7, <1>9, <3>2, <4>2 DEF OrdinatorSound, O!CanSwitchTo, O!Main
    <3>3. QED BY <3>1, <3>2
  <2>2. QED BY <2>1 DEF ClientHasRoutine
<1>16. NoDanglingClient'
  <2>1. ASSUME NEW v \in Workers, NEW x \in Fds, pc'[v] # "exited", Started(ord'[v], x)
        PROVE  x \in clients'[v] /\ bound[v][x] = fdTable'[x]
    <3>1. pc[v] # "exited" /\ Started(ord[v], x) BY <1>1, <1>7, <1>9, <2>1 DEF o
    <3>2. x \in clients[v] /\ bound[v][x] = fdTable[x]
      BY <3>1 DEF NoDanglingClient, Fresh, Started
    <3>3. x # fd BY <1>1, <1>2, <3>2 DEF OwnedOnce, Has
    <3>4. QED BY <1>9, <3>2, <3>3
  <2>2. QED BY <1>4, <2>1 DEF NoDanglingClient, Fresh, Started
<1>17. EventsAreCurrent'
  <2>1. ASSUME NEW v \in Workers, NEW e \in batch[v] \ {AcceptEvent}
        PROVE  e.fd \in clients'[v] /\ fdTable'[e.fd] = e.conn
    <3>1. e.fd \in clients[v] /\ fdTable[e.fd] = e.conn BY DEF EventsAreCurrent
    <3>2. e.fd \in Fds /\ e.fd # fd BY <1>1, <1>2, <1>6, <3>1 DEF OwnedOnce, Has
    <3>3. QED BY <1>9, <3>1, <3>2
  <2>2. QED BY <1>4, <1>8, <2>1 DEF EventsAreCurrent
<1>18. OnlyForeignCrash' BY <1>4 DEF OnlyForeignCrash
<1>19. QED BY <1>8, <1>10, <1>11, <1>12, <1>13, <1>14, <1>15, <1>16, <1>17, <1>18

(***************************************************************************)
(* handle_client                                                           *)
(***************************************************************************)
\* An event of a client names a client, and the only one without a routine that
\* can run is that of descriptor 0.
LEMMA EventOfClient ==
  ASSUME IInv, NEW w \in Workers, NEW e \in batch[w], e # AcceptEvent
  PROVE  /\ e.fd \in Fds /\ e.fd \in clients[w] /\ fdTable[e.fd] = e.conn
         /\ e.fd = 0 \/ O!CanSwitchTo(ord[w], e.fd)
<1>1. e \in Events BY DEF IInv, TypeOK
<1>2. e.fd \in Fds BY <1>1 DEF Events
<1>3. e.fd \in clients[w] /\ fdTable[e.fd] = e.conn BY DEF IInv, EventsAreCurrent
<1>4. e.fd = 0 \/ O!CanSwitchTo(ord[w], e.fd) BY <1>2, <1>3 DEF IInv, ClientHasRoutine
<1>5. QED BY <1>2, <1>3, <1>4

\* A client is closed, and its routine has not started or is gone.
LEMMA CloseStep ==
  ASSUME IInv, NEW w \in Workers, NEW e \in batch[w], e # AcceptEvent,
         NEW p, OrdinatorSound(p),
         \A x \in Fds : O!Active(ord[w], x) /\ x # e.fd => O!Active(p, x),
         \A x \in Fds : Started(p, x) => Started(ord[w], x) /\ x # e.fd,
         NEW b \in Conns \cup {NoConn}, CloseConnection(w, e.fd),
         ord' = [ord EXCEPT ![w] = p], bound' = [bound EXCEPT ![w][e.fd] = b],
         pc[w] = "events", batch' = [batch EXCEPT ![w] = @ \ {e}],
         UNCHANGED <<serverVars, kernelVars, pc, held>>
  PROVE  IInv'
<1> USE DEF IInv
<1>1. PICK fd \in Fds : fd = e.fd BY EventOfClient
<1>2. fd \in clients[w] BY <1>1, EventOfClient
<1>3. /\ clients' = [clients EXCEPT ![w] = @ \ {fd}]
      /\ registered' = [registered EXCEPT ![w] = @ \ {fd}]
      /\ fdTable' = [x \in Fds |-> IF x \in {fd} THEN NoConn ELSE fdTable[x]]
      /\ UNCHANGED crash
  BY <1>1, <1>2 DEF CloseConnection, CloseFds
<1>4. /\ fdTable \in [Fds -> Conns \cup {NoConn}] /\ clients \in [Workers -> SUBSET Fds]
      /\ ord \in [Workers -> O!OrdinatorType] /\ batch \in [Workers -> SUBSET Events]
      /\ bound \in [Workers -> [Fds -> Conns \cup {NoConn}]]
  BY DEF TypeOK
<1>5. registered' = clients' BY <1>3
<1>6. /\ ord'[w] = p /\ clients'[w] = clients[w] \ {fd} /\ fdTable'[fd] = NoConn
      /\ batch'[w] = batch[w] \ {e} /\ \A x \in Fds \ {fd} : bound'[w][x] = bound[w][x]
      /\ \A v \in Workers \ {w} : /\ ord'[v] = ord[v] /\ clients'[v] = clients[v]
                                  /\ batch'[v] = batch[v] /\ bound'[v] = bound[v]
      /\ \A x \in Fds \ {fd} : fdTable'[x] = fdTable[x]
  BY <1>1, <1>3, <1>4
<1>7. TypeOK'
  <2>1. fdTable' \in [Fds -> Conns \cup {NoConn}] BY <1>3, <1>4
  <2>2. clients' \in [Workers -> SUBSET Fds] BY <1>3, <1>4
  <2>3. ord' \in [Workers -> O!OrdinatorType] BY <1>4 DEF OrdinatorSound
  <2>4. batch' \in [Workers -> SUBSET Events] BY <1>4
  <2>5. bound' \in [Workers -> [Fds -> Conns \cup {NoConn}]] BY <1>1, <1>4
  <2>6. QED BY <1>3, <1>5, <2>1, <2>2, <2>3, <2>4, <2>5 DEF TypeOK, serverVars, kernelVars
<1>8. HeldMatches' BY DEF HeldMatches
<1>9. BatchMatches' BY <1>6 DEF BatchMatches
<1>10. \A v \in Workers : Has(v, fd) => v = w BY <1>2 DEF OwnedOnce, Has
<1>11. held[w] # fd BY <1>2 DEF OwnedOnce
<1>12. OwnedOnce'
  <2>1. ASSUME NEW x \in Fds
        PROVE  /\ fdTable'[x] # NoConn <=> \E v \in Workers : Has(v, x)'
               /\ \A u, v \in Workers : Has(u, x)' /\ Has(v, x)' => u = v
               /\ \A v \in Workers : ~(x \in clients'[v] /\ held'[v] = x)
    <3>1. CASE x = fd
      <4>1. \A v \in Workers : ~Has(v, fd)' BY <1>6, <1>10, <1>11 DEF Has
      <4>2. QED BY <1>6, <3>1, <4>1 DEF Has
    <3>2. CASE x # fd
      <4>1. \A v \in Workers : x \in clients'[v] <=> x \in clients[v] BY <1>6, <3>2
      <4>2. \A v \in Workers : Has(v, x)' <=> Has(v, x) BY <4>1 DEF Has
      <4>3. QED BY <1>6, <3>2, <4>1, <4>2 DEF OwnedOnce
    <3>3. QED BY <3>1, <3>2
  <2>2. QED BY <2>1 DEF OwnedOnce, Has
<1>13. (\A v \in Workers : OrdinatorSound(ord[v]))'
  <2>1. \A v \in Workers : OrdinatorSound(ord'[v]) BY <1>6
  <2>2. QED BY <2>1 DEF OrdinatorSound
<1>14. ClientHasRoutine'
  <2>1. ASSUME NEW v \in Workers, NEW x \in Fds \ {0}, x \in clients'[v]
        PROVE  O!CanSwitchTo(ord'[v], x)
    <3>1. CASE v # w BY <1>6, <2>1, <3>1 DEF ClientHasRoutine
    <3>2. CASE v = w
      <4>1. x # fd /\ O!Active(ord[w], x)
        BY <1>6, <2>1, <3>2 DEF ClientHasRoutine, O!CanSwitchTo
      <4>2. O!Active(p, x) BY <1>1, <4>1
      <4>3. QED BY <1>6, <3>2, <4>2 DEF OrdinatorSound, O!CanSwitchTo, O!Main
    <3>3. QED BY <3>1, <3>2
  <2>2. QED BY <2>1 DEF ClientHasRoutine
<1>15. NoDanglingClient'
  <2>1. ASSUME NEW v \in Workers, NEW x \in Fds, pc[v] # "exited", Started(ord'[v], x)
        PROVE  x \in clients'[v] /\ bound'[v][x] = fdTable'[x]
    <3>1. CASE v = w
      <4>1. x # fd /\ Started(ord[w], x) BY <1>1, <1>6, <2>1, <3>1
      <4>2. x \in clients[w] /\ bound[w][x] = fdTable[x]
        BY <2>1, <3>1, <4>1 DEF NoDanglingClient, Fresh, Started
      <4>3. QED BY <1>6, <3>1, <4>1, <4>2
    <3>2. CASE v # w
      <4>1. x \in clients[v] /\ bound[v][x] = fdTable[x]
        BY <1>6, <2>1, <3>2 DEF NoDanglingClient, Fresh, Started
      <4>2. x # fd BY <1>10, <3>2, <4>1 DEF Has
      <4>3. QED BY <1>6, <3>2, <4>1, <4>2
    <3>3. QED BY <3>1, <3>2
  <2>2. QED BY <2>1 DEF NoDanglingClient, Fresh, Started
<1>16. EventsAreCurrent'
  <2>1. ASSUME NEW v \in Workers, NEW d \in batch'[v] \ {AcceptEvent}
        PROVE  d.fd \in clients'[v] /\ fdTable'[d.fd] = d.conn
    <3>1. d \in batch[v] BY <1>6
    <3>2. d.fd \in Fds /\ d.fd \in clients[v] /\ fdTable[d.fd] = d.conn BY <3>1, EventOfClient
    <3>3. d.fd # fd
      <4>1. CASE v = w BY <1>1, <1>6, <3>1, <4>1 DEF BatchMatches
      <4>2. CASE v # w BY <1>10, <3>2, <4>2 DEF Has
      <4>3. QED BY <4>1, <4>2
    <3>4. QED BY <1>6, <3>2, <3>3
  <2>2. QED BY <1>5, <2>1 DEF EventsAreCurrent
<1>17. OnlyForeignCrash' BY <1>3 DEF OnlyForeignCrash
<1>18. QED BY <1>5, <1>7, <1>8, <1>9, <1>12, <1>13, <1>14, <1>15, <1>16, <1>17

\* The routine of a client runs to its end, killed or not, and the client is closed.
LEMMA EndStep ==
  ASSUME IInv, NEW w \in Workers, NEW e \in batch[w], KillClient(w, e) \/ ClientEnds(w, e)
  PROVE  IInv'
<1>1. /\ e # AcceptEvent /\ pc[w] = "events" /\ batch' = [batch EXCEPT ![w] = @ \ {e}]
      /\ O!CanSwitchTo(ord[w], e.fd) /\ CloseConnection(w, e.fd)
      /\ UNCHANGED <<serverVars, kernelVars, pc, held>>
  BY DEF KillClient, ClientEnds, TakesClient, Takes
<1> DEFINE o == ord[w]
           fd == e.fd
<1>2. PICK q \in {o, O!Killed(o, fd, "EpollError")}, x \in {"null", "IoError", "EpollError"} :
        RunToEnd(w, q, fd, x)
  BY DEF KillClient, ClientEnds
<1>3. OrdinatorSound(o) /\ fd \in Fds BY <1>1, EventOfClient DEF IInv
<1> DEFINE p == O!Collected(O!Ended(O!SwitchedTo(q, fd), x), fd)
<1>4. /\ ord' = [ord EXCEPT ![w] = p] /\ bound' = [bound EXCEPT ![w][e.fd] = NoConn]
  BY <1>2 DEF RunToEnd
<1> HIDE DEF o, fd, p
<1>5. O!CanSwitchTo(o, fd) /\ O!Active(o, fd) BY <1>1 DEF o, fd, O!CanSwitchTo
<1>6. PICK r \in O!Routine : p = Removed(o, fd, r)
  BY <1>2, <1>3, <1>5, RunToEndRemoves DEF p
<1>7. /\ OrdinatorSound(p)
      /\ \A y \in Fds : O!Active(p, y) <=> O!Active(o, y) /\ y # fd
      /\ \A y \in Fds : O!Active(p, y) => O!RoutineOf(p, y) = O!RoutineOf(o, y)
  BY <1>3, <1>5, <1>6, RemovalSound
<1>8. \A y \in Fds : Started(p, y) => Started(ord[w], y) /\ y # e.fd
  BY <1>7 DEF Started, o, fd
<1>9. \A y \in Fds : O!Active(ord[w], y) /\ y # e.fd => O!Active(p, y) BY <1>7 DEF o, fd
<1>10. QED BY <1>1, <1>4, <1>7, <1>8, <1>9, CloseStep

\* resume refuses only descriptor 0, and the client is closed.
LEMMA ResumeFailsStep ==
  ASSUME IInv, NEW w \in Workers, NEW e \in batch[w], ResumeFails(w, e) PROVE IInv'
<1>1. /\ e # AcceptEvent /\ pc[w] = "events" /\ batch' = [batch EXCEPT ![w] = @ \ {e}]
      /\ ~O!CanSwitchTo(ord[w], e.fd)
      /\ UNCHANGED <<serverVars, kernelVars, pc, held, ord, bound>>
  BY DEF ResumeFails, TakesClient, Takes
<1>2. e.fd = 0 /\ e.fd \in Fds BY <1>1, EventOfClient
<1>3. CloseConnection(w, e.fd) BY <1>2 DEF ResumeFails, O!ResumeRefusal, O!Main
<1>4. OrdinatorSound(ord[w]) /\ \A x \in Fds : Started(ord[w], x) => x # e.fd
  BY <1>2 DEF IInv, OrdinatorSound
<1>5. /\ ord' = [ord EXCEPT ![w] = ord[w]] /\ bound[w][e.fd] \in Conns \cup {NoConn}
      /\ bound' = [bound EXCEPT ![w][e.fd] = bound[w][e.fd]]
  BY <1>1, <1>2 DEF IInv, TypeOK
<1>6. QED BY <1>1, <1>3, <1>4, <1>5, CloseStep

\* A routine that yields for the first time is the client's it has a reference to.
LEMMA YieldStep ==
  ASSUME IInv, NEW w \in Workers, NEW e \in batch[w], ClientYields(w, e) PROVE IInv'
<1> USE DEF IInv
<1>1. /\ e # AcceptEvent /\ pc[w] = "events" /\ batch' = [batch EXCEPT ![w] = @ \ {e}]
      /\ O!CanSwitchTo(ord[w], e.fd)
      /\ ord' = [ord EXCEPT ![w] = O!Yielded(O!SwitchedTo(@, e.fd))]
      /\ bound' = [bound EXCEPT ![w][e.fd] = IF Fresh(w, e.fd) THEN fdTable[e.fd] ELSE @]
      /\ UNCHANGED <<serverVars, kernelVars, fdTable, pc, held, clients, registered, crash>>
  BY DEF ClientYields, TakesClient, Takes
<1>2. PICK fd \in Fds : fd = e.fd /\ fd \in clients[w] BY <1>1, EventOfClient
<1>3. PICK p : p = O!Yielded(O!SwitchedTo(ord[w], fd)) OBVIOUS
<1>4. /\ OrdinatorSound(p)
      /\ \A x \in Fds : O!Active(p, x) <=> O!Active(ord[w], x)
      /\ \A x \in Fds : Started(p, x) <=> Started(ord[w], x) \/ x = fd
  BY <1>1, <1>2, <1>3, YieldSound
<1>5. /\ ord \in [Workers -> O!OrdinatorType] /\ batch \in [Workers -> SUBSET Events]
      /\ bound \in [Workers -> [Fds -> Conns \cup {NoConn}]]
      /\ fdTable[fd] \in Conns \cup {NoConn}
  BY DEF TypeOK
<1>6. /\ ord' = [ord EXCEPT ![w] = p]
      /\ bound' = [bound EXCEPT ![w][fd] = IF Fresh(w, fd) THEN fdTable[fd] ELSE @]
  BY <1>1, <1>2, <1>3
<1>7. /\ ord'[w] = p /\ batch'[w] \subseteq batch[w]
      /\ bound'[w][fd] = IF Fresh(w, fd) THEN fdTable[fd] ELSE bound[w][fd]
      /\ \A x \in Fds \ {fd} : bound'[w][x] = bound[w][x]
      /\ \A v \in Workers \ {w} : ord'[v] = ord[v] /\ batch'[v] = batch[v] /\ bound'[v] = bound[v]
  BY <1>1, <1>5, <1>6
<1>8. TypeOK'
  <2>1. ord' \in [Workers -> O!OrdinatorType] BY <1>4, <1>5, <1>6 DEF OrdinatorSound
  <2>2. batch' \in [Workers -> SUBSET Events] BY <1>1, <1>5
  <2>3. bound' \in [Workers -> [Fds -> Conns \cup {NoConn}]] BY <1>5, <1>6
  <2>4. QED BY <1>1, <2>1, <2>2, <2>3 DEF TypeOK, serverVars, kernelVars
<1>9. HeldMatches' BY <1>1 DEF HeldMatches
<1>10. BatchMatches' BY <1>1, <1>7 DEF BatchMatches
<1>11. (OwnedOnce /\ registered = clients)' BY <1>1 DEF OwnedOnce, Has
<1>12. (\A v \in Workers : OrdinatorSound(ord[v]))'
  <2>1. \A v \in Workers : OrdinatorSound(ord'[v]) BY <1>4, <1>7
  <2>2. QED BY <2>1 DEF OrdinatorSound
<1>13. ClientHasRoutine'
  <2>1. ASSUME NEW v \in Workers, NEW x \in Fds \ {0}, x \in clients[v]
        PROVE  O!CanSwitchTo(ord'[v], x)
    <3>1. CASE v # w BY <1>7, <2>1, <3>1 DEF ClientHasRoutine
    <3>2. CASE v = w
      <4>1. O!Active(ord[w], x) BY <2>1, <3>2 DEF ClientHasRoutine, O!CanSwitchTo
      <4>2. QED BY <1>4, <1>7, <3>2, <4>1 DEF OrdinatorSound, O!CanSwitchTo, O!Main
    <3>3. QED BY <3>1, <3>2
  <2>2. QED BY <1>1, <2>1 DEF ClientHasRoutine
<1>14. NoDanglingClient'
  <2>1. ASSUME NEW v \in Workers, NEW x \in Fds, pc[v] # "exited", Started(ord'[v], x)
        PROVE  x \in clients[v] /\ bound'[v][x] = fdTable[x]
    <3>1. Started(ord[v], x) => x \in clients[v] /\ bound[v][x] = fdTable[x]
      BY <2>1 DEF NoDanglingClient, Fresh, Started
    <3>2. CASE v # w \/ x # fd BY <1>4, <1>7, <2>1, <3>1, <3>2
    <3>3. CASE v = w /\ x = fd
      <4>1. CASE Fresh(w, fd) BY <1>2, <1>7, <3>3, <4>1
      <4>2. CASE ~Fresh(w, fd)
        <5>1. O!Active(ord[w], fd) BY <1>1, <1>2 DEF O!CanSwitchTo
        <5>2. Started(ord[w], fd) BY <4>2, <5>1 DEF Started, Fresh
        <5>3. QED BY <1>7, <3>1, <3>3, <4>2, <5>2
      <4>3. QED BY <4>1, <4>2
    <3>4. QED BY <3>2, <3>3
  <2>2. QED BY <1>1, <2>1 DEF NoDanglingClient, Fresh, Started
<1>15. EventsAreCurrent' BY <1>1, <1>7 DEF EventsAreCurrent
<1>16. OnlyForeignCrash' BY <1>1 DEF OnlyForeignCrash
<1>17. QED BY <1>8, <1>9, <1>10, <1>11, <1>12, <1>13, <1>14, <1>15, <1>16

(***************************************************************************)
(* The theorems                                                            *)
(***************************************************************************)
LEMMA Inductive == IInv /\ [Next]_vars => IInv'
<1> SUFFICES ASSUME IInv, [Next]_vars PROVE IInv' OBVIOUS
<1>1. CASE UNCHANGED vars
  <2>1. TypeOK' /\ OnlyForeignCrash'
    BY <1>1 DEF vars, serverVars, kernelVars, workerVars, IInv, TypeOK, OnlyForeignCrash
  <2>2. QED BY <1>1, <2>1, UnmovedStep DEF vars, workerVars
<1>2. CASE Environment BY <1>2, EnvironmentStep
<1>3. ASSUME NEW w \in Workers, Worker(w) PROVE IInv'
  <2>1. ASSUME NEW e \in batch[w], HandleClient(w, e) PROVE IInv'
    <3>1. CASE KillClient(w, e) \/ ClientEnds(w, e) BY <3>1, EndStep
    <3>2. CASE KillFails(w, e) \/ ClientThrows(w, e) BY <3>2, DiesStep
    <3>3. CASE ClientYields(w, e) BY <3>3, YieldStep
    <3>4. CASE ResumeFails(w, e) BY <3>4, ResumeFailsStep
    <3>5. QED BY <2>1, <3>1, <3>2, <3>3, <3>4 DEF HandleClient
  <2>2. QED
    BY <1>3, <2>1, LoopStep, ExitStep, ReturnStep, AcceptStep, DiesStep, RegisterStep DEF Worker
<1>4. QED BY <1>1, <1>2, <1>3 DEF Next

\* The inductive invariant holds in every state that is reached.
LEMMA AlwaysIInv == Spec => []IInv
BY InitIInv, Inductive, PTL DEF Spec

\* Each variable of the server, the kernel and the workers has its type.
THEOREM TypeIsCorrect == Spec => []TypeOK
<1>1. IInv => TypeOK BY DEF IInv
<1>2. QED BY <1>1, AlwaysIInv, PTL

\* However many threads accept on one socket and share one descriptor table: no
\* descriptor leaks or has two owners, every client has a routine that can run,
\* and no suspended client_routine holds a reference to a client that is gone.
THEOREM ClientsAlwaysConsistent == Spec => []ClientsConsistent
<1>1. IInv => ClientsConsistent BY OwnersCounted DEF IInv, ClientsConsistent
<1>2. QED BY <1>1, AlwaysIInv, PTL

\* An event is handled for the client and the connection it was reported for.
THEOREM EventsAlwaysCurrent == Spec => []EventsAreCurrent
<1>1. IInv => EventsAreCurrent BY DEF IInv
<1>2. QED BY <1>1, AlwaysIInv, PTL

\* The maps of clients and of routines never fail the worker: no at() throws.
THEOREM CrashAlwaysForeign == Spec => []OnlyForeignCrash
<1>1. IInv => OnlyForeignCrash BY DEF IInv
<1>2. QED BY <1>1, AlwaysIInv, PTL
=============================================================================
