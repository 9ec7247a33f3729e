--------------------------- MODULE ChildProcessProofs ---------------------------
(***************************************************************************)
(* Proofs about ChildProcess for every set of objects and children, every  *)
(* message and every size of a pipe.                                       *)
(***************************************************************************)
EXTENDS ChildProcess, SequenceTheorems, FiniteSetTheorems, TLAPS

(***************************************************************************)
(* The inductive invariant                                                 *)
(***************************************************************************)
Holders == {"program"} \cup Children
Ends    == {"toW", "toR", "fromW", "fromR"}

\* What TypeOK leaves open: the shape of the pipes and of the buffers.
Shapes ==
  /\ inp \in [Children -> Seq(Nat)] /\ out \in [Children -> Seq(Nat)]
  /\ held \in [Children -> Seq(Nat)] /\ buf \in Seq(Nat) /\ stream \in Seq(Nat)
  /\ ends \in [Children -> [Ends -> SUBSET Holders]] /\ copies \in [Children -> SUBSET Children]

\* An object has both descriptors of its child or, after close_stdin, one; one
\* that is not in scope has none.
ObjectsMatch ==
  \A o \in Objects :
    /\ object[o].from = object[o].pid
    /\ object[o].pid # None => object[o].scope

\* Only a child can write what is read from it, and it can until its program has
\* ended or could not be started; one that is forgotten was forked.
ChildMatches ==
  \A c \in Children :
    /\ ends[c]["fromW"] \subseteq {c}
    /\ child[c] \in {"forked", "runs"} => c \in ends[c]["fromW"]
    /\ c \in forgotten => child[c] # "unborn"

\* What the thread's registers say of the operation that it is in.
WaitMatches ==
  pc = "wait" =>
    /\ call.of \in Objects /\ object[call.of].pid # None
    /\ call.kind = "assign" =>
         call.next \in Objects /\ call.next # call.of /\ object[call.next].scope

WriteMatches ==
  pc = "write" =>
    /\ call.kind = "write" /\ call.of \in Objects /\ object[call.of].to # None
    /\ call.put <= call.left
    /\ Len(stream) = Len(Message) - call.left + call.put
    /\ parts <= Len(Message) - call.left
    /\ parts = 0 => call.left = Len(Message) /\ stream = SubSeq(Message, 1, call.put)

ReadMatches ==
  pc = "read" =>
    /\ call.kind = "read" /\ call.of \in Objects /\ object[call.of].from # None
    /\ Len(buf) = Len(stream) + call.left /\ Len(buf) <= Len(Message)
    /\ parts <= Len(stream)
    /\ parts = 0 => stream = << >>

RestMatches ==
  pc \notin {"write", "read", "returns"} => buf = << >> /\ stream = << >> /\ parts = 0

ThreadMatches == WaitMatches /\ WriteMatches /\ ReadMatches /\ RestMatches

IInv ==
  /\ TypeOK /\ Shapes /\ ObjectsMatch /\ ChildMatches /\ ThreadMatches
  /\ OwnsItsChild /\ EndMeansGone /\ WholeIsExact

(***************************************************************************)
(* Lemmas                                                                  *)
(***************************************************************************)
\* The number of bytes that a transfer moves.
LEMMA MinOfTwo ==
  ASSUME NEW a \in Int, NEW b \in Int
  PROVE  Min({a, b}) \in {a, b} /\ Min({a, b}) <= a /\ Min({a, b}) <= b
<1>1. \E x \in {a, b} : \A y \in {a, b} : x <= y
  <2>1. CASE a <= b BY <2>1
  <2>2. CASE b <= a BY <2>2
  <2>3. QED BY <2>1, <2>2
<1>2. Min({a, b}) \in {a, b} /\ \A y \in {a, b} : Min({a, b}) <= y BY <1>1 DEF Min
<1>3. QED BY <1>2

\* The beginning of a sequence, and the rest.
LEMMA Prefix ==
  ASSUME NEW S, NEW s \in Seq(S), NEW k \in 0..Len(s)
  PROVE  /\ SubSeq(s, 1, k) \in Seq(S) /\ Len(SubSeq(s, 1, k)) = k
         /\ \A i \in 1..k : SubSeq(s, 1, k)[i] = s[i]
<1>1. Len(s) \in Nat /\ k \in Nat /\ k <= Len(s) BY LenProperties
<1>2. \A i \in 1..k : s[i] \in S BY <1>1, ElementOfSeq
<1>3. QED BY <1>1, <1>2, SubSeqProperties

\* What is left of a sequence after its first k elements.
LEMMA Suffix ==
  ASSUME NEW S, NEW s \in Seq(S), NEW k \in 0..Len(s)
  PROVE  SubSeq(s, k + 1, Len(s)) \in Seq(S) /\ Len(SubSeq(s, k + 1, Len(s))) = Len(s) - k
<1>1. Len(s) \in Nat /\ k \in Nat /\ k <= Len(s) BY LenProperties
<1>2. \A i \in (k + 1)..Len(s) : s[i] \in S BY <1>1, ElementOfSeq
<1>3. QED BY <1>1, <1>2, SubSeqProperties

\* What write_exact passes to each write(2) continues what it has passed before.
LEMMA NextBytesTyped ==
  ASSUME NEW m \in Nat, NEW k \in Nat, m + k <= Len(Message)
  PROVE  /\ SubSeq(Message, m + 1, m + k) \in Seq(Nat)
         /\ Len(SubSeq(Message, m + 1, m + k)) = k
         /\ SubSeq(Message, 1, m) \o SubSeq(Message, m + 1, m + k) = SubSeq(Message, 1, m + k)
<1>1. Message \in Seq(Nat) BY SizeAssumption, SeqMonotonic
<1>2. Len(Message) \in Nat BY <1>1, LenProperties
<1>3. /\ SubSeq(Message, m + 1, m + k) \in Seq(Nat)
      /\ Len(SubSeq(Message, m + 1, m + k)) = k
  <2>1. \A i \in (m + 1)..(m + k) : Message[i] \in Nat BY <1>1, <1>2, ElementOfSeq
  <2>2. QED BY <1>1, <2>1, SubSeqProperties
<1>4. 1 \in 1..Len(Message) + 1 /\ m \in 1 - 1..Len(Message) /\ m + k \in m..Len(Message)
  BY <1>2
<1>5. SubSeq(Message, 1, m) \o SubSeq(Message, m + 1, m + k) = SubSeq(Message, 1, m + k)
  BY <1>1, <1>4, ConcatAdjacentSubSeq
<1>6. QED BY <1>3, <1>5

(***************************************************************************)
(* The beginning                                                           *)
(***************************************************************************)
LEMMA MessageTyped == Message \in Seq(Nat) /\ Len(Message) \in Nat
BY SizeAssumption, SeqMonotonic, LenProperties

\* There are no children at the start.
LEMMA InitIInv == Init => IInv
<1> SUFFICES ASSUME Init PROVE IInv OBVIOUS
<1>1. << >> \in Seq(Nat) /\ Len(<< >>) = 0 BY EmptySeq
<1>2. NoEnds \in [Ends -> SUBSET Holders] /\ \A end \in Ends : NoEnds[end] = {}
      /\ DOMAIN NoEnds = Ends
  BY DEF NoEnds, Ends, Holders
<1>3. Shapes BY <1>1, <1>2 DEF Init, Shapes
<1>4. TypeOK
  <2>1. object \in [Objects -> [scope : BOOLEAN, pid : Children \cup {None}, readable : BOOLEAN,
                             to : Children \cup {None}, from : Children \cup {None}]]
    BY DEF Init, Absent
  <2>2. call \in [kind : {"none", "assign", "destroy", "write", "read"}, of : Objects \cup {None},
               exact : BOOLEAN, left : 0..Len(Message), put : 0..Len(Message),
               next : Objects \cup {None}]
    BY MessageTyped DEF Init, NoCall
  <2>3. parts \in 0..Len(Message) /\ Len(stream) <= Len(Message)
    BY <1>1, MessageTyped DEF Init
  <2>4. \A c \in Children :
       /\ \A end \in DOMAIN NoEnds : ends[c][end] \subseteq {"program"} \cup Children
       /\ copies[c] \subseteq Children
       /\ \A s \in {inp[c], out[c], held[c]} : Len(s) <= PipeSize
    BY <1>1, <1>2, SizeAssumption DEF Init
  <2>5. QED BY <2>1, <2>2, <2>3, <2>4 DEF Init, TypeOK
<1>5. ObjectsMatch /\ OwnsItsChild /\ EndMeansGone
  BY DEF Init, Absent, ObjectsMatch, OwnsItsChild, EndMeansGone
<1>6. ChildMatches BY <1>2 DEF Init, ChildMatches, Ends
<1>7. ThreadMatches /\ WholeIsExact
  BY DEF Init, ThreadMatches, WaitMatches, WriteMatches, ReadMatches, RestMatches, WholeIsExact
<1>8. QED BY <1>3, <1>4, <1>5, <1>6, <1>7 DEF IInv

(***************************************************************************)
(* The children.  The program's objects and its thread do not change.      *)
(***************************************************************************)
\* A child reads its input or writes what it has read.
LEMMA PipeStep ==
  ASSUME IInv, NEW c \in Children, ChildReads(c) \/ ChildWrites(c) PROVE IInv'
<1> USE DEF IInv
<1>1. /\ UNCHANGED <<object, pc, call, buf, stream, parts, child, term, copies, ends, written, stale, forgotten>>
  BY DEF ChildReads, ChildWrites, thread, children, history
<1>2. /\ inp \in [Children -> Seq(Nat)] /\ out \in [Children -> Seq(Nat)]
      /\ held \in [Children -> Seq(Nat)] /\ PipeSize \in Nat
      /\ \A d \in Children : Len(inp[d]) <= PipeSize /\ Len(out[d]) <= PipeSize /\ Len(held[d]) <= PipeSize
  BY SizeAssumption DEF Shapes, TypeOK
<1>3. \E i, o, h \in Seq(Nat) :
        /\ Len(i) <= PipeSize /\ Len(o) <= PipeSize /\ Len(h) <= PipeSize
        /\ inp' = [inp EXCEPT ![c] = i] /\ out' = [out EXCEPT ![c] = o] /\ held' = [held EXCEPT ![c] = h]
  <2>1. CASE ChildReads(c)
    <3>1. << >> \in Seq(Nat) /\ Len(<< >>) = 0 BY EmptySeq
    <3>2. out' = [out EXCEPT ![c] = out[c]] BY <1>2, <2>1 DEF ChildReads
    <3>3. QED BY <1>2, <2>1, <3>1, <3>2 DEF ChildReads
  <2>2. CASE ChildWrites(c)
    <3> DEFINE k == Min({PipeSize - Len(out[c]), Len(held[c])})
    <3>1. Len(out[c]) \in Nat /\ Len(held[c]) \in Nat BY <1>2, LenProperties
    <3>2. k \in 0..Len(held[c]) /\ k <= PipeSize - Len(out[c])
      <4>1. PipeSize - Len(out[c]) \in Int /\ Len(held[c]) \in Int BY <1>2, <3>1
      <4>2. /\ k \in {PipeSize - Len(out[c]), Len(held[c])}
            /\ k <= PipeSize - Len(out[c]) /\ k <= Len(held[c])
        BY <4>1, MinOfTwo
      <4>3. k > 0 BY <2>2 DEF ChildWrites
      <4>4. QED BY <3>1, <4>1, <4>2, <4>3
    <3>3. /\ out' = [out EXCEPT ![c] = out[c] \o SubSeq(held[c], 1, k)]
          /\ held' = [held EXCEPT ![c] = SubSeq(held[c], k + 1, Len(held[c]))]
      BY <2>2 DEF ChildWrites
    <3>4. inp' = [inp EXCEPT ![c] = inp[c]] BY <1>2, <2>2 DEF ChildWrites
    <3> HIDE DEF k
    <3>5. /\ SubSeq(held[c], 1, k) \in Seq(Nat) /\ Len(SubSeq(held[c], 1, k)) = k
          /\ SubSeq(held[c], k + 1, Len(held[c])) \in Seq(Nat)
          /\ Len(SubSeq(held[c], k + 1, Len(held[c]))) = Len(held[c]) - k
      <4>1. held[c] \in Seq(Nat) BY <1>2
      <4>2. QED BY <4>1, <3>2, Prefix, Suffix, SMTT(60)
    <3>6. /\ out[c] \o SubSeq(held[c], 1, k) \in Seq(Nat)
          /\ Len(out[c] \o SubSeq(held[c], 1, k)) = Len(out[c]) + k
      BY <1>2, <3>5, ConcatProperties
    <3>7. Len(held[c]) - k <= PipeSize /\ Len(out[c]) + k <= PipeSize BY <1>2, <3>1, <3>2
    <3>8. QED BY <1>2, <3>3, <3>4, <3>5, <3>6, <3>7
  <2>3. QED BY <2>1, <2>2
<1>4. PICK i, o, h \in Seq(Nat) :
        /\ Len(i) <= PipeSize /\ Len(o) <= PipeSize /\ Len(h) <= PipeSize
        /\ inp' = [inp EXCEPT ![c] = i] /\ out' = [out EXCEPT ![c] = o] /\ held' = [held EXCEPT ![c] = h]
  BY <1>3
<1>5. TypeOK'
  <2>1. \A d \in Children : Len(inp'[d]) <= PipeSize /\ Len(out'[d]) <= PipeSize /\ Len(held'[d]) <= PipeSize
    BY <1>2, <1>4
  <2>2. QED BY <1>1, <2>1 DEF TypeOK
<1>6. Shapes' BY <1>1, <1>2, <1>4 DEF Shapes
<1>7. (ObjectsMatch /\ ChildMatches /\ OwnsItsChild /\ EndMeansGone)'
  BY <1>1 DEF ObjectsMatch, ChildMatches, OwnsItsChild, EndMeansGone
<1>8. (ThreadMatches /\ WholeIsExact)'
  BY <1>1 DEF ThreadMatches, WaitMatches, WriteMatches, ReadMatches, RestMatches, WholeIsExact
<1>9. QED BY <1>5, <1>6, <1>7, <1>8

\* A child starts its program or fails to, kills what its copies own, or dies; the
\* end of its output is dropped only with it or when its program could not start.
LEMMA FateStep ==
  ASSUME IInv, NEW c \in Children,
         Exec(c) \/ ExecFails(c) \/ StrayKills(c) \/ Exits(c) \/ Killed(c)
  PROVE  IInv'
<1> USE DEF IInv
<1>1. UNCHANGED <<object, pc, call, buf, stream, parts, written, stale, forgotten>>
  BY DEF Exec, ExecFails, StrayKills, Exits, Killed, Dies, thread, history
<1>2. /\ ends \in [Children -> [Ends -> SUBSET Holders]] /\ copies \in [Children -> SUBSET Children]
      /\ inp \in [Children -> Seq(Nat)] /\ out \in [Children -> Seq(Nat)]
      /\ held \in [Children -> Seq(Nat)] /\ << >> \in Seq(Nat) /\ Len(<< >>) = 0
      /\ PipeSize \in Nat
      /\ child \in [Children -> {"unborn", "forked", "runs", "stray", "zombie", "reaped"}]
      /\ \A d \in Children : Len(inp[d]) <= PipeSize /\ Len(out[d]) <= PipeSize /\ Len(held[d]) <= PipeSize
  BY EmptySeq, SizeAssumption DEF Shapes, TypeOK
<1>3. /\ term' \subseteq Children /\ copies' \in [Children -> SUBSET Children]
      /\ inp' \in [Children -> Seq(Nat)] /\ held' \in [Children -> Seq(Nat)] /\ out' = out
      /\ \A d \in Children : Len(inp'[d]) <= PipeSize /\ Len(held'[d]) <= PipeSize
  <2>1. CASE Exec(c) BY <1>2, <2>1 DEF Exec, pipes, TypeOK
  <2>2. CASE ExecFails(c) BY <1>2, <2>2 DEF ExecFails, pipes, TypeOK
  <2>3. CASE StrayKills(c) BY <1>2, <2>3 DEF StrayKills, pipes, TypeOK
  <2>4. CASE Exits(c) \/ Killed(c)
    <3>1. /\ term' = term \ {c} /\ copies' = [copies EXCEPT ![c] = {}] /\ out' = out
          /\ inp' = [inp EXCEPT ![c] = << >>] /\ held' = [held EXCEPT ![c] = << >>]
      BY <2>4 DEF Exits, Killed, Dies
    <3>2. term' \subseteq Children /\ copies' \in [Children -> SUBSET Children]
      BY <1>2, <3>1 DEF TypeOK
    <3>3. /\ inp' \in [Children -> Seq(Nat)] /\ held' \in [Children -> Seq(Nat)]
          /\ \A d \in Children : inp'[d] \in {inp[d], << >>} /\ held'[d] \in {held[d], << >>}
      BY <1>2, <3>1
    <3>4. \A d \in Children : Len(inp'[d]) <= PipeSize /\ Len(held'[d]) <= PipeSize
      BY <1>2, <3>3
    <3>5. QED BY <3>1, <3>2, <3>3, <3>4
  <2>5. QED BY <2>1, <2>2, <2>3, <2>4
<1>4. \/ child' = [child EXCEPT ![c] = "runs"] /\ child[c] = "forked" /\ ends' = ends
      \/ /\ child' = child
         /\ \E d \in Children : ends' = [ends EXCEPT ![d].toW = @ \ {c}, ![d].fromR = @ \ {c}]
      \/ /\ child' = [child EXCEPT ![c] = "stray"] /\ child[c] = "forked"
         /\ \E e \in {Dropped(ends[c], c), Redirected(c)} : ends' = [ends EXCEPT ![c] = e]
      \/ /\ child' = [child EXCEPT ![c] = "zombie"] /\ child[c] \in {"forked", "runs", "stray"}
         /\ ends' = [d \in Children |-> Dropped(ends[d], c)]
  <2>1. CASE Exec(c) BY <2>1 DEF Exec
  <2>2. CASE ExecFails(c) BY <2>2 DEF ExecFails
  <2>3. CASE StrayKills(c) BY <1>2, <2>3 DEF StrayKills
  <2>4. CASE Exits(c) \/ Killed(c) BY <2>4 DEF Exits, Killed, Dies, Living
  <2>5. QED BY <2>1, <2>2, <2>3, <2>4
<1>5. /\ ends' \in [Children -> [Ends -> SUBSET Holders]]
      /\ \A d \in Children :
           /\ ends'[d]["fromW"] \subseteq ends[d]["fromW"]
           /\ child'[d] \in {"forked", "runs"} /\ d \in ends[d]["fromW"] => d \in ends'[d]["fromW"]
  <2>1. \A d \in Children : /\ Dropped(ends[d], c) \in [Ends -> SUBSET Holders]
                            /\ Dropped(ends[d], c)["fromW"] = ends[d]["fromW"] \ {c}
    BY <1>2 DEF Dropped, Ends
  <2>2. CASE ends' = ends BY <1>2, <2>2
  <2>3. CASE child' = child
    <3>1. PICK d \in Children : ends' = [ends EXCEPT ![d].toW = @ \ {c}, ![d].fromR = @ \ {c}]
      BY <1>2, <1>4, <2>2, <2>3
    <3>2. ends[d] \in [Ends -> SUBSET Holders] BY <1>2
    <3> DEFINE e == [ends[d] EXCEPT !["toW"] = @ \ {c}, !["fromR"] = @ \ {c}]
    <3>3. e \in [Ends -> SUBSET Holders] /\ e["fromW"] = ends[d]["fromW"] BY <3>2 DEF Ends
    <3>4. ends' = [ends EXCEPT ![d] = e] BY <1>2, <3>1, <3>2 DEF Ends
    <3> HIDE DEF e
    <3>5. /\ ends' \in [Children -> [Ends -> SUBSET Holders]]
          /\ \A x \in Children : ends'[x]["fromW"] = ends[x]["fromW"]
      BY <1>2, <3>3, <3>4
    <3>6. QED BY <3>5
  <2>4. CASE child' = [child EXCEPT ![c] = "stray"] /\ child[c] = "forked"
    <3>1. PICK e \in {Dropped(ends[c], c), Redirected(c)} : ends' = [ends EXCEPT ![c] = e]
      BY <1>2, <1>4, <2>4
    <3>2. Redirected(c) \in [Ends -> SUBSET Holders]
          /\ Redirected(c)["fromW"] = (ends[c]["fromW"] \ {c}) \cup {c}
      <4>1. c \in Holders BY DEF Holders
      <4>2. Redirected(c) = [Dropped(ends[c], c) EXCEPT
                              !["toR"] = @ \cup {c}, !["fromW"] = @ \cup {c}]
        BY DEF Redirected
      <4>3. QED BY <2>1, <4>1, <4>2 DEF Ends
    <3>3. e \in [Ends -> SUBSET Holders] /\ e["fromW"] \subseteq ends[c]["fromW"]
      <4>1. c \in ends[c]["fromW"] BY <2>4 DEF ChildMatches
      <4>2. QED BY <2>1, <3>1, <3>2, <4>1
    <3>4. QED BY <1>2, <2>4, <3>1, <3>3
  <2>5. CASE /\ child' = [child EXCEPT ![c] = "zombie"]
             /\ ends' = [d \in Children |-> Dropped(ends[d], c)]
    BY <1>2, <2>1, <2>5
  <2>6. QED BY <1>4, <2>2, <2>3, <2>4, <2>5
<1>6. child' \in [Children -> {"unborn", "forked", "runs", "stray", "zombie", "reaped"}]
  BY <1>2, <1>4
<1>7. TypeOK'
  <2>1. \A d \in Children : \A end \in DOMAIN NoEnds : ends'[d][end] \subseteq {"program"} \cup Children
    BY <1>5 DEF NoEnds, Ends, Holders
  <2>2. \A d \in Children : copies'[d] \subseteq Children /\ Len(out'[d]) <= PipeSize BY <1>2, <1>3
  <2>3. QED BY <1>1, <1>3, <1>6, <2>1, <2>2 DEF TypeOK
<1>8. Shapes' BY <1>1, <1>2, <1>3, <1>5 DEF Shapes
<1>9. \A d \in Children : child'[d] # child[d] =>
        /\ child[d] \in {"forked", "runs", "stray"} /\ child'[d] \in {"runs", "stray", "zombie"}
        /\ child'[d] = "runs" => child[d] = "forked"
  BY <1>2, <1>4
<1>10. ChildMatches'
  <2>1. ASSUME NEW d \in Children, child'[d] \in {"forked", "runs"} PROVE d \in ends'[d]["fromW"]
    <3>1. child[d] \in {"forked", "runs"} BY <1>9, <2>1
    <3>2. QED BY <1>5, <2>1, <3>1 DEF ChildMatches
  <2>2. \A d \in Children : child'[d] = "unborn" => child[d] = "unborn" BY <1>9
  <2>3. QED BY <1>1, <1>5, <2>1, <2>2 DEF ChildMatches
<1>11. (ObjectsMatch /\ ThreadMatches /\ WholeIsExact)'
  BY <1>1 DEF ObjectsMatch, ThreadMatches, WaitMatches, WriteMatches, ReadMatches, RestMatches, WholeIsExact
<1>12. OwnsItsChild'
  <2>1. \A d \in Children : child'[d] \in {"unborn", "reaped"} <=> child[d] \in {"unborn", "reaped"}
    BY <1>9
  <2>2. \A o \in Objects : object[o].pid \in Children \cup {None} BY DEF TypeOK
  <2>3. QED BY <1>1, <2>1, <2>2 DEF OwnsItsChild
<1>13. EndMeansGone'
  <2>1. \A o \in Objects : object[o].pid \in Children \cup {None} BY DEF TypeOK
  <2>2. QED BY <1>1, <1>5, <1>9, <2>1 DEF EndMeansGone
<1>14. QED BY <1>7, <1>8, <1>10, <1>11, <1>12, <1>13

(***************************************************************************)
(* Operations on objects                                                   *)
(***************************************************************************)
Fields == [scope : BOOLEAN, pid : Children \cup {None}, readable : BOOLEAN,
           to : Children \cup {None}, from : Children \cup {None}]

States == {"unborn", "forked", "runs", "stray", "zombie", "reaped"}

Registers == [kind : {"none", "assign", "destroy", "write", "read"}, of : Objects \cup {None},
              exact : BOOLEAN, left : 0..Len(Message), put : 0..Len(Message),
              next : Objects \cup {None}]

\* The registers of a thread that is in no call.
LEMMA NoCallTyped == NoCall \in Registers BY MessageTyped DEF NoCall, Registers

\* Between calls nothing is known of the thread's registers but that they are clear.
LEMMA IdleSound ==
  ASSUME IInv, pc = "idle", UNCHANGED <<pc, call, buf, stream, parts>>
  PROVE  (ThreadMatches /\ WholeIsExact)'
BY DEF IInv, ThreadMatches, WaitMatches, WriteMatches, ReadMatches, RestMatches, WholeIsExact

\* The child of o, if it had one, is reaped or forgotten; the others, and who can write
\* to the program, stay.
LetGo(o) ==
  /\ \A d \in Children : /\ ends'[d]["fromW"] = ends[d]["fromW"]
                         /\ d # object[o].pid =>
                              child'[d] = child[d] /\ (d \in forgotten' <=> d \in forgotten)
  /\ object[o].pid # None =>
       child'[object[o].pid] = "reaped" \/ object[o].pid \in forgotten'

\* o takes the child of q, after its own child, if it had one, was let go.
LEMMA TakenSound ==
  ASSUME IInv, NEW o \in Objects, NEW q \in Objects, o # q, object[q].scope,
         NEW flag \in BOOLEAN, object' = Taken(o, q, flag), pc # "dead",
         LetGo(o), stale \subseteq stale', flag \/ o \in stale'
  PROVE  object' \in [Objects -> Fields] /\ (ObjectsMatch /\ OwnsItsChild /\ EndMeansGone)'
<1> USE DEF IInv
<1>1. object \in [Objects -> Fields] BY DEF TypeOK, Fields
<1>2. None \notin Objects /\ None \notin Children BY NoneAssumption
<1> DEFINE a == [object[q] EXCEPT !.readable = flag]
           b == [object[q] EXCEPT !.pid = None, !.to = None, !.from = None]
<1>3. /\ a \in Fields /\ a.pid = object[q].pid /\ a.from = object[q].from /\ a.to = object[q].to
      /\ a.scope = object[q].scope /\ a.readable = flag
  BY <1>1 DEF Fields
<1>4. /\ b \in Fields /\ b.pid = None /\ b.from = None /\ b.to = None
      /\ b.scope = object[q].scope /\ b.readable = object[q].readable
  BY <1>1 DEF Fields
<1>5. object' = [object EXCEPT ![o] = a, ![q] = b] BY DEF Taken
<1> HIDE DEF a, b
<1>6. /\ object' \in [Objects -> Fields] /\ object'[o] = a /\ object'[q] = b
      /\ \A x \in Objects : x # o /\ x # q => object'[x] = object[x]
  BY <1>1, <1>3, <1>4, <1>5
<1>7. ObjectsMatch'
  <2>1. ASSUME NEW x \in Objects
        PROVE  object'[x].from = object'[x].pid /\ (object'[x].pid # None => object'[x].scope)
    <3>1. CASE x = o BY <1>3, <1>6, <3>1 DEF ObjectsMatch
    <3>2. CASE x = q BY <1>4, <1>6, <3>2
    <3>3. CASE x # o /\ x # q BY <1>6, <3>3 DEF ObjectsMatch
    <3>4. QED BY <3>1, <3>2, <3>3
  <2>2. QED BY <2>1 DEF ObjectsMatch
<1>8. \A x \in Objects : object[x].pid \in Children \cup {None} BY <1>1 DEF Fields
<1>9. OwnsItsChild'
  <2>1. ASSUME NEW x \in Objects, object'[x].pid # None
        PROVE  /\ child'[object'[x].pid] \notin {"unborn", "reaped"}
               /\ object'[x].pid \notin forgotten'
               /\ \A y \in Objects : y # x => object'[y].pid # object'[x].pid
    <3>1. PICK z \in Objects : z # o /\ object'[x].pid = object[z].pid /\ (x = o => z = q) /\ (x # o => z = x)
      BY <1>3, <1>4, <1>6, <2>1
    <3>2. child[object[z].pid] \notin {"unborn", "reaped"} /\ object[z].pid \notin forgotten
      BY <2>1, <3>1 DEF OwnsItsChild
    <3>3. object[z].pid # object[o].pid BY <2>1, <3>1 DEF OwnsItsChild
    <3>4. object[z].pid \in Children BY <1>8, <2>1, <3>1
    <3>5. \A y \in Objects : y # z => object[y].pid # object[z].pid BY <2>1, <3>1 DEF OwnsItsChild
    <3>6. \A y \in Objects : y # x => object'[y].pid # object'[x].pid
      <4>1. ASSUME NEW y \in Objects, y # x PROVE object'[y].pid # object[z].pid
        <5>1. CASE y = o BY <1>3, <1>4, <1>6, <2>1, <3>1, <3>5, <4>1, <5>1
        <5>2. CASE y = q BY <1>3, <1>4, <1>6, <2>1, <3>1, <3>5, <4>1, <5>2
        <5>3. CASE y # o /\ y # q BY <1>3, <1>4, <1>6, <2>1, <3>1, <3>5, <4>1, <5>3
        <5>4. QED BY <5>1, <5>2, <5>3
      <4>2. QED BY <3>1, <4>1
    <3>7. QED BY <3>1, <3>2, <3>3, <3>4, <3>6 DEF LetGo
  <2>2. \A x \in Objects : object'[x].to \in {None, object'[x].pid}
    BY <1>3, <1>4, <1>6 DEF OwnsItsChild
  <2>3. ASSUME NEW d \in Children, child'[d] \notin {"unborn", "reaped"}, d \notin forgotten'
        PROVE  \E x \in Objects : object'[x].pid = d
    <3>1. d # object[o].pid /\ child[d] \notin {"unborn", "reaped"} /\ d \notin forgotten
      BY <1>2, <2>3 DEF LetGo
    <3>2. PICK z \in Objects : object[z].pid = d BY <3>1 DEF OwnsItsChild
    <3>3. CASE z = q BY <1>3, <1>6, <3>2, <3>3
    <3>4. CASE z # q BY <1>6, <3>1, <3>2, <3>4
    <3>5. QED BY <3>3, <3>4
  <2>4. QED BY <1>7, <2>1, <2>2, <2>3 DEF OwnsItsChild, ObjectsMatch
<1>10. EndMeansGone'
  <2>1. ASSUME NEW x \in Objects, object'[x].pid # None, ~object'[x].readable, x \notin stale'
        PROVE  /\ ends'[object'[x].pid].fromW = {}
               /\ child'[object'[x].pid] \in {"stray", "zombie"}
    <3>1. x # o /\ x # q BY <1>3, <1>4, <1>6, <2>1
    <3>2. object'[x] = object[x] BY <1>6, <3>1
    <3>3. ends[object[x].pid].fromW = {} /\ child[object[x].pid] \in {"stray", "zombie"}
      BY <2>1, <3>2 DEF EndMeansGone
    <3>4. object[x].pid # object[o].pid BY <2>1, <3>1, <3>2 DEF OwnsItsChild
    <3>5. QED BY <1>8, <2>1, <3>2, <3>3, <3>4 DEF LetGo
  <2>2. QED BY <2>1 DEF EndMeansGone
<1>11. QED BY <1>6, <1>7, <1>9, <1>10

\* The destructor of o returns, after its child, if it had one, was let go.
LEMMA ReleasedSound ==
  ASSUME IInv, NEW o \in Objects, object' = [object EXCEPT ![o] = Absent], pc # "dead",
         LetGo(o), stale' = stale \ {o}
  PROVE  object' \in [Objects -> Fields] /\ (ObjectsMatch /\ OwnsItsChild /\ EndMeansGone)'
<1> USE DEF IInv
<1>1. object \in [Objects -> Fields] BY DEF TypeOK, Fields
<1>2. None \notin Objects /\ None \notin Children BY NoneAssumption
<1>3. /\ Absent \in Fields /\ Absent.pid = None /\ Absent.from = None /\ Absent.to = None
      /\ ~Absent.scope
  BY DEF Absent, Fields
<1>4. /\ object' \in [Objects -> Fields] /\ object'[o] = Absent
      /\ \A x \in Objects : x # o => object'[x] = object[x]
  BY <1>1, <1>3
<1>5. ObjectsMatch' BY <1>3, <1>4 DEF ObjectsMatch
<1>6. \A x \in Objects : object[x].pid \in Children \cup {None} BY <1>1 DEF Fields
<1>7. \A x \in Objects : object'[x].pid # None =>
        /\ x # o /\ object'[x] = object[x] /\ object[x].pid # object[o].pid
        /\ child'[object'[x].pid] = child[object[x].pid]
        /\ ends'[object'[x].pid].fromW = ends[object[x].pid].fromW
        /\ object'[x].pid \in forgotten' <=> object[x].pid \in forgotten
  BY <1>3, <1>4, <1>6 DEF OwnsItsChild, LetGo
<1>8. OwnsItsChild'
  <2>1. ASSUME NEW x \in Objects, object'[x].pid # None
        PROVE  /\ child'[object'[x].pid] \notin {"unborn", "reaped"}
               /\ object'[x].pid \notin forgotten'
               /\ \A y \in Objects : y # x => object'[y].pid # object'[x].pid
    BY <1>3, <1>4, <1>7, <2>1 DEF OwnsItsChild
  <2>2. \A x \in Objects : object'[x].to \in {None, object'[x].pid}
    BY <1>3, <1>4 DEF OwnsItsChild
  <2>3. ASSUME NEW d \in Children, child'[d] \notin {"unborn", "reaped"}, d \notin forgotten'
        PROVE  \E x \in Objects : object'[x].pid = d
    <3>1. d # object[o].pid /\ child[d] \notin {"unborn", "reaped"} /\ d \notin forgotten
      BY <1>2, <2>3 DEF LetGo
    <3>2. PICK z \in Objects : object[z].pid = d BY <3>1 DEF OwnsItsChild
    <3>3. QED BY <1>4, <3>1, <3>2
  <2>4. QED BY <1>5, <2>1, <2>2, <2>3 DEF OwnsItsChild, ObjectsMatch
<1>9. EndMeansGone' BY <1>7 DEF EndMeansGone
<1>10. QED BY <1>4, <1>5, <1>8, <1>9

\* The invariant's parts that only depend on variables that most operations on
\* objects leave alone.
LEMMA RestSound ==
  ASSUME IInv, UNCHANGED <<parts, stream, buf, inp, held, written>>,
         object' \in [Objects -> Fields], child' \in [Children -> States],
         pc' \in {"idle", "wait"},
         call' \in Registers,
         out' \in [Children -> Seq(Nat)], \A c \in Children : Len(out'[c]) <= PipeSize,
         ends' \in [Children -> [Ends -> SUBSET Holders]],
         copies' \in [Children -> SUBSET Children],
         term' \subseteq Children, stale' \subseteq Objects, forgotten' \subseteq Children
  PROVE  TypeOK' /\ Shapes'
<1> USE DEF IInv
<1>1. \A c \in Children : \A end \in DOMAIN NoEnds : ends'[c][end] \subseteq {"program"} \cup Children
  BY DEF NoEnds, Ends, Holders
<1>2. /\ parts' \in 0..Len(Message) /\ Len(stream') <= Len(Message) /\ written' \subseteq Children
      /\ \A c \in Children : Len(inp'[c]) <= PipeSize /\ Len(held'[c]) <= PipeSize
  BY DEF TypeOK
<1>3. \A c \in Children : copies'[c] \subseteq Children OBVIOUS
<1>4. TypeOK' BY <1>1, <1>2, <1>3 DEF TypeOK, Fields, States, Registers
<1>5. Shapes' BY DEF Shapes
<1>6. QED BY <1>4, <1>5

\* What IInv says of the variables' types, in the form that the proofs need.
LEMMA Types ==
  ASSUME IInv
  PROVE  /\ object \in [Objects -> Fields] /\ child \in [Children -> States]
         /\ call \in Registers
         /\ out \in [Children -> Seq(Nat)] /\ \A c \in Children : Len(out[c]) <= PipeSize
         /\ ends \in [Children -> [Ends -> SUBSET Holders]]
         /\ copies \in [Children -> SUBSET Children]
         /\ term \subseteq Children /\ stale \subseteq Objects /\ forgotten \subseteq Children
         /\ None \notin Objects /\ None \notin Children /\ "program" \notin Children
BY NoneAssumption DEF IInv, TypeOK, Shapes, Fields, States, Registers

\* A new child has all ends of its pipes, and inherits what the program has of the others.
LEMMA CreateStep ==
  ASSUME IInv, NEW o \in Objects, NEW c \in Children, Create(o, c) PROVE IInv'
<1> USE DEF IInv
<1>0. UNCHANGED <<pc, call, buf, stream, parts, term, inp, out, held, written, stale, forgotten>>
  BY DEF Create, thread, pipes, history
<1>1. /\ pc = "idle" /\ ~object[o].scope /\ child[c] = "unborn"
      /\ object' = [object EXCEPT ![o] = Made(c)] /\ child' = [child EXCEPT ![c] = "forked"]
      /\ ends' = [d \in Children |-> IF d = c THEN EndsOfNew(c) ELSE Inherited(ends[d], c)]
      /\ copies' = [copies EXCEPT ![c] = {object[q].pid : q \in Objects} \ {None}]
  BY DEF Create, InScope
<1>2. object \in [Objects -> Fields] /\ \A x \in Objects : object[x].pid \in Children \cup {None}
  BY Types DEF Fields
<1>3. /\ Made(c) \in Fields /\ Made(c).pid = c /\ Made(c).from = c /\ Made(c).to = c
      /\ Made(c).scope /\ Made(c).readable
  BY DEF Made, Fields
<1>4. /\ object' \in [Objects -> Fields] /\ object'[o] = Made(c)
      /\ \A x \in Objects : x # o => object'[x] = object[x]
  BY <1>1, <1>2, <1>3
<1>5. child' \in [Children -> States] /\ child'[c] = "forked"
      /\ \A d \in Children : d # c => child'[d] = child[d]
  BY <1>1, Types DEF States
<1>6. ends' \in [Children -> [Ends -> SUBSET Holders]]
  <2>1. EndsOfNew(c) \in [Ends -> SUBSET Holders] BY DEF EndsOfNew, Ends, Holders
  <2>2. ASSUME NEW d \in Children PROVE Inherited(ends[d], c) \in [Ends -> SUBSET Holders]
    <3>1. ends[d] \in [Ends -> SUBSET Holders] /\ c \in Holders BY Types DEF Holders
    <3>2. QED BY <3>1 DEF Inherited
  <2>3. QED BY <1>1, <2>1, <2>2
<1>16. \A d \in Children : d # c => ends'[d]["fromW"] = ends[d]["fromW"]
  <2>1. ASSUME NEW d \in Children, d # c PROVE ends'[d]["fromW"] = ends[d]["fromW"]
    <3>1. ends'[d] = Inherited(ends[d], c) BY <1>1, <2>1
    <3>2. "program" \notin ends[d]["fromW"] BY Types DEF ChildMatches
    <3>3. "fromW" \in Ends /\ DOMAIN ends[d] = Ends BY Types DEF Ends
    <3>4. QED BY <3>1, <3>2, <3>3 DEF Inherited
  <2>2. QED BY <2>1
<1>7. copies' \in [Children -> SUBSET Children] BY <1>1, <1>2, Types
<1>8. TypeOK' /\ Shapes' BY <1>0, <1>1, <1>4, <1>5, <1>6, <1>7, Types, RestSound
<1>9. object[o].pid = None BY <1>1 DEF ObjectsMatch
<1>10. \A x \in Objects : object[x].pid # None => object[x].pid # c
  BY <1>1 DEF OwnsItsChild
<1>17. c \notin forgotten BY <1>1 DEF ChildMatches
<1>11. ObjectsMatch' BY <1>3, <1>4 DEF ObjectsMatch
<1>12. ChildMatches'
  <2>1. ASSUME NEW d \in Children
        PROVE  /\ ends'[d]["fromW"] \subseteq {d}
               /\ child'[d] \in {"forked", "runs"} => d \in ends'[d]["fromW"]
               /\ d \in forgotten' => child'[d] # "unborn"
    <3>1. CASE d = c BY <1>1, <1>5, <3>1 DEF EndsOfNew
    <3>2. CASE d # c BY <1>0, <1>5, <1>16, <3>2 DEF ChildMatches
    <3>3. QED BY <3>1, <3>2
  <2>2. QED BY <2>1 DEF ChildMatches
<1>13. OwnsItsChild'
  <2>1. ASSUME NEW x \in Objects, object'[x].pid # None
        PROVE  /\ child'[object'[x].pid] \notin {"unborn", "reaped"}
               /\ object'[x].pid \notin forgotten'
               /\ \A y \in Objects : y # x => object'[y].pid # object'[x].pid
    <3>1. CASE x = o BY <1>0, <1>3, <1>4, <1>5, <1>10, <1>17, <2>1, <3>1, Types
    <3>2. CASE x # o BY <1>0, <1>2, <1>3, <1>4, <1>5, <1>10, <2>1, <3>2 DEF OwnsItsChild
    <3>3. QED BY <3>1, <3>2
  <2>2. \A x \in Objects : object'[x].to \in {None, object'[x].pid}
    BY <1>3, <1>4 DEF OwnsItsChild
  <2>3. ASSUME NEW d \in Children, child'[d] \notin {"unborn", "reaped"}, d \notin forgotten'
        PROVE  \E x \in Objects : object'[x].pid = d
    <3>1. CASE d = c BY <1>3, <1>4, <3>1
    <3>2. CASE d # c
      <4>1. PICK z \in Objects : object[z].pid = d BY <1>0, <1>1, <1>5, <2>3, <3>2 DEF OwnsItsChild
      <4>2. QED BY <1>4, <1>9, <4>1, Types
    <3>3. QED BY <3>1, <3>2
  <2>4. QED BY <1>11, <2>1, <2>2, <2>3 DEF OwnsItsChild, ObjectsMatch
<1>14. EndMeansGone'
  <2>1. ASSUME NEW x \in Objects, object'[x].pid # None, ~object'[x].readable, x \notin stale'
        PROVE  /\ ends'[object'[x].pid].fromW = {}
               /\ child'[object'[x].pid] \in {"stray", "zombie"}
    <3>1. object'[x] = object[x] BY <1>3, <1>4, <2>1
    <3>2. object[x].pid \in Children /\ object[x].pid # c BY <1>2, <1>10, <2>1, <3>1
    <3>3. ends[object[x].pid].fromW = {} /\ child[object[x].pid] \in {"stray", "zombie"}
      BY <1>0, <2>1, <3>1 DEF EndMeansGone
    <3>4. QED BY <1>5, <1>16, <3>1, <3>2, <3>3
  <2>2. QED BY <2>1 DEF EndMeansGone
<1>15. QED BY <1>0, <1>1, <1>8, <1>11, <1>12, <1>13, <1>14, IdleSound

\* Process(Process &&).
LEMMA MoveConstructStep ==
  ASSUME IInv, NEW o \in Objects, NEW q \in Objects, MoveConstruct(o, q) PROVE IInv'
<1> USE DEF IInv
<1>1. UNCHANGED <<pc, call, buf, stream, parts, child, term, copies, ends, inp, out, held, written, stale, forgotten>>
  BY DEF MoveConstruct, thread, children, pipes, history
<1>2. pc = "idle" /\ ~object[o].scope /\ object[q].scope /\ object' = Taken(o, q, TRUE)
  BY DEF MoveConstruct, InScope
<1>3. object[o].pid = None BY <1>2 DEF ObjectsMatch
<1>4. LetGo(o) BY <1>1, <1>3 DEF LetGo
<1>5. object' \in [Objects -> Fields] /\ (ObjectsMatch /\ OwnsItsChild /\ EndMeansGone)'
  BY <1>1, <1>2, <1>4, TakenSound
<1>6. TypeOK' /\ Shapes' BY <1>1, <1>2, <1>5, Types, RestSound
<1>7. ChildMatches' BY <1>1 DEF ChildMatches
<1>8. QED BY <1>1, <1>2, <1>5, <1>6, <1>7, IdleSound

\* Two objects exchange their children and leave their flags.
LEMMA SwapStep ==
  ASSUME IInv, NEW o \in Objects, NEW q \in Objects, Swap(o, q) PROVE IInv'
<1> USE DEF IInv
<1> DEFINE a == [object[q] EXCEPT !.readable = object[o].readable]
           b == [object[o] EXCEPT !.readable = object[q].readable]
<1>1. UNCHANGED <<pc, call, buf, stream, parts, child, term, copies, ends, inp, out, held, written, forgotten>>
  BY DEF Swap, thread, children, pipes
<1>2. /\ pc = "idle" /\ object[o].scope /\ object[q].scope /\ o # q
      /\ object' = [object EXCEPT ![o] = a, ![q] = b]
      /\ stale' = stale \cup {x \in {o, q} : ~object[x].readable}
  BY DEF Swap, InScope
<1>3. object \in [Objects -> Fields] BY Types
<1>4. /\ a \in Fields /\ a.pid = object[q].pid /\ a.from = object[q].from /\ a.to = object[q].to
      /\ a.scope /\ a.readable = object[o].readable
  BY <1>2, <1>3 DEF Fields
<1>5. /\ b \in Fields /\ b.pid = object[o].pid /\ b.from = object[o].from /\ b.to = object[o].to
      /\ b.scope /\ b.readable = object[q].readable
  BY <1>2, <1>3 DEF Fields
<1> HIDE DEF a, b
<1>6. /\ object' \in [Objects -> Fields] /\ object'[o] = a /\ object'[q] = b
      /\ \A x \in Objects : x # o /\ x # q => object'[x] = object[x]
  BY <1>2, <1>3, <1>4, <1>5
<1>7. stale' \subseteq Objects BY <1>2, Types
<1>8. TypeOK' /\ Shapes' BY <1>1, <1>2, <1>6, <1>7, Types, RestSound
<1>9. ChildMatches' BY <1>1 DEF ChildMatches
<1>10. ObjectsMatch'
  <2>1. ASSUME NEW x \in Objects
        PROVE  object'[x].from = object'[x].pid /\ (object'[x].pid # None => object'[x].scope)
    <3>1. CASE x = o BY <1>4, <1>6, <3>1 DEF ObjectsMatch
    <3>2. CASE x = q BY <1>5, <1>6, <3>2 DEF ObjectsMatch
    <3>3. CASE x # o /\ x # q BY <1>6, <3>3 DEF ObjectsMatch
    <3>4. QED BY <3>1, <3>2, <3>3
  <2>2. QED BY <2>1 DEF ObjectsMatch
<1>11. OwnsItsChild'
  <2>1. ASSUME NEW x \in Objects
        PROVE  \E z \in Objects :
                 /\ object'[x].pid = object[z].pid /\ object'[x].to = object[z].to
                 /\ object'[z].pid = object[x].pid
                 /\ \A y \in Objects : object'[y].pid = object[z].pid => y = x \/ object[z].pid = None
    <3>1. CASE x = o BY <1>2, <1>4, <1>5, <1>6, <3>1 DEF OwnsItsChild
    <3>2. CASE x = q BY <1>2, <1>4, <1>5, <1>6, <3>2 DEF OwnsItsChild
    <3>3. CASE x # o /\ x # q BY <1>2, <1>4, <1>5, <1>6, <3>3 DEF OwnsItsChild
    <3>4. QED BY <3>1, <3>2, <3>3
  <2>2. ASSUME NEW x \in Objects
        PROVE  /\ object'[x].pid # None =>
                    /\ child'[object'[x].pid] \notin {"unborn", "reaped"}
                    /\ object'[x].pid \notin forgotten'
                    /\ \A y \in Objects : y # x => object'[y].pid # object'[x].pid
               /\ object'[x].to \in {None, object'[x].pid}
    BY <1>1, <2>1 DEF OwnsItsChild
  <2>3. ASSUME NEW d \in Children, child'[d] \notin {"unborn", "reaped"}, d \notin forgotten'
        PROVE  \E x \in Objects : object'[x].pid = d
    <3>1. PICK z \in Objects : object[z].pid = d BY <1>1, <1>2, <2>3 DEF OwnsItsChild
    <3>2. QED BY <2>1, <3>1
  <2>4. QED BY <1>10, <2>2, <2>3 DEF OwnsItsChild, ObjectsMatch
<1>12. EndMeansGone'
  <2>1. ASSUME NEW x \in Objects, object'[x].pid # None, ~object'[x].readable, x \notin stale'
        PROVE  /\ ends'[object'[x].pid].fromW = {}
               /\ child'[object'[x].pid] \in {"stray", "zombie"}
    <3>1. x # o /\ x # q BY <1>2, <1>4, <1>5, <1>6, <2>1
    <3>2. object'[x] = object[x] /\ x \notin stale BY <1>2, <1>6, <2>1, <3>1
    <3>3. QED BY <1>1, <2>1, <3>2 DEF EndMeansGone
  <2>2. QED BY <2>1 DEF EndMeansGone
<1>13. QED BY <1>1, <1>2, <1>8, <1>9, <1>10, <1>11, <1>12, IdleSound

\* An operation that has a child to end first kills it and waits.
LEMMA WaitStep ==
  ASSUME IInv, NEW o \in Objects, pc = "idle", HasChild(o), Kills(o), pc' = "wait",
         UNCHANGED <<object, stale, forgotten, buf, stream, parts, child, copies, ends, inp, out, held, written>>,
         \/ call' = [NoCall EXCEPT !.kind = "destroy", !.of = o]
         \/ \E q \in Objects : /\ o # q /\ object[q].scope
                               /\ call' = [NoCall EXCEPT !.kind = "assign", !.of = o, !.next = q]
  PROVE  IInv'
<1> USE DEF IInv
<1>1. object[o].pid # None /\ object[o].pid \in Children BY Types DEF HasChild, Fields
<1>2. term' \subseteq Children BY <1>1, Types DEF Kills
<1>3. /\ call' \in Registers
      /\ call'.of = o
      /\ call'.kind = "assign" => call'.next \in Objects /\ call'.next # o /\ object[call'.next].scope
      /\ call'.kind \in {"assign", "destroy"}
  <2>1. NoCall \in Registers
    BY NoCallTyped
  <2>2. CASE call' = [NoCall EXCEPT !.kind = "destroy", !.of = o] BY <2>1, <2>2 DEF Registers
  <2>3. ASSUME NEW q \in Objects, o # q, object[q].scope,
               call' = [NoCall EXCEPT !.kind = "assign", !.of = o, !.next = q]
        PROVE  /\ call' \in Registers
               /\ call'.of = o /\ call'.kind = "assign" /\ call'.next = q
    BY <2>1, <2>3 DEF Registers
  <2>4. QED BY <2>2, <2>3
<1>4. TypeOK' /\ Shapes' BY <1>2, <1>3, Types, RestSound
<1>5. (ObjectsMatch /\ ChildMatches /\ EndMeansGone)' BY DEF ObjectsMatch, ChildMatches, EndMeansGone
<1>6. OwnsItsChild' BY DEF OwnsItsChild
<1>7. (ThreadMatches /\ WholeIsExact)'
  BY <1>1, <1>3 DEF ThreadMatches, WaitMatches, WriteMatches, ReadMatches, RestMatches, WholeIsExact
<1>8. QED BY <1>4, <1>5, <1>6, <1>7

\* operator=(Process &&), over an object that may have a child.
LEMMA MoveAssignStep ==
  ASSUME IInv, NEW o \in Objects, NEW q \in Objects, MoveAssign(o, q) PROVE IInv'
<1> USE DEF IInv
<1>1. UNCHANGED <<buf, stream, parts, child, copies, ends, inp, out, held, written, forgotten>>
  BY DEF MoveAssign, pipes
<1>2. pc = "idle" /\ object[o].scope /\ object[q].scope /\ o # q
  BY DEF MoveAssign, InScope
<1>3. CASE HasChild(o)
  BY <1>1, <1>2, <1>3, WaitStep DEF MoveAssign
<1>4. CASE ~HasChild(o)
  <2>1. /\ object' = Taken(o, q, object[o].readable)
        /\ stale' = IF object[o].readable THEN stale ELSE stale \cup {o}
        /\ UNCHANGED <<pc, call, term>>
    BY <1>4 DEF MoveAssign
  <2>2. LetGo(o) BY <1>1, <1>4 DEF HasChild, LetGo
  <2>3. object[o].readable \in BOOLEAN BY Types DEF Fields
  <2>4. stale \subseteq stale' /\ (object[o].readable \/ o \in stale') /\ stale' \subseteq Objects
    BY <2>1, Types
  <2>5. object' \in [Objects -> Fields] /\ (ObjectsMatch /\ OwnsItsChild /\ EndMeansGone)'
    BY <1>2, <2>1, <2>2, <2>3, <2>4, TakenSound
  <2>6. TypeOK' /\ Shapes' BY <1>1, <1>2, <2>1, <2>4, <2>5, Types, RestSound
  <2>7. ChildMatches' BY <1>1 DEF ChildMatches
  <2>8. QED BY <1>1, <1>2, <2>1, <2>5, <2>6, <2>7, IdleSound
<1>5. QED BY <1>3, <1>4

\* An object goes out of scope, and its destructor is called.
LEMMA DestroyStep ==
  ASSUME IInv, NEW o \in Objects, Destroy(o) PROVE IInv'
<1> USE DEF IInv
<1>1. UNCHANGED <<buf, stream, parts, child, copies, ends, inp, out, held, written, forgotten>>
  BY DEF Destroy, pipes
<1>2. pc = "idle" /\ object[o].scope BY DEF Destroy, InScope
<1>3. CASE HasChild(o)
  BY <1>1, <1>2, <1>3, WaitStep DEF Destroy
<1>4. CASE ~HasChild(o)
  <2>1. /\ object' = [object EXCEPT ![o] = Absent] /\ stale' = stale \ {o}
        /\ UNCHANGED <<pc, call, term>>
    BY <1>4 DEF Destroy
  <2>2. LetGo(o) BY <1>1, <1>4 DEF HasChild, LetGo
  <2>3. object' \in [Objects -> Fields] /\ (ObjectsMatch /\ OwnsItsChild /\ EndMeansGone)'
    BY <1>2, <2>1, <2>2, ReleasedSound
  <2>4. stale' \subseteq Objects BY <2>1, Types
  <2>5. TypeOK' /\ Shapes' BY <1>1, <1>2, <2>1, <2>3, <2>4, Types, RestSound
  <2>6. ChildMatches' BY <1>1 DEF ChildMatches
  <2>7. QED BY <1>1, <1>2, <2>1, <2>3, <2>5, <2>6, IdleSound
<1>5. QED BY <1>3, <1>4

\* waitpid returned or was interrupted: the child has no owner any more, and its pipes
\* no program's end.
LEMMA ReapStep ==
  ASSUME IInv, Reap \/ WaitFails PROVE IInv'
<1> USE DEF IInv
<1> DEFINE o == call.of
           c == object[o].pid
<1>1. UNCHANGED <<buf, stream, parts, term, copies, inp, held, written>>
  BY DEF Reap, WaitFails, Released
<1>2. /\ pc = "wait" /\ ends' = ClosedBy(o)
      /\ \/ /\ call.kind = "assign"
            /\ object' = Taken(o, call.next, object[o].readable)
            /\ stale' = IF object[o].readable THEN stale ELSE stale \cup {o}
         \/ /\ call.kind = "destroy"
            /\ object' = [object EXCEPT ![o] = Absent] /\ stale' = stale \ {o}
      /\ pc' = "idle" /\ call' = NoCall
  BY DEF Reap, WaitFails, Released
<1>3. o \in Objects /\ c \in Children
  <2>1. o \in Objects /\ c # None BY <1>2 DEF ThreadMatches, WaitMatches
  <2>2. QED BY <2>1, Types DEF Fields
<1>4. call.kind = "assign" => call.next \in Objects /\ call.next # o /\ object[call.next].scope
  BY <1>2 DEF ThreadMatches, WaitMatches
<1>17. \/ /\ child[c] = "zombie" /\ child' = [child EXCEPT ![c] = "reaped"]
          /\ out' = [out EXCEPT ![c] = << >>] /\ forgotten' = forgotten
       \/ UNCHANGED <<child, out>> /\ forgotten' = forgotten \cup {c}
  BY DEF Reap, WaitFails
<1>18. child[c] # "unborn" BY <1>3, Types DEF OwnsItsChild
<1> HIDE DEF o, c
<1>5. /\ \A d \in Children : d # c => child'[d] = child[d] /\ (d \in forgotten' <=> d \in forgotten)
      /\ child'[c] = "reaped" \/ c \in forgotten'
  BY <1>3, <1>17, Types
<1>6. /\ child' \in [Children -> States] /\ forgotten' \subseteq Children
      /\ \A d \in Children : /\ child'[d] \in {child[d], "reaped"}
                             /\ d \in forgotten' => d \in forgotten \/ d = c
  BY <1>3, <1>17, Types DEF States
<1>7. object[o].readable \in BOOLEAN BY <1>3, Types DEF Fields
<1>12. /\ ends' \in [Children -> [Ends -> SUBSET Holders]]
       /\ \A d \in Children : ends'[d]["fromW"] = ends[d]["fromW"]
  <2>1. ASSUME NEW d \in Children
        PROVE  ends'[d] \in [Ends -> SUBSET Holders] /\ ends'[d]["fromW"] = ends[d]["fromW"]
    <3>1. ends[d] \in [Ends -> SUBSET Holders] BY Types
    <3>2. ends'[d] = [ends[d] EXCEPT
                        !["toW"]   = IF object[o].to = d THEN ends[d]["toW"] \ {"program"} ELSE ends[d]["toW"],
                        !["fromR"] = IF object[o].from = d THEN ends[d]["fromR"] \ {"program"} ELSE ends[d]["fromR"]]
      BY <1>2 DEF ClosedBy
    <3>3. QED BY <3>1, <3>2 DEF Ends
  <2>2. ends' = [d \in Children |-> ends'[d]] BY <1>2 DEF ClosedBy
  <2>3. QED BY <2>1, <2>2
<1>19. LetGo(o) BY <1>5, <1>12 DEF LetGo, c
<1>8. object' \in [Objects -> Fields] /\ (ObjectsMatch /\ OwnsItsChild /\ EndMeansGone)'
  <2>1. CASE call.kind = "assign"
    <3>1. stale \subseteq stale' /\ (object[o].readable \/ o \in stale') BY <1>2, <2>1
    <3>2. QED BY <1>2, <1>3, <1>4, <1>7, <1>19, <2>1, <3>1, TakenSound
  <2>2. CASE call.kind = "destroy" BY <1>2, <1>3, <1>19, <2>2, ReleasedSound
  <2>3. QED BY <1>2, <2>1, <2>2
<1>9. stale' \subseteq Objects BY <1>2, <1>3, Types
<1>10. NoCall \in Registers BY NoCallTyped
<1>11. out' \in [Children -> Seq(Nat)] /\ \A d \in Children : Len(out'[d]) <= PipeSize
  <2>1. << >> \in Seq(Nat) /\ Len(<< >>) = 0 /\ 0 <= PipeSize BY EmptySeq, SizeAssumption
  <2>2. QED BY <1>3, <1>17, <2>1, Types
<1>13. TypeOK' /\ Shapes'
  BY <1>1, <1>2, <1>6, <1>8, <1>9, <1>10, <1>11, <1>12, Types, RestSound
<1>14. ChildMatches' 
  <2>1. ASSUME NEW d \in Children
        PROVE  /\ ends'[d]["fromW"] \subseteq {d}
               /\ child'[d] \in {"forked", "runs"} => d \in ends'[d]["fromW"]
               /\ d \in forgotten' => child'[d] # "unborn"
    BY <1>6, <1>12, <1>18 DEF ChildMatches
  <2>2. QED BY <2>1 DEF ChildMatches
<1>15. (ThreadMatches /\ WholeIsExact)'
  BY <1>1, <1>2 DEF ThreadMatches, WaitMatches, WriteMatches, ReadMatches, RestMatches, WholeIsExact
<1>16. QED BY <1>8, <1>13, <1>14, <1>15

\* close_stdin: the object has lost one descriptor, and the pipe one writer.
LEMMA CloseStdinStep ==
  ASSUME IInv, NEW o \in Objects, CloseStdin(o) PROVE IInv'
<1> USE DEF IInv
<1>1. UNCHANGED <<pc, call, buf, stream, parts, child, term, copies, inp, out, held, written, stale, forgotten>>
  BY DEF CloseStdin, thread, children, pipes, history
<1>2. /\ pc = "idle" /\ object[o].scope /\ object[o].to # None
      /\ object' = [object EXCEPT ![o].to = None]
      /\ ends' = [ends EXCEPT ![object[o].to].toW = @ \ {"program"}]
  BY DEF CloseStdin, InScope
<1>3. object \in [Objects -> Fields] /\ object[o].to \in Children BY <1>2, Types DEF Fields
<1>4. /\ object' \in [Objects -> Fields]
      /\ \A x \in Objects : /\ object'[x].pid = object[x].pid /\ object'[x].from = object[x].from
                            /\ object'[x].scope = object[x].scope
                            /\ object'[x].readable = object[x].readable
                            /\ object'[x].to \in {object[x].to, None}
  BY <1>2, <1>3 DEF Fields
<1>5. /\ ends' \in [Children -> [Ends -> SUBSET Holders]]
      /\ \A d \in Children : ends'[d]["fromW"] = ends[d]["fromW"]
  BY <1>2, <1>3, Types, ZenonT(60) DEF Ends
<1>6. TypeOK' /\ Shapes' BY <1>1, <1>2, <1>4, <1>5, Types, RestSound
<1>7. ChildMatches' BY <1>1, <1>5 DEF ChildMatches
<1>8. (ObjectsMatch /\ EndMeansGone)'
  <2>1. \A x \in Objects : object[x].pid \in Children \cup {None} BY <1>3 DEF Fields
  <2>2. QED BY <1>1, <1>4, <1>5, <2>1, ZenonT(60) DEF ObjectsMatch, EndMeansGone
<1>9. OwnsItsChild'
  <2>1. \A x \in Objects : object'[x].to \in {None, object'[x].pid} BY <1>4 DEF OwnsItsChild
  <2>2. QED BY <1>1, <1>4, <2>1 DEF OwnsItsChild
<1>10. QED BY <1>1, <1>2, <1>6, <1>7, <1>8, <1>9, IdleSound

\* SIGPIPE ends the program: its ends are closed, and its objects are gone.
LEMMA BrokenPipeStep ==
  ASSUME IInv, BrokenPipe PROVE IInv'
<1> USE DEF IInv
<1>1. UNCHANGED <<child, term, copies, inp, out, held, written, forgotten>>
  BY DEF BrokenPipe, children, pipes
<1>2. /\ pc' = "dead" /\ call' = NoCall /\ buf' = << >> /\ stream' = << >> /\ parts' = 0
      /\ object' = [x \in Objects |-> Absent] /\ stale' = {}
      /\ ends' = [c \in Children |-> Dropped(ends[c], "program")]
  BY DEF BrokenPipe
<1>3. << >> \in Seq(Nat) /\ Len(<< >>) = 0 BY EmptySeq
<1>4. ASSUME NEW c \in Children
      PROVE  /\ Dropped(ends[c], "program") \in [Ends -> SUBSET Holders]
             /\ Dropped(ends[c], "program")["fromW"] = ends[c]["fromW"] \ {"program"}
  <2>1. ends[c] \in [Ends -> SUBSET Holders] BY Types
  <2>2. QED BY <2>1 DEF Dropped, Ends
<1>5. Shapes' BY <1>1, <1>2, <1>3, <1>4 DEF Shapes
<1>6. TypeOK'
  <2>1. object' \in [Objects -> Fields] BY <1>2 DEF Absent, Fields
  <2>2. NoCall \in Registers BY NoCallTyped
  <2>3. \A c \in Children : \A end \in DOMAIN NoEnds : ends'[c][end] \subseteq {"program"} \cup Children
    <3>1. ends' \in [Children -> [Ends -> SUBSET Holders]] BY <1>2, <1>4
    <3>2. QED BY <3>1 DEF NoEnds, Ends, Holders
  <2>4. parts' \in 0..Len(Message) /\ Len(stream') <= Len(Message) BY <1>2, <1>3, MessageTyped
  <2>5. QED BY <1>1, <1>2, <2>1, <2>2, <2>3, <2>4 DEF TypeOK, Fields, Registers
<1>7. ChildMatches'
  <2>1. ASSUME NEW c \in Children
        PROVE  /\ ends'[c]["fromW"] = ends[c]["fromW"] \ {"program"}
               /\ c # "program"
    BY <1>2, <1>4, Types
  <2>2. QED BY <1>1, <2>1 DEF ChildMatches
<1>8. (ObjectsMatch /\ OwnsItsChild /\ EndMeansGone)'
  BY <1>2 DEF Absent, ObjectsMatch, OwnsItsChild, EndMeansGone
<1>9. (ThreadMatches /\ WholeIsExact)'
  BY <1>2 DEF ThreadMatches, WaitMatches, WriteMatches, ReadMatches, RestMatches, WholeIsExact
<1>10. QED BY <1>5, <1>6, <1>7, <1>8, <1>9

(***************************************************************************)
(* Calls that transfer bytes                                               *)
(***************************************************************************)
\* The types of what a call counts.
LEMMA Counters ==
  ASSUME IInv
  PROVE  /\ buf \in Seq(Nat) /\ stream \in Seq(Nat) /\ Len(buf) \in Nat /\ Len(stream) \in Nat
         /\ parts \in Nat /\ call.left \in Nat /\ call.put \in Nat /\ Len(Message) \in Nat
         /\ call.left <= Len(Message) /\ call.put <= Len(Message) /\ PipeSize \in Nat
         /\ inp \in [Children -> Seq(Nat)] /\ held \in [Children -> Seq(Nat)]
         /\ parts <= Len(Message) /\ Len(stream) <= Len(Message)
<1> USE DEF IInv
<1>1. buf \in Seq(Nat) /\ stream \in Seq(Nat) BY DEF Shapes
<1>2. Len(buf) \in Nat /\ Len(stream) \in Nat BY <1>1, LenProperties
<1>3. call.left \in 0..Len(Message) /\ call.put \in 0..Len(Message) BY Types DEF Registers
<1>4. parts \in 0..Len(Message) /\ Len(stream) <= Len(Message) BY DEF TypeOK
<1>5. inp \in [Children -> Seq(Nat)] /\ held \in [Children -> Seq(Nat)] BY DEF Shapes
<1>6. QED BY <1>1, <1>2, <1>3, <1>4, <1>5, MessageTyped, SizeAssumption

\* A step of a call that leaves the objects, the children and their ends alone,
\* preserves what relates these.
LEMMA OthersKept ==
  ASSUME IInv, UNCHANGED <<object, children, ends, stale, forgotten>>, pc # "dead"
  PROVE  (ObjectsMatch /\ ChildMatches /\ OwnsItsChild /\ EndMeansGone)'
BY DEF IInv, children, ObjectsMatch, ChildMatches, OwnsItsChild, EndMeansGone

\* And the types, when only the thread and the pipes to and from the children move.
LEMMA TypesKept ==
  ASSUME IInv, UNCHANGED <<children, ends, held, stale, forgotten>>, object' \in [Objects -> Fields],
         pc' \in {"idle", "write", "read", "returns"}, call' \in Registers,
         buf' \in Seq(Nat), stream' \in Seq(Nat), Len(stream') <= Len(Message),
         parts' \in 0..Len(Message), written' \subseteq Children,
         inp' \in [Children -> Seq(Nat)], out' \in [Children -> Seq(Nat)],
         \A c \in Children : Len(inp'[c]) <= PipeSize /\ Len(out'[c]) <= PipeSize
  PROVE  TypeOK' /\ Shapes'
<1> USE DEF IInv
<1>1. UNCHANGED <<child, term, copies>> BY DEF children
<1>2. \A c \in Children : /\ \A end \in DOMAIN NoEnds : ends'[c][end] \subseteq {"program"} \cup Children
                          /\ copies'[c] \subseteq Children /\ Len(held'[c]) <= PipeSize
  BY <1>1 DEF TypeOK
<1>3. \A c \in Children : Len(inp'[c]) <= PipeSize /\ Len(out'[c]) <= PipeSize OBVIOUS
<1>4. /\ child' \in [Children -> States] /\ term' \subseteq Children /\ stale' \subseteq Objects
  BY <1>1, Types
<1>5. TypeOK' BY <1>2, <1>3, <1>4 DEF TypeOK, Fields, States, Registers
<1>6. Shapes' BY <1>1 DEF Shapes
<1>7. QED BY <1>5, <1>6

\* A call is over: its registers are clear.
LEMMA EndStep ==
  ASSUME IInv, End, UNCHANGED <<object, children, ends, pipes, history>>, pc # "dead"
  PROVE  IInv'
<1> USE DEF IInv
<1>1. UNCHANGED <<inp, out, held, written, stale, forgotten>> BY DEF pipes, history
<1>2. pc' = "idle" /\ call' = NoCall /\ buf' = << >> /\ stream' = << >> /\ parts' = 0 BY DEF End
<1>3. << >> \in Seq(Nat) /\ Len(<< >>) = 0 BY EmptySeq
<1>4. Len(stream') <= Len(Message) /\ parts' \in 0..Len(Message) BY <1>2, <1>3, MessageTyped
<1>5. /\ inp' \in [Children -> Seq(Nat)] /\ out' \in [Children -> Seq(Nat)]
      /\ \A c \in Children : Len(inp'[c]) <= PipeSize /\ Len(out'[c]) <= PipeSize
      /\ written' \subseteq Children
  BY <1>1 DEF Shapes, TypeOK
<1>6. object' \in [Objects -> Fields] /\ call' \in Registers BY <1>2, Types, NoCallTyped
<1>7. TypeOK' /\ Shapes' BY <1>1, <1>2, <1>3, <1>4, <1>5, <1>6, TypesKept
<1>8. (ObjectsMatch /\ ChildMatches /\ OwnsItsChild /\ EndMeansGone)' BY <1>1, OthersKept
<1>9. (ThreadMatches /\ WholeIsExact)'
  BY <1>2 DEF ThreadMatches, WaitMatches, WriteMatches, ReadMatches, RestMatches, WholeIsExact
<1>10. QED BY <1>7, <1>8, <1>9

\* A call returns or throws.
LEMMA EndingSteps ==
  ASSUME IInv, Return \/ WriteFails \/ ReadRefused \/ ReadFails PROVE IInv'
BY EndStep DEF Return, WriteFails, ReadRefused, ReadFails

\* write and write_exact begin.
LEMMA BeginWriteStep ==
  ASSUME IInv, NEW o \in Objects, NEW exact \in BOOLEAN, BeginWrite(o, exact) PROVE IInv'
<1> USE DEF IInv
<1>1. /\ UNCHANGED <<buf, stream, parts, inp, out, held, stale, forgotten>>
      /\ UNCHANGED <<object, children, ends>>
  BY DEF BeginWrite, pipes
<1>2. /\ pc = "idle" /\ object[o].to # None /\ pc' = "write"
      /\ call' = [kind |-> "write", of |-> o, exact |-> exact, left |-> Len(Message),
                  put |-> 0, next |-> None]
      /\ written' = written \cup {object[o].to}
  BY DEF BeginWrite, Begin
<1>3. object[o].to \in Children /\ written \subseteq Children BY <1>2, Types DEF Fields, TypeOK
<1>4. call' \in Registers BY <1>2, MessageTyped DEF Registers
<1>5. stream = << >> /\ parts = 0 BY <1>2 DEF ThreadMatches, RestMatches
<1>6. /\ inp' \in [Children -> Seq(Nat)] /\ out' \in [Children -> Seq(Nat)]
      /\ \A c \in Children : Len(inp'[c]) <= PipeSize /\ Len(out'[c]) <= PipeSize
      /\ written' \subseteq Children
  BY <1>1, <1>2, <1>3 DEF Shapes, TypeOK
<1>7. /\ buf' \in Seq(Nat) /\ stream' \in Seq(Nat) /\ Len(stream') <= Len(Message)
      /\ parts' \in 0..Len(Message)
  BY <1>1, Counters
<1>8. TypeOK' /\ Shapes' BY <1>1, <1>2, <1>4, <1>6, <1>7, Types, TypesKept
<1>9. (ObjectsMatch /\ ChildMatches /\ OwnsItsChild /\ EndMeansGone)' BY <1>1, <1>2, OthersKept
<1>10. Len(<< >>) = 0 /\ SubSeq(Message, 1, 0) = << >>
  <2>1. 0 \in 0..Len(Message) /\ Message \in Seq(Nat) BY MessageTyped
  <2>2. SubSeq(Message, 1, 0) \in Seq(Nat) /\ Len(SubSeq(Message, 1, 0)) = 0 BY <2>1, Prefix
  <2>3. QED BY <2>2, EmptySeq
<1>11. WriteMatches' BY <1>1, <1>2, <1>5, <1>10, MessageTyped DEF WriteMatches
<1>12. (ThreadMatches /\ WholeIsExact)'
  BY <1>2, <1>11 DEF ThreadMatches, WaitMatches, ReadMatches, RestMatches, WholeIsExact
<1>13. QED BY <1>8, <1>9, <1>12

\* The kernel takes the next bytes; the pipe holds them.
LEMMA TransferStep ==
  ASSUME IInv, Transfer PROVE IInv'
<1> USE DEF IInv
<1> DEFINE c == object[call.of].to
           k == Min({PipeSize - Len(inp[c]), call.left - call.put})
<1>1. /\ UNCHANGED <<pc, buf, parts, out, held, written, stale, forgotten>>
      /\ UNCHANGED <<object, children, ends>>
  BY DEF Transfer, history
<1>2. /\ pc = "write" /\ k > 0
      /\ inp' = [inp EXCEPT ![c] = inp[c] \o NextBytes(k)]
      /\ stream' = stream \o NextBytes(k) /\ call' = [call EXCEPT !.put = call.put + k]
  BY DEF Transfer
<1>3. /\ call.kind = "write" /\ call.of \in Objects /\ c # None /\ call.put <= call.left
      /\ Len(stream) = Len(Message) - call.left + call.put
      /\ parts <= Len(Message) - call.left
      /\ parts = 0 => call.left = Len(Message) /\ stream = SubSeq(Message, 1, call.put)
  BY <1>2 DEF ThreadMatches, WriteMatches
<1>4. c \in Children BY <1>3, Types DEF Fields
<1> HIDE DEF c
<1>5. inp[c] \in Seq(Nat) /\ Len(inp[c]) \in Nat
  <2>1. inp[c] \in Seq(Nat) BY <1>4, Counters
  <2>2. QED BY <2>1, LenProperties
<1>6. k \in Nat /\ k <= PipeSize - Len(inp[c]) /\ k <= call.left - call.put
  <2>1. PipeSize - Len(inp[c]) \in Int /\ call.left - call.put \in Int BY <1>5, Counters
  <2>2. /\ k \in {PipeSize - Len(inp[c]), call.left - call.put}
        /\ k <= PipeSize - Len(inp[c]) /\ k <= call.left - call.put
    BY <2>1, MinOfTwo
  <2>3. k > 0 BY <1>2
  <2> HIDE DEF k
  <2>4. QED BY <2>1, <2>2, <2>3
<1> HIDE DEF k
<1>7. call.put + k <= call.left /\ call.put + k <= Len(Message) BY <1>6, Counters
<1>8. /\ NextBytes(k) \in Seq(Nat) /\ Len(NextBytes(k)) = k
      /\ SubSeq(Message, 1, call.put) \o NextBytes(k) = SubSeq(Message, 1, call.put + k)
  BY <1>6, <1>7, Counters, NextBytesTyped DEF NextBytes
<1>9. /\ stream \o NextBytes(k) \in Seq(Nat) /\ inp[c] \o NextBytes(k) \in Seq(Nat)
      /\ Len(stream \o NextBytes(k)) = Len(stream) + k
      /\ Len(inp[c] \o NextBytes(k)) = Len(inp[c]) + k
  <2>1. stream \in Seq(Nat) BY Counters
  <2>2. stream \o NextBytes(k) \in Seq(Nat) /\ Len(stream \o NextBytes(k)) = Len(stream) + k
    BY <1>8, <2>1, ConcatProperties
  <2>3. inp[c] \o NextBytes(k) \in Seq(Nat) /\ Len(inp[c] \o NextBytes(k)) = Len(inp[c]) + k
    <3> DEFINE a == inp[c]
               b == NextBytes(k)
    <3>1. a \in Seq(Nat) /\ b \in Seq(Nat) /\ Len(b) = k BY <1>5, <1>8
    <3> HIDE DEF a, b
    <3>2. a \o b \in Seq(Nat) /\ Len(a \o b) = Len(a) + k BY <3>1, ConcatProperties
    <3>3. QED BY <3>2 DEF a, b
  <2>4. QED BY <2>2, <2>3
<1>10. /\ call' \in Registers /\ call'.put = call.put + k /\ call'.left = call.left
       /\ call'.kind = call.kind /\ call'.of = call.of
  <2>1. call.put + k \in 0..Len(Message) BY <1>6, <1>7, Counters
  <2>2. QED BY <1>2, <2>1, Types DEF Registers
<1>11. /\ inp' \in [Children -> Seq(Nat)] /\ out' \in [Children -> Seq(Nat)]
       /\ \A d \in Children : Len(inp'[d]) <= PipeSize /\ Len(out'[d]) <= PipeSize
       /\ written' \subseteq Children
  <2>1. Len(inp[c]) + k <= PipeSize BY <1>5, <1>6, Counters
  <2>2. inp' \in [Children -> Seq(Nat)] BY <1>2, <1>9, Counters
  <2>3. \A d \in Children : Len(inp'[d]) <= PipeSize BY <1>2, <1>9, <2>1, Counters DEF TypeOK
  <2>4. QED BY <1>1, <2>2, <2>3 DEF Shapes, TypeOK
<1>12. Len(stream') = Len(stream) + k /\ stream' \in Seq(Nat) BY <1>2, <1>9
<1>13. Len(stream') <= Len(Message)
  <2>1. /\ Len(Message) \in Nat /\ call.left \in Nat /\ call.put \in Nat /\ call.left <= Len(Message)
    BY Counters
  <2>2. Len(stream') = Len(Message) - call.left + call.put + k BY <1>3, <1>12
  <2>3. QED BY <1>6, <1>7, <2>1, <2>2
<1>14. buf' \in Seq(Nat) /\ parts' \in 0..Len(Message) BY <1>1, Counters
<1>15. TypeOK' /\ Shapes'
  BY <1>1, <1>2, <1>10, <1>11, <1>12, <1>13, <1>14, Types, TypesKept
<1>16. (ObjectsMatch /\ ChildMatches /\ OwnsItsChild /\ EndMeansGone)' BY <1>1, <1>2, OthersKept
<1>17. WriteMatches'
  <2>1. Len(stream') = Len(Message) - call.left + (call.put + k) BY <1>3, <1>6, <1>12, Counters, SMTT(30)
  <2>2. parts = 0 => stream' = SubSeq(Message, 1, call.put + k) BY <1>2, <1>3, <1>8
  <2>3. object'[call.of].to # None BY <1>1, <1>3 DEF c
  <2>4. QED BY <1>1, <1>3, <1>7, <1>10, <2>1, <2>2, <2>3 DEF WriteMatches
<1>18. (ThreadMatches /\ WholeIsExact)'
  BY <1>1, <1>2, <1>17 DEF ThreadMatches, WaitMatches, ReadMatches, RestMatches, WholeIsExact
<1>19. QED BY <1>15, <1>16, <1>18

\* write(2) returns: an exact write goes on until nothing is left.
LEMMA WriteReturnsStep ==
  ASSUME IInv, WriteReturns PROVE IInv'
<1> USE DEF IInv
<1>1. /\ UNCHANGED <<buf, stream, inp, out, held, written, stale, forgotten>>
      /\ UNCHANGED <<object, children, ends>>
  BY DEF WriteReturns, pipes, history
<1>2. /\ pc = "write" /\ call.put > 0 /\ parts' = parts + 1
      /\ call' = [call EXCEPT !.left = call.left - call.put, !.put = 0]
      /\ pc' = IF call.exact /\ call.left - call.put > 0 THEN pc ELSE "returns"
  BY DEF WriteReturns, Left
<1>3. /\ call.kind = "write" /\ call.of \in Objects /\ object[call.of].to # None
      /\ call.put <= call.left
      /\ Len(stream) = Len(Message) - call.left + call.put
      /\ parts <= Len(Message) - call.left
      /\ parts = 0 => call.left = Len(Message) /\ stream = SubSeq(Message, 1, call.put)
  BY <1>2 DEF ThreadMatches, WriteMatches
<1>4. /\ Len(Message) \in Nat /\ call.left \in Nat /\ call.put \in Nat /\ parts \in Nat
      /\ call.left <= Len(Message)
  BY Counters
<1>5. call.left - call.put \in 0..Len(Message) BY <1>3, <1>4
<1>6. /\ call' \in Registers /\ call'.kind = call.kind /\ call'.of = call.of
      /\ call'.exact = call.exact /\ call'.left = call.left - call.put /\ call'.put = 0
  <2>1. 0 \in 0..Len(Message) BY <1>4
  <2>2. QED BY <1>2, <1>5, <2>1, Types DEF Registers
<1>7. parts' \in Nat /\ parts' # 0 /\ parts' <= Len(Message) - (call.left - call.put)
  BY <1>2, <1>3, <1>4
<1>8. parts' \in 0..Len(Message) BY <1>4, <1>5, <1>7
<1>9. /\ inp' \in [Children -> Seq(Nat)] /\ out' \in [Children -> Seq(Nat)]
      /\ \A c \in Children : Len(inp'[c]) <= PipeSize /\ Len(out'[c]) <= PipeSize
      /\ written' \subseteq Children /\ stream' \in Seq(Nat) /\ Len(stream') <= Len(Message)
      /\ buf' \in Seq(Nat)
  BY <1>1 DEF Shapes, TypeOK
<1>10. TypeOK' /\ Shapes'
  BY <1>1, <1>2, <1>6, <1>8, <1>9, Types, TypesKept
<1>11. (ObjectsMatch /\ ChildMatches /\ OwnsItsChild /\ EndMeansGone)' BY <1>1, <1>2, OthersKept
<1>12. Len(stream') = Len(Message) - (call.left - call.put) BY <1>1, <1>3, <1>4
<1>13. ThreadMatches'
  <2>1. WriteMatches'
    BY <1>1, <1>3, <1>4, <1>5, <1>6, <1>7, <1>12 DEF WriteMatches
  <2>2. QED BY <1>2, <2>1 DEF ThreadMatches, WaitMatches, ReadMatches, RestMatches
<1>14. WholeIsExact'
  <2> SUFFICES ASSUME pc' = "returns", call'.exact
               PROVE  Len(stream') = Len(Message) /\ (parts' = 1 => stream' = Message)
    BY <1>3, <1>6 DEF WholeIsExact
  <2>1. call.left - call.put = 0
    <3>1. ~(call.left - call.put > 0) BY <1>2, <1>6
    <3>2. QED BY <1>5, <3>1, <1>4
  <2>2. Len(stream') = Len(Message) BY <1>4, <1>12, <2>1
  <2>3. ASSUME parts' = 1 PROVE stream' = Message
    <3>1. parts = 0 BY <1>2, <1>4, <2>3
    <3>2. call.put = Len(Message) BY <1>3, <1>4, <2>1, <3>1
    <3>3. stream' = SubSeq(Message, 1, Len(Message)) BY <1>1, <1>3, <3>1, <3>2
    <3>4. QED BY <3>3, MessageTyped, SubSeqFull
  <2>4. QED BY <2>2, <2>3
<1>15. QED BY <1>10, <1>11, <1>13, <1>14

\* read and read_exact begin.
LEMMA BeginReadStep ==
  ASSUME IInv, NEW o \in Objects, NEW exact \in BOOLEAN, NEW len \in 1..Len(Message),
         BeginRead(o, exact, len)
  PROVE  IInv'
<1> USE DEF IInv
<1>1. /\ UNCHANGED <<stream, parts, inp, out, held, written, stale, forgotten>>
      /\ UNCHANGED <<object, children, ends>>
  BY DEF BeginRead, pipes, history
<1>2. /\ pc = "idle" /\ object[o].from # None /\ pc' = "read"
      /\ call' = [kind |-> "read", of |-> o, exact |-> exact, left |-> len,
                  put |-> 0, next |-> None]
      /\ buf' = [i \in 1..len |-> 0]
  BY DEF BeginRead, Begin, Unset
<1>3. len \in 0..Len(Message) /\ len \in Nat /\ 0 \in 0..Len(Message) /\ len <= Len(Message)
  BY MessageTyped
<1>4. call' \in Registers BY <1>2, <1>3 DEF Registers
<1>5. stream = << >> /\ parts = 0 BY <1>2 DEF ThreadMatches, RestMatches
<1>6. buf' \in Seq(Nat) /\ Len(buf') = len
  <2>1. buf' \in [1..len -> Nat] BY <1>2
  <2>2. buf' \in Seq(Nat) BY <1>3, <2>1, SeqDef
  <2>3. QED BY <1>3, <2>1, <2>2, LenProperties
<1>7. /\ inp' \in [Children -> Seq(Nat)] /\ out' \in [Children -> Seq(Nat)]
      /\ \A c \in Children : Len(inp'[c]) <= PipeSize /\ Len(out'[c]) <= PipeSize
      /\ written' \subseteq Children
  BY <1>1 DEF Shapes, TypeOK
<1>8. stream' \in Seq(Nat) /\ Len(stream') <= Len(Message) /\ parts' \in 0..Len(Message)
  BY <1>1, Counters
<1>9. TypeOK' /\ Shapes' BY <1>1, <1>2, <1>4, <1>6, <1>7, <1>8, Types, TypesKept
<1>10. (ObjectsMatch /\ ChildMatches /\ OwnsItsChild /\ EndMeansGone)' BY <1>1, <1>2, OthersKept
<1>11. Len(<< >>) = 0 BY EmptySeq
<1>12. ReadMatches' BY <1>1, <1>2, <1>3, <1>5, <1>6, <1>11 DEF ReadMatches
<1>13. (ThreadMatches /\ WholeIsExact)'
  BY <1>2, <1>12 DEF ThreadMatches, WaitMatches, WriteMatches, RestMatches, WholeIsExact
<1>14. QED BY <1>9, <1>10, <1>13

\* read(2) returns: each time what it gives goes to the beginning of the buffer, so
\* that a read in several parts has the right length only.
LEMMA ReadReturnsStep ==
  ASSUME IInv, ReadReturns PROVE IInv'
<1> USE DEF IInv
<1> DEFINE c == object[call.of].from
           k == Min({Len(out[c]), call.left})
<1>1. /\ UNCHANGED <<inp, held, written, stale, forgotten>>
      /\ UNCHANGED <<object, children, ends>>
  BY DEF ReadReturns, history
<1>2. /\ pc = "read" /\ k > 0 /\ parts' = parts + 1
      /\ buf' = [i \in DOMAIN buf |-> IF i <= k THEN out[c][i] ELSE buf[i]]
      /\ stream' = stream \o SubSeq(out[c], 1, k)
      /\ out' = [out EXCEPT ![c] = SubSeq(out[c], k + 1, Len(out[c]))]
      /\ call' = [call EXCEPT !.left = call.left - k]
      /\ pc' = IF ~call.exact \/ k = call.left THEN "returns" ELSE pc
  BY DEF ReadReturns, Left, Enough
<1>3. /\ call.kind = "read" /\ call.of \in Objects /\ c # None
      /\ Len(buf) = Len(stream) + call.left /\ Len(buf) <= Len(Message)
      /\ parts <= Len(stream)
      /\ parts = 0 => stream = << >>
  BY <1>2 DEF ThreadMatches, ReadMatches
<1>4. c \in Children BY <1>3, Types DEF Fields
<1>5. /\ Len(Message) \in Nat /\ call.left \in Nat /\ parts \in Nat /\ Len(buf) \in Nat
      /\ Len(stream) \in Nat /\ buf \in Seq(Nat) /\ stream \in Seq(Nat)
  BY Counters
<1> HIDE DEF c
<1>6. out[c] \in Seq(Nat) /\ Len(out[c]) \in Nat /\ Len(out[c]) <= PipeSize
  <2>1. out[c] \in Seq(Nat) /\ Len(out[c]) <= PipeSize BY <1>4, Types
  <2>2. QED BY <2>1, LenProperties
<1>7. k \in Nat /\ k > 0 /\ k <= Len(out[c]) /\ k <= call.left
  <2>1. k \in {Len(out[c]), call.left} /\ k <= Len(out[c]) /\ k <= call.left
    <3>1. Len(out[c]) \in Int /\ call.left \in Int BY <1>5, <1>6
    <3>2. QED BY <3>1, MinOfTwo
  <2>2. k > 0 BY <1>2
  <2> HIDE DEF k
  <2>3. QED BY <1>5, <1>6, <2>1, <2>2
<1> HIDE DEF k
<1> DEFINE given == SubSeq(out[c], 1, k)
           rest == SubSeq(out[c], k + 1, Len(out[c]))
<1>8. /\ given \in Seq(Nat) /\ Len(given) = k /\ \A i \in 1..k : given[i] = out[c][i]
      /\ rest \in Seq(Nat) /\ Len(rest) = Len(out[c]) - k
  <2>1. k \in 0..Len(out[c]) BY <1>6, <1>7
  <2>2. QED BY <1>6, <2>1, Prefix, Suffix
<1>9. stream' = stream \o given /\ out' = [out EXCEPT ![c] = rest] BY <1>2
<1> HIDE DEF given, rest
<1>10. stream' \in Seq(Nat) /\ Len(stream') = Len(stream) + k
  <2>1. stream \o given \in Seq(Nat) /\ Len(stream \o given) = Len(stream) + Len(given)
    BY <1>5, <1>8, ConcatProperties
  <2>2. QED BY <1>8, <1>9, <2>1
<1>11. buf' \in Seq(Nat) /\ Len(buf') = Len(buf) /\ \A i \in 1..k : buf'[i] = out[c][i]
  <2>1. DOMAIN buf = 1..Len(buf) /\ \A i \in 1..Len(buf) : buf[i] \in Nat
    BY <1>5, LenProperties, ElementOfSeq
  <2>2. \A i \in 1..k : out[c][i] \in Nat /\ i \in 1..Len(buf)
    <3>1. \A i \in 1..Len(out[c]) : out[c][i] \in Nat BY <1>6, ElementOfSeq
    <3>2. k <= Len(buf)
      <4>1. Len(buf) = Len(stream) + call.left BY <1>3
      <4>2. QED BY <1>5, <1>7, <4>1
    <3>3. QED BY <1>5, <1>6, <1>7, <3>1, <3>2
  <2>3. buf' \in [1..Len(buf) -> Nat] /\ \A i \in 1..k : buf'[i] = out[c][i]
    <3>1. ASSUME NEW i \in 1..Len(buf)
          PROVE  (IF i <= k THEN out[c][i] ELSE buf[i]) \in Nat
      BY <1>5, <1>7, <2>1, <2>2
    <3>2. QED BY <1>2, <1>5, <1>7, <2>1, <2>2, <3>1
  <2>4. buf' \in Seq(Nat) BY <1>5, <2>3, SeqDef
  <2>5. QED BY <1>5, <2>3, <2>4, LenProperties
<1>12. /\ call' \in Registers /\ call'.kind = call.kind /\ call'.of = call.of
       /\ call'.exact = call.exact /\ call'.left = call.left - k
  <2>1. call.left - k \in 0..Len(Message) BY <1>5, <1>7, Counters
  <2>2. QED BY <1>2, <2>1, Types DEF Registers
<1>13. /\ Len(buf') = Len(stream') + (call.left - k) /\ parts' \in Nat
       /\ parts' <= Len(stream') /\ Len(stream') <= Len(buf') /\ parts' # 0
  <2>1. Len(buf) = Len(stream) + call.left /\ parts <= Len(stream) /\ parts' = parts + 1
    BY <1>2, <1>3
  <2>2. Len(buf') = Len(buf) /\ Len(stream') = Len(stream) + k BY <1>10, <1>11
  <2>3. QED BY <1>5, <1>7, <2>1, <2>2, SMTT(30)
<1>14. Len(stream') <= Len(Message) /\ parts' \in 0..Len(Message)
  <2>1. Len(buf) <= Len(Message) /\ Len(buf') = Len(buf) BY <1>3, <1>11
  <2>2. Len(stream') = Len(stream) + k BY <1>10
  <2>3. QED BY <1>5, <1>7, <1>13, <2>1, <2>2
<1>15. /\ inp' \in [Children -> Seq(Nat)] /\ out' \in [Children -> Seq(Nat)]
       /\ \A d \in Children : Len(inp'[d]) <= PipeSize /\ Len(out'[d]) <= PipeSize
       /\ written' \subseteq Children
  <2>1. Len(rest) <= PipeSize BY <1>6, <1>7, <1>8, Counters
  <2>2. out' \in [Children -> Seq(Nat)] BY <1>8, <1>9, Types
  <2>3. \A d \in Children : Len(out'[d]) <= PipeSize BY <1>9, <2>1, Types
  <2>4. QED BY <1>1, <2>2, <2>3 DEF Shapes, TypeOK
<1>16. TypeOK' /\ Shapes'
  BY <1>1, <1>2, <1>10, <1>11, <1>12, <1>14, <1>15, Types, TypesKept
<1>17. (ObjectsMatch /\ ChildMatches /\ OwnsItsChild /\ EndMeansGone)' BY <1>1, <1>2, OthersKept
<1>18. ThreadMatches'
  <2>1. object'[call.of].from # None BY <1>1, <1>3 DEF c
  <2>2. ReadMatches' BY <1>3, <1>11, <1>12, <1>13, <2>1 DEF ReadMatches
  <2>3. QED BY <1>2, <2>2 DEF ThreadMatches, WaitMatches, WriteMatches, RestMatches
<1>19. WholeIsExact'
  <2> SUFFICES ASSUME pc' = "returns", call'.exact
               PROVE  Len(stream') = Len(buf') /\ (parts' = 1 => stream' = buf')
    BY <1>3, <1>12 DEF WholeIsExact
  <2>1. k = call.left BY <1>2, <1>12
  <2>2. Len(stream') = Len(buf') BY <1>3, <1>5, <1>10, <1>11, <2>1
  <2>3. ASSUME parts' = 1 PROVE stream' = buf'
    <3>1. parts = 0 BY <1>2, <1>5, <2>3
    <3>2. stream = << >> BY <1>3, <3>1
    <3>3. stream' = given BY <1>8, <1>9, <3>2, ConcatEmptySeq
    <3>4. Len(buf') = k BY <1>8, <2>2, <3>3
    <3>5. \A i \in 1..Len(stream') : stream'[i] = buf'[i] BY <1>8, <1>11, <3>3
    <3>6. QED BY <1>10, <1>11, <2>2, <3>5, SeqEqual
  <2>4. QED BY <2>2, <2>3
<1>20. QED BY <1>16, <1>17, <1>18, <1>19

\* The end of the file is seen only when no process has the end that the child
\* writes to: its program has ended, or never began.
LEMMA ReadEndStep ==
  ASSUME IInv, ReadEnd PROVE IInv'
<1> USE DEF IInv
<1> DEFINE x == call.of
<1>1. UNCHANGED <<inp, out, held, written, stale, forgotten, ends>> /\ UNCHANGED children
  BY DEF ReadEnd, pipes, history
<1>2. /\ pc = "read" /\ ends[object[x].from].fromW = {}
      /\ object' = [object EXCEPT ![x].readable = FALSE]
      /\ IF call.exact THEN UNCHANGED thread ELSE End
  BY DEF ReadEnd, AtEnd
<1>3. x \in Objects /\ object[x].from # None /\ object[x].from = object[x].pid
  BY <1>2 DEF ThreadMatches, ReadMatches, ObjectsMatch
<1>4. object \in [Objects -> Fields] /\ object[x].pid \in Children BY <1>3, Types DEF Fields
<1> HIDE DEF x
<1>5. child[object[x].pid] \in {"stray", "zombie"}
  <2>1. child[object[x].pid] \notin {"unborn", "reaped"} BY <1>3 DEF OwnsItsChild
  <2>2. child[object[x].pid] \notin {"forked", "runs"} BY <1>2, <1>3, <1>4 DEF ChildMatches
  <2>3. QED BY <1>4, <2>1, <2>2, Types DEF States
<1>6. /\ object' \in [Objects -> Fields]
      /\ \A y \in Objects : /\ object'[y].pid = object[y].pid /\ object'[y].from = object[y].from
                            /\ object'[y].scope = object[y].scope /\ object'[y].to = object[y].to
                            /\ y # x => object'[y].readable = object[y].readable
  BY <1>2, <1>3, <1>4 DEF Fields
<1>7. /\ pc' \in {"idle", "read"} /\ call' \in Registers
      /\ buf' \in Seq(Nat) /\ stream' \in Seq(Nat) /\ Len(stream') <= Len(Message)
      /\ parts' \in 0..Len(Message)
  <2>1. CASE call.exact BY <1>2, <2>1, Types, Counters DEF thread
  <2>2. CASE ~call.exact
    <3>1. << >> \in Seq(Nat) /\ Len(<< >>) = 0 BY EmptySeq
    <3>2. QED BY <1>2, <2>2, <3>1, NoCallTyped, MessageTyped DEF End
  <2>3. QED BY <2>1, <2>2
<1>8. /\ inp' \in [Children -> Seq(Nat)] /\ out' \in [Children -> Seq(Nat)]
      /\ \A d \in Children : Len(inp'[d]) <= PipeSize /\ Len(out'[d]) <= PipeSize
      /\ written' \subseteq Children
  BY <1>1 DEF Shapes, TypeOK
<1>9. TypeOK' /\ Shapes' BY <1>1, <1>6, <1>7, <1>8, TypesKept
<1>10. UNCHANGED child BY <1>1 DEF children
<1>11. ObjectsMatch' /\ ChildMatches' BY <1>1, <1>6, <1>10 DEF ObjectsMatch, ChildMatches
<1>12. OwnsItsChild' BY <1>1, <1>2, <1>6, <1>10 DEF OwnsItsChild
<1>13. EndMeansGone' BY <1>1, <1>2, <1>3, <1>5, <1>6, <1>10 DEF EndMeansGone
<1>14. ThreadMatches' /\ WholeIsExact'
  <2>1. CASE call.exact
    <3>1. UNCHANGED <<pc, call, buf, stream, parts>> BY <1>2, <2>1 DEF thread
    <3>2. \A y \in Objects : object'[y].from = object[y].from BY <1>6
    <3>3. ReadMatches' BY <3>1, <3>2 DEF ThreadMatches, ReadMatches
    <3>4. QED BY <1>2, <3>1, <3>3 DEF ThreadMatches, WaitMatches, WriteMatches, RestMatches, WholeIsExact
  <2>2. CASE ~call.exact
    BY <1>2, <2>2 DEF End, ThreadMatches, WaitMatches, WriteMatches, ReadMatches, RestMatches, WholeIsExact
  <2>3. QED BY <2>1, <2>2
<1>15. QED BY <1>9, <1>11, <1>12, <1>13, <1>14

(***************************************************************************)
(* The invariant is inductive                                              *)
(***************************************************************************)
LEMMA NextIInv == IInv /\ [Next]_vars => IInv'
<1> SUFFICES ASSUME IInv, [Next]_vars PROVE IInv' OBVIOUS
<1>1. CASE GoOn
  BY <1>1, ReapStep, EndingSteps, TransferStep, WriteReturnsStep, BrokenPipeStep,
     ReadReturnsStep, ReadEndStep DEF GoOn
<1>2. CASE Interrupted BY <1>2, ReapStep, EndingSteps DEF Interrupted
<1>3. CASE Calls
  <2>1. PICK o \in Objects :
          \/ \E c \in Children : Create(o, c)
          \/ \E q \in Objects : MoveConstruct(o, q) \/ Swap(o, q) \/ MoveAssign(o, q)
          \/ Destroy(o) \/ CloseStdin(o)
          \/ \E exact \in BOOLEAN :
               BeginWrite(o, exact) \/ \E len \in 1..Len(Message) : BeginRead(o, exact, len)
    BY <1>3 DEF Calls
  <2>2. QED
    BY <2>1, CreateStep, MoveConstructStep, SwapStep, MoveAssignStep, DestroyStep,
       CloseStdinStep,
       BeginWriteStep, BeginReadStep
<1>4. CASE \E c \in Children : Behaves(c) \/ Killed(c)
  BY <1>4, PipeStep, FateStep DEF Behaves
<1>5. CASE UNCHANGED vars
  <2>1. /\ UNCHANGED <<object, pc, call, buf, stream, parts, child, term, ends, copies>>
        /\ UNCHANGED <<inp, out, held, written, stale, forgotten>>
    BY <1>5 DEF vars, thread, children, pipes, history
  <2>2. QED BY <2>1, SMTT(60) DEF IInv, TypeOK, Shapes, ObjectsMatch, ChildMatches, ThreadMatches,
      WaitMatches, WriteMatches, ReadMatches, RestMatches, OwnsItsChild, EndMeansGone, WholeIsExact
<1>6. QED BY <1>1, <1>2, <1>3, <1>4, <1>5 DEF Next

\* The inductive invariant holds in every state that is reached.
LEMMA AlwaysIInv == Spec => []IInv
BY InitIInv, NextIInv, PTL DEF Spec

(***************************************************************************)
(* Theorems                                                                *)
(***************************************************************************)
\* Every variable keeps its type; a pipe never holds more than its size, and no
\* call transfers more than the caller's buffer.
THEOREM TypeIsCorrect == Spec => []TypeOK
<1>1. IInv => TypeOK BY DEF IInv
<1>2. QED BY <1>1, AlwaysIInv, PTL

\* Through construction, moves, swaps, assignments and destructors (process.cpp:14-35,
\* 91-138), each child that is not reaped has one owner, which has no other child's
\* descriptors; a child is forgotten only where waitpid was interrupted (94).
THEOREM ChildAlwaysOwned == Spec => []OwnsItsChild
<1>1. IInv => OwnsItsChild BY DEF IInv
<1>2. QED BY <1>1, AlwaysIInv, PTL

\* is_readable() turns false (process.cpp:58-79) only for a child that will not write, as
\* nobody has an end to write to; operator= and swap leave the flag of another child.
THEOREM EndAlwaysMeansGone == Spec => []EndMeansGone
<1>1. IInv => EndMeansGone BY DEF IInv
<1>2. QED BY <1>1, AlwaysIInv, PTL

\* An exact call that succeeds has moved the number of bytes that was asked for, and
\* these bytes, if one system call sufficed (process.cpp:48-79).
THEOREM WholeAlwaysExact == Spec => []WholeIsExact
<1>1. IInv => WholeIsExact BY DEF IInv
<1>2. QED BY <1>1, AlwaysIInv, PTL
================================================================================
