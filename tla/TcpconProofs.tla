---------------------------- MODULE TcpconProofs ----------------------------
(***************************************************************************)
(* Proofs about lib/tcpcon: first TcpConnection for every number of objects*)
(* and sockets and all sizes of queues, backlogs and calls, then           *)
(* AsyncServer for every set of descriptors, connections and               *)
(* configurations and any number of calls of event_loop.                   *)
(***************************************************************************)
EXTENDS TcpConnection, AsyncServer, SequenceTheorems, FiniteSetTheorems, WellFoundedInduction,
        TLAPS

(***************************************************************************)
(* The inductive invariant                                                 *)
(***************************************************************************)
SocketStates == {"free", "new", "connecting", "up", "dead"}

SocketType ==
  [state : SocketStates, peer : Sockets \cup {None}, queue : Bytes, fin : BOOLEAN,
   error : BOOLEAN, nonblock : BOOLEAN, readTimeout : BOOLEAN, writeTimeout : BOOLEAN,
   given : Bytes, sent : 0..MaxGiven, split : BOOLEAN]

CallType ==
  {Idle, [op |-> "connect"]} \cup [op : {"write"}, bytes : Bytes, left : Nat \ {0}]
    \cup [op : {"read"}, left : Nat \ {0}]

Shapes ==
  /\ sock \in [Sockets -> SocketType] /\ call \in [Objects -> CallType]
  /\ backlog \in Seq(Sockets) /\ listening \in BOOLEAN
  /\ fd \in [Objects -> Sockets \cup {None}] /\ temp \in [Objects -> Sockets \cup {None}]
  /\ readable \in [Objects -> BOOLEAN] /\ buf \in [Objects -> Bytes]

\* The kernel: the two ends of a connection agree on it, nothing comes after its end,
\* and what is on its way to an end was sent by the other.
KernelSound(ss) ==
  \A s \in Sockets :
    /\ ss[s].state = "free" => ss[s] = FreeSock
    /\ ss[s].state \in {"new", "connecting"} =>
         ss[s].peer = None /\ ss[s].queue = NoBytes /\ ~ss[s].fin /\ ~ss[s].split
    /\ ss[s].state = "new" => ss[s].given = NoBytes
    /\ ss[s].peer # None =>
         /\ ss[s].peer # s /\ ss[s].state = "up" /\ ~ss[s].fin /\ ss[ss[s].peer].peer = s
         /\ Len(ss[ss[s].peer].queue) <= ss[s].sent
    /\ Len(ss[s].queue) <= QueueCap
    /\ ss[s].sent <= Len(ss[s].given) /\ (ss[s].peer = None => ss[s].sent = 0)

\* What is on its way is the last that was sent.
QueueFaithful(ss) ==
  \A s \in Sockets :
    (ss[s].peer # None /\ ~ss[s].split) =>
      ss[ss[s].peer].queue =
        SubSeq(ss[s].given, ss[s].sent - Len(ss[ss[s].peer].queue) + 1, ss[s].sent)

\* An end that waits for accept is as new.
BacklogFresh ==
  \A i \in DOMAIN backlog :
    LET end == sock[backlog[i]]
    IN  end.state \in {"up", "dead"} /\ end.given = NoBytes /\ ~end.split

\* OwnedOnce without counting: any number of objects may have descriptors.
Owned ==
  /\ \A o \in Objects :
       /\ fd[o] # None => sock[fd[o]].state \notin {"free", "new"}
       /\ temp[o] # None => sock[temp[o]].state = "new"
       /\ temp[o] # None <=> call[o].op = "connect"
       /\ \A q \in Objects : fd[o] = fd[q] /\ fd[o] # None => o = q
       /\ \A q \in Objects : temp[o] = temp[q] /\ temp[o] # None => o = q
       /\ \A i \in DOMAIN backlog : fd[o] # backlog[i]
  /\ \A i, j \in DOMAIN backlog : backlog[i] = backlog[j] => i = j
  /\ \A s \in Sockets : sock[s].state # "free" =>
       \/ \E o \in Objects : fd[o] = s \/ temp[o] = s
       \/ \E i \in DOMAIN backlog : backlog[i] = s

\* What an object has still to send to a peer: the buffer of an asynchronous one, the
\* rest of a write_exact.
Count(o) ==
  /\ o \notin Async => buf[o] = NoBytes
  /\ call[o].op \in {"read", "write"} => o \notin Async /\ fd[o] # None
  /\ call[o].op = "write" => call[o].left <= Len(call[o].bytes)
  /\ fd[o] # None /\ Waits(fd[o]) =>
       /\ o \in Async => sock[fd[o]].sent + Len(buf[o]) <= Len(sock[fd[o]].given)
       /\ o \notin Async /\ call[o].op # "write" => sock[fd[o]].sent = Len(sock[fd[o]].given)
       /\ call[o].op = "write" => sock[fd[o]].sent + call[o].left = Len(sock[fd[o]].given)

\* And which bytes these are.
Rest(s) == SubSeq(sock[s].given, sock[s].sent + 1, Len(sock[s].given))
RestIs(o) ==
  (fd[o] # None /\ Waits(fd[o]) /\ ~sock[fd[o]].split) =>
    /\ o \in Async => buf[o] = Rest(fd[o])
    /\ call[o].op = "write" => call[o].bytes = Rest(fd[o])

\* EofIsTrue, of one object.
EofOf(o) == (fd[o] # None /\ ~readable[o]) => AtEnd(fd[o])

IInv ==
  /\ Shapes /\ KernelSound(sock) /\ QueueFaithful(sock) /\ BacklogFresh /\ Owned
  /\ \A o \in Objects : Count(o) /\ RestIs(o) /\ EofOf(o)

(***************************************************************************)
(* Numbers and sequences                                                   *)
(***************************************************************************)
\* Every set of naturals that is not empty has a least element.
LEMMA LeastNatural == ASSUME NEW S \in SUBSET Nat, S # {} PROVE \E m \in S : \A x \in S : m <= x
<1> DEFINE R == {ss \in Nat \X Nat : ss[1] < ss[2]}
<1>1. IsWellFoundedOn(OpToRel(<, Nat), Nat) BY NatLessThanWellFounded
<1>2. OpToRel(<, Nat) = R BY DEF OpToRel
<1>3. PICK m \in S : \A x \in S : <<x, m>> \notin R
  <2>1. IsWellFoundedOn(R, Nat) BY <1>1, <1>2
  <2> HIDE DEF R
  <2>2. QED BY <2>1, WFMin
<1>4. \A x \in S : ~(x < m) BY <1>3
<1>5. m \in Nat /\ \A x \in S : x \in Nat OBVIOUS
<1>6. QED BY <1>4, <1>5

\* The descriptor that socket and accept return is a free one.
LEMMA LowestFree == Free # {} => Lowest \in Sockets /\ sock[Lowest].state = "free"
<1>1. Free \in SUBSET Nat BY SizesAssumption DEF Free
<1>2. Free # {} => Lowest \in Free BY <1>1, LeastNatural DEF Lowest, Min
<1>3. QED BY <1>2 DEF Free

\* Bytes are the sequences of numbers of bytes that are not too long.
LEMMA BytesAre ==
  \A b : b \in Bytes <=> b \in Seq(1..MaxGiven) /\ Len(b) <= MaxGiven
<1>1. MaxGiven \in Nat BY SizesAssumption
<1>2. ASSUME NEW b \in Bytes PROVE b \in Seq(1..MaxGiven) /\ Len(b) <= MaxGiven
  <2>1. PICK n \in 0..MaxGiven : b \in [1..n -> 1..MaxGiven] BY DEF Bytes
  <2>2. n \in Nat /\ n <= MaxGiven BY <1>1
  <2>3. b \in Seq(1..MaxGiven) BY <2>1, <2>2, SeqDef
  <2>4. Len(b) = n BY <2>1, <2>2, <2>3, LenProperties
  <2>5. QED BY <2>2, <2>3, <2>4
<1>3. ASSUME NEW b \in Seq(1..MaxGiven), Len(b) <= MaxGiven PROVE b \in Bytes
  <2>1. Len(b) \in 0..MaxGiven /\ b \in [1..Len(b) -> 1..MaxGiven] BY <1>1, <1>3, LenProperties
  <2>2. QED BY <2>1 DEF Bytes
<1>4. QED BY <1>2, <1>3

\* The length of bytes.
LEMMA BytesLen == \A b \in Bytes : Len(b) \in Nat /\ Len(b) <= MaxGiven
BY BytesAre, LenProperties

\* No bytes are bytes.
LEMMA NoBytesAre == NoBytes \in Bytes /\ Len(NoBytes) = 0
<1>1. MaxGiven \in Nat BY SizesAssumption
<1>2. NoBytes \in Seq(1..MaxGiven) /\ Len(NoBytes) = 0 BY EmptySeq DEF NoBytes
<1>3. Len(NoBytes) <= MaxGiven BY <1>1, <1>2
<1>4. QED BY <1>2, <1>3, BytesAre

\* What has length 0 is no bytes.
LEMMA EmptyIs == \A b \in Bytes : Len(b) = 0 <=> b = NoBytes
BY BytesAre, EmptySeq DEF NoBytes

\* A part of a sequence of bytes.
LEMMA PartIs ==
  ASSUME NEW g \in Bytes, NEW i \in Int, NEW j \in Int, 1 <= i, j <= Len(g)
  PROVE  /\ SubSeq(g, i, j) \in Bytes
         /\ Len(SubSeq(g, i, j)) = IF i <= j THEN j - i + 1 ELSE 0
         /\ \A k \in 1..(j - i + 1) : SubSeq(g, i, j)[k] = g[i + k - 1]
<1>1. g \in Seq(1..MaxGiven) /\ Len(g) <= MaxGiven /\ Len(g) \in Nat /\ MaxGiven \in Nat
  BY BytesAre, BytesLen, SizesAssumption
<1>2. \A k \in i..j : g[k] \in 1..MaxGiven BY <1>1, ElementOfSeq
<1>3. /\ SubSeq(g, i, j) \in Seq(1..MaxGiven)
      /\ Len(SubSeq(g, i, j)) = IF i <= j THEN j - i + 1 ELSE 0
      /\ \A k \in 1..(j - i + 1) : SubSeq(g, i, j)[k] = g[i + k - 1]
  BY <1>2, SubSeqProperties
<1>4. Len(SubSeq(g, i, j)) <= MaxGiven BY <1>1, <1>3
<1>5. QED BY <1>3, <1>4, BytesAre

\* A part of a part.
LEMMA PartOfPart ==
  ASSUME NEW g \in Bytes, NEW i \in Int, NEW j \in Int, 1 <= i, j <= Len(g),
         NEW m \in Int, NEW n \in Int, 1 <= m, n <= Len(SubSeq(g, i, j))
  PROVE  SubSeq(SubSeq(g, i, j), m, n) = SubSeq(g, i + m - 1, i + n - 1)
<1> DEFINE p == SubSeq(g, i, j)
           a == SubSeq(p, m, n)
           b == SubSeq(g, i + m - 1, i + n - 1)
<1>1. /\ p \in Bytes /\ Len(p) = IF i <= j THEN j - i + 1 ELSE 0
      /\ \A k \in 1..(j - i + 1) : p[k] = g[i + k - 1]
  BY PartIs
<1>2. CASE m > n
  <2>1. a = << >> /\ b = << >> BY <1>2, SubSeqEmpty
  <2>2. QED BY <2>1
<1>3. CASE m <= n
  <2>0. Len(g) \in Nat BY BytesLen
  <2>1. n <= Len(p) /\ i <= j BY <1>1, <1>3
  <2>2. i + n - 1 <= j /\ i + m - 1 >= 1 /\ i + n - 1 <= Len(g) BY <1>1, <1>3, <2>0, <2>1
  <2> HIDE DEF p
  <2>3. a \in Bytes /\ Len(a) = n - m + 1 /\ \A k \in 1..(n - m + 1) : a[k] = p[m + k - 1]
    BY <1>1, <1>3, <2>1, PartIs
  <2>4. b \in Bytes /\ Len(b) = n - m + 1 /\ \A k \in 1..(n - m + 1) : b[k] = g[i + m - 1 + k - 1]
    <3>1. i + m - 1 \in Int /\ i + n - 1 \in Int OBVIOUS
    <3>2. (i + n - 1) - (i + m - 1) + 1 = n - m + 1 /\ i + m - 1 <= i + n - 1 BY <1>3
    <3>3. QED BY <2>2, <3>1, <3>2, PartIs
  <2>5. \A k \in 1..(n - m + 1) : a[k] = b[k]
    <3>1. ASSUME NEW k \in 1..(n - m + 1) PROVE a[k] = b[k]
      <4>1. m + k - 1 \in 1..(j - i + 1) /\ i + (m + k - 1) - 1 = i + m - 1 + k - 1
        BY <1>1, <1>3, <2>0, <2>1, <2>2
      <4>2. p[m + k - 1] = g[i + (m + k - 1) - 1] BY <1>1, <4>1
      <4>3. QED BY <2>3, <2>4, <4>1, <4>2
    <3>2. QED BY <3>1
  <2> HIDE DEF a, b
  <2>6. a = b BY <2>3, <2>4, <2>5, BytesAre, SeqEqual
  <2>7. QED BY <2>6 DEF a, b, p
<1>4. QED BY <1>2, <1>3

\* What is put together.
LEMMA JoinIs ==
  ASSUME NEW a \in Bytes, NEW b \in Bytes, Len(a) + Len(b) <= MaxGiven
  PROVE  a \o b \in Bytes /\ Len(a \o b) = Len(a) + Len(b)
<1>1. a \o b \in Seq(1..MaxGiven) /\ Len(a \o b) = Len(a) + Len(b) BY BytesAre, ConcatProperties
<1>2. QED BY <1>1, BytesAre

\* What was given before is a part of what is given now, and what is left is more by
\* what was added.
LEMMA GivenMore ==
  ASSUME NEW g \in Bytes, NEW b \in Bytes, Len(g) + Len(b) <= MaxGiven,
         NEW t \in Nat, t <= Len(g)
  PROVE  /\ \A i \in Int : 1 <= i => SubSeq(g \o b, i, t) = SubSeq(g, i, t)
         /\ SubSeq(g \o b, t + 1, Len(g \o b)) = SubSeq(g, t + 1, Len(g)) \o b
<1> DEFINE w == g \o b
<1>1. w \in Bytes /\ Len(w) = Len(g) + Len(b) BY JoinIs
<1>2. Len(g) \in Nat /\ Len(b) \in Nat BY BytesLen
<1>3. \A k \in 1..(Len(g) + Len(b)) : w[k] = IF k <= Len(g) THEN g[k] ELSE b[k - Len(g)]
  BY BytesAre, ConcatProperties
<1> HIDE DEF w
<1>4. ASSUME NEW i \in Int, 1 <= i PROVE SubSeq(w, i, t) = SubSeq(g, i, t)
  <2>1. CASE i > t BY <2>1, <1>2, SubSeqEmpty
  <2>2. CASE i <= t
    <3> DEFINE x == SubSeq(w, i, t)
               y == SubSeq(g, i, t)
    <3>1. x \in Bytes /\ Len(x) = t - i + 1 /\ \A k \in 1..(t - i + 1) : x[k] = w[i + k - 1]
      <4>1. t <= Len(w) /\ t \in Int BY <1>1, <1>2
      <4>2. QED BY <1>1, <1>4, <2>2, <4>1, PartIs
    <3>2. y \in Bytes /\ Len(y) = t - i + 1 /\ \A k \in 1..(t - i + 1) : y[k] = g[i + k - 1]
      BY <1>4, <2>2, PartIs
    <3> HIDE DEF x, y
    <3>3. \A k \in 1..(t - i + 1) : x[k] = y[k]
      <4>1. \A k \in 1..(t - i + 1) : i + k - 1 \in 1..(Len(g) + Len(b)) /\ i + k - 1 <= Len(g)
        BY <1>2, <1>4, <2>2
      <4>2. QED BY <1>3, <3>1, <3>2, <4>1
    <3>4. x = y BY <3>1, <3>2, <3>3, BytesAre, SeqEqual
    <3>5. QED BY <3>4 DEF x, y
  <2>3. QED BY <1>2, <2>1, <2>2
<1>5. SubSeq(w, t + 1, Len(w)) = SubSeq(g, t + 1, Len(g)) \o b
  <2> DEFINE x == SubSeq(w, t + 1, Len(w))
             y == SubSeq(g, t + 1, Len(g))
             z == y \o b
  <2>1. /\ x \in Bytes /\ Len(x) = Len(w) - t
        /\ \A k \in 1..(Len(w) - t) : x[k] = w[t + k]
    <3>1. /\ x \in Bytes /\ Len(x) = IF t + 1 <= Len(w) THEN Len(w) - (t + 1) + 1 ELSE 0
          /\ \A k \in 1..(Len(w) - (t + 1) + 1) : x[k] = w[t + 1 + k - 1]
      <4>1. t + 1 \in Int /\ Len(w) \in Int /\ 1 <= t + 1 /\ Len(w) <= Len(w) BY <1>1, <1>2
      <4>2. QED BY <1>1, <4>1, PartIs
    <3> HIDE DEF x
    <3>2. \A k \in 1..(Len(w) - t) : t + 1 + k - 1 = t + k BY <1>1, <1>2
    <3>3. Len(w) - (t + 1) + 1 = Len(w) - t BY <1>1, <1>2
    <3>4. Len(x) = Len(w) - t BY <1>1, <1>2, <3>1
    <3>5. QED BY <3>1, <3>2, <3>3, <3>4
  <2>2. /\ y \in Bytes /\ Len(y) = Len(g) - t
        /\ \A k \in 1..(Len(g) - t) : y[k] = g[t + k]
    <3>1. /\ y \in Bytes /\ Len(y) = IF t + 1 <= Len(g) THEN Len(g) - (t + 1) + 1 ELSE 0
          /\ \A k \in 1..(Len(g) - (t + 1) + 1) : y[k] = g[t + 1 + k - 1]
      <4>1. t + 1 \in Int /\ Len(g) \in Int /\ 1 <= t + 1 /\ Len(g) <= Len(g) BY <1>2
      <4>2. QED BY <4>1, PartIs
    <3> HIDE DEF y
    <3>2. \A k \in 1..(Len(g) - t) : t + 1 + k - 1 = t + k BY <1>2
    <3>3. Len(g) - (t + 1) + 1 = Len(g) - t BY <1>2
    <3>4. Len(y) = Len(g) - t BY <1>2, <3>1
    <3>5. QED BY <3>1, <3>2, <3>3, <3>4
  <2> HIDE DEF x, y
  <2>3. /\ z \in Bytes /\ Len(z) = Len(y) + Len(b)
        /\ \A k \in 1..(Len(y) + Len(b)) : z[k] = IF k <= Len(y) THEN y[k] ELSE b[k - Len(y)]
    <3>1. Len(y) + Len(b) <= MaxGiven BY <1>2, <2>2, SizesAssumption
    <3>2. z \in Bytes /\ Len(z) = Len(y) + Len(b) BY <2>2, <3>1, JoinIs
    <3>3. y \in Seq(1..MaxGiven) /\ b \in Seq(1..MaxGiven) BY <2>2, BytesAre
    <3>4. \A k \in 1..(Len(y) + Len(b)) : z[k] = IF k <= Len(y) THEN y[k] ELSE b[k - Len(y)]
      BY <3>3, ConcatProperties
    <3>5. QED BY <3>2, <3>4
  <2> HIDE DEF z
  <2>4. ASSUME NEW k \in 1..Len(x) PROVE x[k] = z[k]
    <3>1. t + k \in 1..(Len(g) + Len(b)) /\ k \in 1..(Len(w) - t) /\ k \in 1..(Len(y) + Len(b))
      BY <1>1, <1>2, <2>1, <2>2
    <3>2. x[k] = w[t + k] BY <2>1, <3>1
    <3>3. CASE k <= Len(y)
      <4>1. t + k <= Len(g) /\ k \in 1..(Len(g) - t) BY <1>2, <2>2, <3>1, <3>3
      <4>2. w[t + k] = g[t + k] BY <1>3, <3>1, <4>1
      <4>3. QED BY <2>2, <2>3, <3>1, <3>2, <3>3, <4>1, <4>2
    <3>4. CASE ~(k <= Len(y))
      <4>1. ~(t + k <= Len(g)) /\ t + k - Len(g) = k - Len(y) BY <1>2, <2>2, <3>1, <3>4
      <4>2. w[t + k] = b[t + k - Len(g)] BY <1>3, <3>1, <4>1
      <4>3. QED BY <2>3, <3>1, <3>2, <3>4, <4>1, <4>2
    <3>5. QED BY <3>3, <3>4
  <2>5. Len(x) = Len(z) BY <1>1, <1>2, <2>1, <2>2, <2>3
  <2>6. x = z BY <2>1, <2>3, <2>4, <2>5, BytesAre, SeqEqual
  <2>7. QED BY <2>6 DEF x, y, z
<1>6. QED BY <1>4, <1>5 DEF w

\* What is on its way after more was sent, and after some was received.
LEMMA InFlight ==
  ASSUME NEW g \in Bytes, NEW q \in Bytes, NEW t \in Nat, t <= Len(g), Len(q) <= t,
         q = SubSeq(g, t - Len(q) + 1, t), NEW n \in Nat
  PROVE  /\ t + n <= Len(g) =>
              q \o SubSeq(g, t + 1, t + n) = SubSeq(g, (t + n) - (Len(q) + n) + 1, t + n)
         /\ n <= Len(q) => SubSeq(q, n + 1, Len(q)) = SubSeq(g, t - (Len(q) - n) + 1, t)
<1> DEFINE l == Len(q)
<1>1. Len(g) \in Nat /\ l \in Nat /\ g \in Seq(1..MaxGiven) BY BytesLen, BytesAre
<1>2. q = SubSeq(g, t - l + 1, t) /\ l <= t OBVIOUS
<1>3. ASSUME t + n <= Len(g)
      PROVE  q \o SubSeq(g, t + 1, t + n) = SubSeq(g, (t + n) - (l + n) + 1, t + n)
  <2> HIDE DEF l
  <2>1. /\ t - l + 1 \in 1..Len(g) + 1 /\ t \in (t - l + 1) - 1..Len(g) /\ t + n \in t..Len(g)
        /\ (t + n) - (l + n) + 1 = t - l + 1
    BY <1>1, <1>2, <1>3
  <2>2. SubSeq(g, t - l + 1, t) \o SubSeq(g, t + 1, t + n) = SubSeq(g, t - l + 1, t + n)
    BY <1>1, <2>1, ConcatAdjacentSubSeq
  <2>3. QED BY <1>2, <2>1, <2>2
<1>4. ASSUME n <= l PROVE SubSeq(q, n + 1, l) = SubSeq(g, t - (l - n) + 1, t)
  <2>1. Len(SubSeq(g, t - l + 1, t)) = l BY <1>2
  <2> HIDE DEF l
  <2>2. /\ t - l + 1 \in Int /\ t \in Int /\ 1 <= t - l + 1 /\ t <= Len(g)
        /\ n + 1 \in Int /\ l \in Int /\ 1 <= n + 1 /\ l <= Len(SubSeq(g, t - l + 1, t))
    BY <1>1, <1>2, <2>1
  <2>3. SubSeq(SubSeq(g, t - l + 1, t), n + 1, l)
          = SubSeq(g, (t - l + 1) + (n + 1) - 1, (t - l + 1) + l - 1)
    BY <2>2, PartOfPart
  <2>4. (t - l + 1) + (n + 1) - 1 = t - (l - n) + 1 /\ (t - l + 1) + l - 1 = t BY <1>1
  <2>5. QED BY <1>2, <2>3, <2>4
<1>5. QED BY <1>3, <1>4

\* The beginning and the end of what is left.
LEMMA PartsOfRest ==
  ASSUME NEW g \in Bytes, NEW b \in Bytes, NEW t \in Nat, t <= Len(g),
         b = SubSeq(g, t + 1, Len(g)), NEW n \in Nat, n <= Len(b)
  PROVE  /\ SubSeq(b, 1, n) = SubSeq(g, t + 1, t + n)
         /\ SubSeq(b, n + 1, Len(b)) = SubSeq(g, (t + n) + 1, Len(g))
         /\ Len(b) = Len(g) - t
<1> DEFINE l == Len(g)
           k == Len(b)
           p == SubSeq(g, t + 1, l)
<1>1. l \in Nat /\ k \in Nat BY BytesLen
<1>2. b = p /\ t <= l /\ n <= k /\ k = Len(p) OBVIOUS
<1> HIDE DEF k
<1>3. t + 1 \in Int /\ l \in Int /\ 1 <= t + 1 /\ l <= Len(g) BY <1>1
<1>4. Len(p) = IF t + 1 <= l THEN l - (t + 1) + 1 ELSE 0 BY <1>3, PartIs
<1>5. 1 \in Int /\ n \in Int /\ n + 1 \in Int /\ k \in Int /\ 1 <= 1 /\ 1 <= n + 1
      /\ n <= Len(p) /\ k <= Len(p)
  BY <1>1, <1>2
<1>6. SubSeq(p, 1, n) = SubSeq(g, (t + 1) + 1 - 1, (t + 1) + n - 1) BY <1>3, <1>5, PartOfPart
<1>7. SubSeq(p, n + 1, k) = SubSeq(g, (t + 1) + (n + 1) - 1, (t + 1) + k - 1)
  BY <1>3, <1>5, PartOfPart
<1> HIDE DEF l, p
<1>8. k = l - t BY <1>1, <1>2, <1>4
<1>9. /\ (t + 1) + 1 - 1 = t + 1 /\ (t + 1) + n - 1 = t + n
      /\ (t + 1) + (n + 1) - 1 = (t + n) + 1 /\ (t + 1) + k - 1 = l
  BY <1>1, <1>8
<1>10. QED BY <1>2, <1>6, <1>7, <1>8, <1>9 DEF l, k

(***************************************************************************)
(* The kernel                                                              *)
(***************************************************************************)
LEMMA FreeTyped ==
  /\ FreeSock \in SocketType /\ FreeSock.state = "free" /\ FreeSock.peer = None
  /\ FreeSock.queue = NoBytes /\ ~FreeSock.fin /\ ~FreeSock.error /\ FreeSock.given = NoBytes
  /\ FreeSock.sent = 0 /\ ~FreeSock.split
BY NoBytesAre, SizesAssumption DEF FreeSock, SocketType, SocketStates

\* An end that has lost its peer.
LEMMA ResetTyped ==
  ASSUME NEW r \in SocketType
  PROVE  /\ Alone(r) \in SocketType /\ Alone(r).state = r.state /\ Alone(r).peer = None
         /\ Alone(r).queue = r.queue /\ Alone(r).fin = r.fin /\ Alone(r).given = NoBytes
         /\ Alone(r).sent = 0 /\ ~Alone(r).split
         /\ Reset(r) \in SocketType /\ Reset(r).state = "dead" /\ Reset(r).peer = None
         /\ Reset(r).queue = r.queue /\ Reset(r).fin = r.fin /\ Reset(r).given = NoBytes
         /\ Reset(r).sent = 0 /\ ~Reset(r).split /\ Reset(r).error
<1>1. /\ Alone(r) \in SocketType /\ Alone(r).state = r.state /\ Alone(r).peer = None
      /\ Alone(r).queue = r.queue /\ Alone(r).fin = r.fin /\ Alone(r).given = NoBytes
      /\ Alone(r).sent = 0 /\ ~Alone(r).split
  BY FreeTyped DEF Alone, SocketType
<1> DEFINE a == Alone(r)
<1> HIDE DEF a
<1>2. a \in SocketType /\ Reset(r) = [a EXCEPT !.state = "dead", !.error = TRUE]
  BY <1>1 DEF a, Reset
<1>3. /\ Reset(r) \in SocketType /\ Reset(r).state = "dead" /\ Reset(r).peer = a.peer
      /\ Reset(r).queue = a.queue /\ Reset(r).fin = a.fin /\ Reset(r).given = a.given
      /\ Reset(r).sent = a.sent /\ Reset(r).split = a.split /\ Reset(r).error
  BY <1>2 DEF SocketType, SocketStates
<1>4. QED BY <1>1, <1>3 DEF a

\* A change of one end that leaves it where it is.
LEMMA ChangeOne ==
  ASSUME NEW ss \in [Sockets -> SocketType], KernelSound(ss), NEW s \in Sockets,
         NEW r \in SocketType, ss[s].state # "free",
         r.state = ss[s].state, r.peer = ss[s].peer, r.fin = ss[s].fin, r.sent = ss[s].sent,
         r.sent <= Len(r.given), Len(r.queue) <= Len(ss[s].queue),
         ss[s].state \in {"new", "connecting"} => ~r.split,
         ss[s].state = "new" => r.given = NoBytes
  PROVE  [ss EXCEPT ![s] = r] \in [Sockets -> SocketType] /\ KernelSound([ss EXCEPT ![s] = r])
<1> DEFINE tt == [ss EXCEPT ![s] = r]
<1>1. tt \in [Sockets -> SocketType] /\ tt[s] = r /\ \A e \in Sockets : e # s => tt[e] = ss[e]
  OBVIOUS
<1> HIDE DEF tt
<1>2. /\ r.queue \in Bytes /\ ss[s].queue \in Bytes /\ Len(r.queue) \in Nat
      /\ Len(ss[s].queue) \in Nat /\ QueueCap \in Nat
  BY SizesAssumption, BytesLen DEF SocketType
<1>3. \A e \in Sockets : ss[e].peer \in Sockets \cup {None} /\ ss[e].sent \in Nat BY DEF SocketType
<1>4. \A e \in Sockets : /\ tt[e].state = ss[e].state /\ tt[e].peer = ss[e].peer
                         /\ tt[e].fin = ss[e].fin /\ tt[e].sent = ss[e].sent
                         /\ Len(tt[e].queue) <= Len(ss[e].queue) /\ Len(tt[e].queue) \in Nat
                         /\ Len(ss[e].queue) \in Nat
  <2>1. \A e \in Sockets : ss[e].queue \in Bytes BY DEF SocketType
  <2>2. \A e \in Sockets : Len(ss[e].queue) \in Nat BY <2>1, BytesLen
  <2>3. QED BY <1>1, <1>2, <2>2
<1>5. ASSUME NEW e \in Sockets
      PROVE  /\ tt[e].state = "free" => tt[e] = FreeSock
             /\ tt[e].state \in {"new", "connecting"} =>
                  tt[e].peer = None /\ tt[e].queue = NoBytes /\ ~tt[e].fin /\ ~tt[e].split
             /\ tt[e].state = "new" => tt[e].given = NoBytes
             /\ tt[e].sent <= Len(tt[e].given) /\ (tt[e].peer = None => tt[e].sent = 0)
  <2>1. CASE e # s BY <1>1, <2>1 DEF KernelSound
  <2>2. CASE e = s
    <3>1. ss[s].state \in {"new", "connecting"} => r.queue = NoBytes
      BY <1>2, NoBytesAre, EmptyIs DEF KernelSound
    <3>2. QED BY <1>1, <2>2, <3>1 DEF KernelSound
  <2>3. QED BY <2>1, <2>2
<1>6. ASSUME NEW e \in Sockets
      PROVE  /\ tt[e].peer # None =>
                  /\ tt[e].peer # e /\ tt[e].state = "up" /\ ~tt[e].fin /\ tt[tt[e].peer].peer = e
                  /\ Len(tt[tt[e].peer].queue) <= tt[e].sent
             /\ Len(tt[e].queue) <= QueueCap
  <2>1. Len(tt[e].queue) <= QueueCap BY <1>2, <1>4 DEF KernelSound
  <2>2. ASSUME tt[e].peer # None
        PROVE  /\ tt[e].peer # e /\ tt[e].state = "up" /\ ~tt[e].fin /\ tt[tt[e].peer].peer = e
               /\ Len(tt[tt[e].peer].queue) <= tt[e].sent
    <3>1. PICK d \in Sockets : d = tt[e].peer BY <1>3, <1>4, <2>2
    <3>2. /\ d # e /\ ss[e].state = "up" /\ ~ss[e].fin /\ ss[d].peer = e
          /\ Len(ss[d].queue) <= ss[e].sent
      BY <1>4, <2>2, <3>1 DEF KernelSound
    <3>3. Len(tt[d].queue) <= tt[e].sent
      <4>1. /\ Len(tt[d].queue) <= Len(ss[d].queue) /\ tt[e].sent = ss[e].sent /\ ss[e].sent \in Nat
            /\ Len(tt[d].queue) \in Nat /\ Len(ss[d].queue) \in Nat
        BY <1>3, <1>4
      <4>2. QED BY <3>2, <4>1
    <3>4. QED BY <1>4, <3>1, <3>2, <3>3
  <2>3. QED BY <2>1, <2>2
<1>7. KernelSound(tt) BY <1>5, <1>6 DEF KernelSound
<1>8. QED BY <1>1, <1>7 DEF tt

\* Connections that die: D has their ends.
WholeConnections(ss, D) ==
  /\ D \in SUBSET Sockets /\ \A e \in D : ss[e].state \in {"connecting", "up"}
  /\ \A e \in Sockets : ss[e].peer # None => (e \in D <=> ss[e].peer \in D)
Died(ss, D) == [e \in Sockets |-> IF e \in D THEN Reset(ss[e]) ELSE ss[e]]

\* Ends that are reset, each with its peer.
LEMMA DieAll ==
  ASSUME NEW ss \in [Sockets -> SocketType], KernelSound(ss), QueueFaithful(ss),
         NEW D, WholeConnections(ss, D), NEW tt, tt = Died(ss, D)
  PROVE  tt \in [Sockets -> SocketType] /\ KernelSound(tt) /\ QueueFaithful(tt)
<1>0. /\ D \in SUBSET Sockets /\ \A e \in D : ss[e].state \in {"connecting", "up"}
      /\ \A e \in Sockets : ss[e].peer # None => (e \in D <=> ss[e].peer \in D)
  BY DEF WholeConnections
<1>1. /\ tt \in [Sockets -> SocketType]
      /\ \A e \in D : /\ tt[e].state = "dead" /\ tt[e].peer = None /\ tt[e].queue = ss[e].queue
                      /\ tt[e].given = NoBytes /\ tt[e].sent = 0 /\ ~tt[e].split
      /\ \A e \in Sockets \ D : tt[e] = ss[e]
  BY <1>0, ResetTyped DEF Died
<1>2. \A e \in Sockets : ss[e].peer \in Sockets \cup {None} BY DEF SocketType
<1>3. ASSUME NEW e \in Sockets, tt[e].peer # None
      PROVE  e \notin D /\ ss[e].peer \in Sockets \ D /\ tt[e] = ss[e] /\ tt[ss[e].peer] = ss[ss[e].peer]
  BY <1>0, <1>1, <1>2, <1>3
<1>4. KernelSound(tt)
  <2>1. ASSUME NEW e \in Sockets
        PROVE  /\ tt[e].state = "free" => tt[e] = FreeSock
               /\ tt[e].state \in {"new", "connecting"} =>
                    tt[e].peer = None /\ tt[e].queue = NoBytes /\ ~tt[e].fin /\ ~tt[e].split
               /\ tt[e].state = "new" => tt[e].given = NoBytes
               /\ Len(tt[e].queue) <= QueueCap
               /\ tt[e].sent <= Len(tt[e].given) /\ (tt[e].peer = None => tt[e].sent = 0)
    <3>1. CASE e \in D
      <4>1. tt[e].sent = 0 /\ Len(tt[e].given) = 0 BY <1>1, <3>1, NoBytesAre
      <4>2. Len(tt[e].queue) <= QueueCap BY <1>1, <3>1 DEF KernelSound
      <4>3. tt[e].state = "dead" BY <1>1, <3>1
      <4>4. tt[e].sent <= Len(tt[e].given) BY <4>1
      <4>5. QED BY <4>1, <4>2, <4>3, <4>4
    <3>2. CASE e \notin D BY <1>1, <3>2 DEF KernelSound
    <3>3. QED BY <3>1, <3>2
  <2>2. ASSUME NEW e \in Sockets, tt[e].peer # None
        PROVE  /\ tt[e].peer # e /\ tt[e].state = "up" /\ ~tt[e].fin /\ tt[tt[e].peer].peer = e
               /\ Len(tt[tt[e].peer].queue) <= tt[e].sent
    BY <1>3, <2>2 DEF KernelSound
  <2>3. QED BY <2>1, <2>2 DEF KernelSound
<1>5. QueueFaithful(tt) BY <1>3 DEF QueueFaithful
<1>6. QED BY <1>1, <1>4, <1>5

\* An end is closed: its peer, if it has one, is at the end of its stream or reset.
LEMMA ClosedSound ==
  ASSUME NEW ss \in [Sockets -> SocketType], KernelSound(ss), QueueFaithful(ss),
         NEW s \in Sockets, NEW tt, tt = Closed(ss, s)
  PROVE  /\ tt \in [Sockets -> SocketType] /\ KernelSound(tt) /\ QueueFaithful(tt)
         /\ tt[s] = FreeSock
         /\ \A e \in Sockets \ {s} :
              \/ tt[e] = ss[e]
              \/ /\ ss[e].peer = s /\ ss[e].state = "up" /\ ~ss[e].fin
                 /\ tt[e].state \in {"up", "dead"} /\ tt[e].peer = None
                 /\ tt[e].given = NoBytes /\ ~tt[e].split
<1> DEFINE p == ss[s].peer
           peerNow == IF ss[s].queue # NoBytes THEN Reset(ss[p]) ELSE [Alone(ss[p]) EXCEPT !.fin = TRUE]
           alone == [ss EXCEPT ![s] = FreeSock]
<1>1. s # None /\ p \in Sockets \cup {None} BY SizesAssumption DEF SocketType
<1>2. tt = IF p = None THEN alone ELSE [alone EXCEPT ![p] = peerNow] BY <1>1 DEF Closed
<1>3. p # None => p # s /\ p \in Sockets /\ ss[p].peer = s
  BY <1>1 DEF KernelSound
<1>4. p # None => ss[p].state = "up" /\ ~ss[p].fin
  <2>1. s # None BY <1>1
  <2>2. QED BY <1>3, <2>1 DEF KernelSound
<1>5. p # None => /\ peerNow \in SocketType /\ peerNow.state \in {"up", "dead"} /\ peerNow.peer = None
                  /\ peerNow.given = NoBytes /\ peerNow.sent = 0 /\ ~peerNow.split
                  /\ peerNow.queue = ss[p].queue
  <2> SUFFICES ASSUME p # None
               PROVE  /\ peerNow \in SocketType /\ peerNow.state \in {"up", "dead"} /\ peerNow.peer = None
                      /\ peerNow.given = NoBytes /\ peerNow.sent = 0 /\ ~peerNow.split
                      /\ peerNow.queue = ss[p].queue
    OBVIOUS
  <2>1. ss[p] \in SocketType BY <1>3
  <2> HIDE DEF p
  <2>2. CASE ss[s].queue # NoBytes BY <2>1, <2>2, ResetTyped
  <2>3. CASE ss[s].queue = NoBytes
    <3> DEFINE a == Alone(ss[p])
    <3>1. /\ a \in SocketType /\ a.state = "up" /\ a.peer = None /\ a.queue = ss[p].queue
          /\ a.given = NoBytes /\ a.sent = 0 /\ ~a.split
      BY <1>4, <2>1, ResetTyped
    <3> HIDE DEF a
    <3>2. peerNow = [a EXCEPT !.fin = TRUE] BY <2>3 DEF a
    <3>3. QED BY <3>1, <3>2 DEF SocketType
  <2>4. QED BY <2>2, <2>3
<1> HIDE DEF peerNow
<1>6. tt \in [Sockets -> SocketType] /\ tt[s] = FreeSock /\ (p # None => tt[p] = peerNow)
      /\ \A e \in Sockets : e # s /\ e # p => tt[e] = ss[e]
  BY <1>2, <1>3, <1>5, FreeTyped
<1> HIDE DEF p
<1>7. \A e \in Sockets : ss[e].peer \in Sockets \cup {None} BY DEF SocketType
<1>8. ASSUME NEW e \in Sockets, tt[e].peer # None
      PROVE  /\ e # s /\ e # p /\ tt[e] = ss[e]
             /\ ss[e].peer \in Sockets /\ tt[ss[e].peer] = ss[ss[e].peer]
  <2>1. e # s BY <1>6, <1>8, FreeTyped
  <2>2. e # p
    <3>1. CASE p = None BY <3>1, SizesAssumption
    <3>2. CASE p # None BY <1>5, <1>6, <1>8, <3>2
    <3>3. QED BY <3>1, <3>2
  <2>3. tt[e] = ss[e] /\ ss[e].peer \in Sockets BY <1>6, <1>7, <1>8, <2>1, <2>2
  <2>4. ss[ss[e].peer].peer = e BY <1>8, <2>3 DEF KernelSound
  <2>5. ss[e].peer # s
    BY <2>2, <2>4 DEF p
  <2>6. ss[e].peer # p
    <3>1. CASE p = None BY <2>3, <3>1, SizesAssumption
    <3>2. CASE p # None BY <1>3, <2>1, <2>4, <3>2
    <3>3. QED BY <3>1, <3>2
  <2>7. QED BY <1>6, <2>1, <2>2, <2>3, <2>5, <2>6
<1>9. KernelSound(tt)
  <2>1. ASSUME NEW e \in Sockets
        PROVE  /\ tt[e].state = "free" => tt[e] = FreeSock
               /\ tt[e].state \in {"new", "connecting"} =>
                    tt[e].peer = None /\ tt[e].queue = NoBytes /\ ~tt[e].fin /\ ~tt[e].split
               /\ tt[e].state = "new" => tt[e].given = NoBytes
               /\ Len(tt[e].queue) <= QueueCap
               /\ tt[e].sent <= Len(tt[e].given) /\ (tt[e].peer = None => tt[e].sent = 0)
    <3>0. Len(NoBytes) = 0 /\ 0 <= QueueCap BY NoBytesAre, SizesAssumption
    <3>1. CASE e = s
      <4>1. tt[e] = FreeSock BY <1>6, <3>1
      <4>2. Len(FreeSock.queue) <= QueueCap /\ FreeSock.sent <= Len(FreeSock.given)
        BY <3>0, FreeTyped
      <4>3. QED BY <4>1, <4>2, FreeTyped
    <3>2. CASE e = p /\ p # None
      <4>1. tt[e] = peerNow BY <1>6, <3>2
      <4>2. Len(peerNow.queue) <= QueueCap BY <1>3, <1>5, <3>2 DEF KernelSound
      <4>3. peerNow.sent = 0 /\ peerNow.state # "free" /\ peerNow.state \notin {"new", "connecting"}
            /\ peerNow.sent <= Len(peerNow.given)
        BY <1>5, <3>0, <3>2
      <4>4. QED BY <4>1, <4>2, <4>3
    <3>3. CASE e # s /\ e # p BY <1>6, <3>3 DEF KernelSound
    <3>4. QED BY <3>1, <3>2, <3>3, SizesAssumption
  <2>2. ASSUME NEW e \in Sockets, tt[e].peer # None
        PROVE  /\ tt[e].peer # e /\ tt[e].state = "up" /\ ~tt[e].fin /\ tt[tt[e].peer].peer = e
               /\ Len(tt[tt[e].peer].queue) <= tt[e].sent
    BY <1>8, <2>2 DEF KernelSound
  <2>3. QED BY <2>1, <2>2 DEF KernelSound
<1>10. QueueFaithful(tt) BY <1>8 DEF QueueFaithful
<1>11. ASSUME NEW e \in Sockets \ {s}
       PROVE  \/ tt[e] = ss[e]
              \/ /\ ss[e].peer = s /\ ss[e].state = "up" /\ ~ss[e].fin
                 /\ tt[e].state \in {"up", "dead"} /\ tt[e].peer = None
                 /\ tt[e].given = NoBytes /\ ~tt[e].split
  <2>1. CASE e = p /\ p # None BY <1>3, <1>4, <1>5, <1>6, <2>1
  <2>2. CASE e # p BY <1>6, <2>2
  <2>3. QED BY <2>1, <2>2, SizesAssumption
<1>12. QED BY <1>6, <1>9, <1>10, <1>11

\* A change of one end that reads from its queue, or gives more, or withdraws what was
\* not sent.
LEMMA QueueKept ==
  ASSUME NEW ss \in [Sockets -> SocketType], KernelSound(ss), QueueFaithful(ss),
         NEW s \in Sockets, NEW r \in SocketType, r.peer = ss[s].peer, r.sent = ss[s].sent,
         NEW n \in Nat, n <= Len(ss[s].queue),
         r.queue = SubSeq(ss[s].queue, n + 1, Len(ss[s].queue)),
         ~r.split => /\ ~ss[s].split
                     /\ \A i \in Int : 1 <= i =>
                          SubSeq(r.given, i, r.sent) = SubSeq(ss[s].given, i, r.sent)
  PROVE  QueueFaithful([ss EXCEPT ![s] = r])
<1> DEFINE tt == [ss EXCEPT ![s] = r]
<1>1. tt[s] = r /\ \A e \in Sockets : e # s => tt[e] = ss[e] OBVIOUS
<1> HIDE DEF tt
<1>2. \A e \in Sockets : /\ ss[e].peer \in Sockets \cup {None} /\ ss[e].sent \in Nat
                         /\ ss[e].queue \in Bytes /\ Len(ss[e].queue) \in Nat
                         /\ ss[e].given \in Bytes /\ tt[e].peer = ss[e].peer
  <2> TAKE e \in Sockets
  <2>1. ss[e] \in SocketType OBVIOUS
  <2>2. /\ ss[e].peer \in Sockets \cup {None} /\ ss[e].sent \in Nat
        /\ ss[e].queue \in Bytes /\ ss[e].given \in Bytes
    BY <2>1 DEF SocketType
  <2>3. Len(ss[e].queue) \in Nat BY <2>2, BytesLen
  <2>4. tt[e].peer = ss[e].peer BY <1>1
  <2>5. QED BY <2>2, <2>3, <2>4
<1> SUFFICES ASSUME NEW e \in Sockets, tt[e].peer # None, ~tt[e].split
             PROVE  tt[tt[e].peer].queue =
                      SubSeq(tt[e].given, tt[e].sent - Len(tt[tt[e].peer].queue) + 1, tt[e].sent)
  BY DEF QueueFaithful, tt
<1>3. PICK d \in Sockets : d = ss[e].peer /\ d = tt[e].peer BY <1>2
<1>4. d # e /\ ss[d].peer = e /\ Len(ss[d].queue) <= ss[e].sent /\ ss[e].sent <= Len(ss[e].given)
  BY <1>2, <1>3 DEF KernelSound
<1>5. ~ss[e].split BY <1>1
<1>6. ss[d].queue = SubSeq(ss[e].given, ss[e].sent - Len(ss[d].queue) + 1, ss[e].sent)
  BY <1>2, <1>3, <1>5 DEF QueueFaithful
<1>7. CASE e = s
  <2>1. tt[d].queue = ss[d].queue /\ tt[e].given = r.given /\ tt[e].sent = r.sent /\ ~r.split
    BY <1>1, <1>4, <1>7
  <2>2. 1 <= ss[e].sent - Len(ss[d].queue) + 1 /\ ss[e].sent - Len(ss[d].queue) + 1 \in Int
    BY <1>2, <1>4
  <2>3. SubSeq(r.given, ss[e].sent - Len(ss[d].queue) + 1, ss[e].sent)
          = SubSeq(ss[e].given, ss[e].sent - Len(ss[d].queue) + 1, ss[e].sent)
    BY <1>7, <2>1, <2>2
  <2>4. QED BY <1>3, <1>6, <1>7, <2>1, <2>3
<1>8. CASE d = s
  <2> DEFINE g == ss[e].given
             q == ss[s].queue
             t == ss[e].sent
  <2>1. /\ g \in Bytes /\ q \in Bytes /\ t \in Nat /\ t <= Len(g) /\ Len(q) <= t /\ n <= Len(q)
        /\ q = SubSeq(g, t - Len(q) + 1, t)
    BY <1>2, <1>4, <1>6, <1>8
  <2>2. tt[d].queue = SubSeq(q, n + 1, Len(q)) /\ tt[e].given = g /\ tt[e].sent = t
    BY <1>1, <1>4, <1>8
  <2> HIDE DEF g, q, t
  <2>3. SubSeq(q, n + 1, Len(q)) = SubSeq(g, t - (Len(q) - n) + 1, t) BY <2>1, InFlight
  <2>4. Len(SubSeq(q, n + 1, Len(q))) = Len(q) - n
    <3>1. Len(q) \in Nat BY <2>1, BytesLen
    <3>2. n + 1 \in Int /\ Len(q) \in Int /\ 1 <= n + 1 /\ Len(q) <= Len(q) BY <3>1
    <3>3. Len(SubSeq(q, n + 1, Len(q))) = IF n + 1 <= Len(q) THEN Len(q) - (n + 1) + 1 ELSE 0
      BY <2>1, <3>2, PartIs
    <3> DEFINE k == Len(q)
               x == Len(SubSeq(q, n + 1, Len(q)))
    <3>4. k \in Nat /\ n <= k /\ x = IF n + 1 <= k THEN k - (n + 1) + 1 ELSE 0
      BY <2>1, <3>1, <3>3
    <3> HIDE DEF k, x
    <3>5. x = k - n BY <3>4
    <3>6. QED BY <3>5 DEF k, x
  <2>5. QED BY <1>3, <2>2, <2>3, <2>4
<1>9. CASE e # s /\ d # s BY <1>1, <1>3, <1>6, <1>9
<1>10. QED BY <1>7, <1>8, <1>9

\* Bytes are sent to the other end, all of them or, of those of a transfer that is cut,
\* some.
SentTo(ss, p, s, b, cut) ==
  [ss EXCEPT ![p].queue = @ \o b, ![s].sent = @ + Len(b), ![s].split = @ \/ cut]
InOrder(r, b, cut) ==
  ~cut /\ ~r.split => b = SubSeq(r.given, r.sent + 1, r.sent + Len(b))
Advanced(r, b, cut) == [r EXCEPT !.sent = @ + Len(b), !.split = @ \/ cut]
Delivered(tt, ss, p, s, b, cut) ==
  /\ tt[s] = Advanced(ss[s], b, cut)
  /\ tt[p] = [ss[p] EXCEPT !.queue = @ \o b]
  /\ \A e \in Sockets : e # s /\ e # p => tt[e] = ss[e]

\* The kernel stays sound when bytes are put behind what is on its way.
LEMMA SentSound ==
  ASSUME NEW ss \in [Sockets -> SocketType], KernelSound(ss), QueueFaithful(ss),
         NEW s \in Sockets, NEW p \in Sockets, p = ss[s].peer,
         NEW b \in Bytes, NEW cut \in BOOLEAN,
         Len(ss[p].queue) + Len(b) <= QueueCap, ss[s].sent + Len(b) <= Len(ss[s].given),
         InOrder(ss[s], b, cut),
         NEW tt, tt = SentTo(ss, p, s, b, cut)
  PROVE  /\ tt \in [Sockets -> SocketType] /\ KernelSound(tt) /\ QueueFaithful(tt)
         /\ Delivered(tt, ss, p, s, b, cut)
<1>1. p # None /\ \A e \in Sockets : ss[e].peer \in Sockets \cup {None}
  BY SizesAssumption DEF SocketType
<1>2. /\ s # p /\ ss[s].state = "up" /\ ss[p].peer = s /\ ss[p].state = "up"
      /\ Len(ss[p].queue) <= ss[s].sent
  BY <1>1, SizesAssumption DEF KernelSound
<1>3. /\ ss[s].sent \in Nat /\ ss[s].given \in Bytes /\ ss[p].queue \in Bytes
      /\ Len(ss[s].given) \in Nat /\ Len(ss[s].given) <= MaxGiven /\ Len(ss[p].queue) \in Nat
      /\ Len(b) \in Nat /\ MaxGiven \in Nat
  BY BytesLen, SizesAssumption DEF SocketType
<1> DEFINE q == ss[p].queue \o b
           rs == [ss[s] EXCEPT !.sent = @ + Len(b), !.split = @ \/ cut]
           rp == [ss[p] EXCEPT !.queue = q]
<1>4. q \in Bytes /\ Len(q) = Len(ss[p].queue) + Len(b)
  <2>1. Len(ss[p].queue) + Len(b) <= MaxGiven BY <1>2, <1>3
  <2>2. QED BY <1>3, <2>1, JoinIs
<1>0. tt = [e \in Sockets |-> tt[e]] BY DEF SentTo
<1>5. /\ tt[s] = rs /\ tt[p] = rp
      /\ \A e \in Sockets : e # s /\ e # p => tt[e] = ss[e]
  BY <1>2 DEF SentTo
<1> HIDE DEF q
<1>6. /\ rs \in SocketType /\ rs.state = "up" /\ rs.peer = p /\ rs.queue = ss[s].queue
      /\ rs.fin = ss[s].fin /\ rs.given = ss[s].given /\ rs.sent = ss[s].sent + Len(b)
      /\ rs.split = (ss[s].split \/ cut)
  <2>1. ss[s].sent + Len(b) \in 0..MaxGiven BY <1>3
  <2>2. (ss[s].split \/ cut) \in BOOLEAN OBVIOUS
  <2>3. ss[s] \in SocketType OBVIOUS
  <2> DEFINE n == ss[s].sent + Len(b)
             c == (ss[s].split \/ cut)
  <2>4. rs = [ss[s] EXCEPT !.sent = n, !.split = c] OBVIOUS
  <2> HIDE DEF n, c, rs
  <2>5. n \in 0..MaxGiven /\ c \in BOOLEAN BY <2>1, <2>2 DEF n, c
  <2>6. /\ rs \in SocketType /\ rs.state = ss[s].state /\ rs.peer = ss[s].peer
        /\ rs.queue = ss[s].queue /\ rs.fin = ss[s].fin /\ rs.given = ss[s].given
        /\ rs.sent = n /\ rs.split = c
    BY <2>3, <2>4, <2>5 DEF SocketType
  <2>7. QED BY <1>2, <2>6 DEF n, c
<1>7. /\ rp \in SocketType /\ rp.state = "up" /\ rp.peer = s /\ rp.queue = q
      /\ rp.fin = ss[p].fin /\ rp.given = ss[p].given /\ rp.sent = ss[p].sent
      /\ rp.split = ss[p].split
  BY <1>2, <1>4 DEF SocketType
<1> HIDE DEF rs, rp
<1>8. tt \in [Sockets -> SocketType]
  <2>1. \A e \in Sockets : tt[e] \in SocketType BY <1>5, <1>6, <1>7
  <2>2. QED BY <1>0, <2>1
<1>9. \A e \in Sockets : /\ tt[e].state = ss[e].state /\ tt[e].peer = ss[e].peer
                         /\ tt[e].fin = ss[e].fin /\ tt[e].given = ss[e].given
                         /\ e # p => tt[e].queue = ss[e].queue
                         /\ e # s => tt[e].sent = ss[e].sent /\ tt[e].split = ss[e].split
  BY <1>2, <1>5, <1>6, <1>7
<1>10. KernelSound(tt)
  <2>1. ASSUME NEW e \in Sockets
        PROVE  /\ tt[e].state = "free" => tt[e] = FreeSock
               /\ tt[e].state \in {"new", "connecting"} =>
                    tt[e].peer = None /\ tt[e].queue = NoBytes /\ ~tt[e].fin /\ ~tt[e].split
               /\ tt[e].state = "new" => tt[e].given = NoBytes
               /\ Len(tt[e].queue) <= QueueCap
               /\ tt[e].sent <= Len(tt[e].given) /\ (tt[e].peer = None => tt[e].sent = 0)
    <3>1. CASE e = s
      <4>1. Len(ss[s].queue) <= QueueCap BY DEF KernelSound
      <4>2. QED BY <1>1, <1>5, <1>6, <3>1, <4>1
    <3>2. CASE e = p
      <4>1. ss[p].sent <= Len(ss[p].given) /\ s # None BY SizesAssumption DEF KernelSound
      <4>2. Len(rp.queue) <= QueueCap BY <1>4, <1>7
      <4>3. QED BY <1>5, <1>7, <3>2, <4>1, <4>2
    <3>3. CASE e # s /\ e # p BY <1>5, <3>3 DEF KernelSound
    <3>4. QED BY <3>1, <3>2, <3>3
  <2>2. ASSUME NEW e \in Sockets, tt[e].peer # None
        PROVE  /\ tt[e].peer # e /\ tt[e].state = "up" /\ ~tt[e].fin /\ tt[tt[e].peer].peer = e
               /\ Len(tt[tt[e].peer].queue) <= tt[e].sent
    <3>1. PICK d \in Sockets : d = ss[e].peer /\ d = tt[e].peer BY <1>1, <1>9, <2>2
    <3>0. ss[e].peer # None /\ ss[e].peer = d BY <2>2, <3>1
    <3>2. /\ d # e /\ ss[e].state = "up" /\ ~ss[e].fin /\ ss[d].peer = e
          /\ Len(ss[d].queue) <= ss[e].sent
      BY <3>0 DEF KernelSound
    <3>3. Len(tt[d].queue) <= tt[e].sent
      <4>1. CASE e = s
        <5>1. d = p BY <3>1, <4>1
        <5>2. tt[d].queue = q /\ tt[e].sent = ss[s].sent + Len(b) BY <1>5, <1>6, <1>7, <4>1, <5>1
        <5>3. QED BY <1>2, <1>3, <1>4, <5>2
      <4>2. CASE e # s
        <5>1. d # p BY <1>2, <3>2, <4>2
        <5>2. tt[d].queue = ss[d].queue /\ tt[e].sent = ss[e].sent BY <1>9, <4>2, <5>1
        <5>3. QED BY <3>2, <5>2
      <4>3. QED BY <4>1, <4>2
    <3>4. tt[e].state = ss[e].state /\ tt[e].fin = ss[e].fin /\ tt[d].peer = ss[d].peer BY <1>9
    <3>5. QED BY <3>1, <3>2, <3>3, <3>4
  <2>3. QED BY <2>1, <2>2 DEF KernelSound
<1>11. QueueFaithful(tt)
  <2> SUFFICES ASSUME NEW e \in Sockets, tt[e].peer # None, ~tt[e].split
               PROVE  tt[tt[e].peer].queue =
                        SubSeq(tt[e].given, tt[e].sent - Len(tt[tt[e].peer].queue) + 1, tt[e].sent)
    BY DEF QueueFaithful
  <2>1. PICK d \in Sockets : d = ss[e].peer /\ d = tt[e].peer BY <1>1, <1>9
  <2>0. ss[e].peer # None BY <1>9
  <2>2. d # e /\ ss[d].peer = e
    <3>1. \A x \in Sockets : ss[x].peer # None => ss[x].peer # x /\ ss[ss[x].peer].peer = x
      BY DEF KernelSound
    <3>2. QED BY <2>0, <2>1, <3>1
  <2>3. CASE e = s
    <3> DEFINE g == ss[s].given
               o == ss[p].queue
               t == ss[s].sent
               n == Len(b)
    <3>1. d = p /\ ~ss[s].split /\ ~cut BY <1>5, <1>6, <2>1, <2>3
    <3>2. o = SubSeq(g, t - Len(o) + 1, t) BY <1>1, <3>1 DEF QueueFaithful
    <3>3. b = SubSeq(g, t + 1, t + n) BY <3>1 DEF InOrder
    <3>4. /\ g \in Bytes /\ o \in Bytes /\ t \in Nat /\ n \in Nat /\ t <= Len(g) /\ Len(o) <= t
          /\ t + n <= Len(g) /\ q = o \o b /\ Len(q) = Len(o) + n
      BY <1>2, <1>3, <1>4 DEF q
    <3>5. tt[d].queue = q /\ tt[e].given = g /\ tt[e].sent = t + n
      BY <1>5, <1>6, <1>7, <2>3, <3>1
    <3> HIDE DEF g, o, t, n
    <3>6. o \o SubSeq(g, t + 1, t + n) = SubSeq(g, (t + n) - (Len(o) + n) + 1, t + n)
      <4>1. /\ g \in Bytes /\ o \in Bytes /\ t \in Nat /\ n \in Nat /\ t <= Len(g)
            /\ Len(o) <= t /\ t + n <= Len(g)
        BY <3>4
      <4>2. QED BY <3>2, <4>1, InFlight, ZenonT(60)
    <3>7. q = SubSeq(g, (t + n) - Len(q) + 1, t + n)
      BY <3>3, <3>4, <3>6
    <3>8. QED BY <2>1, <3>5, <3>7
  <2>4. CASE e # s
    <3>1. d # p BY <1>2, <2>2, <2>4
    <3>2. tt[e].sent = ss[e].sent /\ tt[e].given = ss[e].given /\ tt[d].queue = ss[d].queue
          /\ ~ss[e].split /\ ss[e].peer # None
      <4>1. tt[e].sent = ss[e].sent /\ tt[e].given = ss[e].given /\ tt[e].split = ss[e].split
        BY <1>9, <2>4
      <4>2. tt[d].queue = ss[d].queue BY <1>9, <3>1
      <4>3. QED BY <2>0, <4>1, <4>2
    <3>3. ss[d].queue = SubSeq(ss[e].given, ss[e].sent - Len(ss[d].queue) + 1, ss[e].sent)
      BY <2>1, <3>2 DEF QueueFaithful
    <3>4. QED BY <2>1, <3>2, <3>3
  <2>5. QED BY <2>3, <2>4
<1>12. QED BY <1>5, <1>8, <1>10, <1>11 DEF rs, rp, q, Delivered, Advanced

\* A connection is established: the end that connects keeps its options, the other is new.
LEMMA JoinedSound ==
  ASSUME IInv, Free # {}, NEW s \in Sockets, sock[s].state \in {"new", "connecting"},
         NEW tt, tt = Joined(sock, s)
  PROVE  /\ tt \in [Sockets -> SocketType] /\ KernelSound(tt) /\ QueueFaithful(tt)
         /\ Lowest \in Sockets /\ Lowest # s /\ sock[Lowest].state = "free"
         /\ tt[s].state = "up" /\ tt[s].peer = Lowest /\ tt[s].given = sock[s].given
         /\ tt[s].sent = sock[s].sent /\ tt[s].split = sock[s].split
         /\ tt[Lowest].state = "up" /\ tt[Lowest].peer = s /\ tt[Lowest].given = NoBytes
         /\ ~tt[Lowest].split
         /\ \A e \in Sockets : e # s /\ e # Lowest => tt[e] = sock[e]
<1>1. PICK l \in Sockets : l = Lowest /\ sock[l].state = "free" /\ l # s BY LowestFree
<1> DEFINE rs == [sock[s] EXCEPT !.state = "up", !.peer = l]
           rl == [FreeSock EXCEPT !.state = "up", !.peer = s]
<1>2. sock \in [Sockets -> SocketType] /\ KernelSound(sock) /\ QueueFaithful(sock)
  BY DEF IInv, Shapes
<1>3. /\ tt = [e \in Sockets |-> tt[e]] /\ tt[s] = rs /\ tt[l] = rl
      /\ \A e \in Sockets : e # s /\ e # l => tt[e] = sock[e]
  <2>1. tt = [sock EXCEPT ![s].state = "up", ![s].peer = l, ![l] = rl] BY <1>1 DEF Joined
  <2>2. QED BY <1>1, <1>2, <2>1
<1>4. /\ rs \in SocketType /\ rs.state = "up" /\ rs.peer = l /\ rs.queue = NoBytes /\ ~rs.fin
      /\ rs.given = sock[s].given /\ rs.sent = 0 /\ rs.split = sock[s].split
  <2>1. sock[s] \in SocketType /\ sock[s].queue = NoBytes /\ ~sock[s].fin /\ sock[s].sent = 0
    BY <1>2 DEF KernelSound
  <2>2. QED BY <2>1 DEF SocketType, SocketStates
<1>5. /\ rl \in SocketType /\ rl.state = "up" /\ rl.peer = s /\ rl.queue = NoBytes /\ ~rl.fin
      /\ rl.given = NoBytes /\ rl.sent = 0 /\ ~rl.split
  BY FreeTyped DEF SocketType, SocketStates
<1> HIDE DEF rs, rl
<1>6. tt \in [Sockets -> SocketType]
  <2>1. \A e \in Sockets : tt[e] \in SocketType BY <1>2, <1>3, <1>4, <1>5
  <2>2. QED BY <1>3, <2>1
<1>7. \A e \in Sockets : sock[e].peer \in Sockets \cup {None} BY <1>2 DEF SocketType
<1>8. sock[s].peer = None /\ sock[l].peer = None
  BY <1>1, <1>2, FreeTyped DEF KernelSound
<1>9. ASSUME NEW e \in Sockets, sock[e].peer # None
      PROVE  /\ e # s /\ e # l /\ sock[e].peer # s /\ sock[e].peer # l /\ tt[e] = sock[e]
             /\ sock[e].peer \in Sockets /\ tt[sock[e].peer] = sock[sock[e].peer]
  <2>1. e # s /\ e # l BY <1>8, <1>9
  <2>2. sock[e].peer \in Sockets BY <1>7, <1>9
  <2>3. sock[sock[e].peer].peer = e BY <1>2, <1>9 DEF KernelSound
  <2>4. e # None BY SizesAssumption
  <2>5. sock[e].peer # s /\ sock[e].peer # l BY <1>8, <2>3, <2>4
  <2>6. QED BY <1>3, <2>1, <2>2, <2>5
<1>10. Len(NoBytes) = 0 /\ 0 <= QueueCap /\ NoBytes # None => TRUE BY NoBytesAre, SizesAssumption
<1>11. KernelSound(tt)
  <2>1. ASSUME NEW e \in Sockets
        PROVE  /\ tt[e].state = "free" => tt[e] = FreeSock
               /\ tt[e].state \in {"new", "connecting"} =>
                    tt[e].peer = None /\ tt[e].queue = NoBytes /\ ~tt[e].fin /\ ~tt[e].split
               /\ tt[e].state = "new" => tt[e].given = NoBytes
               /\ Len(tt[e].queue) <= QueueCap
               /\ tt[e].sent <= Len(tt[e].given) /\ (tt[e].peer = None => tt[e].sent = 0)
    <3>0. Len(NoBytes) = 0 /\ 0 <= QueueCap BY NoBytesAre, SizesAssumption
    <3>1. CASE e = s
      <4>1. Len(sock[s].given) \in Nat
        <5>1. sock[s].given \in Bytes BY <1>2 DEF SocketType
        <5>2. QED BY <5>1, BytesLen
      <4>2. QED BY <1>3, <1>4, <3>0, <3>1, <4>1
    <3>2. CASE e = l BY <1>3, <1>5, <3>0, <3>2
    <3>3. CASE e # s /\ e # l BY <1>2, <1>3, <3>3 DEF KernelSound
    <3>4. QED BY <3>1, <3>2, <3>3
  <2>2. ASSUME NEW e \in Sockets, tt[e].peer # None
        PROVE  /\ tt[e].peer # e /\ tt[e].state = "up" /\ ~tt[e].fin /\ tt[tt[e].peer].peer = e
               /\ Len(tt[tt[e].peer].queue) <= tt[e].sent
    <3>0. Len(NoBytes) = 0 BY NoBytesAre
    <3>1. CASE e = s
      <4>1. tt[e].peer = l /\ tt[l].peer = s /\ tt[e].state = "up" /\ ~tt[e].fin
            /\ tt[l].queue = NoBytes /\ tt[e].sent = 0
        BY <1>3, <1>4, <1>5, <3>1
      <4>2. QED BY <1>1, <3>0, <3>1, <4>1
    <3>2. CASE e = l
      <4>1. tt[e].peer = s /\ tt[s].peer = l /\ tt[e].state = "up" /\ ~tt[e].fin
            /\ tt[s].queue = NoBytes /\ tt[e].sent = 0
        BY <1>3, <1>4, <1>5, <3>2
      <4>2. QED BY <1>1, <3>0, <3>2, <4>1
    <3>3. CASE e # s /\ e # l
      <4>1. tt[e] = sock[e] BY <1>3, <3>3
      <4>2. sock[e].peer # None BY <2>2, <4>1
      <4>3. tt[sock[e].peer] = sock[sock[e].peer] BY <1>9, <4>2
      <4>4. QED BY <1>2, <4>1, <4>2, <4>3 DEF KernelSound
    <3>4. QED BY <3>1, <3>2, <3>3
  <2>3. QED BY <2>1, <2>2 DEF KernelSound
<1>12. QueueFaithful(tt)
  <2> SUFFICES ASSUME NEW e \in Sockets, tt[e].peer # None, ~tt[e].split
               PROVE  tt[tt[e].peer].queue =
                        SubSeq(tt[e].given, tt[e].sent - Len(tt[tt[e].peer].queue) + 1, tt[e].sent)
    BY DEF QueueFaithful
  <2>0. Len(NoBytes) = 0 /\ NoBytes = << >> BY NoBytesAre DEF NoBytes
  <2>1. CASE e \in {s, l}
    <3>1. tt[tt[e].peer].queue = NoBytes /\ tt[e].sent = 0 BY <1>3, <1>4, <1>5, <2>1
    <3>2. SubSeq(tt[e].given, 1, 0) = << >> BY SubSeqEmpty
    <3>3. tt[e].sent - Len(tt[tt[e].peer].queue) + 1 = 1 BY <2>0, <3>1
    <3>4. QED BY <2>0, <3>1, <3>2, <3>3
  <2>2. CASE e \notin {s, l}
    <3>1. tt[e] = sock[e] BY <1>3, <2>2
    <3>2. sock[e].peer # None BY <3>1
    <3>3. tt[sock[e].peer] = sock[sock[e].peer] BY <1>9, <3>2
    <3>4. QED BY <1>2, <3>1, <3>2, <3>3 DEF QueueFaithful
  <2>3. QED BY <2>1, <2>2
<1>13. sock[s].sent = 0 BY <1>2, <1>8 DEF KernelSound
<1>14. QED BY <1>1, <1>3, <1>4, <1>5, <1>6, <1>11, <1>12, <1>13

(***************************************************************************)
(* What a step leaves of the ends that are not its own                     *)
(***************************************************************************)
\* An end of which q was the record has lost its peer, or it has a peer still, or now.
Other(r, q) ==
  \/ r = q
  \/ /\ q.state \in {"connecting", "up"} /\ r.state \in {"up", "dead"}
     /\ q.fin => r.fin /\ r.queue = q.queue
     /\ \/ r.peer = None /\ r.given = NoBytes /\ ~r.split
        \/ /\ q.state = "connecting" \/ q.peer # None
           /\ r.given = q.given /\ r.sent = q.sent /\ r.split = q.split

\* The calls of an object whose end is only touched by others.
LEMMA ObjectKept ==
  ASSUME IInv, NEW q \in Objects, fd'[q] = fd[q], buf'[q] = buf[q], call'[q] = call[q],
         readable'[q] = readable[q], fd[q] # None => Other(sock'[fd[q]], sock[fd[q]])
  PROVE  Count(q)' /\ RestIs(q)' /\ EofOf(q)'
<1>1. Count(q) /\ RestIs(q) /\ (fd[q] # None /\ ~readable[q] => AtEnd(fd[q])) /\ KernelSound(sock)
  BY DEF IInv, EofOf
<1>2. CASE fd[q] = None
  BY <1>1, <1>2 DEF Count, RestIs, EofOf
<1>3. CASE fd[q] # None
  <2>1. PICK s \in Sockets : s = fd[q] /\ s = fd'[q] BY <1>3 DEF IInv, Shapes
  <2>2. Other(sock'[s], sock[s]) BY <2>1, <1>3
  <2>3. Waits(s)' => /\ Waits(s) /\ sock'[s].given = sock[s].given /\ sock'[s].sent = sock[s].sent
                     /\ sock'[s].split = sock[s].split
    BY <2>2 DEF Other, Waits
  <2>4. Count(q)'
    <3>1. /\ q \notin Async => buf'[q] = NoBytes
          /\ call'[q].op \in {"read", "write"} => q \notin Async /\ fd'[q] # None
          /\ call'[q].op = "write" => call'[q].left <= Len(call'[q].bytes)
      BY <1>1 DEF Count
    <3>2. ASSUME Waits(s)'
          PROVE  /\ q \in Async => sock'[s].sent + Len(buf'[q]) <= Len(sock'[s].given)
                 /\ q \notin Async /\ call'[q].op # "write" => sock'[s].sent = Len(sock'[s].given)
                 /\ call'[q].op = "write" => sock'[s].sent + call'[q].left = Len(sock'[s].given)
      BY <1>1, <1>3, <2>1, <2>3, <3>2 DEF Count
    <3>3. QED BY <2>1, <3>1, <3>2 DEF Count
  <2>5. RestIs(q)'
    <3>1. ASSUME Waits(s)', ~sock'[s].split
          PROVE  /\ q \in Async => buf'[q] = Rest(s)'
                 /\ call'[q].op = "write" => call'[q].bytes = Rest(s)'
      <4>1. Rest(s)' = Rest(s) BY <2>3, <3>1 DEF Rest
      <4>2. QED BY <1>1, <1>3, <2>1, <2>3, <3>1, <4>1 DEF RestIs
    <3>2. QED BY <2>1, <3>1 DEF RestIs
  <2>6. AtEnd(s) => AtEnd(s)'
    <3>1. sock[s].state \in {"connecting", "up"} /\ AtEnd(s) => sock[s].fin BY DEF AtEnd
    <3>2. QED BY <2>2, <3>1 DEF Other, AtEnd, CanReceive
  <2>7. EofOf(q)'
    <3>1. ~readable[q] => AtEnd(s)' BY <1>1, <1>3, <2>1, <2>6
    <3>2. QED BY <2>1, <3>1 DEF EofOf, AtEnd, CanReceive
  <2>8. QED BY <2>4, <2>5, <2>7
<1>4. QED BY <1>2, <1>3

\* Who owns which descriptor, if none is opened, moved or closed.
LEMMA OwnedKept ==
  ASSUME IInv, fd' = fd, temp' = temp, backlog' = backlog,
         \A o \in Objects : call'[o].op = "connect" <=> call[o].op = "connect",
         \A e \in Sockets : /\ sock'[e].state = "free" <=> sock[e].state = "free"
                            /\ sock'[e].state = "new" <=> sock[e].state = "new"
  PROVE  Owned'
<1>1. fd \in [Objects -> Sockets \cup {None}] /\ temp \in [Objects -> Sockets \cup {None}]
      /\ Owned
  BY DEF IInv, Shapes
<1>2. ASSUME NEW o \in Objects
      PROVE  /\ fd'[o] # None => sock'[fd'[o]].state \notin {"free", "new"}
             /\ temp'[o] # None => sock'[temp'[o]].state = "new"
             /\ temp'[o] # None <=> call'[o].op = "connect"
  <2>1. fd[o] \in Sockets \cup {None} /\ temp[o] \in Sockets \cup {None} BY <1>1
  <2>2. QED BY <1>1, <2>1 DEF Owned
<1>3. /\ \A o \in Objects :
           /\ \A q \in Objects : fd'[o] = fd'[q] /\ fd'[o] # None => o = q
           /\ \A q \in Objects : temp'[o] = temp'[q] /\ temp'[o] # None => o = q
           /\ \A i \in DOMAIN backlog' : fd'[o] # backlog'[i]
      /\ \A i, j \in DOMAIN backlog' : backlog'[i] = backlog'[j] => i = j
  BY <1>1 DEF Owned
<1>4. \A s \in Sockets : sock'[s].state # "free" =>
       \/ \E o \in Objects : fd'[o] = s \/ temp'[o] = s
       \/ \E i \in DOMAIN backlog' : backlog'[i] = s
  BY <1>1 DEF Owned
<1>5. QED BY <1>2, <1>3, <1>4 DEF Owned

\* An end that only others touch is not freed, and does not become new.
LEMMA OtherStates ==
  \A r, q : Other(r, q) => /\ r.state = "free" <=> q.state = "free"
                           /\ r.state = "new" <=> q.state = "new"
BY DEF Other

\* The ends in the backlog, if they are only touched by others.
LEMMA BacklogKept ==
  ASSUME IInv, backlog' = backlog, \A i \in DOMAIN backlog : Other(sock'[backlog[i]], sock[backlog[i]])
  PROVE  BacklogFresh'
<1>1. BacklogFresh BY DEF IInv
<1>2. ASSUME NEW i \in DOMAIN backlog
      PROVE  /\ sock'[backlog'[i]].state \in {"up", "dead"} /\ sock'[backlog'[i]].given = NoBytes
             /\ ~sock'[backlog'[i]].split
  <2>1. PICK s : s = backlog[i] /\ s = backlog'[i] OBVIOUS
  <2>2. sock[s].state \in {"up", "dead"} /\ sock[s].given = NoBytes /\ ~sock[s].split
    BY <1>1, <2>1 DEF BacklogFresh
  <2>3. Other(sock'[s], sock[s]) BY <2>1
  <2>4. QED BY <2>1, <2>2, <2>3 DEF Other
<1>3. QED BY <1>2 DEF BacklogFresh

(***************************************************************************)
(* Calls that touch one end only                                           *)
(***************************************************************************)
\* What is left to send is as before.
LEMMA StreamKept ==
  ASSUME IInv, NEW o \in Objects, NEW s \in Sockets, s = fd[o], fd' = fd,
         sock'[s].state = sock[s].state, sock'[s].peer = sock[s].peer,
         sock'[s].sent = sock[s].sent, sock'[s].given = sock[s].given,
         sock'[s].split = sock[s].split, buf'[o] = buf[o],
         call[o].op = "write" => call'[o] = call[o],
         call'[o].op = "write" => call'[o] = call[o],
         call'[o].op = "read" => o \notin Async
  PROVE  Count(o)' /\ RestIs(o)'
<1>1. Count(o) /\ RestIs(o) /\ s # None /\ fd'[o] = s BY SizesAssumption DEF IInv
<1>2. Waits(s)' = Waits(s) /\ Rest(s)' = Rest(s) BY DEF Waits, Rest
<1>3. Count(o)' BY <1>1, <1>2 DEF Count
<1>4. RestIs(o)' BY <1>1, <1>2 DEF RestIs
<1>5. QED BY <1>3, <1>4

\* What a queue is after something, or nothing, was received.
LeftOf(a, b) == \E n \in Nat : n <= Len(b) /\ a = SubSeq(b, n + 1, Len(b))

\* A step of the call of one object that touches its end only.
LEMMA CallStep ==
  ASSUME IInv, NEW o \in Objects, NEW s \in Sockets, s = fd[o], NEW r \in SocketType,
         sock' = [sock EXCEPT ![s] = r], r.state = sock[s].state, r.peer = sock[s].peer,
         r.fin = sock[s].fin, r.error => sock[s].error,
         r.sent = sock[s].sent, r.sent <= Len(r.given),
         LeftOf(r.queue, sock[s].queue),
         ~r.split => /\ ~sock[s].split
                     /\ \A i \in Int : 1 <= i =>
                          SubSeq(r.given, i, r.sent) = SubSeq(sock[s].given, i, r.sent),
         sock[s].state = "connecting" => ~r.split,
         UNCHANGED <<serverVars, fd, temp, readable>>,
         buf' \in [Objects -> Bytes], call' \in [Objects -> CallType],
         \A q \in Objects : q # o => buf'[q] = buf[q] /\ call'[q] = call[q],
         call[o].op # "connect", call'[o].op # "connect", Count(o)' /\ RestIs(o)'
  PROVE  IInv'
<1>1. Shapes /\ KernelSound(sock) /\ QueueFaithful(sock) /\ Owned /\ EofOf(o) /\ s # None
  BY SizesAssumption DEF IInv
<1>2. sock[s].state \notin {"free", "new"} BY <1>1 DEF Owned
<1>3. sock[s].queue \in Bytes /\ Len(sock[s].queue) \in Nat /\ sock \in [Sockets -> SocketType]
  BY <1>1, BytesLen DEF Shapes, SocketType
<1>0. PICK n \in Nat : /\ n <= Len(sock[s].queue)
                       /\ r.queue = SubSeq(sock[s].queue, n + 1, Len(sock[s].queue))
  BY DEF LeftOf
<1>4. r.queue \in Bytes /\ Len(r.queue) = Len(sock[s].queue) - n
  <2> DEFINE k == Len(sock[s].queue)
             q == sock[s].queue
             x == Len(SubSeq(q, n + 1, k))
  <2>1. n + 1 \in Int /\ k \in Int /\ 1 <= n + 1 /\ k <= Len(q) /\ q \in Bytes BY <1>3
  <2>2. x = IF n + 1 <= k THEN k - (n + 1) + 1 ELSE 0 BY <2>1, PartIs
  <2>3. k \in Nat /\ n <= k BY <1>0, <1>3
  <2>4. Len(r.queue) = x /\ r.queue \in Bytes BY <1>0 DEF SocketType
  <2> HIDE DEF k, x, q
  <2>5. x = k - n BY <2>2, <2>3
  <2>6. QED BY <2>4, <2>5 DEF k
<1>5. Len(r.queue) <= Len(sock[s].queue) BY <1>3, <1>4
<1>6. sock' \in [Sockets -> SocketType] /\ KernelSound(sock')
  <2>1. sock[s].state \in {"new", "connecting"} => ~r.split BY <1>2
  <2>2. QED BY <1>1, <1>2, <1>3, <1>5, <2>1, ChangeOne
<1>7. QueueFaithful(sock') BY <1>0, <1>1, <1>3, QueueKept
<1>8. sock'[s] = r /\ \A e \in Sockets : e # s => sock'[e] = sock[e] BY <1>3
<1>9. BacklogFresh'
  <2>1. \A i \in DOMAIN backlog : backlog[i] # s BY <1>1 DEF Owned
  <2>2. \A i \in DOMAIN backlog : backlog[i] \in Sockets
    BY <1>1, ElementOfSeq, LenProperties DEF Shapes
  <2>3. \A i \in DOMAIN backlog : Other(sock'[backlog[i]], sock[backlog[i]])
    BY <1>8, <2>1, <2>2 DEF Other
  <2>4. QED BY <2>3, BacklogKept DEF serverVars
<1>10. Owned'
  <2>1. \A q \in Objects : call'[q].op = "connect" <=> call[q].op = "connect" OBVIOUS
  <2>2. \A e \in Sockets : /\ sock'[e].state = "free" <=> sock[e].state = "free"
                           /\ sock'[e].state = "new" <=> sock[e].state = "new"
    BY <1>8
  <2>3. QED BY <2>1, <2>2, OwnedKept DEF serverVars
<1>11. ASSUME NEW q \in Objects PROVE Count(q)' /\ RestIs(q)' /\ EofOf(q)'
  <2>1. CASE q = o
    <3>1. AtEnd(s) => AtEnd(s)'
      <4>1. r.queue # NoBytes => sock[s].queue # NoBytes
        <5>1. Len(sock[s].queue) = 0 => Len(r.queue) = 0 BY <1>3, <1>4
        <5>2. QED BY <1>3, <1>4, <5>1, EmptyIs
      <4>2. QED BY <1>8, <4>1 DEF AtEnd, CanReceive
    <3>2. EofOf(o)' BY <1>1, <3>1 DEF EofOf, AtEnd, CanReceive
    <3>3. QED BY <2>1, <3>2
  <2>2. CASE q # o
    <3>1. fd[q] # None => Other(sock'[fd[q]], sock[fd[q]])
      <4>1. fd[q] # None => fd[q] \in Sockets /\ fd[q] # s BY <1>1, <2>2 DEF Owned, Shapes
      <4>2. QED BY <1>8, <4>1 DEF Other
    <3>2. QED BY <2>2, <3>1, ObjectKept
  <2>3. QED BY <2>1, <2>2
<1>12. Shapes' BY <1>1, <1>6 DEF Shapes, serverVars
<1>13. QED BY <1>6, <1>7, <1>9, <1>10, <1>11, <1>12 DEF IInv

\* The end that an object has.
LEMMA EndOf ==
  ASSUME IInv, NEW o \in Objects, fd[o] # None
  PROVE  /\ fd[o] \in Sockets /\ sock[fd[o]] \in SocketType
         /\ sock[fd[o]].state \notin {"free", "new"}
         /\ sock[fd[o]].queue \in Bytes /\ Len(sock[fd[o]].queue) \in Nat
         /\ LeftOf(sock[fd[o]].queue, sock[fd[o]].queue)
         /\ sock[fd[o]].given \in Bytes /\ Len(sock[fd[o]].given) \in Nat
         /\ sock[fd[o]].sent \in Nat /\ sock[fd[o]].sent <= Len(sock[fd[o]].given)
         /\ (sock[fd[o]].state = "connecting" => ~sock[fd[o]].split)
         /\ buf[o] \in Bytes /\ call[o] \in CallType /\ Len(buf[o]) \in Nat
         /\ call \in [Objects -> CallType] /\ buf \in [Objects -> Bytes]
         /\ sock \in [Sockets -> SocketType]
<1>1. Shapes /\ KernelSound(sock) /\ Owned BY DEF IInv
<1>2. /\ fd[o] \in Sockets /\ sock[fd[o]] \in SocketType
      /\ sock[fd[o]].state \notin {"free", "new"} /\ buf[o] \in Bytes /\ call[o] \in CallType
      /\ call \in [Objects -> CallType] /\ buf \in [Objects -> Bytes]
      /\ sock \in [Sockets -> SocketType]
  BY <1>1 DEF Shapes, Owned
<1>3. /\ sock[fd[o]].queue \in Bytes /\ sock[fd[o]].given \in Bytes
      /\ sock[fd[o]].sent \in Nat /\ sock[fd[o]].sent <= Len(sock[fd[o]].given)
      /\ (sock[fd[o]].state = "connecting" => ~sock[fd[o]].split)
  BY <1>1, <1>2 DEF SocketType, KernelSound
<1>4. Len(sock[fd[o]].queue) \in Nat /\ Len(sock[fd[o]].given) \in Nat /\ Len(buf[o]) \in Nat
  BY <1>2, <1>3, BytesLen
<1>5. SubSeq(sock[fd[o]].queue, 1, Len(sock[fd[o]].queue)) = sock[fd[o]].queue
  BY <1>3, BytesAre, SubSeqFull
<1>6. LeftOf(sock[fd[o]].queue, sock[fd[o]].queue)
  <2>1. 0 + 1 = 1 /\ 0 \in Nat /\ 0 <= Len(sock[fd[o]].queue) BY <1>4
  <2>2. QED BY <1>5, <2>1 DEF LeftOf
<1>7. QED BY <1>2, <1>3, <1>4, <1>5, <1>6

\* A step that reads, sets an option or takes the error of the end.
LEMMA LightStep ==
  ASSUME IInv, NEW o \in Objects, fd[o] # None, NEW r \in SocketType,
         sock' = [sock EXCEPT ![fd[o]] = r],
         r.state = sock[fd[o]].state, r.peer = sock[fd[o]].peer, r.fin = sock[fd[o]].fin,
         r.sent = sock[fd[o]].sent, r.given = sock[fd[o]].given, r.split = sock[fd[o]].split,
         r.error => sock[fd[o]].error, LeftOf(r.queue, sock[fd[o]].queue),
         UNCHANGED <<serverVars, fd, temp, readable, buf>>,
         call' \in [Objects -> CallType], \A q \in Objects : q # o => call'[q] = call[q],
         call[o].op # "connect", call'[o].op # "connect",
         call[o].op = "write" => call'[o] = call[o],
         call'[o].op = "write" => call'[o] = call[o],
         call'[o].op = "read" => o \notin Async
  PROVE  IInv'
<1>1. PICK s \in Sockets : s = fd[o] BY EndOf
<1>2. /\ sock \in [Sockets -> SocketType] /\ buf \in [Objects -> Bytes]
      /\ sock[s].sent <= Len(sock[s].given) /\ (sock[s].state = "connecting" => ~sock[s].split)
  BY <1>1, EndOf
<1>3. sock'[s] = r BY <1>1, <1>2
<1>4. Count(o)' /\ RestIs(o)' BY <1>1, <1>3, StreamKept
<1>5. UNCHANGED <<serverVars, fd, temp, readable>> /\ buf' = buf OBVIOUS
<1>6. buf' \in [Objects -> Bytes] /\ \A q \in Objects : q # o => buf'[q] = buf[q] /\ call'[q] = call[q]
  BY <1>2, <1>5
<1>7. QED BY <1>1, <1>2, <1>4, <1>5, <1>6, CallStep

\* The options of a socket.
LEMMA OptionStep ==
  ASSUME IInv, NEW o \in Objects, SetReadTimeout(o) \/ SetWriteTimeout(o)
                                    \/ \E opt \in BOOLEAN : SetNonblock(o, opt)
  PROVE  IInv'
<1>0. IsIdle(o) /\ fd[o] # None /\ UNCHANGED <<serverVars, fd, temp, readable, buf>> /\ call' = call
  BY DEF SetReadTimeout, SetWriteTimeout, SetNonblock, objectVars
<1>1. PICK s \in Sockets : s = fd[o] BY <1>0, EndOf
<1>2. /\ sock[s] \in SocketType /\ Len(sock[s].queue) \in Nat
      /\ LeftOf(sock[s].queue, sock[s].queue)
      /\ call' \in [Objects -> CallType] /\ sock \in [Sockets -> SocketType]
  BY <1>0, <1>1, EndOf
<1>3. call[o].op = "none" BY <1>0 DEF IsIdle, Idle
<1>4. \E r \in SocketType :
        /\ sock' = [sock EXCEPT ![s] = r]
        /\ r.state = sock[s].state /\ r.peer = sock[s].peer /\ r.fin = sock[s].fin
        /\ r.sent = sock[s].sent /\ r.given = sock[s].given /\ r.split = sock[s].split
        /\ r.error = sock[s].error /\ r.queue = sock[s].queue
  <2>1. CASE SetReadTimeout(o)
    <3>1. [sock[s] EXCEPT !.readTimeout = TRUE] \in SocketType BY <1>2 DEF SocketType
    <3>2. QED BY <1>1, <1>2, <2>1, <3>1 DEF SetReadTimeout, SocketType
  <2>2. CASE SetWriteTimeout(o)
    <3>1. [sock[s] EXCEPT !.writeTimeout = TRUE] \in SocketType BY <1>2 DEF SocketType
    <3>2. QED BY <1>1, <1>2, <2>2, <3>1 DEF SetWriteTimeout, SocketType
  <2>3. ASSUME NEW opt \in BOOLEAN, SetNonblock(o, opt)
        PROVE  \E r \in SocketType :
          /\ sock' = [sock EXCEPT ![s] = r]
          /\ r.state = sock[s].state /\ r.peer = sock[s].peer /\ r.fin = sock[s].fin
          /\ r.sent = sock[s].sent /\ r.given = sock[s].given /\ r.split = sock[s].split
          /\ r.error = sock[s].error /\ r.queue = sock[s].queue
    <3> DEFINE r == [sock[s] EXCEPT !.nonblock = @ \/ opt]
    <3>1. /\ r \in SocketType
          /\ r.state = sock[s].state /\ r.peer = sock[s].peer /\ r.fin = sock[s].fin
          /\ r.sent = sock[s].sent /\ r.given = sock[s].given /\ r.split = sock[s].split
          /\ r.error = sock[s].error /\ r.queue = sock[s].queue
      BY <1>2 DEF SocketType
    <3>2. sock' = [sock EXCEPT ![s].nonblock = @ \/ opt] BY <1>1, <2>3 DEF SetNonblock
    <3>3. sock' = [sock EXCEPT ![s] = r] BY <3>2
    <3> HIDE DEF r
    <3>4. QED BY <3>1, <3>3
  <2>4. QED BY <2>1, <2>2, <2>3
<1>5. PICK r \in SocketType :
        /\ sock' = [sock EXCEPT ![s] = r]
        /\ r.state = sock[s].state /\ r.peer = sock[s].peer /\ r.fin = sock[s].fin
        /\ r.sent = sock[s].sent /\ r.given = sock[s].given /\ r.split = sock[s].split
        /\ r.error = sock[s].error /\ r.queue = sock[s].queue
  BY <1>4
<1>6. /\ call[o].op = "none" /\ call'[o].op = "none" /\ call' \in [Objects -> CallType]
      /\ \A q \in Objects : q # o => call'[q] = call[q]
  BY <1>0, <1>2, <1>3
<1>7. QED BY <1>0, <1>1, <1>2, <1>5, <1>6, LightStep

\* The error of an end is reported once.
LEMMA ReportedIs ==
  ASSUME NEW s \in Sockets, sock \in [Sockets -> SocketType]
  PROVE  \E r \in SocketType :
           /\ Reported(s) = [sock EXCEPT ![s] = r]
           /\ r.state = sock[s].state /\ r.peer = sock[s].peer /\ r.fin = sock[s].fin
           /\ r.sent = sock[s].sent /\ r.given = sock[s].given /\ r.split = sock[s].split
           /\ ~r.error /\ r.queue = sock[s].queue
<1>1. [sock[s] EXCEPT !.error = FALSE] \in SocketType BY DEF SocketType
<1>2. QED BY <1>1 DEF Reported, SocketType

\* What was received is no longer in the queue.
LEMMA ReceivedIs ==
  ASSUME NEW s \in Sockets, sock \in [Sockets -> SocketType], NEW n \in Nat,
         n <= Len(sock[s].queue)
  PROVE  \E r \in SocketType :
           /\ Received(s, n) = [sock EXCEPT ![s] = r]
           /\ r.state = sock[s].state /\ r.peer = sock[s].peer /\ r.fin = sock[s].fin
           /\ r.sent = sock[s].sent /\ r.given = sock[s].given /\ r.split = sock[s].split
           /\ r.error = sock[s].error
           /\ r.queue = SubSeq(sock[s].queue, n + 1, Len(sock[s].queue))
<1> DEFINE q == SubSeq(sock[s].queue, n + 1, Len(sock[s].queue))
<1>1. q \in Bytes
  <2>1. sock[s].queue \in Bytes BY DEF SocketType
  <2>2. n + 1 \in Int /\ Len(sock[s].queue) \in Int /\ 1 <= n + 1
        /\ Len(sock[s].queue) <= Len(sock[s].queue)
    BY <2>1, BytesLen
  <2>3. QED BY <2>1, <2>2, PartIs
<1>2. Received(s, n) = [sock EXCEPT ![s] = [sock[s] EXCEPT !.queue = q]] BY DEF Received
<1> HIDE DEF q
<1>3. [sock[s] EXCEPT !.queue = q] \in SocketType BY <1>1 DEF SocketType
<1> DEFINE r == [sock[s] EXCEPT !.queue = q]
<1>4. /\ r.state = sock[s].state /\ r.peer = sock[s].peer /\ r.fin = sock[s].fin
      /\ r.sent = sock[s].sent /\ r.given = sock[s].given /\ r.split = sock[s].split
      /\ r.error = sock[s].error /\ r.queue = q
  BY DEF SocketType
<1> HIDE DEF r
<1>5. QED BY <1>2, <1>3, <1>4 DEF q, r

\* Calls that report an error or do nothing: send and recv fail, or EAGAIN.
LEMMA FailStep ==
  ASSUME IInv, NEW o \in Objects,
         AsyncSendFails(o) \/ (MayRead(o) /\ ReadError(o)) \/ AsyncReadFails(o)
  PROVE  IInv'
<1>0. /\ fd[o] # None /\ UNCHANGED <<serverVars, fd, temp, readable, buf>>
      /\ sock' = Reported(fd[o]) /\ call[o].op \in {"none", "read"}
      /\ call' = call \/ call' = [call EXCEPT ![o] = Idle]
  BY DEF AsyncSendFails, MayRead, ReadError, AsyncReadFails, objectVars, IsIdle, Idle, Ends
<1>1. PICK s \in Sockets : s = fd[o] BY <1>0, EndOf
<1>2. /\ Len(sock[s].queue) \in Nat /\ call \in [Objects -> CallType]
      /\ LeftOf(sock[s].queue, sock[s].queue)
      /\ sock \in [Sockets -> SocketType]
  BY <1>0, <1>1, EndOf
<1>3. PICK r \in SocketType :
        /\ sock' = [sock EXCEPT ![s] = r]
        /\ r.state = sock[s].state /\ r.peer = sock[s].peer /\ r.fin = sock[s].fin
        /\ r.sent = sock[s].sent /\ r.given = sock[s].given /\ r.split = sock[s].split
        /\ ~r.error /\ r.queue = sock[s].queue
  BY <1>0, <1>1, <1>2, ReportedIs
<1>4. /\ call' \in [Objects -> CallType] /\ \A q \in Objects : q # o => call'[q] = call[q]
      /\ call'[o].op \in {"none", "read"}
      /\ call'[o].op = "read" => call[o].op = "read"
  BY <1>0, <1>2 DEF CallType, Idle
<1>5. call[o].op = "read" => o \notin Async BY DEF IInv, Count
<1>6. QED BY <1>0, <1>1, <1>2, <1>3, <1>4, <1>5, LightStep

\* write_from_io_buff returns -1.
LEMMA WritesNothingStep ==
  ASSUME IInv, NEW o \in Objects, NEW len, WritesNothing(o, len) PROVE IInv'
<1>0. /\ fd[o] # None /\ UNCHANGED <<serverVars, fd, temp, readable>> /\ call' = call
      /\ sock' = sock /\ call[o].op = "none" /\ buf' = [buf EXCEPT ![o] = buf[o]]
  BY DEF WritesNothing, IsIdle, Idle, KeptOnAgain
<1>1. PICK s \in Sockets : s = fd[o] BY <1>0, EndOf
<1>2. /\ Len(sock[s].queue) \in Nat /\ call \in [Objects -> CallType] /\ sock[s] \in SocketType
      /\ LeftOf(sock[s].queue, sock[s].queue)
      /\ sock \in [Sockets -> SocketType] /\ buf \in [Objects -> Bytes]
  BY <1>0, <1>1, EndOf
<1>3. buf' = buf /\ sock' = [sock EXCEPT ![s] = sock[s]] BY <1>0, <1>2
<1>4. QED BY <1>0, <1>1, <1>2, <1>3, LightStep

\* read, read_exact and its loop.
LEMMA ReadStep ==
  ASSUME IInv, NEW o \in Objects, fd[o] # None, NEW n \in Nat, n <= Len(sock[fd[o]].queue),
         sock' = Received(fd[o], n), UNCHANGED <<serverVars, fd, temp, readable, buf>>,
         call[o].op \in {"none", "read"}, NEW c \in CallType, call' = [call EXCEPT ![o] = c],
         c.op \in {"none", "read"}, c.op = "read" => o \notin Async
  PROVE  IInv'
<1>1. PICK s \in Sockets : s = fd[o] BY EndOf
<1>2. call \in [Objects -> CallType] /\ sock \in [Sockets -> SocketType] BY EndOf
<1>3. PICK r \in SocketType :
        /\ sock' = [sock EXCEPT ![s] = r]
        /\ r.state = sock[s].state /\ r.peer = sock[s].peer /\ r.fin = sock[s].fin
        /\ r.sent = sock[s].sent /\ r.given = sock[s].given /\ r.split = sock[s].split
        /\ r.error = sock[s].error
        /\ r.queue = SubSeq(sock[s].queue, n + 1, Len(sock[s].queue))
  <2>1. sock' = Received(s, n) /\ n <= Len(sock[s].queue) BY <1>1
  <2>2. QED BY <1>2, <2>1, ReceivedIs
<1>4. /\ call' \in [Objects -> CallType] /\ \A q \in Objects : q # o => call'[q] = call[q]
      /\ call'[o] = c
  BY <1>2
<1>5. LeftOf(r.queue, sock[s].queue) BY <1>1, <1>3 DEF LeftOf
<1>6. /\ call[o].op # "connect" /\ call'[o].op # "connect" /\ call[o].op # "write"
      /\ call'[o].op # "write" /\ (call'[o].op = "read" => o \notin Async)
  BY <1>4
<1>7. sock' = [sock EXCEPT ![fd[o]] = r] /\ (r.error => sock[fd[o]].error) BY <1>1, <1>3
<1>8. UNCHANGED <<serverVars, fd, temp, readable, buf>> OBVIOUS
<1>9. QED BY <1>1, <1>3, <1>4, <1>5, <1>6, <1>7, <1>8, LightStep

\* Each of the reading calls is a ReadStep, or begins one.
LEMMA ReadSteps ==
  ASSUME IInv, NEW o \in Objects,
         (\E n \in 1..MaxLen : SyncRead(o, n) \/ ReadExact(o, n) \/ AsyncRead(o, n))
           \/ ReadExactReceives(o)
  PROVE  IInv'
<1>0. call \in [Objects -> CallType] /\ sock \in [Sockets -> SocketType] /\ MaxLen \in Nat
      /\ Idle \in CallType /\ Idle.op = "none"
  BY SizesAssumption DEF IInv, Shapes, CallType, Idle
<1>1. ASSUME NEW n \in 1..MaxLen, SyncRead(o, n) \/ AsyncRead(o, n) PROVE IInv'
  <2>1. /\ fd[o] # None /\ n \in Nat /\ n <= Len(sock[fd[o]].queue) /\ sock' = Received(fd[o], n)
        /\ UNCHANGED <<serverVars, fd, temp, readable, buf>> /\ call[o] = Idle /\ call' = call
    BY <1>0, <1>1 DEF SyncRead, AsyncRead, IsIdle, objectVars
  <2>2. call' = [call EXCEPT ![o] = Idle] BY <1>0, <2>1
  <2>3. QED BY <1>0, <2>1, <2>2, ReadStep
<1>2. ASSUME NEW n \in 1..MaxLen, ReadExact(o, n) PROVE IInv'
  <2> DEFINE c == [op |-> "read", left |-> n]
  <2>1. /\ fd[o] # None /\ UNCHANGED <<serverVars, fd, temp, readable, buf>> /\ call[o] = Idle
        /\ sock' = sock /\ call' = [call EXCEPT ![o] = c] /\ o \notin Async
    BY <1>2 DEF ReadExact, IsIdle, Begins, objectVars
  <2>2. n \in Nat \ {0} /\ c \in CallType /\ c.op = "read" BY <1>0 DEF CallType
  <2>3. PICK s \in Sockets : s = fd[o] BY <2>1, EndOf
  <2>4. /\ Len(sock[s].queue) \in Nat /\ sock[s] \in SocketType
        /\ LeftOf(sock[s].queue, sock[s].queue)
    BY <2>1, <2>3, EndOf
  <2>5. sock' = [sock EXCEPT ![s] = sock[s]] BY <1>0, <2>1
  <2>6. /\ call' \in [Objects -> CallType] /\ \A q \in Objects : q # o => call'[q] = call[q]
        /\ call'[o].op = "read"
    BY <1>0, <2>1, <2>2
  <2>7. QED BY <1>0, <2>1, <2>3, <2>4, <2>5, <2>6, LightStep
<1>3. ASSUME ReadExactReceives(o) PROVE IInv'
  <2>1. /\ call[o].op = "read" /\ UNCHANGED <<serverVars, fd, temp, readable, buf>>
    BY <1>3 DEF ReadExactReceives, InCall, objectVars
  <2>2. PICK n \in 1..call[o].left :
          /\ n <= Len(sock[fd[o]].queue) /\ sock' = Received(fd[o], n)
          /\ IF n < call[o].left THEN call' = [call EXCEPT ![o].left = @ - n] ELSE Ends(o)
    BY <1>3 DEF ReadExactReceives
  <2>3. o \notin Async /\ fd[o] # None BY <2>1 DEF IInv, Count
  <2>4. call[o] \in [op : {"read"}, left : Nat \ {0}] BY <1>0, <2>1 DEF CallType, Idle
  <2>5. n \in Nat BY <2>4
  <2>6. CASE n < call[o].left
    <3> DEFINE c == [call[o] EXCEPT !.left = @ - n]
    <3>1. call' = [call EXCEPT ![o] = c] BY <2>2, <2>6
    <3>2. c \in CallType /\ c.op = "read"
      <4>1. call[o].left - n \in Nat \ {0} BY <2>4, <2>6
      <4>2. c \in [op : {"read"}, left : Nat \ {0}] BY <2>4, <4>1
      <4>3. QED BY <4>2 DEF CallType
    <3> HIDE DEF c
    <3>3. QED BY <2>1, <2>2, <2>3, <2>5, <3>1, <3>2, ReadStep
  <2>7. CASE ~(n < call[o].left)
    <3>1. call' = [call EXCEPT ![o] = Idle] BY <2>2, <2>7 DEF Ends
    <3>2. QED BY <1>0, <2>1, <2>2, <2>3, <2>5, <3>1, ReadStep
  <2>8. QED BY <2>6, <2>7
<1>4. QED BY <1>1, <1>2, <1>3

(***************************************************************************)
(* Bytes are given                                                         *)
(***************************************************************************)
\* An end to which bytes are given, some of which may come from its own queue.
Giving(q, l, b) == [q EXCEPT !.queue = l, !.given = @ \o b]
IsGiven(r, q, l, b) ==
  /\ r \in SocketType /\ r.state = q.state /\ r.peer = q.peer /\ r.fin = q.fin
  /\ r.error = q.error /\ r.sent = q.sent /\ r.split = q.split /\ r.queue = l
  /\ Len(r.given) = Len(q.given) + Len(b) /\ r.sent <= Len(r.given)
  /\ \A i \in Int : 1 <= i => SubSeq(r.given, i, r.sent) = SubSeq(q.given, i, r.sent)
  /\ SubSeq(r.given, r.sent + 1, Len(r.given))
       = SubSeq(q.given, q.sent + 1, Len(q.given)) \o b

\* What IsGiven says of bytes that are given.
LEMMA GivenIs ==
  ASSUME NEW q \in SocketType, q.sent <= Len(q.given), NEW b \in Bytes,
         Len(q.given) + Len(b) <= MaxGiven, NEW l \in Bytes
  PROVE  IsGiven(Giving(q, l, b), q, l, b)
<1>0. PICK r : r = Giving(q, l, b) OBVIOUS
<1> DEFINE g == q.given \o b
<1>1. q.given \in Bytes /\ q.sent \in Nat /\ Len(q.given) \in Nat /\ Len(b) \in Nat
  BY BytesLen DEF SocketType
<1>2. g \in Bytes /\ Len(g) = Len(q.given) + Len(b) BY <1>1, JoinIs
<1>3. /\ \A i \in Int : 1 <= i => SubSeq(g, i, q.sent) = SubSeq(q.given, i, q.sent)
      /\ SubSeq(g, q.sent + 1, Len(g)) = SubSeq(q.given, q.sent + 1, Len(q.given)) \o b
  BY <1>1, GivenMore
<1>4. r = [q EXCEPT !.queue = l, !.given = g] BY <1>0 DEF Giving
<1> HIDE DEF g
<1>5. /\ r \in SocketType /\ r.state = q.state /\ r.peer = q.peer /\ r.fin = q.fin
      /\ r.error = q.error /\ r.sent = q.sent /\ r.split = q.split /\ r.queue = l /\ r.given = g
  BY <1>2, <1>4 DEF SocketType
<1>6. q.sent <= Len(g) BY <1>1, <1>2
<1>7. QED BY <1>0, <1>2, <1>3, <1>5, <1>6 DEF IsGiven

\* The bytes of a call are numbered on.
LEMMA NewBytesAre ==
  ASSUME IInv, NEW o \in Objects, NEW n \in 1..MaxLen, MayGive(o, n)
  PROVE  NewBytes(o, n) \in Bytes /\ Len(NewBytes(o, n)) = n /\ n \in Nat \ {0}
         /\ Len(sock[fd[o]].given) + n <= MaxGiven /\ Len(buf[o]) + n <= MaxGiven
         /\ fd[o] # None /\ ~sock[fd[o]].split
<1>1. /\ fd[o] # None /\ ~sock[fd[o]].split /\ Len(sock[fd[o]].given) + n <= MaxGiven
      /\ Len(buf[o]) + n <= MaxGiven
  BY DEF MayGive
<1>2. Len(sock[fd[o]].given) \in Nat /\ MaxGiven \in Nat /\ n \in Nat \ {0}
  BY <1>1, EndOf, SizesAssumption
<1> DEFINE last == Len(sock[fd[o]].given)
           b == [i \in 1..n |-> last + i]
<1>3. last \in Nat /\ last + n <= MaxGiven BY <1>1, <1>2
<1> HIDE DEF last
<1>4. \A i \in 1..n : last + i \in 1..MaxGiven BY <1>2, <1>3
<1>5. b \in [1..n -> 1..MaxGiven] BY <1>4
<1>6. n \in 0..MaxGiven BY <1>2, <1>3
<1>7. b \in Bytes BY <1>5, <1>6 DEF Bytes
<1>8. Len(b) = n BY <1>2, <1>5, <1>7, BytesAre, LenProperties
<1>9. NewBytes(o, n) = b BY DEF NewBytes, b, last
<1>10. QED BY <1>1, <1>2, <1>7, <1>8, <1>9

\* Bytes are given to an end, and kept in the buffer or by write_exact.
LEMMA GiveStep ==
  ASSUME IInv, NEW o \in Objects, fd[o] # None, ~sock[fd[o]].split, call[o].op = "none",
         NEW b \in Bytes, Len(sock[fd[o]].given) + Len(b) <= MaxGiven,
         NEW l \in Bytes, LeftOf(l, sock[fd[o]].queue),
         sock' = [sock EXCEPT ![fd[o]] = [sock[fd[o]] EXCEPT !.queue = l, !.given = @ \o b]],
         UNCHANGED <<serverVars, fd, temp, readable>>,
         \/ /\ o \in Async /\ buf' = [buf EXCEPT ![o] = @ \o b] /\ call' = call
            /\ Len(buf[o]) + Len(b) <= MaxGiven
         \/ /\ o \notin Async /\ buf' = buf /\ Len(b) \in Nat \ {0}
            /\ call' = [call EXCEPT ![o] = [op |-> "write", bytes |-> b, left |-> Len(b)]]
  PROVE  IInv'
<1>1. PICK s \in Sockets : s = fd[o] BY EndOf
<1> DEFINE q == sock[s]
<1>2. /\ sock \in [Sockets -> SocketType] /\ buf \in [Objects -> Bytes] /\ buf[o] \in Bytes
      /\ call \in [Objects -> CallType] /\ q \in SocketType /\ q.sent \in Nat /\ q.given \in Bytes
      /\ q.sent <= Len(q.given) /\ Len(q.given) \in Nat /\ Len(buf[o]) \in Nat /\ Len(b) \in Nat
  BY <1>1, EndOf, BytesLen
<1>3. PICK r : r = Giving(q, l, b) OBVIOUS
<1>4. /\ r \in SocketType /\ r.state = q.state /\ r.peer = q.peer /\ r.fin = q.fin
      /\ r.error = q.error /\ r.sent = q.sent /\ r.split = q.split /\ r.queue = l
      /\ Len(r.given) = Len(q.given) + Len(b) /\ r.sent <= Len(r.given)
      /\ \A i \in Int : 1 <= i => SubSeq(r.given, i, r.sent) = SubSeq(q.given, i, r.sent)
      /\ SubSeq(r.given, r.sent + 1, Len(r.given))
           = SubSeq(q.given, q.sent + 1, Len(q.given)) \o b
  <2>1. q \in SocketType /\ q.sent <= Len(q.given) /\ Len(q.given) + Len(b) <= MaxGiven BY <1>1, <1>2
  <2>2. IsGiven(Giving(q, l, b), q, l, b) BY <2>1, GivenIs
  <2>3. QED BY <1>3, <2>2 DEF IsGiven
<1>5. sock' = [sock EXCEPT ![s] = r] /\ sock'[s] = r BY <1>1, <1>2, <1>3 DEF Giving
<1>10. /\ r \in SocketType /\ r.state = sock[s].state /\ r.peer = sock[s].peer
       /\ r.fin = sock[s].fin /\ (r.error => sock[s].error) /\ r.sent = sock[s].sent
       /\ r.sent <= Len(r.given) /\ LeftOf(r.queue, sock[s].queue)
       /\ ~r.split => /\ ~sock[s].split
                      /\ \A i \in Int : 1 <= i =>
                           SubSeq(r.given, i, r.sent) = SubSeq(sock[s].given, i, r.sent)
       /\ sock[s].state = "connecting" => ~r.split
  BY <1>1, <1>4
<1>6. Count(o) /\ RestIs(o) BY DEF IInv
<1>7. fd' = fd /\ s # None /\ Rest(s) = SubSeq(q.given, q.sent + 1, Len(q.given))
      /\ Rest(s)' = SubSeq(r.given, r.sent + 1, Len(r.given)) /\ Waits(s)' = Waits(s)
  BY <1>4, <1>5, SizesAssumption DEF Rest, Waits
<1>8. CASE o \in Async
  <2> DEFINE w == buf[o] \o b
  <2>1. /\ buf' = [buf EXCEPT ![o] = w] /\ call' = call /\ Len(buf[o]) + Len(b) <= MaxGiven
    BY <1>8
  <2>2. w \in Bytes /\ Len(w) = Len(buf[o]) + Len(b) BY <1>2, <2>1, JoinIs
  <2>3. Waits(s) => q.sent + Len(buf[o]) <= Len(q.given) BY <1>1, <1>6, <1>7, <1>8 DEF Count
  <2>4. Waits(s) => buf[o] = SubSeq(q.given, q.sent + 1, Len(q.given))
    BY <1>1, <1>6, <1>7, <1>8 DEF RestIs
  <2>5. Waits(s) => w = Rest(s)' BY <1>4, <1>7, <2>4
  <2> HIDE DEF w
  <2>6. buf' \in [Objects -> Bytes] /\ buf'[o] = w /\ \A e \in Objects : e # o => buf'[e] = buf[e]
    BY <1>2, <2>1, <2>2
  <2>7. Count(o)'
    <3>1. Waits(s) => r.sent + Len(w) <= Len(r.given)
      <4>1. ASSUME Waits(s) PROVE r.sent + Len(w) <= Len(r.given)
        <5>1. q.sent + Len(buf[o]) <= Len(q.given) BY <2>3, <4>1
        <5>2. Len(q.given) \in Nat /\ Len(b) \in Nat /\ Len(buf[o]) \in Nat /\ q.sent \in Nat
          BY <1>2
        <5>3. r.sent = q.sent /\ Len(w) = Len(buf[o]) + Len(b)
              /\ Len(r.given) = Len(q.given) + Len(b)
          BY <1>4, <2>2
        <5> DEFINE sent == q.sent
                   kept == Len(buf[o])
                   more == Len(b)
                   all == Len(q.given)
        <5>4. sent + kept <= all /\ all \in Nat /\ more \in Nat /\ kept \in Nat /\ sent \in Nat
          BY <5>1, <5>2
        <5>5. r.sent = sent /\ Len(w) = kept + more /\ Len(r.given) = all + more BY <5>3
        <5> HIDE DEF sent, kept, more, all
        <5>6. sent + (kept + more) <= all + more BY <5>4
        <5>7. QED BY <5>5, <5>6
      <4>2. QED BY <4>1
    <3>2. call'[o].op = "none" /\ fd'[o] = s BY <1>1, <2>1
    <3>3. QED BY <1>5, <1>7, <1>8, <2>6, <3>1, <3>2 DEF Count
  <2>8. RestIs(o)' BY <1>1, <1>7, <2>1, <2>5, <2>6 DEF RestIs
  <2>9. /\ call' \in [Objects -> CallType] /\ call[o].op # "connect" /\ call'[o].op # "connect"
        /\ \A e \in Objects : e # o => buf'[e] = buf[e] /\ call'[e] = call[e]
    BY <1>2, <2>1, <2>6
  <2>10. UNCHANGED <<serverVars, fd, temp, readable>> OBVIOUS
  <2>11. QED BY <1>1, <1>5, <1>10, <2>6, <2>7, <2>8, <2>9, <2>10, CallStep, ZenonT(60)
<1>9. CASE o \notin Async
  <2> DEFINE c == [op |-> "write", bytes |-> b, left |-> Len(b)]
  <2>1. buf' = buf /\ call' = [call EXCEPT ![o] = c] /\ Len(b) \in Nat \ {0} BY <1>9
  <2>2. c \in CallType /\ c.op = "write" /\ c.bytes = b /\ c.left = Len(b) BY <2>1 DEF CallType
  <2> HIDE DEF c
  <2>3. /\ call' \in [Objects -> CallType] /\ call'[o] = c /\ call[o].op # "connect"
        /\ call'[o].op # "connect"
        /\ \A e \in Objects : e # o => buf'[e] = buf[e] /\ call'[e] = call[e]
    BY <1>2, <2>1, <2>2
  <2>4. Waits(s) => q.sent = Len(q.given) BY <1>1, <1>6, <1>7, <1>9 DEF Count
  <2>5. Count(o)'
    <3>1. buf'[o] = NoBytes BY <1>6, <1>9, <2>1 DEF Count
    <3>2. Waits(s) => r.sent + c.left = Len(r.given) BY <1>2, <1>4, <2>2, <2>4
    <3>3. c.left <= Len(c.bytes) BY <1>2, <2>2
    <3>4. fd'[o] = s BY <1>1
    <3>5. QED BY <1>5, <1>7, <1>9, <2>2, <2>3, <3>1, <3>2, <3>3, <3>4 DEF Count
  <2>6. Waits(s) => b = Rest(s)'
    <3>1. SUFFICES ASSUME Waits(s) PROVE b = Rest(s)' OBVIOUS
    <3>2. q.sent + 1 \in Int /\ Len(q.given) \in Int /\ Len(q.given) < q.sent + 1
      BY <1>2, <2>4, <3>1
    <3>3. SubSeq(q.given, q.sent + 1, Len(q.given)) = << >> BY <3>2, SubSeqEmpty
    <3>4. << >> \o b = b BY BytesAre, ConcatEmptySeq
    <3>5. QED BY <1>4, <1>7, <3>3, <3>4
  <2>7. RestIs(o)' BY <1>1, <1>7, <1>9, <2>2, <2>3, <2>6 DEF RestIs
  <2>10. UNCHANGED <<serverVars, fd, temp, readable>> OBVIOUS
  <2>11. buf' \in [Objects -> Bytes] BY <1>2, <2>1
  <2>12. QED BY <1>1, <1>5, <1>10, <2>3, <2>5, <2>7, <2>10, <2>11, CallStep, ZenonT(60)
<1>11. QED BY <1>8, <1>9

\* Each of the calls that give bytes is a GiveStep.
LEMMA GiveSteps ==
  ASSUME IInv, NEW o \in Objects,
         \E n \in 1..MaxLen : WriteExact(o, n) \/ Put(o, n) \/ ReadInBuffer(o, n)
  PROVE  IInv'
<1>1. PICK n \in 1..MaxLen : WriteExact(o, n) \/ Put(o, n) \/ ReadInBuffer(o, n) OBVIOUS
<1>2. MayGive(o, n) /\ call[o].op = "none"
  BY <1>1, SMTT(30) DEF WriteExact, Put, ReadInBuffer, Begins, IsIdle, Idle
<1>3. /\ NewBytes(o, n) \in Bytes /\ Len(NewBytes(o, n)) = n /\ n \in Nat \ {0}
      /\ Len(sock[fd[o]].given) + n <= MaxGiven /\ Len(buf[o]) + n <= MaxGiven
      /\ fd[o] # None /\ ~sock[fd[o]].split
  BY <1>2, NewBytesAre
<1>4. PICK s \in Sockets : s = fd[o] BY <1>3, EndOf
<1>5. /\ sock \in [Sockets -> SocketType] /\ sock[s] \in SocketType /\ sock[s].queue \in Bytes
      /\ LeftOf(sock[s].queue, sock[s].queue) /\ Len(sock[s].queue) \in Nat
  BY <1>3, <1>4, EndOf
<1> DEFINE b == NewBytes(o, n)
<1>6. ASSUME WriteExact(o, n) \/ Put(o, n) PROVE IInv'
  <2> HIDE DEF b
  <2>1. sock' = [sock EXCEPT ![s] = [sock[s] EXCEPT !.given = @ \o b]]
    BY <1>4, <1>6 DEF WriteExact, Put, Give, b
  <2>2. [sock[s] EXCEPT !.given = @ \o b]
          = [sock[s] EXCEPT !.queue = sock[s].queue, !.given = @ \o b]
    BY <1>5 DEF SocketType
  <2>3. sock' = [sock EXCEPT ![s] = [sock[s] EXCEPT !.queue = sock[s].queue, !.given = @ \o b]]
    BY <2>1, <2>2
  <2>4. UNCHANGED <<serverVars, fd, temp, readable>>
    BY <1>6 DEF WriteExact, Put, objectVars
  <2>5. \/ o \in Async /\ buf' = [buf EXCEPT ![o] = @ \o b] /\ call' = call
        \/ /\ o \notin Async /\ buf' = buf
           /\ call' = [call EXCEPT ![o] = [op |-> "write", bytes |-> b, left |-> n]]
    BY <1>6 DEF WriteExact, Put, Begins, objectVars, b
  <2>6. b \in Bytes /\ Len(b) = n BY <1>3 DEF b
  <2>7. QED BY <1>2, <1>3, <1>4, <1>5, <2>3, <2>4, <2>5, <2>6, GiveStep
<1>7. ASSUME ReadInBuffer(o, n) PROVE IInv'
  <2> DEFINE q == sock[s].queue
             d == SubSeq(q, 1, n)
             l == SubSeq(q, n + 1, Len(q))
  <2>1. n <= Len(q) /\ o \in Async BY <1>4, <1>7 DEF ReadInBuffer
  <2>2. d \in Bytes /\ Len(d) = n
    <3>1. 1 \in Int /\ n \in Int /\ 1 <= 1 BY <1>3
    <3>2. d \in Bytes /\ Len(d) = IF 1 <= n THEN n - 1 + 1 ELSE 0 BY <1>5, <2>1, <3>1, PartIs
    <3> HIDE DEF d
    <3>3. QED BY <1>3, <3>2
  <2>3. l \in Bytes /\ LeftOf(l, q)
    <3>1. n + 1 \in Int /\ Len(q) \in Int /\ 1 <= n + 1 /\ Len(q) <= Len(q) BY <1>3, <1>5
    <3>2. l \in Bytes BY <1>5, <3>1, PartIs
    <3>3. n \in Nat BY <1>3
    <3>4. QED BY <2>1, <3>2, <3>3 DEF LeftOf
  <2>4. Resized(o, n) = d /\ Received(fd[o], n) = [sock EXCEPT ![s] = [sock[s] EXCEPT !.queue = l]]
    BY <1>4 DEF Resized, Received
  <2> HIDE DEF d, l
  <2>5. sock' = [sock EXCEPT ![s] = [sock[s] EXCEPT !.queue = l, !.given = @ \o d]]
    <3>1. sock' = [Received(fd[o], n) EXCEPT ![s].given = @ \o d]
      BY <1>4, <1>7, <2>4 DEF ReadInBuffer
    <3>2. DOMAIN sock = Sockets /\ s \in Sockets /\ DOMAIN sock[s] = DOMAIN FreeSock
      BY <1>5 DEF SocketType, FreeSock
    <3>3. sock' = [[sock EXCEPT ![s] = [sock[s] EXCEPT !.queue = l]] EXCEPT ![s].given = @ \o d]
      BY <2>4, <3>1
    <3>4. QED BY <3>2, <3>3 DEF FreeSock
  <2>6. /\ UNCHANGED <<serverVars, fd, temp, readable>> /\ call' = call
        /\ buf' = [buf EXCEPT ![o] = @ \o d]
    BY <1>7, <2>4 DEF ReadInBuffer
  <2>7. QED BY <1>2, <1>3, <1>4, <2>1, <2>2, <2>3, <2>5, <2>6, GiveStep
<1>8. QED BY <1>1, <1>6, <1>7

\* What was given and not sent is withdrawn.
LEMMA WriteErrorStep ==
  ASSUME IInv, NEW o \in Objects, MayWrite(o), WriteError(o) PROVE IInv'
<1>0. /\ o \notin Async /\ fd[o] # None /\ call[o].op \in {"none", "write"}
      /\ sock' = Withdrawn(Reported(fd[o]), fd[o]) /\ call' = [call EXCEPT ![o] = Idle]
      /\ UNCHANGED <<serverVars, fd, temp, readable>> /\ buf' = buf
  BY DEF MayWrite, WriteError, Ends, objectVars
<1>1. PICK s \in Sockets : s = fd[o] BY <1>0, EndOf
<1> DEFINE q == sock[s]
           g == SubSeq(q.given, 1, q.sent)
<1>2. /\ sock \in [Sockets -> SocketType] /\ q \in SocketType /\ q.given \in Bytes
      /\ q.sent \in Nat /\ q.sent <= Len(q.given) /\ Len(q.given) \in Nat
      /\ LeftOf(q.queue, q.queue) /\ (q.state = "connecting" => ~q.split)
      /\ call \in [Objects -> CallType] /\ buf \in [Objects -> Bytes]
  BY <1>0, <1>1, EndOf
<1>3. /\ g \in Bytes /\ Len(g) = q.sent
      /\ \A i \in Int : 1 <= i => SubSeq(g, i, q.sent) = SubSeq(q.given, i, q.sent)
  <2> DEFINE t == q.sent
             w == q.given
             h == SubSeq(w, 1, t)
  <2>1. w \in Bytes /\ t \in Int /\ 1 \in Int /\ 1 <= 1 /\ t <= Len(w) /\ 0 <= t BY <1>2
  <2> HIDE DEF t, w
  <2>2. h \in Bytes /\ Len(h) = IF 1 <= t THEN t - 1 + 1 ELSE 0 BY <2>1, PartIs
  <2>3. Len(h) = t BY <2>1, <2>2
  <2>4. ASSUME NEW i \in Int, 1 <= i PROVE SubSeq(h, i, t) = SubSeq(w, i, t)
    <3>1. t <= Len(SubSeq(w, 1, t)) BY <2>1, <2>3
    <3>2. SubSeq(SubSeq(w, 1, t), i, t) = SubSeq(w, 1 + i - 1, 1 + t - 1)
      BY <2>1, <2>4, <3>1, PartOfPart
    <3>3. 1 + i - 1 = i /\ 1 + t - 1 = t BY <2>1
    <3>4. QED BY <3>2, <3>3
  <2>5. QED BY <2>2, <2>3, <2>4 DEF t, w
<1> HIDE DEF g
<1>4. PICK r : r = [q EXCEPT !.error = FALSE, !.given = g] OBVIOUS
<1>5. /\ r \in SocketType /\ r.state = q.state /\ r.peer = q.peer /\ r.fin = q.fin /\ ~r.error
      /\ r.sent = q.sent /\ r.split = q.split /\ r.queue = q.queue /\ r.given = g
  BY <1>2, <1>3, <1>4 DEF SocketType
<1>6. sock' = [sock EXCEPT ![s] = r]
  BY <1>0, <1>1, <1>2, <1>4 DEF Withdrawn, Reported, SocketType, g
<1>7. sock'[s] = r BY <1>2, <1>6
<1>8. /\ call' \in [Objects -> CallType] /\ call'[o].op = "none" /\ buf' \in [Objects -> Bytes]
      /\ \A e \in Objects : e # o => buf'[e] = buf[e] /\ call'[e] = call[e]
  BY <1>0, <1>2 DEF CallType, Idle
<1>9. Count(o)' /\ RestIs(o)'
  <2>1. buf[o] = NoBytes BY <1>0 DEF IInv, Count
  <2>2. r.sent = Len(r.given) BY <1>3, <1>5
  <2>3. QED BY <1>0, <1>1, <1>7, <1>8, <2>1, <2>2 DEF Count, RestIs
<1>10. r.sent <= Len(r.given) BY <1>2, <1>3, <1>5
<1>11. ~r.split => /\ ~sock[s].split
                   /\ \A i \in Int : 1 <= i =>
                        SubSeq(r.given, i, r.sent) = SubSeq(sock[s].given, i, r.sent)
  BY <1>3, <1>5
<1>12. /\ r.state = sock[s].state /\ r.peer = sock[s].peer /\ r.fin = sock[s].fin
       /\ (r.error => sock[s].error) /\ r.sent = sock[s].sent /\ r \in SocketType
       /\ LeftOf(r.queue, sock[s].queue) /\ (sock[s].state = "connecting" => ~r.split)
  BY <1>2, <1>5
<1>13. /\ call[o].op # "connect" /\ call'[o].op # "connect"
       /\ UNCHANGED <<serverVars, fd, temp, readable>>
  BY <1>0, <1>8
<1>14. QED BY <1>1, <1>6, <1>8, <1>9, <1>10, <1>11, <1>12, <1>13, CallStep

\* The end of the stream is seen.
LEMMA ReadEndsStep ==
  ASSUME IInv, NEW o \in Objects, SyncReadEnds(o) \/ AsyncReadEnds(o) PROVE IInv'
<1>0. /\ fd[o] # None /\ call[o].op \in {"none", "read"} /\ AtEnd(fd[o])
      /\ readable' = [readable EXCEPT ![o] = FALSE]
      /\ UNCHANGED <<serverVars, sock, fd, temp, buf>>
      /\ call' = call \/ call' = [call EXCEPT ![o] = Idle]
  BY DEF SyncReadEnds, AsyncReadEnds, Ends, IsIdle, Idle
<1>1. Shapes BY DEF IInv
<1>2. Shapes' BY <1>0, <1>1 DEF Shapes, CallType, serverVars
<1>3. KernelSound(sock') /\ QueueFaithful(sock') BY <1>0 DEF IInv
<1>4. BacklogFresh' BY <1>0 DEF IInv, BacklogFresh, serverVars
<1>5. /\ call'[o].op \in {"none", "read"}
      /\ \A q \in Objects : q # o => call'[q] = call[q]
      /\ call'[o].op = "read" => call[o].op = "read"
  BY <1>0, <1>1 DEF Shapes, Idle
<1>9. /\ fd' = fd /\ temp' = temp /\ backlog' = backlog /\ sock' = sock /\ buf' = buf
      /\ call[o].op \in {"none", "read"}
  BY <1>0 DEF serverVars
<1>6. Owned'
  <2>1. call[o].op # "connect" /\ call'[o].op # "connect" BY <1>5, <1>9
  <2>2. \A q \in Objects : call'[q].op = "connect" <=> call[q].op = "connect"
    <3>1. \A q \in Objects : q # o => call'[q] = call[q] BY <1>5
    <3>2. QED BY <2>1, <3>1
  <2>3. QED BY <1>9, <2>2, OwnedKept
<1>7. ASSUME NEW q \in Objects PROVE Count(q)' /\ RestIs(q)' /\ EofOf(q)'
  <2>1. CASE q = o
    <3>1. PICK s \in Sockets : s = fd[o] BY <1>0, EndOf
    <3>3. call[o].op = "read" => o \notin Async BY DEF IInv, Count
    <3>2. /\ call[o].op = "write" => call'[o] = call[o]
          /\ call'[o].op = "write" => call'[o] = call[o]
          /\ call'[o].op = "read" => o \notin Async
      BY <1>5, <1>9, <3>3
    <3>4. Count(o)' /\ RestIs(o)' BY <1>9, <3>1, <3>2, StreamKept
    <3>5. AtEnd(fd[o])' BY <1>0 DEF AtEnd, CanReceive
    <3>6. EofOf(o)' BY <3>5 DEF EofOf
    <3>7. QED BY <2>1, <3>4, <3>6
  <2>2. CASE q # o
    <3>1. fd[q] # None => Other(sock'[fd[q]], sock[fd[q]]) BY <1>0 DEF Other
    <3>2. readable'[q] = readable[q] BY <1>0, <1>1, <2>2 DEF Shapes
    <3>3. fd'[q] = fd[q] /\ buf'[q] = buf[q] /\ call'[q] = call[q] BY <1>5, <1>9, <2>2
    <3>4. QED BY <3>1, <3>2, <3>3, ObjectKept
  <2>3. QED BY <2>1, <2>2
<1>8. QED BY <1>2, <1>3, <1>4, <1>6, <1>7 DEF IInv

(***************************************************************************)
(* Sending                                                                 *)
(***************************************************************************)
\* A step of the call of one object that changes its end and, perhaps, the other one.
LEMMA OwnStep ==
  ASSUME IInv, NEW o \in Objects, NEW s \in Sockets, s = fd[o],
         sock' \in [Sockets -> SocketType], KernelSound(sock'), QueueFaithful(sock'),
         \A e \in Sockets : e # s => Other(sock'[e], sock[e]),
         sock'[s].state \notin {"free", "new"}, AtEnd(s) => AtEnd(s)',
         UNCHANGED <<serverVars, fd, temp, readable>>,
         buf' \in [Objects -> Bytes], call' \in [Objects -> CallType],
         \A q \in Objects : q # o => buf'[q] = buf[q] /\ call'[q] = call[q],
         call[o].op # "connect", call'[o].op # "connect", Count(o)' /\ RestIs(o)'
  PROVE  IInv'
<1>1. Shapes /\ Owned /\ EofOf(o) /\ s # None BY SizesAssumption DEF IInv
<1>2. sock[s].state \notin {"free", "new"} BY <1>1 DEF Owned
<1>3. BacklogFresh'
  <2>1. \A i \in DOMAIN backlog : backlog[i] # s BY <1>1 DEF Owned
  <2>2. \A i \in DOMAIN backlog : backlog[i] \in Sockets
    BY <1>1, ElementOfSeq, LenProperties DEF Shapes
  <2>3. \A i \in DOMAIN backlog : Other(sock'[backlog[i]], sock[backlog[i]]) BY <2>1, <2>2
  <2>4. QED BY <2>3, BacklogKept DEF serverVars
<1>4. Owned'
  <2>1. \A q \in Objects : call'[q].op = "connect" <=> call[q].op = "connect" OBVIOUS
  <2>2. \A e \in Sockets : /\ sock'[e].state = "free" <=> sock[e].state = "free"
                           /\ sock'[e].state = "new" <=> sock[e].state = "new"
    BY <1>2, OtherStates
  <2>3. QED BY <2>1, <2>2, OwnedKept DEF serverVars
<1>5. ASSUME NEW q \in Objects PROVE Count(q)' /\ RestIs(q)' /\ EofOf(q)'
  <2>1. CASE q = o
    <3>1. EofOf(o)' BY <1>1 DEF EofOf, AtEnd, CanReceive
    <3>2. QED BY <2>1, <3>1
  <2>2. CASE q # o
    <3>1. fd[q] # None => Other(sock'[fd[q]], sock[fd[q]])
      <4>1. fd[q] # None => fd[q] \in Sockets /\ fd[q] # s BY <1>1, <2>2 DEF Owned, Shapes
      <4>2. QED BY <4>1
    <3>2. QED BY <2>2, <3>1, ObjectKept
  <2>3. QED BY <2>1, <2>2
<1>6. Shapes' BY <1>1 DEF Shapes, serverVars
<1>7. QED BY <1>3, <1>4, <1>5, <1>6 DEF IInv

\* What a send makes of the ends: g is sock, or sock after the bytes were given.
Sending(g, s, b, cut) == IF cut THEN Split(Sent(g, s, b), s) ELSE Sent(g, s, b)

\* To a peer that is there.
LEMMA SendToPeer ==
  ASSUME IInv, NEW s \in Sockets, sock[s].peer # None, NEW g \in [Sockets -> SocketType],
         KernelSound(g), QueueFaithful(g), \A e \in Sockets : e # s => g[e] = sock[e],
         g[s].peer = sock[s].peer,
         NEW b \in Bytes, NEW cut \in BOOLEAN, Len(b) <= Room(s),
         g[s].sent + Len(b) <= Len(g[s].given),
         InOrder(g[s], b, cut),
         NEW tt, tt = Sending(g, s, b, cut)
  PROVE  /\ tt \in [Sockets -> SocketType] /\ KernelSound(tt) /\ QueueFaithful(tt)
         /\ \A e \in Sockets : e # s => Other(tt[e], sock[e])
         /\ tt[s] = Advanced(g[s], b, cut)
         /\ ~AtEnd(s)
<1>1. PICK p \in Sockets : p = sock[s].peer BY DEF IInv, Shapes, SocketType
<1>2. KernelSound(sock) /\ p # None BY <1>1 DEF IInv
<1>3. /\ p # s /\ sock[p].peer = s /\ s # None /\ g[p] = sock[p]
      /\ sock[s].state = "up" /\ ~sock[s].fin
  BY <1>1, <1>2, SizesAssumption DEF KernelSound
<1>4. sock[p].state = "up" /\ ~sock[p].fin BY <1>2, <1>3 DEF KernelSound
<1>5. tt = SentTo(g, p, s, b, cut)
  <2> DEFINE a == [g EXCEPT ![p].queue = @ \o b, ![s].sent = @ + Len(b)]
  <2>1. Sent(g, s, b) = a BY <1>1, <1>2 DEF Sent, Peer
  <2>2. /\ a \in [Sockets -> {a[e] : e \in Sockets}] /\ g[s] \in SocketType
        /\ a[s] = [g[s] EXCEPT !.sent = @ + Len(b)]
    BY <1>3
  <2>3. CASE cut BY <2>1, <2>2, <2>3 DEF Sending, Split, SentTo, SocketType
  <2>4. CASE ~cut
    <3> DEFINE r == [g[s] EXCEPT !.sent = @ + Len(b)]
    <3>1. r = [r EXCEPT !.split = r.split \/ cut] BY <2>4 DEF SocketType
    <3>2. a = [a EXCEPT ![s] = [a[s] EXCEPT !.split = @ \/ cut]] BY <2>2, <3>1
    <3>3. SentTo(g, p, s, b, cut) = [a EXCEPT ![s] = [a[s] EXCEPT !.split = @ \/ cut]]
      BY DEF SentTo
    <3>4. QED BY <2>1, <2>4, <3>2, <3>3 DEF Sending
  <2>5. QED BY <2>3, <2>4
<1>6. Len(g[p].queue) + Len(b) <= QueueCap
  <2>1. Len(b) <= QueueCap - Len(g[p].queue) BY <1>1, <1>2, <1>3 DEF Room, Peer
  <2>2. g[p].queue \in Bytes BY DEF SocketType
  <2>3. Len(b) \in Nat /\ Len(g[p].queue) \in Nat /\ QueueCap \in Nat
    BY <2>2, BytesLen, SizesAssumption
  <2>4. QED BY <2>1, <2>3
<1>7. p = g[s].peer BY <1>1
<1>8. /\ tt \in [Sockets -> SocketType] /\ KernelSound(tt) /\ QueueFaithful(tt)
      /\ tt[s] = Advanced(g[s], b, cut)
      /\ tt[p] = [g[p] EXCEPT !.queue = @ \o b]
      /\ \A e \in Sockets : e # s /\ e # p => tt[e] = g[e]
  <2>1. /\ tt \in [Sockets -> SocketType] /\ KernelSound(tt) /\ QueueFaithful(tt)
        /\ Delivered(tt, g, p, s, b, cut)
    BY <1>5, <1>6, <1>7, SentSound
  <2>2. QED BY <2>1 DEF Delivered
<1>9. Other(tt[p], sock[p])
  <2>1. /\ tt[p].state = "up" /\ tt[p].given = sock[p].given /\ tt[p].sent = sock[p].sent
        /\ tt[p].split = sock[p].split
    BY <1>3, <1>4, <1>8 DEF SocketType
  <2>2. QED BY <1>3, <1>4, <2>1 DEF Other
<1>10. ASSUME NEW e \in Sockets, e # s PROVE Other(tt[e], sock[e])
  <2>1. CASE e = p BY <1>9, <2>1
  <2>2. CASE e # p
    <3>1. tt[e] = sock[e] BY <1>8, <1>10, <2>2
    <3>2. QED BY <3>1 DEF Other
  <2>3. QED BY <2>1, <2>2
<1>11. ~AtEnd(s) BY <1>3 DEF AtEnd
<1>12. QED BY <1>8, <1>10, <1>11

\* The peer has closed, and answers with a reset.
LEMMA SendToNobody ==
  ASSUME IInv, NEW s \in Sockets, sock[s].peer = None, sock[s].state = "up",
         NEW g \in [Sockets -> SocketType],
         \A e \in Sockets : e # s => g[e] = sock[e], Reset(g[s]) = Reset(sock[s]),
         NEW b, NEW cut \in BOOLEAN, NEW tt, tt = Sending(g, s, b, cut)
  PROVE  /\ tt \in [Sockets -> SocketType] /\ KernelSound(tt) /\ QueueFaithful(tt)
         /\ \A e \in Sockets : e # s => Other(tt[e], sock[e])
         /\ tt[s].state = "dead" /\ tt[s].peer = None /\ tt[s].queue = sock[s].queue
         /\ tt[s].fin = sock[s].fin
<1>1. sock \in [Sockets -> SocketType] /\ KernelSound(sock) /\ QueueFaithful(sock)
  BY DEF IInv, Shapes
<1> DEFINE dd == [e \in Sockets |-> IF e \in {s} THEN Reset(sock[e]) ELSE sock[e]]
<1>2. dd \in [Sockets -> SocketType] /\ KernelSound(dd) /\ QueueFaithful(dd)
  <2>1. \A e \in Sockets : sock[e].peer # None => (e \in {s} <=> sock[e].peer \in {s})
    <3>1. \A e \in Sockets : sock[e].peer = s => e = None BY <1>1, SizesAssumption DEF KernelSound
    <3>2. QED BY <3>1, SizesAssumption
  <2>2. \A e \in {s} : sock[e].state \in {"connecting", "up"} OBVIOUS
  <2> DEFINE D == {s}
  <2>3. dd = Died(sock, D) BY DEF Died
  <2>4. WholeConnections(sock, D) BY <2>1, <2>2 DEF WholeConnections
  <2> HIDE DEF D, dd
  <2>5. QED BY <1>1, <2>3, <2>4, DieAll
<1>3. [g EXCEPT ![s] = Reset(@)] = dd OBVIOUS
<1> HIDE DEF dd
<1>4. Sent(g, s, b) = dd BY <1>3 DEF Sent, Peer
<1>5. /\ dd[s] = Reset(sock[s]) /\ \A e \in Sockets : e # s => dd[e] = sock[e]
  BY DEF dd
<1>6. /\ dd[s].state = "dead" /\ dd[s].peer = None /\ dd[s].queue = sock[s].queue
      /\ dd[s].fin = sock[s].fin /\ dd[s] \in SocketType /\ dd[s].given = NoBytes /\ dd[s].sent = 0
  BY <1>1, <1>2, <1>5, ResetTyped
<1>7. CASE ~cut BY <1>2, <1>4, <1>5, <1>6, <1>7 DEF Sending, Other
<1>8. CASE cut
  <2> DEFINE r == [dd[s] EXCEPT !.split = TRUE]
  <2>1. tt = [dd EXCEPT ![s] = r] BY <1>4, <1>8 DEF Sending, Split
  <2>2. /\ r \in SocketType /\ r.state = "dead" /\ r.peer = None /\ r.queue = dd[s].queue
        /\ r.fin = dd[s].fin /\ r.given = NoBytes /\ r.sent = 0 /\ r.split
    BY <1>6 DEF SocketType
  <2> HIDE DEF r
  <2>3. dd[s].queue \in Bytes /\ Len(dd[s].queue) \in Nat BY <1>2, BytesLen DEF SocketType
  <2>4. Len(NoBytes) = 0 BY NoBytesAre
  <2>5. tt \in [Sockets -> SocketType] /\ KernelSound(tt)
    <3>1. r.sent <= Len(r.given) /\ Len(r.queue) <= Len(dd[s].queue) BY <2>2, <2>3, <2>4
    <3>2. /\ dd[s].state # "free" /\ r.state = dd[s].state /\ r.peer = dd[s].peer
          /\ r.fin = dd[s].fin /\ r.sent = dd[s].sent
          /\ (dd[s].state \in {"new", "connecting"} => ~r.split)
          /\ (dd[s].state = "new" => r.given = NoBytes)
      BY <1>6, <2>2
    <3>3. dd \in [Sockets -> SocketType] /\ KernelSound(dd) /\ r \in SocketType BY <1>2, <2>2
    <3>4. /\ [dd EXCEPT ![s] = r] \in [Sockets -> SocketType]
          /\ KernelSound([dd EXCEPT ![s] = r])
      BY <3>1, <3>2, <3>3, ChangeOne
    <3>5. QED BY <2>1, <3>4
  <2>6. QueueFaithful(tt)
    <3>1. LeftOf(r.queue, dd[s].queue)
      <4>1. 0 + 1 = 1 /\ 0 \in Nat /\ 0 <= Len(dd[s].queue) BY <2>3
      <4>2. SubSeq(dd[s].queue, 1, Len(dd[s].queue)) = dd[s].queue BY <2>3, BytesAre, SubSeqFull
      <4>3. QED BY <2>2, <4>1, <4>2 DEF LeftOf
    <3>2. PICK n \in Nat : /\ n <= Len(dd[s].queue)
                           /\ r.queue = SubSeq(dd[s].queue, n + 1, Len(dd[s].queue))
      BY <3>1 DEF LeftOf
    <3>3. QED BY <1>2, <1>6, <2>1, <2>2, <3>2, QueueKept, ZenonT(60)
  <2>7. tt[s] = r /\ \A e \in Sockets : e # s => tt[e] = sock[e] BY <1>2, <1>5, <2>1
  <2>8. QED BY <1>6, <2>2, <2>5, <2>6, <2>7 DEF Other
<1>9. QED BY <1>7, <1>8

\* What is left for an object to send when b is sent of what r has: the buffer w of an
\* asynchronous one, the rest of the call c.
Remains(o, r, b, cut, w, c) ==
  /\ o \in Async => r.sent + Len(b) + Len(w) <= Len(r.given)
  /\ o \notin Async /\ c.op # "write" => r.sent + Len(b) = Len(r.given)
  /\ c.op = "write" => r.sent + Len(b) + c.left = Len(r.given)
  /\ ~cut /\ ~r.split =>
       /\ o \in Async => w = SubSeq(r.given, r.sent + Len(b) + 1, Len(r.given))
       /\ c.op # "write"

\* The send of a call.
LEMMA SendStep ==
  ASSUME IInv, NEW o \in Objects, fd[o] # None, CanSend(fd[o]),
         NEW g \in [Sockets -> SocketType], KernelSound(g), QueueFaithful(g),
         \A e \in Sockets : e # fd[o] => g[e] = sock[e],
         g[fd[o]].peer = sock[fd[o]].peer, g[fd[o]].state = sock[fd[o]].state,
         Reset(g[fd[o]]) = Reset(sock[fd[o]]),
         NEW b \in Bytes, NEW cut \in BOOLEAN, Len(b) <= Room(fd[o]),
         sock[fd[o]].peer # None => /\ g[fd[o]].sent + Len(b) <= Len(g[fd[o]].given)
                                    /\ InOrder(g[fd[o]], b, cut)
                                    /\ Remains(o, g[fd[o]], b, cut, buf'[o], call'[o]),
         sock' = Sending(g, fd[o], b, cut), UNCHANGED <<serverVars, fd, temp, readable>>,
         buf' \in [Objects -> Bytes], call' \in [Objects -> CallType],
         \A q \in Objects : q # o => buf'[q] = buf[q] /\ call'[q] = call[q],
         call[o].op # "connect", call'[o].op \in {"none", "write"},
         o \notin Async => buf'[o] = NoBytes,
         call'[o].op = "write" => o \notin Async /\ call'[o].left <= Len(call'[o].bytes)
  PROVE  IInv'
<1>1. PICK s \in Sockets : s = fd[o] BY EndOf
<1>2. s # None /\ fd'[o] = s /\ sock[s].state = "up" /\ g[s] \in SocketType
  BY <1>1, SizesAssumption DEF CanSend
<1>3. fd' = fd /\ UNCHANGED <<serverVars, fd, temp, readable>> OBVIOUS
<1>4. CASE sock[s].peer # None
  <2>1. /\ g[s].sent + Len(b) <= Len(g[s].given) /\ InOrder(g[s], b, cut)
        /\ Remains(o, g[s], b, cut, buf'[o], call'[o])
    BY <1>1, <1>4
  <2>2. /\ Len(b) <= Room(s) /\ sock' = Sending(g, s, b, cut) /\ g[s].peer = sock[s].peer
        /\ \A e \in Sockets : e # s => g[e] = sock[e]
    BY <1>1
  <2>3. /\ sock' \in [Sockets -> SocketType] /\ KernelSound(sock') /\ QueueFaithful(sock')
        /\ \A e \in Sockets : e # s => Other(sock'[e], sock[e])
        /\ sock'[s] = Advanced(g[s], b, cut)
        /\ ~AtEnd(s)
    BY <1>4, <2>1, <2>2, SendToPeer
  <2>4. /\ sock'[s].sent = g[s].sent + Len(b) /\ sock'[s].split = (g[s].split \/ cut)
        /\ sock'[s].given = g[s].given /\ sock'[s].state = "up"
    BY <1>1, <1>2, <2>3 DEF SocketType, Advanced
  <2>5. Count(o)'
    <3>1. /\ o \in Async => sock'[s].sent + Len(buf'[o]) <= Len(sock'[s].given)
          /\ o \notin Async /\ call'[o].op # "write" => sock'[s].sent = Len(sock'[s].given)
          /\ call'[o].op = "write" => sock'[s].sent + call'[o].left = Len(sock'[s].given)
      BY <2>1, <2>4 DEF Remains
    <3>2. QED BY <1>2, <3>1 DEF Count
  <2>6. RestIs(o)'
    <3>1. ~sock'[s].split => /\ o \in Async => buf'[o] = Rest(s)'
                             /\ call'[o].op # "write"
      BY <2>1, <2>4 DEF Remains, Rest
    <3>2. QED BY <1>2, <3>1 DEF RestIs
  <2>7. sock'[s].state \notin {"free", "new"} /\ (AtEnd(s) => AtEnd(s)') /\ call'[o].op # "connect"
    BY <2>3, <2>4
  <2>8. QED BY <1>1, <1>3, <2>3, <2>5, <2>6, <2>7, OwnStep
<1>5. CASE sock[s].peer = None
  <2>1. /\ sock' = Sending(g, s, b, cut) /\ Reset(g[s]) = Reset(sock[s])
        /\ \A e \in Sockets : e # s => g[e] = sock[e]
    BY <1>1
  <2>2. /\ sock' \in [Sockets -> SocketType] /\ KernelSound(sock') /\ QueueFaithful(sock')
        /\ \A e \in Sockets : e # s => Other(sock'[e], sock[e])
        /\ sock'[s].state = "dead" /\ sock'[s].peer = None /\ sock'[s].queue = sock[s].queue
        /\ sock'[s].fin = sock[s].fin
    BY <1>2, <1>5, <2>1, SendToNobody
  <2>3. ~Waits(s)' BY <2>2 DEF Waits
  <2>4. Count(o)' BY <1>2, <2>3 DEF Count
  <2>5. RestIs(o)' BY <1>2, <2>3 DEF RestIs
  <2>6. AtEnd(s) => AtEnd(s)' BY <1>2, <2>2 DEF AtEnd, CanReceive
  <2>7. sock'[s].state \notin {"free", "new"} /\ call'[o].op # "connect" BY <2>2
  <2>8. QED BY <1>1, <1>3, <2>2, <2>4, <2>5, <2>6, <2>7, OwnStep
<1>6. QED BY <1>4, <1>5

\* write: the bytes are given and sent.
LEMMA SyncWriteStep ==
  ASSUME IInv, NEW o \in Objects, NEW n \in 1..MaxLen, SyncWrite(o, n) PROVE IInv'
<1> DEFINE b == NewBytes(o, n)
           g == Give(o, b)
<1>0. /\ o \notin Async /\ call[o] = Idle /\ MayGive(o, n) /\ CanSend(fd[o]) /\ n <= Room(fd[o])
      /\ sock' = Sent(g, fd[o], b) /\ UNCHANGED <<serverVars, fd, temp, readable>>
      /\ buf' = buf /\ call' = call
  BY DEF SyncWrite, IsIdle, objectVars
<1>1. /\ b \in Bytes /\ Len(b) = n /\ Len(sock[fd[o]].given) + n <= MaxGiven /\ fd[o] # None
      /\ n \in Nat
  BY <1>0, NewBytesAre
<1> HIDE DEF b
<1>2. PICK s \in Sockets : s = fd[o] BY <1>1, EndOf
<1>3. /\ sock \in [Sockets -> SocketType] /\ buf \in [Objects -> Bytes]
      /\ call \in [Objects -> CallType] /\ sock[s] \in SocketType /\ sock[s].queue \in Bytes
      /\ sock[s].sent <= Len(sock[s].given) /\ LeftOf(sock[s].queue, sock[s].queue)
      /\ sock[s].state \notin {"free", "new"} /\ Len(sock[s].queue) \in Nat
      /\ sock[s].sent \in Nat /\ Len(sock[s].given) \in Nat
      /\ (sock[s].state = "connecting" => ~sock[s].split) /\ KernelSound(sock)
      /\ QueueFaithful(sock)
  BY <1>1, <1>2, EndOf DEF IInv
<1>4. PICK r : r = Giving(sock[s], sock[s].queue, b) OBVIOUS
<1>5. IsGiven(r, sock[s], sock[s].queue, b)
  <2>1. Len(sock[s].given) + Len(b) <= MaxGiven BY <1>1, <1>2
  <2>2. QED BY <1>1, <1>3, <1>4, <2>1, GivenIs
<1>6. g = [sock EXCEPT ![s] = r]
  <2>1. r = [sock[s] EXCEPT !.given = @ \o b] BY <1>3, <1>4 DEF Giving, SocketType
  <2>2. QED BY <1>2, <2>1 DEF Give
<1> HIDE DEF g
<1>7. /\ r \in SocketType /\ r.state = sock[s].state /\ r.peer = sock[s].peer
      /\ r.fin = sock[s].fin /\ r.sent = sock[s].sent /\ r.split = sock[s].split
      /\ r.queue = sock[s].queue /\ r.sent <= Len(r.given)
      /\ Len(r.given) = Len(sock[s].given) + n
      /\ \A i \in Int : 1 <= i => SubSeq(r.given, i, r.sent) = SubSeq(sock[s].given, i, r.sent)
  BY <1>1, <1>5 DEF IsGiven
<1>8. g[s] = r /\ \A e \in Sockets : e # s => g[e] = sock[e] BY <1>3, <1>6
<1>9. g \in [Sockets -> SocketType] /\ KernelSound(g)
  <2>1. Len(r.queue) <= Len(sock[s].queue) BY <1>3, <1>7
  <2>2. QED BY <1>3, <1>6, <1>7, <2>1, ChangeOne
<1>10. QueueFaithful(g)
  <2>1. PICK m \in Nat : /\ m <= Len(sock[s].queue)
                         /\ r.queue = SubSeq(sock[s].queue, m + 1, Len(sock[s].queue))
    BY <1>3, <1>7 DEF LeftOf
  <2>2. ~r.split => /\ ~sock[s].split
                    /\ \A i \in Int : 1 <= i =>
                         SubSeq(r.given, i, r.sent) = SubSeq(sock[s].given, i, r.sent)
    BY <1>7
  <2>3. QED BY <1>3, <1>6, <1>7, <2>1, <2>2, QueueKept
<1>11. Reset(g[s]) = Reset(sock[s]) BY <1>7, <1>8 DEF Reset, Alone
<1>12. Count(o) BY DEF IInv
<1>13. buf[o] = NoBytes /\ call[o].op = "none" BY <1>0, <1>12 DEF Count, Idle
<1>14. ASSUME sock[s].peer # None
       PROVE  /\ g[s].sent + Len(b) <= Len(g[s].given) /\ InOrder(g[s], b, FALSE)
              /\ Remains(o, g[s], b, FALSE, buf'[o], call'[o])
  <2>1. sock[s].sent = Len(sock[s].given)
    BY <1>0, <1>1, <1>2, <1>12, <1>13, <1>14 DEF Count, Waits
  <2>2. r.sent + Len(b) = Len(r.given) BY <1>1, <1>3, <1>7, <2>1
  <2>3. SubSeq(r.given, r.sent + 1, Len(r.given)) = b
    <3>1. SubSeq(r.given, r.sent + 1, Len(r.given))
            = SubSeq(sock[s].given, sock[s].sent + 1, Len(sock[s].given)) \o b
      BY <1>5 DEF IsGiven
    <3>2. sock[s].sent + 1 \in Int /\ Len(sock[s].given) \in Int
          /\ Len(sock[s].given) < sock[s].sent + 1
      BY <1>3, <2>1
    <3>3. SubSeq(sock[s].given, sock[s].sent + 1, Len(sock[s].given)) = << >>
      BY <3>2, SubSeqEmpty
    <3>4. << >> \o b = b BY <1>1, BytesAre, ConcatEmptySeq
    <3>5. QED BY <3>1, <3>3, <3>4
  <2>4. InOrder(g[s], b, FALSE) BY <1>8, <2>2, <2>3 DEF InOrder
  <2>5. Remains(o, g[s], b, FALSE, buf'[o], call'[o])
    BY <1>0, <1>8, <1>13, <2>2 DEF Remains
  <2>6. Len(r.given) \in Nat
    <3>1. r.given \in Bytes BY <1>7 DEF SocketType
    <3>2. QED BY <3>1, BytesLen
  <2>7. r.sent + Len(b) <= Len(r.given) BY <2>2, <2>6
  <2>8. QED BY <1>8, <2>4, <2>5, <2>7
<1>15. sock' = Sending(g, s, b, FALSE) BY <1>0, <1>2 DEF Sending
<1>16. /\ CanSend(s) /\ Len(b) <= Room(s) /\ g[s].peer = sock[s].peer /\ g[s].state = sock[s].state
       /\ s # None /\ FALSE \in BOOLEAN
  BY <1>0, <1>1, <1>2, <1>7, <1>8
<1>17. /\ buf' \in [Objects -> Bytes] /\ call' \in [Objects -> CallType]
       /\ \A q \in Objects : q # o => buf'[q] = buf[q] /\ call'[q] = call[q]
       /\ call[o].op # "connect" /\ call'[o].op = "none" /\ buf'[o] = NoBytes
       /\ UNCHANGED <<serverVars, fd, temp, readable>>
  BY <1>0, <1>3, <1>13
<1>18. QED BY <1>1, <1>2, <1>8, <1>9, <1>10, <1>11, <1>14, <1>15, <1>16, <1>17, SendStep

\* The beginning of some bytes.
LEMMA FirstIs ==
  ASSUME NEW w \in Bytes, NEW n \in Nat, n <= Len(w)
  PROVE  SubSeq(w, 1, n) \in Bytes /\ Len(SubSeq(w, 1, n)) = n
<1> DEFINE h == SubSeq(w, 1, n)
<1>1. 1 \in Int /\ n \in Int /\ 1 <= 1 OBVIOUS
<1>2. h \in Bytes /\ Len(h) = IF 1 <= n THEN n - 1 + 1 ELSE 0 BY <1>1, PartIs
<1> HIDE DEF h
<1>3. Len(h) = n BY <1>2
<1>4. QED BY <1>2, <1>3 DEF h

\* What is not the beginning.
LEMMA LastIs ==
  ASSUME NEW w \in Bytes, NEW n \in Nat, n <= Len(w)
  PROVE  SubSeq(w, n + 1, Len(w)) \in Bytes /\ Len(SubSeq(w, n + 1, Len(w))) = Len(w) - n
<1> DEFINE h == SubSeq(w, n + 1, Len(w))
           k == Len(w)
<1>1. k \in Nat BY BytesLen
<1>2. n + 1 \in Int /\ k \in Int /\ 1 <= n + 1 /\ k <= Len(w) BY <1>1
<1>3. h \in Bytes /\ Len(h) = IF n + 1 <= k THEN k - (n + 1) + 1 ELSE 0 BY <1>2, PartIs
<1> HIDE DEF h
<1>4. n <= k OBVIOUS
<1> HIDE DEF k
<1>5. Len(h) = k - n BY <1>1, <1>3, <1>4
<1>6. QED BY <1>3, <1>5 DEF h, k

\* A part of what is left is in order, and what follows it is left.
LEMMA PartInOrder ==
  ASSUME NEW r \in SocketType, r.sent <= Len(r.given), NEW w \in Bytes, NEW n \in Nat, n <= Len(w),
         NEW cut \in BOOLEAN,
         ~cut /\ ~r.split => w = SubSeq(r.given, r.sent + 1, Len(r.given))
  PROVE  /\ InOrder(r, SubSeq(w, 1, n), cut)
         /\ ~cut /\ ~r.split =>
              SubSeq(w, n + 1, Len(w)) = SubSeq(r.given, r.sent + n + 1, Len(r.given))
<1> DEFINE g == r.given
           t == r.sent
           b == SubSeq(w, 1, n)
<1>1. g \in Bytes /\ t \in Nat /\ t <= Len(g) BY DEF SocketType
<1>2. Len(b) = n BY FirstIs
<1>3. ASSUME ~cut, ~r.split
      PROVE  b = SubSeq(g, t + 1, t + n) /\ SubSeq(w, n + 1, Len(w)) = SubSeq(g, t + n + 1, Len(g))
  <2>1. w = SubSeq(g, t + 1, Len(g)) BY <1>3
  <2> HIDE DEF g, t
  <2>2. QED BY <1>1, <2>1, PartsOfRest
<1>4. InOrder(r, b, cut) BY <1>2, <1>3 DEF InOrder
<1>5. QED BY <1>3, <1>4

\* write_exact's loop.
LEMMA WriteExactSendsStep == ASSUME IInv, NEW o \in Objects, WriteExactSends(o) PROVE IInv'
<1>0. /\ call[o].op = "write" /\ CanSend(fd[o]) /\ UNCHANGED <<serverVars, fd, temp, readable>>
      /\ buf' = buf
  BY DEF WriteExactSends, InCall, objectVars
<1>1. Count(o) /\ RestIs(o) BY DEF IInv
<1>2. /\ o \notin Async /\ fd[o] # None /\ call[o].left <= Len(call[o].bytes)
      /\ buf[o] = NoBytes
  BY <1>0, <1>1 DEF Count
<1>3. PICK s \in Sockets : s = fd[o] BY <1>2, EndOf
<1>4. /\ sock \in [Sockets -> SocketType] /\ buf \in [Objects -> Bytes]
      /\ call \in [Objects -> CallType] /\ sock[s] \in SocketType
      /\ sock[s].sent <= Len(sock[s].given) /\ call[o] \in CallType
      /\ sock[s].sent \in Nat /\ Len(sock[s].given) \in Nat
      /\ KernelSound(sock) /\ QueueFaithful(sock)
  BY <1>2, <1>3, EndOf DEF IInv
<1>5. PICK c \in [op : {"write"}, bytes : Bytes, left : Nat \ {0}] : c = call[o]
  BY <1>0, <1>4 DEF CallType, Idle
<1>6. c.bytes \in Bytes /\ c.left \in Nat \ {0} /\ c.left <= Len(c.bytes) /\ Len(c.bytes) \in Nat
  BY <1>2, <1>5, BytesLen
<1>7. PICK n \in 1..c.left :
        /\ n <= Room(s)
        /\ sock' = IF c.left - n = 0 THEN Sent(sock, s, SubSeq(c.bytes, 1, n))
                   ELSE Split(Sent(sock, s, SubSeq(c.bytes, 1, n)), s)
        /\ IF c.left - n = 0 THEN Ends(o) ELSE call' = [call EXCEPT ![o].left = c.left - n]
  BY <1>3, <1>5 DEF WriteExactSends
<1> DEFINE b == SubSeq(c.bytes, 1, n)
           cut == (c.left - n # 0)
<1>8. n \in Nat /\ n <= c.left /\ n <= Len(c.bytes) /\ cut \in BOOLEAN BY <1>6
<1>9. b \in Bytes /\ Len(b) = n BY <1>6, <1>8, FirstIs
<1>10. sock' = Sending(sock, s, b, cut) BY <1>7 DEF Sending
<1>11. PICK d \in CallType : /\ call' = [call EXCEPT ![o] = d]
                             /\ cut => /\ d.op = "write" /\ d.left = c.left - n /\ d.bytes = c.bytes
                             /\ ~cut => d.op = "none"
  <2>1. CASE cut
    <3>1. c.left - n \in Nat \ {0} BY <1>6, <1>8, <2>1
    <3> DEFINE d == [c EXCEPT !.left = c.left - n]
    <3>2. /\ d \in [op : {"write"}, bytes : Bytes, left : Nat \ {0}] /\ d.left = c.left - n
          /\ d.bytes = c.bytes /\ d.op = "write"
      BY <3>1
    <3>3. call' = [call EXCEPT ![o] = d] BY <1>5, <1>7, <2>1
    <3> HIDE DEF d
    <3>4. d \in CallType BY <3>2 DEF CallType
    <3>5. QED BY <2>1, <3>2, <3>3, <3>4
  <2>2. CASE ~cut
    <3>1. call' = [call EXCEPT ![o] = Idle] BY <1>7, <2>2 DEF Ends
    <3>2. Idle \in CallType /\ Idle.op = "none" BY DEF CallType, Idle
    <3>3. QED BY <2>2, <3>1, <3>2
  <2>3. QED BY <2>1, <2>2
<1>12. call'[o] = d /\ call' \in [Objects -> CallType] /\ \A q \in Objects : q # o => call'[q] = call[q]
  BY <1>4, <1>11
<1>13. ASSUME sock[s].peer # None
       PROVE  /\ sock[s].sent + Len(b) <= Len(sock[s].given) /\ InOrder(sock[s], b, cut)
              /\ Remains(o, sock[s], b, cut, buf'[o], call'[o])
  <2>1. sock[s].sent + c.left = Len(sock[s].given)
    BY <1>0, <1>1, <1>2, <1>3, <1>5, <1>13 DEF Count, Waits
  <2>2. ~sock[s].split => c.bytes = SubSeq(sock[s].given, sock[s].sent + 1, Len(sock[s].given))
    BY <1>0, <1>1, <1>2, <1>3, <1>5, <1>13 DEF RestIs, Waits, Rest
  <2>3. InOrder(sock[s], b, cut) BY <1>4, <1>6, <1>8, <2>2, PartInOrder
  <2>4. sock[s].sent + Len(b) <= Len(sock[s].given) BY <1>4, <1>6, <1>8, <1>9, <2>1
  <2>5. ~cut => sock[s].sent + Len(b) = Len(sock[s].given)
    <3>1. SUFFICES ASSUME c.left - n = 0 PROVE sock[s].sent + Len(b) = Len(sock[s].given) OBVIOUS
    <3>2. c.left = n BY <1>6, <1>8, <3>1
    <3>3. QED BY <1>9, <2>1, <3>2
  <2>6. cut => sock[s].sent + Len(b) + d.left = Len(sock[s].given)
    <3>1. SUFFICES ASSUME cut PROVE sock[s].sent + Len(b) + d.left = Len(sock[s].given) OBVIOUS
    <3>2. d.left = c.left - n BY <1>11, <3>1
    <3>3. QED BY <1>4, <1>6, <1>8, <1>9, <2>1, <3>2
  <2> HIDE DEF b, cut
  <2>7. Remains(o, sock[s], b, cut, buf'[o], call'[o])
    BY <1>2, <1>8, <1>11, <1>12, <2>5, <2>6 DEF Remains
  <2>8. QED BY <2>3, <2>4, <2>7
<1>14. call'[o].op \in {"none", "write"} /\ (call'[o].op = "write" => call'[o].left <= Len(call'[o].bytes))
  <2>1. cut => d.left <= Len(d.bytes)
    <3>1. c.left - n <= Len(c.bytes) BY <1>6, <1>8
    <3>2. QED BY <1>11, <3>1
  <2>2. QED BY <1>8, <1>11, <1>12, <2>1
<1> HIDE DEF b, cut
<1>15. /\ buf' \in [Objects -> Bytes] /\ buf'[o] = NoBytes /\ call[o].op # "connect"
       /\ \A q \in Objects : q # o => buf'[q] = buf[q] /\ call'[q] = call[q]
       /\ UNCHANGED <<serverVars, fd, temp, readable>>
  BY <1>0, <1>2, <1>4, <1>12
<1>16. Len(b) <= Room(s) /\ CanSend(s) /\ s # None BY <1>0, <1>2, <1>3, <1>7, <1>9
<1>17. QED BY <1>2, <1>3, <1>4, <1>8, <1>9, <1>10, <1>12, <1>13, <1>14, <1>15, <1>16, SendStep

\* write_from_io_buff.
LEMMA WriteFromBufferStep ==
  ASSUME IInv, NEW o \in Objects, NEW len \in 1..MaxLen, WriteFromBuffer(o, len) PROVE IInv'
<1>0. /\ o \in Async /\ call[o].op = "none" /\ fd[o] # None /\ len <= Len(buf[o]) /\ CanSend(fd[o])
      /\ UNCHANGED <<serverVars, fd, temp, readable>> /\ call' = call
      /\ buf' = [buf EXCEPT ![o] = SubSeq(buf[o], len + 1, Len(buf[o]))]
  BY DEF WriteFromBuffer, IsIdle, Idle
<1>1. Count(o) /\ RestIs(o) BY DEF IInv
<1>2. PICK s \in Sockets : s = fd[o] BY <1>0, EndOf
<1>3. /\ sock \in [Sockets -> SocketType] /\ buf \in [Objects -> Bytes]
      /\ call \in [Objects -> CallType] /\ sock[s] \in SocketType
      /\ sock[s].sent <= Len(sock[s].given) /\ buf[o] \in Bytes /\ Len(buf[o]) \in Nat
      /\ sock[s].sent \in Nat /\ Len(sock[s].given) \in Nat
      /\ KernelSound(sock) /\ QueueFaithful(sock)
  BY <1>0, <1>2, EndOf DEF IInv
<1>4. PICK n \in 1..len :
        /\ n <= Room(s)
        /\ sock' = IF n < len THEN Split(Sent(sock, s, SubSeq(buf[o], 1, n)), s)
                   ELSE Sent(sock, s, SubSeq(buf[o], 1, n))
  BY <1>2 DEF WriteFromBuffer
<1> DEFINE b == SubSeq(buf[o], 1, n)
           w == SubSeq(buf[o], len + 1, Len(buf[o]))
           cut == (n < len)
<1>5. len \in Nat /\ n \in Nat /\ n <= len /\ n <= Len(buf[o]) /\ cut \in BOOLEAN
  <2>1. MaxLen \in Nat BY SizesAssumption
  <2>2. len \in Nat BY <2>1
  <2>3. n \in Nat /\ n <= len BY <2>2
  <2>4. QED BY <1>0, <1>3, <2>2, <2>3
<1>6. b \in Bytes /\ Len(b) = n BY <1>3, <1>5, FirstIs
<1>7. w \in Bytes /\ Len(w) = Len(buf[o]) - len BY <1>0, <1>3, <1>5, LastIs
<1>8. sock' = Sending(sock, s, b, cut) BY <1>4 DEF Sending
<1>9. buf'[o] = w /\ buf' \in [Objects -> Bytes] /\ \A q \in Objects : q # o => buf'[q] = buf[q]
  <2> HIDE DEF w
  <2>1. buf' = [buf EXCEPT ![o] = w] BY <1>0 DEF w
  <2>2. QED BY <1>3, <1>7, <2>1
<1>10. ASSUME sock[s].peer # None
       PROVE  /\ sock[s].sent + Len(b) <= Len(sock[s].given) /\ InOrder(sock[s], b, cut)
              /\ Remains(o, sock[s], b, cut, buf'[o], call'[o])
  <2>1. sock[s].sent + Len(buf[o]) <= Len(sock[s].given)
    BY <1>0, <1>1, <1>2, <1>10 DEF Count, Waits
  <2>2. ~sock[s].split => buf[o] = SubSeq(sock[s].given, sock[s].sent + 1, Len(sock[s].given))
    BY <1>0, <1>1, <1>2, <1>10 DEF RestIs, Waits, Rest
  <2>3. /\ InOrder(sock[s], b, cut)
        /\ ~cut /\ ~sock[s].split =>
             SubSeq(buf[o], n + 1, Len(buf[o])) =
               SubSeq(sock[s].given, sock[s].sent + n + 1, Len(sock[s].given))
    BY <1>3, <1>5, <2>2, PartInOrder
  <2>4. sock[s].sent + Len(b) <= Len(sock[s].given) BY <1>3, <1>5, <1>6, <2>1
  <2>5. sock[s].sent + Len(b) + Len(w) <= Len(sock[s].given)
    <3>1. n + (Len(buf[o]) - len) <= Len(buf[o]) BY <1>3, <1>5
    <3>2. Len(b) = n /\ Len(w) = Len(buf[o]) - len BY <1>6, <1>7
    <3> HIDE DEF b, w
    <3>3. QED BY <1>3, <1>5, <2>1, <3>1, <3>2
  <2>6. ~cut /\ ~sock[s].split =>
          w = SubSeq(sock[s].given, sock[s].sent + Len(b) + 1, Len(sock[s].given))
    <3>1. ~cut => n = len BY <1>5
    <3>2. QED BY <1>6, <2>3, <3>1
  <2> HIDE DEF b, w, cut
  <2>7. Remains(o, sock[s], b, cut, buf'[o], call'[o])
    BY <1>0, <1>9, <2>5, <2>6 DEF Remains
  <2>8. QED BY <2>3, <2>4, <2>7
<1> HIDE DEF b, w, cut
<1>11. /\ call' \in [Objects -> CallType] /\ call[o].op # "connect" /\ call'[o].op = "none"
       /\ \A q \in Objects : q # o => buf'[q] = buf[q] /\ call'[q] = call[q]
       /\ UNCHANGED <<serverVars, fd, temp, readable>>
  BY <1>0, <1>3, <1>9
<1>12. Len(b) <= Room(s) /\ CanSend(s) /\ s # None BY <1>0, <1>2, <1>4, <1>6
<1>13. call'[o].op \in {"none", "write"} /\ call'[o].op # "write" /\ o \in Async BY <1>0, <1>11
<1>14. QED BY <1>0, <1>2, <1>3, <1>5, <1>6, <1>8, <1>9, <1>10, <1>11, <1>12, <1>13, SendStep, ZenonT(60)

(***************************************************************************)
(* Descriptors are opened, moved and closed                                *)
(***************************************************************************)
\* A descriptor, if there is one, is closed.
LEMMA ClosedOthers ==
  ASSUME NEW g \in [Sockets -> SocketType], KernelSound(g), QueueFaithful(g),
         NEW s \in Sockets \cup {None}, NEW tt, tt = Closed(g, s)
  PROVE  /\ tt \in [Sockets -> SocketType] /\ KernelSound(tt) /\ QueueFaithful(tt)
         /\ s # None => tt[s] = FreeSock
         /\ \A e \in Sockets : e # s => Other(tt[e], g[e])
         /\ \A e \in Sockets : e # s /\ g[e].peer # s => tt[e] = g[e]
<1>1. CASE s = None
  <2>1. tt = g BY <1>1 DEF Closed
  <2>2. QED BY <1>1, <2>1 DEF Other
<1>2. CASE s # None
  <2>1. s \in Sockets BY <1>2
  <2>2. /\ tt \in [Sockets -> SocketType] /\ KernelSound(tt) /\ QueueFaithful(tt)
        /\ tt[s] = FreeSock
        /\ \A e \in Sockets \ {s} :
             \/ tt[e] = g[e]
             \/ /\ g[e].peer = s /\ g[e].state = "up" /\ ~g[e].fin
                /\ tt[e].state \in {"up", "dead"} /\ tt[e].peer = None
                /\ tt[e].given = NoBytes /\ ~tt[e].split
    BY <2>1, ClosedSound
  <2>3. ASSUME NEW e \in Sockets, e # s
        PROVE  Other(tt[e], g[e]) /\ (g[e].peer # s => tt[e] = g[e])
    <3>1. CASE tt[e] = g[e] BY <3>1 DEF Other
    <3>2. CASE tt[e] # g[e] BY <2>2, <2>3, <3>2 DEF Other
    <3>3. QED BY <3>1, <3>2
  <2>4. QED BY <2>2, <2>3
<1>3. QED BY <1>1, <1>2

\* The ends of the backlog, before a step.
LEMMA BacklogTyped ==
  ASSUME IInv
  PROVE  /\ backlog \in Seq(Sockets) /\ Len(backlog) \in Nat /\ DOMAIN backlog = 1..Len(backlog)
         /\ \A i \in DOMAIN backlog : backlog[i] \in Sockets
<1>1. backlog \in Seq(Sockets) BY DEF IInv, Shapes
<1>2. QED BY <1>1, ElementOfSeq, LenProperties

\* Who owns the ends of g, and what the backlog is, when t is moved into an object.
NotOwned(g, t) == \A q \in Objects : fd[q] # t /\ (fd[q] # None => g[fd[q]] = sock[fd[q]])
NotTouched(t) ==
  \A q \in Objects : fd[q] # t /\ (fd[q] # None => Other(sock'[fd[q]], sock[fd[q]]))
BacklogAfter(g, t) ==
  /\ backlog' \in Seq(Sockets)
  /\ \A i \in DOMAIN backlog' :
       /\ g[backlog'[i]].state \in {"up", "dead"} /\ g[backlog'[i]].given = NoBytes
       /\ ~g[backlog'[i]].split /\ backlog'[i] # t
       /\ \A q \in Objects : fd[q] # backlog'[i]
  /\ \A i, j \in DOMAIN backlog' : backlog'[i] = backlog'[j] => i = j
TempsAfter(g) ==
  /\ temp' \in [Objects -> Sockets \cup {None}]
  /\ \A q \in Objects :
       /\ temp'[q] # None => g[temp'[q]].state = "new"
       /\ temp'[q] # None <=> call'[q].op = "connect"
       /\ \A p \in Objects : temp'[q] = temp'[p] /\ temp'[q] # None => q = p
AllOwned(g, t) ==
  \A e \in Sockets : g[e].state # "free" =>
    \/ e = t \/ \E q \in Objects : fd[q] = e \/ temp'[q] = e
    \/ \E i \in DOMAIN backlog' : backlog'[i] = e

\* A new end, of which g tells everything, is moved into an object; the old one is closed.
LEMMA MovedStep ==
  ASSUME IInv, NEW o \in Objects, NEW t \in Sockets,
         NEW g \in [Sockets -> SocketType], KernelSound(g), QueueFaithful(g),
         g[t].state \notin {"free", "new"}, g[t].given = NoBytes,
         Moved(o, g, t), listening' = listening, NotOwned(g, t), BacklogAfter(g, t),
         TempsAfter(g), AllOwned(g, t),
         call' = [call EXCEPT ![o] = Idle]
  PROVE  IInv'
<1>1. Shapes /\ Owned BY DEF IInv
<1>0. /\ \A q \in Objects : fd[q] # t /\ (fd[q] # None => g[fd[q]] = sock[fd[q]])
      /\ backlog' \in Seq(Sockets)
      /\ \A i \in DOMAIN backlog' :
           /\ g[backlog'[i]].state \in {"up", "dead"} /\ g[backlog'[i]].given = NoBytes
           /\ ~g[backlog'[i]].split /\ backlog'[i] # t
           /\ \A q \in Objects : fd[q] # backlog'[i]
      /\ \A i, j \in DOMAIN backlog' : backlog'[i] = backlog'[j] => i = j
      /\ temp' \in [Objects -> Sockets \cup {None}]
      /\ \A q \in Objects :
           /\ temp'[q] # None => g[temp'[q]].state = "new"
           /\ temp'[q] # None <=> call'[q].op = "connect"
           /\ \A p \in Objects : temp'[q] = temp'[p] /\ temp'[q] # None => q = p
      /\ \A e \in Sockets : g[e].state # "free" =>
           \/ e = t \/ \E q \in Objects : fd[q] = e \/ temp'[q] = e
           \/ \E i \in DOMAIN backlog' : backlog'[i] = e
  BY DEF NotOwned, BacklogAfter, TempsAfter, AllOwned
<1>2. /\ fd \in [Objects -> Sockets \cup {None}] /\ buf \in [Objects -> Bytes]
      /\ readable \in [Objects -> BOOLEAN] /\ call \in [Objects -> CallType] /\ t # None
  BY <1>1, SizesAssumption DEF Shapes
<1>3. /\ sock' = Closed(g, fd[o]) /\ fd' = [fd EXCEPT ![o] = t]
      /\ buf' = [buf EXCEPT ![o] = NoBytes] /\ readable' = [readable EXCEPT ![o] = TRUE]
  BY DEF Moved
<1>4. /\ fd'[o] = t /\ buf'[o] = NoBytes /\ readable'[o] = TRUE /\ call'[o] = Idle
      /\ \A q \in Objects : q # o => /\ fd'[q] = fd[q] /\ buf'[q] = buf[q]
                                     /\ readable'[q] = readable[q] /\ call'[q] = call[q]
  BY <1>2, <1>3
<1>5. /\ sock' \in [Sockets -> SocketType] /\ KernelSound(sock') /\ QueueFaithful(sock')
      /\ fd[o] # None => sock'[fd[o]] = FreeSock
      /\ \A e \in Sockets : e # fd[o] => Other(sock'[e], g[e])
  BY <1>2, <1>3, ClosedOthers
<1>6. \A e \in Sockets : e # fd[o] => /\ sock'[e].state = "free" <=> g[e].state = "free"
                                      /\ sock'[e].state = "new" <=> g[e].state = "new"
  BY <1>5, OtherStates
<1>7. Shapes'
  <2>1. Idle \in CallType /\ NoBytes \in Bytes BY NoBytesAre DEF CallType
  <2>2. QED BY <1>0, <1>1, <1>2, <1>3, <1>5, <2>1 DEF Shapes
<1>8. \A i \in DOMAIN backlog' : backlog'[i] \in Sockets /\ backlog'[i] # fd[o]
  BY <1>0, ElementOfSeq, LenProperties
<1>9. BacklogFresh'
  <2>1. ASSUME NEW i \in DOMAIN backlog'
        PROVE  /\ sock'[backlog'[i]].state \in {"up", "dead"}
               /\ sock'[backlog'[i]].given = NoBytes /\ ~sock'[backlog'[i]].split
    <3>1. PICK e \in Sockets : e = backlog'[i] /\ e # fd[o] BY <1>8
    <3>2. g[e].state \in {"up", "dead"} /\ g[e].given = NoBytes /\ ~g[e].split BY <1>0, <3>1
    <3>3. Other(sock'[e], g[e]) BY <1>0, <1>5, <3>1
    <3>4. QED BY <1>0, <3>1, <3>2, <3>3 DEF Other
  <2>2. QED BY <2>1 DEF BacklogFresh
<1>10. Owned'
  <2>1. ASSUME NEW q \in Objects
        PROVE  /\ fd'[q] # None => sock'[fd'[q]].state \notin {"free", "new"}
               /\ temp'[q] # None => sock'[temp'[q]].state = "new"
               /\ temp'[q] # None <=> call'[q].op = "connect"
               /\ \A p \in Objects : fd'[q] = fd'[p] /\ fd'[q] # None => q = p
               /\ \A p \in Objects : temp'[q] = temp'[p] /\ temp'[q] # None => q = p
               /\ \A i \in DOMAIN backlog' : fd'[q] # backlog'[i]
    <3>1. fd'[q] # None => sock'[fd'[q]].state \notin {"free", "new"}
      <4>1. CASE q = o
        <5>1. t # fd[o] BY <1>0
        <5>2. QED BY <1>4, <1>6, <4>1, <5>1
      <4>2. CASE q # o
        <5>1. fd[q] # None => /\ fd[q] \in Sockets /\ fd[q] # fd[o]
                              /\ sock[fd[q]].state \notin {"free", "new"}
          BY <1>1, <1>2, <4>2 DEF Owned
        <5>2. QED BY <1>0, <1>4, <1>6, <4>2, <5>1
      <4>3. QED BY <1>0, <4>1, <4>2
    <3>2. temp'[q] # None => sock'[temp'[q]].state = "new"
      <4>1. SUFFICES ASSUME temp'[q] # None PROVE sock'[temp'[q]].state = "new" OBVIOUS
      <4>2. PICK e \in Sockets : e = temp'[q] /\ g[e].state = "new" BY <1>0, <4>1
      <4>3. e # fd[o]
        <5>1. fd[o] # None => g[fd[o]].state # "new" BY <1>0, <1>1 DEF Owned
        <5>2. QED BY <1>0, <4>2, <5>1, SizesAssumption
      <4>4. QED BY <1>0, <1>6, <4>2, <4>3
    <3>3. \A p \in Objects : fd'[q] = fd'[p] /\ fd'[q] # None => q = p
      <4>1. \A p \in Objects : fd[q] = fd[p] /\ fd[q] # None => q = p BY <1>1 DEF Owned
      <4>2. QED BY <1>0, <1>4, <4>1
    <3>4. \A i \in DOMAIN backlog' : fd'[q] # backlog'[i] BY <1>0, <1>4
    <3>5. QED BY <1>0, <3>1, <3>2, <3>3, <3>4
  <2>2. ASSUME NEW e \in Sockets, sock'[e].state # "free"
        PROVE  \/ \E q \in Objects : fd'[q] = e \/ temp'[q] = e
               \/ \E i \in DOMAIN backlog' : backlog'[i] = e
    <3>1. e # fd[o] BY <1>5, <2>2, FreeTyped, SizesAssumption
    <3>2. g[e].state # "free" BY <1>6, <2>2, <3>1
    <3>3. CASE e = t BY <1>4, <3>3
    <3>4. ASSUME NEW q \in Objects, fd[q] = e PROVE \E p \in Objects : fd'[p] = e
      BY <1>4, <3>1, <3>4
    <3>5. QED BY <1>0, <3>2, <3>3, <3>4
  <2>3. QED BY <1>0, <2>1, <2>2 DEF Owned
<1>11. ASSUME NEW q \in Objects PROVE Count(q)' /\ RestIs(q)' /\ EofOf(q)'
  <2>1. CASE q = o
    <3>1. Other(sock'[t], g[t]) BY <1>0, <1>5
    <3>2. sock'[t].given = NoBytes BY <1>0, <3>1 DEF Other
    <3>3. sock'[t].sent = 0 /\ Len(NoBytes) = 0 /\ sock'[t].sent \in Nat
      <4>1. sock'[t].sent \in Nat BY <1>5 DEF SocketType
      <4>2. Len(NoBytes) = 0 BY NoBytesAre
      <4>3. sock'[t].sent <= Len(sock'[t].given) BY <1>5 DEF KernelSound
      <4>4. QED BY <3>2, <4>1, <4>2, <4>3
    <3>4. Count(o)' BY <1>4, <3>2, <3>3 DEF Count, Idle
    <3>5. RestIs(o)'
      <4>1. SubSeq(sock'[t].given, 1, 0) = NoBytes BY SubSeqEmpty DEF NoBytes
      <4>2. Rest(t)' = NoBytes BY <3>2, <3>3, <4>1 DEF Rest
      <4>3. QED BY <1>4, <4>2 DEF RestIs, Idle
    <3>6. EofOf(o)' BY <1>4 DEF EofOf
    <3>7. QED BY <2>1, <3>4, <3>5, <3>6
  <2>2. CASE q # o
    <3>1. fd[q] # None => Other(sock'[fd[q]], sock[fd[q]])
      <4>1. fd[q] # None => /\ fd[q] \in Sockets /\ fd[q] # fd[o] /\ g[fd[q]] = sock[fd[q]]
        BY <1>0, <1>1, <1>2, <2>2 DEF Owned
      <4>2. QED BY <1>0, <1>5, <4>1
    <3>2. QED BY <1>0, <1>4, <2>2, <3>1, ObjectKept
  <2>3. QED BY <2>1, <2>2
<1>12. QED BY <1>5, <1>7, <1>9, <1>10, <1>11 DEF IInv

\* The descriptor of the object that connect is making.
LEMMA TempIs ==
  ASSUME IInv, NEW o \in Objects, call[o].op = "connect"
  PROVE  /\ temp[o] \in Sockets /\ sock[temp[o]].state = "new" /\ sock[temp[o]].peer = None
         /\ sock[temp[o]].given = NoBytes /\ sock[temp[o]].sent = 0
         /\ \A q \in Objects : fd[q] # temp[o]
         /\ \A i \in DOMAIN backlog : backlog[i] # temp[o]
         /\ \A e \in Sockets : sock[e].peer # temp[o]
<1>1. Shapes /\ Owned /\ KernelSound(sock) /\ BacklogFresh BY DEF IInv
<1>2. PICK t \in Sockets : t = temp[o] /\ sock[t].state = "new" BY <1>1 DEF Shapes, Owned
<1>3. t # None /\ sock[t].peer = None /\ sock[t].given = NoBytes /\ sock[t].sent = 0
  BY <1>1, <1>2, SizesAssumption DEF KernelSound
<1>4. \A q \in Objects : fd[q] # t BY <1>1, <1>2, <1>3 DEF Owned
<1>5. \A i \in DOMAIN backlog : backlog[i] # t BY <1>1, <1>2 DEF BacklogFresh
<1>6. ASSUME NEW e \in Sockets PROVE sock[e].peer # t
  <2>1. sock[e].peer = t => sock[t].peer = e BY <1>1, <1>3 DEF KernelSound
  <2>2. e # None BY SizesAssumption
  <2>3. QED BY <1>3, <2>1, <2>2
<1>7. QED BY <1>2, <1>3, <1>4, <1>5, <1>6

\* What objects and backlog own has another state than a new or free descriptor has.
LEMMA OwnedStates ==
  ASSUME IInv
  PROVE  /\ \A q \in Objects : fd[q] # None =>
              fd[q] \in Sockets /\ sock[fd[q]].state \notin {"free", "new"}
         /\ \A q \in Objects : temp[q] # None => temp[q] \in Sockets /\ sock[temp[q]].state = "new"
         /\ \A i \in DOMAIN backlog :
              /\ backlog[i] \in Sockets /\ sock[backlog[i]].state \in {"up", "dead"}
              /\ sock[backlog[i]].given = NoBytes /\ ~sock[backlog[i]].split
         /\ fd \in [Objects -> Sockets \cup {None}] /\ temp \in [Objects -> Sockets \cup {None}]
         /\ call \in [Objects -> CallType] /\ sock \in [Sockets -> SocketType]
         /\ KernelSound(sock) /\ QueueFaithful(sock)
BY BacklogTyped DEF IInv, Shapes, Owned, BacklogFresh

\* The members of temp after the call of o has ended.
LEMMA TempAfter ==
  ASSUME IInv, NEW o \in Objects, temp' = [temp EXCEPT ![o] = None],
         call' = [call EXCEPT ![o] = Idle]
  PROVE  /\ temp' \in [Objects -> Sockets \cup {None}] /\ temp'[o] = None
         /\ \A q \in Objects : q # o => temp'[q] = temp[q]
         /\ \A q \in Objects :
              /\ temp'[q] # None <=> call'[q].op = "connect"
              /\ \A p \in Objects : temp'[q] = temp'[p] /\ temp'[q] # None => q = p
<1>1. /\ temp \in [Objects -> Sockets \cup {None}] /\ call \in [Objects -> CallType] /\ Owned
  BY OwnedStates DEF IInv
<1>2. /\ temp' \in [Objects -> Sockets \cup {None}] /\ temp'[o] = None /\ call'[o].op = "none"
      /\ \A q \in Objects : q # o => temp'[q] = temp[q] /\ call'[q] = call[q]
  BY <1>1 DEF Idle
<1>3. \A q \in Objects : /\ temp[q] # None <=> call[q].op = "connect"
                         /\ \A p \in Objects : temp[q] = temp[p] /\ temp[q] # None => q = p
  BY <1>1 DEF Owned
<1>4. QED BY <1>2, <1>3

\* connect returns EINPROGRESS.
LEMMA InProgressStep == ASSUME IInv, NEW o \in Objects, InProgress(o) PROVE IInv'
<1> DEFINE g == [sock EXCEPT ![temp[o]].state = "connecting"]
<1>0. /\ call[o].op = "connect" /\ Moved(o, g, temp[o]) /\ temp' = [temp EXCEPT ![o] = None]
      /\ call' = [call EXCEPT ![o] = Idle] /\ listening' = listening /\ backlog' = backlog
  BY DEF InProgress, InCall, Made, Ends, serverVars
<1>1. PICK t \in Sockets : t = temp[o] BY <1>0, TempIs
<1>2. /\ sock[t].state = "new" /\ sock[t].peer = None /\ sock[t].given = NoBytes
      /\ sock[t].sent = 0
      /\ \A q \in Objects : fd[q] # t
      /\ \A i \in DOMAIN backlog : backlog[i] # t
      /\ \A e \in Sockets : sock[e].peer # t
  BY <1>0, <1>1, TempIs
<1>3. /\ sock \in [Sockets -> SocketType] /\ KernelSound(sock) /\ QueueFaithful(sock) BY OwnedStates
<1> DEFINE r == [sock[t] EXCEPT !.state = "connecting"]
<1>4. /\ r \in SocketType /\ r.state = "connecting" /\ r.peer = None /\ r.queue = sock[t].queue
      /\ r.fin = sock[t].fin /\ r.given = NoBytes /\ r.sent = 0 /\ r.split = sock[t].split
  BY <1>2, <1>3 DEF SocketType, SocketStates
<1>5. g = [sock EXCEPT ![t] = r] BY <1>1
<1> HIDE DEF r
<1>6. g \in [Sockets -> SocketType] /\ g[t] = r /\ \A e \in Sockets : e # t => g[e] = sock[e]
  BY <1>3, <1>4, <1>5
<1> HIDE DEF g
<1>7. \A e \in Sockets : sock[e].peer # None => /\ e # t /\ g[e] = sock[e]
                                                /\ sock[e].peer \in Sockets /\ sock[e].peer # t
                                                /\ g[sock[e].peer] = sock[sock[e].peer]
  <2>1. \A e \in Sockets : sock[e].peer \in Sockets \cup {None} BY <1>3 DEF SocketType
  <2>2. QED BY <1>2, <1>6, <2>1
<1>8. KernelSound(g)
  <2>1. ASSUME NEW e \in Sockets
        PROVE  /\ g[e].state = "free" => g[e] = FreeSock
               /\ g[e].state \in {"new", "connecting"} =>
                    g[e].peer = None /\ g[e].queue = NoBytes /\ ~g[e].fin /\ ~g[e].split
               /\ g[e].state = "new" => g[e].given = NoBytes
               /\ g[e].peer # None =>
                    /\ g[e].peer # e /\ g[e].state = "up" /\ ~g[e].fin /\ g[g[e].peer].peer = e
                    /\ Len(g[g[e].peer].queue) <= g[e].sent
               /\ Len(g[e].queue) <= QueueCap
               /\ g[e].sent <= Len(g[e].given) /\ (g[e].peer = None => g[e].sent = 0)
    <3>1. CASE e = t
      <4>1. sock[t].queue = NoBytes /\ ~sock[t].fin /\ ~sock[t].split BY <1>2, <1>3 DEF KernelSound
      <4>2. Len(NoBytes) = 0 /\ 0 <= QueueCap BY NoBytesAre, SizesAssumption
      <4>3. QED BY <1>4, <1>6, <3>1, <4>1, <4>2
    <3>2. CASE e # t
      <4>1. g[e] = sock[e] BY <1>6, <3>2
      <4>2. g[e].peer # None => g[g[e].peer] = sock[sock[e].peer] BY <1>7, <4>1
      <4>3. QED BY <1>3, <4>1, <4>2 DEF KernelSound
    <3>3. QED BY <3>1, <3>2
  <2>2. QED BY <2>1 DEF KernelSound
<1>9. QueueFaithful(g)
  <2>1. ASSUME NEW e \in Sockets, g[e].peer # None
        PROVE  g[e] = sock[e] /\ g[g[e].peer] = sock[sock[e].peer]
    BY <1>4, <1>6, <1>7, <2>1
  <2>2. QED BY <1>3, <2>1 DEF QueueFaithful
<1>10. \A q \in Objects : fd[q] # t /\ (fd[q] # None => g[fd[q]] = sock[fd[q]])
  BY <1>2, <1>6, OwnedStates
<1>11. ASSUME NEW i \in DOMAIN backlog'
       PROVE  /\ g[backlog'[i]].state \in {"up", "dead"} /\ g[backlog'[i]].given = NoBytes
              /\ ~g[backlog'[i]].split /\ backlog'[i] # t
              /\ \A q \in Objects : fd[q] # backlog'[i]
  <2>1. PICK e \in Sockets : e = backlog'[i] /\ e = backlog[i] /\ e # t
    BY <1>0, <1>2, OwnedStates
  <2>2. g[e] = sock[e] BY <1>6, <2>1
  <2>3. sock[e].state \in {"up", "dead"} /\ sock[e].given = NoBytes /\ ~sock[e].split
    BY <1>0, <2>1, OwnedStates
  <2>4. \A q \in Objects : fd[q] # e BY <1>0, <2>1 DEF IInv, Owned
  <2>5. QED BY <2>1, <2>2, <2>3, <2>4
<1>12. backlog' \in Seq(Sockets) /\ \A i, j \in DOMAIN backlog' : backlog'[i] = backlog'[j] => i = j
  BY <1>0, BacklogTyped DEF IInv, Owned
<1>13. /\ temp' \in [Objects -> Sockets \cup {None}] /\ temp'[o] = None
       /\ \A q \in Objects : q # o => temp'[q] = temp[q]
       /\ \A q \in Objects :
            /\ temp'[q] # None <=> call'[q].op = "connect"
            /\ \A p \in Objects : temp'[q] = temp'[p] /\ temp'[q] # None => q = p
  BY <1>0, TempAfter
<1>14. ASSUME NEW q \in Objects, temp'[q] # None PROVE g[temp'[q]].state = "new"
  <2>1. q # o /\ temp'[q] = temp[q] BY <1>13, <1>14
  <2>2. temp[q] \in Sockets /\ sock[temp[q]].state = "new" BY <1>14, <2>1, OwnedStates
  <2>3. temp[q] # t BY <1>1, <1>14, <2>1 DEF IInv, Owned
  <2>4. QED BY <1>6, <2>1, <2>2, <2>3
<1>15. ASSUME NEW e \in Sockets, g[e].state # "free"
       PROVE  \/ e = t \/ \E q \in Objects : fd[q] = e \/ temp'[q] = e
              \/ \E i \in DOMAIN backlog' : backlog'[i] = e
  <2>1. CASE e # t
    <3>1. sock[e].state # "free" BY <1>6, <1>15, <2>1
    <3>2. \/ \E q \in Objects : fd[q] = e \/ temp[q] = e
          \/ \E i \in DOMAIN backlog : backlog[i] = e
      BY <3>1 DEF IInv, Owned
    <3>3. \A q \in Objects : temp[q] = e => temp'[q] = e BY <1>1, <1>13, <2>1
    <3>4. QED BY <1>0, <3>2, <3>3
  <2>2. QED BY <2>1
<1>16. g[t].state \notin {"free", "new"} /\ g[t].given = NoBytes /\ Moved(o, g, t)
       /\ call' = [call EXCEPT ![o] = Idle] /\ listening' = listening
  BY <1>0, <1>1, <1>4, <1>6
<1>17. NotOwned(g, t) BY <1>10 DEF NotOwned
<1>18. BacklogAfter(g, t) BY <1>11, <1>12 DEF BacklogAfter
<1>19. TempsAfter(g) BY <1>13, <1>14 DEF TempsAfter
<1>20. AllOwned(g, t) BY <1>15 DEF AllOwned
<1>21. QED BY <1>6, <1>8, <1>9, <1>16, <1>17, <1>18, <1>19, <1>20, MovedStep

\* The server's end of a new connection waits in the backlog.
LEMMA JoinedIs ==
  ASSUME IInv, Free # {}, NEW s \in Sockets, sock[s].state \in {"new", "connecting"},
         NEW g, g = Joined(sock, s), backlog' = Append(backlog, Lowest)
  PROVE  /\ g \in [Sockets -> SocketType] /\ KernelSound(g) /\ QueueFaithful(g)
         /\ Lowest \in Sockets /\ Lowest # s /\ sock[Lowest].state = "free"
         /\ g[s].state = "up" /\ g[s].peer = Lowest /\ g[s].given = sock[s].given
         /\ g[s].sent = sock[s].sent /\ g[s].split = sock[s].split
         /\ g[Lowest].state = "up" /\ g[Lowest].peer = s /\ g[Lowest].given = NoBytes
         /\ ~g[Lowest].split
         /\ \A e \in Sockets : e # s /\ e # Lowest => g[e] = sock[e]
         /\ backlog' \in Seq(Sockets) /\ DOMAIN backlog' = 1..(Len(backlog) + 1)
         /\ \A i \in 1..(Len(backlog) + 1) :
              backlog'[i] = IF i <= Len(backlog) THEN backlog[i] ELSE Lowest
         /\ Len(backlog) \in Nat /\ DOMAIN backlog = 1..Len(backlog)
         /\ \A q \in Objects : fd[q] # Lowest /\ temp[q] # Lowest
         /\ \A i \in DOMAIN backlog : backlog[i] # Lowest
<1>1. PICK l \in Sockets : l = Lowest /\ sock[l].state = "free" /\ l # s BY LowestFree
<1>2. /\ g \in [Sockets -> SocketType] /\ KernelSound(g) /\ QueueFaithful(g)
      /\ g[s].state = "up" /\ g[s].peer = l /\ g[s].given = sock[s].given
      /\ g[s].sent = sock[s].sent /\ g[s].split = sock[s].split
      /\ g[l].state = "up" /\ g[l].peer = s /\ g[l].given = NoBytes /\ ~g[l].split
      /\ \A e \in Sockets : e # s /\ e # l => g[e] = sock[e]
  BY <1>1, JoinedSound
<1>5. /\ backlog \in Seq(Sockets) /\ Len(backlog) \in Nat /\ DOMAIN backlog = 1..Len(backlog)
      /\ \A i \in DOMAIN backlog : backlog[i] \in Sockets
  BY BacklogTyped
<1>6. /\ backlog' \in Seq(Sockets) /\ Len(backlog') = Len(backlog) + 1
      /\ \A i \in 1..Len(backlog) : backlog'[i] = backlog[i]
      /\ backlog'[Len(backlog) + 1] = l
  BY <1>1, <1>5, AppendProperties
<1>7. DOMAIN backlog' = 1..(Len(backlog) + 1) BY <1>6, LenProperties
<1>8. \A i \in 1..(Len(backlog) + 1) :
        backlog'[i] = IF i <= Len(backlog) THEN backlog[i] ELSE l
  <2>1. \A i \in 1..(Len(backlog) + 1) :
          (i <= Len(backlog) => i \in 1..Len(backlog)) /\ (~(i <= Len(backlog)) => i = Len(backlog) + 1)
    BY <1>5
  <2>2. QED BY <1>6, <2>1
<1>9. \A q \in Objects : fd[q] # l /\ temp[q] # l BY <1>1, OwnedStates, SizesAssumption
<1>10. \A i \in DOMAIN backlog : backlog[i] # l BY <1>1, OwnedStates
<1>11. QED BY <1>1, <1>2, <1>5, <1>6, <1>7, <1>8, <1>9, <1>10

\* The backlog after an end that nobody has was appended.
LEMMA Appended ==
  ASSUME IInv, NEW l \in Sockets, backlog' \in Seq(Sockets),
         DOMAIN backlog' = 1..(Len(backlog) + 1), Len(backlog) \in Nat,
         DOMAIN backlog = 1..Len(backlog),
         \A i \in 1..(Len(backlog) + 1) :
           backlog'[i] = IF i <= Len(backlog) THEN backlog[i] ELSE l,
         \A i \in DOMAIN backlog : backlog[i] # l
  PROVE  /\ \A i \in DOMAIN backlog' : backlog'[i] = l \/ \E j \in DOMAIN backlog : backlog'[i] = backlog[j]
         /\ \A j \in DOMAIN backlog : \E i \in DOMAIN backlog' : backlog'[i] = backlog[j]
         /\ \E i \in DOMAIN backlog' : backlog'[i] = l
         /\ \A i, j \in DOMAIN backlog' : backlog'[i] = backlog'[j] => i = j
<1> DEFINE n == Len(backlog)
<1>1. n \in Nat /\ DOMAIN backlog = 1..n /\ DOMAIN backlog' = 1..(n + 1)
      /\ \A i \in 1..(n + 1) : backlog'[i] = IF i <= n THEN backlog[i] ELSE l
  OBVIOUS
<1>2. \A i, j \in DOMAIN backlog : backlog[i] = backlog[j] => i = j BY DEF IInv, Owned
<1> HIDE DEF n
<1>3. \A i \in 1..(n + 1) : i \in 1..n \/ i = n + 1 BY <1>1
<1>4. \A i \in 1..n : i \in 1..(n + 1) /\ i <= n BY <1>1
<1>5. n + 1 \in 1..(n + 1) /\ ~(n + 1 <= n) BY <1>1
<1>6. \A i \in DOMAIN backlog' : backlog'[i] = l \/ \E j \in DOMAIN backlog : backlog'[i] = backlog[j]
  BY <1>1, <1>3, <1>4, <1>5
<1>7. \A j \in DOMAIN backlog : \E i \in DOMAIN backlog' : backlog'[i] = backlog[j]
  BY <1>1, <1>4
<1>8. \E i \in DOMAIN backlog' : backlog'[i] = l BY <1>1, <1>5
<1>9. ASSUME NEW i \in DOMAIN backlog', NEW j \in DOMAIN backlog', backlog'[i] = backlog'[j]
      PROVE  i = j
  <2>1. CASE i \in 1..n /\ j \in 1..n
    <3>1. backlog[i] = backlog[j] BY <1>1, <1>4, <1>9, <2>1
    <3>2. QED BY <1>1, <1>2, <2>1, <3>1
  <2>2. CASE i \in 1..n /\ j = n + 1
    <3>1. backlog[i] = l BY <1>1, <1>4, <1>5, <1>9, <2>2
    <3>2. QED BY <1>1, <2>2, <3>1
  <2>3. CASE i = n + 1 /\ j \in 1..n
    <3>1. backlog[j] = l BY <1>1, <1>4, <1>5, <1>9, <2>3
    <3>2. QED BY <1>1, <2>3, <3>1
  <2>4. QED BY <1>1, <1>3, <1>9, <2>1, <2>2, <2>3
<1>10. QED BY <1>6, <1>7, <1>8, <1>9

\* connect succeeds at once.
LEMMA HandshakeStep == ASSUME IInv, NEW o \in Objects, Handshake(o) PROVE IInv'
<1> DEFINE g == Joined(sock, temp[o])
<1>0. /\ call[o].op = "connect" /\ Moved(o, g, temp[o]) /\ temp' = [temp EXCEPT ![o] = None]
      /\ call' = [call EXCEPT ![o] = Idle] /\ listening' = listening
      /\ backlog' = Append(backlog, Lowest) /\ Free # {}
  BY DEF Handshake, InCall, Made, Ends, CanConnect
<1> HIDE DEF g
<1>1. PICK t \in Sockets : t = temp[o] BY <1>0, TempIs
<1>2. /\ sock[t].state = "new" /\ sock[t].peer = None /\ sock[t].given = NoBytes
      /\ \A q \in Objects : fd[q] # t
      /\ \A i \in DOMAIN backlog : backlog[i] # t
  BY <1>0, <1>1, TempIs
<1>3. PICK l \in Sockets : l = Lowest BY <1>0, LowestFree
<1>4. g = Joined(sock, t) BY <1>1 DEF g
<1>5. /\ g \in [Sockets -> SocketType] /\ KernelSound(g) /\ QueueFaithful(g)
      /\ l # t /\ sock[l].state = "free"
      /\ g[t].state = "up" /\ g[t].given = NoBytes
      /\ g[l].state = "up" /\ g[l].given = NoBytes /\ ~g[l].split
      /\ \A e \in Sockets : e # t /\ e # l => g[e] = sock[e]
      /\ backlog' \in Seq(Sockets) /\ DOMAIN backlog' = 1..(Len(backlog) + 1)
      /\ \A i \in 1..(Len(backlog) + 1) :
           backlog'[i] = IF i <= Len(backlog) THEN backlog[i] ELSE l
      /\ Len(backlog) \in Nat /\ DOMAIN backlog = 1..Len(backlog)
      /\ \A q \in Objects : fd[q] # l /\ temp[q] # l
      /\ \A i \in DOMAIN backlog : backlog[i] # l
  BY <1>0, <1>2, <1>3, <1>4, JoinedIs
<1>6. /\ \A i \in DOMAIN backlog' : backlog'[i] = l \/ \E j \in DOMAIN backlog : backlog'[i] = backlog[j]
      /\ \A j \in DOMAIN backlog : \E i \in DOMAIN backlog' : backlog'[i] = backlog[j]
      /\ \E i \in DOMAIN backlog' : backlog'[i] = l
      /\ \A i, j \in DOMAIN backlog' : backlog'[i] = backlog'[j] => i = j
  BY <1>5, Appended
<1>7. NotOwned(g, t) BY <1>2, <1>5, OwnedStates DEF NotOwned
<1>8. ASSUME NEW i \in DOMAIN backlog'
      PROVE  /\ g[backlog'[i]].state \in {"up", "dead"} /\ g[backlog'[i]].given = NoBytes
             /\ ~g[backlog'[i]].split /\ backlog'[i] # t
             /\ \A q \in Objects : fd[q] # backlog'[i]
  <2>1. CASE backlog'[i] = l BY <1>5, <2>1
  <2>2. ASSUME NEW j \in DOMAIN backlog, backlog'[i] = backlog[j]
        PROVE  /\ g[backlog'[i]].state \in {"up", "dead"} /\ g[backlog'[i]].given = NoBytes
               /\ ~g[backlog'[i]].split /\ backlog'[i] # t
               /\ \A q \in Objects : fd[q] # backlog'[i]
    <3>1. PICK e \in Sockets : e = backlog[j] /\ e # t /\ e # l BY <1>2, <1>5, OwnedStates
    <3>2. g[e] = sock[e] BY <1>5, <3>1
    <3>3. sock[e].state \in {"up", "dead"} /\ sock[e].given = NoBytes /\ ~sock[e].split
      BY <3>1, OwnedStates
    <3>4. \A q \in Objects : fd[q] # e BY <3>1 DEF IInv, Owned
    <3>5. QED BY <2>2, <3>1, <3>2, <3>3, <3>4
  <2>3. QED BY <1>6, <2>1, <2>2
<1>9. BacklogAfter(g, t) BY <1>5, <1>6, <1>8 DEF BacklogAfter
<1>10. /\ temp' \in [Objects -> Sockets \cup {None}] /\ temp'[o] = None
       /\ \A q \in Objects : q # o => temp'[q] = temp[q]
       /\ \A q \in Objects :
            /\ temp'[q] # None <=> call'[q].op = "connect"
            /\ \A p \in Objects : temp'[q] = temp'[p] /\ temp'[q] # None => q = p
  BY <1>0, TempAfter
<1>11. ASSUME NEW q \in Objects, temp'[q] # None PROVE g[temp'[q]].state = "new"
  <2>1. q # o /\ temp'[q] = temp[q] BY <1>10, <1>11
  <2>2. temp[q] \in Sockets /\ sock[temp[q]].state = "new" BY <1>11, <2>1, OwnedStates
  <2>3. temp[q] # t BY <1>1, <1>11, <2>1 DEF IInv, Owned
  <2>4. QED BY <1>5, <2>1, <2>2, <2>3
<1>12. TempsAfter(g) BY <1>10, <1>11 DEF TempsAfter
<1>13. ASSUME NEW e \in Sockets, g[e].state # "free"
       PROVE  \/ e = t \/ \E q \in Objects : fd[q] = e \/ temp'[q] = e
              \/ \E i \in DOMAIN backlog' : backlog'[i] = e
  <2>1. CASE e # t /\ e # l
    <3>1. sock[e].state # "free" BY <1>5, <1>13, <2>1
    <3>2. \/ \E q \in Objects : fd[q] = e \/ temp[q] = e
          \/ \E i \in DOMAIN backlog : backlog[i] = e
      BY <3>1 DEF IInv, Owned
    <3>3. \A q \in Objects : temp[q] = e => temp'[q] = e BY <1>1, <1>10, <2>1
    <3>4. QED BY <1>6, <3>2, <3>3
  <2>2. QED BY <1>6, <2>1
<1>14. AllOwned(g, t) BY <1>13 DEF AllOwned
<1>15. g[t].state \notin {"free", "new"} /\ g[t].given = NoBytes /\ Moved(o, g, t)
       /\ call' = [call EXCEPT ![o] = Idle] /\ listening' = listening
  BY <1>0, <1>1, <1>5
<1>16. QED BY <1>5, <1>7, <1>9, <1>12, <1>14, <1>15, MovedStep

\* accept, into an object that may have had a connection.
LEMMA AcceptStep == ASSUME IInv, NEW o \in Objects, Accept(o) PROVE IInv'
<1>0. /\ call[o] = Idle /\ backlog # NoBytes /\ Moved(o, sock, Head(backlog))
      /\ backlog' = Tail(backlog) /\ listening' = listening /\ temp' = temp /\ call' = call
  BY DEF Accept, IsIdle
<1>1. /\ backlog \in Seq(Sockets) /\ Len(backlog) \in Nat /\ DOMAIN backlog = 1..Len(backlog)
      /\ \A i \in DOMAIN backlog : backlog[i] \in Sockets
  BY BacklogTyped
<1>2. Len(backlog) \in Nat \ {0} BY <1>0, <1>1, EmptySeq DEF NoBytes
<1>3. /\ backlog' \in Seq(Sockets) /\ Len(backlog') = Len(backlog) - 1
      /\ \A i \in 1..Len(backlog') : backlog'[i] = backlog[i + 1]
      /\ Head(backlog) = backlog[1]
  BY <1>0, <1>1, <1>2, HeadTailProperties DEF NoBytes
<1>4. PICK t \in Sockets : t = Head(backlog) /\ t = backlog[1] BY <1>1, <1>2, <1>3
<1>5. DOMAIN backlog' = 1..(Len(backlog) - 1) BY <1>3, LenProperties
<1>6. 1 \in DOMAIN backlog BY <1>1, <1>2
<1>7. \A i \in DOMAIN backlog' : /\ i + 1 \in DOMAIN backlog /\ i + 1 # 1 /\ i \in Int
                                 /\ backlog'[i] = backlog[i + 1]
  BY <1>1, <1>2, <1>3, <1>5
<1>8. /\ sock[t].state \in {"up", "dead"} /\ sock[t].given = NoBytes /\ ~sock[t].split
      /\ \A q \in Objects : fd[q] # t
  BY <1>4, <1>6, OwnedStates DEF IInv, Owned
<1>9. \A i, j \in DOMAIN backlog : backlog[i] = backlog[j] => i = j BY DEF IInv, Owned
<1>10. NotOwned(sock, t) BY <1>8 DEF NotOwned
<1>11. BacklogAfter(sock, t)
  <2>1. ASSUME NEW i \in DOMAIN backlog'
        PROVE  /\ sock[backlog'[i]].state \in {"up", "dead"} /\ sock[backlog'[i]].given = NoBytes
               /\ ~sock[backlog'[i]].split /\ backlog'[i] # t
               /\ \A q \in Objects : fd[q] # backlog'[i]
    <3>1. PICK j \in DOMAIN backlog : j # 1 /\ backlog'[i] = backlog[j] BY <1>7
    <3>2. backlog[j] # t BY <1>4, <1>6, <1>9, <3>1
    <3>3. QED BY <3>1, <3>2, OwnedStates DEF IInv, Owned
  <2>2. ASSUME NEW i \in DOMAIN backlog', NEW j \in DOMAIN backlog', backlog'[i] = backlog'[j]
        PROVE  i = j
    <3>1. i + 1 = j + 1 BY <1>7, <1>9, <2>2
    <3>2. i \in Int /\ j \in Int BY <1>7
    <3>3. QED BY <3>1, <3>2
  <2>3. QED BY <1>3, <2>1, <2>2 DEF BacklogAfter
<1>12. TempsAfter(sock)
  <2>1. temp' \in [Objects -> Sockets \cup {None}] BY <1>0, OwnedStates
  <2>2. QED BY <1>0, <2>1 DEF TempsAfter, IInv, Owned
<1>13. AllOwned(sock, t)
  <2>1. ASSUME NEW e \in Sockets, NEW i \in DOMAIN backlog, backlog[i] = e
        PROVE  e = t \/ \E j \in DOMAIN backlog' : backlog'[j] = e
    <3>1. CASE i = 1 BY <1>4, <2>1, <3>1
    <3>2. CASE i # 1
      <4>1. i - 1 \in 1..(Len(backlog) - 1) /\ (i - 1) + 1 = i BY <1>1, <3>2
      <4>2. backlog'[i - 1] = backlog[i] BY <1>3, <4>1
      <4>3. QED BY <1>5, <2>1, <4>1, <4>2
    <3>3. QED BY <3>1, <3>2
  <2>2. QED BY <1>0, <2>1 DEF AllOwned, IInv, Owned
<1>14. call' = [call EXCEPT ![o] = Idle] BY <1>0, OwnedStates
<1>15. /\ sock \in [Sockets -> SocketType] /\ KernelSound(sock) /\ QueueFaithful(sock)
       /\ sock[t].state \notin {"free", "new"} /\ Moved(o, sock, t)
  BY <1>0, <1>4, <1>8, OwnedStates
<1>16. QED BY <1>0, <1>8, <1>10, <1>11, <1>12, <1>13, <1>14, <1>15, MovedStep

(***************************************************************************)
(* The kernel's steps                                                      *)
(***************************************************************************)
\* Only ends are touched, and no object has anything to do with it.
LEMMA KernelStep ==
  ASSUME IInv, sock' \in [Sockets -> SocketType], KernelSound(sock'), QueueFaithful(sock'),
         \A e \in Sockets : Other(sock'[e], sock[e]), UNCHANGED <<serverVars, objectVars, call>>
  PROVE  IInv'
<1>1. /\ listening' = listening /\ backlog' = backlog /\ fd' = fd /\ temp' = temp
      /\ readable' = readable /\ buf' = buf /\ call' = call
  BY DEF serverVars, objectVars
<1>2. Shapes' BY <1>1 DEF IInv, Shapes
<1>3. BacklogFresh' BY <1>1, BacklogTyped, BacklogKept
<1>4. Owned' BY <1>1, OtherStates, OwnedKept
<1>5. ASSUME NEW q \in Objects PROVE Count(q)' /\ RestIs(q)' /\ EofOf(q)'
  <2>1. fd[q] # None => Other(sock'[fd[q]], sock[fd[q]]) BY OwnedStates
  <2>2. QED BY <1>1, <2>1, ObjectKept
<1>6. QED BY <1>2, <1>3, <1>4, <1>5 DEF IInv

\* A connection dies with all the ends it has.
LEMMA DeadStep ==
  ASSUME IInv, NEW D, WholeConnections(sock, D), sock' = Died(sock, D),
         UNCHANGED <<serverVars, objectVars, call>>
  PROVE  IInv'
<1>1. sock \in [Sockets -> SocketType] /\ KernelSound(sock) /\ QueueFaithful(sock) BY OwnedStates
<1>2. sock' \in [Sockets -> SocketType] /\ KernelSound(sock') /\ QueueFaithful(sock')
  BY <1>1, DieAll
<1>3. ASSUME NEW e \in Sockets PROVE Other(sock'[e], sock[e])
  <2>1. CASE e \in D
    <3>1. sock'[e] = Reset(sock[e]) /\ sock[e].state \in {"connecting", "up"}
      BY <2>1 DEF Died, WholeConnections
    <3>2. sock[e] \in SocketType BY <1>1
    <3>3. QED BY <3>1, <3>2, ResetTyped DEF Other
  <2>2. CASE e \notin D BY <2>2 DEF Died, Other
  <2>3. QED BY <2>1, <2>2
<1>4. QED BY <1>2, <1>3, KernelStep

\* A connect in progress is refused.
LEMMA IsRefusedStep == ASSUME IInv, NEW s \in Sockets, IsRefused(s) PROVE IInv'
<1>1. /\ sock[s].state = "connecting" /\ sock' = [sock EXCEPT ![s] = Reset(sock[s])]
      /\ UNCHANGED <<serverVars, objectVars, call>>
  BY DEF IsRefused
<1>2. sock \in [Sockets -> SocketType] /\ KernelSound(sock) BY OwnedStates
<1>3. \A e \in Sockets : sock[e].peer # None => e # s /\ sock[e].peer # s
  BY <1>1, <1>2, SizesAssumption DEF KernelSound
<1> DEFINE D == {s}
<1>4. sock' = Died(sock, D) BY <1>1, <1>2 DEF Died
<1>5. WholeConnections(sock, D) BY <1>1, <1>3 DEF WholeConnections
<1> HIDE DEF D
<1>6. QED BY <1>1, <1>4, <1>5, DeadStep

\* A connection is reset with both its ends.
LEMMA BreaksStep == ASSUME IInv, NEW s \in Sockets, Breaks(s) PROVE IInv'
<1> DEFINE D == {e \in Sockets : e = s \/ sock[e].peer = s}
<1>1. /\ sock[s].state = "up" /\ UNCHANGED <<serverVars, objectVars, call>>
      /\ sock' = [e \in Sockets |-> IF e = s \/ sock[e].peer = s THEN Reset(sock[e]) ELSE sock[e]]
  BY DEF Breaks
<1>2. sock \in [Sockets -> SocketType] /\ KernelSound(sock) BY OwnedStates
<1>3. sock' = Died(sock, D) BY <1>1 DEF Died
<1>4. \A e \in Sockets : sock[e].peer # None =>
        sock[e].state = "up" /\ sock[e].peer \in Sockets /\ sock[sock[e].peer].peer = e
  BY <1>2 DEF KernelSound, SocketType
<1>5. D \in SUBSET Sockets /\ \A e \in D : sock[e].state \in {"connecting", "up"}
  BY <1>1, <1>4, SizesAssumption
<1>6. \A e \in Sockets : sock[e].peer # None => (e \in D <=> sock[e].peer \in D) BY <1>4
<1> HIDE DEF D
<1>7. WholeConnections(sock, D) BY <1>5, <1>6 DEF WholeConnections
<1>8. QED BY <1>1, <1>3, <1>7, DeadStep

\* A handshake that connect has not waited for.
LEMMA CompletesStep == ASSUME IInv, NEW s \in Sockets, Completes(s) PROVE IInv'
<1>0. /\ sock[s].state = "connecting" /\ Free # {} /\ sock' = Joined(sock, s)
      /\ backlog' = Append(backlog, Lowest) /\ listening' = listening /\ fd' = fd
      /\ temp' = temp /\ readable' = readable /\ buf' = buf /\ call' = call
  BY DEF Completes, CanConnect, objectVars
<1>1. PICK l \in Sockets : l = Lowest BY <1>0, LowestFree
<1>2. PICK g : g = sock' OBVIOUS
<1>3. /\ g \in [Sockets -> SocketType] /\ KernelSound(g) /\ QueueFaithful(g)
      /\ l # s /\ sock[l].state = "free"
      /\ g[s].state = "up" /\ g[s].given = sock[s].given
      /\ g[s].sent = sock[s].sent /\ g[s].split = sock[s].split
      /\ g[l].state = "up" /\ g[l].given = NoBytes /\ ~g[l].split
      /\ \A e \in Sockets : e # s /\ e # l => g[e] = sock[e]
      /\ backlog' \in Seq(Sockets) /\ DOMAIN backlog' = 1..(Len(backlog) + 1)
      /\ \A i \in 1..(Len(backlog) + 1) :
           backlog'[i] = IF i <= Len(backlog) THEN backlog[i] ELSE l
      /\ Len(backlog) \in Nat /\ DOMAIN backlog = 1..Len(backlog)
      /\ \A q \in Objects : fd[q] # l /\ temp[q] # l
      /\ \A i \in DOMAIN backlog : backlog[i] # l
  BY <1>0, <1>1, <1>2, JoinedIs
<1>4. /\ \A i \in DOMAIN backlog' : backlog'[i] = l \/ \E j \in DOMAIN backlog : backlog'[i] = backlog[j]
      /\ \A j \in DOMAIN backlog : \E i \in DOMAIN backlog' : backlog'[i] = backlog[j]
      /\ \E i \in DOMAIN backlog' : backlog'[i] = l
      /\ \A i, j \in DOMAIN backlog' : backlog'[i] = backlog'[j] => i = j
  BY <1>3, Appended
<1>5. ASSUME NEW e \in Sockets, e # l PROVE Other(g[e], sock[e])
  <2>1. CASE e = s
    <3>1. ~sock[s].fin BY <1>0, OwnedStates DEF KernelSound
    <3>2. QED BY <1>0, <1>3, <2>1, <3>1 DEF Other
  <2>2. CASE e # s BY <1>3, <1>5, <2>2 DEF Other
  <2>3. QED BY <2>1, <2>2
<1>6. Shapes' BY <1>0, <1>2, <1>3 DEF IInv, Shapes
<1>7. BacklogFresh'
  <2>1. ASSUME NEW i \in DOMAIN backlog'
        PROVE  /\ g[backlog'[i]].state \in {"up", "dead"} /\ g[backlog'[i]].given = NoBytes
               /\ ~g[backlog'[i]].split
    <3>1. CASE backlog'[i] = l BY <1>3, <3>1
    <3>2. ASSUME NEW j \in DOMAIN backlog, backlog'[i] = backlog[j]
          PROVE  /\ g[backlog'[i]].state \in {"up", "dead"} /\ g[backlog'[i]].given = NoBytes
                 /\ ~g[backlog'[i]].split
      <4>1. PICK e \in Sockets : e = backlog[j] /\ e # l BY <1>3, OwnedStates
      <4>2. sock[e].state \in {"up", "dead"} /\ sock[e].given = NoBytes /\ ~sock[e].split
        BY <4>1, OwnedStates
      <4>3. Other(g[e], sock[e]) BY <1>5, <4>1
      <4>4. QED BY <3>2, <4>1, <4>2, <4>3 DEF Other
    <3>3. QED BY <1>4, <3>1, <3>2
  <2>2. QED BY <1>2, <2>1 DEF BacklogFresh
<1>8. \A e \in Sockets : e # l => /\ g[e].state = "free" <=> sock[e].state = "free"
                                  /\ g[e].state = "new" <=> sock[e].state = "new"
  BY <1>5, OtherStates
<1>9. Owned'
  <2>1. ASSUME NEW q \in Objects
        PROVE  /\ fd[q] # None => g[fd[q]].state \notin {"free", "new"}
               /\ temp[q] # None => g[temp[q]].state = "new"
               /\ \A i \in DOMAIN backlog' : fd[q] # backlog'[i]
    <3>1. /\ fd[q] # None => fd[q] \in Sockets /\ sock[fd[q]].state \notin {"free", "new"}
          /\ temp[q] # None => temp[q] \in Sockets /\ sock[temp[q]].state = "new"
          /\ fd[q] # l /\ temp[q] # l
      BY <1>3, OwnedStates
    <3>2. \A i \in DOMAIN backlog' : fd[q] # backlog'[i] BY <1>3, <1>4 DEF IInv, Owned
    <3>3. QED BY <1>8, <3>1, <3>2
  <2>2. ASSUME NEW e \in Sockets, g[e].state # "free"
        PROVE  \/ \E q \in Objects : fd[q] = e \/ temp[q] = e
               \/ \E i \in DOMAIN backlog' : backlog'[i] = e
    <3>1. CASE e = l BY <1>4, <3>1
    <3>2. CASE e # l
      <4>1. sock[e].state # "free" BY <1>8, <2>2, <3>2
      <4>2. \/ \E q \in Objects : fd[q] = e \/ temp[q] = e
            \/ \E i \in DOMAIN backlog : backlog[i] = e
        BY <4>1 DEF IInv, Owned
      <4>3. QED BY <1>4, <4>2
    <3>3. QED BY <3>1, <3>2
  <2>3. QED BY <1>0, <1>2, <1>4, <2>1, <2>2 DEF IInv, Owned
<1>10. ASSUME NEW q \in Objects PROVE Count(q)' /\ RestIs(q)' /\ EofOf(q)'
  <2>1. fd[q] # None => Other(sock'[fd[q]], sock[fd[q]]) BY <1>2, <1>3, <1>5, OwnedStates
  <2>2. QED BY <1>0, <2>1, ObjectKept
<1>11. QED BY <1>2, <1>3, <1>6, <1>7, <1>9, <1>10 DEF IInv

\* What the server had not accepted is freed, and its peers are reset.
LEMMA CloseServerStep == ASSUME IInv, CloseServer PROVE IInv'
<1> DEFINE B == ToSet(backlog)
<1>0. /\ listening' = FALSE /\ backlog' = NoBytes /\ fd' = fd /\ temp' = temp
      /\ readable' = readable /\ buf' = buf /\ call' = call
      /\ sock' = [e \in Sockets |-> IF e \in B THEN FreeSock
                                    ELSE IF sock[e].peer \in B THEN Reset(sock[e]) ELSE sock[e]]
  BY DEF CloseServer, objectVars
<1>1. sock \in [Sockets -> SocketType] /\ KernelSound(sock) /\ QueueFaithful(sock) BY OwnedStates
<1>2. /\ B \in SUBSET Sockets /\ None \notin B
      /\ \A e : e \in B <=> \E i \in DOMAIN backlog : backlog[i] = e
  BY OwnedStates, SizesAssumption DEF ToSet
<1>3. /\ \A e \in B : sock[e].state \in {"up", "dead"}
      /\ \A q \in Objects : fd[q] \notin B
  BY <1>2, OwnedStates DEF IInv, Owned
<1> HIDE DEF B
<1>4. PICK g : g = sock' OBVIOUS
<1>5. /\ g \in [Sockets -> SocketType]
      /\ \A e \in B : g[e] = FreeSock
      /\ \A e \in Sockets : e \notin B /\ sock[e].peer \in B => g[e] = Reset(sock[e])
      /\ \A e \in Sockets : e \notin B /\ sock[e].peer \notin B => g[e] = sock[e]
  BY <1>0, <1>1, <1>2, <1>4, FreeTyped, ResetTyped
<1>6. \A e \in Sockets : sock[e].peer # None =>
        sock[e].state = "up" /\ sock[e].peer \in Sockets /\ sock[sock[e].peer].peer = e
  BY <1>1 DEF KernelSound, SocketType
<1>7. ASSUME NEW e \in Sockets, e \notin B
      PROVE  /\ Other(g[e], sock[e])
             /\ \/ g[e] = sock[e]
                \/ /\ g[e].state = "dead" /\ g[e].peer = None /\ g[e].queue = sock[e].queue
                   /\ g[e].given = NoBytes /\ g[e].sent = 0 /\ ~g[e].split
  <2>1. CASE sock[e].peer \in B
    <3>1. g[e] = Reset(sock[e]) /\ sock[e].state = "up" BY <1>2, <1>5, <1>6, <1>7, <2>1
    <3>2. sock[e] \in SocketType BY <1>1
    <3>3. QED BY <3>1, <3>2, ResetTyped DEF Other
  <2>2. CASE sock[e].peer \notin B BY <1>5, <1>7, <2>2 DEF Other
  <2>3. QED BY <2>1, <2>2
<1>8. ASSUME NEW e \in Sockets, g[e].peer # None
      PROVE  g[e] = sock[e] /\ g[sock[e].peer] = sock[sock[e].peer]
  <2>1. e \notin B BY <1>5, <1>8, FreeTyped
  <2>2. sock[e].peer \notin B /\ g[e] = sock[e] BY <1>1, <1>5, <1>8, <2>1, ResetTyped
  <2>3. sock[e].peer \in Sockets /\ sock[sock[e].peer].peer = e BY <1>6, <1>8, <2>2
  <2>4. QED BY <1>5, <2>1, <2>2, <2>3
<1>9. KernelSound(g)
  <2>1. ASSUME NEW e \in Sockets
        PROVE  /\ g[e].state = "free" => g[e] = FreeSock
               /\ g[e].state \in {"new", "connecting"} =>
                    g[e].peer = None /\ g[e].queue = NoBytes /\ ~g[e].fin /\ ~g[e].split
               /\ g[e].state = "new" => g[e].given = NoBytes
               /\ Len(g[e].queue) <= QueueCap
               /\ g[e].sent <= Len(g[e].given) /\ (g[e].peer = None => g[e].sent = 0)
    <3>0. Len(NoBytes) = 0 /\ 0 <= QueueCap BY NoBytesAre, SizesAssumption
    <3>1. CASE e \in B BY <1>5, <3>0, <3>1, FreeTyped
    <3>2. CASE g[e] = sock[e] BY <1>1, <3>2 DEF KernelSound
    <3>3. CASE e \notin B /\ g[e] # sock[e]
      <4>1. /\ g[e].state = "dead" /\ g[e].peer = None /\ g[e].queue = sock[e].queue
            /\ g[e].given = NoBytes /\ g[e].sent = 0
        BY <1>7, <3>3
      <4>2. Len(sock[e].queue) <= QueueCap BY <1>1 DEF KernelSound
      <4>3. QED BY <3>0, <4>1, <4>2
    <3>4. QED BY <3>1, <3>2, <3>3
  <2>2. ASSUME NEW e \in Sockets, g[e].peer # None
        PROVE  /\ g[e].peer # e /\ g[e].state = "up" /\ ~g[e].fin /\ g[g[e].peer].peer = e
               /\ Len(g[g[e].peer].queue) <= g[e].sent
    BY <1>1, <1>8, <2>2 DEF KernelSound
  <2>3. QED BY <2>1, <2>2 DEF KernelSound
<1>10. QueueFaithful(g)
  <2>1. ASSUME NEW e \in Sockets, g[e].peer # None, ~g[e].split
        PROVE  g[g[e].peer].queue =
                 SubSeq(g[e].given, g[e].sent - Len(g[g[e].peer].queue) + 1, g[e].sent)
    <3>1. g[e] = sock[e] /\ g[sock[e].peer] = sock[sock[e].peer] BY <1>8, <2>1
    <3>2. sock[sock[e].peer].queue =
            SubSeq(sock[e].given, sock[e].sent - Len(sock[sock[e].peer].queue) + 1, sock[e].sent)
      BY <1>1, <2>1, <3>1 DEF QueueFaithful
    <3>3. QED BY <3>1, <3>2
  <2>2. QED BY <2>1 DEF QueueFaithful
<1>11. backlog' \in Seq(Sockets) /\ DOMAIN backlog' = {}
  <2>1. backlog' \in Seq(Sockets) /\ Len(backlog') = 0 BY <1>0, EmptySeq DEF NoBytes
  <2>2. QED BY <2>1, LenProperties
<1>12. Shapes' BY <1>0, <1>4, <1>5, <1>11 DEF IInv, Shapes
<1>13. BacklogFresh' BY <1>11 DEF BacklogFresh
<1>14. \A e \in Sockets : e \notin B => /\ g[e].state = "free" <=> sock[e].state = "free"
                                        /\ g[e].state = "new" <=> sock[e].state = "new"
  BY <1>7, OtherStates
<1>15. Owned'
  <2>1. ASSUME NEW q \in Objects
        PROVE  /\ fd[q] # None => g[fd[q]].state \notin {"free", "new"}
               /\ temp[q] # None => g[temp[q]].state = "new"
    <3>1. /\ fd[q] # None => fd[q] \in Sockets /\ sock[fd[q]].state \notin {"free", "new"}
          /\ temp[q] # None => temp[q] \in Sockets /\ sock[temp[q]].state = "new"
      BY OwnedStates
    <3>2. QED BY <1>3, <1>14, <3>1
  <2>2. ASSUME NEW e \in Sockets, g[e].state # "free"
        PROVE  \E q \in Objects : fd[q] = e \/ temp[q] = e
    <3>1. e \notin B BY <1>5, <2>2, FreeTyped
    <3>2. sock[e].state # "free" BY <1>14, <2>2, <3>1
    <3>3. QED BY <1>2, <3>1, <3>2 DEF IInv, Owned
  <2>3. QED BY <1>0, <1>4, <1>11, <2>1, <2>2 DEF IInv, Owned
<1>16. ASSUME NEW q \in Objects PROVE Count(q)' /\ RestIs(q)' /\ EofOf(q)'
  <2>1. fd[q] # None => Other(sock'[fd[q]], sock[fd[q]]) BY <1>3, <1>4, <1>7, OwnedStates
  <2>2. QED BY <1>0, <2>1, ObjectKept
<1>17. QED BY <1>4, <1>9, <1>10, <1>12, <1>13, <1>15, <1>16 DEF IInv

\* The server's constructor; and no step at all.
LEMMA ListenStep == ASSUME IInv, Listen \/ UNCHANGED vars PROVE IInv'
<1>1. /\ backlog' = backlog /\ sock' = sock /\ fd' = fd /\ temp' = temp
      /\ readable' = readable /\ buf' = buf /\ call' = call /\ listening' \in BOOLEAN
  BY DEF Listen, vars, objectVars, IInv, Shapes
<1>2. Shapes' BY <1>1 DEF IInv, Shapes
<1>3. BacklogFresh' BY <1>1 DEF IInv, BacklogFresh
<1>4. Owned' BY <1>1, OwnedKept
<1>5. KernelSound(sock)' /\ QueueFaithful(sock)' BY <1>1, OwnedStates DEF KernelSound, QueueFaithful
<1>6. ASSUME NEW q \in Objects PROVE Count(q)' /\ RestIs(q)' /\ EofOf(q)'
  BY <1>1, ObjectKept DEF Other
<1>7. QED BY <1>2, <1>3, <1>4, <1>5, <1>6 DEF IInv

(***************************************************************************)
(* Closing, and the beginning and the failure of connect                   *)
(***************************************************************************)
LEMMA CloseFdStep == ASSUME IInv, NEW o \in Objects, SyncClose(o) \/ AsyncClose(o) PROVE IInv'
<1>0. /\ call[o] = Idle /\ fd[o] # None /\ sock' = Closed(sock, fd[o])
      /\ fd' = [fd EXCEPT ![o] = None] /\ listening' = listening /\ backlog' = backlog
      /\ temp' = temp /\ readable' = readable /\ buf' = buf /\ call' = call
  BY DEF SyncClose, AsyncClose, CloseFd, IsIdle, serverVars
<1>1. PICK s \in Sockets : s = fd[o] BY <1>0, OwnedStates
<1>2. PICK g : g = sock' OBVIOUS
<1>3. sock \in [Sockets -> SocketType] /\ KernelSound(sock) /\ QueueFaithful(sock) BY OwnedStates
<1>4. s \in Sockets \cup {None} /\ g = Closed(sock, s) /\ s # None
  BY <1>0, <1>1, <1>2
<1>5. /\ g \in [Sockets -> SocketType] /\ KernelSound(g) /\ QueueFaithful(g)
      /\ g[s] = FreeSock /\ \A e \in Sockets : e # s => Other(g[e], sock[e])
  BY <1>3, <1>4, ClosedOthers
<1>6. /\ fd' \in [Objects -> Sockets \cup {None}] /\ fd'[o] = None
      /\ \A q \in Objects : q # o => fd'[q] = fd[q] /\ fd[q] # s
  <2>1. fd \in [Objects -> Sockets \cup {None}] BY OwnedStates
  <2>2. \A q \in Objects : q # o => fd[q] # s BY <1>1, <1>4 DEF IInv, Owned
  <2>3. QED BY <1>0, <2>1, <2>2
<1>7. /\ \A i \in DOMAIN backlog : backlog[i] # s
      /\ \A q \in Objects : temp[q] # s
  BY <1>1, <1>4, OwnedStates DEF IInv, Owned
<1>8. Shapes' BY <1>0, <1>2, <1>5, <1>6 DEF IInv, Shapes
<1>9. BacklogFresh'
  <2>1. \A i \in DOMAIN backlog : Other(sock'[backlog[i]], sock[backlog[i]])
    BY <1>2, <1>5, <1>7, OwnedStates
  <2>2. QED BY <1>0, <2>1, BacklogKept
<1>10. \A e \in Sockets : e # s => /\ g[e].state = "free" <=> sock[e].state = "free"
                                   /\ g[e].state = "new" <=> sock[e].state = "new"
  BY <1>5, OtherStates
<1>11. Owned'
  <2>1. ASSUME NEW q \in Objects
        PROVE  /\ fd'[q] # None => g[fd'[q]].state \notin {"free", "new"}
               /\ temp[q] # None => g[temp[q]].state = "new"
               /\ \A p \in Objects : fd'[q] = fd'[p] /\ fd'[q] # None => q = p
               /\ \A i \in DOMAIN backlog : fd'[q] # backlog[i]
    <3>1. /\ fd[q] # None => fd[q] \in Sockets /\ sock[fd[q]].state \notin {"free", "new"}
          /\ temp[q] # None => temp[q] \in Sockets /\ sock[temp[q]].state = "new"
      BY OwnedStates
    <3>2. fd'[q] # None => g[fd'[q]].state \notin {"free", "new"} BY <1>6, <1>10, <3>1
    <3>3. temp[q] # None => g[temp[q]].state = "new" BY <1>7, <1>10, <3>1
    <3>4. \A p \in Objects : fd[q] = fd[p] /\ fd[q] # None => q = p BY DEF IInv, Owned
    <3>5. \A i \in DOMAIN backlog : fd[q] # backlog[i] /\ backlog[i] # None
      BY OwnedStates, SizesAssumption DEF IInv, Owned
    <3>6. QED BY <1>6, <3>2, <3>3, <3>4, <3>5
  <2>2. ASSUME NEW e \in Sockets, g[e].state # "free"
        PROVE  \/ \E q \in Objects : fd'[q] = e \/ temp[q] = e
               \/ \E i \in DOMAIN backlog : backlog[i] = e
    <3>1. e # s BY <1>5, <2>2, FreeTyped
    <3>2. sock[e].state # "free" BY <1>10, <2>2, <3>1
    <3>3. \/ \E q \in Objects : fd[q] = e \/ temp[q] = e
          \/ \E i \in DOMAIN backlog : backlog[i] = e
      BY <3>2 DEF IInv, Owned
    <3>4. QED BY <1>1, <1>6, <3>1, <3>3
  <2>3. QED BY <1>0, <1>2, <2>1, <2>2 DEF IInv, Owned
<1>12. ASSUME NEW q \in Objects PROVE Count(q)' /\ RestIs(q)' /\ EofOf(q)'
  <2>1. CASE q # o
    <3>1. fd[q] # None => Other(sock'[fd[q]], sock[fd[q]]) BY <1>2, <1>5, <1>6, <2>1, OwnedStates
    <3>2. QED BY <1>0, <1>6, <2>1, <3>1, ObjectKept
  <2>2. CASE q = o
    <3>1. Count(o)' BY <1>0, <1>6 DEF IInv, Count, Idle
    <3>2. RestIs(o)' /\ EofOf(o)' BY <1>6 DEF RestIs, EofOf
    <3>3. QED BY <2>2, <3>1, <3>2
  <2>3. QED BY <2>1, <2>2
<1>13. QED BY <1>2, <1>5, <1>8, <1>9, <1>11, <1>12 DEF IInv

\* The calls of an object that begins or ends a connect and keeps its descriptor.
LEMMA ConnectKept ==
  ASSUME IInv, NEW o \in Objects, fd'[o] = fd[o], buf'[o] = buf[o], readable'[o] = readable[o],
         fd[o] # None => sock'[fd[o]] = sock[fd[o]],
         call[o].op \in {"none", "connect"}, call'[o].op \in {"none", "connect"}
  PROVE  Count(o)' /\ RestIs(o)' /\ EofOf(o)'
<1>1. Count(o) /\ RestIs(o) /\ EofOf(o) BY DEF IInv
<1>2. CASE fd[o] = None BY <1>1, <1>2 DEF Count, RestIs, EofOf
<1>3. CASE fd[o] # None
  <2>1. PICK s \in Sockets : s = fd[o] /\ s = fd'[o] BY <1>3, OwnedStates
  <2>2. sock'[s] = sock[s] BY <1>3, <2>1
  <2>3. Waits(s)' = Waits(s) /\ Rest(s)' = Rest(s) /\ AtEnd(s)' = AtEnd(s)
    BY <2>2 DEF Waits, Rest, AtEnd, CanReceive
  <2>4. Count(o)' BY <1>1, <1>3, <2>1, <2>2, <2>3 DEF Count
  <2>5. RestIs(o)' BY <1>1, <1>3, <2>1, <2>2, <2>3 DEF RestIs
  <2>6. EofOf(o)'
    <3>1. ~readable'[o] => AtEnd(s)' BY <1>1, <1>3, <2>1, <2>3 DEF EofOf
    <3>2. QED BY <2>1, <3>1 DEF EofOf, AtEnd, CanReceive
  <2>7. QED BY <2>4, <2>5, <2>6
<1>4. QED BY <1>2, <1>3

\* The constructor throws; the old connection is kept.
LEMMA ConnectFailsStep == ASSUME IInv, NEW o \in Objects, ConnectFails(o) PROVE IInv'
<1>0. /\ call[o].op = "connect" /\ sock' = Closed(sock, temp[o])
      /\ temp' = [temp EXCEPT ![o] = None] /\ call' = [call EXCEPT ![o] = Idle]
      /\ listening' = listening /\ backlog' = backlog /\ fd' = fd /\ readable' = readable
      /\ buf' = buf
  BY DEF ConnectFails, InCall, Unwound, Ends, serverVars
<1>1. PICK t \in Sockets : t = temp[o] BY <1>0, TempIs
<1>2. /\ \A q \in Objects : fd[q] # t
      /\ \A i \in DOMAIN backlog : backlog[i] # t
      /\ \A e \in Sockets : sock[e].peer # t
  BY <1>0, <1>1, TempIs
<1>3. PICK g : g = sock' OBVIOUS
<1>4. sock \in [Sockets -> SocketType] /\ KernelSound(sock) /\ QueueFaithful(sock) BY OwnedStates
<1>5. t \in Sockets \cup {None} /\ g = Closed(sock, t) /\ t # None
  BY <1>0, <1>1, <1>3, SizesAssumption
<1>6. /\ g \in [Sockets -> SocketType] /\ KernelSound(g) /\ QueueFaithful(g)
      /\ g[t] = FreeSock /\ \A e \in Sockets : e # t => g[e] = sock[e]
  BY <1>2, <1>4, <1>5, ClosedOthers
<1>7. /\ temp' \in [Objects -> Sockets \cup {None}] /\ temp'[o] = None
      /\ \A q \in Objects : q # o => temp'[q] = temp[q]
      /\ \A q \in Objects :
           /\ temp'[q] # None <=> call'[q].op = "connect"
           /\ \A p \in Objects : temp'[q] = temp'[p] /\ temp'[q] # None => q = p
  BY <1>0, TempAfter
<1>8. /\ call' \in [Objects -> CallType] /\ call'[o] = Idle
      /\ \A q \in Objects : q # o => call'[q] = call[q]
  <2>1. call \in [Objects -> CallType] /\ Idle \in CallType BY OwnedStates DEF CallType
  <2>2. QED BY <1>0, <2>1
<1>9. Shapes' BY <1>0, <1>3, <1>6, <1>7, <1>8 DEF IInv, Shapes
<1>10. BacklogFresh'
  <2>1. \A i \in DOMAIN backlog : Other(sock'[backlog[i]], sock[backlog[i]])
    BY <1>2, <1>3, <1>6, OwnedStates DEF Other
  <2>2. QED BY <1>0, <2>1, BacklogKept
<1>11. Owned'
  <2>1. ASSUME NEW q \in Objects
        PROVE  /\ fd[q] # None => g[fd[q]].state \notin {"free", "new"}
               /\ temp'[q] # None => g[temp'[q]].state = "new"
    <3>1. /\ fd[q] # None => fd[q] \in Sockets /\ sock[fd[q]].state \notin {"free", "new"}
          /\ temp[q] # None => temp[q] \in Sockets /\ sock[temp[q]].state = "new"
      BY OwnedStates
    <3>2. q # o => temp[q] # t BY <1>1, <1>5 DEF IInv, Owned
    <3>3. fd[q] # None => g[fd[q]].state \notin {"free", "new"} BY <1>2, <1>6, <3>1
    <3>4. temp'[q] # None => g[temp'[q]].state = "new" BY <1>6, <1>7, <3>1, <3>2
    <3>5. QED BY <3>3, <3>4
  <2>2. ASSUME NEW e \in Sockets, g[e].state # "free"
        PROVE  \/ \E q \in Objects : fd[q] = e \/ temp'[q] = e
               \/ \E i \in DOMAIN backlog : backlog[i] = e
    <3>1. e # t BY <1>6, <2>2, FreeTyped
    <3>2. sock[e].state # "free" BY <1>6, <2>2, <3>1
    <3>3. \/ \E q \in Objects : fd[q] = e \/ temp[q] = e
          \/ \E i \in DOMAIN backlog : backlog[i] = e
      BY <3>2 DEF IInv, Owned
    <3>4. \A q \in Objects : temp[q] = e => temp'[q] = e BY <1>1, <1>7, <3>1
    <3>5. QED BY <3>3, <3>4
  <2>3. QED BY <1>0, <1>3, <1>7, <2>1, <2>2 DEF IInv, Owned
<1>12. ASSUME NEW q \in Objects PROVE Count(q)' /\ RestIs(q)' /\ EofOf(q)'
  <2>0. fd[q] # None => sock'[fd[q]] = sock[fd[q]] BY <1>2, <1>3, <1>6, OwnedStates
  <2>1. CASE q # o
    <3>1. fd[q] # None => Other(sock'[fd[q]], sock[fd[q]]) BY <2>0 DEF Other
    <3>2. QED BY <1>0, <1>8, <2>1, <3>1, ObjectKept
  <2>2. CASE q = o
    <3>1. call'[o].op \in {"none", "connect"} /\ call[o].op \in {"none", "connect"}
      BY <1>0, <1>8 DEF Idle
    <3>2. QED BY <1>0, <2>0, <2>2, <3>1, ConnectKept
  <2>3. QED BY <2>1, <2>2
<1>13. QED BY <1>3, <1>6, <1>9, <1>10, <1>11, <1>12 DEF IInv

\* An end that no object has is closed, and perhaps another one waits for accept.
LEMMA DroppedStep ==
  ASSUME IInv, NEW t \in Sockets, Shapes', KernelSound(sock'), QueueFaithful(sock'),
         sock'[t].state = "free", fd' = fd, NotTouched(t), BacklogAfter(sock', t),
         TempsAfter(sock'), AllOwned(sock', t),
         \A q \in Objects : Count(q)' /\ RestIs(q)' /\ EofOf(q)'
  PROVE  IInv'
<1>1. BacklogFresh' BY DEF BacklogAfter, BacklogFresh
<1>2. ASSUME NEW q \in Objects
      PROVE  /\ fd[q] # None => sock'[fd[q]].state \notin {"free", "new"}
             /\ \A p \in Objects : fd[q] = fd[p] /\ fd[q] # None => q = p
  <2>1. fd[q] # None => sock[fd[q]].state \notin {"free", "new"} BY OwnedStates
  <2>2. fd[q] # None => Other(sock'[fd[q]], sock[fd[q]]) BY DEF NotTouched
  <2>3. fd[q] # None => sock'[fd[q]].state \notin {"free", "new"}
    BY <2>1, <2>2, OtherStates
  <2>4. QED BY <2>3 DEF IInv, Owned
<1>3. Owned' BY <1>2 DEF Owned, BacklogAfter, TempsAfter, AllOwned
<1>4. QED BY <1>1, <1>3 DEF IInv

\* connect() has succeeded; the constructor throws.
LEMMA ConnectDroppedStep == ASSUME IInv, NEW o \in Objects, ConnectDropped(o) PROVE IInv'
<1>0. /\ call[o].op = "connect" /\ sock' = Closed(Joined(sock, temp[o]), temp[o])
      /\ temp' = [temp EXCEPT ![o] = None] /\ call' = [call EXCEPT ![o] = Idle]
      /\ listening' = listening /\ fd' = fd /\ readable' = readable /\ buf' = buf
      /\ backlog' = Append(backlog, Lowest) /\ Free # {}
  BY DEF ConnectDropped, InCall, Ends, CanConnect
<1>1. PICK t \in Sockets : t = temp[o] BY <1>0, TempIs
<1>2. /\ sock[t].state = "new" /\ \A q \in Objects : fd[q] # t
      /\ \A i \in DOMAIN backlog : backlog[i] # t
      /\ \A e \in Sockets : sock[e].peer # t
  BY <1>0, <1>1, TempIs
<1>3. PICK l \in Sockets : l = Lowest BY <1>0, LowestFree
<1>4. PICK j : j = Joined(sock, t) OBVIOUS
<1>5. /\ j \in [Sockets -> SocketType] /\ KernelSound(j) /\ QueueFaithful(j)
      /\ l # t /\ j[l].state = "up" /\ j[l].given = NoBytes /\ ~j[l].split
      /\ \A e \in Sockets : e # t /\ e # l => j[e] = sock[e]
      /\ backlog' \in Seq(Sockets) /\ DOMAIN backlog' = 1..(Len(backlog) + 1)
      /\ \A i \in 1..(Len(backlog) + 1) :
           backlog'[i] = IF i <= Len(backlog) THEN backlog[i] ELSE l
      /\ Len(backlog) \in Nat /\ DOMAIN backlog = 1..Len(backlog)
      /\ \A q \in Objects : fd[q] # l /\ temp[q] # l
      /\ \A i \in DOMAIN backlog : backlog[i] # l
  BY <1>0, <1>2, <1>3, <1>4, JoinedIs
<1>6. PICK g : g = sock' OBVIOUS
<1>7. g = Closed(j, t) BY <1>0, <1>1, <1>4, <1>6
<1>8. /\ g \in [Sockets -> SocketType] /\ KernelSound(g) /\ QueueFaithful(g) /\ g[t] = FreeSock
      /\ \A e \in Sockets \ {t} :
           \/ g[e] = j[e]
           \/ /\ j[e].peer = t /\ j[e].state = "up" /\ ~j[e].fin
              /\ g[e].state \in {"up", "dead"} /\ g[e].peer = None
              /\ g[e].given = NoBytes /\ ~g[e].split
  BY <1>5, <1>7, ClosedSound
<1>9. g[l].state \in {"up", "dead"} /\ g[l].given = NoBytes /\ ~g[l].split BY <1>5, <1>8
<1>10. \A e \in Sockets : e # t /\ e # l => g[e] = sock[e] BY <1>2, <1>5, <1>8
<1>11. /\ \A i \in DOMAIN backlog' : backlog'[i] = l \/ \E k \in DOMAIN backlog : backlog'[i] = backlog[k]
       /\ \A k \in DOMAIN backlog : \E i \in DOMAIN backlog' : backlog'[i] = backlog[k]
       /\ \E i \in DOMAIN backlog' : backlog'[i] = l
       /\ \A i, k \in DOMAIN backlog' : backlog'[i] = backlog'[k] => i = k
  BY <1>5, Appended
<1>12. /\ temp' \in [Objects -> Sockets \cup {None}] /\ temp'[o] = None
       /\ \A q \in Objects : q # o => temp'[q] = temp[q]
       /\ \A q \in Objects :
            /\ temp'[q] # None <=> call'[q].op = "connect"
            /\ \A p \in Objects : temp'[q] = temp'[p] /\ temp'[q] # None => q = p
  BY <1>0, TempAfter
<1>13. /\ call' \in [Objects -> CallType] /\ call'[o] = Idle
       /\ \A q \in Objects : q # o => call'[q] = call[q]
  <2>1. call \in [Objects -> CallType] /\ Idle \in CallType BY OwnedStates DEF CallType
  <2>2. QED BY <1>0, <2>1
<1>14. Shapes' BY <1>0, <1>5, <1>6, <1>8, <1>12, <1>13 DEF IInv, Shapes
<1>15. \A q \in Objects : fd[q] # None => g[fd[q]] = sock[fd[q]] BY <1>2, <1>5, <1>10, OwnedStates
<1>16. NotTouched(t) BY <1>2, <1>6, <1>15 DEF NotTouched, Other
<1>17. BacklogAfter(g, t)
  <2>1. ASSUME NEW i \in DOMAIN backlog'
        PROVE  /\ g[backlog'[i]].state \in {"up", "dead"} /\ g[backlog'[i]].given = NoBytes
               /\ ~g[backlog'[i]].split /\ backlog'[i] # t
               /\ \A q \in Objects : fd[q] # backlog'[i]
    <3>1. CASE backlog'[i] = l BY <1>5, <1>9, <3>1
    <3>2. ASSUME NEW k \in DOMAIN backlog, backlog'[i] = backlog[k]
          PROVE  /\ g[backlog'[i]].state \in {"up", "dead"} /\ g[backlog'[i]].given = NoBytes
                 /\ ~g[backlog'[i]].split /\ backlog'[i] # t
                 /\ \A q \in Objects : fd[q] # backlog'[i]
      <4>1. PICK e \in Sockets : e = backlog[k] /\ e # t /\ e # l BY <1>2, <1>5, OwnedStates
      <4>2. g[e] = sock[e] BY <1>10, <4>1
      <4>3. sock[e].state \in {"up", "dead"} /\ sock[e].given = NoBytes /\ ~sock[e].split
        BY <4>1, OwnedStates
      <4>4. \A q \in Objects : fd[q] # e BY <4>1 DEF IInv, Owned
      <4>5. QED BY <3>2, <4>1, <4>2, <4>3, <4>4
    <3>3. QED BY <1>11, <3>1, <3>2
  <2>2. QED BY <1>5, <1>11, <2>1 DEF BacklogAfter
<1>18. TempsAfter(g)
  <2>1. ASSUME NEW q \in Objects, temp'[q] # None PROVE g[temp'[q]].state = "new"
    <3>1. q # o /\ temp'[q] = temp[q] BY <1>12, <2>1
    <3>2. temp[q] \in Sockets /\ sock[temp[q]].state = "new" BY <2>1, <3>1, OwnedStates
    <3>3. temp[q] # t BY <1>1, <2>1, <3>1 DEF IInv, Owned
    <3>4. QED BY <1>5, <1>10, <3>1, <3>2, <3>3
  <2>2. QED BY <1>12, <2>1 DEF TempsAfter
<1>19. AllOwned(g, t)
  <2>1. ASSUME NEW e \in Sockets, g[e].state # "free"
        PROVE  \/ e = t \/ \E q \in Objects : fd[q] = e \/ temp'[q] = e
               \/ \E i \in DOMAIN backlog' : backlog'[i] = e
    <3>1. CASE e # t /\ e # l
      <4>1. sock[e].state # "free" BY <1>10, <2>1, <3>1
      <4>2. \/ \E q \in Objects : fd[q] = e \/ temp[q] = e
            \/ \E i \in DOMAIN backlog : backlog[i] = e
        BY <4>1 DEF IInv, Owned
      <4>3. \A q \in Objects : temp[q] = e => temp'[q] = e BY <1>1, <1>12, <3>1
      <4>4. QED BY <1>11, <4>2, <4>3
    <3>2. QED BY <1>11, <3>1
  <2>2. QED BY <2>1 DEF AllOwned
<1>20. ASSUME NEW q \in Objects PROVE Count(q)' /\ RestIs(q)' /\ EofOf(q)'
  <2>0. fd[q] # None => sock'[fd[q]] = sock[fd[q]] BY <1>6, <1>15
  <2>1. CASE q # o
    <3>1. fd[q] # None => Other(sock'[fd[q]], sock[fd[q]]) BY <2>0 DEF Other
    <3>2. QED BY <1>0, <1>13, <2>1, <3>1, ObjectKept
  <2>2. CASE q = o
    <3>1. call'[o].op \in {"none", "connect"} /\ call[o].op \in {"none", "connect"}
      BY <1>0, <1>13 DEF Idle
    <3>2. QED BY <1>0, <2>0, <2>2, <3>1, ConnectKept
  <2>3. QED BY <2>1, <2>2
<1>21. g[t].state = "free" BY <1>8, FreeTyped
<1>22. QED BY <1>0, <1>6, <1>8, <1>14, <1>16, <1>17, <1>18, <1>19, <1>20, <1>21, DroppedStep

\* accept has succeeded; the constructor of the Connection throws.
LEMMA AcceptDroppedStep == ASSUME IInv, NEW o \in Objects, AcceptDropped(o) PROVE IInv'
<1>0. /\ backlog # NoBytes /\ sock' = Closed(sock, Head(backlog)) /\ backlog' = Tail(backlog)
      /\ listening' = listening /\ fd' = fd /\ temp' = temp /\ readable' = readable
      /\ buf' = buf /\ call' = call
  BY DEF AcceptDropped, objectVars
<1>1. /\ backlog \in Seq(Sockets) /\ Len(backlog) \in Nat /\ DOMAIN backlog = 1..Len(backlog)
      /\ \A i \in DOMAIN backlog : backlog[i] \in Sockets
  BY BacklogTyped
<1>2. Len(backlog) \in Nat \ {0} BY <1>0, <1>1, EmptySeq DEF NoBytes
<1>3. /\ backlog' \in Seq(Sockets) /\ Len(backlog') = Len(backlog) - 1
      /\ \A i \in 1..Len(backlog') : backlog'[i] = backlog[i + 1]
      /\ Head(backlog) = backlog[1]
  BY <1>0, <1>1, <1>2, HeadTailProperties DEF NoBytes
<1>4. PICK t \in Sockets : t = Head(backlog) /\ t = backlog[1] BY <1>1, <1>2, <1>3
<1>5. DOMAIN backlog' = 1..(Len(backlog) - 1) BY <1>3, LenProperties
<1>6. 1 \in DOMAIN backlog BY <1>1, <1>2
<1>7. \A i \in DOMAIN backlog' : /\ i + 1 \in DOMAIN backlog /\ i + 1 # 1 /\ i \in Int
                                 /\ backlog'[i] = backlog[i + 1]
  BY <1>1, <1>2, <1>3, <1>5
<1>8. /\ sock[t].state \in {"up", "dead"} /\ \A q \in Objects : fd[q] # t /\ temp[q] # t
  BY <1>4, <1>6, OwnedStates, SizesAssumption DEF IInv, Owned
<1>9. \A i, j \in DOMAIN backlog : backlog[i] = backlog[j] => i = j BY DEF IInv, Owned
<1>10. PICK g : g = sock' OBVIOUS
<1>11. sock \in [Sockets -> SocketType] /\ KernelSound(sock) /\ QueueFaithful(sock) BY OwnedStates
<1>12. t \in Sockets \cup {None} /\ g = Closed(sock, t) /\ t # None
  BY <1>0, <1>4, <1>10, SizesAssumption
<1>13. /\ g \in [Sockets -> SocketType] /\ KernelSound(g) /\ QueueFaithful(g)
       /\ g[t] = FreeSock /\ \A e \in Sockets : e # t => Other(g[e], sock[e])
  BY <1>11, <1>12, ClosedOthers
<1>14. \A e \in Sockets : e # t => /\ g[e].state = "free" <=> sock[e].state = "free"
                                   /\ g[e].state = "new" <=> sock[e].state = "new"
  BY <1>13, OtherStates
<1>15. Shapes' BY <1>0, <1>3, <1>10, <1>13 DEF IInv, Shapes
<1>16. NotTouched(t) BY <1>8, <1>10, <1>13, OwnedStates DEF NotTouched
<1>17. BacklogAfter(g, t)
  <2>1. ASSUME NEW i \in DOMAIN backlog'
        PROVE  /\ g[backlog'[i]].state \in {"up", "dead"} /\ g[backlog'[i]].given = NoBytes
               /\ ~g[backlog'[i]].split /\ backlog'[i] # t
               /\ \A q \in Objects : fd[q] # backlog'[i]
    <3>1. PICK j \in DOMAIN backlog : j # 1 /\ backlog'[i] = backlog[j] BY <1>7
    <3>2. PICK e \in Sockets : e = backlog[j] /\ e # t BY <1>1, <1>4, <1>6, <1>9, <3>1
    <3>3. sock[e].state \in {"up", "dead"} /\ sock[e].given = NoBytes /\ ~sock[e].split
      BY <3>2, OwnedStates
    <3>4. Other(g[e], sock[e]) BY <1>13, <3>2
    <3>5. g[e].state \in {"up", "dead"} /\ g[e].given = NoBytes /\ ~g[e].split
      BY <3>3, <3>4 DEF Other
    <3>6. \A q \in Objects : fd[q] # e BY <3>2 DEF IInv, Owned
    <3>7. QED BY <3>1, <3>2, <3>5, <3>6
  <2>2. ASSUME NEW i \in DOMAIN backlog', NEW j \in DOMAIN backlog', backlog'[i] = backlog'[j]
        PROVE  i = j
    <3>1. i + 1 = j + 1 BY <1>7, <1>9, <2>2
    <3>2. i \in Int /\ j \in Int BY <1>7
    <3>3. QED BY <3>1, <3>2
  <2>3. QED BY <1>3, <2>1, <2>2 DEF BacklogAfter
<1>18. TempsAfter(g)
  <2>1. temp' \in [Objects -> Sockets \cup {None}] BY <1>0, OwnedStates
  <2>2. ASSUME NEW q \in Objects, temp[q] # None PROVE g[temp[q]].state = "new"
    BY <1>8, <1>14, <2>2, OwnedStates
  <2>3. QED BY <1>0, <2>1, <2>2 DEF TempsAfter, IInv, Owned
<1>19. AllOwned(g, t)
  <2>1. ASSUME NEW e \in Sockets, NEW i \in DOMAIN backlog, backlog[i] = e
        PROVE  e = t \/ \E j \in DOMAIN backlog' : backlog'[j] = e
    <3>1. CASE i = 1 BY <1>4, <2>1, <3>1
    <3>2. CASE i # 1
      <4>1. i - 1 \in 1..(Len(backlog) - 1) /\ (i - 1) + 1 = i BY <1>1, <3>2
      <4>2. backlog'[i - 1] = backlog[i] BY <1>3, <4>1
      <4>3. QED BY <1>5, <2>1, <4>1, <4>2
    <3>3. QED BY <3>1, <3>2
  <2>2. \A e \in Sockets : e # t /\ g[e].state # "free" => sock[e].state # "free" BY <1>14
  <2>3. QED BY <1>0, <2>1, <2>2 DEF AllOwned, IInv, Owned
<1>20. ASSUME NEW q \in Objects PROVE Count(q)' /\ RestIs(q)' /\ EofOf(q)'
  <2>1. fd[q] # None => Other(sock'[fd[q]], sock[fd[q]]) BY <1>16 DEF NotTouched
  <2>2. QED BY <1>0, <2>1, ObjectKept
<1>21. g[t].state = "free" BY <1>13, FreeTyped
<1>22. QED BY <1>0, <1>10, <1>13, <1>15, <1>16, <1>17, <1>18, <1>19, <1>20, <1>21, DroppedStep

\* A new descriptor, of the object that connect is making.
LEMMA NewSocketStep ==
  ASSUME IInv, NEW o \in Objects, NEW nonblock \in BOOLEAN, NewSocket(o, nonblock)
  PROVE  IInv'
<1>0. /\ call[o] = Idle /\ Free # {} /\ temp' = [temp EXCEPT ![o] = Lowest]
      /\ sock' = [sock EXCEPT ![Lowest].state = "new", ![Lowest].nonblock = nonblock]
      /\ call' = [call EXCEPT ![o] = [op |-> "connect"]]
      /\ listening' = listening /\ backlog' = backlog /\ fd' = fd /\ readable' = readable
      /\ buf' = buf
  BY DEF NewSocket, IsIdle, Begins, serverVars
<1>1. PICK l \in Sockets : l = Lowest /\ sock[l].state = "free" BY <1>0, LowestFree
<1>2. sock \in [Sockets -> SocketType] /\ KernelSound(sock) /\ QueueFaithful(sock) BY OwnedStates
<1> DEFINE r == [FreeSock EXCEPT !.state = "new", !.nonblock = nonblock]
<1>3. /\ r \in SocketType /\ r.state = "new" /\ r.peer = None /\ r.queue = NoBytes /\ ~r.fin
      /\ r.given = NoBytes /\ r.sent = 0 /\ ~r.split
  BY FreeTyped DEF SocketType, SocketStates
<1>4. sock[l] = FreeSock BY <1>1, <1>2 DEF KernelSound
<1>5. PICK g : g = sock' OBVIOUS
<1>6. g = [sock EXCEPT ![l] = r]
  <2>1. g = [sock EXCEPT ![l].state = "new", ![l].nonblock = nonblock] BY <1>0, <1>1, <1>5
  <2>2. QED BY <1>2, <1>4, <2>1
<1> HIDE DEF r
<1>7. g \in [Sockets -> SocketType] /\ g[l] = r /\ \A e \in Sockets : e # l => g[e] = sock[e]
  BY <1>2, <1>3, <1>6
<1>8. \A e \in Sockets : sock[e].peer # None => /\ e # l /\ g[e] = sock[e]
                                                /\ g[sock[e].peer] = sock[sock[e].peer]
  <2>1. \A e \in Sockets : sock[e].peer # None =>
          e # l /\ sock[e].peer \in Sockets /\ sock[sock[e].peer].peer = e
    BY <1>2, <1>4, FreeTyped DEF KernelSound, SocketType
  <2>2. \A e \in Sockets : sock[e].peer # l BY <1>4, <2>1, FreeTyped, SizesAssumption
  <2>3. QED BY <1>7, <2>1, <2>2
<1>9. KernelSound(g)
  <2>1. ASSUME NEW e \in Sockets
        PROVE  /\ g[e].state = "free" => g[e] = FreeSock
               /\ g[e].state \in {"new", "connecting"} =>
                    g[e].peer = None /\ g[e].queue = NoBytes /\ ~g[e].fin /\ ~g[e].split
               /\ g[e].state = "new" => g[e].given = NoBytes
               /\ g[e].peer # None =>
                    /\ g[e].peer # e /\ g[e].state = "up" /\ ~g[e].fin /\ g[g[e].peer].peer = e
                    /\ Len(g[g[e].peer].queue) <= g[e].sent
               /\ Len(g[e].queue) <= QueueCap
               /\ g[e].sent <= Len(g[e].given) /\ (g[e].peer = None => g[e].sent = 0)
    <3>1. CASE e = l
      <4>1. Len(NoBytes) = 0 /\ 0 <= QueueCap BY NoBytesAre, SizesAssumption
      <4>2. QED BY <1>3, <1>7, <3>1, <4>1
    <3>2. CASE e # l
      <4>1. g[e] = sock[e] BY <1>7, <3>2
      <4>2. g[e].peer # None => g[g[e].peer] = sock[sock[e].peer] BY <1>8, <4>1
      <4>3. QED BY <1>2, <4>1, <4>2 DEF KernelSound
    <3>3. QED BY <3>1, <3>2
  <2>2. QED BY <2>1 DEF KernelSound
<1>10. QueueFaithful(g)
  <2>1. ASSUME NEW e \in Sockets, g[e].peer # None
        PROVE  g[e] = sock[e] /\ g[g[e].peer] = sock[sock[e].peer]
    BY <1>3, <1>7, <1>8, <2>1
  <2>2. QED BY <1>2, <2>1 DEF QueueFaithful
<1>11. /\ \A q \in Objects : fd[q] # l /\ temp[q] # l
       /\ \A i \in DOMAIN backlog : backlog[i] # l
  BY <1>1, OwnedStates, SizesAssumption
<1>12. /\ temp' \in [Objects -> Sockets \cup {None}] /\ temp'[o] = l
       /\ \A q \in Objects : q # o => temp'[q] = temp[q]
  BY <1>0, <1>1, OwnedStates
<1>13. /\ call' \in [Objects -> CallType] /\ call'[o] = [op |-> "connect"]
       /\ \A q \in Objects : q # o => call'[q] = call[q]
  <2>1. call \in [Objects -> CallType] /\ [op |-> "connect"] \in CallType
    BY OwnedStates DEF CallType
  <2>2. QED BY <1>0, <2>1
<1>14. temp[o] = None
  <2>1. call[o].op # "connect" BY <1>0 DEF Idle
  <2>2. QED BY <2>1 DEF IInv, Owned
<1>15. Shapes' BY <1>0, <1>5, <1>7, <1>12, <1>13 DEF IInv, Shapes
<1>16. BacklogFresh'
  <2>1. \A i \in DOMAIN backlog : Other(sock'[backlog[i]], sock[backlog[i]])
    BY <1>5, <1>7, <1>11, OwnedStates DEF Other
  <2>2. QED BY <1>0, <2>1, BacklogKept
<1>17. Owned'
  <2>1. ASSUME NEW q \in Objects
        PROVE  /\ fd[q] # None => g[fd[q]].state \notin {"free", "new"}
               /\ temp'[q] # None => g[temp'[q]].state = "new"
               /\ temp'[q] # None <=> call'[q].op = "connect"
               /\ \A p \in Objects : temp'[q] = temp'[p] /\ temp'[q] # None => q = p
    <3>1. /\ fd[q] # None => fd[q] \in Sockets /\ sock[fd[q]].state \notin {"free", "new"}
          /\ temp[q] # None => temp[q] \in Sockets /\ sock[temp[q]].state = "new"
      BY OwnedStates
    <3>2. fd[q] # None => g[fd[q]].state \notin {"free", "new"} BY <1>7, <1>11, <3>1
    <3>3. temp'[q] # None => g[temp'[q]].state = "new" BY <1>3, <1>7, <1>11, <1>12, <3>1
    <3>4. temp'[q] # None <=> call'[q].op = "connect"
      BY <1>12, <1>13, SizesAssumption DEF IInv, Owned
    <3>5. \A p \in Objects : temp[q] = temp[p] /\ temp[q] # None => q = p BY DEF IInv, Owned
    <3>6. \A p \in Objects : temp'[q] = temp'[p] /\ temp'[q] # None => q = p
      BY <1>11, <1>12, <3>5
    <3>7. QED BY <3>2, <3>3, <3>4, <3>6
  <2>2. ASSUME NEW e \in Sockets, g[e].state # "free"
        PROVE  \/ \E q \in Objects : fd[q] = e \/ temp'[q] = e
               \/ \E i \in DOMAIN backlog : backlog[i] = e
    <3>1. CASE e = l BY <1>12, <3>1
    <3>2. CASE e # l
      <4>1. sock[e].state # "free" BY <1>7, <2>2, <3>2
      <4>2. \/ \E q \in Objects : fd[q] = e \/ temp[q] = e
            \/ \E i \in DOMAIN backlog : backlog[i] = e
        BY <4>1 DEF IInv, Owned
      <4>3. \A q \in Objects : temp[q] = e => temp'[q] = e BY <1>12, <1>14, SizesAssumption
      <4>4. QED BY <4>2, <4>3
    <3>3. QED BY <3>1, <3>2
  <2>3. /\ \A q \in Objects :
             /\ \A p \in Objects : fd[q] = fd[p] /\ fd[q] # None => q = p
             /\ \A i \in DOMAIN backlog : fd[q] # backlog[i]
        /\ \A i, j \in DOMAIN backlog : backlog[i] = backlog[j] => i = j
    BY DEF IInv, Owned
  <2>4. sock' = g /\ backlog' = backlog /\ fd' = fd BY <1>0, <1>5
  <2>5. QED BY <2>1, <2>2, <2>3, <2>4 DEF Owned
<1>18. ASSUME NEW q \in Objects PROVE Count(q)' /\ RestIs(q)' /\ EofOf(q)'
  <2>0. fd[q] # None => sock'[fd[q]] = sock[fd[q]] BY <1>5, <1>7, <1>11, OwnedStates
  <2>1. CASE q # o
    <3>1. fd[q] # None => Other(sock'[fd[q]], sock[fd[q]]) BY <2>0 DEF Other
    <3>2. QED BY <1>0, <1>13, <2>1, <3>1, ObjectKept
  <2>2. CASE q = o
    <3>1. call'[o].op \in {"none", "connect"} /\ call[o].op \in {"none", "connect"}
      BY <1>0, <1>13 DEF Idle
    <3>2. QED BY <1>0, <2>0, <2>2, <3>1, ConnectKept
  <2>3. QED BY <2>1, <2>2
<1>19. QED BY <1>5, <1>9, <1>10, <1>15, <1>16, <1>17, <1>18 DEF IInv

(***************************************************************************)
(* The theorems                                                            *)
(***************************************************************************)
\* There are no connections at the start.
LEMMA InitIsSound == Init => IInv
<1> SUFFICES ASSUME Init PROVE IInv OBVIOUS
<1>1. /\ \A s \in Sockets : sock[s] = FreeSock
      /\ sock = [s \in Sockets |-> FreeSock] /\ backlog = NoBytes /\ listening = TRUE
      /\ fd = [o \in Objects |-> None] /\ temp = [o \in Objects |-> None]
      /\ readable = [o \in Objects |-> TRUE] /\ buf = [o \in Objects |-> NoBytes]
      /\ call = [o \in Objects |-> Idle]
  BY DEF Init
<1>2. backlog \in Seq(Sockets) /\ DOMAIN backlog = {}
  <2>1. backlog \in Seq(Sockets) /\ Len(backlog) = 0 BY <1>1, EmptySeq DEF NoBytes
  <2>2. QED BY <2>1, LenProperties
<1>3. Shapes
  <2>1. Idle \in CallType /\ NoBytes \in Bytes BY NoBytesAre DEF CallType
  <2>2. sock \in [Sockets -> SocketType] BY <1>1, FreeTyped
  <2>3. QED BY <1>1, <1>2, <2>1, <2>2 DEF Shapes
<1>4. KernelSound(sock)
  <2>1. Len(NoBytes) = 0 /\ 0 <= QueueCap BY NoBytesAre, SizesAssumption
  <2>2. QED BY <1>1, <2>1, FreeTyped DEF KernelSound
<1>5. QueueFaithful(sock) BY <1>1, FreeTyped DEF QueueFaithful
<1>6. BacklogFresh BY <1>2 DEF BacklogFresh
<1>7. Owned BY <1>1, <1>2, FreeTyped DEF Owned, Idle
<1>8. \A o \in Objects : Count(o) /\ RestIs(o) /\ EofOf(o)
  BY <1>1 DEF Count, RestIs, EofOf, Idle
<1>9. QED BY <1>3, <1>4, <1>5, <1>6, <1>7, <1>8 DEF IInv

\* Every step, of the callers, of the loops and of the kernel.
LEMMA NextKeeps == IInv /\ [Next]_vars => IInv'
<1> SUFFICES ASSUME IInv, [Next]_vars PROVE IInv' OBVIOUS
<1>1. ASSUME NEW o \in Objects, Calls(o) PROVE IInv'
  <2>1. CASE SyncConnect(o) BY <2>1, NewSocketStep DEF SyncConnect
  <2>2. CASE \E nonblock \in BOOLEAN : AsyncConnect(o, nonblock)
    BY <2>2, NewSocketStep DEF AsyncConnect
  <2>3. CASE Accept(o) \/ AcceptDropped(o) BY <2>3, AcceptStep, AcceptDroppedStep
  <2>4. CASE SyncClose(o) \/ AsyncClose(o) BY <2>4, CloseFdStep
  <2>5. CASE SetReadTimeout(o) \/ SetWriteTimeout(o) \/ \E opt \in BOOLEAN : SetNonblock(o, opt)
    BY <2>5, OptionStep
  <2>6. CASE \E n \in 1..MaxLen : SyncWrite(o, n) BY <2>6, SyncWriteStep
  <2>7. CASE \E n \in 1..MaxLen : SyncRead(o, n) \/ ReadExact(o, n) \/ AsyncRead(o, n)
    BY <2>7, ReadSteps
  <2>8. CASE \E n \in 1..MaxLen : WriteExact(o, n) \/ Put(o, n) \/ ReadInBuffer(o, n)
    BY <2>8, GiveSteps
  <2>9. CASE \E n \in 1..MaxLen : WriteFromBuffer(o, n) BY <2>9, WriteFromBufferStep
  <2>10. CASE \E n \in 1..MaxLen : WritesNothing(o, n) BY <2>10, WritesNothingStep
  <2>11. CASE AsyncSendFails(o) \/ AsyncReadFails(o) BY <2>11, FailStep
  <2>12. CASE AsyncReadEnds(o) BY <2>12, ReadEndsStep
  <2>13. QED
    BY <1>1, <2>1, <2>2, <2>3, <2>4, <2>5, <2>6, <2>7, <2>8, <2>9, <2>10, <2>11, <2>12 DEF Calls
<1>2. ASSUME NEW o \in Objects, Connecting(o) PROVE IInv'
  BY <1>2, HandshakeStep, InProgressStep, ConnectFailsStep, ConnectDroppedStep DEF Connecting
<1>3. ASSUME NEW o \in Objects, GoesOn(o) PROVE IInv'
  <2>1. CASE WriteExactSends(o) BY <2>1, WriteExactSendsStep
  <2>2. CASE SyncSendFails(o) BY <2>2, WriteErrorStep DEF SyncSendFails
  <2>3. CASE ReadExactReceives(o) BY <2>3, ReadSteps
  <2>4. CASE SyncReadEnds(o) BY <2>4, ReadEndsStep
  <2>5. CASE SyncReadFails(o) BY <2>5, FailStep DEF SyncReadFails
  <2>6. QED BY <1>3, <2>1, <2>2, <2>3, <2>4, <2>5 DEF GoesOn
<1>4. CASE Kernel BY <1>4, CompletesStep, IsRefusedStep, BreaksStep DEF Kernel
<1>5. CASE Listen \/ UNCHANGED vars BY <1>5, ListenStep
<1>6. CASE CloseServer BY <1>6, CloseServerStep
<1>7. ASSUME NEW o \in Objects, Interrupted(o) PROVE IInv'
  BY <1>7, WriteErrorStep, FailStep DEF Interrupted
<1>8. QED BY <1>1, <1>2, <1>3, <1>4, <1>5, <1>6, <1>7 DEF Next

\* The inductive invariant holds in every state that is reached.
LEMMA AlwaysIInv == Spec => []IInv
<1>1. QED BY InitIsSound, NextKeeps, PTL DEF Spec

\* What Owned says of a descriptor is what OwnedOnce counts.
LEMMA OwnersCounted == IInv => OwnedOnce
<1> SUFFICES ASSUME IInv, NEW s \in Sockets
             PROVE  Cardinality({o \in Objects : fd[o] = s})
                      + Cardinality({o \in Objects : temp[o] = s})
                      + Cardinality({i \in DOMAIN backlog : backlog[i] = s})
                    = IF sock[s].state = "free" THEN 0 ELSE 1
  BY DEF OwnedOnce, Owners
<1> DEFINE F == {o \in Objects : fd[o] = s}
           T == {o \in Objects : temp[o] = s}
           B == {i \in DOMAIN backlog : backlog[i] = s}
<1>1. s # None BY SizesAssumption
<1>2. /\ \A o \in F, q \in F : o = q
      /\ \A o \in T, q \in T : o = q
      /\ \A i \in B, j \in B : i = j
  BY <1>1 DEF IInv, Owned
<1>3. /\ F # {} => sock[s].state \notin {"free", "new"}
      /\ T # {} => sock[s].state = "new"
      /\ B # {} => sock[s].state \in {"up", "dead"}
      /\ sock[s].state # "free" => F # {} \/ T # {} \/ B # {}
  <2>1. \A o \in F : sock[s].state \notin {"free", "new"} BY <1>1, OwnedStates
  <2>2. \A o \in T : sock[s].state = "new" BY <1>1, OwnedStates
  <2>3. \A i \in B : sock[s].state \in {"up", "dead"} BY OwnedStates
  <2>4. sock[s].state # "free" => F # {} \/ T # {} \/ B # {} BY DEF IInv, Owned
  <2> HIDE DEF F, T, B
  <2>5. QED BY <2>1, <2>2, <2>3, <2>4
<1>4. F = {} \/ B = {} BY DEF IInv, Owned
<1> HIDE DEF F, T, B
<1>5. ASSUME NEW S, \A x \in S, y \in S : x = y
      PROVE  Cardinality(S) = IF S = {} THEN 0 ELSE 1
  <2>1. CASE S = {} BY <2>1, FS_EmptySet
  <2>2. CASE S # {}
    <3>1. PICK x \in S : TRUE BY <2>2
    <3>2. S = {x} BY <1>5, <3>1
    <3>3. Cardinality({x}) = 1 BY FS_Singleton
    <3>4. QED BY <2>2, <3>2, <3>3
  <2>3. QED BY <2>1, <2>2
<1>6. /\ Cardinality(F) = IF F = {} THEN 0 ELSE 1
      /\ Cardinality(T) = IF T = {} THEN 0 ELSE 1
      /\ Cardinality(B) = IF B = {} THEN 0 ELSE 1
  BY <1>2, <1>5
<1>7. Cardinality(F) + Cardinality(T) + Cardinality(B) = IF sock[s].state = "free" THEN 0 ELSE 1
  BY <1>3, <1>4, <1>6
<1>8. QED BY <1>7 DEF F, T, B

\* Types, and that the two ends of a connection agree on it: neither outlives the
\* other as a peer, and what is on its way never exceeds what the kernel holds.
THEOREM TypeIsCorrect == Spec => []TypeOK
<1>1. ASSUME IInv PROVE TypeOK
  <2>1. ToSet(backlog) \subseteq Sockets BY <1>1, OwnedStates DEF ToSet
  <2>2. ASSUME NEW s \in Sockets
        PROVE  /\ sock[s].state \in {"free", "new", "connecting", "up", "dead"}
               /\ sock[s].peer \in Sockets \cup {None} /\ sock[s].sent \in 0..MaxGiven
               /\ sock[s].queue \in Bytes /\ sock[s].given \in Bytes
               /\ Len(sock[s].queue) <= QueueCap
               /\ {sock[s].fin, sock[s].error, sock[s].nonblock, sock[s].split,
                   sock[s].readTimeout, sock[s].writeTimeout} \subseteq BOOLEAN
               /\ sock[s].peer # None => sock[s].state = "up" /\ sock[sock[s].peer].peer = s
    <3>1. sock[s] \in SocketType BY <1>1, OwnedStates
    <3>2. /\ Len(sock[s].queue) <= QueueCap
          /\ sock[s].peer # None => sock[s].state = "up" /\ sock[sock[s].peer].peer = s
      BY <1>1, OwnedStates DEF KernelSound
    <3>3. QED BY <3>1, <3>2 DEF SocketType, SocketStates
  <2>3. ASSUME NEW o \in Objects
        PROVE  call[o].op \in Ops /\ (call[o].op \in {"read", "write"} => fd[o] # None)
    <3>1. call[o] \in CallType BY <1>1, OwnedStates
    <3>2. call[o].op \in Ops BY <3>1 DEF CallType, Ops, Idle
    <3>3. QED BY <1>1, <3>2 DEF IInv, Count
  <2>4. QED BY <1>1, <2>1, <2>2, <2>3 DEF TypeOK, IInv, Shapes
<1>2. QED BY <1>1, AlwaysIInv, PTL

\* Whatever is refused, reset, moved over, closed or thrown, in whichever order: every
\* descriptor in use has one owner, an object, the one that connect is making or the
\* backlog, and a free one has none.
THEOREM DescriptorsAlwaysOwned == Spec => []OwnedOnce
<1>1. QED BY OwnersCounted, AlwaysIInv, PTL

\* An object that says it cannot be read has nothing more to read, ever.
THEOREM EofAlwaysTrue == Spec => []EofIsTrue
<1>1. IInv => EofIsTrue BY DEF IInv, EofOf, EofIsTrue
<1>2. QED BY <1>1, AlwaysIInv, PTL

\* Of a connection no transfer of which was cut, the peer reads what the caller has
\* given, in its order and nothing twice: what is on its way and what the buffer holds
\* are the end of it.
THEOREM StreamAlwaysFaithful == Spec => []StreamFaithful
<1>1. ASSUME IInv PROVE StreamFaithful
  <2>1. ASSUME NEW s \in Sockets, sock[s].peer # None, ~sock[s].split
        PROVE  /\ sock[sock[s].peer].queue =
                    SubSeq(sock[s].given, sock[s].sent - Len(sock[sock[s].peer].queue) + 1,
                           sock[s].sent)
               /\ \A o \in Async : fd[o] = s =>
                    buf[o] = SubSeq(sock[s].given, sock[s].sent + 1, Len(sock[s].given))
    <3>1. sock[sock[s].peer].queue =
            SubSeq(sock[s].given, sock[s].sent - Len(sock[sock[s].peer].queue) + 1, sock[s].sent)
      BY <1>1, <2>1 DEF IInv, QueueFaithful
    <3>2. ASSUME NEW o \in Async, fd[o] = s PROVE buf[o] = Rest(s)
      <4>1. o \in Objects /\ s # None /\ Waits(s) BY <2>1, SizesAssumption DEF Waits
      <4>2. RestIs(o) BY <1>1, <4>1 DEF IInv
      <4>3. QED BY <2>1, <3>2, <4>1, <4>2 DEF RestIs
    <3>3. QED BY <3>1, <3>2 DEF Rest
  <2>2. QED BY <2>1 DEF StreamFaithful
<1>2. QED BY <1>1, AlwaysIInv, PTL


(***************************************************************************)
(* The asynchronous server                                                 *)
(***************************************************************************)
\* accept_connections has a descriptor only between accept and add_to_event_loop.
HeldMatches == held # NoFd <=> pc = "register"

\* A batch exists while it is handled, and names each descriptor once.
BatchMatches ==
  /\ pc \notin {"events", "accept", "register"} => batch = {}
  /\ \A d, e \in batch \ {AcceptEvent} : d.fd = e.fd => d = e

\* An exception is remembered until event_loop is called again.
LeftMatches == pc # "idle" => left = "none"

ServerInv ==
  /\ ServerTypeOK /\ HeldMatches /\ BatchMatches /\ LeftMatches
  /\ ClientsConsistent /\ EventsAreCurrent

\* The descriptor that accept and socket return is a free one.
LEMMA LowestFdFree == FreeFds # {} => LowestFd(FreeFds) \in FreeFds
<1>1. FreeFds \in SUBSET Nat BY FdsAssumption DEF FreeFds
<1>2. QED BY <1>1, LeastNatural DEF LowestFd

\* The events of a batch: descriptors and connections of clients, or accepts.
LEMMA EventTyped == ASSUME ServerTypeOK, NEW e \in batch, e # AcceptEvent
                    PROVE  e.fd \in Fds /\ e.conn \in Conns /\ e.hup \in BOOLEAN
BY DEF ServerTypeOK, Events

\* The server starts with no clients and no epoll.
LEMMA InitServerInv == ServerInit => ServerInv
<1> SUFFICES ASSUME ServerInit PROVE ServerInv OBVIOUS
<1> USE FdsAssumption, ConnsAssumption, ConfigsAssumption, LoopsAssumption DEF ServerInit
<1>1. ServerTypeOK
  <2>1. waiting \in Seq(Conns) BY EmptySeq
  <2>2. fdTable \in [Fds -> Conns \cup {NoConn}] OBVIOUS
  <2>3. batch \subseteq Events /\ loops \in 0..MaxLoops /\ pc \notin {"accept", "register"}
    OBVIOUS
  <2> HIDE DEF ServerInit
  <2>4. QED BY <2>1, <2>2, <2>3 DEF ServerTypeOK, ServerInit
<1>2. HeldMatches /\ LeftMatches BY DEF HeldMatches, LeftMatches
<1>3. BatchMatches BY DEF BatchMatches
<1>4. ClientsConsistent
  BY DEF ClientsConsistent, DescriptorsOwnedOnce, LoopServesAll, Running, NoFd
<1>5. EventsAreCurrent BY DEF EventsAreCurrent
<1>6. QED BY <1>1, <1>2, <1>3, <1>4, <1>5 DEF ServerInv

(***************************************************************************)
(* The environment and the caller                                          *)
(***************************************************************************)
LEMMA EnvironmentStep == ASSUME ServerInv, Environment PROVE ServerInv'
<1> USE FdsAssumption, ConnsAssumption, ConfigsAssumption DEF ServerInv
<1>1. CASE Stop
  <2> USE <1>1 DEF Stop, peers
  <2>1. ServerTypeOK' BY DEF ServerTypeOK
  <2>2. (HeldMatches /\ BatchMatches /\ LeftMatches)' BY DEF HeldMatches, BatchMatches, LeftMatches
  <2>3. ClientsConsistent' BY DEF ClientsConsistent, DescriptorsOwnedOnce, LoopServesAll, Running
  <2>4. EventsAreCurrent' BY DEF EventsAreCurrent
  <2>5. QED BY <2>1, <2>2, <2>3, <2>4
<1>2. ASSUME NEW c \in Conns, Connect(c) \/ HangUp(c) PROVE ServerInv'
  <2> USE <1>2 DEF Connect, HangUp
  <2>1. ServerTypeOK'
    <3>1. waiting' \in Seq(Conns) BY AppendProperties DEF ServerTypeOK
    <3>2. QED BY <3>1 DEF ServerTypeOK
  <2>2. (HeldMatches /\ BatchMatches /\ LeftMatches)' BY DEF HeldMatches, BatchMatches, LeftMatches
  <2>3. ClientsConsistent' BY DEF ClientsConsistent, DescriptorsOwnedOnce, LoopServesAll, Running
  <2>4. EventsAreCurrent' BY DEF EventsAreCurrent
  <2>5. QED BY <2>1, <2>2, <2>3, <2>4
<1>3. QED BY <1>1, <1>2 DEF Environment

\* What the caller of event_loop does between two calls.
LEMMA CallerStep == ASSUME ServerInv, Caller PROVE ServerInv'
<1> USE FdsAssumption, ConnsAssumption, ConfigsAssumption, LoopsAssumption DEF ServerInv, peers
<1>1. CASE Call
  <2> USE <1>1 DEF Call
  <2>1. ServerTypeOK' BY DEF ServerTypeOK
  <2>2. (HeldMatches /\ BatchMatches /\ LeftMatches)' BY DEF HeldMatches, BatchMatches, LeftMatches
  <2>3. ClientsConsistent' BY DEF ClientsConsistent, DescriptorsOwnedOnce, LoopServesAll, Running
  <2>4. EventsAreCurrent' BY DEF EventsAreCurrent
  <2>5. QED BY <2>1, <2>2, <2>3, <2>4
<1>2. ASSUME NEW c \in Conns, Prepare(c) PROVE ServerInv'
  <2>1. PICK desc \in Fds : /\ fdTable[desc] = NoConn /\ fdTable' = [fdTable EXCEPT ![desc] = c]
                          /\ clients' = clients \cup {desc}
                          /\ registered' = IF epoll THEN registered \cup {desc} ELSE registered
    BY <1>2, LowestFdFree DEF Prepare, FreeFds
  <2>2. /\ arrived' = arrived \cup {c} /\ pc = "idle"
        /\ UNCHANGED <<is_stoped, waiting, hup, epoll, held, count, pc, batch, victims, left,
                       cfg, loops>>
    BY <1>2 DEF Prepare
  <2>3. held = NoFd /\ batch = {} BY <2>2 DEF HeldMatches, BatchMatches
  <2> USE <2>2, <2>3
  <2>9. ServerTypeOK'
    <3>1. fdTable' \in [Fds -> Conns \cup {NoConn}] BY <2>1 DEF ServerTypeOK
    <3>2. QED BY <2>1, <3>1 DEF ServerTypeOK
  <2>4. (HeldMatches /\ BatchMatches /\ LeftMatches)' BY DEF HeldMatches, BatchMatches, LeftMatches
  <2>5. ClientsConsistent'
    BY <2>1 DEF ClientsConsistent, DescriptorsOwnedOnce, LoopServesAll, Running, ServerTypeOK, NoFd
  <2>6. EventsAreCurrent' BY DEF EventsAreCurrent
  <2>7. QED BY <2>9, <2>4, <2>5, <2>6
<1>3. ASSUME NEW desc \in Fds, Release(desc) PROVE ServerInv'
  <2> USE <1>3 DEF Release, Erased
  <2>1. batch = {} /\ held = NoFd BY DEF BatchMatches, HeldMatches
  <2>2. ServerTypeOK' BY DEF ServerTypeOK
  <2>3. (HeldMatches /\ BatchMatches /\ LeftMatches)' BY DEF HeldMatches, BatchMatches, LeftMatches
  <2>4. ClientsConsistent'
    BY <2>1 DEF ClientsConsistent, DescriptorsOwnedOnce, LoopServesAll, Running, ServerTypeOK, NoFd
  <2>5. EventsAreCurrent' BY <2>1 DEF EventsAreCurrent
  <2>6. QED BY <2>2, <2>3, <2>4, <2>5
<1>4. QED BY <1>1, <1>2, <1>3 DEF Caller

(***************************************************************************)
(* event_loop around a batch                                               *)
(***************************************************************************)
LEMMA BeginStep == ASSUME ServerInv, Begin \/ BeginFails PROVE ServerInv'
<1> USE FdsAssumption, ConnsAssumption, ConfigsAssumption DEF ServerInv, peers
<1>1. /\ pc = "begin" /\ epoll' = TRUE /\ is_stoped' = FALSE
      /\ \/ pc' = "loop" /\ registered' = clients /\ UNCHANGED left
         \/ pc' = "idle" /\ left' = "EpollAddError" /\ registered' \subseteq clients
      /\ UNCHANGED <<peers, fdTable, clients, held, count, batch, victims, cfg, loops>>
  BY DEF Begin, BeginFails, Registrations
<1> USE <1>1
<1>2. batch = {} /\ held = NoFd BY DEF BatchMatches, HeldMatches
<1>3. ServerTypeOK' BY DEF ServerTypeOK
<1>4. (HeldMatches /\ BatchMatches /\ LeftMatches)'
  BY <1>2 DEF HeldMatches, BatchMatches, LeftMatches
<1>5. ClientsConsistent' BY DEF ClientsConsistent, DescriptorsOwnedOnce, LoopServesAll, Running
<1>6. EventsAreCurrent' BY <1>2 DEF EventsAreCurrent, LeftMatches
<1>7. QED BY <1>3, <1>4, <1>5, <1>6

\* The loop's own turns, between one batch of events and the next.
LEMMA WaitStep == ASSUME ServerInv, EnterWait \/ Exit \/ ReturnEmpty \/ EndBatch PROVE ServerInv'
<1> USE FdsAssumption, ConnsAssumption, ConfigsAssumption DEF ServerInv, peers
<1>1. /\ pc \in {"loop", "wait", "events"} /\ batch' = {}
      /\ \/ pc' \in {"loop", "wait"} /\ UNCHANGED <<epoll, registered, left>>
         \/ pc' = "idle" /\ left' = "stopped" /\ registered' = {} /\ epoll' = FALSE
      /\ UNCHANGED <<is_stoped, peers, fdTable, clients, held, count, victims, cfg, loops>>
  BY DEF EnterWait, Exit, ReturnEmpty, EndBatch, BatchMatches
<1> USE <1>1
<1>2. held = NoFd BY DEF HeldMatches
<1>3. ServerTypeOK' BY DEF ServerTypeOK
<1>4. (HeldMatches /\ BatchMatches /\ LeftMatches)'
  BY <1>2 DEF HeldMatches, BatchMatches, LeftMatches
<1>5. ClientsConsistent' BY DEF ClientsConsistent, DescriptorsOwnedOnce, LoopServesAll, Running
<1>6. EventsAreCurrent' BY DEF EventsAreCurrent, LeftMatches
<1>7. QED BY <1>3, <1>4, <1>5, <1>6

\* Each event of a new batch names a registered descriptor and its connection.
LEMMA ReturnStep == ASSUME ServerInv, ReturnEvents PROVE ServerInv'
<1> USE FdsAssumption, ConnsAssumption, ConfigsAssumption DEF ServerInv, peers
<1> USE DEF ReturnEvents
<1>1. pc = "wait" /\ pc' = "events" /\ held = NoFd /\ left = "none" /\ registered = clients
  BY DEF HeldMatches, LeftMatches, ClientsConsistent, LoopServesAll, Running
<1>2. \A desc \in registered : desc \in Fds /\ fdTable[desc] \in Conns
  BY <1>1 DEF ServerTypeOK, ClientsConsistent, DescriptorsOwnedOnce, NoFd
<1>3. ASSUME NEW e \in batch', e # AcceptEvent
      PROVE  \E desc \in registered, b \in BOOLEAN :
               /\ b <=> fdTable[desc] \in hup
               /\ e = [fd |-> desc, conn |-> fdTable[desc], hup |-> b]
  <2>1. e \in HupEvents \cup DataEvents BY <1>3 DEF Sure, AcceptReady
  <2>2. CASE e \in HupEvents BY <2>2 DEF HupEvents, EventsOf
  <2>3. CASE e \in DataEvents
    <3>1. PICK desc \in registered : /\ fdTable[desc] \notin hup
                                   /\ e = [fd |-> desc, conn |-> fdTable[desc], hup |-> FALSE]
      BY <2>3 DEF DataEvents, EventsOf
    <3>2. FALSE \in BOOLEAN /\ (FALSE <=> fdTable[desc] \in hup) BY <3>1
    <3>3. QED BY <3>1, <3>2
  <2>4. QED BY <2>1, <2>2, <2>3
<1>4. batch' \subseteq Events
  <2>1. ASSUME NEW e \in batch', e # AcceptEvent PROVE e \in [fd : Fds, conn : Conns, hup : BOOLEAN]
    BY <1>2, <1>3, <2>1
  <2>2. QED BY <2>1 DEF Events
<1>5. ServerTypeOK' BY <1>1, <1>4 DEF ServerTypeOK
<1>6. (HeldMatches /\ LeftMatches)' BY <1>1 DEF HeldMatches, LeftMatches
<1>7. BatchMatches' BY <1>1, <1>3 DEF BatchMatches
<1>8. ClientsConsistent'
  BY <1>1 DEF ClientsConsistent, DescriptorsOwnedOnce, LoopServesAll, Running
<1>9. EventsAreCurrent' BY <1>1, <1>3 DEF EventsAreCurrent
<1>10. QED BY <1>5, <1>6, <1>7, <1>8, <1>9

(***************************************************************************)
(* accept_connections                                                      *)
(***************************************************************************)
LEMMA AcceptsStep ==
  ASSUME ServerInv, TakeAccept \/ EndAccept \/ AcceptOne \/ AcceptFails PROVE ServerInv'
<1> USE FdsAssumption, ConnsAssumption, ConfigsAssumption DEF ServerInv, peers
<1>1. CASE TakeAccept
  <2> USE <1>1 DEF TakeAccept, Takes
  <2>1. ServerTypeOK' BY DEF ServerTypeOK
  <2>2. (HeldMatches /\ BatchMatches /\ LeftMatches)' BY DEF HeldMatches, BatchMatches, LeftMatches
  <2>3. ClientsConsistent' BY DEF ClientsConsistent, DescriptorsOwnedOnce, LoopServesAll, Running
  <2>4. EventsAreCurrent' BY DEF EventsAreCurrent
  <2>5. QED BY <2>1, <2>2, <2>3, <2>4
<1>2. CASE EndAccept
  <2> USE <1>2 DEF EndAccept
  <2>1. ServerTypeOK' BY DEF ServerTypeOK
  <2>2. (HeldMatches /\ BatchMatches /\ LeftMatches)' BY DEF HeldMatches, BatchMatches, LeftMatches
  <2>3. ClientsConsistent' BY DEF ClientsConsistent, DescriptorsOwnedOnce, LoopServesAll, Running
  <2>4. EventsAreCurrent' BY DEF EventsAreCurrent
  <2>5. QED BY <2>1, <2>2, <2>3, <2>4
<1>3. CASE AcceptOne
  <2>1. PICK desc \in Fds : /\ fdTable[desc] = NoConn /\ held' = desc
                          /\ fdTable' = [fdTable EXCEPT ![desc] = Head(waiting)]
    BY <1>3, LowestFdFree DEF AcceptOne, FreeFds
  <2>2. /\ pc = "accept" /\ pc' = "register" /\ ~AcceptsDone /\ waiting' = Tail(waiting)
        /\ UNCHANGED <<is_stoped, arrived, hup, epoll, registered, clients, count, batch,
                       victims, left, cfg, loops>>
    BY <1>3 DEF AcceptOne
  <2>3. held = NoFd /\ desc \notin clients
    BY <2>1, <2>2 DEF HeldMatches, ClientsConsistent, DescriptorsOwnedOnce, NoFd
  <2>4. Head(waiting) \in Conns /\ waiting' \in Seq(Conns)
    BY <2>2, HeadTailProperties DEF ServerTypeOK, AcceptsDone
  <2>5. ServerTypeOK'
    <3>1. fdTable' \in [Fds -> Conns \cup {NoConn}] BY <2>1, <2>4 DEF ServerTypeOK
    <3>2. QED BY <2>1, <2>2, <2>4, <3>1 DEF ServerTypeOK
  <2>6. (HeldMatches /\ BatchMatches /\ LeftMatches)'
    BY <2>1, <2>2 DEF HeldMatches, BatchMatches, LeftMatches, NoFd
  <2>7. ClientsConsistent'
    BY <2>1, <2>2, <2>3, <2>4 DEF ClientsConsistent, DescriptorsOwnedOnce, LoopServesAll,
                                  Running, ServerTypeOK, NoFd
  <2>8. EventsAreCurrent'
    <3>1. registered = clients BY <2>2 DEF ClientsConsistent, LoopServesAll, Running
    <3>2. \A x \in Fds \ {desc} : fdTable'[x] = fdTable[x] BY <2>1 DEF ServerTypeOK
    <3>3. QED BY <2>2, <2>3, <3>1, <3>2, EventTyped DEF EventsAreCurrent, ServerTypeOK
  <2>9. QED BY <2>5, <2>6, <2>7, <2>8
<1>4. CASE AcceptFails
  <2> USE <1>4 DEF AcceptFails, Throws
  <2>1. held = NoFd BY DEF HeldMatches
  <2>2. ServerTypeOK' BY DEF ServerTypeOK
  <2>3. (HeldMatches /\ BatchMatches /\ LeftMatches)'
    BY <2>1 DEF HeldMatches, BatchMatches, LeftMatches
  <2>4. ClientsConsistent' BY DEF ClientsConsistent, DescriptorsOwnedOnce, LoopServesAll, Running
  <2>5. EventsAreCurrent' BY DEF EventsAreCurrent
  <2>6. QED BY <2>2, <2>3, <2>4, <2>5
<1>5. QED BY <1>1, <1>2, <1>3, <1>4

\* The accepts that are left after one.
LEMMA CountedTyped ==
  ASSUME ServerTypeOK, pc = "register"
  PROVE  Counted = cfg.max_accept \/ Counted \in 0..cfg.max_accept
<1>1. cfg.max_accept \in Int BY ConfigsAssumption DEF ServerTypeOK
<1>2. count = cfg.max_accept \/ count \in 0..cfg.max_accept BY DEF ServerTypeOK
<1>3. QED BY <1>1, <1>2 DEF Counted

\* The descriptor that was accepted becomes a client's or is closed.
LEMMA RegisterStep == ASSUME ServerInv, Register \/ RegisterFails PROVE ServerInv'
<1> USE FdsAssumption, ConnsAssumption, ConfigsAssumption DEF ServerInv, peers
<1>1. /\ pc = "register" /\ held \in Fds /\ left = "none" /\ registered = clients
      /\ held \notin clients /\ fdTable[held] # NoConn
  <2>1. pc = "register" BY DEF Register, RegisterFails
  <2>2. held \in Fds /\ held # NoFd BY <2>1 DEF HeldMatches, ServerTypeOK
  <2>3. left = "none" /\ registered = clients
    BY <2>1 DEF LeftMatches, ClientsConsistent, LoopServesAll, Running
  <2>4. held \notin clients /\ fdTable[held] # NoConn
    BY <2>2 DEF ClientsConsistent, DescriptorsOwnedOnce
  <2>5. QED BY <2>1, <2>2, <2>3, <2>4
<1>2. PICK closed \in SUBSET (clients \cup {held}) :
        /\ clients' = (clients \cup {held}) \ closed
        /\ registered' = (registered \cup {held}) \ closed
        /\ fdTable' = [desc \in Fds |-> IF desc \in closed THEN NoConn ELSE fdTable[desc]]
        /\ victims' = victims \cup (closed \ {held})
        /\ held' = NoFd /\ is_stoped' \in BOOLEAN
        /\ UNCHANGED <<peers, epoll, cfg, loops>>
  <2>1. CASE Register BY <2>1 DEF Register, ServerTypeOK
  <2>2. CASE RegisterFails
    <3>1. /\ clients = (clients \cup {held}) \ {held} /\ victims = victims \cup ({held} \ {held})
          /\ registered = (registered \cup {held}) \ {held}
      BY <1>1
    <3>2. /\ UNCHANGED <<clients, registered, victims, is_stoped, peers, epoll, cfg, loops>>
          /\ held' = NoFd /\ fdTable' = [fdTable EXCEPT ![held] = NoConn]
      BY <2>2 DEF RegisterFails, Throws
    <3>3. fdTable' = [desc \in Fds |-> IF desc \in {held} THEN NoConn ELSE fdTable[desc]]
      BY <3>2 DEF ServerTypeOK
    <3>4. {held} \in SUBSET (clients \cup {held}) /\ is_stoped \in BOOLEAN BY DEF ServerTypeOK
    <3>5. QED BY <3>1, <3>2, <3>3, <3>4
  <2>3. QED BY <2>1, <2>2
<1>3. \/ pc' = "accept" /\ count' = Counted /\ UNCHANGED <<batch, left>>
      \/ pc' = "idle" /\ left' = "no_new_client" /\ batch' = {}
  BY DEF Register, RegisterFails, Throws
<1>4. ServerTypeOK'
  <2>1. fdTable' \in [Fds -> Conns \cup {NoConn}] BY <1>2 DEF ServerTypeOK
  <2>2. /\ clients' \subseteq Fds /\ registered' \subseteq Fds
        /\ victims' \subseteq Fds
    BY <1>1, <1>2 DEF ServerTypeOK
  <2>3. \/ count' = cfg'.max_accept \/ count' \in 0..cfg'.max_accept
        \/ pc' \notin {"accept", "register"}
    BY <1>1, <1>2, <1>3, CountedTyped
  <2>4. batch' \subseteq Events /\ left' \in {"none", "no_new_client"} BY <1>1, <1>3 DEF ServerTypeOK
  <2>5. QED BY <1>1, <1>2, <1>3, <2>1, <2>2, <2>3, <2>4 DEF ServerTypeOK
<1>5. (HeldMatches /\ BatchMatches /\ LeftMatches)'
  BY <1>1, <1>2, <1>3 DEF HeldMatches, BatchMatches, LeftMatches
<1>6. ClientsConsistent'
  <2>1. DescriptorsOwnedOnce'
    BY <1>1, <1>2 DEF ClientsConsistent, DescriptorsOwnedOnce, ServerTypeOK, NoFd
  <2>2. LoopServesAll'
    BY <1>1, <1>2, <1>3 DEF ClientsConsistent, LoopServesAll, Running
  <2>3. QED BY <2>1, <2>2 DEF ClientsConsistent
<1>7. EventsAreCurrent'
  <2>1. ASSUME NEW d \in batch' \ {AcceptEvent}
        PROVE  d.fd \in victims' \/ (d.fd \in registered' /\ fdTable'[d.fd] = d.conn)
    <3>1. d \in batch \ {AcceptEvent} BY <1>3, <2>1
    <3>2. d.fd \in Fds BY <3>1, EventTyped
    <3>3. d.fd \in victims \/ (d.fd \in registered /\ fdTable[d.fd] = d.conn)
      BY <3>1 DEF EventsAreCurrent
    <3>4. d.fd \in registered => d.fd # held BY <1>1
    <3>5. QED BY <1>2, <3>2, <3>3, <3>4
  <2>2. left' # "no_client" BY <1>1, <1>3
  <2>3. QED BY <2>1, <2>2 DEF EventsAreCurrent
<1>8. QED BY <1>4, <1>5, <1>6, <1>7

(***************************************************************************)
(* The events of clients                                                   *)
(***************************************************************************)
LEMMA HandleStep ==
  ASSUME ServerInv, NEW e \in batch, HandleHup(e) \/ Handle(e) PROVE ServerInv'
<1> USE FdsAssumption, ConnsAssumption, ConfigsAssumption DEF ServerInv, peers
<1>1. /\ pc = "events" /\ e # AcceptEvent /\ batch' = batch \ {e} /\ e.fd \in clients
      /\ UNCHANGED <<peers, epoll, held, count, pc, left, cfg, loops>>
  BY DEF HandleHup, Handle, TakesClient, Takes, Handled
<1>2. PICK closed \in SUBSET clients, others \in SUBSET clients :
        /\ closed \subseteq {e.fd} \cup others
        /\ Erased(closed) /\ victims' = victims \cup others /\ is_stoped' \in BOOLEAN
  <2>1. ASSUME HandleHup(e)
        PROVE  \E others \in SUBSET (clients \ {e.fd}) :
                 /\ Erased({e.fd} \cup others) /\ victims' = victims \cup others
                 /\ is_stoped' \in BOOLEAN
    BY <2>1 DEF HandleHup, Handled, ServerTypeOK
  <2>2. ASSUME Handle(e)
        PROVE  \E own \in SUBSET {e.fd}, others \in SUBSET (clients \ {e.fd}) :
                 /\ Erased(own \cup others) /\ victims' = victims \cup others
                 /\ is_stoped' \in BOOLEAN
    BY <2>2 DEF Handle, Handled, ServerTypeOK
  <2>3. CASE HandleHup(e)
    <3>1. PICK others \in SUBSET (clients \ {e.fd}) :
                 /\ Erased({e.fd} \cup others) /\ victims' = victims \cup others
                 /\ is_stoped' \in BOOLEAN
      BY <2>1, <2>3
    <3>2. {e.fd} \cup others \in SUBSET clients /\ others \in SUBSET clients BY <1>1
    <3>3. {e.fd} \cup others \subseteq {e.fd} \cup others OBVIOUS
    <3>4. QED BY <3>1, <3>2, <3>3
  <2>4. CASE Handle(e)
    <3>1. PICK own \in SUBSET {e.fd}, others \in SUBSET (clients \ {e.fd}) :
                 /\ Erased(own \cup others) /\ victims' = victims \cup others
                 /\ is_stoped' \in BOOLEAN
      BY <2>2, <2>4
    <3>2. own \cup others \in SUBSET clients /\ others \in SUBSET clients BY <1>1
    <3>3. own \cup others \subseteq {e.fd} \cup others OBVIOUS
    <3>4. QED BY <3>1, <3>2, <3>3
  <2>5. QED BY <2>3, <2>4
<1>3. held = NoFd /\ registered = clients
  BY <1>1 DEF HeldMatches, ClientsConsistent, LoopServesAll, Running
<1>4. ServerTypeOK'
  <2>1. fdTable' \in [Fds -> Conns \cup {NoConn}] BY <1>2 DEF ServerTypeOK, Erased
  <2>2. QED BY <1>1, <1>2, <2>1 DEF ServerTypeOK, Erased
<1>5. (HeldMatches /\ BatchMatches /\ LeftMatches)'
  BY <1>1 DEF HeldMatches, BatchMatches, LeftMatches
<1>6. ClientsConsistent'
  BY <1>1, <1>2, <1>3 DEF ClientsConsistent, DescriptorsOwnedOnce, LoopServesAll, Running,
                          Erased, ServerTypeOK, NoFd
<1>7. EventsAreCurrent'
  <2>1. ASSUME NEW d \in batch' \ {AcceptEvent}
        PROVE  d.fd \in victims' \/ (d.fd \in registered' /\ fdTable'[d.fd] = d.conn)
    <3>1. d.fd \in Fds /\ d.fd # e.fd BY <1>1, EventTyped DEF BatchMatches
    <3>2. d.fd \in victims \/ (d.fd \in registered /\ fdTable[d.fd] = d.conn)
      BY <1>1 DEF EventsAreCurrent
    <3>3. d.fd \in closed => d.fd \in others BY <1>2, <3>1
    <3>4. QED BY <1>2, <3>1, <3>2, <3>3 DEF Erased
  <2>2. left' # "no_client" BY <1>1 DEF LeftMatches
  <2>3. QED BY <2>1, <2>2 DEF EventsAreCurrent
<1>8. QED BY <1>4, <1>5, <1>6, <1>7

\* A client that is gone was closed by the handler of another one.
LEMMA NoClientStep == ASSUME ServerInv, NEW e \in batch, NoClient(e) PROVE ServerInv'
<1> USE FdsAssumption, ConnsAssumption, ConfigsAssumption DEF ServerInv, peers
<1> USE DEF NoClient, Throws
<1>1. held = NoFd /\ registered = clients
  BY DEF HeldMatches, ClientsConsistent, LoopServesAll, Running
<1>2. e.fd \in victims BY <1>1 DEF EventsAreCurrent
<1>3. ServerTypeOK' BY DEF ServerTypeOK
<1>4. (HeldMatches /\ BatchMatches /\ LeftMatches)'
  BY <1>1 DEF HeldMatches, BatchMatches, LeftMatches
<1>5. ClientsConsistent' BY DEF ClientsConsistent, DescriptorsOwnedOnce, LoopServesAll, Running
<1>6. EventsAreCurrent' BY <1>2 DEF EventsAreCurrent
<1>7. QED BY <1>3, <1>4, <1>5, <1>6

\* Every step of the server and of its peers.
LEMMA ServerInductive == ServerInv /\ [ServerNext]_asyncVars => ServerInv'
<1> SUFFICES ASSUME ServerInv, [ServerNext]_asyncVars PROVE ServerInv' OBVIOUS
<1>1. CASE UNCHANGED asyncVars
  BY <1>1 DEF asyncVars, peers, ServerInv, ServerTypeOK, HeldMatches, BatchMatches, LeftMatches,
              ClientsConsistent, DescriptorsOwnedOnce, LoopServesAll, Running, EventsAreCurrent
<1>2. CASE ServerNext
  BY <1>2, EnvironmentStep, CallerStep, BeginStep, WaitStep, ReturnStep, AcceptsStep,
     RegisterStep, HandleStep, NoClientStep
  DEF ServerNext, Loop
<1>3. QED BY <1>1, <1>2

\* The inductive invariant holds in every state that is reached.
LEMMA AlwaysServerInv == ServerSpec => []ServerInv
BY InitServerInv, ServerInductive, PTL DEF ServerSpec

\* Each variable of the server, of the kernel and of event_loop has its type.
THEOREM ServerTypeIsCorrect == ServerSpec => []ServerTypeOK
<1>1. ServerInv => ServerTypeOK BY DEF ServerInv
<1>2. QED BY <1>1, AlwaysServerInv, PTL

\* No descriptor leaks and none is closed behind its owner, and the epoll has
\* exactly the clients while the loop runs, however often event_loop is left by
\* stop() or an exception and called again.
THEOREM ClientsAlwaysConsistent == ServerSpec => []ClientsConsistent
<1>1. ServerInv => ClientsConsistent BY DEF ServerInv
<1>2. QED BY <1>1, AlwaysServerInv, PTL

\* An event is handled for the connection it was reported for, though its
\* descriptor may have been closed and reused since; only a handler that closed
\* another client makes the loop fail to find one.
THEOREM EventsAlwaysCurrent == ServerSpec => []EventsAreCurrent
<1>1. ServerInv => EventsAreCurrent BY DEF ServerInv
<1>2. QED BY <1>1, AlwaysServerInv, PTL
=============================================================================
