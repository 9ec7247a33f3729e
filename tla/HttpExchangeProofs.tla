-------------------------- MODULE HttpExchangeProofs --------------------------
(***************************************************************************)
(* Proofs about HttpExchange for every set of requests and responses and   *)
(* all limits of the transfers.                                            *)
(***************************************************************************)
EXTENDS HttpExchange, SequenceTheorems, TLAPS

Reading == pc \in {"headers", "parse", "body"}

\* While it reads, the buffer is what has come in; the end of the headers is
\* found as soon as it is there, and where it is.
BufferIsPrefix ==
  /\ Reading => buffer = SubSeq(Wire, 1, received) /\ out = << >>
  /\ pc = "headers" => received < Len(req.head)
  /\ pc \in {"parse", "body"} =>
       received >= Len(req.head) /\ head_end = Len(req.head) - Len(HeadersEnd)

\* The send queue never holds more than it can.
QueueFits == out \in Seq({CR, LF, Other} \cup Nat) /\ Len(out) - got <= SendCap

\* What is written and what the buffer still has are the response, or a short
\* write has lost some of it, and then the write loop cannot end.
WriteLoses ==
  pc = "write" =>
    /\ resp \in Responses /\ Len(buffer) + written <= resp.size
    /\ Len(buffer) + written = resp.size =>
         out = Bytes(0, written) /\ buffer = Bytes(written, resp.size - written)

\* A file is sent after its whole response, and as far as it goes.
FileFollows ==
  pc = "file" =>
    /\ resp \in Responses /\ resp.file > 0 /\ written <= resp.actual
    /\ out = Bytes(0, resp.size + written)

\* A routine that has ended stays as it is; a peer that has ended its stream
\* sends nothing more.
EndIsFinal ==
  /\ outcome # "none" => pc = "closed"
  /\ outcome = "eof" => fin

IInv ==
  /\ TypeOK /\ BufferIsPrefix /\ QueueFits /\ WriteLoses /\ FileFollows /\ EndIsFinal
  /\ RequestIntact /\ DoneMeansSent

(***************************************************************************)
(* Sequences and numbers                                                   *)
(***************************************************************************)
LEMMA MinOfInt == ASSUME NEW a \in Int, NEW b \in Int
                  PROVE  MinOf(a, b) \in Int /\ MinOf(a, b) <= a /\ MinOf(a, b) <= b
                         /\ (MinOf(a, b) = a \/ MinOf(a, b) = b)
BY DEF MinOf

\* A part of a prefix is a part of the whole.
LEMMA PartOfPrefix ==
  ASSUME NEW S, NEW s \in Seq(S), NEW n \in 1..Len(s), NEW i \in 1..n, NEW j \in 1..n
  PROVE  SubSeq(SubSeq(s, 1, n), i, j) = SubSeq(s, i, j)
<1>1. Len(s) \in Nat BY LenProperties
<1>2. 1 \in 1..Len(s) /\ i \in 1..n - 1 + 1 /\ j \in 1..n - 1 + 1 BY <1>1
<1>3. SubSeq(SubSeq(s, 1, n), i, j) = SubSeq(s, 1 + i - 1, 1 + j - 1)
  BY <1>2, SubSeqOfSubSeq
<1>4. 1 + i - 1 = i /\ 1 + j - 1 = j BY <1>1
<1>5. QED BY <1>3, <1>4

(***************************************************************************)
(* The request on the wire                                                 *)
(***************************************************************************)
Letters == {CR, LF, Other}

\* The search for the end of the headers goes back by less than this.
LEMMA EndSize == Len(HeadersEnd) = 4
BY DEF HeadersEnd

\* What a peer sends is the head and the body of its request.
LEMMA WireTyped ==
  ASSUME TypeOK
  PROVE  /\ req.head \in Seq(Letters) /\ req.body \in Seq(Letters) /\ Wire \in Seq(Letters)
         /\ Len(req.head) \in Nat /\ Len(req.head) >= 4 /\ Len(req.body) \in Nat
         /\ Len(Wire) = Len(req.head) + Len(req.body) /\ req.length \in Nat
<1>1. /\ req.head \in Seq(Letters) /\ req.body \in Seq(Letters)
      /\ Len(req.head) >= 4 /\ req.length \in Nat
  BY RequestsAssumption, EndSize DEF TypeOK, Letters
<1>2. Wire \in Seq(Letters) /\ Len(Wire) = Len(req.head) + Len(req.body)
  BY <1>1, ConcatProperties, Zenon DEF Wire
<1>3. Len(req.head) \in Nat /\ Len(req.body) \in Nat BY <1>1, LenProperties, Zenon
<1>4. QED BY <1>1, <1>2, <1>3

\* A part of what a peer sends.
LEMMA PartTyped ==
  ASSUME TypeOK, NEW m \in Nat \ {0}, NEW n \in 0..Len(Wire)
  PROVE  /\ SubSeq(Wire, m, n) \in Seq(Letters)
         /\ Len(SubSeq(Wire, m, n)) = IF m <= n THEN n - m + 1 ELSE 0
<1>1. Wire \in Seq(Letters) /\ Len(Wire) \in Nat BY WireTyped
<1>2. \A k \in 1..Len(Wire) : Wire[k] \in Letters BY <1>1, ElementOfSeq
<1>3. \A k \in m..n : Wire[k] \in Letters BY <1>1, <1>2
<1>4. m \in Int /\ n \in Int BY <1>1
<1>5. QED BY <1>3, <1>4, SubSeqProperties

\* In what has come in, HeadersEnd occurs nowhere before the end of the head, and
\* there.
LEMMA OccursAtEnd ==
  ASSUME TypeOK, NEW n \in 0..Len(Wire), NEW p \in Nat, p + 4 <= n, p + 4 <= Len(req.head)
  PROVE  Occurs(SubSeq(Wire, 1, n), p) <=> p = Len(req.head) - 4
<1>1. SubSeq(SubSeq(Wire, 1, n), p + 1, p + 4) = SubSeq(Wire, p + 1, p + 4)
  <2>1. n \in 1..Len(Wire) /\ p + 1 \in 1..n /\ p + 4 \in 1..n BY WireTyped
  <2>2. QED BY <2>1, WireTyped, PartOfPrefix
<1>2. SubSeq(Wire, p + 1, p + 4) = SubSeq(req.head, p + 1, p + 4)
  <2>1. p + 1 \in 1..Len(req.head) /\ p + 4 \in 1..Len(req.head) BY WireTyped
  <2>2. QED BY <2>1, WireTyped, SubSeqOfConcat1, Zenon DEF Wire
<1>3. /\ req \in Requests /\ p \in 0..(Len(req.head) - 4)
  BY WireTyped DEF TypeOK
<1>4. SubSeq(req.head, p + 1, p + 4) = HeadersEnd <=> p = Len(req.head) - 4
  BY <1>3, RequestsAssumption, EndSize
<1>5. QED BY <1>1, <1>2, <1>4, EndSize DEF Occurs

\* A search that starts at most 4 bytes before the end of what did not have it
\* finds the end of the headers, once it has come in, and nothing before.
LEMMA HeadFound ==
  ASSUME TypeOK, NEW n \in 0..Len(Wire), NEW from \in 0..Len(req.head) - 4
  PROVE  Find(SubSeq(Wire, 1, n), from) = IF n >= Len(req.head) THEN Len(req.head) - 4 ELSE -1
<1> DEFINE b == SubSeq(Wire, 1, n)
           found == {p \in from..(n - 4) : Occurs(b, p)}
           last == Len(req.head) - 4
<1>1. Find(b, from) = IF found = {} THEN -1 ELSE CHOOSE p \in found : \A q \in found : p <= q
  <2>1. Len(b) = n BY PartTyped
  <2> HIDE DEF b
  <2>2. QED BY <2>1, EndSize DEF Find
<1>2. \A p \in found : p \in Nat /\ p >= last
  <2>1. ASSUME NEW p \in found, p < last PROVE FALSE
    BY <2>1, OccursAtEnd, WireTyped
  <2>2. QED BY <2>1, WireTyped
<1>3. CASE n >= Len(req.head)
  <2>1. last \in found BY <1>3, OccursAtEnd, WireTyped
  <2>2. \A p \in found : (\A q \in found : p <= q) <=> p = last BY <1>2, <2>1, WireTyped
  <2>3. (CHOOSE p \in found : \A q \in found : p <= q) = last BY <2>1, <2>2
  <2>4. QED BY <1>1, <1>3, <2>1, <2>3
<1>4. CASE ~(n >= Len(req.head))
  <2>1. found = {} BY <1>2, <1>4, WireTyped
  <2>2. QED BY <1>1, <1>4, <2>1
<1>5. QED BY <1>3, <1>4

\* A turn of a reading loop takes the next bytes of the stream.
LEMMA TakeTakes ==
  ASSUME TypeOK, buffer = SubSeq(Wire, 1, received), Take
  PROVE  received' \in received + 1..sent /\ buffer' = SubSeq(Wire, 1, received')
<1> DEFINE m == MinOf(sent, received + MaxRead)
<1>1. /\ received \in Nat /\ sent \in Nat /\ sent <= Len(Wire) /\ received < sent
      /\ MaxRead \in Nat /\ MaxRead > 0
  BY WireTyped, BoundsAssumption DEF TypeOK, Take
<1>2. m \in received + 1..sent BY <1>1 DEF MinOf
<1> HIDE DEF m
<1>3. Arriving = SubSeq(Wire, received + 1, m) BY DEF Arriving, m
<1>4. Len(Arriving) = m - received
  <2>1. received + 1 \in Nat \ {0} /\ m \in 0..Len(Wire) BY <1>1, <1>2, WireTyped
  <2>2. QED BY <1>1, <1>2, <1>3, <2>1, PartTyped
<1>5. received' = m BY <1>1, <1>2, <1>4 DEF Take
<1>6. SubSeq(Wire, 1, received) \o SubSeq(Wire, received + 1, m) = SubSeq(Wire, 1, m)
  <2>1. 1 \in 1..Len(Wire) + 1 /\ received \in 1 - 1..Len(Wire) /\ m \in received..Len(Wire)
    BY <1>1, <1>2, WireTyped
  <2>2. QED BY <2>1, WireTyped, ConcatAdjacentSubSeq
<1>7. QED BY <1>2, <1>3, <1>5, <1>6 DEF Take

(***************************************************************************)
(* The bytes of a response                                                 *)
(***************************************************************************)
LEMMA BytesTyped ==
  ASSUME NEW from \in Nat, NEW n \in Nat
  PROVE  /\ Bytes(from, n) \in Seq(Nat) /\ Len(Bytes(from, n)) = n
         /\ \A i \in 1..n : Bytes(from, n)[i] = from + i
<1>1. Bytes(from, n) \in [1..n -> Nat] BY DEF Bytes
<1>2. QED BY <1>1, SeqDef DEF Bytes

\* No bytes are the empty sequence.
LEMMA BytesEmpty == Bytes(0, 0) = << >>
<1>1. Bytes(0, 0) \in Seq(Nat) /\ Len(Bytes(0, 0)) = 0 BY BytesTyped
<1>2. QED BY <1>1, EmptySeq

\* The first k bytes of a part are a part, and so are those after them.
LEMMA BytesFirst ==
  ASSUME NEW from \in Nat, NEW n \in Nat, NEW k \in 0..n
  PROVE  SubSeq(Bytes(from, n), 1, k) = Bytes(from, k)
<1> DEFINE b == Bytes(from, n)
           p == SubSeq(b, 1, k)
           c == Bytes(from, k)
<1>1. b \in Seq(Nat) /\ Len(b) = n /\ \A i \in 1..n : b[i] = from + i BY BytesTyped
<1>2. c \in Seq(Nat) /\ Len(c) = k /\ \A i \in 1..k : c[i] = from + i BY BytesTyped
<1> HIDE DEF b, c
<1>3. p \in Seq(Nat) /\ Len(p) = k /\ \A i \in 1..k : p[i] = b[i]
  <2>1. \A i \in 1..k : b[i] \in Nat BY <1>1
  <2>2. QED BY <2>1, SubSeqProperties
<1>4. \A i \in 1..Len(p) : p[i] = c[i] BY <1>1, <1>2, <1>3
<1> HIDE DEF p
<1>5. p = c BY <1>2, <1>3, <1>4, SeqEqual
<1>6. QED BY <1>5 DEF p, b, c

\* What is left of a part of a response.
LEMMA BytesRest ==
  ASSUME NEW from \in Nat, NEW n \in Nat, NEW k \in 0..n
  PROVE  SubSeq(Bytes(from, n), k + 1, n) = Bytes(from + k, n - k)
<1> DEFINE b == Bytes(from, n)
           p == SubSeq(b, k + 1, n)
           c == Bytes(from + k, n - k)
<1>1. b \in Seq(Nat) /\ Len(b) = n /\ \A i \in 1..n : b[i] = from + i BY BytesTyped
<1>2. c \in Seq(Nat) /\ Len(c) = n - k /\ \A i \in 1..n - k : c[i] = from + k + i
  <2>1. from + k \in Nat /\ n - k \in Nat OBVIOUS
  <2>2. QED BY <2>1, BytesTyped
<1> HIDE DEF b, c
<1>3. p \in Seq(Nat) /\ Len(p) = n - k /\ \A i \in 1..n - k : p[i] = b[k + i]
  <2>1. \A i \in k + 1..n : b[i] \in Nat BY <1>1
  <2>2. QED BY <2>1, SubSeqProperties
<1>4. \A i \in 1..Len(p) : p[i] = c[i] BY <1>1, <1>2, <1>3
<1> HIDE DEF p
<1>5. p = c BY <1>2, <1>3, <1>4, SeqEqual
<1>6. QED BY <1>5 DEF p, b, c

\* Two parts that follow each other are one part.
LEMMA BytesConcat ==
  ASSUME NEW from \in Nat, NEW n \in Nat, NEW k \in Nat
  PROVE  Bytes(from, n) \o Bytes(from + n, k) = Bytes(from, n + k)
<1> DEFINE a == Bytes(from, n)
           b == Bytes(from + n, k)
           c == Bytes(from, n + k)
<1>1. a \in Seq(Nat) /\ Len(a) = n /\ \A i \in 1..n : a[i] = from + i BY BytesTyped
<1>2. b \in Seq(Nat) /\ Len(b) = k /\ \A i \in 1..k : b[i] = from + n + i
  <2>1. from + n \in Nat OBVIOUS
  <2>2. QED BY <2>1, BytesTyped
<1>3. c \in Seq(Nat) /\ Len(c) = n + k /\ \A i \in 1..n + k : c[i] = from + i
  <2>1. n + k \in Nat OBVIOUS
  <2>2. QED BY <2>1, BytesTyped
<1> HIDE DEF a, b, c
<1>4. /\ a \o b \in Seq(Nat) /\ Len(a \o b) = n + k
      /\ \A i \in 1..n + k : (a \o b)[i] = IF i <= n THEN a[i] ELSE b[i - n]
  BY <1>1, <1>2, ConcatProperties, ZenonT(60)
<1>5. ASSUME NEW i \in 1..n + k PROVE (a \o b)[i] = c[i]
  <2>1. CASE i <= n BY <1>1, <1>3, <1>4, <2>1
  <2>2. CASE ~(i <= n)
    <3>1. i - n \in 1..k /\ from + n + (i - n) = from + i BY <2>2
    <3>2. QED BY <1>2, <1>3, <1>4, <2>2, <3>1
  <2>3. QED BY <2>1, <2>2
<1>6. a \o b = c BY <1>3, <1>4, <1>5, SeqEqual
<1>7. QED BY <1>6 DEF a, b, c

(***************************************************************************)
(* The steps                                                               *)
(***************************************************************************)
LEMMA InitIInv == Init => IInv
<1> SUFFICES ASSUME Init PROVE IInv OBVIOUS
<1> USE BoundsAssumption DEF Init
<1>1. TypeOK
  <2>1. Wire \in Seq(Letters) /\ Len(Wire) \in Nat
    <3>1. req.head \in Seq(Letters) /\ req.body \in Seq(Letters)
      BY RequestsAssumption DEF Letters
    <3>2. Wire \in Seq(Letters) BY <3>1, ConcatProperties, Zenon DEF Wire
    <3>3. QED BY <3>2, LenProperties
  <2>2. buffer \in Seq({CR, LF, Other} \cup Nat) /\ Len(out) = 0 BY EmptySeq
  <2>3. /\ sent \in 0..Len(Wire) /\ received \in 0..sent /\ head_end \in -1..Len(Wire)
        /\ written \in Nat /\ got \in 0..Len(out)
    BY <2>1, <2>2
  <2>4. QED BY <2>2, <2>3, Zenon DEF TypeOK
<1>2. BufferIsPrefix
  <2>1. SubSeq(Wire, 1, received) = << >> BY SubSeqEmpty
  <2>2. QED BY <1>1, <2>1, WireTyped DEF BufferIsPrefix, Reading
<1>3. QueueFits BY EmptySeq DEF QueueFits
<1>4. WriteLoses /\ FileFollows /\ EndIsFinal BY DEF WriteLoses, FileFollows, EndIsFinal
<1>5. RequestIntact /\ DoneMeansSent BY DEF RequestIntact, DoneMeansSent
<1>6. QED BY <1>1, <1>2, <1>3, <1>4, <1>5 DEF IInv

\* The peer and the loop touch nothing of the routine; the kernel gives to the
\* peer, and the peer sends, only as long as it has not ended its stream.
LEMMA PeerStep == ASSUME IInv, Peer \/ Wake PROVE IInv'
<1>1. /\ sent' \in sent..Len(Wire) /\ (fin => fin' /\ sent' = sent)
      /\ fin' \in BOOLEAN /\ gone' \in BOOLEAN /\ running' \in BOOLEAN /\ got' \in got..Len(out)
      /\ UNCHANGED <<req, received, buffer, pc, interest, head_end, request, resp, written, out,
                     outcome>>
  <2>1. sent \in Nat /\ Len(Wire) \in Nat /\ got \in 0..Len(out) BY WireTyped DEF IInv, TypeOK
  <2>2. CASE PeerSend BY <2>1, <2>2 DEF IInv, TypeOK, PeerSend
  <2>3. CASE PeerFin \/ PeerGone \/ Wake
    <3>1. fin' \in BOOLEAN /\ gone' \in BOOLEAN /\ running' \in BOOLEAN /\ (fin => fin')
      BY <2>3 DEF IInv, TypeOK, PeerFin, PeerGone, Wake
    <3>2. UNCHANGED <<sent, got>> BY <2>3 DEF PeerFin, PeerGone, Wake
    <3>3. sent' \in sent..Len(Wire) /\ got' \in got..Len(out)
      BY <2>1, <3>2 DEF IInv, TypeOK
    <3>4. QED BY <2>3, <3>1, <3>2, <3>3 DEF PeerFin, PeerGone, Wake
  <2>4. CASE PeerRead
    <3>1. sent' \in sent..Len(Wire) /\ got' \in got..Len(out)
      BY <2>1, <2>4 DEF IInv, TypeOK, PeerRead
    <3>2. QED BY <2>4, <3>1 DEF IInv, TypeOK, PeerRead
  <2>5. QED BY <2>2, <2>3, <2>4 DEF Peer
<1>2. Wire' = Wire BY <1>1 DEF Wire
<1>3. TypeOK'
  <2>1. sent \in Nat /\ received \in 0..sent /\ got \in 0..Len(out) /\ Len(Wire) \in Nat
    BY WireTyped DEF IInv, TypeOK
  <2>2. sent' \in 0..Len(Wire) /\ received' \in 0..sent' /\ got' \in 0..Len(out)
    BY <1>1, <2>1
  <2>3. QED BY <1>1, <1>2, <2>2 DEF IInv, TypeOK
<1>4. BufferIsPrefix' BY <1>1, <1>2 DEF IInv, BufferIsPrefix, Reading
<1>5. QueueFits' BY <1>1, BoundsAssumption DEF IInv, QueueFits, TypeOK
<1>6. (WriteLoses /\ FileFollows /\ EndIsFinal)'
  BY <1>1 DEF IInv, WriteLoses, FileFollows, EndIsFinal
<1>7. RequestIntact'
  BY <1>1 DEF IInv, RequestIntact, EndIsFinal, Complete
<1>8. DoneMeansSent' BY <1>1 DEF IInv, DoneMeansSent, Whole
<1>9. QED BY <1>3, <1>4, <1>5, <1>6, <1>7, <1>8 DEF IInv

\* The routine ends: with "eof" only if the request was cut short, with "done"
\* only if everything was sent.
LEMMA EndStep ==
  ASSUME IInv, NEW how \in {"done", "eof", "io_error", "killed", "other", "sigpipe"}, End(how),
         how = "eof" => fin /\ ~Complete(sent),
         how = "done" => /\ Len(out) >= Len(Whole) /\ SubSeq(out, 1, Len(Whole)) = Whole
                         /\ resp.actual <= resp.file => out = Whole
  PROVE  IInv'
<1> USE DEF End
<1>1. TypeOK' BY DEF IInv, TypeOK, Wire
<1>2. BufferIsPrefix' BY DEF BufferIsPrefix, Reading
<1>3. (QueueFits /\ WriteLoses /\ FileFollows /\ EndIsFinal)'
  BY DEF IInv, QueueFits, WriteLoses, FileFollows, EndIsFinal
<1>4. RequestIntact' BY DEF IInv, RequestIntact, Complete
<1>5. DoneMeansSent' BY DEF IInv, DoneMeansSent, Whole
<1>6. QED BY <1>1, <1>2, <1>3, <1>4, <1>5 DEF IInv

\* A step that only gives the thread back, or moves to the next place.
LEMMA ReadNothingStep == ASSUME IInv, ReadNothing PROVE IInv'
<1> USE DEF ReadNothing
<1>1. TypeOK' BY DEF IInv, TypeOK, Wire
<1>2. BufferIsPrefix' BY DEF IInv, BufferIsPrefix, Reading, Wire
<1>3. (QueueFits /\ WriteLoses /\ FileFollows /\ EndIsFinal)'
  BY DEF IInv, QueueFits, WriteLoses, FileFollows, EndIsFinal
<1>4. (RequestIntact /\ DoneMeansSent)'
  BY DEF IInv, RequestIntact, Complete, DoneMeansSent, Whole
<1>5. QED BY <1>1, <1>2, <1>3, <1>4 DEF IInv

\* read_until_headers_end finds the end of the headers in the turn that brings it.
LEMMA HeadersStep == ASSUME IInv, ReadHeaders PROVE IInv'
<1> USE DEF IInv
<1>1. pc = "headers" /\ outcome = "none" BY DEF ReadHeaders, EndIsFinal
<1>2. CASE ReadFails BY <1>2, EndStep DEF ReadFails
<1>3. CASE ReadEof
  <2>1. received < Len(req.head) /\ received = sent /\ fin /\ End("eof")
    BY <1>1, <1>3 DEF BufferIsPrefix, ReadEof
  <2>2. Len(req.head) \in Nat /\ req.length \in Nat /\ sent \in Nat
    <3>1. Len(Wire) \in Nat /\ sent \in 0..Len(Wire) BY WireTyped DEF TypeOK
    <3>2. QED BY <3>1, WireTyped
  <2>3. ~Complete(sent) BY <2>1, <2>2 DEF Complete
  <2>4. QED BY <2>1, <2>3, EndStep
<1>4. CASE /\ Take
           /\ head_end' = Find(buffer', SearchFrom(buffer))
           /\ IF head_end' # -1
              THEN pc' = "parse" /\ UNCHANGED running
              ELSE running' = FALSE /\ UNCHANGED pc
           /\ UNCHANGED <<req, sent, fin, gone, interest, request, resp, written, out, got,
                          outcome>>
  <2>1. received' \in received + 1..sent /\ buffer' = SubSeq(Wire, 1, received') /\ out = << >>
    BY <1>1, <1>4, TakeTakes DEF BufferIsPrefix, Reading
  <2>2. Wire' = Wire BY <1>4 DEF Wire
  <2>3. received' \in 0..Len(Wire) /\ received \in 0..Len(Wire) /\ received < Len(req.head)
    BY <1>1, <2>1, WireTyped DEF TypeOK, BufferIsPrefix
  <2>4. SearchFrom(buffer) \in 0..Len(req.head) - 4
    <3>1. Len(buffer) = received BY <1>1, <2>3, PartTyped DEF BufferIsPrefix, Reading
    <3>2. QED BY <2>3, <3>1, EndSize, WireTyped DEF SearchFrom
  <2>5. head_end' = IF received' >= Len(req.head) THEN Len(req.head) - 4 ELSE -1
    BY <1>4, <2>1, <2>3, <2>4, HeadFound
  <2>6. \/ /\ received' >= Len(req.head) /\ head_end' = Len(req.head) - 4 /\ pc' = "parse"
           /\ UNCHANGED running
        \/ received' < Len(req.head) /\ head_end' = -1 /\ pc' = "headers" /\ running' = FALSE
    <3>1. Len(req.head) \in Nat /\ Len(req.head) >= 4 /\ received' \in Nat BY <2>3, WireTyped
    <3>2. CASE received' >= Len(req.head)
      <4>1. head_end' = Len(req.head) - 4 BY <2>5, <3>2
      <4>2. head_end' \in Nat BY <3>1, <4>1
      <4>3. head_end' # -1 BY <4>2
      <4>4. QED BY <1>4, <3>2, <4>1, <4>3
    <3>3. CASE ~(received' >= Len(req.head))
      <4>1. head_end' = -1 /\ received' < Len(req.head) BY <2>5, <3>1, <3>3
      <4>2. QED BY <1>1, <1>4, <4>1
    <3>4. QED BY <3>2, <3>3
  <2>7. TypeOK'
    <3>1. buffer' \in Seq({CR, LF, Other} \cup Nat)
      BY <2>1, <2>3, PartTyped, SeqMonotonic DEF Letters
    <3>2. head_end' \in -1..Len(Wire) BY <2>3, <2>6, WireTyped
    <3>3. received' \in 0..sent BY <2>1 DEF TypeOK
    <3>4. QED BY <1>4, <2>2, <2>6, <3>1, <3>2, <3>3 DEF TypeOK
  <2>8. BufferIsPrefix'
    BY <1>4, <2>1, <2>2, <2>6, EndSize DEF BufferIsPrefix, Reading
  <2>9. (QueueFits /\ WriteLoses /\ FileFollows /\ EndIsFinal)'
    BY <1>1, <1>4, <2>6 DEF QueueFits, WriteLoses, FileFollows, EndIsFinal
  <2>10. (RequestIntact /\ DoneMeansSent)'
    BY <1>1, <1>4 DEF RequestIntact, Complete, DoneMeansSent, Whole
  <2>11. QED BY <2>7, <2>8, <2>9, <2>10
<1>5. QED BY <1>2, <1>3, <1>4 DEF ReadHeaders

\* The headers are parsed, or the routine ends.
LEMMA ParseStep == ASSUME IInv, Parse PROVE IInv'
<1>1. CASE End("other") BY <1>1, EndStep
<1>2. CASE /\ running /\ pc = "parse" /\ pc' = "body"
           /\ UNCHANGED <<req, sent, fin, gone, received, buffer, running, interest, head_end,
                          request, resp, written, out, got, outcome>>
  <2> USE <1>2
  <2>1. TypeOK' BY DEF IInv, TypeOK, Wire
  <2>2. BufferIsPrefix' BY DEF IInv, BufferIsPrefix, Reading, Wire
  <2>3. (QueueFits /\ WriteLoses /\ FileFollows /\ EndIsFinal)'
    BY DEF IInv, QueueFits, WriteLoses, FileFollows, EndIsFinal
  <2>4. (RequestIntact /\ DoneMeansSent)'
    BY DEF IInv, RequestIntact, Complete, DoneMeansSent, Whole
  <2>5. QED BY <2>1, <2>2, <2>3, <2>4 DEF IInv
<1>3. QED BY <1>1, <1>2 DEF Parse

\* What read_body works with: the part of the buffer behind the headers.
LEMMA BodyPlace ==
  ASSUME IInv, pc = "body"
  PROVE  /\ BodyStart = Len(req.head) /\ WasRead = received - Len(req.head)
         /\ buffer = SubSeq(Wire, 1, received) /\ received \in Len(req.head)..Len(Wire)
         /\ received <= sent /\ out = << >>
<1>1. /\ received \in 0..sent /\ sent \in 0..Len(Wire) /\ received >= Len(req.head)
      /\ buffer = SubSeq(Wire, 1, received) /\ head_end = Len(req.head) - Len(HeadersEnd)
      /\ out = << >>
  BY DEF IInv, TypeOK, BufferIsPrefix, Reading
<1>2. received \in 0..Len(Wire) BY <1>1, WireTyped DEF IInv
<1>3. Len(buffer) = received BY <1>1, <1>2, PartTyped DEF IInv
<1>4. QED BY <1>1, <1>2, <1>3, WireTyped, EndSize DEF IInv, BodyStart, WasRead

\* read_body, one recv of it.
LEMMA BodyStep == ASSUME IInv, ReadBody PROVE IInv'
<1>1. pc = "body" /\ ~HasBody /\ outcome = "none" BY DEF IInv, ReadBody, EndIsFinal
<1>2. CASE ReadFails BY <1>2, EndStep DEF ReadFails
<1>3. CASE ReadEof
  <2>1. received = sent /\ fin /\ End("eof") BY <1>3 DEF ReadEof
  <2>2. ~Complete(sent) BY <1>1, <2>1, BodyPlace, WireTyped DEF IInv, Complete, HasBody
  <2>3. QED BY <2>1, <2>2, EndStep
<1>4. CASE ReadNothing BY <1>4, ReadNothingStep
<1>5. CASE /\ Take /\ running' = FALSE
           /\ UNCHANGED <<req, sent, fin, gone, pc, interest, head_end, request, resp, written,
                          out, got, outcome>>
  <2>1. received' \in received + 1..sent /\ buffer' = SubSeq(Wire, 1, received')
    BY <1>1, <1>5, TakeTakes, BodyPlace DEF IInv
  <2>2. Wire' = Wire BY <1>5 DEF Wire
  <2>3. received' \in 0..Len(Wire) /\ received' >= Len(req.head)
    BY <1>1, <2>1, BodyPlace, WireTyped DEF IInv, TypeOK
  <2>4. TypeOK'
    <3>1. buffer' \in Seq({CR, LF, Other} \cup Nat)
      BY <2>1, <2>3, PartTyped, SeqMonotonic DEF IInv, Letters
    <3>2. received' \in 0..sent BY <2>1 DEF IInv, TypeOK
    <3>3. QED BY <1>5, <2>2, <3>1, <3>2 DEF IInv, TypeOK
  <2>5. BufferIsPrefix'
    BY <1>1, <1>5, <2>1, <2>2, <2>3 DEF IInv, BufferIsPrefix, Reading
  <2>6. (QueueFits /\ WriteLoses /\ FileFollows /\ EndIsFinal)'
    BY <1>1, <1>5 DEF IInv, QueueFits, WriteLoses, FileFollows, EndIsFinal
  <2>7. (RequestIntact /\ DoneMeansSent)'
    BY <1>1, <1>5 DEF IInv, RequestIntact, Complete, DoneMeansSent, Whole
  <2>8. QED BY <2>4, <2>5, <2>6, <2>7 DEF IInv
<1>6. QED BY <1>2, <1>3, <1>4, <1>5 DEF ReadBody

\* on_request gets the head and the announced part of the body, and the buffer
\* the response.
LEMMA RespondStep == ASSUME IInv, Respond PROVE IInv'
<1>1. pc = "body" /\ HasBody /\ outcome = "none" BY DEF IInv, Respond, EndIsFinal
<1>2. CASE End("other") BY <1>2, EndStep
<1>3. CASE /\ request' = [head |-> SubSeq(buffer, 1, BodyStart),
                          body |-> SubSeq(buffer, BodyStart + 1,
                                          MinOf(Len(buffer), BodyStart + req.length))]
           /\ interest' = "out" /\ resp' \in Responses /\ buffer' = Bytes(0, resp'.size)
           /\ written' = 0 /\ pc' = "write"
           /\ UNCHANGED <<req, sent, fin, gone, received, running, head_end, out, got, outcome>>
  <2> DEFINE h == Len(req.head)
             n == req.length
             m == Len(Wire)
  <2>1. /\ h \in Nat /\ h >= 4 /\ n \in Nat /\ m \in Nat /\ received \in Nat
        /\ received <= m /\ received >= h + n
        /\ m = h + Len(req.body) /\ Len(req.body) \in Nat
    <3>1. h \in Nat /\ h >= 4 /\ n \in Nat /\ m = h + Len(req.body) /\ Len(req.body) \in Nat
      BY WireTyped DEF IInv
    <3>2. received \in h..m /\ WasRead = received - h BY <1>1, BodyPlace
    <3>3. WasRead >= n BY <1>1 DEF HasBody
    <3> HIDE DEF h, n, m
    <3>4. QED BY <3>1, <3>2, <3>3
  <2>0. out = << >> /\ buffer = SubSeq(Wire, 1, received) /\ Len(buffer) = received /\ BodyStart = h
    <3>1. received \in 0..Len(Wire) /\ 1 \in Nat \ {0}
      <4> HIDE DEF h, n, m
      <4>1. received \in 0..m BY <2>1
      <4>2. QED BY <4>1 DEF m
    <3>2. Len(SubSeq(Wire, 1, received)) = IF 1 <= received THEN received - 1 + 1 ELSE 0
      BY <3>1, PartTyped DEF IInv
    <3>3. Len(SubSeq(Wire, 1, received)) = received BY <2>1, <3>2
    <3>4. QED BY <1>1, <3>3, BodyPlace
  <2>2. request'.head = req.head
    <3>1. 1 \in 1..Len(Wire) /\ received \in 1..Len(Wire) /\ h \in 1..received
      <4> HIDE DEF h, n, m
      <4>1. 1 \in 1..m /\ received \in 1..m /\ h \in 1..received BY <2>1
      <4>2. QED BY <4>1 DEF m
    <3>2. SubSeq(buffer, 1, h) = SubSeq(Wire, 1, h)
      <4>1. 1 \in 1..received BY <2>1, <3>1
      <4>2. Wire \in Seq(Letters) BY WireTyped DEF IInv
      <4> HIDE DEF h
      <4>3. QED BY <2>0, <3>1, <4>1, <4>2, PartOfPrefix
    <3>3. SubSeq(Wire, 1, h) = SubSeq(req.head, 1, h)
      <4>1. 1 \in 1..h /\ h \in 1..h BY <2>1
      <4>2. QED BY <4>1, WireTyped, SubSeqOfConcat1, Zenon DEF IInv, Wire
    <3>4. SubSeq(req.head, 1, h) = req.head BY WireTyped, SubSeqFull DEF IInv
    <3>5. QED BY <1>3, <2>0, <3>2, <3>3, <3>4
  <2>3. request'.body = SubSeq(req.body, 1, n)
    <3>1. request'.body = SubSeq(buffer, h + 1, h + n)
      <4>1. MinOf(Len(buffer), BodyStart + req.length) = h + n BY <2>0, <2>1 DEF MinOf
      <4>2. QED BY <1>3, <2>0, <4>1
    <3>2. CASE n = 0
      <4>1. SubSeq(buffer, h + 1, h + n) = << >> /\ SubSeq(req.body, 1, n) = << >>
        BY <2>1, <3>2, SubSeqEmpty
      <4>2. QED BY <3>1, <4>1
    <3>3. CASE n # 0
      <4>1. /\ received \in 1..Len(Wire) /\ h + 1 \in 1..received /\ h + n \in 1..received
            /\ h + 1 \in h + 1..h + Len(req.body) /\ h + n \in h + 1..h + Len(req.body)
            /\ (h + 1) - h = 1 /\ (h + n) - h = n
        <5> HIDE DEF h, n, m
        <5>1. /\ received \in 1..m /\ h + 1 \in 1..received /\ h + n \in 1..received
              /\ h + 1 \in h + 1..h + Len(req.body) /\ h + n \in h + 1..h + Len(req.body)
              /\ (h + 1) - h = 1 /\ (h + n) - h = n
          BY <2>1, <3>3
        <5>2. QED BY <5>1 DEF m
      <4>2. Wire \in Seq(Letters) BY WireTyped DEF IInv
      <4>3. SubSeq(SubSeq(Wire, 1, received), h + 1, h + n)
              = SubSeq(Wire, h + 1, h + n)
        <5> HIDE DEF h, n, m
        <5>1. QED BY <4>1, <4>2, PartOfPrefix
      <4>4. SubSeq(req.head \o req.body, h + 1, h + n)
              = SubSeq(req.body, (h + 1) - h, (h + n) - h)
        BY <4>1, WireTyped, SubSeqOfConcat2, Zenon DEF IInv
      <4>5. SubSeq(buffer, h + 1, h + n) = SubSeq(Wire, h + 1, h + n) BY <2>0, <4>1, <4>3
      <4>6. SubSeq(Wire, h + 1, h + n) = SubSeq(req.body, 1, n) BY <4>1, <4>4 DEF Wire
      <4>7. QED BY <3>1, <4>5, <4>6
    <3>4. QED BY <3>2, <3>3
  <2>4. Len(SubSeq(req.body, 1, n)) = n
    <3>1. req.body \in Seq(Letters) BY WireTyped DEF IInv
    <3> HIDE DEF h, n, m
    <3>2. \A k \in 1..n : k \in 1..Len(req.body) BY <2>1
    <3>3. \A k \in 1..n : req.body[k] \in Letters BY <3>1, <3>2, ElementOfSeq
    <3>4. QED BY <2>1, <3>3, SubSeqProperties
  <2>5. Wire' = Wire BY <1>3 DEF Wire
  <2>6. resp'.size \in Nat /\ buffer' \in Seq(Nat) /\ Len(buffer') = resp'.size
    BY <1>3, ResponsesAssumption, BytesTyped
  <2>7. TypeOK'
    <3>1. buffer' \in Seq({CR, LF, Other} \cup Nat) BY <2>6, SeqMonotonic
    <3>2. QED BY <1>3, <2>5, <3>1 DEF IInv, TypeOK
  <2>8. (BufferIsPrefix /\ QueueFits /\ FileFollows /\ EndIsFinal)'
    BY <1>1, <1>3 DEF IInv, BufferIsPrefix, Reading, QueueFits, FileFollows, EndIsFinal
  <2>9. WriteLoses' BY <1>3, <2>0, <2>6, BytesEmpty DEF WriteLoses
  <2>10. RequestIntact' BY <1>1, <1>3, <2>2, <2>3, <2>4 DEF RequestIntact
  <2>11. DoneMeansSent' BY <1>1, <1>3 DEF DoneMeansSent
  <2>12. QED BY <2>7, <2>8, <2>9, <2>10, <2>11 DEF IInv
<1>4. QED BY <1>2, <1>3 DEF Respond

\* A turn of the write loop: what send takes is counted, and goes out in order
\* unless bytes were lost before.
LEMMA WriteStep == ASSUME IInv, Write PROVE IInv'
<1>1. pc = "write" /\ outcome = "none" /\ written < resp.size
  BY DEF IInv, Write, EndIsFinal
<1>2. CASE gone /\ End("io_error") BY <1>2, EndStep
<1>3. CASE /\ out' = out \o SubSeq(buffer, 1, Accepted(Wanted))
           /\ buffer' = SubSeq(buffer, Erased(Accepted(Wanted)) + 1, Len(buffer))
           /\ written' = written + Counted(Accepted(Wanted))
           /\ running' = FALSE
           /\ UNCHANGED <<req, sent, fin, gone, received, pc, interest, head_end, request, resp,
                          got, outcome>>
  <2> DEFINE S == {CR, LF, Other} \cup Nat
             k == Accepted(Wanted)
             e == Erased(k)
             l == Len(buffer)
  <2>1. /\ buffer \in Seq(S) /\ out \in Seq(S) /\ l \in Nat /\ Len(out) \in Nat /\ written \in Nat
        /\ resp \in Responses /\ resp.size \in Nat /\ l + written <= resp.size
        /\ got \in Nat /\ SendCap - (Len(out) - got) \in Nat
        /\ MaxWrite \in Nat /\ SendCap \in Nat
    <3>1. /\ buffer \in Seq(S) /\ out \in Seq(S) /\ written \in Nat /\ got \in 0..Len(out)
          /\ resp \in Responses /\ l + written <= resp.size /\ Len(out) - got <= SendCap
      BY <1>1 DEF IInv, TypeOK, QueueFits, WriteLoses
    <3>2. l \in Nat /\ Len(out) \in Nat BY <3>1, LenProperties
    <3>3. QED BY <3>1, <3>2, ResponsesAssumption, BoundsAssumption
  <2>2. k \in 0..l /\ (e = 0 \/ e \in k..l) /\ (k = 0 <=> e = 0) /\ e \in Nat
    <3>1. Wanted \in 0..l /\ (Wanted = 0 <=> l = 0)
      BY <2>1, BoundsAssumption DEF Wanted, MinOf
    <3>2. k \in 0..Wanted BY <2>1, <3>1 DEF Accepted, MinOf
    <3> HIDE DEF k
    <3>3. e = IF k > 0 THEN Wanted ELSE 0 BY DEF Erased
    <3>4. QED BY <2>1, <3>1, <3>2, <3>3
  <2> HIDE DEF S, k, e, l
  <2>3. /\ SubSeq(buffer, 1, k) \in Seq(S) /\ Len(SubSeq(buffer, 1, k)) = k
        /\ buffer' \in Seq(S) /\ Len(buffer') = l - e
    <3>1. \A i \in 1..l : buffer[i] \in S BY <2>1, ElementOfSeq DEF l
    <3>2. \A i \in 1..k : buffer[i] \in S BY <2>1, <2>2, <3>1
    <3>3. \A i \in e + 1..l : buffer[i] \in S BY <2>1, <2>2, <3>1
    <3>4. buffer' = SubSeq(buffer, e + 1, l) BY <1>3 DEF k, e, l
    <3>5. SubSeq(buffer, 1, k) \in Seq(S) /\ Len(SubSeq(buffer, 1, k)) = k
      BY <2>1, <2>2, <3>2, SubSeqProperties
    <3>6. buffer' \in Seq(S) /\ Len(buffer') = l - e
      BY <2>1, <2>2, <3>3, <3>4, SubSeqProperties
    <3>7. QED BY <3>5, <3>6
  <2>4. out' \in Seq(S) /\ Len(out') = Len(out) + k
    <3>1. out' = out \o SubSeq(buffer, 1, k) BY <1>3 DEF k
    <3>2. QED BY <2>1, <2>3, <3>1, ConcatProperties
  <2>5. written' = written + k BY <1>3 DEF Counted, k
  <2>6. k <= SendCap - (Len(out) - got)
    BY <2>1, BoundsAssumption DEF k, l, Accepted, Wanted, MinOf
  <2>7. TypeOK'
    <3>1. got' \in 0..Len(out') /\ written' \in Nat
      BY <1>3, <2>1, <2>2, <2>4, <2>5, SMTT(30) DEF IInv, TypeOK
    <3>2. buffer' \in Seq({CR, LF, Other} \cup Nat) BY <2>3 DEF S
    <3>3. QED BY <1>3, <3>1, <3>2 DEF IInv, TypeOK, Wire
  <2>8. (BufferIsPrefix /\ FileFollows /\ EndIsFinal)'
    BY <1>1, <1>3 DEF IInv, BufferIsPrefix, Reading, FileFollows, EndIsFinal
  <2>9. QueueFits' BY <1>3, <2>1, <2>2, <2>4, <2>6 DEF QueueFits, S
  <2>10. WriteLoses'
    <3>1. resp' = resp /\ Len(buffer') + written' <= resp.size
      BY <1>3, <2>1, <2>2, <2>3, <2>5, SMTT(30)
    <3>2. ASSUME Len(buffer') + written' = resp.size
          PROVE  out' = Bytes(0, written') /\ buffer' = Bytes(written', resp.size - written')
      <4>1. l + written = resp.size /\ e = k BY <2>1, <2>2, <2>3, <2>5, <3>2, SMTT(30)
      <4>2. /\ out = Bytes(0, written) /\ buffer = Bytes(written, l)
            /\ 0 + written = written /\ resp.size - written' = l - k /\ written + k = written'
        <5>1. out = Bytes(0, written) /\ buffer = Bytes(written, resp.size - written)
          BY <1>1, <4>1 DEF IInv, WriteLoses, l
        <5>2. l = resp.size - written BY <2>1, <4>1
        <5>3. QED BY <2>1, <2>2, <2>5, <5>1, <5>2
      <4>3. SubSeq(buffer, 1, k) = Bytes(written, k)
        BY <2>1, <2>2, <4>2, BytesFirst
      <4>4. SubSeq(buffer, k + 1, l) = Bytes(written + k, l - k)
        BY <2>1, <2>2, <4>2, BytesRest, ZenonT(60)
      <4>5. out' = Bytes(0, written + k)
        <5>1. out' = Bytes(0, written) \o Bytes(0 + written, k) BY <1>3, <4>2, <4>3 DEF k
        <5>2. k \in Nat BY <2>1, <2>2
        <5>3. QED BY <2>1, <5>1, <5>2, BytesConcat, ZenonT(60)
      <4>6. buffer' = Bytes(written + k, l - k) BY <1>3, <4>1, <4>4 DEF k, e, l
      <4>7. QED BY <4>2, <4>5, <4>6
    <3>3. QED BY <2>1, <3>1, <3>2 DEF WriteLoses
  <2>11. (RequestIntact /\ DoneMeansSent)'
    BY <1>1, <1>3 DEF IInv, RequestIntact, Complete, DoneMeansSent
  <2>12. QED BY <2>7, <2>8, <2>9, <2>10, <2>11 DEF IInv
<1>4. QED BY <1>2, <1>3 DEF Write

\* The sender begins after the whole response, with its file.
LEMMA StartFileStep == ASSUME IInv, StartFile PROVE IInv'
<1> USE DEF StartFile
<1>1. /\ resp \in Responses /\ resp.size \in Nat /\ resp.actual \in Nat
      /\ Len(buffer) \in Nat /\ written \in Nat /\ Len(buffer) + written <= resp.size
      /\ Len(buffer) + written = resp.size => out = Bytes(0, written)
  <2>1. resp \in Responses BY DEF IInv, WriteLoses
  <2>2. buffer \in Seq({CR, LF, Other} \cup Nat) BY DEF IInv, TypeOK
  <2>3. Len(buffer) \in Nat BY <2>2, LenProperties
  <2>4. QED BY <2>1, <2>3, ResponsesAssumption DEF IInv, TypeOK, WriteLoses
<1>2. out = Bytes(0, resp.size + 0)
  <2>1. written = resp.size /\ Len(buffer) = 0 BY <1>1
  <2>2. QED BY <1>1, <2>1
<1>3. TypeOK' BY DEF IInv, TypeOK, Wire
<1>4. (BufferIsPrefix /\ QueueFits /\ WriteLoses /\ EndIsFinal)'
  BY DEF IInv, BufferIsPrefix, Reading, QueueFits, WriteLoses, EndIsFinal
<1>5. FileFollows' BY <1>1, <1>2 DEF FileFollows
<1>6. (RequestIntact /\ DoneMeansSent)'
  BY DEF IInv, RequestIntact, Complete, DoneMeansSent, Whole
<1>7. QED BY <1>3, <1>4, <1>5, <1>6 DEF IInv

\* A turn of sendfile.
LEMMA SendFileStep == ASSUME IInv, SendFile PROVE IInv'
<1>1. pc = "file" /\ outcome = "none" /\ written < resp.file
  BY DEF IInv, SendFile, EndIsFinal
<1>2. CASE gone /\ (End("other") \/ End("sigpipe")) BY <1>2, EndStep
<1>3. CASE LET k == Accepted(MinOf(MaxWrite, resp.actual - written)) IN
           /\ out' = out \o Bytes(resp.size + written, k)
           /\ written' = written + k
           /\ running' = FALSE
           /\ UNCHANGED <<req, sent, fin, gone, received, buffer, pc, interest, head_end,
                          request, resp, got, outcome>>
  <2> DEFINE k == Accepted(MinOf(MaxWrite, resp.actual - written))
  <2>1. /\ resp \in Responses /\ resp.size \in Nat /\ resp.actual \in Nat /\ written \in Nat
        /\ written <= resp.actual /\ out = Bytes(0, resp.size + written)
        /\ Len(out) = resp.size + written /\ got \in 0..Len(out) /\ Len(out) - got <= SendCap
    <3>1. /\ resp \in Responses /\ written \in Nat /\ written <= resp.actual
          /\ out = Bytes(0, resp.size + written) /\ got \in 0..Len(out)
          /\ Len(out) - got <= SendCap
      BY <1>1 DEF IInv, TypeOK, FileFollows, QueueFits
    <3>2. resp.size \in Nat /\ resp.actual \in Nat /\ resp.size + written \in Nat
      BY <3>1, ResponsesAssumption
    <3>3. QED BY <3>1, <3>2, BytesTyped
  <2>2. k \in Nat /\ k <= resp.actual - written /\ k <= SendCap - (Len(out) - got)
    BY <2>1, BoundsAssumption DEF Accepted, MinOf
  <2>3. out' = out \o Bytes(resp.size + written, k) /\ written' = written + k BY <1>3
  <2> HIDE DEF k
  <2>4. out' = Bytes(0, resp.size + written') /\ Len(out') = Len(out) + k
    <3>1. 0 \in Nat /\ resp.size + written \in Nat /\ 0 + (resp.size + written) = resp.size + written
          /\ (resp.size + written) + k = resp.size + written' /\ resp.size + written' \in Nat
      BY <2>1, <2>2, <2>3, SMTT(30)
    <3>2. Bytes(0, resp.size + written) \o Bytes(0 + (resp.size + written), k)
            = Bytes(0, (resp.size + written) + k)
      BY <2>2, <3>1, BytesConcat
    <3>3. out' = Bytes(0, resp.size + written') BY <2>1, <2>3, <3>1, <3>2
    <3>4. Len(out') = resp.size + written' BY <3>1, <3>3, BytesTyped
    <3>5. Len(out) = resp.size + written BY <2>1
    <3>6. Len(out') = Len(out) + k BY <3>1, <3>4, <3>5
    <3>7. QED BY <3>3, <3>6
  <2>5. TypeOK'
    <3>1. got' \in 0..Len(out') /\ written' \in Nat BY <1>3, <2>1, <2>2, <2>3, <2>4, SMTT(30)
    <3>2. QED BY <1>3, <3>1 DEF IInv, TypeOK, Wire
  <2>6. (BufferIsPrefix /\ WriteLoses /\ EndIsFinal)'
    BY <1>1, <1>3 DEF IInv, BufferIsPrefix, Reading, WriteLoses, EndIsFinal
  <2>7. QueueFits'
    <3>1. resp.size + written' \in Nat BY <2>1, <2>2, <2>3
    <3>2. out' \in Seq(Nat) BY <2>4, <3>1, BytesTyped
    <3>3. out' \in Seq({CR, LF, Other} \cup Nat) BY <3>2, SeqMonotonic
    <3>4. Len(out') - got' <= SendCap BY <1>3, <2>1, <2>2, <2>4, BoundsAssumption
    <3>5. QED BY <3>3, <3>4 DEF QueueFits
  <2>8. FileFollows'
    <3>1. written' <= resp.actual BY <2>1, <2>2, <2>3
    <3>2. resp' = resp /\ pc' = pc BY <1>3
    <3>3. QED BY <1>1, <2>1, <2>4, <3>1, <3>2 DEF IInv, FileFollows
  <2>9. (RequestIntact /\ DoneMeansSent)'
    BY <1>1, <1>3 DEF IInv, RequestIntact, Complete, DoneMeansSent
  <2>10. QED BY <2>5, <2>6, <2>7, <2>8, <2>9 DEF IInv
<1>4. QED BY <1>1, <1>2, <1>3 DEF SendFile

\* A routine that returns has written as much as its loops count.
LEMMA FinishStep == ASSUME IInv, Finish PROVE IInv'
<1>1. End("done") BY DEF Finish
<1>2. /\ resp \in Responses /\ resp.size \in Nat /\ resp.file \in Nat /\ resp.actual \in Nat
      /\ written \in Nat /\ Len(buffer) \in Nat
  <2>1. resp \in Responses BY DEF IInv, Finish, WriteLoses, FileFollows
  <2>2. buffer \in Seq({CR, LF, Other} \cup Nat) /\ written \in Nat BY DEF IInv, TypeOK
  <2>3. Len(buffer) \in Nat BY <2>2, LenProperties
  <2>4. QED BY <2>1, <2>2, <2>3, ResponsesAssumption
<1>3. PICK n \in Nat : /\ out = Bytes(0, n) /\ n >= resp.size + resp.file
                       /\ resp.actual <= resp.file => n = resp.size + resp.file
  <2>1. CASE pc = "write" /\ written >= resp.size /\ resp.file = 0
    <3>1. Len(buffer) + written <= resp.size BY <2>1 DEF IInv, WriteLoses
    <3>2. written = resp.size /\ Len(buffer) + written = resp.size BY <1>2, <2>1, <3>1
    <3>3. out = Bytes(0, resp.size) BY <2>1, <3>2 DEF IInv, WriteLoses
    <3>4. QED BY <1>2, <2>1, <3>3
  <2>2. CASE pc = "file" /\ written >= resp.file
    <3>1. out = Bytes(0, resp.size + written) /\ written <= resp.actual
      BY <2>2 DEF IInv, FileFollows
    <3>2. QED BY <1>2, <2>2, <3>1
  <2>3. QED BY <2>1, <2>2 DEF Finish
<1>4. /\ Len(out) >= Len(Whole) /\ SubSeq(out, 1, Len(Whole)) = Whole
      /\ resp.actual <= resp.file => out = Whole
  <2>1. resp.size + resp.file \in Nat /\ resp.size + resp.file \in 0..n BY <1>2, <1>3
  <2>2. Len(Whole) = resp.size + resp.file /\ Len(out) = n
    BY <1>3, <2>1, BytesTyped DEF Whole
  <2>3. SubSeq(out, 1, resp.size + resp.file) = Whole
    BY <1>3, <2>1, BytesFirst DEF Whole
  <2>4. QED BY <1>2, <1>3, <2>2, <2>3 DEF Whole
<1>5. QED BY <1>1, <1>4, EndStep

\* Every step of the worker and of the peer.
LEMMA Inductive == IInv /\ [Next]_vars => IInv'
<1> SUFFICES ASSUME IInv, [Next]_vars PROVE IInv' OBVIOUS
<1>1. CASE UNCHANGED vars
  <2> USE <1>1 DEF vars
  <2>1. TypeOK' BY DEF IInv, TypeOK, Wire
  <2>2. BufferIsPrefix' BY DEF IInv, BufferIsPrefix, Reading, Wire
  <2>3. (QueueFits /\ WriteLoses /\ FileFollows /\ EndIsFinal)'
    BY DEF IInv, QueueFits, WriteLoses, FileFollows, EndIsFinal
  <2>4. (RequestIntact /\ DoneMeansSent)'
    BY DEF IInv, RequestIntact, Complete, DoneMeansSent, Whole
  <2>5. QED BY <2>1, <2>2, <2>3, <2>4 DEF IInv
<1>2. CASE HangUp BY <1>2, EndStep DEF HangUp
<1>3. CASE Next /\ ~HangUp
  BY <1>3, PeerStep, HeadersStep, ParseStep, BodyStep, RespondStep, WriteStep, StartFileStep,
     SendFileStep, FinishStep
  DEF Next, Worker, Routine
<1>4. QED BY <1>1, <1>2, <1>3

\* The inductive invariant holds in every state that is reached.
LEMMA AlwaysIInv == Spec => []IInv
BY InitIInv, Inductive, PTL DEF Spec

\* Each variable of the peer, of the connection's buffer and of the routine has
\* its type.
THEOREM TypeIsCorrect == Spec => []TypeOK
<1>1. IInv => TypeOK BY DEF IInv
<1>2. QED BY <1>1, AlwaysIInv, PTL

\* However recv cuts the stream, on_request is given exactly the head and the
\* announced part of the body, and only a request that was cut short ends in an
\* EofError (read_until_headers_end, read_body).
THEOREM RequestAlwaysIntact == Spec => []RequestIntact
<1>1. IInv => RequestIntact BY DEF IInv
<1>2. QED BY <1>1, AlwaysIInv, PTL

\* A routine that returns has given the kernel its whole response in order, for
\* every size of response, limit per call and room of the socket.
THEOREM DoneAlwaysMeansSent == Spec => []DoneMeansSent
<1>1. IInv => DoneMeansSent BY DEF IInv
<1>2. QED BY <1>1, AlwaysIInv, PTL
===============================================================================
