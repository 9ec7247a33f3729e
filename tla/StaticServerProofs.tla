------------------------- MODULE StaticServerProofs -------------------------
(***************************************************************************)
(* Proofs about HttpMessage and StaticServer, for every set of characters, *)
(* of requests and of intents, every size of files and any number of       *)
(* changes.                                                                *)
(*                                                                         *)
(* Parsing and printing are loops over texts of any length.  What they     *)
(* compute is proved by induction over sets (Induction, ByLength,          *)
(* ByAppending): a set of texts that has every text whose shorter ones it  *)
(* has, has all texts.  Functions that are defined by recursion exist      *)
(* because each use of themselves is for a shorter text (Recursion).       *)
(***************************************************************************)
EXTENDS StaticServer, SequenceTheorems, FiniteSetTheorems, WellFoundedInduction, TLAPS

(***************************************************************************)
(* Induction, and functions defined by recursion, over sets                *)
(***************************************************************************)
\* Every set of naturals that is not empty has a least element.
LEMMA LeastNatural == ASSUME NEW S \in SUBSET Nat, S # {} PROVE \E m \in S : \A x \in S : m <= x
<1> DEFINE R == {ss \in Nat \X Nat : ss[1] < ss[2]}
<1>1. IsWellFoundedOn(OpToRel(<, Nat), Nat) BY NatLessThanWellFounded
<1>2. OpToRel(<, Nat) = R BY DEF OpToRel
<1>3. PICK m \in S : \A x \in S : <<x, m>> \notin R
  BY <1>1, <1>2, WFMin, ZenonT(60)
<1>4. \A x \in S : ~(x < m) BY <1>3
<1>5. m \in Nat /\ \A x \in S : x \in Nat OBVIOUS
<1>6. QED BY <1>4, <1>5

\* A set of naturals that is closed under successor has them all.
LEMMA Induction ==
  ASSUME NEW T \in SUBSET Nat, 0 \in T, \A n \in T : n + 1 \in T
  PROVE  \A n \in Nat : n \in T
<1> SUFFICES ASSUME Nat \ T # {} PROVE FALSE OBVIOUS
<1>1. PICK m \in Nat \ T : \A x \in Nat \ T : m <= x BY LeastNatural
<1>2. m - 1 \in T BY <1>1
<1>3. QED BY <1>1, <1>2

\* f is what g makes of a, step by step.
Iterates(f, a, g, V) == f \in [Nat -> V] /\ f[0] = a /\ \A n \in Nat : f[n + 1] = g[f[n]]

\* A function can be applied n times for every n.
LEMMA Iteration ==
  ASSUME NEW V, NEW a \in V, NEW g \in [V -> V]
  PROVE  \E f : Iterates(f, a, g, V)
<1> DEFINE Upto(h, n) == h \in [0..n -> V] /\ h[0] = a /\ \A k \in 0..(n - 1) : h[k + 1] = g[h[k]]
<1>1. \A n \in Nat : \E h : Upto(h, n)
  <2> DEFINE T == {n \in Nat : \E h : Upto(h, n)}
  <2>1. 0 \in T
    <3>1. Upto([k \in 0..0 |-> a], 0) OBVIOUS
    <3>2. QED BY <3>1
  <2>2. ASSUME NEW n \in T PROVE n + 1 \in T
    <3>1. PICK h : Upto(h, n) OBVIOUS
    <3> DEFINE i == [k \in 0..(n + 1) |-> IF k = n + 1 THEN g[h[n]] ELSE h[k]]
    <3>2. h[n] \in V BY <3>1
    <3>3. i \in [0..(n + 1) -> V] BY <3>1, <3>2
    <3>4. ASSUME NEW k \in 0..n PROVE i[k + 1] = g[i[k]]
      <4>1. CASE k = n BY <4>1
      <4>2. CASE k \in 0..(n - 1) BY <3>1, <4>2
      <4>3. QED BY <4>1, <4>2
    <3>5. Upto(i, n + 1) BY <3>1, <3>3, <3>4
    <3> HIDE DEF i, Upto
    <3>6. QED BY <3>5
  <2>3. T \in SUBSET Nat OBVIOUS
  <2> HIDE DEF T
  <2>4. \A n \in Nat : n \in T BY <2>1, <2>2, <2>3, Induction
  <2>5. QED BY <2>4 DEF T
<1> HIDE DEF Upto
<1>2. \A n, m \in Nat : \A h, i : Upto(h, n) /\ Upto(i, m) /\ n <= m => h[n] = i[n]
  <2> SUFFICES ASSUME NEW n \in Nat, NEW m \in Nat, NEW h, NEW i, Upto(h, n), Upto(i, m), n <= m
               PROVE  h[n] = i[n]
    OBVIOUS
  <2> DEFINE T == {k \in Nat : k <= n => h[k] = i[k]}
  <2>1. 0 \in T BY DEF Upto
  <2>2. ASSUME NEW k \in T PROVE k + 1 \in T
    <3>1. k \in 0..(n - 1) => k \in 0..(m - 1) OBVIOUS
    <3>2. QED BY <3>1 DEF Upto
  <2>3. T \in SUBSET Nat OBVIOUS
  <2> HIDE DEF T
  <2>4. n \in T BY <2>1, <2>2, <2>3, Induction
  <2>5. QED BY <2>4 DEF T
<1> DEFINE h(n) == CHOOSE h : Upto(h, n)
           f == [n \in Nat |-> h(n)[n]]
<1>3. \A n \in Nat : Upto(h(n), n) BY <1>1
<1> HIDE DEF h
<1>4. f \in [Nat -> V] BY <1>3 DEF Upto
<1>5. f[0] = a BY <1>3 DEF Upto
<1>6. ASSUME NEW n \in Nat PROVE f[n + 1] = g[f[n]]
  <2>1. h(n + 1)[n + 1] = g[h(n + 1)[n]] BY <1>3 DEF Upto
  <2>2. n + 1 \in Nat /\ n <= n + 1 OBVIOUS
  <2>3. h(n)[n] = h(n + 1)[n] BY <1>2, <1>3, <2>2
  <2>4. QED BY <2>1, <2>2, <2>3
<1> HIDE DEF f
<1>7. QED BY <1>4, <1>5, <1>6 DEF Iterates

\* A function on D is defined by recursion if its value at x needs only values
\* at elements of smaller rank.
Descends(body, D, V, rank) ==
  /\ V # {} /\ rank \in [D -> Nat] /\ body \in [[D -> V] -> [D -> V]]
  /\ \A x \in D : \A f, g \in [D -> V] :
       (\A y \in D : rank[y] < rank[x] => f[y] = g[y]) => body[f][x] = body[g][x]

\* A definition whose uses of itself descend in rank has a function that satisfies it.
LEMMA Recursion ==
  ASSUME NEW D, NEW V, NEW rank, NEW body, Descends(body, D, V, rank)
  PROVE  \E f \in [D -> V] : f = body[f]
<1> USE DEF Descends
<1> DEFINE W == [D -> V]
<1>1. PICK v \in V : TRUE OBVIOUS
<1> DEFINE a == [x \in D |-> v]
<1>2. a \in W /\ body \in [W -> W] OBVIOUS
<1> HIDE DEF W, a
<1>3. PICK F : Iterates(F, a, body, W) BY <1>2, Iteration
<1>4. F \in [Nat -> W] /\ \A n \in Nat : F[n + 1] = body[F[n]] BY <1>3 DEF Iterates
<1> USE DEF W
<1> DEFINE T == {k \in Nat : \A x \in D : rank[x] < k =>
                    \A n, m \in Nat : k <= n /\ k <= m => F[n][x] = F[m][x]}
<1>5. 0 \in T OBVIOUS
<1>6. ASSUME NEW k \in T PROVE k + 1 \in T
  <2> SUFFICES ASSUME NEW x \in D, rank[x] < k + 1, NEW n \in Nat, NEW m \in Nat, k + 1 <= n, k + 1 <= m
               PROVE  F[n][x] = F[m][x]
    OBVIOUS
  <2>1. n - 1 \in Nat /\ m - 1 \in Nat /\ k <= n - 1 /\ k <= m - 1 OBVIOUS
  <2>2. F[n] = body[F[n - 1]] /\ F[m] = body[F[m - 1]] BY <1>4, <2>1
  <2>3. \A y \in D : rank[y] < rank[x] => F[n - 1][y] = F[m - 1][y] BY <2>1
  <2>4. F[n - 1] \in W /\ F[m - 1] \in W BY <1>4, <2>1
  <2>5. body[F[n - 1]][x] = body[F[m - 1]][x] BY <2>3, <2>4
  <2>6. QED BY <2>2, <2>5
<1>7. T \in SUBSET Nat OBVIOUS
<1> HIDE DEF T
<1>8. \A k \in Nat : k \in T BY <1>5, <1>6, <1>7, Induction
<1>9. \A x \in D : \A n, m \in Nat : rank[x] < n /\ rank[x] < m => F[n][x] = F[m][x]
  <2> SUFFICES ASSUME NEW x \in D, NEW n \in Nat, NEW m \in Nat, rank[x] < n, rank[x] < m
               PROVE  F[n][x] = F[m][x]
    OBVIOUS
  <2>1. rank[x] + 1 \in Nat /\ rank[x] < rank[x] + 1 /\ rank[x] + 1 <= n /\ rank[x] + 1 <= m OBVIOUS
  <2>2. rank[x] + 1 \in T BY <1>8, <2>1
  <2>3. QED BY <2>1, <2>2 DEF T
<1> DEFINE f == [x \in D |-> F[rank[x] + 1][x]]
<1>10. f \in W
  <2>1. \A x \in D : rank[x] + 1 \in Nat OBVIOUS
  <2>2. \A x \in D : F[rank[x] + 1] \in W BY <1>4, <2>1
  <2>3. QED BY <2>2
<1>11. ASSUME NEW x \in D PROVE f[x] = body[f][x]
  <2>1. rank[x] \in Nat /\ rank[x] + 1 \in Nat OBVIOUS
  <2>2. F[rank[x]] \in W /\ F[rank[x] + 1] = body[F[rank[x]]] BY <1>4, <2>1
  <2>3. ASSUME NEW y \in D, rank[y] < rank[x] PROVE f[y] = F[rank[x]][y]
    <3>1. rank[y] \in Nat /\ rank[y] < rank[y] + 1 /\ rank[y] + 1 \in Nat OBVIOUS
    <3>2. QED BY <1>9, <2>1, <2>3, <3>1
  <2>4. body[F[rank[x]]][x] = body[f][x] BY <1>10, <2>2, <2>3
  <2>5. QED BY <2>2, <2>4
<1>12. body[f] \in W BY <1>10
<1>13. f = body[f] BY <1>10, <1>11, <1>12
<1>14. QED BY <1>10, <1>13

(***************************************************************************)
(* Texts: what they contain, and where they are cut                        *)
(***************************************************************************)
Str == Seq(Character)

\* The characters of texts that are put together or cut.
LEMMA ToSetOf ==
  /\ \A a, b \in Str : ToSet(a \o b) = ToSet(a) \cup ToSet(b)
  /\ \A c : ToSet(<<c>>) = {c}
  /\ ToSet(<<>>) = {}
  /\ \A a \in Str, i \in Int, j \in Int :
       1 <= i /\ j <= Len(a) => ToSet(SubSeq(a, i, j)) \subseteq ToSet(a)
<1>1. \A a, b \in Str : ToSet(a \o b) = ToSet(a) \cup ToSet(b)
  <2>1. \A a : ToSet(a) = Range(a) BY DEF ToSet, Range
  <2>2. QED BY <2>1, RangeConcatenation DEF Str
<1>2. \A a \in Str, i \in Int, j \in Int :
        1 <= i /\ j <= Len(a) => ToSet(SubSeq(a, i, j)) \subseteq ToSet(a)
  BY DEF ToSet, Str
<1>3. ASSUME NEW c PROVE ToSet(<<c>>) = {c}
  <2>1. DOMAIN <<c>> = 1..1 /\ <<c>>[1] = c OBVIOUS
  <2>2. QED BY <2>1 DEF ToSet
<1>4. ToSet(<<>>) = {}
  <2>1. DOMAIN <<>> = {} OBVIOUS
  <2>2. QED BY <2>1 DEF ToSet
<1>5. QED BY <1>1, <1>2, <1>3, <1>4

\* A sequence of one character.
LEMMA OneChar == ASSUME NEW S, NEW c \in S PROVE <<c>> \in Seq(S)
OBVIOUS

\* A sequence of three characters.
LEMMA ThreeChars ==
  ASSUME NEW S, NEW x \in S, NEW y \in S, NEW z \in S
  PROVE  LET a == <<x, y, z>>
         IN  a \in Seq(S) /\ Len(a) = 3 /\ a[1] = x /\ a[2] = y /\ a[3] = z
OBVIOUS

\* Where the parts of a text stand in it.
IsParted(s, a, c, b) ==
  /\ s \in Str /\ Len(s) = Len(a) + 1 + Len(b) /\ Len(a) \in Nat /\ Len(b) \in Nat
  /\ \A i \in 1..Len(a) : s[i] = a[i]
  /\ s[Len(a) + 1] = c
  /\ \A i \in 1..Len(b) : s[Len(a) + 1 + i] = b[i]

\* Two texts with a character between them, and the parts they are cut into.
LEMMA Parts ==
  ASSUME NEW a \in Str, NEW c \in Character, NEW b \in Str
  PROVE  IsParted(a \o <<c>> \o b, a, c, b)
<1> DEFINE t == a \o <<c>>
           s == t \o b
<1>1. Len(a) \in Nat /\ Len(b) \in Nat BY DEF Str
<1>2. t \in Str /\ Len(t) = Len(a) + 1 /\ (\A i \in 1..Len(a) : t[i] = a[i]) /\ t[Len(a) + 1] = c
  <2>1. <<c>> \in Str /\ Len(<<c>>) = 1 /\ <<c>>[1] = c
    <3>1. <<c>> \in Seq(Character) BY OneChar
    <3>2. Len(<<c>>) = 1 OBVIOUS
    <3>3. <<c>>[1] = c OBVIOUS
    <3>4. QED BY <3>1, <3>2, <3>3 DEF Str
  <2>2. /\ t \in Str /\ Len(t) = Len(a) + 1
        /\ \A i \in 1..(Len(a) + 1) : t[i] = IF i <= Len(a) THEN a[i] ELSE <<c>>[i - Len(a)]
    BY <2>1, ConcatProperties DEF Str
  <2> HIDE DEF t
  <2>3. (Len(a) + 1) - Len(a) = 1 /\ ~(Len(a) + 1 <= Len(a)) BY <1>1
  <2>4. Len(a) + 1 \in 1..(Len(a) + 1) /\ \A i \in 1..Len(a) : i \in 1..(Len(a) + 1) /\ i <= Len(a)
    BY <1>1
  <2>5. t[Len(a) + 1] = c BY <2>1, <2>2, <2>3, <2>4
  <2>6. \A i \in 1..Len(a) : t[i] = a[i] BY <2>2, <2>4
  <2>7. QED BY <2>2, <2>5, <2>6
<1> HIDE DEF t
<1>3. /\ s \in Str /\ Len(s) = Len(t) + Len(b)
      /\ \A i \in 1..(Len(t) + Len(b)) : s[i] = IF i <= Len(t) THEN t[i] ELSE b[i - Len(t)]
  BY <1>2, ConcatProperties DEF Str
<1> HIDE DEF s
<1>4. \A i \in 1..(Len(a) + 1) : s[i] = t[i] BY <1>1, <1>2, <1>3
<1>5. ASSUME NEW i \in 1..Len(b) PROVE s[Len(a) + 1 + i] = b[i]
  <2>1. Len(a) + 1 + i \in 1..(Len(t) + Len(b)) /\ ~(Len(a) + 1 + i <= Len(t)) BY <1>1, <1>2
  <2>2. (Len(a) + 1 + i) - Len(t) = i BY <1>1, <1>2
  <2>3. QED BY <1>3, <2>1, <2>2
<1>6. Len(a) + 1 \in 1..(Len(a) + 1) /\ \A i \in 1..Len(a) : i \in 1..(Len(a) + 1) BY <1>1
<1>7. s[Len(a) + 1] = c /\ \A i \in 1..Len(a) : s[i] = a[i] BY <1>2, <1>4, <1>6
<1>8. s \in Str /\ Len(s) = Len(a) + 1 + Len(b) BY <1>1, <1>2, <1>3
<1>9. IsParted(s, a, c, b) BY <1>1, <1>5, <1>7, <1>8 DEF IsParted
<1>10. QED BY <1>9 DEF s, t

\* Find is 0 or the first place of the character.
LEMMA FindDef ==
  ASSUME NEW s \in Str, NEW c
  PROVE  /\ Find(s, c) \in Nat
         /\ Find(s, c) = 0 <=> c \notin ToSet(s)
         /\ Find(s, c) # 0 =>
              /\ Find(s, c) \in 1..Len(s) /\ s[Find(s, c)] = c
              /\ \A j \in 1..(Find(s, c) - 1) : s[j] # c
<1> DEFINE I == {i \in 1..Len(s) : s[i] = c}
<1>1. Find(s, c) = IF I # {} THEN Min(I) ELSE 0 BY DEF Find, SelectInSeq
<1>2. I = {} <=> c \notin ToSet(s) BY DEF ToSet, Str
<1>3. I # {} => Min(I) \in I /\ \A j \in I : Min(I) <= j
  <2>1. I \in SUBSET Nat BY DEF Str
  <2> HIDE DEF I
  <2>2. QED BY <2>1, LeastNatural DEF Min
<1>4. Len(s) \in Nat BY DEF Str
<1>5. CASE I = {}
  BY <1>1, <1>2, <1>5
<1>6. CASE I # {}
  <2>1. Find(s, c) \in I /\ \A j \in I : Find(s, c) <= j BY <1>1, <1>3, <1>6
  <2>2. \A j \in 1..(Find(s, c) - 1) : j \notin I BY <2>1, <1>4
  <2>3. QED BY <1>2, <1>4, <1>6, <2>1, <2>2
<1>7. QED BY <1>5, <1>6

\* The first c stands after what has none.
LEMMA Cut ==
  ASSUME NEW a \in Str, NEW c \in Character, NEW b \in Str, c \notin ToSet(a)
  PROVE  LET s == a \o <<c>> \o b
         IN  /\ s \in Str /\ Len(s) = Len(a) + 1 + Len(b) /\ Find(s, c) = Len(a) + 1
             /\ Until(s, Len(a) + 1) = a /\ From(s, Len(a) + 2) = b
<1> DEFINE s == a \o <<c>> \o b
<1>1. /\ s \in Str /\ Len(s) = Len(a) + 1 + Len(b) /\ Len(a) \in Nat /\ Len(b) \in Nat
      /\ \A i \in 1..Len(a) : s[i] = a[i]
      /\ s[Len(a) + 1] = c
      /\ \A i \in 1..Len(b) : s[Len(a) + 1 + i] = b[i]
  BY Parts DEF IsParted
<1>2. \A i \in 1..Len(a) : a[i] # c BY DEF ToSet, Str
<1> HIDE DEF s
<1>3. Find(s, c) = Len(a) + 1
  <2>1. c \in ToSet(s)
    <3>1. Len(a) + 1 \in DOMAIN s BY <1>1 DEF Str
    <3>2. QED BY <1>1, <3>1 DEF ToSet
  <2>2. Find(s, c) \in 1..Len(s) /\ s[Find(s, c)] = c /\ \A j \in 1..(Find(s, c) - 1) : s[j] # c
    BY <1>1, <2>1, FindDef
  <2> DEFINE f == Find(s, c)
             n == Len(a)
  <2>3. n \in Nat /\ f \in Nat BY <1>1, FindDef
  <2>4. f \in 1..n => FALSE BY <1>1, <1>2, <2>2
  <2>5. n + 1 \in 1..(f - 1) => FALSE BY <1>1, <2>2
  <2>6. f # 0 BY <1>1, <2>1, FindDef
  <2> HIDE DEF f, n
  <2>7. f = n + 1 BY <2>3, <2>4, <2>5, <2>6
  <2>8. QED BY <2>7 DEF f, n
<1>4. Until(s, Len(a) + 1) = a
  <2>1. /\ Until(s, Len(a) + 1) \in Str /\ Len(Until(s, Len(a) + 1)) = Len(a)
        /\ \A i \in 1..Len(a) : Until(s, Len(a) + 1)[i] = s[i]
    BY <1>1 DEF Until, Str
  <2>2. QED BY <1>1, <2>1, SeqEqual DEF Str
<1>5. From(s, Len(a) + 2) = b
  <2>1. /\ From(s, Len(a) + 2) \in Str /\ Len(From(s, Len(a) + 2)) = Len(b)
        /\ \A i \in 1..Len(b) : From(s, Len(a) + 2)[i] = s[Len(a) + 1 + i]
    BY <1>1 DEF From, Str
  <2>2. QED BY <1>1, <2>1, SeqEqual DEF Str
<1>6. QED BY <1>1, <1>3, <1>4, <1>5 DEF s

\* A text is cut at the first c that it has.
LEMMA CutAt ==
  ASSUME NEW s \in Str, NEW c, Find(s, c) # 0
  PROVE  LET i == Find(s, c)
         IN  /\ i \in 1..Len(s) /\ c \in Character
             /\ Until(s, i) \in Str /\ From(s, i + 1) \in Str
             /\ Len(Until(s, i)) = i - 1 /\ Len(From(s, i + 1)) = Len(s) - i
             /\ s = Until(s, i) \o <<c>> \o From(s, i + 1)
             /\ c \notin ToSet(Until(s, i))
             /\ ToSet(Until(s, i)) \subseteq ToSet(s) /\ ToSet(From(s, i + 1)) \subseteq ToSet(s)
<1> DEFINE i == Find(s, c)
<1>1. i \in 1..Len(s) /\ s[i] = c /\ \A j \in 1..(i - 1) : s[j] # c BY FindDef
<1> HIDE DEF i
<1>2. Len(s) \in Nat /\ c \in Character BY <1>1 DEF Str
<1> DEFINE a == Until(s, i)
           b == From(s, i + 1)
<1>3. a \in Str /\ Len(a) = i - 1 /\ \A j \in 1..(i - 1) : a[j] = s[j]
  BY <1>1, <1>2 DEF Until, Str
<1>4. b \in Str /\ Len(b) = Len(s) - i /\ \A j \in 1..(Len(s) - i) : b[j] = s[i + j]
  BY <1>1, <1>2 DEF From, Str
<1>5. ToSet(a) \subseteq ToSet(s) /\ ToSet(b) \subseteq ToSet(s)
  <2>1. i \in Int /\ 1 <= i /\ i <= Len(s) BY <1>1, <1>2
  <2>2. QED BY <2>1, <1>2, ToSetOf DEF Until, From
<1> HIDE DEF a, b
<1>6. c \notin ToSet(a) BY <1>1, <1>3 DEF ToSet, Str
<1>7. s = a \o <<c>> \o b
  <2> DEFINE t == a \o <<c>> \o b
  <2>1. /\ t \in Str /\ Len(t) = Len(s)
        /\ \A j \in 1..(i - 1) : t[j] = a[j]
        /\ t[i] = c
        /\ \A j \in 1..(Len(s) - i) : t[i + j] = b[j]
    <3>1. Len(a) + 1 = i /\ Len(a) + 1 + Len(b) = Len(s) BY <1>1, <1>2, <1>3, <1>4
    <3>2. IsParted(t, a, c, b) BY <1>2, <1>3, <1>4, Parts
    <3>3. /\ t \in Str /\ Len(t) = Len(a) + 1 + Len(b)
          /\ \A j \in 1..Len(a) : t[j] = a[j]
          /\ t[Len(a) + 1] = c
          /\ \A j \in 1..Len(b) : t[Len(a) + 1 + j] = b[j]
      BY <3>2 DEF IsParted
    <3> HIDE DEF t
    <3>4. QED BY <1>2, <1>3, <1>4, <3>1, <3>3
  <2> HIDE DEF t
  <2>2. ASSUME NEW j \in 1..Len(s) PROVE s[j] = t[j]
    <3>1. CASE j < i BY <1>1, <1>2, <1>3, <2>1, <3>1
    <3>2. CASE j = i BY <1>1, <2>1, <3>2
    <3>3. CASE i < j
      <4>1. j - i \in 1..(Len(s) - i) /\ j = i + (j - i) BY <1>1, <1>2, <3>3
      <4>2. QED BY <1>4, <2>1, <4>1
    <3>4. QED BY <1>1, <1>2, <3>1, <3>2, <3>3
  <2>3. QED BY <1>2, <2>1, <2>2, SeqEqual DEF Str, t
<1>8. QED BY <1>1, <1>2, <1>3, <1>4, <1>5, <1>6, <1>7 DEF a, b, i

\* Texts that are put together.
LEMMA StrJoin ==
  /\ \A a, b \in Str : a \o b \in Str /\ Len(a \o b) = Len(a) + Len(b)
  /\ \A a, b, d \in Str : (a \o b) \o d = a \o (b \o d)
  /\ \A a \in Str : a \o <<>> = a /\ <<>> \o a = a /\ Len(a) \in Nat /\ (Len(a) = 0 => a = <<>>)
  /\ \A c \in Character : <<c>> \in Str /\ Len(<<c>>) = 1
  /\ <<>> \in Str /\ Len(<<>>) = 0
<1>1. \A a, b \in Str : a \o b \in Str /\ Len(a \o b) = Len(a) + Len(b)
  BY ConcatProperties DEF Str
<1>2. \A a, b, d \in Str : (a \o b) \o d = a \o (b \o d) BY ConcatAssociative DEF Str
<1>3. \A a \in Str : a \o <<>> = a /\ <<>> \o a = a BY ConcatEmptySeq DEF Str
<1>4. \A a \in Str : Len(a) \in Nat /\ (Len(a) = 0 => a = <<>>) BY EmptySeq DEF Str
<1>5. \A c \in Character : <<c>> \in Str /\ Len(<<c>>) = 1 BY OneChar DEF Str
<1>6. QED BY <1>1, <1>2, <1>3, <1>4, <1>5, EmptySeq DEF Str

\* The order of putting texts together does not matter.
LEMMA StrAssoc ==
  ASSUME NEW a \in Str, NEW b \in Str, NEW d \in Str PROVE (a \o b) \o d = a \o (b \o d)
BY ConcatAssociative DEF Str

\* Two texts put together: their length and their characters.
LEMMA StrConcat ==
  ASSUME NEW a \in Str, NEW b \in Str
  PROVE  /\ a \o b \in Str /\ Len(a \o b) = Len(a) + Len(b)
         /\ ToSet(a \o b) = ToSet(a) \cup ToSet(b)
BY StrJoin, ToSetOf

\* A text of one character.
LEMMA StrOne == ASSUME NEW c \in Character PROVE <<c>> \in Str /\ Len(<<c>>) = 1 /\ ToSet(<<c>>) = {c}
BY StrJoin, ToSetOf

\* A character appended is a text of one character put behind.
LEMMA AppendIs == ASSUME NEW d \in Str, NEW c \in Character PROVE Append(d, c) = d \o <<c>>
BY AppendIsConcat DEF Str

(***************************************************************************)
(* Split                                                                   *)
(***************************************************************************)
SplitBody(split, c) ==
  [r \in Str |-> LET i == Find(r, c)
                 IN  IF i = 0 THEN <<r>> ELSE <<Until(r, i)>> \o split[From(r, i + 1)]]

\* There is a function that splits: what is left to split gets shorter.
LEMMA SplitExists == ASSUME NEW c PROVE \E f : f = SplitBody(f, c)
<1> DEFINE V == Seq(Str)
           rank == [s \in Str |-> Len(s)]
           body == [f \in [Str -> V] |-> SplitBody(f, c)]
<1>1. V # {} BY EmptySeq
<1>2. rank \in [Str -> Nat] BY StrJoin
<1>3. ASSUME NEW f \in [Str -> V], NEW r \in Str
      PROVE  /\ Find(r, c) # 0 => Until(r, Find(r, c)) \in Str /\ From(r, Find(r, c) + 1) \in Str
                                    /\ Len(From(r, Find(r, c) + 1)) < Len(r)
             /\ SplitBody(f, c)[r] \in V
  <2>1. Find(r, c) # 0 => Until(r, Find(r, c)) \in Str /\ From(r, Find(r, c) + 1) \in Str
                            /\ Len(From(r, Find(r, c) + 1)) < Len(r)
    <3> SUFFICES ASSUME Find(r, c) # 0
                 PROVE  Until(r, Find(r, c)) \in Str /\ From(r, Find(r, c) + 1) \in Str
                            /\ Len(From(r, Find(r, c) + 1)) < Len(r)
      OBVIOUS
    <3>1. /\ Until(r, Find(r, c)) \in Str /\ From(r, Find(r, c) + 1) \in Str
          /\ Find(r, c) \in 1..Len(r) /\ Len(From(r, Find(r, c) + 1)) = Len(r) - Find(r, c)
      BY CutAt
    <3>2. Len(r) \in Nat BY StrJoin
    <3>3. QED BY <3>1, <3>2
  <2>2. CASE Find(r, c) = 0
    <3>1. SplitBody(f, c)[r] = <<r>> BY <2>2 DEF SplitBody
    <3>2. QED BY <2>1, <2>2, <3>1, OneChar
  <2>3. CASE Find(r, c) # 0
    <3> DEFINE u == Until(r, Find(r, c))
               t == From(r, Find(r, c) + 1)
    <3>1. SplitBody(f, c)[r] = <<u>> \o f[t] BY <2>3 DEF SplitBody
    <3>2. <<u>> \in V /\ f[t] \in V BY <2>1, <2>3, OneChar
    <3>3. <<u>> \o f[t] \in V BY <3>2, ConcatProperties
    <3>4. QED BY <2>1, <2>3, <3>1, <3>3
  <2>4. QED BY <2>2, <2>3
<1> HIDE DEF V
<1>4. body \in [[Str -> V] -> [Str -> V]] BY <1>3 DEF SplitBody
<1>5. ASSUME NEW x \in Str, NEW f \in [Str -> V], NEW g \in [Str -> V],
             \A y \in Str : rank[y] < rank[x] => f[y] = g[y]
      PROVE  body[f][x] = body[g][x]
  <2>1. body[f][x] = SplitBody(f, c)[x] /\ body[g][x] = SplitBody(g, c)[x] OBVIOUS
  <2>2. Find(x, c) # 0 => f[From(x, Find(x, c) + 1)] = g[From(x, Find(x, c) + 1)] BY <1>3, <1>5
  <2>3. SplitBody(f, c)[x] = SplitBody(g, c)[x] BY <2>2 DEF SplitBody
  <2>4. QED BY <2>1, <2>3
<1> HIDE DEF rank, body
<1>6. Descends(body, Str, V, rank) BY <1>1, <1>2, <1>4, <1>5 DEF Descends
<1>7. \E f \in [Str -> V] : f = body[f] BY <1>6, Recursion
<1>8. QED BY <1>7 DEF body

\* Split does what its recursive definition says.
LEMMA SplitRec ==
  ASSUME NEW s \in Str, NEW c
  PROVE  Split(s, c) =
           IF Find(s, c) = 0 THEN <<s>>
           ELSE <<Until(s, Find(s, c))>> \o Split(From(s, Find(s, c) + 1), c)
<1> DEFINE h == CHOOSE split : split = SplitBody(split, c)
<1>1. h = SplitBody(h, c) BY SplitExists, Zenon
<1>2. \A r : Split(r, c) = h[r] BY DEF Split, SplitBody, Str
<1> HIDE DEF h
<1>3. h[s] = IF Find(s, c) = 0 THEN <<s>> ELSE <<Until(s, Find(s, c))>> \o h[From(s, Find(s, c) + 1)]
  BY <1>1 DEF SplitBody
<1>4. QED BY <1>2, <1>3

\* The first part of a text, and the others.
LEMMA SplitFirst ==
  ASSUME NEW u \in Str, NEW c \in Character, c \notin ToSet(u)
  PROVE  /\ Split(u, c) = <<u>>
         /\ \A v \in Str : Split(u \o <<c>> \o v, c) = <<u>> \o Split(v, c)
<1>1. Find(u, c) = 0 BY FindDef
<1>2. Split(u, c) = <<u>> BY <1>1, SplitRec
<1>3. ASSUME NEW v \in Str PROVE Split(u \o <<c>> \o v, c) = <<u>> \o Split(v, c)
  <2> DEFINE s == u \o <<c>> \o v
  <2>1. /\ s \in Str /\ Find(s, c) = Len(u) + 1
        /\ Until(s, Len(u) + 1) = u /\ From(s, Len(u) + 2) = v
    BY Cut
  <2> HIDE DEF s
  <2>2. Len(u) \in Nat BY StrJoin
  <2>3. Find(s, c) # 0 /\ Find(s, c) + 1 = Len(u) + 2 BY <2>1, <2>2
  <2>4. Split(s, c) = <<u>> \o Split(v, c) BY <2>1, <2>3, SplitRec
  <2>5. QED BY <2>4 DEF s
<1>4. QED BY <1>2, <1>3

\* What can be said of every text can be said by induction on its length.
LEMMA ByLength ==
  ASSUME NEW P \in SUBSET Str,
         \A s \in Str : (\A t \in Str : Len(t) < Len(s) => t \in P) => s \in P
  PROVE  \A s \in Str : s \in P
<1> DEFINE T == {n \in Nat : \A s \in Str : Len(s) < n => s \in P}
<1>1. 0 \in T BY StrJoin
<1>2. ASSUME NEW n \in T PROVE n + 1 \in T
  <2>1. ASSUME NEW s \in Str, Len(s) < n + 1 PROVE s \in P
    <3>1. Len(s) \in Nat BY StrJoin
    <3>2. \A t \in Str : Len(t) < Len(s) => Len(t) < n BY <2>1, <3>1, StrJoin
    <3>3. QED BY <3>2
  <2>2. QED BY <2>1
<1> HIDE DEF T
<1>3. \A n \in Nat : n \in T BY <1>1, <1>2, Induction DEF T
<1>4. ASSUME NEW s \in Str PROVE s \in P
  <2>1. Len(s) \in Nat /\ Len(s) + 1 \in Nat /\ Len(s) < Len(s) + 1 BY StrJoin
  <2>2. Len(s) + 1 \in T BY <1>3, <2>1
  <2>3. QED BY <2>1, <2>2 DEF T
<1>5. QED BY <1>4

\* s is cut at a c or has none.
LEMMA CutOrNot ==
  ASSUME NEW s \in Str, NEW c \in Character
  PROVE  \/ c \notin ToSet(s)
         \/ \E u, v \in Str : /\ s = u \o <<c>> \o v /\ c \notin ToSet(u) /\ Len(v) < Len(s)
                              /\ ToSet(s) = (ToSet(u) \cup {c}) \cup ToSet(v)
<1> SUFFICES ASSUME c \in ToSet(s)
             PROVE  \E u, v \in Str : /\ s = u \o <<c>> \o v /\ c \notin ToSet(u) /\ Len(v) < Len(s)
                                      /\ ToSet(s) = (ToSet(u) \cup {c}) \cup ToSet(v)
  OBVIOUS
<1>1. Find(s, c) # 0 BY FindDef
<1>2. PICK u \in Str, v \in Str, i \in 1..Len(s) :
        s = u \o <<c>> \o v /\ c \notin ToSet(u) /\ Len(v) = Len(s) - i
  <2> DEFINE j == Find(s, c)
             x == Until(s, j)
             y == From(s, j + 1)
  <2>1. /\ j \in 1..Len(s) /\ x \in Str /\ y \in Str /\ Len(y) = Len(s) - j
        /\ s = x \o <<c>> \o y /\ c \notin ToSet(x)
    BY <1>1, CutAt
  <2> HIDE DEF j, x, y
  <2>2. QED BY <2>1
<1>3. Len(v) < Len(s)
  <2>1. Len(s) \in Nat BY StrJoin
  <2>2. QED BY <1>2, <2>1
<1>4. <<c>> \in Str /\ u \o <<c>> \in Str BY <1>2, StrJoin
<1>5. ToSet(s) = (ToSet(u) \cup {c}) \cup ToSet(v)
  <2>1. ToSet(u \o <<c>>) = ToSet(u) \cup {c}
    <3>1. <<c>> \in Str /\ ToSet(<<c>>) = {c} BY StrOne
    <3>2. ToSet(u \o <<c>>) = ToSet(u) \cup ToSet(<<c>>) BY <3>1, StrConcat
    <3>3. QED BY <3>1, <3>2
  <2>2. ToSet((u \o <<c>>) \o v) = ToSet(u \o <<c>>) \cup ToSet(v) BY <1>2, <1>4, StrConcat
  <2>3. QED BY <1>2, <2>1, <2>2
<1>6. QED BY <1>2, <1>3, <1>5

\* The parts are texts without c; there is at least one.
IsSplit(parts, s, c) ==
  /\ parts \in Seq(Str) /\ parts # <<>>
  /\ \A i \in 1..Len(parts) : c \notin ToSet(parts[i]) /\ ToSet(parts[i]) \subseteq ToSet(s)

\* The parts of a text are texts without the separator, of the characters of the text.
LEMMA SplitType == ASSUME NEW c \in Character PROVE \A s \in Str : IsSplit(Split(s, c), s, c)
<1> DEFINE P == {s \in Str : IsSplit(Split(s, c), s, c)}
<1>1. ASSUME NEW s \in Str, \A t \in Str : Len(t) < Len(s) => t \in P PROVE s \in P
  <2>1. CASE c \notin ToSet(s)
    <3>1. Split(s, c) = <<s>> BY <2>1, SplitFirst
    <3>2. <<s>> \in Seq(Str) /\ <<s>> # <<>> BY OneChar
    <3>3. Len(<<s>>) = 1 /\ <<s>>[1] = s OBVIOUS
    <3>4. \A i \in 1..1 : i = 1 OBVIOUS
    <3> HIDE DEF P
    <3>5. IsSplit(<<s>>, s, c) BY <2>1, <3>2, <3>3, <3>4 DEF IsSplit
    <3>6. QED BY <3>1, <3>5 DEF P
  <2>2. CASE \E u, v \in Str : /\ s = u \o <<c>> \o v /\ c \notin ToSet(u) /\ Len(v) < Len(s)
                               /\ ToSet(s) = (ToSet(u) \cup {c}) \cup ToSet(v)
    <3>1. PICK u \in Str, v \in Str :
            /\ s = u \o <<c>> \o v /\ c \notin ToSet(u) /\ Len(v) < Len(s)
            /\ ToSet(s) = (ToSet(u) \cup {c}) \cup ToSet(v)
      BY <2>2
    <3> DEFINE q == Split(v, c)
    <3>2. IsSplit(q, v, c) BY <1>1, <3>1
    <3>3. Split(s, c) = <<u>> \o q BY <3>1, SplitFirst
    <3> HIDE DEF q
    <3>4. <<u>> \in Seq(Str) /\ Len(<<u>>) = 1 /\ <<u>>[1] = u /\ q \in Seq(Str) /\ Len(q) \in Nat
      BY <3>2, OneChar DEF IsSplit
    <3> DEFINE p == <<u>> \o q
    <3>5. /\ p \in Seq(Str) /\ Len(p) = 1 + Len(q)
          /\ \A i \in 1..(1 + Len(q)) : p[i] = IF i <= 1 THEN <<u>>[i] ELSE q[i - 1]
      BY <3>4, ConcatProperties
    <3> HIDE DEF p
    <3>6. p # <<>> BY <3>4, <3>5, EmptySeq
    <3>7. ASSUME NEW i \in 1..Len(p)
          PROVE  c \notin ToSet(p[i]) /\ ToSet(p[i]) \subseteq ToSet(s)
      <4>1. CASE i = 1
        <5>1. p[i] = u BY <3>4, <3>5, <4>1
        <5>2. QED BY <3>1, <5>1
      <4>2. CASE i # 1
        <5>1. i - 1 \in 1..Len(q) /\ p[i] = q[i - 1] BY <3>4, <3>5, <4>2
        <5>2. QED BY <3>1, <3>2, <5>1 DEF IsSplit
      <4>3. QED BY <4>1, <4>2
    <3>8. IsSplit(p, s, c) BY <3>5, <3>6, <3>7 DEF IsSplit
    <3>9. QED BY <3>3, <3>8 DEF p
  <2>3. QED BY <2>1, <2>2, CutOrNot
<1>2. P \in SUBSET Str OBVIOUS
<1> HIDE DEF P
<1>3. \A s \in Str : s \in P BY <1>1, <1>2, ByLength
<1>4. QED BY <1>3 DEF P

\* One more part at the end.
LEMMA SplitLast ==
  ASSUME NEW c \in Character, NEW t \in Str, c \notin ToSet(t)
  PROVE  \A s \in Str : Split(s \o <<c>> \o t, c) = Split(s, c) \o <<t>>
<1> DEFINE P == {s \in Str : Split(s \o <<c>> \o t, c) = Split(s, c) \o <<t>>}
<1>1. ASSUME NEW s \in Str, \A r \in Str : Len(r) < Len(s) => r \in P PROVE s \in P
  <2>1. CASE c \notin ToSet(s)
    BY <2>1, SplitFirst
  <2>2. CASE \E u, v \in Str : /\ s = u \o <<c>> \o v /\ c \notin ToSet(u) /\ Len(v) < Len(s)
                               /\ ToSet(s) = (ToSet(u) \cup {c}) \cup ToSet(v)
    <3>1. PICK u \in Str, v \in Str : s = u \o <<c>> \o v /\ c \notin ToSet(u) /\ Len(v) < Len(s)
      BY <2>2
    <3>2. <<c>> \in Str /\ u \o <<c>> \in Str /\ v \o <<c>> \in Str /\ v \o <<c>> \o t \in Str
      BY StrJoin
    <3>3. s \o <<c>> \o t = u \o <<c>> \o (v \o <<c>> \o t)
      <4> DEFINE x == u \o <<c>>
                 y == <<c>>
      <4>1. x \in Str /\ y \in Str /\ s = x \o v BY <3>1, <3>2
      <4> HIDE DEF x, y
      <4>2. (x \o v) \o y = x \o (v \o y) BY <4>1, StrAssoc, SMTT(30)
      <4> DEFINE z == v \o y
      <4>3. z \in Str BY <4>1, StrJoin
      <4> HIDE DEF z
      <4>4. (x \o z) \o t = x \o (z \o t)
        <5>1. x \in Str /\ z \in Str /\ t \in Str BY <4>1, <4>3
        <5>2. QED BY <5>1, StrAssoc, SMTT(30)
      <4>5. QED BY <4>1, <4>2, <4>4 DEF x, y, z
    <3>4. Split(s \o <<c>> \o t, c) = <<u>> \o Split(v \o <<c>> \o t, c)
      <4> DEFINE w == v \o <<c>> \o t
      <4>1. w \in Str BY <3>2
      <4> HIDE DEF w
      <4>2. Split(u \o <<c>> \o w, c) = <<u>> \o Split(w, c) BY <3>1, <4>1, SplitFirst
      <4>3. QED BY <3>3, <4>2 DEF w
    <3>5. Split(v \o <<c>> \o t, c) = Split(v, c) \o <<t>> BY <1>1, <3>1
    <3>6. Split(s, c) = <<u>> \o Split(v, c) BY <3>1, SplitFirst
    <3>7. <<u>> \in Seq(Str) /\ <<t>> \in Seq(Str) /\ Split(v, c) \in Seq(Str)
      BY OneChar, SplitType DEF IsSplit
    <3>8. <<u>> \o (Split(v, c) \o <<t>>) = (<<u>> \o Split(v, c)) \o <<t>>
      <4> DEFINE x == <<u>>
                 y == Split(v, c)
                 z == <<t>>
      <4>1. x \in Seq(Str) /\ y \in Seq(Str) /\ z \in Seq(Str) BY <3>7
      <4> HIDE DEF x, y, z
      <4>2. (x \o y) \o z = x \o (y \o z) BY <4>1, ConcatAssociative
      <4>3. QED BY <4>2 DEF x, y, z
    <3>9. QED BY <3>4, <3>5, <3>6, <3>8
  <2>3. QED BY <2>1, <2>2, CutOrNot
<1>2. P \in SUBSET Str OBVIOUS
<1> HIDE DEF P
<1>3. \A s \in Str : s \in P BY <1>1, <1>2, ByLength
<1>4. QED BY <1>3 DEF P

(***************************************************************************)
(* Joined and FlattenSeq                                                   *)
(***************************************************************************)
\* From the front: what stands after n parts depends on them alone.
ChainBody(f, parts, sep) ==
  [i \in 0..Len(parts) |->
     IF i = 0 THEN <<>> ELSE IF i = 1 THEN parts[1] ELSE f[i - 1] \o sep \o parts[i]]

\* There is a function that puts the parts together from the first one on.
LEMMA ChainExists ==
  ASSUME NEW parts \in Seq(Str), NEW sep \in Str
  PROVE  \E f \in [0..Len(parts) -> Str] : f = ChainBody(f, parts, sep)
<1> DEFINE D == 0..Len(parts)
           rank == [i \in D |-> i]
           body == [f \in [D -> Str] |-> ChainBody(f, parts, sep)]
<1>1. Len(parts) \in Nat /\ \A i \in 1..Len(parts) : parts[i] \in Str BY DEF Str
<1>2. Str # {} /\ rank \in [D -> Nat] BY <1>1, StrJoin
<1>3. ASSUME NEW f \in [D -> Str], NEW i \in D
      PROVE  ChainBody(f, parts, sep)[i] \in Str
  <2>1. CASE i = 0 BY <2>1, StrJoin DEF ChainBody
  <2>2. CASE i = 1
    <3>1. 1 \in 1..Len(parts) BY <1>1, <2>2
    <3>2. ChainBody(f, parts, sep)[i] = parts[1] BY <2>2 DEF ChainBody
    <3>3. QED BY <1>1, <3>1, <3>2
  <2>3. CASE i \notin {0, 1}
    <3>1. i \in 1..Len(parts) /\ i - 1 \in D BY <1>1, <2>3
    <3>2. f[i - 1] \in Str /\ parts[i] \in Str BY <1>1, <3>1
    <3>3. ChainBody(f, parts, sep)[i] = f[i - 1] \o sep \o parts[i] BY <2>3 DEF ChainBody
    <3>4. QED BY <3>2, <3>3, StrConcat
  <2>4. QED BY <2>1, <2>2, <2>3
<1>4. body \in [[D -> Str] -> [D -> Str]]
  <2>1. ASSUME NEW f \in [D -> Str] PROVE ChainBody(f, parts, sep) \in [D -> Str]
    BY <1>3 DEF ChainBody
  <2>2. QED BY <2>1
<1>5. ASSUME NEW x \in D, NEW f \in [D -> Str], NEW g \in [D -> Str],
             \A y \in D : rank[y] < rank[x] => f[y] = g[y]
      PROVE  body[f][x] = body[g][x]
  <2>1. body[f][x] = ChainBody(f, parts, sep)[x] /\ body[g][x] = ChainBody(g, parts, sep)[x] OBVIOUS
  <2>2. x \notin {0, 1} => f[x - 1] = g[x - 1]
    <3>1. x \notin {0, 1} => x - 1 \in D /\ rank[x - 1] < rank[x] BY <1>1
    <3>2. QED BY <1>5, <3>1
  <2>3. ChainBody(f, parts, sep)[x] = ChainBody(g, parts, sep)[x] BY <2>2 DEF ChainBody
  <2>4. QED BY <2>1, <2>3
<1> HIDE DEF rank, body, D
<1>6. Descends(body, D, Str, rank) BY <1>2, <1>4, <1>5 DEF Descends
<1>7. PICK f \in [D -> Str] : f = body[f] BY <1>6, Recursion
<1>8. f = ChainBody(f, parts, sep) BY <1>7 DEF body
<1>9. QED BY <1>8 DEF D

\* Two chains of the same parts are the same as far as both go.
LEMMA ChainsAgree ==
  ASSUME NEW p \in Seq(Str), NEW q \in Seq(Str), NEW sep, NEW f, NEW g,
         f = ChainBody(f, p, sep), g = ChainBody(g, q, sep),
         Len(p) <= Len(q), \A i \in 1..Len(p) : p[i] = q[i]
  PROVE  f[Len(p)] = g[Len(p)]
<1>1. Len(p) \in Nat /\ Len(q) \in Nat OBVIOUS
<1> DEFINE T == {n \in Nat : n <= Len(p) => f[n] = g[n]}
<1>2. 0 \in T BY <1>1 DEF ChainBody
<1>3. ASSUME NEW n \in T PROVE n + 1 \in T
  <2> SUFFICES ASSUME n + 1 <= Len(p) PROVE f[n + 1] = g[n + 1] OBVIOUS
  <2>1. n + 1 \in 0..Len(p) /\ n + 1 \in 0..Len(q) /\ n + 1 \in 1..Len(p) /\ n + 1 # 0
        /\ (n + 1) - 1 = n
    BY <1>1
  <2>2. p[n + 1] = q[n + 1] /\ f[n] = g[n] BY <1>1, <2>1
  <2>3. f[n + 1] = IF n + 1 = 1 THEN p[1] ELSE f[n] \o sep \o p[n + 1]
    BY <2>1 DEF ChainBody
  <2>4. g[n + 1] = IF n + 1 = 1 THEN q[1] ELSE g[n] \o sep \o q[n + 1]
    BY <2>1 DEF ChainBody
  <2>5. CASE n + 1 = 1 BY <2>2, <2>3, <2>4, <2>5
  <2>6. CASE n + 1 # 1 BY <2>2, <2>3, <2>4, <2>6
  <2>7. QED BY <2>5, <2>6
<1>4. T \in SUBSET Nat OBVIOUS
<1> HIDE DEF T
<1>5. Len(p) \in T BY <1>1, <1>2, <1>3, <1>4, Induction
<1>6. QED BY <1>1, <1>5 DEF T

\* The end of the chain.
Chain(parts, sep) == (CHOOSE f : f = ChainBody(f, parts, sep))[Len(parts)]

\* Putting together one more part.
LEMMA ChainEnd ==
  ASSUME NEW p \in Seq(Str), NEW sep \in Str
  PROVE  /\ Chain(p, sep) \in Str
         /\ p = <<>> => Chain(p, sep) = <<>>
         /\ \A t \in Str : Chain(Append(p, t), sep) =
                             IF p = <<>> THEN t ELSE Chain(p, sep) \o sep \o t
<1> DEFINE h(q) == CHOOSE f : f = ChainBody(f, q, sep)
<1>1. \A q \in Seq(Str) : h(q) = ChainBody(h(q), q, sep)
  <2>1. ASSUME NEW q \in Seq(Str) PROVE \E f : f = ChainBody(f, q, sep) BY ChainExists
  <2>2. QED BY <2>1, Zenon
<1>2. \A q : Chain(q, sep) = h(q)[Len(q)] BY DEF Chain
<1> HIDE DEF h
<1>3. Len(p) \in Nat OBVIOUS
<1>4. PICK f \in [0..Len(p) -> Str] : f = ChainBody(f, p, sep) BY ChainExists
<1>5. Chain(p, sep) = f[Len(p)] BY <1>1, <1>2, <1>3, <1>4, ChainsAgree
<1>6. Chain(p, sep) \in Str
  <2>1. Len(p) \in 0..Len(p) BY <1>3
  <2>2. QED BY <1>4, <1>5, <2>1
<1>7. p = <<>> => Chain(p, sep) = <<>>
  <2>1. p = <<>> => Len(p) = 0 OBVIOUS
  <2>2. 0 \in 0..Len(p) BY <1>3
  <2>3. f[0] = <<>> BY <1>4, <2>2 DEF ChainBody
  <2>4. QED BY <1>5, <2>1, <2>3
<1>8. ASSUME NEW t \in Str
      PROVE  Chain(Append(p, t), sep) = IF p = <<>> THEN t ELSE Chain(p, sep) \o sep \o t
  <2> DEFINE q == Append(p, t)
  <2>1. /\ q \in Seq(Str) /\ Len(q) = Len(p) + 1 /\ q[Len(p) + 1] = t
        /\ \A i \in 1..Len(p) : q[i] = p[i]
    BY AppendProperties
  <2> HIDE DEF q
  <2>2. h(q) = ChainBody(h(q), q, sep) /\ h(p) = ChainBody(h(p), p, sep) BY <1>1, <2>1
  <2>3. h(p)[Len(p)] = h(q)[Len(p)] BY <1>3, <2>1, <2>2, ChainsAgree
  <2>4. Len(q) \in 0..Len(q) /\ Len(q) # 0 /\ Len(q) - 1 = Len(p) BY <1>3, <2>1
  <2>5. h(q)[Len(q)] = IF Len(q) = 1 THEN q[1] ELSE h(q)[Len(p)] \o sep \o q[Len(q)]
    BY <2>2, <2>4 DEF ChainBody
  <2>6. CASE p = <<>>
    <3>1. Len(p) = 0 BY <2>6
    <3>2. Len(q) = 1 /\ q[1] = t BY <2>1, <3>1
    <3>3. h(q)[Len(q)] = t BY <2>5, <3>2
    <3>4. QED BY <1>2, <2>6, <3>3 DEF q
  <2>7. CASE p # <<>>
    <3>1. Len(p) # 0 BY <2>7
    <3>2. Len(q) # 1 BY <1>3, <2>1, <3>1
    <3>3. h(q)[Len(q)] = h(p)[Len(p)] \o sep \o t BY <2>1, <2>3, <2>5, <3>2
    <3>4. QED BY <1>2, <2>7, <3>3 DEF q
  <2>8. QED BY <2>6, <2>7
<1>9. QED BY <1>6, <1>7, <1>8

\* Joined puts the parts together with one character between them.
LEMMA JoinedIsChain == \A parts, c : Joined(parts, c) = Chain(parts, <<c>>)
BY DEF Joined, Chain, ChainBody

FlatBody(f, ss) == [i \in 1..Len(ss) |-> IF i = 1 THEN ss[i] ELSE f[i - 1] \o ss[i]]

\* FlattenSeq puts the parts together with nothing between them.
LEMMA FlatIsChain == ASSUME NEW ss \in Seq(Str) PROVE FlattenSeq(ss) = Chain(ss, <<>>)
<1> DEFINE h == CHOOSE f : f = ChainBody(f, ss, <<>>)
           d == CHOOSE f : f = FlatBody(f, ss)
<1>1. Len(ss) \in Nat /\ \A i \in 1..Len(ss) : ss[i] \in Str OBVIOUS
<1>2. PICK c \in [0..Len(ss) -> Str] : c = ChainBody(c, ss, <<>>) BY ChainExists, StrJoin
<1>3. h = ChainBody(h, ss, <<>>) BY <1>2, Zenon
<1>4. Chain(ss, <<>>) = h[Len(ss)] BY DEF Chain
<1>5. FlattenSeq(ss) = IF Len(ss) = 0 THEN ss ELSE d[Len(ss)] BY DEF FlattenSeq, FlatBody
<1> HIDE DEF h
<1>6. h[Len(ss)] = c[Len(ss)] BY <1>1, <1>2, <1>3, ChainsAgree
<1>7. ASSUME NEW i \in 1..Len(ss)
      PROVE  c[i] = IF i = 1 THEN ss[i] ELSE c[i - 1] \o ss[i]
  <2>1. i \in 0..Len(ss) /\ i # 0 /\ (i # 1 => i - 1 \in 0..Len(ss)) BY <1>1
  <2>2. c[i] = IF i = 1 THEN ss[1] ELSE c[i - 1] \o <<>> \o ss[i] BY <1>2, <2>1 DEF ChainBody
  <2>3. i # 1 => c[i - 1] \o <<>> = c[i - 1] BY <1>2, <2>1, StrJoin
  <2>4. QED BY <2>2, <2>3
<1>8. \E f : f = FlatBody(f, ss)
  <2> DEFINE f == [i \in 1..Len(ss) |-> c[i]]
  <2>1. ASSUME NEW i \in 1..Len(ss) PROVE f[i] = FlatBody(f, ss)[i]
    <3>1. i # 1 => i - 1 \in 1..Len(ss) BY <1>1
    <3>2. i # 1 => f[i - 1] = c[i - 1] BY <3>1
    <3>3. FlatBody(f, ss)[i] = IF i = 1 THEN ss[i] ELSE f[i - 1] \o ss[i] BY DEF FlatBody
    <3>4. QED BY <1>7, <3>2, <3>3
  <2>2. f = FlatBody(f, ss) BY <2>1 DEF FlatBody
  <2>3. QED BY <2>2
<1>9. d = FlatBody(d, ss) BY <1>8, Zenon
<1> HIDE DEF d
<1> DEFINE T == {n \in Nat : n + 1 <= Len(ss) => d[n + 1] = c[n + 1]}
<1>10. 0 \in T
  <2> SUFFICES ASSUME 1 <= Len(ss) PROVE d[1] = c[1] OBVIOUS
  <2>1. 1 \in 1..Len(ss) BY <1>1
  <2>2. d[1] = ss[1] BY <1>9, <2>1 DEF FlatBody
  <2>3. QED BY <1>7, <2>1, <2>2
<1>11. ASSUME NEW n \in T PROVE n + 1 \in T
  <2> SUFFICES ASSUME (n + 1) + 1 <= Len(ss) PROVE d[(n + 1) + 1] = c[(n + 1) + 1] OBVIOUS
  <2> DEFINE k == (n + 1) + 1
  <2>1. k \in 1..Len(ss) /\ k # 1 /\ k - 1 = n + 1 BY <1>1
  <2>2. d[n + 1] = c[n + 1] BY <1>1
  <2> HIDE DEF k
  <2>3. d[k] = d[k - 1] \o ss[k] BY <1>9, <2>1 DEF FlatBody
  <2>4. c[k] = c[k - 1] \o ss[k] BY <1>7, <2>1
  <2>5. d[k] = c[k] BY <2>1, <2>2, <2>3, <2>4
  <2>6. QED BY <2>5 DEF k
<1>12. T \in SUBSET Nat OBVIOUS
<1> HIDE DEF T
<1>13. \A n \in Nat : n \in T BY <1>10, <1>11, <1>12, Induction
<1>14. CASE Len(ss) = 0
  <2>1. ss = <<>> BY <1>14, EmptySeq
  <2>2. Chain(ss, <<>>) = <<>> BY <2>1, ChainEnd, StrJoin
  <2>3. QED BY <1>5, <1>14, <2>1, <2>2
<1>15. CASE Len(ss) # 0
  <2>1. Len(ss) - 1 \in Nat /\ (Len(ss) - 1) + 1 = Len(ss) BY <1>1, <1>15
  <2>2. Len(ss) - 1 \in T BY <1>13, <2>1
  <2>3. d[Len(ss)] = c[Len(ss)] BY <1>1, <2>1, <2>2 DEF T
  <2>4. QED BY <1>4, <1>5, <1>6, <1>15, <2>3
<1>16. QED BY <1>14, <1>15

\* FlattenSeq of one more part.
LEMMA Flat ==
  ASSUME NEW ss \in Seq(Str)
  PROVE  /\ FlattenSeq(ss) \in Str
         /\ ss = <<>> => FlattenSeq(ss) = <<>>
         /\ \A t \in Str : FlattenSeq(Append(ss, t)) = FlattenSeq(ss) \o t
<1>1. <<>> \in Str BY StrJoin
<1>2. FlattenSeq(ss) = Chain(ss, <<>>) BY FlatIsChain
<1>3. ASSUME NEW t \in Str PROVE FlattenSeq(Append(ss, t)) = FlattenSeq(ss) \o t
  <2>1. Append(ss, t) \in Seq(Str) BY AppendProperties
  <2>2. FlattenSeq(Append(ss, t)) = Chain(Append(ss, t), <<>>) BY <2>1, FlatIsChain
  <2>3. Chain(Append(ss, t), <<>>) = IF ss = <<>> THEN t ELSE Chain(ss, <<>>) \o <<>> \o t
    BY <1>1, ChainEnd
  <2>4. ss = <<>> => Chain(ss, <<>>) = <<>> BY <1>1, ChainEnd
  <2>5. Chain(ss, <<>>) \in Str BY <1>1, ChainEnd
  <2>6. Chain(ss, <<>>) \o <<>> = Chain(ss, <<>>) BY <2>5, StrJoin
  <2>7. <<>> \o t = t BY StrJoin
  <2>8. QED BY <1>2, <2>2, <2>3, <2>4, <2>6, <2>7
<1>4. QED BY <1>1, <1>2, <1>3, ChainEnd

(***************************************************************************)
(* DecodeUrl                                                               *)
(***************************************************************************)
LEMMA FromDef ==
  ASSUME NEW s \in Str, NEW i \in 1..(Len(s) + 1)
  PROVE  /\ From(s, i) \in Str /\ Len(From(s, i)) = (Len(s) + 1) - i
         /\ ToSet(From(s, i)) \subseteq ToSet(s)
<1>1. Len(s) \in Nat BY StrJoin
<1>2. From(s, i) \in Str /\ Len(From(s, i)) = (Len(s) + 1) - i BY <1>1 DEF From, Str
<1>3. ToSet(SubSeq(s, i, Len(s))) \subseteq ToSet(s) BY <1>1, ToSetOf
<1>4. QED BY <1>2, <1>3 DEF From

\* What is left after the first character, and after the first three.
LEMMA Drop ==
  ASSUME NEW b \in Str
  PROVE  /\ \A c \in Character : /\ From(<<c>> \o b, 2) = b /\ (<<c>> \o b)[1] = c
                              /\ <<c>> \o b \in Str /\ <<c>> \o b # <<>>
         /\ \A x, y, z \in Character :
              LET s == <<x, y, z>> \o b
              IN  /\ From(s, 4) = b /\ s[1] = x /\ s[2] = y /\ s[3] = z
                  /\ s \in Str /\ s # <<>> /\ ~(Len(s) < 3)
<1>1. Len(b) \in Nat /\ b \in Seq(Character) BY StrJoin DEF Str
<1>2. ASSUME NEW c \in Character
      PROVE  /\ From(<<c>> \o b, 2) = b /\ (<<c>> \o b)[1] = c
             /\ <<c>> \o b \in Str /\ <<c>> \o b # <<>>
  <2> DEFINE s == <<c>> \o b
  <2>1. <<c>> \in Seq(Character) /\ Len(<<c>>) = 1 /\ <<c>>[1] = c BY OneChar
  <2>2. /\ s \in Seq(Character) /\ Len(s) = 1 + Len(b)
        /\ \A i \in 1..(1 + Len(b)) : s[i] = IF i <= 1 THEN <<c>>[i] ELSE b[i - 1]
    BY <1>1, <2>1, ConcatProperties
  <2> HIDE DEF s
  <2>3. 1 \in 1..(1 + Len(b)) BY <1>1
  <2>4. s[1] = c BY <2>1, <2>2, <2>3
  <2>5. s # <<>> BY <1>1, <2>2, EmptySeq
  <2>6. From(s, 2) = b
    <3>1. From(s, 2) \in Seq(Character) /\ Len(From(s, 2)) = Len(b)
          /\ \A i \in 1..Len(b) : From(s, 2)[i] = s[i + 1]
      BY <1>1, <2>2 DEF From
    <3>2. \A i \in 1..Len(b) : s[i + 1] = b[i] BY <1>1, <2>2
    <3>3. QED BY <1>1, <3>1, <3>2, SeqEqual
  <2>7. QED BY <2>2, <2>4, <2>5, <2>6 DEF Str, s
<1>3. ASSUME NEW x \in Character, NEW y \in Character, NEW z \in Character
      PROVE  LET s == <<x, y, z>> \o b
             IN  /\ From(s, 4) = b /\ s[1] = x /\ s[2] = y /\ s[3] = z
                 /\ s \in Str /\ s # <<>> /\ ~(Len(s) < 3)
  <2> DEFINE a == <<x, y, z>>
             s == a \o b
  <2>1. a \in Seq(Character) /\ Len(a) = 3 /\ a[1] = x /\ a[2] = y /\ a[3] = z BY ThreeChars
  <2> HIDE DEF a
  <2>2. /\ s \in Seq(Character) /\ Len(s) = Len(a) + Len(b)
        /\ \A i \in 1..(Len(a) + Len(b)) : s[i] = IF i <= Len(a) THEN a[i] ELSE b[i - Len(a)]
    BY <1>1, <2>1, ConcatProperties
  <2>3. /\ s \in Seq(Character) /\ Len(s) = 3 + Len(b)
        /\ \A i \in 1..(3 + Len(b)) : s[i] = IF i <= 3 THEN a[i] ELSE b[i - 3]
    BY <2>2, <2>1
  <2> HIDE DEF s
  <2>4. 1 \in 1..(3 + Len(b)) /\ 2 \in 1..(3 + Len(b)) /\ 3 \in 1..(3 + Len(b)) BY <1>1
  <2>5. s[1] = x /\ s[2] = y /\ s[3] = z BY <2>1, <2>3, <2>4
  <2>6. s # <<>> /\ ~(Len(s) < 3) BY <1>1, <2>3, EmptySeq
  <2>7. From(s, 4) = b
    <3>1. From(s, 4) \in Seq(Character) /\ Len(From(s, 4)) = Len(b)
          /\ \A i \in 1..Len(b) : From(s, 4)[i] = s[i + 3]
      BY <1>1, <2>3 DEF From
    <3>2. \A i \in 1..Len(b) : s[i + 3] = b[i] BY <1>1, <2>3
    <3>3. QED BY <1>1, <3>1, <3>2, SeqEqual
  <2>8. QED BY <2>3, <2>5, <2>6, <2>7 DEF Str, s, a
<1>4. QED BY <1>2, <1>3

\* The characters that escapes and separators are made of.
LEMMA EscapeType ==
  /\ DOMAIN Escape = {"?", "&", "=", "+", "%", " ", "CR", "LF"}
  /\ DOMAIN Escape \subseteq Character
  /\ {"?", "&", "=", "+", "%", " ", ":", "/", "HTTP", NL} \subseteq Character
  /\ \A a, b : Unescaped(a, b) \in DOMAIN Escape \cup {"other"} /\ Unescaped(a, b) \in Character
<1>1. DOMAIN Escape = {"?", "&", "=", "+", "%", " ", "CR", "LF"} BY DEF Escape
<1>2. ASSUME NEW a, NEW b PROVE Unescaped(a, b) \in DOMAIN Escape \cup {"other"}
  BY DEF Unescaped
<1>3. DOMAIN Escape \subseteq Character /\ {"other", NL, " ", "HTTP", "/", ":"} \subseteq Character
  BY CharacterAssumption DEF Letters
<1>4. QED BY <1>1, <1>2, <1>3

\* A character goes behind what was decoded, or makes an end of a line with its last.
LEMMA PutIs ==
  ASSUME NEW d \in Str, NEW c \in Character
  PROVE  /\ Put(d, c) \in Str /\ ToSet(Put(d, c)) \subseteq (ToSet(d) \cup {c}) \cup {NL}
         /\ c # "LF" => Put(d, c) = Append(d, c)
<1>1. Len(d) \in Nat /\ NL \in Character BY StrJoin, EscapeType
<1>2. c # "LF" => Put(d, c) = Append(d, c) BY DEF Put
<1>3. ASSUME NEW q \in Str, NEW e \in Character, ToSet(q) \subseteq ToSet(d), e \in {c, NL}
      PROVE  Append(q, e) \in Str /\ ToSet(Append(q, e)) \subseteq (ToSet(d) \cup {c}) \cup {NL}
  <2>1. <<e>> \in Str /\ ToSet(<<e>>) = {e} BY StrOne
  <2>2. Append(q, e) = q \o <<e>> BY AppendIs
  <2>3. q \o <<e>> \in Str /\ ToSet(q \o <<e>>) = ToSet(q) \cup {e} BY <2>1, StrConcat
  <2>4. ToSet(q) \cup {e} \subseteq (ToSet(d) \cup {c}) \cup {NL} BY <1>3
  <2>5. QED BY <2>2, <2>3, <2>4
<1>4. CASE Put(d, c) = Append(d, c) BY <1>2, <1>3, <1>4
<1>5. CASE d # <<>> /\ Put(d, c) = Append(Front(d), NL)
  <2>1. Len(d) \in Nat /\ Len(d) # 0 BY <1>5, StrJoin
  <2>2. Front(d) \in Str BY <2>1 DEF Front, Str
  <2>3. ToSet(SubSeq(d, 1, Len(d) - 1)) \subseteq ToSet(d) BY <2>1, ToSetOf
  <2>4. Front(d) = SubSeq(d, 1, Len(d) - 1) BY DEF Front
  <2>5. ToSet(Front(d)) \subseteq ToSet(d) BY <2>3, <2>4
  <2>6. Append(Front(d), NL) \in Str
        /\ ToSet(Append(Front(d), NL)) \subseteq (ToSet(d) \cup {c}) \cup {NL}
    BY <1>1, <1>3, <2>2, <2>5
  <2>7. QED BY <1>2, <1>5, <2>6
<1>6. QED BY <1>4, <1>5 DEF Put

\* One turn of the loop with r left and d decoded.
Turn(f, r, d) ==
  CASE r = <<>> -> d
    [] r # <<>> /\ r[1] = "%" ->
         IF Len(r) < 3 THEN <<>> ELSE f[<<From(r, 4), Put(d, Unescaped(r[2], r[3]))>>]
    [] r # <<>> /\ r[1] = "+" -> f[<<From(r, 2), Append(d, " ")>>]
    [] OTHER -> f[<<From(r, 2), Put(d, r[1])>>]

\* What a turn goes on with.
IsNext(r, d, q, e) ==
  \/ /\ r # <<>> /\ r[1] = "%" /\ ~(Len(r) < 3)
     /\ q = From(r, 4) /\ e = Put(d, Unescaped(r[2], r[3]))
  \/ r # <<>> /\ r[1] = "+" /\ q = From(r, 2) /\ e = Append(d, " ")
  \/ r # <<>> /\ r[1] \notin {"%", "+"} /\ q = From(r, 2) /\ e = Put(d, r[1])

\* A turn ends the loop or goes on with less.
Turning(r, d) ==
  \/ r = <<>> /\ \A f : Turn(f, r, d) = d
  \/ r # <<>> /\ r[1] = "%" /\ Len(r) < 3 /\ \A f : Turn(f, r, d) = <<>>
  \/ \E q, e \in Str : /\ IsNext(r, d, q, e) /\ Len(q) < Len(r)
                       /\ \A f : Turn(f, r, d) = f[<<q, e>>]

\* Each turn of the loop of DecodeUrl ends it or leaves a shorter rest.
LEMMA Turns == ASSUME NEW r \in Str, NEW d \in Str PROVE Turning(r, d)
<1> USE DEF Turning
<1>1. Len(r) \in Nat /\ \A i \in 1..Len(r) : r[i] \in Character BY DEF Str
<1>2. r # <<>> => 1 \in 1..Len(r) /\ 2 \in 1..(Len(r) + 1) BY <1>1, StrJoin
<1>3. \A c \in Character : Append(d, c) \in Str /\ Put(d, c) \in Str
  BY AppendProperties, PutIs DEF Str
<1>4. CASE r = <<>> BY <1>4 DEF Turn
<1>5. CASE r # <<>> /\ r[1] = "%" /\ Len(r) < 3
  <2>1. \A f : Turn(f, r, d) = <<>> BY <1>5 DEF Turn
  <2>2. QED BY <1>5, <2>1
<1>6. CASE r # <<>> /\ r[1] = "%" /\ ~(Len(r) < 3)
  <2> DEFINE q == From(r, 4)
             e == Put(d, Unescaped(r[2], r[3]))
  <2>1. 4 \in 1..(Len(r) + 1) BY <1>1, <1>6
  <2>2. q \in Str /\ Len(q) < Len(r) BY <1>1, <2>1, FromDef
  <2>3. e \in Str BY <1>3, EscapeType
  <2>4. \A f : Turn(f, r, d) = f[<<q, e>>] BY <1>6 DEF Turn
  <2>5. IsNext(r, d, q, e) BY <1>6 DEF IsNext
  <2> HIDE DEF q, e
  <2>6. QED BY <2>2, <2>3, <2>4, <2>5
<1>7. CASE r # <<>> /\ r[1] = "+"
  <2> DEFINE q == From(r, 2)
             e == Append(d, " ")
  <2>1. q \in Str /\ Len(q) < Len(r) BY <1>1, <1>2, <1>7, FromDef
  <2>2. e \in Str BY <1>3, EscapeType
  <2>3. \A f : Turn(f, r, d) = f[<<q, e>>] BY <1>7 DEF Turn
  <2>4. IsNext(r, d, q, e) BY <1>7 DEF IsNext
  <2> HIDE DEF q, e
  <2>5. QED BY <2>1, <2>2, <2>3, <2>4
<1>8. CASE r # <<>> /\ r[1] \notin {"%", "+"}
  <2> DEFINE q == From(r, 2)
             e == Put(d, r[1])
  <2>1. q \in Str /\ Len(q) < Len(r) BY <1>1, <1>2, <1>8, FromDef
  <2>2. e \in Str BY <1>1, <1>2, <1>3, <1>8
  <2>3. \A f : Turn(f, r, d) = f[<<q, e>>] BY <1>8 DEF Turn
  <2>4. IsNext(r, d, q, e) BY <1>8 DEF IsNext
  <2> HIDE DEF q, e
  <2>5. QED BY <2>1, <2>2, <2>3, <2>4
<1>9. QED BY <1>4, <1>5, <1>6, <1>7, <1>8

DecodeBody(f) == [state \in Str \X Str |-> Turn(f, state[1], state[2])]

\* There is a function that decodes: every turn leaves a shorter rest.
LEMMA DecodeExists == \E f \in [Str \X Str -> Str] : f = DecodeBody(f)
<1> DEFINE D == Str \X Str
           rank == [x \in D |-> Len(x[1])]
           body == [f \in [D -> Str] |-> DecodeBody(f)]
<1>1. Str # {} /\ rank \in [D -> Nat] BY StrJoin
<1>2. ASSUME NEW f \in [D -> Str], NEW x \in D PROVE Turn(f, x[1], x[2]) \in Str
  <2> DEFINE r == x[1]
             d == x[2]
  <2>1. r \in Str /\ d \in Str OBVIOUS
  <2> HIDE DEF r, d
  <2>2. CASE \A g : Turn(g, r, d) = d BY <2>1, <2>2 DEF r, d
  <2>3. CASE \A g : Turn(g, r, d) = <<>> BY <2>3, StrJoin DEF r, d
  <2>4. CASE \E q, e \in Str : \A g : Turn(g, r, d) = g[<<q, e>>]
    <3>1. PICK q \in Str, e \in Str : \A g : Turn(g, r, d) = g[<<q, e>>] BY <2>4
    <3>2. <<q, e>> \in D OBVIOUS
    <3>3. f[<<q, e>>] \in Str BY <3>2
    <3>4. QED BY <3>1, <3>3 DEF r, d
  <2>5. Turning(r, d) BY <2>1, Turns
  <2>6. QED BY <2>2, <2>3, <2>4, <2>5 DEF Turning
<1>3. body \in [[D -> Str] -> [D -> Str]] BY <1>2 DEF DecodeBody
<1>4. ASSUME NEW x \in D, NEW f \in [D -> Str], NEW g \in [D -> Str],
             \A y \in D : rank[y] < rank[x] => f[y] = g[y]
      PROVE  body[f][x] = body[g][x]
  <2> DEFINE r == x[1]
             d == x[2]
  <2>1. r \in Str /\ d \in Str /\ rank[x] = Len(r) OBVIOUS
  <2>2. body[f][x] = Turn(f, r, d) /\ body[g][x] = Turn(g, r, d) BY DEF DecodeBody
  <2> HIDE DEF r, d, body
  <2>3. CASE \A h : Turn(h, r, d) = d BY <2>2, <2>3
  <2>4. CASE \A h : Turn(h, r, d) = <<>> BY <2>2, <2>4
  <2>5. CASE \E q, e \in Str : Len(q) < Len(r) /\ \A h : Turn(h, r, d) = h[<<q, e>>]
    <3>1. PICK q \in Str, e \in Str : Len(q) < Len(r) /\ \A h : Turn(h, r, d) = h[<<q, e>>]
      BY <2>5
    <3>2. <<q, e>> \in D /\ rank[<<q, e>>] = Len(q) OBVIOUS
    <3>3. f[<<q, e>>] = g[<<q, e>>] BY <1>4, <2>1, <3>1, <3>2
    <3>4. QED BY <2>2, <3>1, <3>3
  <2>6. Turning(r, d) BY <2>1, Turns
  <2>7. QED BY <2>3, <2>4, <2>5, <2>6 DEF Turning
<1> HIDE DEF rank, body, D
<1>5. Descends(body, D, Str, rank) BY <1>1, <1>3, <1>4 DEF Descends
<1>6. PICK f \in [D -> Str] : f = body[f] BY <1>5, Recursion
<1>7. f = DecodeBody(f) BY <1>6 DEF body
<1>8. QED BY <1>7 DEF D

\* What becomes of d when r is left.
DecodeFrom(r, d) == (CHOOSE f : f = DecodeBody(f))[<<r, d>>]

\* DecodeUrl starts with the whole url and nothing decoded.
LEMMA DecodeStart == \A url : DecodeUrl(url) = DecodeFrom(url, <<>>)
BY DEF DecodeUrl, DecodeFrom, DecodeBody, Turn, Str

\* One turn of the loop of DecodeUrl.
LEMMA DecodeTurn ==
  ASSUME NEW r \in Str, NEW d \in Str
  PROVE  \/ r = <<>> /\ DecodeFrom(r, d) = d
         \/ r # <<>> /\ r[1] = "%" /\ Len(r) < 3 /\ DecodeFrom(r, d) = <<>>
         \/ \E q, e \in Str : /\ IsNext(r, d, q, e) /\ Len(q) < Len(r)
                              /\ DecodeFrom(r, d) = DecodeFrom(q, e)
<1> DEFINE h == CHOOSE f : f = DecodeBody(f)
<1>1. h = DecodeBody(h) BY DecodeExists, Zenon
<1>2. \A q, e : DecodeFrom(q, e) = h[<<q, e>>] BY DEF DecodeFrom
<1> HIDE DEF h
<1>3. <<r, d>> \in Str \X Str OBVIOUS
<1>4. h[<<r, d>>] = Turn(h, r, d) BY <1>1, <1>3 DEF DecodeBody
<1>5. DecodeFrom(r, d) = Turn(h, r, d) BY <1>2, <1>4
<1>6. CASE r = <<>> /\ \A f : Turn(f, r, d) = d BY <1>5, <1>6
<1>7. CASE r # <<>> /\ r[1] = "%" /\ Len(r) < 3 /\ \A f : Turn(f, r, d) = <<>> BY <1>5, <1>7
<1>8. CASE \E q, e \in Str : /\ IsNext(r, d, q, e) /\ Len(q) < Len(r)
                             /\ \A f : Turn(f, r, d) = f[<<q, e>>]
  <2>1. PICK q \in Str, e \in Str : /\ IsNext(r, d, q, e) /\ Len(q) < Len(r)
                                    /\ \A f : Turn(f, r, d) = f[<<q, e>>]
    BY <1>8
  <2>2. DecodeFrom(r, d) = DecodeFrom(q, e) BY <1>2, <1>5, <2>1
  <2>3. QED BY <2>1, <2>2
<1>9. QED BY <1>6, <1>7, <1>8, Turns DEF Turning

\* What is decoded consists of what was there and of what escapes stand for.
LEMMA DecodedFrom ==
  \A r \in Str : \A d \in Str :
    /\ DecodeFrom(r, d) \in Str
    /\ ToSet(DecodeFrom(r, d)) \subseteq (ToSet(d) \cup ToSet(r)) \cup (DOMAIN Escape \cup {"other", NL})
<1> DEFINE Good(r, d) ==
      /\ DecodeFrom(r, d) \in Str
      /\ ToSet(DecodeFrom(r, d)) \subseteq (ToSet(d) \cup ToSet(r)) \cup (DOMAIN Escape \cup {"other", NL})
           P == {r \in Str : \A d \in Str : Good(r, d)}
<1>1. ASSUME NEW r \in Str, \A q \in Str : Len(q) < Len(r) => q \in P PROVE r \in P
  <2> SUFFICES ASSUME NEW d \in Str PROVE Good(r, d) OBVIOUS
  <2>1. CASE DecodeFrom(r, d) = d BY <2>1
  <2>2. CASE DecodeFrom(r, d) = <<>> BY <2>2, StrJoin, ToSetOf
  <2>3. CASE \E q, e \in Str : /\ IsNext(r, d, q, e) /\ Len(q) < Len(r)
                               /\ DecodeFrom(r, d) = DecodeFrom(q, e)
    <3>1. PICK q \in Str, e \in Str : /\ IsNext(r, d, q, e) /\ Len(q) < Len(r)
                                      /\ DecodeFrom(r, d) = DecodeFrom(q, e)
      BY <2>3
    <3>2. Good(q, e) BY <1>1, <3>1
    <3>3. /\ ToSet(q) \subseteq ToSet(r)
          /\ ToSet(e) \subseteq (ToSet(d) \cup ToSet(r)) \cup (DOMAIN Escape \cup {"other", NL})
      <4>1. Len(r) \in Nat /\ (r # <<>> => 1 \in 1..Len(r)) BY StrJoin
      <4>2. r # <<>> => r[1] \in ToSet(r) /\ r[1] \in Character BY <4>1 DEF ToSet, Str
      <4>3. \A i \in 1..(Len(r) + 1) : ToSet(From(r, i)) \subseteq ToSet(r) BY FromDef
      <4>4. ASSUME NEW c \in Character PROVE ToSet(Append(d, c)) = ToSet(d) \cup {c}
        <5>1. <<c>> \in Str /\ ToSet(<<c>>) = {c} BY StrOne
        <5>2. ToSet(d \o <<c>>) = ToSet(d) \cup ToSet(<<c>>) BY <5>1, StrConcat
        <5>3. QED BY <5>1, <5>2, AppendIs
      <4>5. r # <<>> BY <3>1 DEF IsNext
      <4>6. 2 \in 1..(Len(r) + 1) /\ (~(Len(r) < 3) => 4 \in 1..(Len(r) + 1)) BY <4>1, <4>5
      <4>7. ToSet(q) \subseteq ToSet(r) BY <3>1, <4>3, <4>6 DEF IsNext
      <4>8. \E c \in Character : /\ e = Append(d, c) \/ e = Put(d, c)
                               /\ c \in ToSet(r) \cup (DOMAIN Escape \cup {"other", NL})
        <5>1. CASE e = Put(d, Unescaped(r[2], r[3])) BY <5>1, EscapeType
        <5>2. CASE e = Append(d, " ") BY <5>2, EscapeType
        <5>3. CASE e = Put(d, r[1]) BY <4>2, <4>5, <5>3
        <5>4. QED BY <3>1, <5>1, <5>2, <5>3 DEF IsNext
      <4>9. \A c \in Character : ToSet(Put(d, c)) \subseteq (ToSet(d) \cup {c}) \cup {NL} BY PutIs
      <4>10. PICK c \in Character : /\ e = Append(d, c) \/ e = Put(d, c)
                                   /\ c \in ToSet(r) \cup (DOMAIN Escape \cup {"other", NL})
        BY <4>8
      <4>11. ToSet(e) \subseteq (ToSet(d) \cup {c}) \cup {NL} BY <4>4, <4>9, <4>10
      <4>12. QED BY <4>7, <4>10, <4>11
    <3>4. QED BY <3>1, <3>2, <3>3
  <2>4. QED BY <2>1, <2>2, <2>3, DecodeTurn
<1>2. P \in SUBSET Str OBVIOUS
<1> HIDE DEF P
<1>3. \A s \in Str : s \in P BY <1>1, <1>2, ByLength
<1>4. QED BY <1>3 DEF P

\* A decoded url is a text of the characters of the url and of what escapes stand for.
LEMMA Decoding ==
  ASSUME NEW url \in Str
  PROVE  /\ DecodeUrl(url) \in Str
         /\ ToSet(DecodeUrl(url)) \subseteq ToSet(url) \cup (DOMAIN Escape \cup {"other", NL})
BY DecodedFrom, DecodeStart, StrJoin, ToSetOf

(***************************************************************************)
(* Texts that stand for others                                             *)
(***************************************************************************)
\* Wherever u stands, w is decoded.
Decodes(u, w) ==
  /\ u \in Str /\ w \in Str
  /\ \A b, d \in Str : DecodeFrom(u \o b, d) = DecodeFrom(b, d \o w)

\* What stands for two texts one after the other.
LEMMA DecodesTwo ==
  ASSUME NEW u, NEW w, NEW v, NEW x, Decodes(u, w), Decodes(v, x)
  PROVE  Decodes(u \o v, w \o x)
<1>1. u \in Str /\ w \in Str /\ v \in Str /\ x \in Str BY DEF Decodes
<1>2. u \o v \in Str /\ w \o x \in Str BY <1>1, StrConcat
<1>3. ASSUME NEW b \in Str, NEW d \in Str
      PROVE  DecodeFrom((u \o v) \o b, d) = DecodeFrom(b, d \o (w \o x))
  <2>1. (u \o v) \o b = u \o (v \o b) /\ v \o b \in Str
    <3>1. u \in Str /\ v \in Str /\ b \in Str BY <1>1
    <3>2. (u \o v) \o b = u \o (v \o b) BY <3>1, StrAssoc
    <3>3. QED BY <3>1, <3>2, StrConcat
  <2>2. DecodeFrom(u \o (v \o b), d) = DecodeFrom(v \o b, d \o w) BY <2>1 DEF Decodes
  <2>3. d \o w \in Str /\ (d \o w) \o x = d \o (w \o x) BY <1>1, StrAssoc, StrConcat
  <2>4. DecodeFrom(v \o b, d \o w) = DecodeFrom(b, (d \o w) \o x) BY <2>3 DEF Decodes
  <2>5. QED BY <2>1, <2>2, <2>3, <2>4
<1>4. QED BY <1>2, <1>3 DEF Decodes

\* Nothing stands for nothing.
LEMMA DecodesNothing == Decodes(<<>>, <<>>)
<1>1. \A b \in Str : <<>> \o b = b /\ b \o <<>> = b BY StrJoin
<1>2. QED BY <1>1, StrJoin DEF Decodes

\* A url that stands for a text is decoded to it.
LEMMA DecodesWhole == ASSUME NEW u, NEW w, Decodes(u, w) PROVE DecodeUrl(u) = w
<1>1. u \in Str /\ w \in Str /\ <<>> \in Str BY StrJoin DEF Decodes
<1>2. DecodeFrom(u \o <<>>, <<>>) = DecodeFrom(<<>>, <<>> \o w) BY <1>1 DEF Decodes
<1>3. u \o <<>> = u /\ <<>> \o w = w BY <1>1, StrJoin
<1>4. DecodeFrom(<<>>, w) = w BY <1>1, DecodeTurn DEF IsNext
<1>5. QED BY <1>2, <1>3, <1>4, DecodeStart

\* A character that has no meaning stands for itself.
LEMMA DecodesSelf ==
  ASSUME NEW c \in Character, c \notin {"%", "+", "LF"} PROVE Decodes(<<c>>, <<c>>)
<1>1. <<c>> \in Str BY StrOne
<1>2. ASSUME NEW b \in Str, NEW d \in Str PROVE DecodeFrom(<<c>> \o b, d) = DecodeFrom(b, d \o <<c>>)
  <2> DEFINE r == <<c>> \o b
  <2>1. r \in Str /\ r # <<>> /\ r[1] = c /\ From(r, 2) = b BY Drop
  <2> HIDE DEF r
  <2>2. Put(d, c) = d \o <<c>> BY AppendIs, PutIs
  <2>3. \A q, e : IsNext(r, d, q, e) => q = b /\ e = d \o <<c>> BY <2>1, <2>2 DEF IsNext
  <2>4. \E q, e \in Str : IsNext(r, d, q, e) /\ DecodeFrom(r, d) = DecodeFrom(q, e)
    BY <2>1, DecodeTurn
  <2>5. QED BY <2>3, <2>4 DEF r
<1>3. QED BY <1>1, <1>2 DEF Decodes

\* An escape has three characters, none of them special, and stands for its character.
LEMMA Unescaping ==
  ASSUME NEW c \in DOMAIN Escape
  PROVE  \E x, y \in Character : /\ Escape[c] = <<"%", x, y>> /\ Unescaped(x, y) = c
                                 /\ Escape[c] \in Str
                                 /\ {NL, " ", "?", "&", "="} \cap ToSet(Escape[c]) = {}
<1> DEFINE X == [a \in DOMAIN Escape |-> CASE a \in {"?", "="} -> "3" [] a \in {"CR", "LF"} -> "0"
                                           [] OTHER -> "2"]
           Y == [a \in DOMAIN Escape |-> CASE a = "?" -> "F" [] a = "&" -> "6" [] a = "=" -> "D"
                                           [] a = "+" -> "B" [] a = "%" -> "5" [] a = " " -> "0"
                                           [] a = "CR" -> "D" [] a = "LF" -> "A"]
<1>1. DOMAIN Escape = {"?", "&", "=", "+", "%", " ", "CR", "LF"} BY EscapeType
<1>2. \A a \in DOMAIN Escape : Escape[a] = <<"%", X[a], Y[a]>> BY <1>1 DEF Escape
<1>3. \A a, b \in DOMAIN Escape : X[a] = X[b] /\ Y[a] = Y[b] => a = b BY <1>1
<1>4. X[c] \in {"0", "2", "3"} /\ Y[c] \in {"F", "6", "D", "B", "5", "0", "A"} BY <1>1
<1> HIDE DEF X, Y
<1>5. Unescaped(X[c], Y[c]) = c
  <2>1. \A a \in DOMAIN Escape : Escape[a] = <<"%", X[c], Y[c]>> => a = c BY <1>2, <1>3
  <2>2. Escape[c] = <<"%", X[c], Y[c]>> BY <1>2
  <2>3. AsEscape(X[c], Y[c]) = <<"%", X[c], Y[c]>>
    <3>1. DOMAIN LowerOf = {"A", "B", "C", "D", "E", "F"} BY DEF LowerOf
    <3>2. ToSet(LowerOf) = {"a", "b", "c", "d", "e", "f"} BY <3>1 DEF ToSet, LowerOf
    <3>3. X[c] \in Hexadecimal /\ Y[c] \in Hexadecimal BY <1>4, <3>1 DEF Hexadecimal
    <3>4. Digit(X[c]) = X[c] /\ Digit(Y[c]) = Y[c] BY <1>4, <3>2 DEF Digit
    <3>5. {"+", "CR", "LF"} \cap Hexadecimal = {} BY <3>1, <3>2 DEF Hexadecimal
    <3>6. AsEscape(X[c], Y[c]) = <<"%", Digit(X[c]), Digit(Y[c])>>
      BY <3>3, <3>5, Zenon DEF AsEscape
    <3>7. QED BY <3>4, <3>6
  <2>4. QED BY <2>1, <2>2, <2>3 DEF Unescaped
<1>6. ToSet(Escape[c]) = {"%", X[c], Y[c]}
  <2>1. DOMAIN <<"%", X[c], Y[c]>> = 1..3 OBVIOUS
  <2>2. QED BY <1>2, <2>1 DEF ToSet
<1>7. ToSet(Escape[c]) \subseteq Character
  <2>1. Escape[c] \in ToSet(Escape) BY DEF ToSet
  <2>2. QED BY <2>1, CharacterAssumption DEF Letters
<1>8. Escape[c] \in Str
  <2>1. "%" \in Character /\ X[c] \in Character /\ Y[c] \in Character BY <1>6, <1>7
  <2>2. <<"%", X[c], Y[c]>> \in Seq(Character) BY <2>1, ThreeChars
  <2>3. QED BY <1>2, <2>2 DEF Str
<1>9. {NL, " ", "?", "&", "="} \cap ToSet(Escape[c]) = {} BY <1>4, <1>6 DEF NL
<1>10. QED BY <1>2, <1>5, <1>6, <1>7, <1>8, <1>9

\* An escape is decoded to its character.
LEMMA DecodesEscape ==
  ASSUME NEW c \in DOMAIN Escape, c # "LF" PROVE Decodes(Escape[c], <<c>>)
<1>1. PICK x \in Character, y \in Character :
        Escape[c] = <<"%", x, y>> /\ Unescaped(x, y) = c /\ Escape[c] \in Str
  BY Unescaping
<1>2. c \in Character /\ "%" \in Character /\ <<c>> \in Str BY EscapeType, StrOne
<1>3. ASSUME NEW b \in Str, NEW d \in Str PROVE DecodeFrom(Escape[c] \o b, d) = DecodeFrom(b, d \o <<c>>)
  <2> DEFINE r == <<"%", x, y>> \o b
  <2>1. /\ r \in Str /\ r # <<>> /\ ~(Len(r) < 3) /\ From(r, 4) = b
        /\ r[1] = "%" /\ r[2] = x /\ r[3] = y
    BY <1>2, Drop
  <2> HIDE DEF r
  <2>2. Put(d, c) = d \o <<c>> BY <1>2, AppendIs, PutIs
  <2>3. \A q, e : IsNext(r, d, q, e) => q = b /\ e = d \o <<c>> BY <1>1, <2>1, <2>2 DEF IsNext
  <2>4. \E q, e \in Str : IsNext(r, d, q, e) /\ DecodeFrom(r, d) = DecodeFrom(q, e)
    BY <2>1, DecodeTurn
  <2>5. QED BY <1>1, <2>3, <2>4 DEF r
<1>4. QED BY <1>1, <1>2, <1>3 DEF Decodes

\* Sequences of any kind are built by appending.
LEMMA ByAppending ==
  ASSUME NEW S, NEW P \in SUBSET Seq(S), <<>> \in P, \A s \in P, e \in S : Append(s, e) \in P
  PROVE  \A s \in Seq(S) : s \in P
<1> DEFINE T == {n \in Nat : \A s \in Seq(S) : Len(s) = n => s \in P}
<1>1. 0 \in T BY EmptySeq
<1>2. ASSUME NEW n \in T PROVE n + 1 \in T
  <2>1. ASSUME NEW s \in Seq(S), Len(s) = n + 1 PROVE s \in P
    <3>1. s # <<>> BY <2>1, EmptySeq
    <3>2. PICK q \in Seq(S), e \in S : s = Append(q, e) BY <3>1, SequenceEmptyOrAppend
    <3>3. Len(q) = n BY <2>1, <3>2, AppendProperties
    <3>4. QED BY <3>2, <3>3
  <2>2. QED BY <2>1
<1> HIDE DEF T
<1>3. \A n \in Nat : n \in T BY <1>1, <1>2, Induction DEF T
<1>4. ASSUME NEW s \in Seq(S) PROVE s \in P
  <2>1. Len(s) \in T BY <1>3
  <2>2. QED BY <2>1 DEF T
<1>5. QED BY <1>4

\* A text without escapes stands for itself.
LEMMA DecodesPlain == \A s \in Str : ToSet(s) \cap {"%", "+", "LF"} = {} => Decodes(s, s)
<1> DEFINE P == {s \in Str : ToSet(s) \cap {"%", "+", "LF"} = {} => Decodes(s, s)}
<1>1. <<>> \in P BY DecodesNothing, StrJoin
<1>2. ASSUME NEW s \in P, NEW c \in Character PROVE Append(s, c) \in P
  <2>1. <<c>> \in Str /\ ToSet(<<c>>) = {c} BY StrOne
  <2>2. Append(s, c) = s \o <<c>> BY AppendIs
  <2>3. s \o <<c>> \in Str /\ ToSet(s \o <<c>>) = ToSet(s) \cup {c} BY <2>1, StrConcat
  <2>4. ASSUME ToSet(s \o <<c>>) \cap {"%", "+", "LF"} = {} PROVE Decodes(s \o <<c>>, s \o <<c>>)
    <3>1. Decodes(s, s) /\ c \notin {"%", "+", "LF"} BY <2>3, <2>4
    <3>2. Decodes(<<c>>, <<c>>) BY <3>1, DecodesSelf
    <3>3. QED BY <3>1, <3>2, DecodesTwo
  <2>5. QED BY <2>2, <2>3, <2>4
<1>3. P \in SUBSET Seq(Character) BY DEF Str
<1> HIDE DEF P
<1>4. \A s \in Seq(Character) : s \in P BY <1>1, <1>2, <1>3, ByAppending
<1>5. QED BY <1>4 DEF P, Str

(***************************************************************************)
(* What a client sends                                                     *)
(***************************************************************************)
Mapped(g, s) == [n \in DOMAIN s |-> g[s[n]]]

IsMapped(g, s, S, T) ==
  /\ Mapped(g, s) \in Seq(T) /\ Len(Mapped(g, s)) = Len(s)
  /\ \A i \in 1..Len(s) : Mapped(g, s)[i] = g[s[i]]
  /\ s = <<>> => Mapped(g, s) = <<>>
  /\ \A e \in S : Mapped(g, Append(s, e)) = Append(Mapped(g, s), g[e])

\* A function applied to every member of a sequence.
LEMMA Mapping ==
  ASSUME NEW S, NEW T, NEW g \in [S -> T], NEW s \in Seq(S)
  PROVE  IsMapped(g, s, S, T)
<1> DEFINE m == Mapped(g, s)
<1>1. Len(s) \in Nat /\ DOMAIN s = 1..Len(s) /\ \A i \in 1..Len(s) : s[i] \in S OBVIOUS
<1>2. m = [i \in 1..Len(s) |-> g[s[i]]] BY <1>1 DEF Mapped
<1>3. \A i \in 1..Len(s) : g[s[i]] \in T BY <1>1
<1>4. m \in Seq(T) /\ Len(m) = Len(s) /\ \A i \in 1..Len(s) : m[i] = g[s[i]]
  <2>1. m \in [1..Len(s) -> T] BY <1>2, <1>3
  <2> HIDE DEF m
  <2>2. QED BY <1>1, <1>2, <2>1
<1> HIDE DEF m
<1>5. s = <<>> => m = <<>> BY <1>4, EmptySeq
<1>6. ASSUME NEW e \in S PROVE Mapped(g, Append(s, e)) = Append(m, g[e])
  <2> DEFINE a == Append(s, e)
             x == Mapped(g, a)
             y == Append(m, g[e])
  <2>1. a \in Seq(S) /\ Len(a) = Len(s) + 1 /\ a[Len(s) + 1] = e /\ \A i \in 1..Len(s) : a[i] = s[i]
    BY AppendProperties
  <2> HIDE DEF a
  <2>2. DOMAIN a = 1..(Len(s) + 1) /\ \A i \in 1..(Len(s) + 1) : a[i] \in S BY <1>1, <2>1
  <2>3. x = [i \in 1..(Len(s) + 1) |-> g[a[i]]] BY <2>2 DEF Mapped
  <2>4. x \in Seq(T) /\ Len(x) = Len(s) + 1 /\ \A i \in 1..(Len(s) + 1) : x[i] = g[a[i]]
    <3>1. \A i \in 1..(Len(s) + 1) : g[a[i]] \in T BY <2>2
    <3>2. x \in [1..(Len(s) + 1) -> T] BY <2>3, <3>1
    <3> HIDE DEF x
    <3>3. QED BY <1>1, <2>3, <3>2
  <2>5. g[e] \in T OBVIOUS
  <2>6. y \in Seq(T) /\ Len(y) = Len(s) + 1 /\ y[Len(s) + 1] = g[e] /\ \A i \in 1..Len(s) : y[i] = m[i]
    BY <1>4, <2>5, AppendProperties
  <2> HIDE DEF x, y
  <2>7. ASSUME NEW i \in 1..(Len(s) + 1) PROVE x[i] = y[i]
    <3>1. CASE i = Len(s) + 1 BY <2>1, <2>4, <2>6, <3>1
    <3>2. CASE i \in 1..Len(s) BY <1>4, <2>1, <2>4, <2>6, <3>2
    <3>3. QED BY <1>1, <3>1, <3>2
  <2>8. x = y BY <2>4, <2>6, <2>7, SeqEqual
  <2>9. QED BY <2>8 DEF x, y, a
<1>7. QED BY <1>4, <1>5, <1>6 DEF m, IsMapped

\* A text on one line has no line end.
LEMMA OneLineIs == \A s \in OneLine : s \in Str /\ {NL, "CR", "LF"} \cap ToSet(s) = {}
<1>1. ASSUME NEW s \in OneLine PROVE s \in Str /\ {NL, "CR", "LF"} \cap ToSet(s) = {}
  <2>1. \A i \in 1..Len(s) : s[i] \in Character /\ s[i] \notin {NL, "CR", "LF"} BY DEF OneLine
  <2>2. QED BY <2>1 DEF OneLine, Str, ToSet
<1>2. QED BY <1>1

EscapedChar == [c \in Character |-> IF c \in DOMAIN Escape THEN Escape[c] ELSE <<c>>]

\* Escaped puts the escapes of the characters one after another.
LEMMA EscapedFlat == ASSUME NEW s \in Str PROVE Escaped(s) = FlattenSeq(Mapped(EscapedChar, s))
<1>1. \A i \in DOMAIN s : s[i] \in Character BY DEF Str
<1>2. [n \in DOMAIN s |-> IF s[n] \in DOMAIN Escape THEN Escape[s[n]] ELSE <<s[n]>>]
        = Mapped(EscapedChar, s)
  BY <1>1 DEF Mapped, EscapedChar
<1>3. QED BY <1>2 DEF Escaped

\* What is escaped is decoded again, and has no character that could be taken for
\* a separator.
IsEscaped(u, s) ==
  /\ Decodes(u, s) /\ ToSet(u) \cap {" ", "?", "&", "="} = {}
  /\ NL \notin ToSet(s) => NL \notin ToSet(u)

\* Each character is decoded from its escape, if it cannot end a line.
LEMMA CharIsEscaped ==
  ASSUME NEW c \in Character, c # "LF" PROVE IsEscaped(EscapedChar[c], <<c>>)
<1>1. <<c>> \in Str /\ ToSet(<<c>>) = {c} BY StrOne
<1>2. CASE c \in DOMAIN Escape
  <2>1. EscapedChar[c] = Escape[c] BY <1>2 DEF EscapedChar
  <2>2. QED BY <1>2, <2>1, DecodesEscape, Unescaping DEF IsEscaped
<1>3. CASE c \notin DOMAIN Escape
  <2>1. EscapedChar[c] = <<c>> BY <1>3 DEF EscapedChar
  <2>2. c \notin {"%", "+", " ", "?", "&", "=", "LF"} BY <1>3, EscapeType
  <2>3. QED BY <1>1, <2>1, <2>2, DecodesSelf DEF IsEscaped
<1>4. QED BY <1>2, <1>3

\* Escapes of two texts one after the other.
LEMMA EscapedTwo ==
  ASSUME NEW u, NEW s, NEW v, NEW t, IsEscaped(u, s), IsEscaped(v, t)
  PROVE  IsEscaped(u \o v, s \o t)
<1>1. u \in Str /\ s \in Str /\ v \in Str /\ t \in Str BY DEF IsEscaped, Decodes
<1>2. ToSet(u \o v) = ToSet(u) \cup ToSet(v) /\ ToSet(s \o t) = ToSet(s) \cup ToSet(t)
  BY <1>1, StrConcat
<1>3. Decodes(u \o v, s \o t) BY DecodesTwo DEF IsEscaped
<1>4. QED BY <1>2, <1>3 DEF IsEscaped

\* Every text is decoded from its escape, which has no character that cuts a line.
LEMMA Escaping == \A s \in Str : "LF" \notin ToSet(s) => IsEscaped(Escaped(s), s)
<1> DEFINE Good(s) == "LF" \notin ToSet(s) => IsEscaped(FlattenSeq(Mapped(EscapedChar, s)), s)
           P == {s \in Str : Good(s)}
<1>1. EscapedChar \in [Character -> Str]
  <2>1. \A c \in Character : EscapedChar[c] \in Str BY Unescaping, StrOne DEF EscapedChar
  <2>2. QED BY <2>1 DEF EscapedChar
<1>2. <<>> \in P
  <2>1. <<>> \in Seq(Character) BY EmptySeq
  <2>2. IsMapped(EscapedChar, <<>>, Character, Str) BY <1>1, <2>1, Mapping
  <2>3. Mapped(EscapedChar, <<>>) = <<>> BY <2>2 DEF IsMapped
  <2>4. FlattenSeq(<<>>) = <<>> BY Flat, EmptySeq
  <2>5. IsEscaped(<<>>, <<>>) BY DecodesNothing, ToSetOf DEF IsEscaped
  <2>6. QED BY <2>3, <2>4, <2>5, StrJoin
<1>3. ASSUME NEW s \in P, NEW c \in Character PROVE Append(s, c) \in P
  <2>1. s \in Seq(Character) BY DEF Str
  <2> DEFINE m == Mapped(EscapedChar, s)
  <2>2. Mapped(EscapedChar, Append(s, c)) = Append(m, EscapedChar[c]) /\ m \in Seq(Str)
    <3>1. IsMapped(EscapedChar, s, Character, Str) BY <1>1, <2>1, Mapping
    <3>2. QED BY <3>1 DEF IsMapped
  <2>3. "LF" \notin ToSet(s) => IsEscaped(FlattenSeq(m), s) OBVIOUS
  <2> HIDE DEF m
  <2>4. EscapedChar[c] \in Str BY <1>1
  <2>5. FlattenSeq(Append(m, EscapedChar[c])) = FlattenSeq(m) \o EscapedChar[c] BY <2>2, <2>4, Flat
  <2>6. ASSUME "LF" \notin ToSet(s), c # "LF"
        PROVE  IsEscaped(FlattenSeq(m) \o EscapedChar[c], s \o <<c>>)
    BY <2>3, <2>6, CharIsEscaped, EscapedTwo
  <2>7. Append(s, c) = s \o <<c>> /\ s \o <<c>> \in Str /\ ToSet(s \o <<c>>) = ToSet(s) \cup {c}
    BY AppendIs, StrOne, StrConcat
  <2>8. Good(Append(s, c)) BY <2>2, <2>5, <2>6, <2>7
  <2>9. QED BY <2>7, <2>8
<1>4. P \in SUBSET Seq(Character) BY DEF Str
<1> HIDE DEF P
<1>5. \A s \in Seq(Character) : s \in P BY <1>2, <1>3, <1>4, ByAppending
<1>6. QED BY <1>5, EscapedFlat DEF P, Str

(***************************************************************************)
(* Parts printed one after another                                         *)
(***************************************************************************)
\* The texts that the characters X are enough for.
Over(X) == {t \in Str : ToSet(t) \subseteq X}

IsJoined(s, parts, c, X) ==
  s \in Over(X \cup {c}) /\ (parts = <<>> => s = <<>>)
  /\ (parts # <<>> /\ c \notin X => Split(s, c) = parts)

\* What has been joined is split again into its parts.
LEMMA Joining ==
  ASSUME NEW c \in Character, NEW X
  PROVE  \A parts \in Seq(Over(X)) : IsJoined(Joined(parts, c), parts, c, X)
<1> DEFINE P == {parts \in Seq(Over(X)) : IsJoined(Chain(parts, <<c>>), parts, c, X)}
<1>1. <<c>> \in Str /\ ToSet(<<c>>) = {c} BY StrOne
<1>2. \A parts \in Seq(Over(X)) : parts \in Seq(Str) BY DEF Over
<1>3. <<>> \in P
  <2>1. <<>> \in Seq(Str) /\ <<>> \in Seq(Over(X)) BY EmptySeq
  <2>2. Chain(<<>>, <<c>>) = <<>> BY <1>1, <2>1, ChainEnd
  <2>3. <<>> \in Over(X \cup {c}) BY StrJoin, ToSetOf DEF Over
  <2>4. IsJoined(<<>>, <<>>, c, X) BY <2>3 DEF IsJoined
  <2>5. QED BY <2>1, <2>2, <2>4
<1>4. ASSUME NEW q \in P, NEW t \in Over(X) PROVE Append(q, t) \in P
  <2>1. q \in Seq(Over(X)) /\ q \in Seq(Str) /\ t \in Str /\ ToSet(t) \subseteq X BY <1>2 DEF Over
  <2>2. Append(q, t) \in Seq(Over(X)) /\ Append(q, t) # <<>> BY <2>1, AppendProperties, EmptySeq
  <2> DEFINE s == Chain(q, <<c>>)
             r == Chain(Append(q, t), <<c>>)
  <2>3. r = IF q = <<>> THEN t ELSE s \o <<c>> \o t BY <1>1, <2>1, ChainEnd
  <2>4. IsJoined(s, q, c, X) OBVIOUS
  <2> HIDE DEF s, r
  <2>5. CASE q = <<>>
    <3>1. r = t /\ t \in Over(X \cup {c}) BY <2>1, <2>3, <2>5 DEF Over
    <3>2. Append(q, t) = <<t>> BY <2>5
    <3>3. c \notin X => Split(t, c) = <<t>> BY <2>1, SplitFirst
    <3>4. IsJoined(r, Append(q, t), c, X) BY <2>2, <3>1, <3>2, <3>3 DEF IsJoined
    <3>5. QED BY <2>2, <3>4 DEF r
  <2>6. CASE q # <<>>
    <3>1. s \in Str /\ ToSet(s) \subseteq X \cup {c} BY <2>4 DEF IsJoined, Over
    <3>2. s \o <<c>> \in Str /\ ToSet(s \o <<c>>) = ToSet(s) \cup {c} BY <1>1, <3>1, StrConcat
    <3>3. s \o <<c>> \o t \in Str /\ ToSet(s \o <<c>> \o t) = (ToSet(s) \cup {c}) \cup ToSet(t)
      BY <2>1, <3>2, StrConcat
    <3>4. r \in Over(X \cup {c}) BY <2>1, <2>3, <2>6, <3>1, <3>3 DEF Over
    <3>5. ASSUME c \notin X PROVE Split(r, c) = Append(q, t)
      <4>1. c \notin ToSet(t) BY <2>1, <3>5
      <4>2. Split(s \o <<c>> \o t, c) = Split(s, c) \o <<t>> BY <2>1, <3>1, <4>1, SplitLast
      <4>3. Split(s, c) = q BY <2>4, <2>6, <3>5 DEF IsJoined
      <4>4. Append(q, t) = q \o <<t>> BY <2>1, AppendIsConcat
      <4>5. QED BY <2>3, <2>6, <4>2, <4>3, <4>4
    <3>6. IsJoined(r, Append(q, t), c, X) BY <2>2, <3>4, <3>5 DEF IsJoined
    <3>7. QED BY <2>2, <3>6 DEF r
  <2>7. QED BY <2>5, <2>6
<1>5. P \in SUBSET Seq(Over(X)) OBVIOUS
<1> HIDE DEF P
<1>6. \A parts \in Seq(Over(X)) : parts \in P BY <1>3, <1>4, <1>5, ByAppending
<1>7. QED BY <1>6, JoinedIsChain DEF P

\* A text is empty or has a character.
LEMMA Empty == ASSUME NEW s \in Str PROVE s = <<>> <=> ToSet(s) = {}
<1>1. Len(s) \in Nat /\ (Len(s) = 0 => s = <<>>) BY StrJoin
<1>2. ASSUME s # <<>> PROVE s[1] \in ToSet(s)
  <2>1. 1 \in DOMAIN s BY <1>1, <1>2 DEF Str
  <2>2. QED BY <2>1 DEF ToSet
<1>3. QED BY <1>2, ToSetOf

(***************************************************************************)
(* Query parameters                                                        *)
(***************************************************************************)
PairText == [p \in Str \X Str |-> p[1] \o <<"=">> \o p[2]]

\* A parameter that is printed is parsed to what it was, if its key has no "=".
LEMMA PairTexts ==
  ASSUME NEW p \in Str \X Str
  PROVE  /\ PairText[p] \in Str /\ ToSet(PairText[p]) = (ToSet(p[1]) \cup {"="}) \cup ToSet(p[2])
         /\ "=" \notin ToSet(p[1]) => Find(PairText[p], "=") # 0 /\ KeyAndValue(PairText[p]) = p
<1>1. p[1] \in Str /\ p[2] \in Str /\ p = <<p[1], p[2]>> OBVIOUS
<1>2. "=" \in Character /\ <<"=">> \in Str /\ ToSet(<<"=">>) = {"="} BY EscapeType, StrOne
<1> DEFINE k == p[1]
           v == p[2]
           s == k \o <<"=">> \o v
<1>3. PairText[p] = s BY DEF PairText
<1>4. k \in Str /\ v \in Str /\ p = <<k, v>> BY <1>1
<1> HIDE DEF k, v
<1>5. s \in Str /\ ToSet(s) = (ToSet(k) \cup {"="}) \cup ToSet(v)
  <2>1. k \o <<"=">> \in Str /\ ToSet(k \o <<"=">>) = ToSet(k) \cup {"="} BY <1>2, <1>4, StrConcat
  <2>2. QED BY <1>4, <2>1, StrConcat
<1>6. ASSUME "=" \notin ToSet(k) PROVE Find(s, "=") # 0 /\ KeyAndValue(s) = p
  <2>1. Find(s, "=") = Len(k) + 1 /\ Until(s, Len(k) + 1) = k /\ From(s, Len(k) + 2) = v
    BY <1>2, <1>4, <1>6, Cut
  <2>2. Len(k) \in Nat BY <1>4, StrJoin
  <2> HIDE DEF s
  <2>3. Find(s, "=") # 0 /\ Find(s, "=") + 1 = Len(k) + 2 BY <2>1, <2>2
  <2>4. KeyAndValue(s) = <<k, v>> BY <2>1, <2>3 DEF KeyAndValue
  <2>5. QED BY <1>4, <2>3, <2>4
<1>7. QED BY <1>3, <1>4, <1>5, <1>6 DEF k, v

\* What query parameters may be for their text to be split into them again.
Separable == {p \in Str \X Str : "=" \notin ToSet(p[1]) /\ "&" \notin ToSet(p[1]) \cup ToSet(p[2])}

\* Parameters printed with "&" between them are parsed to what they were.
LEMMA QueryRead ==
  ASSUME NEW pairs \in Seq(Separable), pairs # <<>>
  PROVE  LET q == Joined(Mapped(PairText, pairs), "&")
         IN  q \in Str /\ q # <<>> /\ IsQuery(q) /\ QueryParameters(q) = Emplaced(pairs)
<1> DEFINE X == Character \ {"&"}
           g == [p \in Separable |-> PairText[p]]
           parts == Mapped(PairText, pairs)
           q == Joined(parts, "&")
<1>1. "&" \in Character /\ "=" \in Character /\ "=" # "&" BY EscapeType
<1>2. ASSUME NEW p \in Separable
      PROVE  /\ PairText[p] \in Over(X) /\ PairText[p] # <<>>
             /\ Find(PairText[p], "=") # 0 /\ KeyAndValue(PairText[p]) = p
  <2>1. p \in Str \X Str /\ "=" \notin ToSet(p[1]) /\ "&" \notin ToSet(p[1]) \cup ToSet(p[2])
    BY DEF Separable
  <2>2. ToSet(p[1]) \subseteq Character /\ ToSet(p[2]) \subseteq Character BY <2>1 DEF Str, ToSet
  <2>3. /\ PairText[p] \in Str /\ ToSet(PairText[p]) = (ToSet(p[1]) \cup {"="}) \cup ToSet(p[2])
        /\ Find(PairText[p], "=") # 0 /\ KeyAndValue(PairText[p]) = p
    BY <2>1, PairTexts
  <2>4. QED BY <1>1, <2>1, <2>2, <2>3, Empty DEF Over
<1>3. pairs \in Seq(Separable) /\ Len(pairs) \in Nat /\ (Len(pairs) = 0 => pairs = <<>>)
      /\ DOMAIN pairs = 1..Len(pairs) /\ \A i \in 1..Len(pairs) : pairs[i] \in Separable
  BY EmptySeq
<1>4. /\ parts \in Seq(Over(X)) /\ Len(parts) = Len(pairs) /\ parts # <<>>
      /\ \A i \in 1..Len(pairs) : parts[i] = PairText[pairs[i]]
  <2>1. g \in [Separable -> Over(X)] BY <1>2
  <2>2. IsMapped(g, pairs, Separable, Over(X)) BY <2>1, Mapping
  <2>3. Mapped(g, pairs) = parts BY <1>3 DEF Mapped
  <2>4. Mapped(g, pairs) # <<>>
    <3>1. Len(Mapped(g, pairs)) = Len(pairs) BY <2>2 DEF IsMapped
    <3>2. QED BY <1>3, <3>1, EmptySeq
  <2>5. \A i \in 1..Len(pairs) : g[pairs[i]] = PairText[pairs[i]] BY <1>3
  <2> HIDE DEF g, parts
  <2>6. QED BY <2>2, <2>3, <2>4, <2>5 DEF IsMapped
<1> HIDE DEF parts
<1>5. q \in Str /\ Split(q, "&") = parts
  <2>1. IsJoined(q, parts, "&", X) BY <1>1, <1>4, Joining
  <2>2. QED BY <1>4, <2>1 DEF IsJoined, Over
<1>6. q # <<>>
  <2> SUFFICES ASSUME q = <<>> PROVE FALSE OBVIOUS
  <2>1. <<>> \in Str /\ "&" \notin ToSet(<<>>) BY StrJoin, ToSetOf
  <2>2. Split(q, "&") = << <<>> >> BY <1>1, <2>1, SplitFirst
  <2>3. parts[1] = <<>> BY <1>5, <2>2
  <2>4. 1 \in 1..Len(pairs) BY <1>3
  <2>5. QED BY <1>2, <1>3, <1>4, <2>3, <2>4
<1> HIDE DEF q
<1>7. DOMAIN parts = DOMAIN pairs BY <1>3, <1>4
<1>8. IsQuery(q)
  <2>1. \A p \in ToSet(parts) : Find(p, "=") # 0 BY <1>2, <1>3, <1>4, <1>7 DEF ToSet
  <2>2. QED BY <1>5, <2>1 DEF IsQuery, Params
<1>9. QueryParameters(q) = Emplaced(pairs)
  <2>1. [i \in DOMAIN Params(q) |-> KeyAndValue(Params(q)[i])] = pairs
    BY <1>2, <1>3, <1>4, <1>5, <1>7 DEF Params
  <2>2. QED BY <1>6, <2>1 DEF QueryParameters
<1>10. QED BY <1>5, <1>6, <1>8, <1>9 DEF q, parts

(***************************************************************************)
(* The request line                                                        *)
(***************************************************************************)
\* The characters that are printed one after another.
IsRow(x, y, z, w) ==
  /\ <<x>> \o <<y>> = <<x, y>> /\ <<x>> \o <<y, z>> = <<x, y, z>>
  /\ <<x>> \o <<y, z, w>> = <<x, y, z, w>>

\* A sequence of four.
LEMMA Row == ASSUME NEW S, NEW x \in S, NEW y \in S, NEW z \in S, NEW w \in S PROVE IsRow(x, y, z, w)
<1>1. <<x>> \in Seq(S) /\ Len(<<x>>) = 1 /\ <<x>>[1] = x OBVIOUS
<1>2. <<y>> \in Seq(S) /\ Len(<<y>>) = 1 /\ <<y>>[1] = y OBVIOUS
<1>3. <<y, z>> \in Seq(S) /\ Len(<<y, z>>) = 2 /\ <<y, z>>[1] = y /\ <<y, z>>[2] = z OBVIOUS
<1>4. /\ <<y, z, w>> \in Seq(S) /\ Len(<<y, z, w>>) = 3
      /\ <<y, z, w>>[1] = y /\ <<y, z, w>>[2] = z /\ <<y, z, w>>[3] = w
  OBVIOUS
<1>5. ASSUME NEW t \in Seq(S)
      PROVE  /\ <<x>> \o t \in Seq(S) /\ Len(<<x>> \o t) = 1 + Len(t) /\ (<<x>> \o t)[1] = x
             /\ \A i \in 1..Len(t) : (<<x>> \o t)[i + 1] = t[i]
  <2> DEFINE o == <<x>>
             s == o \o t
  <2>1. o \in Seq(S) /\ Len(o) = 1 /\ o[1] = x BY <1>1
  <2> HIDE DEF o
  <2>2. /\ s \in Seq(S) /\ Len(s) = Len(o) + Len(t)
        /\ \A i \in 1..(Len(o) + Len(t)) : s[i] = IF i <= Len(o) THEN o[i] ELSE t[i - Len(o)]
    BY <2>1, ConcatProperties
  <2> HIDE DEF s
  <2>3. Len(t) \in Nat OBVIOUS
  <2>4. 1 \in 1..(Len(o) + Len(t)) BY <2>1, <2>3
  <2>5. s[1] = x BY <2>1, <2>2, <2>4
  <2>6. ASSUME NEW i \in 1..Len(t) PROVE s[i + 1] = t[i]
    <3>1. i + 1 \in 1..(Len(o) + Len(t)) /\ ~(i + 1 <= Len(o)) /\ (i + 1) - Len(o) = i
      BY <2>1, <2>3
    <3>2. QED BY <2>2, <3>1
  <2>7. QED BY <2>1, <2>2, <2>5, <2>6 DEF s, o
<1>6. <<x>> \o <<y>> = <<x, y>>
  <2> DEFINE a == <<x>> \o <<y>>
             b == <<x, y>>
  <2>1. a \in Seq(S) /\ Len(a) = 1 + 1 /\ a[1] = x /\ a[1 + 1] = y BY <1>2, <1>5
  <2>2. b \in Seq(S) /\ Len(b) = 2 /\ b[1] = x /\ b[2] = y OBVIOUS
  <2> HIDE DEF a, b
  <2>3. \A i \in 1..2 : i = 1 \/ i = 2 OBVIOUS
  <2>4. a = b BY <2>1, <2>2, <2>3, SeqEqual
  <2>5. QED BY <2>4 DEF a, b
<1>7. <<x>> \o <<y, z>> = <<x, y, z>>
  <2> DEFINE a == <<x>> \o <<y, z>>
             b == <<x, y, z>>
  <2>1. a \in Seq(S) /\ Len(a) = 1 + 2 /\ a[1] = x /\ a[1 + 1] = y /\ a[2 + 1] = z BY <1>3, <1>5
  <2>2. b \in Seq(S) /\ Len(b) = 3 /\ b[1] = x /\ b[2] = y /\ b[3] = z OBVIOUS
  <2> HIDE DEF a, b
  <2>3. \A i \in 1..3 : i = 1 \/ i = 2 \/ i = 3 OBVIOUS
  <2>4. a = b BY <2>1, <2>2, <2>3, SeqEqual
  <2>5. QED BY <2>4 DEF a, b
<1>8. <<x>> \o <<y, z, w>> = <<x, y, z, w>>
  <2> DEFINE a == <<x>> \o <<y, z, w>>
             b == <<x, y, z, w>>
  <2>1. /\ a \in Seq(S) /\ Len(a) = 1 + 3
        /\ a[1] = x /\ a[1 + 1] = y /\ a[2 + 1] = z /\ a[3 + 1] = w
    BY <1>4, <1>5
  <2>2. b \in Seq(S) /\ Len(b) = 4 /\ b[1] = x /\ b[2] = y /\ b[3] = z /\ b[4] = w OBVIOUS
  <2> HIDE DEF a, b
  <2>3. \A i \in 1..4 : i = 1 \/ i = 2 \/ i = 3 \/ i = 4 OBVIOUS
  <2>4. a = b BY <2>1, <2>2, <2>3, SeqEqual
  <2>5. QED BY <2>4 DEF a, b
<1>9. QED BY <1>6, <1>7, <1>8 DEF IsRow

\* The tokens of a request line are different from one another.
LEMMA Meanings ==
  /\ Methods \subseteq Character /\ Versions \subseteq Character
  /\ {NL, " ", "HTTP", "/", ":", "?", "&", "=", "%", "+"} \subseteq Character
  /\ {NL, " ", "HTTP", "/", ":", "?", "&", "=", "%", "+"} \cap (Methods \cup Versions) = {}
  /\ \A c \in DOMAIN LowerOf : LowerOf[c] \in Character \ (DOMAIN LowerOf \cup {NL, ":"})
<1>1. Methods \subseteq Character /\ Versions \subseteq Character
  BY CharacterAssumption DEF Letters
<1>2. {NL, " ", "HTTP", "/", ":", "?", "&", "=", "%", "+"} \subseteq Character BY EscapeType
<1>3. {NL, " ", "HTTP", "/", ":", "?", "&", "=", "%", "+"} \cap (Methods \cup Versions) = {}
  BY DEF NL, Methods, Versions
<1>4. ASSUME NEW c \in DOMAIN LowerOf
      PROVE  LowerOf[c] \in Character \ (DOMAIN LowerOf \cup {NL, ":"})
  <2>1. LowerOf[c] \in ToSet(LowerOf) BY DEF ToSet
  <2>2. ToSet(LowerOf) \subseteq Letters BY DEF Letters
  <2>3. LowerOf[c] \in Character BY <2>1, <2>2, CharacterAssumption
  <2>4. DOMAIN LowerOf = {"A", "B", "C", "D", "E", "F"} BY DEF LowerOf
  <2>5. LowerOf[c] \in {"a", "b", "c", "d", "e", "f"} BY <2>4 DEF LowerOf
  <2>6. QED BY <2>3, <2>4, <2>5 DEF NL
<1>5. QED BY <1>1, <1>2, <1>3, <1>4

\* A line of a method, a target and a version.
LineFor(m, u, v) == <<m, " ">> \o u \o <<" ", "HTTP", "/", v>>

IsLine(l, m, u, v) ==
  /\ l \in Str /\ ToSet(l) = (({m, " "} \cup ToSet(u)) \cup {" ", "HTTP", "/", v}) /\ l # <<>>
  /\ Within(l, Find(l, " ")) /\ MethodOf(l) = <<m>>
  /\ Within(AfterMethod(l), Find(AfterMethod(l), " ")) /\ TargetOf(l) = DecodeUrl(u)
  /\ Within(Protocol(l), Find(Protocol(l), "/")) /\ VersionOf(l) = <<v>>

\* Cut, with names for its parts.
IsCut(s, a, c, b) ==
  /\ s \in Str /\ Len(s) = Len(a) + 1 + Len(b) /\ Find(s, c) = Len(a) + 1
  /\ Until(s, Len(a) + 1) = a /\ From(s, Len(a) + 2) = b
  /\ ToSet(s) = (ToSet(a) \cup {c}) \cup ToSet(b) /\ s # <<>>
  /\ Until(s, Find(s, c)) = a /\ From(s, Find(s, c) + 1) = b
  /\ b # <<>> => Within(s, Find(s, c))

\* A text is cut at the first separator.
LEMMA CutBy ==
  ASSUME NEW a \in Str, NEW c \in Character, NEW o, o = <<c>>, NEW b \in Str, c \notin ToSet(a)
  PROVE  IsCut(a \o o \o b, a, c, b)
<1> DEFINE s == a \o <<c>> \o b
<1>1. /\ s \in Str /\ Len(s) = Len(a) + 1 + Len(b) /\ Find(s, c) = Len(a) + 1
      /\ Until(s, Len(a) + 1) = a /\ From(s, Len(a) + 2) = b
  BY Cut
<1>2. <<c>> \in Str /\ ToSet(<<c>>) = {c} BY StrOne
<1>3. a \o <<c>> \in Str /\ ToSet(a \o <<c>>) = ToSet(a) \cup {c} BY <1>2, StrConcat
<1>4. ToSet(s) = (ToSet(a) \cup {c}) \cup ToSet(b) BY <1>3, StrConcat
<1>5. s = a \o o \o b OBVIOUS
<1> HIDE DEF s
<1>6. s # <<>> BY <1>1, <1>4, Empty
<1>7. Len(a) \in Nat /\ Len(b) \in Nat /\ (Len(b) = 0 => b = <<>>) BY StrJoin
<1>8. Find(s, c) + 1 = Len(a) + 2 BY <1>1, <1>7
<1>9. b # <<>> => Within(s, Find(s, c)) BY <1>1, <1>7 DEF Within
<1>10. IsCut(s, a, c, b) BY <1>1, <1>4, <1>6, <1>8, <1>9 DEF IsCut
<1>11. QED BY <1>5, <1>10

\* A request line is cut into its method, its target and its version.
LEMMA LineRead ==
  ASSUME NEW m \in Methods, NEW u \in Str, NEW v \in Versions, " " \notin ToSet(u)
  PROVE  IsLine(LineFor(m, u, v), m, u, v)
<1> DEFINE M == <<m>>
           S == <<" ">>
           H == <<"HTTP">>
           F == <<"/">>
           V == <<v>>
           p == H \o F \o V
           a == u \o S \o p
           l == M \o S \o a
<1>1. /\ m \in Character /\ v \in Character /\ " " \in Character /\ "HTTP" \in Character
      /\ "/" \in Character /\ m # " " /\ "HTTP" # "/"
  BY Meanings
<1>2. /\ M \in Str /\ ToSet(M) = {m} /\ S \in Str /\ ToSet(S) = {" "}
      /\ V \in Str /\ ToSet(V) = {v} /\ F \in Str /\ ToSet(F) = {"/"}
      /\ H \in Str /\ ToSet(H) = {"HTTP"}
  BY <1>1, StrOne
<1>3. V # <<>> /\ S = <<" ">> /\ F = <<"/">> /\ M = <<m>> /\ V = <<v>> OBVIOUS
<1>4. LineFor(m, u, v) = (M \o S) \o u \o (S \o (H \o (F \o V)))
  <2>1. M \o S = <<m, " ">>
    <3>1. IsRow(m, " ", v, v) BY <1>1, Row
    <3>2. QED BY <3>1 DEF IsRow
  <2>2. F \o V = <<"/", v>>
    <3>1. IsRow("/", v, v, v) BY <1>1, Row
    <3>2. QED BY <3>1 DEF IsRow
  <2>3. IsRow("HTTP", "/", v, v) /\ IsRow(" ", "HTTP", "/", v) BY <1>1, Row
  <2>4. H \o <<"/", v>> = <<"HTTP", "/", v>> BY <2>3 DEF IsRow
  <2>5. S \o <<"HTTP", "/", v>> = <<" ", "HTTP", "/", v>> BY <2>3 DEF IsRow
  <2>6. QED BY <2>1, <2>2, <2>4, <2>5 DEF LineFor
<1> HIDE DEF M, S, H, F, V
<1>5. IsCut(p, H, "/", V) BY <1>1, <1>2, <1>3, CutBy
<1>6. p \in Str /\ p # <<>> /\ p = H \o (F \o V)
  <2>1. H \in Str /\ F \in Str /\ V \in Str BY <1>2
  <2>2. (H \o F) \o V = H \o (F \o V) BY <2>1, StrAssoc
  <2>3. QED BY <1>5, <2>2 DEF IsCut
<1> HIDE DEF p
<1>7. IsCut(a, u, " ", p) BY <1>1, <1>3, <1>6, CutBy
<1>8. a \in Str /\ a # <<>> /\ a = u \o (S \o p)
  <2>1. u \in Str /\ S \in Str /\ p \in Str BY <1>2, <1>6
  <2>2. (u \o S) \o p = u \o (S \o p) BY <2>1, StrAssoc
  <2>3. QED BY <1>7, <2>2 DEF IsCut
<1>9. LineFor(m, u, v) = l
  <2> DEFINE x == M \o S
             y == S \o p
  <2>1. x \in Str /\ u \in Str /\ y \in Str BY <1>2, <1>6, StrConcat
  <2>2. LineFor(m, u, v) = (x \o u) \o y BY <1>4, <1>6
  <2>3. l = x \o (u \o y) BY <1>8
  <2> HIDE DEF x, y, l, a
  <2>4. (x \o u) \o y = x \o (u \o y) BY <2>1, StrAssoc
  <2>5. QED BY <2>2, <2>3, <2>4
<1> HIDE DEF a
<1>10. IsCut(l, M, " ", a)
  <2>1. " " \notin ToSet(M) BY <1>1, <1>2
  <2>2. QED BY <1>1, <1>2, <1>3, <1>8, <2>1, CutBy
<1> HIDE DEF l
<1>11. Within(l, Find(l, " ")) /\ MethodOf(l) = M /\ AfterMethod(l) = a
  BY <1>8, <1>10 DEF IsCut, MethodOf, AfterMethod
<1>12. Within(a, Find(a, " ")) /\ MethodOf(a) = u /\ AfterMethod(a) = p
  BY <1>6, <1>7 DEF IsCut, MethodOf, AfterMethod
<1>13. Within(p, Find(p, "/")) /\ VersionOf(l) = V /\ Protocol(l) = p
  BY <1>3, <1>5, <1>11, <1>12 DEF IsCut, VersionOf, Protocol
<1>14. TargetOf(l) = DecodeUrl(u) BY <1>11, <1>12 DEF TargetOf
<1>15. ToSet(l) = (({m, " "} \cup ToSet(u)) \cup {" ", "HTTP", "/", v})
  BY <1>2, <1>5, <1>7, <1>10 DEF IsCut
<1>16. l \in Str /\ l # <<>> BY <1>10 DEF IsCut
<1>17. QED BY <1>3, <1>9, <1>11, <1>12, <1>13, <1>14, <1>15, <1>16 DEF IsLine

QueryPart(pairs) ==
  IF pairs = <<>> THEN <<>> ELSE <<"?">> \o Joined(Mapped(PairText, pairs), "&")

\* A map of no pairs is empty.
LEMMA NothingEmplaced == Emplaced(<<>>) = <<>>
<1>1. {p[1] : p \in ToSet(<<>>)} = {} BY ToSetOf
<1>2. DOMAIN Emplaced(<<>>) = {} BY <1>1 DEF Emplaced
<1>3. Emplaced(<<>>) = [k \in {} |-> 0] BY <1>1 DEF Emplaced
<1>4. <<>> = [k \in {} |-> 0]
  <2>1. <<>> = [i \in 1..0 |-> 0] OBVIOUS
  <2>2. 1..0 = {} OBVIOUS
  <2>3. QED BY <2>1, <2>2
<1>5. QED BY <1>3, <1>4

\* A target without a query, or a query behind the first question mark.
MayHave(path, pairs) ==
  IF pairs = <<>> THEN ~Within(path, Find(path, "?")) ELSE "?" \notin ToSet(path)

\* A target is cut into its path and its parameters.
LEMMA TargetRead ==
  ASSUME NEW path \in Str, NEW pairs \in Seq(Separable), MayHave(path, pairs)
  PROVE  LET t == path \o QueryPart(pairs)
             q == From(t, QueryAt(t) + 1)
         IN  Until(t, QueryAt(t)) = path /\ IsQuery(q) /\ QueryParameters(q) = Emplaced(pairs)
<1> DEFINE t == path \o QueryPart(pairs)
           q == From(t, QueryAt(t) + 1)
<1>1. Len(path) \in Nat BY StrJoin
<1>2. CASE pairs = <<>>
  <2>1. t = path BY <1>2, StrJoin DEF QueryPart
  <2>2. QueryAt(path) = Len(path) + 1 BY <1>2 DEF QueryAt, MayHave
  <2>3. Until(path, Len(path) + 1) = path
    <3> DEFINE x == Until(path, Len(path) + 1)
    <3>1. x \in Seq(Character) /\ Len(x) = Len(path) /\ \A i \in 1..Len(path) : x[i] = path[i]
      BY <1>1 DEF Until, Str
    <3> HIDE DEF x
    <3>2. x = path BY <3>1, SeqEqual DEF Str
    <3>3. QED BY <3>2 DEF x
  <2>4. From(path, (Len(path) + 1) + 1) = <<>>
    <3> DEFINE x == From(path, (Len(path) + 1) + 1)
    <3>1. x \in Seq(Character) /\ Len(x) = 0 BY <1>1 DEF From, Str
    <3> HIDE DEF x
    <3>2. x = <<>> BY <3>1, EmptySeq
    <3>3. QED BY <3>2 DEF x
  <2>5. q = <<>> BY <2>1, <2>2, <2>4
  <2>6. IsQuery(<<>>) /\ QueryParameters(<<>>) = <<>> BY DEF IsQuery, QueryParameters
  <2>7. Until(t, QueryAt(t)) = path BY <2>1, <2>2, <2>3
  <2> HIDE DEF q, t
  <2>8. IsQuery(q) /\ QueryParameters(q) = Emplaced(pairs) BY <1>2, <2>5, <2>6, NothingEmplaced
  <2>9. QED BY <2>7, <2>8 DEF q, t
<1>3. CASE pairs # <<>>
  <2> DEFINE j == Joined(Mapped(PairText, pairs), "&")
             o == <<"?">>
             s == path \o o \o j
  <2>1. j \in Str /\ j # <<>> /\ IsQuery(j) /\ QueryParameters(j) = Emplaced(pairs)
    BY <1>3, QueryRead
  <2>2. QueryPart(pairs) = o \o j BY <1>3 DEF QueryPart
  <2>3. o = <<"?">> /\ o \in Str /\ "?" \in Character BY EscapeType, StrOne
  <2> HIDE DEF o, j
  <2>4. t = s BY <2>1, <2>2, <2>3, StrAssoc
  <2>5. IsCut(s, path, "?", j) BY <1>3, <2>1, <2>3, CutBy DEF MayHave
  <2> HIDE DEF s
  <2>6. QueryAt(s) = Find(s, "?") BY <2>1, <2>5 DEF QueryAt, IsCut
  <2>7. Until(s, QueryAt(s)) = path /\ From(s, QueryAt(s) + 1) = j BY <2>5, <2>6 DEF IsCut
  <2>8. QED BY <2>1, <2>4, <2>7
<1>4. QED BY <1>2, <1>3

\* A request line whose target is escaped is parsed to what the target stands for.
LEMMA RequestLineRead ==
  ASSUME NEW m \in Methods, NEW v \in Versions, NEW path \in Str, NEW pairs \in Seq(Separable),
         NEW u \in Str, " " \notin ToSet(u), DecodeUrl(u) = path \o QueryPart(pairs),
         MayHave(path, pairs)
  PROVE  LET l == LineFor(m, u, v)
         IN  /\ IsLine(l, m, u, v) /\ IsRequestLine(l)
             /\ RequestLine(l) =
                  [method |-> m, version |-> v, url |-> path, params |-> Emplaced(pairs)]
<1> DEFINE l == LineFor(m, u, v)
           t == path \o QueryPart(pairs)
<1>1. IsLine(l, m, u, v) BY LineRead
<1> HIDE DEF l
<1>2. TargetOf(l) = t BY <1>1 DEF IsLine
<1>3. /\ Until(t, QueryAt(t)) = path /\ IsQuery(From(t, QueryAt(t) + 1))
      /\ QueryParameters(From(t, QueryAt(t) + 1)) = Emplaced(pairs)
  BY TargetRead
<1> HIDE DEF t
<1>4. IsQuery(QueryOf(l)) /\ QueryParameters(QueryOf(l)) = Emplaced(pairs)
  BY <1>2, <1>3 DEF QueryOf
<1>5. MethodOf(l) \in MethodCodes /\ VersionOf(l) \in VersionCodes
      /\ MethodOf(l)[1] = m /\ VersionOf(l)[1] = v
  <2>1. MethodOf(l) = <<m>> /\ VersionOf(l) = <<v>> BY <1>1 DEF IsLine
  <2>2. <<m>> \in MethodCodes /\ <<v>> \in VersionCodes BY DEF MethodCodes, VersionCodes
  <2>3. <<m>>[1] = m /\ <<v>>[1] = v OBVIOUS
  <2>4. QED BY <2>1, <2>2, <2>3, Zenon
<1>6. IsRequestLine(l) BY <1>1, <1>4, <1>5 DEF IsLine, IsRequestLine
<1>7. RequestLine(l) = [method |-> m, version |-> v, url |-> path, params |-> Emplaced(pairs)]
  BY <1>2, <1>3, <1>4, <1>5 DEF RequestLine
<1>8. QED BY <1>1, <1>6, <1>7 DEF l

(***************************************************************************)
(* The end of the headers                                                  *)
(***************************************************************************)
NoGap(s) ==
  /\ s \in Str /\ s # <<>> /\ s[1] # NL /\ s[Len(s)] # NL
  /\ \A i \in 1..(Len(s) - 1) : ~(s[i] = NL /\ s[i + 1] = NL)

\* One line has no empty line.
LEMMA LineHasNoGap == ASSUME NEW s \in Str, s # <<>>, NL \notin ToSet(s) PROVE NoGap(s)
<1>1. Len(s) \in Nat /\ (Len(s) = 0 => s = <<>>) BY StrJoin
<1>2. \A i \in 1..Len(s) : s[i] # NL BY DEF ToSet, Str
<1>3. QED BY <1>1, <1>2 DEF NoGap

\* Lines put together with one line end between them have no empty line.
LEMMA TwoHaveNoGap ==
  ASSUME NEW a, NEW b, NoGap(a), NoGap(b)
  PROVE  NoGap(a \o <<NL>> \o b)
<1> DEFINE s == a \o <<NL>> \o b
<1>1. /\ a \in Str /\ b \in Str /\ NL \in Character
      /\ Len(a) \in Nat /\ (Len(a) = 0 => a = <<>>) /\ Len(b) \in Nat /\ (Len(b) = 0 => b = <<>>)
  BY EscapeType, StrJoin DEF NoGap
<1>2. /\ s \in Str /\ Len(s) = Len(a) + 1 + Len(b)
      /\ \A i \in 1..Len(a) : s[i] = a[i]
      /\ s[Len(a) + 1] = NL
      /\ \A i \in 1..Len(b) : s[Len(a) + 1 + i] = b[i]
  <2>1. IsParted(s, a, NL, b) BY <1>1, Parts
  <2>2. QED BY <2>1 DEF IsParted
<1> HIDE DEF s
<1>3. Len(a) \in Nat \ {0} /\ Len(b) \in Nat \ {0} BY <1>1 DEF NoGap
<1>4. s # <<>> BY <1>2, <1>3, EmptySeq
<1>5. s[1] # NL
  <2>1. 1 \in 1..Len(a) BY <1>3
  <2>2. QED BY <1>2, <2>1 DEF NoGap
<1>6. s[Len(s)] # NL
  <2>1. Len(b) \in 1..Len(b) BY <1>3
  <2>2. QED BY <1>2, <2>1 DEF NoGap
<1>7. ASSUME NEW i \in 1..(Len(s) - 1) PROVE ~(s[i] = NL /\ s[i + 1] = NL)
  <2>1. CASE i \in 1..(Len(a) - 1)
    <3>1. i \in 1..Len(a) /\ i + 1 \in 1..Len(a) BY <1>3, <2>1
    <3>2. s[i] = a[i] /\ s[i + 1] = a[i + 1] BY <1>2, <3>1
    <3>3. QED BY <2>1, <3>2 DEF NoGap
  <2>2. CASE i = Len(a)
    <3>1. i \in 1..Len(a) BY <1>3, <2>2
    <3>2. s[i] = a[Len(a)] BY <1>2, <2>2, <3>1
    <3>3. QED BY <3>2 DEF NoGap
  <2>3. CASE i = Len(a) + 1
    <3>1. 1 \in 1..Len(b) /\ i + 1 = Len(a) + 1 + 1 BY <1>3, <2>3
    <3>2. s[i + 1] = b[1] BY <1>2, <3>1
    <3>3. QED BY <3>2 DEF NoGap
  <2>4. CASE i > Len(a) + 1
    <3> DEFINE k == i - (Len(a) + 1)
    <3>1. i \in Nat /\ i <= Len(a) + Len(b) BY <1>2, <1>3
    <3>2. k \in 1..(Len(b) - 1) BY <1>3, <2>4, <3>1
    <3>3. i = Len(a) + 1 + k BY <1>3, <3>1
    <3> HIDE DEF k
    <3>4. /\ k \in 1..(Len(b) - 1) /\ k \in 1..Len(b) /\ k + 1 \in 1..Len(b)
          /\ i = Len(a) + 1 + k /\ i + 1 = Len(a) + 1 + (k + 1)
      BY <1>3, <3>2, <3>3
    <3> HIDE DEF k
    <3>5. s[i] = b[k] /\ s[i + 1] = b[k + 1] BY <1>2, <3>4
    <3>6. QED BY <3>4, <3>5 DEF NoGap
  <2>5. QED BY <1>2, <1>3, <2>1, <2>2, <2>3, <2>4
<1>8. QED BY <1>2, <1>4, <1>5, <1>6, <1>7 DEF NoGap, s

\* The first empty line is behind what has no gap.
Ends(t) == {i \in 1..(Len(t) - 1) : t[i] = NL /\ t[i + 1] = NL}

\* The first empty line is the one that ends the headers.
LEMMA FirstGap ==
  ASSUME NEW s, NoGap(s), NEW r \in Str
  PROVE  LET t == s \o <<NL>> \o (<<NL>> \o r)
         IN  t \in Str /\ Ends(t) # {} /\ Min(Ends(t)) = Len(s) + 1
<1> DEFINE q == <<NL>> \o r
           t == s \o <<NL>> \o q
<1>1. s \in Str /\ NL \in Character /\ Len(s) \in Nat /\ (Len(s) = 0 => s = <<>>) /\ s # <<>>
  BY EscapeType, StrJoin DEF NoGap
<1>2. q \in Str /\ q[1] = NL /\ q # <<>> BY <1>1, Drop
<1>3. Len(q) \in Nat \ {0} BY <1>2, StrJoin
<1> HIDE DEF q
<1>4. /\ t \in Str /\ Len(t) = Len(s) + 1 + Len(q)
      /\ \A i \in 1..Len(s) : t[i] = s[i]
      /\ t[Len(s) + 1] = NL
      /\ \A i \in 1..Len(q) : t[Len(s) + 1 + i] = q[i]
  <2>1. IsParted(t, s, NL, q) BY <1>1, <1>2, Parts
  <2>2. QED BY <2>1 DEF IsParted
<1> HIDE DEF t
<1>5. Len(s) + 1 \in Ends(t)
  <2>1. 1 \in 1..Len(q) /\ Len(s) + 1 \in 1..(Len(t) - 1) BY <1>1, <1>3, <1>4
  <2>2. t[Len(s) + 1 + 1] = NL BY <1>2, <1>4, <2>1
  <2>3. QED BY <1>4, <2>1, <2>2 DEF Ends
<1>6. ASSUME NEW i \in Ends(t) PROVE Len(s) + 1 <= i
  <2> SUFFICES ASSUME i <= Len(s) PROVE FALSE BY <1>1, <1>4 DEF Ends
  <2>1. i \in 1..Len(s) /\ t[i] = NL /\ t[i + 1] = NL BY <1>1, <1>4 DEF Ends
  <2>2. s[i] = NL BY <1>4, <2>1
  <2>3. CASE i = Len(s) BY <2>2, <2>3 DEF NoGap
  <2>4. CASE i \in 1..(Len(s) - 1)
    <3>1. i + 1 \in 1..Len(s) BY <1>1, <2>4
    <3>2. s[i + 1] = NL BY <1>4, <2>1, <3>1
    <3>3. QED BY <2>2, <2>4, <3>2 DEF NoGap
  <2>5. QED BY <1>1, <2>1, <2>3, <2>4
<1>7. Min(Ends(t)) = Len(s) + 1
  <2> DEFINE e == Len(s) + 1
             E == Ends(t)
  <2>1. e \in E /\ \A i \in E : e <= i BY <1>5, <1>6
  <2>2. e \in Int /\ \A i \in E : i \in Int BY <1>1 DEF Ends
  <2> HIDE DEF e, E
  <2>3. Min(E) = e
    <3>1. \A x \in E : (\A y \in E : x <= y) => x = e BY <2>1, <2>2
    <3>2. QED BY <2>1, <3>1 DEF Min
  <2>4. QED BY <2>3 DEF e, E
<1>8. QED BY <1>4, <1>5, <1>7 DEF t, q

\* A text with a request line and no header.
LEMMA NoHeaders ==
  ASSUME NEW l \in Str, l # <<>>, NL \notin ToSet(l), NEW r \in Str
  PROVE  LET t == l \o <<NL, NL>> \o r
         IN  t \in Str /\ Ends(t) # {} /\ LineOf(t) = l /\ HeadersOf(t) = <<>>
<1> DEFINE N == <<NL>>
           q == N \o r
           t == l \o N \o q
<1>1. N = <<NL>> /\ N \in Str /\ NL \in Character BY EscapeType, StrOne
<1>2. IsRow(NL, NL, NL, NL) BY <1>1, Row
<1>3. <<NL, NL>> = N \o N BY <1>2 DEF IsRow
<1> HIDE DEF N
<1>4. q \in Str BY <1>1, StrConcat
<1>5. t = l \o <<NL, NL>> \o r
  <2> DEFINE x == l \o N
  <2>1. x \in Str BY <1>1, StrConcat
  <2>2. l \o (N \o N) = x \o N BY <1>1, StrAssoc
  <2> HIDE DEF x
  <2>3. (x \o N) \o r = x \o (N \o r) BY <1>1, <2>1, StrAssoc
  <2>4. QED BY <1>3, <2>2, <2>3 DEF x
<1>6. t \in Str /\ Ends(t) # {} /\ Min(Ends(t)) = Len(l) + 1 BY <1>1, LineHasNoGap, FirstGap
<1> HIDE DEF q
<1>7. IsCut(t, l, NL, q) BY <1>1, <1>4, CutBy
<1> HIDE DEF t
<1>8. LineOf(t) = l BY <1>7 DEF LineOf, IsCut
<1>9. HeadersOf(t) = <<>>
  <2>1. HeadersOf(t) = SubSeq(t, Find(t, NL) + 1, Min(Ends(t))) BY DEF HeadersOf, Ends
  <2>2. Find(t, NL) = Len(l) + 1 /\ Len(l) \in Nat /\ Len(t) \in Nat BY <1>6, <1>7, StrJoin DEF IsCut
  <2>3. HeadersOf(t) = SubSeq(t, Len(l) + 2, Len(l) + 1) BY <1>6, <2>1, <2>2
  <2> DEFINE x == SubSeq(t, Len(l) + 2, Len(l) + 1)
  <2>4. x \in Seq(Character) /\ Len(x) = 0
    <3>1. t \in Seq(Character) BY <1>6 DEF Str
    <3>2. Len(t) = Len(l) + 1 + Len(q) /\ Len(q) \in Nat BY <1>4, <1>7, StrJoin DEF IsCut
    <3>3. QED BY <2>2, <3>1, <3>2
  <2> HIDE DEF x
  <2>5. x = <<>> BY <2>4, EmptySeq
  <2>6. QED BY <2>3, <2>5 DEF x
<1>10. QED BY <1>5, <1>6, <1>8, <1>9

\* A text with a request line and headers.
LEMMA SomeHeaders ==
  ASSUME NEW l \in Str, l # <<>>, NL \notin ToSet(l), NEW h, NoGap(h)
  PROVE  LET t == l \o <<NL>> \o h \o <<NL, NL>>
         IN  t \in Str /\ LineOf(t) = l /\ HeadersOf(t) = h \o <<NL>>
<1> DEFINE N == <<NL>>
           D == <<NL, NL>>
           s == l \o N \o h
           g == h \o D
           t == l \o N \o g
<1>1. N = <<NL>> /\ N \in Str /\ NL \in Character /\ Len(N) = 1 /\ N[1] = NL BY EscapeType, StrOne
<1>2. IsRow(NL, NL, NL, NL) BY <1>1, Row
<1>3. D = N \o N BY <1>2 DEF IsRow
<1>4. Len(D) = 2 /\ D[1] = NL OBVIOUS
<1> HIDE DEF N, D
<1>5. h \in Str /\ D \in Str /\ g \in Str /\ Len(g) = Len(h) + 2 /\ Len(h) \in Nat /\ Len(l) \in Nat
  BY <1>1, <1>3, <1>4, StrConcat, StrJoin DEF NoGap
<1>6. t = s \o D
  <2> DEFINE x == l \o N
  <2>1. x \in Str BY <1>1, StrConcat
  <2> HIDE DEF x
  <2>2. (x \o h) \o D = x \o (h \o D) BY <1>5, <2>1, StrAssoc
  <2>3. QED BY <2>2 DEF x
<1>7. NoGap(s) BY <1>1, LineHasNoGap, TwoHaveNoGap
<1>8. Len(s) = Len(l) + 1 + Len(h)
  <2>1. IsCut(s, l, NL, h) BY <1>1, <1>5, CutBy
  <2>2. QED BY <2>1 DEF IsCut
<1> HIDE DEF s, g
<1>9. IsCut(t, l, NL, g) BY <1>1, <1>5, CutBy
<1>10. Min(Ends(t)) = Len(s) + 1
  <2>1. <<>> \in Str /\ N \o <<>> = N BY <1>1, StrJoin
  <2>2. Min(Ends(s \o N \o (N \o <<>>))) = Len(s) + 1 BY <1>1, <1>7, <2>1, FirstGap
  <2>3. s \o N \o N = s \o D
    <3>1. s \in Str BY <1>7 DEF NoGap
    <3>2. (s \o N) \o N = s \o (N \o N) BY <1>1, <3>1, StrAssoc
    <3>3. QED BY <1>3, <3>2
  <2>4. QED BY <1>6, <2>1, <2>2, <2>3
<1>11. \A i \in 1..Len(g) : t[Len(l) + 1 + i] = g[i]
  <2>1. IsParted(t, l, NL, g) BY <1>1, <1>5, Parts
  <2>2. QED BY <2>1 DEF IsParted
<1> HIDE DEF t
<1>12. t \in Str /\ LineOf(t) = l /\ Find(t, NL) = Len(l) + 1 /\ Len(t) = Len(l) + 1 + Len(g)
  BY <1>9 DEF LineOf, IsCut
<1>13. \A i \in 1..(Len(h) + 1) : g[i] = (h \o N)[i]
  <2>1. \A i \in 1..(Len(h) + Len(D)) : g[i] = IF i <= Len(h) THEN h[i] ELSE D[i - Len(h)]
    BY <1>5, ConcatProperties DEF g, Str
  <2>2. \A i \in 1..(Len(h) + Len(N)) : (h \o N)[i] = IF i <= Len(h) THEN h[i] ELSE N[i - Len(h)]
    BY <1>1, <1>5, ConcatProperties DEF Str
  <2> SUFFICES ASSUME NEW i \in 1..(Len(h) + 1) PROVE g[i] = (h \o N)[i] OBVIOUS
  <2>3. i \in 1..(Len(h) + Len(D)) /\ i \in 1..(Len(h) + Len(N)) BY <1>1, <1>4, <1>5
  <2>4. CASE i <= Len(h) BY <2>1, <2>2, <2>3, <2>4
  <2>5. CASE i = Len(h) + 1
    <3>1. i - Len(h) = 1 /\ ~(i <= Len(h)) BY <1>5, <2>5
    <3>2. g[i] = D[1] /\ (h \o N)[i] = N[1] BY <2>1, <2>2, <2>3, <3>1
    <3>3. QED BY <1>1, <1>4, <3>2
  <2>6. i <= Len(h) \/ i = Len(h) + 1 BY <1>5
  <2>7. QED BY <2>4, <2>5, <2>6
<1>14. HeadersOf(t) = h \o N
  <2>1. HeadersOf(t) = SubSeq(t, Find(t, NL) + 1, Min(Ends(t))) BY DEF HeadersOf, Ends
  <2> DEFINE a == Len(l)
             k == Len(h) + 1
             x == SubSeq(t, a + 2, a + 1 + k)
             y == h \o N
  <2>2. a \in Nat /\ k \in Nat /\ Len(t) = a + 1 + (k + 1) /\ t \in Seq(Character) /\ Len(g) = k + 1
    BY <1>5, <1>12 DEF Str
  <2>3. HeadersOf(t) = x BY <1>8, <1>10, <1>12, <2>1, <2>2
  <2>4. y \in Seq(Character) /\ Len(y) = k BY <1>1, <1>5, StrConcat DEF Str
  <2>5. \A i \in 1..k : t[a + 1 + i] = y[i]
    <3>1. \A i \in 1..k : i \in 1..Len(g) BY <2>2
    <3>2. QED BY <1>11, <1>13, <3>1
  <2> HIDE DEF a, k, y
  <2>6. x \in Seq(Character) /\ Len(x) = k /\ \A i \in 1..k : x[i] = t[a + 1 + i]
    BY <2>2
  <2> HIDE DEF x
  <2>7. x = y BY <2>4, <2>6, <2>5, SeqEqual
  <2>8. QED BY <2>3, <2>7 DEF y
<1>15. QED BY <1>6, <1>12, <1>14 DEF N, D, s

(***************************************************************************)
(* What is meant is what is read                                           *)
(***************************************************************************)
\* What is sent and what it stands for; it does not end the target or the line.
Carries(u, w) == Decodes(u, w) /\ {NL, " "} \cap ToSet(u) = {}

\* What carries two texts one after the other.
LEMMA CarryTwo ==
  ASSUME NEW u, NEW w, NEW v, NEW x, Carries(u, w), Carries(v, x)
  PROVE  Carries(u \o v, w \o x)
<1>1. u \in Str /\ v \in Str BY DEF Carries, Decodes
<1>2. ToSet(u \o v) = ToSet(u) \cup ToSet(v) BY <1>1, StrConcat
<1>3. Decodes(u \o v, w \o x) BY DecodesTwo DEF Carries
<1>4. QED BY <1>2, <1>3 DEF Carries

ParamTexts(params) ==
  [n \in DOMAIN params |->
     <<IF n = 1 THEN "?" ELSE "&">> \o Escaped(params[n][1])
       \o <<"=">> \o Escaped(params[n][2])]

\* One parameter, with the character that announces it.
ParamText(c, p) == <<c>> \o Escaped(p[1]) \o <<"=">> \o Escaped(p[2])

\* A parameter as the client sends it, escaped, and what it stands for.
LEMMA ParamSent ==
  ASSUME NEW p \in OneLine \X OneLine, NEW c \in {"?", "&"}
  PROVE  ParamText(c, p) \in Str /\ PairText[p] \in Str /\ Carries(ParamText(c, p), <<c>> \o PairText[p])
<1> DEFINE k == p[1]
           v == p[2]
           E == <<"=">>
           o == <<c>>
<1>1. k \in OneLine /\ v \in OneLine OBVIOUS
<1>2. p \in Str \X Str /\ PairText[p] = k \o E \o v
  <2>1. k \in Str /\ v \in Str BY <1>1, OneLineIs
  <2>2. p \in Str \X Str BY <2>1
  <2>3. QED BY <2>2 DEF PairText
<1>3. ParamText(c, p) = o \o Escaped(k) \o E \o Escaped(v) BY DEF ParamText
<1> HIDE DEF k, v
<1>4. c \in Character /\ "=" \in Character BY EscapeType
<1>5. o \in Str /\ ToSet(o) = {c} /\ E \in Str /\ ToSet(E) = {"="} BY <1>4, StrOne
<1>6. Carries(o, o) /\ Carries(E, E)
  <2>1. Decodes(o, o) /\ Decodes(E, E) BY <1>4, DecodesSelf
  <2>2. QED BY <1>5, <2>1 DEF Carries, NL
<1> HIDE DEF E, o
<1>7. k \in Str /\ v \in Str /\ Carries(Escaped(k), k) /\ Carries(Escaped(v), v)
  <2>1. \A s \in {k, v} : s \in Str /\ {NL, "LF"} \cap ToSet(s) = {} BY <1>1, OneLineIs
  <2>2. \A s \in {k, v} : IsEscaped(Escaped(s), s) BY <2>1, Escaping
  <2>3. QED BY <2>1, <2>2 DEF IsEscaped, Carries
<1>8. Carries(o \o Escaped(k) \o E \o Escaped(v), o \o k \o E \o v)
  <2>1. Carries(o \o Escaped(k), o \o k) BY <1>6, <1>7, CarryTwo
  <2>2. Carries(o \o Escaped(k) \o E, o \o k \o E) BY <1>6, <2>1, CarryTwo
  <2>3. QED BY <1>7, <2>2, CarryTwo
<1>9. o \o k \o E \o v = o \o (k \o E \o v)
  <2>1. (o \o k) \o E = o \o (k \o E) BY <1>5, <1>7, StrAssoc
  <2> DEFINE x == k \o E
  <2>2. x \in Str BY <1>5, <1>7, StrConcat
  <2> HIDE DEF x
  <2>3. (o \o x) \o v = o \o (x \o v) BY <1>5, <1>7, <2>2, StrAssoc
  <2>4. QED BY <2>1, <2>3 DEF x
<1>10. ParamText(c, p) \in Str BY <1>3, <1>8 DEF Carries, Decodes
<1>11. PairText[p] \in Str BY <1>2, PairTexts
<1>12. QED BY <1>2, <1>3, <1>8, <1>9, <1>10, <1>11 DEF o

ParamsSentRight(params) ==
  /\ ParamTexts(params) \in Seq(Str)
  /\ Mapped(PairText, params) \in Seq(Str)
  /\ Joined(Mapped(PairText, params), "&") \in Str
  /\ Carries(FlattenSeq(ParamTexts(params)), QueryPart(params))

\* All the parameters as the client sends them, and what they stand for.
LEMMA ParamsSent == \A params \in Seq(OneLine \X OneLine) : ParamsSentRight(params)
<1> DEFINE S == OneLine \X OneLine
           g == [p \in S |-> PairText[p]]
           P == {params \in Seq(S) : ParamsSentRight(params)}
<1>1. "&" \in Character /\ "?" \in Character BY EscapeType
<1>2. <<"&">> \in Str /\ <<"?">> \in Str BY <1>1, StrOne
<1>3. \A p \in S : PairText[p] \in Str BY ParamSent
<1>4. \A q \in Seq(S) : IsMapped(g, q, S, Str) /\ Mapped(g, q) = Mapped(PairText, q)
  <2>1. g \in [S -> Str] BY <1>3
  <2>2. \A q \in Seq(S) : \A i \in DOMAIN q : q[i] \in S OBVIOUS
  <2>3. \A q \in Seq(S) : Mapped(g, q) = Mapped(PairText, q) BY <2>2 DEF Mapped
  <2> HIDE DEF S, g
  <2>4. QED BY <2>1, <2>3, Mapping
<1>5. <<>> \in P
  <2>1. ParamTexts(<<>>) = <<>>
    <3>1. DOMAIN <<>> = {} OBVIOUS
    <3>2. DOMAIN ParamTexts(<<>>) = 1..0 BY <3>1 DEF ParamTexts
    <3>3. ParamTexts(<<>>) = [n \in {} |-> 0] BY <3>1 DEF ParamTexts
    <3>4. <<>> = [n \in 1..0 |-> 0] OBVIOUS
    <3>5. 1..0 = {} OBVIOUS
    <3>6. QED BY <3>3, <3>4, <3>5
  <2>2. <<>> \in Seq(S) /\ <<>> \in Seq(Str) BY EmptySeq
  <2>3. FlattenSeq(<<>>) = <<>> BY <2>2, Flat
  <2>4. Carries(<<>>, <<>>) BY DecodesNothing, ToSetOf DEF Carries
  <2>5. Mapped(PairText, <<>>) = <<>> BY <1>4, <2>2 DEF IsMapped
  <2>6. Joined(<<>>, "&") = <<>>
    <3>1. Chain(<<>>, <<"&">>) = <<>> BY <1>2, <2>2, ChainEnd
    <3>2. QED BY <3>1, JoinedIsChain
  <2>7. ParamsSentRight(<<>>)
    BY <2>1, <2>2, <2>3, <2>4, <2>5, <2>6, StrJoin DEF ParamsSentRight, QueryPart
  <2>8. QED BY <2>2, <2>7
<1>6. ASSUME NEW q \in P, NEW p \in S PROVE Append(q, p) \in P
  <2> DEFINE a == Append(q, p)
             c == IF q = <<>> THEN "?" ELSE "&"
             t == ParamText(c, p)
             T == ParamTexts(q)
             K == Mapped(PairText, q)
             x == PairText[p]
             j == Joined(K, "&")
  <2>1. q \in Seq(S) /\ a \in Seq(S) /\ a # <<>> /\ Len(a) = Len(q) + 1 /\ a[Len(q) + 1] = p
        /\ (\A i \in 1..Len(q) : a[i] = q[i]) /\ Len(q) \in Nat /\ (Len(q) = 0 <=> q = <<>>)
    BY AppendProperties, EmptySeq
  <2>2. T \in Seq(Str) /\ K \in Seq(Str) /\ j \in Str /\ Carries(FlattenSeq(T), QueryPart(q))
    BY DEF ParamsSentRight
  <2>3. t \in Str /\ x \in Str /\ Carries(t, <<c>> \o x) BY ParamSent
  <2>4. ParamTexts(a) = Append(T, t)
    <3>1. DOMAIN a = 1..(Len(q) + 1) /\ DOMAIN q = 1..Len(q) BY <2>1
    <3> DEFINE y == ParamTexts(a)
               z == Append(T, t)
    <3>2. z \in Seq(Str) /\ Len(z) = Len(T) + 1 /\ z[Len(T) + 1] = t /\ \A i \in 1..Len(T) : z[i] = T[i]
      BY <2>2, <2>3, AppendProperties
    <3>3. T = [n \in 1..Len(q) |-> ParamText(IF n = 1 THEN "?" ELSE "&", q[n])]
      BY <3>1 DEF ParamTexts, ParamText
    <3>4. y = [n \in 1..(Len(q) + 1) |-> ParamText(IF n = 1 THEN "?" ELSE "&", a[n])]
      BY <3>1 DEF ParamTexts, ParamText
    <3>5. Len(T) = Len(q)
      <4>1. DOMAIN T = 1..Len(q) BY <3>3
      <4>2. T \in Seq(Str) BY <2>2
      <4> HIDE DEF T
      <4>3. DOMAIN T = 1..Len(T) /\ Len(T) \in Nat BY <4>2
      <4>4. QED BY <2>1, <4>1, <4>3
    <3>6. ASSUME NEW i \in 1..(Len(q) + 1) PROVE y[i] = z[i]
      <4>1. CASE i \in 1..Len(q)
        <5>1. y[i] = ParamText(IF i = 1 THEN "?" ELSE "&", q[i]) BY <2>1, <3>4, <4>1
        <5>2. z[i] = T[i] BY <3>2, <3>5, <4>1
        <5>3. QED BY <3>3, <4>1, <5>1, <5>2
      <4>2. CASE i = Len(q) + 1
        <5>1. (IF i = 1 THEN "?" ELSE "&") = c BY <2>1, <4>2
        <5>2. y[i] = t BY <2>1, <3>4, <4>2, <5>1
        <5>3. QED BY <3>2, <3>5, <4>2, <5>2
      <4>3. i \in 1..Len(q) \/ i = Len(q) + 1
        <5>1. Len(q) \in Nat BY <2>1
        <5>2. QED BY <5>1
      <4>4. QED BY <4>1, <4>2, <4>3
    <3>7. z = [n \in 1..(Len(q) + 1) |-> z[n]]
      <4> HIDE DEF z, T
      <4>1. Len(z) = Len(q) + 1 BY <3>2, <3>5
      <4>2. z = [n \in 1..Len(z) |-> z[n]] BY <3>2
      <4>3. QED BY <4>1, <4>2
    <3>8. y = [n \in 1..(Len(q) + 1) |-> y[n]] BY <3>4
    <3> HIDE DEF y, z, T
    <3>9. y = z BY <3>6, <3>7, <3>8
    <3>10. QED BY <3>9 DEF y, z
  <2>5. Mapped(PairText, a) = Append(K, x)
    <3>1. Mapped(g, a) = Append(Mapped(g, q), g[p]) BY <1>4, <2>1 DEF IsMapped
    <3>2. g[p] = x OBVIOUS
    <3>3. QED BY <1>4, <2>1, <3>1, <3>2
  <2> HIDE DEF a, t, T, K, x, j
  <2>6. Append(T, t) \in Seq(Str) /\ Append(K, x) \in Seq(Str) BY <2>2, <2>3, AppendProperties
  <2>7. FlattenSeq(Append(T, t)) = FlattenSeq(T) \o t BY <2>2, <2>3, Flat
  <2>8. Joined(Append(K, x), "&") = IF K = <<>> THEN x ELSE j \o <<"&">> \o x
    <3>1. Chain(Append(K, x), <<"&">>) = IF K = <<>> THEN x ELSE Chain(K, <<"&">>) \o <<"&">> \o x
      BY <1>2, <2>2, <2>3, ChainEnd
    <3>2. QED BY <3>1, JoinedIsChain DEF j
  <2>9. K = <<>> <=> q = <<>>
    <3>1. IsMapped(g, q, S, Str) /\ Mapped(g, q) = K BY <1>4, <2>1 DEF K
    <3>2. Len(K) = Len(q) BY <3>1 DEF IsMapped
    <3>3. QED BY <2>1, <2>2, <3>2, EmptySeq
  <2>10. QueryPart(a) = QueryPart(q) \o (<<c>> \o x) /\ Joined(Append(K, x), "&") \in Str
    <3>1. QueryPart(a) = <<"?">> \o Joined(Append(K, x), "&") BY <2>1, <2>5 DEF QueryPart, a
    <3>2. CASE q = <<>>
      <4>1. QueryPart(q) = <<>> /\ c = "?" BY <3>2 DEF QueryPart
      <4>2. <<"?">> \o x \in Str BY <1>2, <2>3, StrConcat
      <4>3. <<>> \o (<<"?">> \o x) = <<"?">> \o x BY <4>2, StrJoin
      <4>4. QED BY <2>3, <2>8, <2>9, <3>1, <3>2, <4>1, <4>3
    <3>3. CASE q # <<>>
      <4> DEFINE m == <<"?">>
                 A == <<"&">>
      <4>1. QueryPart(q) = m \o j /\ c = "&" BY <3>3 DEF QueryPart, j, K
      <4>2. m \in Str /\ A \in Str /\ j \in Str /\ x \in Str BY <1>2, <2>2, <2>3
      <4>3. QueryPart(a) = m \o ((j \o A) \o x) BY <2>8, <2>9, <3>1, <3>3
      <4>4. <<c>> = A BY <4>1
      <4>5. Joined(Append(K, x), "&") = (j \o A) \o x BY <2>8, <2>9, <3>3
      <4> HIDE DEF m, A
      <4>6. (j \o A) \o x = j \o (A \o x) BY <4>2, StrAssoc
      <4> DEFINE w == A \o x
      <4>7. w \in Str BY <4>2, StrConcat
      <4> HIDE DEF w
      <4>8. (m \o j) \o w = m \o (j \o w) BY <4>2, <4>7, StrAssoc
      <4>9. j \o w \in Str BY <4>2, <4>7, StrConcat
      <4>10. QED BY <4>1, <4>3, <4>4, <4>5, <4>6, <4>8, <4>9 DEF w
    <3>4. QED BY <3>2, <3>3
  <2>11. Carries(FlattenSeq(T) \o t, QueryPart(q) \o (<<c>> \o x)) BY <2>2, <2>3, CarryTwo
  <2>12. ParamsSentRight(a)
    BY <2>4, <2>5, <2>6, <2>7, <2>10, <2>11 DEF ParamsSentRight
  <2>13. QED BY <2>1, <2>12 DEF a
<1>7. P \in SUBSET Seq(S) OBVIOUS
<1> HIDE DEF P
<1>8. \A params \in Seq(S) : params \in P BY <1>5, <1>6, <1>7, ByAppending
<1>9. QED BY <1>8 DEF P

IsSix(x, y, z, w, p, q, S) ==
  /\ <<x, y, z, w>> \in Seq(S) /\ <<p, q>> \in Seq(S)
  /\ <<x, y, z, w, p, q>> = <<x, y, z, w>> \o <<p, q>>

\* A sequence of six.
LEMMA RowOfSix ==
  ASSUME NEW S, NEW x \in S, NEW y \in S, NEW z \in S, NEW w \in S, NEW p \in S, NEW q \in S
  PROVE  IsSix(x, y, z, w, p, q, S)
<1> DEFINE a == <<x, y, z, w>>
           b == <<p, q>>
           c == <<x, y, z, w, p, q>>
<1>1. a \in Seq(S) /\ Len(a) = 4 /\ a[1] = x /\ a[2] = y /\ a[3] = z /\ a[4] = w OBVIOUS
<1>2. b \in Seq(S) /\ Len(b) = 2 /\ b[1] = p /\ b[2] = q OBVIOUS
<1>3. /\ c \in Seq(S) /\ Len(c) = 6 /\ c[1] = x /\ c[2] = y /\ c[3] = z /\ c[4] = w
      /\ c[5] = p /\ c[6] = q
  OBVIOUS
<1> HIDE DEF a, b, c
<1> DEFINE d == a \o b
<1>4. /\ d \in Seq(S) /\ Len(d) = Len(a) + Len(b)
      /\ \A i \in 1..(Len(a) + Len(b)) : d[i] = IF i <= Len(a) THEN a[i] ELSE b[i - Len(a)]
  BY <1>1, <1>2, ConcatProperties
<1> HIDE DEF d
<1>5. Len(d) = 6 /\ \A i \in 1..6 : d[i] = IF i <= 4 THEN a[i] ELSE b[i - 4]
  BY <1>1, <1>2, <1>4
<1>6. ASSUME NEW i \in 1..6 PROVE c[i] = d[i]
  <2>1. i = 1 \/ i = 2 \/ i = 3 \/ i = 4 \/ i = 5 \/ i = 6 OBVIOUS
  <2>2. d[1] = x /\ d[2] = y /\ d[3] = z /\ d[4] = w BY <1>1, <1>5
  <2>3. d[5] = b[1] /\ d[6] = b[2] BY <1>5
  <2>4. QED BY <1>2, <1>3, <2>1, <2>2, <2>3
<1>7. c = d BY <1>3, <1>4, <1>5, <1>6, SeqEqual
<1>8. QED BY <1>1, <1>2, <1>7 DEF IsSix, a, b, c, d

\* What the client sends after the target.
LEMMA EndOfText ==
  ASSUME NEW x \in Str
  PROVE  /\ x \o <<" ", "HTTP", "/", "1.1", NL, NL>> = (x \o <<" ", "HTTP", "/", "1.1">>) \o <<NL, NL>>
         /\ <<" ", "HTTP", "/", "1.1">> \in Str
<1>1. /\ " " \in Character /\ "HTTP" \in Character /\ "/" \in Character /\ "1.1" \in Character
      /\ NL \in Character
  BY Meanings DEF Versions
<1>2. IsSix(" ", "HTTP", "/", "1.1", NL, NL, Character) BY <1>1, RowOfSix
<1> DEFINE a == <<" ", "HTTP", "/", "1.1">>
           b == <<NL, NL>>
           c == <<" ", "HTTP", "/", "1.1", NL, NL>>
<1>3. x \in Str /\ a \in Str /\ b \in Str /\ c = a \o b BY <1>2 DEF IsSix, Str
<1> HIDE DEF a, b, c
<1>4. (x \o a) \o b = x \o (a \o b) BY <1>3, StrAssoc
<1>5. QED BY <1>3, <1>4 DEF a, b, c

Target(i) == Escaped(i.path) \o FlattenSeq(ParamTexts(i.params))

\* What the client sends for an intent, its request line and its headers.
LEMMA TextSent ==
  ASSUME NEW i \in Intents
  PROVE  LET l == LineFor("GET", Target(i), "1.1")
         IN  /\ Target(i) \in Str /\ " " \notin ToSet(Target(i))
             /\ DecodeUrl(Target(i)) = i.path \o QueryPart(i.params)
             /\ TextOf(i) \in Str /\ Ends(TextOf(i)) # {}
             /\ LineOf(TextOf(i)) = l /\ HeadersOf(TextOf(i)) = <<>>
<1> DEFINE l == LineFor("GET", Target(i), "1.1")
           e == Escaped(i.path)
           f == FlattenSeq(ParamTexts(i.params))
           g == <<"GET", " ">>
           h == <<" ", "HTTP", "/", "1.1">>
<1>1. i.path \in OneLine /\ i.params \in Seq(OneLine \X OneLine) BY IntentsAssumption
<1>2. Carries(e, i.path)
  <2>1. i.path \in Str /\ {NL, "LF"} \cap ToSet(i.path) = {} BY <1>1, OneLineIs
  <2>2. IsEscaped(e, i.path) BY <2>1, Escaping
  <2>3. QED BY <2>1, <2>2 DEF IsEscaped, Carries
<1>3. ParamsSentRight(i.params) BY <1>1, ParamsSent
<1>4. Carries(f, QueryPart(i.params)) BY <1>3 DEF ParamsSentRight
<1>5. Target(i) = e \o f BY DEF Target
<1>6. TextOf(i) = g \o e \o f \o <<" ", "HTTP", "/", "1.1", NL, NL>> BY DEF TextOf, ParamTexts
<1> HIDE DEF e, f
<1>7. Carries(Target(i), i.path \o QueryPart(i.params)) BY <1>2, <1>4, <1>5, CarryTwo
<1>8. /\ Target(i) \in Str /\ " " \notin ToSet(Target(i)) /\ NL \notin ToSet(Target(i))
      /\ DecodeUrl(Target(i)) = i.path \o QueryPart(i.params)
  BY <1>7, DecodesWhole DEF Carries, Decodes
<1>9. "GET" \in Methods /\ "1.1" \in Versions BY DEF Methods, Versions
<1>10. IsLine(l, "GET", Target(i), "1.1") BY <1>8, <1>9, LineRead
<1>11. l \in Str /\ l # <<>> /\ NL \notin ToSet(l)
  <2>1. NL \notin {"GET", " ", "HTTP", "/", "1.1"} BY DEF NL
  <2>2. QED BY <1>8, <1>10, <2>1 DEF IsLine
<1>12. e \in Str /\ f \in Str BY <1>2, <1>4 DEF Carries, Decodes
<1>13. g \in Str
  <2>1. "GET" \in Character /\ " " \in Character BY <1>9, Meanings
  <2>2. IsSix("GET", " ", " ", " ", "GET", " ", Character) BY <2>1, RowOfSix
  <2>3. QED BY <2>2 DEF IsSix, Str
<1>14. TextOf(i) = l \o <<NL, NL>>
  <2> DEFINE x == g \o e \o f
  <2>1. g \o e \in Str BY <1>12, <1>13, StrConcat
  <2>2. x \in Str BY <1>12, <2>1, StrConcat
  <2>3. x = g \o Target(i)
    <3> HIDE DEF g
    <3>1. (g \o e) \o f = g \o (e \o f) BY <1>12, <1>13, StrAssoc
    <3>2. QED BY <1>5, <3>1
  <2>4. l = x \o h BY <2>3 DEF LineFor
  <2>5. TextOf(i) = x \o <<" ", "HTTP", "/", "1.1", NL, NL>> BY <1>6
  <2> HIDE DEF x, l
  <2>6. x \o <<" ", "HTTP", "/", "1.1", NL, NL>> = (x \o h) \o <<NL, NL>> BY <2>2, EndOfText
  <2>7. QED BY <2>4, <2>5, <2>6
<1> HIDE DEF l
<1>15. TextOf(i) \in Str /\ Ends(TextOf(i)) # {} /\ LineOf(TextOf(i)) = l /\ HeadersOf(TextOf(i)) = <<>>
  <2> DEFINE t == l \o <<NL, NL>> \o <<>>
  <2>1. <<>> \in Str BY StrJoin
  <2>2. t \in Str /\ Ends(t) # {} /\ LineOf(t) = l /\ HeadersOf(t) = <<>> BY <1>11, <2>1, NoHeaders
  <2>3. l \o <<NL, NL>> \in Str
    <3>1. NL \in Character BY EscapeType
    <3>2. <<NL, NL>> \in Seq(Character) BY <3>1
    <3>3. QED BY <1>11, <3>2, StrConcat DEF Str
  <2>4. t = TextOf(i) BY <1>14, <2>3, StrJoin
  <2> HIDE DEF t
  <2>5. QED BY <2>2, <2>4
<1>16. QED BY <1>8, <1>15 DEF l

\* No headers are parsed to no headers.
LEMMA NoHeadersRead == IsHeaders(<<>>) /\ Headers(<<>>) = <<>>
<1>1. Split(<<>>, NL) = << <<>> >>
  <2>1. <<>> \in Str /\ NL \in Character /\ NL \notin ToSet(<<>>) BY StrJoin, ToSetOf, EscapeType
  <2>2. QED BY <2>1, SplitFirst
<1>2. Front(<< <<>> >>) = <<>> BY DEF Front
<1>3. HeaderLines(<<>>) = <<>>
  <2>1. SelectInSeq(<<>>, LAMBDA x : x = <<>>) = 0 BY DEF SelectInSeq
  <2>2. QED BY <1>1, <1>2, <2>1 DEF HeaderLines
<1>4. IsHeaders(<<>>) BY <1>3, ToSetOf DEF IsHeaders
<1>5. [i \in DOMAIN HeaderLines(<<>>) |-> NameAndValue(HeaderLines(<<>>)[i])] = <<>>
  <2>1. 1..0 = {} /\ DOMAIN <<>> = {} OBVIOUS
  <2>2. <<>> = [i \in 1..0 |-> 0] OBVIOUS
  <2>3. QED BY <1>3, <2>1, <2>2
<1>6. QED BY <1>4, <1>5, NothingEmplaced DEF Headers

\* An intent that no separator spoils is parsed to what the client meant.
LEMMA IntentRead ==
  ASSUME NEW i \in Intents, "?" \notin ToSet(i.path),
         \A p \in ToSet(i.params) : "&" \notin ToSet(p[1] \o p[2]) /\ "=" \notin ToSet(p[1])
  PROVE  /\ IsRequest(TextOf(i)) /\ Request(TextOf(i)).line.url = i.path
         /\ Request(TextOf(i)).line.params = Emplaced(i.params)
<1> DEFINE t == TextOf(i)
           l == LineFor("GET", Target(i), "1.1")
<1>1. /\ Target(i) \in Str /\ " " \notin ToSet(Target(i))
      /\ DecodeUrl(Target(i)) = i.path \o QueryPart(i.params)
      /\ LineOf(t) = l /\ HeadersOf(t) = <<>>
  BY TextSent
<1>2. i.path \in OneLine /\ i.params \in Seq(OneLine \X OneLine) BY IntentsAssumption
<1>3. i.path \in Str BY <1>2, OneLineIs
<1>4. i.params \in Seq(Separable)
  <2>1. ASSUME NEW n \in 1..Len(i.params) PROVE i.params[n] \in Separable
    <3> DEFINE p == i.params[n]
    <3>1. p \in OneLine \X OneLine /\ p \in ToSet(i.params) BY <1>2 DEF ToSet
    <3>2. p \in Str \X Str BY <3>1, OneLineIs
    <3>3. p[1] \in Str /\ p[2] \in Str BY <3>2
    <3>4. ToSet(p[1] \o p[2]) = ToSet(p[1]) \cup ToSet(p[2]) BY <3>3, StrConcat
    <3>5. QED BY <3>1, <3>2, <3>4 DEF Separable
  <2>2. QED BY <1>2, <2>1
<1>5. MayHave(i.path, i.params)
  <2>1. Find(i.path, "?") = 0 BY <1>3, FindDef
  <2>2. QED BY <2>1 DEF MayHave, Within
<1>6. "GET" \in Methods /\ "1.1" \in Versions BY DEF Methods, Versions
<1>7. /\ IsRequestLine(l)
      /\ RequestLine(l) =
           [method |-> "GET", version |-> "1.1", url |-> i.path, params |-> Emplaced(i.params)]
  BY <1>1, <1>3, <1>4, <1>5, <1>6, RequestLineRead
<1> HIDE DEF t, l
<1>8. IsRequest(t) BY <1>1, <1>7, NoHeadersRead DEF IsRequest
<1>9. Request(t).line = RequestLine(l) BY <1>1 DEF Request
<1>10. QED BY <1>7, <1>8, <1>9 DEF t

(***************************************************************************)
(* What has been read is what the text says                                *)
(***************************************************************************)
MeantKnown == meant = NoIntent \/ (meant \in Intents /\ text = TextOf(meant))

ReadKnown ==
  \/ pc = "read" /\ request = NoRequest
  \/ pc = "rejected" /\ request = NoRequest /\ ~IsRequest(text)
  \/ pc \notin {"read", "rejected"} /\ IsRequest(text) /\ request = Request(text)

TextKnown == text \in Str /\ Ends(text) # {}

ReadInv == MeantKnown /\ ReadKnown /\ TextKnown

\* Nothing has been read at the start.
LEMMA InitRead == ASSUME Init PROVE ReadInv
<1>1. MeantKnown /\ ReadKnown BY DEF Init, MeantKnown, ReadKnown
<1>2. CASE text \in Texts
  <2>1. text \in Str BY <1>2, TextsAssumption DEF Str
  <2>2. \E i \in 1..(Len(text) - 1) : text[i] = NL /\ text[i + 1] = NL
    BY <1>2, TextsAssumption
  <2>3. Ends(text) # {} BY <2>2 DEF Ends
  <2>4. QED BY <1>1, <2>1, <2>3 DEF ReadInv, TextKnown
<1>3. CASE meant \in Intents /\ text = TextOf(meant)
  <2>1. text \in Str /\ Ends(text) # {} BY <1>3, TextSent
  <2>2. QED BY <1>1, <2>1 DEF ReadInv, TextKnown
<1>4. QED BY <1>2, <1>3 DEF Init

\* Only Parse reads, and nothing changes what was sent and read.
LEMMA NextRead == ASSUME ReadInv, [Next]_vars PROVE ReadInv'
<1>1. text' = text /\ meant' = meant
  BY DEF Next, Parse, OnRequest, Begin, FirstExists, Canonical, IsDirectory, IndexExists,
         ExistsAgain, FileSize, Open, SendDirectory, Change, vars
<1>2. MeantKnown' /\ TextKnown' BY <1>1 DEF ReadInv, MeantKnown, TextKnown
<1>3. ReadKnown'
  <2>1. CASE Parse
    <3>1. pc = "read" BY <2>1 DEF Parse
    <3>2. request = NoRequest BY <3>1 DEF ReadInv, ReadKnown
    <3>3. CASE IsRequest(text)
      <4>1. request' = Request(text) /\ pc' = "parsed" BY <2>1, <3>3 DEF Parse
      <4>2. QED BY <1>1, <3>3, <4>1 DEF ReadKnown
    <3>4. CASE ~IsRequest(text)
      <4>1. request' = request /\ pc' = "rejected" BY <2>1, <3>4 DEF Parse
      <4>2. QED BY <1>1, <3>2, <3>4, <4>1 DEF ReadKnown
    <3>5. QED BY <3>3, <3>4
  <2>2. CASE OnRequest
    <3>1. pc \notin {"read", "rejected"} /\ request' = request
      BY <2>2 DEF OnRequest, Begin, FirstExists, Canonical, IsDirectory, IndexExists,
                  ExistsAgain, FileSize, Open, SendDirectory
    <3>2. pc' \notin {"read", "rejected"}
      BY <2>2 DEF OnRequest, Begin, FirstExists, Canonical, IsDirectory, IndexExists, Missing,
                  ExistsAgain, FileSize, Open, SendDirectory, GoOn, Refuse, Answer, Throw
    <3>3. QED BY <1>1, <3>1, <3>2 DEF ReadInv, ReadKnown
  <2>3. CASE Change \/ UNCHANGED vars
    <3>1. pc' = pc /\ request' = request BY <2>3 DEF Change, vars
    <3>2. QED BY <1>1, <3>1 DEF ReadInv, ReadKnown
  <2>4. QED BY <2>1, <2>2, <2>3 DEF Next
<1>4. QED BY <1>2, <1>3 DEF ReadInv

\* What was read from an intent is what was meant.
LEMMA IntentIsKept == ASSUME ReadInv PROVE IntentKept
<1> SUFFICES
      ASSUME meant # NoIntent, pc \in {"parsed", "rejected"}, "?" \notin ToSet(meant.path),
             \A p \in ToSet(meant.params) : "&" \notin ToSet(p[1] \o p[2]) /\ "=" \notin ToSet(p[1])
      PROVE  /\ pc = "parsed"
             /\ request.line.url = meant.path /\ request.line.params = Emplaced(meant.params)
  BY DEF IntentKept
<1>1. meant \in Intents /\ text = TextOf(meant) BY DEF ReadInv, MeantKnown
<1>2. /\ IsRequest(text) /\ Request(text).line.url = meant.path
      /\ Request(text).line.params = Emplaced(meant.params)
  BY <1>1, IntentRead
<1>3. pc = "parsed" /\ request = Request(text) BY <1>2 DEF ReadInv, ReadKnown
<1>4. QED BY <1>2, <1>3

\* A request that a client printed from what it meant, with path and parameters
\* escaped, is accepted and means the same to the server, unless a decoded path has a
\* "?" or a decoded parameter an "&" or "=": decoding comes before the cutting.
THEOREM IntentAlwaysKept == Spec => []IntentKept
<1>1. Init => ReadInv BY InitRead
<1>2. ReadInv /\ [Next]_vars => ReadInv' BY NextRead
<1>3. ReadInv => IntentKept BY IntentIsKept
<1>4. QED BY <1>1, <1>2, <1>3, PTL DEF Spec

(***************************************************************************)
(* Maps, and what they are printed from                                    *)
(***************************************************************************)
FirstOf(pairs, k) == SelectInSeq(pairs, LAMBDA p : p[1] = k)
KeysOf(pairs) == {p[1] : p \in ToSet(pairs)}

\* The first pair of each key stays.
LEMMA EmplacedDef ==
  \A pairs : Emplaced(pairs) = [k \in KeysOf(pairs) |-> pairs[FirstOf(pairs, k)][2]]
BY DEF Emplaced, KeysOf, FirstOf

\* The first pair with a key.
LEMMA FirstIs ==
  ASSUME NEW S, NEW pairs \in Seq(S), NEW k \in KeysOf(pairs)
  PROVE  FirstOf(pairs, k) \in 1..Len(pairs) /\ pairs[FirstOf(pairs, k)][1] = k
<1> DEFINE I == {i \in 1..Len(pairs) : pairs[i][1] = k}
<1>1. FirstOf(pairs, k) = IF I # {} THEN Min(I) ELSE 0 BY DEF FirstOf, SelectInSeq
<1>2. I # {} BY DEF KeysOf, ToSet
<1>3. I \in SUBSET Nat BY DEF ToSet
<1>4. I \subseteq 1..Len(pairs) /\ \A i \in I : pairs[i][1] = k OBVIOUS
<1> HIDE DEF I
<1>5. Min(I) \in I BY <1>2, <1>3, LeastNatural DEF Min
<1>6. QED BY <1>1, <1>2, <1>4, <1>5

\* A map holds pairs of those it was made from, and finitely many.
IsEmplaced(P, pairs, S) ==
  /\ P = [k \in DOMAIN P |-> P[k]] /\ \A k \in DOMAIN P : <<k, P[k]>> \in S
  /\ IsFiniteSet(DOMAIN P) /\ DOMAIN P = KeysOf(pairs)
  /\ DOMAIN P = {} <=> pairs = <<>>

\* A map of pairs: its keys, its values and that it is finite.
LEMMA EmplacedIs ==
  ASSUME NEW A, NEW B, NEW S \in SUBSET (A \X B), NEW pairs \in Seq(S)
  PROVE  IsEmplaced(Emplaced(pairs), pairs, S)
<1> DEFINE P == Emplaced(pairs)
           D == KeysOf(pairs)
<1>1. P = [k \in D |-> pairs[FirstOf(pairs, k)][2]] BY EmplacedDef
<1>2. Len(pairs) \in Nat /\ DOMAIN pairs = 1..Len(pairs) /\ \A i \in 1..Len(pairs) : pairs[i] \in S
  OBVIOUS
<1>3. \A i \in 1..Len(pairs) : pairs[i] = <<pairs[i][1], pairs[i][2]>> BY <1>2
<1>4. ASSUME NEW k \in D PROVE <<k, P[k]>> \in S
  <2> DEFINE i == FirstOf(pairs, k)
  <2>1. i \in 1..Len(pairs) /\ pairs[i][1] = k BY FirstIs
  <2>2. P[k] = pairs[i][2] BY <1>1
  <2> HIDE DEF P, D, i
  <2>3. <<k, P[k]>> = pairs[i] BY <1>3, <2>1, <2>2
  <2>4. QED BY <1>2, <2>1, <2>3
<1>5. D = {pairs[i][1] : i \in 1..Len(pairs)} BY <1>2 DEF KeysOf, ToSet
<1>6. IsFiniteSet(D)
  <2> DEFINE f == [i \in 1..Len(pairs) |-> pairs[i][1]]
  <2>1. f \in Surjection(1..Len(pairs), D) BY <1>5 DEF Surjection
  <2>2. IsFiniteSet(1..Len(pairs)) BY <1>2, FS_Interval
  <2> HIDE DEF f, D
  <2>3. QED BY <2>1, <2>2, FS_Surjection
<1>7. D = {} <=> pairs = <<>>
  <2>1. CASE pairs = <<>> BY <1>5, <2>1
  <2>2. CASE pairs # <<>>
    <3>1. Len(pairs) # 0 BY <2>2, EmptySeq
    <3>2. 1 \in 1..Len(pairs) BY <1>2, <3>1
    <3>3. QED BY <1>5, <2>2, <3>2
  <2>3. QED BY <2>1, <2>2
<1>8. DOMAIN P = D /\ P = [k \in D |-> P[k]] BY <1>1
<1> HIDE DEF P, D
<1>9. QED BY <1>4, <1>6, <1>7, <1>8 DEF IsEmplaced, P, D

\* SetToSeq has every element of a finite set.
IsListed(K, D) == K \in Seq(D) /\ ToSet(K) = D

\* SetToSeq lists every member of a finite set.
LEMMA Listed == ASSUME NEW D, IsFiniteSet(D) PROVE IsListed(SetToSeq(D), D)
<1> DEFINE n == Cardinality(D)
           K == SetToSeq(D)
<1>1. n \in Nat /\ ExistsBijection(1..n, D) BY FS_CardinalityType
<1>2. \E f \in [1..n -> D] : IsInjective(f) BY <1>1 DEF ExistsBijection, Bijection, Injection
<1>3. K = CHOOSE f \in [1..n -> D] : IsInjective(f) BY DEF SetToSeq
<1> HIDE DEF K
<1>4. K \in [1..n -> D] /\ IsInjective(K) BY <1>2, <1>3
<1>5. K \in Injection(1..n, D) BY <1>4 DEF Injection
<1>6. Cardinality(1..n) = n /\ IsFiniteSet(1..n) BY <1>1, FS_Interval
<1> HIDE DEF n
<1>7. K \in Surjection(1..n, D) BY <1>5, <1>6, FS_Injection DEF n
<1>8. DOMAIN K = 1..n BY <1>4
<1>9. ToSet(K) = D BY <1>4, <1>7, <1>8 DEF Surjection, ToSet
<1>10. K \in Seq(D) BY <1>1, <1>4
<1>11. QED BY <1>9, <1>10 DEF IsListed, K

\* The pairs of a map, in the order in which they are printed.
Listing(P) ==
  LET keys == SetToSeq(DOMAIN P) IN [i \in DOMAIN keys |-> <<keys[i], P[keys[i]]>>]

IsListing(P, Q, S) ==
  /\ Q \in Seq(S) /\ Emplaced(Q) = P /\ (Q = <<>> <=> P = <<>>)
  /\ \A i \in DOMAIN Q : Q[i][1] \in DOMAIN P /\ Q[i][2] = P[Q[i][1]]

\* A map made of the pairs listed of a map is that map.
LEMMA ListingIs ==
  ASSUME NEW A, NEW B, NEW S \in SUBSET (A \X B), NEW pairs \in Seq(S)
  PROVE  IsListing(Emplaced(pairs), Listing(Emplaced(pairs)), S)
<1> DEFINE P == Emplaced(pairs)
           K == SetToSeq(DOMAIN P)
           Q == Listing(P)
<1>1. IsEmplaced(P, pairs, S) BY EmplacedIs
<1> HIDE DEF P
<1>2. IsListed(K, DOMAIN P) BY <1>1, Listed DEF IsEmplaced
<1>3. Q = [i \in DOMAIN K |-> <<K[i], P[K[i]]>>] BY DEF Listing
<1> HIDE DEF K, Q
<1>4. /\ K \in Seq(DOMAIN P) /\ Len(K) \in Nat /\ DOMAIN K = 1..Len(K) /\ ToSet(K) = DOMAIN P
      /\ \A i \in 1..Len(K) : K[i] \in DOMAIN P
  BY <1>2 DEF IsListed
<1>5. \A i \in 1..Len(K) : Q[i] = <<K[i], P[K[i]]>> /\ Q[i][1] = K[i] /\ Q[i][2] = P[K[i]] BY <1>3, <1>4
<1>6. \A i \in 1..Len(K) : Q[i] \in S BY <1>1, <1>4, <1>5 DEF IsEmplaced
<1>7. DOMAIN Q = 1..Len(K) BY <1>3, <1>4
<1>8. Q \in Seq(S)
  <2>1. Q = [i \in 1..Len(K) |-> Q[i]] BY <1>3, <1>4
  <2>2. QED BY <1>4, <1>6, <2>1
<1>9. Len(Q) = Len(K) BY <1>4, <1>7, <1>8
<1>10. KeysOf(Q) = DOMAIN P
  <2>1. KeysOf(Q) = {Q[i][1] : i \in 1..Len(K)} BY <1>7 DEF KeysOf, ToSet
  <2>2. ToSet(K) = {K[i] : i \in 1..Len(K)} BY <1>4 DEF ToSet
  <2>3. KeysOf(Q) = ToSet(K) BY <1>5, <2>1, <2>2
  <2>4. QED BY <1>4, <2>3
<1>11. Emplaced(Q) = P
  <2>1. Emplaced(Q) = [k \in DOMAIN P |-> Q[FirstOf(Q, k)][2]] BY <1>10, EmplacedDef
  <2>2. ASSUME NEW k \in DOMAIN P PROVE Q[FirstOf(Q, k)][2] = P[k]
    <3>1. FirstOf(Q, k) \in 1..Len(Q) /\ Q[FirstOf(Q, k)][1] = k BY <1>8, <1>10, FirstIs
    <3>2. QED BY <1>5, <1>9, <3>1
  <2>3. P = [k \in DOMAIN P |-> P[k]] BY <1>1 DEF IsEmplaced
  <2>4. QED BY <2>1, <2>2, <2>3
<1>12. Q = <<>> <=> P = <<>>
  <2>1. CASE pairs = <<>>
    <3>1. DOMAIN P = {} BY <1>1, <2>1 DEF IsEmplaced
    <3>2. P = <<>> BY <2>1, NothingEmplaced DEF P
    <3>3. Len(K) = 0 BY <1>4, <3>1
    <3>4. Q = <<>> BY <1>8, <1>9, <3>3, EmptySeq
    <3>5. QED BY <3>2, <3>4
  <2>2. CASE pairs # <<>>
    <3>1. PICK k : k \in DOMAIN P BY <1>1, <2>2 DEF IsEmplaced
    <3>2. P # <<>>
      <4>1. DOMAIN <<>> = {} OBVIOUS
      <4>2. QED BY <3>1, <4>1
    <3>3. Len(K) # 0 BY <1>4, <3>1 DEF ToSet
    <3>4. Q # <<>> BY <1>8, <1>9, <3>3, EmptySeq
    <3>5. QED BY <3>2, <3>4
  <2>3. QED BY <2>1, <2>2
<1>13. QED BY <1>4, <1>5, <1>7, <1>8, <1>11, <1>12 DEF IsListing, Q, K, P

(***************************************************************************)
(* What a request line is parsed to                                        *)
(***************************************************************************)
IsParameters(query, pairs) ==
  /\ pairs \in Seq(Separable) /\ QueryParameters(query) = Emplaced(pairs)
  /\ pairs = <<>> <=> query = <<>>

\* A query that is accepted has parameters with separable keys and values.
LEMMA ParametersRead ==
  ASSUME NEW query \in Str, IsQuery(query)
  PROVE  \E pairs : IsParameters(query, pairs)
<1>1. CASE query = <<>>
  <2>1. QueryParameters(query) = Emplaced(<<>>) BY <1>1, NothingEmplaced DEF QueryParameters
  <2>2. <<>> \in Seq(Separable) BY EmptySeq
  <2>3. QED BY <1>1, <2>1, <2>2 DEF IsParameters
<1>2. CASE query # <<>>
  <2> DEFINE parts == Split(query, "&")
             pairs == [i \in DOMAIN parts |-> KeyAndValue(parts[i])]
  <2>1. "&" \in Character BY EscapeType
  <2>2. IsSplit(parts, query, "&") BY <2>1, SplitType
  <2>3. Params(query) = parts BY DEF Params
  <2>4. QueryParameters(query) = Emplaced(pairs) BY <1>2, <2>3 DEF QueryParameters
  <2>5. \A p \in ToSet(parts) : Find(p, "=") # 0 BY <1>2, <2>3 DEF IsQuery
  <2> HIDE DEF parts
  <2>6. /\ parts \in Seq(Str) /\ parts # <<>> /\ Len(parts) \in Nat /\ DOMAIN parts = 1..Len(parts)
        /\ \A i \in 1..Len(parts) : /\ parts[i] \in Str /\ parts[i] \in ToSet(parts)
                                    /\ "&" \notin ToSet(parts[i])
    <3>1. /\ parts \in Seq(Str) /\ parts # <<>>
          /\ \A i \in 1..Len(parts) : "&" \notin ToSet(parts[i])
      BY <2>2 DEF IsSplit
    <3>2. \A i \in 1..Len(parts) : parts[i] \in Str /\ parts[i] \in ToSet(parts) BY <3>1 DEF ToSet
    <3>3. QED BY <3>1, <3>2
  <2>7. ASSUME NEW i \in 1..Len(parts) PROVE KeyAndValue(parts[i]) \in Separable
    <3> DEFINE p == parts[i]
               k == Until(p, Find(p, "="))
               v == From(p, Find(p, "=") + 1)
    <3>1. p \in Str /\ Find(p, "=") # 0 /\ "&" \notin ToSet(p) BY <2>5, <2>6
    <3> HIDE DEF p
    <3>2. /\ k \in Str /\ v \in Str /\ "=" \notin ToSet(k)
          /\ ToSet(k) \subseteq ToSet(p) /\ ToSet(v) \subseteq ToSet(p)
      BY <3>1, CutAt
    <3>3. KeyAndValue(p) = <<k, v>> BY DEF KeyAndValue
    <3> HIDE DEF k, v
    <3>4. <<k, v>> \in Separable BY <3>1, <3>2 DEF Separable
    <3>5. QED BY <3>3, <3>4 DEF p
  <2>8. pairs \in Seq(Separable) BY <2>6, <2>7
  <2>9. pairs # <<>>
    <3>1. DOMAIN pairs = 1..Len(parts) BY <2>6
    <3>2. Len(parts) # 0 BY <2>6, EmptySeq
    <3>3. 1 \in DOMAIN pairs BY <2>6, <3>1, <3>2
    <3>4. DOMAIN <<>> = {} OBVIOUS
    <3> HIDE DEF pairs
    <3>5. QED BY <3>3, <3>4
  <2> HIDE DEF pairs
  <2>10. IsParameters(query, pairs) BY <1>2, <2>4, <2>8, <2>9 DEF IsParameters
  <2>11. QED BY <2>10
<1>3. QED BY <1>1, <1>2

\* What is known of a line that was parsed.
IsParsedLine(line, pairs) ==
  /\ line = [method |-> line.method, version |-> line.version, url |-> line.url,
             params |-> Emplaced(pairs)]
  /\ line.method \in Methods /\ line.version \in Versions
  /\ line.url \in Str /\ pairs \in Seq(Separable)
  /\ MayHave(line.url, pairs)

\* What a request line that is accepted is parsed to.
LEMMA LineParsed ==
  ASSUME NEW l \in Str, IsRequestLine(l)
  PROVE  \E pairs : IsParsedLine(RequestLine(l), pairs)
<1> DEFINE a == AfterMethod(l)
           t == TargetOf(l)
           i == QueryAt(t)
           url == Until(t, i)
           query == QueryOf(l)
           line == RequestLine(l)
<1>1. /\ Find(l, " ") # 0 /\ MethodOf(l) \in MethodCodes /\ Find(a, " ") # 0
      /\ IsQuery(query) /\ VersionOf(l) \in VersionCodes
  BY DEF IsRequestLine, Within
<1>2. a \in Str /\ ToSet(a) \subseteq ToSet(l) BY <1>1, CutAt DEF AfterMethod
<1>3. MethodOf(a) \in Str /\ ToSet(MethodOf(a)) \subseteq ToSet(a) BY <1>1, <1>2, CutAt DEF MethodOf
<1>4. t \in Str
  <2>1. t = DecodeUrl(MethodOf(a)) BY DEF TargetOf
  <2> HIDE DEF t, a
  <2>2. QED BY <1>3, <2>1, Decoding
<1>5. line.method \in Methods /\ line.version \in Versions
  <2>1. PICK m \in Methods : MethodOf(l) = <<m>> BY <1>1 DEF MethodCodes
  <2>2. PICK v \in Versions : VersionOf(l) = <<v>> BY <1>1 DEF VersionCodes
  <2>3. line.method = m /\ line.version = v BY <2>1, <2>2 DEF RequestLine
  <2>4. QED BY <2>3
<1>6. line.url = url /\ line.params = QueryParameters(query) BY DEF RequestLine
<1>7. line = [method |-> line.method, version |-> line.version, url |-> line.url, params |-> line.params]
  BY DEF RequestLine
<1>8. query = From(t, i + 1) BY DEF QueryOf
<1> HIDE DEF t, line, a, query
<1>9. /\ url \in Str /\ query \in Str /\ ToSet(url) \subseteq ToSet(t) /\ ToSet(query) \subseteq ToSet(t)
      /\ IF query = <<>> THEN ~Within(url, Find(url, "?")) ELSE "?" \notin ToSet(url)
  <2>1. CASE Within(t, Find(t, "?"))
    <3>1. i = Find(t, "?") /\ i # 0 /\ i # Len(t) BY <2>1 DEF QueryAt, Within
    <3> HIDE DEF i
    <3>2. /\ url \in Str /\ query \in Str /\ Len(query) = Len(t) - i /\ "?" \notin ToSet(url)
          /\ ToSet(url) \subseteq ToSet(t) /\ ToSet(query) \subseteq ToSet(t) /\ i \in 1..Len(t)
      <4>1. Find(t, "?") # 0 BY <3>1
      <4>2. /\ Until(t, Find(t, "?")) \in Str /\ From(t, Find(t, "?") + 1) \in Str
            /\ Len(From(t, Find(t, "?") + 1)) = Len(t) - Find(t, "?")
            /\ "?" \notin ToSet(Until(t, Find(t, "?"))) /\ Find(t, "?") \in 1..Len(t)
            /\ ToSet(Until(t, Find(t, "?"))) \subseteq ToSet(t)
            /\ ToSet(From(t, Find(t, "?") + 1)) \subseteq ToSet(t)
        BY <1>4, <4>1, CutAt
      <4>3. QED BY <1>8, <3>1, <4>2
    <3>3. Len(t) \in Nat BY <1>4, StrJoin
    <3> HIDE DEF url
    <3>4. Len(query) # 0 BY <3>1, <3>2, <3>3
    <3>5. query # <<>> BY <3>4, StrJoin
    <3>6. QED BY <3>2, <3>5
  <2>2. CASE ~Within(t, Find(t, "?"))
    <3>1. i = Len(t) + 1 BY <2>2 DEF QueryAt
    <3>2. Len(t) \in Nat BY <1>4, StrJoin
    <3> HIDE DEF i
    <3>3. url = t
      <4>1. url = SubSeq(t, 1, Len(t)) BY <3>1, <3>2 DEF Until
      <4>2. QED BY <1>4, <4>1 DEF Str
    <3>4. query = <<>>
      <4>1. query = SubSeq(t, Len(t) + 2, Len(t)) BY <1>8, <3>1, <3>2 DEF From
      <4>2. QED BY <1>4, <3>2, <4>1 DEF Str
    <3> HIDE DEF url
    <3>5. QED BY <1>4, <2>2, <3>3, <3>4, StrJoin, ToSetOf
  <2>3. QED BY <2>1, <2>2
<1> HIDE DEF url
<1>10. PICK pairs : IsParameters(query, pairs) BY <1>1, <1>4, <1>9, ParametersRead
<1>11. MayHave(url, pairs) BY <1>9, <1>10 DEF MayHave, IsParameters
<1>12. IsParsedLine(line, pairs)
  BY <1>4, <1>5, <1>6, <1>7, <1>9, <1>10, <1>11 DEF IsParsedLine, IsParameters
<1>13. QED BY <1>12 DEF line

(***************************************************************************)
(* A request line that is printed and parsed again                         *)
(***************************************************************************)
\* What stands for itself in a request line.
Bare == Character \ {"%", "+", " ", NL, "CR", "LF"}

\* Parameters are printed one after another with "&" between them.
LEMMA QueryPrinted ==
  ASSUME NEW P, NEW S \in SUBSET (Str \X Str), IsListing(P, Listing(P), S)
  PROVE  PrintedQuery(P) = Joined(Mapped(PairText, Listing(P)), "&")
<1> DEFINE K == SetToSeq(DOMAIN P)
           Q == Listing(P)
<1>1. Q = [i \in DOMAIN K |-> <<K[i], P[K[i]]>>] BY DEF Listing
<1>2. \A i \in DOMAIN Q : Q[i] \in Str \X Str BY DEF IsListing
<1> HIDE DEF K, Q
<1>3. ASSUME NEW i \in DOMAIN K PROVE PairText[Q[i]] = K[i] \o <<"=">> \o P[K[i]]
  <2>1. Q[i] = <<K[i], P[K[i]]>> /\ Q[i] \in Str \X Str BY <1>1, <1>2
  <2>2. PairText[Q[i]] = Q[i][1] \o <<"=">> \o Q[i][2] BY <2>1 DEF PairText
  <2>3. Q[i][1] = K[i] /\ Q[i][2] = P[K[i]] BY <2>1
  <2>4. QED BY <2>2, <2>3, Zenon
<1>4. DOMAIN Q = DOMAIN K BY <1>1
<1>5. Mapped(PairText, Q) = [i \in DOMAIN K |-> K[i] \o <<"=">> \o P[K[i]]]
  BY <1>3, <1>4 DEF Mapped
<1>6. PrintedQuery(P) = Joined([i \in DOMAIN K |-> K[i] \o <<"=">> \o P[K[i]]], "&")
  BY DEF PrintedQuery, K
<1>7. QED BY <1>5, <1>6 DEF Q
\* Parameters that stand for themselves.
LEMMA QueryPartIsBare ==
  ASSUME NEW pairs \in Seq(Separable),
         \A i \in DOMAIN pairs : Plain(pairs[i][1]) /\ Plain(pairs[i][2])
  PROVE  QueryPart(pairs) \in Over(Bare)
<1>1. {"?", "&", "="} \subseteq Bare BY EscapeType DEF Bare, NL
<1>2. CASE pairs = <<>>
  BY <1>2, StrJoin, ToSetOf DEF QueryPart, Over
<1>3. CASE pairs # <<>>
  <2> DEFINE S == {p \in Str \X Str : ToSet(p[1]) \subseteq Bare /\ ToSet(p[2]) \subseteq Bare}
             g == [p \in S |-> PairText[p]]
             q == Joined(Mapped(PairText, pairs), "&")
  <2>1. pairs \in Seq(S)
    <3>1. ASSUME NEW i \in 1..Len(pairs) PROVE pairs[i] \in S
      <4> DEFINE p == pairs[i]
      <4>1. p \in Separable /\ i \in DOMAIN pairs OBVIOUS
      <4>2. p \in Str \X Str BY <4>1 DEF Separable
      <4>3. Plain(p[1]) /\ Plain(p[2]) BY <4>1
      <4>4. ToSet(p[1]) \subseteq Character /\ ToSet(p[2]) \subseteq Character
        BY <4>2 DEF Str, ToSet
      <4> HIDE DEF p
      <4>5. p \in S BY <4>2, <4>3, <4>4 DEF Plain, Bare
      <4>6. QED BY <4>5 DEF p
    <3>2. QED BY <3>1
  <2>2. ASSUME NEW p \in S PROVE g[p] \in Over(Bare)
    <3>1. ToSet(PairText[p]) = (ToSet(p[1]) \cup {"="}) \cup ToSet(p[2]) /\ PairText[p] \in Str
      BY PairTexts
    <3>2. QED BY <1>1, <3>1 DEF Over
  <2>3. IsMapped(g, pairs, S, Over(Bare))
    <3> HIDE DEF S
    <3>1. g \in [S -> Over(Bare)] BY <2>2
    <3> HIDE DEF g
    <3>2. QED BY <2>1, <3>1, Mapping
  <2>4. Mapped(g, pairs) = Mapped(PairText, pairs) BY <2>1 DEF Mapped
  <2> HIDE DEF g, S
  <2>5. Mapped(PairText, pairs) \in Seq(Over(Bare)) BY <2>3, <2>4 DEF IsMapped
  <2>6. "&" \in Character /\ "?" \in Character BY EscapeType
  <2>7. IsJoined(q, Mapped(PairText, pairs), "&", Bare) BY <2>5, <2>6, Joining
  <2> HIDE DEF q
  <2>8. q \in Str /\ ToSet(q) \subseteq Bare BY <1>1, <2>7 DEF IsJoined, Over
  <2>9. <<"?">> \in Str /\ ToSet(<<"?">>) = {"?"} BY <2>6, StrOne
  <2>10. <<"?">> \o q \in Str /\ ToSet(<<"?">> \o q) = {"?"} \cup ToSet(q) BY <2>8, <2>9, StrConcat
  <2>11. QueryPart(pairs) = <<"?">> \o q BY <1>3 DEF QueryPart, q
  <2>12. QED BY <1>1, <2>8, <2>10, <2>11 DEF Over
<1>4. QED BY <1>2, <1>3

IsLineAgain(l, line) ==
  l \in Str /\ l # <<>> /\ NL \notin ToSet(l) /\ IsRequestLine(l) /\ RequestLine(l) = line

\* A parsed request line, printed, is parsed to itself if no escape, blank or end of a
\* line was decoded.
LEMMA LinePrinted ==
  ASSUME NEW line, NEW pairs, IsParsedLine(line, pairs), Plain(line.url),
         \A k \in DOMAIN line.params : Plain(k) /\ Plain(line.params[k])
  PROVE  IsLineAgain(PrintedLine(line), line)
<1> DEFINE P == line.params
           Q == Listing(P)
           m == line.method
           v == line.version
           url == line.url
           u == url \o QueryPart(Q)
           l == LineFor(m, u, v)
<1>1. /\ m \in Methods /\ v \in Versions /\ url \in Str
      /\ pairs \in Seq(Separable) /\ P = Emplaced(pairs) /\ MayHave(url, pairs)
      /\ line = [method |-> m, version |-> v, url |-> url, params |-> P]
  BY DEF IsParsedLine
<1>2. IsListing(P, Q, Separable)
  <2>1. Separable \in SUBSET (Str \X Str) BY DEF Separable
  <2>2. IsListing(Emplaced(pairs), Listing(Emplaced(pairs)), Separable) BY <1>1, <2>1, ListingIs
  <2>3. QED BY <1>1, <2>2
<1>3. Plain(url) /\ \A i \in DOMAIN Q : Plain(Q[i][1]) /\ Plain(Q[i][2]) BY <1>2 DEF IsListing
<1> HIDE DEF P, Q, m, v, url
<1>4. Q \in Seq(Separable) /\ Emplaced(Q) = P /\ (Q = <<>> <=> P = <<>>) BY <1>2 DEF IsListing
<1>5. Q = <<>> <=> pairs = <<>>
  <2>1. Separable \in SUBSET (Str \X Str) BY DEF Separable
  <2>2. pairs \in Seq(Separable) /\ Q \in Seq(Separable) BY <1>1, <1>4
  <2>3. IsEmplaced(Emplaced(pairs), pairs, Separable) BY <2>1, <2>2, EmplacedIs
  <2>4. IsEmplaced(Emplaced(Q), Q, Separable) BY <2>1, <2>2, EmplacedIs
  <2>5. QED BY <1>1, <1>4, <2>3, <2>4 DEF IsEmplaced
<1>6. MayHave(url, Q) BY <1>1, <1>5 DEF MayHave
<1>7. QueryPart(Q) \in Str /\ ToSet(QueryPart(Q)) \subseteq Bare BY <1>3, <1>4, QueryPartIsBare DEF Over
<1>8. ToSet(url) \subseteq Bare
  <2>1. ToSet(url) \subseteq Character BY <1>1 DEF Str, ToSet
  <2>2. QED BY <1>1, <1>3, <2>1 DEF Plain, Bare
<1>9. u \in Str /\ ToSet(u) = ToSet(url) \cup ToSet(QueryPart(Q)) BY <1>1, <1>7, StrConcat
<1> HIDE DEF u
<1>10. ToSet(u) \cap {"%", "+", " ", NL, "LF"} = {} BY <1>7, <1>8, <1>9 DEF Bare
<1>11. DecodeUrl(u) = u BY <1>9, <1>10, DecodesPlain, DecodesWhole
<1>12. " " \notin ToSet(u) /\ DecodeUrl(u) = url \o QueryPart(Q) BY <1>10, <1>11 DEF u
<1>13. /\ IsLine(l, m, u, v) /\ IsRequestLine(l)
       /\ RequestLine(l) = [method |-> m, version |-> v, url |-> url, params |-> Emplaced(Q)]
  <2>1. m \in Methods /\ v \in Versions /\ url \in Str /\ Q \in Seq(Separable) /\ u \in Str
    BY <1>1, <1>4, <1>9
  <2>2. QED BY <1>6, <1>12, <2>1, RequestLineRead
<1>14. NL \notin ToSet(l)
  <2>1. NL \notin {m, " ", "HTTP", "/", v} BY <1>1, Meanings DEF NL
  <2>2. QED BY <1>10, <1>13, <2>1 DEF IsLine
<1>15. PrintedLine(line) = l
  <2> DEFINE g == <<m, " ">>
             h == <<" ", "HTTP", "/", v>>
             w == IF P = <<>> THEN <<>> ELSE <<"?">> \o PrintedQuery(P)
  <2>1. PrintedLine(line) = g \o url \o w \o h BY <1>1 DEF PrintedLine, m, v, url, P
  <2>2. w = QueryPart(Q)
    <3>1. Separable \in SUBSET (Str \X Str) BY DEF Separable
    <3>2. PrintedQuery(P) = Joined(Mapped(PairText, Q), "&") BY <1>2, <3>1, QueryPrinted DEF Q
    <3>3. QED BY <1>4, <3>2 DEF QueryPart
  <2>3. g \in Str
    <3>1. m \in Character /\ " " \in Character BY <1>1, Meanings
    <3>2. <<m>> \in Str /\ <<" ">> \in Str BY <3>1, StrOne
    <3>3. IsRow(m, " ", m, m) BY <3>1, Row
    <3>4. <<m>> \o <<" ">> \in Str BY <3>2, StrConcat
    <3>5. QED BY <3>3, <3>4 DEF IsRow
  <2> HIDE DEF g, h, w
  <2>4. (g \o url) \o QueryPart(Q) = g \o u BY <1>1, <1>7, <2>3, StrAssoc DEF u
  <2>5. l = (g \o u) \o h BY DEF LineFor, g, h
  <2>6. QED BY <2>1, <2>2, <2>4, <2>5
<1> HIDE DEF l
<1>16. RequestLine(l) = line BY <1>1, <1>4, <1>13
<1>17. QED BY <1>13, <1>14, <1>15, <1>16 DEF IsLineAgain, IsLine

(***************************************************************************)
(* A header that is printed and parsed again                               *)
(***************************************************************************)
\* The character that separates the parts of a line.
Space == " "

\* The blank is a character of its own.
LEMMA SpaceIs ==
  Space \in Character /\ Space # NL /\ Space # ":"
BY EscapeType DEF Space, NL

\* What a header is parsed to.
HeaderPair ==
  {p \in Str \X Str : /\ {":", NL} \cap ToSet(p[1]) = {} /\ NL \notin ToSet(p[2])
                      /\ ToLower(p[1]) = p[1] /\ (p[2] = <<>> \/ p[2][1] # Space)}

HeaderText == [p \in Str \X Str |-> p[1] \o <<":", Space>> \o p[2]]

\* A name in lower case stays as it is.
LEMMA Lowered ==
  ASSUME NEW name \in Str
  PROVE  /\ ToLower(name) \in Str /\ ToLower(ToLower(name)) = ToLower(name)
         /\ \A c \in {":", NL} : c \notin ToSet(name) => c \notin ToSet(ToLower(name))
<1> DEFINE low == ToLower(name)
<1>1. Len(name) \in Nat /\ DOMAIN name = 1..Len(name) /\ \A i \in 1..Len(name) : name[i] \in Character
  BY DEF Str
<1>2. low = [i \in 1..Len(name) |-> IF name[i] \in DOMAIN LowerOf THEN LowerOf[name[i]] ELSE name[i]]
  BY <1>1 DEF ToLower
<1> HIDE DEF low
<1>3. \A i \in 1..Len(name) :
         /\ low[i] = IF name[i] \in DOMAIN LowerOf THEN LowerOf[name[i]] ELSE name[i]
         /\ low[i] \in Character \ DOMAIN LowerOf
  BY <1>1, <1>2, Meanings
<1>4. DOMAIN low = 1..Len(name) BY <1>2
<1>5. low \in Str BY <1>1, <1>2, <1>3 DEF Str
<1>6. ToLower(low) = low
  <2>1. ToLower(low) =
          [i \in 1..Len(name) |-> IF low[i] \in DOMAIN LowerOf THEN LowerOf[low[i]] ELSE low[i]]
    BY <1>4 DEF ToLower
  <2>2. ToLower(low) = [i \in 1..Len(name) |-> low[i]] BY <1>3, <2>1
  <2>3. low = [i \in 1..Len(name) |-> low[i]] BY <1>2
  <2>4. QED BY <2>2, <2>3
<1>7. ASSUME NEW c \in {":", NL}, c \notin ToSet(name) PROVE c \notin ToSet(low)
  <2>1. \A i \in 1..Len(name) : name[i] # c BY <1>1, <1>7 DEF ToSet
  <2>2. \A i \in 1..Len(name) : low[i] # c
    <3>1. \A x \in DOMAIN LowerOf : LowerOf[x] # c BY Meanings
    <3>2. QED BY <1>3, <2>1, <3>1
  <2>3. QED BY <1>4, <2>2 DEF ToSet
<1>8. QED BY <1>5, <1>6, <1>7 DEF low

\* The first character that is no space.
FirstOther(s) == SelectInSeq(s, LAMBDA c : c # Space)

\* FirstOther is 0 or the first place that has no blank.
LEMMA FirstOtherIs ==
  ASSUME NEW s \in Str
  PROVE  \/ FirstOther(s) = 0 /\ \A i \in 1..Len(s) : s[i] = Space
         \/ /\ FirstOther(s) \in 1..Len(s) /\ s[FirstOther(s)] # Space
            /\ \A i \in 1..Len(s) : s[i] # Space => FirstOther(s) <= i
<1> DEFINE I == {i \in 1..Len(s) : s[i] # Space}
<1>1. FirstOther(s) = IF I # {} THEN Min(I) ELSE 0 BY DEF FirstOther, SelectInSeq
<1>2. I \in SUBSET Nat
  <2>1. Len(s) \in Nat BY StrJoin
  <2>2. QED BY <2>1
<1>3. CASE I = {} BY <1>1, <1>3
<1>4. CASE I # {}
  <2>1. \A i \in 1..Len(s) : s[i] # Space => i \in I OBVIOUS
  <2>2. \A i \in I : i \in 1..Len(s) /\ s[i] # Space OBVIOUS
  <2> HIDE DEF I
  <2>3. Min(I) \in I /\ \A x \in I : Min(I) <= x BY <1>2, <1>4, LeastNatural DEF Min
  <2>4. QED BY <1>1, <1>4, <2>1, <2>2, <2>3
<1>5. QED BY <1>3, <1>4

\* Trimmed cuts at the first place that has no blank.
LEMMA TrimmedDef == \A v : Trimmed(v) = IF FirstOther(v) = 0 THEN <<>> ELSE From(v, FirstOther(v))
BY DEF Trimmed, FirstOther, Space

\* A trimmed value is a part of the value and starts with no blank.
LEMMA Trimming ==
  ASSUME NEW v \in Str
  PROVE  /\ Trimmed(v) \in Str /\ ToSet(Trimmed(v)) \subseteq ToSet(v)
         /\ Trimmed(v) = <<>> \/ Trimmed(v)[1] # Space
<1>1. CASE FirstOther(v) = 0
  <2>1. Trimmed(v) = <<>> BY <1>1, TrimmedDef
  <2>2. QED BY <2>1, StrJoin, ToSetOf
<1>2. CASE FirstOther(v) # 0
  <2> DEFINE i == FirstOther(v)
  <2>1. i \in 1..Len(v) /\ v[i] # Space BY <1>2, FirstOtherIs
  <2>2. Trimmed(v) = From(v, i) BY <1>2, TrimmedDef
  <2> HIDE DEF i
  <2>3. Len(v) \in Nat BY StrJoin
  <2>4. From(v, i) \in Str /\ ToSet(From(v, i)) \subseteq ToSet(v)
    <3>1. i \in 1..(Len(v) + 1) BY <2>1, <2>3
    <3>2. QED BY <3>1, FromDef
  <2>5. From(v, i)[1] = v[i]
    <3>1. From(v, i) = SubSeq(v, i, Len(v)) BY DEF From
    <3>2. SubSeq(v, i, Len(v))[1] = v[i]
      <4>1. v \in Seq(Character) /\ i \in 1..(Len(v) + 1) /\ Len(v) \in Int /\ i <= Len(v)
        BY <2>1, <2>3 DEF Str
      <4>2. QED BY <4>1, SubSeqProperties
    <3>3. QED BY <3>1, <3>2
  <2>6. QED BY <2>1, <2>2, <2>4, <2>5
<1>3. QED BY <1>1, <1>2

\* The space that is printed before a value is not read.
LEMMA TrimmedAgain ==
  ASSUME NEW x \in Str, x = <<>> \/ x[1] # Space
  PROVE  Trimmed(<<Space>> \o x) = x
<1> DEFINE c == <<Space>>
           s == c \o x
<1>1. Space \in Character BY SpaceIs
<1>2. s \in Str /\ s[1] = Space /\ From(s, 2) = x BY <1>1, Drop
<1>3. Len(s) = Len(x) + 1 /\ Len(x) \in Nat
  <2>1. c \in Str /\ Len(c) = 1 BY <1>1, StrOne
  <2> HIDE DEF c
  <2>2. Len(s) = Len(c) + Len(x) /\ Len(x) \in Nat BY <2>1, StrConcat, StrJoin
  <2> HIDE DEF s
  <2>3. QED BY <2>1, <2>2
<1>4. CASE x = <<>>
  <2>1. Len(x) = 0 BY <1>4, StrJoin
  <2> HIDE DEF s
  <2>2. Len(s) = 1 BY <1>3, <2>1
  <2>3. \A i \in 1..Len(s) : s[i] = Space BY <1>2, <2>2
  <2>4. FirstOther(s) = 0 BY <1>2, <2>3, FirstOtherIs
  <2>5. Trimmed(s) = <<>> BY <2>4, TrimmedDef
  <2>6. QED BY <1>4, <2>5 DEF s
<1>5. CASE x # <<>>
  <2>1. x[1] # Space /\ Len(x) # 0 BY <1>5, StrJoin
  <2>2. s[2] = x[1]
    <3> HIDE DEF s
    <3>1. From(s, 2) = SubSeq(s, 2, Len(s)) BY DEF From
    <3>2. SubSeq(s, 2, Len(s))[1] = s[2]
      <4>1. s \in Seq(Character) /\ 2 \in 1..(Len(s) + 1) /\ Len(s) \in Int /\ 2 <= Len(s)
        BY <1>2, <1>3, <2>1 DEF Str
      <4>2. QED BY <4>1, SubSeqProperties
    <3>3. QED BY <1>2, <3>1, <3>2
  <2> HIDE DEF s
  <2>3. 2 \in 1..Len(s) /\ s[2] # Space BY <1>3, <2>1, <2>2
  <2>4. FirstOther(s) \in 1..Len(s) /\ s[FirstOther(s)] # Space /\ FirstOther(s) <= 2
    BY <1>2, <2>3, FirstOtherIs
  <2>5. FirstOther(s) = 2 BY <1>2, <1>3, <2>4
  <2>6. Trimmed(s) = x BY <1>2, <2>5, TrimmedDef
  <2>7. QED BY <2>6 DEF s
<1>6. QED BY <1>4, <1>5

IsHeaderAgain(t, p) ==
  t \in Str /\ t # <<>> /\ NL \notin ToSet(t) /\ Find(t, ":") # 0 /\ NameAndValue(t) = p

\* A header printed is a line that is parsed to the header.
LEMMA HeaderAgain == ASSUME NEW p \in HeaderPair PROVE IsHeaderAgain(HeaderText[p], p)
<1> DEFINE k == p[1]
           v == p[2]
           b == <<Space>> \o v
           t == k \o <<":">> \o b
<1>1. /\ k \in Str /\ v \in Str /\ p = <<k, v>> /\ ":" \notin ToSet(k) /\ NL \notin ToSet(k)
      /\ NL \notin ToSet(v) /\ ToLower(k) = k /\ (v = <<>> \/ v[1] # Space) /\ p \in Str \X Str
  BY DEF HeaderPair
<1>2. HeaderText[p] = k \o <<":", Space>> \o v BY <1>1 DEF HeaderText
<1> HIDE DEF k, v
<1>3. Space \in Character /\ ":" \in Character /\ NL \notin {Space, ":"}
  BY SpaceIs, EscapeType DEF NL
<1>4. <<Space>> \in Str /\ ToSet(<<Space>>) = {Space} /\ <<":">> \in Str BY <1>3, StrOne
<1>5. b \in Str /\ ToSet(b) = {Space} \cup ToSet(v) BY <1>1, <1>4, StrConcat
<1>6. Trimmed(b) = v BY <1>1, TrimmedAgain
<1>7. HeaderText[p] = t
  <2> DEFINE g == <<":", Space>>
             c == <<":">>
             d == <<Space>>
  <2>1. IsRow(":", Space, ":", ":") BY <1>3, Row
  <2>2. c \o d = g BY <2>1 DEF IsRow
  <2>3. c \in Str /\ d \in Str BY <1>4
  <2>4. HeaderText[p] = k \o g \o v /\ t = k \o c \o (d \o v) BY <1>2
  <2>5. d \o v \in Str BY <1>5
  <2> HIDE DEF g, c, d, t, b
  <2>6. k \o g = (k \o c) \o d
    <3>1. k \in Str BY <1>1
    <3>2. (k \o c) \o d = k \o (c \o d) BY <2>3, <3>1, StrAssoc
    <3>3. QED BY <2>2, <3>2
  <2>7. k \o c \in Str BY <1>1, <2>3, StrConcat
  <2>8. ((k \o c) \o d) \o v = (k \o c) \o (d \o v) BY <1>1, <2>3, <2>7, StrAssoc
  <2>9. QED BY <2>4, <2>6, <2>8
<1> HIDE DEF b
<1>8. IsCut(t, k, ":", b) BY <1>1, <1>3, <1>5, CutBy
<1> HIDE DEF t
<1>9. t \in Str /\ t # <<>> /\ NL \notin ToSet(t) BY <1>1, <1>3, <1>5, <1>8 DEF IsCut
<1>10. Find(t, ":") # 0
  <2>1. Len(k) \in Nat BY <1>1, StrJoin
  <2>2. QED BY <1>8, <2>1 DEF IsCut
<1>11. NameAndValue(t) = <<k, v>>
  <2>1. Until(t, Find(t, ":")) = k /\ From(t, Find(t, ":") + 1) = b BY <1>8 DEF IsCut
  <2>2. QED BY <1>1, <1>6, <2>1 DEF NameAndValue
<1>12. QED BY <1>1, <1>7, <1>9, <1>10, <1>11 DEF IsHeaderAgain

\* Every header that was parsed can be printed and parsed again.
LEMMA HeaderParsed ==
  ASSUME NEW l \in Str, NL \notin ToSet(l), Find(l, ":") # 0
  PROVE  NameAndValue(l) \in HeaderPair
<1> DEFINE name == Until(l, Find(l, ":"))
           value == From(l, Find(l, ":") + 1)
<1>1. /\ name \in Str /\ value \in Str /\ ":" \notin ToSet(name)
      /\ ToSet(name) \subseteq ToSet(l) /\ ToSet(value) \subseteq ToSet(l)
  BY CutAt
<1>2. NameAndValue(l) = <<ToLower(name), Trimmed(value)>> BY DEF NameAndValue
<1> HIDE DEF name, value
<1>3. /\ ToLower(name) \in Str /\ ToLower(ToLower(name)) = ToLower(name)
      /\ ":" \notin ToSet(ToLower(name)) /\ NL \notin ToSet(ToLower(name))
  BY <1>1, Lowered
<1>4. /\ Trimmed(value) \in Str /\ NL \notin ToSet(Trimmed(value))
      /\ Trimmed(value) = <<>> \/ Trimmed(value)[1] # Space
  BY <1>1, Trimming
<1> DEFINE k == ToLower(name)
           v == Trimmed(value)
<1>5. /\ k \in Str /\ ToLower(k) = k /\ ":" \notin ToSet(k) /\ NL \notin ToSet(k)
      /\ v \in Str /\ NL \notin ToSet(v) /\ (v = <<>> \/ v[1] # Space)
  BY <1>3, <1>4
<1> HIDE DEF k, v
<1>6. <<k, v>> \in HeaderPair BY <1>5 DEF HeaderPair
<1>7. QED BY <1>2, <1>6 DEF k, v

(***************************************************************************)
(* The lines of the headers                                                *)
(***************************************************************************)
\* Where the first empty line is.
FirstEmpty(lines) == SelectInSeq(lines, LAMBDA l : l = <<>>)

\* The header lines end before the first empty one.
LEMMA HeaderLinesDef ==
  \A h : HeaderLines(h) =
           LET lines == Front(Split(h, NL))
           IN  IF FirstEmpty(lines) = 0 THEN lines ELSE Until(lines, FirstEmpty(lines))
BY DEF HeaderLines, FirstEmpty

\* FirstEmpty is 0 when no line is empty.
LEMMA FirstEmptyIs ==
  ASSUME NEW lines \in Seq(Str)
  PROVE  /\ FirstEmpty(lines) \in 0..Len(lines)
         /\ (\A i \in 1..Len(lines) : lines[i] # <<>>) => FirstEmpty(lines) = 0
<1> DEFINE I == {i \in 1..Len(lines) : lines[i] = <<>>}
<1>1. FirstEmpty(lines) = IF I # {} THEN Min(I) ELSE 0 BY DEF FirstEmpty, SelectInSeq
<1>2. Len(lines) \in Nat OBVIOUS
<1>3. I \in SUBSET Nat /\ I \subseteq 1..Len(lines) BY <1>2
<1>4. (\A i \in 1..Len(lines) : lines[i] # <<>>) => I = {} OBVIOUS
<1> HIDE DEF I
<1>5. I # {} => Min(I) \in I BY <1>3, LeastNatural DEF Min
<1>6. QED BY <1>1, <1>2, <1>3, <1>4, <1>5

\* The lines are texts without the end of a line.
LEMMA HeaderLinesAre ==
  ASSUME NEW h \in Str
  PROVE  HeaderLines(h) \in Seq({l \in Str : NL \notin ToSet(l)})
<1> DEFINE S == {l \in Str : NL \notin ToSet(l)}
           parts == Split(h, NL)
           lines == Front(parts)
           e == FirstEmpty(lines)
<1>1. NL \in Character BY EscapeType
<1>2. IsSplit(parts, h, NL) BY <1>1, SplitType
<1>3. HeaderLines(h) = IF e = 0 THEN lines ELSE Until(lines, e) BY HeaderLinesDef
<1>4. lines = SubSeq(parts, 1, Len(parts) - 1) BY DEF Front
<1> HIDE DEF parts, lines
<1>5. Len(parts) \in Nat /\ \A i \in 1..Len(parts) : parts[i] \in S BY <1>2 DEF IsSplit
<1>6. lines \in Seq(S)
  <2> HIDE DEF S
  <2>1. \A i \in 1..(Len(parts) - 1) : parts[i] \in S BY <1>5
  <2>2. SubSeq(parts, 1, Len(parts) - 1) \in Seq(S) BY <1>5, <2>1, SubSeqProperties
  <2>3. QED BY <1>4, <2>2
<1>7. lines \in Seq(Str) BY <1>6
<1>8. e \in 0..Len(lines) /\ Len(lines) \in Nat BY <1>7, FirstEmptyIs
<1> HIDE DEF e
<1>9. Until(lines, e) \in Seq(S)
  <2> HIDE DEF S
  <2>1. \A i \in 1..(e - 1) : lines[i] \in S BY <1>6, <1>8
  <2>2. SubSeq(lines, 1, e - 1) \in Seq(S) BY <1>8, <2>1, SubSeqProperties
  <2>3. QED BY <2>2 DEF Until
<1>10. QED BY <1>3, <1>6, <1>9

\* Headers that are accepted are pairs of a name in lower case and a trimmed value.
LEMMA HeadersParsed ==
  ASSUME NEW h \in Str, IsHeaders(h)
  PROVE  \E pairs \in Seq(HeaderPair) : Headers(h) = Emplaced(pairs)
<1> DEFINE lines == HeaderLines(h)
           pairs == [i \in DOMAIN lines |-> NameAndValue(lines[i])]
<1>1. Headers(h) = Emplaced(pairs) BY DEF Headers
<1>2. \A l \in ToSet(lines) : Find(l, ":") # 0 BY DEF IsHeaders
<1>3. lines \in Seq({l \in Str : NL \notin ToSet(l)}) BY HeaderLinesAre
<1> HIDE DEF lines
<1>4. Len(lines) \in Nat /\ DOMAIN lines = 1..Len(lines) BY <1>3
<1>5. ASSUME NEW i \in 1..Len(lines) PROVE NameAndValue(lines[i]) \in HeaderPair
  <2>1. lines[i] \in Str /\ NL \notin ToSet(lines[i]) BY <1>3
  <2>2. Find(lines[i], ":") # 0 BY <1>2, <1>4 DEF ToSet
  <2>3. QED BY <2>1, <2>2, HeaderParsed
<1>6. pairs \in Seq(HeaderPair) BY <1>4, <1>5
<1>7. QED BY <1>1, <1>6

(***************************************************************************)
(* Headers that are printed and parsed again                               *)
(***************************************************************************)
ListedHeaders(P) == Joined(Mapped(HeaderText, Listing(P)), NL)

\* Headers are printed line by line.
LEMMA HeadersPrintedAs ==
  ASSUME NEW P, NEW S \in SUBSET (Str \X Str), IsListing(P, Listing(P), S)
  PROVE  PrintedHeaders(P) = ListedHeaders(P)
<1> DEFINE K == SetToSeq(DOMAIN P)
           Q == Listing(P)
<1>1. Q = [i \in DOMAIN K |-> <<K[i], P[K[i]]>>] BY DEF Listing
<1>2. \A i \in DOMAIN Q : Q[i] \in Str \X Str BY DEF IsListing
<1> HIDE DEF K, Q
<1>3. ASSUME NEW i \in DOMAIN K PROVE HeaderText[Q[i]] = K[i] \o <<":", Space>> \o P[K[i]]
  <2>1. Q[i] = <<K[i], P[K[i]]>> /\ Q[i] \in Str \X Str BY <1>1, <1>2
  <2>2. HeaderText[Q[i]] = Q[i][1] \o <<":", Space>> \o Q[i][2] BY <2>1 DEF HeaderText
  <2>3. Q[i][1] = K[i] /\ Q[i][2] = P[K[i]] BY <2>1
  <2>4. QED BY <2>2, <2>3, Zenon
<1>4. DOMAIN Q = DOMAIN K BY <1>1
<1>5. Mapped(HeaderText, Q) = [i \in DOMAIN K |-> K[i] \o <<":", Space>> \o P[K[i]]]
  BY <1>3, <1>4 DEF Mapped
<1>6. PrintedHeaders(P) = Joined([i \in DOMAIN K |-> K[i] \o <<":", Space>> \o P[K[i]]], NL)
  BY DEF PrintedHeaders, K, Space
<1>7. QED BY <1>5, <1>6 DEF ListedHeaders, Q

\* The texts of lines that are not empty.
FullLine == {l \in Str : l # <<>> /\ NL \notin ToSet(l)}

\* Lines that are not empty have no empty line between them.
LEMMA JoinedHasNoGap ==
  \A parts \in Seq(FullLine) : parts # <<>> => NoGap(Joined(parts, NL))
<1> DEFINE P == {parts \in Seq(FullLine) : parts # <<>> => NoGap(Chain(parts, <<NL>>))}
<1>1. NL \in Character /\ <<NL>> \in Str BY EscapeType, StrOne
<1>2. \A parts \in Seq(FullLine) : parts \in Seq(Str) BY DEF FullLine
<1>3. <<>> \in P BY EmptySeq
<1>4. ASSUME NEW q \in P, NEW t \in FullLine PROVE Append(q, t) \in P
  <2>1. q \in Seq(FullLine) /\ q \in Seq(Str) /\ t \in Str /\ t # <<>> /\ NL \notin ToSet(t)
    BY <1>2 DEF FullLine
  <2>2. Append(q, t) \in Seq(FullLine) BY <2>1, AppendProperties
  <2>3. NoGap(t) BY <2>1, LineHasNoGap
  <2> DEFINE s == Chain(q, <<NL>>)
             r == Chain(Append(q, t), <<NL>>)
  <2>4. r = IF q = <<>> THEN t ELSE s \o <<NL>> \o t BY <1>1, <2>1, ChainEnd
  <2>5. q # <<>> => NoGap(s) OBVIOUS
  <2> HIDE DEF s, r
  <2>6. q # <<>> => NoGap(s \o <<NL>> \o t) BY <2>3, <2>5, TwoHaveNoGap
  <2>7. NoGap(r) BY <2>3, <2>4, <2>6
  <2>8. QED BY <2>2, <2>7 DEF r
<1>5. P \in SUBSET Seq(FullLine) OBVIOUS
<1> HIDE DEF P
<1>6. \A parts \in Seq(FullLine) : parts \in P BY <1>3, <1>4, <1>5, ByAppending
<1>7. QED BY <1>6, JoinedIsChain DEF P

\* Lines that are joined are the lines of the headers again.
LEMMA LinesRead ==
  ASSUME NEW parts \in Seq(FullLine), parts # <<>>
  PROVE  HeaderLines(Joined(parts, NL) \o <<NL>>) = parts
<1> DEFINE X == Character \ {NL}
           h == Joined(parts, NL)
           g == h \o <<NL>>
           more == parts \o << <<>> >>
<1>1. NL \in Character /\ <<NL>> \in Str /\ <<>> \in Str /\ NL \notin ToSet(<<>>)
  BY EscapeType, StrOne, StrJoin, ToSetOf
<1>2. parts \in Seq(Over(X)) /\ parts \in Seq(Str) /\ Len(parts) \in Nat
  <2>1. ASSUME NEW l \in FullLine PROVE l \in Over(X) /\ l \in Str
    <3>1. ToSet(l) \subseteq Character BY DEF FullLine, Str, ToSet
    <3>2. QED BY <3>1 DEF FullLine, Over
  <2> HIDE DEF X
  <2>2. \A i \in 1..Len(parts) : parts[i] \in Over(X) /\ parts[i] \in Str BY <2>1
  <2>3. parts \in Seq(Over(X)) BY <2>2
  <2>4. parts \in Seq(Str) BY <2>2
  <2>5. QED BY <2>3, <2>4
<1>3. h \in Str /\ Split(h, NL) = parts
  <2>1. IsJoined(h, parts, NL, X) BY <1>1, <1>2, Joining
  <2>2. NL \notin X OBVIOUS
  <2> HIDE DEF h, X
  <2>3. QED BY <2>1, <2>2 DEF IsJoined, Over
<1> HIDE DEF h
<1>4. Split(g, NL) = more
  <2>1. Split(h \o <<NL>> \o <<>>, NL) = Split(h, NL) \o << <<>> >> BY <1>1, <1>3, SplitLast
  <2>2. g \in Str BY <1>1, <1>3, StrConcat
  <2>3. g \o <<>> = g BY <2>2, StrJoin
  <2>4. QED BY <1>3, <2>1, <2>3
<1>5. << <<>> >> \in Seq(Str) /\ Len(<< <<>> >>) = 1
  <2> DEFINE n == <<>>
  <2>1. n \in Str BY <1>1
  <2> HIDE DEF n
  <2>2. <<n>> \in Seq(Str) /\ Len(<<n>>) = 1 BY <2>1
  <2>3. QED BY <2>2 DEF n
<1>6. Front(more) = parts
  <2> DEFINE o == << <<>> >>
  <2>1. o \in Seq(Str) /\ Len(o) = 1 BY <1>5
  <2> HIDE DEF o
  <2>2. /\ parts \o o \in Seq(Str) /\ Len(parts \o o) = Len(parts) + 1
        /\ \A i \in 1..Len(parts) : (parts \o o)[i] = parts[i]
    BY <1>2, <2>1, ConcatProperties
  <2> DEFINE m == parts \o o
             f == SubSeq(m, 1, Len(m) - 1)
  <2>3. Len(m) - 1 = Len(parts) /\ m \in Seq(Str) /\ \A i \in 1..Len(parts) : m[i] = parts[i]
    BY <1>2, <2>2
  <2> HIDE DEF m
  <2>4. \A i \in 1..Len(parts) : m[i] \in Str BY <1>2, <2>3
  <2>5. /\ SubSeq(m, 1, Len(parts)) \in Seq(Str)
        /\ Len(SubSeq(m, 1, Len(parts))) = IF 1 <= Len(parts) THEN Len(parts) - 1 + 1 ELSE 0
        /\ \A i \in 1..(Len(parts) - 1 + 1) : SubSeq(m, 1, Len(parts))[i] = m[1 + i - 1]
    BY <1>2, <2>4, SubSeqProperties
  <2>6. f \in Seq(Str) /\ Len(f) = Len(parts) /\ \A i \in 1..Len(parts) : f[i] = m[i]
    BY <1>2, <2>3, <2>5
  <2> HIDE DEF f
  <2>7. \A i \in 1..Len(parts) : f[i] = parts[i] BY <2>3, <2>6
  <2>8. f = parts BY <1>2, <2>6, <2>7, SeqEqual
  <2>9. more = m BY DEF m, o
  <2>10. QED BY <2>8, <2>9 DEF Front, f
<1>7. \A i \in 1..Len(parts) : parts[i] # <<>> BY DEF FullLine
<1>8. FirstEmpty(parts) = 0 BY <1>2, <1>7, FirstEmptyIs
<1>9. HeaderLines(g) = parts BY <1>4, <1>6, <1>8, HeaderLinesDef
<1>10. QED BY <1>9 DEF h

IsHeadersAgain(P) ==
  IF P = <<>> THEN PrintedHeaders(P) = <<>>
  ELSE /\ NoGap(PrintedHeaders(P)) /\ IsHeaders(PrintedHeaders(P) \o <<NL>>)
       /\ Headers(PrintedHeaders(P) \o <<NL>>) = P

\* Headers printed are parsed to what they were.
LEMMA HeadersAgain == ASSUME NEW pairs \in Seq(HeaderPair) PROVE IsHeadersAgain(Emplaced(pairs))
<1> DEFINE P == Emplaced(pairs)
           Q == Listing(P)
           parts == Mapped(HeaderText, Q)
           h == PrintedHeaders(P)
           lines == HeaderLines(h \o <<NL>>)
<1>1. HeaderPair \in SUBSET (Str \X Str) BY DEF HeaderPair
<1>2. IsListing(P, Q, HeaderPair) BY <1>1, ListingIs
<1> HIDE DEF P
<1>3. h = Joined(parts, NL) BY <1>1, <1>2, HeadersPrintedAs DEF ListedHeaders
<1>4. Q \in Seq(HeaderPair) /\ Emplaced(Q) = P /\ (Q = <<>> <=> P = <<>>) BY <1>2 DEF IsListing
<1> HIDE DEF Q, h
<1>5. Len(Q) \in Nat /\ DOMAIN Q = 1..Len(Q) /\ (Len(Q) = 0 <=> Q = <<>>)
      /\ \A i \in 1..Len(Q) : Q[i] \in HeaderPair
  BY <1>4, EmptySeq
<1>6. parts = [i \in 1..Len(Q) |-> HeaderText[Q[i]]] BY <1>5 DEF Mapped
<1> HIDE DEF parts
<1>7. \A i \in 1..Len(Q) : parts[i] = HeaderText[Q[i]] /\ IsHeaderAgain(parts[i], Q[i])
  BY <1>5, <1>6, HeaderAgain
<1>8. parts \in Seq(FullLine)
  <2>1. \A i \in 1..Len(Q) : parts[i] \in FullLine BY <1>7 DEF IsHeaderAgain, FullLine
  <2>2. QED BY <1>5, <1>6, <2>1
<1>9. Len(parts) = Len(Q) BY <1>5, <1>6
<1>10. parts = <<>> <=> Q = <<>>
  <2>1. Len(parts) = 0 <=> parts = <<>> BY <1>8, EmptySeq
  <2>2. QED BY <1>5, <1>9, <2>1
<1>11. CASE P = <<>>
  <2>1. parts = <<>> BY <1>4, <1>10, <1>11
  <2>2. IsJoined(Joined(parts, NL), parts, NL, {})
    <3>1. <<>> \in Seq(Over({})) /\ NL \in Character BY EmptySeq, EscapeType
    <3>2. QED BY <2>1, <3>1, Joining
  <2>3. h = <<>> BY <1>3, <2>1, <2>2 DEF IsJoined
  <2>4. QED BY <1>11, <2>3 DEF IsHeadersAgain, h, P
<1>12. CASE P # <<>>
  <2>1. parts # <<>> BY <1>4, <1>10, <1>12
  <2>2. NoGap(h) BY <1>3, <1>8, <2>1, JoinedHasNoGap
  <2>3. lines = parts BY <1>3, <1>8, <2>1, LinesRead
  <2>4. IsHeaders(h \o <<NL>>)
    <3>1. ASSUME NEW l \in ToSet(parts) PROVE Find(l, ":") # 0
      <4>1. PICK i \in 1..Len(Q) : l = parts[i] BY <1>8, <1>9 DEF ToSet
      <4>2. QED BY <1>7, <4>1 DEF IsHeaderAgain
    <3>2. QED BY <2>3, <3>1 DEF IsHeaders
  <2>5. Headers(h \o <<NL>>) = P
    <3>1. Headers(h \o <<NL>>) = Emplaced([i \in DOMAIN lines |-> NameAndValue(lines[i])]) BY DEF Headers
    <3> HIDE DEF lines
    <3>2. DOMAIN parts = 1..Len(Q) BY <1>6
    <3>3. \A i \in 1..Len(Q) : NameAndValue(parts[i]) = Q[i] BY <1>7 DEF IsHeaderAgain
    <3>4. [i \in DOMAIN lines |-> NameAndValue(lines[i])] = [i \in 1..Len(Q) |-> Q[i]]
      BY <2>3, <3>2, <3>3
    <3>5. Q = [i \in 1..Len(Q) |-> Q[i]] BY <1>4, <1>5
    <3>6. QED BY <1>4, <3>1, <3>4, <3>5
  <2>6. QED BY <1>12, <2>2, <2>4, <2>5 DEF IsHeadersAgain, h, P
<1>13. QED BY <1>11, <1>12

(***************************************************************************)
(* Requests that are printed and parsed again                              *)
(***************************************************************************)
\* The parts of a text that has an end of the headers.
LEMMA PartsOfText ==
  ASSUME NEW t \in Str, Ends(t) # {}
  PROVE  LineOf(t) \in Str /\ NL \notin ToSet(LineOf(t)) /\ HeadersOf(t) \in Str
<1> DEFINE f == Find(t, NL)
           e == Min(Ends(t))
<1>1. Len(t) \in Nat BY StrJoin
<1>2. PICK i \in 1..(Len(t) - 1) : t[i] = NL BY DEF Ends
<1>3. NL \in ToSet(t) BY <1>1, <1>2 DEF ToSet, Str
<1>4. f \in Nat /\ f # 0 BY <1>3, FindDef
<1>5. LineOf(t) \in Str /\ NL \notin ToSet(LineOf(t)) BY <1>4, CutAt DEF LineOf
<1>6. e \in 1..(Len(t) - 1)
  <2>1. Ends(t) \in SUBSET Nat /\ Ends(t) \subseteq 1..(Len(t) - 1) BY <1>1 DEF Ends
  <2>2. e \in Ends(t) BY <2>1, LeastNatural DEF Min
  <2>3. QED BY <2>1, <2>2
<1>7. HeadersOf(t) = SubSeq(t, f + 1, e) BY DEF HeadersOf, Ends
<1> HIDE DEF f, e
<1>8. \A j \in (f + 1)..e : t[j] \in Character BY <1>1, <1>4, <1>6 DEF Str
<1>9. SubSeq(t, f + 1, e) \in Seq(Character) BY <1>4, <1>6, <1>8, SubSeqProperties
<1>10. QED BY <1>5, <1>7, <1>9 DEF Str

\* What is known of a request that was parsed.
LEMMA RequestParsed ==
  ASSUME NEW t \in Str, Ends(t) # {}, IsRequest(t)
  PROVE  /\ \E pairs : IsParsedLine(Request(t).line, pairs)
         /\ \E pairs \in Seq(HeaderPair) : Request(t).headers = Emplaced(pairs)
         /\ Request(t) = [line |-> Request(t).line, headers |-> Request(t).headers]
<1>1. LineOf(t) \in Str /\ NL \notin ToSet(LineOf(t)) /\ HeadersOf(t) \in Str BY PartsOfText
<1>2. IsRequestLine(LineOf(t)) /\ IsHeaders(HeadersOf(t)) BY DEF IsRequest
<1>3. Request(t).line = RequestLine(LineOf(t)) /\ Request(t).headers = Headers(HeadersOf(t))
      /\ Request(t) = [line |-> Request(t).line, headers |-> Request(t).headers]
  BY DEF Request
<1>4. \E pairs : IsParsedLine(RequestLine(LineOf(t)), pairs) BY <1>1, <1>2, LineParsed
<1>5. \E pairs \in Seq(HeaderPair) : Headers(HeadersOf(t)) = Emplaced(pairs) BY <1>1, <1>2, HeadersParsed
<1>6. QED BY <1>3, <1>4, <1>5

\* A parsed request, printed, is parsed to itself if no escape or blank was decoded.
LEMMA RequestAgain ==
  ASSUME NEW t \in Str, Ends(t) # {}, IsRequest(t), NEW r, r = Request(t), Plain(r.line.url),
         \A k \in DOMAIN r.line.params : Plain(k) /\ Plain(r.line.params[k])
  PROVE  Request(Printed(r)) = r
<1> DEFINE line == r.line
           P == r.headers
           l == PrintedLine(line)
           h == PrintedHeaders(P)
           p == Printed(r)
<1>1. PICK pairs : IsParsedLine(line, pairs) BY RequestParsed
<1>2. PICK heads \in Seq(HeaderPair) : P = Emplaced(heads) BY RequestParsed
<1>3. r = [line |-> line, headers |-> P] BY RequestParsed
<1>4. Plain(line.url) /\ \A k \in DOMAIN line.params : Plain(k) /\ Plain(line.params[k]) OBVIOUS
<1>5. p = l \o <<NL>> \o h \o <<NL, NL>> BY DEF Printed
<1> HIDE DEF line, P
<1>6. IsLineAgain(l, line) BY <1>1, <1>4, LinePrinted
<1>7. IsHeadersAgain(P) BY <1>2, HeadersAgain
<1> HIDE DEF l, h, p
<1>8. l \in Str /\ l # <<>> /\ NL \notin ToSet(l) /\ RequestLine(l) = line BY <1>6 DEF IsLineAgain
<1>9. LineOf(p) = l /\ Headers(HeadersOf(p)) = P
  <2>1. CASE P = <<>>
    <3>1. h = <<>> BY <1>7, <2>1 DEF IsHeadersAgain, h
    <3>2. p = l \o <<NL, NL>> \o <<NL>>
      <4> DEFINE o == <<NL>>
                 d == <<NL, NL>>
      <4>1. NL \in Character BY EscapeType
      <4>2. o \in Str /\ o \o o = d /\ o \o d = <<NL, NL, NL>> /\ d \o o = <<NL, NL, NL>>
        <5>1. o \in Str BY <4>1, StrOne
        <5>2. IsRow(NL, NL, NL, NL) BY <4>1, Row
        <5>3. o \o o = d /\ o \o d = <<NL, NL, NL>> BY <5>2 DEF IsRow
        <5> HIDE DEF o
        <5>4. (o \o o) \o o = o \o (o \o o) BY <5>1, StrAssoc
        <5>5. QED BY <5>1, <5>3, <5>4
      <4> HIDE DEF o, d
      <4>3. d \in Str BY <4>2, StrConcat
      <4>4. l \o o \in Str /\ l \o o \o h = l \o o
        <5>1. l \o o \in Str BY <1>8, <4>2, StrConcat
        <5>2. QED BY <3>1, <5>1, StrJoin
      <4>5. (l \o o) \o d = l \o (o \o d) BY <1>8, <4>2, <4>3, StrAssoc
      <4>6. (l \o d) \o o = l \o (d \o o) BY <1>8, <4>2, <4>3, StrAssoc
      <4>7. p = l \o o \o h \o d BY <1>5 DEF o, d
      <4>8. p = (l \o d) \o o BY <4>2, <4>4, <4>5, <4>6, <4>7
      <4>9. QED BY <4>8 DEF o, d
    <3>3. <<NL>> \in Str BY EscapeType, StrOne
    <3>4. LineOf(p) = l /\ HeadersOf(p) = <<>> BY <1>8, <3>2, <3>3, NoHeaders
    <3>5. QED BY <2>1, <3>4, NoHeadersRead
  <2>2. CASE P # <<>>
    <3>1. NoGap(h) /\ Headers(h \o <<NL>>) = P BY <1>7, <2>2 DEF IsHeadersAgain, h
    <3>2. LineOf(p) = l /\ HeadersOf(p) = h \o <<NL>> BY <1>5, <1>8, <3>1, SomeHeaders
    <3>3. QED BY <3>1, <3>2
  <2>3. QED BY <2>1, <2>2
<1>10. Request(p) = [line |-> RequestLine(LineOf(p)), headers |-> Headers(HeadersOf(p))] BY DEF Request
<1>11. Request(p) = r BY <1>3, <1>8, <1>9, <1>10
<1>12. QED BY <1>11 DEF p

\* What was read prints back.
LEMMA ItPrintsBack == ASSUME ReadInv PROVE PrintsBack
<1> SUFFICES
      ASSUME pc = "parsed", Plain(request.line.url),
             \A k \in DOMAIN request.line.params : Plain(k) /\ Plain(request.line.params[k])
      PROVE  Request(Printed(request)) = request
  BY DEF PrintsBack
<1>1. text \in Str /\ Ends(text) # {} BY DEF ReadInv, TextKnown
<1>2. IsRequest(text) /\ request = Request(text) BY DEF ReadInv, ReadKnown
<1>3. QED BY <1>1, <1>2, RequestAgain

\* A request that was parsed, printed by to_string and parsed again is the same
\* request, if nothing in its path and parameters looks like an escape or a blank or
\* ends a line, which would end the request line.
THEOREM AlwaysPrintsBack == Spec => []PrintsBack
<1>1. Init => ReadInv BY InitRead
<1>2. ReadInv /\ [Next]_vars => ReadInv' BY NextRead
<1>3. ReadInv => PrintsBack BY ItPrintsBack
<1>4. QED BY <1>1, <1>2, <1>3, PTL DEF Spec

(***************************************************************************)
(* The looks of on_request.  What a look has found was true of a moment of *)
(* the request, and seen keeps that moment: this is all that a later look  *)
(* can rely on.                                                            *)
(***************************************************************************)
TargetKnown ==
  /\ target \in {"path", "index"}
  /\ pc \in {"read", "parsed", "exists", "canonical", "is_directory"} => target = "path"
  /\ pc = "index" => target = "index" /\ \E d \in seen : d.kind = "dir"

FoundKnown ==
  /\ pc \in {"exists_again", "file_size", "open"} /\ target = "index" =>
       \E d \in seen : d.kind = "dir" /\ Exists(d.index)
  /\ pc \in {"exists_again", "file_size"} /\ target = "path" => \E e \in seen : e.kind # "dir"

AnnouncedKnown ==
  /\ pc = "open" =>
       /\ answer.status = 200 /\ request.line.method # "HEAD"
       /\ \E e \in seen : Whole(e) /\ Wanted(e) = target /\ answer.length = FileOf(e).size
  /\ pc = "sendfile" =>
       /\ answer.status = 200
       /\ \E e \in seen, f \in seen : /\ Whole(e) /\ answer.length = FileOf(e).size
                                     /\ At(f, Wanted(e)).kind = "dir"

LooksInv ==
  /\ seen \subseteq Entries /\ entry \in seen
  /\ TargetKnown /\ FoundKnown /\ AnnouncedKnown /\ AnswerWasTrue

(***************************************************************************)
(* Entries                                                                 *)
(***************************************************************************)
LEMMA LeafKinds == \A e \in Leaves : e.kind \in {"absent", "denied", "file"}
BY DEF Leaves, Files, Absent, Denied

\* Every entry is of one kind, and its index is neither outside nor has an index.
LEMMA Kinds ==
  ASSUME NEW e \in Entries
  PROVE  /\ e.kind \in {"absent", "denied", "file", "dir", "outside"}
         /\ e.kind = "outside" <=> e = Outside
         /\ e.kind = "dir" => e.index.kind \in {"absent", "denied", "file", "dir"}
<1>1. CASE e \in Leaves
  <2>1. e.kind \in {"absent", "denied", "file"} BY <1>1, LeafKinds
  <2>2. QED BY <2>1 DEF Outside
<1>2. CASE e \in Directories
  <2>1. PICK i \in Leaves \cup {[kind |-> "dir"]} : e = [kind |-> "dir", index |-> i]
    BY <1>2 DEF Directories
  <2>2. e.kind = "dir" /\ e.index = i BY <2>1
  <2>3. i.kind \in {"absent", "denied", "file", "dir"} BY LeafKinds
  <2>4. QED BY <2>2, <2>3 DEF Outside
<1>3. CASE e = Outside
  BY <1>3 DEF Outside
<1>4. QED BY <1>1, <1>2, <1>3 DEF Entries

\* What the path and its index name.
LEMMA Named ==
  ASSUME NEW e \in Entries
  PROVE  /\ At(e, "path") = e
         /\ e.kind = "dir" => At(e, "index") = e.index /\ Wanted(e) = "index"
         /\ e.kind # "dir" => Wanted(e) = "path" /\ At(e, "index").kind \in {"absent", "denied"}
         /\ At(e, "index").kind \in {"absent", "denied", "file", "dir"}
<1>1. "path" # "index" OBVIOUS
<1>2. Absent.kind = "absent" /\ Denied.kind = "denied" BY DEF Absent, Denied
<1>3. QED BY <1>1, <1>2, Kinds DEF At, Wanted

\* The file that is looked at is the file of the entry only if the entry is what
\* it was taken for; then its status is the one that FileOf gives.
LEMMA StatusOfEntry ==
  ASSUME NEW e \in Entries
  PROVE  /\ e.kind = "absent" => AtomicStatus(e) = 404 /\ ~Whole(e)
         /\ e.kind = "denied" => AtomicStatus(e) = 403 /\ ~Whole(e)
         /\ e.kind = "outside" => AtomicStatus(e) = 400 /\ ~Whole(e)
         /\ e.kind = "file" => Whole(e) /\ FileOf(e) = e
         /\ e.kind = "dir" =>
              /\ FileOf(e) = e.index /\ (Whole(e) <=> e.index.kind = "file")
              /\ e.index.kind = "absent" => AtomicStatus(e) = 403
              /\ e.index.kind = "denied" => AtomicStatus(e) = 500
         /\ Whole(e) =>
              AtomicStatus(e) =
                IF request.line.method = "HEAD" \/ Opens(FileOf(e)) THEN 200 ELSE 500
<1>1. e.kind # "dir" => FileOf(e) = e BY Named DEF FileOf
<1>2. e.kind = "dir" => FileOf(e) = e.index BY Named DEF FileOf
<1>3. QED BY <1>1, <1>2, Kinds DEF AtomicStatus, Whole

\* A file is found under the target only if the entry is of the kind that the
\* target was chosen for.
LEMMA FileFound ==
  ASSUME NEW e \in Entries, NEW t \in {"path", "index"}, At(e, t).kind = "file"
  PROVE  Whole(e) /\ Wanted(e) = t /\ FileOf(e) = At(e, t)
<1>1. CASE t = "path" BY <1>1, Named, StatusOfEntry
<1>2. CASE t = "index" BY <1>2, Named, StatusOfEntry
<1>3. QED BY <1>1, <1>2

(***************************************************************************)
(* Ways to end                                                             *)
(***************************************************************************)
LEMMA NotYet == ASSUME pc \notin {"answered", "thrown"} PROVE AnswerWasTrue
BY DEF AnswerWasTrue

\* An answer that was true of a moment.
LEMMA TrueAnswer ==
  ASSUME UNCHANGED <<request, seen>>, pc' = "answered",
         \/ \E e \in seen : answer'.status = AtomicStatus(e)
         \/ Torn(answer'.status)
         \/ request.line.method \notin Served,
         answer'.status = 200 => \E e \in seen : Whole(e) /\ answer'.length = FileOf(e).size
  PROVE  AnswerWasTrue'
<1>1. \A e : AtomicStatus(e)' = AtomicStatus(e) BY DEF AtomicStatus
<1>2. \A s : Torn(s)' = Torn(s) BY DEF Torn
<1>3. Torn(answer.status)' <=> Torn(answer'.status) BY <1>2 DEF Torn
<1>4. QED BY <1>1, <1>3 DEF AnswerWasTrue

\* An exception that a moment without the file, or a change of it, explains.
LEMMA TrueThrow ==
  ASSUME UNCHANGED seen, pc' = "thrown",
         \E e \in seen, f \in seen : ~Whole(e) \/ Wanted(e) # Wanted(f)
  PROVE  AnswerWasTrue'
BY DEF AnswerWasTrue

(***************************************************************************)
(* The steps                                                               *)
(***************************************************************************)
LEMMA InitLooks == Init => LooksInv
<1> SUFFICES ASSUME Init PROVE LooksInv OBVIOUS
<1>1. pc = "read" /\ target = "path" /\ seen = {entry} BY DEF Init
<1>2. entry \in Entries BY DEF Init, Entries, Leaves
<1>3. AnswerWasTrue BY <1>1, NotYet
<1>4. QED BY <1>1, <1>2, <1>3 DEF LooksInv, TargetKnown, FoundKnown, AnnouncedKnown

\* What most steps of on_request leave alone.
Looked == UNCHANGED <<request, entry, target, seen>>

LEMMA BeginLooks == ASSUME LooksInv, Begin PROVE LooksInv'
<1>1. Looked /\ pc = "parsed" BY DEF Begin, Looked
<1>2. CASE request.line.method \in Served
  <2>1. pc' = "exists" BY <1>2 DEF Begin, GoOn
  <2>2. AnswerWasTrue' BY <2>1 DEF AnswerWasTrue
  <2>3. target = "path" BY <1>1 DEF LooksInv, TargetKnown
  <2>4. QED BY <1>1, <2>1, <2>2, <2>3 DEF LooksInv, Looked, TargetKnown, FoundKnown, AnnouncedKnown
<1>3. CASE request.line.method \notin Served
  <2>1. pc' = "answered" /\ answer'.status = 405
    BY <1>3 DEF Begin, Refuse, Answer, Response
  <2>2. AnswerWasTrue' BY <1>1, <1>3, <2>1, TrueAnswer DEF Looked
  <2>3. QED BY <1>1, <2>1, <2>2 DEF LooksInv, Looked, TargetKnown, FoundKnown, AnnouncedKnown
<1>4. QED BY <1>2, <1>3

LEMMA ParseLooks == ASSUME LooksInv, Parse PROVE LooksInv'
<1>1. pc = "read" /\ pc' \in {"parsed", "rejected"} /\ UNCHANGED <<entry, target, seen>>
  BY DEF Parse
<1>2. AnswerWasTrue' BY <1>1 DEF AnswerWasTrue
<1>3. QED BY <1>1, <1>2 DEF LooksInv, TargetKnown, FoundKnown, AnnouncedKnown

\* An answer or an exception ends the looks.
LEMMA Ended ==
  ASSUME LooksInv, Looked, pc' \in {"answered", "exhausted", "thrown"}, AnswerWasTrue'
  PROVE  LooksInv'
BY DEF LooksInv, Looked, TargetKnown, FoundKnown, AnnouncedKnown

LEMMA FirstExistsLooks == ASSUME LooksInv, FirstExists PROVE LooksInv'
<1>1. Looked /\ pc = "exists" BY DEF FirstExists, Looked
<1>2. target = "path" /\ entry \in seen /\ entry \in Entries
  BY <1>1 DEF LooksInv, TargetKnown
<1>3. File = entry BY <1>2, Named DEF File
<1>4. CASE Exists(File)
  <2>1. pc' = "canonical" BY <1>4 DEF FirstExists, GoOn
  <2>2. AnswerWasTrue' BY <2>1 DEF AnswerWasTrue
  <2>3. QED BY <1>1, <1>2, <2>1, <2>2 DEF LooksInv, Looked, TargetKnown, FoundKnown, AnnouncedKnown
<1>5. CASE ~Exists(File)
  <2>1. pc' = "answered" /\ answer'.status = IF entry.kind = "denied" THEN 403 ELSE 404
    BY <1>3, <1>5 DEF FirstExists, Missing, Refuse, Answer, Response
  <2>2. entry.kind \in {"absent", "denied"} BY <1>3, <1>5 DEF Exists
  <2>3. answer'.status = AtomicStatus(entry) /\ answer'.status # 200
    BY <1>2, <2>1, <2>2, StatusOfEntry
  <2>4. AnswerWasTrue' BY <1>1, <1>2, <2>1, <2>3, TrueAnswer DEF Looked
  <2>5. QED BY <1>1, <2>1, <2>4, Ended
<1>6. QED BY <1>4, <1>5

LEMMA CanonicalLooks == ASSUME LooksInv, Canonical PROVE LooksInv'
<1>1. Looked /\ pc = "canonical" BY DEF Canonical, Looked
<1>2. target = "path" /\ entry \in seen /\ entry \in Entries
  BY <1>1 DEF LooksInv, TargetKnown
<1>3. File = entry BY <1>2, Named DEF File
<1>4. CASE ~Exists(File)
  <2>1. pc' = "thrown" BY <1>4 DEF Canonical, Throw
  <2>2. ~Whole(entry) BY <1>2, <1>3, <1>4, StatusOfEntry DEF Exists
  <2>3. AnswerWasTrue' BY <1>1, <1>2, <2>1, <2>2, TrueThrow DEF Looked
  <2>4. QED BY <1>1, <2>1, <2>3, Ended
<1>5. CASE Exists(File) /\ File = Outside
  <2>1. pc' = "answered" /\ answer'.status = 400
    BY <1>5 DEF Canonical, Refuse, Answer, Response
  <2>2. AtomicStatus(entry) = 400 BY <1>2, <1>3, <1>5, StatusOfEntry, Kinds
  <2>3. AnswerWasTrue' BY <1>1, <1>2, <2>1, <2>2, TrueAnswer DEF Looked
  <2>4. QED BY <1>1, <2>1, <2>3, Ended
<1>6. CASE Exists(File) /\ File # Outside
  <2>1. pc' = "is_directory" BY <1>6 DEF Canonical, GoOn
  <2>2. AnswerWasTrue' BY <2>1 DEF AnswerWasTrue
  <2>3. QED BY <1>1, <1>2, <2>1, <2>2 DEF LooksInv, Looked, TargetKnown, FoundKnown, AnnouncedKnown
<1>7. QED BY <1>4, <1>5, <1>6

LEMMA IsDirectoryLooks == ASSUME LooksInv, IsDirectory PROVE LooksInv'
<1>1. pc = "is_directory" /\ UNCHANGED <<request, entry, seen>> BY DEF IsDirectory
<1>2. target = "path" /\ entry \in seen /\ entry \in Entries
  BY <1>1 DEF LooksInv, TargetKnown
<1>3. File = entry BY <1>2, Named DEF File
<1>4. CASE entry.kind = "denied"
  <2>1. pc' = "thrown" /\ Looked BY <1>1, <1>3, <1>4 DEF IsDirectory, Throw, Looked
  <2>2. ~Whole(entry) BY <1>2, <1>4, StatusOfEntry
  <2>3. AnswerWasTrue' BY <1>2, <2>1, <2>2, TrueThrow DEF Looked
  <2>4. QED BY <2>1, <2>3, Ended
<1>5. CASE entry.kind = "dir"
  <2>1. pc' = "index" /\ target' = "index" BY <1>3, <1>5 DEF IsDirectory, GoOn
  <2>2. AnswerWasTrue' BY <2>1 DEF AnswerWasTrue
  <2>3. QED BY <1>1, <1>2, <1>5, <2>1, <2>2 DEF LooksInv, TargetKnown, FoundKnown, AnnouncedKnown
<1>6. CASE entry.kind \notin {"denied", "dir"}
  <2>1. pc' = "exists_again" /\ target' = "path" BY <1>2, <1>3, <1>6 DEF IsDirectory, GoOn
  <2>2. AnswerWasTrue' BY <2>1 DEF AnswerWasTrue
  <2>3. QED BY <1>1, <1>2, <1>6, <2>1, <2>2 DEF LooksInv, TargetKnown, FoundKnown, AnnouncedKnown
<1>7. QED BY <1>4, <1>5, <1>6

LEMMA IndexExistsLooks == ASSUME LooksInv, IndexExists PROVE LooksInv'
<1>1. Looked /\ pc = "index" BY DEF IndexExists, Looked
<1>2. target = "index" /\ entry \in seen /\ seen \subseteq Entries /\ entry \in Entries
  BY <1>1 DEF LooksInv, TargetKnown
<1>3. PICK d \in seen : d.kind = "dir" BY <1>1 DEF LooksInv, TargetKnown
<1>4. File = At(entry, "index") BY <1>2 DEF File
<1>5. CASE Exists(File)
  <2>1. pc' = "exists_again" BY <1>5 DEF IndexExists, GoOn
  <2>2. AnswerWasTrue' BY <2>1 DEF AnswerWasTrue
  <2>3. \E e \in seen : e.kind = "dir" /\ Exists(e.index)
    \* What exists under the index is that of the entry, which is a directory.
    BY <1>2, <1>4, <1>5, Named DEF Exists
  <2>4. QED BY <1>1, <1>2, <2>1, <2>2, <2>3 DEF LooksInv, Looked, TargetKnown, FoundKnown, AnnouncedKnown
<1>6. CASE ~Exists(File)
  <2>1. pc' = "answered" /\ answer'.status = IF File.kind = "denied" THEN 500 ELSE 403
    BY <1>6 DEF IndexExists, Refuse, Answer, Response
  <2>2. File.kind \in {"absent", "denied"} BY <1>6 DEF Exists
  <2>3. ASSUME entry.kind = "dir" PROVE answer'.status = AtomicStatus(entry)
    <3>1. File = entry.index BY <1>2, <1>4, <2>3, Named
    <3>2. QED BY <1>2, <2>1, <2>2, <2>3, <3>1, StatusOfEntry
  <2>4. ASSUME entry.kind # "dir" PROVE Torn(answer'.status)
    BY <1>2, <1>3, <1>4, <2>1, <2>2, <2>4 DEF Torn
  <2>5. (\E e \in seen : answer'.status = AtomicStatus(e)) \/ Torn(answer'.status)
    BY <1>2, <2>3, <2>4
  <2>6. pc' = "answered" /\ answer'.status # 200 BY <2>1
  <2>7. AnswerWasTrue' BY <1>1, <2>5, <2>6, TrueAnswer DEF Looked
  <2>8. QED BY <1>1, <2>6, <2>7, Ended
<1>7. QED BY <1>5, <1>6

LEMMA ExistsAgainLooks == ASSUME LooksInv, ExistsAgain PROVE LooksInv'
<1>1. Looked /\ pc = "exists_again" BY DEF ExistsAgain, Looked
<1>2. target \in {"path", "index"} /\ entry \in seen /\ seen \subseteq Entries /\ entry \in Entries
  BY DEF LooksInv, TargetKnown
<1>3. target = "index" => \E d \in seen : d.kind = "dir" /\ Exists(d.index)
  BY <1>1 DEF LooksInv, FoundKnown
<1>4. CASE Exists(File)
  <2>1. pc' = "file_size" BY <1>4 DEF ExistsAgain, GoOn
  <2>2. AnswerWasTrue' BY <2>1 DEF AnswerWasTrue
  <2>3. QED BY <1>1, <1>2, <2>1, <2>2 DEF LooksInv, Looked, TargetKnown, FoundKnown, AnnouncedKnown
<1>5. CASE ~Exists(File)
  <2>1. pc' = "answered" /\ answer'.status = IF File.kind = "denied" THEN 403 ELSE 404
    BY <1>5 DEF ExistsAgain, Missing, Refuse, Answer, Response
  <2>2. File.kind \in {"absent", "denied"} BY <1>5 DEF Exists
  <2>3. ASSUME target = "path" PROVE answer'.status = AtomicStatus(entry)
    <3>1. File = entry BY <1>2, <2>3, Named DEF File
    <3>2. QED BY <1>2, <2>1, <2>2, <3>1, StatusOfEntry
  <2>4. ASSUME target = "index" PROVE Torn(answer'.status)
    <3>1. PICK d \in seen : d.kind = "dir" /\ Exists(d.index) BY <1>3, <2>4
    <3>2. File = At(entry, "index") BY <2>4 DEF File
    <3>3. entry # d BY <1>2, <1>5, <3>1, <3>2, Named
    <3>4. QED BY <1>2, <2>1, <2>2, <3>1, <3>2, <3>3 DEF Torn
  <2>5. (\E e \in seen : answer'.status = AtomicStatus(e)) \/ Torn(answer'.status)
    BY <1>2, <2>3, <2>4
  <2>6. pc' = "answered" /\ answer'.status # 200 BY <2>1
  <2>7. AnswerWasTrue' BY <1>1, <2>5, <2>6, TrueAnswer DEF Looked
  <2>8. QED BY <1>1, <2>6, <2>7, Ended
<1>6. QED BY <1>4, <1>5

LEMMA FileSizeLooks == ASSUME LooksInv, FileSize PROVE LooksInv'
<1>1. Looked /\ pc = "file_size" BY DEF FileSize, Looked
<1>2. target \in {"path", "index"} /\ entry \in seen /\ seen \subseteq Entries /\ entry \in Entries
  BY DEF LooksInv, TargetKnown
<1>3. /\ target = "index" => \E d \in seen : d.kind = "dir" /\ Exists(d.index)
      /\ target = "path" => \E e \in seen : e.kind # "dir"
  BY <1>1 DEF LooksInv, FoundKnown
<1>4. File = At(entry, target) BY DEF File
<1>5. CASE File.kind # "file"
  <2>1. pc' = "thrown" BY <1>5 DEF FileSize, Throw
  <2>2. Wanted(entry) = target => ~Whole(entry) BY <1>4, <1>5 DEF Whole, FileOf
  <2>3. \E e \in seen : Wanted(e) = target BY <1>2, <1>3, Named
  <2>4. AnswerWasTrue' BY <1>1, <1>2, <2>1, <2>2, <2>3, TrueThrow DEF Looked
  <2>5. QED BY <1>1, <2>1, <2>4, Ended
<1>6. CASE File.kind = "file"
  <2>1. Whole(entry) /\ Wanted(entry) = target /\ FileOf(entry) = File
    BY <1>2, <1>4, <1>6, FileFound
  <2>2. answer' = OkResponse(File.size) BY <1>6 DEF FileSize, Answer
  <2>3. answer'.status = 200 /\ answer'.length = File.size
    BY <2>2 DEF OkResponse, Response
  <2>4. CASE request.line.method = "HEAD"
    <3>1. pc' = "answered" BY <1>6, <2>4 DEF FileSize, Answer
    <3>2. AtomicStatus(entry) = 200 BY <1>2, <2>1, <2>4, StatusOfEntry
    <3>3. AnswerWasTrue' BY <1>1, <1>2, <2>1, <2>3, <3>1, <3>2, TrueAnswer DEF Looked
    <3>4. QED BY <1>1, <3>1, <3>3, Ended
  <2>5. CASE request.line.method # "HEAD"
    <3>1. pc' = "open" BY <1>6, <2>5 DEF FileSize
    <3>2. AnswerWasTrue' BY <3>1 DEF AnswerWasTrue
    <3>3. AnnouncedKnown'
      BY <1>1, <1>2, <2>1, <2>3, <2>5, <3>1 DEF AnnouncedKnown, Looked, Whole, Wanted, FileOf
    <3>4. QED BY <1>1, <1>2, <1>3, <3>1, <3>2, <3>3 DEF LooksInv, Looked, TargetKnown, FoundKnown
  <2>6. QED BY <2>4, <2>5
<1>7. QED BY <1>5, <1>6

LEMMA OpenLooks == ASSUME LooksInv, Open PROVE LooksInv'
<1>1. Looked /\ pc = "open" BY DEF Open, Looked
<1>2. target \in {"path", "index"} /\ entry \in seen /\ seen \subseteq Entries /\ entry \in Entries
  BY DEF LooksInv, TargetKnown
<1>3. answer.status = 200 /\ request.line.method # "HEAD"
  BY <1>1 DEF LooksInv, AnnouncedKnown
<1>4. PICK e \in seen : Whole(e) /\ Wanted(e) = target /\ answer.length = FileOf(e).size
  BY <1>1 DEF LooksInv, AnnouncedKnown
<1>5. File = At(entry, Wanted(e)) BY <1>4 DEF File
<1>6. CASE ~Opens(File) /\ pc' # "exhausted"
  <2>1. pc' = "answered" /\ answer'.status = 500
    BY <1>6 DEF Open, Answer, Reset, Response
  <2>2. ASSUME e = entry PROVE AtomicStatus(e) = 500
    <3>1. FileOf(e) = File BY <1>5, <2>2 DEF FileOf
    <3>2. QED BY <1>2, <1>3, <1>4, <1>6, <3>1, StatusOfEntry
  <2>3. ASSUME e # entry PROVE Torn(500)
    BY <1>2, <1>4, <1>5, <1>6, <2>3 DEF Torn
  <2>4. (\E x \in seen : answer'.status = AtomicStatus(x)) \/ Torn(answer'.status)
    BY <2>1, <2>2, <2>3
  <2>5. AnswerWasTrue' BY <1>1, <2>1, <2>4, TrueAnswer DEF Looked
  <2>6. QED BY <1>1, <2>1, <2>5, Ended
<1>7. CASE Opens(File) /\ File.kind = "dir" /\ pc' # "exhausted"
  <2>1. pc' = "sendfile" /\ answer' = answer BY <1>7 DEF Open, GoOn
  <2>2. AnswerWasTrue' BY <2>1 DEF AnswerWasTrue
  <2>3. At(entry, Wanted(e)).kind = "dir" BY <1>5, <1>7
  <2>4. AnnouncedKnown'
    BY <1>1, <1>2, <1>3, <1>4, <2>1, <2>3 DEF AnnouncedKnown, Looked, Whole, Wanted, FileOf
  <2>5. QED BY <1>1, <1>2, <2>1, <2>2, <2>4 DEF LooksInv, Looked, TargetKnown, FoundKnown
<1>8. CASE Opens(File) /\ File.kind # "dir" /\ pc' # "exhausted"
  <2>1. pc' = "answered" /\ answer' = answer BY <1>8 DEF Open, GoOn
  <2>2. File.kind = "file" BY <1>8 DEF Opens
  <2>3. Whole(entry) /\ FileOf(entry) = File BY <1>2, <2>2, FileFound DEF File
  <2>4. AtomicStatus(entry) = 200 BY <1>2, <1>8, <2>3, StatusOfEntry
  <2>5. AnswerWasTrue' BY <1>1, <1>2, <1>3, <1>4, <2>1, <2>4, TrueAnswer DEF Looked
  <2>6. QED BY <1>1, <2>1, <2>5, Ended
<1>9. CASE pc' = "exhausted"
  <2>1. AnswerWasTrue' BY <1>9 DEF AnswerWasTrue
  <2>2. QED BY <1>1, <1>9, <2>1, Ended
<1>10. QED BY <1>6, <1>7, <1>8, <1>9

LEMMA SendDirectoryLooks == ASSUME LooksInv, SendDirectory PROVE LooksInv'
<1>1. Looked /\ pc = "sendfile" BY DEF SendDirectory, Looked
<1>2. answer.status = 200 BY <1>1 DEF LooksInv, AnnouncedKnown
<1>3. PICK e \in seen, f \in seen : /\ Whole(e) /\ answer.length = FileOf(e).size
                                    /\ At(f, Wanted(e)).kind = "dir"
  BY <1>1 DEF LooksInv, AnnouncedKnown
<1>4. CASE answer.length = 0
  <2>1. pc' = "answered" /\ answer' = answer BY <1>4 DEF SendDirectory, GoOn
  <2>2. FileOf(e).kind = "file" /\ FileOf(e) = At(e, Wanted(e)) BY <1>3 DEF Whole, FileOf
  <2>3. "file" # "dir" OBVIOUS
  <2>4. e # f BY <1>3, <2>2, <2>3
  <2>5. f \in seen \ {e} /\ Whole(e) /\ FileOf(e).size = 0 /\ At(f, Wanted(e)).kind = "dir"
    BY <1>3, <1>4, <2>4
  <2>6. Torn(200)
    <3> DEFINE Turned(x, y) ==
          Whole(x) /\ FileOf(x).size = 0 /\ At(y, Wanted(x)).kind = "dir" /\ 200 = 200
    <3>1. Turned(e, f) BY <2>5
    <3>2. \A x \in seen : \A y \in seen \ {x} : Turned(x, y) => Torn(200) BY DEF Torn
    <3> HIDE DEF Turned
    <3>3. QED BY <2>5, <3>1, <3>2
  <2>7. AnswerWasTrue' BY <1>1, <1>2, <1>3, <2>1, <2>6, TrueAnswer DEF Looked
  <2>8. QED BY <1>1, <2>1, <2>7, Ended
<1>5. CASE answer.length # 0
  <2>1. pc' = "thrown" BY <1>5 DEF SendDirectory, Throw
  <2>2. ~Whole(f) \/ Wanted(f) # Wanted(e) BY <1>3 DEF Whole, FileOf
  <2>3. AnswerWasTrue' BY <1>1, <2>1, <2>2, TrueThrow DEF Looked
  <2>4. QED BY <1>1, <2>1, <2>3, Ended
<1>6. QED BY <1>4, <1>5

\* A change between two looks: what was seen stays seen.
LEMMA ChangeLooks == ASSUME LooksInv, Change PROVE LooksInv'
<1>1. /\ entry' \in Entries /\ seen' = seen \cup {entry'} /\ pc \notin {"answered", "thrown"}
      /\ UNCHANGED <<request, pc, target, answer>>
  BY DEF Change, Looking
<1>2. AnswerWasTrue' BY <1>1 DEF AnswerWasTrue
<1>3. QED
  BY <1>1, <1>2 DEF LooksInv, TargetKnown, FoundKnown, AnnouncedKnown, Whole, Wanted, FileOf

LEMMA StutterLooks == ASSUME LooksInv, UNCHANGED vars PROVE LooksInv'
BY DEF LooksInv, TargetKnown, FoundKnown, AnnouncedKnown, AnswerWasTrue, Torn, AtomicStatus,
       Whole, Wanted, FileOf, vars

(***************************************************************************)
(* The answer to GET and HEAD was true of some moment of the request,      *)
(* unless it was torn; an exception means that at some moment there was no *)
(* file, or a file became a directory; an announced length was the file's. *)
(***************************************************************************)
THEOREM AnswerWasAlwaysTrue == Spec => []AnswerWasTrue
<1>1. Init => LooksInv BY InitLooks
<1>2. LooksInv /\ [Next]_vars => LooksInv'
  BY ParseLooks, BeginLooks, FirstExistsLooks, CanonicalLooks, IsDirectoryLooks,
     IndexExistsLooks, ExistsAgainLooks, FileSizeLooks, OpenLooks, SendDirectoryLooks,
     ChangeLooks, StutterLooks
  DEF Next, OnRequest
<1>3. LooksInv => AnswerWasTrue BY DEF LooksInv
<1>4. QED BY <1>1, <1>2, <1>3, PTL DEF Spec

(***************************************************************************)
(* Types                                                                   *)
(***************************************************************************)
AnswerKnown(a) ==
  /\ a.status \in StatusesWithText
  /\ {"server", "date"} \subseteq a.headers
  /\ a.status = 200 <=> a.length \in Sizes
  /\ a.status = 200 <=> "content-length" \in a.headers

PlaceKnown ==
  pc \in {"read", "parsed", "rejected", "answered", "exhausted", "thrown"} \/ Looking

StateKnown ==
  /\ entry \in Entries /\ target \in {"path", "index"} /\ PlaceKnown
  /\ seen \subseteq Entries /\ entry \in seen /\ changes \in 0..MaxChanges
  /\ answer = NoAnswer \/ AnswerKnown(answer)

\* The statuses that on_request answers.
LEMMA StatusesUsed == {200, 400, 403, 404, 405, 500} \subseteq Statuses
BY DEF Statuses

\* What is refused has no length.
LEMMA Refused ==
  ASSUME NEW s \in {400, 403, 404, 405, 500}, NEW v PROVE AnswerKnown(Response(s, v))
<1> DEFINE a == Response(s, v)
<1>1. a.status = s /\ a.headers = BasicHeaders(v) /\ a.length = -1 BY DEF Response, NoLength
<1>2. {"server", "date"} \subseteq BasicHeaders(v) /\ "content-length" \notin BasicHeaders(v)
  BY DEF BasicHeaders
<1>3. s # 200 /\ s \in StatusesWithText BY StatusesUsed DEF StatusesWithText
<1>4. -1 \notin Sizes BY TextsAssumption
<1> HIDE DEF a
<1>5. QED BY <1>1, <1>2, <1>3, <1>4 DEF AnswerKnown, a

\* An announced length is the size of a file.
LEMMA Announced == ASSUME NEW n \in Sizes PROVE AnswerKnown(OkResponse(n))
<1> DEFINE v == request.line.version
           a == OkResponse(n)
<1>1. /\ a.status = 200 /\ a.headers = BasicHeaders(v) \cup {"content-length", "content-type"}
      /\ a.length = n
  BY DEF OkResponse, Response
<1>2. {"server", "date"} \subseteq BasicHeaders(v) BY DEF BasicHeaders
<1>3. 200 \in StatusesWithText BY StatusesUsed DEF StatusesWithText
<1> HIDE DEF a, v
<1>4. QED BY <1>1, <1>2, <1>3 DEF AnswerKnown, a

\* Every file that is found has a size of a file.
LEMMA SizeOfFile ==
  ASSUME NEW e \in Entries, NEW t \in {"path", "index"}, At(e, t).kind = "file"
  PROVE  At(e, t).size \in Sizes
<1>1. \A l \in Leaves : l.kind = "file" => l.size \in Sizes BY DEF Leaves, Files, Absent, Denied
<1>2. CASE t = "path"
  <2>1. At(e, t) = e /\ e.kind = "file" BY <1>2, Named
  <2>2. e \in Leaves
    <3>1. e \notin Directories BY <2>1 DEF Directories
    <3>2. e # Outside BY <2>1 DEF Outside
    <3>3. QED BY <3>1, <3>2 DEF Entries
  <2>3. QED BY <1>1, <2>1, <2>2
<1>3. CASE t = "index"
  <2>1. e.kind = "dir" /\ At(e, t) = e.index /\ e.index.kind = "file" BY <1>3, Named
  <2>2. e \in Directories
    <3>1. e \notin Leaves BY <2>1, LeafKinds
    <3>2. e # Outside BY <2>1 DEF Outside
    <3>3. QED BY <3>1, <3>2 DEF Entries
  <2>3. PICK i \in Leaves \cup {[kind |-> "dir"]} : e = [kind |-> "dir", index |-> i]
    BY <2>2 DEF Directories
  <2>4. e.index = i /\ i.kind = "file" BY <2>1, <2>3
  <2>5. i \in Leaves BY <2>4
  <2>6. QED BY <1>1, <2>1, <2>4, <2>5
<1>4. QED BY <1>2, <1>3

\* The state of a new request.
LEMMA InitState == ASSUME Init PROVE StateKnown
<1>1. Absent \in Entries BY DEF Entries, Leaves
<1>2. entry \in Entries BY <1>1 DEF Init
<1>3. 0 \in 0..MaxChanges BY TextsAssumption
<1>4. QED BY <1>2, <1>3 DEF Init, StateKnown, PlaceKnown

\* Every step keeps the state known.
LEMMA NextState == ASSUME StateKnown, [Next]_vars PROVE StateKnown'
<1>1. CASE Parse BY <1>1 DEF Parse, StateKnown, PlaceKnown, AnswerKnown
<1>2. CASE OnRequest
  <2>1. UNCHANGED <<entry, seen, changes>>
    BY <1>2 DEF OnRequest, Begin, FirstExists, Canonical, IsDirectory, IndexExists,
                ExistsAgain, FileSize, Open, SendDirectory
  <2>2. target' \in {"path", "index"} /\ PlaceKnown'
    BY <1>2 DEF OnRequest, Begin, FirstExists, Canonical, IsDirectory, IndexExists, Missing,
                ExistsAgain, FileSize, Open, SendDirectory, StateKnown, PlaceKnown, Looking,
                GoOn, Throw, Refuse, Answer
  <2>3. \/ answer' = answer
        \/ \E s \in {400, 403, 404, 405, 500} : \E v : answer' = Response(s, v)
        \/ \E n \in Sizes : answer' = OkResponse(n)
    <3>1. CASE FileSize
      <4>1. File.kind = "file" => File.size \in Sizes BY SizeOfFile DEF StateKnown, File
      <4>2. QED BY <3>1, <4>1 DEF FileSize, Answer, Throw
    <3>2. CASE Open BY <3>2 DEF Open, Answer, Reset, GoOn
    <3>3. CASE Begin \/ Canonical \/ IsDirectory \/ SendDirectory
      BY <3>3 DEF Begin, Canonical, IsDirectory, SendDirectory, GoOn, Throw, Refuse, Answer
    <3>4. CASE FirstExists \/ ExistsAgain
      BY <3>4 DEF FirstExists, ExistsAgain, Missing, GoOn, Refuse, Answer
    <3>5. CASE IndexExists BY <3>5 DEF IndexExists, GoOn, Refuse, Answer
    <3>6. QED BY <1>2, <3>1, <3>2, <3>3, <3>4, <3>5 DEF OnRequest
  <2>4. answer' = NoAnswer \/ AnswerKnown(answer') BY <2>3, Refused, Announced DEF StateKnown
  <2>5. QED BY <2>1, <2>2, <2>4 DEF StateKnown, AnswerKnown
<1>3. CASE Change
  <2>1. /\ entry' \in Entries /\ seen' = seen \cup {entry'} /\ changes' = changes + 1
        /\ changes < MaxChanges /\ UNCHANGED <<pc, target, answer>>
    BY <1>3 DEF Change
  <2>2. changes' \in 0..MaxChanges BY <2>1, TextsAssumption DEF StateKnown
  <2>3. PlaceKnown' BY <2>1 DEF StateKnown, PlaceKnown, Looking
  <2>4. QED BY <2>1, <2>2, <2>3 DEF StateKnown, AnswerKnown
<1>4. CASE UNCHANGED vars BY <1>4 DEF vars, StateKnown, PlaceKnown, Looking, AnswerKnown
<1>5. QED BY <1>1, <1>2, <1>3, <1>4 DEF Next

\* The keys and the values of a map are texts.
LEMMA MapOfTexts ==
  ASSUME NEW S \in SUBSET (Str \X Str), NEW pairs \in Seq(S) PROVE IsMap(Emplaced(pairs))
<1> DEFINE P == Emplaced(pairs)
<1>1. IsEmplaced(P, pairs, S) BY EmplacedIs
<1> HIDE DEF P
<1>2. ASSUME NEW k \in DOMAIN P PROVE ToSet(k) \subseteq Character /\ ToSet(P[k]) \subseteq Character
  <2>1. <<k, P[k]>> \in Str \X Str BY <1>1 DEF IsEmplaced
  <2>2. k \in Str /\ P[k] \in Str BY <2>1
  <2>3. QED BY <2>2 DEF Str, ToSet
<1>3. IsMap(P) BY <1>2 DEF IsMap
<1>4. QED BY <1>3 DEF P

\* A known state whose request was read from a text has its types.
LEMMA StateIsTyped == ASSUME ReadInv, StateKnown PROVE TypeOK
<1>1. ToSet(text) \subseteq Character BY DEF ReadInv, TextKnown, Str, ToSet
<1>2. ASSUME request # NoRequest
      PROVE  /\ request.line.method \in Methods /\ request.line.version \in Versions
             /\ ToSet(request.line.url) \subseteq Character
             /\ IsMap(request.line.params) /\ IsMap(request.headers)
  <2>1. text \in Str /\ Ends(text) # {} /\ IsRequest(text) /\ request = Request(text)
    BY <1>2 DEF ReadInv, ReadKnown, TextKnown
  <2>2. PICK pairs : IsParsedLine(request.line, pairs) BY <2>1, RequestParsed
  <2>3. PICK heads \in Seq(HeaderPair) : request.headers = Emplaced(heads) BY <2>1, RequestParsed
  <2>4. /\ request.line.method \in Methods /\ request.line.version \in Versions
        /\ request.line.url \in Str /\ pairs \in Seq(Separable)
        /\ request.line.params = Emplaced(pairs)
    BY <2>2 DEF IsParsedLine
  <2>5. Separable \in SUBSET (Str \X Str) BY DEF Separable, Separable
  <2>6. HeaderPair \in SUBSET (Str \X Str) BY DEF HeaderPair
  <2>7. IsMap(Emplaced(pairs)) BY <2>4, <2>5, MapOfTexts
  <2>8. IsMap(Emplaced(heads)) BY <2>3, <2>6, MapOfTexts
  <2>9. ToSet(request.line.url) \subseteq Character BY <2>4 DEF Str, ToSet
  <2>10. QED BY <2>3, <2>4, <2>7, <2>8, <2>9
<1>3. QED BY <1>1, <1>2 DEF StateKnown, PlaceKnown, AnswerKnown, TypeOK

\* Every variable of StaticServer keeps its type: statuses are known ones, a length is
\* announced with 200 only, and a parsed request has maps from texts to texts.
THEOREM TypeCorrect == Spec => []TypeOK
<1>1. Init => ReadInv /\ StateKnown BY InitRead, InitState
<1>2. ReadInv /\ StateKnown /\ [Next]_vars => (ReadInv /\ StateKnown)' BY NextRead, NextState
<1>3. ReadInv /\ StateKnown => TypeOK BY StateIsTyped
<1>4. QED BY <1>1, <1>2, <1>3, PTL DEF Spec

=============================================================================
