-------------------------- MODULE ShoutcastProofs --------------------------
(***************************************************************************)
(* Proofs about Shoutcast: the audio is handed on unharmed as long as the  *)
(* reads of a session meet whole titles, one at a time.                    *)
(*                                                                         *)
(* The shape of a stream is the concatenation of any number of chunks, so  *)
(* it needs induction on that number.  NatSets provides it: it is the      *)
(* induction theorem with a set in the place of the predicate, from the    *)
(* library's facts on well-founded orderings of finite subsets.            *)
(***************************************************************************)
EXTENDS Shoutcast, FiniteSetTheorems, TLAPS

(* Induction: a set that holds 0 and every successor of what it holds has all
   the numbers; else the least interval 0 .. n that leaves it is too large. *)
LEMMA NatSets ==
  ASSUME NEW S, 0 \in S, \A n \in Nat : n \in S => n + 1 \in S
  PROVE  Nat \subseteq S
<1> DEFINE T == {0 .. n : n \in Nat \ S}
           R == StrictSubsetOrdering(Nat)
<1>1. ASSUME T # {} PROVE FALSE
  <2>1. T \subseteq FiniteSubsetsOf(Nat)
    <3>1. ASSUME NEW n \in Nat PROVE 0 .. n \in FiniteSubsetsOf(Nat)
      <4>1. IsFiniteSet(0 .. n)
        BY FS_Interval
      <4>2. 0 .. n \in SUBSET Nat
        OBVIOUS
      <4>3. QED
        BY <4>1, <4>2, Zenon DEF FiniteSubsetsOf
    <3>2. QED
      BY <3>1
  <2>2. PICK x \in T : \A y \in T : ~ (<<y, x>> \in R)
    <3> HIDE DEF T, R
    <3>1. IsWellFoundedOn(R, FiniteSubsetsOf(Nat))
      BY FS_StrictSubsetOrderingWellFounded DEF R
    <3>2. QED
      BY <1>1, <2>1, <3>1, WFMin
  <2>3. PICK n \in Nat \ S : x = 0 .. n
    OBVIOUS
  <2>4. n # 0 /\ n - 1 \in Nat /\ n - 1 \notin S
    OBVIOUS
  <2>5. 0 .. n - 1 \in T
    BY <2>4
  <2>6. <<0 .. n - 1, 0 .. n>> \in R
    <3>1. 0 .. n - 1 \in SUBSET Nat /\ 0 .. n \in SUBSET Nat
      BY <2>4
    <3>2. 0 .. n - 1 \subseteq 0 .. n /\ 0 .. n - 1 # 0 .. n
      BY <2>4
    <3>3. QED
      BY <3>1, <3>2, Zenon DEF StrictSubsetOrdering
  <2>7. QED
    BY <2>2, <2>3, <2>5, <2>6
<1>2. QED
  BY <1>1
------------------------------------------------------------------------------
(* The partial concatenations of the first m of seqs. *)
Partial(f, seqs, m) ==
  f = [i \in 1 .. m |-> IF i = 1 THEN seqs[i] ELSE f[i - 1] \o seqs[i]]

LEMMA PartialAt ==
  ASSUME NEW seqs, NEW m \in Nat, NEW f, Partial(f, seqs, m), NEW i \in 1 .. m
  PROVE  f[i] = IF i = 1 THEN seqs[i] ELSE f[i - 1] \o seqs[i]
BY Zenon DEF Partial

LEMMA PartialExtends ==
  ASSUME NEW seqs, NEW m \in Nat, NEW f, Partial(f, seqs, m)
  PROVE  \E g : Partial(g, seqs, m + 1)
<1> DEFINE g == [i \in 1 .. m + 1 |->
                   IF i <= m THEN f[i]
                   ELSE IF i = 1 THEN seqs[i] ELSE f[i - 1] \o seqs[i]]
<1>1. ASSUME NEW i \in 1 .. m + 1
      PROVE  g[i] = IF i = 1 THEN seqs[i] ELSE g[i - 1] \o seqs[i]
  <2>1. CASE i = m + 1
    <3>1. CASE i = 1
      <4>1. m = 0 /\ ~(i <= m)
        BY <2>1, <3>1
      <4>2. QED
        BY <3>1, <4>1
    <3>2. CASE i # 1
      <4>1. i - 1 \in 1 .. m /\ ~(i <= m)
        BY <2>1, <3>2
      <4>2. g[i] = f[i - 1] \o seqs[i]
        BY <3>2, <4>1
      <4>3. i - 1 \in 1 .. m + 1 /\ i - 1 <= m
        BY <4>1
      <4>4. g[i - 1] = f[i - 1]
        BY <4>3
      <4>5. QED
        BY <3>2, <4>2, <4>4
    <3>3. QED
      BY <3>1, <3>2
  <2>2. CASE i \in 1 .. m
    <3>1. g[i] = f[i] /\ f[i] = IF i = 1 THEN seqs[i] ELSE f[i - 1] \o seqs[i]
      BY <2>2 DEF Partial
    <3>2. i # 1 => g[i - 1] = f[i - 1]
      BY <2>2
    <3>3. QED
      BY <3>1, <3>2
  <2>3. QED
    BY <2>1, <2>2
<1>2. g = [i \in 1 .. m + 1 |-> g[i]]
  OBVIOUS
<1> HIDE DEF g
<1>3. Partial(g, seqs, m + 1)
  BY <1>1, <1>2 DEF Partial
<1>4. QED
  BY <1>3

(* FlattenSeq is the last of the partial concatenations. *)
LEMMA FlattenPartial ==
  ASSUME NEW seqs, Len(seqs) \in Nat \ {0}
  PROVE  \E f : Partial(f, seqs, Len(seqs)) /\ FlattenSeq(seqs) = f[Len(seqs)]
<1> DEFINE S == {m \in Nat : \E f : Partial(f, seqs, m)}
<1>1. 0 \in S
  <2>1. Partial(<<>>, seqs, 0)
    BY DEF Partial
  <2>2. QED
    BY <2>1
<1>2. ASSUME NEW n \in Nat, n \in S PROVE n + 1 \in S
  BY <1>2, PartialExtends
<1>3. Len(seqs) \in S
  <2> HIDE DEF S
  <2>1. QED
    BY <1>1, <1>2, NatSets
<1>4. QED
  BY <1>3 DEF FlattenSeq, Partial

(* f[m] is the concatenation of the first m of the n sequences of seqs. *)
Concatenations(f, seqs, n, B) ==
  /\ f \in [0 .. n -> Seq(B)]
  /\ f[0] = <<>>
  /\ \A m \in 1 .. n : f[m] = f[m - 1] \o seqs[m]

LEMMA PartialType ==
  ASSUME NEW B, NEW n \in Nat, NEW seqs \in [1 .. n -> Seq(B)], NEW p,
         Partial(p, seqs, n)
  PROVE  \A m \in 1 .. n : p[m] \in Seq(B)
<1> DEFINE S == {m \in Nat : m \in 1 .. n => p[m] \in Seq(B)}
<1>1. 0 \in S
  OBVIOUS
<1>2. ASSUME NEW m \in Nat, m \in S PROVE m + 1 \in S
  <2> SUFFICES ASSUME m + 1 \in 1 .. n PROVE p[m + 1] \in Seq(B)
    OBVIOUS
  <2>1. p[m + 1] = IF m + 1 = 1 THEN seqs[m + 1] ELSE p[m] \o seqs[m + 1]
    <3>1. m + 1 - 1 = m
      OBVIOUS
    <3>2. QED
      BY <3>1, PartialAt
  <2>2. seqs[m + 1] \in Seq(B)
    OBVIOUS
  <2>3. CASE m = 0
    BY <2>1, <2>2, <2>3
  <2>4. CASE m # 0
    <3>1. p[m] \in Seq(B)
      BY <1>2, <2>4
    <3>2. p[m] \o seqs[m + 1] \in Seq(B)
      BY <3>1, <2>2
    <3>3. QED
      BY <2>1, <2>4, <3>2
  <2>5. QED
    BY <2>3, <2>4
<1>3. Nat \subseteq S
  <2> HIDE DEF S
  <2>1. QED
    BY <1>1, <1>2, NatSets
<1>4. QED
  BY <1>3

(* FlattenSeq concatenates. *)
LEMMA FlattenConcatenates ==
  ASSUME NEW B, NEW n \in Nat, NEW seqs \in [1 .. n -> Seq(B)]
  PROVE  \E f : Concatenations(f, seqs, n, B) /\ FlattenSeq(seqs) = f[n]
<1>1. Len(seqs) = n
  OBVIOUS
<1>2. CASE n = 0
  <2> DEFINE f == [m \in 0 .. n |-> <<>>]
  <2>1. FlattenSeq(seqs) = <<>>
    <3>1. seqs = <<>>
      BY <1>2
    <3>2. QED
      BY <1>1, <1>2, <3>1 DEF FlattenSeq
  <2>2. Concatenations(f, seqs, n, B) /\ f[n] = <<>>
    BY <1>2 DEF Concatenations
  <2>3. QED
    BY <2>1, <2>2
<1>3. CASE n # 0
  <2>1. PICK p : Partial(p, seqs, n) /\ FlattenSeq(seqs) = p[n]
    BY <1>1, <1>3, FlattenPartial
  <2>2. \A m \in 1 .. n : p[m] \in Seq(B)
    BY <2>1, PartialType
  <2> DEFINE f == [m \in 0 .. n |-> IF m = 0 THEN <<>> ELSE p[m]]
  <2>3. f \in [0 .. n -> Seq(B)] /\ f[0] = <<>>
    BY <2>2
  <2>4. ASSUME NEW m \in 1 .. n PROVE f[m] = f[m - 1] \o seqs[m]
    <3>1. f[m] = IF m = 1 THEN seqs[m] ELSE p[m - 1] \o seqs[m]
      <4>1. f[m] = p[m]
        OBVIOUS
      <4>2. QED
        BY <2>1, <4>1, PartialAt
    <3>2. seqs[m] \in Seq(B)
      OBVIOUS
    <3>3. CASE m = 1
      <4>1. f[m - 1] = <<>>
        BY <3>3
      <4>2. <<>> \o seqs[m] = seqs[m]
        BY <3>2
      <4>3. QED
        BY <3>1, <3>3, <4>1, <4>2
    <3>4. CASE m # 1
      <4>1. f[m - 1] = p[m - 1]
        BY <3>4
      <4>2. QED
        BY <3>1, <3>4, <4>1
    <3>5. QED
      BY <3>3, <3>4
  <2>5. f[n] = p[n]
    BY <1>3
  <2> HIDE DEF f
  <2>6. Concatenations(f, seqs, n, B)
    BY <2>3, <2>4 DEF Concatenations
  <2>7. QED
    BY <2>1, <2>5, <2>6
<1>4. QED
  BY <1>2, <1>3

LEMMA Appended ==
  ASSUME NEW B, NEW s \in Seq(B), NEW t \in Seq(B)
  PROVE  /\ s \o t \in Seq(B)
         /\ Len(s \o t) = Len(s) + Len(t)
         /\ Len(s) <= Len(s \o t)
         /\ \A i \in 1 .. Len(s) : (s \o t)[i] = s[i]
         /\ \A i \in 1 .. Len(t) : (s \o t)[Len(s) + i] = t[i]
OBVIOUS

Steps(f, seqs, n) == \A m \in 0 .. n - 1 : f[m + 1] = f[m] \o seqs[m + 1]

LEMMA ConcatenationsAt ==
  ASSUME NEW B, NEW n \in Nat, NEW seqs \in [1 .. n -> Seq(B)], NEW f,
         Concatenations(f, seqs, n, B)
  PROVE  Steps(f, seqs, n)
<1> SUFFICES ASSUME NEW m \in 0 .. n - 1 PROVE f[m + 1] = f[m] \o seqs[m + 1]
  BY DEF Steps
<1>1. PICK j \in 1 .. n : j = m + 1
  OBVIOUS
<1>2. f[j] = f[j - 1] \o seqs[j]
  BY DEF Concatenations
<1>3. j - 1 = m
  BY <1>1
<1>4. QED
  BY <1>1, <1>2, <1>3, Zenon

(* A concatenation begins with the earlier ones. *)
Begun(f, n) ==
  \A m \in 0 .. n : \A k \in 0 .. m :
    /\ Len(f[k]) <= Len(f[m])
    /\ \A i \in 1 .. Len(f[k]) : f[m][i] = f[k][i]

LEMMA ConcatenationsGrow ==
  ASSUME NEW B, NEW n \in Nat, NEW seqs \in [1 .. n -> Seq(B)], NEW f,
         Concatenations(f, seqs, n, B)
  PROVE  Begun(f, n)
<1> DEFINE Begins(k, m) == /\ Len(f[k]) <= Len(f[m])
                           /\ \A i \in 1 .. Len(f[k]) : f[m][i] = f[k][i]
           S == {m \in Nat : m \in 0 .. n => \A k \in 0 .. m : Begins(k, m)}
<1>1. \A m \in 0 .. n : f[m] \in Seq(B) /\ Len(f[m]) \in Nat
  BY DEF Concatenations
<1>2. 0 \in S
  BY <1>1
<1>3. ASSUME NEW m \in Nat, m \in S PROVE m + 1 \in S
  <2> SUFFICES ASSUME m + 1 \in 0 .. n, NEW k \in 0 .. m + 1
               PROVE  Begins(k, m + 1)
    OBVIOUS
  <2>1. m \in 0 .. n /\ m + 1 \in 1 .. n /\ m \in 0 .. n - 1
    OBVIOUS
  <2>2. f[m] \in Seq(B) /\ seqs[m + 1] \in Seq(B) /\ f[m + 1] \in Seq(B)
    BY <1>1, <2>1
  <2>3. f[m + 1] = f[m] \o seqs[m + 1]
    <3>1. Steps(f, seqs, n)
      BY ConcatenationsAt, Zenon
    <3>2. QED
      BY <2>1, <3>1, Zenon DEF Steps
  <2>4. /\ Len(f[m]) <= Len(f[m + 1])
        /\ \A i \in 1 .. Len(f[m]) : f[m + 1][i] = f[m][i]
    <3>1. /\ Len(f[m]) <= Len(f[m] \o seqs[m + 1])
          /\ \A i \in 1 .. Len(f[m]) : (f[m] \o seqs[m + 1])[i] = f[m][i]
      BY <2>2, Appended, ZenonT(40)
    <3>2. QED
      BY <2>3, <3>1, Zenon
  <2>5. CASE k = m + 1
    BY <2>5, <2>2
  <2>6. CASE k \in 0 .. m
    <3>1. Begins(k, m)
      BY <1>3, <2>1, <2>6
    <3>2. Len(f[k]) \in Nat /\ Len(f[m]) \in Nat /\ Len(f[m + 1]) \in Nat
      BY <1>1, <2>1, <2>2, <2>6
    <3>3. QED
      BY <2>4, <3>1, <3>2
  <2>7. QED
    BY <2>5, <2>6
<1>4. Nat \subseteq S
  <2> HIDE DEF S
  <2>1. QED
    BY <1>2, <1>3, NatSets
<1>5. QED
  BY <1>4 DEF Begun
------------------------------------------------------------------------------
(* p is s, of length a, and then t, of length b. *)
Joined(p, s, t, a, b, B) ==
  /\ p \in Seq(B) /\ Len(p) = a + b
  /\ \A i \in 1 .. a : p[i] = s[i]
  /\ \A i \in 1 .. b : p[a + i] = t[i]

LEMMA AppendedAt ==
  ASSUME NEW B, NEW s \in Seq(B), NEW t \in Seq(B),
         NEW a, NEW b, a = Len(s), b = Len(t), NEW p, p = s \o t
  PROVE  Joined(p, s, t, a, b, B)
<1>1. p \in Seq(B) /\ Len(p) = a + b
  BY Appended
<1>2. \A i \in 1 .. a : p[i] = s[i]
  BY Appended
<1>3. \A i \in 1 .. b : p[a + i] = t[i]
  BY Appended
<1>4. QED
  BY <1>1, <1>2, <1>3, Zenon DEF Joined

(* What a stream is made of. *)
Bytes == {Audio(i) : i \in Nat} \cup {Count(u) : u \in Units} \cup {Title}

(* How a stream with titles is laid out: start[k] places come before its chunk
   k + 1, and start[Titles] is its end. *)
Layout(s, start, titles) ==
  /\ titles \in [1 .. Titles -> Units]
  /\ start \in [0 .. Titles -> Nat]
  /\ start[0] = 0 /\ start[Titles] = Len(s)
  /\ \A k \in 0 .. Titles : start[k] <= Len(s)
  /\ \A k \in 0 .. Titles - 1 :
       /\ start[k + 1] = start[k] + MetaInt + 1 + Unit * titles[k + 1]
       /\ \A i \in 1 .. MetaInt : s[start[k] + i] = Audio(k * MetaInt + i)
       /\ s[start[k] + MetaInt + 1] = Count(titles[k + 1])
       /\ \A i \in 1 .. Unit * titles[k + 1] : s[start[k] + MetaInt + 1 + i] = Title

LEMMA Products ==
  ASSUME NEW a \in Nat, NEW b \in Nat PROVE a * b \in Nat
OBVIOUS

LEMMA UnitsNat == \A u \in Units : u \in Nat /\ Unit * u \in Nat
BY ShoutcastAssumption, Products DEF ShoutcastAssumption

LEMMA ChunkShape ==
  ASSUME NEW k \in Nat \ {0}
  PROVE  /\ Chunk(k) \in Seq(Bytes) /\ Len(Chunk(k)) = MetaInt
         /\ \A i \in 1 .. MetaInt : Chunk(k)[i] = Audio((k - 1) * MetaInt + i)
<1>1. MetaInt \in Nat
  BY ShoutcastAssumption DEF ShoutcastAssumption
<1>2. (k - 1) * MetaInt \in Nat
  BY <1>1, Products
<1> DEFINE m == (k - 1) * MetaInt
<1>3. Chunk(k) = [i \in 1 .. MetaInt |-> Audio(m + i)]
  BY DEF Chunk
<1>4. m \in Nat
  BY <1>2
<1> HIDE DEF m
<1>5. \A i \in 1 .. MetaInt : Audio(m + i) \in Bytes
  <2>1. \A i \in 1 .. MetaInt : m + i \in Nat
    BY <1>1, <1>4
  <2>2. QED
    BY <2>1, Zenon DEF Bytes
<1>6. QED
  <2>1. \A i \in 1 .. MetaInt : Chunk(k)[i] = Audio(m + i)
    BY <1>3, Zenon
  <2>2. Chunk(k) \in Seq(Bytes) /\ Len(Chunk(k)) = MetaInt
    BY <1>1, <1>3, <1>5
  <2>3. QED
    BY <2>1, <2>2, Zenon DEF m

LEMMA BlockShape ==
  ASSUME NEW u \in Units
  PROVE  /\ Block(u) \in Seq(Bytes) /\ Len(Block(u)) = 1 + Unit * u
         /\ Block(u)[1] = Count(u)
         /\ \A i \in 1 .. Unit * u : Block(u)[1 + i] = Title
<1> DEFINE w == Unit * u
           head == <<Count(u)>>
           tail == [i \in 1 .. w |-> Title]
<1>1. w \in Nat
  BY UnitsNat
<1>2. Count(u) \in Bytes /\ Title \in Bytes
  BY Zenon DEF Bytes
<1>3. Block(u) = head \o tail
  BY DEF Block
<1> HIDE DEF w
<1>4. /\ head \in Seq(Bytes) /\ Len(head) = 1 /\ head[1] = Count(u)
  BY <1>2
<1>5. tail \in Seq(Bytes) /\ Len(tail) = w /\ \A i \in 1 .. w : tail[i] = Title
  BY <1>1, <1>2
<1> HIDE DEF head, tail
<1>5a. Joined(Block(u), head, tail, 1, w, Bytes)
  BY <1>3, <1>4, <1>5, AppendedAt, Zenon
<1>6. /\ Block(u) \in Seq(Bytes) /\ Len(Block(u)) = 1 + w
      /\ \A i \in 1 .. 1 : Block(u)[i] = head[i]
      /\ \A i \in 1 .. w : Block(u)[1 + i] = tail[i]
  BY <1>5a, Zenon DEF Joined
<1>7. Block(u)[1] = Count(u)
  BY <1>4, <1>6
<1>8. QED
  BY <1>5, <1>6, <1>7, Zenon DEF w

(* p is a chunk, its length byte and its title; before the chunk come k others. *)
Piece(p, k, u) ==
  /\ p \in Seq(Bytes) /\ Len(p) = MetaInt + 1 + Unit * u
  /\ \A i \in 1 .. MetaInt : p[i] = Audio(k * MetaInt + i)
  /\ p[MetaInt + 1] = Count(u)
  /\ \A i \in 1 .. Unit * u : p[MetaInt + 1 + i] = Title

LEMMA PieceShape ==
  ASSUME NEW k \in Nat \ {0}, NEW u \in Units, NEW p, p = Chunk(k) \o Block(u)
  PROVE  Piece(p, k - 1, u)
<1> DEFINE w == Unit * u
           c == Chunk(k)
           b == Block(u)
           m == (k - 1) * MetaInt
<1>1. w \in Nat /\ MetaInt \in Nat
  BY UnitsNat, ShoutcastAssumption DEF ShoutcastAssumption
<1>2. /\ c \in Seq(Bytes) /\ Len(c) = MetaInt
      /\ \A i \in 1 .. MetaInt : c[i] = Audio(m + i)
  BY ChunkShape
<1>3. /\ b \in Seq(Bytes) /\ Len(b) = 1 + w /\ b[1] = Count(u)
      /\ \A i \in 1 .. w : b[1 + i] = Title
  BY BlockShape
<1>4. p = c \o b
  OBVIOUS
<1> HIDE DEF w, c, b, m
<1> DEFINE l == 1 + w
<1>4a. Joined(p, c, b, MetaInt, l, Bytes)
  BY <1>2, <1>3, <1>4, AppendedAt, Zenon
<1>5. /\ p \in Seq(Bytes) /\ Len(p) = MetaInt + 1 + w
      /\ \A i \in 1 .. MetaInt : p[i] = c[i]
      /\ \A i \in 1 .. 1 + w : p[MetaInt + i] = b[i]
  BY <1>1, <1>4a DEF Joined
<1>6. \A i \in 1 .. MetaInt : p[i] = Audio(m + i)
  BY <1>2, <1>5
<1>7. p[MetaInt + 1] = Count(u)
  BY <1>1, <1>3, <1>5
<1>8. ASSUME NEW i \in 1 .. w PROVE p[MetaInt + 1 + i] = Title
  <2>1. 1 + i \in 1 .. 1 + w /\ MetaInt + (1 + i) = MetaInt + 1 + i
    BY <1>1
  <2>2. p[MetaInt + (1 + i)] = b[1 + i] /\ b[1 + i] = Title
    BY <1>3, <1>5, <2>1
  <2>3. QED
    BY <2>1, <2>2
<1>9. QED
  BY <1>5, <1>6, <1>7, <1>8, Zenon DEF w, m, Piece

LEMMA StreamLayout ==
  ASSUME NEW titles \in [1 .. Titles -> Units]
  PROVE  /\ StreamOf(titles) \in Seq(Bytes)
         /\ \E start : Layout(StreamOf(titles), start, titles)
<1> DEFINE seqs == [k \in 1 .. Titles |-> Chunk(k) \o Block(titles[k])]
           s == StreamOf(titles)
<1>1. Titles \in Nat /\ MetaInt \in Nat
  BY ShoutcastAssumption DEF ShoutcastAssumption
<1>2. ASSUME NEW k \in 0 .. Titles - 1
      PROVE  Piece(seqs[k + 1], k, titles[k + 1])
  <2> DEFINE n == k + 1
  <2>1. n \in 1 .. Titles /\ n \in Nat \ {0} /\ n - 1 = k
    BY <1>1
  <2>2. titles[n] \in Units /\ seqs[n] = Chunk(n) \o Block(titles[n])
    BY <1>2, <2>1
  <2> HIDE DEF n, seqs
  <2>3. Piece(seqs[n], n - 1, titles[n])
    BY <2>1, <2>2, PieceShape, Zenon
  <2>4. QED
    BY <2>1, <2>3, Zenon DEF n
<1>3. seqs \in [1 .. Titles -> Seq(Bytes)]
  <2>1. ASSUME NEW j \in 1 .. Titles PROVE Chunk(j) \o Block(titles[j]) \in Seq(Bytes)
    <3>1. j \in Nat \ {0} /\ titles[j] \in Units
      BY <1>1
    <3>2. QED
      BY <3>1, PieceShape, Zenon DEF Piece
  <2>2. QED
    BY <2>1
<1>4. s = FlattenSeq(seqs)
  BY Zenon DEF StreamOf
<1> HIDE DEF seqs, s
<1>5. PICK f : Concatenations(f, seqs, Titles, Bytes) /\ s = f[Titles]
  BY <1>1, <1>3, <1>4, FlattenConcatenates
<1>6. \A k \in 0 .. Titles : f[k] \in Seq(Bytes) /\ Len(f[k]) \in Nat
  BY <1>5 DEF Concatenations
<1>7. \A k \in 0 .. Titles : /\ Len(f[k]) <= Len(s)
                             /\ \A i \in 1 .. Len(f[k]) : s[i] = f[k][i]
  <2>1. Begun(f, Titles)
    BY <1>1, <1>3, <1>5, ConcatenationsGrow, Zenon
  <2>2. Titles \in 0 .. Titles
    BY <1>1
  <2>3. QED
    BY <1>5, <2>1, <2>2, Zenon DEF Begun
<1> DEFINE start == [k \in 0 .. Titles |-> Len(f[k])]
<1>8. /\ start \in [0 .. Titles -> Nat] /\ start[Titles] = Len(s)
      /\ start[0] = 0
      /\ \A k \in 0 .. Titles : start[k] = Len(f[k]) /\ start[k] \in Nat
  BY <1>1, <1>5, <1>6 DEF Concatenations
<1> HIDE DEF start
<1>9. ASSUME NEW k \in 0 .. Titles - 1
      PROVE  /\ start[k + 1] = start[k] + MetaInt + 1 + Unit * titles[k + 1]
             /\ \A i \in 1 .. MetaInt : s[start[k] + i] = Audio(k * MetaInt + i)
             /\ s[start[k] + MetaInt + 1] = Count(titles[k + 1])
             /\ \A i \in 1 .. Unit * titles[k + 1] : s[start[k] + MetaInt + 1 + i] = Title
  <2> DEFINE p == seqs[k + 1]
             w == Unit * titles[k + 1]
  <2>1. /\ p \in Seq(Bytes) /\ Len(p) = MetaInt + 1 + w
        /\ \A i \in 1 .. MetaInt : p[i] = Audio(k * MetaInt + i)
        /\ p[MetaInt + 1] = Count(titles[k + 1])
        /\ \A i \in 1 .. w : p[MetaInt + 1 + i] = Title
    BY <1>2, Zenon DEF Piece
  <2>2. w \in Nat /\ k \in 0 .. Titles /\ k + 1 \in 0 .. Titles
    <3>1. titles[k + 1] \in Units
      BY <1>1
    <3>2. w \in Nat
      BY <3>1, UnitsNat, Zenon
    <3>3. QED
      BY <1>1, <3>2
  <2>3. f[k + 1] = f[k] \o p
    <3>1. Steps(f, seqs, Titles)
      BY <1>1, <1>3, <1>5, ConcatenationsAt, Zenon
    <3>2. QED
      BY <3>1, Zenon DEF Steps
  <2> HIDE DEF p, w
  <2>4. Joined(f[k + 1], f[k], p, start[k], Len(p), Bytes)
    BY <1>6, <1>8, <2>1, <2>2, <2>3, AppendedAt, Zenon
  <2>5. /\ Len(f[k + 1]) = start[k] + (MetaInt + 1 + w)
        /\ \A i \in 1 .. MetaInt + 1 + w : f[k + 1][start[k] + i] = p[i]
    BY <2>1, <2>4 DEF Joined
  <2>6. \A i \in 1 .. MetaInt + 1 + w : s[start[k] + i] = p[i]
    <3> SUFFICES ASSUME NEW i \in 1 .. MetaInt + 1 + w PROVE s[start[k] + i] = p[i]
      OBVIOUS
    <3>1. start[k] + i \in 1 .. Len(f[k + 1])
      BY <1>1, <1>8, <2>2, <2>5
    <3>2. s[start[k] + i] = f[k + 1][start[k] + i]
      BY <1>7, <2>2, <3>1, Zenon
    <3>3. QED
      BY <2>5, <3>2
  <2>7. start[k + 1] = start[k] + MetaInt + 1 + w
    BY <1>1, <1>8, <2>2, <2>5
  <2>8. \A i \in 1 .. MetaInt : s[start[k] + i] = Audio(k * MetaInt + i)
    BY <1>1, <2>1, <2>2, <2>6
  <2>9. s[start[k] + MetaInt + 1] = Count(titles[k + 1])
    <3>1. /\ MetaInt + 1 \in 1 .. MetaInt + 1 + w
          /\ start[k] + MetaInt + 1 = start[k] + (MetaInt + 1)
      BY <1>1, <1>8, <2>2
    <3>2. QED
      BY <2>1, <2>6, <3>1
  <2>10. ASSUME NEW i \in 1 .. w PROVE s[start[k] + MetaInt + 1 + i] = Title
    <3>1. /\ MetaInt + 1 + i \in 1 .. MetaInt + 1 + w
          /\ start[k] + MetaInt + 1 + i = start[k] + (MetaInt + 1 + i)
      BY <1>1, <1>8, <2>2
    <3>2. QED
      BY <2>1, <2>6, <3>1
  <2>11. QED
    BY <2>7, <2>8, <2>9, <2>10, Zenon DEF w
<1>10. \A k \in 0 .. Titles : start[k] <= Len(s)
  BY <1>7, <1>8
<1>11. Layout(s, start, titles)
  BY <1>8, <1>9, <1>10, Zenon DEF Layout
<1>12. s \in Seq(Bytes)
  BY <1>1, <1>5, <1>6
<1>13. QED
  BY <1>11, <1>12, Zenon DEF s

(* Without titles a stream is made of audio. *)
LEMMA AudioStream ==
  FlattenSeq([k \in 1 .. Titles |-> Chunk(k)]) \in Seq(Bytes)
<1> DEFINE seqs == [k \in 1 .. Titles |-> Chunk(k)]
<1>1. Titles \in Nat
  BY ShoutcastAssumption DEF ShoutcastAssumption
<1>2. seqs \in [1 .. Titles -> Seq(Bytes)]
  BY <1>1, ChunkShape
<1> HIDE DEF seqs
<1>3. PICK f : Concatenations(f, seqs, Titles, Bytes) /\ FlattenSeq(seqs) = f[Titles]
  BY <1>1, <1>2, FlattenConcatenates
<1>4. f[Titles] \in Seq(Bytes)
  BY <1>1, <1>3 DEF Concatenations
<1>5. QED
  BY <1>3, <1>4 DEF seqs
------------------------------------------------------------------------------
(* What the places of chunk k + 1 and of the title after it hold. *)
Holds(start, titles, k) ==
  /\ start[k] \in Nat /\ start[k + 1] \in Nat /\ Unit * titles[k + 1] \in Nat
  /\ titles[k + 1] \in Units
  /\ start[k + 1] = start[k] + MetaInt + 1 + Unit * titles[k + 1]
  /\ \A i \in start[k] + 1 .. start[k] + MetaInt :
       stream[i] = Audio(k * MetaInt + (i - start[k])) /\ stream[i].kind = "audio"
  /\ stream[start[k] + MetaInt + 1].kind = "count"
  /\ stream[start[k] + MetaInt + 1].value = titles[k + 1]
  /\ \A i \in start[k] + MetaInt + 2 .. start[k + 1] : stream[i].kind = "title"

LEMMA ByteKinds ==
  /\ \A n : Audio(n).kind = "audio"
  /\ \A n : Count(n).kind = "count" /\ Count(n).value = n
  /\ Title.kind = "title"
BY DEF Audio, Count, Title

LEMMA CountsInUnits ==
  \A x \in Bytes : x.kind = "count" => x.value \in Units
<1> SUFFICES ASSUME NEW x \in Bytes, x.kind = "count" PROVE x.value \in Units
  OBVIOUS
<1>1. CASE \E i \in Nat : x = Audio(i)
  BY <1>1, ByteKinds
<1>2. CASE \E u \in Units : x = Count(u)
  BY <1>2, ByteKinds, Zenon
<1>3. CASE x = Title
  BY <1>3, ByteKinds
<1>4. QED
  BY <1>1, <1>2, <1>3, Zenon DEF Bytes

LEMMA LayoutHolds ==
  ASSUME NEW start, NEW titles, Layout(stream, start, titles),
         NEW k \in 0 .. Titles - 1
  PROVE  Holds(start, titles, k)
<1> DEFINE w == Unit * titles[k + 1]
           a == start[k]
           b == start[k + 1]
<1>1. Titles \in Nat /\ MetaInt \in Nat
  BY ShoutcastAssumption DEF ShoutcastAssumption
<1>2. titles[k + 1] \in Units
  BY <1>1 DEF Layout
<1>3. w \in Nat
  BY <1>2, UnitsNat, Zenon
<1>4. a \in Nat /\ b \in Nat
  BY <1>1 DEF Layout
<1>5. /\ b = a + MetaInt + 1 + w
      /\ \A i \in 1 .. MetaInt : stream[a + i] = Audio(k * MetaInt + i)
      /\ stream[a + MetaInt + 1] = Count(titles[k + 1])
      /\ \A i \in 1 .. w : stream[a + MetaInt + 1 + i] = Title
  BY Zenon DEF Layout
<1> HIDE DEF w, a, b
<1>6. ASSUME NEW i \in a + 1 .. a + MetaInt
      PROVE  stream[i] = Audio(k * MetaInt + (i - a)) /\ stream[i].kind = "audio"
  <2>1. i - a \in 1 .. MetaInt /\ a + (i - a) = i
    BY <1>1, <1>4
  <2>2. stream[i] = Audio(k * MetaInt + (i - a))
    BY <1>5, <2>1
  <2>3. QED
    BY <2>2, ByteKinds, Zenon
<1>7. ASSUME NEW i \in a + MetaInt + 2 .. b PROVE stream[i].kind = "title"
  <2>1. i - (a + MetaInt + 1) \in 1 .. w
        /\ a + MetaInt + 1 + (i - (a + MetaInt + 1)) = i
    BY <1>1, <1>3, <1>4, <1>5
  <2>2. stream[i] = Title
    BY <1>5, <2>1
  <2>3. QED
    BY <2>2, ByteKinds, Zenon
<1>8. /\ stream[a + MetaInt + 1].kind = "count"
      /\ stream[a + MetaInt + 1].value = titles[k + 1]
  BY <1>5, ByteKinds, Zenon
<1>9. QED
  BY <1>2, <1>3, <1>4, <1>5, <1>6, <1>7, <1>8, Zenon DEF w, a, b, Holds

LEMMA PlacesFinite ==
  ASSUME NEW kind, NEW a \in Int, NEW b \in Int
  PROVE  IsFiniteSet(Places(kind, a, b)) /\ Cardinality(Places(kind, a, b)) \in Nat
<1>1. IsFiniteSet(a .. b)
  BY FS_Interval
<1>2. Places(kind, a, b) \in SUBSET (a .. b)
  BY DEF Places
<1>3. QED
  BY <1>1, <1>2, FS_Subset, FS_CardinalityType

(* The number of audio bytes before a place of chunk k + 1. *)
LEMMA AudioInChunk ==
  ASSUME NEW start, NEW titles, NEW k \in 0 .. Titles - 1,
         Holds(start, titles, k), NEW j \in 0 .. MetaInt,
         Cardinality(Places("audio", 1, start[k])) = k * MetaInt
  PROVE  Cardinality(Places("audio", 1, start[k] + j)) = k * MetaInt + j
<1> DEFINE a == start[k]
           A == Places("audio", 1, a)
           C == a + 1 .. a + j
<1>1. a \in Nat /\ MetaInt \in Nat /\ Titles \in Nat
  BY ShoutcastAssumption DEF ShoutcastAssumption, Holds
<1>2. Places("audio", 1, a + j) = A \cup C
  <2>1. \A i \in a + 1 .. a + j : stream[i].kind = "audio"
    BY <1>1 DEF Holds
  <2>2. 1 .. a + j = (1 .. a) \cup (a + 1 .. a + j)
    BY <1>1
  <2>3. QED
    BY <2>1, <2>2, Zenon DEF Places
<1>3. A \cap C = {}
  BY <1>1 DEF Places
<1>4. IsFiniteSet(C) /\ Cardinality(C) = j
  <2> DEFINE lo == a + 1
             hi == a + j
  <2>1. lo \in Int /\ hi \in Int /\ j \in Nat /\ hi = lo + j - 1 /\ C = lo .. hi
    BY <1>1
  <2> HIDE DEF lo, hi, C
  <2>2. IsFiniteSet(lo .. hi) /\ Cardinality(lo .. hi) = IF lo > hi THEN 0 ELSE hi - lo + 1
    BY <2>1, FS_Interval
  <2>3. QED
    BY <2>1, <2>2
<1>5. IsFiniteSet(A) /\ Cardinality(A) = k * MetaInt
  BY <1>1, PlacesFinite
<1> HIDE DEF A, C
<1>6. Cardinality(A \cup C) = Cardinality(A) + Cardinality(C) - Cardinality(A \cap C)
  BY <1>4, <1>5, FS_Union
<1>7. Cardinality(A \cap C) = 0
  BY <1>3, FS_EmptySet
<1>8. k * MetaInt \in Nat
  BY <1>1, Products
<1> DEFINE m == k * MetaInt
<1>9. m \in Nat /\ Cardinality(A) = m
  BY <1>5, <1>8
<1> HIDE DEF m
<1>10. Cardinality(A \cup C) = m + j
  BY <1>1, <1>4, <1>6, <1>7, <1>9
<1>11. QED
  BY <1>2, <1>10 DEF m

LEMMA AudioAtStart ==
  ASSUME NEW start, NEW titles, Layout(stream, start, titles)
  PROVE  \A k \in 0 .. Titles : Cardinality(Places("audio", 1, start[k])) = k * MetaInt
<1> DEFINE Before(k) == Cardinality(Places("audio", 1, start[k])) = k * MetaInt
           S == {k \in Nat : k \in 0 .. Titles => Before(k)}
<1>1. MetaInt \in Nat /\ Titles \in Nat
  BY ShoutcastAssumption DEF ShoutcastAssumption
<1>2. 0 \in S
  <2>1. start[0] = 0
    BY DEF Layout
  <2>2. Places("audio", 1, start[0]) = {}
    BY <2>1 DEF Places
  <2>3. QED
    BY <1>1, <2>2, FS_EmptySet
<1>3. ASSUME NEW k \in Nat, k \in S PROVE k + 1 \in S
  <2> SUFFICES ASSUME k + 1 \in 0 .. Titles PROVE Before(k + 1)
    OBVIOUS
  <2>1. k \in 0 .. Titles - 1 /\ k \in 0 .. Titles
    BY <1>1
  <2>2. Holds(start, titles, k)
    BY <2>1, LayoutHolds, Zenon
  <2>3. Cardinality(Places("audio", 1, start[k] + MetaInt)) = k * MetaInt + MetaInt
    <3>1. MetaInt \in 0 .. MetaInt
      BY <1>1
    <3>2. Before(k)
      BY <1>3, <2>1
    <3>3. QED
      BY <2>1, <2>2, <3>1, <3>2, AudioInChunk, Zenon
  <2>4. Places("audio", 1, start[k + 1]) = Places("audio", 1, start[k] + MetaInt)
    <3> DEFINE a == start[k]
               b == start[k + 1]
               w == Unit * titles[k + 1]
    <3>1. a \in Nat /\ b \in Nat /\ w \in Nat /\ b = a + MetaInt + 1 + w
      BY <2>2 DEF Holds
    <3>2. \A i \in a + MetaInt + 1 .. b : stream[i].kind # "audio"
      BY <1>1, <2>2, <3>1 DEF Holds
    <3> HIDE DEF a, b, w
    <3>3. 1 .. b = (1 .. a + MetaInt) \cup (a + MetaInt + 1 .. b)
      BY <1>1, <3>1
    <3>4. Places("audio", 1, b) = Places("audio", 1, a + MetaInt)
      BY <3>2, <3>3, Zenon DEF Places
    <3>5. QED
      BY <3>4 DEF a, b
  <2>5. (k + 1) * MetaInt = k * MetaInt + MetaInt
    BY <1>1
  <2>6. QED
    BY <2>3, <2>4, <2>5
<1>4. Nat \subseteq S
  <2> HIDE DEF S
  <2>1. QED
    BY <1>2, <1>3, NatSets
<1>5. QED
  BY <1>1, <1>4
------------------------------------------------------------------------------
(* The first m bytes of audio. *)
Heard(m) == [i \in 1 .. m |-> Audio(i)]

(* n bytes of s after the first g. *)
Slice(t, s, g, n) ==
  /\ t \in Seq(Bytes) /\ Len(t) = n
  /\ \A i \in 1 .. n : t[i] = s[g + i]

LEMMA SubSeqSlice ==
  ASSUME NEW s \in Seq(Bytes), NEW g \in Nat, NEW n \in Nat, g + n <= Len(s),
         NEW a, NEW b, a = g + 1, b = g + n
  PROVE  Slice(SubSeq(s, a, b), s, g, n)
<1>1. SubSeq(s, a, b) \in Seq(Bytes)
  OBVIOUS
<1>2. Len(SubSeq(s, a, b)) = n
  OBVIOUS
<1>3. ASSUME NEW i \in 1 .. n PROVE SubSeq(s, a, b)[i] = s[g + i]
  <2>1. SubSeq(s, a, b)[i] = s[a + i - 1]
    OBVIOUS
  <2>2. a + i - 1 = g + i
    OBVIOUS
  <2>3. QED
    BY <2>1, <2>2
<1>4. QED
  BY <1>1, <1>2, <1>3, Zenon DEF Slice

(* What is heard grows by the audio that comes next. *)
LEMMA HeardMore ==
  ASSUME NEW m \in Nat, NEW n \in Nat, NEW t \in Seq(Bytes), Len(t) = n,
         \A i \in 1 .. n : t[i] = Audio(m + i)
  PROVE  Heard(m) \o t = Heard(m + n)
<1> DEFINE h == Heard(m)
           l == m + n
           r == Heard(l)
<1>1. h \in Seq(Bytes) /\ Len(h) = m /\ \A i \in 1 .. m : h[i] = Audio(i)
  BY DEF Heard, Bytes
<1>2. /\ l \in Nat /\ r \in Seq(Bytes) /\ Len(r) = l
      /\ \A i \in 1 .. l : r[i] = Audio(i)
  BY DEF Heard, Bytes
<1> HIDE DEF h, r
<1> DEFINE p == h \o t
<1>3. Joined(p, h, t, m, n, Bytes)
  BY <1>1, AppendedAt, Zenon
<1> HIDE DEF p
<1>4. p \in Seq(Bytes) /\ Len(p) = l
  BY <1>3 DEF Joined
<1>5. ASSUME NEW i \in 1 .. l PROVE p[i] = r[i]
  <2>1. CASE i \in 1 .. m
    BY <1>1, <1>2, <1>3, <2>1 DEF Joined
  <2>2. CASE i \notin 1 .. m
    <3>1. PICK j \in 1 .. n : i = m + j
      <4>1. i - m \in 1 .. n /\ i = m + (i - m)
        BY <2>2
      <4>2. QED
        BY <4>1
    <3>2. p[m + j] = t[j] /\ t[j] = Audio(m + j)
      BY <1>3 DEF Joined
    <3>3. QED
      BY <1>2, <3>1, <3>2
  <2>3. QED
    BY <2>1, <2>2
<1>6. p = r
  BY <1>2, <1>4, <1>5
<1>7. QED
  BY <1>6 DEF p, h, r

(* A read the code is made for meets one length byte at most, and none if a title
   comes first. *)
LEMMA OneCount ==
  ASSUME got \in Nat, NEW n \in Nat, ~(Blocks(n) > 1),
         NEW p \in got + 1 .. got + n, stream[p].kind = "count"
  PROVE  /\ \A q \in got + 1 .. got + n : stream[q].kind = "count" => q = p
         /\ ~Inside(got)
<1> DEFINE C == Places("count", got + 1, got + n)
<1>1. IsFiniteSet(C) /\ Cardinality(C) \in Nat
  BY PlacesFinite
<1>2. p \in C
  BY DEF Places
<1>3. Cardinality(C) # 0
  BY <1>1, <1>2, FS_EmptySet
<1>4. n > 0
  OBVIOUS
<1>5. Cardinality(C) = 1 /\ ~Inside(got)
  <2>1. Blocks(n) = Cardinality(C) + (IF n > 0 /\ Inside(got) THEN 1 ELSE 0)
    BY DEF Blocks
  <2> HIDE DEF C
  <2>2. QED
    BY <1>1, <1>3, <1>4, <2>1
<1>6. ASSUME NEW q \in got + 1 .. got + n, stream[q].kind = "count", q # p
      PROVE  FALSE
  <2>1. {p, q} \in SUBSET C
    BY <1>2, <1>6 DEF Places
  <2>2. Cardinality({p, q}) = 2
    <3>1. IsFiniteSet({p}) /\ Cardinality({p}) = 1
      BY FS_Singleton
    <3>2. Cardinality({p} \cup {q}) = Cardinality({p}) + 1
      BY <1>6, <3>1, FS_AddElement
    <3>3. {p} \cup {q} = {p, q}
      OBVIOUS
    <3>4. QED
      BY <3>1, <3>2, <3>3
  <2>3. Cardinality({p, q}) <= Cardinality(C)
    BY <1>1, <2>1, FS_Subset
  <2>4. QED
    BY <1>5, <2>2, <2>3
<1>7. QED
  BY <1>5, <1>6
------------------------------------------------------------------------------
(* Between titles: k of them are past, and the current chunk is read as far as
   current_meta_chunk says. *)
Between(start, k) ==
  /\ k \in 0 .. Titles /\ current_meta_chunk \in 0 .. MetaInt
  /\ k = Titles => current_meta_chunk = 0
  /\ first_meta_size = 0
  /\ got = start[k] + current_meta_chunk
  /\ given = Heard(k * MetaInt + current_meta_chunk)

(* Before title k + 1, of which the length byte was read with the chunk. *)
AtTitle(start, titles, k) ==
  /\ k \in 0 .. Titles - 1 /\ current_meta_chunk = 0
  /\ first_meta_size = Unit * titles[k + 1] /\ first_meta_size > 0
  /\ got = start[k] + MetaInt + 1
  /\ given = Heard(k * MetaInt + MetaInt)

Somewhere(start, titles) ==
  \E k \in 0 .. Titles : Between(start, k) \/ AtTitle(start, titles, k)

Unopened == ~open /\ stream = <<>> /\ got = 0 /\ given = <<>>

Playing ==
  /\ metaint = MetaInt
  /\ \E start, titles : Layout(stream, start, titles) /\ Somewhere(start, titles)

IInv ==
  /\ first_meta_size \in Nat /\ got \in Nat /\ stream \in Seq(Bytes)
  /\ spoilt = {} => ~fault /\ (Unopened \/ Playing)

(* What a read gets, and that it is one the code is made for. *)
WholeTitles(n) ==
  /\ n \in Nat /\ got \in Nat /\ got + n <= Len(stream) /\ stream \in Seq(Bytes)
  /\ metaint = MetaInt
  /\ ~Inside(got + n) /\ ~(Blocks(n) > 1)

LEMMA ConstantTypes ==
  MetaInt \in Nat /\ MetaInt > 0 /\ Titles \in Nat /\ Length \in Nat
BY ShoutcastAssumption DEF ShoutcastAssumption

LEMMA ReceivedSlice ==
  ASSUME NEW n, WholeTitles(n)
  PROVE  Slice(Received(n), stream, got, n)
<1>1. n \in Nat /\ got \in Nat /\ got + n <= Len(stream) /\ stream \in Seq(Bytes)
  BY DEF WholeTitles
<1>2. Slice(SubSeq(stream, got + 1, got + n), stream, got, n)
  BY <1>1, SubSeqSlice
<1>3. QED
  BY <1>2, Zenon DEF Received

(* Audio that follows without a break is appended. *)
LEMMA StayInChunk ==
  ASSUME NEW start, NEW titles, Layout(stream, start, titles),
         NEW k, Between(start, k), NEW n, WholeTitles(n),
         current_meta_chunk + n <= MetaInt, n > 0 => k # Titles
  PROVE  given \o Received(n) = Heard(k * MetaInt + (current_meta_chunk + n))
<1> DEFINE c == current_meta_chunk
           b == k * MetaInt
           m == b + c
           t == Received(n)
<1>1. /\ n \in Nat /\ k \in 0 .. Titles /\ c \in Nat /\ MetaInt \in Nat /\ b \in Nat
      /\ Titles \in Nat
  BY ConstantTypes, Products DEF WholeTitles, Between
<1>2. Slice(t, stream, got, n)
  BY ReceivedSlice
<1>3. got = start[k] + c /\ given = Heard(m)
  BY DEF Between
<1>4. ASSUME NEW i \in 1 .. n PROVE t[i] = Audio(m + i)
  <2>1. k \in 0 .. Titles - 1
    BY <1>1
  <2>2. Holds(start, titles, k)
    BY <2>1, LayoutHolds, Zenon
  <2>3. start[k] \in Nat
    BY <2>2 DEF Holds
  <2> DEFINE j == got + i
  <2>4. j \in start[k] + 1 .. start[k] + MetaInt
    BY <1>1, <1>3, <2>3
  <2>5. stream[j] = Audio(b + (j - start[k]))
    BY <2>2, <2>4, Zenon DEF Holds
  <2>6. b + (j - start[k]) = m + i
    BY <1>1, <1>3, <2>3
  <2>7. t[i] = stream[j]
    BY <1>2 DEF Slice
  <2>8. QED
    BY <2>5, <2>6, <2>7, Zenon
<1>5. t \in Seq(Bytes) /\ Len(t) = n /\ m \in Nat
  BY <1>1, <1>2 DEF Slice
<1>6. m + n = b + (c + n)
  BY <1>1
<1> HIDE DEF m, t
<1>7. Heard(m) \o t = Heard(m + n)
  BY <1>1, <1>4, <1>5, HeardMore
<1>8. QED
  BY <1>3, <1>6, <1>7, Zenon DEF t

LEMMA WithinStep ==
  ASSUME NEW start, NEW titles, Layout(stream, start, titles),
         NEW k, Between(start, k), NEW n, WholeTitles(n), ReadWithin(n)
  PROVE  ~fault' /\ Between(start, k)'
<1> DEFINE c == current_meta_chunk
<1>1. /\ n \in Nat /\ k \in 0 .. Titles /\ c \in Nat /\ metaint = MetaInt
      /\ got = start[k] + c
  BY DEF WholeTitles, Between
<1>2. /\ c + n < metaint /\ ~fault' /\ given' = given \o Received(n)
      /\ got' = got + n + 0 /\ c' = c + n /\ first_meta_size' = first_meta_size
  BY Zenon DEF ReadWithin, Deliver
<1>3. start[k] \in Nat /\ start[Titles] = Len(stream)
  BY <1>1 DEF Layout
<1>4. k = Titles => c = 0 /\ n = 0
  BY <1>1, <1>3, ConstantTypes DEF Between, WholeTitles
<1>5. given' = Heard(k * MetaInt + (c + n))
  <2>1. c + n <= MetaInt /\ (n > 0 => k # Titles)
    BY <1>1, <1>2, <1>4, ConstantTypes
  <2>2. QED
    BY <1>2, <2>1, StayInChunk, Zenon
<1>6. given' = Heard(k * MetaInt + c')
  BY <1>2, <1>5, Zenon
<1>7. got' = start[k] + c'
  BY <1>1, <1>2, <1>3
<1>8. c' \in 0 .. MetaInt /\ (k = Titles => c' = 0)
  BY <1>1, <1>2, <1>4, ConstantTypes
<1>9. first_meta_size' = 0
  BY <1>2 DEF Between
<1>10. QED
  BY <1>1, <1>2, <1>6, <1>7, <1>8, <1>9, Zenon DEF Between

LEMMA UpToStep ==
  ASSUME NEW start, NEW titles, Layout(stream, start, titles),
         NEW k, Between(start, k), NEW n, WholeTitles(n), ReadUpTo(n),
         got' # got + n
  PROVE  ~fault' /\ Somewhere(start, titles)'
<1> DEFINE c == current_meta_chunk
           w == Unit * titles[k + 1]
<1>1. /\ n \in Nat /\ k \in 0 .. Titles /\ c \in Nat /\ metaint = MetaInt
      /\ got = start[k] + c /\ (k = Titles => c = 0) /\ got \in Nat
      /\ got + n <= Len(stream)
  BY DEF WholeTitles, Between
<1>2. c + n = MetaInt /\ c' = 0
  BY <1>1 DEF ReadUpTo, AtEnd
<1>3. start[k] \in Nat /\ start[Titles] = Len(stream)
  BY <1>1 DEF Layout
<1>4. k \in 0 .. Titles - 1
  BY <1>1, <1>2, <1>3, ConstantTypes
<1>5. Holds(start, titles, k)
  BY <1>4, LayoutHolds, Zenon
<1>6. got + n + 1 = start[k] + MetaInt + 1
  <2>1. c + n = MetaInt
    BY <1>2
  <2> HIDE DEF c
  <2>2. QED
    BY <1>1, <1>3, <2>1
<1>7. /\ \E units \in Value(stream, got + n + 1) : first_meta_size' = Unit * units
      /\ Deliver(n, 1, TRUE, Received(n))
  <2>1. CASE Deliver(n, 0, TRUE, Received(n))
    <3>1. got' = got + n + 0
      BY <2>1, Zenon DEF Deliver
    <3>2. QED
      BY <1>1, <3>1
  <2>2. QED
    BY <2>1, Zenon DEF ReadUpTo
<1>8. first_meta_size' = w
  <2>1. Value(stream, start[k] + MetaInt + 1) = {titles[k + 1]}
    BY <1>5 DEF Holds, Value
  <2>2. QED
    BY <1>6, <1>7, <2>1
<1>9. ~fault' /\ given' = given \o Received(n) /\ got' = got + n + 1
  BY <1>7, Zenon DEF Deliver
<1>10. given' = Heard(k * MetaInt + MetaInt)
  <2>1. c + n <= MetaInt /\ (n > 0 => k # Titles)
    BY <1>2, <1>4, ConstantTypes
  <2>2. QED
    BY <1>2, <1>9, <2>1, StayInChunk, Zenon
<1>11. got' = start[k] + MetaInt + 1
  BY <1>6, <1>9
<1>12. w \in Nat
  BY <1>5, Zenon DEF Holds
<1>13. CASE w = 0
  <2>1. start[k + 1] = start[k] + MetaInt + 1 + w
    BY <1>5, Zenon DEF Holds
  <2>2. got' = start[k + 1] + 0
    BY <1>3, <1>11, <1>13, <2>1, ConstantTypes
  <2>3. (k + 1) * MetaInt + 0 = k * MetaInt + MetaInt
    BY <1>1, ConstantTypes
  <2>4. k + 1 \in 0 .. Titles /\ 0 \in 0 .. MetaInt
    BY <1>4, ConstantTypes
  <2>5. Between(start, k + 1)'
    BY <1>2, <1>8, <1>10, <1>13, <2>2, <2>3, <2>4, Zenon DEF Between
  <2>6. QED
    BY <1>9, <2>4, <2>5, Zenon DEF Somewhere
<1>14. CASE w # 0
  <2>1. first_meta_size' > 0
    BY <1>8, <1>12, <1>14
  <2>2. AtTitle(start, titles, k)'
    BY <1>2, <1>4, <1>8, <1>10, <1>11, <2>1, Zenon DEF AtTitle
  <2>3. QED
    BY <1>1, <1>9, <2>2, Zenon DEF Somewhere
<1>15. QED
  BY <1>13, <1>14

LEMMA CountReached ==
  ASSUME NEW g \in Nat, NEW n \in Nat, NEW z \in Nat, NEW r \in Nat, NEW m \in Nat,
         NEW a \in Nat, g + n = z + r, r <= n, r > m, z >= a + m + 1
  PROVE  /\ z + m + 1 \in g + 1 .. g + n
         /\ g <= a + m => a + m + 1 \in g + 1 .. g + n
         /\ a + m + 1 # z + m + 1
OBVIOUS

(* What follows a title: rest bytes of the next chunk, all of them audio. *)
LEMMA AfterTitle ==
  ASSUME NEW start, NEW titles, Layout(stream, start, titles),
         NEW k \in 0 .. Titles - 1, NEW n, WholeTitles(n),
         NEW rest \in Nat, got + n = start[k + 1] + rest,
         got <= start[k] + MetaInt \/ Inside(got), n > 0, rest <= n
  PROVE  /\ rest <= MetaInt /\ (k + 1 = Titles => rest = 0)
         /\ \A i \in 1 .. rest :
              stream[start[k + 1] + i] = Audio((k + 1) * MetaInt + i)
<1>1. /\ n \in Nat /\ got \in Nat /\ got + n <= Len(stream) /\ ~(Blocks(n) > 1)
      /\ Titles \in Nat /\ MetaInt \in Nat /\ MetaInt > 0
  BY ConstantTypes DEF WholeTitles
<1>2. Holds(start, titles, k)
  BY LayoutHolds, Zenon
<1>3. start[k + 1] \in Nat /\ start[Titles] = Len(stream) /\ start[k] \in Nat
      /\ start[k + 1] >= start[k] + MetaInt + 1
  BY <1>1, <1>2, SMTT(30) DEF Layout, Holds
<1>4. k + 1 = Titles => rest = 0
  BY <1>1, <1>3
<1>5. CASE k + 1 = Titles
  BY <1>1, <1>4, <1>5
<1>6. CASE k + 1 # Titles
  <2>1. k + 1 \in 0 .. Titles - 1
    BY <1>1, <1>6
  <2>2. Holds(start, titles, k + 1)
    BY <2>1, LayoutHolds, Zenon
  <2> DEFINE a == start[k + 1]
             q == a + MetaInt + 1
             p == start[k] + MetaInt + 1
  <2>3. stream[q].kind = "count" /\ stream[p].kind = "count"
    BY <1>2, <2>2, Zenon DEF Holds
  <2>4. rest <= MetaInt
    <3> SUFFICES ASSUME rest > MetaInt PROVE FALSE
      BY <1>1
    <3>0. /\ q \in got + 1 .. got + n
          /\ got <= start[k] + MetaInt => p \in got + 1 .. got + n
          /\ p # q
      BY <1>1, <1>3, CountReached, ZenonT(40)
    <3> HIDE DEF p, q
    <3>1. q \in got + 1 .. got + n
      BY <3>0
    <3>2. ~Inside(got)
      BY <1>1, <2>3, <3>1, OneCount
    <3>3. p \in got + 1 .. got + n /\ p # q
      BY <3>0, <3>2
    <3>4. QED
      BY <1>1, <2>3, <3>1, <3>3, OneCount
  <2>5. ASSUME NEW i \in 1 .. rest
        PROVE  stream[a + i] = Audio((k + 1) * MetaInt + i)
    <3> DEFINE j == a + i
    <3>1. j \in a + 1 .. a + MetaInt /\ j - a = i
      <4>1. a \in Nat /\ i \in 1 .. MetaInt
        BY <1>1, <1>3, <2>4
      <4> HIDE DEF a
      <4>2. QED
        BY <1>1, <4>1
    <3>2. stream[j] = Audio((k + 1) * MetaInt + (j - a))
      BY <2>2, <3>1, Zenon DEF Holds
    <3>3. QED
      BY <3>1, <3>2, Zenon
  <2>6. QED
    BY <1>6, <2>4, <2>5
<1>7. QED
  BY <1>5, <1>6

LEMMA Shifted ==
  ASSUME NEW a \in Nat, NEW m \in Nat, NEW x \in Nat
  PROVE  /\ x >= m + 1 => a + x + 1 >= a + m + 2
         /\ \A j : x \in 1 .. m /\ j = a + x => j \in a + 1 .. a + m
OBVIOUS

LEMMA Regrouped ==
  ASSUME NEW g \in Nat, NEW n \in Nat, NEW r \in Nat, NEW j \in 1 .. r, r <= n
  PROVE  (n - r) + j \in 1 .. n /\ g + ((n - r) + j) = (g + n - r) + j
OBVIOUS

LEMMA Below ==
  ASSUME NEW a \in Nat, NEW z \in Nat, NEW l \in Nat, NEW r \in Int, a = z + r, r < 0
  PROVE  a <= z - 1 /\ a + 1 <= z /\ a + 1 \in Nat /\ (z <= l => a < l)
OBVIOUS

LEMMA AcrossStep ==
  ASSUME NEW start, NEW titles, Layout(stream, start, titles),
         NEW k, Between(start, k), NEW n, WholeTitles(n), ReadAcross(n)
  PROVE  ~fault' /\ Somewhere(start, titles)'
<1> DEFINE c == current_meta_chunk
           head == MetaInt - c
           b == Received(n)
           u == titles[k + 1]
           w == Unit * u
           rest == n - head - (w + 1)
           kept == SubSeq(b, 1, head) \o SubSeq(b, n - rest + 1, n)
<1>1. /\ n \in Nat /\ k \in 0 .. Titles /\ c \in 0 .. MetaInt /\ metaint = MetaInt
      /\ got = start[k] + c /\ (k = Titles => c = 0) /\ got \in Nat
      /\ got + n <= Len(stream) /\ MetaInt \in Nat /\ MetaInt > 0 /\ Titles \in Nat
      /\ Len(stream) \in Nat
  BY ConstantTypes DEF WholeTitles, Between
<1>2. c + n > MetaInt
  BY <1>1 DEF ReadAcross
<1>3. start[k] \in Nat /\ start[Titles] = Len(stream)
  BY <1>1 DEF Layout
<1>4. k \in 0 .. Titles - 1
  BY <1>1, <1>2, <1>3
<1>5. Holds(start, titles, k)
  BY <1>4, LayoutHolds, Zenon
<1>6. head \in Nat /\ head + 1 \in 1 .. n /\ got + (head + 1) = start[k] + MetaInt + 1
  BY <1>1, <1>2, <1>3
<1>7. Slice(b, stream, got, n)
  BY ReceivedSlice
<1>8. Value(b, head + 1) = {u}
  <2>1. b[head + 1] = stream[got + (head + 1)]
    BY <1>6, <1>7, Zenon DEF Slice
  <2>2. b[head + 1].kind = "count" /\ b[head + 1].value = u
    BY <1>5, <1>6, <2>1, Zenon DEF Holds
  <2> HIDE DEF b, head, u
  <2>3. QED
    BY <2>2 DEF Value
<1>9. /\ Deliver(n, 0, rest >= 0, kept)
      /\ c' = rest /\ first_meta_size' = first_meta_size
  <2>1. ~(metaint - c < 0) /\ metaint - c = head
    BY <1>1
  <2>2. /\ \E units \in Value(b, head + 1) :
             LET r == n - head - (Unit * units + 1) IN
             /\ Deliver(n, 0, r >= 0, SubSeq(b, 1, head) \o SubSeq(b, n - r + 1, n))
             /\ c' = NextChunk(r)
        /\ first_meta_size' = first_meta_size
    BY <2>1, Zenon DEF ReadAcross
  <2> HIDE DEF b, head, u, rest, kept
  <2>3. LET r == n - head - (Unit * u + 1) IN
        /\ Deliver(n, 0, r >= 0, SubSeq(b, 1, head) \o SubSeq(b, n - r + 1, n))
        /\ c' = NextChunk(r)
    BY <1>8, <2>2, Zenon
  <2>4. QED
    BY <2>2, <2>3, Zenon DEF rest, kept, NextChunk
<1>10. w \in Nat /\ start[k + 1] \in Nat /\ start[k + 1] = start[k] + MetaInt + 1 + w
       /\ start[k + 1] <= Len(stream)
  <2>1. k + 1 \in 0 .. Titles
    BY <1>1, <1>4
  <2>2. start[k + 1] <= Len(stream)
    BY <2>1, Zenon DEF Layout
  <2>3. QED
    BY <1>5, <2>2, Zenon DEF Holds
<1> HIDE DEF b, w, u, kept
<1>11. got + n = start[k + 1] + rest /\ rest \in Int /\ rest <= n - head - 1
  BY <1>1, <1>3, <1>6, <1>10, SMTT(30)
<1>12. rest >= 0
  <2> SUFFICES ASSUME rest < 0 PROVE FALSE
    BY <1>11
  <2> DEFINE j == got + n + 1
  <2>0. j <= start[k + 1] /\ j \in Nat /\ got + n < Len(stream)
    <3>1. got + n \in Nat
      BY <1>1
    <3> HIDE DEF c, rest, head
    <3>2. QED
      BY <1>1, <1>10, <1>11, <3>1, Below
  <2>1. j \in start[k] + MetaInt + 2 .. start[k + 1]
    <3> HIDE DEF c, rest, head
    <3>1. j <= start[k + 1] /\ j \in Nat
      BY <2>0
    <3>2. j >= start[k] + MetaInt + 2
      <4>1. c + n >= MetaInt + 1
        BY <1>1, <1>2
      <4>2. got + n = start[k] + (c + n)
        BY <1>1, <1>3
      <4>3. start[k] + (c + n) + 1 >= start[k] + MetaInt + 2
        BY <1>1, <1>3, <4>1, Shifted, SMTT(30)
      <4>4. QED
        BY <4>2, <4>3
    <3> HIDE DEF j
    <3>3. QED
      BY <1>1, <1>3, <1>10, <3>1, <3>2
  <2>2. stream[j].kind = "title"
    BY <1>5, <2>1, Zenon DEF Holds
  <2>3. QED
    BY <2>0, <2>2, Zenon DEF Inside, WholeTitles
<1> HIDE DEF rest
<1>13. /\ rest <= MetaInt /\ (k + 1 = Titles => rest = 0)
       /\ \A i \in 1 .. rest : stream[start[k + 1] + i] = Audio((k + 1) * MetaInt + i)
  <2>1. rest \in Nat /\ got <= start[k] + MetaInt /\ n > 0 /\ rest <= n
    <3>1. n > 0
      BY <1>1, <1>2
    <3>2. got <= start[k] + MetaInt
      BY <1>1, <1>3
    <3> HIDE DEF head
    <3>3. rest \in Nat /\ rest <= n
      BY <1>1, <1>6, <1>11, <1>12
    <3>4. QED
      BY <3>1, <3>2, <3>3
  <2>2. QED
    BY <1>4, <1>11, <2>1, AfterTitle
<1>14. ~fault' /\ given' = given \o kept /\ got' = got + n + 0
  BY <1>9, <1>12, Zenon DEF Deliver
<1>15. given' = Heard((k + 1) * MetaInt + rest)
  <2> DEFINE s1 == SubSeq(b, 1, head)
             s2 == SubSeq(b, n - rest + 1, n)
             m == k * MetaInt
             mc == m + c
             l == head + rest
  <2> HIDE DEF head
  <2>1. b \in Seq(Bytes) /\ Len(b) = n /\ \A i \in 1 .. n : b[i] = stream[got + i]
    BY <1>7, Zenon DEF Slice
  <2>2. Slice(s1, b, 0, head)
    <3>1. 1 = 0 + 1 /\ head = 0 + head /\ 0 + head <= Len(b) /\ 0 \in Nat /\ head \in Nat
      BY <1>1, <1>6, <2>1
    <3>2. QED
      BY <2>1, <3>1, SubSeqSlice, ZenonT(30)
  <2>3. n - rest \in Nat /\ n - rest + rest = n /\ rest \in Nat
    BY <1>1, <1>6, <1>11, <1>12
  <2>4. Slice(s2, b, n - rest, rest)
    <3> DEFINE g == n - rest
    <3>1. g \in Nat /\ n = g + rest /\ g + rest <= Len(b)
      BY <1>1, <2>1, <2>3
    <3> HIDE DEF g
    <3>2. Slice(SubSeq(b, g + 1, n), b, g, rest)
      BY <2>1, <2>3, <3>1, SubSeqSlice
    <3>3. QED
      BY <3>2, Zenon DEF g
  <2>5. s1 \in Seq(Bytes) /\ s2 \in Seq(Bytes) /\ head = Len(s1) /\ rest = Len(s2)
    BY <2>2, <2>4, Zenon DEF Slice
  <2>6. kept = s1 \o s2
    BY DEF kept
  <2> HIDE DEF s1, s2
  <2>7. Joined(kept, s1, s2, head, rest, Bytes)
    BY <2>5, <2>6, AppendedAt, Zenon
  <2>8. m \in Nat /\ (k + 1) * MetaInt = m + MetaInt
    BY <1>1, Products
  <2> HIDE DEF m
  <2>9. mc \in Nat /\ l \in Nat /\ mc + head = m + MetaInt
    BY <1>1, <1>6, <2>3, <2>8 DEF head
  <2>10. ASSUME NEW i \in 1 .. l PROVE kept[i] = Audio(mc + i)
    <3>1. CASE i \in 1 .. head
      <4> DEFINE j == got + i
      <4>1. j \in start[k] + 1 .. start[k] + MetaInt /\ m + (j - start[k]) = mc + i
        <5>1. i \in Nat /\ 1 <= i /\ c + i <= MetaInt
          BY <1>1, <3>1 DEF head
        <5>2. j = start[k] + (c + i)
          BY <1>1, <1>3, <5>1, SMTT(30)
        <5>3. j - start[k] = c + i
          BY <1>1, <1>3, <5>1, <5>2, SMTT(30)
        <5>4. m + (c + i) = mc + i
          BY <1>1, <2>8, <5>1
        <5>5. c + i \in 1 .. MetaInt /\ c + i \in Nat
          BY <1>1, <5>1
        <5>6. j \in start[k] + 1 .. start[k] + MetaInt
          <6> HIDE DEF j
          <6>1. QED
            BY <1>1, <1>3, <5>2, <5>5, Shifted, Zenon
        <5> HIDE DEF j, mc, c
        <5>7. QED
          BY <5>3, <5>4, <5>6, Zenon
      <4>2. stream[j] = Audio(m + (j - start[k]))
        BY <1>5, <4>1, Zenon DEF Holds, m
      <4>3. i \in 1 .. n /\ 0 + i = i
        BY <1>1, <1>6, <3>1
      <4>4. kept[i] = s1[i] /\ s1[i] = b[0 + i]
        BY <2>2, <2>7, <3>1, Zenon DEF Joined, Slice
      <4>5. b[i] = stream[j]
        BY <2>1, <4>3, Zenon
      <4>6. QED
        BY <4>1, <4>2, <4>3, <4>4, <4>5, Zenon
    <3>2. CASE i \notin 1 .. head
      <4>1. PICK j \in 1 .. rest : i = head + j
        <5>1. i - head \in 1 .. rest /\ i = head + (i - head)
          BY <1>6, <2>3, <3>2
        <5>2. QED
          BY <5>1
      <4>2. kept[head + j] = s2[j] /\ s2[j] = b[(n - rest) + j]
        BY <2>4, <2>7, <4>1, Zenon DEF Joined, Slice
      <4>3. (n - rest) + j \in 1 .. n /\ got + ((n - rest) + j) = start[k + 1] + j
        <5>1. rest <= n
          BY <1>1, <2>3
        <5> HIDE DEF mc, l, c
        <5>2. /\ (n - rest) + j \in 1 .. n
              /\ got + ((n - rest) + j) = (got + n - rest) + j
          BY <1>1, <2>3, <4>1, <5>1, Regrouped
        <5>3. got + n - rest = start[k + 1]
          BY <1>1, <1>10, <1>11, <2>3, SMTT(30)
        <5>4. QED
          BY <5>2, <5>3
      <4>4. b[(n - rest) + j] = stream[start[k + 1] + j]
        BY <2>1, <4>3, Zenon
      <4>5. stream[start[k + 1] + j] = Audio((k + 1) * MetaInt + j)
        BY <1>13, Zenon
      <4>6. (k + 1) * MetaInt + j = mc + i
        BY <1>1, <1>6, <2>8, <2>9, <4>1, SMTT(30)
      <4>7. QED
        BY <4>1, <4>2, <4>4, <4>5, <4>6, Zenon
    <3>3. QED
      BY <3>1, <3>2
  <2>11. kept \in Seq(Bytes) /\ Len(kept) = l
    BY <2>7, Zenon DEF Joined
  <2>12. (k + 1) * MetaInt + rest = mc + l
    BY <1>1, <1>6, <2>3, <2>8, <2>9
  <2>13. given = Heard(mc)
    BY Zenon DEF Between, m
  <2> HIDE DEF mc, l
  <2>14. Heard(mc) \o kept = Heard(mc + l)
    BY <2>9, <2>10, <2>11, HeardMore
  <2>15. QED
    BY <1>14, <2>12, <2>13, <2>14, Zenon
<1>16. k + 1 \in 0 .. Titles /\ rest \in 0 .. MetaInt
  BY <1>1, <1>4, <1>11, <1>12, <1>13
<1>17. got' = start[k + 1] + rest
  BY <1>1, <1>11, <1>14
<1>18. Between(start, k + 1)'
  <2>1. first_meta_size' = 0
    BY <1>9, Zenon DEF Between
  <2>2. QED
    BY <1>9, <1>13, <1>15, <1>16, <1>17, <2>1, Zenon DEF Between
<1>19. QED
  BY <1>14, <1>16, <1>18, Zenon DEF Somewhere

LEMMA InTitle ==
  ASSUME NEW g \in Nat, NEW n \in Nat, NEW w \in Nat, NEW z \in Nat, NEW l \in Nat,
         n + 1 <= w, z = g + w, z <= l
  PROVE  g + n + 1 \in g + 1 .. z /\ g + n < l
OBVIOUS

LEMMA TitleStep ==
  ASSUME NEW start, NEW titles, Layout(stream, start, titles),
         NEW k, AtTitle(start, titles, k), NEW n, WholeTitles(n), ReadTitle(n)
  PROVE  ~fault' /\ Somewhere(start, titles)'
<1> DEFINE w == Unit * titles[k + 1]
           b == Received(n)
           t == SubSeq(b, w + 1, n)
           rest == n - w
           m == k * MetaInt + MetaInt
<1>1. /\ n \in Nat /\ k \in 0 .. Titles - 1 /\ metaint = MetaInt /\ got \in Nat
      /\ first_meta_size = w /\ w > 0 /\ got = start[k] + MetaInt + 1
      /\ got + n <= Len(stream) /\ MetaInt \in Nat /\ MetaInt > 0 /\ Titles \in Nat
      /\ Len(stream) \in Nat /\ given = Heard(m)
  BY ConstantTypes DEF WholeTitles, AtTitle
<1>2. Holds(start, titles, k)
  BY <1>1, LayoutHolds, Zenon
<1>3. /\ w \in Nat /\ start[k] \in Nat /\ start[k + 1] \in Nat
      /\ start[k + 1] = start[k] + MetaInt + 1 + w
      /\ start[k + 1] <= Len(stream)
  <2>1. k + 1 \in 0 .. Titles
    BY <1>1
  <2>2. start[k + 1] <= Len(stream)
    BY <2>1, Zenon DEF Layout
  <2>3. QED
    BY <1>2, <2>2, Zenon DEF Holds
<1>4. Slice(b, stream, got, n)
  BY ReceivedSlice
<1>5. /\ Deliver(n, 0, n >= w, t) /\ current_meta_chunk' = rest
      /\ first_meta_size' = 0
  BY <1>1, Zenon DEF ReadTitle
<1> HIDE DEF b, t, w
<1>6. \A j \in got + 1 .. start[k + 1] : stream[j].kind = "title"
  <2>1. got + 1 = start[k] + MetaInt + 2
    <3>1. \A a \in Nat : \A g : g = a + MetaInt + 1 => g + 1 = a + MetaInt + 2
      BY ConstantTypes
    <3>2. QED
      BY <1>1, <1>3, <3>1, Zenon
  <2>2. QED
    BY <1>2, <2>1, Zenon DEF Holds
<1>7. start[k + 1] = got + w
  BY <1>1, <1>3
<1>8. n >= w
  <2> SUFFICES ASSUME n < w PROVE FALSE
    BY <1>1, <1>3
  <2>1. got + n + 1 \in got + 1 .. start[k + 1] /\ got + n < Len(stream)
    <3>1. n + 1 <= w
      BY <1>1, <1>3
    <3>2. QED
      BY <1>1, <1>3, <1>7, <3>1, InTitle
  <2>2. stream[got + n + 1].kind = "title"
    BY <1>6, <2>1, Zenon
  <2>3. QED
    BY <2>1, <2>2, Zenon DEF Inside, WholeTitles
<1>9. Inside(got)
  <2>1. got + 1 \in got + 1 .. start[k + 1] /\ got < Len(stream)
    <3>1. 0 + 1 <= w /\ got + 0 = got
      BY <1>1, <1>3
    <3>2. got + 0 + 1 \in got + 1 .. start[k + 1] /\ got + 0 < Len(stream)
      BY <1>1, <1>3, <1>7, <3>1, InTitle
    <3>3. QED
      BY <3>1, <3>2
  <2>2. QED
    BY <1>6, <2>1, Zenon DEF Inside
<1>10. rest \in Nat /\ rest <= n /\ n > 0 /\ got + n = start[k + 1] + rest
       /\ w + rest = n
  BY <1>1, <1>3, <1>7, <1>8
<1> HIDE DEF rest
<1>11. /\ rest <= MetaInt /\ (k + 1 = Titles => rest = 0)
       /\ \A i \in 1 .. rest : stream[start[k + 1] + i] = Audio((k + 1) * MetaInt + i)
  BY <1>1, <1>9, <1>10, AfterTitle
<1>12. ~fault' /\ given' = given \o t /\ got' = got + n + 0
  BY <1>5, <1>8, Zenon DEF Deliver
<1>13. m \in Nat /\ (k + 1) * MetaInt = m
  <2>1. k * MetaInt \in Nat
    BY <1>1, Products
  <2>2. QED
    BY <1>1, <2>1
<1>14. given' = Heard(m + rest)
  <2>1. b \in Seq(Bytes) /\ Len(b) = n /\ \A i \in 1 .. n : b[i] = stream[got + i]
    BY <1>4, Zenon DEF Slice
  <2>2. Slice(t, b, w, rest)
    BY <1>3, <1>10, <2>1, SubSeqSlice DEF t
  <2>3. t \in Seq(Bytes) /\ Len(t) = rest
    BY <2>2, Zenon DEF Slice
  <2>4. ASSUME NEW i \in 1 .. rest PROVE t[i] = Audio(m + i)
    <3>1. t[i] = b[w + i]
      BY <2>2, Zenon DEF Slice
    <3>2. w + i \in 1 .. n /\ got + (w + i) = start[k + 1] + i
      BY <1>1, <1>3, <1>7, <1>10
    <3>3. b[w + i] = stream[start[k + 1] + i]
      BY <2>1, <3>2, Zenon
    <3>4. stream[start[k + 1] + i] = Audio((k + 1) * MetaInt + i)
      BY <1>11, Zenon
    <3>5. QED
      BY <1>13, <3>1, <3>3, <3>4, Zenon
  <2> HIDE DEF m
  <2>5. Heard(m) \o t = Heard(m + rest)
    BY <1>10, <1>13, <2>3, <2>4, HeardMore
  <2>6. QED
    BY <1>1, <1>12, <2>5, Zenon
<1>15. k + 1 \in 0 .. Titles /\ rest \in 0 .. MetaInt
  BY <1>1, <1>10, <1>11
<1>16. got' = start[k + 1] + rest
  BY <1>1, <1>10, <1>12
<1>17. given' = Heard((k + 1) * MetaInt + rest)
  BY <1>13, <1>14, Zenon
<1>18. Between(start, k + 1)'
  BY <1>5, <1>11, <1>15, <1>16, <1>17, Zenon DEF Between, rest
<1>19. QED
  BY <1>12, <1>15, <1>18, Zenon DEF Somewhere
------------------------------------------------------------------------------
LEMMA ReadKeeps ==
  ASSUME IInv, Read
  PROVE  IInv'
<1>1. PICK n \in 0 .. Length :
        /\ got + n <= Len(stream)
        /\ ReadTitle(n) \/ ReadUpTo(n) \/ ReadAcross(n) \/ ReadWithin(n)
        /\ spoilt' = spoilt \cup Oddities(n)
             \cup (IF AtEnd(n) /\ first_meta_size = 0 /\ got' = got + n
                   THEN {"no length"} ELSE {})
  BY Zenon DEF Read
<1>1a. open
  BY Zenon DEF Read
<1>2. n \in Nat /\ got \in Nat /\ stream \in Seq(Bytes) /\ Len(stream) \in Nat
      /\ first_meta_size \in Nat
  BY ConstantTypes DEF IInv
<1>3. UNCHANGED session
  BY <1>1, Zenon DEF ReadTitle, ReadUpTo, ReadAcross, ReadWithin, Deliver
<1>4. got' \in Nat
  <2>1. \E s \in {0, 1} : got' = got + n + s
    BY <1>1, Zenon DEF ReadTitle, ReadUpTo, ReadAcross, ReadWithin, Deliver
  <2>2. QED
    BY <1>2, <2>1
<1>5. first_meta_size' \in Nat
  <2>1. CASE ReadTitle(n)
    BY <2>1 DEF ReadTitle
  <2>2. CASE ReadUpTo(n)
    <3>1. PICK units : first_meta_size' = Unit * units
                       /\ (units \in Units \/ (/\ units \in Value(stream, got + n + 1)
                                               /\ got + n < Len(stream)))
      BY <2>2, Zenon DEF ReadUpTo
    <3>2. units \in Units
      <4>1. CASE units \in Value(stream, got + n + 1) /\ got + n < Len(stream)
        <5>1. stream[got + n + 1] \in Bytes
          BY <1>2, <4>1
        <5>2. stream[got + n + 1].kind = "count" => stream[got + n + 1].value \in Units
          BY <5>1, CountsInUnits, Zenon
        <5>3. QED
          BY <4>1, <5>2, Zenon DEF Value
      <4>2. QED
        BY <3>1, <4>1
    <3>3. QED
      BY <3>1, <3>2, UnitsNat, Zenon
  <2>3. CASE ReadAcross(n)
    BY <1>2, <2>3, Zenon DEF ReadAcross
  <2>4. CASE ReadWithin(n)
    BY <1>2, <2>4, Zenon DEF ReadWithin
  <2>5. QED
    BY <1>1, <2>1, <2>2, <2>3, <2>4
<1>6. ASSUME spoilt' = {} PROVE ~fault' /\ Playing'
  <2>1. spoilt = {} /\ Oddities(n) = {}
        /\ ~(AtEnd(n) /\ first_meta_size = 0 /\ got' = got + n)
    BY <1>1, <1>6
  <2>2. ~Inside(got + n) /\ ~(Blocks(n) > 1)
    BY <2>1 DEF Oddities
  <2>3. Playing
    BY <1>1a, <2>1, Zenon DEF IInv, Unopened
  <2>4. metaint = MetaInt
    BY <2>3, Zenon DEF Playing
  <2>5. PICK start, titles : Layout(stream, start, titles) /\ Somewhere(start, titles)
    BY <2>3, Zenon DEF Playing
  <2>6. WholeTitles(n)
    BY <1>1, <1>2, <2>2, <2>4, Zenon DEF WholeTitles
  <2>7. ~fault' /\ Somewhere(start, titles)'
    <3>1. PICK k \in 0 .. Titles : Between(start, k) \/ AtTitle(start, titles, k)
      BY <2>5, Zenon DEF Somewhere
    <3>2. CASE AtTitle(start, titles, k)
      <4>1. first_meta_size # 0
        BY <3>2 DEF AtTitle
      <4>2. ReadTitle(n)
        BY <1>1, <4>1, Zenon DEF ReadUpTo, ReadAcross, ReadWithin
      <4>3. QED
        BY <2>5, <2>6, <3>2, <4>2, TitleStep, Zenon
    <3>3. CASE Between(start, k)
      <4>1. first_meta_size = 0
        BY <3>3, Zenon DEF Between
      <4>2. ~ReadTitle(n)
        BY <4>1 DEF ReadTitle
      <4>3. CASE ReadUpTo(n)
        <5>1. got' # got + n
          BY <2>1, <4>1, <4>3, Zenon DEF ReadUpTo
        <5>2. QED
          BY <2>5, <2>6, <3>3, <4>3, <5>1, UpToStep, Zenon
      <4>4. CASE ReadAcross(n)
        BY <2>5, <2>6, <3>3, <4>4, AcrossStep, Zenon
      <4>5. CASE ReadWithin(n)
        <5>1. ~fault' /\ Between(start, k)'
          BY <2>5, <2>6, <3>3, <4>5, WithinStep, Zenon
        <5>2. QED
          BY <5>1, Zenon DEF Somewhere
      <4>6. QED
        BY <1>1, <4>2, <4>3, <4>4, <4>5
    <3>4. QED
      BY <3>1, <3>2, <3>3
  <2>8. Layout(stream, start, titles)'
    <3>1. stream' = stream
      BY <1>3 DEF session
    <3>2. QED
      BY <2>5, <3>1, Zenon
  <2>9. metaint' = MetaInt
    BY <1>3, <2>4 DEF session
  <2>10. QED
    BY <2>7, <2>8, <2>9, Zenon DEF Playing
<1>7. stream' \in Seq(Bytes)
  BY <1>2, <1>3 DEF session
<1>8. QED
  BY <1>4, <1>5, <1>6, <1>7, Zenon DEF IInv

LEMMA OpenKeeps ==
  ASSUME IInv, Open
  PROVE  IInv'
<1>1. /\ first_meta_size \in Nat /\ first_meta_size' = first_meta_size
      /\ got' = 0 /\ current_meta_chunk' = 0 /\ given' = <<>> /\ ~fault'
  BY DEF IInv, Open
<1>2. CASE /\ metaint' = MetaInt
           /\ \E titles \in [1 .. Titles -> Units] : stream' = StreamOf(titles)
           /\ spoilt' = IF first_meta_size > 0 THEN {"left over"} ELSE {}
  <2>1. PICK titles \in [1 .. Titles -> Units] : stream' = StreamOf(titles)
    BY <1>2
  <2>2. /\ StreamOf(titles) \in Seq(Bytes)
        /\ \E start : Layout(StreamOf(titles), start, titles)
    BY StreamLayout
  <2>3. PICK start : Layout(StreamOf(titles), start, titles)
    BY <2>2, Zenon
  <2>4. stream' \in Seq(Bytes) /\ Layout(stream', start, titles)
    BY <2>1, <2>2, <2>3, Zenon
  <2>5. ASSUME spoilt' = {} PROVE Playing'
    <3>1. ~(first_meta_size > 0)
      BY <1>2, <2>5
    <3>2. first_meta_size' = 0
      BY <1>1, <3>1
    <3>3. /\ 0 \in 0 .. Titles /\ 0 \in 0 .. MetaInt /\ start[0] = 0
          /\ 0 = start[0] + 0 /\ 0 * MetaInt + 0 = 0
      BY <2>4, ConstantTypes DEF Layout
    <3>4. given' = Heard(0)
      BY <1>1 DEF Heard
    <3>5. Between(start, 0)'
      BY <1>1, <3>2, <3>3, <3>4, Zenon DEF Between
    <3>6. Somewhere(start, titles)'
      BY <3>3, <3>5, Zenon DEF Somewhere
    <3>7. QED
      BY <1>2, <2>4, <3>6, Zenon DEF Playing
  <2>6. got' \in Nat
    BY <1>1
  <2>7. QED
    BY <1>1, <2>4, <2>5, <2>6, Zenon DEF IInv
<1>3. CASE /\ stream' = FlattenSeq([k \in 1 .. Titles |-> Chunk(k)])
           /\ spoilt' = {"no titles"}
  <2>1. spoilt' # {}
    BY <1>3
  <2>2. stream' \in Seq(Bytes)
    BY <1>3, AudioStream, Zenon
  <2>3. got' \in Nat
    BY <1>1
  <2>4. QED
    BY <1>1, <2>1, <2>2, <2>3, Zenon DEF IInv
<1>4. QED
  BY <1>2, <1>3, Zenon DEF Open

(* The inductive invariant. *)
LEMMA Invariant == Spec => []IInv
<1>1. Init => IInv
  BY DEF Init, IInv, Unopened
<1>2. IInv /\ [Next]_vars => IInv'
  <2> SUFFICES ASSUME IInv, [Next]_vars PROVE IInv'
    OBVIOUS
  <2>1. CASE Open
    BY <2>1, OpenKeeps
  <2>2. CASE Read
    BY <2>2, ReadKeeps
  <2>3. CASE Close
    <3>1. /\ UNCHANGED <<stream, got, metaint, current_meta_chunk, first_meta_size,
                         fault, given, spoilt>>
          /\ ~open'
      BY <2>3 DEF Close
    <3>2. QED
      BY <3>1 DEF IInv, Unopened, Playing, Somewhere, Between, AtTitle
  <2>4. CASE UNCHANGED vars
    BY <2>4 DEF vars, session, IInv, Unopened, Playing, Somewhere, Between, AtTitle
  <2>5. QED
    BY <2>1, <2>2, <2>3, <2>4 DEF Next
<1>3. QED
  BY <1>1, <1>2, PTL DEF Spec

LEMMA SoundIsHeard ==
  ASSUME IInv, spoilt = {}
  PROVE  given = Sound(got)
<1>1. CASE Unopened
  <2>1. Places("audio", 1, got) = {}
    BY <1>1 DEF Places, Unopened
  <2>2. Cardinality(Places("audio", 1, got)) = 0
    BY <2>1, FS_EmptySet
  <2>3. QED
    BY <1>1, <2>2 DEF Sound, Unopened
<1>2. CASE Playing
  <2>0. PICK start, titles : Layout(stream, start, titles) /\ Somewhere(start, titles)
    BY <1>2, Zenon DEF Playing
  <2>1. PICK k \in 0 .. Titles :
          /\ Layout(stream, start, titles)
          /\ Between(start, k) \/ AtTitle(start, titles, k)
    BY <2>0, Zenon DEF Somewhere
  <2>2. Cardinality(Places("audio", 1, start[k])) = k * MetaInt
    BY <2>1, AudioAtStart, Zenon
  <2>3. CASE Between(start, k)
    <3> DEFINE c == current_meta_chunk
    <3>1. got = start[k] + c /\ given = Heard(k * MetaInt + c) /\ c \in 0 .. MetaInt
      BY <2>3, Zenon DEF Between
    <3>2. Cardinality(Places("audio", 1, got)) = k * MetaInt + c
      <4>1. CASE k = Titles
        <5>1. c = 0 /\ start[k] \in Nat /\ k * MetaInt \in Nat
          BY <2>1, <2>3, <4>1, ConstantTypes, Products DEF Between, Layout
        <5>2. start[k] + c = start[k] /\ k * MetaInt + c = k * MetaInt
          BY <5>1
        <5>3. QED
          BY <2>2, <3>1, <5>2, Zenon
      <4>2. CASE k # Titles
        <5>1. k \in 0 .. Titles - 1
          BY <4>2, ConstantTypes
        <5>2. Holds(start, titles, k)
          BY <2>1, <5>1, LayoutHolds, Zenon
        <5>3. QED
          BY <2>2, <3>1, <5>1, <5>2, AudioInChunk, Zenon
      <4>3. QED
        BY <4>1, <4>2
    <3>3. QED
      BY <3>1, <3>2, Zenon DEF Sound, Heard
  <2>4. CASE AtTitle(start, titles, k)
    <3>1. k \in 0 .. Titles - 1 /\ given = Heard(k * MetaInt + MetaInt)
          /\ got = start[k] + MetaInt + 1
      BY <2>4, Zenon DEF AtTitle
    <3>2. Holds(start, titles, k)
      BY <2>1, <3>1, LayoutHolds, Zenon
    <3>3. MetaInt \in 0 .. MetaInt
      BY ConstantTypes
    <3>4. Cardinality(Places("audio", 1, start[k] + MetaInt)) = k * MetaInt + MetaInt
      BY <2>2, <3>1, <3>2, <3>3, AudioInChunk, Zenon
    <3>5. Places("audio", 1, got) = Places("audio", 1, start[k] + MetaInt)
      <4> DEFINE a == start[k] + MetaInt
      <4>1. a \in Nat
        BY <3>2, ConstantTypes DEF Holds
      <4>2. stream[a + 1].kind = "count" /\ got = a + 1
        BY <3>1, <3>2, Zenon DEF Holds
      <4> HIDE DEF a
      <4>3. 1 .. a + 1 = (1 .. a) \cup {a + 1}
        BY <4>1
      <4>4. "count" # "audio"
        OBVIOUS
      <4>5. Places("audio", 1, a + 1) = Places("audio", 1, a)
        BY <4>2, <4>3, <4>4, Zenon DEF Places
      <4>6. QED
        BY <4>2, <4>5 DEF a
    <3>6. QED
      BY <3>1, <3>4, <3>5, Zenon DEF Sound, Heard
  <2>5. QED
    BY <2>1, <2>3, <2>4
<1>3. QED
  BY <1>1, <1>2, Zenon DEF IInv

(* In every session whose reads meet whole titles, one at a time, the player has
   been given exactly the audio of what was received, and nothing was moved out
   of the buffer (shoutcast_session_read, lines 587-637). *)
THEOREM OnlyOddReads == Spec => []OnlyOddReadsSpoil
<1>1. IInv => OnlyOddReadsSpoil
  BY SoundIsHeard, Zenon DEF OnlyOddReadsSpoil, IInv
<1>2. QED
  BY <1>1, Invariant, PTL
============================================================================
