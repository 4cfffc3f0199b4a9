---------------------------- MODULE LibraryProofs ----------------------------
(***************************************************************************)
(* Theorems about the libraries the server is built on, which know nothing *)
(* of each other: the packet parser, the nodes of an XML document and the  *)
(* timer.  They are for any packets, noise and number of frames, any       *)
(* memory, and any number of timers and clients and any intervals.         *)
(***************************************************************************)
EXTENDS Timers, ProtocolParser, XmlTree,
        SequenceTheorems, FiniteSetTheorems, WellFoundedInduction, TLAPS
-----------------------------------------------------------------------------
(***************************************************************************)
(* ProtocolParser.  The packets handed to the callback are those that were *)
(* sent, none is left in the buffer, the memory follows what waits, and a  *)
(* negative length blocks the link for good.                               *)
(*                                                                         *)
(* What FlattenSeq and getCheckSum compute they compute by recursion over a*)
(* sequence; the lemmas about them rest on an induction over the natural   *)
(* numbers that is about a set, and follows from the well-founded ordering *)
(* of the subsets of a finite set.                                         *)
(***************************************************************************)
(* Induction over the natural numbers, of a set.                           *)
LEMMA Induction ==
  ASSUME NEW T, 0 \in T, \A n \in Nat : n \in T => n + 1 \in T
  PROVE  Nat \subseteq T
<1> SUFFICES ASSUME NEW n \in Nat, n \notin T PROVE FALSE
  OBVIOUS
<1> DEFINE S == 0 .. n
           R == StrictSubsetOrdering(S)
           U == {A \in SUBSET S : \E k \in S : A = 0 .. k /\ k \notin T}
<1>1. IsWellFoundedOn(R, SUBSET S)
  <2>1. IsFiniteSet(S)
    BY FS_Interval, SMT
  <2> QED
    BY <2>1, FS_FiniteSubsetsOfFinite, FS_StrictSubsetOrderingWellFounded, Zenon
<1>2. S \in U
  BY SMT
<1>3. PICK A \in U : \A B \in U : ~ (<<B, A>> \in R)
  <2>1. U \subseteq SUBSET S /\ U # {}
    BY <1>2
  <2> HIDE DEF U, R, S
  <2> QED
    BY <1>1, <2>1, WFMin
<1>4. PICK k \in S : A = 0 .. k /\ k \notin T
  OBVIOUS
<1>5. k \in Nat /\ k # 0 /\ k - 1 \in Nat /\ k - 1 \in S /\ (k - 1) + 1 = k
  BY <1>4
<1>6. k - 1 \notin T
  BY <1>4, <1>5
<1>7. 0 .. (k - 1) \in U
  BY <1>5, <1>6
<1>8. 0 .. (k - 1) \subseteq A /\ 0 .. (k - 1) # A
  BY <1>4, <1>5, SMT
<1>9. <<0 .. (k - 1), A>> \in R
  BY <1>7, <1>8 DEF StrictSubsetOrdering
<1> QED
  BY <1>3, <1>7, <1>9
-----------------------------------------------------------------------------
(* Concatenation is associative.                                           *)
Associates(S) == \A a, b, c \in Seq(S) : (a \o b) \o c = a \o (b \o c)

LEMMA Associative ==
  ASSUME NEW S
  PROVE  Associates(S)
  BY ConcatAssociative DEF Associates

(* f holds the concatenations of the beginnings of s up to the m-th.       *)
Concatenates(f, s, m) == f = [i \in 1 .. m |-> IF i = 1 THEN s[i] ELSE f[i - 1] \o s[i]]

(* Each such f is, from its second element on, the one before and s[i].    *)
LEMMA ConcatenatesAt ==
  ASSUME NEW s, NEW m, NEW f, Concatenates(f, s, m)
  PROVE  \A i \in 1 .. m : f[i] = IF i = 1 THEN s[i] ELSE f[i - 1] \o s[i]
<1> DEFINE F == [i \in 1 .. m |-> IF i = 1 THEN s[i] ELSE f[i - 1] \o s[i]]
<1>1. \A i \in 1 .. m : F[i] = IF i = 1 THEN s[i] ELSE f[i - 1] \o s[i]
  OBVIOUS
<1>2. f = F
  BY DEF Concatenates
<1> HIDE DEF F
<1> QED
  BY <1>1, <1>2

(* There is one for every sequence of sequences, of each length.           *)
LEMMA Concatenation ==
  ASSUME NEW s, NEW m \in Nat
  PROVE  \E f : Concatenates(f, s, m)
<1> DEFINE T == {n \in Nat : \E f : Concatenates(f, s, n)}
<1>1. 0 \in T
  <2>1. Concatenates(<<>>, s, 0)
    BY DEF Concatenates
  <2> QED
    BY <2>1
<1>2. ASSUME NEW n \in Nat, n \in T
      PROVE  n + 1 \in T
  <2>1. PICK f : Concatenates(f, s, n)
    BY <1>2
  <2> DEFINE g == [i \in 1 .. n + 1 |-> IF i = 1 THEN s[i] ELSE f[i - 1] \o s[i]]
  <2>2. \A i \in 1 .. n : g[i] = f[i]
    <3>1. \A i \in 1 .. n : f[i] = IF i = 1 THEN s[i] ELSE f[i - 1] \o s[i]
      BY <2>1, ConcatenatesAt
    <3>2. \A i \in 1 .. n : i \in 1 .. n + 1
      OBVIOUS
    <3> QED
      BY <3>1, <3>2
  <2>3. \A i \in 1 .. n + 1 : g[i] = IF i = 1 THEN s[i] ELSE g[i - 1] \o s[i]
    <3>1. TAKE i \in 1 .. n + 1
    <3>2. i # 1 => i - 1 \in 1 .. n
      OBVIOUS
    <3> QED
      BY <2>2, <3>2
  <2> HIDE DEF g
  <2>4. g = [i \in 1 .. n + 1 |-> g[i]]
    BY DEF g
  <2>5. Concatenates(g, s, n + 1)
    BY <2>3, <2>4 DEF Concatenates
  <2> QED
    BY <2>5
<1> HIDE DEF T
<1>3. Nat \subseteq T
  BY <1>1, <1>2, Induction
<1> QED
  BY <1>3 DEF T

(* FlattenSeq is the last of the concatenations.                           *)
LEMMA Flattened ==
  ASSUME NEW s, Len(s) \in Nat, Len(s) # 0
  PROVE  \E f : Concatenates(f, s, Len(s)) /\ FlattenSeq(s) = f[Len(s)]
<1> DEFINE h == CHOOSE f : Concatenates(f, s, Len(s))
<1>1. Concatenates(h, s, Len(s))
  BY Concatenation
<1>2. FlattenSeq(s) = h[Len(s)]
  BY DEF FlattenSeq, Concatenates
<1> QED
  BY <1>1, <1>2

LEMMA FlattenEmpty == FlattenSeq(<<>>) = <<>>
  BY DEF FlattenSeq

(* Two such functions agree where both are defined.                        *)
Agree(s, t, m) == \A i \in 1 .. m : s[i] = t[i]

(* Sequences that agree up to m have the same concatenations up to m.      *)
LEMMA SameConcatenations ==
  ASSUME NEW s, NEW t, NEW m \in Nat, NEW n \in Nat, m <= n,
         Agree(s, t, m),
         NEW f, NEW g, Concatenates(f, s, m), Concatenates(g, t, n)
  PROVE  Agree(f, g, m)
<1> DEFINE T == {i \in Nat : i \in 1 .. m => f[i] = g[i]}
<1>1. 0 \in T
  OBVIOUS
<1>2. ASSUME NEW i \in Nat, i \in T
      PROVE  i + 1 \in T
  <2> SUFFICES ASSUME i + 1 \in 1 .. m PROVE f[i + 1] = g[i + 1]
    OBVIOUS
  <2>1. i + 1 \in 1 .. n /\ (i + 1) - 1 = i /\ s[i + 1] = t[i + 1]
    BY DEF Agree
  <2>2. f[i + 1] = IF i + 1 = 1 THEN s[i + 1] ELSE f[i] \o s[i + 1]
    BY <2>1, ConcatenatesAt
  <2>3. g[i + 1] = IF i + 1 = 1 THEN t[i + 1] ELSE g[i] \o t[i + 1]
    BY <2>1, ConcatenatesAt
  <2>4. i # 0 => i \in 1 .. m
    OBVIOUS
  <2>5. i # 0 => f[i] = g[i]
    BY <1>2, <2>4
  <2> QED
    BY <2>1, <2>2, <2>3, <2>5
<1> HIDE DEF T
<1>3. Nat \subseteq T
  BY <1>1, <1>2, Induction
<1> QED
  BY <1>3 DEF T, Agree

LEMMA FlattenType ==
  ASSUME NEW S, NEW s \in Seq(Seq(S))
  PROVE  FlattenSeq(s) \in Seq(S)
<1>1. CASE s = <<>>
  <2>1. FlattenSeq(s) = <<>>
    BY <1>1, FlattenEmpty
  <2> QED
    BY <2>1, EmptySeq
<1>2. CASE s # <<>>
  <2>1. Len(s) \in Nat /\ Len(s) # 0 /\ \A i \in 1 .. Len(s) : s[i] \in Seq(S)
    BY <1>2, EmptySeq, ElementOfSeq
  <2>2. PICK f : Concatenates(f, s, Len(s)) /\ FlattenSeq(s) = f[Len(s)]
    BY <2>1, Flattened
  <2> DEFINE T == {i \in Nat : i \in 1 .. Len(s) => f[i] \in Seq(S)}
  <2>3. 0 \in T
    OBVIOUS
  <2>4. ASSUME NEW i \in Nat, i \in T
        PROVE  i + 1 \in T
    <3> SUFFICES ASSUME i + 1 \in 1 .. Len(s) PROVE f[i + 1] \in Seq(S)
      OBVIOUS
    <3>1. f[i + 1] = IF i + 1 = 1 THEN s[i + 1] ELSE f[i] \o s[i + 1]
      <4>1. (i + 1) - 1 = i
        OBVIOUS
      <4> QED
        BY <2>2, <4>1, ConcatenatesAt
    <3>2. s[i + 1] \in Seq(S)
      BY <2>1
    <3>3. CASE i = 0
      BY <3>1, <3>2, <3>3
    <3>4. CASE i # 0
      <4>1. f[i] \in Seq(S)
        BY <2>1, <2>4, <3>4
      <4>2. f[i] \o s[i + 1] \in Seq(S)
        BY <4>1, <3>2, ConcatProperties
      <4> QED
        BY <3>1, <3>4, <4>2
    <3> QED
      BY <3>3, <3>4
  <2> HIDE DEF T
  <2>5. Nat \subseteq T
    BY <2>3, <2>4, Induction
  <2> QED
    BY <2>1, <2>2, <2>5 DEF T
<1> QED
  BY <1>1, <1>2

LEMMA FlattenAppend ==
  ASSUME NEW S, NEW s \in Seq(Seq(S)), NEW x \in Seq(S)
  PROVE  FlattenSeq(Append(s, x)) = FlattenSeq(s) \o x
<1> DEFINE t == Append(s, x)
<1>1. /\ t \in Seq(Seq(S)) /\ Len(t) = Len(s) + 1 /\ Len(s) \in Nat
      /\ \A i \in 1 .. Len(s) : t[i] = s[i]
      /\ t[Len(s) + 1] = x
  BY AppendProperties, EmptySeq
<1> HIDE DEF t
<1>2. PICK g : Concatenates(g, t, Len(s) + 1) /\ FlattenSeq(t) = g[Len(s) + 1]
  <2>1. Len(t) \in Nat /\ Len(t) # 0
    BY <1>1
  <2>2. \E f : Concatenates(f, t, Len(t)) /\ FlattenSeq(t) = f[Len(t)]
    BY <2>1, Flattened
  <2> QED
    BY <1>1, <2>2
<1>3. g[Len(s) + 1] = IF Len(s) + 1 = 1 THEN x ELSE g[Len(s)] \o x
  <2>1. Len(s) + 1 \in 1 .. Len(s) + 1 /\ (Len(s) + 1) - 1 = Len(s)
    BY <1>1
  <2> QED
    BY <1>1, <1>2, <2>1, ConcatenatesAt
<1>4. CASE s = <<>>
  <2>1. Len(s) = 0 /\ FlattenSeq(s) = <<>>
    BY <1>4, FlattenEmpty
  <2>2. <<>> \o x = x
    BY ConcatEmptySeq
  <2> QED
    BY <1>2, <1>3, <2>1, <2>2 DEF t
<1>5. CASE s # <<>>
  <2>1. Len(s) # 0
    BY <1>5, EmptySeq
  <2>2. PICK f : Concatenates(f, s, Len(s)) /\ FlattenSeq(s) = f[Len(s)]
    BY <1>1, <2>1, Flattened
  <2>3. Agree(f, g, Len(s))
    <3> DEFINE m == Len(s)
               n == Len(s) + 1
    <3>1. m \in Nat /\ n \in Nat /\ m <= n /\ Agree(s, t, m)
      BY <1>1 DEF Agree
    <3>2. Concatenates(f, s, m) /\ Concatenates(g, t, n)
      BY <1>2, <2>2
    <3> HIDE DEF m, n
    <3>3. Agree(f, g, m)
      BY <3>1, <3>2, SameConcatenations
    <3> QED
      BY <3>3 DEF m
  <2>4. f[Len(s)] = g[Len(s)]
    <3>1. Len(s) \in 1 .. Len(s)
      BY <1>1, <2>1
    <3> QED
      BY <2>3, <3>1 DEF Agree
  <2> QED
    BY <1>1, <1>2, <1>3, <2>1, <2>2, <2>4 DEF t
<1> QED
  BY <1>4, <1>5

LEMMA FlattenOne ==
  ASSUME NEW S, NEW x \in Seq(S)
  PROVE  FlattenSeq(<<x>>) = x
<1>1. Append(<<>>, x) = <<x>> /\ <<>> \in Seq(Seq(S))
  BY EmptySeq
<1>2. FlattenSeq(<<>>) \o x = x
  BY FlattenEmpty, ConcatEmptySeq
<1> QED
  BY <1>1, <1>2, FlattenAppend

(* Appending to a concatenation appends to its second part.                *)
LEMMA ConcatAppend ==
  ASSUME NEW S, NEW r \in Seq(S), NEW u \in Seq(S), NEW y \in S
  PROVE  r \o Append(u, y) = Append(r \o u, y) /\ r \o u \in Seq(S)
<1>1. <<y>> \in Seq(S)
  OBVIOUS
<1>2. r \o u \in Seq(S)
  BY ConcatProperties
<1>3. Append(u, y) = u \o <<y>> /\ Append(r \o u, y) = (r \o u) \o <<y>>
  BY <1>2, AppendIsConcat
<1>4. (r \o u) \o <<y>> = r \o (u \o <<y>>)
  <2>1. Associates(S)
    BY Associative
  <2> QED
    BY <1>1, <2>1 DEF Associates
<1> QED
  BY <1>2, <1>3, <1>4

LEMMA FlattenConcat ==
  ASSUME NEW S, NEW r \in Seq(Seq(S)), NEW s \in Seq(Seq(S))
  PROVE  FlattenSeq(r \o s) = FlattenSeq(r) \o FlattenSeq(s)
<1> DEFINE Q(t) == FlattenSeq(r \o t) = FlattenSeq(r) \o FlattenSeq(t)
           T == {n \in Nat : \A t \in Seq(Seq(S)) : Len(t) = n => Q(t)}
<1>1. FlattenSeq(r) \in Seq(S)
  BY FlattenType
<1>2. 0 \in T
  <2>1. Q(<<>>)
    <3>1. r \o <<>> = r
      BY ConcatEmptySeq
    <3>2. FlattenSeq(r) \o <<>> = FlattenSeq(r)
      BY <1>1, ConcatEmptySeq
    <3> QED
      BY <3>1, <3>2, FlattenEmpty
  <2>2. \A t \in Seq(Seq(S)) : Len(t) = 0 => t = <<>>
    BY EmptySeq
  <2> HIDE DEF Q
  <2> QED
    BY <2>1, <2>2
<1>3. ASSUME NEW n \in Nat, n \in T
      PROVE  n + 1 \in T
  <2> SUFFICES ASSUME NEW t \in Seq(Seq(S)), Len(t) = n + 1 PROVE Q(t)
    <3> HIDE DEF Q
    <3> QED
      OBVIOUS
  <2>1. t # <<>>
    BY EmptySeq
  <2>2. PICK u \in Seq(Seq(S)), y \in Seq(S) : t = Append(u, y)
    BY <2>1, SequenceEmptyOrAppend
  <2>3. Len(u) = n
    <3>1. Len(t) = Len(u) + 1 /\ Len(u) \in Nat
      BY <2>2, AppendProperties, EmptySeq
    <3> QED
      BY <3>1
  <2>4. FlattenSeq(r \o u) = FlattenSeq(r) \o FlattenSeq(u)
    BY <1>3, <2>3
  <2>5. r \o t = Append(r \o u, y) /\ r \o u \in Seq(Seq(S))
    <3>1. u \in Seq(Seq(S)) /\ y \in Seq(S) /\ r \in Seq(Seq(S))
      BY <2>2
    <3> HIDE DEF T, Q
    <3>2. r \o Append(u, y) = Append(r \o u, y) /\ r \o u \in Seq(Seq(S))
      BY <3>1, ConcatAppend
    <3> QED
      BY <2>2, <3>2
  <2>6. FlattenSeq(r \o t) = FlattenSeq(r \o u) \o y
    BY <2>5, FlattenAppend
  <2>7. FlattenSeq(t) = FlattenSeq(u) \o y /\ FlattenSeq(u) \in Seq(S)
    BY <2>2, FlattenAppend, FlattenType
  <2>8. (FlattenSeq(r) \o FlattenSeq(u)) \o y = FlattenSeq(r) \o (FlattenSeq(u) \o y)
    <3> DEFINE a == FlattenSeq(r)
               b == FlattenSeq(u)
    <3>1. a \in Seq(S) /\ b \in Seq(S)
      BY <1>1, <2>7
    <3> HIDE DEF a, b, T, Q
    <3>2. Associates(S)
      BY Associative
    <3>3. (a \o b) \o y = a \o (b \o y)
      BY <3>1, <3>2 DEF Associates
    <3> QED
      BY <3>3 DEF a, b
  <2> QED
    BY <2>4, <2>6, <2>7, <2>8
<1> HIDE DEF T
<1>4. Nat \subseteq T
  BY <1>2, <1>3, Induction
<1>5. Len(s) \in Nat
  BY EmptySeq
<1> QED
  BY <1>4, <1>5 DEF T
-----------------------------------------------------------------------------
(* The elements of s from behind the k-th up to the l-th.                  *)
LEMMA SubSeqFrom ==
  ASSUME NEW S, NEW s \in Seq(S), NEW k \in Nat, NEW l \in Nat, k <= l, l <= Len(s)
  PROVE  /\ SubSeq(s, k + 1, l) \in Seq(S) /\ Len(SubSeq(s, k + 1, l)) = l - k
         /\ \A i \in 1 .. l - k : SubSeq(s, k + 1, l)[i] = s[k + i]
<1>1. Len(s) \in Nat
  BY LenProperties
<1>2. \A i \in k + 1 .. l : s[i] \in S
  BY <1>1, ElementOfSeq
<1> DEFINE t == SubSeq(s, k + 1, l)
<1>3. /\ t \in Seq(S) /\ Len(t) = IF k + 1 <= l THEN l - (k + 1) + 1 ELSE 0
      /\ \A i \in 1 .. l - (k + 1) + 1 : t[i] = s[k + 1 + i - 1]
  BY <1>2, SubSeqProperties
<1>4. l - (k + 1) + 1 = l - k /\ \A i \in 1 .. l - k : k + 1 + i - 1 = k + i
  OBVIOUS
<1> HIDE DEF t
<1>5. Len(t) = l - k
  BY <1>3
<1>6. \A i \in 1 .. l - k : t[i] = s[k + i]
  BY <1>3, <1>4
<1> QED
  BY <1>3, <1>5, <1>6 DEF t

IsBuffer(b) ==
  /\ b \in [buffer : Seq(Int), data_size : Nat]
  /\ b.data_size <= Len(b.buffer)

(* What CSmartBuffer allocates is words.                                   *)
LEMMA ZerosType ==
  ASSUME NEW n \in Nat
  PROVE  Zeros(n) \in Seq(Int) /\ Len(Zeros(n)) = n
<1>1. Zeros(n) \in [1 .. n -> Int]
  BY DEF Zeros
<1> QED
  BY <1>1 DEF Zeros

(* memcpy overwrites the words from an offset on and no others.            *)
LEMMA MemcpyType ==
  ASSUME NEW m \in Seq(Int), NEW k \in Nat, NEW words \in Seq(Int)
  PROVE  /\ memcpy(m, k, words) \in Seq(Int) /\ Len(memcpy(m, k, words)) = Len(m)
         /\ \A i \in 1 .. Len(m) :
              memcpy(m, k, words)[i] = IF i - k \in 1 .. Len(words) THEN words[i - k] ELSE m[i]
<1>1. Len(m) \in Nat /\ DOMAIN m = 1 .. Len(m) /\ DOMAIN words = 1 .. Len(words)
  BY LenProperties
<1>2. \A i \in 1 .. Len(m) : m[i] \in Int
  BY ElementOfSeq
<1>3. \A i \in 1 .. Len(words) : words[i] \in Int
  BY ElementOfSeq
<1> DEFINE c == [i \in 1 .. Len(m) |-> IF i - k \in 1 .. Len(words) THEN words[i - k] ELSE m[i]]
<1>4. memcpy(m, k, words) = c
  BY <1>1 DEF memcpy
<1>5. \A i \in 1 .. Len(m) : c[i] = IF i - k \in 1 .. Len(words) THEN words[i - k] ELSE m[i]
  OBVIOUS
<1>6. c \in [1 .. Len(m) -> Int]
  BY <1>2, <1>3
<1>7. c \in Seq(Int) /\ Len(c) = Len(m)
  BY <1>1, <1>6
<1> HIDE DEF c
<1> QED
  BY <1>4, <1>5, <1>7

(* The words in use are the first data_size of the memory.                 *)
LEMMA DataType ==
  ASSUME NEW b, IsBuffer(b)
  PROVE  /\ data(b) \in Seq(Int) /\ Len(data(b)) = b.data_size /\ b.data_size \in Nat
         /\ \A i \in 1 .. b.data_size : data(b)[i] = b.buffer[i]
<1>1. b.buffer \in Seq(Int) /\ b.data_size \in Nat /\ b.data_size <= Len(b.buffer)
  BY DEF IsBuffer
<1>2. \A i \in 1 .. b.data_size : b.buffer[i] \in Int
  BY <1>1, ElementOfSeq, LenProperties
<1>3. /\ data(b) \in Seq(Int)
      /\ Len(data(b)) = IF 1 <= b.data_size THEN b.data_size - 1 + 1 ELSE 0
      /\ \A i \in 1 .. b.data_size - 1 + 1 : data(b)[i] = b.buffer[1 + i - 1]
  BY <1>1, <1>2, SubSeqProperties DEF data
<1> QED
  BY <1>1, <1>3

(* The memory that append needs holds what was in use, and room.           *)
LEMMA GrownType ==
  ASSUME NEW b, IsBuffer(b), NEW n \in Nat
  PROVE  /\ Grown(b, n) \in Seq(Int) /\ b.data_size + n <= Len(Grown(b, n))
         /\ Len(Grown(b, n)) <= Len(b.buffer) \/ Len(Grown(b, n)) = b.data_size + n + step_size
         /\ \A i \in 1 .. b.data_size : Grown(b, n)[i] = b.buffer[i]
<1>1. /\ data(b) \in Seq(Int) /\ Len(data(b)) = b.data_size /\ b.data_size \in Nat
      /\ \A i \in 1 .. b.data_size : data(b)[i] = b.buffer[i]
  BY DataType
<1>2. b.buffer \in Seq(Int) /\ Len(b.buffer) \in Nat
  BY LenProperties DEF IsBuffer
<1>3. CASE b.data_size + n > Len(b.buffer)
  <2> DEFINE z == Zeros(n + step_size)
  <2>1. z \in Seq(Int) /\ Len(z) = n + step_size /\ n + step_size \in Nat
    BY ZerosType, StepSizeAssumption
  <2>2. Grown(b, n) = data(b) \o z
    BY <1>3 DEF Grown
  <2> HIDE DEF z
  <2>3. /\ data(b) \o z \in Seq(Int) /\ Len(data(b) \o z) = b.data_size + (n + step_size)
        /\ \A i \in 1 .. b.data_size : (data(b) \o z)[i] = data(b)[i]
    <3> DEFINE d == data(b)
    <3>1. d \in Seq(Int) /\ Len(d) = b.data_size
      BY <1>1
    <3> HIDE DEF d
    <3>2. /\ d \o z \in Seq(Int) /\ Len(d \o z) = Len(d) + Len(z)
          /\ \A i \in 1 .. Len(d) + Len(z) : (d \o z)[i] = IF i <= Len(d) THEN d[i] ELSE z[i - Len(d)]
      BY <2>1, <3>1, ConcatProperties
    <3>3. \A i \in 1 .. Len(d) : i \in 1 .. Len(d) + Len(z) /\ i <= Len(d)
      BY <1>1, <2>1, <3>1
    <3> QED
      BY <2>1, <3>1, <3>2, <3>3 DEF d
  <2> QED
    BY <1>1, <2>1, <2>2, <2>3, StepSizeAssumption
<1>4. CASE ~(b.data_size + n > Len(b.buffer))
  BY <1>1, <1>2, <1>4 DEF Grown
<1> QED
  BY <1>3, <1>4

(* append: what is in use is what was and the words; the memory stays or   *)
(* has room for that and one step.                                         *)
LEMMA AppendData ==
  ASSUME NEW b, IsBuffer(b), NEW words \in Seq(Int)
  PROVE  /\ IsBuffer(append(b, words))
         /\ data(append(b, words)) = data(b) \o words
         /\ append(b, words).data_size = b.data_size + Len(words)
         /\ \/ Len(append(b, words).buffer) <= Len(b.buffer)
            \/ Len(append(b, words).buffer) = b.data_size + Len(words) + step_size
         /\ \A i \in 1 .. b.data_size : append(b, words).buffer[i] = b.buffer[i]
<1> DEFINE g == Grown(b, Len(words))
           m == memcpy(g, b.data_size, words)
           a == append(b, words)
<1>1. Len(words) \in Nat /\ DOMAIN words = 1 .. Len(words)
  BY LenProperties
<1>2. /\ data(b) \in Seq(Int) /\ Len(data(b)) = b.data_size /\ b.data_size \in Nat
      /\ \A i \in 1 .. b.data_size : data(b)[i] = b.buffer[i]
  BY DataType
<1>3. /\ g \in Seq(Int) /\ b.data_size + Len(words) <= Len(g)
      /\ Len(g) <= Len(b.buffer) \/ Len(g) = b.data_size + Len(words) + step_size
      /\ \A i \in 1 .. b.data_size : g[i] = b.buffer[i]
  BY <1>1, GrownType
<1>4. a.buffer = m /\ a.data_size = b.data_size + Len(words) /\ a \in [buffer : {m}, data_size : {b.data_size + Len(words)}]
  BY DEF append
<1> HIDE DEF g
<1>5. /\ m \in Seq(Int) /\ Len(m) = Len(g) /\ Len(g) \in Nat
      /\ \A i \in 1 .. Len(g) :
           m[i] = IF i - b.data_size \in 1 .. Len(words) THEN words[i - b.data_size] ELSE g[i]
  BY <1>2, <1>3, MemcpyType, LenProperties
<1> HIDE DEF m, a
<1>6. IsBuffer(a)
  BY <1>1, <1>2, <1>3, <1>4, <1>5 DEF IsBuffer
<1>7. \A i \in 1 .. b.data_size : a.buffer[i] = b.buffer[i]
  <2> SUFFICES ASSUME NEW i \in 1 .. b.data_size PROVE a.buffer[i] = b.buffer[i]
    OBVIOUS
  <2>1. i \in 1 .. Len(g) /\ ~(i - b.data_size \in 1 .. Len(words))
    <3>1. Len(g) \in Nat /\ b.data_size \in Nat /\ Len(words) \in Nat /\ b.data_size + Len(words) <= Len(g)
      BY <1>1, <1>2, <1>3, <1>5
    <3> QED
      BY <3>1
  <2> QED
    BY <1>3, <1>4, <1>5, <2>1
<1>8. data(a) = data(b) \o words
  <2>1. /\ data(a) \in Seq(Int) /\ Len(data(a)) = b.data_size + Len(words)
        /\ \A i \in 1 .. b.data_size + Len(words) : data(a)[i] = m[i]
    BY <1>4, <1>6, DataType
  <2>2. /\ data(b) \o words \in Seq(Int) /\ Len(data(b) \o words) = b.data_size + Len(words)
        /\ \A i \in 1 .. b.data_size + Len(words) :
             (data(b) \o words)[i] = IF i <= b.data_size THEN data(b)[i] ELSE words[i - b.data_size]
    <3> DEFINE d == data(b)
    <3>1. d \in Seq(Int) /\ Len(d) = b.data_size
      BY <1>2
    <3> HIDE DEF d
    <3>2. /\ d \o words \in Seq(Int) /\ Len(d \o words) = Len(d) + Len(words)
          /\ \A i \in 1 .. Len(d) + Len(words) :
               (d \o words)[i] = IF i <= Len(d) THEN d[i] ELSE words[i - Len(d)]
      BY <3>1, ConcatProperties
    <3> QED
      BY <3>1, <3>2 DEF d
  <2>3. \A i \in 1 .. b.data_size + Len(words) : data(a)[i] = (data(b) \o words)[i]
    <3> SUFFICES ASSUME NEW i \in 1 .. b.data_size + Len(words) PROVE data(a)[i] = (data(b) \o words)[i]
      OBVIOUS
    <3>1. i \in 1 .. Len(g)
      BY <1>1, <1>2, <1>3, <1>5
    <3>2. CASE i <= b.data_size
      <4>1. i \in 1 .. b.data_size
        BY <1>2, <3>2
      <4>2. (data(b) \o words)[i] = b.buffer[i]
        BY <1>2, <2>2, <3>2, <4>1
      <4> QED
        BY <1>4, <1>7, <2>1, <4>1, <4>2
    <3>3. CASE i > b.data_size
      <4>1. i - b.data_size \in 1 .. Len(words) /\ ~(i <= b.data_size)
        BY <1>1, <1>2, <3>3
      <4>2. (data(b) \o words)[i] = words[i - b.data_size]
        BY <2>2, <4>1
      <4>3. m[i] = words[i - b.data_size]
        BY <1>5, <3>1, <4>1
      <4> QED
        BY <2>1, <4>2, <4>3
    <3> QED
      BY <1>2, <3>2, <3>3
  <2> QED
    BY <2>1, <2>2, <2>3, SeqEqual
<1>9. Len(a.buffer) <= Len(b.buffer) \/ Len(a.buffer) = b.data_size + Len(words) + step_size
  BY <1>3, <1>4, <1>5
<1> QED
  BY <1>4, <1>6, <1>7, <1>8, <1>9 DEF a

(* empty: nothing is in use; no memory is added.                           *)
LEMMA EmptyData ==
  ASSUME NEW b, IsBuffer(b)
  PROVE  /\ IsBuffer(empty(b)) /\ data(empty(b)) = <<>>
         /\ empty(b).data_size = 0 /\ empty(b).buffer = b.buffer
<1>1. b \in [buffer : Seq(Int), data_size : Nat] /\ Len(b.buffer) \in Nat
  BY LenProperties DEF IsBuffer
<1>2. empty(b).data_size = 0 /\ empty(b).buffer = b.buffer
  BY <1>1 DEF empty
<1>3. empty(b) \in [buffer : Seq(Int), data_size : Nat]
  BY <1>1 DEF empty
<1>4. SubSeq(b.buffer, 1, 0) = <<>>
  BY SubSeqEmpty
<1> QED
  BY <1>1, <1>2, <1>3, <1>4 DEF IsBuffer, data

(* truncate: what is in use is what was behind the first n words.          *)
LEMMA TruncateData ==
  ASSUME NEW b, IsBuffer(b), NEW n \in 0 .. b.data_size
  PROVE  /\ IsBuffer(truncate(b, n))
         /\ data(truncate(b, n)) = SubSeq(data(b), n + 1, b.data_size)
         /\ truncate(b, n).data_size = b.data_size - n
         /\ Len(truncate(b, n).buffer) = Len(b.buffer)
<1>1. /\ data(b) \in Seq(Int) /\ Len(data(b)) = b.data_size /\ b.data_size \in Nat
      /\ \A i \in 1 .. b.data_size : data(b)[i] = b.buffer[i]
  BY DataType
<1>2. b.buffer \in Seq(Int) /\ Len(b.buffer) \in Nat /\ b.data_size <= Len(b.buffer)
  BY LenProperties DEF IsBuffer
<1>3. CASE n = b.data_size
  <2>1. truncate(b, n) = empty(b)
    BY <1>1, <1>3 DEF truncate
  <2>2. SubSeq(data(b), n + 1, b.data_size) = <<>>
    BY <1>1, <1>3, SubSeqEmpty
  <2>3. b.data_size - n = 0
    BY <1>1, <1>3
  <2>4. /\ IsBuffer(empty(b)) /\ data(empty(b)) = <<>>
        /\ empty(b).data_size = 0 /\ empty(b).buffer = b.buffer
    BY EmptyData
  <2> QED
    BY <2>1, <2>2, <2>3, <2>4
<1>4. CASE n < b.data_size
  <2> DEFINE t == SubSeq(b.buffer, n + 1, b.data_size)
             m == memcpy(b.buffer, 0, t)
             a == truncate(b, n)
  <2>1. /\ t \in Seq(Int) /\ Len(t) = b.data_size - n
        /\ \A i \in 1 .. b.data_size - n : t[i] = b.buffer[n + i]
    <3> DEFINE c == b.buffer
               l == b.data_size
    <3>1. c \in Seq(Int) /\ n \in Nat /\ l \in Nat /\ n <= l /\ l <= Len(c)
      BY <1>1, <1>2, <1>4
    <3> HIDE DEF c, l
    <3>2. /\ SubSeq(c, n + 1, l) \in Seq(Int) /\ Len(SubSeq(c, n + 1, l)) = l - n
          /\ \A i \in 1 .. l - n : SubSeq(c, n + 1, l)[i] = c[n + i]
      BY <3>1, SubSeqFrom
    <3> QED
      BY <3>2 DEF c, l
  <2>2. /\ a.buffer = m /\ a.data_size = b.data_size - n
        /\ a \in [buffer : {m}, data_size : {b.data_size - n}]
    BY <1>1, <1>4 DEF truncate
  <2> HIDE DEF t
  <2>3. /\ m \in Seq(Int) /\ Len(m) = Len(b.buffer)
        /\ \A i \in 1 .. Len(b.buffer) : m[i] = IF i - 0 \in 1 .. Len(t) THEN t[i - 0] ELSE b.buffer[i]
    <3> DEFINE c == b.buffer
    <3>1. c \in Seq(Int) /\ 0 \in Nat /\ t \in Seq(Int)
      BY <1>2, <2>1
    <3> HIDE DEF c
    <3>2. /\ memcpy(c, 0, t) \in Seq(Int) /\ Len(memcpy(c, 0, t)) = Len(c)
          /\ \A i \in 1 .. Len(c) : memcpy(c, 0, t)[i] = IF i - 0 \in 1 .. Len(t) THEN t[i - 0] ELSE c[i]
      BY <3>1, MemcpyType
    <3> QED
      BY <3>2 DEF c
  <2> HIDE DEF m, a
  <2>4. IsBuffer(a)
    BY <1>1, <1>2, <1>4, <2>2, <2>3 DEF IsBuffer
  <2>5. /\ data(a) \in Seq(Int) /\ Len(data(a)) = b.data_size - n
        /\ \A i \in 1 .. b.data_size - n : data(a)[i] = m[i]
    BY <2>2, <2>4, DataType
  <2> DEFINE u == SubSeq(data(b), n + 1, b.data_size)
  <2>6. /\ u \in Seq(Int) /\ Len(u) = b.data_size - n
        /\ \A i \in 1 .. b.data_size - n : u[i] = data(b)[n + i]
    BY <1>1, <1>4, SubSeqFrom
  <2> HIDE DEF u
  <2>7. Len(data(a)) = Len(u) /\ \A i \in 1 .. Len(data(a)) : data(a)[i] = u[i]
    <3>1. \A i \in 1 .. b.data_size - n : n + i \in 1 .. b.data_size /\ i \in 1 .. Len(b.buffer) /\ i - 0 = i
      <4> DEFINE k == b.data_size
                 l == Len(b.buffer)
      <4>1. k \in Nat /\ l \in Nat /\ k <= l /\ n \in 0 .. k
        BY <1>1, <1>2
      <4> HIDE DEF k, l
      <4>2. \A i \in 1 .. k - n : n + i \in 1 .. k /\ i \in 1 .. l /\ i - 0 = i
        BY <4>1
      <4> QED
        BY <4>2 DEF k, l
    <3>2. \A i \in 1 .. b.data_size - n : m[i] = t[i]
      BY <2>1, <2>3, <3>1
    <3> QED
      BY <1>1, <2>1, <2>5, <2>6, <3>1, <3>2
  <2>8. data(a) = u
    BY <2>5, <2>6, <2>7, SeqEqual
  <2> QED
    BY <2>2, <2>3, <2>4, <2>8 DEF a, u
<1> QED
  BY <1>1, <1>3, <1>4

-----------------------------------------------------------------------------
(* f holds the sums of the first words up to the m-th.                     *)
Sums(f, words, m) == f = [i \in 0 .. m |-> IF i = 0 THEN 0 ELSE f[i - 1] + words[i]]

(* Each such f is, but for its first element, the one before and a word.   *)
LEMMA SumsAt ==
  ASSUME NEW words, NEW m, NEW f, Sums(f, words, m)
  PROVE  \A i \in 0 .. m : f[i] = IF i = 0 THEN 0 ELSE f[i - 1] + words[i]
<1> DEFINE F == [i \in 0 .. m |-> IF i = 0 THEN 0 ELSE f[i - 1] + words[i]]
<1>1. \A i \in 0 .. m : F[i] = IF i = 0 THEN 0 ELSE f[i - 1] + words[i]
  OBVIOUS
<1>2. f = F
  BY DEF Sums
<1> HIDE DEF F
<1> QED
  BY <1>1, <1>2

(* There is one for every sequence of words.                               *)
LEMMA SumsExist ==
  ASSUME NEW words, NEW m \in Nat
  PROVE  \E f : Sums(f, words, m)
<1> DEFINE T == {n \in Nat : \E f : Sums(f, words, n)}
<1>1. 0 \in T
  <2>1. \A i \in 0 .. 0 : i = 0
    OBVIOUS
  <2> DEFINE g == [i \in 0 .. 0 |-> 0]
  <2>2. g = [i \in 0 .. 0 |-> IF i = 0 THEN 0 ELSE g[i - 1] + words[i]]
    BY <2>1
  <2> HIDE DEF g
  <2> QED
    BY <2>2 DEF Sums
<1>2. ASSUME NEW n \in Nat, n \in T
      PROVE  n + 1 \in T
  <2>1. PICK f : Sums(f, words, n)
    BY <1>2
  <2> DEFINE g == [i \in 0 .. n + 1 |-> IF i = 0 THEN 0 ELSE f[i - 1] + words[i]]
  <2>2. \A i \in 0 .. n : g[i] = f[i]
    <3>1. \A i \in 0 .. n : f[i] = IF i = 0 THEN 0 ELSE f[i - 1] + words[i]
      BY <2>1, SumsAt
    <3>2. \A i \in 0 .. n : i \in 0 .. n + 1
      OBVIOUS
    <3> QED
      BY <3>1, <3>2
  <2>3. \A i \in 0 .. n + 1 : g[i] = IF i = 0 THEN 0 ELSE g[i - 1] + words[i]
    <3>1. TAKE i \in 0 .. n + 1
    <3>2. i # 0 => i - 1 \in 0 .. n
      OBVIOUS
    <3> QED
      BY <2>2, <3>2
  <2> HIDE DEF g
  <2>4. g = [i \in 0 .. n + 1 |-> g[i]]
    BY DEF g
  <2>5. Sums(g, words, n + 1)
    BY <2>3, <2>4 DEF Sums
  <2> QED
    BY <2>5
<1> HIDE DEF T
<1>3. Nat \subseteq T
  BY <1>1, <1>2, Induction
<1> QED
  BY <1>3 DEF T

(* The check sum of words is a word.                                       *)
LEMMA CheckSumType ==
  ASSUME NEW words \in Seq(Int)
  PROVE  getCheckSum(words) \in Int
<1>1. Len(words) \in Nat /\ \A i \in 1 .. Len(words) : words[i] \in Int
  BY LenProperties, ElementOfSeq
<1> DEFINE h == CHOOSE f : Sums(f, words, Len(words))
<1>2. Sums(h, words, Len(words))
  BY <1>1, SumsExist
<1>3. getCheckSum(words) = h[Len(words)]
  BY DEF getCheckSum, Sums
<1> HIDE DEF h
<1> DEFINE T == {i \in Nat : i \in 0 .. Len(words) => h[i] \in Int}
<1>4. \A i \in 0 .. Len(words) : h[i] = IF i = 0 THEN 0 ELSE h[i - 1] + words[i]
  BY <1>2, SumsAt
<1>5. 0 \in T
  BY <1>1, <1>4
<1>6. ASSUME NEW i \in Nat, i \in T
      PROVE  i + 1 \in T
  <2> SUFFICES ASSUME i + 1 \in 0 .. Len(words) PROVE h[i + 1] \in Int
    OBVIOUS
  <2>1. i \in 0 .. Len(words) /\ i + 1 \in 1 .. Len(words) /\ (i + 1) - 1 = i /\ i + 1 # 0
    BY <1>1
  <2>2. h[i] \in Int /\ words[i + 1] \in Int
    BY <1>1, <1>6, <2>1
  <2>3. h[i + 1] = h[i] + words[i + 1]
    BY <1>4, <2>1
  <2> QED
    BY <2>2, <2>3
<1> HIDE DEF T
<1>7. Nat \subseteq T
  BY <1>5, <1>6, Induction
<1>8. Len(words) \in T /\ Len(words) \in 0 .. Len(words)
  BY <1>1, <1>7
<1> QED
  BY <1>3, <1>8 DEF T

(* A frame is as long as its header says.                                  *)
Framed(x) ==
  /\ x \in Seq(Int) /\ Len(x) >= HeaderLen
  /\ x[3] >= 0 /\ Len(x) = HeaderLen + x[3]

(* What a peer makes of a packet is a frame with the right check sum.      *)
LEMMA MadeFrame ==
  ASSUME NEW p \in Packets
  PROVE  Framed(MakeProtocolForSocket(p))
<1> DEFINE body == <<p.command, Len(p.data)>> \o p.data
           x == MakeProtocolForSocket(p)
           hd == <<p.command, Len(p.data)>>
<1>1. p.data \in Seq(Int) /\ p.command \in Int /\ Len(p.data) \in Nat
  BY PacketsAssumption, LenProperties
<1>2. hd \in Seq(Int) /\ Len(hd) = 2 /\ hd[2] = Len(p.data)
  BY <1>1
<1> HIDE DEF hd
<1>3. /\ hd \o p.data \in Seq(Int) /\ Len(hd \o p.data) = Len(hd) + Len(p.data)
      /\ \A i \in 1 .. Len(hd) + Len(p.data) :
           (hd \o p.data)[i] = IF i <= Len(hd) THEN hd[i] ELSE p.data[i - Len(hd)]
  BY <1>1, <1>2, ConcatProperties
<1>4. body \in Seq(Int) /\ Len(body) = 2 + Len(p.data) /\ body[2] = Len(p.data)
  <2>1. body = hd \o p.data
    BY DEF hd
  <2>2. 2 \in 1 .. Len(hd) + Len(p.data) /\ 2 <= Len(hd)
    BY <1>1, <1>2
  <2> QED
    BY <1>2, <1>3, <2>1, <2>2
<1> HIDE DEF body
<1>5. getCheckSum(body) \in Int
  BY <1>4, CheckSumType
<1> DEFINE c == <<getCheckSum(body)>>
<1>6. c \in Seq(Int) /\ Len(c) = 1
  BY <1>5
<1>7. x = c \o body
  BY DEF MakeProtocolForSocket, body
<1> HIDE DEF c, x
<1>8. /\ x \in Seq(Int) /\ Len(x) = Len(c) + Len(body)
      /\ \A i \in 1 .. Len(c) + Len(body) : x[i] = IF i <= Len(c) THEN c[i] ELSE body[i - Len(c)]
  <2>1. /\ c \o body \in Seq(Int) /\ Len(c \o body) = Len(c) + Len(body)
        /\ \A i \in 1 .. Len(c) + Len(body) :
             (c \o body)[i] = IF i <= Len(c) THEN c[i] ELSE body[i - Len(c)]
    <3>1. c \in Seq(Int) /\ body \in Seq(Int)
      BY <1>4, <1>6
    <3> QED
      BY <3>1, ConcatProperties
  <2> QED
    BY <1>7, <2>1
<1>9. x[3] = Len(p.data)
  <2>1. 3 \in 1 .. Len(c) + Len(body) /\ ~(3 <= Len(c)) /\ 3 - Len(c) = 2
    BY <1>1, <1>4, <1>6
  <2> QED
    BY <1>4, <1>8, <2>1
<1> QED
  BY <1>1, <1>4, <1>6, <1>8, <1>9 DEF Framed, HeaderLen, x

(* What a concatenation begins with.                                       *)
LEMMA ConcatBegins ==
  ASSUME NEW x \in Seq(Int), NEW r \in Seq(Int)
  PROVE  \A i \in 1 .. Len(x) : (x \o r)[i] = x[i]
<1> SUFFICES ASSUME NEW i \in 1 .. Len(x) PROVE (x \o r)[i] = x[i]
  OBVIOUS
<1>1. Len(x) \in Nat /\ Len(r) \in Nat
  BY LenProperties
<1>2. i \in 1 .. Len(x) + Len(r) /\ i <= Len(x)
  BY <1>1
<1> QED
  BY <1>2, ConcatProperties

(* Two frames at the beginning of the same words are the same frame.       *)
LEMMA SameFrame ==
  ASSUME NEW x, Framed(x), NEW y, Framed(y), NEW r \in Seq(Int), NEW s \in Seq(Int),
         x \o r = y \o s
  PROVE  x = y
<1>1. /\ x \in Seq(Int) /\ Len(x) \in Nat /\ 3 \in 1 .. Len(x) /\ x[3] \in Int /\ Len(x) = 3 + x[3]
      /\ y \in Seq(Int) /\ Len(y) \in Nat /\ 3 \in 1 .. Len(y) /\ y[3] \in Int /\ Len(y) = 3 + y[3]
  BY LenProperties, ElementOfSeq DEF Framed, HeaderLen
<1>2. \A i \in 1 .. Len(x) : (x \o r)[i] = x[i]
  BY <1>1, ConcatBegins
<1>3. \A i \in 1 .. Len(y) : (y \o s)[i] = y[i]
  BY <1>1, ConcatBegins
<1>4. x[3] = y[3]
  BY <1>1, <1>2, <1>3
<1>5. Len(x) = Len(y)
  BY <1>1, <1>4
<1>6. \A i \in 1 .. Len(x) : x[i] = y[i]
  BY <1>2, <1>3, <1>5
<1> QED
  BY <1>1, <1>5, <1>6, SeqEqual
-----------------------------------------------------------------------------
(* What lies before the end is not changed by appending, ...               *)
LEMMA SubSeqOfAppend ==
  ASSUME NEW S, NEW s \in Seq(S), NEW x \in S, NEW k \in Nat, NEW l \in Nat, k <= l, l <= Len(s)
  PROVE  SubSeq(Append(s, x), k + 1, l) = SubSeq(s, k + 1, l)
<1> DEFINE v == Append(s, x)
           a == SubSeq(v, k + 1, l)
           b == SubSeq(s, k + 1, l)
<1>1. Len(s) \in Nat
  BY LenProperties
<1>2. v \in Seq(S) /\ Len(v) = Len(s) + 1 /\ \A i \in 1 .. Len(s) : v[i] = s[i]
  BY AppendProperties
<1> HIDE DEF v
<1>3. b \in Seq(S) /\ Len(b) = l - k /\ \A i \in 1 .. l - k : b[i] = s[k + i]
  BY SubSeqFrom
<1>4. a \in Seq(S) /\ Len(a) = l - k /\ \A i \in 1 .. l - k : a[i] = v[k + i]
  <2>1. l <= Len(v)
    BY <1>1, <1>2
  <2> QED
    BY <1>2, <2>1, SubSeqFrom
<1> HIDE DEF a, b
<1>5. \A i \in 1 .. l - k : k + i \in 1 .. Len(s)
  BY <1>1
<1>6. Len(a) = Len(b) /\ \A i \in 1 .. Len(a) : a[i] = b[i]
  BY <1>2, <1>3, <1>4, <1>5
<1>7. a = b
  BY <1>3, <1>4, <1>6, SeqEqual
<1> QED
  BY <1>7 DEF a, b, v

(* ... a part that ends one later has one element more, ...                *)
LEMMA SubSeqLonger ==
  ASSUME NEW S, NEW s \in Seq(S), NEW k \in Nat, NEW l \in Nat, k <= l, l + 1 <= Len(s)
  PROVE  SubSeq(s, k + 1, l + 1) = Append(SubSeq(s, k + 1, l), s[l + 1])
<1> DEFINE a == SubSeq(s, k + 1, l)
<1>1. Len(s) \in Nat
  BY LenProperties
<1>2. k + 1 \in 1 .. Len(s) /\ l + 1 \in k + 1 .. Len(s) /\ (l + 1) - 1 = l /\ l <= Len(s) /\ l + 1 \in 1 .. Len(s)
  BY <1>1
<1>3. SubSeq(s, k + 1, l + 1) = SubSeq(s, k + 1, (l + 1) - 1) \o <<s[l + 1]>>
  BY <1>2, SubSeqRecursiveSecond
<1>4. a \in Seq(S)
  BY <1>2, SubSeqFrom
<1>5. s[l + 1] \in S
  BY <1>2, ElementOfSeq
<1>6. a \o <<s[l + 1]>> = Append(a, s[l + 1])
  <2> HIDE DEF a
  <2> QED
    BY <1>4, <1>5, AppendIsConcat
<1> QED
  BY <1>2, <1>3, <1>6

(* ... and a part to the end is its first element and the rest.            *)
LEMMA SubSeqToEnd ==
  ASSUME NEW S, NEW s \in Seq(S), NEW x \in S, NEW k \in Nat, k <= Len(s)
  PROVE  SubSeq(Append(s, x), k + 1, Len(Append(s, x))) = Append(SubSeq(s, k + 1, Len(s)), x)
<1> DEFINE v == Append(s, x)
<1>1. Len(s) \in Nat
  BY LenProperties
<1>2. v \in Seq(S) /\ Len(v) = Len(s) + 1 /\ v[Len(s) + 1] = x
  BY AppendProperties
<1>3. SubSeq(v, k + 1, Len(s)) = SubSeq(s, k + 1, Len(s))
  BY <1>1, SubSeqOfAppend
<1> HIDE DEF v
<1>4. SubSeq(v, k + 1, Len(s) + 1) = Append(SubSeq(v, k + 1, Len(s)), v[Len(s) + 1])
  <2> DEFINE l == Len(s)
  <2>1. l \in Nat /\ k <= l /\ l + 1 <= Len(v)
    BY <1>1, <1>2
  <2> HIDE DEF l
  <2>2. SubSeq(v, k + 1, l + 1) = Append(SubSeq(v, k + 1, l), v[l + 1])
    BY <1>2, <2>1, SubSeqLonger
  <2> QED
    BY <2>2 DEF l
<1> QED
  BY <1>2, <1>3, <1>4 DEF v

(* Since a mark, the i-th of the frames w sent and the j-th of those       *)
(* handed over, d: as many were handed over as of those sent, the same     *)
(* ones, and the words left are the others.                                *)
Reached(d, i, j) == i + (Len(d) - j)
Cut(w, d, i, j, words) ==
  /\ Reached(d, i, j) <= Len(w)
  /\ SubSeq(d, j + 1, Len(d)) = SubSeq(w, i + 1, Reached(d, i, j))
  /\ words = FlattenSeq(SubSeq(w, Reached(d, i, j) + 1, Len(w)))

Whole(w, i) == \A k \in i + 1 .. Len(w) : \E p \in Packets : w[k] = MakeProtocolForSocket(p)

(* A frame that is sent joins what is still to come.                       *)
LEMMA CutSent ==
  ASSUME NEW w \in Seq(Seq(Int)), NEW d \in Seq(Seq(Int)), NEW i \in Nat, NEW j \in Nat,
         j <= Len(d), NEW words, Cut(w, d, i, j, words), NEW x \in Seq(Int)
  PROVE  Cut(Append(w, x), d, i, j, words \o x)
<1> DEFINE r == Reached(d, i, j)
           v == Append(w, x)
           rest == SubSeq(w, r + 1, Len(w))
<1>1. Len(w) \in Nat /\ Len(d) \in Nat /\ r \in Nat /\ i <= r /\ r <= Len(w)
  BY LenProperties DEF Cut, Reached
<1>2. words = FlattenSeq(rest) /\ SubSeq(d, j + 1, Len(d)) = SubSeq(w, i + 1, r)
  BY DEF Cut
<1> HIDE DEF r
<1>3. SubSeq(v, i + 1, r) = SubSeq(w, i + 1, r)
  BY <1>1, SubSeqOfAppend
<1>4. SubSeq(v, r + 1, Len(v)) = Append(rest, x)
  BY <1>1, SubSeqToEnd
<1>5. rest \in Seq(Seq(Int))
  BY <1>1, SubSeqFrom
<1>6. Len(v) = Len(w) + 1
  BY AppendProperties
<1> HIDE DEF rest, v
<1>7. FlattenSeq(Append(rest, x)) = FlattenSeq(rest) \o x
  BY <1>5, FlattenAppend
<1>8. r <= Len(v)
  BY <1>1, <1>6
<1> QED
  BY <1>2, <1>3, <1>4, <1>7, <1>8 DEF Cut, v, r

(* What is left, if anything, begins with the next of the frames sent.     *)
LEMMA NextFrame ==
  ASSUME NEW w \in Seq(Seq(Int)), NEW r \in Nat, r < Len(w), Whole(w, r)
  PROVE  /\ Framed(w[r + 1])
         /\ FlattenSeq(SubSeq(w, r + 1, Len(w))) = w[r + 1] \o FlattenSeq(SubSeq(w, (r + 1) + 1, Len(w)))
         /\ FlattenSeq(SubSeq(w, (r + 1) + 1, Len(w))) \in Seq(Int)
<1> DEFINE x == w[r + 1]
           rest == SubSeq(w, (r + 1) + 1, Len(w))
<1>1. Len(w) \in Nat
  BY LenProperties
<1>2. r + 1 <= Len(w)
  BY <1>1
<1>3. r + 1 \in r + 1 .. Len(w) /\ r + 1 \in 1 .. Len(w) /\ Len(w) \in r + 1 .. Len(w) /\ r + 1 \in Nat
  BY <1>1, <1>2
<1>4. Framed(x)
  BY <1>3, MadeFrame DEF Whole
<1>5. SubSeq(w, r + 1, Len(w)) = <<x>> \o rest
  BY <1>3, SubSeqRecursiveFirst
<1>6. rest \in Seq(Seq(Int))
  BY <1>1, <1>2, <1>3, SubSeqFrom
<1>7. x \in Seq(Int)
  BY <1>4 DEF Framed
<1> HIDE DEF x, rest
<1>8. FlattenSeq(rest) \in Seq(Int)
  BY <1>6, FlattenType
<1>9. FlattenSeq(<<x>> \o rest) = x \o FlattenSeq(rest)
  <2>1. <<x>> \in Seq(Seq(Int))
    BY <1>7
  <2>2. FlattenSeq(<<x>>) = x
    BY <1>7, FlattenOne
  <2>3. FlattenSeq(<<x>> \o rest) = FlattenSeq(<<x>>) \o FlattenSeq(rest)
    <3> DEFINE o == <<x>>
    <3>1. o \in Seq(Seq(Int))
      BY <2>1
    <3> HIDE DEF o
    <3>2. FlattenSeq(o \o rest) = FlattenSeq(o) \o FlattenSeq(rest)
      BY <1>6, <3>1, FlattenConcat
    <3> QED
      BY <3>2 DEF o
  <2> QED
    BY <2>2, <2>3
<1> QED
  BY <1>2, <1>4, <1>5, <1>8, <1>9 DEF x, rest

(* The frame at the beginning of what is left is handed over.              *)
LEMMA CutDelivered ==
  ASSUME NEW w \in Seq(Seq(Int)), NEW d \in Seq(Seq(Int)), NEW i \in Nat, NEW j \in Nat,
         j <= Len(d), NEW x, Framed(x), NEW left \in Seq(Int),
         Cut(w, d, i, j, x \o left), Whole(w, i)
  PROVE  Cut(w, Append(d, x), i, j, left)
<1> DEFINE r == Reached(d, i, j)
           e == Append(d, x)
           y == w[r + 1]
           more == FlattenSeq(SubSeq(w, (r + 1) + 1, Len(w)))
<1>1. Len(w) \in Nat /\ Len(d) \in Nat /\ r \in Nat /\ i <= r /\ r <= Len(w)
  BY LenProperties DEF Cut, Reached
<1>2. x \in Seq(Int) /\ Len(x) # 0
  BY DEF Framed, HeaderLen
<1>3. x \o left # <<>>
  BY <1>2, ConcatEqualIffEmpty, ConcatSimplifications, EmptySeq
<1>4. x \o left = FlattenSeq(SubSeq(w, r + 1, Len(w))) /\ SubSeq(d, j + 1, Len(d)) = SubSeq(w, i + 1, r)
  BY DEF Cut
<1>5. Whole(w, r)
  <2>1. \A k \in r + 1 .. Len(w) : k \in i + 1 .. Len(w)
    BY <1>1
  <2> QED
    BY <2>1 DEF Whole
<1>6. Len(e) = Len(d) + 1 /\ Reached(e, i, j) = r + 1
  <2>1. Len(e) = Len(d) + 1
    BY <1>2, AppendProperties
  <2> QED
    BY <1>1, <2>1 DEF Reached
<1>7. SubSeq(e, j + 1, Len(e)) = Append(SubSeq(d, j + 1, Len(d)), x)
  BY <1>2, SubSeqToEnd
<1> HIDE DEF r, e
<1>8. r < Len(w) /\ r + 1 <= Len(w)
  <2> SUFFICES ASSUME r = Len(w) PROVE FALSE
    BY <1>1
  <2>1. SubSeq(w, r + 1, Len(w)) = <<>>
    BY <1>1, SubSeqEmpty
  <2> QED
    BY <1>3, <1>4, <2>1, FlattenEmpty
<1>9. Framed(y) /\ x \o left = y \o more /\ more \in Seq(Int)
  BY <1>1, <1>4, <1>5, <1>8, NextFrame
<1>10. SubSeq(w, i + 1, r + 1) = Append(SubSeq(w, i + 1, r), y)
  BY <1>1, <1>8, SubSeqLonger
<1> HIDE DEF y, more
<1>11. x = y
  BY <1>9, SameFrame
<1>12. left = more
  <2>1. x \o left = x \o more /\ more \in Seq(Int)
    BY <1>9, <1>11
  <2> QED
    BY <1>2, <2>1, ConcatSimplifications
<1> QED
  BY <1>4, <1>6, <1>7, <1>10, <1>11, <1>12, <1>8 DEF Cut, e, more

(* A new mark, where nothing but whole frames is still to come.            *)
LEMMA CutMarked ==
  ASSUME NEW w \in Seq(Seq(Int)), NEW d \in Seq(Seq(Int)), NEW k \in 0 .. Len(w)
  PROVE  Cut(w, d, k, Len(d), FlattenSeq(SubSeq(w, k + 1, Len(w))))
<1>1. Len(w) \in Nat /\ Len(d) \in Nat
  BY LenProperties
<1>2. Reached(d, k, Len(d)) = k
  BY <1>1 DEF Reached
<1>3. SubSeq(d, Len(d) + 1, Len(d)) = <<>> /\ SubSeq(w, k + 1, k) = <<>>
  BY <1>1, SubSeqEmpty
<1>4. k <= Len(w)
  BY <1>1
<1> QED
  BY <1>2, <1>3, <1>4 DEF Cut

(* What was handed over and what is left are together the frames sent.     *)
LEMMA CutAccounted ==
  ASSUME NEW w \in Seq(Seq(Int)), NEW d \in Seq(Seq(Int)), NEW i \in Nat, NEW j \in Nat,
         j <= Len(d), NEW words, Cut(w, d, i, j, words)
  PROVE  FlattenSeq(SubSeq(d, j + 1, Len(d))) \o words = FlattenSeq(SubSeq(w, i + 1, Len(w)))
<1> DEFINE r == Reached(d, i, j)
           a == SubSeq(w, i + 1, r)
           b == SubSeq(w, r + 1, Len(w))
<1>1. Len(w) \in Nat /\ Len(d) \in Nat /\ r \in Nat /\ i <= r /\ r <= Len(w)
  BY LenProperties DEF Cut, Reached
<1>2. SubSeq(d, j + 1, Len(d)) = a /\ words = FlattenSeq(b)
  BY DEF Cut
<1> HIDE DEF r
<1>3. a \in Seq(Seq(Int)) /\ b \in Seq(Seq(Int))
  BY <1>1, SubSeqFrom
<1>4. a \o b = SubSeq(w, i + 1, Len(w))
  <2>1. i + 1 \in 1 .. Len(w) + 1 /\ r \in (i + 1) - 1 .. Len(w) /\ Len(w) \in r .. Len(w)
    BY <1>1
  <2> QED
    BY <2>1, ConcatAdjacentSubSeq
<1> HIDE DEF a, b
<1>5. FlattenSeq(a \o b) = FlattenSeq(a) \o FlattenSeq(b)
  BY <1>3, FlattenConcat
<1> QED
  BY <1>2, <1>4, <1>5
-----------------------------------------------------------------------------
MarkOK ==
  mark # <<>> => mark \in Nat \X Nat /\ mark[1] <= Len(wire) /\ mark[2] <= Len(delivered)
ParserTyped ==
  /\ wire \in Seq(Seq(Int)) /\ arriving \in Seq(Int) /\ delivered \in Seq(Seq(Int))
  /\ \A i \in 1 .. Len(delivered) : Framed(delivered[i])
  /\ IsBuffer(sBuffer)
  /\ parsing \in BOOLEAN /\ damaged \in 0 .. MaxDamaged /\ peak \in Nat
  /\ MarkOK

MemoryOK == sBuffer.data_size <= peak /\ Len(sBuffer.buffer) <= peak + step_size

(* Between two calls no complete packet is in the buffer.                  *)
NoneHeld == ~parsing => ~HoldsPacket

(* Since the mark, and until a damaged frame, deliveries, buffer and what  *)
(* is still to arrive are the frames sent, cut between two of them.        *)
InStep ==
  mark # <<>> /\ Whole(wire, mark[1])
    => Cut(wire, delivered, mark[1], mark[2], data(sBuffer) \o arriving)

ParserInv == ParserTyped /\ MemoryOK /\ NoneHeld /\ InStep

LEMMA ParserTypedTypeOK == ParserTyped => ParserTypeOK
<1> SUFFICES ASSUME ParserTyped PROVE ParserTypeOK
  OBVIOUS
<1>1. sBuffer.buffer \in Seq(Int) /\ sBuffer.data_size \in 0 .. Len(sBuffer.buffer)
  BY LenProperties DEF ParserTyped, IsBuffer
<1>2. \A i \in DOMAIN delivered :
        Len(delivered[i]) >= HeaderLen /\ Len(delivered[i]) = HeaderLen + delivered[i][3]
  <2>1. DOMAIN delivered = 1 .. Len(delivered)
    BY LenProperties DEF ParserTyped
  <2> QED
    BY <2>1 DEF ParserTyped, Framed
<1>3. mark \in Seq(Nat)
  <2>1. CASE mark = <<>>
    BY <2>1, EmptySeq
  <2>2. CASE mark # <<>>
    <3>1. mark \in Nat \X Nat
      BY <2>2 DEF ParserTyped, MarkOK
    <3>2. PICK a \in Nat, b \in Nat : mark = <<a, b>>
      BY <3>1
    <3> QED
      BY <3>2
  <2> QED
    BY <2>1, <2>2
<1> QED
  BY <1>1, <1>2, <1>3 DEF ParserTyped, ParserTypeOK

(* The invariant holds at the start, and each call keeps it.               *)
LEMMA ParserInvInit == ParserInit => ParserInv
<1> SUFFICES ASSUME ParserInit PROVE ParserInv
  OBVIOUS
<1>1. /\ wire = <<>> /\ arriving = <<>> /\ delivered = <<>> /\ mark = <<0, 0>>
      /\ parsing = FALSE /\ damaged = 0 /\ peak = 0
  BY DEF ParserInit
<1>2. sBuffer = [buffer |-> Zeros(0), data_size |-> 0] /\ Zeros(0) \in Seq(Int) /\ Len(Zeros(0)) = 0
  BY ZerosType DEF ParserInit, Allocated
<1>3. IsBuffer(sBuffer) /\ sBuffer.data_size = 0 /\ Len(sBuffer.buffer) = 0
  BY <1>2 DEF IsBuffer
<1>4. mark \in Nat \X Nat /\ mark[1] = 0 /\ mark[2] = 0 /\ Len(<<>>) = 0
  BY <1>1
<1>5. wire \in Seq(Seq(Int)) /\ arriving \in Seq(Int) /\ delivered \in Seq(Seq(Int))
  BY <1>1, EmptySeq
<1>6. ParserTyped
  <2>1. MarkOK
    BY <1>1, <1>4 DEF MarkOK
  <2>2. \A i \in 1 .. Len(delivered) : Framed(delivered[i])
    BY <1>1, <1>4
  <2>3. parsing \in BOOLEAN /\ damaged \in 0 .. MaxDamaged /\ peak \in Nat
    <3>1. 0 \in 0 .. MaxDamaged
      BY BoundsAssumption
    <3> QED
      BY <1>1, <3>1
  <2> QED
    BY <1>3, <1>5, <2>1, <2>2, <2>3 DEF ParserTyped
<1>7. MemoryOK /\ NoneHeld
  BY <1>1, <1>3, StepSizeAssumption DEF MemoryOK, NoneHeld, HoldsPacket, HeaderLen
<1>8. InStep
  <2>1. Cut(wire, delivered, 0, Len(delivered), FlattenSeq(SubSeq(wire, 0 + 1, Len(wire))))
    <3>1. 0 \in 0 .. Len(wire)
      BY <1>1, <1>4
    <3> QED
      BY <1>5, <3>1, CutMarked
  <2>2. SubSeq(wire, 0 + 1, Len(wire)) = <<>>
    BY <1>1, <1>4, SubSeqEmpty
  <2>3. data(sBuffer) = <<>>
    BY <1>3, SubSeqEmpty DEF data
  <2>4. data(sBuffer) \o arriving = <<>>
    BY <1>1, <2>3, ConcatEmptySeq, EmptySeq
  <2> QED
    BY <1>1, <1>4, <2>1, <2>2, <2>4, FlattenEmpty DEF InStep
<1> QED
  BY <1>6, <1>7, <1>8 DEF ParserInv

LEMMA TransmitInv ==
  ASSUME ParserInv, NEW x \in Seq(Int), Transmit(x), damaged' \in 0 .. MaxDamaged
  PROVE  ParserInv'
<1>1. /\ wire' = Append(wire, x) /\ arriving' = arriving \o x /\ sBuffer' = sBuffer
      /\ parsing' = parsing /\ delivered' = delivered /\ peak' = peak /\ mark' = mark
  BY DEF Transmit
<1>2. /\ wire \in Seq(Seq(Int)) /\ arriving \in Seq(Int) /\ delivered \in Seq(Seq(Int))
      /\ IsBuffer(sBuffer) /\ parsing \in BOOLEAN /\ peak \in Nat
      /\ \A i \in 1 .. Len(delivered) : Framed(delivered[i])
  BY DEF ParserInv, ParserTyped
<1>3. /\ wire' \in Seq(Seq(Int)) /\ Len(wire') = Len(wire) + 1 /\ Len(wire) \in Nat
      /\ \A i \in 1 .. Len(wire) : wire'[i] = wire[i]
  BY <1>1, <1>2, AppendProperties, LenProperties
<1>4. arriving' \in Seq(Int)
  <2>1. arriving \o x \in Seq(Int)
    BY <1>2, ConcatProperties
  <2> QED
    BY <1>1, <2>1
<1>5. MarkOK'
  <2>1. MarkOK
    BY DEF ParserInv, ParserTyped
  <2> QED
    BY <1>1, <1>3, <2>1 DEF MarkOK
<1>6. ParserTyped'
  BY <1>1, <1>2, <1>3, <1>4, <1>5 DEF ParserTyped
<1>7. MemoryOK' /\ NoneHeld'
  BY <1>1 DEF ParserInv, MemoryOK, NoneHeld, HoldsPacket, packetDataLen
<1>8. InStep'
  <2> SUFFICES ASSUME mark # <<>>, Whole(wire', mark[1])
               PROVE  Cut(wire', delivered, mark[1], mark[2], data(sBuffer) \o arriving')
    BY <1>1 DEF InStep
  <2>1. mark[1] \in Nat /\ mark[2] \in Nat /\ mark[1] <= Len(wire) /\ mark[2] <= Len(delivered)
    BY DEF ParserInv, ParserTyped, MarkOK
  <2>2. Whole(wire, mark[1])
    <3>1. \A k \in mark[1] + 1 .. Len(wire) : k \in mark[1] + 1 .. Len(wire') /\ k \in 1 .. Len(wire)
      BY <1>3, <2>1
    <3> QED
      BY <1>3, <3>1 DEF Whole
  <2> DEFINE words == data(sBuffer) \o arriving
             d == data(sBuffer)
  <2>3. Cut(wire, delivered, mark[1], mark[2], words)
    BY <2>2 DEF ParserInv, InStep
  <2>4. d \in Seq(Int)
    BY <1>2, DataType
  <2>5. words \o x = d \o (arriving \o x)
    <3>1. words = d \o arriving
      OBVIOUS
    <3> HIDE DEF words, d
    <3>2. d \in Seq(Int) /\ arriving \in Seq(Int) /\ x \in Seq(Int)
      BY <1>2, <2>4
    <3>3. Associates(Int)
      BY Associative
    <3>4. (d \o arriving) \o x = d \o (arriving \o x)
      BY <3>2, <3>3 DEF Associates
    <3> QED
      BY <3>1, <3>4
  <2> HIDE DEF words
  <2>6. Cut(Append(wire, x), delivered, mark[1], mark[2], words \o x)
    BY <1>2, <2>1, <2>3, CutSent
  <2> QED
    BY <1>1, <2>5, <2>6 DEF d
<1> QED
  BY <1>6, <1>7, <1>8 DEF ParserInv

LEMMA MaxOfTwo ==
  ASSUME NEW a \in Nat, NEW b \in Nat
  PROVE  Max({a, b}) \in Nat /\ a <= Max({a, b}) /\ b <= Max({a, b})
<1>1. \E y \in {a, b} : \A z \in {a, b} : y >= z
  <2>1. CASE a >= b
    BY <2>1
  <2>2. CASE b >= a
    BY <2>2
  <2> QED
    BY <2>1, <2>2
<1> DEFINE y == CHOOSE y \in {a, b} : \A z \in {a, b} : y >= z
<1>2. y \in {a, b} /\ \A z \in {a, b} : y >= z
  BY <1>1
<1>3. Max({a, b}) = y
  BY DEF Max
<1> HIDE DEF y
<1> QED
  BY <1>2, <1>3

LEMMA ReceiveInv ==
  ASSUME ParserInv, NEW n \in 1 .. Len(arriving), Receive(n)
  PROVE  ParserInv'
<1> DEFINE some == SubSeq(arriving, 1, n)
           rest == SubSeq(arriving, n + 1, Len(arriving))
           b == append(sBuffer, some)
           d == data(sBuffer)
<1>1. /\ wire' = wire /\ delivered' = delivered /\ mark' = mark /\ damaged' = damaged
      /\ parsing' = TRUE /\ sBuffer' = b /\ arriving' = rest
  BY DEF Receive
<1>2. peak' = Max({peak, b.data_size})
  BY DEF Receive
<1>3. /\ wire \in Seq(Seq(Int)) /\ arriving \in Seq(Int) /\ delivered \in Seq(Seq(Int))
      /\ IsBuffer(sBuffer) /\ peak \in Nat /\ Len(arriving) \in Nat
  BY LenProperties DEF ParserInv, ParserTyped
<1>4. some \in Seq(Int) /\ rest \in Seq(Int) /\ some \o rest = arriving
  <2>1. n \in Nat /\ n <= Len(arriving)
    BY <1>3
  <2>2. SubSeq(arriving, 0 + 1, n) \in Seq(Int) /\ 0 + 1 = 1
    BY <1>3, <2>1, SubSeqFrom
  <2>3. rest \in Seq(Int)
    BY <1>3, <2>1, SubSeqFrom
  <2>4. SubSeq(arriving, 1, n) \o SubSeq(arriving, n + 1, Len(arriving)) = SubSeq(arriving, 1, Len(arriving))
    <3>1. 1 \in 1 .. Len(arriving) + 1 /\ n \in 1 - 1 .. Len(arriving) /\ Len(arriving) \in n .. Len(arriving)
      BY <1>3
    <3> QED
      BY <1>3, <3>1, ConcatAdjacentSubSeq
  <2>5. SubSeq(arriving, 1, Len(arriving)) = arriving
    BY <1>3, SubSeqFull
  <2> QED
    BY <2>2, <2>3, <2>4, <2>5
<1> HIDE DEF some, rest
<1>5. /\ IsBuffer(b) /\ data(b) = d \o some
      /\ b.data_size = sBuffer.data_size + Len(some)
      /\ Len(b.buffer) <= Len(sBuffer.buffer) \/ Len(b.buffer) = sBuffer.data_size + Len(some) + step_size
  BY <1>3, <1>4, AppendData
<1>6. b.data_size \in Nat /\ Len(b.buffer) \in Nat /\ d \in Seq(Int)
  BY <1>3, <1>5, DataType, LenProperties DEF IsBuffer
<1> HIDE DEF b, d
<1>7. peak' \in Nat /\ peak <= peak' /\ b.data_size <= peak'
  BY <1>2, <1>3, <1>6, MaxOfTwo
<1>8. ParserTyped'
  BY <1>1, <1>3, <1>4, <1>5, <1>7 DEF ParserInv, ParserTyped, MarkOK
<1>9. MemoryOK'
  <2>1. Len(sBuffer.buffer) <= peak + step_size /\ Len(sBuffer.buffer) \in Nat
    BY <1>3, LenProperties DEF ParserInv, MemoryOK, IsBuffer
  <2>2. Len(b.buffer) <= Len(sBuffer.buffer) \/ Len(b.buffer) = b.data_size + step_size
    BY <1>5
  <2>3. Len(b.buffer) <= peak' + step_size
    <3>1. CASE Len(b.buffer) <= Len(sBuffer.buffer)
      <4>1. Len(b.buffer) \in Nat /\ Len(sBuffer.buffer) \in Nat /\ peak \in Nat /\ peak' \in Nat
            /\ step_size \in Nat
        BY <1>3, <1>6, <1>7, <2>1, StepSizeAssumption
      <4>2. Len(sBuffer.buffer) <= peak + step_size /\ peak <= peak'
        BY <1>7, <2>1
      <4> QED
        BY <3>1, <4>1, <4>2
    <3>2. CASE Len(b.buffer) = b.data_size + step_size
      BY <1>6, <1>7, <3>2, StepSizeAssumption
    <3> QED
      BY <2>2, <3>1, <3>2
  <2> QED
    BY <1>1, <1>7, <2>3 DEF MemoryOK
<1>10. NoneHeld'
  BY <1>1 DEF NoneHeld
<1>11. data(b) \o rest = d \o arriving
  <2>1. (d \o some) \o rest = d \o (some \o rest)
    <3>1. d \in Seq(Int) /\ some \in Seq(Int) /\ rest \in Seq(Int)
      BY <1>4, <1>6
    <3>2. Associates(Int)
      BY Associative
    <3> QED
      BY <3>1, <3>2 DEF Associates
  <2> QED
    BY <1>4, <1>5, <2>1
<1>12. InStep'
  BY <1>1, <1>11 DEF ParserInv, InStep, d
<1> QED
  BY <1>8, <1>9, <1>10, <1>12 DEF ParserInv

(* The first packet in the buffer and what is behind it.                   *)
LEMMA FirstOfData ==
  ASSUME NEW b, IsBuffer(b), NEW n \in Nat, n >= HeaderLen, n <= b.data_size,
         b.buffer[3] = n - HeaderLen
  PROVE  /\ Framed(SubSeq(b.buffer, 1, n))
         /\ data(b) = SubSeq(b.buffer, 1, n) \o data(truncate(b, n))
         /\ data(truncate(b, n)) \in Seq(Int)
<1> DEFINE x == SubSeq(b.buffer, 1, n)
           d == data(b)
           y == SubSeq(d, 1, n)
           z == SubSeq(d, n + 1, Len(d))
<1>1. /\ d \in Seq(Int) /\ Len(d) = b.data_size /\ b.data_size \in Nat
      /\ \A i \in 1 .. b.data_size : d[i] = b.buffer[i]
  BY DataType
<1>2. b.buffer \in Seq(Int) /\ Len(b.buffer) \in Nat /\ n <= Len(b.buffer)
  BY <1>1, LenProperties DEF IsBuffer
<1>3. x \in Seq(Int) /\ Len(x) = n /\ \A i \in 1 .. n : x[i] = b.buffer[i]
  <2> DEFINE u == SubSeq(b.buffer, 0 + 1, n)
  <2>1. u \in Seq(Int) /\ Len(u) = n - 0 /\ \A i \in 1 .. n - 0 : u[i] = b.buffer[0 + i]
    BY <1>2, SubSeqFrom
  <2>2. u = x
    OBVIOUS
  <2> HIDE DEF u, x
  <2>3. n - 0 = n /\ \A i \in 1 .. n : 0 + i = i
    OBVIOUS
  <2> QED
    BY <2>1, <2>2, <2>3
<1>4. Framed(x)
  <2>1. 3 \in 1 .. n
    BY DEF HeaderLen
  <2>2. x[3] = n - HeaderLen
    BY <1>3, <2>1
  <2> HIDE DEF x
  <2> QED
    BY <1>3, <2>2 DEF Framed, HeaderLen
<1> HIDE DEF d
<1>5. y \in Seq(Int) /\ Len(y) = n /\ \A i \in 1 .. n : y[i] = d[i]
  <2> DEFINE u == SubSeq(d, 0 + 1, n)
  <2>1. u \in Seq(Int) /\ Len(u) = n - 0 /\ \A i \in 1 .. n - 0 : u[i] = d[0 + i]
    BY <1>1, SubSeqFrom
  <2>2. u = y
    OBVIOUS
  <2> HIDE DEF u, y
  <2>3. n - 0 = n /\ \A i \in 1 .. n : 0 + i = i
    OBVIOUS
  <2> QED
    BY <2>1, <2>2, <2>3
<1>6. y \o z = d
  <2>1. 1 \in 1 .. Len(d) + 1 /\ n \in 1 - 1 .. Len(d) /\ Len(d) \in n .. Len(d)
    BY <1>1
  <2>2. y \o z = SubSeq(d, 1, Len(d))
    BY <1>1, <2>1, ConcatAdjacentSubSeq
  <2> QED
    BY <1>1, <2>2, SubSeqFull
<1>7. z \in Seq(Int)
  BY <1>1, SubSeqFrom
<1> HIDE DEF x, y
<1>8. x = y
  <2>1. \A i \in 1 .. n : i \in 1 .. b.data_size
    BY <1>1
  <2>2. \A i \in 1 .. Len(x) : x[i] = y[i]
    BY <1>1, <1>3, <1>5, <2>1
  <2>3. Len(x) = Len(y)
    BY <1>3, <1>5
  <2> QED
    BY <1>3, <1>5, <2>2, <2>3, SeqEqual
<1>9. data(truncate(b, n)) = z
  <2>1. n \in 0 .. b.data_size
    BY <1>1
  <2> QED
    BY <1>1, <2>1, TruncateData DEF d
<1> QED
  BY <1>4, <1>6, <1>7, <1>8, <1>9 DEF x, d

LEMMA HeldFacts ==
  ASSUME IsBuffer(sBuffer), HoldsPacket
  PROVE  /\ packetDataLen + HeaderLen \in Nat /\ packetDataLen + HeaderLen >= HeaderLen
         /\ packetDataLen + HeaderLen <= sBuffer.data_size
         /\ sBuffer.buffer[3] = (packetDataLen + HeaderLen) - HeaderLen
<1>1. sBuffer.buffer \in Seq(Int) /\ sBuffer.data_size \in Nat /\ sBuffer.data_size <= Len(sBuffer.buffer)
  BY DEF IsBuffer
<1>2. sBuffer.data_size >= 3
  BY DEF HoldsPacket, HeaderLen
<1>3. 3 \in 1 .. Len(sBuffer.buffer)
  BY <1>1, <1>2, LenProperties
<1>4. packetDataLen \in Int
  BY <1>1, <1>3, ElementOfSeq DEF packetDataLen
<1>5. packetDataLen >= 0 /\ packetDataLen <= sBuffer.data_size - 3
  BY DEF HoldsPacket, HeaderLen
<1> QED
  <2>1. sBuffer.buffer[3] = packetDataLen
    BY DEF packetDataLen
  <2> DEFINE k == packetDataLen
             n == sBuffer.data_size
  <2>2. k \in Int /\ n \in Nat /\ k >= 0 /\ k <= n - 3
    BY <1>1, <1>4, <1>5
  <2> HIDE DEF k, n
  <2>3. k + 3 \in Nat /\ k + 3 >= 3 /\ k + 3 <= n /\ (k + 3) - 3 = k
    BY <2>2
  <2> QED
    BY <2>1, <2>3 DEF HeaderLen, k, n

LEMMA DeliverInv ==
  ASSUME ParserInv, Deliver
  PROVE  ParserInv'
<1> DEFINE n == packetDataLen + HeaderLen
           b == truncate(sBuffer, n)
           x == SubSeq(sBuffer.buffer, 1, n)
<1>1. /\ wire' = wire /\ arriving' = arriving /\ mark' = mark /\ damaged' = damaged
      /\ parsing' = parsing /\ parsing = TRUE /\ peak' = peak /\ sBuffer' = b /\ delivered' = Append(delivered, x)
  BY DEF Deliver, First, ParserInv, ParserTyped
<1>2. /\ wire \in Seq(Seq(Int)) /\ arriving \in Seq(Int) /\ delivered \in Seq(Seq(Int))
      /\ IsBuffer(sBuffer) /\ peak \in Nat /\ Len(delivered) \in Nat
      /\ \A i \in 1 .. Len(delivered) : Framed(delivered[i])
  BY LenProperties DEF ParserInv, ParserTyped
<1>3. n \in Nat /\ n >= HeaderLen /\ n <= sBuffer.data_size /\ sBuffer.buffer[3] = n - HeaderLen
  <2>1. HoldsPacket
    BY DEF Deliver
  <2> QED
    BY <1>2, <2>1, HeldFacts
<1> HIDE DEF n
<1>4. Framed(x) /\ data(sBuffer) = x \o data(b) /\ data(b) \in Seq(Int)
  BY <1>2, <1>3, FirstOfData
<1>5. x \in Seq(Int)
  BY <1>4 DEF Framed
<1> HIDE DEF x
<1>6. /\ IsBuffer(b) /\ b.data_size = sBuffer.data_size - n /\ Len(b.buffer) = Len(sBuffer.buffer)
  <2>1. n \in 0 .. sBuffer.data_size
    BY <1>2, <1>3, DataType
  <2> QED
    BY <1>2, <2>1, TruncateData
<1> HIDE DEF b
<1>7. /\ delivered' \in Seq(Seq(Int)) /\ Len(delivered') = Len(delivered) + 1
      /\ delivered'[Len(delivered) + 1] = x
      /\ \A i \in 1 .. Len(delivered) : delivered'[i] = delivered[i]
  BY <1>1, <1>2, <1>5, AppendProperties
<1>8. \A i \in 1 .. Len(delivered') : Framed(delivered'[i])
  <2> SUFFICES ASSUME NEW i \in 1 .. Len(delivered') PROVE Framed(delivered'[i])
    OBVIOUS
  <2>1. i \in 1 .. Len(delivered) \/ i = Len(delivered) + 1
    BY <1>2, <1>7
  <2> QED
    BY <1>2, <1>4, <1>7, <2>1
<1>9. MarkOK'
  <2>1. MarkOK
    BY DEF ParserInv, ParserTyped
  <2> QED
    BY <1>1, <1>2, <1>7, <2>1 DEF MarkOK
<1>10. ParserTyped'
  <2>1. parsing \in BOOLEAN /\ damaged \in 0 .. MaxDamaged
    BY DEF ParserInv, ParserTyped
  <2> QED
    BY <1>1, <1>2, <1>6, <1>7, <1>8, <1>9, <2>1 DEF ParserTyped
<1>11. MemoryOK'
  <2>1. sBuffer.data_size \in Nat
    BY <1>2 DEF IsBuffer
  <2> QED
    BY <1>1, <1>2, <1>3, <1>6, <2>1 DEF ParserInv, MemoryOK
<1>12. NoneHeld'
  BY <1>1 DEF NoneHeld
<1>13. InStep'
  <2> SUFFICES ASSUME mark # <<>>, Whole(wire, mark[1])
               PROVE  Cut(wire, Append(delivered, x), mark[1], mark[2], data(b) \o arriving)
    BY <1>1 DEF InStep
  <2>1. mark[1] \in Nat /\ mark[2] \in Nat /\ mark[2] <= Len(delivered)
    BY DEF ParserInv, ParserTyped, MarkOK
  <2> DEFINE e == data(b)
             left == e \o arriving
  <2>2. e \in Seq(Int)
    BY <1>4
  <2>3. Cut(wire, delivered, mark[1], mark[2], (x \o e) \o arriving)
    BY <1>4 DEF ParserInv, InStep
  <2> HIDE DEF e
  <2>4. (x \o e) \o arriving = x \o left
    <3>1. x \in Seq(Int) /\ e \in Seq(Int) /\ arriving \in Seq(Int)
      BY <1>2, <1>5, <2>2
    <3> QED
      BY <3>1, ConcatAssociative
  <2>5. left \in Seq(Int)
    BY <1>2, <2>2, ConcatProperties
  <2> HIDE DEF left
  <2>6. Cut(wire, delivered, mark[1], mark[2], x \o left)
    BY <2>3, <2>4
  <2>7. Cut(wire, Append(delivered, x), mark[1], mark[2], left)
    BY <1>2, <1>4, <2>1, <2>5, <2>6, CutDelivered
  <2> QED
    BY <2>7 DEF left, e
<1> QED
  BY <1>10, <1>11, <1>12, <1>13 DEF ParserInv

LEMMA RejectInv ==
  ASSUME ParserInv, Reject
  PROVE  ParserInv'
<1> DEFINE b == empty(sBuffer)
<1>1. /\ wire' = wire /\ arriving' = arriving /\ damaged' = damaged /\ delivered' = delivered
      /\ parsing' = FALSE /\ peak' = peak /\ sBuffer' = b
  BY DEF Reject
<1>2. /\ wire \in Seq(Seq(Int)) /\ arriving \in Seq(Int) /\ delivered \in Seq(Seq(Int))
      /\ IsBuffer(sBuffer) /\ peak \in Nat /\ Len(delivered) \in Nat
  BY LenProperties DEF ParserInv, ParserTyped
<1>3. IsBuffer(b) /\ data(b) = <<>> /\ b.data_size = 0 /\ b.buffer = sBuffer.buffer
  BY <1>2, EmptyData
<1> HIDE DEF b
<1>4. \/ mark' = <<>>
      \/ \E w \in Boundaries : mark' = <<w, Len(delivered)>>
  <2>1. Boundaries # {} => (CHOOSE w \in Boundaries : TRUE) \in Boundaries
    OBVIOUS
  <2> QED
    BY <2>1 DEF Reject
<1>5. ASSUME mark' # <<>>
      PROVE  /\ mark' \in Nat \X Nat /\ mark'[1] <= Len(wire) /\ mark'[2] <= Len(delivered)
             /\ Cut(wire, delivered, mark'[1], mark'[2], data(b) \o arriving)
  <2>1. PICK w \in Boundaries : mark' = <<w, Len(delivered)>>
    BY <1>4, <1>5
  <2>2. w \in 0 .. Len(wire) /\ FlattenSeq(SubSeq(wire, w + 1, Len(wire))) = arriving
    BY DEF Boundaries, FramesFrom
  <2>3. Cut(wire, delivered, w, Len(delivered), arriving)
    BY <1>2, <2>2, CutMarked
  <2>4. data(b) \o arriving = arriving
    BY <1>2, <1>3, ConcatEmptySeq
  <2>5. w \in Nat /\ w <= Len(wire)
    BY <1>2, <2>2, LenProperties
  <2>6. mark'[1] = w /\ mark'[2] = Len(delivered) /\ mark' \in Nat \X Nat
    BY <1>2, <2>1, <2>5
  <2> QED
    BY <1>2, <2>3, <2>4, <2>5, <2>6
<1>6. ParserTyped'
  <2>1. \A i \in 1 .. Len(delivered) : Framed(delivered[i])
    BY DEF ParserInv, ParserTyped
  <2>2. damaged \in 0 .. MaxDamaged
    BY DEF ParserInv, ParserTyped
  <2>3. MarkOK'
    BY <1>1, <1>5 DEF MarkOK
  <2> QED
    BY <1>1, <1>2, <1>3, <2>1, <2>2, <2>3 DEF ParserTyped
<1>7. MemoryOK'
  BY <1>1, <1>2, <1>3 DEF ParserInv, MemoryOK
<1>8. NoneHeld'
  BY <1>1, <1>3 DEF NoneHeld, HoldsPacket, HeaderLen
<1>9. InStep'
  BY <1>1, <1>5 DEF InStep
<1> QED
  BY <1>6, <1>7, <1>8, <1>9 DEF ParserInv

LEMMA ParserInvNext == ParserInv /\ [ParserNext]_parserVars => ParserInv'
<1> SUFFICES ASSUME ParserInv, [ParserNext]_parserVars PROVE ParserInv'
  OBVIOUS
<1>1. CASE \E p \in Packets : SendPacket(p)
  <2>1. PICK p \in Packets : SendPacket(p)
    BY <1>1
  <2>2. MakeProtocolForSocket(p) \in Seq(Int)
    BY MadeFrame DEF Framed
  <2> QED
    BY <2>1, <2>2, TransmitInv DEF SendPacket, ParserInv, ParserTyped
<1>2. CASE \E p \in Packets : \E i \in 1 .. HeaderLen + Len(p.data), word \in NoiseWords : SendDamaged(p, i, word)
  <2>1. PICK p \in Packets : \E i \in 1 .. HeaderLen + Len(p.data), word \in NoiseWords : SendDamaged(p, i, word)
    BY <1>2
  <2>2. PICK i \in 1 .. HeaderLen + Len(p.data), word \in NoiseWords : SendDamaged(p, i, word)
    BY <2>1
  <2> DEFINE x == MakeProtocolForSocket(p)
             y == [x EXCEPT ![i] = word]
  <2>3. x \in Seq(Int)
    BY MadeFrame DEF Framed
  <2>4. damaged < MaxDamaged /\ i \in DOMAIN x /\ Transmit(y) /\ damaged' = damaged + 1
    BY <2>2 DEF SendDamaged
  <2> HIDE DEF x
  <2>5. i \in 1 .. Len(x) /\ word \in Int
    BY <2>3, <2>4, LenProperties, NoiseAssumption
  <2>6. y \in Seq(Int)
    BY <2>3, <2>5, ExceptSeq
  <2>7. damaged' \in 0 .. MaxDamaged
    BY <2>4, BoundsAssumption DEF ParserInv, ParserTyped
  <2> HIDE DEF y
  <2> QED
    BY <2>4, <2>6, <2>7, TransmitInv
<1>3. CASE \E n \in 1 .. Len(arriving) : Receive(n)
  BY <1>3, ReceiveInv
<1>4. CASE Deliver
  BY <1>4, DeliverInv
<1>5. CASE Reject
  BY <1>5, RejectInv
<1>6. CASE Await
  BY <1>6 DEF Await, ParserInv, ParserTyped, MarkOK, MemoryOK, NoneHeld, HoldsPacket, packetDataLen, InStep
<1>7. CASE UNCHANGED parserVars
  BY <1>7 DEF parserVars, ParserInv, ParserTyped, MarkOK, MemoryOK, NoneHeld, HoldsPacket, packetDataLen, InStep
<1> QED
  BY <1>1, <1>2, <1>3, <1>4, <1>5, <1>6, <1>7 DEF ParserNext, Loop

-----------------------------------------------------------------------------
LEMMA ParserInvAlways == ParserSpec => []ParserInv
  BY ParserInvInit, ParserInvNext, PTL DEF ParserSpec

(* The state keeps its type: each packet handed to the callback is as long *)
(* as its header says, and no more of the memory is in use than there is.  *)
THEOREM ParserTypeCorrect == ParserSpec => []ParserTypeOK
<1>1. ParserInv => ParserTypeOK
  BY ParserTypedTypeOK DEF ParserInv
<1> QED
  BY <1>1, ParserInvAlways, PTL

(* CSmartBuffer::append, truncate, empty: however many packets came and    *)
(* went, the memory is at most what ever waited at once and one step.      *)
THEOREM MemoryIsBounded == ParserSpec => []MemoryFollowsBacklog
<1>1. ParserInv => MemoryFollowsBacklog
  BY DEF ParserInv, MemoryOK, MemoryFollowsBacklog
<1> QED
  BY <1>1, ParserInvAlways, PTL

(* While nothing was damaged since the mark the invariant says how the     *)
(* stream is cut.                                                          *)
LEMMA Undamaged ==
  ASSUME ParserInv, mark # <<>>, ~DamagedSince(mark[1])
  PROVE  /\ wire \in Seq(Seq(Int)) /\ delivered \in Seq(Seq(Int))
         /\ mark[1] \in Nat /\ mark[2] \in Nat /\ mark[1] <= Len(wire) /\ mark[2] <= Len(delivered)
         /\ data(sBuffer) \in Seq(Int) /\ arriving \in Seq(Int)
         /\ Whole(wire, mark[1])
         /\ Cut(wire, delivered, mark[1], mark[2], data(sBuffer) \o arriving)
<1>1. IsBuffer(sBuffer)
  BY DEF ParserInv, ParserTyped
<1>2. data(sBuffer) \in Seq(Int)
  BY <1>1, DataType
<1>3. Whole(wire, mark[1])
  BY DEF DamagedSince, Whole
<1> QED
  BY <1>2, <1>3 DEF ParserInv, ParserTyped, MarkOK, InStep

(* ParseSocketProtocol: however the stream is cut into chunks, what was    *)
(* handed over, what is in the buffer and what is still to arrive are the  *)
(* packets sent, in order, none lost and none twice.                       *)
THEOREM StreamIsAccounted == ParserSpec => []StreamAccounted
<1>1. ParserInv => StreamAccounted
  <2> SUFFICES ASSUME ParserInv, mark # <<>>, ~DamagedSince(mark[1])
               PROVE  FlattenSeq(SubSeq(delivered, mark[2] + 1, Len(delivered)))
                        \o data(sBuffer) \o arriving = FlattenSeq(FramesFrom(mark[1]))
    BY DEF StreamAccounted
  <2> DEFINE a == FlattenSeq(SubSeq(delivered, mark[2] + 1, Len(delivered)))
             d == data(sBuffer)
             words == d \o arriving
  <2>1. /\ wire \in Seq(Seq(Int)) /\ delivered \in Seq(Seq(Int))
        /\ mark[1] \in Nat /\ mark[2] \in Nat /\ mark[2] <= Len(delivered)
        /\ d \in Seq(Int) /\ arriving \in Seq(Int)
        /\ Cut(wire, delivered, mark[1], mark[2], words)
    BY Undamaged
  <2>2. a \in Seq(Int)
    <3>1. SubSeq(delivered, mark[2] + 1, Len(delivered)) \in Seq(Seq(Int))
      BY <2>1, SubSeqFrom, LenProperties
    <3> QED
      BY <3>1, FlattenType
  <2>3. (a \o d) \o arriving = a \o (d \o arriving)
    <3>1. a \in Seq(Int) /\ d \in Seq(Int) /\ arriving \in Seq(Int)
      BY <2>1, <2>2
    <3> HIDE DEF a, d
    <3>2. Associates(Int)
      BY Associative
    <3> QED
      BY <3>1, <3>2 DEF Associates
  <2> HIDE DEF words
  <2>4. a \o words = FlattenSeq(SubSeq(wire, mark[1] + 1, Len(wire)))
    <3> DEFINE i == mark[1]
               j == mark[2]
    <3>1. /\ wire \in Seq(Seq(Int)) /\ delivered \in Seq(Seq(Int)) /\ i \in Nat /\ j \in Nat
          /\ j <= Len(delivered) /\ Cut(wire, delivered, i, j, words)
      BY <2>1
    <3> HIDE DEF i, j
    <3>2. FlattenSeq(SubSeq(delivered, j + 1, Len(delivered))) \o words = FlattenSeq(SubSeq(wire, i + 1, Len(wire)))
      BY <3>1, CutAccounted
    <3> QED
      BY <3>2 DEF i, j
  <2> QED
    BY <2>3, <2>4 DEF words, FramesFrom
<1> QED
  BY <1>1, ParserInvAlways, PTL

(* ParseSocketProtocol: once everything sent has arrived, everything sent  *)
(* has been handed over.                                                   *)
THEOREM NothingIsLeftWaiting == ParserSpec => []NothingLeftWaiting
<1>1. ParserInv => NothingLeftWaiting
  <2> SUFFICES ASSUME ParserInv, mark # <<>>, ~parsing, ~DamagedSince(mark[1])
               PROVE  /\ Len(delivered) - mark[2] <= Len(wire) - mark[1]
                      /\ arriving = <<>> => Len(delivered) - mark[2] = Len(wire) - mark[1]
    BY DEF NothingLeftWaiting
  <2> DEFINE r == Reached(delivered, mark[1], mark[2])
             d == data(sBuffer)
  <2>1. /\ wire \in Seq(Seq(Int)) /\ delivered \in Seq(Seq(Int))
        /\ mark[1] \in Nat /\ mark[2] \in Nat /\ mark[2] <= Len(delivered)
        /\ d \in Seq(Int) /\ arriving \in Seq(Int)
        /\ Whole(wire, mark[1])
        /\ Cut(wire, delivered, mark[1], mark[2], d \o arriving)
    BY Undamaged
  <2>2. Len(wire) \in Nat /\ Len(delivered) \in Nat /\ r \in Nat /\ mark[1] <= r /\ r <= Len(wire)
    <3>1. Len(wire) \in Nat /\ Len(delivered) \in Nat
      BY <2>1, LenProperties
    <3>2. r <= Len(wire)
      BY <2>1 DEF Cut
    <3>3. r = mark[1] + (Len(delivered) - mark[2])
      BY DEF Reached
    <3>4. mark[1] \in Nat /\ mark[2] \in Nat /\ mark[2] <= Len(delivered)
      BY <2>1
    <3> HIDE DEF r
    <3> QED
      BY <3>1, <3>2, <3>3, <3>4
  <2>3. Len(delivered) - mark[2] <= Len(wire) - mark[1]
    BY <2>1, <2>2 DEF Reached
  <2>4. ASSUME arriving = <<>>, r < Len(wire)
        PROVE  FALSE
    <3>1. d = FlattenSeq(SubSeq(wire, r + 1, Len(wire)))
      <4>1. d \o arriving = d
        BY <2>1, <2>4, ConcatEmptySeq
      <4> QED
        BY <2>1, <4>1 DEF Cut
    <3>2. Whole(wire, r)
      <4>1. \A k \in r + 1 .. Len(wire) : k \in mark[1] + 1 .. Len(wire)
        BY <2>1, <2>2
      <4> QED
        BY <2>1, <4>1 DEF Whole
    <3> DEFINE x == wire[r + 1]
               more == FlattenSeq(SubSeq(wire, (r + 1) + 1, Len(wire)))
    <3> HIDE DEF r
    <3>3. Framed(x) /\ d = x \o more /\ more \in Seq(Int)
      BY <2>1, <2>2, <2>4, <3>1, <3>2, NextFrame
    <3>4. IsBuffer(sBuffer)
      BY DEF ParserInv, ParserTyped
    <3>5. /\ Len(d) = sBuffer.data_size /\ sBuffer.data_size \in Nat
          /\ \A i \in 1 .. sBuffer.data_size : d[i] = sBuffer.buffer[i]
      BY <3>4, DataType
    <3> HIDE DEF x, more, d
    <3>6. x \in Seq(Int) /\ Len(x) \in Nat /\ Len(x) >= 3 /\ x[3] >= 0 /\ Len(x) = 3 + x[3] /\ Len(more) \in Nat /\ x[3] \in Int
      BY <3>3, LenProperties, ElementOfSeq DEF Framed, HeaderLen
    <3>7. Len(d) = Len(x) + Len(more) /\ d[3] = x[3]
      <4>1. 3 \in 1 .. Len(x) + Len(more) /\ 3 <= Len(x)
        BY <3>6
      <4> QED
        BY <3>3, <3>6, <4>1, ConcatProperties
    <3>8. sBuffer.data_size >= 3 /\ sBuffer.buffer[3] = x[3]
      <4>1. sBuffer.data_size >= 3
        BY <3>5, <3>6, <3>7
      <4>2. 3 \in 1 .. sBuffer.data_size
        BY <3>5, <4>1
      <4> QED
        BY <3>5, <3>7, <4>1, <4>2
    <3>9. HoldsPacket
      BY <3>5, <3>6, <3>7, <3>8 DEF HoldsPacket, HeaderLen, packetDataLen
    <3> QED
      BY <3>9 DEF ParserInv, NoneHeld
  <2>5. arriving = <<>> => Len(delivered) - mark[2] = Len(wire) - mark[1]
    <3>1. arriving = <<>> => r = Len(wire)
      BY <2>2, <2>4
    <3> QED
      BY <2>1, <2>2, <3>1 DEF Reached
  <2> QED
    BY <2>3, <2>5
<1> QED
  BY <1>1, ParserInvAlways, PTL

(* ParseSocketProtocol: behind a header with a negative length nothing is  *)
(* handed to the callback any more, whatever arrives.                      *)
THEOREM WedgedStays == ParserSpec => WedgedForGood
<1>1. ParserInv /\ [ParserNext]_parserVars => [Wedged => Wedged' /\ delivered' = delivered]_parserVars
  <2> SUFFICES ASSUME ParserInv, ParserNext, Wedged PROVE Wedged' /\ delivered' = delivered
    BY DEF parserVars
  <2>1. IsBuffer(sBuffer)
    BY DEF ParserInv, ParserTyped
  <2>2. sBuffer.data_size >= 3 /\ sBuffer.data_size \in Nat /\ packetDataLen < 0 /\ 3 \in 1 .. sBuffer.data_size
    BY <2>1 DEF Wedged, IsBuffer, HeaderLen
  <2>3. ~HoldsPacket
    <3>1. HoldsPacket => packetDataLen >= 0 /\ packetDataLen \in Int
      <4>1. sBuffer.buffer \in Seq(Int) /\ 3 \in 1 .. Len(sBuffer.buffer)
        BY <2>1, <2>2, LenProperties DEF IsBuffer
      <4>2. packetDataLen \in Int
        BY <4>1, ElementOfSeq DEF packetDataLen
      <4> QED
        BY <4>2 DEF HoldsPacket
    <3> QED
      BY <2>2, <3>1
  <2>4. ASSUME sBuffer' = sBuffer
        PROVE  Wedged'
    BY <2>4 DEF Wedged, packetDataLen
  <2>5. CASE \E p \in Packets : SendPacket(p)
    BY <2>4, <2>5 DEF SendPacket, Transmit
  <2>6. CASE \E p \in Packets : \E i \in 1 .. HeaderLen + Len(p.data), word \in NoiseWords : SendDamaged(p, i, word)
    BY <2>4, <2>6 DEF SendDamaged, Transmit
  <2>7. CASE \E n \in 1 .. Len(arriving) : Receive(n)
    <3>1. PICK n \in 1 .. Len(arriving) : Receive(n)
      BY <2>7
    <3> DEFINE some == SubSeq(arriving, 1, n)
               b == append(sBuffer, some)
    <3>2. sBuffer' = b /\ delivered' = delivered
      BY <3>1 DEF Receive
    <3>3. some \in Seq(Int)
      <4>1. arriving \in Seq(Int) /\ n \in Nat /\ n <= Len(arriving)
        BY LenProperties DEF ParserInv, ParserTyped
      <4>2. SubSeq(arriving, 0 + 1, n) \in Seq(Int)
        BY <4>1, SubSeqFrom
      <4> QED
        BY <4>2
    <3> HIDE DEF some
    <3>4. b.data_size = sBuffer.data_size + Len(some) /\ b.buffer[3] = sBuffer.buffer[3] /\ Len(some) \in Nat
      BY <2>1, <2>2, <3>3, AppendData, LenProperties
    <3> HIDE DEF b
    <3> QED
      BY <2>2, <3>2, <3>4 DEF Wedged, packetDataLen, HeaderLen
  <2>8. CASE Await
    BY <2>4, <2>8 DEF Await
  <2> QED
    BY <2>3, <2>5, <2>6, <2>7, <2>8 DEF ParserNext, Loop, Deliver, Reject
<1> QED
  BY <1>1, ParserInvAlways, PTL DEF ParserSpec, WedgedForGood
-----------------------------------------------------------------------------
(***************************************************************************)
(* XmlTree.  Each call writes a handful of pointers; what keeps them sound *)
(* (Sound) is that they are well linked, that no chain of parents and no   *)
(* list of siblings runs in a circle, and that a node has a first child    *)
(* when it has a last one.  That nothing runs in a circle is said of sets  *)
(* of nodes, so that no induction over the tree is needed; a call that     *)
(* copies or deletes a tree is a step from one sound heap to another.      *)
(***************************************************************************)
(* No node is below itself and no list of siblings runs in a circle: every *)
(* set of nodes has one whose parent, and one whose next is not in it.     *)
Founded(h) == \A S \in SUBSET Nodes : S # {} => \E m \in S : h[m].parent \notin S
Ended(h) == \A S \in SUBSET Nodes : S # {} => \E m \in S : h[m].next \notin S

(* A node has a first child when it has a last one.                        *)
EndsTogether(h) == \A m \in Nodes : h[m].firstChild = Null <=> h[m].lastChild = Null

Sound(h) ==
  h \in [Nodes -> Node] /\ WellLinked(h) /\ EndsTogether(h) /\ Founded(h) /\ Ended(h)
-----------------------------------------------------------------------------
(* The tree under a node is closed under children, and nothing smaller is; *)
(* but for the node itself it has the parents of its nodes.                *)
LEMMA SubtreeClosed ==
  ASSUME NEW h, NEW n \in Nodes
  PROVE  /\ n \in Subtree(h, n) /\ Subtree(h, n) \subseteq Nodes
         /\ \A m \in Nodes : h[m].parent \in Subtree(h, n) => m \in Subtree(h, n)
  BY DEF Subtree, Closed

LEMMA SubtreeLeast ==
  ASSUME NEW h, NEW n, NEW S \in SUBSET Nodes, n \in S,
         \A m \in Nodes : h[m].parent \in S => m \in S
  PROVE  Subtree(h, n) \subseteq S
  BY DEF Subtree, Closed

LEMMA SubtreeParents ==
  ASSUME NEW h, NEW n \in Nodes, NEW x \in Subtree(h, n), x # n
  PROVE  h[x].parent \in Subtree(h, n)
<1> SUFFICES ASSUME h[x].parent \notin Subtree(h, n) PROVE FALSE
  OBVIOUS
<1> DEFINE S == Subtree(h, n) \ {x}
<1>1. n \in S /\ S \in SUBSET Nodes
  BY SubtreeClosed
<1>2. \A m \in Nodes : h[m].parent \in S => m \in S
  BY SubtreeClosed
<1> HIDE DEF S
<1>3. Subtree(h, n) \subseteq S
  BY <1>1, <1>2, SubtreeLeast
<1> QED
  BY <1>3 DEF S

LEMMA ParentNotBelow ==
  ASSUME NEW h, Founded(h), NEW n \in Nodes
  PROVE  h[n].parent \notin Subtree(h, n)
<1> SUFFICES ASSUME h[n].parent \in Subtree(h, n) PROVE FALSE
  OBVIOUS
<1> DEFINE T == Subtree(h, n)
<1>1. T \in SUBSET Nodes /\ T # {}
  BY SubtreeClosed
<1>2. \A x \in T : h[x].parent \in T
  BY SubtreeParents
<1> HIDE DEF T
<1> QED
  BY <1>1, <1>2 DEF Founded

(* What a set of pointers says, pointer by pointer.                        *)
LEMMA Pointed ==
  ASSUME NEW h \in [Nodes -> Node], NEW m \in Nodes
  PROVE  /\ h[m].parent \in Pointers /\ h[m].firstChild \in Pointers /\ h[m].lastChild \in Pointers
         /\ h[m].prev \in Pointers /\ h[m].next \in Pointers
         /\ h[m].kind \in Kinds \cup {"free"} /\ h[m].value \in Values \cup {NoValue}
  BY DEF Node
-----------------------------------------------------------------------------
(* A set of nodes is deleted, of which no other node has a pointer.        *)
LEMMA DeletedSound ==
  ASSUME NEW h, Sound(h), NEW G \in SUBSET Nodes,
         \A m \in Nodes \ G :
           /\ h[m].parent \notin G /\ h[m].firstChild \notin G /\ h[m].lastChild \notin G
           /\ h[m].prev \notin G /\ h[m].next \notin G
  PROVE  Sound(Deleted(h, G))
<1> DEFINE g == Deleted(h, G)
<1>1. /\ \A m \in G : g[m] = Free
      /\ \A m \in Nodes \ G : g[m] = h[m]
  BY DEF Deleted
<1>2. /\ Free \in Node
      /\ Free.parent = Null /\ Free.firstChild = Null /\ Free.lastChild = Null
      /\ Free.prev = Null /\ Free.next = Null /\ Free.kind = "free"
  BY DEF Free, NewNode, Node, Pointers
<1>3. g \in [Nodes -> Node]
  BY <1>1, <1>2 DEF Sound, Deleted
<1> HIDE DEF g
<1>4. WellLinked(g)
  <2>1. \A m, n \in Nodes : g[m].next = n <=> g[n].prev = m
    BY <1>1, <1>2, NullAssumption DEF Sound, WellLinked
  <2>2. \A m, n \in Nodes : g[m].next = n => g[m].parent = g[n].parent /\ g[n].parent # Null
    BY <1>1, <1>2, NullAssumption DEF Sound, WellLinked
  <2>3. \A m, n \in Nodes : g[m].firstChild = n <=> g[n].parent = m /\ g[n].prev = Null
    BY <1>1, <1>2, NullAssumption DEF Sound, WellLinked
  <2>4. \A m, n \in Nodes : g[m].lastChild = n <=> g[n].parent = m /\ g[n].next = Null
    BY <1>1, <1>2, NullAssumption DEF Sound, WellLinked
  <2>5. \A m, n \in Nodes : g[n].parent = m => Live(g, m) /\ Live(g, n)
    BY <1>1, <1>2, NullAssumption DEF Sound, WellLinked, Live
  <2>6. \A m \in Nodes : g[m].parent = Null => g[m].prev = Null /\ g[m].next = Null
    BY <1>1, <1>2 DEF Sound, WellLinked
  <2> QED
    BY <2>1, <2>2, <2>3, <2>4, <2>5, <2>6 DEF WellLinked
<1>5. EndsTogether(g)
  BY <1>1, <1>2 DEF Sound, EndsTogether
<1>6. Founded(g)
  <2> SUFFICES ASSUME NEW S \in SUBSET Nodes, S # {} PROVE \E m \in S : g[m].parent \notin S
    BY DEF Founded
  <2>1. PICK m \in S : h[m].parent \notin S
    BY DEF Sound, Founded
  <2> QED
    BY <1>1, <1>2, <2>1, NullAssumption
<1>7. Ended(g)
  <2> SUFFICES ASSUME NEW S \in SUBSET Nodes, S # {} PROVE \E m \in S : g[m].next \notin S
    BY DEF Ended
  <2>1. PICK m \in S : h[m].next \notin S
    BY DEF Sound, Ended
  <2> QED
    BY <1>1, <1>2, <2>1, NullAssumption
<1> QED
  BY <1>3, <1>4, <1>5, <1>6, <1>7 DEF Sound, g

(* delete: a node that is nobody's child, and what is below it.            *)
LEMMA DeleteSound ==
  ASSUME NEW h, Sound(h), NEW n \in Nodes, h[n].parent = Null
  PROVE  Sound(Deleted(h, Subtree(h, n)))
<1> DEFINE G == Subtree(h, n)
<1>1. G \in SUBSET Nodes /\ n \in G /\ \A m \in Nodes : h[m].parent \in G => m \in G
  BY SubtreeClosed
<1>2. \A x \in G : x # n => h[x].parent \in G
  BY SubtreeParents
<1> HIDE DEF G
<1> SUFFICES Sound(Deleted(h, G))
  BY DEF G
<1>3. ASSUME NEW m \in Nodes \ G
      PROVE  /\ h[m].parent \notin G /\ h[m].firstChild \notin G /\ h[m].lastChild \notin G
             /\ h[m].prev \notin G /\ h[m].next \notin G
  <2>1. h[m].parent \notin G
    BY <1>1
  <2>2. h[m].firstChild \notin G /\ h[m].lastChild \notin G
    BY <1>1, <1>2, NullAssumption DEF Sound, WellLinked
  <2>3. h[m].next \notin G
    BY <1>1, <1>2, <2>1 DEF Sound, WellLinked
  <2>4. h[m].prev \notin G
    BY <1>1, <1>2, <2>1 DEF Sound, WellLinked
  <2> QED
    BY <2>1, <2>2, <2>3, <2>4
<1> QED
  BY <1>1, <1>3, DeletedSound

(* Clear: everything below a node is deleted, the node keeps its place.    *)
LEMMA ClearSound ==
  ASSUME NEW h, Sound(h), NEW n \in Nodes
  PROVE  Sound(Cleared(h, n))
<1> DEFINE T == Subtree(h, n)
           G == T \ {n}
           g == Cleared(h, n)
<1>1. T \in SUBSET Nodes /\ n \in T /\ \A m \in Nodes : h[m].parent \in T => m \in T
  BY SubtreeClosed
<1>2. \A x \in T : x # n => h[x].parent \in T
  BY SubtreeParents
<1>3. h[n].parent \notin T
  BY ParentNotBelow DEF Sound
<1> HIDE DEF T
<1>4. G \in SUBSET Nodes /\ n \notin G
  BY <1>1
<1>5. /\ Free \in Node
      /\ Free.parent = Null /\ Free.firstChild = Null /\ Free.lastChild = Null
      /\ Free.prev = Null /\ Free.next = Null /\ Free.kind = "free"
  BY DEF Free, NewNode, Node, Pointers
<1>6. /\ \A m \in G : g[m] = Free
      /\ \A m \in Nodes \ G : m # n => g[m] = h[m]
      /\ g[n] = [h[n] EXCEPT !.firstChild = Null, !.lastChild = Null]
  BY <1>4 DEF Cleared, Deleted, Sound, T
<1>7. g \in [Nodes -> Node]
  <2>1. g[n] \in Node
    BY <1>6 DEF Sound, Node, Pointers
  <2>2. g = [m \in Nodes |-> g[m]]
    BY DEF Cleared, Deleted
  <2> QED
    BY <1>5, <1>6, <2>1, <2>2 DEF Sound
<1>8. \A m \in Nodes :
        /\ g[m].kind = IF m \in G THEN "free" ELSE h[m].kind
        /\ g[m].parent = IF m \in G THEN Null ELSE h[m].parent
        /\ g[m].prev = IF m \in G THEN Null ELSE h[m].prev
        /\ g[m].next = IF m \in G THEN Null ELSE h[m].next
        /\ g[m].firstChild = IF m \in G \/ m = n THEN Null ELSE h[m].firstChild
        /\ g[m].lastChild = IF m \in G \/ m = n THEN Null ELSE h[m].lastChild
  <2>1. /\ g[n].parent = h[n].parent /\ g[n].prev = h[n].prev /\ g[n].next = h[n].next
        /\ g[n].firstChild = Null /\ g[n].lastChild = Null /\ g[n].kind = h[n].kind
    BY <1>6 DEF Sound, Node
  <2> HIDE DEF g, G
  <2> QED
    BY <1>4, <1>5, <1>6, <2>1
<1> HIDE DEF g
<1>9. \A m \in Nodes \ G :
        /\ h[m].parent \notin G /\ h[m].prev \notin G /\ h[m].next \notin G
        /\ m # n => h[m].firstChild \notin G /\ h[m].lastChild \notin G
  <2> SUFFICES ASSUME NEW m \in Nodes \ G
               PROVE  /\ h[m].parent \notin G /\ h[m].prev \notin G /\ h[m].next \notin G
                      /\ m # n => h[m].firstChild \notin G /\ h[m].lastChild \notin G
    OBVIOUS
  <2>1. h[m].parent \notin T
    BY <1>1, <1>3
  <2>2. h[m].next \notin G
    BY <1>1, <1>2, <2>1 DEF Sound, WellLinked
  <2>3. h[m].prev \notin G
    BY <1>1, <1>2, <2>1 DEF Sound, WellLinked
  <2>4. m # n => h[m].firstChild \notin G /\ h[m].lastChild \notin G
    BY <1>1, <1>2 DEF Sound, WellLinked
  <2> QED
    BY <2>1, <2>2, <2>3, <2>4
<1>10. \A m \in Nodes : h[m].parent = n => m \in G
  BY <1>1, <1>3
<1> HIDE DEF G
<1>11. WellLinked(g)
  <2>1. \A m, k \in Nodes : g[m].next = k <=> g[k].prev = m
    BY <1>8, <1>9, NullAssumption DEF Sound, WellLinked
  <2>2. \A m, k \in Nodes : g[m].next = k => g[m].parent = g[k].parent /\ g[k].parent # Null
    BY <1>8, <1>9, NullAssumption DEF Sound, WellLinked
  <2>3. \A m, k \in Nodes : g[m].firstChild = k <=> g[k].parent = m /\ g[k].prev = Null
    BY <1>8, <1>9, <1>10, NullAssumption DEF Sound, WellLinked
  <2>4. \A m, k \in Nodes : g[m].lastChild = k <=> g[k].parent = m /\ g[k].next = Null
    BY <1>8, <1>9, <1>10, NullAssumption DEF Sound, WellLinked
  <2>5. \A m, k \in Nodes : g[k].parent = m => Live(g, m) /\ Live(g, k)
    BY <1>8, <1>9, NullAssumption DEF Sound, WellLinked, Live
  <2>6. \A m \in Nodes : g[m].parent = Null => g[m].prev = Null /\ g[m].next = Null
    BY <1>8 DEF Sound, WellLinked
  <2> QED
    BY <2>1, <2>2, <2>3, <2>4, <2>5, <2>6 DEF WellLinked
<1>12. EndsTogether(g)
  BY <1>8 DEF Sound, EndsTogether
<1>13. Founded(g)
  <2> SUFFICES ASSUME NEW S \in SUBSET Nodes, S # {} PROVE \E m \in S : g[m].parent \notin S
    BY DEF Founded
  <2>1. PICK m \in S : h[m].parent \notin S
    BY DEF Sound, Founded
  <2> QED
    BY <1>8, <2>1, NullAssumption
<1>14. Ended(g)
  <2> SUFFICES ASSUME NEW S \in SUBSET Nodes, S # {} PROVE \E m \in S : g[m].next \notin S
    BY DEF Ended
  <2>1. PICK m \in S : h[m].next \notin S
    BY DEF Sound, Ended
  <2> QED
    BY <1>8, <2>1, NullAssumption
<1> QED
  BY <1>7, <1>11, <1>12, <1>13, <1>14 DEF Sound, g

(* A child is taken out of its list and becomes nobody's child.            *)
LEMMA UnlinkedSound ==
  ASSUME NEW h, Sound(h), NEW n \in Nodes, h[n].parent \in Nodes
  PROVE  /\ Sound(Unlinked(h, n)) /\ Unlinked(h, n)[n].parent = Null
         /\ \A m \in Nodes : m # n => Unlinked(h, n)[m].parent = h[m].parent
         /\ \A m \in Nodes : Unlinked(h, n)[m].kind = h[m].kind
<1> DEFINE g == Unlinked(h, n)
           p == h[n].parent
           left == h[n].prev
           right == h[n].next
<1>1. \A m \in Nodes :
        /\ g[m].kind = h[m].kind
        /\ g[m].parent = IF m = n THEN Null ELSE h[m].parent
        /\ g[m].prev = IF m = n THEN Null ELSE IF m = right THEN left ELSE h[m].prev
        /\ g[m].next = IF m = n THEN Null ELSE IF m = left THEN right ELSE h[m].next
        /\ m # n => g[m].lastChild = IF m = p /\ right = Null THEN left ELSE h[m].lastChild
        /\ m # n => g[m].firstChild = IF m = p /\ left = Null THEN right ELSE h[m].firstChild
        /\ m = n => g[m].firstChild = h[m].firstChild /\ g[m].lastChild = h[m].lastChild
  BY DEF Unlinked, Sound, Node
<1>2. g \in [Nodes -> Node]
  <2>1. left \in Pointers /\ right \in Pointers
    BY Pointed DEF Sound
  <2>2. ASSUME NEW m \in Nodes PROVE g[m] \in Node
    <3>1. CASE m = n
      <4> DEFINE r == [h[n] EXCEPT !.parent = Null, !.prev = Null, !.next = Null]
      <4>1. g[m] = r
        BY <3>1 DEF Unlinked
      <4>2. h[n] \in Node /\ Null \in Pointers
        BY DEF Sound, Pointers
      <4>3. r \in Node
        BY <4>2 DEF Node
      <4> QED
        BY <4>1, <4>3
    <3>2. CASE m # n
      <4> DEFINE r == [h[m] EXCEPT
             !.prev = IF m = h[n].next THEN h[n].prev ELSE @,
             !.next = IF m = h[n].prev THEN h[n].next ELSE @,
             !.lastChild = IF m = h[n].parent /\ h[n].next = Null THEN h[n].prev ELSE @,
             !.firstChild = IF m = h[n].parent /\ h[n].prev = Null THEN h[n].next ELSE @]
      <4>1. g[m] = r
        BY <3>2 DEF Unlinked
      <4>2. h[m] \in Node /\ h[n].prev \in Pointers /\ h[n].next \in Pointers
        BY <2>1 DEF Sound
      <4> HIDE DEF Pointers
      <4>3. r \in Node
        BY <4>2 DEF Node
      <4> QED
        BY <4>1, <4>3
    <3> QED
      BY <3>1, <3>2
  <2> QED
    BY <2>2 DEF Unlinked
<1> HIDE DEF g
<1>3. p \in Nodes /\ left \in Pointers /\ right \in Pointers
  BY Pointed DEF Sound
<1>4. /\ left \in Nodes => h[left].next = n /\ h[left].parent = p
      /\ right \in Nodes => h[right].prev = n /\ h[right].parent = p
      /\ left = Null => h[p].firstChild = n
      /\ right = Null => h[p].lastChild = n
  BY <1>3 DEF Sound, WellLinked
<1>5. p # n /\ left # n /\ right # n
  <2>1. p # n
    BY ParentNotBelow, SubtreeClosed DEF Sound
  <2>2. h[n].next # n
    <3>1. {n} \in SUBSET Nodes /\ {n} # {}
      OBVIOUS
    <3>2. \E m \in {n} : h[m].next \notin {n}
      BY <3>1 DEF Sound, Ended
    <3> QED
      BY <3>2
  <2> QED
    BY <2>1, <2>2 DEF Sound, WellLinked
<1>6. left \in Nodes => left # right
  <2> SUFFICES ASSUME left \in Nodes, left = right PROVE FALSE
    OBVIOUS
  <2>1. {n, left} \in SUBSET Nodes /\ {n, left} # {}
    OBVIOUS
  <2>2. \E m \in {n, left} : h[m].next \notin {n, left}
    BY <2>1 DEF Sound, Ended
  <2> QED
    BY <1>4, <2>2
<1> HIDE DEF p, left, right
<1> USE NullAssumption DEF Pointers
<1>7. WellLinked(g)
  <2>1. \A m, k \in Nodes : g[m].next = k <=> g[k].prev = m
    BY <1>1, <1>3, <1>4, <1>5, <1>6 DEF Sound, WellLinked, p, left, right
  <2>2. \A m, k \in Nodes : g[m].next = k => g[m].parent = g[k].parent /\ g[k].parent # Null
    BY <1>1, <1>3, <1>4, <1>5, <1>6 DEF Sound, WellLinked, p, left, right
  <2>3. \A m, k \in Nodes : g[m].firstChild = k <=> g[k].parent = m /\ g[k].prev = Null
    BY <1>1, <1>3, <1>4, <1>5, <1>6 DEF Sound, WellLinked, p, left, right
  <2>4. \A m, k \in Nodes : g[m].lastChild = k <=> g[k].parent = m /\ g[k].next = Null
    BY <1>1, <1>3, <1>4, <1>5, <1>6 DEF Sound, WellLinked, p, left, right
  <2>5. \A m, k \in Nodes : g[k].parent = m => Live(g, m) /\ Live(g, k)
    BY <1>1 DEF Sound, WellLinked, Live
  <2>6. \A m \in Nodes : g[m].parent = Null => g[m].prev = Null /\ g[m].next = Null
    BY <1>1, <1>3, <1>4 DEF Sound, WellLinked
  <2> QED
    BY <2>1, <2>2, <2>3, <2>4, <2>5, <2>6 DEF WellLinked
<1>8. EndsTogether(g)
  BY <1>1, <1>3, <1>4, <1>5 DEF Sound, EndsTogether
<1>9. Founded(g)
  <2> SUFFICES ASSUME NEW S \in SUBSET Nodes, S # {} PROVE \E m \in S : g[m].parent \notin S
    BY DEF Founded
  <2>1. PICK m \in S : h[m].parent \notin S
    BY DEF Sound, Founded
  <2> QED
    BY <1>1, <2>1
<1>10. Ended(g)
  <2> SUFFICES ASSUME NEW S \in SUBSET Nodes, S # {}, n \notin S PROVE \E m \in S : g[m].next \notin S
    BY <1>1 DEF Ended
  <2>1. CASE left \in S /\ right \in S
    <3>1. S \cup {n} \in SUBSET Nodes /\ S \cup {n} # {}
      OBVIOUS
    <3>2. PICK m \in S \cup {n} : h[m].next \notin S \cup {n}
      BY <3>1 DEF Sound, Ended
    <3>3. m # n /\ m # left
      BY <1>4, <2>1, <3>2 DEF right
    <3> QED
      BY <1>1, <3>2, <3>3
  <2>2. CASE left \in S /\ right \notin S
    BY <1>1, <1>5, <2>2
  <2>3. CASE left \notin S
    <3>1. PICK m \in S : h[m].next \notin S
      BY DEF Sound, Ended
    <3> QED
      BY <1>1, <2>3, <3>1
  <2> QED
    BY <2>1, <2>2, <2>3
<1>11. Sound(g)
  BY <1>2, <1>7, <1>8, <1>9, <1>10 DEF Sound
<1> QED
  BY <1>1, <1>11 DEF g

(* A node that is nobody's child becomes one, between two siblings.        *)
Between(h, p, left, right) ==
  /\ left \in Pointers /\ right \in Pointers
  /\ left # Null => h[left].parent = p /\ h[left].next = right
  /\ right # Null => h[right].parent = p /\ h[right].prev = left
  /\ left = Null => h[p].firstChild = right
  /\ right = Null => h[p].lastChild = left

LEMMA LinkedSound ==
  ASSUME NEW h, Sound(h), NEW p \in Nodes, NEW n \in Nodes, NEW left, NEW right,
         Live(h, p), Detached(h, n), p \notin Subtree(h, n), Between(h, p, left, right)
  PROVE  Sound(Linked(h, p, left, right, n))
<1> USE NullAssumption DEF Pointers
<1> DEFINE g == Linked(h, p, left, right, n)
           T == Subtree(h, n)
<1>1. \A m \in Nodes :
        /\ g[m].kind = h[m].kind
        /\ g[m].parent = IF m = n THEN p ELSE h[m].parent
        /\ g[m].prev = IF m = n THEN left ELSE IF m = right THEN n ELSE h[m].prev
        /\ g[m].next = IF m = n THEN right ELSE IF m = left THEN n ELSE h[m].next
        /\ m # n => g[m].firstChild = IF m = p /\ left = Null THEN n ELSE h[m].firstChild
        /\ m # n => g[m].lastChild = IF m = p /\ right = Null THEN n ELSE h[m].lastChild
        /\ m = n => g[m].firstChild = h[m].firstChild /\ g[m].lastChild = h[m].lastChild
  BY DEF Linked, Sound, Node
<1>2. /\ left \in Pointers /\ right \in Pointers
      /\ left # Null => h[left].parent = p /\ h[left].next = right
      /\ right # Null => h[right].parent = p /\ h[right].prev = left
      /\ left = Null => h[p].firstChild = right
      /\ right = Null => h[p].lastChild = left
  BY DEF Between
<1>3. g \in [Nodes -> Node]
  <2>1. ASSUME NEW m \in Nodes PROVE g[m] \in Node
    <3>1. h[m] \in Node /\ h[n] \in Node
      BY DEF Sound
    <3>2. CASE m = n
      <4> DEFINE r == [h[n] EXCEPT !.parent = p, !.prev = left, !.next = right]
      <4>1. g[m] = r
        BY <3>2 DEF Linked
      <4>2. r \in Node
        BY <1>2, <3>1 DEF Node
      <4> QED
        BY <4>1, <4>2
    <3>3. CASE m # n
      <4> DEFINE r == [h[m] EXCEPT
             !.next = IF m = left THEN n ELSE @,
             !.prev = IF m = right THEN n ELSE @,
             !.firstChild = IF m = p /\ left = Null THEN n ELSE @,
             !.lastChild = IF m = p /\ right = Null THEN n ELSE @]
      <4>1. g[m] = r
        BY <3>3 DEF Linked
      <4>2. n \in Pointers
        OBVIOUS
      <4> HIDE DEF Pointers
      <4>3. r \in Node
        BY <3>1, <4>2 DEF Node
      <4> QED
        BY <4>1, <4>3
    <3> QED
      BY <3>2, <3>3
  <2> QED
    BY <2>1 DEF Linked
<1>4. T \in SUBSET Nodes /\ n \in T /\ p \notin T /\ \A m \in Nodes : h[m].parent \in T => m \in T
  BY SubtreeClosed
<1> HIDE DEF g, T
<1>5. h[n].parent = Null /\ h[n].prev = Null /\ h[n].next = Null /\ Live(h, n)
  BY DEF Sound, WellLinked, Detached
<1>6. p # n /\ left # n /\ right # n
  BY <1>2, <1>4, <1>5
<1>7. left # Null => left # right
  <2> SUFFICES ASSUME left # Null, left = right PROVE FALSE
    OBVIOUS
  <2>1. {left} \in SUBSET Nodes /\ {left} # {}
    BY <1>2
  <2>2. \E m \in {left} : h[m].next \notin {left}
    BY <2>1 DEF Sound, Ended
  <2> QED
    BY <1>2, <2>2
<1>8. \A m \in Nodes : h[m].prev # n /\ h[m].next # n /\ h[m].firstChild # n /\ h[m].lastChild # n
  BY <1>5 DEF Sound, WellLinked
<1>9. WellLinked(g)
  <2>1. \A m, k \in Nodes : g[m].next = k <=> g[k].prev = m
    BY <1>1, <1>2, <1>5, <1>6, <1>7, <1>8 DEF Sound, WellLinked
  <2>2. \A m, k \in Nodes : g[m].next = k => g[m].parent = g[k].parent /\ g[k].parent # Null
    BY <1>1, <1>2, <1>5, <1>6, <1>7, <1>8 DEF Sound, WellLinked
  <2>3. \A m, k \in Nodes : g[m].firstChild = k <=> g[k].parent = m /\ g[k].prev = Null
    BY <1>1, <1>2, <1>5, <1>6, <1>7, <1>8 DEF Sound, WellLinked
  <2>4. \A m, k \in Nodes : g[m].lastChild = k <=> g[k].parent = m /\ g[k].next = Null
    BY <1>1, <1>2, <1>5, <1>6, <1>7, <1>8 DEF Sound, WellLinked
  <2>5. \A m, k \in Nodes : g[k].parent = m => Live(g, m) /\ Live(g, k)
    BY <1>1, <1>5 DEF Sound, WellLinked, Live
  <2>6. \A m \in Nodes : g[m].parent = Null => g[m].prev = Null /\ g[m].next = Null
    BY <1>1, <1>2 DEF Sound, WellLinked
  <2> QED
    BY <2>1, <2>2, <2>3, <2>4, <2>5, <2>6 DEF WellLinked
<1>10. EndsTogether(g)
  BY <1>1, <1>2, <1>6 DEF Sound, EndsTogether
<1>11. Founded(g)
  <2> SUFFICES ASSUME NEW S \in SUBSET Nodes, S # {} PROVE \E m \in S : g[m].parent \notin S
    BY DEF Founded
  <2>1. CASE n \in S /\ p \in S
    <3>1. S \ T \in SUBSET Nodes /\ S \ T # {}
      BY <1>4, <2>1
    <3>2. PICK m \in S \ T : h[m].parent \notin S \ T
      BY <3>1 DEF Sound, Founded
    <3> QED
      BY <1>1, <1>4, <3>2
  <2>2. CASE n \in S /\ p \notin S
    BY <1>1, <2>2
  <2>3. CASE n \notin S
    <3>1. PICK m \in S : h[m].parent \notin S
      BY DEF Sound, Founded
    <3> QED
      BY <1>1, <2>3, <3>1
  <2> QED
    BY <2>1, <2>2, <2>3
<1>12. Ended(g)
  <2> SUFFICES ASSUME NEW S \in SUBSET Nodes, S # {} PROVE \E m \in S : g[m].next \notin S
    BY DEF Ended
  <2>1. CASE n \in S /\ right \in S
    <3>1. S \ {n} \in SUBSET Nodes /\ S \ {n} # {}
      BY <1>6, <2>1
    <3>2. PICK m \in S \ {n} : h[m].next \notin S \ {n}
      BY <3>1 DEF Sound, Ended
    <3>3. m # left
      BY <1>2, <1>6, <2>1, <3>2
    <3> QED
      BY <1>1, <1>8, <3>2, <3>3
  <2>2. CASE n \in S /\ right \notin S
    BY <1>1, <2>2
  <2>3. CASE n \notin S /\ left \in S
    BY <1>1, <1>6, <2>3
  <2>4. CASE n \notin S /\ left \notin S
    <3>1. PICK m \in S : h[m].next \notin S
      BY DEF Sound, Ended
    <3> QED
      BY <1>1, <2>4, <3>1
  <2> QED
    BY <2>1, <2>2, <2>3, <2>4
<1> QED
  BY <1>3, <1>9, <1>10, <1>11, <1>12 DEF Sound, g

(* At the end of the children is a place, ...                              *)
LEMMA BetweenEnd ==
  ASSUME NEW h, Sound(h), NEW p \in Nodes
  PROVE  Between(h, p, h[p].lastChild, Null)
<1>1. h[p].lastChild \in Pointers
  BY Pointed DEF Sound
<1>2. h[p].lastChild # Null => h[h[p].lastChild].parent = p /\ h[h[p].lastChild].next = Null
  BY <1>1 DEF Sound, WellLinked, Pointers
<1>3. h[p].lastChild = Null => h[p].firstChild = Null
  BY DEF Sound, EndsTogether
<1> QED
  BY <1>1, <1>2, <1>3 DEF Between, Pointers

(* ... and before and after each of them.                                  *)
LEMMA BetweenBefore ==
  ASSUME NEW h, Sound(h), NEW p \in Nodes, NEW c \in Nodes, h[c].parent = p
  PROVE  Between(h, p, h[c].prev, c) /\ Between(h, p, c, h[c].next)
<1>1. h[c].prev \in Pointers /\ h[c].next \in Pointers
  BY Pointed DEF Sound
<1>2. /\ h[c].prev # Null => h[h[c].prev].parent = p /\ h[h[c].prev].next = c
      /\ h[c].next # Null => h[h[c].next].parent = p /\ h[h[c].next].prev = c
      /\ h[c].prev = Null => h[p].firstChild = c
      /\ h[c].next = Null => h[p].lastChild = c
  BY <1>1 DEF Sound, WellLinked, Pointers
<1> QED
  BY <1>1, <1>2, NullAssumption DEF Between, Pointers

(* The constructor, in memory that was free.                               *)
LEMMA NewSound ==
  ASSUME NEW h, Sound(h), NEW n \in FreeNodes(h), NEW kind \in Kinds, NEW value \in Values
  PROVE  Sound(New(h, n, kind, value))
<1> USE NullAssumption
<1> DEFINE g == New(h, n, kind, value)
<1>1. n \in Nodes /\ h[n] = Free
  BY DEF FreeNodes
<1>2. NewNode(kind, value) \in Node /\ g \in [Nodes -> Node]
  BY DEF New, NewNode, Node, Pointers, Sound
<1>3. /\ Free.parent = Null /\ Free.firstChild = Null /\ Free.lastChild = Null
      /\ Free.prev = Null /\ Free.next = Null /\ Free.kind = "free"
  BY DEF Free, NewNode
<1>4. \A m \in Nodes :
        /\ g[m].parent = h[m].parent /\ g[m].prev = h[m].prev /\ g[m].next = h[m].next
        /\ g[m].firstChild = h[m].firstChild /\ g[m].lastChild = h[m].lastChild
        /\ m # n => g[m].kind = h[m].kind
  BY <1>1, <1>3 DEF New, NewNode, Sound
<1>5. kind # "free"
  BY DEF Kinds
<1>6. g[n].kind = kind
  BY <1>1 DEF New, NewNode, Sound
<1> HIDE DEF g
<1>7. WellLinked(g)
  <2>1. \A m, k \in Nodes : g[k].parent = m => Live(g, m) /\ Live(g, k)
    BY <1>4, <1>5, <1>6 DEF Sound, WellLinked, Live
  <2> QED
    BY <1>4, <2>1 DEF Sound, WellLinked
<1>8. EndsTogether(g) /\ Founded(g) /\ Ended(g)
  BY <1>4 DEF Sound, EndsTogether, Founded, Ended
<1> QED
  BY <1>2, <1>7, <1>8 DEF Sound, g

-----------------------------------------------------------------------------
(* Clone: the copies are nodes that were free, one for each node under n,  *)
(* and point to each other as those do.                                    *)
Copying(h, n, f) ==
  /\ f \in [Subtree(h, n) -> FreeNodes(h)]
  /\ \A x, y \in Subtree(h, n) : f[x] = f[y] => x = y
Made(f) == {f[x] : x \in DOMAIN f}

LEMMA CopyingIs ==
  ASSUME NEW h, NEW n, NEW f \in Copies(h, n)
  PROVE  Copying(h, n, f)
<1> DEFINE tree == Subtree(h, n)
           Apart(g) == \A x, y \in tree : g[x] = g[y] => x = y
<1>1. (\E g \in [tree -> FreeNodes(h)] : Apart(g)) /\ f = CHOOSE g \in [tree -> FreeNodes(h)] : Apart(g)
  BY DEF Copies
<1>2. f \in [tree -> FreeNodes(h)] /\ Apart(f)
  <2> HIDE DEF tree, Apart
  <2> QED
    BY <1>1
<1> QED
  BY <1>2 DEF Copying

CopyNode(h, n, f, x) ==
  IF x = n
  THEN [h[n] EXCEPT !.parent = Null, !.prev = Null, !.next = Null,
                    !.firstChild = Moved(f, @), !.lastChild = Moved(f, @)]
  ELSE [h[x] EXCEPT !.parent = Moved(f, @), !.prev = Moved(f, @), !.next = Moved(f, @),
                    !.firstChild = Moved(f, @), !.lastChild = Moved(f, @)]

(* What the pointers of a copy are.                                        *)
LEMMA CopiedIs ==
  ASSUME NEW h \in [Nodes -> Node], NEW n \in Nodes, NEW f, Copying(h, n, f)
  PROVE  /\ Made(f) \in SUBSET Nodes
         /\ \A m \in Nodes \ Made(f) : Copied(h, n, f)[m] = h[m]
         /\ \A x \in Subtree(h, n) :
              Copied(h, n, f)[f[x]] = CopyNode(h, n, f, x)
<1>1. DOMAIN f = Subtree(h, n) /\ \A x \in DOMAIN f : f[x] \in Nodes
  BY DEF Copying, FreeNodes
<1>2. \A m \in Nodes : m \in Made(f) <=> \E x \in DOMAIN f : f[x] = m
  BY DEF Made
<1>3. Made(f) \in SUBSET Nodes
  BY <1>1 DEF Made
<1>4. \A m \in Nodes \ Made(f) : Copied(h, n, f)[m] = h[m]
  BY <1>2 DEF Copied
<1>5. ASSUME NEW x \in Subtree(h, n)
      PROVE  Copied(h, n, f)[f[x]] = CopyNode(h, n, f, x)
  <2>1. f[x] \in Nodes /\ x \in DOMAIN f
    BY <1>1
  <2>2. (CHOOSE y \in DOMAIN f : f[y] = f[x]) = x
    <3>1. \A y \in DOMAIN f : f[y] = f[x] => y = x
      BY <1>1 DEF Copying
    <3> QED
      BY <2>1, <3>1
  <2> QED
    BY <2>1, <2>2 DEF Copied, CopyNode
<1> QED
  BY <1>3, <1>4, <1>5

(* Nothing points to free memory, and the tree that is copied is not free. *)
LEMMA CopiesApart ==
  ASSUME NEW h, Sound(h), NEW n \in Nodes, Live(h, n), NEW f, Copying(h, n, f)
  PROVE  /\ Made(f) \in SUBSET Nodes
         /\ \A m \in Made(f) : h[m] = Free
         /\ \A m \in Nodes :
              /\ h[m].parent \notin Made(f) /\ h[m].prev \notin Made(f) /\ h[m].next \notin Made(f)
              /\ h[m].firstChild \notin Made(f) /\ h[m].lastChild \notin Made(f)
         /\ \A x \in Subtree(h, n) : Live(h, x)
         /\ Subtree(h, n) \cap Made(f) = {}
<1>1. DOMAIN f = Subtree(h, n) /\ \A x \in DOMAIN f : f[x] \in FreeNodes(h)
  BY DEF Copying
<1>2. Made(f) \in SUBSET Nodes /\ \A m \in Made(f) : h[m] = Free
  BY <1>1 DEF Made, FreeNodes
<1>3. Free.kind = "free" /\ Free.parent = Null
  BY DEF Free, NewNode
<1>4. \A m \in Made(f) : ~ Live(h, m) /\ h[m].parent = Null
  BY <1>2, <1>3 DEF Live
<1>5. \A m \in Nodes :
              /\ h[m].parent \notin Made(f) /\ h[m].prev \notin Made(f) /\ h[m].next \notin Made(f)
              /\ h[m].firstChild \notin Made(f) /\ h[m].lastChild \notin Made(f)
  <2> SUFFICES ASSUME NEW m \in Nodes
               PROVE  \A k \in Made(f) :
                        /\ h[m].parent # k /\ h[m].prev # k /\ h[m].next # k
                        /\ h[m].firstChild # k /\ h[m].lastChild # k
    OBVIOUS
  <2> TAKE k \in Made(f)
  <2>1. k \in Nodes /\ ~ Live(h, k) /\ h[k].parent = Null
    BY <1>2, <1>4
  <2>2. h[m].parent # k
    BY <2>1 DEF Sound, WellLinked
  <2>3. h[m].next # k
    BY <2>1 DEF Sound, WellLinked
  <2>4. h[m].prev # k
    BY <2>1, NullAssumption DEF Sound, WellLinked
  <2>5. h[m].firstChild # k /\ h[m].lastChild # k
    BY <2>1, NullAssumption DEF Sound, WellLinked
  <2> QED
    BY <2>2, <2>3, <2>4, <2>5
<1>6. ASSUME NEW x \in Subtree(h, n), x # n PROVE Live(h, x)
  <2>1. h[x].parent \in Nodes /\ x \in Nodes
    BY <1>6, SubtreeParents, SubtreeClosed
  <2> QED
    BY <2>1 DEF Sound, WellLinked
<1> QED
  BY <1>2, <1>4, <1>5, <1>6

(* The copies point to copies, as the nodes they were made of point to     *)
(* each other.                                                             *)
CopyOf(h, n, f, g) ==
  \A x \in Subtree(h, n) :
    /\ g[f[x]].kind = h[x].kind
    /\ x = n => g[f[x]].parent = Null /\ g[f[x]].prev = Null /\ g[f[x]].next = Null
    /\ x # n => /\ h[x].parent \in Subtree(h, n) /\ g[f[x]].parent = f[h[x].parent]
                /\ \/ h[x].prev = Null /\ g[f[x]].prev = Null
                   \/ h[x].prev \in Subtree(h, n) \ {n} /\ g[f[x]].prev = f[h[x].prev]
                /\ \/ h[x].next = Null /\ g[f[x]].next = Null
                   \/ h[x].next \in Subtree(h, n) \ {n} /\ g[f[x]].next = f[h[x].next]
    /\ \/ h[x].firstChild = Null /\ g[f[x]].firstChild = Null
       \/ h[x].firstChild \in Subtree(h, n) \ {n} /\ g[f[x]].firstChild = f[h[x].firstChild]
    /\ \/ h[x].lastChild = Null /\ g[f[x]].lastChild = Null
       \/ h[x].lastChild \in Subtree(h, n) \ {n} /\ g[f[x]].lastChild = f[h[x].lastChild]

LEMMA CopyIsMade ==
  ASSUME NEW h, Sound(h), NEW n \in Nodes, NEW f, Copying(h, n, f)
  PROVE  CopyOf(h, n, f, Copied(h, n, f))
<1> DEFINE g == Copied(h, n, f)
           T == Subtree(h, n)
<1>1. T \in SUBSET Nodes /\ n \in T /\ \A m \in Nodes : h[m].parent \in T => m \in T
  BY SubtreeClosed
<1>2. \A x \in T : x # n => h[x].parent \in T
  BY SubtreeParents
<1>3. h[n].parent \notin T
  BY ParentNotBelow DEF Sound
<1>4. DOMAIN f = T
  BY DEF Copying
<1>5. Null \notin T
  BY <1>1, NullAssumption
<1> SUFFICES ASSUME NEW x \in T
             PROVE
    /\ g[f[x]].kind = h[x].kind
    /\ x = n => g[f[x]].parent = Null /\ g[f[x]].prev = Null /\ g[f[x]].next = Null
    /\ x # n => /\ h[x].parent \in T /\ g[f[x]].parent = f[h[x].parent]
                /\ \/ h[x].prev = Null /\ g[f[x]].prev = Null
                   \/ h[x].prev \in T \ {n} /\ g[f[x]].prev = f[h[x].prev]
                /\ \/ h[x].next = Null /\ g[f[x]].next = Null
                   \/ h[x].next \in T \ {n} /\ g[f[x]].next = f[h[x].next]
    /\ \/ h[x].firstChild = Null /\ g[f[x]].firstChild = Null
       \/ h[x].firstChild \in T \ {n} /\ g[f[x]].firstChild = f[h[x].firstChild]
    /\ \/ h[x].lastChild = Null /\ g[f[x]].lastChild = Null
       \/ h[x].lastChild \in T \ {n} /\ g[f[x]].lastChild = f[h[x].lastChild]
  BY DEF CopyOf
<1>6. g[f[x]] = CopyNode(h, n, f, x)
  BY CopiedIs DEF Sound
<1>7. h[x] \in Node
  BY <1>1 DEF Sound
<1>8. /\ g[f[x]].kind = h[x].kind
      /\ x = n => g[f[x]].parent = Null /\ g[f[x]].prev = Null /\ g[f[x]].next = Null
      /\ x # n => /\ g[f[x]].parent = Moved(f, h[x].parent)
                  /\ g[f[x]].prev = Moved(f, h[x].prev) /\ g[f[x]].next = Moved(f, h[x].next)
      /\ g[f[x]].firstChild = Moved(f, h[x].firstChild)
      /\ g[f[x]].lastChild = Moved(f, h[x].lastChild)
  <2> HIDE DEF g, T
  <2> QED
    BY <1>6, <1>7 DEF Node, CopyNode
<1>9. /\ h[x].prev \in Pointers /\ h[x].next \in Pointers
      /\ h[x].firstChild \in Pointers /\ h[x].lastChild \in Pointers
  BY <1>7, Pointed, <1>1 DEF Sound
<1> HIDE DEF g, T
<1>10. \A q : Moved(f, q) = IF q \in T THEN f[q] ELSE Null
  BY <1>4 DEF Moved
<1>11. ASSUME x # n, h[x].prev # Null PROVE h[x].prev \in T \ {n}
  <2>1. h[x].prev \in Nodes /\ h[h[x].prev].next = x
    BY <1>1, <1>9, <1>11 DEF Sound, WellLinked, Pointers
  <2>2. h[h[x].prev].parent = h[x].parent
    BY <1>1, <2>1 DEF Sound, WellLinked
  <2> QED
    BY <1>1, <1>2, <1>3, <1>11, <2>1, <2>2
<1>12. ASSUME x # n, h[x].next # Null PROVE h[x].next \in T \ {n}
  <2>1. h[x].next \in Nodes
    BY <1>9, <1>12 DEF Pointers
  <2>2. h[h[x].next].parent = h[x].parent
    BY <1>1, <2>1 DEF Sound, WellLinked
  <2> QED
    BY <1>1, <1>2, <1>3, <1>12, <2>1, <2>2
<1>13. ASSUME h[x].firstChild # Null PROVE h[x].firstChild \in T \ {n}
  <2>1. h[x].firstChild \in Nodes
    BY <1>9, <1>13 DEF Pointers
  <2>2. h[h[x].firstChild].parent = x
    BY <1>1, <2>1 DEF Sound, WellLinked
  <2> QED
    BY <1>1, <1>3, <2>1, <2>2
<1>14. ASSUME h[x].lastChild # Null PROVE h[x].lastChild \in T \ {n}
  <2>1. h[x].lastChild \in Nodes
    BY <1>9, <1>14 DEF Pointers
  <2>2. h[h[x].lastChild].parent = x
    BY <1>1, <2>1 DEF Sound, WellLinked
  <2> QED
    BY <1>1, <1>3, <2>1, <2>2
<1>15. x # n => h[x].parent \in T /\ g[f[x]].parent = f[h[x].parent]
  BY <1>2, <1>8, <1>10
<1>16. x # n => \/ h[x].prev = Null /\ g[f[x]].prev = Null
                \/ h[x].prev \in T \ {n} /\ g[f[x]].prev = f[h[x].prev]
  BY <1>5, <1>8, <1>10, <1>11
<1>17. x # n => \/ h[x].next = Null /\ g[f[x]].next = Null
                \/ h[x].next \in T \ {n} /\ g[f[x]].next = f[h[x].next]
  BY <1>5, <1>8, <1>10, <1>12
<1>18. \/ h[x].firstChild = Null /\ g[f[x]].firstChild = Null
       \/ h[x].firstChild \in T \ {n} /\ g[f[x]].firstChild = f[h[x].firstChild]
  BY <1>5, <1>8, <1>10, <1>13
<1>19. \/ h[x].lastChild = Null /\ g[f[x]].lastChild = Null
       \/ h[x].lastChild \in T \ {n} /\ g[f[x]].lastChild = f[h[x].lastChild]
  BY <1>5, <1>8, <1>10, <1>14
<1> QED
  BY <1>8, <1>15, <1>16, <1>17, <1>18, <1>19

LEMMA CopiedSound ==
  ASSUME NEW h, Sound(h), NEW n \in Nodes, Live(h, n), NEW f, Copying(h, n, f)
  PROVE  Sound(Copied(h, n, f))
<1> USE NullAssumption
<1> DEFINE g == Copied(h, n, f)
           T == Subtree(h, n)
           M == Made(f)
<1>1. /\ T \in SUBSET Nodes /\ n \in T
      /\ DOMAIN f = T
      /\ \A x, y \in T : f[x] = f[y] => x = y
  BY SubtreeClosed DEF Copying
<1>2. /\ M \in SUBSET Nodes
      /\ \A m \in Nodes \ M : g[m] = h[m]
  BY CopiedIs DEF Sound
<1>3. /\ \A m \in Nodes :
              /\ h[m].parent \notin M /\ h[m].prev \notin M /\ h[m].next \notin M
              /\ h[m].firstChild \notin M /\ h[m].lastChild \notin M
      /\ \A x \in T : Live(h, x)
      /\ T \cap M = {}
  BY CopiesApart
<1>4. \A x \in T : f[x] \in M
  BY <1>1 DEF Made
<1>5. \A m \in M : \E x \in T : m = f[x]
  BY <1>1 DEF Made
<1>6. CopyOf(h, n, f, g)
  BY CopyIsMade
<1>7. g \in [Nodes -> Node]
  <2>1. ASSUME NEW m \in Nodes PROVE g[m] \in Node
    <3>1. CASE m \notin M
      BY <1>2, <3>1 DEF Sound
    <3>2. CASE m \in M
      <4>1. PICK x \in T : m = f[x]
        BY <1>5, <3>2
      <4>2. g[m] = CopyNode(h, n, f, x)
        BY <4>1, CopiedIs DEF Sound
      <4>3. \A q : Moved(f, q) \in Pointers
        <5>1. \A y \in T : f[y] \in Nodes
          BY <1>2, <1>4
        <5> QED
          BY <1>1, <5>1 DEF Moved, Pointers
      <4>4. h[x] \in Node /\ h[n] \in Node /\ Null \in Pointers
        BY <1>1 DEF Sound, Pointers
      <4> HIDE DEF g
      <4>5. CopyNode(h, n, f, x) \in Node
        BY <4>3, <4>4 DEF CopyNode, Node
      <4> QED
        BY <4>2, <4>5
    <3> QED
      BY <3>1, <3>2
  <2>2. g = [m \in Nodes |-> g[m]]
    BY DEF Copied
  <2> HIDE DEF g
  <2> QED
    BY <2>1, <2>2
<1> HIDE DEF g, T, M
<1>8. \A x \in T :
        /\ g[f[x]].parent \in M \cup {Null}
        /\ g[f[x]].prev \in M \cup {Null} /\ g[f[x]].next \in M \cup {Null}
        /\ g[f[x]].firstChild \in M \cup {Null} /\ g[f[x]].lastChild \in M \cup {Null}
  BY <1>1, <1>4, <1>6 DEF CopyOf, T
<1>9. /\ h[n].parent \notin T
      /\ \A x \in T : x # n => h[x].parent \in T
  BY ParentNotBelow, SubtreeParents DEF Sound, T
<1>10. Null \notin M /\ Null \notin T
  BY <1>1, <1>2
(* Two copies are linked as the nodes they are copies of are.              *)
<1>11. ASSUME NEW x \in T, NEW y \in T
       PROVE  /\ g[f[x]].next = f[y] <=> x # n /\ h[x].next = y
              /\ g[f[y]].prev = f[x] <=> y # n /\ h[y].prev = x
              /\ g[f[x]].firstChild = f[y] <=> h[x].firstChild = y
              /\ g[f[x]].lastChild = f[y] <=> h[x].lastChild = y
              /\ g[f[y]].parent = f[x] <=> y # n /\ h[y].parent = x
              /\ x # n /\ y # n => (g[f[x]].parent = g[f[y]].parent <=> h[x].parent = h[y].parent)
  <2>1. f[x] # Null /\ f[y] # Null
    BY <1>4, <1>10
  <2>2. g[f[x]].next = f[y] <=> x # n /\ h[x].next = y
    BY <1>1, <1>6, <1>10, <2>1 DEF CopyOf, T
  <2>3. g[f[y]].prev = f[x] <=> y # n /\ h[y].prev = x
    BY <1>1, <1>6, <1>10, <2>1 DEF CopyOf, T
  <2>4. g[f[x]].firstChild = f[y] <=> h[x].firstChild = y
    BY <1>1, <1>6, <1>10, <2>1 DEF CopyOf, T
  <2>5. g[f[x]].lastChild = f[y] <=> h[x].lastChild = y
    BY <1>1, <1>6, <1>10, <2>1 DEF CopyOf, T
  <2>6. g[f[y]].parent = f[x] <=> y # n /\ h[y].parent = x
    BY <1>1, <1>6, <1>10, <2>1 DEF CopyOf, T
  <2>7. x # n /\ y # n => (g[f[x]].parent = g[f[y]].parent <=> h[x].parent = h[y].parent)
    BY <1>1, <1>6 DEF CopyOf, T
  <2> QED
    BY <2>2, <2>3, <2>4, <2>5, <2>6, <2>7
<1>12. \A x \in T :
         /\ g[f[x]].prev = Null <=> x = n \/ h[x].prev = Null
         /\ g[f[x]].next = Null <=> x = n \/ h[x].next = Null
         /\ g[f[x]].parent = Null <=> x = n
         /\ g[f[x]].firstChild = Null <=> h[x].firstChild = Null
         /\ g[f[x]].lastChild = Null <=> h[x].lastChild = Null
         /\ g[f[x]].kind = h[x].kind
  BY <1>4, <1>6, <1>10 DEF CopyOf, T
<1>13. ASSUME NEW m \in Nodes, NEW k \in Nodes
       PROVE  /\ g[m].next = k <=> g[k].prev = m
              /\ g[m].next = k => g[m].parent = g[k].parent /\ g[k].parent # Null
              /\ g[m].firstChild = k <=> g[k].parent = m /\ g[k].prev = Null
              /\ g[m].lastChild = k <=> g[k].parent = m /\ g[k].next = Null
              /\ g[k].parent = m => Live(g, m) /\ Live(g, k)
  <2>1. CASE m \notin M /\ k \notin M
    <3>1. g[m] = h[m] /\ g[k] = h[k]
      BY <1>2, <2>1
    <3>2. (Live(g, m) <=> Live(h, m)) /\ (Live(g, k) <=> Live(h, k))
      BY <3>1 DEF Live
    <3> QED
      BY <3>1, <3>2 DEF Sound, WellLinked
  <2>2. CASE m \notin M /\ k \in M
    <3>1. g[m] = h[m]
      BY <1>2, <2>2
    <3>2. g[k].prev # m /\ g[k].parent # m
      BY <1>5, <1>8, <2>2
    <3> QED
      BY <1>3, <2>2, <3>1, <3>2
  <2>3. CASE m \in M /\ k \notin M
    <3>1. g[k] = h[k]
      BY <1>2, <2>3
    <3>2. g[m].next # k /\ g[m].firstChild # k /\ g[m].lastChild # k
      BY <1>5, <1>8, <2>3
    <3> QED
      BY <1>3, <2>3, <3>1, <3>2
  <2>4. CASE m \in M /\ k \in M
    <3>1. PICK x \in T : m = f[x]
      BY <1>5, <2>4
    <3>2. PICK y \in T : k = f[y]
      BY <1>5, <2>4
    <3>3. x \in Nodes /\ y \in Nodes
      BY <1>1
    <3>4. /\ h[x].next = y <=> h[y].prev = x
          /\ h[x].next = y => h[x].parent = h[y].parent
          /\ h[x].firstChild = y <=> h[y].parent = x /\ h[y].prev = Null
          /\ h[x].lastChild = y <=> h[y].parent = x /\ h[y].next = Null
      BY <3>3 DEF Sound, WellLinked
    <3>5. h[x].next = y => (x = n <=> y = n)
      BY <1>9, <3>4
    <3>6. h[y].parent = x => y # n
      BY <1>9
    <3>7. g[m].next = k <=> g[k].prev = m
      BY <1>11, <3>1, <3>2, <3>4, <3>5
    <3>8. g[m].next = k => g[m].parent = g[k].parent /\ g[k].parent # Null
      BY <1>11, <1>12, <3>1, <3>2, <3>4, <3>5
    <3>9. g[m].firstChild = k <=> g[k].parent = m /\ g[k].prev = Null
      BY <1>11, <1>12, <3>1, <3>2, <3>4, <3>6
    <3>10. g[m].lastChild = k <=> g[k].parent = m /\ g[k].next = Null
      BY <1>11, <1>12, <3>1, <3>2, <3>4, <3>6
    <3>11. Live(g, m) /\ Live(g, k)
      BY <1>3, <1>12, <3>1, <3>2 DEF Live
    <3> QED
      BY <3>7, <3>8, <3>9, <3>10, <3>11
  <2> QED
    BY <2>1, <2>2, <2>3, <2>4
<1>14. ASSUME NEW m \in Nodes
       PROVE  /\ g[m].parent = Null => g[m].prev = Null /\ g[m].next = Null
              /\ g[m].firstChild = Null <=> g[m].lastChild = Null
  <2>1. CASE m \notin M
    BY <1>2, <2>1 DEF Sound, WellLinked, EndsTogether
  <2>2. CASE m \in M
    <3>1. PICK x \in T : m = f[x] /\ x \in Nodes
      BY <1>1, <1>5, <2>2
    <3>2. h[x].firstChild = Null <=> h[x].lastChild = Null
      BY <3>1 DEF Sound, EndsTogether
    <3> QED
      BY <1>12, <3>1, <3>2
  <2> QED
    BY <2>1, <2>2
<1>15. WellLinked(g) /\ EndsTogether(g)
  BY <1>13, <1>14 DEF WellLinked, EndsTogether
<1>16. Founded(g)
  <2> SUFFICES ASSUME NEW S \in SUBSET Nodes, S # {} PROVE \E m \in S : g[m].parent \notin S
    BY DEF Founded
  <2>1. CASE S \ M # {}
    <3>1. S \ M \in SUBSET Nodes
      OBVIOUS
    <3>2. PICK m \in S \ M : h[m].parent \notin S \ M
      BY <2>1, <3>1 DEF Sound, Founded
    <3> QED
      BY <1>2, <1>3, <3>2
  <2>2. CASE S \ M = {}
    <3> DEFINE R == {x \in T : f[x] \in S}
    <3>1. R \in SUBSET Nodes /\ R # {}
      BY <1>1, <1>5, <2>2
    <3>2. PICK x \in R : h[x].parent \notin R
      <4> HIDE DEF R
      <4> QED
        BY <3>1 DEF Sound, Founded
    <3>3. g[f[x]].parent \notin S
      <4>1. CASE x = n
        BY <1>12, <4>1
      <4>2. CASE x # n
        <5>1. h[x].parent \in T /\ g[f[x]].parent = f[h[x].parent]
          BY <1>6, <4>2 DEF CopyOf, T
        <5> QED
          BY <3>2, <5>1
      <4> QED
        BY <4>1, <4>2
    <3> QED
      BY <3>3
  <2> QED
    BY <2>1, <2>2
<1>17. Ended(g)
  <2> SUFFICES ASSUME NEW S \in SUBSET Nodes, S # {} PROVE \E m \in S : g[m].next \notin S
    BY DEF Ended
  <2>1. CASE S \ M # {}
    <3>1. S \ M \in SUBSET Nodes
      OBVIOUS
    <3>2. PICK m \in S \ M : h[m].next \notin S \ M
      BY <2>1, <3>1 DEF Sound, Ended
    <3> QED
      BY <1>2, <1>3, <3>2
  <2>2. CASE S \ M = {}
    <3> DEFINE R == {x \in T : f[x] \in S}
    <3>1. R \in SUBSET Nodes /\ R # {}
      BY <1>1, <1>5, <2>2
    <3>2. PICK x \in R : h[x].next \notin R
      <4> HIDE DEF R
      <4> QED
        BY <3>1 DEF Sound, Ended
    <3>3. g[f[x]].next \notin S
      <4>1. CASE x = n \/ h[x].next = Null
        BY <1>12, <4>1
      <4>2. CASE x # n /\ h[x].next # Null
        <5>1. h[x].next \in T /\ g[f[x]].next = f[h[x].next]
          BY <1>6, <4>2 DEF CopyOf, T
        <5> QED
          BY <3>2, <5>1
      <4> QED
        BY <4>1, <4>2
    <3> QED
      BY <3>3
  <2> QED
    BY <2>1, <2>2
<1> QED
  BY <1>7, <1>15, <1>16, <1>17 DEF Sound, g

(* What a caller sees of a clone: a node of its own, in memory apart.      *)
LEMMA CloneFacts ==
  ASSUME NEW h, Sound(h), NEW n \in Nodes, Live(h, n), NEW f, Copying(h, n, f)
  PROVE  /\ f[n] \in Made(f) /\ Made(f) \in SUBSET Nodes
         /\ Detached(Copied(h, n, f), f[n])
         /\ \A m \in Made(f) :
              h[m].parent = Null /\ Copied(h, n, f)[m].parent \in Made(f) \cup {Null}
         /\ \A m \in Nodes \ Made(f) : Copied(h, n, f)[m] = h[m] /\ h[m].parent \notin Made(f)
         /\ \A m : Live(h, m) => m \in Nodes \ Made(f) /\ Live(Copied(h, n, f), m)
<1> DEFINE g == Copied(h, n, f)
<1>1. n \in Subtree(h, n) /\ Subtree(h, n) \subseteq Nodes /\ DOMAIN f = Subtree(h, n)
  BY SubtreeClosed DEF Copying
<1>2. f[n] \in Made(f)
  BY <1>1 DEF Made
<1>3. /\ Made(f) \in SUBSET Nodes /\ \A m \in Made(f) : h[m] = Free
      /\ \A m \in Nodes : h[m].parent \notin Made(f)
  BY CopiesApart
<1>4. \A m \in Nodes \ Made(f) : g[m] = h[m]
  BY CopiedIs DEF Sound
<1>5. CopyOf(h, n, f, g)
  BY CopyIsMade
<1>6. Free.kind = "free" /\ Free.parent = Null
  BY DEF Free, NewNode
<1> HIDE DEF g
<1>7. g[f[n]].kind = h[n].kind /\ g[f[n]].parent = Null
  BY <1>1, <1>5 DEF CopyOf
<1>8. Detached(g, f[n])
  BY <1>2, <1>3, <1>7 DEF Detached, Live
<1>9. ASSUME NEW m \in Made(f) PROVE g[m].parent \in Made(f) \cup {Null}
  <2>1. PICK x \in Subtree(h, n) : m = f[x]
    BY <1>1 DEF Made
  <2>2. CASE x = n
    BY <1>7, <2>1, <2>2
  <2>3. CASE x # n
    <3>1. h[x].parent \in Subtree(h, n) /\ g[m].parent = f[h[x].parent]
      BY <1>5, <2>1, <2>3 DEF CopyOf
    <3> QED
      BY <1>1, <3>1 DEF Made
  <2> QED
    BY <2>2, <2>3
<1>10. ASSUME NEW m, Live(h, m) PROVE m \in Nodes \ Made(f) /\ Live(g, m)
  <2>1. m \in Nodes \ Made(f)
    BY <1>3, <1>6, <1>10 DEF Live
  <2> QED
    BY <1>4, <1>10, <2>1 DEF Live
<1> QED
  BY <1>2, <1>3, <1>4, <1>6, <1>8, <1>9, <1>10 DEF g

(* The clone is linked between two siblings.                               *)
LEMMA CloneLinkedSound ==
  ASSUME NEW h, Sound(h), NEW n \in Nodes, Live(h, n), NEW f, Copying(h, n, f),
         NEW p \in Nodes, Live(h, p), NEW left, NEW right,
         Between(Copied(h, n, f), p, left, right)
  PROVE  Sound(Linked(Copied(h, n, f), p, left, right, f[n]))
<1> DEFINE g == Copied(h, n, f)
<1>1. /\ f[n] \in Made(f) /\ Made(f) \in SUBSET Nodes /\ Detached(g, f[n])
      /\ \A m \in Nodes \ Made(f) : g[m] = h[m] /\ h[m].parent \notin Made(f)
      /\ p \notin Made(f) /\ Live(g, p)
  BY CloneFacts
<1>2. Sound(g)
  BY CopiedSound
<1>3. Between(g, p, left, right)
  OBVIOUS
<1> HIDE DEF g
<1>4. Subtree(g, f[n]) \subseteq Made(f)
  BY <1>1, SubtreeLeast
<1>5. f[n] \in Nodes /\ p \notin Subtree(g, f[n])
  BY <1>1, <1>4
<1>6. Sound(Linked(g, p, left, right, f[n]))
  BY <1>1, <1>2, <1>3, <1>5, LinkedSound
<1> QED
  BY <1>6 DEF g

(* What is below a node stays what it is when only links elsewhere change. *)
LEMMA SubtreeKept ==
  ASSUME NEW h, NEW g, NEW n \in Nodes,
         \A m \in Nodes \ {n} :
           g[m].parent = h[m].parent \/ (h[m].parent = Null /\ g[m].parent \notin Subtree(h, n))
  PROVE  Subtree(g, n) = Subtree(h, n)
<1>1. /\ n \in Subtree(h, n) /\ Subtree(h, n) \in SUBSET Nodes
      /\ \A m \in Nodes : h[m].parent \in Subtree(h, n) => m \in Subtree(h, n)
  BY SubtreeClosed
<1>2. /\ n \in Subtree(g, n) /\ Subtree(g, n) \in SUBSET Nodes
      /\ \A m \in Nodes : g[m].parent \in Subtree(g, n) => m \in Subtree(g, n)
  BY SubtreeClosed
<1>3. \A m \in Nodes : g[m].parent \in Subtree(h, n) => m \in Subtree(h, n)
  BY <1>1
<1>4. Subtree(g, n) \subseteq Subtree(h, n)
  BY <1>1, <1>3, SubtreeLeast
<1>5. \A m \in Nodes : h[m].parent \in Subtree(g, n) => m \in Subtree(g, n)
  BY <1>2, NullAssumption
<1>6. Subtree(h, n) \subseteq Subtree(g, n)
  BY <1>2, <1>5, SubtreeLeast
<1> QED
  BY <1>4, <1>6

(* A child is taken out and deleted with what is below it: its neighbours  *)
(* are neighbours now.                                                     *)
LEMMA RemovedSound ==
  ASSUME NEW h, Sound(h), NEW p \in Nodes, NEW c \in Nodes, h[c].parent = p
  PROVE  /\ Sound(Deleted(Unlinked(h, c), Subtree(h, c)))
         /\ Between(Deleted(Unlinked(h, c), Subtree(h, c)), p, h[c].prev, h[c].next)
         /\ p \notin Subtree(h, c)
         /\ \A m \in Nodes \ Subtree(h, c) :
              /\ Deleted(Unlinked(h, c), Subtree(h, c))[m].kind = h[m].kind
              /\ Deleted(Unlinked(h, c), Subtree(h, c))[m].parent = h[m].parent
<1> USE NullAssumption
<1> DEFINE u == Unlinked(h, c)
           T == Subtree(h, c)
           d == Deleted(u, T)
           left == h[c].prev
           right == h[c].next
<1>1. /\ Sound(u) /\ u[c].parent = Null
      /\ \A m \in Nodes : m # c => u[m].parent = h[m].parent
      /\ \A m \in Nodes : u[m].kind = h[m].kind
  BY UnlinkedSound
<1>2. /\ c \in T /\ T \in SUBSET Nodes
      /\ \A m \in Nodes : h[m].parent \in T => m \in T
  BY SubtreeClosed
<1>3. p \notin T
  BY ParentNotBelow DEF Sound
<1>4. \A x \in T : x # c => h[x].parent \in T
  BY SubtreeParents
<1>5. Subtree(u, c) = T
  <2>1. \A m \in Nodes \ {c} :
          u[m].parent = h[m].parent \/ (h[m].parent = Null /\ u[m].parent \notin Subtree(h, c))
    BY <1>1
  <2> HIDE DEF u
  <2> QED
    BY <2>1, SubtreeKept
<1>6. Sound(d)
  BY <1>1, <1>5, DeleteSound
<1>7. \A m \in Nodes : m # c =>
        /\ u[m].next = IF m = left THEN right ELSE h[m].next
        /\ u[m].prev = IF m = right THEN left ELSE h[m].prev
        /\ u[m].lastChild = IF m = p /\ right = Null THEN left ELSE h[m].lastChild
        /\ u[m].firstChild = IF m = p /\ left = Null THEN right ELSE h[m].firstChild
  BY DEF Unlinked, Sound, Node
<1>8. \A m \in Nodes \ T : d[m] = u[m]
  BY DEF Deleted
<1>9. /\ left \in Pointers /\ right \in Pointers
      /\ left # Null => h[left].parent = p
      /\ right # Null => h[right].parent = p
  <2>1. left \in Pointers /\ right \in Pointers
    BY Pointed DEF Sound
  <2>2. left # Null => h[left].next = c
    BY <2>1 DEF Sound, WellLinked, Pointers
  <2>3. left # Null => h[left].parent = p
    BY <2>1, <2>2 DEF Sound, WellLinked, Pointers
  <2>4. right # Null => h[right].parent = p
    BY <2>1 DEF Sound, WellLinked, Pointers
  <2> QED
    BY <2>1, <2>3, <2>4
<1> HIDE DEF u, T, d, left, right
<1>10. /\ left # Null => left \in Nodes \ T
       /\ right # Null => right \in Nodes \ T
  <2>1. ASSUME NEW q \in {left, right}, q # Null, q # c PROVE q \in Nodes \ T
    BY <1>3, <1>4, <1>9, <2>1 DEF Pointers
  <2>2. h[c].next # c
    <3>1. {c} \in SUBSET Nodes /\ {c} # {}
      OBVIOUS
    <3>2. \E m \in {c} : h[m].next \notin {c}
      BY <3>1 DEF Sound, Ended
    <3> QED
      BY <3>2
  <2>3. h[c].prev # c
    BY <2>2 DEF Sound, WellLinked
  <2>4. left # c /\ right # c
    BY <2>2, <2>3 DEF left, right
  <2> QED
    BY <2>1, <2>4
<1>11. Between(d, p, left, right)
  <2>1. left # Null => d[left].parent = p /\ d[left].next = right
    BY <1>1, <1>2, <1>7, <1>8, <1>9, <1>10
  <2>2. right # Null => d[right].parent = p /\ d[right].prev = left
    BY <1>1, <1>2, <1>7, <1>8, <1>9, <1>10
  <2>3. left = Null => d[p].firstChild = right
    BY <1>2, <1>3, <1>7, <1>8
  <2>4. right = Null => d[p].lastChild = left
    BY <1>2, <1>3, <1>7, <1>8
  <2> QED
    BY <1>9, <2>1, <2>2, <2>3, <2>4 DEF Between
<1>12. \A m \in Nodes \ T : d[m].kind = h[m].kind /\ d[m].parent = h[m].parent
  BY <1>1, <1>2, <1>8
<1> QED
  BY <1>3, <1>6, <1>11, <1>12 DEF d, u, T, left, right
-----------------------------------------------------------------------------
(* The calls keep the tree sound.                                          *)
LEMMA LinkSteps ==
  ASSUME Sound(heap), NEW p \in Nodes, NEW n \in Nodes,
         linkEndChild(p, n) \/ InsertEndChild(p, n)
  PROVE  Sound(heap')
<1>1. CASE linkEndChild(p, n)
  <2>1. Between(heap, p, heap[p].lastChild, Null)
    BY BetweenEnd
  <2>2. Live(heap, p) /\ Detached(heap, n) /\ p \notin Subtree(heap, n)
    BY <1>1 DEF linkEndChild
  <2>3. Sound(Linked(heap, p, heap[p].lastChild, Null, n))
    BY <2>1, <2>2, LinkedSound
  <2> QED
    BY <1>1, <2>3 DEF linkEndChild, LinkEndChild
<1>2. CASE InsertEndChild(p, n)
  <2>1. PICK f \in Copies(heap, n) : heap' = LinkEndChild(Copied(heap, n, f), p, f[n])
    BY <1>2 DEF InsertEndChild
  <2>2. Live(heap, p) /\ Live(heap, n)
    BY <1>2 DEF InsertEndChild
  <2>3. Copying(heap, n, f)
    BY CopyingIs
  <2> DEFINE g == Copied(heap, n, f)
  <2>4. Sound(g)
    BY <2>2, <2>3, CopiedSound
  <2>5. Between(g, p, g[p].lastChild, Null)
    <3> HIDE DEF g
    <3> QED
      BY <2>4, BetweenEnd
  <2>6. Sound(Linked(g, p, g[p].lastChild, Null, f[n]))
    BY <2>2, <2>3, <2>5, CloneLinkedSound
  <2> QED
    BY <2>1, <2>6 DEF LinkEndChild
<1> QED
  BY <1>1, <1>2

LEMMA InsertSteps ==
  ASSUME Sound(heap), NEW p \in Nodes, NEW c \in Nodes, NEW n \in Nodes,
         InsertBeforeChild(p, c, n) \/ InsertAfterChild(p, c, n)
  PROVE  Sound(heap')
<1>1. /\ Live(heap, p) /\ Live(heap, n) /\ heap[c].parent = p
      /\ \E f \in Copies(heap, n) :
           \/ heap' = Linked(Copied(heap, n, f), p, Copied(heap, n, f)[c].prev, c, f[n])
           \/ heap' = Linked(Copied(heap, n, f), p, c, Copied(heap, n, f)[c].next, f[n])
  BY DEF InsertBeforeChild, InsertAfterChild
<1>2. PICK f \in Copies(heap, n) :
           \/ heap' = Linked(Copied(heap, n, f), p, Copied(heap, n, f)[c].prev, c, f[n])
           \/ heap' = Linked(Copied(heap, n, f), p, c, Copied(heap, n, f)[c].next, f[n])
  BY <1>1
<1>3. Copying(heap, n, f)
  BY CopyingIs
<1> DEFINE g == Copied(heap, n, f)
<1>4. Sound(g)
  BY <1>1, <1>3, CopiedSound
<1>5. g[c].parent = p
  <2>1. c \notin Made(f)
    BY <1>1, <1>3, CloneFacts, NullAssumption
  <2> QED
    BY <1>1, <1>3, <2>1, CloneFacts
<1>6. Between(g, p, g[c].prev, c) /\ Between(g, p, c, g[c].next)
  <2> HIDE DEF g
  <2> QED
    BY <1>4, <1>5, BetweenBefore
<1>7. Sound(Linked(g, p, g[c].prev, c, f[n]))
  BY <1>1, <1>3, <1>6, CloneLinkedSound
<1>8. Sound(Linked(g, p, c, g[c].next, f[n]))
  BY <1>1, <1>3, <1>6, CloneLinkedSound
<1> QED
  BY <1>2, <1>7, <1>8

LEMMA ReplaceStep ==
  ASSUME Sound(heap), NEW p \in Nodes, NEW c \in Nodes, NEW n \in Nodes, ReplaceChild(p, c, n)
  PROVE  Sound(heap')
<1> USE NullAssumption
<1>1. /\ Live(heap, p) /\ Live(heap, n) /\ heap[c].parent = p
      /\ \E f \in Copies(heap, n) :
           heap' = Linked(Deleted(Unlinked(Copied(heap, n, f), c), Subtree(heap, c)), p,
                          Copied(heap, n, f)[c].prev, Copied(heap, n, f)[c].next, f[n])
  BY DEF ReplaceChild
<1>2. PICK f \in Copies(heap, n) :
           heap' = Linked(Deleted(Unlinked(Copied(heap, n, f), c), Subtree(heap, c)), p,
                          Copied(heap, n, f)[c].prev, Copied(heap, n, f)[c].next, f[n])
  BY <1>1
<1>3. Copying(heap, n, f)
  BY CopyingIs
<1> DEFINE g == Copied(heap, n, f)
           T == Subtree(heap, c)
           M == Made(f)
           d == Deleted(Unlinked(g, c), T)
<1>4. /\ f[n] \in M /\ M \in SUBSET Nodes /\ Detached(g, f[n])
      /\ \A m \in M : heap[m].parent = Null /\ g[m].parent \in M \cup {Null}
      /\ \A m \in Nodes \ M : g[m] = heap[m] /\ heap[m].parent \notin M
      /\ p \in Nodes \ M /\ Live(g, p)
  BY <1>1, <1>3, CloneFacts
<1>5. Sound(g)
  BY <1>1, <1>3, CopiedSound
<1>6. c \notin M /\ g[c].parent = p
  BY <1>1, <1>4
<1>7. \A x \in T : x \notin M
  <2>1. \A x \in T : x # c => heap[x].parent \in T
    BY SubtreeParents
  <2>2. Null \notin T
    BY SubtreeClosed
  <2> QED
    BY <1>4, <1>6, <2>1, <2>2
<1>8. Subtree(g, c) = T
  <2>1. \A m \in Nodes \ {c} :
          g[m].parent = heap[m].parent \/ (heap[m].parent = Null /\ g[m].parent \notin Subtree(heap, c))
    <3>1. Null \notin Subtree(heap, c)
      BY SubtreeClosed
    <3> HIDE DEF g, M
    <3> QED
      BY <1>4, <1>7, <3>1
  <2> HIDE DEF g
  <2> QED
    BY <2>1, SubtreeKept
<1>9. /\ Sound(d) /\ Between(d, p, g[c].prev, g[c].next) /\ p \notin T
      /\ \A m \in Nodes \ T : d[m].kind = g[m].kind /\ d[m].parent = g[m].parent
  <2> HIDE DEF g, T
  <2> QED
    BY <1>5, <1>6, <1>8, RemovedSound
<1>10. \A m \in T : d[m].parent = Null
  BY SubtreeClosed DEF Deleted, Free, NewNode
<1> HIDE DEF g, T, M, d
<1>11. Live(d, p) /\ Detached(d, f[n])
  BY <1>4, <1>7, <1>9 DEF Live, Detached
<1>12. f[n] \in Nodes /\ p \notin Subtree(d, f[n])
  <2>1. \A m \in Nodes : d[m].parent \in M => m \in M
    BY <1>4, <1>9, <1>10
  <2>2. Subtree(d, f[n]) \subseteq M
    BY <1>4, <2>1, SubtreeLeast
  <2> QED
    BY <1>4, <2>2
<1>13. Sound(Linked(d, p, g[c].prev, g[c].next, f[n]))
  BY <1>9, <1>11, <1>12, LinkedSound
<1> QED
  BY <1>2, <1>13 DEF g, T, d

LEMMA RemoveStep ==
  ASSUME Sound(heap), NEW p \in Nodes, NEW c \in Nodes, RemoveChild(p, c)
  PROVE  Sound(heap')
  BY RemovedSound DEF RemoveChild

LEMMA SoundInit == TreeInit => Sound(heap)
<1> SUFFICES ASSUME TreeInit PROVE Sound(heap)
  OBVIOUS
<1> USE NullAssumption
<1>1. /\ Free \in Node
      /\ Free.parent = Null /\ Free.firstChild = Null /\ Free.lastChild = Null
      /\ Free.prev = Null /\ Free.next = Null
  BY DEF Free, NewNode, Node, Pointers
<1>2. heap \in [Nodes -> Node] /\ \A m \in Nodes : heap[m] = Free
  BY <1>1 DEF TreeInit
<1>3. WellLinked(heap) /\ EndsTogether(heap)
  BY <1>1, <1>2 DEF WellLinked, EndsTogether
<1>4. Founded(heap) /\ Ended(heap)
  BY <1>1, <1>2 DEF Founded, Ended
<1> QED
  BY <1>2, <1>3, <1>4 DEF Sound

LEMMA SoundNext == Sound(heap) /\ [TreeNext]_heap => Sound(heap')
<1> SUFFICES ASSUME Sound(heap), [TreeNext]_heap PROVE Sound(heap')
  OBVIOUS
<1>1. CASE Create
  <2>1. PICK k \in Kinds, v \in Values : heap' = New(heap, NewAddress(heap), k, v)
    BY <1>1 DEF Create
  <2>2. NewAddress(heap) \in FreeNodes(heap)
    BY <1>1 DEF Create, NewAddress
  <2> QED
    BY <2>1, <2>2, NewSound
<1>2. ASSUME NEW n \in Nodes, delete(n) PROVE Sound(heap')
  BY <1>2, DeleteSound DEF delete, Detached
<1>3. ASSUME NEW p \in Nodes, NEW n \in Nodes, linkEndChild(p, n) \/ InsertEndChild(p, n)
      PROVE  Sound(heap')
  BY <1>3, LinkSteps
<1>4. ASSUME NEW p \in Nodes, NEW n \in Nodes, RemoveChild(p, n) PROVE Sound(heap')
  BY <1>4, RemoveStep
<1>5. ASSUME NEW p \in Nodes, NEW c \in Nodes, NEW n \in Nodes,
             InsertBeforeChild(p, c, n) \/ InsertAfterChild(p, c, n)
      PROVE  Sound(heap')
  BY <1>5, InsertSteps
<1>6. ASSUME NEW p \in Nodes, NEW c \in Nodes, NEW n \in Nodes, ReplaceChild(p, c, n)
      PROVE  Sound(heap')
  BY <1>6, ReplaceStep
<1>7. ASSUME NEW p \in Nodes, Clear(p) PROVE Sound(heap')
  BY <1>7, ClearSound DEF Clear
<1>8. CASE UNCHANGED heap
  BY <1>8
<1> QED
  BY <1>1, <1>2, <1>3, <1>4, <1>5, <1>6, <1>7, <1>8 DEF TreeNext, Edit

LEMMA SoundAlways == TreeSpec => []Sound(heap)
<1>1. TreeInit => Sound(heap)
  BY SoundInit
<1>2. Sound(heap) /\ [TreeNext]_heap => Sound(heap)'
  BY SoundNext
<1> QED
  BY <1>1, <1>2, PTL DEF TreeSpec
-----------------------------------------------------------------------------
(* A loop over the children of a node: from its first child along next, or *)
(* from its last child along prev, to Null.                                *)
Children(h, p) == {n \in Nodes : h[n].parent = p}
SeenForwards(h, p) ==
  {m \in Nodes : \A S \in SUBSET Nodes :
     h[p].firstChild \in S \cup {Null} /\ (\A x \in S : h[x].next \in S \cup {Null}) => m \in S}
SeenBackwards(h, p) ==
  {m \in Nodes : \A S \in SUBSET Nodes :
     h[p].lastChild \in S \cup {Null} /\ (\A x \in S : h[x].prev \in S \cup {Null}) => m \in S}

(* Following prev, too, one comes to an end: nodes are finitely many, and  *)
(* prev leads from different nodes to different nodes.                     *)
LEMMA PrevEnds ==
  ASSUME NEW h, Sound(h), NEW X \in SUBSET Nodes, X # {}
  PROVE  \E m \in X : h[m].prev \notin X
<1> SUFFICES ASSUME \A m \in X : h[m].prev \in X PROVE FALSE
  OBVIOUS
<1>1. PICK m \in X : h[m].next \notin X
  BY DEF Sound, Ended
<1> DEFINE Y == X \ {m}
           f == [x \in X |-> h[x].prev]
<1>2. IsFiniteSet(X)
  BY NodesAssumption, FS_Subset
<1>3. IsFiniteSet(Y) /\ Cardinality(Y) = Cardinality(X) - 1
  BY <1>2, FS_RemoveElement
<1>4. Cardinality(X) \in Nat
  BY <1>2, FS_CardinalityType
<1>5. \A x \in X : h[x].prev # m
  <2>1. \A x \in X : h[x].prev = m => h[m].next = x
    BY DEF Sound, WellLinked
  <2> QED
    BY <1>1, <2>1
<1>6. f \in [X -> Y]
  BY <1>5
<1>7. Cardinality(Y) < Cardinality(X)
  BY <1>3, <1>4
<1> HIDE DEF Y, f
<1>8. PICK x \in X, y \in X : x # y /\ f[x] = f[y]
  BY <1>2, <1>3, <1>6, <1>7, FS_PigeonHole
<1>9. h[x].prev = h[y].prev /\ h[x].prev \in Nodes
  BY <1>8 DEF f
<1>10. h[h[x].prev].next = x /\ h[h[x].prev].next = y
  BY <1>9 DEF Sound, WellLinked
<1> QED
  BY <1>8, <1>10

LEMMA LoopsSeeChildren ==
  ASSUME NEW h, Sound(h), NEW p \in Nodes
  PROVE  SeenForwards(h, p) = Children(h, p) /\ SeenBackwards(h, p) = Children(h, p)
<1> USE NullAssumption
<1> DEFINE C == Children(h, p)
<1>1. C \in SUBSET Nodes /\ \A n \in Nodes : n \in C <=> h[n].parent = p
  BY DEF Children
<1>2. \A n \in Nodes : h[n].next \in Pointers /\ h[n].prev \in Pointers
  BY Pointed DEF Sound
<1>3. h[p].firstChild \in Pointers /\ h[p].lastChild \in Pointers
  BY Pointed DEF Sound
<1> HIDE DEF C
(* The children are such a set, ...                                        *)
<1>4. h[p].firstChild \in C \cup {Null} /\ h[p].lastChild \in C \cup {Null}
  BY <1>1, <1>3 DEF Sound, WellLinked, Pointers
<1>5. \A x \in C : h[x].next \in C \cup {Null}
  BY <1>1, <1>2 DEF Sound, WellLinked, Pointers
<1>6. \A x \in C : h[x].prev \in C \cup {Null}
  <2> SUFFICES ASSUME NEW x \in C, h[x].prev # Null PROVE h[x].prev \in C
    OBVIOUS
  <2>1. h[x].prev \in Nodes /\ x \in Nodes
    BY <1>1, <1>2 DEF Pointers
  <2>2. h[h[x].prev].next = x
    BY <2>1 DEF Sound, WellLinked
  <2>3. h[h[x].prev].parent = h[x].parent
    BY <2>1, <2>2 DEF Sound, WellLinked
  <2> QED
    BY <1>1, <2>1, <2>3
<1>7. SeenForwards(h, p) \subseteq C /\ SeenBackwards(h, p) \subseteq C
  BY <1>1, <1>4, <1>5, <1>6 DEF SeenForwards, SeenBackwards
(* ... and none is missing: the missing ones would have no first one.      *)
<1>8. ASSUME NEW S \in SUBSET Nodes, h[p].firstChild \in S \cup {Null},
             \A x \in S : h[x].next \in S \cup {Null}
      PROVE  C \subseteq S
  <2> SUFFICES ASSUME C \ S # {} PROVE FALSE
    OBVIOUS
  <2>1. PICK m \in C \ S : h[m].prev \notin C \ S
    <3>1. C \ S \in SUBSET Nodes
      BY <1>1
    <3> QED
      BY <3>1, PrevEnds
  <2>2. m \in Nodes /\ h[m].parent = p /\ h[m].prev \in C \cup {Null}
    BY <1>1, <1>6
  <2>3. CASE h[m].prev = Null
    <3>1. h[p].firstChild = m
      BY <2>2, <2>3 DEF Sound, WellLinked
    <3> QED
      BY <1>8, <2>2, <3>1
  <2>4. CASE h[m].prev \in S
    <3>1. h[h[m].prev].next = m
      BY <2>2, <2>4 DEF Sound, WellLinked
    <3> QED
      BY <1>8, <2>2, <2>4, <3>1
  <2> QED
    BY <2>1, <2>2, <2>3, <2>4
<1>9. ASSUME NEW S \in SUBSET Nodes, h[p].lastChild \in S \cup {Null},
             \A x \in S : h[x].prev \in S \cup {Null}
      PROVE  C \subseteq S
  <2> SUFFICES ASSUME C \ S # {} PROVE FALSE
    OBVIOUS
  <2>1. PICK m \in C \ S : h[m].next \notin C \ S
    <3>1. C \ S \in SUBSET Nodes
      BY <1>1
    <3> QED
      BY <3>1 DEF Sound, Ended
  <2>2. m \in Nodes /\ h[m].parent = p /\ h[m].next \in C \cup {Null}
    BY <1>1, <1>5
  <2>3. CASE h[m].next = Null
    <3>1. h[p].lastChild = m
      BY <2>2, <2>3 DEF Sound, WellLinked
    <3> QED
      BY <1>9, <2>2, <3>1
  <2>4. CASE h[m].next \in S
    <3>1. h[h[m].next].prev = m
      BY <2>2, <2>4 DEF Sound, WellLinked
    <3> QED
      BY <1>9, <2>2, <2>4, <3>1
  <2> QED
    BY <2>1, <2>2, <2>3, <2>4
<1>10. C \subseteq SeenForwards(h, p) /\ C \subseteq SeenBackwards(h, p)
  BY <1>1, <1>8, <1>9 DEF SeenForwards, SeenBackwards
<1> QED
  BY <1>7, <1>10 DEF C

(* The pointers of a node are addresses of nodes or null.                  *)
THEOREM TreeTypeCorrect == TreeSpec => []TreeTypeOK
<1>1. Sound(heap) => TreeTypeOK
  BY DEF Sound, TreeTypeOK
<1> QED
  BY <1>1, SoundAlways, PTL

(* Whatever is created, linked, cloned, replaced, cleared and deleted, in  *)
(* whatever order: next and prev are inverse, siblings have one parent, a  *)
(* parent has the two ends of its list, and nothing points to a node that  *)
(* was deleted.                                                            *)
THEOREM TreeStaysLinked == TreeSpec => []ListsWellLinked
<1>1. Sound(heap) => ListsWellLinked
  BY DEF Sound, ListsWellLinked
<1> QED
  BY <1>1, SoundAlways, PTL

(* No node gets below itself and no list of siblings runs in a circle: the *)
(* destructors, Clone and every walk through a document come to an end.    *)
NoCircles == Founded(heap) /\ Ended(heap)
THEOREM NoCirclesEver == TreeSpec => []NoCircles
<1>1. Sound(heap) => NoCircles
  BY DEF Sound, NoCircles
<1> QED
  BY <1>1, SoundAlways, PTL

(* A loop over the children of a node that starts at FirstChild or at      *)
(* LastChild visits the nodes whose parent it is, all of them and no       *)
(* others.                                                                 *)
LoopsVisitChildren ==
  \A p \in Nodes : /\ SeenForwards(heap, p) = Children(heap, p)
                  /\ SeenBackwards(heap, p) = Children(heap, p)
THEOREM ChildrenAreVisited == TreeSpec => []LoopsVisitChildren
<1>1. Sound(heap) => LoopsVisitChildren
  BY LoopsSeeChildren DEF LoopsVisitChildren
<1> QED
  BY <1>1, SoundAlways, PTL
-----------------------------------------------------------------------------
(***************************************************************************)
(* Timers.  A walk divides the list: the timers before the node it is at   *)
(* have been visited, the others are due (Walked).  Nodes that callbacks   *)
(* and clients take out keep the others in order, so the division survives *)
(* until the node itself is taken out, which is when freed memory is used  *)
(* next.                                                                   *)
(***************************************************************************)
USE NoTimerIsNone, IntervalsPositive

(* A timer that was visited in this walk, or that no walk has come to yet. *)
Current(t) == age[t] < _interval[t] /\ leftsecs[t] = _interval[t] - age[t]
Due(t) == age[t] >= 1 /\ age[t] <= _interval[t] /\ leftsecs[t] = _interval[t] - age[t] + 1

Distinct == \A m, n \in 1..Len(_timer_list) : _timer_list[m] = _timer_list[n] => m = n

Walked ==
  ~undefined =>
    /\ pc = "sleep" \/ (pc = "walk" /\ ite = NoTimer) =>
         \A n \in 1..Len(_timer_list) : Current(_timer_list[n])
    /\ pc = "walk" =>
         \A p, n \in 1..Len(_timer_list) :
           _timer_list[p] = ite =>
             /\ n < p => Current(_timer_list[n])
             /\ n >= p => Due(_timer_list[n])

(* Nobody holds a node that is gone, unless the list was written meanwhile. *)
Held ==
  /\ \A c \in Clients : finding[c] # NoTimer => In(finding[c]) \/ raced
  /\ pc = "walk" /\ ite # NoTimer /\ ~undefined => In(ite) \/ raced

Inv == TypeOK /\ Distinct /\ Walked /\ Held /\ OthersMayUnregister
-----------------------------------------------------------------------------
LEMMA PlaceIs ==
  ASSUME NEW S, NEW s \in Seq(S), NEW t \in ToSet(s)
  PROVE  Place(t, s) \in 1..Len(s) /\ s[Place(t, s)] = t
<1>1. \E n \in 1..Len(s) : s[n] = t
  BY DEF ToSet
<1> QED
  BY <1>1 DEF Place

LEMMA RemovedAt ==
  ASSUME NEW S, NEW s \in Seq(S), NEW i \in 1..Len(s)
  PROVE  /\ RemoveAt(s, i) \in Seq(S)
         /\ Len(RemoveAt(s, i)) = Len(s) - 1
         /\ \A n \in 1..Len(s) - 1 : RemoveAt(s, i)[n] = s[IF n < i THEN n ELSE n + 1]
<1> DEFINE before == SubSeq(s, 1, i - 1)
           after == SubSeq(s, i + 1, Len(s))
<1>1. /\ before \in Seq(S) /\ Len(before) = i - 1
      /\ \A n \in 1..i - 1 : before[n] = s[n]
  OBVIOUS
<1>2. /\ after \in Seq(S) /\ Len(after) = Len(s) - i
      /\ \A n \in 1..Len(s) - i : after[n] = s[n + i]
  OBVIOUS
<1> HIDE DEF before, after
<1>3. /\ before \o after \in Seq(S)
      /\ Len(before \o after) = Len(s) - 1
      /\ \A n \in 1..Len(s) - 1 :
           (before \o after)[n] = IF n < i THEN before[n] ELSE after[n - (i - 1)]
  <2>1. /\ before \o after \in Seq(S)
        /\ Len(before \o after) = Len(before) + Len(after)
        /\ \A n \in 1..Len(before) + Len(after) :
             (before \o after)[n] =
               IF n <= Len(before) THEN before[n] ELSE after[n - Len(before)]
    BY <1>1, <1>2, ConcatProperties
  <2> QED
    BY <1>1, <1>2, <2>1
<1>4. RemoveAt(s, i) = before \o after
  BY DEF RemoveAt, before, after
<1>5. ASSUME NEW n \in 1..Len(s) - 1
      PROVE  (before \o after)[n] = s[IF n < i THEN n ELSE n + 1]
  BY <1>1, <1>2, <1>3
<1> QED
  BY <1>3, <1>4, <1>5

(* What is left of the list without t is in the same order.                *)
Rest(l, t) ==
  /\ l \in Seq(Timers)
  /\ \E p \in 1..Len(_timer_list) + 1 :
       \A n \in 1..Len(l) :
         /\ (IF n < p THEN n ELSE n + 1) \in 1..Len(_timer_list)
         /\ l[n] = _timer_list[IF n < p THEN n ELSE n + 1]
  /\ ToSet(l) = ToSet(_timer_list) \ {t}

LEMMA WithoutIs ==
  ASSUME TypeOK, Distinct, NEW t
  PROVE  Rest(Without(t), t)
<1> DEFINE s == _timer_list
<1>1. s \in Seq(Timers) /\ Len(s) \in Nat
  BY DEF TypeOK
<1>2. CASE ~In(t)
  <2>1. Without(t) = s /\ t \notin ToSet(s)
    BY <1>2 DEF Without, In
  <2>2. \A n \in 1..Len(s) : n < Len(s) + 1
    BY <1>1
  <2>3. \E p \in 1..Len(s) + 1 :
          \A n \in 1..Len(s) : /\ (IF n < p THEN n ELSE n + 1) \in 1..Len(s)
                               /\ s[n] = s[IF n < p THEN n ELSE n + 1]
    <3> WITNESS Len(s) + 1 \in 1..Len(s) + 1
    <3> QED
      BY <2>2
  <2> QED
    BY <1>1, <2>1, <2>3 DEF Rest
<1>3. CASE In(t)
  <2>1. PICK i : i = Place(t, s)
    OBVIOUS
  <2>2. i \in 1..Len(s) /\ s[i] = t
    BY <1>1, <1>3, <2>1, PlaceIs DEF In
  <2>3. PICK l : l = Without(t)
    OBVIOUS
  <2>4. l = RemoveAt(s, i)
    BY <1>3, <2>1, <2>3 DEF Without
  <2>5. /\ l \in Seq(Timers) /\ Len(l) = Len(s) - 1
        /\ \A n \in 1..Len(s) - 1 : l[n] = s[IF n < i THEN n ELSE n + 1]
    BY <1>1, <2>2, <2>4, RemovedAt
  <2>6. \A n \in 1..Len(l) : /\ (IF n < i THEN n ELSE n + 1) \in 1..Len(s)
                             /\ l[n] = s[IF n < i THEN n ELSE n + 1]
    BY <1>1, <2>2, <2>5
  <2>7. ToSet(l) = ToSet(s) \ {t}
    <3>1. ASSUME NEW n \in 1..Len(l) PROVE l[n] \in ToSet(s) /\ l[n] # t
      <4>1. PICK m \in 1..Len(s) : m # i /\ l[n] = s[m]
        BY <1>1, <2>2, <2>5, <2>6
      <4> QED
        BY <1>1, <2>2, <4>1 DEF ToSet, Distinct
    <3>2. ASSUME NEW n \in 1..Len(s), s[n] # t PROVE \E j \in 1..Len(l) : l[j] = s[n]
      <4>1. CASE n < i
        BY <1>1, <2>2, <2>5, <2>6, <4>1
      <4>2. CASE ~(n < i)
        <5>1. n - 1 \in 1..Len(l) /\ ~(n - 1 < i) /\ (n - 1) + 1 = n
          BY <1>1, <2>2, <2>5, <3>2, <4>2
        <5>2. l[n - 1] = s[n]
          BY <2>6, <5>1
        <5> QED
          BY <5>1, <5>2
      <4> QED
        BY <4>1, <4>2
    <3>3. DOMAIN l = 1..Len(l) /\ DOMAIN s = 1..Len(s)
      BY <1>1, <2>5
    <3>4. ToSet(l) \subseteq ToSet(s) \ {t}
      BY <3>1, <3>3 DEF ToSet
    <3>5. ASSUME NEW x \in ToSet(s) \ {t} PROVE x \in ToSet(l)
      <4>1. PICK n \in 1..Len(s) : s[n] = x
        BY <3>3 DEF ToSet
      <4> QED
        BY <3>2, <3>3, <4>1 DEF ToSet
    <3> QED
      BY <3>4, <3>5
  <2>8. i \in 1..Len(s) + 1
    BY <1>1, <2>2
  <2> QED
    BY <2>3, <2>5, <2>6, <2>7, <2>8 DEF Rest
<1> QED
  BY <1>2, <1>3

(* The timers keep their values and their order.                           *)
LEMMA RestWalked ==
  ASSUME TypeOK, Distinct, NEW t, Rest(_timer_list', t)
  PROVE  /\ Distinct'
         /\ \A P, Q : 
              (\A p, n \in 1..Len(_timer_list) :
                 _timer_list[p] = ite =>
                    /\ n < p => _timer_list[n] \in P
                    /\ n >= p => _timer_list[n] \in Q)
              => (\A p, n \in 1..Len(_timer_list') :
                    _timer_list'[p] = ite =>
                       /\ n < p => _timer_list'[n] \in P
                       /\ n >= p => _timer_list'[n] \in Q)
<1> DEFINE s == _timer_list
           r == _timer_list'
<1>1. s \in Seq(Timers) /\ Len(s) \in Nat /\ Len(r) \in Nat
  BY DEF TypeOK, Rest
<1>2. PICK i \in 1..Len(s) + 1 :
        \A n \in 1..Len(r) : /\ (IF n < i THEN n ELSE n + 1) \in 1..Len(s)
                             /\ r[n] = s[IF n < i THEN n ELSE n + 1]
  BY DEF Rest
<1>3. Distinct'
  <2> SUFFICES ASSUME NEW m \in 1..Len(r), NEW n \in 1..Len(r), r[m] = r[n] PROVE m = n
    BY DEF Distinct
  <2>1. (IF m < i THEN m ELSE m + 1) = (IF n < i THEN n ELSE n + 1)
    BY <1>2 DEF Distinct
  <2> QED
    BY <1>1, <2>1
<1>4. ASSUME NEW P, NEW Q,
             \A p, n \in 1..Len(s) :
               s[p] = ite =>
                  /\ n < p => s[n] \in P
                  /\ n >= p => s[n] \in Q,
             NEW p \in 1..Len(r), NEW n \in 1..Len(r), r[p] = ite
      PROVE  /\ n < p => r[n] \in P
             /\ n >= p => r[n] \in Q
  <2>1. PICK pp \in 1..Len(s), nn \in 1..Len(s) :
          /\ pp = (IF p < i THEN p ELSE p + 1) /\ nn = (IF n < i THEN n ELSE n + 1)
          /\ s[pp] = ite /\ s[nn] = r[n]
    BY <1>2, <1>4
  <2>2. (n < p => nn < pp) /\ (n >= p => nn >= pp)
    BY <1>1, <2>1
  <2> QED
    BY <1>4, <2>1, <2>2
<1> QED
  BY <1>3, <1>4
-----------------------------------------------------------------------------
LEMMA InvInit == Init => Inv
<1> SUFFICES ASSUME Init PROVE Inv
  OBVIOUS
<1>1. Len(_timer_list) = 0 /\ _timer_list \in Seq(Timers)
  BY DEF Init
<1>2. TypeOK
  BY <1>1 DEF Init, TypeOK, Operations
<1>3. Distinct /\ Walked
  BY <1>1 DEF Init, Distinct, Walked
<1>4. Held /\ OthersMayUnregister
  BY DEF Init, Held, OthersMayUnregister
<1> QED
  BY <1>2, <1>3, <1>4 DEF Inv

(* Membership of the list, by position.                                    *)
LEMMA InIs ==
  ASSUME TypeOK
  PROVE  /\ Len(_timer_list) \in Nat
         /\ \A n \in 1..Len(_timer_list) : _timer_list[n] \in Timers /\ In(_timer_list[n])
         /\ \A t : In(t) => \E n \in 1..Len(_timer_list) : _timer_list[n] = t
<1>1. _timer_list \in Seq(Timers)
  BY DEF TypeOK
<1>2. Len(_timer_list) \in Nat /\ DOMAIN _timer_list = 1..Len(_timer_list)
  BY <1>1
<1>3. \A n \in 1..Len(_timer_list) : _timer_list[n] \in Timers
  BY <1>1
<1>4. \A t : In(t) <=> \E n \in 1..Len(_timer_list) : _timer_list[n] = t
  BY <1>2 DEF In, ToSet
<1> QED
  BY <1>2, <1>3, <1>4

LEMMA Typed ==
  ASSUME TypeOK, NEW t \in Timers
  PROVE  age[t] \in Nat /\ leftsecs[t] \in Nat /\ _interval[t] \in Nat
<1>1. Intervals \cup {0} \subseteq Nat
  OBVIOUS
<1>2. _interval[t] \in Intervals \cup {0}
  BY DEF TypeOK
<1> QED
  BY <1>1, <1>2 DEF TypeOK

LEMMA WriteIs ==
  ASSUME TypeOK, NEW others \in BOOLEAN, NEW gone \in BOOLEAN, Write(others, gone)
  PROVE  /\ undefined' \in BOOLEAN /\ raced' \in BOOLEAN
         /\ raced \/ others => raced'
         /\ undefined' => gone \/ raced'
<1>1. CASE others
  BY <1>1 DEF Write, TypeOK
<1>2. CASE ~others
  <2>1. undefined' = gone /\ raced' = raced
    BY <1>2 DEF Write, TypeOK
  <2> QED
    BY <1>2, <2>1 DEF TypeOK
<1> QED
  BY <1>1, <1>2

LEMMA RegisterStep ==
  ASSUME Inv, NEW c \in Clients, NEW t \in Timers, NEW n \in Intervals, NEW op \in Operations,
         Register(c, t, n, op)
  PROVE  Inv'
<1> USE DEF Inv
<1>1. /\ ~In(t) /\ pc = "sleep" /\ ~undefined
      /\ _timer_list' = Append(_timer_list, t)
      /\ leftsecs' = [leftsecs EXCEPT ![t] = n]
      /\ _interval' = [_interval EXCEPT ![t] = n]
      /\ callback' = [callback EXCEPT ![t] = op]
      /\ age' = [age EXCEPT ![t] = 0]
      /\ Write(Inside(c), FALSE)
      /\ UNCHANGED <<pc, ite, finding>>
  BY DEF Register, Opened, thread
<1>a. undefined' \in BOOLEAN /\ raced' \in BOOLEAN /\ (raced => raced') /\ (undefined' => raced')
  <2>1. Inside(c) \in BOOLEAN
    BY DEF Inside, Unregistering
  <2> QED
    BY <1>1, <2>1, WriteIs
<1>2. /\ _timer_list' \in Seq(Timers) /\ Len(_timer_list') = Len(_timer_list) + 1
      /\ \A m \in 1..Len(_timer_list) : _timer_list'[m] = _timer_list[m]
      /\ _timer_list'[Len(_timer_list) + 1] = t
      /\ Len(_timer_list) \in Nat
  BY <1>1 DEF TypeOK
<1>3. TypeOK'
  BY <1>1, <1>a, <1>2 DEF TypeOK
<1>4. \A m \in 1..Len(_timer_list) : _timer_list[m] \in Timers /\ _timer_list[m] # t
  BY <1>1, InIs
<1>5. Distinct'
  BY <1>2, <1>4 DEF Distinct
<1>6. ASSUME NEW m \in 1..Len(_timer_list') PROVE Current(_timer_list[m])'
  <2>1. CASE m \in 1..Len(_timer_list)
    <3>1. PICK x : x = _timer_list[m]
      OBVIOUS
    <3>2. Current(x) /\ x \in Timers /\ x # t /\ _timer_list'[m] = x
      BY <1>1, <1>2, <1>4, <2>1, <3>1 DEF Walked
    <3>3. Current(x)'
      BY <1>1, <3>2 DEF Current, TypeOK
    <3> QED
      BY <3>2, <3>3
  <2>2. CASE m = Len(_timer_list) + 1
    <3>1. n \in Nat /\ n > 0
      OBVIOUS
    <3>2. Current(t)'
      BY <1>1, <3>1 DEF Current, TypeOK
    <3> QED
      BY <1>2, <2>2, <3>2
  <2> QED
    BY <1>2, <2>1, <2>2
<1>7. Walked'
  BY <1>1, <1>6 DEF Walked
<1>8. \A x : In(x) => In(x)'
  <2>1. \A x \in ToSet(_timer_list) : x \in ToSet(_timer_list')
    <3> TAKE x \in ToSet(_timer_list)
    <3>1. PICK m \in 1..Len(_timer_list) : _timer_list[m] = x
      BY InIs DEF In
    <3>2. m \in 1..Len(_timer_list') /\ _timer_list'[m] = x
      BY <1>2, <3>1
    <3>3. DOMAIN _timer_list' = 1..Len(_timer_list')
      BY <1>2
    <3> QED
      BY <3>2, <3>3 DEF ToSet
  <2> QED
    BY <2>1 DEF In
<1>9. Held' /\ OthersMayUnregister'
  BY <1>1, <1>a, <1>8 DEF Held, OthersMayUnregister
<1> QED
  BY <1>3, <1>5, <1>7, <1>9

LEMMA FindStep ==
  ASSUME Inv, NEW c \in Clients, NEW t \in Timers, find(c, t)
  PROVE  Inv'
<1> USE DEF Inv
<1>1. /\ ~undefined /\ In(t) /\ finding' = [finding EXCEPT ![c] = t]
      /\ UNCHANGED <<_timer_list, _interval, leftsecs, callback, pc, ite, undefined, age, raced>>
  BY DEF find, list, thread
<1>2. TypeOK'
  BY <1>1 DEF TypeOK
<1>3. Distinct' /\ Walked' /\ OthersMayUnregister'
  BY <1>1 DEF Distinct, Walked, Current, Due, OthersMayUnregister
<1>4. Held'
  BY <1>1 DEF Held, In, TypeOK
<1> QED
  BY <1>2, <1>3, <1>4

(* Timers that were taken out of the list.                                 *)
LEMMA LessWalked ==
  ASSUME Inv, NEW t, Rest(_timer_list', t),
         UNCHANGED <<_interval, leftsecs, age, pc, ite>>, ~undefined
  PROVE  Distinct' /\ Walked'
<1> USE DEF Inv
<1> DEFINE P == {x \in Timers : Current(x)}
           Q == {x \in Timers : Due(x)}
<1>1. Distinct'
  BY RestWalked
<1>2. \A x : /\ Current(x)' <=> Current(x)
             /\ Due(x)' <=> Due(x)
  BY DEF Current, Due
<1>3. CASE pc = "sleep" \/ (pc = "walk" /\ ite = NoTimer)
  <2>1. \A x \in ToSet(_timer_list) : Current(x)
    BY <1>3, InIs DEF Walked, In
  <2>2. \A n \in 1..Len(_timer_list') : _timer_list'[n] \in ToSet(_timer_list)
    BY DEF Rest, ToSet
  <2>3. \A n \in 1..Len(_timer_list') : Current(_timer_list[n])'
    <3> SUFFICES ASSUME NEW n \in 1..Len(_timer_list') PROVE Current(_timer_list[n])'
      OBVIOUS
    <3>1. PICK x : x = _timer_list'[n]
      OBVIOUS
    <3> QED
      BY <1>2, <2>1, <2>2, <3>1
  <2>4. \A n \in 1..Len(_timer_list') : _timer_list'[n] # NoTimer
    BY DEF Rest
  <2> QED
    BY <1>1, <1>3, <2>3, <2>4 DEF Walked
<1>4. CASE pc = "walk" /\ ite # NoTimer
  <2>1. \A p, n \in 1..Len(_timer_list) :
           _timer_list[p] = ite =>
             /\ n < p => _timer_list[n] \in P
             /\ n >= p => _timer_list[n] \in Q
    BY <1>4, InIs DEF Walked
  <2> HIDE DEF P, Q
  <2>2. \A p, n \in 1..Len(_timer_list') :
           _timer_list'[p] = ite =>
             /\ n < p => _timer_list'[n] \in P
             /\ n >= p => _timer_list'[n] \in Q
    BY <2>1, RestWalked
  <2>3. ASSUME NEW p \in 1..Len(_timer_list'), NEW n \in 1..Len(_timer_list'),
               _timer_list'[p] = ite
        PROVE  /\ n < p => Current(_timer_list[n])'
               /\ n >= p => Due(_timer_list[n])'
    <3>1. PICK x : x = _timer_list'[n]
      OBVIOUS
    <3>2. (n < p => x \in P) /\ (n >= p => x \in Q)
      BY <2>2, <2>3, <3>1
    <3>3. (n < p => Current(x)') /\ (n >= p => Due(x)')
      BY <1>2, <3>2 DEF P, Q
    <3> QED
      BY <3>1, <3>3
  <2> QED
    BY <1>1, <1>4, <2>3 DEF Walked
<1>5. CASE pc = "stuck"
  BY <1>1, <1>5 DEF Walked
<1> QED
  BY <1>3, <1>4, <1>5 DEF TypeOK

LEMMA EraseStep ==
  ASSUME Inv, NEW c \in Clients, erase(c)
  PROVE  Inv'
<1> USE DEF Inv
<1>1. PICK t : t = finding[c]
  OBVIOUS
<1>2. /\ ~undefined /\ t # NoTimer /\ _timer_list' = Without(t)
      /\ Write(Inside(c), ~In(t))
      /\ finding' = [finding EXCEPT ![c] = NoTimer]
      /\ UNCHANGED <<_interval, leftsecs, callback, pc, ite, age>>
  BY <1>1 DEF erase, thread
<1>3. Rest(_timer_list', t)
  BY <1>2, WithoutIs
<1>a. /\ undefined' \in BOOLEAN /\ raced' \in BOOLEAN /\ (raced \/ Inside(c) => raced')
      /\ undefined' => ~In(t) \/ raced'
  <2>1. Inside(c) \in BOOLEAN /\ (~In(t)) \in BOOLEAN
    BY DEF Inside, Unregistering, In
  <2> QED
    BY <1>2, <2>1, WriteIs
<1>4. TypeOK'
  BY <1>2, <1>a, <1>3 DEF TypeOK, Rest
<1>5. Distinct' /\ Walked'
  BY <1>2, <1>3, LessWalked
<1>6. Held'
  <2>1. \A x \in Clients : finding'[x] # NoTimer => x # c /\ finding[x] # NoTimer
    BY <1>2 DEF TypeOK
  <2>2. \A x \in Clients : finding'[x] # NoTimer => raced'
    BY <1>a, <2>1 DEF Inside, Unregistering
  <2>3. pc' = "walk" => raced'
    BY <1>2, <1>a DEF Inside
  <2> QED
    BY <2>2, <2>3 DEF Held
<1>7. OthersMayUnregister'
  BY <1>1, <1>2, <1>a DEF Held, OthersMayUnregister
<1> QED
  BY <1>4, <1>5, <1>6, <1>7

LEMMA LockStep ==
  ASSUME Inv, lock
  PROVE  Inv'
<1> USE DEF Inv
<1>1. /\ ~undefined /\ pc = "sleep" /\ pc' = "walk" /\ ite' = begin
      /\ age' = [t \in Timers |-> IF In(t) /\ age[t] <= _interval[t] THEN age[t] + 1 ELSE age[t]]
      /\ UNCHANGED <<_timer_list, _interval, leftsecs, callback, finding, undefined, raced>>
  BY DEF lock, list
<1>2. CASE _timer_list = <<>>
  <2>1. ite' = NoTimer /\ Len(_timer_list) = 0
    BY <1>1, <1>2 DEF begin
  <2>2. TypeOK'
    BY <1>1, <2>1 DEF TypeOK
  <2> QED
    BY <1>1, <2>1, <2>2 DEF Distinct, Walked, Held, In, OthersMayUnregister
<1>3. CASE _timer_list # <<>>
  <2>1. ite' = _timer_list[1] /\ 1 \in 1..Len(_timer_list)
    BY <1>1, <1>3 DEF begin, TypeOK
  <2>2. ite' \in Timers /\ In(ite')
    BY <2>1, InIs
  <2>3. TypeOK'
    BY <1>1, <2>2 DEF TypeOK
  <2>4. ASSUME NEW n \in 1..Len(_timer_list) PROVE Due(_timer_list[n])'
    <3>1. PICK x : x = _timer_list[n]
      OBVIOUS
    <3>2. x \in Timers /\ In(x) /\ Current(x)
      BY <1>1, <3>1, InIs DEF Walked
    <3>3. age[x] \in Nat /\ _interval[x] \in Nat
      BY <3>2, Typed
    <3>4. age[x] < _interval[x] /\ leftsecs[x] = _interval[x] - age[x]
      BY <3>2 DEF Current
    <3>5. age'[x] = age[x] + 1
      BY <1>1, <3>2, <3>3, <3>4
    <3>6. Due(x)'
      BY <1>1, <3>3, <3>4, <3>5 DEF Due
    <3> QED
      BY <1>1, <3>1, <3>6
  <2>5. \A p \in 1..Len(_timer_list) : _timer_list[p] = ite' => p = 1
    BY <2>1 DEF Distinct
  <2>6. Walked'
    BY <1>1, <2>2, <2>4, <2>5 DEF Walked
  <2> QED
    BY <1>1, <2>2, <2>3, <2>6 DEF Distinct, Held, In, OthersMayUnregister
<1> QED
  BY <1>2, <1>3

(* A visit of the node q of the list the callback has left: ite goes on to *)
(* the next one, and every node up to q has been visited.                  *)
LEMMA Advanced ==
  ASSUME TypeOK, _timer_list' \in Seq(Timers), Distinct', ~undefined,
         pc' = "walk", UNCHANGED _interval, ite \in Timers,
         NEW q \in 1..Len(_timer_list'), _timer_list'[q] = ite,
         NEW P, NEW Q, P = {x \in Timers : Current(x)}, Q = {x \in Timers : Due(x)},
         \A n \in 1..Len(_timer_list') : /\ n < q => _timer_list'[n] \in P
                                         /\ n >= q => _timer_list'[n] \in Q,
         leftsecs' = [leftsecs EXCEPT ![ite] = Left(ite)],
         age' = IF Fires(ite) THEN [age EXCEPT ![ite] = 0] ELSE age,
         ite' = Successor(ite, _timer_list')
  PROVE  /\ Walked'
         /\ leftsecs' \in [Timers -> Nat] /\ age' \in [Timers -> Nat]
         /\ ite' \in Timers \cup {NoTimer}
         /\ ite' # NoTimer => In(ite)'
<1> DEFINE l == _timer_list'
<1>1. Len(l) \in Nat /\ \A n \in 1..Len(l) : l[n] \in Timers
  OBVIOUS
<1>2. Due(ite)
  BY <1>1
<1>3. age[ite] \in Nat /\ leftsecs[ite] \in Nat /\ _interval[ite] \in Nat
  BY Typed
<1>4. Left(ite) \in Nat
  BY <1>2, <1>3 DEF Left, Fires, Due
<1>5. leftsecs' \in [Timers -> Nat] /\ age' \in [Timers -> Nat]
  BY <1>4 DEF TypeOK
<1>6. \A y \in Timers : y # ite => leftsecs'[y] = leftsecs[y] /\ age'[y] = age[y]
  BY DEF TypeOK
<1>7. /\ leftsecs'[ite] = Left(ite)
      /\ age'[ite] = IF Fires(ite) THEN 0 ELSE age[ite]
  BY DEF TypeOK
<1>8. PICK v : v = ite
  OBVIOUS
<1>9. Current(v)'
  BY <1>2, <1>3, <1>7, <1>8 DEF Current, Due, Left, Fires
<1>10. \A y \in Timers : y # v => (y \in P => Current(y)') /\ (y \in Q => Due(y)')
  BY <1>6, <1>8 DEF Current, Due
<1>11. \A m, n \in 1..Len(l) : l[m] = l[n] => m = n
  BY DEF Distinct
<1>12. ASSUME NEW n \in 1..Len(l)
       PROVE  (n <= q => Current(_timer_list[n])') /\ (n > q => Due(_timer_list[n])')
  <2>1. PICK y : y = l[n]
    OBVIOUS
  <2>2. y \in Timers /\ (n < q => y \in P) /\ (n >= q => y \in Q)
    BY <1>1, <2>1
  <2>3. n # q => y # v
    BY <1>8, <1>11, <2>1
  <2>4. n = q => y = v
    BY <1>8, <2>1
  <2>5. (n <= q => Current(y)') /\ (n > q => Due(y)')
    BY <1>9, <1>10, <2>2, <2>3, <2>4
  <2> QED
    BY <2>1, <2>5
<1>13. DOMAIN l = 1..Len(l)
  OBVIOUS
<1>14. Place(ite, l) = q
  <2>1. ite \in ToSet(l)
    BY <1>13 DEF ToSet
  <2>2. PICK i : i = Place(ite, l)
    OBVIOUS
  <2>3. i \in 1..Len(l) /\ l[i] = ite
    BY <2>1, <2>2, PlaceIs
  <2> QED
    BY <1>11, <2>2, <2>3
<1>15. ite' = IF q = Len(l) THEN NoTimer ELSE l[q + 1]
  BY <1>14 DEF Successor
<1>16. CASE q = Len(l)
  <2>1. ite' = NoTimer
    BY <1>15, <1>16
  <2>2. \A n \in 1..Len(l) : Current(_timer_list[n])'
    BY <1>1, <1>12, <1>16
  <2>3. Walked'
    BY <1>1, <2>1, <2>2 DEF Walked
  <2> QED
    BY <1>5, <2>1, <2>3
<1>17. CASE q # Len(l)
  <2>1. q + 1 \in 1..Len(l) /\ ite' = l[q + 1]
    BY <1>1, <1>15, <1>17
  <2>2. ite' \in Timers /\ ite' \in ToSet(l)
    BY <1>1, <1>13, <2>1 DEF ToSet
  <2>3. \A p \in 1..Len(l) : l[p] = ite' => p = q + 1
    BY <1>11, <2>1
  <2>4. \A n \in 1..Len(l) : /\ n < q + 1 => Current(_timer_list[n])'
                             /\ n >= q + 1 => Due(_timer_list[n])'
    BY <1>12
  <2>5. Walked'
    BY <2>2, <2>3, <2>4 DEF Walked
  <2> QED
    BY <1>5, <2>2, <2>5 DEF In
<1> QED
  BY <1>16, <1>17

(* The walk is at ite, and the list the callback leaves has it still.      *)
LEMMA AdvanceStep ==
  ASSUME Inv, pc = "walk", pc' = "walk", ~undefined, UNCHANGED <<_interval, callback, finding>>,
         In(ite), undefined' = FALSE,
         NEW t, t # ite, Rest(_timer_list', t),
         raced' \in BOOLEAN, \A c \in Clients : finding[c] # NoTimer => In(finding[c])' \/ raced',
         leftsecs' = [leftsecs EXCEPT ![ite] = Left(ite)],
         age' = IF Fires(ite) THEN [age EXCEPT ![ite] = 0] ELSE age,
         ite' = Successor(ite, _timer_list')
  PROVE  Inv'
<1> USE DEF Inv
<1> DEFINE P == {x \in Timers : Current(x)}
           Q == {x \in Timers : Due(x)}
           l == _timer_list'
<1>1. Distinct'
  BY RestWalked
<1>2. ite \in Timers
  BY InIs
<1>3. \A p, n \in 1..Len(_timer_list) :
         _timer_list[p] = ite =>
           /\ n < p => _timer_list[n] \in P
           /\ n >= p => _timer_list[n] \in Q
  BY InIs DEF Walked
<1> HIDE DEF P, Q
<1>4. \A p, n \in 1..Len(l) :
         l[p] = ite =>
           /\ n < p => l[n] \in P
           /\ n >= p => l[n] \in Q
  BY <1>3, RestWalked
<1>5. l \in Seq(Timers) /\ ite \in ToSet(l)
  BY DEF Rest, In
<1>6. PICK q \in 1..Len(l) : l[q] = ite
  BY <1>5 DEF ToSet
<1>7. \A n \in 1..Len(l) : (n < q => l[n] \in P) /\ (n >= q => l[n] \in Q)
  BY <1>4, <1>6
<1>8. /\ Walked'
      /\ leftsecs' \in [Timers -> Nat] /\ age' \in [Timers -> Nat]
      /\ ite' \in Timers \cup {NoTimer}
      /\ ite' # NoTimer => In(ite)'
  BY <1>1, <1>2, <1>5, <1>6, <1>7, Advanced DEF P, Q
<1>9. TypeOK'
  BY <1>5, <1>8 DEF TypeOK
<1>10. Held'
  <2>1. \A c \in Clients : finding[c]' # NoTimer => In(finding[c])' \/ raced'
    OBVIOUS
  <2> QED
    BY <1>8, <2>1 DEF Held
<1>11. OthersMayUnregister'
  BY DEF OthersMayUnregister
<1> QED
  BY <1>1, <1>8, <1>9, <1>10, <1>11

LEMMA VisitStep ==
  ASSUME Inv, visit
  PROVE  Inv'
<1> USE DEF Inv
<1>1. /\ ~undefined /\ pc = "walk" /\ ite # NoTimer
      /\ UNCHANGED <<_interval, callback, finding>>
  BY DEF visit
<1>2. CASE ~In(ite)
  <2>1. undefined' = TRUE /\ UNCHANGED <<_timer_list, leftsecs, age, pc, ite, raced>>
    BY <1>2 DEF visit, thread
  <2>2. raced
    BY <1>1, <1>2 DEF Held
  <2>3. TypeOK'
    BY <1>1, <2>1 DEF TypeOK
  <2> QED
    BY <1>1, <2>1, <2>2, <2>3 DEF Distinct, Walked, Held, OthersMayUnregister
<1>3. CASE In(ite) /\ pass
  <2>1. /\ ~Fires(ite) /\ age' = age /\ ite' = Successor(ite, _timer_list')
        /\ UNCHANGED <<_timer_list, pc, undefined, raced>>
    BY <1>3 DEF pass
  <2>2. leftsecs' = [leftsecs EXCEPT ![ite] = Left(ite)]
    BY <1>3 DEF visit
  <2>3. NoTimer # ite /\ ~In(NoTimer)
    BY <1>1, InIs
  <2>4. Rest(_timer_list', NoTimer)
    BY <2>1, <2>3, WithoutIs DEF Without
  <2>5. undefined' = FALSE /\ raced' \in BOOLEAN
    BY <1>1, <2>1 DEF TypeOK
  <2>6. \A c \in Clients : finding[c] # NoTimer => In(finding[c])' \/ raced'
    BY <1>1, <2>1 DEF Held, In
  <2> QED
    BY <1>1, <1>3, <2>1, <2>2, <2>3, <2>4, <2>5, <2>6, AdvanceStep
<1>4. CASE In(ite) /\ call
  <2>1. PICK op : op = callback[ite]
    OBVIOUS
  <2>2. /\ Fires(ite) /\ op[1] # "Register"
        /\ _timer_list' = IF op[1] = "unRegister" THEN Without(op[2]) ELSE _timer_list
        /\ age' = [age EXCEPT ![ite] = 0]
        /\ Write(op[1] = "unRegister" /\ Unregistering(Clients), op = <<"unRegister", ite>>)
        /\ ite' = IF undefined' THEN ite ELSE Successor(ite, _timer_list')
        /\ UNCHANGED pc
    BY <1>4, <2>1 DEF call
  <2>3. leftsecs' = [leftsecs EXCEPT ![ite] = Left(ite)]
    BY <1>4 DEF visit
  <2>4. ite \in Timers /\ op \in Operations
    <3>1. ite \in Timers
      BY <1>4, InIs
    <3>2. callback[ite] \in Operations
      BY <3>1 DEF TypeOK
    <3> QED
      BY <2>1, <3>1, <3>2
  <2>a. /\ undefined' \in BOOLEAN /\ raced' \in BOOLEAN /\ (raced => raced')
        /\ op[1] = "unRegister" /\ Unregistering(Clients) => raced'
        /\ undefined' => op = <<"unRegister", ite>> \/ raced'
        /\ undefined' = FALSE => op # <<"unRegister", ite>>
    <3> DEFINE others == op[1] = "unRegister" /\ Unregistering(Clients)
               gone == op = <<"unRegister", ite>>
    <3>1. others \in BOOLEAN /\ gone \in BOOLEAN /\ Write(others, gone)
      BY <2>2
    <3>2. undefined' = FALSE => ~gone
      BY <3>1 DEF Write
    <3> HIDE DEF others, gone
    <3>3. /\ undefined' \in BOOLEAN /\ raced' \in BOOLEAN
          /\ raced \/ others => raced'
          /\ undefined' => gone \/ raced'
      BY <3>1, WriteIs
    <3> QED
      BY <3>2, <3>3 DEF others, gone
  <2>b. \E t : Rest(_timer_list', t) /\ (undefined' = FALSE => t # ite)
    <3>1. CASE op[1] = "unRegister"
      <4>1. undefined' = FALSE => op[2] # ite
        BY <2>4, <2>a, <3>1 DEF Operations
      <4> QED
        BY <2>2, <3>1, <4>1, WithoutIs
    <3>2. CASE op[1] # "unRegister"
      <4>1. NoTimer # ite /\ ~In(NoTimer)
        BY <1>1, InIs
      <4> QED
        BY <2>2, <3>2, <4>1, WithoutIs DEF Without
    <3> QED
      BY <3>1, <3>2
  <2>c. PICK t : Rest(_timer_list', t) /\ (undefined' = FALSE => t # ite)
    BY <2>b
  <2>5. CASE undefined' = TRUE
    <3>1. ite' = ite
      BY <2>2, <2>5
    <3>2. Distinct'
      BY <2>c, RestWalked
    <3>3. Left(ite) \in Nat
      BY <2>2, <2>4, Typed DEF Left
    <3>4. TypeOK'
      BY <1>1, <2>2, <2>3, <2>4, <2>a, <2>c, <3>1, <3>3 DEF TypeOK, Rest
    <3>5. Walked' /\ OthersMayUnregister'
      BY <1>1, <2>1, <2>5, <2>a, <3>1 DEF Walked, OthersMayUnregister
    <3>6. \A c \in Clients : finding[c] # NoTimer => In(finding[c])' \/ raced'
      BY <1>1, <2>2, <2>a DEF Held, In, Unregistering
    <3>7. Held'
      BY <1>1, <2>5, <3>6 DEF Held
    <3> QED
      BY <3>2, <3>4, <3>5, <3>7
  <2>6. CASE undefined' = FALSE
    <3>1. ite' = Successor(ite, _timer_list') /\ pc' = "walk" /\ t # ite
      BY <1>1, <2>2, <2>6, <2>c
    <3>2. age' = IF Fires(ite) THEN [age EXCEPT ![ite] = 0] ELSE age
      BY <2>2
    <3>3. \A c \in Clients : finding[c] # NoTimer => In(finding[c])' \/ raced'
      BY <1>1, <2>2, <2>a DEF Held, In, Unregistering
    <3> QED
      BY <1>1, <1>4, <2>3, <2>6, <2>a, <2>c, <3>1, <3>2, <3>3, AdvanceStep
  <2> QED
    BY <2>5, <2>6, <2>a
<1>5. CASE In(ite) /\ wait
  <2>1. /\ Fires(ite) /\ pc' = "stuck" /\ leftsecs' = [leftsecs EXCEPT ![ite] = Left(ite)]
        /\ UNCHANGED <<_timer_list, ite, undefined, raced, age>>
    BY <1>5 DEF wait, visit
  <2>2. ite \in Timers
    BY <1>5, InIs
  <2>3. Left(ite) \in Nat
    BY <2>1, <2>2, Typed DEF Left
  <2>4. TypeOK'
    BY <1>1, <2>1, <2>2, <2>3 DEF TypeOK
  <2> QED
    BY <1>1, <2>1, <2>4 DEF Distinct, Walked, Held, In, OthersMayUnregister
<1> QED
  BY <1>2, <1>3, <1>4, <1>5 DEF visit

LEMMA UnlockStep ==
  ASSUME Inv, unlock
  PROVE  Inv'
<1>1. /\ pc = "walk" /\ ite = NoTimer /\ pc' = "sleep"
      /\ UNCHANGED <<_timer_list, _interval, leftsecs, callback, ite, finding, undefined,
                     age, raced>>
  BY DEF unlock, list
<1>2. TypeOK'
  BY <1>1 DEF Inv, TypeOK
<1> QED
  BY <1>1, <1>2 DEF Inv, Distinct, Walked, Current, Held, In, OthersMayUnregister

LEMMA Unchanged ==
  ASSUME Inv, UNCHANGED vars
  PROVE  Inv'
  BY DEF Inv, vars, list, thread, TypeOK, Distinct, Walked, Current, Due, Held, In,
         OthersMayUnregister

LEMMA InvStep == Inv /\ [Next]_vars => Inv'
<1> SUFFICES ASSUME Inv, [Next]_vars PROVE Inv'
  OBVIOUS
<1>1. ASSUME NEW c \in Clients, NEW t \in Timers, NEW n \in Intervals, NEW op \in Operations,
             Register(c, t, n, op)
      PROVE  Inv'
  BY <1>1, RegisterStep
<1>2. ASSUME NEW c \in Clients, NEW t \in Timers, find(c, t) PROVE Inv'
  BY <1>2, FindStep
<1>3. ASSUME NEW c \in Clients, erase(c) PROVE Inv'
  BY <1>3, EraseStep
<1>4. CASE run
  BY <1>4, LockStep, VisitStep, UnlockStep DEF run
<1>5. CASE UNCHANGED vars
  BY <1>5, Unchanged
<1> QED
  BY <1>1, <1>2, <1>3, <1>4, <1>5 DEF Next

LEMMA InvCorrect == Spec => []Inv
<1>1. Init => Inv
  BY InvInit
<1>2. Inv /\ [Next]_vars => Inv'
  BY InvStep
<1> QED
  BY <1>1, <1>2, PTL DEF Spec
-----------------------------------------------------------------------------
(* The state keeps its type.                                               *)
THEOREM TypeCorrect == Spec => []TypeOK
<1>1. Inv => TypeOK
  BY DEF Inv
<1> QED
  BY <1>1, InvCorrect, PTL

(* Between two walks every timer in the list has what is left of its       *)
(* interval, whatever the callbacks and the clients took out of the list   *)
(* under the walk.                                                         *)
THEOREM OnTime == Spec => []FiresOnTime
<1>1. ASSUME Inv PROVE FiresOnTime
  <2>1. CASE pc = "sleep" /\ ~undefined
    <3>1. \A m, n \in 1..Len(_timer_list) : _timer_list[m] = _timer_list[n] => m = n
      BY <1>1 DEF Inv, Distinct
    <3>2. ASSUME NEW t \in ToSet(_timer_list)
          PROVE  age[t] < _interval[t] /\ leftsecs[t] = _interval[t] - age[t]
      <4>1. PICK n \in 1..Len(_timer_list) : _timer_list[n] = t
        BY <1>1, InIs DEF Inv, In
      <4>2. Current(t)
        BY <1>1, <2>1, <4>1 DEF Inv, Walked
      <4> QED
        BY <4>2 DEF Current
    <3> QED
      BY <3>1, <3>2 DEF FiresOnTime
  <2>2. CASE ~(pc = "sleep" /\ ~undefined)
    BY <2>2 DEF FiresOnTime
  <2> QED
    BY <2>1, <2>2
<1> QED
  BY <1>1, InvCorrect, PTL

(* Freed memory is used only where the comment of unRegister allows for    *)
(* it: the list was written while another thread was in it, or a callback  *)
(* took out its own timer.                                                 *)
THEOREM OthersUnregister == Spec => []OthersMayUnregister
<1>1. Inv => OthersMayUnregister
  BY DEF Inv
<1> QED
  BY <1>1, InvCorrect, PTL
==============================================================================
