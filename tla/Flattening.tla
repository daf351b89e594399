----------------------------- MODULE Flattening -----------------------------
(***************************************************************************)
(* Facts about FlattenSeq, by which the worker's hits are lined up rule by *)
(* rule and pattern by pattern, and about FoldLeft, by which the keyword   *)
(* lists are encoded, and the principle of induction they need, stated of  *)
(* a set of natural numbers.                                               *)
(***************************************************************************)
EXTENDS SequencesExt, SequenceTheorems, FiniteSetTheorems, WellFoundedInduction,
        TLAPS

-----------------------------------------------------------------------------
(* Induction.                                                              *)

\* A set of natural numbers that is not empty has a least element.
LEMMA LeastNatural ==
  ASSUME NEW T \in SUBSET Nat, T # {}
  PROVE  \E n \in T : \A m \in T : n <= m
<1> DEFINE R == {ss \in Nat \X Nat : ss[1] < ss[2]}
<1>1. IsWellFoundedOn(R, Nat)
  BY NatLessThanWellFounded DEF OpToRel
<1>2. PICK n \in T : \A m \in T : <<m, n>> \notin R
  BY <1>1, WFMin
<1>3. \A m \in T : m \in Nat /\ n \in Nat /\ (m < n => <<m, n>> \in R)
  OBVIOUS
<1> HIDE DEF R
<1>4. \A m \in T : ~(m < n)
  BY <1>2, <1>3
<1>5. \A m \in T : n <= m
  BY <1>3, <1>4
<1> QED
  BY <1>5

\* A set with 0 that has the successor of each of its elements, up to N, has
\* every number up to N.
LEMMA SetInduction ==
  ASSUME NEW N \in Nat, NEW S,
         0 \in S,
         \A n \in 0..(N - 1) : n \in S => n + 1 \in S
  PROVE  \A n \in 0..N : n \in S
<1> DEFINE T == {n \in 0..N : n \notin S}
<1> SUFFICES ASSUME T # {} PROVE FALSE
  OBVIOUS
<1>1. PICK n \in T : \A m \in T : n <= m
  <2>1. T \in SUBSET Nat
    OBVIOUS
  <2> QED
    BY <2>1, LeastNatural
<1>2. n \in 1..N /\ n - 1 \in 0..(N - 1) /\ n - 1 \notin T
  BY <1>1
<1>3. n - 1 \in S
  BY <1>2
<1>4. (n - 1) + 1 \in S
  BY <1>2, <1>3
<1> QED
  BY <1>1, <1>2, <1>4

-----------------------------------------------------------------------------
(* FlattenSeq.                                                             *)

\* A function over 1..n is a sequence of length n.
LEMMA FunctionIsSeq ==
  ASSUME NEW S, NEW n \in Nat, NEW f \in [1..n -> S]
  PROVE  f \in Seq(S) /\ Len(f) = n
<1>1. f \in Seq(S)
  BY SeqDef
<1> QED
  BY <1>1

\* f[i] is the flattening of the first i sequences of ss.
Flattens(f, ss, n) ==
  f = [i \in 1..n |-> IF i = 1 THEN ss[i] ELSE f[i - 1] \o ss[i]]

\* There is such an f.
LEMMA FlattensExists ==
  ASSUME NEW ss, NEW N \in Nat
  PROVE  \E f : Flattens(f, ss, N)
<1> DEFINE S == {n \in Nat : \E f : Flattens(f, ss, n)}
<1>1. 0 \in S
  <2> DEFINE f == [i \in 1..0 |-> ss[i]]
  <2>1. Flattens(f, ss, 0)
    BY DEF Flattens
  <2> QED
    BY <2>1
<1>2. ASSUME NEW n \in 0..(N - 1), n \in S
      PROVE  n + 1 \in S
  <2>1. PICK f : Flattens(f, ss, n)
    BY <1>2
  <2> DEFINE g == [i \in 1..(n + 1) |->
                     IF i = n + 1
                     THEN IF i = 1 THEN ss[i] ELSE f[i - 1] \o ss[i]
                     ELSE f[i]]
  <2>2. \A i \in 1..n : f[i] = IF i = 1 THEN ss[i] ELSE f[i - 1] \o ss[i]
    BY <2>1 DEF Flattens
  <2>3. ASSUME NEW i \in 1..(n + 1)
        PROVE  g[i] = IF i = 1 THEN ss[i] ELSE g[i - 1] \o ss[i]
    <3>1. CASE i = n + 1
      <4>1. i # 1 => i - 1 \in 1..(n + 1) /\ i - 1 # n + 1
        BY <3>1
      <4> QED
        BY <3>1, <4>1
    <3>2. CASE i # n + 1
      <4>1. i \in 1..n /\ (i # 1 => i - 1 \in 1..(n + 1) /\ i - 1 # n + 1)
        BY <3>2
      <4> QED
        BY <2>2, <3>2, <4>1
    <3> QED
      BY <3>1, <3>2
  <2>4. g = [i \in 1..(n + 1) |-> IF i = 1 THEN ss[i] ELSE g[i - 1] \o ss[i]]
    <3> DEFINE h == [i \in 1..(n + 1) |-> IF i = 1 THEN ss[i] ELSE g[i - 1] \o ss[i]]
    <3>1. \A i \in 1..(n + 1) : g[i] = h[i]
      BY <2>3
    <3> QED
      BY <3>1
  <2>5. Flattens(g, ss, n + 1)
    BY <2>4, Zenon DEF Flattens
  <2> QED
    BY <2>5
<1>3. \A n \in 0..N : n \in S
  <2> HIDE DEF S
  <2> QED
    BY <1>1, <1>2, SetInduction
<1> QED
  BY <1>3

\* FlattenSeq of a sequence that is not empty is the last of the flattenings of
\* its prefixes.
LEMMA FlattenSeqIs ==
  ASSUME NEW ss, Len(ss) \in Nat \ {0}
  PROVE  \E f : Flattens(f, ss, Len(ss)) /\ FlattenSeq(ss) = f[Len(ss)]
<1> DEFINE f == CHOOSE f : f = [i \in 1..Len(ss) |->
                                  IF i = 1 THEN ss[i] ELSE f[i - 1] \o ss[i]]
<1>1. \E g : g = [i \in 1..Len(ss) |-> IF i = 1 THEN ss[i] ELSE g[i - 1] \o ss[i]]
  BY FlattensExists, Zenon DEF Flattens
<1>2. f = [i \in 1..Len(ss) |-> IF i = 1 THEN ss[i] ELSE f[i - 1] \o ss[i]]
  BY <1>1, Zenon
<1>3. FlattenSeq(ss) = f[Len(ss)]
  BY DEF FlattenSeq
<1> QED
  BY <1>2, <1>3, Zenon DEF Flattens

\* FlattenSeq by way of the prefixes: a sequence of sequences over S flattens to
\* a sequence over S, one piece at a time.
LEMMA FlattenByPrefix ==
  ASSUME NEW S, NEW ss \in Seq(Seq(S))
  PROVE  \E F \in [0..Len(ss) -> Seq(S)] :
           /\ F[0] = <<>>
           /\ \A i \in 1..Len(ss) : F[i] = F[i - 1] \o ss[i]
           /\ FlattenSeq(ss) = F[Len(ss)]
<1> DEFINE N == Len(ss)
<1>1. N \in Nat /\ \A i \in 1..N : ss[i] \in Seq(S)
  OBVIOUS
<1>2. CASE N = 0
  <2> DEFINE F == [i \in 0..N |-> <<>>]
  <2>1. ss = <<>> /\ FlattenSeq(ss) = <<>>
    BY <1>2 DEF FlattenSeq
  <2>2. F \in [0..N -> Seq(S)] /\ F[0] = <<>> /\ F[N] = <<>>
    BY <1>2
  <2>3. \A i \in 1..N : F[i] = F[i - 1] \o ss[i]
    BY <1>2
  <2> HIDE DEF F
  <2> QED
    BY <2>1, <2>2, <2>3
<1>3. CASE N # 0
  <2>1. PICK f : Flattens(f, ss, N) /\ FlattenSeq(ss) = f[N]
    BY <1>1, <1>3, FlattenSeqIs
  <2>2. \A i \in 1..N : f[i] = IF i = 1 THEN ss[i] ELSE f[i - 1] \o ss[i]
    BY <2>1 DEF Flattens
  <2> DEFINE F == [i \in 0..N |-> IF i = 0 THEN <<>> ELSE f[i]]
             P == {i \in Nat : F[i] \in Seq(S)}
  <2>3. F[0] = <<>>
    BY <1>1
  <2>4. ASSUME NEW i \in 0..(N - 1), F[i] \in Seq(S)
        PROVE  F[i + 1] = F[i] \o ss[i + 1] /\ F[i + 1] \in Seq(S)
    <3>1. i + 1 \in 1..N /\ i \in 0..N /\ i + 1 \in 0..N /\ ss[i + 1] \in Seq(S)
      BY <1>1
    <3>2. F[i + 1] = f[i + 1]
      BY <3>1
    <3>3. CASE i = 0
      <4>1. F[i + 1] = ss[i + 1] /\ F[i] = <<>>
        BY <2>2, <2>3, <3>1, <3>2, <3>3
      <4> HIDE DEF F
      <4> QED
        BY <3>1, <4>1, ConcatEmptySeq
    <3>4. CASE i # 0
      <4>0. F[i] = f[i]
        BY <3>1, <3>4, Zenon
      <4>1. F[i] = f[i] /\ i + 1 # 1 /\ (i + 1) - 1 = i
        <5> HIDE DEF F
        <5> QED
          BY <1>1, <3>1, <3>4, <4>0
      <4>2. F[i + 1] = F[i] \o ss[i + 1]
        BY <2>2, <3>1, <3>2, <4>1
      <4> HIDE DEF F
      <4> QED
        BY <2>4, <3>1, <4>2, ConcatProperties
    <3> QED
      BY <3>3, <3>4
  <2>5. \A i \in 0..N : F[i] \in Seq(S)
    <3>1. 0 \in P
      BY <2>3
    <3> HIDE DEF F
    <3>2. ASSUME NEW i \in 0..(N - 1), i \in P PROVE i + 1 \in P
      <4>1. F[i] \in Seq(S) /\ i + 1 \in Nat
        BY <1>1, <3>2
      <4>2. F[i + 1] \in Seq(S)
        BY <2>4, <4>1
      <4> QED
        BY <4>1, <4>2
    <3> HIDE DEF P
    <3>3. \A i \in 0..N : i \in P
      BY <1>1, <3>1, <3>2, SetInduction
    <3> QED
      BY <3>3 DEF P
  <2>6. \A i \in 1..N : F[i] = F[i - 1] \o ss[i]
    <3> TAKE i \in 1..N
    <3>1. i - 1 \in 0..(N - 1) /\ (i - 1) + 1 = i /\ i - 1 \in 0..N
      BY <1>1
    <3> HIDE DEF F
    <3> QED
      BY <2>4, <2>5, <3>1
  <2>7. F \in [0..N -> Seq(S)] /\ FlattenSeq(ss) = F[N]
    <3>1. N \in 0..N
      BY <1>1
    <3>2. F = [i \in 0..N |-> F[i]]
      OBVIOUS
    <3>3. FlattenSeq(ss) = F[N]
      BY <1>3, <2>1, <3>1
    <3> HIDE DEF F
    <3> QED
      BY <2>5, <3>2, <3>3
  <2> HIDE DEF F
  <2> QED
    BY <2>3, <2>6, <2>7
<1> QED
  BY <1>2, <1>3

\* A sequence of sequences over S flattens to a sequence over S.
LEMMA FlattenType ==
  ASSUME NEW S, NEW ss \in Seq(Seq(S))
  PROVE  FlattenSeq(ss) \in Seq(S)
<1>1. PICK F \in [0..Len(ss) -> Seq(S)] : FlattenSeq(ss) = F[Len(ss)]
  BY FlattenByPrefix
<1>2. Len(ss) \in 0..Len(ss)
  OBVIOUS
<1> QED
  BY <1>1, <1>2

-----------------------------------------------------------------------------
(* FoldLeft, which is a recursion over the sets of places of a sequence.   *)

\* A subsequence that goes one place further has one element more.
LEMMA SubSeqMore ==
  ASSUME NEW S, NEW s \in Seq(S), NEW n \in 0..(Len(s) - 1), NEW m \in 1..(n + 1)
  PROVE  SubSeq(s, m, n + 1) = Append(SubSeq(s, m, n), s[n + 1])
<1> DEFINE long == SubSeq(s, m, n + 1)
           short == SubSeq(s, m, n)
<1>1. /\ long \in Seq(S) /\ Len(long) = n + 2 - m
      /\ \A i \in 1..(n + 2 - m) : long[i] = s[m + i - 1]
  BY SMTT(30)
<1>2. /\ short \in Seq(S) /\ Len(short) = n + 1 - m
      /\ \A i \in 1..(n + 1 - m) : short[i] = s[m + i - 1]
  OBVIOUS
<1>3. s[n + 1] \in S /\ m + (n + 2 - m) - 1 = n + 1
  OBVIOUS
<1> HIDE DEF long, short
<1>4. \A i \in 1..(n + 2 - m) : i \in 1..(n + 1 - m) \/ i = n + 2 - m
  OBVIOUS
<1>5. \A i \in 1..(n + 2 - m) : long[i] = Append(short, s[n + 1])[i]
  BY <1>1, <1>2, <1>3, <1>4, SMTT(30)
<1>6. long = Append(short, s[n + 1])
  <2> DEFINE more == Append(short, s[n + 1])
  <2>1. more \in Seq(S) /\ Len(more) = n + 2 - m
    <3>1. short \in Seq(S) /\ s[n + 1] \in S
      BY <1>2, <1>3, Zenon
    <3>2. more \in Seq(S) /\ Len(more) = Len(short) + 1
      BY <3>1, AppendProperties, Zenon
    <3>3. Len(short) + 1 = n + 2 - m
      BY <1>2
    <3> QED
      BY <3>2, <3>3, Zenon
  <2>2. n + 2 - m \in Nat
    OBVIOUS
  <2>3. \A i \in 1..(n + 2 - m) : long[i] = more[i]
    BY <1>5, Zenon
  <2> HIDE DEF more
  <2>4. long = more
    BY <1>1, <2>1, <2>2, <2>3
  <2> QED
    BY <2>4 DEF more
<1> QED
  BY <1>6 DEF long, short

\* f[S] is what comes of taking step, from base on, with each element of s at a
\* place of S, from the first to the last.
IsFold(f, A, base, step, s) ==
  /\ f \in [SUBSET (1..Len(s)) -> A]
  /\ \A S \in SUBSET (1..Len(s)) :
       f[S] = IF S = {} THEN base ELSE step[<<f[S \ {Max(S)}], s[Max(S)]>>]

\* A step taken on from a value of A by one of C leads to one of A again, through
\* all of a sequence: so that the fold over the subsets of its places exists.
LEMMA FoldExists ==
  ASSUME NEW A, NEW base \in A, NEW C, NEW step \in [A \X C -> A], NEW s \in Seq(C)
  PROVE  \E f : IsFold(f, A, base, step, s)
<1> DEFINE N == Len(s)
           Folds(f, n) ==
             /\ f \in [SUBSET (1..n) -> A]
             /\ \A S \in SUBSET (1..n) :
                  f[S] = IF S = {} THEN base ELSE step[<<f[S \ {Max(S)}], s[Max(S)]>>]
           P == {n \in Nat : \E f : Folds(f, n)}
<1>1. 0 \in P
  <2> DEFINE f == [S \in SUBSET (1..0) |-> base]
  <2>1. 1..0 = {}
    OBVIOUS
  <2>2. Folds(f, 0)
    BY <2>1
  <2> QED
    BY <2>2
<1>2. ASSUME NEW n \in 0..(N - 1), n \in P
      PROVE  n + 1 \in P
  <2>1. PICK f : Folds(f, n)
    BY <1>2
  <2> DEFINE g == [S \in SUBSET (1..(n + 1)) |->
                     IF n + 1 \in S THEN step[<<f[S \ {n + 1}], s[n + 1]>>] ELSE f[S]]
  <2>2. s[n + 1] \in C /\ N \in Nat /\ n \in Nat /\ n + 1 \notin 1..n
    OBVIOUS
  <2>3. ASSUME NEW S \in SUBSET (1..(n + 1)), n + 1 \in S
        PROVE  /\ g[S] = step[<<g[S \ {Max(S)}], s[Max(S)]>>]
               /\ g[S] \in A /\ S # {}
    <3>1. Max(S) = n + 1
      <4>1. \A y \in S : n + 1 >= y
        BY <2>3
      <4>2. \A x \in S : (\A y \in S : x >= y) => x = n + 1
        BY <2>3
      <4> QED
        BY <2>3, <4>1, <4>2 DEF Max
    <3>2. S \ {n + 1} \in SUBSET (1..n) /\ S \ {n + 1} \in SUBSET (1..(n + 1))
      BY <2>2, <2>3
    <3>3. f[S \ {n + 1}] \in A
      BY <2>1, <3>2
    <3>4. g[S] = step[<<f[S \ {n + 1}], s[n + 1]>>]
      BY <2>3
    <3>5. g[S \ {n + 1}] = f[S \ {n + 1}]
      BY <3>2
    <3> HIDE DEF g
    <3> QED
      BY <2>2, <2>3, <3>1, <3>3, <3>4, <3>5
  <2>4. ASSUME NEW S \in SUBSET (1..(n + 1)), n + 1 \notin S
        PROVE  /\ g[S] = IF S = {} THEN base ELSE step[<<g[S \ {Max(S)}], s[Max(S)]>>]
               /\ g[S] \in A
    <3>1. S \in SUBSET (1..n) /\ S \ {Max(S)} \in SUBSET (1..n)
      <4>1. \A x \in 1..(n + 1) : x # n + 1 => x \in 1..n
        BY <2>2
      <4> QED
        BY <2>4, <4>1
    <3>2. S \ {Max(S)} \in SUBSET (1..(n + 1)) /\ n + 1 \notin S \ {Max(S)}
      BY <2>4
    <3>3. g[S] = f[S] /\ g[S \ {Max(S)}] = f[S \ {Max(S)}]
      BY <2>4, <3>2
    <3> HIDE DEF g
    <3> QED
      BY <2>1, <3>1, <3>3
  <2>5. g \in [SUBSET (1..(n + 1)) -> A]
    <3>1. \A S \in SUBSET (1..(n + 1)) : g[S] \in A
      BY <2>3, <2>4
    <3> QED
      BY <3>1
  <2>6. Folds(g, n + 1)
    <3> HIDE DEF g
    <3> QED
      BY <2>3, <2>4, <2>5
  <2>7. \E h : Folds(h, n + 1)
    <3> HIDE DEF g, Folds
    <3> QED
      BY <2>6
  <2> HIDE DEF g, Folds
  <2> QED
    BY <2>2, <2>7
<1>3. N \in 0..N /\ N \in Nat
  OBVIOUS
<1>4. \A n \in 0..N : n \in P
  <2> HIDE DEF P
  <2> QED
    BY <1>1, <1>2, <1>3, SetInduction
<1>5. \E f : Folds(f, N)
  BY <1>3, <1>4
<1> QED
  BY <1>5 DEF IsFold

\* The places of a sequence up to the nth, without the last of them.
LEMMA LastPlace ==
  ASSUME NEW n \in Nat \ {0}
  PROVE  1..n # {} /\ Max(1..n) = n /\ (1..n) \ {n} = 1..(n - 1)
<1>1. \A x \in 1..n : (\A y \in 1..n : x >= y) => x = n
  OBVIOUS
<1>2. n \in 1..n /\ \A y \in 1..n : n >= y
  OBVIOUS
<1>3. Max(1..n) = n
  BY <1>1, <1>2, Zenon DEF Max
<1> QED
  BY <1>3

\* A set of places of a sequence has a first and a last place.
LEMMA FirstAndLast ==
  ASSUME NEW n \in Nat, NEW S \in SUBSET (1..n), S # {}
  PROVE  /\ Max(S) \in S /\ \A y \in S : y <= Max(S)
         /\ Min(S) \in S /\ \A y \in S : Min(S) <= y
<1>1. \E x \in S : \A y \in S : x <= y
  BY LeastNatural
<1>2. \E x \in S : \A y \in S : x >= y
  <2> DEFINE Over == {m \in 0..n : \A y \in S : y <= m}
  <2>1. n \in Over /\ Over \in SUBSET Nat
    OBVIOUS
  <2>2. PICK m \in Over : \A k \in Over : m <= k
    BY <2>1, LeastNatural
  <2>3. m \in S
    <3> SUFFICES ASSUME m \notin S PROVE FALSE
      OBVIOUS
    <3>1. \A y \in S : y <= m - 1 /\ y >= 1
      OBVIOUS
    <3>2. m - 1 \in 0..n
      <4>1. PICK y \in S : TRUE
        OBVIOUS
      <4> QED
        BY <3>1, <4>1
    <3>3. m - 1 \in Over
      BY <3>1, <3>2
    <3> QED
      BY <2>2, <3>3
  <2> QED
    BY <2>3
<1>3. Min(S) \in S /\ \A y \in S : Min(S) <= y
  BY <1>1 DEF Min
<1>4. Max(S) \in S /\ \A y \in S : Max(S) >= y
  BY <1>2 DEF Max
<1> QED
  BY <1>3, <1>4

-----------------------------------------------------------------------------
(* Ranks.                                                                  *)

\* Two sets apart from each other have their sizes for the size of both.
LEMMA DisjointUnion ==
  ASSUME NEW S, NEW T, IsFiniteSet(S), IsFiniteSet(T), S \cap T = {}
  PROVE  /\ IsFiniteSet(S \cup T)
         /\ Cardinality(S \cup T) = Cardinality(S) + Cardinality(T)
<1>1. Cardinality(S) \in Nat /\ Cardinality(T) \in Nat /\ Cardinality({}) = 0
  BY FS_CardinalityType, FS_EmptySet
<1>2. Cardinality(S \cup T) = Cardinality(S) + Cardinality(T) - Cardinality(S \cap T)
  BY FS_Union
<1>3. Cardinality(S \cap T) = 0
  BY <1>1
<1> QED
  BY <1>1, <1>2, <1>3, FS_Union

\* seq has one element for each key of H, in the order of the keys: the element
\* at place n is that of a key with n - 1 keys of H before it.
InRanks(seq, H, Before, Fits) ==
  /\ Len(seq) = Cardinality(H)
  /\ \A n \in 1..Len(seq) :
       \E h \in H :
         /\ <<h, seq[n]>> \in Fits
         /\ Cardinality({g \in H : <<g, h>> \in Before}) = n - 1

\* The sequences ss are the pieces of such a sequence: each has one element for
\* each of its keys in their order, and the keys of earlier pieces come before
\* those of later.
Ranked(ss, H, piece, Before, Fits) ==
  /\ IsFiniteSet(H)
  /\ piece \in [H -> 1..Len(ss)]
  /\ \A i \in 1..Len(ss) :
       InRanks(ss[i], {h \in H : piece[h] = i}, Before, Fits)
  /\ \A g, h \in H :
       /\ piece[g] < piece[h] => <<g, h>> \in Before
       /\ piece[g] > piece[h] => <<g, h>> \notin Before

\* Flattened, they have one element for each key, in the order of the keys.
LEMMA RankedFlatten ==
  ASSUME NEW S, NEW ss \in Seq(Seq(S)), NEW H, NEW piece, NEW Before, NEW Fits,
         Ranked(ss, H, piece, Before, Fits)
  PROVE  InRanks(FlattenSeq(ss), H, Before, Fits)
<1> DEFINE N == Len(ss)
           Upto(i) == {h \in H : piece[h] <= i}
           In(i) == {h \in H : piece[h] = i}
<1>1. PICK F \in [0..N -> Seq(S)] :
        /\ F[0] = <<>>
        /\ \A i \in 1..N : F[i] = F[i - 1] \o ss[i]
        /\ FlattenSeq(ss) = F[N]
  BY FlattenByPrefix
<1>2. N \in Nat /\ \A i \in 1..N : ss[i] \in Seq(S) /\ Len(ss[i]) \in Nat
  OBVIOUS
<1>3. \A h \in H : piece[h] \in 1..N
  BY DEF Ranked
<1>4. \A T \in SUBSET H : IsFiniteSet(T) /\ Cardinality(T) \in Nat
  BY FS_Subset, FS_CardinalityType DEF Ranked
<1> DEFINE Right(i) ==
             /\ Len(F[i]) = Cardinality(Upto(i))
             /\ \A n \in 1..Len(F[i]) :
                  \E h \in H :
                    /\ <<h, F[i][n]>> \in Fits
                    /\ Cardinality({g \in H : <<g, h>> \in Before}) = n - 1
           P == {i \in Nat : Right(i)}
<1>5. Right(0)
  <2>1. Cardinality(Upto(0)) = 0
    <3>1. Upto(0) = {}
      BY <1>3
    <3> QED
      BY <3>1, FS_EmptySet
  <2>2. Len(F[0]) = 0 /\ 1..Len(F[0]) = {}
    BY <1>1
  <2> QED
    BY <2>1, <2>2
<1>6. ASSUME NEW i \in 0..(N - 1), Right(i)
      PROVE  Right(i + 1)
  <2>1. /\ i + 1 \in 1..N /\ i \in 0..N /\ i + 1 \in 0..N /\ (i + 1) - 1 = i
        /\ ss[i + 1] \in Seq(S) /\ F[i] \in Seq(S) /\ F[i + 1] \in Seq(S)
    <3>1. i + 1 \in 1..N /\ i \in 0..N /\ i + 1 \in 0..N /\ (i + 1) - 1 = i
      BY <1>2
    <3> QED
      BY <1>1, <1>2, <3>1
  <2>2. F[i + 1] = F[i] \o ss[i + 1]
    BY <1>1, <2>1
  <2>3. /\ Len(F[i]) \in Nat /\ Len(ss[i + 1]) \in Nat
        /\ Len(F[i + 1]) = Len(F[i]) + Len(ss[i + 1])
        /\ \A n \in 1..Len(F[i + 1]) :
             F[i + 1][n] = IF n <= Len(F[i]) THEN F[i][n]
                           ELSE ss[i + 1][n - Len(F[i])]
    BY <2>1, <2>2, ConcatProperties
  <2>4. Upto(i + 1) = Upto(i) \cup In(i + 1) /\ Upto(i) \cap In(i + 1) = {}
    BY <1>3, <2>1, SMTT(30)
  <2>5. Cardinality(Upto(i + 1)) = Cardinality(Upto(i)) + Cardinality(In(i + 1))
    BY <1>4, <2>4, DisjointUnion
  <2>6. Len(F[i + 1]) = Cardinality(Upto(i + 1))
    BY <1>6, <2>1, <2>3, <2>5 DEF Ranked, InRanks
  <2>7. ASSUME NEW n \in 1..Len(F[i + 1])
        PROVE  \E h \in H :
                 /\ <<h, F[i + 1][n]>> \in Fits
                 /\ Cardinality({g \in H : <<g, h>> \in Before}) = n - 1
    <3> DEFINE L == Len(F[i])
               M == Len(ss[i + 1])
    <3>0. /\ n \in Nat \ {0} /\ n <= L + M /\ L \in Nat /\ M \in Nat
          /\ F[i + 1][n] = IF n <= L THEN F[i][n] ELSE ss[i + 1][n - L]
      <4>1. L \in Nat /\ M \in Nat /\ Len(F[i + 1]) = L + M
        BY <2>3
      <4>2. F[i + 1][n] = IF n <= L THEN F[i][n] ELSE ss[i + 1][n - L]
        BY <2>3, Zenon
      <4>3. n \in 1..(L + M)
        BY <4>1, Zenon
      <4> HIDE DEF L, M
      <4> QED
        BY <4>1, <4>2, <4>3
    <3> HIDE DEF L, M
    <3>1. CASE n <= Len(F[i])
      <4>1. n \in 1..L /\ F[i + 1][n] = F[i][n]
        BY <3>0, <3>1 DEF L
      <4> QED
        BY <1>6, <4>1 DEF L
    <3>2. CASE n > Len(F[i])
      <4> DEFINE k == n - L
      <4>1. k \in 1..M /\ F[i + 1][n] = ss[i + 1][k]
        BY <3>0, <3>2 DEF L
      <4>2. PICK h \in In(i + 1) :
              /\ <<h, ss[i + 1][k]>> \in Fits
              /\ Cardinality({g \in In(i + 1) : <<g, h>> \in Before}) = k - 1
        BY <2>1, <4>1 DEF Ranked, InRanks, M
      <4> DEFINE Own == {g \in In(i + 1) : <<g, h>> \in Before}
      <4>3. {g \in H : <<g, h>> \in Before} = Upto(i) \cup Own
        <5>1. ASSUME NEW g \in H
              PROVE  <<g, h>> \in Before <=>
                       piece[g] <= i \/ (piece[g] = i + 1 /\ <<g, h>> \in Before)
          <6>1. piece[g] \in Nat
            BY <1>3
          <6>2. /\ piece[g] < i + 1 => <<g, h>> \in Before
                /\ piece[g] > i + 1 => <<g, h>> \notin Before
            BY <4>2 DEF Ranked
          <6> QED
            BY <2>1, <6>1, <6>2, SMTT(30)
        <5> QED
          BY <5>1
      <4>4. Upto(i) \cap Own = {}
        BY <1>3, <2>1, SMTT(30)
      <4>5. Cardinality({g \in H : <<g, h>> \in Before})
              = Cardinality(Upto(i)) + Cardinality(Own)
        BY <1>4, <4>3, <4>4, DisjointUnion
      <4>6. Cardinality({g \in H : <<g, h>> \in Before}) = n - 1
        BY <1>6, <3>0, <4>2, <4>5 DEF L
      <4> QED
        BY <4>1, <4>2, <4>6
    <3>3. n <= Len(F[i]) \/ n > Len(F[i])
      BY <3>0 DEF L
    <3> QED
      BY <3>1, <3>2, <3>3
  <2> QED
    BY <2>6, <2>7
<1>7. Right(N)
  <2>1. 0 \in P
    BY <1>5
  <2>2. \A i \in 0..(N - 1) : i \in P => i + 1 \in P
    <3> HIDE DEF Right
    <3> QED
      BY <1>2, <1>6
  <2> HIDE DEF P
  <2>3. N \in P
    <3>1. \A i \in 0..N : i \in P
      BY <1>2, <2>1, <2>2, SetInduction
    <3> QED
      BY <1>2, <3>1
  <2> QED
    BY <2>3 DEF P
<1>8. Upto(N) = H
  BY <1>2, <1>3
<1> QED
  BY <1>1, <1>7, <1>8 DEF InRanks

=============================================================================
