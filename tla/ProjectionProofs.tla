---------------------------- MODULE ProjectionProofs ----------------------------
(* A projection reports what it did, and the records of a question say what   *)
(* was done.  The records: each process has done what the record it is about  *)
(* to write says (InHand), so it may be written by whoever comes last.        *)
(*                                                                            *)
(* The projection: what a fact is worth is carried from round to round, and   *)
(* is what scanning the whole context gives; the context only grows, so what  *)
(* did not fit never fits again; and the best of a round is there, for the    *)
(* candidates are finitely many and Before orders them.                       *)
EXTENDS Projection, FiniteSetTheorems, SequenceTheorems, WellFoundedInduction, TLAPS

-----------------------------------------------------------------------------
(* Induction, over numbers and finite sets *)

\* Some sets of subsets of a finite set have a smallest member.
LEMMA SmallestSubset ==
    ASSUME NEW S, IsFiniteSet(S), NEW T \in SUBSET SUBSET S, T # {}
    PROVE  \E X \in T : \A Y \in T : Y \subseteq X => Y = X
<1>1. IsWellFoundedOn(StrictSubsetOrdering(S), SUBSET S)
  BY FS_StrictSubsetOrderingWellFounded, FS_FiniteSubsetsOfFinite
<1>2. PICK X \in T : \A Y \in T : ~(<<Y, X>> \in StrictSubsetOrdering(S))
  BY <1>1, WFMin
<1> QED
  BY <1>2 DEF StrictSubsetOrdering

\* Some numbers have a least one.
LEMMA LeastNumber ==
    ASSUME NEW S \in SUBSET Nat, S # {}
    PROVE  \E m \in S : \A y \in S : m <= y
<1>1. PICK k \in S : TRUE
  OBVIOUS
<1> DEFINE D == {x \in S : x <= k}
<1> DEFINE T == {0..y : y \in D}
<1>2. IsFiniteSet(0..k)
  BY FS_Interval
<1>3. T \in SUBSET SUBSET (0..k) /\ T # {}
  <2>1. \A y \in D : 0..y \in SUBSET (0..k)
    OBVIOUS
  <2>2. k \in D
    OBVIOUS
  <2> QED
    BY <2>1, <2>2, Zenon
<1>4. PICK X \in T : \A Y \in T : Y \subseteq X => Y = X
  <2> DEFINE I == 0..k
  <2>1. IsFiniteSet(I) /\ T \in SUBSET SUBSET I /\ T # {}
    BY <1>2, <1>3
  <2> HIDE DEF T, I
  <2> QED
    BY <2>1, SmallestSubset
<1>5. PICK m \in D : X = 0..m
  OBVIOUS
<1>6. ASSUME NEW y \in S, ~(m <= y) PROVE FALSE
  <2>1. y \in D
    BY <1>5, <1>6
  <2>2. 0..y \in T /\ 0..y \subseteq X /\ m \in X /\ m \notin 0..y
    BY <1>5, <1>6, <2>1
  <2> QED
    BY <1>4, <2>2
<1> QED
  BY <1>5, <1>6

\* What holds of 0, and of the next of each number it holds of, holds of all.
LEMMA AllNumbers ==
  ASSUME NEW S \in SUBSET Nat, 0 \in S, \A n \in S : n + 1 \in S
  PROVE  S = Nat
<1> SUFFICES ASSUME Nat \ S # {} PROVE FALSE
  OBVIOUS
<1>1. PICK m \in Nat \ S : \A y \in Nat \ S : m <= y
  <2> DEFINE T == Nat \ S
  <2>1. T \in SUBSET Nat /\ T # {}
    OBVIOUS
  <2> HIDE DEF T
  <2>2. \E m \in T : \A y \in T : m <= y
    BY <2>1, LeastNumber
  <2> QED
    BY <2>2 DEF T
<1>2. m # 0 /\ m - 1 \in Nat
  BY <1>1
<1>3. m - 1 \in S
  BY <1>1, <1>2
<1> QED
  BY <1>1, <1>3

\* A walk of N steps, each made of the one before it.
Walk(w, N, D, start, step) ==
    /\ w \in [0..N -> D] /\ w[0] = start
    /\ \A k \in 1..N : w[k] = step[k][w[k - 1]]

LEMMA WalkExists ==
    ASSUME NEW N \in Nat, NEW D, NEW start \in D, NEW step \in [1..N -> [D -> D]]
    PROVE  \E w : Walk(w, N, D, start, step)
<1> DEFINE Part(w, n) == /\ w \in [0..n -> D] /\ w[0] = start
                         /\ \A k \in 1..n : w[k] = step[k][w[k - 1]]
           S == {n \in Nat : n <= N => \E w : Part(w, n)}
<1>1. 0 \in S
  <2> DEFINE w == [k \in 0..0 |-> start]
  <2>1. Part(w, 0)
    OBVIOUS
  <2> QED
    BY <2>1
<1>2. ASSUME NEW n \in S PROVE n + 1 \in S
  <2> SUFFICES ASSUME n + 1 <= N PROVE \E w : Part(w, n + 1)
    OBVIOUS
  <2>1. PICK w : Part(w, n)
    OBVIOUS
  <2> DEFINE more == step[n + 1][w[n]]
             longer == [k \in 0..(n + 1) |-> IF k <= n THEN w[k] ELSE more]
  <2>2. n \in Nat /\ n + 1 \in 1..N /\ w[n] \in D /\ more \in D
    BY <2>1
  <2>3. longer \in [0..(n + 1) -> D] /\ longer[0] = start
    BY <2>1, <2>2
  <2>4. ASSUME NEW k \in 1..(n + 1) PROVE longer[k] = step[k][longer[k - 1]]
    <3>1. CASE k <= n
      <4>1. k \in 1..n /\ longer[k] = w[k] /\ longer[k - 1] = w[k - 1]
        BY <2>2, <3>1
      <4>2. w[k] = step[k][w[k - 1]]
        BY <2>1, <4>1
      <4> QED
        BY <4>1, <4>2
    <3>2. CASE ~(k <= n)
      <4>1. k = n + 1 /\ k - 1 = n
        BY <2>2, <3>2
      <4>2. longer[k] = more /\ longer[k - 1] = w[n]
        BY <2>2, <4>1
      <4> QED
        BY <4>1, <4>2
    <3> QED
      BY <3>1, <3>2
  <2>5. Part(longer, n + 1)
    BY <2>3, <2>4
  <2> QED
    BY <2>5
<1> HIDE DEF S
<1>3. S = Nat
  <2>1. S \in SUBSET Nat
    BY DEF S
  <2> QED
    BY <1>1, <1>2, <2>1, AllNumbers
<1>4. \E w : Part(w, N)
  BY <1>3 DEF S
<1> QED
  BY <1>4 DEF Walk

\* What holds at the start and from each step to the next holds all along.
Inductive(S, N) == S \subseteq Nat /\ 0 \in S /\ \A k \in 1..N : k - 1 \in S => k \in S

LEMMA AllAlong ==
    ASSUME NEW N \in Nat, NEW S, Inductive(S, N)
    PROVE  0..N \subseteq S
<1> USE DEF Inductive
<1> DEFINE T == {n \in Nat : n <= N => n \in S}
<1>1. 0 \in T
  OBVIOUS
<1>2. ASSUME NEW n \in T PROVE n + 1 \in T
  <2> SUFFICES ASSUME n + 1 <= N PROVE n + 1 \in S
    OBVIOUS
  <2>1. n \in S /\ n + 1 \in 1..N /\ (n + 1) - 1 = n
    OBVIOUS
  <2> QED
    BY <2>1
<1> HIDE DEF T
<1>3. T = Nat
  <2>1. T \in SUBSET Nat
    BY DEF T
  <2> QED
    BY <1>1, <1>2, <2>1, AllNumbers
<1> QED
  BY <1>3 DEF T

\* Two walks that start alike and step alike are alike.
Alike(w, v, N) == w[0] = v[0] /\ \A k \in 1..N : w[k - 1] = v[k - 1] => w[k] = v[k]

LEMMA WalksAgree ==
    ASSUME NEW N \in Nat, NEW w, NEW v, Alike(w, v, N)
    PROVE  \A k \in 0..N : w[k] = v[k]
<1> USE DEF Alike
<1> DEFINE S == {n \in Nat : w[n] = v[n]}
<1>1. 0 \in S
  OBVIOUS
<1>2. \A k \in 1..N : k - 1 \in S => k \in S
  OBVIOUS
<1>3. Inductive(S, N)
  BY <1>1, <1>2 DEF Inductive
<1> HIDE DEF S
<1>4. 0..N \subseteq S
  BY <1>3, AllAlong
<1> QED
  BY <1>4 DEF S

-----------------------------------------------------------------------------
(* What a set means to a fact *)

\* Finitely many facts of the types an ASSUME gives them, one to an id.
GoodFacts(S) ==
    /\ IsFiniteSet(S)
    /\ \A f \in S : /\ f.id \in Nat /\ f.loss \in Nat /\ f.bytes \in Nat
                    /\ f.support \in 0..1250 /\ IsFiniteSet(f.words)
    /\ \A f, g \in S : f.id = g.id => f = g

Folds == [covered : BOOLEAN, complement : BOOLEAN, edge : Nat, likeness : Nat]

\* Words of two facts are counted.
LEMMA SimilarityIsANumber ==
    ASSUME NEW S, GoodFacts(S), NEW f \in S, NEW g \in S
    PROVE  Similarity(f, g) \in Nat /\ Likeness(f, g) \in Nat /\ Edge(f, g) \in Nat
<1> DEFINE a == Cardinality(f.words \cap g.words)
           b == Cardinality(f.words)
           c == Cardinality(g.words)
<1>1. IsFiniteSet(f.words) /\ IsFiniteSet(g.words)
  BY DEF GoodFacts
<1>2. a \in Nat /\ b \in Nat /\ c \in Nat
  BY <1>1, FS_CardinalityType, FS_Intersection
<1>3. f.words \cup g.words # {} => b + c > 0
  BY <1>1, <1>2, FS_EmptySet
<1> HIDE DEF a, b, c
<1>4. b + c > 0 => (a * 20000) \div (b + c) \in Nat
  BY <1>2
<1>5. Similarity(f, g) \in Nat
  BY <1>3, <1>4 DEF Similarity, a, b, c
<1>6. Likeness(f, g) \in Nat
  BY <1>5 DEF Likeness
<1>7. Edge(f, g) \in Nat
  BY DEF Edge
<1> QED
  BY <1>5, <1>6, <1>7

\* The same words are alike all the way.
LEMMA SameWordsAreAlike ==
    ASSUME NEW S, GoodFacts(S), NEW f \in S, NEW g \in S, Repeats(f, g)
    PROVE  Likeness(f, g) = 10000
<1> DEFINE b == Cardinality(f.words)
<1>1. IsFiniteSet(f.words) /\ f.words = g.words /\ f.words # {}
  BY DEF GoodFacts, Repeats
<1>2. b \in Nat /\ b # 0
  BY <1>1, FS_CardinalityType, FS_EmptySet
<1>3. Cardinality(f.words \cap g.words) = b /\ Cardinality(g.words) = b
  BY <1>1
<1> HIDE DEF b
<1>4. (b * 20000) \div (b + b) = 10000
  BY <1>2
<1>5. Similarity(f, g) = 10000
  BY <1>1, <1>3, <1>4 DEF Similarity, b
<1> QED
  BY <1>5 DEF Likeness, Repeats

LEMMA AbsorbIsAFold ==
    ASSUME NEW S, GoodFacts(S), NEW f \in S, NEW g \in S, NEW fold \in Folds
    PROVE  Absorb(f, fold, g) \in Folds
<1>1. Likeness(f, g) \in Nat /\ Edge(f, g) \in Nat
  BY SimilarityIsANumber
<1>2. Equivalent(f, g) \in BOOLEAN /\ Complement(f, g) \in BOOLEAN
  BY DEF Equivalent, Complement
<1> QED
  BY <1>1, <1>2 DEF Absorb, Folds

\* The members of a set are absorbed one after another.
Folding(w, f, set) ==
    /\ w \in [0..Len(set) -> Folds] /\ w[0] = NewFold
    /\ \A k \in 1..Len(set) : w[k] = Absorb(f, w[k - 1], set[k])
    /\ FoldOf(f, set) = w[Len(set)]

LEMMA FoldIsAWalk ==
    ASSUME NEW S, GoodFacts(S), NEW f \in S, NEW set \in Seq(S)
    PROVE  \E w : Folding(w, f, set)
<1> DEFINE N == Len(set)
           step == [k \in 1..N |-> [fold \in Folds |-> Absorb(f, fold, set[k])]]
           Right(w) == w = [n \in 0..N |-> IF n = 0 THEN NewFold ELSE Absorb(f, w[n - 1], set[n])]
           v == CHOOSE w : Right(w)
<1>1. N \in Nat /\ NewFold \in Folds /\ \A k \in 1..N : set[k] \in S
  BY DEF NewFold, Folds
<1>2. step \in [1..N -> [Folds -> Folds]]
  BY <1>1, AbsorbIsAFold
<1>3. PICK w : Walk(w, N, Folds, NewFold, step)
  <2> HIDE DEF N, step
  <2> QED
    BY <1>1, <1>2, WalkExists
<1>4. /\ w \in [0..N -> Folds] /\ w[0] = NewFold
      /\ \A k \in 1..N : w[k] = Absorb(f, w[k - 1], set[k])
  <2>1. w \in [0..N -> Folds] /\ w[0] = NewFold /\ \A k \in 1..N : w[k] = step[k][w[k - 1]]
    <3> HIDE DEF N, step
    <3> QED
      BY <1>3 DEF Walk
  <2>2. ASSUME NEW k \in 1..N PROVE step[k][w[k - 1]] = Absorb(f, w[k - 1], set[k])
    <3>1. k - 1 \in 0..N
      BY <1>1
    <3>2. w[k - 1] \in Folds
      BY <2>1, <3>1
    <3> QED
      BY <3>2
  <2> QED
    BY <2>1, <2>2
<1>5. Right(w)
  <2>1. w = [n \in 0..N |-> w[n]]
    BY <1>4
  <2>2. \A n \in 0..N : w[n] = IF n = 0 THEN NewFold ELSE Absorb(f, w[n - 1], set[n])
    BY <1>1, <1>4
  <2> QED
    BY <2>1, <2>2
<1>6. Right(v)
  BY <1>5
<1>7. v[0] = NewFold /\ \A k \in 1..N : v[k] = Absorb(f, v[k - 1], set[k])
  <2>1. \A n \in 0..N : v[n] = IF n = 0 THEN NewFold ELSE Absorb(f, v[n - 1], set[n])
    BY <1>6
  <2> QED
    BY <1>1, <2>1
<1>8. FoldOf(f, set) = v[N]
  BY DEF FoldOf
<1> HIDE DEF N, v
<1>9. \A k \in 0..N : w[k] = v[k]
  <2>1. Alike(w, v, N)
    BY <1>4, <1>7 DEF Alike
  <2> QED
    BY <1>1, <2>1, WalksAgree
<1>10. v[N] = w[N]
  BY <1>1, <1>9
<1> QED
  BY <1>4, <1>8, <1>10 DEF Folding, N

LEMMA FoldStarts ==
    ASSUME NEW S, GoodFacts(S), NEW f \in S
    PROVE  FoldOf(f, <<>>) = NewFold
<1>1. <<>> \in Seq(S) /\ Len(<<>>) = 0
  OBVIOUS
<1>2. PICK w : Folding(w, f, <<>>)
  BY <1>1, FoldIsAWalk
<1> QED
  BY <1>1, <1>2 DEF Folding

\* A new member is absorbed into what the set meant (SetFold::absorb).
LEMMA FoldGrows ==
    ASSUME NEW S, GoodFacts(S), NEW f \in S, NEW set \in Seq(S), NEW g \in S
    PROVE  /\ FoldOf(f, Append(set, g)) = Absorb(f, FoldOf(f, set), g)
           /\ FoldOf(f, set) \in Folds
<1> DEFINE N == Len(set)
           more == Append(set, g)
<1>1. N \in Nat /\ Len(more) = N + 1 /\ more[N + 1] = g /\ more \in Seq(S)
      /\ \A k \in 1..N : more[k] = set[k]
  OBVIOUS
<1>2. PICK w : Folding(w, f, set)
  BY FoldIsAWalk
<1>3. PICK v : Folding(v, f, more)
  BY <1>1, FoldIsAWalk
<1> HIDE DEF N, more
<1>4. /\ w \in [0..N -> Folds] /\ w[0] = NewFold /\ FoldOf(f, set) = w[N]
      /\ \A k \in 1..N : w[k] = Absorb(f, w[k - 1], set[k])
  BY <1>2 DEF Folding, N
<1>5. /\ v[0] = NewFold /\ FoldOf(f, more) = v[N + 1]
      /\ \A k \in 1..(N + 1) : v[k] = Absorb(f, v[k - 1], more[k])
  BY <1>1, <1>3 DEF Folding
<1>6. ASSUME NEW k \in 1..N, w[k - 1] = v[k - 1] PROVE w[k] = v[k]
  <2>1. k \in 1..(N + 1)
    BY <1>1
  <2>2. v[k] = Absorb(f, v[k - 1], set[k])
    BY <1>1, <1>5, <2>1
  <2> QED
    BY <1>4, <1>6, <2>2
<1>7. \A k \in 0..N : w[k] = v[k]
  <2>1. Alike(w, v, N)
    BY <1>4, <1>5, <1>6 DEF Alike
  <2> QED
    BY <1>1, <2>1, WalksAgree
<1>8. v[N] = w[N] /\ N + 1 \in 1..(N + 1) /\ (N + 1) - 1 = N /\ w[N] \in Folds
  BY <1>1, <1>4, <1>7
<1>9. v[N + 1] = Absorb(f, v[N], g)
  BY <1>1, <1>5, <1>8
<1> QED
  BY <1>4, <1>5, <1>8, <1>9 DEF more

\* What the first n members of a set have left in a fold.
Seen(f, fold, set, n) ==
    /\ \A j \in 1..n : /\ Equivalent(f, set[j]) => fold.covered
                       /\ Likeness(f, set[j]) <= fold.likeness
    /\ fold.edge = 0 \/ \E k \in 1..n : fold.edge = Edge(f, set[k])

LEMMA AbsorbSees ==
    ASSUME NEW S, GoodFacts(S), NEW f \in S, NEW set \in Seq(S), NEW fold \in Folds,
           NEW n \in 1..Len(set), Seen(f, fold, set, n - 1)
    PROVE  Seen(f, Absorb(f, fold, set[n]), set, n)
<1> DEFINE g == set[n]
           more == Absorb(f, fold, g)
<1>1. g \in S /\ n \in Nat /\ n # 0
  OBVIOUS
<1>2. Likeness(f, g) \in Nat /\ fold.likeness \in Nat
  BY <1>1, SimilarityIsANumber DEF Folds
<1>7. more.covered = (fold.covered \/ Equivalent(f, g))
  BY DEF Absorb
<1>3. /\ more.edge = IF fold.edge # 0 THEN fold.edge ELSE Edge(f, g)
      /\ more.likeness = IF Likeness(f, g) > fold.likeness THEN Likeness(f, g) ELSE fold.likeness
  BY DEF Absorb
<1> HIDE DEF more
<1>6. fold.likeness <= more.likeness /\ Likeness(f, g) <= more.likeness /\ more.likeness \in Nat
  BY <1>2, <1>3
<1>4. ASSUME NEW j \in 1..n
      PROVE  (Equivalent(f, set[j]) => more.covered) /\ Likeness(f, set[j]) <= more.likeness
  <2>1. CASE j = n
    BY <1>6, <1>7, <2>1, Zenon
  <2>2. CASE j # n
    <3>1. j \in 1..(n - 1) /\ set[j] \in S
      BY <1>1, <2>2
    <3>2. (Equivalent(f, set[j]) => fold.covered) /\ Likeness(f, set[j]) <= fold.likeness
      BY <3>1 DEF Seen
    <3>3. Likeness(f, set[j]) \in Nat
      BY <3>1, SimilarityIsANumber
    <3>4. Likeness(f, set[j]) <= more.likeness
      BY <1>2, <1>6, <3>2, <3>3
    <3> QED
      BY <1>7, <3>2, <3>4, Zenon
  <2> QED
    BY <2>1, <2>2
<1>5. more.edge = 0 \/ \E k \in 1..n : more.edge = Edge(f, set[k])
  <2>1. n \in 1..n /\ 1..(n - 1) \subseteq 1..n
    BY <1>1
  <2> QED
    BY <1>3, <2>1 DEF Seen
<1> QED
  BY <1>4, <1>5 DEF Seen, more

LEMMA FoldSees ==
    ASSUME NEW S, GoodFacts(S), NEW f \in S, NEW set \in Seq(S)
    PROVE  FoldOf(f, set) \in Folds /\ Seen(f, FoldOf(f, set), set, Len(set))
<1>1. PICK w : Folding(w, f, set)
  BY FoldIsAWalk
<1> DEFINE N == Len(set)
           T == {n \in Nat : n <= N => Seen(f, w[n], set, n)}
<1>2. /\ N \in Nat /\ w \in [0..N -> Folds] /\ w[0] = NewFold /\ FoldOf(f, set) = w[N]
      /\ \A k \in 1..N : w[k] = Absorb(f, w[k - 1], set[k])
  BY <1>1 DEF Folding
<1>3. 0 \in T
  BY <1>2 DEF Seen, NewFold
<1>4. ASSUME NEW k \in 1..N, k - 1 \in T PROVE k \in T
  <2>1. k - 1 \in 0..N /\ k \in Nat
    BY <1>2
  <2>2. w[k - 1] \in Folds /\ Seen(f, w[k - 1], set, k - 1)
    BY <1>2, <1>4, <2>1
  <2>3. Seen(f, Absorb(f, w[k - 1], set[k]), set, k)
    BY <2>2, AbsorbSees
  <2> QED
    BY <1>2, <2>1, <2>3
<1>5. Inductive(T, N)
  <2>1. \A k \in 1..N : k - 1 \in T => k \in T
    BY <1>4
  <2>2. T \subseteq Nat
    OBVIOUS
  <2> HIDE DEF T
  <2> QED
    BY <1>3, <2>1, <2>2 DEF Inductive
<1> HIDE DEF T
<1>6. N \in T
  <2>1. N \in 0..N
    BY <1>2
  <2> HIDE DEF N
  <2> QED
    BY <1>2, <1>5, <2>1, AllAlong
<1> QED
  BY <1>2, <1>6 DEF T

-----------------------------------------------------------------------------
(* The bytes of a set *)

Sizing(w, set) ==
    /\ w \in [0..Len(set) -> Nat] /\ w[0] = 0
    /\ \A k \in 1..Len(set) : w[k] = w[k - 1] + set[k].bytes
    /\ Bytes(set) = w[Len(set)] + Len(set) + 1

LEMMA BytesAreAWalk ==
    ASSUME NEW S, GoodFacts(S), NEW set \in Seq(S)
    PROVE  \E w : Sizing(w, set)
<1> DEFINE N == Len(set)
           step == [k \in 1..N |-> [n \in Nat |-> n + set[k].bytes]]
           Right(w) == w = [n \in 0..N |-> IF n = 0 THEN 0 ELSE w[n - 1] + set[n].bytes]
           v == CHOOSE w : Right(w)
<1>1. N \in Nat /\ \A k \in 1..N : set[k].bytes \in Nat
  BY DEF GoodFacts
<1>2. step \in [1..N -> [Nat -> Nat]]
  BY <1>1
<1>3. PICK w : Walk(w, N, Nat, 0, step)
  <2> HIDE DEF N, step
  <2> QED
    BY <1>1, <1>2, WalkExists
<1>4. /\ w \in [0..N -> Nat] /\ w[0] = 0
      /\ \A k \in 1..N : w[k] = w[k - 1] + set[k].bytes
  <2>1. w \in [0..N -> Nat] /\ w[0] = 0 /\ \A k \in 1..N : w[k] = step[k][w[k - 1]]
    <3> HIDE DEF N, step
    <3> QED
      BY <1>3 DEF Walk
  <2>2. ASSUME NEW k \in 1..N PROVE step[k][w[k - 1]] = w[k - 1] + set[k].bytes
    <3>1. k - 1 \in 0..N
      BY <1>1
    <3>2. w[k - 1] \in Nat
      BY <2>1, <3>1
    <3> QED
      BY <3>2
  <2> QED
    BY <2>1, <2>2
<1>5. Right(w)
  <2>1. w = [n \in 0..N |-> w[n]]
    BY <1>4
  <2>2. \A n \in 0..N : w[n] = IF n = 0 THEN 0 ELSE w[n - 1] + set[n].bytes
    BY <1>1, <1>4
  <2> QED
    BY <2>1, <2>2
<1>6. Right(v)
  BY <1>5
<1>7. v[0] = 0 /\ \A k \in 1..N : v[k] = v[k - 1] + set[k].bytes
  <2>1. \A n \in 0..N : v[n] = IF n = 0 THEN 0 ELSE v[n - 1] + set[n].bytes
    BY <1>6
  <2> QED
    BY <1>1, <2>1
<1>8. Bytes(set) = v[N] + N + 1
  BY DEF Bytes
<1> HIDE DEF N, v
<1>9. \A k \in 0..N : w[k] = v[k]
  <2>1. Alike(w, v, N)
    BY <1>4, <1>7 DEF Alike
  <2> QED
    BY <1>1, <2>1, WalksAgree
<1>10. v[N] = w[N]
  BY <1>1, <1>9
<1> QED
  BY <1>4, <1>8, <1>10 DEF Sizing, N

\* A fact takes its bytes and a comma.
LEMMA BytesGrow ==
    ASSUME NEW S, GoodFacts(S), NEW set \in Seq(S), NEW g \in S
    PROVE  Bytes(set) \in Nat /\ Bytes(Append(set, g)) = Bytes(set) + g.bytes + 1
<1> DEFINE N == Len(set)
           more == Append(set, g)
<1>1. N \in Nat /\ Len(more) = N + 1 /\ more[N + 1] = g /\ more \in Seq(S)
      /\ \A k \in 1..N : more[k] = set[k]
  OBVIOUS
<1>2. PICK w : Sizing(w, set)
  BY BytesAreAWalk
<1>3. PICK v : Sizing(v, more)
  BY <1>1, BytesAreAWalk
<1> HIDE DEF N, more
<1>4. /\ w \in [0..N -> Nat] /\ w[0] = 0 /\ Bytes(set) = w[N] + N + 1
      /\ \A k \in 1..N : w[k] = w[k - 1] + set[k].bytes
  BY <1>2 DEF Sizing, N
<1>5. /\ v[0] = 0 /\ Bytes(more) = v[N + 1] + (N + 1) + 1
      /\ \A k \in 1..(N + 1) : v[k] = v[k - 1] + more[k].bytes
  BY <1>1, <1>3 DEF Sizing
<1>6. ASSUME NEW k \in 1..N, w[k - 1] = v[k - 1] PROVE w[k] = v[k]
  <2>1. k \in 1..(N + 1)
    BY <1>1
  <2>2. v[k] = v[k - 1] + set[k].bytes
    BY <1>1, <1>5, <2>1
  <2> QED
    BY <1>4, <1>6, <2>2
<1>7. \A k \in 0..N : w[k] = v[k]
  <2>1. Alike(w, v, N)
    BY <1>4, <1>5, <1>6 DEF Alike
  <2> QED
    BY <1>1, <2>1, WalksAgree
<1>8. v[N] = w[N] /\ N + 1 \in 1..(N + 1) /\ (N + 1) - 1 = N /\ w[N] \in Nat
  BY <1>1, <1>4, <1>7
<1>9. v[N + 1] = v[N] + g.bytes
  BY <1>1, <1>5, <1>8
<1>10. g.bytes \in Nat
  BY DEF GoodFacts
<1>11. Bytes(more) = ((w[N] + g.bytes) + (N + 1)) + 1
  BY <1>5, <1>8, <1>9
<1>12. Bytes(set) = w[N] + N + 1 /\ w[N] \in Nat /\ N \in Nat
  BY <1>1, <1>4, <1>8
<1>13. Bytes(set) \in Nat /\ Bytes(more) = Bytes(set) + g.bytes + 1
  <2>2. /\ ((w[N] + g.bytes) + (N + 1)) + 1 = (w[N] + N + 1) + g.bytes + 1
        /\ w[N] + N + 1 \in Nat
    <3>1. w[N] \in Nat /\ g.bytes \in Nat /\ N \in Nat
      BY <1>10, <1>12
    <3> DEFINE x == w[N]
               y == g.bytes
    <3>2. x \in Nat /\ y \in Nat /\ N \in Nat
      BY <3>1
    <3> HIDE DEF x, y
    <3>3. /\ ((x + y) + (N + 1)) + 1 = (x + N + 1) + y + 1
          /\ x + N + 1 \in Nat
      BY <3>2
    <3> QED
      BY <3>3 DEF x, y
  <2>3. Bytes(set) \in Nat
    BY <1>12, <2>2, Zenon
  <2>4. Bytes(more) = (w[N] + N + 1) + g.bytes + 1
    BY <1>11, <2>2, Zenon
  <2> QED
    BY <1>12, <2>3, <2>4, Zenon
<1> QED
  BY <1>13 DEF more

\* What does not fit never fits again.
LEMMA NeverFitsAgain ==
    ASSUME NEW S, GoodFacts(S), NEW set \in Seq(S), NEW f \in S, NEW g \in S, ~Fits(set, f)
    PROVE  ~Fits(Append(set, g), f)
<1>1. Append(set, g) \in Seq(S) /\ f.bytes \in Nat /\ g.bytes \in Nat
  BY DEF GoodFacts
<1>2. Bytes(set) \in Nat /\ Bytes(Append(set, f)) = Bytes(set) + f.bytes + 1
  BY BytesGrow
<1>3. Bytes(Append(set, g)) = Bytes(set) + g.bytes + 1
  BY BytesGrow
<1>4. Bytes(Append(Append(set, g), f)) = Bytes(Append(set, g)) + f.bytes + 1
  BY <1>1, BytesGrow
<1>5. ByteLimit \in Nat
  BY ProjectionAssumption
<1> QED
  BY <1>1, <1>2, <1>3, <1>4, <1>5 DEF Fits

-----------------------------------------------------------------------------
(* What a fact is worth is a number *)

LEMMA CandidatesAreGood ==
    ASSUME scene \in Scenes
    PROVE  GoodFacts(scene.facts) /\ GoodFacts(Candidates) /\ GoodFacts(Resolved)
<1>1. GoodFacts(scene.facts)
  BY SceneAssumption DEF GoodFacts
<1>2. Candidates \subseteq scene.facts /\ Resolved \subseteq scene.facts
  BY DEF Candidates, Resolved
<1>3. ASSUME NEW T, T \subseteq scene.facts PROVE GoodFacts(T)
  <2>1. IsFiniteSet(T)
    BY <1>1, <1>3, FS_Subset DEF GoodFacts
  <2> QED
    BY <1>1, <1>3, <2>1 DEF GoodFacts
<1> QED
  BY <1>1, <1>2, <1>3

\* A strict order of a finite set has nobody before some member.
Strict(R, S) ==
    /\ \A x \in S : <<x, x>> \notin R
    /\ \A x, y, z \in S : <<x, y>> \in R /\ <<y, z>> \in R => <<x, z>> \in R

LEMMA SomeoneIsFirst ==
    ASSUME NEW S, IsFiniteSet(S), S # {}, NEW R, Strict(R, S)
    PROVE  \E x \in S : \A y \in S : <<y, x>> \notin R
<1> DEFINE X(x) == {y \in S : <<y, x>> \in R}
           T == {X(x) : x \in S}
<1>1. T \in SUBSET SUBSET S /\ T # {}
  OBVIOUS
<1>2. PICK m \in T : \A Y \in T : Y \subseteq m => Y = m
  <2> HIDE DEF T
  <2> QED
    BY <1>1, SmallestSubset
<1>3. PICK x \in S : m = X(x)
  OBVIOUS
<1>4. ASSUME NEW y \in S, <<y, x>> \in R PROVE FALSE
  <2>1. X(y) \subseteq X(x)
    BY <1>4 DEF Strict
  <2>2. X(y) \in T
    OBVIOUS
  <2>3. X(y) = X(x)
    BY <1>2, <1>3, <2>1, <2>2
  <2>4. y \in X(y)
    BY <1>4, <2>3
  <2> QED
    BY <2>4 DEF Strict
<1> QED
  BY <1>4

LEMMA LossIsANumber ==
    ASSUME scene \in Scenes, NEW f \in Candidates
    PROVE  Loss(f) \in Int
<1> DEFINE C == Candidates
           R == {p \in C \X C : Shared(p[1]) > Shared(p[2])}
           N == {Shared(g) : g \in C}
           best == CHOOSE n \in N : \A g \in C : Shared(g) <= n
<1>1. GoodFacts(C)
  BY CandidatesAreGood
<1>2. ASSUME NEW g \in C PROVE Shared(g) \in Nat
  <2>1. IsFiniteSet(g.words)
    BY <1>1 DEF GoodFacts
  <2> QED
    BY <2>1, FS_CardinalityType, FS_Intersection DEF Shared
<1>3. \E n \in N : \A g \in C : Shared(g) <= n
  <2>1. IsFiniteSet(C) /\ C # {}
    BY <1>1 DEF GoodFacts
  <2>2. Strict(R, C)
    BY <1>2 DEF Strict
  <2>3. PICK x \in C : \A y \in C : <<y, x>> \notin R
    <3> HIDE DEF R, C
    <3> QED
      BY <2>1, <2>2, SomeoneIsFirst
  <2>4. ASSUME NEW y \in C PROVE Shared(y) <= Shared(x)
    <3>1. <<y, x>> \in C \X C /\ <<y, x>>[1] = y /\ <<y, x>>[2] = x
      OBVIOUS
    <3>2. ~(Shared(y) > Shared(x))
      BY <2>3, <3>1
    <3>3. Shared(x) \in Nat /\ Shared(y) \in Nat
      BY <1>2
    <3> QED
      BY <3>2, <3>3
  <2> QED
    BY <2>4
<1>4. best \in N
  BY <1>3
<1>5. best \in Nat
  BY <1>2, <1>4
<1> HIDE DEF best
<1>6. Shared(f) \in Nat
  BY <1>2
<1>7. best # 0 => (8000 * Shared(f)) \div best \in Int
  BY <1>5, <1>6
<1>8. Relevance(f) = IF best = 0 THEN 2000 ELSE 2000 + (8000 * Shared(f)) \div best
  BY DEF Relevance, best
<1>9. Relevance(f) \in Int
  BY <1>7, <1>8
<1>10. f.loss \in Nat
  BY <1>1 DEF GoodFacts
<1>11. (f.loss * Relevance(f)) \div 10000 \in Int
  BY <1>9, <1>10
<1> QED
  BY <1>10, <1>11 DEF Loss

LEMMA ValueIsANumber ==
    ASSUME scene \in Scenes, NEW f \in Candidates, NEW fold \in Folds
    PROVE  Value(f, fold) \in Int
<1>0. GoodFacts(Candidates)
  BY CandidatesAreGood
<1>1. f.support \in Int
  <2>1. f.support \in 0..1250
    BY <1>0 DEF GoodFacts
  <2> QED
    BY <2>1, SMTT(40)
<1>2. Redundancy(fold) \in Int
  BY DEF Redundancy, Folds
<1>3. Loss(f) \in Int
  BY LossIsANumber
<1> QED
  BY <1>1, <1>2, <1>3 DEF Value

-----------------------------------------------------------------------------
(* The residents *)

\* Every place in the order of ids is taken, by one fact.
LEMMA RanksAreOrdered ==
    ASSUME scene \in Scenes
    PROVE  /\ Cardinality(Resolved) \in Nat
           /\ \A f \in Resolved : Rank(f) \in 1..Cardinality(Resolved)
           /\ \A f, g \in Resolved : Rank(f) = Rank(g) => f = g
           /\ \A n \in 1..Cardinality(Resolved) : \E f \in Resolved : Rank(f) = n
<1> DEFINE S == Resolved
           N == Cardinality(S)
           X(f) == {g \in S : g.id <= f.id}
           r == [f \in S |-> Rank(f)]
<1>1. GoodFacts(S)
  BY CandidatesAreGood
<1>2. IsFiniteSet(S) /\ N \in Nat /\ \A f \in S : f.id \in Nat
  BY <1>1, FS_CardinalityType DEF GoodFacts
<1>3. ASSUME NEW f \in S PROVE /\ IsFiniteSet(X(f)) /\ Cardinality(X(f)) \in 1..N
                               /\ Rank(f) = Cardinality(X(f))
  <2>1. X(f) \in SUBSET S /\ f \in X(f)
    BY <1>2
  <2>2. IsFiniteSet(X(f)) /\ Cardinality(X(f)) <= N
    BY <1>2, <2>1, FS_Subset
  <2>3. Cardinality(X(f)) \in Nat /\ Cardinality(X(f)) # 0
    BY <2>1, <2>2, FS_CardinalityType, FS_EmptySet
  <2> QED
    BY <1>2, <2>2, <2>3 DEF Rank
<1>4. ASSUME NEW f \in S, NEW g \in S, Rank(f) = Rank(g) PROVE f = g
  <2>1. ASSUME NEW a \in S, NEW b \in S, Rank(a) = Rank(b), a.id < b.id PROVE FALSE
    <3>1. X(a) \in SUBSET X(b) /\ b \in X(b) /\ b \notin X(a)
      BY <1>2, <2>1
    <3>2. Cardinality(X(a)) = Cardinality(X(b)) /\ IsFiniteSet(X(b))
      BY <1>3, <2>1
    <3> QED
      BY <3>1, <3>2, FS_Subset
  <2>2. ~(f.id < g.id) /\ ~(g.id < f.id)
    BY <1>4, <2>1
  <2>3. f.id = g.id
    BY <1>2, <2>2
  <2> QED
    BY <1>1, <2>3 DEF GoodFacts
<1>5. ASSUME NEW n \in 1..N PROVE \E f \in S : Rank(f) = n
  <2>1. r \in [S -> 1..N] /\ \A f \in S : r[f] = Rank(f)
    BY <1>3
  <2>2. r \in Injection(S, 1..N)
    BY <1>4, <2>1 DEF Injection, IsInjective
  <2>3. IsFiniteSet(1..N) /\ Cardinality(1..N) = N
    BY <1>2, FS_Interval
  <2>4. r \in Surjection(S, 1..N)
    <3> HIDE DEF S, r
    <3> QED
      BY <1>2, <2>2, <2>3, FS_Injection DEF N
  <2>5. PICK f \in S : r[f] = n
    <3> HIDE DEF S, r, N
    <3> QED
      BY <2>4 DEF Surjection
  <2> QED
    BY <2>5
<1> QED
  BY <1>2, <1>3, <1>4, <1>5

\* A resolved fact that was kept out: the residents are full, or it does not fit.
Considered(f, kept) ==
    \/ Len(kept) = Limit
    \/ \E i \in 1..Len(kept) : kept[i] = f
    \/ ~Fits(kept, f)

LEMMA KeepConsiders ==
    ASSUME scene \in Scenes, NEW kept \in Seq(Resolved), Len(kept) <= Limit, NEW f \in Resolved
    PROVE  /\ Keep(kept, f) \in Seq(Resolved) /\ Len(Keep(kept, f)) <= Limit
           /\ Considered(f, Keep(kept, f))
           /\ \A g \in Resolved : Considered(g, kept) => Considered(g, Keep(kept, f))
<1> DEFINE N == Len(kept)
           more == Append(kept, f)
<1>0. GoodFacts(Resolved) /\ Limit \in Nat
  BY CandidatesAreGood, ProjectionAssumption
<1>1. N \in Nat /\ Len(more) = N + 1 /\ more[N + 1] = f /\ more \in Seq(Resolved)
      /\ \A k \in 1..N : more[k] = kept[k]
  OBVIOUS
<1>2. CASE N < Limit /\ Fits(kept, f)
  <2>1. Keep(kept, f) = more
    BY <1>2 DEF Keep
  <2>2. ASSUME NEW g \in Resolved, Considered(g, kept) PROVE Considered(g, more)
    <3>1. CASE \E i \in 1..N : kept[i] = g
      <4>1. PICK i \in 1..N : kept[i] = g
        BY <3>1
      <4>2. i \in 1..Len(more) /\ more[i] = g
        BY <1>1, <4>1
      <4> QED
        BY <4>2 DEF Considered
    <3>2. CASE ~Fits(kept, g)
      BY <1>0, <3>2, NeverFitsAgain DEF Considered
    <3> QED
      BY <1>0, <1>2, <2>2, <3>1, <3>2 DEF Considered
  <2>3. Considered(f, more)
    <3>1. N + 1 \in 1..Len(more)
      BY <1>1
    <3> QED
      BY <1>1, <3>1 DEF Considered
  <2>4. Len(more) <= Limit
    BY <1>0, <1>1, <1>2
  <2> QED
    BY <1>1, <2>1, <2>2, <2>3, <2>4
<1>3. CASE ~(N < Limit /\ Fits(kept, f))
  <2>1. Keep(kept, f) = kept
    BY <1>3 DEF Keep
  <2>2. Considered(f, kept)
    BY <1>0, <1>1, <1>3 DEF Considered
  <2> QED
    BY <2>1, <2>2
<1> QED
  BY <1>2, <1>3

\* The residents are facts the working set names, within the ceilings, and leave
\* out only what did not fit, unless they are full (bounded_residents).
LEMMA ResidentsAreBounded ==
    ASSUME scene \in Scenes
    PROVE  /\ Residents \in Seq(Resolved) /\ Len(Residents) <= Limit
           /\ \A f \in Resolved : Considered(f, Residents)
<1> DEFINE N == Cardinality(Resolved)
           D == {s \in Seq(Resolved) : Len(s) <= Limit}
           step == [k \in 1..N |-> [kept \in D |-> Keep(kept, ById(k))]]
           Right(w) == w = [n \in 0..N |-> IF n = 0 THEN <<>> ELSE Keep(w[n - 1], ById(n))]
           v == CHOOSE w : Right(w)
<1>1. N \in Nat /\ Limit \in Nat
  BY RanksAreOrdered, ProjectionAssumption
<1>2. ASSUME NEW k \in 1..N PROVE ById(k) \in Resolved /\ Rank(ById(k)) = k
  BY RanksAreOrdered DEF ById
<1>3. ASSUME NEW k \in 1..N, NEW kept \in D PROVE Keep(kept, ById(k)) \in D
  BY <1>2, KeepConsiders
<1>4. step \in [1..N -> [D -> D]]
  BY <1>3
<1>5. <<>> \in D
  BY <1>1
<1>6. PICK w : Walk(w, N, D, <<>>, step)
  <2> HIDE DEF N, D, step
  <2> QED
    BY <1>1, <1>4, <1>5, WalkExists
<1>7. /\ w \in [0..N -> D] /\ w[0] = <<>>
      /\ \A k \in 1..N : w[k] = Keep(w[k - 1], ById(k))
  <2>1. w \in [0..N -> D] /\ w[0] = <<>> /\ \A k \in 1..N : w[k] = step[k][w[k - 1]]
    <3> HIDE DEF N, D, step
    <3> QED
      BY <1>6 DEF Walk
  <2>2. ASSUME NEW k \in 1..N PROVE step[k][w[k - 1]] = Keep(w[k - 1], ById(k))
    <3>1. k - 1 \in 0..N
      BY <1>1
    <3>2. w[k - 1] \in D
      <4> HIDE DEF D
      <4> QED
        BY <2>1, <3>1
    <3> QED
      BY <3>2
  <2> QED
    BY <2>1, <2>2
<1>8. Right(w)
  <2>1. w = [n \in 0..N |-> w[n]]
    BY <1>7
  <2>2. \A n \in 0..N : w[n] = IF n = 0 THEN <<>> ELSE Keep(w[n - 1], ById(n))
    BY <1>1, <1>7
  <2> QED
    BY <2>1, <2>2
<1>9. Right(v)
  BY <1>8
<1>10. v[0] = <<>> /\ \A k \in 1..N : v[k] = Keep(v[k - 1], ById(k))
  <2>1. \A n \in 0..N : v[n] = IF n = 0 THEN <<>> ELSE Keep(v[n - 1], ById(n))
    BY <1>9
  <2> QED
    BY <1>1, <2>1
<1>11. Residents = v[N]
  BY DEF Residents
<1> HIDE DEF v
<1>12. \A k \in 0..N : w[k] = v[k]
  <2>1. Alike(w, v, N)
    BY <1>7, <1>10 DEF Alike
  <2> HIDE DEF N
  <2> QED
    BY <1>1, <2>1, WalksAgree
<1>13. Residents = w[N] /\ w[N] \in D
  BY <1>1, <1>7, <1>11, <1>12
<1> DEFINE T == {n \in Nat : n <= N => \A f \in Resolved : Rank(f) <= n => Considered(f, w[n])}
<1>14. 0 \in T
  BY RanksAreOrdered
<1>15. ASSUME NEW k \in 1..N, k - 1 \in T PROVE k \in T
  <2>1. k - 1 \in 0..N /\ k \in Nat
    BY <1>1
  <2>2. w[k - 1] \in D /\ w[k] = Keep(w[k - 1], ById(k))
    BY <1>7, <2>1
  <2>3. ASSUME NEW f \in Resolved, Rank(f) <= k PROVE Considered(f, w[k])
    <3>1. Rank(f) \in Nat
      BY RanksAreOrdered
    <3>2. CASE Rank(f) = k
      <4>1. f = ById(k)
        BY <1>2, <3>2, RanksAreOrdered
      <4> QED
        BY <2>2, <4>1, KeepConsiders
    <3>3. CASE Rank(f) # k
      <4>1. Rank(f) <= k - 1
        BY <2>1, <2>3, <3>1, <3>3
      <4>2. Considered(f, w[k - 1])
        BY <1>1, <1>15, <2>1, <4>1
      <4>3. ById(k) \in Resolved
        BY <1>2
      <4> QED
        BY <2>2, <4>2, <4>3, KeepConsiders
    <3> QED
      BY <3>2, <3>3
  <2> QED
    BY <2>1, <2>3
<1>16. Inductive(T, N)
  <2>1. \A k \in 1..N : k - 1 \in T => k \in T
    BY <1>15
  <2>2. T \subseteq Nat
    OBVIOUS
  <2> HIDE DEF T, N
  <2> QED
    BY <1>14, <2>1, <2>2 DEF Inductive
<1> HIDE DEF T
<1>17. N \in T
  <2>1. N \in 0..N
    BY <1>1
  <2> HIDE DEF N
  <2> QED
    BY <1>1, <1>16, <2>1, AllAlong
<1>18. \A f \in Resolved : Considered(f, w[N])
  <2>1. \A f \in Resolved : Rank(f) <= N
    BY <1>1, RanksAreOrdered
  <2> QED
    BY <1>1, <1>17, <2>1 DEF T
<1> QED
  BY <1>13, <1>18

-----------------------------------------------------------------------------
(* The records of a question *)

\* What a process has done by the time it is where it is, and what it is about
\* to write: `sent` says whether a receipt is on record, A, F and C what answers,
\* fact events and closing records there are.
InHand(r, sent, A, F, C) ==
    /\ r.pc # "idle" => {"pc", "copy"} \subseteq DOMAIN r
    /\ r.pc \in {"unknown", "raise", "own"} => r.copy.status \in {"open", "awaiting_authority"}
    /\ r.pc \in {"own", "deliver", "asked"} => "status" \in DOMAIN r.copy
    /\ r.pc = "asked" => sent
    /\ r.pc \in {"answer", "fact", "close", "settle"} =>
          /\ {"doc", "prior"} \subseteq DOMAIN r
          /\ r.copy.status \in {"superseded", "conflict", "closed"}
    /\ r.pc \in {"fact", "close", "settle"} => r.doc \in A
    /\ r.pc \in {"close", "settle"} => \E f \in F : f.answer = r.doc
    /\ r.pc = "settle" /\ r.copy.status # "conflict" => r.doc \in C

QuestionsInv ==
    /\ DOMAIN proc = Procs
    /\ \A p \in Procs : InHand(proc[p], delivered, answers, facts, closures)
    /\ RecordsAreFounded

LEMMA QuestionsStart == QuestionsInit => QuestionsInv
BY DEF QuestionsInit, QuestionsInv, InHand, Idle, RecordsAreFounded, AskedIsDelivered,
       AnsweredIsFounded, None

\* What is on record stays on record, so who does nothing keeps what it has.
LEMMA HandsAreKept ==
    ASSUME NEW r, NEW s, NEW A, NEW F, NEW C, InHand(r, s, A, F, C),
           NEW t, NEW B, NEW G, NEW E, s => t, A \subseteq B, F \subseteq G, C \subseteq E
    PROVE  InHand(r, t, B, G, E)
BY DEF InHand

OnRecord ==
    /\ (delivered => delivered') /\ answers \subseteq answers'
    /\ facts \subseteq facts' /\ closures \subseteq closures'

\* A step of one process, which leaves the question alone or founds its record.
LEMMA StepOfOneProcess ==
    ASSUME QuestionsInv, OnRecord, NEW p \in Procs, NEW r, proc' = [proc EXCEPT ![p] = r],
           InHand(r, delivered', answers', facts', closures'),
           question' = question \/ RecordsAreFounded'
    PROVE  QuestionsInv'
<1>1. DOMAIN proc' = Procs /\ \A q \in Procs : proc'[q] = IF q = p THEN r ELSE proc[q]
  BY DEF QuestionsInv
<1>2. ASSUME NEW q \in Procs PROVE InHand(proc'[q], delivered', answers', facts', closures')
  <2>1. CASE q = p
    BY <1>1, <2>1
  <2>2. CASE q # p
    <3>1. InHand(proc[q], delivered, answers, facts, closures)
      BY DEF QuestionsInv
    <3>2. InHand(proc[q], delivered', answers', facts', closures')
      BY <3>1, HandsAreKept DEF OnRecord
    <3> QED
      BY <1>1, <2>2, <3>2
  <2> QED
    BY <2>1, <2>2
<1>3. RecordsAreFounded'
  <2>1. CASE question' = question
    BY <2>1 DEF QuestionsInv, RecordsAreFounded, AskedIsDelivered, AnsweredIsFounded, OnRecord
  <2> QED
    BY <2>1
<1> QED
  BY <1>1, <1>2, <1>3 DEF QuestionsInv

LEMMA RaiseFounds ==
    ASSUME QuestionsInv, NEW p \in Procs, Raise(p)
    PROVE  QuestionsInv' /\ proc'[p].pc \in {"unknown", "raise"}
<1>1. PICK owner \in ResolvedOwner :
         Become(p, [pc |-> IF unknown = None THEN "unknown" ELSE "raise", copy |-> Opened(owner)])
  BY DEF Raise
<1> DEFINE r == [pc |-> IF unknown = None THEN "unknown" ELSE "raise", copy |-> Opened(owner)]
<1>2. proc' = [proc EXCEPT ![p] = r] /\ UNCHANGED ledgers
  BY <1>1 DEF Become, Raise
<1>3. r.pc \in {"unknown", "raise"} /\ DOMAIN r = {"pc", "copy"}
      /\ r.copy.status \in {"open", "awaiting_authority"}
  BY DEF Opened
<1> HIDE DEF r
<1>4. InHand(r, delivered', answers', facts', closures')
  BY <1>3 DEF InHand
<1>5. OnRecord /\ question' = question
  BY <1>2 DEF OnRecord, ledgers
<1>6. QuestionsInv'
  BY <1>2, <1>4, <1>5, StepOfOneProcess
<1>7. proc'[p] = r
  BY <1>2 DEF QuestionsInv
<1> QED
  BY <1>3, <1>6, <1>7

LEMMA PersistUnknownFounds ==
    ASSUME QuestionsInv, NEW p \in Procs, PersistUnknown(p)
    PROVE  QuestionsInv' /\ proc'[p].pc = "raise"
<1> DEFINE r == [proc[p] EXCEPT !.pc = "raise"]
<1>1. InHand(proc[p], delivered, answers, facts, closures) /\ proc[p].pc = "unknown"
  BY DEF QuestionsInv, PersistUnknown
<1>2. proc' = [proc EXCEPT ![p] = r] /\ OnRecord /\ question' = question
      /\ UNCHANGED <<delivered, answers, facts, closures>>
  BY DEF PersistUnknown, Become, OnRecord
<1>3. r.pc = "raise" /\ r.copy = proc[p].copy /\ DOMAIN r = DOMAIN proc[p]
  BY <1>1 DEF InHand
<1> HIDE DEF r
<1>4. InHand(r, delivered', answers', facts', closures')
  BY <1>1, <1>3 DEF InHand
<1>5. QuestionsInv'
  BY <1>2, <1>4, StepOfOneProcess
<1>6. proc'[p] = r
  BY <1>2 DEF QuestionsInv
<1> QED
  BY <1>3, <1>5, <1>6

LEMMA IdleIsInHand == \A s, A, F, C : InHand(Idle, s, A, F, C)
BY DEF InHand, Idle

LEMMA RecordRaisedFounds ==
    ASSUME QuestionsInv, NEW p \in Procs, RecordRaised(p)
    PROVE  QuestionsInv' /\ question' # None
<1>1. InHand(proc[p], delivered, answers, facts, closures) /\ proc[p].pc = "raise"
  BY DEF QuestionsInv, RecordRaised
<1>2. question'.status \in {"open", "awaiting_authority"}
  BY <1>1 DEF InHand, RecordRaised
<1>3. proc' = [proc EXCEPT ![p] = Idle] /\ OnRecord
  BY DEF RecordRaised, Become, OnRecord
<1>4. RecordsAreFounded'
  BY <1>2 DEF RecordsAreFounded, AskedIsDelivered, AnsweredIsFounded
<1>5. QuestionsInv'
  BY <1>3, <1>4, IdleIsInHand, StepOfOneProcess
<1> QED
  BY <1>2, <1>5 DEF None

LEMMA AskingFounds ==
    ASSUME QuestionsInv, NEW p \in Procs,
           StartAsk(p) \/ RecordOwner(p) \/ Deliver(p) \/ RecordAsked(p)
    PROVE  QuestionsInv'
<1>1. InHand(proc[p], delivered, answers, facts, closures)
  BY DEF QuestionsInv
<1>2. CASE StartAsk(p)
  <2>1. PICK r : /\ Become(p, r) /\ DOMAIN r = {"pc", "copy"}
                 /\ \/ r.pc = "own" /\ r.copy.status = "open"
                    \/ r.pc = "deliver"
                 /\ "status" \in DOMAIN r.copy
    <3>1. PICK e \in Current :
             Become(p, IF question.status = "awaiting_authority"
                       THEN [pc |-> "own", copy |-> Opened(e)]
                       ELSE [pc |-> "deliver", copy |-> As("asked")])
      BY <1>2 DEF StartAsk
    <3>2. Opened(e).status = "open" /\ "status" \in DOMAIN Opened(e)
          /\ "status" \in DOMAIN As("asked")
      BY DEF Current, Opened, As
    <3> QED
      BY <3>1, <3>2
  <2>2. InHand(r, delivered', answers', facts', closures')
    BY <2>1 DEF InHand
  <2>3. proc' = [proc EXCEPT ![p] = r] /\ OnRecord /\ question' = question
    BY <1>2, <2>1 DEF StartAsk, ledgers, Become, OnRecord
  <2> QED
    BY <2>2, <2>3, StepOfOneProcess
<1>3. CASE RecordOwner(p)
  <2> DEFINE r == [proc[p] EXCEPT !.pc = "deliver"]
  <2>1. proc[p].pc = "own" /\ OnRecord /\ proc' = [proc EXCEPT ![p] = r]
        /\ question' = proc[p].copy /\ UNCHANGED <<delivered, answers, facts, closures>>
    BY <1>3 DEF RecordOwner, Become, OnRecord
  <2>2. r.pc = "deliver" /\ r.copy = proc[p].copy /\ DOMAIN r = DOMAIN proc[p]
    BY <1>1, <2>1 DEF InHand
  <2> HIDE DEF r
  <2>3. InHand(r, delivered', answers', facts', closures')
    BY <1>1, <2>1, <2>2 DEF InHand
  <2>4. RecordsAreFounded'
    BY <1>1, <2>1 DEF InHand, RecordsAreFounded, AskedIsDelivered, AnsweredIsFounded
  <2> QED
    BY <2>1, <2>3, <2>4, StepOfOneProcess
<1>4. CASE Deliver(p)
  <2>1. PICK reply \in Replies :
           /\ delivered' = (delivered \/ reply # "unreachable")
           /\ Become(p, IF reply = "taken" THEN [proc[p] EXCEPT !.pc = "asked"] ELSE Idle)
    BY <1>4 DEF Deliver
  <2> DEFINE a == [proc[p] EXCEPT !.pc = "asked"]
             r == IF reply = "taken" THEN a ELSE Idle
  <2>2. /\ proc[p].pc = "deliver" /\ OnRecord /\ proc' = [proc EXCEPT ![p] = r]
        /\ UNCHANGED <<question, answers, facts, closures>>
    BY <1>4, <2>1 DEF Deliver, Become, OnRecord
  <2>3. a.pc = "asked" /\ a.copy = proc[p].copy /\ DOMAIN a = DOMAIN proc[p]
    BY <1>1, <2>2 DEF InHand
  <2> HIDE DEF a
  <2>4. InHand(r, delivered', answers', facts', closures')
    <3>1. CASE reply = "taken"
      <4>1. delivered'
        BY <2>1, <3>1
      <4>2. InHand(a, delivered', answers', facts', closures')
        BY <1>1, <2>2, <2>3, <4>1 DEF InHand
      <4> QED
        BY <3>1, <4>2
    <3>2. CASE reply # "taken"
      BY <3>2, IdleIsInHand
    <3> QED
      BY <3>1, <3>2
  <2> QED
    BY <2>2, <2>4, StepOfOneProcess
<1>5. CASE RecordAsked(p)
  <2>1. /\ proc[p].pc = "asked" /\ OnRecord /\ proc' = [proc EXCEPT ![p] = Idle]
        /\ question' = [proc[p].copy EXCEPT !.status = "asked"] /\ delivered' = delivered
    BY <1>5 DEF RecordAsked, Become, OnRecord
  <2>2. question'.status = "asked" /\ delivered'
    BY <1>1, <2>1 DEF InHand
  <2>3. RecordsAreFounded'
    BY <2>2 DEF RecordsAreFounded, AskedIsDelivered, AnsweredIsFounded
  <2> QED
    BY <2>1, <2>3, IdleIsInHand, StepOfOneProcess
<1> QED
  BY <1>2, <1>3, <1>4, <1>5

LEMMA AnsweringFounds ==
    ASSUME QuestionsInv, NEW p \in Procs,
           \/ \E d \in Documents : StartAnswer(p, d)
           \/ RecordAnswer(p) \/ WriteFact(p) \/ CloseUnknown(p) \/ Settle(p)
    PROVE  QuestionsInv'
<1>1. InHand(proc[p], delivered, answers, facts, closures)
  BY DEF QuestionsInv
<1>2. ASSUME NEW d \in Documents, StartAnswer(p, d) PROVE QuestionsInv'
  <2> DEFINE r == [pc |-> "answer", doc |-> d, prior |-> answers,
                   copy |-> As(IF d.parents THEN "superseded"
                               ELSE IF answers # {} THEN "conflict" ELSE "closed")]
  <2>1. proc' = [proc EXCEPT ![p] = r] /\ OnRecord /\ question' = question
    BY <1>2 DEF StartAnswer, ledgers, Become, OnRecord
  <2>2. InHand(r, delivered', answers', facts', closures')
    BY DEF InHand, As
  <2> QED
    BY <2>1, <2>2, StepOfOneProcess
<1>3. CASE RecordAnswer(p)
  <2> DEFINE r == [proc[p] EXCEPT !.pc = "fact"]
  <2>1. /\ proc[p].pc = "answer" /\ OnRecord /\ proc' = [proc EXCEPT ![p] = r]
        /\ question' = question /\ answers' = answers \cup {proc[p].doc}
    BY <1>3 DEF RecordAnswer, Become, OnRecord
  <2>2. r.pc = "fact" /\ r.copy = proc[p].copy /\ r.doc = proc[p].doc /\ DOMAIN r = DOMAIN proc[p]
    BY <1>1, <2>1 DEF InHand
  <2> HIDE DEF r
  <2>3. InHand(r, delivered', answers', facts', closures')
    BY <1>1, <2>1, <2>2 DEF InHand
  <2> QED
    BY <2>1, <2>3, StepOfOneProcess
<1>4. CASE WriteFact(p)
  <2> DEFINE then == IF Conflicts(proc[p]) THEN "settle" ELSE "close"
             r == [proc[p] EXCEPT !.pc = then]
             f == [answer |-> proc[p].doc,
                   supersedes |-> IF proc[p].doc.parents THEN proc[p].prior ELSE {}]
  <2>1. /\ proc[p].pc = "fact" /\ OnRecord /\ proc' = [proc EXCEPT ![p] = r]
        /\ question' = question /\ facts' = facts \cup {f} /\ answers' = answers
    BY <1>4 DEF WriteFact, Become, OnRecord
  <2>2. r.pc = then /\ r.copy = proc[p].copy /\ r.doc = proc[p].doc /\ DOMAIN r = DOMAIN proc[p]
    BY <1>1, <2>1 DEF InHand
  <2>3. f \in facts' /\ f.answer = proc[p].doc
    BY <2>1
  <2>4. then \in {"settle", "close"} /\ (then = "settle" => proc[p].copy.status = "conflict")
    BY DEF Conflicts
  <2> HIDE DEF r, f, then
  <2>5. InHand(r, delivered', answers', facts', closures')
    BY <1>1, <2>1, <2>2, <2>3, <2>4 DEF InHand
  <2> QED
    BY <2>1, <2>5, StepOfOneProcess
<1>5. CASE CloseUnknown(p)
  <2> DEFINE r == [proc[p] EXCEPT !.pc = "settle"]
  <2>1. /\ proc[p].pc = "close" /\ OnRecord /\ proc' = [proc EXCEPT ![p] = r]
        /\ UNCHANGED <<question, answers, facts>> /\ closures' = closures \cup {proc[p].doc}
    BY <1>5 DEF CloseUnknown, Become, OnRecord
  <2>2. r.pc = "settle" /\ r.copy = proc[p].copy /\ r.doc = proc[p].doc
        /\ DOMAIN r = DOMAIN proc[p]
    BY <1>1, <2>1 DEF InHand
  <2> HIDE DEF r
  <2>3. InHand(r, delivered', answers', facts', closures')
    BY <1>1, <2>1, <2>2 DEF InHand
  <2> QED
    BY <2>1, <2>3, StepOfOneProcess
<1>6. CASE Settle(p)
  <2>1. /\ proc[p].pc = "settle" /\ OnRecord /\ proc' = [proc EXCEPT ![p] = Idle]
        /\ question'.status = proc[p].copy.status /\ question'.answer = proc[p].doc
        /\ UNCHANGED <<closures, answers, facts>>
    BY <1>6 DEF Settle, Become, OnRecord
  <2>2. RecordsAreFounded'
    BY <1>1, <2>1 DEF InHand, RecordsAreFounded, AskedIsDelivered, AnsweredIsFounded
  <2> QED
    BY <2>1, <2>2, IdleIsInHand, StepOfOneProcess
<1> QED
  BY <1>2, <1>3, <1>4, <1>5, <1>6

LEMMA QuestionsMove ==
    ASSUME QuestionsInv, [QuestionsNext]_questionVars
    PROVE  QuestionsInv'
<1>1. CASE UNCHANGED questionVars
  BY <1>1 DEF questionVars, QuestionsInv, RecordsAreFounded, AskedIsDelivered, AnsweredIsFounded
<1>2. ASSUME NEW p \in Procs, Kill(p) PROVE QuestionsInv'
  <2>1. OnRecord /\ proc' = [proc EXCEPT ![p] = Idle] /\ question' = question
    BY <1>2 DEF Kill, ledgers, Become, OnRecord
  <2> QED
    BY <2>1, IdleIsInHand, StepOfOneProcess
<1>3. ASSUME NEW entries \in Registries, Register(entries) PROVE QuestionsInv'
  BY <1>3 DEF Register, ledgers, QuestionsInv, RecordsAreFounded, AskedIsDelivered,
              AnsweredIsFounded
<1> QED
  BY <1>1, <1>2, <1>3, RaiseFounds, PersistUnknownFounds, RecordRaisedFounds, AskingFounds,
     AnsweringFounds DEF QuestionsNext, Continue

\* A projection changes the records as a command does.
LEMMA ProjectionMovesQuestions == [Next]_vars => [QuestionsNext]_questionVars
<1>1. ASSUME NEW p \in Procs, Ask(p) PROVE QuestionsNext
  BY <1>1 DEF Ask, QuestionsNext
<1>2. ASSUME NEW p \in Procs, PersistUnknown(p) \/ RecordRaised(p) PROVE QuestionsNext
  BY <1>2 DEF QuestionsNext, Continue
<1>3. Begin \/ Select \/ End \/ Asked \/ Emit => UNCHANGED questionVars
  BY DEF Begin, Select, End, Asked, Emit
<1> QED
  BY <1>1, <1>2, <1>3 DEF Next, vars

\* Whatever commands overlap or die: a question that reads as asked was
\* delivered, and one that reads as answered rests on a recorded answer, its fact
\* and, unless it conflicts, a closing of its Unknown.
THEOREM RecordsAreFoundedAlways == Spec => []RecordsAreFounded
<1>1. Init => QuestionsInv
  BY QuestionsStart DEF Init
<1>2. QuestionsInv /\ [Next]_vars => QuestionsInv'
  BY ProjectionMovesQuestions, QuestionsMove
<1>3. QuestionsInv => RecordsAreFounded
  BY DEF QuestionsInv
<1> QED
  BY <1>1, <1>2, <1>3, PTL DEF Spec

-----------------------------------------------------------------------------
(* The best of a round *)

LEMMA BestIsThere ==
    ASSUME scene \in Scenes, \A f \in Candidates : folds[f] \in Folds, Round # {}
    PROVE  Best \in Round /\ \A g \in Round \ {Best} : Before(Best, g)
<1> DEFINE R == {p \in Round \X Round : Before(p[1], p[2])}
<1>1. GoodFacts(Candidates) /\ Round \subseteq Candidates
  BY CandidatesAreGood DEF Round
<1>2. IsFiniteSet(Round)
  BY <1>1, FS_Subset DEF GoodFacts
<1>3. ASSUME NEW f \in Round
      PROVE  Worth(f) \in Int /\ Priority(f) \in Int /\ f.id \in Int
  BY <1>1, ValueIsANumber DEF GoodFacts, Worth, Priority
<1>4. \A f, g \in Round : f.id = g.id => f = g
  BY <1>1 DEF GoodFacts
<1>5. ASSUME NEW f \in Round PROVE ~Before(f, f)
  BY <1>3 DEF Before
<1>6. ASSUME NEW f \in Round, NEW g \in Round, NEW h \in Round, Before(f, g), Before(g, h)
      PROVE  Before(f, h)
  <2>1. /\ Worth(f) \in Int /\ Priority(f) \in Int /\ f.id \in Int
        /\ Worth(g) \in Int /\ Priority(g) \in Int /\ g.id \in Int
        /\ Worth(h) \in Int /\ Priority(h) \in Int /\ h.id \in Int
    BY <1>3
  <2> QED
    BY <1>6, <2>1 DEF Before
<1>7. ASSUME NEW f \in Round, NEW g \in Round, f # g PROVE Before(f, g) \/ Before(g, f)
  <2>1. /\ Worth(f) \in Int /\ Priority(f) \in Int /\ f.id \in Int
        /\ Worth(g) \in Int /\ Priority(g) \in Int /\ g.id \in Int /\ f.id # g.id
    BY <1>3, <1>4, <1>7
  <2> QED
    BY <2>1 DEF Before
<1>8. \A f, g \in Round : <<f, g>> \in R <=> Before(f, g)
  <2>1. ASSUME NEW f \in Round, NEW g \in Round PROVE <<f, g>> \in R <=> Before(f, g)
    <3>1. <<f, g>> \in Round \X Round /\ <<f, g>>[1] = f /\ <<f, g>>[2] = g
      OBVIOUS
    <3> QED
      BY <3>1
  <2> QED
    BY <2>1
<1>9. PICK f \in Round : \A g \in Round : <<g, f>> \notin R
  <2> HIDE DEF R
  <2>1. Strict(R, Round)
    BY <1>5, <1>6, <1>8 DEF Strict
  <2> QED
    BY <1>2, <2>1, SomeoneIsFirst
<1>10. \A g \in Round \ {f} : Before(f, g)
  <2> HIDE DEF R
  <2> QED
    BY <1>7, <1>8, <1>9
<1> QED
  BY <1>10 DEF Best

\* Where a fact is worth something, the best is worth something.
LEMMA BestIsWorth ==
    ASSUME scene \in Scenes, \A f \in Candidates : folds[f] \in Folds,
           NEW f \in Round, Worth(f) > 0
    PROVE  Best \in Round /\ Best \in Candidates /\ Worth(Best) > 0
<1>1. Best \in Round /\ (f # Best => Before(Best, f))
  BY BestIsThere
<1>2. Round \subseteq Candidates
  BY DEF Round
<1>3. Worth(f) \in Int /\ Worth(Best) \in Int
  BY <1>1, <1>2, ValueIsANumber DEF Worth
<1>4. f # Best => Worth(Best) >= Worth(f)
  BY <1>1, <1>3 DEF Before
<1> QED
  BY <1>1, <1>2, <1>3, <1>4

\* What says again what the context says costs more than it can be worth.
LEMMA ParaphraseIsWorthless ==
    ASSUME scene \in Scenes, NEW set \in Seq(Candidates), NEW f \in Candidates,
           NEW j \in 1..Len(set), Repeats(f, set[j]),
           \A k \in 1..Len(set) : f.sources \cap set[k].sources = {}
    PROVE  ~(Value(f, FoldOf(f, set)) > 0)
<1> DEFINE fold == FoldOf(f, set)
           gain == IF fold.complement THEN 2500 ELSE 0
           base == IF f.company THEN 1300 ELSE 800
<1>1. GoodFacts(Candidates)
  BY CandidatesAreGood
<1>2. fold \in Folds /\ Seen(f, fold, set, Len(set))
  BY <1>1, FoldSees
<1> HIDE DEF fold
<1>3. set[j] \in Candidates
  OBVIOUS
<1>4. fold.covered
  BY <1>2 DEF Seen, Equivalent, Repeats
<1>5. 10000 <= fold.likeness
  <2>1. Likeness(f, set[j]) = 10000
    BY <1>1, <1>3, SameWordsAreAlike
  <2>2. Likeness(f, set[j]) <= fold.likeness
    BY <1>2 DEF Seen
  <2> QED
    BY <2>1, <2>2
<1>6. fold.edge # 0 => fold.edge = 8000
  <2>1. ASSUME NEW k \in 1..Len(set) PROVE Edge(f, set[k]) \in {0, 8000}
    BY DEF Edge, Repeats
  <2> QED
    BY <1>2, <2>1 DEF Seen
<1>7. Redundancy(fold) \in Int /\ 8000 <= Redundancy(fold)
  BY <1>2, <1>5, <1>6 DEF Redundancy, Folds
<1>8. Value(f, fold) = 0 + base + gain + f.support - Redundancy(fold) - 250
  BY <1>4 DEF Value
<1>9. base \in 0..1300 /\ gain \in 0..2500
  OBVIOUS
<1>10. f.support \in 0..1250
  BY <1>1 DEF GoodFacts
<1> HIDE DEF base, gain
<1> DEFINE x == f.support
           y == Redundancy(fold)
<1>11. x \in 0..1250 /\ y \in Int /\ 8000 <= y
  BY <1>7, <1>10
<1> HIDE DEF x, y
<1>12. ~(0 + base + gain + x - y - 250 > 0)
  BY <1>9, <1>11
<1> QED
  BY <1>8, <1>12 DEF fold, x, y
-----------------------------------------------------------------------------
(* A projection reports what it did *)

Selected == stage \in {"select", "ask", "asking", "emit", "done"}
Ended == stage \in {"ask", "asking", "emit", "done"}
Going == ~enough /\ Len(context) < Limit

\* Before the working set is taken nothing is chosen, and without a scene nothing
\* ever is.
Shape ==
    /\ scene \in Scenes \cup {Desk}
    /\ stage \in {"desk", "begin"} \/ Selected
    /\ scene = Desk <=> stage = "desk"
    /\ ~Selected => context = <<>> /\ working = 0 /\ ~enough

\* The context is of candidates, within its ceiling, and each fold is the scan.
Chosen ==
    /\ context \in Seq(Candidates) /\ Len(context) <= Limit /\ working \in 0..Len(context)
    /\ folds \in [Candidates -> Folds]
    /\ \A f \in Candidates : folds[f] = FoldOf(f, context)

\* A resident that was left out, though there was room for items, did not fit
\* and was not selected later.
LeftOut ==
    working < Limit =>
        \A f \in Resolved : \/ \E i \in 1..working : context[i] = f
                            \/ ~InContext(f) /\ ~Fits(context, f)

Sufficient == enough => ~Blocked /\ \E f \in ToSet(context) : IsAnswer(f)

\* What the end of the selection saw still holds when the reason is given.
Exhausted == (full <=> Going /\ TooLarge) /\ (Going => \A f \in Round : Worth(f) <= 0)

\* A process that raises the question records it before the reason is given.
Raised ==
    /\ stage = "asking" => question # None \/ \E p \in Procs : proc[p].pc \in {"unknown", "raise"}
    /\ stage \in {"emit", "done"} /\ Blocked => question # None

SelectionInv ==
    /\ Shape /\ Raised /\ ParaphraseStaysOut
    /\ Selected => Chosen /\ LeftOut /\ Sufficient
    /\ Ended => Exhausted
    /\ stage = "done" => reason = StoppingReason

\* What depends on the scene alone.
LEMMA SceneStays ==
    ASSUME UNCHANGED scene
    PROVE  /\ Candidates' = Candidates /\ Resolved' = Resolved /\ (Blocked' <=> Blocked)
           /\ \A f : Loss(f)' = Loss(f)
<1>1. Candidates' = Candidates
  BY DEF Candidates
<1>2. Resolved' = Resolved
  BY <1>1 DEF Resolved
<1>3. AskedByFacts' = AskedByFacts /\ RecordedUnknowns' = RecordedUnknowns
  BY DEF AskedByFacts, RecordedUnknowns
<1>4. Unknowns' = Unknowns
  BY <1>3 DEF Unknowns, RepresentedKeys
<1>5. Blocked' <=> Blocked
  BY <1>4 DEF Blocked
<1>6. ASSUME NEW f PROVE Relevance(f)' = Relevance(f)
  BY <1>1 DEF Relevance, Shared
<1>7. ASSUME NEW f PROVE Loss(f)' = Loss(f)
  BY <1>6 DEF Loss
<1> QED
  BY <1>1, <1>2, <1>5, <1>7

LEMMA SelectionStays ==
    ASSUME UNCHANGED <<scene, context, working, folds, slots, enough>>
    PROVE  /\ Chosen => Chosen'
           /\ LeftOut => LeftOut'
           /\ Sufficient => Sufficient'
           /\ ParaphraseStaysOut => ParaphraseStaysOut'
           /\ (Going' <=> Going) /\ (TooLarge' <=> TooLarge)
           /\ (Going => \A f \in Round : Worth(f) <= 0)
                <=> (Going => \A f \in Round : Worth(f) <= 0)'
           /\ full' = full => (StoppingReason' = StoppingReason)
<1>1. /\ Candidates' = Candidates /\ Resolved' = Resolved /\ (Blocked' <=> Blocked)
      /\ \A f : Loss(f)' = Loss(f)
  BY SceneStays
<1>2. Chosen => Chosen'
  BY <1>1 DEF Chosen
<1>3. LeftOut => LeftOut'
  BY <1>1 DEF LeftOut, InContext
<1>4. Sufficient => Sufficient'
  BY <1>1 DEF Sufficient
<1>5. ParaphraseStaysOut => ParaphraseStaysOut'
  BY DEF ParaphraseStaysOut
<1>6. Going' <=> Going
  BY DEF Going
<1>7. \A f : Worth(f)' = Worth(f) /\ (Eligible(f)' <=> Eligible(f)) /\ (InContext(f)' <=> InContext(f))
  BY <1>1 DEF Worth, Value, Eligible, InContext
<1>8. TooLarge' <=> TooLarge
  BY <1>1, <1>7 DEF TooLarge
<1>9. Round' = Round
  BY <1>1, <1>7 DEF Round
<1>10. (Going => \A f \in Round : Worth(f) <= 0) <=> (Going => \A f \in Round : Worth(f) <= 0)'
  BY <1>6, <1>7, <1>9
<1>11. Omitted' = Omitted
  BY <1>1 DEF Omitted
<1>12. ItemCeiling' <=> ItemCeiling
  <2>1. \A f : Value(f, FoldOf(f, context))' = Value(f, FoldOf(f, context))
    BY <1>1 DEF Value
  <2> QED
    BY <1>1, <1>7, <1>11, <2>1 DEF ItemCeiling
<1>13. full' = full => StoppingReason' = StoppingReason
  BY <1>1, <1>11, <1>12 DEF StoppingReason, ResidentsFilled
<1> QED
  BY <1>2, <1>3, <1>4, <1>5, <1>6, <1>8, <1>10, <1>13

\* The residents are taken, and what they mean to each candidate.
LEMMA BeginSelects ==
    ASSUME SelectionInv, Begin
    PROVE  SelectionInv'
<1>1. /\ stage = "begin" /\ stage' = "select" /\ scene \in Scenes /\ UNCHANGED <<scene, enough>>
      /\ ~enough /\ scene # Desk
  BY ProjectionAssumption DEF SelectionInv, Shape, Selected, Begin
<1> DEFINE R == Residents
           N == Len(R)
<1>2. /\ context' = R /\ working' = N
      /\ folds' = [f \in Candidates |-> FoldOf(f, R)]
  BY DEF Begin
<1>3. /\ Candidates' = Candidates /\ Resolved' = Resolved
  BY <1>1, SceneStays
<1>4. GoodFacts(Candidates) /\ Resolved \subseteq Candidates /\ Limit \in Nat
  BY <1>1, CandidatesAreGood, ProjectionAssumption DEF Resolved
<1>5. /\ R \in Seq(Resolved) /\ N <= Limit /\ \A f \in Resolved : Considered(f, R)
  BY <1>1, ResidentsAreBounded
<1> HIDE DEF R
<1>6. R \in Seq(Candidates) /\ N \in 0..N
  BY <1>4, <1>5
<1>7. Chosen'
  <2>1. \A f \in Candidates : FoldOf(f, R) \in Folds
    BY <1>4, <1>6, FoldSees
  <2> QED
    BY <1>2, <1>3, <1>5, <1>6, <2>1 DEF Chosen
<1>8. LeftOut'
  <2> SUFFICES ASSUME N < Limit, NEW f \in Resolved
               PROVE  \/ \E i \in 1..N : R[i] = f
                      \/ f \notin ToSet(R) /\ ~Fits(R, f)
    BY <1>2, <1>3 DEF LeftOut, InContext
  <2>1. ToSet(R) = {R[i] : i \in 1..N}
    BY DEF ToSet
  <2>2. N # Limit
    BY <1>4, <1>6
  <2> QED
    BY <1>5, <2>1, <2>2 DEF Considered
<1>9. ParaphraseStaysOut'
  <2>1. N + 1..N = {}
    BY <1>6
  <2> QED
    BY <1>2, <2>1 DEF ParaphraseStaysOut
<1>10. Sufficient'
  BY <1>1 DEF Sufficient
<1>11. Shape' /\ Raised' /\ ~Ended' /\ stage' # "done"
  BY <1>1 DEF Shape, Selected, Raised, Ended
<1> QED
  BY <1>7, <1>8, <1>9, <1>10, <1>11 DEF SelectionInv

LEMMA SelectSelects ==
    ASSUME SelectionInv, Select
    PROVE  SelectionInv'
<1> DEFINE N == Len(context)
           b == Best
<1>1. /\ stage = "select" /\ stage' = "select" /\ scene \in Scenes /\ scene # Desk
      /\ UNCHANGED <<scene, working>> /\ ~enough /\ N < Limit
  <2>1. /\ stage = "select" /\ UNCHANGED <<scene, stage, working>> /\ ~enough /\ N < Limit
    BY DEF Select, Selecting
  <2>2. scene \in Scenes /\ scene # Desk
    BY <2>1 DEF SelectionInv, Shape
  <2> QED
    BY <2>1, <2>2
<1>2. /\ context' = Append(context, b)
      /\ folds' = [f \in Candidates |-> Absorb(f, folds[f], b)]
      /\ enough' = (IsAnswer(b) /\ ~Blocked)
  BY DEF Select
<1>3. /\ Candidates' = Candidates /\ Resolved' = Resolved /\ (Blocked' <=> Blocked)
  BY <1>1, SceneStays
<1>4. GoodFacts(Candidates) /\ Limit \in Nat
  BY <1>1, CandidatesAreGood, ProjectionAssumption
<1>5. Chosen /\ LeftOut /\ ParaphraseStaysOut
  BY <1>1 DEF SelectionInv, Selected
<1>6. context \in Seq(Candidates) /\ N \in Nat /\ working \in 0..N
      /\ \A f \in Candidates : folds[f] \in Folds /\ folds[f] = FoldOf(f, context)
  BY <1>5 DEF Chosen
<1>7. b \in Round /\ b \in Candidates /\ Worth(b) > 0
  <2>1. PICK f \in Round : Worth(f) > 0
    BY DEF Select
  <2> QED
    BY <1>1, <1>6, <2>1, BestIsWorth
<1> HIDE DEF b
<1> DEFINE more == Append(context, b)
<1>8. /\ more \in Seq(Candidates) /\ Len(more) = N + 1 /\ more[N + 1] = b
      /\ \A i \in 1..N : more[i] = context[i]
  BY <1>6, <1>7
<1>9. ToSet(more) = ToSet(context) \cup {b}
  <2>1. ToSet(more) = {more[i] : i \in 1..(N + 1)} /\ ToSet(context) = {context[i] : i \in 1..N}
    BY <1>8 DEF ToSet
  <2>2. 1..(N + 1) = (1..N) \cup {N + 1}
    BY <1>6
  <2> HIDE DEF more
  <2>3. {more[i] : i \in (1..N) \cup {N + 1}} = {more[i] : i \in 1..N} \cup {more[N + 1]}
    OBVIOUS
  <2>4. {more[i] : i \in 1..N} = {context[i] : i \in 1..N}
    BY <1>8
  <2> QED
    BY <1>8, <2>1, <2>2, <2>3, <2>4
<1> HIDE DEF more
<1>10. Chosen'
  <2>1. \A f \in Candidates : Absorb(f, folds[f], b) = FoldOf(f, more)
    BY <1>4, <1>6, <1>7, FoldGrows DEF more
  <2>2. \A f \in Candidates : Absorb(f, folds[f], b) \in Folds
    BY <1>4, <1>6, <1>7, AbsorbIsAFold
  <2>3. N + 1 <= Limit /\ working \in 0..(N + 1)
    BY <1>1, <1>4, <1>6
  <2> QED
    BY <1>1, <1>2, <1>3, <1>8, <2>1, <2>2, <2>3 DEF Chosen, more
<1>11. LeftOut'
  <2> SUFFICES ASSUME working < Limit, NEW f \in Resolved
               PROVE  \/ \E i \in 1..working : more[i] = f
                      \/ f \notin ToSet(more) /\ ~Fits(more, f)
    BY <1>1, <1>2, <1>3 DEF LeftOut, InContext, more
  <2>1. CASE \E i \in 1..working : context[i] = f
    <3>1. 1..working \subseteq 1..N
      BY <1>6
    <3> QED
      BY <1>8, <2>1, <3>1
  <2>2. CASE ~(\E i \in 1..working : context[i] = f)
    <3>1. f \notin ToSet(context) /\ ~Fits(context, f)
      BY <1>5, <2>2 DEF LeftOut, InContext
    <3>2. f \in Candidates /\ Fits(context, b)
      BY <1>7 DEF Resolved, Round
    <3>3. ~Fits(more, f)
      BY <1>4, <1>6, <1>7, <3>1, <3>2, NeverFitsAgain DEF more
    <3> QED
      BY <1>9, <3>1, <3>2, <3>3
  <2> QED
    BY <2>1, <2>2
<1>12. Sufficient'
  BY <1>2, <1>3, <1>9 DEF Sufficient, more
<1>13. ParaphraseStaysOut'
  <2> SUFFICES ASSUME NEW i \in working + 1..N + 1, NEW j \in 1..i - 1,
                      Repeats(more[i], more[j]),
                      \A k \in 1..i - 1 : more[i].sources \cap more[k].sources = {}
               PROVE  FALSE
    BY <1>1, <1>2, <1>8 DEF ParaphraseStaysOut, more
  <2>1. i - 1 \in 0..N /\ 1..i - 1 \subseteq 1..N
    BY <1>6
  <2>2. \A k \in 1..i - 1 : more[k] = context[k]
    BY <1>8, <2>1
  <2>3. CASE i <= N
    <3>1. i \in working + 1..N /\ i \in 1..N
      BY <1>6, <2>3
    <3> QED
      BY <1>5, <1>8, <2>2, <3>1 DEF ParaphraseStaysOut
  <2>4. CASE ~(i <= N)
    <3>1. i = N + 1 /\ i - 1 = N
      BY <1>6, <2>4
    <3>2. Repeats(b, context[j]) /\ \A k \in 1..N : b.sources \cap context[k].sources = {}
      BY <1>8, <2>2, <3>1
    <3>3. j \in 1..N
      BY <3>1
    <3>4. ~(Value(b, FoldOf(b, context)) > 0)
      BY <1>1, <1>6, <1>7, <3>2, <3>3, ParaphraseIsWorthless
    <3> QED
      BY <1>6, <1>7, <3>4 DEF Worth
  <2> QED
    BY <2>3, <2>4
<1>14. Shape' /\ Raised' /\ ~Ended' /\ stage' # "done"
  BY <1>1, <1>6 DEF SelectionInv, Shape, Selected, Raised, Ended
<1> QED
  BY <1>10, <1>11, <1>12, <1>13, <1>14 DEF SelectionInv

LEMMA EndSelects ==
    ASSUME SelectionInv, End
    PROVE  SelectionInv'
<1>1. /\ stage = "select" /\ UNCHANGED <<scene, context, working, folds, slots, enough>>
      /\ stage' = IF Blocked THEN "ask" ELSE "emit"
  BY DEF End
<1>2. Chosen /\ LeftOut /\ Sufficient /\ ParaphraseStaysOut /\ Shape
  BY <1>1 DEF SelectionInv, Selected
<1>3. Chosen' /\ LeftOut' /\ Sufficient' /\ ParaphraseStaysOut'
  BY <1>1, <1>2, SelectionStays
<1>4. Selecting <=> Going
  BY <1>1 DEF Selecting, Going
<1>5. (full' <=> Going /\ TooLarge) /\ (Going => \A f \in Round : Worth(f) <= 0)
  BY <1>4 DEF End
<1>6. Exhausted'
  BY <1>1, <1>5, SelectionStays DEF Exhausted
<1>7. Blocked' <=> Blocked
  BY <1>1, SceneStays
<1>8. Shape' /\ Raised' /\ stage' # "done"
  BY <1>1, <1>2, <1>7 DEF Shape, Selected, Raised
<1> QED
  BY <1>3, <1>6, <1>8 DEF SelectionInv

\* Once the selection has ended it stays as it is.
LEMMA EndedStays ==
    ASSUME SelectionInv, Ended, Ended', UNCHANGED <<scene, selection>>, Raised',
           stage' = "done" => reason' = StoppingReason
    PROVE  SelectionInv'
<1>1. UNCHANGED <<scene, context, working, folds, slots, enough, full>>
  BY DEF selection
<1>2. Selected /\ Selected' /\ stage # "desk" /\ stage' # "desk"
  BY DEF Ended, Selected
<1>3. Chosen /\ LeftOut /\ Sufficient /\ ParaphraseStaysOut /\ Shape /\ Exhausted
  BY <1>2 DEF SelectionInv
<1>4. Chosen' /\ LeftOut' /\ Sufficient' /\ ParaphraseStaysOut'
  BY <1>1, <1>3, SelectionStays
<1>5. Exhausted'
  BY <1>1, <1>3, SelectionStays DEF Exhausted
<1>6. stage' = "done" => (reason = StoppingReason)'
  BY <1>1, SelectionStays
<1>7. Shape'
  BY <1>1, <1>2, <1>3 DEF Shape
<1> QED
  BY <1>2, <1>4, <1>5, <1>6, <1>7 DEF SelectionInv

LEMMA AskSelects ==
    ASSUME SelectionInv, QuestionsInv, NEW p \in Procs, Ask(p)
    PROVE  SelectionInv'
<1>1. /\ Raise(p) /\ stage = "ask" /\ stage' = "asking" /\ UNCHANGED <<scene, selection, reason>>
  BY DEF Ask
<1>2. proc'[p].pc \in {"unknown", "raise"}
  BY <1>1, RaiseFounds
<1>3. Ended /\ Ended' /\ Raised' /\ stage' # "done"
  BY <1>1, <1>2 DEF Ended, Raised
<1> QED
  BY <1>1, <1>3, EndedStays

\* The process that raises the question records the Unknown, then the question.
LEMMA RaisingSelects ==
    ASSUME SelectionInv, QuestionsInv, stage = "asking", OnTheDesk, NEW p \in Procs,
           PersistUnknown(p) \/ RecordRaised(p)
    PROVE  SelectionInv'
<1>1. stage' = "asking" /\ UNCHANGED <<scene, selection, reason>>
  BY DEF OnTheDesk
<1>2. Raised'
  <2>1. CASE PersistUnknown(p)
    BY <1>1, <2>1, PersistUnknownFounds DEF Raised
  <2>2. CASE RecordRaised(p)
    BY <1>1, <2>2, RecordRaisedFounds DEF Raised
  <2> QED
    BY <2>1, <2>2
<1>3. Ended /\ Ended' /\ stage' # "done"
  BY <1>1 DEF Ended
<1> QED
  BY <1>1, <1>2, <1>3, EndedStays

LEMMA AskedSelects ==
    ASSUME SelectionInv, Asked
    PROVE  SelectionInv'
<1>1. /\ stage = "asking" /\ stage' = "emit" /\ UNCHANGED <<questionVars, scene, selection, reason>>
      /\ \A p \in Procs : proc[p] = Idle
  BY DEF Asked
<1>2. question # None
  BY <1>1 DEF SelectionInv, Raised, Idle
<1>3. Ended /\ Ended' /\ Raised' /\ stage' # "done"
  BY <1>1, <1>2 DEF Ended, Raised, questionVars
<1> QED
  BY <1>1, <1>3, EndedStays

LEMMA EmitSelects ==
    ASSUME SelectionInv, Emit
    PROVE  SelectionInv'
<1>1. /\ stage = "emit" /\ stage' = "done" /\ UNCHANGED <<questionVars, scene, selection>>
      /\ reason' = StoppingReason
  BY DEF Emit
<1>2. Blocked' <=> Blocked
  BY <1>1, SceneStays
<1>3. Ended /\ Ended' /\ Raised'
  BY <1>1, <1>2 DEF Ended, Raised, questionVars, SelectionInv
<1> QED
  BY <1>1, <1>3, EndedStays

\* Nothing is selected where commands run.
LEMMA DeskSelects ==
    ASSUME SelectionInv, stage = "desk", OnTheDesk
    PROVE  SelectionInv'
<1>1. UNCHANGED <<scene, stage, context, working, folds, slots, enough>>
  BY DEF OnTheDesk, selection
<1>2. ParaphraseStaysOut'
  BY <1>1, SelectionStays DEF SelectionInv
<1> QED
  BY <1>1, <1>2 DEF SelectionInv, Shape, Selected, Ended, Raised

LEMMA SelectionStutters ==
    ASSUME SelectionInv, UNCHANGED vars
    PROVE  SelectionInv'
<1>1. UNCHANGED <<scene, stage, context, working, folds, slots, enough, full, reason, question, proc>>
  BY DEF vars, selection, questionVars
<1>2. /\ Chosen => Chosen'
      /\ LeftOut => LeftOut'
      /\ Sufficient => Sufficient'
      /\ ParaphraseStaysOut => ParaphraseStaysOut'
      /\ StoppingReason' = StoppingReason
  BY <1>1, SelectionStays
<1>3. Exhausted => Exhausted'
  BY <1>1, SelectionStays DEF Exhausted
<1>4. Blocked' <=> Blocked
  BY <1>1, SceneStays
<1>5. (Shape => Shape') /\ (Raised => Raised') /\ (Selected' <=> Selected) /\ (Ended' <=> Ended)
  BY <1>1, <1>4 DEF Shape, Raised, Selected, Ended
<1> QED
  BY <1>1, <1>2, <1>3, <1>5 DEF SelectionInv

LEMMA SelectionStarts == Init => SelectionInv
<1> SUFFICES ASSUME Init PROVE SelectionInv
  OBVIOUS
<1>1. context = <<>> /\ working = 0 /\ enough = FALSE
      /\ \/ scene = Desk /\ stage = "desk"
         \/ scene \in Scenes /\ stage = "begin"
  BY DEF Init
<1>2. Shape /\ Raised /\ ~Selected /\ ~Ended /\ stage # "done"
  BY <1>1, ProjectionAssumption DEF Shape, Raised, Selected, Ended
<1>3. ParaphraseStaysOut
  <2>1. Len(<<>>) = 0 /\ 0 + 1..0 = {}
    OBVIOUS
  <2> QED
    BY <1>1, <2>1 DEF ParaphraseStaysOut
<1> QED
  BY <1>2, <1>3 DEF SelectionInv

LEMMA SelectionMoves ==
    ASSUME SelectionInv, QuestionsInv, [Next]_vars
    PROVE  SelectionInv'
<1>1. ASSUME NEW p \in Procs, Ask(p) PROVE SelectionInv'
  BY <1>1, AskSelects
<1>2. ASSUME stage = "asking", OnTheDesk, NEW p \in Procs, PersistUnknown(p) \/ RecordRaised(p)
      PROVE  SelectionInv'
  BY <1>2, RaisingSelects
<1> QED
  BY <1>1, <1>2, BeginSelects, SelectSelects, EndSelects, AskedSelects, EmitSelects, DeskSelects,
     SelectionStutters DEF Next

-----------------------------------------------------------------------------
(* What the invariant says of a projection *)

\* Each reason is given where it is so.
LEMMA ReasonsAreTrue == SelectionInv => ReasonIsTrue
<1> SUFFICES ASSUME SelectionInv, stage = "done"
             PROVE  CASE reason = "nonpositive_net_marginal_value" ->
                           \A f \in WorthLeft : f.company /\ slots >= DirectionSlots
                      [] reason = "byte_ceiling_reached" -> \E f \in WorthLeft : ~Fits(context, f)
                      [] reason = "item_ceiling_reached" -> Len(context) = Limit /\ Left # {}
                      [] reason = "sufficiency_predicate_met" ->
                           ~Blocked /\ \E f \in ToSet(context) : IsAnswer(f)
                      [] reason = "authority_question_raised" -> question # None
                      [] OTHER -> TRUE
  BY DEF ReasonIsTrue
<1>1. Chosen /\ LeftOut /\ Sufficient /\ Exhausted /\ reason = StoppingReason /\ scene \in Scenes
  BY DEF SelectionInv, Shape, Selected, Ended
<1>2. /\ context \in Seq(Candidates) /\ Len(context) \in Nat /\ Len(context) <= Limit
      /\ working \in 0..Len(context) /\ Limit \in Nat
  BY <1>1, ProjectionAssumption DEF Chosen
<1>3. ASSUME NEW f \in Candidates
      PROVE  Worth(f) = Value(f, FoldOf(f, context)) /\ Worth(f) \in Int
  BY <1>1, ValueIsANumber DEF Chosen, Worth
<1>4. ASSUME reason = "nonpositive_net_marginal_value", NEW f \in WorthLeft
      PROVE  f.company /\ slots >= DirectionSlots
  <2>1. ~enough /\ ~ItemCeiling /\ ~full
    BY <1>1, <1>4 DEF StoppingReason
  <2>2. f \in Candidates /\ ~InContext(f) /\ Value(f, FoldOf(f, context)) > 0
    BY DEF WorthLeft, Left
  <2>3. Going
    <3>1. ~(Len(context) >= Limit)
      BY <2>1, <2>2 DEF ItemCeiling
    <3> QED
      BY <1>2, <2>1, <3>1 DEF Going
  <2>4. Worth(f) > 0 /\ ~(Worth(f) <= 0)
    BY <1>3, <2>2
  <2>5. ~(Eligible(f) /\ Fits(context, f))
    BY <1>1, <2>2, <2>3, <2>4 DEF Exhausted, Round
  <2>6. ~(Eligible(f) /\ ~Fits(context, f))
    BY <1>1, <2>1, <2>2, <2>3, <2>4 DEF Exhausted, TooLarge
  <2> QED
    BY <2>2, <2>5, <2>6 DEF Eligible
<1>5. ASSUME reason = "byte_ceiling_reached"
      PROVE  \E f \in WorthLeft : ~Fits(context, f)
  <2>1. full
    BY <1>1, <1>5 DEF StoppingReason
  <2>2. PICK f \in Candidates : Eligible(f) /\ ~Fits(context, f) /\ Worth(f) > 0
    BY <1>1, <2>1 DEF Exhausted, TooLarge
  <2>3. f \in WorthLeft
    BY <1>3, <2>2 DEF WorthLeft, Left, Eligible
  <2> QED
    BY <2>2, <2>3
<1>6. ASSUME reason = "item_ceiling_reached"
      PROVE  Len(context) = Limit /\ Left # {}
  <2>1. ~ResidentsFilled /\ ItemCeiling
    BY <1>1, <1>6 DEF StoppingReason
  <2>2. Len(context) = Limit /\ working < Limit
    BY <1>2, <2>1 DEF ItemCeiling, ResidentsFilled
  <2>3. CASE Omitted > 0
    <3> DEFINE kept == {context[i] : i \in 1..working}
    <3>1. \E f \in Resolved : f \notin kept
      <4> SUFFICES ASSUME Resolved \subseteq kept PROVE FALSE
        OBVIOUS
      <4>1. IsFiniteSet(1..working) /\ Cardinality(1..working) = working
        BY <1>2, FS_Interval
      <4>2. IsFiniteSet(kept) /\ Cardinality(kept) <= working
        <5> DEFINE I == 1..working
                   at == [i \in I |-> context[i]]
        <5>1. at \in Surjection(I, kept) /\ IsFiniteSet(I) /\ Cardinality(I) = working
          BY <4>1 DEF Surjection
        <5> HIDE DEF at, I, kept
        <5> QED
          BY <5>1, FS_Surjection
      <4>3. Cardinality(Resolved) <= Cardinality(kept)
        BY <4>2, FS_Subset
      <4>4. Cardinality(Resolved) \in Nat /\ Cardinality(kept) \in Nat
        BY <1>1, <4>2, RanksAreOrdered, FS_CardinalityType
      <4> QED
        BY <1>2, <2>3, <4>2, <4>3, <4>4 DEF Omitted
    <3>2. PICK f \in Resolved : f \notin kept
      BY <3>1
    <3>3. ~InContext(f)
      BY <1>1, <2>2, <3>2 DEF LeftOut
    <3> QED
      BY <2>2, <3>2, <3>3 DEF Left, Resolved
  <2>4. CASE ~(Omitted > 0)
    BY <2>1, <2>2, <2>4 DEF ItemCeiling, Left
  <2> QED
    BY <2>2, <2>3, <2>4
<1>7. ASSUME reason = "sufficiency_predicate_met"
      PROVE  ~Blocked /\ \E f \in ToSet(context) : IsAnswer(f)
  BY <1>1, <1>7 DEF StoppingReason, Sufficient
<1>8. ASSUME reason = "authority_question_raised"
      PROVE  question # None
  BY <1>1, <1>8 DEF StoppingReason, SelectionInv, Raised
<1> QED
  BY <1>4, <1>5, <1>6, <1>7, <1>8

\* A fact that may not be trusted asks, or its key does.
LEMMA NobodyIsSilent == NothingIsSilent
<1> SUFFICES ASSUME NEW f \in scene.facts, ~Selectable(f), UnknownOf(f).id \notin scene.closed
             PROVE  \E u \in Unknowns : u.key = f.key
  BY DEF NothingIsSilent
<1>1. UnknownOf(f).key = f.key
  BY DEF UnknownOf
<1>2. CASE f.kind = "question"
  BY <1>1, <1>2 DEF Unknowns, AskedByFacts
<1>3. CASE f.kind # "question" /\ f.key \notin RepresentedKeys
  BY <1>1, <1>3 DEF Unknowns
<1>4. CASE f.key \in RepresentedKeys
  BY <1>4 DEF Unknowns, RepresentedKeys
<1> QED
  BY <1>2, <1>3, <1>4

\* The folds that are carried are the scans of the whole context; the reason that
\* is given is the one that ended the selection; what may not be trusted leaves an
\* Unknown; and a paraphrase of the context, of a source of its own, is not selected.
THEOREM ProjectionIsHonestAlways == Spec => []ProjectionIsHonest
<1>1. Init => SelectionInv /\ QuestionsInv
  BY SelectionStarts, QuestionsStart DEF Init
<1>2. SelectionInv /\ QuestionsInv /\ [Next]_vars => SelectionInv' /\ QuestionsInv'
  BY SelectionMoves, ProjectionMovesQuestions, QuestionsMove
<1>3. SelectionInv => ProjectionIsHonest
  <2>1. SelectionInv => FoldsAreScans
    BY DEF SelectionInv, Selected, Chosen, FoldsAreScans
  <2> QED
    BY <2>1, ReasonsAreTrue, NobodyIsSilent DEF SelectionInv, ProjectionIsHonest
<1> QED
  BY <1>1, <1>2, <1>3, PTL DEF Spec

=============================================================================
