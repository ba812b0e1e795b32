-------------------------- MODULE PersonalLedgerProofs --------------------------
(* What holds of a Personal ledger, its index and its dream, for any number of *)
(* records, writers, readers, appends, compactions and crashes.                *)
(*                                                                             *)
(* The argument has two halves.  The file: a line that is whole is never       *)
(* changed where it stands, a compaction holds what its ledger held, and what  *)
(* is on the disk is a part of both files the name may lead to after a power   *)
(* cut; so every step is one of RecordLog, or nothing to it.  The index: as    *)
(* long as none outlived its lines, an index or a draft that names a file      *)
(* somebody may still read follows it and leaves out no line that the append   *)
(* that wrote it had ended.                                                    *)
EXTENDS PersonalLedger, FiniteSetTheorems, SequenceTheorems, WellFoundedInduction, TLAPS

-----------------------------------------------------------------------------
(* Numbers *)

\* A set of sets of a finite set has a least member.
LEMMA SmallestSet ==
  ASSUME NEW S, IsFiniteSet(S), NEW T \in SUBSET SUBSET S, T # {}
  PROVE  \E X \in T : \A Y \in T : Y \subseteq X => Y = X
<1>1. IsWellFoundedOn(StrictSubsetOrdering(S), SUBSET S)
  BY FS_StrictSubsetOrderingWellFounded, FS_FiniteSubsetsOfFinite
<1>2. PICK X \in T : \A Y \in T : ~(<<Y, X>> \in StrictSubsetOrdering(S))
  BY <1>1, WFMin
<1> QED
  BY <1>2 DEF StrictSubsetOrdering

\* The numbers up to n are n.
LEMMA Interval ==
  ASSUME NEW n \in Nat
  PROVE  IsFiniteSet(1..n) /\ Cardinality(1..n) = n
<1>1. IsFiniteSet(1..n) /\ Cardinality(1..n) = IF 1 > n THEN 0 ELSE n - 1 + 1
  BY FS_Interval
<1>2. (IF 1 > n THEN 0 ELSE n - 1 + 1) = n
  OBVIOUS
<1> QED
  BY <1>1, <1>2

\* A set of line numbers has a first one.
LEMMA LeastOf ==
  ASSUME NEW n \in Nat, NEW D \in SUBSET (1..n), D # {}
  PROVE  /\ \E m \in D : \A k \in D : m <= k
         /\ Min(D) \in D /\ \A k \in D : Min(D) <= k
<1> DEFINE T == {1..k : k \in D}
<1>1. IsFiniteSet(1..n)
  BY Interval
<1>2. T \in SUBSET SUBSET (1..n) /\ T # {}
  <2>1. \A k \in D : 1..k \in SUBSET (1..n)
    OBVIOUS
  <2>2. PICK k \in D : TRUE
    OBVIOUS
  <2> QED
    BY <2>1, <2>2, Zenon
<1>3. PICK X \in T : \A Y \in T : Y \subseteq X => Y = X
  <2> DEFINE I == 1..n
  <2>1. IsFiniteSet(I) /\ T \in SUBSET SUBSET I /\ T # {}
    BY <1>1, <1>2
  <2> HIDE DEF T, I
  <2> QED
    BY <2>1, SmallestSet
<1>4. PICK m \in D : X = 1..m
  OBVIOUS
<1>5. ASSUME NEW k \in D, ~(m <= k) PROVE FALSE
  <2>1. 1..k \in T /\ 1..k \subseteq X /\ m \in X /\ m \notin 1..k
    BY <1>4, <1>5
  <2> QED
    BY <1>3, <2>1
<1>6. \E x \in D : \A y \in D : x <= y
  BY <1>5
<1>7. Min(D) \in D /\ \A k \in D : Min(D) <= k
  BY <1>6 DEF Min
<1> QED
  BY <1>6, <1>7

\* The members of a set of line numbers are numbered by Nth, each once.
LEMMA Numbered ==
  ASSUME NEW n \in Nat, NEW S \in SUBSET (1..n)
  PROVE  /\ IsFiniteSet(S) /\ Cardinality(S) \in Nat
         /\ \A i \in 1..Cardinality(S) : Nth(S, i) \in S
         /\ \A i, j \in 1..Cardinality(S) : Nth(S, i) = Nth(S, j) => i = j
         /\ \A k \in S : \E i \in 1..Cardinality(S) : Nth(S, i) = k
<1> DEFINE Upto(k) == {j \in S : j <= k}
           rank == [k \in S |-> Cardinality(Upto(k))]
           N == Cardinality(S)
<1>1. IsFiniteSet(S) /\ N \in Nat
  BY Interval, FS_Subset, FS_CardinalityType
<1>2. ASSUME NEW k \in S PROVE IsFiniteSet(Upto(k)) /\ rank[k] \in 1..N
  <2>1. IsFiniteSet(Upto(k)) /\ Cardinality(Upto(k)) <= N /\ Cardinality(Upto(k)) \in Nat
    <3>1. Upto(k) \in SUBSET S
      OBVIOUS
    <3> QED
      BY <3>1, <1>1, FS_Subset, FS_CardinalityType
  <2>2. Cardinality(Upto(k)) # 0
    <3>1. k \in Upto(k)
      OBVIOUS
    <3> QED
      BY <3>1, <2>1, FS_EmptySet
  <2> QED
    BY <2>1, <2>2, <1>1
<1>3. ASSUME NEW k \in S, NEW j \in S, j < k PROVE rank[j] # rank[k]
  <2>1. Upto(j) \in SUBSET Upto(k) /\ k \in Upto(k) /\ k \notin Upto(j)
    <3>1. \A x \in S : x \in Nat
      OBVIOUS
    <3>2. k \in Nat /\ j \in Nat /\ j < k
      BY <1>3, <3>1
    <3>3. \A x \in S : x <= j => x <= k
      BY <3>1, <3>2
    <3>4. k <= k /\ ~(k <= j)
      BY <3>2
    <3> QED
      BY <3>3, <3>4
  <2>2. IsFiniteSet(Upto(k)) /\ Upto(j) # Upto(k)
    BY <2>1, <1>2
  <2>3. Cardinality(Upto(j)) # Cardinality(Upto(k))
    <3> HIDE DEF Upto
    <3> QED
      BY <2>1, <2>2, FS_Subset
  <2> QED
    BY <2>3
<1>4. rank \in Injection(S, 1..N)
  <2>1. rank \in [S -> 1..N]
    BY <1>2
  <2>2. \A j, k \in S : rank[j] = rank[k] => j = k
    <3>1. \A j, k \in S : j < k \/ k < j \/ j = k
      OBVIOUS
    <3> HIDE DEF rank
    <3>2. \A j, k \in S : j < k => rank[j] # rank[k]
      BY <1>3
    <3> QED
      BY <3>1, <3>2
  <2> HIDE DEF rank
  <2> QED
    BY <2>1, <2>2 DEF Injection, IsInjective
<1>5. rank \in Surjection(S, 1..N)
  <2> HIDE DEF rank
  <2> QED
    BY <1>1, <1>4, Interval, FS_Injection
<1>6. ASSUME NEW i \in 1..N PROVE Nth(S, i) \in S /\ rank[Nth(S, i)] = i
  <2>1. PICK k \in S : rank[k] = i
    <3> HIDE DEF rank
    <3> QED
      BY <1>5 DEF Surjection
  <2>2. Cardinality({j \in S : j <= k}) = i
    BY <2>1
  <2>3. Nth(S, i) \in S /\ Cardinality({j \in S : j <= Nth(S, i)}) = i
    BY <2>2 DEF Nth
  <2> QED
    BY <2>3
<1>7. ASSUME NEW k \in S PROVE Nth(S, rank[k]) = k /\ rank[k] \in 1..N
  <2>1. rank[k] \in 1..N
    BY <1>2
  <2>2. Nth(S, rank[k]) \in S /\ rank[Nth(S, rank[k])] = rank[k]
    <3>1. PICK i \in 1..N : i = rank[k]
      BY <2>1
    <3> QED
      BY <3>1, <1>6
  <2>3. \A x, y \in S : rank[x] = rank[y] => x = y
    <3> HIDE DEF rank
    <3> QED
      BY <1>4 DEF Injection, IsInjective
  <2> QED
    BY <2>1, <2>2, <2>3
<1> QED
  BY <1>1, <1>6, <1>7

-----------------------------------------------------------------------------
(* Files *)

\* The shape of a file: only its last line may be unterminated.
Text(f) == f \in Seq(Lines) /\ \A n \in 1 .. Len(f) - 1 : Terminated(f[n])

\* g holds the whole lines of f where f holds them.
Continues(f, g) ==
  /\ Text(g)
  /\ Whole(f) <= Whole(g)
  /\ \A k \in 1 .. Whole(f) : g[k] = f[k]

\* The whole lines of a file, and the line after them if there is one.
LEMMA WholeLines ==
  ASSUME NEW f, Text(f)
  PROVE  /\ Len(f) \in Nat /\ DOMAIN f = 1..Len(f) /\ Whole(f) \in Nat
         /\ Whole(f) <= Len(f)
         /\ \A k \in 1..Len(f) : f[k] \in Lines
         /\ \A k \in 1..Whole(f) : Terminated(f[k])
         /\ \/ Whole(f) = Len(f)
            \/ Len(f) = Whole(f) + 1 /\ ~Terminated(f[Len(f)])
         /\ Whole(f) # Len(f) <=> (Len(f) # 0 /\ ~Terminated(f[Len(f)]))
<1>1. Len(f) \in Nat /\ DOMAIN f = 1..Len(f) /\ \A k \in 1..Len(f) : f[k] \in Lines
  BY LenProperties, ElementOfSeq DEF Text
<1>2. f # <<>> <=> Len(f) # 0
  BY EmptySeq, SMTT(40) DEF Text
<1>3. CASE f # <<>> /\ ~Terminated(Last(f))
  <2>1. PICK n : n = Len(f)
    OBVIOUS
  <2>2. n \in Nat /\ n # 0 /\ Whole(f) = n - 1 /\ ~Terminated(f[n])
    BY <1>1, <1>2, <1>3, <2>1 DEF Whole, Last
  <2>3. \A k \in 1 .. n - 1 : Terminated(f[k])
    BY <2>1 DEF Text
  <2>4. PICK w : w = Whole(f)
    OBVIOUS
  <2>5. w \in Nat /\ w <= n /\ w # n /\ n = w + 1 /\ \A k \in 1..w : Terminated(f[k])
    BY <2>2, <2>3, <2>4
  <2> QED
    BY <1>1, <2>1, <2>2, <2>4, <2>5
<1>4. CASE ~(f # <<>> /\ ~Terminated(Last(f)))
  <2>1. PICK n : n = Len(f)
    OBVIOUS
  <2>2. n \in Nat /\ Whole(f) = n /\ (n # 0 => Terminated(f[n]))
    BY <1>1, <1>2, <1>4, <2>1 DEF Whole, Last
  <2>3. \A k \in 1 .. n - 1 : Terminated(f[k])
    BY <2>1 DEF Text
  <2>4. \A k \in 1..n : k \in 1 .. n - 1 \/ k = n
    BY <2>2
  <2>5. \A k \in 1..n : Terminated(f[k])
    BY <2>2, <2>3, <2>4
  <2> QED
    BY <1>1, <2>1, <2>2, <2>5, SMTT(40)
<1> QED
  BY <1>3, <1>4

\* What a file holds.
LEMMA InHeld ==
  ASSUME NEW f, Text(f), NEW d
  PROVE  d \in HeldIn(f) <=> \E k \in 1..Len(f) : Readable(f[k]) /\ IdentityOf[f[k].rec] = d
BY WholeLines DEF HeldIn

\* The beginning of a file is a file.
LEMMA Beginning ==
  ASSUME NEW f, Text(f), NEW n \in 0..Len(f), NEW g, g = SubSeq(f, 1, n)
  PROVE  /\ Text(g) /\ Len(g) = n /\ \A k \in 1..n : g[k] = f[k]
         /\ HeldIn(g) \subseteq HeldIn(f)
<1>1. Len(f) \in Nat /\ \A k \in 1..Len(f) : f[k] \in Lines
  BY WholeLines
<1>2. n \in Int /\ \A k \in 1..n : f[k] \in Lines
  BY <1>1
<1>3. g \in Seq(Lines) /\ Len(g) = (IF 1 <= n THEN n - 1 + 1 ELSE 0)
      /\ \A k \in 1 .. n - 1 + 1 : g[k] = f[1 + k - 1]
  BY <1>2, SubSeqProperties
<1>4. Len(g) = n /\ \A k \in 1..n : g[k] = f[k]
  BY <1>1, <1>3
<1>5. Text(g)
  BY <1>1, <1>3, <1>4 DEF Text
<1>6. HeldIn(g) \subseteq HeldIn(f)
  <2>1. ASSUME NEW d \in HeldIn(g) PROVE d \in HeldIn(f)
    <3>1. PICK k \in 1..Len(g) : Readable(g[k]) /\ IdentityOf[g[k].rec] = d
      BY <1>5, <2>1, InHeld
    <3>2. k \in 1..Len(f) /\ Readable(f[k]) /\ IdentityOf[f[k].rec] = d
      BY <1>1, <1>4, <3>1
    <3> QED
      BY <3>2, InHeld
  <2> QED
    BY <2>1
<1> QED
  BY <1>4, <1>5, <1>6

\* A line is terminated and stays what it was.
LEMMA Ending ==
  ASSUME NEW l \in Lines, NEW how \in {"unchecked", "mended"},
         NEW m, m = [End(l) EXCEPT !.how = how]
  PROVE  /\ m \in Lines /\ Terminated(m) /\ m.rec = l.rec /\ m.how = how
         /\ Readable(m) <=> Readable(l)
<1>1. PICK form \in {"record", "torn"} : form = IF Readable(l) THEN "record" ELSE "torn"
  OBVIOUS
<1>2. l \in [rec : Records, form : {"record", "torn", "bare", "cut"},
             how : {"checked", "unchecked", "mended"}]
  BY DEF Lines
<1>3. PICK e : e = [l EXCEPT !.form = form]
  OBVIOUS
<1>4. e \in Lines /\ e.rec = l.rec /\ e.form = form
  BY <1>2, <1>3 DEF Lines
<1>5. m = [e EXCEPT !.how = how]
  BY <1>1, <1>3 DEF End
<1>6. m \in Lines /\ m.rec = l.rec /\ m.form = form /\ m.how = how
  BY <1>4, <1>5 DEF Lines
<1> QED
  BY <1>1, <1>6 DEF Terminated, Readable

\* Terminating the last line leaves the whole lines alone.
LEMMA MendedLines ==
  ASSUME NEW f, Text(f), NEW g, g = Mended(f)
  PROVE  /\ Text(g) /\ Len(g) = Len(f) /\ Whole(g) = Len(g)
         /\ \A k \in 1 .. Whole(f) : g[k] = f[k]
         /\ \A k \in Whole(f) + 1 .. Len(f) :
               g[k].rec = f[k].rec /\ g[k].how = "mended" /\ (Readable(g[k]) <=> Readable(f[k]))
<1>1. /\ Len(f) \in Nat /\ Whole(f) \in Nat
      /\ \A k \in 1..Len(f) : f[k] \in Lines
      /\ \A k \in 1..Whole(f) : Terminated(f[k])
      /\ \/ Whole(f) = Len(f)
         \/ Len(f) = Whole(f) + 1 /\ ~Terminated(f[Len(f)])
  BY WholeLines
<1>2. CASE Whole(f) = Len(f)
  BY <1>1, <1>2 DEF Mended
<1>3. CASE Len(f) = Whole(f) + 1
  <2>1. PICK n : n = Len(f)
    OBVIOUS
  <2>2. PICK h : h = SubSeq(f, 1, n - 1)
    OBVIOUS
  <2>3. n - 1 \in 0..Len(f) /\ n - 1 = Whole(f) /\ n \in 1..Len(f) /\ n \in Nat
    BY <1>1, <1>3, <2>1
  <2>4. Text(h) /\ Len(h) = n - 1 /\ \A k \in 1 .. n - 1 : h[k] = f[k]
    BY <2>2, <2>3, Beginning, ZenonT(60)
  <2>5. PICK m : m = [End(f[n]) EXCEPT !.how = "mended"]
    OBVIOUS
  <2>6. m \in Lines /\ Terminated(m) /\ m.rec = f[n].rec /\ m.how = "mended"
        /\ (Readable(m) <=> Readable(f[n]))
    <3>1. PICK l : l = f[n]
      OBVIOUS
    <3>2. l \in Lines
      BY <1>1, <2>3, <3>1
    <3>3. m = [End(l) EXCEPT !.how = "mended"]
      BY <2>5, <3>1
    <3>4. m \in Lines /\ Terminated(m) /\ m.rec = l.rec /\ m.how = "mended" /\ (Readable(m) <=> Readable(l))
      BY <3>2, <3>3, Ending
    <3> QED
      BY <3>1, <3>4
  <2>7. g = Append(h, m)
    BY <1>1, <1>3, <2>1, <2>2, <2>5 DEF Mended, Front, Last
  <2>8. g \in Seq(Lines) /\ Len(g) = n /\ g[n] = m /\ \A k \in 1 .. n - 1 : g[k] = f[k]
    BY <2>3, <2>4, <2>6, <2>7, AppendProperties DEF Text
  <2>9. Text(g)
    BY <1>1, <2>3, <2>8 DEF Text
  <2>10. Whole(g) = Len(g)
    BY <2>3, <2>6, <2>8, <2>9, WholeLines
  <2> QED
    BY <2>1, <2>3, <2>6, <2>8, <2>9, <2>10
<1> QED
  BY <1>1, <1>2, <1>3

\* A line is written after the whole lines, which stay.
LEMMA WrittenLines ==
  ASSUME NEW f, Text(f), NEW l \in Lines, NEW g, g = Written(f, l.rec, l.form, l.how)
  PROVE  /\ Continues(f, g) /\ Len(g) = Len(f) + 1 /\ g[Len(g)] = l
         /\ Terminated(l) => Whole(g) = Len(g)
         /\ ~Terminated(l) => Whole(g) = Len(f)
         /\ \A k \in Whole(f) + 1 .. Len(f) : g[k].how = "mended"
         /\ \A k \in 1 .. Len(f) : g[k].rec = f[k].rec /\ (Readable(g[k]) <=> Readable(f[k]))
<1>1. PICK m : m = Mended(f)
  OBVIOUS
<1>2. /\ Text(m) /\ Len(m) = Len(f) /\ Whole(m) = Len(m)
      /\ \A k \in 1 .. Whole(f) : m[k] = f[k]
      /\ \A k \in Whole(f) + 1 .. Len(f) :
            m[k].rec = f[k].rec /\ m[k].how = "mended" /\ (Readable(m[k]) <=> Readable(f[k]))
  BY <1>1, MendedLines
<1>3. /\ Len(f) \in Nat /\ Whole(f) \in Nat /\ Whole(f) <= Len(f)
      /\ \A k \in 1..Len(m) : m[k] \in Lines /\ Terminated(m[k])
  BY <1>2, WholeLines
<1>4. l = [rec |-> l.rec, form |-> l.form, how |-> l.how]
  BY DEF Lines
<1>5. g = Append(m, l)
  BY <1>1, <1>4 DEF Written
<1>6. g \in Seq(Lines) /\ Len(g) = Len(f) + 1 /\ g[Len(g)] = l
      /\ \A k \in 1 .. Len(f) : g[k] = m[k]
  BY <1>2, <1>5, AppendProperties DEF Text
<1>7. Text(g)
  <2>1. \A k \in 1 .. Len(g) - 1 : k \in 1..Len(m)
    BY <1>2, <1>3, <1>6
  <2> QED
    BY <1>2, <1>3, <1>6, <2>1 DEF Text
<1>8. (Terminated(l) => Whole(g) = Len(g)) /\ (~Terminated(l) => Whole(g) = Len(f))
  <2>1. /\ Len(g) \in Nat /\ Whole(g) \in Nat
        /\ Whole(g) = Len(g) \/ Len(g) = Whole(g) + 1
        /\ Whole(g) # Len(g) <=> (Len(g) # 0 /\ ~Terminated(g[Len(g)]))
    BY <1>7, WholeLines
  <2>2. Whole(g) # Len(g) <=> ~Terminated(l)
    BY <1>3, <1>6, <2>1
  <2> QED
    BY <1>3, <1>6, <2>1, <2>2
<1>9. \A k \in 1..Len(f) : g[k].rec = f[k].rec /\ (Readable(g[k]) <=> Readable(f[k]))
  <2>1. \A k \in 1..Len(f) : k \in 1..Whole(f) \/ k \in Whole(f) + 1 .. Len(f)
    BY <1>3
  <2> QED
    BY <1>2, <1>6, <2>1
<1>10. \A k \in Whole(f) + 1 .. Len(f) : g[k].how = "mended"
  BY <1>2, <1>3, <1>6
<1>11. Continues(f, g)
  <2>1. Whole(f) <= Whole(g)
    BY <1>3, <1>6, <1>8
  <2>2. \A k \in 1..Whole(f) : g[k] = f[k]
    BY <1>2, <1>3, <1>6
  <2> QED
    BY <1>7, <2>1, <2>2 DEF Continues
<1> QED
  BY <1>6, <1>8, <1>9, <1>10, <1>11

\* A line adds the record it spells, if it can be read.
LEMMA WrittenHolds ==
  ASSUME NEW f, Text(f), NEW l \in Lines, NEW g, g = Written(f, l.rec, l.form, l.how)
  PROVE  /\ Readable(l) => HeldIn(g) = HeldIn(f) \cup {IdentityOf[l.rec]}
         /\ ~Readable(l) => HeldIn(g) = HeldIn(f)
<1>1. /\ Continues(f, g) /\ Len(g) = Len(f) + 1 /\ g[Len(g)] = l
      /\ \A k \in 1 .. Len(f) : g[k].rec = f[k].rec /\ (Readable(g[k]) <=> Readable(f[k]))
  BY WrittenLines
<1>2. Text(g) /\ Len(f) \in Nat
  BY <1>1, WholeLines DEF Continues
<1>3. ASSUME NEW d \in HeldIn(g) PROVE d \in HeldIn(f) \/ (Readable(l) /\ d = IdentityOf[l.rec])
  <2>1. PICK k \in 1..Len(g) : Readable(g[k]) /\ IdentityOf[g[k].rec] = d
    BY <1>2, <1>3, InHeld
  <2>2. CASE k = Len(g)
    BY <1>1, <2>1, <2>2
  <2>3. CASE k \in 1..Len(f)
    BY <1>1, <2>1, <2>3, InHeld
  <2> QED
    BY <1>1, <1>2, <2>2, <2>3
<1>4. ASSUME NEW d \in HeldIn(f) PROVE d \in HeldIn(g)
  <2>1. PICK k \in 1..Len(f) : Readable(f[k]) /\ IdentityOf[f[k].rec] = d
    BY <1>4, InHeld
  <2>2. k \in 1..Len(g) /\ Readable(g[k]) /\ IdentityOf[g[k].rec] = d
    BY <1>1, <1>2, <2>1
  <2> QED
    BY <1>2, <2>2, InHeld
<1>5. Readable(l) => IdentityOf[l.rec] \in HeldIn(g)
  <2>1. Len(g) \in 1..Len(g)
    BY <1>1, <1>2
  <2> QED
    BY <1>1, <1>2, <2>1, InHeld
<1> QED
  BY <1>3, <1>4, <1>5

-----------------------------------------------------------------------------
(* Compaction *)

\* A line that is copied stays what it was, and was ended in the new file.
LEMMA Copying ==
  ASSUME NEW l \in Lines, NEW m, m = Copied(l)
  PROVE  /\ m \in Lines /\ m.rec = l.rec /\ m.form = l.form /\ m.how # "mended"
         /\ (Terminated(m) <=> Terminated(l)) /\ (Readable(m) <=> Readable(l))
<1>1. PICK how \in {"checked", "unchecked"} : how = IF l.how = "mended" THEN "unchecked" ELSE l.how
  BY DEF Lines
<1>2. m = [l EXCEPT !.how = how]
  BY <1>1 DEF Copied
<1>3. m \in Lines /\ m.rec = l.rec /\ m.form = l.form /\ m.how = how
  BY <1>2 DEF Lines
<1> QED
  BY <1>1, <1>3 DEF Terminated, Readable

\* The copy of whole lines holds each of their records once.
LEMMA CompactedLines ==
  ASSUME NEW f, Text(f), Whole(f) = Len(f), NEW c, c = Compacted(f)
  PROVE  /\ Text(c) /\ Whole(c) = Len(c)
         /\ HeldIn(c) = HeldIn(f)
         /\ \A j, k \in 1..Len(c) : SameRecord(c[j], c[k]) => j = k
         /\ \A k \in 1..Len(c) : c[k].how # "mended"
<1> DEFINE S == Firsts(f)
           N == Cardinality(S)
<1>1. /\ Len(f) \in Nat /\ DOMAIN f = 1..Len(f)
      /\ \A k \in 1..Len(f) : f[k] \in Lines /\ Terminated(f[k])
  BY WholeLines
<1>2. S \in SUBSET (1..Len(f))
  BY <1>1 DEF Firsts
<1>3. /\ N \in Nat
      /\ \A i \in 1..N : Nth(S, i) \in S
      /\ \A i, j \in 1..N : Nth(S, i) = Nth(S, j) => i = j
      /\ \A k \in S : \E i \in 1..N : Nth(S, i) = k
  <2> HIDE DEF S
  <2> QED
    BY <1>1, <1>2, Numbered, ZenonT(60)
<1>4. c = [i \in 1..N |-> Copied(f[Nth(S, i)])]
  BY DEF Compacted
<1>5. ASSUME NEW i \in 1..N
      PROVE  /\ Nth(S, i) \in 1..Len(f) /\ c[i] \in Lines /\ Terminated(c[i])
             /\ c[i].rec = f[Nth(S, i)].rec /\ c[i].how # "mended"
             /\ (Readable(c[i]) <=> Readable(f[Nth(S, i)]))
  <2>1. PICK l : l = f[Nth(S, i)]
    OBVIOUS
  <2>2. Nth(S, i) \in 1..Len(f) /\ l \in Lines /\ Terminated(l) /\ c[i] = Copied(l)
    BY <1>1, <1>2, <1>3, <1>4, <2>1
  <2> QED
    BY <2>1, <2>2, Copying
<1>6. c \in Seq(Lines) /\ Len(c) = N /\ \A k \in 1..N : Terminated(c[k])
  <2>1. c \in [1..N -> Lines]
    BY <1>4, <1>5
  <2> HIDE DEF N, S
  <2> QED
    BY <1>3, <1>5, <2>1, IsASeq, LenProperties
<1>7. Text(c) /\ Whole(c) = Len(c)
  <2>1. Text(c)
    BY <1>3, <1>6 DEF Text
  <2>2. Len(c) # 0 => Terminated(c[Len(c)])
    BY <1>3, <1>6
  <2> QED
    BY <2>1, <2>2, WholeLines
<1>8. ASSUME NEW j \in 1..N, NEW k \in 1..N, SameRecord(c[j], c[k]) PROVE j = k
  <2>1. PICK a \in S, b \in S : a = Nth(S, j) /\ b = Nth(S, k)
    BY <1>3
  <2>2. SameRecord(f[a], f[b]) /\ SameRecord(f[b], f[a])
    BY <1>5, <1>8, <2>1 DEF SameRecord
  <2>3. a \in Nat /\ b \in Nat
    BY <1>2
  <2>4. ~(a < b) /\ ~(b < a)
    <3>1. \A i \in S : \A h \in 1 .. i - 1 : ~SameRecord(f[h], f[i])
      BY DEF Firsts
    <3>2. a < b => a \in 1 .. b - 1
      BY <1>2, <2>3
    <3>3. b < a => b \in 1 .. a - 1
      BY <1>2, <2>3
    <3> QED
      BY <2>2, <3>1, <3>2, <3>3
  <2> QED
    BY <1>3, <2>1, <2>3, <2>4
<1>9. ASSUME NEW d \in HeldIn(c) PROVE d \in HeldIn(f)
  <2>1. PICK k \in 1..N : Readable(c[k]) /\ IdentityOf[c[k].rec] = d
    BY <1>6, <1>7, <1>9, InHeld
  <2> QED
    BY <1>5, <2>1, InHeld
<1>10. ASSUME NEW d \in HeldIn(f) PROVE d \in HeldIn(c)
  <2> DEFINE D == {k \in 1..Len(f) : Readable(f[k]) /\ IdentityOf[f[k].rec] = d}
  <2>1. D # {} /\ D \in SUBSET (1..Len(f))
    BY <1>10, InHeld
  <2>2. PICK m \in D : \A k \in D : m <= k
    <3> HIDE DEF D
    <3> QED
      BY <1>1, <2>1, LeastOf
  <2>3. m \in S
    <3>1. SUFFICES ASSUME NEW j \in 1 .. m - 1, SameRecord(f[j], f[m]) PROVE FALSE
      BY <1>1 DEF Firsts
    <3>2. j \in D
      BY <1>1, <3>1 DEF SameRecord
    <3>3. j \in Nat /\ m \in Nat /\ j < m
      BY <1>1
    <3> QED
      BY <2>2, <3>2, <3>3
  <2>4. PICK i \in 1..N : Nth(S, i) = m
    BY <1>3, <2>3
  <2>5. Readable(c[i]) /\ IdentityOf[c[i].rec] = d
    BY <1>5, <2>4
  <2> QED
    BY <1>6, <1>7, <2>5, InHeld
<1> QED
  BY <1>5, <1>6, <1>7, <1>8, <1>9, <1>10

\* The copy of a ledger holds what the ledger held, and no record a second time
\* on a line that was checked.
LEMMA CompactionHolds ==
  ASSUME NEW f, Text(f), NEW c, c = Compaction(f)
  PROVE  /\ Text(c) /\ Whole(c) = Len(c)
         /\ HeldIn(c) = HeldIn(f)
         /\ \A j, k \in 1..Len(c) :
               j < k /\ SameRecord(c[j], c[k]) => c[k].how # "checked"
<1>1. PICK w : w = SubSeq(f, 1, Whole(f))
  OBVIOUS
<1>2. /\ Len(f) \in Nat /\ Whole(f) \in 0..Len(f)
      /\ \A k \in 1..Len(f) : f[k] \in Lines
      /\ \A k \in 1..Whole(f) : Terminated(f[k])
      /\ \/ Whole(f) = Len(f)
         \/ Len(f) = Whole(f) + 1 /\ ~Terminated(f[Len(f)])
  BY WholeLines
<1>3. Text(w) /\ Len(w) = Whole(f) /\ (\A k \in 1..Whole(f) : w[k] = f[k])
      /\ HeldIn(w) \subseteq HeldIn(f)
  <2>1. PICK n \in 0..Len(f) : n = Whole(f)
    BY <1>2
  <2>2. w = SubSeq(f, 1, n)
    BY <1>1, <2>1
  <2>3. Text(w) /\ Len(w) = n /\ (\A k \in 1..n : w[k] = f[k]) /\ HeldIn(w) \subseteq HeldIn(f)
    BY <2>2, Beginning
  <2> QED
    BY <2>1, <2>3
<1>4. Whole(w) = Len(w)
  <2>1. Len(w) # 0 => Terminated(w[Len(w)])
    BY <1>2, <1>3
  <2>2. Text(w)
    BY <1>3
  <2> QED
    BY <2>1, <2>2, WholeLines
<1>5. PICK kept : kept = Compacted(w)
  OBVIOUS
<1>6. /\ Text(kept) /\ Whole(kept) = Len(kept) /\ HeldIn(kept) = HeldIn(w)
      /\ \A j, k \in 1..Len(kept) : SameRecord(kept[j], kept[k]) => j = k
  BY <1>3, <1>4, <1>5, CompactedLines
<1>7. Len(kept) \in Nat /\ \A k \in 1..Len(kept) : kept[k] \in Lines /\ Terminated(kept[k])
  BY <1>6, WholeLines
<1>8. CASE Whole(f) = Len(f)
  <2>1. c = kept
    BY <1>1, <1>5, <1>8 DEF Compaction
  <2>2. w = f
    BY <1>1, <1>8, SubSeqFull DEF Text
  <2> QED
    BY <1>6, <1>7, <2>1, <2>2
<1>9. CASE Len(f) = Whole(f) + 1
  <2>1. PICK l : l = f[Len(f)]
    OBVIOUS
  <2>2. PICK m : m = [End(l) EXCEPT !.how = "unchecked"]
    OBVIOUS
  <2>3. l \in Lines
    BY <1>2, <1>9, <2>1
  <2>4. m \in Lines /\ Terminated(m) /\ m.rec = l.rec /\ m.how = "unchecked" /\ (Readable(m) <=> Readable(l))
    <3>1. PICK how \in {"unchecked", "mended"} : how = "unchecked"
      OBVIOUS
    <3>2. m = [End(l) EXCEPT !.how = how]
      BY <2>2, <3>1
    <3>3. m \in Lines /\ Terminated(m) /\ m.rec = l.rec /\ m.how = how /\ (Readable(m) <=> Readable(l))
      BY <2>3, <3>2, Ending
    <3> QED
      BY <3>1, <3>3
  <2>5. c = Append(kept, m)
    BY <1>1, <1>2, <1>5, <1>9, <2>1, <2>2 DEF Compaction, Last
  <2>6. /\ c \in Seq(Lines) /\ Len(c) = Len(kept) + 1 /\ c[Len(kept) + 1] = m
        /\ \A k \in 1..Len(kept) : c[k] = kept[k]
    BY <1>6, <2>4, <2>5, AppendProperties DEF Text
  <2>7. \A k \in 1..Len(c) : k \in 1..Len(kept) \/ k = Len(kept) + 1
    BY <1>7, <2>6
  <2>8. \A k \in 1..Len(c) : Terminated(c[k])
    BY <1>7, <2>4, <2>6, <2>7
  <2>9. Len(c) \in Nat /\ Len(kept) + 1 \in 1..Len(c)
    BY <1>7, <2>6
  <2>10. Text(c)
    BY <2>6, <2>8, <2>9 DEF Text
  <2>11. Whole(c) = Len(c)
    <3>1. Len(c) # 0 => Len(c) \in 1..Len(c)
      BY <2>9
    <3> QED
      BY <2>8, <2>10, <3>1, WholeLines
  <2>12. ASSUME NEW d \in HeldIn(c) PROVE d \in HeldIn(f)
    <3>1. PICK k \in 1..Len(c) : Readable(c[k]) /\ IdentityOf[c[k].rec] = d
      BY <2>10, <2>12, InHeld
    <3>2. CASE k \in 1..Len(kept)
      <4>1. d \in HeldIn(kept)
        BY <1>6, <2>6, <3>1, <3>2, InHeld
      <4> QED
        BY <1>3, <1>6, <4>1
    <3>3. CASE k = Len(kept) + 1
      <4>1. Readable(l) /\ IdentityOf[l.rec] = d /\ Len(f) \in 1..Len(f)
        BY <1>2, <1>9, <2>4, <2>6, <3>1, <3>3
      <4> QED
        BY <2>1, <4>1, InHeld
    <3> QED
      BY <2>7, <3>2, <3>3
  <2>13. ASSUME NEW d \in HeldIn(f) PROVE d \in HeldIn(c)
    <3>1. PICK k \in 1..Len(f) : Readable(f[k]) /\ IdentityOf[f[k].rec] = d
      BY <2>13, InHeld
    <3>2. CASE k \in 1..Whole(f)
      <4>1. d \in HeldIn(w)
        BY <1>3, <3>1, <3>2, InHeld
      <4>2. PICK i \in 1..Len(kept) : Readable(kept[i]) /\ IdentityOf[kept[i].rec] = d
        BY <1>6, <4>1, InHeld
      <4>3. i \in 1..Len(c) /\ Readable(c[i]) /\ IdentityOf[c[i].rec] = d
        BY <1>7, <2>6, <2>9, <4>2
      <4> QED
        BY <2>10, <4>3, InHeld
    <3>3. CASE k = Len(f)
      <4>1. Readable(m) /\ IdentityOf[m.rec] = d
        BY <2>1, <2>4, <3>1, <3>3
      <4> QED
        BY <2>6, <2>9, <2>10, <4>1, InHeld
    <3>4. k \in 1..Whole(f) \/ k = Len(f)
      BY <1>2, <1>9
    <3> QED
      BY <3>2, <3>3, <3>4
  <2>14. ASSUME NEW j \in 1..Len(c), NEW k \in 1..Len(c), j < k, SameRecord(c[j], c[k])
         PROVE  c[k].how # "checked"
    <3>1. CASE k = Len(kept) + 1
      BY <2>4, <2>6, <3>1
    <3>2. CASE k \in 1..Len(kept)
      <4>1. j \in 1..Len(kept) /\ j # k
        BY <1>7, <2>14, <3>2
      <4> QED
        BY <1>6, <2>6, <2>14, <3>2, <4>1
    <3> QED
      BY <2>7, <3>1, <3>2
  <2> QED
    BY <2>10, <2>11, <2>12, <2>13, <2>14
<1> QED
  BY <1>2, <1>8, <1>9

-----------------------------------------------------------------------------
(* What a power cut leaves *)

LEMMA RemainingLines ==
  ASSUME NEW i, Text(files[i]), flushed[i] \in 0..Whole(files[i]), NEW g \in Remains(i)
  PROVE  /\ Text(g) /\ Len(g) <= Len(files[i])
         /\ flushed[i] <= Whole(g) /\ Whole(g) <= Whole(files[i])
         /\ \A k \in 1..Whole(g) : g[k] = files[i][k]
         /\ \A k \in 1..Len(g) :
               /\ g[k].rec = files[i][k].rec /\ g[k].how = files[i][k].how
               /\ Readable(g[k]) => Readable(files[i][k])
         /\ HeldIn(g) \subseteq HeldIn(files[i])
<1>1. PICK f : f = files[i]
  OBVIOUS
<1>2. PICK m : m = flushed[i]
  OBVIOUS
<1>3. /\ Text(f) /\ Len(f) \in Nat /\ Whole(f) \in Nat /\ Whole(f) <= Len(f) /\ m \in 0..Whole(f)
      /\ \A k \in 1..Len(f) : f[k] \in Lines
      /\ \A k \in 1..Whole(f) : Terminated(f[k])
      /\ \/ Whole(f) = Len(f)
         \/ Len(f) = Whole(f) + 1 /\ ~Terminated(f[Len(f)])
      /\ Whole(f) # Len(f) <=> (Len(f) # 0 /\ ~Terminated(f[Len(f)]))
  BY <1>1, <1>2, WholeLines
<1> DEFINE Part(n, form) == [f[n + 1] EXCEPT !.form = IF Readable(f[n + 1]) THEN form ELSE "cut"]
           Shape == /\ Text(g) /\ Len(g) <= Len(f) /\ Len(g) \in Nat
                    /\ m <= Whole(g) /\ Whole(g) <= Whole(f)
                    /\ \A k \in 1..Whole(g) : g[k] = f[k]
                    /\ \A k \in 1..Len(g) :
                          /\ g[k].rec = f[k].rec /\ g[k].how = f[k].how
                          /\ Readable(g[k]) => Readable(f[k])
<1>4. \/ \E n \in m .. Len(f) : g = SubSeq(f, 1, n)
      \/ \E n \in m .. Len(f) : \E form \in {"bare", "cut"} : n # Len(f) /\
            g = Append(SubSeq(f, 1, n), Part(n, form))
  <2> DEFINE Clean == {SubSeq(f, 1, n) : n \in m .. Len(f)}
             Ragged == {Append(SubSeq(f, 1, n), Part(n, form)) :
                          n \in (m .. Len(f)) \ {Len(f)}, form \in {"bare", "cut"}}
  <2>1. Remains(i) = Clean \cup Ragged
    BY <1>1, <1>2 DEF Remains
  <2>2. g \in Clean \/ g \in Ragged
    <3> HIDE DEF Clean, Ragged
    <3> QED
      BY <2>1
  <2>3. ASSUME g \in Clean PROVE \E n \in m .. Len(f) : g = SubSeq(f, 1, n)
    BY <2>3
  <2>4. ASSUME g \in Ragged
        PROVE  \E n \in m .. Len(f) : \E form \in {"bare", "cut"} : n # Len(f) /\
                  g = Append(SubSeq(f, 1, n), Part(n, form))
    <3> HIDE DEF Part
    <3> QED
      BY <2>4
  <2> HIDE DEF Clean, Ragged, Part
  <2> QED
    BY <2>2, <2>3, <2>4
<1>5. ASSUME NEW n \in m .. Len(f), g = SubSeq(f, 1, n) PROVE Shape
  <2>1. n \in 0..Len(f) /\ n \in Nat /\ m \in Nat
    BY <1>3
  <2>2. Text(g) /\ Len(g) = n /\ \A k \in 1..n : g[k] = f[k]
    <3>1. Text(f)
      BY <1>3
    <3> HIDE DEF Shape
    <3> QED
      BY <1>5, <2>1, <3>1, Beginning
  <2>3. /\ Whole(g) \in Nat /\ Whole(g) <= n
        /\ Whole(g) = n \/ n = Whole(g) + 1
        /\ Whole(g) # n <=> (n # 0 /\ ~Terminated(g[n]))
    BY <2>2, WholeLines
  <2>4. CASE n <= Whole(f)
    <3>1. n # 0 => Terminated(g[n])
      BY <1>3, <2>1, <2>2, <2>4
    <3>2. Whole(g) = n
      BY <2>3, <3>1
    <3> QED
      BY <1>3, <2>1, <2>2, <2>4, <3>2
  <2>5. CASE n > Whole(f)
    <3>1. n = Len(f) /\ n = Whole(f) + 1 /\ n # 0 /\ ~Terminated(g[n])
      BY <1>3, <2>1, <2>2, <2>5
    <3>2. Whole(g) = Whole(f)
      BY <1>3, <2>1, <2>3, <3>1
    <3> QED
      BY <1>3, <2>1, <2>2, <3>1, <3>2
  <2> QED
    BY <1>3, <2>1, <2>4, <2>5
<1>6. ASSUME NEW n \in m .. Len(f), NEW form \in {"bare", "cut"}, n # Len(f),
             g = Append(SubSeq(f, 1, n), Part(n, form))
      PROVE  Shape
  <2>1. n \in 0..Len(f) /\ n \in Nat /\ m \in Nat /\ n + 1 <= Len(f) /\ n <= Whole(f) /\ m <= n
        /\ n + 1 \in 1..Len(f)
    BY <1>3, <1>6
  <2>2. PICK h : h = SubSeq(f, 1, n)
    OBVIOUS
  <2>3. Text(h) /\ Len(h) = n /\ \A k \in 1..n : h[k] = f[k]
    <3>1. Text(f)
      BY <1>3
    <3>2. n \in 0..Len(f)
      BY <2>1
    <3> HIDE DEF Shape, Part
    <3> QED
      BY <2>2, <3>1, <3>2, Beginning
  <2>4. PICK x \in {"bare", "cut"} : x = IF Readable(f[n + 1]) THEN form ELSE "cut"
    OBVIOUS
  <2>5. PICK l : l = f[n + 1]
    OBVIOUS
  <2>6. PICK e : e = [l EXCEPT !.form = x]
    OBVIOUS
  <2>7. l \in Lines
    BY <1>3, <2>1, <2>5
  <2>8. e \in Lines /\ e.form = x /\ e.rec = l.rec /\ e.how = l.how
    BY <2>6, <2>7 DEF Lines
  <2>9. ~Terminated(e) /\ (Readable(e) => Readable(l))
    BY <2>4, <2>5, <2>8 DEF Terminated, Readable
  <2>10. g = Append(h, e)
    BY <1>6, <2>2, <2>4, <2>5, <2>6
  <2>11. g \in Seq(Lines) /\ Len(g) = n + 1 /\ g[n + 1] = e /\ \A k \in 1..n : g[k] = h[k]
    BY <2>3, <2>8, <2>10, AppendProperties DEF Text
  <2>12. \A k \in 1..n : Terminated(g[k])
    <3>1. \A k \in 1..n : k \in 1..Whole(f) /\ g[k] = f[k]
      BY <1>3, <2>1, <2>3, <2>11
    <3>2. \A k \in 1..Whole(f) : Terminated(f[k])
      BY <1>3
    <3> QED
      BY <3>1, <3>2
  <2>13. Text(g)
    BY <2>1, <2>11, <2>12 DEF Text
  <2>14. Whole(g) = n
    <3>1. /\ Whole(g) \in Nat
          /\ Whole(g) = Len(g) \/ Len(g) = Whole(g) + 1
          /\ Whole(g) # Len(g) <=> (Len(g) # 0 /\ ~Terminated(g[Len(g)]))
      BY <2>13, WholeLines
    <3>2. Len(g) = n + 1 /\ ~Terminated(g[n + 1]) /\ n + 1 # 0
      BY <2>1, <2>9, <2>11
    <3>3. Whole(g) # Len(g)
      BY <3>1, <3>2, Zenon
    <3> QED
      BY <2>1, <3>1, <3>2, <3>3
  <2>15. \A k \in 1..Len(g) : k \in 1..n \/ k = n + 1
    BY <2>1, <2>11
  <2>16. \A k \in 1..Len(g) : /\ g[k].rec = f[k].rec /\ g[k].how = f[k].how
                              /\ Readable(g[k]) => Readable(f[k])
    BY <2>3, <2>5, <2>8, <2>9, <2>11, <2>15
  <2> QED
    BY <2>1, <2>3, <2>11, <2>13, <2>14, <2>16
<1>7. Shape
  BY <1>4, <1>5, <1>6
<1>8. ASSUME NEW d \in HeldIn(g) PROVE d \in HeldIn(f)
  <2>1. PICK k \in 1..Len(g) : Readable(g[k]) /\ IdentityOf[g[k].rec] = d
    BY <1>7, <1>8, InHeld
  <2>2. k \in 1..Len(f) /\ Readable(f[k]) /\ IdentityOf[f[k].rec] = d
    BY <1>3, <1>7, <2>1
  <2> QED
    BY <1>3, <2>2, InHeld
<1> QED
  BY <1>1, <1>2, <1>7, <1>8

-----------------------------------------------------------------------------
(* The index has its type *)

\* An index that was never written.
LEMMA BlankType == Blank \in Index
<1>1. NoLine \in [rec : Records \cup {"none"}, form : {"record", "torn", "none"}]
  BY DEF NoLine
<1>2. [d \in Identities |-> 0] \in [Identities -> Nat]
  OBVIOUS
<1> QED
  BY <1>1, <1>2 DEF Blank, Index

\* The index that follows a file is read on from where it ends, or from the start.
LEMMA BaseType ==
  ASSUME NEW ix \in Index, NEW i \in Inodes
  PROVE  Base(ix, i) \in Index
BY BlankType DEF Base

\* The first of a set of lines is a line of it.
LEMMA FirstLine ==
  ASSUME NEW n \in Nat, NEW D \in SUBSET (1..n)
  PROVE  /\ FirstOf(D) \in Nat
         /\ D = {} <=> FirstOf(D) = 0
         /\ D # {} => FirstOf(D) \in D
<1>1. CASE D = {}
  BY <1>1 DEF FirstOf
<1>2. CASE D # {}
  <2>1. PICK m : m = Min(D)
    OBVIOUS
  <2>2. m \in D
    BY <1>2, <2>1, LeastOf
  <2>3. m \in Nat /\ m # 0
    BY <2>2
  <2>4. FirstOf(D) = m
    BY <1>2, <2>1 DEF FirstOf
  <2> QED
    BY <1>2, <2>2, <2>3, <2>4
<1> QED
  BY <1>1, <1>2

\* The line before an offset into the whole lines.
LEMMA TailType ==
  ASSUME NEW f, Text(f), NEW n \in 0..Whole(f)
  PROVE  TailAt(f, n) \in [rec : Records \cup {"none"}, form : {"record", "torn", "none"}]
<1>1. CASE n = 0
  BY <1>1 DEF TailAt, NoLine
<1>2. CASE n # 0
  <2>1. PICK l : l = f[n]
    OBVIOUS
  <2>2. l \in Lines /\ Terminated(l)
    BY <1>2, <2>1, WholeLines
  <2> QED
    BY <1>2, <2>1, <2>2 DEF TailAt, Lines, Terminated
<1> QED
  BY <1>1, <1>2

\* Catching up reads every whole line after the cursor.
LEMMA CaughtUpLines ==
  ASSUME NEW ix \in Index, NEW i \in Inodes, Text(files[i]),
         NEW now, now = CaughtUp(ix, i), NEW b, b = Base(ix, i)
  PROVE  /\ now \in Index /\ now.inode = i /\ now.length = Whole(files[i])
         /\ now.tail = TailAt(files[i], Whole(files[i]))
         /\ \A d \in Identities : b.keys[d] # 0 => now.keys[d] = b.keys[d]
         /\ \A d \in Identities : b.keys[d] = 0 /\ now.keys[d] # 0 =>
               /\ now.keys[d] \in b.length + 1 .. Whole(files[i])
               /\ files[i][now.keys[d]].form = "record"
               /\ IdentityOf[files[i][now.keys[d]].rec] = d
         /\ \A k \in b.length + 1 .. Whole(files[i]) :
               files[i][k].form = "record" => now.keys[IdentityOf[files[i][k].rec]] # 0
         /\ now.tags = b.tags \cup
               {<<TagOf[files[i][k].rec], k>> : k \in b.length + 1 .. Whole(files[i])}
<1>1. PICK f : f = files[i]
  OBVIOUS
<1>2. PICK m \in Nat : m = b.length
  BY BaseType DEF Index
<1>3. b \in Index
  BY BaseType
<1>4. /\ Whole(f) \in Nat /\ Whole(f) <= Len(f) /\ Len(f) \in Nat
      /\ \A k \in 1..Len(f) : f[k] \in Lines
  BY <1>1, WholeLines
<1> DEFINE new == m + 1 .. Whole(f)
           D(d) == {k \in new : f[k].form = "record" /\ IdentityOf[f[k].rec] = d}
           K == [d \in Identities |-> IF b.keys[d] # 0 THEN b.keys[d] ELSE FirstOf(D(d))]
           T == b.tags \cup {<<TagOf[f[k].rec], k>> : k \in new}
<1>5. now = [inode |-> i, length |-> Whole(f), tail |-> TailAt(f, Whole(f)), keys |-> K, tags |-> T]
  BY <1>1, <1>2 DEF CaughtUp
<1>6. \A k \in new : k \in 1..Len(f) /\ k \in Nat /\ f[k] \in Lines
  BY <1>4
<1>7. ASSUME NEW d \in Identities
      PROVE  /\ FirstOf(D(d)) \in Nat
             /\ D(d) = {} <=> FirstOf(D(d)) = 0
             /\ D(d) # {} => FirstOf(D(d)) \in D(d)
  <2>1. D(d) \in SUBSET (1..Len(f))
    BY <1>6
  <2> HIDE DEF D
  <2> QED
    BY <1>4, <2>1, FirstLine
<1>8. K \in [Identities -> Nat]
  <2>1. \A d \in Identities : b.keys[d] \in Nat
    BY <1>3 DEF Index
  <2> HIDE DEF D
  <2> QED
    BY <1>7, <2>1
<1>9. T \in SUBSET (Tags \X Nat)
  <2>1. \A k \in new : TagOf[f[k].rec] \in Tags
    BY <1>6, LedgerAssumption DEF Lines
  <2>2. b.tags \in SUBSET (Tags \X Nat)
    BY <1>3 DEF Index
  <2> QED
    BY <1>6, <2>1, <2>2
<1>10. TailAt(f, Whole(f)) \in [rec : Records \cup {"none"}, form : {"record", "torn", "none"}]
  <2>1. Whole(f) \in 0..Whole(f)
    BY <1>4
  <2>2. Text(f)
    BY <1>1
  <2> QED
    BY <2>1, <2>2, TailType
<1>11. now \in Index
  <2> HIDE DEF K, T
  <2> QED
    BY <1>4, <1>5, <1>8, <1>9, <1>10 DEF Index
<1>12. now.inode = i /\ now.length = Whole(f) /\ now.tail = TailAt(f, Whole(f)) /\ now.keys = K /\ now.tags = T
  <2> HIDE DEF K, T
  <2> QED
    BY <1>5
<1>13. \A d \in Identities : b.keys[d] # 0 => now.keys[d] = b.keys[d]
  BY <1>12
<1>14. ASSUME NEW d \in Identities, b.keys[d] = 0, now.keys[d] # 0
       PROVE  /\ now.keys[d] \in new /\ f[now.keys[d]].form = "record"
              /\ IdentityOf[f[now.keys[d]].rec] = d
  <2>1. now.keys[d] = FirstOf(D(d))
    BY <1>12, <1>14
  <2>2. FirstOf(D(d)) \in D(d)
    <3> HIDE DEF D
    <3> QED
      BY <1>7, <1>14, <2>1
  <2> QED
    BY <2>1, <2>2
<1>15. ASSUME NEW k \in new, f[k].form = "record" PROVE now.keys[IdentityOf[f[k].rec]] # 0
  <2>1. PICK d \in Identities : d = IdentityOf[f[k].rec]
    BY <1>6, LedgerAssumption DEF Lines
  <2>2. k \in D(d)
    BY <1>15, <2>1
  <2>3. FirstOf(D(d)) # 0
    <3> HIDE DEF D
    <3> QED
      BY <1>7, <2>2
  <2>4. now.keys[d] = IF b.keys[d] # 0 THEN b.keys[d] ELSE FirstOf(D(d))
    BY <1>12
  <2> QED
    BY <2>1, <2>3, <2>4
<1>16. /\ now.inode = i /\ now.length = Whole(files[i])
       /\ now.tail = TailAt(files[i], Whole(files[i]))
  BY <1>1, <1>12
<1>17. now.tags = b.tags \cup
         {<<TagOf[files[i][k].rec], k>> : k \in b.length + 1 .. Whole(files[i])}
  BY <1>1, <1>2, <1>12
<1>18. new = b.length + 1 .. Whole(files[i])
  BY <1>1, <1>2
<1> HIDE DEF new
<1> QED
  BY <1>1, <1>11, <1>13, <1>14, <1>15, <1>16, <1>17, <1>18

-----------------------------------------------------------------------------
(* The invariant of the files *)

\* What of an inode a power cut cannot take.
Safe(i) == HeldIn(SubSeq(files[i], 1, flushed[i]))

Writing == [pc : {"idle", "opened", "unchecked", "written"}, rec : Records \cup {"none"},
            inode : {0} \cup Inodes, draft : Index]

Dreaming == [pc : {"idle", "copied", "swapped", "refresh"}, inode : {0} \cup Inodes, copied : Nat]

\* Files are texts, and what is flushed of one is whole lines.
FilesAreText ==
  /\ files \in [Inodes -> Seq(Lines)] /\ \A i \in Inodes : Text(files[i])
  /\ path \in Inodes /\ diskPath \in Inodes /\ diskPath <= path
  /\ flushed \in [Inodes -> Nat] /\ \A i \in Inodes : flushed[i] \in 0 .. Whole(files[i])

\* The file that the name leads to after a power cut holds no more than the one at
\* the path, and the latter has what is safe of the former on the disk.
DiskIsCovered ==
  /\ Safe(diskPath) \subseteq Safe(path)
  /\ HeldIn(files[diskPath]) \subseteq Held

\* Whoever holds the lock of a file holds that of the one at the path.
WritersAreSound ==
  /\ writer \in [Writers -> Writing]
  /\ \A w \in Writers :
        /\ writer[w].pc # "idle" => writer[w].rec \in Records /\ writer[w].inode \in Inodes
        /\ writer[w].pc \in {"unchecked", "written"} => writer[w].inode = path
        /\ writer[w].pc = "written" => IdentityOf[writer[w].rec] \in Held

Reading == [pc : {"idle", "opened", "answered"}, tag : Tags \cup {"none"},
            inode : {0} \cup Inodes, owed : SUBSET Identities, answer : SUBSET Identities]

\* A reader has a file of its own open, and the tag it asks for.
ReadersAreSound ==
  /\ reader \in [Readers -> Reading]
  /\ \A x \in Readers : reader[x].pc # "idle" => reader[x].inode \in Inodes /\ reader[x].tag \in Tags

FilesInv ==
  /\ FilesAreText /\ DiskIsCovered /\ WritersAreSound
  /\ acked \subseteq Held
  /\ index \in Index
  /\ dream \in Dreaming
  /\ dream.pc = "copied" => dream.inode \in Inodes /\ dream.inode # MaxFiles

-----------------------------------------------------------------------------
(* The invariant of the index *)

\* An index follows a file and leaves out no line that the append that wrote it
\* had ended.
Good(ix, f) ==
  /\ ix.length \in 0 .. Whole(f)
  /\ ix.tail = TailAt(f, ix.length)
  /\ \A k \in 1 .. ix.length :
        f[k].how # "mended" =>
            /\ <<TagOf[f[k].rec], k>> \in ix.tags
            /\ f[k].form = "record" => ix.keys[IdentityOf[f[k].rec]] # 0

\* No record is checked in twice.
NotRepeated(f) ==
  \A j, k \in 1..Len(f) :
      j < k /\ SameRecord(f[j], f[k]) /\ f[k].how = "checked" => f[j].how = "mended"

\* The files somebody may still read.
Live == {path, diskPath} \cup {reader[x].inode : x \in {y \in Readers : reader[y].pc # "idle"}}

IndexFollows ==
  /\ index.inode <= path
  /\ index.inode \in Live => Good(index, files[index.inode])

DraftsFollow ==
  \A w \in Writers : writer[w].pc = "written" =>
      writer[w].draft.inode = path /\ Good(writer[w].draft, files[path])

ReadersAreOwed ==
  \A x \in Readers :
      /\ reader[x].pc = "opened" =>
            /\ reader[x].inode \in Inodes /\ reader[x].inode <= path
            /\ reader[x].owed \subseteq Owed(files[reader[x].inode], reader[x].tag)
            /\ reader[x].owed \subseteq Held
      /\ reader[x].pc = "answered" => reader[x].owed \subseteq reader[x].answer

IndexParts ==
  /\ IndexFollows /\ DraftsFollow /\ ReadersAreOwed
  /\ NotRepeated(files[path]) /\ NotRepeated(files[diskPath])

IndexInv == ~outlived => IndexParts

-----------------------------------------------------------------------------
(* What a step does to the files *)

\* The same first lines hold the same records.
LEMMA SamePart ==
  ASSUME NEW f, Text(f), NEW g, Text(g), NEW n \in Nat, n <= Len(f), n <= Len(g),
         \A k \in 1..n : g[k] = f[k]
  PROVE  HeldIn(SubSeq(g, 1, n)) = HeldIn(SubSeq(f, 1, n))
<1>1. PICK p : p = SubSeq(f, 1, n)
  OBVIOUS
<1>2. PICK q : q = SubSeq(g, 1, n)
  OBVIOUS
<1>3. Len(f) \in Nat /\ Len(g) \in Nat /\ n \in 0..Len(f) /\ n \in 0..Len(g)
  BY WholeLines
<1>4. Text(p) /\ Len(p) = n /\ \A k \in 1..n : p[k] = f[k]
  BY <1>1, <1>3, Beginning
<1>5. Text(q) /\ Len(q) = n /\ \A k \in 1..n : q[k] = g[k]
  BY <1>2, <1>3, Beginning
<1>6. ASSUME NEW d PROVE d \in HeldIn(p) <=> d \in HeldIn(q)
  BY <1>4, <1>5, InHeld
<1>7. HeldIn(p) = HeldIn(q)
  <2>1. HeldIn(p) \subseteq HeldIn(q) /\ HeldIn(q) \subseteq HeldIn(p)
    BY <1>6
  <2> QED
    BY <2>1
<1> QED
  BY <1>1, <1>2, <1>7

\* What is safe of an inode is in it.
LEMMA SafeIsThere ==
  ASSUME FilesAreText, NEW i \in Inodes
  PROVE  Safe(i) \subseteq HeldIn(files[i])
<1>1. PICK f : f = files[i]
  OBVIOUS
<1>2. PICK n : n = flushed[i]
  OBVIOUS
<1>3. Text(f) /\ n \in 0..Whole(f)
  BY <1>1, <1>2 DEF FilesAreText
<1>4. n \in 0..Len(f)
  BY <1>3, WholeLines
<1>5. HeldIn(SubSeq(f, 1, n)) \subseteq HeldIn(f)
  BY <1>3, <1>4, Beginning
<1> QED
  BY <1>1, <1>2, <1>5 DEF Safe

\* A step that leaves the files alone.
LEMMA FilesStay ==
  ASSUME FilesAreText, DiskIsCovered, UNCHANGED <<files, path, flushed, diskPath>>
  PROVE  FilesAreText' /\ DiskIsCovered' /\ Held' = Held /\ OnDisk' = OnDisk
BY DEF FilesAreText, DiskIsCovered, Safe, Held, OnDisk

\* A line written to the ledger adds at most its record.
LEMMA LedgerGrows ==
  ASSUME FilesAreText, DiskIsCovered, UNCHANGED <<path, flushed, diskPath>>,
         NEW l \in Lines,
         files' = [files EXCEPT ![path] = Written(files[path], l.rec, l.form, l.how)]
  PROVE  /\ FilesAreText' /\ DiskIsCovered' /\ OnDisk' = OnDisk
         /\ Continues(files[path], files'[path])
         /\ Readable(l) => Held' = Held \cup {IdentityOf[l.rec]}
         /\ ~Readable(l) => Held' = Held
<1>1. PICK f : f = files[path]
  OBVIOUS
<1>2. PICK g : g = Written(f, l.rec, l.form, l.how)
  OBVIOUS
<1>3. path \in Inodes /\ Text(f) /\ flushed[path] \in 0..Whole(f)
  BY <1>1 DEF FilesAreText
<1>4. /\ Continues(f, g)
      /\ Readable(l) => HeldIn(g) = HeldIn(f) \cup {IdentityOf[l.rec]}
      /\ ~Readable(l) => HeldIn(g) = HeldIn(f)
  BY <1>2, <1>3, WrittenLines, WrittenHolds
<1>5. Text(g) /\ Whole(f) <= Whole(g) /\ \A k \in 1..Whole(f) : g[k] = f[k]
  BY <1>4 DEF Continues
<1>6. g \in Seq(Lines)
  BY <1>5 DEF Text
<1>7. /\ files' \in [Inodes -> Seq(Lines)]
      /\ files'[path] = g
      /\ \A i \in Inodes : i # path => files'[i] = files[i]
  BY <1>1, <1>2, <1>3, <1>6 DEF FilesAreText
<1>8. /\ Whole(f) \in Nat /\ Whole(g) \in Nat /\ Whole(f) <= Len(f) /\ Whole(g) <= Len(g)
      /\ Len(f) \in Nat /\ Len(g) \in Nat
  BY <1>3, <1>5, WholeLines
<1>9. FilesAreText'
  <2>1. \A i \in Inodes : Text(files'[i])
    BY <1>5, <1>7 DEF FilesAreText
  <2>2. ASSUME NEW i \in Inodes PROVE flushed[i] \in 0 .. Whole(files'[i])
    <3>1. CASE i = path
      BY <1>3, <1>5, <1>7, <1>8, <3>1
    <3>2. CASE i # path
      BY <1>7, <3>2 DEF FilesAreText
    <3> QED
      BY <3>1, <3>2
  <2> QED
    BY <1>7, <2>1, <2>2 DEF FilesAreText
<1>10. ASSUME NEW i \in Inodes PROVE HeldIn(SubSeq(files'[i], 1, flushed[i])) = Safe(i)
  <2>1. CASE i # path
    BY <1>7, <2>1 DEF Safe
  <2>2. CASE i = path
    <3>1. PICK n \in Nat : n = flushed[path]
      BY <1>3, <1>8
    <3>2. n <= Len(f) /\ n <= Len(g) /\ \A k \in 1..n : g[k] = f[k]
      BY <1>3, <1>5, <1>8, <3>1
    <3>3. HeldIn(SubSeq(g, 1, n)) = HeldIn(SubSeq(f, 1, n))
      BY <1>3, <1>5, <3>2, SamePart
    <3> QED
      BY <1>1, <1>7, <2>2, <3>1, <3>3 DEF Safe
  <2> QED
    BY <2>1, <2>2
<1>11. OnDisk' = OnDisk
  BY <1>10 DEF OnDisk, Safe, FilesAreText
<1>12. Held' = HeldIn(g) /\ Held = HeldIn(f)
  BY <1>1, <1>7 DEF Held
<1>13. DiskIsCovered'
  <2>1. Safe(diskPath)' \subseteq Safe(path)'
    BY <1>10 DEF Safe, FilesAreText, DiskIsCovered
  <2>2. HeldIn(files'[diskPath]) \subseteq HeldIn(g)
    <3>1. CASE diskPath = path
      BY <1>7, <3>1
    <3>2. CASE diskPath # path
      BY <1>4, <1>7, <1>12, <3>2 DEF DiskIsCovered, FilesAreText
    <3> QED
      BY <3>1, <3>2
  <2> QED
    BY <1>12, <2>1, <2>2 DEF DiskIsCovered
<1> QED
  BY <1>1, <1>4, <1>7, <1>9, <1>11, <1>12, <1>13

\* The copy renamed over the ledger holds what the ledger held, all of it synced.
LEMMA LedgerIsReplaced ==
  ASSUME FilesInv, Swap
  PROVE  FilesAreText' /\ DiskIsCovered' /\ OnDisk' = OnDisk /\ Held' = Held
<1>1. /\ FilesAreText /\ DiskIsCovered
      /\ files' = [files EXCEPT ![path + 1] = Compaction(files[path])]
      /\ flushed' = [flushed EXCEPT ![path + 1] = Len(files'[path + 1])]
      /\ path' = path + 1 /\ diskPath' = diskPath
      /\ path \in Inodes /\ path # MaxFiles
  BY DEF FilesInv, Swap
<1>2. PICK q : q = path + 1
  OBVIOUS
<1>3. q \in Inodes /\ path \in Nat /\ path < q /\ path # q
  BY <1>1, <1>2, LedgerAssumption DEF Inodes
<1>4. PICK f : f = files[path]
  OBVIOUS
<1>5. PICK c : c = Compaction(f)
  OBVIOUS
<1>6. Text(f)
  BY <1>1, <1>4 DEF FilesAreText
<1>7. Text(c) /\ Whole(c) = Len(c) /\ HeldIn(c) = HeldIn(f)
  BY <1>5, <1>6, CompactionHolds
<1>8. c \in Seq(Lines) /\ Len(c) \in Nat
  BY <1>7, WholeLines DEF Text
<1>9. /\ files' \in [Inodes -> Seq(Lines)] /\ files'[q] = c
      /\ \A i \in Inodes : i # q => files'[i] = files[i]
  BY <1>1, <1>2, <1>3, <1>4, <1>5, <1>8 DEF FilesAreText
<1>10. /\ flushed' \in [Inodes -> Nat] /\ flushed'[q] = Len(c)
       /\ \A i \in Inodes : i # q => flushed'[i] = flushed[i]
  BY <1>1, <1>2, <1>3, <1>8, <1>9 DEF FilesAreText
<1>11. diskPath \in Inodes /\ diskPath \in Nat /\ diskPath <= path /\ diskPath # q
  BY <1>1, <1>3 DEF FilesAreText, Inodes
<1>12. FilesAreText'
  <2>1. \A i \in Inodes : Text(files'[i])
    BY <1>1, <1>7, <1>9 DEF FilesAreText
  <2>2. \A i \in Inodes : flushed'[i] \in 0 .. Whole(files'[i])
    BY <1>1, <1>7, <1>8, <1>9, <1>10 DEF FilesAreText
  <2>3. diskPath' <= path'
    BY <1>1, <1>2, <1>3, <1>11
  <2> QED
    BY <1>1, <1>2, <1>3, <1>9, <1>10, <1>11, <2>1, <2>2, <2>3 DEF FilesAreText
<1>13. OnDisk' = OnDisk
  BY <1>1, <1>9, <1>10, <1>11 DEF OnDisk
<1>14. Held' = HeldIn(c) /\ Held = HeldIn(f)
  BY <1>1, <1>2, <1>4, <1>9 DEF Held
<1>15. Safe(path)' = HeldIn(c)
  <2>1. Safe(path)' = HeldIn(SubSeq(c, 1, Len(c)))
    BY <1>1, <1>2, <1>9, <1>10 DEF Safe
  <2>2. SubSeq(c, 1, Len(c)) = c
    BY <1>8
  <2> QED
    BY <2>1, <2>2
<1>16. DiskIsCovered'
  <2>1. Safe(diskPath) \subseteq HeldIn(f)
    <3>1. Safe(diskPath) \subseteq HeldIn(files[diskPath])
      BY <1>1, <1>11, SafeIsThere
    <3> QED
      BY <1>1, <1>14, <3>1 DEF DiskIsCovered
  <2>2. Safe(diskPath)' = Safe(diskPath)
    BY <1>1, <1>9, <1>10, <1>11 DEF Safe
  <2>3. HeldIn(files[diskPath])' \subseteq HeldIn(f)
    BY <1>1, <1>9, <1>11, <1>14 DEF DiskIsCovered
  <2> QED
    BY <1>7, <1>14, <1>15, <2>1, <2>2, <2>3 DEF DiskIsCovered
<1> QED
  BY <1>7, <1>12, <1>13, <1>14, <1>16

\* More of the ledger, or its name, reaches the disk.
LEMMA LedgerReachesDisk ==
  ASSUME FilesAreText, DiskIsCovered, UNCHANGED <<files, path>>,
         \/ UNCHANGED flushed /\ diskPath' = path
         \/ /\ UNCHANGED diskPath /\ flushed[path] < Whole(files[path])
            /\ flushed' = [flushed EXCEPT ![path] = Whole(files[path])]
  PROVE  FilesAreText' /\ DiskIsCovered' /\ Held' = Held
         /\ OnDisk \subseteq OnDisk' /\ OnDisk' \subseteq Held
<1>1. path \in Inodes /\ path \in Nat /\ diskPath \in Inodes
  BY DEF FilesAreText, Inodes
<1>2. Held' = Held
  BY DEF Held
<1>3. CASE UNCHANGED flushed /\ diskPath' = path
  <2>1. FilesAreText'
    BY <1>1, <1>3 DEF FilesAreText
  <2>2. DiskIsCovered'
    BY <1>3 DEF DiskIsCovered, Safe, Held
  <2>3. OnDisk' = Safe(path) /\ OnDisk = Safe(diskPath)
    BY <1>3 DEF OnDisk, Safe
  <2>4. Safe(path) \subseteq Held
    BY <1>1, SafeIsThere DEF Held
  <2> QED
    BY <1>2, <2>1, <2>2, <2>3, <2>4 DEF DiskIsCovered
<1>4. CASE /\ UNCHANGED diskPath /\ flushed[path] < Whole(files[path])
           /\ flushed' = [flushed EXCEPT ![path] = Whole(files[path])]
  <2>1. PICK f : f = files[path]
    OBVIOUS
  <2>2. Text(f) /\ Whole(f) \in Nat /\ Whole(f) <= Len(f) /\ Len(f) \in Nat
    BY <1>1, <2>1, WholeLines DEF FilesAreText
  <2>3. /\ flushed' \in [Inodes -> Nat] /\ flushed'[path] = Whole(f)
        /\ \A i \in Inodes : i # path => flushed'[i] = flushed[i]
    BY <1>1, <1>4, <2>1, <2>2 DEF FilesAreText
  <2>4. FilesAreText'
    <3>1. \A i \in Inodes : flushed'[i] \in 0 .. Whole(files[i])
      BY <2>1, <2>2, <2>3 DEF FilesAreText
    <3> QED
      BY <1>4, <2>3, <3>1 DEF FilesAreText
  <2>5. Safe(path) \subseteq Safe(path)'
    <3>1. PICK n \in Nat : n = flushed[path]
      BY <1>1 DEF FilesAreText
    <3>2. n \in 0..Whole(f)
      BY <1>1, <2>1, <3>1 DEF FilesAreText
    <3>3. PICK m \in 0..Len(f) : m = Whole(f)
      BY <2>2
    <3>4. PICK g : g = SubSeq(f, 1, m)
      OBVIOUS
    <3>5. Text(g) /\ Len(g) = m /\ \A k \in 1..m : g[k] = f[k]
      <4>1. Text(f) /\ m \in 0..Len(f)
        BY <2>2
      <4> QED
        BY ONLY <3>4, <4>1, Beginning
    <3>6. n <= Len(f) /\ n <= Len(g) /\ \A k \in 1..n : g[k] = f[k]
      BY <2>2, <3>2, <3>3, <3>5
    <3>7. HeldIn(SubSeq(g, 1, n)) = HeldIn(SubSeq(f, 1, n))
      BY <2>2, <3>5, <3>6, SamePart
    <3>8. n \in 0..Len(g)
      BY <2>2, <3>2, <3>3, <3>5
    <3>9. HeldIn(SubSeq(g, 1, n)) \subseteq HeldIn(g)
      BY <3>5, <3>8, Beginning
    <3> QED
      BY <2>1, <2>3, <3>1, <3>3, <3>4, <3>7, <3>9 DEF Safe
  <2>6. Safe(path)' \subseteq Held'
    <3>1. PICK m \in 0..Len(f) : m = Whole(f)
      BY <2>2
    <3>2. HeldIn(SubSeq(f, 1, m)) \subseteq HeldIn(f)
      BY <2>2, Beginning
    <3>3. Safe(path)' = HeldIn(SubSeq(f, 1, m))
      BY <2>1, <2>3, <3>1 DEF Safe
    <3> QED
      BY <2>1, <3>2, <3>3 DEF Held
  <2>7. diskPath # path => Safe(diskPath)' = Safe(diskPath)
    BY <1>1, <1>4, <2>3 DEF Safe
  <2>8. DiskIsCovered'
    BY <1>4, <2>5, <2>7 DEF DiskIsCovered, Held, Safe
  <2>9. OnDisk \subseteq OnDisk' /\ OnDisk' \subseteq Safe(path)'
    <3>1. CASE diskPath = path
      BY <1>4, <2>5, <3>1 DEF OnDisk, Safe
    <3>2. CASE diskPath # path
      BY <1>4, <2>5, <2>7, <3>2 DEF OnDisk, Safe, DiskIsCovered
    <3> QED
      BY <3>1, <3>2
  <2> QED
    BY <1>2, <2>4, <2>6, <2>8, <2>9
<1> QED
  BY <1>3, <1>4

\* A power cut leaves what was safe, of what there was.
LEMMA LedgerSurvives ==
  ASSUME FilesInv, PowerCut
  PROVE  /\ FilesAreText' /\ DiskIsCovered'
         /\ OnDisk \subseteq Held' /\ Held' \subseteq Held
         /\ OnDisk \subseteq OnDisk' /\ OnDisk' \subseteq Held'
         /\ acked' = acked \cap OnDisk'
         /\ path' = diskPath'
<1>1. PICK p \in {path, diskPath} : \E f \in Remains(p) :
          /\ path' = p /\ diskPath' = p
          /\ files' = [i \in Inodes |-> IF i = p THEN f ELSE <<>>]
          /\ flushed' = [i \in Inodes |-> IF i = p THEN Whole(f) ELSE 0]
          /\ acked' = acked \cap HeldIn(SubSeq(f, 1, Whole(f)))
  BY DEF PowerCut
<1>2. PICK g \in Remains(p) :
          /\ path' = p /\ diskPath' = p
          /\ files' = [i \in Inodes |-> IF i = p THEN g ELSE <<>>]
          /\ flushed' = [i \in Inodes |-> IF i = p THEN Whole(g) ELSE 0]
          /\ acked' = acked \cap HeldIn(SubSeq(g, 1, Whole(g)))
  BY <1>1
<1>3. FilesAreText /\ DiskIsCovered /\ p \in Inodes /\ p \in Nat
  BY DEF FilesInv, FilesAreText, Inodes
<1>4. Text(files[p]) /\ flushed[p] \in 0..Whole(files[p])
  BY <1>3 DEF FilesAreText
<1>5. PICK f : f = files[p]
  OBVIOUS
<1>6. PICK n : n = flushed[p]
  OBVIOUS
<1>7. /\ Text(g) /\ n <= Whole(g) /\ \A k \in 1..Whole(g) : g[k] = f[k]
      /\ Whole(g) <= Whole(f) /\ HeldIn(g) \subseteq HeldIn(f)
  BY <1>4, <1>5, <1>6, RemainingLines
<1>8. /\ Whole(g) \in Nat /\ Len(g) \in Nat /\ Whole(g) <= Len(g) /\ Whole(g) \in 0..Len(g)
      /\ Whole(f) \in Nat /\ Len(f) \in Nat /\ Whole(f) <= Len(f) /\ n \in 0..Whole(f) /\ n \in Nat
  BY <1>4, <1>5, <1>6, <1>7, WholeLines
<1>9. PICK h : h = SubSeq(g, 1, Whole(g))
  OBVIOUS
<1>10. Text(h) /\ Len(h) = Whole(g) /\ (\A k \in 1..Whole(g) : h[k] = g[k])
       /\ HeldIn(h) \subseteq HeldIn(g)
  <2>1. PICK m \in 0..Len(g) : m = Whole(g)
    BY <1>8
  <2> QED
    BY <1>7, <1>9, <2>1, Beginning, ZenonT(60)
<1>11. Safe(p) \subseteq HeldIn(h)
  <2>1. n <= Len(f) /\ n <= Len(h) /\ \A k \in 1..n : h[k] = f[k]
    BY <1>7, <1>8, <1>10
  <2>2. Text(f)
    BY <1>4, <1>5
  <2>3. HeldIn(SubSeq(h, 1, n)) = HeldIn(SubSeq(f, 1, n))
    BY <1>8, <1>10, <2>1, <2>2, SamePart
  <2>4. n \in 0..Len(h)
    BY <1>7, <1>8, <1>10
  <2>5. HeldIn(SubSeq(h, 1, n)) \subseteq HeldIn(h)
    BY <1>10, <2>4, Beginning
  <2> QED
    BY <1>5, <1>6, <2>3, <2>5 DEF Safe
<1>12. Safe(diskPath) \subseteq Safe(p) /\ HeldIn(f) \subseteq Held
  BY <1>3, <1>5 DEF DiskIsCovered, Held
<1>13. files'[p] = g /\ flushed'[p] = Whole(g)
       /\ \A i \in Inodes : i # p => files'[i] = <<>> /\ flushed'[i] = 0
  BY <1>2, <1>3
<1>14. Text(<<>>) /\ Whole(<<>>) = 0
  BY DEF Text, Whole
<1>15. FilesAreText'
  <2>1. g \in Seq(Lines) /\ <<>> \in Seq(Lines)
    BY <1>7 DEF Text
  <2>2. files' \in [Inodes -> Seq(Lines)] /\ flushed' \in [Inodes -> Nat]
    BY <1>2, <1>8, <2>1
  <2>3. \A i \in Inodes : Text(files'[i]) /\ flushed'[i] \in 0 .. Whole(files'[i])
    BY <1>7, <1>8, <1>13, <1>14
  <2> QED
    BY <1>2, <1>3, <2>2, <2>3 DEF FilesAreText
<1>16. Held' = HeldIn(g) /\ OnDisk' = HeldIn(h) /\ OnDisk = Safe(diskPath)
  BY <1>2, <1>9, <1>13 DEF Held, OnDisk, Safe
<1>17. DiskIsCovered'
  BY <1>2 DEF DiskIsCovered, Held
<1> QED
  BY <1>2, <1>7, <1>9, <1>10, <1>11, <1>12, <1>15, <1>16, <1>17

-----------------------------------------------------------------------------
(* What a step does to the writers *)

\* An index that is consulted is of the file, and caught up.
LEMMA ConsultedType ==
  ASSUME NEW ix \in Index, NEW i \in Inodes, Text(files[i]), NEW d, NEW t
  PROVE  /\ CaughtUp(ix, i) \in Index
         /\ IndexForKey(ix, i, d) \in {CaughtUp(ix, i), CaughtUp(Blank, i)}
         /\ IndexForKey(ix, i, d) \in Index
         /\ IndexForTag(ix, i, t) \in {CaughtUp(ix, i), CaughtUp(Blank, i)}
         /\ IndexForTag(ix, i, t) \in Index
<1>1. CaughtUp(ix, i) \in Index
  BY CaughtUpLines
<1>2. Blank \in Index
  BY BlankType
<1>3. CaughtUp(Blank, i) \in Index
  BY <1>2, CaughtUpLines
<1> QED
  BY <1>1, <1>3 DEF IndexForKey, IndexForTag

\* The index with a line is an index.
LEMMA InsertedType ==
  ASSUME NEW ix \in Index, NEW i \in Inodes, NEW f, Text(f), Whole(f) = Len(f), Len(f) # 0,
         NEW now, now = Inserted(ix, i, f)
  PROVE  /\ now \in Index /\ now.inode = i /\ now.length = Len(f)
         /\ now.tail = TailAt(f, Len(f))
         /\ now.tags = ix.tags \cup {<<TagOf[f[Len(f)].rec], Len(f)>>}
         /\ \A d \in Identities : ix.keys[d] # 0 => now.keys[d] # 0
         /\ now.keys[IdentityOf[f[Len(f)].rec]] # 0
<1>1. PICK n : n = Len(f)
  OBVIOUS
<1>2. n \in Nat /\ n # 0 /\ f[n] \in Lines /\ n \in 0..Whole(f)
  BY <1>1, WholeLines
<1>3. PICK d \in Identities : d = IdentityOf[f[n].rec]
  BY <1>2, LedgerAssumption DEF Lines
<1>4. PICK t \in Tags : t = TagOf[f[n].rec]
  BY <1>2, LedgerAssumption DEF Lines
<1>5. PICK tail : tail = TailAt(f, n)
  OBVIOUS
<1>6. tail \in [rec : Records \cup {"none"}, form : {"record", "torn", "none"}]
  BY <1>2, <1>5, TailType
<1>7. PICK keys : keys = [ix.keys EXCEPT ![d] = IF @ = 0 THEN n ELSE @]
  OBVIOUS
<1>8. ix.keys \in [Identities -> Nat] /\ ix.tags \in SUBSET (Tags \X Nat)
  BY DEF Index
<1>9. /\ keys \in [Identities -> Nat] /\ keys[d] # 0
      /\ \A e \in Identities : ix.keys[e] # 0 => keys[e] # 0
  BY <1>2, <1>7, <1>8
<1>10. PICK tags : tags = ix.tags \cup {<<t, n>>}
  OBVIOUS
<1>11. tags \in SUBSET (Tags \X Nat)
  BY <1>2, <1>8, <1>10
<1>12. now = [inode |-> i, length |-> n, tail |-> tail, keys |-> keys, tags |-> tags]
  BY <1>1, <1>3, <1>4, <1>5, <1>7, <1>10 DEF Inserted
<1>13. now \in Index
  BY <1>2, <1>6, <1>9, <1>11, <1>12 DEF Index
<1> QED
  BY <1>1, <1>3, <1>4, <1>5, <1>9, <1>10, <1>12, <1>13

\* A process that does nothing is a writer.
LEMMA IdleType == Idle \in Writing /\ Idle.pc = "idle"
BY BlankType DEF Idle, Writing

\* One writer moves on.
LEMMA WriterMoves ==
  ASSUME WritersAreSound, path' = path, Held \subseteq Held',
         NEW w \in Writers, NEW v \in Writing, writer' = [writer EXCEPT ![w] = v],
         v.pc # "idle" => v.rec \in Records /\ v.inode \in Inodes,
         v.pc \in {"unchecked", "written"} => v.inode = path,
         v.pc = "written" => IdentityOf[v.rec] \in Held'
  PROVE  WritersAreSound'
<1>1. writer' \in [Writers -> Writing] /\ writer'[w] = v
      /\ \A x \in Writers : x # w => writer'[x] = writer[x]
  BY DEF WritersAreSound
<1>2. ASSUME NEW x \in Writers
      PROVE  /\ writer'[x].pc # "idle" => writer'[x].rec \in Records /\ writer'[x].inode \in Inodes
             /\ writer'[x].pc \in {"unchecked", "written"} => writer'[x].inode = path'
             /\ writer'[x].pc = "written" => IdentityOf[writer'[x].rec] \in Held'
  <2>1. CASE x = w
    BY <1>1, <2>1
  <2>2. CASE x # w
    BY <1>1, <2>2 DEF WritersAreSound
  <2> QED
    BY <2>1, <2>2
<1> QED
  BY <1>1, <1>2 DEF WritersAreSound

\* A writer returns.
LEMMA WriterReturns ==
  ASSUME WritersAreSound, path' = path, Held \subseteq Held',
         NEW w \in Writers, writer' = [writer EXCEPT ![w] = Idle]
  PROVE  WritersAreSound'
BY IdleType, WriterMoves

\* The writers wait.
LEMMA WritersStay ==
  ASSUME WritersAreSound, Held \subseteq Held', writer' = writer,
         path' = path \/ \A w \in Writers : writer[w].pc \notin {"unchecked", "written"}
  PROVE  WritersAreSound'
BY DEF WritersAreSound

-----------------------------------------------------------------------------
(* Every step keeps the invariant of the files and is one of RecordLog *)

\* A step of the abstract log, or nothing to it.
LogStep == Log!Next \/ UNCHANGED <<Held, acked, OnDisk>>

\* The record a line spells was written, and its writer may hear of it.
LEMMA IsStore ==
  ASSUME NEW d \in Identities, Held' = Held \cup {d}, acked' \in {acked, acked \cup {d}},
         OnDisk' = OnDisk
  PROVE  LogStep
BY DEF LogStep, Log!Next, Log!Store

\* The append of a record that is there returned.
LEMMA IsAcknowledge ==
  ASSUME NEW d \in Identities, d \in Held, acked' = acked \cup {d}, Held' = Held, OnDisk' = OnDisk
  PROVE  LogStep
BY DEF LogStep, Log!Next, Log!Acknowledge

\* What one writer does keeps the invariant of the files.
LEMMA WriterKeepsFiles ==
  ASSUME FilesInv, NEW w \in Writers, Write(w)
  PROVE  FilesInv' /\ LogStep
<1> USE DEF FilesInv
<1>1. /\ path \in Inodes /\ Text(files[path]) /\ files \in [Inodes -> Seq(Lines)]
      /\ writer[w] \in Writing
      /\ writer[w].pc # "idle" => writer[w].rec \in Records /\ writer[w].inode \in Inodes
      /\ writer[w].pc # "idle" => Wanted(w) \in Identities
  BY LedgerAssumption DEF FilesAreText, WritersAreSound, Wanted
<1>2. Blank \in Index
  BY BlankType
<1>3. CASE OpenLedger(w)
  <2>1. UNCHANGED <<files, path, flushed, diskPath, index, acked, dream>>
    BY <1>3 DEF OpenLedger, disk
  <2>2. PICK r \in Records : writer' = [writer EXCEPT ![w] =
                 [pc |-> "opened", rec |-> r, inode |-> path, draft |-> Blank]]
    BY <1>3 DEF OpenLedger
  <2>3. PICK v : v = [pc |-> "opened", rec |-> r, inode |-> path, draft |-> Blank]
    OBVIOUS
  <2>4. v \in Writing /\ v.pc = "opened" /\ v.rec \in Records /\ v.inode \in Inodes
    BY <1>1, <1>2, <2>3 DEF Writing
  <2>5. FilesAreText' /\ DiskIsCovered' /\ Held' = Held /\ OnDisk' = OnDisk
    BY <2>1, FilesStay
  <2>6. WritersAreSound'
    BY <2>1, <2>2, <2>3, <2>4, <2>5, WriterMoves
  <2> QED
    BY <2>1, <2>5, <2>6 DEF LogStep
<1>4. CASE Reopen(w)
  <2>1. /\ UNCHANGED <<files, path, flushed, diskPath, index, acked, dream>>
        /\ writer[w].pc = "opened" /\ writer' = [writer EXCEPT ![w].inode = path]
    BY <1>4 DEF Reopen, disk
  <2>2. PICK v : v = [writer[w] EXCEPT !.inode = path]
    OBVIOUS
  <2>3. v \in Writing /\ v.pc = "opened" /\ v.rec \in Records /\ v.inode \in Inodes
    BY <1>1, <2>1, <2>2 DEF Writing
  <2>4. writer' = [writer EXCEPT ![w] = v]
    BY <2>1, <2>2
  <2>5. FilesAreText' /\ DiskIsCovered' /\ Held' = Held /\ OnDisk' = OnDisk
    BY <2>1, FilesStay
  <2>6. WritersAreSound'
    BY <2>1, <2>3, <2>4, <2>5, WriterMoves
  <2> QED
    BY <2>1, <2>5, <2>6 DEF LogStep
<1>5. CASE AppendPresent(w)
  <2>1. /\ UNCHANGED <<files, path, flushed, diskPath, dream>>
        /\ writer[w].pc = "opened" /\ writer[w].inode = path
        /\ Present(w) /\ index' = IndexFor(w)
        /\ acked' = acked \cup {Wanted(w)} /\ writer' = [writer EXCEPT ![w] = Idle]
    BY <1>5 DEF AppendPresent, HasLedger, Returns, Wanted, disk
  <2>2. PICK d \in Identities : d = Wanted(w)
    BY <1>1, <2>1
  <2>3. FilesAreText' /\ DiskIsCovered' /\ Held' = Held /\ OnDisk' = OnDisk
    BY <2>1, FilesStay
  <2>4. WritersAreSound'
    BY <2>1, <2>3, WriterReturns
  <2>5. index' \in Index
    BY <1>1, <2>1, ConsultedType DEF IndexFor
  <2>6. d \in Held
    <3>1. PICK k : /\ k \in DOMAIN files[path] /\ files[path][k].form = "record"
                   /\ IdentityOf[files[path][k].rec] = d
      BY <2>1, <2>2 DEF Present, Confirmed
    <3>2. k \in 1..Len(files[path]) /\ Readable(files[path][k])
      BY <1>1, <3>1, WholeLines DEF Readable
    <3> QED
      BY <1>1, <3>1, <3>2, InHeld DEF Held
  <2>7. LogStep
    BY <2>1, <2>2, <2>3, <2>6, IsAcknowledge
  <2> QED
    BY <2>1, <2>2, <2>3, <2>4, <2>5, <2>6, <2>7
<1>6. CASE AppendChecked(w)
  <2>1. /\ UNCHANGED <<path, flushed, diskPath, index, acked, dream>>
        /\ writer[w].pc = "opened" /\ writer[w].inode = path
    BY <1>6 DEF AppendChecked, HasLedger, disk
  <2>2. PICK l : l = [rec |-> writer[w].rec, form |-> "record", how |-> "checked"]
    OBVIOUS
  <2>3. l \in Lines /\ Readable(l) /\ Terminated(l) /\ l.rec = writer[w].rec
        /\ l.form = "record" /\ l.how = "checked"
    BY <1>1, <2>1, <2>2 DEF Lines, Readable, Terminated
  <2>4. PICK g : g = Written(files[path], l.rec, l.form, l.how)
    OBVIOUS
  <2>5. /\ files' = [files EXCEPT ![path] = g]
        /\ writer' = [writer EXCEPT ![w] = [@ EXCEPT !.pc = "written",
                                               !.draft = Inserted(IndexFor(w), path, g)]]
    BY <1>6, <2>1, <2>3, <2>4 DEF AppendChecked
  <2>6. /\ FilesAreText' /\ DiskIsCovered' /\ OnDisk' = OnDisk
        /\ Held' = Held \cup {IdentityOf[l.rec]}
    BY <2>1, <2>3, <2>4, <2>5, LedgerGrows
  <2>7. PICK draft : draft = Inserted(IndexFor(w), path, g)
    OBVIOUS
  <2>8. draft \in Index
    <3>1. IndexFor(w) \in Index
      BY <1>1, <2>1, ConsultedType DEF IndexFor
    <3>2. Continues(files[path], g) /\ Len(g) = Len(files[path]) + 1 /\ Whole(g) = Len(g)
      BY <1>1, <2>3, <2>4, WrittenLines
    <3>3. Text(g) /\ Len(g) # 0
      BY <1>1, <3>2, WholeLines DEF Continues
    <3> QED
      BY <1>1, <2>7, <3>1, <3>2, <3>3, InsertedType
  <2>9. PICK v : v = [writer[w] EXCEPT !.pc = "written", !.draft = draft]
    OBVIOUS
  <2>10. /\ v \in Writing /\ v.pc = "written" /\ v.rec = writer[w].rec /\ v.inode = path
    BY <1>1, <2>1, <2>8, <2>9 DEF Writing
  <2>11. writer' = [writer EXCEPT ![w] = v]
    BY <2>5, <2>7, <2>9
  <2>12. IdentityOf[v.rec] \in Held'
    BY <2>3, <2>6, <2>10
  <2>13. v.rec \in Records /\ v.inode \in Inodes
    BY <1>1, <2>1, <2>10
  <2>14. Held \subseteq Held' /\ path' = path
    BY <2>1, <2>6
  <2>15. WritersAreSound'
    BY <2>10, <2>11, <2>12, <2>13, <2>14, WriterMoves
  <2>16. IdentityOf[l.rec] \in Identities
    BY <2>3, LedgerAssumption DEF Lines
  <2>17. LogStep
    BY <2>1, <2>6, <2>16, IsStore
  <2> QED
    BY <2>1, <2>6, <2>15, <2>17
<1>7. CASE CommitIndex(w)
  <2>1. /\ UNCHANGED <<files, path, flushed, diskPath, dream>>
        /\ writer[w].pc = "written" /\ index' = writer[w].draft
        /\ acked' = acked \cup {Wanted(w)} /\ writer' = [writer EXCEPT ![w] = Idle]
    BY <1>7 DEF CommitIndex, Returns, Wanted, disk
  <2>2. FilesAreText' /\ DiskIsCovered' /\ Held' = Held /\ OnDisk' = OnDisk
    BY <2>1, FilesStay
  <2>3. WritersAreSound'
    BY <2>1, <2>2, WriterReturns
  <2>4. index' \in Index
    BY <1>1, <2>1 DEF Writing
  <2>5. Wanted(w) \in Held /\ Wanted(w) \in Identities
    BY <1>1, <2>1 DEF WritersAreSound, Wanted
  <2>6. LogStep
    BY <2>1, <2>2, <2>5, IsAcknowledge
  <2> QED
    BY <2>1, <2>2, <2>3, <2>4, <2>5, <2>6
<1>8. CASE FailCommit(w)
  <2>1. /\ UNCHANGED <<files, path, flushed, diskPath, index, dream>>
        /\ writer[w].pc = "written"
        /\ acked' = acked \cup {Wanted(w)} /\ writer' = [writer EXCEPT ![w] = Idle]
    BY <1>8 DEF FailCommit, Returns, Wanted, disk
  <2>2. FilesAreText' /\ DiskIsCovered' /\ Held' = Held /\ OnDisk' = OnDisk
    BY <2>1, FilesStay
  <2>3. WritersAreSound'
    BY <2>1, <2>2, WriterReturns
  <2>4. Wanted(w) \in Held /\ Wanted(w) \in Identities
    BY <1>1, <2>1 DEF WritersAreSound, Wanted
  <2>5. LogStep
    BY <2>1, <2>2, <2>4, IsAcknowledge
  <2> QED
    BY <2>1, <2>2, <2>3, <2>4, <2>5
<1>9. CASE AppendUnchecked(w)
  <2>1. /\ UNCHANGED <<files, path, flushed, diskPath, acked, dream>>
        /\ writer[w].pc = "opened" /\ writer[w].inode = path
        /\ writer' = [writer EXCEPT ![w].pc = "unchecked"]
        /\ index' \in {index, Blank}
    BY <1>9 DEF AppendUnchecked, HasLedger, disk
  <2>2. PICK v : v = [writer[w] EXCEPT !.pc = "unchecked"]
    OBVIOUS
  <2>3. v \in Writing /\ v.pc = "unchecked" /\ v.rec \in Records /\ v.inode = path
    BY <1>1, <2>1, <2>2 DEF Writing
  <2>4. writer' = [writer EXCEPT ![w] = v]
    BY <2>1, <2>2
  <2>5. FilesAreText' /\ DiskIsCovered' /\ Held' = Held /\ OnDisk' = OnDisk
    BY <2>1, FilesStay
  <2>6. WritersAreSound'
    BY <1>1, <2>1, <2>3, <2>4, <2>5, WriterMoves
  <2> QED
    BY <1>2, <2>1, <2>5, <2>6 DEF LogStep
<1>10. CASE CutChecked(w)
  <2>1. /\ UNCHANGED <<path, flushed, diskPath, index, acked, dream>>
        /\ writer[w].pc = "opened" /\ writer[w].inode = path
        /\ writer' = [writer EXCEPT ![w].pc = "unchecked"]
    BY <1>10 DEF CutChecked, HasLedger, disk
  <2>2. PICK form \in {"bare", "cut"} :
          files' = [files EXCEPT ![path] = Written(@, writer[w].rec, form, "checked")]
    BY <1>10 DEF CutChecked
  <2>3. PICK l : l = [rec |-> writer[w].rec, form |-> form, how |-> "checked"]
    OBVIOUS
  <2>4. l \in Lines /\ l.rec = writer[w].rec /\ l.form = form /\ l.how = "checked"
    BY <1>1, <2>1, <2>3 DEF Lines
  <2>5. files' = [files EXCEPT ![path] = Written(files[path], l.rec, l.form, l.how)]
    BY <2>2, <2>4
  <2>6. /\ FilesAreText' /\ DiskIsCovered' /\ OnDisk' = OnDisk
        /\ Readable(l) => Held' = Held \cup {IdentityOf[l.rec]}
        /\ ~Readable(l) => Held' = Held
    BY <2>1, <2>4, <2>5, LedgerGrows
  <2>7. PICK v : v = [writer[w] EXCEPT !.pc = "unchecked"]
    OBVIOUS
  <2>8. v \in Writing /\ v.pc = "unchecked" /\ v.rec \in Records /\ v.inode = path
    BY <1>1, <2>1, <2>7 DEF Writing
  <2>9. writer' = [writer EXCEPT ![w] = v]
    BY <2>1, <2>7
  <2>10. Held \subseteq Held' /\ path' = path
    BY <2>1, <2>6
  <2>11. WritersAreSound'
    BY <1>1, <2>8, <2>9, <2>10, WriterMoves
  <2>12. IdentityOf[l.rec] \in Identities
    BY <2>4, LedgerAssumption DEF Lines
  <2>13. LogStep
    <3>1. CASE Readable(l)
      BY <2>1, <2>6, <2>12, <3>1, IsStore
    <3>2. CASE ~Readable(l)
      BY <2>1, <2>6, <3>2 DEF LogStep
    <3> QED
      BY <3>1, <3>2
  <2> QED
    BY <2>1, <2>6, <2>10, <2>11, <2>13
<1>11. CASE WriteUnchecked(w)
  <2>1. /\ UNCHANGED <<path, flushed, diskPath, index, dream>>
        /\ writer[w].pc = "unchecked" /\ writer[w].inode = path
        /\ acked' = acked \cup {Wanted(w)} /\ writer' = [writer EXCEPT ![w] = Idle]
    BY <1>11 DEF WriteUnchecked, Returns, Wanted, WritersAreSound, disk
  <2>2. PICK l : l = [rec |-> writer[w].rec, form |-> "record", how |-> "unchecked"]
    OBVIOUS
  <2>3. l \in Lines /\ Readable(l) /\ l.rec = writer[w].rec
        /\ l.form = "record" /\ l.how = "unchecked"
    BY <1>1, <2>1, <2>2 DEF Lines, Readable
  <2>4. files' = [files EXCEPT ![path] = Written(files[path], l.rec, l.form, l.how)]
    BY <1>11, <2>1, <2>3 DEF WriteUnchecked
  <2>5. /\ FilesAreText' /\ DiskIsCovered' /\ OnDisk' = OnDisk
        /\ Held' = Held \cup {IdentityOf[l.rec]}
    BY <2>1, <2>3, <2>4, LedgerGrows
  <2>6. Held \subseteq Held' /\ path' = path
    BY <2>1, <2>5
  <2>7. WritersAreSound'
    BY <2>1, <2>6, WriterReturns
  <2>8. PICK d \in Identities : d = IdentityOf[l.rec]
    BY <2>3, LedgerAssumption DEF Lines
  <2>9. Wanted(w) = d
    BY <2>3, <2>8 DEF Wanted
  <2>10. LogStep
    BY <2>1, <2>5, <2>8, <2>9, IsStore
  <2> QED
    BY <2>1, <2>5, <2>7, <2>8, <2>9, <2>10
<1>12. CASE CutUnchecked(w)
  <2>1. /\ UNCHANGED <<path, flushed, diskPath, index, acked, dream>>
        /\ writer[w].pc = "unchecked" /\ writer[w].inode = path
        /\ writer' = [writer EXCEPT ![w] = Idle]
    BY <1>12 DEF CutUnchecked, WritersAreSound, disk
  <2>2. PICK form \in {"bare", "cut"} :
          files' = [files EXCEPT ![path] = Written(@, writer[w].rec, form, "unchecked")]
    BY <1>12, <2>1 DEF CutUnchecked
  <2>3. PICK l : l = [rec |-> writer[w].rec, form |-> form, how |-> "unchecked"]
    OBVIOUS
  <2>4. l \in Lines /\ l.rec = writer[w].rec /\ l.form = form /\ l.how = "unchecked"
    BY <1>1, <2>1, <2>3 DEF Lines
  <2>5. files' = [files EXCEPT ![path] = Written(files[path], l.rec, l.form, l.how)]
    BY <2>2, <2>4
  <2>6. /\ FilesAreText' /\ DiskIsCovered' /\ OnDisk' = OnDisk
        /\ Readable(l) => Held' = Held \cup {IdentityOf[l.rec]}
        /\ ~Readable(l) => Held' = Held
    BY <2>1, <2>4, <2>5, LedgerGrows
  <2>7. Held \subseteq Held' /\ path' = path
    BY <2>1, <2>6
  <2>8. WritersAreSound'
    BY <2>1, <2>7, WriterReturns
  <2>9. IdentityOf[l.rec] \in Identities
    BY <2>4, LedgerAssumption DEF Lines
  <2>10. LogStep
    <3>1. CASE Readable(l)
      BY <2>1, <2>6, <2>9, <3>1, IsStore
    <3>2. CASE ~Readable(l)
      BY <2>1, <2>6, <3>2 DEF LogStep
    <3> QED
      BY <3>1, <3>2
  <2> QED
    BY <2>1, <2>6, <2>7, <2>8, <2>10
<1> QED
  BY <1>3, <1>4, <1>5, <1>6, <1>7, <1>8, <1>9, <1>10, <1>11, <1>12 DEF Write

\* What a reader does keeps the invariant of the files.
LEMMA ReaderKeepsFiles ==
  ASSUME FilesInv, ReadersAreSound, NEW x \in Readers, Read(x)
  PROVE  FilesInv' /\ LogStep
<1> USE DEF FilesInv
<1>1. UNCHANGED <<files, path, flushed, diskPath, writer, dream, acked>>
  BY DEF Read, OpenRead, ReadTagged, StreamLedger, CloseRead, disk
<1>2. FilesAreText' /\ DiskIsCovered' /\ Held' = Held /\ OnDisk' = OnDisk
  BY <1>1, FilesStay
<1>3. WritersAreSound'
  BY <1>1, <1>2, WritersStay
<1>4. index' \in Index
  <2>1. Blank \in Index
    BY BlankType
  <2>2. CASE ReadTagged(x)
    <3>1. reader[x].inode \in Inodes /\ index' = IndexForTag(index, reader[x].inode, reader[x].tag)
      BY <2>2 DEF ReadTagged, ReadersAreSound
    <3>2. Text(files[reader[x].inode])
      BY <3>1 DEF FilesAreText
    <3> QED
      BY <3>1, <3>2, ConsultedType
  <2>3. CASE ~ReadTagged(x)
    <3>1. index' \in {index, Blank}
      BY <2>3 DEF Read, OpenRead, StreamLedger, CloseRead
    <3> QED
      BY <2>1, <3>1
  <2> QED
    BY <2>2, <2>3
<1> QED
  BY <1>1, <1>2, <1>3, <1>4 DEF LogStep

\* What the dream does keeps the invariant of the files.
LEMMA DreamKeepsFiles ==
  ASSUME FilesInv, Dream
  PROVE  FilesInv' /\ LogStep
<1> USE DEF FilesInv
<1>1. path \in Inodes /\ path \in Nat /\ Text(files[path]) /\ dream \in Dreaming
  BY DEF FilesAreText, Inodes
<1>2. CASE CopyLedger
  <2>1. /\ UNCHANGED <<files, path, flushed, diskPath, index, writer, acked>>
        /\ path < MaxFiles
        /\ dream' = [pc |-> "copied", inode |-> path, copied |-> Whole(files[path])]
    BY <1>2 DEF CopyLedger, disk
  <2>2. FilesAreText' /\ DiskIsCovered' /\ Held' = Held /\ OnDisk' = OnDisk
    BY <2>1, FilesStay
  <2>3. WritersAreSound'
    BY <2>1, <2>2, WritersStay
  <2>4. PICK n \in Nat : n = Whole(files[path])
    BY <1>1, WholeLines
  <2>5. dream' \in Dreaming /\ dream'.inode = path
    BY <1>1, <2>1, <2>4 DEF Dreaming
  <2>6. path # MaxFiles
    BY <1>1, <2>1, LedgerAssumption
  <2> QED
    BY <1>1, <2>1, <2>2, <2>3, <2>5, <2>6 DEF LogStep
<1>3. CASE SkipSwap
  <2>1. /\ UNCHANGED <<files, path, flushed, diskPath, index, writer, acked>>
        /\ dream' = [dream EXCEPT !.pc = "refresh"]
    BY <1>3 DEF SkipSwap, disk
  <2>2. FilesAreText' /\ DiskIsCovered' /\ Held' = Held /\ OnDisk' = OnDisk
    BY <2>1, FilesStay
  <2>3. WritersAreSound'
    BY <2>1, <2>2, WritersStay
  <2>4. dream' \in Dreaming /\ dream'.pc = "refresh"
    BY <1>1, <2>1 DEF Dreaming
  <2> QED
    BY <2>1, <2>2, <2>3, <2>4 DEF LogStep
<1>4. CASE Swap
  <2>1. /\ UNCHANGED <<index, writer, acked>>
        /\ dream' = [dream EXCEPT !.pc = "swapped"]
        /\ ~Locked(path)
    BY <1>4 DEF Swap
  <2>2. FilesAreText' /\ DiskIsCovered' /\ OnDisk' = OnDisk /\ Held' = Held
    BY <1>4, LedgerIsReplaced
  <2>3. \A w \in Writers : writer[w].pc \notin {"unchecked", "written"}
    BY <2>1 DEF Locked, WritersAreSound
  <2>4. WritersAreSound'
    BY <2>1, <2>2, <2>3, WritersStay
  <2>5. dream' \in Dreaming /\ dream'.pc = "swapped"
    BY <1>1, <2>1 DEF Dreaming
  <2> QED
    BY <2>1, <2>2, <2>4, <2>5 DEF LogStep
<1>5. CASE SyncDirectory
  <2>1. /\ UNCHANGED <<files, path, flushed, index, writer, acked>>
        /\ diskPath' = path /\ dream' = [dream EXCEPT !.pc = "refresh"]
    BY <1>5 DEF SyncDirectory
  <2>2. FilesAreText' /\ DiskIsCovered' /\ Held' = Held
        /\ OnDisk \subseteq OnDisk' /\ OnDisk' \subseteq Held
    BY <2>1, LedgerReachesDisk
  <2>3. WritersAreSound'
    BY <2>1, <2>2, WritersStay
  <2>4. dream' \in Dreaming /\ dream'.pc = "refresh"
    BY <1>1, <2>1 DEF Dreaming
  <2>5. LogStep
    BY <2>1, <2>2 DEF LogStep, Log!Next, Log!Persist
  <2> QED
    BY <2>1, <2>2, <2>3, <2>4, <2>5
<1>6. CASE Refresh
  <2>1. /\ UNCHANGED <<files, path, flushed, diskPath, writer, acked>>
        /\ index' = CaughtUp(index, path) /\ dream' = Resting
    BY <1>6 DEF Refresh, disk
  <2>2. FilesAreText' /\ DiskIsCovered' /\ Held' = Held /\ OnDisk' = OnDisk
    BY <2>1, FilesStay
  <2>3. WritersAreSound'
    BY <2>1, <2>2, WritersStay
  <2>4. index' \in Index
    BY <1>1, <2>1, ConsultedType
  <2>5. dream' \in Dreaming /\ dream'.pc = "idle"
    BY <2>1 DEF Dreaming, Resting
  <2> QED
    BY <2>1, <2>2, <2>3, <2>4, <2>5 DEF LogStep
<1> QED
  BY <1>2, <1>3, <1>4, <1>5, <1>6 DEF Dream

\* What the kernel and the host do keeps the invariant of the files.
LEMMA HostKeepsFiles ==
  ASSUME FilesInv, Flush \/ Kill \/ PowerCut
  PROVE  FilesInv' /\ LogStep
<1> USE DEF FilesInv
<1>1. CASE Flush
  <2>1. UNCHANGED <<files, path, index, writer, dream, acked>>
    BY <1>1 DEF Flush
  <2>2. \/ UNCHANGED flushed /\ diskPath' = path
        \/ /\ UNCHANGED diskPath /\ flushed[path] < Whole(files[path])
           /\ flushed' = [flushed EXCEPT ![path] = Whole(files[path])]
    BY <1>1 DEF Flush
  <2>3. FilesAreText' /\ DiskIsCovered' /\ Held' = Held
        /\ OnDisk \subseteq OnDisk' /\ OnDisk' \subseteq Held
    BY <2>1, <2>2, LedgerReachesDisk
  <2>4. WritersAreSound'
    BY <2>1, <2>3, WritersStay
  <2>5. LogStep
    BY <2>1, <2>3 DEF LogStep, Log!Next, Log!Persist
  <2> QED
    BY <2>1, <2>3, <2>4, <2>5
<1>2. CASE Kill
  <2>1. UNCHANGED <<files, path, flushed, diskPath, index, acked>>
    BY <1>2 DEF Kill, disk
  <2>2. FilesAreText' /\ DiskIsCovered' /\ Held' = Held /\ OnDisk' = OnDisk
    BY <2>1, FilesStay
  <2>3. CASE UNCHANGED dream /\ \E w \in Writers : writer' = [writer EXCEPT ![w] = Idle]
    <3>1. PICK w \in Writers : writer' = [writer EXCEPT ![w] = Idle]
      BY <2>3
    <3>2. WritersAreSound'
      BY <2>1, <2>2, <3>1, WriterReturns
    <3> QED
      BY <2>1, <2>2, <2>3, <3>2 DEF LogStep
  <2>4. CASE dream' = Resting /\ UNCHANGED writer
    <3>1. WritersAreSound'
      BY <2>1, <2>2, <2>4, WritersStay
    <3>2. dream' \in Dreaming /\ dream'.pc = "idle"
      BY <2>4 DEF Dreaming, Resting
    <3> QED
      BY <2>1, <2>2, <3>1, <3>2 DEF LogStep
  <2> QED
    BY <1>2, <2>3, <2>4 DEF Kill
<1>3. CASE PowerCut
  <2>1. /\ FilesAreText' /\ DiskIsCovered'
        /\ OnDisk \subseteq Held' /\ Held' \subseteq Held
        /\ OnDisk \subseteq OnDisk' /\ OnDisk' \subseteq Held'
        /\ acked' = acked \cap OnDisk'
    BY <1>3, LedgerSurvives
  <2>2. /\ writer' = [w \in Writers |-> Idle] /\ dream' = Resting
        /\ index' \in {index, Blank}
    BY <1>3 DEF PowerCut
  <2>3. WritersAreSound'
    BY <2>2, IdleType DEF WritersAreSound
  <2>4. index' \in Index
    BY <2>2, BlankType
  <2>5. dream' \in Dreaming /\ dream'.pc = "idle"
    BY <2>2 DEF Dreaming, Resting
  <2>6. LogStep
    BY <2>1 DEF LogStep, Log!Next, Log!PowerCut
  <2> QED
    BY <2>1, <2>3, <2>4, <2>5, <2>6
<1> QED
  BY <1>1, <1>2, <1>3

\* A ledger begins empty.
LEMMA FilesBegin ==
  ASSUME Init
  PROVE  FilesInv /\ Log!Init
<1>1. Text(<<>>) /\ Whole(<<>>) = 0 /\ HeldIn(<<>>) = {}
  BY DEF Text, Whole, HeldIn
<1>2. 1 \in Inodes
  BY LedgerAssumption DEF Inodes
<1>3. FilesAreText
  <2>1. files \in [Inodes -> Seq(Lines)] /\ flushed \in [Inodes -> Nat]
    BY DEF Init
  <2> QED
    BY <1>1, <1>2, <2>1 DEF Init, FilesAreText
<1>4. Held = {} /\ OnDisk = {}
  <2>1. files[1] = <<>> /\ flushed[1] = 0 /\ path = 1 /\ diskPath = 1
    BY <1>2 DEF Init
  <2>2. SubSeq(<<>>, 1, 0) = <<>>
    OBVIOUS
  <2> QED
    BY <1>1, <2>1, <2>2 DEF Held, OnDisk
<1>5. DiskIsCovered
  BY <1>2 DEF Init, DiskIsCovered, Held
<1>6. WritersAreSound
  BY IdleType DEF Init, WritersAreSound
<1>7. index \in Index
  BY BlankType DEF Init
<1>8. dream \in Dreaming /\ dream.pc = "idle"
  BY DEF Init, Dreaming, Resting
<1> QED
  BY <1>3, <1>4, <1>5, <1>6, <1>7, <1>8 DEF Init, FilesInv, Log!Init

\* The lines found by a tag are lines of the file.
LEMMA TaggedType ==
  ASSUME NEW ix \in Index, NEW i \in Inodes, Text(files[i]), NEW t,
         NEW now, now = IndexForTag(ix, i, t)
  PROVE  /\ TaggedLines(now, t) \subseteq 1 .. Whole(files[i])
         /\ TaggedIdentities(i, t, TaggedLines(now, t)) \subseteq Identities
<1>1. PICK c : c = CaughtUp(ix, i)
  OBVIOUS
<1>2. TaggedLines(now, t) \subseteq 1 .. Whole(files[i])
  <2>1. CASE TagsConfirmed(c, i, t)
    BY <1>1, <2>1 DEF IndexForTag, TagsConfirmed
  <2>2. CASE ~TagsConfirmed(c, i, t)
    <3>1. now = CaughtUp(Blank, i)
      BY <1>1, <2>2 DEF IndexForTag
    <3>2. PICK b : b = Base(Blank, i)
      OBVIOUS
    <3>3. b = Blank /\ b.tags = {} /\ b.length = 0
      BY <3>2 DEF Base, Blank
    <3>4. now.tags = b.tags \cup
             {<<TagOf[files[i][k].rec], k>> : k \in b.length + 1 .. Whole(files[i])}
      BY <3>1, <3>2, BlankType, CaughtUpLines
    <3>5. \A p \in now.tags : p[2] \in 1 .. Whole(files[i])
      BY <3>3, <3>4
    <3> QED
      BY <3>5 DEF TaggedLines
  <2> QED
    BY <2>1, <2>2
<1>3. \A k \in 1 .. Whole(files[i]) : files[i][k] \in Lines
  BY WholeLines
<1>4. \A k \in 1 .. Whole(files[i]) : IdentityOf[files[i][k].rec] \in Identities
  BY <1>3, LedgerAssumption DEF Lines
<1> QED
  BY <1>2, <1>4 DEF TaggedIdentities

\* The readers keep their types.
LEMMA ReadersKeep ==
  ASSUME FilesInv, ReadersAreSound, [Next]_vars
  PROVE  ReadersAreSound'
<1>1. CASE reader' = reader
  BY <1>1 DEF ReadersAreSound
<1>2. CASE PowerCut
  <2>1. reader' = [x \in Readers |-> NotReading]
    BY <1>2 DEF PowerCut
  <2>2. NotReading \in Reading /\ NotReading.pc = "idle"
    BY DEF NotReading, Reading
  <2> QED
    BY <2>1, <2>2 DEF ReadersAreSound
<1>3. ASSUME NEW x \in Readers, Read(x)
      PROVE  ReadersAreSound'
  <2>1. /\ reader \in [Readers -> Reading] /\ reader[x] \in Reading
        /\ path \in Inodes /\ \A i \in Inodes : Text(files[i])
        /\ index \in Index
        /\ reader[x].pc # "idle" => reader[x].inode \in Inodes /\ reader[x].tag \in Tags
    BY DEF ReadersAreSound, FilesInv, FilesAreText
  <2> SUFFICES ASSUME NEW v \in Reading, reader' = [reader EXCEPT ![x] = v],
                      v.pc # "idle" => v.inode \in Inodes /\ v.tag \in Tags
               PROVE  ReadersAreSound'
    <3>1. CASE OpenRead(x)
      <4>1. PICK t \in Tags :
              reader' = [reader EXCEPT ![x] = [pc |-> "opened", tag |-> t, inode |-> path,
                                               owed |-> Owed(files[path], t), answer |-> {}]]
        BY <3>1 DEF OpenRead
      <4>2. PICK owed : owed = Owed(files[path], t)
        OBVIOUS
      <4>3. owed \in SUBSET Identities
        <5>1. \A k \in DOMAIN files[path] : files[path][k] \in Lines
          BY <2>1, WholeLines
        <5>2. \A k \in DOMAIN files[path] : IdentityOf[files[path][k].rec] \in Identities
          BY <5>1, LedgerAssumption DEF Lines
        <5> QED
          BY <4>2, <5>2 DEF Owed
      <4>4. PICK v : v = [pc |-> "opened", tag |-> t, inode |-> path, owed |-> owed, answer |-> {}]
        OBVIOUS
      <4>5. v \in Reading /\ v.inode \in Inodes /\ v.tag \in Tags
        BY <2>1, <4>3, <4>4 DEF Reading
      <4>6. reader' = [reader EXCEPT ![x] = v]
        BY <4>1, <4>2, <4>4
      <4> QED
        BY <4>5, <4>6
    <3>2. CASE ReadTagged(x)
      <4>1. PICK i \in Inodes : i = reader[x].inode
        BY <2>1, <3>2 DEF ReadTagged
      <4>2. PICK t \in Tags : t = reader[x].tag
        BY <2>1, <3>2 DEF ReadTagged
      <4>3. PICK now : now = IndexForTag(index, i, t)
        OBVIOUS
      <4>4. PICK answer : answer = TaggedIdentities(i, t, TaggedLines(now, t))
        OBVIOUS
      <4>5. answer \in SUBSET Identities
        <5>1. Text(files[i]) /\ index \in Index
          BY <2>1
        <5>2. TaggedIdentities(i, t, TaggedLines(now, t)) \subseteq Identities
          BY <4>3, <5>1, TaggedType
        <5> QED
          BY <4>4, <5>2
      <4>6. PICK v : v = [reader[x] EXCEPT !.pc = "answered", !.answer = answer]
        OBVIOUS
      <4>7. v \in Reading /\ v.inode = i /\ v.tag = t
        BY <2>1, <4>1, <4>2, <4>5, <4>6 DEF Reading
      <4>8. reader' = [reader EXCEPT ![x] = v]
        <5>1. reader' = [reader EXCEPT ![x] = [@ EXCEPT !.pc = "answered",
                   !.answer = TaggedIdentities(reader[x].inode, reader[x].tag,
                                               TaggedLines(index', reader[x].tag))]]
              /\ index' = IndexForTag(index, reader[x].inode, reader[x].tag)
          BY <3>2 DEF ReadTagged
        <5> QED
          BY <4>1, <4>2, <4>3, <4>4, <4>6, <5>1
      <4> QED
        BY <4>7, <4>8
    <3>3. CASE StreamLedger(x)
      <4>1. PICK answer : answer = TaggedIdentities(path, reader[x].tag, DOMAIN files[path])
        OBVIOUS
      <4>2. answer \in SUBSET Identities
        <5>1. \A k \in DOMAIN files[path] : files[path][k] \in Lines
          BY <2>1, WholeLines
        <5>2. \A k \in DOMAIN files[path] : IdentityOf[files[path][k].rec] \in Identities
          BY <5>1, LedgerAssumption DEF Lines
        <5> QED
          BY <4>1, <5>2 DEF TaggedIdentities
      <4>3. PICK v : v = [reader[x] EXCEPT !.pc = "answered", !.answer = answer]
        OBVIOUS
      <4>4. reader[x].pc = "opened"
        BY <3>3 DEF StreamLedger
      <4>5. v \in Reading /\ v.inode = reader[x].inode /\ v.tag = reader[x].tag
        BY <2>1, <4>2, <4>3 DEF Reading
      <4>6. reader' = [reader EXCEPT ![x] = v]
        BY <3>3, <4>1, <4>3 DEF StreamLedger
      <4> QED
        BY <2>1, <4>4, <4>5, <4>6
    <3>4. CASE CloseRead(x)
      <4>1. reader' = [reader EXCEPT ![x] = NotReading]
        BY <3>4 DEF CloseRead
      <4>2. NotReading \in Reading /\ NotReading.pc = "idle"
        BY DEF NotReading, Reading
      <4> QED
        BY <4>1, <4>2
    <3> QED
      BY <1>3, <3>1, <3>2, <3>3, <3>4 DEF Read
  <2>2. reader' \in [Readers -> Reading] /\ reader'[x] = v
        /\ \A y \in Readers : y # x => reader'[y] = reader[y]
    BY <2>1
  <2> QED
    BY <2>2 DEF ReadersAreSound
<1>4. ASSUME NEW w \in Writers, Write(w) PROVE reader' = reader
  BY <1>4 DEF Write, OpenLedger, Reopen, AppendPresent, AppendChecked, CommitIndex, FailCommit,
              AppendUnchecked, CutChecked, WriteUnchecked, CutUnchecked
<1>5. ASSUME Dream \/ Flush \/ Kill PROVE reader' = reader
  BY <1>5 DEF Dream, CopyLedger, SkipSwap, Swap, SyncDirectory, Refresh, Flush, Kill
<1>6. CASE UNCHANGED vars
  BY <1>1, <1>6 DEF vars
<1> QED
  BY <1>1, <1>2, <1>3, <1>4, <1>5, <1>6 DEF Next

\* Every step keeps the invariant of the files and is one of the log.
LEMMA FilesStep ==
  ASSUME FilesInv, ReadersAreSound, [Next]_vars
  PROVE  FilesInv' /\ ReadersAreSound' /\ LogStep
<1>1. CASE UNCHANGED vars
  <2>1. UNCHANGED <<files, path, flushed, diskPath, index, writer, reader, dream, acked>>
    BY <1>1 DEF vars, disk
  <2>2. FilesAreText' /\ DiskIsCovered' /\ Held' = Held /\ OnDisk' = OnDisk
    BY <2>1, FilesStay DEF FilesInv
  <2>3. WritersAreSound'
    BY <2>1, <2>2, WritersStay DEF FilesInv
  <2> QED
    BY <2>1, <2>2, <2>3, ReadersKeep DEF FilesInv, LogStep
<1>2. CASE Next
  BY <1>2, WriterKeepsFiles, ReaderKeepsFiles, DreamKeepsFiles, HostKeepsFiles, ReadersKeep DEF Next
<1> QED
  BY <1>1, <1>2

LedgerInv == FilesInv /\ ReadersAreSound

\* The files, and whoever has one open, are what they should be at every moment.
THEOREM LedgerIsSound == Spec => []LedgerInv
<1>1. Init => LedgerInv
  <2>1. Init => ReadersAreSound
    <3>1. NotReading \in Reading /\ NotReading.pc = "idle"
      BY DEF NotReading, Reading
    <3> QED
      BY <3>1 DEF Init, ReadersAreSound
  <2> QED
    BY <2>1, FilesBegin DEF LedgerInv
<1>2. LedgerInv /\ [Next]_vars => LedgerInv'
  BY FilesStep DEF LedgerInv
<1> QED
  BY <1>1, <1>2, PTL DEF Spec

\* append_jsonl_with and the dream: a record whose append returned is in the ledger.
THEOREM AcknowledgedStays == Spec => []AcknowledgedIsHeld
<1>1. LedgerInv => AcknowledgedIsHeld
  BY DEF LedgerInv, FilesInv, AcknowledgedIsHeld
<1> QED
  BY <1>1, LedgerIsSound, PTL

\* What has reached the disk stays there.
THEOREM DiskKeeps == Spec => OnDiskStays
<1>1. LedgerInv /\ [Next]_vars => [OnDisk \subseteq OnDisk']_vars
  <2>1. LogStep => OnDisk \subseteq OnDisk'
    BY DEF LogStep, Log!Next, Log!Persist, Log!Store, Log!Acknowledge, Log!PowerCut
  <2> QED
    BY <2>1, FilesStep DEF LedgerInv
<1> QED
  BY <1>1, LedgerIsSound, PTL DEF Spec, OnDiskStays

\* The ledger, its index and its dream implement the promise of a RecordLog.
THEOREM LedgerIsARecordLog == Spec => ImplementsRecordLog
<1>1. Init => Log!Init
  BY FilesBegin
<1>2. LedgerInv /\ [Next]_vars => [Log!Next]_(Log!logVars)
  BY FilesStep DEF LedgerInv, LogStep, Log!logVars
<1> QED
  BY <1>1, <1>2, LedgerIsSound, PTL DEF Spec, ImplementsRecordLog, Log!Spec

-----------------------------------------------------------------------------
(* Indexes and files *)

\* An index that was never written leaves out no line of nothing.
LEMMA BlankIsGood ==
  ASSUME NEW f, Text(f)
  PROVE  Good(Blank, f) /\ Blank.inode = 0 /\ Blank.length = 0 /\ Blank.tags = {}
         /\ \A d \in Identities : Blank.keys[d] = 0
<1>1. Whole(f) \in Nat
  BY WholeLines
<1>2. Blank.length = 0 /\ Blank.tail = NoLine /\ Blank.inode = 0 /\ Blank.tags = {}
      /\ \A d \in Identities : Blank.keys[d] = 0
  BY DEF Blank
<1>3. TailAt(f, 0) = NoLine
  BY DEF TailAt
<1> QED
  BY <1>1, <1>2, <1>3 DEF Good

\* A file that has the same lines up to the cursor is followed as well.
LEMMA SameStart ==
  ASSUME NEW ix, NEW f, NEW g, Text(f), Text(g), Good(ix, f),
         ix.length <= Whole(g), \A k \in 1 .. ix.length : g[k] = f[k]
  PROVE  Good(ix, g)
<1>1. PICK n : n = ix.length
  OBVIOUS
<1>2. n \in 0..Whole(f) /\ Whole(f) \in Nat /\ Whole(g) \in Nat /\ n \in Nat
  BY <1>1, WholeLines DEF Good
<1>3. n \in 0..Whole(g) /\ \A k \in 1..n : g[k] = f[k]
  BY <1>1, <1>2
<1>4. TailAt(g, n) = TailAt(f, n)
  <2>1. n # 0 => n \in 1..n
    BY <1>2
  <2> QED
    BY <1>3, <2>1 DEF TailAt
<1> QED
  BY <1>1, <1>3, <1>4 DEF Good

\* What follows a file follows it when it grows.
LEMMA GoodStays ==
  ASSUME NEW ix, NEW f, NEW g, Text(f), Continues(f, g), Good(ix, f)
  PROVE  Good(ix, g)
<1>1. Text(g) /\ Whole(f) <= Whole(g) /\ \A k \in 1 .. Whole(f) : g[k] = f[k]
  BY DEF Continues
<1>2. PICK n : n = ix.length
  OBVIOUS
<1>3. n \in 0..Whole(f) /\ Whole(f) \in Nat /\ Whole(g) \in Nat
  BY <1>1, <1>2, WholeLines DEF Good
<1>4. n <= Whole(g) /\ \A k \in 1..n : g[k] = f[k]
  BY <1>1, <1>3
<1> QED
  BY <1>1, <1>2, <1>4, SameStart

\* Catching up leaves out no line after the cursor.
LEMMA CaughtUpIsGood ==
  ASSUME NEW ix \in Index, NEW i \in Inodes, Text(files[i]), ix.inode = i => Good(ix, files[i]),
         NEW now, now = CaughtUp(ix, i)
  PROVE  Good(now, files[i]) /\ now.length = Whole(files[i]) /\ now.inode = i
<1>1. PICK f : f = files[i]
  OBVIOUS
<1>2. PICK b : b = Base(ix, i)
  OBVIOUS
<1>3. b \in Index /\ Good(b, f)
  <2>1. CASE Follows(ix, i)
    BY <1>1, <1>2, <2>1 DEF Base, Follows
  <2>2. CASE ~Follows(ix, i)
    BY <1>1, <1>2, <2>2, BlankType, BlankIsGood DEF Base
  <2> QED
    BY <2>1, <2>2
<1>4. PICK m : m = b.length
  OBVIOUS
<1>5. PICK n : n = Whole(f)
  OBVIOUS
<1>6. m \in 0..n /\ n \in Nat /\ \A k \in 1..n : f[k] \in Lines
  BY <1>1, <1>3, <1>4, <1>5, WholeLines DEF Good
<1>7. /\ now.inode = i /\ now.length = n /\ now.tail = TailAt(f, n)
      /\ \A d \in Identities : b.keys[d] # 0 => now.keys[d] = b.keys[d]
      /\ \A k \in m + 1 .. n : f[k].form = "record" => now.keys[IdentityOf[f[k].rec]] # 0
      /\ now.tags = b.tags \cup {<<TagOf[f[k].rec], k>> : k \in m + 1 .. n}
  BY <1>1, <1>2, <1>4, <1>5, CaughtUpLines
<1>8. ASSUME NEW k \in 1..n, f[k].how # "mended"
      PROVE  /\ <<TagOf[f[k].rec], k>> \in now.tags
             /\ f[k].form = "record" => now.keys[IdentityOf[f[k].rec]] # 0
  <2>1. PICK d \in Identities : d = IdentityOf[f[k].rec]
    BY <1>6, LedgerAssumption DEF Lines
  <2>2. CASE k \in 1..m
    <3>1. /\ <<TagOf[f[k].rec], k>> \in b.tags
          /\ f[k].form = "record" => b.keys[d] # 0
      BY <1>3, <1>4, <1>8, <2>1, <2>2 DEF Good
    <3> QED
      BY <1>7, <2>1, <3>1
  <2>3. CASE k \in m + 1 .. n
    BY <1>7, <2>3
  <2> QED
    BY <1>6, <2>2, <2>3
<1>9. Good(now, f)
  <2>1. now.length \in 0..Whole(f)
    BY <1>5, <1>6, <1>7
  <2>2. now.tail = TailAt(f, now.length)
    BY <1>7
  <2>3. \A k \in 1 .. now.length :
          f[k].how # "mended" =>
              /\ <<TagOf[f[k].rec], k>> \in now.tags
              /\ f[k].form = "record" => now.keys[IdentityOf[f[k].rec]] # 0
    BY <1>7, <1>8
  <2> QED
    BY <2>1, <2>2, <2>3 DEF Good
<1> QED
  BY <1>1, <1>5, <1>7, <1>9

\* An index that is consulted leaves out no line, whether it was rebuilt or not.
LEMMA ConsultedIsGood ==
  ASSUME NEW ix \in Index, NEW i \in Inodes, Text(files[i]), ix.inode = i => Good(ix, files[i]),
         NEW now, now \in {CaughtUp(ix, i), CaughtUp(Blank, i)}
  PROVE  now \in Index /\ Good(now, files[i]) /\ now.length = Whole(files[i]) /\ now.inode = i
<1>1. CASE now = CaughtUp(ix, i)
  BY <1>1, CaughtUpIsGood, CaughtUpLines
<1>2. CASE now = CaughtUp(Blank, i)
  <2>1. Blank \in Index /\ (Blank.inode = i => Good(Blank, files[i]))
    BY BlankType, BlankIsGood
  <2> QED
    BY <1>2, <2>1, CaughtUpIsGood, CaughtUpLines
<1> QED
  BY <1>1, <1>2

\* A key that is consulted names a line that is there, with that identity.
LEMMA KeyIsConfirmed ==
  ASSUME NEW ix \in Index, NEW i \in Inodes, Text(files[i]), NEW d \in Identities,
         NEW now, now = IndexForKey(ix, i, d), now.keys[d] # 0
  PROVE  Confirmed(now, i, d)
<1>1. PICK c : c = CaughtUp(ix, i)
  OBVIOUS
<1>2. CASE ~(c.keys[d] # 0 /\ ~Confirmed(c, i, d))
  BY <1>1, <1>2 DEF IndexForKey
<1>3. CASE c.keys[d] # 0 /\ ~Confirmed(c, i, d)
  <2>1. now = CaughtUp(Blank, i)
    BY <1>1, <1>3 DEF IndexForKey
  <2>2. PICK b : b = Base(Blank, i)
    OBVIOUS
  <2>3. b.keys[d] = 0 /\ b.length = 0
    BY <2>2, BlankIsGood DEF Base
  <2>4. /\ now.keys[d] \in 1 .. Whole(files[i])
        /\ files[i][now.keys[d]].form = "record"
        /\ IdentityOf[files[i][now.keys[d]].rec] = d
    BY <2>1, <2>2, <2>3, BlankType, CaughtUpLines
  <2>5. \A k \in 1 .. Whole(files[i]) : k \in DOMAIN files[i]
    BY WholeLines, SMTT(40)
  <2> QED
    BY <2>4, <2>5 DEF Confirmed
<1> QED
  BY <1>2, <1>3

\* A caught-up index with a line just written leaves out no line.
LEMMA InsertedIsGood ==
  ASSUME NEW ix \in Index, NEW i \in Inodes, NEW f, Text(f), Good(ix, f), ix.length = Whole(f),
         NEW l \in Lines, Terminated(l), NEW g, g = Written(f, l.rec, l.form, l.how),
         NEW now, now = Inserted(ix, i, g)
  PROVE  Good(now, g) /\ now.inode = i
<1>1. /\ Continues(f, g) /\ Len(g) = Len(f) + 1 /\ g[Len(g)] = l /\ Whole(g) = Len(g)
      /\ \A k \in Whole(f) + 1 .. Len(f) : g[k].how = "mended"
  BY WrittenLines
<1>2. /\ Text(g) /\ Len(f) \in Nat /\ Whole(f) \in Nat /\ Whole(f) <= Len(f)
      /\ \A k \in 1..Whole(f) : g[k] = f[k]
  BY <1>1, WholeLines DEF Continues
<1>3. PICK n \in Nat : n = Len(g)
  BY <1>1, <1>2
<1>4. /\ now.inode = i /\ now.length = n /\ now.tail = TailAt(g, n)
      /\ now.tags = ix.tags \cup {<<TagOf[l.rec], n>>}
      /\ \A d \in Identities : ix.keys[d] # 0 => now.keys[d] # 0
      /\ now.keys[IdentityOf[l.rec]] # 0
  <2>1. Len(g) # 0
    BY <1>1, <1>2
  <2> QED
    BY <1>1, <1>2, <1>3, <2>1, InsertedType
<1>5. ASSUME NEW k \in 1..n, g[k].how # "mended"
      PROVE  /\ <<TagOf[g[k].rec], k>> \in now.tags
             /\ g[k].form = "record" => now.keys[IdentityOf[g[k].rec]] # 0
  <2>1. CASE k \in 1..Whole(f)
    <3>1. g[k] = f[k] /\ k \in 1..ix.length
      BY <1>2, <2>1
    <3>2. /\ <<TagOf[g[k].rec], k>> \in ix.tags
          /\ g[k].form = "record" => ix.keys[IdentityOf[g[k].rec]] # 0
      BY <1>5, <3>1 DEF Good
    <3>3. IdentityOf[g[k].rec] \in Identities
      <4>1. f[k] \in Lines
        BY <1>2, <2>1, WholeLines
      <4> QED
        BY <3>1, <4>1, LedgerAssumption DEF Lines
    <3> QED
      BY <1>4, <3>2, <3>3
  <2>2. CASE k = n
    BY <1>1, <1>3, <1>4, <2>2
  <2>3. k \in 1..Whole(f) \/ k \in Whole(f) + 1 .. Len(f) \/ k = n
    BY <1>1, <1>2, <1>3
  <2> QED
    BY <1>1, <1>5, <2>1, <2>2, <2>3
<1>6. n \in 0..Whole(g)
  BY <1>1, <1>3
<1> QED
  BY <1>4, <1>5, <1>6 DEF Good

\* A record that a caught-up index does not know is on no whole line, but for one
\* that another append ended.
LEMMA UnknownIsAbsent ==
  ASSUME NEW ix \in Index, NEW f, Text(f), Good(ix, f), ix.length = Whole(f),
         NEW d \in Identities, ix.keys[d] = 0
  PROVE  \A k \in 1..Whole(f) :
            f[k].form = "record" /\ IdentityOf[f[k].rec] = d => f[k].how = "mended"
BY DEF Good

\* A line that was checked repeats none of the file's.
LEMMA WrittenOnce ==
  ASSUME NEW f, Text(f), NotRepeated(f), NEW l \in Lines,
         NEW g, g = Written(f, l.rec, l.form, l.how),
         l.how = "checked" => \A k \in 1..Whole(f) :
             f[k].form = "record" /\ IdentityOf[f[k].rec] = IdentityOf[l.rec] => f[k].how = "mended"
  PROVE  NotRepeated(g)
<1>1. /\ Continues(f, g) /\ Len(g) = Len(f) + 1 /\ g[Len(g)] = l
      /\ \A k \in Whole(f) + 1 .. Len(f) : g[k].how = "mended"
  BY WrittenLines
<1>2. /\ Len(f) \in Nat /\ Whole(f) \in Nat /\ Whole(f) <= Len(f)
      /\ \A k \in 1..Whole(f) : g[k] = f[k] /\ Terminated(f[k])
  BY <1>1, WholeLines DEF Continues
<1>3. ASSUME NEW j \in 1..Len(g), NEW k \in 1..Len(g),
             j < k, SameRecord(g[j], g[k]), g[k].how = "checked"
      PROVE  g[j].how = "mended"
  <2>1. j \in 1..Len(f)
    BY <1>1, <1>2, <1>3
  <2>2. CASE j \in Whole(f) + 1 .. Len(f)
    BY <1>1, <2>2
  <2>3. CASE j \in 1..Whole(f) /\ k = Len(g)
    <3>1. g[k] = l /\ g[j] = f[j] /\ Terminated(f[j])
      BY <1>1, <1>2, <2>3
    <3>2. Readable(f[j]) /\ IdentityOf[f[j].rec] = IdentityOf[l.rec]
      BY <1>3, <3>1 DEF SameRecord
    <3>3. f[j].form = "record"
      BY <3>1, <3>2 DEF Readable, Terminated
    <3> QED
      BY <1>3, <2>3, <3>1, <3>2, <3>3
  <2>4. CASE j \in 1..Whole(f) /\ k \in 1..Whole(f)
    <3>1. g[k] = f[k] /\ g[j] = f[j] /\ k \in 1..Len(f)
      BY <1>2, <2>4
    <3> QED
      BY <1>3, <2>1, <3>1 DEF NotRepeated
  <2>5. CASE k \in Whole(f) + 1 .. Len(f)
    BY <1>1, <1>3, <2>5
  <2>6. /\ j \in 1..Whole(f) \/ j \in Whole(f) + 1 .. Len(f)
        /\ k \in 1..Whole(f) \/ k \in Whole(f) + 1 .. Len(f) \/ k = Len(g)
    BY <1>1, <1>2, <2>1
  <2> QED
    BY <2>2, <2>3, <2>4, <2>5, <2>6
<1> QED
  BY <1>3 DEF NotRepeated

\* What a reader is owed stays in a file that grows.
LEMMA OwedStays ==
  ASSUME NEW f, Text(f), NEW g, Continues(f, g), NEW t
  PROVE  Owed(f, t) \subseteq Owed(g, t)
<1>1. /\ Text(g) /\ Whole(f) <= Whole(g) /\ \A k \in 1 .. Whole(f) : g[k] = f[k]
  BY DEF Continues
<1>2. /\ DOMAIN f = 1..Len(f) /\ Len(f) \in Nat /\ Whole(f) \in Nat
      /\ \/ Whole(f) = Len(f)
         \/ Len(f) = Whole(f) + 1 /\ ~Terminated(f[Len(f)])
      /\ DOMAIN g = 1..Len(g) /\ Len(g) \in Nat /\ Whole(g) \in Nat /\ Whole(g) <= Len(g)
  BY <1>1, WholeLines
<1>3. \A k \in DOMAIN f : Settled(f[k]) => k \in 1..Whole(f) /\ k \in DOMAIN g /\ g[k] = f[k]
  <2>1. ASSUME NEW k \in DOMAIN f, Settled(f[k]) PROVE k \in 1..Whole(f)
    <3>1. Terminated(f[k])
      BY <2>1 DEF Settled, Terminated
    <3> QED
      BY <1>2, <3>1
  <2> QED
    BY <1>1, <1>2, <2>1
<1> QED
  BY <1>3 DEF Owed

\* What a reader is owed is held.
LEMMA OwedIsHeld ==
  ASSUME NEW f, NEW t
  PROVE  Owed(f, t) \subseteq HeldIn(f)
BY DEF Owed, HeldIn, Settled, Readable

\* An index that leaves out no line finds all that is owed.
LEMMA OwedIsFound ==
  ASSUME NEW i \in Inodes, Text(files[i]), NEW ix, Good(ix, files[i]),
         ix.length = Whole(files[i]), NEW t
  PROVE  Owed(files[i], t) \subseteq TaggedIdentities(i, t, TaggedLines(ix, t))
<1>1. PICK f : f = files[i]
  OBVIOUS
<1>2. /\ DOMAIN f = 1..Len(f) /\ Len(f) \in Nat /\ Whole(f) \in Nat
      /\ \/ Whole(f) = Len(f)
         \/ Len(f) = Whole(f) + 1 /\ ~Terminated(f[Len(f)])
  BY <1>1, WholeLines
<1>3. ASSUME NEW k \in DOMAIN f, Settled(f[k]), TagOf[f[k].rec] = t
      PROVE  k \in TaggedLines(ix, t) /\ Readable(f[k])
  <2>1. Terminated(f[k]) /\ Readable(f[k]) /\ f[k].how # "mended"
    BY <1>3 DEF Settled, Terminated, Readable
  <2>2. k \in 1..Whole(f)
    BY <1>2, <2>1
  <2>3. <<t, k>> \in ix.tags
    BY <1>1, <1>3, <2>1, <2>2 DEF Good
  <2> QED
    BY <2>1, <2>3 DEF TaggedLines
<1> QED
  BY <1>1, <1>3 DEF Owed, TaggedIdentities

\* Records of one identity have one tag: what is owed and held is found by reading
\* every line.
LEMMA OwedIsRead ==
  ASSUME NEW f, Text(f), NEW i \in Inodes, Text(files[i]), NEW t, NEW d \in Owed(f, t),
         d \in HeldIn(files[i])
  PROVE  d \in TaggedIdentities(i, t, DOMAIN files[i])
<1>1. PICK k \in DOMAIN f : TagOf[f[k].rec] = t /\ IdentityOf[f[k].rec] = d
  BY DEF Owed
<1>2. PICK n \in DOMAIN files[i] : Readable(files[i][n]) /\ IdentityOf[files[i][n].rec] = d
  BY DEF HeldIn
<1>3. f[k] \in Lines /\ files[i][n] \in Lines
  BY <1>1, <1>2, WholeLines
<1>4. TagOf[files[i][n].rec] = t
  BY <1>1, <1>2, <1>3, LedgerAssumption DEF Lines
<1> QED
  BY <1>2, <1>4 DEF TaggedIdentities

-----------------------------------------------------------------------------
(* Every step keeps the invariant of the index *)

\* The files somebody may read are files, none of them newer than the ledger.
LEMMA LiveType ==
  ASSUME LedgerInv
  PROVE  Live \subseteq Inodes /\ 0 \notin Live
<1>1. Live \subseteq Inodes
  BY DEF LedgerInv, FilesInv, FilesAreText, ReadersAreSound, Live
<1> QED
  BY <1>1, LedgerAssumption DEF Inodes

\* The index follows the files when fewer of them are read.
LEMMA IndexStays ==
  ASSUME LedgerInv, IndexFollows, UNCHANGED <<files, path>>, Live' \subseteq Live,
         index' \in {index, Blank}
  PROVE  IndexFollows'
<1>1. Blank.inode = 0 /\ path \in Nat /\ 0 \notin Live
  BY LiveType DEF Blank, LedgerInv, FilesInv, FilesAreText, Inodes
<1> QED
  BY <1>1 DEF IndexFollows

\* An index written for a file follows that file.
LEMMA IndexMoves ==
  ASSUME LedgerInv, UNCHANGED <<files, path>>, NEW i \in Inodes, i <= path,
         index'.inode = i, Good(index', files[i])
  PROVE  IndexFollows'
BY DEF IndexFollows

\* When the ledger grows, the index, the drafts and the readers keep what they have.
LEMMA GrowthKeeps ==
  ASSUME LedgerInv, IndexParts, UNCHANGED <<path, diskPath, index, reader>>, NEW l \in Lines,
         files' = [files EXCEPT ![path] = Written(files[path], l.rec, l.form, l.how)],
         Held \subseteq Held',
         l.how = "checked" => \A k \in 1..Whole(files[path]) :
             files[path][k].form = "record" /\ IdentityOf[files[path][k].rec] = IdentityOf[l.rec]
                => files[path][k].how = "mended",
         NEW w \in Writers, \A x \in Writers : x # w => writer'[x] = writer[x],
         writer'[w].pc = "written" =>
             writer'[w].draft.inode = path /\ Good(writer'[w].draft, files'[path])
  PROVE  IndexParts'
<1>1. PICK f : f = files[path]
  OBVIOUS
<1>2. PICK g : g = Written(f, l.rec, l.form, l.how)
  OBVIOUS
<1>3. path \in Inodes /\ Text(f) /\ files \in [Inodes -> Seq(Lines)]
  BY <1>1 DEF LedgerInv, FilesInv, FilesAreText
<1>4. Continues(f, g)
  BY <1>2, <1>3, WrittenLines
<1>5. /\ files'[path] = g
      /\ \A i \in Inodes : i # path => files'[i] = files[i]
  BY <1>1, <1>2, <1>3
<1>6. \A ix : Good(ix, f) => Good(ix, g)
  BY <1>3, <1>4, GoodStays
<1>7. IndexFollows'
  <2>1. Live' = Live
    BY DEF Live
  <2>2. ASSUME index.inode \in Live PROVE Good(index, files'[index.inode])
    <3>1. index.inode \in Inodes /\ Good(index, files[index.inode])
      BY <2>2, LiveType DEF IndexParts, IndexFollows
    <3> QED
      BY <1>1, <1>5, <1>6, <3>1
  <2> QED
    BY <2>1, <2>2 DEF IndexParts, IndexFollows
<1>8. DraftsFollow'
  <2>1. ASSUME NEW x \in Writers, writer'[x].pc = "written"
        PROVE  writer'[x].draft.inode = path /\ Good(writer'[x].draft, files'[path])
    <3>1. CASE x = w
      BY <2>1, <3>1
    <3>2. CASE x # w
      BY <1>1, <1>5, <1>6, <2>1, <3>2 DEF IndexParts, DraftsFollow
    <3> QED
      BY <3>1, <3>2
  <2> QED
    BY <2>1 DEF DraftsFollow
<1>9. ReadersAreOwed'
  <2>1. ASSUME NEW x \in Readers, reader[x].pc = "opened"
        PROVE  reader[x].owed \subseteq Owed(files'[reader[x].inode], reader[x].tag)
    <3>1. PICK t : t = reader[x].tag
      OBVIOUS
    <3>2. reader[x].inode \in Inodes /\ reader[x].owed \subseteq Owed(files[reader[x].inode], t)
      BY <2>1, <3>1 DEF IndexParts, ReadersAreOwed
    <3>3. Owed(f, t) \subseteq Owed(g, t)
      BY <1>3, <1>4, OwedStays
    <3> QED
      BY <1>1, <1>5, <3>1, <3>2, <3>3
  <2> QED
    BY <2>1 DEF IndexParts, ReadersAreOwed
<1>10. NotRepeated(g)
  <2>1. NotRepeated(f)
    BY <1>1 DEF IndexParts
  <2>2. l.how = "checked" => \A k \in 1..Whole(f) :
           f[k].form = "record" /\ IdentityOf[f[k].rec] = IdentityOf[l.rec] => f[k].how = "mended"
    BY <1>1
  <2> QED
    BY <1>2, <1>3, <2>1, <2>2, WrittenOnce
<1>11. NotRepeated(files'[diskPath])
  BY <1>5, <1>10 DEF IndexParts, LedgerInv, FilesInv, FilesAreText
<1> QED
  BY <1>5, <1>7, <1>8, <1>9, <1>10, <1>11 DEF IndexParts

\* When the files stay as they are, so does all but what moves.
LEMMA QuietKeeps ==
  ASSUME LedgerInv, IndexParts, UNCHANGED <<files, path, reader>>, diskPath' \in {path, diskPath},
         index' \in {index, Blank}
            \/ (index'.inode \in Inodes /\ index'.inode <= path /\ Good(index', files[index'.inode])),
         DraftsFollow'
  PROVE  IndexParts'
<1>1. Live' \subseteq Live
  BY DEF Live
<1>2. IndexFollows'
  BY <1>1, IndexStays, IndexMoves DEF IndexParts
<1>3. ReadersAreOwed'
  BY DEF ReadersAreOwed, IndexParts, Held
<1> QED
  BY <1>2, <1>3 DEF IndexParts

\* The drafts of the others stay.
LEMMA DraftsKeep ==
  ASSUME IndexParts, UNCHANGED <<files, path>>,
         \A w \in Writers : writer'[w].pc = "written" => writer'[w] = writer[w]
  PROVE  DraftsFollow'
BY DEF DraftsFollow, IndexParts

\* What one writer does keeps the invariant of the index.
LEMMA WriterKeepsIndex ==
  ASSUME LedgerInv, IndexParts, NEW w \in Writers, Write(w)
  PROVE  IndexParts'
<1>1. /\ path \in Inodes /\ path <= path /\ path \in Nat
      /\ Text(files[path]) /\ files \in [Inodes -> Seq(Lines)]
      /\ index \in Index
      /\ writer \in [Writers -> Writing] /\ writer[w] \in Writing
      /\ writer[w].pc # "idle" => writer[w].rec \in Records
      /\ writer[w].pc # "idle" => Wanted(w) \in Identities
  BY LedgerAssumption DEF LedgerInv, FilesInv, FilesAreText, WritersAreSound, Wanted, Inodes
<1>2. index.inode = path => Good(index, files[path])
  BY DEF IndexParts, IndexFollows, Live
<1>3. Idle.pc = "idle"
  BY IdleType
<1>4. Held \subseteq Held'
  <2>1. LogStep
    BY WriterKeepsFiles DEF LedgerInv
  <2>2. CASE UNCHANGED files /\ UNCHANGED path
    BY <2>2 DEF Held
  <2>3. CASE ~UNCHANGED files \/ ~UNCHANGED path
    <3>1. PICK r \in Records, form \in {"record", "bare", "cut"}, how \in {"checked", "unchecked"} :
            /\ files' = [files EXCEPT ![path] = Written(files[path], r, form, how)]
            /\ UNCHANGED <<path, flushed, diskPath>>
      BY <1>1, <2>3 DEF Write, OpenLedger, Reopen, AppendPresent, AppendChecked, CommitIndex, FailCommit,
           AppendUnchecked, CutChecked, WriteUnchecked, CutUnchecked, HasLedger, disk,
           LedgerInv, FilesInv, WritersAreSound
    <3>2. PICK l : l = [rec |-> r, form |-> form, how |-> how]
      OBVIOUS
    <3>3. l \in Lines /\ l.rec = r /\ l.form = form /\ l.how = how
      BY <3>2 DEF Lines
    <3>4. files' = [files EXCEPT ![path] = Written(files[path], l.rec, l.form, l.how)]
      BY <3>1, <3>3
    <3> QED
      BY <3>1, <3>3, <3>4, LedgerGrows DEF LedgerInv, FilesInv
  <2> QED
    BY <2>2, <2>3
<1>5. CASE OpenLedger(w) \/ Reopen(w) \/ FailCommit(w) \/ AppendUnchecked(w)
  <2>1. /\ UNCHANGED <<files, path, diskPath, reader>> /\ index' \in {index, Blank}
    BY <1>5 DEF OpenLedger, Reopen, FailCommit, AppendUnchecked, disk
  <2>2. \A x \in Writers : writer'[x].pc = "written" => writer'[x] = writer[x]
    <3>1. \A x \in Writers : x # w => writer'[x] = writer[x]
      BY <1>1, <1>5 DEF OpenLedger, Reopen, FailCommit, AppendUnchecked, Returns
    <3>2. writer'[w].pc # "written"
      <4>1. CASE OpenLedger(w)
        BY <1>1, <4>1 DEF OpenLedger
      <4>2. CASE Reopen(w)
        <5>1. writer' = [writer EXCEPT ![w].inode = path] /\ writer[w].pc = "opened"
          BY <4>2 DEF Reopen
        <5> QED
          BY <1>1, <5>1 DEF Writing
      <4>3. CASE FailCommit(w)
        BY <1>1, <1>3, <4>3 DEF FailCommit, Returns
      <4>4. CASE AppendUnchecked(w)
        <5>1. writer' = [writer EXCEPT ![w].pc = "unchecked"]
          BY <4>4 DEF AppendUnchecked
        <5> QED
          BY <1>1, <5>1 DEF Writing
      <4> QED
        BY <1>5, <4>1, <4>2, <4>3, <4>4
    <3> QED
      BY <3>1, <3>2
  <2>3. DraftsFollow'
    BY <2>1, <2>2, DraftsKeep
  <2> QED
    BY <2>1, <2>3, QuietKeeps
<1>6. CASE AppendPresent(w) \/ CommitIndex(w)
  <2>1. /\ UNCHANGED <<files, path, diskPath, reader>> /\ writer' = [writer EXCEPT ![w] = Idle]
    BY <1>6 DEF AppendPresent, CommitIndex, Returns, disk
  <2>2. DraftsFollow'
    BY <1>1, <1>3, <2>1, DraftsKeep
  <2>3. index'.inode = path /\ Good(index', files[path])
    <3>1. CASE AppendPresent(w)
      <4>1. index' = IndexForKey(index, path, Wanted(w))
        BY <3>1 DEF AppendPresent, HasLedger, IndexFor
      <4>2. index' \in {CaughtUp(index, path), CaughtUp(Blank, path)}
        BY <1>1, <4>1, ConsultedType
      <4> QED
        BY <1>1, <1>2, <4>2, ConsultedIsGood
    <3>2. CASE CommitIndex(w)
      BY <3>2 DEF CommitIndex, IndexParts, DraftsFollow
    <3> QED
      BY <1>6, <3>1, <3>2
  <2> QED
    BY <1>1, <2>1, <2>2, <2>3, QuietKeeps
<1>7. CASE AppendChecked(w) \/ CutChecked(w)
  <2>1. /\ UNCHANGED <<path, diskPath, index, reader>>
        /\ writer[w].pc = "opened" /\ writer[w].inode = path /\ ~Present(w)
    BY <1>7 DEF AppendChecked, CutChecked, HasLedger, disk
  <2>2. PICK d \in Identities : d = Wanted(w)
    BY <1>1, <2>1
  <2>3. PICK now : now = IndexFor(w)
    OBVIOUS
  <2>4. /\ now = IndexForKey(index, path, d)
        /\ now \in {CaughtUp(index, path), CaughtUp(Blank, path)}
    BY <1>1, <2>1, <2>2, <2>3, ConsultedType DEF IndexFor
  <2>5. now \in Index /\ Good(now, files[path]) /\ now.length = Whole(files[path])
    BY <1>1, <1>2, <2>4, ConsultedIsGood
  <2>6. now.keys[d] = 0
    <3>1. now.keys[d] # 0 => Confirmed(now, path, d)
      BY <1>1, <2>4, KeyIsConfirmed
    <3> QED
      BY <2>1, <2>2, <2>3, <3>1 DEF Present
  <2>7. \A k \in 1..Whole(files[path]) :
           files[path][k].form = "record" /\ IdentityOf[files[path][k].rec] = d
              => files[path][k].how = "mended"
    BY <1>1, <2>5, <2>6, UnknownIsAbsent
  <2>8. CASE AppendChecked(w)
    <3>1. PICK l : l = [rec |-> writer[w].rec, form |-> "record", how |-> "checked"]
      OBVIOUS
    <3>2. l \in Lines /\ Terminated(l) /\ l.rec = writer[w].rec
          /\ l.form = "record" /\ l.how = "checked"
      BY <1>1, <2>1, <3>1 DEF Lines, Terminated
    <3>3. PICK g : g = Written(files[path], l.rec, l.form, l.how)
      OBVIOUS
    <3>4. PICK draft : draft = Inserted(now, path, g)
      OBVIOUS
    <3>5. Good(draft, g) /\ draft.inode = path
      BY <1>1, <2>5, <3>2, <3>3, <3>4, InsertedIsGood
    <3>6. /\ files' = [files EXCEPT ![path] = g]
          /\ writer' = [writer EXCEPT ![w] = [@ EXCEPT !.pc = "written", !.draft = draft]]
      BY <2>1, <2>3, <2>8, <3>2, <3>3, <3>4 DEF AppendChecked
    <3>7. /\ \A x \in Writers : x # w => writer'[x] = writer[x]
          /\ writer'[w].draft = draft
          /\ files'[path] = g
      BY <1>1, <3>6 DEF Writing
    <3>8. IdentityOf[l.rec] = d
      BY <2>2, <3>2 DEF Wanted
    <3> QED
      BY <1>4, <2>1, <2>7, <3>2, <3>3, <3>5, <3>6, <3>7, <3>8, GrowthKeeps
  <2>9. CASE CutChecked(w)
    <3>1. PICK form \in {"bare", "cut"} :
            files' = [files EXCEPT ![path] = Written(@, writer[w].rec, form, "checked")]
      BY <2>9 DEF CutChecked
    <3>2. PICK l : l = [rec |-> writer[w].rec, form |-> form, how |-> "checked"]
      OBVIOUS
    <3>3. l \in Lines /\ l.rec = writer[w].rec /\ l.form = form /\ l.how = "checked"
      BY <1>1, <2>1, <3>2 DEF Lines
    <3>4. files' = [files EXCEPT ![path] = Written(files[path], l.rec, l.form, l.how)]
      BY <3>1, <3>3
    <3>5. writer' = [writer EXCEPT ![w].pc = "unchecked"]
      BY <2>9 DEF CutChecked
    <3>6. /\ \A x \in Writers : x # w => writer'[x] = writer[x]
          /\ writer'[w].pc = "unchecked"
      BY <1>1, <3>5 DEF Writing
    <3>7. IdentityOf[l.rec] = d
      BY <2>2, <3>3 DEF Wanted
    <3> QED
      BY <1>4, <2>1, <2>7, <3>3, <3>4, <3>6, <3>7, GrowthKeeps
  <2> QED
    BY <1>7, <2>8, <2>9
<1>8. CASE WriteUnchecked(w) \/ CutUnchecked(w)
  <2>1. /\ UNCHANGED <<path, diskPath, index, reader>>
        /\ writer[w].pc = "unchecked" /\ writer[w].inode = path
        /\ writer' = [writer EXCEPT ![w] = Idle]
    BY <1>8 DEF WriteUnchecked, CutUnchecked, Returns, LedgerInv, FilesInv, WritersAreSound, disk
  <2>2. PICK form \in {"record", "bare", "cut"} :
          files' = [files EXCEPT ![path] = Written(files[path], writer[w].rec, form, "unchecked")]
    BY <1>8, <2>1 DEF WriteUnchecked, CutUnchecked
  <2>3. PICK l : l = [rec |-> writer[w].rec, form |-> form, how |-> "unchecked"]
    OBVIOUS
  <2>4. l \in Lines /\ l.rec = writer[w].rec /\ l.form = form /\ l.how = "unchecked"
    BY <1>1, <2>1, <2>3 DEF Lines
  <2>5. files' = [files EXCEPT ![path] = Written(files[path], l.rec, l.form, l.how)]
    BY <2>2, <2>4
  <2>6. (\A x \in Writers : x # w => writer'[x] = writer[x]) /\ writer'[w].pc = "idle"
    BY <1>1, <1>3, <2>1
  <2> QED
    BY <1>4, <2>1, <2>4, <2>5, <2>6, GrowthKeeps
<1> QED
  BY <1>5, <1>6, <1>7, <1>8 DEF Write

\* What a reader does keeps the invariant of the index.
LEMMA ReaderKeepsIndex ==
  ASSUME LedgerInv, IndexParts, NEW x \in Readers, Read(x)
  PROVE  IndexParts'
<1>1. UNCHANGED <<files, path, diskPath, writer>>
  BY DEF Read, OpenRead, ReadTagged, StreamLedger, CloseRead, disk
<1>2. /\ reader \in [Readers -> Reading] /\ reader[x] \in Reading
      /\ path \in Inodes /\ path <= path /\ path \in Nat /\ \A i \in Inodes : Text(files[i])
      /\ index \in Index
      /\ reader[x].pc # "idle" => reader[x].inode \in Inodes /\ reader[x].tag \in Tags
  BY DEF LedgerInv, FilesInv, FilesAreText, ReadersAreSound, Inodes
<1>3. DraftsFollow' /\ NotRepeated(files[path])' /\ NotRepeated(files[diskPath])'
  BY <1>1 DEF IndexParts, DraftsFollow
<1>4. CASE OpenRead(x)
  <2>1. PICK t \in Tags :
          reader' = [reader EXCEPT ![x] = [pc |-> "opened", tag |-> t, inode |-> path,
                                           owed |-> Owed(files[path], t), answer |-> {}]]
    BY <1>4 DEF OpenRead
  <2>2. index' = index /\ reader[x].pc = "idle"
    BY <1>4 DEF OpenRead
  <2>3. /\ reader'[x].pc = "opened" /\ reader'[x].tag = t /\ reader'[x].inode = path
        /\ reader'[x].owed = Owed(files[path], t)
        /\ \A y \in Readers : y # x => reader'[y] = reader[y]
    BY <1>2, <2>1
  <2>4. Live' \subseteq Live
    BY <1>1, <2>3 DEF Live
  <2>5. IndexFollows'
    BY <1>1, <2>2, <2>4, IndexStays DEF IndexParts
  <2>6. ReadersAreOwed'
    <3>1. Owed(files[path], t) \subseteq Held
      BY OwedIsHeld DEF Held
    <3>2. ASSUME NEW y \in Readers
          PROVE  /\ reader'[y].pc = "opened" =>
                       /\ reader'[y].inode \in Inodes /\ reader'[y].inode <= path
                       /\ reader'[y].owed \subseteq Owed(files[reader'[y].inode], reader'[y].tag)
                       /\ reader'[y].owed \subseteq Held
                 /\ reader'[y].pc = "answered" => reader'[y].owed \subseteq reader'[y].answer
      <4>1. CASE y = x
        BY <1>2, <2>3, <3>1, <4>1
      <4>2. CASE y # x
        BY <2>3, <4>2 DEF IndexParts, ReadersAreOwed
      <4> QED
        BY <4>1, <4>2
    <3> QED
      BY <1>1, <3>2 DEF ReadersAreOwed, Held
  <2> QED
    BY <1>3, <2>5, <2>6 DEF IndexParts
<1>5. ASSUME reader[x].pc = "opened", NEW answer, reader[x].owed \subseteq answer,
             reader' = [reader EXCEPT ![x] = [@ EXCEPT !.pc = "answered", !.answer = answer]]
      PROVE  ReadersAreOwed' /\ Live' = Live
  <2>1. /\ reader'[x].pc = "answered" /\ reader'[x].answer = answer
        /\ reader'[x].owed = reader[x].owed /\ reader'[x].inode = reader[x].inode
        /\ \A y \in Readers : y # x => reader'[y] = reader[y]
    BY <1>2, <1>5 DEF Reading
  <2>2. Live' = Live
    BY <1>1, <1>5, <2>1 DEF Live
  <2>3. ASSUME NEW y \in Readers
        PROVE  /\ reader'[y].pc = "opened" =>
                     /\ reader'[y].inode \in Inodes /\ reader'[y].inode <= path
                     /\ reader'[y].owed \subseteq Owed(files[reader'[y].inode], reader'[y].tag)
                     /\ reader'[y].owed \subseteq Held
               /\ reader'[y].pc = "answered" => reader'[y].owed \subseteq reader'[y].answer
    <3>1. CASE y = x
      BY <1>5, <2>1, <3>1
    <3>2. CASE y # x
      BY <2>1, <3>2 DEF IndexParts, ReadersAreOwed
    <3> QED
      BY <3>1, <3>2
  <2> QED
    BY <1>1, <2>2, <2>3 DEF ReadersAreOwed, Held
<1>6. CASE ReadTagged(x)
  <2>1. PICK i \in Inodes : i = reader[x].inode
    BY <1>2, <1>6 DEF ReadTagged
  <2>2. PICK t : t = reader[x].tag
    OBVIOUS
  <2>3. /\ reader[x].pc = "opened" /\ index' = IndexForTag(index, i, t)
        /\ reader' = [reader EXCEPT ![x] = [@ EXCEPT !.pc = "answered",
                         !.answer = TaggedIdentities(i, t, TaggedLines(index', t))]]
    BY <1>6, <2>1, <2>2 DEF ReadTagged
  <2>4. PICK now : now = index'
    OBVIOUS
  <2>5. Text(files[i]) /\ i <= path /\ (index.inode = i => Good(index, files[i]))
        /\ reader[x].owed \subseteq Owed(files[i], t)
    BY <1>2, <2>1, <2>2, <2>3 DEF IndexParts, IndexFollows, ReadersAreOwed, Live
  <2>6. now \in {CaughtUp(index, i), CaughtUp(Blank, i)}
    BY <1>2, <2>3, <2>4, <2>5, ConsultedType
  <2>7. Good(now, files[i]) /\ now.length = Whole(files[i]) /\ now.inode = i
    BY <1>2, <2>5, <2>6, ConsultedIsGood
  <2>8. PICK answer : answer = TaggedIdentities(i, t, TaggedLines(now, t))
    OBVIOUS
  <2>9. reader[x].owed \subseteq answer
    <3>1. Owed(files[i], t) \subseteq TaggedIdentities(i, t, TaggedLines(now, t))
      BY <2>5, <2>7, OwedIsFound
    <3> QED
      BY <2>5, <2>8, <3>1
  <2>10. reader' = [reader EXCEPT ![x] = [@ EXCEPT !.pc = "answered", !.answer = answer]]
    BY <2>3, <2>4, <2>8
  <2>11. ReadersAreOwed'
    BY <1>5, <2>3, <2>9, <2>10
  <2>12. IndexFollows'
    BY <1>1, <2>4, <2>5, <2>7, IndexMoves
  <2> QED
    BY <1>3, <2>11, <2>12 DEF IndexParts
<1>7. CASE StreamLedger(x)
  <2>1. PICK answer : answer = TaggedIdentities(path, reader[x].tag, DOMAIN files[path])
    OBVIOUS
  <2>2. /\ reader[x].pc = "opened" /\ index' \in {index, Blank}
        /\ reader' = [reader EXCEPT ![x] = [@ EXCEPT !.pc = "answered", !.answer = answer]]
    BY <1>7, <2>1 DEF StreamLedger
  <2>3. reader[x].owed \subseteq answer
    <3>1. PICK f : f = files[reader[x].inode]
      OBVIOUS
    <3>2. PICK t : t = reader[x].tag
      OBVIOUS
    <3>3. Text(f) /\ reader[x].owed \subseteq Owed(f, t) /\ reader[x].owed \subseteq HeldIn(files[path])
      BY <1>2, <2>2, <3>1, <3>2 DEF IndexParts, ReadersAreOwed, Held
    <3>4. Text(files[path])
      BY <1>2
    <3>5. \A d \in reader[x].owed : d \in TaggedIdentities(path, t, DOMAIN files[path])
      BY <1>2, <3>3, <3>4, OwedIsRead
    <3> QED
      BY <2>1, <3>2, <3>5
  <2>4. ReadersAreOwed' /\ Live' = Live
    BY <1>5, <2>2, <2>3
  <2>5. IndexFollows'
    BY <1>1, <2>2, <2>4, IndexStays DEF IndexParts
  <2> QED
    BY <1>3, <2>4, <2>5 DEF IndexParts
<1>8. CASE CloseRead(x)
  <2>1. index' = index /\ reader' = [reader EXCEPT ![x] = NotReading]
    BY <1>8 DEF CloseRead
  <2>2. reader'[x].pc = "idle" /\ \A y \in Readers : y # x => reader'[y] = reader[y]
    BY <1>2, <2>1 DEF NotReading
  <2>3. Live' \subseteq Live
    BY <1>1, <2>2 DEF Live
  <2>4. IndexFollows'
    BY <1>1, <2>1, <2>3, IndexStays DEF IndexParts
  <2>5. ReadersAreOwed'
    <3>1. ASSUME NEW y \in Readers
          PROVE  /\ reader'[y].pc = "opened" =>
                       /\ reader'[y].inode \in Inodes /\ reader'[y].inode <= path
                       /\ reader'[y].owed \subseteq Owed(files[reader'[y].inode], reader'[y].tag)
                       /\ reader'[y].owed \subseteq Held
                 /\ reader'[y].pc = "answered" => reader'[y].owed \subseteq reader'[y].answer
      <4>1. CASE y = x
        BY <2>2, <4>1
      <4>2. CASE y # x
        BY <2>2, <4>2 DEF IndexParts, ReadersAreOwed
      <4> QED
        BY <4>1, <4>2
    <3> QED
      BY <1>1, <3>1 DEF ReadersAreOwed, Held
  <2> QED
    BY <1>3, <2>4, <2>5 DEF IndexParts
<1> QED
  BY <1>4, <1>6, <1>7, <1>8 DEF Read

\* The copy is a file nobody has read; the readers of the old one keep it.
LEMMA SwapKeepsIndex ==
  ASSUME LedgerInv, IndexParts, Swap
  PROVE  IndexParts'
<1>1. /\ FilesInv /\ ReadersAreSound /\ FilesAreText
      /\ files' = [files EXCEPT ![path + 1] = Compaction(files[path])]
      /\ path' = path + 1 /\ path \in Inodes /\ path # MaxFiles /\ ~Locked(path)
      /\ UNCHANGED <<diskPath, index, writer, reader>>
  BY DEF LedgerInv, FilesInv, FilesAreText, Swap
<1>2. PICK q : q = path + 1
  OBVIOUS
<1>3. q \in Inodes /\ path \in Nat /\ q \in Nat /\ path < q /\ path' = q
  BY <1>1, <1>2, LedgerAssumption DEF Inodes
<1>4. PICK c : c = Compaction(files[path])
  OBVIOUS
<1>5. NotRepeated(c)
  <2>1. Text(files[path])
    BY <1>1 DEF FilesAreText
  <2>2. \A j, k \in 1..Len(c) : j < k /\ SameRecord(c[j], c[k]) => c[k].how # "checked"
    BY <1>4, <2>1, CompactionHolds
  <2> QED
    BY <2>2 DEF NotRepeated
<1>6. files'[q] = c /\ \A i \in Inodes : i <= path => files'[i] = files[i]
  <2>1. \A i \in Inodes : i <= path => i # q
    BY <1>3 DEF Inodes
  <2> QED
    BY <1>1, <1>2, <1>3, <1>4, <2>1 DEF FilesAreText
<1>7. Held' = Held
  BY <1>1, LedgerIsReplaced DEF Swap
<1>8. IndexFollows'
  <2>1. index.inode \in {0} \cup Inodes /\ index.inode \in Nat /\ index.inode <= path
    BY <1>1 DEF FilesInv, Index, IndexParts, IndexFollows, Inodes
  <2>2. index.inode <= q /\ index.inode # q
    BY <1>3, <2>1
  <2>3. index.inode \in Live' => index.inode \in Live
    BY <1>1, <1>3, <2>2 DEF Live
  <2>4. index.inode \in Live => index.inode \in Inodes
    BY LiveType
  <2> QED
    BY <1>1, <1>3, <1>6, <2>1, <2>2, <2>3, <2>4 DEF IndexParts, IndexFollows
<1>9. DraftsFollow'
  BY <1>1 DEF Locked, FilesInv, WritersAreSound, DraftsFollow
<1>10. ReadersAreOwed'
  <2>1. ASSUME NEW x \in Readers, reader[x].pc = "opened"
        PROVE  /\ reader[x].inode \in Inodes /\ reader[x].inode <= q
               /\ reader[x].owed \subseteq Owed(files'[reader[x].inode], reader[x].tag)
               /\ reader[x].owed \subseteq Held
    <3>1. /\ reader[x].inode \in Inodes /\ reader[x].inode <= path
          /\ reader[x].owed \subseteq Owed(files[reader[x].inode], reader[x].tag)
          /\ reader[x].owed \subseteq Held
      BY <2>1 DEF IndexParts, ReadersAreOwed
    <3>2. reader[x].inode <= q
      BY <1>3, <3>1 DEF Inodes
    <3> QED
      BY <1>6, <3>1, <3>2
  <2>2. \A x \in Readers : reader[x].pc = "answered" => reader[x].owed \subseteq reader[x].answer
    BY DEF IndexParts, ReadersAreOwed
  <2> QED
    BY <1>1, <1>3, <1>7, <2>1, <2>2 DEF ReadersAreOwed
<1>11. NotRepeated(files[diskPath])'
  BY <1>1, <1>6 DEF FilesAreText, IndexParts
<1> QED
  BY <1>3, <1>5, <1>6, <1>8, <1>9, <1>10, <1>11 DEF IndexParts

\* An index that a power cut leaves follows the ledger it leaves, unless it
\* outlived lines of it.
LEMMA PowerCutKeepsIndex ==
  ASSUME LedgerInv, IndexParts, PowerCut, ~outlived'
  PROVE  IndexParts'
<1>1. PICK p \in {path, diskPath} : \E f \in Remains(p) :
          /\ path' = p /\ diskPath' = p
          /\ files' = [i \in Inodes |-> IF i = p THEN f ELSE <<>>]
          /\ \/ index' = index /\ outlived' = (outlived \/ Outlives(p, f))
             \/ index' = Blank
  BY DEF PowerCut
<1>2. PICK g \in Remains(p) :
          /\ path' = p /\ diskPath' = p
          /\ files' = [i \in Inodes |-> IF i = p THEN g ELSE <<>>]
          /\ \/ index' = index /\ outlived' = (outlived \/ Outlives(p, g))
             \/ index' = Blank
  BY <1>1
<1>3. writer' = [w \in Writers |-> Idle] /\ reader' = [x \in Readers |-> NotReading]
  BY DEF PowerCut
<1>4. /\ p \in Inodes /\ p \in Nat /\ Text(files[p]) /\ flushed[p] \in 0..Whole(files[p])
      /\ p \in Live /\ NotRepeated(files[p]) /\ index \in Index
  BY DEF LedgerInv, FilesInv, FilesAreText, Inodes, Live, IndexParts
<1>5. PICK f : f = files[p]
  OBVIOUS
<1>6. /\ Text(g) /\ Len(g) <= Len(f) /\ Whole(g) <= Whole(f)
      /\ \A k \in 1..Whole(g) : g[k] = f[k]
      /\ \A k \in 1..Len(g) :
            /\ g[k].rec = f[k].rec /\ g[k].how = f[k].how
            /\ Readable(g[k]) => Readable(f[k])
  BY <1>4, <1>5, RemainingLines
<1>7. Len(g) \in Nat /\ Len(f) \in Nat /\ Whole(g) \in Nat /\ Whole(f) \in Nat
  BY <1>4, <1>5, <1>6, WholeLines
<1>8. files'[p] = g
  BY <1>2, <1>4
<1>9. NotRepeated(g)
  <2>1. ASSUME NEW j \in 1..Len(g), NEW k \in 1..Len(g),
               j < k, SameRecord(g[j], g[k]), g[k].how = "checked"
        PROVE  g[j].how = "mended"
    <3>1. j \in 1..Len(f) /\ k \in 1..Len(f)
      BY <1>6, <1>7
    <3>2. SameRecord(f[j], f[k]) /\ f[k].how = "checked" /\ g[j].how = f[j].how
      BY <1>6, <2>1 DEF SameRecord
    <3> QED
      BY <1>4, <1>5, <2>1, <3>1, <3>2 DEF NotRepeated
  <2> QED
    BY <2>1 DEF NotRepeated
<1>10. \A x \in Readers : reader'[x].pc = "idle"
  BY <1>3 DEF NotReading
<1>11. Live' = {p}
  BY <1>2, <1>10 DEF Live
<1>12. IndexFollows'
  <2>1. CASE index' = Blank
    BY <1>2, <1>4, <1>11, <2>1, LedgerAssumption DEF IndexFollows, Blank, Inodes
  <2>2. CASE index' = index /\ outlived' = (outlived \/ Outlives(p, g))
    <3>1. ~Outlives(p, g)
      BY <2>2
    <3>2. index.inode \in Nat /\ index.length \in Nat
      BY <1>4 DEF Index, Inodes
    <3>3. index.inode <= p /\ (index.inode = p => index.length <= Whole(g))
      BY <1>4, <1>7, <3>1, <3>2 DEF Outlives
    <3>4. ASSUME index.inode = p PROVE Good(index, g)
      <4>1. Good(index, f)
        BY <1>4, <1>5, <3>4 DEF IndexParts, IndexFollows
      <4>2. PICK n \in Nat : n = index.length
        BY <3>2
      <4>3. n <= Whole(g) /\ \A k \in 1..n : g[k] = f[k]
        BY <1>6, <1>7, <3>3, <3>4, <4>2
      <4>4. Text(f)
        BY <1>4, <1>5
      <4> QED
        BY <1>6, <4>1, <4>2, <4>3, <4>4, SameStart
    <3> QED
      BY <1>2, <1>8, <1>11, <2>2, <3>3, <3>4 DEF IndexFollows
  <2> QED
    BY <1>2, <2>1, <2>2
<1>13. DraftsFollow'
  BY <1>3, IdleType DEF DraftsFollow
<1>14. ReadersAreOwed'
  BY <1>10 DEF ReadersAreOwed
<1> QED
  BY <1>2, <1>8, <1>9, <1>12, <1>13, <1>14 DEF IndexParts

\* Every step keeps the invariant of the index.
LEMMA IndexStep ==
  ASSUME LedgerInv, IndexInv, [Next]_vars
  PROVE  IndexInv'
<1> SUFFICES ASSUME ~outlived' PROVE IndexParts'
  BY SMTT(40) DEF IndexInv
<1>1. ~outlived
  BY DEF Next, Write, Read, Dream, OpenLedger, Reopen, AppendPresent, AppendChecked, CommitIndex,
         FailCommit, AppendUnchecked, CutChecked, WriteUnchecked, CutUnchecked, OpenRead, ReadTagged,
         StreamLedger, CloseRead, CopyLedger, SkipSwap, Swap, SyncDirectory, Refresh, Flush, Kill,
         PowerCut, vars, disk
<1>2. IndexParts
  BY <1>1 DEF IndexInv
<1>3. index \in Index /\ path \in Inodes /\ path <= path /\ Text(files[path])
      /\ (index.inode = path => Good(index, files[path]))
  BY <1>2 DEF LedgerInv, FilesInv, FilesAreText, IndexParts, IndexFollows, Live, Inodes
<1>4. CASE UNCHANGED vars
  <2>1. UNCHANGED <<files, path, diskPath, index, writer, reader>>
    BY <1>4 DEF vars, disk
  <2> QED
    BY <1>2, <2>1, DraftsKeep, QuietKeeps
<1>5. CASE \E w \in Writers : Write(w)
  BY <1>2, <1>5, WriterKeepsIndex
<1>6. CASE \E x \in Readers : Read(x)
  BY <1>2, <1>6, ReaderKeepsIndex
<1>7. CASE CopyLedger \/ SkipSwap
  <2>1. UNCHANGED <<files, path, diskPath, index, writer, reader>>
    BY <1>7 DEF CopyLedger, SkipSwap, disk
  <2> QED
    BY <1>2, <2>1, DraftsKeep, QuietKeeps
<1>8. CASE Swap
  BY <1>2, <1>8, SwapKeepsIndex
<1>9. CASE SyncDirectory \/ Flush
  <2>1. UNCHANGED <<files, path, index, writer, reader>> /\ diskPath' \in {path, diskPath}
    BY <1>9 DEF SyncDirectory, Flush
  <2> QED
    BY <1>2, <2>1, DraftsKeep, QuietKeeps
<1>10. CASE Refresh
  <2>1. UNCHANGED <<files, path, diskPath, writer, reader>> /\ index' = CaughtUp(index, path)
    BY <1>10 DEF Refresh, disk
  <2>2. index'.inode = path /\ Good(index', files[path])
    BY <1>3, <2>1, CaughtUpIsGood
  <2>3. DraftsFollow'
    BY <1>2, <2>1, DraftsKeep
  <2> QED
    BY <1>2, <1>3, <2>1, <2>2, <2>3, QuietKeeps
<1>11. CASE Kill
  <2>1. UNCHANGED <<files, path, diskPath, index, reader>>
    BY <1>11 DEF Kill, disk
  <2>2. \A x \in Writers : writer'[x].pc = "written" => writer'[x] = writer[x]
    <3>1. CASE UNCHANGED writer
      BY <3>1
    <3>2. CASE \E w \in Writers : writer' = [writer EXCEPT ![w] = Idle]
      BY <3>2, IdleType DEF LedgerInv, FilesInv, WritersAreSound
    <3> QED
      BY <1>11, <3>1, <3>2 DEF Kill
  <2>3. DraftsFollow'
    BY <1>2, <2>1, <2>2, DraftsKeep
  <2> QED
    BY <1>2, <2>1, <2>3, QuietKeeps
<1>12. CASE PowerCut
  BY <1>2, <1>12, PowerCutKeepsIndex
<1> QED
  BY <1>4, <1>5, <1>6, <1>7, <1>8, <1>9, <1>10, <1>11, <1>12 DEF Next, Dream

\* An index and a ledger begin empty.
LEMMA IndexBegins == Init => IndexInv
<1> SUFFICES ASSUME Init PROVE IndexParts
  BY DEF IndexInv
<1>1. /\ path = 1 /\ diskPath = 1 /\ index = Blank /\ 1 \in Inodes /\ files[1] = <<>>
      /\ writer = [w \in Writers |-> Idle] /\ reader = [x \in Readers |-> NotReading]
  BY LedgerAssumption DEF Init, Inodes
<1>2. Text(<<>>)
  BY DEF Text
<1>3. Good(Blank, <<>>) /\ Blank.inode = 0
  BY <1>2, BlankIsGood
<1>4. NotRepeated(<<>>)
  BY DEF NotRepeated
<1>5. \A x \in Readers : reader[x].pc = "idle"
  BY <1>1 DEF NotReading
<1>6. Live = {1}
  BY <1>1, <1>5 DEF Live
<1>7. IndexFollows
  BY <1>1, <1>3, <1>6 DEF IndexFollows
<1>8. DraftsFollow
  BY <1>1, IdleType DEF DraftsFollow
<1> QED
  BY <1>1, <1>4, <1>5, <1>7, <1>8 DEF IndexParts, ReadersAreOwed

\* The index, the drafts and the readers are what they should be at every moment,
\* as long as no index outlived its lines.
THEOREM IndexKeeps == Spec => []IndexInv
<1>1. LedgerInv /\ IndexInv /\ [Next]_vars => IndexInv'
  BY IndexStep
<1> QED
  BY <1>1, IndexBegins, LedgerIsSound, PTL DEF Spec

\* catch_up and append_jsonl_with: the index hides no line, and lets none in twice.
THEOREM IndexHidesNothing == Spec => []IndexIsSound
<1>1. LedgerInv /\ IndexInv => IndexIsSound
  <2> SUFFICES ASSUME LedgerInv, IndexInv, ~outlived PROVE IndexIsComplete /\ CheckedIsNotRepeated
    BY DEF IndexIsSound
  <2>1. IndexParts
    BY DEF IndexInv
  <2>2. IndexIsComplete
    <3> SUFFICES ASSUME Follows(index, path) PROVE Good(index, files[path])
      BY DEF Good, IndexIsComplete
    <3> QED
      BY <2>1 DEF Follows, IndexParts, IndexFollows, Live
  <2>3. CheckedIsNotRepeated
    <3>1. DOMAIN files[path] = 1..Len(files[path])
      BY WholeLines DEF LedgerInv, FilesInv, FilesAreText
    <3> QED
      BY <2>1, <3>1 DEF IndexParts, NotRepeated, CheckedIsNotRepeated
  <2> QED
    BY <2>2, <2>3
<1> QED
  BY <1>1, LedgerIsSound, IndexKeeps, PTL

\* read_records_tagged: a reader is given all that the ledger held when it opened it.
THEOREM NothingGetsLost == Spec => []NothingIsLost
<1>1. LedgerInv /\ IndexInv => NothingIsLost
  BY DEF LedgerInv, FilesInv, IndexInv, IndexParts, ReadersAreOwed, NothingIsLost,
         AcknowledgedIsHeld, AnswerIsComplete
<1> QED
  BY <1>1, LedgerIsSound, IndexKeeps, PTL
=============================================================================
