----------------------- MODULE TrainOnlyDatasetProofs -----------------------
(***************************************************************************)
(* The materialized copy of TrainOnlyDataset is what its two readers need  *)
(* it to be, for every source dataset and every set of its episodes.       *)
(*                                                                         *)
(* Induction is by the least counterexample: the library's induction       *)
(* theorems take an operator, which the provers do not instantiate.        *)
(***************************************************************************)
EXTENDS TrainOnlyDataset, FiniteSetTheorems, WellFoundedInduction, TLAPS

\* Numbers that are not all in a set have a least one outside it, the one before
\* which is inside.
LEMMA LeastOutside ==
  ASSUME NEW P \in SUBSET Nat, NEW m \in Nat, m \notin P
  PROVE  \E n \in Nat \ P : \A k \in Nat : k < n => k \in P
<1> DEFINE less == OpToRel(<, Nat)
<1>1. \A x \in Nat, y \in Nat : <<x, y>> \in less <=> x < y
  BY DEF OpToRel
<1>2. IsWellFoundedOn(less, Nat)
  BY NatLessThanWellFounded
<1> HIDE DEF less
<1> DEFINE T == Nat \ P
<1>3. \E x \in T : \A y \in T : ~ (<<y, x>> \in less)
  <2>1. T \subseteq Nat /\ T # {}
    OBVIOUS
  <2> HIDE DEF T
  <2> QED BY <1>2, <2>1, WFMin, Zenon
<1> QED BY <1>1, <1>3

\* Induction over the natural numbers, for a property given as a set.
LEMMA Induction ==
  ASSUME NEW P, 0 \in P, \A n \in Nat : n \in P => n + 1 \in P
  PROVE  Nat \subseteq P
<1> SUFFICES ASSUME NEW m \in Nat, m \notin P PROVE FALSE
  OBVIOUS
<1> DEFINE Q == P \cap Nat
<1>1. PICK n \in Nat \ Q : \A k \in Nat : k < n => k \in Q
  <2>1. Q \in SUBSET Nat /\ m \notin Q
    OBVIOUS
  <2> HIDE DEF Q
  <2> QED BY <2>1, LeastOutside
<1>2. n # 0
  BY <1>1
<1>3. n - 1 \in Nat /\ n - 1 < n /\ (n - 1) + 1 = n
  BY <1>2
<1>4. n - 1 \in P
  BY <1>1, <1>3
<1>5. n \in P
  BY <1>3, <1>4
<1> QED BY <1>1, <1>5

----------------------------------------------------------------------------
(* SortedBy.                                                               *)

\* A key of its own for each member, a number.
IsKey(S, key) ==
  /\ \A x \in S : key[x] \in Int
  /\ \A x \in S, y \in S : key[x] = key[y] => x = y

Before(S, key, x) == {y \in S : key[y] < key[x]}

\* Each place is one member's: the number of members before it tells them apart.
LEMMA PlacesOnto ==
  ASSUME NEW S, IsFiniteSet(S), NEW key, IsKey(S, key)
  PROVE  /\ Cardinality(S) \in Nat
         /\ \A x \in S : Cardinality(Before(S, key, x)) \in 0..(Cardinality(S) - 1)
         /\ \A x \in S, y \in S :
              key[x] < key[y] <=> Cardinality(Before(S, key, x)) < Cardinality(Before(S, key, y))
         /\ \A k \in 1..Cardinality(S) : \E x \in S : Cardinality(Before(S, key, x)) = k - 1
<1> DEFINE n == Cardinality(S)
           at == [x \in S |-> Cardinality(Before(S, key, x))]
<1>1. n \in Nat
  BY FS_CardinalityType
<1>2. ASSUME NEW x \in S
      PROVE  /\ IsFiniteSet(Before(S, key, x)) /\ Cardinality(Before(S, key, x)) \in Nat
             /\ Cardinality(Before(S, key, x)) < n
  <2>1. Before(S, key, x) \in SUBSET S /\ x \notin Before(S, key, x)
    BY DEF Before, IsKey
  <2>2. /\ IsFiniteSet(Before(S, key, x)) /\ Cardinality(Before(S, key, x)) <= n
        /\ n = Cardinality(Before(S, key, x)) => S = Before(S, key, x)
    BY <2>1, FS_Subset
  <2>3. Cardinality(Before(S, key, x)) \in Nat
    BY <2>2, FS_CardinalityType
  <2> QED BY <1>1, <2>1, <2>2, <2>3
<1>3. ASSUME NEW x \in S, NEW y \in S, key[x] < key[y]
      PROVE  Cardinality(Before(S, key, x)) < Cardinality(Before(S, key, y))
  <2>1. Before(S, key, x) \in SUBSET Before(S, key, y) /\ x \in Before(S, key, y)
        /\ x \notin Before(S, key, x)
    BY <1>3 DEF Before, IsKey
  <2>2. /\ Cardinality(Before(S, key, x)) <= Cardinality(Before(S, key, y))
        /\ Cardinality(Before(S, key, y)) = Cardinality(Before(S, key, x))
             => Before(S, key, y) = Before(S, key, x)
    BY <1>2, <2>1, FS_Subset
  <2> QED BY <1>2, <2>1, <2>2
<1>4. ASSUME NEW x \in S, NEW y \in S
      PROVE  /\ key[x] < key[y] <=> Cardinality(Before(S, key, x)) < Cardinality(Before(S, key, y))
             /\ x # y => Cardinality(Before(S, key, x)) # Cardinality(Before(S, key, y))
  <2>1. key[x] \in Int /\ key[y] \in Int /\ (key[x] = key[y] => x = y)
    BY DEF IsKey
  <2>2. Cardinality(Before(S, key, x)) \in Nat /\ Cardinality(Before(S, key, y)) \in Nat
    BY <1>2
  <2>3. key[x] < key[y] \/ key[y] < key[x] \/ x = y
    BY <2>1
  <2>4. CASE key[x] < key[y]
    BY <1>3, <2>1, <2>2, <2>4
  <2>5. CASE key[y] < key[x]
    BY <1>3, <2>1, <2>2, <2>5
  <2>6. CASE x = y
    BY <2>1, <2>2, <2>6
  <2> QED BY <2>3, <2>4, <2>5, <2>6
<1>5. at \in Injection(S, 0..(n - 1))
  <2>1. at \in [S -> 0..(n - 1)]
    BY <1>1, <1>2
  <2>2. \A x \in S, y \in S : at[x] = at[y] => x = y
    BY <1>4
  <2> QED BY <2>1, <2>2 DEF Injection, IsInjective
<1>6. IsFiniteSet(0..(n - 1)) /\ Cardinality(0..(n - 1)) = n
  BY <1>1, FS_Interval
<1>7. at \in Surjection(S, 0..(n - 1))
  BY <1>5, <1>6, FS_Injection
<1>8. \A k \in 1..n : \E x \in S : at[x] = k - 1
  <2> HIDE DEF n, at
  <2>1. \A t \in 0..(n - 1) : \E x \in S : at[x] = t
    BY <1>7 DEF Surjection
  <2>2. \A k \in 1..n : k - 1 \in 0..(n - 1)
    BY <1>1
  <2> QED BY <2>1, <2>2
<1> QED BY <1>1, <1>2, <1>4, <1>8

\* SortedBy puts each member at the place it has by its key.
LEMMA SortedByKey ==
  ASSUME NEW S, IsFiniteSet(S), NEW key, IsKey(S, key)
  PROVE  /\ SortedBy(S, key) \in Seq(S)
         /\ Len(SortedBy(S, key)) = Cardinality(S) /\ Cardinality(S) \in Nat
         /\ \A k \in 1..Cardinality(S) :
              /\ SortedBy(S, key)[k] \in S
              /\ Cardinality(Before(S, key, SortedBy(S, key)[k])) = k - 1
         /\ \A x \in S : Cardinality(Before(S, key, x)) + 1 \in 1..Cardinality(S)
         /\ \A x \in S, y \in S : key[x] < key[y]
              <=> Cardinality(Before(S, key, x)) < Cardinality(Before(S, key, y))
         /\ \A x \in S : SortedBy(S, key)[Cardinality(Before(S, key, x)) + 1] = x
<1> DEFINE n == Cardinality(S)
           sorted == SortedBy(S, key)
           place(x) == Cardinality(Before(S, key, x))
<1>1. /\ n \in Nat
      /\ \A x \in S : place(x) \in 0..(n - 1)
      /\ \A x \in S, y \in S : key[x] < key[y] <=> place(x) < place(y)
      /\ \A k \in 1..n : \E x \in S : place(x) = k - 1
  BY PlacesOnto
<1>2. sorted = [k \in 1..n |-> CHOOSE x \in S : place(x) = k - 1]
  BY DEF SortedBy, Before
<1>3. \A k \in 1..n : sorted[k] \in S /\ place(sorted[k]) = k - 1
  BY <1>1, <1>2
<1>4. sorted \in Seq(S) /\ Len(sorted) = n
  BY <1>1, <1>2, <1>3
<1>5. ASSUME NEW x \in S PROVE place(x) + 1 \in 1..n /\ sorted[place(x) + 1] = x
  <2>1. place(x) \in 0..(n - 1) /\ place(x) + 1 \in 1..n
    BY <1>1
  <2>2. sorted[place(x) + 1] \in S /\ place(sorted[place(x) + 1]) = place(x)
    BY <1>3, <2>1
  <2>3. \A y \in S : key[y] \in Int /\ key[x] \in Int /\ (key[y] = key[x] => y = x)
    BY DEF IsKey
  <2>4. ASSUME NEW y \in S, place(y) = place(x) PROVE y = x
    <3>1. ~(place(y) < place(x)) /\ ~(place(x) < place(y))
      BY <2>1, <2>4
    <3>2. ~(key[y] < key[x]) /\ ~(key[x] < key[y])
      BY <1>1, <3>1
    <3> QED BY <2>3, <3>2
  <2> QED BY <2>1, <2>2, <2>4
<1> QED BY <1>1, <1>3, <1>4, <1>5

----------------------------------------------------------------------------
(* FlattenSeq, of sequences of rows that are numbered as the copy's are.   *)

\* The recursion of FlattenSeq on the first n sequences.
IsFlatten(g, seqs, n) == g = [i \in 1..n |-> IF i = 1 THEN seqs[i] ELSE g[i-1] \o seqs[i]]

LEMMA FlattenExists ==
  ASSUME NEW seqs, NEW n \in Nat
  PROVE  \E g : IsFlatten(g, seqs, n)
<1> DEFINE P == {m \in Nat : \E g : IsFlatten(g, seqs, m)}
<1>1. 0 \in P
  <2>1. IsFlatten([i \in 1..0 |-> 0], seqs, 0)
    BY DEF IsFlatten
  <2> QED BY <2>1
<1>2. ASSUME NEW m \in Nat, m \in P PROVE m + 1 \in P
  <2>1. PICK g : IsFlatten(g, seqs, m)
    BY <1>2
  <2> DEFINE next == IF m + 1 = 1 THEN seqs[m + 1] ELSE g[m] \o seqs[m + 1]
             h == [i \in 1..(m + 1) |-> IF i = m + 1 THEN next ELSE g[i]]
  <2>2. \A i \in 1..m : g[i] = IF i = 1 THEN seqs[i] ELSE g[i-1] \o seqs[i]
    BY <2>1 DEF IsFlatten
  <2> HIDE DEF next
  <2>3. ASSUME NEW i \in 1..(m + 1)
        PROVE  h[i] = IF i = 1 THEN seqs[i] ELSE h[i-1] \o seqs[i]
    <3>1. CASE i = m + 1
      <4>1. h[i] = next
        BY <3>1
      <4>2. i # 1 => i - 1 \in 1..(m + 1) /\ i - 1 = m /\ h[i - 1] = g[m]
        BY <3>1
      <4> QED BY <3>1, <4>1, <4>2 DEF next
    <3>2. CASE i # m + 1
      <4>1. i \in 1..m /\ h[i] = g[i]
        BY <3>2
      <4>2. i # 1 => i - 1 \in 1..(m + 1) /\ i - 1 # m + 1 /\ h[i - 1] = g[i - 1]
        BY <4>1
      <4> QED BY <2>2, <4>1, <4>2
    <3> QED BY <3>1, <3>2
  <2>4. IsFlatten(h, seqs, m + 1)
    <3>1. h = [i \in 1..(m + 1) |-> h[i]]
      OBVIOUS
    <3> HIDE DEF h
    <3>2. [i \in 1..(m + 1) |-> h[i]]
            = [i \in 1..(m + 1) |-> IF i = 1 THEN seqs[i] ELSE h[i-1] \o seqs[i]]
      BY <2>3
    <3> QED BY <3>1, <3>2 DEF IsFlatten
  <2> QED BY <2>4
<1> HIDE DEF P
<1>3. Nat \subseteq P
  BY <1>1, <1>2, Induction
<1> QED BY <1>3 DEF P

LEMMA FlattenIs ==
  ASSUME NEW seqs, Len(seqs) \in Nat \ {0}
  PROVE  \E g : IsFlatten(g, seqs, Len(seqs)) /\ FlattenSeq(seqs) = g[Len(seqs)]
<1> DEFINE g == CHOOSE g : IsFlatten(g, seqs, Len(seqs))
<1>1. IsFlatten(g, seqs, Len(seqs))
  BY FlattenExists
<1>2. FlattenSeq(seqs) = g[Len(seqs)]
  BY DEF FlattenSeq, IsFlatten
<1> QED BY <1>1, <1>2

\* The rows of the i-th sequence are those of episode i - 1, its frames from 0.
Numbered(seqs, S) ==
  \A i \in 1..Len(seqs) :
    /\ seqs[i] \in Seq(S)
    /\ \A f \in 1..Len(seqs[i]) : seqs[i][f].episode = i - 1 /\ seqs[i][f].frame = f - 1

\* The row is the one its numbers say, among the first n sequences.
InPlace(row, seqs, n) ==
  /\ row.episode \in Nat /\ row.frame \in Nat
  /\ row.episode + 1 \in 1..n
  /\ row.frame + 1 \in 1..Len(seqs[row.episode + 1])
  /\ row = seqs[row.episode + 1][row.frame + 1]

Earlier(a, b) == a.episode < b.episode \/ (a.episode = b.episode /\ a.frame < b.frame)

\* All rows of the first n sequences, each once, by episode and by frame.
AllInOrder(flat, seqs, n, S) ==
  /\ flat \in Seq(S)
  /\ \A p \in 1..Len(flat) : InPlace(flat[p], seqs, n)
  /\ \A i \in 1..n : \A f \in 1..Len(seqs[i]) : \E p \in 1..Len(flat) : flat[p] = seqs[i][f]
  /\ \A p \in 1..Len(flat), q \in 1..Len(flat) : p < q => Earlier(flat[p], flat[q])

LEMMA AppendKeepsOrder ==
  ASSUME NEW S, NEW seqs, Numbered(seqs, S), Len(seqs) \in Nat,
         NEW m \in Nat, m + 1 \in 1..Len(seqs),
         NEW flat, AllInOrder(flat, seqs, m, S)
  PROVE  AllInOrder(flat \o seqs[m + 1], seqs, m + 1, S)
<1> DEFINE more == seqs[m + 1]
           all == flat \o more
<1>1. /\ flat \in Seq(S) /\ more \in Seq(S) /\ all \in Seq(S)
      /\ Len(flat) \in Nat /\ Len(more) \in Nat /\ Len(all) = Len(flat) + Len(more)
      /\ \A p \in 1..Len(flat) : p \in 1..Len(all) /\ all[p] = flat[p]
      /\ \A f \in 1..Len(more) : Len(flat) + f \in 1..Len(all) /\ all[Len(flat) + f] = more[f]
  BY DEF AllInOrder, Numbered
<1>2. \A f \in 1..Len(more) : more[f].episode = m /\ more[f].frame = f - 1
  BY DEF Numbered
<1>3. \A p \in 1..Len(flat) : InPlace(flat[p], seqs, m)
  BY DEF AllInOrder
<1>4. \A p \in 1..Len(all) :
        \/ p \in 1..Len(flat) /\ all[p] = flat[p]
        \/ p - Len(flat) \in 1..Len(more) /\ all[p] = more[p - Len(flat)] /\ p > Len(flat)
  <2> SUFFICES ASSUME NEW p \in 1..Len(all), p \notin 1..Len(flat)
               PROVE  p - Len(flat) \in 1..Len(more) /\ all[p] = more[p - Len(flat)] /\ p > Len(flat)
    BY <1>1
  <2>1. p - Len(flat) \in 1..Len(more) /\ Len(flat) + (p - Len(flat)) = p /\ p > Len(flat)
    BY <1>1
  <2>2. \A f \in 1..Len(more) : all[Len(flat) + f] = more[f]
    BY <1>1
  <2> HIDE DEF all, more
  <2>3. all[Len(flat) + (p - Len(flat))] = more[p - Len(flat)]
    BY <2>1, <2>2
  <2> QED BY <2>1, <2>3
<1> HIDE DEF all
<1>5. \A p \in 1..Len(all) : InPlace(all[p], seqs, m + 1)
  <2> SUFFICES ASSUME NEW p \in 1..Len(all) PROVE InPlace(all[p], seqs, m + 1)
    OBVIOUS
  <2>1. CASE p \in 1..Len(flat) /\ all[p] = flat[p]
    <3>1. InPlace(flat[p], seqs, m)
      BY <1>3, <2>1
    <3>2. flat[p].episode + 1 \in 1..(m + 1)
      BY <3>1 DEF InPlace
    <3> QED BY <2>1, <3>1, <3>2 DEF InPlace
  <2>2. ASSUME NEW f \in 1..Len(more), all[p] = more[f]
        PROVE  InPlace(all[p], seqs, m + 1)
    <3>1. all[p].episode = m /\ all[p].frame = f - 1 /\ f - 1 + 1 = f
      BY <1>1, <1>2, <2>2
    <3>2. f - 1 \in Nat /\ m + 1 \in 1..(m + 1)
      BY <1>1
    <3> QED BY <2>2, <3>1, <3>2 DEF InPlace
  <2> QED BY <1>4, <2>1, <2>2
<1>6. \A i \in 1..(m + 1) : \A f \in 1..Len(seqs[i]) : \E p \in 1..Len(all) : all[p] = seqs[i][f]
  <2> SUFFICES ASSUME NEW i \in 1..(m + 1), NEW f \in 1..Len(seqs[i])
               PROVE  \E p \in 1..Len(all) : all[p] = seqs[i][f]
    OBVIOUS
  <2>1. CASE i = m + 1
    BY <1>1, <2>1
  <2>2. CASE i # m + 1
    <3>1. i \in 1..m
      BY <2>2
    <3>2. PICK p \in 1..Len(flat) : flat[p] = seqs[i][f]
      BY <3>1 DEF AllInOrder
    <3> QED BY <1>1, <3>2
  <2> QED BY <2>1, <2>2
<1>7. \A p \in 1..Len(all), q \in 1..Len(all) : p < q => Earlier(all[p], all[q])
  <2> SUFFICES ASSUME NEW p \in 1..Len(all), NEW q \in 1..Len(all), p < q
               PROVE  Earlier(all[p], all[q])
    OBVIOUS
  <2>1. CASE q \in 1..Len(flat) /\ all[q] = flat[q]
    <3>1. p \in 1..Len(flat) /\ all[p] = flat[p]
      BY <1>1, <2>1
    <3> QED BY <2>1, <3>1 DEF AllInOrder
  <2>2. CASE q - Len(flat) \in 1..Len(more) /\ all[q] = more[q - Len(flat)] /\ q > Len(flat)
    <3>1. all[q].episode = m /\ all[q].frame = q - Len(flat) - 1
      BY <1>1, <1>2, <2>2
    <3>2. CASE p \in 1..Len(flat) /\ all[p] = flat[p]
      <4>1. InPlace(all[p], seqs, m)
        BY <1>3, <3>2
      <4> QED BY <3>1, <4>1 DEF InPlace, Earlier
    <3>3. CASE p - Len(flat) \in 1..Len(more) /\ all[p] = more[p - Len(flat)] /\ p > Len(flat)
      <4>1. all[p].episode = m /\ all[p].frame = p - Len(flat) - 1
        BY <1>1, <1>2, <3>3
      <4> QED BY <1>1, <3>1, <4>1 DEF Earlier
    <3> QED BY <1>4, <3>2, <3>3
  <2> QED BY <1>4, <2>1, <2>2
<1> QED BY <1>1, <1>5, <1>6, <1>7 DEF AllInOrder, all

\* FlattenSeq lists all rows of all sequences in their order.
LEMMA FlattenInOrder ==
  ASSUME NEW S, NEW seqs, Numbered(seqs, S), Len(seqs) \in Nat \ {0}
  PROVE  AllInOrder(FlattenSeq(seqs), seqs, Len(seqs), S)
<1> DEFINE n == Len(seqs)
<1>1. PICK g : IsFlatten(g, seqs, n) /\ FlattenSeq(seqs) = g[n]
  BY FlattenIs
<1> DEFINE P == {m \in Nat : m \in 1..n => AllInOrder(g[m], seqs, m, S)}
<1>2. 0 \in P
  OBVIOUS
<1>3. ASSUME NEW m \in Nat, m \in P PROVE m + 1 \in P
  <2> SUFFICES ASSUME m + 1 \in 1..n PROVE AllInOrder(g[m + 1], seqs, m + 1, S)
    OBVIOUS
  <2>1. g[m + 1] = IF m + 1 = 1 THEN seqs[m + 1] ELSE g[(m + 1) - 1] \o seqs[m + 1]
    BY <1>1 DEF IsFlatten
  <2>2. CASE m = 0
    <3>1. AllInOrder(<<>>, seqs, 0, S)
      BY DEF AllInOrder
    <3>2. AllInOrder(<<>> \o seqs[m + 1], seqs, m + 1, S)
      BY <2>2, <3>1, AppendKeepsOrder
    <3>3. <<>> \o seqs[m + 1] = seqs[m + 1]
      BY DEF Numbered
    <3> QED BY <2>1, <2>2, <3>2, <3>3
  <2>3. CASE m # 0
    <3>1. AllInOrder(g[m], seqs, m, S) /\ (m + 1) - 1 = m /\ m + 1 # 1
      BY <1>3, <2>3
    <3>2. AllInOrder(g[m] \o seqs[m + 1], seqs, m + 1, S)
      BY <3>1, AppendKeepsOrder
    <3> QED BY <2>1, <3>1, <3>2
  <2> QED BY <2>2, <2>3
<1> HIDE DEF P
<1>4. n \in P
  BY <1>2, <1>3, Induction
<1> QED BY <1>1, <1>4 DEF P

----------------------------------------------------------------------------
(* The copy.                                                               *)

SourceEpisode == [len : Nat \ {0}, file : Nat]
IsSource(source) == source \in Seq(SourceEpisode)
IsTrain(source, train) == train \subseteq 0..(Len(source) - 1)

Length(source, e) == source[e + 1].len

\* Episodes of the training set are of the source.
LEMMA TrainIsOfSource ==
  ASSUME NEW source, IsSource(source), NEW train, IsTrain(source, train)
  PROVE  /\ IsFiniteSet(train)
         /\ \A e \in train : /\ e \in Nat /\ e + 1 \in 1..Len(source)
                             /\ Length(source, e) \in Nat \ {0}
                             /\ source[e + 1].file \in Nat
<1>1. Len(source) \in Nat
  BY DEF IsSource
<1>2. IsFiniteSet(0..(Len(source) - 1))
  BY <1>1, FS_Interval
<1>3. IsFiniteSet(train)
  BY <1>2, FS_Subset DEF IsTrain
<1>4. ASSUME NEW e \in train
      PROVE  /\ e \in Nat /\ e + 1 \in 1..Len(source)
             /\ Length(source, e) \in Nat \ {0}
             /\ source[e + 1].file \in Nat
  <2>1. e \in Nat /\ e + 1 \in 1..Len(source)
    BY <1>1 DEF IsTrain
  <2>2. source[e + 1] \in SourceEpisode
    BY <2>1 DEF IsSource
  <2> QED BY <2>1, <2>2 DEF Length, SourceEpisode
<1> QED BY <1>3, <1>4

\* An episode's new index is its place in the list of training episodes.
LEMMA Renumbered ==
  ASSUME NEW train, IsFiniteSet(train), train \subseteq Nat
  PROVE  /\ TrainEpisodes(train) \in Seq(train)
         /\ Len(TrainEpisodes(train)) = Cardinality(train) /\ Cardinality(train) \in Nat
         /\ \A k \in 1..Cardinality(train) :
              /\ TrainEpisodes(train)[k] \in train
              /\ NewEpisodeIndex(train, TrainEpisodes(train)[k]) = k - 1
         /\ \A e \in train : /\ NewEpisodeIndex(train, e) \in 0..(Cardinality(train) - 1)
                             /\ NewEpisodeIndex(train, e) + 1 \in 1..Cardinality(train)
                             /\ TrainEpisodes(train)[NewEpisodeIndex(train, e) + 1] = e
<1> DEFINE key == [e \in train |-> e]
<1>1. IsKey(train, key)
  BY DEF IsKey
<1>2. \A e \in train : Before(train, key, e) = {x \in train : x < e}
  BY DEF Before
<1>3. \A e \in train : NewEpisodeIndex(train, e) = Cardinality(Before(train, key, e))
  BY <1>2 DEF NewEpisodeIndex
<1>4. TrainEpisodes(train) = SortedBy(train, key)
  BY DEF TrainEpisodes
<1> HIDE DEF key
<1>5. /\ SortedBy(train, key) \in Seq(train)
      /\ Len(SortedBy(train, key)) = Cardinality(train) /\ Cardinality(train) \in Nat
      /\ \A k \in 1..Cardinality(train) :
           /\ SortedBy(train, key)[k] \in train
           /\ Cardinality(Before(train, key, SortedBy(train, key)[k])) = k - 1
      /\ \A e \in train : Cardinality(Before(train, key, e)) + 1 \in 1..Cardinality(train)
      /\ \A e \in train : SortedBy(train, key)[Cardinality(Before(train, key, e)) + 1] = e
  BY <1>1, SortedByKey
<1>6. \A e \in train : Cardinality(Before(train, key, e)) \in 0..(Cardinality(train) - 1)
  BY <1>1, PlacesOnto
<1> QED BY <1>3, <1>4, <1>5, <1>6

Row == [episode : Nat, frame : Nat, recorded : Nat \X Nat]

\* The row is frame f of episode e, under its new index.
IsFrame(row, train, e, f) ==
  row.episode = NewEpisodeIndex(train, e) /\ row.frame = f /\ row.recorded = <<e, f>>

\* data holds every frame of the training episodes once, by episode and frame.
Materialized(source, train, data) ==
  /\ data \in Seq(Row)
  /\ \A p \in 1..Len(data) :
       \E e \in train : data[p].frame < Length(source, e) /\ IsFrame(data[p], train, e, data[p].frame)
  /\ \A e \in train : \A f \in 0..(Length(source, e) - 1) :
       \E p \in 1..Len(data) : IsFrame(data[p], train, e, f)
  /\ \A p \in 1..Len(data), q \in 1..Len(data) : p < q => Earlier(data[p], data[q])

\* What build_train_only_dataset writes into the data file.
LEMMA DataIsMaterialized ==
  ASSUME NEW source, IsSource(source), NEW train, IsTrain(source, train)
  PROVE  Materialized(source, train, DataRows(source, train))
<1> DEFINE n == Cardinality(train)
           E == TrainEpisodes(train)
           len(i) == source[E[i] + 1].len
           row(i, f) == [episode |-> NewEpisodeIndex(train, E[i]), frame |-> f - 1,
                         recorded |-> <<E[i], f - 1>>]
           seqs == [i \in 1..n |-> [f \in 1..len(i) |-> row(i, f)]]
           data == DataRows(source, train)
<1>1. /\ IsFiniteSet(train) /\ train \subseteq Nat
      /\ \A e \in train : Length(source, e) \in Nat \ {0}
  BY TrainIsOfSource
<1>2. /\ n \in Nat
      /\ \A k \in 1..n : E[k] \in train /\ NewEpisodeIndex(train, E[k]) = k - 1
      /\ \A e \in train : /\ NewEpisodeIndex(train, e) + 1 \in 1..n
                          /\ E[NewEpisodeIndex(train, e) + 1] = e
                          /\ NewEpisodeIndex(train, e) \in 0..(n - 1)
  BY <1>1, Renumbered
<1>3. data = FlattenSeq(seqs)
  BY DEF DataRows
<1>4. Len(seqs) = n /\ DOMAIN seqs = 1..n
  BY <1>2
<1>5. \A i \in 1..n : len(i) = Length(source, E[i]) /\ len(i) \in Nat \ {0}
  BY <1>1, <1>2 DEF Length
<1> HIDE DEF len, E, n
<1>6. ASSUME NEW i \in 1..n
      PROVE  /\ seqs[i] = [f \in 1..len(i) |-> row(i, f)]
             /\ Len(seqs[i]) = len(i) /\ seqs[i] \in Seq(Row)
             /\ \A f \in 1..len(i) : /\ seqs[i][f] = row(i, f)
                                     /\ seqs[i][f].episode = i - 1 /\ seqs[i][f].frame = f - 1
                                     /\ seqs[i][f].recorded = <<E[i], f - 1>>
  <2>1. seqs[i] = [f \in 1..len(i) |-> row(i, f)]
    OBVIOUS
  <2>2. E[i] \in Nat /\ NewEpisodeIndex(train, E[i]) = i - 1 /\ len(i) \in Nat \ {0} /\ i - 1 \in Nat
    <3>1. i \in 1..n /\ n \in Nat /\ E[i] \in train
      BY <1>2, <1>6
    <3> HIDE DEF seqs, row, data
    <3>2. E[i] \in Nat
      BY <1>1, <3>1
    <3>3. NewEpisodeIndex(train, E[i]) = i - 1
      BY <1>2, <3>1
    <3>4. len(i) \in Nat \ {0}
      BY <1>5, <3>1
    <3>5. i - 1 \in Nat
      BY <3>1
    <3> QED BY <3>2, <3>3, <3>4, <3>5
  <2>3. \A f \in 1..len(i) : /\ row(i, f) \in Row
                             /\ row(i, f).episode = i - 1 /\ row(i, f).frame = f - 1
                             /\ row(i, f).recorded = <<E[i], f - 1>>
    BY <2>2 DEF Row
  <2> HIDE DEF row, seqs
  <2>4. seqs[i] \in Seq(Row) /\ Len(seqs[i]) = len(i)
    BY <2>1, <2>2, <2>3
  <2> QED BY <2>1, <2>3, <2>4
<1> HIDE DEF seqs, data, row
<1>7. Numbered(seqs, Row)
  BY <1>4, <1>6 DEF Numbered
<1>8. AllInOrder(data, seqs, n, Row)
  <2>1. CASE n = 0
    <3>1. seqs = <<>>
      BY <1>4, <2>1 DEF seqs
    <3>2. data = <<>>
      BY <1>3, <3>1 DEF FlattenSeq
    <3> QED BY <2>1, <3>2 DEF AllInOrder
  <2>2. CASE n # 0
    BY <1>2, <1>3, <1>4, <1>7, <2>2, FlattenInOrder
  <2> QED BY <2>1, <2>2
<1>9. \A p \in 1..Len(data) :
        \E e \in train : data[p].frame < Length(source, e) /\ IsFrame(data[p], train, e, data[p].frame)
  <2> SUFFICES ASSUME NEW p \in 1..Len(data)
               PROVE  \E e \in train : /\ data[p].frame < Length(source, e)
                                       /\ IsFrame(data[p], train, e, data[p].frame)
    OBVIOUS
  <2> DEFINE i == data[p].episode + 1
             f == data[p].frame + 1
  <2>1. /\ i \in 1..n /\ f \in 1..Len(seqs[i]) /\ data[p] = seqs[i][f]
        /\ data[p].episode \in Nat /\ data[p].frame \in Nat
    BY <1>8 DEF AllInOrder, InPlace
  <2>2. /\ f \in 1..len(i) /\ len(i) = Length(source, E[i]) /\ len(i) \in Nat
        /\ data[p].recorded = <<E[i], f - 1>> /\ data[p].episode = i - 1
        /\ E[i] \in train /\ NewEpisodeIndex(train, E[i]) = i - 1
    <3> HIDE DEF i, f
    <3>1. /\ Len(seqs[i]) = len(i)
          /\ \A k \in 1..len(i) : seqs[i][k].episode = i - 1 /\ seqs[i][k].recorded = <<E[i], k - 1>>
      BY <1>6, <2>1
    <3>2. f \in 1..len(i) /\ data[p].recorded = <<E[i], f - 1>> /\ data[p].episode = i - 1
      BY <2>1, <3>1
    <3>3. len(i) = Length(source, E[i]) /\ len(i) \in Nat
      BY <1>5, <2>1
    <3>4. E[i] \in train /\ NewEpisodeIndex(train, E[i]) = i - 1
      BY <1>2, <2>1
    <3> QED BY <3>2, <3>3, <3>4
  <2> QED BY <2>1, <2>2 DEF IsFrame
<1>10. \A e \in train : \A f \in 0..(Length(source, e) - 1) :
         \E p \in 1..Len(data) : IsFrame(data[p], train, e, f)
  <2> SUFFICES ASSUME NEW e \in train, NEW f \in 0..(Length(source, e) - 1)
               PROVE  \E p \in 1..Len(data) : IsFrame(data[p], train, e, f)
    OBVIOUS
  <2> DEFINE i == NewEpisodeIndex(train, e) + 1
  <2>1. i \in 1..n /\ E[i] = e /\ NewEpisodeIndex(train, e) = i - 1 /\ len(i) = Length(source, e)
    BY <1>2, <1>5
  <2>2. f + 1 \in 1..len(i) /\ f + 1 - 1 = f
    BY <1>1, <2>1
  <2> HIDE DEF i
  <2>3. PICK p \in 1..Len(data) : data[p] = seqs[i][f + 1]
    BY <1>6, <1>8, <2>1, <2>2 DEF AllInOrder
  <2>4. /\ data[p].episode = i - 1 /\ data[p].frame = f + 1 - 1
        /\ data[p].recorded = <<E[i], f + 1 - 1>>
    <3>1. \A k \in 1..len(i) : /\ seqs[i][k].episode = i - 1 /\ seqs[i][k].frame = k - 1
                               /\ seqs[i][k].recorded = <<E[i], k - 1>>
      BY <1>6, <2>1
    <3> QED BY <2>2, <2>3, <3>1
  <2>5. IsFrame(data[p], train, e, f)
    BY <2>1, <2>2, <2>4 DEF IsFrame
  <2> QED BY <2>5
<1> QED BY <1>8, <1>9, <1>10 DEF Materialized, AllInOrder, data

----------------------------------------------------------------------------
(* Counting.                                                               *)

\* A set of positions that has every position before one of its own is the
\* initial segment its size says.
LEMMA InitialSegment ==
  ASSUME NEW N \in Nat, NEW S \in SUBSET (1..N),
         \A p \in 1..N, q \in S : p < q => p \in S
  PROVE  Cardinality(S) \in Nat /\ S = 1..Cardinality(S)
<1> DEFINE P == S \cup {0}
<1>1. P \in SUBSET Nat /\ N + 1 \in Nat /\ N + 1 \notin P
  OBVIOUS
<1>2. PICK n \in Nat \ P : \A k \in Nat : k < n => k \in P
  <2> HIDE DEF P
  <2> QED BY <1>1, LeastOutside
<1>3. n >= 1 /\ n - 1 \in Nat
  BY <1>2
<1>4. ASSUME NEW p \in 1..(n - 1) PROVE p \in S
  BY <1>2, <1>3, <1>4
<1>5. ASSUME NEW p \in S PROVE p \in 1..(n - 1)
  <2>1. p \in 1..N /\ n \notin S
    BY <1>2, <1>5
  <2>2. ~(n < p)
    BY <1>3, <2>1
  <2> QED BY <1>2, <1>3, <1>5, <2>1, <2>2
<1>6. S = 1..(n - 1)
  BY <1>4, <1>5
<1>7. Cardinality(S) = n - 1
  BY <1>3, <1>6, FS_Interval
<1> QED BY <1>3, <1>6, <1>7

\* The keys are the numbers from 0 to L - 1.
NumbersAll(S, key, L) ==
  /\ IsKey(S, key)
  /\ \A x \in S : key[x] \in 0..(L - 1)
  /\ \A k \in 0..(L - 1) : \E x \in S : key[x] = k

\* A list of members of S that has each at the place after its number.
ListsByNumber(list, S, key, L) ==
  /\ DOMAIN list = 1..L
  /\ \A k \in 1..L : list[k] \in S /\ key[list[k]] = k - 1

\* A set whose members are numbered from 0 to L - 1 has L members.
LEMMA NumberedSet ==
  ASSUME NEW S, NEW key, NEW L \in Nat, NumbersAll(S, key, L)
  PROVE  IsFiniteSet(S) /\ Cardinality(S) = L
<1> DEFINE f == [x \in S |-> key[x]]
<1> USE DEF NumbersAll
<1>1. f \in [S -> 0..(L - 1)]
  OBVIOUS
<1>2. \A x \in S, y \in S : f[x] = f[y] => x = y
  BY DEF IsKey
<1>3. \A k \in 0..(L - 1) : \E x \in S : f[x] = k
  OBVIOUS
<1> HIDE DEF f
<1>4. f \in Injection(S, 0..(L - 1)) /\ f \in Surjection(S, 0..(L - 1))
  BY <1>1, <1>2, <1>3 DEF Injection, IsInjective, Surjection
<1>5. IsFiniteSet(0..(L - 1)) /\ Cardinality(0..(L - 1)) = L
  BY FS_Interval
<1> QED BY <1>4, <1>5, FS_Injection

\* Sorted by such a key, each member is at the place its number says.
LEMMA SortedByNumber ==
  ASSUME NEW S, NEW key, NEW L \in Nat, NumbersAll(S, key, L)
  PROVE  ListsByNumber(SortedBy(S, key), S, key, L)
<1>1. IsFiniteSet(S) /\ Cardinality(S) = L
  BY NumberedSet
<1>2. ASSUME NEW x \in S PROVE Cardinality(Before(S, key, x)) = key[x]
  <2>1. key[x] \in Nat /\ key[x] <= L - 1
    BY <1>2 DEF NumbersAll
  <2>2. IsKey(Before(S, key, x), key)
    BY DEF IsKey, Before, NumbersAll
  <2>3. \A y \in Before(S, key, x) : key[y] \in 0..(key[x] - 1)
    BY <2>1 DEF Before, NumbersAll
  <2>4. \A k \in 0..(key[x] - 1) : \E y \in Before(S, key, x) : key[y] = k
    <3> SUFFICES ASSUME NEW k \in 0..(key[x] - 1) PROVE \E y \in Before(S, key, x) : key[y] = k
      OBVIOUS
    <3>1. k \in 0..(L - 1) /\ k < key[x]
      BY <2>1
    <3> QED BY <3>1 DEF Before, NumbersAll
  <2>5. NumbersAll(Before(S, key, x), key, key[x])
    BY <2>2, <2>3, <2>4 DEF NumbersAll
  <2> QED BY <2>1, <2>5, NumberedSet
<1>3. /\ SortedBy(S, key) \in Seq(S) /\ Len(SortedBy(S, key)) = L
      /\ \A k \in 1..L : /\ SortedBy(S, key)[k] \in S
                         /\ Cardinality(Before(S, key, SortedBy(S, key)[k])) = k - 1
  BY <1>1, SortedByKey DEF NumbersAll
<1> QED BY <1>2, <1>3 DEF ListsByNumber

----------------------------------------------------------------------------
(* The two readers.                                                        *)

RowsUpTo(data, n) == Cardinality({i \in DOMAIN data : data[i].episode <= n})

Window(data, from, to) == {data[i].recorded : i \in (from + 1)..to}

\* The frames of an episode are at the positions its new index range says.
LEMMA WindowIs ==
  ASSUME NEW source, IsSource(source), NEW train, IsTrain(source, train),
         NEW data, Materialized(source, train, data), NEW e \in train
  PROVE  Window(data, RowsUpTo(data, NewEpisodeIndex(train, e) - 1),
                RowsUpTo(data, NewEpisodeIndex(train, e)))
           = ToSet(Recorded(source, e))
<1> DEFINE At(m) == {i \in DOMAIN data : data[i].episode <= m}
           UpTo(m) == Cardinality(At(m))
           n == NewEpisodeIndex(train, e)
<1>1. /\ IsFiniteSet(train) /\ train \subseteq Nat
      /\ \A x \in train : Length(source, x) \in Nat \ {0}
  BY TrainIsOfSource
<1>2. /\ \A x \in train : NewEpisodeIndex(train, x) \in Nat
      /\ \A x \in train : NewEpisodeIndex(train, x) = n => x = e
  <2>1. \A x \in train : /\ NewEpisodeIndex(train, x) \in 0..(Cardinality(train) - 1)
                         /\ TrainEpisodes(train)[NewEpisodeIndex(train, x) + 1] = x
    BY <1>1, Renumbered
  <2>2. Cardinality(train) \in Nat
    BY <1>1, Renumbered
  <2>3. \A x \in train : NewEpisodeIndex(train, x) = n => x = e
    BY <2>1
  <2> QED BY <2>1, <2>2, <2>3
<1>3. /\ Len(data) \in Nat /\ DOMAIN data = 1..Len(data)
      /\ \A p \in 1..Len(data) : data[p].episode \in Nat /\ data[p].frame \in Nat
  <2>1. data \in Seq(Row)
    BY DEF Materialized
  <2>2. \A p \in 1..Len(data) : data[p] \in Row
    BY <2>1
  <2> QED BY <2>1, <2>2 DEF Row
<1>4. ASSUME NEW m \in Int PROVE UpTo(m) \in Nat /\ At(m) = 1..UpTo(m)
  <2>1. At(m) \in SUBSET (1..Len(data))
    BY <1>3
  <2>2. \A p \in 1..Len(data), q \in At(m) : p < q => p \in At(m)
    <3> SUFFICES ASSUME NEW p \in 1..Len(data), NEW q \in At(m), p < q PROVE p \in At(m)
      OBVIOUS
    <3>1. q \in 1..Len(data) /\ data[q].episode <= m
      BY <1>3
    <3>2. Earlier(data[p], data[q])
      BY <3>1 DEF Materialized
    <3>3. data[p].episode <= data[q].episode
      BY <1>3, <3>1, <3>2 DEF Earlier
    <3>4. data[p].episode <= m
      BY <1>3, <3>1, <3>3
    <3> QED BY <1>3, <3>4
  <2> HIDE DEF At
  <2> QED BY <1>3, <2>1, <2>2, InitialSegment
<1>5. n \in Nat /\ n - 1 \in Int
  BY <1>2
<1>6. \A i : i \in (UpTo(n - 1) + 1)..UpTo(n) <=> i \in 1..Len(data) /\ data[i].episode = n
  <2>1. /\ UpTo(n - 1) \in Nat /\ UpTo(n) \in Nat
        /\ At(n - 1) = 1..UpTo(n - 1) /\ At(n) = 1..UpTo(n)
    <3> HIDE DEF At, UpTo, n
    <3> QED BY <1>4, <1>5
  <2>2. \A i : /\ i \in At(n - 1) <=> i \in 1..Len(data) /\ data[i].episode <= n - 1
               /\ i \in At(n) <=> i \in 1..Len(data) /\ data[i].episode <= n
    BY <1>3
  <2> HIDE DEF At, UpTo, n
  <2>3. \A i : i \in (UpTo(n - 1) + 1)..UpTo(n) <=> i \in At(n) /\ i \notin At(n - 1)
    BY <2>1
  <2> QED BY <1>3, <1>5, <2>2, <2>3
<1>7. \A i \in 1..Len(data) :
        data[i].episode = n => \E f \in 0..(Length(source, e) - 1) : data[i].recorded = <<e, f>>
  <2> SUFFICES ASSUME NEW i \in 1..Len(data), data[i].episode = n
               PROVE  \E f \in 0..(Length(source, e) - 1) : data[i].recorded = <<e, f>>
    OBVIOUS
  <2>1. PICK x \in train : /\ data[i].frame < Length(source, x)
                           /\ IsFrame(data[i], train, x, data[i].frame)
    BY DEF Materialized
  <2>2. x = e
    BY <1>2, <2>1 DEF IsFrame
  <2>3. data[i].frame \in 0..(Length(source, e) - 1)
    BY <1>1, <1>3, <2>1, <2>2
  <2> QED BY <2>1, <2>2, <2>3 DEF IsFrame
<1>8. \A f \in 0..(Length(source, e) - 1) :
        \E i \in 1..Len(data) : data[i].episode = n /\ data[i].recorded = <<e, f>>
  BY DEF Materialized, IsFrame
<1>9. ToSet(Recorded(source, e)) = {<<e, f>> : f \in 0..(Length(source, e) - 1)}
  <2>1. Recorded(source, e) = [f \in 1..Length(source, e) |-> <<e, f - 1>>]
    BY DEF Recorded, Length
  <2>2. ToSet(Recorded(source, e)) = {<<e, f - 1>> : f \in 1..Length(source, e)}
    BY <2>1 DEF ToSet
  <2>3. ASSUME NEW f \in 0..(Length(source, e) - 1)
        PROVE  \E g \in 1..Length(source, e) : <<e, f>> = <<e, g - 1>>
    BY <1>1, f + 1 \in 1..Length(source, e), f = (f + 1) - 1
  <2>4. \A g \in 1..Length(source, e) : g - 1 \in 0..(Length(source, e) - 1)
    BY <1>1
  <2> QED BY <2>2, <2>3, <2>4
<1> HIDE DEF n, At, UpTo
<1>10. {data[i].recorded : i \in (UpTo(n - 1) + 1)..UpTo(n)}
         = {<<e, f>> : f \in 0..(Length(source, e) - 1)}
  <2> DEFINE window == (UpTo(n - 1) + 1)..UpTo(n)
  <2>1. \A i \in window : \E f \in 0..(Length(source, e) - 1) : data[i].recorded = <<e, f>>
    BY <1>6, <1>7
  <2>2. \A f \in 0..(Length(source, e) - 1) : \E i \in window : data[i].recorded = <<e, f>>
    BY <1>6, <1>8
  <2> HIDE DEF window
  <2>3. {data[i].recorded : i \in window} = {<<e, f>> : f \in 0..(Length(source, e) - 1)}
    BY <2>1, <2>2
  <2> QED BY <2>3 DEF window
<1> QED BY <1>9, <1>10 DEF n, At, UpTo, RowsUpTo, Window

RowsOf(data, n) == {i \in DOMAIN data : data[i].episode = n}

InOrderOfFrames(data, found) ==
  LET frames == SortedBy(found, [i \in found |-> data[i].frame])
  IN  [k \in DOMAIN frames |-> data[frames[k]].recorded]

\* The rows of an episode's new index, sorted by frame, are its recording.
LEMMA FramesByValue ==
  ASSUME NEW source, IsSource(source), NEW train, IsTrain(source, train),
         NEW data, Materialized(source, train, data), NEW e \in train
  PROVE  InOrderOfFrames(data, RowsOf(data, NewEpisodeIndex(train, e))) = Recorded(source, e)
<1> DEFINE n == NewEpisodeIndex(train, e)
           found == {i \in DOMAIN data : data[i].episode = n}
           key == [i \in found |-> data[i].frame]
           L == Length(source, e)
           frames == SortedBy(found, key)
<1>1. L \in Nat \ {0} /\ IsFiniteSet(train) /\ train \subseteq Nat
  BY TrainIsOfSource
<1>2. \A x \in train : NewEpisodeIndex(train, x) = n => x = e
  <2>1. \A x \in train : TrainEpisodes(train)[NewEpisodeIndex(train, x) + 1] = x
    BY <1>1, Renumbered
  <2> QED BY <2>1
<1>3. /\ Len(data) \in Nat /\ DOMAIN data = 1..Len(data)
      /\ \A p \in 1..Len(data) : data[p].episode \in Nat /\ data[p].frame \in Nat
  <2>1. data \in Seq(Row)
    BY DEF Materialized
  <2>2. \A p \in 1..Len(data) : data[p] \in Row
    BY <2>1
  <2> QED BY <2>1, <2>2 DEF Row
<1>4. \A i \in found : /\ i \in 1..Len(data) /\ data[i].episode = n
                       /\ key[i] = data[i].frame
  BY <1>3
<1>5. ASSUME NEW i \in found
      PROVE  key[i] \in 0..(L - 1) /\ data[i].recorded = <<e, key[i]>>
  <2>1. i \in 1..Len(data) /\ data[i].episode = n /\ key[i] = data[i].frame /\ key[i] \in Nat
    BY <1>3, <1>4
  <2>2. PICK x \in train : /\ data[i].frame < Length(source, x)
                           /\ IsFrame(data[i], train, x, data[i].frame)
    BY <2>1 DEF Materialized
  <2>3. x = e
    BY <1>2, <2>1, <2>2 DEF IsFrame
  <2>4. data[i].frame < L /\ data[i].recorded = <<e, data[i].frame>>
    BY <2>2, <2>3 DEF IsFrame
  <2> HIDE DEF key, L
  <2> QED BY <1>1, <2>1, <2>4
<1>6. IsKey(found, key)
  <2> SUFFICES ASSUME NEW p \in found, NEW q \in found, key[p] = key[q], p < q PROVE FALSE
    <3>1. \A p \in found : key[p] \in Int /\ p \in Int
      BY <1>3, <1>4
    <3> HIDE DEF key, found
    <3> QED BY <3>1 DEF IsKey
  <2>1. Earlier(data[p], data[q])
    BY <1>4 DEF Materialized
  <2> QED BY <1>3, <1>4, <2>1 DEF Earlier
<1>7. \A k \in 0..(L - 1) : \E i \in found : key[i] = k
  <2> SUFFICES ASSUME NEW k \in 0..(L - 1) PROVE \E i \in found : key[i] = k
    OBVIOUS
  <2>1. PICK i \in 1..Len(data) : IsFrame(data[i], train, e, k)
    BY DEF Materialized
  <2> QED BY <1>3, <2>1 DEF IsFrame
<1> HIDE DEF key, L, found, n
<1>8. /\ DOMAIN frames = 1..L
      /\ \A k \in 1..L : frames[k] \in found /\ key[frames[k]] = k - 1
  <2>1. L \in Nat /\ NumbersAll(found, key, L)
    BY <1>1, <1>5, <1>6, <1>7 DEF NumbersAll
  <2>2. ListsByNumber(frames, found, key, L)
    BY <2>1, SortedByNumber
  <2> HIDE DEF frames
  <2> QED BY <2>2 DEF ListsByNumber
<1> HIDE DEF frames
<1>9. \A k \in 1..L : data[frames[k]].recorded = <<e, k - 1>>
  BY <1>5, <1>8
<1>10. Recorded(source, e) = [k \in 1..L |-> <<e, k - 1>>]
  BY DEF Recorded, Length, L
<1>11. [k \in DOMAIN frames |-> data[frames[k]].recorded] = Recorded(source, e)
  BY <1>8, <1>9, <1>10
<1> QED BY <1>11 DEF frames, found, key, n, RowsOf, InOrderOfFrames

\* The row of a training episode.
IsRowOf(row, source, train, data, e) ==
  /\ row.of = e /\ row.file = source[e + 1].file
  /\ row.from = RowsUpTo(data, NewEpisodeIndex(train, e) - 1)
  /\ row.to = RowsUpTo(data, NewEpisodeIndex(train, e))

\* What the copy's tables are.
IsCopy(d, source, train) ==
  /\ Materialized(source, train, d.data)
  /\ d.total_frames = Len(d.data) /\ d.total_episodes = Cardinality(train)
  /\ DOMAIN d.episodes = 1..Cardinality(train)
  /\ \A e \in train :
       IsRowOf(d.episodes[NewEpisodeIndex(train, e) + 1], source, train, d.data, e)
  /\ \A i \in 1..Cardinality(train) : d.episodes[i].episode = i - 1

LEMMA CopyIs ==
  ASSUME NEW source, IsSource(source), NEW train, IsTrain(source, train)
  PROVE  IsCopy(TrainOnly(source, train), source, train)
<1> DEFINE d == TrainOnly(source, train)
           n == Cardinality(train)
           data == DataRows(source, train)
           E == TrainEpisodes(train)
           UpTo(m) == RowsUpTo(data, m)
           row(i) == [episode |-> NewEpisodeIndex(train, E[i]),
                      from |-> UpTo(NewEpisodeIndex(train, E[i]) - 1),
                      to |-> UpTo(NewEpisodeIndex(train, E[i])),
                      file |-> source[E[i] + 1].file, of |-> E[i]]
<1>1. Materialized(source, train, data)
  BY DataIsMaterialized
<1>2. /\ d.data = data /\ d.total_frames = Len(data) /\ d.total_episodes = n
      /\ d.episodes = EpisodeRows(source, train, data)
  BY DEF TrainOnly
<1>3. EpisodeRows(source, train, data) = [i \in 1..n |-> row(i)]
  BY DEF EpisodeRows, RowsUpTo
<1>4. IsFiniteSet(train) /\ train \subseteq Nat
  BY TrainIsOfSource
<1>5. /\ \A k \in 1..n : NewEpisodeIndex(train, E[k]) = k - 1
      /\ \A e \in train : /\ NewEpisodeIndex(train, e) + 1 \in 1..n
                          /\ E[NewEpisodeIndex(train, e) + 1] = e
  BY <1>4, Renumbered
<1>6. \A i \in 1..n : /\ row(i).episode = NewEpisodeIndex(train, E[i])
                      /\ row(i).from = UpTo(NewEpisodeIndex(train, E[i]) - 1)
                      /\ row(i).to = UpTo(NewEpisodeIndex(train, E[i]))
                      /\ row(i).file = source[E[i] + 1].file /\ row(i).of = E[i]
  OBVIOUS
<1> HIDE DEF d, data, UpTo, row, E, n
<1>7. DOMAIN d.episodes = 1..n /\ \A i \in 1..n : d.episodes[i] = row(i)
  BY <1>2, <1>3
<1>8. ASSUME NEW e \in train
      PROVE  IsRowOf(d.episodes[NewEpisodeIndex(train, e) + 1], source, train, data, e)
  <2> DEFINE i == NewEpisodeIndex(train, e) + 1
  <2>1. i \in 1..n /\ E[i] = e
    BY <1>5
  <2> HIDE DEF i
  <2>2. d.episodes[i] = row(i)
    BY <1>7, <2>1
  <2>3. /\ row(i).of = e /\ row(i).file = source[e + 1].file
        /\ row(i).from = UpTo(NewEpisodeIndex(train, e) - 1)
        /\ row(i).to = UpTo(NewEpisodeIndex(train, e))
    BY <1>6, <2>1
  <2> QED BY <2>2, <2>3 DEF i, IsRowOf, UpTo
<1>9. \A i \in 1..n : d.episodes[i].episode = i - 1
  BY <1>5, <1>6, <1>7
<1>10. IsCopy(d, source, train)
  BY <1>1, <1>2, <1>7, <1>8, <1>9 DEF n, IsCopy
<1> QED BY <1>10 DEF d

TheRead(source, e, f) == [recorded |-> <<e, f>>, of |-> e,
                          window |-> ToSet(Recorded(source, e))]

\* By position: a frame of a training episode, with its own episode's row and
\* window.
LEMMA ReadByPosition ==
  ASSUME NEW source, IsSource(source), NEW train, IsTrain(source, train),
         NEW d, IsCopy(d, source, train), NEW i, i + 1 \in 1..Len(d.data),
         NEW e \in train, NEW f, IsFrame(d.data[i + 1], train, e, f)
  PROVE  PositionalRead(d, i) = {TheRead(source, e, f)}
<1> DEFINE n == NewEpisodeIndex(train, e)
           row == d.data[i + 1]
           meta == d.episodes[n + 1]
<1>1. IsFiniteSet(train) /\ train \subseteq Nat
  BY TrainIsOfSource
<1>2. n + 1 \in DOMAIN d.episodes
  BY <1>1, Renumbered DEF IsCopy
<1>3. row.episode = n /\ row.recorded = <<e, f>>
  BY DEF IsFrame
<1>4. /\ meta.of = e
      /\ meta.from = RowsUpTo(d.data, n - 1) /\ meta.to = RowsUpTo(d.data, n)
  BY DEF IsCopy, IsRowOf
<1>5. Window(d.data, RowsUpTo(d.data, n - 1), RowsUpTo(d.data, n)) = ToSet(Recorded(source, e))
  BY WindowIs DEF IsCopy
<1>6. PositionalRead(d, i) = {[recorded |-> row.recorded, of |-> meta.of,
                               window |-> Window(d.data, meta.from, meta.to)]}
  BY <1>2, <1>3 DEF PositionalRead, Window
<1> QED BY <1>3, <1>4, <1>5, <1>6 DEF TheRead

\* By value: the recording of the episode the index stands for, or nothing when
\* its row names a data file the copy does not have.
LEMMA ReadByValue ==
  ASSUME NEW source, IsSource(source), NEW train, IsTrain(source, train),
         NEW d, IsCopy(d, source, train), NEW e \in train
  PROVE  ValueRead(d, NewEpisodeIndex(train, e))
           = IF source[e + 1].file # 0 THEN <<>> ELSE Recorded(source, e)
<1> DEFINE n == Cardinality(train)
           m == NewEpisodeIndex(train, e)
           rows == {i \in DOMAIN d.episodes : d.episodes[i].episode = m}
           frames == InOrderOfFrames(d.data, RowsOf(d.data, m))
<1>1. /\ DOMAIN d.episodes = 1..n
      /\ d.episodes[m + 1].file = source[e + 1].file
      /\ \A i \in 1..n : d.episodes[i].episode = i - 1
  BY DEF IsCopy, IsRowOf
<1>2. IsFiniteSet(train) /\ train \subseteq Nat
  BY TrainIsOfSource
<1>3. n \in Nat /\ m + 1 \in 1..n /\ m \in 0..(n - 1)
  BY <1>2, Renumbered
<1>4. frames = Recorded(source, e)
  BY FramesByValue DEF IsCopy
<1>5. ValueRead(d, m) = IF rows = {} \/ d.episodes[Min(rows)].file # 0 THEN <<>>
                        ELSE frames
  BY DEF ValueRead, RowsOf, InOrderOfFrames
<1> HIDE DEF m, n, frames
<1>6. rows = {m + 1}
  BY <1>1, <1>3
<1> HIDE DEF rows
<1>7. Min(rows) = m + 1
  <2>1. m + 1 \in Int
    BY <1>3
  <2> QED BY <1>6, <2>1 DEF Min
<1>8. ValueRead(d, m) = IF source[e + 1].file # 0 THEN <<>> ELSE Recorded(source, e)
  <2>1. rows # {}
    BY <1>6
  <2> QED BY <1>1, <1>4, <1>5, <1>7, <2>1
<1> QED BY <1>8 DEF m

\* The frames of a set of episodes, by episode and frame.
FramesAreNamed(frames, source, train) ==
  \A r : r \in frames
           <=> \E e \in train : \E f \in 0..(Length(source, e) - 1) : r = <<e, f>>

LEMMA FramesAre ==
  ASSUME NEW source, NEW train, \A e \in train : Length(source, e) \in Nat \ {0}
  PROVE  FramesAreNamed(SourceFrames(source, train), source, train)
<1>1. \A r : r \in SourceFrames(source, train)
               <=> \E e \in train : \E f \in 1..Length(source, e) : r = <<e, f - 1>>
  <2>1. \A e : Recorded(source, e) = [f \in 1..Length(source, e) |-> <<e, f - 1>>]
    BY DEF Recorded, Length
  <2>2. SourceFrames(source, train)
          = UNION {{Recorded(source, e)[f] : f \in 1..Length(source, e)} : e \in train}
    BY DEF SourceFrames, Length
  <2>3. \A r : r \in SourceFrames(source, train)
                 <=> \E e \in train : r \in {Recorded(source, e)[f] : f \in 1..Length(source, e)}
    BY <2>2
  <2>4. \A e : \A r : r \in {Recorded(source, e)[f] : f \in 1..Length(source, e)}
                        <=> \E f \in 1..Length(source, e) : r = <<e, f - 1>>
    BY <2>1
  <2> QED BY <2>3, <2>4
<1>2. ASSUME NEW e \in train, NEW f \in 0..(Length(source, e) - 1)
      PROVE  \E g \in 1..Length(source, e) : <<e, f>> = <<e, g - 1>>
  BY f + 1 \in 1..Length(source, e), f = (f + 1) - 1
<1>3. \A e \in train : \A g \in 1..Length(source, e) : g - 1 \in 0..(Length(source, e) - 1)
  OBVIOUS
<1> QED BY <1>1, <1>2, <1>3 DEF FramesAreNamed

\* What each reader gets from build_train_only_dataset's copy, exactly, for every
\* dataset and every split of it: by position every training frame and no other
\* with its own episode's row and window, by value the training episodes of the
\* source's first data file and an exception for each of the others.
THEOREM CopyReadsExactly ==
  ASSUME NEW source, IsSource(source), NEW train, IsTrain(source, train)
  PROVE  ReadsExactly(source, train, TrainOnly(source, train))
<1> DEFINE inFile0 == {x \in train : source[x + 1].file = 0}
<1>0. PICK d : d = TrainOnly(source, train)
  OBVIOUS
<1>1. IsCopy(d, source, train)
  BY <1>0, CopyIs
<1>2. /\ IsFiniteSet(train) /\ train \subseteq Nat
      /\ \A e \in train : Length(source, e) \in Nat \ {0}
  BY TrainIsOfSource
<1>3. /\ Len(d.data) \in Nat /\ Materialized(source, train, d.data)
      /\ d.total_frames = Len(d.data) /\ d.total_episodes = Cardinality(train)
  <2>1. d.data \in Seq(Row)
    BY <1>1 DEF IsCopy, Materialized
  <2> QED BY <1>1, <2>1 DEF IsCopy
<1>4. \A i \in 0..(d.total_frames - 1) : \E e \in train : \E f \in 0..(Length(source, e) - 1) :
        PositionalRead(d, i) = {TheRead(source, e, f)}
  <2> SUFFICES ASSUME NEW i \in 0..(d.total_frames - 1)
               PROVE  \E e \in train : \E f \in 0..(Length(source, e) - 1) :
                        PositionalRead(d, i) = {TheRead(source, e, f)}
    OBVIOUS
  <2>1. i + 1 \in 1..Len(d.data)
    BY <1>3
  <2>2. PICK e \in train : /\ d.data[i + 1].frame < Length(source, e)
                           /\ IsFrame(d.data[i + 1], train, e, d.data[i + 1].frame)
    BY <1>3, <2>1 DEF Materialized
  <2>3. d.data[i + 1].frame \in Nat
    <3>1. d.data[i + 1] \in Row
      BY <1>3, <2>1 DEF Materialized
    <3> QED BY <3>1 DEF Row
  <2>4. d.data[i + 1].frame \in 0..(Length(source, e) - 1)
    BY <1>2, <2>2, <2>3
  <2>5. PositionalRead(d, i) = {TheRead(source, e, d.data[i + 1].frame)}
    BY <1>1, <2>1, <2>2, ReadByPosition
  <2> QED BY <2>4, <2>5
<1>5. \A e \in train : \A f \in 0..(Length(source, e) - 1) :
        \E i \in 0..(d.total_frames - 1) : PositionalRead(d, i) = {TheRead(source, e, f)}
  <2> SUFFICES ASSUME NEW e \in train, NEW f \in 0..(Length(source, e) - 1)
               PROVE  \E i \in 0..(d.total_frames - 1) :
                        PositionalRead(d, i) = {TheRead(source, e, f)}
    OBVIOUS
  <2>1. PICK p \in 1..Len(d.data) : IsFrame(d.data[p], train, e, f)
    BY <1>3 DEF Materialized
  <2>2. PICK i \in 0..(d.total_frames - 1) : i + 1 = p
    BY <1>3, p - 1 \in 0..(d.total_frames - 1), (p - 1) + 1 = p
  <2>3. PositionalRead(d, i) = {TheRead(source, e, f)}
    BY <1>1, <2>1, <2>2, ReadByPosition
  <2> QED BY <2>3
<1>6. \A r : r \in SourceFrames(source, train)
               <=> \E e \in train : \E f \in 0..(Length(source, e) - 1) : r = <<e, f>>
  <2>1. FramesAreNamed(SourceFrames(source, train), source, train)
    BY <1>2, FramesAre
  <2> QED BY <2>1 DEF FramesAreNamed
<1>7. SeenByPython(d) = SourceFrames(source, train)
  <2>1. \A e, f : TheRead(source, e, f).recorded = <<e, f>>
    BY DEF TheRead
  <2>2. \A r : r \in SeenByPython(d)
                 <=> \E i \in 0..(d.total_frames - 1) : \E x \in PositionalRead(d, i) : r = x.recorded
    BY DEF SeenByPython
  <2>3. ASSUME NEW r \in SeenByPython(d) PROVE r \in SourceFrames(source, train)
    <3>1. PICK i \in 0..(d.total_frames - 1) : \E x \in PositionalRead(d, i) : r = x.recorded
      BY <2>2
    <3>2. PICK e \in train : \E f \in 0..(Length(source, e) - 1) :
            PositionalRead(d, i) = {TheRead(source, e, f)}
      BY <1>4
    <3>3. \E f \in 0..(Length(source, e) - 1) : r = <<e, f>>
      BY <2>1, <3>1, <3>2
    <3> QED BY <1>6, <3>3
  <2>4. ASSUME NEW r \in SourceFrames(source, train) PROVE r \in SeenByPython(d)
    <3>1. PICK e \in train : \E f \in 0..(Length(source, e) - 1) : r = <<e, f>>
      BY <1>6
    <3>2. PICK f \in 0..(Length(source, e) - 1) : r = <<e, f>>
      BY <3>1
    <3>3. PICK i \in 0..(d.total_frames - 1) : PositionalRead(d, i) = {TheRead(source, e, f)}
      BY <1>5
    <3> QED BY <2>1, <2>2, <3>2, <3>3
  <2> QED BY <2>3, <2>4
<1>8. \A i \in 0..(d.total_frames - 1) :
        \E r \in PositionalRead(d, i) :
          r.of = r.recorded[1] /\ r.window = ToSet(Recorded(source, r.of))
  <2>1. \A e, f : /\ TheRead(source, e, f).of = TheRead(source, e, f).recorded[1]
                  /\ TheRead(source, e, f).window = ToSet(Recorded(source, TheRead(source, e, f).of))
    BY DEF TheRead
  <2> QED BY <1>4, <2>1
<1>9. ASSUME NEW x \in train
      PROVE  /\ NewEpisodeIndex(train, x) \in 0..(d.total_episodes - 1)
             /\ ValueRead(d, NewEpisodeIndex(train, x))
                  = IF x \in inFile0 THEN Recorded(source, x) ELSE <<>>
  <2>1. NewEpisodeIndex(train, x) \in 0..(d.total_episodes - 1)
    BY <1>2, <1>3, Renumbered
  <2>2. ValueRead(d, NewEpisodeIndex(train, x))
          = IF source[x + 1].file # 0 THEN <<>> ELSE Recorded(source, x)
    BY <1>1, ReadByValue
  <2> QED BY <2>1, <2>2
<1>10. /\ Cardinality(train) \in Nat
       /\ \A k \in 1..Cardinality(train) :
            TrainEpisodes(train)[k] \in train /\ NewEpisodeIndex(train, TrainEpisodes(train)[k]) = k - 1
  BY <1>2, Renumbered
<1> HIDE DEF inFile0
<1>11. \A k \in 1..Cardinality(train) :
         ValueRead(d, k - 1)
           = IF TrainEpisodes(train)[k] \in inFile0
               THEN Recorded(source, TrainEpisodes(train)[k]) ELSE <<>>
  BY <1>9, <1>10
<1>12. SeenByElixir(d) = SourceFrames(source, inFile0)
  <2>1. \A r : r \in SeenByElixir(d)
                 <=> \E m \in 0..(d.total_episodes - 1) : r \in ToSet(ValueRead(d, m))
    BY DEF SeenByElixir
  <2>2. \A r : r \in SourceFrames(source, inFile0)
                 <=> \E x \in inFile0 : r \in ToSet(Recorded(source, x))
    BY DEF SourceFrames, ToSet, Recorded
  <2>3. \A m \in 0..(d.total_episodes - 1) : \E x \in train : m = NewEpisodeIndex(train, x)
    <3> SUFFICES ASSUME NEW m \in 0..(d.total_episodes - 1)
                 PROVE  \E x \in train : m = NewEpisodeIndex(train, x)
      OBVIOUS
    <3>1. m + 1 \in 1..Cardinality(train) /\ (m + 1) - 1 = m
      BY <1>3, <1>10
    <3> QED BY <1>10, <3>1
  <2>4. \A r : r \in ToSet(<<>>) => FALSE
    BY DEF ToSet
  <2>5. inFile0 \subseteq train
    BY DEF inFile0
  <2>6. ASSUME NEW r \in SeenByElixir(d) PROVE r \in SourceFrames(source, inFile0)
    <3>1. PICK m \in 0..(d.total_episodes - 1) : r \in ToSet(ValueRead(d, m))
      BY <2>1
    <3>2. PICK x \in train : m = NewEpisodeIndex(train, x)
      BY <2>3
    <3>3. ValueRead(d, m) = IF x \in inFile0 THEN Recorded(source, x) ELSE <<>>
      BY <1>9, <3>2
    <3>4. x \in inFile0
      <4>1. x \notin inFile0 => r \in ToSet(<<>>)
        BY <3>1, <3>3
      <4> QED BY <2>4, <4>1
    <3> QED BY <2>2, <3>1, <3>3, <3>4
  <2>7. ASSUME NEW r \in SourceFrames(source, inFile0) PROVE r \in SeenByElixir(d)
    <3>1. PICK x \in inFile0 : r \in ToSet(Recorded(source, x))
      BY <2>2
    <3>2. /\ NewEpisodeIndex(train, x) \in 0..(d.total_episodes - 1)
          /\ ValueRead(d, NewEpisodeIndex(train, x)) = Recorded(source, x)
      BY <1>9, <2>5, <3>1
    <3> QED BY <2>1, <3>1, <3>2
  <2> QED BY <2>6, <2>7
<1>13. ReadsExactly(source, train, d)
  BY <1>7, <1>8, <1>11, <1>12 DEF ReadsExactly, inFile0
<1> QED BY <1>0, <1>13

=============================================================================
