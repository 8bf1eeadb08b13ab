---------------------------- MODULE SequenceFacts ----------------------------
(***************************************************************************)
(* What the operators on sequences and finite sets that the models use     *)
(* return: filtering and sorting (SequenceOrder), folds, concatenations,   *)
(* the least and the greatest of a set of numbers.                         *)
(***************************************************************************)
EXTENDS SequenceOrder, SequencesExt, FiniteSetTheorems, SequenceTheorems, TLAPS

-----------------------------------------------------------------------------
(* Filtering and sorting.                                                  *)

\* i comes before j.
Precedes(key, i, j) == key[i] < key[j] \/ (key[i] = key[j] /\ i < j)

\* It is a strict total order.
LEMMA PrecedesIsOrder ==
  ASSUME NEW I \in SUBSET Int, NEW key \in [I -> Int]
  PROVE  /\ \A i, j \in I : i # j => Precedes(key, i, j) \/ Precedes(key, j, i)
         /\ \A i, j \in I : ~(Precedes(key, i, j) /\ Precedes(key, j, i))
         /\ \A i, j, k \in I : Precedes(key, i, j) /\ Precedes(key, j, k) => Precedes(key, i, k)
<1>1. \A i \in I : i \in Int /\ key[i] \in Int
  OBVIOUS
<1>2. \A i, j \in I : i # j => Precedes(key, i, j) \/ Precedes(key, j, i)
  BY <1>1 DEF Precedes
<1>3. \A i, j \in I : ~(Precedes(key, i, j) /\ Precedes(key, j, i))
  BY <1>1 DEF Precedes
<1>4. ASSUME NEW i \in I, NEW j \in I, NEW k \in I, Precedes(key, i, j), Precedes(key, j, k)
      PROVE  Precedes(key, i, k)
  <2>1. /\ i \in Int /\ j \in Int /\ k \in Int
        /\ key[i] \in Int /\ key[j] \in Int /\ key[k] \in Int
    BY <1>1
  <2> QED
    BY <2>1, <1>4 DEF Precedes
<1> QED
  BY <1>2, <1>3, <1>4

\* The members of I before j, and how many they are.
Before(I, key, j) == {i \in I : Precedes(key, i, j)}
Rank(I, key, j)   == Cardinality(Before(I, key, j))

\* The rank of a member is less than their number, and grows with the order.
LEMMA RankGrows ==
  ASSUME NEW I \in SUBSET Int, IsFiniteSet(I), NEW key \in [I -> Int]
  PROVE  /\ \A j \in I : Rank(I, key, j) \in 0..(Cardinality(I) - 1)
         /\ \A i, j \in I : Precedes(key, i, j) => Rank(I, key, i) < Rank(I, key, j)
<1>1. \A j \in I : /\ IsFiniteSet(Before(I, key, j))
                   /\ Rank(I, key, j) \in Nat
  <2> SUFFICES ASSUME NEW j \in I
               PROVE  IsFiniteSet(Before(I, key, j)) /\ Rank(I, key, j) \in Nat
    OBVIOUS
  <2>1. Before(I, key, j) \in SUBSET I
    BY DEF Before
  <2> QED
    BY <2>1, FS_Subset, FS_CardinalityType DEF Rank
<1>2. ASSUME NEW S \in SUBSET I, NEW T \in SUBSET I, S \subseteq T, S # T
      PROVE  Cardinality(S) < Cardinality(T)
  <2>1. IsFiniteSet(T)
    BY <1>2, FS_Subset
  <2>2. S \in SUBSET T
    BY <1>2
  <2>3. Cardinality(S) <= Cardinality(T) /\ Cardinality(T) # Cardinality(S)
    BY <2>1, <2>2, <1>2, FS_Subset
  <2>4. Cardinality(S) \in Nat /\ Cardinality(T) \in Nat
    BY <2>1, <2>2, FS_Subset, FS_CardinalityType
  <2> QED
    BY <2>3, <2>4
<1>3. ASSUME NEW j \in I
      PROVE  Rank(I, key, j) < Cardinality(I)
  <2>1. /\ Before(I, key, j) \in SUBSET I
        /\ j \notin Before(I, key, j)
    BY PrecedesIsOrder DEF Before
  <2> QED
    BY <1>2, <2>1 DEF Rank
<1>4. ASSUME NEW i \in I, NEW j \in I, Precedes(key, i, j)
      PROVE  Rank(I, key, i) < Rank(I, key, j)
  <2>1. Before(I, key, i) \subseteq Before(I, key, j)
    BY <1>4, PrecedesIsOrder DEF Before
  <2>2. i \in Before(I, key, j) /\ i \notin Before(I, key, i)
    BY <1>4, PrecedesIsOrder DEF Before
  <2>3. Before(I, key, i) \in SUBSET I /\ Before(I, key, j) \in SUBSET I
    BY DEF Before
  <2> QED
    BY <1>2, <2>1, <2>2, <2>3 DEF Rank
<1>5. Cardinality(I) \in Nat
  BY FS_CardinalityType
<1> QED
  BY <1>1, <1>3, <1>4, <1>5

\* Every rank is taken, by one member.
LEMMA RankIsTaken ==
  ASSUME NEW I \in SUBSET Int, IsFiniteSet(I), NEW key \in [I -> Int],
         NEW k \in 1..Cardinality(I)
  PROVE  \E i \in I : Rank(I, key, i) = k - 1
<1> DEFINE n == Cardinality(I)
           f == [i \in I |-> Rank(I, key, i)]
<1>1. n \in Nat
  BY FS_CardinalityType
<1>2. f \in [I -> 0..(n - 1)]
  BY RankGrows
<1>3. ASSUME NEW i \in I, NEW j \in I, f[i] = f[j]
      PROVE  i = j
  <2>1. Rank(I, key, i) \in Int /\ Rank(I, key, i) = Rank(I, key, j)
    BY <1>2, <1>3
  <2>2. ~Precedes(key, i, j) /\ ~Precedes(key, j, i)
    BY <2>1, RankGrows
  <2> QED
    BY <2>2, PrecedesIsOrder
<1>4. f \in Injection(I, 0..(n - 1))
  BY <1>2, <1>3 DEF Injection, IsInjective
<1>5. IsFiniteSet(0..(n - 1)) /\ Cardinality(0..(n - 1)) = n
  <2>1. 0 \in Int /\ n - 1 \in Int
    BY <1>1
  <2>2. Cardinality(0..(n - 1)) = IF 0 > n - 1 THEN 0 ELSE (n - 1) - 0 + 1
    BY <2>1, FS_Interval
  <2> QED
    BY <1>1, <2>1, <2>2, FS_Interval
<1>6. f \in Surjection(I, 0..(n - 1))
  <2> HIDE DEF f
  <2> QED
    BY <1>4, <1>5, FS_Injection
<1>7. k - 1 \in 0..(n - 1)
  BY <1>1
<1> QED
  BY <1>6, <1>7 DEF Surjection

\* The positions are all members, each once, in order.
LEMMA PositionsOrder ==
  ASSUME NEW I \in SUBSET Int, IsFiniteSet(I), NEW key \in [I -> Int]
  PROVE  LET p == Positions(I, key)
             n == Cardinality(I)
         IN  /\ n \in Nat
             /\ p \in [1..n -> I]
             /\ \A i \in I : \E k \in 1..n : p[k] = i
             /\ \A k, l \in 1..n : k < l => Precedes(key, p[k], p[l])
<1> DEFINE p == Positions(I, key)
           n == Cardinality(I)
           ranked == {<<Rank(I, key, i), i>> : i \in I}
<1>1. p = [k \in 1..n |-> (CHOOSE r \in ranked : r[1] = k - 1)[2]]
  BY DEF Positions, Rank, Before, Precedes
<1>2. n \in Nat
  BY FS_CardinalityType
<1> HIDE DEF p, n
<1>3. ASSUME NEW k \in 1..n
      PROVE  p[k] \in I /\ Rank(I, key, p[k]) = k - 1
  <2>1. \E i \in I : Rank(I, key, i) = k - 1
    BY RankIsTaken DEF n
  <2>2. \E r \in ranked : r[1] = k - 1
    <3>1. PICK i \in I : Rank(I, key, i) = k - 1
      BY <2>1
    <3>2. <<Rank(I, key, i), i>> \in ranked
      OBVIOUS
    <3> QED
      BY <3>1, <3>2
  <2> DEFINE r == CHOOSE r \in ranked : r[1] = k - 1
  <2>3. r \in ranked /\ r[1] = k - 1
    BY <2>2
  <2>4. p[k] = r[2]
    BY <1>1
  <2> HIDE DEF r
  <2> QED
    BY <2>3, <2>4
<1>4. ASSUME NEW i \in I, NEW j \in I, Rank(I, key, i) = Rank(I, key, j)
      PROVE  i = j
  <2>1. Rank(I, key, i) \in Int
    BY RankGrows
  <2>2. ~Precedes(key, i, j) /\ ~Precedes(key, j, i)
    BY <2>1, <1>4, RankGrows
  <2> QED
    BY <2>2, PrecedesIsOrder
<1>5. ASSUME NEW i \in I
      PROVE  \E k \in 1..n : p[k] = i
  <2>1. Rank(I, key, i) \in 0..(n - 1)
    BY RankGrows DEF n
  <2> DEFINE k == Rank(I, key, i) + 1
  <2>2. k \in 1..n /\ k - 1 = Rank(I, key, i)
    BY <1>2, <2>1
  <2>3. p[k] = i
    BY <1>3, <1>4, <2>2
  <2> QED
    BY <2>2, <2>3
<1>6. ASSUME NEW k \in 1..n, NEW l \in 1..n, k < l
      PROVE  Precedes(key, p[k], p[l])
  <2> DEFINE x == p[k]
             y == p[l]
  <2>1. /\ x \in I /\ y \in I
        /\ Rank(I, key, x) = k - 1 /\ Rank(I, key, y) = l - 1
    BY <1>3
  <2> HIDE DEF x, y
  <2>2. ~(Rank(I, key, y) < Rank(I, key, x)) /\ x # y
    BY <2>1, <1>2, <1>6
  <2>3. ~Precedes(key, y, x)
    BY <2>1, <2>2, RankGrows
  <2>4. Precedes(key, x, y)
    BY <2>1, <2>2, <2>3, PrecedesIsOrder
  <2> QED
    BY <2>4 DEF x, y
<1>7. p \in [1..n -> I]
  BY <1>1, <1>3
<1> QED
  BY <1>2, <1>5, <1>6, <1>7 DEF p, n

\* The members of a finite set of numbers, in ascending order.
LEMMA AscendingPositions ==
  ASSUME NEW I \in SUBSET Int, IsFiniteSet(I)
  PROVE  LET p == Positions(I, [i \in I |-> i])
         IN  /\ Cardinality(I) \in Nat
             /\ p \in [1..Cardinality(I) -> I]
             /\ \A i \in I : \E k \in 1..Cardinality(I) : p[k] = i
             /\ \A k, l \in 1..Cardinality(I) : k < l => p[k] < p[l]
<1> DEFINE key == [i \in I |-> i]
           p == Positions(I, key)
           n == Cardinality(I)
<1>1. key \in [I -> Int]
  OBVIOUS
<1> HIDE DEF key
<1>2. /\ n \in Nat
      /\ p \in [1..n -> I]
      /\ \A i \in I : \E k \in 1..n : p[k] = i
      /\ \A k, l \in 1..n : k < l => Precedes(key, p[k], p[l])
  BY <1>1, PositionsOrder
<1>3. ASSUME NEW k \in 1..n, NEW l \in 1..n, k < l
      PROVE  p[k] < p[l]
  <2>1. Precedes(key, p[k], p[l]) /\ p[k] \in I /\ p[l] \in I
    BY <1>2, <1>3
  <2> HIDE DEF p
  <2>2. key[p[k]] = p[k] /\ key[p[l]] = p[l]
    BY <2>1 DEF key
  <2> QED
    BY <2>1, <2>2 DEF Precedes
<1> QED
  BY <1>2, <1>3 DEF key

\* Only takes the elements at the positions I, in their order.
LEMMA OnlyIsSelection ==
  ASSUME NEW s, NEW I \in SUBSET Int, IsFiniteSet(I)
  PROVE  \E p : /\ Cardinality(I) \in Nat
                /\ p \in [1..Cardinality(I) -> I]
                /\ \A i \in I : \E k \in 1..Cardinality(I) : p[k] = i
                /\ \A k, l \in 1..Cardinality(I) : k < l => p[k] < p[l]
                /\ Only(s, I) = [k \in 1..Cardinality(I) |-> s[p[k]]]
<1> DEFINE p == Positions(I, [i \in I |-> i])
           n == Cardinality(I)
<1>1. /\ n \in Nat
      /\ p \in [1..n -> I]
      /\ \A i \in I : \E k \in 1..n : p[k] = i
      /\ \A k, l \in 1..n : k < l => p[k] < p[l]
  BY AscendingPositions
<1>2. Only(s, I) = Through(s, p)
  BY DEF Only
<1> HIDE DEF p
<1>3. Only(s, I) = [k \in 1..n |-> s[p[k]]]
  BY <1>1, <1>2 DEF Through
<1> QED
  BY <1>1, <1>3

\* What Only takes are the elements at the positions I and no others.
LEMMA OnlyElements ==
  ASSUME NEW S, NEW s, NEW I \in SUBSET Int, IsFiniteSet(I), \A i \in I : s[i] \in S
  PROVE  /\ Only(s, I) \in Seq(S)
         /\ \A k \in DOMAIN Only(s, I) : \E i \in I : Only(s, I)[k] = s[i]
         /\ \A i \in I : \E k \in DOMAIN Only(s, I) : Only(s, I)[k] = s[i]
<1>1. PICK p : /\ Cardinality(I) \in Nat
               /\ p \in [1..Cardinality(I) -> I]
               /\ \A i \in I : \E k \in 1..Cardinality(I) : p[k] = i
               /\ Only(s, I) = [k \in 1..Cardinality(I) |-> s[p[k]]]
  BY OnlyIsSelection
<1>2. \A k \in 1..Cardinality(I) : p[k] \in I /\ Only(s, I)[k] = s[p[k]]
  BY <1>1
<1>3. Only(s, I) \in [1..Cardinality(I) -> S]
  BY <1>1
<1>4. Only(s, I) \in Seq(S)
  BY <1>1, <1>3
<1>5. DOMAIN Only(s, I) = 1..Cardinality(I)
  BY <1>1
<1>6. ASSUME NEW i \in I
      PROVE  \E k \in DOMAIN Only(s, I) : Only(s, I)[k] = s[i]
  BY <1>1, <1>2, <1>5
<1>7. \A k \in DOMAIN Only(s, I) : \E i \in I : Only(s, I)[k] = s[i]
  BY <1>2, <1>5
<1> QED
  BY <1>4, <1>6, <1>7

\* Positions of a sequence are a finite set of numbers.
LEMMA PositionsAreFinite ==
  ASSUME NEW S, NEW s \in Seq(S), NEW I \in SUBSET DOMAIN s
  PROVE  I \in SUBSET Int /\ IsFiniteSet(I)
<1>1. DOMAIN s = 1..Len(s) /\ Len(s) \in Int /\ 1 \in Int
  OBVIOUS
<1>2. IsFiniteSet(1..Len(s))
  BY <1>1, FS_Interval
<1> QED
  BY <1>1, <1>2, FS_Subset

\* SortedBy takes every element of a sequence once, in ascending order of key.
LEMMA SortedIsPermutation ==
  ASSUME NEW S, NEW s \in Seq(S), NEW key \in [DOMAIN s -> Int]
  PROVE  \E p : /\ p \in [DOMAIN s -> DOMAIN s]
                /\ \A i \in DOMAIN s : \E k \in DOMAIN s : p[k] = i
                /\ \A k, l \in DOMAIN s : k < l => p[k] # p[l] /\ key[p[k]] <= key[p[l]]
                /\ SortedBy(s, key) = [k \in DOMAIN s |-> s[p[k]]]
<1> DEFINE I == DOMAIN s
           p == Positions(I, key)
<1>1. Len(s) \in Nat /\ I = 1..Len(s)
  OBVIOUS
<1>2. I \in SUBSET Int
  BY <1>1
<1>3. IsFiniteSet(I) /\ Cardinality(I) = Len(s)
  <2> HIDE DEF I
  <2>1. 1 \in Int /\ Len(s) \in Int
    BY <1>1
  <2> QED
    BY <1>1, <2>1, FS_Interval
<1>4. /\ p \in [I -> I]
      /\ \A i \in I : \E k \in I : p[k] = i
      /\ \A k, l \in I : k < l => Precedes(key, p[k], p[l])
  <2>1. key \in [I -> Int]
    OBVIOUS
  <2> HIDE DEF I
  <2>2. Cardinality(I) = Len(s) /\ 1..Cardinality(I) = I
    BY <1>1, <1>3
  <2>3. /\ p \in [1..Cardinality(I) -> I]
        /\ \A i \in I : \E k \in 1..Cardinality(I) : p[k] = i
        /\ \A k, l \in 1..Cardinality(I) : k < l => Precedes(key, p[k], p[l])
    BY <1>2, <1>3, <2>1, PositionsOrder
  <2> QED
    BY <2>2, <2>3
<1>5. SortedBy(s, key) = [k \in I |-> s[p[k]]]
  BY <1>4 DEF SortedBy, Through
<1>6. ASSUME NEW k \in I, NEW l \in I, k < l
      PROVE  p[k] # p[l] /\ key[p[k]] <= key[p[l]]
  <2> DEFINE x == p[k]
             y == p[l]
  <2>1. Precedes(key, x, y) /\ x \in I /\ y \in I
    BY <1>4, <1>6
  <2> HIDE DEF x, y, I
  <2>2. key[x] \in Int /\ key[y] \in Int /\ x \in Int /\ y \in Int
    BY <2>1, <1>2 DEF I
  <2>3. x # y /\ key[x] <= key[y]
    BY <2>1, <2>2 DEF Precedes
  <2> QED
    BY <2>3 DEF x, y
<1> HIDE DEF p
<1> QED
  BY <1>4, <1>5, <1>6

\* What SortedBy returns has the elements of the sequence.
LEMMA SortedElements ==
  ASSUME NEW S, NEW s \in Seq(S), NEW key \in [DOMAIN s -> Int]
  PROVE  /\ SortedBy(s, key) \in Seq(S)
         /\ Len(SortedBy(s, key)) = Len(s)
         /\ \A k \in DOMAIN s : \E i \in DOMAIN s : SortedBy(s, key)[k] = s[i]
         /\ \A i \in DOMAIN s : \E k \in DOMAIN s : SortedBy(s, key)[k] = s[i]
<1>1. PICK p : /\ p \in [DOMAIN s -> DOMAIN s]
               /\ \A i \in DOMAIN s : \E k \in DOMAIN s : p[k] = i
               /\ \A k, l \in DOMAIN s : k < l => p[k] # p[l] /\ key[p[k]] <= key[p[l]]
               /\ SortedBy(s, key) = [k \in DOMAIN s |-> s[p[k]]]
  BY SortedIsPermutation, Zenon
<1>2. DOMAIN s = 1..Len(s) /\ Len(s) \in Nat /\ \A i \in DOMAIN s : s[i] \in S
  OBVIOUS
<1>3. SortedBy(s, key) \in [1..Len(s) -> S]
  BY <1>1, <1>2
<1> QED
  BY <1>1, <1>2, <1>3

-----------------------------------------------------------------------------
(* Induction, as a fact about sets of numbers.                             *)

\* Every set of natural numbers has a least one.
LEMMA LeastNatural ==
  ASSUME NEW T \in SUBSET Nat, T # {}
  PROVE  \E m \in T : \A n \in T : m <= n
<1> DEFINE R == OpToRel(<, Nat)
<1>1. PICK m \in T : \A n \in T : ~(<<n, m>> \in R)
  <2> HIDE DEF R
  <2>1. IsWellFoundedOn(R, Nat)
    BY NatLessThanWellFounded DEF R
  <2> QED
    BY <2>1, WFMin
<1>2. ASSUME NEW n \in T, n < m
      PROVE  FALSE
  <2>1. <<n, m>> \in Nat \X Nat
    OBVIOUS
  <2>2. <<n, m>>[1] < <<n, m>>[2]
    BY <1>2
  <2>3. R = {ss \in Nat \X Nat : ss[1] < ss[2]}
    BY DEF OpToRel
  <2> HIDE DEF R
  <2>4. <<n, m>> \in R
    BY <2>1, <2>2, <2>3, Zenon
  <2> QED
    BY <1>1, <2>4
<1>3. \A n \in T : n \in Nat
  OBVIOUS
<1> QED
  BY <1>2, <1>3

\* A set with zero and the successors of its numbers has all of them.
LEMMA NatIsLeast ==
  ASSUME NEW T, 0 \in T, \A n \in Nat : n \in T => n + 1 \in T
  PROVE  Nat \subseteq T
<1> SUFFICES ASSUME Nat \ T # {}
             PROVE  FALSE
  OBVIOUS
<1>1. PICK m \in Nat \ T : \A n \in Nat \ T : m <= n
  <2>1. Nat \ T \in SUBSET Nat
    OBVIOUS
  <2> QED
    BY <2>1, LeastNatural
<1>2. m # 0 /\ m - 1 \in Nat
  BY <1>1
<1>3. m - 1 \in T
  BY <1>1, <1>2
<1>4. (m - 1) + 1 \in T
  BY <1>2, <1>3
<1> QED
  BY <1>1, <1>4

-----------------------------------------------------------------------------
(* The least and the greatest of a finite set of numbers.                  *)

\* Finitely many numbers have a least and a greatest.
LEMMA MinMaxOfFinite ==
  ASSUME NEW I \in SUBSET Int, IsFiniteSet(I), I # {}
  PROVE  /\ Min(I) \in I /\ \A i \in I : Min(I) <= i
         /\ Max(I) \in I /\ \A i \in I : i <= Max(I)
<1> DEFINE n == Cardinality(I)
           p == Positions(I, [i \in I |-> i])
<1>1. /\ n \in Nat
      /\ p \in [1..n -> I]
      /\ \A i \in I : \E k \in 1..n : p[k] = i
      /\ \A k, l \in 1..n : k < l => p[k] < p[l]
  BY AscendingPositions
<1>2. n >= 1
  <2>1. n # 0
    BY FS_EmptySet
  <2> QED
    BY <1>1, <2>1
<1>3. n \in Nat /\ 1 \in 1..n /\ n \in 1..n
  BY <1>1, <1>2 DEF n
<1>4. p[1] \in I /\ p[n] \in I
  BY <1>1, <1>3 DEF n
<1>5. ASSUME NEW i \in I
      PROVE  p[1] <= i /\ i <= p[n]
  <2>1. PICK k \in 1..n : p[k] = i
    BY <1>1 DEF n
  <2>2. /\ k = 1 \/ 1 < k
        /\ k = n \/ k < n
    BY <1>3
  <2>3. /\ 1 < k => p[1] < p[k]
        /\ k < n => p[k] < p[n]
    BY <1>1, <1>3
  <2>4. p[1] \in Int /\ p[n] \in Int /\ i \in Int
    BY <1>4
  <2> QED
    BY <2>1, <2>2, <2>3, <2>4
<1>6. Min(I) \in I /\ \A i \in I : Min(I) <= i
  BY <1>4, <1>5 DEF Min
<1>7. Max(I) \in I /\ \A i \in I : i <= Max(I)
  <2>1. \A i \in I : p[n] >= i
    BY <1>4, <1>5
  <2>2. Max(I) \in I /\ \A i \in I : Max(I) >= i
    BY <1>4, <2>1 DEF Max
  <2> QED
    BY <2>2
<1> QED
  BY <1>6, <1>7

-----------------------------------------------------------------------------
(* Folds and concatenations.                                               *)

\* result is computed from base by taking the elements of seq one by one.
Accumulates(op(_, _), base, seq, result) ==
  \E f : /\ f[0] = base
         /\ \A i \in 1..Len(seq) : f[i] = op(f[i - 1], seq[i])
         /\ result = f[Len(seq)]

\* FoldLeft does what its comment says.  Its definition is a recursive function
\* on the sets of positions; that there is one is shown for the first m
\* positions by induction.
LEMMA FoldLeftAccumulates ==
  ASSUME NEW op(_, _), NEW base, NEW S, NEW seq \in Seq(S)
  PROVE  Accumulates(op, base, seq, FoldLeft(op, base, seq))
<1> DEFINE Folds(m, g) ==
             g = [s \in SUBSET (1..m) |-> IF s = {} THEN base
                                         ELSE op(g[s \ {Max(s)}], seq[Max(s)])]
           T == {m \in Nat : \E g : Folds(m, g)}
<1>1. 0 \in T
  <2> DEFINE g == [s \in SUBSET (1..0) |-> base]
  <2>1. Folds(0, g)
    OBVIOUS
  <2> QED
    BY <2>1
<1>2. ASSUME NEW m \in Nat, m \in T
      PROVE  m + 1 \in T
  <2>1. PICK g : Folds(m, g)
    BY <1>2
  <2> DEFINE h == [s \in SUBSET (1..(m + 1)) |->
                     IF m + 1 \in s THEN op(g[s \ {m + 1}], seq[m + 1]) ELSE g[s]]
  <2>2. ASSUME NEW s \in SUBSET (1..(m + 1)), s # {}
        PROVE  h[s] = op(h[s \ {Max(s)}], seq[Max(s)])
    <3>1. /\ Max(s) \in s /\ \A i \in s : i <= Max(s)
      <4>1. s \in SUBSET Int /\ IsFiniteSet(s)
        <5>1. 1 \in Int /\ m + 1 \in Int
          OBVIOUS
        <5>2. IsFiniteSet(1..(m + 1))
          BY <5>1, FS_Interval
        <5>3. IsFiniteSet(s)
          BY <5>2, FS_Subset
        <5> QED
          BY <5>3
      <4> QED
        BY <2>2, <4>1, MinMaxOfFinite
    <3>2. CASE m + 1 \in s
      <4>1. Max(s) = m + 1
        <5>1. Max(s) \in 1..(m + 1) /\ m + 1 <= Max(s)
          BY <3>1, <3>2
        <5> QED
          BY <5>1
      <4>2. s \ {m + 1} \in SUBSET (1..(m + 1)) /\ m + 1 \notin s \ {m + 1}
        OBVIOUS
      <4>3. h[s \ {m + 1}] = g[s \ {m + 1}]
        BY <4>2
      <4> QED
        BY <3>2, <4>1, <4>3
    <3>3. CASE m + 1 \notin s
      <4>1. s \in SUBSET (1..m)
        BY <3>3
      <4>2. s \ {Max(s)} \in SUBSET (1..(m + 1)) /\ m + 1 \notin s \ {Max(s)}
        BY <3>3
      <4>3. h[s] = g[s] /\ h[s \ {Max(s)}] = g[s \ {Max(s)}]
        BY <3>3, <4>2
      <4>4. g[s] = op(g[s \ {Max(s)}], seq[Max(s)])
        BY <2>1, <2>2, <4>1
      <4> QED
        BY <4>3, <4>4
    <3> QED
      BY <3>2, <3>3
  <2>3. h[{}] = base
    BY <2>1
  <2>4. Folds(m + 1, h)
    <3> HIDE DEF h
    <3>1. h = [s \in SUBSET (1..(m + 1)) |-> h[s]]
      BY DEF h
    <3> QED
      BY <2>2, <2>3, <3>1
  <2> HIDE DEF Folds, h
  <2> QED
    BY <2>4
<1>3. Len(seq) \in Nat /\ DOMAIN seq = 1..Len(seq)
  OBVIOUS
<1>4. PICK g : Folds(Len(seq), g)
  <2> HIDE DEF T
  <2>1. Len(seq) \in T
    BY <1>1, <1>2, <1>3, NatIsLeast
  <2> QED
    BY <2>1 DEF T
<1> DEFINE iter == CHOOSE iter : Folds(Len(seq), iter)
<1>5. Folds(Len(seq), iter)
  BY <1>4
<1>6. FoldLeft(op, base, seq) = iter[1..Len(seq)]
  BY <1>3 DEF FoldLeft, MapThenFoldSet
<1> HIDE DEF iter
<1> DEFINE f == [i \in 0..Len(seq) |-> iter[1..i]]
<1>7. f[0] = base
  BY <1>3, <1>5
<1>8. ASSUME NEW i \in 1..Len(seq)
      PROVE  f[i] = op(f[i - 1], seq[i])
  <2>1. 1..i \in SUBSET (1..Len(seq)) /\ 1..i # {}
    BY <1>3
  <2>2. Max(1..i) = i
    <3>1. /\ Max(1..i) \in 1..i /\ \A j \in 1..i : j <= Max(1..i)
      <4>1. 1 \in Int /\ i \in Int
        BY <1>3
      <4>2. IsFiniteSet(1..i)
        BY <4>1, FS_Interval
      <4>3. 1..i \in SUBSET Int
        OBVIOUS
      <4> QED
        BY <2>1, <4>2, <4>3, MinMaxOfFinite
    <3> QED
      BY <3>1
  <2>3. (1..i) \ {i} = 1..(i - 1)
    BY <1>3
  <2>4. iter[1..i] = op(iter[(1..i) \ {Max(1..i)}], seq[Max(1..i)])
    BY <1>5, <2>1
  <2> QED
    BY <1>3, <2>2, <2>3, <2>4
<1>9. FoldLeft(op, base, seq) = f[Len(seq)]
  BY <1>3, <1>6
<1> HIDE DEF f
<1> QED
  BY <1>7, <1>8, <1>9 DEF Accumulates

\* The running results of op on seq, where the first element is the first result.
Running(op(_, _), seq) ==
  LET c[i \in 1..Len(seq)] == IF i = 1 THEN seq[i] ELSE op(c[i - 1], seq[i])
  IN  c[Len(seq)]

\* base may come before seq.
StartsWith(op(_, _), base, seq) == op(base, seq[1]) = seq[1]

\* They are what is computed from a base that the first element replaces.
LEMMA RunningAccumulates ==
  ASSUME NEW op(_, _), NEW base, NEW S, NEW seq \in Seq(S), seq # <<>>,
         StartsWith(op, base, seq)
  PROVE  Accumulates(op, base, seq, Running(op, seq))
<1> DEFINE n == Len(seq)
           Runs(m, c) == c = [i \in 1..m |-> IF i = 1 THEN seq[i] ELSE op(c[i - 1], seq[i])]
           T == {m \in Nat : \E c : Runs(m, c)}
<1>1. n \in Nat /\ n >= 1
  OBVIOUS
<1>2. Running(op, seq) = (CHOOSE c : Runs(n, c))[n]
  BY DEF Running
<1> HIDE DEF n
<1>3. 0 \in T
  <2> DEFINE c == [i \in 1..0 |-> base]
  <2>1. Runs(0, c)
    OBVIOUS
  <2> HIDE DEF c, Runs
  <2> QED
    BY <2>1
<1>4. ASSUME NEW m \in Nat, m \in T
      PROVE  m + 1 \in T
  <2>1. PICK c : Runs(m, c)
    BY <1>4
  <2> DEFINE x == IF m = 0 THEN seq[1] ELSE op(c[m], seq[m + 1])
             d == [i \in 1..(m + 1) |-> IF i = m + 1 THEN x ELSE c[i]]
  <2>2. ASSUME NEW i \in 1..(m + 1)
        PROVE  d[i] = IF i = 1 THEN seq[i] ELSE op(d[i - 1], seq[i])
    <3>1. CASE i = m + 1
      <4>1. d[i] = x
        BY <3>1
      <4>2. CASE m = 0
        BY <3>1, <4>1, <4>2
      <4>3. CASE m # 0
        <5>1. m \in 1..(m + 1) /\ m # m + 1 /\ i - 1 = m
          BY <3>1, <4>3
        <5>2. d[m] = c[m]
          BY <5>1
        <5> QED
          BY <3>1, <4>1, <4>3, <5>1, <5>2
      <4> QED
        BY <4>2, <4>3
    <3>2. CASE i # m + 1
      <4>1. i \in 1..m /\ i - 1 # m + 1 /\ (i # 1 => i - 1 \in 1..(m + 1))
        BY <3>2
      <4>2. c[i] = IF i = 1 THEN seq[i] ELSE op(c[i - 1], seq[i])
        BY <2>1, <4>1
      <4>3. d[i] = c[i] /\ (i # 1 => d[i - 1] = c[i - 1])
        BY <3>2, <4>1
      <4> QED
        BY <4>2, <4>3
    <3> QED
      BY <3>1, <3>2
  <2>3. Runs(m + 1, d)
    <3> HIDE DEF x
    <3> QED
      BY <2>2
  <2> HIDE DEF d, Runs
  <2> QED
    BY <2>3
<1>5. PICK c : Runs(n, c)
  <2> HIDE DEF T
  <2>1. n \in T
    BY <1>1, <1>3, <1>4, NatIsLeast
  <2> QED
    BY <2>1 DEF T
<1> DEFINE r == CHOOSE h : Runs(n, h)
<1>6. Runs(n, r)
  BY <1>5
<1> HIDE DEF r
<1> DEFINE f == [i \in 0..n |-> IF i = 0 THEN base ELSE r[i]]
<1>7. f[0] = base
  BY <1>1
<1>8. ASSUME NEW i \in 1..n
      PROVE  f[i] = op(f[i - 1], seq[i])
  <2>1. f[i] = r[i] /\ f[i - 1] = IF i = 1 THEN base ELSE r[i - 1]
    BY <1>1
  <2>2. r[i] = IF i = 1 THEN seq[i] ELSE op(r[i - 1], seq[i])
    BY <1>6
  <2> QED
    BY <2>1, <2>2 DEF StartsWith
<1>9. Running(op, seq) = f[n]
  BY <1>1, <1>2 DEF r
<1> HIDE DEF f
<1> QED
  BY <1>7, <1>8, <1>9 DEF Accumulates, n

\* FlattenSeq concatenates the sequences one by one.
LEMMA FlattenAccumulates ==
  ASSUME NEW S, NEW seqs \in Seq(Seq(S))
  PROVE  Accumulates(\o, <<>>, seqs, FlattenSeq(seqs))
<1>1. CASE seqs = <<>>
  <2> DEFINE f == [i \in 0..0 |-> <<>>]
  <2>1. FlattenSeq(seqs) = <<>>
    BY <1>1 DEF FlattenSeq
  <2>2. f[0] = <<>>
    OBVIOUS
  <2> HIDE DEF f
  <2>3. Len(seqs) = 0
    BY <1>1
  <2> QED
    BY <2>1, <2>2, <2>3 DEF Accumulates
<1>2. CASE seqs # <<>>
  <2>1. Len(seqs) # 0 /\ seqs[1] \in Seq(S)
    BY <1>2
  <2>2. FlattenSeq(seqs) = Running(\o, seqs)
    BY <2>1 DEF FlattenSeq, Running
  <2>3. StartsWith(\o, <<>>, seqs)
    BY <2>1, ConcatEmptySeq DEF StartsWith
  <2>4. Accumulates(\o, <<>>, seqs, Running(\o, seqs))
    BY <1>2, <2>3, RunningAccumulates, Zenon
  <2> QED
    BY <2>2, <2>4
<1> QED
  BY <1>1, <1>2

\* c is made of the elements of the first m sequences, those of a sequence
\* before those of the next: c[k] comes from the sequence q[k].
Blocks(S, seqs, m, c, q) ==
  /\ c \in Seq(S)
  /\ q \in [1..Len(c) -> 1..m]
  /\ \A k \in 1..Len(c) : \E j \in 1..Len(seqs[q[k]]) : c[k] = seqs[q[k]][j]
  /\ \A k, l \in 1..Len(c) : k < l => q[k] <= q[l]
  /\ \A i \in 1..m : \A j \in 1..Len(seqs[i]) :
       \E k \in 1..Len(c) : q[k] = i /\ c[k] = seqs[i][j]

\* One more sequence is one more block.
LEMMA BlocksGrow ==
  ASSUME NEW S, NEW seqs \in Seq(Seq(S)), NEW m \in Nat, m + 1 <= Len(seqs),
         NEW c, NEW q, Blocks(S, seqs, m, c, q)
  PROVE  \E r : Blocks(S, seqs, m + 1, c \o seqs[m + 1], r)
<1> DEFINE s == seqs[m + 1]
           d == c \o s
           r == [k \in 1..Len(d) |-> IF k <= Len(c) THEN q[k] ELSE m + 1]
<1>1. c \in Seq(S) /\ s \in Seq(S) /\ q \in [1..Len(c) -> 1..m]
  BY DEF Blocks
<1>2. /\ Len(c) \in Nat /\ Len(s) \in Nat
      /\ d \in Seq(S) /\ Len(d) = Len(c) + Len(s)
      /\ \A k \in 1..Len(c) : d[k] = c[k]
      /\ \A j \in 1..Len(s) : d[Len(c) + j] = s[j]
  BY <1>1
<1> HIDE DEF d
<1>3. ASSUME NEW k \in 1..Len(d)
      PROVE  /\ k <= Len(c) => k \in 1..Len(c) /\ r[k] = q[k] /\ q[k] \in 1..m
             /\ ~(k <= Len(c)) => k - Len(c) \in 1..Len(s) /\ r[k] = m + 1
  <2>1. r[k] = IF k <= Len(c) THEN q[k] ELSE m + 1
    OBVIOUS
  <2> HIDE DEF r, s
  <2>2. k <= Len(c) => k \in 1..Len(c)
    BY <1>2
  <2>3. k <= Len(c) => q[k] \in 1..m
    BY <1>1, <2>2
  <2>4. ~(k <= Len(c)) => k - Len(c) \in 1..Len(s)
    BY <1>2
  <2> QED
    BY <2>1, <2>2, <2>3, <2>4
<1>4. r \in [1..Len(d) -> 1..(m + 1)]
  <2> SUFFICES ASSUME NEW k \in 1..Len(d)
               PROVE  r[k] \in 1..(m + 1)
    OBVIOUS
  <2> QED
    BY <1>3
<1> HIDE DEF r
<1>5. ASSUME NEW k \in 1..Len(d)
      PROVE  \E j \in 1..Len(seqs[r[k]]) : d[k] = seqs[r[k]][j]
  <2>1. CASE k <= Len(c)
    <3>1. k \in 1..Len(c) /\ r[k] = q[k] /\ d[k] = c[k]
      BY <1>2, <1>3, <2>1
    <3>2. \E j \in 1..Len(seqs[q[k]]) : c[k] = seqs[q[k]][j]
      BY <3>1 DEF Blocks
    <3> HIDE DEF s
    <3> QED
      BY <3>1, <3>2
  <2>2. CASE ~(k <= Len(c))
    <3> DEFINE j == k - Len(c)
    <3>1. j \in 1..Len(s) /\ r[k] = m + 1
      BY <1>3, <2>2
    <3>2. Len(c) + j = k
      BY <1>2
    <3>3. d[k] = s[j]
      BY <1>2, <3>1, <3>2
    <3> QED
      BY <3>1, <3>3
  <2> QED
    BY <2>1, <2>2
<1>6. ASSUME NEW k \in 1..Len(d), NEW l \in 1..Len(d), k < l
      PROVE  r[k] <= r[l]
  <2>1. CASE l <= Len(c)
    <3>1. k <= Len(c)
      BY <1>2, <1>6, <2>1
    <3>2. q[k] <= q[l]
      BY <1>3, <1>6, <2>1, <3>1 DEF Blocks
    <3> QED
      BY <1>3, <2>1, <3>1, <3>2
  <2>2. CASE ~(l <= Len(c))
    <3>1. r[l] = m + 1 /\ r[k] \in 1..(m + 1)
      BY <1>3, <1>4, <2>2
    <3> QED
      BY <3>1
  <2> QED
    BY <2>1, <2>2
<1>7. ASSUME NEW i \in 1..(m + 1), NEW j \in 1..Len(seqs[i])
      PROVE  \E k \in 1..Len(d) : r[k] = i /\ d[k] = seqs[i][j]
  <2>1. CASE i = m + 1
    <3> DEFINE k == Len(c) + j
    <3>1. j \in 1..Len(s)
      BY <2>1
    <3>2. k \in 1..Len(d) /\ ~(k <= Len(c))
      BY <1>2, <3>1
    <3>3. r[k] = i
      BY <1>3, <2>1, <3>2
    <3>4. d[k] = s[j]
      BY <1>2, <3>1
    <3> QED
      BY <2>1, <3>2, <3>3, <3>4
  <2>2. CASE i # m + 1
    <3>1. i \in 1..m
      BY <2>2
    <3>2. PICK k \in 1..Len(c) : q[k] = i /\ c[k] = seqs[i][j]
      BY <3>1 DEF Blocks
    <3>3. k \in 1..Len(d) /\ k <= Len(c)
      BY <1>2
    <3> QED
      BY <1>2, <1>3, <3>2, <3>3
  <2> QED
    BY <2>1, <2>2
<1>8. Blocks(S, seqs, m + 1, d, r)
  BY <1>2, <1>4, <1>5, <1>6, <1>7 DEF Blocks
<1> QED
  BY <1>8 DEF d

\* FlattenSeq returns the elements of its sequences, sequence after sequence.
LEMMA FlattenBlocks ==
  ASSUME NEW S, NEW seqs \in Seq(Seq(S))
  PROVE  \E q : Blocks(S, seqs, Len(seqs), FlattenSeq(seqs), q)
<1>1. PICK f : /\ f[0] = <<>>
               /\ \A i \in 1..Len(seqs) : f[i] = f[i - 1] \o seqs[i]
               /\ FlattenSeq(seqs) = f[Len(seqs)]
  BY FlattenAccumulates DEF Accumulates
<1> DEFINE T == {m \in Nat : m <= Len(seqs) => \E q : Blocks(S, seqs, m, f[m], q)}
<1>2. 0 \in T
  <2>1. Blocks(S, seqs, 0, <<>>, <<>>)
    BY DEF Blocks
  <2> QED
    BY <1>1, <2>1
<1>3. ASSUME NEW m \in Nat, m \in T
      PROVE  m + 1 \in T
  <2> SUFFICES ASSUME m + 1 <= Len(seqs)
               PROVE  \E q : Blocks(S, seqs, m + 1, f[m + 1], q)
    OBVIOUS
  <2>1. m <= Len(seqs) /\ m + 1 \in 1..Len(seqs) /\ (m + 1) - 1 = m
    OBVIOUS
  <2>2. PICK q : Blocks(S, seqs, m, f[m], q)
    BY <1>3, <2>1
  <2>3. f[m + 1] = f[m] \o seqs[m + 1]
    <3>1. f[m + 1] = f[(m + 1) - 1] \o seqs[m + 1]
      BY <1>1, <2>1
    <3> QED
      BY <2>1, <3>1
  <2> QED
    BY <2>2, <2>3, BlocksGrow
<1>4. Len(seqs) \in Nat
  OBVIOUS
<1>5. Len(seqs) \in T
  <2> HIDE DEF T
  <2> QED
    BY <1>2, <1>3, <1>4, NatIsLeast
<1> QED
  BY <1>1, <1>4, <1>5
=============================================================================
