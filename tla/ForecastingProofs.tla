-------------------------- MODULE ForecastingProofs --------------------------
(***************************************************************************)
(* What the series of a bill shows, which months its forecast is for, how  *)
(* few of its months are anomalies, what a client is served and when what  *)
(* is stored is replaced: for any bills, reviews, horizon, settings and    *)
(* answers of Prophet.                                                     *)
(***************************************************************************)
EXTENDS Forecasting, SequenceFacts

-----------------------------------------------------------------------------
(* Sums.                                                                   *)

\* g sums the first n elements of y.
Sums(y, m, g) == g = [n \in 0..m |-> IF n = 0 THEN 0 ELSE g[n - 1] + y[n]]

\* Total adds the elements one by one.
LEMMA TotalAdds ==
  ASSUME NEW y \in Seq(Int)
  PROVE  \E g : /\ g \in [0..Len(y) -> Int]
                /\ g[0] = 0
                /\ \A i \in 1..Len(y) : g[i] = g[i - 1] + y[i]
                /\ Total(y) = g[Len(y)]
<1> DEFINE T == {m \in Nat : \E g : Sums(y, m, g)}
           n == Len(y)
           sum == CHOOSE g : Sums(y, n, g)
<1>1. n \in Nat /\ \A i \in 1..n : y[i] \in Int
  OBVIOUS
<1>2. Total(y) = sum[n]
  BY DEF Total, Sums
<1>3. 0 \in T
  <2> DEFINE g == [i \in 0..0 |-> 0]
  <2>1. g = [i \in 0..0 |-> IF i = 0 THEN 0 ELSE g[i - 1] + y[i]]
    OBVIOUS
  <2> QED
    BY <2>1 DEF Sums
<1>4. ASSUME NEW m \in Nat, m \in T
      PROVE  m + 1 \in T
  <2>1. PICK g : g = [i \in 0..m |-> IF i = 0 THEN 0 ELSE g[i - 1] + y[i]]
    BY <1>4 DEF Sums
  <2> DEFINE x == g[m] + y[m + 1]
             h == [i \in 0..(m + 1) |-> IF i = m + 1 THEN x ELSE g[i]]
             k == [i \in 0..(m + 1) |-> IF i = 0 THEN 0 ELSE h[i - 1] + y[i]]
  <2>2. ASSUME NEW i \in 0..(m + 1)
        PROVE  h[i] = k[i]
    <3>1. CASE i = m + 1
      <4>1. i # 0 /\ i - 1 = m /\ m \in 0..(m + 1) /\ m # m + 1
        BY <3>1
      <4>2. h[m] = g[m]
        BY <4>1
      <4> HIDE DEF h
      <4>3. k[i] = h[m] + y[m + 1]
        BY <3>1, <4>1
      <4> QED
        BY <3>1, <4>2, <4>3 DEF h
    <3>2. CASE i = 0
      <4>1. i # m + 1 /\ g[i] = 0
        BY <3>2, <2>1
      <4> QED
        BY <3>2, <4>1
    <3>3. CASE i # 0 /\ i # m + 1
      <4>1. i \in 0..m /\ i - 1 \in 0..(m + 1) /\ i - 1 # m + 1
        BY <3>3
      <4>2. g[i] = g[i - 1] + y[i]
        BY <3>3, <4>1, <2>1
      <4>3. h[i] = g[i] /\ h[i - 1] = g[i - 1]
        BY <3>3, <4>1
      <4> HIDE DEF h
      <4>4. k[i] = h[i - 1] + y[i]
        BY <3>3
      <4> QED
        BY <4>2, <4>3, <4>4
    <3> QED
      BY <3>1, <3>2, <3>3
  <2>3. h = k
    <3> HIDE DEF x
    <3>1. DOMAIN h = DOMAIN k
      OBVIOUS
    <3> QED
      BY <2>2, <3>1
  <2> HIDE DEF h
  <2>4. Sums(y, m + 1, h)
    BY <2>3 DEF Sums
  <2> QED
    BY <2>4
<1> HIDE DEF T
<1>5. n \in T
  BY <1>1, <1>3, <1>4, NatIsLeast
<1>6. Sums(y, n, sum)
  BY <1>5 DEF T
<1> HIDE DEF sum
<1>7. sum = [i \in 0..n |-> IF i = 0 THEN 0 ELSE sum[i - 1] + y[i]]
  BY <1>6 DEF Sums
<1>8. sum[0] = 0 /\ \A i \in 1..n : sum[i] = sum[i - 1] + y[i]
  <2>1. 0 \in 0..n /\ \A i \in 1..n : i \in 0..n /\ i # 0
    BY <1>1
  <2> QED
    BY <1>7, <2>1
<1> DEFINE U == {m \in Nat : m <= n => sum[m] \in Int}
<1>9. 0 \in U
  BY <1>8
<1>10. ASSUME NEW m \in Nat, m \in U
       PROVE  m + 1 \in U
  <2> SUFFICES ASSUME m + 1 <= n
               PROVE  sum[m + 1] \in Int
    OBVIOUS
  <2>1. m <= n /\ m + 1 \in 1..n /\ (m + 1) - 1 = m
    BY <1>1
  <2>2. sum[m] \in Int /\ y[m + 1] \in Int
    BY <1>1, <1>10, <2>1
  <2>3. sum[m + 1] = sum[m] + y[m + 1]
    BY <1>8, <2>1
  <2> QED
    BY <2>2, <2>3
<1> HIDE DEF U
<1>11. Nat \subseteq U
  BY <1>9, <1>10, NatIsLeast
<1>12. \A i \in 0..n : sum[i] \in Int
  BY <1>1, <1>11 DEF U
<1>13. sum \in [0..n -> Int]
  BY <1>7, <1>12
<1> QED
  BY <1>2, <1>8, <1>13

\* The elements of a sequence of integers.
LEMMA ElementsAreInts ==
  ASSUME NEW y \in Seq(Int)
  PROVE  DOMAIN y = 1..Len(y) /\ \A i \in 1..Len(y) : y[i] \in Int
  OBVIOUS

\* Sums of integers are integers.
LEMMA TotalIsInt ==
  ASSUME NEW y \in Seq(Int)
  PROVE  Total(y) \in Int
<1>1. PICK g \in [0..Len(y) -> Int] : Total(y) = g[Len(y)]
  BY TotalAdds
<1> QED
  BY <1>1

-----------------------------------------------------------------------------
(* The series.                                                             *)

Candidate == [month : Int, kwh : Nat \ {0}, days : Int \cup {None}, precedence : 0..3]

\* What the bills say is what a review may say.
Reviewed(bills) == \A c \in Bill : bills[c].data \in Data

\* What a review says is made of candidates of one precedence.
LEMMA SaidIsCandidate ==
  ASSUME NEW d \in Data, NEW p \in 0..3
  PROVE  /\ MainOf(d, p) \in Seq(Candidate) /\ HistoryOf(d, p) \in Seq(Candidate)
         /\ \A i \in DOMAIN MainOf(d, p) : MainOf(d, p)[i].precedence = p
         /\ \A i \in DOMAIN HistoryOf(d, p) : HistoryOf(d, p)[i].precedence = p
<1>1. /\ d.month \in Int \cup {None} /\ d.kwh \in (Nat \ {0}) \cup {None}
      /\ d.days \in Int \cup {None} /\ d.history \in Seq(Figure)
  BY DEF Data
<1>2. ASSUME NEW f, f.month \in Int, f.kwh \in Nat \ {0}, f.days \in Int \cup {None}
      PROVE  Point(f, p) \in Candidate /\ Point(f, p).precedence = p
  BY <1>2 DEF Point, Candidate
<1>3. MainOf(d, p) \in Seq(Candidate) /\ \A i \in DOMAIN MainOf(d, p) : MainOf(d, p)[i].precedence = p
  <2>1. CASE d.month # None /\ d.kwh # None
    <3> DEFINE x == Point(d, p)
    <3>1. x \in Candidate /\ x.precedence = p
      BY <1>1, <1>2, <2>1
    <3>2. MainOf(d, p) = <<x>>
      BY <2>1 DEF MainOf
    <3> HIDE DEF x
    <3> QED
      BY <3>1, <3>2
  <2>2. CASE ~(d.month # None /\ d.kwh # None)
    BY <2>2 DEF MainOf
  <2> QED
    BY <2>1, <2>2
<1>4. HistoryOf(d, p) \in Seq(Candidate) /\ \A i \in DOMAIN HistoryOf(d, p) : HistoryOf(d, p)[i].precedence = p
  <2> DEFINE h == d.history
             g == HistoryOf(d, p)
  <2>1. Len(h) \in Nat /\ DOMAIN h = 1..Len(h) /\ \A i \in DOMAIN h : h[i] \in Figure
    BY <1>1
  <2>2. \A f \in Figure : f.month \in Int /\ f.kwh \in Nat \ {0} /\ f.days \in Int \cup {None}
    BY DEF Figure
  <2>3. \A i \in DOMAIN h : Point(h[i], p) \in Candidate /\ Point(h[i], p).precedence = p
    BY <1>2, <2>1, <2>2
  <2>4. g = [i \in DOMAIN h |-> Point(h[i], p)]
    BY DEF HistoryOf
  <2> HIDE DEF h, g
  <2>5. g \in [1..Len(h) -> Candidate]
    BY <2>1, <2>3, <2>4
  <2>6. g \in Seq(Candidate)
    BY <2>1, <2>5
  <2> QED
    BY <2>3, <2>4, <2>6 DEF g
<1> QED
  BY <1>3, <1>4

\* The candidates that bill b offers of its own, and those of another bill.
Own(bills, b)   == MainOf(bills[b].data, 0) \o HistoryOf(bills[b].data, 1)
Other(bills, c) == MainOf(bills[c].data, 2) \o HistoryOf(bills[c].data, 3)
Others(bills, b) == {i \in DOMAIN Newest : /\ Newest[i] # b
                                           /\ bills[Newest[i]].status = "confirmed"}

\* Two sequences one after the other: candidates, first those of the one.
LEMMA Joined ==
  ASSUME NEW S, NEW x \in Seq(S), NEW y \in Seq(S)
  PROVE  /\ x \o y \in Seq(S) /\ Len(x \o y) = Len(x) + Len(y)
         /\ \A k \in 1..Len(x) : (x \o y)[k] = x[k]
         /\ \A k \in 1..Len(y) : (x \o y)[Len(x) + k] = y[k]
         /\ Range(x \o y) = Range(x) \cup Range(y)
<1> DEFINE z == x \o y
           m == Len(x)
           n == Len(y)
<1>1. /\ z \in Seq(S) /\ Len(z) = m + n /\ m \in Nat /\ n \in Nat
      /\ DOMAIN z = 1..(m + n) /\ DOMAIN x = 1..m /\ DOMAIN y = 1..n
      /\ \A k \in 1..m : z[k] = x[k]
      /\ \A k \in 1..n : z[m + k] = y[k]
  OBVIOUS
<1> HIDE DEF z, m, n
<1>2. Range(z) = Range(x) \cup Range(y)
  <2>1. ASSUME NEW k \in 1..(m + n)
        PROVE  z[k] \in Range(x) \cup Range(y)
    <3>1. CASE k <= m
      BY <1>1, <3>1 DEF Range
    <3>2. CASE ~(k <= m)
      <4>1. k - m \in 1..n /\ m + (k - m) = k
        BY <1>1, <3>2
      <4>2. z[k] = y[k - m]
        BY <1>1, <4>1
      <4> QED
        BY <1>1, <4>1, <4>2 DEF Range
    <3> QED
      BY <3>1, <3>2
  <2>2. \A k \in 1..m : k \in 1..(m + n)
    BY <1>1
  <2>3. \A k \in 1..n : m + k \in 1..(m + n)
    BY <1>1
  <2> QED
    BY <1>1, <2>1, <2>2, <2>3 DEF Range
<1> QED
  BY <1>1, <1>2 DEF z, m, n

\* Where each candidate comes from: 0 is the bill itself, i the i-th newest.
From(bills, b, cs, src) ==
  LET I == Others(bills, b) IN
  /\ cs \in Seq(Candidate)
  /\ src \in [1..Len(cs) -> {0} \cup I]
  /\ \A k \in 1..Len(cs) : IF src[k] = 0 THEN cs[k] \in Range(Own(bills, b))
                           ELSE cs[k] \in Range(Other(bills, Newest[src[k]]))
  /\ \A k, l \in 1..Len(cs) : k < l => src[k] <= src[l]
  /\ \A x \in Range(Own(bills, b)) : \E k \in 1..Len(cs) : src[k] = 0 /\ cs[k] = x
  /\ \A i \in I : \A x \in Range(Other(bills, Newest[i])) :
       \E k \in 1..Len(cs) : src[k] = i /\ cs[k] = x

\* The candidates are those of the bill and then those of the other confirmed
\* bills, the newer first.
LEMMA CandidatesFrom ==
  ASSUME NEW bills, Reviewed(bills), NEW b \in Bill
  PROVE  \E src : From(bills, b, Candidates(bills, b), src)
<1> DEFINE I == Others(bills, b)
           own == Own(bills, b)
           others == Only(Newest, I)
           n == Cardinality(I)
           seqs == [k \in 1..n |-> Other(bills, others[k])]
           rest == FlattenSeq(seqs)
           cs == Candidates(bills, b)
           n0 == Len(own)
<1>1. I \in SUBSET DOMAIN Newest /\ Newest \in Seq(Bill)
  BY ReviewAssumption DEF Others
<1>2. I \in SUBSET Int /\ IsFiniteSet(I) /\ \A i \in I : i > 0 /\ Newest[i] \in Bill
  <2>1. I \in SUBSET Int /\ IsFiniteSet(I)
    BY <1>1, PositionsAreFinite
  <2>2. \A i \in DOMAIN Newest : i > 0 /\ Newest[i] \in Bill
    BY <1>1
  <2> QED
    BY <1>1, <2>1, <2>2
<1>3. \A c \in Bill : Other(bills, c) \in Seq(Candidate)
  <2> SUFFICES ASSUME NEW c \in Bill
               PROVE  Other(bills, c) \in Seq(Candidate)
    OBVIOUS
  <2>1. bills[c].data \in Data /\ 2 \in 0..3 /\ 3 \in 0..3
    BY DEF Reviewed
  <2>2. MainOf(bills[c].data, 2) \in Seq(Candidate) /\ HistoryOf(bills[c].data, 3) \in Seq(Candidate)
    BY <2>1, SaidIsCandidate
  <2> QED
    BY <2>2, Joined DEF Other
<1>4. own \in Seq(Candidate)
  <2>1. bills[b].data \in Data /\ 0 \in 0..3 /\ 1 \in 0..3
    BY DEF Reviewed
  <2>2. MainOf(bills[b].data, 0) \in Seq(Candidate) /\ HistoryOf(bills[b].data, 1) \in Seq(Candidate)
    BY <2>1, SaidIsCandidate
  <2> QED
    BY <2>2, Joined DEF Own
<1> HIDE DEF I
<1>5. PICK p : /\ Cardinality(I) \in Nat
               /\ p \in [1..Cardinality(I) -> I]
               /\ \A i \in I : \E k \in 1..Cardinality(I) : p[k] = i
               /\ \A k, l \in 1..Cardinality(I) : k < l => p[k] < p[l]
               /\ others = [k \in 1..Cardinality(I) |-> Newest[p[k]]]
  BY <1>2, OnlyIsSelection, Zenon
<1>6. cs = own \o rest
  <2>1. DOMAIN others = 1..n
    BY <1>5
  <2>2. cs = own \o FlattenSeq([k \in DOMAIN others |-> Other(bills, others[k])])
    BY DEF Candidates, Own, Other, Others, I
  <2> HIDE DEF others, own
  <2> QED
    BY <2>1, <2>2
<1>7. /\ Len(seqs) = n /\ n \in Nat
      /\ \A k \in 1..n : seqs[k] = Other(bills, Newest[p[k]]) /\ p[k] \in I
  BY <1>5
<1>8. seqs \in Seq(Seq(Candidate))
  <2>1. \A k \in 1..n : Other(bills, others[k]) \in Seq(Candidate)
    BY <1>2, <1>3, <1>5
  <2> HIDE DEF others
  <2> QED
    BY <1>7, <2>1
<1> HIDE DEF others, seqs, own, cs
<1>9. PICK q : Blocks(Candidate, seqs, Len(seqs), FlattenSeq(seqs), q)
  BY <1>8, FlattenBlocks, Zenon
<1>10. /\ rest \in Seq(Candidate) /\ Len(rest) \in Nat
       /\ q \in [1..Len(rest) -> 1..n]
       /\ \A k \in 1..Len(rest) : \E j \in 1..Len(seqs[q[k]]) : rest[k] = seqs[q[k]][j]
       /\ \A k, l \in 1..Len(rest) : k < l => q[k] <= q[l]
       /\ \A i \in 1..n : \A j \in 1..Len(seqs[i]) :
            \E k \in 1..Len(rest) : q[k] = i /\ rest[k] = seqs[i][j]
  BY <1>7, <1>9 DEF Blocks
<1> DEFINE r == Len(rest)
<1> HIDE DEF rest, n0
<1>11. /\ cs \in Seq(Candidate) /\ Len(cs) = n0 + r /\ n0 \in Nat /\ r \in Nat
       /\ \A k \in 1..n0 : cs[k] = own[k]
       /\ \A k \in 1..r : cs[n0 + k] = rest[k]
  BY <1>4, <1>6, <1>10, Joined DEF n0
<1> HIDE DEF r
<1>12. r = Len(rest)
  BY DEF r
<1>13. \A k \in 1..(n0 + r) : k \in 1..n0 \/ (k \notin 1..n0 /\ k - n0 \in 1..r /\ n0 + (k - n0) = k)
  BY <1>11
<1> DEFINE src == [k \in 1..(n0 + r) |-> IF k \in 1..n0 THEN 0 ELSE p[q[k - n0]]]
<1>14. \A k \in 1..(n0 + r) : \/ k \in 1..n0 /\ src[k] = 0
                              \/ /\ k \notin 1..n0 /\ k - n0 \in 1..r /\ n0 + (k - n0) = k
                                 /\ src[k] = p[q[k - n0]]
  BY <1>13
<1>15. \A k \in 1..r : q[k] \in 1..n /\ p[q[k]] \in I
  BY <1>7, <1>10, <1>12
<1>16. \A i \in I : i # 0 /\ i > 0 /\ i \in Int
  BY <1>2
<1>17. \A k \in 1..n0 : k \in 1..(n0 + r) /\ src[k] = 0
  BY <1>11
<1>18. \A k \in 1..r : n0 + k \in 1..(n0 + r) /\ src[n0 + k] = p[q[k]]
  <2> SUFFICES ASSUME NEW k \in 1..r
               PROVE  n0 + k \in 1..(n0 + r) /\ src[n0 + k] = p[q[k]]
    OBVIOUS
  <2>1. n0 + k \in 1..(n0 + r) /\ n0 + k \notin 1..n0 /\ (n0 + k) - n0 = k
    BY <1>11
  <2> QED
    BY <2>1
<1> HIDE DEF src
<1>19. src \in [1..(n0 + r) -> {0} \cup I]
  <2>1. \A k \in 1..(n0 + r) : src[k] \in {0} \cup I
    BY <1>14, <1>15
  <2> QED
    BY <2>1 DEF src
<1>20. ASSUME NEW k \in 1..(n0 + r)
       PROVE  IF src[k] = 0 THEN cs[k] \in Range(own)
              ELSE cs[k] \in Range(Other(bills, Newest[src[k]]))
  <2>1. CASE k \in 1..n0 /\ src[k] = 0
    BY <1>4, <1>11, <2>1 DEF Range, n0
  <2>2. CASE k \notin 1..n0 /\ k - n0 \in 1..r /\ n0 + (k - n0) = k /\ src[k] = p[q[k - n0]]
    <3> DEFINE l == k - n0
    <3>1. l \in 1..r /\ cs[k] = rest[l] /\ src[k] = p[q[l]] /\ q[l] \in 1..n
      BY <1>11, <1>15, <2>2
    <3> HIDE DEF l
    <3>2. PICK j \in 1..Len(seqs[q[l]]) : rest[l] = seqs[q[l]][j]
      BY <1>10, <1>12, <3>1
    <3>3. seqs[q[l]] = Other(bills, Newest[src[k]]) /\ src[k] \in I
      BY <1>7, <3>1
    <3>4. seqs[q[l]] \in Seq(Candidate)
      BY <1>2, <1>3, <3>3
    <3>5. j \in DOMAIN seqs[q[l]]
      BY <3>4
    <3> QED
      BY <1>16, <3>1, <3>2, <3>3, <3>5 DEF Range
  <2> QED
    BY <1>14, <2>1, <2>2
<1>21. ASSUME NEW k \in 1..(n0 + r), NEW l \in 1..(n0 + r), k < l
       PROVE  src[k] <= src[l]
  <2>1. CASE k \in 1..n0 /\ src[k] = 0
    <3>1. src[l] \in {0} \cup I
      BY <1>19
    <3> QED
      BY <2>1, <3>1, <1>16
  <2>2. CASE k \notin 1..n0 /\ k - n0 \in 1..r /\ src[k] = p[q[k - n0]]
    <3>1. l \notin 1..n0 /\ k - n0 < l - n0
      BY <1>11, <1>21, <2>2
    <3>2. l - n0 \in 1..r /\ src[l] = p[q[l - n0]]
      BY <1>14, <3>1
    <3> DEFINE x == q[k - n0]
               y == q[l - n0]
    <3>3. x <= y /\ x \in 1..n /\ y \in 1..n
      BY <1>10, <1>12, <1>15, <2>2, <3>1, <3>2
    <3> HIDE DEF x, y
    <3>4. p[x] \in Int /\ p[y] \in Int
      BY <1>5, <1>16, <3>3
    <3>5. p[x] <= p[y]
      <4>1. CASE x = y
        BY <3>4, <4>1
      <4>2. CASE x < y
        BY <1>5, <3>3, <3>4, <4>2
      <4> QED
        BY <3>3, <4>1, <4>2
    <3> QED
      BY <2>2, <3>2, <3>5 DEF x, y
  <2> QED
    BY <1>14, <2>1, <2>2
<1>22. ASSUME NEW x \in Range(own)
       PROVE  \E k \in 1..(n0 + r) : src[k] = 0 /\ cs[k] = x
  <2>1. PICK k \in 1..n0 : own[k] = x
    BY <1>4 DEF Range, n0
  <2> QED
    BY <1>11, <1>17, <2>1
<1>23. ASSUME NEW i \in I, NEW x \in Range(Other(bills, Newest[i]))
       PROVE  \E k \in 1..(n0 + r) : src[k] = i /\ cs[k] = x
  <2>1. PICK m \in 1..n : p[m] = i
    BY <1>5
  <2>2. seqs[m] = Other(bills, Newest[i]) /\ seqs[m] \in Seq(Candidate)
    BY <1>2, <1>3, <1>7, <2>1
  <2>3. PICK j \in 1..Len(seqs[m]) : seqs[m][j] = x
    BY <2>2 DEF Range
  <2>4. PICK k \in 1..r : q[k] = m /\ rest[k] = seqs[m][j]
    BY <1>10, <1>12, <2>3
  <2> QED
    BY <1>11, <1>18, <2>1, <2>3, <2>4
<1>24. From(bills, b, cs, src)
  BY <1>11, <1>19, <1>20, <1>21, <1>22, <1>23 DEF From, I, own
<1> QED
  BY <1>24 DEF cs


\* Of the first m candidates, the k-th is the one its month is given to: of the
\* best precedence, and offered first.
Wins(cs, m, k) ==
  \A l \in 1..m : cs[l].month = cs[k].month =>
    \/ cs[k].precedence < cs[l].precedence
    \/ cs[k].precedence = cs[l].precedence /\ k <= l

\* best is what is taken of the first m candidates.
BestOf(cs, m, best) ==
  /\ best \in Seq(Candidate)
  /\ \A i \in DOMAIN best : \E k \in 1..m : Wins(cs, m, k) /\ best[i] = cs[k]
  /\ \A k \in 1..m : \E i \in DOMAIN best : best[i].month = cs[k].month
  /\ \A i, j \in DOMAIN best : best[i].month = best[j].month => i = j

\* Taking one more candidate keeps the best of each month.
LEMMA TakeKeepsBest ==
  ASSUME NEW cs \in Seq(Candidate), NEW m \in Nat, m + 1 <= Len(cs),
         NEW best, BestOf(cs, m, best)
  PROVE  BestOf(cs, m + 1, Take(best, cs[m + 1]))
<1> DEFINE c == cs[m + 1]
           n == Len(best)
           t == Take(best, c)
<1>1. /\ best \in Seq(Candidate) /\ n \in Nat /\ DOMAIN best = 1..n
      /\ \A i \in DOMAIN best : best[i] \in Candidate
  BY DEF BestOf
<1>2. \A k \in 1..(m + 1) : cs[k] \in Candidate /\ cs[k].month \in Int /\ cs[k].precedence \in Int
  <2>1. \A k \in 1..(m + 1) : cs[k] \in Candidate
    OBVIOUS
  <2>2. \A x \in Candidate : x.month \in Int /\ x.precedence \in Int
    BY DEF Candidate
  <2> QED
    BY <2>1, <2>2
<1>3. m + 1 \in 1..(m + 1) /\ \A k \in 1..(m + 1) : k \in 1..m \/ k = m + 1
  OBVIOUS
<1>4. \A k \in 1..m : k \in 1..(m + 1) /\ k <= m + 1
  OBVIOUS
<1>5. c \in Candidate
  BY <1>2, <1>3
<1> HIDE DEF c, n
<1>6. c = cs[m + 1]
  BY DEF c
\* A winner that is not of the month of c stays one.
<1>7. ASSUME NEW k \in 1..m, Wins(cs, m, k), cs[k].month # c.month
      PROVE  Wins(cs, m + 1, k)
  BY <1>3, <1>6, <1>7 DEF Wins
<1>8. CASE \A i \in DOMAIN best : best[i].month # c.month
  <2>1. t = Append(best, c)
    BY <1>8 DEF Take
  <2> HIDE DEF t
  <2>2. /\ t \in Seq(Candidate) /\ DOMAIN t = 1..(n + 1)
        /\ \A i \in 1..n : t[i] = best[i]
        /\ t[n + 1] = c
    BY <1>1, <1>5, <2>1 DEF n
  <2>3. \A i \in 1..(n + 1) : i \in 1..n \/ i = n + 1
    BY <1>1
  <2>4. \A i \in 1..n : i \in 1..(n + 1)
    BY <1>1
  <2>5. n + 1 \in 1..(n + 1)
    BY <1>1
  <2>6. \A k \in 1..m : cs[k].month # c.month
    BY <1>8 DEF BestOf
  <2>7. Wins(cs, m + 1, m + 1)
    BY <1>2, <1>3, <1>6, <2>6 DEF Wins
  <2>8. ASSUME NEW i \in DOMAIN t
        PROVE  \E k \in 1..(m + 1) : Wins(cs, m + 1, k) /\ t[i] = cs[k]
    <3>1. CASE i = n + 1
      BY <1>3, <1>6, <2>2, <2>7, <3>1
    <3>2. CASE i \in 1..n
      <4>1. PICK k \in 1..m : Wins(cs, m, k) /\ best[i] = cs[k]
        BY <1>1, <3>2 DEF BestOf
      <4>2. Wins(cs, m + 1, k)
        BY <1>7, <2>6, <4>1
      <4> QED
        BY <1>4, <2>2, <3>2, <4>1, <4>2
    <3> QED
      BY <2>2, <2>3, <3>1, <3>2
  <2>9. ASSUME NEW k \in 1..(m + 1)
        PROVE  \E i \in DOMAIN t : t[i].month = cs[k].month
    <3>1. CASE k = m + 1
      BY <1>6, <2>2, <2>5, <3>1
    <3>2. CASE k \in 1..m
      <4>1. PICK i \in 1..n : best[i].month = cs[k].month
        BY <1>1, <3>2 DEF BestOf
      <4> QED
        BY <2>2, <2>4, <4>1
    <3> QED
      BY <1>3, <3>1, <3>2
  <2>10. ASSUME NEW i \in DOMAIN t, NEW j \in DOMAIN t, t[i].month = t[j].month
         PROVE  i = j
    <3>1. i \in 1..n /\ j \in 1..n => i = j
      BY <1>1, <2>2, <2>10 DEF BestOf
    <3>2. i \in 1..n => j # n + 1
      BY <1>1, <1>8, <2>2, <2>10
    <3>3. j \in 1..n => i # n + 1
      BY <1>1, <1>8, <2>2, <2>10
    <3> QED
      BY <2>2, <2>3, <3>1, <3>2, <3>3
  <2> QED
    BY <2>2, <2>8, <2>9, <2>10 DEF BestOf, t, c
<1>9. CASE ~ \A i \in DOMAIN best : best[i].month # c.month
  <2>1. t = [i \in DOMAIN best |->
               IF best[i].month = c.month /\ c.precedence < best[i].precedence THEN c ELSE best[i]]
    BY <1>9 DEF Take
  <2>2. PICK i0 \in DOMAIN best : best[i0].month = c.month
    BY <1>9
  <2>3. PICK k0 \in 1..m : Wins(cs, m, k0) /\ best[i0] = cs[k0]
    BY DEF BestOf
  <2> HIDE DEF t
  <2>4. ASSUME NEW i \in DOMAIN best
        PROVE  /\ t[i].month = best[i].month
               /\ t[i] \in Candidate
               /\ \E k \in 1..(m + 1) : Wins(cs, m + 1, k) /\ t[i] = cs[k]
    <3>1. CASE i = i0 /\ c.precedence < cs[k0].precedence
      <4>1. t[i] = c
        BY <2>1, <2>2, <2>3, <3>1
      <4>2. ASSUME NEW l \in 1..m, cs[l].month = c.month
            PROVE  c.precedence < cs[l].precedence
        <5>1. cs[k0].precedence <= cs[l].precedence
          BY <1>2, <1>4, <2>2, <2>3, <4>2 DEF Wins
        <5> QED
          BY <1>2, <1>3, <1>4, <1>6, <3>1, <5>1
      <4>3. Wins(cs, m + 1, m + 1)
        BY <1>2, <1>3, <1>6, <4>2 DEF Wins
      <4> QED
        BY <1>3, <1>5, <1>6, <2>2, <3>1, <4>1, <4>3
    <3>2. CASE i = i0 /\ ~(c.precedence < cs[k0].precedence)
      <4>1. t[i] = cs[k0]
        BY <2>1, <2>2, <2>3, <3>2
      <4>2. cs[k0].precedence < c.precedence \/ (cs[k0].precedence = c.precedence /\ k0 <= m + 1)
        BY <1>2, <1>3, <1>4, <1>6, <3>2
      <4>3. Wins(cs, m + 1, k0)
        BY <1>3, <1>6, <2>3, <4>2 DEF Wins
      <4> QED
        BY <1>1, <1>4, <2>3, <3>2, <4>1, <4>3
    <3>3. CASE i # i0
      <4>1. best[i].month # c.month
        BY <2>2, <3>3 DEF BestOf
      <4>2. t[i] = best[i]
        BY <2>1, <4>1
      <4>3. PICK k \in 1..m : Wins(cs, m, k) /\ best[i] = cs[k]
        BY DEF BestOf
      <4>4. Wins(cs, m + 1, k)
        BY <1>7, <4>1, <4>3
      <4> QED
        BY <1>1, <1>4, <4>2, <4>3, <4>4
    <3> QED
      BY <3>1, <3>2, <3>3
  <2>5. t \in Seq(Candidate) /\ DOMAIN t = DOMAIN best
    <3>1. DOMAIN t = DOMAIN best /\ t = [i \in DOMAIN t |-> t[i]]
      BY <2>1
    <3>2. t \in [1..n -> Candidate]
      BY <1>1, <2>4, <3>1
    <3> QED
      BY <1>1, <3>1, <3>2
  <2>6. ASSUME NEW k \in 1..(m + 1)
        PROVE  \E i \in DOMAIN t : t[i].month = cs[k].month
    <3>1. CASE k = m + 1
      BY <1>6, <2>2, <2>4, <2>5, <3>1
    <3>2. CASE k \in 1..m
      <4>1. PICK i \in DOMAIN best : best[i].month = cs[k].month
        BY <3>2 DEF BestOf
      <4> QED
        BY <2>4, <2>5, <4>1
    <3> QED
      BY <1>3, <3>1, <3>2
  <2>7. \A i, j \in DOMAIN t : t[i].month = t[j].month => i = j
    BY <2>4, <2>5 DEF BestOf
  <2> QED
    BY <2>4, <2>5, <2>6, <2>7 DEF BestOf, t, c
<1> QED
  BY <1>8, <1>9

\* All candidates taken one by one.
LEMMA FoldIsBest ==
  ASSUME NEW cs \in Seq(Candidate)
  PROVE  BestOf(cs, Len(cs), FoldLeft(Take, <<>>, cs))
<1>1. Accumulates(Take, <<>>, cs, FoldLeft(Take, <<>>, cs))
  BY FoldLeftAccumulates, Zenon
<1>2. PICK f : /\ f[0] = <<>>
               /\ \A i \in 1..Len(cs) : f[i] = Take(f[i - 1], cs[i])
               /\ FoldLeft(Take, <<>>, cs) = f[Len(cs)]
  BY <1>1, Zenon DEF Accumulates
<1> DEFINE T == {m \in Nat : m <= Len(cs) => BestOf(cs, m, f[m])}
<1>3. 0 \in T
  <2>1. BestOf(cs, 0, <<>>)
    BY DEF BestOf
  <2> QED
    BY <1>2, <2>1
<1>4. ASSUME NEW m \in Nat, m \in T
      PROVE  m + 1 \in T
  <2> SUFFICES ASSUME m + 1 <= Len(cs)
               PROVE  BestOf(cs, m + 1, f[m + 1])
    OBVIOUS
  <2>1. m <= Len(cs) /\ m + 1 \in 1..Len(cs) /\ (m + 1) - 1 = m
    OBVIOUS
  <2>2. BestOf(cs, m, f[m])
    BY <1>4, <2>1
  <2>3. f[m + 1] = Take(f[m], cs[m + 1])
    BY <1>2, <2>1
  <2> QED
    BY <2>2, <2>3, TakeKeepsBest
<1> HIDE DEF T
<1>5. Len(cs) \in T
  <2>1. Len(cs) \in Nat
    OBVIOUS
  <2> QED
    BY <1>3, <1>4, <2>1, NatIsLeast
<1> QED
  BY <1>2, <1>5 DEF T


\* The series is the best of all candidates in the order of the months.
LEMMA ResolveIsBest ==
  ASSUME NEW bills, Reviewed(bills), NEW b \in Bill
  PROVE  LET cs == Candidates(bills, b)
             s  == Resolve(bills, b)
         IN  /\ cs \in Seq(Candidate)
             /\ BestOf(cs, Len(cs), s)
             /\ \A i, j \in DOMAIN s : i < j => s[i].month < s[j].month
<1> DEFINE cs == Candidates(bills, b)
           best == FoldLeft(Take, <<>>, cs)
           key == [i \in DOMAIN best |-> best[i].month]
           s == Resolve(bills, b)
<1>1. cs \in Seq(Candidate)
  BY CandidatesFrom DEF From
<1>2. s = SortedBy(best, key)
  BY DEF Resolve
<1> HIDE DEF cs
<1>3. BestOf(cs, Len(cs), best)
  BY <1>1, FoldIsBest
<1> HIDE DEF best, s
<1>4. /\ best \in Seq(Candidate)
      /\ DOMAIN best = 1..Len(best) /\ Len(best) \in Nat
      /\ \A i \in DOMAIN best : best[i] \in Candidate
  BY <1>3 DEF BestOf
<1>5. \A i \in DOMAIN best : best[i].month \in Int
  BY <1>4 DEF Candidate
<1>6. key \in [DOMAIN best -> Int] /\ \A i \in DOMAIN best : key[i] = best[i].month
  BY <1>5
<1> HIDE DEF key
<1>7. PICK p : /\ p \in [DOMAIN best -> DOMAIN best]
               /\ \A i \in DOMAIN best : \E k \in DOMAIN best : p[k] = i
               /\ \A k, l \in DOMAIN best : k < l => p[k] # p[l] /\ key[p[k]] <= key[p[l]]
               /\ SortedBy(best, key) = [k \in DOMAIN best |-> best[p[k]]]
  BY <1>4, <1>6, SortedIsPermutation, Zenon
<1>8. /\ DOMAIN s = DOMAIN best
      /\ \A k \in DOMAIN best : p[k] \in DOMAIN best /\ s[k] = best[p[k]]
  BY <1>2, <1>7
<1>9. s \in Seq(Candidate)
  <2>1. s \in [1..Len(best) -> Candidate]
    BY <1>2, <1>4, <1>7, <1>8
  <2> QED
    BY <1>4, <2>1
<1>10. \A i, j \in DOMAIN s : i < j => s[i].month < s[j].month
  <2> SUFFICES ASSUME NEW i \in DOMAIN s, NEW j \in DOMAIN s, i < j
               PROVE  s[i].month < s[j].month
    OBVIOUS
  <2>1. p[i] # p[j] /\ key[p[i]] <= key[p[j]]
    BY <1>7, <1>8
  <2>2. best[p[i]].month # best[p[j]].month
    BY <1>3, <1>8, <2>1 DEF BestOf
  <2>3. p[i] \in DOMAIN best /\ p[j] \in DOMAIN best /\ s[i] = best[p[i]] /\ s[j] = best[p[j]]
    BY <1>8
  <2>4. best[p[i]].month \in Int /\ best[p[j]].month \in Int
    BY <1>5, <2>3
  <2>5. best[p[i]].month <= best[p[j]].month
    BY <1>6, <2>1, <2>3
  <2> QED
    BY <2>2, <2>3, <2>4, <2>5
<1>11. \A i, j \in DOMAIN s : s[i].month = s[j].month => i = j
  <2>1. \A i \in DOMAIN s : i \in Int /\ s[i].month \in Int
    BY <1>4, <1>5, <1>8
  <2> QED
    BY <1>10, <2>1
<1>12. \A i \in DOMAIN s : \E k \in 1..Len(cs) : Wins(cs, Len(cs), k) /\ s[i] = cs[k]
  <2>1. \A i \in DOMAIN best : \E k \in 1..Len(cs) : Wins(cs, Len(cs), k) /\ best[i] = cs[k]
    BY <1>3 DEF BestOf
  <2> QED
    BY <1>8, <2>1
<1>13. \A k \in 1..Len(cs) : \E i \in DOMAIN s : s[i].month = cs[k].month
  <2> SUFFICES ASSUME NEW k \in 1..Len(cs)
               PROVE  \E i \in DOMAIN s : s[i].month = cs[k].month
    OBVIOUS
  <2>1. PICK j \in DOMAIN best : best[j].month = cs[k].month
    BY <1>3 DEF BestOf
  <2>2. PICK i \in DOMAIN best : p[i] = j
    BY <1>7
  <2> QED
    BY <1>8, <2>1, <2>2
<1>14. BestOf(cs, Len(cs), s)
  BY <1>9, <1>11, <1>12, <1>13 DEF BestOf
<1> QED
  BY <1>1, <1>10, <1>14 DEF cs, s


\* The candidates that a bill offers are what it says with two precedences.
LEMMA OfferedIsSaid ==
  ASSUME NEW bills, Reviewed(bills), NEW c \in Bill
  PROVE  /\ \A p \in 0..3 : \A x \in Said(bills, c, p) : x.precedence = p
         /\ Range(Own(bills, c)) = Said(bills, c, 0) \cup Said(bills, c, 1)
         /\ Range(Other(bills, c)) = Said(bills, c, 2) \cup Said(bills, c, 3)
<1> DEFINE d == bills[c].data
<1>1. d \in Data
  BY DEF Reviewed
<1> HIDE DEF d
<1>2. \A p \in 0..3 : Said(bills, c, p) = Range(IF p % 2 = 0 THEN MainOf(d, p) ELSE HistoryOf(d, p))
  BY DEF Said, d
<1>3. ASSUME NEW p \in 0..3
      PROVE  \A x \in Said(bills, c, p) : x.precedence = p
  <2>1. /\ \A i \in DOMAIN MainOf(d, p) : MainOf(d, p)[i].precedence = p
        /\ \A i \in DOMAIN HistoryOf(d, p) : HistoryOf(d, p)[i].precedence = p
    BY <1>1, SaidIsCandidate
  <2> QED
    BY <1>2, <2>1 DEF Range
<1>4. /\ Said(bills, c, 0) = Range(MainOf(d, 0)) /\ Said(bills, c, 1) = Range(HistoryOf(d, 1))
      /\ Said(bills, c, 2) = Range(MainOf(d, 2)) /\ Said(bills, c, 3) = Range(HistoryOf(d, 3))
  BY <1>2
<1>5. \A p \in 0..3 : MainOf(d, p) \in Seq(Candidate) /\ HistoryOf(d, p) \in Seq(Candidate)
  BY <1>1, SaidIsCandidate
<1>6. Range(Own(bills, c)) = Said(bills, c, 0) \cup Said(bills, c, 1)
  <2>1. MainOf(d, 0) \in Seq(Candidate) /\ HistoryOf(d, 1) \in Seq(Candidate)
    BY <1>5
  <2>2. Range(MainOf(d, 0) \o HistoryOf(d, 1)) = Range(MainOf(d, 0)) \cup Range(HistoryOf(d, 1))
    BY <2>1, Joined
  <2> QED
    BY <1>4, <2>2 DEF Own, d
<1>7. Range(Other(bills, c)) = Said(bills, c, 2) \cup Said(bills, c, 3)
  <2>1. MainOf(d, 2) \in Seq(Candidate) /\ HistoryOf(d, 3) \in Seq(Candidate)
    BY <1>5
  <2>2. Range(MainOf(d, 2) \o HistoryOf(d, 3)) = Range(MainOf(d, 2)) \cup Range(HistoryOf(d, 3))
    BY <2>1, Joined
  <2> QED
    BY <1>4, <2>2 DEF Other, d
<1> QED
  BY <1>3, <1>6, <1>7

\* The candidates of b by what is said and by whom: nothing else is offered,
\* and a candidate of another bill comes after those of newer bills.
LEMMA CandidatesBySource ==
  ASSUME NEW bills, Reviewed(bills), NEW b \in Bill
  PROVE  LET cs == Candidates(bills, b)
             n  == Len(cs)
         IN  \E src \in [1..n -> Int] :
               /\ cs \in Seq(Candidate)
               /\ \A k \in 1..n : \/ cs[k] \in Said(bills, b, 0) \cup Said(bills, b, 1)
                                  \/ /\ src[k] \in DOMAIN Newest
                                     /\ Newest[src[k]] \in OtherBills(bills, b)
                                     /\ \/ cs[k] \in Said(bills, Newest[src[k]], 2)
                                        \/ cs[k] \in Said(bills, Newest[src[k]], 3)
               /\ \A k, l \in 1..n : k < l => src[k] <= src[l]
               /\ \A x \in Said(bills, b, 0) \cup Said(bills, b, 1) : \E k \in 1..n : cs[k] = x
               /\ \A i \in DOMAIN Newest : Newest[i] \in OtherBills(bills, b) =>
                    \A x \in Said(bills, Newest[i], 2) \cup Said(bills, Newest[i], 3) :
                      \E k \in 1..n : src[k] = i /\ cs[k] = x
<1> DEFINE cs == Candidates(bills, b)
           n == Len(cs)
           I == Others(bills, b)
<1>1. PICK src : From(bills, b, cs, src)
  BY CandidatesFrom
<1> HIDE DEF cs
<1>2. \A i \in DOMAIN Newest : i \in Int /\ i # 0 /\ Newest[i] \in Bill
  BY ReviewAssumption
<1>3. \A i \in DOMAIN Newest : i \in I <=> Newest[i] \in OtherBills(bills, b)
  BY <1>2 DEF Others, OtherBills
<1>4. I \subseteq DOMAIN Newest
  BY DEF Others
<1> HIDE DEF I, n
<1>5. /\ cs \in Seq(Candidate)
      /\ src \in [1..n -> {0} \cup I]
      /\ \A k \in 1..n : IF src[k] = 0 THEN cs[k] \in Range(Own(bills, b))
                         ELSE cs[k] \in Range(Other(bills, Newest[src[k]]))
      /\ \A k, l \in 1..n : k < l => src[k] <= src[l]
      /\ \A x \in Range(Own(bills, b)) : \E k \in 1..n : src[k] = 0 /\ cs[k] = x
      /\ \A i \in I : \A x \in Range(Other(bills, Newest[i])) :
           \E k \in 1..n : src[k] = i /\ cs[k] = x
  BY <1>1 DEF From, I, n
<1>6. src \in [1..n -> Int]
  <2>1. \A k \in 1..n : src[k] \in Int
    BY <1>2, <1>4, <1>5
  <2> QED
    BY <1>5, <2>1
<1>7. /\ Range(Own(bills, b)) = Said(bills, b, 0) \cup Said(bills, b, 1)
      /\ \A i \in DOMAIN Newest :
           Range(Other(bills, Newest[i])) = Said(bills, Newest[i], 2) \cup Said(bills, Newest[i], 3)
  BY <1>2, OfferedIsSaid
<1>8. ASSUME NEW k \in 1..n
      PROVE  \/ cs[k] \in Said(bills, b, 0) \cup Said(bills, b, 1)
             \/ /\ src[k] \in DOMAIN Newest
                /\ Newest[src[k]] \in OtherBills(bills, b)
                /\ \/ cs[k] \in Said(bills, Newest[src[k]], 2)
                   \/ cs[k] \in Said(bills, Newest[src[k]], 3)
  <2>1. CASE src[k] = 0
    BY <1>5, <1>7, <2>1
  <2>2. CASE src[k] # 0
    <3>1. src[k] \in I /\ src[k] \in DOMAIN Newest /\ cs[k] \in Range(Other(bills, Newest[src[k]]))
      BY <1>4, <1>5, <2>2
    <3> QED
      BY <1>3, <1>7, <3>1
  <2> QED
    BY <2>1, <2>2
<1>9. \A x \in Said(bills, b, 0) \cup Said(bills, b, 1) : \E k \in 1..n : cs[k] = x
  BY <1>5, <1>7
<1>10. ASSUME NEW i \in DOMAIN Newest, Newest[i] \in OtherBills(bills, b),
              NEW x \in Said(bills, Newest[i], 2) \cup Said(bills, Newest[i], 3)
       PROVE  \E k \in 1..n : src[k] = i /\ cs[k] = x
  BY <1>3, <1>5, <1>7, <1>10
<1> QED
  BY <1>5, <1>6, <1>8, <1>9, <1>10 DEF cs, n


\* The series has the best figure of every month, and every month: of two
\* candidates of one precedence that of the newer bill is offered first.
LEMMA SeriesOfBestSources ==
  ASSUME NEW bills, Reviewed(bills), NEW b \in Bill
  PROVE  LET s == Resolve(bills, b)
         IN  /\ \A i \in DOMAIN s : BestSource(bills, b, s[i])
             /\ {x.month : x \in Range(s)} = {x.month : x \in AllSaid(bills, b)}
             /\ IsInjective([i \in DOMAIN s |-> s[i].month])
<1> DEFINE cs == Candidates(bills, b)
           n == Len(cs)
           s == Resolve(bills, b)
           Newer(c, d) == \E i, j \in DOMAIN Newest : i < j /\ Newest[i] = c /\ Newest[j] = d
<1>1. BestOf(cs, n, s)
  BY ResolveIsBest
<1>2. PICK src \in [1..n -> Int] :
        /\ cs \in Seq(Candidate)
        /\ \A k \in 1..n : \/ cs[k] \in Said(bills, b, 0) \cup Said(bills, b, 1)
                           \/ /\ src[k] \in DOMAIN Newest
                              /\ Newest[src[k]] \in OtherBills(bills, b)
                              /\ \/ cs[k] \in Said(bills, Newest[src[k]], 2)
                                 \/ cs[k] \in Said(bills, Newest[src[k]], 3)
        /\ \A k, l \in 1..n : k < l => src[k] <= src[l]
        /\ \A x \in Said(bills, b, 0) \cup Said(bills, b, 1) : \E k \in 1..n : cs[k] = x
        /\ \A i \in DOMAIN Newest : Newest[i] \in OtherBills(bills, b) =>
             \A x \in Said(bills, Newest[i], 2) \cup Said(bills, Newest[i], 3) :
               \E k \in 1..n : src[k] = i /\ cs[k] = x
  BY CandidatesBySource
<1> HIDE DEF cs, n, s, Newer
<1>3. ASSUME NEW c \in Bill
      PROVE  /\ \A x \in Said(bills, c, 0) : x.precedence = 0
             /\ \A x \in Said(bills, c, 1) : x.precedence = 1
             /\ \A x \in Said(bills, c, 2) : x.precedence = 2
             /\ \A x \in Said(bills, c, 3) : x.precedence = 3
  BY OfferedIsSaid
<1>4. \A c \in OtherBills(bills, b) : c \in Bill /\ \E i \in DOMAIN Newest : Newest[i] = c
  BY DEF OtherBills, Bill, Range
<1>5. \A i, j \in DOMAIN Newest : i \in Int /\ (Newest[i] = Newest[j] => i = j)
  BY ReviewAssumption DEF IsInjective
<1>6. ASSUME NEW i \in DOMAIN s
      PROVE  BestSource(bills, b, s[i])
  <2>1. PICK k \in 1..n : Wins(cs, n, k) /\ s[i] = cs[k]
    BY <1>1 DEF BestOf
  <2> DEFINE x == cs[k]
  \* Nobody who offers a better precedence has the month.
  <2>2. ASSUME NEW l \in 1..n, cs[l].month = x.month
        PROVE  x.precedence < cs[l].precedence \/ (x.precedence = cs[l].precedence /\ k <= l)
    BY <2>1, <2>2 DEF Wins
  <2> HIDE DEF x
  <2>3. x = cs[k] /\ s[i] = x
    BY <2>1 DEF x
  <2>4. ASSUME x.precedence \in {1, 2, 3}
        PROVE  \A z \in Said(bills, b, 0) : z.month # x.month
    <3> SUFFICES ASSUME NEW z \in Said(bills, b, 0), z.month = x.month
                 PROVE  FALSE
      OBVIOUS
    <3>1. PICK l \in 1..n : cs[l] = z
      BY <1>2
    <3>2. z.precedence = 0
      BY <1>3
    <3> QED
      BY <2>2, <2>4, <3>1, <3>2
  <2>5. ASSUME x.precedence \in {2, 3}
        PROVE  \A z \in Said(bills, b, 1) : z.month # x.month
    <3> SUFFICES ASSUME NEW z \in Said(bills, b, 1), z.month = x.month
                 PROVE  FALSE
      OBVIOUS
    <3>1. PICK l \in 1..n : cs[l] = z
      BY <1>2
    <3>2. z.precedence = 1
      BY <1>3
    <3> QED
      BY <2>2, <2>5, <3>1, <3>2
  <2>6. ASSUME x.precedence = 3, NEW d \in OtherBills(bills, b)
        PROVE  \A z \in Said(bills, d, 2) : z.month # x.month
    <3> SUFFICES ASSUME NEW z \in Said(bills, d, 2), z.month = x.month
                 PROVE  FALSE
      OBVIOUS
    <3>1. PICK j \in DOMAIN Newest : Newest[j] = d
      BY <1>4
    <3>2. PICK l \in 1..n : cs[l] = z
      BY <1>2, <3>1
    <3>3. z.precedence = 2
      BY <1>3, <1>4
    <3> QED
      BY <2>2, <2>6, <3>2, <3>3
  <2>7. ASSUME NEW p \in {2, 3}, x.precedence = p, src[k] \in DOMAIN Newest,
               NEW d \in OtherBills(bills, b), Newer(d, Newest[src[k]])
        PROVE  \A z \in Said(bills, d, p) : z.month # x.month
    <3> SUFFICES ASSUME NEW z \in Said(bills, d, p), z.month = x.month
                 PROVE  FALSE
      OBVIOUS
    <3>1. PICK i1 \in DOMAIN Newest, j1 \in DOMAIN Newest :
            i1 < j1 /\ Newest[i1] = d /\ Newest[j1] = Newest[src[k]]
      BY <2>7 DEF Newer
    <3>2. i1 < src[k] /\ i1 \in Int /\ src[k] \in Int
      BY <1>5, <2>7, <3>1
    <3>3. z \in Said(bills, d, 2) \cup Said(bills, d, 3)
      OBVIOUS
    <3>4. PICK l \in 1..n : src[l] = i1 /\ cs[l] = z
      BY <1>2, <3>1, <3>3
    <3>5. z.precedence = p
      BY <1>3, <1>4
    <3>6. k <= l
      BY <2>2, <2>7, <3>4, <3>5
    <3>7. k = l \/ k < l
      BY <3>6
    <3>8. src[k] <= src[l]
      BY <1>2, <3>7
    <3> QED
      BY <3>2, <3>4, <3>8
  <2>8. CASE x \in Said(bills, b, 0)
    BY <2>3, <2>8 DEF BestSource
  <2>9. CASE x \in Said(bills, b, 1)
    <3>1. x.precedence = 1
      BY <1>3, <2>9
    <3> QED
      BY <2>3, <2>4, <2>9, <3>1 DEF BestSource
  <2>10. ASSUME NEW p \in {2, 3}, src[k] \in DOMAIN Newest,
                Newest[src[k]] \in OtherBills(bills, b), x \in Said(bills, Newest[src[k]], p)
         PROVE  BestSource(bills, b, s[i])
    <3> DEFINE c == Newest[src[k]]
    <3>1. x.precedence = p
      BY <1>3, <1>4, <2>10
    <3>2. \A z \in Said(bills, b, 0) \cup Said(bills, b, 1) : z.month # x.month
      BY <2>4, <2>5, <3>1
    <3>3. c \in OtherBills(bills, b) /\ x \in Said(bills, c, p)
      BY <2>10
    <3>4. ASSUME NEW d \in OtherBills(bills, b)
          PROVE  /\ p = 3 => \A z \in Said(bills, d, 2) : z.month # x.month
                 /\ Newer(d, c) => \A z \in Said(bills, d, p) : z.month # x.month
      BY <2>6, <2>7, <2>10, <3>1
    <3> HIDE DEF c
    <3> QED
      BY <2>3, <3>2, <3>3, <3>4 DEF BestSource, Newer
  <2> QED
    BY <1>2, <2>3, <2>8, <2>9, <2>10
<1>7. {x.month : x \in Range(s)} = {x.month : x \in AllSaid(bills, b)}
  <2>1. ASSUME NEW x \in Range(s)
        PROVE  \E y \in AllSaid(bills, b) : y.month = x.month
    <3>1. PICK k \in 1..n : x = cs[k]
      BY <1>1 DEF BestOf, Range
    <3>2. cs[k] \in AllSaid(bills, b)
      BY <1>2 DEF AllSaid
    <3> QED
      BY <3>1, <3>2
  <2>2. ASSUME NEW x \in AllSaid(bills, b)
        PROVE  \E y \in Range(s) : y.month = x.month
    <3>1. \E k \in 1..n : cs[k] = x
      <4>1. CASE x \in Said(bills, b, 0) \cup Said(bills, b, 1)
        BY <1>2, <4>1
      <4>2. ASSUME NEW c \in OtherBills(bills, b), x \in Said(bills, c, 2) \cup Said(bills, c, 3)
            PROVE  \E k \in 1..n : cs[k] = x
        <5>1. PICK j \in DOMAIN Newest : Newest[j] = c
          BY <1>4
        <5> QED
          BY <1>2, <4>2, <5>1
      <4> QED
        BY <4>1, <4>2 DEF AllSaid
    <3>2. PICK k \in 1..n : cs[k] = x
      BY <3>1
    <3>3. PICK i \in DOMAIN s : s[i].month = x.month
      BY <1>1, <3>2 DEF BestOf
    <3> QED
      BY <3>3 DEF Range
  <2> QED
    BY <2>1, <2>2
<1>8. IsInjective([i \in DOMAIN s |-> s[i].month])
  BY <1>1 DEF BestOf, IsInjective
<1> QED
  BY <1>6, <1>7, <1>8 DEF s


\* Every bill says what the last review of it said, or nothing.
BillsAreReviewed ==
  /\ DOMAIN bill = Bill
  /\ \A b \in Bill : \/ bill[b] \in [status : {"pending", "gone"}, data : {NoData}]
                     \/ bill[b] \in [status : {"confirmed"}, data : Review(b)]

\* A bill that says nothing is one that a review might have sent.
LEMMA NothingIsData ==
  NoData \in Data
  BY DEF NoData, Data

\* What the bills say is what a review may say.
LEMMA ReviewedBills ==
  BillsAreReviewed => Reviewed(bill)
<1> SUFFICES ASSUME BillsAreReviewed, NEW b \in Bill
             PROVE  bill[b].data \in Data
  BY DEF Reviewed
<1>1. bill[b].data = NoData \/ bill[b].data \in Review(b)
  BY DEF BillsAreReviewed
<1> QED
  BY <1>1, NothingIsData, ReviewAssumption

\* A bill that changes is one that a review has confirmed or says nothing.
LEMMA ReviewedChange ==
  ASSUME BillsAreReviewed, NEW b \in Bill, NEW row, NEW artefacts, Change(b, row, artefacts),
         \/ row \in [status : {"pending", "gone"}, data : {NoData}]
         \/ row \in [status : {"confirmed"}, data : Review(b)]
  PROVE  BillsAreReviewed'
<1>1. bill' = [bill EXCEPT ![b] = row]
  BY DEF Change
<1>2. \A c \in Bill : bill'[c] = IF c = b THEN row ELSE bill[c]
  BY <1>1 DEF BillsAreReviewed
<1> QED
  BY <1>1, <1>2 DEF BillsAreReviewed

\* Every request leaves the bills as they may be.
LEMMA ReviewedStep ==
  BillsAreReviewed /\ [Next]_vars => BillsAreReviewed'
<1> SUFFICES ASSUME BillsAreReviewed, [Next]_vars
             PROVE  BillsAreReviewed'
  OBVIOUS
<1>1. ASSUME NEW b \in Bill, NEW data \in Review(b), NEW prophet \in Answers,
             Confirm(b, data, prophet)
      PROVE  BillsAreReviewed'
  BY <1>1, ReviewedChange DEF Confirm
<1>2. ASSUME NEW b \in Bill, NEW data \in Review(b), ConfirmUnderived(b, data)
      PROVE  BillsAreReviewed'
  BY <1>2, ReviewedChange DEF ConfirmUnderived
<1>3. ASSUME NEW b \in Bill, Extract(b)
      PROVE  BillsAreReviewed'
  BY <1>3, ReviewedChange DEF Extract
<1>4. ASSUME NEW b \in Bill, Delete(b)
      PROVE  BillsAreReviewed'
  BY <1>4, ReviewedChange DEF Delete
<1>5. ASSUME NEW b \in Bill, NEW prophet \in Answers, Get(b, prophet)
      PROVE  BillsAreReviewed'
  BY <1>5 DEF Get, BillsAreReviewed
<1>6. CASE UNCHANGED vars
  BY <1>6 DEF vars, BillsAreReviewed
<1> QED
  BY <1>1, <1>2, <1>3, <1>4, <1>5, <1>6 DEF Next

\* The bills of the specification are always what reviews made of them.
LEMMA ReviewedAlways ==
  Spec => []BillsAreReviewed
<1>1. Init => BillsAreReviewed
  BY DEF Init, BillsAreReviewed
<1> QED
  BY <1>1, ReviewedStep, PTL DEF Spec

\* Every month of a series shows the best figure there is for it, in whichever
\* order the candidates were found, and every month with a figure is there.
THEOREM SeriesCorrect ==
  Spec => []SeriesTakesBestSource
<1>1. BillsAreReviewed => SeriesTakesBestSource
  <2> SUFFICES ASSUME BillsAreReviewed
               PROVE  SeriesTakesBestSource
    OBVIOUS
  <2>1. ASSUME NEW b \in Bill
        PROVE  LET s == Resolve(bill, b)
               IN  /\ \A i \in DOMAIN s : BestSource(bill, b, s[i])
                   /\ {x.month : x \in Range(s)} = {x.month : x \in AllSaid(bill, b)}
                   /\ IsInjective([i \in DOMAIN s |-> s[i].month])
    BY ReviewedBills, SeriesOfBestSources
  <2> QED
    BY <2>1 DEF SeriesTakesBestSource
<1> QED
  BY <1>1, ReviewedAlways, PTL


-----------------------------------------------------------------------------
(* The months of a forecast.                                               *)

\* The month that follows a series, and the one that follows everything that
\* is offered to the series of b.
FirstAfter(s)       == IF s = <<>> THEN Today ELSE Last(s).month + 1
FirstFree(bills, b) ==
  LET months == {x.month : x \in Range(Candidates(bills, b))}
  IN  IF months = {} THEN Today ELSE Max(months) + 1

\* The months from first on.
MonthsFrom(first) == [k \in 1..Horizon |-> first + k - 1]

\* A forecast with predictions for the Horizon months from first on.
ForecastFrom(first, points) ==
  \E p \in [1..Horizon -> Nat] : points = Months(first, p)

\* The last month of a series is the last that anyone has a figure for.
LEMMA SeriesEndsLast ==
  ASSUME NEW bills, Reviewed(bills), NEW b \in Bill
  PROVE  /\ FirstAfter(Resolve(bills, b)) = FirstFree(bills, b)
         /\ FirstAfter(Resolve(bills, b)) \in Int
<1> DEFINE cs == Candidates(bills, b)
           n == Len(cs)
           s == Resolve(bills, b)
           months == {x.month : x \in Range(cs)}
<1>1. /\ cs \in Seq(Candidate)
      /\ BestOf(cs, n, s)
      /\ \A i, j \in DOMAIN s : i < j => s[i].month < s[j].month
  BY ResolveIsBest
<1> HIDE DEF cs, s
<1>2. /\ DOMAIN cs = 1..n /\ n \in Nat
      /\ s \in Seq(Candidate) /\ DOMAIN s = 1..Len(s) /\ Len(s) \in Nat
      /\ \A i \in DOMAIN s : s[i] \in Candidate
  BY <1>1 DEF BestOf
<1>3. \A i \in DOMAIN s : s[i].month \in Int
  BY <1>2 DEF Candidate
<1>4. \A i \in DOMAIN s : s[i].month \in months
  <2> SUFFICES ASSUME NEW i \in DOMAIN s
               PROVE  s[i].month \in months
    OBVIOUS
  <2>1. PICK k \in 1..n : s[i] = cs[k]
    BY <1>1 DEF BestOf
  <2> QED
    BY <1>2, <2>1 DEF Range
<1>5. ASSUME NEW x \in months
      PROVE  \E i \in DOMAIN s : s[i].month = x
  <2>1. PICK k \in 1..n : x = cs[k].month
    BY <1>2 DEF Range
  <2> QED
    BY <1>1, <2>1 DEF BestOf
<1> HIDE DEF months, n
<1>6. CASE s = <<>>
  <2>1. DOMAIN s = {}
    BY <1>6
  <2>2. months = {}
    BY <1>5, <2>1
  <2> QED
    BY <1>6, <2>2, ReviewAssumption DEF FirstAfter, FirstFree, s, cs, months
<1>7. CASE s # <<>>
  <2> DEFINE m == Len(s)
             x == s[m].month
  <2>1. m \in 1..m /\ m \in DOMAIN s
    BY <1>2, <1>7
  <2>2. Last(s) = s[m]
    BY DEF Last
  <2>3. x \in Int /\ x \in months
    BY <1>3, <1>4, <2>1
  <2>4. ASSUME NEW y \in months
        PROVE  y \in Int /\ x >= y
    <3>1. PICK i \in DOMAIN s : s[i].month = y
      BY <1>5
    <3>2. i = m \/ i < m
      BY <1>2
    <3> QED
      BY <1>1, <1>3, <2>1, <2>3, <3>1, <3>2
  <2> HIDE DEF x, m
  <2>5. Max(months) = x
    <3>1. Max(months) \in months /\ Max(months) >= x
      BY <2>3, <2>4 DEF Max
    <3>2. \A y \in Int : x >= y /\ y >= x => y = x
      BY <2>3
    <3>3. Max(months) \in Int /\ x >= Max(months)
      BY <2>4, <3>1, Zenon
    <3> QED
      BY <3>1, <3>2, <3>3, Zenon
  <2>6. FirstFree(bills, b) = x + 1
    BY <2>3, <2>5 DEF FirstFree, months, cs
  <2>7. FirstAfter(s) = x + 1
    BY <1>7, <2>2 DEF FirstAfter, x
  <2> QED
    BY <2>3, <2>6, <2>7 DEF s
<1> QED
  BY <1>6, <1>7


\* Amounts are positive.
LEMMA AmountsArePositive ==
  ASSUME NEW s \in Seq(Candidate)
  PROVE  /\ Amounts(s) \in Seq(Nat \ {0}) /\ Amounts(s) \in Seq(Int)
         /\ Len(Amounts(s)) = Len(s)
         /\ \A i \in 1..Len(s) : Amounts(s)[i] = s[i].kwh
<1>1. \A i \in DOMAIN s : s[i] \in Candidate
  OBVIOUS
<1>2. \A i \in DOMAIN s : s[i].kwh \in Nat \ {0}
  BY <1>1 DEF Candidate
<1>3. DOMAIN s = 1..Len(s) /\ Len(s) \in Nat
  OBVIOUS
<1>4. Amounts(s) = [i \in 1..Len(s) |-> s[i].kwh]
  BY <1>3 DEF Amounts
<1>5. Amounts(s) \in [1..Len(s) -> Nat \ {0}] /\ Amounts(s) \in [1..Len(s) -> Int]
  BY <1>2, <1>3, <1>4
<1> QED
  BY <1>3, <1>4, <1>5

\* The last elements are some of the elements.
LEMMA LastOfIsSequence ==
  ASSUME NEW S, NEW s \in Seq(S), s # <<>>, NEW n \in Nat \ {0}
  PROVE  /\ LastOf(s, n) \in Seq(S) /\ Len(LastOf(s, n)) \in Nat \ {0}
<1> DEFINE a == AtLeast(1, Len(s) - n + 1)
           l == LastOf(s, n)
<1>1. Len(s) \in Nat /\ Len(s) >= 1
  OBVIOUS
<1>2. a \in 1..Len(s)
  BY <1>1 DEF AtLeast
<1> HIDE DEF a
<1>3. l = SubSeq(s, a, Len(s))
  BY DEF LastOf, a
<1> HIDE DEF l
<1>4. l \in Seq(S) /\ Len(l) = Len(s) - a + 1
  BY <1>1, <1>2, <1>3
<1> QED
  BY <1>1, <1>2, <1>4 DEF l

\* With two points and more the line has a slope.
LEMMA SpreadIsPositive ==
  ASSUME NEW n \in Nat, n >= 2
  PROVE  Spread(n) \in Nat \ {0}
<1> DEFINE a == n * n - 1
<1>1. n * n >= 4 /\ n * n \in Int
  BY SMT
<1>2. a \in Int /\ a >= 3
  BY <1>1
<1> HIDE DEF a
<1>3. n * a >= 6 /\ n * a \in Int
  BY <1>2, SMT
<1>4. (n * a) \div 6 \in Int /\ (n * a) \div 6 >= 1
  <2> DEFINE x == n * a
  <2> HIDE DEF x
  <2>1. x \div 6 \in Int /\ x \div 6 >= 1
    BY <1>3 DEF x
  <2> QED
    BY <2>1 DEF x
<1> QED
  BY <1>4 DEF Spread, a

\* The slope of the line is an integer.
LEMMA RiseIsInt ==
  ASSUME NEW y \in Seq(Int)
  PROVE  Rise(y) \in Int
<1> DEFINE n == Len(y)
           z == [i \in DOMAIN y |-> (i - 1) * y[i]]
<1>1. n \in Nat /\ DOMAIN y = 1..n /\ \A i \in 1..n : y[i] \in Int
  BY ElementsAreInts
<1>2. Total(y) \in Int
  BY TotalIsInt
<1>3. Total(z) \in Int
  <2>1. \A i \in 1..n : (i - 1) * y[i] \in Int
    BY <1>1
  <2>2. z \in [1..n -> Int]
    BY <1>1, <2>1
  <2>3. z \in Seq(Int)
    BY <1>1, <2>2
  <2> HIDE DEF z
  <2> QED
    BY <2>3, TotalIsInt
<1>4. Rise(y) = 2 * Total(z) - (n - 1) * Total(y)
  BY DEF Rise
<1> HIDE DEF n, z
<1> QED
  BY <1>1, <1>2, <1>3, <1>4

\* The trend of a series, in thousandths, is an integer.
LEMMA TrendIsInt ==
  ASSUME NEW y \in Seq(Int), y # <<>>, NEW x \in Int
  PROVE  Trend(y, x) \in Int
<1> DEFINE n == Len(y)
<1>1. n \in Nat /\ n >= 1
  OBVIOUS
<1>2. Total(y) \in Int
  BY TotalIsInt
<1> HIDE DEF n
<1>3. Rise(y) \in Int
  BY RiseIsInt
<1>4. Milli \in Int
  BY ReviewAssumption DEF Milli
<1> DEFINE a == Milli * Total(y)
           c == Milli * Rise(y) * (2 * x - n + 1)
           d == 2 * Spread(n)
<1>5. a \in Int
  BY <1>2, <1>4
<1>6. c \in Int
  BY <1>1, <1>3, <1>4
<1>7. n # 1 => d \in Nat \ {0}
  BY <1>1, SpreadIsPositive
<1>8. Trend(y, x) = a \div n + IF n = 1 THEN 0 ELSE c \div d
  BY DEF Trend, n
<1> HIDE DEF a, c, d
<1>9. a \div n \in Int
  BY <1>1, <1>5
<1>10. n # 1 => c \div d \in Int
  BY <1>6, <1>7
<1> QED
  BY <1>8, <1>9, <1>10

\* The fallback is a forecast for the months after the series.
LEMMA FallbackIsForecast ==
  ASSUME NEW s \in Seq(Candidate)
  PROVE  ForecastFrom(FirstAfter(s), Fallback(s))
<1>1. CASE s = <<>>
  <2> DEFINE zeros == [k \in 1..Horizon |-> 0]
  <2>1. Fallback(s) = Months(FirstAfter(s), zeros)
    BY <1>1 DEF Fallback, FirstAfter
  <2>2. zeros \in [1..Horizon -> Nat]
    OBVIOUS
  <2> HIDE DEF zeros
  <2> QED
    BY <2>1, <2>2 DEF ForecastFrom
<1>2. CASE s # <<>>
  <2> DEFINE y == Amounts(s)
             recent == LastOf(y, 3)
             mean == (Milli * Total(recent)) \div Len(recent)
             mix(k) == (65 * Trend(y, Len(y) - 1 + k) + 35 * mean) \div 100
             p == [k \in 1..Horizon |-> AtLeast(0, mix(k))]
  <2>1. Fallback(s) = Months(FirstAfter(s), p)
    BY <1>2 DEF Fallback, FirstAfter
  <2>2. y \in Seq(Int) /\ y # <<>> /\ Len(y) \in Nat
    <3>1. y \in Seq(Int) /\ Len(y) = Len(s)
      BY AmountsArePositive
    <3>2. Len(s) # 0
      BY <1>2
    <3> QED
      BY <3>1, <3>2
  <2> HIDE DEF y
  <2>3. recent \in Seq(Int) /\ Len(recent) \in Nat \ {0}
    BY <2>2, LastOfIsSequence
  <2> HIDE DEF recent
  <2>4. mean \in Int
    <3> DEFINE a == Milli * Total(recent)
    <3>1. a \in Int
      BY <2>3, TotalIsInt, ReviewAssumption DEF Milli
    <3> HIDE DEF a
    <3>2. a \div Len(recent) \in Int
      BY <2>3, <3>1
    <3> QED
      BY <3>2 DEF a
  <2> HIDE DEF mean
  <2>5. ASSUME NEW k \in 1..Horizon
        PROVE  AtLeast(0, mix(k)) \in Nat
    <3> DEFINE t == Trend(y, Len(y) - 1 + k)
    <3>1. t \in Int
      <4>1. Len(y) - 1 + k \in Int
        BY <2>2, ForecastAssumption
      <4> QED
        BY <2>2, <4>1, TrendIsInt
    <3> HIDE DEF t
    <3>2. (65 * t + 35 * mean) \div 100 \in Int
      BY <2>4, <3>1
    <3> QED
      BY <3>2 DEF AtLeast, t
  <2> HIDE DEF mix
  <2>6. p \in [1..Horizon -> Nat]
    BY <2>5
  <2> HIDE DEF p
  <2> QED
    BY <2>1, <2>6 DEF ForecastFrom
<1> QED
  BY <1>1, <1>2


\* An answer of Prophet that is taken is for the months after the series, as
\* the fallback is.
LEMMA BuiltIsForecast ==
  ASSUME NEW s \in Seq(Candidate), NEW prophet \in Answers
  PROVE  /\ ForecastFrom(FirstAfter(s), Build(s, prophet).points)
         /\ Build(s, prophet).model \in {"prophet", "fallback"}
<1>1. CASE UseProphet(s) /\ s # <<>> /\ prophet # None /\ Trustworthy(s, prophet)
  <2>1. /\ Build(s, prophet).points = Months(FirstAfter(s), prophet)
        /\ Build(s, prophet).model = "prophet"
    BY <1>1 DEF Build, Generate, FirstAfter
  <2>2. prophet \in [1..Horizon -> Nat]
    BY <1>1, ForecastAssumption DEF Answers
  <2> QED
    BY <2>1, <2>2 DEF ForecastFrom
<1>2. CASE ~(UseProphet(s) /\ s # <<>> /\ prophet # None /\ Trustworthy(s, prophet))
  <2>1. /\ Build(s, prophet).points = Fallback(s)
        /\ Build(s, prophet).model = "fallback"
    BY <1>2 DEF Build, Generate
  <2> QED
    BY <2>1, FallbackIsForecast
<1> QED
  BY <1>1, <1>2

\* What is said of a series is of the kinds there are.
LEMMA InsightsAreKinds ==
  ASSUME NEW s
  PROVE  Insights(s) \in Seq({"trend", "seasonality", "anomaly", "forecast", "general"})
<1> DEFINE K == {"trend", "seasonality", "anomaly", "forecast", "general"}
           when(cond, kind) == IF cond THEN <<kind>> ELSE <<>>
           t == when(RecentChange(s), "trend")
           u == when(Seasonality(s), "seasonality")
           v == when(Anomalies(s) # {}, "anomaly")
           w == when(s # <<>>, "forecast")
<1>1. Insights(s) = IF t \o u \o v \o w = <<>> THEN <<"general">> ELSE t \o u \o v \o w
  BY DEF Insights
<1>2. t \in Seq(K) /\ u \in Seq(K) /\ v \in Seq(K) /\ w \in Seq(K) /\ <<"general">> \in Seq(K)
  <2>1. /\ "trend" \in K /\ "seasonality" \in K /\ "anomaly" \in K /\ "forecast" \in K
        /\ "general" \in K
    OBVIOUS
  <2> HIDE DEF K
  <2>2. \A x \in K : <<x>> \in Seq(K) /\ <<>> \in Seq(K)
    OBVIOUS
  <2> QED
    BY <2>1, <2>2
<1> HIDE DEF t, u, v, w, K
<1>3. t \o u \o v \o w \in Seq(K)
  BY <1>2
<1>4. Insights(s) \in Seq(K)
  BY <1>1, <1>2, <1>3
<1> QED
  BY <1>4 DEF K

\* The months of a forecast follow one another.
LEMMA ForecastMonths ==
  ASSUME NEW first \in Int, NEW points, ForecastFrom(first, points)
  PROVE  /\ [k \in DOMAIN points |-> points[k].month] = MonthsFrom(first)
         /\ points \in Seq([month : Int, predicted : Nat])
<1>1. PICK p \in [1..Horizon -> Nat] : points = Months(first, p)
  BY DEF ForecastFrom
<1>2. points = [k \in 1..Horizon |-> [month |-> first + k - 1, predicted |-> p[k]]]
  BY <1>1 DEF Months
<1>3. DOMAIN points = 1..Horizon /\ Horizon \in Nat
  BY <1>2, ForecastAssumption
<1>4. \A k \in 1..Horizon : /\ points[k].month = first + k - 1
                            /\ points[k] \in [month : Int, predicted : Nat]
  BY <1>2, <1>3
<1>5. points \in [1..Horizon -> [month : Int, predicted : Nat]]
  BY <1>2, <1>4
<1>6. [k \in DOMAIN points |-> points[k].month] = MonthsFrom(first)
  BY <1>3, <1>4 DEF MonthsFrom
<1>7. points \in Seq([month : Int, predicted : Nat])
  <2> DEFINE P == [month : Int, predicted : Nat]
  <2>1. points \in [1..Horizon -> P]
    BY <1>5
  <2> HIDE DEF P
  <2>2. points \in Seq(P)
    BY <1>3, <2>1
  <2> QED
    BY <2>2 DEF P
<1> QED
  BY <1>6, <1>7

\* What is persisted for a bill.
Artefacts == [model : {None, "prophet", "fallback"},
              points : Seq([month : Int, predicted : Nat]),
              insights : Seq({"trend", "seasonality", "anomaly", "forecast", "general"})]

\* The types, and forecasts that follow their series unless another bill has
\* changed since.
FollowInv ==
  /\ BillsAreReviewed
  /\ stored \in [Bill -> Artefacts]
  /\ stale \subseteq Bill
  /\ answer = None \/ answer \in [bill : Bill, reused : BOOLEAN]
  /\ \A b \in Bill : stored[b] # NoArtefacts /\ b \notin stale =>
       [k \in DOMAIN stored[b].points |-> stored[b].points[k].month] = MonthsFrom(FirstFree(bill, b))

\* The artefacts built for the series of b.
LEMMA BuiltFollows ==
  ASSUME NEW bills, Reviewed(bills), NEW b \in Bill,
         NEW prophet \in Answers
  PROVE  LET x == Build(Resolve(bills, b), prophet)
         IN  /\ x \in Artefacts
             /\ [k \in DOMAIN x.points |-> x.points[k].month] = MonthsFrom(FirstFree(bills, b))
<1> DEFINE s == Resolve(bills, b)
           x == Build(s, prophet)
<1>1. s \in Seq(Candidate)
  BY ResolveIsBest DEF BestOf
<1>2. FirstAfter(s) \in Int /\ FirstAfter(s) = FirstFree(bills, b)
  BY SeriesEndsLast
<1> HIDE DEF s
<1>3. ForecastFrom(FirstAfter(s), x.points) /\ x.model \in {"prophet", "fallback"}
  BY <1>1, BuiltIsForecast
<1>4. /\ [k \in DOMAIN x.points |-> x.points[k].month] = MonthsFrom(FirstFree(bills, b))
      /\ x.points \in Seq([month : Int, predicted : Nat])
  BY <1>2, <1>3, ForecastMonths
<1>5. x = [model |-> x.model, points |-> x.points, insights |-> Insights(s)]
  BY DEF Build
<1> HIDE DEF x
<1>6. x \in Artefacts
  BY <1>3, <1>4, <1>5, InsightsAreKinds DEF Artefacts
<1> QED
  BY <1>4, <1>6 DEF s, x

\* A bill that changes leaves all other artefacts behind.
LEMMA FollowChange ==
  ASSUME FollowInv, NEW b \in Bill, NEW row, NEW artefacts, Change(b, row, artefacts),
         BillsAreReviewed',
         \/ artefacts = NoArtefacts
         \/ /\ artefacts \in Artefacts
            /\ [k \in DOMAIN artefacts.points |-> artefacts.points[k].month]
                 = MonthsFrom(FirstFree(bill', b))
  PROVE  FollowInv'
<1>1. /\ stored' = [stored EXCEPT ![b] = artefacts]
      /\ stale' = {c \in Bill \ {b} : stored[c] # NoArtefacts}
      /\ answer' = None
  BY DEF Change
<1>2. NoArtefacts \in Artefacts
  BY DEF NoArtefacts, Artefacts
<1>3. stored \in [Bill -> Artefacts] /\ artefacts \in Artefacts
  BY <1>2 DEF FollowInv
<1>4. stored' \in [Bill -> Artefacts]
  BY <1>1, <1>3
<1>5. ASSUME NEW c \in Bill, stored'[c] # NoArtefacts, c \notin stale'
      PROVE  [k \in DOMAIN stored'[c].points |-> stored'[c].points[k].month]
               = MonthsFrom(FirstFree(bill', c))
  <2>1. c = b
    BY <1>1, <1>3, <1>5
  <2>2. stored'[c] = artefacts
    BY <1>1, <1>3, <2>1
  <2> QED
    BY <1>5, <2>1, <2>2
<1>6. stale' \subseteq Bill
  BY <1>1
<1> QED
  BY <1>1, <1>4, <1>5, <1>6 DEF FollowInv, MonthsFrom, FirstFree

\* A reader changes no bill, and what is derived anew follows the series.
LEMMA FollowGet ==
  ASSUME FollowInv, NEW b \in Bill, NEW prophet \in Answers,
         Get(b, prophet)
  PROVE  FollowInv'
<1> DEFINE s == Resolve(bill, b)
           x == Build(s, prophet)
           reuse == Reusable(b, s)
<1>1. /\ bill' = bill
      /\ stored' = IF reuse THEN stored ELSE [stored EXCEPT ![b] = x]
      /\ stale' = IF reuse THEN stale ELSE stale \ {b}
      /\ answer' = [bill |-> b, reused |-> reuse]
  BY DEF Get
<1>2. /\ x \in Artefacts
      /\ [k \in DOMAIN x.points |-> x.points[k].month] = MonthsFrom(FirstFree(bill, b))
  BY ReviewedBills, BuiltFollows DEF FollowInv
<1>3. reuse \in BOOLEAN
  BY DEF Reusable
<1> HIDE DEF x, reuse
<1>4. stored' \in [Bill -> Artefacts] /\ stale' \subseteq Bill
  BY <1>1, <1>2 DEF FollowInv
<1>5. answer' \in [bill : Bill, reused : BOOLEAN]
  BY <1>1, <1>3
<1>6. ASSUME NEW c \in Bill, stored'[c] # NoArtefacts, c \notin stale'
      PROVE  [k \in DOMAIN stored'[c].points |-> stored'[c].points[k].month]
               = MonthsFrom(FirstFree(bill, c))
  <2>1. CASE ~reuse /\ c = b
    <3>1. stored'[c] = x
      BY <1>1, <2>1 DEF FollowInv
    <3> QED
      BY <1>2, <2>1, <3>1
  <2>2. CASE reuse \/ c # b
    <3>1. stored'[c] = stored[c] /\ c \notin stale
      BY <1>1, <1>6, <2>2 DEF FollowInv
    <3> QED
      BY <1>6, <3>1 DEF FollowInv
  <2> QED
    BY <2>1, <2>2
<1>7. BillsAreReviewed'
  BY <1>1 DEF FollowInv, BillsAreReviewed
<1> QED
  BY <1>1, <1>4, <1>5, <1>6, <1>7 DEF FollowInv, MonthsFrom, FirstFree

\* The invariant is inductive, one step for each request.
LEMMA FollowStep ==
  FollowInv /\ [Next]_vars => FollowInv'
<1> SUFFICES ASSUME FollowInv, [Next]_vars
             PROVE  FollowInv'
  OBVIOUS
<1>1. BillsAreReviewed'
  BY ReviewedStep DEF FollowInv
<1>2. ASSUME NEW b \in Bill, NEW data \in Review(b), NEW prophet \in Answers,
             Confirm(b, data, prophet)
      PROVE  FollowInv'
  <2> DEFINE row == [status |-> "confirmed", data |-> data]
             x == Build(Resolve([bill EXCEPT ![b] = row], b), prophet)
  <2>1. Change(b, row, x)
    BY <1>2 DEF Confirm
  <2>2. bill' = [bill EXCEPT ![b] = row]
    BY <2>1 DEF Change
  <2>3. Reviewed(bill')
    <3> SUFFICES ASSUME NEW c \in Bill
                 PROVE  bill'[c].data \in Data
      BY DEF Reviewed
    <3>1. bill'[c].data = NoData \/ bill'[c].data \in Review(c)
      BY <1>1 DEF BillsAreReviewed
    <3> QED
      BY <3>1, NothingIsData, ReviewAssumption
  <2>4. Reviewed([bill EXCEPT ![b] = row])
    BY <2>2, <2>3 DEF Reviewed
  <2>5. /\ x \in Artefacts
        /\ [k \in DOMAIN x.points |-> x.points[k].month]
             = MonthsFrom(FirstFree([bill EXCEPT ![b] = row], b))
    BY <2>4, BuiltFollows
  <2> HIDE DEF x, row
  <2> QED
    BY <1>1, <2>1, <2>2, <2>5, FollowChange
<1>3. ASSUME NEW b \in Bill, NEW data \in Review(b), ConfirmUnderived(b, data)
      PROVE  FollowInv'
  BY <1>1, <1>3, FollowChange DEF ConfirmUnderived
<1>4. ASSUME NEW b \in Bill, Extract(b)
      PROVE  FollowInv'
  BY <1>1, <1>4, FollowChange DEF Extract
<1>5. ASSUME NEW b \in Bill, Delete(b)
      PROVE  FollowInv'
  BY <1>1, <1>5, FollowChange DEF Delete
<1>6. ASSUME NEW b \in Bill, NEW prophet \in Answers, Get(b, prophet)
      PROVE  FollowInv'
  BY <1>6, FollowGet
<1>7. CASE UNCHANGED vars
  BY <1>1, <1>7 DEF vars, FollowInv, MonthsFrom, FirstFree
<1> QED
  BY <1>2, <1>3, <1>4, <1>5, <1>6, <1>7 DEF Next

\* The invariant of the specification, which the theorems below rest on.
LEMMA FollowAlways ==
  Spec => []FollowInv
<1>1. Init => FollowInv
  <2> SUFFICES ASSUME Init
               PROVE  FollowInv
    OBVIOUS
  <2>1. BillsAreReviewed
    BY DEF Init, BillsAreReviewed
  <2>2. NoArtefacts \in Artefacts
    BY DEF NoArtefacts, Artefacts
  <2>3. \A b \in Bill : stored[b] = NoArtefacts
    BY DEF Init
  <2> QED
    BY <2>1, <2>2, <2>3 DEF Init, FollowInv
<1>2. FollowInv /\ [Next]_vars => FollowInv'
  BY FollowStep
<1> QED
  BY <1>1, <1>2, PTL DEF Spec

\* Bills, artefacts and answers have their types, and no prediction is negative.
THEOREM TypesCorrect ==
  Spec => []TypeOK
<1>1. FollowInv => TypeOK
  BY DEF FollowInv, BillsAreReviewed, TypeOK, Artefacts
<1> QED
  BY <1>1, FollowAlways, PTL

\* Unless another bill has changed since, a forecast is for the months that
\* follow the last month anyone has a figure for.
THEOREM ForecastCorrect ==
  Spec => []ForecastContinuesSeries
<1>1. FollowInv => ForecastContinuesSeries
  BY DEF FollowInv, ForecastContinuesSeries, FirstFree, MonthsFrom
<1> QED
  BY <1>1, FollowAlways, PTL


-----------------------------------------------------------------------------
(* Anomalies.                                                              *)

\* A factor that is positive can be left out.
LEMMA CancelFactor ==
  ASSUME NEW a \in Int, NEW b \in Int, NEW q \in Int, q > 0, a * q <= b * q
  PROVE  a <= b
<1> SUFFICES ASSUME a >= b + 1
             PROVE  FALSE
  OBVIOUS
<1> DEFINE d == a - b
<1>1. d \in Int /\ d >= 1 /\ a = b + d
  OBVIOUS
<1> HIDE DEF d
<1>2. a * q = b * q + d * q
  BY <1>1, SMT
<1>3. d * q >= 1
  BY <1>1, SMT
<1>4. b * q \in Int /\ d * q \in Int
  BY <1>1
<1> QED
  BY <1>2, <1>3, <1>4

\* Multiplication distributes over addition.
LEMMA Distributes ==
  ASSUME NEW a \in Int, NEW b \in Int, NEW c \in Int
  PROVE  a * (b + c) = a * b + a * c /\ (b + c) * a = b * a + c * a
  BY SMT

\* Products of natural numbers are.
LEMMA ProductIsNatural ==
  ASSUME NEW a \in Nat, NEW b \in Nat
  PROVE  a * b \in Nat
  BY SMT

\* Squares are not negative.
LEMMA SquareIsNatural ==
  ASSUME NEW a \in Int
  PROVE  a * a \in Nat
<1>1. a * a \in Int
  OBVIOUS
<1>2. a * a >= 0
  <2>1. CASE a >= 0
    BY <2>1, SMT
  <2>2. CASE a < 0
    <3> DEFINE c == -a
    <3>1. c \in Int /\ c > 0 /\ a = -c
      BY <2>2
    <3> HIDE DEF c
    <3>2. a * a = c * c
      BY <3>1, SMT
    <3>3. c * c >= 0
      BY <3>1, SMT
    <3> QED
      BY <3>2, <3>3
  <2> QED
    BY <2>1, <2>2
<1> QED
  BY <1>1, <1>2

\* Numbers of which each is at least bound, times c, do not add up to more than
\* the sum of numbers that are not negative: with at least as many of them the
\* sum, times c, is at least as many bounds.
LEMMA LargeOnesAreFew ==
  ASSUME NEW z \in Seq(Nat), NEW c \in Nat, NEW bound \in Nat,
         NEW J \in SUBSET DOMAIN z, \A i \in J : c * z[i] >= bound
  PROVE  /\ IsFiniteSet(J) /\ Cardinality(J) \in Nat
         /\ Cardinality(J) * bound <= c * Total(z)
<1> DEFINE n == Len(z)
           K(m) == {i \in J : i <= m}
<1>1. n \in Nat /\ DOMAIN z = 1..n /\ z \in Seq(Int)
  OBVIOUS
<1>2. PICK g : /\ g \in [0..n -> Int]
               /\ g[0] = 0
               /\ \A i \in 1..n : g[i] = g[i - 1] + z[i]
               /\ Total(z) = g[n]
  BY <1>1, TotalAdds
<1>3. IsFiniteSet(J)
  BY PositionsAreFinite
<1>4. \A m \in Nat : IsFiniteSet(K(m)) /\ Cardinality(K(m)) \in Nat
  BY <1>3, FS_Subset, FS_CardinalityType
<1> DEFINE T == {m \in Nat : m <= n => Cardinality(K(m)) * bound <= c * g[m]}
<1>5. 0 \in T
  <2>1. K(0) = {}
    BY <1>1
  <2>2. Cardinality(K(0)) = 0
    BY <2>1, FS_EmptySet
  <2> QED
    BY <1>2, <2>2
<1>6. ASSUME NEW m \in Nat, m \in T
      PROVE  m + 1 \in T
  <2> SUFFICES ASSUME m + 1 <= n
               PROVE  Cardinality(K(m + 1)) * bound <= c * g[m + 1]
    OBVIOUS
  <2> DEFINE k == Cardinality(K(m))
             x == z[m + 1]
             u == g[m]
  <2>1. m + 1 \in 1..n /\ m \in 0..n /\ (m + 1) - 1 = m
    BY <1>1
  <2>2. g[m + 1] = u + x /\ u \in Int /\ x \in Nat
    BY <1>1, <1>2, <2>1
  <2>3. k * bound <= c * u
    BY <1>6, <2>1
  <2>4. k \in Nat
    BY <1>4
  <2>5. c * (u + x) = c * u + c * x /\ c * u \in Int /\ c * x \in Nat
    <3> HIDE DEF u, x
    <3>1. c * (u + x) = c * u + c * x
      BY <2>2, Distributes
    <3>2. c * x \in Nat
      BY <2>2, ProductIsNatural
    <3> QED
      BY <2>2, <3>1, <3>2
  <2>6. CASE m + 1 \in J
    <3>1. K(m + 1) = K(m) \cup {m + 1} /\ m + 1 \notin K(m)
      BY <1>1, <2>6
    <3> HIDE DEF K
    <3>2. Cardinality(K(m + 1)) = k + 1
      BY <1>4, <3>1, FS_AddElement
    <3>3. c * x >= bound
      BY <2>6
    <3> HIDE DEF k, u, x
    <3>4. (k + 1) * bound = k * bound + bound /\ k * bound \in Nat
      BY <2>4, SMT
    <3>5. (k + 1) * bound <= c * (u + x)
      BY <2>3, <2>5, <3>3, <3>4
    <3> QED
      BY <2>2, <3>2, <3>5
  <2>7. CASE m + 1 \notin J
    <3>1. K(m + 1) = K(m)
      BY <1>1, <2>7
    <3> HIDE DEF K, u, x
    <3>2. k * bound \in Nat
      BY <2>4
    <3> HIDE DEF k
    <3>3. k * bound <= c * (u + x)
      BY <2>3, <2>5, <3>2
    <3> QED
      BY <2>2, <3>1, <3>3 DEF k
  <2> QED
    BY <2>6, <2>7
<1>7. n \in T
  <2> HIDE DEF T
  <2> QED
    BY <1>1, <1>5, <1>6, NatIsLeast
<1>8. K(n) = J
  BY <1>1
<1> HIDE DEF K
<1>9. Cardinality(J) * bound <= c * g[n]
  BY <1>7, <1>8
<1> QED
  BY <1>2, <1>3, <1>4, <1>8, <1>9, FS_CardinalityType


\* The square of a sum is at most so many times the sum of the squares.
LEMMA SquareOfSum ==
  ASSUME NEW a \in Int, NEW b \in Int, NEW c \in Int, NEW d \in Int, NEW e \in Int,
         a + b + c + d + e = 0
  PROVE  5 * (a * a) <= 4 * (a * a + b * b + c * c + d * d + e * e)
<1>1. ASSUME NEW x \in Int, NEW y \in Int
      PROVE  2 * (x * y) <= x * x + y * y
  <2>1. (x - y) * (x - y) \in Nat
    BY SquareIsNatural
  <2>2. (x - y) * (x - y) = x * x - 2 * (x * y) + y * y
    BY SMT
  <2> QED
    BY <2>1, <2>2
<1>2. /\ 2 * (b * c) <= b * b + c * c /\ 2 * (b * d) <= b * b + d * d
      /\ 2 * (b * e) <= b * b + e * e /\ 2 * (c * d) <= c * c + d * d
      /\ 2 * (c * e) <= c * c + e * e /\ 2 * (d * e) <= d * d + e * e
  BY <1>1
<1>3. a = -(b + c + d + e)
  OBVIOUS
<1>4. a * a = (b + c + d + e) * (b + c + d + e)
  BY <1>3, SMT
<1>5. (b + c + d + e) * (b + c + d + e)
        = b * b + c * c + d * d + e * e
            + 2 * (b * c) + 2 * (b * d) + 2 * (b * e) + 2 * (c * d) + 2 * (c * e) + 2 * (d * e)
  BY SMT
<1> DEFINE bb == b * b
           cc == c * c
           dd == d * d
           ee == e * e
           aa == a * a
<1>6. aa \in Int /\ bb \in Int /\ cc \in Int /\ dd \in Int /\ ee \in Int
  OBVIOUS
<1>7. aa <= 4 * (bb + cc + dd + ee)
  <2> DEFINE bc == b * c
             bd == b * d
             be == b * e
             cd == c * d
             ce == c * e
             de == d * e
  <2>1. bc \in Int /\ bd \in Int /\ be \in Int /\ cd \in Int /\ ce \in Int /\ de \in Int
    OBVIOUS
  <2>2. aa = bb + cc + dd + ee + 2 * bc + 2 * bd + 2 * be + 2 * cd + 2 * ce + 2 * de
    BY <1>4, <1>5
  <2>3. /\ 2 * bc <= bb + cc /\ 2 * bd <= bb + dd /\ 2 * be <= bb + ee
        /\ 2 * cd <= cc + dd /\ 2 * ce <= cc + ee /\ 2 * de <= dd + ee
    BY <1>2
  <2> HIDE DEF aa, bb, cc, dd, ee, bc, bd, be, cd, ce, de
  <2> QED
    BY <1>6, <2>1, <2>2, <2>3
<1>8. 5 * aa <= 4 * (aa + bb + cc + dd + ee)
  <2> HIDE DEF aa, bb, cc, dd, ee
  <2> QED
    BY <1>6, <1>7
<1> QED
  BY <1>8

\* Five elements and their sum.
LEMMA TotalOfFive ==
  ASSUME NEW y \in Seq(Int), Len(y) = 5
  PROVE  /\ y[1] \in Int /\ y[2] \in Int /\ y[3] \in Int /\ y[4] \in Int /\ y[5] \in Int
         /\ Total(y) = y[1] + y[2] + y[3] + y[4] + y[5]
<1>1. PICK g : /\ g \in [0..5 -> Int]
               /\ g[0] = 0
               /\ \A i \in 1..5 : g[i] = g[i - 1] + y[i]
               /\ Total(y) = g[5]
  BY TotalAdds
<1>2. y[1] \in Int /\ y[2] \in Int /\ y[3] \in Int /\ y[4] \in Int /\ y[5] \in Int
  <2>1. \A i \in 1..Len(y) : y[i] \in Int
    BY ElementsAreInts
  <2>2. \A i \in 1..5 : y[i] \in Int
    BY <2>1
  <2>3. 1 \in 1..5 /\ 2 \in 1..5 /\ 3 \in 1..5 /\ 4 \in 1..5 /\ 5 \in 1..5
    OBVIOUS
  <2> QED
    BY <2>2, <2>3
<1>3. /\ g[1] = g[0] + y[1] /\ g[2] = g[1] + y[2] /\ g[3] = g[2] + y[3]
      /\ g[4] = g[3] + y[4] /\ g[5] = g[4] + y[5]
  <2>1. 1 \in 1..5 /\ 2 \in 1..5 /\ 3 \in 1..5 /\ 4 \in 1..5 /\ 5 \in 1..5
    OBVIOUS
  <2>2. 1 - 1 = 0 /\ 2 - 1 = 1 /\ 3 - 1 = 2 /\ 4 - 1 = 3 /\ 5 - 1 = 4
    OBVIOUS
  <2> QED
    BY <1>1, <2>1, <2>2
<1> QED
  BY <1>1, <1>2, <1>3

\* What is left of five amounts beside their line adds up to nothing.
LEMMA FiveResidualsCancel ==
  ASSUME NEW y \in Seq(Int), Len(y) = 5
  PROVE  LET r == Residuals(y)
         IN  r[1] + r[2] + r[3] + r[4] + r[5] = 0
<1> DEFINE r == Residuals(y)
           t == Total(y)
           v == Rise(y)
<1>1. t \in Int /\ v \in Int
  BY TotalIsInt, RiseIsInt
<1>2. /\ y[1] \in Int /\ y[2] \in Int /\ y[3] \in Int /\ y[4] \in Int /\ y[5] \in Int
      /\ t = y[1] + y[2] + y[3] + y[4] + y[5]
  BY TotalOfFive
<1>3. Shared(5) = 6 /\ Scale(5) = 20
  <2>1. 5 % 2 = 1 /\ 5 % 3 = 2
    BY SMT
  <2>2. Shared(5) = 6
    BY <2>1 DEF Shared
  <2> QED
    BY <2>2 DEF Scale
<1>4. \A i \in 1..5 :
        r[i] = Scale(5) * y[i] - ((5 * 5 - 1) * t + (3 * v) * (2 * i - 5 - 1)) \div Shared(5)
  BY DEF Residuals
<1> HIDE DEF r, t, v
<1>5. \A i \in 1..5 : r[i] = 20 * y[i] - (24 * t + (3 * v) * (2 * i - 6)) \div 6
  BY <1>3, <1>4
<1>6. /\ r[1] = 20 * y[1] - (24 * t - 12 * v) \div 6
      /\ r[2] = 20 * y[2] - (24 * t - 6 * v) \div 6
      /\ r[3] = 20 * y[3] - (24 * t) \div 6
      /\ r[4] = 20 * y[4] - (24 * t + 6 * v) \div 6
      /\ r[5] = 20 * y[5] - (24 * t + 12 * v) \div 6
  BY <1>1, <1>5
<1>7. /\ (24 * t - 12 * v) \div 6 = 4 * t - 2 * v
      /\ (24 * t - 6 * v) \div 6 = 4 * t - v
      /\ (24 * t) \div 6 = 4 * t
      /\ (24 * t + 6 * v) \div 6 = 4 * t + v
      /\ (24 * t + 12 * v) \div 6 = 4 * t + 2 * v
  BY <1>1, SMT
<1>8. r[1] + r[2] + r[3] + r[4] + r[5] = 0
  <2>1. /\ r[1] = 20 * y[1] - (4 * t - 2 * v) /\ r[2] = 20 * y[2] - (4 * t - v)
        /\ r[3] = 20 * y[3] - 4 * t
        /\ r[4] = 20 * y[4] - (4 * t + v) /\ r[5] = 20 * y[5] - (4 * t + 2 * v)
    BY <1>6, <1>7
  <2> DEFINE a == y[1]
             b == y[2]
             c == y[3]
             d == y[4]
             e == y[5]
  <2>2. a \in Int /\ b \in Int /\ c \in Int /\ d \in Int /\ e \in Int /\ t = a + b + c + d + e
    BY <1>2
  <2> HIDE DEF a, b, c, d, e
  <2>3. (20 * a - (4 * t - 2 * v)) + (20 * b - (4 * t - v)) + (20 * c - 4 * t)
          + (20 * d - (4 * t + v)) + (20 * e - (4 * t + 2 * v)) = 0
    BY <1>1, <2>2
  <2> QED
    BY <2>1, <2>3 DEF a, b, c, d, e
<1> QED
  BY <1>8 DEF r


\* What is left of amounts beside their line are integers.
LEMMA ResidualsAreInts ==
  ASSUME NEW y \in Seq(Int)
  PROVE  /\ Residuals(y) \in Seq(Int) /\ DOMAIN Residuals(y) = 1..Len(y)
         /\ Len(Residuals(y)) = Len(y)
<1> DEFINE n == Len(y)
           d == Shared(n)
           t == Total(y)
           v == Rise(y)
           c == Scale(n)
           offset == (n * n - 1) * t
           rise == 3 * v
           r == Residuals(y)
<1>1. n \in Nat /\ DOMAIN y = 1..n /\ \A i \in 1..n : y[i] \in Int
  BY ElementsAreInts
<1>2. t \in Int /\ v \in Int
  BY TotalIsInt, RiseIsInt
<1>3. r = [i \in 1..n |-> c * y[i] - (offset + rise * (2 * i - n - 1)) \div d]
  BY <1>1 DEF Residuals
<1> HIDE DEF n, t, v, r
<1>4. d \in Nat \ {0}
  BY DEF Shared
<1> HIDE DEF d
<1>5. c \in Int
  <2> DEFINE a == n * (n * n - 1)
  <2>1. a \in Int
    BY <1>1
  <2> HIDE DEF a
  <2>2. a \div d \in Int
    BY <1>4, <2>1
  <2> QED
    BY <2>2 DEF Scale, a, d
<1>6. offset \in Int /\ rise \in Int
  BY <1>1, <1>2
<1> HIDE DEF c, offset, rise
<1>7. ASSUME NEW i \in 1..n
      PROVE  c * y[i] - (offset + rise * (2 * i - n - 1)) \div d \in Int
  <2> DEFINE a == offset + rise * (2 * i - n - 1)
  <2>1. a \in Int
    BY <1>1, <1>6
  <2> HIDE DEF a
  <2>2. a \div d \in Int
    BY <1>4, <2>1
  <2>3. c * y[i] \in Int
    BY <1>1, <1>5
  <2> QED
    BY <2>2, <2>3 DEF a
<1>8. r \in [1..n -> Int]
  BY <1>3, <1>7
<1>9. r \in Seq(Int) /\ DOMAIN r = 1..n /\ Len(r) = n
  BY <1>1, <1>8
<1> QED
  BY <1>9 DEF n, r

\* The months that are anomalies are those of positions that are at least 1.8
\* standard deviations away; those positions are few.
LEMMA AnomaliesAreFew ==
  ASSUME NEW s \in Seq(Candidate)
  PROVE  LET n == Len(s)
         IN  /\ IsFiniteSet(Anomalies(s)) /\ Cardinality(Anomalies(s)) \in Nat
             /\ 81 * Cardinality(Anomalies(s)) <= 25 * AtLeast(0, n - 1)
             /\ n < 6 => Anomalies(s) = {}
<1> DEFINE n == Len(s)
           y == Amounts(s)
           r == Residuals(y)
           z == [i \in DOMAIN s |-> r[i] * r[i]]
           q == Total(z)
           line(i) == Scale(n) * s[i].kwh - r[i]
           J == {i \in DOMAIN s : /\ line(i) # 0
                                  /\ 25 * (n - 1) * r[i] * r[i] >= 81 * q
                                  /\ 100 * Magnitude(r[i]) >= 12 * Magnitude(line(i))}
           M == {s[i].month : i \in J}
           A == Anomalies(s)
<1>1. A = IF n < 4 \/ q = 0 THEN {} ELSE M
  BY DEF Anomalies
<1>2. n \in Nat /\ DOMAIN s = 1..n
  OBVIOUS
<1>3. y \in Seq(Int) /\ Len(y) = n
  BY AmountsArePositive
<1> HIDE DEF y, A
<1>4. DOMAIN r = 1..n /\ \A i \in 1..n : r[i] \in Int
  <2>1. r \in Seq(Int) /\ Len(r) = n
    BY <1>3, ResidualsAreInts
  <2> HIDE DEF r
  <2> QED
    BY <2>1, ElementsAreInts
<1>5. n = 5 => r[1] + r[2] + r[3] + r[4] + r[5] = 0
  BY <1>3, FiveResidualsCancel
<1> HIDE DEF r
<1>6. z \in Seq(Nat) /\ Len(z) = n /\ DOMAIN z = 1..n /\ \A i \in 1..n : z[i] = r[i] * r[i]
  <2>1. \A i \in 1..n : r[i] * r[i] \in Nat
    BY <1>4, SquareIsNatural
  <2>2. z \in [1..n -> Nat]
    BY <1>2, <2>1
  <2> QED
    BY <1>2, <2>2
<1> HIDE DEF z
<1>7. q \in Nat
  <2>1. z \in Seq(Int)
    BY <1>6
  <2>2. q \in Int
    BY <2>1, TotalIsInt
  <2>3. {} \in SUBSET DOMAIN z /\ \A i \in {} : 1 * z[i] >= 0
    OBVIOUS
  <2>4. Cardinality({}) * 0 <= 1 * q /\ Cardinality({}) = 0
    BY <1>6, <2>3, LargeOnesAreFew, FS_EmptySet
  <2> HIDE DEF q
  <2> QED
    BY <2>2, <2>4
<1>8. ASSUME NEW i \in J
      PROVE  /\ i \in 1..n
             /\ n >= 1 => 25 * (n - 1) * z[i] >= 81 * q
  <2>1. i \in 1..n /\ 25 * (n - 1) * r[i] * r[i] >= 81 * q
    BY <1>2
  <2> DEFINE c == 25 * (n - 1)
             x == r[i]
  <2>2. c \in Int /\ x \in Int
    BY <1>2, <1>4, <2>1
  <2> HIDE DEF c, x
  <2>3. c * x * x = c * (x * x)
    BY <2>2, SMT
  <2>4. z[i] = x * x
    BY <1>6, <2>1 DEF x
  <2> QED
    BY <2>1, <2>3, <2>4 DEF c, x
<1> HIDE DEF J, q
<1>9. IsFiniteSet(J)
  <2>1. J \in SUBSET DOMAIN s
    BY <1>2, <1>8
  <2> QED
    BY <2>1, PositionsAreFinite
<1>10. IsFiniteSet(M) /\ Cardinality(M) \in Nat /\ Cardinality(M) <= Cardinality(J)
  <2> DEFINE f == [i \in J |-> s[i].month]
  <2>1. f \in Surjection(J, M)
    BY DEF Surjection
  <2> HIDE DEF f, M
  <2> QED
    BY <1>9, <2>1, FS_Surjection, FS_CardinalityType
<1>11. CASE n < 4 \/ q = 0
  <2>1. A = {}
    BY <1>1, <1>11
  <2>2. IsFiniteSet(A) /\ Cardinality(A) = 0
    BY <2>1, FS_EmptySet
  <2>3. AtLeast(0, n - 1) \in Int /\ AtLeast(0, n - 1) >= 0
    BY <1>2 DEF AtLeast
  <2> QED
    BY <2>1, <2>2, <2>3 DEF A
<1>12. CASE ~(n < 4 \/ q = 0)
  <2> DEFINE k == Cardinality(J)
             c == 25 * (n - 1)
  <2>1. c \in Nat /\ n >= 4 /\ q > 0 /\ 81 * q \in Nat /\ A = M
    BY <1>1, <1>2, <1>7, <1>12
  <2> HIDE DEF c
  <2>2. k \in Nat /\ k * (81 * q) <= c * q
    <3>1. J \in SUBSET DOMAIN z
      BY <1>6, <1>8
    <3>2. \A i \in J : c * z[i] >= 81 * q
      BY <1>8, <2>1 DEF c
    <3> QED
      BY <1>6, <2>1, <3>1, <3>2, LargeOnesAreFew DEF q
  <2> HIDE DEF k
  <2>3. 81 * k <= c
    <3>1. k * (81 * q) = (81 * k) * q
      BY <1>7, <2>2, SMT
    <3>2. 81 * k \in Int /\ c \in Int /\ q \in Int /\ (81 * k) * q <= c * q
      BY <1>7, <2>1, <2>2, <3>1
    <3> QED
      BY <2>1, <3>2, CancelFactor
  <2>4. c = 25 * AtLeast(0, n - 1)
    BY <2>1 DEF AtLeast, c
  <2>5. IsFiniteSet(A) /\ Cardinality(A) \in Nat /\ 81 * Cardinality(A) <= c
    <3> DEFINE a == Cardinality(A)
    <3>1. IsFiniteSet(A) /\ a \in Nat /\ a <= k
      BY <1>10, <2>1 DEF k
    <3> HIDE DEF a
    <3>2. 81 * a <= c
      BY <2>1, <2>2, <2>3, <3>1
    <3> QED
      BY <3>1, <3>2 DEF a
  \* Of five residuals none is large: the others outweigh it.
  <2>6. ASSUME n = 5, NEW i \in J
        PROVE  FALSE
    <3> DEFINE x1 == r[1]
               x2 == r[2]
               x3 == r[3]
               x4 == r[4]
               x5 == r[5]
    <3>1. 1 \in 1..n /\ 2 \in 1..n /\ 3 \in 1..n /\ 4 \in 1..n /\ 5 \in 1..n
      BY <2>6
    <3>2. /\ x1 \in Int /\ x2 \in Int /\ x3 \in Int /\ x4 \in Int /\ x5 \in Int
          /\ x1 + x2 + x3 + x4 + x5 = 0
      BY <1>4, <1>5, <2>6, <3>1
    <3>3. q = z[1] + z[2] + z[3] + z[4] + z[5]
      <4>1. z \in Seq(Int) /\ Len(z) = 5
        BY <1>6, <2>6
      <4> QED
        BY <4>1, TotalOfFive DEF q
    <3>4. z[1] = x1 * x1 /\ z[2] = x2 * x2 /\ z[3] = x3 * x3 /\ z[4] = x4 * x4 /\ z[5] = x5 * x5
      BY <1>6, <3>1
    <3> HIDE DEF x1, x2, x3, x4, x5
    <3>5. q = x1 * x1 + x2 * x2 + x3 * x3 + x4 * x4 + x5 * x5
      BY <3>3, <3>4
    <3>6. 100 * z[i] >= 81 * q
      <4>1. n >= 1 /\ 25 * (n - 1) = 100
        BY <2>6
      <4> QED
        BY <1>8, <4>1
    <3>7. i = 1 \/ i = 2 \/ i = 3 \/ i = 4 \/ i = 5
      BY <1>8, <2>6
    <3> DEFINE w1 == x1 * x1
               w2 == x2 * x2
               w3 == x3 * x3
               w4 == x4 * x4
               w5 == x5 * x5
    <3>8. /\ 5 * w1 <= 4 * (w1 + w2 + w3 + w4 + w5)
          /\ 5 * w2 <= 4 * (w2 + w1 + w3 + w4 + w5)
          /\ 5 * w3 <= 4 * (w3 + w1 + w2 + w4 + w5)
          /\ 5 * w4 <= 4 * (w4 + w1 + w2 + w3 + w5)
          /\ 5 * w5 <= 4 * (w5 + w1 + w2 + w3 + w4)
      <4>1. /\ x2 + x1 + x3 + x4 + x5 = 0 /\ x3 + x1 + x2 + x4 + x5 = 0
            /\ x4 + x1 + x2 + x3 + x5 = 0 /\ x5 + x1 + x2 + x3 + x4 = 0
        BY <3>2
      <4> QED
        BY <3>2, <4>1, SquareOfSum
    <3>9. w1 \in Int /\ w2 \in Int /\ w3 \in Int /\ w4 \in Int /\ w5 \in Int
      BY <3>2
    <3>10. q = w1 + w2 + w3 + w4 + w5
      BY <3>5
    <3>11. z[i] = w1 \/ z[i] = w2 \/ z[i] = w3 \/ z[i] = w4 \/ z[i] = w5
      BY <3>4, <3>7
    <3> HIDE DEF w1, w2, w3, w4, w5
    <3>12. z[i] \in Int /\ 5 * z[i] <= 4 * q
      BY <3>8, <3>9, <3>10, <3>11
    <3> QED
      BY <1>7, <2>1, <3>6, <3>12
  <2>7. n < 6 => A = {}
    <3>1. CASE n = 4
      <4>1. k = 0
        BY <2>2, <2>3, <3>1 DEF c
      <4>2. J = {}
        BY <1>9, <4>1, FS_EmptySet DEF k
      <4> QED
        BY <2>1, <4>2
    <3>2. CASE n = 5
      BY <2>1, <2>6, <3>2
    <3> HIDE DEF n
    <3>3. n < 6 => n = 4 \/ n = 5
      BY <1>2, <2>1
    <3> QED
      BY <3>1, <3>2, <3>3
  <2> QED
    BY <2>4, <2>5, <2>7 DEF A
<1> QED
  BY <1>11, <1>12

\* Fewer than a third of the months of a series are anomalies, and with fewer
\* than six months none can be.
THEOREM AnomaliesCorrect ==
  Spec => []AnomaliesAreRare
<1>1. BillsAreReviewed => AnomaliesAreRare
  <2> SUFFICES ASSUME BillsAreReviewed, NEW b \in Bill
               PROVE  LET s == Resolve(bill, b) IN
                      /\ Len(s) < 6 => Anomalies(s) = {}
                      /\ 3 * Cardinality(Anomalies(s)) < AtLeast(1, Len(s))
    BY DEF AnomaliesAreRare
  <2> DEFINE s == Resolve(bill, b)
             a == Cardinality(Anomalies(s))
  <2>1. s \in Seq(Candidate)
    BY ReviewedBills, ResolveIsBest DEF BestOf
  <2> HIDE DEF s
  <2>2. /\ a \in Nat /\ 81 * a <= 25 * AtLeast(0, Len(s) - 1)
        /\ Len(s) < 6 => Anomalies(s) = {}
    BY <2>1, AnomaliesAreFew
  <2>3. Len(s) \in Nat
    BY <2>1
  <2> HIDE DEF a
  <2>4. 3 * a < AtLeast(1, Len(s))
    BY <2>2, <2>3 DEF AtLeast
  <2> QED
    BY <2>2, <2>4 DEF s, a
<1> QED
  BY <1>1, ReviewedAlways, PTL

-----------------------------------------------------------------------------
(* What is served.  Nothing here depends on what the series and the         *)
(* criterion of trust compute, only on when they are asked.                *)

\* What a row of artefacts must have for a reader to find it complete.
Complete(x) == Len(x.points) = Horizon /\ x.insights # <<>>

\* A forecast that may be served for series s.
Servable(s, x) ==
  \/ Trustworthy(s, Predictions(x.points))
  \/ x.model = "fallback" /\ x.points = Fallback(s)

\* Artefacts are stored whole, one row for each bill; and what was answered
\* last may be served.
ServedInv ==
  /\ DOMAIN stored = Bill
  /\ \A b \in Bill : stored[b] # NoArtefacts => Complete(stored[b])
  /\ answer # None => answer.bill \in Bill
  /\ ServedIsTrusted

\* The predictions of a forecast made of p are p.
LEMMA PredictionsOfMonths ==
  ASSUME NEW first, NEW p, DOMAIN p = 1..Horizon, p = [k \in DOMAIN p |-> p[k]]
  PROVE  Predictions(Months(first, p)) = p
  BY DEF Predictions, Months

\* A forecast has a point for every month of the horizon.
LEMMA HorizonOfMonths ==
  ASSUME NEW first, NEW p
  PROVE  Len(Months(first, p)) = Horizon
  BY ForecastAssumption DEF Months

\* The fallback is a forecast, with a series and without one.
LEMMA HorizonOfFallback ==
  ASSUME NEW s
  PROVE  Len(Fallback(s)) = Horizon
<1> DEFINE zeros == [k \in 1..Horizon |-> 0]
           y == Amounts(s)
           recent == LastOf(y, 3)
           mean == (Milli * Total(recent)) \div Len(recent)
           mix == [k \in 1..Horizon |->
                     AtLeast(0, (65 * Trend(y, Len(y) - 1 + k) + 35 * mean) \div 100)]
<1>1. CASE s = <<>>
  <2>1. Fallback(s) = Months(Today, zeros)
    BY <1>1 DEF Fallback
  <2> HIDE DEF zeros
  <2> QED
    BY <2>1, HorizonOfMonths
<1>2. CASE s # <<>>
  <2>1. Fallback(s) = Months(Last(s).month + 1, mix)
    BY <1>2 DEF Fallback
  <2> HIDE DEF mix
  <2> QED
    BY <2>1, HorizonOfMonths
<1> QED
  BY <1>1, <1>2

\* Something is said of every series.
LEMMA InsightsAreSaid ==
  ASSUME NEW s
  PROVE  Insights(s) # <<>>
<1> DEFINE when(cond, kind) == IF cond THEN <<kind>> ELSE <<>>
           said == when(RecentChange(s), "trend") \o when(Seasonality(s), "seasonality")
                     \o when(Anomalies(s) # {}, "anomaly") \o when(s # <<>>, "forecast")
<1>1. Insights(s) = IF said = <<>> THEN <<"general">> ELSE said
  BY DEF Insights
<1> HIDE DEF said
<1> QED
  BY <1>1

\* What is built for a series is complete, and may be served for that series:
\* an answer of Prophet is taken only when it is trusted.
LEMMA BuiltIsServable ==
  ASSUME NEW s, NEW prophet \in Answers
  PROVE  Complete(Build(s, prophet)) /\ Servable(s, Build(s, prophet))
<1>1. CASE UseProphet(s) /\ s # <<>> /\ prophet # None /\ Trustworthy(s, prophet)
  <2>1. Build(s, prophet).points = Months(Last(s).month + 1, prophet)
    BY <1>1 DEF Build, Generate
  <2>2. prophet \in [1..Horizon -> Nat]
    BY <1>1, ForecastAssumption DEF Answers
  <2>3. Predictions(Build(s, prophet).points) = prophet
    BY <2>1, <2>2, PredictionsOfMonths
  <2>4. Servable(s, Build(s, prophet))
    BY <1>1, <2>3 DEF Servable
  <2>5. Len(Build(s, prophet).points) = Horizon
    BY <2>1, HorizonOfMonths
  <2>6. Build(s, prophet).insights # <<>>
    BY InsightsAreSaid DEF Build
  <2> QED
    BY <2>4, <2>5, <2>6 DEF Complete
<1>2. CASE ~(UseProphet(s) /\ s # <<>> /\ prophet # None /\ Trustworthy(s, prophet))
  <2>1. /\ Build(s, prophet).points = Fallback(s)
        /\ Build(s, prophet).model = "fallback"
    BY <1>2 DEF Build, Generate
  <2>2. Build(s, prophet).insights # <<>>
    BY InsightsAreSaid DEF Build
  <2> QED
    BY <2>1, <2>2, HorizonOfFallback DEF Complete, Servable
<1> QED
  BY <1>1, <1>2

\* A bill that changes takes its artefacts with it and leaves no answer.
LEMMA ServedChange ==
  ASSUME ServedInv, NEW b \in Bill, NEW row, NEW artefacts,
         artefacts = NoArtefacts \/ Complete(artefacts),
         Change(b, row, artefacts)
  PROVE  ServedInv'
<1>1. answer' = None /\ stored' = [stored EXCEPT ![b] = artefacts]
  BY DEF Change
<1>2. DOMAIN stored' = Bill
  BY <1>1 DEF ServedInv
<1>3. \A c \in Bill : stored'[c] # NoArtefacts => Complete(stored'[c])
  BY <1>1 DEF ServedInv
<1>4. ServedIsTrusted'
  BY <1>1 DEF ServedIsTrusted
<1> QED
  BY <1>1, <1>2, <1>3, <1>4 DEF ServedInv, Complete

\* A reader is served what is stored and still trusted, or what has just been
\* built for the series.
LEMMA ServedGet ==
  ASSUME ServedInv, NEW b \in Bill, NEW prophet \in Answers, Get(b, prophet)
  PROVE  ServedInv'
<1> DEFINE s == Resolve(bill, b)
<1>1. /\ answer' = [bill |-> b, reused |-> Reusable(b, s)]
      /\ bill' = bill
      /\ stored' = IF Reusable(b, s) THEN stored ELSE [stored EXCEPT ![b] = Build(s, prophet)]
  BY DEF Get
<1>2. answer'.bill = b
  BY <1>1
<1>3. Resolve(bill', answer'.bill) = s
  BY <1>1, <1>2
<1> HIDE DEF s
<1>4. Complete(Build(s, prophet)) /\ Servable(s, Build(s, prophet))
  BY BuiltIsServable
<1>5. DOMAIN stored' = Bill
  BY <1>1 DEF ServedInv
<1>6. \A c \in Bill : stored'[c] # NoArtefacts => Complete(stored'[c])
  BY <1>1, <1>4 DEF ServedInv
<1>7. Servable(s, stored'[b])
  <2>1. CASE Reusable(b, s)
    BY <1>1, <2>1 DEF Reusable, Servable
  <2>2. CASE ~Reusable(b, s)
    BY <1>1, <1>4, <2>2 DEF ServedInv
  <2> QED
    BY <2>1, <2>2
<1>8. ServedIsTrusted'
  BY <1>2, <1>3, <1>7 DEF ServedIsTrusted, Servable
<1> QED
  BY <1>2, <1>5, <1>6, <1>8 DEF ServedInv, Complete

\* Nothing is stored and nothing answered at the start.
LEMMA ServedInit ==
  Init => ServedInv
  BY DEF Init, ServedInv, ServedIsTrusted

\* The invariant is inductive, one step for each request.
LEMMA ServedStep ==
  ServedInv /\ [Next]_vars => ServedInv'
<1> SUFFICES ASSUME ServedInv, [Next]_vars
             PROVE  ServedInv'
  OBVIOUS
<1>1. ASSUME NEW b \in Bill, NEW data \in Review(b), NEW prophet \in Answers,
             Confirm(b, data, prophet)
      PROVE  ServedInv'
  BY <1>1, BuiltIsServable, ServedChange DEF Confirm
<1>2. ASSUME NEW b \in Bill, NEW data \in Review(b), ConfirmUnderived(b, data)
      PROVE  ServedInv'
  BY <1>2, ServedChange DEF ConfirmUnderived
<1>3. ASSUME NEW b \in Bill, Extract(b)
      PROVE  ServedInv'
  BY <1>3, ServedChange DEF Extract
<1>4. ASSUME NEW b \in Bill, Delete(b)
      PROVE  ServedInv'
  BY <1>4, ServedChange DEF Delete
<1>5. ASSUME NEW b \in Bill, NEW prophet \in Answers, Get(b, prophet)
      PROVE  ServedInv'
  BY <1>5, ServedGet
<1>6. CASE UNCHANGED vars
  BY <1>6 DEF vars, ServedInv, ServedIsTrusted, Complete
<1> QED
  BY <1>1, <1>2, <1>3, <1>4, <1>5, <1>6 DEF Next

\* The invariant of the specification, which the theorems below rest on.
LEMMA ServedAlways ==
  Spec => []ServedInv
<1> QED
  BY ServedInit, ServedStep, PTL DEF Spec

\* What a client is served can be trusted for the series as it is now, or is
\* the fallback computed from that very series.
THEOREM ServedCorrect ==
  Spec => []ServedIsTrusted
<1>1. ServedInv => ServedIsTrusted
  BY DEF ServedInv
<1> QED
  BY ServedAlways, <1>1, PTL

\* What a step of the specification does to what is stored complete: an answer
\* that was derived anew comes from a read that found it untrusted.
LEMMA ReplacedIsUntrusted ==
  ASSUME ServedInv, Next, NEW b \in Bill,
         answer' = [bill |-> b, reused |-> FALSE], stored[b] # NoArtefacts
  PROVE  ~Trustworthy(Resolve(bill, b), Predictions(stored[b].points))
<1>1. answer' # None
  <2>1. [bill |-> b, reused |-> FALSE] \in [bill : Bill, reused : BOOLEAN]
    OBVIOUS
  <2> HIDE DEF Bill
  <2> QED
    BY <2>1, ForecastAssumption
<1>2. PICK c \in Bill, prophet \in Answers : Get(c, prophet)
  BY <1>1 DEF Next, Confirm, ConfirmUnderived, Extract, Delete, Change
<1>3. PICK reuse \in BOOLEAN : /\ answer' = [bill |-> c, reused |-> reuse]
                               /\ reuse <=> Reusable(c, Resolve(bill, c))
  <2>1. Reusable(c, Resolve(bill, c)) \in BOOLEAN
    BY DEF Reusable
  <2> QED
    BY <1>2, <2>1 DEF Get
<1>4. c = b /\ reuse = FALSE
  BY <1>3
<1>5. ~Reusable(b, Resolve(bill, b))
  BY <1>3, <1>4
<1>6. Complete(stored[b])
  BY DEF ServedInv
<1> QED
  BY <1>5, <1>6 DEF Reusable, Complete

\* Reading changes nothing unless it must: what is stored is always complete,
\* so it is replaced only when it is not trusted.
THEOREM ReplacementCorrect ==
  Spec => OnlyUntrustedIsReplaced
<1> DEFINE Kept == \A b \in Bill :
                     /\ answer' = [bill |-> b, reused |-> FALSE]
                     /\ stored[b] # NoArtefacts
                     => ~Trustworthy(Resolve(bill, b), Predictions(stored[b].points))
<1>1. ServedInv /\ [Next]_vars => [Kept]_vars
  BY ReplacedIsUntrusted
<1>2. Spec => [][Kept]_vars
  <2> HIDE DEF Kept
  <2> QED
    BY ServedAlways, <1>1, PTL DEF Spec
<1> QED
  BY <1>2 DEF OnlyUntrustedIsReplaced
=============================================================================
