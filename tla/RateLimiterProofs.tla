-------------------------- MODULE RateLimiterProofs --------------------------
(***************************************************************************)
(* Proofs about RateLimiter for any scopes, clients, requests, threads,    *)
(* limits and windows, any resolution of the clock and any wait for the    *)
(* lock.                                                                   *)
(***************************************************************************)
EXTENDS RateLimiter, SequenceTheorems, WellFoundedInduction, TLAPS

\* A queue of ages.
Queue(k, s) ==
  /\ s \in Seq(Nat)
  /\ s = <<>> \/ Len(s) <= Limit[k[1]]
  /\ \A i \in DOMAIN s : s[i] <= Cap(k)

\* The readings of the clock in b against the admissions g they stand for: the
\* last ones belong to each other, up to the wait for the lock, and those whose
\* reading has been purged are old.
Matches(k, b, g) ==
  /\ Len(b) <= Len(g)
  /\ \A i \in 1..Len(b) : LET j == Len(g) - Len(b) + i IN
                          g[j] <= b[i] /\ b[i] <= g[j] + MaxLag
  /\ \A j \in 1..(Len(g) - Len(b)) : g[j] >= Window(k) - MaxLag

\* A thread that is to decide has a key with a limit.
Keyed == \A t \in Thread : key[t] # None => key[t] \in Key /\ ~Unlimited(key[t][1])

\* A promised retry counts on the head of a full queue.
Promised ==
  \A k \in Key : wait[k] # None =>
    /\ wait[k] \in Int /\ wait[k] >= -MaxLag
    /\ Len(bucket[k]) = Limit[k[1]] /\ Limit[k[1]] > 0
    /\ bucket[k][1] >= Window(k) - wait[k]

\* The inductive invariant.
Inv ==
  /\ TypeOK
  /\ Keyed
  /\ \A k \in Key : Matches(k, bucket[k], granted[k])
  /\ Promised

-----------------------------------------------------------------------------
(* Windows, limits and queues.                                             *)

\* What the constants of a key are.
LEMMA Limited ==
  ASSUME NEW k \in Key
  PROVE  /\ k[1] \in Scope /\ Limit[k[1]] \in Int
         /\ Window(k) \in Int /\ Cap(k) = Window(k) + MaxLag
         /\ ~Unlimited(k[1]) => Limit[k[1]] > 0 /\ Window(k) > 0
<1>1. /\ k[1] \in Scope /\ Limit[k[1]] \in Int /\ WindowSeconds[k[1]] \in Int
      /\ Hz \in Nat \ {0} /\ MaxLag \in Nat
  BY SettingsAssumption, TimeAssumption DEF Key
<1>2. \A x \in Int : x * Hz \in Int /\ (x > 0 => x * Hz > 0)
  BY <1>1
<1>3. QED
  BY <1>1, <1>2 DEF Window, Cap, Unlimited

\* What purging leaves: the entries from the first one within the window on.
LEMMA Purging ==
  ASSUME NEW k \in Key, NEW b \in Seq(Nat), NEW l \in Nat
  PROVE  \E n \in 0..Len(b) :
           /\ \A i \in 1..n : ~InWindow(k, b[i], l)
           /\ n < Len(b) => InWindow(k, b[n + 1], l)
           /\ Purged(k, b, l) \in Seq(Nat)
           /\ Len(Purged(k, b, l)) = Len(b) - n
           /\ \A i \in 1..(Len(b) - n) : Purged(k, b, l)[i] = b[n + i]
<1> DEFINE Stops(n) == n < Len(b) => InWindow(k, b[n + 1], l)
           T == {n \in 0..Len(b) : Stops(n)}
           R == OpToRel(<, Nat)
<1>1. Len(b) \in Nat
  OBVIOUS
<1>2. T \subseteq Nat /\ Len(b) \in T
  BY <1>1
<1>3. PICK m \in T : \A n \in T : ~(<<n, m>> \in R)
  <2> HIDE DEF T, R
  <2>1. IsWellFoundedOn(R, Nat)
    BY NatLessThanWellFounded DEF R
  <2>2. QED
    BY <1>2, <2>1, WFMin
<1>4. m \in Nat /\ m \in 0..Len(b) /\ Stops(m)
  OBVIOUS
<1>5. \A n \in T : n >= m
  <2> HIDE DEF T
  <2> SUFFICES ASSUME NEW n \in T, n < m
               PROVE  FALSE
    BY <1>2, <1>4
  <2>1. <<n, m>> \in Nat \X Nat
    BY <1>2, <1>4
  <2>2. R = {ss \in Nat \X Nat : ss[1] < ss[2]}
    BY DEF OpToRel
  <2> HIDE DEF R
  <2>3. <<n, m>>[1] < <<n, m>>[2]
    OBVIOUS
  <2>4. <<n, m>> \in R
    BY <2>1, <2>2, <2>3, Zenon
  <2>5. QED
    BY <1>3, <2>4
<1>6. \A i \in 1..m : ~InWindow(k, b[i], l)
  <2> SUFFICES ASSUME NEW i \in 1..m, InWindow(k, b[i], l)
               PROVE  FALSE
    OBVIOUS
  <2>1. i - 1 \in 0..Len(b) /\ (i - 1) + 1 = i
    BY <1>1, <1>4
  <2>2. i - 1 \in T
    BY <2>1
  <2>3. i - 1 >= m
    <3> HIDE DEF T
    <3>1. QED
      BY <1>5, <2>2
  <2>4. m \in Nat /\ i \in Int /\ i <= m
    BY <1>4
  <2> HIDE DEF T
  <2>5. QED
    BY <2>3, <2>4
<1> DEFINE First(n) == /\ \A i \in 1..n : ~InWindow(k, b[i], l)
                       /\ n < Len(b) => InWindow(k, b[n + 1], l)
           c == CHOOSE n \in 0..Len(b) : First(n)
<1>7. \E n \in 0..Len(b) : First(n)
  BY <1>4, <1>6
<1>8. c \in 0..Len(b) /\ First(c)
  <2> HIDE DEF First
  <2>1. QED
    BY <1>7
<1>9. Purged(k, b, l) = SubSeq(b, c + 1, Len(b))
  BY DEF Purged
<1> HIDE DEF c
<1>10. /\ SubSeq(b, c + 1, Len(b)) \in Seq(Nat)
       /\ Len(SubSeq(b, c + 1, Len(b))) = Len(b) - c
       /\ \A i \in 1..(Len(b) - c) : SubSeq(b, c + 1, Len(b))[i] = b[c + i]
  BY <1>1, <1>8, SubSeqProperties
<1>11. QED
  BY <1>8, <1>9, <1>10

-----------------------------------------------------------------------------
(* One queue at a step.                                                    *)

\* An element of a queue is an age.
LEMMA Ages ==
  ASSUME NEW k \in Key, NEW s, Queue(k, s)
  PROVE  /\ Len(s) \in Nat /\ DOMAIN s = 1..Len(s)
         /\ \A i \in 1..Len(s) : s[i] \in Nat /\ s[i] <= Cap(k)
         /\ Limit[k[1]] > 0 => Len(s) <= Limit[k[1]]
  BY Limited DEF Queue

\* Time passes: a queue stays one of the same length.
LEMMA OlderQueue ==
  ASSUME NEW k \in Key, NEW s, Queue(k, s)
  PROVE  LET o == [i \in DOMAIN s |-> Older(k, s[i])] IN
         /\ Queue(k, o) /\ Len(o) = Len(s)
         /\ \A i \in 1..Len(s) : o[i] = Older(k, s[i])
<1> DEFINE o == [i \in DOMAIN s |-> Older(k, s[i])]
<1>1. /\ Len(s) \in Nat /\ DOMAIN s = 1..Len(s)
      /\ \A i \in 1..Len(s) : s[i] \in Nat /\ s[i] <= Cap(k)
  BY Ages
<1>2. Cap(k) \in Int
  BY Limited, TimeAssumption
<1>3. \A i \in 1..Len(s) : Older(k, s[i]) \in Nat /\ Older(k, s[i]) <= Cap(k)
  BY <1>1, <1>2 DEF Older
<1>4. o \in [1..Len(s) -> Nat]
  BY <1>1, <1>3
<1>5. o \in Seq(Nat) /\ Len(o) = Len(s) /\ DOMAIN o = 1..Len(s)
  <2> HIDE DEF o
  <2>1. o \in Seq(Nat)
    BY <1>1, <1>4, SeqDef
  <2>2. QED
    BY <1>1, <1>4, <2>1, LenProperties
<1>6. \A i \in 1..Len(s) : o[i] = Older(k, s[i])
  BY <1>1
<1>7. o = <<>> \/ Len(o) <= Limit[k[1]]
  <2>1. CASE s = <<>>
    <3>1. Len(o) = 0
      BY <1>5, <2>1
    <3> HIDE DEF o
    <3>2. QED
      BY <1>5, <3>1, EmptySeq
  <2>2. CASE Len(s) <= Limit[k[1]]
    BY <1>5, <2>2
  <2>3. QED
    BY <2>1, <2>2 DEF Queue
<1> HIDE DEF o
<1>8. Queue(k, o)
  BY <1>3, <1>5, <1>6, <1>7 DEF Queue
<1>9. QED
  BY <1>5, <1>6, <1>8 DEF o

\* Time passes: readings and admissions grow older together.
LEMMA OlderMatches ==
  ASSUME NEW k \in Key, NEW b, NEW g, Queue(k, b), Queue(k, g), Matches(k, b, g)
  PROVE  Matches(k, [i \in DOMAIN b |-> Older(k, b[i])], [i \in DOMAIN g |-> Older(k, g[i])])
<1> DEFINE ob == [i \in DOMAIN b |-> Older(k, b[i])]
           og == [i \in DOMAIN g |-> Older(k, g[i])]
<1>1. /\ Len(ob) = Len(b) /\ \A i \in 1..Len(b) : ob[i] = Older(k, b[i])
      /\ Len(og) = Len(g) /\ \A i \in 1..Len(g) : og[i] = Older(k, g[i])
  BY OlderQueue
<1>2. /\ Len(b) \in Nat /\ \A i \in 1..Len(b) : b[i] \in Nat /\ b[i] <= Cap(k)
      /\ Len(g) \in Nat /\ \A i \in 1..Len(g) : g[i] \in Nat /\ g[i] <= Cap(k)
  BY Ages
<1>3. Window(k) \in Int /\ Cap(k) \in Int /\ MaxLag \in Nat
  BY Limited, TimeAssumption
<1> HIDE DEF ob, og
<1>4. \A i \in 1..Len(b) : LET j == Len(g) - Len(b) + i IN
        og[j] <= ob[i] /\ ob[i] <= og[j] + MaxLag
  <2> TAKE i \in 1..Len(b)
  <2> DEFINE j == Len(g) - Len(b) + i
  <2>1. j \in 1..Len(g) /\ g[j] <= b[i] /\ b[i] <= g[j] + MaxLag
    BY <1>2 DEF Matches
  <2>2. /\ ob[i] = Older(k, b[i]) /\ og[j] = Older(k, g[j])
        /\ b[i] \in Nat /\ g[j] \in Nat /\ b[i] <= Cap(k) /\ g[j] <= Cap(k)
    BY <1>1, <1>2, <2>1
  <2> HIDE DEF j
  <2>3. og[j] <= ob[i] /\ ob[i] <= og[j] + MaxLag
    BY <1>3, <2>1, <2>2 DEF Older
  <2>4. QED
    BY <2>3 DEF j
<1>5. \A j \in 1..(Len(g) - Len(b)) : og[j] >= Window(k) - MaxLag
  <2> TAKE j \in 1..(Len(g) - Len(b))
  <2>1. j \in 1..Len(g) /\ g[j] >= Window(k) - MaxLag
    BY <1>2 DEF Matches
  <2>2. og[j] = Older(k, g[j]) /\ g[j] \in Nat
    BY <1>1, <1>2, <2>1
  <2>3. QED
    BY <1>3, <2>1, <2>2 DEF Older
<1>6. Len(ob) <= Len(og)
  BY <1>1 DEF Matches
<1>7. Matches(k, ob, og)
  BY <1>1, <1>4, <1>5, <1>6 DEF Matches
<1>8. QED
  BY <1>7 DEF ob, og

\* Purging keeps what is left matched: an admission whose reading goes is old.
LEMMA PurgedMatches ==
  ASSUME NEW k \in Key, NEW l \in 0..MaxLag, NEW b, NEW g,
         Queue(k, b), Queue(k, g), Matches(k, b, g)
  PROVE  LET p == Purged(k, b, l) IN
         /\ p \in Seq(Nat) /\ Len(p) <= Len(b) /\ Matches(k, p, g)
         /\ \A i \in 1..Len(p) : p[i] <= Cap(k)
         /\ Len(p) > 0 => InWindow(k, p[1], l)
         /\ Len(p) = Len(b) => p = b
<1> DEFINE p == Purged(k, b, l)
<1>1. /\ Len(b) \in Nat /\ \A i \in 1..Len(b) : b[i] \in Nat /\ b[i] <= Cap(k)
      /\ Len(g) \in Nat /\ \A i \in 1..Len(g) : g[i] \in Nat
  BY Ages
<1>2. Window(k) \in Int /\ MaxLag \in Nat /\ l \in Nat /\ b \in Seq(Nat)
  BY Limited, TimeAssumption DEF Queue
<1>3. PICK n \in 0..Len(b) :
        /\ \A i \in 1..n : ~InWindow(k, b[i], l)
        /\ n < Len(b) => InWindow(k, b[n + 1], l)
        /\ p \in Seq(Nat)
        /\ Len(p) = Len(b) - n
        /\ \A i \in 1..(Len(b) - n) : p[i] = b[n + i]
  BY <1>2, Purging
<1> HIDE DEF p
<1>4. \A i \in 1..Len(p) : n + i \in 1..Len(b) /\ p[i] = b[n + i]
  BY <1>1, <1>3
<1>5. \A i \in 1..Len(p) : LET j == Len(g) - Len(p) + i IN
        g[j] <= p[i] /\ p[i] <= g[j] + MaxLag
  <2> TAKE i \in 1..Len(p)
  <2>1. n + i \in 1..Len(b) /\ p[i] = b[n + i]
    BY <1>4
  <2>2. Len(g) - Len(p) + i = Len(g) - Len(b) + (n + i)
    BY <1>1, <1>3
  <2>3. /\ g[Len(g) - Len(b) + (n + i)] <= b[n + i]
        /\ b[n + i] <= g[Len(g) - Len(b) + (n + i)] + MaxLag
    BY <2>1 DEF Matches
  <2>4. QED
    BY <2>1, <2>2, <2>3
<1>6. \A j \in 1..(Len(g) - Len(p)) : g[j] >= Window(k) - MaxLag
  <2> TAKE j \in 1..(Len(g) - Len(p))
  <2>1. CASE j <= Len(g) - Len(b)
    <3>1. j \in 1..(Len(g) - Len(b))
      BY <1>1, <2>1
    <3>2. QED
      BY <3>1 DEF Matches
  <2>2. CASE j > Len(g) - Len(b)
    <3> DEFINE i == j - (Len(g) - Len(b))
    <3>1. i \in 1..n /\ i \in 1..Len(b) /\ Len(g) - Len(b) + i = j /\ j \in 1..Len(g)
      BY <1>1, <1>3, <2>2 DEF Matches
    <3> HIDE DEF i
    <3>2. b[i] <= g[j] + MaxLag /\ b[i] \in Nat /\ g[j] \in Nat
      BY <1>1, <3>1 DEF Matches
    <3>3. ~(b[i] < Window(k) + l)
      BY <1>3, <3>1 DEF InWindow
    <3>4. QED
      BY <1>2, <3>2, <3>3
  <2>3. QED
    BY <1>1, <1>3, <2>1, <2>2
<1>7. Len(p) <= Len(b) /\ Len(p) <= Len(g)
  BY <1>1, <1>3 DEF Matches
<1>8. Len(p) > 0 => InWindow(k, p[1], l)
  <2> SUFFICES ASSUME Len(p) > 0
               PROVE  InWindow(k, p[1], l)
    OBVIOUS
  <2>1. n < Len(b) /\ p[1] = b[n + 1]
    BY <1>1, <1>3
  <2>2. QED
    BY <1>3, <2>1
<1>9. Len(p) = Len(b) => p = b
  <2> SUFFICES ASSUME Len(p) = Len(b)
               PROVE  p = b
    OBVIOUS
  <2>1. n = 0
    BY <1>1, <1>3
  <2>2. \A i \in 1..Len(p) : p[i] = b[i]
    BY <1>1, <1>4, <2>1
  <2>3. QED
    BY <1>2, <1>3, <2>2, SeqEqual
<1>10. \A i \in 1..Len(p) : p[i] <= Cap(k)
  BY <1>1, <1>4
<1>11. Matches(k, p, g)
  BY <1>5, <1>6, <1>7 DEF Matches
<1>12. QED
  BY <1>3, <1>7, <1>8, <1>9, <1>10, <1>11 DEF p

\* An admission: the queue takes the reading, the history the admission, and
\* the Limit-th admission before this one is old.
LEMMA AdmitMatches ==
  ASSUME NEW k \in Key, ~Unlimited(k[1]), NEW l \in 0..MaxLag, NEW b, NEW g,
         Queue(k, b), Queue(k, g), Matches(k, b, g),
         Len(Purged(k, b, l)) < Limit[k[1]]
  PROVE  LET b1 == Append(Purged(k, b, l), l)
             g1 == Latest(k, Append(g, 0))
         IN  /\ Queue(k, b1) /\ Queue(k, g1) /\ Matches(k, b1, g1)
             /\ Len(g) = Limit[k[1]] => g[1] >= Window(k) - MaxLag
<1> DEFINE p == Purged(k, b, l)
           L == Limit[k[1]]
           b1 == Append(p, l)
           h == Append(g, 0)
           g1 == Latest(k, h)
<1>1. L \in Int /\ L > 0 /\ Window(k) \in Int /\ Window(k) > 0 /\ Cap(k) = Window(k) + MaxLag
  BY Limited
<1>2. MaxLag \in Nat /\ l \in Nat /\ l <= MaxLag
  BY TimeAssumption
<1>3. /\ g \in Seq(Nat) /\ Len(g) \in Nat /\ Len(g) <= L
      /\ \A i \in 1..Len(g) : g[i] \in Nat /\ g[i] <= Cap(k)
  BY <1>1, Ages DEF Queue
<1>4. /\ p \in Seq(Nat) /\ Matches(k, p, g)
      /\ \A i \in 1..Len(p) : p[i] <= Cap(k)
  BY PurgedMatches
<1>5. Len(p) \in Nat /\ Len(p) < L /\ Len(p) <= Len(g)
  BY <1>4 DEF Matches
<1> HIDE DEF p, L
<1>6. /\ b1 \in Seq(Nat) /\ Len(b1) = Len(p) + 1
      /\ \A i \in 1..Len(p) : b1[i] = p[i]
      /\ b1[Len(p) + 1] = l
  BY <1>2, <1>4, AppendProperties
<1>7. /\ h \in Seq(Nat) /\ h # <<>> /\ Len(h) = Len(g) + 1
      /\ \A i \in 1..Len(g) : h[i] = g[i]
      /\ h[Len(g) + 1] = 0
  BY <1>3, AppendProperties
<1> HIDE DEF b1, h
<1>8. Queue(k, b1)
  <2>1. \A i \in 1..Len(b1) : b1[i] <= Cap(k)
    <3> TAKE i \in 1..Len(b1)
    <3>1. CASE i = Len(p) + 1
      BY <1>1, <1>2, <1>6, <3>1
    <3>2. CASE i # Len(p) + 1
      <4>1. i \in 1..Len(p)
        BY <1>5, <1>6, <3>2
      <4>2. QED
        BY <1>4, <1>6, <4>1
    <3>3. QED
      BY <3>1, <3>2
  <2>2. Len(b1) <= L /\ DOMAIN b1 = 1..Len(b1)
    BY <1>1, <1>5, <1>6, LenProperties
  <2>3. QED
    BY <1>6, <2>1, <2>2 DEF Queue, L
<1>9. \A i \in 1..Len(h) : h[i] \in Nat /\ h[i] <= Cap(k)
  <2> TAKE i \in 1..Len(h)
  <2>1. CASE i = Len(g) + 1
    BY <1>1, <1>2, <1>7, <2>1
  <2>2. CASE i # Len(g) + 1
    <3>1. i \in 1..Len(g)
      BY <1>3, <1>7, <2>2
    <3>2. QED
      BY <1>3, <1>7, <3>1
  <2>3. QED
    BY <2>1, <2>2
<1>10. Matches(k, b1, h)
  <2>1. \A i \in 1..Len(b1) : LET j == Len(h) - Len(b1) + i IN
          h[j] <= b1[i] /\ b1[i] <= h[j] + MaxLag
    <3> TAKE i \in 1..Len(b1)
    <3>0. Len(h) - Len(b1) + i = Len(g) - Len(p) + i
      BY <1>3, <1>5, <1>6, <1>7
    <3>1. CASE i = Len(p) + 1
      <4>1. Len(g) - Len(p) + i = Len(g) + 1
        BY <1>3, <1>5, <3>1
      <4>2. QED
        BY <1>2, <1>6, <1>7, <3>0, <3>1, <4>1
    <3>2. CASE i # Len(p) + 1
      <4>1. i \in 1..Len(p) /\ Len(g) - Len(p) + i \in 1..Len(g)
        BY <1>3, <1>5, <1>6, <3>2
      <4>2. b1[i] = p[i] /\ h[Len(g) - Len(p) + i] = g[Len(g) - Len(p) + i]
        BY <1>6, <1>7, <4>1
      <4>3. /\ g[Len(g) - Len(p) + i] <= p[i]
            /\ p[i] <= g[Len(g) - Len(p) + i] + MaxLag
        BY <1>4, <4>1 DEF Matches
      <4>4. QED
        BY <3>0, <4>2, <4>3
    <3>3. QED
      BY <3>1, <3>2
  <2>2. \A j \in 1..(Len(h) - Len(b1)) : h[j] >= Window(k) - MaxLag
    <3> TAKE j \in 1..(Len(h) - Len(b1))
    <3>1. j \in 1..(Len(g) - Len(p)) /\ j \in 1..Len(g)
      BY <1>3, <1>5, <1>6, <1>7
    <3>2. QED
      BY <1>4, <1>7, <3>1 DEF Matches
  <2>3. QED
    BY <1>3, <1>5, <1>6, <1>7, <2>1, <2>2 DEF Matches
<1>11. Queue(k, g1) /\ Matches(k, b1, g1)
  <2>1. CASE Len(h) > L
    <3>1. g1 = Tail(h)
      BY <2>1 DEF Latest, L
    <3> HIDE DEF g1
    <3>2. /\ g1 \in Seq(Nat) /\ Len(g1) = Len(h) - 1
          /\ \A i \in 1..Len(g1) : g1[i] = h[i + 1]
      BY <1>7, <3>1, HeadTailProperties
    <3>3. Len(g1) = Len(g) /\ Len(g1) = L /\ DOMAIN g1 = 1..Len(g1)
      BY <1>1, <1>3, <1>7, <2>1, <3>2, LenProperties
    <3>4. \A i \in 1..Len(g1) : g1[i] <= Cap(k)
      <4> TAKE i \in 1..Len(g1)
      <4>1. i + 1 \in 1..Len(h)
        BY <1>3, <1>7, <3>3
      <4>2. QED
        BY <1>9, <3>2, <4>1
    <3>5. Queue(k, g1)
      BY <1>1, <3>2, <3>3, <3>4 DEF Queue, L
    <3>6. \A i \in 1..Len(b1) : LET j == Len(g1) - Len(b1) + i IN
            g1[j] <= b1[i] /\ b1[i] <= g1[j] + MaxLag
      <4> TAKE i \in 1..Len(b1)
      <4>1. Len(g1) - Len(b1) + i \in 1..Len(g1)
        BY <1>3, <1>5, <1>6, <3>3, <1>1
      <4>2. (Len(g1) - Len(b1) + i) + 1 = Len(h) - Len(b1) + i
        BY <1>3, <1>6, <1>5, <1>7, <3>3
      <4>3. g1[Len(g1) - Len(b1) + i] = h[Len(h) - Len(b1) + i]
        BY <3>2, <4>1, <4>2
      <4>4. QED
        BY <1>10, <4>3 DEF Matches
    <3>7. \A j \in 1..(Len(g1) - Len(b1)) : g1[j] >= Window(k) - MaxLag
      <4> TAKE j \in 1..(Len(g1) - Len(b1))
      <4>1. j \in 1..Len(g1) /\ j + 1 \in 1..(Len(h) - Len(b1))
        BY <1>3, <1>5, <1>6, <1>7, <3>3
      <4>2. QED
        BY <1>10, <3>2, <4>1 DEF Matches
    <3>8. Len(b1) <= Len(g1)
      BY <1>1, <1>5, <1>6, <3>3
    <3>9. QED
      BY <3>5, <3>6, <3>7, <3>8 DEF Matches
  <2>2. CASE ~(Len(h) > L)
    <3>1. g1 = h
      BY <2>2 DEF Latest, L
    <3>2. Len(h) <= L /\ DOMAIN h = 1..Len(h)
      BY <1>1, <1>3, <1>7, <2>2, LenProperties
    <3>3. Queue(k, h)
      BY <1>7, <1>9, <3>2 DEF Queue, L
    <3>4. QED
      BY <1>10, <3>1, <3>3
  <2>3. QED
    BY <2>1, <2>2
<1>12. Len(g) = L => g[1] >= Window(k) - MaxLag
  <2> SUFFICES ASSUME Len(g) = L
               PROVE  g[1] >= Window(k) - MaxLag
    OBVIOUS
  <2>1. 1 \in 1..(Len(g) - Len(p))
    BY <1>1, <1>5
  <2>2. QED
    BY <1>4, <2>1 DEF Matches
<1>13. QED
  BY <1>8, <1>11, <1>12 DEF b1, g1, h, p, L

\* A refusal: nothing was purged, the queue is full, and so is the window that
\* ends at the reading.
LEMMA RefuseFull ==
  ASSUME NEW k \in Key, ~Unlimited(k[1]), NEW l \in 0..MaxLag, NEW b, NEW g,
         Queue(k, b), Queue(k, g), Matches(k, b, g),
         Len(Purged(k, b, l)) >= Limit[k[1]]
  PROVE  /\ Purged(k, b, l) = b
         /\ Len(b) = Limit[k[1]] /\ Len(g) = Limit[k[1]] /\ Limit[k[1]] > 0
         /\ b[1] \in Nat /\ b[1] < Window(k) + l
         /\ g[1] < Window(k) + l
<1> DEFINE p == Purged(k, b, l)
           L == Limit[k[1]]
<1>1. L \in Int /\ L > 0 /\ Window(k) \in Int /\ l \in Nat
  BY Limited, TimeAssumption
<1>2. /\ Len(b) \in Nat /\ Len(b) <= L /\ \A i \in 1..Len(b) : b[i] \in Nat
      /\ Len(g) \in Nat /\ Len(g) <= L /\ \A i \in 1..Len(g) : g[i] \in Nat
  BY <1>1, Ages
<1>3. /\ p \in Seq(Nat) /\ Len(p) <= Len(b)
      /\ Len(p) > 0 => InWindow(k, p[1], l)
      /\ Len(p) = Len(b) => p = b
  BY PurgedMatches
<1>4. Len(p) \in Nat /\ Len(p) >= L
  BY <1>3
<1> HIDE DEF p, L
<1>5. Len(b) = L /\ p = b /\ InWindow(k, b[1], l)
  BY <1>1, <1>2, <1>3, <1>4
<1>6. Len(g) = L
  BY <1>2, <1>5 DEF Matches
<1>7. g[1] <= b[1]
  <2>1. 1 \in 1..Len(b) /\ Len(g) - Len(b) + 1 = 1
    BY <1>1, <1>5, <1>6
  <2>2. g[Len(g) - Len(b) + 1] <= b[1]
    BY <2>1 DEF Matches
  <2>3. QED
    BY <2>1, <2>2
<1>8. b[1] \in Nat /\ g[1] \in Nat
  BY <1>1, <1>2, <1>5, <1>6
<1>9. b[1] < Window(k) + l
  BY <1>5 DEF InWindow
<1>10. QED
  BY <1>1, <1>5, <1>6, <1>7, <1>8, <1>9 DEF p, L

\* The retry a refusal promises is not before the head has left the window.
LEMMA PromiseCovers ==
  ASSUME NEW k \in Key, NEW head \in Nat, NEW l \in Nat
  PROVE  LET w == (RetryAfter(k, head, l) + 1) * Hz - 1 IN
         /\ w \in Int /\ w >= -MaxLag
         /\ head >= Window(k) - w
<1> DEFINE x == Window(k) - (head - l)
           r == x \div Hz
           a == RetryAfter(k, head, l)
<1>1. x \in Int /\ Hz \in Nat \ {0} /\ MaxLag \in Nat /\ Window(k) \in Int
  BY Limited, TimeAssumption
<1>2. r \in Int /\ (r + 1) * Hz > x
  <2> HIDE DEF x
  <2>1. QED
    BY <1>1
<1>3. a \in Int /\ a >= r /\ a >= 1
  BY <1>2 DEF RetryAfter
<1> HIDE DEF a, r
<1>4. \A y, z \in Int : y >= z => y * Hz >= z * Hz
  BY <1>1
<1>5. (a + 1) * Hz \in Int /\ (a + 1) * Hz >= (r + 1) * Hz /\ (a + 1) * Hz >= 2 * Hz
  BY <1>1, <1>2, <1>3, <1>4
<1>6. (a + 1) * Hz > x /\ (a + 1) * Hz >= 1
  <2>1. (r + 1) * Hz \in Int /\ x \in Int /\ 2 * Hz >= 1
    BY <1>1, <1>2
  <2> HIDE DEF x
  <2>2. QED
    BY <1>1, <1>2, <1>5, <2>1
<1>7. /\ (a + 1) * Hz - 1 \in Int /\ (a + 1) * Hz - 1 >= -MaxLag
      /\ head >= Window(k) - ((a + 1) * Hz - 1)
  <2> DEFINE w == (a + 1) * Hz
  <2>1. w \in Int /\ w > Window(k) - (head - l) /\ w >= 1
    BY <1>5, <1>6
  <2> HIDE DEF w
  <2>2. w - 1 \in Int /\ w - 1 >= -MaxLag /\ head >= Window(k) - (w - 1)
    BY <1>1, <2>1
  <2>3. QED
    BY <2>2 DEF w
<1>8. QED
  BY <1>7 DEF a

-----------------------------------------------------------------------------
(* The invariant.                                                          *)

\* What the invariant says of the queue of one key.
LEMMA Queues ==
  ASSUME Inv, NEW k \in Key
  PROVE  /\ Queue(k, bucket[k]) /\ Queue(k, granted[k])
         /\ Matches(k, bucket[k], granted[k])
  BY DEF Inv, TypeOK, Queue

\* A thread that decides has a key with a limit and a reading of its own.
LEMMA Deciding ==
  ASSUME Inv, NEW t \in Thread, key[t] # None
  PROVE  key[t] \in Key /\ ~Unlimited(key[t][1]) /\ lag[t] \in 0..MaxLag
  BY DEF Inv, TypeOK, Keyed

\* The empty limiter.
LEMMA EmptyInv ==
  ASSUME NEW k \in Key
  PROVE  Queue(k, <<>>) /\ Matches(k, <<>>, <<>>)
<1>1. <<>> \in Seq(Nat) /\ Len(<<>>) = 0 /\ DOMAIN <<>> = {}
  OBVIOUS
<1>2. QED
  BY <1>1 DEF Queue, Matches

\* The limiter starts with the invariant.
LEMMA InitInv == Init => Inv
<1> SUFFICES ASSUME Init PROVE Inv
  OBVIOUS
<1>1. MaxLag \in Nat
  BY TimeAssumption
<1>2. \A k \in Key : /\ Queue(k, bucket[k]) /\ Queue(k, granted[k])
                     /\ Matches(k, bucket[k], granted[k])
  BY EmptyInv DEF Init
<1>3. TypeOK
  BY <1>1, <1>2 DEF Init, TypeOK, Queue
<1>4. Keyed /\ Promised
  BY DEF Init, Keyed, Promised
<1>5. QED
  BY <1>2, <1>3, <1>4 DEF Inv

\* A request that arrives gets a key of its scope and its client.
LEMMA ArriveInv ==
  ASSUME Inv, NEW t \in Thread, NEW q \in Incoming, Arrive(t, q)
  PROVE  Inv'
<1>1. <<q.scope, ClientOf(q)>> \in Key
  <2>1. q \in Headers
    BY IncomingAssumption
  <2>2. q.scope \in Scope /\ ClientOf(q) \in Client
    BY <2>1 DEF Headers, Client, ClientOf
  <2>3. QED
    BY <2>2 DEF Key
<1> DEFINE k == <<q.scope, ClientOf(q)>>
<1>2. ~Unlimited(k[1])
  BY DEF Arrive
<1>3. key' = [key EXCEPT ![t] = k] /\ lag' = [lag EXCEPT ![t] = 0]
  BY DEF Arrive
<1>4. UNCHANGED <<bucket, granted, refused, wait>>
  BY DEF Arrive
<1> HIDE DEF k
<1>5. k \in Key
  BY <1>1 DEF k
<1>6. MaxLag \in Nat
  BY TimeAssumption
<1>7. key' \in [Thread -> Key \cup {None}] /\ lag' \in [Thread -> 0..MaxLag]
  BY <1>3, <1>5, <1>6 DEF Inv, TypeOK
<1>8. TypeOK'
  BY <1>4, <1>7 DEF Inv, TypeOK, Cap, Window
<1>9. Keyed'
  BY <1>2, <1>3, <1>5 DEF Inv, TypeOK, Keyed, Unlimited
<1>10. (\A x \in Key : Matches(x, bucket[x], granted[x]))'
  BY <1>4 DEF Inv, Matches, Window
<1>11. Promised'
  BY <1>4 DEF Inv, Promised, Window
<1>12. QED
  BY <1>8, <1>9, <1>10, <1>11 DEF Inv

\* A thread that has answered leaves the others as they are.
LEMMA DoneKeyed ==
  ASSUME Inv, NEW t \in Thread, Done(t)
  PROVE  /\ Keyed' /\ key' \in [Thread -> Key \cup {None}]
         /\ lag' \in [Thread -> 0..MaxLag]
<1>1. MaxLag \in Nat
  BY TimeAssumption
<1>2. QED
  BY <1>1 DEF Inv, TypeOK, Keyed, Done, Unlimited

\* A step that replaces the queues of one key by queues, matched and with the
\* promise to that key kept.
LEMMA OneKeyInv ==
  ASSUME Inv, NEW t \in Thread, Done(t), NEW k \in Key,
         NEW b, NEW g, NEW w,
         bucket' = [bucket EXCEPT ![k] = b], granted' = [granted EXCEPT ![k] = g],
         wait' = [wait EXCEPT ![k] = w], refused' \subseteq Key,
         Queue(k, b), Queue(k, g), Matches(k, b, g),
         w # None => /\ w \in Int /\ w >= -MaxLag
                     /\ Len(b) = Limit[k[1]] /\ Limit[k[1]] > 0
                     /\ b[1] >= Window(k) - w
  PROVE  Inv'
<1>1. /\ bucket \in [Key -> Seq(Nat)] /\ granted \in [Key -> Seq(Nat)]
      /\ wait \in [Key -> Int \cup {None}]
  BY DEF Inv, TypeOK
<1>2. \A x \in Key : /\ bucket'[x] = IF x = k THEN b ELSE bucket[x]
                     /\ granted'[x] = IF x = k THEN g ELSE granted[x]
                     /\ wait'[x] = IF x = k THEN w ELSE wait[x]
  BY <1>1
<1>3. \A x \in Key : /\ Queue(x, bucket'[x]) /\ Queue(x, granted'[x])
                     /\ Matches(x, bucket'[x], granted'[x])
  BY <1>2, Queues
<1>4. /\ bucket' \in [Key -> Seq(Nat)] /\ granted' \in [Key -> Seq(Nat)]
      /\ wait' \in [Key -> Int \cup {None}]
  BY <1>1 DEF Queue
<1>5. TypeOK'
  BY <1>3, <1>4, DoneKeyed DEF TypeOK, Queue, Cap, Window
<1>6. Promised'
  <2> SUFFICES ASSUME NEW x \in Key, wait'[x] # None
               PROVE  /\ wait'[x] \in Int /\ wait'[x] >= -MaxLag
                      /\ Len(bucket'[x]) = Limit[x[1]] /\ Limit[x[1]] > 0
                      /\ bucket'[x][1] >= Window(x) - wait'[x]
    BY DEF Promised, Window
  <2>1. CASE x = k
    BY <1>2, <2>1
  <2>2. CASE x # k
    <3>1. bucket'[x] = bucket[x] /\ wait'[x] = wait[x]
      BY <1>2, <2>2
    <3>2. QED
      BY <3>1 DEF Inv, Promised
  <2>3. QED
    BY <2>1, <2>2
<1>7. (\A x \in Key : Matches(x, bucket[x], granted[x]))'
  BY <1>3 DEF Matches, Window
<1>8. QED
  BY <1>5, <1>6, <1>7, DoneKeyed DEF Inv

\* An admission keeps the invariant.
LEMMA AdmitInv ==
  ASSUME Inv, NEW t \in Thread, Admit(t)
  PROVE  Inv'
<1> DEFINE k == key[t]
           p == Purged(k, bucket[k], lag[t])
           b == Append(p, lag[t])
           g == Latest(k, Append(granted[k], 0))
<1>1. k \in Key /\ ~Unlimited(k[1]) /\ lag[t] \in 0..MaxLag
  BY Deciding DEF Admit
<1>2. Queue(k, bucket[k]) /\ Queue(k, granted[k]) /\ Matches(k, bucket[k], granted[k])
  BY <1>1, Queues
<1>3. /\ Done(t) /\ Len(p) < Limit[k[1]]
      /\ bucket' = [bucket EXCEPT ![k] = b]
      /\ granted' = [granted EXCEPT ![k] = g]
      /\ wait' = [wait EXCEPT ![k] = None]
      /\ refused' \subseteq Key
  BY DEF Admit, Inv, TypeOK
<1>4. Queue(k, b) /\ Queue(k, g) /\ Matches(k, b, g)
  BY <1>1, <1>2, <1>3, AdmitMatches
<1> HIDE DEF k, b, g
<1>5. QED
  BY <1>1, <1>3, <1>4, OneKeyInv

\* A refusal keeps the invariant: its promise is counted on the head it read.
LEMMA RefuseInv ==
  ASSUME Inv, NEW t \in Thread, Refuse(t)
  PROVE  Inv'
<1> DEFINE k == key[t]
           b == bucket[k]
           p == Purged(k, b, lag[t])
           w == (RetryAfter(k, p[1], lag[t]) + 1) * Hz - 1
<1>1. k \in Key /\ ~Unlimited(k[1]) /\ lag[t] \in 0..MaxLag
  BY Deciding DEF Refuse
<1>2. Queue(k, b) /\ Queue(k, granted[k]) /\ Matches(k, b, granted[k])
  BY <1>1, Queues
<1>3. /\ Done(t) /\ Len(p) >= Limit[k[1]]
      /\ bucket' = [bucket EXCEPT ![k] = p]
      /\ granted' = granted
      /\ wait' = [wait EXCEPT ![k] = w]
      /\ refused' \subseteq Key
  BY <1>1 DEF Refuse, Inv, TypeOK
<1>4. /\ p = b /\ Len(b) = Limit[k[1]] /\ Limit[k[1]] > 0
      /\ b[1] \in Nat
  BY <1>1, <1>2, <1>3, RefuseFull
<1>5. lag[t] \in Nat
  BY <1>1, TimeAssumption
<1>6. w \in Int /\ w >= -MaxLag /\ b[1] >= Window(k) - w
  BY <1>1, <1>4, <1>5, PromiseCovers
<1> HIDE DEF p, w
<1>7. granted' = [granted EXCEPT ![k] = granted[k]]
  BY <1>1, <1>3 DEF Inv, TypeOK
<1> HIDE DEF k, b
<1>8. QED
  BY <1>1, <1>2, <1>3, <1>4, <1>6, <1>7, OneKeyInv DEF b

\* The clock keeps the invariant.
LEMMA TickInv ==
  ASSUME Inv, Tick
  PROVE  Inv'
<1>1. /\ bucket  = [k \in Key |-> bucket[k]] /\ granted = [k \in Key |-> granted[k]]
      /\ key \in [Thread -> Key \cup {None}] /\ lag \in [Thread -> 0..MaxLag]
      /\ refused \subseteq Key /\ wait \in [Key -> Int \cup {None}]
  BY DEF Inv, TypeOK
<1>2. \A k \in Key : /\ bucket'[k] = [i \in DOMAIN bucket[k] |-> Older(k, bucket[k][i])]
                     /\ granted'[k] = [i \in DOMAIN granted[k] |-> Older(k, granted[k][i])]
                     /\ wait'[k] = IF wait[k] = None \/ wait[k] = -MaxLag
                                   THEN wait[k] ELSE wait[k] - 1
  BY DEF Tick
<1>3. \A k \in Key : /\ Queue(k, bucket'[k]) /\ Queue(k, granted'[k])
                     /\ Matches(k, bucket'[k], granted'[k])
  <2> TAKE k \in Key
  <2>1. Queue(k, bucket[k]) /\ Queue(k, granted[k]) /\ Matches(k, bucket[k], granted[k])
    BY Queues
  <2>2. /\ Queue(k, [i \in DOMAIN bucket[k] |-> Older(k, bucket[k][i])])
        /\ Queue(k, [i \in DOMAIN granted[k] |-> Older(k, granted[k][i])])
    BY <2>1, OlderQueue
  <2>3. Matches(k, [i \in DOMAIN bucket[k] |-> Older(k, bucket[k][i])],
                   [i \in DOMAIN granted[k] |-> Older(k, granted[k][i])])
    BY <2>1, OlderMatches
  <2>4. QED
    BY <1>2, <2>2, <2>3
<1>4. bucket' \in [Key -> Seq(Nat)] /\ granted' \in [Key -> Seq(Nat)]
  <2>1. /\ bucket'  = [k \in Key |-> [i \in DOMAIN bucket[k] |-> Older(k, bucket[k][i])]]
        /\ granted' = [k \in Key |-> [i \in DOMAIN granted[k] |-> Older(k, granted[k][i])]]
    BY DEF Tick
  <2>2. \A k \in Key : bucket'[k] \in Seq(Nat) /\ granted'[k] \in Seq(Nat)
    BY <1>3 DEF Queue
  <2>3. QED
    BY <2>1, <2>2
<1>5. MaxLag \in Nat
  BY TimeAssumption
<1>6. lag' \in [Thread -> 0..MaxLag] /\ key' = key /\ refused' = refused
  <2>1. \A t \in Thread : (IF key[t] = None THEN 0 ELSE lag[t] + 1) \in 0..MaxLag
    BY <1>1, <1>5 DEF Tick
  <2>2. QED
    BY <2>1 DEF Tick
<1>7. wait' \in [Key -> Int \cup {None}]
  <2>1. wait' = [k \in Key |-> IF wait[k] = None \/ wait[k] = -MaxLag
                              THEN wait[k] ELSE wait[k] - 1]
    BY DEF Tick
  <2>2. \A k \in Key : wait[k] # None => wait[k] - 1 \in Int
    BY <1>1
  <2>3. QED
    BY <1>1, <2>1, <2>2
<1>8. TypeOK'
  BY <1>1, <1>3, <1>4, <1>6, <1>7 DEF TypeOK, Queue, Cap, Window
<1>9. Keyed'
  BY <1>6 DEF Inv, Keyed, Unlimited
<1>10. Promised'
  <2> SUFFICES ASSUME NEW k \in Key, wait'[k] # None
               PROVE  /\ wait'[k] \in Int /\ wait'[k] >= -MaxLag
                      /\ Len(bucket'[k]) = Limit[k[1]] /\ Limit[k[1]] > 0
                      /\ bucket'[k][1] >= Window(k) - wait'[k]
    BY DEF Promised, Window
  <2>1. wait[k] # None
    BY <1>2
  <2>2. /\ wait[k] \in Int /\ wait[k] >= -MaxLag
        /\ Len(bucket[k]) = Limit[k[1]] /\ Limit[k[1]] > 0
        /\ bucket[k][1] >= Window(k) - wait[k]
    BY <2>1 DEF Inv, Promised
  <2>3. Queue(k, bucket[k])
    BY Queues
  <2>4. /\ Len(bucket'[k]) = Len(bucket[k])
        /\ \A i \in 1..Len(bucket[k]) : bucket'[k][i] = Older(k, bucket[k][i])
    <3>1. bucket'[k] = [i \in DOMAIN bucket[k] |-> Older(k, bucket[k][i])]
      BY <1>2
    <3>2. LET o == [i \in DOMAIN bucket[k] |-> Older(k, bucket[k][i])] IN
          /\ Len(o) = Len(bucket[k])
          /\ \A i \in 1..Len(bucket[k]) : o[i] = Older(k, bucket[k][i])
      BY <2>3, OlderQueue
    <3>3. QED
      BY <3>1, <3>2, Zenon
  <2>5. Limit[k[1]] \in Int /\ Window(k) \in Int /\ Cap(k) = Window(k) + MaxLag
    BY Limited
  <2>6. 1 \in 1..Len(bucket[k])
    BY <2>2, <2>5
  <2>7. bucket[k][1] \in Nat /\ bucket[k][1] <= Cap(k) /\ bucket'[k][1] = Older(k, bucket[k][1])
    BY <2>3, <2>4, <2>6, Ages
  <2>8. wait'[k] = IF wait[k] = -MaxLag THEN wait[k] ELSE wait[k] - 1
    BY <1>2, <2>1
  <2>9. wait'[k] \in Int /\ wait'[k] >= -MaxLag
    BY <1>5, <2>2, <2>8
  <2>10. bucket'[k][1] >= Window(k) - wait'[k]
    BY <1>5, <2>2, <2>5, <2>7, <2>8 DEF Older
  <2>11. QED
    BY <2>2, <2>4, <2>9, <2>10
<1>11. (\A k \in Key : Matches(k, bucket[k], granted[k]))'
  BY <1>3 DEF Matches, Window
<1>12. QED
  BY <1>8, <1>9, <1>10, <1>11 DEF Inv

\* Every step keeps the invariant.
LEMMA NextInv == Inv /\ [Next]_vars => Inv'
<1> SUFFICES ASSUME Inv, [Next]_vars PROVE Inv'
  OBVIOUS
<1>1. ASSUME NEW t \in Thread, NEW q \in Incoming, Arrive(t, q) PROVE Inv'
  BY <1>1, ArriveInv
<1>2. ASSUME NEW t \in Thread, Admit(t) PROVE Inv'
  BY <1>2, AdmitInv
<1>3. ASSUME NEW t \in Thread, Refuse(t) PROVE Inv'
  BY <1>3, RefuseInv
<1>4. CASE Tick
  BY <1>4, TickInv
<1>5. CASE Restart
  <2>1. Init'
    BY <1>5 DEF Restart, Init
  <2>2. Init' => Inv'
    BY InitInv, PTL
  <2>3. QED
    BY <2>1, <2>2
<1>6. CASE UNCHANGED vars
  BY <1>6 DEF vars, Inv, TypeOK, Keyed, Matches, Promised, Window, Cap, Unlimited
<1>7. QED
  BY <1>1, <1>2, <1>3, <1>4, <1>5, <1>6 DEF Next

-----------------------------------------------------------------------------
(* The theorems.                                                           *)

\* Every execution keeps the invariant.
LEMMA Invariant == Spec => []Inv
  BY InitInv, NextInv, PTL DEF Spec

\* Types: a queue of the limiter is one of ages, never longer than its limit
\* (enforce, rate_limit.py:20-33).
THEOREM TypeCorrect == Spec => []TypeOK
<1>1. Inv => TypeOK
  BY DEF Inv
<1>2. QED
  BY <1>1, Invariant, PTL

\* No more than Limit calls are admitted in a window, up to the wait for the
\* lock, although the readings in the queue are out of order and popleft stops
\* at the first recent one (rate_limit.py:20-33).
THEOREM LimitCorrect == Spec => LimitHolds
<1>1. ASSUME Inv, NEW t \in Thread, Admit(t)
      PROVE  LET k == key[t] IN
             Len(granted[k]) = Limit[k[1]] => granted[k][1] >= Window(k) - MaxLag
  <2> DEFINE k == key[t]
  <2>1. k \in Key /\ ~Unlimited(k[1]) /\ lag[t] \in 0..MaxLag
    BY <1>1, Deciding DEF Admit
  <2>2. Queue(k, bucket[k]) /\ Queue(k, granted[k]) /\ Matches(k, bucket[k], granted[k])
    BY <1>1, <2>1, Queues
  <2>3. Len(Purged(k, bucket[k], lag[t])) < Limit[k[1]]
    BY <1>1 DEF Admit
  <2> HIDE DEF k
  <2>4. Len(granted[k]) = Limit[k[1]] => granted[k][1] >= Window(k) - MaxLag
    BY <2>1, <2>2, <2>3, AdmitMatches DEF k
  <2>5. QED
    BY <2>4 DEF k
<1> DEFINE Admitted == \A t \in Thread :
             Admit(t) => LET k == key[t] IN
                         Len(granted[k]) = Limit[k[1]]
                           => granted[k][1] >= Window(k) - MaxLag
<1>2. Inv => Admitted
  BY <1>1
<1>3. Inv /\ [Next]_vars => [Admitted]_vars
  BY <1>2
<1> HIDE DEF Admitted
<1>4. Spec => [][Admitted]_vars
  BY <1>3, Invariant, PTL DEF Spec
<1>5. QED
  BY <1>4 DEF LimitHolds, Admitted

\* A call is refused only when the last Limit admissions are within the window
\* that ends at its reading of the clock (rate_limit.py:26-31).
THEOREM RefusalCorrect == Spec => RefusesOnlyAtLimit
<1>1. ASSUME Inv, NEW t \in Thread, Refuse(t)
      PROVE  LET k == key[t] IN
             Len(granted[k]) = Limit[k[1]] /\ granted[k][1] < Window(k) + lag[t]
  <2> DEFINE k == key[t]
  <2>1. k \in Key /\ ~Unlimited(k[1]) /\ lag[t] \in 0..MaxLag
    BY <1>1, Deciding DEF Refuse
  <2>2. Queue(k, bucket[k]) /\ Queue(k, granted[k]) /\ Matches(k, bucket[k], granted[k])
    BY <1>1, <2>1, Queues
  <2>3. Len(Purged(k, bucket[k], lag[t])) >= Limit[k[1]]
    BY <1>1 DEF Refuse
  <2> HIDE DEF k
  <2>4. Len(granted[k]) = Limit[k[1]] /\ granted[k][1] < Window(k) + lag[t]
    BY <2>1, <2>2, <2>3, RefuseFull
  <2>5. QED
    BY <2>4 DEF k
<1> DEFINE Full == \A t \in Thread :
             Refuse(t) => LET k == key[t] IN
                          /\ Len(granted[k]) = Limit[k[1]]
                          /\ granted[k][1] < Window(k) + lag[t]
<1>2. Inv => Full
  BY <1>1
<1>3. Inv /\ [Next]_vars => [Full]_vars
  BY <1>2
<1> HIDE DEF Full
<1>4. Spec => [][Full]_vars
  BY <1>3, Invariant, PTL DEF Spec
<1>5. QED
  BY <1>4 DEF RefusesOnlyAtLimit, Full

\* A retry after the promised seconds, and what was cut off, is not refused
\* unless another call on the key was admitted first (rate_limit.py:30).
THEOREM RetryCorrect == Spec => RetryKept
<1>1. ASSUME Inv, NEW t \in Thread, Refuse(t)
      PROVE  LET k == key[t] IN ~(wait[k] # None /\ wait[k] <= -lag[t])
  <2> DEFINE k == key[t]
  <2>1. k \in Key /\ ~Unlimited(k[1]) /\ lag[t] \in 0..MaxLag
    BY <1>1, Deciding DEF Refuse
  <2>2. Queue(k, bucket[k]) /\ Queue(k, granted[k]) /\ Matches(k, bucket[k], granted[k])
    BY <1>1, <2>1, Queues
  <2>3. Len(Purged(k, bucket[k], lag[t])) >= Limit[k[1]]
    BY <1>1 DEF Refuse
  <2> HIDE DEF k
  <2>4. bucket[k][1] \in Nat /\ bucket[k][1] < Window(k) + lag[t]
    BY <2>1, <2>2, <2>3, RefuseFull
  <2>5. wait[k] # None => wait[k] \in Int /\ bucket[k][1] >= Window(k) - wait[k]
    BY <1>1, <2>1 DEF Inv, Promised
  <2>6. Window(k) \in Int /\ lag[t] \in Int
    BY <2>1, Limited
  <2>7. ~(wait[k] # None /\ wait[k] <= -lag[t])
    BY <2>4, <2>5, <2>6
  <2>8. QED
    BY <2>7 DEF k
<1> DEFINE Waited == \A t \in Thread :
             Refuse(t) => LET k == key[t] IN ~(wait[k] # None /\ wait[k] <= -lag[t])
<1>2. Inv => Waited
  BY <1>1
<1>3. Inv /\ [Next]_vars => [Waited]_vars
  BY <1>2
<1> HIDE DEF Waited
<1>4. Spec => [][Waited]_vars
  BY <1>3, Invariant, PTL DEF Spec
<1>5. QED
  BY <1>4 DEF RetryKept, Waited
=============================================================================
