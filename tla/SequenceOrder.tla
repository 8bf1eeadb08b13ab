---------------------------- MODULE SequenceOrder ----------------------------
(***************************************************************************)
(* Filtering and sorting as the lists of the program do it: neither changes *)
(* the order of elements that it does not tell apart.  Both are defined by *)
(* the positions that are taken, so that they can be reasoned about.       *)
(***************************************************************************)
EXTENDS Integers, FiniteSets, Sequences

\* The members of I, a set of positions, by their key and then as they are:
\* the k-th is the one with k - 1 before it.
Positions(I, key) ==
  LET before(i) == {j \in I : key[j] < key[i] \/ (key[j] = key[i] /\ j < i)}
      ranked == {<<Cardinality(before(i)), i>> : i \in I}
  IN  [k \in 1..Cardinality(I) |-> (CHOOSE r \in ranked : r[1] = k - 1)[2]]

Through(s, positions) == [k \in DOMAIN positions |-> s[positions[k]]]

\* The elements of s at positions I: [x for x in s if ...].
Only(s, I) == Through(s, Positions(I, [i \in I |-> i]))

\* s in ascending order of key[i], for s[i]: sorted(s, key=...).
SortedBy(s, key) == Through(s, Positions(DOMAIN s, key))
=============================================================================
