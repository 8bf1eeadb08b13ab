------------------------- MODULE BillExtractionProofs -------------------------
(***************************************************************************)
(* Proofs about BillExtraction for any set of texts: what the parser       *)
(* reports, what each correction may change of it, what the checks send to *)
(* review, and from these what is stored and shown.                        *)
(***************************************************************************)
EXTENDS BillExtraction, SequenceFacts

-----------------------------------------------------------------------------
(* Single fields.                                                          *)

\* A text is a sequence of lines, each with finitely many numbers.
Text(t) == t \in Seq(Line) /\ \A i \in DOMAIN t : IsFiniteSet(t[i].after)

\* What the parser reports for a field with values in S.
Reading(S) == [value : S \cup {None}, confidence : 0..100]

\* Names are strings: those of a text, and two that the program supplies.
Word == STRING \cup {"provider", "Nao identificada"}

\* A reading without a value is worth nothing.
Worthless(r) == r.value = None => r.confidence = 0

\* The least of some of the lines is one of them.
LEMMA LeastLine ==
  ASSUME NEW t, Text(t)
  PROVE  /\ DOMAIN t \in SUBSET Nat
         /\ \A i \in DOMAIN t : t[i] \in Line /\ IsFiniteSet(t[i].after)
         /\ \A found \in SUBSET DOMAIN t : found # {} => Min(found) \in found
<1>1. t \in Seq(Line) /\ DOMAIN t = 1..Len(t) /\ Len(t) \in Nat
  BY DEF Text
<1>2. \A i \in DOMAIN t : t[i] \in Line
  BY <1>1
<1>3. ASSUME NEW found \in SUBSET DOMAIN t, found # {}
      PROVE  Min(found) \in found
  <2>1. IsFiniteSet(1..Len(t))
    <3>1. 1 \in Int /\ Len(t) \in Int
      BY <1>1
    <3> QED
      BY <3>1, FS_Interval
  <2>2. IsFiniteSet(found)
    BY <1>1, <2>1, FS_Subset
  <2>3. found \in SUBSET Int
    BY <1>1
  <2> QED
    BY <1>3, <2>2, <2>3, MinMaxOfFinite
<1> QED
  BY <1>1, <1>2, <1>3 DEF Text

\* None is neither a word nor a number.
LEMMA WordsAndNone ==
  /\ STRING \subseteq Word /\ "provider" \in Word /\ "Nao identificada" \in Word
  /\ None \notin STRING /\ None # "provider" /\ None # "Nao identificada" /\ None \notin Int
<1>1. None \notin (Int \cup STRING) \cup {"provider", "Nao identificada"}
  BY TextAssumption
<1>2. STRING \subseteq Word /\ "provider" \in Word /\ "Nao identificada" \in Word
  BY DEF Word
<1> QED
  BY <1>1, <1>2

\* What an extractor takes from a line is a number or nothing.
LEMMA KwhIsNumber ==
  ASSUME NEW l \in Line, IsFiniteSet(l.after)
  PROVE  KwhFromLine(l) \in Int \cup {None}
<1>1. l.after \in SUBSET Int /\ l.before \in Int \cup {None}
  BY DEF Line
<1>2. l.after # {} => Max(l.after) \in l.after
  BY <1>1, MinMaxOfFinite
<1> QED
  BY <1>1, <1>2 DEF KwhFromLine

\* V takes a value in S from every line, or none.
Extracts(V(_), S) == \A l \in Line : IsFiniteSet(l.after) => V(l) \in S \cup {None}

\* What is read for a field whose extractor takes values in S.
LEMMA FieldIsReading ==
  ASSUME NEW t, Text(t), NEW S, NEW V(_), Extracts(V, S), NEW labels,
         NEW high \in 0..100, NEW low \in 0..100, NEW guesses \in SUBSET DOMAIN t
  PROVE  /\ Field(t, labels, high, V, guesses, low) \in Reading(S)
         /\ Worthless(Field(t, labels, high, V, guesses, low))
<1>1. \A i \in DOMAIN t : V(t[i]) \in S \cup {None}
  BY LeastLine DEF Extracts
<1>2. \A found \in SUBSET DOMAIN t : found # {} => Min(found) \in found
  BY LeastLine
<1>3. ASSUME NEW lines \in SUBSET DOMAIN t
      PROVE  FirstValue(t, lines, V) \in S \cup {None}
  BY <1>1, <1>2 DEF FirstValue
<1>4. LinesWith(t, labels) \in SUBSET DOMAIN t
  BY DEF LinesWith
<1> QED
  BY <1>3, <1>4 DEF Field, ParsedField, Missing, Reading, Worthless

\* What is read for each field has the kind of the field.
LEMMA ParsedFields ==
  ASSUME NEW t, Text(t)
  PROVE  /\ ParseReferenceMonth(t) \in Reading(Int) /\ Worthless(ParseReferenceMonth(t))
         /\ ParseConsumption(t) \in Reading(Int) /\ Worthless(ParseConsumption(t))
         /\ ParseDays(t) \in Reading(Int) /\ Worthless(ParseDays(t))
         /\ ParseTotalValue(t) \in Reading(Int) /\ Worthless(ParseTotalValue(t))
         /\ ParseDueDate(t) \in Reading(Int) /\ Worthless(ParseDueDate(t))
         /\ ParseTariffFlag(t) \in Reading(Word) /\ Worthless(ParseTariffFlag(t))
<1>1. /\ DOMAIN t \in SUBSET DOMAIN t /\ LinesWith(t, {" dias"}) \in SUBSET DOMAIN t
      /\ {} \in SUBSET DOMAIN t
  BY DEF LinesWith
<1>2. \A n \in {95, 72, 93, 70, 92, 65, 94, 68, 60, 90, 0} : n \in 0..100
  OBVIOUS
<1>3. ParseReferenceMonth(t) \in Reading(Int) /\ Worthless(ParseReferenceMonth(t))
  <2>1. Extracts(LAMBDA l : l.month, Int) /\ 95 \in 0..100 /\ 72 \in 0..100
    BY DEF Extracts, Line
  <2> QED
    BY <1>1, <2>1, FieldIsReading, Zenon DEF ParseReferenceMonth
<1>4. ParseConsumption(t) \in Reading(Int) /\ Worthless(ParseConsumption(t))
  <2>1. Extracts(KwhFromLine, Int) /\ 93 \in 0..100 /\ 70 \in 0..100
    BY KwhIsNumber DEF Extracts
  <2> QED
    BY <1>1, <2>1, FieldIsReading, Zenon DEF ParseConsumption
<1>5. ParseDays(t) \in Reading(Int) /\ Worthless(ParseDays(t))
  <2>1. Extracts(LAMBDA l : l.integer, Int) /\ 92 \in 0..100 /\ 65 \in 0..100
    BY DEF Extracts, Line
  <2> QED
    BY <1>1, <2>1, FieldIsReading, Zenon DEF ParseDays
<1>6. ParseTotalValue(t) \in Reading(Int) /\ Worthless(ParseTotalValue(t))
  <2>1. Extracts(LAMBDA l : l.currency, Int) /\ 94 \in 0..100 /\ 68 \in 0..100
    BY DEF Extracts, Line
  <2> QED
    BY <1>1, <2>1, FieldIsReading, Zenon DEF ParseTotalValue
<1>7. ParseDueDate(t) \in Reading(Int) /\ Worthless(ParseDueDate(t))
  <2>1. Extracts(LAMBDA l : l.date, Int) /\ 94 \in 0..100 /\ 60 \in 0..100
    BY DEF Extracts, Line
  <2> QED
    BY <1>1, <2>1, FieldIsReading, Zenon DEF ParseDueDate
<1>8. ParseTariffFlag(t) \in Reading(Word) /\ Worthless(ParseTariffFlag(t))
  <2>1. Extracts(LAMBDA l : l.tail, Word)
    BY WordsAndNone DEF Extracts, Line
  <2>2. 90 \in 0..100 /\ 0 \in 0..100
    OBVIOUS
  <2> QED
    BY <1>1, <2>1, <2>2, FieldIsReading, Zenon DEF ParseTariffFlag
<1> QED
  BY <1>3, <1>4, <1>5, <1>6, <1>7, <1>8

\* So have the distributor and the consumer unit, which are searched in every
\* line.
LEMMA ParsedNames ==
  ASSUME NEW t, Text(t)
  PROVE  /\ OrMissing(FirstValue(t, DOMAIN t, ConcessionariaFromLine)) \in Reading(Word)
         /\ Worthless(OrMissing(FirstValue(t, DOMAIN t, ConcessionariaFromLine)))
         /\ OrMissing(FirstValue(t, DOMAIN t, ConsumerUnitFromLine)) \in Reading(Word)
         /\ Worthless(OrMissing(FirstValue(t, DOMAIN t, ConsumerUnitFromLine)))
<1>1. /\ \A i \in DOMAIN t : t[i] \in Line
      /\ \A found \in SUBSET DOMAIN t : found # {} => Min(found) \in found
  BY LeastLine
<1>2. ASSUME NEW l \in Line
      PROVE  /\ ConcessionariaFromLine(l) # None =>
                  ConcessionariaFromLine(l) \in Reading(Word) /\ Worthless(ConcessionariaFromLine(l))
             /\ ConsumerUnitFromLine(l) # None =>
                  ConsumerUnitFromLine(l) \in Reading(Word) /\ Worthless(ConsumerUnitFromLine(l))
  <2>1. l.tail \in STRING \cup {None} /\ l.code \in STRING \cup {None}
    BY DEF Line
  <2>2. "provider" \in Word /\ STRING \subseteq Word
    BY WordsAndNone
  <2>3. \A v \in STRING \cup {"provider"}, c \in {95, 85, 78} :
          ParsedField(v, c) \in Reading(Word) /\ Worthless(ParsedField(v, c))
    <3> SUFFICES ASSUME NEW v \in STRING \cup {"provider"}, NEW c \in {95, 85, 78}
                 PROVE  ParsedField(v, c) \in Reading(Word) /\ Worthless(ParsedField(v, c))
      OBVIOUS
    <3>1. v \in Word /\ v # None
      BY <2>2, WordsAndNone
    <3>2. c \in 0..100
      OBVIOUS
    <3> QED
      BY <3>1, <3>2 DEF ParsedField, Reading, Worthless
  <2> QED
    BY <2>1, <2>2, <2>3 DEF ConcessionariaFromLine, ConsumerUnitFromLine
<1>3. Missing \in Reading(Word) /\ Worthless(Missing)
  BY DEF Missing, ParsedField, Reading, Worthless
<1> QED
  BY <1>1, <1>2, <1>3 DEF FirstValue, OrMissing

-----------------------------------------------------------------------------
(* The history.                                                            *)

\* A row that is read has a positive consumption and a plausible number of
\* days, or none.
LEMMA WholeNumbersArePositive ==
  ASSUME NEW row \in Row
  PROVE  WholeNumbers(row) \in Seq({n \in Int : n >= 100})
<1> DEFINE s == row.numbers
           I == {i \in DOMAIN s : s[i] > 0}
           positive == Only(s, I)
           v == StripReferenceTokens(positive, row)
           J == {i \in DOMAIN v : v[i] % 100 = 0}
           P == {n \in Int : n > 0}
<1>1. s \in Seq(Int)
  BY DEF Row
<1>2. positive \in Seq(P)
  <2>1. I \in SUBSET Int /\ IsFiniteSet(I)
    BY <1>1, PositionsAreFinite
  <2>2. \A i \in I : s[i] \in P
    BY <1>1
  <2> HIDE DEF I, P, s
  <2> QED
    BY <2>1, <2>2, OnlyElements
<1> HIDE DEF positive, P
<1>3. v \in Seq(P)
  <2>1. positive # <<>> => Tail(positive) \in Seq(P)
    BY <1>2
  <2>2. SubSeq(positive, 3, Len(positive)) \in Seq(P)
    BY <1>2
  <2> QED
    BY <1>2, <2>1, <2>2 DEF StripReferenceTokens
<1>4. WholeNumbers(row) = Only(v, J)
  BY DEF WholeNumbers, positive
<1> HIDE DEF v
<1>5. J \in SUBSET Int /\ IsFiniteSet(J)
  BY <1>3, PositionsAreFinite
<1>6. \A i \in J : v[i] \in {n \in Int : n >= 100}
  <2> SUFFICES ASSUME NEW i \in J
               PROVE  v[i] \in {n \in Int : n >= 100}
    OBVIOUS
  <2>1. v[i] \in P
    BY <1>3
  <2>2. v[i] \in Int /\ v[i] > 0 /\ v[i] % 100 = 0
    BY <2>1 DEF P
  <2> QED
    BY <2>2
<1> HIDE DEF J
<1> QED
  BY <1>4, <1>5, <1>6, OnlyElements

\* The entries of a history; months are numbered.
EntryType == [mes_referencia : Int, consumo_kwh : Int, dias_faturados : Int \cup {None}]
HistoryType == Seq(EntryType)

\* An entry has the fields it is made of.
LEMMA EntryFields ==
  ASSUME NEW m \in Int, NEW c \in Int, NEW d \in Int \cup {None}
  PROVE  /\ Entry(m, c, d) \in EntryType
         /\ Entry(m, c, d).mes_referencia = m
         /\ Entry(m, c, d).consumo_kwh = c
         /\ Entry(m, c, d).dias_faturados = d
  BY DEF Entry, EntryType

\* Whole numbers without the two decimals they are read with.
LEMMA Hundredths ==
  /\ \A n \in Int : n >= 100 => n \div 100 \in Int /\ n \div 100 > 0
  /\ \A n \in 2000..4000 : n \div 100 \in 20..40
  OBVIOUS

\* A row that counts has a positive consumption and days of a month or none.
LEMMA ReadEntry ==
  ASSUME NEW l \in Line, HistoryEntry(l) # None
  PROVE  /\ HistoryEntry(l) \in EntryType
         /\ HistoryEntry(l).consumo_kwh > 0
         /\ HistoryEntry(l).dias_faturados \in (20..40) \cup {None}
<1> DEFINE whole == WholeNumbers(l.row)
           n == Len(whole)
<1>1. l.row \in Row /\ l.row.mes_referencia \in Int
  BY DEF HistoryEntry, Line, Row
<1>2. HistoryEntry(l) = RowEntry(l.row.mes_referencia, whole)
  BY DEF HistoryEntry
<1>3. whole \in Seq({m \in Int : m >= 100})
  BY <1>1, WholeNumbersArePositive
<1> HIDE DEF whole
<1>4. n \in Nat /\ \A i \in 1..n : whole[i] \in Int /\ whole[i] >= 100
  BY <1>3
<1> DEFINE m == l.row.mes_referencia
<1>5. ASSUME NEW c \in Int, c > 0, NEW d \in (20..40) \cup {None},
             HistoryEntry(l) = Entry(m, c, d)
      PROVE  /\ HistoryEntry(l) \in EntryType
             /\ HistoryEntry(l).consumo_kwh > 0
             /\ HistoryEntry(l).dias_faturados \in (20..40) \cup {None}
  <2>1. d \in Int \cup {None} /\ m \in Int
    BY <1>1
  <2> HIDE DEF m
  <2> DEFINE e == HistoryEntry(l)
  <2>2. e = Entry(m, c, d)
    BY <1>5
  <2> HIDE DEF e
  <2>3. e \in EntryType /\ e.consumo_kwh = c /\ e.dias_faturados = d
    BY <2>1, <2>2, EntryFields
  <2>4. e.consumo_kwh > 0
    BY <1>5, <2>3
  <2>5. e.dias_faturados \in (20..40) \cup {None}
    BY <2>3
  <2> QED
    BY <2>3, <2>4, <2>5 DEF e
<1>6. CASE n >= 2 /\ whole[n] \in 2000..4000
  <2> DEFINE a == whole[n - 1]
             b == whole[n]
  <2>1. HistoryEntry(l) = Entry(m, a \div 100, b \div 100)
    BY <1>2, <1>6 DEF RowEntry
  <2>2. a \in Int /\ a >= 100 /\ b \in 2000..4000
    BY <1>4, <1>6
  <2> HIDE DEF a, b, m
  <2>3. a \div 100 \in Int /\ a \div 100 > 0 /\ b \div 100 \in 20..40
    BY <2>2, Hundredths
  <2> QED
    BY <2>1, <2>3, <1>5
<1>7. CASE n = 1
  <2> DEFINE a == whole[1]
  <2>1. HistoryEntry(l) = Entry(m, a \div 100, None)
    BY <1>2, <1>7 DEF RowEntry
  <2>2. a \in Int /\ a >= 100
    BY <1>4, <1>7
  <2> HIDE DEF a, m
  <2>3. a \div 100 \in Int /\ a \div 100 > 0
    BY <2>2, Hundredths
  <2> QED
    BY <2>1, <2>3, <1>5
<1> QED
  BY <1>2, <1>6, <1>7 DEF RowEntry

\* What is read in line i of a text.
Reads(t, i) == IF "historico" \in t[i].labels THEN None ELSE HistoryEntry(t[i])

\* The rows found so far, with the lines they were found in.
RowType == [line : Nat, entry : EntryType]
Month(rows, k) == rows[k].entry.mes_referencia

\* The rows found in the first m lines: each is the first that is read of its
\* month, and every month that is read has one.
Rows(t, m, rows) ==
  /\ rows \in Seq(RowType)
  /\ \A k \in DOMAIN rows :
       /\ rows[k].line \in 1..m
       /\ Reads(t, rows[k].line) # None /\ rows[k].entry = Reads(t, rows[k].line)
       /\ \A j \in 1..(rows[k].line - 1) :
            Reads(t, j) # None => Reads(t, j).mes_referencia # Month(rows, k)
  /\ \A j \in 1..m : Reads(t, j) # None =>
       \E k \in DOMAIN rows : Month(rows, k) = Reads(t, j).mes_referencia
  /\ \A k, l \in DOMAIN rows : k # l => Month(rows, k) # Month(rows, l)

\* One more line.
LEMMA RowsGrow ==
  ASSUME NEW t, Text(t), NEW m \in Nat, m + 1 <= Len(t), NEW rows, Rows(t, m, rows)
  PROVE  Rows(t, m + 1, AddRow(rows, [line |-> m + 1, entry |-> Reads(t, m + 1)]))
<1> DEFINE e == Reads(t, m + 1)
           r == [line |-> m + 1, entry |-> e]
           new == AddRow(rows, r)
<1>1. r.line = m + 1 /\ r.entry = e
  OBVIOUS
<1>2. e # None => e \in EntryType
  <2>1. t[m + 1] \in Line
    BY LeastLine DEF Text
  <2> QED
    BY <2>1, ReadEntry DEF Reads
<1>3. rows \in Seq(RowType)
  BY DEF Rows
<1>4. m + 1 \in Nat /\ \A j \in 1..(m + 1) : j \in 1..m \/ j = m + 1
  OBVIOUS
<1>5. 1..m \subseteq 1..(m + 1)
  OBVIOUS
<1>6. CASE e = None
  <2>1. new = rows
    BY <1>1, <1>6 DEF AddRow
  <2>2. \A j \in 1..(m + 1) : Reads(t, j) # None => j \in 1..m
    BY <1>4, <1>6
  <2>3. Rows(t, m + 1, rows)
    BY <1>5, <2>2 DEF Rows
  <2> QED
    BY <2>1, <2>3
<1>7. CASE e # None /\ \E k \in DOMAIN rows : Month(rows, k) = e.mes_referencia
  <2>1. new = rows
    BY <1>1, <1>7 DEF AddRow, Month
  <2>2. \A j \in 1..(m + 1) : Reads(t, j) # None =>
          \E k \in DOMAIN rows : Month(rows, k) = Reads(t, j).mes_referencia
    BY <1>4, <1>7 DEF Rows
  <2>3. Rows(t, m + 1, rows)
    BY <1>5, <2>2 DEF Rows
  <2> QED
    BY <2>1, <2>3
<1>8. CASE e # None /\ \A k \in DOMAIN rows : Month(rows, k) # e.mes_referencia
  <2>1. new = Append(rows, r)
    BY <1>1, <1>8 DEF AddRow, Month
  <2>2. r \in RowType
    BY <1>2, <1>4, <1>8 DEF RowType
  <2> DEFINE n == Len(rows)
  <2> HIDE DEF r, new
  <2>3. /\ n \in Nat /\ DOMAIN rows = 1..n /\ DOMAIN new = 1..(n + 1)
        /\ new \in Seq(RowType) /\ new[n + 1] = r
        /\ \A k \in 1..n : new[k] = rows[k]
    BY <1>3, <2>1, <2>2
  <2>4. \A k \in 1..(n + 1) : k \in 1..n \/ k = n + 1
    BY <2>3
  <2>5. \A k \in 1..n : k \in 1..(n + 1) /\ Month(new, k) = Month(rows, k)
    BY <2>3 DEF Month
  <2>6. n + 1 \in 1..(n + 1) /\ Month(new, n + 1) = e.mes_referencia
    BY <1>1, <2>3 DEF Month
  <2>7. ASSUME NEW k \in DOMAIN new
        PROVE  /\ new[k].line \in 1..(m + 1)
               /\ Reads(t, new[k].line) # None /\ new[k].entry = Reads(t, new[k].line)
               /\ \A j \in 1..(new[k].line - 1) :
                    Reads(t, j) # None => Reads(t, j).mes_referencia # Month(new, k)
    <3>1. CASE k \in 1..n
      <4>1. new[k] = rows[k] /\ Month(new, k) = Month(rows, k) /\ k \in DOMAIN rows
        BY <3>1, <2>3, <2>5
      <4> QED
        BY <4>1, <1>5 DEF Rows
    <3>2. CASE k = n + 1
      <4>1. new[k].line = m + 1 /\ new[k].entry = e /\ Month(new, k) = e.mes_referencia
        BY <3>2, <1>1, <2>3, <2>6
      <4>2. \A j \in 1..(m + 1 - 1) : j \in 1..m
        OBVIOUS
      <4>3. \A j \in 1..m : Reads(t, j) # None => Reads(t, j).mes_referencia # e.mes_referencia
        BY <1>8 DEF Rows
      <4>4. m + 1 \in 1..(m + 1)
        OBVIOUS
      <4> QED
        BY <4>1, <4>2, <4>3, <4>4, <1>8
    <3> QED
      BY <3>1, <3>2, <2>3, <2>4
  <2>8. ASSUME NEW j \in 1..(m + 1), Reads(t, j) # None
        PROVE  \E k \in DOMAIN new : Month(new, k) = Reads(t, j).mes_referencia
    <3>1. CASE j \in 1..m
      <4>1. PICK k \in DOMAIN rows : Month(rows, k) = Reads(t, j).mes_referencia
        BY <3>1, <2>8 DEF Rows
      <4> QED
        BY <4>1, <2>3, <2>5
    <3>2. CASE j = m + 1
      BY <3>2, <2>3, <2>6
    <3> QED
      BY <3>1, <3>2, <1>4
  <2>9. ASSUME NEW k \in DOMAIN new, NEW l \in DOMAIN new, k # l
        PROVE  Month(new, k) # Month(new, l)
    <3>1. \A a, b \in 1..n : a # b => Month(rows, a) # Month(rows, b)
      BY <2>3 DEF Rows
    <3>2. \A a \in 1..n : Month(rows, a) # e.mes_referencia
      BY <1>8, <2>3
    <3> QED
      BY <2>3, <2>4, <2>5, <2>6, <2>9, <3>1, <3>2
  <2> HIDE DEF n
  <2> QED
    BY <2>3, <2>7, <2>8, <2>9 DEF Rows, r, new
<1> QED
  BY <1>6, <1>7, <1>8

\* All lines.
LEMMA AnchoredRows ==
  ASSUME NEW t, Text(t)
  PROVE  Rows(t, Len(t), Anchored(t))
<1> DEFINE S == [line : Nat, entry : EntryType \cup {None}]
           items == [i \in DOMAIN t |-> [line |-> i, entry |-> Reads(t, i)]]
<1>1. t \in Seq(Line) /\ Len(t) \in Nat /\ DOMAIN t = 1..Len(t)
  BY DEF Text
<1>2. items \in Seq(S)
  <2>1. ASSUME NEW i \in DOMAIN t
        PROVE  [line |-> i, entry |-> Reads(t, i)] \in S
    <3>1. Reads(t, i) \in EntryType \cup {None}
      BY LeastLine, ReadEntry DEF Reads
    <3> QED
      BY <1>1, <3>1
  <2> HIDE DEF S
  <2>2. items \in [1..Len(t) -> S]
    BY <1>1, <2>1
  <2> QED
    BY <1>1, <2>2
<1>3. Anchored(t) = FoldLeft(AddRow, <<>>, items)
  BY DEF Anchored, Reads
<1>4. Len(items) = Len(t) /\ \A i \in 1..Len(t) : items[i] = [line |-> i, entry |-> Reads(t, i)]
  BY <1>1, <1>2
<1> HIDE DEF S, items
<1>5. Accumulates(AddRow, <<>>, items, FoldLeft(AddRow, <<>>, items))
  BY <1>2, FoldLeftAccumulates, Zenon
<1>6. PICK f : /\ f[0] = <<>>
               /\ \A i \in 1..Len(items) : f[i] = AddRow(f[i - 1], items[i])
               /\ FoldLeft(AddRow, <<>>, items) = f[Len(items)]
  BY <1>5 DEF Accumulates
<1> DEFINE T == {m \in Nat : m <= Len(t) => Rows(t, m, f[m])}
<1>7. 0 \in T
  <2>1. <<>> \in Seq(RowType) /\ DOMAIN <<>> = {} /\ 1..0 = {}
    OBVIOUS
  <2> QED
    BY <1>6, <2>1 DEF Rows
<1>8. ASSUME NEW m \in Nat, m \in T
      PROVE  m + 1 \in T
  <2> SUFFICES ASSUME m + 1 <= Len(t)
               PROVE  Rows(t, m + 1, f[m + 1])
    OBVIOUS
  <2>1. m <= Len(t) /\ m + 1 \in 1..Len(t) /\ (m + 1) - 1 = m
    BY <1>1
  <2>2. Rows(t, m, f[m])
    BY <1>8, <2>1
  <2>3. f[m + 1] = AddRow(f[m], [line |-> m + 1, entry |-> Reads(t, m + 1)])
    BY <1>4, <1>6, <2>1
  <2> QED
    BY <2>2, <2>3, RowsGrow
<1> HIDE DEF T
<1>9. Nat \subseteq T
  BY <1>7, <1>8, NatIsLeast
<1> QED
  BY <1>1, <1>3, <1>4, <1>6, <1>9 DEF T

\* A row recovered from the digits between two others is an entry.
LEMMA GapEntries ==
  ASSUME NEW t, Text(t), NEW newer \in RowType, NEW older \in RowType,
         newer.line \in 1..Len(t), older.line \in 1..Len(t),
         NEW months \in Seq(Int), Len(months) \in {0, 2}
  PROVE  Gap(t, newer, older, months) \in Seq(EntryType)
<1> DEFINE n == older.line - newer.line - 1
           seqs == [i \in 1..n |-> t[newer.line + i].digits]
           all == FlattenSeq(seqs)
           y == Year(months[1]) % 100
           d == RowDigits(all, y)
           D == 0..9
<1>1. seqs \in Seq(Seq(D))
  <2>1. Len(t) \in Nat /\ DOMAIN t = 1..Len(t) /\ \A i \in DOMAIN t : t[i] \in Line
    BY LeastLine DEF Text
  <2>2. n \in Int /\ \A i \in 1..n : newer.line + i \in DOMAIN t
    BY <2>1
  <2>3. \A i \in 1..n : t[newer.line + i].digits \in Seq(D)
    BY <2>1, <2>2 DEF Line
  <2> HIDE DEF n, D
  <2>4. CASE n \in Nat
    BY <2>3, <2>4
  <2>5. CASE n \notin Nat
    <3>1. 1..n = 1..0
      BY <2>2, <2>5
    <3>2. seqs \in [1..0 -> Seq(D)]
      BY <3>1
    <3> HIDE DEF seqs
    <3> QED
      BY <3>2
  <2> QED
    BY <2>4, <2>5
<1>2. all \in Seq(D)
  <2> HIDE DEF seqs, D
  <2>1. PICK q : Blocks(D, seqs, Len(seqs), FlattenSeq(seqs), q)
    BY <1>1, FlattenBlocks, Zenon
  <2> QED
    BY <2>1 DEF Blocks
<1> HIDE DEF all
<1>3. d \in Seq(0..9)
  <2> DEFINE lastTen(s) == SubSeq(s, AtLeast(1, Len(s) - 9), Len(s))
  <2>1. ASSUME NEW s \in Seq(D)
        PROVE  lastTen(s) \in Seq(D)
    <3>1. Len(s) \in Nat /\ AtLeast(1, Len(s) - 9) \in Int /\ AtLeast(1, Len(s) - 9) >= 1
      BY DEF AtLeast
    <3> DEFINE a == AtLeast(1, Len(s) - 9)
    <3> HIDE DEF a, D
    <3>2. SubSeq(s, a, Len(s)) \in Seq(D)
      BY <3>1 DEF a
    <3> QED
      BY <3>2 DEF a
  <2>2. SubSeq(all, 5, Len(all)) \in Seq(D)
    BY <1>2
  <2> DEFINE b == IsPrefix(<<y \div 10, y \div 10, y % 10, y % 10>>, all)
             s == IF b THEN SubSeq(all, 5, Len(all)) ELSE all
  <2>3. d = lastTen(s)
    BY Zenon DEF RowDigits
  <2>4. s \in Seq(D)
    <3> HIDE DEF b, D
    <3> QED
      BY <1>2, <2>2
  <2> HIDE DEF s, lastTen, d
  <2> QED
    BY <2>1, <2>3, <2>4
<1>4. Gap(t, newer, older, months) = IF months = <<>> THEN <<>> ELSE InterleavedGapEntries(d, months)
  BY DEF Gap, all
<1> HIDE DEF d, y, n, seqs, D
<1>5. months # <<>> => InterleavedGapEntries(d, months) \in Seq(EntryType)
  <2> SUFFICES ASSUME months # <<>>
               PROVE  InterleavedGapEntries(d, months) \in Seq(EntryType)
    OBVIOUS
  <2>3. Len(d) = 10 => \A k \in 1..10 : d[k] \in 0..9
    <3>1. \A k \in 1..Len(d) : d[k] \in 0..9
      BY <1>3
    <3> QED
      BY <3>1
  <2>4. \A r \in 1..2 : months[r] \in Int
    <3>1. Len(months) = 2
      OBVIOUS
    <3>2. \A r \in 1..Len(months) : months[r] \in Int
      OBVIOUS
    <3> QED
      BY <3>1, <3>2
  <2> DEFINE kwh(r)  == 100 * d[r] + 10 * d[2 + r] + d[4 + r]
             days(r) == 10 * d[6 + r] + d[8 + r]
  <2>1. CASE Len(d) = 10 /\ \A r \in 1..2 : kwh(r) > 0 /\ days(r) \in 20..40
    <3>1. InterleavedGapEntries(d, months) = [r \in 1..2 |-> Entry(months[r], kwh(r), days(r))]
      BY <2>1 DEF InterleavedGapEntries
    <3>2. ASSUME NEW r \in 1..2
          PROVE  Entry(months[r], kwh(r), days(r)) \in EntryType
      <4>1. /\ d[r] \in 0..9 /\ d[2 + r] \in 0..9 /\ d[4 + r] \in 0..9
            /\ d[6 + r] \in 0..9 /\ d[8 + r] \in 0..9
        <5>1. /\ r \in 1..10 /\ 2 + r \in 1..10 /\ 4 + r \in 1..10
              /\ 6 + r \in 1..10 /\ 8 + r \in 1..10
          OBVIOUS
        <5> QED
          BY <2>3, <2>1, <5>1
      <4>2. \A a, b, c \in 0..9 : 100 * a + 10 * b + c \in Int /\ 10 * a + b \in Int
        OBVIOUS
      <4>3. kwh(r) \in Int /\ days(r) \in Int
        BY <4>1, <4>2, Zenon
      <4> HIDE DEF kwh, days
      <4> QED
        BY <2>4, <4>3, EntryFields
    <3> HIDE DEF kwh, days
    <3> QED
      BY <3>1, <3>2
  <2>2. CASE ~(Len(d) = 10 /\ \A r \in 1..2 : kwh(r) > 0 /\ days(r) \in 20..40)
    BY <2>2 DEF InterleavedGapEntries
  <2> QED
    BY <2>1, <2>2
<1> QED
  BY <1>4, <1>5

\* So are all rows that are recovered.
LEMMA RecoveredEntries ==
  ASSUME NEW t, Text(t), NEW rows, Rows(t, Len(t), rows)
  PROVE  Recovered(t, rows) \in Seq(EntryType)
<1> DEFINE n == AtLeast(0, Len(rows) - 1)
           months(k) == MissingDescendingMonths(rows[k].entry.mes_referencia,
                                                rows[k + 1].entry.mes_referencia)
           gap(k) == Gap(t, rows[k], rows[k + 1], months(k))
           seqs == [k \in 1..n |-> gap(k)]
<1>1. /\ rows \in Seq(RowType) /\ Len(rows) \in Nat /\ DOMAIN rows = 1..Len(rows)
      /\ \A k \in DOMAIN rows : rows[k].line \in 1..Len(t)
  BY DEF Rows
<1>2. n \in Nat /\ (n = 0 \/ n = Len(rows) - 1)
  BY <1>1 DEF AtLeast
<1>3. ASSUME NEW k \in 1..n
      PROVE  gap(k) \in Seq(EntryType)
  <2>1. k \in 1..Len(rows) /\ k + 1 \in 1..Len(rows)
    BY <1>1, <1>2
  <2>2. /\ rows[k] \in RowType /\ rows[k].line \in 1..Len(t)
        /\ rows[k + 1] \in RowType /\ rows[k + 1].line \in 1..Len(t)
    BY <1>1, <2>1
  <2>3. \A a, b \in Int : /\ MissingDescendingMonths(a, b) \in Seq(Int)
                          /\ Len(MissingDescendingMonths(a, b)) \in {0, 2}
    BY DEF MissingDescendingMonths
  <2>4. rows[k].entry.mes_referencia \in Int /\ rows[k + 1].entry.mes_referencia \in Int
    BY <2>2 DEF RowType, EntryType
  <2>5. months(k) \in Seq(Int) /\ Len(months(k)) \in {0, 2}
    BY <2>3, <2>4
  <2> HIDE DEF months
  <2> QED
    BY <2>2, <2>5, GapEntries
<1> HIDE DEF gap, n
<1>4. seqs \in Seq(Seq(EntryType))
  BY <1>2, <1>3
<1>5. Recovered(t, rows) = FlattenSeq(seqs)
  BY DEF Recovered, gap, n
<1> HIDE DEF seqs
<1>6. PICK q : Blocks(EntryType, seqs, Len(seqs), FlattenSeq(seqs), q)
  BY <1>4, FlattenBlocks, Zenon
<1> QED
  BY <1>5, <1>6 DEF Blocks

\* The rows of a history are entries.
LEMMA EntriesOfHistory ==
  ASSUME NEW h \in HistoryType
  PROVE  /\ Len(h) \in Nat /\ DOMAIN h = 1..Len(h)
         /\ \A i \in DOMAIN h : /\ h[i] \in EntryType
                                /\ h[i].mes_referencia \in Int /\ h[i].consumo_kwh \in Int
                                /\ h[i].dias_faturados \in Int \cup {None}
<1>1. Len(h) \in Nat /\ DOMAIN h = 1..Len(h) /\ \A i \in DOMAIN h : h[i] \in EntryType
  BY DEF HistoryType
<1>2. \A e \in EntryType : /\ e.mes_referencia \in Int /\ e.consumo_kwh \in Int
                           /\ e.dias_faturados \in Int \cup {None}
  BY DEF EntryType
<1> QED
  BY <1>1, <1>2

\* A history has one row for a month; and the rows are in order.
Distinct(h) ==
  \A i, j \in DOMAIN h : i # j => h[i].mes_referencia # h[j].mes_referencia
Ascending(h) ==
  \A i, j \in DOMAIN h : i < j => h[i].mes_referencia < h[j].mes_referencia

\* A history with one row for a month is sorted without a tie.
LEMMA SortedAscends ==
  ASSUME NEW h \in HistoryType, Distinct(h)
  PROVE  Sorted(h) \in HistoryType /\ Ascending(Sorted(h)) /\ Range(Sorted(h)) = Range(h)
<1> DEFINE key == [i \in DOMAIN h |-> h[i].mes_referencia]
           D == DOMAIN h
<1>1. key \in [DOMAIN h -> Int] /\ \A i \in D : key[i] = h[i].mes_referencia
  BY EntriesOfHistory
<1>2. Sorted(h) = SortedBy(h, key)
  BY DEF Sorted
<1>3. h \in Seq(EntryType) /\ D \in SUBSET Int
  BY DEF HistoryType
<1> HIDE DEF key
<1>4. PICK p : /\ p \in [DOMAIN h -> DOMAIN h]
               /\ \A i \in DOMAIN h : \E k \in DOMAIN h : p[k] = i
               /\ \A k, l \in DOMAIN h : k < l => p[k] # p[l] /\ key[p[k]] <= key[p[l]]
               /\ SortedBy(h, key) = [k \in DOMAIN h |-> h[p[k]]]
  BY <1>1, <1>3, SortedIsPermutation, Zenon
<1> DEFINE g == SortedBy(h, key)
<1>5. DOMAIN g = D /\ \A k \in D : g[k] = h[p[k]] /\ p[k] \in D
  BY <1>4
<1>6. g \in Seq(EntryType)
  BY <1>1, <1>3, SortedElements
<1>7. Range(g) = Range(h)
  <2>1. \A k \in D : \E i \in D : g[k] = h[i]
    BY <1>5
  <2>2. \A i \in D : \E k \in D : g[k] = h[i]
    BY <1>4, <1>5
  <2> QED
    BY <1>5, <2>1, <2>2 DEF Range
<1>8. Ascending(g)
  <2> SUFFICES ASSUME NEW k \in D, NEW l \in D, k < l
               PROVE  g[k].mes_referencia < g[l].mes_referencia
    BY <1>5 DEF Ascending
  <2>1. p[k] # p[l] /\ key[p[k]] <= key[p[l]] /\ p[k] \in D /\ p[l] \in D
    BY <1>4
  <2>2. h[p[k]].mes_referencia # h[p[l]].mes_referencia
    BY <2>1 DEF Distinct
  <2>3. key[p[k]] \in Int /\ key[p[l]] \in Int
    BY <1>1, <2>1
  <2>4. key[p[k]] # key[p[l]]
    BY <1>1, <2>1, <2>2
  <2>5. g[k].mes_referencia = key[p[k]] /\ g[l].mes_referencia = key[p[l]]
    BY <1>1, <1>5, <2>1
  <2> QED
    BY <2>1, <2>3, <2>4, <2>5
<1> QED
  BY <1>2, <1>6, <1>7, <1>8 DEF HistoryType

\* Adding a row keeps what was there.
LEMMA AddMonthKeeps ==
  ASSUME NEW h \in HistoryType, Distinct(h), NEW e \in EntryType
  PROVE  AddMonth(h, e) \in HistoryType /\ Distinct(AddMonth(h, e)) /\ Range(h) \subseteq Range(AddMonth(h, e))
<1>1. CASE HasMonth(h, e.mes_referencia)
  BY <1>1 DEF AddMonth
<1>2. CASE ~HasMonth(h, e.mes_referencia)
  <2> DEFINE n == Len(h)
             g == Append(h, e)
  <2>1. h \in Seq(EntryType) /\ n \in Nat /\ DOMAIN h = 1..n
    BY DEF HistoryType
  <2>2. /\ g \in Seq(EntryType) /\ DOMAIN g = 1..(n + 1) /\ g[n + 1] = e
        /\ \A i \in 1..n : g[i] = h[i] /\ i \in 1..(n + 1)
    BY <2>1
  <2>3. \A i \in 1..(n + 1) : i \in 1..n \/ i = n + 1
    BY <2>1
  <2>4. \A i \in 1..n : h[i].mes_referencia # e.mes_referencia
    BY <1>2, <2>1 DEF HasMonth
  <2>5. \A i, j \in 1..n : i # j => h[i].mes_referencia # h[j].mes_referencia
    BY <2>1 DEF Distinct
  <2> HIDE DEF n, g
  <2>6. Distinct(g)
    BY <2>2, <2>3, <2>4, <2>5 DEF Distinct
  <2>7. Range(h) \subseteq Range(g)
    BY <2>1, <2>2 DEF Range
  <2>8. AddMonth(h, e) = g
    BY <1>2 DEF AddMonth, g
  <2> QED
    BY <2>2, <2>6, <2>7, <2>8 DEF HistoryType
<1> QED
  BY <1>1, <1>2

\* Recovered rows take the place of none that was read.
LEMMA MergedKeeps ==
  ASSUME NEW read \in HistoryType, Distinct(read), NEW recovered \in HistoryType
  PROVE  /\ Merged(read, recovered) \in HistoryType /\ Ascending(Merged(read, recovered))
         /\ Range(read) \subseteq Range(Merged(read, recovered))
<1> DEFINE all == FoldLeft(AddMonth, read, recovered)
<1>1. recovered \in Seq(EntryType)
  BY DEF HistoryType
<1>2. Accumulates(AddMonth, read, recovered, all)
  BY <1>1, FoldLeftAccumulates, Zenon
<1>3. PICK f : /\ f[0] = read
               /\ \A i \in 1..Len(recovered) : f[i] = AddMonth(f[i - 1], recovered[i])
               /\ all = f[Len(recovered)]
  BY <1>2 DEF Accumulates
<1> DEFINE Good(h) == h \in HistoryType /\ Distinct(h) /\ Range(read) \subseteq Range(h)
           T == {m \in Nat : m <= Len(recovered) => Good(f[m])}
<1>4. 0 \in T
  BY <1>3
<1>5. ASSUME NEW m \in Nat, m \in T
      PROVE  m + 1 \in T
  <2> SUFFICES ASSUME m + 1 <= Len(recovered)
               PROVE  Good(f[m + 1])
    OBVIOUS
  <2>1. Len(recovered) \in Nat
    BY <1>1
  <2>2. m <= Len(recovered) /\ m + 1 \in 1..Len(recovered) /\ (m + 1) - 1 = m
    BY <2>1
  <2>3. f[m] \in HistoryType /\ Distinct(f[m]) /\ Range(read) \subseteq Range(f[m])
    BY <1>5, <2>2
  <2>4. recovered[m + 1] \in EntryType /\ f[m + 1] = AddMonth(f[m], recovered[m + 1])
    BY <1>1, <1>3, <2>2
  <2> QED
    BY <2>3, <2>4, AddMonthKeeps
<1> HIDE DEF T, all
<1>6. Nat \subseteq T
  BY <1>4, <1>5, NatIsLeast
<1>7. Good(all)
  <2>1. Len(recovered) \in Nat
    BY <1>1
  <2> QED
    BY <1>3, <1>6, <2>1 DEF T
<1>8. Merged(read, recovered) = Sorted(all)
  BY DEF Merged, all
<1> QED
  BY <1>7, <1>8, SortedAscends

\* Line i holds the first row of its month that can be read.
FirstRead(t, i) ==
  /\ Reads(t, i) # None
  /\ \A j \in 1..(i - 1) : Reads(t, j) # None =>
       Reads(t, j).mes_referencia # Reads(t, i).mes_referencia

\* The history of a text is in order, with every row that is the first of its
\* month.
LEMMA HistoryOfText ==
  ASSUME NEW t, Text(t)
  PROVE  /\ ParseHistory(t) \in HistoryType /\ Ascending(ParseHistory(t))
         /\ \A i \in DOMAIN t : FirstRead(t, i) => Reads(t, i) \in Range(ParseHistory(t))
<1> DEFINE rows == Anchored(t)
           read == [k \in DOMAIN rows |-> rows[k].entry]
           recovered == Recovered(t, rows)
<1>1. Rows(t, Len(t), rows)
  BY AnchoredRows
<1>2. recovered \in HistoryType
  BY <1>1, RecoveredEntries DEF HistoryType
<1>3. ParseHistory(t) = Merged(read, recovered)
  BY DEF ParseHistory, History
<1> HIDE DEF rows, recovered
<1>4. rows \in Seq(RowType) /\ DOMAIN read = DOMAIN rows /\ \A k \in DOMAIN rows : read[k] = rows[k].entry
  BY <1>1 DEF Rows
<1>5. read \in HistoryType
  <2>1. \A k \in DOMAIN rows : rows[k].entry \in EntryType
    <3>1. \A k \in DOMAIN rows : rows[k] \in RowType
      BY <1>4
    <3>2. \A r \in RowType : r.entry \in EntryType
      BY DEF RowType
    <3> QED
      BY <3>1, <3>2
  <2>2. DOMAIN rows = 1..Len(rows) /\ Len(rows) \in Nat
    BY <1>4
  <2>3. read \in [1..Len(rows) -> EntryType]
    BY <2>1, <2>2
  <2> HIDE DEF read
  <2> QED
    BY <2>2, <2>3 DEF HistoryType
<1> HIDE DEF read
<1>6. Distinct(read)
  BY <1>1, <1>4 DEF Distinct, Rows, Month
<1>7. /\ Merged(read, recovered) \in HistoryType /\ Ascending(Merged(read, recovered))
      /\ Range(read) \subseteq Range(Merged(read, recovered))
  BY <1>2, <1>5, <1>6, MergedKeeps
<1>8. ASSUME NEW i \in DOMAIN t, FirstRead(t, i)
      PROVE  Reads(t, i) \in Range(read)
  <2>1. i \in 1..Len(t) /\ Len(t) \in Nat /\ DOMAIN t = 1..Len(t)
    BY DEF Text
  <2>2. PICK k \in DOMAIN rows : Month(rows, k) = Reads(t, i).mes_referencia
    BY <1>1, <1>8, <2>1 DEF Rows, FirstRead
  <2> DEFINE j == rows[k].line
  <2>3. /\ j \in 1..Len(t) /\ Reads(t, j) # None /\ rows[k].entry = Reads(t, j)
        /\ \A g \in 1..(j - 1) : Reads(t, g) # None => Reads(t, g).mes_referencia # Month(rows, k)
    BY <1>1 DEF Rows
  <2> HIDE DEF j
  <2>4. Reads(t, j).mes_referencia = Reads(t, i).mes_referencia
    BY <2>2, <2>3 DEF Month
  <2>5. ~(i \in 1..(j - 1))
    BY <1>8, <2>2, <2>3 DEF FirstRead
  <2>6. ~(j \in 1..(i - 1))
    BY <1>8, <2>3, <2>4 DEF FirstRead
  <2>7. i = j
    BY <2>1, <2>3, <2>5, <2>6
  <2> QED
    BY <1>4, <2>3, <2>7 DEF Range
<1> QED
  BY <1>3, <1>7, <1>8

-----------------------------------------------------------------------------
(* What the parser reports, and what a correction keeps of it.             *)

\* The fields that are read one by one, those that are numbers, and the values
\* of each.
Plain   == Name \ {"historico_consumo"}
Figures == {"mes_referencia", "consumo_kwh", "dias_faturados", "valor_total", "vencimento"}
Values(f) == IF f \in Figures THEN Int ELSE Word

\* A report: nothing is worth nothing, and the history is in order.
WellRead(p) ==
  /\ DOMAIN p = Name
  /\ \A f \in Plain : p[f] \in Reading(Values(f)) /\ Worthless(p[f])
  /\ p["historico_consumo"].value \in HistoryType
  /\ p["historico_consumo"].confidence \in 0..100
  /\ Ascending(p["historico_consumo"].value)

\* What the parser reports is one.
LEMMA ParseIsWellRead ==
  ASSUME NEW t, Text(t)
  PROVE  WellRead(Parse(t)) /\ Parse(t)["historico_consumo"].value = ParseHistory(t)
<1> DEFINE p == Parse(t)
           h == ParseHistory(t)
<1>1. /\ DOMAIN p = Name
      /\ p["mes_referencia"] = ParseReferenceMonth(t)
      /\ p["consumo_kwh"] = ParseConsumption(t)
      /\ p["dias_faturados"] = ParseDays(t)
      /\ p["valor_total"] = ParseTotalValue(t)
      /\ p["vencimento"] = ParseDueDate(t)
      /\ p["bandeira_tarifaria"] = ParseTariffFlag(t)
      /\ p["concessionaria"] = OrMissing(FirstValue(t, DOMAIN t, ConcessionariaFromLine))
      /\ p["unidade_consumidora"] = OrMissing(FirstValue(t, DOMAIN t, ConsumerUnitFromLine))
      /\ p["historico_consumo"] = HistoryField(h)
  BY DEF Parse, Name
<1> HIDE DEF p
<1>2. ASSUME NEW f \in Plain
      PROVE  p[f] \in Reading(Values(f)) /\ Worthless(p[f])
  BY <1>1, ParsedFields, ParsedNames DEF Plain, Name, Values, Figures
<1>3. h \in HistoryType /\ Ascending(h)
  BY HistoryOfText
<1> HIDE DEF h
<1>4. HistoryField(h).value = h /\ HistoryField(h).confidence \in 0..100
  <2>1. Len(h) \in Nat
    BY <1>3, EntriesOfHistory
  <2> QED
    BY <2>1 DEF HistoryField, ParsedField
<1>5. WellRead(p) /\ p["historico_consumo"].value = h
  BY <1>1, <1>2, <1>3, <1>4 DEF WellRead
<1> QED
  BY <1>5 DEF p, h

\* One field changes.
LEMMA OneField ==
  ASSUME NEW p, WellRead(p), NEW f \in Plain, NEW r \in Reading(Values(f)), Worthless(r)
  PROVE  LET q == [p EXCEPT ![f] = r]
         IN  WellRead(q) /\ q[f] = r /\ \A g \in Name \ {f} : q[g] = p[g]
<1> DEFINE q == [p EXCEPT ![f] = r]
<1>1. f \in Name /\ "historico_consumo" \in Name /\ f # "historico_consumo"
  BY DEF Plain, Name
<1>2. DOMAIN q = Name /\ q[f] = r /\ \A g \in Name \ {f} : q[g] = p[g]
  BY <1>1 DEF WellRead
<1> HIDE DEF q
<1>3. \A g \in Plain : g = f \/ g \in Name \ {f}
  BY DEF Plain
<1>4. WellRead(q)
  BY <1>1, <1>2, <1>3 DEF WellRead
<1> QED
  BY <1>2, <1>4 DEF q

\* A correction gives a field a value, and the rest is as it was.
LEMMA CorrectedKeeps ==
  ASSUME NEW p, WellRead(p), NEW f \in Plain, NEW v \in Values(f), NEW c \in 0..100
  PROVE  LET q == Corrected(p, f, v, c)
         IN  WellRead(q) /\ q[f].value = v /\ \A g \in Name \ {f} : q[g] = p[g]
<1> DEFINE r == ParsedField(v, AtLeast(p[f].confidence, c))
<1>1. p[f].confidence \in 0..100
  BY DEF WellRead, Reading
<1>2. AtLeast(p[f].confidence, c) \in 0..100
  BY <1>1 DEF AtLeast
<1>3. v # None
  <2>1. None \notin Int /\ None \notin Word
    BY WordsAndNone DEF Word
  <2> QED
    BY <2>1 DEF Values
<1>4. r \in Reading(Values(f)) /\ Worthless(r) /\ r.value = v
  BY <1>2, <1>3 DEF ParsedField, Reading, Worthless
<1>5. Corrected(p, f, v, c) = [p EXCEPT ![f] = r]
  BY DEF Corrected
<1> DEFINE q == [p EXCEPT ![f] = r]
<1> HIDE DEF r
<1>6. WellRead(q) /\ q[f] = r /\ \A g \in Name \ {f} : q[g] = p[g]
  BY <1>4, OneField
<1> HIDE DEF q
<1> QED
  BY <1>4, <1>5, <1>6 DEF q

-----------------------------------------------------------------------------
(* The corrections.                                                        *)

\* The first value that an extractor finds is one of its values.
LEMMA FirstValueIn ==
  ASSUME NEW t, Text(t), NEW S, NEW V(_), Extracts(V, S), NEW lines \in SUBSET DOMAIN t
  PROVE  FirstValue(t, lines, V) \in S \cup {None}
<1>1. \A i \in DOMAIN t : V(t[i]) \in S \cup {None}
  BY LeastLine DEF Extracts
<1>2. \A found \in SUBSET DOMAIN t : found # {} => Min(found) \in found
  BY LeastLine
<1> QED
  BY <1>1, <1>2 DEF FirstValue

\* The lines with a label are some of the lines.
LEMMA LinesAreLines ==
  ASSUME NEW t, NEW labels
  PROVE  LinesWith(t, labels) \in SUBSET DOMAIN t
  BY DEF LinesWith

\* The labelled values.
LEMMA LabeledValues ==
  ASSUME NEW t, Text(t)
  PROVE  /\ LabeledConsumption(t) \in Int \cup {None}
         /\ LabeledBilledDays(t) \in Int \cup {None}
         /\ LabeledReferenceMonth(t) \in Int \cup {None}
         /\ LabeledTotalValue(t) \in Int \cup {None}
         /\ TariffFlag(t) \in STRING \cup {None}
<1>1. LabeledConsumption(t) \in Int \cup {None}
  <2> DEFINE amounts(l) == {a \in l.after \cup {l.before} : a # None /\ a # 0}
             largest(l) == IF amounts(l) = {} THEN None ELSE Max(amounts(l))
  <2>1. Extracts(largest, Int)
    <3> SUFFICES ASSUME NEW l \in Line, IsFiniteSet(l.after)
                 PROVE  largest(l) \in Int \cup {None}
      BY DEF Extracts
    <3>1. l.after \in SUBSET Int /\ l.before \in Int \cup {None}
      BY DEF Line
    <3>2. amounts(l) \in SUBSET Int
      BY <3>1
    <3>3. IsFiniteSet(l.after \cup {l.before})
      BY FS_AddElement
    <3>4. IsFiniteSet(amounts(l))
      BY <3>3, FS_Subset
    <3> HIDE DEF amounts
    <3> QED
      BY <3>2, <3>4, MinMaxOfFinite
  <2>2. LabeledConsumption(t) = FirstValue(t, LinesWith(t, {"consumo"}), largest)
    BY Zenon DEF LabeledConsumption
  <2> HIDE DEF largest
  <2> QED
    BY <2>1, <2>2, LinesAreLines, FirstValueIn, Zenon
<1>2. LabeledBilledDays(t) \in Int \cup {None}
  <2> DEFINE plausible(l) == {i \in DOMAIN l.integers : l.integers[i] \in Plausible}
             days(l) == IF l.range \in Plausible THEN l.range
                        ELSE IF plausible(l) # {} THEN l.integers[Max(plausible(l))] ELSE None
  <2>1. Extracts(days, Int)
    <3> SUFFICES ASSUME NEW l \in Line
                 PROVE  days(l) \in Int \cup {None}
      BY DEF Extracts
    <3>1. l.integers \in Seq(Int)
      BY DEF Line
    <3>2. plausible(l) \in SUBSET DOMAIN l.integers
      OBVIOUS
    <3>3. plausible(l) \in SUBSET Int /\ IsFiniteSet(plausible(l))
      BY <3>1, <3>2, PositionsAreFinite
    <3>4. plausible(l) # {} => Max(plausible(l)) \in plausible(l)
      BY <3>3, MinMaxOfFinite
    <3>5. \A i \in DOMAIN l.integers : l.integers[i] \in Int
      BY <3>1
    <3>6. l.range \in Plausible => l.range \in Int
      BY DEF Plausible
    <3> QED
      BY <3>2, <3>4, <3>5, <3>6
  <2>2. LabeledBilledDays(t) =
          FirstValue(t, LinesWith(t, {"dias faturados", "dias de faturamento"}), days)
    BY Zenon DEF LabeledBilledDays
  <2> HIDE DEF days
  <2> QED
    BY <2>1, <2>2, LinesAreLines, FirstValueIn, Zenon
<1>3. LabeledReferenceMonth(t) \in Int \cup {None}
  <2>1. Extracts(LAMBDA l : l.month, Int)
    BY DEF Extracts, Line
  <2> QED
    BY <2>1, LinesAreLines, FirstValueIn, Zenon DEF LabeledReferenceMonth
<1>4. LabeledTotalValue(t) \in Int \cup {None}
  <2> DEFINE amounts(l) == {i \in DOMAIN l.money : l.money[i] \in Payable}
             last(l) == IF amounts(l) = {} THEN None ELSE l.money[Max(amounts(l))]
  <2>1. Extracts(last, Int)
    <3> SUFFICES ASSUME NEW l \in Line
                 PROVE  last(l) \in Int \cup {None}
      BY DEF Extracts
    <3>1. l.money \in Seq(Int)
      BY DEF Line
    <3>2. amounts(l) \in SUBSET DOMAIN l.money
      OBVIOUS
    <3>3. amounts(l) \in SUBSET Int /\ IsFiniteSet(amounts(l))
      BY <3>1, <3>2, PositionsAreFinite
    <3>4. amounts(l) # {} => Max(amounts(l)) \in amounts(l)
      BY <3>3, MinMaxOfFinite
    <3>5. \A i \in DOMAIN l.money : l.money[i] \in Int
      BY <3>1
    <3> HIDE DEF amounts
    <3> QED
      BY <3>2, <3>4, <3>5
  <2>2. LabeledTotalValue(t) = FirstValue(t, LinesWith(t, {"total da fatura"}), last)
    BY Zenon DEF LabeledTotalValue
  <2> HIDE DEF last
  <2> QED
    BY <2>1, <2>2, LinesAreLines, FirstValueIn, Zenon
<1>5. TariffFlag(t) \in STRING \cup {None}
  <2> DEFINE near == FirstValue(t, LinesWith(t, {"bandeira", "tarifaria"}), LAMBDA l : l.colour)
             far == {c \in DOMAIN TariffFlags : \E i \in DOMAIN t : t[i].colour = TariffFlags[c]}
  <2>1. Extracts(LAMBDA l : l.colour, STRING)
    BY DEF Extracts, Line
  <2>2. near \in STRING \cup {None}
    BY <2>1, LinesAreLines, FirstValueIn, Zenon
  <2>3. far # {} => Min(far) \in far
    <3>1. DOMAIN TariffFlags = 1..6
      BY DEF TariffFlags
    <3>2. far \in SUBSET Int
      BY <3>1
    <3>3. IsFiniteSet(1..6)
      <4>1. 1 \in Int /\ 6 \in Int
        OBVIOUS
      <4> QED
        BY <4>1, FS_Interval
    <3>4. IsFiniteSet(far)
      BY <3>1, <3>3, FS_Subset
    <3> HIDE DEF far
    <3> QED
      BY <3>2, <3>4, MinMaxOfFinite
  <2>4. \A c \in far : TariffFlags[c] \in STRING \cup {None}
    <3>1. \A i \in DOMAIN t : t[i] \in Line
      BY LeastLine
    <3>2. \A i \in DOMAIN t : t[i].colour \in STRING \cup {None}
      BY <3>1 DEF Line
    <3> QED
      BY <3>2
  <2>5. TariffFlag(t) = IF near # None THEN near
                        ELSE IF far # {} THEN TariffFlags[Min(far)] ELSE None
    BY Zenon DEF TariffFlag
  <2> HIDE DEF near, far
  <2> QED
    BY <2>2, <2>3, <2>4, <2>5
<1> QED
  BY <1>1, <1>2, <1>3, <1>4, <1>5

\* The consumption that the history has for a month, if any.
LEMMA HistoryConsumptionIn ==
  ASSUME NEW h \in HistoryType, NEW m
  PROVE  HistoryConsumption(h, m) \in Int \cup {None}
<1> DEFINE I == {i \in 1..Len(h) : h[i].mes_referencia = m}
<1>1. CASE HasMonth(h, m)
  <2>1. I # {} /\ I \in SUBSET DOMAIN h
    BY <1>1, EntriesOfHistory DEF HasMonth
  <2>2. I \in SUBSET Int /\ IsFiniteSet(I)
    BY <2>1, PositionsAreFinite DEF HistoryType
  <2>3. HistoryConsumption(h, m) = h[Min(I)].consumo_kwh
    BY <1>1, <2>1 DEF HistoryConsumption, SelectInSeq
  <2> HIDE DEF I
  <2>4. Min(I) \in DOMAIN h
    BY <2>1, <2>2, MinMaxOfFinite
  <2> QED
    BY <2>3, <2>4, EntriesOfHistory
<1>2. CASE ~HasMonth(h, m)
  BY <1>2 DEF HistoryConsumption
<1> QED
  BY <1>1, <1>2

\* The median of the days in the history exists: it is the least number that
\* more than half of the rows do not exceed.
LEMMA DaysFromHistoryIn ==
  ASSUME NEW h \in HistoryType
  PROVE  DaysFromHistory(h) \in Plausible \cup {None}
<1> DEFINE rows == {i \in DOMAIN h : h[i].dias_faturados \in Plausible}
           B(d) == {i \in rows : h[i].dias_faturados < d}
           U(d) == {i \in rows : h[i].dias_faturados <= d}
           n == Cardinality(rows)
           half == n \div 2
           below(d) == Cardinality(B(d))
           upTo(d) == Cardinality(U(d))
<1>1. IsFiniteSet(rows)
  <2>1. rows \in SUBSET DOMAIN h
    OBVIOUS
  <2> QED
    BY <2>1, PositionsAreFinite DEF HistoryType
<1>2. /\ \A i \in rows : h[i].dias_faturados \in Plausible
      /\ \A d \in Plausible : U(d) \subseteq rows /\ B(d) \subseteq rows
      /\ Plausible \subseteq Nat /\ 20 \in Plausible /\ 35 \in Plausible
      /\ \A d \in Plausible : d = 20 \/ d - 1 \in Plausible
      /\ \A d \in Plausible : 20 <= d /\ d <= 35
  BY DEF Plausible
<1>3. DaysFromHistory(h) = IF rows = {} THEN None
                           ELSE CHOOSE d \in Plausible : below(d) <= half /\ half < upTo(d)
  BY Zenon DEF DaysFromHistory
<1>4. B(20) = {}
  BY <1>2 DEF Plausible
<1>5. U(35) = rows
  BY <1>2 DEF Plausible
<1>6. \A d \in Plausible : B(d) = U(d - 1)
  <2> SUFFICES ASSUME NEW d \in Plausible
               PROVE  B(d) = U(d - 1)
    OBVIOUS
  <2>1. \A x \in Plausible : x < d <=> x <= d - 1
    BY DEF Plausible
  <2> QED
    BY <1>2, <2>1
<1> HIDE DEF rows, B, U
<1>7. n \in Nat /\ (rows # {} => n # 0)
  BY <1>1, FS_CardinalityType, FS_EmptySet
<1>8. \A d \in Plausible : upTo(d) \in Nat
  BY <1>1, <1>2, FS_Subset, FS_CardinalityType
<1>9. below(20) = 0 /\ upTo(35) = n
  BY <1>4, <1>5, FS_EmptySet
<1>10. \A d \in Plausible : below(d) = upTo(d - 1)
  BY <1>6
<1> HIDE DEF n
<1>11. half \in Nat /\ (rows # {} => half < n)
  BY <1>7
<1> HIDE DEF below, upTo, half
<1>12. CASE rows # {}
  <2> DEFINE T == {d \in Plausible : half < upTo(d)}
  <2>1. T \in SUBSET Nat /\ 35 \in T
    BY <1>2, <1>9, <1>11, <1>12
  <2>2. PICK d \in T : \A e \in T : d <= e
    BY <2>1, LeastNatural, Zenon
  <2>3. d \in Plausible /\ half < upTo(d)
    BY <2>2
  <2>4. below(d) <= half
    <3>1. CASE d = 20
      BY <3>1, <1>9, <1>11
    <3>2. CASE d - 1 \in Plausible
      <4>1. d \in Nat /\ ~(d <= d - 1)
        BY <1>2, <2>3
      <4>2. ~(half < upTo(d - 1))
        BY <3>2, <4>1, <2>2
      <4>3. upTo(d - 1) \in Nat
        BY <3>2, <1>8
      <4> QED
        BY <4>2, <4>3, <1>10, <1>11, <2>3
    <3> QED
      BY <3>1, <3>2, <1>2, <2>3
  <2>5. \E e \in Plausible : below(e) <= half /\ half < upTo(e)
    BY <2>3, <2>4
  <2> QED
    BY <1>3, <1>12, <2>5, Zenon
<1> QED
  BY <1>3, <1>12

\* A correction of field f leaves a report, and the other fields alone.
Corrects(p, q, f) == WellRead(q) /\ \A g \in Name \ {f} : q[g] = p[g]

\* Nothing to correct.
LEMMA NothingToCorrect ==
  ASSUME NEW p, WellRead(p), NEW f
  PROVE  Corrects(p, p, f)
  BY DEF Corrects

\* A value and its confidence.
LEMMA CorrectsField ==
  ASSUME NEW p, WellRead(p), NEW f \in Plain, NEW v \in Values(f), NEW c \in 0..100
  PROVE  Corrects(p, Corrected(p, f, v, c), f)
<1> DEFINE q == Corrected(p, f, v, c)
<1>1. WellRead(q) /\ \A g \in Name \ {f} : q[g] = p[g]
  BY CorrectedKeeps
<1> QED
  BY <1>1 DEF Corrects

\* The fields and their values.
LEMMA FieldValues ==
  ASSUME NEW p, WellRead(p)
  PROVE  /\ \A f \in Plain : p[f].value \in Values(f) \cup {None} /\ p[f].confidence \in 0..100
         /\ Figures \subseteq Plain /\ \A f \in Figures : Values(f) = Int
         /\ "bandeira_tarifaria" \in Plain /\ Values("bandeira_tarifaria") = Word
         /\ "historico_consumo" \in Name \ Plain
         /\ p["historico_consumo"].value \in HistoryType
  BY DEF WellRead, Reading, Plain, Name, Figures, Values

\* The figures by their names.
LEMMA FigureNames ==
  /\ "mes_referencia" \in Figures /\ "consumo_kwh" \in Figures /\ "dias_faturados" \in Figures
  /\ "valor_total" \in Figures /\ "vencimento" \in Figures
  BY DEF Figures

\* The correction of the consumption changes at most the consumption.
LEMMA CorrectConsumptionCorrects ==
  ASSUME NEW t, Text(t), NEW p, WellRead(p)
  PROVE  Corrects(p, CorrectConsumption(p, t), "consumo_kwh")
<1> DEFINE labeled == LabeledConsumption(t)
           h == p["historico_consumo"].value
           old == HistoryConsumption(h, p["mes_referencia"].value)
           candidate == IF labeled # None THEN labeled ELSE old
<1>1. candidate \in Int \cup {None}
  BY LabeledValues, HistoryConsumptionIn, FieldValues
<1>2. \/ CorrectConsumption(p, t) = p
      \/ candidate # None /\ CorrectConsumption(p, t) = Corrected(p, "consumo_kwh", candidate, 90)
  BY DEF CorrectConsumption
<1> HIDE DEF candidate
<1>3. CASE CorrectConsumption(p, t) = p
  BY <1>3, NothingToCorrect
<1>4. CASE candidate # None /\ CorrectConsumption(p, t) = Corrected(p, "consumo_kwh", candidate, 90)
  <2>1. "consumo_kwh" \in Plain /\ candidate \in Values("consumo_kwh") /\ 90 \in 0..100
    BY <1>1, <1>4, FieldValues, FigureNames
  <2> QED
    BY <1>4, <2>1, CorrectsField
<1> QED
  BY <1>2, <1>3, <1>4

\* The correction of the days changes at most the days.
LEMMA CorrectBilledDaysCorrects ==
  ASSUME NEW t, Text(t), NEW p, WellRead(p)
  PROVE  Corrects(p, CorrectBilledDays(p, t), "dias_faturados")
<1> DEFINE labeled == LabeledBilledDays(t)
           h == p["historico_consumo"].value
           candidate == IF labeled # None THEN labeled ELSE DaysFromHistory(h)
           f == "dias_faturados"
           q == CorrectBilledDays(p, t)
<1>1. candidate \in Int \cup {None}
  BY LabeledValues, DaysFromHistoryIn, FieldValues DEF Plausible
<1>2. \/ q = p
      \/ candidate # None /\ q = Corrected(p, f, candidate, 82)
      \/ q = [p EXCEPT ![f] = Missing]
  BY DEF CorrectBilledDays
<1>3. f \in Plain /\ Values(f) = Int /\ 82 \in 0..100
  BY FieldValues, FigureNames
<1> HIDE DEF candidate, f, q
<1>4. CASE q = p
  BY <1>4, NothingToCorrect DEF q, f
<1>5. CASE candidate # None /\ q = Corrected(p, f, candidate, 82)
  <2>1. candidate \in Values(f)
    BY <1>1, <1>3, <1>5
  <2> QED
    BY <1>3, <1>5, <2>1, CorrectsField DEF q, f
<1>6. CASE q = [p EXCEPT ![f] = Missing]
  <2>1. Missing \in Reading(Values(f)) /\ Worthless(Missing)
    BY <1>3 DEF Missing, ParsedField, Reading, Worthless
  <2> DEFINE r == [p EXCEPT ![f] = Missing]
  <2>2. WellRead(r) /\ \A g \in Name \ {f} : r[g] = p[g]
    BY <1>3, <2>1, OneField
  <2> HIDE DEF r
  <2>3. q = r
    BY <1>6 DEF r
  <2> QED
    BY <2>2, <2>3 DEF Corrects, q, f
<1> QED
  BY <1>2, <1>4, <1>5, <1>6

\* The inference of the month changes at most the month.
LEMMA InferReferenceMonthCorrects ==
  ASSUME NEW t, Text(t), NEW p, WellRead(p)
  PROVE  Corrects(p, InferReferenceMonth(p, t), "mes_referencia")
<1> DEFINE labeled == LabeledReferenceMonth(t)
           h == p["historico_consumo"].value
           due == p["vencimento"].value
           q == InferReferenceMonth(p, t)
<1>1. \/ q = p
      \/ labeled # None /\ q = Corrected(p, "mes_referencia", labeled, 88)
      \/ h # <<>> /\ q = Corrected(p, "mes_referencia", Last(h).mes_referencia, 78)
      \/ due # None /\ q = Corrected(p, "mes_referencia", due - 1, 72)
  BY DEF InferReferenceMonth
<1>2. /\ "mes_referencia" \in Plain /\ Values("mes_referencia") = Int
      /\ 88 \in 0..100 /\ 78 \in 0..100 /\ 72 \in 0..100
  BY FieldValues, FigureNames
<1>3. labeled \in Int \cup {None} /\ due \in Int \cup {None}
  BY LabeledValues, FieldValues, FigureNames
<1>4. h # <<>> => Last(h).mes_referencia \in Int
  <2>1. h \in HistoryType
    BY FieldValues
  <2> HIDE DEF h
  <2>2. h # <<>> => Len(h) \in DOMAIN h
    BY <2>1 DEF HistoryType
  <2> QED
    BY <2>1, <2>2, EntriesOfHistory DEF Last
<1>5. due # None => due - 1 \in Int
  BY <1>3
<1> HIDE DEF labeled, h, due, q
<1>6. CASE q = p
  BY <1>6, NothingToCorrect DEF q
<1>7. CASE labeled # None /\ q = Corrected(p, "mes_referencia", labeled, 88)
  <2>1. labeled \in Values("mes_referencia")
    BY <1>2, <1>3, <1>7
  <2> QED
    BY <1>2, <1>7, <2>1, CorrectsField DEF q
<1>8. CASE h # <<>> /\ q = Corrected(p, "mes_referencia", Last(h).mes_referencia, 78)
  <2>1. Last(h).mes_referencia \in Values("mes_referencia")
    BY <1>2, <1>4, <1>8
  <2> QED
    BY <1>2, <1>8, <2>1, CorrectsField DEF q
<1>9. CASE due # None /\ q = Corrected(p, "mes_referencia", due - 1, 72)
  <2>1. due - 1 \in Values("mes_referencia")
    BY <1>2, <1>5, <1>9
  <2> QED
    BY <1>2, <1>9, <2>1, CorrectsField DEF q
<1> QED
  BY <1>1, <1>6, <1>7, <1>8, <1>9

\* The fallback for the amount changes at most the amount.
LEMMA FallbackTotalValueCorrects ==
  ASSUME NEW t, Text(t), NEW p, WellRead(p)
  PROVE  Corrects(p, FallbackTotalValue(p, t), "valor_total")
<1> DEFINE labeled == LabeledTotalValue(t)
           q == FallbackTotalValue(p, t)
<1>1. q = p \/ (labeled # None /\ q = Corrected(p, "valor_total", labeled, 86))
  BY DEF FallbackTotalValue
<1>2. "valor_total" \in Plain /\ Values("valor_total") = Int /\ 86 \in 0..100
  BY FieldValues, FigureNames
<1>3. labeled \in Int \cup {None}
  BY LabeledValues
<1> HIDE DEF labeled, q
<1>4. CASE q = p
  BY <1>4, NothingToCorrect DEF q
<1>5. CASE labeled # None /\ q = Corrected(p, "valor_total", labeled, 86)
  <2>1. labeled \in Values("valor_total")
    BY <1>2, <1>3, <1>5
  <2> QED
    BY <1>2, <1>5, <2>1, CorrectsField DEF q
<1> QED
  BY <1>1, <1>4, <1>5

\* The fallback for the tariff flag changes at most the tariff flag.
LEMMA FallbackTariffFlagCorrects ==
  ASSUME NEW t, Text(t), NEW p, WellRead(p)
  PROVE  Corrects(p, FallbackTariffFlag(p, t), "bandeira_tarifaria")
<1> DEFINE colour == TariffFlag(t)
           f == "bandeira_tarifaria"
           unknown == "Nao identificada"
           q == FallbackTariffFlag(p, t)
<1>1. \/ q = p
      \/ colour # None /\ q = Corrected(p, f, colour, 82)
      \/ q = Corrected(p, f, unknown, 45)
  BY DEF FallbackTariffFlag
<1>2. f \in Plain /\ Values(f) = Word /\ 82 \in 0..100 /\ 45 \in 0..100
  BY FieldValues
<1>3. (colour # None => colour \in Word) /\ unknown \in Word
  BY LabeledValues, WordsAndNone
<1> HIDE DEF colour, f, unknown, q
<1>4. CASE q = p
  BY <1>4, NothingToCorrect DEF q, f
<1>5. CASE colour # None /\ q = Corrected(p, f, colour, 82)
  BY <1>2, <1>3, <1>5, CorrectsField DEF q, f
<1>6. CASE q = Corrected(p, f, unknown, 45)
  BY <1>2, <1>3, <1>6, CorrectsField DEF q, f
<1> QED
  BY <1>1, <1>4, <1>5, <1>6

\* The history with the row of month m replaced by own, or with own added.
Reconciled(h, m, own) ==
  IF HasMonth(h, m)
  THEN [i \in DOMAIN h |-> IF h[i].mes_referencia = m THEN own ELSE h[i]]
  ELSE Sorted(Append(h, own))

\* It is in order, has that row and keeps those of the other months.
LEMMA ReconciledHistory ==
  ASSUME NEW h \in HistoryType, Ascending(h), NEW m \in Int,
         NEW own \in EntryType, own.mes_referencia = m
  PROVE  LET new == Reconciled(h, m, own)
         IN  /\ new \in HistoryType /\ Ascending(new) /\ own \in Range(new)
             /\ \A e \in Range(h) : e.mes_referencia # m => e \in Range(new)
<1>1. /\ Len(h) \in Nat /\ DOMAIN h = 1..Len(h) /\ h \in Seq(EntryType)
      /\ \A i \in DOMAIN h : h[i] \in EntryType /\ h[i].mes_referencia \in Int
  BY EntriesOfHistory DEF HistoryType
<1>2. CASE HasMonth(h, m)
  <2> DEFINE new == [i \in DOMAIN h |-> IF h[i].mes_referencia = m THEN own ELSE h[i]]
  <2>1. new \in Seq(EntryType)
    <3>1. new \in [1..Len(h) -> EntryType]
      BY <1>1
    <3> HIDE DEF new
    <3> QED
      BY <1>1, <3>1
  <2>2. /\ DOMAIN new = DOMAIN h
        /\ \A i \in DOMAIN h : new[i].mes_referencia = h[i].mes_referencia
        /\ \A i \in DOMAIN h : h[i].mes_referencia = m => new[i] = own
        /\ \A i \in DOMAIN h : h[i].mes_referencia # m => new[i] = h[i]
    OBVIOUS
  <2>3. Reconciled(h, m, own) = new
    BY <1>2 DEF Reconciled
  <2> HIDE DEF new
  <2>4. Ascending(new)
    BY <2>2 DEF Ascending
  <2>5. own \in Range(new)
    BY <1>2, <2>2 DEF HasMonth, Range
  <2>6. \A e \in Range(h) : e.mes_referencia # m => e \in Range(new)
    BY <2>2 DEF Range
  <2> QED
    BY <2>1, <2>3, <2>4, <2>5, <2>6 DEF HistoryType
<1>3. CASE ~HasMonth(h, m)
  <2> DEFINE g == Append(h, own)
             n == Len(h)
  <2>1. /\ g \in Seq(EntryType) /\ DOMAIN g = 1..(n + 1) /\ g[n + 1] = own
        /\ \A i \in 1..n : g[i] = h[i] /\ i \in 1..(n + 1)
    BY <1>1
  <2>2. \A i \in 1..(n + 1) : i \in 1..n \/ i = n + 1
    BY <1>1
  <2>3. \A i, j \in 1..n : i # j => h[i].mes_referencia # h[j].mes_referencia
    <3> SUFFICES ASSUME NEW i \in 1..n, NEW j \in 1..n, i # j
                 PROVE  h[i].mes_referencia # h[j].mes_referencia
      OBVIOUS
    <3>1. i < j \/ j < i
      OBVIOUS
    <3>2. h[i].mes_referencia \in Int /\ h[j].mes_referencia \in Int
      BY <1>1
    <3>3. i < j => h[i].mes_referencia < h[j].mes_referencia
      BY <1>1 DEF Ascending
    <3>4. j < i => h[j].mes_referencia < h[i].mes_referencia
      BY <1>1 DEF Ascending
    <3> QED
      BY <3>1, <3>2, <3>3, <3>4
  <2>4. \A i \in 1..n : h[i].mes_referencia # m
    BY <1>1, <1>3 DEF HasMonth
  <2>5. Reconciled(h, m, own) = Sorted(g)
    BY <1>3 DEF Reconciled
  <2>6. n + 1 \in 1..(n + 1)
    BY <1>1
  <2> HIDE DEF n, g
  <2>7. g \in HistoryType /\ Distinct(g)
    BY <2>1, <2>2, <2>3, <2>4 DEF Distinct, HistoryType
  <2>8. own \in Range(g) /\ Range(h) \subseteq Range(g)
    BY <1>1, <2>1, <2>6 DEF Range, n
  <2> QED
    BY <2>5, <2>7, <2>8, SortedAscends
<1> QED
  BY <1>2, <1>3

\* The row a bill has of its own month.
Own(p) == Entry(p["mes_referencia"].value, p["consumo_kwh"].value, p["dias_faturados"].value)

\* Reconciling changes nothing but the history, and in it nothing but the row
\* of the bill's month, which says what the bill says.
LEMMA ReconcileKeeps ==
  ASSUME NEW p, WellRead(p)
  PROVE  LET q == ReconcileHistory(p)
             m == p["mes_referencia"].value
             c == p["consumo_kwh"].value
         IN  /\ WellRead(q) /\ \A f \in Plain : q[f] = p[f]
             /\ m # None /\ c # None /\ c > 0 => Own(p) \in Range(q["historico_consumo"].value)
             /\ \A e \in Range(p["historico_consumo"].value) :
                  e.mes_referencia # m => e \in Range(q["historico_consumo"].value)
<1> DEFINE f == "historico_consumo"
           q == ReconcileHistory(p)
           m == p["mes_referencia"].value
           c == p["consumo_kwh"].value
           d == p["dias_faturados"].value
           h == p[f].value
           own == Own(p)
           new == Reconciled(h, m, own)
           r == ParsedField(new, AtLeast(p[f].confidence, 82))
<1>1. /\ m \in Int \cup {None} /\ c \in Int \cup {None} /\ d \in Int \cup {None}
      /\ h \in HistoryType /\ Ascending(h) /\ DOMAIN p = Name /\ p[f].confidence \in 0..100
      /\ f \in Name \ Plain
  BY FieldValues, FigureNames DEF WellRead
<1>2. m # None /\ c # None => own \in EntryType /\ own.mes_referencia = m
  <2>1. own = Entry(m, c, d)
    BY DEF Own
  <2>2. m # None /\ c # None => m \in Int /\ c \in Int /\ d \in Int \cup {None}
    BY <1>1
  <2> HIDE DEF m, c, d, own
  <2>3. ASSUME m \in Int, c \in Int, d \in Int \cup {None}
        PROVE  Entry(m, c, d) \in EntryType /\ Entry(m, c, d).mes_referencia = m
    BY <2>3 DEF Entry, EntryType
  <2> QED
    BY <2>1, <2>2, <2>3
<1>3. q = IF m = None \/ c = None \/ new = h THEN p
          ELSE IF c <= 0 THEN p ELSE [p EXCEPT ![f] = r]
  BY Zenon DEF ReconcileHistory, Reconciled, Corrected, Own
<1> HIDE DEF own
<1>4. m # None /\ c # None =>
        /\ new \in HistoryType /\ Ascending(new) /\ own \in Range(new)
        /\ \A e \in Range(h) : e.mes_referencia # m => e \in Range(new)
  BY <1>1, <1>2, ReconciledHistory
<1>5. r.value = new /\ r.confidence \in 0..100
  BY <1>1 DEF ParsedField, AtLeast
<1> HIDE DEF new, r
<1>6. CASE m = None \/ c = None
  <2>1. q = p
    BY <1>3, <1>6
  <2> QED
    BY <1>6, <2>1
<1>7. CASE m # None /\ c # None /\ new = h
  <2>1. q = p
    BY <1>3, <1>7
  <2> QED
    BY <1>4, <1>7, <2>1 DEF own
<1>8. CASE m # None /\ c # None /\ new # h /\ c <= 0
  <2>1. q = p
    BY <1>3, <1>8
  <2>2. ~(c > 0)
    BY <1>1, <1>8
  <2> QED
    BY <2>1, <2>2
<1>9. CASE m # None /\ c # None /\ new # h /\ ~(c <= 0)
  <2> DEFINE z == [p EXCEPT ![f] = r]
  <2>1. q = z
    BY <1>3, <1>9
  <2>2. DOMAIN z = Name /\ z[f] = r /\ \A g \in Plain : z[g] = p[g]
    BY <1>1 DEF Plain
  <2> HIDE DEF z, h, m, c
  <2>3. WellRead(z)
    BY <1>4, <1>5, <1>9, <2>2 DEF WellRead
  <2>4. z[f].value = new
    BY <1>5, <2>2
  <2> QED
    BY <1>4, <1>9, <2>1, <2>2, <2>3, <2>4 DEF own, h, m, c
<1> QED
  BY <1>6, <1>7, <1>8, <1>9

\* All corrections, one after the other.
LEMMA ProcessKeeps ==
  ASSUME NEW t, Text(t)
  PROVE  LET q == Process(Parse(t), t)
             m == q["mes_referencia"].value
             c == q["consumo_kwh"].value
         IN  /\ WellRead(q)
             /\ m # None /\ c # None /\ c > 0 => Own(q) \in Range(q["historico_consumo"].value)
             /\ \A e \in Range(ParseHistory(t)) :
                  e.mes_referencia # m => e \in Range(q["historico_consumo"].value)
<1> DEFINE p  == Parse(t)
           p1 == CorrectConsumption(p, t)
           p2 == CorrectBilledDays(p1, t)
           p3 == InferReferenceMonth(p2, t)
           p4 == FallbackTotalValue(p3, t)
           p5 == FallbackTariffFlag(p4, t)
           q  == ReconcileHistory(p5)
           f  == "historico_consumo"
<1>1. Process(p, t) = q
  BY Zenon DEF Process
<1>2. WellRead(p) /\ p[f].value = ParseHistory(t)
  BY ParseIsWellRead
<1>3. /\ f \in Name /\ f # "consumo_kwh" /\ f # "dias_faturados" /\ f # "mes_referencia"
      /\ f # "valor_total" /\ f # "bandeira_tarifaria" /\ "mes_referencia" \in Plain
      /\ "consumo_kwh" \in Plain
  BY DEF Name, Plain
<1> HIDE DEF p, q, f
<1>4. Corrects(p, p1, "consumo_kwh")
  BY <1>2, CorrectConsumptionCorrects
<1> HIDE DEF p1
<1>5. Corrects(p1, p2, "dias_faturados")
  BY <1>4, CorrectBilledDaysCorrects DEF Corrects
<1> HIDE DEF p2
<1>6. Corrects(p2, p3, "mes_referencia")
  BY <1>5, InferReferenceMonthCorrects DEF Corrects
<1> HIDE DEF p3
<1>7. Corrects(p3, p4, "valor_total")
  BY <1>6, FallbackTotalValueCorrects DEF Corrects
<1> HIDE DEF p4
<1>8. Corrects(p4, p5, "bandeira_tarifaria")
  BY <1>7, FallbackTariffFlagCorrects DEF Corrects
<1> HIDE DEF p5
<1>9. WellRead(p5) /\ p5[f] = p[f]
  BY <1>3, <1>4, <1>5, <1>6, <1>7, <1>8 DEF Corrects
<1>10. /\ WellRead(q) /\ \A g \in Plain : q[g] = p5[g]
       /\ p5["mes_referencia"].value # None /\ p5["consumo_kwh"].value # None
            /\ p5["consumo_kwh"].value > 0 => Own(p5) \in Range(q["historico_consumo"].value)
       /\ \A e \in Range(p5["historico_consumo"].value) :
            e.mes_referencia # p5["mes_referencia"].value => e \in Range(q["historico_consumo"].value)
  BY <1>9, ReconcileKeeps DEF q
<1>11. Own(q) = Own(p5) /\ q["mes_referencia"] = p5["mes_referencia"] /\ q["consumo_kwh"] = p5["consumo_kwh"]
  BY <1>10 DEF Own, Plain, Name
<1> QED
  BY <1>1, <1>2, <1>9, <1>10, <1>11 DEF p, f

-----------------------------------------------------------------------------
(* Validation.                                                             *)

\* What the validator caps a confidence at.
Caps == {0, 30, 40}

\* A check sends a field to review at one of the caps.
LEMMA ReviewedFields ==
  ASSUME NEW p
  PROVE  /\ Reviewed(p) \subseteq Name \X Caps
         /\ DaysOutOfRange(p) => <<"dias_faturados", 0>> \in Reviewed(p)
<1> DEFINE h == Range(p["historico_consumo"].value)
           check(f, cond, cap) == IF cond THEN {<<f, cap>>} ELSE {}
           A == UNION {check(f, p[f].value = None, 0) : f \in {"mes_referencia", "consumo_kwh", "valor_total"}}
           B == UNION {check(f, p[f].value # None /\ p[f].value <= 0, 0) : f \in {"consumo_kwh", "valor_total"}}
           C == check("dias_faturados", DaysOutOfRange(p), 0)
           D == check("dias_faturados", DaysUnusual(p), 40)
           E == check("historico_consumo", \E e \in h : e.consumo_kwh <= 0, 30)
           F == check("historico_consumo",
                      \E e \in h : e.dias_faturados # None /\ e.dias_faturados \notin Accepted, 30)
<1>1. Reviewed(p) = A \cup B \cup C \cup D \cup E \cup F
  BY Zenon DEF Reviewed
<1>2. /\ "mes_referencia" \in Name /\ "consumo_kwh" \in Name /\ "valor_total" \in Name
      /\ "dias_faturados" \in Name /\ "historico_consumo" \in Name
      /\ 0 \in Caps /\ 30 \in Caps /\ 40 \in Caps
  BY DEF Name, Caps
<1>3. ASSUME NEW f \in Name, NEW cond, NEW cap \in Caps
      PROVE  check(f, cond, cap) \subseteq Name \X Caps
  OBVIOUS
<1>4. DaysOutOfRange(p) => <<"dias_faturados", 0>> \in C
  OBVIOUS
<1> HIDE DEF check
<1>5. A \subseteq Name \X Caps /\ B \subseteq Name \X Caps
  BY <1>2, <1>3
<1>6. C \subseteq Name \X Caps /\ D \subseteq Name \X Caps
  BY <1>2, <1>3
<1>7. E \subseteq Name \X Caps /\ F \subseteq Name \X Caps
  BY <1>2, <1>3
<1> HIDE DEF A, B, C, D, E, F
<1> QED
  BY <1>1, <1>4, <1>5, <1>6, <1>7

\* A score is no more than the confidence and than every cap of its field.
LEMMA FinalScoreIn ==
  ASSUME NEW p, WellRead(p), NEW f \in Name
  PROVE  /\ FinalScore(p, f) \in 0..100
         /\ FinalScore(p, f) <= p[f].confidence
         /\ \A r \in Reviewed(p) : r[1] = f => FinalScore(p, f) <= r[2]
<1> DEFINE caps == {r[2] : r \in {r \in Reviewed(p) : r[1] = f}}
           I == {p[f].confidence} \cup caps
<1>1. p[f].confidence \in 0..100
  BY DEF WellRead, Reading, Plain
<1>2. caps \subseteq Caps
  <2>1. \A r \in Reviewed(p) : r[2] \in Caps
    BY ReviewedFields
  <2> QED
    BY <2>1
<1>3. \A r \in Reviewed(p) : r[1] = f => r[2] \in caps
  OBVIOUS
<1>4. IsFiniteSet(Caps)
  <2>1. 0 \in Int /\ 40 \in Int /\ Caps \subseteq 0..40
    BY DEF Caps
  <2> QED
    BY <2>1, FS_Interval, FS_Subset
<1>5. FinalScore(p, f) = Min(I)
  BY DEF FinalScore
<1> HIDE DEF caps
<1>6. IsFiniteSet(I) /\ I \in SUBSET (0..100) /\ I # {}
  <2>1. IsFiniteSet(caps)
    BY <1>2, <1>4, FS_Subset
  <2>2. IsFiniteSet(caps \cup {p[f].confidence})
    BY <2>1, FS_AddElement
  <2>3. I = caps \cup {p[f].confidence}
    OBVIOUS
  <2>4. Caps \subseteq 0..100
    BY DEF Caps
  <2> QED
    BY <1>1, <1>2, <2>2, <2>3, <2>4
<1>7. p[f].confidence \in I /\ \A x \in caps : x \in I
  OBVIOUS
<1> HIDE DEF I
<1>8. Min(I) \in I /\ \A x \in I : Min(I) <= x
  <2>1. I \in SUBSET Int
    BY <1>6
  <2> QED
    BY <1>6, <2>1, MinMaxOfFinite
<1> QED
  BY <1>3, <1>5, <1>6, <1>7, <1>8

-----------------------------------------------------------------------------
(* The states.                                                             *)

\* Nothing has been stored.
Untouched == bill = Nothing /\ score = [f \in Name |-> 0] /\ flagged = {} /\ shown = {}

\* What is stored is what the processor made of the text.
AsProcessed(p) ==
  /\ SchemaAccepts(p)
  /\ bill = Structured(p)
  /\ score = [f \in Name |-> FinalScore(p, f)]
  /\ flagged = FieldsForReview(p)
  /\ shown = Shown(score)

\* The inductive invariant: what is stored was all computed from the text, by
\* one run of the processor, or nothing is stored.
IInv ==
  /\ text \in Texts
  /\ status \in {"new", "error", "PENDING_REVIEW", "FAILED"}
  /\ Untouched \/ AsProcessed(Process(Parse(text), text))
  /\ Stored => AsProcessed(Process(Parse(text), text))

\* Extraction is one transaction: everything is stored or nothing is.
THEOREM Transaction == Spec => []IInv
<1>1. Init => IInv
  BY DEF Init, IInv, Untouched, Stored
<1>2. IInv /\ [Next]_vars => IInv'
  <2> SUFFICES ASSUME IInv, [Next]_vars
               PROVE  IInv'
    OBVIOUS
  <2> DEFINE p == Process(Parse(text), text)
             b == Structured(p)
             s == [f \in Name |-> FinalScore(p, f)]
  <2>1. CASE Extract
    <3>1. Store(p, b, s)
      BY <2>1 DEF Extract, Stores
    <3>2. CASE SchemaAccepts(p)
      <4>1. /\ text' = text /\ bill' = b /\ score' = s /\ status' = ExtractionStatus(b)
            /\ flagged' = FieldsForReview(p) /\ shown' = Shown(s)
        BY <3>1, <3>2 DEF Store
      <4>2. AsProcessed(Process(Parse(text), text))'
        BY <3>2, <4>1 DEF AsProcessed
      <4>3. status' \in {"PENDING_REVIEW", "FAILED"}
        BY <4>1 DEF ExtractionStatus
      <4> QED
        BY <4>1, <4>2, <4>3 DEF IInv
    <3>3. CASE ~SchemaAccepts(p)
      <4>1. status' = "error" /\ UNCHANGED <<text, bill, score, flagged, shown>>
        BY <3>1, <3>3 DEF Store
      <4> QED
        BY <4>1 DEF IInv, Untouched, AsProcessed, Stored
    <3> QED
      BY <3>2, <3>3
  <2>2. CASE UNCHANGED vars
    BY <2>2 DEF IInv, Untouched, AsProcessed, Stored, vars
  <2> QED
    BY <2>1, <2>2 DEF Next
<1> QED
  BY <1>1, <1>2, PTL DEF Spec

\* The report of the text of a state, once stored.
LEMMA ReportOfState ==
  ASSUME IInv
  PROVE  /\ Text(text)
         /\ WellRead(Process(Parse(text), text))
<1>1. Text(text)
  BY TextAssumption DEF IInv, Text
<1> QED
  BY <1>1, ProcessKeeps

\* The values that are stored.
LEMMA StoredValues ==
  ASSUME NEW p, WellRead(p)
  PROVE  /\ DOMAIN Structured(p) = Name
         /\ Structured(p)["dias_faturados"] = StoredDays(p["dias_faturados"].value)
         /\ Structured(p)["historico_consumo"] = StoredHistory(p["historico_consumo"].value)
         /\ \A f \in Plain \ {"dias_faturados"} : Structured(p)[f] = p[f].value
  BY DEF Structured, Plain, Name

\* Scores are percentages and the flagged and shown fields are fields, whatever
\* the corrections and the checks have made of the confidences.
THEOREM ScoresInRange == Spec => []TypeOK
<1>1. IInv => TypeOK
  <2> SUFFICES ASSUME IInv
               PROVE  TypeOK
    OBVIOUS
  <2> DEFINE p == Process(Parse(text), text)
  <2>1. WellRead(p)
    BY ReportOfState
  <2>2. CASE Untouched /\ ~Stored
    <3>1. /\ score \in [Name -> 0..100] /\ DOMAIN bill = Name
          /\ flagged \subseteq Name /\ shown \subseteq Name
      BY <2>2 DEF Untouched, Nothing
    <3> QED
      BY <2>2, <3>1 DEF IInv, TypeOK
  <2>3. CASE AsProcessed(p)
    <3> HIDE DEF p
    <3>1. score \in [Name -> 0..100]
      BY <2>1, <2>3, FinalScoreIn DEF AsProcessed
    <3>2. flagged \subseteq Name
      <4>1. \A r \in Reviewed(p) : r[1] \in Name
        BY ReviewedFields
      <4> QED
        BY <2>3, <4>1 DEF AsProcessed, FieldsForReview, LowConfidence
    <3>3. shown \subseteq Name
      BY <2>3 DEF AsProcessed, Shown
    <3>4. DOMAIN bill = Name /\ bill["dias_faturados"] \in Accepted \cup {None}
      BY <2>1, <2>3, StoredValues DEF AsProcessed, StoredDays
    <3> QED
      BY <3>1, <3>2, <3>3, <3>4 DEF IInv, TypeOK
  <2> QED
    BY <2>2, <2>3 DEF IInv
<1> QED
  BY <1>1, Transaction, PTL

\* With a threshold above every cap, the list that is rebuilt from the stored
\* confidences is the list of the validator: a field that a check sends to
\* review has lost its confidence.
THEOREM ReviewSurvivesStorage ==
  ASSUME Threshold > 40
  PROVE  Spec => []ReviewIsShown
<1>1. IInv => ReviewIsShown
  <2> SUFFICES ASSUME IInv, Stored
               PROVE  shown = flagged
    BY DEF ReviewIsShown
  <2> DEFINE p == Process(Parse(text), text)
  <2>1. WellRead(p) /\ AsProcessed(p)
    BY ReportOfState DEF IInv
  <2> HIDE DEF p
  <2>2. shown = LowConfidence(p)
    BY <2>1 DEF AsProcessed, Shown, LowConfidence
  <2>3. flagged = {r[1] : r \in Reviewed(p)} \cup LowConfidence(p)
    BY <2>1 DEF AsProcessed, FieldsForReview
  <2>4. ASSUME NEW r \in Reviewed(p)
        PROVE  r[1] \in LowConfidence(p)
    <3>1. r[1] \in Name /\ r[2] \in Caps
      BY ReviewedFields
    <3>2. FinalScore(p, r[1]) \in 0..100 /\ FinalScore(p, r[1]) <= r[2]
      BY <2>1, <3>1, FinalScoreIn
    <3>3. r[2] \in Int /\ r[2] <= 40
      BY <3>1 DEF Caps
    <3>4. FinalScore(p, r[1]) < Threshold
      BY <3>2, <3>3, ThresholdAssumption
    <3> QED
      BY <3>1, <3>4 DEF LowConfidence
  <2> QED
    BY <2>2, <2>3, <2>4
<1> QED
  BY <1>1, Transaction, PTL

\* With a positive threshold, a field without a value is shown: nothing read is
\* worth nothing, and what a check clears is capped at nothing.
THEOREM EmptyFieldsAreShown ==
  ASSUME Threshold > 0
  PROVE  Spec => []EmptyIsShown
<1>1. IInv => EmptyIsShown
  <2> SUFFICES ASSUME IInv, Stored, NEW f \in Plain, bill[f] = None
               PROVE  f \in shown
    BY DEF EmptyIsShown, Plain
  <2> DEFINE p == Process(Parse(text), text)
  <2>1. WellRead(p) /\ AsProcessed(p)
    BY ReportOfState DEF IInv
  <2> HIDE DEF p
  <2>2. f \in Name /\ bill = Structured(p)
    BY <2>1 DEF Plain, AsProcessed
  <2>3. p[f].value = None => FinalScore(p, f) <= 0
    <3>1. Worthless(p[f])
      BY <2>1 DEF WellRead
    <3> QED
      BY <2>1, <2>2, <3>1, FinalScoreIn DEF Worthless
  <2>4. FinalScore(p, f) <= 0
    <3>1. CASE f # "dias_faturados"
      BY <2>1, <2>2, <2>3, <3>1, StoredValues
    <3>2. CASE f = "dias_faturados" /\ p[f].value # None
      <4>1. StoredDays(p[f].value) = None
        BY <2>1, <2>2, <3>2, StoredValues
      <4>2. DaysOutOfRange(p)
        <5>1. None \notin Accepted
          <6>1. Accepted \subseteq Int
            BY DEF Accepted
          <6> QED
            BY <6>1, WordsAndNone
        <5> QED
          BY <3>2, <4>1, <5>1 DEF StoredDays, DaysOutOfRange
      <4>3. <<f, 0>> \in Reviewed(p)
        BY <3>2, <4>2, ReviewedFields
      <4> QED
        BY <2>1, <2>2, <4>3, FinalScoreIn
    <3> QED
      BY <2>3, <3>1, <3>2
  <2>5. FinalScore(p, f) < Threshold
    <3>1. FinalScore(p, f) \in 0..100
      BY <2>1, <2>2, FinalScoreIn
    <3> QED
      BY <2>4, <3>1, ThresholdAssumption
  <2> QED
    BY <2>1, <2>2, <2>5 DEF AsProcessed, Shown
<1> QED
  BY <1>1, Transaction, PTL

\* A row with its number of days as it is stored.
StoredRow(e) == [e EXCEPT !.dias_faturados = StoredDays(@)]

\* The rows that are stored: in order, each with a positive consumption, and
\* every row with one.
LEMMA StoredRows ==
  ASSUME NEW h \in HistoryType, Ascending(h)
  PROVE  LET g == StoredHistory(h)
         IN  /\ \A i \in DOMAIN g : g[i].consumo_kwh > 0
             /\ \A i, j \in DOMAIN g : i < j => g[i].mes_referencia < g[j].mes_referencia
             /\ \A e \in Range(h) : e.consumo_kwh > 0 => StoredRow(e) \in Range(g)
<1> DEFINE I == {i \in DOMAIN h : h[i].consumo_kwh > 0}
           n == Cardinality(I)
           g == StoredHistory(h)
<1>1. I \in SUBSET DOMAIN h /\ \A i \in I : h[i].consumo_kwh > 0
  OBVIOUS
<1>2. I \in SUBSET Int /\ IsFiniteSet(I)
  BY <1>1, PositionsAreFinite DEF HistoryType
<1>3. \A i \in DOMAIN h : h[i].consumo_kwh > 0 => i \in I
  OBVIOUS
<1>4. g = [i \in DOMAIN Only(h, I) |-> StoredRow(Only(h, I)[i])]
  BY DEF StoredHistory, StoredRow
<1> HIDE DEF I, g
<1>5. PICK p : /\ Cardinality(I) \in Nat
               /\ p \in [1..Cardinality(I) -> I]
               /\ \A i \in I : \E k \in 1..Cardinality(I) : p[k] = i
               /\ \A k, l \in 1..Cardinality(I) : k < l => p[k] < p[l]
               /\ Only(h, I) = [k \in 1..Cardinality(I) |-> h[p[k]]]
  BY <1>2, OnlyIsSelection, Zenon
<1>6. DOMAIN g = 1..n /\ \A k \in 1..n : g[k] = StoredRow(h[p[k]]) /\ p[k] \in I
  BY <1>4, <1>5
<1>7. \A e \in EntryType : /\ StoredRow(e).mes_referencia = e.mes_referencia
                           /\ StoredRow(e).consumo_kwh = e.consumo_kwh
  BY DEF StoredRow, EntryType
<1>8. \A i \in I : h[i] \in EntryType
  BY <1>1, EntriesOfHistory
<1>9. \A k \in 1..n : /\ g[k].mes_referencia = h[p[k]].mes_referencia
                      /\ g[k].consumo_kwh = h[p[k]].consumo_kwh
  BY <1>6, <1>7, <1>8
<1>10. \A i \in DOMAIN g : g[i].consumo_kwh > 0
  BY <1>1, <1>6, <1>9
<1>11. \A i, j \in DOMAIN g : i < j => g[i].mes_referencia < g[j].mes_referencia
  <2> SUFFICES ASSUME NEW i \in 1..n, NEW j \in 1..n, i < j
               PROVE  h[p[i]].mes_referencia < h[p[j]].mes_referencia
    BY <1>6, <1>9
  <2>1. p[i] < p[j] /\ p[i] \in DOMAIN h /\ p[j] \in DOMAIN h
    BY <1>1, <1>5, <1>6
  <2> QED
    BY <2>1 DEF Ascending
<1>12. ASSUME NEW e \in Range(h), e.consumo_kwh > 0
       PROVE  StoredRow(e) \in Range(g)
  <2>1. PICK i \in DOMAIN h : e = h[i]
    BY DEF Range
  <2>2. i \in I
    BY <1>3, <1>12, <2>1
  <2>3. PICK k \in 1..n : p[k] = i
    BY <1>5, <2>2
  <2>4. g[k] = StoredRow(e) /\ k \in DOMAIN g
    BY <1>6, <2>1, <2>3
  <2> QED
    BY <2>4 DEF Range
<1> QED
  BY <1>10, <1>11, <1>12 DEF g

\* A row is stored as it is unless its days are impossible.
LEMMA StoredRowIs ==
  ASSUME NEW e \in EntryType
  PROVE  /\ StoredRow(e) = Entry(e.mes_referencia, e.consumo_kwh, StoredDays(e.dias_faturados))
         /\ StoredDays(e.dias_faturados) = e.dias_faturados => StoredRow(e) = e
  BY DEF StoredRow, Entry, EntryType

\* Whatever was read, recovered and reconciled, the amounts that are stored are
\* positive and the history is in order with one row for a month.
THEOREM StoredBillIsWellFormed == Spec => []StoredIsWellFormed
<1>1. IInv => StoredIsWellFormed
  <2> SUFFICES ASSUME IInv, Stored
               PROVE  StoredIsWellFormed
    BY DEF StoredIsWellFormed
  <2> DEFINE p == Process(Parse(text), text)
  <2>1. WellRead(p) /\ AsProcessed(p)
    BY ReportOfState DEF IInv
  <2> HIDE DEF p
  <2>2. /\ bill["consumo_kwh"] = p["consumo_kwh"].value
        /\ bill["valor_total"] = p["valor_total"].value
        /\ bill["historico_consumo"] = StoredHistory(p["historico_consumo"].value)
    BY <2>1, StoredValues DEF AsProcessed, Plain, Name
  <2>3. /\ p["consumo_kwh"].value # None => p["consumo_kwh"].value > 0
        /\ p["valor_total"].value # None => p["valor_total"].value > 0
    BY <2>1 DEF AsProcessed, SchemaAccepts
  <2> DEFINE h == bill["historico_consumo"]
  <2>4. /\ \A i \in DOMAIN h : h[i].consumo_kwh > 0
        /\ \A i, j \in DOMAIN h : i < j => h[i].mes_referencia < h[j].mes_referencia
    BY <2>1, <2>2, StoredRows DEF WellRead
  <2> QED
    BY <2>2, <2>3, <2>4 DEF StoredIsWellFormed
<1> QED
  BY <1>1, Transaction, PTL

\* A stored bill and the row of its month in its own history say the same: the
\* history is reconciled when every figure has its last value.
THEOREM HistoryAgrees == Spec => []HistoryAgreesWithBill
<1>1. IInv => HistoryAgreesWithBill
  <2> DEFINE m == bill["mes_referencia"]
             c == bill["consumo_kwh"]
             d == bill["dias_faturados"]
             p == Process(Parse(text), text)
             x == p["dias_faturados"].value
             h == p["historico_consumo"].value
  <2> SUFFICES ASSUME IInv, Stored, m # None, c # None
               PROVE  Entry(m, c, d) \in Range(bill["historico_consumo"])
    BY DEF HistoryAgreesWithBill
  <2>1. WellRead(p) /\ AsProcessed(p) /\ Text(text)
    BY ReportOfState DEF IInv
  <2>2. /\ m = p["mes_referencia"].value /\ c = p["consumo_kwh"].value /\ d = StoredDays(x)
        /\ bill["historico_consumo"] = StoredHistory(h)
    <3> HIDE DEF p
    <3> QED
      BY <2>1, StoredValues DEF AsProcessed, Plain, Name
  <2>3. c > 0
    <3> HIDE DEF p
    <3> QED
      BY <2>1, <2>2 DEF AsProcessed, SchemaAccepts
  <2>4. Own(p) \in Range(h)
    <3>1. /\ p["mes_referencia"].value # None /\ p["consumo_kwh"].value # None
          /\ p["consumo_kwh"].value > 0
      BY <2>2, <2>3
    <3> QED
      BY <2>1, <3>1, ProcessKeeps
  <2>5. Own(p) = Entry(m, c, x)
    BY <2>2 DEF Own
  <2>6. m \in Int /\ c \in Int /\ x \in Int \cup {None}
    <3> HIDE DEF p
    <3> QED
      BY <2>1, <2>2, FieldValues, FigureNames
  <2>7. h \in HistoryType /\ Ascending(h)
    BY <2>1 DEF WellRead
  <2> HIDE DEF p, h, x, m, c, d
  <2> DEFINE own == Entry(m, c, x)
  <2>8. /\ own \in EntryType /\ own.mes_referencia = m /\ own.consumo_kwh = c
        /\ own.dias_faturados = x
    BY <2>6 DEF Entry, EntryType
  <2>9. StoredRow(own) = Entry(m, c, d)
    BY <2>2, <2>8, StoredRowIs
  <2>10. own \in Range(h) /\ own.consumo_kwh > 0
    BY <2>3, <2>4, <2>5, <2>8
  <2> HIDE DEF own
  <2>11. StoredRow(own) \in Range(StoredHistory(h))
    BY <2>7, <2>10, StoredRows
  <2> QED
    BY <2>2, <2>9, <2>11
<1> QED
  BY <1>1, Transaction, PTL

\* No row that was read is lost or replaced by a recovered one: the first of
\* each month other than the bill's is stored as it is.
THEOREM PrintedRowsSurvive == Spec => []PrintedRowsAreKept
<1>1. IInv => PrintedRowsAreKept
  <2> SUFFICES ASSUME IInv, Stored, NEW i \in DOMAIN text, FirstRead(text, i),
                      HistoryEntry(text[i]).mes_referencia # bill["mes_referencia"],
                      HistoryEntry(text[i]) # None, "historico" \notin text[i].labels
               PROVE  HistoryEntry(text[i]) \in Range(bill["historico_consumo"])
    BY DEF PrintedRowsAreKept, FirstRead, Reads
  <2> DEFINE e == HistoryEntry(text[i])
             p == Process(Parse(text), text)
             h == p["historico_consumo"].value
  <2>1. WellRead(p) /\ AsProcessed(p) /\ Text(text)
    BY ReportOfState DEF IInv
  <2>2. /\ bill["mes_referencia"] = p["mes_referencia"].value
        /\ bill["historico_consumo"] = StoredHistory(h)
    <3> HIDE DEF p
    <3> QED
      BY <2>1, StoredValues DEF AsProcessed, Plain, Name
  <2>3. e = Reads(text, i)
    BY DEF Reads
  <2>4. e \in Range(ParseHistory(text))
    BY <2>1, <2>3, HistoryOfText
  <2>5. e \in Range(h)
    BY <2>1, <2>2, <2>4, ProcessKeeps
  <2>6. e \in EntryType /\ e.consumo_kwh > 0 /\ e.dias_faturados \in (20..40) \cup {None}
    <3>1. text[i] \in Line
      BY <2>1, LeastLine
    <3> QED
      BY <3>1, ReadEntry
  <2>7. h \in HistoryType /\ Ascending(h)
    BY <2>1 DEF WellRead
  <2> HIDE DEF e, h
  <2>8. StoredDays(e.dias_faturados) = e.dias_faturados
    <3>1. 20..40 \subseteq Accepted
      BY DEF Accepted
    <3> QED
      BY <2>6, <3>1 DEF StoredDays
  <2>9. StoredRow(e) = e
    BY <2>6, <2>8, StoredRowIs
  <2>10. StoredRow(e) \in Range(StoredHistory(h))
    BY <2>5, <2>6, <2>7, StoredRows
  <2> QED
    BY <2>2, <2>9, <2>10 DEF e
<1> QED
  BY <1>1, Transaction, PTL
=============================================================================
