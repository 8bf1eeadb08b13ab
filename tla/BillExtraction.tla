--------------------------- MODULE BillExtraction ---------------------------
(***************************************************************************)
(* From the text of a bill to the figures a reviewer sees: the semantic    *)
(* parser, the processor, the validator and the answer built from the rows *)
(* they leave (src/app/services/extraction).                               *)
(*                                                                         *)
(* A line of text is the record of what the regular expressions find in    *)
(* it: which labels it contains and which values each extractor would      *)
(* take from it.  What is modelled is everything decided after that: which *)
(* line wins, what a guess is worth, in which order the corrections are    *)
(* made and which of them read a value that a later one changes, what is   *)
(* stored and what is shown for review.                                    *)
(*                                                                         *)
(* A month is 12 * year + month - 1, so that months compare as their       *)
(* strings do; Malformed and later stand for the months of a year of three *)
(* digits ("ABR 252"), which sort after "20...".  Confidences are in       *)
(* hundredths, amounts of energy in kWh, of money in reais.  Warnings are  *)
(* left out: they are wording.                                             *)
(***************************************************************************)
EXTENDS Integers, FiniteSets, SequencesExt, SequenceOrder

CONSTANTS
  None,       \* no value
  Texts,      \* the texts documents may have: sequences of lines
  Threshold   \* low_confidence_threshold

\* What is found in a line: in a row of the history, the tokens of its month
\* and its numbers.
Row  == [mes_referencia : Int, year : Int \cup {None}, month : Int \cup {None},
         suffix : Int \cup {None}, numbers : Seq(Int)]
Line == [labels : SUBSET STRING, month : Int \cup {None}, after : SUBSET Int,
         before : Int \cup {None}, integer : Int \cup {None}, integers : Seq(Int),
         range : Int \cup {None}, currency : Int \cup {None}, money : Seq(Int),
         date : Int \cup {None}, tail : STRING \cup {None}, code : STRING \cup {None},
         colour : STRING \cup {None}, row : Row \cup {None}, digits : Seq(0..9)]

ASSUME TextAssumption ==
  /\ None \notin Int \cup STRING \cup {"provider", "Nao identificada"}
  /\ \A t \in Texts : t \in Seq(Line) /\ \A i \in DOMAIN t : IsFiniteSet(t[i].after)

ASSUME ThresholdAssumption == Threshold \in Int

Malformed == 12 * 2100
Year(m)   == m \div 12

\* Field names, in the order of the validator's confidence map.
Name == {"concessionaria", "mes_referencia", "consumo_kwh", "dias_faturados",
         "valor_total", "bandeira_tarifaria", "unidade_consumidora",
         "vencimento", "historico_consumo"}

VARIABLES
  text,     \* the extracted text of the document
  status,   \* "new", "error": the request answered an error, nothing is
            \* stored, or the extraction_status of the bill
  bill,     \* bill[f]: the stored value of field f
  score,    \* score[f]: the row of extraction_confidence of field f
  flagged,  \* fields_for_review of the validator, which is not stored
  shown     \* fields_for_review of the answer

vars == <<text, status, bill, score, flagged, shown>>

-----------------------------------------------------------------------------
(* Reading a text.                                                         *)

ParsedField(v, c) == [value |-> v, confidence |-> c]
Missing == ParsedField(None, 0)

AtLeast(x, y) == IF x >= y THEN x ELSE y
AtMost(x, y)  == IF x <= y THEN x ELSE y

\* The numbers of the lines with one of the labels.
LinesWith(t, labels) == {i \in DOMAIN t : t[i].labels \cap labels # {}}

\* What V finds in the first of the lines in which it finds something.
FirstValue(t, lines, V(_)) ==
  LET found == {i \in lines : V(t[i]) # None}
  IN  IF found = {} THEN None ELSE V(t[Min(found)])

\* A labelled line is believed, any other line is a guess.
Field(t, labels, high, V(_), guesses, low) ==
  LET sure == FirstValue(t, LinesWith(t, labels), V)
      guess == FirstValue(t, guesses, V)
  IN  IF sure # None THEN ParsedField(sure, high)
      ELSE IF guess # None THEN ParsedField(guess, low)
      ELSE Missing

ParseReferenceMonth(t) ==
  Field(t, {"referencia"}, 95, LAMBDA l : l.month, DOMAIN t, 72)

\* Amounts after a unit come first, the largest of them; an amount before the
\* unit is taken as it is, zero included.
KwhFromLine(l) == IF l.after # {} THEN Max(l.after) ELSE l.before

ParseConsumption(t) == Field(t, {"consumo"}, 93, KwhFromLine, DOMAIN t, 70)

ParseDays(t) == Field(t, {"dias faturados"}, 92, LAMBDA l : l.integer,
                      LinesWith(t, {" dias"}), 65)

ParseTotalValue(t) == Field(t, {"total"}, 94, LAMBDA l : l.currency, DOMAIN t, 68)

ParseDueDate(t) == Field(t, {"vencimento"}, 94, LAMBDA l : l.date, DOMAIN t, 60)

ParseTariffFlag(t) ==
  Field(t, {"bandeira tarifaria"}, 90, LAMBDA l : l.tail, {}, 0)

\* The first line that names the company or a unit decides, with the
\* confidence of what was found in that line.
ConcessionariaFromLine(l) ==
  IF "concessionaria" \in l.labels /\ l.tail # None THEN ParsedField(l.tail, 95)
  ELSE IF "provider" \in l.labels THEN ParsedField("provider", 85)
  ELSE None
ConsumerUnitFromLine(l) ==
  IF "unidade consumidora" \notin l.labels THEN None
  ELSE IF l.code # None THEN ParsedField(l.code, 95)
  ELSE IF l.tail # None THEN ParsedField(l.tail, 78)
  ELSE None
OrMissing(f) == IF f = None THEN Missing ELSE f

-----------------------------------------------------------------------------
(* The history table of a bill.                                            *)

Entry(m, c, d) == [mes_referencia |-> m, consumo_kwh |-> c, dias_faturados |-> d]
Sorted(h) == SortedBy(h, [i \in DOMAIN h |-> h[i].mes_referencia])
HasMonth(h, m) == \E i \in DOMAIN h : h[i].mes_referencia = m

\* The numbers of a row without the tokens of its month.
StripReferenceTokens(v, row) ==
  IF /\ Len(v) >= 2
     /\ <<v[1], v[2]>> \in {<<row.year, row.month>>, <<row.month, row.year>>}
  THEN SubSeq(v, 3, Len(v))
  ELSE IF v # <<>> /\ v[1] \in {row.suffix, row.year, row.month} THEN Tail(v)
  ELSE v

\* The whole numbers of a row; they are given in hundredths.
WholeNumbers(row) ==
  LET positive == Only(row.numbers, {i \in DOMAIN row.numbers : row.numbers[i] > 0})
      v == StripReferenceTokens(positive, row)
  IN  Only(v, {i \in DOMAIN v : v[i] % 100 = 0})

RowEntry(m, whole) ==
  LET n == Len(whole) IN
  CASE n >= 2 /\ whole[n] \in 2000..4000 ->
         Entry(m, whole[n - 1] \div 100, whole[n] \div 100)
    [] n = 1 -> Entry(m, whole[1] \div 100, None)
    [] OTHER -> None

\* A line that begins with a month is a row of the history: every such line
\* looks like one (_looks_like_history_row), in the section or outside.
HistoryEntry(l) ==
  IF l.row = None THEN None ELSE RowEntry(l.row.mes_referencia, WholeNumbers(l.row))

\* The rows with their line numbers; the first row of a month is kept.
AddRow(rows, r) ==
  IF \/ r.entry = None
     \/ \E k \in DOMAIN rows : rows[k].entry.mes_referencia = r.entry.mes_referencia
  THEN rows ELSE Append(rows, r)

Anchored(t) ==
  FoldLeft(AddRow, <<>>,
           [i \in DOMAIN t |->
              [line |-> i, entry |-> IF "historico" \in t[i].labels THEN None
                                     ELSE HistoryEntry(t[i])]])

\* The two months missing between a row and the older row after it, newest
\* first, when they are of one year.
MissingDescendingMonths(newer, older) ==
  IF newer < Malformed /\ newer - older = 3 /\ Year(newer - 1) = Year(newer - 2)
  THEN <<newer - 1, newer - 2>> ELSE <<>>

\* The digits that two rows are made of: without those of the year, which are
\* doubled, the last ten.
RowDigits(digits, y) ==
  LET doubled == <<y \div 10, y \div 10, y % 10, y % 10>>
      lastTen(d) == SubSeq(d, AtLeast(1, Len(d) - 9), Len(d))
  IN  lastTen(IF IsPrefix(doubled, digits) THEN SubSeq(digits, 5, Len(digits)) ELSE digits)

\* Two rows that the OCR has written digit by digit in turns: three digits of
\* consumption and two of days for each.
InterleavedGapEntries(d, months) ==
  LET kwh(r)  == 100 * d[r] + 10 * d[2 + r] + d[4 + r]
      days(r) == 10 * d[6 + r] + d[8 + r]
  IN  IF Len(d) = 10 /\ \A r \in 1..2 : kwh(r) > 0 /\ days(r) \in 20..40
      THEN [r \in 1..2 |-> Entry(months[r], kwh(r), days(r))]
      ELSE <<>>

\* The rows recovered from the lines between two rows.
Gap(t, newer, older, months) ==
  IF months = <<>> THEN <<>>
  ELSE InterleavedGapEntries(
         RowDigits(FlattenSeq([i \in 1..(older.line - newer.line - 1) |-> t[newer.line + i].digits]),
                   Year(months[1]) % 100),
         months)

Recovered(t, rows) ==
  FlattenSeq([k \in 1..AtLeast(0, Len(rows) - 1) |->
                Gap(t, rows[k], rows[k + 1],
                    MissingDescendingMonths(rows[k].entry.mes_referencia,
                                            rows[k + 1].entry.mes_referencia))])

AddMonth(h, e) == IF HasMonth(h, e.mes_referencia) THEN h ELSE Append(h, e)

\* Faulty variant: a row that was read is dropped where one was recovered.
MergedRecoveredFirst(read, recovered) == Sorted(FoldLeft(AddMonth, recovered, read))

\* Recovered rows are added where no row of their month was read.
Merged(read, recovered) == Sorted(FoldLeft(AddMonth, read, recovered))

History(t, rows) == Merged([k \in DOMAIN rows |-> rows[k].entry], Recovered(t, rows))
ParseHistory(t) == History(t, Anchored(t))

HistoryField(h) ==
  ParsedField(h, CASE Len(h) >= 10 -> 92 [] Len(h) >= 6 -> 90 [] Len(h) >= 3 -> 82
                   [] Len(h) >= 1 -> 72 [] OTHER -> 0)

Parse(t) ==
  [concessionaria      |-> OrMissing(FirstValue(t, DOMAIN t, ConcessionariaFromLine)),
   mes_referencia      |-> ParseReferenceMonth(t),
   consumo_kwh         |-> ParseConsumption(t),
   dias_faturados      |-> ParseDays(t),
   valor_total         |-> ParseTotalValue(t),
   bandeira_tarifaria  |-> ParseTariffFlag(t),
   unidade_consumidora |-> OrMissing(FirstValue(t, DOMAIN t, ConsumerUnitFromLine)),
   vencimento          |-> ParseDueDate(t),
   historico_consumo   |-> HistoryField(ParseHistory(t))]

-----------------------------------------------------------------------------
(* The corrections of the processor: each takes what the parser found, and *)
(* what the corrections before it have made of it.                         *)

Plausible == 20..35
Accepted  == 0..60
Payable   == 1..50000

\* Faulty variant: the confidences add up.
CorrectedByAdding(p, f, v, c) ==
  [p EXCEPT ![f] = ParsedField(v, p[f].confidence + c)]

\* At least confidence c for the corrected value v of field f.
Corrected(p, f, v, c) ==
  [p EXCEPT ![f] = ParsedField(v, AtLeast(p[f].confidence, c))]

LabeledConsumption(t) ==
  LET amounts(l) == {a \in l.after \cup {l.before} : a # None /\ a # 0}
      largest(l) == IF amounts(l) = {} THEN None ELSE Max(amounts(l))
  IN  FirstValue(t, LinesWith(t, {"consumo"}), largest)

\* The consumption of month m in history h.
HistoryConsumption(h, m) ==
  IF HasMonth(h, m) THEN h[SelectInSeq(h, LAMBDA e : e.mes_referencia = m)].consumo_kwh
  ELSE None

ShouldReplaceConsumption(current, candidate) ==
  \/ current < 100 /\ candidate >= 100
  \/ AtLeast(current, candidate) >= 3 * AtMost(current, candidate)

CorrectConsumption(p, t) ==
  LET current == p.consumo_kwh.value
      labeled == LabeledConsumption(t)
      candidate == IF labeled # None THEN labeled
                   ELSE HistoryConsumption(p.historico_consumo.value, p.mes_referencia.value)
  IN  IF /\ candidate # None
         /\ current # candidate
         /\ current = None \/ ShouldReplaceConsumption(current, candidate)
      THEN Corrected(p, "consumo_kwh", candidate, 90) ELSE p

LabeledBilledDays(t) ==
  LET plausible(l) == {i \in DOMAIN l.integers : l.integers[i] \in Plausible}
      days(l) == IF l.range \in Plausible THEN l.range
                 ELSE IF plausible(l) # {} THEN l.integers[Max(plausible(l))] ELSE None
  IN  FirstValue(t, LinesWith(t, {"dias faturados", "dias de faturamento"}), days)

\* The upper median of the plausible days in the history.
DaysFromHistory(h) ==
  LET rows == {i \in DOMAIN h : h[i].dias_faturados \in Plausible}
      below(d) == Cardinality({i \in rows : h[i].dias_faturados < d})
      upTo(d) == Cardinality({i \in rows : h[i].dias_faturados <= d})
      half == Cardinality(rows) \div 2
  IN  IF rows = {} THEN None
      ELSE CHOOSE d \in Plausible : below(d) <= half /\ half < upTo(d)

\* Faulty variant: an impossible number of days is dropped with its
\* confidence left as it was.
CorrectBilledDaysSilently(p, t) ==
  LET current == p.dias_faturados.value IN
  IF current # None /\ current \notin Accepted
  THEN [p EXCEPT !.dias_faturados.value = None] ELSE p

CorrectBilledDays(p, t) ==
  LET current == p.dias_faturados.value
      candidate == IF LabeledBilledDays(t) # None THEN LabeledBilledDays(t)
                   ELSE DaysFromHistory(p.historico_consumo.value)
  IN  IF current \in Plausible /\ p.dias_faturados.confidence >= 75 THEN p
      ELSE IF candidate # None THEN Corrected(p, "dias_faturados", candidate, 82)
      ELSE IF current # None /\ current \notin Accepted
           THEN [p EXCEPT !.dias_faturados = Missing]
      ELSE p

LabeledReferenceMonth(t) ==
  FirstValue(t, LinesWith(t, {"referencia", "mes ref"}), LAMBDA l : l.month)

InferReferenceMonth(p, t) ==
  LET labeled == LabeledReferenceMonth(t)
      h == p.historico_consumo.value
  IN  IF labeled # None THEN Corrected(p, "mes_referencia", labeled, 88)
      ELSE IF p.mes_referencia.value # None THEN p
      ELSE IF h # <<>> THEN Corrected(p, "mes_referencia", Last(h).mes_referencia, 78)
      ELSE IF p.vencimento.value # None
           THEN Corrected(p, "mes_referencia", p.vencimento.value - 1, 72)
      ELSE p

LabeledTotalValue(t) ==
  LET amounts(l) == {i \in DOMAIN l.money : l.money[i] \in Payable}
      last(l) == IF amounts(l) = {} THEN None ELSE l.money[Max(amounts(l))]
  IN  FirstValue(t, LinesWith(t, {"total da fatura"}), last)

FallbackTotalValue(p, t) ==
  IF \/ p.valor_total.value # None /\ p.valor_total.confidence >= 75
     \/ LabeledTotalValue(t) = None
  THEN p ELSE Corrected(p, "valor_total", LabeledTotalValue(t), 86)

\* The colours, the more expensive first; a line names at most one.
TariffFlags == <<"Vermelha patamar 2", "Vermelha patamar 1", "Vermelha",
                 "Amarela", "Verde", "Escassez hidrica">>

\* The colour on a line about the flag, or else the first of the list that is
\* anywhere in the text.
TariffFlag(t) ==
  LET near == FirstValue(t, LinesWith(t, {"bandeira", "tarifaria"}), LAMBDA l : l.colour)
      far == {c \in DOMAIN TariffFlags : \E i \in DOMAIN t : t[i].colour = TariffFlags[c]}
  IN  IF near # None THEN near
      ELSE IF far # {} THEN TariffFlags[Min(far)] ELSE None

FallbackTariffFlag(p, t) ==
  IF p.bandeira_tarifaria.value # None /\ p.bandeira_tarifaria.confidence >= 75 THEN p
  ELSE IF TariffFlag(t) # None THEN Corrected(p, "bandeira_tarifaria", TariffFlag(t), 82)
  ELSE IF LinesWith(t, {"bandeira"}) # {}
       THEN Corrected(p, "bandeira_tarifaria", "Nao identificada", 45)
  ELSE p

\* The row of the bill's own month repeats the figures of the bill.
ReconcileHistory(p) ==
  LET m == p.mes_referencia.value
      h == p.historico_consumo.value
      own == Entry(m, p.consumo_kwh.value, p.dias_faturados.value)
      new == IF HasMonth(h, m)
             THEN [i \in DOMAIN h |-> IF h[i].mes_referencia = m THEN own ELSE h[i]]
             ELSE Sorted(Append(h, own))
  IN  IF m = None \/ p.consumo_kwh.value = None \/ new = h THEN p
      ELSE IF p.consumo_kwh.value <= 0 THEN p
      ELSE Corrected(p, "historico_consumo", new, 82)

\* Faulty variant: the history is reconciled before the month is known.
ProcessReconcilingEarly(p, t) ==
  LET p1 == ReconcileHistory(CorrectBilledDays(CorrectConsumption(p, t), t))
  IN  FallbackTariffFlag(FallbackTotalValue(InferReferenceMonth(p1, t), t), t)

Process(p, t) ==
  LET p1 == CorrectConsumption(p, t)
      p2 == CorrectBilledDays(p1, t)
      p3 == InferReferenceMonth(p2, t)
      p4 == FallbackTotalValue(p3, t)
      p5 == FallbackTariffFlag(p4, t)
  IN  ReconcileHistory(p5)

-----------------------------------------------------------------------------
(* Validation, storage and the answer.                                     *)

\* Faulty variant: the schema allows zero, as the checks after it expect.
SchemaAcceptsZero(p) ==
  \A e \in Range(p.historico_consumo.value) : e.mes_referencia < Malformed

\* What the schema of the answer (ExtractedBillData) accepts.
SchemaAccepts(p) ==
  /\ p.mes_referencia.value # None => p.mes_referencia.value < Malformed
  /\ p.consumo_kwh.value # None => p.consumo_kwh.value > 0
  /\ p.valor_total.value # None => p.valor_total.value > 0
  /\ \A e \in Range(p.historico_consumo.value) :
       e.consumo_kwh > 0 => e.mes_referencia < Malformed

DaysOutOfRange(p) == p.dias_faturados.value # None /\ p.dias_faturados.value \notin Accepted
DaysUnusual(p) == /\ p.dias_faturados.value \in Accepted
                  /\ p.dias_faturados.value \notin 20..40

StoredDays(d) == IF d # None /\ d \in Accepted THEN d ELSE None

\* The rows that are stored: those with a positive consumption.
StoredHistory(h) ==
  LET rows == Only(h, {i \in DOMAIN h : h[i].consumo_kwh > 0})
  IN  [i \in DOMAIN rows |-> [rows[i] EXCEPT !.dias_faturados = StoredDays(@)]]

\* The values that are stored: days outside the accepted range are cleared.
Structured(p) ==
  [f \in Name |->
     CASE f = "dias_faturados" -> StoredDays(p[f].value)
       [] f = "historico_consumo" -> StoredHistory(p[f].value)
       [] OTHER -> p[f].value]

\* The fields the checks send to review, with the confidence each is capped at.
Reviewed(p) ==
  LET h == Range(p.historico_consumo.value)
      check(f, cond, cap) == IF cond THEN {<<f, cap>>} ELSE {}
  IN  (UNION {check(f, p[f].value = None, 0) : f \in {"mes_referencia", "consumo_kwh", "valor_total"}})
      \cup (UNION {check(f, p[f].value # None /\ p[f].value <= 0, 0) : f \in {"consumo_kwh", "valor_total"}})
      \cup check("dias_faturados", DaysOutOfRange(p), 0)
      \cup check("dias_faturados", DaysUnusual(p), 40)
      \cup check("historico_consumo", \E e \in h : e.consumo_kwh <= 0, 30)
      \cup check("historico_consumo",
                 \E e \in h : e.dias_faturados # None /\ e.dias_faturados \notin Accepted, 30)

\* Faulty variant: a check sends to review without lowering the confidence.
FinalScoreUncapped(p, f) == p[f].confidence

FinalScore(p, f) ==
  Min({p[f].confidence} \cup {r[2] : r \in {r \in Reviewed(p) : r[1] = f}})

LowConfidence(p) == {f \in Name : FinalScore(p, f) < Threshold}
FieldsForReview(p) == {r[1] : r \in Reviewed(p)} \cup LowConfidence(p)

ExtractionStatus(b) ==
  IF /\ \A f \in {"mes_referencia", "consumo_kwh", "valor_total"} : b[f] = None
     /\ b["historico_consumo"] = <<>>
  THEN "FAILED" ELSE "PENDING_REVIEW"

\* build_bill_review_response: the fields are found again from the stored
\* confidences, since the validator's list is not stored.
Shown(s) == {f \in Name : s[f] < Threshold}

Nothing == [f \in Name |-> None]

Init ==
  /\ text \in Texts
  /\ status = "new" /\ bill = Nothing /\ score = [f \in Name |-> 0]
  /\ flagged = {} /\ shown = {}

\* The extraction of a document, as one transaction: a schema that refuses a
\* value ends the request with an error and nothing is stored.
Store(p, b, s) ==
  IF SchemaAccepts(p)
  THEN /\ bill' = b
       /\ score' = s
       /\ status' = ExtractionStatus(b)
       /\ flagged' = FieldsForReview(p)
       /\ shown' = Shown(s)
       /\ UNCHANGED text
  ELSE /\ status' = "error"
       /\ UNCHANGED <<text, bill, score, flagged, shown>>

Stores(p) == Store(p, Structured(p), [f \in Name |-> FinalScore(p, f)])

Extract == Stores(Process(Parse(text), text))

Next == Extract
Spec == Init /\ [][Next]_vars
-----------------------------------------------------------------------------
Stored == status \in {"PENDING_REVIEW", "FAILED"}

\* The types of what is stored.
TypeOK ==
  /\ status \in {"new", "error", "PENDING_REVIEW", "FAILED"}
  /\ score \in [Name -> 0..100]
  /\ flagged \subseteq Name /\ shown \subseteq Name
  /\ DOMAIN bill = Name
  /\ Stored => bill["dias_faturados"] \in Accepted \cup {None}

\* "Campos de baixa confianca nunca sao aceitos silenciosamente" (README.md:50):
\* the list of fields to review is rebuilt from the stored confidences
\* (response_builder.py:39-43), and no field the validator sent to review is
\* missing from it.
ReviewIsShown == Stored => shown = flagged

\* A field that ends up empty, whether nothing was read or what was read was
\* cleared on the way (processor.py:127-131, validator.py:45-53), is shown.
EmptyIsShown == Stored => \A f \in Name \ {"historico_consumo"} :
                            bill[f] = None => f \in shown

\* What is stored satisfies the unique index on bill and month and the schema
\* every later answer is built from: positive amounts, and a history in order
\* with one row for a month, whatever was read, recovered and reconciled.
StoredIsWellFormed ==
  Stored =>
    LET h == bill["historico_consumo"] IN
    /\ bill["consumo_kwh"] = None \/ bill["consumo_kwh"] > 0
    /\ bill["valor_total"] = None \/ bill["valor_total"] > 0
    /\ \A i \in DOMAIN h : h[i].consumo_kwh > 0
    /\ \A i, j \in DOMAIN h : i < j => h[i].mes_referencia < h[j].mes_referencia

\* A bill and the row of its own month in its history say the same
\* (processor.py:315-351); the series of the analytics takes either.
HistoryAgreesWithBill ==
  Stored /\ bill["mes_referencia"] # None /\ bill["consumo_kwh"] # None =>
    Entry(bill["mes_referencia"], bill["consumo_kwh"], bill["dias_faturados"])
      \in Range(bill["historico_consumo"])

\* No printed row is lost or replaced by a recovered or an inferred one: the
\* first readable row of each month other than the bill's is stored as it is.
PrintedRowsAreKept ==
  Stored =>
    \A i \in DOMAIN text :
      LET e == HistoryEntry(text[i]) IN
      \/ e = None \/ "historico" \in text[i].labels
      \/ \E j \in 1..(i - 1) : /\ "historico" \notin text[j].labels
                               /\ HistoryEntry(text[j]) # None
                               /\ HistoryEntry(text[j]).mes_referencia = e.mes_referencia
      \/ e.mes_referencia = bill["mes_referencia"]
      \/ e \in Range(bill["historico_consumo"])

\* A consumption that no line states comes from the history, and then from the
\* row of the month the bill is stored under.  This is what the name of
\* _extract_current_month_history_consumption (processor.py:275) says; it does
\* not hold, because the month is corrected after the consumption.
HistoryConsumptionIsOfItsMonth ==
  Stored /\ (\A i \in DOMAIN text : KwhFromLine(text[i]) = None)
         /\ bill["consumo_kwh"] # None =>
    bill["consumo_kwh"] = HistoryConsumption(ParseHistory(text), bill["mes_referencia"])
=============================================================================
