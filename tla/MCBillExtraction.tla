--------------------------- MODULE MCBillExtraction ---------------------------
EXTENDS BillExtraction

\* A line in which nothing is found, and the lines of the texts below; each is
\* what the extractors find in the line quoted above it.
Other == [labels |-> {}, month |-> None, after |-> {}, before |-> None,
          integer |-> None, integers |-> <<>>, range |-> None,
          currency |-> None, money |-> <<>>, date |-> None, tail |-> None,
          code |-> None, colour |-> None, row |-> None, digits |-> <<>>]

\* Enel Distribuicao Sao Paulo
Company ==
  [Other EXCEPT !.labels = {"provider"}]
\* Mes de referencia: 04/2026
Month ==
  [Other EXCEPT !.labels = {"referencia"},
                !.month = 24315,
                !.digits = <<0, 4, 2, 0, 2, 6>>]
\* Mes ref 03/2026
MonthRef ==
  [Other EXCEPT !.labels = {"mes ref"},
                !.month = 24314,
                !.digits = <<0, 3, 2, 0, 2, 6>>]
\* Consumo do mes: 252 kWh
Consumption ==
  [Other EXCEPT !.labels = {"consumo"},
                !.before = 252,
                !.digits = <<2, 5, 2>>]
\* Consumo 0 kWh
ZeroConsumption ==
  [Other EXCEPT !.labels = {"consumo"},
                !.before = 0,
                !.digits = <<0>>]
\* Consumo kWh 600,00 de 30 kWh
TwoAmounts ==
  [Other EXCEPT !.labels = {"consumo"},
                !.after = {600},
                !.before = 30,
                !.digits = <<6, 0, 0, 0, 0, 3, 0>>]
\* Dias faturados: 250
Days ==
  [Other EXCEPT !.labels = {"dias faturados"},
                !.integer = 250,
                !.integers = <<250>>,
                !.digits = <<2, 5, 0>>]
\* Dias faturados: 12
FewDays ==
  [Other EXCEPT !.labels = {"dias faturados"},
                !.integer = 12,
                !.integers = <<12>>,
                !.digits = <<1, 2>>]
\* 45 dias de leitura
OddDays ==
  [Other EXCEPT !.labels = {" dias"},
                !.integer = 45,
                !.digits = <<4, 5>>]
\* Periodo de faturamento 02/03/26 a 31/03/26
Period ==
  [Other EXCEPT !.labels = {"dias de faturamento"},
                !.integers = <<2, 3, 26, 31, 3, 26>>,
                !.range = 30,
                !.date = 24314,
                !.digits = <<0, 2, 0, 3, 2, 6, 3, 1, 0, 3, 2, 6>>]
\* Vencimento: 15/04/2026
DueDate ==
  [Other EXCEPT !.labels = {"vencimento"},
                !.month = 24315,
                !.date = 24315,
                !.digits = <<1, 5, 0, 4, 2, 0, 2, 6>>]
\* Vencimento 15/05/26
ShortDueDate ==
  [Other EXCEPT !.labels = {"vencimento"},
                !.date = 24316,
                !.digits = <<1, 5, 0, 5, 2, 6>>]
\* Valor total: R$ 198,45
Total ==
  [Other EXCEPT !.labels = {"total", "total da fatura"},
                !.currency = 198,
                !.money = <<198>>,
                !.digits = <<1, 9, 8, 4, 5>>]
\* Taxa R$ 0,00
ZeroFee ==
  [Other EXCEPT !.currency = 0,
                !.digits = <<0, 0, 0>>]
\* Total da fatura 228,15
OtherTotal ==
  [Other EXCEPT !.labels = {"total", "total da fatura"},
                !.money = <<228>>,
                !.digits = <<2, 2, 8, 1, 5>>]
\* Bandeira tarifaria:
Flag ==
  [Other EXCEPT !.labels = {"bandeira tarifaria", "bandeira", "tarifaria"}]
\* Patamar amarela
Colour ==
  [Other EXCEPT !.colour = "Amarela"]
\* UC: 1234567
Unit ==
  [Other EXCEPT !.labels = {"unidade consumidora"},
                !.tail = "1234567",
                !.code = "1234567",
                !.digits = <<1, 2, 3, 4, 5, 6, 7>>]
\* Historico de consumo
Heading ==
  [Other EXCEPT !.labels = {"consumo", "historico"}]
\* 04/2026 252 29
RowApr ==
  [Other EXCEPT !.month = 24315,
                !.row = [mes_referencia |-> 24315, year |-> 202600, month |-> 400, suffix |-> None, numbers |-> <<400, 202600, 25200, 2900>>],
                !.digits = <<0, 4, 2, 0, 2, 6, 2, 5, 2, 2, 9>>]
\* MAR 26 l 120 31
RowMar ==
  [Other EXCEPT !.row = [mes_referencia |-> 24314, year |-> None, month |-> None, suffix |-> 2600, numbers |-> <<2600, 12000, 3100>>],
                !.digits = <<2, 6, 1, 2, 0, 3, 1>>]
\* JAN 26 336 0,5
RowJan ==
  [Other EXCEPT !.row = [mes_referencia |-> 24312, year |-> None, month |-> None, suffix |-> 2600, numbers |-> <<2600, 33600, 50>>],
                !.digits = <<2, 6, 3, 3, 6, 0, 5>>]
\* ABR 252 29
RowMalformed ==
  [Other EXCEPT !.row = [mes_referencia |-> 30243, year |-> None, month |-> None, suffix |-> 5200, numbers |-> <<25200, 2900>>],
                !.digits = <<2, 5, 2, 2, 9>>]
\* 2236376228 9
Digits ==
  [Other EXCEPT !.digits = <<2, 2, 3, 6, 3, 7, 6, 2, 2, 8, 9>>]

Lines == {Company, Month, MonthRef, Consumption, ZeroConsumption, TwoAmounts, Days, FewDays, OddDays, Period, DueDate, ShortDueDate, Total, ZeroFee, OtherTotal, Flag, Colour, Unit, Heading, RowApr, RowMar, RowJan, RowMalformed, Digits}

\* The lines that meet in the history of a bill.
HistoryLines == {MonthRef, Heading, RowApr, RowMar, RowJan, Digits}

MCTexts == UNION {[1..n -> Lines] : n \in 0..3}
             \cup UNION {[1..n -> HistoryLines] : n \in 4..6}
=============================================================================
