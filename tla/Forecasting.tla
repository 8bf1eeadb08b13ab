----------------------------- MODULE Forecasting -----------------------------
(***************************************************************************)
(* The figures a confirmed bill is served with: the series resolved from   *)
(* all confirmed bills of the user, the insights drawn from it, and the    *)
(* forecast that is computed once, stored, and served again for as long as *)
(* it can be trusted (src/app/services/analytics, .../forecasting).        *)
(*                                                                         *)
(* The bills of one user, one request at a time; BillLifecycle has the     *)
(* requests that overlap.  Months are numbered.  Energy is counted in      *)
(* units of Unit kWh, so that squares of sums fit TLC's integers, and      *)
(* predictions in thousandths of a kWh, which is how they are stored.      *)
(* Intervals, tariffs, messages and the figures of the analytics that      *)
(* decide nothing are left out.                                            *)
(***************************************************************************)
EXTENDS Integers, FiniteSets, SequencesExt, SequenceOrder

CONSTANTS
  None,           \* no value
  Newest,         \* the bills of the user, the last one created first
  Review(_),      \* Review(b): what reviewers may send for bill b
  Today,          \* the month in which forecasts are computed
  Horizon,        \* forecast_horizon_months
  EnableProphet,  \* enable_prophet
  MinPoints,      \* prophet_min_history_points
  Profiles,       \* predictions Prophet may make, one for each month
  Unit            \* kWh in a unit of energy

Bill  == Range(Newest)
Milli == 1000 * Unit

ASSUME ForecastAssumption ==
  /\ Horizon \in Nat \ {0}
  /\ Profiles \subseteq [1..Horizon -> Nat]
  /\ None \notin [bill : Bill, reused : BOOLEAN]

\* A figure of a history, and what a review says: the schema of the review
\* refuses consumptions that are not positive.
Figure == [month : Int, kwh : Nat \ {0}, days : Int \cup {None}]
Data   == [month : Int \cup {None}, kwh : (Nat \ {0}) \cup {None},
           days : Int \cup {None}, history : Seq(Figure)]

ASSUME ReviewAssumption ==
  /\ Newest \in Seq(Bill) /\ IsInjective(Newest)
  /\ \A b \in Bill : Review(b) \subseteq Data
  /\ None \notin Int
  /\ Today \in Int /\ Unit \in Nat \ {0}

VARIABLES
  bill,     \* bill[b]: [status, data]; data is what the last review sent
  stored,   \* stored[b]: the forecasts and insights persisted for b
  stale,    \* history; bills whose artefacts other bills have changed after
  answer    \* the last answer, until a bill changes: [bill, reused]

vars == <<bill, stored, stale, answer>>

NoData == [month |-> None, kwh |-> None, days |-> None, history |-> <<>>]
NoArtefacts == [model |-> None, points |-> <<>>, insights |-> <<>>]

AtLeast(x, y) == IF x >= y THEN x ELSE y
AtMost(x, y)  == IF x <= y THEN x ELSE y
Magnitude(x)  == IF x < 0 THEN -x ELSE x
Total(y) ==
  LET sum[n \in 0..Len(y)] == IF n = 0 THEN 0 ELSE sum[n - 1] + y[n] IN sum[Len(y)]
LastOf(s, n)  == SubSeq(s, AtLeast(1, Len(s) - n + 1), Len(s))

-----------------------------------------------------------------------------
(* The series.                                                             *)

Point(f, p) == [month |-> f.month, kwh |-> f.kwh, days |-> f.days, precedence |-> p]

MainOf(d, p)    == IF d.month # None /\ d.kwh # None THEN <<Point(d, p)>> ELSE <<>>
HistoryOf(d, p) == [i \in DOMAIN d.history |-> Point(d.history[i], p)]

\* The candidates in the order in which they are offered.
Candidates(bills, b) ==
  LET others == Only(Newest, {i \in DOMAIN Newest : /\ Newest[i] # b
                                                    /\ bills[Newest[i]].status = "confirmed"})
      own == MainOf(bills[b].data, 0) \o HistoryOf(bills[b].data, 1)
  IN  own \o FlattenSeq([i \in DOMAIN others |->
                 MainOf(bills[others[i]].data, 2) \o HistoryOf(bills[others[i]].data, 3)])

\* Faulty variant: the last candidate of a precedence wins.
TakeLast(best, c) ==
  IF \A i \in DOMAIN best : best[i].month # c.month THEN Append(best, c)
  ELSE [i \in DOMAIN best |->
          IF best[i].month = c.month /\ c.precedence <= best[i].precedence THEN c ELSE best[i]]

\* add_candidate: a month is given to a candidate of a lower precedence only.
Take(best, c) ==
  IF \A i \in DOMAIN best : best[i].month # c.month THEN Append(best, c)
  ELSE [i \in DOMAIN best |->
          IF best[i].month = c.month /\ c.precedence < best[i].precedence THEN c ELSE best[i]]

\* Faulty variant: the months in the order in which they were found.
ResolveUnsorted(bills, b) == FoldLeft(Take, <<>>, Candidates(bills, b))

Resolve(bills, b) ==
  LET best == FoldLeft(Take, <<>>, Candidates(bills, b))
  IN  SortedBy(best, [i \in DOMAIN best |-> best[i].month])

-----------------------------------------------------------------------------
(* Statistics.  With x = 0, .., n - 1 the line fitted to y has the slope   *)
(* Rise(y) \div Spread(n) and passes through the mean at (n - 1) / 2.      *)

Amounts(s) == [i \in DOMAIN s |-> s[i].kwh]
Spread(n)  == (n * (n * n - 1)) \div 6
Rise(y)    == 2 * Total([i \in DOMAIN y |-> (i - 1) * y[i]]) - (Len(y) - 1) * Total(y)

\* The value of the fitted line at x, in thousandths.
Trend(y, x) ==
  LET n == Len(y)
  IN  (Milli * Total(y)) \div n
        + IF n = 1 THEN 0 ELSE (Milli * Rise(y) * (2 * x - n + 1)) \div (2 * Spread(n))

\* How far each amount is from the line, times Scale(Len(y)): the denominator
\* of the line without the factors that all its terms share.
Shared(n) == (IF n % 2 = 0 THEN 1 ELSE 2) * (IF n % 3 = 0 THEN 1 ELSE 3)
Scale(n)  == (n * (n * n - 1)) \div Shared(n)
Residuals(y) ==
  LET n == Len(y)
      offset == (n * n - 1) * Total(y)
      rise == 3 * Rise(y)
  IN  [i \in DOMAIN y |->
         Scale(n) * y[i] - (offset + rise * (2 * i - n - 1)) \div Shared(n)]

\* Faulty variant: the deviation is that of a whole population.
AnomaliesOfPopulation(s) ==
  LET n == Len(s)
      residual == Residuals(Amounts(s))
      squares == Total([i \in DOMAIN s |-> residual[i] * residual[i]])
      line(i) == Scale(n) * s[i].kwh - residual[i]
      far == {i \in DOMAIN s :
                /\ line(i) # 0
                /\ 25 * n * residual[i] * residual[i] >= 81 * squares
                /\ 100 * Magnitude(residual[i]) >= 12 * Magnitude(line(i))}
  IN  IF n < 4 \/ squares = 0 THEN {} ELSE {s[i].month : i \in far}

\* Months at least 1.8 standard deviations and 12 % away from the line.
Anomalies(s) ==
  LET n == Len(s)
      residual == Residuals(Amounts(s))
      squares == Total([i \in DOMAIN s |-> residual[i] * residual[i]])
      line(i) == Scale(n) * s[i].kwh - residual[i]
      far == {i \in DOMAIN s :
                /\ line(i) # 0
                /\ 25 * (n - 1) * residual[i] * residual[i] >= 81 * squares
                /\ 100 * Magnitude(residual[i]) >= 12 * Magnitude(line(i))}
  IN  IF n < 4 \/ squares = 0 THEN {} ELSE {s[i].month : i \in far}

\* The means of the months of the year differ by at least 0.35 of what the
\* consumptions differ by, both as standard deviations.  Half is in halves: a
\* month of the year occurs once or twice in the series.
Seasonality(s) ==
  LET y == Amounts(s)
      n == Len(y)
      alike(i) == {j \in DOMAIN s : (s[j].month - s[i].month) % 12 = 0}
      same(i) == Only(y, alike(i))
      firsts == Only([i \in DOMAIN s |-> i], {i \in DOMAIN s : \A j \in alike(i) : i <= j})
      half == [k \in DOMAIN firsts |-> (2 * Total(same(firsts[k]))) \div Len(same(firsts[k]))]
      m == Len(half)
      squares(z) == Total([i \in DOMAIN z |-> z[i] * z[i]])
      overall == n * squares(y) - Total(y) * Total(y)
      profile == m * squares(half) - Total(half) * Total(half)
  IN  /\ n >= 12
      /\ overall > 0
      /\ 10000 * n * n * profile >= 1225 * 4 * m * m * overall

\* The change of the last three months against the three before needs days
\* in both.
RecentChange(s) ==
  LET n == Len(s)
      daily(first) == \E i \in first..(first + 2) : s[i].days \notin {None, 0}
  IN  n >= 6 /\ daily(n - 2) /\ daily(n - 5)

-----------------------------------------------------------------------------
(* Forecasts and insights.                                                 *)

\* Predictions for the months from first on.
Months(first, predicted) ==
  [k \in 1..Horizon |-> [month |-> first + k - 1, predicted |-> predicted[k]]]

\* Faulty variant: a falling trend is followed below zero.
FallbackUnclamped(s) ==
  IF s = <<>> THEN Months(Today, [k \in 1..Horizon |-> 0])
  ELSE LET y == Amounts(s)
           recent == LastOf(y, 3)
           mean == (Milli * Total(recent)) \div Len(recent)
       IN  Months(Last(s).month + 1,
                  [k \in 1..Horizon |-> (65 * Trend(y, Len(y) - 1 + k) + 35 * mean) \div 100])

\* The deterministic fallback: 65 % of the line and 35 % of the mean of the
\* last three months, never negative; zeros when there is no series.
Fallback(s) ==
  IF s = <<>> THEN Months(Today, [k \in 1..Horizon |-> 0])
  ELSE LET y == Amounts(s)
           recent == LastOf(y, 3)
           mean == (Milli * Total(recent)) \div Len(recent)
       IN  Months(Last(s).month + 1,
                  [k \in 1..Horizon |->
                     AtLeast(0, (65 * Trend(y, Len(y) - 1 + k) + 35 * mean) \div 100)])

\* Predictions that jump between less than 15 % and more than 55 % of the mean
\* of the recent months, t / r units.
ExtremeAlternating(p, t, r) ==
  LET low(x)  == 100 * r * x <= 15 * Milli * t
      high(x) == 100 * r * x >= 55 * Milli * t
      pairs == {i \in 1..(Len(p) - 1) : \/ low(p[i]) /\ high(p[i + 1])
                                        \/ high(p[i]) /\ low(p[i + 1])}
  IN  Len(p) >= 4 /\ t > 0 /\ Cardinality(pairs) >= Len(p) \div 2

\* is_forecast_trustworthy, for predictions p.
Trustworthy(s, p) ==
  LET recent == LastOf(Amounts(s), 6)
      t == Total(recent)
      r == Len(recent)
      zeroLike == {i \in DOMAIN p : p[i] <= 1000}
  IN  /\ p # <<>>
      /\ ~(/\ r > 0 /\ Unit * t >= 80 * r
           /\ Cardinality(zeroLike) >= AtLeast(2, Len(p) \div 4))
      /\ ~ExtremeAlternating(p, t, r)

Predictions(points) == [k \in DOMAIN points |-> points[k].predicted]

UseProphet(s) == EnableProphet /\ Len(s) >= MinPoints

\* Prophet answers prophet, or raises (None), as it does when there is no point
\* to fit: an answer that cannot be trusted counts as none.
Generate(s, prophet) ==
  IF UseProphet(s) /\ s # <<>> /\ prophet # None /\ Trustworthy(s, prophet)
  THEN [model |-> "prophet", points |-> Months(Last(s).month + 1, prophet)]
  ELSE [model |-> "fallback", points |-> Fallback(s)]

\* Faulty variant: nothing is said of a series without a point.
InsightsWithoutGeneral(s) ==
  LET when(cond, kind) == IF cond THEN <<kind>> ELSE <<>>
  IN  when(RecentChange(s), "trend") \o when(Seasonality(s), "seasonality")
        \o when(Anomalies(s) # {}, "anomaly") \o when(s # <<>>, "forecast")

\* What is said of a series, at most four things and never nothing.
Insights(s) ==
  LET when(cond, kind) == IF cond THEN <<kind>> ELSE <<>>
      said == when(RecentChange(s), "trend") \o when(Seasonality(s), "seasonality")
                \o when(Anomalies(s) # {}, "anomaly") \o when(s # <<>>, "forecast")
  IN  IF said = <<>> THEN <<"general">> ELSE said

Build(s, prophet) ==
  LET f == Generate(s, prophet)
  IN  [model |-> f.model, points |-> f.points, insights |-> Insights(s)]

-----------------------------------------------------------------------------
(* Requests.                                                               *)

Init ==
  /\ bill = [b \in Bill |-> [status |-> "pending", data |-> NoData]]
  /\ stored = [b \in Bill |-> NoArtefacts]
  /\ stale = {}
  /\ answer = None

\* Bill b changes, and with it what is persisted for it.
Change(b, row, artefacts) ==
  /\ bill' = [bill EXCEPT ![b] = row]
  /\ stored' = [stored EXCEPT ![b] = artefacts]
  /\ stale' = {c \in Bill \ {b} : stored[c] # NoArtefacts}
  /\ answer' = None

\* A review is confirmed and the artefacts of the bill are derived anew, with
\* prophet as the answer of the library.
Confirm(b, data, prophet) ==
  LET row == [status |-> "confirmed", data |-> data]
      s == Resolve([bill EXCEPT ![b] = row], b)
  IN  /\ bill[b].status # "gone"
      /\ Change(b, row, Build(s, prophet))

\* The confirmation stands although deriving its artefacts fails.
ConfirmUnderived(b, data) ==
  /\ bill[b].status # "gone"
  /\ Change(b, [status |-> "confirmed", data |-> data], NoArtefacts)

\* The document is read again: its bill awaits a review and loses its artefacts.
Extract(b) ==
  /\ bill[b].status # "gone"
  /\ Change(b, [status |-> "pending", data |-> NoData], NoArtefacts)

Delete(b) ==
  /\ bill[b].status # "gone"
  /\ Change(b, [status |-> "gone", data |-> NoData], NoArtefacts)

\* Faulty variant: artefacts are complete whatever the series is by now.
ReusableUntrusted(b, s) ==
  /\ Len(stored[b].points) = Horizon
  /\ stored[b].insights # <<>>

\* Can what is stored be served for series s?
Reusable(b, s) ==
  /\ Len(stored[b].points) = Horizon
  /\ stored[b].insights # <<>>
  /\ Trustworthy(s, Predictions(stored[b].points))

\* The forecast or the analytics of a confirmed bill are read: what is stored
\* is served, or derived anew and stored before it is served.
Get(b, prophet) ==
  LET s == Resolve(bill, b)
      reuse == Reusable(b, s)
  IN  /\ bill[b].status = "confirmed"
      /\ UNCHANGED bill
      /\ stored' = IF reuse THEN stored ELSE [stored EXCEPT ![b] = Build(s, prophet)]
      /\ stale' = IF reuse THEN stale ELSE stale \ {b}
      /\ answer' = [bill |-> b, reused |-> reuse]

Answers == Profiles \cup {None}

Next ==
  \E b \in Bill :
    \/ \E data \in Review(b) : \/ \E prophet \in Answers : Confirm(b, data, prophet)
                              \/ ConfirmUnderived(b, data)
    \/ Extract(b)
    \/ Delete(b)
    \/ \E prophet \in Answers : Get(b, prophet)

Spec == Init /\ [][Next]_vars
-----------------------------------------------------------------------------
\* The types; no prediction is negative, which the table refuses
\* (models/forecast.py:18).
TypeOK ==
  /\ \A b \in Bill : \/ bill[b] \in [status : {"pending", "gone"}, data : {NoData}]
                     \/ bill[b] \in [status : {"confirmed"}, data : Review(b)]
  /\ stored \in [Bill -> [model : {None, "prophet", "fallback"},
                          points : Seq([month : Int, predicted : Nat]),
                          insights : Seq({"trend", "seasonality", "anomaly", "forecast", "general"})]]
  /\ stale \subseteq Bill
  /\ answer = None \/ answer \in [bill : Bill, reused : BOOLEAN]

\* What bill c says with precedence p.
Said(bills, c, p) ==
  Range(IF p % 2 = 0 THEN MainOf(bills[c].data, p) ELSE HistoryOf(bills[c].data, p))

\* The confirmed bills but b.
OtherBills(bills, b) == {c \in Bill \ {b} : bills[c].status = "confirmed"}

\* Everything that is said to the series of b.
AllSaid(bills, b) ==
  Said(bills, b, 0) \cup Said(bills, b, 1)
    \cup (UNION {Said(bills, c, p) : c \in OtherBills(bills, b), p \in {2, 3}})

\* x may stand in the series of b: nobody who comes first has its month.
BestSource(bills, b, x) ==
  LET Newer(c, d) == \E i, j \in DOMAIN Newest : i < j /\ Newest[i] = c /\ Newest[j] = d
  IN  \/ x \in Said(bills, b, 0)
      \/ x \in Said(bills, b, 1) /\ \A z \in Said(bills, b, 0) : z.month # x.month
      \/ /\ \A z \in Said(bills, b, 0) \cup Said(bills, b, 1) : z.month # x.month
         /\ \E p \in {2, 3} : \E c \in OtherBills(bills, b) :
              /\ x \in Said(bills, c, p)
              /\ \A d \in OtherBills(bills, b) :
                   /\ p = 3 => \A z \in Said(bills, d, 2) : z.month # x.month
                   /\ Newer(d, c) => \A z \in Said(bills, d, p) : z.month # x.month

\* Every month of a series shows the best figure there is for it, in whichever
\* order the figures were found: what the bill says of its own month, then its
\* history, then the newest bill of that month, then the newest bill whose
\* history has it; and no month with a figure is missing
\* (series_resolver.py:25-44).
SeriesTakesBestSource ==
  \A b \in {b \in Bill : bill[b].status = "confirmed"} :
    LET series == Resolve(bill, b) IN
    /\ \A i \in DOMAIN series : BestSource(bill, b, series[i])
    /\ {x.month : x \in Range(series)} = {x.month : x \in AllSaid(bill, b)}
    /\ IsInjective([i \in DOMAIN series |-> series[i].month])

\* Unless another bill has changed since, a forecast is for the Horizon months
\* that follow the last month anyone has a figure for (engines.py:75-82).
ForecastContinuesSeries ==
  \A b \in Bill :
    LET months == {x.month : x \in Range(Candidates(bill, b))}
        first == IF months = {} THEN Today ELSE Max(months) + 1
    IN  stored[b] # NoArtefacts /\ b \notin stale =>
          [k \in DOMAIN stored[b].points |-> stored[b].points[k].month]
            = [k \in 1..Horizon |-> first + k - 1]

\* What a client is served can be trusted for the series as it is now, or it
\* is the fallback computed from that very series; a forecast of Prophet that
\* drops to zero or alternates is never served, and neither is one that other
\* bills have made implausible (service.py:18-29, 120-134).
ServedIsTrusted ==
  answer # None =>
    LET s == Resolve(bill, answer.bill)
        served == stored[answer.bill]
    IN  \/ Trustworthy(s, Predictions(served.points))
        \/ served.model = "fallback" /\ served.points = Fallback(s)

\* Reading changes nothing unless it must: what is stored is replaced only when
\* nothing is, or when its predictions are not trusted for the series.  It rests
\* on the insights never being empty, on every forecast having Horizon months
\* and on both being written together (service.py:120-134).
OnlyUntrustedIsReplaced ==
  [][\A b \in Bill :
       /\ answer' = [bill |-> b, reused |-> FALSE]
       /\ stored[b] # NoArtefacts
       => ~Trustworthy(Resolve(bill, b), Predictions(stored[b].points))]_vars

\* Fewer than a third of the months of a series are anomalies, and with fewer
\* than six months none can be: the guard of four months (calculator.py:142)
\* never decides.
AnomaliesAreRare ==
  \A b \in {b \in Bill : bill[b].status = "confirmed"} :
    LET s == Resolve(bill, b) IN
    /\ Len(s) < 6 => Anomalies(s) = {}
    /\ 3 * Cardinality(Anomalies(s)) < AtLeast(1, Len(s))
=============================================================================
