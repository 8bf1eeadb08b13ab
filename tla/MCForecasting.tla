---------------------------- MODULE MCForecasting ----------------------------
EXTENDS Forecasting

CONSTANTS new, middle, old

\* A review whose bill is of month m and whose rows are the months before it.
Figures(m, amounts) ==
  LET n == Len(amounts)
      figure(i) == [month |-> m - n + i, kwh |-> amounts[i], days |-> 30]
  IN  [month |-> m, kwh |-> amounts[n], days |-> 30,
       history |-> [i \in 1..(n - 1) |-> figure(i)]]

\* The bill of month 112: a peak, a fall that leads to zeros, a seasonal year,
\* and reviews that leave out the month and some days, or everything.
Peak     == Figures(112, <<1, 1, 5, 1, 1>>)
Falling  == Figures(112, <<6, 5, 4, 3, 2, 1>>)
Seasonal == Figures(112, <<2, 2, 2, 2, 2, 2, 3, 3, 3, 3, 3, 3>>)
Partial  == [Figures(112, <<1, 1, 6, 1, 1, 1, 2>>)
               EXCEPT !.month = None, !.history[1].days = 0, !.history[2].days = None,
                      !.history[3].days = None]

\* The other bills: months that compete with those of the first and with each
\* other's, as the month of a bill or in a history.
MCReview(b) ==
  CASE b = new    -> {Peak, Falling, Seasonal, Partial, NoData}
    [] b = middle -> {Figures(113, <<1, 3>>)}
    [] b = old    -> {Figures(113, <<3, 2, 4>>)}

MCNewest == <<new, middle, old>>

\* A plausible year, one that drops to zero and one that alternates.
MCProfiles == {<<200000, 210000, 190000, 200000>>, <<300000, 900, 0, 0>>,
               <<10000, 200000, 10000, 200000>>}
=============================================================================
