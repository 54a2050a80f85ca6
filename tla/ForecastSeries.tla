--------------------------- MODULE ForecastSeries ---------------------------
(***************************************************************************)
(* _recursive_forecast_series (ml/forecasting/model.py): one series is      *)
(* forecast a day at a time, and each day's forecast is fed into the        *)
(* features of the next.  The features the models were trained on are those *)
(* of ml/features.py, which are written a second time here; the question is *)
(* whether the two say the same.                                            *)
(*                                                                         *)
(* Sales and prices are small integers.  A mean or deviation is represented *)
(* by the sequence of values it is taken of, and what a fitted model        *)
(* predicts is any member of Predictions.                                   *)
(***************************************************************************)
EXTENDS Integers, FiniteSets, FiniteSetsExt, SequencesExt

CONSTANTS
    Lags,           \* DEFAULT_LAGS
    Windows,        \* DEFAULT_ROLLING_WINDOWS
    PriceWindow,    \* `window` of add_price_features
    Horizon,        \* params.horizon_days
    Predictions,    \* bound: what a model may predict, negative or not
    NQuantiles,     \* how many quantile models there are
    MonthLengths,   \* bound: days_in_month of the months that may follow
    NaN

ASSUME ForecastAssumption ==
    /\ Lags \subseteq Nat \ {0} /\ Lags # {} /\ IsFiniteSet(Lags)
    /\ Windows \subseteq Nat \ {0}
    /\ PriceWindow \in Nat \ {0}
    /\ Horizon \in Nat \ {0} /\ NQuantiles \in Nat \ {0}
    /\ Predictions \subseteq Int /\ MonthLengths \subseteq 28..31
    /\ NaN \notin Int

MaxLag == Max(Lags)

VARIABLES
    history,        \* group[QUANTITY] and group[UNIT_PRICE], day by day
                    \* (NaN when no series is being forecast)
    quantities,     \* the history and the forecasts made so far
    date,           \* the last day of quantities
    row,            \* the features of that day, if it was forecast
    points

seriesVars == <<history, quantities, date, row, points>>

----------------------------------------------------------------------------
(* ml/features.py, for day t of a series s.                                 *)

Shift(s, n, t) == IF t - n >= 1 THEN s[t - n] ELSE NaN

(* shift(1), then rolling(w): what of the last w days there is.             *)
Rolling(s, w, t) == SubSeq(s, IF t - w < 1 THEN 1 ELSE t - w, t - 1)

(* Twice the median of a sequence, which may lie between two values.        *)
TwiceMedian(s) ==
    LET n == Len(s)
        below(v) == Cardinality({i \in 1..n : s[i] < v})
        upto(v) == Cardinality({i \in 1..n : s[i] <= v})
        nth(k) == CHOOSE v \in {s[i] : i \in 1..n} : below(v) < k /\ k <= upto(v) IN
    nth((n + 1) \div 2) + nth((n + 2) \div 2)

(* The first day has no past: its own price stands for the median.          *)
TrailingMedian(price, t) ==
    IF t = 1 THEN 2 * price[1] ELSE TwiceMedian(Rolling(price, PriceWindow, t))

(* promo_flag: discount_pct is above 0.05.                                  *)
OnPromotion(price, median) == median > 0 /\ 40 * price < 19 * median

PriceFeatures(price, t) ==
    [unit_price |-> price[t],
     price_trailing_median |-> TrailingMedian(price, t),
     promo_flag |-> OnPromotion(price[t], TrailingMedian(price, t))]

DemandFeatures(s, t) ==
    [lag |-> [n \in Lags |-> Shift(s, n, t)],
     rolling |-> [w \in Windows |-> Rolling(s, w, t)]]

Lesser(a, b) == IF a < b THEN a ELSE b
Distance(a, b) == IF a < b THEN b - a ELSE a - b

(* On the 1st the distance to the 1st is 1, here and in model.py.           *)
payday_proximity(d) ==
    Lesser(Lesser(d.day, Distance(d.day, 15)), d.days_in_month - d.day)

----------------------------------------------------------------------------
(* ml/forecasting/model.py.                                                 *)

(* The locals before the loop, for a series that ends on the day `last`.    *)
StartSeries(group, last) ==
    /\ history' = group
    /\ quantities' = group.quantity
    /\ date' = last
    /\ row' = NaN
    /\ points' = <<>>

Clip(x) == IF x < 0 THEN 0 ELSE x

(* quantities[-n] and quantities[-w:]                                       *)
FromEnd(n) == IF Len(quantities) >= n THEN quantities[Len(quantities) + 1 - n] ELSE NaN
LastOf(w) ==
    LET n == Len(quantities) IN SubSeq(quantities, IF n < w THEN 1 ELSE n + 1 - w, n)

NextDate(d) ==
    IF d.day < d.days_in_month
    THEN {[d EXCEPT !.day = @ + 1]}
    ELSE [day: {1}, days_in_month: MonthLengths]

(* Mutant: the first price of the series instead of the last.               *)
first_price == history.unit_price[1]

(* The price features of the last day of the history, for all days to come. *)
last_price == history.unit_price[Len(history.unit_price)]
price_trailing_median == TrailingMedian(history.unit_price, Len(history.unit_price))

Features(d) ==
    [lag |-> [n \in Lags |-> FromEnd(n)],
     rolling |-> [w \in Windows |-> LastOf(w)],
     unit_price |-> last_price,
     price_trailing_median |-> price_trailing_median,
     promo_flag |-> FALSE,
     payday_proximity |-> Min({d.day, Distance(d.day, 15), d.days_in_month - d.day})]

(* Mutant: the interval is that of the quantile models alone.               *)
PointOutside(point, q_preds) ==
    LET preds == {Clip(q_preds[q]) : q \in DOMAIN q_preds} IN
    [forecast |-> point, lower |-> Min(preds), upper |-> Max(preds)]

Point(point, q_preds) ==
    LET preds == {point} \cup {Clip(q_preds[q]) : q \in DOMAIN q_preds} IN
    [forecast |-> point, lower |-> Min(preds), upper |-> Max(preds)]

QuantilePredictions == [1..NQuantiles -> Predictions]

(* Mutant: the forecast is not fed back.                                    *)
SalesOnly(forecast) == quantities
FedBack(forecast) == Append(quantities, forecast)

(* One iteration of the loop: the features of the new day, what the models  *)
(* make of them, and the forecast as the quantity of that day.              *)
ForecastDay(prediction, q_preds) ==
    \E d \in NextDate(date) :
        /\ Len(points) < Horizon
        /\ row' = Features(d)
        /\ points' = Append(points, Point(Clip(prediction), q_preds))
        /\ quantities' = FedBack(Clip(prediction))
        /\ date' = d
        /\ UNCHANGED history

----------------------------------------------------------------------------

(* The series as it would be if the forecasts had been sales at the last    *)
(* price.                                                                   *)
Demand == history.quantity \o [k \in 1..Len(points) |-> points[k].forecast]
PricePath == history.unit_price \o [k \in 1..Len(points) |-> Last(history.unit_price)]

(* The lag and rolling features a model is asked with are those that        *)
(* ml/features.py would give the same day of the series, had the forecasts  *)
(* been sales: no day is skipped, seen twice, or seen too early.  The       *)
(* calendar feature, which is computed in both files too, is that of the    *)
(* day that is forecast.                                                    *)
FeaturesMatchTraining ==
    row # NaN =>
        /\ [lag |-> row.lag, rolling |-> row.rolling] = DemandFeatures(Demand, Len(Demand))
        /\ row.payday_proximity = payday_proximity(date)

(* The price features of a forecast day are those ml/features.py would give *)
(* it if the last price were kept, provided the price had not moved in the  *)
(* days the last trailing median looked at; after a change of price the two *)
(* drift apart.                                                             *)
SteadyPricesMatchTraining ==
    LET n == Len(history.unit_price)
        steady == \A t \in 1..n : t >= n - PriceWindow =>
                      history.unit_price[t] = history.unit_price[n] IN
    row # NaN /\ steady =>
        [unit_price |-> row.unit_price,
         price_trailing_median |-> row.price_trailing_median,
         promo_flag |-> row.promo_flag] = PriceFeatures(PricePath, Len(PricePath))
==============================================================================
