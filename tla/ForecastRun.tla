---------------------------- MODULE ForecastRun ----------------------------
(***************************************************************************)
(* forecast (ml/forecasting/model.py): the view of the sales as one series  *)
(* per product (or product and store), and the loop over the series, each   *)
(* of them forecast by the models or, if it was listed too recently, by the *)
(* mean of its weekdays.  run_backtest, which the function calls before the *)
(* loop, changes nothing the loop reads (see Backtest).                     *)
(*                                                                         *)
(* The sales of a series and day are already summed, with a total that is a *)
(* multiple of the quantity.  A mean is rounded down, and a deviation is    *)
(* any number that is 0 exactly if the values do not deviate.               *)
(***************************************************************************)
EXTENDS ForecastSeries

CONSTANTS
    MaxSeries,          \* bound: series
    MaxDays,            \* bound: days from the first sale of all to the last
    MaxSaleDays,        \* bound: days with sales, of all series together
    Totals,             \* bound: [quantity, line_total] of a series and day
    LastDates,          \* bound: the date of the last day: [day, days_in_month]
    DaysOfWeek,         \* 7
    Deviations,         \* bound: deviations other than 0
    min_history_days,   \* ForecastParams.min_history_days
    lead_time_days      \* ForecastParams.lead_time_days

(* The backstop of the fallback (a weekday without a day in the history) is *)
(* out of reach since the longest lag is longer than a week.                *)
ASSUME ForecastRunAssumption ==
    /\ {MaxSeries, MaxDays, MaxSaleDays, min_history_days, lead_time_days} \subseteq Nat
    /\ \A x \in Totals : /\ x.quantity \in Nat \ {0} /\ x.line_total \in Nat
                         /\ x.line_total % x.quantity = 0
    /\ LastDates \subseteq {d \in [day : 1..31, days_in_month : 28..31] :
                               d.day <= d.days_in_month}
    /\ DaysOfWeek \in 1..MaxLag
    /\ Deviations \subseteq Nat \ {0} /\ Deviations # {}

VARIABLES
    sold,               \* the summed sales: series, then day, then total or NaN
    last_date,
    series_results,
    n_low_confidence,
    pc                  \* "view", "train", "series", "day", "done", "failed"

forecastVars ==
    <<seriesVars, sold, last_date, series_results, n_low_confidence, pc>>

NDays == IF sold = <<>> THEN 0 ELSE Len(sold[1])

----------------------------------------------------------------------------
(* build_forecast_view.                                                     *)

SaleDays(k) == {t \in DOMAIN sold[k] : sold[k][t] # NaN}

(* Mutant: a series ends with its last sale.                                *)
OwnDateRange(k) == 1..Max(SaleDays(k))

(* From the first day any row has to the last, for every series.  (Rows of  *)
(* no series, which have no store, may be the only ones of those days.)     *)
date_range(k) == 1..NDays

(* ffill().bfill(): the price last paid, or else the first.                 *)
FilledPrice(k, t) ==
    LET past == {d \in SaleDays(k) : d <= t}
        paid == sold[k][IF past # {} THEN Max(past) ELSE Min(SaleDays(k))] IN
    paid.line_total \div paid.quantity

view(k) ==
    [quantity |-> [t \in date_range(k) |->
                      IF t \in SaleDays(k) THEN sold[k][t].quantity ELSE 0],
     unit_price |-> [t \in date_range(k) |-> FilledPrice(k, t)]]

(* A series without a sale is none; rows may all lack a store.              *)
ForecastInit ==
    /\ \E n \in 1..MaxDays, m \in 0..MaxSeries :
          sold \in {f \in [1..m -> [1..n -> Totals \cup {NaN}]] :
                       /\ \A k \in 1..m : \E t \in 1..n : f[k][t] # NaN
                       /\ Cardinality({x \in (1..m) \X (1..n) : f[x[1]][x[2]] # NaN})
                              <= MaxSaleDays}
    /\ last_date \in LastDates
    /\ history = NaN /\ quantities = <<>> /\ date = NaN /\ row = NaN /\ points = <<>>
    /\ series_results = <<>>
    /\ n_low_confidence = 0
    /\ pc = "view"

Goto(label) == pc' = label

(* pd.concat raises ValueError if there is no series.                       *)
BuildView ==
    /\ pc = "view"
    /\ Goto(IF sold = <<>> THEN "failed" ELSE "train")
    /\ UNCHANGED <<seriesVars, sold, last_date, series_results, n_low_confidence>>

----------------------------------------------------------------------------
(* forecast.                                                                *)

(* Days that have all lags, in any series.                                  *)
train_df == UNION {{<<k, t>> : t \in date_range(k) \ 1..MaxLag} : k \in DOMAIN sold}

Train ==
    /\ pc = "train"
    /\ Goto(IF train_df = {} THEN "failed" ELSE "series")
    /\ UNCHANGED <<seriesVars, sold, last_date, series_results, n_low_confidence>>

Current == Len(series_results) + 1

(* _history_lengths: the days since the first sale.                         *)
history_length(k) == Max(date_range(k)) - Min(SaleDays(k)) + 1

ColdStart(k) == history_length(k) < min_history_days

Sum(s) == SumFunction(s)

(* What a series contributes to the result; `first` is the number of the    *)
(* day its points begin with.                                               *)
SeriesForecast(first, its_points, low) ==
    [first |-> first,
     points |-> its_points,
     recommended_order_qty |->
        Sum([i \in 1..Lesser(lead_time_days, Len(its_points)) |-> its_points[i].upper]),
     low_confidence |-> low]

Mean(s) == Sum(s) \div Len(s)
Deviation(s) == IF Cardinality(ToSet(s)) = 1 THEN {0} ELSE Deviations
weekday(t) == t % DaysOfWeek

(* Mutant: the week goes on with the last day of the history.               *)
last_day(n, step) == n + step - 1
new_date(n, step) == n + step

(* The quantities of the days of a weekday, from its first day on.          *)
by_dow(q, w) ==
    [i \in 1..Cardinality({t \in 1..Len(q) : weekday(t) = w}) |->
        q[(CHOOSE t \in 1..DaysOfWeek : weekday(t) = w) + (i - 1) * DaysOfWeek]]

NaivePoint(mean, std) ==
    [forecast |-> mean, lower |-> Clip(mean - std), upper |-> mean + std]

(* _seasonal_naive_points: means over the days of the same weekday, with    *)
(* their deviation or, when there is but one such day, that of all days.    *)
SeasonalNaivePoints(q) ==
    LET w(k) == weekday(new_date(Len(q), k))
        stds == {f \in [{w(k) : k \in 1..Horizon} -> Deviations \cup {0}] :
                    \A d \in DOMAIN f :
                        f[d] \in Deviation(IF Len(by_dow(q, d)) > 1 THEN by_dow(q, d) ELSE q)} IN
    {[k \in 1..Horizon |-> NaivePoint(Mean(by_dow(q, w(k))), std[w(k)])] : std \in stds}

(* A series that was listed too recently: no model is asked.                *)
SeasonalNaive ==
    /\ pc = "series"
    /\ Current \in DOMAIN sold
    /\ ColdStart(Current)
    /\ n_low_confidence' = n_low_confidence + 1
    /\ LET group == view(Current) IN
       \E its_points \in SeasonalNaivePoints(group.quantity) :
           series_results' = Append(series_results,
               SeriesForecast(Len(group.quantity) + 1, its_points, TRUE))
    /\ UNCHANGED <<seriesVars, sold, last_date, pc>>

StartRecursion ==
    /\ pc = "series"
    /\ Current \in DOMAIN sold
    /\ ~ColdStart(Current)
    /\ StartSeries(view(Current), last_date)
    /\ Goto("day")
    /\ UNCHANGED <<sold, last_date, series_results, n_low_confidence>>

RecursionStep ==
    /\ pc = "day"
    /\ \E prediction \in Predictions, q_preds \in QuantilePredictions :
          ForecastDay(prediction, q_preds)
    /\ UNCHANGED <<sold, last_date, series_results, n_low_confidence, pc>>

EndRecursion ==
    /\ pc = "day"
    /\ Len(points) = Horizon
    /\ series_results' = Append(series_results,
           SeriesForecast(Len(history.quantity) + 1, points, FALSE))
    /\ Goto("series")
    /\ UNCHANGED <<seriesVars, sold, last_date, n_low_confidence>>

Return ==
    /\ pc = "series"
    /\ Current \notin DOMAIN sold
    /\ Goto("done")
    /\ UNCHANGED <<seriesVars, sold, last_date, series_results, n_low_confidence>>

ForecastNext ==
    BuildView \/ Train \/ SeasonalNaive \/ StartRecursion \/ RecursionStep \/ EndRecursion
    \/ Return

ForecastSpec == ForecastInit /\ [][ForecastNext]_forecastVars

----------------------------------------------------------------------------

Results == {series_results[k] : k \in DOMAIN series_results}

(* Whether the models or the fallback made them, all series are forecast    *)
(* for the same days, from the day after the last of the data on, although  *)
(* some sold nothing towards the end; and the result says how many of them  *)
(* to distrust.                                                             *)
SeriesAreAligned ==
    /\ \A r \in Results : r.first = NDays + 1 /\ Len(r.points) = Horizon
    /\ n_low_confidence =
          Cardinality({k \in DOMAIN series_results : series_results[k].low_confidence})
    /\ pc = "done" => Len(series_results) = Len(sold)

(* Intervals hold their forecast and are not negative, whatever the         *)
(* quantile models predict beside the point model; so what is recommended   *)
(* to be ordered is at least what is forecast to be sold until it arrives.  *)
OrdersCoverForecasts ==
    \A r \in Results :
        /\ \A k \in DOMAIN r.points :
              /\ 0 <= r.points[k].lower
              /\ r.points[k].lower <= r.points[k].forecast
              /\ r.points[k].forecast <= r.points[k].upper
        /\ r.recommended_order_qty >=
              Sum([k \in 1..Lesser(lead_time_days, Horizon) |-> r.points[k].forecast])

(* The fallback continues the pattern of the week: had every week of the    *)
(* history been the same, so will those that are forecast.                  *)
WeeklyPatternsContinue ==
    \A k \in DOMAIN series_results :
        LET q == view(k).quantity
            r == series_results[k] IN
        r.low_confidence /\ (\A t \in 1..(Len(q) - DaysOfWeek) : q[t] = q[t + DaysOfWeek])
            => \A i \in 1..Horizon, t \in 1..Len(q) :
                   weekday(t) = weekday(Len(q) + i) => r.points[i].forecast = q[t]
=============================================================================
