--------------------------- MODULE ForecastProofs ---------------------------
(***************************************************************************)
(* Every series is forecast as the models were trained, for the same days,  *)
(* and ordered for (ForecastSeries, ForecastRun), for every value of the    *)
(* constants: any lags and windows, any models, any sales.                  *)
(***************************************************************************)
EXTENDS ForecastRun, CountingProofs, SequenceTheorems

(* The whole quotient of a product is the other factor.                     *)
LEMMA ExactQuotient ==
    ASSUME NEW v \in Int, NEW c \in Nat \ {0}
    PROVE  (v * c) \div c = v
<1> DEFINE x == (v * c) \div c
<1>1. v * c \in Int
  OBVIOUS
<1>2. x \in Int /\ \A k \in Int : k <= x <=> k * c <= v * c
  BY <1>1, Quotient
<1> HIDE DEF x
<1>3. v <= x /\ ~(v * c < x * c)
  BY <1>1, <1>2
<1>4. ~(v < x)
  BY <1>2, <1>3, Cancel
<1> QED
  BY <1>2, <1>3, <1>4 DEF x

(* The longest lag is one of the lags.                                      *)
LEMMA LongestLag == MaxLag \in Nat \ {0} /\ MaxLag \in Lags
<1>1. Lags \in SUBSET (Nat \ {0}) /\ Lags \in SUBSET Int /\ Lags # {} /\ IsFiniteSet(Lags)
  BY ForecastAssumption
<1>2. Max(Lags) \in Lags
  BY <1>1, Extremes
<1> QED
  BY <1>1, <1>2 DEF MaxLag

(* The values of a function on a finite set are finitely many.              *)
LEMMA Values ==
    ASSUME NEW S, IsFiniteSet(S), NEW f, DOMAIN f = S
    PROVE  /\ IsFiniteSet({f[x] : x \in S})
           /\ Cardinality({f[x] : x \in S}) <= Cardinality(S)
<1> DEFINE g == [x \in S |-> f[x]]
           T == {f[x] : x \in S}
<1>1. g \in Surjection(S, T)
  BY DEF Surjection
<1> QED
  BY <1>1, FS_Surjection

----------------------------------------------------------------------------
(* The view.                                                                *)

(* The sales are those of some series over the same days, each with a sale. *)
Sales ==
    \E n \in Nat \ {0}, m \in Nat :
        /\ sold \in [1..m -> [1..n -> Totals \cup {NaN}]]
        /\ \A k \in 1..m : \E t \in 1..n : sold[k][t] # NaN

(* Every series has the days of all, and some of them are days of sales.    *)
LEMMA SalesFacts ==
    ASSUME Sales
    PROVE  /\ Len(sold) \in Nat /\ DOMAIN sold = 1..Len(sold)
           /\ NDays \in Nat
           /\ \A k \in DOMAIN sold :
                 /\ NDays # 0
                 /\ SaleDays(k) \in SUBSET (1..NDays) /\ SaleDays(k) # {}
                 /\ \A t \in SaleDays(k) : sold[k][t] \in Totals
<1>1. PICK n \in Nat \ {0}, m \in Nat :
         /\ sold \in [1..m -> [1..n -> Totals \cup {NaN}]]
         /\ \A k \in 1..m : \E t \in 1..n : sold[k][t] # NaN
  BY DEF Sales
<1>2. Len(sold) = m /\ DOMAIN sold = 1..m
  BY <1>1
<1>3. ASSUME m # 0 PROVE NDays = n
  <2>1. sold[1] \in [1..n -> Totals \cup {NaN}] /\ sold # <<>>
    BY <1>1, <1>2, <1>3
  <2>2. Len(sold[1]) = n
    BY <2>1
  <2> QED
    BY <2>1, <2>2 DEF NDays
<1>4. NDays \in Nat
  <2>1. CASE m = 0
    <3>1. sold = <<>>
      BY <1>1, <2>1
    <3> QED
      BY <3>1 DEF NDays
  <2> QED
    BY <1>3, <2>1
<1>5. ASSUME NEW k \in 1..m
      PROVE  /\ NDays # 0
             /\ SaleDays(k) \in SUBSET (1..NDays) /\ SaleDays(k) # {}
             /\ \A t \in SaleDays(k) : sold[k][t] \in Totals
  <2>1. NDays = n
    BY <1>3, <1>5
  <2>2. sold[k] \in [1..n -> Totals \cup {NaN}] /\ \E t \in 1..n : sold[k][t] # NaN
    BY <1>1
  <2> QED
    BY <2>1, <2>2 DEF SaleDays
<1> QED
  BY <1>2, <1>4, <1>5

(* The group of a series has a quantity and a price for each of the days.   *)
LEMMA Views ==
    ASSUME Sales, NEW k \in DOMAIN sold
    PROVE  /\ view(k).quantity \in Seq(Nat) /\ Len(view(k).quantity) = NDays
           /\ view(k).unit_price \in Seq(Int) /\ Len(view(k).unit_price) = NDays
           /\ NDays \in Nat \ {0}
<1>1. /\ NDays \in Nat \ {0}
      /\ SaleDays(k) \in SUBSET (1..NDays) /\ SaleDays(k) # {}
      /\ \A t \in SaleDays(k) : sold[k][t] \in Totals
  BY SalesFacts
<1>2. ASSUME NEW x \in Totals PROVE x.line_total \div x.quantity \in Int /\ x.quantity \in Nat
  BY ForecastRunAssumption, Quotient
<1>3. ASSUME NEW t \in 1..NDays PROVE FilledPrice(k, t) \in Int
  <2> DEFINE past == {d \in SaleDays(k) : d <= t}
             day == IF past # {} THEN Max(past) ELSE Min(SaleDays(k))
  <2>1. IsFiniteSet(1..NDays)
    BY <1>1, UpTo
  <2>2. IsFiniteSet(SaleDays(k)) /\ IsFiniteSet(past)
    BY <1>1, <2>1, FS_Subset
  <2>3. SaleDays(k) \in SUBSET Int /\ past \in SUBSET Int
    BY <1>1
  <2>4. day \in SaleDays(k)
    BY <1>1, <2>2, <2>3, Extremes
  <2>5. sold[k][day] \in Totals
    BY <1>1, <2>4
  <2>6. FilledPrice(k, t) = sold[k][day].line_total \div sold[k][day].quantity
    BY DEF FilledPrice
  <2> HIDE DEF day
  <2> QED
    BY <1>2, <2>5, <2>6
<1>4. ASSUME NEW t \in 1..NDays
      PROVE  (IF t \in SaleDays(k) THEN sold[k][t].quantity ELSE 0) \in Nat
  BY <1>1, <1>2
<1>5. view(k) = [quantity |-> [t \in 1..NDays |->
                                  IF t \in SaleDays(k) THEN sold[k][t].quantity ELSE 0],
                 unit_price |-> [t \in 1..NDays |-> FilledPrice(k, t)]]
  BY DEF view, date_range
<1> QED
  BY <1>1, <1>3, <1>4, <1>5

----------------------------------------------------------------------------
(* The days of a weekday.                                                   *)

(* A week has days, and the longest lag reaches back a week.                *)
LEMMA DaysOfTheWeek == DaysOfWeek \in Nat \ {0} /\ DaysOfWeek <= MaxLag
BY ForecastRunAssumption, LongestLag

(* The day among the first week of the history.                             *)
FirstDay(w) == CHOOSE t \in 1..DaysOfWeek : weekday(t) = w
DaysAlike(n, w) == {t \in 1..n : weekday(t) = w}

(* Every day is whole weeks after the one of the first week.                *)
LEMMA WeeksApart ==
    ASSUME NEW t \in Nat \ {0}
    PROVE  /\ weekday(t) \in 0..(DaysOfWeek - 1)
           /\ FirstDay(weekday(t)) \in 1..DaysOfWeek
           /\ weekday(FirstDay(weekday(t))) = weekday(t)
           /\ \E j \in Nat : t = FirstDay(weekday(t)) + j * DaysOfWeek
<1> DEFINE e == DaysOfWeek
           w == t % e
           f == FirstDay(w)
<1>1. e \in Nat \ {0}
  BY DaysOfTheWeek
<1>2. w \in 0..(e - 1) /\ t = e * (t \div e) + w /\ t \div e \in Nat
  BY <1>1
<1>3. w % e = w /\ e % e = 0
  BY <1>1, <1>2
<1>4. \E d \in 1..e : d % e = w
  <2>1. CASE w = 0
    BY <1>1, <1>3, <2>1
  <2>2. CASE w # 0
    BY <1>1, <1>2, <1>3, <2>2
  <2> QED
    BY <2>1, <2>2
<1>5. f \in 1..e /\ f % e = w
  BY <1>4 DEF FirstDay, weekday
<1> HIDE DEF w, f
<1>6. f = e * (f \div e) + w /\ f \div e \in Nat
  BY <1>1, <1>5
<1>7. t - f = (t \div e - f \div e) * e
  BY <1>1, <1>2, <1>5, <1>6
<1>8. (-1) * e < (t \div e - f \div e) * e
  BY <1>1, <1>5, <1>7
<1>9. -1 < t \div e - f \div e
  BY <1>1, <1>2, <1>6, <1>8, Cancel
<1>10. t \div e - f \div e \in Nat /\ t = f + (t \div e - f \div e) * e
  BY <1>1, <1>2, <1>5, <1>6, <1>7, <1>9
<1> QED
  BY <1>1, <1>2, <1>5, <1>10 DEF w, f, weekday

(* Of a weekday there are so many days, a week apart, none of them past the *)
(* last.                                                                    *)
LEMMA DaysOfAWeekday ==
    ASSUME NEW n \in Nat, DaysOfWeek <= n, NEW u \in Nat \ {0}
    PROVE  LET w == weekday(u)
               c == Cardinality(DaysAlike(n, w)) IN
           /\ c \in Nat \ {0}
           /\ \A i \in 1..c : FirstDay(w) + (i - 1) * DaysOfWeek \in 1..n
<1> DEFINE e == DaysOfWeek
           w == weekday(u)
           f == FirstDay(w)
           T == DaysAlike(n, w)
           m == (n - f) \div e
           g == [j \in 0..m |-> f + j * e]
<1>1. e \in Nat \ {0} /\ f \in 1..e /\ weekday(f) = w
  BY DaysOfTheWeek, WeeksApart
<1>2. f \in T /\ n - f \in Nat
  BY <1>1 DEF DaysAlike
<1>3. m \in Int /\ \A k \in Int : k <= m <=> k * e <= n - f
  BY <1>1, <1>2, Quotient
<1>4. m \in Nat
  BY <1>1, <1>2, <1>3
<1>5. T \subseteq {g[j] : j \in 0..m}
  <2> SUFFICES ASSUME NEW t \in T PROVE \E j \in 0..m : t = f + j * e
    OBVIOUS
  <2>1. t \in 1..n /\ weekday(t) = w
    BY DEF DaysAlike
  <2>2. PICK j \in Nat : t = f + j * e
    BY <2>1, WeeksApart
  <2>3. j * e <= n - f
    BY <1>1, <2>1, <2>2
  <2> QED
    BY <1>3, <1>4, <2>2, <2>3
<1>6. IsFiniteSet(0..m) /\ Cardinality(0..m) = m + 1
  BY <1>4, FS_Interval
<1>7. /\ IsFiniteSet({g[j] : j \in 0..m})
      /\ Cardinality({g[j] : j \in 0..m}) <= m + 1
  <2> HIDE DEF m
  <2>1. DOMAIN g = 0..m
    OBVIOUS
  <2> HIDE DEF g
  <2> QED
    BY <1>6, <2>1, Values
<1>8. IsFiniteSet(T) /\ Cardinality(T) <= m + 1 /\ Cardinality(T) \in Nat
  <2>1. /\ IsFiniteSet(T) /\ Cardinality(T) <= Cardinality({g[j] : j \in 0..m})
    BY <1>5, <1>7, FS_Subset
  <2>2. Cardinality(T) \in Nat /\ Cardinality({g[j] : j \in 0..m}) \in Nat
    BY <1>7, <2>1, FS_CardinalityType
  <2> QED
    BY <1>4, <1>7, <2>1, <2>2
<1>9. Cardinality(T) # 0
  BY <1>2, <1>8, FS_EmptySet
<1>10. ASSUME NEW i \in 1..Cardinality(T)
       PROVE  f + (i - 1) * e \in 1..n
  <2>1. i - 1 \in Nat /\ i - 1 <= m
    BY <1>4, <1>8
  <2>2. (i - 1) * e <= n - f /\ (i - 1) * e \in Nat
    BY <1>1, <1>3, <2>1
  <2> HIDE DEF f, e
  <2> QED
    BY <1>1, <1>2, <2>2
<1> QED
  BY <1>8, <1>9, <1>10

(* The mean of a weekday is a quantity; if the weeks of the history are the *)
(* same, it is that of each of the days.                                    *)
LEMMA Means ==
    ASSUME NEW q \in Seq(Nat), DaysOfWeek <= Len(q), NEW u \in Nat \ {0}
    PROVE  /\ Mean(by_dow(q, weekday(u))) \in Nat
           /\ (\A t \in 1..(Len(q) - DaysOfWeek) : q[t] = q[t + DaysOfWeek]) =>
                  \A t \in 1..Len(q) :
                      weekday(t) = weekday(u) => Mean(by_dow(q, weekday(u))) = q[t]
<1> DEFINE e == DaysOfWeek
           n == Len(q)
           w == weekday(u)
           f == FirstDay(w)
           c == Cardinality(DaysAlike(n, w))
           s == by_dow(q, w)
<1>1. n \in Nat /\ q \in [1..n -> Nat]
  OBVIOUS
<1>2. e \in Nat \ {0} /\ f \in 1..e
  BY DaysOfTheWeek, WeeksApart
<1>3. c \in Nat \ {0} /\ \A i \in 1..c : f + (i - 1) * e \in 1..n
  BY <1>1, DaysOfAWeekday
<1>4. s = [i \in 1..c |-> q[f + (i - 1) * e]]
  BY DEF by_dow, FirstDay, DaysAlike
<1> HIDE DEF f, c, e, s, w
<1>5. /\ DOMAIN s = 1..c /\ Len(s) = c
      /\ \A i \in 1..c : s[i] = q[f + (i - 1) * e] /\ s[i] \in Nat
  BY <1>1, <1>3, <1>4
<1>6. IsFiniteSet(1..c) /\ Cardinality(1..c) = c
  BY <1>3, UpTo
<1>7. Sum(s) = SumFunctionOnSet(s, 1..c) /\ Mean(s) = Sum(s) \div c
  BY <1>5 DEF Sum, SumFunction, Mean
<1>8. Mean(s) \in Nat
  <2>1. SumFunctionOnSet(s, 1..c) \in Int
    BY <1>5, <1>6, SumSteps
  <2>2. 0 * c <= SumFunctionOnSet(s, 1..c)
    <3>1. 0 \in Int /\ \A i \in 1..c : s[i] \in Int /\ s[i] >= 0
      BY <1>5
    <3>2. 0 * Cardinality(1..c) <= SumFunctionOnSet(s, 1..c)
      BY <1>6, <3>1, SumBounds
    <3> QED
      BY <1>6, <3>2
  <2>3. Sum(s) \in Nat
    BY <1>3, <1>7, <2>1, <2>2
  <2>4. Sum(s) \div c \in Int /\ \A k \in Int : k <= Sum(s) \div c <=> k * c <= Sum(s)
    BY <1>3, <2>3, Quotient
  <2> QED
    BY <1>3, <1>7, <2>3, <2>4
<1>9. ASSUME \A t \in 1..(n - e) : q[t] = q[t + e],
             NEW t \in 1..n, weekday(t) = w
      PROVE  Mean(s) = q[t]
  <2> DEFINE S == {j \in Nat : f + j * e <= n => q[f + j * e] = q[f]}
  <2>1. 0 \in S
    BY <1>2
  <2>2. ASSUME NEW j \in S, f + (j + 1) * e <= n PROVE q[f + (j + 1) * e] = q[f]
    <3>1. j \in Nat /\ j * e \in Nat /\ (j + 1) * e = j * e + e
      BY <1>2
    <3>2. f + j * e \in 1..(n - e) /\ f + (j + 1) * e = (f + j * e) + e
      BY <1>1, <1>2, <2>2, <3>1
    <3>3. q[f + j * e] = q[f]
      BY <1>2, <2>2, <3>1, <3>2
    <3> QED
      BY <1>9, <3>2, <3>3
  <2>3. S = Nat
    <3>1. S \in SUBSET Nat /\ \A j \in S : j + 1 \in S
      BY <2>2
    <3> HIDE DEF S
    <3> QED
      BY <2>1, <3>1, NatsByStep
  <2>4. ASSUME NEW j \in Nat, f + j * e <= n PROVE q[f + j * e] = q[f]
    BY <2>3, <2>4
  <2> HIDE DEF S
  <2>5. PICK j \in Nat : t = f + j * e
    BY <1>9, WeeksApart DEF e, f, w
  <2>6. q[t] = q[f]
    BY <2>4, <2>5
  <2>7. \A i \in 1..c : s[i] = q[t]
    <3> SUFFICES ASSUME NEW i \in 1..c PROVE s[i] = q[t]
      OBVIOUS
    <3>1. i - 1 \in Nat /\ f + (i - 1) * e <= n
      BY <1>3
    <3> QED
      BY <1>5, <2>4, <2>6, <3>1
  <2>8. q[t] \in Int
    BY <1>1
  <2>9. SumFunctionOnSet(s, 1..c) = q[t] * c
    BY <1>6, <2>7, <2>8, SumOfEquals
  <2> QED
    BY <1>3, <1>7, <2>8, <2>9, ExactQuotient
<1> QED
  BY <1>8, <1>9 DEF e, s, w

----------------------------------------------------------------------------
(* The points of a series, and what is ordered for them.                    *)

(* An interval of natural numbers that holds its forecast.                  *)
Points ==
    {p \in [forecast : Nat, lower : Nat, upper : Nat] :
        p.lower <= p.forecast /\ p.forecast <= p.upper}

(* Whatever the models predict.                                             *)
LEMMA PointsOfModels ==
    ASSUME NEW prediction \in Predictions, NEW q_preds \in QuantilePredictions
    PROVE  /\ Clip(prediction) \in Nat
           /\ Point(Clip(prediction), q_preds) \in Points
           /\ Point(Clip(prediction), q_preds).forecast = Clip(prediction)
<1> DEFINE f == [q \in 1..NQuantiles |-> Clip(q_preds[q])]
           point == Clip(prediction)
           preds == {point} \cup {f[q] : q \in 1..NQuantiles}
<1>1. /\ Predictions \subseteq Int /\ NQuantiles \in Nat
      /\ q_preds \in [1..NQuantiles -> Predictions]
  BY ForecastAssumption DEF QuantilePredictions
<1>2. \A x \in Int : Clip(x) \in Nat
  BY DEF Clip
<1>3. preds \in SUBSET Nat /\ point \in preds /\ point \in Nat
  BY <1>1, <1>2
<1>4. Point(point, q_preds) = [forecast |-> point, lower |-> Min(preds), upper |-> Max(preds)]
  <2>1. {Clip(q_preds[q]) : q \in DOMAIN q_preds} = {f[q] : q \in 1..NQuantiles}
    BY <1>1
  <2> QED
    BY <2>1 DEF Point
<1>5. IsFiniteSet(preds)
  <2>1. IsFiniteSet({f[q] : q \in 1..NQuantiles})
    <3>1. IsFiniteSet(1..NQuantiles) /\ DOMAIN f = 1..NQuantiles
      BY <1>1, UpTo
    <3> HIDE DEF f
    <3> QED
      BY <3>1, Values
  <2>2. IsFiniteSet({f[q] : q \in 1..NQuantiles} \cup {point})
    BY <2>1, FS_AddElement
  <2> QED
    BY <2>2
<1> HIDE DEF preds, point
<1>6. Min(preds) \in preds /\ Max(preds) \in preds /\ Min(preds) <= point /\ point <= Max(preds)
  <2>1. preds \in SUBSET Int /\ preds # {}
    BY <1>3
  <2> QED
    BY <1>3, <1>5, <2>1, Extremes
<1>7. Min(preds) \in Nat /\ Max(preds) \in Nat
  BY <1>3, <1>6
<1>8. Point(point, q_preds) \in Points /\ Point(point, q_preds).forecast = point
  BY <1>3, <1>4, <1>6, <1>7 DEF Points
<1> QED
  BY <1>3, <1>8 DEF point

(* The fallback makes a point of every day ahead, with the mean of its      *)
(* weekday.                                                                 *)
LEMMA PointsOfTheFallback ==
    ASSUME NEW q \in Seq(Nat), DaysOfWeek <= Len(q),
           NEW its_points \in SeasonalNaivePoints(q)
    PROVE  /\ its_points \in Seq(Points) /\ Len(its_points) = Horizon
           /\ \A i \in 1..Horizon :
                 its_points[i].forecast = Mean(by_dow(q, weekday(Len(q) + i)))
<1> DEFINE n == Len(q)
           w(k) == weekday(new_date(n, k))
           days == {w(k) : k \in 1..Horizon}
<1>1. n \in Nat /\ Horizon \in Nat /\ Deviations \subseteq Nat
  BY ForecastAssumption, ForecastRunAssumption
<1>2. PICK std \in [days -> Deviations \cup {0}] :
         its_points = [k \in 1..Horizon |-> NaivePoint(Mean(by_dow(q, w(k))), std[w(k)])]
  BY DEF SeasonalNaivePoints
<1>3. ASSUME NEW k \in 1..Horizon
      PROVE  /\ w(k) = weekday(n + k)
             /\ Mean(by_dow(q, w(k))) \in Nat
             /\ NaivePoint(Mean(by_dow(q, w(k))), std[w(k)]) \in Points
             /\ NaivePoint(Mean(by_dow(q, w(k))), std[w(k)]).forecast = Mean(by_dow(q, w(k)))
  <2>1. new_date(n, k) = n + k /\ n + k \in Nat \ {0}
    BY <1>1 DEF new_date
  <2>2. w(k) = weekday(n + k)
    BY <2>1
  <2>3. Mean(by_dow(q, w(k))) \in Nat
    BY <2>1, <2>2, Means
  <2>4. std[w(k)] \in Nat
    BY <1>1
  <2>5. ASSUME NEW mean \in Nat, NEW d \in Nat
        PROVE  NaivePoint(mean, d) \in Points /\ NaivePoint(mean, d).forecast = mean
    BY DEF NaivePoint, Points, Clip
  <2> HIDE DEF w
  <2> QED
    BY <2>2, <2>3, <2>4, <2>5
<1> HIDE DEF w
<1>4. its_points \in [1..Horizon -> Points]
  BY <1>2, <1>3
<1>5. its_points \in Seq(Points) /\ Len(its_points) = Horizon
  BY <1>1, <1>4
<1> QED
  BY <1>2, <1>3, <1>5

(* The results of the series.                                               *)
SeriesResults ==
    [first : Nat, points : Seq(Points), recommended_order_qty : Int, low_confidence : BOOLEAN]

(* What is ordered is at least what is forecast until it arrives.           *)
LEMMA Orders ==
    ASSUME NEW its_points \in Seq(Points), Len(its_points) = Horizon,
           NEW first \in Nat, NEW low \in BOOLEAN
    PROVE  LET r == SeriesForecast(first, its_points, low) IN
           /\ r \in SeriesResults
           /\ r.first = first /\ r.points = its_points /\ r.low_confidence = low
           /\ r.recommended_order_qty >=
                 Sum([k \in 1..Lesser(lead_time_days, Horizon) |-> its_points[k].forecast])
<1> DEFINE m == Lesser(lead_time_days, Horizon)
           f == [k \in 1..m |-> its_points[k].forecast]
           g == [k \in 1..m |-> its_points[k].upper]
<1>1. m \in Nat /\ 1..m \subseteq 1..Horizon
  BY ForecastAssumption, ForecastRunAssumption DEF Lesser
<1>2. its_points \in [1..Horizon -> Points]
  OBVIOUS
<1>3. SeriesForecast(first, its_points, low) =
         [first |-> first, points |-> its_points,
          recommended_order_qty |-> Sum(g), low_confidence |-> low]
  BY DEF SeriesForecast
<1>4. Sum(f) = SumFunctionOnSet(f, 1..m) /\ Sum(g) = SumFunctionOnSet(g, 1..m)
  BY DEF Sum, SumFunction
<1>5. \A k \in 1..m : f[k] \in Int /\ g[k] \in Int /\ f[k] <= g[k]
  BY <1>1, <1>2 DEF Points
<1>6. IsFiniteSet(1..m)
  BY <1>1, UpTo
<1> HIDE DEF f, g, m
<1>7. SumFunctionOnSet(f, 1..m) <= SumFunctionOnSet(g, 1..m)
  BY <1>5, <1>6, SumMonotonic
<1>8. SumFunctionOnSet(f, 1..m) \in Int /\ SumFunctionOnSet(g, 1..m) \in Int
  BY <1>5, <1>6, SumSteps
<1>9. Sum(g) >= Sum(f)
  BY <1>4, <1>7, <1>8
<1>10. SeriesForecast(first, its_points, low) \in SeriesResults
  BY <1>3, <1>4, <1>8 DEF SeriesResults
<1> QED
  BY <1>3, <1>9, <1>10 DEF f, m

----------------------------------------------------------------------------
(* The features of a day that is forecast.                                  *)

(* A group: the sales and the prices of as many days, one at least.         *)
Group(h) ==
    /\ h.quantity \in Seq(Nat) /\ h.unit_price \in Seq(Int)
    /\ Len(h.quantity) = Len(h.unit_price) /\ Len(h.quantity) # 0

(* What the loop reads from the end of the quantities is what training      *)
(* reads before the new day.                                                *)
LEMMA DemandOfTheNextDay ==
    ASSUME quantities \in Seq(Nat), NEW x \in Nat, NEW d
    PROVE  [lag |-> Features(d).lag, rolling |-> Features(d).rolling]
               = DemandFeatures(Append(quantities, x), Len(quantities) + 1)
<1> DEFINE n == Len(quantities)
           s == Append(quantities, x)
<1>1. n \in Nat /\ Lags \subseteq Nat \ {0} /\ Windows \subseteq Nat \ {0}
  BY ForecastAssumption
<1>2. s \in Seq(Nat) /\ Len(s) = n + 1 /\ \A i \in 1..n : s[i] = quantities[i]
  BY AppendProperties
<1> HIDE DEF s
<1>3. ASSUME NEW l \in Lags PROVE FromEnd(l) = Shift(s, l, n + 1)
  <2>1. l \in Nat \ {0}
    BY <1>1
  <2>2. CASE n >= l
    <3>1. n + 1 - l \in 1..n /\ (n + 1) - l >= 1
      BY <1>1, <2>1, <2>2
    <3>2. s[n + 1 - l] = quantities[n + 1 - l]
      BY <1>2, <3>1
    <3> QED
      BY <1>1, <2>1, <2>2, <3>1, <3>2 DEF FromEnd, Shift
  <2>3. CASE ~(n >= l)
    <3>1. ~((n + 1) - l >= 1)
      BY <1>1, <2>1, <2>3
    <3> QED
      BY <2>3, <3>1 DEF FromEnd, Shift
  <2> QED
    BY <2>2, <2>3
<1>4. ASSUME NEW w \in Windows PROVE LastOf(w) = Rolling(s, w, n + 1)
  <2> DEFINE a == IF n < w THEN 1 ELSE n + 1 - w
  <2>1. a \in Nat \ {0} /\ w \in Nat \ {0}
    BY <1>1
  <2>2. LastOf(w) = SubSeq(quantities, a, n)
    BY DEF LastOf
  <2>3. Rolling(s, w, n + 1) = SubSeq(s, a, n)
    <3>1. (IF (n + 1) - w < 1 THEN 1 ELSE (n + 1) - w) = a
      BY <1>1, <2>1
    <3>2. (n + 1) - 1 = n
      BY <1>1
    <3> QED
      BY <3>1, <3>2 DEF Rolling
  <2> HIDE DEF a
  <2>4. \A i \in a..n : quantities[i] \in Nat /\ s[i] \in Nat /\ s[i] = quantities[i]
    BY <1>1, <1>2, <2>1
  <2>5. /\ SubSeq(quantities, a, n) \in Seq(Nat)
        /\ Len(SubSeq(quantities, a, n)) = IF a <= n THEN n - a + 1 ELSE 0
        /\ \A i \in 1..(n - a + 1) : SubSeq(quantities, a, n)[i] = quantities[a + i - 1]
    BY <1>1, <2>1, <2>4, SubSeqProperties
  <2>6. /\ SubSeq(s, a, n) \in Seq(Nat)
        /\ Len(SubSeq(s, a, n)) = IF a <= n THEN n - a + 1 ELSE 0
        /\ \A i \in 1..(n - a + 1) : SubSeq(s, a, n)[i] = s[a + i - 1]
    BY <1>1, <2>1, <2>4, SubSeqProperties
  <2>7. \A i \in 1..Len(SubSeq(s, a, n)) : SubSeq(quantities, a, n)[i] = SubSeq(s, a, n)[i]
    BY <1>1, <2>1, <2>4, <2>5, <2>6
  <2>8. SubSeq(quantities, a, n) = SubSeq(s, a, n)
    BY <2>5, <2>6, <2>7, SeqEqual
  <2> QED
    BY <2>2, <2>3, <2>8
<1> QED
  BY <1>3, <1>4 DEF Features, DemandFeatures, s

(* Whatever is the median of equal values is each of them.                  *)
LEMMA MedianOfEquals ==
    ASSUME NEW s, NEW c \in Int, NEW n \in Nat \ {0}, Len(s) = n,
           \A i \in 1..n : s[i] = c
    PROVE  TwiceMedian(s) = 2 * c
<1> DEFINE below(v) == Cardinality({i \in 1..n : s[i] < v})
           upto(v) == Cardinality({i \in 1..n : s[i] <= v})
           nth(k) == CHOOSE v \in {s[i] : i \in 1..n} : below(v) < k /\ k <= upto(v)
<1>1. {s[i] : i \in 1..n} = {c}
  BY 1 \in 1..n
<1>2. below(c) = 0 /\ upto(c) = n
  <2>1. {i \in 1..n : s[i] < c} = {} /\ {i \in 1..n : s[i] <= c} = 1..n
    OBVIOUS
  <2> QED
    BY <2>1, UpTo, FS_EmptySet
<1>3. ASSUME NEW k \in 1..n PROVE nth(k) = c
  <2>1. below(c) < k /\ k <= upto(c)
    BY <1>2
  <2> HIDE DEF below, upto
  <2> QED
    BY <1>1, <2>1
<1>4. (n + 1) \div 2 \in 1..n /\ (n + 2) \div 2 \in 1..n
  OBVIOUS
<1>5. TwiceMedian(s) = nth((n + 1) \div 2) + nth((n + 2) \div 2)
  BY DEF TwiceMedian
<1> HIDE DEF nth
<1> QED
  BY <1>3, <1>4, <1>5

(* Nor does the trailing median of the same prices differ from them.        *)
LEMMA MedianOfSteadyPrices ==
    ASSUME NEW price \in Seq(Int), NEW c \in Int, NEW t \in 1..Len(price),
           \A i \in 1..t : i >= t - PriceWindow => price[i] = c
    PROVE  TrailingMedian(price, t) = 2 * c
<1> DEFINE a == IF t - PriceWindow < 1 THEN 1 ELSE t - PriceWindow
           s == SubSeq(price, a, t - 1)
<1>1. PriceWindow \in Nat \ {0} /\ Len(price) \in Nat
  BY ForecastAssumption
<1>2. CASE t = 1
  BY <1>1, <1>2 DEF TrailingMedian
<1>3. CASE t # 1
  <2>1. /\ a \in Nat \ {0} /\ a <= t - 1 /\ t - 1 \in Nat
        /\ \A i \in a..(t - 1) : price[i] = c
    BY <1>1, <1>3
  <2> HIDE DEF a
  <2>2. /\ Len(s) = t - 1 - a + 1
        /\ \A i \in 1..(t - 1 - a + 1) : s[i] = price[a + i - 1]
    BY <2>1, SubSeqProperties
  <2> HIDE DEF s
  <2>3. Len(s) \in Nat \ {0} /\ \A i \in 1..Len(s) : s[i] = c
    <3>1. t - 1 - a + 1 \in Nat \ {0}
      BY <2>1
    <3>2. ASSUME NEW i \in 1..(t - 1 - a + 1) PROVE s[i] = c
      <4>1. a + i - 1 \in a..(t - 1)
        BY <2>1
      <4> QED
        BY <2>1, <2>2, <4>1
    <3> QED
      BY <2>2, <3>1, <3>2
  <2>4. TwiceMedian(s) = 2 * c
    BY <2>3, MedianOfEquals
  <2> QED
    BY <1>3, <2>4 DEF TrailingMedian, Rolling, s, a
<1> QED
  BY <1>2, <1>3

(* Hence of the prices that go on as they were before.                      *)
LEMMA SteadyPrices ==
    ASSUME Group(history), points \in Seq(Points), Len(points) # 0,
           LET n == Len(history.unit_price) IN
           \A t \in 1..n : t >= n - PriceWindow => history.unit_price[t] = history.unit_price[n]
    PROVE  [unit_price |-> last_price, price_trailing_median |-> price_trailing_median,
            promo_flag |-> FALSE] = PriceFeatures(PricePath, Len(PricePath))
<1> DEFINE h == history.unit_price
           n == Len(h)
           m == Len(points)
           c == h[n]
           more == [k \in 1..m |-> Last(h)]
           path == h \o more
<1>1. n \in Nat \ {0} /\ m \in Nat \ {0} /\ h \in Seq(Int) /\ c \in Int /\ Last(h) = c
  BY DEF Group, Last
<1>2. PriceWindow \in Nat \ {0}
  BY ForecastAssumption
<1>3. \A t \in 1..n : t >= n - PriceWindow => h[t] = c
  OBVIOUS
<1> HIDE DEF h, n, m, c
<1>4. more \in Seq(Int) /\ Len(more) = m /\ \A k \in 1..m : more[k] = c
  BY <1>1
<1> HIDE DEF more
<1>5. /\ path \in Seq(Int) /\ Len(path) = n + m
      /\ \A t \in 1..n : path[t] = h[t]
      /\ \A t \in (n + 1)..(n + m) : path[t] = c
  <2>1. Len(h) = n
    BY DEF n
  <2>2. /\ path \in Seq(Int) /\ Len(path) = n + m
        /\ \A t \in 1..(n + m) : path[t] = IF t <= n THEN h[t] ELSE more[t - n]
    BY <1>1, <1>4, <2>1, ConcatProperties
  <2> HIDE DEF path
  <2>3. ASSUME NEW t \in (n + 1)..(n + m) PROVE path[t] = c
    <3>1. t \in 1..(n + m) /\ ~(t <= n) /\ t - n \in 1..m
      BY <1>1
    <3> QED
      BY <1>4, <2>2, <3>1
  <2>4. ASSUME NEW t \in 1..n PROVE path[t] = h[t]
    <3>1. t \in 1..(n + m) /\ t <= n
      BY <1>1
    <3> QED
      BY <2>2, <3>1
  <2> QED
    BY <2>2, <2>3, <2>4
<1> HIDE DEF path
<1>6. \A t \in 1..(n + m) : t >= n - PriceWindow => path[t] = c
  <2> SUFFICES ASSUME NEW t \in 1..(n + m), t >= n - PriceWindow PROVE path[t] = c
    OBVIOUS
  <2>1. t \in 1..n \/ t \in (n + 1)..(n + m)
    BY <1>1
  <2> QED
    BY <1>3, <1>5, <2>1
<1>7. TrailingMedian(h, n) = 2 * c
  <2>1. Len(h) = n /\ n \in 1..n
    BY <1>1 DEF Group, n, h
  <2> QED
    BY <1>1, <1>3, <2>1, MedianOfSteadyPrices
<1>8. TrailingMedian(path, n + m) = 2 * c
  <2>1. \A t \in 1..(n + m) : t >= (n + m) - PriceWindow => path[t] = c
    <3> SUFFICES ASSUME NEW t \in 1..(n + m), t >= (n + m) - PriceWindow PROVE path[t] = c
      OBVIOUS
    <3>1. t >= n - PriceWindow
      BY <1>1, <1>2
    <3> QED
      BY <1>6, <3>1
  <2> QED
    <3>1. Len(path) = n + m /\ n + m \in 1..(n + m)
      BY <1>1, <1>5
    <3> QED
      BY <1>1, <1>5, <2>1, <3>1, MedianOfSteadyPrices
<1>9. path[n + m] = c /\ OnPromotion(c, 2 * c) = FALSE
  BY <1>1, <1>5 DEF OnPromotion
<1>10. PricePath = path
  BY DEF PricePath, path, more, h, m
<1>11. last_price = c /\ price_trailing_median = 2 * c
  BY <1>7 DEF last_price, price_trailing_median, c, h, n
<1> QED
  BY <1>5, <1>8, <1>9, <1>10, <1>11 DEF PriceFeatures

----------------------------------------------------------------------------
(* The invariant.                                                           *)

Dates == {d \in [day : 1..31, days_in_month : 28..31] : d.day <= d.days_in_month}

(* Training found days with all lags, so that every weekday is among those  *)
(* of a series.                                                             *)
Trained ==
    /\ pc \in {"series", "day", "done"} => DaysOfWeek <= NDays
    /\ series_results # <<>> => DaysOfWeek <= NDays

(* The series being forecast, or forecast last: the quantities are its      *)
(* sales and what was forecast.                                             *)
LoopInv ==
    /\ pc = "day" => /\ Current \in DOMAIN sold
                     /\ history = view(Current)
                     /\ Len(points) <= Horizon
                     /\ date \in Dates
    /\ pc = "day" \/ row # NaN => /\ Group(history)
                                  /\ points \in Seq(Points)
                                  /\ quantities = Demand

(* The features of the last of its days.                                    *)
RowInv ==
    row # NaN =>
        /\ Len(points) # 0
        /\ [lag |-> row.lag, rolling |-> row.rolling] = DemandFeatures(Demand, Len(Demand))
        /\ row.payday_proximity = payday_proximity(date)
        /\ row.unit_price = last_price
        /\ row.price_trailing_median = price_trailing_median
        /\ row.promo_flag = FALSE

(* What there is of the k-th series.                                        *)
Forecasted(k) ==
    LET r == series_results[k]
        q == view(k).quantity IN
    /\ r.first = NDays + 1 /\ Len(r.points) = Horizon
    /\ r.recommended_order_qty >=
          Sum([i \in 1..Lesser(lead_time_days, Horizon) |-> r.points[i].forecast])
    /\ r.low_confidence =>
          \A i \in 1..Horizon : r.points[i].forecast = Mean(by_dow(q, weekday(Len(q) + i)))

ResultsInv ==
    /\ series_results \in Seq(SeriesResults)
    /\ Len(series_results) <= Len(sold)
    /\ pc = "done" => Len(series_results) = Len(sold)
    /\ \A k \in 1..Len(series_results) : Forecasted(k)
    /\ n_low_confidence =
          Cardinality({k \in 1..Len(series_results) : series_results[k].low_confidence})

Calendar == last_date \in LastDates

ForecastInv ==
    /\ Sales /\ Calendar
    /\ pc \in {"view", "train", "series", "day", "done", "failed"}
    /\ Trained
    /\ LoopInv
    /\ RowInv
    /\ ResultsInv

(* A result more: the others are as they were, and it is counted if its     *)
(* forecast is to be distrusted.                                            *)
LEMMA AppendedResult ==
    ASSUME ResultsInv, Sales, NEW r \in SeriesResults, Current \in DOMAIN sold,
           series_results' = Append(series_results, r), sold' = sold,
           n_low_confidence' = n_low_confidence + IF r.low_confidence THEN 1 ELSE 0,
           pc' # "done",
           r.first = NDays + 1, Len(r.points) = Horizon,
           r.recommended_order_qty >=
              Sum([i \in 1..Lesser(lead_time_days, Horizon) |-> r.points[i].forecast]),
           r.low_confidence =>
              \A i \in 1..Horizon : r.points[i].forecast
                  = Mean(by_dow(view(Current).quantity,
                                weekday(Len(view(Current).quantity) + i)))
    PROVE  ResultsInv'
<1> DEFINE n == Len(series_results)
           low == {k \in 1..n : series_results[k].low_confidence}
           low_next == {k \in 1..(n + 1) : series_results'[k].low_confidence}
<1>1. series_results \in Seq(SeriesResults) /\ n \in Nat
  BY DEF ResultsInv
<1>2. /\ series_results' \in Seq(SeriesResults) /\ Len(series_results') = n + 1
      /\ \A k \in 1..n : series_results'[k] = series_results[k]
      /\ series_results'[n + 1] = r
  BY <1>1, AppendProperties
<1>3. n + 1 <= Len(sold) /\ Current = n + 1
  BY <1>1, SalesFacts DEF Current
<1>4. /\ NDays' = NDays
      /\ \A k : view(k)' = view(k)
  BY DEF NDays, view, date_range, FilledPrice, SaleDays
<1>5. ASSUME NEW k \in 1..(n + 1) PROVE Forecasted(k)'
  <2>1. CASE k \in 1..n
    <3>1. Forecasted(k)
      BY <2>1 DEF ResultsInv
    <3>2. series_results'[k] = series_results[k]
      BY <1>2, <2>1
    <3> QED
      BY <1>4, <3>1, <3>2 DEF Forecasted
  <2>2. CASE k = n + 1
    BY <1>2, <1>3, <1>4, <2>2 DEF Forecasted
  <2> QED
    BY <1>1, <2>1, <2>2
<1>6. n_low_confidence' = Cardinality(low_next)
  <2>1. low_next = IF r.low_confidence THEN low \cup {n + 1} ELSE low
    BY <1>1, <1>2
  <2>2. IsFiniteSet(low) /\ n + 1 \notin low
    <3>1. IsFiniteSet(1..n) /\ low \in SUBSET (1..n)
      BY <1>1, UpTo
    <3>2. IsFiniteSet(low)
      BY <3>1, FS_Subset
    <3> QED
      BY <1>1, <3>2
  <2>3. Cardinality(low \cup {n + 1}) = Cardinality(low) + 1 /\ Cardinality(low) \in Nat
    BY <2>2, FS_AddElement, FS_CardinalityType
  <2>4. n_low_confidence = Cardinality(low)
    BY DEF ResultsInv
  <2> HIDE DEF low, low_next
  <2> QED
    BY <2>1, <2>3, <2>4
<1> QED
  BY <1>1, <1>2, <1>3, <1>5, <1>6 DEF ResultsInv

(* Every step keeps the invariant.                                          *)
LEMMA ForecastInductive ==
    /\ ForecastInit => ForecastInv
    /\ ForecastInv /\ [ForecastNext]_forecastVars => ForecastInv'
<1>1. ASSUME ForecastInit PROVE ForecastInv
  <2>1. Sales
    <3>1. PICK n \in 1..MaxDays, m \in 0..MaxSeries :
             sold \in {f \in [1..m -> [1..n -> Totals \cup {NaN}]] :
                          /\ \A k \in 1..m : \E t \in 1..n : f[k][t] # NaN
                          /\ Cardinality({x \in (1..m) \X (1..n) : f[x[1]][x[2]] # NaN})
                                 <= MaxSaleDays}
      BY <1>1 DEF ForecastInit
    <3>2. n \in Nat \ {0} /\ m \in Nat
      BY ForecastRunAssumption
    <3> QED
      BY <3>1, <3>2 DEF Sales
  <2>2. Trained /\ LoopInv /\ RowInv
    BY <1>1 DEF ForecastInit, Trained, LoopInv, RowInv
  <2>3. ResultsInv
    <3>1. series_results = <<>> /\ n_low_confidence = 0 /\ pc = "view"
      BY <1>1 DEF ForecastInit
    <3>2. Len(sold) \in Nat
      BY <2>1, SalesFacts
    <3>3. {k \in 1..Len(series_results) : series_results[k].low_confidence} = {}
      BY <3>1
    <3>4. series_results \in Seq(SeriesResults) /\ Len(series_results) = 0
      BY <3>1
    <3> QED
      BY <3>1, <3>2, <3>3, <3>4, FS_EmptySet DEF ResultsInv
  <2> QED
    BY <1>1, <2>1, <2>2, <2>3 DEF ForecastInit, ForecastInv, Calendar
<1>2. ASSUME ForecastInv, [ForecastNext]_forecastVars PROVE ForecastInv'
  <2> USE <1>2 DEF ForecastInv
  <2>1. sold' = sold /\ Sales' /\ Calendar'
    <3>1. sold' = sold /\ last_date' = last_date
      BY DEF ForecastNext, forecastVars, BuildView, Train, SeasonalNaive, StartRecursion,
             RecursionStep, EndRecursion, Return
    <3>2. Sales /\ Calendar
      OBVIOUS
    <3>3. Sales'
      BY <3>1, <3>2 DEF Sales
    <3> QED
      BY <3>1, <3>2, <3>3 DEF Calendar
  <2>2. NDays' = NDays /\ \A k : view(k)' = view(k)
    BY <2>1 DEF NDays, view, date_range, FilledPrice, SaleDays
  <2>3. CASE UNCHANGED forecastVars
    <3>1. UNCHANGED <<history, quantities, date, row, points, sold, last_date,
                      series_results, n_low_confidence, pc>>
      BY <2>3 DEF forecastVars, seriesVars
    <3>2. Trained' /\ LoopInv'
      BY <2>2, <3>1 DEF Trained, LoopInv, Current, Demand
    <3>3. RowInv'
      BY <3>1 DEF RowInv, Demand, last_price, price_trailing_median
    <3>4. ResultsInv'
      BY <2>2, <3>1 DEF ResultsInv, Forecasted
    <3> QED
      BY <2>1, <3>1, <3>2, <3>3, <3>4
  <2>4. ASSUME UNCHANGED <<seriesVars, series_results, n_low_confidence>>,
               pc \notin {"day", "done"}, pc' \notin {"day", "done"},
               pc' \in {"view", "train", "series", "day", "done", "failed"},
               pc' = "series" => DaysOfWeek <= NDays
        PROVE  ForecastInv'
    <3>1. UNCHANGED <<history, quantities, date, row, points, sold,
                      series_results, n_low_confidence>>
      BY <2>1, <2>4 DEF seriesVars
    <3>2. Trained'
      BY <2>2, <2>4 DEF Trained
    <3>3. LoopInv'
      BY <2>4, <3>1 DEF LoopInv, Demand
    <3>4. RowInv'
      BY <3>1 DEF RowInv, Demand, last_price, price_trailing_median
    <3>5. ResultsInv'
      BY <2>2, <2>4, <3>1 DEF ResultsInv, Forecasted
    <3> QED
      BY <2>1, <2>4, <3>2, <3>3, <3>4, <3>5
  <2>5. CASE BuildView
    <3>1. UNCHANGED <<seriesVars, series_results, n_low_confidence>> /\ pc = "view"
          /\ pc' \in {"failed", "train"}
      BY <2>5 DEF BuildView, Goto
    <3> QED
      BY <2>4, <3>1
  <2>6. CASE Train
    <3>1. UNCHANGED <<seriesVars, series_results, n_low_confidence>> /\ pc = "train"
          /\ pc' = IF train_df = {} THEN "failed" ELSE "series"
      BY <2>6 DEF Train, Goto
    <3>2. ASSUME train_df # {} PROVE DaysOfWeek <= NDays
      <4>1. PICK k \in DOMAIN sold : date_range(k) \ 1..MaxLag # {}
        BY <3>2 DEF train_df
      <4>2. NDays \in Nat /\ MaxLag \in Nat /\ DaysOfWeek \in Nat /\ DaysOfWeek <= MaxLag
        BY SalesFacts, LongestLag, DaysOfTheWeek
      <4> QED
        BY <4>1, <4>2 DEF date_range
    <3> QED
      BY <2>4, <3>1, <3>2
  <2>7. CASE SeasonalNaive
    <3>1. /\ pc = "series" /\ pc' = pc /\ Current \in DOMAIN sold
          /\ n_low_confidence' = n_low_confidence + 1
          /\ UNCHANGED seriesVars
      BY <2>7 DEF SeasonalNaive
    <3>2. PICK its_points \in SeasonalNaivePoints(view(Current).quantity) :
             series_results' = Append(series_results,
                 SeriesForecast(Len(view(Current).quantity) + 1, its_points, TRUE))
      BY <2>7 DEF SeasonalNaive
    <3> DEFINE q == view(Current).quantity
               r == SeriesForecast(Len(q) + 1, its_points, TRUE)
    <3>3. q \in Seq(Nat) /\ Len(q) = NDays /\ NDays \in Nat \ {0}
      BY <3>1, Views
    <3>4. DaysOfWeek <= Len(q)
      BY <3>1, <3>3 DEF Trained
    <3>5. /\ its_points \in Seq(Points) /\ Len(its_points) = Horizon
          /\ \A i \in 1..Horizon :
                its_points[i].forecast = Mean(by_dow(q, weekday(Len(q) + i)))
      <4> HIDE DEF q
      <4>1. its_points \in SeasonalNaivePoints(q)
        BY <3>2 DEF q
      <4> QED
        BY <3>3, <3>4, <4>1, PointsOfTheFallback
    <3>6. /\ r \in SeriesResults
          /\ r.first = Len(q) + 1 /\ r.points = its_points /\ r.low_confidence = TRUE
          /\ r.recommended_order_qty >=
                Sum([k \in 1..Lesser(lead_time_days, Horizon) |-> its_points[k].forecast])
      <4> HIDE DEF q
      <4>1. Len(q) + 1 \in Nat
        BY <3>3
      <4> QED
        BY <3>5, <4>1, Orders
    <3> HIDE DEF r
    <3>7. ResultsInv'
      <4>1. n_low_confidence' = n_low_confidence + IF r.low_confidence THEN 1 ELSE 0
        BY <3>1, <3>6
      <4>2. series_results' = Append(series_results, r) /\ pc' # "done"
        BY <3>1, <3>2 DEF r
      <4> QED
        BY <2>1, <3>1, <3>3, <3>5, <3>6, <4>1, <4>2, AppendedResult
    <3>8. Trained'
      BY <2>2, <3>1 DEF Trained
    <3>9. LoopInv' /\ RowInv'
      BY <3>1 DEF LoopInv, RowInv, Demand, last_price, price_trailing_median, seriesVars
    <3> QED
      BY <2>1, <3>1, <3>7, <3>8, <3>9
  <2>8. CASE StartRecursion
    <3>1. /\ pc = "series" /\ pc' = "day" /\ Current \in DOMAIN sold
          /\ UNCHANGED <<series_results, n_low_confidence>>
          /\ history' = view(Current) /\ quantities' = view(Current).quantity
          /\ date' = last_date /\ row' = NaN /\ points' = <<>>
      BY <2>8 DEF StartRecursion, StartSeries, Goto
    <3>2. ResultsInv'
      BY <2>1, <2>2, <3>1 DEF ResultsInv, Forecasted
    <3>3. RowInv'
      BY <3>1 DEF RowInv
    <3>4. Trained'
      BY <2>2, <3>1 DEF Trained
    <3>5. LoopInv'
      <4> DEFINE g == view(Current)
      <4>1. Current' = Current /\ history' = g
        BY <3>1 DEF Current
      <4>2. Group(g)
        BY <3>1, Views DEF Group
      <4>3. last_date \in Dates /\ Horizon \in Nat
        <5>1. last_date \in LastDates
          BY DEF Calendar
        <5> QED
          BY <5>1, ForecastAssumption, ForecastRunAssumption DEF Dates
      <4>4. Demand' = g.quantity
        <5> HIDE DEF g
        <5>1. Demand' = g.quantity \o [k \in 1..Len(points') |-> points'[k].forecast]
          BY <4>1 DEF Demand
        <5>2. [k \in 1..Len(points') |-> points'[k].forecast] = <<>>
          BY <3>1
        <5>3. g.quantity \in Seq(Nat)
          BY <4>2 DEF Group
        <5> QED
          BY <5>1, <5>2, <5>3
      <4>5. points' \in Seq(Points) /\ Len(points') = 0
        BY <3>1
      <4>6. g = view(Current)'
        BY <2>2, <4>1
      <4> HIDE DEF g
      <4> QED
        BY <2>1, <3>1, <4>1, <4>2, <4>3, <4>4, <4>5, <4>6 DEF LoopInv, g
    <3> QED
      BY <2>1, <3>1, <3>2, <3>3, <3>4, <3>5
  <2>9. CASE RecursionStep
    <3>1. PICK prediction \in Predictions, q_preds \in QuantilePredictions, d \in NextDate(date) :
             /\ Len(points) < Horizon
             /\ row' = Features(d)
             /\ points' = Append(points, Point(Clip(prediction), q_preds))
             /\ quantities' = Append(quantities, Clip(prediction))
             /\ date' = d
             /\ history' = history
      BY <2>9 DEF RecursionStep, ForecastDay, FedBack
    <3>2. pc = "day" /\ UNCHANGED <<series_results, n_low_confidence, pc>>
      BY <2>9 DEF RecursionStep
    <3> DEFINE x == Clip(prediction)
               n == Len(points)
               s == history.quantity
               f == [k \in 1..n |-> points[k].forecast]
    <3>3. /\ Group(history) /\ points \in Seq(Points) /\ quantities = s \o f
          /\ n \in Nat /\ s \in Seq(Nat) /\ f \in Seq(Nat) /\ Len(f) = n
      <4>1. Group(history) /\ points \in Seq(Points) /\ quantities = Demand
        BY <3>2 DEF LoopInv
      <4>2. n \in Nat /\ \A k \in 1..n : points[k].forecast \in Nat
        BY <4>1 DEF Points
      <4>3. f \in Seq(Nat) /\ Len(f) = n
        BY <4>2
      <4> QED
        BY <4>1, <4>2, <4>3 DEF Group, Demand
    <3>4. x \in Nat /\ Point(x, q_preds) \in Points /\ Point(x, q_preds).forecast = x
      BY <3>1, PointsOfModels
    <3> HIDE DEF x
    <3>5. /\ points' \in Seq(Points) /\ Len(points') = n + 1
          /\ \A k \in 1..n : points'[k] = points[k]
          /\ points'[n + 1].forecast = x
      BY <3>1, <3>3, <3>4, AppendProperties DEF x
    <3>6. [k \in 1..(n + 1) |-> points'[k].forecast] = Append(f, x)
      <4>1. /\ Append(f, x) \in Seq(Nat) /\ Len(Append(f, x)) = n + 1
            /\ \A k \in 1..n : Append(f, x)[k] = points[k].forecast
            /\ Append(f, x)[n + 1] = x
        BY <3>3, <3>4, AppendProperties
      <4> DEFINE g == [k \in 1..(n + 1) |-> points'[k].forecast]
      <4>2. g \in Seq(Nat) /\ Len(g) = n + 1
        BY <3>3, <3>5 DEF Points
      <4>3. \A k \in 1..(n + 1) : g[k] = Append(f, x)[k]
        BY <3>3, <3>5, <4>1
      <4> HIDE DEF g, f
      <4>4. g = Append(f, x)
        BY <4>1, <4>2, <4>3, SeqEqual
      <4> QED
        BY <4>4 DEF g
    <3>7. Demand' = quantities' /\ quantities' = Append(quantities, x)
      <4>1. Demand' = s \o Append(f, x)
        BY <3>1, <3>5, <3>6 DEF Demand
      <4> HIDE DEF f, s
      <4>2. s \o Append(f, x) = Append(s \o f, x)
        BY <3>3, <3>4
      <4> QED
        BY <3>1, <3>3, <4>1, <4>2 DEF x
    <3>8. quantities \in Seq(Nat) /\ Len(quantities') = Len(quantities) + 1
      <4>1. quantities \in Seq(Nat)
        BY <3>3, ConcatProperties
      <4> QED
        BY <3>4, <3>7, <4>1, AppendProperties
    <3>9. d \in Dates
      <4>1. date \in Dates /\ MonthLengths \subseteq 28..31
        BY <3>2, ForecastAssumption DEF LoopInv
      <4>2. CASE date.day < date.days_in_month
        <5>1. d = [date EXCEPT !.day = @ + 1]
          BY <3>1, <4>2 DEF NextDate
        <5>2. /\ date \in [day : 1..31, days_in_month : 28..31]
              /\ date.day + 1 \in 1..31 /\ date.day + 1 <= date.days_in_month
          BY <4>1, <4>2 DEF Dates
        <5> QED
          BY <5>1, <5>2 DEF Dates
      <4>3. CASE ~(date.day < date.days_in_month)
        BY <3>1, <4>1, <4>3 DEF NextDate, Dates
      <4> QED
        BY <4>2, <4>3
    <3>10. Features(d).payday_proximity = payday_proximity(d)
      <4> DEFINE a == d.day
                 b == Distance(d.day, 15)
                 c == d.days_in_month - d.day
      <4>1. a \in Int /\ b \in Int /\ c \in Int
        BY <3>9 DEF Dates, Distance
      <4>2. Features(d).payday_proximity = Min({a, b, c})
        BY DEF Features
      <4>3. payday_proximity(d) = Lesser(Lesser(a, b), c)
        BY DEF payday_proximity
      <4> HIDE DEF a, b, c
      <4>4. Min({a, b, c}) \in {a, b, c} /\ \A y \in {a, b, c} : Min({a, b, c}) <= y
        <5>1. IsFiniteSet({a, b, c})
          <6>1. IsFiniteSet({a} \cup {b})
            BY FS_Singleton, FS_AddElement
          <6>2. IsFiniteSet(({a} \cup {b}) \cup {c})
            BY <6>1, FS_AddElement
          <6>3. ({a} \cup {b}) \cup {c} = {a, b, c}
            OBVIOUS
          <6> QED
            BY <6>2, <6>3
        <5>2. {a, b, c} \in SUBSET Int /\ {a, b, c} # {}
          BY <4>1
        <5> QED
          BY <5>1, <5>2, Extremes
      <4> QED
        BY <4>1, <4>2, <4>3, <4>4 DEF Lesser
    <3>11. RowInv'
      <4>1. [lag |-> Features(d).lag, rolling |-> Features(d).rolling]
               = DemandFeatures(Demand', Len(Demand'))
        BY <3>4, <3>7, <3>8, DemandOfTheNextDay
      <4>2. /\ Features(d).unit_price = last_price
            /\ Features(d).price_trailing_median = price_trailing_median
            /\ Features(d).promo_flag = FALSE
        BY DEF Features
      <4>3. last_price' = last_price /\ price_trailing_median' = price_trailing_median
        BY <3>1 DEF last_price, price_trailing_median
      <4>4. Len(points') # 0
        BY <3>3, <3>5
      <4>5. payday_proximity(date)' = payday_proximity(d)
        BY <3>1 DEF payday_proximity
      <4> QED
        BY <3>1, <3>10, <4>1, <4>2, <4>3, <4>4, <4>5 DEF RowInv, DemandFeatures
    <3>12. LoopInv'
      <4>1. Current' = Current /\ Current \in DOMAIN sold /\ history = view(Current)
        BY <3>2 DEF Current, LoopInv
      <4>2. Len(points') <= Horizon
        BY <3>1, <3>3, <3>5, ForecastAssumption
      <4>3. Group(history')
        BY <3>1, <3>3
      <4>4. history' = view(Current)'
        BY <2>2, <3>1, <4>1
      <4> QED
        BY <2>1, <3>1, <3>5, <3>7, <3>9, <4>1, <4>2, <4>3, <4>4 DEF LoopInv
    <3>13. ResultsInv'
      BY <2>1, <2>2, <3>2 DEF ResultsInv, Forecasted
    <3>14. Trained'
      BY <2>2, <3>2 DEF Trained
    <3> QED
      BY <2>1, <3>2, <3>11, <3>12, <3>13, <3>14
  <2>10. CASE EndRecursion
    <3>1. /\ pc = "day" /\ pc' = "series" /\ Len(points) = Horizon
          /\ series_results' = Append(series_results,
                 SeriesForecast(Len(history.quantity) + 1, points, FALSE))
          /\ UNCHANGED <<seriesVars, n_low_confidence>>
      BY <2>10 DEF EndRecursion, Goto
    <3>2. /\ Current \in DOMAIN sold /\ history = view(Current)
          /\ points \in Seq(Points)
      BY <3>1 DEF LoopInv
    <3> DEFINE r == SeriesForecast(Len(history.quantity) + 1, points, FALSE)
    <3>3. Len(history.quantity) = NDays /\ NDays \in Nat
      BY <3>2, Views
    <3>4. /\ r \in SeriesResults
          /\ r.first = NDays + 1 /\ r.points = points /\ r.low_confidence = FALSE
          /\ r.recommended_order_qty >=
                Sum([k \in 1..Lesser(lead_time_days, Horizon) |-> points[k].forecast])
      <4> DEFINE first == Len(history.quantity) + 1
      <4>1. first \in Nat /\ first = NDays + 1
        BY <3>3
      <4>2. r = SeriesForecast(first, points, FALSE)
        OBVIOUS
      <4> HIDE DEF r, first
      <4> QED
        BY <3>1, <3>2, <4>1, <4>2, Orders
    <3>5. n_low_confidence' = n_low_confidence + IF r.low_confidence THEN 1 ELSE 0
      <4>1. n_low_confidence \in Nat
        <5>1. Len(series_results) \in Nat
          BY DEF ResultsInv
        <5>2. IsFiniteSet({k \in 1..Len(series_results) : series_results[k].low_confidence})
          BY <5>1, UpTo, FS_Subset
        <5> QED
          BY <5>2, FS_CardinalityType DEF ResultsInv
      <4> HIDE DEF r
      <4> QED
        BY <3>1, <3>4, <4>1
    <3> HIDE DEF r
    <3>6. ResultsInv'
      <4>1. series_results' = Append(series_results, r) /\ pc' # "done"
        BY <3>1 DEF r
      <4> QED
        BY <2>1, <3>1, <3>2, <3>4, <3>5, <4>1, AppendedResult
    <3>7. UNCHANGED <<history, quantities, date, row, points>>
      BY <3>1 DEF seriesVars
    <3>8. Trained'
      BY <2>2, <3>1 DEF Trained
    <3>9. LoopInv' /\ RowInv'
      BY <3>1, <3>7 DEF LoopInv, RowInv, Demand, last_price, price_trailing_median
    <3> QED
      BY <2>1, <3>1, <3>6, <3>8, <3>9
  <2>11. CASE Return
    <3>1. /\ pc = "series" /\ pc' = "done" /\ Current \notin DOMAIN sold
          /\ UNCHANGED <<seriesVars, series_results, n_low_confidence>>
      BY <2>11 DEF Return, Goto
    <3>2. UNCHANGED <<history, quantities, date, row, points>>
      BY <3>1 DEF seriesVars
    <3>3. Trained' /\ LoopInv' /\ RowInv'
      BY <2>2, <3>1, <3>2
      DEF Trained, LoopInv, RowInv, Demand, last_price, price_trailing_median
    <3>4. Len(series_results) = Len(sold)
      <4>1. /\ Len(sold) \in Nat /\ DOMAIN sold = 1..Len(sold)
            /\ Len(series_results) \in Nat /\ Len(series_results) <= Len(sold)
        BY SalesFacts DEF ResultsInv
      <4> QED
        BY <3>1, <4>1 DEF Current
    <3>5. ResultsInv'
      BY <2>1, <2>2, <3>1, <3>4 DEF ResultsInv, Forecasted
    <3> QED
      BY <2>1, <3>1, <3>3, <3>5
  <2> QED
    BY <2>3, <2>5, <2>6, <2>7, <2>8, <2>9, <2>10, <2>11 DEF ForecastNext
<1> QED
  BY <1>1, <1>2

(* So it always holds.                                                      *)
LEMMA ForecastInvariant == ForecastSpec => []ForecastInv
BY ForecastInductive, PTL DEF ForecastSpec

(* The features the models are asked with are those they were trained with. *)
THEOREM FeaturesAsTrained == ForecastSpec => []FeaturesMatchTraining
<1>1. ForecastInv => FeaturesMatchTraining
  BY DEF ForecastInv, RowInv, FeaturesMatchTraining
<1> QED
  BY <1>1, ForecastInvariant, PTL

(* So are the features of prices that had settled.                          *)
THEOREM PricesAsTrained == ForecastSpec => []SteadyPricesMatchTraining
<1>1. ASSUME ForecastInv PROVE SteadyPricesMatchTraining
  <2> SUFFICES ASSUME row # NaN,
                      LET n == Len(history.unit_price) IN
                      \A t \in 1..n : t >= n - PriceWindow =>
                          history.unit_price[t] = history.unit_price[n]
               PROVE  [unit_price |-> row.unit_price,
                       price_trailing_median |-> row.price_trailing_median,
                       promo_flag |-> row.promo_flag] = PriceFeatures(PricePath, Len(PricePath))
    BY DEF SteadyPricesMatchTraining
  <2>1. Group(history) /\ points \in Seq(Points) /\ Len(points) # 0
    BY <1>1 DEF ForecastInv, LoopInv, RowInv
  <2>2. [unit_price |-> last_price, price_trailing_median |-> price_trailing_median,
         promo_flag |-> FALSE] = PriceFeatures(PricePath, Len(PricePath))
    BY <2>1, SteadyPrices
  <2> QED
    BY <1>1, <2>2 DEF ForecastInv, RowInv
<1> QED
  BY <1>1, ForecastInvariant, PTL

(* All series are forecast for the same days, and those to distrust are     *)
(* counted.                                                                 *)
THEOREM SeriesAligned == ForecastSpec => []SeriesAreAligned
<1>1. ASSUME ForecastInv PROVE SeriesAreAligned
  <2>1. /\ DOMAIN series_results = 1..Len(series_results)
        /\ \A k \in 1..Len(series_results) : Forecasted(k)
    BY <1>1 DEF ForecastInv, ResultsInv
  <2>2. \A r \in Results : r.first = NDays + 1 /\ Len(r.points) = Horizon
    BY <2>1 DEF Results, Forecasted
  <2> QED
    BY <1>1, <2>1, <2>2 DEF ForecastInv, ResultsInv, SeriesAreAligned
<1> QED
  BY <1>1, ForecastInvariant, PTL

(* What is recommended to be ordered covers what is forecast.               *)
THEOREM OrdersCover == ForecastSpec => []OrdersCoverForecasts
<1>1. ASSUME ForecastInv PROVE OrdersCoverForecasts
  <2> SUFFICES ASSUME NEW j \in DOMAIN series_results
               PROVE  LET r == series_results[j] IN
                      /\ \A k \in DOMAIN r.points :
                            /\ 0 <= r.points[k].lower
                            /\ r.points[k].lower <= r.points[k].forecast
                            /\ r.points[k].forecast <= r.points[k].upper
                      /\ r.recommended_order_qty >=
                            Sum([k \in 1..Lesser(lead_time_days, Horizon) |-> r.points[k].forecast])
    BY DEF OrdersCoverForecasts, Results
  <2>1. j \in 1..Len(series_results) /\ series_results[j] \in SeriesResults /\ Forecasted(j)
    BY <1>1 DEF ForecastInv, ResultsInv
  <2>2. series_results[j].points \in Seq(Points)
    BY <2>1 DEF SeriesResults
  <2>3. \A k \in DOMAIN series_results[j].points : series_results[j].points[k] \in Points
    BY <2>2
  <2> QED
    BY <2>1, <2>3 DEF Forecasted, Points
<1> QED
  BY <1>1, ForecastInvariant, PTL

(* The fallback continues a week that has always been the same.             *)
THEOREM WeeksContinue == ForecastSpec => []WeeklyPatternsContinue
<1>1. ASSUME ForecastInv PROVE WeeklyPatternsContinue
  <2> DEFINE q(k) == view(k).quantity
  <2> SUFFICES ASSUME NEW k \in DOMAIN series_results, series_results[k].low_confidence,
                      \A t \in 1..(Len(q(k)) - DaysOfWeek) : q(k)[t] = q(k)[t + DaysOfWeek],
                      NEW i \in 1..Horizon, NEW t \in 1..Len(q(k)),
                      weekday(t) = weekday(Len(q(k)) + i)
               PROVE  series_results[k].points[i].forecast = q(k)[t]
    BY DEF WeeklyPatternsContinue
  <2>1. /\ k \in 1..Len(series_results) /\ Len(series_results) <= Len(sold) /\ Forecasted(k)
        /\ Len(series_results) \in Nat
    BY <1>1 DEF ForecastInv, ResultsInv
  <2>2. k \in DOMAIN sold
    BY <1>1, <2>1, SalesFacts DEF ForecastInv
  <2>3. q(k) \in Seq(Nat) /\ Len(q(k)) = NDays /\ NDays \in Nat \ {0}
    BY <1>1, <2>2, Views DEF ForecastInv
  <2>4. DaysOfWeek <= Len(q(k))
    BY <1>1, <2>1, <2>3 DEF ForecastInv, Trained
  <2>5. series_results[k].points[i].forecast = Mean(by_dow(q(k), weekday(Len(q(k)) + i)))
    BY <2>1 DEF Forecasted
  <2>6. Len(q(k)) + i \in Nat \ {0}
    BY <2>3
  <2> HIDE DEF q
  <2> QED
    BY <2>3, <2>4, <2>5, <2>6, Means
<1> QED
  BY <1>1, ForecastInvariant, PTL

=============================================================================
