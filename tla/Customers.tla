----------------------------- MODULE Customers -----------------------------
(***************************************************************************)
(* model_customers (ml/customer/clv.py) around the two fitted models: which *)
(* of two estimates of a customer's lifetime value is used, how customers   *)
(* are split into bands by it (segment_customers, ml/customer/isovalue.py), *)
(* what is said of the bands, and whether the worker can store the result.  *)
(*                                                                         *)
(* Values are small integers and what a fitted model predicts is any of     *)
(* them, or NaN where it may be; a band is the number of its label, from    *)
(* the lowest value up.  The quantiles of pandas are computed exactly here, *)
(* without rounding.  Customers are numbered in the order of the records.   *)
(***************************************************************************)
EXTENDS Integers, FiniteSets, Functions

CONSTANTS
    MaxCustomers,           \* bound: customers of a dataset
    Frequencies,            \* bound: repeat purchases of a customer
    NumbersOfSegments,      \* values of params.n_value_segments
    Values,                 \* bound: predicted lifetime values
    Purchases,              \* bound: predicted purchases
    RECORDS_PREVIEW_LIMIT,  \* records stored in the row (100)
    NaN                     \* not a number

ASSUME CustomersAssumption ==
    /\ MaxCustomers \in Nat
    /\ Frequencies \subseteq Nat
    /\ NumbersOfSegments \subseteq Nat \ {0, 1}
    /\ Values \subseteq Int
    /\ Purchases \subseteq Nat
    /\ RECORDS_PREVIEW_LIMIT \in Nat
    /\ NaN \notin Int

VARIABLES
    frequency,          \* repeat purchases of each customer
    spending,           \* who has spent on them: monetary_value > 0
    fading,             \* prob_alive is below AT_RISK_PROB_ALIVE_THRESHOLD
    n_value_segments,
    gamma_gamma_corr,
    clv,
    value_segment,      \* the band of each customer, 0 for "nan"
    at_risk,            \* is_at_risk_high_value
    segment_summary,
    pc                  \* "fit", "segment", "flag", "summarize", "store",
                        \* "stored", "rejected" (by the schema), "error"

customerVars == <<frequency, spending, fading, n_value_segments, gamma_gamma_corr, clv,
                  value_segment, at_risk, segment_summary, pc>>

Customer == DOMAIN frequency
n_customers == Cardinality(Customer)

RepeatCustomers == {c \in Customer : frequency[c] > 0}

CustomersInit ==
    /\ \E n \in 0..MaxCustomers : frequency \in [1..n -> Frequencies]
    /\ spending \in SUBSET RepeatCustomers
    /\ fading \in SUBSET Customer
    /\ n_value_segments \in NumbersOfSegments
    /\ gamma_gamma_corr = 0 /\ clv = <<>> /\ value_segment = <<>>
    /\ at_risk = {} /\ segment_summary = <<>>
    /\ pc = "fit"

(* Repeat customers with positive spend: an item may be free.               *)
Eligible == RepeatCustomers \cap spending

Step(from, to) ==
    /\ pc = from /\ pc' = to
    /\ UNCHANGED <<frequency, spending, fading, n_value_segments>>

(* ValueError: no row has a customer_id.                                    *)
NoCustomers ==
    /\ Step("fit", "error")
    /\ Customer = {}
    /\ UNCHANGED <<gamma_gamma_corr, clv, value_segment, at_risk, segment_summary>>

(* Pearson's coefficient has no value if either of the two is the same for  *)
(* all eligible customers; the monetary values may be.                      *)
Correlations ==
    IF Cardinality({frequency[c] : c \in Eligible}) = 1 THEN {NaN} ELSE {0, NaN}

(* The expectation of purchases is NaN for customers without repeat         *)
(* purchases if the fit is degenerate.  predicted_purchases has that floored*)
(* at 0; customer_lifetime_value asks the fitted model again.               *)
FitGammaGamma ==
    /\ Step("fit", "segment")
    /\ Cardinality(Eligible) >= 2
    /\ gamma_gamma_corr' \in Correlations
    /\ clv' \in [Customer -> Values \cup {NaN}]
    /\ \A c \in RepeatCustomers : clv'[c] # NaN
    /\ UNCHANGED <<value_segment, at_risk, segment_summary>>

(* Predicted purchases times the average basket, which is the same for all. *)
ApproximateValue ==
    /\ Step("fit", "segment")
    /\ Customer # {} /\ Cardinality(Eligible) < 2
    /\ \E predicted_purchases \in [Customer -> Purchases], avg_basket_value \in Values :
          /\ avg_basket_value >= 0
          /\ clv' = [c \in Customer |-> predicted_purchases[c] * avg_basket_value]
    /\ UNCHANGED <<gamma_gamma_corr, value_segment, at_risk, segment_summary>>

----------------------------------------------------------------------------
(* segment_customers                                                        *)

effective_n ==
    IF n_value_segments < n_customers THEN n_value_segments ELSE n_customers

Numbered == {c \in Customer : clv[c] # NaN}
n_ranks == Cardinality(Numbered)

(* Mutant: customers of equal value share a rank (method="max").            *)
SharedRank(c) == Cardinality({d \in Numbered : clv[d] <= clv[c]})

(* rank(method="first"): equal values in the order of the customers.        *)
Rank(c) ==
    Cardinality({d \in Numbered : clv[d] < clv[c] \/ (clv[d] = clv[c] /\ d <= c)})

(* Mutant: a rank on an edge is in the band above.                          *)
BandAbove(c) ==
    IF clv[c] = NaN THEN 0
    ELSE IF Rank(c) = n_ranks THEN effective_n
    ELSE ((Rank(c) - 1) * effective_n) \div (n_ranks - 1) + 1

(* qcut: the ranks from 1 up are cut at effective_n equal parts of their    *)
(* range, and a rank on an edge is in the band below.                       *)
Band(c) ==
    IF clv[c] = NaN THEN 0
    ELSE IF Rank(c) = 1 THEN 1
    ELSE ((Rank(c) - 1) * effective_n + n_ranks - 2) \div (n_ranks - 1)

(* There are two ranks to cut, or one customer: repeat customers have       *)
(* values, and if there are not two of them, everybody has one.             *)
segment_customers ==
    /\ Step("segment", "flag")
    /\ value_segment' = [c \in Customer |-> Band(c)]
    /\ UNCHANGED <<gamma_gamma_corr, clv, at_risk, segment_summary>>

----------------------------------------------------------------------------

InBand(k) == {c \in Customer : value_segment[c] = k}

top_segment == effective_n

FlagAtRisk ==
    /\ Step("flag", "summarize")
    /\ at_risk' = InBand(top_segment) \cap fading
    /\ UNCHANGED <<gamma_gamma_corr, clv, value_segment, segment_summary>>

TotalValue(customers) == SumFunctionOnSet(clv, customers \cap Numbered)

(* A fraction: the mean of those in the band who have a value, or 0.0 if    *)
(* nobody is in it.                                                         *)
Mean(band) ==
    IF band = {} THEN [sum |-> 0, of |-> 1]
    ELSE [sum |-> TotalValue(band), of |-> Cardinality(band \cap Numbered)]

(* Mutant: the last label is left out.                                      *)
AllButTop == 1..(effective_n - 1)

ordered_labels == 1..effective_n

Summarize ==
    /\ Step("summarize", "store")
    /\ segment_summary' = [k \in ordered_labels |->
                              [count |-> Cardinality(InBand(k)),
                               value |-> TotalValue(InBand(k)),
                               avg_clv |-> Mean(InBand(k))]]
    /\ UNCHANGED <<gamma_gamma_corr, clv, value_segment, at_risk>>

(* Mutant: the fields of the schema are `float | None`.                     *)
AnyFloat(x) == TRUE

(* to_jsonable makes null of NaN, which CustomerResultSchema has no place   *)
(* for.                                                                     *)
ValidFloat(x) == x # NaN

(* The result is checked with the first records only; the others are rows   *)
(* of the CSV artifact.                                                     *)
Acceptable ==
    /\ ValidFloat(gamma_gamma_corr)
    /\ \A c \in Customer : c <= RECORDS_PREVIEW_LIMIT => ValidFloat(clv[c])

(* The schema has other floats: the chance to be alive, the average         *)
(* purchase, the fitted parameters, the grid.  What they are is not         *)
(* modelled; one of them may be no number although these two are.           *)
Store ==
    /\ \E others \in BOOLEAN :
          \/ Step("store", "stored") /\ Acceptable /\ others
          \/ Step("store", "rejected") /\ ~(Acceptable /\ others)
    /\ UNCHANGED <<gamma_gamma_corr, clv, value_segment, at_risk, segment_summary>>

CustomersNext ==
    \/ NoCustomers
    \/ FitGammaGamma
    \/ ApproximateValue
    \/ segment_customers
    \/ FlagAtRisk
    \/ Summarize
    \/ Store

CustomersSpec == CustomersInit /\ [][CustomersNext]_customerVars

----------------------------------------------------------------------------

Segmented == pc \in {"flag", "summarize", "store", "stored", "rejected"}

(* Docstring of segment_customers: the bands are monotonic and of equal     *)
(* size even with many tied values: nobody is in a lower band than somebody *)
(* worth less, every customer with a value is in a band, no two sizes       *)
(* differ by more than one, and none is empty if everybody has a value.     *)
BandsAreMonotonicAndEven ==
    Segmented =>
        /\ \A c, d \in Numbered : clv[c] < clv[d] => value_segment[c] <= value_segment[d]
        /\ \A c \in Numbered : value_segment[c] \in 1..effective_n
        /\ \A k, l \in 1..effective_n :
              /\ Cardinality(InBand(k)) <= Cardinality(InBand(l)) + 1
              /\ Numbered = Customer => InBand(k) # {}

(* Fewer ranks than the top band is wide.                                   *)
LessThanTop(ranks) == ranks = 0 \/ ranks * effective_n < n_ranks - 1

(* The customers flagged as valuable and about to be lost are fading ones   *)
(* at the upper end of all customers by value, whatever the ties and        *)
(* whoever has no value: fewer are worth more than a band is wide, which is *)
(* one part in effective_n of the ranks.  And a fading customer is flagged  *)
(* if the others who are worth as much are fewer than that.                 *)
AtRiskAreTheMostValuable ==
    pc \in {"summarize", "store", "stored", "rejected"} =>
        \A c \in Customer :
            LET above == Cardinality({d \in Numbered : clv[d] > clv[c]})
                upto == Cardinality({d \in Numbered : clv[d] >= clv[c]}) IN
            /\ c \in at_risk => c \in Numbered \cap fading /\ LessThanTop(above)
            /\ c \in Numbered \cap fading /\ LessThanTop(upto - 1) => c \in at_risk

AtMost(a, b) == a.sum * b.of <= b.sum * a.of

(* The summary accounts for every customer who has a value and for all of   *)
(* the value.  The averages never fall from a band to a higher one, unless  *)
(* one of the two is empty, which is shown with an average of 0.0; and if   *)
(* everybody has a value there is no exception.                             *)
SummaryAddsUp ==
    pc = "store" =>
        LET bands == DOMAIN segment_summary
            inhabited == {k \in bands : segment_summary[k].count > 0} IN
        /\ SumFunction([k \in bands |-> segment_summary[k].count]) = n_ranks
        /\ SumFunction([k \in bands |-> segment_summary[k].value]) = TotalValue(Customer)
        /\ \A k, l \in IF Numbered = Customer THEN bands ELSE inhabited :
              k < l => AtMost(segment_summary[k].avg_clv, segment_summary[l].avg_clv)

(* What a stored result can hide.  Unless its records are truncated, the    *)
(* bands hold every customer; at most those beyond the preview are missing. *)
(* And where there are two customers to correlate purchases and spend of,   *)
(* what it says of their independence is about purchases that differ.       *)
StoredResultsAreWhole ==
    pc = "stored" =>
        LET counted == SumFunction([k \in DOMAIN segment_summary |-> segment_summary[k].count]) IN
        /\ n_customers <= RECORDS_PREVIEW_LIMIT => counted = n_customers
        /\ n_customers > RECORDS_PREVIEW_LIMIT => counted >= RECORDS_PREVIEW_LIMIT
        /\ \/ Cardinality(Eligible) < 2
           \/ \E c, d \in Eligible : frequency[c] # frequency[d]
=============================================================================
