----------------------------- MODULE MCForecast -----------------------------
(***************************************************************************)
(* Constants of the model-checking run of ForecastRun: the longest lag is   *)
(* as long as the longest window, and a series is a cold start if it is     *)
(* shorter, as in the code; the days that are forecast cross the end of a   *)
(* month.                                                                   *)
(***************************************************************************)
EXTENDS ForecastRun

MCLastDates == {[day |-> 29, days_in_month |-> 30]}
MCPredictions == {-1, 2}
MCTotals == {[quantity |-> 2, line_total |-> 2 * price] : price \in {1, 2}}
=============================================================================
