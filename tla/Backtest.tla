------------------------------ MODULE Backtest ------------------------------
(***************************************************************************)
(* run_backtest (ml/forecasting/evaluate.py) up to the fitting of the       *)
(* model: which days are held out.  Every series covers every day of the    *)
(* data, and the days that have all lags are numbered 1 to days.            *)
(***************************************************************************)
EXTENDS Integers, FiniteSets

CONSTANTS
    MaxHorizon,         \* the largest params.horizon_days the API accepts
    backtest_windows,   \* ForecastParams.backtest_windows
    MaxDays             \* bound: days with all lags

ASSUME BacktestAssumption ==
    /\ MaxHorizon \in Nat \ {0}
    /\ backtest_windows \in Nat \ {0}
    /\ MaxDays \in Nat

VARIABLES
    days,           \* len(dates)
    horizon_days,
    test_size,
    reduced,        \* whether the size of the window was reduced
    stage           \* "size", "check", "split", and the ends "none", "fit"

backtestVars == <<days, horizon_days, test_size, reduced, stage>>

BacktestInit ==
    /\ days \in 0..MaxDays
    /\ horizon_days \in 1..MaxHorizon
    /\ test_size = 0
    /\ reduced = FALSE
    /\ stage = "size"

Goto(label) == stage' = label

(* No day has all lags.                                                     *)
NoHistory ==
    /\ stage = "size"
    /\ days = 0
    /\ Goto("none")
    /\ UNCHANGED <<days, horizon_days, test_size, reduced>>

Lesser(a, b) == IF a < b THEN a ELSE b
Greater(a, b) == IF a < b THEN b ELSE a

full == horizon_days * backtest_windows

(* Mutant: a day is not left to train on.                                   *)
up_to_all == Greater(Lesser(horizon_days, days), 1)
up_to_all_but_one == Greater(Lesser(horizon_days, days - 1), 1)

HoldOutWindows ==
    /\ stage = "size"
    /\ days > 0
    /\ days > full + 7
    /\ test_size' = full
    /\ Goto("check")
    /\ UNCHANGED <<days, horizon_days, reduced>>

HoldOutLess ==
    /\ stage = "size"
    /\ days > 0
    /\ days <= full + 7
    /\ test_size' = up_to_all_but_one
    /\ reduced' = TRUE
    /\ Goto("check")
    /\ UNCHANGED <<days, horizon_days>>

TooShort ==
    /\ stage = "check"
    /\ test_size <= 0 \/ test_size >= days
    /\ Goto("none")
    /\ UNCHANGED <<days, horizon_days, test_size, reduced>>

LongEnough ==
    /\ stage = "check"
    /\ ~(test_size <= 0 \/ test_size >= days)
    /\ Goto("split")
    /\ UNCHANGED <<days, horizon_days, test_size, reduced>>

(* dates[-test_size]                                                        *)
split_date == days + 1 - test_size
train == {d \in 1..days : d < split_date}
test == {d \in 1..days : d >= split_date}

Split ==
    /\ stage = "split"
    /\ Goto(IF train = {} \/ test = {} THEN "none" ELSE "fit")
    /\ UNCHANGED <<days, horizon_days, test_size, reduced>>

BacktestNext == NoHistory \/ HoldOutWindows \/ HoldOutLess \/ TooShort \/ LongEnough \/ Split

BacktestSpec == BacktestInit /\ [][BacktestNext]_backtestVars

(* Mutant: a part of a window does not count.                               *)
whole_windows == test_size \div horizon_days

(* The number of windows the metrics are said to be about.                  *)
n_windows == Greater(1, test_size \div horizon_days)

----------------------------------------------------------------------------

BacktestTypeOK ==
    /\ days \in 0..MaxDays
    /\ horizon_days \in 1..MaxHorizon
    /\ test_size \in IF stage = "size" \/ days = 0 THEN {0}
                     ELSE 1..full
    /\ reduced \in BOOLEAN
    /\ stage \in {"size", "check", "split", "none", "fit"}

(* There is a backtest exactly if two days have all lags: the reduced size  *)
(* is never one that leaves nothing to train on or to test.                 *)
TwoDaysAreEnough ==
    /\ stage = "fit" => days >= 2
    /\ stage = "none" => days < 2

(* The metrics are never said to be about more windows than were asked for, *)
(* nor about more than were held out, but that a part of one counts as one. *)
WindowsAreHeldOut ==
    stage = "fit" =>
        /\ n_windows \in 1..backtest_windows
        /\ n_windows * horizon_days > test_size => n_windows = 1 /\ test_size = days - 1
        /\ reduced => n_windows = 1
=============================================================================
