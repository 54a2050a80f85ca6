----------------------------- MODULE Validation -----------------------------
(***************************************************************************)
(* validate_transactions (ml/validation.py): the headers are read and given *)
(* their columns (Columns), and unless the file is rejected for them the    *)
(* rows go through a sequence of filters, each of which drops the rows that *)
(* have one defect and counts them under its name; what is left is          *)
(* deduplicated.  The report says what became of every row.  If two columns *)
(* have one name there is none: the first conversion of that column raises. *)
(*                                                                         *)
(* A row is its content after the conversions of the types; Defects says    *)
(* which filters would drop it.                                             *)
(***************************************************************************)
EXTENDS Columns, FiniteSets, Functions

CONSTANTS
    Contents,       \* the distinct rows
    Defects,        \* Defects[x]: the filters that would drop x
    MaxRows,        \* config.max_rows
    max_columns,    \* config.max_columns
    MaxLen          \* bound: rows of a file

(* The filters, in order.                                                   *)
Reasons == <<"missing_transaction_id", "missing_product_id", "invalid_date",
             "future_date", "invalid_quantity", "non_positive_quantity",
             "invalid_unit_price", "negative_unit_price">>

(* The column each filter converts and looks at, and those converted after  *)
(* the last.                                                                *)
ColumnOf == <<"transaction_id", "product_id", "date", "date", "quantity", "quantity",
              "unit_price", "unit_price">>

OPTIONAL_COLUMNS == {"customer_id", "category", "store_id"}

Reason == {Reasons[s] : s \in 1..Len(Reasons)}

(* What the conversions make of a row: what was not parsed compares as      *)
(* false, so it has no second defect of the same column.                    *)
Conversions ==
    /\ Defects \in [Contents -> SUBSET Reason]
    /\ \A x \in Contents :
          /\ ~({"invalid_date", "future_date"} \subseteq Defects[x])
          /\ ~({"invalid_quantity", "non_positive_quantity"} \subseteq Defects[x])
          /\ ~({"invalid_unit_price", "negative_unit_price"} \subseteq Defects[x])

ASSUME ValidationAssumption ==
    /\ Conversions
    /\ Canonical \subseteq {ColumnOf[s] : s \in 1..Len(ColumnOf)} \cup OPTIONAL_COLUMNS
    /\ MaxRows \in Nat /\ max_columns \in Nat
    /\ MaxLen \in Nat

VARIABLES
    rows,           \* the dataframe as it was read
    stage,          \* how many filters have run; at 0 headers are read
    out,            \* the rows that are left, by their index in rows
    dropped_by_reason,
    duplicates,     \* duplicate_rows_removed
    errors,         \* whether there are errors
    raised          \* an exception has ended it

validationVars ==
    <<columnVars, rows, stage, out, dropped_by_reason, duplicates, errors, raised>>

Filtered == Len(Reasons)        \* all filters have run
Done == Len(Reasons) + 1        \* the report is written

Index == 1..Len(rows)

ValidationInit ==
    /\ rows \in UNION {[1..n -> Contents] : n \in 0..MaxLen}
    /\ ColumnsInit
    /\ stage = 0
    /\ out = 1..Len(rows)
    /\ dropped_by_reason = [r \in {} |-> 0]
    /\ duplicates = 0
    /\ errors = FALSE
    /\ raised = FALSE

(* normalize_columns reads another header.                                  *)
ReadHeader ==
    /\ stage = 0 /\ ~raised
    /\ ColumnsNext
    /\ UNCHANGED <<rows, stage, out, dropped_by_reason, duplicates, errors, raised>>

(* Too many rows or columns, or a required column is missing.               *)
Rejected ==
    \/ Len(rows) > MaxRows
    \/ Len(columns) > max_columns
    \/ MissingRequired # {}

(* There are no more headers, and nothing else of the file is looked at.    *)
RejectFile ==
    /\ stage = 0 /\ ~raised
    /\ Rejected
    /\ out' = {}
    /\ errors' = TRUE
    /\ stage' = Done
    /\ UNCHANGED <<columnVars, rows, dropped_by_reason, duplicates, raised>>

Counted(reason) ==
    IF reason \in DOMAIN dropped_by_reason THEN dropped_by_reason[reason] ELSE 0

(* Mutant: the rows are counted in the whole file.                          *)
MaskOfAll(reason) == {i \in Index : reason \in Defects[rows[i]]}
Mask(reason) == {i \in out : reason \in Defects[rows[i]]}

Without(mask) == out \ mask

(* The next filter can be run: the file was not rejected.                   *)
Filtering == stage < Filtered /\ (stage = 0 => ~Rejected) /\ ~raised

(* _drop_mask: a reason nobody was dropped for is not in the report.        *)
DropMask ==
    LET reason == Reasons[stage + 1]
        mask == Mask(reason) IN
    /\ Filtering /\ ColumnOf[stage + 1] \notin Doubled
    /\ dropped_by_reason' =
          IF mask = {} THEN dropped_by_reason
          ELSE Extend(dropped_by_reason, reason, Counted(reason) + Cardinality(mask))
    /\ out' = Without(mask)
    /\ stage' = stage + 1
    /\ UNCHANGED <<columnVars, rows, duplicates, errors, raised>>

(* Mutant: all copies of a row that occurs twice are removed (keep=False).  *)
OnlyCopies == {i \in out : \A k \in out : rows[k] = rows[i] => k = i}
FirstCopies == {i \in out : \A k \in out : rows[k] = rows[i] => i <= k}

(* drop_duplicates, and the error of a file nothing of which is left.       *)
DropDuplicates ==
    /\ stage = Filtered /\ ~raised
    /\ OPTIONAL_COLUMNS \cap Doubled = {}
    /\ out' = FirstCopies
    /\ duplicates' = Cardinality(out) - Cardinality(out')
    /\ errors' = (out' = {})
    /\ stage' = Done
    /\ UNCHANGED <<columnVars, rows, dropped_by_reason, raised>>

(* `.str`, to_datetime and to_numeric have no use for a DataFrame.          *)
Raise ==
    /\ \/ Filtering /\ ColumnOf[stage + 1] \in Doubled
       \/ stage = Filtered /\ ~raised /\ OPTIONAL_COLUMNS \cap Doubled # {}
    /\ raised' = TRUE
    /\ UNCHANGED <<columnVars, rows, stage, out, dropped_by_reason, duplicates, errors>>

ValidationNext == ReadHeader \/ RejectFile \/ DropMask \/ DropDuplicates \/ Raise

ValidationSpec == ValidationInit /\ [][ValidationNext]_validationVars

----------------------------------------------------------------------------
(* The report.                                                              *)

rows_in == Len(rows)
rows_kept == Cardinality(out)
rows_dropped == rows_in - rows_kept
is_valid == ~errors /\ rows_kept > 0

(* The first filter that would drop row i, or none.                         *)
Offences(i) == {s \in 1..Filtered : Reasons[s] \in Defects[rows[i]]}
FirstOffence(i, s) == s \in Offences(i) /\ \A t \in Offences(i) : s <= t

(* Every row that was dropped is counted once, under the first filter that  *)
(* has something against it, whatever else is wrong with it.                *)
CountsAreFirstOffences ==
    \A s \in 1..Filtered :
        Counted(Reasons[s]) =
            IF s <= stage /\ ~Rejected
            THEN Cardinality({i \in Index : FirstOffence(i, s)}) ELSE 0

(* A dataset is valid exactly if it has a report and some row has no        *)
(* defect; it then holds one copy of every such row, and the reasons and    *)
(* the duplicates of the report add up to the rows that were dropped.  No   *)
(* report is made of columns that share a name, whatever the rows are, and  *)
(* nothing else raises.                                                     *)
CleanRowsAreKept ==
    /\ raised => ~Rejected /\ Doubled # {}
    /\ stage = Done =>
          LET clean == {rows[i] : i \in {k \in Index : Defects[rows[k]] = {}}} IN
          /\ is_valid <=> ~Rejected /\ clean # {}
          /\ ~Rejected =>
                /\ Doubled = {}
                /\ {rows[i] : i \in out} = clean /\ rows_kept = Cardinality(clean)
                /\ rows_dropped = duplicates + SumFunction(dropped_by_reason)
=============================================================================
