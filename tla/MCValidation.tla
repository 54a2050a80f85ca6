---------------------------- MODULE MCValidation ----------------------------
(***************************************************************************)
(* Constants of the model-checking run of Validation.  Headers: two         *)
(* canonical columns, one of them required, aliases of both, and a header   *)
(* nobody knows.  Rows: two clean ones, and each defect in some row, alone  *)
(* or with others.                                                          *)
(***************************************************************************)
EXTENDS Validation

MCCanonical == {"quantity", "category"}
MCHeaders == MCCanonical \cup {"Qty", "Department", "notes"}

MCMeaning ==
    [h \in MCHeaders |->
        CASE h \in {"quantity", "Qty"} -> "quantity"
          [] h \in {"category", "Department"} -> "category"
          [] OTHER -> NoName]

MCDefects ==
    [x \in Contents |->
        CASE x \in {"good", "better"} -> {}
          [] x = "late and negative" -> {"future_date", "negative_unit_price"}
          [] x = "no date, no quantity" -> {"invalid_date", "invalid_quantity"}
          [] x = "anonymous" ->
                {"missing_transaction_id", "non_positive_quantity", "invalid_unit_price"}
          [] OTHER -> {x}]

MCContents ==
    {"good", "better", "late and negative", "no date, no quantity", "anonymous",
     "missing_product_id", "negative_unit_price"}
=============================================================================
