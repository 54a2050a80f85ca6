------------------------------ MODULE MCBasket ------------------------------
(***************************************************************************)
(* Constants of the model-checking run of BasketRules: two pairs in both    *)
(* directions, one with equal and one with different confidences, and a     *)
(* rule of three items.  The pair with different confidences may have       *)
(* another lift in a slice, and then the other direction is more certain.   *)
(***************************************************************************)
EXTENDS BasketRules

CONSTANTS tea, milk, bread

Rule(a, c, confidence, lift) ==
    [antecedents |-> a, consequents |-> c, confidence |-> confidence, lift |-> lift]

MCRules ==
    {Rule({tea}, {milk}, 2, 3), Rule({milk}, {tea}, 1, 3),
     Rule({tea}, {milk}, 1, 2), Rule({milk}, {tea}, 2, 2),
     Rule({bread}, {milk}, 2, 1), Rule({milk}, {bread}, 2, 1),
     Rule({tea, bread}, {milk}, 3, 2)}
=============================================================================
