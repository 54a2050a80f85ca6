---------------------------- MODULE BasketRules ----------------------------
(***************************************************************************)
(* analyze_baskets (ml/basket/rules.py) from the association rules on: in   *)
(* every slice of the transactions the mirror image of a one-to-one rule is *)
(* removed, the rules of all slices are sorted by lift, and those beyond    *)
(* max_rules go to the artifact.                                            *)
(*                                                                         *)
(* mlxtend lists the rules of a slice that meet the thresholds in some      *)
(* order, each once, with the numbers it has in that slice.                 *)
(***************************************************************************)
EXTENDS Integers, Sequences, FiniteSets, Ordering

CONSTANTS
    Rules,          \* [antecedents, consequents, confidence, lift]
    Slices,         \* bound: how many slices there are
    MaxPerSlice,    \* bound: rules in a slice
    max_rules

(* What association_rules may return: which items a rule is about, and its  *)
(* numbers, for which integers stand.  In another slice the same rule may   *)
(* have other numbers, and be another record.                               *)
AssociationRules ==
    \A r \in Rules :
        /\ r.confidence \in Int /\ r.lift \in Int
        /\ r.antecedents \cap r.consequents = {}

ASSUME RulesAssumption ==
    /\ AssociationRules
    /\ Slices \in Nat /\ MaxPerSlice \in Nat /\ max_rules \in Nat

VARIABLES
    slice,          \* the slice being worked on
    table,          \* its rules so far, in mlxtend's order
    keep,           \* the indices of table that are kept
    best_for_pair,  \* for a set of two items, the index of its best rule
    all_rules,      \* [slice, rule] of the finished slices, then sorted
    sorted

basketVars == <<slice, table, keep, best_for_pair, all_rules, sorted>>

NoBest == [p \in {} |-> 0]

BasketInit ==
    /\ slice = 1
    /\ table = <<>>
    /\ keep = {}
    /\ best_for_pair = NoBest
    /\ all_rules = <<>>
    /\ sorted = FALSE

OneToOne(r) == Cardinality(r.antecedents) = 1 /\ Cardinality(r.consequents) = 1
PairKey(r) == r.antecedents \cup r.consequents

SameItems(r, q) == r.antecedents = q.antecedents /\ r.consequents = q.consequents
Mirrored(r, q) == r.antecedents = q.consequents /\ r.consequents = q.antecedents

(* In one slice a rule occurs once, and has the lift of its mirror image.   *)
Row(r) ==
    /\ slice <= Slices /\ Len(table) < MaxPerSlice
    /\ r \in Rules
    /\ \A i \in 1..Len(table) :
          /\ ~SameItems(r, table[i])
          /\ Mirrored(r, table[i]) => r.lift = table[i].lift
    /\ table' = Append(table, r)
    /\ UNCHANGED <<slice, all_rules, sorted>>

Best(p, i) == [q \in DOMAIN best_for_pair \cup {p} |-> IF q = p THEN i ELSE best_for_pair[q]]

(* A rule of more items, or the first of its pair.                          *)
KeepRow(r) ==
    LET i == Len(table) + 1 IN
    /\ Row(r)
    /\ OneToOne(r) => PairKey(r) \notin DOMAIN best_for_pair
    /\ keep' = keep \cup {i}
    /\ best_for_pair' = IF OneToOne(r) THEN Best(PairKey(r), i) ELSE best_for_pair

(* Mutant: the rule it is better than is not removed.                       *)
KeepBoth(existing) == keep
Drop(existing) == keep \ {existing}

(* Its mirror image came first and is less certain.                         *)
ReplaceRow(r) ==
    LET i == Len(table) + 1
        existing == best_for_pair[PairKey(r)] IN
    /\ Row(r)
    /\ OneToOne(r) /\ PairKey(r) \in DOMAIN best_for_pair
    /\ r.confidence > table[existing].confidence
    /\ keep' = Drop(existing) \cup {i}
    /\ best_for_pair' = Best(PairKey(r), i)

(* Its mirror image came first and is at least as certain.                  *)
DropRow(r) ==
    /\ Row(r)
    /\ OneToOne(r) /\ PairKey(r) \in DOMAIN best_for_pair
    /\ ~(r.confidence > table[best_for_pair[PairKey(r)]].confidence)
    /\ UNCHANGED <<keep, best_for_pair>>

(* The rows of the slice that are kept, in their order.                     *)
KeptRules == [i \in 1..Cardinality(keep) |->
                 [slice |-> slice,
                  rule |-> table[InOrder(keep, <)[i]]]]

(* Mutant: the pairs of one slice are remembered in the next.               *)
OldPairs == best_for_pair
NewPairs == NoBest

EndSlice ==
    /\ slice <= Slices
    /\ all_rules' = all_rules \o KeptRules
    /\ slice' = slice + 1
    /\ table' = <<>> /\ keep' = {} /\ best_for_pair' = NewPairs
    /\ UNCHANGED sorted

(* Mutant: the rules are sorted by lift, lowest first.                      *)
Weaker(a, b) == a.rule.lift < b.rule.lift
Stronger(a, b) == a.rule.lift > b.rule.lift

(* list.sort(reverse=True) is stable.                                       *)
SortByLift ==
    LET before(i, k) == \/ Stronger(all_rules[i], all_rules[k])
                        \/ ~Stronger(all_rules[k], all_rules[i]) /\ i < k
        order == InOrder(1..Len(all_rules), before) IN
    /\ slice > Slices /\ ~sorted
    /\ all_rules' = [i \in 1..Len(all_rules) |-> all_rules[order[i]]]
    /\ sorted' = TRUE
    /\ UNCHANGED <<slice, table, keep, best_for_pair>>

BasketNext ==
    \/ \E r \in Rules : KeepRow(r) \/ ReplaceRow(r) \/ DropRow(r)
    \/ EndSlice
    \/ SortByLift

BasketSpec == BasketInit /\ [][BasketNext]_basketVars

----------------------------------------------------------------------------
(* The result.                                                              *)

Summary == SubSeq(all_rules, 1, IF Len(all_rules) < max_rules
                                THEN Len(all_rules) ELSE max_rules)
Overflow == SubSeq(all_rules, max_rules + 1, Len(all_rules))

(* Of a rule and its mirror image, whichever came first, the more certain   *)
(* one is kept and the other is not; no other rule is lost.                 *)
BestDirectionSurvives ==
    \A i \in 1..Len(table) :
        LET mirrors == {k \in 1..Len(table) :
                           OneToOne(table[k]) /\ PairKey(table[k]) = PairKey(table[i])} IN
        IF OneToOne(table[i])
        THEN /\ Cardinality(mirrors \cap keep) = 1
             /\ \A k \in mirrors \cap keep : table[k].confidence >= table[i].confidence
        ELSE i \in keep

(* Removing mirror images is a matter of one slice: a finished slice has    *)
(* no two of them, and every slice may have its own.                        *)
SlicesAreIndependent ==
    /\ \A i, k \in 1..Len(all_rules) :
          LET a == all_rules[i]
              b == all_rules[k] IN
          i # k /\ a.slice = b.slice /\ OneToOne(a.rule) /\ OneToOne(b.rule)
              => PairKey(a.rule) # PairKey(b.rule)
    /\ \A p \in DOMAIN best_for_pair :
          best_for_pair[p] \in 1..Len(table) /\ PairKey(table[best_for_pair[p]]) = p

(* The rules in the summary are the strongest: none in the artifact has a   *)
(* higher lift.                                                             *)
SummaryHasTheStrongest ==
    sorted =>
        \A i \in 1..Len(Summary), k \in 1..Len(Overflow) :
            Summary[i].rule.lift >= Overflow[k].rule.lift
=============================================================================
