--------------------------- MODULE AnalysisProofs ---------------------------
(***************************************************************************)
(* Proofs about the basket and customer modules (BasketRules, Customers)    *)
(* and the backtest of a forecasting model (Backtest): for any rules,       *)
(* slices and limits; for any number of customers, any values and any       *)
(* number of segments; and for every horizon, number of windows and length  *)
(* of history.                                                              *)
(*                                                                         *)
(* What BasketRules keeps of a slice is one row of each pair, the best, and *)
(* sorting the rows of all slices leaves them whole.  In Customers the      *)
(* ranks of those who have a value are 1..n_ranks, each once                *)
(* (PlacesBetween), and the band of a rank is fixed by where the edges of   *)
(* the bands lie, so a band's size is the distance of its edges.            *)
(***************************************************************************)
EXTENDS BasketRules, Customers, Backtest, CountingProofs, SequenceTheorems

(* Basket rules.                                                            *)

(* What the rows of a slice have left behind.                               *)

TableTyped ==
    /\ slice \in Nat \ {0}
    /\ table \in Seq(Rules)
    /\ keep \subseteq 1..Len(table)

(* The best rule of a pair, and what is known of a row.                     *)
BestRow(p) ==
    LET i == best_for_pair[p] IN
    i \in keep /\ OneToOne(table[i]) /\ PairKey(table[i]) = p

RowBest(i) ==
    LET p == PairKey(table[i]) IN
    IF OneToOne(table[i])
    THEN /\ p \in DOMAIN best_for_pair
         /\ table[best_for_pair[p]].confidence >= table[i].confidence
         /\ i \in keep => best_for_pair[p] = i
    ELSE i \in keep

BestAgrees ==
    /\ \A p \in DOMAIN best_for_pair : BestRow(p)
    /\ \A i \in 1..Len(table) : RowBest(i)

TableInv == TableTyped /\ BestAgrees

(* What a row more changes.                                                 *)
LEMMA RowFacts ==
    ASSUME TableTyped, NEW r \in Rules, Row(r)
    PROVE  /\ Len(table) \in Nat /\ Len(table') = Len(table) + 1
           /\ table' \in Seq(Rules) /\ table'[Len(table) + 1] = r
           /\ \A i \in 1..Len(table) : table'[i] = table[i] /\ table[i] \in Rules
           /\ 1..Len(table') = (1..Len(table)) \cup {Len(table) + 1}
           /\ slice' = slice
BY DEF TableTyped, Row

(* A row more, kept, replacing its mirror image or dropped, leaves each     *)
(* pair with its most certain rule.                                         *)
LEMMA RowsKeepTable ==
    ASSUME TableInv, NEW r \in Rules, KeepRow(r) \/ ReplaceRow(r) \/ DropRow(r)
    PROVE  TableInv'
<1> DEFINE n == Len(table)
           p == PairKey(r)
<1>1. Row(r)
  BY DEF KeepRow, ReplaceRow, DropRow
<1>2. /\ n \in Nat /\ Len(table') = n + 1
      /\ table' \in Seq(Rules) /\ table'[n + 1] = r
      /\ \A i \in 1..n : table'[i] = table[i] /\ table[i] \in Rules
      /\ 1..Len(table') = (1..n) \cup {n + 1}
      /\ slice' = slice
  BY <1>1, RowFacts DEF TableInv
<1>3. /\ keep \subseteq 1..n
      /\ \A i \in 1..n : i # n + 1
      /\ \A i \in 1..n : table[i].confidence \in Int
      /\ r.confidence \in Int
  BY <1>2, RulesAssumption DEF TableInv, TableTyped, AssociationRules
<1> HIDE DEF n, p
<1>4. CASE KeepRow(r)
  <2>1. /\ OneToOne(r) => p \notin DOMAIN best_for_pair
        /\ keep' = keep \cup {n + 1}
        /\ best_for_pair' = IF OneToOne(r) THEN Best(p, n + 1) ELSE best_for_pair
    BY <1>4 DEF KeepRow, n, p
  <2>2. TableTyped'
    BY <1>2, <1>3, <2>1 DEF TableInv, TableTyped
  <2>3. ASSUME NEW q \in DOMAIN best_for_pair'
        PROVE  BestRow(q)'
    <3>1. CASE q \in DOMAIN best_for_pair
      <4>1. best_for_pair'[q] = best_for_pair[q] /\ best_for_pair[q] \in 1..n
        BY <1>3, <2>1, <3>1 DEF Best, TableInv, BestAgrees, BestRow, n
      <4> QED
        BY <1>2, <2>1, <3>1, <4>1 DEF TableInv, BestAgrees, BestRow, RowBest
    <3>2. CASE q \notin DOMAIN best_for_pair
      <4>1. OneToOne(r) /\ q = p /\ best_for_pair'[q] = n + 1
        BY <2>1, <2>3, <3>2 DEF Best
      <4> QED
        BY <1>2, <2>1, <4>1 DEF BestRow, p
    <3> QED
      BY <3>1, <3>2
  <2>4. ASSUME NEW i \in 1..Len(table')
        PROVE  RowBest(i)'
    <3>1. CASE i = n + 1
      BY <1>2, <1>3, <2>1, <3>1 DEF RowBest, Best, p
    <3>2. CASE i \in 1..n
      <4> DEFINE q == PairKey(table[i])
      <4>1. /\ table'[i] = table[i] /\ (OneToOne(table'[i]) <=> OneToOne(table[i]))
            /\ i \in keep' <=> i \in keep
        BY <1>2, <1>3, <2>1, <3>2
      <4>2. CASE OneToOne(table[i])
        <5>1. /\ q \in DOMAIN best_for_pair
              /\ table[best_for_pair[q]].confidence >= table[i].confidence
              /\ i \in keep => best_for_pair[q] = i
              /\ best_for_pair[q] \in 1..n
          BY <1>3, <3>2, <4>2 DEF TableInv, BestAgrees, BestRow, RowBest, n
        <5>2. q \in DOMAIN best_for_pair' /\ best_for_pair'[q] = best_for_pair[q]
          BY <2>1, <5>1 DEF Best
        <5> QED
          BY <1>2, <4>1, <4>2, <5>1, <5>2 DEF RowBest
      <4>3. CASE ~OneToOne(table[i])
        BY <3>2, <4>1, <4>3 DEF TableInv, BestAgrees, BestRow, RowBest, n
      <4> QED
        BY <4>2, <4>3
    <3> QED
      BY <1>2, <3>1, <3>2
  <2> QED
    BY <2>2, <2>3, <2>4 DEF TableInv, BestAgrees, BestRow, RowBest
<1>5. CASE ReplaceRow(r)
  <2> DEFINE e == best_for_pair[p]
  <2>1. /\ OneToOne(r) /\ p \in DOMAIN best_for_pair
        /\ r.confidence > table[e].confidence
        /\ keep' = (keep \ {e}) \cup {n + 1}
        /\ best_for_pair' = Best(p, n + 1)
    BY <1>5 DEF ReplaceRow, n, p, Drop
  <2>2. TableTyped'
    BY <1>2, <1>3, <2>1 DEF TableInv, TableTyped
  <2>3. e \in keep /\ e \in 1..n /\ OneToOne(table[e]) /\ PairKey(table[e]) = p
    BY <1>3, <2>1 DEF TableInv, BestAgrees, BestRow, RowBest
  <2> HIDE DEF e
  <2>4. ASSUME NEW q \in DOMAIN best_for_pair'
        PROVE  BestRow(q)'
    <3>1. CASE q # p
      <4>1. /\ q \in DOMAIN best_for_pair /\ best_for_pair'[q] = best_for_pair[q]
        BY <2>1, <2>4, <3>1 DEF Best
      <4>2. /\ best_for_pair[q] \in keep /\ best_for_pair[q] \in 1..n
            /\ OneToOne(table[best_for_pair[q]]) /\ PairKey(table[best_for_pair[q]]) = q
        BY <1>3, <4>1 DEF TableInv, BestAgrees, BestRow, RowBest
      <4>3. best_for_pair[q] # e
        BY <2>3, <3>1, <4>2
      <4> QED
        BY <1>2, <2>1, <4>1, <4>2, <4>3 DEF BestRow
    <3>2. CASE q = p
      BY <1>2, <2>1, <3>2 DEF BestRow, Best, p
    <3> QED
      BY <3>1, <3>2
  <2>5. ASSUME NEW i \in 1..Len(table')
        PROVE  RowBest(i)'
    <3>1. CASE i = n + 1
      BY <1>2, <1>3, <2>1, <3>1 DEF RowBest, Best, p
    <3>2. CASE i \in 1..n
      <4> DEFINE q == PairKey(table[i])
      <4>1. /\ table'[i] = table[i] /\ (OneToOne(table'[i]) <=> OneToOne(table[i]))
            /\ i \in keep' => i \in keep /\ i # e
        BY <1>2, <1>3, <2>1, <3>2
      <4>2. CASE OneToOne(table[i])
        <5>1. /\ q \in DOMAIN best_for_pair
              /\ table[best_for_pair[q]].confidence >= table[i].confidence
              /\ i \in keep => best_for_pair[q] = i
              /\ best_for_pair[q] \in 1..n
          BY <1>3, <3>2, <4>2 DEF TableInv, BestAgrees, BestRow, RowBest, n
        <5>2. CASE q # p
          <6>1. q \in DOMAIN best_for_pair' /\ best_for_pair'[q] = best_for_pair[q]
            BY <2>1, <5>1, <5>2 DEF Best
          <6> QED
            BY <1>2, <4>1, <4>2, <5>1, <6>1 DEF RowBest
        <5>3. CASE q = p
          <6>1. q \in DOMAIN best_for_pair' /\ best_for_pair'[q] = n + 1
            BY <2>1, <5>3 DEF Best
          <6>2. i \notin keep'
            BY <4>1, <5>1, <5>3 DEF e
          <6>3. r.confidence >= table[i].confidence
            BY <1>3, <2>1, <2>3, <3>2, <5>1, <5>3 DEF e
          <6> QED
            BY <1>2, <4>1, <4>2, <6>1, <6>2, <6>3 DEF RowBest
        <5> QED
          BY <5>2, <5>3
      <4>3. CASE ~OneToOne(table[i])
        <5>1. i \in keep /\ i # e
          BY <2>3, <3>2, <4>3 DEF TableInv, BestAgrees, BestRow, RowBest, n
        <5> QED
          BY <2>1, <4>1, <4>3, <5>1 DEF RowBest
      <4> QED
        BY <4>2, <4>3
    <3> QED
      BY <1>2, <3>1, <3>2
  <2> QED
    BY <2>2, <2>4, <2>5 DEF TableInv, BestAgrees, BestRow, RowBest
<1>6. CASE DropRow(r)
  <2>1. /\ OneToOne(r) /\ p \in DOMAIN best_for_pair
        /\ ~(r.confidence > table[best_for_pair[p]].confidence)
        /\ UNCHANGED <<keep, best_for_pair>>
    BY <1>6 DEF DropRow, p
  <2>2. TableTyped'
    BY <1>2, <1>3, <2>1 DEF TableInv, TableTyped
  <2>3. \A q \in DOMAIN best_for_pair : best_for_pair[q] \in 1..n
    BY <1>3 DEF TableInv, BestAgrees, BestRow, RowBest
  <2>4. ASSUME NEW q \in DOMAIN best_for_pair'
        PROVE  BestRow(q)'
    BY <1>2, <2>1, <2>3, <2>4 DEF TableInv, BestAgrees, BestRow, RowBest
  <2>5. ASSUME NEW i \in 1..Len(table')
        PROVE  RowBest(i)'
    <3>1. CASE i = n + 1
      <4>1. n + 1 \notin keep'
        BY <1>3, <2>1
      <4>2. table[best_for_pair[p]].confidence >= r.confidence
        BY <1>3, <2>1, <2>3
      <4>3. table'[best_for_pair'[p]] = table[best_for_pair[p]]
        BY <1>2, <2>1, <2>3
      <4> QED
        BY <1>2, <2>1, <3>1, <4>1, <4>2, <4>3 DEF RowBest, p
    <3>2. CASE i \in 1..n
      <4>1. table'[i] = table[i] /\ (OneToOne(table'[i]) <=> OneToOne(table[i]))
        BY <1>2, <3>2
      <4> QED
        BY <1>2, <2>1, <2>3, <3>2, <4>1 DEF TableInv, BestAgrees, BestRow, RowBest, n
    <3> QED
      BY <1>2, <3>1, <3>2
  <2> QED
    BY <2>2, <2>4, <2>5 DEF TableInv, BestAgrees, BestRow, RowBest
<1> QED
  BY <1>4, <1>5, <1>6

----------------------------------------------------------------------------
(* The rules of the finished slices.                                        *)

NoMirrors(rules) ==
    \A i, k \in 1..Len(rules) :
        LET a == rules[i]
            b == rules[k] IN
        i # k /\ a.slice = b.slice /\ OneToOne(a.rule) /\ OneToOne(b.rule)
            => PairKey(a.rule) # PairKey(b.rule)

Finished == [slice : Nat \ {0}, rule : Rules]

RulesInv ==
    /\ all_rules \in Seq(Finished)
    /\ \A i \in 1..Len(all_rules) : all_rules[i].slice < slice
    /\ NoMirrors(all_rules)
    /\ sorted \in BOOLEAN
    /\ sorted => /\ slice > Slices
                 /\ \A i, k \in 1..Len(all_rules) :
                        i < k => all_rules[i].rule.lift >= all_rules[k].rule.lift

BasketInv == TableInv /\ RulesInv

(* The rules a slice ends with are its own, with no mirror images.          *)
LEMMA KeptFacts ==
    ASSUME TableInv
    PROVE  /\ KeptRules \in Seq(Finished)
           /\ \A i \in 1..Len(KeptRules) : KeptRules[i].slice = slice
           /\ NoMirrors(KeptRules)
<1> DEFINE n == Cardinality(keep)
           o == InOrder(keep, <)
<1>1. /\ keep \in SUBSET Int /\ keep \subseteq 1..Len(table) /\ Len(table) \in Nat
      /\ IsFiniteSet(keep)
  <2>1. keep \subseteq 1..Len(table) /\ Len(table) \in Nat
    BY DEF TableInv, TableTyped
  <2>2. IsFiniteSet(1..Len(table))
    BY <2>1, FS_Interval
  <2>3. IsFiniteSet(keep)
    BY <2>1, <2>2, FS_Subset
  <2> QED
    BY <2>1, <2>3
<1>2. o = [i \in 1..n |-> CHOOSE x \in keep : Cardinality({y \in keep : y < x}) = i - 1]
  BY DEF InOrder
<1>3. KeptRules = [i \in 1..n |-> [slice |-> slice, rule |-> table[o[i]]]]
  BY DEF KeptRules
<1> HIDE DEF o, n
<1>4. /\ n \in Nat /\ o \in [1..n -> keep]
      /\ \A i, k \in 1..n : o[i] = o[k] => i = k
  <2>1. Ascending(o, keep)
    BY <1>1, <1>2, AscendingFacts DEF n, Ascends
  <2> QED
    BY <2>1 DEF Ascending, n
<1>5. \A i \in 1..n : o[i] \in keep /\ o[i] \in 1..Len(table) /\ table[o[i]] \in Rules
  <2>1. \A i \in 1..n : o[i] \in keep /\ o[i] \in 1..Len(table)
    BY <1>1, <1>4
  <2>2. table \in Seq(Rules)
    BY DEF TableInv, TableTyped
  <2> QED
    BY <2>1, <2>2
<1>6. KeptRules \in Seq(Finished) /\ Len(KeptRules) = n
  BY <1>3, <1>4, <1>5 DEF Finished, TableInv, TableTyped
<1>7. \A i \in 1..n : KeptRules[i].slice = slice /\ KeptRules[i].rule = table[o[i]]
  BY <1>3
<1>8. ASSUME NEW i \in 1..n, NEW k \in 1..n, i # k,
             OneToOne(table[o[i]]), OneToOne(table[o[k]]),
             PairKey(table[o[i]]) = PairKey(table[o[k]])
      PROVE  FALSE
  <2>1. best_for_pair[PairKey(table[o[i]])] = o[i] /\ best_for_pair[PairKey(table[o[k]])] = o[k]
    BY <1>5, <1>8 DEF TableInv, BestAgrees, RowBest
  <2> QED
    BY <1>4, <1>8, <2>1
<1>9. NoMirrors(KeptRules)
  BY <1>6, <1>7, <1>8 DEF NoMirrors
<1> QED
  BY <1>6, <1>7, <1>9

(* The kept rules of the slice join those of the slices before, which have  *)
(* other numbers.                                                           *)
LEMMA EndSliceKeeps ==
    ASSUME BasketInv, EndSlice
    PROVE  BasketInv'
<1> DEFINE more == KeptRules
<1>1. /\ all_rules' = all_rules \o more
      /\ slice' = slice + 1 /\ slice <= Slices
      /\ table' = <<>> /\ keep' = {} /\ best_for_pair' = [p \in {} |-> 0]
      /\ sorted' = sorted
  BY DEF EndSlice, NewPairs, NoBest
<1>2. /\ more \in Seq(Finished)
      /\ \A i \in 1..Len(more) : more[i].slice = slice
      /\ NoMirrors(more)
  BY KeptFacts DEF BasketInv
<1> HIDE DEF more
<1>3. TableInv'
  BY <1>1 DEF BasketInv, TableInv, TableTyped, BestAgrees, BestRow, RowBest
<1>4. /\ all_rules \in Seq(Finished) /\ Len(all_rules) \in Nat /\ Len(more) \in Nat
      /\ \A i \in 1..Len(all_rules) : all_rules[i].slice < slice
      /\ slice \in Nat /\ Slices \in Nat /\ sorted = FALSE
      /\ \A i \in 1..Len(all_rules) : all_rules[i].slice \in Nat
  <2>1. slice \in Nat /\ Slices \in Nat /\ sorted = FALSE
    BY <1>1, RulesAssumption DEF BasketInv, TableInv, TableTyped, RulesInv
  <2>2. /\ all_rules \in Seq(Finished)
        /\ \A i \in 1..Len(all_rules) : all_rules[i].slice < slice
    BY DEF BasketInv, RulesInv
  <2>3. Len(all_rules) \in Nat /\ \A i \in 1..Len(all_rules) : all_rules[i] \in Finished
    BY <2>2
  <2>4. Len(more) \in Nat
    BY <1>2
  <2> QED
    BY <2>1, <2>2, <2>3, <2>4 DEF Finished
<1> DEFINE m == Len(all_rules)
<1>5. /\ all_rules' \in Seq(Finished)
      /\ Len(all_rules') = m + Len(more)
      /\ \A i \in 1..m : all_rules'[i] = all_rules[i]
      /\ \A i \in 1..Len(all_rules') : i \notin 1..m =>
            i - m \in 1..Len(more) /\ all_rules'[i] = more[i - m]
  BY <1>1, <1>2, <1>4
<1> HIDE DEF m
<1>6. \A i \in 1..Len(all_rules') : all_rules'[i].slice < slice'
  <2> SUFFICES ASSUME NEW i \in 1..Len(all_rules') PROVE all_rules'[i].slice < slice'
    OBVIOUS
  <2>1. CASE i \in 1..m
    BY <1>1, <1>4, <1>5, <2>1 DEF m
  <2>2. CASE i \notin 1..m
    BY <1>1, <1>2, <1>4, <1>5, <2>2
  <2> QED
    BY <2>1, <2>2
<1>7. NoMirrors(all_rules')
  <2> SUFFICES ASSUME NEW i \in 1..Len(all_rules'), NEW k \in 1..Len(all_rules'), i # k,
                      all_rules'[i].slice = all_rules'[k].slice,
                      OneToOne(all_rules'[i].rule), OneToOne(all_rules'[k].rule),
                      PairKey(all_rules'[i].rule) = PairKey(all_rules'[k].rule)
               PROVE  FALSE
    BY DEF NoMirrors
  <2>1. CASE i \in 1..m /\ k \in 1..m
    BY <1>5, <2>1 DEF BasketInv, RulesInv, NoMirrors, m
  <2>2. CASE i \in 1..m /\ k \notin 1..m
    <3>1. all_rules'[i].slice < slice /\ all_rules'[i].slice \in Nat
      BY <1>4, <1>5, <2>2 DEF m
    <3>2. all_rules'[k].slice = slice
      BY <1>2, <1>5, <2>2
    <3> QED
      BY <1>4, <3>1, <3>2
  <2>3. CASE i \notin 1..m /\ k \in 1..m
    <3>1. all_rules'[k].slice < slice /\ all_rules'[k].slice \in Nat
      BY <1>4, <1>5, <2>3 DEF m
    <3>2. all_rules'[i].slice = slice
      BY <1>2, <1>5, <2>3
    <3> QED
      BY <1>4, <3>1, <3>2
  <2>4. CASE i \notin 1..m /\ k \notin 1..m
    <3>1. /\ i - m \in 1..Len(more) /\ all_rules'[i] = more[i - m]
          /\ k - m \in 1..Len(more) /\ all_rules'[k] = more[k - m]
      BY <1>5, <2>4
    <3>2. i - m # k - m
      BY <1>4 DEF m
    <3> QED
      BY <1>2, <3>1, <3>2 DEF NoMirrors
  <2> QED
    BY <2>1, <2>2, <2>3, <2>4
<1>8. RulesInv'
  <2>1. NoMirrors(all_rules)'
    BY <1>7 DEF NoMirrors
  <2> QED
    BY <1>1, <1>4, <1>5, <1>6, <2>1 DEF RulesInv
<1> QED
  BY <1>3, <1>8 DEF BasketInv

(* Sorting moves every rule to one place, the stronger to the lower.        *)
LEMMA SortKeeps ==
    ASSUME BasketInv, SortByLift
    PROVE  BasketInv'
<1> DEFINE n == Len(all_rules)
           before(i, k) == \/ Stronger(all_rules[i], all_rules[k])
                           \/ ~Stronger(all_rules[k], all_rules[i]) /\ i < k
           o == InOrder(1..n, before)
           lift(i) == all_rules[i].rule.lift
           R == {e \in (1..n) \X (1..n) :
                    lift(e[1]) > lift(e[2]) \/ (~(lift(e[2]) > lift(e[1])) /\ e[1] < e[2])}
<1>1. /\ all_rules' = [i \in 1..n |-> all_rules[o[i]]]
      /\ sorted' = TRUE /\ slice > Slices
      /\ UNCHANGED <<slice, table, keep, best_for_pair>>
  BY DEF SortByLift
<1>2. /\ n \in Nat /\ IsFiniteSet(1..n) /\ Cardinality(1..n) = n
      /\ \A i \in 1..n : i \in Int /\ lift(i) \in Int /\ all_rules[i] \in Finished
  <2>1. n \in Nat /\ \A i \in 1..n : all_rules[i] \in Finished
    BY DEF BasketInv, RulesInv
  <2>2. \A i \in 1..n : lift(i) \in Int
    BY <2>1, RulesAssumption DEF Finished, AssociationRules
  <2> QED
    BY <2>1, <2>2, UpTo
<1>3. \A x, y \in 1..n : <<x, y>> \in R
                           <=> lift(x) > lift(y) \/ (~(lift(y) > lift(x)) /\ x < y)
  OBVIOUS
<1>4. StrictOrder(R, 1..n)
  <2> HIDE DEF R, lift, n
  <2>1. \A x \in 1..n : <<x, x>> \notin R
    BY <1>2, <1>3
  <2>2. ASSUME NEW x \in 1..n, NEW y \in 1..n, x # y
        PROVE  <<x, y>> \in R \/ <<y, x>> \in R
    <3>1. lift(x) \in Int /\ lift(y) \in Int /\ x \in Int /\ y \in Int
      BY <1>2
    <3>2. \/ lift(x) > lift(y) \/ (~(lift(y) > lift(x)) /\ x < y)
          \/ lift(y) > lift(x) \/ (~(lift(x) > lift(y)) /\ y < x)
      BY <2>2, <3>1
    <3> QED
      BY <1>3, <3>2
  <2>3. ASSUME NEW x \in 1..n, NEW y \in 1..n, NEW z \in 1..n,
               <<x, y>> \in R, <<y, z>> \in R
        PROVE  <<x, z>> \in R
    <3>1. /\ lift(x) > lift(y) \/ (~(lift(y) > lift(x)) /\ x < y)
          /\ lift(y) > lift(z) \/ (~(lift(z) > lift(y)) /\ y < z)
      BY <1>3, <2>3
    <3>2. /\ lift(x) \in Int /\ lift(y) \in Int /\ lift(z) \in Int
          /\ x \in Int /\ y \in Int /\ z \in Int
      BY <1>2
    <3>3. lift(x) > lift(z) \/ (~(lift(z) > lift(x)) /\ x < z)
      BY <3>1, <3>2
    <3> QED
      BY <1>3, <3>3
  <2> QED
    BY <2>1, <2>2, <2>3 DEF StrictOrder
<1>5. Lists(o, R, 1..n)
  <2> DEFINE c(i) == CHOOSE x \in 1..n : Cardinality({y \in 1..n : before(y, x)}) = i - 1
             d(i) == CHOOSE x \in 1..n : Place(x, R, 1..n) = i - 1
  <2>1. \A x \in 1..n : {y \in 1..n : before(y, x)} = {y \in 1..n : <<y, x>> \in R}
    <3>1. \A x, y \in 1..n : before(y, x) <=> <<y, x>> \in R
      <4> SUFFICES ASSUME NEW x \in 1..n, NEW y \in 1..n
                   PROVE  before(y, x) <=> <<y, x>> \in R
        OBVIOUS
      <4>1. before(y, x) <=> lift(y) > lift(x) \/ (~(lift(x) > lift(y)) /\ y < x)
        BY DEF Stronger
      <4> HIDE DEF R, n, before, lift
      <4> QED
        BY <1>3, <4>1
    <3> HIDE DEF before, R, n
    <3> QED
      BY <3>1
  <2>2. o = [i \in 1..Cardinality(1..n) |-> c(i)]
    BY DEF InOrder
  <2>3. \A i \in 1..Cardinality(1..n) : c(i) = d(i)
    <3> HIDE DEF R, before, n
    <3> QED
      BY <2>1 DEF Place
  <2>4. o = [i \in 1..Cardinality(1..n) |-> d(i)]
    <3> HIDE DEF c, d, o, R, n
    <3> QED
      BY <2>2, <2>3
  <2> QED
    BY <2>4 DEF Lists
<1> HIDE DEF o, R
<1>6. Listed(o, R, 1..n)
  BY <1>2, <1>4, <1>5, InOrderFacts
<1>7. /\ o \in [1..n -> 1..n]
      /\ \A i, k \in 1..n : i < k <=> <<o[i], o[k]>> \in R
      /\ \A i, k \in 1..n : o[i] = o[k] => i = k
  BY <1>2, <1>6 DEF Listed
<1>8. /\ all_rules' \in Seq(Finished) /\ Len(all_rules') = n
      /\ \A i \in 1..n : all_rules'[i] = all_rules[o[i]] /\ o[i] \in 1..n
  <2> HIDE DEF n, lift
  <2>1. \A i \in 1..n : o[i] \in 1..n /\ all_rules[o[i]] \in Finished
    BY <1>2, <1>7
  <2>2. all_rules' \in Seq(Finished) /\ Len(all_rules') = n
    BY <1>1, <1>2, <2>1
  <2> QED
    BY <1>1, <2>1, <2>2
<1>9. \A i, k \in 1..n : i < k => all_rules'[i].rule.lift >= all_rules'[k].rule.lift
  <2> SUFFICES ASSUME NEW i \in 1..n, NEW k \in 1..n, i < k
               PROVE  lift(o[i]) >= lift(o[k])
    BY <1>8
  <2>1. lift(o[i]) > lift(o[k]) \/ ~(lift(o[k]) > lift(o[i]))
    BY <1>3, <1>7
  <2> HIDE DEF lift
  <2> QED
    BY <1>2, <1>8, <2>1
<1>10. NoMirrors(all_rules')
  <2> SUFFICES ASSUME NEW i \in 1..n, NEW k \in 1..n, i # k,
                      all_rules'[i].slice = all_rules'[k].slice,
                      OneToOne(all_rules'[i].rule), OneToOne(all_rules'[k].rule),
                      PairKey(all_rules'[i].rule) = PairKey(all_rules'[k].rule)
               PROVE  FALSE
    BY <1>8 DEF NoMirrors
  <2>1. o[i] # o[k] /\ o[i] \in 1..n /\ o[k] \in 1..n
    BY <1>7
  <2> QED
    <3>1. NoMirrors(all_rules)
      BY DEF BasketInv, RulesInv
    <3>2. all_rules'[i] = all_rules[o[i]] /\ all_rules'[k] = all_rules[o[k]]
      BY <1>8
    <3> QED
      BY <2>1, <3>1, <3>2 DEF NoMirrors
<1>11. \A i \in 1..n : all_rules'[i].slice < slice'
  BY <1>1, <1>8 DEF BasketInv, RulesInv
<1>12. RulesInv'
  <2>1. NoMirrors(all_rules)'
    BY <1>10 DEF NoMirrors
  <2> QED
    BY <1>1, <1>8, <1>9, <1>11, <2>1 DEF RulesInv
<1>13. TableInv'
  BY <1>1 DEF BasketInv, TableInv, TableTyped, BestAgrees, BestRow, RowBest
<1> QED
  BY <1>12, <1>13 DEF BasketInv

(* The inductive invariant: what the rows of the slice left behind, and what *)
(* is in the list of all rules.                                             *)
THEOREM BasketInductive == BasketSpec => []BasketInv
<1>1. BasketInit => BasketInv
  <2>1. ASSUME BasketInit PROVE TableInv
    BY <2>1 DEF BasketInit, NoBest, TableInv, TableTyped, BestAgrees, BestRow, RowBest
  <2>2. ASSUME BasketInit PROVE RulesInv
    <3>1. all_rules = <<>> /\ sorted = FALSE
      BY <2>2 DEF BasketInit
    <3>2. all_rules \in Seq(Finished) /\ Len(all_rules) = 0
      BY <3>1
    <3> QED
      BY <3>1, <3>2, 1..0 = {} DEF RulesInv, NoMirrors
  <2> QED
    BY <2>1, <2>2 DEF BasketInv
<1>2. BasketInv /\ [BasketNext]_basketVars => BasketInv'
  <2> SUFFICES ASSUME BasketInv, [BasketNext]_basketVars PROVE BasketInv'
    OBVIOUS
  <2>1. CASE UNCHANGED basketVars
    BY <2>1 DEF basketVars, BasketInv, TableInv, TableTyped, BestAgrees, BestRow, RowBest,
                RulesInv, NoMirrors
  <2>2. ASSUME NEW r \in Rules, KeepRow(r) \/ ReplaceRow(r) \/ DropRow(r) PROVE BasketInv'
    <3>1. TableInv'
      BY <2>2, RowsKeepTable DEF BasketInv
    <3>2. UNCHANGED <<slice, all_rules, sorted>>
      BY <2>2 DEF KeepRow, ReplaceRow, DropRow, Row
    <3> QED
      BY <3>1, <3>2 DEF BasketInv, RulesInv, NoMirrors
  <2>3. CASE EndSlice
    BY <2>3, EndSliceKeeps
  <2>4. CASE SortByLift
    BY <2>4, SortKeeps
  <2> QED
    BY <2>1, <2>2, <2>3, <2>4 DEF BasketNext
<1> QED
  BY <1>1, <1>2, PTL DEF BasketSpec

----------------------------------------------------------------------------

(* Of a rule and its mirror image the more certain is kept, and only it:    *)
(* best_for_pair names the one index of its pair in keep, and a row replaces *)
(* it only with a more certain one.                                         *)
THEOREM BestDirectionKept == BasketSpec => []BestDirectionSurvives
<1>1. ASSUME BasketInv PROVE BestDirectionSurvives
  <2> SUFFICES ASSUME NEW i \in 1..Len(table)
               PROVE  LET mirrors == {k \in 1..Len(table) :
                                 OneToOne(table[k]) /\ PairKey(table[k]) = PairKey(table[i])} IN
                      IF OneToOne(table[i])
                      THEN /\ Cardinality(mirrors \cap keep) = 1
                           /\ \A k \in mirrors \cap keep :
                                  table[k].confidence >= table[i].confidence
                      ELSE i \in keep
    BY DEF BestDirectionSurvives
  <2> DEFINE p == PairKey(table[i])
             mirrors == {k \in 1..Len(table) :
                           OneToOne(table[k]) /\ PairKey(table[k]) = PairKey(table[i])}
             b == best_for_pair[p]
  <2>1. RowBest(i)
    BY <1>1 DEF BasketInv, TableInv, BestAgrees
  <2>2. CASE OneToOne(table[i])
    <3>1. p \in DOMAIN best_for_pair /\ table[b].confidence >= table[i].confidence
      BY <2>1, <2>2 DEF RowBest
    <3>2. b \in keep /\ OneToOne(table[b]) /\ PairKey(table[b]) = p
      BY <1>1, <3>1 DEF BasketInv, TableInv, BestAgrees, BestRow
    <3>3. keep \subseteq 1..Len(table)
      BY <1>1 DEF BasketInv, TableInv, TableTyped
    <3>4. ASSUME NEW k \in mirrors \cap keep PROVE k = b
      <4>1. RowBest(k) /\ OneToOne(table[k]) /\ PairKey(table[k]) = p
        BY <1>1 DEF BasketInv, TableInv, BestAgrees
      <4> QED
        BY <4>1 DEF RowBest
    <3>5. mirrors \cap keep = {b}
      BY <3>2, <3>3, <3>4
    <3>6. Cardinality(mirrors \cap keep) = 1
      BY <3>5, FS_Singleton
    <3> QED
      BY <2>2, <3>1, <3>5, <3>6
  <2>3. CASE ~OneToOne(table[i])
    BY <2>1, <2>3 DEF RowBest
  <2> QED
    BY <2>2, <2>3
<1> QED
  BY <1>1, BasketInductive, PTL

(* Two mirror images in the list are never of the same slice: the pairs are *)
(* forgotten when a slice ends, and the slices that joined before are lower. *)
THEOREM SlicesApart == BasketSpec => []SlicesAreIndependent
<1>1. ASSUME BasketInv PROVE SlicesAreIndependent
  <2>1. \A p \in DOMAIN best_for_pair :
           best_for_pair[p] \in 1..Len(table) /\ PairKey(table[best_for_pair[p]]) = p
    BY <1>1 DEF BasketInv, TableInv, TableTyped, BestAgrees, BestRow
  <2>2. NoMirrors(all_rules)
    BY <1>1 DEF BasketInv, RulesInv
  <2> QED
    BY <2>1, <2>2 DEF NoMirrors, SlicesAreIndependent
<1> QED
  BY <1>1, BasketInductive, PTL

(* Sorted, the list falls in lift, so its first max_rules are the strongest. *)
THEOREM StrongestFirst == BasketSpec => []SummaryHasTheStrongest
<1>1. ASSUME BasketInv PROVE SummaryHasTheStrongest
  <2> SUFFICES ASSUME sorted, NEW i \in 1..Len(Summary), NEW k \in 1..Len(Overflow)
               PROVE  Summary[i].rule.lift >= Overflow[k].rule.lift
    BY DEF SummaryHasTheStrongest
  <2> DEFINE n == Len(all_rules)
  <2>1. n \in Nat /\ max_rules \in Nat /\ all_rules \in Seq(Finished)
    BY <1>1, RulesAssumption DEF BasketInv, RulesInv
  <2>2. i \in 1..n /\ i <= max_rules /\ Summary[i] = all_rules[i]
    BY <2>1 DEF Summary
  <2>3. max_rules + k \in 1..n /\ Overflow[k] = all_rules[max_rules + k]
    BY <2>1 DEF Overflow
  <2>4. i < max_rules + k
    BY <2>1, <2>2
  <2> QED
    BY <1>1, <2>2, <2>3, <2>4 DEF BasketInv, RulesInv
<1> QED
  BY <1>1, BasketInductive, PTL

----------------------------------------------------------------------------
(* Customers.                                                               *)

(* Between the fit and the end, a fit has happened: the customers who have  *)
(* no value have no repeat purchases, and there are two ranks to cut, or one        *)
(* customer.                                                                *)
Fitted ==
    /\ Customer # {}
    /\ clv \in [Customer -> Int \cup {NaN}]
    /\ n_ranks >= 2 \/ (n_customers = 1 /\ n_ranks = 1)
    /\ Cardinality(Eligible) >= 2 => gamma_gamma_corr \in Correlations

(* What has been computed at each step is a function of what the fit left.  *)
CustomersTyped ==
    /\ \E n \in Nat : frequency \in [1..n -> Nat]
    /\ n_value_segments \in Nat \ {0, 1}
    /\ pc \in {"fit", "segment", "flag", "summarize", "store", "stored", "rejected", "error"}

CustomersInv ==
    /\ CustomersTyped
    /\ pc \notin {"fit", "error"} => Fitted
    /\ Segmented => value_segment = [c \in Customer |-> Band(c)]
    /\ pc \in {"summarize", "store", "stored", "rejected"} =>
          at_risk = InBand(top_segment) \cap fading
    /\ pc \in {"store", "stored", "rejected"} =>
          segment_summary = [k \in 1..effective_n |->
                                [count |-> Cardinality(InBand(k)),
                                 value |-> TotalValue(InBand(k)),
                                 avg_clv |-> Mean(InBand(k))]]
    /\ pc = "stored" => Acceptable

(* There are finitely many customers, and they are numbered.                *)
LEMMA CustomersAreFinite ==
    ASSUME CustomersTyped
    PROVE  /\ n_customers \in Nat /\ Customer = 1..n_customers
           /\ IsFiniteSet(Customer)
           /\ \A c \in Customer : frequency[c] \in Nat
           /\ \A T \in SUBSET Customer : IsFiniteSet(T) /\ Cardinality(T) \in Nat
                                         /\ Cardinality(T) <= n_customers
                                         /\ (Cardinality(T) = n_customers => T = Customer)
<1>1. PICK n \in Nat : frequency \in [1..n -> Nat]
  BY DEF CustomersTyped
<1>2. Customer = 1..n
  BY <1>1 DEF Customer
<1>3. IsFiniteSet(Customer) /\ n_customers = n
  BY <1>2, UpTo DEF n_customers
<1>4. \A T \in SUBSET Customer : IsFiniteSet(T) /\ Cardinality(T) \in Nat
                                 /\ Cardinality(T) <= n_customers
                                 /\ (Cardinality(T) = n_customers => T = Customer)
  BY <1>3, FS_Subset, FS_CardinalityType DEF n_customers
<1> QED
  BY <1>1, <1>2, <1>3, <1>4

(* What the steps after the fit leave alone.                                *)
LEMMA FitStays ==
    ASSUME UNCHANGED <<frequency, spending, fading, n_value_segments, clv, gamma_gamma_corr>>
    PROVE  /\ CustomersTyped /\ pc' \in {"segment", "flag", "summarize", "store",
                                         "stored", "rejected", "error"} => CustomersTyped'
           /\ Fitted => Fitted'
           /\ Customer' = Customer /\ effective_n' = effective_n
           /\ Numbered' = Numbered
           /\ \A c : Band(c)' = Band(c)
           /\ Acceptable' <=> Acceptable
<1>1. Customer' = Customer /\ Numbered' = Numbered /\ Eligible' = Eligible
  BY DEF Customer, Numbered, Eligible, RepeatCustomers
<1>2. n_customers' = n_customers /\ n_ranks' = n_ranks /\ Correlations' = Correlations
      /\ effective_n' = effective_n
  BY <1>1 DEF n_customers, n_ranks, Correlations, effective_n
<1>3. \A c : Rank(c)' = Rank(c)
  BY <1>1 DEF Rank
<1>4. \A c : Band(c)' = Band(c)
  BY <1>2, <1>3 DEF Band
<1>5. Fitted => Fitted'
  BY <1>1, <1>2 DEF Fitted
<1>6. Acceptable' <=> Acceptable
  BY <1>1 DEF Acceptable, ValidFloat
<1> QED
  BY <1>1, <1>2, <1>4, <1>5, <1>6 DEF CustomersTyped

(* A fit leaves what it should: the one by the models has two eligible      *)
(* customers, who have values; the other has a value for everyone.          *)
LEMMA FitsFit ==
    ASSUME CustomersInv, FitGammaGamma \/ ApproximateValue
    PROVE  CustomersInv'
<1>1. /\ Customer' = Customer /\ Eligible' = Eligible /\ n_customers' = n_customers
      /\ Correlations' = Correlations
      /\ CustomersTyped' /\ pc' = "segment"
  <2>1. /\ UNCHANGED <<frequency, spending, fading, n_value_segments>> /\ pc' = "segment"
    BY DEF FitGammaGamma, ApproximateValue, Step
  <2>2. Customer' = Customer /\ Eligible' = Eligible
    BY <2>1 DEF Customer, Eligible, RepeatCustomers
  <2> QED
    BY <2>1, <2>2 DEF n_customers, Correlations, CustomersInv, CustomersTyped
<1>2. CustomersTyped
  BY DEF CustomersInv
<1>3. NaN \notin Int /\ Values \subseteq Int /\ Purchases \subseteq Nat
  BY CustomersAssumption
<1>4. Numbered' = {c \in Customer : clv'[c] # NaN}
  BY <1>1 DEF Numbered
<1>5. CASE FitGammaGamma
  <2>1. /\ Cardinality(Eligible) >= 2 /\ clv' \in [Customer -> Values \cup {NaN}]
        /\ \A c \in RepeatCustomers : clv'[c] # NaN
        /\ gamma_gamma_corr' \in Correlations
    BY <1>5 DEF FitGammaGamma
  <2>2. Eligible \subseteq Numbered' /\ Numbered' \subseteq Customer
    BY <1>4, <2>1 DEF Eligible, RepeatCustomers
  <2>3. /\ IsFiniteSet(Numbered') /\ n_ranks' \in Nat
        /\ Cardinality(Eligible) \in Nat
    BY <1>2, <2>2, CustomersAreFinite DEF n_ranks
  <2>4. Cardinality(Eligible) <= n_ranks'
    BY <2>2, <2>3, FS_Subset DEF n_ranks
  <2>5. Customer # {}
    <3>1. Customer = {} => Eligible = {}
      BY DEF Eligible, RepeatCustomers
    <3> QED
      BY <2>1, <3>1, FS_EmptySet
  <2>6. n_ranks' >= 2 /\ clv' \in [Customer -> Int \cup {NaN}]
    <3>1. n_ranks' >= 2
      BY <2>1, <2>3, <2>4
    <3>2. Values \cup {NaN} \subseteq Int \cup {NaN}
      BY <1>3
    <3> QED
      BY <2>1, <3>1, <3>2
  <2>7. Fitted'
    BY <1>1, <2>1, <2>5, <2>6 DEF Fitted
  <2> QED
    BY <1>1, <2>7 DEF CustomersInv, Segmented
<1>6. CASE ApproximateValue
  <2>1. Customer # {} /\ ~(Cardinality(Eligible) >= 2)
    <3>1. Customer # {} /\ Cardinality(Eligible) < 2
      BY <1>6 DEF ApproximateValue
    <3>2. Cardinality(Eligible) \in Nat
      BY <1>2, CustomersAreFinite DEF Eligible, RepeatCustomers
    <3> QED
      BY <3>1, <3>2
  <2>2. PICK p \in [Customer -> Purchases], v \in Values :
           clv' = [c \in Customer |-> p[c] * v]
    BY <1>6 DEF ApproximateValue
  <2>3. \A c \in Customer : p[c] * v \in Int
    <3>1. v \in Int
      BY <1>3
    <3>2. \A c \in Customer : p[c] \in Nat
      BY <1>3
    <3> QED
      BY <3>1, <3>2
  <2>4. clv' \in [Customer -> Int]
    BY <2>2, <2>3
  <2>5. Numbered' = Customer
    BY <1>3, <1>4, <2>4
  <2>6. n_ranks' = n_customers /\ n_customers \in Nat \ {0}
    <3>1. Cardinality(Customer) # 0 /\ n_customers \in Nat
      BY <1>2, <2>1, CustomersAreFinite, FS_EmptySet
    <3> QED
      BY <2>5, <3>1 DEF n_ranks, n_customers
  <2>7. n_ranks' >= 2 \/ (n_customers' = 1 /\ n_ranks' = 1)
    BY <1>1, <2>6
  <2> QED
    BY <1>1, <2>1, <2>4, <2>7 DEF CustomersInv, Fitted, Segmented
<1> QED
  BY <1>5, <1>6

(* The other steps leave what the fit and the steps before them computed.   *)
LEMMA LaterStepsKeep ==
    ASSUME CustomersInv,
           segment_customers \/ FlagAtRisk \/ Summarize \/ Store
    PROVE  CustomersInv'
<1>1. UNCHANGED <<frequency, spending, fading, n_value_segments, clv, gamma_gamma_corr>>
  BY DEF segment_customers, FlagAtRisk, Summarize, Store, Step
<1>2. pc \in {"segment", "flag", "summarize", "store"}
      /\ pc' \in {"flag", "summarize", "store", "stored", "rejected"}
  BY DEF segment_customers, FlagAtRisk, Summarize, Store, Step
<1>3. Fitted /\ CustomersTyped
  BY <1>2 DEF CustomersInv
<1>4. /\ CustomersTyped' /\ Fitted' /\ Customer' = Customer /\ effective_n' = effective_n
      /\ Numbered' = Numbered
      /\ \A c : Band(c)' = Band(c)
      /\ Acceptable' <=> Acceptable
  BY <1>1, <1>2, <1>3, FitStays
<1>5. value_segment' = [c \in Customer |-> Band(c)]
  <2>1. CASE segment_customers
    BY <2>1 DEF segment_customers
  <2>2. CASE FlagAtRisk \/ Summarize \/ Store
    BY <2>2 DEF FlagAtRisk, Summarize, Store, Step, CustomersInv, Segmented
  <2> QED
    BY <2>1, <2>2
<1>6. value_segment' = [c \in Customer' |-> Band(c)']
  BY <1>4, <1>5
<1>7. ASSUME value_segment' = value_segment
      PROVE  /\ \A k : InBand(k)' = InBand(k) /\ TotalValue(InBand(k))' = TotalValue(InBand(k))
             /\ \A k : Mean(InBand(k))' = Mean(InBand(k))
             /\ top_segment' = top_segment
  BY <1>1, <1>4, <1>7 DEF InBand, TotalValue, Mean, top_segment
<1>8. CASE segment_customers
  BY <1>4, <1>6, <1>8 DEF segment_customers, Step, CustomersInv, Segmented
<1>9. CASE FlagAtRisk
  <2>1. /\ at_risk' = InBand(top_segment) \cap fading
        /\ value_segment' = value_segment /\ pc' = "summarize"
    BY <1>9 DEF FlagAtRisk, Step
  <2>2. at_risk' = (InBand(top_segment) \cap fading)'
    BY <1>1, <1>7, <2>1
  <2> QED
    BY <1>4, <1>6, <2>1, <2>2 DEF CustomersInv, Segmented
<1>10. CASE Summarize
  <2>1. /\ segment_summary' = [k \in 1..effective_n |->
                                  [count |-> Cardinality(InBand(k)),
                                   value |-> TotalValue(InBand(k)),
                                   avg_clv |-> Mean(InBand(k))]]
        /\ UNCHANGED <<value_segment, at_risk>> /\ pc' = "store" /\ pc = "summarize"
    BY <1>10 DEF Summarize, Step, ordered_labels
  <2>2. segment_summary' = [k \in 1..effective_n |->
                                  [count |-> Cardinality(InBand(k)),
                                   value |-> TotalValue(InBand(k)),
                                   avg_clv |-> Mean(InBand(k))]]'
    BY <1>4, <1>7, <2>1
  <2>3. at_risk' = (InBand(top_segment) \cap fading)'
    BY <1>1, <1>7, <2>1 DEF CustomersInv
  <2> QED
    BY <1>4, <1>6, <2>1, <2>2, <2>3 DEF CustomersInv, Segmented
<1>11. CASE Store
  <2>1. /\ UNCHANGED <<value_segment, at_risk, segment_summary>> /\ pc = "store"
        /\ pc' \in {"stored", "rejected"} /\ (pc' = "stored" => Acceptable)
    BY <1>11 DEF Store, Step
  <2>2. segment_summary' = [k \in 1..effective_n |->
                                  [count |-> Cardinality(InBand(k)),
                                   value |-> TotalValue(InBand(k)),
                                   avg_clv |-> Mean(InBand(k))]]'
    BY <1>4, <1>7, <2>1 DEF CustomersInv
  <2>3. at_risk' = (InBand(top_segment) \cap fading)'
    BY <1>1, <1>7, <2>1 DEF CustomersInv
  <2> QED
    BY <1>4, <1>6, <2>1, <2>2, <2>3 DEF CustomersInv, Segmented
<1> QED
  BY <1>8, <1>9, <1>10, <1>11

(* The inductive invariant: each step's result is what its operators say of *)
(* the values that were fitted.                                             *)
THEOREM CustomersInductive == CustomersSpec => []CustomersInv
<1>1. CustomersInit => CustomersInv
  <2> SUFFICES ASSUME CustomersInit PROVE CustomersInv
    OBVIOUS
  <2>1. pc = "fit" /\ n_value_segments \in NumbersOfSegments
        /\ \E n \in 0..MaxCustomers : frequency \in [1..n -> Frequencies]
    BY DEF CustomersInit
  <2>2. PICK n \in 0..MaxCustomers : frequency \in [1..n -> Frequencies]
    BY <2>1
  <2>3. n \in Nat /\ frequency \in [1..n -> Nat] /\ n_value_segments \in Nat \ {0, 1}
    <3>1. n \in Nat /\ n_value_segments \in Nat \ {0, 1}
      BY <2>1, CustomersAssumption
    <3>2. Frequencies \subseteq Nat
      BY CustomersAssumption
    <3> QED
      BY <2>2, <3>1, <3>2
  <2> QED
    BY <2>1, <2>3 DEF CustomersInv, CustomersTyped, Segmented
<1>2. CustomersInv /\ [CustomersNext]_customerVars => CustomersInv'
  <2> SUFFICES ASSUME CustomersInv, [CustomersNext]_customerVars PROVE CustomersInv'
    OBVIOUS
  <2>1. CASE UNCHANGED customerVars
    <3>1. /\ \A k : InBand(k)' = InBand(k) /\ TotalValue(InBand(k))' = TotalValue(InBand(k))
          /\ \A k : Mean(InBand(k))' = Mean(InBand(k))
          /\ top_segment' = top_segment /\ pc' = pc
      BY <2>1 DEF InBand, TotalValue, Mean, top_segment, effective_n, n_customers, Customer,
                  Numbered, customerVars
    <3>2. /\ Fitted => Fitted'
          /\ Customer' = Customer /\ effective_n' = effective_n
          /\ \A c : Band(c)' = Band(c)
          /\ Acceptable' <=> Acceptable
      BY <2>1, FitStays DEF customerVars
    <3> QED
      BY <2>1, <3>1, <3>2 DEF CustomersInv, CustomersTyped, Segmented, customerVars
  <2>2. CASE NoCustomers
    BY <2>2 DEF NoCustomers, Step, CustomersInv, CustomersTyped, Segmented
  <2>3. CASE FitGammaGamma \/ ApproximateValue
    BY <2>3, FitsFit
  <2>4. CASE segment_customers \/ FlagAtRisk \/ Summarize \/ Store
    BY <2>4, LaterStepsKeep
  <2> QED
    BY <2>1, <2>2, <2>3, <2>4 DEF CustomersNext
<1> QED
  BY <1>1, <1>2, PTL DEF CustomersSpec

----------------------------------------------------------------------------
(* Ranks and bands.                                                         *)

(* d is before c: it is worth less, or as much and its record comes first.  *)
Before ==
    {p \in Numbered \X Numbered :
        clv[p[1]] < clv[p[2]] \/ (clv[p[1]] = clv[p[2]] /\ p[1] < p[2])}

(* The ranks of the fit.                                                    *)
LEMMA Ranks ==
    ASSUME CustomersTyped, Fitted
    PROVE  /\ n_ranks \in Nat \ {0} /\ effective_n \in Nat \ {0}
           /\ n_ranks = 1 => effective_n = 1
           /\ effective_n <= n_customers
           /\ Numbered \subseteq Customer /\ IsFiniteSet(Numbered)
           /\ \A c \in Numbered : clv[c] \in Int
           /\ \A c, d \in Numbered :
                 <<d, c>> \in Before <=> clv[d] < clv[c] \/ (clv[d] = clv[c] /\ d < c)
           /\ StrictOrder(Before, Numbered)
           /\ \A c \in Numbered : /\ Rank(c) = Place(c, Before, Numbered) + 1
                                   /\ Rank(c) \in 1..n_ranks
           /\ \A c, d \in Numbered : <<c, d>> \in Before <=> Rank(c) < Rank(d)
<1>1. /\ n_customers \in Nat /\ Customer = 1..n_customers
      /\ Numbered \subseteq Customer /\ IsFiniteSet(Numbered) /\ n_ranks \in Nat
  BY CustomersAreFinite DEF Numbered, n_ranks
<1>2. n_customers # 0
  BY <1>1 DEF Fitted
<1>3. /\ n_ranks \in Nat \ {0} /\ effective_n \in Nat \ {0}
      /\ n_ranks = 1 => effective_n = 1
      /\ effective_n <= n_customers
  BY <1>1, <1>2 DEF Fitted, effective_n, CustomersTyped
<1>4. \A c \in Numbered : clv[c] \in Int /\ c \in Int
  BY <1>1 DEF Fitted, Numbered
<1>5. \A c, d \in Numbered :
         <<d, c>> \in Before <=> clv[d] < clv[c] \/ (clv[d] = clv[c] /\ d < c)
  BY DEF Before
<1>6. StrictOrder(Before, Numbered)
  <2>1. \A x \in Numbered : <<x, x>> \notin Before
    BY <1>4, <1>5
  <2>2. \A x, y \in Numbered : x # y => <<x, y>> \in Before \/ <<y, x>> \in Before
    BY <1>4, <1>5
  <2>3. \A x, y, z \in Numbered :
           <<x, y>> \in Before /\ <<y, z>> \in Before => <<x, z>> \in Before
    BY <1>4, <1>5
  <2> QED
    BY <2>1, <2>2, <2>3 DEF StrictOrder
<1>7. /\ \A c \in Numbered : Place(c, Before, Numbered) \in 0..(n_ranks - 1)
      /\ \A c, d \in Numbered :
            <<c, d>> \in Before <=> Place(c, Before, Numbered) < Place(d, Before, Numbered)
  BY <1>1, <1>6, Places DEF n_ranks
<1>8. ASSUME NEW c \in Numbered
      PROVE  Rank(c) = Place(c, Before, Numbered) + 1 /\ Rank(c) \in 1..n_ranks
  <2> DEFINE B == {d \in Numbered : <<d, c>> \in Before}
  <2>1. {d \in Numbered : clv[d] < clv[c] \/ (clv[d] = clv[c] /\ d <= c)} = B \cup {c}
    BY <1>4, <1>5
  <2>2. c \notin B /\ IsFiniteSet(B)
    BY <1>1, <1>6, FS_Subset DEF StrictOrder
  <2>3. Cardinality(B \cup {c}) = Cardinality(B) + 1
    BY <2>2, FS_AddElement
  <2>4. Cardinality(B) = Place(c, Before, Numbered) /\ Rank(c) = Cardinality(B \cup {c})
    BY <2>1 DEF Place, Rank
  <2> QED
    BY <1>3, <1>7, <2>3, <2>4
<1>9. \A c, d \in Numbered : <<c, d>> \in Before <=> Rank(c) < Rank(d)
  <2> SUFFICES ASSUME NEW c \in Numbered, NEW d \in Numbered
               PROVE  <<c, d>> \in Before <=> Rank(c) < Rank(d)
    OBVIOUS
  <2>1. <<c, d>> \in Before <=> Place(c, Before, Numbered) < Place(d, Before, Numbered)
    BY <1>7
  <2>2. /\ Rank(c) = Place(c, Before, Numbered) + 1
        /\ Rank(d) = Place(d, Before, Numbered) + 1
        /\ Place(c, Before, Numbered) \in Int /\ Place(d, Before, Numbered) \in Int
    BY <1>7, <1>8
  <2> QED
    BY <2>1, <2>2
<1> QED
  BY <1>1, <1>3, <1>4, <1>5, <1>6, <1>8, <1>9

(* The last and the first rank of a band, counted from 0.                   *)
Edge(k) == (k * (n_ranks - 1)) \div effective_n
First(k) == IF k = 1 THEN 0 ELSE Edge(k - 1) + 1

(* The edges are so far apart that any two bands are of a size, or differ   *)
(* by one; they leave room for a rank if there are as many ranks as bands.  *)
LEMMA Edges ==
    ASSUME n_ranks \in Nat \ {0}, effective_n \in Nat \ {0},
           NEW k \in 1..effective_n
    PROVE  LET size == Edge(k) - First(k) + 1
               q == (n_ranks - 1) \div effective_n IN
           /\ First(k) \in Nat /\ Edge(k) \in Nat
           /\ Edge(k) < n_ranks
           /\ q \in Nat
           /\ size \in {q, q + 1}
           /\ n_ranks >= effective_n => size > 0
<1> DEFINE d == n_ranks - 1
           e == effective_n
           q == d \div e
           u == Edge(k - 1)
           v == Edge(k)
<1>1. d \in Nat /\ e \in Nat \ {0} /\ k \in 1..e
  OBVIOUS
<1>2. (k - 1) * d \in Nat /\ k * d \in Nat /\ k * d = (k - 1) * d + d
  BY <1>1
<1>3. /\ u = ((k - 1) * d) \div e /\ v = (k * d) \div e
  BY DEF Edge
<1> HIDE DEF d, e, q, u, v
<1>4. /\ u \in Int /\ \A j \in Int : j <= u <=> j * e <= (k - 1) * d
      /\ v \in Int /\ \A j \in Int : j <= v <=> j * e <= k * d
      /\ q \in Int /\ \A j \in Int : j <= q <=> j * e <= d
  BY <1>1, <1>2, <1>3, Quotient DEF q
<1>5. u \in Nat /\ v \in Nat /\ q \in Nat
  <2>1. 0 <= u /\ 0 <= v /\ 0 <= q
    BY <1>1, <1>2, <1>4
  <2> QED
    BY <1>4, <2>1
<1>6. v <= d
  <2>1. ~((d + 1) * e <= k * d)
    <3>1. k * d <= e * d
      <4>1. ~(e * d < k * d)
        BY <1>1, Cancel
      <4> QED
        BY <1>1, <1>2, <4>1
    <3> QED
      BY <1>1, <1>2, <3>1
  <2> QED
    BY <1>1, <1>4, <2>1
<1>7. u * e <= (k - 1) * d /\ (k - 1) * d < (u + 1) * e
      /\ v * e <= k * d /\ k * d < (v + 1) * e
      /\ q * e <= d /\ d < (q + 1) * e
  <2>1. u * e \in Int /\ v * e \in Int /\ q * e \in Int
        /\ (u + 1) * e \in Int /\ (v + 1) * e \in Int /\ (q + 1) * e \in Int
    BY <1>1, <1>4
  <2>2. ~((u + 1) * e <= (k - 1) * d) /\ ~((v + 1) * e <= k * d) /\ ~((q + 1) * e <= d)
    BY <1>4
  <2> QED
    BY <1>1, <1>2, <1>4, <2>1, <2>2
<1>8. v - u \in {q, q + 1}
  <2>1. (v - u) * e < (q + 2) * e
    BY <1>1, <1>2, <1>4, <1>7
  <2>2. (q - 1) * e < (v - u) * e
    BY <1>1, <1>2, <1>4, <1>7
  <2>3. v - u < q + 2 /\ q - 1 < v - u
    BY <1>1, <1>4, <2>1, <2>2, Cancel
  <2> QED
    BY <1>4, <2>3
<1>9. ASSUME n_ranks >= effective_n PROVE v - u > 0 \/ k = 1
  <2>1. CASE d >= e
    <3>1. 1 <= q
      BY <1>1, <1>4, <2>1
    <3> QED
      BY <1>4, <1>8, <3>1
  <2>2. CASE d = e - 1
    <3>1. k = 1 \/ (k - 1) * e <= k * d
      <4>1. (k - 1) * e = k * e - e /\ k * d = k * e - k
        BY <1>1, <2>2
      <4> QED
        BY <1>1, <1>2, <4>1
    <3>2. ~((k - 1) * e <= (k - 1) * d) \/ k = 1
      <4>1. (k - 1) * d = (k - 1) * e - (k - 1)
        BY <1>1, <2>2
      <4> QED
        BY <1>1, <1>2, <4>1
    <3>3. k = 1 \/ (k - 1 <= v /\ ~(k - 1 <= u))
      BY <1>1, <1>4, <3>1, <3>2
    <3> QED
      BY <1>1, <1>4, <3>3
  <2>3. d >= e \/ d = e - 1
    BY <1>1, <1>9 DEF d, e
  <2> QED
    BY <2>1, <2>2, <2>3
<1>10. CASE k = 1
  <2>1. v = q /\ First(k) = 0
    BY <1>1, <1>3, <1>10 DEF First, q
  <2> QED
    BY <1>5, <1>6, <2>1 DEF v, q, d, e
<1>11. CASE k # 1
  <2>1. First(k) = u + 1
    BY <1>11 DEF First, u
  <2> QED
    BY <1>4, <1>5, <1>6, <1>8, <1>9, <1>11, <2>1 DEF v, q, d, e
<1> QED
  BY <1>10, <1>11

(* A customer is in the band between whose edges the rank is.               *)
LEMMA BandsOfRanks ==
    ASSUME CustomersTyped, Fitted, NEW c \in Numbered
    PROVE  /\ Band(c) \in 1..effective_n
           /\ \A k \in 1..effective_n : Band(c) = k <=> Rank(c) - 1 \in First(k)..Edge(k)
           /\ \A k \in 1..effective_n :
                 k <= Band(c) <=> k = 1 \/ (k - 1) * (n_ranks - 1) < (Rank(c) - 1) * effective_n
<1> DEFINE d == n_ranks - 1
           e == effective_n
           x == Rank(c) - 1
           b == Band(c)
<1>1. /\ d \in Nat /\ e \in Nat \ {0} /\ x \in 0..d
      /\ d = 0 => e = 1
  BY Ranks
<1>2. b = IF x = 0 THEN 1 ELSE (x * e + d - 1) \div d
  <2>1. x = 0 <=> Rank(c) = 1
    BY Ranks
  <2>2. clv[c] # NaN
    BY DEF Numbered
  <2>3. n_ranks - 2 = d - 1 /\ (x * e + n_ranks) - 2 = x * e + d - 1
    BY Ranks
  <2> QED
    BY <2>1, <2>2, <2>3 DEF Band
<1>3. \A k \in 1..e : First(k) \in Nat /\ Edge(k) \in Nat
  BY Ranks, Edges
<1>4. \A k \in 0..e : Edge(k) \in Int /\ (x <= Edge(k) <=> x * e <= k * d)
  <2> SUFFICES ASSUME NEW k \in 0..e
               PROVE  Edge(k) \in Int /\ (x <= Edge(k) <=> x * e <= k * d)
    OBVIOUS
  <2>1. Edge(k) = (k * d) \div e /\ k * d \in Int
    BY <1>1 DEF Edge
  <2> HIDE DEF d, e, x
  <2> QED
    BY <1>1, <2>1, Quotient
<1> HIDE DEF d, e, x, b
<1>5. x * e \in Nat
  BY <1>1
<1>6. /\ b \in 1..e
      /\ \A k \in 1..e : k <= b <=> k = 1 \/ (k - 1) * d < x * e
  <2>1. CASE x = 0
    <3>1. b = 1 /\ x * e = 0
      BY <1>1, <1>2, <2>1
    <3>2. \A k \in 1..e : (k - 1) * d >= 0
      BY <1>1
    <3> QED
      BY <1>1, <3>1, <3>2
  <2>2. CASE x # 0
    <3>1. d \in Nat \ {0} /\ x \in 1..d
      BY <1>1, <2>2
    <3>2. b \in Int /\ \A k \in Int : k <= b <=> k * d <= x * e + d - 1
      BY <1>2, <1>5, <2>2, <3>1, Quotient
    <3>3. \A k \in Int : (k - 1) * d = k * d - d /\ k * d \in Int /\ (k - 1) * d \in Int
      BY <3>1
    <3>4. \A k \in Int : k <= b <=> (k - 1) * d < x * e
      BY <1>5, <3>1, <3>2, <3>3
    <3>5. 1 <= b
      <4>1. (1 - 1) * d = 0 /\ x * e > 0
        BY <1>1, <3>1
      <4> QED
        BY <3>4, <4>1
    <3>6. ~(e + 1 <= b)
      <4>1. ~(d * e < x * e)
        BY <1>1, <3>1, Cancel
      <4>2. ((e + 1) - 1) * d = d * e /\ d * e \in Int
        BY <1>1
      <4> QED
        BY <1>1, <1>5, <3>4, <4>1, <4>2
    <3>7. b \in 1..e
      BY <1>1, <3>2, <3>5, <3>6
    <3>8. \A k \in 1..e : k \in Int
      OBVIOUS
    <3>9. \A k \in 1..e : k <= b <=> k = 1 \/ (k - 1) * d < x * e
      <4> SUFFICES ASSUME NEW k \in 1..e PROVE k <= b <=> k = 1 \/ (k - 1) * d < x * e
        OBVIOUS
      <4>1. k <= b <=> (k - 1) * d < x * e
        BY <3>4, <3>8
      <4>2. k = 1 => k <= b
        BY <3>7
      <4> QED
        BY <4>1, <4>2
    <3> QED
      BY <3>7, <3>9
  <2> QED
    BY <2>1, <2>2
<1>7. ASSUME NEW k \in 1..e
      PROVE  b = k <=> x \in First(k)..Edge(k)
  <2>1. k <= b <=> First(k) <= x
    <3>1. CASE k = 1
      BY <1>1, <1>6, <3>1 DEF First
    <3>2. CASE k # 1
      <4>1. k - 1 \in 0..e /\ First(k) = Edge(k - 1) + 1
        BY <1>1, <3>2 DEF First
      <4>2. x <= Edge(k - 1) <=> x * e <= (k - 1) * d
        BY <1>4, <4>1
      <4>3. (k - 1) * d \in Int /\ Edge(k - 1) \in Int
        BY <1>1, <1>4, <4>1
      <4> QED
        BY <1>1, <1>5, <1>6, <3>2, <4>1, <4>2, <4>3
    <3> QED
      BY <3>1, <3>2
  <2>2. b <= k <=> x <= Edge(k)
    <3>1. x <= Edge(k) <=> x * e <= k * d
      BY <1>1, <1>4
    <3>2. CASE k = e
      <4>1. ~(d * e < x * e)
        BY <1>1, Cancel
      <4>2. k * d = d * e /\ d * e \in Int
        BY <1>1, <3>2
      <4> QED
        BY <1>1, <1>5, <1>6, <3>1, <3>2, <4>1, <4>2
    <3>3. CASE k # e
      <4>1. k + 1 \in 1..e /\ k + 1 # 1 /\ (k + 1) - 1 = k
        BY <1>1, <3>3
      <4>2. k + 1 <= b <=> k * d < x * e
        BY <1>6, <4>1
      <4>3. k * d \in Int
        BY <1>1
      <4> QED
        BY <1>1, <1>5, <1>6, <3>1, <4>2, <4>3
    <3> QED
      BY <3>2, <3>3
  <2>3. b \in Int /\ First(k) \in Int /\ Edge(k) \in Int /\ x \in Int
    BY <1>1, <1>3, <1>6
  <2> QED
    BY <1>1, <2>1, <2>2, <2>3
<1> QED
  BY <1>6, <1>7 DEF b, x, d, e

(* So many have a value and are in a band.                                  *)
LEMMA SizesOfBands ==
    ASSUME CustomersTyped, Fitted, NEW k \in 1..effective_n
    PROVE  Cardinality({c \in Numbered : Band(c) = k}) = Edge(k) - First(k) + 1
<1>1. /\ n_ranks \in Nat \ {0} /\ effective_n \in Nat \ {0}
      /\ Numbered \subseteq Customer /\ IsFiniteSet(Numbered)
      /\ StrictOrder(Before, Numbered)
      /\ \A c \in Numbered : /\ Rank(c) = Place(c, Before, Numbered) + 1
                              /\ Rank(c) \in 1..n_ranks
  BY Ranks
<1> DEFINE q == (n_ranks - 1) \div effective_n
<1>2. /\ First(k) \in Nat /\ Edge(k) \in Nat /\ Edge(k) < n_ranks
      /\ q \in Nat /\ Edge(k) - First(k) + 1 \in {q, q + 1}
  BY <1>1, Edges
<1>3. First(k) <= Edge(k) + 1
  <2> HIDE DEF q
  <2> QED
    BY <1>2
<1>4. {c \in Numbered : Band(c) = k}
          = {c \in Numbered : Place(c, Before, Numbered) \in First(k)..Edge(k)}
  <2>1. \A c \in Numbered : Rank(c) - 1 = Place(c, Before, Numbered)
    <3>1. \A c \in Numbered : Place(c, Before, Numbered) \in Int
      BY <1>1, Places
    <3> QED
      BY <1>1, <3>1
  <2> QED
    BY <2>1, BandsOfRanks
<1> QED
  BY <1>1, <1>2, <1>3, <1>4, PlacesBetween DEF n_ranks

----------------------------------------------------------------------------
(* Once the customers are segmented, value_segment says what Band says.     *)
LEMMA SegmentsAreBands ==
    ASSUME CustomersInv, Segmented
    PROVE  /\ Fitted /\ CustomersTyped
           /\ \A c \in Numbered : value_segment[c] = Band(c)
           /\ \A k \in 1..effective_n : InBand(k) = {c \in Numbered : Band(c) = k}
<1>1. Fitted /\ CustomersTyped /\ value_segment = [c \in Customer |-> Band(c)]
  BY DEF CustomersInv, Segmented
<1>2. \A c \in Customer : c \notin Numbered => Band(c) = 0
  BY DEF Band, Numbered
<1> QED
  BY <1>1, <1>2 DEF InBand, Numbered

(* The bands follow the values, and their sizes follow the edges.           *)
THEOREM BandsMonotonicAndEven == CustomersSpec => []BandsAreMonotonicAndEven
<1>1. ASSUME CustomersInv PROVE BandsAreMonotonicAndEven
  <2> SUFFICES ASSUME Segmented
               PROVE  /\ \A c, d \in Numbered :
                            clv[c] < clv[d] => value_segment[c] <= value_segment[d]
                      /\ \A c \in Numbered : value_segment[c] \in 1..effective_n
                      /\ \A k, l \in 1..effective_n :
                            /\ Cardinality(InBand(k)) <= Cardinality(InBand(l)) + 1
                            /\ Numbered = Customer => InBand(k) # {}
    BY DEF BandsAreMonotonicAndEven
  <2>1. /\ Fitted /\ CustomersTyped
        /\ \A c \in Numbered : value_segment[c] = Band(c)
        /\ \A k \in 1..effective_n : InBand(k) = {c \in Numbered : Band(c) = k}
    BY <1>1, SegmentsAreBands
  <2>2. /\ n_ranks \in Nat \ {0} /\ effective_n \in Nat \ {0}
        /\ effective_n <= n_customers
        /\ \A c \in Numbered : clv[c] \in Int /\ Rank(c) \in 1..n_ranks
        /\ \A c, d \in Numbered :
              <<d, c>> \in Before <=> clv[d] < clv[c] \/ (clv[d] = clv[c] /\ d < c)
        /\ \A c, d \in Numbered : <<c, d>> \in Before <=> Rank(c) < Rank(d)
    BY <2>1, Ranks
  <2>3. ASSUME NEW c \in Numbered, NEW d \in Numbered, clv[c] < clv[d]
        PROVE  Band(c) <= Band(d)
    <3> DEFINE k == Band(c)
    <3>1. Rank(c) < Rank(d) /\ Rank(c) \in Int /\ Rank(d) \in Int
      <4>1. <<c, d>> \in Before
        BY <2>2, <2>3
      <4>2. Rank(c) \in 1..n_ranks /\ Rank(d) \in 1..n_ranks
        BY <2>2
      <4> QED
        BY <2>2, <4>1, <4>2
    <3>2. /\ k \in 1..effective_n /\ Band(d) \in 1..effective_n
          /\ k <= Band(d)
                <=> k = 1 \/ (k - 1) * (n_ranks - 1) < (Rank(d) - 1) * effective_n
          /\ k <= k <=> k = 1 \/ (k - 1) * (n_ranks - 1) < (Rank(c) - 1) * effective_n
      BY <2>1, BandsOfRanks
    <3> HIDE DEF k
    <3>3. (Rank(c) - 1) * effective_n <= (Rank(d) - 1) * effective_n
      BY <2>2, <3>1, Times
    <3>4. /\ (Rank(c) - 1) * effective_n \in Int /\ (Rank(d) - 1) * effective_n \in Int
          /\ (k - 1) * (n_ranks - 1) \in Int
      BY <2>2, <3>1, <3>2
    <3>5. k <= Band(d)
      BY <2>2, <3>2, <3>3, <3>4
    <3> QED
      BY <3>5 DEF k
  <2>4. ASSUME NEW k \in 1..effective_n, NEW l \in 1..effective_n
        PROVE  /\ Cardinality(InBand(k)) <= Cardinality(InBand(l)) + 1
               /\ Numbered = Customer => InBand(k) # {}
    <3> DEFINE q == (n_ranks - 1) \div effective_n
    <3>1. /\ Cardinality(InBand(k)) = Edge(k) - First(k) + 1
          /\ Cardinality(InBand(l)) = Edge(l) - First(l) + 1
      BY <2>1, SizesOfBands
    <3>2. /\ q \in Nat
          /\ Edge(k) - First(k) + 1 \in {q, q + 1}
          /\ Edge(l) - First(l) + 1 \in {q, q + 1}
          /\ n_ranks >= effective_n => Edge(k) - First(k) + 1 > 0
      BY <2>2, Edges
    <3> HIDE DEF q
    <3>3. Numbered = Customer => n_ranks = n_customers
      BY DEF n_ranks, n_customers
    <3> QED
      BY <2>2, <3>1, <3>2, <3>3, FS_EmptySet
  <2> QED
    BY <2>1, <2>3, <2>4, BandsOfRanks
<1> QED
  BY <1>1, CustomersInductive, PTL

(* Those worth more than a customer have higher ranks, and those with a rank*)
(* at least as high are worth as much.                                      *)
LEMMA RanksAbove ==
    ASSUME CustomersTyped, Fitted, NEW c \in Numbered
    PROVE  LET above == Cardinality({d \in Numbered : clv[d] > clv[c]})
               upto == Cardinality({d \in Numbered : clv[d] >= clv[c]}) IN
           /\ above \in Nat /\ above <= n_ranks - Rank(c)
           /\ upto \in Nat /\ upto >= n_ranks - Rank(c) + 1
<1> DEFINE A == {d \in Numbered : clv[d] > clv[c]}
           U == {d \in Numbered : clv[d] >= clv[c]}
           H(i) == {d \in Numbered : Place(d, Before, Numbered) \in i..(n_ranks - 1)}
           r == Rank(c)
<1>1. /\ n_ranks \in Nat \ {0} /\ IsFiniteSet(Numbered) /\ StrictOrder(Before, Numbered)
      /\ \A d \in Numbered : clv[d] \in Int
      /\ r \in 1..n_ranks
  BY Ranks
<1>2. ASSUME NEW d \in Numbered
      PROVE  /\ clv[d] > clv[c] => d \in H(r)
             /\ d \in H(r - 1) => clv[d] >= clv[c]
  <2>1. /\ <<c, d>> \in Before <=> clv[c] < clv[d] \/ (clv[c] = clv[d] /\ c < d)
        /\ <<d, c>> \in Before <=> clv[d] < clv[c] \/ (clv[d] = clv[c] /\ d < c)
        /\ <<c, d>> \in Before <=> r < Rank(d)
        /\ <<d, c>> \in Before <=> Rank(d) < r
        /\ Rank(d) = Place(d, Before, Numbered) + 1 /\ Rank(d) \in 1..n_ranks
    BY Ranks
  <2>2. Place(d, Before, Numbered) \in Int
    BY <1>1, Places
  <2>3. clv[d] > clv[c] => r < Rank(d)
    BY <1>1, <2>1
  <2>4. ~(Rank(d) < r) => clv[d] >= clv[c]
    BY <1>1, <2>1
  <2> HIDE DEF r
  <2> QED
    BY <1>1, <2>1, <2>2, <2>3, <2>4
<1>3. /\ Cardinality(H(r)) = n_ranks - r
      /\ Cardinality(H(r - 1)) = n_ranks - r + 1
  <2>1. /\ r \in Nat /\ r - 1 \in Nat /\ n_ranks - 1 \in Int
        /\ r <= (n_ranks - 1) + 1 /\ r - 1 <= (n_ranks - 1) + 1
        /\ n_ranks - 1 < Cardinality(Numbered)
    BY <1>1 DEF n_ranks
  <2>2. /\ Cardinality(H(r)) = (n_ranks - 1) - r + 1
        /\ Cardinality(H(r - 1)) = (n_ranks - 1) - (r - 1) + 1
    <3> HIDE DEF r
    <3> QED
      BY <1>1, <2>1, PlacesBetween
  <2> HIDE DEF H, r
  <2> QED
    BY <1>1, <2>1, <2>2
<1>4. A \subseteq H(r) /\ H(r - 1) \subseteq U
  <2>1. H(r - 1) \subseteq Numbered
    OBVIOUS
  <2> HIDE DEF H
  <2> QED
    BY <1>2, <2>1
<1>5. IsFiniteSet(U) /\ IsFiniteSet(H(r)) /\ IsFiniteSet(A)
  <2>1. U \subseteq Numbered /\ H(r) \subseteq Numbered /\ A \subseteq Numbered
    OBVIOUS
  <2> HIDE DEF U, H, A, r
  <2> QED
    BY <1>1, <2>1, FS_Subset
<1> HIDE DEF U, H, A, r
<1>6. /\ Cardinality(A) <= Cardinality(H(r)) /\ Cardinality(A) \in Nat
      /\ Cardinality(H(r - 1)) <= Cardinality(U) /\ Cardinality(U) \in Nat
  BY <1>4, <1>5, FS_Subset, FS_CardinalityType
<1>7. Cardinality(U) >= n_ranks - r + 1
  BY <1>1, <1>3, <1>6
<1> QED
  BY <1>1, <1>3, <1>6, <1>7 DEF U, A, r

(* There is one band only if there is one customer, and then one rank.      *)
LEMMA OneBand ==
    ASSUME CustomersTyped, Fitted
    PROVE  effective_n = 1 <=> n_ranks = 1
<1>1. /\ n_customers \in Nat /\ n_value_segments \in Nat \ {0, 1}
      /\ n_ranks \in Nat /\ n_ranks <= n_customers
  BY CustomersAreFinite DEF CustomersTyped, Numbered, n_ranks
<1>2. n_ranks >= 2 \/ (n_customers = 1 /\ n_ranks = 1)
  BY DEF Fitted
<1> QED
  BY <1>1, <1>2 DEF effective_n

(* A flagged customer's rank is in the top band, and the band has those     *)
(* ranks that are above all lower edges.                                    *)
THEOREM AtRiskMostValuable == CustomersSpec => []AtRiskAreTheMostValuable
<1>1. ASSUME CustomersInv PROVE AtRiskAreTheMostValuable
  <2> SUFFICES ASSUME pc \in {"summarize", "store", "stored", "rejected"}, NEW c \in Customer
               PROVE  LET above == Cardinality({d \in Numbered : clv[d] > clv[c]})
                          upto == Cardinality({d \in Numbered : clv[d] >= clv[c]}) IN
                      /\ c \in at_risk => c \in Numbered \cap fading /\ LessThanTop(above)
                      /\ c \in Numbered \cap fading /\ LessThanTop(upto - 1) => c \in at_risk
    BY DEF AtRiskAreTheMostValuable
  <2> DEFINE above == Cardinality({d \in Numbered : clv[d] > clv[c]})
             upto == Cardinality({d \in Numbered : clv[d] >= clv[c]})
             e == effective_n
             m == n_ranks
             x == Rank(c) - 1
  <2>1. Segmented
    BY DEF Segmented
  <2>2. /\ Fitted /\ CustomersTyped
        /\ \A k \in 1..effective_n : InBand(k) = {b \in Numbered : Band(b) = k}
    BY <1>1, <2>1, SegmentsAreBands
  <2>3. m \in Nat \ {0} /\ e \in Nat \ {0}
    BY <2>2, Ranks
  <2>a. m = 1 => e = 1
    BY <2>2, OneBand
  <2>4. at_risk = {b \in Numbered : Band(b) = e} \cap fading
    <3>1. at_risk = InBand(e) \cap fading
      BY <1>1 DEF CustomersInv, top_segment
    <3> QED
      BY <2>2, <2>3, <3>1
  <2>b. ASSUME NEW k \in Nat
        PROVE  LessThanTop(k) <=> k = 0 \/ k * e < m - 1
    BY DEF LessThanTop
  <2>5. ASSUME c \in Numbered
        PROVE  /\ Band(c) = e <=> e = 1 \/ (e - 1) * (m - 1) < x * e
               /\ x \in 0..(m - 1)
               /\ above \in Nat /\ above <= m - 1 - x
               /\ upto \in Nat /\ upto >= m - x
    <3>1. /\ Band(c) \in 1..e
          /\ e <= Band(c) <=> e = 1 \/ (e - 1) * (m - 1) < x * e
      BY <2>2, <2>3, <2>5, BandsOfRanks
    <3>2. Rank(c) \in 1..m
      BY <2>2, <2>5, Ranks
    <3>3. /\ above \in Nat /\ above <= m - Rank(c)
          /\ upto \in Nat /\ upto >= m - Rank(c) + 1
      BY <2>2, <2>5, RanksAbove
    <3> HIDE DEF above, upto, e, m
    <3> QED
      BY <2>3, <3>1, <3>2, <3>3
  <2> HIDE DEF above, upto, e, m, x
  <2>c. ASSUME c \in Numbered
        PROVE  /\ (m - 1 - x) * e = (m - 1) * e - x * e
               /\ (e - 1) * (m - 1) = (m - 1) * e - (m - 1)
               /\ x * e \in Int /\ (m - 1) * e \in Int
    BY <2>3, <2>5, <2>c
  <2>6. ASSUME c \in at_risk PROVE above = 0 \/ above * e < m - 1
    <3>1. c \in Numbered /\ Band(c) = e
      BY <2>4, <2>6
    <3>2. above * e <= (m - 1 - x) * e /\ above * e \in Int
      BY <2>3, <2>5, <3>1, Times
    <3>3. CASE e = 1
      BY <2>2, <2>3, <2>5, <3>1, <3>3, OneBand DEF e, m
    <3>4. CASE e # 1
      <4>1. (e - 1) * (m - 1) < x * e
        BY <2>5, <3>1, <3>4
      <4> QED
        BY <2>3, <2>c, <3>1, <3>2, <4>1
    <3> QED
      BY <3>3, <3>4
  <2>7. ASSUME c \in Numbered \cap fading, upto - 1 = 0 \/ (upto - 1) * e < m - 1
        PROVE  c \in at_risk
    <3>1. m - 1 - x <= upto - 1 /\ m - 1 - x \in Nat /\ upto - 1 \in Nat
      BY <2>3, <2>5, <2>7
    <3>2. (m - 1 - x) * e <= (upto - 1) * e /\ (upto - 1) * e \in Int
      BY <2>3, <3>1, Times
    <3>3. e = 1 \/ (e - 1) * (m - 1) < x * e
      <4>1. CASE (upto - 1) * e < m - 1
        BY <2>3, <2>7, <2>c, <3>2, <4>1
      <4>2. CASE upto - 1 = 0
        <5>1. (m - 1 - x) * e = 0
          BY <2>3, <3>1, <4>2
        <5>2. m = 1 \/ m - 1 > 0
          BY <2>3
        <5> QED
          BY <2>3, <2>7, <2>a, <2>c, <5>1, <5>2
      <4> QED
        BY <2>7, <4>1, <4>2
    <3> QED
      BY <2>4, <2>5, <2>7, <3>3
  <2>8. above \in Nat /\ (c \in Numbered => upto - 1 \in Nat)
    <3>1. IsFiniteSet(Numbered) /\ {d \in Numbered : clv[d] > clv[c]} \subseteq Numbered
      BY <2>2, Ranks
    <3>2. above \in Nat
      BY <3>1, FS_Subset, FS_CardinalityType DEF above
    <3> QED
      BY <2>3, <2>5, <3>2
  <2>9. c \in at_risk => c \in Numbered \cap fading /\ LessThanTop(above)
    BY <2>4, <2>6, <2>8, <2>b
  <2>10. c \in Numbered \cap fading /\ LessThanTop(upto - 1) => c \in at_risk
    BY <2>7, <2>8, <2>b
  <2> QED
    BY <2>9, <2>10 DEF above, upto
<1> QED
  BY <1>1, CustomersInductive, PTL

----------------------------------------------------------------------------
(* The summary.                                                             *)

BandOf(k) == {c \in Numbered : Band(c) = k}

(* The bands up to the last hold everyone who has a value: their numbers    *)
(* and their values, added up one band after the other.                     *)
LEMMA Totals ==
    ASSUME CustomersTyped, Fitted
    PROVE  /\ SumFunction([k \in 1..effective_n |-> Cardinality(BandOf(k))]) = n_ranks
           /\ SumFunction([k \in 1..effective_n |-> SumFunctionOnSet(clv, BandOf(k))])
                  = SumFunctionOnSet(clv, Numbered)
<1> DEFINE e == effective_n
           count == [k \in 1..e |-> Cardinality(BandOf(k))]
           value == [k \in 1..e |-> SumFunctionOnSet(clv, BandOf(k))]
           U(k) == {c \in Numbered : Band(c) <= k}
           P == {k \in Nat : k <= e =>
                    /\ SumFunctionOnSet(count, 1..k) = Cardinality(U(k))
                    /\ SumFunctionOnSet(value, 1..k) = SumFunctionOnSet(clv, U(k))}
<1>1. /\ e \in Nat \ {0} /\ IsFiniteSet(Numbered)
      /\ \A c \in Numbered : clv[c] \in Int /\ Band(c) \in 1..e
  BY Ranks, BandsOfRanks
<1>2. \A T \in SUBSET Numbered : /\ IsFiniteSet(T) /\ Cardinality(T) \in Nat
                                 /\ SumFunctionOnSet(clv, T) \in Int
  <2> SUFFICES ASSUME NEW T \in SUBSET Numbered
               PROVE  IsFiniteSet(T) /\ Cardinality(T) \in Nat
                      /\ SumFunctionOnSet(clv, T) \in Int
    OBVIOUS
  <2>1. IsFiniteSet(T)
    BY <1>1, FS_Subset
  <2> QED
    BY <1>1, <2>1, FS_CardinalityType, SumSteps
<1>3. \A k \in 1..e : /\ count[k] = Cardinality(BandOf(k)) /\ count[k] \in Int
                      /\ value[k] = SumFunctionOnSet(clv, BandOf(k)) /\ value[k] \in Int
  BY <1>2 DEF BandOf
<1> HIDE DEF e, count, value
<1>4. 0 \in P
  <2>1. U(0) = {} /\ 1..0 = {}
    BY <1>1
  <2> QED
    BY <2>1, SumOfNone, FS_EmptySet
<1>5. ASSUME NEW k \in P PROVE k + 1 \in P
  <2> SUFFICES ASSUME k + 1 <= e
               PROVE  /\ SumFunctionOnSet(count, 1..(k + 1)) = Cardinality(U(k + 1))
                      /\ SumFunctionOnSet(value, 1..(k + 1)) = SumFunctionOnSet(clv, U(k + 1))
    OBVIOUS
  <2>1. /\ k \in Nat /\ k + 1 \in 1..e
        /\ SumFunctionOnSet(count, 1..k) = Cardinality(U(k))
        /\ SumFunctionOnSet(value, 1..k) = SumFunctionOnSet(clv, U(k))
    BY <1>1
  <2>2. /\ 1..(k + 1) = (1..k) \cup {k + 1} /\ k + 1 \notin 1..k
        /\ IsFiniteSet(1..k) /\ \A j \in (1..k) \cup {k + 1} : j \in 1..e
    BY <1>1, <2>1, UpTo
  <2>3. /\ SumFunctionOnSet(count, 1..(k + 1)) = count[k + 1] + SumFunctionOnSet(count, 1..k)
        /\ SumFunctionOnSet(value, 1..(k + 1)) = value[k + 1] + SumFunctionOnSet(value, 1..k)
    BY <1>3, <2>2, SumAdd
  <2>4. /\ U(k + 1) = U(k) \cup BandOf(k + 1) /\ U(k) \cap BandOf(k + 1) = {}
        /\ U(k) \in SUBSET Numbered /\ BandOf(k + 1) \in SUBSET Numbered
    BY <1>1, <2>1 DEF BandOf
  <2> HIDE DEF U
  <2>5. Cardinality(U(k + 1)) = Cardinality(U(k)) + Cardinality(BandOf(k + 1))
    <3>1. /\ IsFiniteSet(U(k)) /\ IsFiniteSet(BandOf(k + 1))
          /\ Cardinality(U(k)) \in Nat /\ Cardinality(BandOf(k + 1)) \in Nat
      BY <1>2, <2>4
    <3>2. Cardinality(U(k) \cup BandOf(k + 1))
              = Cardinality(U(k)) + Cardinality(BandOf(k + 1))
                    - Cardinality(U(k) \cap BandOf(k + 1))
      BY <3>1, FS_Union
    <3>3. Cardinality(U(k) \cap BandOf(k + 1)) = 0
      BY <2>4, FS_EmptySet
    <3> QED
      <4> HIDE DEF P
      <4> DEFINE a == Cardinality(U(k))
                 b == Cardinality(BandOf(k + 1))
                 c == Cardinality(U(k) \cap BandOf(k + 1))
      <4>1. Cardinality(U(k + 1)) = Cardinality(U(k) \cup BandOf(k + 1))
        BY <2>4
      <4>2. Cardinality(U(k) \cup BandOf(k + 1)) = a + b - c
        BY <3>2
      <4>3. a + b - c = a + b
        BY <3>1, <3>3
      <4> QED
        BY <4>1, <4>2, <4>3
  <2>6. SumFunctionOnSet(clv, U(k + 1))
            = SumFunctionOnSet(clv, U(k)) + SumFunctionOnSet(clv, BandOf(k + 1))
    <3>1. \A c \in U(k) \cup BandOf(k + 1) : clv[c] \in Int
      BY <1>1, <2>4
    <3> QED
      BY <1>2, <2>4, <3>1, SumOfParts
  <2> QED
    BY <1>2, <1>3, <2>1, <2>3, <2>4, <2>5, <2>6
<1>6. e \in P
  <2> HIDE DEF P
  <2>1. P \subseteq Nat
    BY DEF P
  <2> QED
    BY <1>1, <1>4, <1>5, <2>1, NatsByStep
<1>7. U(e) = Numbered
  BY <1>1
<1>8. DOMAIN count = 1..e /\ DOMAIN value = 1..e
  BY DEF count, value
<1>9. /\ SumFunctionOnSet(count, 1..e) = Cardinality(Numbered)
      /\ SumFunctionOnSet(value, 1..e) = SumFunctionOnSet(clv, Numbered)
  <2>1. e <= e
    BY <1>1
  <2> HIDE DEF U
  <2>2. /\ SumFunctionOnSet(count, 1..e) = Cardinality(U(e))
        /\ SumFunctionOnSet(value, 1..e) = SumFunctionOnSet(clv, U(e))
    BY <1>6, <2>1
  <2> QED
    BY <1>7, <2>2
<1> QED
  BY <1>8, <1>9 DEF SumFunction, n_ranks, count, value, e

(* Whoever has the last rank of a band is worth no less than any in it, and *)
(* no more than any in a higher band.                                       *)
LEMMA AveragesRise ==
    ASSUME CustomersTyped, Fitted,
           NEW k \in 1..effective_n, NEW l \in 1..effective_n, k < l
    PROVE  SumFunctionOnSet(clv, BandOf(k)) * Cardinality(BandOf(l))
              <= SumFunctionOnSet(clv, BandOf(l)) * Cardinality(BandOf(k))
<1>1. /\ n_ranks \in Nat \ {0} /\ effective_n \in Nat \ {0} /\ IsFiniteSet(Numbered)
      /\ StrictOrder(Before, Numbered)
      /\ \A c \in Numbered : clv[c] \in Int
  BY Ranks
<1>2. Edge(k) \in Nat /\ Edge(k) < n_ranks
  BY <1>1, Edges
<1>a. Edge(k) + 1 <= First(l) /\ First(l) \in Int
  <2> DEFINE d == n_ranks - 1
             e == effective_n
             u == Edge(k)
             v == Edge(l - 1)
  <2>1. d \in Nat /\ e \in Nat \ {0} /\ k \in Nat /\ l - 1 \in Nat /\ k <= l - 1 /\ l # 1
    BY <1>1
  <2>2. k * d \in Nat /\ (l - 1) * d \in Nat /\ k * d <= (l - 1) * d
    <3> HIDE DEF d, e
    <3> QED
      BY <2>1, Times
  <2>3. u = (k * d) \div e /\ v = ((l - 1) * d) \div e
    BY DEF Edge
  <2> HIDE DEF d, e, u, v
  <2>4. /\ u \in Int /\ \A j \in Int : j <= u <=> j * e <= k * d
        /\ v \in Int /\ \A j \in Int : j <= v <=> j * e <= (l - 1) * d
    BY <2>1, <2>2, <2>3, Quotient
  <2>5. u * e <= k * d /\ u * e \in Int
    BY <2>1, <2>4
  <2>6. u <= v
    BY <2>2, <2>4, <2>5
  <2> QED
    BY <2>1, <2>4, <2>6 DEF First, u, v
<1>3. PICK b \in Numbered : Place(b, Before, Numbered) = Edge(k)
  <2>1. Edge(k) \in 0..(Cardinality(Numbered) - 1)
    BY <1>1, <1>2 DEF n_ranks
  <2> QED
    BY <1>1, <2>1, Places
<1>4. Rank(b) - 1 = Edge(k) /\ clv[b] \in Int
  BY <1>1, <1>2, <1>3, Ranks
<1>5. \A c \in BandOf(k) : clv[c] <= clv[b] /\ c \in Numbered
  <2> SUFFICES ASSUME NEW c \in BandOf(k) PROVE clv[c] <= clv[b] /\ c \in Numbered
    OBVIOUS
  <2>1. c \in Numbered /\ Rank(c) - 1 \in First(k)..Edge(k)
    BY BandsOfRanks DEF BandOf
  <2>2. Rank(c) \in Int /\ Rank(b) \in Int /\ ~(Rank(b) < Rank(c))
    BY <1>2, <1>4, <2>1, Ranks
  <2>3. <<b, c>> \notin Before
    BY <2>1, <2>2, Ranks
  <2>4. ~(clv[b] < clv[c])
    BY <2>1, <2>3, Ranks
  <2> QED
    BY <1>1, <1>4, <2>1, <2>4
<1>6. \A c \in BandOf(l) : clv[c] >= clv[b] /\ c \in Numbered
  <2> SUFFICES ASSUME NEW c \in BandOf(l) PROVE clv[c] >= clv[b] /\ c \in Numbered
    OBVIOUS
  <2>1. c \in Numbered /\ Rank(c) - 1 \in First(l)..Edge(l)
    BY BandsOfRanks DEF BandOf
  <2>2. Edge(k) + 1 <= First(l) /\ First(l) \in Int
    BY <1>a
  <2>3. Rank(c) \in Int /\ Rank(b) \in Int /\ Rank(b) < Rank(c)
    BY <1>2, <1>4, <2>1, <2>2, Ranks
  <2>4. <<c, b>> \notin Before
    <3>1. ~(Rank(c) < Rank(b))
      BY <2>3
    <3> QED
      BY <2>1, <3>1, Ranks
  <2>5. ~(clv[c] < clv[b])
    BY <2>1, <2>4, Ranks
  <2> QED
    BY <1>1, <1>4, <2>1, <2>5
<1> DEFINE a == clv[b]
           K == BandOf(k)
           L == BandOf(l)
<1>7. /\ IsFiniteSet(K) /\ Cardinality(K) \in Nat
      /\ IsFiniteSet(L) /\ Cardinality(L) \in Nat
  <2>1. K \subseteq Numbered /\ L \subseteq Numbered
    BY DEF BandOf
  <2> QED
    BY <1>1, <2>1, FS_Subset, FS_CardinalityType
<1> HIDE DEF a, K, L
<1>8. /\ \A c \in K : clv[c] \in Int /\ clv[c] <= a
      /\ \A c \in L : clv[c] \in Int /\ clv[c] >= a
      /\ a \in Int
  BY <1>1, <1>4, <1>5, <1>6 DEF a, K, L
<1>9. /\ SumFunctionOnSet(clv, K) \in Int /\ SumFunctionOnSet(clv, L) \in Int
      /\ SumFunctionOnSet(clv, K) <= a * Cardinality(K)
      /\ a * Cardinality(L) <= SumFunctionOnSet(clv, L)
  BY <1>7, <1>8, SumBounds, SumSteps
<1>10. ASSUME NEW v \in Int, NEW w \in Int, NEW m \in Nat, NEW n \in Nat,
              v <= a * m, a * n <= w
       PROVE  v * n <= w * m
  <2>1. a * m \in Int /\ a * n \in Int
    BY <1>8, <1>10
  <2>2. v * n <= (a * m) * n /\ (a * n) * m <= w * m
    BY <1>10, <2>1, Times
  <2>3. (a * m) * n = (a * n) * m /\ (a * m) * n \in Int /\ v * n \in Int /\ w * m \in Int
    BY <1>8, <1>10
  <2> QED
    BY <2>2, <2>3
<1> QED
  BY <1>7, <1>9, <1>10 DEF K, L

(* What the summary says, once there is one.                                *)
LEMMA SummaryOfBands ==
    ASSUME CustomersInv, pc \in {"store", "stored", "rejected"}
    PROVE  /\ Fitted /\ CustomersTyped
           /\ DOMAIN segment_summary = 1..effective_n
           /\ \A k \in 1..effective_n :
                 /\ segment_summary[k].count = Cardinality(BandOf(k))
                 /\ segment_summary[k].value = SumFunctionOnSet(clv, BandOf(k))
                 /\ BandOf(k) # {} =>
                       segment_summary[k].avg_clv =
                           [sum |-> SumFunctionOnSet(clv, BandOf(k)),
                            of |-> Cardinality(BandOf(k))]
           /\ SumFunction([k \in DOMAIN segment_summary |-> segment_summary[k].count]) = n_ranks
           /\ SumFunction([k \in DOMAIN segment_summary |-> segment_summary[k].value])
                  = TotalValue(Customer)
<1>1. Segmented
  BY DEF Segmented
<1>2. /\ Fitted /\ CustomersTyped
      /\ \A k \in 1..effective_n : InBand(k) = BandOf(k)
  BY <1>1, SegmentsAreBands DEF BandOf
<1>3. segment_summary = [k \in 1..effective_n |->
                            [count |-> Cardinality(InBand(k)),
                             value |-> TotalValue(InBand(k)),
                             avg_clv |-> Mean(InBand(k))]]
  BY DEF CustomersInv
<1>4. \A k \in 1..effective_n : BandOf(k) \cap Numbered = BandOf(k)
  BY DEF BandOf
<1>5. /\ DOMAIN segment_summary = 1..effective_n
      /\ \A k \in 1..effective_n :
            /\ segment_summary[k].count = Cardinality(BandOf(k))
            /\ segment_summary[k].value = SumFunctionOnSet(clv, BandOf(k))
            /\ BandOf(k) # {} =>
                  segment_summary[k].avg_clv =
                      [sum |-> SumFunctionOnSet(clv, BandOf(k)), of |-> Cardinality(BandOf(k))]
  BY <1>2, <1>3, <1>4 DEF TotalValue, Mean
<1>6. /\ [k \in DOMAIN segment_summary |-> segment_summary[k].count]
             = [k \in 1..effective_n |-> Cardinality(BandOf(k))]
      /\ [k \in DOMAIN segment_summary |-> segment_summary[k].value]
             = [k \in 1..effective_n |-> SumFunctionOnSet(clv, BandOf(k))]
  BY <1>5
<1>7. TotalValue(Customer) = SumFunctionOnSet(clv, Numbered)
  <2>1. Customer \cap Numbered = Numbered
    BY DEF Numbered
  <2> QED
    BY <2>1 DEF TotalValue
<1> QED
  BY <1>2, <1>5, <1>6, <1>7, Totals

(* Nobody with a value is missing from the summary, nor is their value, and *)
(* of two bands that are not empty, as none is if everybody has a value,    *)
(* the higher one has no lower average.                                     *)
THEOREM SummariesAddUp == CustomersSpec => []SummaryAddsUp
<1>1. ASSUME CustomersInv PROVE SummaryAddsUp
  <2> DEFINE bands == DOMAIN segment_summary
             inhabited == {k \in bands : segment_summary[k].count > 0}
             compared == IF Numbered = Customer THEN bands ELSE inhabited
  <2> SUFFICES ASSUME pc = "store"
               PROVE  /\ SumFunction([k \in bands |-> segment_summary[k].count]) = n_ranks
                      /\ SumFunction([k \in bands |-> segment_summary[k].value])
                             = TotalValue(Customer)
                      /\ \A k, l \in compared :
                            k < l => AtMost(segment_summary[k].avg_clv,
                                            segment_summary[l].avg_clv)
    BY DEF SummaryAddsUp
  <2>1. /\ Fitted /\ CustomersTyped
        /\ bands = 1..effective_n
        /\ \A k \in 1..effective_n :
              /\ segment_summary[k].count = Cardinality(BandOf(k))
              /\ BandOf(k) # {} =>
                    segment_summary[k].avg_clv =
                        [sum |-> SumFunctionOnSet(clv, BandOf(k)),
                         of |-> Cardinality(BandOf(k))]
    BY <1>1, SummaryOfBands
  <2>2. ASSUME NEW k \in compared PROVE k \in 1..effective_n /\ BandOf(k) # {}
    <3>1. k \in 1..effective_n
      BY <2>1
    <3>2. n_ranks \in Nat \ {0} /\ effective_n \in Nat \ {0} /\ effective_n <= n_customers
      BY <2>1, Ranks
    <3>3. CASE Numbered = Customer
      <4>1. n_ranks >= effective_n
        BY <3>2, <3>3 DEF n_ranks, n_customers
      <4>2. Cardinality(BandOf(k)) > 0
        BY <2>1, <3>1, <3>2, <4>1, SizesOfBands, Edges DEF BandOf
      <4> QED
        BY <3>1, <4>2, FS_EmptySet
    <3>4. CASE Numbered # Customer
      <4>1. Cardinality(BandOf(k)) > 0
        BY <2>1, <3>1, <3>4
      <4> QED
        BY <3>1, <4>1, FS_EmptySet
    <3> QED
      BY <3>3, <3>4
  <2> HIDE DEF compared, bands
  <2>3. ASSUME NEW k \in compared, NEW l \in compared, k < l
        PROVE  AtMost(segment_summary[k].avg_clv, segment_summary[l].avg_clv)
    <3>1. /\ k \in 1..effective_n /\ BandOf(k) # {}
          /\ l \in 1..effective_n /\ BandOf(l) # {}
      BY <2>2
    <3>2. SumFunctionOnSet(clv, BandOf(k)) * Cardinality(BandOf(l))
              <= SumFunctionOnSet(clv, BandOf(l)) * Cardinality(BandOf(k))
      BY <2>1, <2>3, <3>1, AveragesRise
    <3> DEFINE a == segment_summary[k].avg_clv
               b == segment_summary[l].avg_clv
    <3>a. /\ a = [sum |-> SumFunctionOnSet(clv, BandOf(k)), of |-> Cardinality(BandOf(k))]
          /\ b = [sum |-> SumFunctionOnSet(clv, BandOf(l)), of |-> Cardinality(BandOf(l))]
      BY <2>1, <3>1, Zenon
    <3> HIDE DEF a, b
    <3>3. /\ a.sum = SumFunctionOnSet(clv, BandOf(k)) /\ a.of = Cardinality(BandOf(k))
          /\ b.sum = SumFunctionOnSet(clv, BandOf(l)) /\ b.of = Cardinality(BandOf(l))
      BY <3>a
    <3>4. AtMost(a, b)
      BY <3>2, <3>3 DEF AtMost
    <3> QED
      BY <3>4 DEF a, b
  <2> QED
    BY <1>1, <2>3, SummaryOfBands DEF bands
<1> QED
  BY <1>1, CustomersInductive, PTL

(* The schema has seen that the correlation is a number and that so are the *)
(* values of the records it was shown.                                      *)
THEOREM StoredWhole == CustomersSpec => []StoredResultsAreWhole
<1>1. ASSUME CustomersInv PROVE StoredResultsAreWhole
  <2> SUFFICES ASSUME pc = "stored"
               PROVE  LET counted == SumFunction([k \in DOMAIN segment_summary |->
                                                     segment_summary[k].count]) IN
                      /\ n_customers <= RECORDS_PREVIEW_LIMIT => counted = n_customers
                      /\ n_customers > RECORDS_PREVIEW_LIMIT => counted >= RECORDS_PREVIEW_LIMIT
                      /\ \/ Cardinality(Eligible) < 2
                         \/ \E c, d \in Eligible : frequency[c] # frequency[d]
    BY DEF StoredResultsAreWhole
  <2>1. /\ Fitted /\ CustomersTyped
        /\ SumFunction([k \in DOMAIN segment_summary |-> segment_summary[k].count]) = n_ranks
    BY <1>1, SummaryOfBands
  <2>2. /\ gamma_gamma_corr # NaN
        /\ \A c \in Customer : c <= RECORDS_PREVIEW_LIMIT => c \in Numbered
    BY <1>1 DEF CustomersInv, Acceptable, ValidFloat, Numbered
  <2>3. /\ n_customers \in Nat /\ Customer = 1..n_customers /\ RECORDS_PREVIEW_LIMIT \in Nat
        /\ Numbered \subseteq Customer /\ IsFiniteSet(Numbered) /\ n_ranks \in Nat
    BY <2>1, CustomersAreFinite, CustomersAssumption DEF Numbered, n_ranks
  <2>4. ASSUME n_customers <= RECORDS_PREVIEW_LIMIT PROVE n_ranks = n_customers
    <3>1. \A c \in Customer : c <= RECORDS_PREVIEW_LIMIT
      BY <2>3, <2>4
    <3>2. Numbered = Customer
      BY <2>2, <2>3, <3>1
    <3> QED
      BY <3>2 DEF n_ranks, n_customers
  <2>5. ASSUME n_customers > RECORDS_PREVIEW_LIMIT PROVE n_ranks >= RECORDS_PREVIEW_LIMIT
    <3>1. 1..RECORDS_PREVIEW_LIMIT \subseteq Numbered
      BY <2>2, <2>3, <2>5
    <3>2. Cardinality(1..RECORDS_PREVIEW_LIMIT) <= Cardinality(Numbered)
      BY <2>3, <3>1, FS_Subset
    <3> QED
      BY <2>3, <3>2, UpTo DEF n_ranks
  <2>6. \/ Cardinality(Eligible) < 2
        \/ \E c, d \in Eligible : frequency[c] # frequency[d]
    <3> SUFFICES ASSUME ~(Cardinality(Eligible) < 2),
                        \A c, d \in Eligible : frequency[c] = frequency[d]
                 PROVE  FALSE
      OBVIOUS
    <3>1. Cardinality(Eligible) \in Nat /\ IsFiniteSet(Eligible)
      BY <2>1, CustomersAreFinite DEF Eligible, RepeatCustomers
    <3>2. gamma_gamma_corr \in Correlations
      BY <2>1, <3>1 DEF Fitted
    <3>3. Eligible # {}
      BY <3>1, FS_EmptySet
    <3>4. PICK c \in Eligible : TRUE
      BY <3>3
    <3>5. {frequency[d] : d \in Eligible} = {frequency[c]}
      BY <3>4
    <3>6. Cardinality({frequency[d] : d \in Eligible}) = 1
      BY <3>5, FS_Singleton
    <3> QED
      BY <2>2, <3>2, <3>6 DEF Correlations
  <2> QED
    BY <2>1, <2>4, <2>5, <2>6
<1> QED
  BY <1>1, CustomersInductive, PTL

----------------------------------------------------------------------------
(* The windows of a backtest.                                               *)

(* All windows together are at least as long as one.                        *)
LEMMA WindowsAreLong ==
    ASSUME NEW h \in 1..MaxHorizon
    PROVE  h * backtest_windows \in Nat /\ h * backtest_windows >= h
<1>1. h \in Nat \ {0} /\ backtest_windows \in Nat \ {0}
      BY BacktestAssumption
<1>2. \A a, b \in Nat \ {0} : a * b \in Nat /\ a * b >= a
      OBVIOUS
<1> QED BY <1>1, <1>2

(* What is known between the choice of the size and the fit.                *)
Chosen ==
    /\ stage = "size" => ~reduced
    /\ stage \in {"check", "split", "fit"} => days > 0
    /\ stage \in {"split", "fit"} => test_size < days
    /\ stage = "none" => days < 2
    /\ stage \in {"check", "split", "fit"} /\ ~reduced => days - test_size > 7
    /\ stage \in {"check", "split", "fit"} /\ reduced => test_size < days \/ days = 1
    /\ stage \in {"check", "split", "fit"} =>
          test_size = IF reduced THEN up_to_all_but_one ELSE full

BacktestInv == BacktestTypeOK /\ Chosen

(* The holdout invariant holds of the first states.                         *)
LEMMA InitBacktest == BacktestInit => BacktestInv
BY BacktestAssumption DEF BacktestInit, BacktestInv, BacktestTypeOK, Chosen

(* And every step keeps it.                                                 *)
LEMMA NextBacktest == BacktestInv /\ [BacktestNext]_backtestVars => BacktestInv'
<1> SUFFICES ASSUME BacktestInv, [BacktestNext]_backtestVars PROVE BacktestInv'
    OBVIOUS
<1>0. /\ days \in Nat /\ days <= MaxDays /\ horizon_days \in Nat /\ horizon_days >= 1
      /\ full \in Nat /\ full >= horizon_days
      BY WindowsAreLong, BacktestAssumption DEF BacktestInv, BacktestTypeOK, full
<1>a. UNCHANGED horizon_days => full' = full
      BY DEF full
<1>b. UNCHANGED <<days, horizon_days>> => up_to_all_but_one' = up_to_all_but_one
      BY DEF up_to_all_but_one
<1>1. CASE NoHistory
      BY <1>0, <1>1 DEF NoHistory, BacktestInv, BacktestTypeOK, Chosen, Goto
<1>2. CASE HoldOutWindows
      BY <1>0, <1>a, <1>2
      DEF HoldOutWindows, BacktestInv, BacktestTypeOK, Chosen, Goto
<1>3. CASE HoldOutLess
  <2>1. /\ test_size' \in 1..full
        /\ test_size' < days \/ days = 1
        BY <1>0, <1>3 DEF HoldOutLess, up_to_all_but_one, Lesser, Greater
  <2> QED BY <1>0, <1>a, <1>b, <1>3, <2>1
          DEF HoldOutLess, BacktestInv, BacktestTypeOK, Chosen, Goto
<1>4. CASE TooShort
      BY <1>0, <1>a, <1>4 DEF TooShort, BacktestInv, BacktestTypeOK, Chosen, Goto
<1>5. CASE LongEnough
      BY <1>0, <1>a, <1>b, <1>5 DEF LongEnough, BacktestInv, BacktestTypeOK, Chosen, Goto
<1>6. CASE Split
  <2>1. 1 \in train /\ days \in test
        BY <1>0, <1>6 DEF Split, BacktestInv, BacktestTypeOK, Chosen, train, test, split_date
  <2>2. stage' = "fit"
        BY <1>6, <2>1 DEF Split, Goto
  <2> QED BY <1>0, <1>a, <1>b, <1>6, <2>2 DEF Split, BacktestInv, BacktestTypeOK, Chosen
<1>7. CASE UNCHANGED backtestVars
      BY <1>a, <1>b, <1>7 DEF backtestVars, BacktestInv, BacktestTypeOK, Chosen
<1> QED BY <1>1, <1>2, <1>3, <1>4, <1>5, <1>6, <1>7 DEF BacktestNext

(* The holdout invariant holds throughout.                                  *)
LEMMA BacktestInvariant == BacktestSpec => []BacktestInv
BY InitBacktest, NextBacktest, PTL DEF BacktestSpec

(* A backtest is made exactly if there are two days with all lags,          *)
(* whatever the horizon: run_backtest never gives up where it need not, and *)
(* never fits a model on nothing.                                           *)
THEOREM BacktestWhenPossible == BacktestSpec => []TwoDaysAreEnough
<1>1. BacktestInv => TwoDaysAreEnough
      BY WindowsAreLong DEF BacktestInv, BacktestTypeOK, Chosen, TwoDaysAreEnough
<1> QED BY <1>1, BacktestInvariant, PTL

(* A number of whole windows is that many windows long, and what is at most *)
(* one window long holds one at most.                                       *)
LEMMA WholeWindows ==
    ASSUME NEW h \in Nat \ {0}, NEW b \in Nat \ {0}
    PROVE  (h * b) \div h = b
<1>1. h * b = h * b + 0 /\ 0 < h
      OBVIOUS
<1> QED BY <1>1

(* One of them.                                                             *)
LEMMA OneWindow ==
    ASSUME NEW h \in Nat \ {0}, NEW t \in 1..h
    PROVE  t \div h = IF t = h THEN 1 ELSE 0
OBVIOUS

(* The metrics are about as many windows as they say, of those that were    *)
(* asked for.                                                               *)
THEOREM BacktestCountsWindows == BacktestSpec => []WindowsAreHeldOut
<1>1. BacktestInv => WindowsAreHeldOut
  <2> SUFFICES ASSUME BacktestInv, stage = "fit"
               PROVE  /\ n_windows \in 1..backtest_windows
                      /\ n_windows * horizon_days > test_size =>
                            n_windows = 1 /\ test_size = days - 1
                      /\ reduced => n_windows = 1
      BY DEF WindowsAreHeldOut
  <2>0. /\ horizon_days \in Nat \ {0} /\ backtest_windows \in Nat \ {0}
        /\ days \in Nat /\ days > 1
        BY WindowsAreLong, BacktestAssumption
        DEF BacktestInv, BacktestTypeOK, Chosen, full
  <2>1. CASE ~reduced
    <3>1. test_size = horizon_days * backtest_windows
          BY <2>1 DEF BacktestInv, Chosen, full
    <3>2. n_windows = backtest_windows
          BY <2>0, <3>1, WholeWindows DEF n_windows, Greater
    <3>3. backtest_windows * horizon_days = horizon_days * backtest_windows
          BY <2>0
    <3>4. horizon_days * backtest_windows \in Nat
          BY <2>0
    <3> QED BY <2>0, <2>1, <3>1, <3>2, <3>3, <3>4
  <2>2. CASE reduced
    <3>1. test_size = up_to_all_but_one
          BY <2>2 DEF BacktestInv, Chosen
    <3>2. /\ test_size \in 1..horizon_days
          /\ test_size < horizon_days => test_size = days - 1
          BY <2>0, <3>1 DEF up_to_all_but_one, Lesser, Greater
    <3>3. n_windows = 1
          BY <2>0, <3>2, OneWindow DEF n_windows, Greater
    <3> QED BY <2>0, <3>2, <3>3
  <2> QED BY <2>1, <2>2 DEF BacktestInv, BacktestTypeOK
<1> QED BY <1>1, BacktestInvariant, PTL
=============================================================================
