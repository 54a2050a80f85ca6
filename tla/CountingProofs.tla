--------------------------- MODULE CountingProofs ---------------------------
(***************************************************************************)
(* Facts about finite sets that the proofs of the algorithms rest on: least *)
(* elements, places in an order, and sums.  Induction is over sets of       *)
(* numbers or of subsets, from the orders that the library's theorems show  *)
(* to be well-founded.                                                      *)
(***************************************************************************)
EXTENDS Integers, FiniteSets, FiniteSetsExt, FiniteSetTheorems, TLAPS

(* Every set of natural numbers has a least one.                            *)
LEMMA LeastNat ==
    ASSUME NEW T \in SUBSET Nat, T # {}
    PROVE  \E n \in T : \A m \in T : n <= m
<1> DEFINE U == {0..n : n \in T}
           R == StrictSubsetOrdering(Nat)
<1>1. U \subseteq FiniteSubsetsOf(Nat) /\ U # {}
  <2>1. \A n \in T : IsFiniteSet(0..n) /\ 0..n \subseteq Nat
    BY FS_Interval
  <2> QED
    BY <2>1 DEF FiniteSubsetsOf
<1>2. IsWellFoundedOn(R, FiniteSubsetsOf(Nat))
  BY FS_StrictSubsetOrderingWellFounded
<1>3. PICK X \in U : \A Y \in U : <<Y, X>> \notin R
  <2> HIDE DEF U, R
  <2> QED
    BY <1>1, <1>2, WFMin
<1>4. PICK n \in T : X = 0..n
  BY <1>3
<1>5. ASSUME NEW m \in T, m < n PROVE FALSE
  <2>1. 0..m \subseteq 0..n /\ n \in (0..n) \ (0..m)
    BY <1>5
  <2>2. <<0..m, 0..n>> \in R
    BY <2>1 DEF StrictSubsetOrdering
  <2> QED
    BY <1>3, <1>4, <2>2
<1> QED
  BY <1>5

(* A set that holds 0 and with a number the next one holds all.             *)
LEMMA NatsByStep ==
    ASSUME NEW S \in SUBSET Nat, 0 \in S, \A n \in S : n + 1 \in S
    PROVE  S = Nat
<1> SUFFICES ASSUME S # Nat PROVE FALSE
  OBVIOUS
<1>1. Nat \ S \in SUBSET Nat /\ Nat \ S # {}
  OBVIOUS
<1>2. PICK n \in Nat \ S : \A m \in Nat \ S : n <= m
  BY <1>1, LeastNat
<1>3. n - 1 \in Nat /\ n - 1 \notin Nat \ S
  BY <1>2
<1> QED
  BY <1>2, <1>3

(* A property of the empty set that one element more does not disturb is    *)
(* one of every finite set.                                                 *)
LEMMA SetsByElement ==
    ASSUME NEW S, IsFiniteSet(S), NEW P \in SUBSET SUBSET S, {} \in P,
           \A T \in P : \A x \in S \ T : T \cup {x} \in P
    PROVE  P = SUBSET S
<1> SUFFICES ASSUME P # SUBSET S PROVE FALSE
  OBVIOUS
<1> DEFINE R == StrictSubsetOrdering(S)
           Q == (SUBSET S) \ P
<1>1. IsWellFoundedOn(R, FiniteSubsetsOf(S)) /\ FiniteSubsetsOf(S) = SUBSET S
  BY FS_StrictSubsetOrderingWellFounded, FS_FiniteSubsetsOfFinite
<1>2. PICK T \in Q : \A U \in Q : <<U, T>> \notin R
  <2>1. Q \subseteq SUBSET S /\ Q # {}
    OBVIOUS
  <2> HIDE DEF R, Q
  <2> QED
    BY <1>1, <2>1, WFMin
<1>3. PICK x \in T : TRUE
  BY <1>2
<1>4. T \ {x} \in SUBSET S /\ <<T \ {x}, T>> \in R
  BY <1>2, <1>3 DEF StrictSubsetOrdering
<1>5. T \ {x} \in P
  BY <1>2, <1>4
<1>6. (T \ {x}) \cup {x} = T /\ x \in S \ (T \ {x})
  BY <1>2, <1>3
<1> QED
  BY <1>2, <1>5, <1>6

(* There are n numbers from 1 to n.                                         *)
LEMMA UpTo == ASSUME NEW n \in Nat PROVE IsFiniteSet(1..n) /\ Cardinality(1..n) = n
BY FS_Interval

(* A factor that both sides have.                                           *)
LEMMA Cancel ==
    ASSUME NEW a \in Int, NEW b \in Int, NEW e \in Nat \ {0}
    PROVE  a * e < b * e <=> a < b
<1>1. ASSUME a < b PROVE a * e < b * e
  <2>1. PICK d \in Nat \ {0} : b = a + d
    <3>1. b - a \in Nat \ {0} /\ b = a + (b - a)
      BY <1>1
    <3> QED
      BY <3>1
  <2>2. (a + d) * e = a * e + d * e /\ d * e > 0
    OBVIOUS
  <2> QED
    BY <2>1, <2>2
<1>2. ASSUME b < a PROVE b * e < a * e
  <2>1. PICK d \in Nat \ {0} : a = b + d
    <3>1. a - b \in Nat \ {0} /\ a = b + (a - b)
      BY <1>2
    <3> QED
      BY <3>1
  <2>2. (b + d) * e = b * e + d * e /\ d * e > 0
    OBVIOUS
  <2> QED
    BY <2>1, <2>2
<1> QED
  BY <1>1, <1>2

(* Both sides as many times.                                                *)
LEMMA Times ==
    ASSUME NEW a \in Int, NEW b \in Int, NEW c \in Nat, a <= b
    PROVE  a * c <= b * c
<1>1. CASE c = 0
  BY <1>1
<1>2. CASE c # 0
  <2>1. ~(b * c < a * c)
    BY <1>2, Cancel
  <2> QED
    BY <2>1
<1> QED
  BY <1>1, <1>2

(* The quotient, rounded down, is the greatest number that fits.            *)
LEMMA Quotient ==
    ASSUME NEW a \in Int, NEW e \in Nat \ {0}
    PROVE  /\ a \div e \in Int
           /\ \A k \in Int : k <= a \div e <=> k * e <= a
<1> DEFINE q == a \div e
<1>1. q \in Int /\ q * e <= a /\ a < (q + 1) * e
  OBVIOUS
<1> HIDE DEF q
<1>2. ASSUME NEW k \in Int
      PROVE  k <= q <=> k * e <= a
  <2>1. ASSUME k <= q PROVE k * e <= a
    <3>1. ~(q * e < k * e)
      BY <1>1, <2>1, Cancel
    <3> QED
      BY <1>1, <3>1
  <2>2. ASSUME q < k PROVE a < k * e
    <3>1. ~(k * e < (q + 1) * e)
      BY <1>1, <2>2, Cancel
    <3> QED
      BY <1>1, <3>1
  <2> QED
    BY <1>1, <2>1, <2>2
<1> QED
  BY <1>1, <1>2 DEF q

----------------------------------------------------------------------------
(* The least and the greatest member.                                       *)

(* A finite set of integers has both, and Min and Max are they.             *)
LEMMA Extremes ==
    ASSUME NEW S \in SUBSET Int, IsFiniteSet(S), S # {}
    PROVE  /\ Min(S) \in S /\ \A x \in S : Min(S) <= x
           /\ Max(S) \in S /\ \A x \in S : x <= Max(S)
<1> DEFINE P == {T \in SUBSET S : T # {} =>
                    /\ \E x \in T : \A y \in T : x <= y
                    /\ \E x \in T : \A y \in T : x >= y}
<1>1. ASSUME NEW T \in P, NEW z \in S \ T PROVE T \cup {z} \in P
  <2>1. CASE T = {}
    BY <2>1
  <2>2. CASE T # {}
    <3>1. PICK a \in T : \A y \in T : a <= y
      BY <2>2
    <3>2. PICK b \in T : \A y \in T : b >= y
      BY <2>2
    <3>3. \E x \in T \cup {z} : \A y \in T \cup {z} : x <= y
      BY <3>1
    <3>4. \E x \in T \cup {z} : \A y \in T \cup {z} : x >= y
      BY <3>2
    <3> QED
      BY <3>3, <3>4
  <2> QED
    BY <2>1, <2>2
<1>2. {} \in P /\ P \in SUBSET SUBSET S
  OBVIOUS
<1>3. \A T \in P : \A z \in S \ T : T \cup {z} \in P
  BY <1>1
<1>4. P = SUBSET S
  <2> HIDE DEF P
  <2> QED
    BY <1>2, <1>3, SetsByElement
<1>5. S \in P
  BY <1>4
<1> QED
  BY <1>5 DEF Min, Max

----------------------------------------------------------------------------
(* Places.  In a finite set with a strict order of all its members, each    *)
(* place from 0 up is that of one member.                                   *)

StrictOrder(R, S) ==
    /\ \A x \in S : <<x, x>> \notin R
    /\ \A x, y \in S : x # y => <<x, y>> \in R \/ <<y, x>> \in R
    /\ \A x, y, z \in S : <<x, y>> \in R /\ <<y, z>> \in R => <<x, z>> \in R

Place(x, R, S) == Cardinality({y \in S : <<y, x>> \in R})

(* Places differ, follow the order, and none is left out.                   *)
LEMMA Places ==
    ASSUME NEW S, IsFiniteSet(S), NEW R, StrictOrder(R, S)
    PROVE  /\ \A x \in S : Place(x, R, S) \in 0..(Cardinality(S) - 1)
           /\ \A x, y \in S : <<x, y>> \in R <=> Place(x, R, S) < Place(y, R, S)
           /\ \A x, y \in S : Place(x, R, S) = Place(y, R, S) => x = y
           /\ \A i \in 0..(Cardinality(S) - 1) : \E x \in S : Place(x, R, S) = i
<1> DEFINE B(x) == {y \in S : <<y, x>> \in R}
           n == Cardinality(S)
           f == [x \in S |-> Cardinality(B(x))]
           T == 0..(n - 1)
<1>1. n \in Nat
  BY FS_CardinalityType
<1>2. ASSUME NEW x \in S
      PROVE  IsFiniteSet(B(x)) /\ f[x] \in T
  <2>1. B(x) \in SUBSET S /\ B(x) # S
    BY DEF StrictOrder
  <2>2. IsFiniteSet(B(x)) /\ Cardinality(B(x)) <= n /\ Cardinality(B(x)) # n
    <3> HIDE DEF B
    <3> QED
      BY <2>1, FS_Subset
  <2>3. Cardinality(B(x)) \in Nat
    <3> HIDE DEF B
    <3> QED
      BY <2>2, FS_CardinalityType
  <2> QED
    BY <1>1, <2>2, <2>3
<1>3. ASSUME NEW x \in S, NEW y \in S, <<x, y>> \in R
      PROVE  f[x] < f[y]
  <2>1. B(x) \in SUBSET B(y) /\ B(x) # B(y)
    BY <1>3 DEF StrictOrder
  <2>2. Cardinality(B(x)) <= Cardinality(B(y)) /\ Cardinality(B(x)) # Cardinality(B(y))
    <3>1. IsFiniteSet(B(y))
      BY <1>2
    <3> HIDE DEF B
    <3> QED
      BY <2>1, <3>1, FS_Subset
  <2>3. f[x] \in T /\ f[y] \in T /\ f[x] = Cardinality(B(x)) /\ f[y] = Cardinality(B(y))
    BY <1>2
  <2> QED
    BY <1>1, <2>2, <2>3
<1>4. \A x \in S : f[x] = Place(x, R, S)
  BY DEF Place
<1>5. f \in [S -> T]
  BY <1>2
<1>6. IsFiniteSet(T) /\ Cardinality(T) = n
  BY <1>1, FS_Interval
<1> HIDE DEF f
<1>7. \A x, y \in S : <<x, y>> \in R <=> f[x] < f[y]
  <2>1. \A x, y \in S : <<x, y>> \in R => f[x] < f[y]
    BY <1>3
  <2>2. \A x \in S : f[x] \in Int
    BY <1>1, <1>5
  <2> SUFFICES ASSUME NEW x \in S, NEW y \in S, f[x] < f[y]
               PROVE  <<x, y>> \in R
    BY <2>1
  <2>3. x # y /\ <<y, x>> \notin R
    BY <2>1, <2>2
  <2> QED
    BY <2>3 DEF StrictOrder
<1>8. \A x, y \in S : f[x] = f[y] => x = y
  BY <1>1, <1>5, <1>7 DEF StrictOrder
<1>9. f \in Injection(S, T)
  BY <1>5, <1>8 DEF Injection, IsInjective
<1>10. f \in Surjection(S, T)
  <2> HIDE DEF T
  <2> QED
    BY <1>6, <1>9, FS_Injection
<1>11. \A i \in T : \E x \in S : f[x] = i
  BY <1>10 DEF Surjection
<1> QED
  BY <1>4, <1>5, <1>7, <1>8, <1>11

(* As many members have places from a to b as there are such places.        *)
LEMMA PlacesBetween ==
    ASSUME NEW S, IsFiniteSet(S), NEW R, StrictOrder(R, S),
           NEW a \in Nat, NEW b \in Int, a <= b + 1, b < Cardinality(S)
    PROVE  Cardinality({x \in S : Place(x, R, S) \in a..b}) = b - a + 1
<1> DEFINE T == {x \in S : Place(x, R, S) \in a..b}
           f == [x \in T |-> Place(x, R, S)]
<1>1. /\ \A x, y \in S : Place(x, R, S) = Place(y, R, S) => x = y
      /\ \A i \in 0..(Cardinality(S) - 1) : \E x \in S : Place(x, R, S) = i
  BY Places
<1>2. Cardinality(S) \in Nat
  BY FS_CardinalityType
<1>3. IsFiniteSet(a..b) /\ Cardinality(a..b) = b - a + 1
  BY FS_Interval
<1>4. f \in [T -> a..b] /\ \A x, y \in T : f[x] = f[y] => x = y
  BY <1>1
<1>5. \A i \in a..b : \E x \in T : f[x] = i
  <2> SUFFICES ASSUME NEW i \in a..b PROVE \E x \in T : f[x] = i
    OBVIOUS
  <2>1. i \in 0..(Cardinality(S) - 1)
    BY <1>2
  <2> QED
    BY <1>1, <2>1
<1>6. f \in Injection(T, a..b) /\ f \in Surjection(T, a..b)
  BY <1>4, <1>5 DEF Injection, IsInjective, Surjection
<1>7. Cardinality(T) = Cardinality(a..b)
  BY <1>3, <1>6, FS_Injection
<1> QED
  BY <1>3, <1>7

----------------------------------------------------------------------------
(* Sums.  SumFunctionOnSet takes the members of a set one after the other   *)
(* in an order nobody knows; it is a sum in any order.                      *)

Pick(s) == CHOOSE x \in s : TRUE

(* g sums f over the subsets of S.                                          *)
Sums(g, f, S) ==
    g = [t \in SUBSET S |-> IF t = {} THEN 0 ELSE f[Pick(t)] + g[t \ {Pick(t)}]]

(* There is one such function: two of them agree where both are defined.    *)
LEMMA SumsAgree ==
    ASSUME NEW f, NEW S, IsFiniteSet(S), NEW T \in SUBSET S,
           NEW g, Sums(g, f, S), NEW h, Sums(h, f, T)
    PROVE  \A t \in SUBSET T : g[t] = h[t]
<1> DEFINE R == StrictSubsetOrdering(S)
           Q == {t \in SUBSET T : g[t] # h[t]}
<1> SUFFICES ASSUME Q # {} PROVE FALSE
  OBVIOUS
<1>1. IsWellFoundedOn(R, FiniteSubsetsOf(S)) /\ FiniteSubsetsOf(S) = SUBSET S
  BY FS_StrictSubsetOrderingWellFounded, FS_FiniteSubsetsOfFinite
<1>2. PICK t \in Q : \A u \in Q : <<u, t>> \notin R
  <2>1. Q \subseteq SUBSET S
    OBVIOUS
  <2> HIDE DEF R, Q
  <2> QED
    BY <1>1, <2>1, WFMin
<1>3. t \in SUBSET T /\ t \in SUBSET S /\ g[t] # h[t]
  BY <1>2
<1>4. t # {}
  BY <1>3 DEF Sums
<1>5. Pick(t) \in t
  BY <1>4 DEF Pick
<1>6. t \ {Pick(t)} \in SUBSET T /\ <<t \ {Pick(t)}, t>> \in R
  BY <1>3, <1>5 DEF StrictSubsetOrdering
<1>7. g[t \ {Pick(t)}] = h[t \ {Pick(t)}]
  BY <1>2, <1>6
<1>8. g[t] = f[Pick(t)] + g[t \ {Pick(t)}] /\ h[t] = f[Pick(t)] + h[t \ {Pick(t)}]
  BY <1>3, <1>4 DEF Sums
<1> QED
  BY <1>3, <1>7, <1>8

(* And there is one, built up from the smaller subsets.                     *)
LEMMA SumsExist ==
    ASSUME NEW f, NEW S, IsFiniteSet(S), \A x \in S : f[x] \in Int
    PROVE  \E g \in [SUBSET S -> Int] : Sums(g, f, S)
<1> DEFINE Small(n) == {t \in SUBSET S : Cardinality(t) <= n}
           Value(g, t) == IF t = {} THEN 0 ELSE f[Pick(t)] + g[t \ {Pick(t)}]
           P == {n \in Nat : \E g \in [Small(n) -> Int] :
                    \A t \in Small(n) : g[t] = Value(g, t)}
<1>1. \A t \in SUBSET S : IsFiniteSet(t) /\ Cardinality(t) \in Nat
                         /\ Cardinality(t) <= Cardinality(S)
                         /\ (Cardinality(t) = 0 => t = {})
  BY FS_Subset, FS_CardinalityType, FS_EmptySet
<1>2. \A t \in SUBSET S : t # {} =>
         /\ Pick(t) \in t /\ t \ {Pick(t)} \in SUBSET S
         /\ Cardinality(t \ {Pick(t)}) = Cardinality(t) - 1
  BY <1>1, FS_RemoveElement DEF Pick
<1>3. 0 \in P
  <2>1. \A t \in Small(0) : t = {}
    BY <1>1
  <2>2. [t \in Small(0) |-> 0] \in [Small(0) -> Int]
    OBVIOUS
  <2> QED
    BY <2>1, <2>2
<1>4. ASSUME NEW n \in P PROVE n + 1 \in P
  <2>1. PICK g \in [Small(n) -> Int] : \A t \in Small(n) : g[t] = Value(g, t)
    BY <1>4
  <2> DEFINE h == [t \in Small(n + 1) |-> IF t \in Small(n) THEN g[t] ELSE Value(g, t)]
  <2>2. ASSUME NEW t \in Small(n + 1), t # {}
        PROVE  t \ {Pick(t)} \in Small(n) /\ t \ {Pick(t)} \in Small(n + 1) /\ f[Pick(t)] \in Int
    BY <1>1, <1>2, <2>2
  <2>3. h \in [Small(n + 1) -> Int]
    BY <2>2
  <2>4. ASSUME NEW t \in Small(n + 1) PROVE h[t] = Value(h, t)
    <3>1. CASE t = {}
      BY <2>1, <3>1
    <3>2. CASE t # {}
      <4>1. h[t \ {Pick(t)}] = g[t \ {Pick(t)}]
        BY <2>2, <3>2
      <4>2. h[t] = Value(g, t)
        BY <2>1
      <4> QED
        BY <3>2, <4>1, <4>2
    <3> QED
      BY <3>1, <3>2
  <2>5. \A t \in Small(n + 1) : h[t] = Value(h, t)
    BY <2>4
  <2>6. n + 1 \in Nat
    BY <1>4
  <2> HIDE DEF h, Value, Small
  <2> QED
    BY <2>3, <2>5, <2>6
<1>5. Cardinality(S) \in P
  <2>1. P \in SUBSET Nat /\ \A n \in P : n + 1 \in P
    BY <1>4
  <2>2. P = Nat
    <3> HIDE DEF P
    <3> QED
      BY <1>3, <2>1, NatsByStep
  <2> QED
    BY <2>2, FS_CardinalityType
<1>6. Small(Cardinality(S)) = SUBSET S
  BY <1>1
<1>7. PICK g \in [SUBSET S -> Int] : \A t \in SUBSET S : g[t] = Value(g, t)
  BY <1>5, <1>6
<1>8. g = [t \in SUBSET S |-> Value(g, t)]
  BY <1>7
<1> QED
  BY <1>8 DEF Sums

(* What the definition of the sum is an abbreviation of.                    *)
LEMMA SumIsSums ==
    ASSUME NEW f, NEW S, IsFiniteSet(S), \A x \in S : f[x] \in Int,
           NEW g, Sums(g, f, S)
    PROVE  /\ g \in [SUBSET S -> Int]
           /\ \A T \in SUBSET S : SumFunctionOnSet(f, T) = g[T]
<1>1. ASSUME NEW T \in SUBSET S
      PROVE  SumFunctionOnSet(f, T) = g[T]
  <2> DEFINE iter == CHOOSE h : Sums(h, f, T)
  <2>1. SumFunctionOnSet(f, T) = iter[T]
    BY DEF SumFunctionOnSet, FoldFunctionOnSet, MapThenFoldSet, Sums, Pick
  <2>2. IsFiniteSet(T) /\ \A x \in T : f[x] \in Int
    BY FS_Subset
  <2>3. \E h : Sums(h, f, T)
    BY <2>2, SumsExist
  <2>4. Sums(iter, f, T)
    BY <2>3
  <2> HIDE DEF iter
  <2> QED
    BY <2>1, <2>4, SumsAgree
<1>2. PICK h \in [SUBSET S -> Int] : Sums(h, f, S)
  BY SumsExist
<1>3. S \in SUBSET S
  OBVIOUS
<1>4. \A t \in SUBSET S : g[t] = h[t]
  BY <1>2, <1>3, SumsAgree
<1>5. DOMAIN g = SUBSET S /\ g = [t \in DOMAIN g |-> g[t]]
  BY DEF Sums
<1> QED
  BY <1>1, <1>2, <1>4, <1>5

(* Of nothing, and of one member more.                                      *)
LEMMA SumSteps ==
    ASSUME NEW f, NEW S, IsFiniteSet(S), \A x \in S : f[x] \in Int
    PROVE  /\ SumFunctionOnSet(f, {}) = 0
           /\ SumFunctionOnSet(f, S) \in Int
           /\ \A x \in S : SumFunctionOnSet(f, S)
                              = f[x] + SumFunctionOnSet(f, S \ {x})
<1>1. PICK g \in [SUBSET S -> Int] : Sums(g, f, S)
  BY SumsExist
<1>2. \A T \in SUBSET S : SumFunctionOnSet(f, T) = g[T]
  BY <1>1, SumIsSums
<1> DEFINE R == StrictSubsetOrdering(S)
           Q == {t \in SUBSET S : \E x \in t : g[t] # f[x] + g[t \ {x}]}
<1>3. ASSUME Q # {} PROVE FALSE
  <2>1. IsWellFoundedOn(R, FiniteSubsetsOf(S)) /\ FiniteSubsetsOf(S) = SUBSET S
    BY FS_StrictSubsetOrderingWellFounded, FS_FiniteSubsetsOfFinite
  <2>2. PICK t \in Q : \A u \in Q : <<u, t>> \notin R
    <3>1. Q \subseteq SUBSET S
      OBVIOUS
    <3> HIDE DEF R, Q
    <3> QED
      BY <1>3, <2>1, <3>1, WFMin
  <2>3. PICK x \in t : g[t] # f[x] + g[t \ {x}]
    BY <2>2
  <2> DEFINE p == Pick(t)
  <2>4. t \in SUBSET S /\ p \in t /\ g[t] = f[p] + g[t \ {p}]
    BY <1>1, <2>2, <2>3 DEF Sums, Pick
  <2> HIDE DEF p
  <2>5. x # p
    BY <2>3, <2>4
  <2>6. /\ <<t \ {p}, t>> \in R /\ <<t \ {x}, t>> \in R
        /\ t \ {p} \in SUBSET S /\ t \ {x} \in SUBSET S
        /\ x \in t \ {p} /\ p \in t \ {x}
        /\ (t \ {p}) \ {x} = (t \ {x}) \ {p} /\ (t \ {p}) \ {x} \in SUBSET S
    BY <2>4, <2>5 DEF StrictSubsetOrdering
  <2>7. t \ {p} \notin Q /\ t \ {x} \notin Q
    BY <2>2, <2>6
  <2>8. /\ g[t \ {p}] = f[x] + g[(t \ {p}) \ {x}]
        /\ g[t \ {x}] = f[p] + g[(t \ {x}) \ {p}]
    BY <2>6, <2>7
  <2>9. f[x] \in Int /\ f[p] \in Int /\ g[(t \ {p}) \ {x}] \in Int
    BY <1>1, <2>4, <2>6
  <2>10. g[t] = f[p] + (f[x] + g[(t \ {p}) \ {x}])
    BY <2>4, <2>8
  <2>11. f[x] + g[t \ {x}] = f[x] + (f[p] + g[(t \ {p}) \ {x}])
    BY <2>6, <2>8
  <2> QED
    BY <2>3, <2>9, <2>10, <2>11
<1>4. \A x \in S : g[S] = f[x] + g[S \ {x}]
  BY <1>3
<1>5. g[{}] = 0
  BY <1>1 DEF Sums
<1>6. S \in SUBSET S /\ {} \in SUBSET S /\ \A x \in S : S \ {x} \in SUBSET S
  OBVIOUS
<1> QED
  BY <1>1, <1>2, <1>4, <1>5, <1>6

(* The sum of nothing, whatever the function.                               *)
LEMMA SumOfNone == \A f : SumFunctionOnSet(f, {}) = 0
<1> SUFFICES ASSUME NEW f PROVE SumFunctionOnSet(f, {}) = 0
  OBVIOUS
<1>1. IsFiniteSet({}) /\ \A x \in {} : f[x] \in Int
  BY FS_EmptySet
<1> QED
  BY <1>1, SumSteps

(* One member more adds its number.                                         *)
LEMMA SumAdd ==
    ASSUME NEW f, NEW S, IsFiniteSet(S), NEW x, x \notin S,
           \A y \in S \cup {x} : f[y] \in Int
    PROVE  /\ SumFunctionOnSet(f, S \cup {x}) = f[x] + SumFunctionOnSet(f, S)
           /\ SumFunctionOnSet(f, S) \in Int
<1>1. IsFiniteSet(S \cup {x}) /\ x \in S \cup {x} /\ (S \cup {x}) \ {x} = S
  BY FS_AddElement
<1>2. SumFunctionOnSet(f, S \cup {x}) = f[x] + SumFunctionOnSet(f, (S \cup {x}) \ {x})
  BY <1>1, SumSteps
<1>3. SumFunctionOnSet(f, S) \in Int
  BY SumSteps
<1> QED
  BY <1>1, <1>2, <1>3

(* A sum of greater numbers is greater, and only what is summed matters.    *)
LEMMA SumMonotonic ==
    ASSUME NEW S, IsFiniteSet(S), NEW f, NEW g,
           \A x \in S : f[x] \in Int /\ g[x] \in Int /\ f[x] <= g[x]
    PROVE  SumFunctionOnSet(f, S) <= SumFunctionOnSet(g, S)
<1> DEFINE P == {T \in SUBSET S : SumFunctionOnSet(f, T) <= SumFunctionOnSet(g, T)}
<1>1. \A T \in SUBSET S : IsFiniteSet(T)
  BY FS_Subset
<1>2. {} \in P
  BY SumOfNone
<1>3. ASSUME NEW T \in P, NEW x \in S \ T PROVE T \cup {x} \in P
  <2>1. /\ SumFunctionOnSet(f, T \cup {x}) = f[x] + SumFunctionOnSet(f, T)
        /\ SumFunctionOnSet(f, T) \in Int
    BY <1>1, SumAdd
  <2>2. /\ SumFunctionOnSet(g, T \cup {x}) = g[x] + SumFunctionOnSet(g, T)
        /\ SumFunctionOnSet(g, T) \in Int
    BY <1>1, SumAdd
  <2>3. f[x] \in Int /\ g[x] \in Int /\ f[x] <= g[x]
    OBVIOUS
  <2>4. SumFunctionOnSet(f, T) <= SumFunctionOnSet(g, T)
    OBVIOUS
  <2>5. SumFunctionOnSet(f, T \cup {x}) <= SumFunctionOnSet(g, T \cup {x})
    BY <2>1, <2>2, <2>3, <2>4
  <2> QED
    BY <2>5
<1>4. P \in SUBSET SUBSET S /\ \A T \in P : \A x \in S \ T : T \cup {x} \in P
  BY <1>3
<1>5. P = SUBSET S
  <2> HIDE DEF P
  <2> QED
    BY <1>2, <1>4, SetsByElement
<1> QED
  BY <1>5

(* Functions that agree on a set have the same sum there.                   *)
LEMMA SumAgrees ==
    ASSUME NEW S, IsFiniteSet(S), NEW f, NEW g,
           \A x \in S : f[x] \in Int /\ f[x] = g[x]
    PROVE  SumFunctionOnSet(f, S) = SumFunctionOnSet(g, S)
<1>1. SumFunctionOnSet(f, S) <= SumFunctionOnSet(g, S)
      /\ SumFunctionOnSet(g, S) <= SumFunctionOnSet(f, S)
  BY SumMonotonic
<1>2. \A x \in S : f[x] \in Int /\ g[x] \in Int
  OBVIOUS
<1>3. SumFunctionOnSet(f, S) \in Int
  BY <1>2, SumSteps
<1>4. SumFunctionOnSet(g, S) \in Int
  BY <1>2, SumSteps
<1> QED
  BY <1>1, <1>3, <1>4

(* Of equal numbers.                                                        *)
LEMMA SumOfEquals ==
    ASSUME NEW S, IsFiniteSet(S), NEW f, NEW c \in Int, \A x \in S : f[x] = c
    PROVE  SumFunctionOnSet(f, S) = c * Cardinality(S)
<1> DEFINE P == {T \in SUBSET S : SumFunctionOnSet(f, T) = c * Cardinality(T)}
<1>1. \A T \in SUBSET S : IsFiniteSet(T) /\ Cardinality(T) \in Nat
  BY FS_Subset, FS_CardinalityType
<1>2. {} \in P
  <2>1. SumFunctionOnSet(f, {}) = 0
    BY SumOfNone
  <2> QED
    BY <2>1, FS_EmptySet
<1>3. ASSUME NEW T \in P, NEW x \in S \ T PROVE T \cup {x} \in P
  <2>1. SumFunctionOnSet(f, T \cup {x}) = f[x] + SumFunctionOnSet(f, T)
    BY <1>1, SumAdd
  <2>2. Cardinality(T \cup {x}) = Cardinality(T) + 1
    BY <1>1, FS_AddElement
  <2>3. \A n \in Nat : c + c * n = c * (n + 1)
    OBVIOUS
  <2>4. SumFunctionOnSet(f, T \cup {x}) = c * Cardinality(T \cup {x})
    BY <1>1, <2>1, <2>2, <2>3
  <2> QED
    BY <2>4
<1>4. P \in SUBSET SUBSET S /\ \A T \in P : \A x \in S \ T : T \cup {x} \in P
  BY <1>3
<1>5. P = SUBSET S
  <2> HIDE DEF P
  <2> QED
    BY <1>2, <1>4, SetsByElement
<1> QED
  BY <1>5

(* Of numbers that are at most, or at least, a number.                      *)
LEMMA SumBounds ==
    ASSUME NEW S, IsFiniteSet(S), NEW f, NEW c \in Int, \A x \in S : f[x] \in Int
    PROVE  /\ (\A x \in S : f[x] <= c) => SumFunctionOnSet(f, S) <= c * Cardinality(S)
           /\ (\A x \in S : f[x] >= c) => c * Cardinality(S) <= SumFunctionOnSet(f, S)
<1> DEFINE g == [x \in S |-> c]
<1>1. \A x \in S : g[x] = c
  OBVIOUS
<1> HIDE DEF g
<1>2. SumFunctionOnSet(g, S) = c * Cardinality(S)
  BY <1>1, SumOfEquals
<1>3. ASSUME \A x \in S : f[x] <= c
      PROVE  SumFunctionOnSet(f, S) <= SumFunctionOnSet(g, S)
  BY <1>1, <1>3, SumMonotonic
<1>4. ASSUME \A x \in S : f[x] >= c
      PROVE  SumFunctionOnSet(g, S) <= SumFunctionOnSet(f, S)
  <2>1. \A x \in S : g[x] \in Int /\ f[x] \in Int /\ g[x] <= f[x]
    BY <1>1, <1>4
  <2> QED
    BY <2>1, SumMonotonic
<1> QED
  BY <1>2, <1>3, <1>4

(* Of two parts.                                                            *)
LEMMA SumOfParts ==
    ASSUME NEW S, IsFiniteSet(S), NEW U, IsFiniteSet(U), S \cap U = {},
           NEW f, \A x \in S \cup U : f[x] \in Int
    PROVE  SumFunctionOnSet(f, S \cup U)
               = SumFunctionOnSet(f, S) + SumFunctionOnSet(f, U)
<1> DEFINE P == {T \in SUBSET U : SumFunctionOnSet(f, S \cup T)
                                     = SumFunctionOnSet(f, S) + SumFunctionOnSet(f, T)}
<1>1. \A T \in SUBSET U : IsFiniteSet(T) /\ IsFiniteSet(S \cup T)
  BY FS_Subset, FS_Union
<1>2. SumFunctionOnSet(f, S) \in Int
  BY SumSteps
<1>3. {} \in P
  <2>1. SumFunctionOnSet(f, {}) = 0 /\ S \cup {} = S
    BY SumOfNone
  <2> QED
    BY <1>2, <2>1
<1>4. ASSUME NEW T \in P, NEW x \in U \ T PROVE T \cup {x} \in P
  <2>1. /\ SumFunctionOnSet(f, T \cup {x}) = f[x] + SumFunctionOnSet(f, T)
        /\ SumFunctionOnSet(f, T) \in Int
    BY <1>1, SumAdd
  <2>2. /\ SumFunctionOnSet(f, (S \cup T) \cup {x}) = f[x] + SumFunctionOnSet(f, S \cup T)
        /\ f[x] \in Int
    BY <1>1, SumAdd
  <2>3. SumFunctionOnSet(f, S \cup (T \cup {x})) = SumFunctionOnSet(f, (S \cup T) \cup {x})
    <3>1. S \cup (T \cup {x}) = (S \cup T) \cup {x}
      OBVIOUS
    <3> QED
      BY <3>1
  <2>4. SumFunctionOnSet(f, S \cup T) = SumFunctionOnSet(f, S) + SumFunctionOnSet(f, T)
    OBVIOUS
  <2>5. SumFunctionOnSet(f, S \cup (T \cup {x}))
            = SumFunctionOnSet(f, S) + SumFunctionOnSet(f, T \cup {x})
    BY <1>2, <2>1, <2>2, <2>3, <2>4
  <2> QED
    BY <2>5
<1>5. P \in SUBSET SUBSET U /\ \A T \in P : \A x \in U \ T : T \cup {x} \in P
  BY <1>4
<1>6. P = SUBSET U
  <2> HIDE DEF P
  <2> QED
    BY <1>3, <1>5, SetsByElement
<1> QED
  BY <1>6

----------------------------------------------------------------------------
(* The members of a set, one in each place.                                 *)

Lists(o, R, S) ==
    o = [i \in 1..Cardinality(S) |-> CHOOSE x \in S : Place(x, R, S) = i - 1]

Listed(o, R, S) ==
    /\ Cardinality(S) \in Nat
    /\ o \in [1..Cardinality(S) -> S]
    /\ \A i \in 1..Cardinality(S) : Place(o[i], R, S) = i - 1
    /\ \A i, k \in 1..Cardinality(S) : i < k <=> <<o[i], o[k]>> \in R
    /\ \A i, k \in 1..Cardinality(S) : o[i] = o[k] => i = k
    /\ \A x \in S : \E i \in 1..Cardinality(S) : o[i] = x

(* InOrder lists a strictly ordered set in its order, each member once.     *)
LEMMA InOrderFacts ==
    ASSUME NEW S, IsFiniteSet(S), NEW R, StrictOrder(R, S),
           NEW o, Lists(o, R, S)
    PROVE  Listed(o, R, S)
<1> DEFINE n == Cardinality(S)
<1>1. n \in Nat
  BY FS_CardinalityType
<1>2. /\ \A x \in S : Place(x, R, S) \in 0..(n - 1)
      /\ \A x, y \in S : <<x, y>> \in R <=> Place(x, R, S) < Place(y, R, S)
      /\ \A x, y \in S : Place(x, R, S) = Place(y, R, S) => x = y
      /\ \A i \in 0..(n - 1) : \E x \in S : Place(x, R, S) = i
  BY Places
<1> HIDE DEF n
<1>3. \A i \in 1..n : o[i] \in S /\ Place(o[i], R, S) = i - 1
  <2> SUFFICES ASSUME NEW i \in 1..n
               PROVE  o[i] \in S /\ Place(o[i], R, S) = i - 1
    OBVIOUS
  <2>1. i - 1 \in 0..(n - 1)
    BY <1>1
  <2>2. \E x \in S : Place(x, R, S) = i - 1
    BY <1>2, <2>1
  <2>3. o[i] = CHOOSE x \in S : Place(x, R, S) = i - 1
    BY DEF n, Lists
  <2> QED
    BY <2>2, <2>3
<1>4. o \in [1..n -> S]
  BY <1>3 DEF n, Lists
<1>5. \A i, k \in 1..n : i < k <=> <<o[i], o[k]>> \in R
  BY <1>1, <1>2, <1>3
<1>6. \A i, k \in 1..n : o[i] = o[k] => i = k
  <2> SUFFICES ASSUME NEW i \in 1..n, NEW k \in 1..n, o[i] = o[k] PROVE i = k
    OBVIOUS
  <2>1. i - 1 = k - 1
    BY <1>3
  <2> QED
    BY <1>1, <2>1
<1>7. \A x \in S : \E i \in 1..n : o[i] = x
  <2> SUFFICES ASSUME NEW x \in S PROVE \E i \in 1..n : o[i] = x
    OBVIOUS
  <2>1. Place(x, R, S) + 1 \in 1..n /\ Place(x, R, S) \in Int
    BY <1>1, <1>2
  <2>2. Place(o[Place(x, R, S) + 1], R, S) = Place(x, R, S)
    BY <1>3, <2>1
  <2> QED
    BY <1>2, <1>3, <2>1, <2>2
<1> QED
  BY <1>1, <1>3, <1>4, <1>5, <1>6, <1>7 DEF n, Listed

(* Of integers, in ascending order.                                         *)
Ascends(o, S) ==
    o = [i \in 1..Cardinality(S) |->
            CHOOSE x \in S : Cardinality({y \in S : y < x}) = i - 1]

Ascending(o, S) ==
    /\ Cardinality(S) \in Nat
    /\ o \in [1..Cardinality(S) -> S]
    /\ \A i, k \in 1..Cardinality(S) : i < k <=> o[i] < o[k]
    /\ \A i, k \in 1..Cardinality(S) : o[i] = o[k] => i = k
    /\ \A x \in S : \E i \in 1..Cardinality(S) : o[i] = x

(* InOrder(S, <) is the members of S, each once, the lower ones first.      *)
LEMMA AscendingFacts ==
    ASSUME NEW S \in SUBSET Int, IsFiniteSet(S), NEW o, Ascends(o, S)
    PROVE  Ascending(o, S)
<1> DEFINE R == {e \in S \X S : e[1] < e[2]}
<1>1. \A x, y \in S : <<x, y>> \in R <=> x < y
  OBVIOUS
<1>2. StrictOrder(R, S)
  <2>1. \A x \in S : x \in Int
    OBVIOUS
  <2> HIDE DEF R
  <2> QED
    BY <1>1, <2>1 DEF StrictOrder
<1>3. \A x \in S : {y \in S : y < x} = {y \in S : <<y, x>> \in R}
  BY <1>1
<1> HIDE DEF R
<1>4. Lists(o, R, S)
  <2> DEFINE c(i) == CHOOSE x \in S : Cardinality({y \in S : y < x}) = i - 1
             d(i) == CHOOSE x \in S : Place(x, R, S) = i - 1
  <2>1. \A i \in 1..Cardinality(S) : c(i) = d(i)
    BY <1>3 DEF Place
  <2>2. o = [i \in 1..Cardinality(S) |-> c(i)]
    BY DEF Ascends
  <2>3. o = [i \in 1..Cardinality(S) |-> d(i)]
    <3> HIDE DEF c, d
    <3> QED
      BY <2>1, <2>2
  <2> QED
    BY <2>3 DEF Lists
<1>5. Listed(o, R, S)
  BY <1>2, <1>4, InOrderFacts
<1> QED
  BY <1>1, <1>5 DEF Listed, Ascending
=============================================================================
