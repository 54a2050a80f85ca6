-------------------------- MODULE ValidationProofs --------------------------
(***************************************************************************)
(* Theorems of Validation, for any headers, aliases, rows, defects and      *)
(* limits: which header a column comes from, under which reason a row is    *)
(* counted, and that what is left and what was counted make up the file.    *)
(***************************************************************************)
EXTENDS Validation, CountingProofs

----------------------------------------------------------------------------
(* Columns: a column is mapped as soon as a header that means it was read.  *)

ColumnsTyped ==
    /\ columns \in Seq(Headers)
    /\ \A i, k \in 1..Len(columns) : columns[i] = columns[k] => i = k
    /\ DOMAIN rename_map \subseteq Seen

MappedAgrees ==
    \A c : c \in DOMAIN mapped <=>
             c # NoName /\ \E i \in 1..Len(columns) : Meaning[columns[i]] = c

ColumnsInv == ColumnsTyped /\ MappedAgrees /\ FirstMatchWins

(* Before the first header.                                                 *)
LEMMA InitColumns == ColumnsInit => ColumnsInv
BY DEF ColumnsInit, ColumnsInv, ColumnsTyped, MappedAgrees, FirstMatchWins, Seen

(* A header more.                                                           *)
LEMMA HeaderFacts ==
    ASSUME ColumnsInv, NEW h \in Headers, NextHeader(h)
    PROVE  /\ columns' \in Seq(Headers) /\ Len(columns) \in Nat
           /\ Len(columns') = Len(columns) + 1
           /\ columns'[Len(columns) + 1] = h
           /\ \A i \in 1..Len(columns) : columns'[i] = columns[i] /\ columns[i] # h
           /\ Seen' = Seen \cup {h} /\ h \notin DOMAIN rename_map
<1>1. /\ columns \in Seq(Headers) /\ columns' = Append(columns, h) /\ h \notin Seen
      /\ DOMAIN rename_map \subseteq Seen
      BY DEF ColumnsInv, ColumnsTyped, NextHeader
<1>2. /\ columns' \in Seq(Headers) /\ Len(columns) \in Nat
      /\ Len(columns') = Len(columns) + 1 /\ columns'[Len(columns) + 1] = h
      /\ \A i \in 1..Len(columns) : columns'[i] = columns[i]
      BY <1>1
<1>3. \A i \in 1..Len(columns) : columns[i] # h
      BY <1>1 DEF Seen
<1>4. Seen' = Seen \cup {h}
      BY <1>2 DEF Seen
<1> QED BY <1>1, <1>2, <1>3, <1>4

(* Reading it keeps ColumnsInv.                                             *)
LEMMA NextColumns == ColumnsInv /\ [ColumnsNext]_columnVars => ColumnsInv'
<1> SUFFICES ASSUME ColumnsInv, [ColumnsNext]_columnVars PROVE ColumnsInv'
    OBVIOUS
<1>1. ASSUME NEW h \in Headers, SkipHeader(h) PROVE ColumnsInv'
  <2>1. NextHeader(h) /\ UNCHANGED <<rename_map, mapped>>
        BY <1>1 DEF SkipHeader
  <2>2. Meaning[h] = NoName \/ \E i \in 1..Len(columns) : Meaning[columns[i]] = Meaning[h]
        BY <1>1 DEF SkipHeader, Taken, ColumnsInv, MappedAgrees
  <2>3. ColumnsTyped'
    <3>1. \A i, k \in 1..Len(columns') : columns'[i] = columns'[k] => i = k
          BY <2>1, HeaderFacts DEF ColumnsInv, ColumnsTyped
    <3> QED BY <2>1, <3>1, HeaderFacts DEF ColumnsInv, ColumnsTyped
  <2>4. MappedAgrees'
        BY <2>1, <2>2, HeaderFacts DEF ColumnsInv, MappedAgrees
  <2>5. FirstMatchWins'
        BY <2>1, <2>2, HeaderFacts DEF ColumnsInv, FirstMatchWins
  <2> QED BY <2>3, <2>4, <2>5 DEF ColumnsInv
<1>2. ASSUME NEW h \in Headers, MapHeader(h) PROVE ColumnsInv'
  <2>1. /\ NextHeader(h) /\ Meaning[h] # NoName
        /\ DOMAIN rename_map' = DOMAIN rename_map \cup {h}
        /\ rename_map'[h] = Meaning[h]
        /\ \A g \in DOMAIN rename_map \ {h} : rename_map'[g] = rename_map[g]
        /\ DOMAIN mapped' = DOMAIN mapped \cup {Meaning[h]}
        /\ mapped'[Meaning[h]] = h
        /\ \A c \in DOMAIN mapped \ {Meaning[h]} : mapped'[c] = mapped[c]
        BY <1>2 DEF MapHeader, Extend
  <2>2. \A i \in 1..Len(columns) : Meaning[columns[i]] # Meaning[h]
        BY <1>2 DEF MapHeader, Taken, ColumnsInv, MappedAgrees
  <2>3. ColumnsTyped'
        BY <2>1, HeaderFacts DEF ColumnsInv, ColumnsTyped
  <2>4. MappedAgrees'
        BY <2>1, <2>2, HeaderFacts DEF ColumnsInv, MappedAgrees
  <2>5. FirstMatchWins'
        BY <2>1, <2>2, HeaderFacts DEF ColumnsInv, FirstMatchWins, MappedAgrees
  <2> QED BY <2>3, <2>4, <2>5 DEF ColumnsInv
<1>3. CASE UNCHANGED columnVars
      BY <1>3 DEF columnVars, ColumnsInv, ColumnsTyped, MappedAgrees, FirstMatchWins, Seen
<1> QED BY <1>1, <1>2, <1>3 DEF ColumnsNext

(* Two headers share a name only if one was spelled like it, after the other. *)
LEMMA LiteralClashes == ColumnsInv => ClashesComeFromLiterals
<1> SUFFICES ASSUME ColumnsInv,
                    NEW h1 \in Kept, NEW h2 \in Kept, h1 # h2 /\ NewName(h1) = NewName(h2)
             PROVE  \E i, k \in 1..Len(columns) :
                        /\ i < k
                        /\ {columns[i], columns[k]} = {h1, h2}
                        /\ columns[k] = NewName(h1)
    BY Zenon DEF ClashesComeFromLiterals
<1>1. PICK i, k \in 1..Len(columns) : columns[i] = h1 /\ columns[k] = h2
      BY DEF Kept, Seen
<1>2. i # k /\ Len(columns) \in Nat
      BY <1>1 DEF ColumnsInv, ColumnsTyped
<1>3. NewName(h1) \in Canonical /\ \A c \in Canonical : Meaning[c] = c /\ c # NoName
      BY ColumnsAssumption DEF COLUMN_ALIASES, Kept
<1>4. ASSUME NEW a \in 1..Len(columns), NEW b \in 1..Len(columns),
             columns[a] \in DOMAIN rename_map, columns[b] \notin DOMAIN rename_map,
             NewName(columns[a]) = NewName(columns[b]), NewName(columns[b]) \in Canonical
      PROVE  a < b /\ columns[b] = NewName(columns[a])
  <2>1. NewName(columns[b]) = columns[b] /\ Meaning[columns[b]] = columns[b]
        BY <1>3, <1>4 DEF NewName
  <2>2. Meaning[columns[a]] = NewName(columns[a])
        BY <1>4 DEF NewName, ColumnsInv, FirstMatchWins
  <2>3. \A j \in 1..(a - 1) : Meaning[columns[j]] # Meaning[columns[a]]
        BY <1>4 DEF ColumnsInv, FirstMatchWins
  <2> QED BY <1>2, <1>4, <2>1, <2>2, <2>3
<1>5. CASE h1 \in DOMAIN rename_map /\ h2 \in DOMAIN rename_map
      BY <1>1, <1>5 DEF NewName, ColumnsInv, FirstMatchWins
<1>6. CASE h1 \notin DOMAIN rename_map /\ h2 \notin DOMAIN rename_map
      BY <1>6 DEF NewName
<1>7. CASE h1 \in DOMAIN rename_map /\ h2 \notin DOMAIN rename_map
      BY <1>1, <1>3, <1>4, <1>7
<1>8. CASE h1 \notin DOMAIN rename_map /\ h2 \in DOMAIN rename_map
      BY <1>1, <1>3, <1>4, <1>8
<1> QED BY <1>5, <1>6, <1>7, <1>8

----------------------------------------------------------------------------
(* Rows: what is left has passed the filters so far.                        *)

Passed(i, n) == \A t \in 1..n : Reasons[t] \notin Defects[rows[i]]

RowsTyped ==
    /\ Len(rows) \in Nat
    /\ stage \in 0..Done

FiltersAgree ==
    /\ stage \in 1..Filtered => ~Rejected
    /\ stage \in 0..Filtered => out = {i \in Index : Passed(i, stage)}
    /\ DOMAIN dropped_by_reason \subseteq {Reasons[t] : t \in 1..stage}

ValidationInv == ColumnsInv /\ RowsTyped /\ FiltersAgree /\ CountsAreFirstOffences

(* The reasons are eight, and different.                                    *)
LEMMA ReasonFacts ==
    /\ Filtered = 8 /\ Done = 9
    /\ \A s, t \in 1..Filtered : Reasons[s] = Reasons[t] => s = t
BY DEF Reasons, Filtered, Done

(* The rows a filter drops are those it is the first to have something      *)
(* against.                                                                 *)
LEMMA MaskFacts ==
    ASSUME ValidationInv, stage < Filtered
    PROVE  /\ stage + 1 \in 1..Filtered
           /\ Mask(Reasons[stage + 1]) = {i \in Index : FirstOffence(i, stage + 1)}
           /\ Counted(Reasons[stage + 1]) = 0
           /\ IsFiniteSet(Mask(Reasons[stage + 1]))
<1>1. /\ stage \in 0..7 /\ out = {i \in Index : Passed(i, stage)}
      /\ DOMAIN dropped_by_reason \subseteq {Reasons[t] : t \in 1..stage}
      BY ReasonFacts DEF ValidationInv, RowsTyped, FiltersAgree
<1>2. ASSUME NEW i \in Index
      PROVE  FirstOffence(i, stage + 1) <=>
                Passed(i, stage) /\ Reasons[stage + 1] \in Defects[rows[i]]
      BY <1>1, ReasonFacts DEF FirstOffence, Offences, Passed
<1>3. Mask(Reasons[stage + 1]) = {i \in Index : FirstOffence(i, stage + 1)}
      BY <1>1, <1>2 DEF Mask
<1>4. Reasons[stage + 1] \notin DOMAIN dropped_by_reason
      BY <1>1, ReasonFacts
<1>5. IsFiniteSet(Mask(Reasons[stage + 1]))
  <2>1. IsFiniteSet(Index)
        BY FS_Interval DEF Index, ValidationInv, RowsTyped
  <2> QED BY <1>3, <2>1, FS_Subset
<1> QED BY <1>1, <1>3, <1>4, <1>5, ReasonFacts DEF Counted

(* At first every row is left, and nothing counted.                         *)
LEMMA InitValidation == ValidationInit => ValidationInv
<1> SUFFICES ASSUME ValidationInit PROVE ValidationInv
    OBVIOUS
<1>1. ColumnsInv
      BY InitColumns DEF ValidationInit
<1>2. PICK n \in 0..MaxLen : rows \in [1..n -> Contents]
      BY DEF ValidationInit
<1>3. RowsTyped
  <2>1. n \in Nat /\ Len(rows) = n
        BY <1>2, ValidationAssumption
  <2> QED BY <2>1, ReasonFacts DEF ValidationInit, RowsTyped
<1>4. FiltersAgree
      BY ReasonFacts DEF ValidationInit, FiltersAgree, Passed, Index
<1>5. CountsAreFirstOffences
      BY ReasonFacts DEF ValidationInit, CountsAreFirstOffences, Counted
<1> QED BY <1>1, <1>3, <1>4, <1>5 DEF ValidationInv

(* A filter counts the rows it drops, once.                                 *)
LEMMA DropMaskKeeps ==
    ASSUME ValidationInv, DropMask
    PROVE  ValidationInv'
<1> DEFINE mask == Mask(Reasons[stage + 1])
<1>0. /\ stage \in 0..7 /\ stage' = stage + 1 /\ ~Rejected
      /\ out' = out \ mask
      /\ dropped_by_reason' =
            IF mask = {} THEN dropped_by_reason
            ELSE Extend(dropped_by_reason, Reasons[stage + 1], 0 + Cardinality(mask))
      /\ UNCHANGED <<columnVars, rows>>
  <2>1. stage < Filtered
        BY DEF DropMask, Filtering
  <2>2. Counted(Reasons[stage + 1]) = 0
        BY <2>1, MaskFacts
  <2>3. stage \in 0..7 /\ (stage # 0 => ~Rejected)
        BY <2>1, ReasonFacts DEF ValidationInv, RowsTyped, FiltersAgree
  <2> QED BY <2>2, <2>3 DEF DropMask, Filtering, Without
<1>1. /\ mask = {i \in Index : FirstOffence(i, stage + 1)} /\ stage + 1 \in 1..Filtered
      /\ IsFiniteSet(mask) /\ Cardinality(mask) \in Nat
  <2>1. IsFiniteSet(mask) => Cardinality(mask) \in Nat
        BY FS_CardinalityType
  <2> QED BY <1>0, <2>1, MaskFacts, ReasonFacts
<1>2. ColumnsInv' /\ Rejected' = Rejected
  <2>1. [ColumnsNext]_columnVars
        BY <1>0
  <2>2. ColumnsInv'
        BY <2>1, NextColumns DEF ValidationInv
  <2>3. Rejected' = Rejected
        BY <1>0 DEF columnVars, Rejected, MissingRequired, Kept, NewName, Seen
  <2> QED BY <2>2, <2>3
<1>3. RowsTyped'
      BY <1>0, ReasonFacts DEF ValidationInv, RowsTyped
<1>4. FiltersAgree'
  <2>1. out = {i \in Index : Passed(i, stage)}
        BY <1>0, ReasonFacts DEF ValidationInv, FiltersAgree
  <2>2. \A i \in Index : Passed(i, stage + 1) <=>
                           Passed(i, stage) /\ Reasons[stage + 1] \notin Defects[rows[i]]
        BY <1>0 DEF Passed
  <2>3. out' = {i \in Index' : Passed(i, stage)'}
        BY <1>0, <2>1, <2>2 DEF Mask, Passed, Index
  <2>4. DOMAIN dropped_by_reason' \subseteq {Reasons[t] : t \in 1..stage'}
    <3>1. DOMAIN dropped_by_reason' \subseteq DOMAIN dropped_by_reason \cup {Reasons[stage + 1]}
          BY <1>0 DEF Extend
    <3> QED BY <1>0, <3>1 DEF ValidationInv, FiltersAgree
  <2> QED BY <1>0, <1>2, <2>3, <2>4, ReasonFacts DEF FiltersAgree
<1>5. CountsAreFirstOffences'
  <2> SUFFICES ASSUME NEW s \in 1..Filtered
               PROVE  Counted(Reasons[s])' = IF s <= stage + 1
                          THEN Cardinality({i \in Index : FirstOffence(i, s)}) ELSE 0
      BY <1>0, <1>2 DEF CountsAreFirstOffences, Index, FirstOffence, Offences
  <2>1. Counted(Reasons[s]) = IF s <= stage
                 THEN Cardinality({i \in Index : FirstOffence(i, s)}) ELSE 0
        BY <1>0 DEF ValidationInv, CountsAreFirstOffences
  <2>2. CASE s # stage + 1
    <3>1. Reasons[s] # Reasons[stage + 1]
          BY <1>1, <2>2, ReasonFacts
    <3>2. Counted(Reasons[s])' = Counted(Reasons[s])
          BY <1>0, <3>1 DEF Counted, Extend
    <3> QED BY <1>0, <2>1, <2>2, <3>2, ReasonFacts
  <2>3. CASE s = stage + 1
    <3>1. mask = {} => Counted(Reasons[s])' = Counted(Reasons[s])
          BY <1>0 DEF Counted
    <3>2. mask # {} => Counted(Reasons[s])' = Cardinality(mask)
          BY <1>0, <1>1, <2>3 DEF Counted, Extend
    <3>3. mask = {} => Cardinality(mask) = 0
          BY FS_EmptySet
    <3> QED BY <1>0, <1>1, <2>1, <2>3, <3>1, <3>2, <3>3
  <2> QED BY <2>2, <2>3
<1> QED BY <1>2, <1>3, <1>4, <1>5 DEF ValidationInv

(* And every other step keeps the invariant too.                            *)
LEMMA NextValidation == ValidationInv /\ [ValidationNext]_validationVars => ValidationInv'
<1> SUFFICES ASSUME ValidationInv, [ValidationNext]_validationVars PROVE ValidationInv'
    OBVIOUS
<1>0. [ColumnsNext]_columnVars /\ ColumnsInv'
  <2>1. [ColumnsNext]_columnVars
        BY DEF ValidationNext, ReadHeader, RejectFile, DropMask, DropDuplicates,
           Raise, validationVars
  <2> QED BY <2>1, NextColumns DEF ValidationInv
<1>1. CASE ReadHeader
  <2>1. RowsTyped' /\ FiltersAgree'
        BY <1>1, ReasonFacts
        DEF ReadHeader, ValidationInv, RowsTyped, FiltersAgree, Passed, Index
  <2>2. CountsAreFirstOffences'
        BY <1>1, ReasonFacts
        DEF ReadHeader, ValidationInv, CountsAreFirstOffences, Counted
  <2> QED BY <1>0, <2>1, <2>2 DEF ValidationInv
<1>2. CASE RejectFile
  <2>1. /\ stage = 0 /\ stage' = 9 /\ Rejected' /\ dropped_by_reason' = dropped_by_reason
        /\ rows' = rows /\ DOMAIN dropped_by_reason = {}
    <3>1. Rejected' = Rejected
          BY <1>2 DEF RejectFile, columnVars, Rejected, MissingRequired, Kept, NewName, Seen
    <3>2. stage = 0 => DOMAIN dropped_by_reason = {}
      <4>1. DOMAIN dropped_by_reason \subseteq {Reasons[t] : t \in 1..stage}
            BY DEF ValidationInv, FiltersAgree
      <4>2. {Reasons[t] : t \in 1..0} = {}
            OBVIOUS
      <4> QED BY <4>1, <4>2
    <3> QED BY <1>2, <3>1, <3>2, ReasonFacts DEF RejectFile
  <2>2. RowsTyped' /\ FiltersAgree'
        BY <2>1, ReasonFacts DEF ValidationInv, RowsTyped, FiltersAgree
  <2>3. CountsAreFirstOffences'
        BY <2>1 DEF CountsAreFirstOffences, Counted
  <2> QED BY <1>0, <2>2, <2>3 DEF ValidationInv
<1>3. CASE DropMask
      BY <1>3, DropMaskKeeps
<1>4. CASE DropDuplicates
  <2>1. /\ stage = 8 /\ stage' = 9 /\ ~Rejected' /\ ~Rejected /\ rows' = rows
        /\ dropped_by_reason' = dropped_by_reason
    <3>1. Rejected' = Rejected
          BY <1>4 DEF DropDuplicates, columnVars, Rejected, MissingRequired, Kept, NewName, Seen
    <3> QED BY <1>4, <3>1, ReasonFacts DEF DropDuplicates, ValidationInv, FiltersAgree
  <2>2. RowsTyped' /\ FiltersAgree'
        BY <2>1, ReasonFacts DEF ValidationInv, RowsTyped, FiltersAgree
  <2>3. CountsAreFirstOffences'
    <3>1. \A s \in 1..Filtered : s <= stage /\ s <= stage'
          BY <2>1, ReasonFacts
    <3> SUFFICES ASSUME NEW s \in 1..Filtered
                 PROVE  Counted(Reasons[s])' = Cardinality({i \in Index : FirstOffence(i, s)})
        BY <2>1, <3>1 DEF CountsAreFirstOffences, Index, FirstOffence, Offences
    <3>2. Counted(Reasons[s]) = Cardinality({i \in Index : FirstOffence(i, s)})
          BY <2>1, <3>1 DEF ValidationInv, CountsAreFirstOffences
    <3> QED BY <2>1, <3>2 DEF Counted
  <2> QED BY <1>0, <2>2, <2>3 DEF ValidationInv
<1>5. CASE Raise \/ UNCHANGED validationVars
  <2>1. UNCHANGED <<columnVars, rows, stage, out, dropped_by_reason>>
        BY <1>5 DEF Raise, validationVars
  <2>2. Rejected' = Rejected
        BY <2>1 DEF columnVars, Rejected, MissingRequired, Kept, NewName, Seen
  <2> QED BY <1>0, <2>1, <2>2
      DEF ValidationInv, RowsTyped, FiltersAgree, Passed, CountsAreFirstOffences, Counted,
          FirstOffence, Offences, Index
<1> QED BY <1>1, <1>2, <1>3, <1>4, <1>5 DEF ValidationNext

(* The invariant holds throughout.                                          *)
LEMMA ValidationInvariant == ValidationSpec => []ValidationInv
BY InitValidation, NextValidation, PTL DEF ValidationSpec

(* Whatever the aliases and the order of the headers, the data of a column  *)
(* come from the first header that means it.                                *)
THEOREM HeadersAreResolved == ValidationSpec => []FirstMatchWins
<1>1. ValidationInv => FirstMatchWins
      BY DEF ValidationInv, ColumnsInv
<1> QED BY <1>1, ValidationInvariant, PTL

(* And two columns share a name only if the later was spelled like it.      *)
THEOREM ClashesAreExplained == ValidationSpec => []ClashesComeFromLiterals
<1>1. ValidationInv => ClashesComeFromLiterals
      BY LiteralClashes DEF ValidationInv, ColumnsInv
<1> QED BY <1>1, ValidationInvariant, PTL

(* Whatever is wrong with a row, the report counts it once, under the first *)
(* filter that has something against it.                                    *)
THEOREM OffencesAreCountedOnce == ValidationSpec => []CountsAreFirstOffences
<1>1. ValidationInv => CountsAreFirstOffences
      BY DEF ValidationInv
<1> QED BY <1>1, ValidationInvariant, PTL

----------------------------------------------------------------------------
(* The report: what is left and what is counted make up the file.           *)

Clean == {i \in Index : Defects[rows[i]] = {}}
FirstsOf(I) == {i \in I : \A k \in I : rows[k] = rows[i] => i <= k}

ReportAgrees ==
    /\ rows \in Seq(Contents)
    /\ \A r \in DOMAIN dropped_by_reason : dropped_by_reason[r] \in Nat
    /\ stage \in 0..Filtered =>
          Len(rows) = Cardinality(out) + SumFunction(dropped_by_reason)
    /\ stage = Done /\ Rejected => out = {} /\ errors = TRUE
    /\ stage = Done /\ ~Rejected =>
          /\ out = FirstsOf(Clean) /\ errors = (out = {})
          /\ duplicates \in Int
          /\ Len(rows) = Cardinality(out) + duplicates + SumFunction(dropped_by_reason)

(* The filters so far have had columns of their own to convert, and at the  *)
(* end there is no column that has not.                                     *)
NamesAgree ==
    /\ stage \in 0..Filtered => \A t \in 1..stage : ColumnOf[t] \notin Doubled
    /\ stage = Done => Rejected \/ Doubled = {}
    /\ raised => ~Rejected /\ Doubled # {}

ReportInv == ValidationInv /\ NamesAgree /\ ReportAgrees

(* The reasons of a report and the rows of a file are finitely many.        *)
LEMMA ReportsAreFinite ==
    ASSUME ReportInv
    PROVE  /\ IsFiniteSet(DOMAIN dropped_by_reason)
           /\ SumFunction(dropped_by_reason) \in Int
           /\ IsFiniteSet(Index) /\ Cardinality(Index) = Len(rows) /\ Len(rows) \in Nat
           /\ stage \in 0..Done
<1>1. Len(rows) \in Nat /\ stage \in 0..Done /\ Filtered = 8 /\ Done = 9
  BY ReasonFacts DEF ReportInv, ValidationInv, RowsTyped
<1>2. IsFiniteSet(Index) /\ Cardinality(Index) = Len(rows)
  BY <1>1, UpTo DEF Index
<1>3. DOMAIN dropped_by_reason \subseteq {Reasons[t] : t \in 1..stage}
  BY DEF ReportInv, ValidationInv, FiltersAgree
<1>4. IsFiniteSet({Reasons[t] : t \in 1..stage})
  <2> DEFINE f == [t \in 1..stage |-> Reasons[t]]
  <2>1. f \in Surjection(1..stage, {Reasons[t] : t \in 1..stage})
    BY DEF Surjection
  <2>2. IsFiniteSet(1..stage)
    BY <1>1, UpTo
  <2> QED
    BY <2>1, <2>2, FS_Surjection
<1>5. IsFiniteSet(DOMAIN dropped_by_reason)
  BY <1>3, <1>4, FS_Subset
<1>6. \A r \in DOMAIN dropped_by_reason : dropped_by_reason[r] \in Int
  BY DEF ReportInv, ReportAgrees
<1>7. SumFunction(dropped_by_reason) \in Int
  BY <1>5, <1>6, SumSteps DEF SumFunction
<1> QED
  BY <1>1, <1>2, <1>5, <1>7

(* A row that has passed all filters has no defect.                         *)
LEMMA PassedAll ==
    ASSUME ReportInv, stage = Filtered
    PROVE  out = Clean
<1>1. out = {i \in Index : Passed(i, 8)}
  BY ReasonFacts DEF ReportInv, ValidationInv, FiltersAgree
<1>2. ASSUME NEW i \in Index
      PROVE  Passed(i, 8) <=> Defects[rows[i]] = {}
  <2>1. rows[i] \in Contents
    BY DEF Index, ReportInv, ReportAgrees
  <2>2. Defects[rows[i]] \subseteq {Reasons[s] : s \in 1..8}
    BY <2>1, ReasonFacts, ValidationAssumption DEF Conversions, Reason, Filtered
  <2> QED
    BY <2>2 DEF Passed
<1> QED
  BY <1>1, <1>2 DEF Clean

(* Every row has a first copy, and only one.                                *)
LEMMA FirstCopiesAreAll ==
    ASSUME rows \in Seq(Contents)
    PROVE  LET clean == {rows[i] : i \in Clean} IN
           /\ IsFiniteSet(FirstsOf(Clean)) /\ IsFiniteSet(clean)
           /\ {rows[i] : i \in FirstsOf(Clean)} = clean
           /\ Cardinality(FirstsOf(Clean)) = Cardinality(clean)
           /\ FirstsOf(Clean) = {} <=> clean = {}
<1> DEFINE F == FirstsOf(Clean)
           clean == {rows[i] : i \in Clean}
           f == [i \in F |-> rows[i]]
<1>1. Len(rows) \in Nat /\ Clean \subseteq 1..Len(rows)
  BY DEF Clean, Index
<1>2. IsFiniteSet(Clean) /\ IsFiniteSet(F)
  <2>1. IsFiniteSet(1..Len(rows))
    BY <1>1, UpTo
  <2>2. IsFiniteSet(Clean)
    BY <1>1, <2>1, FS_Subset
  <2>3. F \subseteq Clean
    BY DEF FirstsOf
  <2> QED
    BY <2>2, <2>3, FS_Subset
<1>3. ASSUME NEW i \in Clean
      PROVE  \E k \in F : rows[k] = rows[i]
  <2> DEFINE C == {k \in Clean : rows[k] = rows[i]}
  <2>1. C \subseteq Nat /\ i \in C
    <3>1. Clean \subseteq Nat
      BY <1>1
    <3> QED
      BY <3>1
  <2>2. PICK k \in C : \A l \in C : k <= l
    <3> HIDE DEF C
    <3> QED
      BY <2>1, LeastNat
  <2>3. k \in F
    BY <2>2 DEF FirstsOf
  <2> QED
    BY <2>2, <2>3
<1>4. ASSUME NEW i \in F, NEW k \in F, rows[i] = rows[k]
      PROVE  i = k
  <2>1. i \in Clean /\ k \in Clean /\ i <= k /\ k <= i
    BY <1>4 DEF FirstsOf
  <2>2. i \in Int /\ k \in Int
    BY <1>1, <2>1
  <2> QED
    BY <2>1, <2>2
<1>5. F \subseteq Clean
  BY DEF FirstsOf
<1> HIDE DEF F
<1>6. f \in Surjection(F, clean) /\ f \in Injection(F, clean)
  BY <1>3, <1>4, <1>5 DEF Surjection, Injection, IsInjective
<1>7. IsFiniteSet(clean) /\ Cardinality(clean) = Cardinality(F)
  BY <1>2, <1>6, FS_Surjection
<1>8. {rows[i] : i \in F} = clean
  <2>1. {rows[i] : i \in F} \subseteq clean
    BY <1>5
  <2>2. ASSUME NEW x \in clean PROVE x \in {rows[i] : i \in F}
    BY <1>3
  <2> QED
    BY <2>1, <2>2
<1>9. F = {} <=> clean = {}
  <2>1. ASSUME F = {} PROVE Clean = {}
    BY <1>3, <2>1
  <2>2. clean = {} => Clean = {}
    OBVIOUS
  <2> QED
    BY <1>5, <2>1, <2>2
<1> QED
  BY <1>2, <1>7, <1>8, <1>9 DEF F

(* A filter moves the rows it drops from what is left to what is counted.   *)
LEMMA DropMaskReports ==
    ASSUME ReportInv, DropMask
    PROVE  ReportAgrees'
<1> DEFINE mask == Mask(Reasons[stage + 1])
           reason == Reasons[stage + 1]
           sum == SumFunction(dropped_by_reason)
<1>1. stage < Filtered /\ stage' = stage + 1 /\ rows' = rows /\ out' = out \ mask
  BY DEF DropMask, Filtering, Without
<1>2. /\ IsFiniteSet(DOMAIN dropped_by_reason) /\ sum \in Int
      /\ IsFiniteSet(Index) /\ stage \in 0..7 /\ Filtered = 8 /\ Done = 9
  BY <1>1, ReportsAreFinite, ReasonFacts
<1>3. /\ IsFiniteSet(mask) /\ Cardinality(mask) \in Nat /\ Counted(reason) = 0
  BY <1>1, MaskFacts, FS_CardinalityType DEF ReportInv
<1>4. dropped_by_reason' = IF mask = {} THEN dropped_by_reason
                           ELSE Extend(dropped_by_reason, reason, Cardinality(mask))
  BY <1>3 DEF DropMask
<1>5. reason \notin DOMAIN dropped_by_reason
  <2>1. DOMAIN dropped_by_reason \subseteq {Reasons[t] : t \in 1..stage}
    BY DEF ReportInv, ValidationInv, FiltersAgree
  <2> QED
    BY <1>2, <2>1, ReasonFacts
<1>6. /\ Len(rows) = Cardinality(out) + sum
      /\ \A r \in DOMAIN dropped_by_reason : dropped_by_reason[r] \in Nat
      /\ rows \in Seq(Contents)
  BY <1>2 DEF ReportInv, ReportAgrees
<1>7. /\ Cardinality(out') = Cardinality(out) - Cardinality(mask)
      /\ Cardinality(out) \in Nat
  <2>1. out \subseteq Index /\ mask \subseteq out
    BY <1>2 DEF ReportInv, ValidationInv, FiltersAgree, Mask
  <2>2. IsFiniteSet(out) /\ Cardinality(out) \in Nat
    BY <1>2, <2>1, FS_Subset, FS_CardinalityType
  <2>3. IsFiniteSet(out \ mask) /\ out = (out \ mask) \cup mask /\ (out \ mask) \cap mask = {}
    BY <2>1, <2>2, FS_Subset
  <2>4. Cardinality(out) = Cardinality(out \ mask) + Cardinality(mask) - 0
    <3> HIDE DEF mask
    <3>1. Cardinality((out \ mask) \cup mask)
             = Cardinality(out \ mask) + Cardinality(mask)
                   - Cardinality((out \ mask) \cap mask)
      BY <1>3, <2>3, FS_Union
    <3> QED
      BY <2>3, <3>1, FS_EmptySet
  <2>5. Cardinality(out \ mask) \in Nat
    BY <2>3, FS_CardinalityType
  <2> HIDE DEF mask
  <2> QED
    BY <1>1, <1>3, <2>2, <2>4, <2>5
<1> HIDE DEF mask, reason
<1>8. /\ SumFunction(dropped_by_reason') = sum + Cardinality(mask)
      /\ \A r \in DOMAIN dropped_by_reason' : dropped_by_reason'[r] \in Nat
  <2>1. CASE mask = {}
    <3>1. Cardinality(mask) = 0 /\ dropped_by_reason' = dropped_by_reason
      BY <1>4, <2>1, FS_EmptySet
    <3> QED
      BY <1>2, <1>6, <3>1
  <2>2. CASE mask # {}
    <3> DEFINE D == DOMAIN dropped_by_reason
               g == dropped_by_reason'
    <3>1. /\ DOMAIN g = D \cup {reason} /\ g[reason] = Cardinality(mask)
          /\ \A r \in D : g[r] = dropped_by_reason[r]
      BY <1>4, <1>5, <2>2 DEF Extend
    <3>2. \A r \in D \cup {reason} : g[r] \in Nat
      BY <1>3, <1>6, <3>1
    <3> HIDE DEF D, g
    <3>3. SumFunctionOnSet(g, D \cup {reason}) = g[reason] + SumFunctionOnSet(g, D)
      <4>1. reason \notin D /\ IsFiniteSet(D) /\ \A r \in D \cup {reason} : g[r] \in Int
        BY <1>2, <1>5, <3>2 DEF D
      <4> QED
        BY <4>1, SumAdd
    <3>4. SumFunctionOnSet(g, D) = SumFunctionOnSet(dropped_by_reason, D)
      <4>1. IsFiniteSet(D) /\ \A r \in D : g[r] \in Int /\ g[r] = dropped_by_reason[r]
        BY <1>2, <3>1, <3>2 DEF D
      <4> QED
        BY <4>1, SumAgrees
    <3>5. SumFunctionOnSet(g, DOMAIN g) = Cardinality(mask) + sum
      BY <3>1, <3>3, <3>4 DEF SumFunction, D
    <3>6. SumFunction(g) = sum + Cardinality(mask)
      BY <1>2, <1>3, <3>5 DEF SumFunction
    <3> QED
      BY <3>1, <3>2, <3>6 DEF g
  <2> QED
    BY <2>1, <2>2
<1>9. Len(rows) = Cardinality(out') + SumFunction(dropped_by_reason')
  BY <1>2, <1>3, <1>6, <1>7, <1>8
<1> QED
  BY <1>1, <1>2, <1>6, <1>8, <1>9 DEF ReportAgrees

(* The other steps.                                                         *)
LEMMA ReportsKeep == ReportInv /\ [ValidationNext]_validationVars => ReportAgrees'
<1> SUFFICES ASSUME ReportInv, [ValidationNext]_validationVars PROVE ReportAgrees'
  OBVIOUS
<1>1. /\ Filtered = 8 /\ Done = 9 /\ stage \in 0..Done /\ rows \in Seq(Contents)
      /\ \A r \in DOMAIN dropped_by_reason : dropped_by_reason[r] \in Nat
  BY ReportsAreFinite, ReasonFacts DEF ReportInv, ReportAgrees
<1>2. CASE ReadHeader
  BY <1>1, <1>2 DEF ReadHeader, ReportInv, ReportAgrees
<1>3. CASE RejectFile
  <2>1. /\ stage' = Done /\ out' = {} /\ errors' = TRUE /\ Rejected
        /\ UNCHANGED <<columnVars, rows, dropped_by_reason>>
    BY <1>3 DEF RejectFile
  <2>2. Rejected'
    BY <2>1 DEF columnVars, Rejected, MissingRequired, Kept, NewName, Seen
  <2> QED
    BY <1>1, <2>1, <2>2 DEF ReportAgrees
<1>4. CASE DropMask
  BY <1>4, DropMaskReports
<1>5. CASE DropDuplicates
  <2>1. /\ stage = Filtered /\ stage' = Done /\ out' = FirstCopies
        /\ duplicates' = Cardinality(out) - Cardinality(out') /\ errors' = (out' = {})
        /\ UNCHANGED <<columnVars, rows, dropped_by_reason>>
    BY <1>5 DEF DropDuplicates
  <2>2. ~Rejected /\ ~Rejected'
    <3>1. ~Rejected
      BY <1>1, <2>1 DEF ReportInv, ValidationInv, FiltersAgree
    <3> QED
      BY <2>1, <3>1 DEF columnVars, Rejected, MissingRequired, Kept, NewName, Seen
  <2>3. out' = FirstsOf(Clean)
    <3>1. out = Clean
      BY <2>1, PassedAll
    <3> QED
      BY <2>1, <3>1 DEF FirstCopies, FirstsOf
  <2>4. out' = FirstsOf(Clean)'
    BY <2>1, <2>3 DEF FirstsOf, Clean, Index
  <2>5. /\ duplicates' \in Int
        /\ Len(rows) = Cardinality(out') + duplicates' + SumFunction(dropped_by_reason)
    <3>1. Len(rows) = Cardinality(out) + SumFunction(dropped_by_reason)
      BY <1>1, <2>1 DEF ReportInv, ReportAgrees
    <3>2. SumFunction(dropped_by_reason) \in Int
      BY ReportsAreFinite
    <3>3. Cardinality(out) \in Nat
      <4>1. out \subseteq Index /\ IsFiniteSet(Index)
        BY <2>1, PassedAll, ReportsAreFinite DEF Clean
      <4> QED
        BY <4>1, FS_Subset, FS_CardinalityType
    <3>4. Cardinality(out') \in Nat
      BY <1>1, <2>3, FirstCopiesAreAll, FS_CardinalityType
    <3> QED
      BY <2>1, <3>1, <3>2, <3>3, <3>4
  <2>6. /\ rows' \in Seq(Contents) /\ stage' \notin 0..Filtered
        /\ \A r \in DOMAIN dropped_by_reason' : dropped_by_reason'[r] \in Nat
        /\ Len(rows') = Cardinality(out') + duplicates' + SumFunction(dropped_by_reason')
    BY <1>1, <2>1, <2>5
  <2> QED
    BY <2>1, <2>2, <2>4, <2>5, <2>6, Zenon DEF ReportAgrees
<1>6. CASE Raise \/ UNCHANGED validationVars
  <2>1. UNCHANGED <<columnVars, rows, stage, out, dropped_by_reason, duplicates, errors>>
    BY <1>6 DEF Raise, validationVars
  <2>2. Rejected' = Rejected /\ FirstsOf(Clean)' = FirstsOf(Clean)
    BY <2>1 DEF columnVars, Rejected, MissingRequired, Kept, NewName, Seen, FirstsOf, Clean, Index
  <2> QED
    BY <2>1, <2>2 DEF ReportInv, ReportAgrees
<1> QED
  BY <1>2, <1>3, <1>4, <1>5, <1>6 DEF ValidationNext

(* Names change as headers are read, and then no more.                      *)
LEMMA NamesStay ==
    ASSUME UNCHANGED <<columnVars, rows>>
    PROVE  (Rejected' <=> Rejected) /\ Doubled' = Doubled
BY DEF columnVars, Rejected, MissingRequired, Doubled, Kept, NewName, Seen

(* Each step that goes on has seen that its columns are not doubled, and    *)
(* one that raises that one is.                                             *)
LEMMA NamesKeep == ReportInv /\ [ValidationNext]_validationVars => NamesAgree'
<1> SUFFICES ASSUME ReportInv, [ValidationNext]_validationVars PROVE NamesAgree'
  OBVIOUS
<1>1. /\ Filtered = 8 /\ Done = 9 /\ stage \in 0..Done
      /\ stage \in 1..Filtered => ~Rejected
  BY ReportsAreFinite, ReasonFacts DEF ReportInv, ValidationInv, FiltersAgree
<1>2. CASE ReadHeader
  BY <1>1, <1>2 DEF ReadHeader, NamesAgree
<1>3. CASE RejectFile
  <2>1. Rejected' /\ raised' = FALSE /\ stage' = 9
    BY <1>1, <1>3, NamesStay DEF RejectFile, ReportInv, NamesAgree
  <2> QED
    BY <1>1, <2>1 DEF NamesAgree
<1>4. CASE DropMask
  <2>1. /\ stage \in 0..7 /\ stage' = stage + 1 /\ ~raised'
        /\ ColumnOf[stage + 1] \notin Doubled /\ Doubled' = Doubled
    BY <1>1, <1>4, NamesStay DEF DropMask, Filtering
  <2>2. \A t \in 1..stage : ColumnOf[t] \notin Doubled
    BY <1>1, <2>1 DEF ReportInv, NamesAgree
  <2> QED
    BY <1>1, <2>1, <2>2 DEF NamesAgree
<1>5. CASE DropDuplicates
  <2>1. /\ stage = 8 /\ stage' = 9 /\ ~raised' /\ Doubled' = Doubled
        /\ OPTIONAL_COLUMNS \cap Doubled = {}
    BY <1>1, <1>5, NamesStay DEF DropDuplicates
  <2>2. \A t \in 1..8 : ColumnOf[t] \notin Doubled
    BY <1>1, <2>1 DEF ReportInv, NamesAgree
  <2>3. Doubled = {}
    <3>1. Doubled \subseteq {ColumnOf[t] : t \in 1..8} \cup OPTIONAL_COLUMNS
      <4>1. Doubled \subseteq Canonical /\ Len(ColumnOf) = 8
        BY DEF Doubled, ColumnOf
      <4> QED
        BY <4>1, ValidationAssumption
    <3> QED
      BY <2>1, <2>2, <3>1
  <2> QED
    BY <1>1, <2>1, <2>3 DEF NamesAgree
<1>6. CASE Raise
  <2>1. /\ stage' = stage /\ Doubled # {} /\ ~Rejected /\ stage \in 0..8
        /\ (Rejected' <=> Rejected) /\ Doubled' = Doubled
    BY <1>1, <1>6, NamesStay DEF Raise, Filtering
  <2> QED
    BY <1>1, <2>1 DEF ReportInv, NamesAgree
<1>7. CASE UNCHANGED validationVars
  BY <1>7, NamesStay DEF validationVars, ReportInv, NamesAgree
<1> QED
  BY <1>2, <1>3, <1>4, <1>5, <1>6, <1>7 DEF ValidationNext

(* The report's invariant holds throughout.                                 *)
LEMMA ReportInvariant == ValidationSpec => []ReportInv
<1>1. ValidationInit => ReportAgrees
  <2> SUFFICES ASSUME ValidationInit PROVE ReportAgrees
    OBVIOUS
  <2>1. PICK n \in 0..MaxLen : rows \in [1..n -> Contents]
    BY DEF ValidationInit
  <2>2. n \in Nat /\ rows \in Seq(Contents) /\ Len(rows) = n
    BY <2>1, ValidationAssumption
  <2>3. /\ stage = 0 /\ out = 1..n /\ DOMAIN dropped_by_reason = {}
    BY <2>2 DEF ValidationInit
  <2>4. SumFunction(dropped_by_reason) = 0 /\ Cardinality(out) = n
    BY <2>2, <2>3, SumOfNone, UpTo DEF SumFunction
  <2> QED
    BY <2>2, <2>3, <2>4, ReasonFacts DEF ReportAgrees
<1>2. ReportInv /\ [ValidationNext]_validationVars => ReportInv'
  BY NextValidation, ReportsKeep, NamesKeep DEF ReportInv
<1>3. ValidationInit => ReportInv
  <2>1. ValidationInit => NamesAgree
    BY ReasonFacts DEF ValidationInit, NamesAgree
  <2> QED
    BY <1>1, <2>1, InitValidation DEF ReportInv
<1> QED
  BY <1>2, <1>3, PTL DEF ValidationSpec

(* A dataset holds one copy of every row without a defect, is valid if there*)
(* is one, and what its report counts is what it does not hold.  There is a *)
(* report unless two columns share a name.                                  *)
THEOREM CleanRowsKept == ValidationSpec => []CleanRowsAreKept
<1>1. ASSUME ReportInv PROVE CleanRowsAreKept
  <2>a. raised => ~Rejected /\ Doubled # {}
    BY <1>1 DEF ReportInv, NamesAgree
  <2> SUFFICES ASSUME stage = Done
               PROVE  LET clean == {rows[i] : i \in {k \in Index : Defects[rows[k]] = {}}} IN
                      /\ is_valid <=> ~Rejected /\ clean # {}
                      /\ ~Rejected =>
                            /\ Doubled = {}
                            /\ {rows[i] : i \in out} = clean /\ rows_kept = Cardinality(clean)
                            /\ rows_dropped = duplicates + SumFunction(dropped_by_reason)
    BY <2>a DEF CleanRowsAreKept
  <2> DEFINE clean == {rows[i] : i \in Clean}
  <2>1. /\ IsFiniteSet(FirstsOf(Clean)) /\ IsFiniteSet(clean)
        /\ {rows[i] : i \in FirstsOf(Clean)} = clean
        /\ Cardinality(FirstsOf(Clean)) = Cardinality(clean)
        /\ FirstsOf(Clean) = {} <=> clean = {}
    BY <1>1, FirstCopiesAreAll DEF ReportInv, ReportAgrees
  <2>2. clean = {rows[i] : i \in {k \in Index : Defects[rows[k]] = {}}}
    BY DEF Clean
  <2> HIDE DEF clean
  <2>3. CASE Rejected
    <3>1. out = {} /\ errors = TRUE
      BY <1>1, <2>3 DEF ReportInv, ReportAgrees
    <3> QED
      BY <2>2, <2>3, <3>1 DEF is_valid
  <2>4. CASE ~Rejected
    <3>1. /\ out = FirstsOf(Clean) /\ errors = (out = {})
          /\ duplicates \in Int
          /\ Len(rows) = Cardinality(out) + duplicates + SumFunction(dropped_by_reason)
      BY <1>1, <2>4 DEF ReportInv, ReportAgrees
    <3>2. Cardinality(out) \in Nat /\ (out = {} <=> Cardinality(out) = 0)
      BY <2>1, <3>1, FS_CardinalityType, FS_EmptySet
    <3>3. is_valid <=> clean # {}
      <4>1. errors <=> out = {}
        BY <3>1, Zenon
      <4>2. rows_kept > 0 <=> out # {}
        BY <3>2 DEF rows_kept
      <4> QED
        BY <2>1, <3>1, <4>1, <4>2 DEF is_valid
    <3>4. Len(rows) - Cardinality(out) = duplicates + SumFunction(dropped_by_reason)
      <4>1. SumFunction(dropped_by_reason) \in Int
        BY <1>1, ReportsAreFinite
      <4> QED
        BY <3>1, <3>2, <4>1
    <3>5. Doubled = {}
      BY <1>1, <2>4 DEF ReportInv, NamesAgree
    <3> QED
      BY <2>1, <2>2, <2>4, <3>1, <3>3, <3>4, <3>5 DEF rows_kept, rows_dropped, rows_in
  <2> QED
    BY <2>3, <2>4
<1> QED
  BY <1>1, ReportInvariant, PTL
=============================================================================
