------------------------------ MODULE Columns ------------------------------
(***************************************************************************)
(* normalize_columns (ml/validation.py): the headers of an uploaded file    *)
(* are read in order, and each is given the canonical name it is an alias   *)
(* of, unless an earlier header took that name.  Headers that end up with   *)
(* no canonical name are dropped.                                           *)
(*                                                                         *)
(* pandas has already told repeated headers apart (x, x.1), so no header    *)
(* occurs twice.                                                            *)
(***************************************************************************)
EXTENDS Integers, Sequences

CONSTANTS
    Headers,        \* the texts that may stand in a file's first line
    Canonical,      \* ALL_COLUMNS
    Required,       \* REQUIRED_COLUMNS
    Meaning,        \* Meaning[h]: the canonical name of header h, or NoName
    NoName,
    MaxColumns      \* bound: headers in a file

(* The aliases: a header that is spelled exactly like a canonical name,     *)
(* before any normalization, is a member of Canonical itself, and means     *)
(* itself.                                                                  *)
COLUMN_ALIASES ==
    /\ Required \subseteq Canonical
    /\ Canonical \subseteq Headers
    /\ Meaning \in [Headers -> Canonical \cup {NoName}]
    /\ \A c \in Canonical : Meaning[c] = c

ASSUME ColumnsAssumption ==
    /\ COLUMN_ALIASES
    /\ NoName \notin Headers
    /\ MaxColumns \in Nat

VARIABLES
    columns,        \* df.columns[:i], the headers read so far
    rename_map,     \* header -> canonical name
    mapped          \* canonical name -> header

columnVars == <<columns, rename_map, mapped>>

Seen == {columns[i] : i \in 1..Len(columns)}

ColumnsInit ==
    /\ columns = <<>>
    /\ rename_map = [h \in {} |-> NoName]
    /\ mapped = [c \in {} |-> NoName]

Extend(f, x, y) == [z \in DOMAIN f \cup {x} |-> IF z = x THEN y ELSE f[z]]

NextHeader(h) ==
    /\ Len(columns) < MaxColumns
    /\ h \in Headers \ Seen
    /\ columns' = Append(columns, h)

(* Mutant: the last header that means a column takes it.                    *)
NeverTaken(h) == FALSE
Taken(h) == Meaning[h] \in DOMAIN mapped

SkipHeader(h) ==
    /\ NextHeader(h)
    /\ Meaning[h] = NoName \/ Taken(h)
    /\ UNCHANGED <<rename_map, mapped>>

MapHeader(h) ==
    /\ NextHeader(h)
    /\ Meaning[h] # NoName /\ ~Taken(h)
    /\ rename_map' = Extend(rename_map, h, Meaning[h])
    /\ mapped' = Extend(mapped, Meaning[h], h)

ColumnsNext == \E h \in Headers : SkipHeader(h) \/ MapHeader(h)

----------------------------------------------------------------------------
(* The columns of the result, by the header they come from: `df.rename`     *)
(* renames the headers in rename_map and leaves the others as they are, and *)
(* the names in ALL_COLUMNS are kept.                                       *)

NewName(h) == IF h \in DOMAIN rename_map THEN rename_map[h] ELSE h

Kept == {h \in Seen : NewName(h) \in Canonical}

MissingRequired == {c \in Required : \A h \in Kept : NewName(h) # c}

(* The names two columns share; what is read by such a name is no Series.   *)
Doubled ==
    {c \in Canonical : \E h1, h2 \in Kept : h1 # h2 /\ NewName(h1) = c /\ NewName(h2) = c}

(* The data of a canonical column come from the first header in the file    *)
(* that means it, and rename_map says the same as mapped.                   *)
FirstMatchWins ==
    \A i \in 1..Len(columns) :
        LET h == columns[i]
            c == Meaning[h]
            first == \A k \in 1..(i - 1) : Meaning[columns[k]] # c IN
        /\ h \in DOMAIN rename_map <=> c # NoName /\ first
        /\ h \in DOMAIN rename_map => rename_map[h] = c /\ mapped[c] = h

(* Two columns get the same name only if one of them was spelled so in the  *)
(* file, after an alias of it.                                              *)
ClashesComeFromLiterals ==
    \A h1, h2 \in Kept :
        h1 # h2 /\ NewName(h1) = NewName(h2) =>
            \E i, k \in 1..Len(columns) :
                /\ i < k
                /\ {columns[i], columns[k]} = {h1, h2}
                /\ columns[k] = NewName(h1)
=============================================================================
