--------------------------- MODULE ArrayFunctions ---------------------------
(***************************************************************************)
(* The functions that return a block (engine/functions/dynamic.rs).  A      *)
(* block is a sequence of rows of one length, and an error is a block of    *)
(* one cell.                                                                *)
(***************************************************************************)
EXTENDS CellValues

Fail(error) == <<<<error>>>>
Rows(block) == Len(block)
Cols(block) == Len(block[1])

BrokenRows(block) == {r \in DOMAIN block : HasError(block[r])}
IsBroken(block) == BrokenRows(block) # {}
BlockError(block) == FirstError(block[Min(BrokenRows(block))])

Transpose(block) == [c \in 1..Cols(block) |-> [r \in 1..Rows(block) |-> block[r][c]]]

(* A function of rows, turned for columns. *)
Turned(byCol, block) == IF byCol THEN Transpose(block) ELSE block

SameRow(a, b) == \A i \in DOMAIN a : Equal(a[i], b[i])

(* The members of a list at the given positions, in their order. *)
Nth(S, n) == CHOOSE i \in S : Cardinality({j \in S : j < i}) = n - 1
At(list, S) == [n \in 1..Cardinality(S) |-> list[Nth(S, n)]]

(* The positions UNIQUE keeps: those like no row that is kept before, and   *)
(* of them, when it is asked, those like no other row.                      *)
UniqueRows(block, exactlyOnce) ==
    LET Alike(i) == {j \in DOMAIN block : SameRow(block[j], block[i])}
        keeps[n \in 0..Len(block)] ==
            IF n = 0 THEN {}
            ELSE keeps[n - 1] \cup {i \in {n} : /\ exactlyOnce => Cardinality(Alike(i)) = 1
                                               /\ \A k \in keeps[n - 1] : ~SameRow(block[k], block[i])}
    IN keeps[Len(block)]

Unique(block, byCol, exactlyOnce) ==
    LET turned == Turned(byCol, block)
        kept == UniqueRows(turned, exactlyOnce)
    IN IF IsBroken(block) THEN Fail(BlockError(block))
       ELSE IF kept = {} THEN Fail(CalcError)
       ELSE Turned(byCol, At(turned, kept))

(* Mutant: rows that are equal on the keys come in the opposite order. *)
UnstableBefore(keys, i, j) ==
    LET differ == {k \in DOMAIN keys : ~Equal(keys[k].of[i], keys[k].of[j])} IN
    IF differ = {} THEN i > j
    ELSE LET k == keys[Min(differ)] IN CompareValues(k.of[i], k.of[j]) = -k.order

(* Row i goes before row j: by the first key on which they differ, in its   *)
(* direction, and in the order they had when there is none.                 *)
Before(keys, i, j) ==
    LET differ == {k \in DOMAIN keys : ~Equal(keys[k].of[i], keys[k].of[j])} IN
    IF differ = {} THEN i < j
    ELSE LET k == keys[Min(differ)] IN CompareValues(k.of[i], k.of[j]) = -k.order

(* Defined where the keys are ordered: a blank equals 0, "" and FALSE,      *)
(* which are not equal, and what the library's sort does then is not        *)
(* specified.                                                               *)
Sorted(block, keys) ==
    LET Place(i) == 1 + Cardinality({j \in DOMAIN block : Before(keys, j, i)}) IN
    [n \in DOMAIN block |-> block[CHOOSE i \in DOMAIN block : Place(i) = n]]

Key(of, order) == [of |-> of, order |-> order]

Sort(block, index, order, byCol) ==
    LET turned == Turned(byCol, block) IN
    IF IsBroken(block) THEN Fail(BlockError(block))
    ELSE IF order \notin {1, -1} THEN Fail(ValueError)
    ELSE IF index \notin 1..Cols(turned) THEN Fail(ValueError)
    ELSE Turned(byCol,
            Sorted(turned, <<Key([i \in DOMAIN turned |-> turned[i][index]], order)>>))

(* Each key is a line as long as the block is tall. *)
SortBy(block, keys) ==
    IF IsBroken(block) THEN Fail(BlockError(block))
    ELSE IF \E k \in DOMAIN keys : HasError(keys[k].of) THEN
            Fail(FirstError(keys[CHOOSE k \in DOMAIN keys : HasError(keys[k].of)].of))
    ELSE IF \E k \in DOMAIN keys : Len(keys[k].of) # Rows(block) \/ keys[k].order \notin {1, -1} THEN Fail(ValueError)
    ELSE Sorted(block, keys)

(* What counts as true in a mask: text does not, but for the word. *)
Holds(v) == (IsNumber(v) /\ v[2] # 0) \/ v = Bool(TRUE)

(* Nowhere in the mask is no row, and then no column, of the answer. *)
Filter(block, mask, otherwise) ==
    LET kept == {i \in DOMAIN mask : Holds(mask[i])}
        byRow == Len(mask) = Rows(block)
        byCol == Len(mask) = Cols(block)
    IN IF IsBroken(block) THEN Fail(BlockError(block))
       ELSE IF HasError(mask) THEN Fail(FirstError(mask))
       ELSE IF ~byRow /\ ~byCol THEN Fail(ValueError)
       ELSE IF kept = {} THEN <<<<otherwise>>>>
       ELSE IF byRow THEN At(block, kept)
       ELSE Transpose(At(Transpose(block), kept))

CONSTANTS MaxRows, MaxCols      \* size of a sheet's grid

Sequence(rows, cols, start, step) ==
    IF rows < 1 \/ cols < 1 THEN Fail(ValueError)
    ELSE IF rows > MaxRows \/ cols > MaxCols THEN Fail(Error("NUM"))
    ELSE [r \in 1..rows |-> [c \in 1..cols |-> Number(start + step * ((r - 1) * cols + c - 1))]]

----------------------------------------------------------------------------
(* TEXTSPLIT.                                                               *)

StartsAt(text, i, d) == i + Len(d) - 1 <= Len(text) /\ SubSeq(text, i, i + Len(d) - 1) = d

Ends(text, delims, start) == {i \in start..Len(text) : \E d \in delims : StartsAt(text, i, d)}
Longest(text, delims, i) == Max({Len(d) : d \in {e \in delims : StartsAt(text, i, e)}})

(* The longest delimiter that is found first ends a part. *)
SplitOn(text, delims) ==
    LET from[start \in 1..(Len(text) + 1)] ==
            LET ends == Ends(text, delims, start)
                past == Min(ends) + Longest(text, delims, Min(ends))
            IN IF ends = {} THEN <<SubSeq(text, start, Len(text))>>
               ELSE <<SubSeq(text, start, Min(ends) - 1)>> \o from[past]
    IN from[1]

(* Characters of more than one byte.  The text is sliced at every byte up   *)
(* to the next delimiter, and inside such a character that ends the program.*)
IsWide(c) == c > 127
Panics(text, delims) ==
    LET parts == SplitOn(text, delims) IN
    \E i \in DOMAIN parts : \E j \in DOMAIN parts[i] : IsWide(parts[i][j])

Padded(row, width) == [c \in 1..width |-> IF c \in DOMAIN row THEN row[c] ELSE NA]

TextSplit(text, colDelims, rowDelims, ignoreEmpty) ==
    LET Parts(line) == IF colDelims = {} THEN <<line>> ELSE SplitOn(line, colDelims)
        Kept(parts) == IF ignoreEmpty THEN At(parts, {i \in DOMAIN parts : parts[i] # <<>>}) ELSE parts
        lines == IF rowDelims = {} THEN <<text>> ELSE SplitOn(text, rowDelims)
        split == [i \in DOMAIN lines |-> Kept(Parts(lines[i]))]
        rows == Kept(split)
        width == Max({Len(rows[i]) : i \in DOMAIN rows})
    IN IF colDelims = {} /\ rowDelims = {} THEN Fail(ValueError)
       ELSE IF rows = <<>> THEN Fail(CalcError)
       ELSE [i \in DOMAIN rows |-> Padded([c \in DOMAIN rows[i] |-> Text(rows[i][c])], width)]
=============================================================================
