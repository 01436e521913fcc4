----------------------------- MODULE AgentSheet -----------------------------
(***************************************************************************)
(* The sheet the agent works on, as its loop sees it: what cells hold and   *)
(* show, the table the observation detects (env/observe.rs), what counts as *)
(* a change (env/task.rs) and as an error (agent/run.rs).                   *)
(*                                                                          *)
(* One sheet; its cells are pairs of a row and a column.  A formula is one  *)
(* of the few that compile writes, with the block of cells it reads.        *)
(***************************************************************************)
EXTENDS Integers, Sequences, FiniteSets, FiniteSetsExt

CONSTANTS
    Rows,           \* rows of the sheet that are looked at
    Cols,           \* columns
    MinConfidence   \* the least confidence of a detection, in hundredths

ASSUME SheetAssumption == Rows \in Nat \ {0} /\ Cols \in Nat \ {0} /\ MinConfidence \in Nat

Cell == (1..Rows) \X (1..Cols)

(* A workbook has a content in every cell. *)
IsBook(wb) == wb = [c \in Cell |-> wb[c]]

(* A content that is no formula is the value it shows. *)
Empty == <<"empty", 0>>
Number(n) == <<"number", n>>
Text(t) == <<"text", t>>
Error == <<"error", 0>>

(* What the formulas do with the block from..to: "ref" is the one cell it   *)
(* names, "times" multiplies (by one, for the numbers to stay small) and is *)
(* an array when the block is, "sum" adds, "difference" is the sum of the   *)
(* block less that of the same rows of the column "less", and "fault" is    *)
(* an error whatever it reads.                                              *)
Function == {"ref", "times", "sum", "difference", "fault"}
FormulaOf(fn, from, to, less) == <<"formula", [fn |-> fn, from |-> from, to |-> to, less |-> less]>>

IsFormula(content) == content[1] = "formula"
IsBlank(content) == content = Empty

Between(from, to) == (from[1]..to[1]) \X (from[2]..to[2])
Reads(f) ==
    Between(f.from, f.to) \union
    (IF f.fn = "difference" THEN Between(<<f.from[1], f.less>>, <<f.to[1], f.less>>) ELSE {})

----------------------------------------------------------------------------
(* What the cells show.                                                     *)

Values == {"empty", "number", "text", "error"}

(* An array is as tall as its block; everything else is one value. *)
Height(content) ==
    IF IsFormula(content) /\ content[2].fn = "times" THEN content[2].to[1] - content[2].from[1] + 1 ELSE 1

Footprint(wb, c) == {<<r, c[2]>> : r \in c[1]..(c[1] + Height(wb[c]) - 1)} \intersect Cell
Blocked(wb, c) == \E d \in Footprint(wb, c) \ {c} : ~IsBlank(wb[d])

(* The anchors whose array lies over the blank cell d. *)
SpillsOn(wb, d) ==
    {c \in Cell : IsFormula(wb[c]) /\ c # d /\ d \in Footprint(wb, c) /\ ~Blocked(wb, c)}

SumOf(shown, block) ==
    LET cells == block \intersect Cell IN
    IF \E c \in cells : shown[c] = Error THEN Error
    ELSE Number(MapThenSumSet(LAMBDA c : IF shown[c][1] = "number" THEN shown[c][2] ELSE 0, cells))

Times(value) ==
    CASE value[1] = "number" -> value
      [] value[1] = "empty" -> Number(0)
      [] OTHER -> Error

Minus(a, b) == IF Error \in {a, b} THEN Error ELSE Number(a[2] - b[2])

At(shown, c) == IF c \in Cell THEN shown[c] ELSE Empty

(* The value of formula f, or of the row "down" of its array. *)
Compute(shown, f, down) ==
    CASE f.fn = "ref" -> IF f.from = f.to THEN At(shown, f.from) ELSE Error
      [] f.fn = "times" -> Times(At(shown, <<f.from[1] + down, f.from[2]>>))
      [] f.fn = "sum" -> SumOf(shown, Between(f.from, f.to))
      [] f.fn = "difference" ->
            Minus(SumOf(shown, Between(f.from, f.to)),
                  SumOf(shown, Between(<<f.from[1], f.less>>, <<f.to[1], f.less>>)))
      [] OTHER -> Error

ShownOnce(wb, shown) ==
    [c \in Cell |->
        IF IsFormula(wb[c]) THEN IF Blocked(wb, c) THEN Error ELSE Compute(shown, wb[c][2], 0)
        ELSE IF IsBlank(wb[c]) /\ SpillsOn(wb, c) # {} THEN
            LET a == CHOOSE a \in SpillsOn(wb, c) : TRUE IN Compute(shown, wb[a][2], c[1] - a[1])
        ELSE wb[c]]

FormulaCells(wb) == {c \in Cell : IsFormula(wb[c])}

(* A chain of references has a formula, and perhaps a spilled cell, at each *)
(* link: so many rounds settle whatever is not on a cycle, and a cycle, and *)
(* what reads it, keeps the error it starts with.                           *)
Shown(wb) ==
    LET rounds == 2 * Cardinality(FormulaCells(wb))
        shown[n \in 0..rounds] ==
            IF n = 0 THEN [c \in Cell |-> IF IsFormula(wb[c]) THEN Error ELSE wb[c]]
            ELSE ShownOnce(wb, shown[n - 1])
    IN shown[rounds]

----------------------------------------------------------------------------
(* What changed, and what is wrong.                                         *)

(* Cells whose value or formula differs.  Only cells that hold something in *)
(* one of the two are looked at.                                            *)
ChangedCells(before, after) ==
    LET then == Shown(before)
        now == Shown(after)
        Formula(wb, c) == IF IsFormula(wb[c]) THEN wb[c] ELSE Empty
    IN {c \in Cell :
            /\ ~IsBlank(before[c]) \/ ~IsBlank(after[c])
            /\ then[c] # now[c] \/ Formula(before, c) # Formula(after, c)}

(* The cells that show an error, spilled ones included. *)
ErrorCells(wb) == LET shown == Shown(wb) IN {c \in Cell : shown[c] = Error}

----------------------------------------------------------------------------
(* The table that is detected.                                              *)

NoTable == [header |-> 0, last |-> 0, firstCol |-> 0, lastCol |-> 0, headers |-> <<>>, confidence |-> 0]

MayBeHeader(shown, r) ==
    /\ Cardinality({c \in 1..Cols : shown[<<r, c>>][1] = "text"}) >= 2
    /\ r + 1 <= Rows /\ \E c \in 1..Cols : shown[<<r + 1, c>>] # Empty

(* The kind of a column: what its values agree on, errors and blanks aside. *)
ColumnType(shown, c, rows) ==
    LET kinds == {shown[<<r, c>>][1] : r \in rows} \ {"empty"}
        sound == kinds \ {"error"}
    IN IF kinds = {} THEN "empty"
       ELSE IF sound = {} THEN "error"
       ELSE IF Cardinality(sound) = 1 THEN CHOOSE k \in sound : TRUE
       ELSE "mixed"

(* What is shown in the header's place of a column. *)
HeaderAt(shown, r, c) ==
    LET value == shown[<<r, c>>] IN IF value[1] = "text" THEN value[2] ELSE "other"

(* The first row with two texts and something under it is the header; the   *)
(* columns run to its first gap, the rows to the last one with anything in  *)
(* those columns.                                                           *)
DetectTable(wb) ==
    LET shown == Shown(wb)
        headers == {r \in 1..Rows : MayBeHeader(shown, r)}
    IN IF headers = {} THEN NoTable ELSE
    LET header == Min(headers)
        firstCol == Min({c \in 1..Cols : shown[<<header, c>>] # Empty})
        lastCol == Max({c \in firstCol..Cols : \A d \in firstCol..c : shown[<<header, d>>] # Empty})
        body == {r \in (header + 1)..Rows :
                    \E c \in firstCol..lastCol : shown[<<r, c>>] # Empty}
    IN IF body = {} THEN NoTable ELSE
    LET last == Max(body)
        width == lastCol - firstCol + 1
        typed == {c \in firstCol..lastCol :
                    ColumnType(shown, c, (header + 1)..last) \notin {"empty", "mixed"}}
        depth == CASE last - header = 1 -> 9 [] last - header = 2 -> 12 [] OTHER -> 15
    IN [header |-> header, last |-> last, firstCol |-> firstCol, lastCol |-> lastCol,
        headers |-> [i \in 1..width |-> HeaderAt(shown, header, firstCol + i - 1)],
        confidence |-> 35 + (50 * Cardinality(typed)) \div width + depth]
=============================================================================
