----------------------------- MODULE TaskGrading -----------------------------
(***************************************************************************)
(* What an observation says of a workbook (env/observe.rs), and how one is  *)
(* graded against what a task requires (env/task.rs).                       *)
(*                                                                          *)
(* A workbook is its sheets in order, each with a name and what its cells   *)
(* hold: a value and, when that was computed, the formula.  A formula is a  *)
(* function of one reference to a cell, or with "tall" to those below it as *)
(* well.  It names its sheet or, with the empty name, means its own; row    *)
(* and column are each absolute or not.                                     *)
(***************************************************************************)
EXTENDS CellValues

CONSTANTS
    GroupBudget,        \* formula groups an observation names (64 in the code)
    DepthLimit          \* longest chain that is measured (32 in the code)

NoFormula == [fn |-> "none", sheet |-> <<>>, row |-> 0, col |-> 0, tall |-> 0, absRow |-> FALSE, absCol |-> FALSE]

Holding(value, formula) == [value |-> value, formula |-> formula]
Blank == Holding(Empty, NoFormula)
IsFormula(content) == content.formula # NoFormula

Names(wb) == {wb[i].name : i \in DOMAIN wb}
CellsIn(wb, name) ==
    IF name \in Names(wb) THEN (CHOOSE s \in ToSet(wb) : s.name = name).cells ELSE <<>>
ContentAt(wb, name, cell) ==
    LET cells == CellsIn(wb, name) IN IF cell \in DOMAIN cells THEN cells[cell] ELSE Blank
ValueIn(wb, name, cell) == ContentAt(wb, name, cell).value

(* Cells of the whole workbook are told apart by their sheet. *)
CellsOfWorkbook(wb) == UNION {{s.name} \X (DOMAIN s.cells) : s \in ToSet(wb)}
FormulaCells(wb) == {k \in CellsOfWorkbook(wb) : IsFormula(ContentAt(wb, k[1], k[2]))}
FormulaAt(wb, k) == ContentAt(wb, k[1], k[2]).formula

----------------------------------------------------------------------------
(* Shapes of formulas.                                                      *)

(* Mutant: absolute references are relative to the cell too. *)
ShapeWithoutAnchors(formula, at) ==
    [fn |-> formula.fn, sheet |-> formula.sheet, tall |-> formula.tall,
     row |-> <<"by", formula.row - at[1]>>, col |-> <<"by", formula.col - at[2]>>]

(* The formula with its reference as seen from its cell; what is absolute   *)
(* is the same from everywhere.                                             *)
RelativeShape(formula, at) ==
    [fn |-> formula.fn, sheet |-> formula.sheet, tall |-> formula.tall,
     row |-> IF formula.absRow THEN <<"at", formula.row>> ELSE <<"by", formula.row - at[1]>>,
     col |-> IF formula.absCol THEN <<"at", formula.col>> ELSE <<"by", formula.col - at[2]>>]

SameFormula(got, expected, at, from) == RelativeShape(got, at) = RelativeShape(expected, from)

(* The formulas of one sheet and shape, shown by the first in reading order. *)
Earlier(c, d) == c[1] < d[1] \/ (c[1] = d[1] /\ c[2] < d[2])
FormulaGroups(wb) ==
    LET Like(k) == {j \in FormulaCells(wb) :
                        j[1] = k[1] /\ SameFormula(FormulaAt(wb, j), FormulaAt(wb, k), j[2], k[2])}
    IN {[sheet |-> k[1], shape |-> RelativeShape(FormulaAt(wb, k), k[2]), count |-> Cardinality(Like(k)),
         at |-> CHOOSE c \in {j[2] : j \in Like(k)} : \A j \in Like(k) : c = j[2] \/ Earlier(c, j[2])]
            : k \in FormulaCells(wb)}

(* The groups that are named: the largest of them. *)
GroupsNamed(wb) ==
    LET ranked == SetToSortSeq(FormulaGroups(wb), LAMBDA g, h : g.count > h.count) IN
    SubSeq(ranked, 1, Min({GroupBudget, Len(ranked)}))

(* What a formula reads, and the formulas that read a cell. *)
ReadBy(f, on) == {IF f.sheet = <<>> THEN on ELSE f.sheet} \X ((f.row..(f.row + f.tall)) \X {f.col})
DependentsOf(wb, d) == {k \in FormulaCells(wb) : d \in ReadBy(FormulaAt(wb, k), k[1])}

LeafFormulas(wb) == {k \in FormulaCells(wb) : DependentsOf(wb, k) = {}}

(* The rounds it takes to peel off the formulas nothing left reads; those   *)
(* in a circle are never peeled.                                            *)
ChainDepth(wb) ==
    LET Peeled(left) == {k \in left : DependentsOf(wb, k) \cap left = {}}
        left[depth \in 0..DepthLimit] ==
            IF depth = 0 THEN FormulaCells(wb) ELSE left[depth - 1] \ Peeled(left[depth - 1])
    IN Cardinality({depth \in 1..DepthLimit : left[depth] # left[depth - 1]})

----------------------------------------------------------------------------
(* Tables.                                                                  *)

(* What a column of cells of two types is: an error says nothing of it. *)
MergeTypes(s, t) ==
    IF s = t \/ t = "empty" THEN s
    ELSE IF s = "empty" THEN t
    ELSE IF s = "error" THEN t
    ELSE IF t = "error" THEN s
    ELSE "mixed"

TypeOf(value) == Kind(value)

RowsUsed(cells) == {c[1] : c \in DOMAIN cells}
ColsUsed(cells) == {c[2] : c \in DOMAIN cells}
ValueAt(cells, row, col) == IF <<row, col>> \in DOMAIN cells THEN cells[<<row, col>>].value ELSE Empty
Populated(cells, row, col) == ~IsEmpty(ValueAt(cells, row, col))

(* A header has two texts and something below it. *)
HeaderRows(cells) ==
    {row \in RowsUsed(cells) :
        /\ Cardinality({col \in ColsUsed(cells) : IsText(ValueAt(cells, row, col))}) >= 2
        /\ \E col \in ColsUsed(cells) : Populated(cells, row + 1, col)}

ColumnView(cells, col, header, last) ==
    LET body == (header + 1)..last
        full == {row \in body : Populated(cells, row, col)}
        computed == {row \in body : <<row, col>> \in DOMAIN cells /\ IsFormula(cells[<<row, col>>])}
    IN [header |-> ValueAt(cells, header, col), index |-> col, populated |-> Cardinality(full),
        type |-> FoldLeft(LAMBDA type, row : MergeTypes(type, TypeOf(ValueAt(cells, row, col))), "empty",
                          SetToSortSeq(body, <)),
        allFormulas |-> full # {} /\ Cardinality(computed) = Cardinality(full),
        example |-> IF computed = {} THEN NoFormula ELSE cells[<<Min(computed), col>>].formula]

(* In hundredths: columns of one type, and a body of more than a row, make  *)
(* a table likely.                                                          *)
Confidence(columns, depth) ==
    LET typed == {i \in DOMAIN columns : columns[i].type \notin {"empty", "mixed"}} IN
    35 + ((50 * Cardinality(typed)) \div Len(columns))
       + (CASE depth = 1 -> 9 [] depth = 2 -> 12 [] OTHER -> 15)

(* The table under the first header: its columns run to the first gap, its  *)
(* rows to the last with anything in those columns.                         *)
DetectTables(cells) ==
    IF HeaderRows(cells) = {} THEN <<>>
    ELSE LET header == Min(HeaderRows(cells))
             first == Min({col \in ColsUsed(cells) : Populated(cells, header, col)})
             stop == Min({col \in first..(Max(ColsUsed(cells)) + 1) : ~Populated(cells, header, col)})
             last == Max({header} \cup {row \in RowsUsed(cells) :
                                row > header /\ \E col \in first..(stop - 1) : Populated(cells, row, col)})
             columns == [i \in 1..(stop - first) |-> ColumnView(cells, first + i - 1, header, last)]
         IN IF last = header THEN <<>>
            ELSE <<[from |-> <<header, first>>, to |-> <<last, stop - 1>>, columns |-> columns,
                    confidence |-> Confidence(columns, last - header)]>>

ErrorCells(wb) == {k \in CellsOfWorkbook(wb) : IsError(ValueIn(wb, k[1], k[2]))}

----------------------------------------------------------------------------
(* Checks.                                                                  *)

(* A range by its sheet, the first one with the empty name, and corners. *)
Ref(sheet, from, to) == [sheet |-> sheet, from |-> from, to |-> to]
CellsOf(ref) == (ref.from[1]..ref.to[1]) \X (ref.from[2]..ref.to[2])
DefaultSheet(wb, name) == IF name = <<>> /\ wb # <<>> THEN wb[1].name ELSE name
Resolve(wb, ref) == {DefaultSheet(wb, ref.sheet)} \X CellsOf(ref)
ValuesAt(wb, keys) == {<<k, ValueIn(wb, k[1], k[2])>> : k \in keys}
ValuesOf(wb, ref) == ValuesAt(wb, Resolve(wb, ref))

SumOf(wb, ref) == MapThenSumSet(LAMBDA v : v[2][2], {v \in ValuesOf(wb, ref) : IsNumber(v[2])})

(* Without a tolerance the numbers agree to fifteen digits. *)
CloseEnough(got, expected, tolerance) == got - expected \in -tolerance..tolerance

Filled(wb, ref) ==
    LET first == ContentAt(wb, DefaultSheet(wb, ref.sheet), ref.from) IN
    \A k \in Resolve(wb, ref) :
        LET content == ContentAt(wb, k[1], k[2]) IN
        IsFormula(content) /\ SameFormula(content.formula, first.formula, k[2], ref.from)

Passes(check, wb, initial) ==
    LET content == ContentAt(wb, DefaultSheet(wb, check.ref.sheet), check.ref.from)
        Same(k) == ContentAt(initial, k[1], k[2]) = ContentAt(wb, k[1], k[2])
    IN CASE check.kind = "cell_displays" -> content.value = check.expect
         [] check.kind = "cell_number" ->
                IsNumber(content.value) /\ CloseEnough(content.value[2], check.expect[2], check.tolerance)
         [] check.kind = "cell_formula" ->
                IsFormula(content) /\ SameFormula(content.formula, check.formula, check.ref.from, check.ref.from)
         [] check.kind = "range_filled" -> Filled(wb, check.ref)
         [] check.kind = "sums_match" -> CloseEnough(SumOf(wb, check.ref), SumOf(wb, check.right), check.tolerance)
         [] check.kind = "sum_equals" -> CloseEnough(SumOf(wb, check.ref), check.expect[2], check.tolerance)
         [] check.kind = "no_errors" -> \A v \in ValuesOf(wb, check.ref) : ~IsError(v[2])
         [] check.kind = "unchanged" -> \A k \in Resolve(wb, check.ref) : Same(k)
         [] OTHER -> check.ref.sheet \in Names(wb)

(* The cells that differ on the sheets there are now: what a sheet that is  *)
(* gone held is not among them.                                             *)
ChangedCells(before, after) ==
    {k \in CellsOfWorkbook(before) \cup CellsOfWorkbook(after) :
        k[1] \in Names(after) /\ ContentAt(before, k[1], k[2]) # ContentAt(after, k[1], k[2])}

(* Cells the checks are about; what must not change is not. *)
NamedCells(checks, wb) ==
    UNION {CASE check.kind \in {"cell_displays", "cell_number", "cell_formula",
                                "range_filled", "no_errors", "sum_equals"} -> Resolve(wb, check.ref)
             [] check.kind = "sums_match" -> Resolve(wb, check.ref) \cup Resolve(wb, check.right)
             [] OTHER -> {} : check \in checks}

Grade(checks, wb, initial) ==
    [passed |-> \A check \in checks : Passes(check, wb, initial),
     incidental |-> Cardinality(ChangedCells(initial, wb) \ NamedCells(checks, wb))]

(* A check whose expected value is what the workbook holds. *)
Retarget(check, wb) ==
    LET value == ValueIn(wb, DefaultSheet(wb, check.ref.sheet), check.ref.from) IN
    CASE check.kind = "cell_displays" -> [check EXCEPT !.expect = value]
      [] check.kind = "cell_number" /\ IsNumber(value) -> [check EXCEPT !.expect = value]
      [] check.kind = "sum_equals" -> [check EXCEPT !.expect = Number(SumOf(wb, check.ref))]
      [] OTHER -> check

(* The sheets the checks name, which a renaming has to follow. *)
SheetsMentioned(checks) ==
    UNION {{check.ref.sheet} \cup (IF check.kind = "sums_match" THEN {check.right.sheet} ELSE {}) : check \in checks}
    \ {<<>>}
=============================================================================
