------------------------------- MODULE Augment -------------------------------
(***************************************************************************)
(* Variants of a demonstration (env/augment.rs): the workbook of a task is  *)
(* perturbed, the recorded actions and the checks are rewritten to follow,  *)
(* and the variant is kept when the replayed actions pass the checks.       *)
(*                                                                          *)
(* The engine the actions are replayed on is here as much of it as the      *)
(* actions need: edits, clears, and insertion and deletion of rows or       *)
(* columns, with the rewriting of references of engine/refs.rs.             *)
(***************************************************************************)
EXTENDS TaskGrading

Broken == [NoFormula EXCEPT !.fn = "broken", !.absRow = TRUE, !.absCol = TRUE]

(* What a formula's sheet is, from the sheet it stands on. *)
SheetOf(f, on) == IF f.sheet = <<>> THEN on ELSE f.sheet

----------------------------------------------------------------------------
(* The engine.                                                              *)

Circular == Error("CIRC")

Added(values) ==
    LET errors == {v \in values : IsError(v[2])} IN
    IF errors # {} THEN (CHOOSE v \in errors : TRUE)[2]
    ELSE Number(MapThenSumSet(LAMBDA v : v[2][2], {v \in values : IsNumber(v[2])}))

(* Every formula recomputed: after as many rounds as there are formulas,    *)
(* what still waits for a value is in a circle.                             *)
Recalculated(wb) ==
    LET ValueOf(w, k, content) ==
            CASE ~IsFormula(content) -> content.value
              [] content.formula.fn = "broken" -> RefError
              [] OTHER -> Added(ValuesAt(w, ReadBy(content.formula, k[1])))
        Start(w, k, content) == IF IsFormula(content) THEN Circular ELSE content.value
        Round(w, Value(_, _, _)) ==
            [i \in DOMAIN w |-> [name |-> w[i].name, cells |->
                [c \in DOMAIN w[i].cells |->
                    Holding(Value(w, <<w[i].name, c>>, w[i].cells[c]), w[i].cells[c].formula)]]]
        Settled(w) == LET next == Round(w, ValueOf) IN IF next = w THEN w ELSE next
    IN FoldLeft(LAMBDA w, n : Settled(w), Round(wb, Start), [n \in 1..Cardinality(FormulaCells(wb)) |-> n])

WithCells(wb, name, Change(_)) ==
    [i \in DOMAIN wb |-> IF wb[i].name = name THEN [wb[i] EXCEPT !.cells = Change(@)] ELSE wb[i]]

WithFormulas(wb, Rewrite(_, _)) ==
    [i \in DOMAIN wb |-> [name |-> wb[i].name, cells |->
        [c \in DOMAIN wb[i].cells |->
            LET content == wb[i].cells[c] IN
            IF IsFormula(content) THEN Holding(content.value, Rewrite(content.formula, wb[i].name)) ELSE content]]]

Put(cells, c, input) == IF input = Blank THEN Restrict(cells, DOMAIN cells \ {c}) ELSE (c :> input) @@ cells

(* Where row or column i is after an insertion, or a deletion of others. *)
ShiftIndex(at, count, i) == IF i >= at THEN i + count ELSE i
AfterDeleting(at, count, i) == IF i < at THEN i ELSE i - count

OnAxis(axis, c) == IF axis = "row" THEN c[1] ELSE c[2]
MovedOn(axis, Index(_), c) == IF axis = "row" THEN <<Index(c[1]), c[2]>> ELSE <<c[1], Index(c[2])>>
ShiftCell(p, c) == MovedOn(p.axis, LAMBDA i : ShiftIndex(p.at, p.count, i), c)

(* A span moves with its ends; inserting inside it widens it. *)
ShiftFormula(p, f, on) ==
    LET top == ShiftIndex(p.at, p.count, f.row) IN
    IF SheetOf(f, on) # p.sheet \/ f.fn = "broken" THEN f
    ELSE IF p.axis = "row" THEN [f EXCEPT !.row = top, !.tall = ShiftIndex(p.at, p.count, f.row + f.tall) - top]
    ELSE [f EXCEPT !.col = ShiftIndex(p.at, p.count, f.col)]

(* A span loses what is deleted of it, and is lost with all of it. *)
CutFormula(p, f, on) ==
    LET gone == p.at..(p.at + p.count - 1)
        span == IF p.axis = "row" THEN f.row..(f.row + f.tall) ELSE {f.col}
        left == {AfterDeleting(p.at, p.count, i) : i \in span \ gone}
    IN IF SheetOf(f, on) # p.sheet \/ f.fn = "broken" THEN f
       ELSE IF left = {} THEN Broken
       ELSE IF p.axis = "row" THEN [f EXCEPT !.row = Min(left), !.tall = Cardinality(left) - 1]
       ELSE [f EXCEPT !.col = Min(left)]

Inserted(wb, p) ==
    WithCells(WithFormulas(wb, LAMBDA f, on : ShiftFormula(p, f, on)), p.sheet,
        LAMBDA cells : [d \in {ShiftCell(p, c) : c \in DOMAIN cells} |->
                            cells[CHOOSE c \in DOMAIN cells : ShiftCell(p, c) = d]])

Deleted(wb, p) ==
    WithCells(WithFormulas(wb, LAMBDA f, on : CutFormula(p, f, on)), p.sheet,
        LAMBDA cells :
            LET left == {c \in DOMAIN cells : OnAxis(p.axis, c) \notin p.at..(p.at + p.count - 1)}
                After(c) == MovedOn(p.axis, LAMBDA i : AfterDeleting(p.at, p.count, i), c)
            IN [d \in {After(c) : c \in left} |-> cells[CHOOSE c \in left : After(c) = d]])

Renamed(wb, from, to) ==
    [i \in DOMAIN wb |-> IF wb[i].name = from THEN [wb[i] EXCEPT !.name = to] ELSE wb[i]]

(* Actions.  An edit with a blank input and a clear are the same.           *)
Edit(sheet, c, input) == [do |-> "edit", sheet |-> sheet, ref |-> Ref(sheet, c, c), input |-> input, axis |-> "row", at |-> 0, count |-> 0]
Clear(ref) == [do |-> "clear", sheet |-> ref.sheet, ref |-> ref, input |-> Blank, axis |-> "row", at |-> 0, count |-> 0]
Lines(do, sheet, axis, at, count) ==
    [do |-> do, sheet |-> sheet, ref |-> Ref(sheet, <<1, 1>>, <<1, 1>>), input |-> Blank, axis |-> axis, at |-> at, count |-> count]

(* An action on a sheet that is not there is refused. *)
Refused == <<>>
Applied(wb, action) ==
    IF action.sheet \notin Names(wb) THEN Refused
    ELSE Recalculated(
        CASE action.do = "insert" -> Inserted(wb, action)
          [] action.do = "delete" -> Deleted(wb, action)
          [] OTHER -> WithCells(wb, action.sheet, LAMBDA cells :
                        FoldSet(LAMBDA c, now : Put(now, c, action.input), cells, CellsOf(action.ref))))

OrElse(result, wb) == IF result = Refused THEN wb ELSE result

(* A perturbation is refused with any of its actions; the environment goes  *)
(* on after one that was.                                                   *)
Replayed(wb, actions) ==
    FoldLeft(LAMBDA now, action : IF now = Refused THEN Refused ELSE Applied(now, action), wb, actions)

Performed(wb, actions) ==
    FoldLeft(LAMBDA now, action : OrElse(Applied(now, action), now), wb, actions)

----------------------------------------------------------------------------
(* Perturbations.                                                           *)

(* Rows or columns inserted, the new column filled with a header and a      *)
(* value; a sheet renamed; the last row repeated; numbers doubled.          *)
Insert(sheet, axis, at, count, fill) ==
    [perturb |-> "insert", sheet |-> sheet, axis |-> axis, at |-> at, count |-> count, fill |-> fill]
RenameSheet(from, to) == [perturb |-> "rename", sheet |-> from, to |-> to]
AppendRows(sheet, count) == [perturb |-> "append", sheet |-> sheet, count |-> count]
ScaleLiterals(ref, factor) == [perturb |-> "scale", sheet |-> ref.sheet, ref |-> ref, factor |-> factor]

ChangesValues(step) == step.perturb \in {"append", "scale"}

LastRow(wb, name) == Max({0} \cup RowsUsed(CellsIn(wb, name)))

InSequence(S) == SetToSortSeq(S, LAMBDA c, d : c # d /\ Earlier(c, d))

InsertActions(wb, p) ==
    LET cells == CellsIn(wb, p.sheet)
        rows == IF DOMAIN cells = {} THEN {} ELSE Min(RowsUsed(cells))..Max(RowsUsed(cells))
        new == rows \X (p.at..(p.at + p.count - 1))
    IN <<Lines("insert", p.sheet, p.axis, p.at, p.count)>>
       \o (IF p.axis = "row" \/ p.fill = <<>> THEN <<>>
           ELSE LET order == InSequence(new) IN
                [i \in DOMAIN order |-> Edit(p.sheet, order[i], IF order[i][1] = Min(rows) THEN p.fill[1] ELSE p.fill[2])])

(* Only what was typed is repeated: a formula is the demonstration's work.  *)
RepeatLastRow(wb, name, count) ==
    LET cells == CellsIn(wb, name)
        last == LastRow(wb, name)
        new == InSequence((last + 1..last + count) \X {col \in ColsUsed(cells) :
                    <<last, col>> \in DOMAIN cells /\ ~IsFormula(cells[<<last, col>>])})
    IN [i \in DOMAIN new |-> Edit(name, new[i], cells[<<last, new[i][2]>>])]

ScaledLiterals(wb, p) ==
    LET cells == CellsIn(wb, p.sheet)
        numbers == InSequence({c \in CellsOf(p.ref) \cap DOMAIN cells : ~IsFormula(cells[c]) /\ IsNumber(cells[c].value)})
    IN [i \in DOMAIN numbers |->
            Edit(p.sheet, numbers[i], Holding(Number(p.factor * cells[numbers[i]].value[2]), NoFormula))]

PerturbingActions(wb, p) ==
    CASE p.perturb = "insert" -> InsertActions(wb, p)
      [] p.perturb = "append" -> RepeatLastRow(wb, p.sheet, p.count)
      [] p.perturb = "scale" -> ScaledLiterals(wb, p)

(* A sheet is renamed with the references to it; to a name that is taken,   *)
(* or from one that is not, it is refused.                                  *)
Perturbed(wb, p) ==
    IF p.perturb # "rename" THEN Replayed(wb, PerturbingActions(wb, p))
    ELSE IF p.sheet \notin Names(wb) \/ p.to \in Names(wb) THEN Refused
    ELSE Renamed(WithFormulas(wb, LAMBDA f, on : IF f.sheet = p.sheet THEN [f EXCEPT !.sheet = p.to] ELSE f),
                          p.sheet, p.to)

----------------------------------------------------------------------------
(* The demonstration follows.                                               *)

(* The name of a sheet in the text of a formula or a check: the text is     *)
(* replaced wherever it stands before the "!", the end of a longer name     *)
(* too.                                                                     *)
RenamedInText(name, p) ==
    IF name # <<>> /\ IsSuffix(p.sheet, name)
    THEN SubSeq(name, 1, Len(name) - Len(p.sheet)) \o p.to ELSE name

ShiftRange(p, ref) == [ref EXCEPT !.from = ShiftCell(p, @), !.to = ShiftCell(p, @)]

InFormula(input, Rewrite(_)) == IF IsFormula(input) THEN [input EXCEPT !.formula = Rewrite(@)] ELSE input

(* Mutant: the formulas an action writes stay as they were recorded. *)
ShiftAddressOnly(p, action) ==
    IF action.sheet # p.sheet THEN action
    ELSE IF action.do \in {"edit", "clear"} THEN [action EXCEPT !.ref = ShiftRange(p, @)]
    ELSE IF action.axis = p.axis THEN [action EXCEPT !.at = ShiftIndex(p.at, p.count, @)]
    ELSE action

ShiftAction(p, action) ==
    LET written == [action EXCEPT !.input = InFormula(@, LAMBDA f : ShiftFormula(p, f, action.sheet))] IN
    IF action.sheet # p.sheet THEN written
    ELSE IF action.do \in {"edit", "clear"} THEN [written EXCEPT !.ref = ShiftRange(p, @)]
    ELSE IF action.axis = p.axis THEN [action EXCEPT !.at = ShiftIndex(p.at, p.count, @)]
    ELSE action

RenameInAction(p, action) ==
    LET to == IF action.sheet = p.sheet THEN p.to ELSE action.sheet IN
    [action EXCEPT !.sheet = to, !.ref.sheet = to,
                   !.input = InFormula(@, LAMBDA f : [f EXCEPT !.sheet = RenamedInText(@, p)])]

RemapAction(p, action) ==
    CASE p.perturb = "insert" -> ShiftAction(p, action)
      [] p.perturb = "rename" -> RenameInAction(p, action)
      [] OTHER -> action

(* Moved as copy and paste would move it. *)
OffsetFormula(f, down) ==
    IF f.absRow \/ f.fn = "broken" THEN f
    ELSE IF f.row + down < 1 THEN Broken ELSE [f EXCEPT !.row = @ + down]

(* A column that the demonstration wrote down to the last row with one      *)
(* shape is continued.                                                      *)
ExtendActions(wb, p, actions) ==
    LET last == LastRow(wb, p.sheet)
        edits == {i \in DOMAIN actions : actions[i].do = "edit" /\ actions[i].sheet = p.sheet}
        InColumn(col) == {i \in edits : actions[i].ref.from[2] = col}
        Row(i) == actions[i].ref.from[1]
        Bottom(col) == CHOOSE i \in InColumn(col) : \A j \in InColumn(col) : Row(j) <= Row(i)
        ShapeOf(i) == IF IsFormula(actions[i].input)
                      THEN <<"formula", RelativeShape(actions[i].input.formula, actions[i].ref.from)>>
                      ELSE <<"text", actions[i].input.value>>
        filled == {col \in {actions[i].ref.from[2] : i \in edits} :
                    /\ Row(Bottom(col)) = last /\ Cardinality(InColumn(col)) >= 2
                    /\ \A i \in InColumn(col) : ShapeOf(i) = ShapeOf(Bottom(col))}
        new == SetToSortSeq((last + 1..last + p.count) \X filled,
                            LAMBDA c, d : c[2] < d[2] \/ (c[2] = d[2] /\ c[1] < d[1]))
    IN IF p.perturb # "append" \/ p.sheet \notin Names(wb) \/ last = 0 THEN actions
       ELSE actions \o [i \in DOMAIN new |->
                Edit(p.sheet, new[i], InFormula(actions[Bottom(new[i][2])].input,
                                                LAMBDA f : OffsetFormula(f, new[i][1] - last)))]

(* The checks follow.  A reference without a sheet is taken to be to the    *)
(* one that is perturbed.                                                   *)
OnSheet(ref, name) == ref.sheet \in {<<>>, name}

ExtendRef(ref, last, p) ==
    IF OnSheet(ref, p.sheet) /\ ref.from # ref.to /\ ref.to[1] = last THEN [ref EXCEPT !.to[1] = @ + p.count] ELSE ref

ExtendFormula(f, last, p) ==
    IF f.tall > 0 /\ f.row + f.tall = last THEN [f EXCEPT !.tall = @ + p.count] ELSE f

MapCheckRefs(check, Move(_), Rewrite(_)) ==
    [check EXCEPT !.ref = Move(@), !.right = Move(@), !.formula = Rewrite(@)]

RemapCheck(wb, p, check) ==
    LET renamed == MapCheckRefs(check, LAMBDA r : [r EXCEPT !.sheet = RenamedInText(@, p)],
                                LAMBDA f : [f EXCEPT !.sheet = RenamedInText(@, p)])
        last == LastRow(wb, p.sheet)
        on == DefaultSheet(wb, check.ref.sheet)
    IN CASE p.perturb = "insert" ->
                MapCheckRefs(check, LAMBDA r : IF OnSheet(r, p.sheet) THEN ShiftRange(p, r) ELSE r,
                             LAMBDA f : IF f = NoFormula THEN f ELSE ShiftFormula(p, f, on))
         [] p.perturb = "rename" ->
                IF check.kind = "sheets_exist"
                THEN [check EXCEPT !.ref.sheet = IF @ = p.sheet THEN p.to ELSE @] ELSE renamed
         [] p.perturb = "append" ->
                IF last = 0 THEN check
                ELSE MapCheckRefs(check, LAMBDA r : ExtendRef(r, last, p), LAMBDA f : ExtendFormula(f, last, p))
         [] OTHER -> check

(* Each step is taken on the workbook the ones before it left. *)
Following(wb, actions, checks, recipe) ==
    FoldLeft(LAMBDA s, p :
                LET extended == ExtendActions(s.wb, p, s.actions) IN
                IF s.wb = Refused THEN s
                ELSE [wb |-> Perturbed(s.wb, p),
                      actions |-> [i \in DOMAIN extended |-> RemapAction(p, extended[i])],
                      checks |-> {RemapCheck(s.wb, p, check) : check \in s.checks}],
             [wb |-> wb, actions |-> actions, checks |-> checks], recipe)

IsIndependent(check) == check.kind \notin {"cell_number", "cell_displays", "sum_equals"}

(* A variant is kept when its replayed actions pass what is asked of it.    *)
Judged(variant, end, changes) ==
    LET asked == IF changes THEN {Retarget(check, end) : check \in variant.checks} ELSE variant.checks
        passed == Grade(asked, end, variant.wb).passed
    IN IF ~changes \/ \E check \in asked : IsIndependent(check)
       THEN [variant EXCEPT !.wb = IF passed THEN @ ELSE Refused, !.checks = IF passed THEN asked ELSE @]
       ELSE [variant EXCEPT !.wb = Refused]

JudgedByReplay(variant, changes) ==
    IF variant.wb = Refused THEN variant ELSE Judged(variant, Performed(variant.wb, variant.actions), changes)

Variant(wb, actions, checks, recipe) ==
    JudgedByReplay(Following(wb, actions, checks, recipe), \E p \in ToSet(recipe) : ChangesValues(p))
=============================================================================
