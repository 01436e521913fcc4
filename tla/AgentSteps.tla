----------------------------- MODULE AgentSteps -----------------------------
(***************************************************************************)
(* What becomes of one step of a plan before anything is touched: it is     *)
(* compiled to actions against the table the plan works on (compile.rs),    *)
(* the actions are checked against what the step declared and against the   *)
(* task's limits (validate.rs), and they are rehearsed on a copy of the     *)
(* workbook (attempt_step and rehearsal_problem of run.rs).                 *)
(*                                                                          *)
(* A header is a model value or a string, already normalised.  A template   *)
(* is the function it writes and the header it mentions, a literal, or text *)
(* that does not parse.                                                     *)
(***************************************************************************)
EXTENDS AgentSheet

CONSTANTS
    MaxCells,           \* most cells a step may change (5000 in the code)
    AllowOverwriting    \* whether a literal may replace a formula

(* The kinds of step a planner may write. *)
StepKind ==
    {"locate_table", "create_derived_column", "apply_formula", "fill_range", "filter_rows",
     "reconcile_totals", "export_workbook"}

ASSUME StepsAssumption == MaxCells \in Nat /\ AllowOverwriting \in BOOLEAN

----------------------------------------------------------------------------
(* The engine's side: the actions that steps compile to.                    *)

(* A step that names no cell, and one that means the body rows. *)
Nowhere == <<0, 0>>
Body == <<0, 0>>

(* An input that is no content, because it does not parse. *)
Unparsable == <<"unparsable", 0>>

Edit(at, input) == [op |-> "edit", sheet |-> TRUE, at |-> at, to |-> at, input |-> input]
EditElsewhere(at, input) == [Edit(at, input) EXCEPT !.sheet = FALSE]
FillDown(from, to) == [op |-> "fill", sheet |-> TRUE, at |-> from, to |-> to, input |-> Empty]
HideRows(from, to) == [op |-> "filter", sheet |-> TRUE, at |-> from, to |-> to, input |-> Empty]

(* The cells an action writes. *)
Targets(action) ==
    CASE action.op = "edit" -> {action.at}
      [] action.op = "fill" -> Between(action.at, action.to)
      [] OTHER -> {}

(* A formula moved down by so many rows reads rows that much further down. *)
MovedDown(content, by) ==
    IF ~IsFormula(content) THEN content
    ELSE LET f == content[2] IN
         FormulaOf(f.fn, <<f.from[1] + by, f.from[2]>>, <<f.to[1] + by, f.to[2]>>, f.less)

(* The engine takes an action on a sheet there is, and input that parses. *)
Applies(action) == action.sheet /\ action.input # Unparsable

Apply(wb, action) ==
    IF ~Applies(action) THEN wb
    ELSE CASE action.op = "edit" -> [wb EXCEPT ![action.at] = action.input]
           [] action.op = "fill" ->
                [c \in Cell |-> IF c \in Targets(action)
                                THEN MovedDown(wb[action.at], c[1] - action.at[1]) ELSE wb[c]]
           [] OTHER -> wb

ApplyAll(wb, actions) ==
    LET after[n \in 0..Len(actions)] ==
            IF n = 0 THEN wb ELSE Apply(after[n - 1], actions[n])
    IN after[Len(actions)]

----------------------------------------------------------------------------
(* compile.                                                                 *)

(* The table a plan works on. *)
NoSubject == NoTable

Refused == [compiled |-> FALSE, actions |-> <<>>, scope |-> {}, subject |-> NoSubject]
Compiled(actions, scope, subject) ==
    [compiled |-> TRUE, actions |-> actions, scope |-> scope, subject |-> subject]
Nothing == Compiled(<<>>, {}, NoSubject)

HasColumn(table, header) == \E i \in DOMAIN table.headers : table.headers[i] = header

(* Columns of the same header: the first. *)
ColumnOf(table, header) ==
    table.firstCol - 1 + Min({i \in DOMAIN table.headers : table.headers[i] = header})

Resolves(table, ref) == ref = "nextFree" \/ HasColumn(table, ref)
ColumnFor(table, ref) == IF ref = "nextFree" THEN table.lastCol + 1 ELSE ColumnOf(table, ref)

(* The body rows, or the rows a plan names: they must not end before they   *)
(* start, nor start above the header.                                       *)
RowsOf(table, rows) == IF rows = Body THEN <<table.header + 1, table.last>> ELSE rows
RowsAreSound(table, rows) ==
    IF rows = Body THEN table.last > table.header
    ELSE rows[1] <= rows[2] /\ rows[1] >= table.header

Mentions(t) == t.fn \in Function
Substitutes(table, t) == Mentions(t) => HasColumn(table, t.of)

(* Placeholders are that row's cell within a row, and a whole column's body *)
(* without one.                                                             *)
Substituted(table, t, row) ==
    LET col == ColumnOf(table, t.of) IN
    IF t.fn = "literal" THEN t.of
    ELSE IF t.fn = "unparsable" THEN Unparsable
    ELSE IF row = 0 THEN FormulaOf(t.fn, <<table.header + 1, col>>, <<table.last, col>>, col)
    ELSE FormulaOf(t.fn, <<row, col>>, <<row, col>>, col)

(* The first detected table with all of the headers.  It is looked for in   *)
(* the observation the plan was made from.                                  *)
Locate(step, seen) ==
    IF seen = NoTable \/ \E h \in step.has : ~HasColumn(seen, h) THEN Refused
    ELSE Compiled(<<>>, {}, seen)

(* The table with one more column, or a column's new header. *)
Widened(table, col, header) ==
    LET slot == col - table.firstCol + 1
        width == Max({slot, Len(table.headers)})
    IN [table EXCEPT
            !.lastCol = Max({table.lastCol, col}),
            !.headers = [i \in 1..width |->
                            IF i = slot THEN header
                            ELSE IF i \in DOMAIN table.headers THEN table.headers[i] ELSE ""]]

DerivedColumn(step, subject) ==
    IF \/ ~Resolves(subject, step.column) \/ ~RowsAreSound(subject, step.rows)
       \/ ~Substitutes(subject, step.formula)
    THEN Refused
    ELSE LET col == ColumnFor(subject, step.column)
             rows == RowsOf(subject, step.rows)
             cell(i) == IF i = 1 THEN <<subject.header, col>> ELSE <<rows[1] + i - 2, col>>
             input(i) == IF i = 1 THEN Text(step.header)
                         ELSE Substituted(subject, step.formula, rows[1] + i - 2)
         IN Compiled([i \in 1..(rows[2] - rows[1] + 2) |-> Edit(cell(i), input(i))],
                     Between(<<subject.header, col>>, <<rows[2], col>>),
                     Widened(subject, col, step.header))

ApplyFormula(step, subject) ==
    LET row == IF step.at[1] \in (subject.header + 1)..subject.last THEN step.at[1] ELSE 0 IN
    IF ~Substitutes(subject, step.formula) THEN Refused
    ELSE LET input == Substituted(subject, step.formula, row) IN
         Compiled(<<IF step.sheet THEN Edit(step.at, input) ELSE EditElsewhere(step.at, input)>>,
                  {step.at}, NoSubject)

(* Fill copies the formula that is there down the rows. *)
Fill(step, subject, wb) ==
    IF ~Resolves(subject, step.column) \/ ~RowsAreSound(subject, step.rows) THEN Refused
    ELSE LET col == ColumnFor(subject, step.column)
             rows == RowsOf(subject, step.rows)
             source == <<rows[1], col>>
             target == <<rows[2], col>>
         IN IF source \notin FormulaCells(wb) THEN Refused
            ELSE IF rows[2] <= rows[1] THEN Nothing
            ELSE Compiled(<<FillDown(source, target)>>, Between(source, target), NoSubject)

Filter(step, subject) ==
    LET from == <<subject.header, subject.firstCol>>
        to == <<subject.last, subject.lastCol>>
    IN IF ~Resolves(subject, step.column) THEN Refused
       ELSE Compiled(<<HideRows(from, to)>>, Between(from, to), NoSubject)

(* With nowhere to write the variance there is nothing to do. *)
Reconcile(step, subject) ==
    IF ~Resolves(subject, step.left) \/ ~Resolves(subject, step.right) THEN Refused
    ELSE IF step.at = Nowhere THEN Nothing
    ELSE LET left == ColumnFor(subject, step.left)
             right == ColumnFor(subject, step.right)
             input == FormulaOf("difference", <<subject.header + 1, left>>, <<subject.last, left>>, right)
         IN Compiled(<<Edit(step.at, input)>>, {step.at}, NoSubject)

(* Everything but locating and finishing needs a table to work on. *)
Compile(step, wb, seen, subject) ==
    IF subject = NoSubject /\ step.do \notin {"locate_table", "export_workbook"} THEN Refused
    ELSE CASE step.do = "locate_table" -> Locate(step, seen)
           [] step.do = "export_workbook" -> Nothing
           [] step.do = "create_derived_column" -> DerivedColumn(step, subject)
           [] step.do = "apply_formula" -> ApplyFormula(step, subject)
           [] step.do = "fill_range" -> Fill(step, subject, wb)
           [] step.do = "filter_rows" -> Filter(step, subject)
           [] step.do = "reconcile_totals" -> Reconcile(step, subject)

----------------------------------------------------------------------------
(* validate.                                                                *)

InScope(compiled, action) ==
    IF action.op = "filter" THEN {action.at, action.to} \subseteq compiled.scope
    ELSE Targets(action) \subseteq compiled.scope

(* What does not parse, and a formula that names its own cell. *)
InvalidReference(action) ==
    /\ action.op = "edit"
    /\ \/ action.input = Unparsable
       \/ IsFormula(action.input) /\ action.at \in Reads(action.input[2])

(* Mutant: nothing is asked of literals. *)
ClobbersNothing(wb, action) == FALSE

(* A literal where a formula is. *)
OverwritesFormula(wb, action) ==
    /\ ~AllowOverwriting
    /\ action.op = "edit" /\ action.sheet /\ ~IsFormula(action.input)
    /\ action.at \in FormulaCells(wb)

(* The cells written and those that read them, however far down: the graph  *)
(* is that of the workbook before the step.                                 *)
Readers(wb, S) == {c \in FormulaCells(wb) : Reads(wb[c][2]) \intersect S # {}}
BlastRadius(wb, seeds) ==
    LET reached[n \in 0..Cardinality(FormulaCells(wb))] ==
            IF n = 0 THEN seeds ELSE reached[n - 1] \union Readers(wb, reached[n - 1])
    IN reached[Cardinality(FormulaCells(wb))]

Written(actions) == UNION {Targets(actions[i]) : i \in DOMAIN actions}

Valid(compiled, wb) ==
    LET actions == compiled.actions IN
    /\ \A i \in DOMAIN actions :
            /\ InScope(compiled, actions[i])
            /\ ~InvalidReference(actions[i])
            /\ ~OverwritesFormula(wb, actions[i])
    /\ Cardinality(BlastRadius(wb, Written(SelectSeq(actions, LAMBDA a : a.sheet)))) <= MaxCells
    /\ Len(actions) <= MaxCells

----------------------------------------------------------------------------
(* The rehearsal.                                                           *)

(* Mutant: new errors are let through. *)
RehearsedIgnoringErrors(compiled, wb) ==
    LET after == ApplyAll(wb, compiled.actions)
        changed == ChangedCells(wb, after)
    IN /\ \A i \in DOMAIN compiled.actions : Applies(compiled.actions[i])
       /\ changed # {}
       /\ \A c \in changed : c \in compiled.scope \/ IsFormula(wb[c])

(* The engine takes every action, something changes, no cell more shows an  *)
(* error, and what changes outside the scope held a formula.                *)
Rehearsed(compiled, wb) ==
    LET after == ApplyAll(wb, compiled.actions)
        changed == ChangedCells(wb, after)
    IN /\ \A i \in DOMAIN compiled.actions : Applies(compiled.actions[i])
       /\ changed # {}
       /\ Cardinality(ErrorCells(after)) <= Cardinality(ErrorCells(wb))
       /\ \A c \in changed : c \in compiled.scope \/ IsFormula(wb[c])

(* A table that was guessed is not worked on. *)
Confident(compiled) ==
    compiled.subject = NoSubject \/ compiled.subject.confidence >= MinConfidence

MayCommit(compiled, wb) ==
    /\ compiled.compiled
    /\ Confident(compiled)
    /\ Valid(compiled, wb)
    /\ compiled.actions = <<>> \/ Rehearsed(compiled, wb)
=============================================================================
