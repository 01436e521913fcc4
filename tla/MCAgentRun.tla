----------------------------- MODULE MCAgentRun -----------------------------
(* Two small tables for the agent, each with headers in the first row and   *)
(* two rows of data, and steps a planner may write about them.              *)
EXTENDS AgentRun, TLC

Sheet(at) == [c \in Cell |-> IF c \in DOMAIN at THEN at[c] ELSE Empty]

(* Column a is numbers, column b a formula over a and a number. *)
Prices == Sheet(<<1, 1>> :> Text("a") @@ <<1, 2>> :> Text("b")
             @@ <<2, 1>> :> Number(1) @@ <<3, 1>> :> Number(2)
             @@ <<2, 2>> :> FormulaOf("times", <<2, 1>>, <<2, 1>>, 1) @@ <<3, 2>> :> Number(1))

(* Column b is of two kinds: the table is not detected with confidence. *)
Notes == [Prices EXCEPT ![<<2, 2>>] = Text("n"), ![<<3, 1>>] = FormulaOf("ref", <<2, 1>>, <<2, 1>>, 1)]

MCTasks == {Prices, Notes}

Template(fn, of) == [fn |-> fn, of |-> of]
Derive(column, header, rows, formula) ==
    [do |-> "create_derived_column", column |-> column, header |-> header, rows |-> rows, formula |-> formula]
Formula(at, formula, sheet) == [do |-> "apply_formula", at |-> at, formula |-> formula, sheet |-> sheet]

MCPlanSteps ==
    {[do |-> "locate_table", has |-> {"a", "b"}],
     [do |-> "locate_table", has |-> {"c"}],
     Derive("nextFree", "c", Body, Template("times", "a")),
     Derive("b", "b", Body, Template("literal", Number(2))),
     Derive("a", "a", <<1, 2>>, Template("literal", Number(1))),
     Derive("nextFree", "c", Body, Template("unparsable", Empty)),
     Formula(<<5, 1>>, Template("sum", "a"), TRUE),
     Formula(<<1, 3>>, Template("times", "b"), TRUE),
     Formula(<<5, 1>>, Template("sum", "a"), FALSE),
     Formula(<<3, 2>>, Template("times", "b"), TRUE),
     Formula(<<5, 2>>, Template("fault", "a"), TRUE),
     [do |-> "fill_range", column |-> "b", rows |-> Body],
     [do |-> "filter_rows", column |-> "a"],
     [do |-> "reconcile_totals", left |-> "a", right |-> "b", at |-> <<5, 3>>],
     [do |-> "reconcile_totals", left |-> "a", right |-> "b", at |-> Nowhere],
     [do |-> "export_workbook"]}
=============================================================================
