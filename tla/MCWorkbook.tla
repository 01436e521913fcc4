----------------------------- MODULE MCWorkbook -----------------------------
(* Workbook for TLC: what is typed into a cell is a reference to a row of   *)
(* the cell's own sheet or to a row of one other sheet by name.             *)
EXTENDS Workbook

TwoSheets == <<"S1", "S2">>

TypedInputs == {Blank, Ref(Here, 1), Ref("S1", 2)}
=============================================================================
