------------------------------- MODULE Gestures -------------------------------
(***************************************************************************)
(* The ways of an action through the log: what the engine records of it     *)
(* (engine/telemetry.rs), the token a miner makes of the record             *)
(* (miner/normalize.rs), what the record turns back into (miner/routine.rs) *)
(* and the action moved to another place (engine/routine.rs).               *)
(*                                                                          *)
(* Cells are pairs of a row and a column from 1, ranges pairs of cells; no  *)
(* cell and no range are the empty sequence.  A formula is a function of    *)
(* one reference, on its own sheet (0) or another.  A text the parser does  *)
(* not take is the sequence of its lexemes, each a kind and a content.      *)
(***************************************************************************)
EXTENDS Integers, SequencesExt, FiniteSetsExt

CONSTANTS
    LastRow, LastCol,       \* the grid
    ShapeSeconds            \* what the length of a formula adds to its four seconds

None == <<>>
NoSize == 0

Formula(fn, sheet, row, col, absRow, absCol) ==
    [fn |-> fn, sheet |-> sheet, row |-> row, col |-> col, absRow |-> absRow, absCol |-> absCol]

(* The reference of a formula that was moved off the grid is an error. *)
Broken(formula) == [formula EXCEPT !.sheet = 0, !.row = 0, !.col = 0, !.absRow = TRUE, !.absCol = TRUE]

NoFormula == Broken(Formula("none", 0, 1, 1, FALSE, FALSE))

(* What was typed, or what the log says of it. *)
Input(is, kind, value) == [is |-> is, kind |-> kind, value |-> value, formula |-> NoFormula, lexemes |-> <<>>]
Literal(kind, value) == Input("literal", kind, value)
Typed(formula) == [Input("formula", "none", 0) EXCEPT !.formula = formula]
Unparsed(lexemes) == [Input("unparsed", "none", 0) EXCEPT !.lexemes = lexemes]
Absent == Input("absent", "value", 0)

IsFormula(input) == input.is \in {"formula", "unparsed"}

(* An action of the engine and its arguments; those it has not are none. *)
NoArguments ==
    [do |-> "none", sheet |-> 0, addr |-> None, range |-> None, source |-> None, target |-> None, input |-> Absent,
     at |-> 0, count |-> 0, size |-> NoSize, keys |-> <<>>, header |-> FALSE, patches |-> <<>>, values |-> FALSE, cut |-> FALSE]

Structural == {"row.insert", "row.delete", "col.insert", "col.delete"}
Resizes == {"col.resize", "row.resize"}
OfRows == {"row.insert", "row.delete", "row.resize"}

----------------------------------------------------------------------------
(* Recording.                                                               *)

(* The entry of the vocabulary, several actions to some of them. *)
ActionName(a) ==
    CASE a.do \in {"cell.clear", "range.clear"} -> "cell.clear"
      [] a.do = "paste" -> IF a.cut THEN "range.cut" ELSE "range.paste"
      [] a.do \in {"merge", "unmerge", "format", "format.clear"} -> "format.apply"
      [] OTHER -> a.do

(* Formulas are kept, literals hashed under "structural" and nothing is     *)
(* said of either while capture is off.                                     *)
RedactInput(input, mode) ==
    CASE mode = "off" -> Absent
      [] mode = "structural" /\ ~IsFormula(input) -> [input EXCEPT !.is = "hashed"]
      [] OTHER -> input

Describe(a, mode) ==
    [action |-> ActionName(a),
     isFormula |-> IsFormula(a.input),
     kind |-> CASE a.do \in {"merge", "unmerge"} -> a.do
                [] a.do = "format" -> "style"
                [] a.do = "format.clear" -> "clear"
                [] OTHER -> "none",
     attributes |-> [i \in DOMAIN a.patches |-> a.patches[i].attribute],
     right |-> a.do = "fill.apply" /\ a.target[2][1] - a.target[1][1] <= a.source[2][1] - a.source[1][1],
     args |-> [a EXCEPT !.do = "none", !.sheet = 0, !.input = IF a.do = "cell.edit" THEN RedactInput(@, mode) ELSE @]]

----------------------------------------------------------------------------
(* Tokens.                                                                  *)

(* A coordinate as seen from the cell the formula is in. *)
Seen(absolute, there, here) == IF absolute THEN <<"at", there>> ELSE <<"by", there - here>>

ShapeOf(formula, addr) ==
    <<"r1c1", formula.fn, formula.sheet # 0, Seen(formula.absRow, formula.row, addr[1]), Seen(formula.absCol, formula.col, addr[2])>>

(* What is left of a text that is no formula: a string and the name of a    *)
(* sheet are marked and not kept.  A word is a name when a "!" follows it,  *)
(* and a quoted one too.                                                    *)
Scrubbed(lexemes) ==
    LET After(i) == IF i < Len(lexemes) THEN lexemes[i + 1].is ELSE "end"
        Before(i) == IF i > 1 THEN lexemes[i - 1].is ELSE "start"
        Kept(i) ==
            CASE lexemes[i].is = "string" -> <<"string">>
              [] lexemes[i].is = "quoted" -> IF After(i) = "bang" THEN <<"sheet">> ELSE <<"quotes">>
              [] lexemes[i].is = "bang" -> IF Before(i) = "quoted" THEN <<>> ELSE <<"sheet">>
              [] lexemes[i].is = "word" -> IF After(i) = "bang" THEN <<>> ELSE <<lexemes[i].content>>
              [] OTHER -> <<lexemes[i].content>>
    IN <<"scrubbed", FlattenSeq([i \in DOMAIN lexemes |-> Kept(i)])>>

FormulaShape(input, addr) ==
    IF input.is = "formula" THEN ShapeOf(input.formula, IF addr = None THEN <<1, 1>> ELSE addr) ELSE Scrubbed(input.lexemes)

LiteralKind(input) == IF input.is = "absent" THEN "unknown" ELSE input.kind

NotGestures ==
    {"nav.select", "capture.pause", "capture.resume", "consent.granted", "consent.revoked", "file.new", "file.open",
     "file.import", "file.export", "file.save", "routine.run"}

Known == Structural \cup {"cell.clear", "filter.apply", "filter.clear", "find.replace", "sheet.add", "sheet.rename",
                          "sheet.delete", "undo", "redo"}

(* The tokens of an event: one for each attribute a format names, none for  *)
(* what is no gesture, and otherwise one.  Where it happened, and which     *)
(* literal was typed, is in none of them.                                   *)
TokensFor(e) ==
    CASE e.action = "cell.edit" ->
            IF e.isFormula THEN <<<<"formula", FormulaShape(e.args.input, e.args.addr)>>>>
            ELSE <<<<"literal", LiteralKind(e.args.input)>>>>
      [] e.action \in {"range.paste", "range.cut"} -> <<<<"paste", e.args.values, e.args.cut>>>>
      [] e.action = "fill.apply" -> <<<<"fill", ~e.right>>>>
      [] e.action \in Resizes -> <<<<"resize", e.action = "col.resize">>>>
      [] e.action = "sort.apply" -> <<<<"sort", Len(e.args.keys), e.args.header>>>>
      [] e.action = "format.apply" ->
            IF e.attributes = <<>> THEN <<<<"format", e.kind>>>>
            ELSE [i \in DOMAIN e.attributes |-> <<"format", e.attributes[i]>>]
      [] e.action \in Known -> <<<<e.action>>>>
      [] e.action \in NotGestures -> <<>>
      [] OTHER -> <<<<"other", e.action>>>>

(* Tenths of a second a gesture takes by hand. *)
ManualTime(token) ==
    CASE token[1] = "formula" -> 40 + 10 * ShapeSeconds
      [] token[1] = "literal" -> 30
      [] token[1] \in {"cell.clear", "filter.clear"} -> 15
      [] token[1] \in {"paste", "format"} -> 20
      [] token[1] \in Structural \cup {"fill"} -> 25
      [] token[1] = "resize" -> 35
      [] token[1] = "sort" -> 60 + 20 * token[2]
      [] token[1] = "filter.apply" -> 60
      [] token[1] = "find.replace" -> 80
      [] token[1] \in {"sheet.add", "sheet.rename", "sheet.delete"} -> 40
      [] token[1] \in {"undo", "redo"} -> 0
      [] OTHER -> 10

(* The steps of a log, each with the event it came from. *)
Normalize(events) ==
    FlattenSeq([i \in DOMAIN events |->
        LET tokens == TokensFor(events[i].event) IN
        [k \in DOMAIN tokens |-> [token |-> tokens[k], source |-> i, session |-> events[i].session]]])

----------------------------------------------------------------------------
(* Rebuilding.                                                              *)

Skip == [is |-> "skip"]
Doing(a) == [is |-> "action", action |-> a]
Missing(addr, kind) == [is |-> "missing", addr |-> addr, kind |-> kind]

(* What a record turns back into: the action without its sheet, a cell      *)
(* whose value was not recorded, or nothing, where it says too little.      *)
Rebuild(e) ==
    LET args == e.args IN
    CASE e.action = "cell.edit" /\ args.addr # None ->
            IF args.input.is \in {"hashed", "absent"} THEN Missing(args.addr, args.input.kind)
            ELSE Doing([NoArguments EXCEPT !.do = "cell.edit", !.addr = args.addr, !.input = args.input])
      [] e.action = "cell.clear" /\ args.addr # None -> Doing([NoArguments EXCEPT !.do = "cell.clear", !.addr = args.addr])
      [] e.action = "cell.clear" /\ args.addr = None /\ args.range # None ->
            Doing([NoArguments EXCEPT !.do = "range.clear", !.range = args.range])
      [] e.action = "fill.apply" /\ args.source # None /\ args.target # None ->
            Doing([NoArguments EXCEPT !.do = "fill.apply", !.source = args.source, !.target = args.target])
      [] e.action \in Structural -> Doing([NoArguments EXCEPT !.do = e.action, !.at = args.at, !.count = args.count])
      [] e.action \in Resizes ->
            Doing([NoArguments EXCEPT !.do = e.action, !.at = args.at, !.count = args.count, !.size = args.size])
      [] e.action = "sort.apply" /\ args.range # None /\ args.keys # <<>> ->
            Doing([NoArguments EXCEPT !.do = "sort.apply", !.range = args.range, !.keys = args.keys, !.header = args.header])
      [] e.action = "format.apply" /\ args.range # None /\ e.kind \in {"merge", "unmerge"} ->
            Doing([NoArguments EXCEPT !.do = e.kind, !.range = args.range])
      [] e.action = "format.apply" /\ args.range # None /\ e.kind = "clear" ->
            Doing([NoArguments EXCEPT !.do = "format.clear", !.range = args.range])
      [] e.action = "format.apply" /\ args.range # None /\ e.kind = "style" /\ args.patches # <<>> ->
            Doing([NoArguments EXCEPT !.do = "format", !.range = args.range, !.patches = args.patches])
      [] OTHER -> Skip

(* The first cell an action touches. *)
PrimaryAddr(a) ==
    IF a.addr # None THEN a.addr
    ELSE IF a.range # None THEN a.range[1]
    ELSE IF a.source # None THEN a.source[1]
    ELSE IF a.do \in {"row.insert", "row.delete"} THEN <<a.at, 1>>
    ELSE IF a.do \in {"col.insert", "col.delete"} THEN <<1, a.at>>
    ELSE None

----------------------------------------------------------------------------
(* Moving.                                                                  *)

(* A relative reference goes along, and is an error beyond the grid. *)
Offset(formula, down, right) ==
    LET row == IF formula.absRow THEN formula.row ELSE formula.row + down
        col == IF formula.absCol THEN formula.col ELSE formula.col + right
    IN IF row \in 1..LastRow /\ col \in 1..LastCol THEN [formula EXCEPT !.row = row, !.col = col]
       ELSE IF formula.row = 0 THEN formula ELSE Broken(formula)

(* Mutant: the formula is typed as it was. *)
ShiftNothing(input, down, right) == input

ShiftFormula(input, down, right) ==
    IF input.is = "formula" THEN [input EXCEPT !.formula = Offset(input.formula, down, right)] ELSE input

ShiftCell(cell, down, right) == IF cell = None THEN None ELSE <<cell[1] + down, cell[2] + right>>
ShiftRange(range, down, right) == [i \in DOMAIN range |-> ShiftCell(range[i], down, right)]

(* An action moved as a whole.  What would begin above or left of the grid  *)
(* cannot be moved there; what would end beyond it is left to the engine to *)
(* refuse.                                                                  *)
Rebase(a, down, right) ==
    [a EXCEPT !.addr = ShiftCell(@, down, right), !.range = ShiftRange(@, down, right),
              !.source = ShiftRange(@, down, right), !.target = ShiftRange(@, down, right),
              !.input = ShiftFormula(@, down, right),
              !.at = IF a.do \in Structural \cup Resizes THEN @ + (IF a.do \in OfRows THEN down ELSE right) ELSE @,
              !.keys = [i \in DOMAIN @ |-> [@[i] EXCEPT !.column = a.keys[i].column + right]]]

Touched(a) == {cell \in {a.addr} \cup ToSet(a.range) \cup ToSet(a.source) \cup ToSet(a.target) : cell # None}
Begins(a) ==
    /\ \A cell \in Touched(a) : cell[1] >= 1 /\ cell[2] >= 1
    /\ a.do \in Structural \cup Resizes => a.at >= 1
    /\ \A i \in DOMAIN a.keys : a.keys[i].column >= 1

RetargetSheet(a, sheet) == [a EXCEPT !.sheet = sheet]

(* The actions of a routine at an anchor.  Those that cannot be moved there *)
(* are left out.                                                            *)
ActionsAt(routine, sheet, anchor) ==
    LET down == anchor[1] - routine.anchor[1]
        right == anchor[2] - routine.anchor[2]
        moved == SelectSeq([i \in DOMAIN routine.actions |-> Rebase(routine.actions[i], down, right)], Begins)
    IN [i \in DOMAIN moved |-> RetargetSheet(moved[i], sheet)]

=============================================================================
