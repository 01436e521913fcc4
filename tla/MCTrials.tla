------------------------------- MODULE MCTrials -------------------------------
(* Inputs for the algorithms: every short line over a few values, patterns   *)
(* over two letters and the wildcards, dates around the two Februaries that  *)
(* calendars disagree about.                                                 *)
EXTENDS TrialChecks

Between(m, n, S) == UNION {[1..k -> S] : k \in m..n}

a == 97
b == 98
MCKeys == {Number(1), Number(2), Text(<<>>), Text(<<a>>), Text(<<a, 42>>), Bool(TRUE), NA}
MCLines == Between(1, 3, {Number(1), Number(2), Text(<<a>>), Text(<<a, b>>), Empty, NA})

MCPatterns == Upto(3, {a, b, 42, 63, 126})
MCTexts == Upto(3, {a, b, 126}) \cup Upto(2, {a, 233})

MCBlocks == [1..3 -> {<<x, y>> : x \in {Number(0), Text(<<a>>), Empty}, y \in {Number(1), Number(2)}}]
            \cup [1..3 -> {<<x, Number(1)>> : x \in {Number(0), Text(<<>>), Bool(FALSE), Empty}}]
            \cup {<<<<Number(1), NA>>, <<ValueError, Number(1)>>>>}
MCOrders == {1, -1}
MCDelimiters == {{}, {<<a>>}, {<<a>>, <<a, b>>}}

MCSerials == (27..33) \cup (57..63) \cup {90, 91, 366, 367, 368, 425, 426, 427, 1520, 1521, 1522}
MCMonthSteps == {-13, -1, 0, 1, 2, 12}
MCDaySteps == {-9, -1, 0, 1, 6}
MCHolidays == {61, 62, 33}

(* Columns q, p, t and the total z. *)
Alphabet == <<"a", "p", "q", "result", "t", "z">>
MCPrecedes(m, n) == PositionOf(m, Alphabet) < PositionOf(n, Alphabet)

Outcome(plan, words, incidental) == [passed |-> TRUE, incidental |-> incidental, plan |-> plan, words |-> words]
Total(fn, x, y, at) == <<Locate("here", <<x, y>>), Derived("z", at, fn, <<x, y>>), Export>>
MCOutcomes ==
    {Outcome(Total(fn, x, y, "nextFree"), {"times"}, 0) : fn \in {"times", "minus"}, x, y \in {"q", "p", "t"}}
    \cup {Outcome(Total("times", "q", "p", "z"), {"sell"}, 1),
          Outcome(<<Filled("q")>>, {"fill"}, 0),
          Outcome(<<Derived("z", "nextFree", "times", <<"q", "p">>), Applied("B9", "sum", <<"z">>), Filled("t")>>,
                  {"times", "sum"}, 0),
          Outcome(<<Reconciled("q", "p"), Derived("z", "z", "plus", <<"t", "t">>)>>, {"plus"}, 0)}

MCTables == {[i \in DOMAIN h |-> [header |-> h[i], type |-> IF h[i] = "a" THEN "text" ELSE "number"]] :
                h \in {<<"q", "p">>, <<"q", "p", "z">>, <<"t", "q", "p", "z">>, <<"a", "t", "result">>, <<"a", "p">>}}

MCInstructions == {<<"add", "z", "q", "times", "p">>, <<"add", "z", "z", "times", "p">>, <<"q", "minus", "p">>,
                   <<"add", "z", "minus">>, <<"add", "q", "times">>, <<"fill", "z">>, <<"result", "plus", "t">>,
                   <<"times">>, <<"sell", "add">>}
MCThresholds == {60, 95}

MCCorpus == <<[id |-> "t1", origin |-> "human", checks |-> 2], [id |-> "t2", origin |-> "augmented", checks |-> 1]>>
Ran(checks, incidental, replans, calls) ==
    [graded |-> TRUE, checks |-> checks, incidental |-> incidental, replans |-> replans, calls |-> calls]
MCResults ==
    {Ran(<<R!Check("unchanged", TRUE)>>, 0, 0, 2), Ran(<<R!Check("unchanged", TRUE)>>, 1, 1, 1),
     Ran(<<R!Check("sums_match", TRUE), R!Check("unchanged", FALSE)>>, 0, 0, 1),
     Ran(<<R!Check("sums_match", FALSE)>>, 0, 1, 1),
     [graded |-> FALSE, checks |-> <<>>, incidental |-> 0, replans |-> 1, calls |-> 1]}

(* Sheets d, md, whose name ends in it, and r. *)
D == <<1>>
MD == <<2, 1>>
F(sheet, row, col, tall, abs) ==
    G!Holding(Empty, [fn |-> "sum", sheet |-> sheet, row |-> row, col |-> col, tall |-> tall, absRow |-> abs, absCol |-> abs])
V(v) == G!Holding(v, G!NoFormula)
Sheet(name, cells) == [name |-> name, cells |-> cells]
Table == (<<1, 1>> :> V(Text(<<a>>))) @@ (<<1, 2>> :> V(Text(<<b>>)))
         @@ (<<2, 1>> :> V(Number(1))) @@ (<<3, 1>> :> V(Number(2)))
MCWorkbooks ==
    {G!Recalculated(wb) : wb \in {
     <<Sheet(D, Table), Sheet(MD, <<1, 1>> :> V(Number(3)))>>,
     <<Sheet(D, Table @@ (<<2, 2>> :> F(<<>>, 2, 1, 0, FALSE)) @@ (<<3, 2>> :> F(<<>>, 3, 1, 0, FALSE)))>>}}
MCEdits ==
    {G!Edit(D, <<2, 2>>, F(<<>>, 2, 1, 0, FALSE)), G!Edit(D, <<3, 2>>, F(<<>>, 3, 1, 0, FALSE)),
     G!Edit(D, <<2, 2>>, F(<<>>, 2, 1, 0, TRUE)), G!Edit(D, <<3, 2>>, F(<<>>, 2, 1, 0, TRUE)), G!Edit(D, <<4, 2>>, F(<<>>, 2, 2, 1, FALSE)),
     G!Edit(D, <<2, 2>>, F(MD, 1, 1, 0, FALSE)), G!Edit(MD, <<1, 1>>, F(D, 2, 1, 1, FALSE)),
     G!Edit(D, <<2, 1>>, V(Number(4))),
     G!Clear(G!Ref(D, <<2, 1>>, <<3, 2>>)), G!Lines("insert", D, "row", 3, 1), G!Lines("delete", D, "row", 2, 1),
     G!Lines("delete", D, "row", 2, 2)}
MCRepairs ==
    {G!Edit(D, <<2, 2>>, F(<<>>, 2, 1, 0, FALSE)), G!Edit(D, <<3, 2>>, F(<<>>, 3, 1, 0, FALSE)),
     G!Clear(G!Ref(D, <<2, 2>>, <<3, 2>>)), G!Edit(MD, <<1, 1>>, F(D, 2, 1, 1, FALSE))}
MCSteps ==
    {G!Insert(D, "row", 1, 2, <<>>), G!Insert(D, "row", 3, 1, <<>>), G!Insert(D, "col", 2, 1, <<>>),
     G!Insert(D, "col", 2, 1, <<V(Text(<<a>>)), V(Number(9))>>), G!RenameSheet(D, <<3>>), G!RenameSheet(D, MD),
     G!AppendRows(D, 2), G!ScaleLiterals(G!Ref(D, <<2, 1>>, <<3, 2>>), 2)}
Ask(kind, from, to) ==
    [kind |-> kind, ref |-> G!Ref(<<>>, from, to), right |-> G!Ref(D, <<2, 1>>, <<3, 1>>), expect |-> Number(3), tolerance |-> 0,
     formula |-> IF kind = "cell_formula" THEN F(<<>>, 2, 1, 0, FALSE).formula ELSE G!NoFormula]
MCChecks ==
    {Ask(kind, <<2, 2>>, <<2, 2>>) : kind \in {"cell_displays", "cell_number", "cell_formula"}}
    \cup {Ask(kind, <<2, 2>>, <<3, 2>>) : kind \in {"range_filled", "sum_equals", "sums_match", "no_errors"}}
    \cup {Ask("unchanged", <<2, 1>>, <<3, 1>>), [Ask("sheets_exist", <<1, 1>>, <<1, 1>>) EXCEPT !.ref.sheet = D]}

\* A file with what the engine does not model in every place, and one with nothing.
Style(num, font, fill, rest) == [num |-> num, font |-> font, fill |-> fill, border |-> 0, align |-> "none", rest |-> rest]
Elems(tags, empty) == [i \in DOMAIN tags |-> X!Elem(tags[i], tags[i] \in empty)]
FullSheet ==
    [elements |-> Elems(<<"dimension", "sheetView", "cols", "sheetData", "autoFilter", "mergeCells", "conditionalFormatting",
                          "pageMargins", "tableParts">>, {"dimension", "autoFilter", "pageMargins"}),
     dimension |-> <<<<1, 1>>, <<3, 2>>>>, pane |-> X!Pane("frozen", 1, 0),
     cols |-> <<X!Run(1, 2, 843, "s2"), X!Run(3, 3, X!NoSize, "hidden")>>,
     rows |-> (1 :> X!RowOf(144000, "hidden")) @@ (2 :> X!RowOf(X!NoSize, X!NoRest)) @@ (3 :> X!RowOf(X!NoSize, X!NoRest)),
     cells |-> (<<1, 1>> :> X!FileCell(1, 0, <<"text", 1>>)) @@ (<<2, 1>> :> X!FileCell(2, 5, <<"number", 5>>))
               @@ (<<2, 2>> :> X!FileCell(X!NoStyle, 0, <<"error", 3>>)) @@ (<<3, 2>> :> X!FileCell(1, 0, X!Empty)),
     merges |-> {<<<<1, 1>>, <<1, 2>>>>}, rules |-> <<[range |-> <<<<1, 1>>, <<1, 1>>>>, test |-> "blank", priority |-> 1, dxf |-> 0]>>]
BareSheet ==
    [X!EmptyWorksheet EXCEPT !.elements = Elems(<<"sheetView", "sheetData", "dataValidations", "pageMargins">>, {"sheetView", "pageMargins"}),
                             !.cells = (<<1, 1>> :> X!FileCell(X!NoStyle, 0, <<"number", 7>>)),
                             !.rows = (1 :> X!RowOf(X!NoSize, X!NoRest))]
FullFile ==
    [list |-> <<[name |-> "A", rid |-> 1, id |-> 1, rest |-> "hidden"], [name |-> "Chart", rid |-> 2, id |-> 4, rest |-> X!NoRest],
                [name |-> "B", rid |-> 5, id |-> 2, rest |-> X!NoRest]>>,
     rels |-> {[id |-> 1, kind |-> "worksheet", target |-> X!SheetPart(2)], [id |-> 2, kind |-> "chartsheet", target |-> <<"chart", 1>>],
               [id |-> 3, kind |-> "styles", target |-> X!StylesPart], [id |-> 4, kind |-> "calcChain", target |-> X!CalcChain],
               [id |-> 5, kind |-> "worksheet", target |-> X!SheetPart(1)]},
     overrides |-> {X!SheetPart(1), X!SheetPart(2), X!StylesPart, <<"chart", 1>>, X!CalcChain},
     sheets |-> (X!SheetPart(2) :> FullSheet) @@ (X!SheetPart(1) :> BareSheet),
     styles |-> [X!DefaultStyles EXCEPT !.fonts = @ \o <<[look |-> "bold", carry |-> "Arial"]>>, !.fills = @ \o <<"theme:4">>,
                                        !.numFmts = (165 :> "0.000"), !.dxfs = <<[X!Plain EXCEPT !.look = "bold"]>>,
                                        !.xfs = @ \o <<Style(165, 1, 2, "wrapped"), Style(9, 0, 0, "none")>>],
     others |-> {<<"chart", 1>>, X!CalcChain, <<"sheetRels", 2>>},
     defined |-> <<[name |-> 2, scope |-> "book", to |-> 1], [name |-> 1, scope |-> "sheet", to |-> 2]>>]
BareFile ==
    [list |-> <<[name |-> "B", rid |-> 1, id |-> 1, rest |-> X!NoRest]>>,
     rels |-> {[id |-> 1, kind |-> "worksheet", target |-> X!SheetPart(1)]}, overrides |-> {X!SheetPart(1)},
     sheets |-> (X!SheetPart(1) :> BareSheet), styles |-> X!NoStyles, others |-> {}, defined |-> <<>>]
MCFiles == {FullFile, BareFile}
MCBuiltinCodes == (9 :> "0%")

Bold == [X!Plain EXCEPT !.look = "bold"]
Odd == [X!Plain EXCEPT !.code = "0.0", !.fill = "red", !.edges = "box"]
MCChanges ==
    {[do |-> "edit", id |-> 1, at |-> <<2, 2>>, content |-> <<"number", 8>>], [do |-> "edit", id |-> 1, at |-> <<4, 3>>, content |-> <<"formula", 6>>],
     [do |-> "edit", id |-> 1, at |-> <<1, 1>>, content |-> X!Empty],
     [do |-> "format", id |-> 1, at |-> <<2, 1>>, format |-> Bold], [do |-> "format", id |-> 2, at |-> <<4, 4>>, format |-> Bold],
     [do |-> "format", id |-> 1, at |-> <<1, 1>>, format |-> X!Plain], [do |-> "format", id |-> 1, at |-> <<1, 1>>, format |-> Odd],
     [do |-> "merge", id |-> 1, range |-> <<<<2, 1>>, <<3, 1>>>>], [do |-> "unmerge", id |-> 1, range |-> <<<<1, 1>>, <<1, 1>>>>],
     [do |-> "column", id |-> 1, line |-> 2, px |-> 90], [do |-> "column", id |-> 1, line |-> 3, px |-> 64],
     [do |-> "row", id |-> 1, line |-> 1, px |-> 2100], [do |-> "row", id |-> 2, line |-> 5, px |-> 1900],
     [do |-> "freeze", id |-> 1, at |-> <<2, 1>>], [do |-> "freeze", id |-> 1, at |-> <<0, 0>>], [do |-> "freeze", id |-> 3, at |-> <<1, 0>>],
     [do |-> "rule", id |-> 1, rule |-> [range |-> <<<<1, 1>>, <<3, 1>>>>, test |-> "unique", format |-> Odd]],
     [do |-> "rule", id |-> 2, rule |-> [range |-> <<<<1, 1>>, <<3, 1>>>>, test |-> "blank", format |-> Bold]],
     [do |-> "add", name |-> "C"], [do |-> "rename", id |-> 1, name |-> "Z"], [do |-> "rename", id |-> 2, name |-> "A2"],
     [do |-> "delete", id |-> 1], [do |-> "delete", id |-> 2], [do |-> "name", name |-> 1, to |-> 2]}

\* Gestures made in the row of their place in the sitting.
MCFormula(row, sheet) == M!Typed(M!Formula("sum", sheet, row, 1, FALSE, FALSE))
Area(row, last) == <<<<row, 1>>, <<last, 2>>>>
Patch(attribute) == [attribute |-> attribute, to |-> 1]
Gesture(letter, row) ==
    LET do == [M!NoArguments EXCEPT !.sheet = 1] IN
    CASE letter = "f" -> [do EXCEPT !.do = "cell.edit", !.addr = <<row, 2>>, !.input = MCFormula(row, 0)]
      [] letter = "x" -> [do EXCEPT !.do = "cell.edit", !.addr = <<row, 2>>,
                                    !.input = M!Typed(M!Formula("sum", 2, 1, 1, TRUE, FALSE))]
      [] letter = "u" -> [do EXCEPT !.do = "cell.edit", !.addr = <<row, 2>>,
                                    !.input = M!Unparsed(<<[is |-> "word", content |-> row], [is |-> "bang", content |-> 0],
                                                           [is |-> "word", content |-> 1], [is |-> "string", content |-> row]>>)]
      [] letter = "v" -> [do EXCEPT !.do = "cell.edit", !.addr = <<row, 1>>, !.input = M!Literal("number", row)]
      [] letter = "b" -> [do EXCEPT !.do = "format", !.range = Area(row, row), !.patches = <<Patch("bold")>>]
      [] letter = "B" -> [do EXCEPT !.do = "format", !.range = Area(row, row), !.patches = <<Patch("bold"), Patch("fill")>>]
      [] letter = "m" -> [do EXCEPT !.do = "merge", !.range = Area(row, row)]
      [] letter = "c" -> [do EXCEPT !.do = "range.clear", !.range = Area(row, row + 1)]
      [] letter = "i" -> [do EXCEPT !.do = "row.insert", !.at = row, !.count = 1]
      [] letter = "w" -> [do EXCEPT !.do = "col.resize", !.at = 2, !.count = 1, !.size = row]
      [] letter = "s" -> [do EXCEPT !.do = "sort.apply", !.range = Area(1, row), !.keys = <<[column |-> 2, ascending |-> TRUE]>>]
      [] letter = "d" -> [do EXCEPT !.do = "fill.apply", !.source = Area(row, row), !.target = Area(row, row + 2)]
      [] letter = "p" -> [do EXCEPT !.do = "paste", !.source = Area(row, row), !.target = Area(row + 1, row + 1)]
      [] OTHER -> [do EXCEPT !.do = letter]

Sitting(word) == [k \in DOMAIN word |-> Gesture(word[k], k)]
MCSittings ==
    LET words == Between(0, 3, {"f", "v", "b"})
        loops == {<<w>> : w \in [1..6 -> {"f", "v"}]} \cup {<<w, <<"v", "f", "b", "b", "b">>>> : w \in [1..5 -> {"f", "v"}]}
        longer == {<<w, <<"f", "v", "b", "f">>>> : w \in [1..4 -> {"f", "v", "b"}]}
        third == {<<w, <<"f", "v", "b">>, <<"v", "c", "f">>>> : w \in words}
        others == {<<w, w \o <<"undo">> \o w, <<"nav.select">>>> : w \in [1..2 -> {"x", "u", "B", "m", "c", "i", "w", "s", "d", "p", "v"}]}
    IN {[s \in DOMAIN log |-> Sitting(log[s])] : log \in (words \X words) \cup loops \cup longer \cup third \cup others}
MCMoves == {<<0, 0>>, <<1, 0>>, <<-1, 1>>, <<-3, 0>>}

Of(actor, workbook, ids) == [actor |-> actor, workbook |-> workbook, ids |-> ids]
MCNights ==
    {<<Of("ann", w, ids)>> : w \in {1, 2}, ids \in {<<>>, <<"h">>, <<"k">>, <<"h", "k">>}}
    \cup {<<Of("ann", 1, ids), Of("ann", 2, <<"h">>)>> : ids \in {<<>>, <<"h">>, <<"k">>}}
    \cup {<<Of("bob", 1, ids), Of("ann", 1, <<"h">>)>> : ids \in {<<"h">>, <<"b">>}}
=============================================================================
