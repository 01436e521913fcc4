------------------------------- MODULE Packages -------------------------------
(***************************************************************************)
(* Reading an xlsx package and writing the workbook back into it            *)
(* (io/xlsx.rs, io/package.rs, io/sizes.rs).  A file is the list of its     *)
(* sheets, the relationships and declarations of its parts, and the parts;  *)
(* a worksheet is its elements in order, with what each of them holds.      *)
(***************************************************************************)
EXTENDS Styles

CONSTANT Unreadable     \* formulas the engine cannot parse

Empty == <<"empty", 0>>
NoFormula == 0
NoSize == -1
NoRest == "none"

\* What an xlsx says of a cell, a column, a row, and where panes are split.
FileCell(s, f, v) == [s |-> s, f |-> f, v |-> v]
Run(min, max, width, rest) == [min |-> min, max |-> max, width |-> width, rest |-> rest]
RowOf(ht, rest) == [ht |-> ht, rest |-> rest]
Pane(state, rows, cols) == [state |-> state, rows |-> rows, cols |-> cols]
NoPane == Pane("none", 0, 0)
NoDetail == [frozen |-> <<0, 0>>, widths |-> <<>>, colRest |-> <<>>, rowAttrs |-> <<>>, heights |-> <<>>,
             styles |-> <<>>, merged |-> {}, rules |-> 0]

Elem(tag, empty) == [tag |-> tag, empty |-> empty]
EmptyWorksheet ==
    [elements |-> <<Elem("dimension", TRUE), Elem("sheetData", TRUE)>>, dimension |-> <<<<1, 1>>, <<1, 1>>>>, pane |-> NoPane,
     cols |-> <<>>, rows |-> <<>>, cells |-> <<>>, merges |-> {}, rules |-> <<>>]

SheetPart(n) == <<"sheet", n>>
RelsOf(part) == <<"sheetRels", part[2]>>
CalcChain == <<"calcChain", 0>>
StylesPart == <<"styles", 0>>

----------------------------------------------------------------------------
(* Sizes, in integers: a width of the file in hundredths of a character, a  *)
(* height in ten-thousandths of a point; in the engine pixels, a height in  *)
(* hundredths of one.                                                       *)
Padding == 5
CharsToPx(chars) == IF chars <= 0 THEN 0 ELSE ((256 * chars + 1800) * 7) \div 25600 + Padding
PxToChars(px) == IF px <= Padding THEN 0 ELSE ((px - Padding) * 200 + 7) \div 14
PointsToPx(points) == (2 * points + 75) \div 150
PxToPoints(px) == 75 * px

----------------------------------------------------------------------------
(* Import.                                                                  *)

RelFor(file, rid, kind) == {rel \in file.rels : rel.id = rid /\ rel.kind = kind}
IsWorksheet(file, entry) == RelFor(file, entry.rid, "worksheet") # {}
PartFor(file, entry) == (CHOOSE rel \in RelFor(file, entry.rid, "worksheet") : TRUE).target

Worksheets(file) == SelectSeq(file.list, LAMBDA entry : IsWorksheet(file, entry))

ColumnRuns(ws, column) == {i \in DOMAIN ws.cols : column \in ws.cols[i].min..ws.cols[i].max}
WithRuns(ws, Test(_)) == {c \in UNION {ws.cols[i].min..ws.cols[i].max : i \in DOMAIN ws.cols} :
                            \E i \in ColumnRuns(ws, c) : Test(ws.cols[i])}
LastRun(ws, column, Test(_)) == ws.cols[Max({i \in ColumnRuns(ws, column) : Test(ws.cols[i])})]
HasWidth(run) == run.width # NoSize
HasRest(run) == run.rest # NoRest

(* What export regenerates, and has to say again as the file said it.       *)
ScanWorksheet(ws) ==
    LET attributed == {r \in DOMAIN ws.rows : ws.rows[r] # RowOf(NoSize, NoRest)} IN
    [frozen |-> IF ws.pane.state = "frozen" THEN <<ws.pane.rows, ws.pane.cols>> ELSE <<0, 0>>,
     widths |-> [c \in WithRuns(ws, HasWidth) |-> CharsToPx(LastRun(ws, c, HasWidth).width)],
     colRest |-> [c \in WithRuns(ws, HasRest) |-> LastRun(ws, c, HasRest).rest],
     rowAttrs |-> [r \in attributed |-> ws.rows[r]],
     heights |-> [r \in {r \in attributed : PointsToPx(ws.rows[r].ht) > 0} |-> PointsToPx(ws.rows[r].ht)],
     styles |-> [a \in {a \in DOMAIN ws.cells : ws.cells[a].s # NoStyle} |-> ws.cells[a].s],
     merged |-> ws.merges,
     rules |-> Len(ws.rules)]

Reported(file) ==
    {part[1] : part \in file.others}
    \cup {"rules" : x \in {part \in DOMAIN file.sheets : file.sheets[part].rules # <<>>}}
    \cup {"otherSheet" : x \in {i \in DOMAIN file.list : ~IsWorksheet(file, file.list[i])}}

(* A package without styles gets the default ones, declared as a part.      *)
NextRelId(file) == Max({0} \cup {rel.id : rel \in file.rels}) + 1
WithStyles(file) ==
    IF file.styles # NoStyles THEN file
    ELSE [file EXCEPT !.styles = DefaultStyles,
                      !.rels = @ \cup {[id |-> NextRelId(file), kind |-> "styles", target |-> StylesPart]},
                      !.overrides = @ \cup {StylesPart}]

(* The text a user would have typed for a value of the file, as the engine  *)
(* takes it: a date is its serial number, another text is quoted, a formula *)
(* it cannot read is kept as text.                                          *)
Typed(cell) ==
    CASE cell.f \in Unreadable -> <<"text", cell.f>>
      [] cell.f \notin Unreadable \cup {NoFormula} -> <<"formula", cell.f>>
      [] cell.f = NoFormula /\ cell.v[1] = "date" -> <<"number", cell.v[2]>>
      [] cell.f = NoFormula /\ cell.v[1] = "isoDate" -> <<"text", cell.v[2]>>
      [] OTHER -> cell.v

IsTyped(cell) == cell.f # NoFormula \/ cell.v \notin {Empty, <<"text", 0>>}
SheetInputs(ws) == [a \in {a \in DOMAIN ws.cells : IsTyped(ws.cells[a])} |-> Typed(ws.cells[a])]

Formatted(ws, styles) ==
    LET formats == [a \in DOMAIN ScanWorksheet(ws).styles |-> FormatFor(styles, ws.cells[a].s)] IN
    Restrict(formats, {a \in DOMAIN formats : formats[a] # Plain})

ImportedSheet(file, entry, id) ==
    LET ws == file.sheets[PartFor(file, entry)]
        detail == ScanWorksheet(ws)
    IN [id |-> id, name |-> entry.name, cells |-> SheetInputs(ws), formats |-> Formatted(ws, file.styles),
        merged |-> ws.merges, widths |-> detail.widths, heights |-> detail.heights, frozen |-> detail.frozen,
        conditional |-> <<>>]

(* A name of one sheet, or one that Excel uses, is only carried over.       *)
IsModelled(d) == d.scope = "book"
DefinedNames(file) == SelectSeq(file.defined, IsModelled)
OtherNames(file) == SelectSeq(file.defined, LAMBDA d : ~IsModelled(d))
ScannedNames(file) ==
    [n \in {d.name : d \in ToSet(DefinedNames(file))} |-> Last(SelectSeq(DefinedNames(file), LAMBDA d : d.name = n)).to]

Import(read) ==
    LET file == WithStyles(read)
        entries == Worksheets(file)
    IN [sheets |-> [i \in DOMAIN entries |-> ImportedSheet(file, entries[i], i)],
        names |-> ScannedNames(file),
        package |-> file,
        parts |-> [i \in DOMAIN entries |-> PartFor(file, entries[i])]]

----------------------------------------------------------------------------
(* Export: where every sheet goes.                                          *)

FreePart(taken) == SheetPart(Min({n \in 1..(Cardinality(taken) + 1) : SheetPart(n) \notin taken}))

SheetIds(wb) == {wb.sheets[i].id : i \in DOMAIN wb.sheets}
IsFresh(wb, sheet) == sheet.id \notin DOMAIN wb.parts

FreshSheets(wb) == SelectSeq(wb.sheets, LAMBDA sheet : IsFresh(wb, sheet))
FreshParts(wb) ==
    FoldLeft(LAMBDA found, sheet : Append(found, FreePart(DOMAIN wb.package.sheets \cup ToSet(found))), <<>>, FreshSheets(wb))

SlotOf(wb, sheet) ==
    IF IsFresh(wb, sheet)
    THEN FreshParts(wb)[CHOOSE i \in DOMAIN FreshSheets(wb) : FreshSheets(wb)[i].id = sheet.id]
    ELSE wb.parts[sheet.id]

GoneParts(wb) == {wb.parts[id] : id \in DOMAIN wb.parts \ SheetIds(wb)}
PointsAt(wb, entry, targets) == IsWorksheet(wb.package, entry) /\ PartFor(wb.package, entry) \in targets

(* The list of sheets: the entries of the file, renamed or left out, and    *)
(* one more for each new sheet.                                             *)
PatchedList(wb) ==
    LET file == wb.package
        Renamed(entry) ==
            LET same == {i \in DOMAIN wb.sheets : ~IsFresh(wb, wb.sheets[i]) /\ PointsAt(wb, entry, {wb.parts[wb.sheets[i].id]})} IN
            IF same = {} THEN entry ELSE [entry EXCEPT !.name = wb.sheets[CHOOSE i \in same : TRUE].name]
        kept == SelectSeq(file.list, LAMBDA entry : ~PointsAt(wb, entry, GoneParts(wb)))
        highest == Max({0} \cup {file.list[i].id : i \in DOMAIN file.list})
    IN [i \in DOMAIN kept |-> Renamed(kept[i])]
       \o [i \in DOMAIN FreshSheets(wb) |->
             [name |-> FreshSheets(wb)[i].name, rid |-> NextRelId(file) + i - 1, id |-> highest + i, rest |-> NoRest]]

ListChanged(wb) == FreshSheets(wb) # <<>> \/ GoneParts(wb) # {}

PatchedRels(wb) ==
    LET file == wb.package
        gone == {file.list[i].rid : i \in {i \in DOMAIN file.list : PointsAt(wb, file.list[i], GoneParts(wb))}}
    IN {rel \in file.rels : rel.id \notin gone}
       \cup {[id |-> NextRelId(file) + i - 1, kind |-> "worksheet", target |-> FreshParts(wb)[i]] : i \in DOMAIN FreshSheets(wb)}

(* The relationships of a sheet go with it, and the order of calculation,   *)
(* which counts sheets, with any change of the list.                        *)
Dropped(wb) == GoneParts(wb) \cup ({RelsOf(part) : part \in GoneParts(wb)} \cap wb.package.others)
PatchedTypes(wb) == (wb.package.overrides \ Dropped(wb)) \cup ToSet(FreshParts(wb))
KeptOthers(wb) == wb.package.others \ (Dropped(wb) \cup IF ListChanged(wb) THEN {CalcChain} ELSE {})

----------------------------------------------------------------------------
(* Export: what every sheet holds.                                          *)

ImportedPart(wb, sheet) == IF IsFresh(wb, sheet) THEN EmptyWorksheet ELSE wb.package.sheets[wb.parts[sheet.id]]
DetailOf(wb, sheet) == IF IsFresh(wb, sheet) THEN NoDetail ELSE ScanWorksheet(wb.package.sheets[wb.parts[sheet.id]])

Get(f, x, default) == IF x \in DOMAIN f THEN f[x] ELSE default
InOrder(addresses) == SetToSortSeq(addresses, LAMBDA a, b : a[1] < b[1] \/ (a[1] = b[1] /\ a[2] < b[2]))

(* The cells whose format is no longer what their index said, and the       *)
(* records they need, over all sheets.                                      *)
StyledCells(wb, sheet) == DOMAIN DetailOf(wb, sheet).styles \cup DOMAIN sheet.formats
OriginalStyle(wb, sheet, a) == Get(DetailOf(wb, sheet).styles, a, NoStyle)
CurrentFormat(sheet, a) == Get(sheet.formats, a, Plain)
IsRestyled(wb, sheet, a) == CurrentFormat(sheet, a) # FormatFor(wb.package.styles, OriginalStyle(wb, sheet, a))

Additions(wb) ==
    LET AddCell(sheet, additions, a) ==
            WithIndex(wb.package.styles, additions, CurrentFormat(sheet, a), OriginalStyle(wb, sheet, a))
        AddSheet(additions, sheet) ==
            FoldLeft(LAMBDA found, a : AddCell(sheet, found, a), additions,
                     InOrder({a \in StyledCells(wb, sheet) : IsRestyled(wb, sheet, a)}))
        rules == FlattenSeq([i \in DOMAIN wb.sheets |-> wb.sheets[i].conditional])
    IN [FoldLeft(AddSheet, NoAdditions, wb.sheets) EXCEPT !.dxfs = [i \in DOMAIN rules |-> rules[i].format]]

StyleIndex(wb, additions, sheet, a) ==
    CASE a \notin StyledCells(wb, sheet) -> NoStyle
      [] a \in StyledCells(wb, sheet) /\ ~IsRestyled(wb, sheet, a) -> OriginalStyle(wb, sheet, a)
      [] OTHER -> AssignedIndex(wb.package.styles, additions, CurrentFormat(sheet, a))

(* A formula is written with the value it has, which is not read back.      *)
WrittenCell(content, s) ==
    CASE content[1] = "formula" -> FileCell(s, content[2], <<"number", content[2]>>)
      [] OTHER -> FileCell(s, NoFormula, content)

(* Columns next to each other that say the same share an element.           *)
SameWidth(widths, rests, c, d) == Get(widths, c, NoSize) = Get(widths, d, NoSize)
SameColumn(widths, rests, c, d) ==
    Get(widths, c, NoSize) = Get(widths, d, NoSize) /\ Get(rests, c, NoRest) = Get(rests, d, NoRest)

WrittenCols(widths, rests) ==
    LET columns == DOMAIN widths \cup DOMAIN rests
        starts == {c \in columns : c - 1 \notin columns \/ ~SameColumn(widths, rests, c - 1, c)}
        EndOf(c) == Max({d \in columns : \A e \in (c + 1)..d : e \in columns \ starts})
        Written(c) == Run(c, EndOf(c), IF c \in DOMAIN widths THEN PxToChars(widths[c]) ELSE NoSize, Get(rests, c, NoRest))
    IN [i \in 1..Cardinality(starts) |-> Written(SetToSortSeq(starts, <)[i])]

(* A row keeps the height the file gave it unless it has another one now.   *)
RowAttrs(sheet, detail, r) ==
    LET original == Get(detail.rowAttrs, r, RowOf(NoSize, NoRest))
        height == Get(sheet.heights, r, NoSize)
    IN IF height = Get(detail.heights, r, NoSize) THEN original
       ELSE [original EXCEPT !.ht = IF height = NoSize THEN NoSize ELSE PxToPoints(height)]

WrittenRows(wb, sheet) ==
    LET detail == DetailOf(wb, sheet)
        rows == {a[1] : a \in DOMAIN sheet.cells \cup StyledCells(wb, sheet)} \cup DOMAIN detail.rowAttrs \cup DOMAIN sheet.heights
    IN [r \in rows |-> RowAttrs(sheet, detail, r)]

WrittenCells(wb, additions, sheet) ==
    [a \in DOMAIN sheet.cells \cup StyledCells(wb, sheet) |->
        WrittenCell(Get(sheet.cells, a, Empty), StyleIndex(wb, additions, sheet, a))]

BoundsOf(addresses) ==
    LET rows == {a[1] : a \in addresses}
        cols == {a[2] : a \in addresses}
    IN IF addresses = {} THEN <<<<1, 1>>, <<1, 1>>>> ELSE <<<<Min(rows), Min(cols)>>, <<Max(rows), Max(cols)>>>>

----------------------------------------------------------------------------
(* Export: where in a worksheet it goes.                                    *)

\* The elements of a worksheet, in the order its schema fixes.
Schema == <<"dimension", "sheetView", "cols", "sheetData", "autoFilter", "mergeCells", "phoneticPr", "conditionalFormatting",
            "dataValidations", "hyperlinks", "pageMargins", "drawing", "tableParts">>
PlaceOf(tag) == CHOOSE i \in DOMAIN Schema : Schema[i] = tag
After(tag, other) == PlaceOf(other) > PlaceOf(tag)

Tagged(ws, tag) == {i \in DOMAIN ws.elements : ws.elements[i].tag = tag}
FirstOr(places, default) == IF places = {} THEN default ELSE Min(places)

MergeInsert(ws) == FirstOr({i \in DOMAIN ws.elements : After("mergeCells", ws.elements[i].tag)}, Len(ws.elements) + 1)

(* New rules go after the last of the file; failing that, before the first  *)
(* element that comes after rules and is not an empty one, or else where    *)
(* merges go.                                                               *)
RuleInsert(ws) ==
    LET last == {i \in Tagged(ws, "conditionalFormatting") : ~ws.elements[i].empty}
        next == {i \in DOMAIN ws.elements : After("conditionalFormatting", ws.elements[i].tag) /\ ~ws.elements[i].empty}
    IN IF last # {} THEN Max(last) + 1 ELSE FirstOr(next, MergeInsert(ws))

ColsInsert(ws) == Min(Tagged(ws, "sheetData"))

(* Elements are put in and taken out where the scan of the original says.   *)
WrittenElements(wb, sheet) ==
    LET ws == ImportedPart(wb, sheet)
        detail == DetailOf(wb, sheet)
        hasCols == DOMAIN sheet.widths \cup DOMAIN detail.colRest # {}
        newMerges == sheet.merged # {} /\ Tagged(ws, "mergeCells") = {}
        newCols == sheet.widths # detail.widths /\ hasCols /\ Tagged(ws, "cols") = {}
        Inserted(i) ==
            (IF newMerges /\ i = MergeInsert(ws) THEN <<Elem("mergeCells", FALSE)>> ELSE <<>>)
            \o (IF newCols /\ i = ColsInsert(ws) THEN <<Elem("cols", FALSE)>> ELSE <<>>)
            \o (IF i = RuleInsert(ws) THEN [k \in DOMAIN sheet.conditional |-> Elem("conditionalFormatting", FALSE)] ELSE <<>>)
        Gone(tag) == (tag = "mergeCells" /\ sheet.merged = {} /\ detail.merged # {})
                     \/ (tag = "cols" /\ sheet.widths # detail.widths /\ ~hasCols)
        Kept(elem) ==
            CASE Gone(elem.tag) -> <<>>
              [] elem.tag = "sheetData" -> <<Elem("sheetData", DOMAIN WrittenRows(wb, sheet) = {})>>
              [] elem.tag = "dimension" -> <<Elem("dimension", TRUE)>>
              [] elem.tag = "sheetView" /\ sheet.frozen # detail.frozen /\ sheet.frozen # <<0, 0>> -> <<Elem("sheetView", FALSE)>>
              [] OTHER -> <<elem>>
    IN FlattenSeq([i \in 1..(Len(ws.elements) + 1) |->
                     Inserted(i) \o (IF i \in DOMAIN ws.elements THEN Kept(ws.elements[i]) ELSE <<>>)])

WrittenPane(wb, sheet) ==
    LET detail == DetailOf(wb, sheet) IN
    CASE sheet.frozen = detail.frozen -> ImportedPart(wb, sheet).pane
      [] sheet.frozen # detail.frozen /\ sheet.frozen = <<0, 0>> -> NoPane
      [] OTHER -> Pane("frozen", sheet.frozen[1], sheet.frozen[2])

(* A rule names the record minted for it.                                   *)
RulesBefore(wb, sheet) ==
    Len(FlattenSeq([i \in 1..((CHOOSE i \in DOMAIN wb.sheets : wb.sheets[i].id = sheet.id) - 1) |-> wb.sheets[i].conditional]))
WrittenRules(wb, sheet) ==
    [i \in DOMAIN sheet.conditional |->
        [range |-> sheet.conditional[i].range, test |-> sheet.conditional[i].test, priority |-> i,
         dxf |-> Len(wb.package.styles.dxfs) + RulesBefore(wb, sheet) + i - 1]]

PatchedSheet(wb, additions, sheet) ==
    LET ws == ImportedPart(wb, sheet)
        detail == DetailOf(wb, sheet)
    IN [elements |-> WrittenElements(wb, sheet),
        dimension |-> IF Tagged(ws, "dimension") = {} THEN ws.dimension ELSE BoundsOf(DOMAIN sheet.cells \cup StyledCells(wb, sheet)),
        pane |-> WrittenPane(wb, sheet),
        cols |-> IF sheet.widths = detail.widths THEN ws.cols ELSE WrittenCols(sheet.widths, detail.colRest),
        rows |-> WrittenRows(wb, sheet),
        cells |-> WrittenCells(wb, additions, sheet),
        merges |-> sheet.merged,
        rules |-> ws.rules \o WrittenRules(wb, sheet)]

(* A freeze cannot be written where there is no view of the sheet.          *)
IsRefused(wb, sheet) ==
    LET ws == ImportedPart(wb, sheet) IN
    /\ sheet.frozen \notin {DetailOf(wb, sheet).frozen, <<0, 0>>}
    /\ ws.pane = NoPane /\ Tagged(ws, "sheetView") = {}

(* The names are left as they were unless one of them changed.              *)
WrittenNames(wb) ==
    LET names == SetToSortSeq(DOMAIN wb.names, <) IN
    IF wb.names = ScannedNames(wb.package) THEN wb.package.defined
    ELSE [i \in DOMAIN names |-> [name |-> names[i], scope |-> "book", to |-> wb.names[names[i]]]] \o OtherNames(wb.package)

Preserved(wb, additions) ==
    LET slots == {SlotOf(wb, wb.sheets[i]) : i \in DOMAIN wb.sheets}
        SheetAt(part) == wb.sheets[CHOOSE i \in DOMAIN wb.sheets : SlotOf(wb, wb.sheets[i]) = part]
    IN [list |-> PatchedList(wb), rels |-> PatchedRels(wb), overrides |-> PatchedTypes(wb),
        sheets |-> [part \in slots |-> PatchedSheet(wb, additions, SheetAt(part))],
        styles |-> PatchedStyles(wb.package.styles, additions),
        others |-> KeptOthers(wb), defined |-> WrittenNames(wb)]

ExportPreserved(wb) == Preserved(wb, Additions(wb))

CanExport(wb) == \A i \in DOMAIN wb.sheets : ~IsRefused(wb, wb.sheets[i])

----------------------------------------------------------------------------
(* A workbook that came from no file is written whole.  Its writer gives    *)
(* every format a record and every part a place; an error has no literal    *)
(* there and is written as the text of its code.                            *)

FreshCell(content, s) == IF content[1] = "error" THEN FileCell(s, NoFormula, <<"text", content[2]>>) ELSE WrittenCell(content, s)

Writer(wb) == [wb EXCEPT !.package = [list |-> <<>>, rels |-> {}, overrides |-> {}, sheets |-> <<>>, styles |-> DefaultStyles,
                                      others |-> {}, defined |-> <<>>],
                         !.parts = <<>>]

\* Excel has no merge of one cell, and rounds a height to the pixel.
FreshSheet(wb, additions, sheet) ==
    LET has == {"dimension", "sheetView", "sheetData", "pageMargins"}
               \cup {"cols" : c \in DOMAIN sheet.widths} \cup {"mergeCells" : m \in sheet.merged}
               \cup {"conditionalFormatting" : i \in DOMAIN sheet.conditional}
    IN [PatchedSheet(Writer(wb), additions, [sheet EXCEPT !.frozen = <<0, 0>>]) EXCEPT
          !.elements = LET tags == SelectSeq(Schema, LAMBDA tag : tag \in has) IN [i \in DOMAIN tags |-> Elem(tags[i], FALSE)],
          !.pane = IF sheet.frozen = <<0, 0>> THEN NoPane ELSE Pane("frozen", sheet.frozen[1], sheet.frozen[2]),
          !.merges = {m \in sheet.merged : m[1] # m[2]},
          !.rows = [r \in DOMAIN @ |-> [@[r] EXCEPT !.ht = IF @ = NoSize THEN NoSize ELSE PxToPoints(100 * ((PointsToPx(@) + 50) \div 100))]],
          !.cells = [a \in DOMAIN @ |-> FreshCell(Get(sheet.cells, a, Empty), @[a].s)]]

Fresh(wb, additions) ==
    LET parts == {SheetPart(i) : i \in DOMAIN wb.sheets}
    IN [list |-> [i \in DOMAIN wb.sheets |-> [name |-> wb.sheets[i].name, rid |-> i, id |-> i, rest |-> NoRest]],
        rels |-> {[id |-> i, kind |-> "worksheet", target |-> SheetPart(i)] : i \in DOMAIN wb.sheets}
                 \cup {[id |-> Len(wb.sheets) + 1, kind |-> "styles", target |-> StylesPart]},
        overrides |-> parts \cup {StylesPart},
        sheets |-> [part \in parts |-> FreshSheet(wb, additions, wb.sheets[part[2]])],
        styles |-> PatchedStyles(DefaultStyles, additions),
        others |-> {}, defined |-> WrittenNames(Writer(wb))]

ExportFresh(wb) == Fresh(wb, Additions(Writer(wb)))

----------------------------------------------------------------------------
(* What is done to the workbook between reading and writing it.             *)

Override(f, x, v, gone) == IF v = gone THEN Restrict(f, DOMAIN f \ {x}) ELSE (x :> v) @@ f
Covers(range, a) == a[1] \in range[1][1]..range[2][1] /\ a[2] \in range[1][2]..range[2][2]
Overlap(m, range) ==
    m[1][1] <= range[2][1] /\ range[1][1] <= m[2][1] /\ m[1][2] <= range[2][2] /\ range[1][2] <= m[2][2]

CellEdit(sheet, a, content) == [sheet EXCEPT !.cells = Override(@, a, content, Empty)]
FormatApply(sheet, a, format) == [sheet EXCEPT !.formats = Override(@, a, format, Plain)]
MergeApply(sheet, range) ==
    [sheet EXCEPT !.merged = {m \in @ : ~Overlap(m, range)} \cup {range},
                  !.cells = Restrict(@, {a \in DOMAIN @ : ~Covers(range, a) \/ a = range[1]})]
MergeClear(sheet, range) == [sheet EXCEPT !.merged = {m \in @ : ~Overlap(m, range)}]
ResizeColumn(sheet, c, px) == [sheet EXCEPT !.widths = Override(@, c, px, NoSize)]
ResizeRow(sheet, r, px) == [sheet EXCEPT !.heights = Override(@, r, px, NoSize)]
FreezePanes(sheet, rows, cols) == [sheet EXCEPT !.frozen = <<rows, cols>>]
CondAdd(sheet, rule) == [sheet EXCEPT !.conditional = Append(@, rule)]

NewSheet(id, name) ==
    [id |-> id, name |-> name, cells |-> <<>>, formats |-> <<>>, merged |-> {}, widths |-> <<>>, heights |-> <<>>,
     frozen |-> <<0, 0>>, conditional |-> <<>>]
SheetAdd(wb, name) == [wb EXCEPT !.sheets = Append(@, NewSheet(Max({0} \cup SheetIds(wb) \cup DOMAIN wb.parts) + 1, name))]
SheetRename(wb, id, name) == [wb EXCEPT !.sheets = [i \in DOMAIN @ |-> IF @[i].id = id THEN [@[i] EXCEPT !.name = name] ELSE @[i]]]
SheetDelete(wb, id) == IF Len(wb.sheets) = 1 THEN wb ELSE [wb EXCEPT !.sheets = SelectSeq(@, LAMBDA sheet : sheet.id # id)]
NameDefine(wb, name, to) == [wb EXCEPT !.names = (name :> to) @@ @]
=============================================================================
