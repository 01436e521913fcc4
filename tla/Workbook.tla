------------------------------- MODULE Workbook -------------------------------
(***************************************************************************)
(* The workbook and its history: the actions that move cells, sheets and   *)
(* names and rewrite the references to them (engine.rs, ops.rs, refs.rs),  *)
(* the undo and redo stacks of recorded previous state, and the batches    *)
(* that come back as one gesture.                                          *)
(*                                                                         *)
(* A sheet is one column of cells.  A formula is the reference it makes,   *)
(* relative, to the sheet it stands on ("here") or to a sheet by name; a   *)
(* defined name is such a reference too.  What a formula evaluates to is   *)
(* left out: every action ends in a recalculation that depends on nothing  *)
(* but the contents.                                                       *)
(***************************************************************************)
EXTENDS Integers, SequencesExt

CONSTANTS
    SheetName,      \* names a sheet may have
    Opened,         \* names of the sheets of the workbook that was opened
    Name,           \* names a user may define
    Rows,           \* rows of a sheet
    Inputs,         \* what the user may type into a cell
    MaxSheets,      \* bound: sheets ever made
    MaxActions      \* bound: actions other than undo and redo

Row == 1..Rows

(* The sheet of a reference that names none, and what the name of a deleted *)
(* sheet is replaced with.                                                 *)
Here == "here"
NoSheet == "none"

Blank == [kind |-> "blank", sheet |-> Here, row |-> 0]
Broken == [kind |-> "broken", sheet |-> Here, row |-> 0]
Ref(n, r) == [kind |-> "ref", sheet |-> n, row |-> r]

ASSUME WorkbookAssumption ==
    /\ SheetName \intersect {Here, NoSheet} = {}
    /\ Opened \in Seq(SheetName) /\ Opened # <<>> /\ IsInjective(Opened)
    /\ Rows \in Nat \ {0}
    /\ Inputs \subseteq
        {Blank} \union {Ref(n, r) : n \in SheetName \union {Here}, r \in Row}
    /\ MaxSheets \in Nat /\ MaxSheets >= Len(Opened)
    /\ MaxActions \in Nat

VARIABLES
    wb,         \* the sheets, by their ids, and the name table
    nextId,     \* id of the next sheet that is made
    undo, redo, \* the stacks: what each entry has to restore
    batch,      \* the mark of the batch that is being applied
    (* What happened, for the properties only. *)
    before,     \* per undo entry, the workbook it was recorded in
    after,      \* per redo entry, the workbook it was taken from
    rewritten,  \* whether a rename or a deletion has rewritten a defined name
    scrambled,  \* whether an entry that touches a place twice was redone
    (* Bound. *)
    actions

vars == <<wb, nextId, undo, redo, batch, before, after, rewritten, scrambled, actions>>

----------------------------------------------------------------------------
Ids(w) == DOMAIN w.sheets

(* What a cell or a name holds.  A row inserted above a reference's target  *)
(* moves the reference with it, off the grid if need be.                   *)
Content == [kind : {"blank", "broken", "ref"}, sheet : SheetName \union {Here}, row : Nat]

Sheet == [name : SheetName, cells : [Row -> Content], formats : SUBSET Row]

(* The sheets of a workbook; no two have one name.                         *)
IsSheets(s) ==
    /\ DOMAIN s \subseteq 1..MaxSheets /\ s \in [DOMAIN s -> Sheet]
    /\ \A i, j \in DOMAIN s : s[i].name = s[j].name => i = j

IsBook(w) == w \in [sheets : {w.sheets}, names : [Name -> Content]] /\ IsSheets(w.sheets)

NoBatch == -1

(* One thing an entry restores.  An entry is a sequence of them, restored  *)
(* from its end.                                                           *)
CellPatch(w, i, r) == [kind |-> "cell", id |-> i, row |-> r, was |-> w.sheets[i].cells[r]]
FormatPatch(w, i, r) ==
    [kind |-> "format", id |-> i, row |-> r, was |-> r \in w.sheets[i].formats]
SheetsPatch(w) == [kind |-> "sheets", was |-> w.sheets]
NamesPatch(w) == [kind |-> "names", was |-> w.names]

IsPatch(p) ==
    CASE p.kind = "cell" ->
            p \in [kind : {"cell"}, id : 1..MaxSheets, row : Row, was : Content]
      [] p.kind = "format" ->
            p \in [kind : {"format"}, id : 1..MaxSheets, row : Row, was : BOOLEAN]
      [] p.kind = "sheets" -> p \in [kind : {"sheets"}, was : {p.was}] /\ IsSheets(p.was)
      [] OTHER -> p \in [kind : {"names"}, was : [Name -> Content]]

IsEntry(e) == e \in Seq(Range(e)) /\ \A p \in Range(e) : IsPatch(p)

TypeOK ==
    /\ IsBook(wb) /\ nextId \in 1..(MaxSheets + 1)
    /\ \A stack \in {undo, redo} :
          stack \in Seq(Range(stack)) /\ \A e \in Range(stack) : IsEntry(e)
    /\ \A books \in {before, after} :
          books \in Seq(Range(books)) /\ \A w \in Range(books) : IsBook(w)
    /\ Len(before) = Len(undo) /\ Len(after) = Len(redo)
    /\ batch \in Nat \union {NoBatch}
    /\ rewritten \in BOOLEAN /\ scrambled \in BOOLEAN
    /\ actions \in 0..MaxActions

EmptySheet(n) == [name |-> n, cells |-> [r \in Row |-> Blank], formats |-> {}]

(* A workbook that was opened: the import's own history is forgotten.      *)
Init ==
    /\ \E c \in Inputs, x \in [Name -> {Blank} \union {Ref(n, 1) : n \in Range(Opened)}] :
        wb = [sheets |-> [i \in 1..Len(Opened) |->
                            [EmptySheet(Opened[i]) EXCEPT !.cells[1] = IF i = 1 THEN c ELSE @]],
              names |-> x]
    /\ nextId = Len(Opened) + 1
    /\ undo = <<>> /\ redo = <<>> /\ batch = NoBatch
    /\ before = <<>> /\ after = <<>> /\ rewritten = FALSE /\ scrambled = FALSE
    /\ actions = 0

----------------------------------------------------------------------------
(* References.                                                             *)

HasSheet(w, n) == \E i \in Ids(w) : w.sheets[i].name = n
SheetByName(w, n) == CHOOSE i \in Ids(w) : w.sheets[i].name = n

(* The sheet a reference on sheet i points at; 0 if there is none.         *)
RefSheet(w, i, c) ==
    IF c.sheet = Here THEN i
    ELSE IF HasSheet(w, c.sheet) THEN SheetByName(w, c.sheet) ELSE 0

(* The workbook with every formula of a cell rewritten.                    *)
Rewrite(w, F(_, _)) ==
    [w EXCEPT !.sheets = [i \in Ids(w) |-> [w.sheets[i] EXCEPT !.cells =
        [r \in Row |-> LET c == w.sheets[i].cells[r] IN
                       IF c.kind = "ref" THEN F(i, c) ELSE c]]]]

(* Copy and paste: a relative reference moves by the distance pasted.      *)
Offset(c, d) ==
    IF c.kind # "ref" THEN c
    ELSE IF c.row + d \in Row THEN [c EXCEPT !.row = @ + d] ELSE Broken

(* Cut and paste: what points at a moved cell moves by the same distance.  *)
Moved(w, sheet, row, d) ==
    Rewrite(w, LAMBDA i, c :
        IF RefSheet(w, i, c) = sheet /\ c.row = row
        THEN [c EXCEPT !.row = @ + d] ELSE c)

(* Where a row goes when one is inserted or deleted; 0 if it is deleted.   *)
MapIndex(r, at, insert) ==
    IF insert THEN IF r >= at THEN r + 1 ELSE r
    ELSE IF r < at THEN r ELSE IF r = at THEN 0 ELSE r - 1

Structural(w, sheet, at, insert) ==
    Rewrite(w, LAMBDA i, c :
        IF RefSheet(w, i, c) # sheet THEN c
        ELSE IF MapIndex(c.row, at, insert) = 0 THEN Broken
        ELSE [c EXCEPT !.row = MapIndex(c.row, at, insert)])

(* A sheet's name in a formula or a defined name is replaced by another, or *)
(* the reference by an error.                                              *)
SheetRef(c, from, to) ==
    IF c.kind # "ref" \/ c.sheet # from THEN c
    ELSE IF to = NoSheet THEN Broken ELSE [c EXCEPT !.sheet = to]

(* Mutant: formulas are rewritten and names are not.                       *)
RewriteFormulasOnly(w, from, to) == Rewrite(w, LAMBDA i, c : SheetRef(c, from, to))

RewriteSheetRefs(w, from, to) ==
    [Rewrite(w, LAMBDA i, c : SheetRef(c, from, to))
        EXCEPT !.names = [x \in Name |-> SheetRef(w.names[x], from, to)]]

----------------------------------------------------------------------------
(* History.                                                                *)

Restored(w, inverse) == [wb |-> w, inverse |-> inverse]

(* One patch restored, and the patch that takes it back.  A patch of a     *)
(* sheet that is not there is dropped.                                     *)
Swap(w, p) ==
    CASE p.kind \in {"cell", "format"} /\ p.id \notin Ids(w) -> Restored(w, <<>>)
      [] p.kind = "cell" /\ p.id \in Ids(w) ->
            Restored([w EXCEPT !.sheets[p.id].cells[p.row] = p.was],
                     <<CellPatch(w, p.id, p.row)>>)
      [] p.kind = "format" /\ p.id \in Ids(w) ->
            Restored([w EXCEPT !.sheets[p.id].formats =
                        IF p.was THEN @ \union {p.row} ELSE @ \ {p.row}],
                     <<FormatPatch(w, p.id, p.row)>>)
      [] p.kind = "sheets" -> Restored([w EXCEPT !.sheets = p.was], <<SheetsPatch(w)>>)
      [] p.kind = "names" -> Restored([w EXCEPT !.names = p.was], <<NamesPatch(w)>>)

(* One more of an entry's patches restored.                                *)
RestoreOne(acc, p) ==
    LET s == Swap(acc.wb, p) IN Restored(s.wb, s.inverse \o acc.inverse)

(* An entry is restored from its end; what takes it back comes in its order. *)
Restore(w, entry) ==
    LET restored[k \in 0..Len(entry)] ==
            IF k = 0 THEN Restored(w, <<>>)
            ELSE RestoreOne(restored[k - 1], entry[Len(entry) + 1 - k])
    IN restored[Len(entry)]

(* Mutant: what was undone can still be redone.                            *)
ApplyKeepingRedo(w, entry) ==
    /\ actions < MaxActions
    /\ actions' = actions + 1
    /\ wb' = w
    /\ undo' = Append(undo, entry)
    /\ before' = Append(before, wb)
    /\ UNCHANGED <<redo, after, batch, scrambled>>

(* An action that did something: its entry goes onto the undo stack, and   *)
(* nothing can be redone any more.                                         *)
Apply(w, entry) ==
    /\ actions < MaxActions
    /\ actions' = actions + 1
    /\ wb' = w
    /\ undo' = Append(undo, entry)
    /\ before' = Append(before, wb)
    /\ redo' = <<>> /\ after' = <<>>
    /\ UNCHANGED <<batch, scrambled>>

(* One that found nothing to do: it has no entry, and still nothing can be *)
(* redone any more.                                                        *)
ApplyNothing ==
    /\ actions < MaxActions
    /\ actions' = actions + 1
    /\ redo' = <<>> /\ after' = <<>>
    /\ UNCHANGED <<wb, undo, before, batch, scrambled>>

(* Two patches of one place: of a cell, of a format, of the name table, or  *)
(* of a sheet that a patch of all the sheets restores too.                 *)
SamePlace(p, q) ==
    \/ p.kind = q.kind /\ (p.kind \in {"cell", "format"} => p.id = q.id /\ p.row = q.row)
    \/ p.kind = "sheets" /\ q.kind # "names"
    \/ q.kind = "sheets" /\ p.kind # "names"

TouchesTwice(entry) == \E k, l \in DOMAIN entry : k # l /\ SamePlace(entry[k], entry[l])

Undo ==
    /\ undo # <<>>
    /\ LET s == Restore(wb, Last(undo)) IN
       wb' = s.wb /\ redo' = Append(redo, s.inverse)
    /\ undo' = Front(undo)
    /\ before' = Front(before) /\ after' = Append(after, wb)
    /\ UNCHANGED <<nextId, batch, rewritten, scrambled, actions>>

Redo ==
    /\ redo # <<>>
    /\ LET s == Restore(wb, Last(redo)) IN
       wb' = s.wb /\ undo' = Append(undo, s.inverse)
    /\ redo' = Front(redo)
    /\ after' = Front(after) /\ before' = Append(before, wb)
    /\ scrambled' = (scrambled \/ TouchesTwice(Last(redo)))
    /\ UNCHANGED <<nextId, batch, rewritten, actions>>

(* apply_batch, one action of it at a time.                                *)
BatchStarts ==
    /\ batch = NoBatch /\ actions < MaxActions
    /\ batch' = Len(undo)
    /\ UNCHANGED <<wb, nextId, undo, redo, before, after, rewritten, scrambled, actions>>

(* Mutant: the parts are put together last first.                          *)
CoalesceBackwards(entries) == FlattenSeq(Reverse(entries))

Coalesce(entries) == FlattenSeq(entries)

(* What the batch pushed becomes one entry.                                *)
BatchEnds ==
    /\ batch # NoBatch
    /\ batch' = NoBatch
    /\ IF Len(undo) > batch + 1
       THEN /\ undo' = Append(SubSeq(undo, 1, batch),
                              Coalesce(SubSeq(undo, batch + 1, Len(undo))))
            /\ before' = SubSeq(before, 1, batch + 1)
       ELSE UNCHANGED <<undo, before>>
    /\ UNCHANGED <<wb, nextId, redo, after, rewritten, scrambled, actions>>

(* An action of the batch is refused: what the earlier ones did stays, as   *)
(* entries of its own.                                                     *)
BatchFails ==
    /\ batch # NoBatch
    /\ batch' = NoBatch
    /\ UNCHANGED <<wb, nextId, undo, redo, before, after, rewritten, scrambled, actions>>

----------------------------------------------------------------------------
(* Actions.                                                                *)

(* cell_edit, which is cell_clear for an empty input.                      *)
CellEdit(i, r, c) ==
    /\ Apply([wb EXCEPT !.sheets[i].cells[r] = c], <<CellPatch(wb, i, r)>>)
    /\ UNCHANGED <<nextId, rewritten>>

(* A row with its content and its format written; what an entry records of   *)
(* the formats, which is nothing where they stay, and of the cells that a   *)
(* rewriting changed.                                                      *)
PutRow(w, i, r, c, bold) ==
    [w EXCEPT !.sheets[i].cells[r] = c,
              !.sheets[i].formats = IF bold THEN @ \union {r} ELSE @ \ {r}]

FormatEntry(w, i, r, bold) ==
    IF bold = (r \in w.sheets[i].formats) THEN <<>> ELSE <<FormatPatch(w, i, r)>>

Touched(w, v) ==
    {p \in Ids(w) \X Row : w.sheets[p[1]].cells[p[2]] # v.sheets[p[1]].cells[p[2]]}

CellEntry(w, places) ==
    LET p == SetToSeq(places) IN
    [k \in 1..Cardinality(places) |-> CellPatch(w, p[k][1], p[k][2])]

(* A row is made bold; an entry is pushed even if it was bold already.     *)
FormatApply(i, r) ==
    /\ Apply([wb EXCEPT !.sheets[i].formats = @ \union {r}], FormatEntry(wb, i, r, TRUE))
    /\ UNCHANGED <<nextId, rewritten>>

(* Row r of sheet i is pasted over row q of sheet j, with its format.      *)
Paste(i, r, j, q) ==
    LET c == wb.sheets[i].cells[r]
        bold == r \in wb.sheets[i].formats
    IN
    /\ Apply(PutRow(wb, j, q, Offset(c, q - r), bold),
             <<CellPatch(wb, j, q)>> \o FormatEntry(wb, j, q, bold))
    /\ UNCHANGED <<nextId, rewritten>>

(* The same for a cut: the source is emptied first, the contents are moved *)
(* as they are, and then whatever points at the source is moved along.     *)
CutPaste(i, r, j, q) ==
    LET c == wb.sheets[i].cells[r]
        bold == r \in wb.sheets[i].formats
        emptied == PutRow(wb, i, r, Blank, FALSE)
        written == PutRow(emptied, j, q, c, bold)
        moved == Moved(written, i, r, q - r)
    IN
    /\ Apply(moved,
             <<CellPatch(wb, i, r), CellPatch(emptied, j, q)>>
                \o CellEntry(written, Touched(written, moved))
                \o <<FormatPatch(wb, i, r)>> \o FormatEntry(emptied, j, q, bold))
    /\ UNCHANGED <<nextId, rewritten>>

(* A row is inserted or deleted: cells and formats move, those pushed off  *)
(* the grid are lost, and formulas are rewritten.  Names are not.          *)
Shift(i, at, insert) ==
    LET From(r) == {o \in Row : MapIndex(o, at, insert) = r}
        s == wb.sheets[i]
        shifted == [s EXCEPT
            !.cells = [r \in Row |-> IF From(r) = {} THEN Blank
                                     ELSE s.cells[CHOOSE o \in From(r) : TRUE]],
            !.formats = {r \in Row : From(r) \intersect s.formats # {}}]
    IN
    /\ Apply(Structural([wb EXCEPT !.sheets[i] = shifted], i, at, insert), <<SheetsPatch(wb)>>)
    /\ UNCHANGED <<nextId, rewritten>>

SheetAdd(n) ==
    /\ ~HasSheet(wb, n) /\ nextId <= MaxSheets
    /\ nextId' = nextId + 1
    /\ Apply([wb EXCEPT !.sheets = [i \in Ids(wb) \union {nextId} |->
                    IF i = nextId THEN EmptySheet(n) ELSE wb.sheets[i]]], <<SheetsPatch(wb)>>)
    /\ UNCHANGED rewritten

SheetRename(i, n) ==
    LET from == wb.sheets[i].name
        w == RewriteSheetRefs(wb, from, n)
    IN
    /\ n # from => ~HasSheet(wb, n)
    /\ Apply([w EXCEPT !.sheets[i].name = n], <<SheetsPatch(wb)>>)
    /\ rewritten' = (rewritten \/ w.names # wb.names)
    /\ UNCHANGED nextId

SheetDelete(i) ==
    LET w == RewriteSheetRefs(wb, wb.sheets[i].name, NoSheet) IN
    /\ Cardinality(Ids(wb)) > 1
    /\ Apply([w EXCEPT !.sheets = [k \in Ids(w) \ {i} |-> w.sheets[k]]], <<SheetsPatch(wb)>>)
    /\ rewritten' = (rewritten \/ w.names # wb.names)
    /\ UNCHANGED nextId

(* Defining a name as what it is changes nothing.                          *)
NameDefine(x, c) ==
    /\ IF wb.names[x] = c THEN ApplyNothing
       ELSE Apply([wb EXCEPT !.names[x] = c], <<NamesPatch(wb)>>)
    /\ UNCHANGED <<nextId, rewritten>>

NameDelete(x) ==
    /\ wb.names[x] # Blank
    /\ Apply([wb EXCEPT !.names[x] = Blank], <<NamesPatch(wb)>>)
    /\ UNCHANGED <<nextId, rewritten>>

----------------------------------------------------------------------------
Next ==
    \/ \E i \in Ids(wb) :
          \/ \E r \in Row, c \in Inputs : CellEdit(i, r, c)
          \/ \E r \in Row : FormatApply(i, r)
          \/ \E r, q \in Row, j \in Ids(wb) : Paste(i, r, j, q) \/ CutPaste(i, r, j, q)
          \/ \E at \in Row, insert \in BOOLEAN : Shift(i, at, insert)
          \/ \E n \in SheetName : SheetRename(i, n)
          \/ SheetDelete(i)
    \/ \E n \in SheetName : SheetAdd(n)
    \/ \E x \in Name :
          \/ \E n \in SheetName : NameDefine(x, Ref(n, 1))
          \/ NameDelete(x)
    \/ Undo \/ Redo
    \/ BatchStarts \/ BatchEnds \/ BatchFails

Spec == Init /\ [][Next]_vars

----------------------------------------------------------------------------
(* Properties.                                                             *)

(* Taking back the last entry brings back the workbook it was recorded in: *)
(* every cell and format of every sheet, also when the entry is a batch's, *)
(* when it was redone before, or when the batch itself undid something.    *)
(* The name table too, unless a rename or a deletion of a sheet got at it. *)
UndoBringsBack ==
    undo # <<>> /\ ~scrambled =>
        LET w == Restore(wb, Last(undo)).wb IN
        /\ w.sheets = Last(before).sheets
        /\ ~rewritten => w.names = Last(before).names

(* What can be redone leads to the workbook it was taken back from, if it  *)
(* touches no place twice: an entry is never replayed on a workbook that    *)
(* has gone on since.                                                      *)
RedoBringsForward ==
    redo # <<>> /\ ~scrambled /\ ~TouchesTwice(Last(redo)) =>
        LET w == Restore(wb, Last(redo)).wb IN
        /\ w.sheets = Last(after).sheets
        /\ ~rewritten => w.names = Last(after).names

Cells(w) == Ids(w) \X Row
CellAt(w, p) == w.sheets[p[1]].cells[p[2]]
PointsAt(w, i, c) == <<RefSheet(w, i, c), c.row>>
Nowhere == <<0, 0>>

(* Contents move as M says, except that those of "lost" are overwritten.   *)
(* Each formula that is left points at where its target went, or is an     *)
(* error if that is gone.  (A target pushed off the grid is not looked at.) *)
FormulasFollow(M(_), lost) ==
    \A p \in Cells(wb) \ lost :
        LET c == CellAt(wb, p)
            target == M(PointsAt(wb, p[1], c))
        IN
        c.kind = "ref" /\ RefSheet(wb, p[1], c) # 0 /\ M(p) \in Cells(wb') =>
            LET new == CellAt(wb', M(p)) IN
            /\ target = Nowhere => new = Broken
            /\ target \in Cells(wb') =>
                    new.kind = "ref" /\ PointsAt(wb', M(p)[1], new) = target

(* The same for the defined names.                                         *)
NamesFollow(M(_)) ==
    \A x \in Name :
        LET c == wb.names[x]
            target == M(PointsAt(wb, 0, c))
            new == wb'.names[x]
        IN
        c.kind = "ref" /\ RefSheet(wb, 0, c) # 0 =>
            IF target = Nowhere THEN new = Broken
            ELSE new.kind = "ref" /\ PointsAt(wb', 0, new) = target

(* What each of the four operations that rewrite references does to them.  *)
RenameFollows ==
    \A i \in Ids(wb), n \in SheetName :
        SheetRename(i, n) => FormulasFollow(LAMBDA p : p, {}) /\ NamesFollow(LAMBDA p : p)

DeleteFollows ==
    \A i \in Ids(wb) :
        LET M(p) == IF p[1] = i THEN Nowhere ELSE p IN
        SheetDelete(i) => FormulasFollow(M, {}) /\ NamesFollow(M)

ShiftFollows ==
    \A i \in Ids(wb), at \in Row, insert \in BOOLEAN :
        LET M(p) == IF p[1] # i THEN p
                    ELSE IF MapIndex(p[2], at, insert) = 0 THEN Nowhere
                    ELSE <<i, MapIndex(p[2], at, insert)>>
        IN Shift(i, at, insert) => FormulasFollow(M, {})

CutFollows ==
    \A i \in Ids(wb), r, q \in Row :
        LET M(p) == IF p = <<i, r>> THEN <<i, q>> ELSE p IN
        CutPaste(i, r, i, q) => FormulasFollow(M, {<<i, q>>} \ {<<i, r>>})

(* A reference keeps its cell: through the renaming of a sheet, whoever    *)
(* names it and how; through a deletion, which breaks the references to    *)
(* the sheet and no others; through the insertion and deletion of rows and  *)
(* a cut within one sheet, where target and formula may both move.         *)
ReferencesFollow ==
    [][actions' # actions =>
        RenameFollows /\ DeleteFollows /\ ShiftFollows /\ CutFollows]_vars

(* structural.rs:449 says that "redoing everything must return to the final *)
(* state": also what touches a cell twice, as a cut to a place that        *)
(* overlaps its source does, and a batch that edits a cell twice.          *)
RedoIsInverse ==
    redo # <<>> /\ ~scrambled => Restore(wb, Last(redo)).wb.sheets = Last(after).sheets
=============================================================================
