----------------------------- MODULE TrialChecks -----------------------------
(***************************************************************************)
(* What the trials of gradings and variants of tasks, of corrections, of    *)
(* xlsx files and of logs should come to.                                   *)
(***************************************************************************)
EXTENDS Trials

CONSTANTS
    Checks,                     \* what a task asks
    GroupBudget, DepthLimit,    \* bounds of an observation
    DivergenceBudget,           \* cells a correction names
    BuiltinCodes, Colours, Unreadable,
    Moves,                      \* how far routines are moved
    LogRows, LogCols, ShapeSeconds, MinSupport, MaxLength, GapTolerance, MinLength, MinSaved

ASSUME ChecksAssumption == MinSupport \in Nat \ {0} /\ MinLength \in 1..MaxLength

G == INSTANCE Corrections
X == INSTANCE Packages
M == INSTANCE Mining WITH LastRow <- LogRows, LastCol <- LogCols

----------------------------------------------------------------------------
(* Grading.                                                                 *)

(* A formula is another one filled down to its cell. *)
IsFilled(wb, j, k) ==
    LET f == G!FormulaAt(wb, j) IN
    /\ j[1] = k[1] /\ (j[2][2] = k[2][2] \/ f.absCol)
    /\ G!OffsetFormula(f, k[2][1] - j[2][1]) = G!FormulaAt(wb, k)

(* The longest chain of formulas, by its paths. *)
LongestChain(wb) ==
    LET cells == G!FormulaCells(wb)
        IsChain(path) == \A i \in 1..(Len(path) - 1) : path[i] \in G!ReadBy(G!FormulaAt(wb, path[i + 1]), path[i + 1][1])
    IN Max({n \in 0..Cardinality(cells) : n = 0 \/ \E path \in [1..n -> cells] : IsChain(path)})

InCircle(wb) == \E k \in G!FormulaCells(wb) : G!ValueIn(wb, k[1], k[2]) = G!Circular

TypesTogether(types) ==
    LET said == types \ {"empty"}
        sure == said \ {"error"}
    IN IF said = {} THEN "empty"
       ELSE IF sure = {} THEN "error"
       ELSE IF Cardinality(sure) = 1 THEN CHOOSE s \in sure : TRUE
       ELSE "mixed"

(* Nothing stands right of a table's header or under its columns that is    *)
(* not in it, and what its columns are is what their cells are in any order. *)
TableIsWhole(cells) ==
    \A table \in ToSet(G!DetectTables(cells)) :
        /\ ~G!Populated(cells, table.from[1], table.to[2] + 1)
        /\ \A c \in DOMAIN cells : c[1] > table.to[1] => c[2] \notin table.from[2]..table.to[2]
        /\ \A i \in DOMAIN table.columns :
            LET column == table.columns[i]
                body == (table.from[1] + 1)..table.to[1]
            IN /\ IsText(column.header) \/ ~IsEmpty(column.header)
               /\ column.type = TypesTogether({Kind(G!ValueAt(cells, row, column.index)) : row \in body})
               /\ column.allFormulas => column.example # G!NoFormula

IsGraded(check, ref, end) ==
    LET cells == G!Resolve(end, check.ref) IN
    /\ check.kind = "range_filled" /\ ref.from[2] = ref.to[2] =>
        (G!Passes(check, end, trial.wb)
            <=> cells \subseteq G!FormulaCells(end) /\ \A k \in cells : IsFilled(end, <<ref.sheet, ref.from>>, k))
    /\ check.kind \in {"cell_displays", "sum_equals"} => G!Passes(G!Retarget(check, end), end, trial.wb)
    /\ check.kind = "cell_number" =>
        (G!Passes(G!Retarget(check, end), end, trial.wb) <=> IsNumber(G!ValueIn(end, ref.sheet, ref.from)))
    /\ check.kind = "unchanged" => (G!Passes(check, end, trial.wb) <=> cells \cap G!ChangedCells(trial.wb, end) = {})
    /\ G!Grade({check}, trial.wb, trial.wb).incidental = 0

GroupsAreFills(end, formulas, groups, named) ==
    /\ MapThenSumSet(LAMBDA g : g.count, groups) = Cardinality(formulas)
    /\ \A j, k \in formulas :
        j[1] = k[1] /\ j[2][2] = k[2][2] /\ j[2][1] <= k[2][1] =>
            (IsFilled(end, j, k) <=> G!SameFormula(G!FormulaAt(end, j), G!FormulaAt(end, k), j[2], k[2]))
    /\ \A g \in groups : Contains(named, g) \/ Len(named) = GroupBudget
    /\ ~InCircle(end) =>
        /\ G!ChainDepth(end) = Min({DepthLimit, LongestChain(end)})
        /\ \A k \in formulas : k \in G!LeafFormulas(end) <=> ~\E j \in formulas : k \in G!ReadBy(G!FormulaAt(end, j), j[1])

IsSeenWhole(end) ==
    /\ \A check \in Checks : IsGraded(check, [check.ref EXCEPT !.sheet = G!DefaultSheet(end, @)], end)
    /\ G!ChangedCells(trial.wb, end) = G!ChangedCells(end, trial.wb)
    /\ GroupsAreFills(end, G!FormulaCells(end), G!FormulaGroups(end), G!GroupsNamed(end))
    /\ \A s \in ToSet(end) : TableIsWhole(s.cells)

(* A check says what it means: a filled range is the first formula filled   *)
(* down, an expected value taken from the workbook holds there, and a       *)
(* workbook graded against itself has no incidental change; and the formula *)
(* groups and chains of an observation are those the formulas make.         *)
GradesMean == Trying("grading") => IsSeenWhole(G!Performed(trial.wb, trial.actions))

(* A recorded action that moves lines above the inserted ones misplaces the *)
(* actions after it; one that names a sheet whose name ends in the renamed  *)
(* one's is renamed with it.                                                *)
IsFollowed(p, actions, wb) ==
    CASE p.perturb = "insert" ->
            p.fill = <<>> /\ \A action \in ToSet(actions) :
                action.do \in {"insert", "delete"} /\ action.sheet = p.sheet /\ action.axis = p.axis => action.at >= p.at
      [] p.perturb = "rename" ->
            \A name \in (G!Names(wb) \cup UNION {{action.sheet, action.input.formula.sheet} : action \in ToSet(actions)})
                        \ {p.sheet} :
                ~IsSuffix(p.sheet, name) /\ name # p.to
      [] OTHER -> FALSE

IsSplit(p, check) ==
    p.perturb = "insert" /\ p.at > G!OnAxis(p.axis, check.ref.from) /\ p.at <= G!OnAxis(p.axis, check.ref.to)

(* The table of a sheet after an insertion: moved as a whole when that is   *)
(* before it, cut short by a blank column, wider by one with a header.      *)
TableFollows(p, before, after) ==
    LET moved == G!ShiftCell(p, before.from)
        inside == p.axis = "col" /\ p.at \in (before.from[2] + 1)..before.to[2]
    IN /\ after.from = moved
       /\ inside => after.to[2] = (IF p.fill = <<>> THEN p.at - 1 ELSE before.to[2] + p.count)
       /\ moved # before.from =>
            /\ after.to = G!ShiftCell(p, before.to) /\ after.confidence = before.confidence
            /\ [i \in DOMAIN after.columns |-> after.columns[i].type] = [i \in DOMAIN before.columns |-> before.columns[i].type]

SameGrade(p, check, asked, end, start, there) ==
    ~(check.kind = "range_filled" /\ IsSplit(p, check)) =>
        /\ G!Passes(asked, there, start) <=> G!Passes(check, end, trial.wb)
        /\ G!Grade({asked}, there, start).incidental = G!Grade({check}, end, trial.wb).incidental

TablesFollow(p, befores, afters) ==
    \A before \in ToSet(befores) :
        p.axis = "col" \/ p.at <= before.from[1] => afters # <<>> /\ TableFollows(p, before, afters[1])

Formulas(wb) == {<<k, G!FormulaAt(wb, k)>> : k \in G!FormulaCells(wb)}

(* What a step makes of the workbook and what the variant's actions make of *)
(* that, by what the recorded actions made.                                 *)
FollowsTo(p, end, start, variant, there) ==
    /\ IsFollowed(p, trial.actions, trial.wb) =>
        /\ there = G!Perturbed(end, p)
        /\ p.perturb = "rename" => p.sheet \notin G!SheetsMentioned(variant.checks)
        /\ \A check \in Checks : SameGrade(p, check, G!RemapCheck(trial.wb, p, check), end, start, there)
    /\ p.perturb = "insert" =>
        TablesFollow(p, G!DetectTables(G!CellsIn(trial.wb, p.sheet)), G!DetectTables(G!CellsIn(start, p.sheet)))
    /\ p.perturb = "append" => G!FormulaCells(start) = G!FormulaCells(trial.wb)
    /\ p.perturb = "scale" => Formulas(there) = Formulas(end)

KeepsFilled(start, there, kept) ==
    kept.wb # G!Refused =>
        \A check \in kept.checks :
            check.kind = "range_filled" => G!Resolve(start, check.ref) \subseteq G!FormulaCells(there)

FollowsPerturbed(p, end, start, variant) ==
    start # G!Refused =>
        /\ FollowsTo(p, end, start, variant, G!Performed(start, variant.actions))
        /\ p.perturb = "append" =>
            KeepsFilled(start, G!Performed(start, variant.actions), G!Variant(trial.wb, trial.actions, Checks, <<p>>))

(* The variant of a step comes out where the demonstration does: replaying  *)
(* the rewritten actions on the perturbed workbook is perturbing what the   *)
(* recorded ones made, and it is graded as they were.  Rows are appended    *)
(* without a formula of the answer in them, and scaling changes no formula. *)
VariantsFollow ==
    Trying("variant") =>
        FollowsPerturbed(trial.step, G!Performed(trial.wb, trial.actions), G!Perturbed(trial.wb, trial.step),
                         G!Following(trial.wb, trial.actions, Checks, <<trial.step>>))

----------------------------------------------------------------------------
(* Corrections.                                                             *)

(* A recording with another state at a step.                                *)
WithState(trajectory, i, state) == [trajectory EXCEPT !.steps[i].state = state]

Replays(attempt, other) ==
    /\ G!ReplayDiverges(attempt) = 0
    /\ \A i \in DOMAIN attempt.steps :
        attempt.steps[i].state # other => G!ReplayDiverges(WithState(attempt, i, other)) = i

(* The pair to prefer between, from the correction it was made of.          *)
LeadsThere(c, pair) ==
    pair # G!NoPair =>
        /\ G!Performed(pair.from, pair.rejected) = c.attempt.final
        /\ G!Performed(pair.from, pair.preferred) = c.repair.final
        /\ G!Supervised(c) # G!NoPair /\ G!Usable(<<c, c>>) = <<c, c>>

TellsApart(c, changed) ==
    LET cells == {d.at : d \in c.divergence.cells} IN
    /\ cells \subseteq changed
    /\ Cardinality(cells) = Min({DivergenceBudget, Cardinality(changed)})
    /\ Cardinality(cells) <= c.divergence.total
    /\ \A d \in c.divergence.cells :
        /\ d.before = G!Shown(G!ContentAt(c.attempt.final, d.at[1], d.at[2]))
        /\ d.after = G!Shown(G!ContentAt(c.repair.final, d.at[1], d.at[2]))

Teaches(c) ==
    /\ Replays(c.attempt, trial.wb)
    /\ Len(c.divergence.agreed) <= Len(c.attempt.steps)
    /\ G!Performed(c.divergence.agreedFrom, c.divergence.agreed) = c.divergence.common
    /\ LeadsThere(c, G!Preference(c))
    /\ TellsApart(c, G!ChangedCells(c.attempt.final, c.repair.final))

CorrectionChecks == {check \in Checks : G!IsIndependent(check) /\ check.kind # "sums_match"}
CorrectionOf(attempt) ==
    G!CorrectionFrom(attempt, G!Recorded(IF trial.onTop THEN attempt.final ELSE trial.wb, trial.repair, CorrectionChecks))

(* A correction says where the two runs were last alike and what each did   *)
(* from there: doing what is rejected leads to what the agent left, doing   *)
(* what is preferred to what the user left, and the cells it names are      *)
(* those that tell the two apart.  A recording replays to the states in it, *)
(* and one with another state fails there.                                  *)
CorrectionsTeach ==
    Trying("correction") => Teaches(CorrectionOf(G!Recorded(trial.wb, trial.attempt, CorrectionChecks)))

----------------------------------------------------------------------------
(* Files.                                                                   *)

OnSheet(wb, id, Change(_)) ==
    [wb EXCEPT !.sheets = [i \in DOMAIN @ |-> IF @[i].id = id THEN Change(@[i]) ELSE @[i]]]

Done(wb, c) ==
    CASE c.do = "edit" -> OnSheet(wb, c.id, LAMBDA s : X!CellEdit(s, c.at, c.content))
      [] c.do = "format" -> OnSheet(wb, c.id, LAMBDA s : X!FormatApply(s, c.at, c.format))
      [] c.do = "merge" -> OnSheet(wb, c.id, LAMBDA s : X!MergeApply(s, c.range))
      [] c.do = "unmerge" -> OnSheet(wb, c.id, LAMBDA s : X!MergeClear(s, c.range))
      [] c.do = "column" -> OnSheet(wb, c.id, LAMBDA s : X!ResizeColumn(s, c.line, c.px))
      [] c.do = "row" -> OnSheet(wb, c.id, LAMBDA s : X!ResizeRow(s, c.line, c.px))
      [] c.do = "freeze" -> OnSheet(wb, c.id, LAMBDA s : X!FreezePanes(s, c.at[1], c.at[2]))
      [] c.do = "rule" -> OnSheet(wb, c.id, LAMBDA s : X!CondAdd(s, c.rule))
      [] c.do = "add" -> X!SheetAdd(wb, c.name)
      [] c.do = "rename" -> X!SheetRename(wb, c.id, c.name)
      [] c.do = "delete" -> X!SheetDelete(wb, c.id)
      [] c.do = "name" -> X!NameDefine(wb, c.name, c.to)

Modelled(sheet) == [sheet EXCEPT !.id = 0, !.conditional = <<>>]
SameSheets(wb, other) ==
    /\ Len(wb.sheets) = Len(other.sheets)
    /\ \A i \in DOMAIN wb.sheets : Modelled(wb.sheets[i]) = Modelled(other.sheets[i])

(* A workbook of no file is written with its errors as text, and with whole *)
(* pixels.                                                                  *)
Plainer(wb) ==
    [wb EXCEPT !.sheets = [i \in DOMAIN @ |->
        [@[i] EXCEPT !.cells = [a \in DOMAIN @ |-> IF @[a][1] = "error" THEN <<"text", @[a][2]>> ELSE @[a]],
                     !.heights = [r \in DOMAIN @ |-> 100 * ((@[r] + 50) \div 100)]]]]

Rewritten == {"dimension", "sheetView", "cols", "sheetData", "mergeCells", "conditionalFormatting"}
Untouched(ws) == SelectSeq(ws.elements, LAMBDA e : e.tag \notin Rewritten)

(* What the engine does not model of a sheet is in its part as it was.      *)
KeepsUnmodelled(wb, sheet, after) ==
    LET before == X!ImportedPart(wb, sheet) IN
    /\ Untouched(after) = Untouched(before)
    /\ \A r \in DOMAIN before.rows : r \in DOMAIN after.rows \/ before.rows[r] = X!RowOf(X!NoSize, X!NoRest)
    /\ \A r \in DOMAIN after.rows : after.rows[r].rest = X!Get(before.rows, r, X!RowOf(0, X!NoRest)).rest
    /\ X!ScanWorksheet(after).colRest = X!ScanWorksheet(before).colRest
    /\ SubSeq(after.rules, 1, Len(before.rules)) = before.rules
    /\ \A a \in DOMAIN before.cells :
        LET s == before.cells[a].s IN
        s # X!NoStyle => a \in DOMAIN after.cells /\ (X!CurrentFormat(sheet, a) = X!FormatFor(wb.package.styles, s) => after.cells[a].s = s)

(* A number format that a rule was saved with is taken for the one of its   *)
(* cells that is called 0, and is lost on the next of them.                 *)
LosesCode(changes) ==
    changes[1].do = "rule" /\ changes[2].do = "format" /\ changes[1].rule.format.code = changes[2].format.code

SheetIsKept(wb, sheet, saved, after) ==
    LET new == Len(after.rules) - Len(sheet.conditional) IN
    /\ KeepsUnmodelled(wb, sheet, after)
    /\ \A k \in DOMAIN sheet.conditional :
        saved.styles.dxfs[after.rules[new + k].dxf + 1] = sheet.conditional[k].format

FileIsWhole(saved, parts) ==
    /\ {rel.target : rel \in parts} = DOMAIN saved.sheets /\ DOMAIN saved.sheets \subseteq saved.overrides
    /\ \A rel, other \in saved.rels : rel.id = other.id => rel = other

(* What was saved, and what it is when it is opened again.                  *)
ComesBack(wb, saved, again) ==
    /\ SameSheets(again, wb) /\ again.names = wb.names
    /\ X!OtherNames(saved) = X!OtherNames(trial.file)
    /\ X!ExportPreserved(again) = saved
    /\ \A i \in DOMAIN wb.sheets : SheetIsKept(wb, wb.sheets[i], saved, saved.sheets[again.parts[i]])
    /\ FileIsWhole(saved, {rel \in saved.rels : rel.kind = "worksheet"})
    /\ X!Reported(trial.file) \ {"calcChain", "sheetRels"} \subseteq X!Reported(saved) \cup {"rules"}

IsSaved(wb, saved) == ComesBack(wb, saved, X!Import(saved))
IsWritten(wb, fresh) == SameSheets(fresh, Plainer(wb)) /\ fresh.names = wb.names
SavedAndOpened(wb) == X!Import(X!ExportPreserved(wb))

RoundTrips(opened, wb) ==
    /\ X!ExportPreserved(opened) = X!WithStyles(trial.file)
    /\ X!CanExport(wb) => IsSaved(wb, X!ExportPreserved(wb))
    /\ IsWritten(wb, X!Import(X!ExportFresh(wb)))
    /\ Len(trial.changes) = 2 /\ X!CanExport(wb) /\ ~LosesCode(trial.changes) /\ trial.changes[1].do # "delete" =>
        SameSheets(SavedAndOpened(Done(SavedAndOpened(Done(opened, trial.changes[1])), trial.changes[2])), wb)

Changed(opened) == FoldLeft(Done, opened, trial.changes)
ChangedRoundTrips(opened) == RoundTrips(opened, Changed(opened))

(* Saving and opening again gives back the workbook, whatever was done to   *)
(* it in between, with everything of the file the engine does not model     *)
(* where it was; the new rules paint what they are meant to, every sheet is *)
(* where the list of sheets says, and saving what was opened and not        *)
(* touched writes the file it was read from.  Saving once more in between   *)
(* makes no difference.  A workbook of no file is written with the same     *)
(* sheets.                                                                  *)
FilesRoundTrip == Trying("file") => ChangedRoundTrips(X!Import(trial.file))

----------------------------------------------------------------------------
(* The log.                                                                 *)

Recorded(sittings, mode) ==
    FlattenSeq([s \in DOMAIN sittings |->
        [k \in DOMAIN sittings[s] |-> [session |-> s, event |-> M!Describe(sittings[s][k], mode)]]])

Bounds(steps) == M!SessionSpans(steps)
SpanOf(steps, o) == CHOOSE span \in Bounds(steps) : span[1] <= o[1] /\ o[1] < span[2]
StepsOf(o) == o[1]..(o[2] - 1)
Same(steps, i, word) == SubSeq(M!TokensOf(steps), i, i + Len(word) - 1) = word

(* Loops are runs of one sitting, back to back, that share no step; and a   *)
(* repetition is passed over only when the whole run of it meets a loop     *)
(* that was found before.                                                   *)
LoopsAreRuns(steps, loops) ==
    LET tokens == M!TokensOf(steps)
        all == {<<l, o>> : l \in loops, o \in UNION {l.occurrences : l \in loops}}
        placed == {x \in all : x[2] \in x[1].occurrences}
        Run(span, i, period) ==
            i..(i + period * M!Repetitions(SubSeq(tokens, 1, span[2] - 1), i, period) - 1)
    IN /\ \A x \in placed :
            /\ x[2][2] <= SpanOf(steps, x[2])[2] /\ Same(steps, x[2][1], x[1].tokens) /\ Len(x[1].tokens) = x[2][2] - x[2][1]
            /\ \E o \in x[1].occurrences : SpanOf(steps, o) = SpanOf(steps, x[2]) /\ (o[1] = x[2][2] \/ o[2] = x[2][1])
            /\ \A y \in placed : x # y => StepsOf(x[2]) \cap StepsOf(y[2]) = {}
       /\ \A l \in loops : l.support = Cardinality(l.occurrences) /\ M!IsPrimitive(l.tokens)
       /\ \A span \in Bounds(steps) : \A period \in 1..MaxLength : \A i \in span[1]..(span[2] - 2 * period) :
            LET run == Run(span, i, period)
                reps == Cardinality(run) \div period
            IN reps >= 2 /\ (period >= MinLength \/ reps >= MinSupport) /\ M!IsPrimitive(M!Window(tokens, i, period)) =>
                run \cap M!Covered(loops) # {}

(* A habit is seen in a sitting when its steps are there in order, none     *)
(* that a loop explains, each within the gap of the last; "first" when each *)
(* is moreover the first of its kind there is after the last.               *)
SeenIn(steps, explained, span, word, first) ==
    LET Suits(i, k) == i \notin explained /\ steps[i].token = word[k] IN
    \E at \in [DOMAIN word -> StepsOf(span)] : \A k \in DOMAIN word :
        /\ Suits(at[k], k)
        /\ k > 1 => at[k - 1] < at[k] /\ at[k] <= at[k - 1] + GapTolerance + 1
        /\ first => \A i \in (IF k = 1 THEN span[1] ELSE at[k - 1] + 1)..(at[k] - 1) : ~Suits(i, k)

SittingsWith(steps, explained, word, first) == {span \in Bounds(steps) : SeenIn(steps, explained, span, word, first)}

RecurringRecur(steps, explained, recurring) ==
    LET words == UNION {[1..n -> {steps[i].token : i \in DOMAIN steps}] : n \in MinLength..MaxLength}
        Enough(word) == Cardinality(SittingsWith(steps, explained, word, TRUE)) >= MinSupport
    IN /\ \A p \in recurring :
            /\ p.support = Cardinality(SittingsWith(steps, explained, p.tokens, TRUE)) /\ p.support >= MinSupport
            /\ SittingsWith(steps, explained, p.tokens, FALSE) = {SpanOf(steps, o) : o \in p.occurrences}
            /\ \A o \in p.occurrences : SeenIn(steps, explained, o, p.tokens, FALSE)
            /\ \A o, other \in p.occurrences : o # other => StepsOf(o) \cap StepsOf(other) = {}
            /\ \A q \in recurring : p # q => ~M!IsSubsequence(p.tokens, q.tokens)
       /\ \A word \in words : Enough(word) => \E p \in recurring : M!IsSubsequence(word, p.tokens)

Shown(patterns) == {<<p.kind, p.tokens, p.support, Cardinality(p.occurrences)>> : p \in patterns}
LoggedSteps(sittings, mode) == M!Normalize(Recorded(sittings, mode))

PatternsAre(steps, mined, loops, recurring) ==
    /\ LoopsAreRuns(steps, loops)
    /\ RecurringRecur(steps, M!Covered(loops), recurring)
    /\ mined \subseteq loops \cup recurring
    /\ \A p, q \in mined : p.tokens = q.tokens => p = q
    /\ Shown(mined) = Shown(M!MineAll(LoggedSteps(Reverse(trial.sittings), trial.mode)))
    /\ trial.mode # "off" => \A m \in Modes \ {"off"} : LoggedSteps(trial.sittings, m) = steps

MinedAre(steps, mined, loops) == PatternsAre(steps, mined, loops, M!PrefixSpan(steps, M!Covered(loops)))
LoopsOf(patterns) == {p \in patterns : p.kind = "loop"}
MinedFrom(steps, mined) == MinedAre(steps, mined, LoopsOf(mined))
PatternsAreSeen(steps) == MinedFrom(steps, M!MineAll(steps))

(* A habit is proposed once, as the loop or the recurring pattern it is, on *)
(* evidence no other one explains; no habit that is seen from its first     *)
(* step in enough sittings is left out; and neither the order of the        *)
(* sittings nor what may be recorded of a value makes a difference.         *)
HabitsAreSeen == Trying("log") => PatternsAreSeen(LoggedSteps(trial.sittings, trial.mode))

(* What a routine is made of is what was done the last time it was seen, as *)
(* far as the log says it.                                                  *)
LastOf(occurrences) == CHOOSE o \in occurrences : \A other \in occurrences : other[1] <= o[1]
Template(events, steps, p) ==
    LET o == LastOf(p.occurrences)
        Built(i) == M!Rebuild(events[steps[i].source].event)
    IN [done |-> SelectSeq([k \in 1..(o[2] - o[1]) |-> o[1] + k - 1], LAMBDA i : Built(i).is = "action"),
        wanting |-> {i \in StepsOf(o) : Built(i).is = "missing"}]

(* No reference is broken by a move. *)
StaysWhole(a, b) == M!IsFormula(a.input) => b.input.formula.row # 0

TurnsBack(a, built) == built.is = "action" => M!RetargetSheet(built.action, a.sheet) = a

(* What a routine does at a cell away from its own, by the steps it is made *)
(* of.                                                                      *)
DoesAgain(r, made, single, move, run) ==
    /\ \A a \in ToSet(run) : a.sheet = 2
    /\ Len(run) = Len(r.actions) /\ (\A k \in DOMAIN run : StaysWhole(r.actions[k], run[k])) =>
        /\ single => M!TokensOf(LoggedSteps(<<run>>, trial.mode)) = M!TokensOf(made)
        /\ \A k \in DOMAIN run : M!Rebase(run[k], -move[1], -move[2]) = M!RetargetSheet(r.actions[k], 2)

RepeatsSteps(r, events, made, asked) ==
    LET single == \A k \in DOMAIN made : Len(events[made[k].source].event.attributes) < 2 IN
    /\ r.actions = [k \in DOMAIN made |-> M!Rebuild(events[made[k].source].event).action]
    /\ {<<q.by[1] + r.anchor[1], q.by[2] + r.anchor[2]>> : q \in ToSet(r.requires)}
        = {events[step.source].event.args.addr : step \in asked}
    /\ \A move \in Moves :
        DoesAgain(r, made, single, move, M!ActionsAt(r, 2, <<r.anchor[1] + move[1], r.anchor[2] + move[2]>>))

RepeatsTemplate(r, events, steps, template) ==
    RepeatsSteps(r, events, [k \in DOMAIN template.done |-> steps[template.done[k]]], {steps[i] : i \in template.wanting})

RoutinesAre(events, steps, patterns, routines) ==
    /\ \A r, other \in routines : r.id = other.id => r = other
    /\ \A p \in patterns : Template(events, steps, p).done # <<>> <=> \E r \in routines : r.id = p.tokens
    /\ \A r \in routines :
        RepeatsTemplate(r, events, steps, Template(events, steps, CHOOSE p \in patterns : p.tokens = r.id))

RepeatsMined(events, steps) == RoutinesAre(events, steps, M!Ranked(M!MineAll(steps)), M!MineRoutines(events))
RepeatsLog(events) == RepeatsMined(events, M!Normalize(events))

(* A routine run where it was recorded does again what was done there, and  *)
(* at another cell the same thing there: what is recorded of it has the     *)
(* tokens the routine was mined from, without those that cannot be rebuilt. *)
(* Where a gesture named two attributes it is there twice.  What the log    *)
(* hides is asked for at the cell it was typed in.  And the record of an    *)
(* action in full turns back into the action.                               *)
RoutinesRepeat ==
    Trying("log") =>
        /\ \A s \in DOMAIN trial.sittings : \A a \in ToSet(trial.sittings[s]) :
            TurnsBack(a, M!Rebuild(M!Describe(a, "full")))
        /\ RepeatsLog(Recorded(trial.sittings, trial.mode))
=============================================================================
