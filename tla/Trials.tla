-------------------------------- MODULE Trials --------------------------------
(***************************************************************************)
(* The pure algorithms of the program, tried on inputs.  A trial picks one  *)
(* algorithm and its arguments; the properties relate what the code         *)
(* computes for them to a definition of what it should be, or to what a     *)
(* second algorithm of the code computes.  Here are the trials, and what    *)
(* the lookups, blocks of cells, the calendar, plans and releases should    *)
(* come to; what the other algorithms should is in TrialChecks, and the     *)
(* ledgers, which a trial keeps call by call, are in a module of their own. *)
(***************************************************************************)
EXTENDS CellValues, Ledgers, Calendar, Planners

CONSTANTS
    GridRows, GridCols,         \* the grid of a sheet
    CellLines, Keys,                \* cells in a row, and values looked for
    CriteriaCells,              \* the longest of them that criteria count
    Patterns, Texts,            \* texts with and without wildcards
    Blocks, SortOrders,             \* blocks of cells, and ways to sort them
    Delimiters,                 \* sets of delimiters
    Serials, MonthSteps, DaySteps, Holidays,
    Outcomes, Tables,           \* runs of the agent, and tables it works on
    Corpus, Results,            \* tasks to score a policy on, and how a run of one ends
    Instructions, Thresholds,   \* what it is told, and how sure is sure enough
    Workbooks, Edits, Repairs, Steps,   \* demonstrations, perturbations of them, what is asked
    Files, Changes,             \* xlsx files, and what is done to a workbook
    Logs, Modes                 \* what was done in a row, and how it is recorded

ASSUME TrialsAssumption ==
    /\ GridRows \in Nat \ {0} /\ GridCols \in Nat \ {0}
    /\ Serials \subseteq 0..(LastSerial + 1) /\ MonthSteps \subseteq Int /\ DaySteps \subseteq Int

(* A run of a task leaves a list of graded checks, and counts. *)
ASSUME ResultsAssumption ==
    /\ Len(Corpus) \in Nat /\ DOMAIN Corpus = 1..Len(Corpus)
    /\ \A result \in Results :
        /\ Len(result.checks) \in Nat /\ DOMAIN result.checks = 1..Len(result.checks)
        /\ {result.incidental, result.replans, result.calls} \subseteq Nat

(* A run applies the steps of a plan, to a table of columns, as it was told  *)
(* to in some words.                                                        *)
ASSUME PlansAssumption ==
    /\ \A outcome \in Outcomes : IsOutcome(outcome)
    /\ \A table \in Tables : AreColumns(table)
    /\ \A said \in Instructions : IsSequence(said)

(* A value of some kind, and a line of the cells a lookup looks at.          *)
IsValue(v) ==
    /\ v = <<Kind(v), v[2]>> /\ Kind(v) \in {"number", "text", "bool", "error", "empty"}
    /\ IsNumber(v) => v[2] \in Int
    /\ IsText(v) => v[2] \in Seq(Int)
    /\ Kind(v) = "bool" => v[2] \in BOOLEAN
    /\ IsEmpty(v) => v = Empty
IsLine(line) == IsSequence(line) /\ Len(line) >= 1

(* Lookups are over values, in lines of them, and patterns are texts.        *)
ASSUME LookupsAssumption ==
    /\ \A line \in CellLines : IsLine(line) /\ \A i \in DOMAIN line : IsValue(line[i])
    /\ \A key \in Keys : IsValue(key)
    /\ \A text \in Patterns \cup Texts : IsSequence(text)

(* A block is of values, in rows of one length; the sorts try two columns.   *)
(* SORT refuses another order, and an empty text is no delimiter.           *)
IsRectangle(block) ==
    /\ IsSequence(block) /\ Len(block) >= 1
    /\ \A r \in DOMAIN block :
        /\ IsSequence(block[r]) /\ Len(block[r]) = Len(block[1]) /\ Len(block[r]) >= 2
        /\ \A c \in DOMAIN block[r] : IsValue(block[r][c])
ASSUME BlocksAssumption ==
    /\ \A block \in Blocks : IsRectangle(block)
    /\ SortOrders \subseteq {1, -1}
    /\ \A delims \in Delimiters : \A d \in delims : IsSequence(d) /\ Len(d) >= 1

L == INSTANCE Lookups
A == INSTANCE ArrayFunctions WITH MaxRows <- GridRows, MaxCols <- GridCols
R == INSTANCE Scorecards

Upto(n, S) == UNION {[1..k -> S] : k \in 0..n}

----------------------------------------------------------------------------
(* Trials.                                                                  *)

TryLookup ==
    /\ trial = Nothing
    /\ \E line \in CellLines, key \in Keys : trial' = [of |-> "lookup", line |-> line, key |-> key]

TryWildcard ==
    /\ trial = Nothing
    /\ \E p \in Patterns, t \in Texts : trial' = [of |-> "wildcard", pattern |-> p, text |-> t]

Corners == (0..(GridRows - 1)) \X (0..(GridCols - 1))

TryOffset ==
    /\ trial = Nothing
    /\ \E a, b \in Corners, down, right \in -2..2,
          height \in 1..GridRows, width \in 1..GridCols :
        /\ a[1] <= b[1] /\ a[2] <= b[2]
        /\ trial' = [of |-> "offset", ref |-> [top |-> a[1], left |-> a[2], bottom |-> b[1], right |-> b[2]],
                     down |-> down, right |-> right, height |-> height, width |-> width]

TryCriteria ==
    /\ trial = Nothing
    /\ \E line, other \in CellLines, key \in Keys :
        /\ Len(line) = Len(other) /\ Len(line) <= CriteriaCells
        /\ trial' = [of |-> "criteria", line |-> line, other |-> other, key |-> key]

TryArray ==
    /\ trial = Nothing
    /\ \E block \in Blocks, order \in SortOrders : trial' = [of |-> "array", block |-> block, order |-> order]

TrySplit ==
    /\ trial = Nothing
    /\ \E t \in Texts, cols, rows \in Delimiters, ignore \in BOOLEAN :
        trial' = [of |-> "split", text |-> t, cols |-> cols, rows |-> rows, ignore |-> ignore]

TryDates ==
    /\ trial = Nothing
    /\ \E from, to \in Serials : trial' = [of |-> "dates", from |-> from, to |-> to]

TryTime ==
    /\ trial = Nothing
    /\ \E h \in 0..25, m \in {0, 1, 59, 60}, s \in {0, 59, 60}, half \in {"none", "AM", "PM"} :
        trial' = [of |-> "time", h |-> h, m |-> m, s |-> s, half |-> half]

TryMoves ==
    /\ trial = Nothing
    /\ \E from \in Serials, months \in MonthSteps, days \in DaySteps :
        trial' = [of |-> "moves", from |-> from, months |-> months, days |-> days]

TryLibrary ==
    /\ trial = Nothing
    /\ \E first, second \in Outcomes, table \in Tables :
        trial' = [of |-> "library", outcomes |-> <<first, second>>, table |-> table]

TryRouter ==
    /\ trial = Nothing
    /\ \E outcome \in Outcomes, table \in Tables, said \in Instructions, threshold \in Thresholds, refused \in Upto(2, BOOLEAN) :
        trial' = [of |-> "router", library |-> Remembered(<<outcome>>), table |-> table, said |-> said,
                  threshold |-> threshold, refused |-> refused]

TryReleases ==
    /\ trial = Nothing
    /\ \E results \in [1..3 -> [DOMAIN Corpus -> Results]] :
        trial' = [of |-> "releases", results |-> results]

TryGrading ==
    /\ trial = Nothing
    /\ \E wb \in Workbooks, actions \in Upto(2, Edits) :
        trial' = [of |-> "grading", wb |-> wb, actions |-> actions]

TryVariant ==
    /\ trial = Nothing
    /\ \E wb \in Workbooks, actions \in Upto(2, Edits), step \in Steps :
        trial' = [of |-> "variant", wb |-> wb, actions |-> actions, step |-> step]

TryCorrection ==
    /\ trial = Nothing
    /\ \E wb \in Workbooks, attempt, repair \in Upto(2, Repairs), onTop \in BOOLEAN :
        trial' = [of |-> "correction", wb |-> wb, attempt |-> attempt, repair |-> repair, onTop |-> onTop]

TryFile ==
    /\ trial = Nothing
    /\ \E file \in Files, changes \in Upto(2, Changes) : trial' = [of |-> "file", file |-> file, changes |-> changes]

TryLog ==
    /\ trial = Nothing
    /\ \E sittings \in Logs, mode \in Modes : trial' = [of |-> "log", sittings |-> sittings, mode |-> mode]

Next ==
    \/ LedgerStep
    \/ TryReleases
    \/ TryLog
    \/ TryFile
    \/ TryCorrection
    \/ TryGrading
    \/ TryVariant
    \/ TryLibrary
    \/ TryRouter
    \/ TryLookup
    \/ TryWildcard
    \/ TryOffset
    \/ TryCriteria
    \/ TryArray
    \/ TrySplit
    \/ TryDates
    \/ TryMoves
    \/ TryTime

Spec == Init /\ [][Next]_vars

----------------------------------------------------------------------------
(* Lookups.                                                                 *)

Positions(line, Test(_)) == {i \in DOMAIN line : Test(line[i])}
CountOf(line, Test(_)) == Cardinality(Positions(line, Test))

AllOfType(line, key) == \A i \in DOMAIN line : L!SameType(line[i], key)
InOrder(line, sign) == \A i, j \in DOMAIN line : i < j => CompareValues(line[i], line[j]) # sign
NoErrors(line) == \A i \in DOMAIN line : ~IsError(line[i])
IsWild(v) == IsText(v) /\ \E i \in DOMAIN v[2] : v[2][i] \in L!Special

AsRow(line) == <<line>>
AsColumn(line) == [i \in DOMAIN line |-> <<line[i]>>]

(* On a line in order, a match of the nearest is found by counting. *)
NearestByCounting(line, key) ==
    /\ AllOfType(line, key) /\ InOrder(line, 1) =>
        LET below == CountOf(line, LAMBDA v : CompareValues(v, key) <= 0)
            found == L!Match(key, AsRow(line), 1)
        IN /\ found = L!PositionOr(below)
           /\ found = L!Match(key, AsColumn(line), 1)
           /\ L!VLookup(key, AsColumn(line), 1, TRUE) = (IF below = 0 THEN NA ELSE line[below])
           /\ L!Lookup(key, line, line) = (IF below = 0 THEN NA ELSE line[below])
           /\ LET next == L!XMatch(key, line, -1, FALSE) IN
              IF below = 0 THEN next = NA ELSE line[next[2]] = line[below]
    /\ AllOfType(line, key) /\ InOrder(line, -1) =>
        LET above == CountOf(line, LAMBDA v : CompareValues(v, key) >= 0)
            next == L!XMatch(key, line, 1, FALSE)
        IN /\ L!Match(key, AsRow(line), -1) = L!PositionOr(above)
           /\ IF above = 0 THEN next = NA ELSE line[next[2]] = line[above]

(* The exact lookups find the same cell. *)
ExactAlike(line, key) ==
    ~IsError(key) /\ ~IsWild(key) /\ NoErrors(line) /\ Len(line) > 1 =>
        LET found == L!Match(key, AsRow(line), 0)
            result == IF IsNumber(found) THEN L!CellResult(line[found[2]]) ELSE NA
        IN /\ found = L!XMatch(key, line, 0, FALSE)
           /\ L!VLookup(key, AsColumn(line), 1, FALSE) = result
           /\ L!HLookup(key, AsRow(line), 1, FALSE) = result
           /\ L!XLookup(key, AsRow(line), AsRow(line), NA, 0) = result
           /\ IsNumber(found) => L!IndexAlong(AsRow(line), found[2]) = result

(* Searching backwards is searching the reversed line. *)
BackwardsIsReversed(line, key) ==
    \A mode \in {-1, 0, 1} :
        LET there == L!XMatch(key, line, mode, TRUE)
            back == L!XMatch(key, Reverse(line), mode, FALSE)
        IN IF IsNumber(there) THEN back = Number(Len(line) + 1 - there[2]) ELSE back = there

(* A pattern matches when its tokens share out the text between them. *)
SharesOut(tokens, text) ==
    \E cut \in [1..(Len(tokens) + 1) -> 0..Len(text)] :
        /\ cut[1] = 0 /\ cut[Len(tokens) + 1] = Len(text)
        /\ \A i \in DOMAIN tokens :
            LET taken == cut[i + 1] - cut[i] IN
            CASE tokens[i] = L!StarToken -> taken >= 0
              [] tokens[i] = L!AnyToken -> taken = 1
              [] OTHER -> taken = 1 /\ tokens[i] = L!Literal(text[cut[i + 1]])

(* A reference moved there and back is what it was, and never leaves the    *)
(* grid.                                                                    *)
MovedBack(ref, down, right, height, width) ==
    LET to == L!Offset(ref, down, right, height, width) IN
    to # L!NoReference =>
        /\ to.top >= 0 /\ to.left >= 0 /\ to.bottom < GridRows /\ to.right < GridCols
        /\ L!RowsIn(to) = height /\ L!ColsIn(to) = width
        /\ L!Offset(to, -down, -right, L!RowsIn(ref), L!ColsIn(ref)) = ref

Condition(line, op, target) == [line |-> line, criteria |-> L!Criteria(op, target)]
CountOne(line, op, target) == L!CountIfs(<<Condition(line, op, target)>>)
SumTwo(line, other, op, target, values) ==
    L!SumIfs(<<Condition(line, "<>", Text(<<>>)), Condition(other, op, target)>>, values)

(* Every cell with a value is equal to the target or different from it, and *)
(* one of the target's kind is below, at or above it: so the conditional    *)
(* sums of the two parts add up to the whole one, and the average is the    *)
(* sum by the count.  An empty text is looked for among the blanks, which   *)
(* no order has a place for.                                                *)
CriteriaPartition(line, other, key) ==
    LET full == IF key = Text(<<>>) THEN Len(other) ELSE CountOf(other, LAMBDA v : ~IsEmpty(v))
        equal == <<Condition(other, "=", key)>>
        summed == CountOf([i \in DOMAIN line |-> IF L!Satisfies(L!Criteria("=", key), other[i]) THEN line[i] ELSE Empty], IsNumber)
    IN NoErrors(line) /\ NoErrors(other) /\ ~IsError(key) /\ ~IsEmpty(key) =>
        /\ CountOne(other, "=", key)[2] + CountOne(other, "<>", key)[2] = full
        /\ ~IsWild(key) /\ key # Text(<<>>) =>
            /\ CountOne(other, "<", key)[2] + CountOne(other, "=", key)[2] + CountOne(other, ">", key)[2] <= full
            /\ CountOne(other, "<=", key)[2] >= CountOne(other, "<", key)[2] + CountOne(other, "=", key)[2]
        /\ full = Len(other) =>
            L!SumIfs(<<Condition(line, "<>", Text(<<>>))>>, line)[2]
            = SumTwo(line, other, "=", key, line)[2] + SumTwo(line, other, "<>", key, line)[2]
        /\ L!AverageIfs(equal, line) =
            (IF summed = 0 THEN DivError ELSE <<"quotient", <<L!SumIfs(equal, line)[2], summed>>>>)

(* The lookups find what they promise, whichever of them is asked: an       *)
(* approximate match is the last of those not beyond the key, the exact     *)
(* ones agree, a search from the end is the search of the reversed line,    *)
(* the two readings of wildcards in lookup.rs and condagg.rs are the same,  *)
(* criteria part what they count, and OFFSET stays on the grid and can be   *)
(* taken back.                                                              *)
LookupsFind ==
    /\ Trying("lookup") => /\ NearestByCounting(trial.line, trial.key)
                           /\ ExactAlike(trial.line, trial.key)
                           /\ BackwardsIsReversed(trial.line, trial.key)
    /\ Trying("wildcard") =>
        LET matches == SharesOut(L!Tokenize(trial.pattern), trial.text) IN
        /\ L!WildcardMatches(trial.pattern, trial.text) = matches
        /\ L!CriteriaMatches(trial.pattern, trial.text) = matches
    /\ Trying("criteria") => CriteriaPartition(trial.line, trial.other, trial.key)
    /\ Trying("offset") => MovedBack(trial.ref, trial.down, trial.right, trial.height, trial.width)

----------------------------------------------------------------------------
(* Blocks.                                                                  *)

Values(block, c) == [r \in DOMAIN block |-> block[r][c]]
Likes(block, row) == {i \in DOMAIN block : A!SameRow(block[i], row)}

(* A blank equals 0, the empty text and FALSE, which are not equal: beside  *)
(* the last two of them it has no place in an order.                        *)
HasOrder(block) ==
    \A r, s \in DOMAIN block : \A c \in DOMAIN block[r] :
        IsEmpty(block[r][c]) => block[s][c] \notin {Text(<<>>), Bool(FALSE)}

(* The stable sort by the second column and then the first is the sort by   *)
(* both, and sorting the columns of the turned block is the same again.     *)
SortsAlike(block, order) ==
    LET first == A!Key(Values(block, 1), order)
        second == A!Key(Values(block, 2), order)
        once == A!Sort(block, 2, order, FALSE)
        twice == A!Sort(once, 1, order, FALSE)
    IN /\ twice = A!SortBy(block, <<first, second>>)
       /\ A!Sort(A!Transpose(block), 2, order, TRUE) = A!Transpose(once)
       /\ \A i, j \in DOMAIN twice : i < j => CompareValues(twice[i][1], twice[j][1]) # order
       /\ \A row \in ToSet(block) : CountOf(twice, LAMBDA r : r = row) = CountOf(block, LAMBDA r : r = row)

(* UNIQUE keeps one row of each kind, in the order they first come, and     *)
(* exactly once only those that have no like.                               *)
UniqueAgrees(block) ==
    LET unique == A!Unique(block, FALSE, FALSE)
        once == A!Unique(block, FALSE, TRUE)
    IN /\ \A i, j \in DOMAIN unique : i # j => ~A!SameRow(unique[i], unique[j])
       /\ \A i \in DOMAIN block : \E j \in DOMAIN unique : A!SameRow(block[i], unique[j])
       /\ HasOrder(block) => \A i, j \in DOMAIN unique :
            i < j => Min(Likes(block, unique[i])) < Min(Likes(block, unique[j]))
       /\ \A i \in DOMAIN block :
            (Cardinality(Likes(block, block[i])) = 1) <=> (\E j \in DOMAIN once : once[j] = block[i])
       /\ A!Unique(A!Transpose(block), TRUE, FALSE) = A!Transpose(unique)

(* The rows a mask keeps and those its opposite keeps are all of them, in   *)
(* the order of a sort by the mask.                                         *)
FilterAgrees(block) ==
    LET mask == Values(block, 1)
        opposite == [r \in DOMAIN block |-> Bool(~A!Holds(mask[r]))]
        rank == [r \in DOMAIN block |-> Bool(A!Holds(mask[r]))]
        kept == A!Filter(block, mask, NA)
        rest == A!Filter(block, opposite, NA)
        sorted == A!SortBy(block, <<A!Key(rank, -1)>>)
    IN IF kept = A!Fail(NA) THEN rest = block
       ELSE IF rest = A!Fail(NA) THEN kept = block
       ELSE kept \o rest = sorted

(* A sequence is one that counts along its rows: its rows one after another *)
(* are the sequence in one row, all its rows differ, and sorted the other   *)
(* way they are reversed.  One larger than the grid is refused.             *)
SequenceAgrees(step) ==
    /\ \A rows \in 1..GridRows, cols \in 1..GridCols :
        LET block == A!Sequence(rows, cols, 1, step)
            line == A!Sequence(1, rows * cols, 1, step)[1]
        IN
        /\ rows * cols <= GridCols =>
            /\ Len(line) = rows * cols
            /\ \A r \in 1..rows, c \in 1..cols : line[(r - 1) * cols + c] = block[r][c]
        /\ A!Unique(block, FALSE, TRUE) = block
        /\ A!Sort(block, 1, -step, FALSE) = Reverse(block)
    /\ \A rows \in 0..(GridRows + 1), cols \in 0..(GridCols + 1) :
        A!IsBroken(A!Sequence(rows, cols, 1, step)) <=> ~(rows \in 1..GridRows /\ cols \in 1..GridCols)

(* The text is its parts with a delimiter between each and the next, and no *)
(* part has a delimiter in it.                                              *)
RejoinsTo(parts, delims, text) ==
    \E at \in [DOMAIN parts -> 1..(Len(text) + 1)] :
        LET End(i) == at[i] + Len(parts[i]) IN
        /\ at[1] = 1 /\ End(Len(parts)) = Len(text) + 1
        /\ \A i \in DOMAIN parts : A!StartsAt(text, at[i], parts[i])
        /\ \A i \in 1..(Len(parts) - 1) :
            \E d \in delims : A!StartsAt(text, End(i), d) /\ at[i + 1] = End(i) + Len(d)

SplitAgrees(text, cols, rows, ignore) ==
    LET parts == A!SplitOn(text, cols)
        split == A!TextSplit(text, cols, rows, ignore)
        across == A!TextSplit(text, cols, {}, ignore)
    IN /\ cols # {} =>
            /\ RejoinsTo(parts, cols, text)
            /\ \A n \in DOMAIN parts, d \in cols : \A i \in DOMAIN parts[n] : ~A!StartsAt(parts[n], i, d)
            /\ A!TextSplit(text, cols, {}, FALSE) = <<[i \in DOMAIN parts |-> Text(parts[i])]>>
            /\ A!TextSplit(text, {}, cols, ignore) = (IF A!IsBroken(across) THEN across ELSE A!Transpose(across))
       /\ \A r \in DOMAIN split : Len(split[r]) = Len(split[1])
       /\ ignore => \A r \in DOMAIN split : \A c \in DOMAIN split[r] : split[r][c] # Text(<<>>)

(* The functions that return blocks agree with each other: sorting twice is *)
(* sorting by two keys, filtering by a mask and by its opposite is sorting  *)
(* by it, UNIQUE keeps one of each, columns are the rows of the turned      *)
(* block, SEQUENCE counts along its rows, and TEXTSPLIT loses nothing but   *)
(* delimiters.                                                              *)
ArraysAgree ==
    /\ Trying("array") =>
        /\ SequenceAgrees(trial.order)
        /\ ~A!IsBroken(trial.block) => /\ HasOrder(trial.block) => SortsAlike(trial.block, trial.order)
                                       /\ UniqueAgrees(trial.block)
                                       /\ FilterAgrees(trial.block)
        /\ A!IsBroken(trial.block) =>
            /\ A!Sort(trial.block, 1, trial.order, FALSE) = A!Fail(A!BlockError(trial.block))
            /\ A!Unique(trial.block, TRUE, TRUE) = A!Fail(A!BlockError(trial.block))
    /\ Trying("split") /\ (\A delims \in {trial.cols, trial.rows} \ {{}} : ~A!Panics(trial.text, delims)) =>
        SplitAgrees(trial.text, trial.cols, trial.rows, trial.ignore)

----------------------------------------------------------------------------
(* Dates.                                                                   *)

(* The calendar is one calendar: serials and dates are the same days but    *)
(* for the one in February 1900 that only DATE names, month arithmetic,     *)
(* differences and working days count the same days, and all of it holds    *)
(* across that day.                                                         *)
CalendarAgrees ==
    /\ Trying("dates") => SerialIsItsDate(trial.from) /\ DifferencesAgree(trial.from, trial.to)
    /\ Trying("dates") => FractionsAgree(trial.from, trial.to)
    /\ Trying("time") => TimesAgree(trial.h, trial.m, trial.s, trial.half)
    /\ Trying("moves") => MonthsAgree(trial.from, trial.months) /\ WorkdaysAgree(trial.from, trial.days, Holidays)

----------------------------------------------------------------------------
(* Plans.                                                                   *)

(* What the agent has learnt is what it did: a policy put to a table keeps  *)
(* its shape and binds different columns of it, a run repeated is the same  *)
(* plan, the rules never make a column they were asked for of itself (the   *)
(* one of their own naming they may: see OnlyUnnamedAreReadAgain), and the  *)
(* router leaves a request to the cheap planner only while it is sure and   *)
(* nothing has been refused.                                                *)
PlansFit ==
    /\ Trying("library") =>
        /\ \A minSupport \in 1..2 :
            \A policy \in Policies(Remembered(trial.outcomes), minSupport) : FitsTheTable(policy, trial.table)
        /\ Repeats(trial.outcomes[1], trial.table)
    /\ Trying("router") =>
        /\ RouterCounts(trial.library, trial.said, trial.table, trial.threshold, trial.refused)
        /\ OnlyUnnamedAreReadAgain(Context(trial.said, trial.table, FALSE))

----------------------------------------------------------------------------
(* Releases.                                                                *)

(* A release never takes back a task that an earlier one solved and never   *)
(* touches more of what nobody asked about, however many releases there     *)
(* were between; and two policies are released over each other only when    *)
(* one asks less and the other is refused less.                             *)
ReleasesRatchet ==
    Trying("releases") =>
        LET cards == [i \in 1..3 |-> R!Scorecard("v", Corpus, trial.results[i])]
            now == R!InUse(cards)
        IN /\ R!PassedOf(cards[1]) \subseteq R!PassedOf(now)
           /\ now.incidental <= cards[1].incidental /\ now.touching <= cards[1].touching
           /\ now.forbidden <= cards[1].forbidden
           /\ R!Promoted(cards[1], cards[2]) /\ R!Promoted(cards[2], cards[1]) =>
                (cards[1].calls - cards[2].calls) * (cards[1].replans - cards[2].replans) < 0
           /\ R!Promoted(cards[1], cards[2]) /\ R!Promoted(cards[2], cards[3]) => ~R!Held(cards[1], cards[3])
=============================================================================
