------------------------------- MODULE Lookups -------------------------------
(***************************************************************************)
(* The lookup functions (engine/functions/lookup.rs) and the conditional    *)
(* aggregates (engine/functions/condagg.rs).                                *)
(*                                                                          *)
(* A table is a sequence of rows of the same length, a line one row or one  *)
(* column of it.  Arguments are evaluated already: what is left out is the  *)
(* counting of arguments and the numbers that are not whole.                *)
(***************************************************************************)
EXTENDS CellValues

CONSTANTS GridRows, GridCols    \* size of a sheet's grid

----------------------------------------------------------------------------
(* Wildcards.  The pattern is read twice in the code: as tokens by the      *)
(* lookups and in place by the criteria.                                    *)

Star == 42
Question == 63
Tilde == 126
Special == {Star, Question, Tilde}

StarToken == <<"star", 0>>
AnyToken == <<"any", 0>>
Literal(c) == <<"char", c>>

(* A tilde before a special character takes its meaning away. *)
Escapes(pattern, i) == pattern[i] = Tilde /\ i < Len(pattern) /\ pattern[i + 1] \in Special
Width(pattern, i) == IF Escapes(pattern, i) THEN 2 ELSE 1
TokenAt(pattern, i) ==
    CASE Escapes(pattern, i) -> Literal(pattern[i + 1])
      [] pattern[i] = Star -> StarToken
      [] pattern[i] = Question -> AnyToken
      [] OTHER -> Literal(pattern[i])
Tokenize(pattern) ==
    LET from[i \in 1..(Len(pattern) + 1)] ==
            IF i > Len(pattern) THEN <<>> ELSE <<TokenAt(pattern, i)>> \o from[i + Width(pattern, i)]
    IN from[1]

(* A place of the pattern and one of the text, the last star before it, and *)
(* where the text that is not the star's goes on.                           *)
NoStar == 0
Places(pat, text) ==
    {at \in [p : 1..(Len(pat) + 1), t : 1..(Len(text) + 1), star : 0..Len(pat), resume : 1..(Len(text) + 1)] :
        at.resume <= at.t}
Beginning == [p |-> 1, t |-> 1, star |-> NoStar, resume |-> 1]
Passed(at, n) == [at EXCEPT !.p = @ + n, !.t = @ + 1]
Starred(at) == [p |-> at.p + 1, t |-> at.t, star |-> at.p, resume |-> at.t]
Retried(at) == [p |-> at.star + 1, t |-> at.resume + 1, star |-> at.star, resume |-> at.resume + 1]

(* lookup.rs: greedy, going back to the last star only. *)
WildcardMatches(pattern, text) ==
    LET pat == Tokenize(pattern)
        run[at \in Places(pat, text)] ==
            IF at.t > Len(text) THEN \A i \in at.p..Len(pat) : pat[i] = StarToken
            ELSE IF at.p <= Len(pat) /\ pat[at.p] = StarToken THEN run[Starred(at)]
            ELSE IF at.p <= Len(pat) /\ pat[at.p] \in {AnyToken, Literal(text[at.t])} THEN run[Passed(at, 1)]
            ELSE IF at.star # NoStar THEN run[Retried(at)]
            ELSE FALSE
    IN run[Beginning]

(* condagg.rs: the same over the characters of the pattern. *)
CriteriaMatches(pat, text) ==
    LET run[at \in Places(pat, text)] ==
            IF at.t > Len(text) THEN \A i \in at.p..Len(pat) : pat[i] = Star
            ELSE IF at.p <= Len(pat) /\ pat[at.p] = Star THEN run[Starred(at)]
            ELSE IF at.p <= Len(pat) /\ pat[at.p] = Question THEN run[Passed(at, 1)]
            ELSE IF at.p <= Len(pat) /\ Escapes(pat, at.p) /\ pat[at.p + 1] = text[at.t] THEN run[Passed(at, 2)]
            ELSE IF at.p <= Len(pat) /\ ~Escapes(pat, at.p) /\ pat[at.p] = text[at.t] THEN run[Passed(at, 1)]
            ELSE IF at.star # NoStar THEN run[Retried(at)]
            ELSE FALSE
    IN run[Beginning]

----------------------------------------------------------------------------
(* Lookups.                                                                 *)

(* What a lookup hands back of a cell. *)
CellResult(v) == IF IsEmpty(v) THEN Number(0) ELSE v

Column(table, c) == [r \in DOMAIN table |-> table[r][c]]
Transposed(table) == [c \in DOMAIN table[1] |-> Column(table, c)]
AsVector(table) == IF Len(table[1]) = 1 THEN Column(table, 1) ELSE table[1]
IsVector(table) == Len(table[1]) = 1 \/ Len(table) = 1

(* The error of a range of one cell is the argument's. *)
IsErrorArgument(table) == Len(table) = 1 /\ Len(table[1]) = 1 /\ IsError(table[1][1])

SameType(a, b) == Kind(a) = Kind(b) /\ Kind(a) \in {"number", "text", "bool"}

LookupEqual(lookup, cell, wildcards) ==
    IF IsError(cell) THEN FALSE
    ELSE IF wildcards /\ IsText(lookup) /\ IsText(cell) THEN WildcardMatches(lookup[2], cell[2])
    ELSE Equal(lookup, cell)

(* Positions, and none of them. *)
Nowhere == 0
First(S) == IF S = {} THEN Nowhere ELSE Min(S)
Final(S) == IF S = {} THEN Nowhere ELSE Max(S)

(* Mutant: the first that is in order is taken. *)
FirstOrdered(lookup, line, forbidden) ==
    First({i \in DOMAIN line : SameType(lookup, line[i]) /\ CompareValues(line[i], lookup) # forbidden})

(* The last of the lookup's type that is not on the wrong side of it. *)
LastOrdered(lookup, line, forbidden) ==
    Final({i \in DOMAIN line : SameType(lookup, line[i]) /\ CompareValues(line[i], lookup) # forbidden})

FirstEqual(lookup, line, wildcards) == First({i \in DOMAIN line : LookupEqual(lookup, line[i], wildcards)})

(* VLOOKUP, and HLOOKUP on the transposed table. *)
VLookup(lookup, table, index, approximate) ==
    LET line == Column(table, 1)
        found == IF approximate THEN LastOrdered(lookup, line, 1) ELSE FirstEqual(lookup, line, TRUE)
    IN IF IsError(lookup) THEN lookup
       ELSE IF IsErrorArgument(table) THEN table[1][1]
       ELSE IF index < 1 THEN ValueError
       ELSE IF index > Len(table[1]) THEN RefError
       ELSE IF found = Nowhere THEN NA
       ELSE CellResult(table[found][index])
HLookup(lookup, table, index, approximate) == VLookup(lookup, Transposed(table), index, approximate)

(* The position found, or the error. *)
PositionOr(found) == IF found = Nowhere THEN NA ELSE Number(found)

Match(lookup, table, type) ==
    LET line == AsVector(table) IN
    IF IsError(lookup) THEN lookup
    ELSE IF IsErrorArgument(table) THEN table[1][1]
    ELSE IF ~IsVector(table) THEN NA
    ELSE IF type > 0 THEN PositionOr(LastOrdered(lookup, line, 1))
    ELSE IF type < 0 THEN PositionOr(LastOrdered(lookup, line, -1))
    ELSE PositionOr(FirstEqual(lookup, line, TRUE))

(* INDEX of one cell; 0 is the whole line, which is only read as a cell     *)
(* when there is one.                                                       *)
Line(n, size) == IF n = 0 /\ size = 1 THEN 1 ELSE n
Index(table, row, col) ==
    LET rows == Len(table)
        cols == Len(table[1])
        r == Line(row, rows)
        c == Line(col, cols)
    IN IF IsErrorArgument(table) THEN table[1][1]
       ELSE IF row < 0 \/ col < 0 \/ r = 0 \/ c = 0 THEN ValueError
       ELSE IF r > rows \/ c > cols THEN RefError
       ELSE CellResult(table[r][c])

(* INDEX with one number walks a line. *)
IndexAlong(table, n) ==
    LET rows == Len(table)  cols == Len(table[1]) IN
    IF n = 0 THEN IF rows = 1 /\ cols = 1 THEN Index(table, 1, 1) ELSE ValueError
    ELSE IF cols = 1 THEN Index(table, n, 1)
    ELSE IF rows = 1 THEN Index(table, 1, n)
    ELSE ValueError

XLookup(lookup, table, results, otherwise, mode) ==
    LET found == FirstEqual(lookup, AsVector(table), mode = 2) IN
    IF IsError(lookup) THEN lookup
    ELSE IF IsErrorArgument(table) THEN table[1][1]
    ELSE IF IsErrorArgument(results) THEN results[1][1]
    ELSE IF mode \notin {0, 2} THEN ValueError
    ELSE IF ~IsVector(table) \/ Len(table) # Len(results) \/ Len(table[1]) # Len(results[1]) THEN ValueError
    ELSE IF found # Nowhere THEN CellResult(AsVector(results)[found])
    ELSE otherwise

(* XMATCH: equal in the direction of the search, or the nearest on one      *)
(* side, wherever it is.  An error in the line is compared like any value.  *)
XMatch(lookup, line, mode, backwards) ==
    LET Hit(v) == IF mode = 2 /\ IsText(lookup) /\ IsText(v) THEN CriteriaMatches(lookup[2], v[2])
                  ELSE Equal(lookup, v)
        hits == {i \in DOMAIN line : Hit(line[i])}
        beside == {i \in DOMAIN line : mode \in {-1, 1} /\ CompareValues(line[i], lookup) = mode}
        nearest == {i \in beside : \A j \in beside : CompareValues(line[j], line[i]) # -mode}
        Pick(S) == IF backwards THEN Final(S) ELSE First(S)
    IN PositionOr(IF hits # {} THEN Pick(hits) ELSE Pick(nearest))

(* LOOKUP: the last that is not greater, whatever its type. *)
Lookup(lookup, keys, results) ==
    LET found == Final({i \in DOMAIN keys : CompareValues(keys[i], lookup) # 1}) IN
    IF found \in DOMAIN results THEN results[found] ELSE NA

Choose(n, values) == IF n \in DOMAIN values THEN values[n] ELSE ValueError

(* References.  A range is [top, left, bottom, right], from 0. *)
RowsIn(ref) == ref.bottom - ref.top + 1
ColsIn(ref) == ref.right - ref.left + 1

NoReference == [top |-> -1, left |-> -1, bottom |-> -1, right |-> -1]

(* #REF! is a reference to nothing. *)
Offset(ref, rows, cols, height, width) ==
    LET top == ref.top + rows
        left == ref.left + cols
        bottom == top + height - 1
        right == left + width - 1
    IN IF \/ height <= 0 \/ width <= 0
          \/ top < 0 \/ left < 0 \/ bottom >= GridRows \/ right >= GridCols
       THEN NoReference
       ELSE [top |-> top, left |-> left, bottom |-> bottom, right |-> right]

----------------------------------------------------------------------------
(* Criteria.                                                                *)

(* A criteria is its operator and what it compares with; an empty rest is a *)
(* test for blanks, unless the operator orders.                             *)
Criteria(op, target) ==
    [op |-> op,
     target |-> IF target = Text(<<>>)
                THEN IF op \in {"=", "<>"} THEN Empty ELSE Text(<<>>)
                ELSE target]

Orders(op, sign) ==
    CASE op = "=" -> sign = 0
      [] op = "<>" -> sign # 0
      [] op = "<" -> sign < 0
      [] op = "<=" -> sign <= 0
      [] op = ">" -> sign > 0
      [] OTHER -> sign >= 0

Satisfies(criteria, v) ==
    LET op == criteria.op  target == criteria.target IN
    IF IsEmpty(target) THEN IF op = "<>" THEN ~IsEmpty(v) ELSE IsEmpty(v)
    ELSE IF IsError(target) THEN IF op = "<>" THEN v # target ELSE v = target
    ELSE IF IsEmpty(v) \/ IsError(v) THEN FALSE
    ELSE IF Kind(v) # Kind(target) THEN op = "<>"
    ELSE IF IsText(target) /\ op = "=" THEN CriteriaMatches(target[2], v[2])
    ELSE IF IsText(target) /\ op = "<>" THEN ~CriteriaMatches(target[2], v[2])
    ELSE Orders(op, CompareValues(v, target))

(* Conditions are lines of the same length, each with its criteria.  The    *)
(* first error in position order, and within a position in the order of the *)
(* conditions, is the result.                                               *)
Matching(conditions) ==
    {i \in DOMAIN conditions[1].line :
        \A n \in DOMAIN conditions : Satisfies(conditions[n].criteria, conditions[n].line[i])}

ConditionError(conditions) ==
    LET width == Len(conditions)
        size == Len(conditions[1].line)
    IN FirstError([k \in 1..(size * width) |->
            conditions[((k - 1) % width) + 1].line[((k - 1) \div width) + 1]])

(* The value range is read at the same positions, blank beyond its end. *)
ValueAt(values, i) == IF i \in DOMAIN values THEN values[i] ELSE Empty

SameShape(conditions) == \A n \in DOMAIN conditions : Len(conditions[n].line) = Len(conditions[1].line)

(* The values at some positions added up. *)
SumAt(values, positions) ==
    LET upto[n \in 0..Len(values)] ==
            IF n = 0 THEN 0
            ELSE IF n \in positions THEN upto[n - 1] + values[n][2]
            ELSE upto[n - 1]
    IN upto[Len(values)]

(* The sum and the count of the numbers at the matching positions. *)
Aggregate(conditions, values) ==
    LET matching == Matching(conditions)
        numbers == {i \in matching : IsNumber(ValueAt(values, i))}
        wrong == {i \in matching : IsError(ValueAt(values, i))}
        error == IF ~SameShape(conditions) THEN ValueError
                 ELSE IF ConditionError(conditions) # Empty THEN ConditionError(conditions)
                 ELSE IF wrong # {} THEN values[Min(wrong)]
                 ELSE Empty
    IN IF error # Empty THEN [error |-> error, sum |-> 0, count |-> 0]
       ELSE [error |-> Empty, sum |-> SumAt(values, numbers),
             count |-> Cardinality(numbers)]

CountIfs(conditions) ==
    IF ~SameShape(conditions) THEN ValueError
    ELSE IF ConditionError(conditions) # Empty THEN ConditionError(conditions)
    ELSE Number(Cardinality(Matching(conditions)))

SumIfs(conditions, values) ==
    LET result == Aggregate(conditions, values) IN
    IF result.error # Empty THEN result.error ELSE Number(result.sum)

(* The average is left as the quotient it is. *)
AverageIfs(conditions, values) ==
    LET result == Aggregate(conditions, values) IN
    IF result.error # Empty THEN result.error
    ELSE IF result.count = 0 THEN DivError
    ELSE <<"quotient", <<result.sum, result.count>>>>
=============================================================================
