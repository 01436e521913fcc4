----------------------------- MODULE CellValues -----------------------------
(***************************************************************************)
(* The values formulas compute with and how they are compared               *)
(* (engine/value.rs, compare_values of engine/eval.rs).                     *)
(*                                                                          *)
(* A text is a sequence of character codes, lower case: every comparison in *)
(* the code lowers its sides first.  Numbers are integers.                  *)
(***************************************************************************)
EXTENDS Integers, Sequences, FiniteSets, SequencesExt, FiniteSetsExt

Number(n) == <<"number", n>>
Text(t) == <<"text", t>>
Bool(b) == <<"bool", b>>
Error(e) == <<"error", e>>
Empty == <<"empty", 0>>

NA == Error("NA")
RefError == Error("REF")
ValueError == Error("VALUE")
DivError == Error("DIV0")
CalcError == Error("CALC")

Kind(v) == v[1]
IsError(v) == Kind(v) = "error"
IsNumber(v) == Kind(v) = "number"
IsText(v) == Kind(v) = "text"
IsEmpty(v) == Kind(v) = "empty"

Sign(n) == IF n < 0 THEN -1 ELSE IF n = 0 THEN 0 ELSE 1

(* Texts compare by their first difference, and a prefix comes first. *)
CompareText(s, t) ==
    LET Differ == {i \in DOMAIN s \intersect DOMAIN t : s[i] # t[i]} IN
    IF Differ = {} THEN Sign(Len(s) - Len(t))
    ELSE Sign(s[Min(Differ)] - t[Min(Differ)])

TruthOf(b) == IF b THEN 1 ELSE 0

(* Numbers before texts before truth values; an error ranks as a number. *)
Rank(v) == CASE IsText(v) -> 1 [] Kind(v) = "bool" -> 2 [] OTHER -> 0

(* What a blank is, beside a value of some kind. *)
ZeroLike(v) ==
    CASE IsText(v) -> Text(<<>>) [] Kind(v) = "bool" -> Bool(FALSE) [] OTHER -> Number(0)

(* A blank is the zero of what it is beside. *)
Beside(v, other) == IF IsEmpty(v) THEN ZeroLike(other) ELSE v

CompareKinds(x, y) ==
    CASE IsNumber(x) /\ IsNumber(y) -> Sign(x[2] - y[2])
      [] IsText(x) /\ IsText(y) -> CompareText(x[2], y[2])
      [] Kind(x) = "bool" /\ Kind(y) = "bool" -> Sign(TruthOf(x[2]) - TruthOf(y[2]))
      [] OTHER -> Sign(Rank(x) - Rank(y))

(* Negative, zero or positive, as a is less than, equal to or more than b.  *)
(* A blank equals a blank and, errors being the caller's business, an error *)
(* equals a blank, a number or an error.                                    *)
CompareValues(a, b) == CompareKinds(Beside(a, b), Beside(b, a))
Equal(a, b) == CompareValues(a, b) = 0

(* The results of a function are values: an error where the code returns    *)
(* one early.                                                               *)
FirstError(values) ==
    LET errors == {i \in DOMAIN values : IsError(values[i])} IN
    IF errors = {} THEN Empty ELSE values[Min(errors)]
HasError(values) == \E i \in DOMAIN values : IsError(values[i])
=============================================================================
