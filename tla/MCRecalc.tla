------------------------------ MODULE MCRecalc ------------------------------
(* Recalc for TLC, with a few formulas of each kind: =A1, SEQUENCE(A1),     *)
(* SEQUENCE(1,A1), IF(ISBLANK(A1),2,1), IF(A1=1,B1,A2), and =N for a name   *)
(* that refers to a cell.                                                   *)
EXTENDS Recalc

CONSTANT Bad    \* #VALUE!

Op(name, cells) == [op |-> name, cells |-> cells]

Copies == {Op("copy", <<c>>) : c \in 1..3}
Names(C) == {Op("name", <<c>>) : c \in C}

MCValue == {Empty, Circ, Spill, Bad} \union {1, 2}

MCReads(f) == IF f.op = "name" THEN {} ELSE {f.cells[i] : i \in DOMAIN f.cells}

MCSees(f) == {f.cells[i] : i \in DOMAIN f.cells}

Filling(m, n, V(_, _)) ==
    [rows |-> m, cols |-> n, values |-> [i \in 0..(m - 1), j \in 0..(n - 1) |-> V(i, j)]]

Scalar(v) == Filling(1, 1, LAMBDA i, j : v)

Errors == {Circ, Spill, Bad}

MCResult(f, seen) ==
    LET arg(i) == seen[f.cells[i]] IN
    CASE f.op \in {"copy", "name"} -> Scalar(arg(1))
      [] f.op \in {"down", "across"} /\ arg(1) \in Errors -> Scalar(arg(1))
      [] f.op \in {"down", "across"} /\ arg(1) = Empty -> Scalar(Bad)
      [] f.op = "down" /\ arg(1) \in Nat -> Filling(arg(1), 1, LAMBDA i, j : i + 1)
      [] f.op = "across" /\ arg(1) \in Nat -> Filling(1, arg(1), LAMBDA i, j : j + 1)
      [] f.op = "isblank" -> Scalar(IF arg(1) = Empty THEN 2 ELSE 1)
      [] f.op = "if" ->
            Scalar(IF arg(1) \in Errors THEN arg(1) ELSE IF arg(1) = 1 THEN arg(2) ELSE arg(3))

AllKinds == Copies \union Names({2})
    \union {Op("down", <<1>>), Op("across", <<1>>), Op("down", <<4>>), Op("isblank", <<3>>),
            Op("if", <<4, 1, 3>>)}

AllKindsDynamic == Names({2})
=============================================================================
